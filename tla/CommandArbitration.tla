-------------------------- MODULE CommandArbitration --------------------------
(***************************************************************************)
(* Who drives the base: the fine-alignment node between Nav2's velocity    *)
(* commands and its own local actions.                                     *)
(*                                                                         *)
(* The node's callbacks (goal admission, status and command subscriptions, *)
(* the mux timer) share one mutually exclusive callback group, so a second *)
(* callback starts only when the mux timer is not running.  The accepted   *)
(* goal runs on a worker thread of its own.  The two sides share three     *)
(* atomics and, under command_mutex_, the alignment command and the        *)
(* navigation gate.  Every access that the other side can observe is a     *)
(* step; a critical section of the worker or of a subscription touches     *)
(* nothing else and is one step, while the mux timer holds the mutex over  *)
(* several reads of atomics, so its section is several steps.              *)
(*                                                                         *)
(* When a local action gives up, when it completes, and which velocity it  *)
(* computes, are left open here.                                           *)
(***************************************************************************)
EXTENDS NavigationCommandGate

CONSTANTS
    StatusTopics,   \* the Nav2 action status topics watched
    MaxTime         \* bound on the clock

Timed == {"timed_reverse", "rotate"}            \* open-loop motions
Actions == {"fine_align", "undock"} \union Timed

VARIABLES
    now,                        \* std::chrono::steady_clock
    operation_active_,
    alignment_active_,
    nav_active_mask_,           \* the status topics that report an active goal
    nav_command_gate_,
    alignment_command_,
    alignment_command_time_,
    mux_pc, now_steady,         \* the mux timer: its place and its clock sample,
    command, source,            \* the command it selected, and from whom
    worker_pc, action,          \* the worker thread: its place and the goal's kind,
    control_time,               \* the clock sample of its current pass
    raw_cmd,                    \* the latest message on raw_cmd_topic
    heard,                      \* auxiliary: the navigation streams the gate accepted
                                \*   a message from since the base last changed hands
    commanded,                  \* auxiliary: alignment_command_ was computed by the
                                \*   attempt now running
    polled_at, command_polled_at \* auxiliary: time of the worker's last passed safety
                                \*   poll, and of the poll behind alignment_command_

clock_vars == <<now>>
mux_vars == <<mux_pc, now_steady, command, source>>
worker_vars == <<worker_pc, action, control_time, polled_at>>
alignment_vars == <<alignment_command_, alignment_command_time_, commanded, command_polled_at>>
gate_vars == <<nav_command_gate_, heard>>
vars == <<clock_vars, mux_vars, worker_vars, alignment_vars, gate_vars,
          operation_active_, alignment_active_, nav_active_mask_, raw_cmd>>

MuxPlaces == {"idle", "sampled", "owned", "selected"}
WorkerPlaces == {"none", "started", "moving", "checked",
                 "clear_flag", "reset", "publish_zero", "stopped", "resolved"}

\* command_mutex_ is held by the mux timer.
MuxHoldsMutex == mux_pc \in {"owned", "selected"}

Init ==
    /\ now = 0
    /\ operation_active_ = FALSE
    /\ alignment_active_ = FALSE
    /\ nav_active_mask_ = {}
    /\ nav_command_gate_ \in {NewGate(m) : m \in BOOLEAN}
    /\ alignment_command_ = Zero
    /\ alignment_command_time_ = Absent
    /\ mux_pc = "idle"
    /\ now_steady = 0
    /\ command = Zero
    /\ source = "navigation"
    /\ worker_pc = "none"
    /\ action = "fine_align"    \* meaningless until a goal is accepted
    /\ control_time = 0
    /\ raw_cmd = Zero
    /\ heard = {}
    /\ commanded = FALSE
    /\ polled_at = 0
    /\ command_polled_at = 0

-----------------------------------------------------------------------------
(* Executor callbacks.  None starts while the mux timer runs.              *)

\* A goal request: compare_exchange on operation_active_ admits one operation at a
\* time and the accepted goal gets its worker thread in the same callback.  A request
\* that finds an operation is rejected and changes nothing.
AcceptGoal(kind) ==
    /\ mux_pc = "idle"
    /\ ~operation_active_
    /\ operation_active_' = TRUE
    /\ worker_pc' = "started"
    /\ action' = kind
    /\ heard' = {}
    /\ commanded' = FALSE
    /\ UNCHANGED <<clock_vars, mux_vars, control_time, polled_at, alignment_active_,
                   nav_active_mask_, nav_command_gate_, alignment_command_,
                   alignment_command_time_, command_polled_at, raw_cmd>>

NavigationStatus(topic, active) ==
    /\ mux_pc = "idle"
    /\ nav_active_mask_' = IF active THEN nav_active_mask_ \union {topic}
                                     ELSE nav_active_mask_ \ {topic}
    /\ UNCHANGED <<clock_vars, mux_vars, worker_vars, alignment_vars, gate_vars,
                   operation_active_, alignment_active_, raw_cmd>>

\* A smoothed command: dropped while an operation owns the base.
NavigationCommand(c) ==
    /\ mux_pc = "idle"
    /\ ~operation_active_
    /\ nav_command_gate_' = Updated(nav_command_gate_, c, now)
    /\ heard' = heard \union {"smoothed"}
    /\ UNCHANGED <<clock_vars, mux_vars, worker_vars, alignment_vars,
                   operation_active_, alignment_active_, nav_active_mask_, raw_cmd>>

RawNavigationCommand(c) ==
    /\ mux_pc = "idle"
    /\ nav_command_gate_.monitor_raw
    /\ ~operation_active_
    /\ nav_command_gate_' = UpdatedRaw(nav_command_gate_, c, now)
    /\ heard' = heard \union {"raw"}
    /\ UNCHANGED <<clock_vars, mux_vars, worker_vars, alignment_vars,
                   operation_active_, alignment_active_, nav_active_mask_, raw_cmd>>

-----------------------------------------------------------------------------
(* The mux timer, publishSelectedCommand().                                *)

MuxBegin ==
    /\ mux_pc = "idle"
    /\ mux_pc' = "sampled"
    /\ now_steady' = now
    /\ UNCHANGED <<clock_vars, command, source, worker_vars, alignment_vars, gate_vars,
                   operation_active_, alignment_active_, nav_active_mask_, raw_cmd>>

\* command_mutex_ is taken and operation_active_ read: with no operation the gate
\* decides.
MuxSelectNavigation ==
    /\ mux_pc = "sampled"
    /\ ~operation_active_
    /\ mux_pc' = "selected"
    /\ command' = CommandAt(nav_command_gate_, now_steady)
    /\ source' = "navigation"
    /\ nav_command_gate_' = AfterCommandAt(nav_command_gate_, now_steady)
    /\ UNCHANGED <<clock_vars, now_steady, worker_vars, alignment_vars, heard,
                   operation_active_, alignment_active_, nav_active_mask_, raw_cmd>>

MuxFindOperation ==
    /\ mux_pc = "sampled"
    /\ operation_active_
    /\ mux_pc' = "owned"
    /\ UNCHANGED <<clock_vars, now_steady, command, source, worker_vars, alignment_vars,
                   gate_vars, operation_active_, alignment_active_, nav_active_mask_, raw_cmd>>

\* Variant: an active navigation goal does not silence the local action.
MayDriveUnderNavigation ==
    /\ alignment_active_
    /\ alignment_command_time_ # Absent
    /\ now_steady - alignment_command_time_ <= Timeout

\* The rest of the condition, whose operands the worker may be changing.
MayDrive ==
    /\ nav_active_mask_ = {}
    /\ alignment_active_
    /\ alignment_command_time_ # Absent
    /\ now_steady - alignment_command_time_ <= Timeout

MuxSelectLocal ==
    /\ mux_pc = "owned"
    /\ mux_pc' = "selected"
    /\ command' = IF MayDrive THEN alignment_command_ ELSE Zero
    /\ source' = "local"
    /\ UNCHANGED <<clock_vars, now_steady, worker_vars, alignment_vars, gate_vars,
                   operation_active_, alignment_active_, nav_active_mask_, raw_cmd>>

\* Publishes, then releases the mutex.
MuxPublish ==
    /\ mux_pc = "selected"
    /\ mux_pc' = "idle"
    /\ raw_cmd' = command
    /\ UNCHANGED <<clock_vars, now_steady, command, source, worker_vars, alignment_vars,
                   gate_vars, operation_active_, alignment_active_, nav_active_mask_>>

-----------------------------------------------------------------------------
(* The worker thread of the accepted goal.                                 *)

\* runAttempt() and both undock modes raise alignment_active_ before their first pass,
\* when no command of this attempt exists yet.
BeginMotion ==
    /\ worker_pc = "started"
    /\ action # "rotate"
    /\ worker_pc' = "moving"
    /\ alignment_active_' = TRUE
    /\ UNCHANGED <<clock_vars, mux_vars, action, control_time, polled_at, alignment_vars,
                   gate_vars, operation_active_, nav_active_mask_, raw_cmd>>

\* The safety checks at the top of a pass let it go on.  The open-loop motions sample the
\* clock just before the checks: taking both at once lets their commands live no shorter.
SafetyPollPasses ==
    /\ worker_pc = "moving" \/ (worker_pc = "started" /\ action = "rotate")
    /\ nav_active_mask_ = {}
    /\ worker_pc' = "checked"
    /\ control_time' = now
    /\ polled_at' = now
    /\ UNCHANGED <<clock_vars, mux_vars, action, alignment_vars, gate_vars,
                   operation_active_, alignment_active_, nav_active_mask_, raw_cmd>>

\* Variant: the open-loop motions are stamped when stored, like fine alignment.
CommandTimesAtStore == {now}

\* The time a pass stamps on its command: the open-loop motions sample the clock with
\* their checks, tag-relative undocking between the checks and the store, and fine
\* alignment at the store.
CommandTimes ==
    CASE action \in Timed -> {control_time}
      [] action = "undock" -> control_time..now
      [] action = "fine_align" -> {now}

StoreCommand(c) ==
    /\ worker_pc = "checked"
    /\ ~MuxHoldsMutex
    /\ worker_pc' = "moving"
    /\ alignment_command_' = c
    /\ \E t \in CommandTimes : alignment_command_time_' = t
    /\ commanded' = TRUE
    /\ command_polled_at' = polled_at
    /\ alignment_active_' = IF action = "rotate" THEN TRUE ELSE alignment_active_
    /\ UNCHANGED <<clock_vars, mux_vars, action, control_time, polled_at, gate_vars,
                   operation_active_, nav_active_mask_, raw_cmd>>

\* A check fails, the goal is canceled, a deadline passes or the motion completes.
EndMotion ==
    /\ worker_pc \in {"started", "moving", "checked"}
    /\ worker_pc' = "clear_flag"
    /\ UNCHANGED <<clock_vars, mux_vars, action, control_time, polled_at, alignment_vars,
                   gate_vars, operation_active_, alignment_active_, nav_active_mask_, raw_cmd>>

\* stopAlignment(), first the atomic flag,
StopFlag ==
    /\ worker_pc = "clear_flag"
    /\ worker_pc' = "reset"
    /\ alignment_active_' = FALSE
    /\ UNCHANGED <<clock_vars, mux_vars, action, control_time, polled_at, alignment_vars,
                   gate_vars, operation_active_, nav_active_mask_, raw_cmd>>

\* Variant: the critical section does not wait for the mux timer.
StopResetUnlocked ==
    /\ worker_pc = "reset"
    /\ worker_pc' = "publish_zero"
    /\ alignment_command_' = Zero
    /\ alignment_command_time_' = Absent
    /\ nav_command_gate_' = Cleared(nav_command_gate_)
    /\ UNCHANGED <<clock_vars, mux_vars, action, control_time, polled_at, commanded,
                   command_polled_at, heard, operation_active_, alignment_active_,
                   nav_active_mask_, raw_cmd>>

\* Variant: the navigation gate keeps what it cached before the operation.
StopResetKeepingGate ==
    /\ worker_pc = "reset"
    /\ ~MuxHoldsMutex
    /\ worker_pc' = "publish_zero"
    /\ alignment_command_' = Zero
    /\ alignment_command_time_' = Absent
    /\ UNCHANGED <<clock_vars, mux_vars, action, control_time, polled_at, commanded,
                   command_polled_at, gate_vars, operation_active_, alignment_active_,
                   nav_active_mask_, raw_cmd>>

\* then the critical section,
StopReset ==
    /\ worker_pc = "reset"
    /\ ~MuxHoldsMutex
    /\ worker_pc' = "publish_zero"
    /\ alignment_command_' = Zero
    /\ alignment_command_time_' = Absent
    /\ nav_command_gate_' = Cleared(nav_command_gate_)
    /\ UNCHANGED <<clock_vars, mux_vars, action, control_time, polled_at, commanded,
                   command_polled_at, heard, operation_active_, alignment_active_,
                   nav_active_mask_, raw_cmd>>

\* and a zero command once the mutex is free again.
StopPublish ==
    /\ worker_pc = "publish_zero"
    /\ worker_pc' = "stopped"
    /\ raw_cmd' = Zero
    /\ UNCHANGED <<clock_vars, mux_vars, action, control_time, polled_at, alignment_vars,
                   gate_vars, operation_active_, alignment_active_, nav_active_mask_>>

\* A retryable failure of fine alignment starts the next attempt; execute() stops
\* after a failed attempt and finish() stops again before the result.
Retry ==
    /\ worker_pc = "stopped"
    /\ action = "fine_align"
    /\ worker_pc' = "started"
    /\ commanded' = FALSE
    /\ UNCHANGED <<clock_vars, mux_vars, action, control_time, polled_at,
                   alignment_command_, alignment_command_time_, command_polled_at,
                   gate_vars, operation_active_, alignment_active_, nav_active_mask_, raw_cmd>>

FinishStopsAgain ==
    /\ worker_pc = "stopped"
    /\ action = "fine_align"
    /\ worker_pc' = "clear_flag"
    /\ UNCHANGED <<clock_vars, mux_vars, action, control_time, polled_at, alignment_vars,
                   gate_vars, operation_active_, alignment_active_, nav_active_mask_, raw_cmd>>

\* handle->succeed(), abort() or canceled(): the client learns the result.
Resolve ==
    /\ worker_pc = "stopped"
    /\ worker_pc' = "resolved"
    /\ UNCHANGED <<clock_vars, mux_vars, action, control_time, polled_at, alignment_vars,
                   gate_vars, operation_active_, alignment_active_, nav_active_mask_, raw_cmd>>

\* Only then is the base given back.
Release ==
    /\ worker_pc = "resolved"
    /\ worker_pc' = "none"
    /\ operation_active_' = FALSE
    /\ heard' = {}
    /\ commanded' = FALSE
    /\ UNCHANGED <<clock_vars, mux_vars, action, control_time, polled_at,
                   alignment_command_, alignment_command_time_, command_polled_at,
                   nav_command_gate_, alignment_active_, nav_active_mask_, raw_cmd>>

-----------------------------------------------------------------------------
Tick ==
    /\ now < MaxTime
    /\ now' = now + 1
    /\ UNCHANGED <<mux_vars, worker_vars, alignment_vars, gate_vars, operation_active_,
                   alignment_active_, nav_active_mask_, raw_cmd>>

Callback ==
    \/ \E kind \in Actions : AcceptGoal(kind)
    \/ \E topic \in StatusTopics, active \in BOOLEAN : NavigationStatus(topic, active)
    \/ \E c \in Messages : NavigationCommand(c) \/ RawNavigationCommand(c)

Mux == MuxBegin \/ MuxSelectNavigation \/ MuxFindOperation \/ MuxSelectLocal \/ MuxPublish

Stop == StopFlag \/ StopReset \/ StopPublish

Worker ==
    \/ BeginMotion
    \/ SafetyPollPasses
    \/ \E c \in Finite : StoreCommand(c)
    \/ EndMotion
    \/ Stop
    \/ Retry
    \/ FinishStopsAgain
    \/ Resolve
    \/ Release

Next == Callback \/ Mux \/ Worker \/ Tick

Spec == Init /\ [][Next]_vars

(***************************************************************************)
(* Properties                                                              *)
(***************************************************************************)

\* Shape of the state; a worker thread exists exactly while an operation is active
\* (the goal callbacks and the stores that release operation_active_).
TypeOK ==
    /\ now \in Nat
    /\ operation_active_ \in BOOLEAN
    /\ alignment_active_ \in BOOLEAN
    /\ nav_active_mask_ \subseteq StatusTopics
    /\ GateOK(nav_command_gate_, now)
    /\ alignment_command_ \in Finite
    /\ alignment_command_time_ \in Nat \union {Absent}
    /\ mux_pc \in MuxPlaces
    /\ now_steady \in Nat
    /\ command \in Finite
    /\ source \in {"navigation", "local"}
    /\ worker_pc \in WorkerPlaces
    /\ action \in Actions
    /\ control_time \in Nat
    /\ raw_cmd \in Finite
    /\ heard \subseteq {"smoothed", "raw"}
    /\ commanded \in BOOLEAN
    /\ polled_at \in Nat
    /\ command_polled_at \in Nat
    /\ operation_active_ <=> worker_pc # "none"

\* The mux timer is about to publish a moving command.
Offers(who) == mux_pc = "selected" /\ source = who /\ command # Zero

\* Nothing cached survives a change of hands: a moving navigation command comes from
\* messages received after the last operation released the base, and a moving local
\* command from the attempt that is running, never from an earlier attempt or goal
\* (stopAlignment() against the subscriptions and the mux timer).
NoReplayAcrossHandover ==
    /\ Offers("navigation") =>
          /\ "smoothed" \in heard
          /\ nav_command_gate_.monitor_raw => "raw" \in heard
    /\ Offers("local") => commanded

\* When a moving local command goes out, its operation still owns the base, has not
\* yet cleared its command, and no navigation goal is active, although the worker may
\* be stopping at that very moment (mux timer against worker).
LocalCommandHasOwner ==
    Offers("local") =>
        /\ operation_active_
        /\ nav_active_mask_ = {}
        /\ worker_pc \in {"moving", "checked", "clear_flag", "reset"}

\* The client of an action learns its result, and the base is given back, only with
\* the base commanded to rest: no late tick of the mux timer moves it again
\* (the zero published by stopAlignment() against a tick in flight).
RestBeforeResult ==
    worker_pc \in {"stopped", "resolved"} => raw_cmd = Zero

\* An open-loop motion goes on only within command_timeout of a passed safety poll,
\* whatever delays the worker between the poll and the store (timed reverse and
\* rotation stamp their command with the clock sample of the poll).  The age is the one
\* at the clock sample of the mux timer, which then still waits for the mutex.
TimedMotionNearPoll ==
    Offers("local") /\ action \in Timed => now_steady - command_polled_at <= Timeout
=============================================================================
