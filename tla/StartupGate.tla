------------------------------ MODULE StartupGate ------------------------------
(***************************************************************************)
(* nav2_localization_startup_gate: it asks the lifecycle manager to start  *)
(* Nav2, once, after localization has been healthy for a while without a   *)
(* break.  Heartbeats and the timer run one at a time in one executor, but *)
(* the timer only samples: what breaks between two of its ticks must be    *)
(* noticed as well.                                                        *)
(*                                                                         *)
(* The monotonic clock is kept as ages, which stop growing one tick past   *)
(* the limit that looks at them.  A timer tick while the reply is pending  *)
(* changes nothing and is left out.                                        *)
(***************************************************************************)
EXTENDS Integers

CONSTANTS
    HoldTime,           \* hold_sec
    HeartbeatTimeout    \* heartbeat_timeout_sec

ASSUME GateAssumption ==
    HoldTime \in Nat \ {0} /\ HeartbeatTimeout \in Nat \ {0}

None == -1

VARIABLES
    ready, last_received, since,    \* ReadinessHold; the times as ages
    future,                         \* "none", "pending", or how the manager answered
    finished, exit_code,
    tf_valid,                       \* what tf_is_fresh() would return
    service, manager,               \* is the service there, does the manager still live?
    requests,                       \* auxiliary: STARTUP requests sent
    unbroken                        \* auxiliary: time since localization last was unhealthy,
                                    \*   or None while its heartbeat is

hold_vars == <<ready, last_received, since>>
outcome_vars == <<future, finished, exit_code, requests>>
surrounding_vars == <<tf_valid, service, manager>>
startup_vars == <<hold_vars, outcome_vars, surrounding_vars, unbroken>>

StartupInit ==
    /\ ready = FALSE /\ last_received = None /\ since = None
    /\ future = "none" /\ finished = FALSE /\ exit_code = 0
    /\ tf_valid \in BOOLEAN /\ service \in BOOLEAN /\ manager = TRUE
    /\ requests = 0
    /\ unbroken = None

Aged(age, limit) == IF age = None \/ age > limit THEN age ELSE age + 1

Alive == last_received \in 0..HeartbeatTimeout

-----------------------------------------------------------------------------
(* ReadinessHold                                                           *)

\* Variant: a heartbeat that comes too late is as good as one in time.
AfterGapIgnored(data) == IF data THEN since ELSE None

\* What receive() leaves of the hold.
AfterHeartbeat(data) ==
    IF ~data \/ (last_received # None /\ ~Alive) THEN None ELSE since

\* on_ready()
Receive(data) ==
    /\ ~finished
    /\ since' = AfterHeartbeat(data)
    /\ ready' = data
    /\ last_received' = 0
    /\ unbroken' = IF ~data THEN None ELSE IF unbroken = None THEN 0 ELSE unbroken
    /\ UNCHANGED <<outcome_vars, surrounding_vars>>

\* Variant: every observation begins the hold again.
ObservedAnew == IF ready /\ Alive /\ tf_valid THEN 0 ELSE None

\* observe()
Observed ==
    IF ~(ready /\ Alive /\ tf_valid) THEN None
    ELSE IF since = None THEN 0
    ELSE since

-----------------------------------------------------------------------------
(* tick()                                                                  *)

Observe ==
    /\ ~finished /\ future = "none"
    /\ since' = Observed
    /\ unbroken' = IF unbroken # None /\ ~tf_valid THEN 0 ELSE unbroken
    /\ UNCHANGED <<ready, last_received, surrounding_vars>>

Qualified == since' >= HoldTime /\ service

TickWaits ==
    /\ Observe
    /\ ~Qualified
    /\ UNCHANGED outcome_vars

TickRequests ==
    /\ Observe
    /\ Qualified
    /\ \/ future' = "pending" /\ requests' = requests + 1 /\ UNCHANGED <<finished, exit_code>>
       \/ exit_code' = 1 /\ finished' = TRUE /\ UNCHANGED <<future, requests>>

\* Variant: the answer is not looked at.
ConcludeAnyhow ==
    /\ ~finished /\ future \in {"succeeded", "failed"}
    /\ finished' = TRUE
    /\ UNCHANGED <<hold_vars, future, exit_code, requests, surrounding_vars, unbroken>>

Conclude ==
    /\ ~finished /\ future \in {"succeeded", "failed"}
    /\ finished' = TRUE
    /\ exit_code' = IF future = "failed" THEN 1 ELSE exit_code
    /\ UNCHANGED <<hold_vars, future, requests, surrounding_vars, unbroken>>

-----------------------------------------------------------------------------
(* The environment: TF, the lifecycle manager and the clock.               *)

TfChanges ==
    /\ tf_valid' = ~tf_valid
    /\ UNCHANGED <<hold_vars, outcome_vars, service, manager, unbroken>>

ServiceChanges ==
    /\ service' = ~service
    /\ UNCHANGED <<hold_vars, outcome_vars, tf_valid, manager, unbroken>>

ManagerDies ==
    /\ manager /\ manager' = FALSE
    /\ UNCHANGED <<hold_vars, outcome_vars, tf_valid, service, unbroken>>

Reply ==
    /\ manager /\ future = "pending"
    /\ future' \in {"succeeded", "failed"}
    /\ UNCHANGED <<hold_vars, finished, exit_code, requests, surrounding_vars, unbroken>>

TimePasses ==
    /\ last_received' = Aged(last_received, HeartbeatTimeout)
    /\ since' = Aged(since, HoldTime)
    /\ unbroken' = IF last_received' > HeartbeatTimeout THEN None ELSE Aged(unbroken, HoldTime)
    /\ UNCHANGED <<ready, outcome_vars, surrounding_vars>>

Timer == TickWaits \/ TickRequests \/ Conclude

StartupNext ==
    \/ \E data \in BOOLEAN : Receive(data)
    \/ Timer
    \/ TfChanges \/ ServiceChanges \/ ManagerDies \/ Reply
    \/ TimePasses

StartupSpec ==
    /\ StartupInit /\ [][StartupNext]_startup_vars
    /\ WF_startup_vars(Timer) /\ WF_startup_vars(Reply) /\ WF_startup_vars(TimePasses)

(***************************************************************************)
(* Properties                                                              *)
(***************************************************************************)

\* Shape of the state: at most one request is ever sent, and the gate ends with a success
\* exactly when the manager reported one.
StartupTypeOK ==
    /\ ready \in BOOLEAN
    /\ last_received \in -1..HeartbeatTimeout + 1
    /\ since \in -1..HoldTime + 1 /\ unbroken \in -1..HoldTime + 1
    /\ future \in {"none", "pending", "succeeded", "failed"}
    /\ requests = IF future = "none" THEN 0 ELSE 1
    /\ finished \in BOOLEAN /\ exit_code \in 0..1
    /\ finished => (exit_code = 0 <=> future = "succeeded")
    /\ tf_valid \in BOOLEAN /\ service \in BOOLEAN /\ manager \in BOOLEAN

\* Nav2 is started only when localization has been ready for hold_sec without a break: no
\* negative or overdue heartbeat in that time, even one the timer never saw, and no tick
\* that found TF stale.
StartupIsEarned == [][requests' > requests => unbroken >= HoldTime]_startup_vars

\* Once localization, TF and the service stay healthy, the gate concludes; unless the
\* manager dies, whose answer it awaits for ever.
GateConcludes ==
    <>[](ready /\ Alive /\ tf_valid /\ service) => <>(finished \/ ~manager)
=============================================================================
