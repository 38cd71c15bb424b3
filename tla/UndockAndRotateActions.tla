------------------------ MODULE UndockAndRotateActions ------------------------
(***************************************************************************)
(* The worker of one undock or rotation goal: executeUndock(), which       *)
(* retreats relative to the tag, executeTimedUndock() and executeRotate(), *)
(* which move open loop for a duration.                                    *)
(*                                                                         *)
(* As in FineAlignAction, reads of one decision are one step and the       *)
(* callbacks run between steps; the open-loop motions judge their time by  *)
(* a clock sample taken at the top of a pass, before they read the rest.   *)
(***************************************************************************)
EXTENDS ActionInputs

CONSTANTS
    AcquisitionTimeout, SettlingDuration,
    UndockTimeout,
    Durations       \* timed_reverse_duration, or the duration a rotation asks for

ASSUME UndockAssumption ==
    /\ {AcquisitionTimeout, SettlingDuration, UndockTimeout} \subseteq Nat
    /\ Durations \subseteq Nat \ {0}
    \* the profiles are finitely many, and a rotation's duration is limited
    /\ \E longest \in Durations : \A d \in Durations : d <= longest

Kinds == {"tag_relative", "timed_reverse", "rotate"}

VARIABLES
    worker_pc,
    kind, duration,         \* what is asked for
    elapsed,                \* time since the acquisition or motion under way began
    sampled,                \* elapsed at the last clock sample
    saw_stop, saw_valid,    \* the collision and manipulation state the pass read
    commanded,              \* has a command been stored?
    status, error_code,     \* what the client is told
    settling,               \* TagPoseSettling, as in FineAlignAction
    dwell, observed,        \* auxiliary, as in FineAlignAction
    late,                   \* auxiliary: commands stored since the motion had to stop and
                            \*   has had to ever since (at most 2)
    since_stop              \* auxiliary: 0 before a collision STOP arrives in motion, then
                            \*   one more than the commands stored since (at most 3)

pass_vars == <<sampled, saw_stop, saw_valid>>
settling_vars == <<settling, dwell, observed>>
request_vars == <<kind, duration>>
result_vars == <<status, error_code>>
auxiliary_vars == <<late, since_stop>>
vars == <<worker_pc, elapsed, commanded, pass_vars, settling_vars, request_vars, result_vars,
          auxiliary_vars, input_vars>>

NotSettling == -1

Codes == {"SUCCESS", "INVALID_GOAL", "INVALID_STATE", "NAVIGATION_ACTIVE", "NO_STABLE_TAG",
          "COLLISION_STOPPED", "UNDOCK_TIMEOUT", "SAFETY_ABORT", "CANCELED", "INVALID_PROFILE"}

Init ==
    /\ InitInputs
    /\ worker_pc = "started"
    /\ kind \in Kinds
    /\ duration \in Durations
    /\ kind = "tag_relative" => \A d \in Durations : d <= duration    \* not used
    /\ elapsed = 0 /\ sampled = 0
    /\ saw_stop = FALSE /\ saw_valid = TRUE
    /\ commanded = FALSE
    /\ status = "executing" /\ error_code = "SUCCESS"
    /\ settling = NotSettling /\ dwell = 0 /\ observed = 0
    /\ late = 0 /\ since_stop = 0

GoTo(place) == worker_pc' = place /\ UNCHANGED result_vars

End(how, code) == worker_pc' = "done" /\ status' = how /\ error_code' = code

\* Variant: the cancel request that caused the end is not told apart.
FinishAborted(code) == End("aborted", code)

\* finishUndock(): a cancel request that has arrived by now decides.
FinishUndock(code) ==
    IF canceling THEN End("canceled", "CANCELED") ELSE End("aborted", code)

\* The reason of an interruption, read afresh; otherwise, the first of the causes left.
Reason(otherwise) ==
    CASE canceling -> "CANCELED"
      [] ~canceling /\ navigation_active -> "NAVIGATION_ACTIVE"
      [] OTHER -> otherwise

-----------------------------------------------------------------------------
(* The checks before anything moves.                                       *)

\* The manipulation state executeUndock() began with is saw_valid.
StartUndock ==
    /\ worker_pc = "started"
    /\ kind # "rotate"
    /\ saw_valid' = state_valid
    /\ \/ FinishUndock("INVALID_PROFILE")
       \/ GoTo("admission")
    /\ UNCHANGED <<elapsed, commanded, sampled, saw_stop, settling_vars, request_vars,
                   auxiliary_vars, input_vars>>

AdmitUndock ==
    /\ worker_pc = "admission"
    /\ CASE navigation_active -> FinishUndock("NAVIGATION_ACTIVE")
         [] ~navigation_active /\ ~saw_valid -> FinishUndock("INVALID_STATE")
         [] OTHER -> GoTo(IF kind = "timed_reverse" THEN "pass" ELSE "acquiring")
    /\ elapsed' = 0
    /\ UNCHANGED <<commanded, pass_vars, settling_vars, request_vars, auxiliary_vars, input_vars>>

\* Speed and duration are checked before anything else.
StartRotate ==
    /\ worker_pc = "started"
    /\ kind = "rotate"
    /\ \/ End("aborted", "INVALID_GOAL")
       \/ GoTo("pass")
    /\ UNCHANGED <<elapsed, commanded, pass_vars, settling_vars, request_vars, auxiliary_vars,
                   input_vars>>

-----------------------------------------------------------------------------
(* The open-loop motions, executeTimedUndock() and executeRotate().        *)

Timed == kind # "tag_relative"

\* Time counts from the first pass that stores a command.
Sample ==
    /\ worker_pc = "pass"
    /\ IF ~ok
       THEN /\ IF kind = "rotate" THEN End("aborted", "SAFETY_ABORT")
                                ELSE FinishUndock("SAFETY_ABORT")
            /\ UNCHANGED <<elapsed, sampled>>
       ELSE /\ GoTo("sampled")
            /\ sampled' = IF commanded THEN elapsed ELSE 0
            /\ elapsed' = IF commanded \/ kind = "timed_reverse" THEN elapsed ELSE 0
    /\ UNCHANGED <<commanded, saw_stop, saw_valid, settling_vars, request_vars, auxiliary_vars,
                   input_vars>>

\* Variant: a timed reverse does not look at the collision state.
TimedPollUnstopped ==
    /\ worker_pc = "sampled"
    /\ kind = "timed_reverse"
    /\ saw_stop' = collision_stopped_
    /\ saw_valid' = state_valid
    /\ GoTo(IF canceling \/ navigation_active \/ ~state_valid THEN "interrupted" ELSE "clear")
    /\ UNCHANGED <<elapsed, commanded, sampled, settling_vars, request_vars, auxiliary_vars,
                   input_vars>>

TimedPoll ==
    /\ worker_pc = "sampled"
    /\ kind = "timed_reverse"
    /\ saw_stop' = collision_stopped_
    /\ saw_valid' = state_valid
    /\ GoTo(IF canceling \/ navigation_active \/ collision_stopped_ \/ ~state_valid
            THEN "interrupted" ELSE "clear")
    /\ UNCHANGED <<elapsed, commanded, sampled, settling_vars, request_vars, auxiliary_vars,
                   input_vars>>

TimedInterrupted ==
    /\ worker_pc = "interrupted"
    /\ kind = "timed_reverse"
    /\ FinishUndock(Reason(IF saw_stop THEN "COLLISION_STOPPED" ELSE "INVALID_STATE"))
    /\ UNCHANGED <<elapsed, commanded, pass_vars, settling_vars, request_vars, auxiliary_vars,
                   input_vars>>

RotatePoll ==
    /\ worker_pc = "sampled"
    /\ kind = "rotate"
    /\ CASE canceling -> End("canceled", "CANCELED")
         [] ~canceling /\ navigation_active -> End("aborted", "NAVIGATION_ACTIVE")
         [] ~canceling /\ ~navigation_active /\ ~state_valid -> End("aborted", "INVALID_STATE")
         [] OTHER -> IF collision_stopped_ THEN End("aborted", "COLLISION_STOPPED")
                                           ELSE GoTo("clear")
    /\ UNCHANGED <<elapsed, commanded, pass_vars, settling_vars, request_vars, auxiliary_vars,
                   input_vars>>

\* Variant: the movement deadline is not compared with the duration.
TimedOutFirst == kind = "timed_reverse" /\ sampled >= UndockTimeout

\* The movement deadline of a timed reverse counts only when it is the earlier one.
TimedOut == kind = "timed_reverse" /\ UndockTimeout < duration /\ sampled >= UndockTimeout

TimedDeadline ==
    /\ worker_pc = "clear"
    /\ TimedOut
    /\ FinishUndock("UNDOCK_TIMEOUT")
    /\ UNCHANGED <<elapsed, commanded, pass_vars, settling_vars, request_vars, auxiliary_vars,
                   input_vars>>

TimedDone ==
    /\ worker_pc = "clear"
    /\ ~TimedOut
    /\ sampled >= duration
    /\ End("succeeded", "SUCCESS")
    /\ UNCHANGED <<elapsed, commanded, pass_vars, settling_vars, request_vars, auxiliary_vars,
                   input_vars>>

\* An open-loop motion tolerates no STOP and no other manipulation state, a retreat no STOP
\* that lasts too long.
MustStop ==
    \/ canceling \/ navigation_active
    \/ Timed /\ (collision_stopped_ \/ ~state_valid)
    \/ ~Timed /\ StopOverdue

Late == IF MustStop /\ late < 2 THEN late + 1 ELSE late
SinceStop == IF since_stop \in 1..2 THEN since_stop + 1 ELSE since_stop

TimedStore ==
    /\ worker_pc = "clear"
    /\ ~TimedOut
    /\ sampled < duration
    /\ GoTo("pass")
    /\ commanded' = TRUE
    /\ late' = Late
    /\ since_stop' = SinceStop
    /\ UNCHANGED <<elapsed, pass_vars, settling_vars, request_vars, input_vars>>

-----------------------------------------------------------------------------
(* The retreat relative to the tag, the rest of executeUndock().           *)

Acquire ==
    /\ worker_pc = "acquiring"
    /\ CASE ~ok -> FinishUndock("SAFETY_ABORT") /\ UNCHANGED elapsed
         [] ok /\ target -> GoTo("moving") /\ elapsed' = 0
         [] OTHER -> GoTo("waiting") /\ UNCHANGED elapsed
    /\ UNCHANGED <<commanded, pass_vars, settling_vars, request_vars, auxiliary_vars, input_vars>>

\* Variant: the wait ends only with a target or an interruption.
AcquirePollUnbounded ==
    /\ worker_pc = "waiting"
    /\ GoTo(IF canceling \/ navigation_active \/ CollisionStopTimedOut \/ ~state_valid
            THEN "interrupted" ELSE "acquiring")
    /\ UNCHANGED <<elapsed, commanded, pass_vars, settling_vars, request_vars, auxiliary_vars,
                   input_vars>>

AcquirePoll ==
    /\ worker_pc = "waiting"
    /\ IF canceling \/ navigation_active \/ CollisionStopTimedOut \/ ~state_valid
       THEN GoTo("interrupted")
       ELSE IF elapsed >= AcquisitionTimeout THEN FinishUndock("NO_STABLE_TAG")
       ELSE GoTo("acquiring")
    /\ UNCHANGED <<elapsed, commanded, pass_vars, settling_vars, request_vars, auxiliary_vars,
                   input_vars>>

AcquireInterrupted ==
    /\ worker_pc = "interrupted"
    /\ kind = "tag_relative"
    /\ FinishUndock(Reason(IF ~state_valid THEN "INVALID_STATE" ELSE "COLLISION_STOPPED"))
    /\ UNCHANGED <<elapsed, commanded, pass_vars, settling_vars, request_vars, auxiliary_vars,
                   input_vars>>

RetreatPoll ==
    /\ worker_pc = "moving"
    /\ IF ~ok THEN FinishUndock("SAFETY_ABORT")
       ELSE IF canceling \/ navigation_active \/ CollisionStopTimedOut THEN GoTo("stopping")
       ELSE IF elapsed >= UndockTimeout THEN FinishUndock("UNDOCK_TIMEOUT")
       ELSE GoTo("polled")
    /\ UNCHANGED <<elapsed, commanded, pass_vars, settling_vars, request_vars, auxiliary_vars,
                   input_vars>>

RetreatInterrupted ==
    /\ worker_pc = "stopping"
    /\ FinishUndock(Reason("COLLISION_STOPPED"))
    /\ UNCHANGED <<elapsed, commanded, pass_vars, settling_vars, request_vars, auxiliary_vars,
                   input_vars>>

\* Variant: a pass that is not eligible does not interrupt settling.
SettledThroughout(eligible, steady) ==
    IF settling = NotSettling THEN (IF eligible THEN 0 ELSE NotSettling)
    ELSE IF eligible /\ unseen /\ ~steady THEN 0
    ELSE settling

Settled(eligible, steady) ==
    IF ~eligible THEN NotSettling
    ELSE IF settling = NotSettling \/ (unseen /\ ~steady) THEN 0
    ELSE settling

Completes(eligible, steady) ==
    eligible /\ settling # NotSettling /\ unseen /\ steady /\ settling >= SettlingDuration

RetreatPass(eligible, steady) ==
    /\ worker_pc = "polled"
    /\ target /\ state_valid
    /\ settling' = Settled(eligible, steady)
    /\ IF Completes(eligible, steady) THEN End("succeeded", "SUCCESS") ELSE GoTo("moving")
    /\ unseen' = FALSE
    /\ dwell' = IF eligible /\ observed > 0 THEN dwell ELSE 0
    /\ observed' = IF ~eligible THEN 0
                   ELSE IF observed = 0 \/ (unseen /\ observed = 1) THEN observed + 1 ELSE observed
    /\ commanded' = TRUE
    /\ late' = Late
    /\ since_stop' = SinceStop
    /\ UNCHANGED <<elapsed, pass_vars, request_vars, ok, canceling,
                   navigation_active, state_valid, stop_vars, target, newer>>

RetreatFails ==
    /\ worker_pc = "polled"
    /\ \/ ~target /\ FinishUndock("NO_STABLE_TAG")
       \/ target /\ ~state_valid /\ FinishUndock("INVALID_STATE")
       \/ target /\ state_valid /\ FinishUndock("SAFETY_ABORT")     \* the controller rejects
    /\ UNCHANGED <<elapsed, commanded, pass_vars, settling_vars, request_vars, auxiliary_vars,
                   input_vars>>

-----------------------------------------------------------------------------
TimedWorker ==
    \/ StartRotate \/ Sample \/ TimedPoll \/ TimedInterrupted \/ RotatePoll
    \/ TimedDeadline \/ TimedDone \/ TimedStore

RetreatWorker ==
    \/ Acquire \/ AcquirePoll \/ AcquireInterrupted
    \/ RetreatPoll \/ RetreatInterrupted \/ RetreatFails
    \/ \E eligible, steady \in BOOLEAN : RetreatPass(eligible, steady)

Worker == StartUndock \/ AdmitUndock \/ TimedWorker \/ RetreatWorker

Callback ==
    /\ worker_pc # "done"
    /\ UNCHANGED <<worker_pc, elapsed, commanded, pass_vars, settling_vars, request_vars,
                   result_vars>>
    /\ InputsChange
    /\ late' = IF MustStop' THEN late ELSE 0
    /\ since_stop' = IF commanded /\ collision_stopped_' /\ since_stop = 0 THEN 1 ELSE since_stop

Limits == Durations \union {AcquisitionTimeout, UndockTimeout}
Longest == CHOOSE t \in Limits : \A u \in Limits : u <= t

Tick ==
    /\ worker_pc # "done"
    /\ InputsAge
    /\ elapsed' = Older(elapsed, Longest)
    /\ settling' = IF settling = NotSettling THEN settling ELSE Older(settling, SettlingDuration)
    /\ dwell' = IF observed > 0 THEN Older(dwell, SettlingDuration) ELSE 0
    /\ UNCHANGED <<worker_pc, commanded, pass_vars, observed, request_vars, result_vars,
                   auxiliary_vars>>

\* The thread has ended.
Ended == worker_pc = "done" /\ UNCHANGED vars

Next == Worker \/ Callback \/ Tick \/ Ended

Spec == Init /\ [][Next]_vars /\ WF_vars(Worker) /\ WF_vars(Tick)

(***************************************************************************)
(* Properties                                                              *)
(***************************************************************************)

Places == {"started", "admission", "pass", "sampled", "interrupted", "clear",
           "acquiring", "waiting", "moving", "stopping", "polled", "done"}

\* What the client is told: a result once the worker is done, with an error exactly when the
\* goal has not succeeded, and CANCELED exactly when it was canceled.
ResultOK ==
    /\ status \in {"executing", "succeeded", "aborted", "canceled"}
    /\ status = "executing" <=> worker_pc # "done"
    /\ error_code \in Codes
    /\ error_code = "SUCCESS" <=> status \in {"executing", "succeeded"}
    /\ error_code = "CANCELED" <=> status = "canceled"

\* What was asked for and what a pass has read.
PassOK ==
    /\ kind \in Kinds /\ duration \in Durations
    /\ elapsed \in 0..Longest + 1 /\ sampled \in 0..Longest + 1
    /\ saw_stop \in BOOLEAN /\ saw_valid \in BOOLEAN /\ commanded \in BOOLEAN

\* Only a motion that has a tag settles.
SettlingOK ==
    /\ settling \in {NotSettling} \union 0..SettlingDuration + 1
    /\ Timed => settling = NotSettling
    /\ dwell \in 0..SettlingDuration + 1
    /\ observed \in 0..2

\* Types of the state; an age passes its limit by one at most.
TypeOK ==
    /\ InputsOK
    /\ worker_pc \in Places
    /\ ResultOK
    /\ PassOK
    /\ SettlingOK
    /\ late \in 0..2 /\ since_stop \in 0..3

\* A retreat relative to the tag succeeds only if its last passes were eligible without a
\* break for settling_duration and on two different observations at least.
SuccessIsSettled ==
    status = "succeeded" /\ ~Timed => dwell >= SettlingDuration /\ observed >= 2

\* Once the motion has to stop and as long as it has to (canceled, Nav2 active, in open loop a
\* collision STOP or a manipulation state in between, in a retreat a STOP that has lasted
\* longer than its timeout, however often it was repeated), only the pass that was under way
\* still stores a command.
AtMostOneLateCommand == late <= 1

\* A timed reverse is decided by the earlier of its duration and the movement deadline even
\* when one late pass finds both over, and equal deadlines let it succeed (executeTimedUndock()
\* compares the two settings before it looks at the clock sample).
EarlierDeadlineDecides ==
    kind = "timed_reverse" =>
        /\ status = "succeeded" => duration <= UndockTimeout
        /\ error_code = "UNDOCK_TIMEOUT" => UndockTimeout < duration

\* Every goal ends, whatever the callbacks do.
GoalEnds == <>(worker_pc = "done")

\* After a collision STOP during an open-loop motion only the pass that was under way still
\* stores a command: the motion never resumes (what the README says of timed undocking and of
\* rotation; the worker reads the collision state once per pass, though).
AnyStopAborts == Timed => since_stop < 3
=============================================================================
