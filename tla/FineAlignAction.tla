--------------------------- MODULE FineAlignAction ---------------------------
(***************************************************************************)
(* The worker of one fine-alignment goal: execute(), runAttempt() and the  *)
(* two waits, with their polls, deadlines, retries and results.            *)
(*                                                                         *)
(* The worker reads the cancel flag, the navigation mask, the collision    *)
(* state and the target at different moments and the callbacks run in      *)
(* between, so that a condition that ended a wait may be gone when the     *)
(* worker asks why.  Reads that follow each other within one decision are  *)
(* one step: what changes between them could as well change after them.    *)
(* Poses are reduced to what is decided with them: inside the capture      *)
(* envelope, at the goal with a zero command, within the settling spread.  *)
(***************************************************************************)
EXTENDS ActionInputs

CONSTANTS
    AcquisitionTimeout, ApproachTimeout, RetryDelay, SettlingDuration,
    MaximumRetries

ASSUME FineAlignAssumption ==
    {AcquisitionTimeout, ApproachTimeout, RetryDelay, SettlingDuration, MaximumRetries}
        \subseteq Nat

VARIABLES
    worker_pc,
    execute,                \* goal->execute: move, or only measure
    attempt,
    elapsed,                \* time since the wait, motion or delay under way began
    failure,                \* code of the attempt that failed
    status, error_code,     \* what the client is told
    settling,               \* TagPoseSettling: the age of its anchor, or NotSettling; its
                            \*   sequence_ is the one the last pass read
    dwell, observed,        \* auxiliary: age of the unbroken run of eligible passes, and
                            \*   how many observations they were made on (at most 2)
    late,                   \* auxiliary: commands stored since the motion had to stop and
                            \*   has had to ever since (at most 2)
    saw_navigation          \* auxiliary: a wait of this goal ended because Nav2 was active

goal_vars == <<execute, attempt, failure, status, error_code>>
settling_vars == <<settling, dwell, observed>>
vars == <<worker_pc, elapsed, late, saw_navigation, goal_vars, settling_vars, input_vars>>

NotSettling == -1

Codes == {"SUCCESS", "INVALID_STATE", "NAVIGATION_ACTIVE", "NO_STABLE_TAG",
          "OUTSIDE_CAPTURE_ENVELOPE", "COLLISION_STOPPED", "ALIGNMENT_TIMEOUT",
          "SAFETY_ABORT", "INVALID_PROFILE"}

\* retryableFailure(); DOCKING_FAILED, which it also lists, is returned nowhere.
Retryable(code) ==
    code \in {"NO_STABLE_TAG", "OUTSIDE_CAPTURE_ENVELOPE", "ALIGNMENT_TIMEOUT"}

\* execute() tries once when it only measures, and maximum_retries times more otherwise.
MaximumAttempts == IF execute THEN MaximumRetries + 1 ELSE 1

\* Variant: the first attempt is not counted.
RetriesLeft == attempt <= MaximumAttempts

AttemptsLeft == attempt < MaximumAttempts

Init ==
    /\ InitInputs
    /\ worker_pc = "started"
    /\ execute \in BOOLEAN
    /\ attempt = 1
    /\ elapsed = 0
    /\ failure = "SUCCESS"
    /\ status = "executing"
    /\ error_code = "SUCCESS"
    /\ settling = NotSettling
    /\ dwell = 0
    /\ observed = 0
    /\ late = 0
    /\ saw_navigation = FALSE

-----------------------------------------------------------------------------
(* How a goal ends.                                                        *)

End(how, code) ==
    /\ worker_pc' = "done"
    /\ status' = how
    /\ error_code' = code
    /\ UNCHANGED <<execute, attempt, failure>>

Abort(code) == End("aborted", code)

\* finishCanceledOrFailed()
CancelOrAbort(code) == End(IF canceling THEN "canceled" ELSE "aborted", code)

Fail(code) ==
    /\ worker_pc' = "failed"
    /\ failure' = code
    /\ UNCHANGED <<execute, attempt, status, error_code>>

GoTo(place) == worker_pc' = place /\ UNCHANGED goal_vars

-----------------------------------------------------------------------------
(* execute(), up to the first attempt.                                     *)

Start ==
    /\ worker_pc = "started"
    /\ \/ Abort("INVALID_PROFILE")
       \/ IF navigation_active THEN Abort("NAVIGATION_ACTIVE") ELSE GoTo("acquiring")
    /\ UNCHANGED <<elapsed, late, saw_navigation, settling_vars, input_vars>>

-----------------------------------------------------------------------------
(* waitForMeasurement(), and what runAttempt() makes of its answer.        *)

\* Variant: the wait is bounded by nothing but an observation.
WaitPollUnbounded ==
    /\ worker_pc = "acquiring"
    /\ GoTo(IF ~ok \/ canceling \/ navigation_active THEN "not_acquired" ELSE "measuring")
    /\ saw_navigation' = (saw_navigation \/ (ok /\ ~canceling /\ navigation_active))
    /\ UNCHANGED <<elapsed, late, settling_vars, input_vars>>

WaitPoll ==
    /\ worker_pc = "acquiring"
    /\ GoTo(IF ~ok \/ elapsed >= AcquisitionTimeout \/ canceling \/ navigation_active
            THEN "not_acquired" ELSE "measuring")
    /\ saw_navigation' = \/ saw_navigation
                         \/ ok /\ elapsed < AcquisitionTimeout /\ ~canceling /\ navigation_active
    /\ UNCHANGED <<elapsed, late, settling_vars, input_vars>>

\* The wait has failed; its reason is read afresh.
NotAcquired ==
    /\ worker_pc = "not_acquired"
    /\ Fail(CASE canceling -> "ALIGNMENT_TIMEOUT"
              [] ~canceling /\ navigation_active -> "NAVIGATION_ACTIVE"
              [] ~canceling /\ ~navigation_active /\ ~ok -> "SAFETY_ABORT"
              [] OTHER -> "NO_STABLE_TAG")
    /\ UNCHANGED <<elapsed, late, saw_navigation, settling_vars, input_vars>>

\* A target newer than the last attempt's is measured together with the manipulation
\* state, and the motion begins unless one of them forbids it or nothing is to be moved.
WaitMeasure ==
    /\ worker_pc = "measuring"
    /\ IF ~(target /\ newer)
       THEN GoTo("acquiring") /\ UNCHANGED <<elapsed, settling_vars>>
       ELSE \/ ~state_valid /\ Fail("INVALID_STATE") /\ UNCHANGED <<elapsed, settling_vars>>
            \/ /\ state_valid /\ Fail("OUTSIDE_CAPTURE_ENVELOPE")
               /\ UNCHANGED <<elapsed, settling_vars>>
            \/ /\ state_valid
               /\ GoTo(IF execute THEN "moving" ELSE "succeeded")
               /\ elapsed' = 0
               /\ settling' = NotSettling
               /\ dwell' = 0
               /\ observed' = 0
    /\ UNCHANGED <<late, saw_navigation, input_vars>>

-----------------------------------------------------------------------------
(* The control loop of runAttempt().                                       *)

MotionPoll ==
    /\ worker_pc = "moving"
    /\ CASE ~ok -> Fail("SAFETY_ABORT")
         [] ok /\ canceling -> Fail("ALIGNMENT_TIMEOUT")
         [] ok /\ ~canceling /\ navigation_active -> Fail("NAVIGATION_ACTIVE")
         [] ok /\ ~canceling /\ ~navigation_active /\ CollisionStopTimedOut ->
               Fail("COLLISION_STOPPED")
         [] OTHER -> IF elapsed > ApproachTimeout THEN Fail("ALIGNMENT_TIMEOUT") ELSE GoTo("polled")
    /\ UNCHANGED <<elapsed, late, saw_navigation, settling_vars, input_vars>>

\* TagPoseSettling::update(): anchored by an eligible pass, anchored again by a newer
\* observation that is not steady, dropped by a pass that is not eligible.
Settled(eligible, steady) ==
    IF ~eligible THEN NotSettling
    ELSE IF settling = NotSettling \/ (unseen /\ ~steady) THEN 0
    ELSE settling

\* Variant: the observation settling began with may also end it.
CompletesOnSameObservation(eligible, steady) ==
    eligible /\ settling # NotSettling /\ steady /\ settling >= SettlingDuration

\* It completes on a newer steady observation once the anchor is old enough.
Completes(eligible, steady) ==
    eligible /\ settling # NotSettling /\ unseen /\ steady /\ settling >= SettlingDuration

MustStop == canceling \/ navigation_active \/ StopOverdue

\* The rest of a pass: the target and the state are measured, the command is stored, and
\* settling is judged.  eligible: both poses at the goal and a zero command; steady: the
\* raw pose is within the spread of the anchor's.
MotionPass(eligible, steady) ==
    /\ worker_pc = "polled"
    /\ target /\ state_valid
    /\ settling' = Settled(eligible, steady)
    /\ GoTo(IF Completes(eligible, steady) THEN "succeeded" ELSE "moving")
    /\ unseen' = FALSE
    /\ dwell' = IF eligible /\ observed > 0 THEN dwell ELSE 0
    /\ observed' = IF ~eligible THEN 0
                   ELSE IF observed = 0 \/ (unseen /\ observed = 1) THEN observed + 1 ELSE observed
    /\ late' = IF MustStop /\ late < 2 THEN late + 1 ELSE late
    /\ UNCHANGED <<elapsed, saw_navigation, ok, canceling, navigation_active, state_valid,
                   stop_vars, target, newer>>

MotionFails ==
    /\ worker_pc = "polled"
    /\ \/ ~target /\ Fail("NO_STABLE_TAG")
       \/ target /\ ~state_valid /\ Fail("INVALID_STATE")
       \/ target /\ state_valid /\ Fail("OUTSIDE_CAPTURE_ENVELOPE")
       \/ target /\ state_valid /\ Fail("SAFETY_ABORT")     \* the controller rejects its input
    /\ UNCHANGED <<elapsed, late, saw_navigation, settling_vars, input_vars>>

-----------------------------------------------------------------------------
(* execute(), after an attempt.                                            *)

Succeed ==
    /\ worker_pc = "succeeded"
    /\ End("succeeded", "SUCCESS")
    /\ UNCHANGED <<elapsed, late, saw_navigation, settling_vars, input_vars>>

\* The failed attempt's motion is stopped; the goal ends unless another attempt may help.
GiveUp ==
    /\ worker_pc = "failed"
    /\ canceling \/ ~Retryable(failure) \/ ~AttemptsLeft
    /\ CancelOrAbort(failure)
    /\ UNCHANGED <<elapsed, late, saw_navigation, settling_vars, input_vars>>

Retry ==
    /\ worker_pc = "failed"
    /\ ~canceling
    /\ Retryable(failure) /\ AttemptsLeft
    /\ GoTo("delaying")
    /\ elapsed' = 0
    /\ newer' = FALSE
    /\ UNCHANGED <<late, saw_navigation, settling_vars, ok, canceling, navigation_active,
                   state_valid, stop_vars, target, unseen>>

\* waitForRetryDelay(): poll until the delay has passed, then attempt again.
DelayPoll ==
    /\ worker_pc = "delaying"
    /\ ok /\ elapsed < RetryDelay
    /\ canceling \/ navigation_active
    /\ GoTo("interrupted")
    /\ UNCHANGED <<elapsed, late, saw_navigation, settling_vars, input_vars>>

DelayOver ==
    /\ worker_pc = "delaying"
    /\ ok /\ elapsed >= RetryDelay
    /\ worker_pc' = "acquiring"
    /\ attempt' = attempt + 1
    /\ elapsed' = 0
    /\ UNCHANGED <<late, saw_navigation, execute, failure, status, error_code, settling_vars,
                   input_vars>>

\* Whatever interrupted the delay, its reason is read afresh.
DelayInterrupted ==
    /\ worker_pc = "interrupted" \/ (worker_pc = "delaying" /\ ~ok)
    /\ IF navigation_active THEN Abort("NAVIGATION_ACTIVE")
                            ELSE CancelOrAbort("ALIGNMENT_TIMEOUT")
    /\ UNCHANGED <<elapsed, late, saw_navigation, settling_vars, input_vars>>

-----------------------------------------------------------------------------
Worker ==
    \/ Start
    \/ WaitPoll \/ NotAcquired \/ WaitMeasure
    \/ MotionPoll \/ MotionFails
    \/ \E eligible, steady \in BOOLEAN : MotionPass(eligible, steady)
    \/ Succeed \/ GiveUp \/ Retry
    \/ DelayPoll \/ DelayOver \/ DelayInterrupted

\* A callback.  Commands are no longer counted once nothing asks the motion to stop.
Callback ==
    /\ worker_pc # "done"
    /\ InputsChange
    /\ late' = IF MustStop' THEN late ELSE 0
    /\ UNCHANGED <<worker_pc, elapsed, saw_navigation, goal_vars, settling_vars>>

Timeouts == {AcquisitionTimeout, ApproachTimeout, RetryDelay}
Longest == CHOOSE t \in Timeouts : \A u \in Timeouts : u <= t

Tick ==
    /\ worker_pc # "done"
    /\ InputsAge
    /\ elapsed' = Older(elapsed, Longest)
    /\ settling' = IF settling = NotSettling THEN settling ELSE Older(settling, SettlingDuration)
    /\ dwell' = IF observed > 0 THEN Older(dwell, SettlingDuration) ELSE 0
    /\ UNCHANGED <<worker_pc, late, saw_navigation, goal_vars, observed>>

\* The thread has ended.
Ended == worker_pc = "done" /\ UNCHANGED vars

Next == Worker \/ Callback \/ Tick \/ Ended

Spec == Init /\ [][Next]_vars /\ WF_vars(Worker) /\ WF_vars(Tick)

(***************************************************************************)
(* Properties                                                              *)
(***************************************************************************)

Places == {"started", "acquiring", "not_acquired", "measuring", "moving", "polled", "failed",
           "delaying", "interrupted", "succeeded", "done"}

\* The client is told a result once the worker is done, with an error exactly when the goal
\* has not succeeded.
ResultOK ==
    /\ status \in {"executing", "succeeded", "aborted", "canceled"}
    /\ status = "executing" <=> worker_pc # "done"
    /\ error_code \in Codes
    /\ error_code = "SUCCESS" <=> status \in {"executing", "succeeded"}

\* Attempts are bounded, a goal that only measures never reaches the control loop, and an
\* attempt fails for a reason.
AttemptOK ==
    /\ execute \in BOOLEAN
    /\ worker_pc \in {"moving", "polled"} => execute
    /\ attempt \in 1..MaximumAttempts
    /\ failure \in Codes
    /\ worker_pc = "failed" => failure # "SUCCESS"

SettlingOK ==
    /\ settling \in {NotSettling} \union 0..SettlingDuration + 1
    /\ dwell \in 0..SettlingDuration + 1
    /\ observed \in 0..2

\* Types of the state; an age passes its limit by one at most.
TypeOK ==
    /\ InputsOK
    /\ worker_pc \in Places
    /\ ResultOK
    /\ AttemptOK
    /\ SettlingOK
    /\ elapsed \in 0..Longest + 1
    /\ late \in 0..2
    /\ saw_navigation \in BOOLEAN

\* A goal that moves the robot succeeds only if its last passes were eligible without a
\* break for settling_duration and on two different observations at least: ticks that see
\* one observation again, time spent before a disturbance, or a previous attempt's dwell
\* do not count.
SuccessIsSettled ==
    execute /\ worker_pc = "succeeded" => dwell >= SettlingDuration /\ observed >= 2

\* Once the goal is canceled, while Nav2 stays active, or once a collision STOP has lasted
\* longer than its timeout and still does, only the pass that was under way stores another
\* command, across attempts and waits.  A STOP that is repeated is as old as its first message
\* (the callback of /collision_monitor_state notes the time of a change only).
AtMostOneLateCommand == late <= 1

\* Every goal ends, whatever the callbacks do: each wait and the motion have a deadline and
\* the attempts are bounded.
GoalEnds == <>(worker_pc = "done")

\* Nav2 activity that ends a wait aborts the goal instead of costing it an attempt (what the
\* README says of navigation activation; the reason is read again after the wait, though).
NavigationAborts == [][saw_navigation => attempt' = attempt]_vars
=============================================================================
