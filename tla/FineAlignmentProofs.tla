-------------------------- MODULE FineAlignmentProofs --------------------------
(***************************************************************************)
(* The safety of fine alignment: of one goal's worker, for every timeout   *)
(* and number of retries and every interleaving with the callbacks; and of *)
(* the motion controller its passes call, for every tolerance, every set   *)
(* of errors and every number of confirmations.                            *)
(***************************************************************************)
EXTENDS FineAlignAction, DockingMotion, TLAPS

-----------------------------------------------------------------------------
(* The worker: the inductive invariant.                                    *)

\* A delay is served for an attempt that may still be made.
AttemptRemains == worker_pc = "delaying" => attempt < MaximumAttempts

\* An anchor is no older than the unbroken run of eligible passes, and that run has been
\* observed.
SettlingCovered ==
    settling # NotSettling => observed >= 1 /\ dwell >= settling

\* A command stored too late is the last one: the motion still has to stop, and the next
\* poll finds out.
LateIsLast ==
    late > 0 => late = 1 /\ MustStop /\ worker_pc # "polled"

\* A repeated STOP does not make the one under way any younger.
StopAgeIsTrue == stop_age = stop_lasts

IInv ==
    /\ TypeOK
    /\ StopAgeIsTrue
    /\ AttemptRemains
    /\ SettlingCovered
    /\ LateIsLast
    /\ SuccessIsSettled

-----------------------------------------------------------------------------
(* Limits, ages and inputs.                                                *)

\* The longest timeout is one of the three.
LEMMA LongestTimeout == Longest \in Nat
<1>1. \E t \in Timeouts : \A u \in Timeouts : u <= t
  BY FineAlignAssumption DEF Timeouts
<1>2. Longest \in Timeouts
  BY <1>1 DEF Longest
<1>3. QED
  BY <1>2, FineAlignAssumption DEF Timeouts

\* At least one attempt is made.
LEMMA OneAttempt == MaximumAttempts \in Nat /\ 1 <= MaximumAttempts
  BY FineAlignAssumption DEF MaximumAttempts

\* An age grows up to one past its limit, and two ages with one limit keep their order.
LEMMA OlderAge ==
  ASSUME NEW limit \in Nat, NEW age \in 0..limit + 1
  PROVE  /\ Older(age, limit) \in 0..limit + 1
         /\ \A other \in 0..limit + 1 : other <= age => Older(other, limit) <= Older(age, limit)
  BY DEF Older

\* The callbacks and the clock keep the inputs' types, and the age of a STOP its true one.
LEMMA InputsStayOK ==
  InputsOK /\ StopAgeIsTrue /\ (InputsChange \/ InputsAge) => InputsOK' /\ StopAgeIsTrue'
<1> SUFFICES ASSUME InputsOK, StopAgeIsTrue, InputsChange \/ InputsAge
             PROVE  InputsOK' /\ StopAgeIsTrue'
  OBVIOUS
<1> USE InputsAssumption DEF InputsOK, StopAgeIsTrue, target_vars, stop_vars
<1>1. CASE InputsAge
  <2>1. /\ Older(stop_age, CollisionStopTimeout) \in 0..CollisionStopTimeout + 1
        /\ 0 \in 0..CollisionStopTimeout + 1
    BY OlderAge
  <2>2. QED
    BY <1>1, <2>1 DEF InputsAge
<1>2. CASE InputsChange
  <2>1. CASE Shutdown \/ CancelRequest \/ NewTarget \/ TargetLost
    BY <2>1 DEF Shutdown, CancelRequest, NewTarget, TargetLost
  <2>2. CASE NavigationChanges
    BY <2>2 DEF NavigationChanges
  <2>3. CASE ManipulationChanges
    BY <2>3 DEF ManipulationChanges
  <2>4. CASE CollisionStop
    BY <2>4, 0 \in 0..CollisionStopTimeout + 1 DEF CollisionStop
  <2>5. CASE CollisionClears
    BY <2>5, 0 \in 0..CollisionStopTimeout + 1 DEF CollisionClears
  <2>6. QED
    BY <1>2, <2>1, <2>2, <2>3, <2>4, <2>5 DEF InputsChange
<1>3. QED
  BY <1>1, <1>2

-----------------------------------------------------------------------------
(* The worker's steps but for the pass.                                    *)

quiet_vars == <<late, dwell, observed, settling, ok, canceling, navigation_active, state_valid,
                collision_stopped_, stop_age, stop_lasts, target, unseen>>

\* Most steps neither store a command nor settle.
LEMMA QuietStep ==
  ASSUME IInv, UNCHANGED quiet_vars, newer' \in BOOLEAN, saw_navigation' \in BOOLEAN,
         elapsed' \in {0, elapsed}, worker_pc' \in Places,
         ResultOK', AttemptOK', AttemptRemains',
         late > 0 => worker_pc' # "polled",
         worker_pc' = "succeeded" => ~execute'
  PROVE  IInv'
<1>1. /\ InputsOK' /\ StopAgeIsTrue' /\ SettlingOK' /\ SettlingCovered' /\ SuccessIsSettled'
      /\ late' \in 0..2
  BY DEF IInv, TypeOK, InputsOK, StopAgeIsTrue, SettlingOK, SettlingCovered, SuccessIsSettled,
     quiet_vars
<1>2. LateIsLast'
  BY DEF IInv, LateIsLast, MustStop, StopOverdue, quiet_vars
<1>3. elapsed' \in 0..Longest + 1
  BY LongestTimeout DEF IInv, TypeOK
<1>4. QED
  BY <1>1, <1>2, <1>3 DEF IInv, TypeOK

\* The goal ends with a failure.
LEMMA AbortingStep ==
  ASSUME IInv, UNCHANGED quiet_vars, newer' = newer, elapsed' = elapsed,
         saw_navigation' = saw_navigation,
         NEW how \in {"aborted", "canceled"}, NEW code \in Codes \ {"SUCCESS"}, End(how, code)
  PROVE  IInv'
<1>1. worker_pc' = "done" /\ status' = how /\ error_code' = code
      /\ UNCHANGED <<execute, attempt, failure>>
  BY DEF End
<1>2. ResultOK'
  BY <1>1 DEF ResultOK
<1>3. AttemptOK' /\ AttemptRemains'
  BY <1>1 DEF IInv, TypeOK, AttemptOK, AttemptRemains, MaximumAttempts
<1>4. newer' \in BOOLEAN /\ saw_navigation' \in BOOLEAN /\ worker_pc' \in Places
  BY <1>1 DEF IInv, TypeOK, InputsOK, Places
<1>5. QED
  BY <1>1, <1>2, <1>3, <1>4, QuietStep

\* An attempt fails.
LEMMA FailedStep ==
  ASSUME IInv, UNCHANGED quiet_vars, newer' = newer, elapsed' = elapsed,
         saw_navigation' = saw_navigation, worker_pc # "done",
         NEW code \in Codes \ {"SUCCESS"}, Fail(code)
  PROVE  IInv'
<1>1. worker_pc' = "failed" /\ failure' = code
      /\ UNCHANGED <<execute, attempt, status, error_code>>
  BY DEF Fail
<1>2. ResultOK'
  BY <1>1 DEF IInv, TypeOK, ResultOK
<1>3. AttemptOK' /\ AttemptRemains'
  BY <1>1 DEF IInv, TypeOK, AttemptOK, AttemptRemains, MaximumAttempts
<1>4. newer' \in BOOLEAN /\ saw_navigation' \in BOOLEAN /\ worker_pc' \in Places
  BY <1>1 DEF IInv, TypeOK, InputsOK, Places
<1>5. QED
  BY <1>1, <1>2, <1>3, <1>4, QuietStep

\* The worker goes on within the attempt, or to the delay before another.
LEMMA GoingStep ==
  ASSUME IInv, UNCHANGED quiet_vars, newer' \in BOOLEAN, elapsed' \in {0, elapsed},
         saw_navigation' \in BOOLEAN, worker_pc # "done",
         NEW place \in Places \ {"done", "failed", "succeeded"}, GoTo(place),
         place \in {"moving", "polled"} => execute,
         place = "polled" => late = 0,
         place = "delaying" => attempt < MaximumAttempts
  PROVE  IInv'
<1>1. worker_pc' = place /\ UNCHANGED <<execute, attempt, failure, status, error_code>>
  BY DEF GoTo, goal_vars
<1>2. ResultOK'
  BY <1>1 DEF IInv, TypeOK, ResultOK
<1>3. AttemptOK' /\ AttemptRemains'
  BY <1>1 DEF IInv, TypeOK, AttemptOK, AttemptRemains, MaximumAttempts
<1>4. worker_pc' \in Places /\ (late > 0 => worker_pc' # "polled")
  BY <1>1
<1>5. QED
  BY <1>1, <1>2, <1>3, <1>4, QuietStep

\* The checks of execute(), and the wait for a measurement.
LEMMA WaitStep ==
  ASSUME IInv, Start \/ WaitPoll \/ NotAcquired
  PROVE  IInv'
<1>1. /\ UNCHANGED quiet_vars /\ newer' = newer /\ elapsed' = elapsed
      /\ worker_pc # "done"
      /\ newer' \in BOOLEAN
  BY DEF Start, WaitPoll, NotAcquired, quiet_vars, settling_vars, input_vars, stop_vars, target_vars,
     IInv, TypeOK, InputsOK
<1>2. CASE Start
  <2>1. saw_navigation' = saw_navigation /\ saw_navigation' \in BOOLEAN
    BY <1>2 DEF Start, IInv, TypeOK
  <2>2. End("aborted", "INVALID_PROFILE") \/ End("aborted", "NAVIGATION_ACTIVE")
        \/ GoTo("acquiring")
    BY <1>2 DEF Start, Abort
  <2>3. QED
    BY <1>1, <2>1, <2>2, AbortingStep, GoingStep DEF Codes, Places
<1>3. CASE WaitPoll
  <2>1. saw_navigation' \in BOOLEAN
    BY <1>3 DEF WaitPoll, IInv, TypeOK, InputsOK
  <2>2. GoTo("not_acquired") \/ GoTo("measuring")
    BY <1>3 DEF WaitPoll
  <2>3. QED
    BY <1>1, <2>1, <2>2, GoingStep DEF Places
<1>4. CASE NotAcquired
  <2>1. saw_navigation' = saw_navigation
    BY <1>4 DEF NotAcquired
  <2>2. Fail("ALIGNMENT_TIMEOUT") \/ Fail("NAVIGATION_ACTIVE") \/ Fail("SAFETY_ABORT")
        \/ Fail("NO_STABLE_TAG")
    BY <1>4 DEF NotAcquired
  <2>3. QED
    BY <1>1, <2>1, <2>2, FailedStep DEF Codes
<1>5. QED
  BY <1>2, <1>3, <1>4

\* A target is measured; the motion begins with nothing settled.
LEMMA MeasureStep ==
  ASSUME IInv, WaitMeasure
  PROVE  IInv'
<1>1. /\ worker_pc = "measuring"
      /\ UNCHANGED <<late, saw_navigation, input_vars>>
  BY DEF WaitMeasure
<1>2. CASE UNCHANGED <<elapsed, settling_vars>> /\ (GoTo("acquiring") \/ Fail("INVALID_STATE")
              \/ Fail("OUTSIDE_CAPTURE_ENVELOPE"))
  <2>1. UNCHANGED quiet_vars /\ newer' = newer /\ newer' \in BOOLEAN /\ elapsed' = elapsed
        /\ saw_navigation' = saw_navigation /\ saw_navigation' \in BOOLEAN
    BY <1>1, <1>2 DEF quiet_vars, settling_vars, input_vars, stop_vars, target_vars, IInv, TypeOK, InputsOK
  <2>2. QED
    BY <1>1, <1>2, <2>1, FailedStep, GoingStep DEF Codes, Places
<1>3. CASE /\ GoTo(IF execute THEN "moving" ELSE "succeeded")
           /\ elapsed' = 0 /\ settling' = NotSettling /\ dwell' = 0 /\ observed' = 0
  <2>1. /\ worker_pc' = IF execute THEN "moving" ELSE "succeeded"
        /\ UNCHANGED <<execute, attempt, failure, status, error_code>>
    BY <1>3 DEF GoTo, goal_vars
  <2>2. InputsOK' /\ StopAgeIsTrue' /\ late' \in 0..2 /\ saw_navigation' \in BOOLEAN
        /\ worker_pc' \in Places
    BY <1>1, <2>1 DEF IInv, TypeOK, InputsOK, StopAgeIsTrue, input_vars, stop_vars, target_vars, Places
  <2>3. elapsed' \in 0..Longest + 1
    BY <1>3, LongestTimeout
  <2>4. ResultOK' /\ AttemptOK' /\ AttemptRemains'
    BY <1>1, <2>1 DEF IInv, TypeOK, ResultOK, AttemptOK, AttemptRemains, MaximumAttempts
  <2>5. SettlingOK' /\ SettlingCovered'
    BY <1>3, FineAlignAssumption DEF SettlingOK, SettlingCovered
  <2>6. SuccessIsSettled' /\ LateIsLast'
    BY <1>1, <2>1 DEF IInv, SuccessIsSettled, LateIsLast, MustStop, StopOverdue, input_vars, stop_vars
  <2>7. QED
    BY <2>2, <2>3, <2>4, <2>5, <2>6 DEF IInv, TypeOK
<1>4. QED
  BY <1>2, <1>3 DEF WaitMeasure

\* The polls of the control loop and the ways a pass fails.
LEMMA MotionStep ==
  ASSUME IInv, MotionPoll \/ MotionFails
  PROVE  IInv'
<1>1. /\ UNCHANGED quiet_vars /\ newer' = newer /\ elapsed' = elapsed
      /\ saw_navigation' = saw_navigation /\ saw_navigation' \in BOOLEAN
      /\ worker_pc # "done" /\ execute /\ newer' \in BOOLEAN
  BY DEF MotionPoll, MotionFails, quiet_vars, settling_vars, input_vars, stop_vars, target_vars, IInv,
     TypeOK, AttemptOK, InputsOK
<1>2. ASSUME NEW code \in Codes \ {"SUCCESS"}, Fail(code) PROVE IInv'
  BY <1>1, <1>2, FailedStep
<1>3. CASE MotionPoll
  <2>1. CASE /\ GoTo("polled")
             /\ ~canceling /\ ~navigation_active /\ ~CollisionStopTimedOut
    <3>1. ~MustStop
      BY <2>1 DEF IInv, StopAgeIsTrue, CollisionStopTimedOut, StopOverdue, MustStop
    <3>2. late = 0
      BY <3>1 DEF IInv, TypeOK, LateIsLast
    <3>3. QED
      BY <1>1, <2>1, <3>2, GoingStep DEF Places
  <2>2. CASE Fail("SAFETY_ABORT") \/ Fail("ALIGNMENT_TIMEOUT") \/ Fail("NAVIGATION_ACTIVE")
             \/ Fail("COLLISION_STOPPED")
    BY <1>2, <2>2 DEF Codes
  <2>3. QED
    BY <1>3, <2>1, <2>2 DEF MotionPoll
<1>4. CASE MotionFails
  <2>1. Fail("NO_STABLE_TAG") \/ Fail("INVALID_STATE") \/ Fail("OUTSIDE_CAPTURE_ENVELOPE")
        \/ Fail("SAFETY_ABORT")
    BY <1>4 DEF MotionFails
  <2>2. QED
    BY <1>2, <2>1 DEF Codes
<1>5. QED
  BY <1>3, <1>4

\* Success, giving up, and the delay before the next attempt.
LEMMA AfterAttemptStep ==
  ASSUME IInv, Succeed \/ GiveUp \/ Retry \/ DelayPoll \/ DelayOver \/ DelayInterrupted
  PROVE  IInv'
<1>1. /\ UNCHANGED quiet_vars /\ newer' \in BOOLEAN /\ elapsed' \in {0, elapsed}
      /\ saw_navigation' = saw_navigation /\ saw_navigation' \in BOOLEAN
      /\ worker_pc # "done"
  BY DEF Succeed, GiveUp, Retry, DelayPoll, DelayOver, DelayInterrupted, quiet_vars,
     settling_vars, input_vars, stop_vars, target_vars, IInv, TypeOK, InputsOK
<1>2. CASE Succeed
  <2>1. worker_pc' = "done" /\ status' = "succeeded" /\ error_code' = "SUCCESS"
        /\ UNCHANGED <<execute, attempt, failure>>
    BY <1>2 DEF Succeed, End
  <2>2. ResultOK' /\ worker_pc' \in Places
    BY <2>1 DEF ResultOK, Codes, Places
  <2>3. AttemptOK' /\ AttemptRemains'
    BY <2>1 DEF IInv, TypeOK, AttemptOK, AttemptRemains, MaximumAttempts
  <2>4. QED
    BY <1>1, <2>1, <2>2, <2>3, QuietStep
<1>3. CASE GiveUp
  <2>1. worker_pc = "failed" /\ newer' = newer /\ elapsed' = elapsed
        /\ End(IF canceling THEN "canceled" ELSE "aborted", failure)
    BY <1>3 DEF GiveUp, CancelOrAbort, input_vars, stop_vars, target_vars
  <2>2. failure \in Codes \ {"SUCCESS"}
    BY <2>1 DEF IInv, TypeOK, AttemptOK
  <2>3. End("canceled", failure) \/ End("aborted", failure)
    BY <2>1
  <2>4. QED
    BY <1>1, <2>1, <2>2, <2>3, AbortingStep
<1>4. CASE Retry
  <2>1. GoTo("delaying") /\ attempt < MaximumAttempts
    BY <1>4 DEF Retry, AttemptsLeft
  <2>2. QED
    BY <1>1, <2>1, GoingStep DEF Places
<1>5. CASE DelayPoll
  <2>1. GoTo("interrupted")
    BY <1>5 DEF DelayPoll
  <2>2. QED
    BY <1>1, <2>1, GoingStep DEF Places
<1>6. CASE DelayOver
  <2>1. worker_pc = "delaying" /\ worker_pc' = "acquiring" /\ attempt' = attempt + 1
        /\ UNCHANGED <<execute, failure, status, error_code>>
    BY <1>6 DEF DelayOver
  <2>2. ResultOK' /\ worker_pc' \in Places
    BY <2>1 DEF IInv, TypeOK, ResultOK, Places
  <2>3. attempt + 1 \in 1..MaximumAttempts
    BY <2>1, OneAttempt DEF IInv, TypeOK, AttemptOK, AttemptRemains
  <2>4. AttemptOK' /\ AttemptRemains'
    BY <2>1, <2>3 DEF IInv, TypeOK, AttemptOK, AttemptRemains, MaximumAttempts
  <2>5. QED
    BY <1>1, <2>1, <2>2, <2>4, QuietStep
<1>7. CASE DelayInterrupted
  <2>1. End("aborted", "NAVIGATION_ACTIVE") \/ End("canceled", "ALIGNMENT_TIMEOUT")
        \/ End("aborted", "ALIGNMENT_TIMEOUT")
    BY <1>7 DEF DelayInterrupted, Abort, CancelOrAbort
  <2>2. newer' = newer /\ elapsed' = elapsed
    BY <1>7 DEF DelayInterrupted, input_vars, stop_vars, target_vars
  <2>3. QED
    BY <1>1, <2>1, <2>2, AbortingStep DEF Codes
<1>8. QED
  BY <1>2, <1>3, <1>4, <1>5, <1>6, <1>7

-----------------------------------------------------------------------------
(* The pass, the callbacks and the clock.                                  *)

\* A pass: an anchor is set or kept only in an unbroken run of eligible passes, settling
\* completes on a second observation, and a command stored too late is the first one.
LEMMA PassStep ==
  ASSUME IInv, NEW eligible \in BOOLEAN, NEW steady \in BOOLEAN, MotionPass(eligible, steady)
  PROVE  IInv'
<1>1. /\ worker_pc = "polled" /\ unseen' = FALSE
      /\ UNCHANGED <<elapsed, saw_navigation, ok, canceling, navigation_active, state_valid,
                     stop_vars, target, newer>>
      /\ settling' = Settled(eligible, steady)
      /\ dwell' = IF eligible /\ observed > 0 THEN dwell ELSE 0
      /\ observed' = IF ~eligible THEN 0
                     ELSE IF observed = 0 \/ (unseen /\ observed = 1) THEN observed + 1
                     ELSE observed
      /\ worker_pc' = IF Completes(eligible, steady) THEN "succeeded" ELSE "moving"
      /\ UNCHANGED <<execute, attempt, failure, status, error_code>>
      /\ late' = IF MustStop /\ late < 2 THEN late + 1 ELSE late
  BY DEF MotionPass, GoTo, goal_vars
<1>2. InputsOK' /\ StopAgeIsTrue' /\ elapsed' \in 0..Longest + 1 /\ saw_navigation' \in BOOLEAN
  BY <1>1 DEF IInv, TypeOK, InputsOK, StopAgeIsTrue, stop_vars
<1>3. worker_pc' \in Places /\ ResultOK' /\ AttemptOK' /\ AttemptRemains'
  <2>1. execute /\ worker_pc' \in {"succeeded", "moving"}
    BY <1>1 DEF IInv, TypeOK, AttemptOK
  <2>2. QED
    BY <1>1, <2>1 DEF IInv, TypeOK, ResultOK, AttemptOK, AttemptRemains, MaximumAttempts, Places
<1>4. LateIsLast' /\ late' \in 0..2
  <2>1. late = 0
    BY <1>1 DEF IInv, TypeOK, LateIsLast
  <2>2. worker_pc' # "polled"
    BY <1>1
  <2>3. QED
    BY <1>1, <2>1, <2>2 DEF LateIsLast, MustStop, StopOverdue, stop_vars
<1>5. /\ SettlingDuration \in Nat
      /\ settling \in {NotSettling} \union 0..SettlingDuration + 1
      /\ dwell \in 0..SettlingDuration + 1 /\ observed \in 0..2
      /\ settling # NotSettling => observed >= 1 /\ dwell >= settling
  BY FineAlignAssumption DEF IInv, TypeOK, SettlingOK, SettlingCovered
<1>6. /\ settling' \in {NotSettling, 0, settling}
      /\ settling' # NotSettling => eligible
  BY <1>1 DEF Settled
<1>7. SettlingOK' /\ SettlingCovered'
  <2>1. dwell' \in 0..SettlingDuration + 1 /\ observed' \in 0..2
    BY <1>1, <1>5
  <2>2. settling' \in {NotSettling} \union 0..SettlingDuration + 1
    BY <1>5, <1>6
  <2>3. settling' # NotSettling => observed' >= 1 /\ dwell' >= settling'
    <3>1. CASE settling' = 0
      <4>1. eligible /\ observed' >= 1
        BY <1>1, <1>5, <1>6, <3>1 DEF NotSettling
      <4>2. dwell' >= 0
        BY <2>1, <1>5
      <4>3. QED
        BY <3>1, <4>1, <4>2
    <3>2. CASE settling' = settling /\ settling # NotSettling
      <4>1. eligible /\ observed > 0
        BY <1>5, <1>6, <3>2
      <4>2. dwell' = dwell /\ observed' \in {observed, observed + 1}
        BY <1>1, <4>1
      <4>3. QED
        BY <1>5, <3>2, <4>1, <4>2
    <3>3. QED
      BY <1>6, <3>1, <3>2
  <2>4. QED
    BY <2>1, <2>2, <2>3 DEF SettlingOK, SettlingCovered
<1>8. SuccessIsSettled'
  <2>1. CASE Completes(eligible, steady)
    <3>1. dwell' >= SettlingDuration /\ observed' >= 2
      BY <1>1, <1>5, <2>1 DEF Completes
    <3>2. QED
      BY <3>1 DEF SuccessIsSettled
  <2>2. CASE ~Completes(eligible, steady)
    BY <1>1, <2>2 DEF SuccessIsSettled
  <2>3. QED
    BY <2>1, <2>2
<1>9. QED
  BY <1>2, <1>3, <1>4, <1>7, <1>8 DEF IInv, TypeOK

\* A callback changes inputs only; once nothing asks for a stop, no command is late.
LEMMA CallbackStep ==
  ASSUME IInv, Callback
  PROVE  IInv'
<1>1. /\ UNCHANGED <<worker_pc, elapsed, saw_navigation, goal_vars, settling_vars>>
      /\ late' \in {0, late} /\ (late' > 0 => MustStop')
  BY DEF Callback, IInv, TypeOK
<1>2. InputsOK' /\ StopAgeIsTrue'
  BY InputsStayOK DEF IInv, TypeOK, Callback
<1>3. ResultOK' /\ AttemptOK' /\ AttemptRemains' /\ SettlingOK' /\ SettlingCovered'
      /\ SuccessIsSettled' /\ worker_pc' \in Places /\ elapsed' \in 0..Longest + 1
      /\ saw_navigation' \in BOOLEAN
  BY <1>1 DEF IInv, TypeOK, ResultOK, AttemptOK, AttemptRemains, SettlingOK, SettlingCovered,
     SuccessIsSettled, MaximumAttempts, goal_vars, settling_vars
<1>4. LateIsLast' /\ late' \in 0..2
  BY <1>1 DEF IInv, TypeOK, LateIsLast
<1>5. QED
  BY <1>2, <1>3, <1>4 DEF IInv, TypeOK

\* Time passes: an anchor and the run that covers it grow together.
LEMMA TickStep ==
  ASSUME IInv, Tick
  PROVE  IInv'
<1>1. /\ worker_pc # "done" /\ InputsAge
      /\ elapsed' = Older(elapsed, Longest)
      /\ settling' = IF settling = NotSettling THEN settling ELSE Older(settling, SettlingDuration)
      /\ dwell' = IF observed > 0 THEN Older(dwell, SettlingDuration) ELSE 0
      /\ UNCHANGED <<worker_pc, late, saw_navigation, goal_vars, observed>>
  BY DEF Tick
<1>2. InputsOK' /\ StopAgeIsTrue'
  BY <1>1, InputsStayOK DEF IInv, TypeOK
<1>3. elapsed' \in 0..Longest + 1
  BY <1>1, OlderAge, LongestTimeout DEF IInv, TypeOK
<1>4. /\ SettlingDuration \in Nat
      /\ settling \in {NotSettling} \union 0..SettlingDuration + 1
      /\ dwell \in 0..SettlingDuration + 1 /\ observed \in 0..2
      /\ settling # NotSettling => observed >= 1 /\ dwell >= settling
  BY FineAlignAssumption DEF IInv, TypeOK, SettlingOK, SettlingCovered
<1>5. Older(dwell, SettlingDuration) \in 0..SettlingDuration + 1
  BY <1>4, OlderAge
<1>6. SettlingOK' /\ SettlingCovered'
  <2>1. CASE settling = NotSettling
    BY <1>1, <1>4, <1>5, <2>1 DEF SettlingOK, SettlingCovered
  <2>2. CASE settling # NotSettling
    <3>1. settling \in 0..SettlingDuration + 1 /\ settling <= dwell /\ observed > 0
      BY <1>4, <2>2
    <3>2. /\ Older(settling, SettlingDuration) \in 0..SettlingDuration + 1
          /\ Older(settling, SettlingDuration) <= Older(dwell, SettlingDuration)
      BY <1>4, <3>1, OlderAge
    <3>3. /\ settling' = Older(settling, SettlingDuration)
          /\ dwell' = Older(dwell, SettlingDuration)
          /\ observed' = observed
      BY <1>1, <2>2, <3>1
    <3>4. QED
      BY <1>4, <1>5, <2>2, <3>1, <3>2, <3>3 DEF SettlingOK, SettlingCovered
  <2>3. QED
    BY <2>1, <2>2
<1>7. SuccessIsSettled'
  <2>1. SUFFICES ASSUME execute, worker_pc = "succeeded"
                 PROVE  dwell' >= SettlingDuration /\ observed' >= 2
    BY <1>1 DEF SuccessIsSettled, goal_vars
  <2>2. dwell >= SettlingDuration /\ observed >= 2
    BY <2>1 DEF IInv, SuccessIsSettled
  <2>3. Older(dwell, SettlingDuration) >= SettlingDuration
    BY <1>4, <2>2 DEF Older
  <2>4. QED
    BY <1>1, <1>4, <2>2, <2>3
<1>8. ResultOK' /\ AttemptOK' /\ AttemptRemains' /\ worker_pc' \in Places
      /\ late' \in 0..2 /\ saw_navigation' \in BOOLEAN
  BY <1>1 DEF IInv, TypeOK, ResultOK, AttemptOK, AttemptRemains, MaximumAttempts, goal_vars
<1>9. LateIsLast'
  <2>1. MustStop => MustStop'
    BY <1>1, InputsAssumption
    DEF IInv, TypeOK, InputsOK, InputsAge, MustStop, StopOverdue, Older
  <2>2. QED
    BY <1>1, <2>1 DEF IInv, LateIsLast
<1>10. QED
  BY <1>2, <1>3, <1>6, <1>7, <1>8, <1>9 DEF IInv, TypeOK

-----------------------------------------------------------------------------
(* The theorems about the worker.                                          *)

\* A goal starts with nothing settled and no command stored.
LEMMA InitIInv == Init => IInv
<1> SUFFICES ASSUME Init PROVE IInv
  OBVIOUS
<1>1. InputsOK /\ StopAgeIsTrue
  <2>1. 0 \in 0..CollisionStopTimeout + 1
    BY InputsAssumption
  <2>2. QED
    BY <2>1 DEF Init, InitInputs, InputsOK, StopAgeIsTrue
<1>2. worker_pc \in Places /\ ResultOK /\ AttemptRemains
  BY DEF Init, ResultOK, Codes, Places, AttemptRemains
<1>3. AttemptOK
  BY OneAttempt DEF Init, AttemptOK, Codes
<1>4. SettlingOK /\ SettlingCovered /\ SuccessIsSettled
  BY FineAlignAssumption DEF Init, SettlingOK, SettlingCovered, SuccessIsSettled
<1>5. elapsed \in 0..Longest + 1
  BY LongestTimeout DEF Init
<1>6. late \in 0..2 /\ LateIsLast
  BY DEF Init, LateIsLast
<1>7. saw_navigation \in BOOLEAN
  BY DEF Init
<1>8. QED
  BY <1>1, <1>2, <1>3, <1>4, <1>5, <1>6, <1>7 DEF IInv, TypeOK

\* Every step of the worker, the callbacks and the clock keeps the invariant.
LEMMA NextIInv == IInv /\ [Next]_vars => IInv'
<1> SUFFICES ASSUME IInv, [Next]_vars PROVE IInv'
  OBVIOUS
<1>1. CASE Start \/ WaitPoll \/ NotAcquired
  BY <1>1, WaitStep
<1>2. CASE WaitMeasure
  BY <1>2, MeasureStep
<1>3. CASE MotionPoll \/ MotionFails
  BY <1>3, MotionStep
<1>4. ASSUME NEW eligible \in BOOLEAN, NEW steady \in BOOLEAN, MotionPass(eligible, steady)
      PROVE  IInv'
  BY <1>4, PassStep
<1>5. CASE Succeed \/ GiveUp \/ Retry \/ DelayPoll \/ DelayOver \/ DelayInterrupted
  BY <1>5, AfterAttemptStep
<1>6. CASE Callback
  BY <1>6, CallbackStep
<1>7. CASE Tick
  BY <1>7, TickStep
<1>8. CASE UNCHANGED vars
  BY <1>8 DEF vars, goal_vars, settling_vars, input_vars, stop_vars, target_vars, IInv, TypeOK, InputsOK,
     ResultOK, AttemptOK, AttemptRemains, SettlingOK, SettlingCovered, LateIsLast, MustStop,
     StopOverdue, StopAgeIsTrue, SuccessIsSettled, MaximumAttempts
<1>9. QED
  BY <1>1, <1>2, <1>3, <1>4, <1>5, <1>6, <1>7, <1>8 DEF Next, Worker, Ended

\* The invariant holds throughout.
LEMMA Invariant == Spec => []IInv
  BY InitIInv, NextIInv, PTL DEF Spec

\* For every number of retries, the attempts stay within it, only a goal that moves reaches
\* the control loop, and the client is told an error exactly when the goal has not succeeded.
THEOREM AlignmentTypeCorrect == Spec => []TypeOK
<1>1. IInv => TypeOK
  BY DEF IInv
<1>2. QED
  BY <1>1, Invariant, PTL

\* For every settling duration, a goal that moves succeeds only after an unbroken run of
\* eligible passes as long as that, on two observations at least, all of its last attempt.
THEOREM AlignmentSettles == Spec => []SuccessIsSettled
<1>1. IInv => SuccessIsSettled
  BY DEF IInv
<1>2. QED
  BY <1>1, Invariant, PTL

\* Whatever the callbacks do between a poll and the command it allowed, one command at most
\* is stored once the goal is canceled, while Nav2 stays active or while a STOP lasts longer than
\* its timeout, however often it is repeated, over all attempts.
THEOREM OneLateCommand == Spec => []AtMostOneLateCommand
<1>1. IInv => AtMostOneLateCommand
  BY DEF IInv, TypeOK, LateIsLast, AtMostOneLateCommand
<1>2. QED
  BY <1>1, Invariant, PTL

-----------------------------------------------------------------------------
(* The controller: headings and turns.                                     *)

\* A direction in which something is to be moved has a heading, which is not a backward one
\* unless x asks for it.
LEMMA HeadingOfSigns ==
  ASSUME NEW x \in -1..1, NEW y \in -1..1, x # 0 \/ y # 0
  PROVE  Heading(x, y) \in Headings /\ (x >= 0 => Heading(x, y) \notin 3..5)
<1>1. Heading(x, y) = IF y = 0 THEN 2 - 2 * x ELSE ((2 - x) * y) % 8
  BY DEF Heading
<1>2. x \in {-1, 0, 1} /\ y \in {-1, 0, 1}
  OBVIOUS
<1>3. QED
  BY <1>1, <1>2 DEF Headings

\* A turn is at most half a circle.
LEMMA TurnOf ==
  ASSUME NEW from \in Headings, NEW to \in Headings
  PROVE  Turn(from, to) = ((to - from + 3) % 8) - 3 /\ Turn(from, to) \in -3..4
  BY DEF Turn, Headings

\* A part of a small turn is a small turn, and passes the front if neither end lies behind.
LEMMA SmallTurnParts ==
  ASSUME NEW from \in Headings, NEW to \in Headings, MayBeSmall(from, to),
         NEW heading \in Between(from, to)
  PROVE  /\ heading \in Headings
         /\ Abs(Turn(from, heading)) <= 2
         /\ from \notin 3..5 /\ to \notin 3..5 => heading \notin 3..5
<1>1. PICK part \in -2..2 :
        /\ heading = (from + part) % 8
        /\ part * Turn(from, to) >= 0 /\ Abs(part) <= Abs(Turn(from, to))
  BY DEF Between
<1>2. heading \in Headings
  BY <1>1 DEF Headings
<1>3. Turn(from, to) \in -2..2 /\ Turn(from, to) = ((to - from + 3) % 8) - 3
  BY TurnOf DEF MayBeSmall, Abs
<1>4. Turn(from, heading) = part
  BY <1>1, <1>2, TurnOf DEF Headings
<1>5. QED
  BY <1>1, <1>2, <1>3, <1>4 DEF Headings, Abs

-----------------------------------------------------------------------------
(* Steering.                                                               *)

\* What steering relies on.
SteeringOK ==
    /\ direction_ \in Headings \union {None}
    /\ config.confirmation_samples \in Nat \ {0}
    /\ direction_reconfirmations_ \in 0..config.confirmation_samples
    /\ direction_reconfirmations_ > 0 => direction_ = None

\* The fields of a stop,
LEMMA StopIsStop ==
  ASSUME NEW n, NEW d
  PROVE  Stop(n, d).heading = None /\ Stop(n, d).direction = d /\ Stop(n, d).reconfirmations = n
  BY DEF Stop

\* and of a heading driven.
LEMMA DriveDrives ==
  ASSUME NEW h
  PROVE  Drive(h).heading = h /\ Drive(h).direction = h /\ Drive(h).reconfirmations = 0
  BY DEF Drive

\* What steering returns.
SteersWell(steered, wanted) ==
    /\ steered.heading \in Headings \union {None}
    /\ steered.direction = steered.heading
    /\ steered.reconfirmations \in 0..config.confirmation_samples
    /\ steered.reconfirmations > 0 => steered.direction = None
    /\ steered.direction # None => wanted # None
    /\ steered.direction = None /\ wanted # None => steered.reconfirmations > 0

\* It goes from one heading to the next by small turns, and from a rest that awaits
\* reconfirmations only on a new observation.
SteersSlowly(steered, new_observation) ==
    steered.heading # None =>
        /\ direction_ # None => Abs(Turn(direction_, steered.heading)) <= 2
        /\ direction_ = None => direction_reconfirmations_ = 0 \/ new_observation

\* The headings behind the lateral axis.
Backward == 3..5

\* Following a heading ends in a stop only for a large turn, at an observation.
LEMMA FollowedWell ==
  ASSUME SteeringOK, NEW wanted \in Headings, NEW new_observation,
         direction_reconfirmations_ = 0 \/ new_observation,
         NEW steered \in Followed(wanted, new_observation, 1)
  PROVE  /\ SteersWell(steered, wanted)
         /\ SteersSlowly(steered, new_observation)
         /\ direction_ \notin Backward /\ wanted \notin Backward => steered.heading \notin Backward
         /\ steered.heading = None => direction_ # None /\ new_observation
<1>1. CASE direction_ = None
  <2>1. steered = Drive(wanted)
    BY <1>1 DEF Followed
  <2>2. QED
    BY <1>1, <2>1, DriveDrives DEF SteersWell, SteersSlowly, SteeringOK, Headings, None
<1>2. CASE direction_ # None
  <2>1. CASE steered = Stop(1, None) /\ new_observation
    BY <1>2, <2>1, StopIsStop DEF SteersWell, SteersSlowly, SteeringOK, Backward, None
  <2>2. ASSUME MayBeSmall(direction_, wanted), NEW h \in Between(direction_, wanted),
               steered = Drive(h)
        PROVE  /\ SteersWell(steered, wanted)
               /\ SteersSlowly(steered, new_observation)
               /\ direction_ \notin Backward /\ wanted \notin Backward =>
                      steered.heading \notin Backward
               /\ steered.heading # None
    <3>1. /\ h \in Headings /\ h # None
          /\ Abs(Turn(direction_, h)) <= 2
          /\ direction_ \notin Backward /\ wanted \notin Backward => h \notin Backward
      BY <1>2, <2>2, SmallTurnParts DEF SteeringOK, Backward, None, Headings
    <3>2. wanted # None
      BY DEF Headings, None
    <3>3. QED
      BY <1>2, <2>2, <3>1, <3>2, DriveDrives DEF SteersWell, SteersSlowly, SteeringOK
  <2>3. QED
    BY <1>2, <2>1, <2>2 DEF Followed
<1>3. QED
  BY <1>1, <1>2

\* Steering does the same, and rests without one wanted or while it awaits reconfirmations.
LEMMA SteeredWell ==
  ASSUME SteeringOK, NEW wanted \in Headings \union {None}, NEW new_observation \in BOOLEAN,
         NEW steered \in Steered(wanted, new_observation)
  PROVE  /\ SteersWell(steered, wanted)
         /\ SteersSlowly(steered, new_observation)
         /\ direction_ \notin Backward /\ wanted \notin Backward => steered.heading \notin Backward
         /\ ~new_observation /\ direction_ # None /\ wanted # None => steered.heading # None
<1> DEFINE reconfirmations == direction_reconfirmations_ + (IF new_observation THEN 1 ELSE 0)
           waiting == /\ direction_reconfirmations_ > 0
                      /\ ~new_observation \/ reconfirmations <= config.confirmation_samples
<1>1. CASE wanted = None
  <2>1. steered = Stop(0, None)
    BY <1>1 DEF Steered
  <2>2. QED
    BY <1>1, <2>1, StopIsStop DEF SteersWell, SteersSlowly, SteeringOK, Backward, None
<1>2. CASE wanted # None /\ waiting
  <2>1. steered = Stop(reconfirmations, direction_)
    BY <1>2 DEF Steered
  <2>2. reconfirmations \in 1..config.confirmation_samples /\ direction_ = None
    BY <1>2 DEF SteeringOK
  <2>3. QED
    BY <1>2, <2>1, <2>2, StopIsStop DEF SteersWell, SteersSlowly, SteeringOK, Backward, None
<1>3. CASE wanted # None /\ ~waiting
  <2>1. steered \in Followed(wanted, new_observation, 1)
    BY <1>3 DEF Steered
  <2>2. direction_reconfirmations_ = 0 \/ new_observation
    BY <1>3 DEF SteeringOK
  <2>3. QED
    BY <1>3, <2>1, <2>2, FollowedWell
<1>4. QED
  BY <1>1, <1>2, <1>3

-----------------------------------------------------------------------------
(* The axes and the gate of translation.                                   *)

\* The parameters' types.
LEMMA ConfigTyped ==
  ASSUME config \in Configurations
  PROVE  /\ config.confirmation_samples \in Nat \ {0}
         /\ config.translation_yaw_stop \in Nat \ {0}
         /\ config.allow_reverse_x \in BOOLEAN
  BY DockingAssumption DEF Configurations

\* The sign of a whole number.
LEMMA SignOf ==
  ASSUME NEW n \in Int
  PROVE  /\ Sign(n) \in -1..1 /\ Abs(n) \in Nat
         /\ Sign(n) = 0 <=> n = 0
         /\ n >= 0 => Sign(n) >= 0
  BY DEF Sign, Abs

\* What is wanted is a heading of the rose, and not a backward one unless reversing is allowed.
LEMMA WantedHeading ==
  ASSUME config \in Configurations, NEW e, e.x \in Int, e.y \in Int, e.yaw \in Int,
         NEW x_axis, NEW y_axis, NEW translation
  PROVE  /\ Wanted(e, x_axis, y_axis, translation) \in Headings \union {None}
         /\ ~config.allow_reverse_x =>
                Wanted(e, x_axis, y_axis, translation) \notin Backward
<1> DEFINE x == Selected(x_axis, Ahead(e))
           y == Selected(y_axis, e.y)
<1>1. x \in Int /\ y \in Int /\ (~config.allow_reverse_x => x >= 0)
  BY DEF Selected, Ahead
<1>2. CASE Wanted(e, x_axis, y_axis, translation) = None
  BY <1>2 DEF Backward, None
<1>3. CASE Wanted(e, x_axis, y_axis, translation) # None
  <2>1. /\ Wanted(e, x_axis, y_axis, translation) = Heading(Sign(x), Sign(y))
        /\ x # 0 \/ y # 0
    BY <1>3 DEF Wanted
  <2>2. /\ Sign(x) \in -1..1 /\ Sign(y) \in -1..1 /\ (Sign(x) # 0 \/ Sign(y) # 0)
        /\ ~config.allow_reverse_x => Sign(x) >= 0
    BY <1>1, <2>1, SignOf
  <2>3. QED
    BY <2>1, <2>2, HeadingOfSigns DEF Backward
<1>4. QED
  BY <1>2, <1>3

\* An axis that does not move still lacks a confirmation.
AxisReady(axis) ==
    AxisOK(axis) /\ (axis.active = 0 => axis.count < config.confirmation_samples)

\* A resting axis lacks all.
LEMMA RestingReady ==
  ASSUME config \in Configurations
  PROVE  AxisReady(Resting)
  BY ConfigTyped DEF AxisReady, AxisOK, Axis, Resting

\* From one pass to the next, an axis starts in the direction asked for and reverses at once
\* only when a single confirmation is enough.
Advances(axis, next, requested) ==
    /\ AxisReady(next)
    /\ next.active # 0 => next.active = requested
    /\ axis.active # 0 /\ next.active # 0 /\ next.active # axis.active =>
           config.confirmation_samples = 1

\* An axis that is asked for a direction advances,
LEMMA AskedReady ==
  ASSUME config \in Configurations, NEW axis, AxisReady(axis), NEW requested \in -1..1,
         NEW inside
  PROVE  Advances(axis, Asked(axis, requested, Repeated(axis, requested), inside), requested)
<1> USE DEF Advances
<1> DEFINE count == Repeated(axis, requested)
           next == Asked(axis, requested, count, inside)
<1>1. config.confirmation_samples \in Nat \ {0}
  BY ConfigTyped
<1>2. /\ axis \in Axis /\ axis.active \in -1..1 /\ axis.pending \in -1..1 /\ axis.count \in Nat
      /\ axis.count <= config.confirmation_samples
      /\ axis.active # 0 => axis.pending = axis.active /\ axis.count = config.confirmation_samples
      /\ axis.active = 0 => axis.count < config.confirmation_samples
  BY DEF AxisReady, AxisOK, Axis
<1>3. CASE next = Resting
  BY <1>3, RestingReady DEF Resting
<1>4. CASE requested # 0 /\ requested = axis.active
  <2>1. next = axis
    BY <1>4 DEF Asked
  <2>2. QED
    BY <1>4, <2>1
<1>5. CASE requested # 0 /\ requested # axis.active /\ next # Resting
  <2>1. next = [active |-> IF count >= config.confirmation_samples THEN requested ELSE 0,
                pending |-> requested, count |-> count]
    BY <1>5 DEF Asked
  <2>2. count \in 1..config.confirmation_samples
    BY <1>1, <1>2, <1>5 DEF Repeated
  <2>3. axis.active # 0 => count = 1
    BY <1>2, <1>5 DEF Repeated
  <2>4. /\ next.active = IF count >= config.confirmation_samples THEN requested ELSE 0
        /\ next.pending = requested /\ next.count = count /\ next \in Axis
    BY <2>1, <2>2, <1>1 DEF Axis
  <2>5. QED
    BY <1>1, <1>5, <2>2, <2>3, <2>4 DEF AxisReady, AxisOK
<1>6. requested = 0 => next = Resting
  BY DEF Asked
<1>7. QED
  BY <1>3, <1>4, <1>5, <1>6

\* and so does one that is updated with an error.
LEMMA UpdatedReady ==
  ASSUME config \in Configurations, NEW axis, AxisReady(axis), NEW e \in Int, NEW tolerance \in Nat,
         NEW hysteresis \in Nat
  PROVE  Advances(axis, Updated(axis, e, tolerance, hysteresis), Sign(e))
<1> DEFINE requested == IF BeyondStop(e, tolerance, hysteresis) THEN Sign(e) ELSE 0
           next == Updated(axis, e, tolerance, hysteresis)
<1>1. requested \in -1..1 /\ (requested # 0 => requested = Sign(e))
  BY SignOf
<1>2. next = Asked(axis, requested, Repeated(axis, requested), Abs(e) <= tolerance)
  BY DEF Updated
<1> HIDE DEF requested
<1>3. Advances(axis, next, requested)
  BY <1>1, <1>2, AskedReady
<1>4. QED
  BY <1>1, <1>3 DEF Advances

\* Translation that is not enabled still lacks a confirmation.
TranslationReady(translation) ==
    /\ translation \in [enabled : BOOLEAN, confirmations : Nat]
    /\ translation.confirmations <= config.confirmation_samples
    /\ ~translation.enabled => translation.confirmations < config.confirmation_samples

\* The gate of translation keeps that.
LEMMA TranslationStaysReady ==
  ASSUME config \in Configurations, TranslationReady(translation_), NEW yaw \in Int
  PROVE  TranslationReady(UpdatedTranslation(yaw))
<1>1. config.confirmation_samples \in Nat \ {0} /\ config.translation_yaw_stop \in Nat
      /\ Abs(yaw) \in Nat /\ YawHysteresis \in Nat
  BY ConfigTyped, SignOf, DockingAssumption
<1> DEFINE count == translation_.confirmations + 1
           closed == [enabled |-> FALSE, confirmations |-> 0]
           counted == [enabled |-> count >= config.confirmation_samples, confirmations |-> count]
<1>2. TranslationReady(closed)
  BY <1>1 DEF TranslationReady
<1>3. CASE translation_.enabled
  <2>1. UpdatedTranslation(yaw) \in {closed, translation_}
    BY <1>1, <1>3 DEF UpdatedTranslation
  <2>2. QED
    BY <1>2, <2>1
<1>4. CASE ~translation_.enabled
  <2>1. count \in 1..config.confirmation_samples
    BY <1>1, <1>4 DEF TranslationReady
  <2>2. TranslationReady(counted)
    <3>1. /\ counted.enabled = (count >= config.confirmation_samples)
          /\ counted.confirmations = count /\ count \in Nat
          /\ counted \in [enabled : BOOLEAN, confirmations : Nat]
      BY <2>1
    <3>2. ~counted.enabled => count < config.confirmation_samples
      <4>1. count \in Nat /\ config.confirmation_samples \in Nat
        BY <1>1, <2>1
      <4>2. CASE count >= config.confirmation_samples
        BY <4>2, <3>1, Zenon
      <4>3. CASE ~(count >= config.confirmation_samples)
        BY <4>1, <4>3
      <4>4. QED
        BY <4>2, <4>3
    <3>3. QED
      BY <1>1, <2>1, <3>1, <3>2 DEF TranslationReady
  <2>3. UpdatedTranslation(yaw) \in {closed, counted}
    BY <1>1, <1>4 DEF UpdatedTranslation
  <2>4. QED
    BY <1>2, <2>2, <2>3
<1>5. QED
  BY <1>3, <1>4

-----------------------------------------------------------------------------
(* The inductive invariant of the controller.                              *)

\* The heading wanted at the error last observed.
WantedNow == Wanted(error, x_, y_, translation_)

\* The base is driven in the direction that is remembered, or rests.
DirectionIsDriven ==
    /\ command.heading = direction_
    /\ direction_ # None => driven = direction_

\* A direction is remembered as long as one is wanted; a rest in spite of it is a stop for a
\* large turn, which asks for reconfirmations.
DirectionIsWanted ==
    /\ direction_ # None => WantedNow # None
    /\ direction_ = None /\ WantedNow # None => direction_reconfirmations_ > 0

\* A rest began with an observation.
RestIsSeen == direction_ = None /\ driven # None => seen_at_rest >= 1

\* No direction is remembered that must not be driven.
Forward == ~config.allow_reverse_x => direction_ \notin Backward

\* A rotation follows its axis, and the axis the error.
YawFollowed ==
    /\ command.yaw # 0 => yaw_.active = command.yaw
    /\ yaw_.active # 0 => yaw_.active = Sign(error.yaw)

\* The axes and the gate of translation can still be confirmed.
Confirmable ==
    AxisReady(x_) /\ AxisReady(y_) /\ AxisReady(yaw_) /\ TranslationReady(translation_)

MotionIInv ==
    /\ MotionTypeOK
    /\ Confirmable
    /\ DirectionIsDriven
    /\ DirectionIsWanted
    /\ RestIsSeen
    /\ Forward
    /\ YawFollowed

\* What a pass must not do.
SafeTurn ==
    command'.heading # None /\ driven # None /\ Abs(Turn(driven, command'.heading)) > 2
        => seen_at_rest' >= 2

SafeYaw == command.yaw * command'.yaw = -1 => config.confirmation_samples = 1

-----------------------------------------------------------------------------
(* The passes.                                                             *)

\* The rotation of a pass is that of its axis.
LEMMA RotationFollows ==
  ASSUME NEW e, e.yaw \in Int, NEW axis, axis.active # 0 => axis.active = Sign(e.yaw)
  PROVE  /\ Rotation(e, axis) \in -1..1
         /\ Rotation(e, axis) # 0 => axis.active = Rotation(e, axis)
  BY SignOf DEF Rotation

\* What a pass does with the direction: what is wanted is a function of the last observation,
\* so that a pass without one neither starts nor stops translation.
LEMMA ControllerSteers ==
  ASSUME MotionIInv, NEW fresh \in BOOLEAN, Pass(fresh),
         error' \in Errors \union {[x |-> 0, y |-> 0, yaw |-> 0]},
         ~fresh => UNCHANGED <<error, x_, y_, translation_>>
  PROVE  /\ config' = config
         /\ direction_' \in Headings \union {None} /\ driven' \in Headings \union {None}
         /\ direction_reconfirmations_' \in 0..config.confirmation_samples
         /\ direction_reconfirmations_' > 0 => direction_' = None
         /\ command' = [heading |-> direction_', yaw |-> Rotation(error', yaw_')]
         /\ seen_at_rest' \in 0..2
         /\ DirectionIsDriven' /\ DirectionIsWanted' /\ RestIsSeen' /\ Forward'
         /\ SafeTurn
<1> DEFINE wanted == Wanted(error', x_', y_', translation_')
<1>1. PICK steered \in Steered(wanted, fresh) :
        /\ direction_' = steered.direction
        /\ direction_reconfirmations_' = steered.reconfirmations
        /\ command' = [heading |-> steered.heading, yaw |-> Rotation(error', yaw_')]
        /\ driven' = IF steered.heading = None THEN driven ELSE steered.heading
        /\ LET before == IF command.heading = None THEN seen_at_rest ELSE 0
           IN  seen_at_rest' = IF fresh /\ before < 2 THEN before + 1 ELSE before
        /\ UNCHANGED config
  BY DEF Pass
<1>2. config \in Configurations /\ config' = config
  BY <1>1 DEF MotionIInv, MotionTypeOK
<1>3. wanted \in Headings \union {None} /\ (~config.allow_reverse_x => wanted \notin Backward)
  <2>1. error'.x \in Int /\ error'.y \in Int /\ error'.yaw \in Int
    BY DockingAssumption
  <2>2. QED
    BY <1>2, <2>1, WantedHeading
<1>4. WantedNow' = wanted /\ (~fresh => WantedNow = wanted)
  BY <1>2 DEF WantedNow, Wanted, Selected, Ahead
<1> HIDE DEF wanted
<1>5. SteeringOK
  BY <1>2, ConfigTyped DEF MotionIInv, MotionTypeOK, SteeringOK
<1>6. /\ SteersWell(steered, wanted)
      /\ SteersSlowly(steered, fresh)
      /\ direction_ \notin Backward /\ wanted \notin Backward => steered.heading \notin Backward
      /\ ~fresh /\ direction_ # None /\ wanted # None => steered.heading # None
  BY <1>1, <1>3, <1>5, SteeredWell
<1>7. /\ direction_' = steered.heading
      /\ direction_' \in Headings \union {None}
      /\ direction_reconfirmations_' \in 0..config.confirmation_samples
      /\ direction_reconfirmations_' > 0 => direction_' = None
      /\ command' = [heading |-> direction_', yaw |-> Rotation(error', yaw_')]
      /\ command'.heading = direction_'
  BY <1>1, <1>6 DEF SteersWell
<1>8. driven' = (IF direction_' = None THEN driven ELSE direction_')
      /\ driven \in Headings \union {None} /\ driven' \in Headings \union {None}
  BY <1>1, <1>7 DEF MotionIInv, MotionTypeOK
<1>9. DirectionIsDriven' /\ DirectionIsWanted'
  BY <1>1, <1>4, <1>6, <1>7, <1>8 DEF SteersWell, DirectionIsDriven, DirectionIsWanted
<1>10. Forward'
  BY <1>2, <1>3, <1>6, <1>7 DEF MotionIInv, Forward
<1>11. /\ command.heading = direction_ /\ (direction_ # None => driven = direction_)
       /\ seen_at_rest \in 0..2
       /\ direction_ = None /\ driven # None => seen_at_rest >= 1
       /\ direction_ # None => WantedNow # None
       /\ direction_ = None /\ WantedNow # None => direction_reconfirmations_ > 0
  BY DEF MotionIInv, MotionTypeOK, DirectionIsDriven, RestIsSeen, DirectionIsWanted
<1>12. /\ fresh => seen_at_rest' = IF direction_ # None THEN 1
                                   ELSE IF seen_at_rest < 2 THEN seen_at_rest + 1 ELSE seen_at_rest
       /\ ~fresh => seen_at_rest' = IF direction_ # None THEN 0 ELSE seen_at_rest
  BY <1>1, <1>11
<1>13. seen_at_rest' \in 0..2
  BY <1>11, <1>12
<1>14. RestIsSeen'
  <2>1. SUFFICES ASSUME direction_' = None, driven' # None PROVE seen_at_rest' >= 1
    BY DEF RestIsSeen
  <2>2. driven # None
    BY <1>8, <2>1
  <2>3. CASE fresh
    BY <1>11, <1>12, <2>3
  <2>4. CASE ~fresh
    <3>1. direction_ = None
      BY <1>4, <1>6, <1>7, <1>11, <2>1, <2>4
    <3>2. QED
      BY <1>11, <1>12, <2>2, <2>4, <3>1
  <2>5. QED
    BY <2>3, <2>4
<1>15. SafeTurn
  <2>1. SUFFICES ASSUME direction_' # None, driven # None, Abs(Turn(driven, direction_')) > 2
                 PROVE  seen_at_rest' >= 2
    BY <1>7 DEF SafeTurn
  <2>2. direction_ = None
    <3>1. SUFFICES ASSUME direction_ # None PROVE FALSE
      OBVIOUS
    <3>2. Abs(Turn(direction_, direction_')) <= 2 /\ driven = direction_
      BY <1>6, <1>7, <1>11, <2>1, <3>1 DEF SteersSlowly
    <3>3. Abs(Turn(driven, direction_')) \in Int
      <4>1. driven \in Headings /\ direction_' \in Headings
        BY <1>7, <1>8, <2>1
      <4>2. Turn(driven, direction_') \in Int
        BY <4>1, TurnOf
      <4>3. QED
        BY <4>2 DEF Abs
    <3>4. QED
      BY <2>1, <3>2, <3>3
  <2>3. fresh
    <3>1. SUFFICES ASSUME ~fresh PROVE FALSE
      OBVIOUS
    <3>2. direction_reconfirmations_ = 0
      BY <1>6, <1>7, <2>1, <2>2, <3>1 DEF SteersSlowly
    <3>3. wanted # None
      BY <1>6, <1>7, <2>1, <1>1 DEF SteersWell
    <3>4. QED
      BY <1>4, <1>11, <2>2, <3>1, <3>2, <3>3
  <2>4. QED
    BY <1>11, <1>12, <2>1, <2>2, <2>3
<1>16. QED
  BY <1>2, <1>7, <1>8, <1>9, <1>10, <1>13, <1>14, <1>15

\* A rotation that changes its sign has an axis that does so in one pass.
LEMMA SafeYawFromAxis ==
  ASSUME MotionIInv, command' \in [heading : Headings \union {None}, yaw : -1..1],
         command'.yaw # 0 => yaw_'.active = command'.yaw,
         yaw_.active # 0 /\ yaw_'.active # 0 /\ yaw_'.active # yaw_.active =>
             config.confirmation_samples = 1
  PROVE  SafeYaw
<1>1. command.yaw \in {-1, 0, 1} /\ command'.yaw \in {-1, 0, 1}
  BY DEF MotionIInv, MotionTypeOK
<1>2. SUFFICES ASSUME command.yaw * command'.yaw = -1 PROVE config.confirmation_samples = 1
  BY DEF SafeYaw
<1>3. command.yaw # 0 /\ command'.yaw # 0 /\ command.yaw # command'.yaw
  BY <1>1, <1>2
<1>4. QED
  BY <1>3 DEF MotionIInv, YawFollowed

\* A pass keeps the invariant if what it observed does.
LEMMA ControllerPass ==
  ASSUME MotionIInv, NEW fresh \in BOOLEAN, Pass(fresh), sequence' \in 0..1,
         error' \in Errors \union {[x |-> 0, y |-> 0, yaw |-> 0]},
         ~fresh => UNCHANGED <<error, x_, y_, translation_>>,
         AxisReady(x_'), AxisReady(y_'), Advances(yaw_, yaw_', Sign(error'.yaw)),
         TranslationReady(translation_')
  PROVE  MotionIInv' /\ SafeTurn /\ SafeYaw
<1>1. /\ config' = config
      /\ direction_' \in Headings \union {None} /\ driven' \in Headings \union {None}
      /\ direction_reconfirmations_' \in 0..config.confirmation_samples
      /\ direction_reconfirmations_' > 0 => direction_' = None
      /\ command' = [heading |-> direction_', yaw |-> Rotation(error', yaw_')]
      /\ seen_at_rest' \in 0..2
      /\ DirectionIsDriven' /\ DirectionIsWanted' /\ RestIsSeen' /\ Forward'
      /\ SafeTurn
  BY ControllerSteers
<1>2. /\ AxisReady(yaw_') /\ (yaw_'.active # 0 => yaw_'.active = Sign(error'.yaw))
      /\ yaw_.active # 0 /\ yaw_'.active # 0 /\ yaw_'.active # yaw_.active =>
             config.confirmation_samples = 1
  BY DEF Advances
<1>3. /\ Rotation(error', yaw_') \in -1..1
      /\ Rotation(error', yaw_') # 0 => yaw_'.active = Rotation(error', yaw_')
  <2>1. error'.yaw \in Int
    BY DockingAssumption
  <2>2. QED
    BY <1>2, <2>1, RotationFollows
<1>4. /\ command' \in [heading : Headings \union {None}, yaw : -1..1]
      /\ command'.yaw = Rotation(error', yaw_')
  BY <1>1, <1>3
<1>5. YawFollowed'
  BY <1>2, <1>3, <1>4 DEF YawFollowed
<1>6. SafeYaw
  BY <1>2, <1>3, <1>4, SafeYawFromAxis
<1>7. Confirmable'
  BY <1>1, <1>2 DEF Confirmable, AxisReady, AxisOK, TranslationReady
<1>8. MotionTypeOK'
  <2>1. AxisOK(x_)' /\ AxisOK(y_)' /\ AxisOK(yaw_)'
    BY <1>7 DEF Confirmable, AxisReady
  <2>2. /\ translation_' \in [enabled : BOOLEAN, confirmations : Nat]
        /\ translation_'.confirmations <= config.confirmation_samples
    BY DEF TranslationReady
  <2>3. config \in Configurations
    BY DEF MotionIInv, MotionTypeOK
  <2>4. QED
    BY <1>1, <1>4, <2>1, <2>2, <2>3 DEF MotionTypeOK
<1>9. QED
  BY <1>1, <1>5, <1>6, <1>7, <1>8 DEF MotionIInv

\* Both passes keep the invariant and are safe.
LEMMA ControllerStep ==
  ASSUME MotionIInv, MotionNext
  PROVE  MotionIInv' /\ SafeTurn /\ SafeYaw
<1>1. /\ config \in Configurations /\ error \in Errors \union {[x |-> 0, y |-> 0, yaw |-> 0]}
      /\ sequence \in 0..1
      /\ AxisReady(x_) /\ AxisReady(y_) /\ AxisReady(yaw_) /\ TranslationReady(translation_)
  BY DEF MotionIInv, MotionTypeOK, Confirmable
<1>2. CASE Observe
  <2>1. error' \in Errors /\ Pass(TRUE) /\ sequence' = 1 - sequence
    BY <1>2 DEF Observe
  <2>2. Ahead(error') \in Int /\ error'.y \in Int /\ error'.yaw \in Int
    BY <2>1, DockingAssumption DEF Ahead
  <2>3. AxisReady(x_') /\ AxisReady(y_') /\ Advances(yaw_, yaw_', Sign(error'.yaw))
    <3>1. /\ x_' = Updated(x_, Ahead(error'), PositionTolerance, PositionHysteresis)
          /\ y_' = Updated(y_, error'.y, PositionTolerance, PositionHysteresis)
          /\ yaw_' = Updated(yaw_, error'.yaw, YawTolerance, YawHysteresis)
      BY <1>2 DEF Observe
    <3>2. /\ Advances(x_, x_', Sign(Ahead(error')))
          /\ Advances(y_, y_', Sign(error'.y))
          /\ Advances(yaw_, yaw_', Sign(error'.yaw))
      BY <1>1, <2>2, <3>1, UpdatedReady, DockingAssumption
    <3>3. QED
      BY <3>2 DEF Advances
  <2>4. TranslationReady(translation_')
    BY <1>1, <1>2, <2>2, TranslationStaysReady DEF Observe
  <2>5. sequence' \in 0..1
    BY <1>1, <2>1
  <2>6. QED
    BY <2>1, <2>3, <2>4, <2>5, ControllerPass
<1>3. CASE Repeat
  <2>1. UNCHANGED <<error, sequence, x_, y_, yaw_, translation_>> /\ Pass(FALSE)
    BY <1>3 DEF Repeat
  <2>2. Advances(yaw_, yaw_', Sign(error'.yaw))
    BY <1>1, <2>1 DEF Advances, MotionIInv, YawFollowed
  <2>3. QED
    BY <1>1, <2>1, <2>2, ControllerPass
<1>4. QED
  BY <1>2, <1>3 DEF MotionNext

-----------------------------------------------------------------------------
(* The theorems about the controller.                                      *)

\* The controller starts at rest.
LEMMA MotionInitIInv == MotionInit => MotionIInv
<1> SUFFICES ASSUME MotionInit PROVE MotionIInv
  OBVIOUS
<1>1. config \in Configurations /\ config.confirmation_samples \in Nat \ {0}
  BY ConfigTyped DEF MotionInit
<1>2. Confirmable
  <2>1. AxisReady(x_) /\ AxisReady(y_) /\ AxisReady(yaw_)
    BY <1>1, RestingReady DEF MotionInit
  <2>2. TranslationReady(translation_)
    <3>1. translation_ = [enabled |-> FALSE, confirmations |-> 0]
      BY DEF MotionInit
    <3>2. QED
      BY <1>1, <3>1 DEF TranslationReady
  <2>3. QED
    BY <2>1, <2>2 DEF Confirmable
<1>3. MotionTypeOK
  <2>1. AxisOK(x_) /\ AxisOK(y_) /\ AxisOK(yaw_)
    BY <1>2 DEF Confirmable, AxisReady
  <2>2. /\ translation_ \in [enabled : BOOLEAN, confirmations : Nat]
        /\ translation_.confirmations <= config.confirmation_samples
    BY <1>2 DEF Confirmable, TranslationReady
  <2>3. QED
    BY <1>1, <2>1, <2>2 DEF MotionInit, MotionTypeOK
<1>4. DirectionIsDriven /\ RestIsSeen /\ Forward
  BY DEF MotionInit, DirectionIsDriven, RestIsSeen, Forward, Backward, None
<1>5. DirectionIsWanted
  <2>1. ~translation_.enabled
    BY DEF MotionInit
  <2>2. WantedNow = None
    BY <2>1 DEF WantedNow, Wanted
  <2>3. QED
    BY <2>2 DEF MotionInit, DirectionIsWanted
<1>6. YawFollowed
  BY DEF MotionInit, YawFollowed, Resting
<1>7. QED
  BY <1>2, <1>3, <1>4, <1>5, <1>6 DEF MotionIInv

\* Every pass keeps the invariant, and so does none.
LEMMA MotionNextIInv == MotionIInv /\ [MotionNext]_motion_vars => MotionIInv'
<1> SUFFICES ASSUME MotionIInv, UNCHANGED motion_vars PROVE MotionIInv'
  BY ControllerStep
<1>1. MotionTypeOK' /\ Confirmable'
  BY DEF motion_vars, MotionIInv, MotionTypeOK, Confirmable, AxisReady, AxisOK, TranslationReady
<1>2. DirectionIsDriven' /\ RestIsSeen' /\ Forward' /\ YawFollowed'
  BY DEF motion_vars, MotionIInv, DirectionIsDriven, RestIsSeen, Forward, YawFollowed
<1>3. DirectionIsWanted'
  BY DEF motion_vars, MotionIInv, DirectionIsWanted, WantedNow, Wanted, Selected, Ahead
<1>4. QED
  BY <1>1, <1>2, <1>3 DEF MotionIInv

\* The invariant holds throughout.
LEMMA MotionInvariant == MotionSpec => []MotionIInv
  BY MotionInitIInv, MotionNextIInv, PTL DEF MotionSpec

\* For every tolerance, hysteresis, yaw stop and number of confirmations, no counter passes its
\* confirmations and no direction is remembered during a stop for a turn.
THEOREM MotionTypeCorrect == MotionSpec => []MotionTypeOK
<1>1. MotionIInv => MotionTypeOK
  BY DEF MotionIInv
<1>2. QED
  BY <1>1, MotionInvariant, PTL

\* A controller that must not reverse never drives backwards.
THEOREM ForwardOnly == MotionSpec => []NeverReverses
<1>1. MotionIInv => NeverReverses
  BY DEF MotionIInv, NeverReverses, DirectionIsDriven, Forward, Backward
<1>2. QED
  BY <1>1, MotionInvariant, PTL

\* A heading more than 90 degrees from the last one driven is driven only after a rest on which
\* a new observation was made.
THEOREM RestBeforeTurn == MotionSpec => RestsBeforeLargeTurn
<1> DEFINE A == command'.heading # None /\ driven # None
                 /\ Abs(Turn(driven, command'.heading)) > 2 => seen_at_rest' >= 2
<1>1. MotionIInv /\ [MotionNext]_motion_vars => [A]_motion_vars
  BY ControllerStep DEF SafeTurn
<1>2. MotionSpec => [][A]_motion_vars
  BY <1>1, MotionInvariant, PTL DEF MotionSpec
<1>3. QED
  BY <1>2 DEF RestsBeforeLargeTurn

\* With more than one confirmation, a rotation is reversed only through a rest.
THEOREM YawRests == MotionSpec => YawRestsBeforeReversal
<1> DEFINE A == command.yaw * command'.yaw = -1 => config.confirmation_samples = 1
<1>1. MotionIInv /\ [MotionNext]_motion_vars => [A]_motion_vars
  BY ControllerStep DEF SafeYaw
<1>2. MotionSpec => [][A]_motion_vars
  BY <1>1, MotionInvariant, PTL DEF MotionSpec
<1>3. QED
  BY <1>2 DEF YawRestsBeforeReversal
=============================================================================
