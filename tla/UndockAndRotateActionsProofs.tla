--------------------- MODULE UndockAndRotateActionsProofs ---------------------
(***************************************************************************)
(* The safety of one undock or rotation goal, for every timeout, every set *)
(* of durations and every interleaving of the worker with the callbacks.   *)
(***************************************************************************)
EXTENDS UndockAndRotateActions, TLAPS

-----------------------------------------------------------------------------
(* The inductive invariant.                                                *)

\* Which motion a place belongs to.
PlaceOfKind ==
    /\ worker_pc \in {"pass", "sampled", "clear"} => Timed
    /\ worker_pc \in {"acquiring", "waiting", "moving", "stopping", "polled"} => ~Timed
    /\ worker_pc \in {"admission", "interrupted"} => kind # "rotate"

\* An anchor is no older than the unbroken run of eligible passes, and that run has been
\* observed.
SettlingCovered ==
    settling # NotSettling => observed >= 1 /\ dwell >= settling

\* A command stored too late is the last one: the motion still has to stop, and the next
\* pass finds out before it stores another.
LateIsLast ==
    late > 0 => late = 1 /\ MustStop /\ worker_pc \notin {"clear", "polled"}

\* A repeated STOP does not make the one under way any younger.
StopAgeIsTrue == stop_age = stop_lasts

IInv ==
    /\ TypeOK
    /\ StopAgeIsTrue
    /\ PlaceOfKind
    /\ SettlingCovered
    /\ LateIsLast
    /\ SuccessIsSettled
    /\ EarlierDeadlineDecides

-----------------------------------------------------------------------------
(* Limits, ages and inputs.                                                *)

\* The longest limit is one of the limits, and no other is longer.
LEMMA LongestLimit ==
  Longest \in Nat /\ \A t \in Limits : t \in Nat /\ t <= Longest
<1>1. \A t \in Limits : t \in Nat
  BY UndockAssumption DEF Limits
<1>2. PICK d \in Durations : \A u \in Durations : u <= d
  BY UndockAssumption
<1>3. d \in Nat /\ AcquisitionTimeout \in Nat /\ UndockTimeout \in Nat
  BY UndockAssumption
<1>4. \E t \in Limits : \A u \in Limits : u <= t
  <2>1. \E t \in {d, AcquisitionTimeout, UndockTimeout} :
            d <= t /\ AcquisitionTimeout <= t /\ UndockTimeout <= t
    BY <1>3
  <2>2. PICK t \in {d, AcquisitionTimeout, UndockTimeout} :
            d <= t /\ AcquisitionTimeout <= t /\ UndockTimeout <= t
    BY <2>1
  <2>3. t \in Limits
    BY DEF Limits
  <2>4. ASSUME NEW u \in Limits PROVE u <= t
    <3>1. CASE u \in Durations
      <4>1. u \in Nat /\ u <= d /\ t \in Nat
        BY <1>1, <1>2, <2>3, <3>1
      <4>2. QED
        BY <1>3, <2>2, <4>1
    <3>2. CASE u \in {AcquisitionTimeout, UndockTimeout}
      BY <2>2, <3>2
    <3>3. QED
      BY <3>1, <3>2 DEF Limits
  <2>5. QED
    BY <2>3, <2>4
<1>5. Longest \in Limits /\ \A u \in Limits : u <= Longest
  BY <1>4 DEF Longest
<1>6. QED
  BY <1>1, <1>5

\* An age grows up to one past its limit, and two ages with one limit keep their order.
LEMMA OlderAge ==
  ASSUME NEW limit \in Nat, NEW age \in 0..limit + 1
  PROVE  /\ Older(age, limit) \in 0..limit + 1
         /\ \A other \in 0..limit + 1 : other <= age => Older(other, limit) <= Older(age, limit)
  BY DEF Older

\* The callbacks and the clock keep the inputs' types, and the age of a STOP its true one.
LEMMA InputsStayOK ==
  InputsOK /\ StopAgeIsTrue /\ (InputsChange \/ InputsAge) => InputsOK' /\ StopAgeIsTrue'
<1> SUFFICES ASSUME InputsOK, StopAgeIsTrue, InputsChange \/ InputsAge
             PROVE  InputsOK' /\ StopAgeIsTrue'
  OBVIOUS
<1> USE InputsAssumption DEF InputsOK, StopAgeIsTrue, target_vars, stop_vars
<1>1. CASE InputsAge
  <2>1. /\ Older(stop_age, CollisionStopTimeout) \in 0..CollisionStopTimeout + 1
        /\ 0 \in 0..CollisionStopTimeout + 1
    BY OlderAge
  <2>2. QED
    BY <1>1, <2>1 DEF InputsAge
<1>2. CASE InputsChange
  <2>1. CASE Shutdown \/ CancelRequest \/ NewTarget \/ TargetLost
    BY <2>1 DEF Shutdown, CancelRequest, NewTarget, TargetLost
  <2>2. CASE NavigationChanges
    BY <2>2 DEF NavigationChanges
  <2>3. CASE ManipulationChanges
    BY <2>3 DEF ManipulationChanges
  <2>4. CASE CollisionStop
    BY <2>4, 0 \in 0..CollisionStopTimeout + 1 DEF CollisionStop
  <2>5. CASE CollisionClears
    BY <2>5, 0 \in 0..CollisionStopTimeout + 1 DEF CollisionClears
  <2>6. QED
    BY <1>2, <2>1, <2>2, <2>3, <2>4, <2>5 DEF InputsChange
<1>3. QED
  BY <1>1, <1>2

-----------------------------------------------------------------------------
(* How the worker ends.                                                    *)

\* A failure is told as it is, or as canceled.
LEMMA Finishing ==
  ASSUME NEW code \in Codes \ {"SUCCESS", "CANCELED"}, FinishUndock(code)
  PROVE  /\ worker_pc' = "done" /\ status' \in {"aborted", "canceled"}
         /\ ResultOK'
         /\ error_code' \in {code, "CANCELED"}
  BY DEF FinishUndock, End, ResultOK, Codes

\* The reason of an interruption is a failure, or decided by a cancel request anyway.
LEMMA FinishingWithReason ==
  ASSUME NEW code \in Codes \ {"SUCCESS", "CANCELED"}, FinishUndock(Reason(code))
  PROVE  /\ worker_pc' = "done" /\ status' \in {"aborted", "canceled"}
         /\ ResultOK'
         /\ error_code' \in {code, "NAVIGATION_ACTIVE", "CANCELED"}
<1>1. CASE canceling
  BY <1>1 DEF FinishUndock, End, ResultOK, Codes
<1>2. CASE ~canceling
  <2>1. Reason(code) \in {code, "NAVIGATION_ACTIVE"}
    BY <1>2 DEF Reason
  <2>2. Reason(code) \in Codes \ {"SUCCESS", "CANCELED"}
    BY <2>1 DEF Codes
  <2>3. QED
    BY <2>1, <2>2, Finishing
<1>3. QED
  BY <1>1, <1>2

\* Going on tells the client nothing.
LEMMA GoingOn ==
  ASSUME ResultOK, worker_pc # "done", NEW place \in Places \ {"done"}, GoTo(place)
  PROVE  worker_pc' = place /\ status' = "executing" /\ error_code' = "SUCCESS" /\ ResultOK'
  BY DEF GoTo, ResultOK, result_vars

-----------------------------------------------------------------------------
(* The worker's steps.                                                     *)

quiet_vars == <<settling_vars, request_vars, auxiliary_vars, input_vars>>

\* Most steps neither store a command nor settle.  They keep the invariant if they know where
\* they go, do not reach the point of a late command, and succeed in open loop only.
LEMMA QuietStep ==
  ASSUME IInv, UNCHANGED quiet_vars,
         worker_pc' \in Places, ResultOK', PassOK', PlaceOfKind', EarlierDeadlineDecides',
         late > 0 => worker_pc' \notin {"clear", "polled"},
         status' = "succeeded" => Timed
  PROVE  IInv'
<1>1. /\ InputsOK' /\ StopAgeIsTrue' /\ SettlingOK' /\ SettlingCovered' /\ SuccessIsSettled'
      /\ late' \in 0..2 /\ since_stop' \in 0..3
  BY DEF IInv, TypeOK, InputsOK, StopAgeIsTrue, SettlingOK, SettlingCovered, SuccessIsSettled,
     Timed, quiet_vars, settling_vars, request_vars, auxiliary_vars, input_vars, stop_vars,
     target_vars
<1>2. LateIsLast'
  BY DEF IInv, LateIsLast, MustStop, StopOverdue, Timed, quiet_vars, request_vars, auxiliary_vars,
     input_vars, stop_vars
<1>3. QED
  BY <1>1, <1>2 DEF IInv, TypeOK

\* A step that ends the goal with a failure.
LEMMA FailingStep ==
  ASSUME IInv, UNCHANGED quiet_vars, PassOK',
         worker_pc' = "done", ResultOK', status' \in {"aborted", "canceled"},
         kind = "timed_reverse" /\ error_code' = "UNDOCK_TIMEOUT" => UndockTimeout < duration
  PROVE  IInv'
<1>1. worker_pc' \in Places /\ PlaceOfKind'
  BY DEF Places, PlaceOfKind
<1>2. EarlierDeadlineDecides'
  BY DEF EarlierDeadlineDecides, quiet_vars, request_vars
<1>3. QED
  BY <1>1, <1>2, QuietStep

\* A step that goes on to a place of its motion.
LEMMA GoingStep ==
  ASSUME IInv, UNCHANGED quiet_vars, PassOK', worker_pc # "done",
         NEW place \in Places \ {"done"}, GoTo(place), PlaceOfKind',
         late > 0 => place \notin {"clear", "polled"}
  PROVE  IInv'
<1>1. worker_pc' = place /\ status' = "executing" /\ error_code' = "SUCCESS" /\ ResultOK'
  BY GoingOn DEF IInv, TypeOK
<1>2. EarlierDeadlineDecides'
  BY <1>1 DEF EarlierDeadlineDecides
<1>3. QED
  BY <1>1, <1>2, QuietStep

\* What a pass has read stays well formed while the ages do.
LEMMA PassStays ==
  ASSUME IInv, UNCHANGED <<request_vars, commanded>>,
         elapsed' \in {0, elapsed}, sampled' \in {0, elapsed, sampled},
         saw_stop' \in {saw_stop, collision_stopped_}, saw_valid' \in {saw_valid, state_valid}
  PROVE  PassOK'
  BY LongestLimit DEF IInv, TypeOK, InputsOK, PassOK, request_vars

\* The checks before anything moves.
LEMMA StartStep ==
  ASSUME IInv, StartUndock \/ AdmitUndock \/ StartRotate
  PROVE  IInv'
<1>1. UNCHANGED quiet_vars /\ PassOK'
  BY PassStays DEF StartUndock, AdmitUndock, StartRotate, quiet_vars, pass_vars
<1>2. CASE StartUndock
  <2>1. worker_pc # "done" /\ kind # "rotate" /\ kind' = kind
    BY <1>2 DEF StartUndock, request_vars
  <2>2. CASE FinishUndock("INVALID_PROFILE")
    BY <1>1, <2>2, Finishing, FailingStep DEF Codes
  <2>3. CASE GoTo("admission")
    <3>1. PlaceOfKind'
      BY <2>1, <2>3 DEF GoTo, PlaceOfKind
    <3>2. QED
      BY <1>1, <2>1, <2>3, <3>1, GoingStep DEF Places
  <2>4. QED
    BY <1>2, <2>2, <2>3 DEF StartUndock
<1>3. CASE AdmitUndock
  <2>1. worker_pc # "done" /\ kind # "rotate" /\ kind' = kind /\ kind \in Kinds
    BY <1>3 DEF AdmitUndock, request_vars, IInv, PlaceOfKind, TypeOK, PassOK
  <2>2. CASE FinishUndock("NAVIGATION_ACTIVE") \/ FinishUndock("INVALID_STATE")
    BY <1>1, <2>2, Finishing, FailingStep DEF Codes
  <2>3. ASSUME NEW place, place = IF kind = "timed_reverse" THEN "pass" ELSE "acquiring",
               GoTo(place)
        PROVE  IInv'
    <3>1. PlaceOfKind'
      BY <2>1, <2>3 DEF GoTo, PlaceOfKind, Timed, Kinds
    <3>2. QED
      BY <1>1, <2>1, <2>3, <3>1, GoingStep DEF Places
  <2>4. QED
    BY <1>3, <2>2, <2>3 DEF AdmitUndock
<1>4. CASE StartRotate
  <2>1. worker_pc # "done" /\ kind = "rotate" /\ kind' = kind
    BY <1>4 DEF StartRotate, request_vars
  <2>2. CASE End("aborted", "INVALID_GOAL")
    <3>1. worker_pc' = "done" /\ status' = "aborted" /\ ResultOK' /\ error_code' = "INVALID_GOAL"
      BY <2>2 DEF End, ResultOK, Codes
    <3>2. QED
      BY <1>1, <3>1, FailingStep
  <2>3. CASE GoTo("pass")
    <3>1. PlaceOfKind'
      BY <2>1, <2>3 DEF GoTo, PlaceOfKind, Timed
    <3>2. QED
      BY <1>1, <2>1, <2>3, <3>1, GoingStep DEF Places
  <2>4. QED
    BY <1>4, <2>2, <2>3 DEF StartRotate
<1>5. QED
  BY <1>2, <1>3, <1>4

\* The open-loop motions: the clock sample, the polls and the deadlines.
LEMMA TimedStep ==
  ASSUME IInv,
         Sample \/ TimedPoll \/ TimedInterrupted \/ RotatePoll \/ TimedDeadline \/ TimedDone
  PROVE  IInv'
<1>1. UNCHANGED quiet_vars /\ PassOK'
  BY PassStays DEF Sample, TimedPoll, TimedInterrupted, RotatePoll, TimedDeadline, TimedDone,
     quiet_vars, pass_vars
<1>2. /\ worker_pc # "done" /\ Timed /\ Timed'
      /\ kind' = kind /\ duration' = duration
  BY DEF Sample, TimedPoll, TimedInterrupted, RotatePoll, TimedDeadline, TimedDone, IInv,
     PlaceOfKind, Timed, quiet_vars, request_vars
<1>3. ASSUME NEW code \in Codes \ {"SUCCESS", "CANCELED", "UNDOCK_TIMEOUT"}, End("aborted", code)
      PROVE  IInv'
  <2>1. worker_pc' = "done" /\ status' = "aborted" /\ ResultOK' /\ error_code' = code
    BY <1>3 DEF End, ResultOK, Codes
  <2>2. QED
    BY <1>1, <1>3, <2>1, FailingStep
<1>4. ASSUME NEW place \in {"pass", "sampled", "clear"}, GoTo(place),
             late > 0 => place # "clear"
      PROVE  IInv'
  <2>1. PlaceOfKind'
    BY <1>2, <1>4 DEF GoTo, PlaceOfKind
  <2>2. QED
    BY <1>1, <1>2, <1>4, <2>1, GoingStep DEF Places
<1>5. CASE Sample
  <2>1. CASE End("aborted", "SAFETY_ABORT")
    BY <1>3, <2>1 DEF Codes
  <2>2. CASE FinishUndock("SAFETY_ABORT")
    BY <1>1, <2>2, Finishing, FailingStep DEF Codes
  <2>3. CASE GoTo("sampled")
    BY <1>4, <2>3
  <2>4. QED
    BY <1>5, <2>1, <2>2, <2>3 DEF Sample
<1>6. CASE TimedPoll
  <2>1. CASE canceling \/ navigation_active \/ collision_stopped_ \/ ~state_valid
    <3>1. GoTo("interrupted")
      BY <1>6, <2>1 DEF TimedPoll
    <3>2. PlaceOfKind'
      BY <1>2, <1>6, <3>1 DEF GoTo, PlaceOfKind, TimedPoll
    <3>3. QED
      BY <1>1, <1>2, <3>1, <3>2, GoingStep DEF Places
  <2>2. CASE ~(canceling \/ navigation_active \/ collision_stopped_ \/ ~state_valid)
    <3>1. GoTo("clear") /\ ~MustStop
      BY <1>2, <1>6, <2>2 DEF TimedPoll, MustStop
    <3>2. QED
      BY <1>4, <3>1 DEF IInv, LateIsLast
  <2>3. QED
    BY <2>1, <2>2
<1>7. CASE TimedInterrupted
  BY <1>1, <1>7, FinishingWithReason, FailingStep DEF TimedInterrupted, Codes
<1>8. CASE RotatePoll
  <2>1. CASE End("canceled", "CANCELED")
    <3>1. worker_pc' = "done" /\ status' = "canceled" /\ ResultOK' /\ error_code' = "CANCELED"
      BY <2>1 DEF End, ResultOK, Codes
    <3>2. QED
      BY <1>1, <3>1, FailingStep
  <2>2. CASE End("aborted", "NAVIGATION_ACTIVE") \/ End("aborted", "INVALID_STATE")
             \/ End("aborted", "COLLISION_STOPPED")
    BY <1>3, <2>2 DEF Codes
  <2>3. CASE GoTo("clear") /\ ~MustStop
    BY <1>4, <2>3 DEF IInv, LateIsLast
  <2>4. QED
    BY <1>2, <1>8, <2>1, <2>2, <2>3 DEF RotatePoll, MustStop
<1>9. CASE TimedDeadline
  BY <1>1, <1>9, Finishing, FailingStep DEF TimedDeadline, TimedOut, Codes
<1>10. CASE TimedDone
  <2>1. worker_pc' = "done" /\ status' = "succeeded" /\ ResultOK' /\ error_code' = "SUCCESS"
    BY <1>10 DEF TimedDone, End, ResultOK, Codes
  <2>2. kind = "timed_reverse" => duration <= UndockTimeout
    <3>1. duration \in Nat /\ UndockTimeout \in Nat /\ sampled \in Nat /\ sampled >= duration
      BY <1>10, UndockAssumption, LongestLimit DEF TimedDone, IInv, TypeOK, PassOK
    <3>2. QED
      BY <1>10, <3>1 DEF TimedDone, TimedOut
  <2>3. EarlierDeadlineDecides'
    BY <1>2, <2>1, <2>2 DEF EarlierDeadlineDecides
  <2>4. worker_pc' \in Places /\ PlaceOfKind'
    BY <2>1 DEF Places, PlaceOfKind
  <2>5. QED
    BY <1>1, <1>2, <2>1, <2>3, <2>4, QuietStep
<1>11. QED
  BY <1>5, <1>6, <1>7, <1>8, <1>9, <1>10

\* A command stored is at most one too late, and the pass it is stored in ends.
LEMMA StoredCommand ==
  ASSUME IInv, worker_pc \in {"clear", "polled"}, worker_pc' \notin {"clear", "polled"},
         late' = Late, since_stop' = SinceStop, MustStop' = MustStop
  PROVE  LateIsLast' /\ late' \in 0..2 /\ since_stop' \in 0..3
<1>1. late = 0
  BY DEF IInv, TypeOK, LateIsLast
<1>2. QED
  BY <1>1 DEF Late, SinceStop, LateIsLast, IInv, TypeOK

\* The command of an open-loop pass.
LEMMA TimedStoreStep ==
  ASSUME IInv, TimedStore
  PROVE  IInv'
<1>1. worker_pc = "clear" /\ GoTo("pass") /\ commanded' = TRUE
      /\ UNCHANGED <<elapsed, pass_vars, settling_vars, request_vars, input_vars>>
  BY DEF TimedStore
<1>2. worker_pc' = "pass" /\ status' = "executing" /\ error_code' = "SUCCESS" /\ ResultOK'
  BY <1>1, GoingOn DEF IInv, TypeOK, Places
<1>3. InputsOK' /\ StopAgeIsTrue' /\ PassOK' /\ SettlingOK' /\ SettlingCovered'
      /\ MustStop' = MustStop /\ Timed' = Timed
  BY <1>1 DEF IInv, TypeOK, InputsOK, StopAgeIsTrue, PassOK, SettlingOK, SettlingCovered, MustStop,
     StopOverdue, Timed, pass_vars, settling_vars, request_vars, input_vars, stop_vars,
     target_vars
<1>4. LateIsLast' /\ late' \in 0..2 /\ since_stop' \in 0..3
  BY <1>1, <1>2, <1>3, StoredCommand DEF TimedStore
<1>5. Timed /\ PlaceOfKind'
  BY <1>1, <1>2, <1>3 DEF IInv, PlaceOfKind
<1>6. SuccessIsSettled' /\ EarlierDeadlineDecides' /\ worker_pc' \in Places
  BY <1>2 DEF SuccessIsSettled, EarlierDeadlineDecides, Places
<1>7. QED
  BY <1>2, <1>3, <1>4, <1>5, <1>6 DEF IInv, TypeOK

\* The retreat relative to the tag, but for the pass that stores a command.
LEMMA RetreatStep ==
  ASSUME IInv,
         Acquire \/ AcquirePoll \/ AcquireInterrupted \/ RetreatPoll \/ RetreatInterrupted
           \/ RetreatFails
  PROVE  IInv'
<1>1. UNCHANGED quiet_vars /\ PassOK'
  BY PassStays DEF Acquire, AcquirePoll, AcquireInterrupted, RetreatPoll, RetreatInterrupted,
     RetreatFails, GoTo, FinishUndock, End, quiet_vars, pass_vars
<1>2. /\ worker_pc # "done" /\ ~Timed /\ ~Timed' /\ kind # "rotate"
      /\ kind' = kind /\ duration' = duration
  BY DEF Acquire, AcquirePoll, AcquireInterrupted, RetreatPoll, RetreatInterrupted,
     RetreatFails, IInv, PlaceOfKind, Timed, quiet_vars, request_vars
<1>3. ASSUME NEW code \in Codes \ {"SUCCESS", "CANCELED"}, FinishUndock(code)
      PROVE  IInv'
  BY <1>1, <1>2, <1>3, Finishing, FailingStep DEF Timed
<1>4. ASSUME NEW code \in Codes \ {"SUCCESS", "CANCELED"}, FinishUndock(Reason(code))
      PROVE  IInv'
  BY <1>1, <1>2, <1>4, FinishingWithReason, FailingStep DEF Timed
<1>5. ASSUME NEW place \in {"acquiring", "waiting", "moving", "stopping", "polled", "interrupted"},
             GoTo(place), late > 0 => place # "polled"
      PROVE  IInv'
  <2>1. PlaceOfKind'
    BY <1>2, <1>5 DEF GoTo, PlaceOfKind
  <2>2. QED
    BY <1>1, <1>2, <1>5, <2>1, GoingStep DEF Places
<1>6. CASE Acquire
  <2>1. FinishUndock("SAFETY_ABORT") \/ GoTo("moving") \/ GoTo("waiting")
    BY <1>6 DEF Acquire
  <2>2. QED
    BY <1>3, <1>5, <2>1 DEF Codes
<1>7. CASE AcquirePoll
  <2>1. FinishUndock("NO_STABLE_TAG") \/ GoTo("interrupted") \/ GoTo("acquiring")
    BY <1>7 DEF AcquirePoll
  <2>2. QED
    BY <1>3, <1>5, <2>1 DEF Codes
<1>8. CASE AcquireInterrupted
  <2>1. \/ FinishUndock(Reason("INVALID_STATE"))
        \/ FinishUndock(Reason("COLLISION_STOPPED"))
    BY <1>8 DEF AcquireInterrupted
  <2>2. QED
    BY <1>4, <2>1 DEF Codes
<1>9. CASE RetreatPoll
  <2>1. CASE ok /\ ~(canceling \/ navigation_active \/ CollisionStopTimedOut)
    <3>1. ~MustStop
      BY <1>2, <2>1 DEF MustStop, IInv, StopAgeIsTrue, CollisionStopTimedOut, StopOverdue
    <3>2. FinishUndock("UNDOCK_TIMEOUT") \/ GoTo("polled")
      BY <1>9, <2>1 DEF RetreatPoll
    <3>3. QED
      BY <1>3, <1>5, <3>1, <3>2 DEF Codes, IInv, LateIsLast
  <2>2. CASE ~(ok /\ ~(canceling \/ navigation_active \/ CollisionStopTimedOut))
    <3>1. FinishUndock("SAFETY_ABORT") \/ GoTo("stopping")
      BY <1>9, <2>2 DEF RetreatPoll
    <3>2. QED
      BY <1>3, <1>5, <3>1 DEF Codes
  <2>3. QED
    BY <2>1, <2>2
<1>10. CASE RetreatInterrupted
  BY <1>4, <1>10 DEF RetreatInterrupted, Codes
<1>11. CASE RetreatFails
  BY <1>3, <1>11 DEF RetreatFails, Codes
<1>12. QED
  BY <1>6, <1>7, <1>8, <1>9, <1>10, <1>11

\* A pass of the retreat: an anchor is set or kept only in an unbroken run of eligible
\* passes, and settling completes on a second observation.
LEMMA RetreatPassStep ==
  ASSUME IInv, NEW eligible \in BOOLEAN, NEW steady \in BOOLEAN, RetreatPass(eligible, steady)
  PROVE  IInv'
<1>1. /\ worker_pc = "polled" /\ commanded' = TRUE /\ unseen' = FALSE
      /\ UNCHANGED <<elapsed, pass_vars, request_vars, ok, canceling, navigation_active,
                     state_valid, stop_vars, target, newer>>
      /\ settling' = Settled(eligible, steady)
      /\ dwell' = IF eligible /\ observed > 0 THEN dwell ELSE 0
      /\ observed' = IF ~eligible THEN 0
                     ELSE IF observed = 0 \/ (unseen /\ observed = 1) THEN observed + 1
                     ELSE observed
  BY DEF RetreatPass
<1>2. ~Timed /\ ~Timed' /\ MustStop' = MustStop /\ kind' = kind /\ kind \in Kinds
  BY <1>1 DEF IInv, TypeOK, PassOK, PlaceOfKind, Timed, MustStop, StopOverdue, request_vars, stop_vars
<1>3. InputsOK' /\ StopAgeIsTrue' /\ PassOK'
  BY <1>1 DEF IInv, TypeOK, InputsOK, StopAgeIsTrue, PassOK, pass_vars, request_vars, stop_vars
<1>4. /\ SettlingDuration \in Nat
      /\ settling \in {NotSettling} \union 0..SettlingDuration + 1
      /\ dwell \in 0..SettlingDuration + 1 /\ observed \in 0..2
      /\ settling # NotSettling => observed >= 1 /\ dwell >= settling
  BY UndockAssumption DEF IInv, TypeOK, SettlingOK, SettlingCovered
<1>5. /\ settling' \in {NotSettling, 0, settling}
      /\ settling' # NotSettling => eligible
      /\ settling' \notin {NotSettling, 0} => settling' = settling
  BY DEF Settled, RetreatPass
<1>6. SettlingOK' /\ SettlingCovered'
  <2>1. dwell' \in 0..SettlingDuration + 1 /\ observed' \in 0..2
    BY <1>1, <1>4
  <2>2. settling' \in {NotSettling} \union 0..SettlingDuration + 1
    BY <1>4, <1>5
  <2>3. settling' # NotSettling => observed' >= 1 /\ dwell' >= settling'
    <3>1. CASE settling' = 0
      <4>1. eligible /\ observed' >= 1
        BY <1>1, <1>4, <1>5, <3>1 DEF NotSettling
      <4>2. dwell' >= 0
        BY <2>1, <1>4
      <4>3. QED
        BY <3>1, <4>1, <4>2
    <3>2. CASE settling' = settling /\ settling # NotSettling
      <4>1. eligible /\ observed > 0
        BY <1>4, <1>5, <3>2
      <4>2. dwell' = dwell /\ observed' \in {observed, observed + 1}
        BY <1>1, <4>1
      <4>3. QED
        BY <1>4, <3>2, <4>1, <4>2
    <3>3. QED
      BY <1>5, <3>1, <3>2
  <2>4. QED
    BY <1>2, <2>1, <2>2, <2>3 DEF SettlingOK, SettlingCovered
<1>7. CASE Completes(eligible, steady)
  <2>1. worker_pc' = "done" /\ status' = "succeeded" /\ ResultOK' /\ error_code' = "SUCCESS"
    BY <1>7 DEF RetreatPass, End, ResultOK, Codes
  <2>2. dwell' >= SettlingDuration /\ observed' >= 2
    BY <1>1, <1>4, <1>7 DEF Completes
  <2>3. SuccessIsSettled' /\ EarlierDeadlineDecides'
    BY <1>2, <2>2 DEF SuccessIsSettled, EarlierDeadlineDecides, Timed
  <2>4. worker_pc' \in Places /\ PlaceOfKind' /\ worker_pc' \notin {"clear", "polled"}
    BY <2>1 DEF Places, PlaceOfKind
  <2>5. LateIsLast' /\ late' \in 0..2 /\ since_stop' \in 0..3
    BY <1>1, <1>2, <2>4, StoredCommand DEF RetreatPass
  <2>6. QED
    BY <1>3, <1>6, <2>1, <2>3, <2>4, <2>5 DEF IInv, TypeOK
<1>8. CASE ~Completes(eligible, steady)
  <2>1. worker_pc' = "moving" /\ status' = "executing" /\ error_code' = "SUCCESS" /\ ResultOK'
    BY <1>1, <1>8, GoingOn DEF RetreatPass, IInv, TypeOK, Places
  <2>2. SuccessIsSettled' /\ EarlierDeadlineDecides'
    BY <2>1 DEF SuccessIsSettled, EarlierDeadlineDecides
  <2>3. worker_pc' \in Places /\ PlaceOfKind' /\ worker_pc' \notin {"clear", "polled"}
    BY <1>2, <2>1 DEF Places, PlaceOfKind
  <2>4. LateIsLast' /\ late' \in 0..2 /\ since_stop' \in 0..3
    BY <1>1, <1>2, <2>3, StoredCommand DEF RetreatPass
  <2>5. QED
    BY <1>3, <1>6, <2>1, <2>2, <2>3, <2>4 DEF IInv, TypeOK
<1>9. QED
  BY <1>7, <1>8

-----------------------------------------------------------------------------
(* The callbacks and the clock.                                            *)

\* A callback changes inputs only; once nothing asks for a stop, no command is late.
LEMMA CallbackStep ==
  ASSUME IInv, Callback
  PROVE  IInv'
<1>1. /\ UNCHANGED <<worker_pc, elapsed, commanded, pass_vars, settling_vars, request_vars,
                     result_vars>>
      /\ late' \in {0, late} /\ (late' > 0 => MustStop')
      /\ since_stop' \in {1, since_stop}
  BY DEF Callback, IInv, TypeOK
<1>2. InputsOK' /\ StopAgeIsTrue'
  BY InputsStayOK DEF IInv, TypeOK, Callback
<1>3. ResultOK' /\ PassOK' /\ SettlingOK' /\ worker_pc' \in Places /\ PlaceOfKind'
  BY <1>1 DEF IInv, TypeOK, ResultOK, PassOK, SettlingOK, PlaceOfKind, Timed, pass_vars,
     settling_vars, request_vars, result_vars
<1>4. SettlingCovered' /\ SuccessIsSettled' /\ EarlierDeadlineDecides'
  BY <1>1 DEF IInv, SettlingCovered, SuccessIsSettled, EarlierDeadlineDecides, Timed,
     settling_vars, request_vars, result_vars
<1>5. LateIsLast' /\ late' \in 0..2 /\ since_stop' \in 0..3
  BY <1>1 DEF IInv, TypeOK, LateIsLast
<1>6. QED
  BY <1>2, <1>3, <1>4, <1>5 DEF IInv, TypeOK

\* Time passes: an anchor and the run that covers it grow together.
LEMMA TickStep ==
  ASSUME IInv, Tick
  PROVE  IInv'
<1>1. /\ worker_pc # "done" /\ InputsAge
      /\ elapsed' = Older(elapsed, Longest)
      /\ settling' = IF settling = NotSettling THEN settling ELSE Older(settling, SettlingDuration)
      /\ dwell' = IF observed > 0 THEN Older(dwell, SettlingDuration) ELSE 0
      /\ UNCHANGED <<worker_pc, commanded, pass_vars, observed, request_vars, result_vars,
                     auxiliary_vars>>
  BY DEF Tick
<1>2. InputsOK' /\ StopAgeIsTrue' /\ Timed' = Timed /\ (MustStop => MustStop')
  <2>1. InputsOK' /\ StopAgeIsTrue'
    BY <1>1, InputsStayOK DEF IInv, TypeOK
  <2>2. Timed' = Timed
    BY <1>1 DEF Timed, request_vars
  <2>3. StopOverdue => StopOverdue'
    BY <1>1, InputsAssumption DEF IInv, TypeOK, InputsOK, InputsAge, StopOverdue, Older
  <2>4. QED
    BY <1>1, <2>1, <2>2, <2>3 DEF InputsAge, MustStop
<1>3. PassOK'
  <2>1. elapsed' \in 0..Longest + 1
    BY <1>1, OlderAge, LongestLimit DEF IInv, TypeOK, PassOK
  <2>2. QED
    BY <1>1, <2>1 DEF IInv, TypeOK, PassOK, pass_vars, request_vars
<1>4. SettlingOK' /\ SettlingCovered'
  <2>1. /\ SettlingDuration \in Nat
        /\ settling \in {NotSettling} \union 0..SettlingDuration + 1
        /\ Timed => settling = NotSettling
        /\ dwell \in 0..SettlingDuration + 1 /\ observed \in 0..2
        /\ settling # NotSettling => observed >= 1 /\ dwell >= settling
    BY UndockAssumption DEF IInv, TypeOK, SettlingOK, SettlingCovered
  <2>2. Older(dwell, SettlingDuration) \in 0..SettlingDuration + 1
    BY <2>1, OlderAge
  <2>3. CASE settling = NotSettling
    BY <1>1, <1>2, <2>1, <2>2, <2>3 DEF SettlingOK, SettlingCovered
  <2>4. CASE settling # NotSettling
    <3>1. settling \in 0..SettlingDuration + 1 /\ settling <= dwell /\ observed > 0
      BY <2>1, <2>4
    <3>2. /\ Older(settling, SettlingDuration) \in 0..SettlingDuration + 1
          /\ Older(settling, SettlingDuration) <= Older(dwell, SettlingDuration)
      BY <2>1, <3>1, OlderAge
    <3>3. /\ settling' = Older(settling, SettlingDuration)
          /\ dwell' = Older(dwell, SettlingDuration)
          /\ observed' = observed
      BY <1>1, <2>4, <3>1
    <3>4. QED
      BY <1>2, <2>1, <2>2, <2>4, <3>1, <3>2, <3>3 DEF SettlingOK, SettlingCovered
  <2>5. QED
    BY <2>3, <2>4
<1>5. ResultOK' /\ worker_pc' \in Places /\ PlaceOfKind'
  BY <1>1, <1>2 DEF IInv, TypeOK, ResultOK, PlaceOfKind, request_vars, result_vars
<1>6. SuccessIsSettled' /\ EarlierDeadlineDecides'
  BY <1>1 DEF IInv, TypeOK, ResultOK, SuccessIsSettled, EarlierDeadlineDecides, request_vars,
     result_vars
<1>7. LateIsLast' /\ late' \in 0..2 /\ since_stop' \in 0..3
  BY <1>1, <1>2 DEF IInv, TypeOK, LateIsLast, auxiliary_vars
<1>8. QED
  BY <1>2, <1>3, <1>4, <1>5, <1>6, <1>7 DEF IInv, TypeOK

-----------------------------------------------------------------------------
(* The theorems.                                                           *)

\* A goal starts with nothing commanded.
LEMMA InitIInv == Init => IInv
<1> SUFFICES ASSUME Init PROVE IInv
  OBVIOUS
<1>1. InputsOK /\ StopAgeIsTrue
  <2>1. 0 \in 0..CollisionStopTimeout + 1
    BY InputsAssumption
  <2>2. QED
    BY <2>1 DEF Init, InitInputs, InputsOK, StopAgeIsTrue
<1>2. ResultOK /\ worker_pc \in Places /\ PlaceOfKind
  BY DEF Init, ResultOK, Codes, Places, PlaceOfKind
<1>3. PassOK
  <2>1. 0 \in 0..Longest + 1
    BY LongestLimit
  <2>2. QED
    BY <2>1 DEF Init, PassOK
<1>4. SettlingOK /\ SettlingCovered
  BY UndockAssumption DEF Init, SettlingOK, SettlingCovered
<1>5. LateIsLast /\ late \in 0..2 /\ since_stop \in 0..3
  BY DEF Init, LateIsLast
<1>6. SuccessIsSettled /\ EarlierDeadlineDecides
  BY DEF Init, SuccessIsSettled, EarlierDeadlineDecides
<1>7. QED
  BY <1>1, <1>2, <1>3, <1>4, <1>5, <1>6 DEF IInv, TypeOK

\* Every step of the worker, the callbacks and the clock keeps the invariant.
LEMMA NextIInv == IInv /\ [Next]_vars => IInv'
<1> SUFFICES ASSUME IInv, [Next]_vars PROVE IInv'
  OBVIOUS
<1>1. CASE StartUndock \/ AdmitUndock \/ StartRotate
  BY <1>1, StartStep
<1>2. CASE Sample \/ TimedPoll \/ TimedInterrupted \/ RotatePoll \/ TimedDeadline \/ TimedDone
  BY <1>2, TimedStep
<1>3. CASE TimedStore
  BY <1>3, TimedStoreStep
<1>4. CASE Acquire \/ AcquirePoll \/ AcquireInterrupted \/ RetreatPoll \/ RetreatInterrupted
             \/ RetreatFails
  BY <1>4, RetreatStep
<1>5. ASSUME NEW eligible \in BOOLEAN, NEW steady \in BOOLEAN, RetreatPass(eligible, steady)
      PROVE  IInv'
  BY <1>5, RetreatPassStep
<1>6. CASE Callback
  BY <1>6, CallbackStep
<1>7. CASE Tick
  BY <1>7, TickStep
<1>8. CASE UNCHANGED vars
  BY <1>8 DEF vars, pass_vars, settling_vars, request_vars, result_vars, auxiliary_vars, input_vars,
     stop_vars, target_vars, IInv, TypeOK, InputsOK, StopAgeIsTrue, ResultOK, PassOK, SettlingOK,
     PlaceOfKind, SettlingCovered, LateIsLast, MustStop, StopOverdue, Timed, SuccessIsSettled, EarlierDeadlineDecides
<1>9. QED
  BY <1>1, <1>2, <1>3, <1>4, <1>5, <1>6, <1>7, <1>8
  DEF Next, Worker, TimedWorker, RetreatWorker, Ended

\* The invariant holds throughout.
LEMMA Invariant == Spec => []IInv
  BY InitIInv, NextIInv, PTL DEF Spec

\* The client is told a result once the worker is done, an error exactly when the goal has
\* not succeeded and CANCELED exactly when it was canceled; only a retreat settles.
THEOREM ActionTypeCorrect == Spec => []TypeOK
<1>1. IInv => TypeOK
  BY DEF IInv
<1>2. QED
  BY <1>1, Invariant, PTL

\* For every settling duration, a retreat succeeds only after an unbroken run of eligible
\* passes as long as that, on two observations at least.
THEOREM RetreatSettles == Spec => []SuccessIsSettled
<1>1. IInv => SuccessIsSettled
  BY DEF IInv
<1>2. QED
  BY <1>1, Invariant, PTL

\* Whatever the callbacks do between a poll and the command it allowed, one command at most
\* is stored after the motion had to stop.
THEOREM OneLateCommand == Spec => []AtMostOneLateCommand
<1>1. IInv => AtMostOneLateCommand
  BY DEF IInv, TypeOK, LateIsLast, AtMostOneLateCommand
<1>2. QED
  BY <1>1, Invariant, PTL

\* For all durations and movement deadlines, the earlier one decides a timed reverse.
THEOREM EarlierDeadline == Spec => []EarlierDeadlineDecides
<1>1. IInv => EarlierDeadlineDecides
  BY DEF IInv
<1>2. QED
  BY <1>1, Invariant, PTL
=============================================================================
