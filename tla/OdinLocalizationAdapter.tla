------------------------ MODULE OdinLocalizationAdapter ------------------------
(***************************************************************************)
(* The adapter between the Odin sensor's odometry and relocalization and   *)
(* the robot's /odom and TF tree, and its decision that localization is    *)
(* ready.  All callbacks share one mutually exclusive group, so each is    *)
(* one step; what is hard is time.  There are two clocks: the ROS clock,   *)
(* which stamps messages and may stall, and the steady clock, which times  *)
(* their arrival.  Messages arrive late, more than once and out of order,  *)
(* local odometry restarts, and robot TF comes when it comes.              *)
(*                                                                         *)
(* A local sample is its stamp and the time it was received; poses are     *)
(* reduced to whether they can be used and whether they jump.              *)
(***************************************************************************)
EXTENDS Integers, Sequences

CONSTANTS
    LocalTimeout,       \* local_timeout_
    CorrectionTimeout,  \* correction_timeout_
    FutureTolerance,    \* future_tolerance_
    MaxPendingSamples,  \* max_pending_samples_
    MaxTime             \* bound on both clocks

ASSUME AdapterAssumption ==
    /\ LocalTimeout \in Nat \ {0} /\ CorrectionTimeout \in Nat \ {0}
    /\ FutureTolerance \in Nat
    /\ MaxPendingSamples \in Nat \ {0}
    /\ MaxTime \in Nat \ {0}

Absent == -1    \* an empty optional

VARIABLES
    ros_now, steady_now,
    alignment_confirmed_,
    pending_,
    last_local_stamp_, previous_stamp_, local_accepted_at_, differentiated_,
    recovery_after_,
    last_correction_stamp_, correction_stamp_, correction_received_at_,
    published_correction_stamp_,
    local_reason_,
    status,                 \* the reason the last step published, or Silent
    baseline,               \* auxiliary: local samples published since the last reset (at
                            \*   most 2)
    corrections             \* auxiliary: stamps of the corrections received so far

clock_vars == <<ros_now, steady_now>>
local_vars == <<pending_, last_local_stamp_, previous_stamp_, local_accepted_at_, differentiated_,
                recovery_after_, local_reason_, baseline>>
correction_vars == <<last_correction_stamp_, correction_stamp_, correction_received_at_,
                     corrections>>
vars == <<clock_vars, alignment_confirmed_, local_vars, correction_vars,
          published_correction_stamp_, status>>

Silent == "silent"
Resets == {"local_time_regression", "invalid_local_input", "local_odometry_not_advancing",
           "local_odometry_discontinuity", "invalid_transformed_local_pose"}
LocalReasons == Resets \union {"waiting_for_local_odometry"}
Reasons == LocalReasons \union
    {"waiting_for_timestamped_robot_tf", "map_alignment_unconfirmed",
     "waiting_for_fresh_relocalization", "waiting_for_velocity_baseline", "ready"}

Init ==
    /\ ros_now = 1 /\ steady_now = 1
    /\ alignment_confirmed_ \in BOOLEAN
    /\ pending_ = <<>>
    /\ last_local_stamp_ = Absent /\ previous_stamp_ = Absent
    /\ local_accepted_at_ = Absent /\ differentiated_ = FALSE
    /\ recovery_after_ = Absent
    /\ last_correction_stamp_ = Absent /\ correction_stamp_ = Absent
    /\ correction_received_at_ = Absent
    /\ published_correction_stamp_ = Absent
    /\ local_reason_ = "waiting_for_local_odometry"
    /\ status = Silent
    /\ baseline = 0
    /\ corrections = {}

Fresh(stamp, timeout) == ros_now - stamp \in -FutureTolerance..timeout

\* A boundary is only ever moved on.
LaterBoundary ==
    IF recovery_after_ = Absent \/ ros_now > recovery_after_ THEN ros_now ELSE recovery_after_

\* Variant: what was known before the reset still counts as a correction.
InvalidateKeepingCorrection(reason) ==
    /\ recovery_after_' = LaterBoundary
    /\ pending_' = <<>>
    /\ previous_stamp_' = Absent
    /\ local_accepted_at_' = Absent
    /\ differentiated_' = FALSE
    /\ local_reason_' = reason
    /\ baseline' = 0
    /\ UNCHANGED <<correction_stamp_, correction_received_at_>>

\* invalidateLocal()
InvalidateLocal(reason) ==
    /\ recovery_after_' = LaterBoundary
    /\ pending_' = <<>>
    /\ previous_stamp_' = Absent
    /\ local_accepted_at_' = Absent
    /\ differentiated_' = FALSE
    /\ local_reason_' = reason
    /\ baseline' = 0
    /\ correction_stamp_' = Absent
    /\ correction_received_at_' = Absent

-----------------------------------------------------------------------------
(* The native TF subscription.                                             *)

\* Variant: the watermark is that of the corrections put to use.
NewCorrectionSinceUse(stamp) ==
    Fresh(stamp, CorrectionTimeout) /\ (correction_stamp_ = Absent \/ stamp > correction_stamp_)

NewCorrection(stamp) ==
    Fresh(stamp, CorrectionTimeout)
        /\ (last_correction_stamp_ = Absent \/ stamp > last_correction_stamp_)

\* A correction newer than all before it moves the watermark; it is put to use only if it
\* is newer than the last reset of local odometry.
ReceiveCorrection(stamp) ==
    /\ NewCorrection(stamp)
    /\ last_correction_stamp_' = stamp
    /\ corrections' = corrections \union {stamp}
    /\ IF recovery_after_ # Absent /\ stamp <= recovery_after_
       THEN UNCHANGED <<correction_stamp_, correction_received_at_>>
       ELSE correction_stamp_' = stamp /\ correction_received_at_' = steady_now
    /\ status' = Silent
    /\ UNCHANGED <<clock_vars, alignment_confirmed_, local_vars, published_correction_stamp_>>

\* A transform that cannot be used, or a stamp that cannot be read.
ReceiveInvalidCorrection ==
    /\ correction_stamp_' = Absent
    /\ status' = Silent
    /\ UNCHANGED <<clock_vars, alignment_confirmed_, local_vars, published_correction_stamp_,
                   last_correction_stamp_, correction_received_at_, corrections>>

-----------------------------------------------------------------------------
(* The odometry subscription, receiveOdometry().                           *)

ReceiveOdometry(stamp) ==
    /\ Fresh(stamp, LocalTimeout)
    /\ stamp > last_local_stamp_
    /\ last_local_stamp_' = stamp
    /\ LET queued == Append(pending_, [stamp |-> stamp, received |-> steady_now])
       IN pending_' = IF Len(queued) > MaxPendingSamples THEN Tail(queued) ELSE queued
    /\ status' = Silent
    /\ UNCHANGED <<clock_vars, alignment_confirmed_, correction_vars, published_correction_stamp_,
                   previous_stamp_, local_accepted_at_, differentiated_, recovery_after_,
                   local_reason_, baseline>>

\* Time goes back: local odometry has restarted.
OdometryRegresses(stamp) ==
    /\ Fresh(stamp, LocalTimeout)
    /\ stamp < last_local_stamp_
    /\ last_local_stamp_' = stamp
    /\ InvalidateLocal("local_time_regression")
    /\ status' = Silent
    /\ UNCHANGED <<clock_vars, alignment_confirmed_, last_correction_stamp_, corrections,
                   published_correction_stamp_>>

\* A measurement that is too old, from the future, in the wrong frames or with a pose that
\* cannot be used.
ReceiveInvalidOdometry ==
    /\ InvalidateLocal("invalid_local_input")
    /\ status' = Silent
    /\ UNCHANGED <<clock_vars, alignment_confirmed_, last_local_stamp_, last_correction_stamp_,
                   corrections, published_correction_stamp_>>

-----------------------------------------------------------------------------
(* The timer, process().                                                   *)

\* Variant: only the ROS clock tells whether local odometry advances.
StalledByStamp == previous_stamp_ # Absent /\ ~Fresh(previous_stamp_, LocalTimeout)

Stalled ==
    /\ previous_stamp_ # Absent
    /\ \/ ~Fresh(previous_stamp_, LocalTimeout)
       \/ local_accepted_at_ = Absent
       \/ steady_now - local_accepted_at_ > LocalTimeout

\* Samples that are too old are taken from the front until one is not.
Usable(sample) ==
    Fresh(sample.stamp, LocalTimeout) /\ steady_now - sample.received <= LocalTimeout

Pruned(queue) ==
    LET usable == {i \in DOMAIN queue : Usable(queue[i])}
    IN IF usable = {} THEN <<>>
       ELSE SubSeq(queue, CHOOSE i \in usable : \A j \in usable : i <= j, Len(queue))

CorrectionIsFresh ==
    /\ correction_stamp_ # Absent /\ correction_received_at_ # Absent
    /\ Fresh(correction_stamp_, CorrectionTimeout)
    /\ steady_now - correction_received_at_ <= CorrectionTimeout

\* What is published at the end of a tick that leaves these values.
Verdict(pending, previous, differentiated, reason) ==
    IF previous = Absent
    THEN IF pending = <<>> THEN reason ELSE "waiting_for_timestamped_robot_tf"
    ELSE IF ~alignment_confirmed_ THEN "map_alignment_unconfirmed"
    ELSE IF ~CorrectionIsFresh THEN "waiting_for_fresh_relocalization"
    ELSE IF ~differentiated THEN "waiting_for_velocity_baseline"
    ELSE "ready"

PublishVerdict(pending, previous, differentiated, reason) ==
    /\ status' = Verdict(pending, previous, differentiated, reason)
    /\ published_correction_stamp_' =
           IF status' = "ready" THEN correction_stamp_ ELSE published_correction_stamp_

\* Local odometry does not advance: the queue is dropped with everything else.
ProcessStalled ==
    /\ Stalled
    /\ InvalidateLocal("local_odometry_not_advancing")
    /\ status' = "local_odometry_not_advancing"
    /\ UNCHANGED <<clock_vars, alignment_confirmed_, last_local_stamp_, last_correction_stamp_,
                   corrections, published_correction_stamp_>>

\* Robot TF covers none of the samples.
ProcessWaiting ==
    /\ ~Stalled
    /\ pending_' = Pruned(pending_)
    /\ PublishVerdict(pending_', previous_stamp_, differentiated_, local_reason_)
    /\ UNCHANGED <<clock_vars, alignment_confirmed_, correction_vars, last_local_stamp_,
                   previous_stamp_, local_accepted_at_, differentiated_, recovery_after_,
                   local_reason_, baseline>>

Gap(stamp) == previous_stamp_ # Absent /\ stamp - previous_stamp_ \notin 1..LocalTimeout

\* The index-th sample is the newest one that robot TF covers, and continues the last.
ProcessSample(index) ==
    /\ ~Stalled
    /\ index \in DOMAIN Pruned(pending_)
    /\ LET sample == Pruned(pending_)[index]
           rest == SubSeq(Pruned(pending_), index + 1, Len(Pruned(pending_)))
       IN /\ ~Gap(sample.stamp)
          /\ differentiated_' = (previous_stamp_ # Absent)
          /\ previous_stamp_' = sample.stamp
          /\ local_accepted_at_' = steady_now
          /\ pending_' = rest
          /\ baseline' = IF baseline < 2 THEN baseline + 1 ELSE 2
          /\ PublishVerdict(rest, sample.stamp, differentiated_', local_reason_)
    /\ UNCHANGED <<clock_vars, alignment_confirmed_, correction_vars, last_local_stamp_,
                   recovery_after_, local_reason_>>

\* It jumps, in time or in space, or its pose cannot be used.
ProcessReset(index, reason) ==
    /\ ~Stalled
    /\ index \in DOMAIN Pruned(pending_)
    /\ \/ reason = "local_odometry_discontinuity" /\ previous_stamp_ # Absent
       \/ reason = "invalid_transformed_local_pose"
    /\ InvalidateLocal(reason)
    /\ status' = reason
    /\ UNCHANGED <<clock_vars, alignment_confirmed_, last_local_stamp_, last_correction_stamp_,
                   corrections, published_correction_stamp_>>

Process ==
    \/ ProcessStalled
    \/ ProcessWaiting
    \/ \E index \in DOMAIN pending_ :
           \/ ProcessSample(index)
           \/ \E reason \in Resets : ProcessReset(index, reason)

-----------------------------------------------------------------------------
\* The steady clock advances, with or without the ROS clock.
Tick ==
    /\ steady_now < MaxTime
    /\ steady_now' = steady_now + 1
    /\ ros_now' \in {ros_now, ros_now + 1}
    /\ status' = Silent
    /\ UNCHANGED <<alignment_confirmed_, local_vars, correction_vars, published_correction_stamp_>>

Next ==
    \/ \E stamp \in 1..ros_now + FutureTolerance :
           ReceiveCorrection(stamp) \/ ReceiveOdometry(stamp) \/ OdometryRegresses(stamp)
    \/ ReceiveInvalidCorrection
    \/ ReceiveInvalidOdometry
    \/ Process
    \/ Tick

Spec == Init /\ [][Next]_vars

(***************************************************************************)
(* Properties                                                              *)
(***************************************************************************)

Stamps == 1..ros_now + FutureTolerance
Receipts == 1..steady_now

ClocksInRange == ros_now \in 1..MaxTime /\ steady_now \in ros_now..MaxTime

\* The queue is bounded, ascends in stamps and receipts and ends with the watermark.
QueueOrdered ==
    /\ pending_ \in Seq([stamp : Stamps, received : Receipts])
    /\ Len(pending_) <= MaxPendingSamples
    /\ \A i, j \in 1..Len(pending_) : i < j =>
           /\ pending_[i].stamp < pending_[j].stamp
           /\ pending_[i].received <= pending_[j].received
    /\ pending_ # <<>> => pending_[Len(pending_)].stamp = last_local_stamp_

\* What local odometry knows is known together.
LocalTogether ==
    /\ {last_local_stamp_, previous_stamp_} \subseteq Stamps \union {Absent}
    /\ local_accepted_at_ \in Receipts \union {Absent}
    /\ recovery_after_ \in 1..ros_now \union {Absent}
    /\ differentiated_ \in BOOLEAN
    /\ local_reason_ \in LocalReasons
    /\ baseline \in 0..2
    /\ previous_stamp_ = Absent <=> local_accepted_at_ = Absent
    /\ differentiated_ => previous_stamp_ # Absent

\* A correction in use is the newest one received.
CorrectionIsNewest ==
    /\ {last_correction_stamp_, correction_stamp_, published_correction_stamp_}
           \subseteq Stamps \union {Absent}
    /\ correction_received_at_ \in Receipts \union {Absent}
    /\ corrections \subseteq Stamps
    /\ correction_stamp_ # Absent =>
           correction_received_at_ # Absent /\ correction_stamp_ = last_correction_stamp_

\* Shape of the state.  No stamp is further in the future than the tolerance.
TypeOK ==
    /\ ClocksInRange
    /\ QueueOrdered
    /\ LocalTogether
    /\ CorrectionIsNewest
    /\ alignment_confirmed_ \in BOOLEAN
    /\ status \in Reasons \union {Silent}

\* "ready" is published only on evidence since the last reset of local odometry: two local
\* samples, so that the twist has a baseline, the newest of them recent by both clocks; and
\* a correction newer than the reset, recent by both clocks as well.  It survives stalled
\* clocks, duplicated, replayed and reordered packets, and resets between any two of them.
ReadyIsEarned ==
    status = "ready" =>
        /\ alignment_confirmed_
        /\ baseline = 2
        /\ Fresh(previous_stamp_, LocalTimeout)
        /\ steady_now - local_accepted_at_ <= LocalTimeout
        /\ correction_stamp_ # Absent /\ correction_stamp_ > recovery_after_
        /\ Fresh(correction_stamp_, CorrectionTimeout)
        /\ steady_now - correction_received_at_ <= CorrectionTimeout

\* No correction is put to use twice or after a newer one was received, whatever resets lie
\* between: map -> odom is published with ascending stamps only.
CorrectionsAscend ==
    [][correction_stamp_' # correction_stamp_ /\ correction_stamp_' # Absent =>
           \A stamp \in corrections : correction_stamp_' > stamp]_vars
=============================================================================
