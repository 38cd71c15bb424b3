---------------------------- MODULE TagAcquisition ----------------------------
(***************************************************************************)
(* From camera detections to the stable target a docking motion follows.   *)
(*                                                                         *)
(* The mux timer (processPendingDetection) turns the latest detection of   *)
(* the active profile's tag into an observation of the tracker, under      *)
(* several short critical sections with a transform lookup between them.   *)
(* The worker of a goal activates a profile, which restarts acquisition,   *)
(* waits for a stable target, follows it, retries, and remembers what it   *)
(* docked to.  A profile may be activated between any two steps of the     *)
(* timer.                                                                  *)
(*                                                                         *)
(* A detection message is reduced to its stamp, its topic and the one tag  *)
(* it shows with a sufficient margin; a pose to whether the tracker takes  *)
(* it for a jump.  A profile that targets a table carries its own tag; one *)
(* that targets a box is bound, when docking starts, to the tag of a box   *)
(* instance.                                                               *)
(***************************************************************************)
EXTENDS Integers, Sequences, FiniteSets

CONSTANTS
    Tables,         \* names of profiles with target_source "tag"; each is its own tag
    Boxes,          \* names of profiles with target_source "box"
    Timed,          \* names of profiles whose undock_mode is "timed_reverse"
    Instances,      \* tags of box instances
    NoTag,          \* the tag of a box profile that is not bound
    TopicOf,        \* the detections_topic of each profile
    Samples,        \* stable_sample_count
    TrackingTimeout, \* min(tracking_timeout, maximum_pose_age)
    MaxTime,        \* bound on the ROS clock
    MaxGenerations  \* bound on the number of profile activations

Names == Tables \union Boxes
Tags == Tables \union Instances

ASSUME AcquisitionAssumption ==
    /\ Tables # {} /\ Tables \intersect Boxes = {} /\ Timed \subseteq Names
    /\ NoTag \notin Tags
    /\ Samples \in Nat \ {0} /\ TrackingTimeout \in Nat \ {0}
    /\ MaxTime \in Nat \ {0} /\ MaxGenerations \in Nat
    /\ DOMAIN TopicOf = Names

Topics == {TopicOf[n] : n \in Names}

\* A profile as configured, and one bound to a box instance.
Configured(name) == [name |-> name, tag |-> IF name \in Tables THEN name ELSE NoTag]
Bound(name, instance) == [name |-> name, tag |-> instance]

Profile == [name : Names, tag : Tags \union {NoTag}]

\* Values no message, target or name takes.
None == [absent |-> TRUE]
Unset == 0      \* rclcpp::Time(0): stamps of real messages are positive

VARIABLES
    now,                    \* the ROS clock
    active_profile_,
    profile_generation_,
    activation_stamp_,
    pending_detection_,
    last_sample_stamp_,
    tracker_,               \* RelativeTagTracker: accepted samples (see below)
    stable_target_,         \* is a target available?
    stable_target_stamp_,
    stable_target_sequence_,
    last_docked_target_,    \* profile of the last successful dock, with its binding
    mux_pc, snapshot,       \* the mux timer: its place, and the profile, generation,
                            \*   activation stamp and message it copied
    worker,                 \* the goal's worker: "none", "acquiring" or "moving"
    goal,                   \* the goal: a profile's name, and whether to undock from it
    minimum_sequence,       \* local of execute()
    followed                \* auxiliary: stamp of the newest target the goal has followed
                            \*   or has had at the failure of an attempt

measurement_vars == <<pending_detection_, last_sample_stamp_, tracker_, stable_target_,
                      stable_target_stamp_, stable_target_sequence_>>
profile_vars == <<active_profile_, profile_generation_, activation_stamp_>>
mux_vars == <<mux_pc, snapshot>>
worker_vars == <<worker, goal, minimum_sequence, followed>>
vars == <<now, measurement_vars, profile_vars, last_docked_target_, mux_vars, worker_vars>>

\* The tracker keeps the stamp of its previous sample and a count that saturates at
\* Samples; here it keeps the latest samples, at most Samples of them, that it has taken
\* since its last reset, each with its stamp and its tag.
Reset == <<>>
PreviousStamp(tracker) == tracker[Len(tracker)].stamp
Ready(tracker) == Len(tracker) >= Samples

Init ==
    /\ now = 1
    /\ active_profile_ \in {Configured(n) : n \in Names}     \* default_docking_profile
    /\ profile_generation_ = 0
    /\ activation_stamp_ = Unset
    /\ pending_detection_ = None
    /\ last_sample_stamp_ = Unset
    /\ tracker_ = Reset
    /\ stable_target_ = FALSE
    /\ stable_target_stamp_ = Unset
    /\ stable_target_sequence_ = 0
    /\ last_docked_target_ = None
    /\ mux_pc = "idle"
    /\ snapshot = None
    /\ worker = "none"
    /\ goal = None
    /\ minimum_sequence = 0
    /\ followed = Unset

-----------------------------------------------------------------------------
(* Detections.                                                             *)

\* A detection of the active profile's topic replaces the pending one, whatever its
\* stamp; detections arrive late and out of order.
Detection(topic, tag, stamp) ==
    /\ mux_pc = "idle"
    /\ topic = TopicOf[active_profile_.name]
    /\ pending_detection_' = [tag |-> tag, stamp |-> stamp]
    /\ UNCHANGED <<now, last_sample_stamp_, tracker_, stable_target_, stable_target_stamp_,
                   stable_target_sequence_, profile_vars, last_docked_target_, mux_vars,
                   worker_vars>>

MuxSnapshot ==
    /\ mux_pc = "idle"
    /\ mux_pc' = "copied"
    /\ snapshot' = [profile |-> active_profile_, generation |-> profile_generation_,
                    activated |-> activation_stamp_, message |-> None]
    /\ UNCHANGED <<now, measurement_vars, profile_vars, last_docked_target_, worker_vars>>

MuxReturns == mux_pc' = "idle" /\ snapshot' = None

\* The checks made outside any lock: the copied profile's tag, not before its
\* activation, not too old.
Acceptable(message) ==
    /\ message.tag = snapshot.profile.tag
    /\ message.stamp >= snapshot.activated
    /\ now - message.stamp <= TrackingTimeout

MuxTakePending ==
    /\ mux_pc = "copied"
    /\ IF pending_detection_ # None /\ Acceptable(pending_detection_)
       THEN mux_pc' = "taken" /\ snapshot' = [snapshot EXCEPT !.message = pending_detection_]
       ELSE MuxReturns
    /\ UNCHANGED <<now, measurement_vars, profile_vars, last_docked_target_, worker_vars>>

\* Variant: the profile may have changed since the copy.
NewerSample ==
    last_sample_stamp_ = Unset \/ snapshot.message.stamp > last_sample_stamp_

Current ==
    /\ snapshot.generation = profile_generation_
    /\ last_sample_stamp_ = Unset \/ snapshot.message.stamp > last_sample_stamp_

MuxCheckCurrent ==
    /\ mux_pc = "taken"
    /\ IF Current THEN mux_pc' = "checked" /\ UNCHANGED snapshot ELSE MuxReturns
    /\ UNCHANGED <<now, measurement_vars, profile_vars, last_docked_target_, worker_vars>>

\* The lookup throws a TransformException: the pending detection is kept for a retry.
MuxTransformMissing ==
    /\ mux_pc = "checked"
    /\ MuxReturns
    /\ UNCHANGED <<now, measurement_vars, profile_vars, last_docked_target_, worker_vars>>

\* Variant: acquisition restarts and the target it had stays.
RestartKeepingTarget == tracker_' = Reset /\ UNCHANGED stable_target_

Restart == tracker_' = Reset /\ stable_target_' = FALSE

\* Any other exception, for a target geometry that cannot be used.
MuxInvalidMeasurement ==
    /\ mux_pc = "checked"
    /\ MuxReturns
    /\ IF snapshot.generation = profile_generation_
       THEN /\ Restart
            /\ last_sample_stamp_' = snapshot.message.stamp
       ELSE UNCHANGED <<tracker_, stable_target_, last_sample_stamp_>>
    /\ UNCHANGED <<now, pending_detection_, stable_target_stamp_, stable_target_sequence_,
                   profile_vars, last_docked_target_, worker_vars>>

Latest(tracker) == IF Len(tracker) > Samples THEN Tail(tracker) ELSE tracker

\* observe() on a pose that is no jump: a gap longer than the timeout restarts
\* acquisition with this sample.
Observed(tracker, sample) ==
    IF tracker # Reset /\ sample.stamp - PreviousStamp(tracker) > TrackingTimeout
    THEN <<sample>>
    ELSE Latest(Append(tracker, sample))

\* The last critical section: the measurement reaches the tracker.
MuxObserve ==
    /\ mux_pc = "checked"
    /\ MuxReturns
    /\ IF ~Current
       THEN UNCHANGED <<last_sample_stamp_, tracker_, stable_target_, stable_target_stamp_,
                        stable_target_sequence_>>
       ELSE LET sample == [stamp |-> snapshot.message.stamp, tag |-> snapshot.message.tag]
            IN /\ last_sample_stamp_' = sample.stamp
               /\ tracker_' = Observed(tracker_, sample)
               /\ stable_target_' = Ready(tracker_')
               /\ IF Ready(tracker_')
                  THEN /\ stable_target_stamp_' = sample.stamp
                       /\ stable_target_sequence_' = stable_target_sequence_ + 1
                  ELSE UNCHANGED <<stable_target_stamp_, stable_target_sequence_>>
    /\ UNCHANGED <<now, pending_detection_, profile_vars, last_docked_target_, worker_vars>>

\* observe() rejects a jump within the timeout of the previous sample, and a pose that is not
\* finite whatever came before; the tracker and the target stay.
MuxReject ==
    /\ mux_pc = "checked"
    /\ Current
    /\ MuxReturns
    /\ last_sample_stamp_' = snapshot.message.stamp
    /\ UNCHANGED <<now, pending_detection_, tracker_, stable_target_, stable_target_stamp_,
                   stable_target_sequence_, profile_vars, last_docked_target_, worker_vars>>

-----------------------------------------------------------------------------
(* activateProfile(), one critical section at the start of a goal.         *)

Activate(profile, request) ==
    /\ profile_generation_ < MaxGenerations
    /\ active_profile_' = profile
    /\ profile_generation_' = profile_generation_ + 1
    /\ activation_stamp_' = now
    /\ pending_detection_' = None
    /\ last_sample_stamp_' = Unset
    /\ Restart
    /\ stable_target_stamp_' = Unset
    /\ UNCHANGED stable_target_sequence_
    /\ goal' = request
    /\ minimum_sequence' = 0
    /\ followed' = Unset

\* A rejected profile ends the goal; when the failure comes after the lookup, the
\* active profile has changed already and nothing else has.
ActivationFails(name) ==
    /\ active_profile_' = Configured(name)
    /\ UNCHANGED <<measurement_vars, profile_generation_, activation_stamp_, worker_vars>>

Request(name, undocking) == [name |-> name, undocking |-> undocking]

StartDock(name, instance) ==
    /\ worker = "none"
    /\ \/ /\ name \in Tables /\ instance = NoTag
          /\ Activate(Configured(name), Request(name, FALSE))
          /\ worker' = "acquiring"
       \/ /\ name \in Boxes /\ instance # NoTag
          /\ Activate(Bound(name, instance), Request(name, FALSE))
          /\ worker' = "acquiring"
       \/ /\ name \in Tables <=> instance # NoTag
          /\ ActivationFails(name)
    /\ UNCHANGED <<now, last_docked_target_, mux_vars>>

\* Variant: a remembered dock serves whatever box profile undocks.
RememberedAnyName(name) == last_docked_target_ # None

Remembered(name) == last_docked_target_ # None /\ last_docked_target_.name = name

\* The profile an undock of this name uses; None when it is refused.
UndockProfile(name) ==
    IF name \in Tables THEN Configured(name)
    ELSE IF Remembered(name) THEN last_docked_target_
    ELSE IF name \in Timed THEN Configured(name)
    ELSE None

StartUndock(name) ==
    /\ worker = "none"
    /\ \/ /\ UndockProfile(name) # None
          /\ Activate(UndockProfile(name), Request(name, TRUE))
          /\ worker' = IF name \in Timed THEN "moving" ELSE "acquiring"
       \/ /\ UndockProfile(name) = None
          /\ ActivationFails(name)
    /\ UNCHANGED <<now, last_docked_target_, mux_vars>>

-----------------------------------------------------------------------------
(* The worker's use of the target, stableMeasurement().                    *)

Timing == goal.undocking /\ goal.name \in Timed   \* open loop, no target

Usable ==
    /\ stable_target_
    /\ now - stable_target_stamp_ <= TrackingTimeout

\* Variant: the target of the failed attempt is good enough for the next one.
NotOlder == stable_target_sequence_ >= minimum_sequence

Newer == stable_target_sequence_ > minimum_sequence

Acquire ==
    /\ worker = "acquiring"
    /\ Usable
    /\ goal.undocking \/ Newer
    /\ worker' = "moving"
    /\ followed' = stable_target_stamp_
    /\ UNCHANGED <<now, measurement_vars, profile_vars, last_docked_target_, mux_vars,
                   goal, minimum_sequence>>

Follow ==
    /\ worker = "moving"
    /\ ~Timing
    /\ Usable
    /\ followed' = stable_target_stamp_
    /\ UNCHANGED <<now, measurement_vars, profile_vars, last_docked_target_, mux_vars,
                   worker, goal, minimum_sequence>>

\* A retryable failure: the next attempt must see a target newer than any so far.
RetryAttempt ==
    /\ worker \in {"acquiring", "moving"}
    /\ ~goal.undocking
    /\ worker' = "acquiring"
    /\ minimum_sequence' = stable_target_sequence_
    /\ followed' = stable_target_stamp_
    /\ UNCHANGED <<now, measurement_vars, profile_vars, last_docked_target_, mux_vars,
                   goal>>

GiveUp ==
    /\ worker # "none"
    /\ worker' = "none"
    /\ UNCHANGED <<now, measurement_vars, profile_vars, last_docked_target_, mux_vars,
                   goal, minimum_sequence, followed>>

\* Success of an executed dock is remembered; an undock forgets nothing.
Succeed ==
    /\ worker = "moving"
    /\ worker' = "none"
    /\ last_docked_target_' = IF goal.undocking THEN last_docked_target_ ELSE active_profile_
    /\ UNCHANGED <<now, measurement_vars, profile_vars, mux_vars, goal,
                   minimum_sequence, followed>>

-----------------------------------------------------------------------------
Tick ==
    /\ now < MaxTime
    /\ now' = now + 1
    /\ UNCHANGED <<measurement_vars, profile_vars, last_docked_target_, mux_vars, worker_vars>>

Mux == MuxSnapshot \/ MuxTakePending \/ MuxCheckCurrent \/ MuxTransformMissing
       \/ MuxInvalidMeasurement \/ MuxObserve \/ MuxReject

Next ==
    \/ \E topic \in Topics, tag \in Tags, stamp \in 1..now : Detection(topic, tag, stamp)
    \/ Mux
    \/ \E name \in Names, instance \in Instances \union {NoTag} : StartDock(name, instance)
    \/ \E name \in Names : StartUndock(name)
    \/ Acquire
    \/ Follow
    \/ RetryAttempt
    \/ GiveUp
    \/ Succeed
    \/ Tick

Spec == Init /\ [][Next]_vars

-----------------------------------------------------------------------------
Sample == [stamp : 1..MaxTime, tag : Tags]
Detections == [stamp : 1..now, tag : Tags]

MeasurementsOK ==
    /\ now \in 1..MaxTime
    /\ pending_detection_ \in Detections \union {None}
    /\ last_sample_stamp_ \in 0..now
    /\ tracker_ \in Seq(Sample) /\ Len(tracker_) <= Samples
    /\ stable_target_ \in BOOLEAN
    /\ stable_target_ => Ready(tracker_) /\ stable_target_stamp_ # Unset
    /\ stable_target_stamp_ \in 0..now
    /\ stable_target_sequence_ \in Nat

ProfilesOK ==
    /\ active_profile_ \in Profile
    /\ profile_generation_ \in 0..MaxGenerations
    /\ activation_stamp_ \in 0..now
    /\ last_docked_target_ \in Profile \union {None}

MuxOK ==
    /\ mux_pc \in {"idle", "copied", "taken", "checked"}
    /\ snapshot \in [profile : Profile, generation : 0..profile_generation_,
                     activated : 0..now, message : Detections \union {None}] \union {None}
    /\ snapshot = None <=> mux_pc = "idle"
    /\ mux_pc \in {"taken", "checked"} => snapshot.message \in Detections

WorkerOK ==
    /\ worker \in {"none", "acquiring", "moving"}
    /\ goal \in [name : Names, undocking : BOOLEAN] \union {None}
    /\ worker # "none" => goal # None
    /\ minimum_sequence \in 0..stable_target_sequence_
    /\ followed \in 0..now

\* Types of the state. A target exists only while the tracker is full, the timer holds a
\* copy only between its first section and its return, and a message only once taken.
TypeOK == MeasurementsOK /\ ProfilesOK /\ MuxOK /\ WorkerOK

\* While a goal runs, the target it can follow rests on Samples observations of the tag
\* this goal is for, all made after its profile was activated, each newer than the one
\* before and none further apart than the timeout, and its stamp is the last one's.  This
\* must survive an activation between any two sections of the timer, late and reordered
\* detections, missing transforms, and profiles changed by refused goals in between.
TargetIsSupported ==
    worker # "none" /\ stable_target_ =>
        /\ Ready(tracker_)
        /\ stable_target_stamp_ = PreviousStamp(tracker_)
        /\ \A i \in DOMAIN tracker_ :
               /\ tracker_[i].tag = active_profile_.tag
               /\ tracker_[i].stamp >= activation_stamp_
        /\ \A i \in 2..Len(tracker_) :
               tracker_[i].stamp - tracker_[i - 1].stamp \in 1..TrackingTimeout

\* An attempt starts from a target newer than any its goal had before: a retry never moves
\* on the observation the failed attempt ended with.
AttemptsSeeNewTargets ==
    [][worker = "acquiring" /\ worker' = "moving" => followed' > followed]_vars

\* An undock is made relative to what the robot is docked to: the profile asked for, and
\* for a box the very instance of the last successful dock; only an open-loop undock may
\* do without a tag.
UndockLeavesDockedTarget ==
    worker # "none" /\ goal.undocking =>
        /\ active_profile_.name = goal.name
        /\ active_profile_.tag = NoTag => goal.name \in Timed
        /\ goal.name \in Boxes /\ active_profile_.tag # NoTag =>
               active_profile_ = last_docked_target_
=============================================================================
