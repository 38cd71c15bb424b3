-------------------------- MODULE TagAcquisitionProofs --------------------------
(***************************************************************************)
(* The safety of tag acquisition, for every set of tables, boxes and       *)
(* instances, every sample count and timeout, and every interleaving of    *)
(* the detections, the sections of the timer and the goals.                *)
(***************************************************************************)
EXTENDS TagAcquisition, SequenceTheorems, TLAPS

\* Two samples in a row are apart, and by no more than the timeout.
Spaced(tracker) ==
    \A i \in 2..Len(tracker) : tracker[i].stamp - tracker[i - 1].stamp \in 1..TrackingTimeout

\* No profile, message, copy or goal is the absent value.
LEMMA NoneIsApart ==
  /\ \A profile \in Profile : profile # None
  /\ \A message \in Detections : message # None
  /\ \A profile, generation, activated, message :
         [profile |-> profile, generation |-> generation, activated |-> activated,
          message |-> message] # None
  /\ \A name, undocking : Request(name, undocking) # None
<1>1. DOMAIN None = {"absent"}
  BY DEF None
<1>2. ASSUME NEW profile \in Profile PROVE profile # None
  <2>1. "name" \in DOMAIN profile
    BY DEF Profile
  <2>2. QED
    BY <1>1, <2>1
<1>3. ASSUME NEW message \in Detections PROVE message # None
  <2>1. "tag" \in DOMAIN message
    BY DEF Detections
  <2>2. QED
    BY <1>1, <2>1
<1>4. ASSUME NEW profile, NEW generation, NEW activated, NEW message
      PROVE  [profile |-> profile, generation |-> generation, activated |-> activated,
              message |-> message] # None
  <2> DEFINE copy == [profile |-> profile, generation |-> generation,
                      activated |-> activated, message |-> message]
  <2>1. "profile" \in DOMAIN copy
    OBVIOUS
  <2>2. QED
    BY <1>1, <2>1
<1>5. ASSUME NEW name, NEW undocking PROVE Request(name, undocking) # None
  <2>1. "name" \in DOMAIN Request(name, undocking)
    BY DEF Request
  <2>2. QED
    BY <1>1, <2>1
<1>6. QED
  BY <1>2, <1>3, <1>4, <1>5

-----------------------------------------------------------------------------
(* The tracker.                                                            *)

\* What the tracker holds is its shape and its spacing.
Tracked(tracker) == tracker \in Seq(Sample) /\ Len(tracker) <= Samples /\ Spaced(tracker)

\* Without its oldest sample a tracker is as well spaced.
LEMMA TailTracked ==
  ASSUME NEW tracker \in Seq(Sample), tracker # <<>>, Spaced(tracker)
  PROVE  /\ Tail(tracker) \in Seq(Sample) /\ Len(Tail(tracker)) = Len(tracker) - 1
         /\ \A i \in 1..Len(tracker) - 1 : Tail(tracker)[i] = tracker[i + 1]
         /\ Spaced(Tail(tracker))
<1>1. /\ Tail(tracker) \in Seq(Sample) /\ Len(Tail(tracker)) = Len(tracker) - 1
      /\ \A i \in 1..Len(Tail(tracker)) : Tail(tracker)[i] = tracker[i + 1]
      /\ Len(tracker) \in Nat
  BY HeadTailProperties, LenProperties
<1>2. ASSUME NEW i \in 2..Len(Tail(tracker))
      PROVE  Tail(tracker)[i].stamp - Tail(tracker)[i - 1].stamp \in 1..TrackingTimeout
  <2>1. /\ i \in 1..Len(Tail(tracker)) /\ i - 1 \in 1..Len(Tail(tracker))
        /\ i + 1 \in 2..Len(tracker) /\ (i + 1) - 1 = i /\ (i - 1) + 1 = i
    BY <1>1
  <2>2. Tail(tracker)[i] = tracker[i + 1] /\ Tail(tracker)[i - 1] = tracker[i]
    BY <1>1, <2>1
  <2>3. tracker[i + 1].stamp - tracker[(i + 1) - 1].stamp \in 1..TrackingTimeout
    BY <2>1 DEF Spaced
  <2>4. QED
    BY <2>1, <2>2, <2>3
<1>3. QED
  BY <1>1, <1>2 DEF Spaced

\* The stamp of the last sample of a tracker that holds any.
LEMMA LastStamp ==
  ASSUME NEW tracker \in Seq(Sample), tracker # Reset
  PROVE  PreviousStamp(tracker) \in 1..MaxTime
<1>1. Len(tracker) \in 1..Len(tracker)
  BY EmptySeq, LenProperties DEF Reset
<1>2. tracker[Len(tracker)] \in Sample
  BY <1>1, ElementOfSeq
<1>3. QED
  BY <1>2 DEF PreviousStamp, Sample

\* A newer sample within the timeout keeps the spacing.
LEMMA AppendTracked ==
  ASSUME NEW tracker \in Seq(Sample), Spaced(tracker), NEW sample \in Sample,
         tracker # <<>> => sample.stamp - PreviousStamp(tracker) \in 1..TrackingTimeout
  PROVE  /\ Append(tracker, sample) \in Seq(Sample)
         /\ Len(Append(tracker, sample)) = Len(tracker) + 1
         /\ \A i \in 1..Len(tracker) : Append(tracker, sample)[i] = tracker[i]
         /\ Append(tracker, sample)[Len(tracker) + 1] = sample
         /\ Spaced(Append(tracker, sample))
<1> DEFINE longer == Append(tracker, sample)
<1>1. /\ longer \in Seq(Sample) /\ Len(longer) = Len(tracker) + 1
      /\ \A i \in 1..Len(tracker) : longer[i] = tracker[i]
      /\ longer[Len(tracker) + 1] = sample
      /\ Len(tracker) \in Nat
  BY AppendProperties, LenProperties
<1> HIDE DEF longer
<1>2. ASSUME NEW i \in 2..Len(longer)
      PROVE  longer[i].stamp - longer[i - 1].stamp \in 1..TrackingTimeout
  <2>1. i - 1 \in 1..Len(tracker) /\ longer[i - 1] = tracker[i - 1]
    BY <1>1
  <2>2. CASE i = Len(longer)
    <3>1. tracker # <<>> /\ i - 1 = Len(tracker) /\ longer[i] = sample
      BY <1>1, <2>1, <2>2, EmptySeq
    <3>2. QED
      BY <2>1, <3>1 DEF PreviousStamp
  <2>3. CASE i \in 2..Len(tracker)
    BY <1>1, <2>1, <2>3 DEF Spaced
  <2>4. QED
    BY <1>1, <2>2, <2>3
<1>3. QED
  BY <1>1, <1>2 DEF Spaced, longer

\* What an observation newer than the last sample leaves in the tracker: a spaced sequence
\* that ends with it, of samples that were there before.
LEMMA ObservedTracked ==
  ASSUME NEW tracker, Tracked(tracker), NEW sample \in Sample,
         tracker # Reset => PreviousStamp(tracker) < sample.stamp
  PROVE  /\ Tracked(Observed(tracker, sample))
         /\ Observed(tracker, sample) # Reset
         /\ PreviousStamp(Observed(tracker, sample)) = sample.stamp
         /\ \A i \in 1..Len(Observed(tracker, sample)) :
                \/ Observed(tracker, sample)[i] = sample
                \/ \E j \in 1..Len(tracker) : Observed(tracker, sample)[i] = tracker[j]
<1> DEFINE result == Observed(tracker, sample)
<1>1. /\ tracker \in Seq(Sample) /\ Len(tracker) <= Samples /\ Spaced(tracker)
      /\ Len(tracker) \in Nat /\ Samples \in Nat \ {0} /\ TrackingTimeout \in Nat \ {0}
  BY LenProperties, AcquisitionAssumption DEF Tracked
<1>2. CASE tracker # Reset /\ sample.stamp - PreviousStamp(tracker) > TrackingTimeout
  <2>1. result = <<sample>>
    BY <1>2 DEF Observed
  <2>2. <<sample>> \in Seq(Sample) /\ Len(<<sample>>) = 1 /\ <<sample>>[1] = sample
    OBVIOUS
  <2>3. Spaced(<<sample>>)
    BY <2>2 DEF Spaced
  <2>4. <<sample>> # Reset
    BY DEF Reset
  <2> HIDE DEF result
  <2>5. QED
    BY <1>1, <2>1, <2>2, <2>3, <2>4 DEF Tracked, PreviousStamp, result
<1>3. CASE ~(tracker # Reset /\ sample.stamp - PreviousStamp(tracker) > TrackingTimeout)
  <2> DEFINE longer == Append(tracker, sample)
  <2>1. result = Latest(longer)
    BY <1>3 DEF Observed
  <2>2. tracker # <<>> => sample.stamp - PreviousStamp(tracker) \in 1..TrackingTimeout
    <3> SUFFICES ASSUME tracker # <<>>
                 PROVE  sample.stamp - PreviousStamp(tracker) \in 1..TrackingTimeout
      OBVIOUS
    <3>1. Len(tracker) \in 1..Len(tracker)
      BY <1>1, EmptySeq
    <3>2. tracker[Len(tracker)] \in Sample
      BY <1>1, <3>1, ElementOfSeq
    <3>3. PreviousStamp(tracker) \in Int /\ sample.stamp \in Int
      BY <3>2 DEF PreviousStamp, Sample
    <3>4. /\ PreviousStamp(tracker) < sample.stamp
          /\ ~(sample.stamp - PreviousStamp(tracker) > TrackingTimeout)
      BY <1>3 DEF Reset
    <3>5. QED
      BY <1>1, <3>3, <3>4
  <2>3. /\ longer \in Seq(Sample) /\ Len(longer) = Len(tracker) + 1
        /\ \A i \in 1..Len(tracker) : longer[i] = tracker[i]
        /\ longer[Len(tracker) + 1] = sample
        /\ Spaced(longer)
    BY <1>1, <2>2, AppendTracked
  <2> HIDE DEF longer, result
  <2>4. longer # <<>>
    BY <1>1, <2>3, EmptySeq
  <2>5. CASE Len(longer) > Samples
    <3>1. result = Tail(longer)
      BY <2>1, <2>5 DEF Latest
    <3>2. /\ result \in Seq(Sample) /\ Len(result) = Len(tracker)
          /\ \A i \in 1..Len(tracker) : result[i] = longer[i + 1]
          /\ Spaced(result)
      BY <1>1, <2>3, <2>4, <3>1, TailTracked
    <3>3. Len(tracker) >= 1 /\ Len(tracker) \in 1..Len(tracker) /\ result[Len(tracker)] = sample
      BY <1>1, <2>3, <2>5, <3>2
    <3>4. result # Reset /\ PreviousStamp(result) = sample.stamp
      BY <3>2, <3>3, EmptySeq DEF Reset, PreviousStamp
    <3>5. ASSUME NEW i \in 1..Len(result), i # Len(tracker)
          PROVE  \E j \in 1..Len(tracker) : result[i] = tracker[j]
      <4>1. i + 1 \in 1..Len(tracker) /\ result[i] = longer[i + 1]
        BY <1>1, <3>2, <3>5
      <4>2. QED
        BY <2>3, <4>1
    <3>6. QED
      BY <1>1, <3>2, <3>3, <3>4, <3>5 DEF Tracked, result
  <2>6. CASE ~(Len(longer) > Samples)
    <3>1. result = longer
      BY <2>1, <2>6 DEF Latest
    <3>2. result # Reset /\ PreviousStamp(result) = sample.stamp
      BY <2>3, <2>4, <3>1 DEF Reset, PreviousStamp
    <3>3. Len(longer) <= Samples
      BY <1>1, <2>3, <2>6
    <3>4. ASSUME NEW i \in 1..Len(result)
          PROVE  result[i] = sample \/ \E j \in 1..Len(tracker) : result[i] = tracker[j]
      BY <1>1, <2>3, <3>1
    <3>5. QED
      BY <2>3, <3>1, <3>2, <3>3, <3>4 DEF Tracked, result
  <2>7. QED
    BY <2>5, <2>6
<1>4. QED
  BY <1>2, <1>3

-----------------------------------------------------------------------------
(* The inductive invariant.                                                *)

\* What the timer copied is what the running goal activated, unless a goal was started
\* since, which the generation tells; a message taken passed its checks against the copy;
\* and a message found newer than the last sample stays so, for only the timer moves that.
CopyIsCurrent ==
    /\ worker # "none" /\ snapshot # None /\ snapshot.generation = profile_generation_ =>
           snapshot.profile = active_profile_ /\ snapshot.activated = activation_stamp_
    /\ mux_pc \in {"taken", "checked"} =>
           /\ snapshot.message.tag = snapshot.profile.tag
           /\ snapshot.message.stamp >= snapshot.activated
    /\ mux_pc = "checked" /\ snapshot.generation = profile_generation_ => Current

\* The tracker's samples lie behind the watermark, which a rejected jump and a measurement
\* that cannot be used move as well; while a goal runs they are of its tag and activation.
TrackerInv ==
    /\ Spaced(tracker_)
    /\ tracker_ # Reset => PreviousStamp(tracker_) <= last_sample_stamp_
    /\ stable_target_ => stable_target_stamp_ = PreviousStamp(tracker_)
    /\ stable_target_stamp_ <= last_sample_stamp_
    /\ worker # "none" => \A i \in DOMAIN tracker_ :
           /\ tracker_[i].tag = active_profile_.tag
           /\ tracker_[i].stamp >= activation_stamp_

\* What is remembered as docked to has a tag, for a goal that docks is bound to one.
DockedHasTag ==
    /\ last_docked_target_ # None => last_docked_target_.tag # NoTag
    /\ worker # "none" /\ ~goal.undocking => active_profile_.tag # NoTag

\* What a goal has followed is no newer than the last target, and older than a target that
\* is newer by its sequence number.  An undock acquires only once, before it follows.
FollowedInv ==
    /\ worker # "none" => followed <= stable_target_stamp_
    /\ worker = "acquiring" =>
           IF goal.undocking THEN followed = Unset
           ELSE stable_target_ /\ Newer => followed < stable_target_stamp_

IInv ==
    /\ TypeOK
    /\ CopyIsCurrent
    /\ TrackerInv
    /\ DockedHasTag
    /\ UndockLeavesDockedTarget
    /\ FollowedInv

\* A profile as configured is one of the profiles, and a table's carries a tag.
LEMMA ConfiguredProfile ==
  ASSUME NEW name \in Names
  PROVE  /\ Configured(name) \in Profile
         /\ Configured(name).name = name
         /\ name \in Tables => Configured(name).tag = name /\ name # NoTag
         /\ name \notin Tables => Configured(name).tag = NoTag
<1>1. Configured(name) = [name |-> name, tag |-> IF name \in Tables THEN name ELSE NoTag]
  BY DEF Configured
<1>2. name \in Tables => name \in Tags /\ name # NoTag
  BY AcquisitionAssumption DEF Tags
<1>3. QED
  BY <1>1, <1>2 DEF Profile

\* The program starts with the invariant.
LEMMA InitIInv == Init => IInv
<1> SUFFICES ASSUME Init PROVE IInv
  OBVIOUS
<1>1. tracker_ = <<>> /\ <<>> \in Seq(Sample) /\ Len(<<>>) = 0
  BY DEF Init, Reset
<1>2. MeasurementsOK
  <2>1. stable_target_ = FALSE /\ stable_target_ \in BOOLEAN
    BY DEF Init
  <2>2. /\ now \in 1..MaxTime /\ pending_detection_ = None /\ last_sample_stamp_ \in 0..now
        /\ stable_target_stamp_ \in 0..now /\ stable_target_sequence_ \in Nat
    BY AcquisitionAssumption DEF Init, Unset
  <2>3. Len(tracker_) <= Samples
    BY <1>1, AcquisitionAssumption
  <2>4. QED
    BY <1>1, <2>1, <2>2, <2>3 DEF MeasurementsOK
<1>3. ProfilesOK
  <2>1. active_profile_ \in Profile
    BY ConfiguredProfile DEF Init
  <2>2. QED
    BY <2>1, AcquisitionAssumption DEF Init, ProfilesOK, Unset
<1>4. MuxOK
  BY DEF Init, MuxOK
<1>5. WorkerOK
  BY DEF Init, WorkerOK, Unset
<1>6. CopyIsCurrent
  BY DEF Init, CopyIsCurrent
<1>7. TrackerInv
  <2>1. Spaced(tracker_) /\ tracker_ = Reset /\ stable_target_ = FALSE /\ worker = "none"
    BY <1>1 DEF Init, Spaced
  <2>2. stable_target_stamp_ <= last_sample_stamp_
    BY DEF Init, Unset
  <2>3. QED
    BY <2>1, <2>2 DEF TrackerInv
<1>8. DockedHasTag /\ UndockLeavesDockedTarget /\ FollowedInv
  BY DEF Init, DockedHasTag, UndockLeavesDockedTarget, FollowedInv
<1>9. QED
  BY <1>2, <1>3, <1>4, <1>5, <1>6, <1>7, <1>8 DEF IInv, TypeOK

-----------------------------------------------------------------------------
(* Every step keeps the invariant.                                         *)

\* A part of the invariant stays true while the variables it is about do not change.
LEMMA Frame ==
  ASSUME IInv
  PROVE  /\ UNCHANGED <<now, measurement_vars>> => MeasurementsOK'
         /\ UNCHANGED <<now, profile_vars, last_docked_target_>> => ProfilesOK'
         /\ UNCHANGED <<now, mux_vars, profile_generation_>> => MuxOK'
         /\ UNCHANGED <<now, worker_vars, stable_target_sequence_>> => WorkerOK'
         /\ UNCHANGED <<worker, mux_vars, profile_vars, last_sample_stamp_>> => CopyIsCurrent'
         /\ UNCHANGED <<worker, measurement_vars, profile_vars>> => TrackerInv'
         /\ UNCHANGED <<worker, goal, last_docked_target_, active_profile_>> =>
                DockedHasTag' /\ UndockLeavesDockedTarget'
         /\ UNCHANGED <<worker_vars, measurement_vars>> => FollowedInv'
<1>1. UNCHANGED <<now, measurement_vars>> => MeasurementsOK'
  BY DEF IInv, TypeOK, MeasurementsOK, measurement_vars, Ready, Detections
<1>2. UNCHANGED <<now, profile_vars, last_docked_target_>> => ProfilesOK'
  BY DEF IInv, TypeOK, ProfilesOK, profile_vars
<1>3. UNCHANGED <<now, mux_vars, profile_generation_>> => MuxOK'
  BY DEF IInv, TypeOK, MuxOK, mux_vars, Detections
<1>4. UNCHANGED <<now, worker_vars, stable_target_sequence_>> => WorkerOK'
  BY DEF IInv, TypeOK, WorkerOK, worker_vars
<1>5. UNCHANGED <<worker, mux_vars, profile_vars, last_sample_stamp_>> => CopyIsCurrent'
  BY DEF IInv, CopyIsCurrent, Current, mux_vars, profile_vars
<1>6. UNCHANGED <<worker, measurement_vars, profile_vars>> => TrackerInv'
  BY DEF IInv, TrackerInv, measurement_vars, profile_vars, Spaced, PreviousStamp
<1>7. UNCHANGED <<worker, goal, last_docked_target_, active_profile_>> =>
          DockedHasTag' /\ UndockLeavesDockedTarget'
  BY DEF IInv, DockedHasTag, UndockLeavesDockedTarget
<1>8. UNCHANGED <<worker_vars, measurement_vars>> => FollowedInv'
  BY DEF IInv, FollowedInv, measurement_vars, worker_vars, Newer
<1>9. QED
  BY <1>1, <1>2, <1>3, <1>4, <1>5, <1>6, <1>7, <1>8

\* A detection waits to be copied; nothing rests on it yet.
LEMMA DetectionInv ==
  ASSUME IInv, NEW topic, NEW tag \in Tags, NEW stamp \in 1..now, Detection(topic, tag, stamp)
  PROVE  IInv'
<1>1. /\ pending_detection_' = [tag |-> tag, stamp |-> stamp]
      /\ UNCHANGED <<now, last_sample_stamp_, tracker_, stable_target_, stable_target_stamp_,
                     stable_target_sequence_, profile_vars, last_docked_target_, mux_vars,
                     worker_vars>>
  BY DEF Detection
<1>2. pending_detection_' \in Detections /\ Detections' = Detections
  BY <1>1 DEF Detections
<1>3. MeasurementsOK'
  BY <1>1, <1>2 DEF IInv, TypeOK, MeasurementsOK, Ready
<1>4. UNCHANGED <<worker, goal, active_profile_, profile_generation_>>
  BY <1>1 DEF worker_vars, profile_vars
<1>5. TrackerInv'
  BY <1>1, <1>4 DEF IInv, TrackerInv, profile_vars, Spaced, PreviousStamp
<1>6. FollowedInv'
  BY <1>1 DEF IInv, FollowedInv, worker_vars, Newer
<1>7. QED
  BY <1>1, <1>3, <1>4, <1>5, <1>6, Frame DEF IInv, TypeOK

\* A step of the timer that only moves on or returns.
LEMMA MuxMovesInv ==
  ASSUME IInv, UNCHANGED <<now, measurement_vars, profile_vars, last_docked_target_, worker_vars>>,
         MuxOK', CopyIsCurrent'
  PROVE  IInv'
<1>1. UNCHANGED <<worker, goal, active_profile_, stable_target_sequence_>>
  BY DEF worker_vars, profile_vars, measurement_vars
<1>2. QED
  BY <1>1, Frame DEF IInv, TypeOK

\* A return of the timer forgets its copy.
LEMMA MuxReturnsInv ==
  ASSUME IInv, MuxReturns
  PROVE  MuxOK' /\ CopyIsCurrent'
<1>1. mux_pc' = "idle" /\ snapshot' = None
  BY DEF MuxReturns
<1>2. QED
  BY <1>1 DEF MuxOK, CopyIsCurrent

\* The copy is what is active, with the generation that tells it from later ones.
LEMMA MuxSnapshotInv ==
  ASSUME IInv, MuxSnapshot
  PROVE  IInv'
<1>1. /\ mux_pc' = "copied"
      /\ snapshot' = [profile |-> active_profile_, generation |-> profile_generation_,
                      activated |-> activation_stamp_, message |-> None]
      /\ UNCHANGED <<now, measurement_vars, profile_vars, last_docked_target_, worker_vars>>
  BY DEF MuxSnapshot
<1>2. /\ active_profile_ \in Profile /\ activation_stamp_ \in 0..now
      /\ profile_generation_ \in 0..profile_generation_
  BY AcquisitionAssumption DEF IInv, TypeOK, ProfilesOK
<1>3. snapshot' # None
  BY <1>1, NoneIsApart
<1>4. MuxOK'
  <2>1. UNCHANGED <<profile_generation_, now>> /\ Detections' = Detections
    BY <1>1 DEF profile_vars, Detections
  <2>2. snapshot' \in [profile : Profile, generation : 0..profile_generation_,
                       activated : 0..now, message : Detections \union {None}]
    BY <1>1, <1>2
  <2>3. QED
    BY <1>1, <1>3, <2>1, <2>2 DEF MuxOK
<1>5. CopyIsCurrent'
  BY <1>1 DEF CopyIsCurrent, profile_vars
<1>6. QED
  BY <1>1, <1>4, <1>5, MuxMovesInv

\* A message is taken only if the copied profile accepts it.
LEMMA MuxTakePendingInv ==
  ASSUME IInv, MuxTakePending
  PROVE  IInv'
<1>1. /\ mux_pc = "copied"
      /\ UNCHANGED <<now, measurement_vars, profile_vars, last_docked_target_, worker_vars>>
  BY DEF MuxTakePending
<1>2. CASE pending_detection_ # None /\ Acceptable(pending_detection_)
  <2>1. mux_pc' = "taken" /\ snapshot' = [snapshot EXCEPT !.message = pending_detection_]
    BY <1>2 DEF MuxTakePending
  <2>2. /\ snapshot \in [profile : Profile, generation : 0..profile_generation_,
                         activated : 0..now, message : Detections \union {None}]
        /\ pending_detection_ \in Detections
    BY <1>1, <1>2 DEF IInv, TypeOK, MuxOK, MeasurementsOK
  <2>3. snapshot' = [profile |-> snapshot.profile, generation |-> snapshot.generation,
                     activated |-> snapshot.activated, message |-> pending_detection_]
    BY <2>1, <2>2
  <2>4. snapshot' # None
    BY <2>3, NoneIsApart
  <2>5. /\ UNCHANGED <<worker, now, profile_generation_, active_profile_, activation_stamp_>>
        /\ Detections' = Detections
    BY <1>1 DEF profile_vars, worker_vars, Detections
  <2>6. snapshot' \in [profile : Profile, generation : 0..profile_generation_,
                       activated : 0..now, message : Detections \union {None}]
    BY <2>2, <2>3
  <2>7. MuxOK'
    BY <2>1, <2>2, <2>3, <2>4, <2>5, <2>6 DEF MuxOK
  <2>8. CopyIsCurrent'
    <3>1. snapshot # None
      BY <1>1 DEF IInv, TypeOK, MuxOK
    <3>2. worker' # "none" /\ snapshot'.generation = profile_generation_' =>
              snapshot'.profile = active_profile_' /\ snapshot'.activated = activation_stamp_'
      BY <2>3, <2>5, <3>1 DEF IInv, CopyIsCurrent
    <3>3. /\ snapshot'.message.tag = snapshot'.profile.tag
          /\ snapshot'.message.stamp >= snapshot'.activated
      BY <1>2, <2>3 DEF Acceptable
    <3>4. QED
      BY <2>1, <3>2, <3>3 DEF CopyIsCurrent
  <2>9. QED
    BY <1>1, <2>7, <2>8, MuxMovesInv
<1>3. CASE ~(pending_detection_ # None /\ Acceptable(pending_detection_))
  <2>1. MuxReturns
    BY <1>3 DEF MuxTakePending
  <2>2. QED
    BY <1>1, <2>1, MuxReturnsInv, MuxMovesInv
<1>4. QED
  BY <1>2, <1>3

\* The check of the generation and of the watermark is what the next section rests on.
LEMMA MuxCheckCurrentInv ==
  ASSUME IInv, MuxCheckCurrent
  PROVE  IInv'
<1>1. /\ mux_pc = "taken"
      /\ UNCHANGED <<now, measurement_vars, profile_vars, last_docked_target_, worker_vars>>
  BY DEF MuxCheckCurrent
<1>2. CASE Current
  <2>1. mux_pc' = "checked" /\ snapshot' = snapshot
    BY <1>2 DEF MuxCheckCurrent
  <2>2. /\ UNCHANGED <<worker, now, profile_generation_, active_profile_, activation_stamp_,
                       last_sample_stamp_>>
        /\ Detections' = Detections
    BY <1>1 DEF profile_vars, worker_vars, measurement_vars, Detections
  <2>3. MuxOK'
    BY <1>1, <2>1, <2>2 DEF IInv, TypeOK, MuxOK
  <2>4. CopyIsCurrent'
    BY <1>1, <1>2, <2>1, <2>2 DEF IInv, CopyIsCurrent, Current
  <2>5. QED
    BY <1>1, <2>3, <2>4, MuxMovesInv
<1>3. CASE ~Current
  <2>1. MuxReturns
    BY <1>3 DEF MuxCheckCurrent
  <2>2. QED
    BY <1>1, <2>1, MuxReturnsInv, MuxMovesInv
<1>4. QED
  BY <1>2, <1>3

\* What is known of the message in hand once it was checked: its types, and that nothing
\* the timer has used is newer.
LEMMA CheckedMessage ==
  ASSUME IInv, mux_pc = "checked", snapshot.generation = profile_generation_
  PROVE  /\ Current
         /\ snapshot # None
         /\ snapshot.message.stamp \in 1..now /\ snapshot.message.tag \in Tags
         /\ last_sample_stamp_ < snapshot.message.stamp
         /\ worker # "none" =>
                /\ snapshot.message.tag = active_profile_.tag
                /\ snapshot.message.stamp >= activation_stamp_
<1>1. Current /\ snapshot # None /\ snapshot.message \in Detections
  BY DEF IInv, CopyIsCurrent, TypeOK, MuxOK
<1>2. snapshot.message.stamp \in 1..now /\ snapshot.message.tag \in Tags
  BY <1>1 DEF Detections
<1>3. last_sample_stamp_ < snapshot.message.stamp
  <2>1. last_sample_stamp_ \in Nat /\ snapshot.message.stamp \in Nat \ {0}
    BY <1>2 DEF IInv, TypeOK, MeasurementsOK
  <2>2. QED
    BY <1>1, <2>1 DEF Current, Unset
<1>4. worker # "none" =>
          /\ snapshot.message.tag = active_profile_.tag
          /\ snapshot.message.stamp >= activation_stamp_
  BY <1>1 DEF IInv, CopyIsCurrent
<1>5. QED
  BY <1>1, <1>2, <1>3, <1>4

\* A measurement that cannot be used restarts acquisition under the same profile only; the
\* watermark moves with it.
LEMMA MuxInvalidMeasurementInv ==
  ASSUME IInv, MuxInvalidMeasurement
  PROVE  IInv'
<1>1. /\ mux_pc = "checked" /\ MuxReturns
      /\ UNCHANGED <<now, pending_detection_, stable_target_stamp_, stable_target_sequence_,
                     profile_vars, last_docked_target_, worker_vars>>
  BY DEF MuxInvalidMeasurement
<1>2. /\ MuxOK' /\ CopyIsCurrent'
      /\ UNCHANGED <<worker, goal, active_profile_, minimum_sequence, followed>>
  BY <1>1, MuxReturnsInv DEF worker_vars, profile_vars
<1>3. CASE snapshot.generation = profile_generation_
  <2>1. /\ tracker_' = <<>> /\ stable_target_' = FALSE
        /\ last_sample_stamp_' = snapshot.message.stamp
    BY <1>3 DEF MuxInvalidMeasurement, Restart, Reset
  <2>2. /\ snapshot.message.stamp \in 1..now /\ last_sample_stamp_ < snapshot.message.stamp
        /\ stable_target_stamp_ <= last_sample_stamp_
        /\ stable_target_stamp_ \in Int /\ last_sample_stamp_ \in Int
    BY <1>1, <1>3, CheckedMessage DEF IInv, TrackerInv, TypeOK, MeasurementsOK
  <2>3. MeasurementsOK'
    <3>1. <<>> \in Seq(Sample) /\ Len(<<>>) = 0 /\ Detections' = Detections
      BY <1>1 DEF Detections
    <3>2. stable_target_' \in BOOLEAN /\ ~stable_target_'
      BY <2>1
    <3>3. last_sample_stamp_' \in 0..now
      BY <2>1, <2>2
    <3>4. QED
      BY <1>1, <2>1, <3>1, <3>2, <3>3, AcquisitionAssumption DEF IInv, TypeOK, MeasurementsOK
  <2>4. TrackerInv'
    <3>1. Spaced(tracker_') /\ DOMAIN tracker_' = {}
      BY <2>1 DEF Spaced
    <3>2. stable_target_stamp_' <= last_sample_stamp_'
      BY <1>1, <2>1, <2>2
    <3>3. QED
      BY <2>1, <3>1, <3>2 DEF TrackerInv, Reset, Spaced
  <2>5. FollowedInv'
    BY <1>1, <1>2, <2>1 DEF IInv, FollowedInv
  <2>6. QED
    BY <1>1, <1>2, <2>3, <2>4, <2>5, Frame DEF IInv, TypeOK
<1>4. CASE snapshot.generation # profile_generation_
  <2>1. UNCHANGED measurement_vars
    BY <1>1, <1>4 DEF MuxInvalidMeasurement, measurement_vars
  <2>2. QED
    BY <1>1, <1>2, <2>1, MuxMovesInv
<1>5. QED
  BY <1>3, <1>4

\* A rejected measurement moves the watermark only.
LEMMA MuxRejectInv ==
  ASSUME IInv, MuxReject
  PROVE  IInv'
<1>1. /\ mux_pc = "checked" /\ MuxReturns
      /\ snapshot.generation = profile_generation_
      /\ last_sample_stamp_' = snapshot.message.stamp
      /\ UNCHANGED <<now, pending_detection_, tracker_, stable_target_, stable_target_stamp_,
                     stable_target_sequence_, profile_vars, last_docked_target_, worker_vars>>
  BY DEF MuxReject, Current
<1>2. /\ MuxOK' /\ CopyIsCurrent'
      /\ UNCHANGED <<worker, goal, active_profile_, activation_stamp_>>
  BY <1>1, MuxReturnsInv DEF worker_vars, profile_vars
<1>3. /\ snapshot.message.stamp \in 1..now /\ last_sample_stamp_ < snapshot.message.stamp
      /\ last_sample_stamp_ \in Int /\ stable_target_stamp_ \in Int
  BY <1>1, CheckedMessage DEF IInv, TypeOK, MeasurementsOK
<1>4. MeasurementsOK'
  <2>1. last_sample_stamp_' \in 0..now /\ Detections' = Detections
    BY <1>1, <1>3 DEF Detections
  <2>2. QED
    BY <1>1, <2>1 DEF IInv, TypeOK, MeasurementsOK, Ready
<1>5. TrackerInv'
  <2>1. stable_target_stamp_' <= last_sample_stamp_'
    BY <1>1, <1>3 DEF IInv, TrackerInv
  <2>2. tracker_ # Reset => PreviousStamp(tracker_) <= last_sample_stamp_'
    <3> SUFFICES ASSUME tracker_ # Reset PROVE PreviousStamp(tracker_) <= last_sample_stamp_'
      OBVIOUS
    <3>1. PreviousStamp(tracker_) \in Int /\ PreviousStamp(tracker_) <= last_sample_stamp_
      BY LastStamp DEF IInv, TypeOK, MeasurementsOK, TrackerInv
    <3>2. QED
      BY <1>1, <1>3, <3>1
  <2>3. QED
    BY <1>1, <1>2, <2>1, <2>2 DEF IInv, TrackerInv, Spaced, PreviousStamp
<1>6. FollowedInv'
  BY <1>1 DEF IInv, FollowedInv, worker_vars, Newer
<1>7. QED
  BY <1>1, <1>2, <1>4, <1>5, <1>6, Frame DEF IInv, TypeOK

\* An observation is of the running goal's tag and newer than all the tracker holds; when
\* it completes the tracker, the target it makes is newer than what the goal has followed.
LEMMA MuxObserveInv ==
  ASSUME IInv, MuxObserve
  PROVE  IInv'
<1> DEFINE sample == [stamp |-> snapshot.message.stamp, tag |-> snapshot.message.tag]
<1>1. /\ mux_pc = "checked" /\ MuxReturns
      /\ UNCHANGED <<now, pending_detection_, profile_vars, last_docked_target_, worker_vars>>
  BY DEF MuxObserve
<1>2. /\ MuxOK' /\ CopyIsCurrent'
      /\ UNCHANGED <<worker, goal, active_profile_, activation_stamp_, minimum_sequence,
                     followed>>
  BY <1>1, MuxReturnsInv DEF worker_vars, profile_vars
<1>3. CASE ~Current
  <2>1. UNCHANGED measurement_vars
    BY <1>1, <1>3 DEF MuxObserve, measurement_vars
  <2>2. QED
    BY <1>1, <1>2, <2>1, MuxMovesInv
<1>4. CASE Current
  <2>1. /\ last_sample_stamp_' = sample.stamp
        /\ tracker_' = Observed(tracker_, sample)
        /\ stable_target_' = Ready(tracker_')
        /\ IF Ready(tracker_')
           THEN /\ stable_target_stamp_' = sample.stamp
                /\ stable_target_sequence_' = stable_target_sequence_ + 1
           ELSE UNCHANGED <<stable_target_stamp_, stable_target_sequence_>>
    BY <1>4 DEF MuxObserve
  <2>2. /\ sample.stamp \in 1..now /\ sample.tag \in Tags /\ last_sample_stamp_ < sample.stamp
        /\ worker # "none" => sample.tag = active_profile_.tag /\ sample.stamp >= activation_stamp_
    <3>1. snapshot.generation = profile_generation_
      BY <1>4 DEF Current
    <3>2. QED
      BY <1>1, <3>1, CheckedMessage
  <2>3. /\ MeasurementsOK /\ TrackerInv /\ FollowedInv /\ now \in 1..MaxTime /\ MaxTime \in Nat
        /\ WorkerOK
    BY AcquisitionAssumption DEF IInv, TypeOK, MeasurementsOK
  <2>4. sample \in Sample
    BY <2>2, <2>3 DEF Sample
  <2>5. last_sample_stamp_ \in Int /\ stable_target_stamp_ \in Int /\ sample.stamp \in Int
        /\ stable_target_sequence_ \in Nat
    BY <2>2, <2>3 DEF MeasurementsOK
  <2>6. tracker_ # Reset => PreviousStamp(tracker_) < sample.stamp
    <3> SUFFICES ASSUME tracker_ # Reset PROVE PreviousStamp(tracker_) < sample.stamp
      OBVIOUS
    <3>1. PreviousStamp(tracker_) \in Int /\ PreviousStamp(tracker_) <= last_sample_stamp_
      BY <2>3, LastStamp DEF MeasurementsOK, TrackerInv
    <3>2. QED
      BY <2>2, <2>5, <3>1
  <2>7. Tracked(tracker_)
    BY <2>3 DEF Tracked, MeasurementsOK, TrackerInv
  <2> HIDE DEF sample
  <2>8. /\ Tracked(tracker_')
        /\ tracker_' # Reset
        /\ PreviousStamp(tracker_') = sample.stamp
        /\ \A i \in 1..Len(tracker_') :
               tracker_'[i] = sample \/ \E j \in 1..Len(tracker_) : tracker_'[i] = tracker_[j]
    BY <2>1, <2>4, <2>6, <2>7, ObservedTracked
  <2>9. /\ stable_target_stamp_' \in {stable_target_stamp_, sample.stamp}
        /\ stable_target_sequence_' \in {stable_target_sequence_, stable_target_sequence_ + 1}
        /\ Ready(tracker_') => stable_target_stamp_' = sample.stamp
    BY <2>1
  <2>10. stable_target_stamp_ <= stable_target_stamp_' /\ stable_target_stamp_' <= sample.stamp
    BY <2>2, <2>3, <2>5, <2>9 DEF TrackerInv
  <2>11. MeasurementsOK'
    <3>1. last_sample_stamp_' \in 0..now /\ stable_target_stamp_' \in 0..now
          /\ stable_target_sequence_' \in Nat
      BY <2>1, <2>2, <2>3, <2>9 DEF MeasurementsOK
    <3>2. stable_target_' \in BOOLEAN
      BY <2>1 DEF Ready
    <3>3. stable_target_' => Ready(tracker_') /\ stable_target_stamp_' # Unset
      BY <2>1, <2>2, <2>9 DEF Unset
    <3>4. Detections' = Detections
      BY <1>1 DEF Detections
    <3>5. Ready(tracker_)' <=> Ready(tracker_')
      BY DEF Ready
    <3>6. QED
      BY <1>1, <2>3, <2>8, <3>1, <3>2, <3>3, <3>4, <3>5 DEF MeasurementsOK, Tracked
  <2>12. TrackerInv'
    <3>1. Spaced(tracker_)'
      BY <2>8 DEF Tracked, Spaced
    <3>2. PreviousStamp(tracker_') <= last_sample_stamp_'
      BY <2>1, <2>5, <2>8
    <3>3. stable_target_' => stable_target_stamp_' = PreviousStamp(tracker_')
      BY <2>1, <2>8, <2>9
    <3>4. stable_target_stamp_' <= last_sample_stamp_'
      BY <2>1, <2>10
    <3>5. ASSUME worker' # "none", NEW i \in DOMAIN tracker_'
          PROVE  tracker_'[i].tag = active_profile_'.tag /\ tracker_'[i].stamp >= activation_stamp_'
      <4>1. i \in 1..Len(tracker_') /\ DOMAIN tracker_ = 1..Len(tracker_)
        BY <2>7, <2>8, <3>5, LenProperties DEF Tracked
      <4>2. worker # "none"
        BY <1>2, <3>5
      <4>3. CASE tracker_'[i] = sample
        BY <1>2, <2>2, <4>2, <4>3
      <4>4. CASE \E j \in 1..Len(tracker_) : tracker_'[i] = tracker_[j]
        BY <1>2, <2>3, <4>1, <4>2, <4>4 DEF TrackerInv
      <4>5. QED
        BY <2>8, <4>1, <4>3, <4>4
    <3>6. PreviousStamp(tracker_)' = PreviousStamp(tracker_')
      BY DEF PreviousStamp
    <3>7. QED
      BY <3>1, <3>2, <3>3, <3>4, <3>5, <3>6 DEF TrackerInv
  <2>13. WorkerOK'
    <3>1. minimum_sequence' \in 0..stable_target_sequence_'
      BY <1>2, <2>3, <2>9 DEF WorkerOK, MeasurementsOK
    <3>2. QED
      BY <1>1, <1>2, <2>3, <3>1 DEF WorkerOK
  <2>14. FollowedInv'
    <3>1. followed \in Int
      BY <2>3 DEF WorkerOK, MeasurementsOK
    <3>2. worker # "none" => followed <= stable_target_stamp_'
      BY <2>3, <2>5, <2>9, <2>10, <3>1 DEF FollowedInv
    <3>3. worker # "none" /\ stable_target_' => followed < stable_target_stamp_'
      BY <2>1, <2>2, <2>3, <2>5, <2>9, <3>1 DEF FollowedInv, TrackerInv
    <3>4. worker = "acquiring" /\ goal.undocking => followed = Unset
      BY <2>3 DEF FollowedInv
    <3>5. QED
      BY <1>2, <3>2, <3>3, <3>4 DEF FollowedInv
  <2>15. QED
    BY <1>1, <1>2, <2>11, <2>12, <2>13, <2>14, Frame DEF IInv, TypeOK
<1>5. QED
  BY <1>3, <1>4

\* A goal that starts forgets all measurements and begins a new generation, which no copy of
\* the timer has.
LEMMA ActivateInv ==
  ASSUME IInv, NEW profile \in Profile, NEW name \in Names, NEW undocking \in BOOLEAN,
         Activate(profile, Request(name, undocking)),
         worker' \in {"acquiring", "moving"},
         UNCHANGED <<now, last_docked_target_, mux_vars>>,
         IF undocking
         THEN /\ profile.name = name
              /\ profile.tag = NoTag => name \in Timed
              /\ name \in Boxes /\ profile.tag # NoTag => profile = last_docked_target_
         ELSE profile.tag # NoTag
  PROVE  IInv'
<1>1. /\ profile_generation_ < MaxGenerations
      /\ active_profile_' = profile
      /\ profile_generation_' = profile_generation_ + 1
      /\ activation_stamp_' = now
      /\ pending_detection_' = None
      /\ last_sample_stamp_' = Unset
      /\ tracker_' = <<>>
      /\ stable_target_' = FALSE
      /\ stable_target_stamp_' = Unset
      /\ stable_target_sequence_' = stable_target_sequence_
      /\ goal' = Request(name, undocking)
      /\ minimum_sequence' = 0
      /\ followed' = Unset
  BY DEF Activate, Restart, Reset
<1>2. /\ now \in 1..MaxTime /\ MaxTime \in Nat /\ stable_target_sequence_ \in Nat
      /\ profile_generation_ \in 0..MaxGenerations /\ MaxGenerations \in Nat
  BY AcquisitionAssumption DEF IInv, TypeOK, MeasurementsOK, ProfilesOK
<1>3. MeasurementsOK'
  <2>1. <<>> \in Seq(Sample) /\ Len(<<>>) = 0
    OBVIOUS
  <2>2. stable_target_' \in BOOLEAN /\ ~stable_target_'
    BY <1>1
  <2>3. QED
    BY <1>1, <1>2, <2>1, <2>2, AcquisitionAssumption DEF MeasurementsOK, Unset
<1>4. ProfilesOK'
  BY <1>1, <1>2 DEF IInv, TypeOK, ProfilesOK
<1>5. /\ MuxOK /\ UNCHANGED <<mux_pc, snapshot>> /\ Detections' = Detections
      /\ 0..profile_generation_ \subseteq 0..profile_generation_'
  BY <1>1, <1>2 DEF IInv, TypeOK, mux_vars, Detections
<1>6. MuxOK'
  BY <1>5 DEF MuxOK
<1>7. WorkerOK'
  <2>1. Request(name, undocking) \in [name : Names, undocking : BOOLEAN]
        /\ Request(name, undocking) # None
    BY NoneIsApart DEF Request
  <2>2. QED
    BY <1>1, <1>2, <2>1 DEF WorkerOK, Unset
<1>8. CopyIsCurrent'
  <2>1. snapshot # None => snapshot.generation # profile_generation_'
    BY <1>1, <1>2, <1>5 DEF MuxOK
  <2>2. mux_pc \in {"taken", "checked"} => snapshot # None
    BY <1>5 DEF MuxOK
  <2>3. QED
    BY <1>5, <2>1, <2>2 DEF IInv, CopyIsCurrent
<1>9. TrackerInv'
  <2>1. Spaced(tracker_') /\ DOMAIN tracker_' = {}
    BY <1>1 DEF Spaced
  <2>2. stable_target_stamp_' <= last_sample_stamp_'
    BY <1>1 DEF Unset
  <2>3. QED
    BY <1>1, <2>1, <2>2 DEF TrackerInv, Reset, Spaced
<1>10. goal'.name = name /\ goal'.undocking = undocking
  BY <1>1 DEF Request
<1>11. DockedHasTag'
  <2>1. last_docked_target_' # None => last_docked_target_'.tag # NoTag
    BY DEF IInv, DockedHasTag
  <2>2. QED
    BY <1>1, <1>10, <2>1 DEF DockedHasTag
<1>12. UndockLeavesDockedTarget'
  BY <1>1, <1>10 DEF UndockLeavesDockedTarget
<1>13. FollowedInv'
  BY <1>1, <1>10 DEF FollowedInv, Unset
<1>14. QED
  BY <1>3, <1>4, <1>6, <1>7, <1>8, <1>9, <1>11, <1>12, <1>13 DEF IInv, TypeOK

\* A refused goal may leave another profile active, and nothing runs that rests on it.
LEMMA ActivationFailsInv ==
  ASSUME IInv, NEW name \in Names, worker = "none", ActivationFails(name),
         UNCHANGED <<now, last_docked_target_, mux_vars>>
  PROVE  IInv'
<1>1. /\ active_profile_' \in Profile
      /\ UNCHANGED <<measurement_vars, profile_generation_, activation_stamp_, worker_vars>>
  BY ConfiguredProfile DEF ActivationFails
<1>2. UNCHANGED <<worker, goal, last_sample_stamp_, stable_target_sequence_, mux_pc, snapshot>>
  BY <1>1 DEF worker_vars, measurement_vars, mux_vars
<1>3. ProfilesOK'
  BY <1>1 DEF IInv, TypeOK, ProfilesOK
<1>4. CopyIsCurrent'
  BY <1>1, <1>2 DEF IInv, CopyIsCurrent, Current
<1>5. TrackerInv'
  BY <1>1, <1>2 DEF IInv, TrackerInv, Spaced, PreviousStamp, measurement_vars
<1>6. DockedHasTag' /\ UndockLeavesDockedTarget'
  BY <1>2 DEF IInv, DockedHasTag, UndockLeavesDockedTarget
<1>7. QED
  BY <1>1, <1>2, <1>3, <1>4, <1>5, <1>6, Frame DEF IInv, TypeOK

\* A docking goal is for a tag: the table's own, or that of the box instance it is bound to.
LEMMA StartDockInv ==
  ASSUME IInv, NEW name \in Names, NEW instance \in Instances \union {NoTag},
         StartDock(name, instance)
  PROVE  IInv'
<1>1. worker = "none" /\ UNCHANGED <<now, last_docked_target_, mux_vars>>
  BY DEF StartDock
<1>2. CASE /\ name \in Tables /\ instance = NoTag
           /\ Activate(Configured(name), Request(name, FALSE))
           /\ worker' = "acquiring"
  <2>1. Configured(name) \in Profile /\ Configured(name).tag # NoTag
    BY <1>2, ConfiguredProfile
  <2>2. QED
    BY <1>1, <1>2, <2>1, ActivateInv
<1>3. CASE /\ name \in Boxes /\ instance # NoTag
           /\ Activate(Bound(name, instance), Request(name, FALSE))
           /\ worker' = "acquiring"
  <2>1. Bound(name, instance) \in Profile /\ Bound(name, instance).tag # NoTag
    BY <1>3 DEF Bound, Profile, Tags
  <2>2. QED
    BY <1>1, <1>3, <2>1, ActivateInv
<1>4. CASE ActivationFails(name)
  BY <1>1, <1>4, ActivationFailsInv
<1>5. QED
  BY <1>2, <1>3, <1>4 DEF StartDock

\* An undock uses the profile asked for; for a box, the one remembered, which has a tag, or
\* none at all if it undocks on time.
LEMMA StartUndockInv ==
  ASSUME IInv, NEW name \in Names, StartUndock(name)
  PROVE  IInv'
<1>1. worker = "none" /\ UNCHANGED <<now, last_docked_target_, mux_vars>>
  BY DEF StartUndock
<1>2. CASE /\ UndockProfile(name) # None
           /\ Activate(UndockProfile(name), Request(name, TRUE))
           /\ worker' = IF name \in Timed THEN "moving" ELSE "acquiring"
  <2> DEFINE profile == UndockProfile(name)
  <2>1. /\ profile \in Profile /\ profile.name = name
        /\ profile.tag = NoTag => name \in Timed
        /\ name \in Boxes /\ profile.tag # NoTag => profile = last_docked_target_
    <3>1. CASE name \in Tables
      <4>1. profile = Configured(name)
        BY <3>1 DEF UndockProfile
      <4>2. name \notin Boxes
        BY <3>1, AcquisitionAssumption
      <4>3. QED
        BY <3>1, <4>1, <4>2, ConfiguredProfile
    <3>2. CASE name \notin Tables /\ Remembered(name)
      <4>1. profile = last_docked_target_
        BY <3>2 DEF UndockProfile
      <4>2. /\ last_docked_target_ \in Profile /\ last_docked_target_.name = name
            /\ last_docked_target_.tag # NoTag
        BY <3>2 DEF Remembered, IInv, TypeOK, ProfilesOK, DockedHasTag
      <4>3. QED
        BY <4>1, <4>2
    <3>3. CASE name \notin Tables /\ ~Remembered(name)
      <4>1. profile = Configured(name) /\ name \in Timed
        BY <1>2, <3>3 DEF UndockProfile
      <4>2. QED
        BY <3>3, <4>1, ConfiguredProfile
    <3>4. QED
      BY <3>1, <3>2, <3>3
  <2> HIDE DEF profile
  <2>2. Activate(profile, Request(name, TRUE))
    BY <1>2 DEF profile
  <2>3. worker' \in {"acquiring", "moving"}
    BY <1>2
  <2>4. QED
    BY <1>1, <2>1, <2>2, <2>3, ActivateInv
<1>3. CASE ActivationFails(name)
  BY <1>1, <1>3, ActivationFailsInv
<1>4. QED
  BY <1>2, <1>3 DEF StartUndock

\* A worker's step that leaves the world alone and goes on with its goal, or ends it.
LEMMA WorkerMovesInv ==
  ASSUME IInv,
         UNCHANGED <<now, measurement_vars, profile_vars, last_docked_target_, mux_vars, goal>>,
         worker # "none",
         WorkerOK', FollowedInv'
  PROVE  IInv'
<1>1. UNCHANGED <<mux_pc, snapshot, active_profile_, profile_generation_, activation_stamp_,
                  last_sample_stamp_, tracker_, stable_target_, stable_target_stamp_>>
  BY DEF mux_vars, profile_vars, measurement_vars
<1>2. CopyIsCurrent'
  BY <1>1 DEF IInv, CopyIsCurrent, Current
<1>3. TrackerInv'
  BY <1>1 DEF IInv, TrackerInv, Spaced, PreviousStamp
<1>4. DockedHasTag' /\ UndockLeavesDockedTarget'
  BY <1>1 DEF IInv, DockedHasTag, UndockLeavesDockedTarget
<1>5. QED
  BY <1>1, <1>2, <1>3, <1>4, Frame DEF IInv, TypeOK

\* What a worker follows is the target's stamp.
LEMMA FollowingInv ==
  ASSUME IInv, worker # "none", worker' \in {"acquiring", "moving"},
         worker' = "acquiring" => ~goal.undocking /\ minimum_sequence' = stable_target_sequence_,
         minimum_sequence' \in {minimum_sequence, stable_target_sequence_},
         followed' = stable_target_stamp_,
         UNCHANGED <<now, measurement_vars, goal>>
  PROVE  WorkerOK' /\ FollowedInv'
<1>1. /\ stable_target_stamp_ \in 0..now /\ stable_target_sequence_ \in Nat
      /\ minimum_sequence \in 0..stable_target_sequence_
      /\ goal \in [name : Names, undocking : BOOLEAN] \union {None} /\ goal # None
      /\ now \in Int
  BY DEF IInv, TypeOK, MeasurementsOK, WorkerOK
<1>2. UNCHANGED <<stable_target_stamp_, stable_target_sequence_, stable_target_>>
  BY DEF measurement_vars
<1>3. minimum_sequence' \in 0..stable_target_sequence_
  BY <1>1
<1>4. WorkerOK'
  BY <1>1, <1>2, <1>3 DEF WorkerOK
<1>5. followed' <= stable_target_stamp_'
  BY <1>1, <1>2
<1>6. worker' = "acquiring" => ~goal'.undocking /\ ~Newer'
  BY <1>1, <1>2 DEF Newer
<1>7. QED
  BY <1>4, <1>5, <1>6 DEF FollowedInv

\* A worker that ends its goal.
LEMMA EndingInv ==
  ASSUME IInv, worker' = "none",
         UNCHANGED <<now, measurement_vars, goal, minimum_sequence, followed>>
  PROVE  WorkerOK' /\ FollowedInv'
<1>1. UNCHANGED stable_target_sequence_
  BY DEF measurement_vars
<1>2. QED
  BY <1>1 DEF IInv, TypeOK, WorkerOK, FollowedInv

\* Every step of a worker keeps the invariant; a dock that succeeds remembers a profile with
\* a tag.
LEMMA WorkerInv ==
  ASSUME IInv, Acquire \/ Follow \/ RetryAttempt \/ GiveUp \/ Succeed
  PROVE  IInv'
<1>1. CASE Acquire
  BY <1>1, FollowingInv, WorkerMovesInv DEF Acquire
<1>2. CASE Follow
  BY <1>2, FollowingInv, WorkerMovesInv DEF Follow
<1>3. CASE RetryAttempt
  BY <1>3, FollowingInv, WorkerMovesInv DEF RetryAttempt
<1>4. CASE GiveUp
  BY <1>4, EndingInv, WorkerMovesInv DEF GiveUp
<1>5. CASE Succeed
  <2>1. /\ worker = "moving" /\ worker' = "none"
        /\ last_docked_target_' \in {last_docked_target_, active_profile_}
        /\ last_docked_target_' # last_docked_target_ =>
               ~goal.undocking /\ last_docked_target_' = active_profile_
        /\ UNCHANGED <<now, measurement_vars, profile_vars, mux_vars, goal,
                       minimum_sequence, followed>>
    BY <1>5 DEF Succeed
  <2>2. UNCHANGED <<mux_pc, snapshot, active_profile_, profile_generation_, activation_stamp_,
                    last_sample_stamp_, tracker_, stable_target_, stable_target_stamp_>>
    BY <2>1 DEF mux_vars, profile_vars, measurement_vars
  <2>3. WorkerOK' /\ FollowedInv'
    BY <2>1, EndingInv
  <2>4. CopyIsCurrent'
    BY <2>1, <2>2 DEF IInv, CopyIsCurrent, Current
  <2>5. TrackerInv'
    BY <2>1, <2>2 DEF IInv, TrackerInv, Spaced, PreviousStamp
  <2>6. ProfilesOK'
    BY <2>1, <2>2 DEF IInv, TypeOK, ProfilesOK
  <2>7. DockedHasTag' /\ UndockLeavesDockedTarget'
    BY <2>1 DEF IInv, DockedHasTag, UndockLeavesDockedTarget
  <2>8. QED
    BY <2>1, <2>2, <2>3, <2>4, <2>5, <2>6, <2>7, Frame DEF IInv, TypeOK
<1>6. QED
  BY <1>1, <1>2, <1>3, <1>4, <1>5

\* The bounds of what the clock has reached grow with it.
LEMMA ClockReaches ==
  ASSUME NEW time \in Nat, NEW later \in Nat, time <= later
  PROVE  0..time \subseteq 0..later /\ 1..time \subseteq 1..later
  OBVIOUS

\* Time passes: no stamp lies ahead of the clock.
LEMMA TickInv ==
  ASSUME IInv, Tick
  PROVE  IInv'
<1>1. /\ now' = now + 1 /\ now < MaxTime
      /\ UNCHANGED <<measurement_vars, profile_vars, last_docked_target_, mux_vars, worker_vars>>
  BY DEF Tick
<1>2. UNCHANGED <<worker, goal, active_profile_, profile_generation_, last_sample_stamp_,
                  stable_target_sequence_>>
  BY <1>1 DEF worker_vars, profile_vars, measurement_vars
<1>3. now \in 1..MaxTime /\ MaxTime \in Nat
  BY AcquisitionAssumption DEF IInv, TypeOK, MeasurementsOK
<1>4. now' \in 1..MaxTime /\ 0..now \subseteq 0..now' /\ 1..now \subseteq 1..now'
  BY <1>1, <1>3, ClockReaches
<1>5. Detections \subseteq Detections'
  BY <1>4 DEF Detections
<1>6. MeasurementsOK'
  BY <1>1, <1>4, <1>5 DEF IInv, TypeOK, MeasurementsOK, measurement_vars, Ready
<1>7. ProfilesOK'
  BY <1>1, <1>4 DEF IInv, TypeOK, ProfilesOK, profile_vars
<1>8. MuxOK'
  <2> DEFINE Copies(time, messages) ==
                 [profile : Profile, generation : 0..profile_generation_, activated : 0..time,
                  message : messages \union {None}]
  <2>1. Copies(now, Detections) \subseteq Copies(now', Detections')
    BY <1>4, <1>5
  <2>2. UNCHANGED <<mux_pc, snapshot>>
    BY <1>1 DEF mux_vars
  <2>3. snapshot' \in Copies(now', Detections') \union {None}
    BY <2>1, <2>2 DEF IInv, TypeOK, MuxOK
  <2>4. mux_pc' \in {"taken", "checked"} => snapshot'.message \in Detections'
    BY <1>5, <2>2 DEF IInv, TypeOK, MuxOK
  <2>5. QED
    BY <1>2, <2>2, <2>3, <2>4 DEF IInv, TypeOK, MuxOK
<1>9. WorkerOK'
  BY <1>1, <1>2, <1>4 DEF IInv, TypeOK, WorkerOK, worker_vars
<1>10. QED
  BY <1>1, <1>2, <1>6, <1>7, <1>8, <1>9, Frame DEF IInv, TypeOK

\* Every step, and every stuttering step, keeps the invariant.
LEMMA NextInv == IInv /\ [Next]_vars => IInv'
<1> SUFFICES ASSUME IInv, [Next]_vars PROVE IInv'
  OBVIOUS
<1>1. ASSUME NEW topic \in Topics, NEW tag \in Tags, NEW stamp \in 1..now,
             Detection(topic, tag, stamp)
      PROVE  IInv'
  BY <1>1, DetectionInv
<1>2. CASE Mux
  <2>1. CASE MuxTransformMissing
    BY <2>1, MuxReturnsInv, MuxMovesInv DEF MuxTransformMissing
  <2>2. QED
    BY <1>2, <2>1, MuxSnapshotInv, MuxTakePendingInv, MuxCheckCurrentInv,
       MuxInvalidMeasurementInv, MuxObserveInv, MuxRejectInv DEF Mux
<1>3. ASSUME NEW name \in Names, NEW instance \in Instances \union {NoTag},
             StartDock(name, instance)
      PROVE  IInv'
  BY <1>3, StartDockInv
<1>4. ASSUME NEW name \in Names, StartUndock(name) PROVE IInv'
  BY <1>4, StartUndockInv
<1>5. CASE Acquire \/ Follow \/ RetryAttempt \/ GiveUp \/ Succeed
  BY <1>5, WorkerInv
<1>6. CASE Tick
  BY <1>6, TickInv
<1>7. CASE UNCHANGED vars
  <2>1. UNCHANGED <<now, measurement_vars, profile_vars, last_docked_target_, mux_vars,
                    worker_vars>>
    BY <1>7 DEF vars
  <2>2. UNCHANGED <<worker, goal, active_profile_, profile_generation_, last_sample_stamp_,
                    stable_target_sequence_>>
    BY <2>1 DEF worker_vars, profile_vars, measurement_vars
  <2>3. QED
    BY <2>1, <2>2, Frame DEF IInv, TypeOK
<1>8. QED
  BY <1>1, <1>2, <1>3, <1>4, <1>5, <1>6, <1>7 DEF Next

\* The invariant holds throughout.
LEMMA AcquisitionInvariant == Spec => []IInv
  BY InitIInv, NextInv, PTL DEF Spec

-----------------------------------------------------------------------------
(* The theorems.                                                           *)

\* The state keeps its types: a target exists only while the tracker is full, the timer
\* holds a copy only between its first section and its return, and a message only once
\* taken; no stamp lies ahead of the clock.
THEOREM AcquisitionTypeCorrect == Spec => []TypeOK
<1>1. IInv => TypeOK
  BY DEF IInv
<1>2. QED
  BY <1>1, AcquisitionInvariant, PTL

\* Every target a goal can follow rests on a full tracker of observations of the goal's tag,
\* made since its profile was activated, ascending and without a gap, however the sections
\* of the timer interleave with activations, late detections and refused goals.
THEOREM TargetSupported == Spec => []TargetIsSupported
<1>1. IInv => TargetIsSupported
  <2> SUFFICES ASSUME IInv, worker # "none", stable_target_ = TRUE
               PROVE  /\ Ready(tracker_)
                      /\ stable_target_stamp_ = PreviousStamp(tracker_)
                      /\ \A i \in DOMAIN tracker_ :
                             /\ tracker_[i].tag = active_profile_.tag
                             /\ tracker_[i].stamp >= activation_stamp_
                      /\ Spaced(tracker_)
    BY DEF TargetIsSupported, Spaced, IInv, TypeOK, MeasurementsOK
  <2>1. QED
    BY DEF IInv, TypeOK, MeasurementsOK, TrackerInv
<1>2. QED
  BY <1>1, AcquisitionInvariant, PTL

\* An undock leaves what the robot is docked to: the profile asked for, and for a box the
\* instance of the last successful dock.
THEOREM UndockLeavesDock == Spec => []UndockLeavesDockedTarget
<1>1. IInv => UndockLeavesDockedTarget
  BY DEF IInv
<1>2. QED
  BY <1>1, AcquisitionInvariant, PTL

\* An attempt never starts to move on a target its goal has followed before.
THEOREM AttemptsSeeNew == Spec => AttemptsSeeNewTargets
<1>1. IInv /\ [Next]_vars =>
          [worker = "acquiring" /\ worker' = "moving" => followed' > followed]_vars
  <2> SUFFICES ASSUME IInv, Next, worker = "acquiring", worker' = "moving"
               PROVE  followed' > followed
    OBVIOUS
  <2>1. Acquire
    BY DEF Next, Mux, Detection, MuxSnapshot, MuxTakePending, MuxCheckCurrent,
           MuxTransformMissing, MuxInvalidMeasurement, MuxObserve, MuxReject, StartDock,
           StartUndock, Follow, RetryAttempt, GiveUp, Succeed, Tick, worker_vars
  <2>2. followed' = stable_target_stamp_ /\ stable_target_ /\ (goal.undocking \/ Newer)
    BY <2>1 DEF Acquire, Usable
  <2>3. followed \in Nat /\ stable_target_stamp_ \in Nat /\ stable_target_stamp_ # Unset
    BY <2>2 DEF IInv, TypeOK, MeasurementsOK, WorkerOK
  <2>4. CASE goal.undocking
    BY <2>2, <2>3, <2>4 DEF IInv, FollowedInv, Unset
  <2>5. CASE ~goal.undocking
    BY <2>2, <2>3, <2>5 DEF IInv, FollowedInv
  <2>6. QED
    BY <2>4, <2>5
<1>2. QED
  BY <1>1, AcquisitionInvariant, PTL DEF Spec, AttemptsSeeNewTargets
=============================================================================
