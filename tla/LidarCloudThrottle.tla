------------------------- MODULE LidarCloudThrottle -------------------------
(***************************************************************************)
(* LidarCloudThrottle: the newest lidar cloud is filtered and published at *)
(* a bounded rate.  Two callback groups run at the same time: the input    *)
(* callback replaces the latest cloud under a mutex, the timer works on    *)
(* the one it found when it started.                                       *)
(***************************************************************************)
EXTENDS PointCloudVoxelFilter

CONSTANTS
    Clouds,             \* the clouds the lidar can send
    MaxClouds           \* bound on the number of clouds

\* What the header of a cloud allows: stamped clouds are fine; the obstacle layer refuses an
\* unstamped one; of an unusable one the stamp overflows or the frame is missing.
Headers == {"stamped", "unstamped", "unusable"}

ASSUME CloudsAssumption ==
    /\ Clouds \subseteq [header : Headers, malformed : BOOLEAN,
                         points : Seq(Keys \union {Rejected})]
    /\ MaxClouds \in Nat

VARIABLES
    latest_cloud_, latest_cloud_sequence_,  \* under latest_cloud_mutex_
    last_published_sequence_,
    timer,              \* where processLatestCloud is: "idle", "lookup" or "filter"
    message, sequence,  \* its copy of the latest cloud
    published           \* auxiliary: the cloud published last, by its number

cloud_vars == <<latest_cloud_, latest_cloud_sequence_>>
throttle_vars == <<cloud_vars, last_published_sequence_, timer, message, sequence, published>>

\* No layout with three float fields inside the data: the filter returns nothing.
Refused(cloud) == cloud.malformed

NoCloud == [header |-> "unusable", malformed |-> TRUE, points |-> <<>>]

ThrottleInit ==
    /\ FilterInit
    /\ latest_cloud_ = NoCloud /\ latest_cloud_sequence_ = 0 /\ last_published_sequence_ = 0
    /\ timer = "idle" /\ message = NoCloud /\ sequence = 0 /\ published = 0

\* cloudCallback().
CloudCallback ==
    /\ latest_cloud_sequence_ < MaxClouds
    /\ latest_cloud_' \in Clouds
    /\ latest_cloud_sequence_' = latest_cloud_sequence_ + 1
    /\ UNCHANGED <<filter_vars, last_published_sequence_, timer, message, sequence, published>>

\* The timer finds a cloud it has not dealt with.  It returns from an unusable one at once
\* and finds it again the next time.
TakeLatest ==
    /\ timer = "idle"
    /\ latest_cloud_sequence_ # last_published_sequence_
    /\ latest_cloud_.header # "unusable"
    /\ message' = latest_cloud_ /\ sequence' = latest_cloud_sequence_
    /\ timer' = "lookup"
    /\ UNCHANGED <<filter_vars, cloud_vars, last_published_sequence_, published>>

Finished == timer' = "idle" /\ message' = NoCloud /\ sequence' = 0

\* No transform within tf_timeout_sec: the cloud is found again the next time.
LookupFails ==
    /\ timer = "lookup"
    /\ Finished
    /\ UNCHANGED <<filter_vars, cloud_vars, last_published_sequence_, published>>

\* A transform; a cloud that is malformed is not published and not tried again.
LookupSucceeds ==
    /\ timer = "lookup"
    /\ IF Refused(message)
       THEN /\ last_published_sequence_' = sequence
            /\ Finished
            /\ UNCHANGED filter_vars
       ELSE /\ Begin(message.points)
            /\ timer' = "filter"
            /\ UNCHANGED <<last_published_sequence_, message, sequence>>
    /\ UNCHANGED <<cloud_vars, published>>

FilterVisits == timer = "filter" /\ Visit /\ UNCHANGED throttle_vars

\* Variant: the cloud recorded as published is the latest one.
PublishRecordingLatest ==
    /\ timer = "filter" /\ ~Sampling
    /\ published' = sequence /\ last_published_sequence_' = latest_cloud_sequence_
    /\ Finished
    /\ UNCHANGED <<filter_vars, cloud_vars>>

\* The end of processLatestCloud(): the result of the filter is published.
Publish ==
    /\ timer = "filter" /\ ~Sampling
    /\ published' = sequence /\ last_published_sequence_' = sequence
    /\ Finished
    /\ UNCHANGED <<filter_vars, cloud_vars>>

\* The steps that concern nobody else.
ThrottleStep ==
    CloudCallback \/ TakeLatest \/ LookupFails \/ LookupSucceeds \/ FilterVisits

\* The timer fires again and again and its callback ends.  A lookup that is repeated often
\* enough succeeds.
ThrottleFairness ==
    LET v == <<filter_vars, throttle_vars>>
    IN  /\ WF_v(TakeLatest) /\ WF_v(LookupFails \/ LookupSucceeds) /\ SF_v(LookupSucceeds)
        /\ WF_v(FilterVisits) /\ WF_v(Publish)

(***************************************************************************)
(* Properties                                                              *)
(***************************************************************************)

\* What is published is the sample of the cloud it is published for, the empty one if the
\* cloud is empty.
OutputIsItsSample ==
    timer = "filter" => points = message.points /\ VoxelsAreTheSample

\* A cloud that is not followed by another one is published, also when it arrived while an
\* older one was being processed.
NewestIsPublished ==
    \A n \in 1..MaxClouds :
        (latest_cloud_sequence_ = n /\ latest_cloud_.header # "unusable" /\ ~Refused(latest_cloud_))
            ~> (published = n \/ latest_cloud_sequence_ > n)
=============================================================================
