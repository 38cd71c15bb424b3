---------------------------- MODULE PointCloudPath ----------------------------
(***************************************************************************)
(* From the lidar to the costmap: the throttle publishes clouds, the nodes *)
(* in between (ground segmentation, self and payload filters) pass them on *)
(* in order and lose some, the obstacle layer queues and observes them.    *)
(***************************************************************************)
EXTENDS LidarCloudThrottle, PointCloudObstacleLayer

CONSTANT ChainDepth         \* bound on the clouds under way between the two

ASSUME ChainAssumption == ChainDepth \in Nat \ {0}

VARIABLE chain              \* the clouds under way, oldest first

vars == <<filter_vars, throttle_vars, layer_vars, chain>>

Init == ThrottleInit /\ LayerInit /\ chain = <<>>

\* A publication enters the chain if there is room, and is lost otherwise.
PublishCloud ==
    /\ Publish
    /\ chain' = IF Len(chain) < ChainDepth
                THEN Append(chain, [number |-> sequence, stamped |-> message.header = "stamped"])
                ELSE chain
    /\ UNCHANGED layer_vars

\* The nodes in between, and best-effort delivery.
LoseCloud ==
    /\ chain # <<>> /\ chain' = Tail(chain)
    /\ UNCHANGED <<filter_vars, throttle_vars, layer_vars>>
DeliverCloud ==
    /\ chain # <<>> /\ chain' = Tail(chain)
    /\ Receive(Head(chain))
    /\ UNCHANGED <<filter_vars, throttle_vars>>

Next ==
    \/ ThrottleStep /\ UNCHANGED <<layer_vars, chain>>
    \/ LayerStep /\ UNCHANGED <<filter_vars, throttle_vars, chain>>
    \/ PublishCloud \/ LoseCloud \/ DeliverCloud

Spec == Init /\ [][Next]_vars /\ ThrottleFairness /\ LayerFairness

(***************************************************************************)
(* Properties                                                              *)
(***************************************************************************)

\* Shape of the state: the timer works on a cloud that is not newer than the latest and has
\* not been dealt with before, nothing is queued that was not published, in the order of
\* publication and not beyond the bound.
TypeOK ==
    /\ max_input_points \in MaxInputPoints /\ waits \in BOOLEAN
    /\ timer \in {"idle", "lookup", "filter"}
    /\ latest_cloud_ \in Clouds \union {NoCloud} /\ message \in Clouds \union {NoCloud}
    /\ latest_cloud_sequence_ \in 0..MaxClouds
    /\ last_published_sequence_ \in 0..latest_cloud_sequence_
    /\ timer # "idle" => sequence \in last_published_sequence_ + 1..latest_cloud_sequence_
    /\ voxels \in [Keys -> Nat]
    /\ lifecycle \in {"inactive", "activating", "active", "deactivating"}
    /\ Len(pending) <= MaxPending
    /\ LET numbers == [i \in DOMAIN pending |-> pending[i].number]
               \o (IF in_callback = Nothing THEN <<>> ELSE <<in_callback.number>>)
               \o [i \in DOMAIN chain |-> chain[i].number]
       IN  /\ \A i, j \in DOMAIN numbers : i < j => numbers[i] < numbers[j]
           /\ \A i \in DOMAIN numbers : numbers[i] \in observed + 1..published

\* Every cloud leaves the queue, also one that never gets a transform.
QueueDrains ==
    \A number \in 1..MaxClouds :
        (\E i \in DOMAIN pending : pending[i].number = number)
            ~> ~(\E i \in DOMAIN pending : pending[i].number = number)
=============================================================================
