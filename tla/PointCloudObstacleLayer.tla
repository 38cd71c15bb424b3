----------------------- MODULE PointCloudObstacleLayer -----------------------
(***************************************************************************)
(* PointCloudObstacleLayer: clouds wait in a queue until the transform of  *)
(* their stamp is there, without blocking the costmap's update.  The queue *)
(* is used under a mutex by the subscription callback, by the update loop  *)
(* and by activate(), deactivate() and reset().                            *)
(*                                                                         *)
(* A cloud is its number and whether it is stamped; there is one source.   *)
(* The number of the cloud observed last stands for the observation        *)
(* buffer.  Whether a transform is available may change at any time, so    *)
(* each look at it is a free choice.                                       *)
(***************************************************************************)
EXTENDS Integers, Sequences, FiniteSets

CONSTANT MaxPending         \* max_pending_clouds

ASSUME LayerAssumption == MaxPending \in Nat \ {0}

VARIABLES
    waits,          \* wait_timeout_ > 0, fixed for the layer's life
    lifecycle,      \* "inactive", "activating", "active" or "deactivating"
    in_callback,    \* the cloud in the subscription callback, if any
    pending,        \* the queue; a cloud is overdue once it waited for wait_timeout_
    observed        \* the cloud given to the observation buffer last

layer_vars == <<waits, lifecycle, in_callback, pending, observed>>

Nothing == [number |-> 0, stamped |-> FALSE]

\* active_, and whether the base class is subscribed.
Active == lifecycle # "inactive"
Subscribed == lifecycle = "active"

LayerInit ==
    /\ waits \in BOOLEAN
    /\ lifecycle = "inactive" /\ in_callback = Nothing /\ pending = <<>> /\ observed = 0

\* activate(): active_ is set, then the base class subscribes.
Activate ==
    /\ lifecycle = "inactive" /\ lifecycle' = "activating"
    /\ UNCHANGED <<waits, in_callback, pending, observed>>
Subscribe ==
    /\ lifecycle = "activating" /\ lifecycle' = "active"
    /\ UNCHANGED <<waits, in_callback, pending, observed>>

\* deactivate(): the base class unsubscribes, then active_ and the queue are cleared.
Unsubscribe ==
    /\ lifecycle = "active" /\ lifecycle' = "deactivating"
    /\ UNCHANGED <<waits, in_callback, pending, observed>>
Deactivate ==
    /\ lifecycle = "deactivating" /\ lifecycle' = "inactive"
    /\ pending' = <<>>
    /\ UNCHANGED <<waits, in_callback, observed>>

\* reset(), between two updates.
Reset ==
    /\ pending' = <<>>
    /\ UNCHANGED <<waits, lifecycle, in_callback, observed>>

\* A cloud is handed to the subscription callback.
Receive(cloud) ==
    /\ Subscribed /\ in_callback = Nothing
    /\ in_callback' = cloud
    /\ UNCHANGED <<waits, lifecycle, pending, observed>>

Queued(queue, cloud) ==
    Append(IF Len(queue) >= MaxPending THEN Tail(queue) ELSE queue,
           [number |-> cloud.number, overdue |-> FALSE])

\* Variant: a callback that outlives the subscription still queues its cloud.
EnqueueAlways ==
    /\ in_callback # Nothing
    /\ in_callback' = Nothing
    /\ pending' = IF in_callback.stamped THEN Queued(pending, in_callback) ELSE pending
    /\ UNCHANGED <<waits, lifecycle, observed>>

\* enqueue().
Enqueue ==
    /\ in_callback # Nothing
    /\ in_callback' = Nothing
    /\ pending' = IF in_callback.stamped /\ Active THEN Queued(pending, in_callback) ELSE pending
    /\ UNCHANGED <<waits, lifecycle, observed>>

\* Time passes: the clouds received first are overdue first.
Wait ==
    \E n \in DOMAIN pending :
        /\ waits /\ ~pending[n].overdue
        /\ pending' = [i \in DOMAIN pending |->
                          IF i <= n THEN [pending[i] EXCEPT !.overdue = TRUE] ELSE pending[i]]
        /\ UNCHANGED <<waits, lifecycle, in_callback, observed>>

\* A pass reads the clock for every cloud: the clouds overdue when it begins are expired for
\* it, and any other may become so.  Without a waiting time none expires.
Expired == {expired \in SUBSET DOMAIN pending :
               /\ \A i \in DOMAIN pending : pending[i].overdue => i \in expired
               /\ waits \/ expired = {}}

\* The lists of the given queue indices in ascending order: there is one.
Ascending(indices) ==
    {list \in [1..Cardinality(indices) -> indices] :
        \A i, j \in DOMAIN list : i < j => list[i] < list[j]}

\* Variant: an observed cloud leaves the queue, the older ones stay.
KeptErasingOne(ready, expired) ==
    IF waits THEN DOMAIN pending \ (ready \union expired) ELSE {}

\* Variant: an expired cloud waits on.
KeptExpired(ready, expired) ==
    IF waits THEN {i \in DOMAIN pending : \A j \in ready : i > j} ELSE {}

\* The indices of the clouds that wait on: an expired cloud is erased, one with its transform
\* takes all older ones with it, and without a waiting time the others go too.
Kept(ready, expired) ==
    IF waits THEN {i \in DOMAIN pending \ expired : \A j \in ready : i > j} ELSE {}

\* The observation buffer ends up with the newest of the clouds it was given.
Observe(buffered) ==
    \/ buffered = {} /\ UNCHANGED observed
    \/ \E last \in buffered :
           (\A i \in buffered : i <= last) /\ observed' = pending[last].number

\* processPending() in updateBounds(), under the mutex.  Any cloud that is not expired may
\* have its transform, and any of those lose it again before bufferCloud() looks it up.  A
\* cloud that waits on although a newer one expired is overdue by now.
Update ==
    \E expired \in Expired : \E ready \in SUBSET (DOMAIN pending \ expired) :
        /\ Active /\ pending # <<>>
        /\ \E list \in Ascending(Kept(ready, expired)) :
               pending' = [i \in DOMAIN list |->
                   [pending[list[i]] EXCEPT !.overdue = \E j \in expired : list[i] < j]]
        /\ \E buffered \in SUBSET ready : Observe(buffered)
        /\ UNCHANGED <<waits, lifecycle, in_callback>>

\* The passes that drop a cloud whatever the transforms.
Drops == pending # <<>> /\ (waits => \E i \in DOMAIN pending : pending[i].overdue)

LayerStep ==
    Activate \/ Subscribe \/ Unsubscribe \/ Deactivate \/ Reset \/ Enqueue \/ Wait \/ Update

\* The costmap's update loop runs, callbacks end and time passes.
LayerFairness ==
    /\ WF_layer_vars(Drops /\ Update)
    /\ WF_layer_vars(Wait)
    /\ WF_layer_vars(Enqueue)
    /\ WF_layer_vars(Deactivate)

(***************************************************************************)
(* Properties                                                              *)
(***************************************************************************)

\* Nothing waits in the queue of an inactive layer, whatever callback was under way when it
\* was deactivated, so no cloud queued before is observed after the next activation.  A
\* callback that waits for the mutex until then still queues its cloud from before.
NothingPendingWhileInactive == lifecycle = "inactive" => pending = <<>>

\* The observations ascend: a cloud whose transform arrives late does not replace a newer one,
\* and none is observed twice.
ObservationsAscend == [][observed' # observed => observed' > observed]_layer_vars
=============================================================================
