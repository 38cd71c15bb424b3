----------------------------- MODULE ActionInputs -----------------------------
(***************************************************************************)
(* What the worker thread of a local action (fine alignment, undocking,    *)
(* rotation) reads from the rest of the node, and how the callbacks change *)
(* it between any two of its reads.                                        *)
(*                                                                         *)
(* Ages stand for instants: the node compares clock samples only with a    *)
(* timeout, so an age that has passed its timeout stops growing.  That     *)
(* keeps the state finite without a bound on the clock.                    *)
(***************************************************************************)
EXTENDS Integers

CONSTANT CollisionStopTimeout

ASSUME InputsAssumption == CollisionStopTimeout \in Nat

VARIABLES
    ok,                     \* rclcpp::ok()
    canceling,              \* handle->is_canceling()
    navigation_active,      \* nav_active_mask_ # 0
    state_valid,            \* manipulation_state_ is EMPTY or HOLDING
    collision_stopped_,
    stop_age,               \* time since collision_stop_since_
    stop_lasts,             \* auxiliary: time since that STOP began, however often repeated
    target,                 \* is there a stable target, still fresh?
    newer,                  \* is stable_target_sequence_ beyond minimum_sequence?
    unseen                  \* is it beyond the one the worker read last?

target_vars == <<target, newer, unseen>>
stop_vars == <<collision_stopped_, stop_age, stop_lasts>>
input_vars == <<ok, canceling, navigation_active, state_valid, stop_vars, target_vars>>

\* One more unit of an age, up to the first value past its limit.
Older(age, limit) == IF age > limit THEN age ELSE age + 1

InitInputs ==
    /\ ok = TRUE
    /\ canceling = FALSE
    /\ navigation_active \in BOOLEAN
    /\ state_valid \in BOOLEAN
    /\ collision_stopped_ = FALSE
    /\ stop_age = 0 /\ stop_lasts = 0
    /\ target = FALSE       \* activateProfile() has dropped it
    /\ newer = FALSE
    /\ unseen = FALSE

InputsOK ==
    /\ ok \in BOOLEAN /\ canceling \in BOOLEAN
    /\ navigation_active \in BOOLEAN /\ state_valid \in BOOLEAN
    /\ collision_stopped_ \in BOOLEAN
    /\ stop_age \in 0..CollisionStopTimeout + 1 /\ stop_lasts \in 0..CollisionStopTimeout + 1
    /\ ~collision_stopped_ => stop_age = 0
    /\ target \in BOOLEAN /\ newer \in BOOLEAN /\ unseen \in BOOLEAN

CollisionStopTimedOut == collision_stopped_ /\ stop_age > CollisionStopTimeout

\* Auxiliary: the STOP has really lasted longer than the timeout.
StopOverdue == collision_stopped_ /\ stop_lasts > CollisionStopTimeout

-----------------------------------------------------------------------------
Shutdown ==
    /\ ok
    /\ ok' = FALSE
    /\ UNCHANGED <<canceling, navigation_active, state_valid, stop_vars, target_vars>>

\* The server accepts every cancel request.
CancelRequest ==
    /\ ~canceling
    /\ canceling' = TRUE
    /\ UNCHANGED <<ok, navigation_active, state_valid, stop_vars, target_vars>>

NavigationChanges ==
    /\ navigation_active' = ~navigation_active
    /\ UNCHANGED <<ok, canceling, state_valid, stop_vars, target_vars>>

ManipulationChanges ==
    /\ state_valid' = ~state_valid
    /\ UNCHANGED <<ok, canceling, navigation_active, stop_vars, target_vars>>

\* Variant: a repeated STOP is taken for a new one.
CollisionStopRenewed ==
    /\ collision_stopped_' = TRUE
    /\ stop_age' = 0
    /\ UNCHANGED <<ok, canceling, navigation_active, state_valid, stop_lasts, target_vars>>

\* A STOP that finds one under way keeps the time of the first.
CollisionStop ==
    /\ collision_stopped_' = TRUE
    /\ stop_age' = IF collision_stopped_ THEN stop_age ELSE 0
    /\ UNCHANGED <<ok, canceling, navigation_active, state_valid, stop_lasts, target_vars>>

CollisionClears ==
    /\ collision_stopped_
    /\ collision_stopped_' = FALSE
    /\ stop_age' = 0 /\ stop_lasts' = 0
    /\ UNCHANGED <<ok, canceling, navigation_active, state_valid, target_vars>>

\* processPendingDetection() accepts an observation that leaves the tracker ready,
NewTarget ==
    /\ target' = TRUE
    /\ newer' = TRUE
    /\ unseen' = TRUE
    /\ UNCHANGED <<ok, canceling, navigation_active, state_valid, stop_vars>>

\* or the target is dropped, or grows too old: only an observation brings it back.
TargetLost ==
    /\ target
    /\ target' = FALSE
    /\ UNCHANGED <<ok, canceling, navigation_active, state_valid, stop_vars, newer, unseen>>

InputsChange ==
    \/ Shutdown \/ CancelRequest \/ NavigationChanges \/ ManipulationChanges
    \/ CollisionStop \/ CollisionClears \/ NewTarget \/ TargetLost

InputsAge ==
    /\ stop_age' = IF collision_stopped_ THEN Older(stop_age, CollisionStopTimeout) ELSE 0
    /\ stop_lasts' = IF collision_stopped_ THEN Older(stop_lasts, CollisionStopTimeout) ELSE 0
    /\ UNCHANGED <<ok, canceling, navigation_active, state_valid, collision_stopped_, target_vars>>
=============================================================================
