# Formal verification of x2_navigation

TLA+ specifications of the control logic of the X2 navigation stack (ROS 2 Humble, C++ and
Python), checked with TLC on small instances; every safety property is also proved with TLAPS,
for every value of the constants. File paths below are relative to the repository, whose copy
is under `src/`.

## 1. Inventory

The stack turns Nav2's velocity commands and its own local docking motions into commands of
a walking robot. Commands take this path:

```
controller ──raw──┐
   └─> smoother ──┴─> fine_align_server ──/cmd_vel_raw──> Collision Monitor ──/cmd_vel──> ZMQ bridge ──> RoboJuDo
                      (gate, mux, actions)
detectors ─tags─>─┘        ▲ manipulation state, box states, Nav2 action status, collision state
Odin sensor ──> Odin adapter ──/odom, TF, localization_ready──> bridge, startup gate
lidar ──> throttle (voxel filter) ──> ground, self, payload filter ──> costmap obstacle layer
```

| component (source) | state it keeps | operations | what makes it correct |
|---|---|---|---|
| navigation command gate (`include/x2_navigation/navigation_command_gate.hpp`) | latest smoothed command and its receipt, receipt of the latest raw command | `update`, `updateRaw`, `commandAt`, `reset` | a smoothed command lives only while it and the raw stream are fresh, and never returns |
| multiplexer (`fine_align_server.cpp`: `publishSelectedCommand`, `stopAlignment`, command and status subscriptions, goal admission) | `operation_active_`, `alignment_active_`, `nav_active_mask_`, alignment command and time, the gate | mux timer, subscriptions, start and stop of a motion | one owner of the base; nothing cached crosses a handover; at rest when a result is told |
| tag acquisition (`processPendingDetection`, `activateProfile`, `RelativeTagTracker`, `docking_profiles.hpp`) | pending detection, tracker, stable target with stamp and sequence, active profile with generation, last docked target | detection, timer sections, activation, measurement | a target rests on enough fresh observations of the active profile's tag; undocking leaves what was docked at |
| fine alignment (`execute`, `runAttempt`) | attempt, deadlines, settling | wait, control pass, retry, finish | settles on new evidence, stops within one pass, always ends |
| undock and rotate (`executeUndock`, `executeTimedUndock`, `executeRotate`) | deadlines, clock sample, settling | acquire, pass, finish | as above; the earlier deadline decides |
| docking motion controller (`docking_tracking.hpp`, `holonomic_fine_align.hpp`) | three confirmed axes, translation gate, direction and its reconfirmations | `update`, with a new observation or without | rest before a large turn, forward only where it must not reverse, no waiting band outside the tolerance |
| Odin adapter (`odin_localization_adapter.cpp`) | queue of samples, watermarks, baseline, correction, reset boundary | two subscriptions, timer | "ready" only on evidence after the last reset, fresh by two clocks |
| velocity bridge (`nav2_zmq_velocity_bridge.cpp`, `velocity_command.hpp`, `localization_gate.hpp`) | watchdog, localization gate | readiness, command, timer, destructor | nothing revoked is sent; silence stops the robot |
| startup gate (`scripts/nav2_localization_startup_gate.py`) | readiness hold, request | heartbeat, tick | startup is requested once, after an unbroken hold |
| obstacle layer (`point_cloud_obstacle_layer.cpp`) | queue of clouds per source, `active_` | enqueue, `updateBounds`, activate, deactivate, reset | observations ascend whatever callback outlives a deactivation, the queue drains, nothing waits while inactive |
| cloud throttle (`lidar_cloud_throttle.cpp`) | latest cloud, two sequence numbers | receive, process | each cloud at most once, the newest eventually |
| voxel filter (`point_cloud_voxel_filter.cpp`) | accumulators reused by every call, the sampling loop's index and error | `filter` | evenly spaced samples of this cloud and of no other |
| payload filter, FAST-LIO adapter, geometry, timing | none between messages, but for the manipulation state the payload filter heard last | — | arithmetic on one message |
| launch and configuration | none | wiring | the topology above |

Interaction is by ROS topics (latched or queued), two actions' threads sharing atomics and
three mutexes with the executor inside `fine_align_server`, TF lookups, one lifecycle
service call and one ZMQ PUB socket. The hard behaviours are: interleaving of the mux timer
with worker threads; conditions read twice; lazily noticed timeouts; commands and
observations that outlive the reason they were given; retries; resets between late,
duplicated and reordered packets; two clocks, one of which may stall; lost messages to the
robot. `PROJECT.json` lists each hazard at its source line with the properties that cover it.

## 2. Modules and their correspondence to the code

Names of variables and actions are the code's where TLA+ allows it. An action stands for a
whole handler, or for the part of a handler between two points at which another thread can
observe or change something. Auxiliary variables, marked so where they are declared, record
history for the properties and never enable or disable a step.

* `NavigationCommandGate` — the gate as a record and its operations as pure operators, so
  that both `GateOverTime` and `CommandArbitration` use them. `commandAt()` reads and
  mutates, hence `CommandAt` and `AfterCommandAt`.
* `NavigationPermit` — the abstract promise: a permit that the clock revokes by itself.
* `GateOverTime` — the gate with its callers reduced to their calls. It implements
  `NavigationPermit` under the mapping `alive_until` / `permit` / `permit_until`, which shows
  only what is still valid of what the gate remembers.
* `CommandArbitration` — the node's two sides. The callbacks (goal admission, subscriptions,
  mux timer) are in one mutually exclusive callback group, so they run only while the mux
  timer is idle; the mux timer is four steps, as it reads the clock before it takes
  `command_mutex_` and three atomics while it holds it; the worker is one step per access.
  `stopAlignment()` is three steps: flag, critical section, zero command. All four motions
  are worker paths that differ in when the flag is raised and which clock sample stamps the
  command (`CommandTimes`). When a motion gives up and which velocity it computes is open.
* `TagAcquisition` — `processPendingDetection()` in its lock sections (snapshot, take,
  check, transform, observe) against detections, `activateProfile()` and the worker's
  measurements. Profiles are tables or boxes; a box profile is bound to an instance's tag.
  `MCTagAcquisition` gives `TopicOf`, a function, its value for TLC.
* `ActionInputs` — what a worker reads and how callbacks change it: shutdown, cancel, Nav2
  status, manipulation state, collision state with the age of the STOP, target. A STOP may be
  repeated while the last one holds, which must not renew its age; `stop_lasts` is a clock of
  the model's own that measures how long the STOP has really lasted. Extended by
* `FineAlignAction` — `execute()`, `runAttempt()`, both waits, settling, results; and by
* `UndockAndRotateActions` — the three other workers. A condition that ends a wait and the
  reading that names its reason are different steps, as they are different reads in the code.
* `OdinLocalizationAdapter` — both subscriptions and the timer, each one step, as they share
  one callback group; a ROS clock that may stall and a steady clock that may not.
* `VelocityBridge` — the callbacks, each with two readings of the clock; socket and robot are
  external and lose, refuse or delay messages.
* `DockingMotion` — `DockingMotionController` with `ConfirmedAxis` and the selection of
  `holonomicFineAlignCommand()`. Errors are whole numbers, a translation is one of 8 headings
  (the four axes and the open quadrants between them), a rotation a sign. The time between
  passes is any, so the rate-limited direction may turn by any part of what is wanted; whether
  a turn between two quadrants exceeds 90 degrees is open. Between observations the error is
  the same, as the workers take it from the last stable target.
  `MCDockingMotion` gives the errors.
* `PointCloudVoxelFilter` — the sampling loop, one step per sample, with the accumulators that
  survive a call. A point is its voxel key or rejected; an average is its number of points.
* `LidarCloudThrottle` — extends it by the two callback groups: the input callback may run
  between any two steps of the timer's, which are the snapshot under the mutex, the lookup,
  each sample and the publication.
* `PointCloudObstacleLayer` — the queue. `updateBounds()` is one step, as it holds
  `pending_mutex_` throughout; each look at TF inside it is a free choice. `activate()` and
  `deactivate()` are two steps each, between the base class's subscription and `active_`; a
  callback under way may end after either, and even after the next `activate()`: it then
  queues its old cloud, as the code does, and `ObservationsAscend` says what remains true.
* `PointCloudPath` — composes the two over a FIFO that loses clouds, the external nodes in
  between. `MCPointCloudPath` gives the clouds.
* `StartupGate` — `ReadinessHold` and `tick()`; TF validity, the service and the manager are
  the environment.

`FineAlignAction`, `UndockAndRotateActions`, `VelocityBridge` and `StartupGate` keep ages
instead of instants: the code compares clock readings with a timeout only, so an age past
its timeout need not grow; `PointCloudObstacleLayer` keeps only whether a cloud is overdue.
Their state is finite without a bound on the clock, and liveness
is checked on all behaviours. `DockingMotion` has no clock. The other modules bound their clocks by
`MaxTime`.

## 3. Runs

| run | what it shows | bounds, and why they are enough |
|---|---|---|
| `gate` | type invariant; the gate implements the permit | two commands, timeout 2, clock to 6: three timeouts, room for a lapse and a revival of both streams. The theorem also covers a timeout that is not positive |
| `arbitration` | no replay, ownership, rest before the result, timed motion near its poll (up to the mux's own clock sample: its wait for the mutex comes after) | one velocity, timeout 1, clock to 3, two status topics, any number of goals: one command expires and a second handover follows |
| `acquisition` | targets, retries, undock target | one table (timed undocking), one box with two instances, two samples, two activations, clock to 4: a generation change inside every timer section, a re-binding, a gap of more than the timeout |
| `fine_align` | settling, one late command at most, termination | all timeouts 1, one retry (each further retry repeats the same path), every callback between any two reads, STOPs that go, persist and are repeated |
| `fine_align_navigation` | expected violation, see section 6 | as `fine_align` |
| `undock_rotate` | settling, late commands, deadlines, termination | durations 1 and 2 around the movement deadline 1: earlier, equal and later |
| `timed_motion_stop` | expected violation, see section 6 | as `undock_rotate` |
| `odin` | readiness and corrections | two queued samples, local timeout 1, correction timeout 2, tolerance 1, clocks to 4: queue overflow, a stall, a reset, a replay and a recovery fit |
| `bridge` | nothing revoked is submitted; silence stops the robot | two commands, both timeouts 2 |
| `startup` | earned startup, one request, conclusion | hold 3 longer than heartbeat timeout 2, so that several heartbeats are needed |
| `docking_motion` | direction of travel, rest before a turn, no waiting band | 48 errors: inside the stop tolerance, between it and the completion tolerance, outside on both sides, and in each band of the translation gate; one and two confirmations; with and without reversing. The controller compares with thresholds only, so one error per band suffices |
| `point_clouds` | sampling, newest published, ascending observations, queue | three clouds of five sorts, one of 8 points of which 1 or 4 are sampled (a remainder, a carry), queue of 2 for the code's 50 and two clouds under way: overflow, supersession, expiry and deactivation with a callback under way. A fourth cloud gives 187 108 states and no violation |

Deadlock is checked in every run: callbacks stay enabled when a bounded clock has reached its
bound, and modules whose thread really ends say so with an explicit `Ended` step. Every property
has a mutant in `PROJECT.json`: a variant of one definition, kept beside it and commented
*Variant*, that breaks the property the way a plausible bug would.

### Properties by theme

* **Ownership of the base** — `NoReplayAcrossHandover`, `LocalCommandHasOwner`,
  `RestBeforeResult`.
* **Bounded life of a command** — `IsAPermit`, `TimedMotionNearPoll`, `AtMostOneLateCommand`,
  `NothingRevokedIsSubmitted`.
* **Evidence** — `TargetIsSupported`, `AttemptsSeeNewTargets`, `UndockLeavesDockedTarget`,
  `SuccessIsSettled`, `ReadyIsEarned`, `CorrectionsAscend`, `StartupIsEarned`,
  `OutputIsItsSample`, `ObservationsAscend`, `NothingPendingWhileInactive`.
* **Motion** — `NeverReverses`, `RestsBeforeLargeTurn`, `YawRestsBeforeReversal`.
* **Outcomes** — `EarlierDeadlineDecides`, `GoalEnds`, `RobotStops`, `GateConcludes`,
  `NoWaitingBand`, `NewestIsPublished`, `QueueDrains`.

### Fairness

* `FineAlignAction`, `UndockAndRotateActions`: `WF(Worker)`, because the goal runs on an
  operating-system thread of its own that blocks only in bounded sleeps and short critical
  sections, and `WF(Tick)`, because the steady clock advances. Callbacks have no fairness:
  `GoalEnds` holds whatever they do, even if no detection ever arrives.
* `VelocityBridge`: `WF(Tick)`; `SF` on a submission that arrives, which assumes a running
  timer and a transport that does not lose or refuse every message for ever; `WF(Deliver)`.
  `RobotStops` excepts the end of the bridge, whose last zero ZMQ may drop (linger 0).
* `StartupGate`: `WF` on the timer, the manager's reply while it lives, and the clock.

* `DockingMotion`: `WF(Observe)`, new observations, as an attempt without them ends
  (`stableMeasurement()`). The observation's number makes each a step, so errors may also stay
  as they are; `NoWaitingBand` constrains them itself.
* `LidarCloudThrottle`: `WF` on each step of the timer's callback, which runs on a thread of
  its own and waits for TF at most `tf_timeout_sec`; `SF(LookupSucceeds)`: a transform that is
  asked for again and again is there at last. `PointCloudObstacleLayer`: `WF` on an update that
  drops something whatever TF says, on time, on the end of a callback and of `deactivate()`.
  That a transform becomes available is not assumed there: clouds also leave by expiry.

No other module states liveness.

## 4. Proofs

TLAPS checks 33 theorems in eight modules. Together they state every invariant and every
action property that the passing runs check, and the refinement of the permit: TLC shows them
on the instances of section 3, the theorems for every value of the constants that the named
assumption of the module allows. Where a bound such as `MaxTime`, `MaxClouds` or `MaxGenerations`
appears it is any number (a clock's is positive), so a theorem covers every finite execution.

What the assumptions ask of the parameters is mostly what the constructors enforce: the Odin
adapter, the bridge, the startup gate, the throttle and the filter validate all of theirs, and
`fine_align_server` its retries, retry delay, settling and undocking times, tracking timeout,
tolerances, hystereses and confirmations. Four of its timeouts it does not validate
(`fine_align_server.cpp:139-147`):

* `command_timeout`: `GateAssumption` asks only that it is a number. The gate itself refuses one
  that is not positive (`navigation_command_gate.hpp:76`), and so does `Fresh`; a NaN acts alike.
  An infinite one is not covered.
* `acquisition_timeout`, `approach_timeout`, `collision_stop_timeout` are assumed not to be
  negative. A negative one has passed at once, as 0 has. An infinite one or a NaN is not covered,
  and with one the wait it limits need not end: `GoalEnds` is about finite deadlines.

All proofs have the same shape: lemmas on the operators; an inductive invariant; `Init` implies
it; each action preserves it, one lemma or one case per action; it implies the property; PTL
does the rest. What makes each one inductive is the interesting part.

| proof module, assumptions | theorems | inductive invariant, and why the properties alone do not suffice |
|---|---|---|
| `GateOverTimeProofs`; `GateAssumption` (the kinds of command are disjoint, the timeout is any number) | `GateTypeCorrect`, `GateImplementsPermit` | `TypeOK`. For the refinement each step maps to a step of the permit or a stutter: a late `clear()` inside `commandAt()` is a stutter since the mapping never showed what had expired, and a tick is `Pass`, which revokes eagerly |
| `CommandArbitrationProofs`; the same | `ArbitrationTypeCorrect`, `NeverReplays`, `MovingCommandOwned`, `RestBeforeEveryResult`, `TimedMotionFresh` | The properties speak of the instant the mux publishes. Added is what holds while nobody looks: the gate holds only what was heard since navigation owns the base (`GateHoldsWhatWasHeard`) and nothing from the reset to the release (`GateEmptyAfterReset`); an alignment command exists only between the start of a motion and the reset, and belongs to that motion (`CommandOnlyInMotion`); a pass's clock sample and poll coincide (`PollTimed`); what the mux has selected stays true until it publishes, because the reset waits for its mutex (`SelectedNavigation`, `SelectedLocal`) |
| `TagAcquisitionProofs`; `AcquisitionAssumption` (tables and boxes differ, at least one sample, a positive timeout) | `AcquisitionTypeCorrect`, `TargetSupported`, `UndockLeavesDock`, `AttemptsSeeNew` | A target is judged while a goal runs, but made by a timer that may have copied its profile for an earlier goal. `CopyIsCurrent`: a copy of this generation is this goal's profile, and a message taken passed its checks against the copy. `TrackerInv`: the samples ascend without a gap, lie behind the watermark, and while a goal runs are of its tag and activation. `DockedHasTag`; `FollowedInv`: what an attempt followed is no newer than the target, and older once a newer one is offered |
| `FineAlignmentProofs`, the worker; `FineAlignAssumption`, `InputsAssumption` (timeouts and retries are numbers) | `AlignmentTypeCorrect`, `AlignmentSettles`, `OneLateCommand` | The code's settling anchor is set by the first eligible pass and must never outlive the run it measures: `SettlingCovered` bounds it by the unbroken run. `LateIsLast`: after a command stored too late the motion still has to stop, and the worker is not between a poll and its command. `StopAgeIsTrue`: the age the code reads is that of the STOP in force, so a pass that its poll let through was not overdue. `AttemptRemains`: a delay is served only for an attempt that may be made |
| `FineAlignmentProofs`, the controller; `DockingAssumption` (positive tolerances, yaw stops and confirmations, hystereses not negative, any set of errors) | `MotionTypeCorrect`, `ForwardOnly`, `RestBeforeTurn`, `YawRests` | That the base rested is a fact of earlier calls. The heading commanded is the one remembered, which is the last one driven unless the base rests (`DirectionIsDriven`); a rest in spite of a wanted heading asks for reconfirmations (`DirectionIsWanted`); a rest began with an observation (`RestIsSeen`); no backward heading is remembered (`Forward`); a rotation follows its axis and the axis the error (`YawFollowed`); an axis at rest or a closed gate lacks a confirmation (`Confirmable`) |
| `UndockAndRotateActionsProofs`; `UndockAssumption` (timeouts are numbers, durations positive with a longest one), `InputsAssumption` | `ActionTypeCorrect`, `RetreatSettles`, `OneLateCommand`, `EarlierDeadline` | `SettlingCovered`, `LateIsLast` and `StopAgeIsTrue` as above; `PlaceOfKind`: which places of the thread belong to which of the three motions, as the deadlines and the poll differ |
| `OdinLocalizationAdapterProofs`; `AdapterAssumption` (positive timeouts and queue bound, a tolerance not negative) | `AdapterTypeCorrect`, `ReadyEarned`, `CorrectionsNeverGoBack` | `TypeOK`, which says that the queue ascends in stamps and receipts within the tolerance. `EvidenceInv`: a published sample was counted since the last reset, a twist has two; a correction in use is later than the last reset; no correction was ever newer than the watermark. The lemmas say what pruning, insertion and taking from an ascending queue leave |
| `LocalizationReadinessProofs`; `BridgeAssumption` (the kinds of command are disjoint, positive timeouts), `GateAssumption` of `StartupGate` (positive hold and timeout) | `BridgeTypeCorrect`, `RevokedNeverSubmitted`, `StartupTypeCorrect`, `StartupEarned` | `LiveMoveNotRevoked`: a movement that the watchdog would give out, and that readiness would let pass, is not revoked, at every instant and not only when it is sent. `HoldIsCovered`: while the heartbeat lives, the hold is no older than the time since the last break; once it is overdue the hold may be stale, and must be dropped before it counts. `ExitDecidedLast` |
| `PointCloudPathProofs`; `FilterAssumption`, `CloudsAssumption`, `LayerAssumption`, `ChainAssumption` (rejected points have no voxel, every limit, queue and chain is positive) | `PathTypeCorrect`, `SampledEvenly`, `InactiveLayerIsEmpty`, `ObservationsAscending` | `FilterInv`: the loop's index times the number of intervals, plus its error, is the number of samples visited times the span, so the division without rounding that the code avoids is exact for a cloud of any size; the voxels count the samples visited. `ThrottleInv`: what the timer works on is newer than what it published. `LayerShape`, `LineInv`: the observation made, the queue, the cloud in a callback and the chain ascend in the order of publication, which is what survives a loss, an overflow, a deactivation and a look at TF that fails for some clouds and not for others |

The theorems for `PointCloudPath` are about the composition; the filter, the throttle and the
layer have no theorems of their own because their invariants are conjuncts of its.

Only model-checked:

* Liveness: `GateConcludes`, `RobotStops`, `NewestIsPublished`, `QueueDrains`, `GoalEnds`
  (both modules) and `NoWaitingBand`. They rest on fairness, and `ENABLED` is out of TLAPS's
  reach.
* The two expected violations of section 6, which are counterexamples.

## 5. Not modelled

* Real arithmetic: geometry, filtering, velocities, transforms, covariance. Where a decision
  depends on it, the models choose the outcome freely, so every outcome is covered, including
  combinations the geometry excludes.
* The payload filter, the FAST-LIO adapter and the timing checks keep no state between
  messages (the payload filter: but for the last manipulation state heard, which selects
  whether the box's returns are dropped).
* `DockingMotion` leaves out speeds, which are clamped between positive limits and so never
  zero where a command is wanted, and errors that are not finite, which end the attempt.
* `PointCloudPath` has one source, as the configuration does; the sources of the layer share
  the mutex and nothing else. The observation buffer's persistence is Nav2's.
* Launch files and configuration: start-up wiring. A respawn of `fine_align_server` is a
  fresh `Init`; nothing is persisted.
* Logging, feedback messages and parameter validation.
* `bypass_collision_monitor`, which only removes the collision subscription: the behaviours
  without STOP messages are among those checked.

## 6. Disagreements between code and documentation

* `NavigationAborts` (run `fine_align_navigation`). `README.md:449` says that Nav2 activation
  aborts a fine-alignment goal immediately. `waitForMeasurement()` does return at once
  (`fine_align_server.cpp:575`), but `runAttempt()` asks again to name the reason (line 670);
  activity that ended in between is reported as `NO_STABLE_TAG`, which is retried, so the goal
  goes on.
* `AnyStopAborts` (run `timed_motion_stop`). `README.md:275` says that any collision STOP
  aborts a timed undocking, with no automatic resumption. The worker copies the collision
  state once per controller period (`fine_align_server.cpp:1052`) and the subscription does
  not latch it; a STOP shorter than a pass is not seen, and the motion resumes.

Two sentences about the docking motion are stronger than the code and are stated in the
properties with the condition that makes them true:

* `README.md:404`: "Reversals first stop the affected axis." With
  `motion_confirmation_samples` 1, which the server accepts, `ConfirmedAxis::update()`
  (`docking_tracking.hpp:127`) stops and restarts an axis in the same call;
  `YawRestsBeforeReversal` therefore excepts that setting. Translation still rests, because a
  reversal is also a large turn (`RestsBeforeLargeTurn`).
* `README.md:409`: "There is no stopped waiting band outside completion." The server accepts
  `translation_yaw_stop - yaw_hysteresis <= yaw_tolerance` (`fine_align_server.cpp:213` asks for a
  positive difference only); a yaw error between the two then neither rotates nor opens the
  translation gate. `NoWaitingBand` speaks of translation where the gate opens, and of travel to
  the back only where reversing is allowed.

## 7. Plan

1. *(done)* gate and permit, arbitration; acquisition; the three action workers; Odin adapter;
   bridge; startup gate; `DockingMotion`; `PointCloudVoxelFilter`, `LidarCloudThrottle`,
   `PointCloudObstacleLayer` and their composition `PointCloudPath`.
2. *(done)* theorems for every invariant and action property of the runs.
3. Abstract specifications of more components, with the refinement proved as for the permit:
   the bridge as a permit that readiness revokes too, the obstacle layer as a register of the
   newest observation.
4. Safety lemmas behind the liveness properties, for every value of the constants: the measure
   that each worker step of `GoalEnds` decreases, and that no wait is unbounded.
