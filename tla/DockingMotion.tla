---------------------------- MODULE DockingMotion ----------------------------
(***************************************************************************)
(* DockingMotionController: the velocity of a docking pass from the        *)
(* relative error, for one attempt.  Three axes start only when confirmed  *)
(* by several observations and stop inside the completion tolerance, yaw   *)
(* opens and closes translation with a hysteresis of its own, and the      *)
(* direction of translation turns at a bounded rate or stops.              *)
(*                                                                         *)
(* Errors are whole numbers.  A translation command is its direction only, *)
(* one of 8 headings of 45 degrees counted from straight ahead, and a      *)
(* rotation its sign: the speeds are clamped between positive limits.  The *)
(* time between two passes is any, so a pass may turn the direction by any *)
(* part of what is wanted.                                                 *)
(***************************************************************************)
EXTENDS Integers

CONSTANTS
    Errors,                 \* the relative errors that can be observed
    PositionTolerance,      \* x_position_tolerance and y_position_tolerance
    PositionHysteresis,     \* position_hysteresis
    YawTolerance,           \* yaw_tolerance
    YawHysteresis,          \* yaw_hysteresis
    YawStops,               \* values of translation_yaw_stop
    Confirmations           \* values of motion_confirmation_samples

ASSUME DockingAssumption ==
    /\ Errors \subseteq [x : Int, y : Int, yaw : Int]
    /\ PositionTolerance \in Nat \ {0} /\ YawTolerance \in Nat \ {0}
    /\ PositionHysteresis \in Nat /\ YawHysteresis \in Nat
    /\ YawStops \subseteq Nat \ {0} /\ Confirmations \subseteq Nat \ {0}

VARIABLES
    config,         \* the parameters, fixed for the controller's life
    error,          \* the relative error last observed
    sequence,       \* the number of that observation, modulo 2: it is compared with the last
                    \*   one only
    x_, y_, yaw_,   \* the confirmed axes
    translation_,   \* translation_enabled_ and translation_confirmations_
    direction_, direction_reconfirmations_,
    command,        \* the velocity returned by the last pass
    driven, seen_at_rest    \* auxiliary: the last heading driven, and the observations
                            \*   received since (at most 2)

motion_vars == <<config, error, sequence, x_, y_, yaw_, translation_, direction_,
                 direction_reconfirmations_, command, driven, seen_at_rest>>

None == -1      \* no heading
Abs(n) == IF n < 0 THEN -n ELSE n
Sign(n) == IF n < 0 THEN -1 ELSE IF n = 0 THEN 0 ELSE 1

\* The headings: the four axes are even, all directions strictly between two axes are the
\* odd heading between them.
Headings == 0..7
Heading(x, y) == IF y = 0 THEN 2 - 2 * x ELSE ((2 - x) * y) % 8

\* wrapAngle(to - from).
Turn(from, to) == ((to - from + 3) % 8) - 3
Odd(heading) == heading % 2 = 1

\* Whether a turn may be larger than 90 degrees, and whether it may not: from between two
\* axes to between the next two it may be either.
MayBeLarge(from, to) ==
    Abs(Turn(from, to)) > 2 \/ (Abs(Turn(from, to)) = 2 /\ Odd(from))
MayBeSmall(from, to) == Abs(Turn(from, to)) <= 2

\* The headings from one to another, along the turn.
Between(from, to) ==
    LET along(part) == part * Turn(from, to) >= 0 /\ Abs(part) <= Abs(Turn(from, to))
    IN  {(from + part) % 8 : part \in {p \in -2..2 : along(p)}}

\* What the server accepts at startup: the hysteresis leaves room below the yaw stop.
Configurations ==
    {c \in [allow_reverse_x : BOOLEAN, confirmation_samples : Confirmations,
            translation_yaw_stop : YawStops] : YawHysteresis < c.translation_yaw_stop}

\* |error| > dockingStopTolerance(tolerance, hysteresis), both sides doubled.
BeyondStop(e, tolerance, hysteresis) ==
    /\ Abs(e) > tolerance - hysteresis
    /\ 2 * Abs(e) > tolerance

\* The error in x that is followed.
Ahead(e) == IF config.allow_reverse_x \/ e.x > 0 THEN e.x ELSE 0

Resting == [active |-> 0, pending |-> 0, count |-> 0]

MotionInit ==
    /\ config \in Configurations
    /\ error = [x |-> 0, y |-> 0, yaw |-> 0]    \* not used before the first observation
    /\ sequence = 0
    /\ x_ = Resting /\ y_ = Resting /\ yaw_ = Resting
    /\ translation_ = [enabled |-> FALSE, confirmations |-> 0]
    /\ direction_ = None /\ direction_reconfirmations_ = 0
    /\ command = [heading |-> None, yaw |-> 0]
    /\ driven = None /\ seen_at_rest = 2

-----------------------------------------------------------------------------
(* What a new observation changes.                                         *)

\* An axis that is asked for a direction: an active one goes on; any other, one that has to
\* reverse included, stops until enough observations in a row ask for it.
Asked(axis, requested, count, inside) ==
    CASE requested = 0 -> Resting
      [] requested # 0 /\ requested = axis.active -> axis
      [] requested # 0 /\ requested # axis.active ->
             IF inside THEN Resting
             ELSE [active |-> IF count >= config.confirmation_samples THEN requested ELSE 0,
                   pending |-> requested, count |-> count]

Repeated(axis, requested) == IF requested = axis.pending THEN axis.count + 1 ELSE 1

\* Variant: an axis is started only when it is a hysteresis outside of the completion
\* tolerance, and stopped at the tolerance.
UpdatedOutside(axis, e, tolerance, hysteresis) ==
    LET requested == IF Abs(e) > tolerance THEN Sign(e) ELSE 0
    IN  Asked(axis, requested, Repeated(axis, requested), Abs(e) <= tolerance + hysteresis)

\* Variant: a reversal counts the observations that started the axis.
UpdatedCountingOn(axis, e, tolerance, hysteresis) ==
    LET requested == IF BeyondStop(e, tolerance, hysteresis) THEN Sign(e) ELSE 0
    IN  Asked(axis, requested, axis.count + 1, Abs(e) <= tolerance)

\* ConfirmedAxis::update(): started outside the completion tolerance, stopped inside the
\* stop tolerance.
Updated(axis, e, tolerance, hysteresis) ==
    LET requested == IF BeyondStop(e, tolerance, hysteresis) THEN Sign(e) ELSE 0
    IN  Asked(axis, requested, Repeated(axis, requested), Abs(e) <= tolerance)

UpdatedTranslation(yaw) ==
    LET count == translation_.confirmations + 1
    IN  CASE Abs(yaw) >= config.translation_yaw_stop -> [enabled |-> FALSE, confirmations |-> 0]
          [] Abs(yaw) < config.translation_yaw_stop /\ translation_.enabled -> translation_
          [] Abs(yaw) < config.translation_yaw_stop /\ ~translation_.enabled ->
                 IF Abs(yaw) < config.translation_yaw_stop - YawHysteresis
                 THEN [enabled |-> count >= config.confirmation_samples, confirmations |-> count]
                 ELSE [enabled |-> FALSE, confirmations |-> 0]

-----------------------------------------------------------------------------
(* What every pass does.                                                   *)

\* Of an active axis, the component that holonomicFineAlignCommand() follows.
Selected(axis, e) ==
    IF axis.active # 0 /\ BeyondStop(e, PositionTolerance, PositionHysteresis) THEN e ELSE 0

Wanted(e, x_axis, y_axis, translation) ==
    LET x == Selected(x_axis, Ahead(e))
        y == Selected(y_axis, e.y)
    IN  IF /\ translation.enabled /\ Abs(e.yaw) < config.translation_yaw_stop
           /\ x # 0 \/ y # 0
        THEN Heading(Sign(x), Sign(y)) ELSE None

Stop(reconfirmations, direction) ==
    [heading |-> None, direction |-> direction, reconfirmations |-> reconfirmations]
Drive(heading) == [heading |-> heading, direction |-> heading, reconfirmations |-> 0]

\* Following the direction wanted: freely from none, otherwise by any part of a turn of at
\* most 90 degrees, a larger one being a stop that asks for reconfirmations.  A turn that was
\* small enough at the observation only gets smaller before the next one.
Followed(wanted, new_observation, reconfirmations) ==
    IF direction_ = None THEN {Drive(wanted)}
    ELSE (IF new_observation /\ MayBeLarge(direction_, wanted)
          THEN {Stop(reconfirmations, None)} ELSE {})
         \union (IF MayBeSmall(direction_, wanted)
                 THEN {Drive(h) : h \in Between(direction_, wanted)} ELSE {})

\* Variant: a large turn is swept like any other.
SteeredThrough(wanted, new_observation) ==
    CASE wanted = None -> {Stop(0, None)}
      [] wanted # None /\ direction_ = None -> {Drive(wanted)}
      [] wanted # None /\ direction_ # None -> {Drive(h) : h \in Between(direction_, wanted)}

\* Variant: the pass after a stop for a large turn goes on, new observation or not.
SteeredUnconfirmed(wanted, new_observation) ==
    IF wanted = None THEN {Stop(0, None)} ELSE Followed(wanted, new_observation, 0)

\* With nothing to translate the direction is forgotten; after a stop for a large turn the
\* base stays stopped until enough new observations came.
Steered(wanted, new_observation) ==
    LET observed == direction_reconfirmations_ + (IF new_observation THEN 1 ELSE 0)
        waiting == /\ direction_reconfirmations_ > 0
                   /\ ~new_observation \/ observed <= config.confirmation_samples
    IN  CASE wanted = None -> {Stop(0, None)}
          [] wanted # None /\ waiting -> {Stop(observed, direction_)}
          [] wanted # None /\ ~waiting -> Followed(wanted, new_observation, 1)

Rotation(e, axis) ==
    IF axis.active # 0 /\ BeyondStop(e.yaw, YawTolerance, YawHysteresis) THEN Sign(e.yaw) ELSE 0

Pass(new_observation) ==
    \E wanted \in {Wanted(error', x_', y_', translation_')} :
    \E steered \in Steered(wanted, new_observation) :
        /\ direction_' = steered.direction
        /\ direction_reconfirmations_' = steered.reconfirmations
        /\ command' = [heading |-> steered.heading, yaw |-> Rotation(error', yaw_')]
        /\ driven' = IF steered.heading = None THEN driven ELSE steered.heading
        /\ LET before == IF command.heading = None THEN seen_at_rest ELSE 0
           IN  seen_at_rest' = IF new_observation /\ before < 2 THEN before + 1 ELSE before
        /\ UNCHANGED config

\* A pass with a new observation.  Fine alignment gives up outside its capture envelope,
\* which ends one tolerance behind the target when it must not reverse.
Observe ==
    /\ error' \in Errors /\ sequence' = 1 - sequence
    /\ config.allow_reverse_x \/ error'.x >= -PositionTolerance
    /\ x_' = Updated(x_, Ahead(error'), PositionTolerance, PositionHysteresis)
    /\ y_' = Updated(y_, error'.y, PositionTolerance, PositionHysteresis)
    /\ yaw_' = Updated(yaw_, error'.yaw, YawTolerance, YawHysteresis)
    /\ translation_' = UpdatedTranslation(error'.yaw)
    /\ Pass(TRUE)

\* A pass before the next observation: the error is the same.
Repeat ==
    /\ UNCHANGED <<error, sequence, x_, y_, yaw_, translation_>>
    /\ Pass(FALSE)

MotionNext == Observe \/ Repeat

\* Detections keep arriving; when they do not, the attempt ends.
MotionSpec == MotionInit /\ [][MotionNext]_motion_vars /\ WF_motion_vars(Observe)

(***************************************************************************)
(* Properties                                                              *)
(***************************************************************************)

Axis == [active : -1..1, pending : -1..1, count : Nat]

\* An active axis has its confirmations.
AxisOK(axis) ==
    /\ axis \in Axis
    /\ axis.count <= config.confirmation_samples
    /\ axis.active # 0 => axis.pending = axis.active /\ axis.count = config.confirmation_samples

\* Shape of the state: a confirmed axis has its confirmations, no counter passes them, and
\* no direction is remembered during a stop for a turn.
MotionTypeOK ==
    /\ config \in Configurations
    /\ error \in Errors \union {[x |-> 0, y |-> 0, yaw |-> 0]}
    /\ sequence \in 0..1
    /\ AxisOK(x_) /\ AxisOK(y_) /\ AxisOK(yaw_)
    /\ translation_ \in [enabled : BOOLEAN, confirmations : Nat]
    /\ translation_.confirmations <= config.confirmation_samples
    /\ direction_ \in Headings \union {None} /\ driven \in Headings \union {None}
    /\ direction_reconfirmations_ \in 0..config.confirmation_samples
    /\ direction_reconfirmations_ > 0 => direction_ = None
    /\ command \in [heading : Headings \union {None}, yaw : -1..1]
    /\ seen_at_rest \in 0..2

\* A docking that must not reverse is never driven backwards, whatever the direction was
\* when the wanted one changed: the rate limit turns through the front only.
NeverReverses ==
    command.heading # None /\ ~config.allow_reverse_x => command.heading \notin 3..5

\* Between two headings more than 90 degrees apart the base comes to rest and is observed
\* again: whichever of the axes, the yaw gate or the reversal stop interrupted the motion
\* (README.md, "Large heading changes stop translation before selecting the new direction").
RestsBeforeLargeTurn ==
    [][command'.heading # None /\ driven # None /\ Abs(Turn(driven, command'.heading)) > 2
           => seen_at_rest' >= 2]_motion_vars

\* A rotation is reversed only through a command without rotation, if more than one
\* confirmation is asked for: with a single one, ConfirmedAxis stops and restarts at once.
YawRestsBeforeReversal ==
    [][command.yaw * command'.yaw = -1 => config.confirmation_samples = 1]_motion_vars

\* The translation gate opens at this yaw, whatever it did before.
GateOpens == Abs(error.yaw) < config.translation_yaw_stop - YawHysteresis

Translates == []<>(command.heading # None)
Rotates == []<>(command.yaw # 0)

\* There is no waiting band outside completion: while the observations stay outside the
\* tolerance on one side of an axis, either side, the base is told to move again and again;
\* translation needs the yaw to stay where the gate opens, and to the back it needs a docking
\* that may reverse (README.md, "There is no stopped waiting band").
NoWaitingBand ==
    /\ <>[](error.x > PositionTolerance /\ GateOpens) => Translates
    /\ <>[](error.x < -PositionTolerance /\ GateOpens /\ config.allow_reverse_x) => Translates
    /\ <>[](error.y > PositionTolerance /\ GateOpens) => Translates
    /\ <>[](error.y < -PositionTolerance /\ GateOpens) => Translates
    /\ <>[](error.yaw > YawTolerance) => Rotates
    /\ <>[](error.yaw < -YawTolerance) => Rotates
=============================================================================
