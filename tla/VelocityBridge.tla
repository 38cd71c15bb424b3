--------------------------- MODULE VelocityBridge ---------------------------
(***************************************************************************)
(* Nav2ZmqVelocityBridge: the last program before the robot's controller.  *)
(* Its callbacks run one at a time: final commands and localization        *)
(* readiness arrive, and a timer submits the watchdog's command to a ZMQ   *)
(* publisher.  A callback reads the clock twice, once for the readiness    *)
(* gate and once for the watchdog, and time may pass in between.           *)
(*                                                                         *)
(* The clock is kept as ages, which stop growing one tick past the timeout *)
(* that looks at them.  The ZMQ socket (high-water mark 1) and RoboJuDo    *)
(* behind it are external: a message may be lost, and the newer one is     *)
(* lost while an older one waits.                                          *)
(***************************************************************************)
EXTENDS Integers

CONSTANTS
    Moves,              \* finite commands other than the all-zero Twist
    Zero,               \* the all-zero command
    NonFinite,          \* every Twist rejected by hasFiniteComponents
    CommandTimeout,     \* command_timeout_
    ReadinessTimeout    \* readiness_timeout_

Absent == -1
Nothing == "nothing"    \* no command at all

ASSUME BridgeAssumption ==
    /\ Zero \notin Moves /\ NonFinite \notin Moves \union {Zero}
    /\ Nothing \notin Moves \union {Zero, NonFinite}
    /\ CommandTimeout \in Nat \ {0} /\ ReadinessTimeout \in Nat \ {0}

VARIABLES
    require_localization_,
    watchdog_,      \* command_ and the age of received_at_
    gate_,          \* ready_ and the age of received_
    submitted,      \* what this step submitted to the socket, Nothing if it did not
    open,           \* the bridge runs
    wire,           \* the message the socket holds, or Nothing
    heard,          \* what RoboJuDo last received
    source,         \* the Collision Monitor still publishes /cmd_vel
    revoked         \* auxiliary: since the watchdog's command was received it was replaced
                    \*   by an invalid one, it aged out or readiness lapsed

environment_vars == <<wire, heard, source>>
vars == <<require_localization_, watchdog_, gate_, submitted, open, environment_vars, revoked>>

NoCommand == [command |-> Zero, age |-> Absent]

Init ==
    /\ require_localization_ \in BOOLEAN
    /\ watchdog_ = NoCommand
    /\ gate_ = [ready |-> FALSE, age |-> Absent]
    /\ submitted = Nothing
    /\ open = TRUE
    /\ wire = Nothing /\ heard = Zero
    /\ source = TRUE
    /\ revoked = TRUE

Older(age, elapsed, timeout) ==
    IF age = Absent THEN Absent ELSE IF age + elapsed > timeout THEN timeout + 1 ELSE age + elapsed

OlderCommand(watchdog, elapsed) ==
    [watchdog EXCEPT !.age = Older(@, elapsed, CommandTimeout)]
OlderReadiness(gate, elapsed) == [gate EXCEPT !.age = Older(@, elapsed, ReadinessTimeout)]

\* LocalizationGate::ready(), when readiness is required at all.
MayMove(gate) ==
    require_localization_ => gate.ready /\ gate.age \in 0..ReadinessTimeout

\* Variant: the watchdog's command does not age.
CommandAtUntimed(watchdog) == watchdog.command

\* VelocityCommandWatchdog::commandAt()
CommandAt(watchdog) ==
    IF watchdog.age \in 0..CommandTimeout THEN watchdog.command ELSE Zero

\* Variant: an invalid command is stored like any other.
UpdatedUnchecked(command) == [command |-> command, age |-> 0]

\* VelocityCommandWatchdog::update()
Updated(command) ==
    IF command = NonFinite THEN NoCommand ELSE [command |-> command, age |-> 0]

\* The auxiliary variable follows the clock and the messages, not the code's own resets.
Lapse(watchdog, gate) == ~MayMove(gate) \/ watchdog.age > CommandTimeout

-----------------------------------------------------------------------------
\* Variant: readiness that comes back late does not drop the command.
ReceiveReadinessLate(data) ==
    /\ open /\ require_localization_
    /\ watchdog_' = IF data THEN watchdog_ ELSE NoCommand
    /\ gate_' = [ready |-> data, age |-> 0]
    /\ revoked' = (revoked \/ ~data)
    /\ submitted' = Nothing
    /\ UNCHANGED <<require_localization_, open, environment_vars>>

\* The readiness subscription.
ReceiveReadiness(data) ==
    /\ open /\ require_localization_
    /\ watchdog_' = IF MayMove(gate_) /\ data THEN watchdog_ ELSE NoCommand
    /\ gate_' = [ready |-> data, age |-> 0]
    /\ revoked' = (revoked \/ ~data)
    /\ submitted' = Nothing
    /\ UNCHANGED <<require_localization_, open, environment_vars>>

\* commandCallback(); elapsed passes between its two readings of the clock.
ReceiveCommand(command, elapsed) ==
    /\ open /\ source
    /\ watchdog_' = IF MayMove(gate_) THEN Updated(command) ELSE NoCommand
    /\ gate_' = OlderReadiness(gate_, elapsed)
    /\ revoked' = (~MayMove(gate_) \/ command = NonFinite \/ ~MayMove(gate_'))
    /\ submitted' = Nothing
    /\ UNCHANGED <<require_localization_, open, environment_vars>>

\* publishCommand(), to a socket that accepts the message, loses it or refuses it.
Publish(elapsed) ==
    /\ open
    /\ gate_' = OlderReadiness(gate_, elapsed)
    /\ watchdog_' = IF MayMove(gate_) THEN OlderCommand(watchdog_, elapsed) ELSE NoCommand
    /\ revoked' = (revoked \/ Lapse(watchdog_', gate_'))
    /\ UNCHANGED <<require_localization_, open, heard, source>>

PublishArrives(elapsed) ==
    /\ Publish(elapsed)
    /\ wire = Nothing
    /\ wire' = CommandAt(watchdog_')
    /\ submitted' = CommandAt(watchdog_')

PublishLost(elapsed) ==
    /\ Publish(elapsed)
    /\ submitted' = CommandAt(watchdog_')
    /\ UNCHANGED wire

PublishFails(elapsed) ==
    /\ Publish(elapsed)
    /\ submitted' = Nothing
    /\ UNCHANGED wire

\* The destructor submits a zero and closes the socket, which does not linger: what it
\* holds may never leave it.
Shutdown ==
    /\ open
    /\ open' = FALSE
    /\ submitted' \in {Zero, Nothing}
    /\ \/ wire' \in {wire, Nothing}
       \/ wire = Nothing /\ submitted' = Zero /\ wire' = Zero
    /\ UNCHANGED <<require_localization_, watchdog_, gate_, heard, source, revoked>>

-----------------------------------------------------------------------------
(* The environment.                                                        *)

Deliver ==
    /\ wire # Nothing
    /\ heard' = wire /\ wire' = Nothing
    /\ submitted' = Nothing
    /\ UNCHANGED <<require_localization_, watchdog_, gate_, open, source, revoked>>

SourceStops ==
    /\ source /\ source' = FALSE
    /\ submitted' = Nothing
    /\ UNCHANGED <<require_localization_, watchdog_, gate_, open, wire, heard, revoked>>

Tick ==
    /\ watchdog_' = OlderCommand(watchdog_, 1)
    /\ gate_' = OlderReadiness(gate_, 1)
    /\ revoked' = (revoked \/ Lapse(watchdog_', gate_'))
    /\ submitted' = Nothing
    /\ UNCHANGED <<require_localization_, open, environment_vars>>

Next ==
    \/ \E data \in BOOLEAN : ReceiveReadiness(data)
    \/ \E elapsed \in 0..1 :
           \/ \E command \in Moves \union {Zero, NonFinite} : ReceiveCommand(command, elapsed)
           \/ PublishArrives(elapsed) \/ PublishLost(elapsed) \/ PublishFails(elapsed)
    \/ Shutdown
    \/ Deliver
    \/ SourceStops
    \/ Tick

\* The timer runs, the clock advances, and the transport neither fails for ever nor keeps a
\* message for ever.
Fairness ==
    /\ SF_vars(\E elapsed \in 0..1 : PublishArrives(elapsed))
    /\ WF_vars(Deliver)
    /\ WF_vars(Tick)

Spec == Init /\ [][Next]_vars /\ Fairness

(***************************************************************************)
(* Properties                                                              *)
(***************************************************************************)

\* Shape of the state: what the watchdog holds and what leaves the bridge is always finite,
\* and there is no command without a receipt.
TypeOK ==
    /\ require_localization_ \in BOOLEAN
    /\ watchdog_ \in [command : Moves \union {Zero}, age : -1..CommandTimeout + 1]
    /\ watchdog_.age = Absent => watchdog_ = NoCommand
    /\ gate_ \in [ready : BOOLEAN, age : -1..ReadinessTimeout + 1]
    /\ submitted \in Moves \union {Zero, Nothing}
    /\ open \in BOOLEAN /\ source \in BOOLEAN /\ revoked \in BOOLEAN
    /\ wire \in Moves \union {Zero, Nothing}
    /\ heard \in Moves \union {Zero}

\* A movement is submitted only if, since it was received, no invalid command came, it did
\* not age out and readiness never lapsed: not even for a moment that no callback saw, and
\* that a later message covered up (docs/odin_localization.md, "Recovery requires a newly
\* received command").
NothingRevokedIsSubmitted ==
    [][submitted' \in Moves => ~revoked /\ watchdog_'.age <= CommandTimeout]_vars

\* When /cmd_vel falls silent the robot comes to rest and stays so, in spite of lost and
\* refused messages; unless the bridge itself ends, whose last zero may not leave the socket.
RobotStops ==
    <>(~source) => <>[](heard = Zero \/ ~open)
=============================================================================
