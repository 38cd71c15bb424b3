-------------------- MODULE LocalizationReadinessProofs ---------------------
(***************************************************************************)
(* The safety of the two consumers of localization_ready: the velocity     *)
(* bridge, for every set of commands, both timeouts and every interleaving *)
(* of messages, clock and timer; and the startup gate, for every hold      *)
(* time, every heartbeat timeout and every order of heartbeats, timer      *)
(* ticks and clock ticks.                                                  *)
(***************************************************************************)
EXTENDS VelocityBridge, StartupGate, TLAPS

-----------------------------------------------------------------------------
(* The velocity bridge: the values its state ranges over.                  *)

Commands == Moves \union {Zero}
CommandAges == -1..CommandTimeout + 1
ReadinessAges == -1..ReadinessTimeout + 1
Watchdogs == [command : Commands, age : CommandAges]
Gates == [ready : BOOLEAN, age : ReadinessAges]

-----------------------------------------------------------------------------
(* The operators.                                                          *)

\* An age grows up to one tick past its timeout, stays absent if it was, and has passed the
\* timeout afterwards if it had before.
LEMMA OlderAge ==
  ASSUME NEW timeout \in Nat \ {0}, NEW age \in -1..timeout + 1, NEW elapsed \in 0..1
  PROVE  /\ Older(age, elapsed, timeout) \in -1..timeout + 1
         /\ Older(age, elapsed, timeout) = Absent <=> age = Absent
         /\ age # Absent => Older(age, elapsed, timeout) >= age
  BY DEF Older, Absent

\* A watchdog that ages keeps its command and its shape.
LEMMA OlderWatchdog ==
  ASSUME NEW w \in Watchdogs, NEW elapsed \in 0..1, w.age = Absent => w = NoCommand
  PROVE  /\ OlderCommand(w, elapsed) \in Watchdogs
         /\ OlderCommand(w, elapsed).command = w.command
         /\ OlderCommand(w, elapsed).age = Absent => OlderCommand(w, elapsed) = NoCommand
         /\ OlderCommand(w, elapsed).age = Absent <=> w.age = Absent
         /\ w.age # Absent => OlderCommand(w, elapsed).age >= w.age
<1> DEFINE age == Older(w.age, elapsed, CommandTimeout)
<1>1. /\ age \in CommandAges
      /\ age = Absent <=> w.age = Absent
      /\ w.age # Absent => age >= w.age
  <2>1. w.age \in -1..CommandTimeout + 1
    BY DEF Watchdogs, CommandAges
  <2>2. QED
    BY <2>1, OlderAge, BridgeAssumption DEF CommandAges
<1>2. OlderCommand(w, elapsed) = [w EXCEPT !.age = age]
  BY DEF OlderCommand
<1>3. /\ OlderCommand(w, elapsed) \in Watchdogs
      /\ OlderCommand(w, elapsed).command = w.command
      /\ OlderCommand(w, elapsed).age = age
  BY <1>1, <1>2 DEF Watchdogs
<1>4. w.age = Absent => OlderCommand(w, elapsed) = w
  BY <1>1, <1>2 DEF Watchdogs
<1>5. QED
  BY <1>1, <1>3, <1>4

\* A gate that ages keeps its verdict, and does not open by itself.
LEMMA OlderGate ==
  ASSUME NEW g \in Gates, NEW elapsed \in 0..1
  PROVE  /\ OlderReadiness(g, elapsed) \in Gates
         /\ MayMove(OlderReadiness(g, elapsed)) => MayMove(g)
<1> DEFINE age == Older(g.age, elapsed, ReadinessTimeout)
<1>1. /\ age \in ReadinessAges
      /\ age = Absent <=> g.age = Absent
      /\ g.age # Absent => age >= g.age
  <2>1. g.age \in -1..ReadinessTimeout + 1
    BY DEF Gates, ReadinessAges
  <2>2. QED
    BY <2>1, OlderAge, BridgeAssumption DEF ReadinessAges
<1>2. /\ OlderReadiness(g, elapsed) \in Gates
      /\ OlderReadiness(g, elapsed).ready = g.ready
      /\ OlderReadiness(g, elapsed).age = age
  BY <1>1 DEF OlderReadiness, Gates
<1>3. g.age \in ReadinessAges
  BY DEF Gates
<1>4. QED
  BY <1>1, <1>2, <1>3, BridgeAssumption DEF MayMove, Absent, ReadinessAges

\* What the watchdog gives out, and what it makes of a message, is finite.
LEMMA FiniteCommands ==
  ASSUME NEW w \in Watchdogs
  PROVE  /\ CommandAt(w) \in Commands
         /\ CommandAt(w) \in Moves =>
               /\ w.command \in Moves
               /\ w.age \in 0..CommandTimeout
  BY BridgeAssumption DEF CommandAt, Watchdogs, Commands

\* A cleared watchdog is a watchdog at rest.
LEMMA NoCommandOK == NoCommand \in Watchdogs /\ NoCommand.command = Zero
  BY BridgeAssumption DEF NoCommand, Watchdogs, Commands, CommandAges, Absent

\* A message leaves the watchdog with a finite command or cleared.
LEMMA UpdatedWatchdog ==
  ASSUME NEW c \in Moves \union {Zero, NonFinite}
  PROVE  /\ Updated(c) \in Watchdogs
         /\ Updated(c).age = Absent => Updated(c) = NoCommand
         /\ c = NonFinite => Updated(c) = NoCommand
  BY BridgeAssumption DEF Updated, NoCommand, Watchdogs, Commands, CommandAges, Absent

-----------------------------------------------------------------------------
(* The inductive invariant.                                                *)

\* What makes the next submission safe: a movement that the watchdog would give out, and
\* that readiness would let pass, is not revoked.  The code's own resets have to be as quick
\* as the clock for that.
LiveMoveNotRevoked ==
    /\ watchdog_.command \in Moves
    /\ watchdog_.age \in 0..CommandTimeout
    /\ MayMove(gate_)
    => ~revoked

IInv == TypeOK /\ LiveMoveNotRevoked

\* The type invariant, with the records named.
LEMMA Types ==
  TypeOK <=>
    /\ require_localization_ \in BOOLEAN
    /\ watchdog_ \in Watchdogs
    /\ watchdog_.age = Absent => watchdog_ = NoCommand
    /\ gate_ \in Gates
    /\ submitted \in Commands \union {Nothing}
    /\ open \in BOOLEAN /\ source \in BOOLEAN /\ revoked \in BOOLEAN
    /\ wire \in Commands \union {Nothing}
    /\ heard \in Commands
  BY DEF TypeOK, Watchdogs, Gates, Commands, CommandAges, ReadinessAges

\* Neither time nor a callback that only waits makes a lapsed movement live again.
LEMMA AgedStaysRevoked ==
  ASSUME TypeOK, LiveMoveNotRevoked, NEW elapsed \in 0..1,
         watchdog_' = OlderCommand(watchdog_, elapsed),
         gate_' = OlderReadiness(gate_, elapsed),
         revoked' = (revoked \/ Lapse(watchdog_', gate_')),
         UNCHANGED require_localization_
  PROVE  LiveMoveNotRevoked'
<1> SUFFICES ASSUME watchdog_'.command \in Moves,
                    watchdog_'.age \in 0..CommandTimeout,
                    MayMove(gate_)'
             PROVE  revoked' = FALSE
  BY DEF LiveMoveNotRevoked
<1>1. watchdog_ \in Watchdogs /\ gate_ \in Gates /\ revoked \in BOOLEAN
  BY Types
<1>2. watchdog_.age \in CommandAges
  BY <1>1 DEF Watchdogs
<1>3. /\ watchdog_'.command = watchdog_.command
      /\ watchdog_'.age = Absent <=> watchdog_.age = Absent
      /\ watchdog_.age # Absent => watchdog_'.age >= watchdog_.age
  BY <1>1, Types, OlderWatchdog
<1>4. watchdog_.age \in 0..CommandTimeout
  BY <1>2, <1>3, BridgeAssumption DEF CommandAges, Absent
<1>5. MayMove(gate_')
  BY DEF MayMove
<1>6. MayMove(gate_)
  BY <1>1, <1>5, OlderGate
<1>7. revoked = FALSE
  BY <1>1, <1>3, <1>4, <1>6 DEF LiveMoveNotRevoked
<1>8. ~Lapse(watchdog_', gate_')
  BY <1>5, BridgeAssumption DEF Lapse
<1>9. QED
  BY <1>7, <1>8

\* A message leaves the watchdog with its command or with none, and the gate with its age.
LEMMA CommandReceived ==
  ASSUME TypeOK, NEW c \in Moves \union {Zero, NonFinite}, NEW elapsed \in 0..1,
         ReceiveCommand(c, elapsed)
  PROVE  TypeOK' /\ LiveMoveNotRevoked'
<1>1. watchdog_ \in Watchdogs /\ gate_ \in Gates
  BY Types
<1>2. watchdog_' \in Watchdogs /\ (watchdog_'.age = Absent => watchdog_' = NoCommand)
  BY UpdatedWatchdog, NoCommandOK DEF ReceiveCommand
<1>3. gate_' \in Gates
  BY <1>1, OlderGate DEF ReceiveCommand
<1>4. TypeOK'
  BY <1>2, <1>3, Types DEF ReceiveCommand, environment_vars, TypeOK, Watchdogs, Gates,
     Commands, CommandAges, ReadinessAges
<1>5. LiveMoveNotRevoked'
  <2> SUFFICES ASSUME watchdog_'.command \in Moves, MayMove(gate_)'
               PROVE  revoked' = FALSE
    BY DEF LiveMoveNotRevoked
  <2>1. MayMove(gate_')
    BY DEF MayMove, ReceiveCommand
  <2>2. watchdog_' # NoCommand
    BY NoCommandOK, BridgeAssumption
  <2>3. MayMove(gate_) /\ c # NonFinite
    BY <2>2, UpdatedWatchdog DEF ReceiveCommand
  <2>4. QED
    BY <2>1, <2>3 DEF ReceiveCommand
<1>6. QED
  BY <1>4, <1>5

\* The timer ages the gate before it looks, and drops the command when readiness is gone.
LEMMA Published ==
  ASSUME IInv, NEW elapsed \in 0..1, Publish(elapsed),
         wire' \in {wire, CommandAt(watchdog_')},
         submitted' \in {Nothing, CommandAt(watchdog_')}
  PROVE  IInv'
<1> USE DEF IInv
<1>1. watchdog_ \in Watchdogs /\ gate_ \in Gates /\ revoked \in BOOLEAN
  BY Types
<1>2. watchdog_' \in Watchdogs /\ (watchdog_'.age = Absent => watchdog_' = NoCommand)
  BY <1>1, Types, OlderWatchdog, NoCommandOK DEF Publish
<1>3. gate_' \in Gates
  BY <1>1, OlderGate DEF Publish
<1>4. CommandAt(watchdog_') \in Commands
  BY <1>2, FiniteCommands
<1>5. revoked' \in BOOLEAN
  BY DEF Publish
<1>6. TypeOK'
  BY <1>2, <1>3, <1>4, <1>5, Types DEF Publish, TypeOK, Watchdogs, Gates,
     Commands, CommandAges, ReadinessAges
<1>7. LiveMoveNotRevoked'
  <2>1. CASE watchdog_' = NoCommand
    BY <2>1, NoCommandOK, BridgeAssumption DEF LiveMoveNotRevoked
  <2>2. CASE watchdog_' = OlderCommand(watchdog_, elapsed)
    BY <2>2, AgedStaysRevoked DEF Publish
  <2>3. QED
    BY <2>1, <2>2 DEF Publish
<1>8. QED
  BY <1>6, <1>7

\* Nothing moves at the start.
LEMMA InitIInv == Init => IInv
<1> SUFFICES ASSUME Init PROVE IInv
  OBVIOUS
<1>1. TypeOK
  BY NoCommandOK, Types, BridgeAssumption DEF Init, Gates, ReadinessAges, Commands, Absent
<1>2. LiveMoveNotRevoked
  BY NoCommandOK, BridgeAssumption DEF Init, LiveMoveNotRevoked
<1>3. QED
  BY <1>1, <1>2 DEF IInv

\* Every callback, the destructor, the transport and the clock keep the invariant.
LEMMA NextIInv == IInv /\ [Next]_vars => IInv'
<1> SUFFICES ASSUME IInv, [Next]_vars PROVE IInv'
  OBVIOUS
<1> USE DEF IInv, environment_vars
<1>1. ASSUME NEW data \in BOOLEAN, ReceiveReadiness(data) PROVE IInv'
  <2>1. watchdog_' \in {watchdog_, NoCommand}
    BY <1>1 DEF ReceiveReadiness
  <2>2. TypeOK'
    BY <1>1, <2>1, NoCommandOK, BridgeAssumption DEF ReceiveReadiness, TypeOK, Watchdogs,
       Commands, CommandAges
  <2>3. LiveMoveNotRevoked'
    <3>1. CASE watchdog_' = NoCommand
      BY <3>1, NoCommandOK, BridgeAssumption DEF LiveMoveNotRevoked
    <3>2. CASE MayMove(gate_) /\ data
      BY <1>1, <3>2 DEF LiveMoveNotRevoked, ReceiveReadiness
    <3>3. QED
      BY <1>1, <3>1, <3>2 DEF ReceiveReadiness
  <2>4. QED
    BY <2>2, <2>3
<1>2. ASSUME NEW elapsed \in 0..1, NEW c \in Moves \union {Zero, NonFinite},
             ReceiveCommand(c, elapsed)
      PROVE  IInv'
  BY <1>2, CommandReceived
<1>3. ASSUME NEW elapsed \in 0..1, PublishArrives(elapsed) PROVE IInv'
  BY <1>3, Published DEF PublishArrives
<1>4. ASSUME NEW elapsed \in 0..1, PublishLost(elapsed) PROVE IInv'
  BY <1>4, Published DEF PublishLost
<1>5. ASSUME NEW elapsed \in 0..1, PublishFails(elapsed) PROVE IInv'
  BY <1>5, Published DEF PublishFails
<1>6. CASE Shutdown
  <2>1. TypeOK'
    BY <1>6 DEF Shutdown, TypeOK
  <2>2. LiveMoveNotRevoked'
    BY <1>6 DEF Shutdown, LiveMoveNotRevoked, MayMove
  <2>3. QED
    BY <2>1, <2>2
<1>7. CASE Deliver
  <2>1. TypeOK'
    BY <1>7 DEF Deliver, TypeOK
  <2>2. LiveMoveNotRevoked'
    BY <1>7 DEF Deliver, LiveMoveNotRevoked, MayMove
  <2>3. QED
    BY <2>1, <2>2
<1>8. CASE SourceStops
  <2>1. TypeOK'
    BY <1>8 DEF SourceStops, TypeOK
  <2>2. LiveMoveNotRevoked'
    BY <1>8 DEF SourceStops, LiveMoveNotRevoked, MayMove
  <2>3. QED
    BY <2>1, <2>2
<1>9. CASE Tick
  <2>1. watchdog_' \in Watchdogs /\ (watchdog_'.age = Absent => watchdog_' = NoCommand)
    BY <1>9, Types, OlderWatchdog DEF Tick
  <2>2. gate_' \in Gates
    BY <1>9, Types, OlderGate DEF Tick
  <2>3. TypeOK'
    BY <1>9, <2>1, <2>2 DEF Tick, TypeOK, Watchdogs, Gates, Commands, CommandAges, ReadinessAges
  <2>4. LiveMoveNotRevoked'
    BY <1>9, AgedStaysRevoked DEF Tick
  <2>5. QED
    BY <2>3, <2>4
<1>10. CASE UNCHANGED vars
  <2>1. TypeOK'
    BY <1>10 DEF vars, TypeOK
  <2>2. LiveMoveNotRevoked'
    BY <1>10 DEF vars, LiveMoveNotRevoked, MayMove
  <2>3. QED
    BY <2>1, <2>2
<1>11. QED
  BY <1>1, <1>2, <1>3, <1>4, <1>5, <1>6, <1>7, <1>8, <1>9, <1>10 DEF Next

-----------------------------------------------------------------------------
(* The theorems.                                                           *)

\* What the watchdog holds, what the socket holds and what reached RoboJuDo is always a
\* finite command, and the watchdog has no command without a receipt.
THEOREM BridgeTypeCorrect == Spec => []TypeOK
<1>1. IInv => TypeOK
  BY DEF IInv
<1>2. QED
  BY <1>1, InitIInv, NextIInv, PTL DEF Spec

\* A step that submits a movement finds it live by readiness as read
\* first and by the command's age as read last.
LEMMA SubmittedIsLive ==
  ASSUME IInv, Next, submitted' \in Moves
  PROVE  ~revoked /\ watchdog_'.age <= CommandTimeout
<1> USE DEF IInv
<1>1. PICK elapsed \in 0..1 : Publish(elapsed) /\ submitted' = CommandAt(watchdog_')
  BY BridgeAssumption DEF Next, vars, ReceiveReadiness, ReceiveCommand, PublishArrives,
     PublishLost, PublishFails, Shutdown, Deliver, SourceStops, Tick
<1>2. watchdog_ \in Watchdogs /\ gate_ \in Gates
  BY Types
<1>3. watchdog_' \in Watchdogs
  BY <1>1, <1>2, Types, OlderWatchdog, NoCommandOK DEF Publish
<1>4. watchdog_'.command \in Moves /\ watchdog_'.age \in 0..CommandTimeout
  BY <1>1, <1>3, FiniteCommands
<1>5. MayMove(gate_) /\ watchdog_' = OlderCommand(watchdog_, elapsed)
  BY <1>1, <1>4, NoCommandOK, BridgeAssumption DEF Publish
<1>6. watchdog_.command \in Moves /\ watchdog_.age \in 0..CommandTimeout
  <2>1. watchdog_.age \in CommandAges
    BY <1>2 DEF Watchdogs
  <2>2. QED
    BY <2>1, <1>2, <1>4, <1>5, Types, OlderWatchdog, BridgeAssumption DEF CommandAges, Absent
<1>7. QED
  BY <1>4, <1>5, <1>6, BridgeAssumption DEF LiveMoveNotRevoked

\* No movement leaves the bridge once it was revoked, whatever came in between and however
\* much time passed between the two readings of the clock.
THEOREM RevokedNeverSubmitted == Spec => NothingRevokedIsSubmitted
<1>1. IInv /\ [Next]_vars =>
        [submitted' \in Moves => ~revoked /\ watchdog_'.age <= CommandTimeout]_vars
  BY SubmittedIsLive
<1>2. QED
  BY <1>1, InitIInv, NextIInv, PTL DEF Spec, NothingRevokedIsSubmitted

-----------------------------------------------------------------------------
(* The startup gate: the inductive invariant and its theorems.             *)

\* What the hold believes is covered by what really happened: while the heartbeat lives the
\* time since the last break is known, a hold has begun only under a ready heartbeat, and
\* it is no older than that time.  Once the heartbeat is overdue the hold may be stale; the
\* next heartbeat or observation must drop it before it counts again.
HoldIsCovered ==
    /\ ready /\ Alive => unbroken # None
    /\ since # None => ready /\ last_received # None
    /\ since # None /\ Alive => unbroken >= since

\* The exit code is decided by the step that finishes, and nothing that could still be
\* answered is finished.
ExitDecidedLast ==
    /\ ~finished => exit_code = 0
    /\ finished => future # "pending"

StartupIInv == StartupTypeOK /\ HoldIsCovered /\ ExitDecidedLast

\* The gate starts without a hold.
LEMMA StartupInitIInv == StartupInit => StartupIInv
<1> SUFFICES ASSUME StartupInit PROVE StartupIInv
  OBVIOUS
<1>1. StartupTypeOK
  <2>1. -1 \in -1..HeartbeatTimeout + 1 /\ -1 \in -1..HoldTime + 1
    BY GateAssumption
  <2>2. requests = IF future = "none" THEN 0 ELSE 1
    BY DEF StartupInit
  <2>3. finished = FALSE /\ exit_code \in 0..1
    BY DEF StartupInit
  <2>4. ready \in BOOLEAN /\ tf_valid \in BOOLEAN /\ service \in BOOLEAN /\ manager \in BOOLEAN
    BY DEF StartupInit
  <2>5. future \in {"none", "pending", "succeeded", "failed"}
    BY DEF StartupInit
  <2>6. /\ last_received \in -1..HeartbeatTimeout + 1
        /\ since \in -1..HoldTime + 1
        /\ unbroken \in -1..HoldTime + 1
    BY <2>1 DEF StartupInit, None
  <2>7. QED
    BY <2>2, <2>3, <2>4, <2>5, <2>6 DEF StartupTypeOK
<1>2. HoldIsCovered /\ ExitDecidedLast
  BY DEF StartupInit, HoldIsCovered, ExitDecidedLast, None
<1>3. QED
  BY <1>1, <1>2 DEF StartupIInv

\* Every heartbeat, tick of the timer, reply and tick of the clock keeps the invariant.
LEMMA StartupNextIInv == StartupIInv /\ [StartupNext]_startup_vars => StartupIInv'
<1> SUFFICES ASSUME StartupIInv, [StartupNext]_startup_vars PROVE StartupIInv'
  OBVIOUS
<1> USE GateAssumption
    DEF StartupIInv, StartupTypeOK, HoldIsCovered, ExitDecidedLast, Alive, None,
        hold_vars, outcome_vars, surrounding_vars
<1>1. ASSUME NEW data \in BOOLEAN, Receive(data) PROVE StartupIInv'
  <2>1. StartupTypeOK'
    BY <1>1 DEF Receive, AfterHeartbeat
  <2>2. HoldIsCovered' /\ ExitDecidedLast'
    <3>1. CASE since' = None
      BY <1>1, <3>1 DEF Receive
    <3>2. CASE since' = since /\ data
      BY <1>1, <3>2 DEF Receive, AfterHeartbeat
    <3>3. QED
      BY <1>1, <3>1, <3>2 DEF Receive, AfterHeartbeat
  <2>3. QED
    BY <2>1, <2>2
<1>2. CASE TickWaits
  BY <1>2 DEF TickWaits, Observe, Observed
<1>3. CASE TickRequests
  <2>1. StartupTypeOK'
    <3>1. /\ since' \in -1..HoldTime + 1 /\ unbroken' \in -1..HoldTime + 1
          /\ UNCHANGED <<ready, last_received, tf_valid, service, manager>>
      BY <1>3 DEF TickRequests, Observe, Observed
    <3>2. finished = FALSE /\ exit_code = 0 /\ future = "none" /\ requests = 0
      BY <1>3 DEF TickRequests, Observe
    <3>3. CASE future' = "pending" /\ requests' = requests + 1 /\ UNCHANGED <<finished, exit_code>>
      BY <3>1, <3>2, <3>3
    <3>4. CASE exit_code' = 1 /\ finished' = TRUE /\ UNCHANGED <<future, requests>>
      BY <3>1, <3>2, <3>4
    <3>5. QED
      BY <1>3, <3>3, <3>4 DEF TickRequests
  <2>2. HoldIsCovered'
    BY <1>3 DEF TickRequests, Observe, Observed
  <2>3. ExitDecidedLast'
    BY <1>3 DEF TickRequests, Observe
  <2>4. QED
    BY <2>1, <2>2, <2>3
<1>4. CASE Conclude
  BY <1>4 DEF Conclude
<1>5. CASE TfChanges
  BY <1>5 DEF TfChanges
<1>6. CASE ServiceChanges
  BY <1>6 DEF ServiceChanges
<1>7. CASE ManagerDies
  BY <1>7 DEF ManagerDies
<1>8. CASE Reply
  BY <1>8 DEF Reply
<1>9. CASE TimePasses
  BY <1>9 DEF TimePasses, Aged
<1>10. CASE UNCHANGED startup_vars
  BY <1>10 DEF startup_vars
<1>11. QED
  BY <1>1, <1>2, <1>3, <1>4, <1>5, <1>6, <1>7, <1>8, <1>9, <1>10 DEF StartupNext, Timer

\* The gate sends at most one request, and ends with success exactly when the manager
\* reported one.
THEOREM StartupTypeCorrect == StartupSpec => []StartupTypeOK
<1>1. StartupIInv => StartupTypeOK
  BY DEF StartupIInv
<1>2. QED
  BY <1>1, StartupInitIInv, StartupNextIInv, PTL DEF StartupSpec

\* The step that asks for Nav2 finds localization healthy for the whole hold time.
LEMMA RequestIsEarned ==
  ASSUME StartupIInv, StartupNext, requests' > requests
  PROVE  unbroken >= HoldTime
<1>1. TickRequests
  BY DEF StartupNext, Timer, Receive, TickWaits, Conclude, TfChanges, ServiceChanges, ManagerDies,
     Reply, TimePasses, StartupIInv, StartupTypeOK, outcome_vars
<1>2. since' >= HoldTime /\ since' = Observed
  BY <1>1 DEF TickRequests, Qualified, Observe
<1>3. Alive /\ since # None /\ since >= HoldTime
  BY <1>2, GateAssumption DEF Observed, None
<1>4. QED
  BY <1>3, GateAssumption DEF StartupIInv, HoldIsCovered, StartupTypeOK

\* Nav2 is started only after a hold without a break, even a break no timer tick saw.
THEOREM StartupEarned == StartupSpec => StartupIsEarned
<1>1. StartupIInv /\ [StartupNext]_startup_vars
        => [requests' > requests => unbroken >= HoldTime]_startup_vars
  BY RequestIsEarned
<1>2. QED
  BY <1>1, StartupInitIInv, StartupNextIInv, PTL DEF StartupSpec, StartupIsEarned
=============================================================================
