----------------------- MODULE CommandArbitrationProofs -----------------------
(***************************************************************************)
(* The safety of the arbitration, for every set of commands and status     *)
(* topics, every timeout and every interleaving of the mux timer, the      *)
(* subscriptions and the worker.                                           *)
(***************************************************************************)
EXTENDS CommandArbitration, TLAPS

-----------------------------------------------------------------------------
(* What the calls of the gate preserve and what they can leave in it.      *)

\* A new gate is consistent from the clock's beginning.
LEMMA FreshGate ==
  ASSUME NEW m \in BOOLEAN PROVE GateOK(NewGate(m), 0)
  BY DEF GateOK, NewGate, Gate, Finite, Absent

\* clear() empties the gate and keeps only whether it monitors the raw stream.
LEMMA ClearedGate ==
  ASSUME NEW t \in Nat, NEW g, GateOK(g, t)
  PROVE  /\ GateOK(Cleared(g), t)
         /\ Cleared(g).command = Zero
         /\ Cleared(g).received_at = Absent
         /\ Cleared(g).raw_received_at = Absent
         /\ Cleared(g).monitor_raw = g.monitor_raw
  BY DEF GateOK, Cleared, NewGate, Gate, Finite, Absent

\* Time passing disturbs nothing: no receipt gets ahead of the clock.
LEMMA OlderGate ==
  ASSUME NEW t \in Nat, NEW g, GateOK(g, t)
  PROVE  GateOK(g, t + 1)
  BY DEF GateOK, Gate, Absent

\* updateRaw() keeps a gate consistent, whether the raw stream lives on, revives or ends.
LEMMA UpdatedRawGate ==
  ASSUME NEW t \in Nat, NEW g, GateOK(g, t), g.monitor_raw, NEW c
  PROVE  GateOK(UpdatedRaw(g, c, t), t)
<1> DEFINE h == IF Fresh(g.raw_received_at, t) THEN g ELSE Cleared(g)
<1>1. CASE c \notin Moves
  BY <1>1, ClearedGate DEF UpdatedRaw
<1>2. CASE c \in Moves
  <2>1. GateOK(h, t) /\ h.monitor_raw = TRUE
    BY ClearedGate DEF GateOK, Gate
  <2>2. UpdatedRaw(g, c, t) = [h EXCEPT !.raw_received_at = t]
    BY <1>2 DEF UpdatedRaw
  <2>3. GateOK([h EXCEPT !.raw_received_at = t], t)
    BY <2>1 DEF GateOK, Gate, Absent
  <2>4. QED
    BY <2>2, <2>3
<1>3. QED
  BY <1>1, <1>2

\* So does writing a command with its receipt, or none with none.
LEMMA HoldingGate ==
  ASSUME NEW t \in Nat, NEW g, GateOK(g, t), NEW c \in Finite,
         NEW at \in Nat \union {Absent}, at <= t, at = Absent => c = Zero
  PROVE  GateOK([g EXCEPT !.command = c, !.received_at = at], t)
<1> DEFINE h == [g EXCEPT !.command = c, !.received_at = at]
<1>1. g \in Gate
  BY DEF GateOK
<1>2. h \in Gate
  BY <1>1 DEF Gate
<1>3. /\ h.command = c
      /\ h.received_at = at
      /\ h.raw_received_at = g.raw_received_at
      /\ h.monitor_raw = g.monitor_raw
  BY <1>1 DEF Gate
<1> HIDE DEF h
<1>4. GateOK(h, t)
  BY <1>2, <1>3 DEF GateOK
<1>5. QED
  BY <1>4 DEF h

\* update() keeps a gate consistent, whatever it is given.
LEMMA UpdatedGate ==
  ASSUME NEW t \in Nat, NEW g, GateOK(g, t), NEW c
  PROVE  GateOK(Updated(g, c, t), t)
<1>1. CASE c \in Finite /\ RawIsLive(g, t)
  <2>1. Updated(g, c, t) = [g EXCEPT !.command = c, !.received_at = t]
    BY <1>1 DEF Updated
  <2>2. t \in Nat \union {Absent} /\ t <= t /\ t # Absent /\ c \in Finite
    BY <1>1 DEF Absent
  <2>3. GateOK([g EXCEPT !.command = c, !.received_at = t], t)
    BY <2>2, HoldingGate
  <2>4. QED
    BY <2>1, <2>3
<1>2. CASE ~(c \in Finite /\ RawIsLive(g, t))
  BY <1>2, ClearedGate DEF Updated
<1>3. QED
  BY <1>1, <1>2

\* commandAt() may drop what has expired and adds nothing.
LEMMA QueriedGate ==
  ASSUME NEW t \in Nat, NEW u \in Nat, NEW g, GateOK(g, t)
  PROVE  GateOK(AfterCommandAt(g, u), t)
<1>1. CASE ~RawIsLive(g, u)
  BY <1>1, ClearedGate DEF AfterCommandAt
<1>2. CASE RawIsLive(g, u)
  <2>1. AfterCommandAt(g, u) \in {g, [g EXCEPT !.command = Zero, !.received_at = Absent]}
    BY <1>2 DEF AfterCommandAt
  <2>2. GateOK([g EXCEPT !.command = Zero, !.received_at = Absent], t)
    <3>1. Absent \in Nat \union {Absent} /\ Absent <= t /\ Zero \in Finite
      BY DEF Finite, Absent
    <3>2. QED
      BY <3>1, HoldingGate
  <2>3. QED
    BY <2>1, <2>2
<1>3. QED
  BY <1>1, <1>2

\* What commandAt() returns is finite.
LEMMA CommandAtFinite ==
  ASSUME NEW t, NEW u, NEW g, GateOK(g, t)
  PROVE  CommandAt(g, u) \in Finite
  BY DEF CommandAt, GateOK, Gate, Finite

(* Where the two receipt times of a gate can come from.                    *)

\* update() never makes a receipt of the raw stream.
LEMMA UpdatedReceipts ==
  ASSUME NEW t \in Nat, NEW g, GateOK(g, t), NEW c
  PROVE  /\ Updated(g, c, t).raw_received_at \in {g.raw_received_at, Absent}
         /\ Updated(g, c, t).monitor_raw = g.monitor_raw
<1>1. CASE c \in Finite /\ RawIsLive(g, t)
  <2>1. Updated(g, c, t) = [g EXCEPT !.command = c, !.received_at = t]
    BY <1>1 DEF Updated
  <2>2. QED
    BY <2>1 DEF GateOK, Gate
<1>2. CASE ~(c \in Finite /\ RawIsLive(g, t))
  BY <1>2, ClearedGate DEF Updated
<1>3. QED
  BY <1>1, <1>2

\* updateRaw() never makes a receipt of the smoothed stream.
LEMMA UpdatedRawReceipts ==
  ASSUME NEW t \in Nat, NEW g, GateOK(g, t), NEW c
  PROVE  /\ UpdatedRaw(g, c, t).received_at \in {g.received_at, Absent}
         /\ UpdatedRaw(g, c, t).monitor_raw = g.monitor_raw
<1> DEFINE h == IF Fresh(g.raw_received_at, t) THEN g ELSE Cleared(g)
<1>1. CASE c \notin Moves
  BY <1>1, ClearedGate DEF UpdatedRaw
<1>2. CASE c \in Moves
  <2>1. /\ GateOK(h, t)
        /\ h.received_at \in {g.received_at, Absent}
        /\ h.monitor_raw = g.monitor_raw
    BY ClearedGate
  <2>2. UpdatedRaw(g, c, t) = [h EXCEPT !.raw_received_at = t]
    BY <1>2 DEF UpdatedRaw
  <2> HIDE DEF h
  <2>3. QED
    BY <2>1, <2>2 DEF GateOK, Gate
<1>3. QED
  BY <1>1, <1>2

\* commandAt() makes neither.
LEMMA QueriedReceipts ==
  ASSUME NEW t \in Nat, NEW u \in Nat, NEW g, GateOK(g, t)
  PROVE  /\ AfterCommandAt(g, u).received_at \in {g.received_at, Absent}
         /\ AfterCommandAt(g, u).raw_received_at \in {g.raw_received_at, Absent}
         /\ AfterCommandAt(g, u).monitor_raw = g.monitor_raw
<1>1. CASE ~RawIsLive(g, u)
  BY <1>1, ClearedGate DEF AfterCommandAt
<1>2. CASE RawIsLive(g, u)
  <2>1. AfterCommandAt(g, u) \in {g, [g EXCEPT !.command = Zero, !.received_at = Absent]}
    BY <1>2 DEF AfterCommandAt
  <2>2. QED
    BY <2>1 DEF GateOK, Gate
<1>3. QED
  BY <1>1, <1>2

\* A moving command comes out only of a gate that has both receipts it needs.
LEMMA MovingNeedsReceipts ==
  ASSUME NEW u, NEW g, CommandAt(g, u) # Zero
  PROVE  /\ g.received_at # Absent
         /\ g.monitor_raw => g.raw_received_at # Absent
  BY DEF CommandAt, RawIsLive, Fresh

-----------------------------------------------------------------------------
(***************************************************************************)
(* The inductive invariant.  The properties speak of the moment the mux    *)
(* timer publishes; what makes them inductive is what holds while nobody   *)
(* looks: where a cached command can exist at all.                         *)
(***************************************************************************)

\* The places between the start of a motion and the end of stopAlignment()'s
\* critical section.
OwnerPlaces == {"moving", "checked", "clear_flag", "reset"}

\* While navigation owns the base, everything the gate holds was heard since it does.
GateHoldsWhatWasHeard ==
    ~operation_active_ =>
        /\ nav_command_gate_.received_at # Absent => "smoothed" \in heard
        /\ nav_command_gate_.raw_received_at # Absent => "raw" \in heard

\* From the reset to the release the gate is empty.
GateEmptyAfterReset ==
    worker_pc \in {"publish_zero", "stopped", "resolved"} =>
        /\ nav_command_gate_.received_at = Absent
        /\ nav_command_gate_.raw_received_at = Absent

\* An alignment command exists only inside a motion, and belongs to it.
CommandOnlyInMotion ==
    /\ alignment_command_time_ # Absent => worker_pc \in OwnerPlaces /\ commanded
    /\ alignment_command_time_ # Absent /\ action \in Timed =>
          command_polled_at = alignment_command_time_

\* A pass of an open-loop motion polls and samples the clock together.
PollTimed == worker_pc = "checked" => control_time = polled_at

\* What the mux timer selected is still so when it publishes.
SelectedNavigation ==
    mux_pc = "selected" /\ source = "navigation" =>
        /\ ~operation_active_
        /\ command # Zero =>
              /\ "smoothed" \in heard
              /\ nav_command_gate_.monitor_raw => "raw" \in heard

SelectedLocal ==
    Offers("local") =>
        /\ nav_active_mask_ = {}
        /\ alignment_command_time_ # Absent
        /\ now_steady - alignment_command_time_ <= Timeout

IInv ==
    /\ TypeOK
    /\ GateHoldsWhatWasHeard
    /\ GateEmptyAfterReset
    /\ CommandOnlyInMotion
    /\ PollTimed
    /\ SelectedNavigation
    /\ SelectedLocal
    /\ RestBeforeResult

-----------------------------------------------------------------------------
(* Type correctness.                                                       *)

LEMMA InitTypeOK == Init => TypeOK
<1> SUFFICES ASSUME Init PROVE TypeOK
  OBVIOUS
<1>1. GateOK(nav_command_gate_, now)
  BY FreshGate DEF Init
<1>2. QED
  BY <1>1 DEF Init, TypeOK, Finite, Actions, MuxPlaces, WorkerPlaces

\* Every step keeps the types and the gate's consistency.
LEMMA NextTypeOK == TypeOK /\ [Next]_vars => TypeOK'
<1> SUFFICES ASSUME TypeOK, [Next]_vars PROVE TypeOK'
  OBVIOUS
<1> USE DEF TypeOK, clock_vars, mux_vars, worker_vars, alignment_vars, gate_vars,
            MuxPlaces, WorkerPlaces
<1>1. ASSUME NEW kind \in Actions, AcceptGoal(kind) PROVE TypeOK'
  BY <1>1 DEF AcceptGoal
<1>2. ASSUME NEW topic \in StatusTopics, NEW active \in BOOLEAN,
             NavigationStatus(topic, active)
      PROVE  TypeOK'
  BY <1>2 DEF NavigationStatus
<1>3. ASSUME NEW c \in Messages, NavigationCommand(c) PROVE TypeOK'
  BY <1>3, UpdatedGate DEF NavigationCommand
<1>4. ASSUME NEW c \in Messages, RawNavigationCommand(c) PROVE TypeOK'
  BY <1>4, UpdatedRawGate DEF RawNavigationCommand
<1>5. CASE MuxBegin
  BY <1>5 DEF MuxBegin
<1>6. CASE MuxSelectNavigation
  BY <1>6, QueriedGate, CommandAtFinite DEF MuxSelectNavigation
<1>7. CASE MuxFindOperation
  BY <1>7 DEF MuxFindOperation
<1>8. CASE MuxSelectLocal
  BY <1>8 DEF MuxSelectLocal, Finite
<1>9. CASE MuxPublish
  BY <1>9 DEF MuxPublish
<1>10. CASE BeginMotion
  BY <1>10 DEF BeginMotion
<1>11. CASE SafetyPollPasses
  BY <1>11 DEF SafetyPollPasses
<1>12. ASSUME NEW c \in Finite, StoreCommand(c) PROVE TypeOK'
  <2>1. CommandTimes \subseteq Nat
    BY DEF CommandTimes, Actions
  <2>2. QED
    BY <1>12, <2>1 DEF StoreCommand
<1>13. CASE EndMotion
  BY <1>13 DEF EndMotion
<1>14. CASE StopFlag
  BY <1>14 DEF StopFlag
<1>15. CASE StopReset
  BY <1>15, ClearedGate DEF StopReset, Finite
<1>16. CASE StopPublish
  BY <1>16 DEF StopPublish, Finite
<1>17. CASE Retry
  BY <1>17 DEF Retry
<1>18. CASE FinishStopsAgain
  BY <1>18 DEF FinishStopsAgain
<1>19. CASE Resolve
  BY <1>19 DEF Resolve
<1>20. CASE Release
  BY <1>20 DEF Release
<1>21. CASE Tick
  BY <1>21, OlderGate DEF Tick
<1>22. CASE UNCHANGED vars
  BY <1>22 DEF vars
<1>23. QED
  BY <1>1, <1>2, <1>3, <1>4, <1>5, <1>6, <1>7, <1>8, <1>9, <1>10, <1>11, <1>12, <1>13,
     <1>14, <1>15, <1>16, <1>17, <1>18, <1>19, <1>20, <1>21, <1>22
  DEF Next, Callback, Mux, Worker, Stop

\* Every variable keeps its type, and a worker thread exists exactly while an
\* operation is active.
THEOREM ArbitrationTypeCorrect == Spec => []TypeOK
  BY InitTypeOK, NextTypeOK, PTL DEF Spec

-----------------------------------------------------------------------------
(* The inductive invariant.                                                *)

HandoverInv ==
    /\ GateHoldsWhatWasHeard
    /\ GateEmptyAfterReset
    /\ CommandOnlyInMotion
    /\ PollTimed
    /\ SelectedNavigation
    /\ SelectedLocal
    /\ RestBeforeResult

\* Nothing is cached, selected or commanded at the start.
LEMMA InitIInv == Init => IInv
<1> SUFFICES ASSUME Init PROVE IInv
  OBVIOUS
<1>1. TypeOK
  BY InitTypeOK
<1>2. /\ nav_command_gate_.received_at = Absent
      /\ nav_command_gate_.raw_received_at = Absent
  BY DEF Init, NewGate
<1>3. QED
  BY <1>1, <1>2
  DEF Init, IInv, GateHoldsWhatWasHeard, GateEmptyAfterReset, CommandOnlyInMotion, PollTimed,
      SelectedNavigation, SelectedLocal, RestBeforeResult, Offers

\* Every step of the callbacks, the mux and the worker keeps the invariant.
LEMMA NextIInv == IInv /\ [Next]_vars => IInv'
<1> SUFFICES ASSUME IInv, [Next]_vars PROVE HandoverInv'
  BY NextTypeOK DEF IInv, HandoverInv
<1> USE DEF IInv, HandoverInv, TypeOK, GateHoldsWhatWasHeard, GateEmptyAfterReset,
            CommandOnlyInMotion, PollTimed, SelectedNavigation, SelectedLocal,
            RestBeforeResult, Offers, OwnerPlaces,
            clock_vars, mux_vars, worker_vars, alignment_vars, gate_vars
<1>1. ASSUME NEW kind \in Actions, AcceptGoal(kind) PROVE HandoverInv'
  BY <1>1 DEF AcceptGoal
<1>2. ASSUME NEW topic \in StatusTopics, NEW active \in BOOLEAN,
             NavigationStatus(topic, active)
      PROVE  HandoverInv'
  BY <1>2 DEF NavigationStatus
<1>3. ASSUME NEW c \in Messages, NavigationCommand(c) PROVE HandoverInv'
  BY <1>3, UpdatedReceipts DEF NavigationCommand
<1>4. ASSUME NEW c \in Messages, RawNavigationCommand(c) PROVE HandoverInv'
  BY <1>4, UpdatedRawReceipts DEF RawNavigationCommand
<1>5. CASE MuxBegin
  BY <1>5 DEF MuxBegin
<1>6. CASE MuxSelectNavigation
  BY <1>6, QueriedReceipts, MovingNeedsReceipts DEF MuxSelectNavigation
<1>7. CASE MuxFindOperation
  BY <1>7 DEF MuxFindOperation
<1>8. CASE MuxSelectLocal
  BY <1>8 DEF MuxSelectLocal, MayDrive
<1>9. CASE MuxPublish
  BY <1>9 DEF MuxPublish
<1>10. CASE BeginMotion
  BY <1>10 DEF BeginMotion
<1>11. CASE SafetyPollPasses
  BY <1>11 DEF SafetyPollPasses
<1>12. ASSUME NEW c \in Finite, StoreCommand(c) PROVE HandoverInv'
  <2>1. mux_pc' # "selected" /\ worker_pc' = "moving"
    BY <1>12 DEF StoreCommand, MuxHoldsMutex
  <2>2. CommandOnlyInMotion'
    <3>1. ASSUME NEW t \in CommandTimes, action \in Timed PROVE t = control_time
      BY <3>1 DEF CommandTimes, Timed
    <3>2. QED
      BY <1>12, <3>1 DEF StoreCommand
  <2>3. QED
    BY <1>12, <2>1, <2>2 DEF StoreCommand
<1>13. CASE EndMotion
  BY <1>13 DEF EndMotion
<1>14. CASE StopFlag
  BY <1>14 DEF StopFlag
<1>15. CASE StopReset
  BY <1>15, ClearedGate DEF StopReset, MuxHoldsMutex
<1>16. CASE StopPublish
  BY <1>16 DEF StopPublish
<1>17. CASE Retry
  BY <1>17 DEF Retry
<1>18. CASE FinishStopsAgain
  BY <1>18 DEF FinishStopsAgain
<1>19. CASE Resolve
  BY <1>19 DEF Resolve
<1>20. CASE Release
  BY <1>20 DEF Release
<1>21. CASE Tick
  BY <1>21 DEF Tick
<1>22. CASE UNCHANGED vars
  BY <1>22 DEF vars
<1>23. QED
  BY <1>1, <1>2, <1>3, <1>4, <1>5, <1>6, <1>7, <1>8, <1>9, <1>10, <1>11, <1>12, <1>13,
     <1>14, <1>15, <1>16, <1>17, <1>18, <1>19, <1>20, <1>21, <1>22
  DEF Next, Callback, Mux, Worker, Stop

\* At the moment of publication the invariant says what the properties say.
LEMMA IInvImpliesSafety ==
  IInv => /\ NoReplayAcrossHandover
          /\ LocalCommandHasOwner
          /\ TimedMotionNearPoll
  BY DEF IInv, TypeOK, CommandOnlyInMotion, SelectedNavigation, SelectedLocal, Offers,
         OwnerPlaces, NoReplayAcrossHandover, LocalCommandHasOwner, TimedMotionNearPoll

\* The invariant holds throughout.
LEMMA Inductive == Spec => []IInv
  BY InitIInv, NextIInv, PTL DEF Spec

\* No command cached before a change of hands, by the gate or by an earlier attempt,
\* ever moves the base after it.
THEOREM NeverReplays == Spec => []NoReplayAcrossHandover
  BY Inductive, IInvImpliesSafety, PTL

\* A moving local command goes out only for an operation that still owns the base,
\* before its stop takes effect, and with no navigation goal active.
THEOREM MovingCommandOwned == Spec => []LocalCommandHasOwner
  BY Inductive, IInvImpliesSafety, PTL

\* A client learns its result only with the base commanded to rest.
THEOREM RestBeforeEveryResult == Spec => []RestBeforeResult
<1>1. IInv => RestBeforeResult
  BY DEF IInv
<1>2. QED
  BY <1>1, Inductive, PTL

\* An open-loop command is published within command_timeout of the safety poll that
\* allowed it.
THEOREM TimedMotionFresh == Spec => []TimedMotionNearPoll
  BY Inductive, IInvImpliesSafety, PTL
=============================================================================
