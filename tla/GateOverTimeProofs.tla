-------------------------- MODULE GateOverTimeProofs --------------------------
(***************************************************************************)
(* GateOverTime is type correct and implements NavigationPermit, for every *)
(* set of commands, every timeout and every bound on the clock.            *)
(***************************************************************************)
EXTENDS GateOverTime, TLAPS

\* A gate may hold a command with its receipt, or none with none.
LEMMA HoldingGate ==
  ASSUME NEW t \in Nat, NEW g, GateOK(g, t), NEW c \in Finite,
         NEW at \in Nat \union {Absent}, at <= t, at = Absent => c = Zero
  PROVE  GateOK([g EXCEPT !.command = c, !.received_at = at], t)
<1> DEFINE h == [g EXCEPT !.command = c, !.received_at = at]
<1>1. g \in Gate /\ h \in Gate
  BY DEF GateOK, Gate
<1>2. /\ h.command = c
      /\ h.received_at = at
      /\ h.raw_received_at = g.raw_received_at
      /\ h.monitor_raw = g.monitor_raw
  BY <1>1 DEF Gate
<1> HIDE DEF h
<1>3. GateOK(h, t)
  BY <1>1, <1>2 DEF GateOK
<1>4. QED
  BY <1>3 DEF h

\* Every call, and time passing, keeps a gate consistent.
LEMMA CallsKeepGate ==
  ASSUME NEW t \in Nat, NEW g, GateOK(g, t), NEW c
  PROVE  /\ GateOK(Cleared(g), t)
         /\ GateOK(Updated(g, c, t), t)
         /\ g.monitor_raw => GateOK(UpdatedRaw(g, c, t), t)
         /\ GateOK(AfterCommandAt(g, t), t)
         /\ CommandAt(g, t) \in Finite
         /\ GateOK(g, t + 1)
<1>1. GateOK(Cleared(g), t) /\ Cleared(g).monitor_raw = g.monitor_raw
  BY DEF GateOK, Gate, Finite, Cleared, NewGate, Absent
<1>2. GateOK(Updated(g, c, t), t)
  <2>1. CASE c \in Finite /\ RawIsLive(g, t)
    <3>1. Updated(g, c, t) = [g EXCEPT !.command = c, !.received_at = t]
      BY <2>1 DEF Updated
    <3>2. t \in Nat \union {Absent} /\ t <= t /\ t # Absent /\ c \in Finite
      BY <2>1 DEF Absent
    <3>3. GateOK([g EXCEPT !.command = c, !.received_at = t], t)
      BY <3>2, HoldingGate
    <3>4. QED
      BY <3>1, <3>3
  <2>2. CASE ~(c \in Finite /\ RawIsLive(g, t))
    BY <1>1, <2>2 DEF Updated
  <2>3. QED
    BY <2>1, <2>2
<1>3. ASSUME g.monitor_raw PROVE GateOK(UpdatedRaw(g, c, t), t)
  <2> DEFINE h == IF Fresh(g.raw_received_at, t) THEN g ELSE Cleared(g)
  <2>1. GateOK(h, t) /\ h.monitor_raw = TRUE
    BY <1>1, <1>3 DEF GateOK, Gate
  <2>2. GateOK([h EXCEPT !.raw_received_at = t], t)
    BY <2>1 DEF GateOK, Gate, Absent
  <2>3. UpdatedRaw(g, c, t) \in {Cleared(g), [h EXCEPT !.raw_received_at = t]}
    BY DEF UpdatedRaw
  <2> HIDE DEF h
  <2>4. QED
    BY <1>1, <2>2, <2>3
<1>4. GateOK(AfterCommandAt(g, t), t)
  <2>1. GateOK([g EXCEPT !.command = Zero, !.received_at = Absent], t)
    <3>1. Absent \in Nat \union {Absent} /\ Absent <= t /\ Zero \in Finite
      BY DEF Finite, Absent
    <3>2. QED
      BY <3>1, HoldingGate
  <2>2. AfterCommandAt(g, t) \in
            {g, Cleared(g), [g EXCEPT !.command = Zero, !.received_at = Absent]}
    BY DEF AfterCommandAt
  <2>3. QED
    BY <1>1, <2>1, <2>2
<1>5. CommandAt(g, t) \in Finite
  BY DEF CommandAt, GateOK, Gate, Finite
<1>6. GateOK(g, t + 1)
  BY DEF GateOK, Gate, Absent
<1>7. QED
  BY <1>1, <1>2, <1>3, <1>4, <1>5, <1>6

USE DEF Absent

\* The gate starts consistent.
LEMMA InitTypeOK == Init => TypeOK
  BY DEF Init, TypeOK, GateOK, Gate, Finite, NewGate

\* Every step keeps the types.
LEMMA NextTypeOK == TypeOK /\ [Next]_vars => TypeOK'
<1> SUFFICES ASSUME TypeOK, [Next]_vars PROVE TypeOK'
  OBVIOUS
<1> USE CallsKeepGate DEF TypeOK
<1>1. ASSUME NEW c \in Messages, ReceiveRaw(c) PROVE TypeOK'
  BY <1>1 DEF ReceiveRaw
<1>2. ASSUME NEW c \in Messages, ReceiveSmoothed(c) PROVE TypeOK'
  BY <1>2 DEF ReceiveSmoothed
<1>3. CASE Reset
  BY <1>3 DEF Reset
<1>4. CASE Query
  BY <1>4 DEF Query
<1>5. CASE Tick
  BY <1>5 DEF Tick
<1>6. CASE UNCHANGED vars
  BY <1>6 DEF vars
<1>7. QED
  BY <1>1, <1>2, <1>3, <1>4, <1>5, <1>6 DEF Next

\* The gate's state stays consistent: no receipt from the future, no command or
\* raw lease without a receipt time.
THEOREM GateTypeCorrect == Spec => []TypeOK
  BY InitTypeOK, NextTypeOK, PTL DEF Spec

-----------------------------------------------------------------------------
(* The refinement: initial states, then one lemma per call of the gate.    *)

LEMMA InitIsAPermit == Init => Permit!Init
  BY GateAssumption
  DEF Init, NewGate, Permit!Init, Permit!Absent, RawLease, Granted, RawIsLive, Fresh

\* A raw command is the permit's controller: it extends a live lease, or starts one after
\* the gate has dropped what the lapse made worthless.
LEMMA ReceiveRawIsController ==
  ASSUME TypeOK, NEW c \in Messages, ReceiveRaw(c)
  PROVE  Permit!Controller(c)
<1> DEFINE h == IF Fresh(gate.raw_received_at, now) THEN gate ELSE Cleared(gate)
<1>1. /\ now \in Nat
      /\ GateOK(gate, now)
      /\ gate.monitor_raw = TRUE
      /\ UNCHANGED <<now, driven>>
  BY DEF TypeOK, GateOK, Gate, ReceiveRaw
<1>2. CASE c \in Moves
  <2>1. gate' = [h EXCEPT !.raw_received_at = now]
    BY <1>2 DEF ReceiveRaw, UpdatedRaw
  <2>2. /\ GateOK(h, now)
        /\ h.monitor_raw = TRUE
        /\ ~Fresh(gate.raw_received_at, now) => h.command = Zero /\ h.received_at = Absent
        /\ Fresh(gate.raw_received_at, now) => h = gate
    BY <1>1 DEF GateOK, Gate, Finite, Cleared, NewGate
  <2> HIDE DEF h
  <2>3. /\ gate'.monitor_raw = TRUE
        /\ gate'.command = h.command
        /\ gate'.received_at = h.received_at
        /\ gate'.raw_received_at = now
    BY <2>1, <2>2 DEF GateOK, Gate
  <2>4. Timeout > 0 => RawIsLive(gate, now)'
    BY <1>1, <2>3, GateAssumption DEF RawIsLive, Fresh
  <2>5. RawLease' = IF Timeout > 0 THEN now + Timeout ELSE Absent
    BY <1>1, <2>3, GateAssumption DEF RawLease, Fresh
  <2>6. CASE Fresh(gate.raw_received_at, now)
    <3>1. Granted' = Granted /\ gate'.command = gate.command
                            /\ gate'.received_at = gate.received_at
      BY <1>1, <2>2, <2>3, <2>4, <2>6 DEF Granted, RawIsLive, Fresh
    <3>2. QED
      BY <1>1, <1>2, <2>3, <2>5, <3>1 DEF Permit!Controller, Permit!Absent
  <2>7. CASE ~Fresh(gate.raw_received_at, now)
    <3>1. ~Granted /\ ~Granted'
      BY <1>1, <2>2, <2>3, <2>7 DEF Granted, RawIsLive, Fresh
    <3>2. QED
      BY <1>1, <1>2, <2>3, <2>5, <3>1 DEF Permit!Controller, Permit!Absent
  <2>8. QED
    BY <2>6, <2>7
<1>3. CASE c \notin Moves
  <2>1. gate' = Cleared(gate)
    BY <1>3 DEF ReceiveRaw, UpdatedRaw
  <2>2. ~Granted' /\ RawLease' = Absent /\ gate'.monitor_raw = TRUE
    BY <1>1, <2>1 DEF Cleared, NewGate, Granted, RawLease, RawIsLive, Fresh
  <2>3. QED
    BY <1>1, <1>3, <2>2 DEF Permit!Controller, Permit!Revoked, Permit!Absent
<1>4. QED
  BY <1>2, <1>3

\* A smoothed command is the permit's smoother: granted while the raw lease lives.
LEMMA ReceiveSmoothedIsSmoother ==
  ASSUME TypeOK, NEW c \in Messages, ReceiveSmoothed(c)
  PROVE  Permit!Smoother(c)
<1> USE GateAssumption
        DEF TypeOK, GateOK, Gate, Finite, Messages, ReceiveSmoothed, Updated, Cleared, NewGate,
            Fresh, RawIsLive, RawLease, Granted, Permit!Smoother, Permit!Revoked, Permit!Absent
<1>1. CASE c \in Finite /\ RawIsLive(gate, now)
  BY <1>1
<1>2. CASE ~(c \in Finite /\ RawIsLive(gate, now))
  BY <1>2
<1>3. QED
  BY <1>1, <1>2

\* reset() revokes both.
LEMMA ResetIsHandover ==
  ASSUME TypeOK, Reset PROVE Permit!Handover
  BY DEF TypeOK, GateOK, Gate, Reset, Cleared, NewGate, Fresh, RawIsLive, RawLease, Granted,
         Permit!Handover, Permit!Revoked, Permit!Absent

\* commandAt() drives only what is permitted; what it clears had expired.
LEMMA QueryIsDrive ==
  ASSUME TypeOK, Query PROVE Permit!Drive
  BY GateAssumption
  DEF TypeOK, GateOK, Gate, Finite, Query, CommandAt, AfterCommandAt, Cleared, NewGate, Fresh,
      RawIsLive, RawLease, Granted, Permit!Drive

\* A tick revokes in the permit what the gate will notice later.
LEMMA TickIsPass ==
  ASSUME TypeOK, Tick PROVE Permit!Pass
  BY GateAssumption
  DEF TypeOK, GateOK, Gate, Finite, Tick, Fresh, RawIsLive, RawLease, Granted,
      Permit!Pass, Permit!Absent

\* Every step of the gate is a step of the permit or a stutter.
LEMMA StepIsAPermitStep ==
  ASSUME TypeOK, [Next]_vars PROVE [Permit!Next]_(Permit!vars)
<1>1. ASSUME NEW c \in Messages, ReceiveRaw(c) PROVE Permit!Next
  BY <1>1, ReceiveRawIsController DEF Permit!Next, Messages, Finite
<1>2. ASSUME NEW c \in Messages, ReceiveSmoothed(c) PROVE Permit!Next
  BY <1>2, ReceiveSmoothedIsSmoother DEF Permit!Next, Messages, Finite
<1>3. CASE Reset
  BY <1>3, ResetIsHandover DEF Permit!Next
<1>4. CASE Query
  BY <1>4, QueryIsDrive DEF Permit!Next
<1>5. CASE Tick
  BY <1>5, TickIsPass DEF Permit!Next
<1>6. CASE UNCHANGED vars
  BY <1>6 DEF vars, Permit!vars, RawLease, Granted
<1>7. QED
  BY <1>1, <1>2, <1>3, <1>4, <1>5, <1>6 DEF Next

\* Lazy expiry is invisible: every behaviour of the gate is one of the permit.
THEOREM GateImplementsPermit == Spec => IsAPermit
<1>1. Init => Permit!Init
  BY InitIsAPermit
<1>2. TypeOK /\ [Next]_vars => [Permit!Next]_(Permit!vars)
  BY StepIsAPermitStep
<1>3. QED
  BY <1>1, <1>2, GateTypeCorrect, PTL DEF Spec, IsAPermit, Permit!Spec
=============================================================================
