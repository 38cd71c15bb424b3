----------------------------- MODULE GateOverTime -----------------------------
(***************************************************************************)
(* One navigation command gate driven over time, with its callers reduced  *)
(* to the calls they make: the two subscriptions, the mux timer's query    *)
(* and the reset at a handover.  The callers serialise access, so each     *)
(* call is one step.  The gate expires nothing by itself: it looks at the  *)
(* clock only when it is called.                                           *)
(***************************************************************************)
EXTENDS NavigationCommandGate

CONSTANT MaxTime    \* bound on the clock

VARIABLES
    now,            \* std::chrono::steady_clock
    gate,           \* nav_command_gate_
    driven          \* the command the last query returned

vars == <<now, gate, driven>>

Init ==
    /\ now = 0
    /\ gate \in {NewGate(m) : m \in BOOLEAN}
    /\ driven = Zero

\* The raw subscription exists only when a raw topic is configured.
ReceiveRaw(c) ==
    /\ gate.monitor_raw
    /\ gate' = UpdatedRaw(gate, c, now)
    /\ UNCHANGED <<now, driven>>

ReceiveSmoothed(c) ==
    /\ gate' = Updated(gate, c, now)
    /\ UNCHANGED <<now, driven>>

Reset ==
    /\ gate' = Cleared(gate)
    /\ UNCHANGED <<now, driven>>

Query ==
    /\ driven' = CommandAt(gate, now)
    /\ gate' = AfterCommandAt(gate, now)
    /\ UNCHANGED now

Tick ==
    /\ now < MaxTime
    /\ now' = now + 1
    /\ UNCHANGED <<gate, driven>>

Next ==
    \/ \E c \in Messages : ReceiveRaw(c) \/ ReceiveSmoothed(c)
    \/ Reset
    \/ Query
    \/ Tick

Spec == Init /\ [][Next]_vars

(***************************************************************************)
(* Properties                                                              *)
(***************************************************************************)

\* The gate stays well-formed; no receipt lies in the future; a command or a raw
\* lease without a receipt time does not exist; and an unmonitored gate never
\* acquires a raw lease (received_at_, raw_received_at_ and clear()).
TypeOK ==
    /\ now \in Nat
    /\ GateOK(gate, now)
    /\ driven \in Finite

\* The lazily expiring gate cannot be told from a permit the clock revokes: the
\* mutations inside commandAt() and the late clear() of updateRaw() are invisible,
\* a revived raw stream never revives an old smoothed command, and smoother output
\* never prolongs the controller's lease (the header's comment on receipt times).
RawLease == IF Fresh(gate.raw_received_at, now) THEN gate.raw_received_at + Timeout ELSE Absent
Granted == RawIsLive(gate, now) /\ Fresh(gate.received_at, now)

Permit == INSTANCE NavigationPermit WITH
    monitored    <- gate.monitor_raw,
    alive_until  <- RawLease,
    permit       <- IF Granted THEN gate.command ELSE Zero,
    permit_until <- IF Granted THEN gate.received_at + Timeout ELSE Absent

IsAPermit == Permit!Spec
=============================================================================
