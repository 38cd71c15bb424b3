----------------------- MODULE NavigationCommandGate -----------------------
(***************************************************************************)
(* The value held by class NavigationCommandGate and its four operations.  *)
(* The gate remembers the latest smoothed navigation command and, when it  *)
(* monitors the controller's raw stream, the receipt time of the latest    *)
(* raw command: a smoothed command may drive the base only while the raw   *)
(* stream that caused it is alive.                                         *)
(*                                                                         *)
(* A command is an opaque value: Zero, one of the Moves, or NonFinite (a   *)
(* Twist with a NaN or infinite component).  Times are ticks of the steady *)
(* clock and Absent is std::nullopt.                                       *)
(***************************************************************************)
EXTENDS Integers

CONSTANTS
    Moves,      \* finite commands other than the all-zero Twist
    Zero,       \* the all-zero Twist
    NonFinite,  \* stands for every Twist rejected by hasFiniteComponents
    Timeout     \* command_timeout, in clock ticks; the parameter is not validated, and a
                \*   NaN acts on every guard as a value that is not positive

ASSUME GateAssumption ==
    /\ Zero \notin Moves
    /\ NonFinite \notin Moves \union {Zero}
    /\ Timeout \in Int

Absent == -1

Finite == Moves \union {Zero}
Messages == Finite \union {NonFinite}

Gate == [ monitor_raw     : BOOLEAN,
          command         : Finite,
          received_at     : Nat \union {Absent},
          raw_received_at : Nat \union {Absent} ]

\* What every operation keeps: no receipt lies in the future of the clock, a command
\* has a receipt time, and only a monitoring gate has a raw lease.
GateOK(gate, now) ==
    /\ gate \in Gate
    /\ gate.received_at <= now
    /\ gate.raw_received_at <= now
    /\ gate.received_at = Absent => gate.command = Zero
    /\ gate.monitor_raw = FALSE => gate.raw_received_at = Absent

NewGate(monitorRaw) ==
    [ monitor_raw |-> monitorRaw, command |-> Zero,
      received_at |-> Absent, raw_received_at |-> Absent ]

Fresh(received, now) ==
    /\ Timeout > 0
    /\ received # Absent
    /\ received <= now
    /\ now - received <= Timeout

Cleared(gate) == NewGate(gate.monitor_raw)

RawIsLive(gate, now) ==
    ~gate.monitor_raw \/ Fresh(gate.raw_received_at, now)

\* Variant: a raw command after a lapse no longer drops what was cached before it.
UpdatedRawKeepingCache(gate, command, now) ==
    IF command \in Moves THEN [gate EXCEPT !.raw_received_at = now] ELSE Cleared(gate)

UpdatedRaw(gate, command, now) ==
    IF command \notin Moves
    THEN Cleared(gate)
    ELSE [ (IF Fresh(gate.raw_received_at, now) THEN gate ELSE Cleared(gate))
             EXCEPT !.raw_received_at = now ]

Updated(gate, command, now) ==
    IF command \in Finite /\ RawIsLive(gate, now)
    THEN [gate EXCEPT !.command = command, !.received_at = now]
    ELSE Cleared(gate)

\* commandAt() is split in two: the command it returns and the gate it leaves.
CommandAt(gate, now) ==
    IF RawIsLive(gate, now) /\ Fresh(gate.received_at, now) THEN gate.command ELSE Zero

\* Variant: an expired receipt is dropped and its command kept.
AfterCommandAtKeepingCommand(gate, now) ==
    IF ~RawIsLive(gate, now) THEN Cleared(gate)
    ELSE IF ~Fresh(gate.received_at, now) THEN [gate EXCEPT !.received_at = Absent]
    ELSE gate

AfterCommandAt(gate, now) ==
    IF ~RawIsLive(gate, now) THEN Cleared(gate)
    ELSE IF ~Fresh(gate.received_at, now)
         THEN [gate EXCEPT !.command = Zero, !.received_at = Absent]
    ELSE gate
=============================================================================
