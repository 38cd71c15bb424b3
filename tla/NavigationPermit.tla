--------------------------- MODULE NavigationPermit ---------------------------
(***************************************************************************)
(* What the navigation command gate promises, with no trace of how it      *)
(* remembers receipts.  A permit to move is granted by a smoothed command  *)
(* and expires by itself: the clock revokes it once it is Timeout ticks    *)
(* old, or at the moment the controller's raw stream lapses.  Asking for   *)
(* the command never changes anything, and a Timeout that is not positive  *)
(* never grants one.                                                       *)
(***************************************************************************)
EXTENDS Integers

CONSTANTS Moves, Zero, NonFinite, Timeout

VARIABLES
    now,
    monitored,      \* is the raw controller stream monitored?
    alive_until,    \* deadline of the raw stream, Absent when it has lapsed
    permit,         \* the command granted, Zero when there is none
    permit_until,   \* its deadline, Absent when there is no grant
    driven          \* the command last handed to the base

vars == <<now, monitored, alive_until, permit, permit_until, driven>>

Absent == -1

Revoked == /\ alive_until' = Absent
           /\ permit' = Zero
           /\ permit_until' = Absent

Init ==
    /\ now = 0
    /\ monitored \in BOOLEAN
    /\ alive_until = Absent
    /\ permit = Zero
    /\ permit_until = Absent
    /\ driven = Zero

\* The controller speaks: a moving command keeps the stream alive, a stop or a
\* broken command withdraws everything.
Controller(c) ==
    /\ monitored
    /\ \/ /\ c \in Moves
          /\ alive_until' = IF Timeout > 0 THEN now + Timeout ELSE Absent
          /\ UNCHANGED <<permit, permit_until>>
       \/ /\ c \notin Moves
          /\ Revoked
    /\ UNCHANGED <<now, monitored, driven>>

\* The smoother speaks: it grants only while the controller is alive.
Smoother(c) ==
    /\ \/ /\ c \in Moves \union {Zero}
          /\ Timeout > 0
          /\ monitored => alive_until # Absent
          /\ permit' = c
          /\ permit_until' = now + Timeout
          /\ UNCHANGED alive_until
       \/ /\ c = NonFinite \/ Timeout <= 0 \/ (monitored /\ alive_until = Absent)
          /\ Revoked
    /\ UNCHANGED <<now, monitored, driven>>

Handover ==
    /\ Revoked
    /\ UNCHANGED <<now, monitored, driven>>

Drive ==
    /\ driven' = permit
    /\ UNCHANGED <<now, monitored, alive_until, permit, permit_until>>

\* The clock alone ends what has expired.
Pass ==
    /\ now' = now + 1
    /\ alive_until' = IF alive_until < now' THEN Absent ELSE alive_until
    /\ IF permit_until < now' \/ (monitored /\ alive_until' = Absent)
       THEN permit' = Zero /\ permit_until' = Absent
       ELSE UNCHANGED <<permit, permit_until>>
    /\ UNCHANGED <<monitored, driven>>

Next ==
    \/ \E c \in Moves \union {Zero, NonFinite} : Controller(c) \/ Smoother(c)
    \/ Handover
    \/ Drive
    \/ Pass

Spec == Init /\ [][Next]_vars
=============================================================================
