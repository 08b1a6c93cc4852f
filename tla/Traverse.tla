------------------------------ MODULE Traverse ------------------------------
(***************************************************************************)
(* What the slewing loop promises about the counted position of the mount: *)
(* one motion at a time, whose destination is fixed when it starts, and    *)
(* while it lasts each axis is only ever moved toward its destination,     *)
(* never past it, and by at most one batch at a time.                      *)
(***************************************************************************)
EXTENDS Integers

CONSTANTS
  Axes,
  MaxBatch,       \* RMT_BATCH_MAX_STEPS
  Destinations    \* where a motion may be sent: a set of functions on Axes

VARIABLES position, destination, moving

vars == <<position, destination, moving>>

Init ==
  /\ position \in [Axes -> Int]
  /\ destination = position
  /\ moving = FALSE

Start ==
  /\ ~moving
  /\ moving' = TRUE
  /\ destination' \in Destinations
  /\ UNCHANGED position

\* Going from p toward r, an axis may be counted at q next.
Toward(p, q, r) ==
  /\ (p <= q /\ q <= r) \/ (r <= q /\ q <= p)
  /\ q - p <= MaxBatch /\ p - q <= MaxBatch

Advance ==
  /\ moving
  /\ \A a \in Axes : Toward(position[a], position'[a], destination[a])
  /\ UNCHANGED <<destination, moving>>

End ==
  /\ moving
  /\ moving' = FALSE
  /\ UNCHANGED <<position, destination>>

Next == Start \/ Advance \/ End

Spec == Init /\ [][Next]_vars

\* Every motion ends.
Ends == moving ~> ~moving
=============================================================================
