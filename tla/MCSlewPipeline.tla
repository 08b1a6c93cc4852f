--------------------------- MODULE MCSlewPipeline ---------------------------
(***************************************************************************)
(* Instances of SlewPipeline for TLC.  RA makes full use of the pipeline:  *)
(* its motions are up to four steps of at most two per batch.  DEC goes a  *)
(* single step or does not move, so that one axis ends before the other.   *)
(* RA starts outside its limits, as after a limit has been set beyond it.  *)
(***************************************************************************)
EXTENDS SlewPipeline

MCHome == [a \in Axes |-> 0]
MCLo == [a \in Axes |-> IF a = "RA" THEN 1 ELSE 0]
MCHi == [a \in Axes |-> IF a = "RA" THEN 4 ELSE 1]

Both(ra, dec) == [a \in Axes |-> IF a = "RA" THEN ra ELSE dec]
MCGoals == {Both(5, 1), Both(2, 0)}
MCDirections == {Both(1, 0), Both(-1, 1)}
=============================================================================
