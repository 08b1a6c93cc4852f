-------------------------- MODULE MCMotionControl --------------------------
(***************************************************************************)
(* Instances of MotionControl for TLC.  The configurations choose the      *)
(* requests of the client and whether faults happen.                       *)
(***************************************************************************)
EXTENDS MotionControl
=============================================================================
