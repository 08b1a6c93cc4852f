----------------------------- MODULE MCProtoLink -----------------------------
(***************************************************************************)
(* Instances of ProtoLink for TLC.  Three ids and a ring of two make the   *)
(* ring overwrite; a hasty client needs two ids at most, and there are     *)
(* more interleavings of it.                                               *)
(***************************************************************************)
EXTENDS ProtoLink

MCIds == 0 .. 3
MCBlank == <<0, 0>>
MCResults == ((1 .. 2) \X (1 .. 3)) \cup {MCBlank}
MCMaxIssued == [orderly |-> 3, hasty |-> 2]
MCMaxWrites == [orderly |-> 4, hasty |-> 2]
HastyIssued == [hasty |-> 2]
HastyWrites == [hasty |-> 2]
=============================================================================
