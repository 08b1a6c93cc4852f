---------------------------- MODULE RecentResults ----------------------------
(***************************************************************************)
(* What the protocol promises of its idempotency memory: the results of    *)
(* the last Capacity different actions of the session, oldest first.  A    *)
(* result recorded again for an id it knows replaces the first one and     *)
(* keeps its place.                                                        *)
(***************************************************************************)
EXTENDS Integers, Sequences

CONSTANTS Capacity, Ids, Results

VARIABLE recent      \* a sequence of [id, result]

Entry == [id : Ids, result : Results]

Init == recent = <<>>

Replace(id, result) ==
  \E k \in DOMAIN recent :
    /\ recent[k].id = id
    /\ recent' = [recent EXCEPT ![k] = [id |-> id, result |-> result]]

Remember(id, result) ==
  /\ \A k \in DOMAIN recent : recent[k].id # id
  /\ recent' = Append(IF Len(recent) < Capacity THEN recent ELSE Tail(recent),
                      [id |-> id, result |-> result])

Forget == recent' = <<>>

Next ==
  \/ \E id \in Ids, result \in Results : Replace(id, result) \/ Remember(id, result)
  \/ Forget

Spec == Init /\ [][Next]_recent
=============================================================================
