---------------------------- MODULE ProtoSession ----------------------------
(***************************************************************************)
(* The idempotency ring of the protocol: for each action executed, its id  *)
(* and the result to replay when a client sends the id again.  Each        *)
(* operation is one critical section of s_seen_lock, so one step.  The     *)
(* receive task looks up and records; the connection callback, on another  *)
(* task, resets.  ProtoLink says when they do.                             *)
(***************************************************************************)
EXTENDS Integers, Sequences

CONSTANTS
  RingSize,        \* PROTO_SEEN_IDS, 8 in the code
  Ids,             \* request ids; 0 is "no id"
  Results,         \* what an action answers
  Blank            \* the result in a slot of zeroed static storage

ASSUME RingOK ==
  /\ RingSize \in Nat \ {0}
  /\ Ids \subseteq Nat
  /\ Blank \in Results

VARIABLES seen, seenLen, seenNext      \* s_seen, s_seen_len, s_seen_next

ringVars == <<seen, seenLen, seenNext>>

Slots == 0 .. RingSize - 1
Used == 0 .. seenLen - 1

RingInit ==
  /\ seen = [i \in Slots |-> [id |-> 0, result |-> Blank]]
  /\ seenLen = 0 /\ seenNext = 0

Hit_SkipsLast(id) == id # 0 /\ \E i \in 0 .. seenLen - 2 : seen[i].id = id

\* The lookup never answers for a request without an id.
Hit(id) == id # 0 /\ \E i \in Used : seen[i].id = id

\* The result of the first slot with the id; meaningful after a Hit.
Replayed(id) ==
  seen[CHOOSE i \in Used : seen[i].id = id /\ \A j \in 0 .. i - 1 : seen[j].id # id].result

Advance_NoWrap(i) == i + 1

Advance(i) == IF i + 1 = RingSize THEN 0 ELSE i + 1

\* The next slot is overwritten: the oldest once the ring is full.
Insert(id, result) ==
  /\ seen' = [seen EXCEPT ![seenNext] = [id |-> id, result |-> result]]
  /\ seenNext' = Advance(seenNext)
  /\ seenLen' = IF seenLen < RingSize THEN seenLen + 1 ELSE seenLen

Update(id, result) ==
  /\ seen' = [i \in Slots |-> IF i \in Used /\ seen[i].id = id
                              THEN [id |-> id, result |-> result] ELSE seen[i]]
  /\ UNCHANGED <<seenLen, seenNext>>

Record(id, result) ==
  IF id = 0 THEN UNCHANGED ringVars
  ELSE IF Hit(id) THEN Update(id, result) ELSE Insert(id, result)

SessionReset_KeepsEntries == UNCHANGED ringVars

SessionReset_KeepsNext == seenLen' = 0 /\ UNCHANGED <<seen, seenNext>>

SessionReset ==
  /\ seenLen' = 0 /\ seenNext' = 0
  /\ UNCHANGED seen

\* The ring on its own, under any calls.
RingNext ==
  \/ \E id \in Ids, result \in Results : Record(id, result)
  \/ SessionReset

RingSpec == RingInit /\ [][RingNext]_ringVars
-----------------------------------------------------------------------------
RingTypeOK ==
  /\ seen \in [Slots -> [id : Ids \cup {0}, result : Results]]
  /\ seenLen \in 0 .. RingSize /\ seenNext \in Slots

\* The slot of the k-th oldest entry.  The ring fills from slot zero, and only
\* a full ring has its oldest entry at seenNext.
SlotOf(k) ==
  IF seenLen < RingSize THEN k - 1
  ELSE IF seenNext + k - 1 < RingSize THEN seenNext + k - 1
  ELSE seenNext + k - 1 - RingSize

Recent == INSTANCE RecentResults
  WITH Capacity <- RingSize, Ids <- Ids \ {0},
       recent <- [k \in 1 .. seenLen |-> seen[SlotOf(k)]]

\* The ring keeps exactly the results of the last RingSize different actions
\* since the session began: an insertion forgets the oldest and nothing else,
\* no id is kept twice, and nothing survives a reset (proto_session.c:69-115).
RingIsRecent == Recent!Spec
=============================================================================
