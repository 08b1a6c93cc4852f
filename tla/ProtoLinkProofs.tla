--------------------------- MODULE ProtoLinkProofs ---------------------------
(***************************************************************************)
(* For any ring, any number of sessions and any client: the replay ring is *)
(* a memory of the last RingSize results (RecentResults), also with the    *)
(* resets of the connection callback between any two steps of a handler;   *)
(* the receive buffer never fills up; and what the client reads is a       *)
(* stream of whole replies.                                                *)
(***************************************************************************)
EXTENDS ProtoLink, SequenceTheorems, TLAPS

\* Until it is full the ring is filled from slot zero; no id is in two slots.
RingInv ==
  /\ RingTypeOK
  /\ seenLen < RingSize => seenNext = seenLen
  /\ \A i \in Used : seen[i].id # 0
  /\ \A i, j \in Used : seen[i].id = seen[j].id => i = j

\* The entries of the ring, oldest first: the mapping of Recent.
RecentList == [k \in 1 .. seenLen |-> seen[SlotOf(k)]]

\* The mapping is a sequence of entries, from all the slots in use.
ListFacts ==
  /\ RecentList \in Seq([id : Ids \ {0}, result : Results])
  /\ Len(RecentList) = seenLen
  /\ \A k \in 1 .. seenLen : SlotOf(k) \in Used /\ RecentList[k] = seen[SlotOf(k)]
  /\ \A i \in Used : \E k \in 1 .. seenLen : SlotOf(k) = i
-----------------------------------------------------------------------------
LEMMA ListOfRing == RingInv => ListFacts
<1> SUFFICES ASSUME RingInv PROVE ListFacts
  OBVIOUS
<1> USE RingOK
<1>1. seenLen \in Nat /\ seenNext \in Slots /\ seenLen <= RingSize
  BY DEF RingInv, RingTypeOK, Slots
<1>2. \A k \in 1 .. seenLen : SlotOf(k) \in Used
  BY <1>1 DEF SlotOf, Used, Slots, RingInv
<1>3. \A i \in Used : seen[i] \in [id : Ids \ {0}, result : Results]
  BY <1>1 DEF RingInv, RingTypeOK, Used, Slots
<1>4. RecentList \in [1 .. seenLen -> [id : Ids \ {0}, result : Results]]
  BY <1>2, <1>3 DEF RecentList
<1>5. \A i \in Used : \E k \in 1 .. seenLen : SlotOf(k) = i
  <2>1. CASE seenLen < RingSize
    BY <1>1, <2>1 DEF SlotOf, Used
  <2>2. CASE seenLen = RingSize
    <3> TAKE i \in Used
    <3>1. CASE i >= seenNext
      <4>1. i - seenNext + 1 \in 1 .. seenLen /\ SlotOf(i - seenNext + 1) = i
        BY <1>1, <2>2, <3>1 DEF SlotOf, Used, Slots
      <4> QED  BY <4>1
    <3>2. CASE i < seenNext
      <4>1. i - seenNext + 1 + RingSize \in 1 .. seenLen /\ SlotOf(i - seenNext + 1 + RingSize) = i
        BY <1>1, <2>2, <3>2 DEF SlotOf, Used, Slots
      <4> QED  BY <4>1
    <3> QED  BY <1>1, <3>1, <3>2 DEF Used, Slots
  <2> QED  BY <1>1, <2>1, <2>2
<1>6. RecentList \in Seq([id : Ids \ {0}, result : Results])
  <2>1. RecentList \in UNION {[1 .. n -> [id : Ids \ {0}, result : Results]] : n \in Nat}
    BY <1>1, <1>4
  <2> QED  BY <2>1, SeqDef, Zenon
<1>7. Len(RecentList) = seenLen
  <2>1. DOMAIN RecentList = 1 .. seenLen
    BY <1>4
  <2>2. DOMAIN RecentList = 1 .. Len(RecentList) /\ Len(RecentList) \in Nat
    BY <1>6, LenProperties
  <2> QED  BY <1>1, <2>1, <2>2
<1> QED  BY <1>2, <1>5, <1>6, <1>7 DEF RecentList, ListFacts

LEMMA ListOfRingNext == RingInv' => ListFacts'
BY ListOfRing, PTL

\* An insertion is Remember: it appends, and a full ring loses its oldest entry.
LEMMA InsertRemembers ==
  ASSUME RingInv, NEW id \in Ids \ {0}, NEW result \in Results,
         ~Hit(id), Insert(id, result)
  PROVE  RingInv' /\ Recent!Remember(id, result)
<1> USE RingOK
<1> DEFINE E == [id : Ids \ {0}, result : Results]
           e == [id |-> id, result |-> result]
<1>1. /\ seenLen \in 0 .. RingSize /\ seenNext \in Slots
      /\ seen \in [Slots -> [id : Ids \cup {0}, result : Results]]
  BY DEF RingInv, RingTypeOK
<1>2. seenNext' = Advance(seenNext) /\ seen' = [seen EXCEPT ![seenNext] = e]
  BY DEF Insert
<1>3. \A i \in Used : seen[i].id # id
  BY DEF Hit
<1>4. RingTypeOK'
  BY <1>1, <1>2 DEF Insert, Advance, RingTypeOK, Slots
<1>5. CASE seenLen < RingSize
  <2>1. seenLen' = seenLen + 1 /\ seenNext = seenLen
    BY <1>5 DEF Insert, RingInv
  <2>2. /\ \A i \in Used' : i \in Used \/ i = seenNext
        /\ \A i \in Used : i # seenNext /\ i \in Slots
    BY <1>1, <2>1 DEF Used, Slots
  <2>3. seen'[seenNext] = e /\ \A i \in Used : seen'[i] = seen[i]
    BY <1>1, <1>2, <2>2
  <2>4. RingInv'
    <3>1. (seenLen < RingSize => seenNext = seenLen)'
      BY <1>1, <1>2, <2>1 DEF Advance, Slots
    <3>2. \A i, j \in Used' : seen'[i].id = seen'[j].id => i = j
      BY <1>3, <2>2, <2>3 DEF RingInv
    <3>3. \A i \in Used' : seen'[i].id # 0
      BY <2>2, <2>3 DEF RingInv
    <3> QED  BY <1>4, <3>1, <3>2, <3>3 DEF RingInv
  <2>5. /\ RecentList \in Seq(E) /\ Len(RecentList) = seenLen
        /\ \A k \in 1 .. seenLen : SlotOf(k) \in Used /\ RecentList[k] = seen[SlotOf(k)]
    BY ListOfRing DEF ListFacts
  <2>6. /\ RecentList' \in Seq(E) /\ Len(RecentList') = seenLen + 1
        /\ \A k \in 1 .. seenLen + 1 : RecentList'[k] = seen'[SlotOf(k)']
    BY <2>1, <2>4, ListOfRingNext DEF ListFacts
  <2>7. /\ \A k \in 1 .. seenLen : SlotOf(k) = k - 1
        /\ \A k \in 1 .. seenLen + 1 : SlotOf(k)' = k - 1
    <3>1. \A k \in 1 .. seenLen : SlotOf(k) = k - 1
      BY <1>1, <1>5 DEF SlotOf
    <3>2. CASE seenLen + 1 < RingSize
      BY <1>1, <2>1, <3>1, <3>2 DEF SlotOf
    <3>3. CASE seenLen + 1 = RingSize
      <4>1. seenNext' = 0
        BY <1>2, <2>1, <3>3 DEF Advance
      <4> QED  BY <1>1, <2>1, <3>1, <3>3, <4>1 DEF SlotOf
    <3> QED  BY <1>1, <1>5, <3>2, <3>3
  <2>8. e \in E
    OBVIOUS
  <2>9. RecentList' = Append(RecentList, e)
    <3>1. /\ Append(RecentList, e) \in Seq(E) /\ Len(Append(RecentList, e)) = seenLen + 1
          /\ \A k \in 1 .. seenLen : Append(RecentList, e)[k] = RecentList[k]
          /\ Append(RecentList, e)[seenLen + 1] = e
      BY <1>1, <2>5, <2>8, AppendProperties
    <3>2. \A k \in 1 .. seenLen + 1 : RecentList'[k] = Append(RecentList, e)[k]
      <4>1. \A k \in 1 .. seenLen : RecentList'[k] = Append(RecentList, e)[k]
        <5> TAKE k \in 1 .. seenLen
        <5>1. k \in 1 .. seenLen + 1 /\ SlotOf(k) \in Used /\ SlotOf(k)' = SlotOf(k)
          BY <1>1, <2>5, <2>7
        <5> QED  BY <2>3, <2>5, <2>6, <3>1, <5>1
      <4>2. RecentList'[seenLen + 1] = e
        <5>1. seenLen + 1 \in 1 .. seenLen + 1 /\ (seenLen + 1) - 1 = seenNext
          BY <1>1, <2>1
        <5>2. RecentList'[seenLen + 1] = seen'[(seenLen + 1) - 1]
          BY <2>6, <2>7, <5>1
        <5> QED  BY <2>3, <5>1, <5>2
      <4> QED  BY <1>1, <3>1, <4>1, <4>2
    <3> QED  BY <2>6, <3>1, <3>2, SeqEqual
  <2>10. \A k \in DOMAIN RecentList : RecentList[k].id # id
    BY <1>3, <2>5, LenProperties
  <2> QED
    BY <1>5, <2>4, <2>5, <2>9, <2>10 DEF Recent!Remember, RecentList
<1>6. CASE seenLen = RingSize
  <2>1. seenLen' = seenLen
    BY <1>6 DEF Insert
  <2>2. Used' = Used /\ Used = Slots
    BY <1>1, <1>6, <2>1 DEF Used, Slots
  <2>3. seen'[seenNext] = e /\ \A i \in Used : i # seenNext => seen'[i] = seen[i]
    BY <1>1, <1>2, <2>2
  <2>4. RingInv'
    <3>1. (seenLen < RingSize => seenNext = seenLen)'
      BY <1>6, <2>1
    <3>2. \A i, j \in Used' : seen'[i].id = seen'[j].id => i = j
      BY <1>3, <2>2, <2>3 DEF RingInv
    <3>3. \A i \in Used' : seen'[i].id # 0
      BY <2>2, <2>3 DEF RingInv
    <3> QED  BY <1>4, <3>1, <3>2, <3>3 DEF RingInv
  <2>5. /\ RecentList \in Seq(E) /\ Len(RecentList) = seenLen
        /\ \A k \in 1 .. seenLen : SlotOf(k) \in Used /\ RecentList[k] = seen[SlotOf(k)]
    BY ListOfRing DEF ListFacts
  <2>6. /\ RecentList' \in Seq(E) /\ Len(RecentList') = seenLen
        /\ \A k \in 1 .. seenLen : RecentList'[k] = seen'[SlotOf(k)']
    BY <2>1, <2>4, ListOfRingNext DEF ListFacts
  <2>7. /\ \A k \in 1 .. seenLen - 1 : SlotOf(k)' = SlotOf(k + 1) /\ SlotOf(k + 1) # seenNext
        /\ \A k \in 1 .. seenLen : k = seenLen => SlotOf(k)' = seenNext
    BY <1>1, <1>2, <1>6, <2>1 DEF SlotOf, Advance, Slots
  <2>8. e \in E
    OBVIOUS
  <2>9. RecentList' = Append(Tail(RecentList), e)
    <3>1. /\ Tail(RecentList) \in Seq(E) /\ Len(Tail(RecentList)) = seenLen - 1
          /\ \A k \in 1 .. seenLen - 1 : Tail(RecentList)[k] = RecentList[k + 1]
      BY <1>1, <1>6, <2>5, HeadTailProperties, EmptySeq
    <3>2. /\ Append(Tail(RecentList), e) \in Seq(E)
          /\ Len(Append(Tail(RecentList), e)) = seenLen
          /\ \A k \in 1 .. seenLen - 1 : Append(Tail(RecentList), e)[k] = Tail(RecentList)[k]
          /\ Append(Tail(RecentList), e)[seenLen] = e
      BY <1>1, <1>6, <2>8, <3>1, AppendProperties
    <3>3. \A k \in 1 .. seenLen - 1 : RecentList'[k] = RecentList[k + 1]
      <4> TAKE k \in 1 .. seenLen - 1
      <4>1. k \in 1 .. seenLen /\ k + 1 \in 1 .. seenLen
        BY <1>1
      <4>2. SlotOf(k + 1) \in Used /\ SlotOf(k + 1) # seenNext /\ SlotOf(k)' = SlotOf(k + 1)
        BY <2>5, <2>7, <4>1
      <4> QED  BY <2>3, <2>5, <2>6, <4>1, <4>2
    <3>4. RecentList'[seenLen] = e
      <4>1. seenLen \in 1 .. seenLen /\ seenNext \in Used
        BY <1>1, <1>6, <2>2
      <4> HIDE DEF e
      <4>2. \A k \in 1 .. seenLen : k = seenLen => RecentList'[k] = seen'[seenNext]
        BY <2>6, <2>7
      <4> QED  BY <2>3, <4>1, <4>2
    <3>5. \A k \in 1 .. seenLen : RecentList'[k] = Append(Tail(RecentList), e)[k]
      BY <1>1, <3>1, <3>2, <3>3, <3>4
    <3> QED  BY <2>6, <3>2, <3>5, SeqEqual
  <2>10. \A k \in DOMAIN RecentList : RecentList[k].id # id
    BY <1>3, <2>5, LenProperties
  <2>11. ~(Len(RecentList) < RingSize)
    BY <1>1, <1>6, <2>5
  <2> QED
    BY <2>4, <2>9, <2>10, <2>11, Zenon DEF Recent!Remember, RecentList
<1> QED  BY <1>1, <1>5, <1>6

\* Recording an id that the ring has is Replace.
LEMMA UpdateReplaces ==
  ASSUME RingInv, NEW id \in Ids \ {0}, NEW result \in Results,
         Hit(id), Update(id, result)
  PROVE  RingInv' /\ Recent!Replace(id, result)
<1> USE RingOK
<1> DEFINE E == [id : Ids \ {0}, result : Results]
           e == [id |-> id, result |-> result]
<1>1. PICK i \in Used : seen[i].id = id
  BY DEF Hit
<1>2. /\ seen \in [Slots -> [id : Ids \cup {0}, result : Results]]
      /\ seenLen \in 0 .. RingSize /\ seenNext \in Slots /\ Used \subseteq Slots
  BY DEF RingInv, RingTypeOK, Used, Slots
<1>3. \A j \in Used : seen[j].id = id => j = i
  BY <1>1 DEF RingInv
<1>4. seen' = [seen EXCEPT ![i] = e] /\ seenLen' = seenLen /\ seenNext' = seenNext
  BY <1>1, <1>2, <1>3 DEF Update
<1>5. RingInv'
  BY <1>1, <1>2, <1>4 DEF RingInv, RingTypeOK, Used, Slots
<1>6. /\ RecentList \in Seq(E) /\ Len(RecentList) = seenLen
      /\ \A k \in 1 .. seenLen : SlotOf(k) \in Used /\ RecentList[k] = seen[SlotOf(k)]
  BY ListOfRing DEF ListFacts
<1>7. PICK k \in 1 .. seenLen : SlotOf(k) = i
  BY <1>1, ListOfRing DEF ListFacts
<1>8. \A j \in 1 .. seenLen : SlotOf(j)' = SlotOf(j)
  BY <1>4 DEF SlotOf
<1>9. /\ RecentList' \in Seq(E) /\ Len(RecentList') = seenLen
      /\ \A j \in 1 .. seenLen : RecentList'[j] = seen'[SlotOf(j)]
  BY <1>4, <1>5, <1>8, ListOfRingNext DEF ListFacts
<1>10. \A j \in 1 .. seenLen : j # k => SlotOf(j) # i
  BY <1>2, <1>7 DEF SlotOf, Slots
<1>11. RecentList' = [RecentList EXCEPT ![k] = e]
  <2>1. /\ [RecentList EXCEPT ![k] = e] \in Seq(E)
        /\ Len([RecentList EXCEPT ![k] = e]) = seenLen
        /\ \A j \in 1 .. seenLen : [RecentList EXCEPT ![k] = e][j] = IF j = k THEN e ELSE RecentList[j]
    BY <1>6, ExceptSeq
  <2>2. \A j \in 1 .. seenLen : RecentList'[j] = IF j = k THEN e ELSE RecentList[j]
    BY <1>1, <1>2, <1>4, <1>6, <1>7, <1>9, <1>10
  <2> QED  BY <1>9, <2>1, <2>2, SeqEqual
<1>12. k \in DOMAIN RecentList /\ RecentList[k].id = id
  BY <1>1, <1>6, <1>7, LenProperties
<1> QED
  BY <1>5, <1>11, <1>12 DEF Recent!Replace, RecentList

\* A reset, of the session or of the whole device, is Forget.
LEMMA ResetForgets ==
  ASSUME RingInv, seenLen' = 0, seenNext' = 0,
         seen' \in [Slots -> [id : Ids \cup {0}, result : Results]]
  PROVE  RingInv' /\ Recent!Forget
<1> USE RingOK
<1>1. RingInv'
  BY DEF RingInv, RingTypeOK, Slots, Used
<1>2. RecentList' \in Seq([id : Ids \ {0}, result : Results]) /\ Len(RecentList') = 0
  BY <1>1, ListOfRingNext DEF ListFacts
<1>3. RecentList' = <<>>
  BY <1>2, EmptySeq
<1> QED  BY <1>1, <1>3 DEF Recent!Forget, RecentList
-----------------------------------------------------------------------------
Byte == [v : Nat, r : Request]

\* What the ring needs of the link: a result is recorded under an id of its own.
\* All bytes belong to requests, so what the receive task takes from them does.
LinkInv ==
  /\ kind \in Clients /\ session \in 0 .. MaxSessions /\ (up => session # 0)
  /\ issued \in 0 .. MaxIssued[kind]
  /\ pipe \in Seq([line : BOOLEAN, bytes : Seq(Byte)])
  /\ rxFifo \in Seq(Byte) /\ chunk \in Seq(Byte) /\ rx \in Seq(Byte)
  /\ total \in Nat
  /\ req \in Request \cup {None} /\ reply \in Results
  /\ pc \in {"execute", "record"} => req \in Request

\* Where the receive task stands when the buffer may be full.
FrameRoom ==
  /\ Len(rx) <= FrameCapacity
  /\ pc \in {"wait", "read", "feed"} => Len(rx) < FrameCapacity

IInv == LinkInv /\ FrameRoom /\ RingInv

\* A frame of the client is a sequence of its bytes.
LEMMA FrameBytes ==
  ASSUME NEW r \in Request
  PROVE  Frame(r) \in Seq(Byte) /\ \A n \in 1 .. 3 : SubSeq(Frame(r), 1, n) \in Seq(Byte)
<1>1. Frame(r) \in Seq(Byte) /\ Len(Frame(r)) = 4
  <2>1. \A v \in {0, 2, OpenBrace, CloseBrace} : [v |-> v, r |-> r] \in Byte
    BY DEF Byte, OpenBrace, CloseBrace
  <2> QED  BY <2>1 DEF Frame
<1>2. ASSUME NEW n \in 1 .. 3
      PROVE  SubSeq(Frame(r), 1, n) \in Seq(Byte)
  <2>1. \A i \in 1 .. n : Frame(r)[i] \in Byte
    <3>1. \A i \in 1 .. n : i \in 1 .. Len(Frame(r))
      BY <1>1
    <3> QED  BY <1>1, <3>1, ElementOfSeq
  <2> QED  BY <2>1, SubSeqProperties
<1> QED  BY <1>1, <1>2

\* The ids a client uses are ids.
LEMMA OwnRequest ==
  ASSUME LinkInv, up, NEW id \in 1 .. MaxIssued[kind]
  PROVE  <<session, id>> \in Request
<1>1. session \in Sessions
  BY LinkOK DEF LinkInv, Sessions
<1>2. MaxIssued[kind] \in Nat /\ 0 .. MaxIssued[kind] \subseteq Ids
  BY LinkOK DEF LinkInv
<1>3. id \in Ids \ {0}
  BY <1>2
<1> QED  BY <1>1, <1>3 DEF Request

LEMMA InitIInv == Init => IInv
BY RingOK, LinkOK DEF Init, IInv, LinkInv, FrameRoom, RingInv, RingInit, RingTypeOK,
  DeviceStart, Slots, Used, FrameCapacity, MAXFRAME, HEADER
\* With the ring as it was, so is what it is mapped to.
RingStutters == RingInv' /\ RecentList' = RecentList

LEMMA RingUnchanged ==
  ASSUME RingInv, UNCHANGED ringVars
  PROVE  RingStutters
BY DEF RingStutters, ringVars, RingInv, RingTypeOK, Used, Slots, RecentList, SlotOf

\* The client writes frames of requests; it touches nothing of the device.
LEMMA ClientKeeps ==
  ASSUME IInv, ClientStep
  PROVE  LinkInv' /\ FrameRoom' /\ RingStutters
<1> USE RingOK, LinkOK
<1> DEFINE P == Seq([line : BOOLEAN, bytes : Seq(Byte)])
<1>1. LinkInv /\ FrameRoom /\ RingInv
  BY DEF IInv
<1>2. ASSUME UNCHANGED Device, UNCHANGED kind,
             session' \in 0 .. MaxSessions, up' => session' # 0,
             issued' \in 0 .. MaxIssued[kind], pipe' \in P
      PROVE  LinkInv' /\ FrameRoom' /\ RingStutters
  <2>1. UNCHANGED ringVars
    BY <1>2 DEF Device
  <2>2. LinkInv' /\ FrameRoom'
    BY <1>1, <1>2 DEF Device, driver, parser, handler, LinkInv, FrameRoom
  <2> QED  BY <1>1, <2>1, <2>2, RingUnchanged
<1>3. /\ pipe \in P /\ issued \in 0 .. MaxIssued[kind] /\ MaxIssued[kind] \in Nat
      /\ session \in 0 .. MaxSessions /\ (up => session # 0)
  BY <1>1 DEF LinkInv
<1>4. \A b \in BOOLEAN : Append(pipe, Line(b)) \in P
  BY <1>3 DEF Line
<1>5. \A b \in Seq(Byte) : Data(b) \in [line : BOOLEAN, bytes : Seq(Byte)]
  BY DEF Data
<1>6. ASSUME up, NEW id \in 1 .. MaxIssued[kind]
      PROVE  Append(pipe, Data(Frame(<<session, id>>))) \in P
  <2>1. Frame(<<session, id>>) \in Seq(Byte)
    BY <1>1, <1>6, OwnRequest, FrameBytes
  <2> QED  BY <1>3, <1>5, <2>1
<1>7. CASE OpenPort
  <2>1. session' \in 0 .. MaxSessions /\ session' # 0
    BY <1>3, <1>7, LinkOK DEF OpenPort
  <2>2. issued' \in 0 .. MaxIssued[kind]
    BY <1>3, <1>7 DEF OpenPort
  <2>3. UNCHANGED Device /\ UNCHANGED kind /\ pipe' = Append(pipe, Line(TRUE))
    BY <1>7 DEF OpenPort
  <2> QED  BY <1>2, <1>4, <2>1, <2>2, <2>3
<1>8. ASSUME NEW id \in 1 .. MaxIssued[kind], Write(id), issued' \in 0 .. MaxIssued[kind]
      PROVE  LinkInv' /\ FrameRoom' /\ RingStutters
  BY <1>2, <1>3, <1>6, <1>8 DEF Write
<1>9. CASE Send
  <2>1. issued + 1 \in 1 .. MaxIssued[kind] /\ issued' = issued + 1 /\ Write(issued + 1)
    BY <1>3, <1>9, LinkOK DEF Send
  <2> QED  BY <1>3, <1>8, <2>1
<1>10. CASE Retry \/ LateRetry
  <2>1. PICK id \in 1 .. issued : Write(id)
    BY <1>10 DEF Retry, LateRetry
  <2>2. id \in 1 .. MaxIssued[kind] /\ issued' = issued
    BY <1>3, <1>10, <2>1 DEF Retry, LateRetry
  <2> QED  BY <1>3, <1>8, <2>1, <2>2
<1>11. CASE ClosePort
  BY <1>2, <1>3, <1>4, <1>11 DEF ClosePort
<1>12. CASE Vanish
  <2>1. PICK n \in 1 .. 3 :
          pipe' = pipe \o <<Data(SubSeq(Frame(<<session, issued + 1>>), 1, n)), Line(FALSE)>>
    BY <1>12 DEF Vanish
  <2>2. issued + 1 \in 1 .. MaxIssued[kind]
    BY <1>3, <1>12 DEF Vanish
  <2>3. SubSeq(Frame(<<session, issued + 1>>), 1, n) \in Seq(Byte)
    BY <1>1, <1>12, <2>2, OwnRequest, FrameBytes DEF Vanish
  <2>4. Line(FALSE) \in [line : BOOLEAN, bytes : Seq(Byte)]
    BY DEF Line
  <2>5. pipe' \in P
    <3> DEFINE lost == <<Data(SubSeq(Frame(<<session, issued + 1>>), 1, n)), Line(FALSE)>>
    <3>1. lost \in P
      <4> DEFINE b == SubSeq(Frame(<<session, issued + 1>>), 1, n)
      <4>1. Data(b) \in [line : BOOLEAN, bytes : Seq(Byte)]
        BY <1>5, <2>3
      <4> HIDE DEF b
      <4>2. \A S : \A x, y \in S : <<x, y>> \in Seq(S)
        OBVIOUS
      <4>3. <<Data(b), Line(FALSE)>> \in P
        BY <2>4, <4>1, <4>2
      <4> QED  BY <4>3 DEF b
    <3> HIDE DEF lost
    <3> QED  BY <1>3, <2>1, <3>1, ConcatProperties DEF lost
  <2> QED  BY <1>2, <1>3, <1>12, <2>5 DEF Vanish
<1> QED
  BY <1>7, <1>9, <1>10, <1>11, <1>12 DEF ClientStep
\* The TinyUSB task moves bytes and resets; the ring it leaves alone or empties.
LEMMA UsbKeeps ==
  ASSUME IInv, UsbStep
  PROVE  LinkInv' /\ FrameRoom' /\ (RingStutters \/ (RingInv' /\ Recent!Forget))
<1> USE RingOK, LinkOK
<1>1. LinkInv /\ FrameRoom /\ RingInv
  BY DEF IInv
<1>2. ASSUME pc' = pc, rx' = rx \/ rx' = <<>>
      PROVE  FrameRoom'
  BY <1>1, <1>2 DEF FrameRoom, LinkInv, FrameCapacity, MAXFRAME, HEADER
<1>3. ASSUME UNCHANGED <<kind, up, session, issued, pc, chunk, total, req, reply>>,
             pipe' \in Seq([line : BOOLEAN, bytes : Seq(Byte)]),
             rxFifo' \in Seq(Byte), rx' \in Seq(Byte)
      PROVE  LinkInv'
  BY <1>1, <1>3 DEF LinkInv
<1>4. /\ pipe \in Seq([line : BOOLEAN, bytes : Seq(Byte)])
      /\ rxFifo \in Seq(Byte) /\ rx \in Seq(Byte)
  BY <1>1 DEF LinkInv
<1>5. ASSUME UNCHANGED ringVars
      PROVE  RingStutters
  BY <1>1, <1>5, RingUnchanged
<1>6. CASE Arrive
  <2>1. Tail(pipe) \in Seq([line : BOOLEAN, bytes : Seq(Byte)]) /\ Head(pipe).bytes \in Seq(Byte)
    <3>1. Tail(pipe) \in Seq([line : BOOLEAN, bytes : Seq(Byte)])
          /\ Head(pipe) \in [line : BOOLEAN, bytes : Seq(Byte)]
      BY <1>4, <1>6, HeadTailProperties DEF Arrive
    <3>2. \A x \in [line : BOOLEAN, bytes : Seq(Byte)] : x.bytes \in Seq(Byte)
      OBVIOUS
    <3> QED  BY <3>1, <3>2
  <2>2. rxFifo \o Head(pipe).bytes \in Seq(Byte)
    BY <1>4, <2>1, ConcatProperties
  <2>3. LinkInv' /\ FrameRoom'
    BY <1>2, <1>3, <1>4, <1>6, <2>1, <2>2 DEF Arrive, host, parser, handler
  <2> QED  BY <1>5, <1>6, <2>3 DEF Arrive
<1>7. CASE LineState
  <2>1. Tail(pipe) \in Seq([line : BOOLEAN, bytes : Seq(Byte)])
    BY <1>4, <1>7, HeadTailProperties DEF LineState
  <2>2. LinkInv' /\ FrameRoom'
    BY <1>2, <1>3, <1>4, <1>7, <2>1 DEF LineState, host, parser, handler
  <2> QED  BY <1>5, <1>7, <2>2 DEF LineState
<1>8. CASE TxReset
  BY <1>2, <1>3, <1>4, <1>5, <1>8 DEF TxReset, host, parser, handler
<1>9. CASE FrameReset
  <2>1. rx' = rx \/ rx' = <<>>
    BY <1>9 DEF FrameReset
  <2>2. rx' \in Seq(Byte)
    BY <1>4, <2>1, EmptySeq
  <2>3. LinkInv' /\ FrameRoom'
    BY <1>2, <1>3, <1>4, <1>9, <2>1, <2>2 DEF FrameReset, host, handler
  <2> QED  BY <1>5, <1>9, <2>3 DEF FrameReset
<1>10. CASE ConnectionDown
  <2>1. LinkInv' /\ FrameRoom'
    BY <1>2, <1>3, <1>4, <1>10 DEF ConnectionDown, host, parser, handler
  <2>2. RingInv' /\ Recent!Forget
    BY <1>1, <1>10, ResetForgets DEF ConnectionDown, SessionReset, RingInv, RingTypeOK
  <2> QED  BY <2>1, <2>2
<1>11. CASE Deliver
  <2>1. LinkInv' /\ FrameRoom'
    BY <1>2, <1>3, <1>4, <1>11 DEF Deliver, parser, handler
  <2> QED  BY <1>5, <1>11, <2>1 DEF Deliver
<1> QED
  BY <1>6, <1>7, <1>8, <1>9, <1>10, <1>11 DEF UsbStep
\* A hit has one slot, and its result is one that was recorded.
LEMMA HitHasResult ==
  ASSUME RingInv, NEW id, Hit(id)
  PROVE  Replayed(id) \in Results
<1> DEFINE First(i) == seen[i].id = id /\ \A j \in 0 .. i - 1 : seen[j].id # id
<1>1. PICK i \in Used : seen[i].id = id
  BY DEF Hit
<1>2. Used \subseteq Slots
  BY RingOK DEF RingInv, RingTypeOK, Used, Slots
<1>3. \A j \in 0 .. i - 1 : j \in Used /\ j # i
  BY <1>1, RingOK DEF RingInv, RingTypeOK, Used
<1>4. First(i)
  BY <1>1, <1>3 DEF RingInv
<1>5. \A j \in Used : seen[j].result \in Results
  BY <1>2 DEF RingInv, RingTypeOK
<1>6. (CHOOSE j \in Used : First(j)) \in Used
  BY <1>1, <1>4
<1> QED  BY <1>5, <1>6 DEF Replayed

\* The receive task: what the buffer may hold where, and one record per action.
LEMMA ReceiveKeeps ==
  ASSUME IInv, ReceiveStep
  PROVE  LinkInv' /\ FrameRoom' /\ (RingStutters \/ (RingInv' /\ Recent!Next))
<1> USE RingOK, LinkOK
<1>1. LinkInv /\ FrameRoom /\ RingInv
  BY DEF IInv
<1>2. /\ rxFifo \in Seq(Byte) /\ chunk \in Seq(Byte) /\ rx \in Seq(Byte)
      /\ Len(rx) \in Nat /\ total \in Nat /\ FrameCapacity = 5
  BY <1>1 DEF LinkInv, FrameCapacity, MAXFRAME, HEADER
<1>3. ASSUME UNCHANGED host, pipe' = pipe,
             rxFifo' \in Seq(Byte), chunk' \in Seq(Byte), rx' \in Seq(Byte),
             total' \in Nat, UNCHANGED <<req, reply>>, pc' \notin {"execute", "record"}
      PROVE  LinkInv'
  BY <1>1, <1>3 DEF LinkInv, host
<1>4. ASSUME UNCHANGED ringVars
      PROVE  RingStutters
  BY <1>1, <1>4, RingUnchanged
<1>5. CASE Wake
  <2>1. LinkInv' /\ FrameRoom'
    BY <1>1, <1>2, <1>3, <1>5 DEF Wake, parser, handler, FrameRoom
  <2> QED  BY <1>4, <1>5, <2>1 DEF Wake
<1>6. CASE Read
  <2>1. (rx' = rx \/ rx' = <<>>) /\ (chunk' = chunk \/ chunk' = rxFifo) /\ rxFifo' = <<>>
    BY <1>6 DEF Read
  <2>2. rx' \in Seq(Byte) /\ chunk' \in Seq(Byte) /\ rxFifo' \in Seq(Byte)
    BY <1>2, <2>1, EmptySeq
  <2>3. LinkInv'
    BY <1>2, <1>3, <1>6, <2>2 DEF Read, handler
  <2>4. FrameRoom'
    BY <1>1, <1>2, <1>6, <2>1 DEF Read, FrameRoom
  <2> QED  BY <1>4, <1>6, <2>3, <2>4 DEF Read
<1>7. CASE Feed
  <2>1. CASE chunk = <<>>
    <3>1. LinkInv' /\ FrameRoom'
      BY <1>1, <1>2, <1>3, <1>7, <2>1 DEF Feed, driver, handler, FrameRoom
    <3> QED  BY <1>4, <1>7, <3>1 DEF Feed
  <2>2. CASE chunk # <<>>
    <3>1. Len(rx) < FrameCapacity
      BY <1>1, <1>7 DEF Feed, FrameRoom
    <3>2. rx' = Append(rx, Head(chunk)) /\ chunk' = Tail(chunk) /\ pc' = "drain"
      BY <1>2, <1>7, <2>2, <3>1 DEF Feed
    <3>3. chunk' \in Seq(Byte) /\ rx' \in Seq(Byte) /\ Len(rx') = Len(rx) + 1
      BY <1>2, <2>2, <3>2, HeadTailProperties, AppendProperties
    <3>4. LinkInv' /\ FrameRoom'
      BY <1>2, <1>3, <1>7, <3>1, <3>2, <3>3 DEF Feed, driver, handler, FrameRoom
    <3> QED  BY <1>4, <1>7, <3>4 DEF Feed
  <2> QED  BY <2>1, <2>2
<1>8. CASE Drain
  <2>1. UNCHANGED ringVars /\ UNCHANGED host /\ pipe' = pipe /\ rxFifo' = rxFifo /\ chunk' = chunk
        /\ reply' = reply
    BY <1>8 DEF Drain, driver
  <2>2. CASE Len(rx) < HEADER
    <3>1. LinkInv' /\ FrameRoom'
      BY <1>2, <1>3, <1>8, <2>1, <2>2 DEF Drain, FrameRoom, HEADER
    <3> QED  BY <1>4, <2>1, <3>1
  <2>3. CASE Len(rx) >= HEADER
    <3> DEFINE n == ReadLength(rx)
    <3>1. n \in Nat
      <4>1. rx[1] \in Byte /\ rx[2] \in Byte
        BY <1>2, <2>3 DEF HEADER
      <4>2. rx[1].v \in Nat /\ rx[2].v \in Nat
        BY <4>1 DEF Byte
      <4> QED  BY <4>2 DEF ReadLength
    <3> HIDE DEF n
    <3>2. CASE ~Plausible(n) /\ rx' = Tail(rx) /\ UNCHANGED <<pc, total, req>>
      <4>1. rx' \in Seq(Byte) /\ Len(rx') = Len(rx) - 1
        BY <1>2, <2>3, <3>2, HeadTailProperties, EmptySeq DEF HEADER
      <4>2. pc' = "drain"
        BY <1>8, <3>2 DEF Drain
      <4>3. LinkInv' /\ FrameRoom'
        BY <1>1, <1>2, <1>3, <2>1, <3>2, <4>1, <4>2 DEF FrameRoom
      <4> QED  BY <1>4, <2>1, <4>3
    <3>3. CASE Plausible(n) /\ Len(rx) < HEADER + n /\ pc' = "feed" /\ UNCHANGED <<rx, total, req>>
      <4>1. Len(rx) < FrameCapacity
        BY <1>2, <3>1, <3>3 DEF Plausible, MAXFRAME, HEADER
      <4>2. LinkInv' /\ FrameRoom'
        BY <1>2, <1>3, <2>1, <3>3, <4>1 DEF FrameRoom
      <4> QED  BY <1>4, <2>1, <4>2
    <3>4. CASE /\ Plausible(n) /\ Len(rx) >= HEADER + n /\ total' = HEADER + n /\ rx' = rx
               /\ pc' \in {"dispatch", "shift"}
               /\ req' \in {req, None, rx[HEADER + 1].r}
      <4>1. rx[HEADER + 1] \in Byte
        BY <1>2, <3>1, <3>4 DEF Plausible, HEADER
      <4>2. req' \in Request \cup {None}
        BY <1>1, <3>4, <4>1 DEF LinkInv, Byte
      <4>3. LinkInv' /\ FrameRoom'
        BY <1>1, <1>2, <2>1, <3>1, <3>4, <4>2 DEF LinkInv, FrameRoom, host, HEADER
      <4> QED  BY <1>4, <2>1, <4>3
    <3> QED
      <4>1. \/ ~Plausible(n) /\ rx' = Tail(rx) /\ UNCHANGED <<pc, total, req>>
            \/ Plausible(n) /\ Len(rx) < HEADER + n /\ pc' = "feed" /\ UNCHANGED <<rx, total, req>>
            \/ /\ Plausible(n) /\ Len(rx) >= HEADER + n /\ total' = HEADER + n /\ rx' = rx
               /\ pc' \in {"dispatch", "shift"}
               /\ req' \in {req, None, rx[HEADER + 1].r}
        BY <1>2, <1>8, <2>3 DEF Drain, HEADER, n
      <4> QED  BY <3>2, <3>3, <3>4, <4>1
  <2> QED  BY <1>2, <2>2, <2>3 DEF HEADER
<1>9. CASE Shift
  <2>1. rx' \in Seq(Byte) /\ Len(rx') <= Len(rx)
    <3>1. \A i \in total + 1 .. Len(rx) : rx[i] \in Byte
      BY <1>2
    <3>2. rx' = SubSeq(rx, total + 1, Len(rx)) /\ total <= Len(rx)
      BY <1>2, <1>9 DEF Shift
    <3> QED  BY <1>2, <3>1, <3>2, SubSeqProperties
  <2>2. LinkInv' /\ FrameRoom'
    BY <1>1, <1>2, <1>9, <2>1 DEF Shift, host, driver, LinkInv, FrameRoom
  <2> QED  BY <1>4, <1>9, <2>2 DEF Shift
<1>10. CASE Fault
  <2>1. LinkInv' /\ FrameRoom'
    BY <1>1, <1>2, <1>10 DEF Fault, LinkInv, FrameRoom
  <2>2. RingInv' /\ Recent!Forget
    BY <1>1, <1>10, ResetForgets DEF Fault
  <2> QED  BY <2>1, <2>2 DEF Recent!Next
<1>11. CASE Dispatch
  <2>1. CASE pc' = "send" /\ reply' \in Results
    <3>1. LinkInv' /\ FrameRoom'
      BY <1>1, <1>2, <1>11, <2>1 DEF Dispatch, InHandler, host, driver, parser, LinkInv, FrameRoom
    <3> QED  BY <1>4, <1>11, <3>1 DEF Dispatch
  <2>2. CASE req # None /\ pc' = "execute" /\ reply' = reply
    <3>1. LinkInv' /\ FrameRoom'
      BY <1>1, <1>2, <1>11, <2>2 DEF Dispatch, InHandler, host, driver, parser, LinkInv, FrameRoom
    <3> QED  BY <1>4, <1>11, <3>1 DEF Dispatch
  <2> QED
    <3>1. Hit(req[2]) => Replayed(req[2]) \in Results
      BY <1>1, HitHasResult
    <3> QED  BY <1>11, <2>1, <2>2, <3>1 DEF Dispatch
<1>12. CASE Execute
  <2>1. req \in Request
    BY <1>1, <1>12 DEF Execute, LinkInv
  <2>2. LinkInv' /\ FrameRoom'
    BY <1>1, <1>2, <1>12, <2>1 DEF Execute, InHandler, host, driver, parser, LinkInv, FrameRoom
  <2> QED  BY <1>4, <1>12, <2>2 DEF Execute
<1>13. CASE RecordResult
  <2>1. req \in Request /\ reply \in Results
    BY <1>1, <1>13 DEF RecordResult, LinkInv
  <2>2. LinkInv' /\ FrameRoom'
    BY <1>1, <1>2, <1>13 DEF RecordResult, InHandler, handler, host, driver, parser, LinkInv, FrameRoom
  <2>3. req[2] \in Ids \ {0}
    BY <2>1 DEF Request
  <2>4. RingInv' /\ (Recent!Replace(req[2], reply) \/ Recent!Remember(req[2], reply))
    <3>1. CASE Hit(req[2])
      BY <1>1, <1>13, <2>1, <2>3, <3>1, UpdateReplaces DEF RecordResult, Record
    <3>2. CASE ~Hit(req[2])
      BY <1>1, <1>13, <2>1, <2>3, <3>2, InsertRemembers DEF RecordResult, Record
    <3> QED  BY <3>1, <3>2
  <2> QED  BY <2>1, <2>2, <2>3, <2>4 DEF Recent!Next
<1>14. CASE SendBegin \/ GiveUp
  <2>1. LinkInv' /\ FrameRoom'
    BY <1>1, <1>2, <1>3, <1>14 DEF SendBegin, GiveUp, parser, handler, FrameRoom
  <2> QED  BY <1>4, <1>14, <2>1 DEF SendBegin, GiveUp
<1>15. CASE SendPart
  <2>1. LinkInv' /\ FrameRoom'
    BY <1>1, <1>2, <1>3, <1>15 DEF SendPart, parser, FrameRoom
  <2> QED  BY <1>4, <1>15, <2>1 DEF SendPart
<1> QED
  BY <1>5, <1>6, <1>7, <1>8, <1>9, <1>10, <1>11, <1>12, <1>13, <1>14, <1>15 DEF ReceiveStep
-----------------------------------------------------------------------------
\* Together: every step of the link is a step of the recent results, or none.
LEMMA StepIInv == IInv /\ [Next]_vars => IInv' /\ (RingStutters \/ Recent!Next)
<1> SUFFICES ASSUME IInv, [Next]_vars
             PROVE  LinkInv' /\ FrameRoom' /\ (RingStutters \/ (RingInv' /\ Recent!Next))
  BY DEF IInv, RingStutters
<1>1. LinkInv /\ FrameRoom /\ RingInv
  BY DEF IInv
<1>2. CASE ClientStep
  BY <1>2, ClientKeeps
<1>3. CASE UsbStep
  BY <1>3, UsbKeeps DEF Recent!Next
<1>4. CASE ReceiveStep
  BY <1>4, ReceiveKeeps
<1>5. CASE Stuck \/ UNCHANGED vars
  <2>1. UNCHANGED <<kind, up, session, issued, pipe, rxFifo, chunk, rx, total, req, reply, pc>>
        /\ UNCHANGED ringVars
    BY <1>5 DEF Stuck, vars, host, driver, handler, parser
  <2>2. LinkInv' /\ FrameRoom'
    BY <1>1, <2>1 DEF LinkInv, FrameRoom
  <2> QED  BY <1>1, <2>1, <2>2, RingUnchanged
<1> QED  BY <1>2, <1>3, <1>4, <1>5 DEF Next

\* The strengthened invariant of the link holds under every interleaving of the
\* host, the USB task and the receive task.
THEOREM LinkIInv == Spec => []IInv
<1>1. Init => IInv
  BY InitIInv
<1>2. IInv /\ [Next]_vars => IInv'
  BY StepIInv
<1> QED  BY <1>1, <1>2, PTL DEF Spec

\* The buffer of proto_feed() always has room for the next byte, whatever
\* arrives and whenever the callback empties it.
THEOREM LinkNeverFull == Spec => []NeverFull
<1>1. IInv => NeverFull
  BY DEF IInv, FrameRoom, NeverFull
<1> QED  BY <1>1, LinkIInv, PTL

\* The ring of the running system implements the memory of the last RingSize
\* results, for any ring size, number of sessions and behaviour of the clients.
THEOREM LinkRingIsRecent == Spec => RingIsRecent
<1>1. Init => Recent!Init
  <2>1. ASSUME Init PROVE RecentList = <<>>
    <3>1. IInv /\ seenLen = 0
      BY <2>1, InitIInv DEF Init, RingInit
    <3>2. RecentList \in Seq([id : Ids \ {0}, result : Results]) /\ Len(RecentList) = 0
      BY <3>1, ListOfRing DEF IInv, ListFacts
    <3> QED  BY <3>2, EmptySeq
  <2> QED  BY <2>1 DEF Recent!Init, RecentList
<1>2. IInv /\ [Next]_vars => [Recent!Next]_RecentList
  BY StepIInv DEF RingStutters
<1> QED
  BY <1>1, <1>2, LinkIInv, PTL DEF Spec, RingIsRecent, Recent!Spec, RecentList
-----------------------------------------------------------------------------
(***************************************************************************)
(* What the client reads is a stream of whole replies, and every variable  *)
(* of the link keeps its type.                                             *)
(*                                                                         *)
(* The invariant follows the stream from the half that the client has read *)
(* over the ring to the half that the sender is about to queue.  It says   *)
(* nothing of a port that is closed, or open without the device knowing    *)
(* yet: all that is in the ring then is dropped when it does.              *)
(***************************************************************************)
HalfReply == [part : {"front", "back"}, id : Ids \cup {0}, result : Results]

LinkTypes ==
  /\ {up, misframed, dtr, rxSem, txFailed, stuck} \subseteq BOOLEAN
  /\ writes \in 0 .. MaxWrites[kind] /\ owed \in 0 .. MaxWrites[kind]
  /\ usb \in {"idle", "tx_reset", "frame_reset", "session_reset"}
  /\ pc \in {"wait", "read", "feed", "drain", "dispatch", "execute", "record",
            "send", "queue", "shift"}
  /\ txRing \in Seq(HalfReply) /\ Len(txRing) <= TxCapacity
  /\ half = <<>> \/ \E h \in HalfReply : half = <<h>>

\* The sender holds the mutex while it queues the two halves, and only then.
Sending ==
  /\ txMutex = IF pc = "queue" THEN "sender" ELSE "free"
  /\ pc = "queue" => ~txFailed /\ queued \in {0, 1}
  /\ queued \in 0 .. 2 /\ (pc \notin {"queue", "shift"} => queued = 0)

\* The client reads from the ring: the device has seen that the port is open.
Connected == up /\ dtr /\ ~LinePending /\ usb # "tx_reset"

Follows(x, y) == IF x.part = "front" THEN y = [x EXCEPT !.part = "back"] ELSE y.part = "front"

\* The last half that was queued, if the client has not joined it yet.
Tip == IF txRing = <<>> THEN half ELSE <<txRing[Len(txRing)]>>

Stream ==
  /\ half # <<>> => half[1].part = "front"
  /\ txRing # <<>> =>
       IF half = <<>> THEN txRing[1].part = "front" ELSE Follows(half[1], txRing[1])
  /\ \A i \in 1 .. Len(txRing) - 1 : Follows(txRing[i], txRing[i + 1])
  /\ Tip # <<>> /\ Tip[1].part = "front" => txFailed \/ (pc = "queue" /\ queued = 1)
  /\ pc = "queue" /\ queued = 1 => Tip = <<Half(0)>>

Frames ==
  /\ ~misframed
  /\ up /\ ~Connected => half = <<>>
  /\ Connected => Stream

FramingInv == LinkTypes /\ Sending /\ Frames
-----------------------------------------------------------------------------
(***************************************************************************)
(* The port                                                                *)
(***************************************************************************)
Sent == [line : BOOLEAN, bytes : Seq(Byte)]

\* What the host writes is no change of the port; a change stays to be seen
\* until the TinyUSB task takes it.
LEMMA PendingAppend ==
  ASSUME pipe \in Seq(Sent), NEW x \in Sent, pipe' = Append(pipe, x)
  PROVE  LinePending' <=> LinePending \/ x.bytes = <<>>
<1>1. /\ pipe' \in Seq(Sent) /\ Len(pipe') = Len(pipe) + 1 /\ Len(pipe) \in Nat
      /\ \A k \in 1 .. Len(pipe) : pipe'[k] = pipe[k]
  BY AppendProperties
<1>2. pipe'[Len(pipe) + 1] = x
  BY AppendProperties, Zenon
<1>3. DOMAIN pipe = 1 .. Len(pipe) /\ DOMAIN pipe' = 1 .. (Len(pipe) + 1)
  BY <1>1, LenProperties
<1>4. \A k \in DOMAIN pipe' : k \in DOMAIN pipe \/ k = Len(pipe) + 1
  BY <1>1, <1>3
<1>5. Len(pipe) + 1 \in DOMAIN pipe' /\ DOMAIN pipe \subseteq DOMAIN pipe'
  BY <1>1, <1>3
<1>6. \A k \in DOMAIN pipe : pipe'[k] = pipe[k]
  BY <1>1, <1>3
<1> QED  BY <1>2, <1>4, <1>5, <1>6, Zenon DEF LinePending

LEMMA PendingTail ==
  ASSUME pipe \in Seq(Sent), pipe # <<>>, pipe' = Tail(pipe)
  PROVE  LinePending <=> Head(pipe).bytes = <<>> \/ LinePending'
<1>1. /\ Head(pipe) = pipe[1] /\ pipe' \in Seq(Sent) /\ Len(pipe') = Len(pipe) - 1
      /\ Len(pipe) \in Nat /\ Len(pipe) > 0
      /\ \A k \in 1 .. Len(pipe') : pipe'[k] = pipe[k + 1]
  <2>1. Len(pipe) \in Nat /\ Len(pipe) > 0
    BY EmptySeq
  <2> QED  BY <2>1, HeadTailProperties
<1>2. DOMAIN pipe = 1 .. Len(pipe) /\ DOMAIN pipe' = 1 .. (Len(pipe) - 1)
  BY <1>1, LenProperties
<1>3. ASSUME NEW k \in DOMAIN pipe
      PROVE  k = 1 \/ (k - 1 \in DOMAIN pipe' /\ pipe'[k - 1] = pipe[k])
  <2>1. k = 1 \/ (k - 1 \in 1 .. Len(pipe') /\ (k - 1) + 1 = k)
    BY <1>1, <1>2
  <2> QED  BY <1>1, <1>2, <2>1
<1>4. ASSUME NEW k \in DOMAIN pipe'
      PROVE  k + 1 \in DOMAIN pipe /\ pipe'[k] = pipe[k + 1]
  BY <1>1, <1>2
<1>5. 1 \in DOMAIN pipe
  BY <1>1, <1>2
<1>6. ASSUME LinePending  PROVE Head(pipe).bytes = <<>> \/ LinePending'
  BY <1>1, <1>3, <1>6 DEF LinePending
<1>7. ASSUME LinePending'  PROVE LinePending
  BY <1>4, <1>7 DEF LinePending
<1>8. ASSUME Head(pipe).bytes = <<>>  PROVE LinePending
  BY <1>1, <1>5, <1>8 DEF LinePending
<1> QED  BY <1>6, <1>7, <1>8

LEMMA FrameNotEmpty ==
  ASSUME NEW r
  PROVE  Frame(r) # <<>>
<1>1. Len(Frame(r)) = 4
  BY DEF Frame
<1> QED  BY <1>1
-----------------------------------------------------------------------------
(***************************************************************************)
(* The stream                                                              *)
(***************************************************************************)
\* A step that moves nothing.
LEMMA SameStream ==
  ASSUME Frames, UNCHANGED <<half, misframed, up, txRing, txFailed, pc, queued, req, reply>>,
         Connected' <=> Connected
  PROVE  Frames'
<1>1. Stream => Stream'
  BY DEF Stream, Tip, Half
<1> QED  BY <1>1 DEF Frames

\* A step of a receive task that is not sending, before and after.
LEMMA IdleStream ==
  ASSUME Frames, pc # "queue", pc' # "queue",
         UNCHANGED <<half, misframed, up, txRing, dtr, usb, pipe>>, txFailed => txFailed'
  PROVE  Frames'
<1>1. Connected' <=> Connected
  BY DEF Connected, LinePending
<1>2. Stream => Stream'
  BY DEF Stream, Tip
<1> QED  BY <1>1, <1>2 DEF Frames

\* The host: a write changes nothing, a port that was opened is not yet read.
LEMMA ClientFrames ==
  ASSUME LinkInv, FramingInv, ClientStep
  PROVE  Sending' /\ Frames'
<1>1. /\ UNCHANGED <<txRing, txFailed, txMutex, pc, queued, req, reply, dtr, usb, misframed>>
      /\ Sending'
  <2>1. UNCHANGED Device /\ misframed' = misframed
    BY DEF ClientStep, OpenPort, Send, Retry, LateRetry, Write, ClosePort, Vanish
  <2> QED  BY <2>1 DEF Device, driver, handler, FramingInv, Sending
<1>2. pipe \in Seq(Sent)
  BY DEF LinkInv, Sent
<1>3. CASE OpenPort
  <2>1. pipe' = Append(pipe, Line(TRUE)) /\ Line(TRUE) \in Sent /\ Line(TRUE).bytes = <<>>
    BY <1>3 DEF OpenPort, Line, Sent
  <2>2. LinePending'
    BY <1>2, <2>1, PendingAppend
  <2>3. half' = <<>>
    BY <1>3 DEF OpenPort
  <2> QED  BY <1>1, <2>2, <2>3 DEF Frames, FramingInv, Connected
<1>4. ASSUME NEW id \in 1 .. MaxIssued[kind], Write(id)
      PROVE  Frames'
  <2> DEFINE x == Data(Frame(<<session, id>>))
  <2>1. up /\ pipe' = Append(pipe, x) /\ UNCHANGED <<up, half>>
    BY <1>4 DEF Write
  <2>2. x \in Sent /\ x.bytes # <<>>
    <3>1. Frame(<<session, id>>) \in Seq(Byte)
      BY <1>4, <2>1, OwnRequest, FrameBytes
    <3> QED  BY <3>1, FrameNotEmpty DEF Data, Sent
  <2> HIDE DEF x
  <2>3. LinePending' <=> LinePending
    BY <1>2, <2>1, <2>2, PendingAppend
  <2>4. Connected' <=> Connected
    BY <1>1, <2>1, <2>3 DEF Connected
  <2> QED  BY <1>1, <2>1, <2>4, SameStream DEF FramingInv
<1>5. CASE Send \/ Retry \/ LateRetry
  <2>1. issued \in Nat /\ MaxIssued[kind] \in Nat /\ issued <= MaxIssued[kind]
    BY LinkOK DEF LinkInv
  <2>2. \E id \in 1 .. MaxIssued[kind] : Write(id)
    <3>1. CASE Send
      <4>1. issued + 1 \in 1 .. MaxIssued[kind] /\ Write(issued + 1)
        BY <2>1, <3>1 DEF Send
      <4> QED  BY <4>1
    <3>2. CASE Retry \/ LateRetry
      <4>1. PICK id \in 1 .. issued : Write(id)
        BY <3>2 DEF Retry, LateRetry
      <4>2. id \in 1 .. MaxIssued[kind]
        BY <2>1
      <4> QED  BY <4>1, <4>2
    <3> QED  BY <1>5, <3>1, <3>2
  <2>3. PICK id \in 1 .. MaxIssued[kind] : Write(id)
    BY <2>2
  <2> QED  BY <1>1, <1>4, <2>3
<1>6. CASE ClosePort \/ Vanish
  <2>1. ~up'
    BY <1>6 DEF ClosePort, Vanish
  <2> QED  BY <1>1, <2>1 DEF Frames, FramingInv, Connected
<1> QED  BY <1>1, <1>3, <1>5, <1>6 DEF ClientStep

\* The client joins the half at the head of the ring with the one it has.
LEMMA DeliverFrames ==
  ASSUME FramingInv, Deliver
  PROVE  Frames'
<1> DEFINE h == Head(txRing)
<1>1. /\ Connected /\ txRing # <<>> /\ txRing' = Tail(txRing)
      /\ UNCHANGED <<up, pipe, dtr, usb, txFailed, pc, queued, req, reply>>
  BY DEF Deliver, Connected, handler
<1>2. Connected'
  BY <1>1 DEF Connected, LinePending
<1>3. Stream /\ ~misframed /\ txRing \in Seq(HalfReply)
      /\ (half = <<>> \/ \E x \in HalfReply : half = <<x>>)
  BY <1>1 DEF FramingInv, Frames, LinkTypes
<1>4. /\ h = txRing[1] /\ h \in HalfReply /\ Len(txRing') = Len(txRing) - 1
      /\ Len(txRing) \in Nat /\ Len(txRing) > 0 /\ txRing' \in Seq(HalfReply)
      /\ \A i \in 1 .. Len(txRing') : txRing'[i] = txRing[i + 1]
  <2>1. Len(txRing) \in Nat /\ Len(txRing) > 0
    BY <1>1, <1>3, EmptySeq
  <2> QED  BY <1>1, <1>3, <2>1, HeadTailProperties
<1>5. \A i \in 1 .. Len(txRing') - 1 : Follows(txRing'[i], txRing'[i + 1])
  <2> TAKE i \in 1 .. Len(txRing') - 1
  <2>1. i \in 1 .. Len(txRing') /\ i + 1 \in 1 .. Len(txRing')
        /\ i + 1 \in 1 .. Len(txRing) - 1
    BY <1>4
  <2>2. txRing'[i] = txRing[i + 1] /\ txRing'[i + 1] = txRing[(i + 1) + 1]
    BY <1>4, <2>1
  <2>3. Follows(txRing[i + 1], txRing[(i + 1) + 1])
    BY <1>3, <2>1 DEF Stream
  <2> QED  BY <2>2, <2>3
<1>6. txRing' # <<>> => /\ Follows(h, txRing'[1])
                        /\ txRing'[Len(txRing')] = txRing[Len(txRing)]
  <2> SUFFICES ASSUME txRing' # <<>>
               PROVE  /\ Follows(h, txRing'[1])
                      /\ txRing'[Len(txRing')] = txRing[Len(txRing)]
    OBVIOUS
  <2>1. Len(txRing') \in Nat /\ Len(txRing') > 0
    BY <1>4, EmptySeq
  <2>2. 1 \in 1 .. Len(txRing) - 1 /\ 1 \in 1 .. Len(txRing')
        /\ Len(txRing') \in 1 .. Len(txRing') /\ Len(txRing') + 1 = Len(txRing)
    BY <1>4, <2>1
  <2>3. Follows(txRing[1], txRing[1 + 1])
    BY <1>3, <2>2 DEF Stream
  <2>4. txRing'[1] = txRing[1 + 1] /\ txRing'[Len(txRing')] = txRing[Len(txRing') + 1]
    BY <1>4, <2>2
  <2> QED  BY <1>4, <2>2, <2>3, <2>4
<1>7. txRing' = <<>> => Len(txRing) = 1
  BY <1>4, EmptySeq
<1>8. Tip = <<txRing[Len(txRing)]>>
  BY <1>1 DEF Tip
<1> HIDE DEF h
<1>9. CASE half = <<>>
  <2>1. half' = <<h>> /\ misframed' = (misframed \/ h.part = "back")
    BY <1>9 DEF Deliver, h
  <2>2. h.part = "front"
    BY <1>1, <1>3, <1>4, <1>9 DEF Stream
  <2>3. Tip' = Tip
    <3>1. CASE txRing' = <<>>
      BY <1>4, <1>7, <1>8, <2>1, <3>1 DEF Tip
    <3>2. CASE txRing' # <<>>
      BY <1>6, <1>8, <3>2 DEF Tip
    <3> QED  BY <3>1, <3>2
  <2>4. half' # <<>> /\ half'[1] = h
    BY <2>1
  <2>5. Half(0)' = Half(0)
    BY <1>1 DEF Half
  <2>6. Stream'
    BY <1>1, <1>3, <1>5, <1>6, <2>2, <2>3, <2>4, <2>5 DEF Stream
  <2> QED  BY <1>2, <1>3, <2>1, <2>2, <2>6 DEF Frames
<1>10. CASE half # <<>>
  <2>1. half' = <<>> /\ misframed' = (misframed \/ h # [half[1] EXCEPT !.part = "back"])
    BY <1>10 DEF Deliver, h
  <2>2. half[1].part = "front" /\ Follows(half[1], h)
    BY <1>1, <1>3, <1>4, <1>10 DEF Stream
  <2>3. h = [half[1] EXCEPT !.part = "back"]
    BY <2>2 DEF Follows
  <2>4. h.part = "back"
    <3>1. PICK x \in HalfReply : half = <<x>>
      BY <1>3, <1>10
    <3>2. half[1] = x /\ x \in HalfReply
      BY <3>1
    <3> QED  BY <2>3, <3>2 DEF HalfReply
  <2>5. txRing' # <<>> => txRing'[1].part = "front"
    BY <1>6, <2>4 DEF Follows
  <2>6. CASE txRing' = <<>>
    <3>1. Tip' = <<>> /\ Tip = <<h>>
      BY <1>4, <1>7, <1>8, <2>1, <2>6 DEF Tip
    <3>2. Half(0).part = "front" /\ Tip[1] = h
      BY <3>1 DEF Half
    <3>3. ~(pc = "queue" /\ queued = 1)
      BY <1>3, <2>4, <3>2 DEF Stream
    <3> QED  BY <1>1, <1>2, <1>3, <1>5, <2>1, <2>3, <2>6, <3>1, <3>3 DEF Frames, Stream
  <2>7. CASE txRing' # <<>>
    <3>1. Tip' = Tip
      BY <1>6, <1>8, <2>7 DEF Tip
    <3>2. Half(0)' = Half(0)
      BY <1>1 DEF Half
    <3>3. Stream'
      BY <1>1, <1>3, <1>5, <2>1, <2>5, <3>1, <3>2 DEF Stream
    <3> QED  BY <1>2, <1>3, <2>1, <2>3, <3>3 DEF Frames
  <2> QED  BY <2>6, <2>7
<1> QED  BY <1>9, <1>10

\* The TinyUSB task: only a reset, which empties the ring, lets the client read.
LEMMA UsbFrames ==
  ASSUME LinkInv, FramingInv, UsbStep
  PROVE  Sending' /\ Frames'
<1>1. pipe \in Seq(Sent)
  BY DEF LinkInv, Sent
<1>2. Sending /\ Frames
  BY DEF FramingInv
<1>3. UNCHANGED <<pc, queued, req, reply, txMutex, up, session>> /\ (txFailed' => txFailed)
  BY DEF UsbStep, Arrive, LineState, TxReset, FrameReset, ConnectionDown, Deliver,
    host, handler, driver
<1>4. Sending'
  BY <1>2, <1>3 DEF Sending
<1>5. CASE Arrive
  <2>1. /\ UNCHANGED <<half, misframed, up, txRing, txFailed, dtr, usb>>
        /\ pipe # <<>> /\ pipe' = Tail(pipe) /\ Head(pipe).bytes # <<>>
    BY <1>5 DEF Arrive, host
  <2>2. Connected' <=> Connected
    BY <1>1, <2>1, PendingTail DEF Connected
  <2> QED  BY <1>2, <1>3, <1>4, <2>1, <2>2, SameStream
<1>6. CASE LineState
  <2>1. /\ UNCHANGED <<half, misframed, up>> /\ pipe # <<>> /\ pipe' = Tail(pipe)
        /\ Head(pipe).bytes = <<>> /\ usb' = IF dtr' THEN "tx_reset" ELSE "session_reset"
    BY <1>6 DEF LineState, host, UsbGoto
  <2>2. LinePending
    BY <1>1, <2>1, PendingTail
  <2>3. ~Connected /\ ~Connected'
    BY <2>1, <2>2 DEF Connected
  <2> QED  BY <1>2, <1>4, <2>1, <2>3 DEF Frames
<1>7. CASE TxReset
  <2>1. /\ UNCHANGED <<half, misframed, up>> /\ txRing' = <<>> /\ usb = "tx_reset"
        /\ txMutex = "free" /\ pc' = pc
    BY <1>7 DEF TxReset, host
  <2>2. up => half' = <<>>
    BY <1>2, <2>1 DEF Frames, Connected
  <2>3. pc' # "queue"
    BY <1>2, <2>1 DEF Sending
  <2>4. Connected' => half' = <<>> /\ Tip' = <<>>
    BY <2>1, <2>2 DEF Connected, Tip
  <2>5. Len(<<>>) = 0
    BY EmptySeq
  <2>6. Connected' => Stream'
    BY <2>1, <2>3, <2>4, <2>5 DEF Stream
  <2> QED  BY <1>2, <1>4, <2>1, <2>2, <2>6 DEF Frames
<1>8. CASE FrameReset \/ ConnectionDown
  <2>1. /\ UNCHANGED <<half, misframed, up, txRing, txFailed, dtr, pipe>>
        /\ usb # "tx_reset" /\ usb' # "tx_reset"
    BY <1>8 DEF FrameReset, ConnectionDown, host, UsbGoto
  <2>2. Connected' <=> Connected
    BY <2>1 DEF Connected, LinePending
  <2> QED  BY <1>2, <1>3, <1>4, <2>1, <2>2, SameStream
<1>9. CASE Deliver
  BY <1>4, <1>9, DeliverFrames
<1> QED
  BY <1>5, <1>6, <1>7, <1>8, <1>9 DEF UsbStep

LEMMA HalfIsReply ==
  ASSUME LinkInv, NEW n
  PROVE  Half(n) \in HalfReply
<1>1. req[2] \in Ids \cup {0}
  BY DEF LinkInv, Request, None
<1> QED  BY <1>1 DEF LinkInv, Half, HalfReply

\* The sender queues the two halves of a reply in turn, behind whole replies.
LEMMA SendFrames ==
  ASSUME LinkInv, FramingInv, SendPart
  PROVE  Sending' /\ Frames'
<1>1. /\ pc = "queue" /\ ~txFailed /\ queued \in {0, 1} /\ txMutex = "sender"
      /\ txRing' = Append(txRing, Half(queued)) /\ queued' = queued + 1
      /\ UNCHANGED <<half, misframed, up, pipe, dtr, usb, txFailed, req, reply>>
      /\ txRing \in Seq(HalfReply)
  BY DEF FramingInv, Sending, LinkTypes, SendPart, host
<1>2. Sending'
  <2>1. CASE queued = 0
    BY <1>1, <2>1 DEF SendPart, Sending
  <2>2. CASE queued = 1
    BY <1>1, <2>2 DEF SendPart, Sending
  <2> QED  BY <1>1, <2>1, <2>2
<1>3. Connected' <=> Connected
  BY <1>1 DEF Connected, LinePending
<1>4. ASSUME Stream
      PROVE  Stream'
  <2> DEFINE h == Half(queued)
             n == Len(txRing)
  <2>1. /\ n \in Nat /\ Len(txRing') = n + 1 /\ txRing' # <<>>
        /\ \A i \in 1 .. n : txRing'[i] = txRing[i]
    BY <1>1, AppendProperties, EmptySeq
  <2>2. txRing'[n + 1] = h
    <3>1. h \in HalfReply
      BY HalfIsReply
    <3> HIDE DEF h
    <3>2. Append(txRing, h)[Len(txRing) + 1] = h
      BY <1>1, <3>1, AppendProperties, Zenon
    <3> QED  BY <1>1, <3>2 DEF h
  <2>3. txRing # <<>> => n > 0
    BY <1>1, EmptySeq
  <2>4. Tip' = <<h>>
    BY <2>1, <2>2 DEF Tip
  <2>5. /\ queued = 0 => h.part = "front" /\ (Tip = <<>> \/ Tip[1].part # "front")
        /\ queued = 1 => Tip = <<Half(0)>> /\ h = [Half(0) EXCEPT !.part = "back"]
    BY <1>1, <1>4 DEF Stream, Half
  <2>6. Tip # <<>> => Follows(Tip[1], h)
    <3>1. CASE queued = 0
      BY <2>5, <3>1 DEF Follows
    <3>2. CASE queued = 1
      <4>1. Tip[1] = Half(0) /\ Half(0).part = "front"
        BY <2>5, <3>2 DEF Half
      <4> QED  BY <2>5, <3>2, <4>1 DEF Follows
    <3> QED  BY <1>1, <3>1, <3>2
  <2> HIDE DEF h
  <2>7. IF half' = <<>> THEN txRing'[1].part = "front" ELSE Follows(half'[1], txRing'[1])
    <3>1. CASE txRing = <<>>
      <4>1. n = 0 /\ n + 1 = 1 /\ Tip = half
        BY <3>1, EmptySeq DEF Tip
      <4>2. txRing'[1] = h
        BY <2>2, <4>1
      <4>3. half = <<>> => h.part = "front"
        <5>1. half = <<>> => queued # 1
          BY <2>5, <4>1
        <5> QED  BY <1>1, <2>5, <5>1
      <4> QED  BY <1>1, <2>6, <4>1, <4>2, <4>3
    <3>2. CASE txRing # <<>>
      <4>1. txRing'[1] = txRing[1]
        BY <2>1, <2>3, <3>2
      <4> QED  BY <1>1, <1>4, <3>2, <4>1 DEF Stream
    <3> QED  BY <3>1, <3>2
  <2>8. \A i \in 1 .. Len(txRing') - 1 : Follows(txRing'[i], txRing'[i + 1])
    <3> TAKE i \in 1 .. Len(txRing') - 1
    <3>1. i \in 1 .. n /\ (i \in 1 .. n - 1 \/ i = n)
      BY <2>1
    <3>2. CASE i \in 1 .. n - 1
      <4>1. i + 1 \in 1 .. n
        BY <2>1, <3>2
      <4>2. txRing'[i] = txRing[i] /\ txRing'[i + 1] = txRing[i + 1]
        BY <2>1, <3>1, <4>1
      <4> QED  BY <1>4, <3>2, <4>2 DEF Stream
    <3>3. CASE i = n
      <4>1. txRing # <<>>
        BY <3>1, <3>3, EmptySeq
      <4>2. Tip # <<>> /\ Tip[1] = txRing[n]
        BY <4>1 DEF Tip
      <4> QED  BY <2>1, <2>2, <2>6, <3>1, <3>3, <4>2
    <3> QED  BY <3>1, <3>2, <3>3
  <2>9. CASE queued = 0
    <3>1. queued' = 1 /\ pc' = "queue" /\ h = Half(0)' /\ half' = half
      BY <1>1, <2>9 DEF SendPart, Half, h
    <3> QED  BY <1>1, <1>4, <2>4, <2>7, <2>8, <3>1 DEF Stream
  <2>10. CASE queued = 1
    <3>1. pc' = "shift" /\ h.part = "back" /\ half' = half
      BY <1>1, <2>10 DEF SendPart, Half, h
    <3>2. Tip'[1].part # "front"
      BY <2>4, <3>1
    <3> QED  BY <1>4, <2>7, <2>8, <3>1, <3>2 DEF Stream
  <2> QED  BY <1>1, <2>9, <2>10
<1> QED  BY <1>1, <1>2, <1>3, <1>4 DEF Frames, FramingInv

\* The receive task: what it does between two replies leaves the stream alone,
\* and a reply it gives up is the last one until the next reset.
LEMMA ReceiveFrames ==
  ASSUME LinkInv, FramingInv, ReceiveStep
  PROVE  Sending' /\ Frames'
<1>1. Sending /\ Frames
  BY DEF FramingInv
<1>2. CASE Wake \/ Read \/ Feed \/ Drain \/ Shift \/ Dispatch \/ Execute \/ RecordResult
  <2>1. /\ pc # "queue" /\ pc' # "queue"
        /\ UNCHANGED <<half, misframed, up, txRing, dtr, usb, pipe, txFailed, txMutex>>
        /\ queued' = 0 \/ (pc # "shift" /\ queued' = queued)
    <3>1. CASE Wake \/ Read \/ Feed \/ Drain
      BY <3>1 DEF Wake, Read, Feed, Drain, host, driver, handler
    <3>2. CASE Shift
      <4>1. /\ pc = "shift" /\ pc' = "drain" /\ queued' = 0
            /\ UNCHANGED <<host, pipe, driver>>
        BY <3>2, Zenon DEF Shift
      <4> QED  BY <4>1 DEF host, driver
    <3>3. CASE Dispatch \/ Execute \/ RecordResult
      BY <3>3 DEF Dispatch, Execute, RecordResult, InHandler, host, driver, handler
    <3> QED  BY <1>2, <3>1, <3>2, <3>3
  <2>2. Sending'
    BY <1>1, <2>1 DEF Sending
  <2> QED  BY <1>1, <2>1, <2>2, IdleStream
<1>3. CASE Fault
  <2>1. /\ ~up' /\ pc' = "wait" /\ queued' = 0 /\ txMutex' = "free" /\ UNCHANGED misframed
    BY <1>3 DEF Fault
  <2> QED  BY <1>1, <2>1 DEF Sending, Frames, Connected
<1>4. CASE SendBegin
  <2>1. /\ pc = "send" /\ queued' = queued
        /\ UNCHANGED <<half, misframed, up, txRing, txFailed, dtr, usb, pipe, req, reply>>
    BY <1>4 DEF SendBegin, host, handler
  <2>2. \/ txFailed /\ pc' = "shift" /\ txMutex' = txMutex
        \/ ~txFailed /\ pc' = "queue" /\ txMutex' = "sender"
    BY <1>4 DEF SendBegin
  <2>3. queued = 0 /\ txMutex = "free"
    BY <1>1, <2>1 DEF Sending
  <2>4. Sending'
    BY <2>1, <2>2, <2>3 DEF Sending
  <2>5. Connected' <=> Connected
    BY <2>1 DEF Connected, LinePending
  <2>6. Stream => Stream'
    BY <2>1, <2>3 DEF Stream, Tip
  <2> QED  BY <1>1, <2>1, <2>4, <2>5, <2>6 DEF Frames
<1>5. CASE SendPart
  BY <1>5, SendFrames
<1>6. CASE GiveUp
  <2>1. /\ pc = "queue" /\ pc' = "shift" /\ queued' = queued /\ txFailed' /\ txMutex' = "free"
        /\ UNCHANGED <<half, misframed, up, txRing, dtr, usb, pipe>>
    BY <1>6 DEF GiveUp, host, handler
  <2>2. Sending'
    BY <1>1, <2>1 DEF Sending
  <2>3. Connected' <=> Connected
    BY <2>1 DEF Connected, LinePending
  <2>4. Stream => Stream'
    BY <2>1 DEF Stream, Tip
  <2> QED  BY <1>1, <2>1, <2>2, <2>3, <2>4 DEF Frames
<1> QED
  BY <1>2, <1>3, <1>4, <1>5, <1>6 DEF ReceiveStep
-----------------------------------------------------------------------------
(***************************************************************************)
(* Types                                                                   *)
(***************************************************************************)
LEMMA WriteCounts ==
  ASSUME LinkInv
  PROVE  MaxWrites[kind] \in Nat
BY LinkOK DEF LinkInv

LEMMA ClientTypes ==
  ASSUME LinkInv, LinkTypes, ClientStep
  PROVE  LinkTypes'
<1>1. UNCHANGED <<kind, misframed, dtr, rxSem, txFailed, stuck, usb, pc, txRing>>
  <2>1. UNCHANGED Device /\ UNCHANGED <<kind, misframed>>
    BY DEF ClientStep, OpenPort, Send, Retry, LateRetry, Write, ClosePort, Vanish
  <2> QED  BY <2>1 DEF Device, driver, parser
<1>2. up' \in BOOLEAN /\ (half' = half \/ half' = <<>>)
  BY DEF ClientStep, OpenPort, Send, Retry, LateRetry, Write, ClosePort, Vanish, LinkTypes
<1>3. MaxWrites[kind] \in Nat /\ writes \in 0 .. MaxWrites[kind] /\ owed \in 0 .. MaxWrites[kind]
  BY WriteCounts DEF LinkTypes
<1>4. writes' \in {0, writes} \/ (writes' = writes + 1 /\ writes < MaxWrites[kind])
  BY DEF ClientStep, OpenPort, Send, Retry, LateRetry, Write, ClosePort, Vanish
<1>5. owed' \in {0, owed} \/ (owed' = owed + 1 /\ owed < MaxWrites[kind])
  BY DEF ClientStep, OpenPort, Send, Retry, LateRetry, Write, ClosePort, Vanish
<1>6. writes' \in 0 .. MaxWrites[kind] /\ owed' \in 0 .. MaxWrites[kind]
  BY <1>3, <1>4, <1>5
<1> QED  BY <1>1, <1>2, <1>6 DEF LinkTypes

LEMMA UsbTypes ==
  ASSUME LinkInv, LinkTypes, UsbStep
  PROVE  LinkTypes'
<1>1. UNCHANGED <<kind, up, writes, stuck, pc>> /\ {dtr', rxSem', txFailed'} \subseteq BOOLEAN
      /\ usb' \in {"idle", "tx_reset", "frame_reset", "session_reset"}
  <2>1. CASE LineState
    <3>1. Head(pipe).line \in BOOLEAN
      <4>1. pipe \in Seq(Sent) /\ pipe # <<>>
        BY <2>1 DEF LinkInv, Sent, LineState
      <4>2. Head(pipe) \in Sent
        BY <4>1, HeadTailProperties
      <4> QED  BY <4>2 DEF Sent
    <3> QED  BY <2>1, <3>1 DEF LineState, UsbGoto, LinkTypes, host, parser
  <2>2. CASE Arrive \/ TxReset \/ FrameReset \/ ConnectionDown \/ Deliver
    BY <2>2 DEF Arrive, TxReset, FrameReset, ConnectionDown, Deliver, UsbGoto, LinkTypes,
      host, parser
  <2> QED  BY <2>1, <2>2 DEF UsbStep
<1>2. CASE Deliver
  <2>1. /\ txRing \in Seq(HalfReply) /\ txRing # <<>> /\ txRing' = Tail(txRing)
        /\ half' \in {<<>>, <<Head(txRing)>>} /\ owed' \in {owed, IF owed > 0 THEN owed - 1 ELSE 0}
    BY <1>2 DEF Deliver, LinkTypes
  <2>2. /\ Head(txRing) \in HalfReply /\ txRing' \in Seq(HalfReply)
        /\ Len(txRing') = Len(txRing) - 1 /\ Len(txRing) \in Nat
    BY <2>1, HeadTailProperties, EmptySeq
  <2>3. Len(txRing') <= TxCapacity
    BY <2>2, LinkOK DEF LinkTypes
  <2>4. owed' \in 0 .. MaxWrites[kind]
    BY <2>1, WriteCounts DEF LinkTypes
  <2>5. misframed' \in BOOLEAN
    <3>1. misframed \in BOOLEAN
      BY DEF LinkTypes
    <3>2. \A x, y : x \in BOOLEAN /\ y \in BOOLEAN => (x \/ y) \in BOOLEAN
      OBVIOUS
    <3> QED  BY <1>2, <3>1, <3>2, Zenon DEF Deliver
  <2> QED  BY <1>1, <2>1, <2>2, <2>3, <2>4, <2>5 DEF LinkTypes
<1>3. CASE TxReset
  <2>1. Len(<<>>) = 0 /\ <<>> \in Seq(HalfReply)
    BY EmptySeq
  <2>2. UNCHANGED <<half, misframed, owed>> /\ txRing' = <<>>
    BY <1>3 DEF TxReset, host
  <2> QED  BY <1>1, <2>1, <2>2, LinkOK DEF LinkTypes
<1>4. CASE Arrive \/ LineState \/ FrameReset \/ ConnectionDown
  <2>1. UNCHANGED <<half, misframed, owed, txRing>>
    BY <1>4 DEF Arrive, LineState, FrameReset, ConnectionDown, host
  <2> QED  BY <1>1, <2>1 DEF LinkTypes
<1> QED
  BY <1>2, <1>3, <1>4 DEF UsbStep

LEMMA ReceiveTypes ==
  ASSUME LinkInv, LinkTypes, ReceiveStep
  PROVE  LinkTypes'
<1> DEFINE P == {"wait", "read", "feed", "drain", "dispatch", "execute", "record",
                 "send", "queue", "shift"}
<1>1. ASSUME UNCHANGED host, UNCHANGED <<dtr, usb, txRing>>, pc' \in P,
             {rxSem', txFailed', stuck'} \subseteq BOOLEAN
      PROVE  LinkTypes'
  BY <1>1 DEF LinkTypes, host
<1>2. CASE Wake \/ Read \/ Feed
  BY <1>1, <1>2 DEF Wake, Read, Feed, driver, parser, LinkTypes
<1>3. CASE Drain
  <2>1. /\ UNCHANGED <<host, driver, stuck>>
        /\ pc' = pc \/ pc' \in {"feed", "dispatch", "shift"}
    BY <1>3 DEF Drain
  <2> QED  BY <1>1, <2>1 DEF driver, LinkTypes
<1>4. CASE Shift
  <2>1. pc' = "drain" /\ UNCHANGED <<host, driver, stuck>>
    BY <1>4, Zenon DEF Shift
  <2> QED  BY <1>1, <2>1 DEF driver, LinkTypes
<1>5. CASE Fault
  <2>1. <<>> \in Seq(HalfReply) /\ Len(<<>>) <= TxCapacity
    BY EmptySeq, LinkOK
  <2>2. /\ dtr' = FALSE /\ usb' = "idle" /\ rxSem' = FALSE /\ txRing' = <<>> /\ txFailed' = FALSE
        /\ pc' = "wait" /\ stuck' = FALSE /\ up' = FALSE
        /\ UNCHANGED <<kind, writes, owed, half, misframed>>
    BY <1>5 DEF Fault
  <2>3. writes' \in 0 .. MaxWrites[kind]' /\ owed' \in 0 .. MaxWrites[kind]'
    BY <2>2 DEF LinkTypes
  <2>4. {up', misframed', dtr', rxSem', txFailed', stuck'} \subseteq BOOLEAN
    BY <2>2 DEF LinkTypes
  <2> QED  BY <2>1, <2>2, <2>3, <2>4 DEF LinkTypes
<1>6. CASE Dispatch \/ Execute \/ RecordResult
  BY <1>1, <1>6 DEF Dispatch, Execute, RecordResult, InHandler, driver, parser, LinkTypes
<1>7. CASE SendBegin \/ GiveUp
  BY <1>1, <1>7 DEF SendBegin, GiveUp, parser, LinkTypes
<1>8. CASE SendPart
  <2>1. /\ txRing' = Append(txRing, Half(queued)) /\ Len(txRing) < TxCapacity
        /\ txRing \in Seq(HalfReply) /\ Half(queued) \in HalfReply
    BY <1>8, HalfIsReply DEF SendPart, LinkTypes
  <2>2. txRing' \in Seq(HalfReply) /\ Len(txRing') = Len(txRing) + 1 /\ Len(txRing) \in Nat
    BY <2>1, AppendProperties
  <2>3. Len(txRing') <= TxCapacity
    BY <2>1, <2>2, LinkOK
  <2>4. UNCHANGED <<host, dtr, usb, rxSem, txFailed, stuck>> /\ pc' \in {"queue", "shift"}
    BY <1>8 DEF SendPart, parser
  <2> QED  BY <2>2, <2>3, <2>4 DEF LinkTypes, host
<1> QED
  BY <1>2, <1>3, <1>4, <1>5, <1>6, <1>7, <1>8 DEF ReceiveStep
-----------------------------------------------------------------------------
LEMMA FramingInit == Init => FramingInv
<1> SUFFICES ASSUME Init  PROVE FramingInv
  OBVIOUS
<1>1. LinkTypes
  <2>1. MaxWrites[kind] \in Nat /\ TxCapacity \in Nat
    BY LinkOK DEF Init
  <2>2. Len(<<>>) <= TxCapacity /\ <<>> \in Seq(HalfReply)
    BY <2>1, EmptySeq
  <2>3. writes = 0 /\ owed = 0 /\ 0 \in 0 .. MaxWrites[kind]
    BY <2>1 DEF Init
  <2>4. {up, misframed, dtr, rxSem, txFailed, stuck} \subseteq BOOLEAN
    BY DEF Init, DeviceStart
  <2>5. usb = "idle" /\ pc = "wait" /\ txRing = <<>> /\ half = <<>>
    BY DEF Init, DeviceStart
  <2> QED  BY <2>2, <2>3, <2>4, <2>5 DEF LinkTypes
<1>2. Sending /\ Frames
  BY DEF Init, DeviceStart, Sending, Frames, Connected
<1> QED  BY <1>1, <1>2 DEF FramingInv

LEMMA FramingStep == IInv /\ FramingInv /\ [Next]_vars => FramingInv'
<1> SUFFICES ASSUME LinkInv, FramingInv, [Next]_vars  PROVE FramingInv'
  BY DEF IInv
<1>1. LinkTypes /\ Sending /\ Frames
  BY DEF FramingInv
<1>2. CASE ClientStep
  BY <1>1, <1>2, ClientFrames, ClientTypes DEF FramingInv
<1>3. CASE UsbStep
  BY <1>1, <1>3, UsbFrames, UsbTypes DEF FramingInv
<1>4. CASE ReceiveStep
  BY <1>1, <1>4, ReceiveFrames, ReceiveTypes DEF FramingInv
<1>5. CASE Stuck \/ UNCHANGED vars
  <2>1. /\ UNCHANGED <<host, pipe, driver, pc, handler>> /\ stuck' \in {TRUE, stuck}
    BY <1>5 DEF Stuck, vars, parser
  <2>2. LinkTypes' /\ Sending'
    BY <1>1, <2>1 DEF LinkTypes, Sending, host, driver, handler
  <2>3. Connected' <=> Connected
    BY <2>1 DEF Connected, LinePending, host, driver
  <2>4. Frames'
    BY <1>1, <2>1, <2>3, SameStream DEF host, driver, handler
  <2> QED  BY <2>2, <2>4 DEF FramingInv
<1> QED  BY <1>2, <1>3, <1>4, <1>5 DEF Next

LEMMA FramingInvariance == Spec => []FramingInv
<1>1. Init => FramingInv
  BY FramingInit
<1>2. IInv /\ FramingInv /\ [Next]_vars => FramingInv'
  BY FramingStep
<1> QED  BY <1>1, <1>2, LinkIInv, PTL DEF Spec

\* Whatever its clients do, however often they come back, and wherever a full
\* ring, a closed port or a reopening cuts a reply: what a client reads after
\* it has opened the port is a stream of whole replies.
THEOREM RepliesStayWhole == Spec => []Framed
<1>1. FramingInv => Framed
  BY DEF FramingInv, Frames, Framed
<1> QED  BY <1>1, FramingInvariance, PTL

\* Every variable of the link keeps its type, and the receive buffer, the
\* transmit ring and the replay ring their bounds, for every client.
THEOREM LinkTypesHold == Spec => []TypeOK
<1>1. IInv /\ FramingInv => TypeOK
  <2> SUFFICES ASSUME IInv, FramingInv  PROVE TypeOK
    OBVIOUS
  <2>1. RingTypeOK /\ LinkInv /\ FrameRoom /\ LinkTypes /\ Sending
    BY DEF IInv, RingInv, FramingInv
  <2>2. issued \in Ids \cup {0}
    BY <2>1, LinkOK DEF LinkInv
  <2> QED  BY <2>1, <2>2 DEF LinkInv, FrameRoom, LinkTypes, Sending, TypeOK
<1> QED  BY <1>1, LinkIInv, FramingInvariance, PTL
=============================================================================
