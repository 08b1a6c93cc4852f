-------------------------- MODULE ProtoOnceProofs --------------------------
(***************************************************************************)
(* For any ring and any orderly client with no more ids unanswered than    *)
(* the ring remembers: no action is executed twice in a session, and each  *)
(* answer is the result of the client's own action.                        *)
(*                                                                         *)
(* What the client sent in a session and the device has not served is a    *)
(* sequence w of ids; its frames are spread over the pipe, the FIFO, the   *)
(* chunk and the buffer, and m ids are executed and recorded.  An id of w  *)
(* is one of the last Window up to m, which the ring remembers, or the     *)
(* next one, or there is a copy of the id before it in front.  The port is *)
(* closed, and a reset of the ring on its way, only while nothing is left  *)
(* to serve.                                                               *)
(***************************************************************************)
EXTENDS ProtoLinkProofs

\* The port was opened and the device has not seen it.
Opening == pipe # <<>> /\ pipe[1] = Line(TRUE)

\* The frames that the TinyUSB task has not taken.
InPipe == IF ~up THEN 0 ELSE IF Opening THEN Len(pipe) - 1 ELSE Len(pipe)

\* Byte b, with so many bytes left behind it, is the one of its place in the
\* frames of w.
Carries(s, w, b, left) == b = Frame(<<s, w[Len(w) - left \div 4]>>)[4 - (left % 4)]

\* The first frame of w is the oldest; a part of it may be in the buffer.
OnTheWay(w) ==
  /\ Len(rx) + Len(chunk) + Len(rxFifo) + 4 * InPipe = 4 * Len(w)
  /\ Len(rxFifo) % 4 = 0
  /\ \A i \in 1 .. Len(rx) : rx[i] = Frame(<<session, w[1]>>)[i]
  /\ \A i \in 1 .. Len(chunk) : Carries(session, w, chunk[i], Len(chunk) - i + Len(rxFifo) + 4 * InPipe)
  /\ \A i \in 1 .. Len(rxFifo) : Carries(session, w, rxFifo[i], Len(rxFifo) - i + 4 * InPipe)
  /\ \A k \in 1 .. Len(pipe) : k > Len(pipe) - InPipe =>
       pipe[k] = Data(Frame(<<session, w[Len(w) - (Len(pipe) - k)]>>))
  /\ ~up => pipe \in {<<>>, <<Line(FALSE)>>, <<Line(TRUE), Line(FALSE)>>}

\* No id is more than a window behind what was executed or another one before
\* it, none is ahead of the next one, and each id issued is executed or on the
\* way.
Ordered(m, w) ==
  /\ m <= issued
  /\ \A j \in 1 .. Len(w) : w[j] \in 1 .. issued /\ m < w[j] + Window
  /\ \A i, j \in 1 .. Len(w) : i < j => w[i] < w[j] + Window
  /\ \A j \in 1 .. Len(w) : w[j] <= m + 1 \/ \E i \in 1 .. j - 1 : w[i] = w[j] - 1
  /\ \A v \in m + 1 .. issued : \E j \in 1 .. Len(w) : w[j] = v

Handling == {"dispatch", "execute", "record", "send", "queue", "shift"}

\* The receive task between the first byte of a frame and its reply.
Handled(m, w) ==
  /\ Len(rx) <= 4 /\ (pc = "feed" => Len(rx) < 4)
  /\ pc \in {"wait", "read"} => rx = <<>> /\ chunk = <<>>
  /\ pc \in Handling => Len(rx) = 4 /\ total = 4 /\ req = <<session, w[1]>>
  /\ pc \in {"execute", "record"} => w[1] = m + 1
  /\ pc \in {"send", "queue", "shift"} => w[1] <= m
  /\ pc \in {"record", "send", "queue", "shift"} => reply = req
  /\ pc = "shift" => queued = 2

\* Nothing is left to serve, and all replies are read; the frame of the last
\* one may still be in the buffer.
Calm == chunk = <<>> /\ rxFifo = <<>> /\ txRing = <<>> /\ half = <<>> /\ Len(rx) = 2 * queued

\* The resets of a reopened port fall between two requests.
Resets ==
  /\ ~txFailed
  /\ ~up \/ Opening \/ usb # "idle" => Calm
  /\ Opening \/ usb \in {"tx_reset", "frame_reset"} => pc \in {"wait", "read"}

\* Halves of replies that the client will still read.  It closes the port only
\* when as many writes were answered as it counts.
Load(w) == 2 * Len(w) - queued + Len(half) + Len(txRing)

Owing(w) == Load(w) <= 2 * owed /\ Load(w) <= 2 * writes /\ (issued > 0 => writes > 0)

\* The replies that are queued or were read; the window of the client.
Replies ==
  /\ \A a \in answered : a[2] = <<session, a[1]>>
  /\ \A i \in 1 .. Len(txRing) : txRing[i].result = <<session, txRing[i].id>>
  /\ \A id \in 1 .. issued : ~Answered(id) => issued < id + Window

\* The id in slot i of the ring when m is the last one recorded.
IdIn(m, i) == IF i < seenNext THEN m - seenNext + 1 + i ELSE m - RingSize - seenNext + 1 + i

Remembered(m) ==
  /\ IF seenLen < RingSize THEN seenLen = m /\ seenNext = m ELSE RingSize <= m
  /\ \A i \in Used : seen[i].id = IdIn(m, i) /\ seen[i].result = <<session, IdIn(m, i)>>

\* A reset of the ring is on its way only until the port opens, or before the
\* first request of the session.
Memory(m) ==
  /\ up => IF usb = "session_reset" THEN m = 0 ELSE Remembered(m)
  /\ ~up /\ pipe = <<>> /\ usb # "session_reset" => seenLen = 0 /\ seenNext = 0

Done(m) == IF pc = "record" THEN m + 1 ELSE m

\* The actions of the session that ran, the one being recorded included.
Executions(m) ==
  /\ executed \in [Request -> {0, 1}]
  /\ \A r \in Request : r[1] > session => executed[r] = 0
  /\ up => \A k \in Ids \ {0} : executed[<<session, k>>] = 1 => k <= Done(m)

Held(m, w) ==
  /\ Resets /\ Replies
  /\ OnTheWay(w) /\ Ordered(m, w) /\ Handled(m, w) /\ Owing(w) /\ Memory(m) /\ Executions(m)

OnceInv == kind = "orderly" => \E m \in Nat, w \in Seq(Nat) : Held(m, w)
-----------------------------------------------------------------------------
LEMMA Quotient ==
  ASSUME NEW q \in Nat, NEW s \in 0 .. 3
  PROVE  (4 * q + s) \div 4 = q /\ (4 * q + s) % 4 = s
OBVIOUS

LEMMA Division ==
  ASSUME NEW n \in Nat
  PROVE  /\ n \div 4 \in Nat /\ n % 4 \in 0 .. 3 /\ n = 4 * (n \div 4) + (n % 4)
         /\ (n + 4) \div 4 = n \div 4 + 1 /\ (n + 4) % 4 = n % 4
<1>1. n \div 4 \in Nat /\ n % 4 \in 0 .. 3
  OBVIOUS
<1>2. n = 4 * (n \div 4) + (n % 4)
  OBVIOUS
<1> DEFINE q == n \div 4
           s == n % 4
<1> HIDE DEF q, s
<1>3. q \in Nat /\ s \in 0 .. 3 /\ n + 4 = 4 * (q + 1) + s /\ q + 1 \in Nat
  BY <1>1, <1>2 DEF q, s
<1>4. (n + 4) \div 4 = q + 1 /\ (n + 4) % 4 = s
  BY <1>3, Quotient
<1> QED  BY <1>1, <1>2, <1>4 DEF q, s

LEMMA Place ==
  ASSUME NEW n \in Nat, NEW left \in Nat, left < 4 * n
  PROVE  left \div 4 \in Nat /\ n - left \div 4 \in 1 .. n
<1> DEFINE q == left \div 4
           s == left % 4
<1>1. q \in Nat /\ s \in 0 .. 3 /\ left = 4 * q + s
  BY Division
<1> HIDE DEF q, s
<1>2. n - q \in 1 .. n
  BY <1>1
<1> QED  BY <1>1, <1>2 DEF q

\* A frame behind the others leaves the places of their bytes ...
LEMMA CarriesAppend ==
  ASSUME NEW s, NEW w \in Seq(Nat), NEW id \in Nat, NEW b, NEW left \in Nat,
         left < 4 * Len(w), Carries(s, w, b, left)
  PROVE  Carries(s, Append(w, id), b, left + 4)
<1>1. (left + 4) \div 4 = left \div 4 + 1 /\ (left + 4) % 4 = left % 4
  BY Division
<1>2. Len(Append(w, id)) = Len(w) + 1 /\ Len(w) \in Nat
      /\ \A i \in 1 .. Len(w) : Append(w, id)[i] = w[i]
  BY AppendProperties
<1> DEFINE k == Len(w) - left \div 4
<1>3. k \in 1 .. Len(w) /\ left \div 4 \in Nat
  BY <1>2, Place
<1>4. Append(w, id)[k] = w[k]
  BY <1>2, <1>3
<1>5. (Len(w) + 1) - (left + 4) \div 4 = k
  BY <1>1, <1>2, <1>3
<1> HIDE DEF k
<1> QED  BY <1>1, <1>2, <1>4, <1>5 DEF Carries, k

\* ... and so does a frame less before them.
LEMMA CarriesTail ==
  ASSUME NEW s, NEW w \in Seq(Nat), NEW b, NEW left \in Nat, left < 4 * (Len(w) - 1),
         Carries(s, w, b, left)
  PROVE  Carries(s, Tail(w), b, left)
<1>1. Len(w) \in Nat /\ Len(w) > 0 /\ w # <<>>
  <2>1. Len(w) \in Nat
    OBVIOUS
  <2> QED  BY <2>1, EmptySeq
<1>2. Len(Tail(w)) = Len(w) - 1 /\ \A i \in 1 .. Len(Tail(w)) : Tail(w)[i] = w[i + 1]
  BY <1>1, HeadTailProperties
<1> DEFINE k == Len(w) - 1 - left \div 4
<1>3. k \in 1 .. Len(w) - 1 /\ k + 1 = Len(w) - left \div 4
  <2>1. Len(w) - 1 \in Nat
    BY <1>1
  <2>2. k \in 1 .. Len(w) - 1 /\ left \div 4 \in Nat
    BY <2>1, Place
  <2> QED  BY <1>1, <2>2
<1>4. Tail(w)[k] = w[k + 1]
  BY <1>2, <1>3
<1> HIDE DEF k
<1> QED  BY <1>2, <1>3, <1>4 DEF Carries, k

\* The first byte of the chunk is the next one of the frame in the buffer.
LEMMA CarriesNext ==
  ASSUME NEW s, NEW w, NEW b, NEW n \in 0 .. 3, NEW left \in Nat, Len(w) \in Nat,
         left = 4 * Len(w) - n - 1, Carries(s, w, b, left)
  PROVE  b = Frame(<<s, w[1]>>)[n + 1]
<1>1. left = 4 * (Len(w) - 1) + (3 - n) /\ Len(w) - 1 \in Nat /\ 3 - n \in 0 .. 3
  OBVIOUS
<1>2. left \div 4 = Len(w) - 1 /\ left % 4 = 3 - n
  BY <1>1, Quotient
<1>3. Len(w) - left \div 4 = 1 /\ 4 - (left % 4) = n + 1
  BY <1>2
<1> QED  BY <1>3 DEF Carries

\* The bytes of the k-th last frame.
LEMMA CarriesFrame ==
  ASSUME NEW s, NEW w, NEW k \in Nat, NEW i \in 1 .. 4
  PROVE  Carries(s, w, Frame(<<s, w[Len(w) - k]>>)[i], 4 - i + 4 * k)
<1>1. 4 - i \in 0 .. 3 /\ 4 - i + 4 * k = 4 * k + (4 - i)
  OBVIOUS
<1>2. (4 - i + 4 * k) \div 4 = k /\ (4 - i + 4 * k) % 4 = 4 - i
  BY <1>1, Quotient
<1>3. 4 - (4 - i) = i
  OBVIOUS
<1> QED  BY <1>2, <1>3 DEF Carries

LEMMA PipeAppend ==
  ASSUME pipe \in Seq(Sent), NEW x \in Sent, pipe' = Append(pipe, x)
  PROVE  /\ pipe' \in Seq(Sent) /\ Len(pipe') = Len(pipe) + 1
         /\ \A k \in 1 .. Len(pipe) : pipe'[k] = pipe[k]
         /\ pipe'[Len(pipe) + 1] = x
<1>1. /\ pipe' \in Seq(Sent) /\ Len(pipe') = Len(pipe) + 1
      /\ \A k \in 1 .. Len(pipe) : pipe'[k] = pipe[k]
  BY AppendProperties
<1>2. pipe'[Len(pipe) + 1] = x
  BY AppendProperties, Zenon
<1> QED  BY <1>1, <1>2

LEMMA FrameShape ==
  ASSUME NEW r
  PROVE  /\ Len(Frame(r)) = 4
         /\ Frame(r)[1] = [v |-> 2, r |-> r] /\ Frame(r)[2] = [v |-> 0, r |-> r]
         /\ Frame(r)[3] = [v |-> OpenBrace, r |-> r] /\ Frame(r)[4] = [v |-> CloseBrace, r |-> r]
BY DEF Frame

LEMMA LineIsNoData ==
  ASSUME NEW r, NEW b \in BOOLEAN
  PROVE  Data(Frame(r)) # Line(b) /\ Data(Frame(r)).bytes # <<>> /\ Line(b).bytes = <<>>
<1>1. Data(Frame(r)).bytes = Frame(r) /\ Line(b).bytes = <<>>
  BY DEF Data, Line
<1> QED  BY <1>1, FrameNotEmpty

\* The types that all steps use.
Sizes ==
  /\ rx \in Seq(Byte) /\ chunk \in Seq(Byte) /\ rxFifo \in Seq(Byte) /\ pipe \in Seq(Sent)
  /\ Len(rx) \in Nat /\ Len(chunk) \in Nat /\ Len(rxFifo) \in Nat /\ Len(pipe) \in Nat
  /\ InPipe \in Nat /\ InPipe <= Len(pipe) /\ (pipe = <<>> <=> Len(pipe) = 0)
  /\ session \in 0 .. MaxSessions /\ MaxSessions \in Nat /\ issued \in Nat
  /\ owed \in Nat /\ writes \in Nat /\ queued \in 0 .. 2
  /\ txRing \in Seq(HalfReply) /\ Len(txRing) \in Nat /\ Len(half) \in 0 .. 1
  /\ (half = <<>> <=> Len(half) = 0) /\ (txRing = <<>> <=> Len(txRing) = 0)
  /\ (rx = <<>> <=> Len(rx) = 0) /\ (chunk = <<>> <=> Len(chunk) = 0)
  /\ (rxFifo = <<>> <=> Len(rxFifo) = 0)

LEMMA AllSizes ==
  ASSUME IInv, FramingInv
  PROVE  Sizes
<1>1. LinkInv /\ LinkTypes /\ Sending
  BY DEF IInv, FramingInv
<1>2. /\ rx \in Seq(Byte) /\ chunk \in Seq(Byte) /\ rxFifo \in Seq(Byte) /\ pipe \in Seq(Sent)
      /\ txRing \in Seq(HalfReply)
  BY <1>1 DEF LinkInv, LinkTypes, Sent
<1>3. /\ Len(rx) \in Nat /\ Len(chunk) \in Nat /\ Len(rxFifo) \in Nat /\ Len(pipe) \in Nat
      /\ Len(txRing) \in Nat
  BY <1>2
<1>4. /\ (txRing = <<>> <=> Len(txRing) = 0) /\ (rx = <<>> <=> Len(rx) = 0)
      /\ (chunk = <<>> <=> Len(chunk) = 0) /\ (rxFifo = <<>> <=> Len(rxFifo) = 0)
      /\ (pipe = <<>> <=> Len(pipe) = 0)
  BY <1>2, EmptySeq
<1>5. Len(half) \in 0 .. 1 /\ (half = <<>> <=> Len(half) = 0)
  <2>1. CASE half = <<>>
    BY <2>1
  <2>2. CASE half # <<>>
    <3>1. PICK h \in HalfReply : half = <<h>>
      BY <1>1, <2>2 DEF LinkTypes
    <3>2. Len(<<h>>) = 1
      OBVIOUS
    <3> QED  BY <2>2, <3>1, <3>2
  <2> QED  BY <2>1, <2>2
<1>6. InPipe \in Nat /\ InPipe <= Len(pipe)
  <2>1. Opening => Len(pipe) - 1 \in Nat
    BY <1>3, <1>4 DEF Opening
  <2> QED  BY <1>3, <2>1 DEF InPipe
<1>7. /\ session \in 0 .. MaxSessions /\ MaxSessions \in Nat /\ issued \in Nat
      /\ owed \in Nat /\ writes \in Nat /\ queued \in 0 .. 2
  BY <1>1, LinkOK, WriteCounts DEF LinkInv, LinkTypes, Sending
<1> QED  BY <1>2, <1>3, <1>4, <1>5, <1>6, <1>7 DEF Sizes
-----------------------------------------------------------------------------
(***************************************************************************)
(* The client                                                              *)
(***************************************************************************)
\* The port opens on a device at rest: nothing is on the way, nothing known.
LEMMA OpenHeld ==
  ASSUME IInv, FramingInv, kind = "orderly", NEW m \in Nat, NEW w \in Seq(Nat), Held(m, w),
         OpenPort
  PROVE  Held(0, <<>>)'
<1>1. Sizes
  BY AllSizes
<1>2. /\ ~up /\ pipe = <<>> /\ pc = "wait" /\ up' /\ session' = session + 1
      /\ session < MaxSessions /\ issued' = 0 /\ writes' = 0 /\ owed' = 0 /\ answered' = {}
      /\ half' = <<>> /\ pipe' = Append(pipe, Line(TRUE))
  BY DEF OpenPort
<1>3. UNCHANGED <<dtr, usb, rxFifo, rxSem, txRing, txFailed, pc, chunk, rx, total, req, reply,
                  queued, executed, seen, seenLen, seenNext>>
  BY DEF OpenPort, Device, driver, parser, handler, ringVars
<1>4. Calm /\ ~txFailed
  BY <1>2 DEF Held, Resets
<1>5. rx = <<>> /\ chunk = <<>> /\ rxFifo = <<>> /\ txRing = <<>> /\ queued = 0
  BY <1>1, <1>2, <1>4 DEF Held, Handled, Calm, FramingInv, Sending
<1>6. pipe' = <<Line(TRUE)>> /\ Len(pipe') = 1 /\ pipe'[1] = Line(TRUE) /\ pipe' # <<>>
  BY <1>2
<1>7. Opening' /\ InPipe' = 0
  BY <1>2, <1>6 DEF Opening, InPipe
<1>8. Len(<<>>) = 0
  BY EmptySeq
<1>9. Resets'
  BY <1>2, <1>3, <1>4, <1>5, <1>8 DEF Resets, Calm
<1>10. Replies'
  <2>1. txRing' = <<>> /\ answered' = {} /\ issued' = 0
    BY <1>2, <1>3, <1>5
  <2> QED  BY <1>8, <2>1 DEF Replies
<1>11. OnTheWay(<<>>)'
  <2>1. rx' = <<>> /\ chunk' = <<>> /\ rxFifo' = <<>> /\ up'
    BY <1>2, <1>3, <1>5
  <2>2. \A k \in 1 .. Len(pipe') : ~(k > Len(pipe') - InPipe')
    BY <1>6, <1>7
  <2> QED  BY <1>7, <1>8, <2>1, <2>2 DEF OnTheWay
<1>12. Ordered(0, <<>>)'
  BY <1>2, <1>8 DEF Ordered
<1>13. Handled(0, <<>>)'
  BY <1>2, <1>3, <1>5, <1>8 DEF Handled, Handling
<1>14. Owing(<<>>)'
  BY <1>2, <1>3, <1>5, <1>8 DEF Owing, Load
<1>15. Memory(0)'
  <2>1. CASE usb = "session_reset"
    BY <1>2, <1>3, <2>1 DEF Memory
  <2>2. CASE usb # "session_reset"
    <3>1. seenLen = 0 /\ seenNext = 0
      BY <1>2, <2>2 DEF Held, Memory
    <3>2. Remembered(0)'
      BY <1>3, <3>1, RingOK DEF Remembered, Used
    <3> QED  BY <1>2, <1>3, <2>2, <3>2 DEF Memory
  <2> QED  BY <2>1, <2>2
<1>16. Executions(0)'
  <2>1. executed' = executed /\ Executions(m)
    BY <1>3 DEF Held
  <2>2. \A r \in Request : r[1] \in Nat
    BY LinkOK DEF Request, Sessions
  <2>3. \A r \in Request : r[1] > session' => r[1] > session
    BY <1>1, <1>2, <2>2 DEF Sizes
  <2>4. ASSUME NEW k \in Ids \ {0}
        PROVE  executed[<<session', k>>] # 1
    <3>1. session' \in Sessions /\ session' > session
      BY <1>1, <1>2 DEF Sizes, Sessions
    <3>2. <<session', k>> \in Request /\ <<session', k>>[1] > session
      BY <3>1 DEF Request
    <3>3. executed[<<session', k>>] = 0
      BY <2>1, <3>2 DEF Executions
    <3> QED  BY <3>3
  <2> QED  BY <2>1, <2>3, <2>4 DEF Executions
<1> QED  BY <1>9, <1>10, <1>11, <1>12, <1>13, <1>14, <1>15, <1>16 DEF Held

\* A write adds a frame behind all others.
LEMMA WayAppend ==
  ASSUME Sizes, NEW w \in Seq(Nat), OnTheWay(w), NEW id \in Nat, Write(id)
  PROVE  OnTheWay(Append(w, id))' /\ (Opening' <=> Opening)
<1> DEFINE x == Data(Frame(<<session, id>>))
           u == Append(w, id)
<1>1. /\ up /\ up' /\ pipe' = Append(pipe, x) /\ UNCHANGED <<session, rx, chunk, rxFifo>>
  BY DEF Write, Device, driver, parser
<1>2. pipe \in Seq(Sent) /\ Len(pipe) \in Nat /\ (pipe = <<>> <=> Len(pipe) = 0)
  BY DEF Sizes
<1>3. Len(u) = Len(w) + 1 /\ Len(w) \in Nat /\ \A i \in 1 .. Len(w) : u[i] = w[i]
  BY AppendProperties
<1>4. u[Len(w) + 1] = id
  BY AppendProperties, Zenon
<1>5. \A S, s : s \in Seq(S) =>
        Len(Append(s, x)) = Len(s) + 1 /\ \A k \in 1 .. Len(s) : Append(s, x)[k] = s[k]
  OBVIOUS
<1>6. /\ Len(pipe') = Len(pipe) + 1
      /\ \A k \in 1 .. Len(pipe) : pipe'[k] = pipe[k]
  BY <1>1, <1>2, <1>5
<1>7. pipe'[Len(pipe) + 1] = x
  <2> HIDE DEF x
  <2>1. Append(pipe, x)[Len(pipe) + 1] = x
    BY <1>2
  <2> QED  BY <1>1, <2>1
<1>8. x # Line(TRUE)
  BY LineIsNoData
<1>9. pipe' # <<>>
  BY <1>2, <1>6
<1>10. Opening' <=> Opening
  <2>1. CASE pipe = <<>>
    <3>1. pipe'[1] = x
      BY <1>2, <1>7, <2>1
    <3> QED  BY <1>8, <2>1, <3>1 DEF Opening
  <2>2. CASE pipe # <<>>
    <3>1. pipe'[1] = pipe[1]
      BY <1>2, <1>6, <2>2
    <3> QED  BY <1>9, <2>2, <3>1 DEF Opening
  <2> QED  BY <2>1, <2>2
<1>11. InPipe' = InPipe + 1 /\ InPipe \in Nat /\ InPipe <= Len(pipe)
  BY <1>1, <1>2, <1>6, <1>10 DEF InPipe, Sizes
<1> HIDE DEF x, u
<1>12. /\ Len(rx) + Len(chunk) + Len(rxFifo) + 4 * InPipe = 4 * Len(w)
       /\ Len(rx) \in Nat /\ Len(chunk) \in Nat /\ Len(rxFifo) \in Nat
  BY DEF OnTheWay, Sizes
<1>13. \A i \in 1 .. Len(rx) : rx'[i] = Frame(<<session', u[1]>>)[i]
  <2> TAKE i \in 1 .. Len(rx)
  <2>1. 1 \in 1 .. Len(w)
    BY <1>3, <1>11, <1>12
  <2> QED  BY <1>1, <1>3, <2>1 DEF OnTheWay
<1>14. \A i \in 1 .. Len(chunk) :
         Carries(session, u, chunk[i], Len(chunk) - i + Len(rxFifo) + 4 * InPipe + 4)
  <2> TAKE i \in 1 .. Len(chunk)
  <2>1. Len(chunk) - i + Len(rxFifo) + 4 * InPipe \in Nat
        /\ Len(chunk) - i + Len(rxFifo) + 4 * InPipe < 4 * Len(w)
    BY <1>11, <1>12
  <2> QED  BY <2>1, CarriesAppend DEF u, OnTheWay
<1>15. \A i \in 1 .. Len(rxFifo) :
         Carries(session, u, rxFifo[i], Len(rxFifo) - i + 4 * InPipe + 4)
  <2> TAKE i \in 1 .. Len(rxFifo)
  <2>1. Len(rxFifo) - i + 4 * InPipe \in Nat
        /\ Len(rxFifo) - i + 4 * InPipe < 4 * Len(w)
    BY <1>11, <1>12
  <2> QED  BY <2>1, CarriesAppend DEF u, OnTheWay
<1>16. \A k \in 1 .. Len(pipe') : k > Len(pipe') - InPipe' =>
         pipe'[k] = Data(Frame(<<session, u[Len(u) - (Len(pipe') - k)]>>))
  <2> SUFFICES ASSUME NEW k \in 1 .. Len(pipe'), k > Len(pipe') - InPipe'
               PROVE  pipe'[k] = Data(Frame(<<session, u[Len(u) - (Len(pipe') - k)]>>))
    OBVIOUS
  <2>1. k = Len(pipe) + 1 \/ k \in 1 .. Len(pipe)
    BY <1>2, <1>6
  <2>2. CASE k = Len(pipe) + 1
    <3>1. Len(u) - (Len(pipe') - k) = Len(w) + 1
      BY <1>2, <1>3, <1>6, <2>2
    <3> QED  BY <1>4, <1>7, <2>2, <3>1 DEF x
  <2>3. CASE k \in 1 .. Len(pipe)
    <3>1. k > Len(pipe) - InPipe /\ Len(u) - (Len(pipe') - k) = Len(w) - (Len(pipe) - k)
          /\ Len(w) - (Len(pipe) - k) \in 1 .. Len(w)
      BY <1>2, <1>3, <1>6, <1>11, <1>12, <2>3
    <3>2. pipe[k] = Data(Frame(<<session, w[Len(w) - (Len(pipe) - k)]>>))
      BY <2>3, <3>1 DEF OnTheWay
    <3> QED  BY <1>3, <1>6, <2>3, <3>1, <3>2
  <2> QED  BY <2>1, <2>2, <2>3
<1>17. OnTheWay(u)'
  <2>1. Len(rx) + Len(chunk) + Len(rxFifo) + 4 * InPipe' = 4 * Len(u)
    BY <1>3, <1>11, <1>12
  <2>2. \A i \in 1 .. Len(chunk) :
          Carries(session, u, chunk[i], Len(chunk) - i + Len(rxFifo) + 4 * InPipe')
    <3> TAKE i \in 1 .. Len(chunk)
    <3>1. Len(chunk) - i + Len(rxFifo) + 4 * InPipe + 4 = Len(chunk) - i + Len(rxFifo) + 4 * InPipe'
      BY <1>11, <1>12
    <3> QED  BY <1>14, <3>1
  <2>3. \A i \in 1 .. Len(rxFifo) :
          Carries(session, u, rxFifo[i], Len(rxFifo) - i + 4 * InPipe')
    <3> TAKE i \in 1 .. Len(rxFifo)
    <3>1. Len(rxFifo) - i + 4 * InPipe + 4 = Len(rxFifo) - i + 4 * InPipe'
      BY <1>11, <1>12
    <3> QED  BY <1>15, <3>1
  <2>4. Len(rxFifo) % 4 = 0
    BY DEF OnTheWay
  <2> QED  BY <1>1, <1>13, <1>16, <2>1, <2>2, <2>3, <2>4 DEF OnTheWay
<1> QED  BY <1>10, <1>17 DEF u

\* An id that is unanswered, or the next one, keeps the order of the ids.
LEMMA OrderedAppend ==
  ASSUME NEW m \in Nat, NEW w \in Seq(Nat), Ordered(m, w), issued \in Nat,
         NEW id \in 1 .. issued', issued' = issued \/ (issued' = issued + 1 /\ id = issued + 1),
         issued < id + Window
  PROVE  Ordered(m, Append(w, id))'
<1> DEFINE u == Append(w, id)
<1>1. m <= issued /\ issued <= issued' /\ issued' \in Nat /\ id \in Nat /\ m <= issued'
  BY DEF Ordered
<1>2. /\ Len(u) = Len(w) + 1 /\ Len(w) \in Nat /\ Window \in Nat /\ Window > 0
      /\ \A i \in 1 .. Len(w) : u[i] = w[i] /\ w[i] \in Nat
  BY <1>1, AppendProperties, LinkOK
<1>3. u[Len(w) + 1] = id
  BY <1>1, AppendProperties, Zenon
<1> HIDE DEF u
<1>4. \A j \in 1 .. Len(u) : j \in 1 .. Len(w) \/ j = Len(w) + 1
  BY <1>2
<1>5. \A j \in 1 .. Len(w) : w[j] \in 1 .. issued /\ m < w[j] + Window
  BY DEF Ordered
<1>6. \A j \in 1 .. Len(u) : u[j] \in 1 .. issued' /\ m < u[j] + Window
  <2> TAKE j \in 1 .. Len(u)
  <2>1. CASE j \in 1 .. Len(w)
    <3>1. u[j] = w[j] /\ w[j] \in 1 .. issued /\ m < w[j] + Window
      BY <1>2, <1>5, <2>1
    <3> QED  BY <1>1, <3>1
  <2>2. CASE j = Len(w) + 1
    <3>1. m < id + Window
      BY <1>2, <1>1
    <3> QED  BY <1>3, <2>2, <3>1
  <2> QED  BY <1>4, <2>1, <2>2
<1>7. \A i, j \in 1 .. Len(u) : i < j => u[i] < u[j] + Window
  <2> SUFFICES ASSUME NEW i \in 1 .. Len(u), NEW j \in 1 .. Len(u), i < j
               PROVE  u[i] < u[j] + Window
    OBVIOUS
  <2>1. i \in 1 .. Len(w)
    BY <1>2
  <2>2. CASE j \in 1 .. Len(w)
    BY <1>2, <2>1, <2>2 DEF Ordered
  <2>3. CASE j = Len(w) + 1
    <3>1. u[i] = w[i] /\ w[i] \in 1 .. issued /\ u[j] = id
      BY <1>2, <1>3, <1>5, <2>1, <2>3
    <3> QED  BY <1>2, <1>1, <3>1
  <2> QED  BY <1>4, <2>2, <2>3
<1>8. \A v \in m + 1 .. issued : \E j \in 1 .. Len(w) : w[j] = v
  BY DEF Ordered
<1>9. \A j \in 1 .. Len(u) : u[j] <= m + 1 \/ \E i \in 1 .. j - 1 : u[i] = u[j] - 1
  <2> TAKE j \in 1 .. Len(u)
  <2>1. CASE j \in 1 .. Len(w)
    <3>1. w[j] <= m + 1 \/ \E i \in 1 .. j - 1 : w[i] = w[j] - 1
      BY <2>1 DEF Ordered
    <3>2. \A i \in 1 .. j - 1 : i \in 1 .. Len(w)
      BY <1>2, <2>1
    <3> QED  BY <1>2, <2>1, <3>1, <3>2
  <2>2. CASE j = Len(w) + 1
    <3>1. id <= m + 1 \/ id - 1 \in m + 1 .. issued
      BY <1>1
    <3>2. CASE id - 1 \in m + 1 .. issued
      <4>1. PICK i \in 1 .. Len(w) : w[i] = id - 1
        BY <1>8, <3>2
      <4>2. i \in 1 .. j - 1 /\ u[i] = u[j] - 1
        BY <1>2, <1>3, <2>2, <4>1
      <4> QED  BY <4>2
    <3> QED  BY <1>3, <2>2, <3>1, <3>2
  <2> QED  BY <1>4, <2>1, <2>2
<1>10. \A v \in m + 1 .. issued' : \E j \in 1 .. Len(u) : u[j] = v
  <2> TAKE v \in m + 1 .. issued'
  <2>1. CASE v \in m + 1 .. issued
    <3>1. PICK j \in 1 .. Len(w) : w[j] = v
      BY <1>8, <2>1
    <3>2. j \in 1 .. Len(u) /\ u[j] = v
      BY <1>2, <3>1
    <3> QED  BY <3>2
  <2>2. CASE v \notin m + 1 .. issued
    <3>1. v = id
      BY <1>1, <2>2
    <3>2. Len(w) + 1 \in 1 .. Len(u)
      BY <1>2
    <3> QED  BY <1>3, <3>1, <3>2
  <2> QED  BY <2>1, <2>2
<1>11. Ordered(m, u)'
  BY <1>1, <1>6, <1>7, <1>9, <1>10 DEF Ordered
<1> QED  BY <1>11 DEF u

LEMMA WriteHeld ==
  ASSUME IInv, FramingInv, kind = "orderly", NEW m \in Nat, NEW w \in Seq(Nat), Held(m, w),
         NEW id \in 1 .. issued', Write(id),
         issued' = issued \/ (issued' = issued + 1 /\ id = issued + 1),
         issued < id + Window,
         \A i \in 1 .. issued' : ~Answered(i) => issued' < i + Window,
         Load(w) + 2 <= 2 * owed', Load(w) + 2 <= 2 * writes', writes' > 0
  PROVE  Held(m, Append(w, id))'
<1>1. Sizes
  BY AllSizes
<1>2. id \in Nat /\ id > 0
  BY <1>1 DEF Sizes
<1>3. OnTheWay(Append(w, id))' /\ (Opening' <=> Opening)
  BY <1>1, <1>2, WayAppend DEF Held
<1>4. Ordered(m, Append(w, id))'
  BY <1>1, OrderedAppend DEF Held, Sizes
<1>5. /\ up /\ up' /\ UNCHANGED <<session, answered, half>>
      /\ UNCHANGED <<dtr, usb, rxFifo, rxSem, txRing, txFailed, pc, chunk, rx, total, req, reply,
                     queued, executed, seen, seenLen, seenNext>>
  BY DEF Write, Device, driver, parser, handler, ringVars
<1>6. Resets'
  BY <1>3, <1>5 DEF Held, Resets, Calm
<1>7. Replies'
  BY <1>5 DEF Held, Replies, Answered
<1>8. Len(Append(w, id)) = Len(w) + 1 /\ Len(w) \in Nat
      /\ (Len(w) > 0 => Append(w, id)[1] = w[1])
  BY <1>2, AppendProperties
<1>9. Handled(m, Append(w, id))'
  <2>1. pc \in Handling => Len(w) > 0
    <3>1. pc \in Handling => Len(rx) = 4
      BY DEF Held, Handled
    <3> QED  BY <1>1, <1>8, <3>1 DEF Held, OnTheWay, Sizes
  <2>2. Handled(m, w)
    BY DEF Held
  <2> QED  BY <1>5, <1>8, <2>1, <2>2 DEF Handled, Handling
<1>10. Owing(Append(w, id))'
  <2>1. Load(Append(w, id))' = Load(w) + 2
    BY <1>1, <1>5, <1>8 DEF Load, Sizes
  <2> QED  BY <2>1 DEF Owing
<1>11. Memory(m)'
  <2>1. Remembered(m) => Remembered(m)'
    BY <1>5 DEF Remembered, Used, IdIn
  <2> QED  BY <1>5, <2>1 DEF Held, Memory
<1>12. Executions(m)'
  BY <1>5 DEF Held, Executions, Done
<1> QED  BY <1>3, <1>4, <1>6, <1>7, <1>9, <1>10, <1>11, <1>12 DEF Held

\* One write more is owed, unless the count of what is owed is at its limit;
\* then so many are owed already.
LEMMA OwedMore ==
  ASSUME NEW l \in Int, NEW o \in Nat, NEW n \in Nat, NEW max \in Nat,
         l <= 2 * o, l <= 2 * n, n < max
  PROVE  l + 2 <= 2 * (IF o < max THEN o + 1 ELSE o) /\ l + 2 <= 2 * (n + 1) /\ n + 1 > 0
<1>1. CASE o < max
  BY <1>1
<1>2. CASE ~(o < max)
  BY <1>2
<1> QED  BY <1>1, <1>2

\* Every answer came: no byte is on the way, at most the frame of the last
\* reply is still in the buffer.
LEMMA CloseHeld ==
  ASSUME IInv, FramingInv, kind = "orderly", NEW m \in Nat, NEW w \in Seq(Nat), Held(m, w),
         ClosePort
  PROVE  Held(m, w)'
<1>1. Sizes /\ Sending /\ Len(w) \in Nat
  BY AllSizes DEF FramingInv
<1>2. /\ up /\ owed = 0 /\ ~up' /\ pipe' = Append(pipe, Line(FALSE))
      /\ UNCHANGED <<session, issued, writes, owed, answered, half>>
      /\ UNCHANGED <<dtr, usb, rxFifo, rxSem, txRing, txFailed, pc, chunk, rx, total, req, reply,
                     queued, executed, seen, seenLen, seenNext>>
  BY DEF ClosePort, Device, driver, parser, handler, ringVars
<1>3. /\ Len(rx) + Len(chunk) + Len(rxFifo) + 4 * InPipe = 4 * Len(w)
      /\ 2 * Len(w) - queued + Len(half) + Len(txRing) <= 0
  BY <1>2 DEF Held, OnTheWay, Owing, Load
<1>4. queued > 0 => Len(rx) = 4
  <2>1. queued > 0 => pc \in Handling
    BY <1>1 DEF Sending, Sizes, Handling
  <2> QED  BY <2>1 DEF Held, Handled
<1>5. /\ Len(rx) = 2 * queued /\ Len(chunk) = 0 /\ Len(rxFifo) = 0 /\ InPipe = 0
      /\ Len(half) = 0 /\ Len(txRing) = 0
  <2>1. /\ Len(rx) \in Nat /\ Len(chunk) \in Nat /\ Len(rxFifo) \in Nat /\ InPipe \in Nat
        /\ Len(half) \in Nat /\ Len(txRing) \in Nat /\ queued \in 0 .. 2
    BY <1>1 DEF Sizes
  <2> DEFINE r == Len(rx)
             c == Len(chunk)
             f == Len(rxFifo)
             h == Len(half)
             t == Len(txRing)
             n == Len(w)
  <2>2. /\ r \in Nat /\ c \in Nat /\ f \in Nat /\ h \in Nat /\ t \in Nat /\ n \in Nat
        /\ r + c + f + 4 * InPipe = 4 * n /\ 2 * n - queued + h + t <= 0
        /\ (queued > 0 => r = 4)
    BY <1>1, <1>3, <1>4, <2>1
  <2> HIDE DEF r, c, f, h, t, n
  <2>3. queued = 0 => n = 0
    BY <2>1, <2>2
  <2>4. queued > 0 => n = 1 /\ queued = 2
    BY <2>1, <2>2
  <2>5. r = 2 * queued /\ c = 0 /\ f = 0 /\ InPipe = 0 /\ h = 0 /\ t = 0
    BY <2>1, <2>2, <2>3, <2>4
  <2> QED  BY <2>5 DEF r, c, f, h, t
<1>6. Calm
  BY <1>1, <1>5 DEF Calm, Sizes
<1>7. pipe = <<>> \/ (Opening /\ pipe = <<Line(TRUE)>>)
  <2>1. CASE Opening
    <3>1. Len(pipe) = 1 /\ pipe[1] = Line(TRUE)
      BY <1>1, <1>2, <1>5, <2>1 DEF InPipe, Sizes, Opening
    <3>2. \A S : \A s \in Seq(S) : Len(s) = 1 => s = <<s[1]>>
      OBVIOUS
    <3> QED  BY <1>1, <2>1, <3>1, <3>2 DEF Sizes
  <2>2. CASE ~Opening
    BY <1>1, <1>2, <1>5, <2>2 DEF InPipe, Sizes
  <2> QED  BY <2>1, <2>2
<1>8. /\ pipe' \in {<<Line(FALSE)>>, <<Line(TRUE), Line(FALSE)>>} /\ pipe' # <<>>
      /\ (Opening' => Opening)
  <2>1. CASE pipe = <<>>
    <3>1. pipe' = <<Line(FALSE)>> /\ pipe'[1] = Line(FALSE) /\ Len(pipe') = 1
      BY <1>2, <2>1
    <3>2. Line(FALSE) # Line(TRUE)
      BY DEF Line
    <3> QED  BY <3>1, <3>2 DEF Opening
  <2>2. CASE Opening /\ pipe = <<Line(TRUE)>>
    <3>1. pipe' = <<Line(TRUE), Line(FALSE)>> /\ Len(pipe') = 2
      <4>1. pipe \in Seq(Sent) /\ Line(FALSE) \in Sent /\ Len(pipe) = 1 /\ pipe[1] = Line(TRUE)
        BY <1>1, <2>2 DEF Sizes, Line, Sent
      <4>2. /\ pipe' \in Seq(Sent) /\ Len(pipe') = 2 /\ pipe'[1] = Line(TRUE)
            /\ pipe'[2] = Line(FALSE)
        <5>1. /\ pipe' \in Seq(Sent) /\ Len(pipe') = Len(pipe) + 1
              /\ \A k \in 1 .. Len(pipe) : pipe'[k] = pipe[k]
              /\ pipe'[Len(pipe) + 1] = Line(FALSE)
          BY <1>2, <4>1, PipeAppend
        <5>2. 1 \in 1 .. Len(pipe) /\ Len(pipe) + 1 = 2
          BY <4>1
        <5> QED  BY <4>1, <5>1, <5>2
      <4>3. \A S : \A s \in Seq(S) : Len(s) = 2 => s = <<s[1], s[2]>>
        OBVIOUS
      <4>4. pipe' = <<Line(TRUE), Line(FALSE)>>
        BY <4>2, <4>3
      <4> QED  BY <4>4
    <3> QED  BY <2>2, <3>1
  <2> QED  BY <1>7, <2>1, <2>2
<1>9. InPipe' = 0
  BY <1>2 DEF InPipe
<1>10. Resets' /\ Replies'
  BY <1>2, <1>6, <1>8 DEF Held, Resets, Calm, Replies, Answered
<1>11. OnTheWay(w)'
  <2>1. pipe' \in Seq(Sent) /\ \A k \in 1 .. Len(pipe') : ~(k > Len(pipe') - 0)
    <3>1. Len(pipe') \in Nat
      <4>1. Append(pipe, Line(FALSE)) \in Seq(Sent)
        BY <1>1, AppendProperties DEF Sizes, Sent, Line
      <4> QED  BY <1>2, <4>1
    <3>2. pipe' \in Seq(Sent)
      BY <1>1, <1>2, AppendProperties DEF Sizes, Sent, Line
    <3> QED  BY <3>1, <3>2
  <2>2. chunk' = <<>> /\ rxFifo' = <<>> /\ rx' = rx /\ Len(<<>>) = 0
    BY <1>2, <1>6, EmptySeq DEF Calm
  <2> QED  BY <1>1, <1>2, <1>3, <1>5, <1>8, <1>9, <2>1, <2>2 DEF Held, OnTheWay
<1>12. Ordered(m, w)' /\ Handled(m, w)'
  BY <1>2 DEF Held, Ordered, Handled
<1>13. Owing(w)' /\ Memory(m)' /\ Executions(m)'
  BY <1>2, <1>8 DEF Held, Owing, Load, Memory, Executions, Done
<1> QED  BY <1>10, <1>11, <1>12, <1>13 DEF Held

LEMMA ClientHeld ==
  ASSUME IInv, FramingInv, kind = "orderly", NEW m \in Nat, NEW w \in Seq(Nat), Held(m, w),
         ClientStep
  PROVE  \E n \in Nat, u \in Seq(Nat) : Held(n, u)'
<1>1. Sizes /\ Sending /\ Len(w) \in Nat /\ Window \in Nat /\ Window > 0
  BY AllSizes, LinkOK DEF FramingInv
<1>2. /\ Load(w) <= 2 * owed /\ Load(w) <= 2 * writes /\ (issued > 0 => writes > 0)
      /\ Load(w) \in Int
  BY <1>1 DEF Held, Owing, Load, Sizes
<1>3. \A id \in 1 .. issued : ~Answered(id) => issued < id + Window
  BY DEF Held, Replies
<1>4. MaxWrites[kind] \in Nat /\ owed <= MaxWrites[kind] /\ writes <= MaxWrites[kind]
  BY WriteCounts DEF IInv, FramingInv, LinkTypes
<1>5. ASSUME NEW id \in Nat, Held(m, Append(w, id))'
      PROVE  \E n \in Nat, u \in Seq(Nat) : Held(n, u)'
  <2>1. Append(w, id) \in Seq(Nat)
    OBVIOUS
  <2> QED  BY <1>5, <2>1
<1>6. CASE OpenPort
  <2>1. Held(0, <<>>)'
    BY <1>6, OpenHeld
  <2>2. 0 \in Nat /\ <<>> \in Seq(Nat)
    OBVIOUS
  <2> QED  BY <2>1, <2>2
<1>7. ASSUME NEW id \in 1 .. issued', Write(id)
      PROVE  /\ owed' = IF owed < MaxWrites[kind] THEN owed + 1 ELSE owed
             /\ \A i : Answered(i)' <=> Answered(i)
  BY <1>7 DEF Write, Answered
<1>8. CASE Send
  <2>1. PICK id \in Nat : id = issued + 1
    BY <1>1 DEF Sizes
  <2>2. /\ issued' = id /\ Write(id) /\ writes' = writes + 1 /\ writes < MaxWrites[kind]
        /\ \A i \in 1 .. issued : ~Answered(i) => issued + 1 < i + Window
    BY <1>8, <2>1 DEF Send
  <2>3. id \in 1 .. issued' /\ issued < id + Window
    BY <1>1, <2>1, <2>2 DEF Sizes
  <2>4. \A i \in 1 .. issued' : ~Answered(i) => issued' < i + Window
    BY <1>1, <2>1, <2>2 DEF Sizes
  <2>5. owed' = IF owed < MaxWrites[kind] THEN owed + 1 ELSE owed
    BY <1>7, <2>2, <2>3
  <2>6. Load(w) + 2 <= 2 * owed' /\ Load(w) + 2 <= 2 * writes' /\ writes' > 0
    <3>1. owed \in Nat /\ writes \in Nat
      BY <1>1 DEF Sizes
    <3> QED  BY <1>2, <1>4, <2>2, <2>5, <3>1, OwedMore
  <2>7. Held(m, Append(w, id))'
    <3>1. issued' = issued \/ (issued' = issued + 1 /\ id = issued + 1)
      BY <2>1, <2>2
    <3> QED  BY <2>2, <2>3, <2>4, <2>6, <3>1, WriteHeld
  <2> QED  BY <1>5, <2>7
<1>9. CASE Retry
  <2>1. PICK id \in 1 .. issued : ~Answered(id) /\ Write(id)
    BY <1>9 DEF Retry
  <2>2. issued' = issued /\ writes' = writes + 1 /\ writes < MaxWrites[kind]
    BY <1>9 DEF Retry
  <2>3. owed' = IF owed < MaxWrites[kind] THEN owed + 1 ELSE owed
    BY <1>7, <2>1, <2>2
  <2>4. Load(w) + 2 <= 2 * owed' /\ Load(w) + 2 <= 2 * writes' /\ writes' > 0
    <3>1. owed \in Nat /\ writes \in Nat
      BY <1>1 DEF Sizes
    <3> QED  BY <1>2, <1>4, <2>2, <2>3, <3>1, OwedMore
  <2>5. Held(m, Append(w, id))'
    BY <1>3, <2>1, <2>2, <2>4, WriteHeld
  <2> QED  BY <1>1, <1>5, <2>1, <2>5 DEF Sizes
<1>10. CASE LateRetry
  <2>1. PICK id \in 1 .. issued : ~Answered(id) /\ Write(id)
    BY <1>10 DEF LateRetry
  <2>2. /\ issued' = issued /\ writes' = writes /\ up
        /\ pipe = <<>> /\ rxFifo = <<>> /\ pc = "wait" /\ usb = "idle" /\ txRing = <<>>
    BY <1>10, <2>1 DEF LateRetry, Write
  <2>3. owed' = IF owed < MaxWrites[kind] THEN owed + 1 ELSE owed
    BY <1>7, <2>1, <2>2
  <2>4. rx = <<>> /\ chunk = <<>> /\ queued = 0 /\ ~txFailed
    BY <1>1, <2>2 DEF Held, Handled, Resets, Sending
  <2>5. Len(w) = 0
    BY <1>1, <2>2, <2>4 DEF Held, OnTheWay, Sizes
  <2>6. half = <<>>
    <3>1. CASE Connected
      <4>1. Stream /\ Tip = half
        BY <2>2, <3>1 DEF FramingInv, Frames, Tip
      <4> QED  BY <2>2, <2>4, <4>1 DEF Stream
    <3>2. CASE ~Connected
      BY <2>2, <3>2 DEF FramingInv, Frames
    <3> QED  BY <3>1, <3>2
  <2>7. Load(w) = 0
    BY <1>1, <2>2, <2>4, <2>5, <2>6 DEF Load, Sizes
  <2>8. writes > 0 /\ writes \in Nat /\ owed \in Nat
    BY <1>1, <1>2, <2>1 DEF Sizes
  <2>9. Load(w) + 2 <= 2 * owed' /\ Load(w) + 2 <= 2 * writes' /\ writes' > 0
    BY <1>4, <2>2, <2>3, <2>7, <2>8
  <2>10. Held(m, Append(w, id))'
    BY <1>3, <2>1, <2>2, <2>9, WriteHeld
  <2> QED  BY <1>1, <1>5, <2>1, <2>10 DEF Sizes
<1>11. CASE ClosePort
  BY <1>11, CloseHeld
<1> QED
  BY <1>6, <1>8, <1>9, <1>10, <1>11 DEF ClientStep, Vanish
-----------------------------------------------------------------------------
(***************************************************************************)
(* The TinyUSB task                                                        *)
(***************************************************************************)
\* What the host sent, from its front.
LEMMA PipeTail ==
  ASSUME pipe \in Seq(Sent), pipe # <<>>, pipe' = Tail(pipe)
  PROVE  /\ Head(pipe) = pipe[1] /\ pipe' \in Seq(Sent) /\ Len(pipe') = Len(pipe) - 1
         /\ Len(pipe) \in Nat /\ Len(pipe) > 0
         /\ \A k \in 1 .. Len(pipe') : pipe'[k] = pipe[k + 1]
<1>1. Len(pipe) \in Nat /\ Len(pipe) > 0
  BY EmptySeq
<1> QED  BY <1>1, HeadTailProperties

\* A frame goes from the pipe to the receive FIFO.
LEMMA ArriveHeld ==
  ASSUME IInv, FramingInv, kind = "orderly", NEW m \in Nat, NEW w \in Seq(Nat), Held(m, w),
         Arrive
  PROVE  Held(m, w)'
<1>1. Sizes /\ Len(w) \in Nat
  BY AllSizes
<1>2. /\ usb = "idle" /\ pipe # <<>> /\ Head(pipe).bytes # <<>> /\ pipe' = Tail(pipe)
      /\ rxFifo' = rxFifo \o Head(pipe).bytes
      /\ UNCHANGED <<up, session, issued, writes, owed, answered, half>>
      /\ UNCHANGED <<dtr, usb, txRing, txFailed, pc, chunk, rx, total, req, reply,
                     queued, executed, seen, seenLen, seenNext>>
  BY DEF Arrive, host, parser, handler, ringVars
<1>3. /\ Head(pipe) = pipe[1] /\ pipe' \in Seq(Sent) /\ Len(pipe') = Len(pipe) - 1
      /\ Len(pipe) \in Nat /\ Len(pipe) > 0
      /\ \A k \in 1 .. Len(pipe') : pipe'[k] = pipe[k + 1]
  <2>1. pipe \in Seq(Sent) /\ pipe # <<>> /\ pipe' = Tail(pipe)
    BY <1>1, <1>2 DEF Sizes
  <2> QED  BY <2>1, PipeTail
<1>4. ~Opening
  BY <1>2, <1>3, LineIsNoData DEF Opening
<1>5. up
  <2>1. ASSUME ~up  PROVE FALSE
    <3>1. pipe \in {<<Line(FALSE)>>, <<Line(TRUE), Line(FALSE)>>}
      BY <1>2, <2>1 DEF Held, OnTheWay
    <3>2. \A a, b : <<a>>[1] = a /\ <<a, b>>[1] = a
      OBVIOUS
    <3>3. pipe[1] = Line(TRUE) \/ pipe[1] = Line(FALSE)
      BY <3>1, <3>2, Zenon
    <3> QED  BY <1>2, <1>3, <3>3, LineIsNoData
  <2> QED  BY <2>1
<1>6. InPipe = Len(pipe)
  BY <1>4, <1>5 DEF InPipe
<1>7. \A k \in 1 .. Len(pipe) : pipe[k] = Data(Frame(<<session, w[Len(w) - (Len(pipe) - k)]>>))
  BY <1>3, <1>6 DEF Held, OnTheWay
<1>8. PICK k \in Nat : k = Len(pipe) - 1
  BY <1>3
<1> DEFINE f == Frame(<<session, w[Len(w) - k]>>)
<1>9. Head(pipe).bytes = f
  <2>1. 1 \in 1 .. Len(pipe)
    BY <1>3
  <2>2. pipe[1] = Data(f)
    BY <1>7, <1>8, <2>1
  <2> QED  BY <1>3, <2>2 DEF Data
<1>10. ~Opening'
  <2>1. ASSUME Opening'  PROVE FALSE
    <3>1. Len(pipe') > 0
      BY <1>3, <2>1, EmptySeq DEF Opening
    <3>2. 1 \in 1 .. Len(pipe') /\ 1 + 1 \in 1 .. Len(pipe)
      BY <1>3, <3>1
    <3>3. pipe'[1] = pipe[1 + 1]
      BY <1>3, <3>2
    <3>4. \E r : pipe[1 + 1] = Data(Frame(r))
      BY <1>7, <3>2
    <3> QED  BY <2>1, <3>3, <3>4, LineIsNoData DEF Opening
  <2> QED  BY <2>1
<1>11. Len(pipe') = k /\ InPipe' = k /\ InPipe = k + 1
  <2>1. InPipe' = Len(pipe')
    BY <1>2, <1>5, <1>10 DEF InPipe
  <2> QED  BY <1>3, <1>6, <1>8, <2>1
<1>12. /\ Len(rxFifo') = Len(rxFifo) + 4
       /\ \A i \in 1 .. Len(rxFifo) : rxFifo'[i] = rxFifo[i]
       /\ \A i \in 1 .. 4 : rxFifo'[Len(rxFifo) + i] = f[i]
  <2>1. Head(pipe) \in Sent /\ Head(pipe).bytes \in Seq(Byte) /\ rxFifo \in Seq(Byte)
    <3>1. pipe[1] \in Sent
      BY <1>1, <1>3, ElementOfSeq DEF Sizes
    <3> QED  BY <1>1, <1>3, <3>1 DEF Sent, Sizes
  <2>2. f \in Seq(Byte) /\ Len(f) = 4
    BY <1>9, <2>1, FrameShape
  <2> HIDE DEF f
  <2>3. rxFifo' = rxFifo \o f
    BY <1>2, <1>9
  <2>4. \A s, t \in Seq(Byte) :
          /\ Len(s \o t) = Len(s) + Len(t) /\ \A i \in 1 .. Len(s) : (s \o t)[i] = s[i]
          /\ \A i \in 1 .. Len(t) : (s \o t)[Len(s) + i] = t[i]
    BY ConcatProperties
  <2>5. /\ Len(rxFifo') = Len(rxFifo) + Len(f)
        /\ \A i \in 1 .. Len(rxFifo) : rxFifo'[i] = rxFifo[i]
        /\ \A i \in 1 .. Len(f) : rxFifo'[Len(rxFifo) + i] = f[i]
    BY <2>1, <2>2, <2>3, <2>4, Zenon
  <2> QED  BY <2>2, <2>5
<1> DEFINE r == Len(rx)
           c == Len(chunk)
           n == Len(rxFifo)
<1>13. /\ r \in Nat /\ c \in Nat /\ n \in Nat /\ r + c + n + 4 * (k + 1) = 4 * Len(w)
       /\ n % 4 = 0
  BY <1>1, <1>11 DEF Held, OnTheWay, Sizes
<1>14. OnTheWay(w)'
  <2>1. /\ \A i \in 1 .. c : Carries(session, w, chunk[i], c - i + n + 4 * (k + 1))
        /\ \A i \in 1 .. n : Carries(session, w, rxFifo[i], n - i + 4 * (k + 1))
    BY <1>11 DEF Held, OnTheWay
  <2>2. \A i \in 1 .. r : rx[i] = Frame(<<session, w[1]>>)[i]
    BY DEF Held, OnTheWay
  <2>3. \A i \in 1 .. 4 : Carries(session, w, f[i], 4 - i + 4 * k)
    BY CarriesFrame
  <2>4. Len(rx') = r /\ Len(chunk') = c /\ Len(rxFifo') = n + 4
    BY <1>2, <1>12
  <2>5. /\ \A i \in 1 .. n : rxFifo'[i] = rxFifo[i]
        /\ \A i \in 1 .. 4 : rxFifo'[n + i] = f[i]
    BY <1>12
  <2> HIDE DEF r, c, n, f
  <2>6. (n + 4) % 4 = 0
    BY <1>13, Division
  <2>7. \A i \in 1 .. c : Carries(session, w, chunk[i], c - i + (n + 4) + 4 * k)
    <3> TAKE i \in 1 .. c
    <3>1. c - i + (n + 4) + 4 * k = c - i + n + 4 * (k + 1)
      BY <1>13
    <3> QED  BY <2>1, <3>1
  <2>8. \A i \in 1 .. n + 4 : Carries(session, w, rxFifo'[i], (n + 4) - i + 4 * k)
    <3> TAKE i \in 1 .. n + 4
    <3>1. CASE i \in 1 .. n
      <4>1. (n + 4) - i + 4 * k = n - i + 4 * (k + 1)
        BY <1>13, <3>1
      <4>2. Carries(session, w, rxFifo[i], n - i + 4 * (k + 1))
        BY <2>1, <3>1
      <4>3. rxFifo'[i] = rxFifo[i]
        BY <2>5, <3>1
      <4> QED  BY <4>1, <4>2, <4>3
    <3>2. CASE i \notin 1 .. n
      <4>1. PICK j \in 1 .. 4 : i = n + j
        <5>1. i - n \in 1 .. 4 /\ i = n + (i - n)
          BY <1>13, <3>2
        <5> QED  BY <5>1
      <4>2. (n + 4) - i + 4 * k = 4 - j + 4 * k
        BY <1>13, <4>1
      <4> QED  BY <2>3, <2>5, <4>1, <4>2
    <3> QED  BY <3>1, <3>2
  <2>9. \A j \in 1 .. Len(pipe') : j > Len(pipe') - InPipe' =>
          pipe'[j] = Data(Frame(<<session, w[Len(w) - (Len(pipe') - j)]>>))
    <3> TAKE j \in 1 .. Len(pipe')
    <3>1. j + 1 \in 1 .. Len(pipe) /\ Len(pipe) - (j + 1) = Len(pipe') - j
      BY <1>3
    <3> QED  BY <1>3, <1>7, <3>1
  <2>10. r + c + (n + 4) + 4 * k = 4 * Len(w)
    BY <1>13
  <2> QED
    BY <1>2, <1>5, <1>11, <2>2, <2>4, <2>6, <2>7, <2>8, <2>9, <2>10 DEF OnTheWay
<1>15. Resets'
  BY <1>2, <1>5, <1>10 DEF Held, Resets
<1>16. Replies' /\ Ordered(m, w)' /\ Handled(m, w)' /\ Owing(w)' /\ Executions(m)'
  BY <1>2 DEF Held, Replies, Answered, Ordered, Handled, Owing, Load, Executions, Done
<1>17. Memory(m)'
  BY <1>2, <1>5 DEF Held, Memory, Remembered, Used, IdIn
<1> QED  BY <1>14, <1>15, <1>16, <1>17 DEF Held

\* The change of the line that opened or closed the port is the only one left.
LEMMA LineStateHeld ==
  ASSUME IInv, FramingInv, kind = "orderly", NEW m \in Nat, NEW w \in Seq(Nat), Held(m, w),
         LineState
  PROVE  Held(m, w)'
<1>1. Sizes /\ Len(w) \in Nat
  BY AllSizes
<1>2. /\ usb = "idle" /\ pipe # <<>> /\ Head(pipe).bytes = <<>> /\ pipe' = Tail(pipe)
      /\ usb' = (IF Head(pipe).line THEN "tx_reset" ELSE "session_reset")
      /\ UNCHANGED <<up, session, issued, writes, owed, answered, half>>
      /\ UNCHANGED <<rxFifo, txRing, txFailed, pc, chunk, rx, total, req, reply,
                     queued, executed, seen, seenLen, seenNext>>
  BY DEF LineState, UsbGoto, host, parser, handler, ringVars
<1>3. /\ Head(pipe) = pipe[1] /\ pipe' \in Seq(Sent) /\ Len(pipe') = Len(pipe) - 1
      /\ Len(pipe) \in Nat /\ Len(pipe) > 0
      /\ \A k \in 1 .. Len(pipe') : pipe'[k] = pipe[k + 1]
  <2>1. pipe \in Seq(Sent) /\ pipe # <<>> /\ pipe' = Tail(pipe)
    BY <1>1, <1>2 DEF Sizes
  <2> QED  BY <2>1, PipeTail
<1>4. Replies' /\ Ordered(m, w)' /\ Handled(m, w)' /\ Owing(w)' /\ Executions(m)'
  BY <1>2 DEF Held, Replies, Answered, Ordered, Handled, Owing, Load, Executions, Done
<1>5. Remembered(m) => Remembered(m)'
  BY <1>2 DEF Remembered, Used, IdIn
<1>6. Line(TRUE).line = TRUE /\ Line(FALSE).line = FALSE /\ Line(TRUE) # Line(FALSE)
  BY DEF Line
<1>7. Calm' <=> Calm
  BY <1>2 DEF Calm
<1>8. \A k : k > Len(pipe) - InPipe /\ k \in 1 .. Len(pipe) =>
               pipe[k] = Data(Frame(<<session, w[Len(w) - (Len(pipe) - k)]>>))
  BY DEF Held, OnTheWay
<1>9. CASE up
  <2>1. Opening
    <3>1. ASSUME ~Opening  PROVE FALSE
      <4>1. 1 > Len(pipe) - InPipe /\ 1 \in 1 .. Len(pipe)
        BY <1>3, <1>9, <3>1 DEF InPipe
      <4>2. \E r : pipe[1] = Data(Frame(r))
        BY <1>8, <4>1
      <4> QED  BY <1>2, <1>3, <4>2, LineIsNoData
    <3> QED  BY <3>1
  <2>2. usb' = "tx_reset"
    BY <1>2, <1>3, <1>6, <2>1 DEF Opening
  <2>3. InPipe = Len(pipe) - 1
    BY <1>9, <2>1 DEF InPipe
  <2>4. ~Opening'
    <3>1. ASSUME Opening'  PROVE FALSE
      <4>1. Len(pipe') > 0
        BY <1>3, <3>1, EmptySeq DEF Opening
      <4>2. 1 \in 1 .. Len(pipe') /\ 1 + 1 \in 1 .. Len(pipe) /\ 1 + 1 > Len(pipe) - InPipe
        BY <1>3, <2>3, <4>1
      <4>3. pipe'[1] = pipe[1 + 1]
        BY <1>3, <4>2
      <4>4. \E r : pipe[1 + 1] = Data(Frame(r))
        BY <1>8, <4>2
      <4> QED  BY <3>1, <4>3, <4>4, LineIsNoData DEF Opening
    <3> QED  BY <3>1
  <2>5. InPipe' = InPipe
    <3>1. InPipe' = Len(pipe')
      BY <1>2, <1>9, <2>4 DEF InPipe
    <3> QED  BY <1>3, <2>3, <3>1
  <2>6. \A j \in 1 .. Len(pipe') :
          pipe'[j] = Data(Frame(<<session, w[Len(w) - (Len(pipe') - j)]>>))
    <3> TAKE j \in 1 .. Len(pipe')
    <3>1. /\ j + 1 \in 1 .. Len(pipe) /\ Len(pipe) - (j + 1) = Len(pipe') - j
          /\ j + 1 > Len(pipe) - InPipe
      BY <1>3, <2>3
    <3> QED  BY <1>3, <1>8, <3>1
  <2>7. OnTheWay(w)'
    BY <1>2, <1>9, <2>5, <2>6 DEF Held, OnTheWay
  <2>8. Resets'
    BY <1>2, <1>7, <2>1 DEF Held, Resets
  <2>9. Memory(m)'
    BY <1>2, <1>5, <1>9, <2>2 DEF Held, Memory
  <2> QED  BY <1>4, <2>7, <2>8, <2>9 DEF Held
<1>10. CASE ~up
  <2>1. InPipe = 0 /\ InPipe' = 0
    BY <1>2, <1>10 DEF InPipe
  <2>2. \A k \in 1 .. Len(pipe') : ~(k > Len(pipe') - 0)
    BY <1>3
  <2>3. \/ pipe = <<Line(FALSE)>> /\ pipe' = <<>>
        \/ pipe = <<Line(TRUE), Line(FALSE)>> /\ pipe' = <<Line(FALSE)>>
    <3>1. \A a, b : Tail(<<a>>) = <<>> /\ Tail(<<a, b>>) = <<b>>
      OBVIOUS
    <3>2. pipe = <<Line(FALSE)>> \/ pipe = <<Line(TRUE), Line(FALSE)>>
      BY <1>2, <1>10 DEF Held, OnTheWay
    <3> QED  BY <1>2, <3>1, <3>2, Zenon
  <2>4. OnTheWay(w)'
    <3>1. pipe' \in {<<>>, <<Line(FALSE)>>, <<Line(TRUE), Line(FALSE)>>}
      BY <2>3
    <3> QED  BY <1>2, <2>1, <2>2, <3>1 DEF Held, OnTheWay
  <2>5. \A a, b : <<a>>[1] = a /\ <<a, b>>[1] = a
    OBVIOUS
  <2>6. ~Opening'
    BY <1>6, <2>3, <2>5 DEF Opening
  <2>7. Resets' /\ Memory(m)'
    <3>1. CASE pipe = <<Line(FALSE)>>
      <4>1. usb' = "session_reset"
        BY <1>2, <1>3, <1>6, <2>5, <3>1
      <4> QED  BY <1>2, <1>7, <1>10, <2>6, <4>1 DEF Held, Resets, Memory
    <3>2. CASE pipe = <<Line(TRUE), Line(FALSE)>>
      <4>1. Opening
        BY <1>2, <2>5, <3>2 DEF Opening
      <4>2. pipe' # <<>>
        <5>1. \A a, b : <<a>> # <<>> /\ <<a, b>> # <<b>>
          OBVIOUS
        <5> QED  BY <2>3, <3>2, <5>1
      <4> QED  BY <1>2, <1>7, <1>10, <2>6, <4>1, <4>2 DEF Held, Resets, Memory
    <3> QED  BY <2>3, <3>1, <3>2
  <2> QED  BY <1>4, <2>4, <2>7 DEF Held
<1> QED  BY <1>9, <1>10

LEMMA RememberedKept ==
  ASSUME NEW m, UNCHANGED <<session, seen, seenLen, seenNext>>, Remembered(m)
  PROVE  Remembered(m)'
BY DEF Remembered, Used, IdIn

\* The resets find nothing to drop but the results of the session before.
LEMMA ResetHeld ==
  ASSUME IInv, FramingInv, kind = "orderly", NEW m \in Nat, NEW w \in Seq(Nat), Held(m, w),
         TxReset \/ FrameReset \/ ConnectionDown
  PROVE  Held(m, w)'
<1>1. /\ UNCHANGED <<up, session, issued, writes, owed, answered, half>>
      /\ UNCHANGED <<pipe, rxFifo, pc, chunk, total, req, reply, queued, executed>>
      /\ usb # "idle"
  BY DEF TxReset, FrameReset, ConnectionDown, host, parser, handler
<1>2. Calm /\ ~txFailed
  BY <1>1 DEF Held, Resets
<1>3. UNCHANGED <<txRing, rx>> /\ ~txFailed'
  <2>1. CASE TxReset
    BY <1>2, <2>1 DEF TxReset, parser, Calm
  <2>2. CASE FrameReset
    <3>1. pc \in {"wait", "read"}
      BY <2>2 DEF FrameReset, Held, Resets
    <3>2. rx = <<>>
      BY <3>1 DEF Held, Handled
    <3> QED  BY <1>2, <2>2, <3>1, <3>2 DEF FrameReset
  <2>3. CASE ConnectionDown
    BY <1>2, <2>3 DEF ConnectionDown, parser
  <2> QED  BY <2>1, <2>2, <2>3
<1>4. Replies' /\ Ordered(m, w)' /\ Handled(m, w)' /\ Owing(w)' /\ Executions(m)'
  BY <1>1, <1>3 DEF Held, Replies, Answered, Ordered, Handled, Owing, Load, Executions, Done
<1>5. OnTheWay(w)' /\ (Opening' <=> Opening) /\ Calm'
  <2>1. (Opening' <=> Opening) /\ InPipe' = InPipe
    BY <1>1 DEF InPipe, Opening
  <2>2. OnTheWay(w)
    BY DEF Held
  <2>3. OnTheWay(w)'
    BY <1>1, <1>3, <2>1, <2>2 DEF OnTheWay, Carries
  <2>4. Calm'
    BY <1>1, <1>2, <1>3 DEF Calm
  <2> QED  BY <2>1, <2>3, <2>4
<1>6. CASE TxReset \/ FrameReset
  <2>1. usb' \in {"frame_reset", "idle"} /\ usb \in {"tx_reset", "frame_reset"}
        /\ UNCHANGED <<seen, seenLen, seenNext>>
    BY <1>6 DEF TxReset, FrameReset, UsbGoto, ringVars
  <2>2. Resets'
    BY <1>1, <1>3, <1>5, <2>1 DEF Held, Resets
  <2>3. Remembered(m) => Remembered(m)'
    BY <1>1, <2>1, RememberedKept
  <2>4. Memory(m)'
    BY <1>1, <2>1, <2>3 DEF Held, Memory
  <2> QED  BY <1>4, <1>5, <2>2, <2>4 DEF Held
<1>7. CASE ConnectionDown
  <2>1. usb = "session_reset" /\ usb' = "idle" /\ seenLen' = 0 /\ seenNext' = 0
    BY <1>7 DEF ConnectionDown, SessionReset, UsbGoto
  <2>2. Resets'
    BY <1>1, <1>3, <1>5, <2>1 DEF Held, Resets
  <2>3. Remembered(0)'
    BY <2>1, RingOK DEF Remembered, Used
  <2>4. up => m = 0
    BY <2>1 DEF Held, Memory
  <2>5. Memory(m)'
    <3>1. CASE up
      BY <1>1, <2>1, <2>3, <2>4, <3>1 DEF Memory
    <3>2. CASE ~up
      BY <1>1, <2>1, <3>2 DEF Memory
    <3> QED  BY <3>1, <3>2
  <2> QED  BY <1>4, <1>5, <2>2, <2>5 DEF Held
<1> QED  BY <1>6, <1>7

\* The client takes a half of a reply; the whole one is the result of its own
\* action, and settles one of its writes.
LEMMA DeliverHeld ==
  ASSUME IInv, FramingInv, kind = "orderly", NEW m \in Nat, NEW w \in Seq(Nat), Held(m, w),
         Deliver
  PROVE  Held(m, w)'
<1>1. Sizes /\ Len(w) \in Nat
  BY AllSizes
<1>2. /\ usb = "idle" /\ up /\ ~LinePending /\ txRing # <<>> /\ txRing' = Tail(txRing)
      /\ UNCHANGED <<up, session, issued, writes, pipe, dtr, usb, rxFifo, txFailed>>
      /\ UNCHANGED <<pc, chunk, rx, total, req, reply, queued, executed, seen, seenLen, seenNext>>
  BY DEF Deliver, parser, handler, ringVars
<1>3. /\ Head(txRing) = txRing[1] /\ Len(txRing') = Len(txRing) - 1
      /\ Len(txRing) \in Nat /\ Len(txRing) > 0
      /\ \A i \in 1 .. Len(txRing') : txRing'[i] = txRing[i + 1]
  <2>1. Len(txRing) \in Nat /\ Len(txRing) > 0 /\ txRing \in Seq(HalfReply)
    BY <1>1, <1>2 DEF Sizes
  <2> QED  BY <1>2, <2>1, HeadTailProperties
<1>4. ~Opening /\ ~Opening'
  <2>1. ASSUME Opening  PROVE FALSE
    <3>1. 1 \in DOMAIN pipe
      <4>1. pipe \in Seq(Sent) /\ Len(pipe) \in Nat /\ Len(pipe) > 0
        BY <1>1, <2>1 DEF Sizes, Opening
      <4> QED  BY <4>1, LenProperties
    <3> QED  BY <1>2, <2>1, <3>1, LineIsNoData DEF LinePending, Opening
  <2> QED  BY <1>2, <2>1 DEF Opening
<1>5. OnTheWay(w)' /\ Ordered(m, w)' /\ Handled(m, w)' /\ Memory(m)' /\ Executions(m)'
  BY <1>2, <1>4 DEF Held, OnTheWay, InPipe, Ordered, Handled, Memory, Remembered, Used, IdIn,
    Executions, Done
<1>6. Resets'
  BY <1>2, <1>4 DEF Held, Resets
<1> DEFINE h == Head(txRing)
<1>7. h.result = <<session, h.id>>
  BY <1>3 DEF Held, Replies
<1>8. \A i \in 1 .. Len(txRing') : txRing'[i].result = <<session', txRing'[i].id>>
  <2> TAKE i \in 1 .. Len(txRing')
  <2>1. i + 1 \in 1 .. Len(txRing) /\ txRing'[i] = txRing[i + 1]
    BY <1>3
  <2> QED  BY <1>2, <2>1 DEF Held, Replies
<1>9. (\A a \in answered' : a[2] = <<session', a[1]>>) /\ answered \subseteq answered'
  <2>1. \/ answered' = answered
        \/ answered' = answered \cup {<<h.id, h.result>>}
    BY DEF Deliver
  <2>2. \A a \in answered : a[2] = <<session, a[1]>>
    BY DEF Held, Replies
  <2>3. <<h.id, h.result>>[2] = h.result /\ <<h.id, h.result>>[1] = h.id
    OBVIOUS
  <2> HIDE DEF h
  <2> QED  BY <1>2, <1>7, <2>1, <2>2, <2>3
<1>10. Replies'
  <2>1. \A id \in 1 .. issued : ~Answered(id)' => ~Answered(id)
    BY <1>9 DEF Answered
  <2>2. \A id \in 1 .. issued : ~Answered(id) => issued < id + Window
    BY DEF Held, Replies
  <2>3. \A id \in 1 .. issued' : ~Answered(id)' => issued' < id + Window
    BY <1>2, <2>1, <2>2
  <2> QED  BY <1>8, <1>9, <2>3 DEF Replies
<1>11. Owing(w)'
  <2> DEFINE t == Len(txRing)
             n == Len(w)
             e == Len(half)
  <2>1. /\ 2 * n - queued + e + t <= 2 * owed /\ 2 * n - queued + e + t <= 2 * writes
        /\ (issued > 0 => writes > 0) /\ t > 0
        /\ t \in Nat /\ n \in Nat /\ e \in 0 .. 1 /\ queued \in 0 .. 2
        /\ owed \in Nat /\ writes \in Nat /\ (half = <<>> <=> e = 0)
    BY <1>1, <1>2, <1>3 DEF Held, Owing, Load, Sizes
  <2>2. Len(<<h>>) = 1 /\ Len(<<>>) = 0
    BY EmptySeq
  <2>3. \/ half = <<>> /\ Len(half') = 1 /\ owed' = owed
        \/ half # <<>> /\ Len(half') = 0 /\ owed' = IF owed > 0 THEN owed - 1 ELSE 0
    BY <2>2 DEF Deliver
  <2>4. Len(txRing') = t - 1
    BY <1>3
  <2> HIDE DEF t, n, e
  <2>5. /\ 2 * n - queued + Len(half') + (t - 1) <= 2 * owed'
        /\ 2 * n - queued + Len(half') + (t - 1) <= 2 * writes
    <3>1. CASE half = <<>>
      <4>1. e = 0 /\ Len(half') = 1 /\ owed' = owed
        BY <2>1, <2>3, <3>1
      <4> QED  BY <2>1, <4>1
    <3>2. CASE half # <<>>
      <4>1. Len(half') = 0 /\ e = 1
        BY <2>1, <2>3, <3>2
      <4>2. 2 * n - queued + 1 + t <= 2 * owed
        BY <2>1, <4>1
      <4>3. CASE owed > 0
        BY <2>1, <2>3, <3>2, <4>1, <4>2, <4>3
      <4>4. CASE owed = 0
        BY <2>1, <2>3, <3>2, <4>1, <4>2, <4>4
      <4> QED  BY <2>1, <4>3, <4>4
    <3> QED  BY <3>1, <3>2
  <2>6. Load(w)' = 2 * n - queued + Len(half') + (t - 1)
    BY <1>2, <2>4 DEF Load, n
  <2> QED  BY <1>2, <2>1, <2>5, <2>6 DEF Owing
<1> QED  BY <1>5, <1>6, <1>10, <1>11 DEF Held

LEMMA UsbHeld ==
  ASSUME IInv, FramingInv, kind = "orderly", NEW m \in Nat, NEW w \in Seq(Nat), Held(m, w),
         UsbStep
  PROVE  Held(m, w)'
BY ArriveHeld, LineStateHeld, ResetHeld, DeliverHeld DEF UsbStep
-----------------------------------------------------------------------------
(***************************************************************************)
(* The receive task                                                        *)
(***************************************************************************)
\* Bytes, and a reply that is not in the ring yet, are of a session that the
\* device knows of and the client has not left.
LEMMA Live ==
  ASSUME NEW m, NEW w, Held(m, w), ~Calm
  PROVE  up /\ ~Opening /\ usb = "idle"
BY DEF Held, Resets

LEMMA AtWork ==
  ASSUME IInv, FramingInv, NEW m \in Nat, NEW w \in Seq(Nat), Held(m, w), pc \in Handling
  PROVE  /\ Len(rx) = 4 /\ total = 4 /\ req = <<session, w[1]>>
         /\ Len(w) \in Nat /\ Len(w) > 0 /\ w[1] \in 1 .. issued /\ m < w[1] + Window
         /\ queued # 2 => up /\ ~Opening /\ usb = "idle" /\ pc # "shift"
<1>1. Sizes /\ Len(w) \in Nat
  BY AllSizes
<1>2. Len(rx) = 4 /\ total = 4 /\ req = <<session, w[1]>> /\ (pc = "shift" => queued = 2)
  BY DEF Held, Handled
<1>3. Len(w) > 0
  <2>1. Len(rx) + Len(chunk) + Len(rxFifo) + 4 * InPipe = 4 * Len(w)
    BY DEF Held, OnTheWay
  <2> QED  BY <1>1, <1>2, <2>1 DEF Sizes
<1>4. w[1] \in 1 .. issued /\ m < w[1] + Window
  <2>1. 1 \in 1 .. Len(w)
    BY <1>1, <1>3
  <2> QED  BY <2>1 DEF Held, Ordered
<1>5. queued # 2 => ~Calm
  BY <1>1, <1>2 DEF Calm, Sizes
<1> QED  BY <1>1, <1>2, <1>3, <1>4, <1>5, Live

\* A step that moves only the program counter, with what goes with it.
LEMMA GotoHeld ==
  ASSUME NEW m, NEW w, Held(m, w),
         UNCHANGED <<up, session, issued, writes, owed, answered, half, pipe, usb, rxFifo,
                     txRing, txFailed, chunk, rx, queued, seen, seenLen, seenNext>>,
         pc' \in {"wait", "read"} \/ pc \notin {"wait", "read"},
         Handled(m, w)', Executions(m)'
  PROVE  Held(m, w)'
<1>1. OnTheWay(w)' /\ Ordered(m, w)' /\ Owing(w)' /\ Replies'
  BY DEF Held, OnTheWay, InPipe, Opening, Ordered, Owing, Load, Replies, Answered
<1>2. (Opening' <=> Opening) /\ (Calm' <=> Calm)
  BY DEF Opening, Calm
<1>3. Resets'
  BY <1>2 DEF Held, Resets
<1>4. Memory(m)'
  BY RememberedKept DEF Held, Memory
<1> QED  BY <1>1, <1>3, <1>4 DEF Held

LEMMA WakeHeld ==
  ASSUME IInv, FramingInv, kind = "orderly", NEW m \in Nat, NEW w \in Seq(Nat), Held(m, w),
         Wake \/ SendBegin \/ Stuck \/ UNCHANGED vars
  PROVE  Held(m, w)'
<1>1. /\ UNCHANGED <<up, session, issued, writes, owed, answered, half, pipe, usb, rxFifo>>
      /\ UNCHANGED <<txRing, txFailed, chunk, rx, total, req, reply, queued, executed>>
      /\ UNCHANGED <<seen, seenLen, seenNext>>
  BY DEF Wake, SendBegin, Stuck, vars, host, driver, parser, handler, ringVars
<1>2. pc' = pc \/ (pc = "wait" /\ pc' = "read") \/ (pc = "send" /\ pc' = "queue")
  BY DEF Wake, SendBegin, Stuck, vars, Held, Resets
<1>3. Handled(m, w)' /\ Executions(m)'
  BY <1>1, <1>2 DEF Held, Handled, Handling, Executions, Done
<1> QED  BY <1>1, <1>2, <1>3, GotoHeld

\* What is in the FIFO becomes the chunk.
LEMMA ReadHeld ==
  ASSUME IInv, FramingInv, kind = "orderly", NEW m \in Nat, NEW w \in Seq(Nat), Held(m, w),
         Read
  PROVE  Held(m, w)'
<1>1. Sizes /\ Len(w) \in Nat
  BY AllSizes
<1>2. /\ UNCHANGED <<up, session, issued, writes, owed, answered, half, pipe, usb>>
      /\ UNCHANGED <<txRing, txFailed, total, req, reply, queued, executed>>
      /\ UNCHANGED <<seen, seenLen, seenNext>>
      /\ pc = "read" /\ rxFifo' = <<>>
  BY DEF Read, host, handler, ringVars
<1>3. rx = <<>> /\ chunk = <<>> /\ Len(<<>>) = 0
  BY <1>2, EmptySeq DEF Held, Handled
<1>4. CASE rxFifo = <<>>
  <2>1. pc' = "wait" /\ UNCHANGED <<chunk, rx, rxFifo>>
    BY <1>2, <1>4 DEF Read
  <2>2. Handled(m, w)' /\ Executions(m)'
    BY <1>2, <2>1 DEF Held, Handled, Handling, Executions, Done
  <2> QED  BY <1>2, <2>1, <2>2, GotoHeld
<1>5. CASE rxFifo # <<>>
  <2>1. pc' = "feed" /\ chunk' = rxFifo /\ rx' = <<>>
    BY <1>2, <1>3, <1>5 DEF Read
  <2>2. up /\ ~Opening /\ usb = "idle"
    BY <1>5, Live DEF Calm
  <2>3. InPipe' = InPipe /\ ~Opening'
    BY <1>2, <2>2 DEF InPipe, Opening
  <2>4. OnTheWay(w)'
    <3>1. /\ Len(rx) + Len(chunk) + Len(rxFifo) + 4 * InPipe = 4 * Len(w)
          /\ \A i \in 1 .. Len(rxFifo) : Carries(session, w, rxFifo[i], Len(rxFifo) - i + 4 * InPipe)
          /\ \A k \in 1 .. Len(pipe) : k > Len(pipe) - InPipe =>
               pipe[k] = Data(Frame(<<session, w[Len(w) - (Len(pipe) - k)]>>))
      BY DEF Held, OnTheWay
    <3>2. Len(rx) = 0 /\ Len(chunk) = 0 /\ Len(rx') = 0 /\ Len(rxFifo') = 0
      BY <1>2, <1>3, <2>1
    <3>3. Len(rxFifo) \in Nat /\ InPipe \in Nat
      BY <1>1 DEF Sizes
    <3>4. \A i \in 1 .. Len(rxFifo) :
            Carries(session, w, rxFifo[i], Len(rxFifo) - i + 0 + 4 * InPipe)
      <4> TAKE i \in 1 .. Len(rxFifo)
      <4>1. Len(rxFifo) - i + 0 + 4 * InPipe = Len(rxFifo) - i + 4 * InPipe
        BY <3>3
      <4> QED  BY <3>1, <4>1
    <3>5. 0 + Len(rxFifo) + 0 + 4 * InPipe = 4 * Len(w) /\ 0 % 4 = 0
      BY <1>1, <3>1, <3>2, <3>3
    <3> QED  BY <1>2, <2>1, <2>2, <2>3, <3>1, <3>2, <3>4, <3>5 DEF OnTheWay
  <2>5. Handled(m, w)' /\ Executions(m)'
    BY <1>2, <1>3, <2>1 DEF Held, Handled, Handling, Executions, Done
  <2>6. Ordered(m, w)' /\ Owing(w)' /\ Replies'
    BY <1>2 DEF Held, Ordered, Owing, Load, Replies, Answered
  <2>7. Resets' /\ Memory(m)'
    BY <1>2, <2>2, <2>3, RememberedKept DEF Held, Resets, Memory
  <2> QED  BY <2>4, <2>5, <2>6, <2>7 DEF Held
<1> QED  BY <1>4, <1>5

LEMMA AppendedLast ==
  ASSUME NEW S, NEW s \in Seq(S), NEW e \in S
  PROVE  Append(s, e)[Len(s) + 1] = e
BY AppendProperties

\* A byte goes from the chunk to the buffer, where it is the next of its frame;
\* between two chunks there is no part of a frame.
LEMMA FeedHeld ==
  ASSUME IInv, FramingInv, kind = "orderly", NEW m \in Nat, NEW w \in Seq(Nat), Held(m, w),
         Feed
  PROVE  Held(m, w)'
<1>1. Sizes /\ Len(w) \in Nat
  BY AllSizes
<1>2. /\ UNCHANGED <<up, session, issued, writes, owed, answered, half, pipe, usb, rxFifo>>
      /\ UNCHANGED <<txRing, txFailed, total, req, reply, queued, executed>>
      /\ UNCHANGED <<seen, seenLen, seenNext>>
      /\ pc = "feed"
  BY DEF Feed, host, driver, handler, ringVars
<1> DEFINE r == Len(rx)
           c == Len(chunk)
           n == Len(rxFifo)
<1>3. /\ r \in Nat /\ c \in Nat /\ n \in Nat /\ InPipe \in Nat
      /\ r + c + n + 4 * InPipe = 4 * Len(w) /\ n % 4 = 0 /\ r < 4
  BY <1>1, <1>2 DEF Held, Handled, OnTheWay, Sizes
<1>4. CASE chunk = <<>>
  <2>1. pc' = "read" /\ UNCHANGED <<chunk, rx>>
    BY <1>4 DEF Feed
  <2>2. c = 0
    BY <1>1, <1>4 DEF Sizes
  <2>3. r = 0
    <3> HIDE DEF r, c, n
    <3>1. PICK q \in Nat : n = 4 * q
      <4>1. n \div 4 \in Nat /\ n = 4 * (n \div 4) + (n % 4)
        BY <1>3, Division
      <4>2. n = 4 * (n \div 4)
        BY <1>3, <4>1
      <4> QED  BY <4>1, <4>2
    <3> QED  BY <1>1, <1>3, <2>2, <3>1
  <2>4. rx = <<>>
    BY <1>1, <2>3 DEF Sizes
  <2>5. Handled(m, w)' /\ Executions(m)'
    BY <1>2, <1>4, <2>1, <2>4 DEF Held, Handled, Handling, Executions, Done
  <2> QED  BY <1>2, <2>1, <2>5, GotoHeld
<1>5. CASE chunk # <<>>
  <2>1. /\ rx' = Append(IF Len(rx) >= FrameCapacity THEN Tail(rx) ELSE rx, Head(chunk))
        /\ chunk' = Tail(chunk) /\ pc' = "drain"
    BY <1>5 DEF Feed
  <2>2. up /\ ~Opening /\ usb = "idle"
    BY <1>5, Live DEF Calm
  <2>3. InPipe' = InPipe /\ ~Opening'
    BY <1>2, <2>2 DEF InPipe, Opening
  <2>4. rx' = Append(rx, Head(chunk))
    BY <1>3, <2>1 DEF FrameCapacity, MAXFRAME, HEADER
  <2>5. /\ Head(chunk) = chunk[1] /\ chunk[1] \in Byte /\ c > 0 /\ Len(chunk') = c - 1
        /\ \A i \in 1 .. c - 1 : chunk'[i] = chunk[i + 1]
    <3>1. chunk \in Seq(Byte) /\ c > 0
      BY <1>1, <1>3, <1>5 DEF Sizes
    <3> QED  BY <1>3, <2>1, <3>1, HeadTailProperties, ElementOfSeq
  <2>6. Len(rx') = r + 1 /\ \A i \in 1 .. r : rx'[i] = rx[i]
    BY <1>1, <2>4, <2>5, AppendProperties DEF Sizes
  <2>7. rx'[r + 1] = chunk[1]
    <3>1. rx \in Seq(Byte) /\ chunk[1] \in Byte
      BY <1>1, <2>5 DEF Sizes
    <3>2. Append(rx, chunk[1])[Len(rx) + 1] = chunk[1]
      BY <3>1, AppendedLast, Zenon
    <3>3. rx' = Append(rx, chunk[1])
      BY <2>4, <2>5
    <3>4. r = Len(rx)
      OBVIOUS
    <3> HIDE DEF r
    <3> QED  BY <3>2, <3>3, <3>4, Zenon
  <2>8. /\ \A i \in 1 .. r : rx[i] = Frame(<<session, w[1]>>)[i]
        /\ \A i \in 1 .. c : Carries(session, w, chunk[i], c - i + n + 4 * InPipe)
        /\ \A i \in 1 .. n : Carries(session, w, rxFifo[i], n - i + 4 * InPipe)
    BY DEF Held, OnTheWay
  <2> HIDE DEF r, c, n
  <2>9. chunk[1] = Frame(<<session, w[1]>>)[r + 1]
    <3>1. PICK left \in Nat : left = c - 1 + n + 4 * InPipe
      BY <1>3, <2>5
    <3>2. 1 \in 1 .. c
      BY <1>3, <2>5
    <3>3. Carries(session, w, chunk[1], left)
      BY <2>8, <3>1, <3>2
    <3>4. left = 4 * Len(w) - r - 1 /\ r \in 0 .. 3
      BY <1>1, <1>3, <3>1
    <3> QED  BY <1>1, <3>3, <3>4, CarriesNext
  <2>10. \A i \in 1 .. Len(rx') : rx'[i] = Frame(<<session, w[1]>>)[i]
    <3> TAKE i \in 1 .. Len(rx')
    <3>1. i \in 1 .. r \/ i = r + 1
      BY <1>3, <2>6
    <3> QED  BY <2>6, <2>7, <2>8, <2>9, <3>1
  <2>11. \A i \in 1 .. Len(chunk') :
           Carries(session, w, chunk'[i], Len(chunk') - i + n + 4 * InPipe)
    <3> TAKE i \in 1 .. Len(chunk')
    <3>1. /\ i \in 1 .. c - 1 /\ i + 1 \in 1 .. c
          /\ Len(chunk') - i + n + 4 * InPipe = c - (i + 1) + n + 4 * InPipe
      BY <1>3, <2>5
    <3>2. chunk'[i] = chunk[i + 1]
      BY <2>5, <3>1
    <3>3. Carries(session, w, chunk[i + 1], c - (i + 1) + n + 4 * InPipe)
      BY <2>8, <3>1
    <3> QED  BY <3>1, <3>2, <3>3
  <2>12. Len(rx') + Len(chunk') + n + 4 * InPipe = 4 * Len(w)
    <3>1. Len(rx') = r + 1 /\ Len(chunk') = c - 1
      BY <2>5, <2>6
    <3> QED  BY <1>1, <1>3, <3>1
  <2>13. OnTheWay(w)'
    BY <1>2, <2>2, <2>3, <2>8, <2>10, <2>11, <2>12 DEF Held, OnTheWay, n
  <2>14. Handled(m, w)' /\ Executions(m)'
    <3>1. Len(rx') <= 4
      BY <1>3, <2>6
    <3> QED  BY <1>2, <2>1, <3>1 DEF Held, Handled, Handling, Executions, Done
  <2>15. Ordered(m, w)' /\ Owing(w)' /\ Replies'
    BY <1>2 DEF Held, Ordered, Owing, Load, Replies, Answered
  <2>16. Resets' /\ Memory(m)'
    BY <1>2, <2>2, <2>3, RememberedKept DEF Held, Resets, Memory
  <2> QED  BY <2>13, <2>14, <2>15, <2>16 DEF Held
<1> QED  BY <1>4, <1>5

\* A whole frame is a request; a part of one waits for the rest.
LEMMA DrainHeld ==
  ASSUME IInv, FramingInv, kind = "orderly", NEW m \in Nat, NEW w \in Seq(Nat), Held(m, w),
         Drain
  PROVE  Held(m, w)'
<1>1. Sizes /\ Sending
  BY AllSizes DEF FramingInv
<1>2. /\ UNCHANGED <<up, session, issued, writes, owed, answered, half, pipe, usb, rxFifo>>
      /\ UNCHANGED <<txRing, txFailed, chunk, reply, queued, executed>>
      /\ UNCHANGED <<seen, seenLen, seenNext>>
      /\ pc = "drain"
  BY DEF Drain, host, driver, ringVars
<1>3. /\ Len(rx) \in Nat /\ Len(rx) <= 4
      /\ \A i \in 1 .. Len(rx) : rx[i] = Frame(<<session, w[1]>>)[i]
  BY <1>1 DEF Held, Handled, OnTheWay, Sizes
<1>4. ASSUME pc' = "feed", UNCHANGED <<rx, total, req>>, Len(rx) < 4
      PROVE  Held(m, w)'
  <2>1. Handled(m, w)' /\ Executions(m)'
    BY <1>2, <1>4 DEF Held, Handled, Handling, Executions, Done
  <2> QED  BY <1>2, <1>4, <2>1, GotoHeld
<1>5. CASE Len(rx) < 2
  <2>1. pc' = "feed" /\ UNCHANGED <<rx, total, req>>
    BY <1>5 DEF Drain, HEADER
  <2> QED  BY <1>3, <1>4, <1>5, <2>1
<1>6. CASE Len(rx) >= 2
  <2>1. rx[1].v = 2 /\ rx[2].v = 0
    <3>1. 1 \in 1 .. Len(rx) /\ 2 \in 1 .. Len(rx)
      BY <1>3, <1>6
    <3>2. rx[1] = Frame(<<session, w[1]>>)[1] /\ rx[2] = Frame(<<session, w[1]>>)[2]
      BY <1>3, <3>1
    <3>3. Frame(<<session, w[1]>>)[1].v = 2 /\ Frame(<<session, w[1]>>)[2].v = 0
      BY DEF Frame
    <3> QED  BY <3>2, <3>3
  <2>2. ReadLength(rx) = 2 /\ Plausible(2)
    BY <2>1 DEF ReadLength, Plausible, MAXFRAME
  <2>3. CASE Len(rx) < 4
    <3>1. pc' = "feed" /\ UNCHANGED <<rx, total, req>>
      BY <1>3, <1>6, <2>2, <2>3 DEF Drain, HEADER
    <3> QED  BY <1>4, <2>3, <3>1
  <2>4. CASE Len(rx) = 4
    <3>1. /\ rx[3] = [v |-> OpenBrace, r |-> <<session, w[1]>>]
          /\ rx[4] = [v |-> CloseBrace, r |-> <<session, w[1]>>]
      <4>1. 3 \in 1 .. Len(rx) /\ 4 \in 1 .. Len(rx)
        BY <2>4
      <4>2. rx[3] = Frame(<<session, w[1]>>)[3] /\ rx[4] = Frame(<<session, w[1]>>)[4]
        BY <1>3, <4>1
      <4> QED  BY <4>2, FrameShape
    <3>2. Braced(rx, 2) /\ rx[2 + 1].r = <<session, w[1]>> /\ rx[2 + 2].r = <<session, w[1]>>
      BY <3>1 DEF Braced, HEADER
    <3>3. pc' = "dispatch" /\ total' = 4 /\ req' = <<session, w[1]>> /\ rx' = rx
      <4>1. /\ total' = 2 + 2 /\ rx' = rx /\ pc' = "dispatch"
            /\ req' = IF rx[2 + 1].r = rx[2 + 2].r THEN rx[2 + 1].r ELSE None
        BY <1>6, <2>2, <2>4, <3>2 DEF Drain, HEADER
      <4> QED  BY <3>2, <4>1
    <3>4. Handled(m, w)' /\ Executions(m)'
      BY <1>2, <2>4, <3>3 DEF Held, Handled, Handling, Executions, Done
    <3> QED  BY <1>2, <3>3, <3>4, GotoHeld
  <2>5. Len(rx) < 4 \/ Len(rx) = 4
    <3>1. \A n \in Nat : n <= 4 => n < 4 \/ n = 4
      OBVIOUS
    <3> QED  BY <1>3, <3>1, Zenon
  <2> QED  BY <2>3, <2>4, <2>5
<1> QED  BY <1>3, <1>5, <1>6

\* The frame that was served leaves the order of the others.
LEMMA OrderedTail ==
  ASSUME NEW m \in Nat, NEW w \in Seq(Nat), Len(w) > 0, Ordered(m, w), w[1] <= m
  PROVE  Ordered(m, Tail(w))
<1> DEFINE u == Tail(w)
<1>1. /\ Len(w) \in Nat /\ Len(u) = Len(w) - 1 /\ Window \in Nat
      /\ \A i \in 1 .. Len(u) : u[i] = w[i + 1]
  <2>1. Len(w) \in Nat /\ w # <<>>
    BY EmptySeq
  <2> QED  BY <2>1, HeadTailProperties, LinkOK
<1> HIDE DEF u
<1>2. \A j \in 1 .. Len(u) : j + 1 \in 1 .. Len(w) /\ u[j] = w[j + 1]
  BY <1>1
<1>3. \A j \in 1 .. Len(u) : u[j] \in 1 .. issued /\ m < u[j] + Window
  BY <1>2 DEF Ordered
<1>4. \A i, j \in 1 .. Len(u) : i < j => u[i] < u[j] + Window
  <2> SUFFICES ASSUME NEW i \in 1 .. Len(u), NEW j \in 1 .. Len(u), i < j
               PROVE  u[i] < u[j] + Window
    OBVIOUS
  <2>1. i + 1 \in 1 .. Len(w) /\ j + 1 \in 1 .. Len(w) /\ i + 1 < j + 1
    BY <1>1
  <2>2. w[i + 1] < w[j + 1] + Window
    BY <2>1 DEF Ordered
  <2> QED  BY <1>2, <2>2
<1>5. \A j \in 1 .. Len(u) : u[j] <= m + 1 \/ \E i \in 1 .. j - 1 : u[i] = u[j] - 1
  <2> TAKE j \in 1 .. Len(u)
  <2>1. j + 1 \in 1 .. Len(w) /\ (j + 1) - 1 = j /\ u[j] = w[j + 1]
    BY <1>2
  <2>2. w[j + 1] <= m + 1 \/ \E i \in 1 .. j : w[i] = w[j + 1] - 1
    BY <2>1 DEF Ordered
  <2>3. CASE \E i \in 1 .. j : w[i] = w[j + 1] - 1
    <3>1. PICK i \in 1 .. j : w[i] = w[j + 1] - 1
      BY <2>3
    <3>2. CASE i = 1
      <4>1. w[j + 1] \in Nat /\ w[1] \in Nat
        <5>1. 1 \in 1 .. Len(w) /\ j + 1 \in 1 .. Len(w)
          BY <1>1, <2>1
        <5> QED  BY <5>1
      <4> QED  BY <2>1, <3>1, <3>2, <4>1
    <3>3. CASE i # 1
      <4>1. PICK l \in 1 .. j - 1 : l + 1 = i
        <5>1. i - 1 \in 1 .. j - 1 /\ (i - 1) + 1 = i
          BY <3>1, <3>3
        <5> QED  BY <5>1
      <4>2. l \in 1 .. Len(u)
        BY <1>1, <4>1
      <4>3. u[l] = u[j] - 1
        BY <1>2, <2>1, <3>1, <4>1, <4>2
      <4> QED  BY <4>1, <4>3
    <3> QED  BY <3>2, <3>3
  <2> QED  BY <2>1, <2>2, <2>3
<1>6. \A v \in m + 1 .. issued : \E j \in 1 .. Len(u) : u[j] = v
  <2> TAKE v \in m + 1 .. issued
  <2>1. PICK j \in 1 .. Len(w) : w[j] = v
    BY DEF Ordered
  <2>2. j # 1
    BY <2>1
  <2>3. j - 1 \in 1 .. Len(u) /\ (j - 1) + 1 = j
    BY <1>1, <2>2
  <2>4. u[j - 1] = w[j]
    BY <1>2, <2>3
  <2> QED  BY <2>1, <2>3, <2>4
<1>7. m <= issued
  BY DEF Ordered
<1> QED  BY <1>3, <1>4, <1>5, <1>6, <1>7 DEF Ordered, u

\* The buffer is empty again: the frame was all it held.
LEMMA ShiftHeld ==
  ASSUME IInv, FramingInv, kind = "orderly", NEW m \in Nat, NEW w \in Seq(Nat), Held(m, w),
         Shift
  PROVE  Held(m, Tail(w))'
<1>1. Sizes /\ pc \in Handling /\ pc = "shift"
  <2>1. pc = "shift"
    BY Zenon DEF Shift
  <2> QED  BY <2>1, AllSizes DEF Handling
<1>2. /\ Len(rx) = 4 /\ total = 4 /\ Len(w) \in Nat /\ Len(w) > 0 /\ queued = 2 /\ w[1] <= m
  <2>1. queued = 2 /\ w[1] <= m
    BY <1>1 DEF Held, Handled
  <2> QED  BY <1>1, <2>1, AtWork
<1>3. /\ rx' = SubSeq(rx, total + 1, Len(rx)) /\ pc' = "drain" /\ queued' = 0
      /\ UNCHANGED <<host, pipe, driver, chunk, executed, ringVars>>
  BY Zenon DEF Shift
<1>4. /\ UNCHANGED <<up, session, issued, writes, owed, answered, half, pipe, usb, rxFifo>>
      /\ UNCHANGED <<txRing, txFailed, chunk, executed, seen, seenLen, seenNext>>
  BY <1>3 DEF host, driver, ringVars
<1>5. rx' = <<>> /\ Len(rx') = 0
  <2>1. rx' = SubSeq(rx, 5, 4) /\ rx \in Seq(Byte)
    BY <1>1, <1>2, <1>3 DEF Sizes
  <2>2. Len(SubSeq(rx, 5, 4)) = 0 /\ SubSeq(rx, 5, 4) \in Seq(Byte)
    BY <2>1
  <2> QED  BY <2>1, <2>2, EmptySeq
<1> DEFINE u == Tail(w)
           c == Len(chunk)
           n == Len(rxFifo)
<1>6. /\ u \in Seq(Nat) /\ Len(u) = Len(w) - 1
      /\ \A i \in 1 .. Len(u) : u[i] = w[i + 1]
  <2>1. w # <<>>
    BY <1>2, EmptySeq
  <2> QED  BY <2>1, HeadTailProperties
<1>7. /\ c \in Nat /\ n \in Nat /\ InPipe \in Nat /\ 4 + c + n + 4 * InPipe = 4 * Len(w)
      /\ Len(pipe) \in Nat
  BY <1>1, <1>2 DEF Held, OnTheWay, Sizes
<1>8. InPipe' = InPipe /\ (Opening' <=> Opening)
  BY <1>4 DEF InPipe, Opening
<1>9. OnTheWay(u)'
  <2>1. /\ \A i \in 1 .. c : Carries(session, w, chunk[i], c - i + n + 4 * InPipe)
        /\ \A i \in 1 .. n : Carries(session, w, rxFifo[i], n - i + 4 * InPipe)
        /\ \A k \in 1 .. Len(pipe) : k > Len(pipe) - InPipe =>
             pipe[k] = Data(Frame(<<session, w[Len(w) - (Len(pipe) - k)]>>))
        /\ n % 4 = 0
    BY DEF Held, OnTheWay
  <2> HIDE DEF c, n
  <2>2. \A i \in 1 .. c : Carries(session, u, chunk[i], c - i + n + 4 * InPipe)
    <3> TAKE i \in 1 .. c
    <3>1. PICK left \in Nat : left = c - i + n + 4 * InPipe
      BY <1>7
    <3>2. left < 4 * (Len(w) - 1)
      BY <1>2, <1>7, <3>1
    <3>3. Carries(session, w, chunk[i], left)
      BY <2>1, <3>1
    <3> QED  BY <3>1, <3>2, <3>3, CarriesTail
  <2>3. \A i \in 1 .. n : Carries(session, u, rxFifo[i], n - i + 4 * InPipe)
    <3> TAKE i \in 1 .. n
    <3>1. PICK left \in Nat : left = n - i + 4 * InPipe
      BY <1>7
    <3>2. left < 4 * (Len(w) - 1)
      BY <1>2, <1>7, <3>1
    <3>3. Carries(session, w, rxFifo[i], left)
      BY <2>1, <3>1
    <3> QED  BY <3>1, <3>2, <3>3, CarriesTail
  <2>4. \A k \in 1 .. Len(pipe) : k > Len(pipe) - InPipe =>
             pipe[k] = Data(Frame(<<session, u[Len(u) - (Len(pipe) - k)]>>))
    <3> TAKE k \in 1 .. Len(pipe)
    <3> HAVE k > Len(pipe) - InPipe
    <3>1. PICK j \in Nat : j = Len(pipe) - k
      <4>1. \A l \in Nat : \A i \in 1 .. l : l - i \in Nat
        OBVIOUS
      <4> QED  BY <1>7, <4>1, Zenon
    <3>2. Len(u) - j \in 1 .. Len(u) /\ (Len(u) - j) + 1 = Len(w) - j
      BY <1>2, <1>6, <1>7, <3>1
    <3>3. u[Len(u) - j] = w[Len(w) - j]
      BY <1>6, <3>2
    <3> QED  BY <2>1, <3>1, <3>3
  <2>5. 0 + c + n + 4 * InPipe = 4 * Len(u)
    BY <1>2, <1>6, <1>7
  <2>6. ~up => pipe \in {<<>>, <<Line(FALSE)>>, <<Line(TRUE), Line(FALSE)>>}
    BY DEF Held, OnTheWay
  <2>7. Len(rx') + Len(chunk') + Len(rxFifo') + 4 * InPipe' = 4 * Len(u)
    BY <1>4, <1>5, <1>8, <2>5 DEF c, n
  <2>8. \A i \in 1 .. Len(rx') : rx'[i] = Frame(<<session', u[1]>>)[i]
    BY <1>5
  <2> HIDE DEF u
  <2> QED  BY <1>4, <1>8, <2>1, <2>2, <2>3, <2>4, <2>6, <2>7, <2>8 DEF OnTheWay, c, n
<1>10. Ordered(m, u)'
  <2>1. Ordered(m, u)
    BY <1>2, OrderedTail DEF Held
  <2> QED  BY <1>4, <2>1 DEF Ordered
<1>11. Handled(m, u)' /\ Executions(m)'
  BY <1>1, <1>3, <1>4, <1>5 DEF Held, Handled, Handling, Executions, Done
<1>12. Resets'
  <2>1. queued' = 0
    BY <1>3
  <2>2. Calm => Calm'
    BY <1>4, <1>5, <2>1 DEF Calm
  <2> QED  BY <1>1, <1>4, <1>8, <2>2 DEF Held, Resets
<1>13. Owing(u)'
  <2>1. Len(half) \in Int /\ Len(txRing) \in Int
    BY <1>1 DEF Sizes
  <2>2. Load(u)' = Load(w)
    BY <1>2, <1>3, <1>4, <1>6, <2>1 DEF Load
  <2> QED  BY <1>4, <2>2 DEF Held, Owing
<1>14. Replies' /\ Memory(m)'
  BY <1>4, RememberedKept DEF Held, Replies, Answered, Memory
<1> QED  BY <1>9, <1>10, <1>11, <1>12, <1>13, <1>14 DEF Held, u

\* The ring answers for an id of the window exactly if it was executed, and
\* with the result of this session.
LEMMA HitIff ==
  ASSUME RingInv, NEW m \in Nat, Remembered(m), NEW k \in Nat, k > 0, m < k + RingSize
  PROVE  /\ Hit(k) <=> k <= m
         /\ k <= m => Replayed(k) = <<session, k>>
<1>1. /\ seenLen \in 0 .. RingSize /\ seenNext \in 0 .. RingSize - 1 /\ RingSize \in Nat
      /\ RingSize > 0 /\ (seenLen < RingSize => seenNext = seenLen)
      /\ \A i, j \in Used : seen[i].id = seen[j].id => i = j
  BY RingOK DEF RingInv, RingTypeOK, Slots
<1>2. /\ IF seenLen < RingSize THEN seenLen = m /\ seenNext = m ELSE RingSize <= m
      /\ \A i \in Used : seen[i].id = IdIn(m, i) /\ seen[i].result = <<session, IdIn(m, i)>>
  BY DEF Remembered
<1>3. \A i \in Used : IdIn(m, i) <= m
  BY <1>1, <1>2 DEF IdIn, Used
<1>4. Hit(k) => k <= m
  BY <1>2, <1>3 DEF Hit
<1>5. ASSUME k <= m  PROVE \E i \in Used : IdIn(m, i) = k
  <2>1. CASE seenLen < RingSize
    <3>1. k - 1 \in Used /\ IdIn(m, k - 1) = k
      BY <1>1, <1>2, <1>5, <2>1 DEF IdIn, Used
    <3> QED  BY <3>1
  <2>2. CASE seenLen = RingSize
    <3>1. CASE k >= m - seenNext + 1
      <4>1. k - m + seenNext - 1 \in Used /\ IdIn(m, k - m + seenNext - 1) = k
        BY <1>1, <1>5, <2>2, <3>1 DEF IdIn, Used
      <4> QED  BY <4>1
    <3>2. CASE k < m - seenNext + 1
      <4>1. /\ k - m + RingSize + seenNext - 1 \in Used
            /\ IdIn(m, k - m + RingSize + seenNext - 1) = k
        BY <1>1, <1>5, <2>2, <3>2 DEF IdIn, Used
      <4> QED  BY <4>1
    <3> QED  BY <1>1, <3>1, <3>2
  <2> QED  BY <1>1, <2>1, <2>2
<1>6. ASSUME k <= m  PROVE Hit(k) /\ Replayed(k) = <<session, k>>
  <2>1. PICK i \in Used : seen[i].id = k
    BY <1>2, <1>5, <1>6
  <2> DEFINE First(j) == seen[j].id = k /\ \A l \in 0 .. j - 1 : seen[l].id # k
             c == CHOOSE j \in Used : First(j)
  <2>2. First(i)
    <3>1. \A l \in 0 .. i - 1 : l \in Used /\ l # i
      BY <1>1 DEF Used
    <3> QED  BY <1>1, <2>1, <3>1
  <2>3. c \in Used /\ First(c)
    <3> HIDE DEF First
    <3> QED  BY <2>2, Zenon
  <2>4. seen[c].id = k
    BY <2>3
  <2> HIDE DEF c
  <2>5. seen[c].result = <<session, k>>
    BY <1>2, <2>3, <2>4
  <2>6. Replayed(k) = seen[c].result
    BY DEF Replayed, c
  <2> QED  BY <2>1, <2>5, <2>6 DEF Hit
<1> QED  BY <1>4, <1>6

\* What is executed next is remembered next.
LEMMA InsertedIsRemembered ==
  ASSUME RingInv, NEW m \in Nat, Remembered(m), session' = session,
         NEW n \in Nat, n = m + 1, Insert(n, <<session, n>>)
  PROVE  Remembered(n)'
<1>1. /\ seenLen \in 0 .. RingSize /\ seenNext \in 0 .. RingSize - 1 /\ RingSize \in Nat
      /\ RingSize > 0 /\ (seenLen < RingSize => seenNext = seenLen)
      /\ seen \in [0 .. RingSize - 1 -> [id : Ids \cup {0}, result : Results]]
  BY RingOK DEF RingInv, RingTypeOK, Slots
<1>2. /\ seenNext' = IF seenNext + 1 = RingSize THEN 0 ELSE seenNext + 1
      /\ seenLen' = IF seenLen < RingSize THEN seenLen + 1 ELSE seenLen
      /\ seen' = [seen EXCEPT ![seenNext] = [id |-> n, result |-> <<session, n>>]]
  BY DEF Insert, Advance
<1>3. /\ IF seenLen < RingSize THEN seenLen = m /\ seenNext = m ELSE RingSize <= m
      /\ \A i \in Used : seen[i].id = IdIn(m, i) /\ seen[i].result = <<session, IdIn(m, i)>>
  BY DEF Remembered
<1>4. IF seenLen' < RingSize THEN seenLen' = n /\ seenNext' = n ELSE RingSize <= n
  BY <1>1, <1>2, <1>3
<1>5. ASSUME NEW i \in Used'
      PROVE  \/ i = seenNext /\ IdIn(n, i)' = n
             \/ i # seenNext /\ i \in Used /\ IdIn(n, i)' = IdIn(m, i)
  <2>1. i \in 0 .. seenLen' - 1
    BY DEF Used
  <2>2. CASE seenLen < RingSize
    BY <1>1, <1>2, <1>3, <2>1, <2>2 DEF IdIn, Used
  <2>3. CASE seenLen = RingSize
    <3>1. CASE seenNext + 1 = RingSize
      BY <1>1, <1>2, <1>3, <2>1, <2>3, <3>1 DEF IdIn, Used
    <3>2. CASE seenNext + 1 # RingSize
      BY <1>1, <1>2, <1>3, <2>1, <2>3, <3>2 DEF IdIn, Used
    <3> QED  BY <3>1, <3>2
  <2> QED  BY <1>1, <2>2, <2>3
<1>6. ASSUME NEW i \in Used'
      PROVE  seen'[i].id = IdIn(n, i)' /\ seen'[i].result = <<session, IdIn(n, i)'>>
  <2>1. CASE i = seenNext
    <3>1. seen'[i] = [id |-> n, result |-> <<session, n>>]
      BY <1>1, <1>2, <2>1
    <3> QED  BY <1>5, <2>1, <3>1
  <2>2. CASE i # seenNext
    <3>1. i \in Used /\ IdIn(n, i)' = IdIn(m, i)
      BY <1>5, <2>2
    <3>2. seen'[i] = seen[i]
      BY <1>1, <1>2, <2>2, <3>1 DEF Used
    <3> QED  BY <1>3, <3>1, <3>2
  <2> QED  BY <2>1, <2>2
<1> QED  BY <1>4, <1>6 DEF Remembered

\* A copy of what was executed is answered from the ring; what is not there is
\* the next id of the client.
LEMMA DispatchHeld ==
  ASSUME Window <= RingSize, IInv, FramingInv, kind = "orderly", NEW m \in Nat,
         NEW w \in Seq(Nat), Held(m, w), Dispatch
  PROVE  Held(m, w)'
<1>1. /\ UNCHANGED <<up, session, issued, writes, owed, answered, half, pipe, usb, rxFifo>>
      /\ UNCHANGED <<txRing, txFailed, chunk, rx, total, req, queued, executed>>
      /\ UNCHANGED <<seen, seenLen, seenNext>>
      /\ pc = "dispatch" /\ pc \in Handling
  BY DEF Dispatch, InHandler, host, driver, parser, ringVars, Handling
<1>2. queued = 0
  BY <1>1 DEF FramingInv, Sending
<1>3. /\ Len(rx) = 4 /\ total = 4 /\ req = <<session, w[1]>>
      /\ Len(w) \in Nat /\ Len(w) > 0 /\ w[1] \in 1 .. issued /\ m < w[1] + Window
      /\ up /\ ~Opening /\ usb = "idle"
  BY <1>1, <1>2, AtWork
<1>4. PICK k \in Nat : k = w[1] /\ k > 0
  <2>1. issued \in Nat
    BY AllSizes DEF Sizes
  <2> QED  BY <1>3, <2>1
<1>5. req # None /\ req[2] = k
  <2>1. \A a, b, c : <<a, b>>[2] = b /\ (b # c => <<a, b>> # <<c, c>>)
    OBVIOUS
  <2>2. req = <<session, k>> /\ k # 0
    BY <1>3, <1>4
  <2> QED  BY <2>1, <2>2, Zenon DEF None
<1>6. /\ Hit(k) <=> k <= m
      /\ k <= m => Replayed(k) = <<session, k>>
  <2>1. m < k + RingSize
    BY <1>3, <1>4, RingOK, LinkOK
  <2>2. Remembered(m) /\ RingInv
    BY <1>3 DEF Held, Memory, IInv
  <2> QED  BY <1>4, <2>1, <2>2, HitIff
<1>7. CASE k <= m
  <2>1. pc' = "send" /\ reply' = <<session, k>>
    BY <1>5, <1>6, <1>7 DEF Dispatch
  <2>2. Handled(m, w)' /\ Executions(m)'
    BY <1>1, <1>3, <1>4, <1>7, <2>1 DEF Held, Handled, Handling, Executions, Done
  <2> QED  BY <1>1, <2>1, <2>2, GotoHeld
<1>8. CASE ~(k <= m)
  <2>1. pc' = "execute" /\ reply' = reply
    BY <1>5, <1>6, <1>8 DEF Dispatch
  <2>2. k = m + 1
    <3>1. 1 \in 1 .. Len(w) /\ ~(\E i \in 1 .. 1 - 1 : w[i] = w[1] - 1)
      BY <1>3
    <3>2. w[1] <= m + 1
      BY <3>1 DEF Held, Ordered
    <3> QED  BY <1>4, <1>8, <3>2
  <2>3. Handled(m, w)' /\ Executions(m)'
    BY <1>1, <1>3, <1>4, <2>1, <2>2 DEF Held, Handled, Handling, Executions, Done
  <2> QED  BY <1>1, <2>1, <2>3, GotoHeld
<1> QED  BY <1>7, <1>8

\* The next id has not been executed in this session.
LEMMA ExecuteHeld ==
  ASSUME IInv, FramingInv, kind = "orderly", NEW m \in Nat, NEW w \in Seq(Nat), Held(m, w),
         Execute
  PROVE  Held(m, w)'
<1>1. /\ UNCHANGED <<up, session, issued, writes, owed, answered, half, pipe, usb, rxFifo>>
      /\ UNCHANGED <<txRing, txFailed, chunk, rx, total, req, queued>>
      /\ UNCHANGED <<seen, seenLen, seenNext>>
      /\ pc = "execute" /\ pc' = "record" /\ reply' = req /\ pc \in Handling
      /\ executed' = [executed EXCEPT ![req] = @ + 1]
  BY DEF Execute, InHandler, host, driver, parser, ringVars, Handling
<1>2. queued = 0
  BY <1>1 DEF FramingInv, Sending
<1>3. up /\ req = <<session, w[1]>> /\ w[1] = m + 1
  BY <1>1, <1>2, AtWork DEF Held, Handled
<1>4. PICK k \in Nat : k = m + 1
  OBVIOUS
<1>5. req = <<session, k>> /\ req \in Request /\ req[1] = session
  BY <1>1, <1>3, <1>4 DEF IInv, LinkInv
<1>6. k \in Ids \ {0}
  BY <1>5 DEF Request
<1>7. /\ executed \in [Request -> {0, 1}]
      /\ \A r \in Request : r[1] > session => executed[r] = 0
      /\ \A i \in Ids \ {0} : executed[<<session, i>>] = 1 => i <= m
  BY <1>1, <1>3 DEF Held, Executions, Done
<1>8. executed[req] = 0
  <2>1. executed[req] # 1
    BY <1>4, <1>5, <1>6, <1>7
  <2> QED  BY <1>5, <1>7, <2>1
<1>9. executed' \in [Request -> {0, 1}] /\ executed'[req] = 1
      /\ \A r \in Request : r # req => executed'[r] = executed[r]
  BY <1>1, <1>5, <1>7, <1>8
<1>10. Executions(m)'
  <2>1. \A r \in Request : r[1] > session => executed'[r] = 0
    <3>1. session \in Nat
      BY AllSizes DEF Sizes
    <3>2. \A r \in Request : r[1] > session => r # req
      BY <1>5, <3>1
    <3> QED  BY <1>7, <1>9, <3>2
  <2>2. \A i \in Ids \ {0} : executed'[<<session, i>>] = 1 => i <= m + 1
    <3> SUFFICES ASSUME NEW i \in Ids \ {0}, executed'[<<session, i>>] = 1
                 PROVE  i <= m + 1
      OBVIOUS
    <3>1. CASE i = k
      BY <1>4, <3>1
    <3>2. CASE i # k
      <4>1. <<session, i>> # req /\ <<session, i>> \in Request
        BY <1>5, <3>2 DEF Request
      <4>2. executed[<<session, i>>] = 1
        BY <1>9, <4>1
      <4> QED  BY <1>7, <4>2, RingOK
    <3> QED  BY <3>1, <3>2
  <2> QED  BY <1>1, <1>9, <2>1, <2>2 DEF Executions, Done
<1>11. Handled(m, w)'
  BY <1>1 DEF Held, Handled, Handling
<1> QED  BY <1>1, <1>10, <1>11, GotoHeld

\* The ids on the way are those of the window behind the one recorded.
LEMMA RecordHeld ==
  ASSUME Window <= RingSize, IInv, FramingInv, kind = "orderly", NEW m \in Nat,
         NEW w \in Seq(Nat), Held(m, w), RecordResult
  PROVE  \E n \in Nat : Held(n, w)'
<1>1. /\ UNCHANGED <<up, session, issued, writes, owed, answered, half, pipe, usb, rxFifo>>
      /\ UNCHANGED <<txRing, txFailed, chunk, rx, total, req, reply, queued, executed>>
      /\ pc = "record" /\ pc' = "send" /\ pc \in Handling /\ Record(req[2], reply)
  BY DEF RecordResult, InHandler, host, driver, parser, handler, Handling
<1>2. queued = 0
  BY <1>1 DEF FramingInv, Sending
<1>3. /\ up /\ ~Opening /\ usb = "idle" /\ req = <<session, w[1]>> /\ w[1] = m + 1
      /\ reply = req /\ w[1] \in 1 .. issued /\ Len(w) > 0 /\ Len(w) \in Nat
  BY <1>1, <1>2, AtWork DEF Held, Handled
<1>4. PICK n \in Nat : n = m + 1
  OBVIOUS
<1>5. req = <<session, n>> /\ req[2] = n /\ n # 0 /\ n > 0
  <2>1. \A a, b : <<a, b>>[2] = b
    OBVIOUS
  <2>2. req = <<session, n>> /\ n # 0 /\ n > 0
    BY <1>3, <1>4
  <2> QED  BY <2>1, <2>2
<1>6. Remembered(m) /\ RingInv
  BY <1>3 DEF Held, Memory, IInv
<1>7. Insert(n, <<session, n>>)
  <2>1. m < n + RingSize
    BY <1>4, RingOK
  <2>2. ~Hit(n)
    BY <1>4, <1>5, <1>6, <2>1, HitIff
  <2> QED  BY <1>1, <1>3, <1>5, <2>2 DEF Record
<1>8. Remembered(n)'
  BY <1>1, <1>4, <1>6, <1>7, InsertedIsRemembered
<1>9. Memory(n)'
  BY <1>1, <1>3, <1>8 DEF Memory
<1>10. Ordered(n, w)'
  <2>1. Ordered(m, w) /\ issued \in Nat /\ Window \in Nat /\ Window > 0
    BY AllSizes, LinkOK DEF Held, Sizes
  <2>2. \A j \in 1 .. Len(w) : w[j] \in 1 .. issued /\ n < w[j] + Window
    <3> TAKE j \in 1 .. Len(w)
    <3>1. w[j] \in 1 .. issued
      BY <2>1 DEF Ordered
    <3>2. CASE j = 1
      BY <1>3, <1>4, <2>1, <3>1, <3>2
    <3>3. CASE j # 1
      <4>1. 1 \in 1 .. Len(w) /\ 1 < j
        BY <1>3, <3>3
      <4>2. w[1] < w[j] + Window
        BY <2>1, <4>1 DEF Ordered
      <4> QED  BY <1>3, <1>4, <3>1, <4>2
    <3> QED  BY <3>2, <3>3
  <2>3. \A j \in 1 .. Len(w) : w[j] <= n + 1 \/ \E i \in 1 .. j - 1 : w[i] = w[j] - 1
    <3> TAKE j \in 1 .. Len(w)
    <3>1. w[j] <= m + 1 \/ \E i \in 1 .. j - 1 : w[i] = w[j] - 1
      BY <2>1 DEF Ordered
    <3>2. w[j] <= m + 1 => w[j] <= n + 1
      BY <1>4, <2>1, <2>2
    <3> QED  BY <3>1, <3>2
  <2>4. \A v \in n + 1 .. issued : \E j \in 1 .. Len(w) : w[j] = v
    <3>1. \A v \in n + 1 .. issued : v \in m + 1 .. issued
      BY <1>4, <2>1
    <3> QED  BY <2>1, <3>1 DEF Ordered
  <2>5. n <= issued
    BY <1>3, <1>4, <2>1
  <2> QED  BY <1>1, <2>1, <2>2, <2>3, <2>4, <2>5 DEF Ordered
<1>11. Handled(n, w)' /\ Executions(n)'
  <2>1. w[1] <= n
    BY <1>3, <1>4
  <2> QED  BY <1>1, <1>4, <2>1 DEF Held, Handled, Handling, Executions, Done
<1>12. OnTheWay(w)' /\ Owing(w)' /\ Replies'
  BY <1>1 DEF Held, OnTheWay, InPipe, Opening, Owing, Load, Replies, Answered
<1>13. Resets'
  BY <1>1, <1>3 DEF Held, Resets, Opening
<1> QED  BY <1>9, <1>10, <1>11, <1>12, <1>13 DEF Held

\* A half of the reply is the client's to take.
LEMMA SendHeld ==
  ASSUME IInv, FramingInv, kind = "orderly", NEW m \in Nat, NEW w \in Seq(Nat), Held(m, w),
         SendPart
  PROVE  Held(m, w)'
<1>1. /\ UNCHANGED <<up, session, issued, writes, owed, answered, half, pipe, usb, rxFifo>>
      /\ UNCHANGED <<txFailed, chunk, rx, total, req, reply, executed>>
      /\ UNCHANGED <<seen, seenLen, seenNext>>
      /\ pc = "queue" /\ pc \in Handling /\ queued' = queued + 1
      /\ txRing' = Append(txRing, Half(queued))
      /\ IF queued' = 2 THEN pc' = "shift" ELSE pc' = pc
  BY DEF SendPart, host, parser, ringVars, Handling
<1>2. Sizes /\ queued \in {0, 1}
  BY <1>1, AllSizes DEF FramingInv, Sending
<1>3. up /\ ~Opening /\ usb = "idle" /\ req = <<session, w[1]>> /\ reply = req
  BY <1>1, <1>2, AtWork DEF Held, Handled
<1> DEFINE h == Half(queued)
<1>4. h \in HalfReply /\ h.result = <<session, h.id>>
  <2>1. h \in HalfReply
    BY HalfIsReply DEF IInv
  <2>2. \A a, b : <<a, b>>[2] = b
    OBVIOUS
  <2>3. h.id = req[2] /\ h.result = reply
    BY DEF Half
  <2> QED  BY <1>3, <2>1, <2>2, <2>3
<1> HIDE DEF h
<1>5. /\ Len(txRing') = Len(txRing) + 1
      /\ \A i \in 1 .. Len(txRing) : txRing'[i] = txRing[i]
  BY <1>1, <1>2, <1>4, AppendProperties DEF h, Sizes
<1>6. txRing'[Len(txRing) + 1] = h
  <2>1. txRing \in Seq(HalfReply) /\ txRing' = Append(txRing, h)
    BY <1>1, <1>2 DEF h, Sizes
  <2> QED  BY <1>4, <2>1, AppendProperties, Zenon
<1>7. Replies'
  <2>1. \A i \in 1 .. Len(txRing') : txRing'[i].result = <<session, txRing'[i].id>>
    <3> TAKE i \in 1 .. Len(txRing')
    <3>1. i \in 1 .. Len(txRing) \/ i = Len(txRing) + 1
      BY <1>2, <1>5 DEF Sizes
    <3>2. \A j \in 1 .. Len(txRing) : txRing[j].result = <<session, txRing[j].id>>
      BY DEF Held, Replies
    <3> QED  BY <1>4, <1>5, <1>6, <3>1, <3>2
  <2> QED  BY <1>1, <2>1 DEF Held, Replies, Answered
<1>8. Owing(w)'
  <2>1. Len(half) \in Int /\ Len(txRing) \in Int /\ Len(w) \in Int /\ queued \in Int
    BY <1>2 DEF Sizes
  <2>2. Load(w)' = Load(w)
    BY <1>1, <1>5, <2>1 DEF Load
  <2> QED  BY <1>1, <2>2 DEF Held, Owing
<1>9. Handled(m, w)' /\ Executions(m)'
  <2>1. pc' \in {"queue", "shift"} /\ (pc' = "shift" => queued' = 2)
    BY <1>1
  <2> QED  BY <1>1, <2>1 DEF Held, Handled, Handling, Executions, Done
<1>10. OnTheWay(w)' /\ Ordered(m, w)' /\ Resets' /\ Memory(m)'
  <2>1. ~Opening' /\ InPipe' = InPipe
    BY <1>1, <1>3 DEF Opening, InPipe
  <2> QED  BY <1>1, <1>3, <2>1, RememberedKept DEF Held, OnTheWay, Ordered, Resets, Memory
<1> QED  BY <1>7, <1>8, <1>9, <1>10 DEF Held

\* The receive task neither faults nor gives a reply up.
LEMMA ReceiveHeld ==
  ASSUME Window <= RingSize, IInv, FramingInv, kind = "orderly", NEW m \in Nat,
         NEW w \in Seq(Nat), Held(m, w), ReceiveStep
  PROVE  \E n \in Nat, u \in Seq(Nat) : Held(n, u)'
<1>1. CASE Wake \/ SendBegin \/ Read \/ Feed \/ Drain \/ Dispatch \/ Execute \/ SendPart
  <2>1. Held(m, w)'
    BY <1>1, WakeHeld, ReadHeld, FeedHeld, DrainHeld, DispatchHeld, ExecuteHeld, SendHeld
  <2> QED  BY <2>1
<1>2. CASE Shift
  <2>1. Held(m, Tail(w))'
    BY <1>2, ShiftHeld
  <2>2. Tail(w) \in Seq(Nat)
    <3>1. pc \in Handling
      <4>1. pc = "shift"
        BY <1>2, Zenon DEF Shift
      <4> QED  BY <4>1 DEF Handling
    <3>2. w # <<>>
      BY <3>1, AtWork, EmptySeq
    <3> QED  BY <3>2, HeadTailProperties
  <2> QED  BY <2>1, <2>2
<1>3. CASE Fault
  <2>1. pc = "shift" /\ Len(rx) < total
    BY <1>3 DEF Fault
  <2>2. Len(rx) = 4 /\ total = 4
    BY <2>1, AtWork DEF Handling
  <2> QED  BY <2>1, <2>2
<1>4. CASE RecordResult
  BY <1>4, RecordHeld
<1>5. CASE GiveUp
  <2>1. pc = "queue" /\ (~up \/ usb = "tx_reset")
    BY <1>5 DEF GiveUp, Undrained
  <2>2. queued # 2 /\ pc \in Handling
    BY <2>1 DEF FramingInv, Sending, Handling
  <2>3. up /\ usb = "idle"
    BY <2>2, AtWork
  <2> QED  BY <2>1, <2>3
<1> QED
  BY <1>1, <1>2, <1>3, <1>4, <1>5 DEF ReceiveStep
-----------------------------------------------------------------------------
LEMMA OnceInit == Init => OnceInv
<1> SUFFICES ASSUME Init  PROVE Held(0, <<>>)
  <2>1. 0 \in Nat /\ <<>> \in Seq(Nat)
    OBVIOUS
  <2> QED  BY <2>1 DEF OnceInv
<1>1. /\ ~up /\ session = 0 /\ issued = 0 /\ writes = 0 /\ owed = 0 /\ answered = {}
      /\ half = <<>> /\ pipe = <<>> /\ usb = "idle" /\ rxFifo = <<>> /\ txRing = <<>>
      /\ txFailed = FALSE /\ pc = "wait" /\ chunk = <<>> /\ rx = <<>> /\ queued = 0
      /\ seenLen = 0 /\ seenNext = 0 /\ executed = [r \in Request |-> 0] /\ Len(<<>>) = 0
  BY EmptySeq DEF Init, DeviceStart, RingInit
<1>2. InPipe = 0 /\ ~Opening
  BY <1>1 DEF InPipe, Opening
<1>3. Resets /\ Replies /\ Owing(<<>>)
  BY <1>1, <1>2 DEF Resets, Calm, Replies, Owing, Load
<1>4. OnTheWay(<<>>) /\ Ordered(0, <<>>)
  BY <1>1, <1>2 DEF OnTheWay, Ordered
<1>5. Handled(0, <<>>) /\ Memory(0) /\ Executions(0)
  BY <1>1 DEF Handled, Handling, Memory, Executions, Done
<1> QED  BY <1>3, <1>4, <1>5 DEF Held

LEMMA OnceStep ==
  ASSUME Window <= RingSize, IInv, FramingInv, OnceInv, [Next]_vars
  PROVE  OnceInv'
<1>1. kind' = kind
  BY DEF Next, ClientStep, OpenPort, Send, Retry, LateRetry, Write, ClosePort, Vanish, UsbStep,
    Arrive, LineState, TxReset, FrameReset, ConnectionDown, Deliver, ReceiveStep, Wake, Read,
    Feed, Drain, Shift, Fault, Dispatch, Execute, RecordResult, SendBegin, SendPart, GiveUp,
    Stuck, InHandler, host, vars
<1> SUFFICES ASSUME kind = "orderly"
             PROVE  \E n \in Nat, u \in Seq(Nat) : Held(n, u)'
  BY <1>1 DEF OnceInv
<1>2. PICK m \in Nat, w \in Seq(Nat) : Held(m, w)
  BY DEF OnceInv
<1>3. CASE ClientStep
  BY <1>2, <1>3, ClientHeld
<1>4. CASE UsbStep
  BY <1>2, <1>4, UsbHeld
<1>5. CASE ReceiveStep
  BY <1>2, <1>5, ReceiveHeld
<1>6. CASE Stuck \/ UNCHANGED vars
  BY <1>2, <1>6, WakeHeld
<1> QED  BY <1>3, <1>4, <1>5, <1>6 DEF Next

LEMMA OnceInvariance ==
  ASSUME Window <= RingSize
  PROVE  Spec => []OnceInv
<1>1. Init => OnceInv
  BY OnceInit
<1>2. IInv /\ FramingInv /\ OnceInv /\ [Next]_vars => OnceInv'
  BY OnceStep
<1> QED  BY <1>1, <1>2, LinkIInv, FramingInvariance, PTL DEF Spec

\* An orderly client that has no more ids unanswered than the ring remembers,
\* and otherwise sends what it likes again as often as it likes: no action of
\* its is executed twice, in any number of sessions.
THEOREM ExecutedOnce ==
  ASSUME Window <= RingSize
  PROVE  Spec => []OncePerSession
<1>1. OnceInv => OncePerSession
  BY DEF OnceInv, Held, Executions, OncePerSession
<1> QED  BY <1>1, OnceInvariance, PTL

\* ... and each answer that it takes is the result of its own action in this
\* session.
THEOREM AnswersAreOwn ==
  ASSUME Window <= RingSize
  PROVE  Spec => []AnswersOwn
<1>1. OnceInv => AnswersOwn
  BY DEF OnceInv, Held, Replies, AnswersOwn
<1> QED  BY <1>1, OnceInvariance, PTL
=============================================================================
