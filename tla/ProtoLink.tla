------------------------------ MODULE ProtoLink ------------------------------
(***************************************************************************)
(* The serial link between the client and the mount: the USB port, the     *)
(* length-prefixed frames, the dispatch of a request and the replay ring.  *)
(*                                                                         *)
(*   TinyUSB task   core 0, prio 20   moves bytes, runs the DTR callback   *)
(*   receive task   core 0, prio 19   frames, handlers, replies            *)
(*                                                                         *)
(* The callback preempts the receive task between any two statements, also *)
(* in the middle of a handler.  Between host and device there is `pipe',   *)
(* in the order the host produced it: bytes, and changes of the port.      *)
(*                                                                         *)
(* A byte is [v, r]: its value and the write that it belongs to.  A frame  *)
(* is a HEADER of two bytes (four in the code), the length and a zero, and *)
(* a body of two, `{' and `}'.  Every request is an action with an id:     *)
(* the other families do not change what this module is about.             *)
(***************************************************************************)
EXTENDS ProtoSession

CONSTANTS
  MaxSessions,     \* how often the client opens the port
  MaxIssued,       \* per kind of client: ids it uses in a session
  MaxWrites,       \* and frames it writes, impatient retries included
  Window,          \* ids a client has unanswered at a time
  TxCapacity,      \* half replies the CDC transmit ring holds
  Clients          \* kinds of clients: a set of "orderly", "hasty"

Sessions == 1 .. MaxSessions
Request == Sessions \X (Ids \ {0})

HEADER == 2
MAXFRAME == 3       \* PROTO_MAX_FRAME: bodies longer than those in use pass
OpenBrace == 7
CloseBrace == 8
Frame(r) == <<[v |-> 2, r |-> r], [v |-> 0, r |-> r],
              [v |-> OpenBrace, r |-> r], [v |-> CloseBrace, r |-> r]>>

Line(up) == [line |-> up, bytes |-> <<>>]
Data(b) == [line |-> FALSE, bytes |-> b]

ASSUME LinkOK ==
  /\ Results = Request \cup {Blank} /\ Blank \notin Request
  /\ {MaxSessions, Window, TxCapacity} \subseteq Nat \ {0}
  /\ Clients \subseteq {"orderly", "hasty"}
  /\ MaxIssued \in [Clients -> Nat] /\ MaxWrites \in [Clients -> Nat]
  /\ \A k \in Clients : 0 .. MaxIssued[k] \subseteq Ids

VARIABLES
  \* the host
  kind,           \* the kind of client; never changes
  up,             \* the port is open
  session,        \* how often it was opened
  issued,         \* the last id used in this session
  writes,         \* frames written in this session
  owed,           \* writes of this session without an answer yet
  answered,       \* history: replies taken in this session, <<id, origin>>
  half,           \* the half reply the client has read, or <<>>
  misframed,      \* history: the client met halves of different replies
  pipe,           \* what the host sent and the TinyUSB task has not taken
  \* the USB driver
  dtr, usb,       \* the TinyUSB task: last state of the line, program counter
  rxFifo, rxSem,  \* receive FIFO and usb_cdc_rx_sem
  txRing, txMutex, txFailed,
  \* the receive task
  pc,
  chunk,          \* bytes read and not yet fed
  rx,             \* s_rx, s_rx_len bytes of it
  stuck,          \* more than PROTO_RX_STUCK_US since s_rx_progress_us
  total,          \* length of the frame being dispatched
  req, reply,     \* the request in hand and the result to send
  queued,         \* halves of the reply already in the ring
  executed        \* history: how often the action of each request ran

host == <<kind, up, session, issued, writes, owed, answered, half, misframed>>
driver == <<dtr, usb, rxFifo, rxSem, txRing, txMutex, txFailed>>
parser == <<chunk, rx, stuck, total>>
handler == <<req, reply, queued>>
vars == <<host, pipe, driver, pc, parser, handler, executed, ringVars>>

None == <<0, 0>>

DeviceStart ==
  /\ dtr = FALSE /\ usb = "idle" /\ rxFifo = <<>> /\ rxSem = FALSE
  /\ txRing = <<>> /\ txMutex = "free" /\ txFailed = FALSE
  /\ pc = "wait" /\ chunk = <<>> /\ rx = <<>> /\ stuck = FALSE /\ total = 0
  /\ req = None /\ reply = Blank /\ queued = 0

Init ==
  /\ kind \in Clients
  /\ up = FALSE /\ session = 0 /\ issued = 0 /\ writes = 0 /\ owed = 0
  /\ answered = {} /\ half = <<>> /\ misframed = FALSE /\ pipe = <<>>
  /\ DeviceStart /\ RingInit
  /\ executed = [r \in Request |-> 0]
-----------------------------------------------------------------------------
(***************************************************************************)
(* The client.  It numbers the actions of a session from one, sends an id  *)
(* again while it has no answer, and may vanish in the middle of a write.  *)
(* An orderly client closes the port when every write was answered and     *)
(* does not reopen it within the microseconds the receive task needs to    *)
(* go back to sleep.                                                       *)
(***************************************************************************)
Device == <<driver, pc, parser, handler, executed, ringVars>>

Answered(id) == \E a \in answered : a[1] = id

OpenPort ==
  /\ ~up /\ session < MaxSessions
  /\ kind = "orderly" => pipe = <<>> /\ pc = "wait"
  /\ up' = TRUE /\ session' = session + 1
  /\ issued' = 0 /\ writes' = 0 /\ owed' = 0
  /\ answered' = {} /\ half' = <<>>
  /\ pipe' = Append(pipe, Line(TRUE))
  /\ UNCHANGED <<kind, misframed, Device>>

Write(id) ==
  /\ up
  /\ owed' = IF owed < MaxWrites[kind] THEN owed + 1 ELSE owed
  /\ pipe' = Append(pipe, Data(Frame(<<session, id>>)))
  /\ UNCHANGED <<kind, up, session, answered, half, misframed, Device>>

Send ==
  /\ issued < MaxIssued[kind] /\ writes < MaxWrites[kind]
  /\ \A id \in 1 .. issued : ~Answered(id) => issued + 1 < id + Window
  /\ issued' = issued + 1 /\ writes' = writes + 1
  /\ Write(issued + 1)

\* An impatient retry: the first copy may still be under way.
Retry ==
  /\ writes < MaxWrites[kind]
  /\ \E id \in 1 .. issued : ~Answered(id) /\ Write(id)
  /\ writes' = writes + 1
  /\ UNCHANGED issued

\* A patient one: nothing more will come.  It may be repeated for ever; only
\* an orderly client looks at owed, and it never gets here.
LateRetry ==
  /\ pipe = <<>> /\ rxFifo = <<>> /\ pc = "wait" /\ usb = "idle" /\ txRing = <<>>
  /\ \E id \in 1 .. issued : ~Answered(id) /\ Write(id)
  /\ UNCHANGED <<issued, writes>>

ClosePort ==
  /\ up /\ (kind = "orderly" => owed = 0)
  /\ up' = FALSE
  /\ pipe' = Append(pipe, Line(FALSE))
  /\ UNCHANGED <<kind, session, issued, writes, owed, answered, half,
                 misframed, Device>>

\* The client dies after a part of a frame, and another one follows.
Vanish ==
  /\ up /\ kind = "hasty" /\ session < MaxSessions
  /\ writes < MaxWrites[kind] /\ issued < MaxIssued[kind]
  /\ \E n \in 1 .. 3 :
       pipe' = pipe \o <<Data(SubSeq(Frame(<<session, issued + 1>>), 1, n)), Line(FALSE)>>
  /\ up' = FALSE
  /\ UNCHANGED <<kind, session, issued, writes, owed, answered, half,
                 misframed, Device>>
-----------------------------------------------------------------------------
(***************************************************************************)
(* The TinyUSB task                                                        *)
(***************************************************************************)
UsbGoto(l) == usb' = l

\* Bytes of the host enter the FIFO and wake the receive task.
Arrive ==
  /\ usb = "idle" /\ pipe # <<>> /\ Head(pipe).bytes # <<>>
  /\ pipe' = Tail(pipe)
  /\ rxFifo' = rxFifo \o Head(pipe).bytes /\ rxSem' = TRUE
  /\ UNCHANGED <<host, dtr, usb, txRing, txMutex, txFailed,
                 pc, parser, handler, executed, ringVars>>

LineState ==
  /\ usb = "idle" /\ pipe # <<>> /\ Head(pipe).bytes = <<>>
  /\ pipe' = Tail(pipe)
  /\ dtr' = Head(pipe).line
  /\ UsbGoto(IF dtr' THEN "tx_reset" ELSE "session_reset")
  /\ UNCHANGED <<host, rxFifo, rxSem, txRing, txMutex, txFailed,
                 pc, parser, handler, executed, ringVars>>

TxReset_NoWait ==
  /\ usb = "tx_reset"
  /\ txRing' = <<>> /\ txFailed' = FALSE
  /\ UsbGoto("frame_reset")
  /\ UNCHANGED <<host, pipe, dtr, rxFifo, rxSem, txMutex,
                 pc, parser, handler, executed, ringVars>>

TxReset_KeepsFailure ==
  /\ usb = "tx_reset" /\ txMutex = "free"
  /\ txRing' = <<>>
  /\ UsbGoto("frame_reset")
  /\ UNCHANGED <<host, pipe, dtr, rxFifo, rxSem, txMutex, txFailed,
                 pc, parser, handler, executed, ringVars>>

\* usb_cdc_tx_reset(): waits for the sender, without a timeout.
TxReset ==
  /\ usb = "tx_reset" /\ txMutex = "free"
  /\ txRing' = <<>> /\ txFailed' = FALSE
  /\ UsbGoto("frame_reset")
  /\ UNCHANGED <<host, pipe, dtr, rxFifo, rxSem, txMutex,
                 pc, parser, handler, executed, ringVars>>

\* The store of zero to s_rx_len is lost when it falls between the load and
\* the store of an update by the receive task, which it preempts.
FrameReset ==
  /\ usb = "frame_reset"
  /\ rx' = <<>> \/ (pc \in {"feed", "drain", "shift"} /\ rx' = rx)
  /\ UsbGoto("idle")
  /\ UNCHANGED <<host, pipe, dtr, rxFifo, rxSem, txRing, txMutex, txFailed,
                 pc, chunk, stuck, total, handler, executed, ringVars>>

ConnectionDown ==
  /\ usb = "session_reset"
  /\ SessionReset
  /\ UsbGoto("idle")
  /\ UNCHANGED <<host, pipe, dtr, rxFifo, rxSem, txRing, txMutex, txFailed,
                 pc, parser, handler, executed>>

\* A half reply goes to the host: the client, if it still has the port open,
\* joins it with the half it has.  A host reads only while the port is open,
\* and opening it ends when the device has taken the change of the line.
LinePending == \E k \in DOMAIN pipe : pipe[k].bytes = <<>>

Deliver ==
  /\ usb = "idle" /\ dtr /\ up /\ ~LinePending /\ txRing # <<>>
  /\ LET h == Head(txRing) IN
     IF half = <<>>
     THEN /\ half' = <<h>> /\ misframed' = (misframed \/ h.part = "back")
          /\ UNCHANGED <<owed, answered>>
     ELSE /\ half' = <<>>
          /\ misframed' = (misframed \/ h # [half[1] EXCEPT !.part = "back"])
          /\ owed' = IF owed > 0 THEN owed - 1 ELSE 0
          /\ answered' = IF h.id \in 1 .. issued /\ ~Answered(h.id)
                         THEN answered \cup {<<h.id, h.result>>} ELSE answered
  /\ txRing' = Tail(txRing)
  /\ UNCHANGED <<kind, up, session, issued, writes, pipe, dtr, usb, rxFifo,
                 rxSem, txMutex, txFailed, pc, parser, handler, executed, ringVars>>
-----------------------------------------------------------------------------
(***************************************************************************)
(* The receive task: read, feed and drain                                  *)
(***************************************************************************)
Wake ==
  /\ pc = "wait" /\ rxSem
  /\ rxSem' = FALSE /\ pc' = "read"
  /\ UNCHANGED <<host, pipe, dtr, usb, rxFifo, txRing, txMutex, txFailed,
                 parser, handler, executed, ringVars>>

\* usb_cdc_drain() reads until the FIFO is empty.  proto_feed() first drops a
\* partial frame that has been idle for too long.
Read ==
  /\ pc = "read"
  /\ IF rxFifo = <<>>
     THEN pc' = "wait" /\ UNCHANGED <<chunk, rx>>
     ELSE pc' = "feed" /\ chunk' = rxFifo
          /\ rx' = IF stuck THEN <<>> ELSE rx
  /\ rxFifo' = <<>>
  /\ UNCHANGED <<host, pipe, dtr, usb, rxSem, txRing, txMutex, txFailed,
                 stuck, total, handler, executed, ringVars>>

Stuck ==
  /\ pc = "wait" /\ rx # <<>> /\ ~stuck
  /\ stuck' = TRUE
  /\ UNCHANGED <<host, pipe, driver, pc, chunk, rx, total, handler, executed, ringVars>>

FrameCapacity == MAXFRAME + HEADER

Feed ==
  /\ pc = "feed"
  /\ IF chunk = <<>>
     THEN pc' = "read" /\ UNCHANGED <<chunk, rx, stuck>>
     ELSE /\ rx' = Append(IF Len(rx) >= FrameCapacity THEN Tail(rx) ELSE rx, Head(chunk))
          /\ chunk' = Tail(chunk) /\ stuck' = FALSE
          /\ pc' = "drain"
  /\ UNCHANGED <<host, pipe, driver, total, handler, executed, ringVars>>

ReadLength(b) == b[1].v + 16 * b[2].v
Plausible_AnyLength(n) == n > 0
Plausible(n) == n > 0 /\ n <= MAXFRAME
Braced(b, n) == b[HEADER + 1].v = OpenBrace /\ b[HEADER + n].v = CloseBrace

\* One round of the loop of proto_drain() up to the dispatch.
Drain ==
  /\ pc = "drain"
  /\ IF Len(rx) < HEADER THEN pc' = "feed" /\ UNCHANGED <<rx, total, req>>
     ELSE LET n == ReadLength(rx) IN
       \/ ~Plausible(n) /\ rx' = Tail(rx) /\ UNCHANGED <<pc, total, req>>
       \/ Plausible(n) /\ Len(rx) < HEADER + n /\ pc' = "feed" /\ UNCHANGED <<rx, total, req>>
       \/ /\ Plausible(n) /\ Len(rx) >= HEADER + n
          /\ total' = HEADER + n
          /\ IF Braced(rx, n)
             THEN /\ pc' = "dispatch"
                  \* well-formed when both braces are of one write
                  /\ req' = IF rx[HEADER + 1].r = rx[HEADER + n].r
                            THEN rx[HEADER + 1].r ELSE None
             ELSE pc' = "shift" /\ UNCHANGED req
          /\ UNCHANGED rx
  /\ UNCHANGED <<host, pipe, driver, chunk, stuck, reply, queued, executed, ringVars>>

\* The rest of the round.  s_rx_len is unsigned: when the callback has emptied
\* the buffer meanwhile, s_rx_len - total wraps and memmove() runs through the
\* memory: the device faults and restarts.
Shift ==
  /\ pc = "shift" /\ Len(rx) >= total
  /\ rx' = SubSeq(rx, total + 1, Len(rx))
  /\ total' = 0 /\ req' = None /\ reply' = Blank /\ queued' = 0
  /\ pc' = "drain"
  /\ UNCHANGED <<host, pipe, driver, chunk, stuck, executed, ringVars>>

Fault ==
  /\ pc = "shift" /\ Len(rx) < total
  /\ dtr' = FALSE /\ usb' = "idle" /\ rxFifo' = <<>> /\ rxSem' = FALSE
  /\ txRing' = <<>> /\ txMutex' = "free" /\ txFailed' = FALSE
  /\ pc' = "wait" /\ chunk' = <<>> /\ rx' = <<>> /\ stuck' = FALSE /\ total' = 0
  /\ req' = None /\ reply' = Blank /\ queued' = 0
  /\ seen' = [i \in Slots |-> [id |-> 0, result |-> Blank]]
  /\ seenLen' = 0 /\ seenNext' = 0
  /\ up' = FALSE /\ pipe' = <<>>
  /\ UNCHANGED <<kind, session, issued, writes, owed, answered, half, misframed, executed>>
-----------------------------------------------------------------------------
(***************************************************************************)
(* The receive task: dispatch, action, reply                               *)
(***************************************************************************)
InHandler == <<host, pipe, driver, parser>>

\* proto_dispatch() and the lookup of proto_handle_action().
Dispatch ==
  /\ pc = "dispatch"
  /\ IF req = None THEN pc' = "send" /\ reply' = Blank
     ELSE IF Hit(req[2]) THEN pc' = "send" /\ reply' = Replayed(req[2])
     ELSE pc' = "execute" /\ UNCHANGED reply
  /\ UNCHANGED <<InHandler, req, queued, executed, ringVars>>

\* The mount call: it may block, so the callback may come before or after.
Execute ==
  /\ pc = "execute"
  /\ executed' = [executed EXCEPT ![req] = @ + 1]
  /\ reply' = req
  /\ pc' = "record"
  /\ UNCHANGED <<InHandler, req, queued, ringVars>>

RecordResult ==
  /\ pc = "record"
  /\ Record(req[2], reply)
  /\ pc' = "send"
  /\ UNCHANGED <<InHandler, handler, executed>>

\* usb_cdc_send(): refused after a failure; the 10 ms wait for the mutex never
\* expires, the callback holds it for a few instructions only.
SendBegin ==
  /\ pc = "send"
  /\ \/ txFailed /\ pc' = "shift" /\ UNCHANGED txMutex
     \/ ~txFailed /\ txMutex = "free" /\ txMutex' = "sender" /\ pc' = "queue"
  /\ UNCHANGED <<host, pipe, dtr, usb, rxFifo, rxSem, txRing, txFailed,
                 parser, handler, executed, ringVars>>

Half(n) == [part |-> IF n = 0 THEN "front" ELSE "back", id |-> req[2], result |-> reply]

SendPart ==
  /\ pc = "queue" /\ Len(txRing) < TxCapacity
  /\ txRing' = Append(txRing, Half(queued))
  /\ queued' = queued + 1
  /\ IF queued' = 2 THEN txMutex' = "free" /\ pc' = "shift" ELSE UNCHANGED <<txMutex, pc>>
  /\ UNCHANGED <<host, pipe, dtr, usb, rxFifo, rxSem, txFailed,
                 parser, req, reply, executed, ringVars>>

\* Nothing drains the ring: the host closed the port, or the TinyUSB task waits.
Undrained == ~up \/ usb = "tx_reset"

GiveUp_KeepsMutex ==
  /\ pc = "queue" /\ Len(txRing) >= TxCapacity /\ Undrained
  /\ txFailed' = TRUE /\ pc' = "shift"
  /\ UNCHANGED <<host, pipe, dtr, usb, rxFifo, rxSem, txRing, txMutex,
                 parser, handler, executed, ringVars>>

GiveUp ==
  /\ pc = "queue" /\ Len(txRing) >= TxCapacity /\ Undrained
  /\ txFailed' = TRUE /\ txMutex' = "free" /\ pc' = "shift"
  /\ UNCHANGED <<host, pipe, dtr, usb, rxFifo, rxSem, txRing,
                 parser, handler, executed, ringVars>>
-----------------------------------------------------------------------------
ClientStep == OpenPort \/ Send \/ Retry \/ LateRetry \/ ClosePort \/ Vanish
UsbStep == Arrive \/ LineState \/ TxReset \/ FrameReset \/ ConnectionDown \/ Deliver
ReceiveStep ==
  \/ Wake \/ Read \/ Feed \/ Drain \/ Shift \/ Fault
  \/ Dispatch \/ Execute \/ RecordResult \/ SendBegin \/ SendPart \/ GiveUp

Next == ClientStep \/ UsbStep \/ ReceiveStep \/ Stuck

Fairness ==
  /\ WF_vars(UsbStep) /\ WF_vars(ReceiveStep)
  /\ WF_vars(Stuck) /\ WF_vars(LateRetry)

Spec == Init /\ [][Next]_vars /\ Fairness
-----------------------------------------------------------------------------
(***************************************************************************)
(* Properties                                                              *)
(***************************************************************************)
\* Types; the receive and the transmit buffer and the ring keep their bounds.
TypeOK ==
  /\ RingTypeOK
  /\ kind \in Clients /\ {up, misframed, dtr, rxSem, txFailed, stuck} \subseteq BOOLEAN
  /\ session \in 0 .. MaxSessions /\ issued \in Ids \cup {0}
  /\ writes \in 0 .. MaxWrites[kind] /\ owed \in 0 .. MaxWrites[kind]
  /\ txMutex \in {"free", "sender"}
  /\ usb \in {"idle", "tx_reset", "frame_reset", "session_reset"}
  /\ pc \in {"wait", "read", "feed", "drain", "dispatch", "execute", "record",
            "send", "queue", "shift"}
  /\ req \in Request \cup {None} /\ reply \in Results
  /\ Len(txRing) <= TxCapacity /\ queued \in 0 .. 2
  /\ Len(rx) <= FrameCapacity

\* A client that stays until it has its answers never has an action executed
\* twice, although it sends ids again while the first copy is under way: every
\* copy meets the result in the ring, because the client has at most RingSize
\* ids unanswered (proto_action.c:45-51, 146; proto_session.c:22).
OncePerSession == kind = "orderly" => \A r \in Request : executed[r] <= 1

\* ... and the result it reads for an id is the one of its own action, not of
\* the action an earlier session had under that id (proto_init.c:14-17).
AnswersOwn == kind = "orderly" => \A a \in answered : a[2] = <<session, a[1]>>

\* Whatever the client does, what it reads after opening the port is a stream
\* of whole replies: a reply cut by a full ring, by a closed port or by a
\* reopening is never followed by another one (usb_cdc_tx.c:16-36, 51-68).
Framed == ~misframed

\* The buffer always has room for the next byte: a plausible frame is complete
\* before it is full, so proto_feed() never drops the front of a frame
\* (proto_frame.c:82-86).
NeverFull == pc = "feed" => Len(rx) < FrameCapacity

\* The connection callback waits for the sender without a timeout, on the task
\* that would drain what the sender waits for.  It gets through all the same:
\* the sender gives up (usb_cdc_tx.c:31, 64-69).
CallbackReturns == (usb # "idle") ~> (usb = "idle")

\* Every request of a client that keeps the port open and asks again is
\* answered, whatever the session before left in the buffers, in the ring and
\* in the failed flag (proto_frame.c:77-79, 95-97; usb_cdc_tx.c:23-36).
Served == \A id \in Ids \ {0} : (up /\ id <= issued) ~> (~up \/ Answered(id))

\* What proto_init.c:15-16 says of a disconnection: the ids of a restarted client
\* cannot collide with those of the client before.  So what a request of the client
\* that has the port open is answered with is the result of its own action, never
\* what the ring has for the same id from another session.
NoIdCollision ==
  pc = "send" /\ up /\ req # None /\ req[1] = session => reply = req
=============================================================================
