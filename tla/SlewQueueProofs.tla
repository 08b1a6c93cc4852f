--------------------------- MODULE SlewQueueProofs ---------------------------
(***************************************************************************)
(* For every batch size, every limit and any number of motions: what the   *)
(* slewing loop counts and plans is what the RMT driver has emitted or     *)
(* still holds, and the buffer it refills is not one the driver reads, as  *)
(* long as no stop preempted between its two stores has left batches       *)
(* behind (`orphaned').                                                    *)
(*                                                                         *)
(* The invariant ties the driver's queue to the two buffers.  It has the   *)
(* batches of ping and pong in this order, less those in the semaphore.    *)
(* That the buffers are refilled whenever steps are left needs the target  *)
(* to be within the limits, or where the axis is.                          *)
(***************************************************************************)
EXTENDS SlewPipelineProofs, SequenceTheorems, FiniteSetTheorems

QueueTypes ==
  /\ {active, aborted, error, orphaned} \subseteq BOOLEAN
  /\ stop \in {"idle", "halted"}
  /\ pc \in {"wait", "enter", "first", "second", "loop", "RA", "DEC", "check", "exit"}
  /\ kind \in {"SLEW", "MOVE_AXIS"}
  /\ fifo \in [Axes -> Seq(Batch)] /\ \A a \in Axes : Len(fifo[a]) <= QueueDepth
  /\ sem \in [Axes -> 0..QueueDepth] /\ emitted \in [Axes -> Nat]
  /\ motion \in 0..MaxMotions /\ (pc # "wait" => motion >= 1)

WithinLimits ==
  \A a \in Axes : target[a] = start[a] \/ (Lo[a] <= target[a] /\ target[a] <= Hi[a])

Front(a) == batch[a][ping[a]]
Back(a) == batch[a][Pong(a)]
Entry(b, n) == [buffer |-> b, steps |-> n, motion |-> motion]

\* The queue and the semaphore of an axis, for what is in its buffers.
InOrder(a) ==
  LET q == fifo[a] IN
  \/ /\ Front(a) = 0 /\ Back(a) = 0 /\ Len(q) = 0
     /\ emitted[a] = done[a] /\ (Total(a) > 0 => sem[a] = 0)
  \/ /\ Front(a) > 0 /\ Back(a) = 0 /\ Len(q) = 1 /\ sem[a] = 0
     /\ q[1] = Entry(ping[a], Front(a)) /\ emitted[a] = done[a]
  \/ /\ Front(a) > 0 /\ Back(a) = 0 /\ Len(q) = 0 /\ sem[a] = 1
     /\ emitted[a] = done[a] + Front(a)
  \/ /\ Front(a) > 0 /\ Back(a) > 0 /\ Len(q) = 2 /\ sem[a] = 0
     /\ q[1] = Entry(ping[a], Front(a)) /\ q[2] = Entry(Pong(a), Back(a))
     /\ emitted[a] = done[a]
  \/ /\ Front(a) > 0 /\ Back(a) > 0 /\ Len(q) = 1 /\ sem[a] = 1
     /\ q[1] = Entry(Pong(a), Back(a)) /\ emitted[a] = done[a] + Front(a)
  \/ /\ Front(a) > 0 /\ Back(a) > 0 /\ Len(q) = 0 /\ sem[a] = 2
     /\ emitted[a] = done[a] + Front(a) + Back(a)

\* An empty buffer means that all the steps are done or in the other one.
Refilled(a) ==
  /\ pc = "second" => Back(a) = 0 /\ (Front(a) = 0 => Total(a) = 0)
  /\ Looping /\ Back(a) = 0 => done[a] + Front(a) = Total(a)

Accounts(a) ==
  /\ pc \in {"wait", "enter", "first"} => Len(fifo[a]) = 0
  /\ pc \in {"enter", "first"} => emitted[a] = 0
  /\ pc = "second" \/ Looping => InOrder(a) /\ Refilled(a)

PingFirst == pc \in {"enter", "first", "second"} => \A a \in Axes : ping[a] = 0

QueueInv ==
  /\ PlanInv /\ QueueTypes /\ WithinLimits /\ PingFirst
  /\ ~orphaned => \A a \in Axes : Accounts(a)
-----------------------------------------------------------------------------
(***************************************************************************)
(* Sums and refills                                                        *)
(***************************************************************************)
LEMMA UpToTwo == \A n \in Nat : n <= 2 => n = 0 \/ n = 1 \/ n = 2
  OBVIOUS

\* What a queue of at most two batches holds.
LEMMA LoadShort ==
  ASSUME NEW q \in Seq(Batch)
  PROVE  /\ Len(q) = 0 => Load(q) = 0
         /\ Len(q) = 1 => Load(q) = q[1].steps
         /\ Len(q) = 2 => Load(q) = q[1].steps + q[2].steps
<1> DEFINE sum[i \in 0..Len(q)] == IF i = 0 THEN 0 ELSE sum[i - 1] + q[i].steps
           partial == [i \in 0..Len(q) |-> IF i = 0 THEN 0 ELSE IF i = 1 THEN q[1].steps
                                           ELSE q[1].steps + q[2].steps]
<1>1. Len(q) \in Nat
  OBVIOUS
<1>2. \A i \in 1..Len(q) : q[i].steps \in Int
  <2>1. \A i \in 1..Len(q) : q[i] \in Batch
    OBVIOUS
  <2>2. \A e \in Batch : e.steps \in Int
    BY SlewConstants DEF Batch
  <2> QED  BY <2>1, <2>2
<1>3. ASSUME Len(q) <= 2
      PROVE  sum = [i \in 0..Len(q) |-> IF i = 0 THEN 0 ELSE sum[i - 1] + q[i].steps]
  <2>1. partial = [i \in 0..Len(q) |-> IF i = 0 THEN 0 ELSE partial[i - 1] + q[i].steps]
    BY <1>1, <1>2, <1>3
  <2> HIDE DEF partial
  <2>2. \E f : f = [i \in 0..Len(q) |-> IF i = 0 THEN 0 ELSE f[i - 1] + q[i].steps]
    BY <2>1
  <2> QED  BY <2>2, Zenon DEF sum
<1>4. Load(q) = sum[Len(q)]
  BY DEF Load
<1> HIDE DEF sum, partial
<1>5. Len(q) <= 2 => sum[0] = 0
  BY <1>1, <1>3
<1>6. Len(q) \in {1, 2} => sum[1] = q[1].steps
  BY <1>1, <1>2, <1>3, <1>5
<1>7. Len(q) = 2 => sum[2] = q[1].steps + q[2].steps
  BY <1>1, <1>2, <1>3, <1>6
<1>8. CASE Len(q) = 0
  BY <1>4, <1>5, <1>8
<1>9. CASE Len(q) = 1
  <2>1. Load(q) = sum[1]
    BY <1>4, <1>9
  <2> QED  BY <1>6, <1>9, <2>1
<1>10. CASE Len(q) = 2
  <2>1. Load(q) = sum[2]
    BY <1>4, <1>10
  <2> QED  BY <1>7, <1>10, <2>1
<1> QED  BY <1>8, <1>9, <1>10

\* Nothing is planned only when nothing is left.
LEMMA RefillNotEmpty ==
  ASSUME PlanTypes, WithinLimits, NEW a \in Axes, NEW d \in Nat, NEW ahead \in Nat,
         NEW n \in 1..MaxBatch, d + ahead <= Total(a),
         NextBatch(a, start[a] + Sign(a) * d, d, ahead, n) = 0
  PROVE  d + ahead = Total(a)
<1>1. /\ Total(a) \in Nat /\ target[a] = start[a] + Sign(a) * Total(a)
      /\ start[a] \in Int /\ target[a] \in Int
  BY Distance DEF PlanTypes
<1>2. Lo[a] \in Int /\ Hi[a] \in Int /\ MaxBatch \in Nat
  BY SlewConstants
<1>3. CASE Total(a) = 0
  BY <1>1, <1>3
<1>4. CASE Total(a) > 0 /\ Sign(a) = 1
  <2>1. target[a] <= Hi[a] /\ target[a] = start[a] + Total(a)
    BY <1>1, <1>4 DEF WithinLimits
  <2>2. NextBatch(a, start[a] + Sign(a) * d, d, ahead, n)
          = IF Hi[a] - (start[a] + d + ahead) > 0
            THEN Smaller(Smaller(n, Total(a) - d - ahead), Hi[a] - (start[a] + d + ahead)) ELSE 0
    BY <1>1, <1>4 DEF NextBatch, ClampBatch
  <2> QED  BY <1>1, <1>2, <1>4, <2>1, <2>2 DEF Smaller
<1>5. CASE Total(a) > 0 /\ Sign(a) = -1
  <2>1. target[a] >= Lo[a] /\ target[a] = start[a] - Total(a)
    BY <1>1, <1>5 DEF WithinLimits
  <2>2. NextBatch(a, start[a] + Sign(a) * d, d, ahead, n)
          = IF (start[a] - d - ahead) - Lo[a] > 0
            THEN Smaller(Smaller(n, Total(a) - d - ahead), (start[a] - d - ahead) - Lo[a]) ELSE 0
    BY <1>1, <1>5 DEF NextBatch, ClampBatch
  <2> QED  BY <1>1, <1>2, <1>5, <2>1, <2>2 DEF Smaller
<1> QED  BY <1>1, <1>3, <1>4, <1>5, Distance

\* A batch that is handed over enters the queue last.
LEMMA HandedOver ==
  ASSUME NEW q \in Seq(Batch), NEW b \in Buffers, NEW n \in 0..MaxBatch,
         motion \in 1..MaxMotions
  PROVE  /\ Handed(q, b, n) \in Seq(Batch)
         /\ n = 0 => Handed(q, b, n) = q
         /\ n > 0 => /\ Len(Handed(q, b, n)) = Len(q) + 1
                     /\ \A i \in 1..Len(q) : Handed(q, b, n)[i] = q[i]
                     /\ Handed(q, b, n)[Len(q) + 1] = Entry(b, n)
<1>1. MaxBatch \in Nat
  BY SlewConstants
<1>2. CASE n = 0
  BY <1>2 DEF Handed
<1>3. CASE n > 0
  <2>1. Entry(b, n) \in Batch
    BY <1>1, <1>3 DEF Entry, Batch
  <2>2. Handed(q, b, n) = Append(q, Entry(b, n))
    BY <1>3 DEF Handed, Entry
  <2> QED  BY <1>3, <2>1, <2>2, AppendProperties
<1> QED  BY <1>1, <1>2, <1>3
-----------------------------------------------------------------------------
(***************************************************************************)
(* The steps                                                               *)
(***************************************************************************)
LEMMA SamePlan ==
  ASSUME UNCHANGED <<start, target>>, WithinLimits
  PROVE  WithinLimits' /\ \A a \in Axes : Sign(a)' = Sign(a) /\ Total(a)' = Total(a)
  BY DEF WithinLimits, Sign, Total

\* A step that leaves the buffers and the driver alone.
LEMMA QueueUntouched ==
  ASSUME QueueInv, PlanInv', UNCHANGED <<plan, progress, driver, history>>,
         {active', aborted', error'} \subseteq BOOLEAN, stop' \in {"idle", "halted"},
         \/ pc' = pc
         \/ Looping /\ pc' \in {"loop", "RA", "DEC", "check", "exit"}
         \/ pc = "enter" /\ pc' \in {"first", "wait"}
  PROVE  QueueInv'
<1> USE DEF QueueInv
<1>1. QueueTypes'
  BY DEF QueueTypes, plan, driver, history, Looping
<1>2. WithinLimits' /\ \A a \in Axes : Total(a)' = Total(a)
  BY SamePlan DEF plan
<1>3. PingFirst'
  BY DEF PingFirst, progress, Looping
<1>4. ASSUME ~orphaned, NEW a \in Axes
      PROVE  Accounts(a)'
  <2>1. Accounts(a)
    BY <1>4
  <2>2. UNCHANGED <<fifo, sem, emitted, batch, ping, done, motion, orphaned>>
    BY DEF progress, driver, history
  <2>3. /\ Front(a)' = Front(a) /\ Back(a)' = Back(a) /\ Pong(a)' = Pong(a)
        /\ \A b, n : Entry(b, n)' = Entry(b, n)
    BY <2>2 DEF Front, Back, Pong, Entry
  <2>4. InOrder(a) => InOrder(a)'
    BY <1>2, <2>2, <2>3 DEF InOrder
  <2>5. (pc' = "second" => pc = "second") /\ (Looping' => Looping)
    BY DEF Looping
  <2>6. pc' = "second" \/ Looping' => Refilled(a)'
    BY <1>2, <2>1, <2>2, <2>3, <2>5 DEF Accounts, Refilled, Looping
  <2> QED  BY <2>1, <2>2, <2>4, <2>5, <2>6 DEF Accounts, Looping
<1> QED  BY <1>1, <1>2, <1>3, <1>4 DEF history

\* A motion starts with an empty queue, if none was left behind.
LEMMA AcceptQueue ==
  ASSUME QueueInv, PlanInv', NEW k \in {"SLEW", "MOVE_AXIS"}, NEW t, Accept(k, t),
         \A a \in Axes : t[a] = position[a] \/ (Lo[a] <= t[a] /\ t[a] <= Hi[a])
  PROVE  QueueInv'
<1> USE DEF QueueInv
<1>1. /\ pc = "wait" /\ pc' = "enter" /\ motion < MaxMotions /\ motion' = motion + 1
      /\ kind' = k /\ start' = position /\ target' = t /\ active' = TRUE
      /\ ping' = [a \in Axes |-> 0] /\ emitted' = [a \in Axes |-> 0]
      /\ UNCHANGED <<aborted, error, stop, fifo, sem, orphaned>>
  BY DEF Accept
<1>2. MaxMotions \in Nat
  BY SlewConstants
<1>4. QueueTypes'
  BY <1>1, <1>2 DEF QueueTypes
<1>5. WithinLimits' /\ PingFirst'
  BY <1>1 DEF WithinLimits, PingFirst
<1>6. ASSUME ~orphaned, NEW a \in Axes
      PROVE  Accounts(a)'
  <2>1. Len(fifo[a]) = 0
    BY <1>1, <1>6 DEF Accounts
  <2> QED  BY <1>1, <2>1 DEF Accounts, Looping
<1> QED  BY <1>1, <1>4, <1>5, <1>6

LEMMA FirstQueue ==
  ASSUME QueueInv, PlanInv', FirstBatches
  PROVE  QueueInv'
<1> USE DEF QueueInv
<1>1. /\ pc = "first" /\ pc' \in {"exit", "second"} /\ motion \in 1..MaxMotions
      /\ UNCHANGED <<plan, position, done, ping, emitted, history>>
      /\ \A a \in Axes : Len(fifo[a]) < QueueDepth
  BY DEF FirstBatches, Goto, GiveUp, QueueTypes, Room
<1> PICK n \in [Axes -> 1..MaxBatch], ok \in Accepted :
       LET size == [a \in Axes |-> NextBatch(a, position[a], 0, 0, n[a])]
           sent == {a \in ok : size[a] > 0}
       IN
       /\ batch' = [a \in Axes |-> [batch[a] EXCEPT ![0] = size[a]]]
       /\ IF ~active
          THEN Goto("exit") /\ UNCHANGED <<control, fifo, sem>>
          ELSE /\ fifo' = [a \in Axes |->
                    IF a \in sent THEN Handed(fifo[a], 0, size[a]) ELSE fifo[a]]
               /\ sem' = [a \in Axes |-> IF a \in sent THEN 0 ELSE sem[a]]
               /\ IF \A a \in Axes : a \in ok \/ size[a] = 0
                  THEN Goto("second") /\ UNCHANGED control
                  ELSE GiveUp
  BY DEF FirstBatches
<1> DEFINE size(a) == NextBatch(a, position[a], 0, 0, n[a])
<1>2. ASSUME NEW a \in Axes
      PROVE  /\ size(a) \in 0..MaxBatch /\ (size(a) = 0 => Total(a) = 0)
             /\ Total(a) \in Nat /\ position[a] = start[a] + Sign(a) * 0 /\ done[a] = 0
             /\ batch[a][1] = 0 /\ batch[a] \in [Buffers -> 0..MaxBatch]
  <2>1. Total(a) \in Nat /\ n[a] \in 1..MaxBatch /\ position[a] \in Int /\ start[a] \in Int
        /\ Sign(a) \in {1, -1} /\ batch[a] \in [Buffers -> 0..MaxBatch]
    BY Distance DEF PlanInv, PlanTypes
  <2>2. done[a] = 0 /\ batch[a][1] = 0 /\ position[a] = start[a] + Sign(a) * done[a]
    BY <1>1 DEF PlanInv, FreshStart, PlanFits
  <2>3. 0 + 0 <= Total(a)
    BY <2>1
  <2>4. size(a) \in 0..MaxBatch
    BY <2>1, <2>3, NextBatchFits DEF PlanInv
  <2>5. ASSUME size(a) = 0  PROVE Total(a) = 0
    <3>1. NextBatch(a, start[a] + Sign(a) * 0, 0, 0, n[a]) = 0
      BY <2>2, <2>5
    <3>2. 0 + 0 = Total(a)
      BY <2>1, <2>3, <3>1, RefillNotEmpty DEF PlanInv
    <3> QED  BY <2>1, <3>2
  <2> QED  BY <2>1, <2>2, <2>4, <2>5
<1> HIDE DEF size
<1>3. ASSUME NEW a \in Axes
      PROVE  /\ batch'[a][0] = size(a) /\ batch'[a][1] = 0
             /\ \/ fifo'[a] = fifo[a] /\ sem'[a] = sem[a]
                \/ /\ fifo'[a] = Handed(fifo[a], 0, size(a)) /\ sem'[a] = 0 /\ size(a) > 0
  BY <1>2, <1>3 DEF size, Buffers
<1>4. ASSUME pc' = "second", NEW a \in Axes
      PROVE  /\ size(a) > 0 => fifo'[a] = Handed(fifo[a], 0, size(a)) /\ sem'[a] = 0
             /\ size(a) = 0 => fifo'[a] = fifo[a]
  <2>1. active
    BY <1>4 DEF Goto
  <2>2. \A c \in Axes : c \in ok \/ size(c) = 0
    BY <1>4, <2>1 DEF Goto, GiveUp, size
  <2> QED  BY <1>4, <2>1, <2>2 DEF size
<1>5. ASSUME NEW a \in Axes
      PROVE  /\ Handed(fifo[a], 0, size(a)) \in Seq(Batch)
             /\ size(a) > 0 => /\ Len(Handed(fifo[a], 0, size(a))) = Len(fifo[a]) + 1
                               /\ Len(fifo[a]) = 0 =>
                                    Handed(fifo[a], 0, size(a))[1] = Entry(0, size(a))
  <2>1. fifo[a] \in Seq(Batch) /\ 0 \in Buffers /\ size(a) \in 0..MaxBatch
    BY <1>2 DEF QueueTypes, Buffers
  <2>2. /\ Handed(fifo[a], 0, size(a)) \in Seq(Batch)
        /\ size(a) > 0 => /\ Len(Handed(fifo[a], 0, size(a))) = Len(fifo[a]) + 1
                          /\ Handed(fifo[a], 0, size(a))[Len(fifo[a]) + 1] = Entry(0, size(a))
    BY <1>1, <2>1, HandedOver
  <2>3. Len(fifo[a]) = 0 => Len(fifo[a]) + 1 = 1
    OBVIOUS
  <2> QED  BY <2>2, <2>3
<1>6. QueueTypes'
  <2>1. /\ fifo' \in [Axes -> Seq(Batch)] /\ sem' \in [Axes -> 0..QueueDepth]
        /\ {active', aborted', error'} \subseteq BOOLEAN /\ stop' \in {"idle", "halted"}
    <3>1. CASE ~active
      BY <3>1 DEF QueueTypes, control
    <3>2. CASE active
      <4>1. \A a \in Axes : fifo'[a] \in Seq(Batch) /\ sem'[a] \in 0..QueueDepth
        <5> TAKE a \in Axes
        <5>1. fifo[a] \in Seq(Batch) /\ sem[a] \in 0..QueueDepth /\ 0 \in 0..QueueDepth
          BY DEF QueueTypes, QueueDepth
        <5> QED  BY <1>3, <1>5, <5>1
      <4>2. DOMAIN fifo' = Axes /\ DOMAIN sem' = Axes
            /\ fifo' = [a \in Axes |-> fifo'[a]] /\ sem' = [a \in Axes |-> sem'[a]]
        BY <3>2
      <4>3. {active', aborted', error'} \subseteq BOOLEAN /\ stop' \in {"idle", "halted"}
        BY <3>2 DEF QueueTypes, control, GiveUp
      <4> QED  BY <4>1, <4>2, <4>3
    <3> QED  BY <3>1, <3>2
  <2>2. \A a \in Axes : Len(fifo'[a]) <= QueueDepth
    <3> TAKE a \in Axes
    <3>1. Len(fifo[a]) \in Nat /\ Len(fifo[a]) < QueueDepth
      <4>1. fifo[a] \in Seq(Batch)
        BY DEF QueueTypes
      <4> QED  BY <1>1, <4>1
    <3>2. Len(fifo'[a]) = Len(fifo[a]) \/ Len(fifo'[a]) = Len(fifo[a]) + 1
      BY <1>3, <1>5
    <3> QED  BY <3>1, <3>2 DEF QueueDepth
  <2> QED  BY <1>1, <2>1, <2>2 DEF QueueTypes, plan, history
<1>7. WithinLimits' /\ \A a \in Axes : Total(a)' = Total(a)
  BY <1>1, SamePlan DEF plan
<1>8. PingFirst'
  BY <1>1 DEF PingFirst
<1>9. ASSUME ~orphaned, NEW a \in Axes
      PROVE  Accounts(a)'
  <2>1. Len(fifo[a]) = 0 /\ emitted[a] = 0 /\ ping[a] = 0
    BY <1>1, <1>9 DEF Accounts, PingFirst
  <2>2. CASE pc' = "second"
    <3>1. /\ Front(a)' = size(a) /\ Back(a)' = 0 /\ Pong(a)' = 1
          /\ done'[a] = 0 /\ emitted'[a] = 0 /\ Total(a)' = Total(a)
          /\ \A b, m : Entry(b, m)' = Entry(b, m)
      BY <1>1, <1>2, <1>3, <1>7, <2>1 DEF Front, Back, Pong, Entry, history
    <3>2. CASE size(a) = 0
      <4>1. InOrder(a)'
        BY <1>2, <1>4, <2>1, <2>2, <3>1, <3>2 DEF InOrder
      <4> QED  BY <1>2, <2>2, <3>1, <3>2, <4>1 DEF Accounts, Refilled, Looping
    <3>3. CASE size(a) > 0
      <4>1. Len(fifo'[a]) = 1 /\ fifo'[a][1] = Entry(0, size(a)) /\ sem'[a] = 0
        <5>1. fifo'[a] = Handed(fifo[a], 0, size(a)) /\ sem'[a] = 0
          BY <1>4, <2>2, <3>3
        <5>2. Len(fifo[a]) + 1 = 1
          BY <2>1
        <5> QED  BY <1>5, <2>1, <3>3, <5>1, <5>2
      <4>2. InOrder(a)'
        BY <1>1, <2>1, <3>1, <3>3, <4>1 DEF InOrder
      <4> QED  BY <2>2, <3>1, <3>3, <4>2 DEF Accounts, Refilled, Looping
    <3> QED  BY <1>2, <3>2, <3>3
  <2>3. CASE pc' = "exit"
    BY <2>3 DEF Accounts, Looping
  <2> QED  BY <1>1, <2>2, <2>3
<1> QED  BY <1>1, <1>6, <1>7, <1>8, <1>9 DEF history

LEMMA SecondQueue ==
  ASSUME QueueInv, PlanInv', SecondBatches
  PROVE  QueueInv'
<1> USE DEF QueueInv
<1>1. /\ pc = "second" /\ pc' \in {"exit", "loop"} /\ motion \in 1..MaxMotions
      /\ UNCHANGED <<plan, position, done, ping, sem, emitted, history>>
      /\ \A a \in Axes : Len(fifo[a]) < QueueDepth
  BY DEF SecondBatches, Goto, GiveUp, QueueTypes, Room
<1> PICK n \in [Axes -> 1..MaxBatch], ok \in Accepted :
       LET size == [a \in Axes |-> NextBatch(a, position[a], 0, batch[a][0], n[a])] IN
       /\ batch' = [a \in Axes |-> [batch[a] EXCEPT ![1] = size[a]]]
       /\ fifo' = [a \in Axes |->
            IF a \in ok THEN Handed(fifo[a], 1, size[a]) ELSE fifo[a]]
       /\ IF \A a \in Axes : a \in ok \/ size[a] = 0
          THEN Goto("loop") /\ UNCHANGED control
          ELSE GiveUp
  BY DEF SecondBatches
<1> DEFINE size(a) == NextBatch(a, position[a], 0, batch[a][0], n[a])
<1>2. ASSUME NEW a \in Axes
      PROVE  /\ size(a) \in 0..MaxBatch /\ batch[a][0] \in 0..MaxBatch
             /\ (size(a) = 0 => batch[a][0] = Total(a)) /\ batch[a][0] + size(a) <= Total(a)
             /\ Total(a) \in Nat /\ done[a] = 0 /\ batch[a][1] = 0
             /\ batch[a] \in [Buffers -> 0..MaxBatch]
  <2>1. Total(a) \in Nat /\ n[a] \in 1..MaxBatch /\ position[a] \in Int /\ start[a] \in Int
        /\ Sign(a) \in {1, -1} /\ batch[a] \in [Buffers -> 0..MaxBatch]
    BY Distance DEF PlanInv, PlanTypes
  <2>2. /\ done[a] = 0 /\ batch[a][1] = 0 /\ position[a] = start[a] + Sign(a) * done[a]
        /\ done[a] + batch[a][0] + batch[a][1] <= Total(a)
    BY <1>1 DEF PlanInv, FreshStart, PlanFits
  <2>3. batch[a][0] \in 0..MaxBatch /\ MaxBatch \in Nat
    BY <2>1, SlewConstants DEF Buffers
  <2>4. 0 + batch[a][0] <= Total(a) /\ batch[a][0] \in Nat
    BY <2>1, <2>2, <2>3
  <2>5. size(a) \in 0..MaxBatch /\ 0 + batch[a][0] + size(a) <= Total(a)
    BY <2>1, <2>4, NextBatchFits DEF PlanInv
  <2>6. ASSUME size(a) = 0  PROVE batch[a][0] = Total(a)
    <3>1. NextBatch(a, start[a] + Sign(a) * 0, 0, batch[a][0], n[a]) = 0
      BY <2>2, <2>6
    <3>2. 0 + batch[a][0] = Total(a)
      BY <2>1, <2>4, <3>1, RefillNotEmpty DEF PlanInv
    <3> QED  BY <2>4, <3>2
  <2> QED  BY <2>1, <2>2, <2>3, <2>5, <2>6
<1> HIDE DEF size
<1>3. ASSUME NEW a \in Axes
      PROVE  /\ batch'[a][1] = size(a) /\ batch'[a][0] = batch[a][0]
             /\ fifo'[a] = fifo[a] \/ fifo'[a] = Handed(fifo[a], 1, size(a))
  BY <1>2 DEF size, Buffers
<1>4. ASSUME NEW a \in Axes
      PROVE  /\ fifo[a] \in Seq(Batch) /\ Handed(fifo[a], 1, size(a)) \in Seq(Batch)
             /\ size(a) = 0 => Handed(fifo[a], 1, size(a)) = fifo[a]
             /\ size(a) > 0 => /\ Len(Handed(fifo[a], 1, size(a))) = Len(fifo[a]) + 1
                               /\ \A i \in 1..Len(fifo[a]) :
                                    Handed(fifo[a], 1, size(a))[i] = fifo[a][i]
                               /\ Handed(fifo[a], 1, size(a))[Len(fifo[a]) + 1] = Entry(1, size(a))
  <2>1. fifo[a] \in Seq(Batch) /\ 1 \in Buffers /\ size(a) \in 0..MaxBatch
    BY <1>2 DEF QueueTypes, Buffers
  <2> QED  BY <1>1, <2>1, HandedOver
<1>5. ASSUME pc' = "loop", NEW a \in Axes
      PROVE  fifo'[a] = Handed(fifo[a], 1, size(a))
  <2>1. a \in ok \/ size(a) = 0
    BY <1>5 DEF Goto, GiveUp, size
  <2>2. a \in ok => fifo'[a] = Handed(fifo[a], 1, size(a))
    BY DEF size
  <2>3. a \notin ok => fifo'[a] = fifo[a]
    OBVIOUS
  <2> QED  BY <1>4, <2>1, <2>2, <2>3
<1>6. QueueTypes'
  <2>1. fifo' \in [Axes -> Seq(Batch)]
    <3>1. \A a \in Axes : fifo'[a] \in Seq(Batch)
      BY <1>3, <1>4
    <3>2. fifo' = [a \in Axes |-> fifo'[a]]
      OBVIOUS
    <3> QED  BY <3>1, <3>2
  <2>2. {active', aborted', error'} \subseteq BOOLEAN /\ stop' \in {"idle", "halted"}
    BY DEF QueueTypes, control, GiveUp
  <2>3. \A a \in Axes : Len(fifo'[a]) <= QueueDepth
    <3> TAKE a \in Axes
    <3>1. Len(fifo[a]) \in Nat /\ Len(fifo[a]) < QueueDepth
      BY <1>1, <1>4
    <3>2. Len(fifo'[a]) = Len(fifo[a]) \/ Len(fifo'[a]) = Len(fifo[a]) + 1
      <4>1. size(a) = 0 \/ size(a) > 0
        BY <1>2
      <4> QED  BY <1>3, <1>4, <4>1
    <3> QED  BY <3>1, <3>2 DEF QueueDepth
  <2> QED  BY <1>1, <2>1, <2>2, <2>3 DEF QueueTypes, plan, history
<1>7. WithinLimits' /\ \A a \in Axes : Total(a)' = Total(a)
  BY <1>1, SamePlan DEF plan
<1>8. PingFirst'
  BY <1>1 DEF PingFirst
<1>9. ASSUME ~orphaned, NEW a \in Axes
      PROVE  Accounts(a)'
  <2>1. InOrder(a) /\ Refilled(a) /\ ping[a] = 0
    BY <1>1, <1>9 DEF Accounts, PingFirst
  <2>2. CASE pc' = "loop"
    <3>1. /\ Front(a) = batch[a][0] /\ Back(a) = 0 /\ Pong(a) = 1
          /\ Front(a)' = batch[a][0] /\ Back(a)' = size(a) /\ Pong(a)' = 1
          /\ ping'[a] = 0 /\ done'[a] = 0 /\ done[a] = 0 /\ emitted'[a] = emitted[a]
          /\ sem'[a] = sem[a] /\ Total(a)' = Total(a)
          /\ \A b, m : Entry(b, m)' = Entry(b, m)
          /\ (Front(a) = 0 => Total(a) = 0)
      BY <1>1, <1>2, <1>3, <1>7, <2>1 DEF Front, Back, Pong, Entry, history, Refilled
    <3>2. Refilled(a)'
      BY <1>2, <2>2, <3>1 DEF Refilled
    <3>3. CASE size(a) = 0
      <4>1. fifo'[a] = fifo[a]
        BY <1>4, <1>5, <2>2, <3>3
      <4>2. InOrder(a)'
        BY <2>1, <3>1, <3>3, <4>1 DEF InOrder
      <4> QED  BY <2>2, <3>2, <4>2 DEF Accounts
    <3>4. CASE size(a) > 0
      <4>1. Front(a) > 0 /\ Front(a) \in Nat
        BY <1>2, <3>1, <3>4
      <4>2. CASE Len(fifo[a]) = 1 /\ sem[a] = 0 /\ emitted[a] = done[a]
                 /\ fifo[a][1] = Entry(0, Front(a))
        <5>1. /\ Len(fifo'[a]) = 2 /\ fifo'[a][1] = Entry(0, Front(a))
              /\ fifo'[a][2] = Entry(1, size(a))
          <6>1. Len(fifo[a]) + 1 = 2 /\ 1 \in 1..Len(fifo[a])
            BY <4>2
          <6>2. fifo'[a] = Handed(fifo[a], 1, size(a))
            BY <1>5, <2>2
          <6>3. fifo'[a][1] = fifo[a][1] /\ fifo'[a][Len(fifo[a]) + 1] = Entry(1, size(a))
                /\ Len(fifo'[a]) = Len(fifo[a]) + 1
            BY <1>4, <3>4, <6>1, <6>2
          <6> QED  BY <4>2, <6>1, <6>3
        <5> QED  BY <2>2, <3>1, <3>2, <3>4, <4>1, <4>2, <5>1 DEF Accounts, InOrder
      <4>3. CASE Len(fifo[a]) = 0 /\ sem[a] = 1 /\ emitted[a] = done[a] + Front(a)
        <5>1. Len(fifo'[a]) = 1 /\ fifo'[a][1] = Entry(1, size(a))
          <6>1. Len(fifo[a]) + 1 = 1
            BY <4>3
          <6> QED  BY <1>4, <1>5, <2>2, <3>4, <6>1
        <5> QED  BY <2>2, <3>1, <3>2, <3>4, <4>1, <4>3, <5>1 DEF Accounts, InOrder
      <4> QED  BY <2>1, <3>1, <4>1, <4>2, <4>3 DEF InOrder
    <3> QED  BY <1>2, <3>3, <3>4
  <2>3. CASE pc' = "exit"
    BY <2>3 DEF Accounts, Looping
  <2> QED  BY <1>1, <2>2, <2>3
<1> QED  BY <1>1, <1>6, <1>7, <1>8, <1>9 DEF history

\* An axis that a step of the other one leaves alone.
LEMMA OtherAxis ==
  ASSUME NEW a \in Axes, Accounts(a), Looping, Total(a)' = Total(a), motion' = motion,
         pc' \in {"RA", "DEC", "check"},
         fifo'[a] = fifo[a], sem'[a] = sem[a], emitted'[a] = emitted[a],
         batch'[a] = batch[a], ping'[a] = ping[a], done'[a] = done[a]
  PROVE  Accounts(a)'
<1>1. /\ Front(a)' = Front(a) /\ Back(a)' = Back(a) /\ Pong(a)' = Pong(a)
      /\ \A b, m : Entry(b, m)' = Entry(b, m)
  BY DEF Front, Back, Pong, Entry
<1>2. InOrder(a) /\ Refilled(a)
  BY DEF Accounts
<1>3. InOrder(a)'
  BY <1>1, <1>2 DEF InOrder
<1>4. Refilled(a)'
  BY <1>1, <1>2 DEF Refilled
<1> QED  BY <1>3, <1>4 DEF Accounts

LEMMA CountQueue ==
  ASSUME QueueInv, PlanInv', NEW a \in Axes, Count(a)
  PROVE  QueueInv'
<1> USE DEF QueueInv
<1>1. /\ pc = a /\ pc' \in {"DEC", "check", "exit"} /\ Looping /\ motion \in 1..MaxMotions
      /\ UNCHANGED <<plan, emitted, history>>
      /\ Waiting(a) /\ sem[a] > 0 /\ Len(fifo[a]) < QueueDepth
      /\ sem' = [sem EXCEPT ![a] = @ - 1]
      /\ {active', aborted', error'} \subseteq BOOLEAN /\ stop' \in {"idle", "halted"}
  <2>1. /\ pc = a /\ UNCHANGED <<emitted, history>>
        /\ Waiting(a) /\ sem[a] > 0 /\ Len(fifo[a]) < QueueDepth
        /\ sem' = [sem EXCEPT ![a] = @ - 1]
    BY DEF Count, Room
  <2>2. pc # "wait" /\ Looping
    BY <2>1 DEF Axes, Looping
  <2>3. motion \in 1..MaxMotions
    BY <2>2, SlewConstants DEF QueueTypes
  <2>4. UNCHANGED plan /\ pc' \in {After(a), "exit"}
        /\ (UNCHANGED control \/ GiveUp)
    <3>1. CASE ~active
      BY <3>1 DEF Count, Goto
    <3>2. CASE active
      BY <3>2 DEF Count, Goto, GiveUp
    <3> QED  BY <3>1, <3>2
  <2>5. pc' \in {"DEC", "check", "exit"}
    BY <2>4 DEF After
  <2>6. {active', aborted', error'} \subseteq BOOLEAN /\ stop' \in {"idle", "halted"}
    BY <2>4 DEF control, GiveUp, QueueTypes
  <2> QED  BY <2>1, <2>2, <2>3, <2>4, <2>5, <2>6
<1>2. WithinLimits' /\ \A c \in Axes : Total(c)' = Total(c)
  BY <1>1, SamePlan DEF plan
<1>3. PingFirst'
  BY <1>1 DEF PingFirst
<1>4. sem' \in [Axes -> 0..QueueDepth] /\ sem'[a] = sem[a] - 1
      /\ \A c \in Axes : c # a => sem'[c] = sem[c]
  BY <1>1 DEF QueueTypes, QueueDepth
<1>5. CASE ~active
  <2>1. UNCHANGED <<control, progress, fifo>> /\ pc' = "exit"
    BY <1>5 DEF Count, Goto
  <2>2. QueueTypes'
    BY <1>1, <1>4, <2>1 DEF QueueTypes, plan, history
  <2>3. \A c \in Axes : Accounts(c)'
    BY <2>1 DEF Accounts, Looping
  <2> QED  BY <1>1, <1>2, <1>3, <2>2, <2>3
<1>6. CASE active
  <2> DEFINE b == ping[a]
             at == position[a] + Sign(a) * batch[a][b]
             d == done[a] + batch[a][b]
             size(n) == NextBatch(a, at, d, batch[a][Pong(a)], n)
  <2>1. PICK n \in 1..MaxBatch, ok \in {TRUE, ~MayFail} :
          /\ done' = [done EXCEPT ![a] = d]
          /\ batch' = [batch EXCEPT ![a][b] = size(n)]
          /\ IF ok \/ size(n) = 0
             THEN /\ fifo' = [fifo EXCEPT ![a] = Handed(@, b, size(n))]
                  /\ ping' = [ping EXCEPT ![a] = Pong(a)]
                  /\ Goto(After(a)) /\ UNCHANGED control
             ELSE UNCHANGED <<fifo, ping>> /\ GiveUp
    BY <1>6 DEF Count
  <2>2. /\ at = start[a] + Sign(a) * d /\ d \in Nat
        /\ size(n) \in 0..MaxBatch /\ d + batch[a][Pong(a)] + size(n) <= Total(a)
    BY CountedBatch
  <2>3. /\ b \in {0, 1} /\ Pong(a) \in {0, 1} /\ Pong(a) = 1 - b /\ MaxBatch \in Nat
        /\ Front(a) \in 0..MaxBatch /\ Back(a) \in 0..MaxBatch
        /\ done[a] \in Nat /\ d = done[a] + Front(a) /\ Total(a) \in Nat
    BY Distance, SlewConstants DEF PlanInv, PlanTypes, Buffers, Pong, Front, Back
  <2>4. size(n) = 0 => d + Back(a) = Total(a)
    <3>1. ASSUME size(n) = 0  PROVE d + Back(a) = Total(a)
      <4>1. NextBatch(a, start[a] + Sign(a) * d, d, Back(a), n) = 0
        BY <2>2, <3>1 DEF Back
      <4>2. d + Back(a) <= Total(a) /\ Back(a) \in Nat
        BY <2>2, <2>3 DEF Back
      <4> HIDE DEF d
      <4> QED  BY <2>2, <4>1, <4>2, RefillNotEmpty DEF PlanInv
    <3> QED  BY <3>1
  <2>5. d + Back(a) + size(n) <= Total(a)
    BY <2>2 DEF Back
  <2> HIDE DEF at, size, d
  <2> DEFINE s == size(n)
             h == Handed(fifo[a], b, s)
  <2>6. /\ fifo[a] \in Seq(Batch) /\ h \in Seq(Batch)
        /\ s = 0 => h = fifo[a]
        /\ s > 0 => /\ Len(h) = Len(fifo[a]) + 1
                    /\ \A i \in 1..Len(fifo[a]) : h[i] = fifo[a][i]
                    /\ h[Len(fifo[a]) + 1] = Entry(b, s)
    <3>1. fifo[a] \in Seq(Batch) /\ b \in Buffers /\ s \in 0..MaxBatch
      BY <2>2, <2>3 DEF QueueTypes, Buffers
    <3> HIDE DEF s, b
    <3> QED  BY <1>1, <3>1, HandedOver
  <2>7. /\ fifo'[a] \in {fifo[a], h}
        /\ \A c \in Axes : c # a => /\ fifo'[c] = fifo[c] /\ batch'[c] = batch[c]
                                    /\ ping'[c] = ping[c] /\ done'[c] = done[c]
        /\ done'[a] = d /\ batch'[a][b] = s /\ batch'[a][Pong(a)] = Back(a)
        /\ pc' # "exit" => fifo'[a] = h /\ ping'[a] = Pong(a)
        /\ fifo' \in [Axes -> Seq(Batch)]
    <3>1. batch \in [Axes -> [Buffers -> 0..MaxBatch]] /\ ping \in [Axes -> Buffers]
          /\ done \in [Axes -> Nat] /\ fifo \in [Axes -> Seq(Batch)]
      BY DEF PlanInv, PlanTypes, QueueTypes
    <3>2. /\ done'[a] = d /\ batch'[a][b] = s /\ batch'[a][Pong(a)] = Back(a)
          /\ \A c \in Axes : c # a => batch'[c] = batch[c] /\ done'[c] = done[c]
      BY <2>1, <2>3, <3>1 DEF Buffers, Back
    <3>3. CASE fifo' = [fifo EXCEPT ![a] = h] /\ ping' = [ping EXCEPT ![a] = Pong(a)]
      <4> HIDE DEF h
      <4> QED  BY <2>6, <3>1, <3>2, <3>3
    <3>4. CASE UNCHANGED <<fifo, ping>> /\ pc' = "exit"
      BY <3>1, <3>2, <3>4
    <3> QED  BY <2>1, <3>3, <3>4 DEF GiveUp, Goto
  <2> HIDE DEF s, h, b
  <2>8. QueueTypes'
    <3>1. \A c \in Axes : Len(fifo'[c]) <= QueueDepth
      <4> TAKE c \in Axes
      <4>1. CASE c # a
        BY <2>7, <4>1 DEF QueueTypes
      <4>2. CASE c = a
        <5>1. Len(fifo[a]) \in Nat
          BY <2>6
        <5>2. s = 0 \/ s > 0
          BY <2>2, <2>3 DEF s
        <5>3. Len(fifo'[a]) = Len(fifo[a]) \/ Len(fifo'[a]) = Len(fifo[a]) + 1
          BY <2>6, <2>7, <5>2
        <5> QED  BY <1>1, <4>2, <5>1, <5>3 DEF QueueDepth
      <4> QED  BY <4>1, <4>2
    <3> QED  BY <1>1, <1>4, <2>7, <3>1 DEF QueueTypes, plan, history
  <2>9. ASSUME ~orphaned, NEW c \in Axes
        PROVE  Accounts(c)'
    <3>1. CASE pc' = "exit"
      BY <3>1 DEF Accounts, Looping
    <3>2. CASE pc' # "exit" /\ c # a
      BY <1>1, <1>2, <1>4, <2>7, <2>9, <3>2, OtherAxis DEF history
    <3>3. CASE pc' # "exit" /\ c = a
      <4>1. InOrder(a) /\ Refilled(a) /\ Front(a) > 0
        BY <1>1, <2>9, <2>3 DEF Accounts, Waiting, Front
      <4>2. /\ Front(a)' = Back(a) /\ Pong(a)' = b /\ ping'[a] = Pong(a) /\ Back(a)' = s
            /\ done'[a] = d /\ emitted'[a] = emitted[a] /\ Total(a)' = Total(a)
            /\ sem'[a] = sem[a] - 1 /\ fifo'[a] = h
            /\ \A e, m : Entry(e, m)' = Entry(e, m)
        BY <1>1, <1>2, <1>4, <2>3, <2>7, <3>3 DEF Front, Back, Pong, Entry, history
      <4>3. s \in 0..MaxBatch /\ (s = 0 => d + Back(a) = Total(a)) /\ d + Back(a) + s <= Total(a)
            /\ d \in Nat
        BY <2>2, <2>4, <2>5 DEF s
      <4>4. Refilled(a)'
        BY <1>1, <4>2, <4>3 DEF Refilled
      <4>5. Looping'
        BY <1>1, <3>3 DEF Looping
      <4>6. CASE Back(a) = 0
        <5>1. d = Total(a) /\ s = 0
          BY <1>1, <2>3, <4>1, <4>3, <4>6 DEF Refilled
        <5>2. Len(fifo[a]) = 0 /\ sem[a] = 1 /\ emitted[a] = done[a] + Front(a)
          BY <1>1, <4>1, <4>6 DEF InOrder
        <5>3. InOrder(a)'
          BY <2>3, <2>6, <4>2, <4>6, <5>1, <5>2 DEF InOrder
        <5> QED  BY <3>3, <4>4, <4>5, <5>3 DEF Accounts, Looping
      <4>7. CASE Back(a) > 0 /\ Len(fifo[a]) = 1 /\ sem[a] = 1
                 /\ fifo[a][1] = Entry(Pong(a), Back(a)) /\ emitted[a] = done[a] + Front(a)
        <5>1. CASE s = 0
          <6>1. InOrder(a)'
            BY <2>3, <2>6, <4>2, <4>7, <5>1 DEF InOrder
          <6> QED  BY <3>3, <4>4, <4>5, <6>1 DEF Accounts, Looping
        <5>2. CASE s > 0
          <6>1. Len(fifo[a]) + 1 = 2 /\ 1 \in 1..Len(fifo[a])
            BY <4>7
          <6>2. Len(h) = 2 /\ h[1] = fifo[a][1] /\ h[2] = Entry(b, s)
            BY <2>6, <5>2, <6>1
          <6>3. InOrder(a)'
            BY <2>3, <4>2, <4>7, <5>2, <6>2 DEF InOrder
          <6> QED  BY <3>3, <4>4, <4>5, <6>3 DEF Accounts, Looping
        <5> QED  BY <4>3, <5>1, <5>2
      <4>8. CASE Back(a) > 0 /\ Len(fifo[a]) = 0 /\ sem[a] = 2
                 /\ emitted[a] = done[a] + Front(a) + Back(a)
        <5>1. CASE s = 0
          <6>1. InOrder(a)'
            BY <2>3, <2>6, <4>2, <4>8, <5>1 DEF InOrder
          <6> QED  BY <3>3, <4>4, <4>5, <6>1 DEF Accounts, Looping
        <5>2. CASE s > 0
          <6>1. Len(fifo[a]) + 1 = 1
            BY <4>8
          <6>2. Len(h) = 1 /\ h[1] = Entry(b, s)
            BY <2>6, <5>2, <6>1
          <6>3. InOrder(a)'
            BY <2>3, <4>2, <4>8, <5>2, <6>2 DEF InOrder
          <6> QED  BY <3>3, <4>4, <4>5, <6>3 DEF Accounts, Looping
        <5> QED  BY <4>3, <5>1, <5>2
      <4> QED  BY <1>1, <2>3, <4>1, <4>6, <4>7, <4>8 DEF InOrder
    <3> QED  BY <3>1, <3>2, <3>3
  <2> QED  BY <1>1, <1>2, <1>3, <2>8, <2>9 DEF history
<1> QED  BY <1>1, <1>5, <1>6 DEF QueueTypes

\* The batch at the head of a queue leaves the pin.
LEMMA CompleteQueue ==
  ASSUME QueueInv, PlanInv', NEW a \in Axes, Complete(a)
  PROVE  QueueInv'
<1> USE DEF QueueInv
<1> DEFINE q == fifo[a]
           e == IF Head(q).motion = motion THEN emitted[a] + Head(q).steps ELSE emitted[a]
<1>1. /\ UNCHANGED <<control, pc, plan, progress, history>> /\ q # <<>>
      /\ fifo' = [fifo EXCEPT ![a] = Tail(q)]
      /\ sem' = [sem EXCEPT ![a] = Smaller(sem[a] + 1, QueueDepth)]
      /\ emitted' = [emitted EXCEPT ![a] = e]
  BY DEF Complete
<1>2. fifo \in [Axes -> Seq(Batch)] /\ sem \in [Axes -> 0..QueueDepth] /\ emitted \in [Axes -> Nat]
      /\ Len(q) <= QueueDepth /\ q \in Seq(Batch)
  BY DEF QueueTypes
<1>3. /\ Head(q) = q[1] /\ q[1] \in Batch /\ Len(q) \in Nat /\ Len(q) > 0
      /\ Tail(q) \in Seq(Batch) /\ Len(Tail(q)) = Len(q) - 1
      /\ \A i \in 1..Len(Tail(q)) : Tail(q)[i] = q[i + 1]
  <2>1. Len(q) \in Nat /\ Len(q) > 0
    BY <1>1, <1>2, EmptySeq
  <2> QED  BY <1>1, <1>2, <2>1, HeadTailProperties
<1>4. \A x \in Batch : x.steps \in Nat
  BY SlewConstants DEF Batch
<1>5. e \in Nat
  BY <1>2, <1>3, <1>4
<1>6. /\ fifo' \in [Axes -> Seq(Batch)] /\ sem' \in [Axes -> 0..QueueDepth]
      /\ emitted' \in [Axes -> Nat]
      /\ fifo'[a] = Tail(q) /\ emitted'[a] = e /\ sem'[a] = Smaller(sem[a] + 1, QueueDepth)
      /\ \A c \in Axes : c # a => /\ fifo'[c] = fifo[c] /\ sem'[c] = sem[c]
                                  /\ emitted'[c] = emitted[c]
  <2>1. Smaller(sem[a] + 1, QueueDepth) \in 0..QueueDepth
    <3>1. \A s \in 0..4 : Smaller(s + 1, 4) \in 0..4
      BY DEF Smaller
    <3>2. sem[a] \in 0..4
      BY <1>2 DEF QueueDepth
    <3> QED  BY <3>1, <3>2 DEF QueueDepth
  <2> HIDE DEF e, q
  <2> QED  BY <1>1, <1>2, <1>3, <1>5, <2>1
<1> HIDE DEF q
<1>7. QueueTypes'
  <2>1. \A c \in Axes : Len(fifo'[c]) <= QueueDepth
    <3>1. Len(fifo'[a]) <= QueueDepth
      BY <1>2, <1>3, <1>6 DEF QueueDepth
    <3> QED  BY <1>6, <3>1 DEF QueueTypes
  <2> QED  BY <1>1, <1>6, <2>1 DEF QueueTypes, control, plan, history
<1>8. WithinLimits' /\ (\A c \in Axes : Total(c)' = Total(c)) /\ PingFirst'
  BY <1>1, SamePlan DEF plan, PingFirst, progress
<1>9. ASSUME ~orphaned, NEW c \in Axes
      PROVE  Accounts(c)'
  <2>1. /\ Front(c)' = Front(c) /\ Back(c)' = Back(c) /\ Pong(c)' = Pong(c)
        /\ ping'[c] = ping[c] /\ done'[c] = done[c] /\ Total(c)' = Total(c)
        /\ \A b, m : Entry(b, m)' = Entry(b, m)
    BY <1>1, <1>8 DEF Front, Back, Pong, Entry, progress, history
  <2>2. Accounts(c) /\ Accounts(a)
    BY <1>9
  <2>3. pc = "second" \/ Looping => Refilled(c)'
    BY <1>1, <2>1, <2>2 DEF Accounts, Refilled, Looping
  <2>4. Len(q) # 0
    BY <1>3
  <2>5. pc \notin {"wait", "enter", "first"}
    BY <2>2, <2>4 DEF Accounts, q
  <2>6. ASSUME pc = "second" \/ Looping
        PROVE  InOrder(c)'
    <3>1. CASE c # a
      <4>1. InOrder(c)
        BY <2>2, <2>6 DEF Accounts
      <4>2. fifo'[c] = fifo[c] /\ sem'[c] = sem[c] /\ emitted'[c] = emitted[c]
        BY <1>6, <3>1
      <4> QED  BY <2>1, <4>1, <4>2 DEF InOrder
    <3>2. CASE c = a
      <4>1. InOrder(a)
        BY <2>2, <2>6 DEF Accounts
      <4>2. /\ done[a] \in Nat /\ emitted[a] \in Nat /\ Front(a) \in Nat /\ Back(a) \in Nat
        <5>1. batch[a][0] \in Nat /\ batch[a][1] \in Nat /\ ping[a] \in {0, 1}
          BY SlewConstants DEF PlanInv, PlanTypes, Buffers
        <5>2. Front(a) \in Nat /\ Back(a) \in Nat
          BY <5>1 DEF Front, Back, Pong
        <5>3. done[a] \in Nat /\ emitted[a] \in Nat
          BY <1>2 DEF PlanInv, PlanTypes
        <5> QED  BY <5>2, <5>3
      <4>3. ASSUME NEW b, NEW m, q[1] = Entry(b, m)
            PROVE  e = emitted[a] + m
        BY <1>3, <4>3 DEF Entry
      <4> HIDE DEF e
      <4>4. CASE /\ Front(a) > 0 /\ Back(a) = 0 /\ Len(q) = 1 /\ sem[a] = 0
                 /\ q[1] = Entry(ping[a], Front(a)) /\ emitted[a] = done[a]
        <5>1. Len(fifo'[a]) = 0 /\ sem'[a] = 1
          BY <1>3, <1>6, <4>4 DEF Smaller, QueueDepth
        <5>2. emitted'[a] = done'[a] + Front(a)
          BY <1>6, <2>1, <3>2, <4>3, <4>4
        <5> QED  BY <2>1, <3>2, <4>4, <5>1, <5>2 DEF InOrder
      <4>5. CASE /\ Front(a) > 0 /\ Back(a) > 0 /\ Len(q) = 2 /\ sem[a] = 0
                 /\ q[1] = Entry(ping[a], Front(a)) /\ q[2] = Entry(Pong(a), Back(a))
                 /\ emitted[a] = done[a]
        <5>1. Len(fifo'[a]) = 1 /\ sem'[a] = 1
          BY <1>3, <1>6, <4>5 DEF Smaller, QueueDepth
        <5>2. fifo'[a][1] = Entry(Pong(a), Back(a))
          <6>1. 1 \in 1..Len(Tail(q)) /\ 1 + 1 = 2
            <7>1. Len(Tail(q)) = 1
              BY <1>3, <4>5
            <7> QED  BY <7>1
          <6>2. Tail(q)[1] = q[1 + 1]
            BY <1>3, <6>1
          <6> QED  BY <1>6, <4>5, <6>1, <6>2
        <5>3. emitted'[a] = done'[a] + Front(a)
          BY <1>6, <2>1, <3>2, <4>3, <4>5
        <5> QED  BY <2>1, <3>2, <4>5, <5>1, <5>2, <5>3 DEF InOrder
      <4>6. CASE /\ Front(a) > 0 /\ Back(a) > 0 /\ Len(q) = 1 /\ sem[a] = 1
                 /\ q[1] = Entry(Pong(a), Back(a)) /\ emitted[a] = done[a] + Front(a)
        <5>1. Len(fifo'[a]) = 0 /\ sem'[a] = 2
          BY <1>3, <1>6, <4>6 DEF Smaller, QueueDepth
        <5>2. emitted'[a] = done'[a] + Front(a) + Back(a)
          BY <1>6, <2>1, <3>2, <4>3, <4>6
        <5> QED  BY <2>1, <3>2, <4>6, <5>1, <5>2 DEF InOrder
      <4> QED  BY <2>4, <3>2, <4>1, <4>4, <4>5, <4>6 DEF InOrder, q
    <3> QED  BY <3>1, <3>2
  <2> QED  BY <1>1, <2>3, <2>5, <2>6 DEF Accounts, Looping
<1> QED  BY <1>1, <1>7, <1>8, <1>9 DEF history

\* A motion ends with an empty queue, or leaves batches behind.
LEMMA ExitQueue ==
  ASSUME QueueInv, PlanInv', Exit
  PROVE  QueueInv'
<1> USE DEF QueueInv
<1>1. /\ pc = "exit" /\ pc' = "wait" /\ UNCHANGED <<plan, control, progress, motion>>
  BY DEF Exit, Goto
<1>2. WithinLimits' /\ PingFirst'
  BY <1>1, SamePlan DEF plan, PingFirst
<1>3. CASE aborted
  <2>1. PICK k \in [Axes -> 0..(2 * MaxBatch)] :
          emitted' = [a \in Axes |-> emitted[a] + k[a]]
    BY <1>3 DEF Exit, Recreate
  <2>2. /\ fifo' = [a \in Axes |-> <<>>] /\ sem' = [a \in Axes |-> 0]
        /\ orphaned' = orphaned
    BY <1>3 DEF Exit, Recreate
  <2>3. emitted' \in [Axes -> Nat]
    <3>1. ASSUME NEW a \in Axes  PROVE emitted[a] + k[a] \in Nat
      BY SlewConstants DEF QueueTypes
    <3> QED  BY <2>1, <3>1
  <2>4. \A a \in Axes : fifo'[a] = <<>>
    BY <2>2
  <2>5. \A a \in Axes : Len(fifo'[a]) = 0
    BY <2>4, EmptySeq
  <2>6. fifo' \in [Axes -> Seq(Batch)] /\ sem' \in [Axes -> 0..QueueDepth]
    BY <2>2 DEF QueueDepth
  <2>7. QueueTypes'
    BY <1>1, <2>2, <2>3, <2>5, <2>6 DEF QueueTypes, control, plan, QueueDepth
  <2> QED  BY <1>1, <1>2, <2>5, <2>7 DEF Accounts, Looping
<1>4. CASE ~aborted
  <2>1. UNCHANGED driver /\ orphaned' = (orphaned \/ \E a \in Axes : fifo[a] # <<>>)
    BY <1>4 DEF Exit
  <2>2. QueueTypes'
    BY <1>1, <2>1 DEF QueueTypes, control, plan, driver
  <2>3. ASSUME ~orphaned', NEW a \in Axes
        PROVE  Accounts(a)'
    <3>1. fifo'[a] = <<>>
      BY <2>1, <2>3 DEF driver
    <3> QED  BY <1>1, <3>1, EmptySeq DEF Accounts, Looping
  <2> QED  BY <1>1, <1>2, <2>2, <2>3
<1> QED  BY <1>3, <1>4
-----------------------------------------------------------------------------
(***************************************************************************)
(* The theorems                                                            *)
(***************************************************************************)
LEMMA QueueInit == Init => QueueInv
<1> SUFFICES ASSUME Init  PROVE QueueInv
  OBVIOUS
<1>1. PlanInv
  BY PlanInit
<1>2. \A a \in Axes : fifo[a] = <<>> /\ Len(fifo[a]) = 0
  BY EmptySeq DEF Init
<1>3. QueueTypes
  <2>1. fifo \in [Axes -> Seq(Batch)]
    BY DEF Init
  <2>2. sem \in [Axes -> 0..QueueDepth] /\ emitted \in [Axes -> Nat]
    BY DEF Init, QueueDepth
  <2>3. \A a \in Axes : Len(fifo[a]) <= QueueDepth
    BY <1>2 DEF QueueDepth
  <2>4. motion \in 0..MaxMotions /\ (pc # "wait" => motion >= 1)
    BY SlewConstants DEF Init
  <2>5. {active, aborted, error, orphaned} \subseteq BOOLEAN
    BY DEF Init
  <2> QED  BY <2>1, <2>2, <2>3, <2>4, <2>5 DEF Init, QueueTypes
<1>4. WithinLimits /\ PingFirst
  BY DEF Init, WithinLimits, PingFirst
<1>5. \A a \in Axes : Accounts(a)
  BY <1>2 DEF Init, Accounts, Looping
<1> QED  BY <1>1, <1>3, <1>4, <1>5 DEF QueueInv

LEMMA QueueStep == QueueInv /\ [Next]_vars => QueueInv'
<1> SUFFICES ASSUME QueueInv, [Next]_vars
             PROVE  QueueInv'
  OBVIOUS
<1>0. PlanInv'
  BY PlanStep DEF QueueInv
<1> DEFINE loop == {"loop", "RA", "DEC", "check", "exit"}
<1>types. {active, aborted, error} \subseteq BOOLEAN /\ stop \in {"idle", "halted"}
  BY DEF QueueInv, QueueTypes
<1>1. ASSUME NEW goal \in Goals, Slew(goal)
      PROVE  QueueInv'
  <2> DEFINE t == [a \in Axes |-> ClampSteps(a, goal[a])]
  <2>1. ASSUME NEW a \in Axes
        PROVE  Lo[a] <= t[a] /\ t[a] <= Hi[a]
    <3>1. goal[a] \in Int /\ Lo[a] \in Int /\ Hi[a] \in Int /\ Lo[a] <= Hi[a]
      BY SlewConstants
    <3> QED  BY <3>1 DEF ClampSteps, Smaller
  <2> HIDE DEF t
  <2>2. Accept("SLEW", t)
    BY <1>1 DEF Slew, t
  <2> QED  BY <1>0, <2>1, <2>2, AcceptQueue
<1>2. ASSUME NEW dir \in Directions, MoveAxis(dir)
      PROVE  QueueInv'
  <2> DEFINE t == [a \in Axes |-> CASE dir[a] = 1 -> Hi[a]
                                    [] dir[a] = -1 -> Lo[a]
                                    [] dir[a] = 0 -> position[a]]
  <2>1. ASSUME NEW a \in Axes
        PROVE  t[a] = position[a] \/ (Lo[a] <= t[a] /\ t[a] <= Hi[a])
    <3>1. dir[a] \in {-1, 0, 1} /\ Lo[a] \in Int /\ Hi[a] \in Int /\ Lo[a] <= Hi[a]
      BY SlewConstants
    <3> QED  BY <3>1
  <2> HIDE DEF t
  <2>2. Accept("MOVE_AXIS", t)
    BY <1>2 DEF MoveAxis, t
  <2> QED  BY <1>0, <2>1, <2>2, AcceptQueue
<1>3. CASE FirstBatches
  BY <1>0, <1>3, FirstQueue
<1>4. CASE SecondBatches
  BY <1>0, <1>4, SecondQueue
<1>5. ASSUME NEW a \in Axes, Count(a)
      PROVE  QueueInv'
  BY <1>0, <1>5, CountQueue
<1>6. ASSUME NEW a \in Axes, Complete(a)
      PROVE  QueueInv'
  BY <1>0, <1>6, CompleteQueue
<1>7. CASE Exit
  BY <1>0, <1>7, ExitQueue
<1>8. CASE Enter
  <2>1. /\ UNCHANGED <<plan, progress, driver, history, active, error, stop>>
        /\ pc = "enter" /\ pc' \in {"first", "wait"} /\ aborted' \in {aborted, FALSE}
    BY <1>8 DEF Enter, Goto
  <2> QED  BY <1>0, <1>types, <2>1, QueueUntouched
<1>9. CASE Loop \/ Preempt \/ Conditions
  <2>1. /\ UNCHANGED <<plan, progress, driver, history, error, stop>>
        /\ pc \in {"loop", "check"} /\ pc' \in loop
        /\ active' \in {active, FALSE} /\ aborted' \in {aborted, TRUE}
    BY <1>9 DEF Loop, Preempt, Conditions, Goto, GiveUp, control
  <2>2. Looping
    BY <2>1 DEF Looping
  <2> QED  BY <1>0, <1>types, <2>1, <2>2, QueueUntouched
<1>10. ASSUME NEW a \in Axes, NotDone(a)
       PROVE  QueueInv'
  <2>1. /\ UNCHANGED <<plan, progress, driver, history, control>>
        /\ pc = a /\ pc' \in loop
    BY <1>10 DEF NotDone, Goto, After
  <2>2. Looping
    BY <2>1 DEF Looping, Axes
  <2> QED  BY <1>0, <1>types, <2>1, <2>2, QueueUntouched DEF control
<1>11. CASE Halt \/ MarkAborted \/ MotorError \/ MotorRestored
  <2>1. /\ UNCHANGED <<plan, progress, driver, history, pc>>
        /\ {active', aborted', error'} \subseteq BOOLEAN /\ stop' \in {"idle", "halted"}
    BY <1>11, <1>types DEF Halt, MarkAborted, MotorError, MotorRestored
  <2> QED  BY <1>0, <2>1, QueueUntouched
<1>12. CASE UNCHANGED vars
  BY <1>0, <1>12, <1>types, QueueUntouched DEF vars, control
<1> QED
  BY <1>1, <1>2, <1>3, <1>4, <1>5, <1>6, <1>7, <1>8, <1>9, <1>10, <1>11, <1>12
  DEF Next, MotionTask

LEMMA QueueInvariance == Spec => []QueueInv
  BY QueueInit, QueueStep, PTL DEF Spec

\* Every variable of the slewing loop, of the task that stops it and of the RMT
\* driver keeps its type: no batch is larger than a buffer, no count is negative,
\* and neither the queue of the driver nor the semaphore exceeds its depth.
THEOREM SlewTypes == Spec => []SlewTypeOK
<1>1. QueueInv => SlewTypeOK
  BY DEF QueueInv, QueueTypes, PlanInv, PlanTypes, SlewTypeOK
<1> QED  BY <1>1, QueueInvariance, PTL

\* The buffer that the loop encodes into when it counts a batch is not in the
\* queue of the driver, which reads it while it emits, unless a stop has left
\* batches of an earlier motion behind.
THEOREM RefillsAreSafe == Spec => []RefillsFreeBuffer
<1>1. ASSUME QueueInv  PROVE RefillsFreeBuffer
  <2> SUFFICES ASSUME NEW a \in Axes, pc = a, Waiting(a), sem[a] > 0, ~orphaned,
                      NEW i \in 1..Len(fifo[a])
               PROVE  fifo[a][i].buffer # ping[a]
    BY DEF RefillsFreeBuffer
  <2>1. Looping
    BY DEF Looping, Axes
  <2>2. InOrder(a)
    BY <1>1, <2>1 DEF QueueInv, Accounts
  <2>3. ping[a] \in {0, 1} /\ Pong(a) = 1 - ping[a]
    BY <1>1 DEF QueueInv, PlanInv, PlanTypes, Buffers, Pong
  <2>4. Front(a) > 0 /\ Total(a) > 0
    <3>1. done[a] \in Nat /\ Total(a) \in Nat
      BY <1>1, Distance DEF QueueInv, PlanInv, PlanTypes
    <3> QED  BY <3>1 DEF Waiting, Front
  <2>5. Len(fifo[a]) = 0 \/ (Len(fifo[a]) = 1 /\ fifo[a][1] = Entry(Pong(a), Back(a)))
    <3>1. ~(sem[a] = 0)
      BY <1>1 DEF QueueInv, QueueTypes
    <3> QED  BY <2>2, <2>4, <3>1 DEF InOrder
  <2>6. Len(fifo[a]) = 1 /\ i = 1
    BY <2>5
  <2>7. fifo[a][i].buffer = Pong(a)
    BY <2>5, <2>6 DEF Entry
  <2> QED  BY <2>3, <2>7
<1> QED  BY <1>1, QueueInvariance, PTL

\* What the loop counts is what the motor was told to do: in the loop, the steps
\* that left the pin and those the driver holds are those counted and those of
\* the two buffers, and every batch is in the queue or in the semaphore.
THEOREM StepsAddUp == Spec => []StepsAccounted
<1>1. ASSUME QueueInv  PROVE StepsAccounted
  <2> SUFFICES ASSUME Looping, ~orphaned, NEW a \in Axes
               PROVE  /\ emitted[a] + Load(fifo[a]) = done[a] + batch[a][0] + batch[a][1]
                      /\ Total(a) > 0 =>
                           sem[a] + Len(fifo[a]) =
                             Cardinality({b \in Buffers : batch[a][b] > 0})
    BY DEF StepsAccounted
  <2> DEFINE q == fifo[a]
             full == {b \in Buffers : batch[a][b] > 0}
  <2>1. InOrder(a)
    BY <1>1 DEF QueueInv, Accounts
  <2>2. /\ ping[a] \in {0, 1} /\ Pong(a) = 1 - ping[a] /\ q \in Seq(Batch)
        /\ batch[a][0] \in Nat /\ batch[a][1] \in Nat
        /\ done[a] \in Nat /\ emitted[a] \in Nat
    <3>1. q \in Seq(Batch) /\ emitted[a] \in Nat /\ done[a] \in Nat
      BY <1>1 DEF QueueInv, QueueTypes, PlanInv, PlanTypes
    <3>2. ping[a] \in {0, 1} /\ batch[a][0] \in Nat /\ batch[a][1] \in Nat
      BY <1>1, SlewConstants DEF QueueInv, PlanInv, PlanTypes, Buffers
    <3> QED  BY <3>1, <3>2 DEF Pong
  <2>3. /\ Front(a) \in Nat /\ Back(a) \in Nat
        /\ Front(a) + Back(a) = batch[a][0] + batch[a][1]
        /\ full = {b \in {ping[a], Pong(a)} : batch[a][b] > 0}
        /\ Front(a) = batch[a][ping[a]] /\ Back(a) = batch[a][Pong(a)]
    <3>1. CASE ping[a] = 0
      <4>1. Pong(a) = 1
        BY <2>2, <3>1
      <4> QED  BY <2>2, <3>1, <4>1 DEF Front, Back, Buffers
    <3>2. CASE ping[a] = 1
      <4>1. Pong(a) = 0
        BY <2>2, <3>2
      <4> QED  BY <2>2, <3>2, <4>1 DEF Front, Back, Buffers
    <3> QED  BY <2>2, <3>1, <3>2
  <2> HIDE DEF q, full
  <2>4. /\ Len(q) = 0 => Load(q) = 0
        /\ Len(q) = 1 => Load(q) = q[1].steps
        /\ Len(q) = 2 => Load(q) = q[1].steps + q[2].steps
    BY <2>2, LoadShort
  <2>5. \A b, m : Entry(b, m).steps = m
    BY DEF Entry
  <2>6. ping[a] # Pong(a)
    BY <2>2
  <2>7. CASE /\ Front(a) = 0 /\ Back(a) = 0 /\ Len(q) = 0
             /\ emitted[a] = done[a] /\ (Total(a) > 0 => sem[a] = 0)
    <3>1. full = {}
      <4>1. ~(batch[a][ping[a]] > 0) /\ ~(batch[a][Pong(a)] > 0)
        BY <2>3, <2>7
      <4> QED  BY <2>3, <4>1, Zenon
    <3>2. Cardinality(full) = 0
      BY <3>1, FS_EmptySet
    <3> QED  BY <2>2, <2>3, <2>4, <2>7, <3>2 DEF q, full
  <2>8. CASE Front(a) > 0 /\ Back(a) = 0
    <3>1. full = {ping[a]}
      <4>1. batch[a][ping[a]] > 0 /\ ~(batch[a][Pong(a)] > 0)
        BY <2>3, <2>8
      <4> QED  BY <2>3, <4>1, Zenon
    <3>2. Cardinality(full) = 1
      BY <3>1, FS_Singleton
    <3>3. sem[a] + Len(q) = 1 /\ emitted[a] + Load(q) = done[a] + Front(a)
      <4>1. CASE /\ Len(q) = 1 /\ sem[a] = 0 /\ q[1] = Entry(ping[a], Front(a))
                 /\ emitted[a] = done[a]
        <5>1. Load(q) = Front(a)
          BY <2>4, <2>5, <4>1
        <5> QED  BY <2>2, <2>3, <4>1, <5>1
      <4>2. CASE Len(q) = 0 /\ sem[a] = 1 /\ emitted[a] = done[a] + Front(a)
        <5>1. Load(q) = 0
          BY <2>4, <4>2
        <5> QED  BY <2>2, <2>3, <4>2, <5>1
      <4> QED  BY <2>1, <2>8, <4>1, <4>2 DEF InOrder, q
    <3>4. Front(a) = batch[a][0] + batch[a][1] /\ Front(a) \in Nat
      BY <2>3, <2>8
    <3>5. emitted[a] + Load(q) = done[a] + batch[a][0] + batch[a][1]
      BY <2>2, <3>3, <3>4
    <3> QED  BY <3>2, <3>3, <3>5 DEF q, full
  <2>9. CASE Front(a) > 0 /\ Back(a) > 0
    <3>1. full = {ping[a], Pong(a)}
      BY <2>3, <2>9
    <3>2. Cardinality(full) = 2
      <4>1. IsFiniteSet({ping[a]}) /\ Cardinality({ping[a]}) = 1
        BY FS_Singleton
      <4>2. full = {ping[a]} \cup {Pong(a)} /\ Pong(a) \notin {ping[a]}
        BY <2>6, <3>1
      <4>3. Cardinality({ping[a]} \cup {Pong(a)}) = Cardinality({ping[a]}) + 1
        BY <4>1, <4>2, FS_AddElement
      <4> QED  BY <4>1, <4>2, <4>3
    <3>3. sem[a] + Len(q) = 2 /\ emitted[a] + Load(q) = done[a] + Front(a) + Back(a)
      <4>1. CASE /\ Len(q) = 2 /\ sem[a] = 0 /\ emitted[a] = done[a]
                 /\ q[1] = Entry(ping[a], Front(a)) /\ q[2] = Entry(Pong(a), Back(a))
        <5>1. Load(q) = Front(a) + Back(a)
          BY <2>4, <2>5, <4>1
        <5> QED  BY <2>2, <2>3, <4>1, <5>1
      <4>2. CASE /\ Len(q) = 1 /\ sem[a] = 1 /\ q[1] = Entry(Pong(a), Back(a))
                 /\ emitted[a] = done[a] + Front(a)
        <5>1. Load(q) = Back(a)
          BY <2>4, <2>5, <4>2
        <5> QED  BY <2>2, <2>3, <4>2, <5>1
      <4>3. CASE Len(q) = 0 /\ sem[a] = 2 /\ emitted[a] = done[a] + Front(a) + Back(a)
        <5>1. Load(q) = 0
          BY <2>4, <4>3
        <5> QED  BY <2>2, <2>3, <4>3, <5>1
      <4> QED  BY <2>1, <2>9, <4>1, <4>2, <4>3 DEF InOrder, q
    <3>4. emitted[a] + Load(q) = done[a] + batch[a][0] + batch[a][1]
      <4>1. /\ Front(a) \in Nat /\ Back(a) \in Nat /\ done[a] \in Nat
            /\ batch[a][0] \in Nat /\ batch[a][1] \in Nat
            /\ Front(a) + Back(a) = batch[a][0] + batch[a][1]
        BY <2>2, <2>3
      <4>2. done[a] + Front(a) + Back(a) = done[a] + batch[a][0] + batch[a][1]
        BY <4>1
      <4> QED  BY <3>3, <4>2
    <3> QED  BY <3>2, <3>3, <3>4 DEF q, full
  <2> QED  BY <2>1, <2>3, <2>7, <2>8, <2>9 DEF InOrder, q
<1> QED  BY <1>1, QueueInvariance, PTL
-----------------------------------------------------------------------------
(***************************************************************************)
(* What leaves the pin                                                     *)
(*                                                                         *)
(* QueueInv says nothing of a motion that follows an orphaned one, whose   *)
(* batches are still ahead of its own.  That no motion emits more than it  *)
(* has holds of those too: whatever the semaphore makes the loop believe,  *)
(* it hands over no batch that is not in its counts and its buffers.       *)
(***************************************************************************)
\* Handed over, emitted or given up: never more than counted and planned.
Spent(a) == emitted[a] + LoadOf(motion, fifo[a]) <= done[a] + batch[a][0] + batch[a][1]

Emission(a) ==
  /\ \A i \in 1..Len(fifo[a]) : fifo[a][i].motion <= motion
  /\ Spent(a)
  /\ ~orphaned => done[a] <= emitted[a]

EmissionInv == QueueInv /\ \A a \in Axes : Emission(a)

\* The sum of the first n of at most four batches.
FirstOf(m, q, n) ==
  IF n = 0 THEN 0
  ELSE IF n = 1 THEN StepsOf(m, q[1])
  ELSE IF n = 2 THEN StepsOf(m, q[1]) + StepsOf(m, q[2])
  ELSE IF n = 3 THEN StepsOf(m, q[1]) + StepsOf(m, q[2]) + StepsOf(m, q[3])
  ELSE StepsOf(m, q[1]) + StepsOf(m, q[2]) + StepsOf(m, q[3]) + StepsOf(m, q[4])

LEMMA UpToFour == \A n \in Nat : n <= 4 => n = 0 \/ n = 1 \/ n = 2 \/ n = 3 \/ n = 4
  OBVIOUS

LEMMA StepsOfIsNat ==
  ASSUME NEW m, NEW q \in Seq(Batch)
  PROVE  \A i \in 1..Len(q) : StepsOf(m, q[i]) \in Nat
<1>1. \A i \in 1..Len(q) : q[i] \in Batch
  OBVIOUS
<1>2. \A e \in Batch : e.steps \in Nat
  BY SlewConstants DEF Batch
<1> QED  BY <1>1, <1>2 DEF StepsOf

LEMMA FirstOfStep ==
  ASSUME NEW m, NEW q \in Seq(Batch), Len(q) <= 4, NEW i \in 1..Len(q)
  PROVE  FirstOf(m, q, i) = FirstOf(m, q, i - 1) + StepsOf(m, q[i])
<1>1. Len(q) \in Nat
  OBVIOUS
<1>2. \A j \in 1..Len(q) : StepsOf(m, q[j]) \in Nat
  BY StepsOfIsNat
<1>3. i = 1 \/ i = 2 \/ i = 3 \/ i = 4
  BY <1>1, UpToFour
<1>4. CASE i = 1
  <2>1. StepsOf(m, q[1]) \in Nat
    BY <1>2, <1>4
  <2> QED  BY <1>4, <2>1 DEF FirstOf
<1>5. CASE i = 2
  BY <1>5 DEF FirstOf
<1>6. CASE i = 3
  BY <1>6 DEF FirstOf
<1>7. CASE i = 4
  BY <1>7 DEF FirstOf
<1> QED  BY <1>3, <1>4, <1>5, <1>6, <1>7

LEMMA FirstOfIsNat ==
  ASSUME NEW m, NEW q \in Seq(Batch), Len(q) <= 4, NEW i \in 0..Len(q)
  PROVE  FirstOf(m, q, i) \in Nat
<1>1. Len(q) \in Nat
  OBVIOUS
<1>2. \A j \in 1..Len(q) : StepsOf(m, q[j]) \in Nat
  BY StepsOfIsNat
<1>3. FirstOf(m, q, 0) \in Nat
  BY DEF FirstOf
<1>4. ASSUME NEW j \in 1..Len(q), FirstOf(m, q, j - 1) \in Nat
      PROVE  FirstOf(m, q, j) \in Nat
  <2>1. FirstOf(m, q, j) = FirstOf(m, q, j - 1) + StepsOf(m, q[j])
    BY FirstOfStep
  <2> QED  BY <1>2, <1>4, <2>1
<1>5. i >= 1 => FirstOf(m, q, 1) \in Nat
  BY <1>1, <1>3, <1>4
<1>6. i >= 2 => FirstOf(m, q, 2) \in Nat
  BY <1>1, <1>4, <1>5
<1>7. i >= 3 => FirstOf(m, q, 3) \in Nat
  BY <1>1, <1>4, <1>6
<1>8. i >= 4 => FirstOf(m, q, 4) \in Nat
  BY <1>1, <1>4, <1>7
<1>9. i = 0 \/ i = 1 \/ i = 2 \/ i = 3 \/ i = 4
  BY <1>1, UpToFour
<1> QED  BY <1>3, <1>5, <1>6, <1>7, <1>8, <1>9

LEMMA LoadOfShort ==
  ASSUME NEW m, NEW q \in Seq(Batch), Len(q) <= 4
  PROVE  LoadOf(m, q) = FirstOf(m, q, Len(q))
<1> DEFINE sum[i \in 0..Len(q)] == IF i = 0 THEN 0 ELSE sum[i - 1] + StepsOf(m, q[i])
           partial == [i \in 0..Len(q) |-> FirstOf(m, q, i)]
<1>1. Len(q) \in Nat
  OBVIOUS
<1>2. FirstOf(m, q, 0) = 0
  BY DEF FirstOf
<1>3. \A i \in 1..Len(q) : FirstOf(m, q, i) = FirstOf(m, q, i - 1) + StepsOf(m, q[i])
  BY FirstOfStep
<1>4. sum = [i \in 0..Len(q) |-> IF i = 0 THEN 0 ELSE sum[i - 1] + StepsOf(m, q[i])]
  <2>1. partial = [i \in 0..Len(q) |-> IF i = 0 THEN 0 ELSE partial[i - 1] + StepsOf(m, q[i])]
    BY <1>1, <1>2, <1>3
  <2> HIDE DEF partial
  <2>2. \E f : f = [i \in 0..Len(q) |-> IF i = 0 THEN 0 ELSE f[i - 1] + StepsOf(m, q[i])]
    BY <2>1
  <2> QED  BY <2>2, Zenon DEF sum
<1>5. LoadOf(m, q) = sum[Len(q)]
  BY DEF LoadOf
<1> HIDE DEF sum, partial
<1>6. sum[0] = FirstOf(m, q, 0)
  BY <1>1, <1>2, <1>4
<1>7. \A i \in 1..Len(q) : sum[i - 1] = FirstOf(m, q, i - 1) => sum[i] = FirstOf(m, q, i)
  <2>1. \A i \in 1..Len(q) : sum[i] = sum[i - 1] + StepsOf(m, q[i])
    BY <1>1, <1>4
  <2> QED  BY <1>3, <2>1
<1>8. Len(q) >= 1 => sum[1] = FirstOf(m, q, 1)
  BY <1>1, <1>6, <1>7
<1>9. Len(q) >= 2 => sum[2] = FirstOf(m, q, 2)
  BY <1>1, <1>7, <1>8
<1>10. Len(q) >= 3 => sum[3] = FirstOf(m, q, 3)
  BY <1>1, <1>7, <1>9
<1>11. Len(q) >= 4 => sum[4] = FirstOf(m, q, 4)
  BY <1>1, <1>7, <1>10
<1>12. Len(q) = 0 \/ Len(q) = 1 \/ Len(q) = 2 \/ Len(q) = 3 \/ Len(q) = 4
  BY <1>1, UpToFour
<1>13. sum[Len(q)] = FirstOf(m, q, Len(q))
  BY <1>6, <1>8, <1>9, <1>10, <1>11, <1>12
<1> QED  BY <1>5, <1>13

LEMMA LoadOfIsNat ==
  ASSUME NEW m, NEW q \in Seq(Batch), Len(q) <= 4
  PROVE  LoadOf(m, q) \in Nat
<1>1. Len(q) \in Nat
  OBVIOUS
<1>2. FirstOf(m, q, Len(q)) \in Nat
  BY <1>1, FirstOfIsNat
<1> QED  BY <1>2, LoadOfShort

LEMMA LoadOfEmpty ==
  ASSUME NEW m, NEW q \in Seq(Batch), Len(q) = 0
  PROVE  LoadOf(m, q) = 0
<1>1. LoadOf(m, q) = FirstOf(m, q, 0)
  <2>1. Len(q) <= 4
    OBVIOUS
  <2> QED  BY <2>1, LoadOfShort
<1> QED  BY <1>1 DEF FirstOf

\* Queues that agree up to n have the same sum up to n.
LEMMA FirstOfSame ==
  ASSUME NEW m, NEW q, NEW r, NEW n \in Nat, n <= 4,
         \A i \in 1..n : r[i] = q[i]
  PROVE  FirstOf(m, r, n) = FirstOf(m, q, n)
<1>1. n = 0 \/ n = 1 \/ n = 2 \/ n = 3 \/ n = 4
  BY UpToFour
<1>2. /\ n >= 1 => r[1] = q[1]
      /\ n >= 2 => r[2] = q[2]
      /\ n >= 3 => r[3] = q[3]
      /\ n >= 4 => r[4] = q[4]
  BY <1>1
<1> QED  BY <1>1, <1>2 DEF FirstOf

LEMMA LoadOfAppend ==
  ASSUME NEW m, NEW q \in Seq(Batch), Len(q) < 4, NEW e \in Batch
  PROVE  LoadOf(m, Append(q, e)) = LoadOf(m, q) + StepsOf(m, e)
<1> DEFINE r == Append(q, e)
<1>1. r \in Seq(Batch) /\ Len(q) \in Nat
  BY AppendProperties
<1>2. Len(r) = Len(q) + 1 /\ r[Len(q) + 1] = e
  BY AppendProperties, Zenon
<1>3. \A i \in 1..Len(q) : r[i] = q[i]
  BY AppendProperties
<1> HIDE DEF r
<1>4. LoadOf(m, q) = FirstOf(m, q, Len(q)) /\ LoadOf(m, r) = FirstOf(m, r, Len(q) + 1)
  <2>1. Len(q) <= 4 /\ Len(r) <= 4
    BY <1>1, <1>2
  <2> QED  BY <1>1, <1>2, <2>1, LoadOfShort
<1>5. FirstOf(m, r, Len(q) + 1) = FirstOf(m, r, Len(q)) + StepsOf(m, e)
  <2>1. Len(q) + 1 \in 1..Len(r) /\ Len(r) <= 4 /\ (Len(q) + 1) - 1 = Len(q)
    BY <1>1, <1>2
  <2>2. FirstOf(m, r, Len(q) + 1) = FirstOf(m, r, (Len(q) + 1) - 1) + StepsOf(m, r[Len(q) + 1])
    BY <1>1, <2>1, FirstOfStep, Zenon
  <2> QED  BY <1>2, <2>1, <2>2
<1>6. FirstOf(m, r, Len(q)) = FirstOf(m, q, Len(q))
  BY <1>1, <1>3, FirstOfSame
<1> QED  BY <1>4, <1>5, <1>6 DEF r

LEMMA LoadOfTail ==
  ASSUME NEW m, NEW q \in Seq(Batch), Len(q) <= 4, q # <<>>
  PROVE  LoadOf(m, q) = StepsOf(m, Head(q)) + LoadOf(m, Tail(q))
<1> DEFINE r == Tail(q)
           w(i) == StepsOf(m, q[i])
<1>1. /\ Head(q) = q[1] /\ r \in Seq(Batch) /\ Len(r) = Len(q) - 1
      /\ Len(q) \in Nat /\ Len(q) > 0
      /\ \A i \in 1..Len(r) : r[i] = q[i + 1]
  <2>1. Len(q) \in Nat /\ Len(q) > 0
    BY EmptySeq
  <2> QED  BY <2>1, HeadTailProperties
<1>2. \A i \in 1..Len(q) : w(i) \in Nat
  BY StepsOfIsNat
<1> HIDE DEF r
<1>3. LoadOf(m, q) = FirstOf(m, q, Len(q)) /\ LoadOf(m, r) = FirstOf(m, r, Len(r))
  <2>1. Len(r) <= 4
    BY <1>1
  <2> QED  BY <1>1, <2>1, LoadOfShort
<1>4. /\ Len(q) >= 2 => r[1] = q[2]
      /\ Len(q) >= 3 => r[2] = q[3]
      /\ Len(q) >= 4 => r[3] = q[4]
  BY <1>1
<1>5. /\ Len(q) = 1 \/ Len(q) = 2 \/ Len(q) = 3 \/ Len(q) = 4
      /\ w(1) \in Nat
      /\ Len(q) >= 2 => w(2) \in Nat
      /\ Len(q) >= 3 => w(3) \in Nat
      /\ Len(q) >= 4 => w(4) \in Nat
  <2>1. Len(q) = 1 \/ Len(q) = 2 \/ Len(q) = 3 \/ Len(q) = 4
    BY <1>1, UpToFour
  <2>2. /\ 1 \in 1..Len(q)
        /\ Len(q) >= 2 => 2 \in 1..Len(q)
        /\ Len(q) >= 3 => 3 \in 1..Len(q)
        /\ Len(q) >= 4 => 4 \in 1..Len(q)
    BY <2>1
  <2> HIDE DEF w
  <2> QED  BY <1>2, <2>1, <2>2
<1>6. CASE Len(q) = 1
  <2>1. FirstOf(m, q, Len(q)) = w(1) /\ FirstOf(m, r, Len(r)) = 0
    BY <1>1, <1>6 DEF FirstOf
  <2> QED  BY <1>1, <1>3, <1>5, <2>1 DEF r
<1>7. CASE Len(q) = 2
  <2>1. Len(r) = 1
    BY <1>1, <1>7
  <2>2. FirstOf(m, q, Len(q)) = w(1) + w(2) /\ FirstOf(m, r, Len(r)) = w(2)
    BY <1>4, <1>7, <2>1 DEF FirstOf
  <2> QED  BY <1>1, <1>3, <1>5, <2>2 DEF r
<1>8. CASE Len(q) = 3
  <2>1. Len(r) = 2
    BY <1>1, <1>8
  <2>2. FirstOf(m, q, Len(q)) = w(1) + w(2) + w(3) /\ FirstOf(m, r, Len(r)) = w(2) + w(3)
    BY <1>4, <1>8, <2>1 DEF FirstOf
  <2>3. w(1) + w(2) + w(3) = w(1) + (w(2) + w(3))
    <3> HIDE DEF w
    <3> QED  BY <1>5, <1>8
  <2> QED  BY <1>1, <1>3, <2>2, <2>3 DEF r
<1>9. CASE Len(q) = 4
  <2>1. Len(r) = 3
    BY <1>1, <1>9
  <2>2. /\ FirstOf(m, q, Len(q)) = w(1) + w(2) + w(3) + w(4)
        /\ FirstOf(m, r, Len(r)) = w(2) + w(3) + w(4)
    BY <1>4, <1>9, <2>1 DEF FirstOf
  <2>3. w(1) + w(2) + w(3) + w(4) = w(1) + (w(2) + w(3) + w(4))
    <3> HIDE DEF w
    <3> QED  BY <1>5, <1>9
  <2> QED  BY <1>1, <1>3, <2>2, <2>3 DEF r
<1> QED  BY <1>5, <1>6, <1>7, <1>8, <1>9
-----------------------------------------------------------------------------
\* An axis whose driver and counts a step leaves alone.
LEMMA EmissionKept ==
  ASSUME NEW a \in Axes, Emission(a), UNCHANGED <<motion, orphaned>>,
         fifo'[a] = fifo[a], emitted'[a] = emitted[a], done'[a] = done[a], batch'[a] = batch[a]
  PROVE  Emission(a)'
  BY DEF Emission, Spent

\* A batch is handed over, or only planned: its steps are in the buffers.
LEMMA EmissionGrows ==
  ASSUME QueueInv, NEW a \in Axes, Emission(a), motion \in 1..MaxMotions,
         UNCHANGED <<motion, orphaned>>, Len(fifo[a]) < QueueDepth,
         NEW b \in Buffers, NEW n \in 0..MaxBatch,
         fifo'[a] \in {fifo[a], Handed(fifo[a], b, n)}, emitted'[a] = emitted[a],
         done'[a] + batch'[a][0] + batch'[a][1] = done[a] + batch[a][0] + batch[a][1] + n,
         ~orphaned => done'[a] <= emitted[a]
  PROVE  Emission(a)'
<1> DEFINE q == fifo[a]
           h == Handed(q, b, n)
           r == fifo'[a]
           l == LoadOf(motion, q)
           planned == done[a] + batch[a][0] + batch[a][1]
<1>1. q \in Seq(Batch) /\ Len(q) \in Nat /\ Len(q) < 4 /\ MaxBatch \in Nat
  <2>1. fifo[a] \in Seq(Batch)
    BY DEF QueueInv, QueueTypes
  <2> QED  BY <2>1, SlewConstants DEF QueueDepth
<1>2. emitted[a] \in Nat /\ planned \in Nat
  <2>1. done[a] \in Nat /\ emitted[a] \in Nat
    BY DEF QueueInv, QueueTypes, PlanInv, PlanTypes
  <2>2. batch[a] \in [Buffers -> 0..MaxBatch]
    BY DEF QueueInv, PlanInv, PlanTypes
  <2>3. batch[a][0] \in Nat /\ batch[a][1] \in Nat
    BY <1>1, <2>2 DEF Buffers
  <2>4. \A x, y, z \in Nat : x + y + z \in Nat
    OBVIOUS
  <2>5. planned \in Nat
    BY <2>1, <2>3, <2>4, Zenon
  <2> QED  BY <2>1, <2>5
<1>3. l \in Nat
  <2>1. Len(q) <= 4
    BY <1>1
  <2> QED  BY <1>1, <2>1, LoadOfIsNat
<1>4. emitted[a] + l <= planned /\ \A i \in 1..Len(q) : q[i].motion <= motion
  BY DEF Emission, Spent
<1>5. /\ LoadOf(motion, r) \in {l, l + n}
      /\ \A i \in 1..Len(r) : r[i].motion <= motion
  <2>1. CASE n = 0 \/ r = q
    <3>1. r = q
      BY <2>1 DEF Handed
    <3> QED  BY <1>4, <3>1
  <2>2. CASE n > 0 /\ r = h
    <3>1. Entry(b, n) \in Batch
      BY <1>1, <2>2 DEF Entry, Batch
    <3>2. r = Append(q, Entry(b, n))
      BY <2>2 DEF Handed, Entry
    <3>3. StepsOf(motion, Entry(b, n)) = n
      BY DEF StepsOf, Entry
    <3>4. LoadOf(motion, r) = l + n
      BY <1>1, <3>1, <3>2, <3>3, LoadOfAppend
    <3>5. ASSUME NEW i \in 1..Len(r)
          PROVE  r[i].motion <= motion
      <4>1. Len(r) = Len(q) + 1 /\ (i \in 1..Len(q) \/ i = Len(q) + 1)
        BY <1>1, <3>2, <3>5
      <4>2. CASE i \in 1..Len(q)
        <5>1. r[i] = q[i]
          BY <1>1, <3>1, <3>2, <4>2, AppendProperties
        <5> QED  BY <1>4, <4>2, <5>1
      <4>3. CASE i = Len(q) + 1
        <5>1. Append(q, Entry(b, n))[Len(q) + 1] = Entry(b, n)
          <6> HIDE DEF q
          <6> QED  BY <1>1, <3>1, AppendProperties, Zenon
        <5>2. r[i] = Entry(b, n)
          BY <3>2, <4>3, <5>1
        <5> QED  BY <5>2 DEF Entry
      <4> QED  BY <4>1, <4>2, <4>3
    <3> QED  BY <3>4, <3>5
  <2> QED  BY <2>1, <2>2
<1>6. emitted[a] + LoadOf(motion, r) <= planned + n
  <2> HIDE DEF l, r, planned
  <2> QED  BY <1>2, <1>3, <1>4, <1>5
<1> QED  BY <1>5, <1>6 DEF Emission, Spent

\* The batches that a new motion finds in the queue are not its own.
LEMMA AcceptEmission ==
  ASSUME EmissionInv, NEW k, NEW t, Accept(k, t), NEW a \in Axes
  PROVE  Emission(a)'
<1>1. /\ motion' = motion + 1 /\ emitted'[a] = 0 /\ done'[a] = 0
      /\ batch'[a][0] = 0 /\ batch'[a][1] = 0 /\ fifo'[a] = fifo[a]
  BY DEF Accept, Buffers
<1>2. /\ fifo[a] \in Seq(Batch) /\ Len(fifo[a]) <= 4 /\ Len(fifo[a]) \in Nat
      /\ motion \in Nat /\ \A i \in 1..Len(fifo[a]) : fifo[a][i].motion <= motion
  <2>1. fifo[a] \in Seq(Batch) /\ Len(fifo[a]) <= QueueDepth /\ motion \in Nat
    BY SlewConstants DEF EmissionInv, QueueInv, QueueTypes
  <2> QED  BY <2>1 DEF QueueDepth, EmissionInv, Emission
<1>3. \A i \in 1..Len(fifo[a]) : fifo[a][i].motion \in Nat
  <2>1. \A i \in 1..Len(fifo[a]) : fifo[a][i] \in Batch
    BY <1>2
  <2>2. \A e \in Batch : e.motion \in Nat
    BY SlewConstants DEF Batch
  <2> QED  BY <2>1, <2>2
<1>4. \A i \in 1..Len(fifo[a]) :
        fifo[a][i].motion <= motion + 1 /\ StepsOf(motion + 1, fifo[a][i]) = 0
  <2> TAKE i \in 1..Len(fifo[a])
  <2>1. fifo[a][i].motion <= motion + 1 /\ fifo[a][i].motion # motion + 1
    BY <1>2, <1>3
  <2> QED  BY <2>1 DEF StepsOf
<1>5. LoadOf(motion + 1, fifo[a]) = 0
  <2> DEFINE n == Len(fifo[a])
             w(i) == StepsOf(motion + 1, fifo[a][i])
  <2>1. LoadOf(motion + 1, fifo[a]) = FirstOf(motion + 1, fifo[a], n)
    BY <1>2, LoadOfShort
  <2>2. n = 0 \/ n = 1 \/ n = 2 \/ n = 3 \/ n = 4
    BY <1>2, UpToFour
  <2>3. \A i \in 1..n : w(i) = 0
    BY <1>4
  <2> HIDE DEF n, w
  <2>4. /\ n >= 1 => w(1) = 0
        /\ n >= 2 => w(2) = 0
        /\ n >= 3 => w(3) = 0
        /\ n >= 4 => w(4) = 0
    BY <2>2, <2>3
  <2>5. FirstOf(motion + 1, fifo[a], n)
          = IF n = 0 THEN 0 ELSE IF n = 1 THEN w(1) ELSE IF n = 2 THEN w(1) + w(2)
            ELSE IF n = 3 THEN w(1) + w(2) + w(3) ELSE w(1) + w(2) + w(3) + w(4)
    BY DEF FirstOf, w
  <2> QED  BY <2>1, <2>2, <2>4, <2>5
<1> QED  BY <1>1, <1>4, <1>5 DEF Emission, Spent

LEMMA FirstEmission ==
  ASSUME EmissionInv, FirstBatches, NEW a \in Axes
  PROVE  Emission(a)'
<1>0. QueueInv /\ Emission(a)
  BY DEF EmissionInv
<1>1. /\ motion \in 1..MaxMotions /\ Len(fifo[a]) < QueueDepth
      /\ UNCHANGED <<position, done, emitted, history>>
  <2>1. pc # "wait"
    BY DEF FirstBatches
  <2>2. motion \in 1..MaxMotions
    BY <1>0, <2>1, SlewConstants DEF QueueInv, QueueTypes
  <2> QED  BY <2>2 DEF FirstBatches, Room
<1> PICK n \in [Axes -> 1..MaxBatch], ok \in Accepted :
       LET size == [c \in Axes |-> NextBatch(c, position[c], 0, 0, n[c])]
           sent == {c \in ok : size[c] > 0}
       IN
       /\ batch' = [c \in Axes |-> [batch[c] EXCEPT ![0] = size[c]]]
       /\ IF ~active
          THEN Goto("exit") /\ UNCHANGED <<control, fifo, sem>>
          ELSE /\ fifo' = [c \in Axes |->
                    IF c \in sent THEN Handed(fifo[c], 0, size[c]) ELSE fifo[c]]
               /\ sem' = [c \in Axes |-> IF c \in sent THEN 0 ELSE sem[c]]
               /\ IF \A c \in Axes : c \in ok \/ size[c] = 0
                  THEN Goto("second") /\ UNCHANGED control
                  ELSE GiveUp
  BY DEF FirstBatches
<1> DEFINE size == NextBatch(a, position[a], 0, 0, n[a])
<1>2. /\ done[a] = 0 /\ batch[a][0] = 0 /\ batch[a][1] = 0
      /\ batch[a] \in [Buffers -> 0..MaxBatch] /\ size \in 0..MaxBatch
  <2>1. Total(a) \in Nat /\ n[a] \in 1..MaxBatch /\ position[a] \in Int
    BY <1>0, Distance DEF QueueInv, PlanInv, PlanTypes
  <2>2. 0 + 0 <= Total(a)
    BY <2>1
  <2>3. size \in 0..MaxBatch
    BY <1>0, <2>1, <2>2, NextBatchFits DEF QueueInv, PlanInv
  <2>4. pc = "first"
    BY DEF FirstBatches
  <2> QED  BY <1>0, <2>3, <2>4 DEF QueueInv, PlanInv, PlanTypes, FreshStart
<1>3. batch'[a][0] = size /\ batch'[a][1] = 0
  BY <1>2 DEF Buffers
<1>4. fifo'[a] \in {fifo[a], Handed(fifo[a], 0, size)}
  BY DEF size
<1> HIDE DEF size
<1>5. /\ done'[a] + batch'[a][0] + batch'[a][1] = done[a] + batch[a][0] + batch[a][1] + size
      /\ done'[a] = 0
  <2>1. size \in Nat /\ done'[a] = 0
    BY <1>1, <1>2, SlewConstants
  <2> QED  BY <1>2, <1>3, <2>1
<1>6. ~orphaned => done'[a] <= emitted[a]
  BY <1>0, <1>1, <1>2, <1>5 DEF Emission
<1>7. emitted'[a] = emitted[a] /\ UNCHANGED <<motion, orphaned>> /\ 0 \in Buffers
  BY <1>1 DEF history, Buffers
<1> QED  BY <1>0, <1>1, <1>2, <1>4, <1>5, <1>6, <1>7, EmissionGrows

LEMMA SecondEmission ==
  ASSUME EmissionInv, SecondBatches, NEW a \in Axes
  PROVE  Emission(a)'
<1>0. QueueInv /\ Emission(a)
  BY DEF EmissionInv
<1>1. /\ motion \in 1..MaxMotions /\ Len(fifo[a]) < QueueDepth
      /\ UNCHANGED <<position, done, emitted, history>>
  <2>1. pc # "wait"
    BY DEF SecondBatches
  <2>2. motion \in 1..MaxMotions
    BY <1>0, <2>1, SlewConstants DEF QueueInv, QueueTypes
  <2> QED  BY <2>2 DEF SecondBatches, Room
<1> PICK n \in [Axes -> 1..MaxBatch], ok \in Accepted :
       LET size == [c \in Axes |-> NextBatch(c, position[c], 0, batch[c][0], n[c])] IN
       /\ batch' = [c \in Axes |-> [batch[c] EXCEPT ![1] = size[c]]]
       /\ fifo' = [c \in Axes |->
            IF c \in ok THEN Handed(fifo[c], 1, size[c]) ELSE fifo[c]]
       /\ IF \A c \in Axes : c \in ok \/ size[c] = 0
          THEN Goto("loop") /\ UNCHANGED control
          ELSE GiveUp
  BY DEF SecondBatches
<1> DEFINE size == NextBatch(a, position[a], 0, batch[a][0], n[a])
<1>2. /\ done[a] = 0 /\ batch[a][0] \in 0..MaxBatch /\ batch[a][1] = 0
      /\ batch[a] \in [Buffers -> 0..MaxBatch] /\ size \in 0..MaxBatch
  <2>1. Total(a) \in Nat /\ n[a] \in 1..MaxBatch /\ position[a] \in Int
        /\ batch[a] \in [Buffers -> 0..MaxBatch] /\ MaxBatch \in Nat
    BY <1>0, Distance, SlewConstants DEF QueueInv, PlanInv, PlanTypes
  <2>2. pc = "second"
    BY DEF SecondBatches
  <2>3. done[a] = 0 /\ batch[a][1] = 0 /\ done[a] + batch[a][0] + batch[a][1] <= Total(a)
    BY <1>0, <2>2 DEF QueueInv, PlanInv, FreshStart, PlanFits
  <2>4. batch[a][0] \in 0..MaxBatch /\ batch[a][0] \in Nat
    BY <2>1 DEF Buffers
  <2>5. 0 + batch[a][0] <= Total(a)
    BY <2>1, <2>3, <2>4
  <2>6. size \in 0..MaxBatch
    BY <1>0, <2>1, <2>4, <2>5, NextBatchFits DEF QueueInv, PlanInv
  <2> QED  BY <2>1, <2>3, <2>4, <2>6
<1>3. batch'[a][1] = size /\ batch'[a][0] = batch[a][0]
  BY <1>2 DEF Buffers
<1>4. fifo'[a] \in {fifo[a], Handed(fifo[a], 1, size)}
  BY DEF size
<1> HIDE DEF size
<1>5. /\ done'[a] + batch'[a][0] + batch'[a][1] = done[a] + batch[a][0] + batch[a][1] + size
      /\ done'[a] = 0
  <2>1. size \in Nat /\ batch[a][0] \in Nat /\ done'[a] = 0
    BY <1>1, <1>2, SlewConstants
  <2> QED  BY <1>2, <1>3, <2>1
<1>6. ~orphaned => done'[a] <= emitted[a]
  BY <1>0, <1>1, <1>2, <1>5 DEF Emission
<1>7. emitted'[a] = emitted[a] /\ UNCHANGED <<motion, orphaned>> /\ 1 \in Buffers
  BY <1>1 DEF history, Buffers
<1> QED  BY <1>0, <1>1, <1>2, <1>4, <1>5, <1>6, <1>7, EmissionGrows

\* The batch that is counted has been emitted, unless the token was not its own.
LEMMA CountEmission ==
  ASSUME EmissionInv, NEW c \in Axes, Count(c), NEW a \in Axes
  PROVE  Emission(a)'
<1>0. QueueInv /\ Emission(a)
  BY DEF EmissionInv
<1>1. /\ pc = c /\ Waiting(c) /\ sem[c] > 0 /\ Len(fifo[c]) < QueueDepth
      /\ UNCHANGED <<emitted, history>> /\ motion \in 1..MaxMotions
  <2>1. pc # "wait"
    BY DEF Count, Axes
  <2>2. motion \in 1..MaxMotions
    BY <1>0, <2>1, SlewConstants DEF QueueInv, QueueTypes
  <2> QED  BY <2>2 DEF Count, Room
<1>2. CASE ~active
  <2>1. UNCHANGED <<progress, fifo>>
    BY <1>2 DEF Count
  <2> QED  BY <1>0, <1>1, <2>1, EmissionKept DEF progress, history
<1>3. CASE active
  <2> DEFINE b == ping[c]
             at == position[c] + Sign(c) * batch[c][b]
             d == done[c] + batch[c][b]
             size(n) == NextBatch(c, at, d, batch[c][Pong(c)], n)
  <2>1. PICK n \in 1..MaxBatch, ok \in {TRUE, ~MayFail} :
          /\ done' = [done EXCEPT ![c] = d]
          /\ batch' = [batch EXCEPT ![c][b] = size(n)]
          /\ IF ok \/ size(n) = 0
             THEN /\ fifo' = [fifo EXCEPT ![c] = Handed(@, b, size(n))]
                  /\ ping' = [ping EXCEPT ![c] = Pong(c)]
                  /\ Goto(After(c)) /\ UNCHANGED control
             ELSE UNCHANGED <<fifo, ping>> /\ GiveUp
    BY <1>3 DEF Count
  <2>2. size(n) \in 0..MaxBatch
    BY <1>0, CountedBatch DEF QueueInv
  <2>3. /\ b \in {0, 1} /\ b \in Buffers /\ Pong(c) = 1 - b /\ MaxBatch \in Nat
        /\ batch \in [Axes -> [Buffers -> 0..MaxBatch]]
        /\ done \in [Axes -> Nat] /\ fifo \in [Axes -> Seq(Batch)] /\ emitted[c] \in Nat
    BY <1>0, SlewConstants DEF QueueInv, QueueTypes, PlanInv, PlanTypes, Buffers, Pong
  <2> HIDE DEF at, size, d
  <2> DEFINE s == size(n)
  <2>4. /\ fifo'[c] \in {fifo[c], Handed(fifo[c], b, s)}
        /\ \A x \in Axes : x # c => fifo'[x] = fifo[x]
    <3> DEFINE h == Handed(fifo[c], b, s)
    <3> HIDE DEF h
    <3>1. fifo' = [fifo EXCEPT ![c] = h] \/ fifo' = fifo
      BY <2>1 DEF h
    <3>2. /\ fifo'[c] \in {fifo[c], h}
          /\ \A x \in Axes : x # c => fifo'[x] = fifo[x]
      BY <2>3, <3>1
    <3> QED  BY <3>2 DEF h
  <2>5. /\ done'[c] = d /\ batch'[c][b] = s /\ batch'[c][1 - b] = batch[c][1 - b]
        /\ \A x \in Axes : x # c => done'[x] = done[x] /\ batch'[x] = batch[x]
    BY <2>1, <2>3 DEF Buffers
  <2>6. CASE a # c
    BY <1>0, <1>1, <2>4, <2>5, <2>6, EmissionKept DEF history
  <2>7. CASE a = c
    <3>1. /\ batch[c][0] \in Nat /\ batch[c][1] \in Nat /\ done[c] \in Nat /\ s \in Nat
          /\ d = done[c] + batch[c][b]
      BY <2>2, <2>3 DEF Buffers, d
    <3>2. done'[c] + batch'[c][0] + batch'[c][1] = done[c] + batch[c][0] + batch[c][1] + s
      <4>1. CASE b = 0
        <5>1. 1 - b = 1
          BY <4>1
        <5>2. batch'[c][0] = s /\ batch'[c][1] = batch[c][1] /\ done'[c] = done[c] + batch[c][0]
          BY <2>5, <3>1, <4>1, <5>1
        <5> HIDE DEF s
        <5> QED  BY <3>1, <5>2
      <4>2. CASE b = 1
        <5>1. 1 - b = 0
          BY <4>2
        <5>2. batch'[c][1] = s /\ batch'[c][0] = batch[c][0] /\ done'[c] = done[c] + batch[c][1]
          BY <2>5, <3>1, <4>2, <5>1
        <5> HIDE DEF s
        <5> QED  BY <3>1, <5>2
      <4> QED  BY <2>3, <4>1, <4>2
    <3>3. ASSUME ~orphaned  PROVE done'[c] <= emitted[c]
      <4>1. Looping
        BY <1>1 DEF Looping, Axes
      <4>2. InOrder(c) /\ Front(c) = batch[c][b] /\ Front(c) > 0
        BY <1>0, <1>1, <3>3, <4>1 DEF QueueInv, Accounts, Front, Waiting
      <4>3. Front(c) \in Nat /\ Back(c) \in Nat
        BY <2>3, <3>1 DEF Front, Back
      <4>4. \/ Front(c) > 0 /\ emitted[c] = done[c] + Front(c)
            \/ emitted[c] = done[c] + Front(c) + Back(c)
        <5>1. sem[c] # 0 /\ Front(c) # 0
          BY <1>1, <4>2, <4>3
        <5> QED  BY <4>2, <5>1 DEF InOrder
      <4> QED  BY <2>3, <2>5, <3>1, <4>2, <4>3, <4>4
    <3>4. s \in 0..MaxBatch /\ emitted'[c] = emitted[c] /\ UNCHANGED <<motion, orphaned>>
      BY <1>1, <2>2 DEF history
    <3> HIDE DEF s, b
    <3> QED  BY <1>0, <1>1, <2>3, <2>4, <2>7, <3>2, <3>3, <3>4, EmissionGrows
  <2> QED  BY <2>6, <2>7
<1> QED  BY <1>0, <1>2, <1>3 DEF QueueInv, QueueTypes

\* What was in the queue and is this motion's is now emitted.
\* A batch that is complete goes from the queue to what is emitted.
LEMMA CompletedBatch ==
  ASSUME QueueInv, NEW a \in Axes, Complete(a)
  PROVE  /\ fifo'[a] = Tail(fifo[a]) /\ emitted[a] \in Nat
         /\ emitted'[a] \in Nat /\ emitted'[a] >= emitted[a]
         /\ emitted'[a] + LoadOf(motion, fifo'[a]) = emitted[a] + LoadOf(motion, fifo[a])
<1> DEFINE q == fifo[a]
           r == Tail(q)
           n == StepsOf(motion, Head(q))
<1>1. /\ fifo \in [Axes -> Seq(Batch)] /\ emitted \in [Axes -> Nat]
      /\ q \in Seq(Batch) /\ Len(q) <= 4 /\ q # <<>> /\ Len(q) \in Nat
  <2>1. q \in Seq(Batch)
    BY DEF QueueInv, QueueTypes
  <2> QED  BY <2>1 DEF Complete, QueueInv, QueueTypes, QueueDepth
<1>2. /\ Head(q) = q[1] /\ r \in Seq(Batch) /\ Len(r) = Len(q) - 1
      /\ Len(q) > 0
  <2>1. Len(q) > 0
    BY <1>1, EmptySeq
  <2> QED  BY <1>1, <2>1, HeadTailProperties
<1>3. n \in Nat
  <2>1. 1 \in 1..Len(q)
    BY <1>1, <1>2
  <2> HIDE DEF q
  <2> QED  BY <1>1, <1>2, <2>1, StepsOfIsNat
<1>4. fifo'[a] = r /\ emitted'[a] = emitted[a] + n
  <2>1. fifo' = [fifo EXCEPT ![a] = r]
    BY DEF Complete
  <2>2. emitted' = [emitted EXCEPT ![a] =
          IF Head(q).motion = motion THEN emitted[a] + Head(q).steps ELSE emitted[a]]
    BY DEF Complete
  <2>3. fifo'[a] = r
    BY <1>1, <2>1
  <2>4. CASE Head(q).motion = motion
    BY <1>1, <2>2, <2>3, <2>4 DEF StepsOf
  <2>5. CASE Head(q).motion # motion
    BY <1>1, <2>2, <2>3, <2>5 DEF StepsOf
  <2> QED  BY <2>4, <2>5
<1>5. LoadOf(motion, q) = n + LoadOf(motion, r)
  BY <1>1, LoadOfTail
<1>6. LoadOf(motion, r) \in Nat
  <2>1. Len(r) <= 4
    BY <1>1, <1>2
  <2> QED  BY <1>2, <2>1, LoadOfIsNat
<1>7. emitted[a] \in Nat
  BY <1>1
<1> HIDE DEF n, r, q
<1>8. /\ emitted'[a] + LoadOf(motion, r) = emitted[a] + LoadOf(motion, q)
      /\ emitted'[a] \in Nat /\ emitted'[a] >= emitted[a]
  BY <1>3, <1>4, <1>5, <1>6, <1>7
<1> QED  BY <1>4, <1>7, <1>8 DEF q, r

LEMMA CompleteEmission ==
  ASSUME EmissionInv, NEW c \in Axes, Complete(c), NEW a \in Axes
  PROVE  Emission(a)'
<1>0. QueueInv /\ Emission(a)
  BY DEF EmissionInv
<1>1. UNCHANGED <<done, batch, motion, orphaned>> /\ fifo[c] # <<>>
  BY DEF Complete, progress, history
<1>2. CASE a # c
  <2>1. fifo'[a] = fifo[a] /\ emitted'[a] = emitted[a]
    BY <1>0, <1>2 DEF Complete, QueueInv, QueueTypes
  <2> QED  BY <1>0, <1>1, <2>1, EmissionKept
<1>3. CASE a = c
  <2> DEFINE q == fifo[a]
             r == Tail(q)
  <2>1. /\ fifo'[a] = r /\ emitted[a] \in Nat
        /\ emitted'[a] \in Nat /\ emitted'[a] >= emitted[a]
        /\ emitted'[a] + LoadOf(motion, fifo'[a]) = emitted[a] + LoadOf(motion, q)
    BY <1>0, <1>3, CompletedBatch
  <2>2. q \in Seq(Batch) /\ q # <<>>
    BY <1>0, <1>1, <1>3 DEF QueueInv, QueueTypes
  <2>3. Len(q) \in Nat /\ Len(r) = Len(q) - 1 /\ \A i \in 1..Len(r) : r[i] = q[i + 1]
    <3>1. Len(q) \in Nat /\ Len(q) > 0
      BY <2>2, EmptySeq
    <3> QED  BY <2>2, <3>1, HeadTailProperties
  <2>4. \A i \in 1..Len(r) : r[i].motion <= motion
    <3> TAKE i \in 1..Len(r)
    <3>1. i + 1 \in 1..Len(q) /\ r[i] = q[i + 1]
      BY <2>3
    <3> QED  BY <1>0, <3>1 DEF Emission
  <2> HIDE DEF r
  <2>5. ~orphaned => done[a] <= emitted'[a]
    <3>1. done[a] \in Nat
      BY <1>0 DEF QueueInv, PlanInv, PlanTypes
    <3> QED  BY <1>0, <2>1, <3>1 DEF Emission
  <2>6. Spent(a)'
    BY <1>0, <1>1, <2>1 DEF Emission, Spent
  <2> QED  BY <1>1, <2>1, <2>4, <2>5, <2>6 DEF Emission
<1> QED  BY <1>2, <1>3

\* The channels are deleted with what is left in them.
LEMMA ExitEmission ==
  ASSUME EmissionInv, Exit, NEW a \in Axes
  PROVE  Emission(a)'
<1>0. QueueInv /\ Emission(a) /\ UNCHANGED <<progress, motion>>
  BY DEF EmissionInv, Exit
<1>1. CASE aborted
  <2>1. PICK k \in [Axes -> 0..(2 * MaxBatch)] :
          /\ \A c \in Axes : k[c] <= LoadOf(motion, fifo[c])
          /\ emitted' = [c \in Axes |-> emitted[c] + k[c]]
    BY <1>1 DEF Exit, Recreate
  <2>2. fifo'[a] = <<>> /\ orphaned' = orphaned /\ emitted'[a] = emitted[a] + k[a]
    BY <1>1, <2>1 DEF Exit, Recreate
  <2>3. /\ k[a] \in Nat /\ k[a] <= LoadOf(motion, fifo[a]) /\ emitted[a] \in Nat
        /\ done[a] \in Nat /\ fifo[a] \in Seq(Batch) /\ Len(fifo[a]) <= 4
    <3>1. k[a] \in Nat
      BY <2>1, SlewConstants
    <3>2. fifo[a] \in Seq(Batch) /\ Len(fifo[a]) <= 4
      BY <1>0 DEF QueueInv, QueueTypes, QueueDepth
    <3> QED  BY <1>0, <2>1, <3>1, <3>2 DEF QueueInv, QueueTypes, PlanInv, PlanTypes
  <2>4. LoadOf(motion, fifo[a]) \in Nat
    BY <2>3, LoadOfIsNat
  <2>5. Len(<<>>) = 0 /\ <<>> \in Seq(Batch)
    BY EmptySeq
  <2>6. LoadOf(motion, <<>>) = 0
    BY <2>5, LoadOfEmpty
  <2> DEFINE l == LoadOf(motion, fifo[a])
             planned == done[a] + batch[a][0] + batch[a][1]
  <2>7. emitted[a] + l <= planned /\ planned \in Int
    <3>1. batch[a] \in [Buffers -> 0..MaxBatch]
      BY <1>0 DEF QueueInv, PlanInv, PlanTypes
    <3>2. batch[a][0] \in Nat /\ batch[a][1] \in Nat
      BY <3>1, SlewConstants DEF Buffers
    <3> HIDE DEF l
    <3> QED  BY <1>0, <2>3, <3>2 DEF Emission, Spent, l
  <2>8. emitted'[a] + LoadOf(motion, fifo'[a]) <= planned
    <3>1. emitted'[a] + LoadOf(motion, fifo'[a]) = emitted[a] + k[a] + 0
      BY <2>2, <2>6
    <3>2. emitted[a] \in Nat /\ k[a] \in Nat /\ l \in Nat /\ k[a] <= l
      BY <2>3, <2>4
    <3> HIDE DEF l, planned
    <3> QED  BY <2>7, <3>1, <3>2
  <2>9. ~orphaned => done[a] <= emitted'[a]
    BY <1>0, <2>2, <2>3 DEF Emission
  <2> QED  BY <1>0, <2>2, <2>5, <2>8, <2>9 DEF Emission, Spent, progress
<1>2. CASE ~aborted
  <2>1. UNCHANGED driver /\ (~orphaned' => ~orphaned)
    BY <1>2 DEF Exit
  <2> QED  BY <1>0, <2>1 DEF Emission, Spent, progress, driver
<1> QED  BY <1>1, <1>2
-----------------------------------------------------------------------------
LEMMA EmissionInit == Init => EmissionInv
<1> SUFFICES ASSUME Init, NEW a \in Axes  PROVE Emission(a)
  BY QueueInit DEF EmissionInv
<1>1. fifo[a] = <<>> /\ Len(<<>>) = 0 /\ <<>> \in Seq(Batch)
  BY EmptySeq DEF Init
<1>2. LoadOf(motion, <<>>) = 0
  BY <1>1, LoadOfEmpty
<1>3. emitted[a] = 0 /\ done[a] = 0 /\ batch[a][0] = 0 /\ batch[a][1] = 0
  BY DEF Init, Buffers
<1> QED  BY <1>1, <1>2, <1>3 DEF Emission, Spent

LEMMA EmissionStep == EmissionInv /\ [Next]_vars => EmissionInv'
<1> SUFFICES ASSUME EmissionInv, [Next]_vars, NEW a \in Axes
             PROVE  Emission(a)'
  BY QueueStep DEF EmissionInv
<1>1. ASSUME NEW goal \in Goals, Slew(goal)
      PROVE  Emission(a)'
  BY <1>1, AcceptEmission DEF Slew
<1>2. ASSUME NEW dir \in Directions, MoveAxis(dir)
      PROVE  Emission(a)'
  BY <1>2, AcceptEmission DEF MoveAxis
<1>3. CASE FirstBatches
  BY <1>3, FirstEmission
<1>4. CASE SecondBatches
  BY <1>4, SecondEmission
<1>5. ASSUME NEW c \in Axes, Count(c)
      PROVE  Emission(a)'
  BY <1>5, CountEmission
<1>6. ASSUME NEW c \in Axes, Complete(c)
      PROVE  Emission(a)'
  BY <1>6, CompleteEmission
<1>7. CASE Exit
  BY <1>7, ExitEmission
<1>8. ASSUME UNCHANGED <<progress, driver, history>>
      PROVE  Emission(a)'
  BY <1>8, EmissionKept DEF EmissionInv, progress, driver, history
<1>9. CASE Enter \/ Loop \/ Preempt \/ Conditions
  BY <1>8, <1>9 DEF Enter, Loop, Preempt, Conditions
<1>10. ASSUME NEW c \in Axes, NotDone(c)
       PROVE  Emission(a)'
  BY <1>8, <1>10 DEF NotDone
<1>11. CASE Halt \/ MarkAborted \/ MotorError \/ MotorRestored
  BY <1>8, <1>11 DEF Halt, MarkAborted, MotorError, MotorRestored
<1>12. CASE UNCHANGED vars
  BY <1>8, <1>12 DEF vars
<1> QED
  BY <1>1, <1>2, <1>3, <1>4, <1>5, <1>6, <1>7, <1>9, <1>10, <1>11, <1>12
  DEF Next, MotionTask

LEMMA EmissionInvariance == Spec => []EmissionInv
  BY EmissionInit, EmissionStep, PTL DEF Spec

\* Whatever stops a motion, and whatever an earlier one left in the driver: the
\* batches of a motion that have left the STEP pin and those still queued are
\* never more steps than the motion has, and when it ends, with nothing left
\* behind by a stop, the pin is not behind the count and at most two batches
\* ahead of it.
THEOREM NoOvershoot == Spec => []NeverOvershoots
<1>1. ASSUME EmissionInv  PROVE NeverOvershoots
  <2> SUFFICES ASSUME NEW a \in Axes
               PROVE  /\ emitted[a] + LoadOf(motion, fifo[a]) <= Total(a)
                      /\ ~orphaned /\ pc = "wait" => emitted[a] - done[a] \in 0..(2 * MaxBatch)
    BY DEF NeverOvershoots
  <2>1. QueueInv /\ Spent(a) /\ (~orphaned => done[a] <= emitted[a])
    BY <1>1 DEF EmissionInv, Emission
  <2>2. /\ emitted[a] \in Nat /\ done[a] \in Nat /\ MaxBatch \in Nat
        /\ batch[a][0] \in 0..MaxBatch /\ batch[a][1] \in 0..MaxBatch
        /\ fifo[a] \in Seq(Batch) /\ Len(fifo[a]) <= 4
    BY <2>1, SlewConstants DEF QueueInv, QueueTypes, PlanInv, PlanTypes, Buffers, QueueDepth
  <2>3. LoadOf(motion, fifo[a]) \in Nat
    BY <2>2, LoadOfIsNat
  <2>4. /\ Total(a) \in Nat /\ done[a] + batch[a][0] + batch[a][1] <= Total(a)
        /\ emitted[a] + LoadOf(motion, fifo[a]) <= done[a] + batch[a][0] + batch[a][1]
    BY <2>1, Distance DEF QueueInv, PlanInv, PlanFits, Spent
  <2> DEFINE l == LoadOf(motion, fifo[a])
             x == batch[a][0]
             y == batch[a][1]
  <2>5. x \in Nat /\ x <= MaxBatch /\ y \in Nat /\ y <= MaxBatch
    BY <2>2
  <2> HIDE DEF l, x, y
  <2>6. l \in Nat /\ emitted[a] + l <= done[a] + x + y /\ done[a] + x + y <= Total(a)
    BY <2>3, <2>4 DEF l, x, y
  <2>7. emitted[a] + l <= Total(a) /\ emitted[a] <= done[a] + 2 * MaxBatch
    <3>1. emitted[a] \in Nat /\ done[a] \in Nat /\ MaxBatch \in Nat /\ Total(a) \in Nat
      BY <2>2, <2>4
    <3> QED  BY <2>5, <2>6, <3>1
  <2>8. ASSUME ~orphaned  PROVE emitted[a] - done[a] \in 0..(2 * MaxBatch)
    BY <2>1, <2>2, <2>7, <2>8
  <2> QED  BY <2>7, <2>8 DEF l
<1> QED  BY <1>1, EmissionInvariance, PTL
-----------------------------------------------------------------------------
(***************************************************************************)
(* The end of a motion                                                     *)
(***************************************************************************)
\* Behind the first batches, `active' is only cleared together with an abort, or
\* by a stop that will mark one.
StopsAbort ==
  (pc = "second" \/ Looping) /\ ~active => aborted \/ stop = "halted"

\* What a motion leaves behind that has not been aborted.
Quiet == \A a \in Axes : emitted[a] + LoadOf(motion, fifo[a]) = 0
AtTarget ==
  /\ position = target
  /\ ~orphaned => \A a \in Axes : emitted[a] = Total(a) /\ fifo[a] = <<>>

EndInv == EmissionInv /\ StopsAbort /\ EndsAtTarget

\* An axis whose steps are all counted has nothing left in its buffers, and nothing
\* in the driver.
LEMMA AxisDone ==
  ASSUME QueueInv, Looping, NEW a \in Axes, done[a] >= Total(a)
  PROVE  /\ position[a] = target[a]
         /\ ~orphaned => emitted[a] = Total(a) /\ fifo[a] = <<>>
<1>1. /\ PlanTypes /\ done[a] \in Nat /\ batch[a][0] \in Nat /\ batch[a][1] \in Nat
      /\ ping[a] \in {0, 1} /\ fifo[a] \in Seq(Batch)
  <2>1. PlanTypes /\ done[a] \in Nat /\ ping[a] \in {0, 1} /\ fifo[a] \in Seq(Batch)
    BY DEF QueueInv, QueueTypes, PlanInv, PlanTypes, Buffers
  <2>2. batch[a][0] \in 0..MaxBatch /\ batch[a][1] \in 0..MaxBatch
    BY DEF QueueInv, PlanInv, PlanTypes, Buffers
  <2> QED  BY <2>1, <2>2, SlewConstants
<1>2. Total(a) \in Nat /\ target[a] = start[a] + Sign(a) * Total(a)
  BY <1>1, Distance
<1>3. /\ position[a] = start[a] + Sign(a) * done[a]
      /\ done[a] + batch[a][0] + batch[a][1] <= Total(a)
  BY DEF QueueInv, PlanInv, PlanFits
<1>4. done[a] = Total(a) /\ batch[a][0] = 0 /\ batch[a][1] = 0
  BY <1>1, <1>2, <1>3
<1>5. position[a] = target[a]
  BY <1>2, <1>3, <1>4
<1>6. ASSUME ~orphaned  PROVE emitted[a] = Total(a) /\ fifo[a] = <<>>
  <2>1. Front(a) = 0
    BY <1>1, <1>4 DEF Front
  <2>2. InOrder(a)
    BY <1>6 DEF QueueInv, Accounts
  <2>3. Len(fifo[a]) = 0 /\ emitted[a] = done[a]
    BY <2>1, <2>2 DEF InOrder
  <2>4. fifo[a] = <<>>
    BY <1>1, <2>3, EmptySeq
  <2> QED  BY <1>4, <2>3, <2>4
<1> QED  BY <1>5, <1>6

\* An axis that is at its target has all of its steps counted.
LEMMA TargetIsDone ==
  ASSUME QueueInv, NEW a \in Axes, position[a] = target[a]
  PROVE  done[a] >= Total(a)
<1>1. PlanTypes /\ done[a] \in Nat /\ start[a] \in Int
  BY DEF QueueInv, PlanInv, PlanTypes
<1>2. /\ Sign(a) \in {1, -1} /\ Total(a) \in Nat
      /\ target[a] = start[a] + Sign(a) * Total(a)
  BY <1>1, Distance
<1>3. position[a] = start[a] + Sign(a) * done[a]
  BY DEF QueueInv, PlanInv, PlanFits
<1>4. CASE Sign(a) = 1
  BY <1>1, <1>2, <1>3, <1>4
<1>5. CASE Sign(a) = -1
  BY <1>1, <1>2, <1>3, <1>5
<1> QED  BY <1>2, <1>4, <1>5

LEMMA ConditionsEnd == ASSUME EndInv, Conditions PROVE StopsAbort' /\ EndsAtTarget'
<1>1. QueueInv /\ Looping /\ pc = "check"
  BY DEF EndInv, EmissionInv, Conditions, Looping
<1>2. UNCHANGED <<progress, driver, history, plan, error, stop>>
  BY DEF Conditions, GiveUp, Goto, control
<1>3. CASE error
  BY <1>3 DEF Conditions, GiveUp, Goto, StopsAbort, EndsAtTarget, Looping
<1>4. CASE ~error /\ (position = target \/ \A a \in Axes : done[a] >= Total(a))
  <2>1. \A a \in Axes : done[a] >= Total(a)
    BY <1>1, <1>4, TargetIsDone
  <2>2. \A a \in Axes : position[a] = target[a]
    BY <1>1, <2>1, AxisDone
  <2>3. position = target
    <3>1. position \in [Axes -> Int] /\ target \in [Axes -> Int]
      BY <1>1 DEF QueueInv, PlanInv, PlanTypes
    <3> QED  BY <2>2, <3>1
  <2>4. AtTarget
    BY <1>1, <2>1, <2>3, AxisDone DEF AtTarget
  <2>5. AtTarget'
    BY <1>2, <2>4 DEF AtTarget, progress, driver, history, plan, Total, Sign
  <2>6. pc' = "exit"
    BY <1>4 DEF Conditions, Goto
  <2> QED  BY <2>5, <2>6 DEF AtTarget, EndsAtTarget, StopsAbort, Looping
<1>5. CASE ~error /\ ~(position = target \/ \A a \in Axes : done[a] >= Total(a))
  <2>1. UNCHANGED control /\ pc' = IF active THEN "loop" ELSE "exit"
    BY <1>5 DEF Conditions, Goto
  <2>2. ~active => aborted \/ stop = "halted"
    BY <1>1 DEF EndInv, StopsAbort
  <2> QED  BY <2>1, <2>2 DEF control, StopsAbort, EndsAtTarget, Looping
<1> QED  BY <1>3, <1>4, <1>5

\* The one other way out that is not an abort: a stop before the first batches.
LEMMA FirstEnd == ASSUME EndInv, FirstBatches PROVE StopsAbort' /\ EndsAtTarget'
<1>1. pc = "first" /\ UNCHANGED <<position, done, ping, emitted, history>>
  BY DEF FirstBatches
<1>2. CASE active
  BY <1>1, <1>2 DEF FirstBatches, GiveUp, Goto, control, StopsAbort, EndsAtTarget, Looping
<1>3. CASE ~active
  <2>1. pc' = "exit" /\ UNCHANGED <<control, fifo, motion, emitted>>
    BY <1>1, <1>3 DEF FirstBatches, Goto, history
  <2>2. Quiet
    <3> SUFFICES ASSUME NEW a \in Axes  PROVE emitted[a] + LoadOf(motion, fifo[a]) = 0
      BY DEF Quiet
    <3>1. done[a] = 0 /\ batch[a][0] = 0 /\ batch[a][1] = 0
      BY <1>1 DEF EndInv, EmissionInv, QueueInv, PlanInv, FreshStart
    <3>2. emitted[a] + LoadOf(motion, fifo[a]) <= 0
      BY <3>1 DEF EndInv, EmissionInv, Emission, Spent
    <3>3. emitted[a] \in Nat /\ fifo[a] \in Seq(Batch) /\ Len(fifo[a]) <= 4
      BY DEF EndInv, EmissionInv, QueueInv, QueueTypes, QueueDepth
    <3>4. LoadOf(motion, fifo[a]) \in Nat
      BY <3>3, LoadOfIsNat
    <3> QED  BY <3>2, <3>3, <3>4
  <2>3. Quiet'
    BY <2>1, <2>2 DEF Quiet
  <2> QED  BY <2>1, <2>3 DEF Quiet, EndsAtTarget, StopsAbort, Looping
<1> QED  BY <1>2, <1>3

\* What the driver still emits is not of this motion.
LEMMA CompleteEnd ==
  ASSUME EndInv, NEW c \in Axes, Complete(c)
  PROVE  StopsAbort' /\ EndsAtTarget'
<1>1. UNCHANGED <<control, pc, plan, progress, history>> /\ fifo[c] # <<>>
  BY DEF Complete
<1>2. StopsAbort'
  BY <1>1 DEF EndInv, StopsAbort, control, Looping
<1>3. ASSUME pc = "exit", ~aborted, stop = "idle"  PROVE AtTarget' \/ Quiet'
  <2>1. CASE AtTarget
    <3>1. orphaned
      BY <1>1, <2>1 DEF AtTarget
    <3> QED  BY <1>1, <2>1, <3>1 DEF AtTarget, plan, progress, history
  <2>2. CASE Quiet
    <3>1. ASSUME NEW a \in Axes
          PROVE  emitted'[a] + LoadOf(motion, fifo'[a]) = emitted[a] + LoadOf(motion, fifo[a])
      <4>1. CASE a = c
        BY <4>1, CompletedBatch DEF EndInv, EmissionInv
      <4>2. CASE a # c
        BY <4>2 DEF Complete, EndInv, EmissionInv, QueueInv, QueueTypes
      <4> QED  BY <4>1, <4>2
    <3> QED  BY <1>1, <2>2, <3>1 DEF Quiet, history
  <2> QED  BY <1>3, <2>1, <2>2 DEF EndInv, EndsAtTarget, AtTarget, Quiet
<1>4. EndsAtTarget'
  BY <1>1, <1>3 DEF EndsAtTarget, AtTarget, Quiet, control
<1> QED  BY <1>2, <1>4

LEMMA EndStep == EndInv /\ [Next]_vars => EndInv'
<1> SUFFICES ASSUME EndInv, [Next]_vars
             PROVE  StopsAbort' /\ EndsAtTarget'
  BY EmissionStep DEF EndInv
<1> USE DEF EndInv
<1>1. ASSUME NEW k, NEW t, Accept(k, t)  PROVE StopsAbort' /\ EndsAtTarget'
  BY <1>1 DEF Accept, StopsAbort, EndsAtTarget, Looping
<1>2. CASE Enter \/ Exit
  BY <1>2 DEF Enter, Exit, Goto, StopsAbort, EndsAtTarget, Looping
<1>3. CASE SecondBatches
  BY <1>3 DEF SecondBatches, Goto, GiveUp, control, StopsAbort, EndsAtTarget, Looping
<1>4. CASE Loop \/ Preempt
  BY <1>4 DEF Loop, Preempt, Goto, GiveUp, control, StopsAbort, EndsAtTarget, Looping
<1>5. ASSUME NEW a \in Axes, NotDone(a)  PROVE StopsAbort' /\ EndsAtTarget'
  <2>1. pc = a /\ pc' \in {"DEC", "check"} /\ UNCHANGED control /\ a \in {"RA", "DEC"}
    BY <1>5 DEF NotDone, Goto, After, Axes
  <2> QED  BY <2>1 DEF control, StopsAbort, EndsAtTarget, Looping
<1>6. ASSUME NEW a \in Axes, Count(a)  PROVE StopsAbort' /\ EndsAtTarget'
  <2>1. Looping /\ pc = a /\ a \in {"RA", "DEC"}
    BY <1>6 DEF Count, Axes, Looping
  <2>2. \/ ~active /\ pc' = "exit" /\ UNCHANGED control
        \/ active /\ pc' \in {"DEC", "check"} /\ UNCHANGED control
        \/ pc' = "exit" /\ aborted' = TRUE
    BY <1>6 DEF Count, Goto, GiveUp, After
  <2> QED  BY <2>1, <2>2 DEF control, StopsAbort, EndsAtTarget, Looping
<1>7. CASE Halt \/ MarkAborted
  BY <1>7 DEF Halt, MarkAborted, StopsAbort, EndsAtTarget, Looping
<1>8. ASSUME UNCHANGED <<active, aborted, stop, pc, plan, progress, driver, history>>
      PROVE  StopsAbort' /\ EndsAtTarget'
  <2>1. StopsAbort'
    BY <1>8 DEF StopsAbort, Looping
  <2>2. (AtTarget => AtTarget') /\ (Quiet => Quiet')
    BY <1>8 DEF AtTarget, Quiet, plan, progress, driver, history, Total, Sign
  <2>3. EndsAtTarget'
    BY <1>8, <2>2 DEF EndsAtTarget, AtTarget, Quiet
  <2> QED  BY <2>1, <2>3
<1>9. CASE MotorError \/ MotorRestored \/ UNCHANGED vars
  BY <1>8, <1>9 DEF MotorError, MotorRestored, vars, control
<1> QED
  BY <1>1, <1>2, <1>3, <1>4, <1>5, <1>6, <1>7, <1>9, ConditionsEnd, FirstEnd, CompleteEnd
  DEF Next, MotionTask, Slew, MoveAxis

\* For every length of the motions and of the batches: a motion that leaves the
\* loop without being aborted is complete on both axes, its steps counted, emitted
\* and none of them left in the driver; only a STOP before the first batches ends
\* one short of its target without an abort, and then no step of it is emitted.
THEOREM CompleteMotions == Spec => []EndsAtTarget
<1>1. Init => EndInv
  <2> SUFFICES ASSUME Init  PROVE EndInv
    OBVIOUS
  <2> QED  BY EmissionInit DEF Init, EndInv, StopsAbort, EndsAtTarget, Looping
<1>2. EndInv => EndsAtTarget
  BY DEF EndInv
<1> QED  BY <1>1, <1>2, EndStep, PTL DEF Spec
=============================================================================
