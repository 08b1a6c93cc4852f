------------------------- MODULE SlewPipelineProofs -------------------------
(***************************************************************************)
(* For every batch size, every limit and any number of motions: the slewing*)
(* loop never plans or counts more steps than the motion has, and what it  *)
(* counts is an execution of Traverse.                                     *)
(*                                                                         *)
(* The invariant is PlanFits with the state of the two buffers at the start*)
(* of a motion.  It needs nothing of the RMT driver or of the stopping     *)
(* task: a batch is only counted or refilled by the motion task, so a STOP *)
(* between any two steps cannot disturb it.                                *)
(***************************************************************************)
EXTENDS SlewPipeline, TLAPS

\* The types of the variables the plan is made of.
PlanTypes ==
  /\ position \in [Axes -> Int]
  /\ start \in [Axes -> Int]
  /\ target \in [Axes -> Int]
  /\ done \in [Axes -> Nat]
  /\ batch \in [Axes -> [Buffers -> 0..MaxBatch]]
  /\ ping \in [Axes -> Buffers]

\* A motion starts with empty buffers and fills them in order.
FreshStart ==
  /\ pc \in {"enter", "first"} =>
       \A a \in Axes : done[a] = 0 /\ batch[a][0] = 0 /\ batch[a][1] = 0
  /\ pc = "second" => \A a \in Axes : done[a] = 0 /\ batch[a][1] = 0

PlanInv == PlanTypes /\ PlanFits /\ FreshStart

-----------------------------------------------------------------------------
\* The distance of a motion is a number of steps, in the direction of its sign.
LEMMA Distance ==
  ASSUME PlanTypes, NEW a \in Axes
  PROVE  /\ Sign(a) \in {1, -1}
         /\ Total(a) \in Nat
         /\ target[a] = start[a] + Sign(a) * Total(a)
<1>1. start[a] \in Int /\ target[a] \in Int
  BY DEF PlanTypes
<1>2. CASE target[a] > start[a]
  BY <1>1, <1>2 DEF Sign, Total
<1>3. CASE ~(target[a] > start[a])
  BY <1>1, <1>3 DEF Sign, Total
<1> QED
  BY <1>2, <1>3

\* What the loop plans next is a batch, and fits what the motion has left.
LEMMA NextBatchFits ==
  ASSUME PlanTypes, NEW a \in Axes, NEW at \in Int, NEW d \in Nat,
         NEW ahead \in Nat, NEW n \in 1..MaxBatch, d + ahead <= Total(a)
  PROVE  /\ NextBatch(a, at, d, ahead, n) \in 0..MaxBatch
         /\ d + ahead + NextBatch(a, at, d, ahead, n) <= Total(a)
<1>1. Total(a) \in Nat /\ Sign(a) \in {1, -1}
  BY Distance
<1>2. Lo[a] \in Int /\ Hi[a] \in Int /\ MaxBatch \in Nat
  BY SlewConstants
<1> DEFINE p == at + Sign(a) * ahead
           left == Smaller(n, Total(a) - d - ahead)
<1>3. left \in 0..MaxBatch /\ d + ahead + left <= Total(a)
  BY <1>1, <1>2 DEF Smaller
<1>4. p \in Int
  BY <1>1
<1>5. NextBatch(a, at, d, ahead, n) = ClampBatch(a, p, left)
  BY DEF NextBatch
<1> HIDE DEF p, left
<1>6. ClampBatch(a, p, left) \in 0..left
  BY <1>1, <1>2, <1>3, <1>4 DEF ClampBatch, Smaller
<1> QED
  BY <1>1, <1>2, <1>3, <1>5, <1>6

-----------------------------------------------------------------------------
\* While a motion lasts its direction and its distance are fixed.
LEMMA PlanKept ==
  ASSUME UNCHANGED plan
  PROVE  \A a \in Axes : Sign(a)' = Sign(a) /\ Total(a)' = Total(a)
  BY DEF plan, Sign, Total

\* A step that leaves the plan, the counts and the buffers alone, and does not
\* enter the start of a motion, keeps the invariant.
LEMMA BystanderStep ==
  ASSUME PlanInv, UNCHANGED <<plan, progress>>,
         pc' \notin {"enter", "first", "second"} \/ pc' = pc
            \/ (pc = "enter" /\ pc' = "first")
  PROVE  PlanInv'
<1>1. PlanTypes'
  BY DEF PlanInv, PlanTypes, plan, progress
<1>2. PlanFits'
  BY PlanKept DEF PlanInv, PlanFits, progress, plan
<1>3. FreshStart'
  BY DEF PlanInv, FreshStart, progress
<1> QED
  BY <1>1, <1>2, <1>3 DEF PlanInv

LEMMA PlanInit == Init => PlanInv
<1> SUFFICES ASSUME Init  PROVE PlanInv
  OBVIOUS
<1>1. Home \in [Axes -> Int] /\ MaxBatch \in Nat
  BY SlewConstants
<1>2. PlanTypes
  BY <1>1 DEF Init, PlanTypes, Buffers
<1>3. PlanFits
  <2> SUFFICES ASSUME NEW a \in Axes
               PROVE  /\ position[a] = start[a] + Sign(a) * done[a]
                      /\ done[a] + batch[a][0] + batch[a][1] <= Total(a)
    BY DEF PlanFits
  <2>1. Total(a) \in Nat /\ Sign(a) \in {1, -1}
    BY <1>2, Distance
  <2>2. position[a] = start[a] /\ position[a] \in Int /\ done[a] = 0
    BY <1>1 DEF Init
  <2>3. batch[a][0] = 0 /\ batch[a][1] = 0
    BY DEF Init, Buffers
  <2> QED
    BY <2>1, <2>2, <2>3
<1>4. FreshStart
  BY DEF Init, FreshStart
<1> QED
  BY <1>2, <1>3, <1>4 DEF PlanInv

\* A command that is accepted starts a motion from the counted position.
LEMMA AcceptStep ==
  ASSUME PlanInv, NEW k, NEW t \in [Axes -> Int], Accept(k, t)
  PROVE  PlanInv'
<1>1. position \in [Axes -> Int] /\ MaxBatch \in Nat
  BY SlewConstants DEF PlanInv, PlanTypes
<1>2. PlanTypes'
  BY <1>1 DEF Accept, PlanTypes, Buffers
<1>3. PlanFits'
  <2> SUFFICES ASSUME NEW a \in Axes
               PROVE  /\ position'[a] = start'[a] + Sign(a)' * done'[a]
                      /\ done'[a] + batch'[a][0] + batch'[a][1] <= Total(a)'
    BY DEF PlanFits
  <2>1. done'[a] = 0 /\ batch'[a][0] = 0 /\ batch'[a][1] = 0
    BY DEF Accept, Buffers
  <2>2. position'[a] = start'[a] /\ start'[a] \in Int /\ target'[a] \in Int
    BY <1>1 DEF Accept
  <2>3. Sign(a)' \in {1, -1} /\ Total(a)' \in Nat
    BY <2>2 DEF Sign, Total
  <2> QED
    BY <2>1, <2>2, <2>3
<1>4. FreshStart'
  BY DEF Accept, FreshStart, Buffers
<1> QED
  BY <1>2, <1>3, <1>4 DEF PlanInv

LEMMA FirstStep ==
  ASSUME PlanInv, FirstBatches
  PROVE  PlanInv'
<1> PICK n \in [Axes -> 1..MaxBatch] :
      batch' = [a \in Axes |->
        [batch[a] EXCEPT ![0] = NextBatch(a, position[a], 0, 0, n[a])]]
  BY DEF FirstBatches
<1>1. /\ UNCHANGED <<plan, position, done, ping>> /\ pc = "first"
      /\ pc' \notin {"enter", "first"}
  BY DEF FirstBatches, Goto, GiveUp
<1>2. \A a \in Axes : done[a] = 0 /\ batch[a][0] = 0 /\ batch[a][1] = 0
  BY <1>1 DEF PlanInv, FreshStart
<1>3. \A a \in Axes :
        /\ position[a] \in Int
        /\ Total(a) \in Nat
        /\ NextBatch(a, position[a], 0, 0, n[a]) \in 0..MaxBatch
        /\ NextBatch(a, position[a], 0, 0, n[a]) <= Total(a)
  <2> TAKE a \in Axes
  <2>1. position[a] \in Int /\ Total(a) \in Nat /\ n[a] \in 1..MaxBatch
    BY Distance DEF PlanInv, PlanTypes
  <2>2. 0 + 0 <= Total(a)
    BY <2>1
  <2>3. 0 + 0 + NextBatch(a, position[a], 0, 0, n[a]) <= Total(a)
        /\ NextBatch(a, position[a], 0, 0, n[a]) \in 0..MaxBatch
    BY <2>1, <2>2, NextBatchFits DEF PlanInv
  <2>4. MaxBatch \in Nat
    BY SlewConstants
  <2> QED
    BY <2>1, <2>3, <2>4
<1>4. \A a \in Axes :
        /\ batch'[a] \in [Buffers -> 0..MaxBatch]
        /\ batch'[a][0] = NextBatch(a, position[a], 0, 0, n[a])
        /\ batch'[a][1] = 0
  BY <1>2, <1>3 DEF PlanInv, PlanTypes, Buffers
<1>5. PlanTypes'
  <2>1. batch' \in [Axes -> [Buffers -> 0..MaxBatch]]
    BY <1>4
  <2> QED
    BY <1>1, <2>1 DEF PlanInv, PlanTypes, plan
<1>6. PlanFits'
  <2> SUFFICES ASSUME NEW a \in Axes
               PROVE  /\ position'[a] = start'[a] + Sign(a)' * done'[a]
                      /\ done'[a] + batch'[a][0] + batch'[a][1] <= Total(a)'
    BY DEF PlanFits
  <2>1. Sign(a)' = Sign(a) /\ Total(a)' = Total(a)
    BY <1>1, PlanKept
  <2>2. position[a] = start[a] + Sign(a) * done[a]
    BY DEF PlanInv, PlanFits
  <2>3. 0 + batch'[a][0] + 0 <= Total(a)
    BY <1>3, <1>4, SlewConstants
  <2> QED
    BY <1>1, <1>2, <1>4, <2>1, <2>2, <2>3 DEF plan
<1>7. FreshStart'
  BY <1>1, <1>2, <1>4 DEF FreshStart
<1> QED
  BY <1>5, <1>6, <1>7 DEF PlanInv

LEMMA SecondStep ==
  ASSUME PlanInv, SecondBatches
  PROVE  PlanInv'
<1> PICK n \in [Axes -> 1..MaxBatch] :
      batch' = [a \in Axes |->
        [batch[a] EXCEPT ![1] = NextBatch(a, position[a], 0, batch[a][0], n[a])]]
  BY DEF SecondBatches
<1> DEFINE size(a) == NextBatch(a, position[a], 0, batch[a][0], n[a])
<1>1. /\ UNCHANGED <<plan, position, done, ping>> /\ pc = "second"
      /\ pc' \notin {"enter", "first", "second"}
  BY DEF SecondBatches, Goto, GiveUp
<1>2. \A a \in Axes : done[a] = 0 /\ batch[a][0] \in 0..MaxBatch
                      /\ batch[a][0] <= Total(a)
  <2> TAKE a \in Axes
  <2>1. done[a] = 0 /\ batch[a][1] = 0
    BY <1>1 DEF PlanInv, FreshStart
  <2>2. batch[a][0] \in 0..MaxBatch /\ MaxBatch \in Nat
    BY SlewConstants DEF PlanInv, PlanTypes, Buffers
  <2>3. done[a] + batch[a][0] + batch[a][1] <= Total(a)
    BY DEF PlanInv, PlanFits
  <2> QED
    BY <2>1, <2>2, <2>3
<1>3. \A a \in Axes : size(a) \in 0..MaxBatch
                      /\ batch[a][0] + size(a) <= Total(a)
  <2> TAKE a \in Axes
  <2>1. position[a] \in Int /\ n[a] \in 1..MaxBatch /\ Total(a) \in Nat
    BY Distance DEF PlanInv, PlanTypes
  <2>2. batch[a][0] \in Nat /\ MaxBatch \in Nat
    BY <1>2, SlewConstants
  <2>3. 0 + batch[a][0] <= Total(a)
    BY <1>2, <2>2
  <2>4. size(a) \in 0..MaxBatch /\ 0 + batch[a][0] + size(a) <= Total(a)
    BY <2>1, <2>2, <2>3, NextBatchFits DEF PlanInv
  <2> QED
    BY <2>2, <2>4
<1>4. \A a \in Axes :
        /\ batch'[a] \in [Buffers -> 0..MaxBatch]
        /\ batch'[a][0] = batch[a][0]
        /\ batch'[a][1] = size(a)
  BY <1>2, <1>3 DEF PlanInv, PlanTypes, Buffers
<1> HIDE DEF size
<1>5. PlanTypes'
  <2>1. batch' \in [Axes -> [Buffers -> 0..MaxBatch]]
    BY <1>4
  <2> QED
    BY <1>1, <2>1 DEF PlanInv, PlanTypes, plan
<1>6. PlanFits'
  <2> SUFFICES ASSUME NEW a \in Axes
               PROVE  /\ position'[a] = start'[a] + Sign(a)' * done'[a]
                      /\ done'[a] + batch'[a][0] + batch'[a][1] <= Total(a)'
    BY DEF PlanFits
  <2>1. Sign(a)' = Sign(a) /\ Total(a)' = Total(a)
    BY <1>1, PlanKept
  <2>2. position[a] = start[a] + Sign(a) * done[a]
    BY DEF PlanInv, PlanFits
  <2>3. 0 + batch'[a][0] + batch'[a][1] <= Total(a)
    BY <1>2, <1>3, <1>4, SlewConstants
  <2> QED
    BY <1>1, <1>2, <2>1, <2>2, <2>3 DEF plan
<1>7. FreshStart'
  BY <1>1 DEF FreshStart
<1> QED
  BY <1>5, <1>6, <1>7 DEF PlanInv

\* What Count does to the axis whose batch is complete: the batch is counted
\* inside the motion, and the refill fits what is left.
LEMMA CountedBatch ==
  ASSUME PlanInv, NEW a \in Axes, NEW n \in 1..MaxBatch
  PROVE  LET b == ping[a]
             at == position[a] + Sign(a) * batch[a][b]
             d == done[a] + batch[a][b]
             size == NextBatch(a, at, d, batch[a][Pong(a)], n)
         IN  /\ at \in Int /\ d \in Nat
             /\ at = start[a] + Sign(a) * d
             /\ size \in 0..MaxBatch
             /\ d + batch[a][Pong(a)] + size <= Total(a)
             /\ Counted!Toward(position[a], at, target[a])
<1> DEFINE b == ping[a]
           p == batch[a][b]
           q == batch[a][Pong(a)]
           at == position[a] + Sign(a) * p
           d == done[a] + p
           size == NextBatch(a, at, d, q, n)
<1>1. /\ Total(a) \in Nat /\ Sign(a) \in {1, -1}
      /\ target[a] = start[a] + Sign(a) * Total(a)
  BY Distance DEF PlanInv
<1>2. MaxBatch \in Nat
  BY SlewConstants
<1>3. /\ position[a] \in Int /\ start[a] \in Int /\ done[a] \in Nat
      /\ b \in {0, 1} /\ Pong(a) \in {0, 1} /\ Pong(a) # b
      /\ p \in 0..MaxBatch /\ q \in 0..MaxBatch
  BY DEF PlanInv, PlanTypes, Buffers, Pong
<1>4. /\ position[a] = start[a] + Sign(a) * done[a]
      /\ done[a] + p + q <= Total(a)
  <2>1. /\ position[a] = start[a] + Sign(a) * done[a]
        /\ done[a] + batch[a][0] + batch[a][1] <= Total(a)
    BY DEF PlanInv, PlanFits
  <2>2. CASE b = 0
    BY <1>2, <1>3, <2>1, <2>2 DEF Pong
  <2>3. CASE b = 1
    BY <1>2, <1>3, <2>1, <2>3 DEF Pong
  <2> QED
    BY <1>3, <2>2, <2>3
<1> HIDE DEF b, p, q
<1>5. at \in Int /\ d \in Nat /\ d + q <= Total(a) /\ q \in Nat
  BY <1>1, <1>2, <1>3, <1>4
<1>6. at = start[a] + Sign(a) * d
  BY <1>1, <1>2, <1>3, <1>4
<1>7. Counted!Toward(position[a], at, target[a])
  <2>1. CASE Sign(a) = 1
    BY <1>1, <1>2, <1>3, <1>4, <2>1 DEF Counted!Toward
  <2>2. CASE Sign(a) = -1
    BY <1>1, <1>2, <1>3, <1>4, <2>2 DEF Counted!Toward
  <2> QED
    BY <1>1, <2>1, <2>2
<1>8. size \in 0..MaxBatch /\ d + q + size <= Total(a)
  <2> HIDE DEF at, d
  <2> QED
    BY <1>5, NextBatchFits DEF PlanInv
<1> QED
  BY <1>5, <1>6, <1>7, <1>8 DEF b, p, q

LEMMA CountStep ==
  ASSUME PlanInv, NEW a \in Axes, Count(a)
  PROVE  PlanInv' /\ (UNCHANGED position \/ Counted!Advance)
<1>1. UNCHANGED plan /\ pc = a /\ pc' \notin {"enter", "first", "second", "wait"}
  BY DEF Count, Goto, GiveUp, After, Axes
<1>2. CASE ~active
  <2>1. UNCHANGED <<plan, progress>>
    BY <1>1, <1>2 DEF Count
  <2>2. PlanInv'
    BY <1>1, <2>1, BystanderStep
  <2> QED
    BY <2>1, <2>2 DEF progress
<1>3. CASE active
  <2> DEFINE b == ping[a]
             at == position[a] + Sign(a) * batch[a][b]
             d == done[a] + batch[a][b]
             size(n) == NextBatch(a, at, d, batch[a][Pong(a)], n)
  <2>1. PICK n \in 1..MaxBatch :
          /\ position' = [position EXCEPT ![a] = at]
          /\ done' = [done EXCEPT ![a] = d]
          /\ batch' = [batch EXCEPT ![a][b] = size(n)]
          /\ ping' = [ping EXCEPT ![a] = Pong(a)] \/ UNCHANGED ping
    BY <1>3 DEF Count
  <2>2. /\ at \in Int /\ d \in Nat
        /\ at = start[a] + Sign(a) * d
        /\ size(n) \in 0..MaxBatch
        /\ d + batch[a][Pong(a)] + size(n) <= Total(a)
        /\ Counted!Toward(position[a], at, target[a])
    BY CountedBatch
  <2>3. b \in {0, 1} /\ Pong(a) = 1 - b
    BY DEF PlanInv, PlanTypes, Buffers, Pong
  <2> HIDE DEF at, d, size, b
  <2>4. \A c \in Axes :
          /\ position'[c] = IF c = a THEN at ELSE position[c]
          /\ done'[c] = IF c = a THEN d ELSE done[c]
          /\ c # a => batch'[c] = batch[c]
          /\ c = a => batch'[c][b] = size(n)
                      /\ batch'[c][1 - b] = batch[a][1 - b]
    BY <2>1, <2>3 DEF PlanInv, PlanTypes, Buffers
  <2>5. PlanTypes'
    <3>1. position' \in [Axes -> Int] /\ done' \in [Axes -> Nat]
      BY <2>1, <2>2 DEF PlanInv, PlanTypes
    <3>2. batch' \in [Axes -> [Buffers -> 0..MaxBatch]]
      BY <2>1, <2>2, <2>3 DEF PlanInv, PlanTypes, Buffers
    <3>3. ping' \in [Axes -> Buffers]
      BY <2>1, <2>3 DEF PlanInv, PlanTypes, Buffers
    <3> QED
      BY <1>1, <3>1, <3>2, <3>3 DEF PlanInv, PlanTypes, plan
  <2>6. PlanFits'
    <3> SUFFICES ASSUME NEW c \in Axes
                 PROVE  /\ position'[c] = start'[c] + Sign(c)' * done'[c]
                        /\ done'[c] + batch'[c][0] + batch'[c][1] <= Total(c)'
      BY DEF PlanFits
    <3>1. Sign(c)' = Sign(c) /\ Total(c)' = Total(c) /\ start' = start
      BY <1>1, PlanKept DEF plan
    <3>2. CASE c # a
      <4>1. /\ position[c] = start[c] + Sign(c) * done[c]
            /\ done[c] + batch[c][0] + batch[c][1] <= Total(c)
        BY DEF PlanInv, PlanFits
      <4> QED
        BY <2>4, <3>1, <3>2, <4>1
    <3>3. CASE c = a
      <4>1. position'[c] = at /\ done'[c] = d
            /\ batch'[c][b] = size(n) /\ batch'[c][1 - b] = batch[a][1 - b]
        BY <2>4, <3>3
      <4>2. d + batch'[c][1 - b] + batch'[c][b] <= Total(c)
        BY <2>2, <2>3, <3>3, <4>1
      <4>3. batch'[c][0] \in Nat /\ batch'[c][1] \in Nat
        BY <2>5, SlewConstants DEF PlanTypes, Buffers
      <4>4. d + batch'[c][0] + batch'[c][1] <= Total(c)
        <5>1. CASE b = 0
          BY <2>2, <4>2, <4>3, <5>1
        <5>2. CASE b = 1
          BY <2>2, <4>2, <4>3, <5>2
        <5> QED
          BY <2>3, <5>1, <5>2
      <4> QED
        BY <2>2, <3>1, <3>3, <4>1, <4>4
    <3> QED
      BY <3>2, <3>3
  <2>7. FreshStart'
    BY <1>1 DEF FreshStart
  <2>8. Counted!Advance
    <3>1. \A c \in Axes : Counted!Toward(position[c], position'[c], target[c])
      <4> SUFFICES ASSUME NEW c \in Axes
                   PROVE  Counted!Toward(position[c], position'[c], target[c])
        OBVIOUS
      <4>1. CASE c = a
        BY <2>2, <2>4, <4>1
      <4>2. CASE c # a
        <5>1. position'[c] = position[c]
          BY <2>4, <4>2
        <5>2. position[c] = start[c] + Sign(c) * done[c]
              /\ done[c] + batch[c][0] + batch[c][1] <= Total(c)
          BY DEF PlanInv, PlanFits
        <5>3. Total(c) \in Nat /\ Sign(c) \in {1, -1}
              /\ target[c] = start[c] + Sign(c) * Total(c)
          BY Distance DEF PlanInv
        <5>4. /\ position[c] \in Int /\ start[c] \in Int /\ done[c] \in Nat
              /\ batch[c][0] \in Nat /\ batch[c][1] \in Nat /\ MaxBatch \in Nat
          BY SlewConstants DEF PlanInv, PlanTypes, Buffers
        <5>5. CASE Sign(c) = 1
          BY <5>1, <5>2, <5>3, <5>4, <5>5 DEF Counted!Toward
        <5>6. CASE Sign(c) = -1
          BY <5>1, <5>2, <5>3, <5>4, <5>6 DEF Counted!Toward
        <5> QED
          BY <5>3, <5>5, <5>6
      <4> QED
        BY <4>1, <4>2
    <3> QED
      BY <1>1, <3>1 DEF Counted!Advance, Counted!Toward, plan, Axes
  <2> QED
    BY <2>5, <2>6, <2>7, <2>8 DEF PlanInv
<1> QED
  BY <1>2, <1>3

-----------------------------------------------------------------------------
LEMMA PlanStep == PlanInv /\ [Next]_vars => PlanInv'
<1> SUFFICES ASSUME PlanInv, [Next]_vars
             PROVE  PlanInv'
  OBVIOUS
<1>1. ASSUME NEW goal \in Goals, Slew(goal)
      PROVE  PlanInv'
  <2>1. [a \in Axes |-> ClampSteps(a, goal[a])] \in [Axes -> Int]
    BY SlewConstants DEF ClampSteps, Smaller
  <2> QED
    BY <1>1, <2>1, AcceptStep DEF Slew
<1>2. ASSUME NEW dir \in Directions, MoveAxis(dir)
      PROVE  PlanInv'
  <2>1. [a \in Axes |-> CASE dir[a] = 1 -> Hi[a]
                          [] dir[a] = -1 -> Lo[a]
                          [] dir[a] = 0 -> position[a]] \in [Axes -> Int]
    <3>1. dir \in [Axes -> {-1, 0, 1}] /\ Lo \in [Axes -> Int]
          /\ Hi \in [Axes -> Int] /\ position \in [Axes -> Int]
      BY SlewConstants DEF PlanInv, PlanTypes
    <3> QED
      BY <3>1
  <2> QED
    BY <1>2, <2>1, AcceptStep DEF MoveAxis
<1>3. CASE FirstBatches
  BY <1>3, FirstStep
<1>4. CASE SecondBatches
  BY <1>4, SecondStep
<1>5. ASSUME NEW a \in Axes, Count(a)
      PROVE  PlanInv'
  BY <1>5, CountStep
<1>6. CASE Enter \/ Loop \/ Preempt \/ Conditions
  BY <1>6, BystanderStep DEF Enter, Loop, Preempt, Conditions, Goto, GiveUp
<1>7. CASE Exit
  BY <1>7, BystanderStep DEF Exit, Goto
<1>8. ASSUME NEW a \in Axes, NotDone(a) \/ Complete(a)
      PROVE  PlanInv'
  BY <1>8, BystanderStep DEF NotDone, Complete, Goto, After
<1>9. CASE Halt \/ MarkAborted \/ MotorError \/ MotorRestored
  BY <1>9, BystanderStep DEF Halt, MarkAborted, MotorError, MotorRestored
<1>10. CASE UNCHANGED vars
  BY <1>10, BystanderStep DEF vars
<1> QED
  BY <1>1, <1>2, <1>3, <1>4, <1>5, <1>6, <1>7, <1>8, <1>9, <1>10
  DEF Next, MotionTask

LEMMA PlanInvariance == Spec => []PlanInv
  BY PlanInit, PlanStep, PTL DEF Spec

\* The unsigned remainders `total - done - in flight' of the slewing loop never
\* wrap around, and the counted position is always the start of the motion plus
\* the steps done: for every batch size, limits and interruption.
THEOREM PlanAlwaysFits == Spec => []PlanFits
<1>1. PlanInv => PlanFits
  BY DEF PlanInv
<1> QED
  BY <1>1, PlanInvariance, PTL

\* The slewing loop implements Traverse: an axis is only counted toward the
\* destination fixed when the motion started, never past it, and by one batch at
\* a time.
THEOREM CountsAsTraverse == Spec => TraverseSpec
<1>1. Init => Counted!Init
  BY SlewConstants DEF Init, Counted!Init
<1>2. PlanInv /\ [Next]_vars => [Counted!Next]_(Counted!vars)
  <2> SUFFICES ASSUME PlanInv, [Next]_vars
               PROVE  Counted!Next \/ UNCHANGED Counted!vars
    OBVIOUS
  <2> USE DEF Counted!vars
  <2>1. ASSUME NEW k, NEW t \in [Axes -> Int], Accept(k, t)
        PROVE  Counted!Start
    BY <2>1 DEF Accept, Counted!Start
  <2>2. ASSUME NEW goal \in Goals, Slew(goal)
        PROVE  Counted!Start
    <3>1. [a \in Axes |-> ClampSteps(a, goal[a])] \in [Axes -> Int]
      BY SlewConstants DEF ClampSteps, Smaller
    <3> QED
      BY <2>1, <2>2, <3>1 DEF Slew
  <2>3. ASSUME NEW dir \in Directions, MoveAxis(dir)
        PROVE  Counted!Start
    <3>1. [a \in Axes |-> CASE dir[a] = 1 -> Hi[a]
                            [] dir[a] = -1 -> Lo[a]
                            [] dir[a] = 0 -> position[a]] \in [Axes -> Int]
      <4>1. dir \in [Axes -> {-1, 0, 1}] /\ Lo \in [Axes -> Int]
            /\ Hi \in [Axes -> Int] /\ position \in [Axes -> Int]
        BY SlewConstants DEF PlanInv, PlanTypes
      <4> QED
        BY <4>1
    <3> QED
      BY <2>1, <2>3, <3>1 DEF MoveAxis
  <2>4. CASE Enter \/ Exit
    <3>1. Counted!End \/ UNCHANGED Counted!vars
      <4>1. pc # "wait" /\ UNCHANGED <<position, target>>
        BY <2>4 DEF Enter, Exit, Goto, plan, progress
      <4> QED
        BY <4>1 DEF Counted!End
    <3> QED
      BY <3>1 DEF Counted!Next
  <2>5. CASE FirstBatches \/ SecondBatches \/ Loop \/ Preempt \/ Conditions
    BY <2>5 DEF FirstBatches, SecondBatches, Loop, Preempt, Conditions, Goto,
                GiveUp, plan, progress
  <2>6. ASSUME NEW a \in Axes, Count(a)
        PROVE  Counted!Next \/ UNCHANGED Counted!vars
    <3>1. UNCHANGED position \/ Counted!Advance
      BY <2>6, CountStep
    <3>2. target' = target /\ pc # "wait" /\ pc' # "wait"
      BY <2>6 DEF Count, Goto, GiveUp, After, Axes, plan
    <3> QED
      BY <3>1, <3>2 DEF Counted!Next
  <2>7. ASSUME NEW a \in Axes, NotDone(a)
        PROVE  UNCHANGED Counted!vars
    BY <2>7 DEF NotDone, Goto, After, plan, progress, Axes
  <2>8. ASSUME NEW a \in Axes, Complete(a)
        PROVE  UNCHANGED Counted!vars
    BY <2>8 DEF Complete, plan, progress
  <2>9. CASE Halt \/ MarkAborted \/ MotorError \/ MotorRestored
    BY <2>9 DEF Halt, MarkAborted, MotorError, MotorRestored, plan, progress
  <2>10. CASE UNCHANGED vars
    BY <2>10 DEF vars, plan, progress
  <2> QED
    BY <2>2, <2>3, <2>4, <2>5, <2>6, <2>7, <2>8, <2>9, <2>10
    DEF Next, MotionTask, Counted!Next
<1> QED
  BY <1>1, <1>2, PlanInvariance, PTL DEF Spec, TraverseSpec, Counted!Spec
=============================================================================
