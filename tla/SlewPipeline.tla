---------------------------- MODULE SlewPipeline ----------------------------
(***************************************************************************)
(* slewing_loop_rmt(): the double-buffered emission of a SLEW or MOVE_AXIS *)
(* and what a STOP, a newer setpoint, a motor error or an RMT failure      *)
(* leaves behind.                                                          *)
(*                                                                         *)
(* Each axis has two buffers.  The loop keeps one of them (ping) being     *)
(* emitted and the other (pong) queued behind it in the RMT driver, counts *)
(* a batch into the position when its completion is signalled, and refills *)
(* the buffer that is then free.  The RMT peripheral emits on its own, and *)
(* motors_motion_stop() runs on the other core.                            *)
(*                                                                         *)
(* The ramp only chooses how large a batch may be: any size up to the      *)
(* maximum.  Positions are in steps.  How a command gets here, and `status'*)
(* and the queue around it, belong to MotionControl.                       *)
(***************************************************************************)
EXTENDS Integers, Sequences, FiniteSets

CONSTANTS
  Home,          \* the position of each axis at the start
  Lo, Hi,        \* motors_state.limits, in steps
  Goals,         \* the destinations of a SLEW, before they are clamped
  Directions,    \* the signs of the speeds of a MOVE_AXIS
  MaxBatch,      \* RMT_BATCH_MAX_STEPS
  MaxMotions,    \* bound on the number of motions, for TLC
  MayFail        \* TRUE: the RMT driver may refuse a transmission

Axes == {"RA", "DEC"}

ASSUME SlewConstants ==
  /\ {Home, Lo, Hi} \subseteq [Axes -> Int]
  /\ \A a \in Axes : Lo[a] <= Hi[a]
  /\ Goals \subseteq [Axes -> Int]
  /\ Directions \subseteq [Axes -> {-1, 0, 1}]
  /\ MaxBatch \in Nat \ {0} /\ MaxMotions \in Nat
  /\ MayFail \in BOOLEAN

Buffers == {0, 1}
QueueDepth == 4     \* RMT_TRANS_QUEUE_DEPTH

VARIABLES
  \* s_motion, shared with the task that stops the motion
  active, aborted,
  error,          \* motors_state.status = MOTORS_STATUS_ERROR
  stop,           \* the stopping task is between its two stores
  \* the motion task
  pc, kind,
  position,       \* motors_state.ra_steps, dec_steps
  start, target,  \* s_motion.*_start, *_target
  done,           \* *_steps_done
  batch, ping,    \* *_batch[], *_ping
  \* the RMT driver
  fifo,           \* batches handed to rmt_transmit() and not yet emitted
  sem,            \* done_sem
  \* history
  motion,         \* the number of this motion
  emitted,        \* steps of this motion that left the STEP pin
  orphaned        \* a motion ended with batches still queued

control == <<active, aborted, error, stop>>
plan == <<kind, start, target>>
progress == <<position, done, batch, ping>>
driver == <<fifo, sem, emitted>>
history == <<motion, orphaned>>
vars == <<control, pc, plan, progress, driver, history>>

Init ==
  /\ active = FALSE /\ aborted = FALSE /\ error = FALSE /\ stop = "idle"
  /\ pc = "wait" /\ kind = "SLEW"
  /\ position = Home /\ start = Home /\ target = Home
  /\ done = [a \in Axes |-> 0]
  /\ batch = [a \in Axes |-> [b \in Buffers |-> 0]]
  /\ ping = [a \in Axes |-> 0]
  /\ fifo = [a \in Axes |-> <<>>] /\ sem = [a \in Axes |-> 0]
  /\ motion = 0 /\ emitted = [a \in Axes |-> 0] /\ orphaned = FALSE

-----------------------------------------------------------------------------
(***************************************************************************)
(* Batches                                                                 *)
(***************************************************************************)
Smaller(m, n) == IF m < n THEN m ELSE n

\* clamp_ra_steps(), clamp_dec_steps()
ClampSteps(a, s) == IF s < Lo[a] THEN Lo[a] ELSE Smaller(s, Hi[a])

Sign(a) == IF target[a] > start[a] THEN 1 ELSE -1
Total(a) == Sign(a) * (target[a] - start[a])
Pong(a) == 1 - ping[a]

\* clamp_ra_batch(), clamp_dec_batch()
ClampBatch(a, at, n) ==
  LET headroom == IF Sign(a) = 1 THEN Hi[a] - at ELSE at - Lo[a]
  IN  IF headroom > 0 THEN Smaller(n, headroom) ELSE 0

\* The batch that follows when the axis is counted at `at', `d' steps of the
\* motion are done and `ahead' more are queued; the ramp allows n steps.
NextBatch_IgnoresQueued(a, at, d, ahead, n) ==
  ClampBatch(a, at, Smaller(n, Total(a) - d))

NextBatch(a, at, d, ahead, n) ==
  ClampBatch(a, at + Sign(a) * ahead, Smaller(n, Total(a) - d - ahead))

\* The steps that the driver's queue of an axis holds, and those of motion m.
Load(q) ==
  LET sum[i \in 0..Len(q)] == IF i = 0 THEN 0 ELSE sum[i - 1] + q[i].steps
  IN  sum[Len(q)]
StepsOf(m, e) == IF e.motion = m THEN e.steps ELSE 0
LoadOf(m, q) ==
  LET sum[i \in 0..Len(q)] == IF i = 0 THEN 0 ELSE sum[i - 1] + StepsOf(m, q[i])
  IN  sum[Len(q)]

Handed_Empty(q, b, n) ==
  Append(q, [buffer |-> b, steps |-> n, motion |-> motion])

\* rmt_transmit(): a batch of no steps is never handed over.
Handed(q, b, n) ==
  IF n = 0 THEN q ELSE Append(q, [buffer |-> b, steps |-> n, motion |-> motion])

-----------------------------------------------------------------------------
(***************************************************************************)
(* The motion task                                                         *)
(***************************************************************************)
Goto(l) == pc' = l /\ UNCHANGED plan

\* process_command() accepts a SLEW or a MOVE_AXIS to the destination t.
Accept(k, t) ==
  /\ pc = "wait" /\ stop = "idle" /\ ~error
  /\ motion < MaxMotions
  /\ kind' = k
  /\ start' = position
  /\ target' = t
  /\ active' = TRUE
  /\ pc' = "enter"
  /\ done' = [a \in Axes |-> 0]
  /\ batch' = [a \in Axes |-> [b \in Buffers |-> 0]]
  /\ ping' = [a \in Axes |-> 0]
  /\ motion' = motion + 1 /\ emitted' = [a \in Axes |-> 0]
  /\ UNCHANGED <<aborted, error, stop, position, fifo, sem, orphaned>>

\* A slew is clamped to the limits as it is executed.
Slew(goal) == Accept("SLEW", [a \in Axes |-> ClampSteps(a, goal[a])])

\* A MoveAxis runs toward the limit in its direction, wherever the axis is.
MoveAxis(dir) ==
  Accept("MOVE_AXIS", [a \in Axes |-> CASE dir[a] = 1 -> Hi[a]
                                       [] dir[a] = -1 -> Lo[a]
                                       [] dir[a] = 0 -> position[a]])

\* motion_loop(): the error gate, then the reset of `aborted'
Enter ==
  /\ pc = "enter"
  /\ IF error THEN Goto("wait") /\ UNCHANGED aborted
     ELSE Goto("first") /\ aborted' = FALSE
  /\ UNCHANGED <<active, error, stop, progress, driver, history>>

\* abort_motion(), and the other places that give a motion up
GiveUp ==
  /\ active' = FALSE /\ aborted' = TRUE
  /\ Goto("exit")
  /\ UNCHANGED <<error, stop>>

\* rmt_transmit() waits for a place in the driver's queue.
Room(a) == Len(fifo[a]) < QueueDepth

\* The axes whose batch the driver accepts: RA comes first.
Accepted ==
  IF MayFail THEN {{}, {"RA"}, Axes} ELSE {Axes}

\* Encode and submit the first batch of each axis, after the semaphore of the
\* channel has been drained: nothing is handed over once `active' is cleared.
FirstBatches ==
  /\ pc = "first"
  /\ \A a \in Axes : Room(a)
  /\ \E n \in [Axes -> 1..MaxBatch], ok \in Accepted :
       LET size == [a \in Axes |-> NextBatch(a, position[a], 0, 0, n[a])]
           sent == {a \in ok : size[a] > 0}
       IN
       /\ batch' = [a \in Axes |-> [batch[a] EXCEPT ![0] = size[a]]]
       /\ IF ~active
          THEN Goto("exit") /\ UNCHANGED <<control, fifo, sem>>
          ELSE /\ fifo' = [a \in Axes |->
                    IF a \in sent THEN Handed(fifo[a], 0, size[a]) ELSE fifo[a]]
               /\ sem' = [a \in Axes |-> IF a \in sent THEN 0 ELSE sem[a]]
               /\ IF \A a \in Axes : a \in ok \/ size[a] = 0
                  THEN Goto("second") /\ UNCHANGED control
                  ELSE GiveUp
  /\ UNCHANGED <<position, done, ping, emitted, history>>

\* The second batch is queued behind the first.
SecondBatches ==
  /\ pc = "second"
  /\ \A a \in Axes : Room(a)
  /\ \E n \in [Axes -> 1..MaxBatch], ok \in Accepted :
       LET size == [a \in Axes |->
                      NextBatch(a, position[a], 0, batch[a][0], n[a])]
       IN
       /\ batch' = [a \in Axes |-> [batch[a] EXCEPT ![1] = size[a]]]
       /\ fifo' = [a \in Axes |->
            IF a \in ok THEN Handed(fifo[a], 1, size[a]) ELSE fifo[a]]
       /\ IF \A a \in Axes : a \in ok \/ size[a] = 0
          THEN Goto("loop") /\ UNCHANGED control
          ELSE GiveUp
  /\ UNCHANGED <<position, done, ping, sem, emitted, history>>

\* The head of the loop.  A MoveAxis gives way to a newer setpoint, if one is
\* queued.
Loop ==
  /\ pc = "loop"
  /\ Goto(IF active THEN "RA" ELSE "exit")
  /\ UNCHANGED <<control, progress, driver, history>>

Preempt ==
  /\ pc = "loop" /\ active
  /\ kind = "MOVE_AXIS"
  /\ GiveUp
  /\ UNCHANGED <<progress, driver, history>>

\* The two axes are polled in turn, then the conditions are checked.
After(a) == IF a = "RA" THEN "DEC" ELSE "check"

Waiting(a) == done[a] < Total(a) /\ batch[a][ping[a]] > 0

NotDone(a) ==
  /\ pc = a
  /\ ~(Waiting(a) /\ sem[a] > 0)
  /\ Goto(After(a))
  /\ UNCHANGED <<control, progress, driver, history>>

Count_NoSwap(a) ==
  /\ pc = a
  /\ Waiting(a) /\ sem[a] > 0 /\ Room(a)
  /\ sem' = [sem EXCEPT ![a] = @ - 1]
  /\ LET b == ping[a]
         at == position[a] + Sign(a) * batch[a][b]
         d == done[a] + batch[a][b]
     IN
     IF ~active
     THEN Goto("exit") /\ UNCHANGED <<control, progress, fifo>>
     ELSE
     /\ position' = [position EXCEPT ![a] = at]
     /\ done' = [done EXCEPT ![a] = d]
     /\ \E n \in 1..MaxBatch :
          LET size == NextBatch(a, at, d, batch[a][Pong(a)], n) IN
          /\ batch' = [batch EXCEPT ![a][b] = size]
          /\ fifo' = [fifo EXCEPT ![a] = Handed(@, b, size)]
     /\ Goto(After(a))
     /\ UNCHANGED <<ping, control>>
  /\ UNCHANGED <<emitted, history>>

\* A completed batch is counted and its buffer refilled and queued; when the
\* motion was stopped meanwhile it is not counted any more.
Count(a) ==
  /\ pc = a
  /\ Waiting(a) /\ sem[a] > 0 /\ Room(a)
  /\ sem' = [sem EXCEPT ![a] = @ - 1]
  /\ LET b == ping[a]
         at == position[a] + Sign(a) * batch[a][b]
         d == done[a] + batch[a][b]
     IN
     IF ~active
     THEN Goto("exit") /\ UNCHANGED <<control, progress, fifo>>
     ELSE
     /\ position' = [position EXCEPT ![a] = at]
     /\ done' = [done EXCEPT ![a] = d]
     /\ \E n \in 1..MaxBatch, ok \in {TRUE, ~MayFail} :
          LET size == NextBatch(a, at, d, batch[a][Pong(a)], n) IN
          /\ batch' = [batch EXCEPT ![a][b] = size]
          /\ IF ok \/ size = 0
             THEN /\ fifo' = [fifo EXCEPT ![a] = Handed(@, b, size)]
                  /\ ping' = [ping EXCEPT ![a] = Pong(a)]
                  /\ Goto(After(a)) /\ UNCHANGED control
             ELSE UNCHANGED <<fifo, ping>> /\ GiveUp
  /\ UNCHANGED <<emitted, history>>

Conditions_AnyAxis ==
  /\ pc = "check"
  /\ IF error THEN GiveUp
     ELSE IF position = target \/ \E a \in Axes : done[a] >= Total(a)
     THEN active' = FALSE /\ Goto("exit") /\ UNCHANGED <<aborted, error, stop>>
     ELSE Goto(IF active THEN "loop" ELSE "exit") /\ UNCHANGED control
  /\ UNCHANGED <<progress, driver, history>>

\* check_motion_conditions() and the end of the loop's body
Conditions ==
  /\ pc = "check"
  /\ IF error THEN GiveUp
     ELSE IF position = target \/ \A a \in Axes : done[a] >= Total(a)
     THEN active' = FALSE /\ Goto("exit") /\ UNCHANGED <<aborted, error, stop>>
     ELSE Goto(IF active THEN "loop" ELSE "exit") /\ UNCHANGED control
  /\ UNCHANGED <<progress, driver, history>>

\* motors_rmt_reset_both(): the channels are deleted and created again, once the
\* driver has had 100 ms to emit what it holds, and with them the semaphores.
Recreate ==
  /\ \E k \in [Axes -> 0..(2 * MaxBatch)] :
       /\ \A a \in Axes : k[a] <= LoadOf(motion, fifo[a])
       /\ emitted' = [a \in Axes |-> emitted[a] + k[a]]
  /\ fifo' = [a \in Axes |-> <<>>] /\ sem' = [a \in Axes |-> 0]

\* Back in motion_loop(): only an aborted motion has its channels recreated.
Exit ==
  /\ pc = "exit"
  /\ Goto("wait")
  /\ IF aborted
     THEN Recreate /\ UNCHANGED orphaned
     ELSE /\ orphaned' = (orphaned \/ \E a \in Axes : fifo[a] # <<>>)
          /\ UNCHANGED driver
  /\ UNCHANGED <<control, progress, motion>>

MotionTask ==
  \/ Enter \/ FirstBatches \/ SecondBatches \/ Loop \/ Preempt
  \/ (\E a \in Axes : NotDone(a) \/ Count(a))
  \/ Conditions \/ Exit

-----------------------------------------------------------------------------
(***************************************************************************)
(* The RMT peripheral, the stopping task, the motor status                 *)
(***************************************************************************)
Complete_Binary(a) ==
  /\ fifo[a] # <<>>
  /\ fifo' = [fifo EXCEPT ![a] = Tail(@)]
  /\ sem' = [sem EXCEPT ![a] = 1]
  /\ emitted' = [emitted EXCEPT ![a] =
       IF Head(fifo[a]).motion = motion THEN @ + Head(fifo[a]).steps ELSE @]
  /\ UNCHANGED <<control, pc, plan, progress, history>>

\* The transmission at the head of an axis is complete: its interrupt gives
\* the counting semaphore.
Complete(a) ==
  /\ fifo[a] # <<>>
  /\ fifo' = [fifo EXCEPT ![a] = Tail(@)]
  /\ sem' = [sem EXCEPT ![a] = Smaller(@ + 1, QueueDepth)]
  /\ emitted' = [emitted EXCEPT ![a] =
       IF Head(fifo[a]).motion = motion THEN @ + Head(fifo[a]).steps ELSE @]
  /\ UNCHANGED <<control, pc, plan, progress, history>>

\* motors_motion_stop(): two stores, with the other core free to run between
\* them.
Halt ==
  /\ stop = "idle"
  /\ pc # "wait"
  /\ active' = FALSE /\ stop' = "halted"
  /\ UNCHANGED <<aborted, error, pc, plan, progress, driver, history>>

MarkAborted ==
  /\ stop = "halted"
  /\ aborted' = TRUE /\ stop' = "idle"
  /\ UNCHANGED <<active, error, pc, plan, progress, driver, history>>

MotorError ==
  /\ ~error
  /\ error' = TRUE
  /\ UNCHANGED <<active, aborted, stop, pc, plan, progress, driver, history>>

\* 200 ms later at the earliest: the loop has polled the status by then.
MotorRestored ==
  /\ error /\ pc = "wait"
  /\ error' = FALSE
  /\ UNCHANGED <<active, aborted, stop, pc, plan, progress, driver, history>>

-----------------------------------------------------------------------------
Next ==
  \/ \E goal \in Goals : Slew(goal)
  \/ \E dir \in Directions : MoveAxis(dir)
  \/ MotionTask
  \/ \E a \in Axes : Complete(a)
  \/ Halt \/ MarkAborted \/ MotorError \/ MotorRestored

Spec == Init /\ [][Next]_vars

\* The motion task runs, the peripheral emits, a stop under way goes on.
Fairness ==
  /\ WF_vars(MotionTask)
  /\ \A a \in Axes : WF_vars(Complete(a))
  /\ WF_vars(MarkAborted)

FairSpec == Spec /\ Fairness

-----------------------------------------------------------------------------
(***************************************************************************)
(* Properties                                                              *)
(***************************************************************************)
Batch == [buffer : Buffers, steps : 1..MaxBatch, motion : 1..MaxMotions]

\* Every variable holds a value of its type; no batch is larger than a buffer,
\* no count negative (the code's are unsigned), and the semaphore and the
\* driver's queue stay within their depth.
SlewTypeOK ==
  /\ {active, aborted, error, orphaned} \subseteq BOOLEAN
  /\ stop \in {"idle", "halted"}
  /\ pc \in {"wait", "enter", "first", "second", "loop", "RA", "DEC", "check",
             "exit"}
  /\ kind \in {"SLEW", "MOVE_AXIS"}
  /\ {position, start, target} \subseteq [Axes -> Int]
  /\ {done, emitted} \subseteq [Axes -> Nat]
  /\ batch \in [Axes -> [Buffers -> 0..MaxBatch]]
  /\ ping \in [Axes -> Buffers]
  /\ fifo \in [Axes -> Seq(Batch)]
  /\ \A a \in Axes : Len(fifo[a]) <= QueueDepth
  /\ sem \in [Axes -> 0..QueueDepth]
  /\ motion \in 0..MaxMotions

Looping == pc \in {"loop", "RA", "DEC", "check"}

\* The counted position and what is planned: the buffers never hold more than
\* the motion has left, so the unsigned remainders cannot wrap around, and the
\* position is the start plus the steps done.
PlanFits ==
  \A a \in Axes :
    /\ position[a] = start[a] + Sign(a) * done[a]
    /\ done[a] + batch[a][0] + batch[a][1] <= Total(a)

\* Counted against emitted: in the loop the driver has emitted, or still holds,
\* exactly what is counted plus what the two buffers hold, and each batch that
\* is not counted yet is in its queue or in the semaphore.  (The semaphore of an
\* axis that does not move may keep a stale token.)
StepsAccounted ==
  Looping /\ ~orphaned =>
    \A a \in Axes :
      /\ emitted[a] + Load(fifo[a]) = done[a] + batch[a][0] + batch[a][1]
      /\ Total(a) > 0 =>
           sem[a] + Len(fifo[a]) =
             Cardinality({b \in Buffers : batch[a][b] > 0})

\* The buffer that Count refills is not one the driver still reads.
RefillsFreeBuffer ==
  \A a \in Axes :
    pc = a /\ Waiting(a) /\ sem[a] > 0 /\ ~orphaned =>
      \A i \in 1..Len(fifo[a]) : fifo[a][i].buffer # ping[a]

\* The pin never gets more steps than the motion has, whatever interrupts it;
\* what an interrupted motion emitted beyond the count is two batches at most.
NeverOvershoots ==
  \A a \in Axes :
    /\ emitted[a] + LoadOf(motion, fifo[a]) <= Total(a)
    /\ ~orphaned /\ pc = "wait" => emitted[a] - done[a] \in 0..(2 * MaxBatch)

\* When a motion has ended nothing is left in the driver's queues: no pulse to be
\* emitted later, and no pointer into the buffers on the loop's stack.
NothingLeftQueued == pc = "wait" => \A a \in Axes : fifo[a] = <<>>

\* The counted position only moves as Traverse allows.
Counted == INSTANCE Traverse WITH
  Destinations <- [Axes -> Int],
  destination <- target,
  moving <- pc # "wait"
TraverseSpec == Counted!Spec

\* A motion that leaves the loop with no abort on it or on its way is complete:
\* both axes are counted at the target, and, unless an earlier motion left batches
\* behind, each STEP pin has got every step and the driver holds none back, for
\* nothing will recreate the channels.  Or a STOP came before the loop reset
\* `aborted', and no step of the motion is ever emitted
\* (motors_motion_task.c:445-455, 927-935, 1250-1271).
EndsAtTarget ==
  pc = "exit" /\ ~aborted /\ stop = "idle" =>
    \/ /\ position = target
       /\ ~orphaned => \A a \in Axes : emitted[a] = Total(a) /\ fifo[a] = <<>>
    \/ \A a \in Axes : emitted[a] + LoadOf(motion, fifo[a]) = 0

\* Every motion ends.
MotionEnds == Counted!Ends
=============================================================================
