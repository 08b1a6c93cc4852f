---------------------------- MODULE MotionControl ----------------------------
(***************************************************************************)
(* The motors module of the mount: how a client's requests, executed by    *)
(* the USB receive task, meet the motion task that drives the steppers and *)
(* the main loop that watches the 12 V rail.                               *)
(*                                                                         *)
(*   receive task  core 0, prio 19   the only caller of the motors_* API   *)
(*   main loop     core 0, prio  5   motors_update_power() every 200 ms    *)
(*   motion task   core 1, prio 23   consumes the command queue            *)
(*                                                                         *)
(* One action is one access to state the other core can see at the same    *)
(* time: a critical section, a queue operation, a semaphore operation, or  *)
(* an unlocked store to a shared field.  Positions, speeds and angles are  *)
(* abstracted: where a motion ends is a nondeterministic choice.  What the *)
(* RMT peripheral emits, and `aborted', which decides only whether its     *)
(* channels are recreated, belong to SlewPipeline.                         *)
(***************************************************************************)
EXTENDS Integers, Sequences

CONSTANTS
  Modes,           \* the tracking modes other than TRACKING_NONE
  NONE,            \* TRACKING_NONE, and "no argument"
  Ops,             \* the operations the client may request
  Capacity,        \* length of the motion command queue (10 in the code)
  MaxGeneration,   \* bound on the number of STOPs, for TLC
  MayFail,         \* TRUE: a tracking step may meet a limit or an RMT error
  PowerMayFail,    \* TRUE: the 12 V rail may drop and come back
  PatientClient    \* TRUE: a request is only sent to a Settled mount

Axes == {"RA", "DEC"}

StopOps == {"stop", "park", "home", "set_home", "set_limit"}
MotionOps == {"home", "slew", "manual", "track", "guide"}
AllOps == StopOps \cup MotionOps \cup {"unpark"}

ASSUME ConstantsOK ==
  /\ NONE \notin Modes \cup Axes
  /\ Modes \cap Axes = {}
  /\ Ops \subseteq AllOps
  /\ Capacity \in Nat \ {0}
  /\ MaxGeneration \in Nat
  /\ {MayFail, PowerMayFail, PatientClient} \subseteq BOOLEAN

VARIABLES
  \* motors_state (motors_state_lock guards its multi-field updates)
  status, tracking, guiding,
  \* shared control of the motion task
  queue,          \* motion_cmd_queue
  generation,     \* motors_stop_generation
  active,         \* s_motion.active
  guide,          \* s_motion.*_guide_deadline_us: zero, ahead, or passed
  idle,           \* s_motion_idle_sem
  powerFault,     \* s_power_fault
  hwFault,        \* s_hardware_fault
  \* the motion task
  pc, cmd, inline,
  runGeneration,  \* history: the epoch of the command that set `active'
  \* the receive task
  rx, req, saved,
  \* the main loop
  main

state == <<status, tracking, guiding>>
shared == <<queue, generation, active, guide, idle>>
faults == <<powerFault, hwFault>>
task == <<pc, cmd, inline, runGeneration>>
client == <<rx, req, saved>>
vars == <<state, shared, faults, task, client, main>>

Status == {"READY", "SLEWING", "TRACKING", "PARKED", "ERROR"}

Request ==
       [op : {"stop", "park", "unpark", "home", "set_home", "set_limit",
              "slew", "manual"}, arg : {NONE}]
  \cup [op : {"track"}, arg : Modes]
  \cup [op : {"guide"}, arg : Axes]

NoRequest == [op |-> "none", arg |-> NONE]

Command ==
       [type : {"SLEW", "MOVE_AXIS"}, arg : {NONE}, generation : Nat]
  \cup [type : {"TRACK"}, arg : Modes, generation : Nat]
  \cup [type : {"PULSE_GUIDE"}, arg : Axes, generation : Nat]

NoCommand == [type |-> "NO_CMD", arg |-> NONE, generation |-> 0]

CommandTypeOf ==
  [slew |-> "SLEW", manual |-> "MOVE_AXIS", track |-> "TRACK",
   guide |-> "PULSE_GUIDE"]

\* The command a request puts in the queue, stamped with the current epoch.
MakeCommand(r) ==
  [type |-> CommandTypeOf[r.op], arg |-> r.arg, generation |-> generation]

GuideOff == [a \in Axes |-> "off"]
Guided(g) == \E a \in Axes : g[a] # "off"

Init ==
  /\ tracking = NONE /\ guiding = FALSE
  /\ queue = <<>> /\ generation = 0 /\ active = FALSE
  /\ guide = GuideOff
  /\ powerFault = FALSE
  \* either the motion task is up and idle, or its RMT init failed
  /\ \/ hwFault = FALSE /\ status = "READY" /\ pc = "wait" /\ idle = TRUE
     \/ hwFault = TRUE /\ status = "ERROR" /\ pc = "dead" /\ idle = FALSE
  /\ cmd = NoCommand /\ inline = FALSE /\ runGeneration = 0
  /\ rx = "idle" /\ req = NoRequest /\ saved = NONE
  /\ main = "tick"

-----------------------------------------------------------------------------
(***************************************************************************)
(* The receive task                                                        *)
(***************************************************************************)
RxGoto(l) == rx' = l /\ UNCHANGED <<req, saved>>
RxDone == rx' = "idle" /\ req' = NoRequest /\ saved' = NONE

\* The mount shows what the last request did: nothing queued, and the motion
\* task neither between two commands nor applying one.
Settled == queue = <<>> /\ pc \in {"wait", "slew", "track", "emit", "dead"}

Admitted_ParkedTracks(r) ==
  /\ status # "ERROR"
  /\ r.op \in {"park", "home", "slew", "manual"} => status # "PARKED"
  /\ r.op = "guide" => status \in {"READY", "TRACKING"}

\* The gates a request passes before it changes anything, in the mount layer
\* and at the entry of the motors layer.
Admitted(r) ==
  /\ status # "ERROR"
  /\ r.op \in {"park", "home", "slew", "manual", "track"} => status # "PARKED"
  /\ r.op = "guide" => status \in {"READY", "TRACKING"}

FirstStep_HomeWithoutStop(op) ==
  CASE op \in {"set_home", "set_limit"} -> "await"
    [] op \in StopOps -> "clear"
    [] op = "unpark" -> "unpark"
    [] op \in {"slew", "manual"} -> "enter"
    [] op \in {"track", "guide"} -> "put"

FirstStep(op) ==
  CASE op \in StopOps -> "clear"
    [] op = "unpark" -> "unpark"
    [] op \in {"slew", "manual"} -> "enter"
    [] op \in {"track", "guide"} -> "put"

Begin(r) ==
  /\ rx = "idle"
  /\ r.op \in Ops
  /\ PatientClient => Settled
  /\ r.op \in StopOps \cup {"slew", "manual"} => generation < MaxGeneration
  /\ Admitted(r)
  /\ rx' = FirstStep(r.op) /\ req' = r /\ saved' = NONE
  /\ UNCHANGED <<state, shared, faults, task, main>>

QueueClear_KeepsQueue ==
  /\ rx = "clear"
  /\ RxGoto(IF req.op = "park" THEN "bump" ELSE "settle")
  /\ UNCHANGED <<state, shared, faults, task, main>>

\* motors_queue_clear(), first step of motors_stop() and motors_park()
QueueClear ==
  /\ rx = "clear"
  /\ queue' = <<>>
  /\ RxGoto(IF req.op = "park" THEN "bump" ELSE "settle")
  /\ UNCHANGED <<state, generation, active, guide, idle, faults, task, main>>

StopSettle_ForgetsStatus ==
  /\ rx = "settle"
  /\ status' = status
  /\ tracking' = NONE
  /\ guiding' = FALSE
  /\ RxGoto("bump")
  /\ UNCHANGED <<shared, faults, task, main>>

\* the critical section of motors_stop()
StopSettle ==
  /\ rx = "settle"
  /\ status' = IF status = "PARKED" THEN "PARKED" ELSE "READY"
  /\ tracking' = NONE
  /\ guiding' = FALSE
  /\ RxGoto("bump")
  /\ UNCHANGED <<shared, faults, task, main>>

\* motors_motion_stop(), in the order of its stores
BumpGeneration ==
  /\ rx = "bump"
  /\ generation' = generation + 1
  /\ RxGoto("halt")
  /\ UNCHANGED <<state, queue, active, guide, idle, faults, task, main>>

Halt_KeepsActive ==
  /\ rx = "halt"
  /\ RxGoto("quell")
  /\ UNCHANGED <<state, shared, faults, task, main>>

Halt ==
  /\ rx = "halt"
  /\ active' = FALSE
  /\ RxGoto("quell")
  /\ UNCHANGED <<state, queue, generation, guide, idle, faults, task, main>>

\* what follows motors_motion_stop() in each caller
AfterStop(op) ==
  CASE op = "stop" -> "idle"
    [] op = "park" -> "park"
    [] op = "home" -> "enter"
    [] op \in {"slew", "manual"} -> "put"
    [] op \in {"set_home", "set_limit"} -> "await"

Quell ==
  /\ rx = "quell"
  /\ guide' = GuideOff
  /\ IF AfterStop(req.op) = "idle" THEN RxDone ELSE RxGoto(AfterStop(req.op))
  /\ UNCHANGED <<state, queue, generation, active, idle, faults, task, main>>

\* the critical section of motors_park()
ParkSettle ==
  /\ rx = "park"
  /\ status' = "PARKED"
  /\ tracking' = NONE
  /\ RxDone
  /\ UNCHANGED <<guiding, shared, faults, task, main>>

Unpark ==
  /\ rx = "unpark"
  /\ status' = IF status = "PARKED" THEN "READY" ELSE status
  /\ RxDone
  /\ UNCHANGED <<tracking, guiding, shared, faults, task, main>>

\* The command the request goes on with: home ends as a slew to (0, 0).
MotionOp(op) == IF op = "home" THEN "slew" ELSE op

Enter_NoPause ==
  /\ rx = "enter"
  /\ IF status \in {"ERROR", "PARKED"} THEN RxDone
     ELSE rx' = "put" /\ req' = [req EXCEPT !.op = MotionOp(@)] /\ saved' = NONE
  /\ UNCHANGED <<state, shared, faults, task, main>>

\* motors_slew_to_angle(), motors_slew_axis_impl(), mount_set_move_axis_speed():
\* a running tracking is stopped before the motion is queued, and remembered
\* by the slews to be queued behind them.
Enter ==
  /\ rx = "enter"
  /\ IF status \in {"ERROR", "PARKED"} THEN RxDone
     ELSE /\ req' = [req EXCEPT !.op = MotionOp(@)]
          /\ IF status = "TRACKING" /\ tracking # NONE
             THEN /\ rx' = "clear"
                  /\ saved' = IF req.op = "manual" THEN NONE ELSE tracking
             ELSE rx' = "put" /\ saved' = NONE
  /\ UNCHANGED <<state, shared, faults, task, main>>

Put_NoRoom ==
  /\ rx = "put"
  /\ queue' = Append(queue, MakeCommand(req))
  /\ IF saved # NONE THEN RxGoto("resume") ELSE RxDone
  /\ UNCHANGED <<state, generation, active, guide, idle, faults, task, main>>

\* motors_queue_put(): the request's own command
Put ==
  /\ rx = "put"
  /\ Len(queue) < Capacity
  /\ queue' = Append(queue, MakeCommand(req))
  /\ IF saved # NONE THEN RxGoto("resume") ELSE RxDone
  /\ UNCHANGED <<state, generation, active, guide, idle, faults, task, main>>

\* motors_start_tracking(saved), queued behind the slew that paused it
Resume ==
  /\ rx = "resume"
  /\ IF status \in {"ERROR", "PARKED"}
     THEN UNCHANGED queue
     ELSE /\ Len(queue) < Capacity
          /\ queue' = Append(queue, MakeCommand([op |-> "track", arg |-> saved]))
  /\ RxDone
  /\ UNCHANGED <<state, generation, active, guide, idle, faults, task, main>>

\* xQueueSendToBack() gave up after 10 ms: the request is answered BUSY
PutTimeout ==
  /\ rx \in {"put", "resume"}
  /\ Len(queue) = Capacity
  /\ RxDone
  /\ UNCHANGED <<state, shared, faults, task, main>>

\* motors_motion_wait_idle(): the semaphore is taken ...
WaitIdle ==
  /\ rx = "await"
  /\ idle
  /\ idle' = FALSE
  /\ RxGoto("commit")
  /\ UNCHANGED <<state, queue, generation, active, guide, faults, task, main>>

\* ... or 500 ms pass: only when no task is winding down a stopped motion,
\* which takes it at most one 50 ms sleep and the channel resets.
WaitIdleTimeout ==
  /\ rx = "await"
  /\ ~idle
  /\ pc \in {"wait", "dead"} \/ (active /\ pc \in {"slew", "track", "emit"})
  /\ RxGoto("commit_late")
  /\ UNCHANGED <<state, shared, faults, task, main>>

\* the end of motors_set_current_as_home() and of the limit setters
Commit ==
  /\ rx \in {"commit", "commit_late"}
  /\ status' = IF req.op = "set_home" THEN "READY" ELSE status
  /\ RxDone
  /\ UNCHANGED <<tracking, guiding, shared, faults, task, main>>

RxStep ==
  \/ QueueClear \/ StopSettle \/ BumpGeneration \/ Halt \/ Quell
  \/ ParkSettle \/ Unpark \/ Enter \/ Put \/ Resume \/ PutTimeout
  \/ WaitIdle \/ WaitIdleTimeout \/ Commit

-----------------------------------------------------------------------------
(***************************************************************************)
(* The motion task                                                         *)
(***************************************************************************)
Goto(l) == pc' = l /\ UNCHANGED <<cmd, inline, runGeneration>>

\* xQueueReceive()
Receive ==
  /\ pc = "wait"
  /\ queue # <<>>
  /\ cmd' = Head(queue)
  /\ queue' = Tail(queue)
  /\ pc' = "took"
  /\ UNCHANGED <<inline, runGeneration, state, generation, active, guide,
                 idle, faults, client, main>>

ConsumeIdle ==
  /\ pc = "took"
  /\ idle' = FALSE
  /\ Goto("proc")
  /\ UNCHANGED <<state, queue, generation, active, guide, faults, client, main>>

Return_AnyTracking ==
  /\ inline' = FALSE
  /\ pc' = IF inline THEN "track"
           ELSE IF status = "TRACKING" THEN "end" ELSE "enter"
  /\ UNCHANGED cmd

\* Where process_command() returns to: the drain of the tracking loop that
\* called it, or the task loop, which runs a motion loop unless a guide pulse
\* joins a tracking that is already running.
Return ==
  /\ inline' = FALSE
  /\ pc' = IF inline THEN "track"
           ELSE IF cmd.type = "PULSE_GUIDE" /\ status = "TRACKING" THEN "end"
           ELSE "enter"
  /\ UNCHANGED cmd

\* process_command(): the error gate and the epoch gate
Discard ==
  /\ pc = "proc"
  /\ status = "ERROR" \/ cmd.generation # generation
  /\ Return
  /\ UNCHANGED <<runGeneration, state, shared, faults, client, main>>

Accept ==
  /\ pc = "proc"
  /\ status # "ERROR" /\ cmd.generation = generation
  /\ Goto("apply")
  /\ UNCHANGED <<state, shared, faults, client, main>>

\* the critical section of SLEW, MOVE_AXIS and TRACK
ApplyMotion ==
  /\ pc = "apply"
  /\ cmd.type # "PULSE_GUIDE"
  /\ IF cmd.type = "TRACK"
     THEN status' = "TRACKING" /\ tracking' = cmd.arg
     ELSE status' = "SLEWING" /\ tracking' = NONE
  /\ Goto("go")
  /\ UNCHANGED <<guiding, shared, faults, client, main>>

\* update_guide(), then the unlocked store to motors_state.guiding
ApplyGuide ==
  /\ pc = "apply"
  /\ cmd.type = "PULSE_GUIDE"
  /\ guide' = [guide EXCEPT ![cmd.arg] = "ahead"]
  /\ Goto("flag")
  /\ UNCHANGED <<state, queue, generation, active, idle, faults, client, main>>

FlagGuiding ==
  /\ pc = "flag"
  /\ guiding' = TRUE
  /\ Goto("go")
  /\ UNCHANGED <<status, tracking, shared, faults, client, main>>

Go ==
  /\ pc = "go"
  /\ active' = TRUE
  /\ runGeneration' = cmd.generation
  /\ Return
  /\ UNCHANGED <<state, queue, generation, guide, idle, faults, client, main>>

\* motion_loop(): refuses in ERROR, then picks the loop to run
EnterLoop ==
  /\ pc = "enter"
  /\ Goto(IF status = "ERROR" THEN "end" ELSE "dispatch")
  /\ UNCHANGED <<state, shared, faults, client, main>>

Dispatch ==
  /\ pc = "dispatch"
  /\ Goto(IF (status = "TRACKING" /\ tracking # NONE) \/ guiding
          THEN "track" ELSE "slew")
  /\ UNCHANGED <<state, shared, faults, client, main>>

\* Either loop sees that somebody cleared `active'.
LeaveLoop ==
  /\ pc \in {"slew", "track", "emit"}
  /\ ~active
  /\ Goto("end")
  /\ UNCHANGED <<state, shared, faults, client, main>>

\* check_motion_conditions() in ERROR; the tracking loop drains the queue
\* first, so it gets here from TrackPoll.
Abort ==
  /\ status' = "ERROR"
  /\ guiding' = FALSE
  /\ active' = FALSE
  /\ Goto("end")
  /\ UNCHANGED tracking

SlewError ==
  /\ pc = "slew" /\ active
  /\ status = "ERROR"
  /\ Abort
  /\ UNCHANGED <<queue, generation, guide, idle, faults, client, main>>

\* move_axis_update_pending(): a newer MoveAxis setpoint preempts this one
SlewPreempted ==
  /\ pc = "slew" /\ active
  /\ cmd.type = "MOVE_AXIS" /\ queue # <<>> /\ Head(queue).type = "MOVE_AXIS"
  /\ active' = FALSE
  /\ Goto("end")
  /\ UNCHANGED <<state, queue, generation, guide, idle, faults, client, main>>

\* The target is reached, or an RMT transmit fails; what both write comes in
\* a later critical section.
SlewDone ==
  /\ pc = "slew" /\ active
  /\ status # "ERROR"
  /\ Goto("finish")
  /\ UNCHANGED <<state, shared, faults, client, main>>

Finish_KeepsStatus ==
  /\ pc = "finish"
  /\ active' = FALSE
  /\ Goto("end")
  /\ UNCHANGED <<state, queue, generation, guide, idle, faults, client, main>>

\* finish_motion(), abort_motion(), completion in check_motion_conditions()
Finish ==
  /\ pc = "finish"
  /\ status' = "READY" /\ tracking' = NONE
  /\ active' = FALSE
  /\ Goto("end")
  /\ UNCHANGED <<guiding, queue, generation, guide, idle, faults, client, main>>

Inlined_GuidesOnly == queue # <<>> /\ Head(queue).type = "PULSE_GUIDE"

Inlined == queue # <<>> /\ Head(queue).type \in {"PULSE_GUIDE", "TRACK"}

\* The drain of the tracking loop peeks; only guides and tracks come inline.
TrackPeek ==
  /\ pc = "track" /\ active
  /\ Inlined
  /\ cmd' = Head(queue)
  /\ pc' = "recv"
  /\ UNCHANGED <<inline, runGeneration, state, shared, faults, client, main>>

\* xQueueReceive(.., 0) overwrites the peeked copy only if the queue has
\* something: a STOP may have cleared it, and a client may have refilled it.
TrackReceive ==
  /\ pc = "recv"
  /\ IF queue = <<>> THEN UNCHANGED <<cmd, queue>>
     ELSE cmd' = Head(queue) /\ queue' = Tail(queue)
  /\ inline' = TRUE
  /\ pc' = "proc"
  /\ UNCHANGED <<runGeneration, state, generation, active, guide, idle,
                 faults, client, main>>

\* the pulses whose deadline has passed end
Expire(g) == [a \in Axes |-> IF g[a] = "passed" THEN "off" ELSE g[a]]

\* One pass of the tracking loop past the drain: guide expiry, `guiding', and
\* the motion conditions, which the code checks every 500 us.  (Their branch for
\* status TRACKING without a mode is unreachable: TrackingHasMode.)
TrackPoll ==
  LET g == Expire(guide) IN
  /\ pc = "track" /\ active
  /\ ~Inlined
  /\ guide' = g
  /\ IF status = "ERROR" THEN Abort
     ELSE /\ guiding' = Guided(g)
          /\ IF status # "TRACKING" /\ ~Guided(g)
             THEN active' = FALSE /\ Goto("end")
             ELSE UNCHANGED active /\ Goto("emit")
          /\ UNCHANGED <<status, tracking>>
  /\ UNCHANGED <<queue, generation, idle, faults, client, main>>

\* The completion branch of those conditions, met here by a SLEW that was sent
\* to this loop because `guiding' was set when it was dispatched.
TrackAtTarget ==
  LET g == Expire(guide) IN
  /\ pc = "track" /\ active
  /\ ~Inlined
  /\ status # "ERROR" /\ cmd.type \in {"SLEW", "MOVE_AXIS"}
  /\ guide' = g
  /\ guiding' = Guided(g)
  /\ Goto("finish")
  /\ UNCHANGED <<status, tracking, queue, generation, active, idle, faults,
                 client, main>>

\* The steps due in this pass went out; the loop sleeps and comes around.
EmitSteps ==
  /\ pc = "emit" /\ active
  /\ Goto("track")
  /\ UNCHANGED <<state, shared, faults, client, main>>

\* emit_ra_tracking_step() meets the RA limit or an RMT error
EmitRaFails ==
  /\ MayFail
  /\ pc = "emit" /\ active
  /\ status = "TRACKING" \/ guide["RA"] # "off"
  /\ active' = FALSE
  /\ Goto("fail")
  /\ UNCHANGED <<state, queue, generation, guide, idle, faults, client, main>>

TrackFail ==
  /\ pc = "fail"
  /\ status' = "READY" /\ tracking' = NONE /\ guiding' = FALSE
  /\ Goto("end")
  /\ UNCHANGED <<shared, faults, client, main>>

\* the DEC step meets its limit or an RMT error: only its pulse ends
EmitDecFails ==
  /\ MayFail
  /\ pc = "emit" /\ active
  /\ guide["DEC"] # "off"
  /\ guide' = [guide EXCEPT !["DEC"] = "off"]
  /\ Goto("track")
  /\ UNCHANGED <<state, queue, generation, active, idle, faults, client, main>>

\* End of the task loop: `guiding' from the deadlines, then the idle signal.
EndCommand ==
  /\ pc = "end"
  /\ guiding' = (\E a \in Axes : guide[a] = "ahead")
  /\ idle' = TRUE
  /\ pc' = "wait" /\ cmd' = NoCommand
  /\ UNCHANGED <<inline, runGeneration, status, tracking, queue, generation,
                 active, guide, faults, client, main>>

MotionStep ==
  \/ Receive \/ ConsumeIdle \/ Discard \/ Accept \/ ApplyMotion \/ ApplyGuide
  \/ FlagGuiding \/ Go \/ EnterLoop \/ Dispatch \/ LeaveLoop
  \/ SlewError \/ SlewPreempted \/ SlewDone \/ Finish
  \/ TrackPeek \/ TrackReceive \/ TrackPoll \/ TrackAtTarget
  \/ EmitSteps \/ EmitRaFails \/ TrackFail \/ EmitDecFails \/ EndCommand

\* Time: the deadline of a pulse passes.
GuideDue(a) ==
  /\ guide[a] = "ahead"
  /\ guide' = [guide EXCEPT ![a] = "passed"]
  /\ UNCHANGED <<state, queue, generation, active, idle, faults, task, client,
                 main>>

-----------------------------------------------------------------------------
(***************************************************************************)
(* The main loop, at a lower priority than the receive task on its core    *)
(***************************************************************************)
RxYields ==
  \/ rx \in {"idle", "await"}
  \/ rx \in {"put", "resume"} /\ Len(queue) = Capacity

\* motors_update_power(false)
PowerLost ==
  /\ PowerMayFail
  /\ RxYields /\ main = "tick"
  /\ status' = "ERROR"
  /\ guiding' = FALSE
  /\ powerFault' = TRUE
  /\ UNCHANGED <<tracking, shared, hwFault, task, client, main>>

\* A tick comes 200 ms after the one that set ERROR: the motion task has polled
\* the status and left its loop by then.
ErrorSeen == status = "ERROR" => pc \in {"wait", "end", "dead"}

PowerBack_IgnoresFault ==
  /\ RxYields /\ main = "tick"
  /\ powerFault
  /\ ErrorSeen
  /\ powerFault' = FALSE
  /\ main' = "restore"
  /\ UNCHANGED <<state, shared, hwFault, task, client>>

\* motors_update_power(true): the fault flags, then the critical section
PowerBack ==
  /\ RxYields /\ main = "tick"
  /\ powerFault
  /\ ErrorSeen
  /\ powerFault' = FALSE
  /\ main' = IF hwFault THEN "tick" ELSE "restore"
  /\ UNCHANGED <<state, shared, hwFault, task, client>>

PowerRestore ==
  /\ RxYields /\ main = "restore"
  /\ status' = "READY" /\ tracking' = NONE
  /\ main' = "tick"
  /\ UNCHANGED <<guiding, shared, faults, task, client>>

-----------------------------------------------------------------------------
Next ==
  \/ \E r \in Request : Begin(r)
  \/ RxStep
  \/ MotionStep
  \/ \E a \in Axes : GuideDue(a)
  \/ PowerLost \/ PowerBack \/ PowerRestore

\* The tasks run, time passes, a motion that goes on reaches its target; the
\* client need not ask anything and the rail need not change.
Fairness ==
  /\ WF_vars(RxStep)
  /\ WF_vars(MotionStep)
  /\ \A a \in Axes : WF_vars(GuideDue(a))

Spec == Init /\ [][Next]_vars
FairSpec == Spec /\ Fairness

-----------------------------------------------------------------------------
(***************************************************************************)
(* Properties                                                              *)
(***************************************************************************)
RxLabels ==
  {"idle", "clear", "settle", "bump", "halt", "quell", "park", "unpark",
   "enter", "put", "resume", "await", "commit", "commit_late"}
TaskLabels ==
  {"dead", "wait", "took", "proc", "apply", "flag", "go", "enter", "dispatch",
   "slew", "finish", "track", "recv", "emit", "fail", "end"}

\* Every variable holds a value of its type, and the queue fits its capacity.
TypeOK ==
  /\ status \in Status
  /\ tracking \in Modes \cup {NONE}
  /\ guiding \in BOOLEAN
  /\ queue \in Seq(Command) /\ Len(queue) <= Capacity
  /\ generation \in Nat
  /\ active \in BOOLEAN
  /\ guide \in [Axes -> {"off", "ahead", "passed"}]
  /\ idle \in BOOLEAN
  /\ powerFault \in BOOLEAN /\ hwFault \in BOOLEAN
  /\ pc \in TaskLabels
  /\ cmd \in Command \cup {NoCommand}
  /\ inline \in BOOLEAN
  /\ runGeneration \in Nat
  /\ rx \in RxLabels
  /\ req \in Request \cup {NoRequest}
  /\ saved \in Modes \cup {NONE}
  /\ main \in {"tick", "restore"}

\* The motion task is between accepting a command and arming its motion.
Applying == pc \in {"apply", "flag", "go"}

\* Every queued command was stamped with the current stop epoch: no STOP that
\* has bumped the epoch leaves an older command behind in the queue.
QueueEpoch == \A i \in 1..Len(queue) : queue[i].generation = generation

\* status TRACKING is never published without a mode: the "external tracking
\* stop" branch of check_motion_conditions() cannot be taken.
TrackingHasMode == status = "TRACKING" => tracking # NONE

\* A parked mount has no motion command waiting and none being submitted.
ParkedAcceptsNothing ==
  status = "PARKED" => queue = <<>> /\ rx \notin {"put", "resume"}

\* A latched hardware fault keeps the mount in ERROR, through power cycles of
\* the 12 V rail and requests of the client.
HwFaultLatched == hwFault => status = "ERROR"

\* The idle signal granted to a control operation (home, limits) excludes the
\* motion task: it is not running a motion and will not arm one until the
\* operation has written the counters.
HomeExclusion ==
  rx = "commit" =>
    /\ ~Applying /\ pc \notin {"finish", "fail"}
    /\ active => pc = "wait"

\* A motion armed before a STOP does not survive it.
NoStaleMotion == active /\ rx # "halt" => runGeneration = generation

\* status TRACKING means that the motion task is in the tracking loop, or is
\* on its way in or out of it.
TrackingIsRunning ==
  status = "TRACKING" /\ pc \in {"wait", "took"} => rx \in {"quell", "park"}

\* PARKED is left through unpark or a fault, by no other request.
ParkedOnlyByUnpark ==
  [][status = "PARKED" /\ status' # "PARKED" =>
       req.op = "unpark" \/ status' = "ERROR"]_status

\* The client asks nothing more.
ClientQuiet == <>[](rx = "idle")

\* Once the client is quiet the mount stops reporting SLEWING: every slew ends,
\* and none is dropped with the status it had announced.
SlewEnds == ClientQuiet => <>[](status # "SLEWING")

\* A SLEW or MOVE_AXIS at the head of the queue ends the tracking loop it finds
\* running.
SlewWaiting == queue # <<>> /\ Head(queue).type \in {"SLEW", "MOVE_AXIS"}
TrackingYieldsToSlew ==
  ClientQuiet => <>[]~(pc \in {"track", "emit"} /\ SlewWaiting)

\* A queued TRACK takes effect, unless a STOP or a fault comes first: also when
\* it changes the mode of a running tracking.
TrackTakesEffect ==
  \A g \in 0..MaxGeneration, m \in Modes :
    (generation = g /\ \E i \in 1..Len(queue) :
                         queue[i].type = "TRACK" /\ queue[i].arg = m)
      ~> (tracking = m \/ status = "ERROR" \/ generation # g)
=============================================================================
