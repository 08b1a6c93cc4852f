----------------------------- MODULE ManualMotion -----------------------------
(***************************************************************************)
(* Manual motion: the control message and the stop actions, the rates and  *)
(* the tracking mode that the mount layer remembers meanwhile, and the     *)
(* motors as far as these see them.                                        *)
(*                                                                         *)
(* The receive task runs a handler in several calls of the motors API; the *)
(* motion task, on the other core, takes commands from the queue and       *)
(* completes motions between any two of them.  A call of the motors API is *)
(* one step here: MotionControl takes it apart.                            *)
(***************************************************************************)
EXTENDS Integers, Sequences

CONSTANTS
  Modes,          \* tracking modes other than TRACKING_NONE
  Rates,          \* manual rates other than zero
  QueueLength,    \* of the motion command queue, 10 in the code
  Budgets,        \* bounds for TLC: how many requests of each kind clients make
  Omitted,        \* a field that is not in the message
  Invalid         \* a field that does not parse or is out of range

ASSUME ManualConstants ==
  /\ QueueLength \in Nat /\ QueueLength >= 2
  /\ Budgets \subseteq [{"motion", "settings"} -> Nat]
  /\ 0 \notin Rates /\ "none" \notin Modes /\ Omitted # Invalid
  /\ {Omitted, Invalid} \cap (Rates \cup {0}) = {}
  /\ {Omitted, Invalid} \cap (Modes \cup {"none"}) = {}

Axes == {"ra", "dec"}
Zero == [a \in Axes |-> 0]

VARIABLES
  saved, rate,        \* s_saved_tracking, s_ra_rate and s_dec_rate
  \* the motors
  status, tracking,   \* motors_state
  queue,              \* motion_cmd_queue
  active,             \* the command the motion task executes, or Nothing
  \* the receive task
  pc,
  fields,             \* the manual rates of the message, Omitted or a rate
  mode,               \* its tracking mode
  want, keep,         \* the locals ra_speed and dec_speed; to_restore or saved
  requests,           \* what is left of the budget
  \* history
  asked,              \* what clients asked of each axis since the last stop
  asking,             \* the same with the message in hand, while it is handled
  stopped,            \* no manual motion was asked for since a full stop
  owed                \* the mode a manual stop has to bring back, until it has

remembered == <<saved, rate>>
motors == <<status, tracking, queue, active>>
history == <<asked, stopped, owed>>
locals == <<fields, mode, want, keep, asking>>
motionVars == <<remembered, motors, pc, locals, requests, history>>

NoRates == [a \in Axes |-> Omitted]
Nothing == [type |-> "nothing", mode |-> "none", rates |-> Zero]
Track(m) == [type |-> "track", mode |-> m, rates |-> Zero]
Move(r) == [type |-> "move", mode |-> "none", rates |-> r]
Slew == [type |-> "slew", mode |-> "none", rates |-> Zero]
Command == {Track(m) : m \in Modes} \cup {Move(r) : r \in [Axes -> Rates \cup {0}]} \cup {Slew}

\* What a restart leaves of all this.
MotionStart ==
  /\ saved = "none" /\ rate = Zero
  /\ status = "ready" /\ tracking = "none" /\ queue = <<>> /\ active = Nothing
  /\ pc = "idle" /\ fields = NoRates /\ mode = Omitted
  /\ want = Zero /\ keep = "none" /\ asking = Zero
  /\ asked = Zero /\ stopped = TRUE /\ owed = "none"
-----------------------------------------------------------------------------
(***************************************************************************)
(* The motors API                                                          *)
(***************************************************************************)
Error == status = "error"
Tracking == status = "tracking" /\ tracking # "none"

MotorsStop ==
  /\ status' = IF status = "parked" THEN "parked" ELSE "ready"
  /\ tracking' = "none" /\ queue' = <<>> /\ active' = Nothing

Room_OneMore == Len(queue) <= QueueLength
Room == Len(queue) < QueueLength
Put(c) == queue' = Append(queue, c) /\ UNCHANGED <<status, tracking, active>>

\* motors_start_tracking(): accepted or not.
StartsTracking(m) ==
  /\ ~Error
  /\ \/ m = "none" /\ MotorsStop
     \/ m # "none" /\ status # "parked" /\ Room /\ Put(Track(m))

TrackingRefused(m) == Error \/ (m # "none" /\ (status = "parked" \/ ~Room))

\* motors_park(), motors_unpark(); the home slew with its stop; the slews of goto
\* and move, behind which tracking resumes; the new home, which leaves PARKED.
Park ==
  status' = "parked" /\ tracking' = "none" /\ queue' = <<>> /\ active' = Nothing
Unpark == status = "parked" /\ status' = "ready" /\ UNCHANGED <<tracking, queue, active>>
SetHome == status' = "ready" /\ tracking' = "none" /\ queue' = <<>> /\ active' = Nothing
SlewHome ==
  /\ status # "parked"
  /\ status' = "ready" /\ tracking' = "none" /\ active' = Nothing
  /\ queue' \in {<<Slew>>, <<>>}       \* none when home is outside the limits
SlewBy ==
  /\ status # "parked"
  /\ IF Tracking
     THEN /\ status' = "ready" /\ tracking' = "none" /\ active' = Nothing
          /\ queue' = <<Slew, Track(tracking)>>
     ELSE Room /\ Put(Slew)
-----------------------------------------------------------------------------
(***************************************************************************)
(* The motion task                                                         *)
(***************************************************************************)
Receiver == <<remembered, pc, locals, requests, history>>

\* The next command, when the task is free, or a newer setpoint or mode is
\* waiting.
Takes ==
  \/ active = Nothing
  \/ active.type \in {"move", "track"} /\ Head(queue).type = active.type

StartCommand ==
  /\ queue # <<>> /\ ~Error
  /\ Takes
  /\ active' = Head(queue) /\ queue' = Tail(queue)
  /\ status' = IF Head(queue).type = "track" THEN "tracking" ELSE "slewing"
  /\ tracking' = Head(queue).mode
  /\ owed' = IF tracking' = owed THEN "none" ELSE owed
  /\ UNCHANGED <<remembered, pc, locals, requests, asked, stopped>>

Finish ==
  /\ status' = "ready" /\ tracking' = "none" /\ active' = Nothing
  /\ UNCHANGED <<queue, Receiver>>

\* A slew arrives, a manual motion reaches the limit; tracking need not.
Complete == active.type \in {"slew", "move"} /\ Finish
TrackingEnds == active.type = "track" /\ Finish

\* The rail drops: the motion ends, the queue is discarded.  It comes back.
PowerLost ==
  /\ ~Error /\ status' = "error" /\ owed' = "none"
  /\ queue' = <<>> /\ active' = Nothing
  /\ UNCHANGED <<tracking, remembered, pc, locals, requests, asked, stopped>>

PowerBack ==
  /\ Error /\ status' = "ready" /\ tracking' = "none"
  /\ UNCHANGED <<queue, active, Receiver>>

MotionTask == StartCommand \/ Complete
-----------------------------------------------------------------------------
(***************************************************************************)
(* The handlers of the receive task.  A new request ends what an earlier   *)
(* one is owed.                                                            *)
(***************************************************************************)
Accept(kind) ==
  pc = "idle" /\ requests[kind] > 0 /\ requests' = [requests EXCEPT ![kind] = @ - 1]
Goto(l) == pc' = l

\* The end of a handler, and of its locals.
Reply ==
  /\ Goto("idle") /\ fields' = NoRates /\ mode' = Omitted
  /\ want' = Zero /\ keep' = "none" /\ asking' = Zero

\* mount_stop() and mount_move_axis_reset().
MountStop_KeepsMemory == ~Error /\ UNCHANGED remembered /\ MotorsStop

MountStop ==
  /\ ~Error
  /\ saved' = "none" /\ rate' = Zero
  /\ MotorsStop

\* proto_handle_control(): everything is parsed first; then tracking, then rates.
AnyRate(r) == \E a \in Axes : r[a] # Omitted
Malformed(t, r) == t = Invalid \/ \E a \in Axes : r[a] = Invalid

Control(t, r) ==
  /\ Accept("motion")
  /\ IF Malformed(t, r) \/ (t = Omitted /\ ~AnyRate(r))
     THEN UNCHANGED <<pc, fields, mode, owed>>
     ELSE /\ fields' = r /\ mode' = t /\ owed' = "none"
          /\ Goto(IF t = Omitted THEN "move" ELSE "tracking")
  /\ UNCHANGED <<remembered, motors, want, keep, asking, asked, stopped>>

SetTracking ==
  /\ pc = "tracking"
  /\ \/ StartsTracking(mode) /\ AnyRate(fields) /\ Goto("move") /\ UNCHANGED locals
     \/ StartsTracking(mode) /\ ~AnyRate(fields) /\ Reply
     \/ TrackingRefused(mode) /\ Reply /\ UNCHANGED motors
  /\ UNCHANGED <<remembered, requests, history>>

\* Stop with scope `manual' is a control message with both rates zero.
StopManual ==
  /\ Accept("motion")
  /\ fields' = Zero /\ owed' = "none" /\ Goto("move")
  /\ UNCHANGED <<remembered, motors, mode, want, keep, asking, asked, stopped>>

\* The rates of the axes that the message leaves out come from the cache.
Wanted == [a \in Axes |-> IF fields[a] = Omitted THEN rate[a] ELSE fields[a]]

Asks == [a \in Axes |-> IF fields[a] = Omitted THEN asked[a] ELSE fields[a]]

\* mount_set_move_axis_speed() up to its first call of the motors.
MoveAxes ==
  /\ pc = "move"
  /\ \/ Error /\ Reply /\ UNCHANGED history
     \/ /\ ~Error /\ Wanted = Zero
        /\ keep' = saved /\ Goto("stop")
        /\ owed' = IF status = "parked" THEN "none" ELSE saved
        /\ UNCHANGED <<fields, mode, want, asking, asked, stopped>>
     \/ /\ ~Error /\ Wanted # Zero
        /\ want' = Wanted /\ asking' = Asks
        /\ IF Tracking THEN keep' = tracking /\ Goto("interrupt")
                       ELSE UNCHANGED keep /\ Goto("order")
        /\ stopped' = FALSE
        /\ UNCHANGED <<fields, mode, asked, owed>>
  /\ UNCHANGED <<remembered, motors, requests>>

\* The end of a manual motion: stop, then what it interrupted.
StopMoving_ReadsLate ==
  /\ pc = "stop"
  /\ \/ Error /\ Reply /\ UNCHANGED <<remembered, motors, asked>>
     \/ /\ MountStop /\ asked' = Zero
        /\ IF saved' = "none" THEN Reply
           ELSE keep' = saved' /\ Goto("restore") /\ UNCHANGED <<fields, mode, want, asking>>
  /\ UNCHANGED <<requests, stopped, owed>>

StopMoving ==
  /\ pc = "stop"
  /\ \/ Error /\ Reply /\ UNCHANGED <<remembered, motors, asked>>
     \/ /\ MountStop /\ asked' = Zero
        /\ IF keep = "none" THEN Reply
           ELSE Goto("restore") /\ UNCHANGED locals
  /\ UNCHANGED <<requests, stopped, owed>>

Restore ==
  /\ pc = "restore" /\ Reply
  /\ StartsTracking(keep) \/ (TrackingRefused(keep) /\ UNCHANGED motors)
  /\ UNCHANGED <<remembered, requests, history>>

\* A manual motion interrupts tracking: mount_stop(), then remember the mode.
Interrupt ==
  /\ pc = "interrupt"
  /\ \/ Error /\ Reply /\ UNCHANGED <<remembered, motors, asked>>
     \/ /\ ~Error /\ MotorsStop
        /\ saved' = keep /\ rate' = Zero /\ asked' = Zero
        /\ Goto("order") /\ UNCHANGED locals
  /\ UNCHANGED <<requests, stopped, owed>>

\* motors_set_move_axis_speed(); the cache follows what the motors accepted.
OrderRefused == Error \/ status = "parked" \/ ~Room
Order_CachesFirst ==
  /\ pc = "order" /\ Reply
  /\ rate' = want
  /\ \/ OrderRefused /\ UNCHANGED <<motors, asked>>
     \/ ~OrderRefused /\ Put(Move(want)) /\ asked' = asking
  /\ UNCHANGED <<saved, requests, stopped, owed>>

Order ==
  /\ pc = "order" /\ Reply
  /\ \/ OrderRefused /\ UNCHANGED <<rate, motors, asked>>
     \/ ~OrderRefused /\ Put(Move(want)) /\ rate' = want /\ asked' = asking
  /\ UNCHANGED <<saved, requests, stopped, owed>>

\* The actions that are one call of the motors: stop with scope `all', park,
\* unpark, home and goto.  Only the stop clears what the mount remembers.
StopAll ==
  /\ Accept("motion")
  /\ \/ Error /\ UNCHANGED <<remembered, motors, history>>
     \/ MountStop /\ asked' = Zero /\ stopped' = TRUE /\ owed' = "none"
  /\ UNCHANGED <<pc, locals>>

OtherAction ==
  /\ Accept("motion")
  /\ \/ ~Error /\ (Park \/ Unpark \/ SlewHome \/ SlewBy) /\ owed' = "none"
     \/ UNCHANGED <<motors, owed>>      \* refused: no clock, out of range, ...
  /\ UNCHANGED <<remembered, pc, locals, asked, stopped>>

ManualRequest ==
  \/ \E t \in Modes \cup {Omitted, "none", Invalid},
        r \in [Axes -> Rates \cup {0, Omitted, Invalid}] : Control(t, r)
  \/ StopManual \/ StopAll

HandlerStep == SetTracking \/ MoveAxes \/ StopMoving \/ Restore \/ Interrupt \/ Order
=============================================================================
