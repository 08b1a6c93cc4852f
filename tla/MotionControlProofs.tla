------------------------ MODULE MotionControlProofs ------------------------
(***************************************************************************)
(* The safety invariants of MotionControl, for every number of STOPs,      *)
(* every queue capacity and every set of tracking modes.                   *)
(*                                                                         *)
(* They follow from one inductive invariant, Inv, whose core is the STOP   *)
(* protocol: between the moment a request clears the queue and the moment  *)
(* it returns nothing can be queued, since the receive task is the only    *)
(* producer; so the epoch it bumps makes every command the motion task may *)
(* still hold a stale one, which process_command() discards.               *)
(***************************************************************************)
EXTENDS MotionControl, TLAPS

\* The labels of the receive task from the queue clear to the end of
\* motors_motion_stop().
Stopping == {"clear", "settle", "bump", "halt", "quell"}

\* The request each step of the receive task works for.
RequestOfStep ==
  /\ rx \in Stopping => req.op \in StopOps \cup {"slew", "manual"}
  /\ rx = "enter" => req.op \in {"home", "slew", "manual"}
  /\ rx = "put" => req.op \in {"slew", "manual", "track", "guide"}
  /\ rx = "resume" => saved # NONE

\* From the queue clear on nothing is queued until the request submits its own
\* command.
AfterClear == {"settle", "bump", "halt", "quell", "park", "await", "commit"}
QueueStaysClear == rx \in AfterClear => queue = <<>>

\* A motion submitted by a slew or a MoveAxis that had to stop a tracking first
\* passed the PARKED gate, and only park() could take it back.
SlewPassedGate ==
  rx \in Stopping /\ req.op \in {"slew", "manual"} => status # "PARKED"

\* A command held by the motion task is no newer than the current epoch, and
\* older once a STOP has bumped it.
AfterBump == {"halt", "quell", "park", "await", "commit"}
HeldEpoch ==
  /\ cmd.generation <= generation
  /\ rx \in AfterBump /\ pc \in {"took", "proc", "recv"} =>
       cmd.generation < generation

\* What the idle signal tells about the motion task, and what is left of the
\* motion it had when a control operation has taken the signal.
IdleSignal ==
  /\ idle => pc \in {"wait", "took"}
  /\ inline => pc \in {"proc", "apply", "flag", "go"}
  /\ rx \in {"quell", "await"} /\ pc = "took" => ~active
  /\ rx = "commit" =>
       /\ pc \in {"wait", "took", "proc", "enter", "dispatch", "slew", "track",
                  "end"}
       /\ ~inline
       /\ active => pc = "wait"

\* After a failed start nothing runs: the fault outlives every power cycle.
FaultIsFinal ==
  hwFault => status = "ERROR" /\ pc = "dead" /\ rx = "idle" /\ main = "tick"

Inv ==
  /\ TypeOK /\ RequestOfStep
  /\ QueueStaysClear /\ QueueEpoch
  /\ TrackingHasMode
  /\ SlewPassedGate /\ ParkedAcceptsNothing
  /\ HeldEpoch /\ IdleSignal
  /\ FaultIsFinal
-----------------------------------------------------------------------------
\* TypeOK in two parts: assignments of Booleans need another prover.
FlagsOK ==
  /\ guiding \in BOOLEAN /\ active \in BOOLEAN /\ idle \in BOOLEAN
  /\ powerFault \in BOOLEAN /\ hwFault \in BOOLEAN /\ inline \in BOOLEAN

ValuesOK ==
  /\ status \in Status
  /\ tracking \in Modes \cup {NONE}
  /\ queue \in Seq(Command) /\ Len(queue) <= Capacity
  /\ generation \in Nat
  /\ guide \in [Axes -> {"off", "ahead", "passed"}]
  /\ pc \in TaskLabels
  /\ cmd \in Command \cup {NoCommand}
  /\ runGeneration \in Nat
  /\ rx \in RxLabels
  /\ req \in Request \cup {NoRequest}
  /\ saved \in Modes \cup {NONE}
  /\ main \in {"tick", "restore"}

\* The two parts make the whole.
LEMMA TypeParts == TypeOK <=> FlagsOK /\ ValuesOK
  BY DEF TypeOK, FlagsOK, ValuesOK

\* A Boolean variable only ever receives a Boolean.
LEMMA FlagsStep == FlagsOK /\ [Next]_vars => FlagsOK'
<1> SUFFICES ASSUME FlagsOK, [Next]_vars PROVE FlagsOK'
  OBVIOUS
<1> USE DEF FlagsOK, state, shared, faults, task, client, vars, RxGoto,
      RxDone, Goto
<1>1. ASSUME NEW r \in Request, Begin(r) PROVE FlagsOK'
  BY Zenon, <1>1 DEF Begin, Admitted, FirstStep, Settled
<1>2. CASE QueueClear
  BY Zenon, <1>2 DEF QueueClear
<1>3. CASE StopSettle
  BY Zenon, <1>3 DEF StopSettle
<1>4. CASE BumpGeneration
  BY Zenon, <1>4 DEF BumpGeneration
<1>5. CASE Halt
  BY Zenon, <1>5 DEF Halt
<1>6. CASE Quell
  BY Zenon, <1>6 DEF Quell, AfterStop, GuideOff
<1>7. CASE ParkSettle
  BY Zenon, <1>7 DEF ParkSettle
<1>8. CASE Unpark
  BY Zenon, <1>8 DEF Unpark
<1>9. CASE Enter
  BY Zenon, <1>9 DEF Enter, MotionOp
<1>10. CASE Put
  BY Zenon, <1>10 DEF Put, MakeCommand, CommandTypeOf
<1>11. CASE Resume
  BY Zenon, <1>11 DEF Resume, MakeCommand, CommandTypeOf
<1>12. CASE PutTimeout
  BY Zenon, <1>12 DEF PutTimeout
<1>13. CASE WaitIdle
  BY Zenon, <1>13 DEF WaitIdle
<1>14. CASE WaitIdleTimeout
  BY Zenon, <1>14 DEF WaitIdleTimeout
<1>15. CASE Commit
  BY Zenon, <1>15 DEF Commit
<1>16. CASE Receive
  BY Zenon, <1>16 DEF Receive
<1>17. CASE ConsumeIdle
  BY Zenon, <1>17 DEF ConsumeIdle
<1>18. CASE Discard
  BY Zenon, <1>18 DEF Discard, Return
<1>19. CASE Accept
  BY Zenon, <1>19 DEF Accept
<1>20. CASE ApplyMotion
  BY Zenon, <1>20 DEF ApplyMotion
<1>21. CASE ApplyGuide
  BY Zenon, <1>21 DEF ApplyGuide
<1>22. CASE FlagGuiding
  BY Zenon, <1>22 DEF FlagGuiding
<1>23. CASE Go
  BY Zenon, <1>23 DEF Go, Return
<1>24. CASE EnterLoop
  BY Zenon, <1>24 DEF EnterLoop
<1>25. CASE Dispatch
  BY Zenon, <1>25 DEF Dispatch
<1>26. CASE LeaveLoop
  BY Zenon, <1>26 DEF LeaveLoop
<1>27. CASE SlewError
  BY Zenon, <1>27 DEF SlewError, Abort
<1>28. CASE SlewPreempted
  BY Zenon, <1>28 DEF SlewPreempted
<1>29. CASE SlewDone
  BY Zenon, <1>29 DEF SlewDone
<1>30. CASE Finish
  BY Zenon, <1>30 DEF Finish
<1>31. CASE TrackPeek
  BY Zenon, <1>31 DEF TrackPeek, Inlined
<1>32. CASE TrackReceive
  BY Zenon, <1>32 DEF TrackReceive
<1>33. CASE TrackPoll
  BY Zenon, <1>33 DEF TrackPoll, Abort, Expire, Inlined, Guided
<1>34. CASE TrackAtTarget
  BY Zenon, <1>34 DEF TrackAtTarget, Expire, Inlined, Guided
<1>35. CASE EmitSteps
  BY Zenon, <1>35 DEF EmitSteps
<1>36. CASE EmitRaFails
  BY Zenon, <1>36 DEF EmitRaFails
<1>37. CASE TrackFail
  BY Zenon, <1>37 DEF TrackFail
<1>38. CASE EmitDecFails
  BY Zenon, <1>38 DEF EmitDecFails
<1>39. CASE EndCommand
  BY Zenon, <1>39 DEF EndCommand
<1>40. ASSUME NEW a \in Axes, GuideDue(a) PROVE FlagsOK'
  BY Zenon, <1>40 DEF GuideDue
<1>41. CASE PowerLost
  BY Zenon, <1>41 DEF PowerLost, RxYields
<1>42. CASE PowerBack
  BY Zenon, <1>42 DEF PowerBack, RxYields, ErrorSeen
<1>43. CASE PowerRestore
  BY Zenon, <1>43 DEF PowerRestore, RxYields
<1>44. CASE UNCHANGED vars
  BY <1>44
<1> QED
  BY <1>1, <1>2, <1>3, <1>4, <1>5, <1>6, <1>7, <1>8, <1>9, <1>10, <1>11,
     <1>12, <1>13, <1>14, <1>15, <1>16, <1>17, <1>18, <1>19, <1>20, <1>21,
     <1>22, <1>23, <1>24, <1>25, <1>26, <1>27, <1>28, <1>29, <1>30, <1>31,
     <1>32, <1>33, <1>34, <1>35, <1>36, <1>37, <1>38, <1>39, <1>40, <1>41,
     <1>42, <1>43, <1>44 DEF Next, RxStep, MotionStep

\* The other variables keep their types; Put and Resume check the room in the
\* queue, and a request names the arguments its command needs.
LEMMA ValuesStep == ValuesOK /\ RequestOfStep /\ [Next]_vars => ValuesOK'
<1> SUFFICES ASSUME ValuesOK /\ RequestOfStep, [Next]_vars PROVE ValuesOK'
  OBVIOUS
<1> USE ConstantsOK DEF ValuesOK, Status, TaskLabels, RxLabels, RequestOfStep,
      Stopping, state, shared, faults, task, client, vars, RxGoto, RxDone, Goto
<1>0. Expire(guide) \in [Axes -> {"off", "ahead", "passed"}]
  BY DEF Expire
<1>1. ASSUME NEW r \in Request, Begin(r) PROVE ValuesOK'
  BY <1>1 DEF Begin, Admitted, FirstStep, Settled, Request, NoRequest,
     StopOps, MotionOps, Axes
<1>2. CASE QueueClear
  BY <1>2 DEF QueueClear
<1>3. CASE StopSettle
  BY <1>3 DEF StopSettle
<1>4. CASE BumpGeneration
  BY <1>4 DEF BumpGeneration
<1>5. CASE Halt
  BY <1>5 DEF Halt
<1>6. CASE Quell
  BY <1>6 DEF Quell, AfterStop, GuideOff, Request, NoRequest, StopOps,
     MotionOps, Axes
<1>7. CASE ParkSettle
  BY <1>7 DEF ParkSettle
<1>8. CASE Unpark
  BY <1>8 DEF Unpark
<1>9. CASE Enter
  BY <1>9 DEF Enter, MotionOp, Request, NoRequest, StopOps, MotionOps, Axes
<1>10. CASE Put
  BY <1>10 DEF Put, MakeCommand, CommandTypeOf, Request, NoRequest, StopOps,
     MotionOps, Axes, Command
<1>11. CASE Resume
  <2> DEFINE c == MakeCommand([op |-> "track", arg |-> saved])
  <2>1. CASE UNCHANGED queue
    BY <1>11, <2>1 DEF Resume, NoRequest
  <2>2. CASE status \notin {"ERROR", "PARKED"}
    <3>1. saved \in Modes
      BY <1>11 DEF Resume
    <3>2. c = [type |-> "TRACK", arg |-> saved, generation |-> generation]
      BY DEF MakeCommand, CommandTypeOf
    <3>3. c \in Command
      BY <3>1, <3>2 DEF Command
    <3>4. Len(queue) < Capacity /\ queue' = Append(queue, c)
      BY <1>11, <2>2 DEF Resume
    <3> HIDE DEF c
    <3>5. queue' \in Seq(Command) /\ Len(queue') <= Capacity
      BY <3>3, <3>4
    <3> QED  BY <1>11, <3>5 DEF Resume, NoRequest
  <2> QED  BY <1>11, <2>1, <2>2 DEF Resume
<1>12. CASE PutTimeout
  BY <1>12 DEF PutTimeout
<1>13. CASE WaitIdle
  BY <1>13 DEF WaitIdle
<1>14. CASE WaitIdleTimeout
  BY <1>14 DEF WaitIdleTimeout
<1>15. CASE Commit
  BY <1>15 DEF Commit
<1>16. CASE Receive
  BY <1>16 DEF Receive
<1>17. CASE ConsumeIdle
  BY <1>17 DEF ConsumeIdle
<1>18. CASE Discard
  BY <1>18 DEF Discard, Return
<1>19. CASE Accept
  BY <1>19 DEF Accept
<1>20. CASE ApplyMotion
  BY <1>20 DEF ApplyMotion, Command, NoCommand, Axes
<1>21. CASE ApplyGuide
  BY <1>21 DEF ApplyGuide, Command, NoCommand, Axes
<1>22. CASE FlagGuiding
  BY <1>22 DEF FlagGuiding
<1>23. CASE Go
  BY <1>23 DEF Go, Return, Command, NoCommand, Axes
<1>24. CASE EnterLoop
  BY <1>24 DEF EnterLoop
<1>25. CASE Dispatch
  BY <1>25 DEF Dispatch
<1>26. CASE LeaveLoop
  BY <1>26 DEF LeaveLoop
<1>27. CASE SlewError
  BY <1>27 DEF SlewError, Abort
<1>28. CASE SlewPreempted
  BY <1>28 DEF SlewPreempted
<1>29. CASE SlewDone
  BY <1>29 DEF SlewDone
<1>30. CASE Finish
  BY <1>30 DEF Finish
<1>31. CASE TrackPeek
  BY <1>31 DEF TrackPeek, Inlined
<1>32. CASE TrackReceive
  BY <1>32 DEF TrackReceive
<1>33. CASE TrackPoll
  <2>1. /\ guide' = Expire(guide) /\ pc' \in {"end", "emit"} /\ status' \in {status, "ERROR"}
        /\ UNCHANGED <<tracking, queue, generation, cmd, runGeneration, rx, req, saved, main>>
    BY <1>33 DEF TrackPoll, Abort
  <2> QED  BY <1>0, <2>1
<1>34. CASE TrackAtTarget
  BY <1>0, <1>34 DEF TrackAtTarget
<1>35. CASE EmitSteps
  BY <1>35 DEF EmitSteps
<1>36. CASE EmitRaFails
  BY <1>36 DEF EmitRaFails
<1>37. CASE TrackFail
  BY <1>37 DEF TrackFail
<1>38. CASE EmitDecFails
  <2>1. [guide EXCEPT !["DEC"] = "off"] \in [Axes -> {"off", "ahead", "passed"}]
    OBVIOUS
  <2> QED  BY <1>38, <2>1 DEF EmitDecFails
<1>39. CASE EndCommand
  BY <1>39 DEF EndCommand, NoCommand
<1>40. ASSUME NEW a \in Axes, GuideDue(a) PROVE ValuesOK'
  BY <1>40 DEF GuideDue
<1>41. CASE PowerLost
  BY <1>41 DEF PowerLost, RxYields
<1>42. CASE PowerBack
  BY <1>42 DEF PowerBack, RxYields, ErrorSeen
<1>43. CASE PowerRestore
  BY <1>43 DEF PowerRestore, RxYields
<1>44. CASE UNCHANGED vars
  BY <1>44
<1> QED
  BY <1>1, <1>2, <1>3, <1>4, <1>5, <1>6, <1>7, <1>8, <1>9, <1>10, <1>11,
     <1>12, <1>13, <1>14, <1>15, <1>16, <1>17, <1>18, <1>19, <1>20, <1>21,
     <1>22, <1>23, <1>24, <1>25, <1>26, <1>27, <1>28, <1>29, <1>30, <1>31,
     <1>32, <1>33, <1>34, <1>35, <1>36, <1>37, <1>38, <1>39, <1>40, <1>41,
     <1>42, <1>43, <1>44 DEF Next, RxStep, MotionStep

\* Each step of the receive task leads to one that suits the same request.
LEMMA RequestStep == Inv /\ [Next]_vars => RequestOfStep'
<1> SUFFICES ASSUME Inv, [Next]_vars PROVE RequestOfStep'
  OBVIOUS
<1> USE ConstantsOK DEF Inv, TypeOK, Status, RxLabels, TaskLabels,
      RequestOfStep, Stopping,
      Request, NoRequest, Command, NoCommand, StopOps, MotionOps, Axes,
      state, shared, faults, task, client, vars, RxGoto, RxDone, Goto
<1>1. ASSUME NEW r \in Request, Begin(r) PROVE RequestOfStep'
  BY <1>1 DEF Begin, Admitted, FirstStep, Settled
<1>2. CASE QueueClear
  BY <1>2 DEF QueueClear
<1>3. CASE StopSettle
  BY <1>3 DEF StopSettle
<1>4. CASE BumpGeneration
  BY <1>4 DEF BumpGeneration
<1>5. CASE Halt
  BY <1>5 DEF Halt
<1>6. CASE Quell
  BY <1>6 DEF Quell, AfterStop, GuideOff
<1>7. CASE ParkSettle
  BY <1>7 DEF ParkSettle
<1>8. CASE Unpark
  BY <1>8 DEF Unpark
<1>9. CASE Enter
  BY <1>9 DEF Enter, MotionOp
<1>10. CASE Put
  BY <1>10 DEF Put, MakeCommand, CommandTypeOf
<1>11. CASE Resume
  BY <1>11 DEF Resume, MakeCommand, CommandTypeOf
<1>12. CASE PutTimeout
  BY <1>12 DEF PutTimeout
<1>13. CASE WaitIdle
  BY <1>13 DEF WaitIdle
<1>14. CASE WaitIdleTimeout
  BY <1>14 DEF WaitIdleTimeout
<1>15. CASE Commit
  BY <1>15 DEF Commit
<1>16. CASE UNCHANGED <<rx, req, saved>>
  BY <1>16
<1> QED
  BY <1>1, <1>2, <1>3, <1>4, <1>5, <1>6, <1>7, <1>8, <1>9, <1>10, <1>11,
     <1>12, <1>13, <1>14, <1>15, <1>16 DEF Next, RxStep, MotionStep,
     Receive, ConsumeIdle, Discard, Accept, ApplyMotion, ApplyGuide,
     FlagGuiding, Go, EnterLoop, Dispatch, LeaveLoop, SlewError,
     SlewPreempted, SlewDone, Finish, TrackPeek, TrackReceive, TrackPoll,
     TrackAtTarget, EmitSteps, EmitRaFails, TrackFail, EmitDecFails,
     EndCommand, GuideDue, PowerLost, PowerBack, PowerRestore

\* The receive task is the only producer: what it clears stays clear until it
\* puts its own command, and it bumps the epoch only in between.
LEMMA QueueStep == Inv /\ [Next]_vars => (QueueStaysClear /\ QueueEpoch)'
<1> SUFFICES ASSUME Inv, [Next]_vars PROVE (QueueStaysClear /\ QueueEpoch)'
  OBVIOUS
<1> USE ConstantsOK DEF Inv, TypeOK, Status, RxLabels, TaskLabels,
      RequestOfStep, Stopping, AfterClear, AfterBump, QueueStaysClear,
      QueueEpoch,
      Request, NoRequest, Command, NoCommand, StopOps, MotionOps, Axes,
      state, shared, faults, task, client, vars, RxGoto, RxDone, Goto
<1>1. ASSUME NEW r \in Request, Begin(r) PROVE (QueueStaysClear /\ QueueEpoch)'
  BY <1>1 DEF Begin, Admitted, FirstStep, Settled
<1>2. CASE QueueClear
  BY <1>2 DEF QueueClear
<1>3. CASE StopSettle
  BY <1>3 DEF StopSettle
<1>4. CASE BumpGeneration
  BY <1>4 DEF BumpGeneration
<1>5. CASE Halt
  BY <1>5 DEF Halt
<1>6. CASE Quell
  BY <1>6 DEF Quell, AfterStop, GuideOff
<1>7. CASE ParkSettle
  BY <1>7 DEF ParkSettle
<1>8. CASE Unpark
  BY <1>8 DEF Unpark
<1>9. CASE Enter
  BY <1>9 DEF Enter, MotionOp
<1>10. CASE Put
  BY <1>10 DEF Put, MakeCommand, CommandTypeOf
<1>11. CASE Resume
  <2>1. CASE queue' = queue
    BY <1>11, <2>1 DEF Resume
  <2>2. CASE queue' = Append(queue, MakeCommand([op |-> "track",
                                                     arg |-> saved]))
    <3> DEFINE c == MakeCommand([op |-> "track", arg |-> saved])
    <3>1. c \in Command /\ c.generation = generation
      BY <1>11 DEF Resume, MakeCommand, CommandTypeOf
    <3>2. generation' = generation /\ rx' = "idle"
      BY <1>11 DEF Resume
    <3> HIDE DEF c
    <3> QED
      BY <2>2, <3>1, <3>2 DEF c
  <2> QED
    BY <1>11, <2>1, <2>2 DEF Resume
<1>12. CASE PutTimeout
  BY <1>12 DEF PutTimeout
<1>13. CASE WaitIdle
  BY <1>13 DEF WaitIdle
<1>14. CASE WaitIdleTimeout
  BY <1>14 DEF WaitIdleTimeout
<1>15. CASE Commit
  BY <1>15 DEF Commit
<1>16. CASE Receive
  BY <1>16 DEF Receive
<1>17. CASE TrackReceive
  <2>1. CASE queue = <<>>
    BY <1>17, <2>1 DEF TrackReceive
  <2>2. CASE queue # <<>>
    <3>1. queue' = Tail(queue) /\ generation' = generation /\ rx' = rx
      BY <1>17, <2>2 DEF TrackReceive
    <3>2. \A i \in 1..Len(Tail(queue)) : Tail(queue)[i] = queue[i + 1]
                                       /\ i + 1 \in 1..Len(queue)
      BY <2>2
    <3> QED
      BY <2>2, <3>1, <3>2
  <2> QED
    BY <2>1, <2>2
<1>18. CASE UNCHANGED <<queue, generation, rx>>
  BY <1>18
<1> QED
  BY <1>1, <1>2, <1>3, <1>4, <1>5, <1>6, <1>7, <1>8, <1>9, <1>10, <1>11,
     <1>12, <1>13, <1>14, <1>15, <1>16, <1>17, <1>18 DEF Next, RxStep,
     MotionStep, ConsumeIdle, Discard, Accept, ApplyMotion, ApplyGuide,
     FlagGuiding, Go, EnterLoop, Dispatch, LeaveLoop, SlewError,
     SlewPreempted, SlewDone, Finish, TrackPeek, TrackPoll, TrackAtTarget,
     EmitSteps, EmitRaFails, TrackFail, EmitDecFails, EndCommand, GuideDue,
     PowerLost, PowerBack, PowerRestore

\* A TRACK command carries a mode, and the stores that reset the mode also
\* replace the status.
LEMMA ModeStep == Inv /\ [Next]_vars => TrackingHasMode'
<1> SUFFICES ASSUME Inv, [Next]_vars PROVE TrackingHasMode'
  OBVIOUS
<1> USE ConstantsOK DEF Inv, TypeOK, Status, RxLabels, TaskLabels,
      TrackingHasMode,
      Request, NoRequest, Command, NoCommand, StopOps, MotionOps, Axes,
      state, shared, faults, task, client, vars, RxGoto, RxDone, Goto
<1>1. CASE StopSettle
  BY <1>1 DEF StopSettle
<1>2. CASE ParkSettle
  BY <1>2 DEF ParkSettle
<1>3. CASE Unpark
  BY <1>3 DEF Unpark
<1>4. CASE Commit
  BY <1>4 DEF Commit
<1>5. CASE ApplyMotion
  BY <1>5 DEF ApplyMotion
<1>6. CASE SlewError
  BY <1>6 DEF SlewError, Abort
<1>7. CASE Finish
  BY <1>7 DEF Finish
<1>8. CASE TrackPoll
  BY <1>8 DEF TrackPoll, Abort, Expire, Inlined, Guided
<1>9. CASE TrackFail
  BY <1>9 DEF TrackFail
<1>10. CASE PowerLost
  BY <1>10 DEF PowerLost, RxYields
<1>11. CASE PowerRestore
  BY <1>11 DEF PowerRestore, RxYields
<1>12. CASE UNCHANGED <<status, tracking>>
  BY <1>12
<1> QED
  BY <1>1, <1>2, <1>3, <1>4, <1>5, <1>6, <1>7, <1>8, <1>9, <1>10, <1>11,
     <1>12 DEF Next, RxStep, MotionStep, Begin, QueueClear, BumpGeneration,
     Halt, Quell, Enter, Put, Resume, PutTimeout, WaitIdle, WaitIdleTimeout,
     Receive, ConsumeIdle, Discard, Accept, ApplyGuide, FlagGuiding, Go,
     EnterLoop, Dispatch, LeaveLoop, SlewPreempted, SlewDone, TrackPeek,
     TrackReceive, TrackAtTarget, EmitSteps, EmitRaFails, EmitDecFails,
     EndCommand, GuideDue, PowerBack

\* Only park() publishes PARKED, after it cleared the queue, and every request
\* that puts a command has passed the gate since.
LEMMA ParkStep == Inv /\ [Next]_vars => (SlewPassedGate /\ ParkedAcceptsNothing)'
<1> SUFFICES ASSUME Inv, [Next]_vars PROVE (SlewPassedGate /\ ParkedAcceptsNothing)'
  OBVIOUS
<1> USE ConstantsOK DEF Inv, TypeOK, Status, RxLabels, TaskLabels,
      RequestOfStep, Stopping, AfterClear, AfterBump, QueueStaysClear,
      SlewPassedGate, ParkedAcceptsNothing,
      Request, NoRequest, Command, NoCommand, StopOps, MotionOps, Axes,
      state, shared, faults, task, client, vars, RxGoto, RxDone, Goto
<1>1. ASSUME NEW r \in Request, Begin(r) PROVE (SlewPassedGate /\ ParkedAcceptsNothing)'
  BY <1>1 DEF Begin, Admitted, FirstStep, Settled
<1>2. CASE QueueClear
  BY <1>2 DEF QueueClear
<1>3. CASE StopSettle
  BY <1>3 DEF StopSettle
<1>4. CASE BumpGeneration
  BY <1>4 DEF BumpGeneration
<1>5. CASE Halt
  BY <1>5 DEF Halt
<1>6. CASE Quell
  BY <1>6 DEF Quell, AfterStop, GuideOff
<1>7. CASE ParkSettle
  BY <1>7 DEF ParkSettle
<1>8. CASE Unpark
  BY <1>8 DEF Unpark
<1>9. CASE Enter
  BY <1>9 DEF Enter, MotionOp
<1>10. CASE Put
  BY <1>10 DEF Put, MakeCommand, CommandTypeOf
<1>11. CASE Resume
  BY <1>11 DEF Resume, MakeCommand, CommandTypeOf
<1>12. CASE PutTimeout
  BY <1>12 DEF PutTimeout
<1>13. CASE WaitIdle
  BY <1>13 DEF WaitIdle
<1>14. CASE WaitIdleTimeout
  BY <1>14 DEF WaitIdleTimeout
<1>15. CASE Commit
  BY <1>15 DEF Commit
<1>16. CASE Receive
  BY <1>16 DEF Receive
<1>17. CASE ApplyMotion
  BY <1>17 DEF ApplyMotion
<1>18. CASE SlewError
  BY <1>18 DEF SlewError, Abort
<1>19. CASE Finish
  BY <1>19 DEF Finish
<1>20. CASE TrackReceive
  BY <1>20 DEF TrackReceive
<1>21. CASE TrackPoll
  BY <1>21 DEF TrackPoll, Abort, Expire, Inlined, Guided
<1>22. CASE TrackFail
  BY <1>22 DEF TrackFail
<1>23. CASE PowerLost
  BY <1>23 DEF PowerLost, RxYields
<1>24. CASE PowerRestore
  BY <1>24 DEF PowerRestore, RxYields
<1>25. CASE UNCHANGED <<status, queue, rx, req>>
  BY <1>25
<1> QED
  BY <1>1, <1>2, <1>3, <1>4, <1>5, <1>6, <1>7, <1>8, <1>9, <1>10, <1>11,
     <1>12, <1>13, <1>14, <1>15, <1>16, <1>17, <1>18, <1>19, <1>20, <1>21,
     <1>22, <1>23, <1>24, <1>25 DEF Next, RxStep, MotionStep, ConsumeIdle,
     Discard, Accept, ApplyGuide, FlagGuiding, Go, EnterLoop, Dispatch,
     LeaveLoop, SlewPreempted, SlewDone, TrackPeek, TrackAtTarget,
     EmitSteps, EmitRaFails, EmitDecFails, EndCommand, GuideDue, PowerBack

\* The motion task takes its commands from the queue, whose epochs are current;
\* the bump makes what it holds older.
LEMMA EpochStep == Inv /\ [Next]_vars => HeldEpoch'
<1> SUFFICES ASSUME Inv, [Next]_vars PROVE HeldEpoch'
  OBVIOUS
<1> USE ConstantsOK DEF Inv, TypeOK, Status, RxLabels, TaskLabels,
      RequestOfStep, Stopping, AfterClear, AfterBump, QueueStaysClear,
      QueueEpoch, HeldEpoch,
      Request, NoRequest, Command, NoCommand, StopOps, MotionOps, Axes,
      state, shared, faults, task, client, vars, RxGoto, RxDone, Goto
<1>1. ASSUME NEW r \in Request, Begin(r) PROVE HeldEpoch'
  BY <1>1 DEF Begin, Admitted, FirstStep, Settled
<1>2. CASE QueueClear
  BY <1>2 DEF QueueClear
<1>3. CASE StopSettle
  BY <1>3 DEF StopSettle
<1>4. CASE BumpGeneration
  BY <1>4 DEF BumpGeneration
<1>5. CASE Halt
  BY <1>5 DEF Halt
<1>6. CASE Quell
  BY <1>6 DEF Quell, AfterStop, GuideOff
<1>7. CASE ParkSettle
  BY <1>7 DEF ParkSettle
<1>8. CASE Unpark
  BY <1>8 DEF Unpark
<1>9. CASE Enter
  BY <1>9 DEF Enter, MotionOp
<1>10. CASE Put
  BY <1>10 DEF Put, MakeCommand, CommandTypeOf
<1>11. CASE Resume
  BY <1>11 DEF Resume, MakeCommand, CommandTypeOf
<1>12. CASE PutTimeout
  BY <1>12 DEF PutTimeout
<1>13. CASE WaitIdle
  BY <1>13 DEF WaitIdle
<1>14. CASE WaitIdleTimeout
  BY <1>14 DEF WaitIdleTimeout
<1>15. CASE Commit
  BY <1>15 DEF Commit
<1>16. CASE Receive
  BY <1>16 DEF Receive
<1>17. CASE ConsumeIdle
  BY <1>17 DEF ConsumeIdle
<1>18. CASE Discard
  BY <1>18 DEF Discard, Return
<1>19. CASE Accept
  BY <1>19 DEF Accept
<1>20. CASE ApplyMotion
  BY <1>20 DEF ApplyMotion
<1>21. CASE ApplyGuide
  BY <1>21 DEF ApplyGuide
<1>22. CASE FlagGuiding
  BY <1>22 DEF FlagGuiding
<1>23. CASE Go
  BY <1>23 DEF Go, Return
<1>24. CASE EnterLoop
  BY <1>24 DEF EnterLoop
<1>25. CASE Dispatch
  BY <1>25 DEF Dispatch
<1>26. CASE LeaveLoop
  BY <1>26 DEF LeaveLoop
<1>27. CASE SlewError
  BY <1>27 DEF SlewError, Abort
<1>28. CASE SlewPreempted
  BY <1>28 DEF SlewPreempted
<1>29. CASE SlewDone
  BY <1>29 DEF SlewDone
<1>30. CASE Finish
  BY <1>30 DEF Finish
<1>31. CASE TrackPeek
  BY <1>31 DEF TrackPeek, Inlined
<1>32. CASE TrackReceive
  BY <1>32 DEF TrackReceive
<1>33. CASE TrackPoll
  BY <1>33 DEF TrackPoll, Abort, Expire, Inlined, Guided
<1>34. CASE TrackAtTarget
  BY <1>34 DEF TrackAtTarget, Expire, Inlined, Guided
<1>35. CASE EmitSteps
  BY <1>35 DEF EmitSteps
<1>36. CASE EmitRaFails
  BY <1>36 DEF EmitRaFails
<1>37. CASE TrackFail
  BY <1>37 DEF TrackFail
<1>38. CASE EmitDecFails
  BY <1>38 DEF EmitDecFails
<1>39. CASE EndCommand
  BY <1>39 DEF EndCommand
<1>40. CASE UNCHANGED <<cmd, generation, rx, pc>>
  BY <1>40
<1> QED
  BY <1>1, <1>2, <1>3, <1>4, <1>5, <1>6, <1>7, <1>8, <1>9, <1>10, <1>11,
     <1>12, <1>13, <1>14, <1>15, <1>16, <1>17, <1>18, <1>19, <1>20, <1>21,
     <1>22, <1>23, <1>24, <1>25, <1>26, <1>27, <1>28, <1>29, <1>30, <1>31,
     <1>32, <1>33, <1>34, <1>35, <1>36, <1>37, <1>38, <1>39, <1>40 DEF Next,
     RxStep, MotionStep, GuideDue, PowerLost, PowerBack, PowerRestore

\* A motion task that has signalled idle can only take commands a control
\* operation has already made stale, and those it discards.
LEMMA IdleStep == Inv /\ [Next]_vars => IdleSignal'
<1> SUFFICES ASSUME Inv, [Next]_vars PROVE IdleSignal'
  OBVIOUS
<1> USE ConstantsOK DEF Inv, TypeOK, Status, RxLabels, TaskLabels,
      RequestOfStep, Stopping, AfterClear, AfterBump, QueueStaysClear,
      HeldEpoch, IdleSignal,
      Request, NoRequest, Command, NoCommand, StopOps, MotionOps, Axes,
      state, shared, faults, task, client, vars, RxGoto, RxDone, Goto
<1>1. ASSUME NEW r \in Request, Begin(r) PROVE IdleSignal'
  BY <1>1 DEF Begin, Admitted, FirstStep, Settled
<1>2. CASE QueueClear
  BY <1>2 DEF QueueClear
<1>3. CASE StopSettle
  BY <1>3 DEF StopSettle
<1>4. CASE BumpGeneration
  BY <1>4 DEF BumpGeneration
<1>5. CASE Halt
  BY <1>5 DEF Halt
<1>6. CASE Quell
  BY <1>6 DEF Quell, AfterStop, GuideOff
<1>7. CASE ParkSettle
  BY <1>7 DEF ParkSettle
<1>8. CASE Unpark
  BY <1>8 DEF Unpark
<1>9. CASE Enter
  BY <1>9 DEF Enter, MotionOp
<1>10. CASE Put
  BY <1>10 DEF Put, MakeCommand, CommandTypeOf
<1>11. CASE Resume
  BY <1>11 DEF Resume, MakeCommand, CommandTypeOf
<1>12. CASE PutTimeout
  BY <1>12 DEF PutTimeout
<1>13. CASE WaitIdle
  BY <1>13 DEF WaitIdle
<1>14. CASE WaitIdleTimeout
  BY <1>14 DEF WaitIdleTimeout
<1>15. CASE Commit
  BY <1>15 DEF Commit
<1>16. CASE Receive
  BY <1>16 DEF Receive
<1>17. CASE ConsumeIdle
  BY <1>17 DEF ConsumeIdle
<1>18. CASE Discard
  BY <1>18 DEF Discard, Return
<1>19. CASE Accept
  BY <1>19 DEF Accept
<1>20. CASE ApplyMotion
  BY <1>20 DEF ApplyMotion
<1>21. CASE ApplyGuide
  BY <1>21 DEF ApplyGuide
<1>22. CASE FlagGuiding
  BY <1>22 DEF FlagGuiding
<1>23. CASE Go
  BY <1>23 DEF Go, Return
<1>24. CASE EnterLoop
  BY <1>24 DEF EnterLoop
<1>25. CASE Dispatch
  BY <1>25 DEF Dispatch
<1>26. CASE LeaveLoop
  BY <1>26 DEF LeaveLoop
<1>27. CASE SlewError
  BY <1>27 DEF SlewError, Abort
<1>28. CASE SlewPreempted
  BY <1>28 DEF SlewPreempted
<1>29. CASE SlewDone
  BY <1>29 DEF SlewDone
<1>30. CASE Finish
  BY <1>30 DEF Finish
<1>31. CASE TrackPeek
  BY <1>31 DEF TrackPeek, Inlined
<1>32. CASE TrackReceive
  BY <1>32 DEF TrackReceive
<1>33. CASE TrackPoll
  BY <1>33 DEF TrackPoll, Abort, Expire, Inlined, Guided
<1>34. CASE TrackAtTarget
  BY <1>34 DEF TrackAtTarget, Expire, Inlined, Guided
<1>35. CASE EmitSteps
  BY <1>35 DEF EmitSteps
<1>36. CASE EmitRaFails
  BY <1>36 DEF EmitRaFails
<1>37. CASE TrackFail
  BY <1>37 DEF TrackFail
<1>38. CASE EmitDecFails
  BY <1>38 DEF EmitDecFails
<1>39. CASE EndCommand
  BY <1>39 DEF EndCommand
<1>40. CASE UNCHANGED <<idle, inline, active, rx, pc>>
  BY <1>40
<1> QED
  BY <1>1, <1>2, <1>3, <1>4, <1>5, <1>6, <1>7, <1>8, <1>9, <1>10, <1>11,
     <1>12, <1>13, <1>14, <1>15, <1>16, <1>17, <1>18, <1>19, <1>20, <1>21,
     <1>22, <1>23, <1>24, <1>25, <1>26, <1>27, <1>28, <1>29, <1>30, <1>31,
     <1>32, <1>33, <1>34, <1>35, <1>36, <1>37, <1>38, <1>39, <1>40 DEF Next,
     RxStep, MotionStep, GuideDue, PowerLost, PowerBack, PowerRestore

\* Every gate of a request and of motors_update_power() refuses in a latched
\* hardware fault.
LEMMA FaultStep == Inv /\ [Next]_vars => FaultIsFinal'
<1> SUFFICES ASSUME Inv, [Next]_vars PROVE FaultIsFinal'
  OBVIOUS
<1> USE ConstantsOK DEF Inv, TypeOK, Status, RxLabels, TaskLabels,
      FaultIsFinal,
      Request, NoRequest, Command, NoCommand, StopOps, MotionOps, Axes,
      state, shared, faults, task, client, vars, RxGoto, RxDone, Goto
<1>1. ASSUME NEW r \in Request, Begin(r) PROVE FaultIsFinal'
  BY <1>1 DEF Begin, Admitted, FirstStep, Settled
<1>2. CASE QueueClear
  BY <1>2 DEF QueueClear
<1>3. CASE StopSettle
  BY <1>3 DEF StopSettle
<1>4. CASE BumpGeneration
  BY <1>4 DEF BumpGeneration
<1>5. CASE Halt
  BY <1>5 DEF Halt
<1>6. CASE Quell
  BY <1>6 DEF Quell, AfterStop, GuideOff
<1>7. CASE ParkSettle
  BY <1>7 DEF ParkSettle
<1>8. CASE Unpark
  BY <1>8 DEF Unpark
<1>9. CASE Enter
  BY <1>9 DEF Enter, MotionOp
<1>10. CASE Put
  BY <1>10 DEF Put, MakeCommand, CommandTypeOf
<1>11. CASE Resume
  BY <1>11 DEF Resume, MakeCommand, CommandTypeOf
<1>12. CASE PutTimeout
  BY <1>12 DEF PutTimeout
<1>13. CASE WaitIdle
  BY <1>13 DEF WaitIdle
<1>14. CASE WaitIdleTimeout
  BY <1>14 DEF WaitIdleTimeout
<1>15. CASE Commit
  BY <1>15 DEF Commit
<1>16. CASE Receive
  BY <1>16 DEF Receive
<1>17. CASE ConsumeIdle
  BY <1>17 DEF ConsumeIdle
<1>18. CASE Discard
  BY <1>18 DEF Discard, Return
<1>19. CASE Accept
  BY <1>19 DEF Accept
<1>20. CASE ApplyMotion
  BY <1>20 DEF ApplyMotion
<1>21. CASE ApplyGuide
  BY <1>21 DEF ApplyGuide
<1>22. CASE FlagGuiding
  BY <1>22 DEF FlagGuiding
<1>23. CASE Go
  BY <1>23 DEF Go, Return
<1>24. CASE EnterLoop
  BY <1>24 DEF EnterLoop
<1>25. CASE Dispatch
  BY <1>25 DEF Dispatch
<1>26. CASE LeaveLoop
  BY <1>26 DEF LeaveLoop
<1>27. CASE SlewError
  BY <1>27 DEF SlewError, Abort
<1>28. CASE SlewPreempted
  BY <1>28 DEF SlewPreempted
<1>29. CASE SlewDone
  BY <1>29 DEF SlewDone
<1>30. CASE Finish
  BY <1>30 DEF Finish
<1>31. CASE TrackPeek
  BY <1>31 DEF TrackPeek, Inlined
<1>32. CASE TrackReceive
  BY <1>32 DEF TrackReceive
<1>33. CASE TrackPoll
  BY <1>33 DEF TrackPoll, Abort, Expire, Inlined, Guided
<1>34. CASE TrackAtTarget
  BY <1>34 DEF TrackAtTarget, Expire, Inlined, Guided
<1>35. CASE EmitSteps
  BY <1>35 DEF EmitSteps
<1>36. CASE EmitRaFails
  BY <1>36 DEF EmitRaFails
<1>37. CASE TrackFail
  BY <1>37 DEF TrackFail
<1>38. CASE EmitDecFails
  BY <1>38 DEF EmitDecFails
<1>39. CASE EndCommand
  BY <1>39 DEF EndCommand
<1>40. CASE PowerLost
  BY <1>40 DEF PowerLost, RxYields
<1>41. CASE PowerBack
  BY <1>41 DEF PowerBack, RxYields, ErrorSeen
<1>42. CASE PowerRestore
  BY <1>42 DEF PowerRestore, RxYields
<1>43. CASE UNCHANGED <<hwFault, status, pc, rx, main>>
  BY <1>43
<1> QED
  BY <1>1, <1>2, <1>3, <1>4, <1>5, <1>6, <1>7, <1>8, <1>9, <1>10, <1>11,
     <1>12, <1>13, <1>14, <1>15, <1>16, <1>17, <1>18, <1>19, <1>20, <1>21,
     <1>22, <1>23, <1>24, <1>25, <1>26, <1>27, <1>28, <1>29, <1>30, <1>31,
     <1>32, <1>33, <1>34, <1>35, <1>36, <1>37, <1>38, <1>39, <1>40, <1>41,
     <1>42, <1>43 DEF Next, RxStep, MotionStep, GuideDue

-----------------------------------------------------------------------------
\* The inductive invariant holds initially, whether or not the RMT came up.
LEMMA InvInit == Init => Inv
<1> SUFFICES ASSUME Init
             PROVE  Inv
  OBVIOUS
<1> USE ConstantsOK DEF Init
<1>1. FlagsOK
  BY Zenon DEF FlagsOK
<1>2. ValuesOK
  BY DEF ValuesOK, Status, TaskLabels, RxLabels, NoRequest, NoCommand, GuideOff
<1>3. RequestOfStep /\ QueueStaysClear /\ QueueEpoch
  BY DEF RequestOfStep, Stopping, AfterClear, QueueStaysClear, QueueEpoch
<1>4. TrackingHasMode /\ SlewPassedGate /\ ParkedAcceptsNothing
  BY DEF TrackingHasMode, SlewPassedGate, Stopping, ParkedAcceptsNothing
<1>5. HeldEpoch /\ IdleSignal /\ FaultIsFinal
  BY DEF HeldEpoch, AfterBump, NoCommand, IdleSignal, FaultIsFinal
<1> QED
  BY <1>1, <1>2, <1>3, <1>4, <1>5, TypeParts DEF Inv

\* Every step of the system preserves the inductive invariant.
LEMMA InvStep == Inv /\ [Next]_vars => Inv'
<1> SUFFICES ASSUME Inv, [Next]_vars
             PROVE  Inv'
  OBVIOUS
<1>1. FlagsOK /\ ValuesOK /\ RequestOfStep
  BY TypeParts DEF Inv
<1>2. FlagsOK' /\ ValuesOK'
  BY <1>1, FlagsStep, ValuesStep
<1>3. TypeOK'
  BY <1>2 DEF TypeOK, FlagsOK, ValuesOK
<1> QED
  BY <1>3, RequestStep, QueueStep, ModeStep, ParkStep, EpochStep, IdleStep,
     FaultStep DEF Inv

\* Inv is an invariant of the system.
THEOREM Invariance == Spec => []Inv
  BY InvInit, InvStep, PTL DEF Spec

\* The variables keep their types and the queue its capacity: the two puts of a
\* paused goto check the room each on its own.
THEOREM TypeCorrect == Spec => []TypeOK
<1>1. Inv => TypeOK
  BY DEF Inv
<1> QED
  BY <1>1, Invariance, PTL

\* motors_queue_clear() comes before the epoch bump, so no command waits in the
\* queue with an epoch that process_command() would discard.
THEOREM QueueHoldsCurrentEpoch == Spec => []QueueEpoch
<1>1. Inv => QueueEpoch
  BY DEF Inv
<1> QED
  BY <1>1, Invariance, PTL

\* status TRACKING is never visible with TRACKING_NONE, so
\* check_motion_conditions() never meets an "external tracking stop".
THEOREM TrackingNeverModeless == Spec => []TrackingHasMode
<1>1. Inv => TrackingHasMode
  BY DEF Inv
<1> QED
  BY <1>1, Invariance, PTL

\* Nothing is queued, and nothing about to be, while the mount is PARKED.
THEOREM ParkedIsQuiet == Spec => []ParkedAcceptsNothing
<1>1. Inv => ParkedAcceptsNothing
  BY DEF Inv
<1> QED
  BY <1>1, Invariance, PTL

\* No power cycle and no request takes a mount whose RMT failed out of ERROR.
THEOREM FaultIsLatched == Spec => []HwFaultLatched
<1>1. Inv => HwFaultLatched
  BY DEF Inv, FaultIsFinal, HwFaultLatched
<1> QED
  BY <1>1, Invariance, PTL

\* When motors_motion_wait_idle() returns because the semaphore was given, the
\* motion task leaves the position counters alone until the request has written
\* them: the epoch bump turned whatever the task still holds into a stale command.
THEOREM IdleExcludesMotion == Spec => []HomeExclusion
<1>1. Inv => HomeExclusion
  BY DEF Inv, IdleSignal, HomeExclusion, Applying
<1> QED
  BY <1>1, Invariance, PTL
=============================================================================
