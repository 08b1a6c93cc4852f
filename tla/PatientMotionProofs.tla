------------------------ MODULE PatientMotionProofs ------------------------
(***************************************************************************)
(* What a patient client may rely on: MotionControl with a client that     *)
(* sends a request only to a mount that shows the last one.  The requests, *)
(* the faults and the power of the rail are free.                          *)
(*                                                                         *)
(* A STOP misses a motion when it falls between the epoch check and the    *)
(* store to `active' (the run lost_stop).  A patient client cannot hit     *)
(* that window: its request begins with an empty queue, so from there to   *)
(* its own put the motion task has no command to check.                    *)
(***************************************************************************)
EXTENDS MotionControlProofs

\* Where the motion task is between two commands, or in a loop it goes on with
\* until somebody clears `active'.
Resting == {"wait", "dead", "slew", "finish", "track", "emit", "fail", "end"}

\* Until a request submits its own command the motion task has none.
TaskRests == rx \notin {"idle", "resume"} => queue = <<>> /\ pc \in Resting

\* A command that passed the epoch check is of the current epoch until it is
\* armed.
ArmedIsCurrent == Applying => cmd.generation = generation

\* What comes inline comes to a tracking loop that goes on.
InlineRuns == pc = "recv" \/ inline => active

\* A stop other than the one of park() has taken TRACKING back before it clears
\* `active'.
StopShows ==
  rx \in {"bump", "halt", "quell"} /\ req.op # "park" => status # "TRACKING"

\* TRACKING is visible while the loop runs, is about to be armed, or is about to
\* take the status back; only park() clears `active' under it.
TrackingRuns ==
  status = "TRACKING" /\ rx \notin {"quell", "park"} =>
    /\ \/ inline
       \/ pc \in {"go", "enter", "dispatch", "track", "recv", "emit", "finish",
                  "fail"}
    /\ ~active => pc \in {"go", "fail"}
    /\ pc = "go" => inline \/ cmd.type = "TRACK"

PatientInv ==
  /\ TaskRests /\ ArmedIsCurrent /\ InlineRuns
  /\ StopShows /\ TrackingRuns
  /\ NoStaleMotion
-----------------------------------------------------------------------------
\* A request begins when nothing is queued and the motion task rests; only the
\* queue gets it out of that.
LEMMA RestStep ==
  PatientClient /\ Inv /\ PatientInv /\ [Next]_vars => TaskRests'
<1> SUFFICES ASSUME PatientClient, Inv, PatientInv, [Next]_vars PROVE TaskRests'
  OBVIOUS
<1> USE ConstantsOK DEF Inv, PatientInv, TaskRests, Resting, Request,
      StopOps, MotionOps, IdleSignal, vars, state, shared, faults, task,
      client, RxGoto, RxDone, Goto
<1>1. ASSUME NEW r \in Request, Begin(r) PROVE TaskRests'
  BY <1>1 DEF Begin, Admitted, FirstStep, Settled
<1>2. CASE QueueClear
  BY <1>2 DEF QueueClear
<1>3. CASE StopSettle
  BY <1>3 DEF StopSettle
<1>4. CASE BumpGeneration
  BY <1>4 DEF BumpGeneration
<1>5. CASE Halt
  BY <1>5 DEF Halt
<1>6. CASE Quell
  BY <1>6 DEF Quell, AfterStop, GuideOff
<1>7. CASE ParkSettle
  BY <1>7 DEF ParkSettle
<1>8. CASE Unpark
  BY <1>8 DEF Unpark
<1>9. CASE Enter
  BY <1>9 DEF Enter, MotionOp
<1>10. CASE Put
  BY <1>10 DEF Put, MakeCommand, CommandTypeOf
<1>11. CASE Resume
  BY <1>11 DEF Resume, MakeCommand, CommandTypeOf
<1>12. CASE PutTimeout
  BY <1>12 DEF PutTimeout
<1>13. CASE WaitIdle
  BY <1>13 DEF WaitIdle
<1>14. CASE WaitIdleTimeout
  BY <1>14 DEF WaitIdleTimeout
<1>15. CASE Commit
  BY <1>15 DEF Commit
<1>16. CASE Receive
  BY <1>16 DEF Receive
<1>17. CASE ConsumeIdle
  BY <1>17 DEF ConsumeIdle
<1>18. CASE Discard
  BY <1>18 DEF Discard, Return
<1>19. CASE Accept
  BY <1>19 DEF Accept
<1>20. CASE ApplyMotion
  BY <1>20 DEF ApplyMotion
<1>21. CASE ApplyGuide
  BY <1>21 DEF ApplyGuide
<1>22. CASE FlagGuiding
  BY <1>22 DEF FlagGuiding
<1>23. CASE Go
  BY <1>23 DEF Go, Return
<1>24. CASE EnterLoop
  BY <1>24 DEF EnterLoop
<1>25. CASE Dispatch
  BY <1>25 DEF Dispatch
<1>26. CASE LeaveLoop
  BY <1>26 DEF LeaveLoop
<1>27. CASE SlewError
  BY <1>27 DEF SlewError, Abort
<1>28. CASE SlewPreempted
  BY <1>28 DEF SlewPreempted
<1>29. CASE SlewDone
  BY <1>29 DEF SlewDone
<1>30. CASE Finish
  BY <1>30 DEF Finish
<1>31. CASE TrackPeek
  BY <1>31 DEF TrackPeek, Inlined
<1>32. CASE TrackReceive
  BY <1>32 DEF TrackReceive
<1>33. CASE TrackPoll
  BY <1>33 DEF TrackPoll, Abort, Expire, Inlined, Guided
<1>34. CASE TrackAtTarget
  BY <1>34 DEF TrackAtTarget, Expire, Inlined, Guided
<1>35. CASE EmitSteps
  BY <1>35 DEF EmitSteps
<1>36. CASE EmitRaFails
  BY <1>36 DEF EmitRaFails
<1>37. CASE TrackFail
  BY <1>37 DEF TrackFail
<1>38. CASE EmitDecFails
  BY <1>38 DEF EmitDecFails
<1>39. CASE EndCommand
  BY <1>39 DEF EndCommand
<1>40. CASE PowerLost
  BY <1>40 DEF PowerLost, RxYields
<1>41. CASE PowerBack
  BY <1>41 DEF PowerBack, RxYields, ErrorSeen
<1>42. CASE PowerRestore
  BY <1>42 DEF PowerRestore, RxYields
<1>43. CASE UNCHANGED <<rx, queue, pc>>
  BY <1>43
<1> QED
  BY <1>1, <1>2, <1>3, <1>4, <1>5, <1>6, <1>7, <1>8, <1>9, <1>10, <1>11,
     <1>12, <1>13, <1>14, <1>15, <1>16, <1>17, <1>18, <1>19, <1>20, <1>21,
     <1>22, <1>23, <1>24, <1>25, <1>26, <1>27, <1>28, <1>29, <1>30, <1>31,
     <1>32, <1>33, <1>34, <1>35, <1>36, <1>37, <1>38, <1>39, <1>40, <1>41,
     <1>42, <1>43 DEF Next, RxStep, MotionStep, GuideDue

\* The epoch moves only while the motion task rests, and so does a stop clear
\* `active'.
LEMMA ArmStep ==
  PatientClient /\ Inv /\ PatientInv /\ [Next]_vars => (ArmedIsCurrent /\ InlineRuns)'
<1> SUFFICES ASSUME PatientClient, Inv, PatientInv, [Next]_vars PROVE (ArmedIsCurrent /\ InlineRuns)'
  OBVIOUS
<1> USE ConstantsOK DEF Inv, PatientInv, TypeOK, TaskRests, Resting,
      ArmedIsCurrent, InlineRuns, Applying, IdleSignal, vars, state, shared,
      faults, task, client, RxGoto, RxDone, Goto
<1>1. ASSUME NEW r \in Request, Begin(r) PROVE (ArmedIsCurrent /\ InlineRuns)'
  BY <1>1 DEF Begin, Admitted, FirstStep, Settled
<1>2. CASE QueueClear
  BY <1>2 DEF QueueClear
<1>3. CASE StopSettle
  BY <1>3 DEF StopSettle
<1>4. CASE BumpGeneration
  BY <1>4 DEF BumpGeneration
<1>5. CASE Halt
  BY <1>5 DEF Halt
<1>6. CASE Quell
  BY <1>6 DEF Quell, AfterStop, GuideOff
<1>7. CASE ParkSettle
  BY <1>7 DEF ParkSettle
<1>8. CASE Unpark
  BY <1>8 DEF Unpark
<1>9. CASE Enter
  BY <1>9 DEF Enter, MotionOp
<1>10. CASE Put
  BY <1>10 DEF Put, MakeCommand, CommandTypeOf
<1>11. CASE Resume
  BY <1>11 DEF Resume, MakeCommand, CommandTypeOf
<1>12. CASE PutTimeout
  BY <1>12 DEF PutTimeout
<1>13. CASE WaitIdle
  BY <1>13 DEF WaitIdle
<1>14. CASE WaitIdleTimeout
  BY <1>14 DEF WaitIdleTimeout
<1>15. CASE Commit
  BY <1>15 DEF Commit
<1>16. CASE Receive
  BY <1>16 DEF Receive
<1>17. CASE ConsumeIdle
  BY <1>17 DEF ConsumeIdle
<1>18. CASE Discard
  BY <1>18 DEF Discard, Return
<1>19. CASE Accept
  BY <1>19 DEF Accept
<1>20. CASE ApplyMotion
  BY <1>20 DEF ApplyMotion
<1>21. CASE ApplyGuide
  BY <1>21 DEF ApplyGuide
<1>22. CASE FlagGuiding
  BY <1>22 DEF FlagGuiding
<1>23. CASE Go
  BY <1>23 DEF Go, Return
<1>24. CASE EnterLoop
  BY <1>24 DEF EnterLoop
<1>25. CASE Dispatch
  BY <1>25 DEF Dispatch
<1>26. CASE LeaveLoop
  BY <1>26 DEF LeaveLoop
<1>27. CASE SlewError
  BY <1>27 DEF SlewError, Abort
<1>28. CASE SlewPreempted
  BY <1>28 DEF SlewPreempted
<1>29. CASE SlewDone
  BY <1>29 DEF SlewDone
<1>30. CASE Finish
  BY <1>30 DEF Finish
<1>31. CASE TrackPeek
  BY <1>31 DEF TrackPeek, Inlined
<1>32. CASE TrackReceive
  BY <1>32 DEF TrackReceive
<1>33. CASE TrackPoll
  BY <1>33 DEF TrackPoll, Abort, Expire, Inlined, Guided
<1>34. CASE TrackAtTarget
  BY <1>34 DEF TrackAtTarget, Expire, Inlined, Guided
<1>35. CASE EmitSteps
  BY <1>35 DEF EmitSteps
<1>36. CASE EmitRaFails
  BY <1>36 DEF EmitRaFails
<1>37. CASE TrackFail
  BY <1>37 DEF TrackFail
<1>38. CASE EmitDecFails
  BY <1>38 DEF EmitDecFails
<1>39. CASE EndCommand
  BY <1>39 DEF EndCommand
<1>40. CASE PowerLost
  BY <1>40 DEF PowerLost, RxYields
<1>41. CASE PowerBack
  BY <1>41 DEF PowerBack, RxYields, ErrorSeen
<1>42. CASE PowerRestore
  BY <1>42 DEF PowerRestore, RxYields
<1>43. CASE UNCHANGED <<pc, cmd, generation, inline, active>>
  BY <1>43
<1> QED
  BY <1>1, <1>2, <1>3, <1>4, <1>5, <1>6, <1>7, <1>8, <1>9, <1>10, <1>11,
     <1>12, <1>13, <1>14, <1>15, <1>16, <1>17, <1>18, <1>19, <1>20, <1>21,
     <1>22, <1>23, <1>24, <1>25, <1>26, <1>27, <1>28, <1>29, <1>30, <1>31,
     <1>32, <1>33, <1>34, <1>35, <1>36, <1>37, <1>38, <1>39, <1>40, <1>41,
     <1>42, <1>43 DEF Next, RxStep, MotionStep, GuideDue

\* The critical section of motors_stop() comes before its bump, and no command is
\* being applied that would publish TRACKING again.
LEMMA ShowStep ==
  PatientClient /\ Inv /\ PatientInv /\ [Next]_vars => StopShows'
<1> SUFFICES ASSUME PatientClient, Inv, PatientInv, [Next]_vars PROVE StopShows'
  OBVIOUS
<1> USE ConstantsOK DEF Inv, PatientInv, TaskRests, Resting, StopShows,
      Request, StopOps, MotionOps, vars, state, shared, faults, task,
      client, RxGoto, RxDone, Goto
<1>1. ASSUME NEW r \in Request, Begin(r) PROVE StopShows'
  BY <1>1 DEF Begin, Admitted, FirstStep, Settled
<1>2. CASE QueueClear
  BY <1>2 DEF QueueClear
<1>3. CASE StopSettle
  BY <1>3 DEF StopSettle
<1>4. CASE BumpGeneration
  BY <1>4 DEF BumpGeneration
<1>5. CASE Halt
  BY <1>5 DEF Halt
<1>6. CASE Quell
  BY <1>6 DEF Quell, AfterStop, GuideOff
<1>7. CASE ParkSettle
  BY <1>7 DEF ParkSettle
<1>8. CASE Unpark
  BY <1>8 DEF Unpark
<1>9. CASE Enter
  BY <1>9 DEF Enter, MotionOp
<1>10. CASE Put
  BY <1>10 DEF Put, MakeCommand, CommandTypeOf
<1>11. CASE Resume
  BY <1>11 DEF Resume, MakeCommand, CommandTypeOf
<1>12. CASE PutTimeout
  BY <1>12 DEF PutTimeout
<1>13. CASE WaitIdle
  BY <1>13 DEF WaitIdle
<1>14. CASE WaitIdleTimeout
  BY <1>14 DEF WaitIdleTimeout
<1>15. CASE Commit
  BY <1>15 DEF Commit
<1>16. CASE Receive
  BY <1>16 DEF Receive
<1>17. CASE ConsumeIdle
  BY <1>17 DEF ConsumeIdle
<1>18. CASE Discard
  BY <1>18 DEF Discard, Return
<1>19. CASE Accept
  BY <1>19 DEF Accept
<1>20. CASE ApplyMotion
  BY <1>20 DEF ApplyMotion
<1>21. CASE ApplyGuide
  BY <1>21 DEF ApplyGuide
<1>22. CASE FlagGuiding
  BY <1>22 DEF FlagGuiding
<1>23. CASE Go
  BY <1>23 DEF Go, Return
<1>24. CASE EnterLoop
  BY <1>24 DEF EnterLoop
<1>25. CASE Dispatch
  BY <1>25 DEF Dispatch
<1>26. CASE LeaveLoop
  BY <1>26 DEF LeaveLoop
<1>27. CASE SlewError
  BY <1>27 DEF SlewError, Abort
<1>28. CASE SlewPreempted
  BY <1>28 DEF SlewPreempted
<1>29. CASE SlewDone
  BY <1>29 DEF SlewDone
<1>30. CASE Finish
  BY <1>30 DEF Finish
<1>31. CASE TrackPeek
  BY <1>31 DEF TrackPeek, Inlined
<1>32. CASE TrackReceive
  BY <1>32 DEF TrackReceive
<1>33. CASE TrackPoll
  BY <1>33 DEF TrackPoll, Abort, Expire, Inlined, Guided
<1>34. CASE TrackAtTarget
  BY <1>34 DEF TrackAtTarget, Expire, Inlined, Guided
<1>35. CASE EmitSteps
  BY <1>35 DEF EmitSteps
<1>36. CASE EmitRaFails
  BY <1>36 DEF EmitRaFails
<1>37. CASE TrackFail
  BY <1>37 DEF TrackFail
<1>38. CASE EmitDecFails
  BY <1>38 DEF EmitDecFails
<1>39. CASE EndCommand
  BY <1>39 DEF EndCommand
<1>40. CASE PowerLost
  BY <1>40 DEF PowerLost, RxYields
<1>41. CASE PowerBack
  BY <1>41 DEF PowerBack, RxYields, ErrorSeen
<1>42. CASE PowerRestore
  BY <1>42 DEF PowerRestore, RxYields
<1>43. CASE UNCHANGED <<rx, req, status>>
  BY <1>43
<1> QED
  BY <1>1, <1>2, <1>3, <1>4, <1>5, <1>6, <1>7, <1>8, <1>9, <1>10, <1>11,
     <1>12, <1>13, <1>14, <1>15, <1>16, <1>17, <1>18, <1>19, <1>20, <1>21,
     <1>22, <1>23, <1>24, <1>25, <1>26, <1>27, <1>28, <1>29, <1>30, <1>31,
     <1>32, <1>33, <1>34, <1>35, <1>36, <1>37, <1>38, <1>39, <1>40, <1>41,
     <1>42, <1>43 DEF Next, RxStep, MotionStep, GuideDue

\* Every way out of the tracking loop takes TRACKING back, except the one of
\* park(), which does it last.
LEMMA TrackingStep ==
  PatientClient /\ Inv /\ PatientInv /\ [Next]_vars => TrackingRuns'
<1> SUFFICES ASSUME PatientClient, Inv, PatientInv, [Next]_vars PROVE TrackingRuns'
  OBVIOUS
<1> USE ConstantsOK DEF Inv, PatientInv, TypeOK, RequestOfStep, Stopping,
      TaskRests, Resting, InlineRuns, StopShows, TrackingRuns,
      TrackingHasMode, IdleSignal, QueueStaysClear, AfterClear, vars, state,
      shared, faults, task, client, RxGoto, RxDone, Goto
<1>1. ASSUME NEW r \in Request, Begin(r) PROVE TrackingRuns'
  BY <1>1 DEF Begin, Admitted, FirstStep, Settled
<1>2. CASE QueueClear
  BY <1>2 DEF QueueClear
<1>3. CASE StopSettle
  BY <1>3 DEF StopSettle
<1>4. CASE BumpGeneration
  BY <1>4 DEF BumpGeneration
<1>5. CASE Halt
  BY <1>5 DEF Halt
<1>6. CASE Quell
  BY <1>6 DEF Quell, AfterStop, GuideOff
<1>7. CASE ParkSettle
  BY <1>7 DEF ParkSettle
<1>8. CASE Unpark
  BY <1>8 DEF Unpark
<1>9. CASE Enter
  BY <1>9 DEF Enter, MotionOp
<1>10. CASE Put
  BY <1>10 DEF Put, MakeCommand, CommandTypeOf
<1>11. CASE Resume
  BY <1>11 DEF Resume, MakeCommand, CommandTypeOf
<1>12. CASE PutTimeout
  BY <1>12 DEF PutTimeout
<1>13. CASE WaitIdle
  BY <1>13 DEF WaitIdle
<1>14. CASE WaitIdleTimeout
  BY <1>14 DEF WaitIdleTimeout
<1>15. CASE Commit
  BY <1>15 DEF Commit
<1>16. CASE Receive
  BY <1>16 DEF Receive
<1>17. CASE ConsumeIdle
  BY <1>17 DEF ConsumeIdle
<1>18. CASE Discard
  BY <1>18 DEF Discard, Return
<1>19. CASE Accept
  BY <1>19 DEF Accept
<1>20. CASE ApplyMotion
  BY <1>20 DEF ApplyMotion
<1>21. CASE ApplyGuide
  BY <1>21 DEF ApplyGuide
<1>22. CASE FlagGuiding
  BY <1>22 DEF FlagGuiding
<1>23. CASE Go
  BY <1>23 DEF Go, Return
<1>24. CASE EnterLoop
  BY <1>24 DEF EnterLoop
<1>25. CASE Dispatch
  BY <1>25 DEF Dispatch
<1>26. CASE LeaveLoop
  BY <1>26 DEF LeaveLoop
<1>27. CASE SlewError
  BY <1>27 DEF SlewError, Abort
<1>28. CASE SlewPreempted
  BY <1>28 DEF SlewPreempted
<1>29. CASE SlewDone
  BY <1>29 DEF SlewDone
<1>30. CASE Finish
  BY <1>30 DEF Finish
<1>31. CASE TrackPeek
  BY <1>31 DEF TrackPeek, Inlined
<1>32. CASE TrackReceive
  BY <1>32 DEF TrackReceive
<1>33. CASE TrackPoll
  BY <1>33 DEF TrackPoll, Abort, Expire, Inlined, Guided
<1>34. CASE TrackAtTarget
  BY <1>34 DEF TrackAtTarget, Expire, Inlined, Guided
<1>35. CASE EmitSteps
  BY <1>35 DEF EmitSteps
<1>36. CASE EmitRaFails
  BY <1>36 DEF EmitRaFails
<1>37. CASE TrackFail
  BY <1>37 DEF TrackFail
<1>38. CASE EmitDecFails
  BY <1>38 DEF EmitDecFails
<1>39. CASE EndCommand
  BY <1>39 DEF EndCommand
<1>40. CASE PowerLost
  BY <1>40 DEF PowerLost, RxYields
<1>41. CASE PowerBack
  BY <1>41 DEF PowerBack, RxYields, ErrorSeen
<1>42. CASE PowerRestore
  BY <1>42 DEF PowerRestore, RxYields
<1>43. CASE UNCHANGED <<status, rx, inline, pc, active, cmd>>
  BY <1>43
<1> QED
  BY <1>1, <1>2, <1>3, <1>4, <1>5, <1>6, <1>7, <1>8, <1>9, <1>10, <1>11,
     <1>12, <1>13, <1>14, <1>15, <1>16, <1>17, <1>18, <1>19, <1>20, <1>21,
     <1>22, <1>23, <1>24, <1>25, <1>26, <1>27, <1>28, <1>29, <1>30, <1>31,
     <1>32, <1>33, <1>34, <1>35, <1>36, <1>37, <1>38, <1>39, <1>40, <1>41,
     <1>42, <1>43 DEF Next, RxStep, MotionStep, GuideDue

\* `active' is set for the current epoch, and a bump is followed by its clearing.
LEMMA StaleStep ==
  PatientClient /\ Inv /\ PatientInv /\ [Next]_vars => NoStaleMotion'
<1> SUFFICES ASSUME PatientClient, Inv, PatientInv, [Next]_vars PROVE NoStaleMotion'
  OBVIOUS
<1> USE ConstantsOK DEF Inv, PatientInv, TypeOK, TaskRests, Resting,
      ArmedIsCurrent, Applying, NoStaleMotion, vars, state, shared, faults,
      task, client, RxGoto, RxDone, Goto
<1>1. ASSUME NEW r \in Request, Begin(r) PROVE NoStaleMotion'
  BY <1>1 DEF Begin, Admitted, FirstStep, Settled
<1>2. CASE QueueClear
  BY <1>2 DEF QueueClear
<1>3. CASE StopSettle
  BY <1>3 DEF StopSettle
<1>4. CASE BumpGeneration
  BY <1>4 DEF BumpGeneration
<1>5. CASE Halt
  BY <1>5 DEF Halt
<1>6. CASE Quell
  BY <1>6 DEF Quell, AfterStop, GuideOff
<1>7. CASE ParkSettle
  BY <1>7 DEF ParkSettle
<1>8. CASE Unpark
  BY <1>8 DEF Unpark
<1>9. CASE Enter
  BY <1>9 DEF Enter, MotionOp
<1>10. CASE Put
  BY <1>10 DEF Put, MakeCommand, CommandTypeOf
<1>11. CASE Resume
  BY <1>11 DEF Resume, MakeCommand, CommandTypeOf
<1>12. CASE PutTimeout
  BY <1>12 DEF PutTimeout
<1>13. CASE WaitIdle
  BY <1>13 DEF WaitIdle
<1>14. CASE WaitIdleTimeout
  BY <1>14 DEF WaitIdleTimeout
<1>15. CASE Commit
  BY <1>15 DEF Commit
<1>16. CASE Receive
  BY <1>16 DEF Receive
<1>17. CASE ConsumeIdle
  BY <1>17 DEF ConsumeIdle
<1>18. CASE Discard
  BY <1>18 DEF Discard, Return
<1>19. CASE Accept
  BY <1>19 DEF Accept
<1>20. CASE ApplyMotion
  BY <1>20 DEF ApplyMotion
<1>21. CASE ApplyGuide
  BY <1>21 DEF ApplyGuide
<1>22. CASE FlagGuiding
  BY <1>22 DEF FlagGuiding
<1>23. CASE Go
  BY <1>23 DEF Go, Return
<1>24. CASE EnterLoop
  BY <1>24 DEF EnterLoop
<1>25. CASE Dispatch
  BY <1>25 DEF Dispatch
<1>26. CASE LeaveLoop
  BY <1>26 DEF LeaveLoop
<1>27. CASE SlewError
  BY <1>27 DEF SlewError, Abort
<1>28. CASE SlewPreempted
  BY <1>28 DEF SlewPreempted
<1>29. CASE SlewDone
  BY <1>29 DEF SlewDone
<1>30. CASE Finish
  BY <1>30 DEF Finish
<1>31. CASE TrackPeek
  BY <1>31 DEF TrackPeek, Inlined
<1>32. CASE TrackReceive
  BY <1>32 DEF TrackReceive
<1>33. CASE TrackPoll
  BY <1>33 DEF TrackPoll, Abort, Expire, Inlined, Guided
<1>34. CASE TrackAtTarget
  BY <1>34 DEF TrackAtTarget, Expire, Inlined, Guided
<1>35. CASE EmitSteps
  BY <1>35 DEF EmitSteps
<1>36. CASE EmitRaFails
  BY <1>36 DEF EmitRaFails
<1>37. CASE TrackFail
  BY <1>37 DEF TrackFail
<1>38. CASE EmitDecFails
  BY <1>38 DEF EmitDecFails
<1>39. CASE EndCommand
  BY <1>39 DEF EndCommand
<1>40. CASE PowerLost
  BY <1>40 DEF PowerLost, RxYields
<1>41. CASE PowerBack
  BY <1>41 DEF PowerBack, RxYields, ErrorSeen
<1>42. CASE PowerRestore
  BY <1>42 DEF PowerRestore, RxYields
<1>43. CASE UNCHANGED <<active, rx, runGeneration, generation>>
  BY <1>43
<1> QED
  BY <1>1, <1>2, <1>3, <1>4, <1>5, <1>6, <1>7, <1>8, <1>9, <1>10, <1>11,
     <1>12, <1>13, <1>14, <1>15, <1>16, <1>17, <1>18, <1>19, <1>20, <1>21,
     <1>22, <1>23, <1>24, <1>25, <1>26, <1>27, <1>28, <1>29, <1>30, <1>31,
     <1>32, <1>33, <1>34, <1>35, <1>36, <1>37, <1>38, <1>39, <1>40, <1>41,
     <1>42, <1>43 DEF Next, RxStep, MotionStep, GuideDue

-----------------------------------------------------------------------------
LEMMA PatientInit == Init => PatientInv
  BY ConstantsOK DEF Init, PatientInv, TaskRests, ArmedIsCurrent, Applying,
     InlineRuns, StopShows, TrackingRuns, NoStaleMotion

LEMMA PatientStep ==
  PatientClient /\ Inv /\ PatientInv /\ [Next]_vars => PatientInv'
  BY RestStep, ArmStep, ShowStep, TrackingStep, StaleStep DEF PatientInv

\* PatientInv is an invariant of the system with a patient client.
THEOREM PatientInvariance ==
  ASSUME PatientClient PROVE Spec => [](Inv /\ PatientInv)
<1>1. Init => Inv /\ PatientInv
  BY InvInit, PatientInit
<1>2. Inv /\ PatientInv /\ [Next]_vars => (Inv /\ PatientInv)'
  BY InvStep, PatientStep
<1> QED
  BY <1>1, <1>2, PTL DEF Spec

\* A stop stops: no motion armed before motors_motion_stop() goes on after it.
THEOREM StopsAreFinal == ASSUME PatientClient PROVE Spec => []NoStaleMotion
<1>1. PatientInv => NoStaleMotion
  BY DEF PatientInv
<1> QED
  BY <1>1, PatientInvariance, PTL

\* TRACKING is what the motion task does: it is never shown by a task that waits
\* for a command, except in the last stores of motors_park().
THEOREM TrackingIsTrue == ASSUME PatientClient PROVE Spec => []TrackingIsRunning
<1>1. Inv /\ PatientInv => TrackingIsRunning
  BY DEF Inv, PatientInv, IdleSignal, TrackingRuns, TrackingIsRunning
<1> QED
  BY <1>1, PatientInvariance, PTL
=============================================================================
