-------------------------- MODULE MountRequestsProofs --------------------------
(***************************************************************************)
(* Proofs of the safety properties of MountRequests, for every set of      *)
(* rates, modes, keys and values.                                          *)
(*                                                                         *)
(* Three of them need a strengthening.  OrderAsAsked needs the cache of    *)
(* the mount layer to be what clients asked.  StopForgets needs the saved  *)
(* mode, and the handlers on their way to it, to come after the last full  *)
(* stop.  RevTellsChange and AnsweredSurvives need to know at which step   *)
(* of a CONFIG handler memory runs ahead of the revision and of the flash. *)
(***************************************************************************)
EXTENDS MountRequests, SequenceTheorems, TLAPS

MotorTypes ==
  /\ status \in {"ready", "slewing", "tracking", "parked", "error"}
  /\ tracking \in Modes \cup {"none"}
  /\ queue \in Seq(Command) /\ Len(queue) <= QueueLength
  /\ active \in Command \cup {Nothing}

RequestTypes ==
  /\ saved \in Modes \cup {"none"} /\ rate \in [Axes -> Rates \cup {0}]
  /\ fields \in [Axes -> Rates \cup {0, Omitted}] /\ mode \in Modes \cup {"none", Omitted}
  /\ want \in [Axes -> Rates \cup {0}] /\ keep \in Modes \cup {"none"}
  /\ asked \in [Axes -> Rates \cup {0}] /\ owed \in Modes \cup {"none"}
  /\ requests \in [{"motion", "settings"} -> Nat]
  /\ pc = "tracking" => mode # Omitted

\* The cache is what clients asked for, and so is the order on its way.
CacheIsAsked ==
  /\ rate = asked
  /\ pc \in {"interrupt", "order"} => want = asking

\* Whatever leads to a tracking mode being brought back followed the last stop.
ForgottenAtStop ==
  /\ saved # "none" => ~stopped
  /\ pc \in {"stop", "restore"} /\ keep # "none" => ~stopped
  /\ pc = "restore" => keep # "none"
  /\ pc \in {"interrupt", "order"} => ~stopped

MotionInv == MotorTypes /\ RequestTypes /\ CacheIsAsked /\ OrderAsAsked /\ ForgottenAtStop
-----------------------------------------------------------------------------
(***************************************************************************)
(* Commands and the queue                                                  *)
(***************************************************************************)
LEMMA CommandFields ==
  ASSUME NEW c \in Command
  PROVE  c.mode \in Modes \cup {"none"} /\ c.type # "nothing"
BY DEF Command, Track, Move, Slew

LEMMA CommandsMade ==
  /\ \A m \in Modes : Track(m) \in Command /\ Track(m).type = "track"
  /\ \A r \in [Axes -> Rates \cup {0}] :
       Move(r) \in Command /\ Move(r).type = "move" /\ Move(r).rates = r
  /\ Slew \in Command /\ Slew.type = "slew"
  /\ Nothing.type = "nothing"
BY DEF Command, Track, Move, Slew, Nothing

\* An empty queue and a free motion task ask for nothing.
LEMMA EmptyQueue ==
  ASSUME status' \in {"ready", "slewing", "tracking", "parked", "error"},
         tracking' \in Modes \cup {"none"},
         queue' = <<>>, active' = Nothing
  PROVE  MotorTypes' /\ OrderAsAsked'
<1>1. queue' \in Seq(Command) /\ Len(queue') = 0 /\ DOMAIN queue' = {}
  OBVIOUS
<1>2. Len(queue') <= QueueLength
  BY <1>1, ManualConstants
<1>3. active'.type # "move"
  BY CommandsMade
<1> QED  BY <1>1, <1>2, <1>3 DEF MotorTypes, OrderAsAsked

\* A queue built with one or two commands, none of them a move.
LEMMA NoMoves ==
  ASSUME status' \in {"ready", "slewing", "tracking", "parked", "error"},
         tracking' \in Modes \cup {"none"},
         queue' \in Seq(Command), Len(queue') <= QueueLength,
         \A i \in DOMAIN queue' : queue'[i].type # "move",
         active' = Nothing
  PROVE  MotorTypes' /\ OrderAsAsked'
<1>1. active'.type # "move"
  BY CommandsMade
<1> QED  BY <1>1 DEF MotorTypes, OrderAsAsked, Latest

\* A command that is not a move leaves the newest move what it was.
LEMMA PutOther ==
  ASSUME MotorTypes, OrderAsAsked, NEW c \in Command, c.type # "move", Room, Put(c),
         asked' = asked
  PROVE  MotorTypes' /\ OrderAsAsked'
<1> USE DEF MotorTypes
<1>1. /\ queue' = Append(queue, c) /\ queue' \in Seq(Command)
      /\ Len(queue') = Len(queue) + 1
      /\ \A i \in 1 .. Len(queue) : queue'[i] = queue[i]
      /\ queue'[Len(queue) + 1] = c
  BY AppendProperties DEF Put
<1>2. Len(queue') <= QueueLength
  BY <1>1, ManualConstants DEF Room
<1>3. UNCHANGED <<status, tracking, active>>
  BY DEF Put
<1>4. DOMAIN queue = 1 .. Len(queue) /\ DOMAIN queue' = 1 .. Len(queue) + 1
  BY <1>1
<1>5. ASSUME NEW i \in DOMAIN queue', Latest(i)'
      PROVE  queue'[i].rates = asked'
  <2>1. queue'[i].type = "move" /\ \A j \in DOMAIN queue' : j > i => queue'[j].type # "move"
    BY <1>5 DEF Latest
  <2>2. i \in DOMAIN queue
    BY <2>1, <1>1, <1>4
  <2>3. Latest(i)
    BY <2>1, <2>2, <1>1, <1>4 DEF Latest
  <2> QED  BY <2>2, <2>3, <1>1, <1>4 DEF OrderAsAsked
<1>6. ASSUME active'.type = "move", \A i \in DOMAIN queue' : queue'[i].type # "move"
      PROVE  active'.rates = asked'
  <2>1. \A i \in DOMAIN queue : queue[i].type # "move"
    BY <1>6, <1>1, <1>4
  <2> QED  BY <2>1, <1>3, <1>6 DEF OrderAsAsked
<1> QED  BY <1>1, <1>2, <1>3, <1>5, <1>6 DEF OrderAsAsked

\* A new move is the newest, and asks for what its client asked.
LEMMA PutMove ==
  ASSUME MotorTypes, NEW r \in [Axes -> Rates \cup {0}], Room, Put(Move(r)), asked' = r
  PROVE  MotorTypes' /\ OrderAsAsked'
<1> USE DEF MotorTypes
<1>0. Move(r) \in Command /\ Move(r).type = "move" /\ Move(r).rates = r
  BY CommandsMade
<1>1. /\ queue' = Append(queue, Move(r)) /\ queue' \in Seq(Command)
      /\ Len(queue') = Len(queue) + 1
      /\ \A i \in 1 .. Len(queue) : queue'[i] = queue[i]
      /\ queue'[Len(queue) + 1] = Move(r)
  BY <1>0, AppendProperties DEF Put
<1>2. Len(queue') <= QueueLength
  BY <1>1, ManualConstants DEF Room
<1>3. UNCHANGED <<status, tracking, active>>
  BY DEF Put
<1>4. DOMAIN queue' = 1 .. Len(queue) + 1 /\ Len(queue) + 1 \in DOMAIN queue'
  BY <1>1
<1>5. queue'[Len(queue) + 1].type = "move" /\ queue'[Len(queue) + 1].rates = asked'
  BY <1>0, <1>1
<1>6. ASSUME NEW i \in DOMAIN queue', Latest(i)'
      PROVE  queue'[i].rates = asked'
  <2>1. \A j \in DOMAIN queue' : j > i => queue'[j].type # "move"
    BY <1>6 DEF Latest
  <2>2. ~(Len(queue) + 1 > i)
    BY <2>1, <1>4, <1>5
  <2>3. i = Len(queue) + 1
    BY <2>2, <1>4
  <2> QED  BY <2>3, <1>5
<1> QED  BY <1>1, <1>2, <1>3, <1>4, <1>5, <1>6 DEF OrderAsAsked

\* The command taken from the queue was the newest move or is not a move.
LEMMA TakeNext ==
  ASSUME MotorTypes, OrderAsAsked, StartCommand
  PROVE  MotorTypes' /\ OrderAsAsked'
<1> USE DEF MotorTypes
<1>1. /\ queue # <<>> /\ active' = Head(queue) /\ queue' = Tail(queue)
      /\ status' \in {"tracking", "slewing"} /\ tracking' = Head(queue).mode /\ asked' = asked
  BY DEF StartCommand
<1>2. /\ Head(queue) = queue[1] /\ Head(queue) \in Command
      /\ queue' \in Seq(Command) /\ Len(queue') = Len(queue) - 1 /\ Len(queue) >= 1
      /\ \A i \in 1 .. Len(queue') : queue'[i] = queue[i + 1]
  BY <1>1, HeadTailProperties, EmptySeq, LenProperties
<1>3. tracking' \in Modes \cup {"none"} /\ Len(queue') <= QueueLength
  BY <1>1, <1>2, CommandFields, ManualConstants
<1>4. DOMAIN queue = 1 .. Len(queue) /\ DOMAIN queue' = 1 .. Len(queue) - 1
  BY <1>2
<1>5. ASSUME NEW i \in DOMAIN queue', Latest(i)'
      PROVE  queue'[i].rates = asked'
  <2>1. queue'[i].type = "move" /\ \A j \in DOMAIN queue' : j > i => queue'[j].type # "move"
    BY <1>5 DEF Latest
  <2>2. i + 1 \in DOMAIN queue /\ queue'[i] = queue[i + 1]
    BY <1>2, <1>4
  <2>3. ASSUME NEW j \in DOMAIN queue, j > i + 1  PROVE queue[j].type # "move"
    <3>1. j - 1 \in DOMAIN queue' /\ j - 1 > i /\ queue'[j - 1] = queue[j]
      BY <1>2, <1>4, <2>3
    <3> QED  BY <3>1, <2>1
  <2>4. Latest(i + 1)
    BY <2>1, <2>2, <2>3 DEF Latest
  <2> QED  BY <2>2, <2>4, <1>1 DEF OrderAsAsked
<1>6. ASSUME active'.type = "move", \A i \in DOMAIN queue' : queue'[i].type # "move"
      PROVE  active'.rates = asked'
  <2>1. 1 \in DOMAIN queue /\ queue[1].type = "move"
    BY <1>1, <1>2, <1>4, <1>6
  <2>2. ASSUME NEW j \in DOMAIN queue, j > 1  PROVE queue[j].type # "move"
    <3>1. j - 1 \in DOMAIN queue' /\ queue'[j - 1] = queue[j]
      BY <1>2, <1>4, <2>2
    <3> QED  BY <3>1, <1>6
  <2>3. Latest(1)
    BY <2>1, <2>2 DEF Latest
  <2> QED  BY <2>1, <2>3, <1>1, <1>2 DEF OrderAsAsked
<1> QED  BY <1>1, <1>2, <1>3, <1>5, <1>6 DEF OrderAsAsked
-----------------------------------------------------------------------------
(***************************************************************************)
(* The calls of the motors API                                             *)
(***************************************************************************)
LEMMA StopCall ==
  ASSUME MotorTypes, MotorsStop
  PROVE  MotorTypes' /\ OrderAsAsked'
BY EmptyQueue DEF MotorsStop, MotorTypes

LEMMA SameMotors ==
  ASSUME MotorTypes, OrderAsAsked, UNCHANGED <<queue, active, asked>>,
         status' \in {"ready", "slewing", "tracking", "parked", "error"},
         tracking' \in Modes \cup {"none"}
  PROVE  MotorTypes' /\ OrderAsAsked'
BY DEF MotorTypes, OrderAsAsked, Latest

LEMMA TrackingCall ==
  ASSUME MotorTypes, OrderAsAsked, NEW m \in Modes \cup {"none"}, asked' = asked,
         StartsTracking(m) \/ UNCHANGED motors
  PROVE  MotorTypes' /\ OrderAsAsked'
<1>1. CASE m = "none" /\ MotorsStop
  BY <1>1, StopCall
<1>2. CASE m # "none" /\ Room /\ Put(Track(m))
  <2>1. Track(m) \in Command /\ Track(m).type # "move"
    BY <1>2, CommandsMade
  <2> QED  BY <1>2, <2>1, PutOther
<1>3. CASE UNCHANGED motors
  BY <1>3, SameMotors DEF motors, MotorTypes
<1> QED  BY <1>1, <1>2, <1>3 DEF StartsTracking

LEMMA OtherCall ==
  ASSUME MotorTypes, OrderAsAsked, asked' = asked,
         Park \/ Unpark \/ SetHome \/ SlewHome \/ SlewBy
  PROVE  MotorTypes' /\ OrderAsAsked'
<1> USE CommandsMade DEF MotorTypes
<1>1. CASE Park \/ SetHome
  BY <1>1, EmptyQueue DEF Park, SetHome
<1>2. CASE Unpark
  BY <1>2, SameMotors DEF Unpark
<1>3. CASE SlewHome
  <2>1. CASE queue' = <<>>
    BY <1>3, <2>1, EmptyQueue DEF SlewHome
  <2>2. CASE queue' = <<Slew>>
    <3>1. /\ queue' \in Seq(Command) /\ Len(queue') = 1
          /\ \A i \in DOMAIN queue' : queue'[i] = Slew
      BY <2>2
    <3>2. Len(queue') <= QueueLength /\ \A i \in DOMAIN queue' : queue'[i].type # "move"
      BY <3>1, ManualConstants
    <3> QED  BY <1>3, <3>1, <3>2, NoMoves DEF SlewHome
  <2> QED  BY <1>3, <2>1, <2>2 DEF SlewHome
<1>4. CASE SlewBy
  <2>1. CASE Tracking
    <3>1. tracking \in Modes
      BY <2>1 DEF Tracking
    <3>2. Track(tracking) \in Command /\ Track(tracking).type = "track"
      BY <3>1
    <3>3. queue' = <<Slew, Track(tracking)>>
      BY <1>4, <2>1 DEF SlewBy
    <3>4. /\ queue' \in Seq(Command) /\ Len(queue') = 2
          /\ \A i \in DOMAIN queue' : queue'[i] = Slew \/ queue'[i] = Track(tracking)
      BY <3>2, <3>3
    <3>5. Len(queue') <= QueueLength /\ \A i \in DOMAIN queue' : queue'[i].type # "move"
      BY <3>2, <3>4, ManualConstants
    <3>6. status' = "ready" /\ tracking' = "none" /\ active' = Nothing
      BY <1>4, <2>1 DEF SlewBy
    <3> QED  BY <3>4, <3>5, <3>6, NoMoves
  <2>2. CASE ~Tracking
    BY <1>4, <2>2, PutOther DEF SlewBy
  <2> QED  BY <2>1, <2>2
<1> QED  BY <1>1, <1>2, <1>3, <1>4
-----------------------------------------------------------------------------
(***************************************************************************)
(* The steps of the motion task and of the motion handlers                 *)
(***************************************************************************)
LEMMA MotionTaskKeeps ==
  ASSUME MotionInv, MotionTask \/ TrackingEnds \/ PowerLost \/ PowerBack
  PROVE  MotionInv'
<1> USE DEF MotionInv
<1>1. CASE StartCommand
  <2>1. MotorTypes' /\ OrderAsAsked'
    BY <1>1, TakeNext
  <2>2. owed' \in Modes \cup {"none"}
    BY <1>1 DEF StartCommand, RequestTypes
  <2>3. UNCHANGED <<remembered, pc, locals, requests, asked, stopped>>
    BY <1>1 DEF StartCommand
  <2>4. RequestTypes' /\ CacheIsAsked' /\ ForgottenAtStop'
    BY <2>2, <2>3 DEF RequestTypes, CacheIsAsked, ForgottenAtStop, remembered, locals
  <2> QED  BY <2>1, <2>4
<1>2. CASE Finish
  <2>1. MotorTypes' /\ OrderAsAsked'
    <3>1. queue' = queue /\ active' = Nothing /\ status' = "ready" /\ tracking' = "none"
          /\ asked' = asked
      BY <1>2 DEF Finish, Receiver, history
    <3>2. active'.type # "move"
      BY <3>1, CommandsMade
    <3> QED  BY <3>1, <3>2 DEF MotorTypes, OrderAsAsked, Latest
  <2>2. RequestTypes' /\ CacheIsAsked' /\ ForgottenAtStop'
    BY <1>2 DEF Finish, Receiver, RequestTypes, CacheIsAsked, ForgottenAtStop,
                remembered, locals, history
  <2> QED  BY <2>1, <2>2
<1>3. CASE PowerLost
  <2>1. MotorTypes' /\ OrderAsAsked'
    BY <1>3, EmptyQueue DEF PowerLost, MotorTypes
  <2>2. RequestTypes' /\ CacheIsAsked' /\ ForgottenAtStop'
    BY <1>3 DEF PowerLost, RequestTypes, CacheIsAsked, ForgottenAtStop, remembered, locals
  <2> QED  BY <2>1, <2>2
<1>4. CASE PowerBack
  <2>1. MotorTypes' /\ OrderAsAsked'
    BY <1>4, SameMotors DEF PowerBack, Receiver, history
  <2>2. RequestTypes' /\ CacheIsAsked' /\ ForgottenAtStop'
    BY <1>4 DEF PowerBack, Receiver, RequestTypes, CacheIsAsked, ForgottenAtStop,
                remembered, locals, history
  <2> QED  BY <2>1, <2>2
<1> QED  BY <1>1, <1>2, <1>3, <1>4 DEF MotionTask, Complete, TrackingEnds

LEMMA RatesMerged ==
  ASSUME RequestTypes
  PROVE  /\ Wanted \in [Axes -> Rates \cup {0}] /\ Asks \in [Axes -> Rates \cup {0}]
         /\ rate = asked => Wanted = Asks
         /\ NoRates \in [Axes -> Rates \cup {0, Omitted}]
         /\ Zero \in [Axes -> Rates \cup {0}] /\ Zero \in [Axes -> Rates \cup {0, Omitted}]
BY DEF RequestTypes, Wanted, Asks, NoRates, Zero

\* The end of a handler leaves nothing on its way.
LEMMA Replied ==
  ASSUME RequestTypes, Reply
  PROVE  /\ pc' = "idle"
         /\ fields' \in [Axes -> Rates \cup {0, Omitted}] /\ mode' \in Modes \cup {"none", Omitted}
         /\ want' \in [Axes -> Rates \cup {0}] /\ keep' \in Modes \cup {"none"}
BY RatesMerged DEF Reply, Goto

LEMMA HandlerKeeps ==
  ASSUME MotionInv, HandlerStep
  PROVE  MotionInv'
<1> USE DEF MotionInv
<1>1. CASE SetTracking
  <2>0. pc = "tracking" /\ mode \in Modes \cup {"none"}
    BY <1>1 DEF SetTracking, RequestTypes
  <2>1. UNCHANGED <<remembered, requests, history>>
        /\ (StartsTracking(mode) \/ UNCHANGED motors)
        /\ ((pc' = "move" /\ UNCHANGED locals) \/ Reply)
    BY <1>1 DEF SetTracking, Goto
  <2>2. MotorTypes' /\ OrderAsAsked'
    BY <2>0, <2>1, TrackingCall DEF history
  <2>3. CASE pc' = "move" /\ UNCHANGED locals
    BY <2>1, <2>2, <2>3 DEF RequestTypes, CacheIsAsked, ForgottenAtStop, remembered,
                            locals, history
  <2>4. CASE Reply
    BY <2>1, <2>2, <2>4, Replied DEF RequestTypes, CacheIsAsked, ForgottenAtStop,
                                     remembered, history
  <2> QED  BY <2>1, <2>3, <2>4
<1>2. CASE MoveAxes
  <2>0. UNCHANGED <<remembered, motors, requests>> /\ pc = "move" /\ asked' = asked
    BY <1>2 DEF MoveAxes, history
  <2>1. MotorTypes' /\ OrderAsAsked'
    BY <2>0, SameMotors DEF motors, MotorTypes
  <2>2. CASE Error /\ Reply /\ UNCHANGED history
    BY <2>0, <2>1, <2>2, Replied DEF RequestTypes, CacheIsAsked, ForgottenAtStop,
                                     remembered, history
  <2>3. CASE /\ keep' = saved /\ pc' = "stop" /\ owed' \in {"none", saved}
             /\ UNCHANGED <<fields, mode, want, asking, asked, stopped>>
    BY <2>0, <2>1, <2>3 DEF RequestTypes, CacheIsAsked, ForgottenAtStop, remembered
  <2>4. CASE /\ want' = Wanted /\ asking' = Asks
             /\ \/ Tracking /\ keep' = tracking /\ pc' = "interrupt"
                \/ UNCHANGED keep /\ pc' = "order"
             /\ stopped' = FALSE
             /\ UNCHANGED <<fields, mode, asked, owed>>
    <3>1. keep' \in Modes \cup {"none"}
      BY <2>4 DEF RequestTypes, MotorTypes
    <3>2. want' \in [Axes -> Rates \cup {0}] /\ want' = asking'
      BY <2>4, RatesMerged DEF CacheIsAsked
    <3> QED  BY <2>0, <2>1, <2>4, <3>1, <3>2
             DEF RequestTypes, CacheIsAsked, ForgottenAtStop, remembered
  <2> QED  BY <1>2, <2>2, <2>3, <2>4 DEF MoveAxes, Goto
<1>3. CASE StopMoving
  <2>0. UNCHANGED <<requests, stopped, owed>> /\ pc = "stop"
    BY <1>3 DEF StopMoving
  <2>1. CASE Error /\ Reply /\ UNCHANGED <<remembered, motors, asked>>
    <3>1. MotorTypes' /\ OrderAsAsked'
      BY <2>1, SameMotors DEF motors, MotorTypes
    <3> QED  BY <2>0, <2>1, <3>1, Replied DEF RequestTypes, CacheIsAsked, ForgottenAtStop,
                                              remembered
  <2>2. CASE MountStop /\ asked' = Zero
    <3>1. MotorTypes' /\ OrderAsAsked' /\ saved' = "none" /\ rate' = Zero
      BY <2>2, StopCall DEF MountStop
    <3>2. CASE Reply
      BY <2>0, <2>2, <3>1, <3>2, Replied, RatesMerged
         DEF RequestTypes, CacheIsAsked, ForgottenAtStop
    <3>3. CASE keep # "none" /\ pc' = "restore" /\ UNCHANGED locals
      BY <2>0, <2>2, <3>1, <3>3, RatesMerged
         DEF RequestTypes, CacheIsAsked, ForgottenAtStop, locals
    <3> QED  BY <1>3, <2>2, <3>2, <3>3 DEF StopMoving, Goto, MountStop
  <2> QED  BY <1>3, <2>1, <2>2 DEF StopMoving
<1>4. CASE Restore
  <2>0. UNCHANGED <<remembered, requests, history>> /\ Reply
        /\ (StartsTracking(keep) \/ UNCHANGED motors)
    BY <1>4 DEF Restore
  <2>1. MotorTypes' /\ OrderAsAsked'
    BY <2>0, TrackingCall DEF history, RequestTypes
  <2> QED  BY <2>0, <2>1, Replied DEF RequestTypes, CacheIsAsked, ForgottenAtStop,
                                      remembered, history
<1>5. CASE Interrupt
  <2>0. UNCHANGED <<requests, stopped, owed>> /\ pc = "interrupt"
    BY <1>5 DEF Interrupt
  <2>1. CASE Error /\ Reply /\ UNCHANGED <<remembered, motors, asked>>
    <3>1. MotorTypes' /\ OrderAsAsked'
      BY <2>1, SameMotors DEF motors, MotorTypes
    <3> QED  BY <2>0, <2>1, <3>1, Replied DEF RequestTypes, CacheIsAsked, ForgottenAtStop,
                                              remembered
  <2>2. CASE /\ ~Error /\ MotorsStop
             /\ saved' = keep /\ rate' = Zero /\ asked' = Zero
             /\ Goto("order") /\ UNCHANGED locals
    <3>1. MotorTypes' /\ OrderAsAsked'
      BY <2>2, StopCall
    <3> QED  BY <2>0, <2>2, <3>1, RatesMerged
             DEF RequestTypes, CacheIsAsked, ForgottenAtStop, locals, Goto
  <2> QED  BY <1>5, <2>1, <2>2 DEF Interrupt
<1>6. CASE Order
  <2>0. UNCHANGED <<saved, requests, stopped, owed>> /\ pc = "order" /\ Reply
    BY <1>6 DEF Order
  <2>1. CASE UNCHANGED <<rate, motors, asked>>
    <3>1. MotorTypes' /\ OrderAsAsked'
      BY <2>1, SameMotors DEF motors, MotorTypes
    <3> QED  BY <2>0, <2>1, <3>1, Replied DEF RequestTypes, CacheIsAsked, ForgottenAtStop
  <2>2. CASE ~OrderRefused /\ Put(Move(want)) /\ rate' = want /\ asked' = asking
    <3>1. want \in [Axes -> Rates \cup {0}] /\ asked' = want
      BY <2>0, <2>2 DEF RequestTypes, CacheIsAsked
    <3>2. MotorTypes' /\ OrderAsAsked'
      BY <2>2, <3>1, PutMove DEF OrderRefused
    <3> QED  BY <2>0, <2>2, <3>1, <3>2, Replied DEF RequestTypes, CacheIsAsked, ForgottenAtStop
  <2> QED  BY <1>6, <2>1, <2>2 DEF Order
<1> QED  BY <1>1, <1>2, <1>3, <1>4, <1>5, <1>6 DEF HandlerStep

LEMMA Accepted ==
  ASSUME RequestTypes, NEW kind \in {"motion", "settings"}, Accept(kind)
  PROVE  pc = "idle" /\ requests' \in [{"motion", "settings"} -> Nat]
BY DEF Accept, RequestTypes

LEMMA RequestKeeps ==
  ASSUME MotionInv, ManualRequest \/ OtherAction
  PROVE  MotionInv'
<1> USE DEF MotionInv
<1>1. ASSUME NEW t \in Modes \cup {Omitted, "none", Invalid},
             NEW r \in [Axes -> Rates \cup {0, Omitted, Invalid}], Control(t, r)
      PROVE  MotionInv'
  <2>0. /\ UNCHANGED <<remembered, motors, want, keep, asking, asked, stopped>>
        /\ pc = "idle" /\ requests' \in [{"motion", "settings"} -> Nat]
    BY <1>1, Accepted DEF Control
  <2>1. MotorTypes' /\ OrderAsAsked'
    BY <2>0, SameMotors DEF motors, MotorTypes
  <2>2. CASE UNCHANGED <<pc, fields, mode, owed>>
    BY <2>0, <2>1, <2>2 DEF RequestTypes, CacheIsAsked, ForgottenAtStop, remembered
  <2>3. CASE /\ ~Malformed(t, r) /\ fields' = r /\ mode' = t /\ owed' = "none"
             /\ pc' \in {"move", "tracking"} /\ (pc' = "tracking" => t # Omitted)
    <3>1. r \in [Axes -> Rates \cup {0, Omitted}] /\ t \in Modes \cup {"none", Omitted}
      BY <1>1, <2>3 DEF Malformed
    <3> QED  BY <2>0, <2>1, <2>3, <3>1
             DEF RequestTypes, CacheIsAsked, ForgottenAtStop, remembered
  <2> QED  BY <1>1, <2>2, <2>3 DEF Control, Goto
<1>2. CASE StopManual
  <2>0. /\ UNCHANGED <<remembered, motors, mode, want, keep, asking, asked, stopped>>
        /\ pc = "idle" /\ requests' \in [{"motion", "settings"} -> Nat]
        /\ fields' = Zero /\ owed' = "none" /\ pc' = "move"
    BY <1>2, Accepted DEF StopManual, Goto
  <2>1. MotorTypes' /\ OrderAsAsked'
    BY <2>0, SameMotors DEF motors, MotorTypes
  <2> QED  BY <2>0, <2>1, RatesMerged
           DEF RequestTypes, CacheIsAsked, ForgottenAtStop, remembered
<1>3. CASE StopAll
  <2>0. UNCHANGED <<pc, locals>> /\ pc = "idle" /\ requests' \in [{"motion", "settings"} -> Nat]
    BY <1>3, Accepted DEF StopAll
  <2>1. CASE UNCHANGED <<remembered, motors, history>>
    <3>1. MotorTypes' /\ OrderAsAsked'
      BY <2>1, SameMotors DEF motors, MotorTypes, history
    <3> QED  BY <2>0, <2>1, <3>1
             DEF RequestTypes, CacheIsAsked, ForgottenAtStop, remembered, locals, history
  <2>2. CASE MountStop /\ asked' = Zero /\ stopped' = TRUE /\ owed' = "none"
    <3>1. MotorTypes' /\ OrderAsAsked' /\ saved' = "none" /\ rate' = Zero
      BY <2>2, StopCall DEF MountStop
    <3> QED  BY <2>0, <2>2, <3>1, RatesMerged
             DEF RequestTypes, CacheIsAsked, ForgottenAtStop, locals
  <2> QED  BY <1>3, <2>1, <2>2 DEF StopAll
<1>4. CASE OtherAction
  <2>0. /\ UNCHANGED <<remembered, pc, locals, asked, stopped>>
        /\ pc = "idle" /\ requests' \in [{"motion", "settings"} -> Nat]
        /\ owed' \in Modes \cup {"none"}
    BY <1>4, Accepted DEF OtherAction, RequestTypes
  <2>1. MotorTypes' /\ OrderAsAsked'
    BY <1>4, <2>0, OtherCall, SameMotors DEF OtherAction, motors, MotorTypes
  <2> QED  BY <2>0, <2>1 DEF RequestTypes, CacheIsAsked, ForgottenAtStop, remembered, locals
<1> QED  BY <1>1, <1>2, <1>3, <1>4 DEF ManualRequest

\* A step of a CONFIG handler leaves the motion part alone.
LEMMA QuietKeeps ==
  ASSUME MotionInv, UNCHANGED Still, requests' \in [{"motion", "settings"} -> Nat],
         pc' \notin {"tracking", "interrupt", "order", "stop", "restore"}
  PROVE  MotionInv'
<1>1. MotorTypes' /\ OrderAsAsked'
  BY SameMotors DEF MotionInv, MotorTypes, Still, motors, history
<1> QED  BY <1>1 DEF MotionInv, RequestTypes, CacheIsAsked, ForgottenAtStop, Still,
                     remembered, locals, history
-----------------------------------------------------------------------------
(***************************************************************************)
(* The configuration, its revision and the flash                           *)
(***************************************************************************)
MotionLabels == {"idle", "tracking", "move", "stop", "restore", "interrupt", "order"}

SettingTypes ==
  /\ site \in [KeysOf(SiteKeys) -> Sites]
  /\ limits \in [KeysOf(LimitKeys) -> Places \cup {Factory}]
  /\ rev \in Nat /\ boots \in Nat
  /\ next \in 1 .. Len(SiteKeys \o LimitKeys) + 1
  /\ pc \notin {"save_site", "save_limits"} => next = 1
  /\ msg.site \in [KeysOf(SiteKeys) -> Sites \cup {Omitted, Invalid}]

FlashTypes ==
  /\ DOMAIN flash = KeysOf(SiteKeys) \cup KeysOf(LimitKeys) \cup {"cfg_rev"}
  /\ \A k \in KeysOf(SiteKeys) : flash[k] \in Sites \cup {Unset}
  /\ \A k \in KeysOf(LimitKeys) : flash[k] \in Places \cup {Factory, Unset}
  /\ flash["cfg_rev"] \in Nat \cup {Unset}

\* A client's copy is the configuration or has an older revision, except while
\* a message has changed the site and not yet counted it.
CopyIsOld ==
  /\ read[1] \in Nat /\ read[2] \in Nat /\ read[1] <= boots
  /\ read[1] = boots => read[2] <= rev
  /\ read[1] = boots /\ read[2] = rev /\ ~(pc \in {"save_site", "guide"} /\ changed)
       => read[3] = Configuration

\* Memory is ahead of the flash only for the keys still to be written.
AheadOfFlash(keys, label, k) == pc = label /\ \E i \in next .. Len(keys) : keys[i] = k

FlashFollows ==
  ~worn =>
    /\ \A k \in KeysOf(SiteKeys) :
         Loaded(k, Default) = site[k] \/ AheadOfFlash(SiteKeys, "save_site", k)
    /\ \A k \in KeysOf(LimitKeys) :
         Loaded(k, Factory) = limits[k] \/ AheadOfFlash(LimitKeys, "save_limits", k)
    /\ Loaded("cfg_rev", 0) = rev \/ pc = "save_rev"

SettingsInv == SettingTypes /\ FlashTypes /\ CopyIsOld /\ FlashFollows

IInv == MotionInv /\ SettingsInv

LEMMA Keys ==
  /\ SiteKeys \in Seq(STRING) /\ LimitKeys \in Seq(STRING)
  /\ Len(SiteKeys) \in Nat /\ Len(LimitKeys) \in Nat
  /\ Len(SiteKeys \o LimitKeys) = Len(SiteKeys) + Len(LimitKeys)
  /\ \A k \in KeysOf(SiteKeys) : \E i \in 1 .. Len(SiteKeys) : SiteKeys[i] = k
  /\ \A k \in KeysOf(LimitKeys) : \E i \in 1 .. Len(LimitKeys) : LimitKeys[i] = k
  /\ \A i \in 1 .. Len(SiteKeys) : SiteKeys[i] \in KeysOf(SiteKeys)
  /\ \A i \in 1 .. Len(LimitKeys) : LimitKeys[i] \in KeysOf(LimitKeys)
  /\ \A k \in KeysOf(SiteKeys) : k \notin KeysOf(LimitKeys) /\ k # "cfg_rev"
  /\ \A k \in KeysOf(LimitKeys) : k # "cfg_rev"
BY SettingsConstants DEF KeysOf

\* The motion part moves among its own labels.
LEMMA MotionStaysApart ==
  ASSUME MotionStep
  PROVE  /\ UNCHANGED <<settings, flash, next, config, boots, worn, read>>
         /\ pc' = pc \/ (pc \in MotionLabels /\ pc' \in MotionLabels)
<1>1. UNCHANGED <<settings, flash, next, config, boots, worn, read>>
  BY DEF MotionStep
<1>2. CASE MotionTask \/ TrackingEnds \/ PowerLost \/ PowerBack
  BY <1>1, <1>2 DEF MotionTask, StartCommand, Complete, TrackingEnds, Finish, PowerLost, PowerBack,
                    Receiver
<1>3. CASE HandlerStep
  BY <1>1, <1>3 DEF HandlerStep, SetTracking, MoveAxes, StopMoving, Restore, Interrupt, Order,
                    Reply, Goto, MotionLabels
<1>4. CASE ManualRequest \/ OtherAction
  BY <1>1, <1>4 DEF ManualRequest, OtherAction, Control, StopManual, StopAll, Accept, Goto,
                    MotionLabels
<1> QED  BY <1>2, <1>3, <1>4 DEF MotionStep

LEMMA MotionKeepsSettings ==
  ASSUME SettingsInv, MotionStep
  PROVE  SettingsInv'
<1>1. /\ UNCHANGED <<settings, flash, next, config, boots, worn, read>>
      /\ pc' = pc \/ (pc \in MotionLabels /\ pc' \in MotionLabels)
  BY MotionStaysApart
<1>2. SettingTypes' /\ FlashTypes'
  BY <1>1 DEF SettingsInv, SettingTypes, FlashTypes, settings, config, MotionLabels
<1>3. CopyIsOld'
  BY <1>1 DEF SettingsInv, CopyIsOld, settings, config, MotionLabels, Configuration
<1>4. FlashFollows'
  BY <1>1 DEF SettingsInv, FlashFollows, AheadOfFlash, Loaded, settings, MotionLabels
<1> QED  BY <1>2, <1>3, <1>4 DEF SettingsInv

LEMMA ConfigKeeps ==
  ASSUME IInv, NEW m \in ConfigMessages, Config(m)
  PROVE  IInv'
<1> USE DEF IInv, MotionInv, SettingsInv
<1>1. /\ pc = "idle" /\ requests' \in [{"motion", "settings"} -> Nat] /\ pc' = "site"
      /\ msg' = m /\ changed' = FALSE
      /\ UNCHANGED <<Still, settings, flash, next, boots, worn, read>>
  BY Accepted DEF Config, Goto
<1>2. MotionInv'
  BY <1>1, QuietKeeps
<1>3. m.site \in [KeysOf(SiteKeys) -> Sites \cup {Omitted, Invalid}]
  BY DEF ConfigMessages
<1>4. SettingTypes' /\ FlashTypes'
  BY <1>1, <1>3 DEF SettingTypes, FlashTypes, settings
<1>5. CopyIsOld' /\ FlashFollows'
  BY <1>1 DEF CopyIsOld, FlashFollows, AheadOfFlash, Loaded, settings, Configuration
<1> QED  BY <1>2, <1>4, <1>5

LEMMA UpdateSiteKeeps ==
  ASSUME IInv, UpdateSite
  PROVE  IInv'
<1> USE DEF IInv, SettingsInv
<1>1. /\ pc = "site" /\ next = 1 /\ pc' \in {"guide", "save_site"}
      /\ UNCHANGED <<Still, requests, limits, guide, rev, flash, next, msg, boots, worn, read>>
  BY DEF UpdateSite, Goto, SettingTypes
<1>2. MotionInv'
  BY <1>1, QuietKeeps DEF MotionInv, RequestTypes
<1>3. CASE pc' = "guide" /\ UNCHANGED <<site, changed>>
  <2>1. SettingTypes' /\ FlashTypes' /\ CopyIsOld'
    BY <1>1, <1>3 DEF SettingTypes, FlashTypes, CopyIsOld, Configuration
  <2>2. FlashFollows'
    BY <1>1, <1>3 DEF FlashFollows, AheadOfFlash, Loaded
  <2> QED  BY <1>2, <2>1, <2>2
<1>4. CASE /\ pc' = "save_site" /\ changed' = TRUE
           /\ \A k \in DOMAIN msg.site : msg.site[k] # Invalid
           /\ site' = [k \in DOMAIN site |-> IF msg.site[k] = Omitted THEN site[k]
                                                                   ELSE msg.site[k]]
  <2>1. site' \in [KeysOf(SiteKeys) -> Sites]
    BY <1>4 DEF SettingTypes
  <2>2. SettingTypes' /\ FlashTypes' /\ CopyIsOld'
    BY <1>1, <1>4, <2>1 DEF SettingTypes, FlashTypes, CopyIsOld
  <2>3. \A k \in KeysOf(SiteKeys) : AheadOfFlash(SiteKeys, "save_site", k)'
    BY <1>1, <1>4, Keys DEF AheadOfFlash
  <2>4. FlashFollows'
    BY <1>1, <2>3 DEF FlashFollows, AheadOfFlash, Loaded
  <2> QED  BY <1>2, <2>2, <2>4
<1> QED  BY <1>3, <1>4 DEF UpdateSite, Goto

LEMMA SaveSiteKeeps ==
  ASSUME IInv, SaveSite
  PROVE  IInv'
<1> USE DEF IInv, SettingsInv
<1>1. /\ pc = "save_site" /\ pc' \in {"save_site", "guide"}
      /\ next \in Nat /\ next >= 1 /\ Len(SiteKeys) \in Nat /\ Len(LimitKeys) \in Nat
      /\ Len(SiteKeys \o LimitKeys) = Len(SiteKeys) + Len(LimitKeys)
      /\ UNCHANGED <<Still, requests, settings, config, boots, read>>
  BY Keys DEF SaveSite, Save, Goto, SettingTypes
<1>2. MotionInv'
  BY <1>1, QuietKeeps DEF MotionInv, RequestTypes
<1>3. CopyIsOld'
  BY <1>1 DEF CopyIsOld, settings, config, Configuration
<1>4. CASE next > Len(SiteKeys) /\ pc' = "guide" /\ next' = 1 /\ UNCHANGED <<flash, worn>>
  <2>1. SettingTypes' /\ FlashTypes'
    BY <1>1, <1>4 DEF SettingTypes, FlashTypes, settings, config
  <2>2. FlashFollows'
    BY <1>1, <1>4 DEF FlashFollows, AheadOfFlash, Loaded, settings
  <2> QED  BY <1>2, <1>3, <2>1, <2>2
<1>5. CASE /\ next <= Len(SiteKeys) /\ next' = next + 1 /\ UNCHANGED <<pc, worn>>
           /\ flash' = [flash EXCEPT ![SiteKeys[next]] = site[SiteKeys[next]]]
  <2>1. SiteKeys[next] \in KeysOf(SiteKeys) /\ site[SiteKeys[next]] \in Sites
    BY <1>1, <1>5, Keys DEF SettingTypes
  <2>2. SettingTypes'
    BY <1>1, <1>5 DEF SettingTypes, settings, config
  <2>3. /\ DOMAIN flash' = DOMAIN flash
        /\ flash'[SiteKeys[next]] = site[SiteKeys[next]]
        /\ \A k \in DOMAIN flash : k # SiteKeys[next] => flash'[k] = flash[k]
    BY <1>5, <2>1 DEF FlashTypes
  <2>4. FlashTypes'
    <3>1. /\ \A k \in KeysOf(SiteKeys) : flash'[k] \in Sites \cup {Unset}
          /\ \A k \in KeysOf(LimitKeys) : flash'[k] = flash[k]
          /\ flash'["cfg_rev"] = flash["cfg_rev"]
      BY <2>1, <2>3, Keys DEF FlashTypes
    <3> QED  BY <2>3, <3>1 DEF FlashTypes
  <2>5. ASSUME ~worn, NEW k \in KeysOf(SiteKeys)
        PROVE  Loaded(k, Default)' = site[k]
                 \/ (pc = "save_site" /\ \E i \in next + 1 .. Len(SiteKeys) : SiteKeys[i] = k)
    <3>1. CASE k = SiteKeys[next]
      BY <2>1, <2>3, <3>1, SettingsConstants DEF Loaded
    <3>2. CASE k # SiteKeys[next] /\ Loaded(k, Default) = site[k]
      BY <2>3, <3>2 DEF Loaded, FlashTypes
    <3>3. CASE k # SiteKeys[next] /\ AheadOfFlash(SiteKeys, "save_site", k)
      <4>1. PICK i \in next .. Len(SiteKeys) : SiteKeys[i] = k
        BY <3>3 DEF AheadOfFlash
      <4>2. i \in next + 1 .. Len(SiteKeys)
        BY <1>1, <3>3, <4>1
      <4> QED  BY <1>1, <4>1, <4>2
    <3> QED  BY <2>5, <3>1, <3>2, <3>3 DEF FlashFollows
  <2>6. ASSUME ~worn
        PROVE  /\ \A k \in KeysOf(LimitKeys) : Loaded(k, Factory)' = limits[k]
               /\ Loaded("cfg_rev", 0)' = rev
    BY <1>1, <2>1, <2>3, <2>6, Keys DEF FlashFollows, FlashTypes, AheadOfFlash, Loaded
  <2>7. FlashFollows'
    BY <1>1, <1>5, <2>5, <2>6 DEF FlashFollows, AheadOfFlash, settings
  <2> QED  BY <1>2, <1>3, <2>2, <2>4, <2>7
<1>6. CASE worn' = TRUE /\ UNCHANGED flash /\ pc' = "guide" /\ next' = 1
  <2>1. SettingTypes' /\ FlashTypes' /\ FlashFollows'
    BY <1>1, <1>6 DEF SettingTypes, FlashTypes, FlashFollows, settings, config
  <2> QED  BY <1>2, <1>3, <2>1
<1>7. CASE next > Len(SiteKeys)
  BY <1>1, <1>4, <1>7 DEF SaveSite, Save, Goto
<1>8. CASE next <= Len(SiteKeys)
  <2>1. \/ /\ flash' = [flash EXCEPT ![SiteKeys[next]] = site[SiteKeys[next]]]
           /\ next' = next + 1 /\ UNCHANGED <<pc, worn>>
        \/ worn' = TRUE /\ UNCHANGED flash /\ pc' = "guide" /\ next' = 1
    BY <1>1, <1>8 DEF SaveSite, Save, Goto
  <2> QED  BY <1>5, <1>6, <1>8, <2>1
<1> QED  BY <1>1, <1>7, <1>8

LEMMA SaveLimitsKeeps ==
  ASSUME IInv, SaveLimits
  PROVE  IInv'
<1> USE DEF IInv, SettingsInv
<1>1. /\ pc = "save_limits" /\ pc' \in {"save_limits", "idle"}
      /\ next \in Nat /\ next >= 1 /\ Len(SiteKeys) \in Nat /\ Len(LimitKeys) \in Nat
      /\ Len(SiteKeys \o LimitKeys) = Len(SiteKeys) + Len(LimitKeys)
      /\ UNCHANGED <<Still, requests, settings, config, boots, read>>
  BY Keys DEF SaveLimits, Save, Goto, SettingTypes
<1>2. MotionInv'
  BY <1>1, QuietKeeps DEF MotionInv, RequestTypes
<1>3. CopyIsOld'
  BY <1>1 DEF CopyIsOld, settings, config, Configuration
<1>4. CASE next > Len(LimitKeys) /\ pc' = "idle" /\ next' = 1 /\ UNCHANGED <<flash, worn>>
  <2>1. SettingTypes' /\ FlashTypes'
    BY <1>1, <1>4 DEF SettingTypes, FlashTypes, settings, config
  <2>2. FlashFollows'
    BY <1>1, <1>4 DEF FlashFollows, AheadOfFlash, Loaded, settings
  <2> QED  BY <1>2, <1>3, <2>1, <2>2
<1>5. CASE /\ next <= Len(LimitKeys) /\ next' = next + 1 /\ UNCHANGED <<pc, worn>>
           /\ flash' = [flash EXCEPT ![LimitKeys[next]] = limits[LimitKeys[next]]]
  <2>1. LimitKeys[next] \in KeysOf(LimitKeys)
        /\ limits[LimitKeys[next]] \in Places \cup {Factory}
    BY <1>1, <1>5, Keys DEF SettingTypes
  <2>2. SettingTypes'
    BY <1>1, <1>5 DEF SettingTypes, settings, config
  <2>3. /\ DOMAIN flash' = DOMAIN flash
        /\ flash'[LimitKeys[next]] = limits[LimitKeys[next]]
        /\ \A k \in DOMAIN flash : k # LimitKeys[next] => flash'[k] = flash[k]
    BY <1>5, <2>1 DEF FlashTypes
  <2>4. FlashTypes'
    <3>1. /\ \A k \in KeysOf(LimitKeys) : flash'[k] \in Places \cup {Factory, Unset}
          /\ \A k \in KeysOf(SiteKeys) : flash'[k] = flash[k]
          /\ flash'["cfg_rev"] = flash["cfg_rev"]
      BY <2>1, <2>3, Keys DEF FlashTypes
    <3> QED  BY <2>3, <3>1 DEF FlashTypes
  <2>5. ASSUME ~worn, NEW k \in KeysOf(LimitKeys)
        PROVE  Loaded(k, Factory)' = limits[k]
                 \/ (pc = "save_limits" /\ \E i \in next + 1 .. Len(LimitKeys) : LimitKeys[i] = k)
    <3>1. CASE k = LimitKeys[next]
      BY <2>1, <2>3, <3>1, SettingsConstants DEF Loaded
    <3>2. CASE k # LimitKeys[next] /\ Loaded(k, Factory) = limits[k]
      BY <2>3, <3>2 DEF Loaded, FlashTypes
    <3>3. CASE k # LimitKeys[next] /\ AheadOfFlash(LimitKeys, "save_limits", k)
      <4>1. PICK i \in next .. Len(LimitKeys) : LimitKeys[i] = k
        BY <3>3 DEF AheadOfFlash
      <4>2. i \in next + 1 .. Len(LimitKeys)
        BY <1>1, <3>3, <4>1
      <4> QED  BY <1>1, <4>1, <4>2
    <3> QED  BY <2>5, <3>1, <3>2, <3>3 DEF FlashFollows
  <2>6. ASSUME ~worn
        PROVE  /\ \A k \in KeysOf(SiteKeys) : Loaded(k, Default)' = site[k]
               /\ Loaded("cfg_rev", 0)' = rev
    BY <1>1, <2>1, <2>3, <2>6, Keys DEF FlashFollows, FlashTypes, AheadOfFlash, Loaded
  <2>7. FlashFollows'
    BY <1>1, <1>5, <2>5, <2>6 DEF FlashFollows, AheadOfFlash, settings
  <2> QED  BY <1>2, <1>3, <2>2, <2>4, <2>7
<1>6. CASE worn' = TRUE /\ UNCHANGED <<flash, pc>> /\ next' = next + 1 /\ next <= Len(LimitKeys)
  <2>1. SettingTypes' /\ FlashTypes' /\ FlashFollows'
    BY <1>1, <1>6 DEF SettingTypes, FlashTypes, FlashFollows, settings, config
  <2> QED  BY <1>2, <1>3, <2>1
<1>7. CASE next > Len(LimitKeys)
  BY <1>1, <1>4, <1>7 DEF SaveLimits, Save, Goto
<1>8. CASE next <= Len(LimitKeys)
  <2>1. \/ /\ flash' = [flash EXCEPT ![LimitKeys[next]] = limits[LimitKeys[next]]]
           /\ next' = next + 1 /\ UNCHANGED <<pc, worn>>
        \/ worn' = TRUE /\ UNCHANGED flash /\ next' = next + 1 /\ UNCHANGED pc
    BY <1>1, <1>8 DEF SaveLimits, Save, Goto
  <2> QED  BY <1>5, <1>6, <1>8, <2>1
<1> QED  BY <1>1, <1>7, <1>8

LEMMA ApplyRestKeeps ==
  ASSUME IInv, ApplyRest
  PROVE  IInv'
<1> USE DEF IInv, SettingsInv
<1>1. /\ pc = "guide" /\ changed' = Applied
      /\ guide' = IF msg.guide = Omitted THEN guide ELSE msg.guide
      /\ UNCHANGED <<Still, requests, site, limits, flash, next, msg, boots, worn, read>>
      /\ \/ Applied /\ rev' = rev + 1 /\ pc' = "save_rev"
         \/ ~Applied /\ rev' = rev /\ pc' = "answer"
  BY DEF ApplyRest, Rest, Goto
<1>2. MotionInv'
  BY <1>1, QuietKeeps DEF MotionInv, RequestTypes
<1>3. SettingTypes' /\ FlashTypes'
  BY <1>1 DEF SettingTypes, FlashTypes
<1>4. CopyIsOld'
  <2>1. CASE Applied /\ rev' = rev + 1
    BY <1>1, <2>1 DEF CopyIsOld, SettingTypes
  <2>2. CASE ~Applied /\ rev' = rev
    <3>1. ~changed /\ guide' = guide
      BY <1>1, <2>2 DEF Applied
    <3> QED  BY <1>1, <2>2, <3>1 DEF CopyIsOld, Configuration
  <2> QED  BY <1>1, <2>1, <2>2
<1>5. FlashFollows'
  BY <1>1 DEF FlashFollows, AheadOfFlash, Loaded
<1> QED  BY <1>2, <1>3, <1>4, <1>5

LEMMA SaveRevKeeps ==
  ASSUME IInv, SaveRev
  PROVE  IInv'
<1> USE DEF IInv, SettingsInv
<1>1. /\ pc = "save_rev" /\ pc' = "answer"
      /\ UNCHANGED <<Still, requests, settings, next, config, boots, read>>
  BY DEF SaveRev, Goto
<1>2. MotionInv'
  BY <1>1, QuietKeeps DEF MotionInv, RequestTypes
<1>3. SettingTypes' /\ CopyIsOld'
  BY <1>1 DEF SettingTypes, CopyIsOld, settings, config, Configuration
<1>4. CASE worn' = TRUE /\ UNCHANGED flash
  BY <1>1, <1>2, <1>3, <1>4 DEF FlashTypes, FlashFollows
<1>5. CASE flash' = [flash EXCEPT !["cfg_rev"] = rev] /\ UNCHANGED worn
  <2>1. /\ DOMAIN flash' = DOMAIN flash /\ flash'["cfg_rev"] = rev
        /\ \A k \in DOMAIN flash : k # "cfg_rev" => flash'[k] = flash[k]
    BY <1>5 DEF FlashTypes
  <2>2. FlashTypes'
    BY <2>1, Keys DEF FlashTypes, SettingTypes
  <2>3. Loaded("cfg_rev", 0)' = rev
    BY <2>1, SettingsConstants DEF Loaded, SettingTypes
  <2>4. /\ \A k \in KeysOf(SiteKeys) : Loaded(k, Default)' = Loaded(k, Default)
        /\ \A k \in KeysOf(LimitKeys) : Loaded(k, Factory)' = Loaded(k, Factory)
    BY <2>1, Keys DEF Loaded, FlashTypes
  <2>5. FlashFollows'
    BY <1>1, <1>5, <2>3, <2>4 DEF FlashFollows, AheadOfFlash, settings
  <2> QED  BY <1>2, <1>3, <2>2, <2>5
<1> QED  BY <1>4, <1>5 DEF SaveRev

LEMMA AnswerKeeps ==
  ASSUME IInv, Answer
  PROVE  IInv'
<1> USE DEF IInv, SettingsInv
<1>1. /\ pc = "answer" /\ pc' = "idle" /\ msg' = NoMessage
      /\ read' = IF failed THEN read ELSE <<boots, rev, Configuration>>
      /\ UNCHANGED <<Still, requests, settings, flash, next, boots, worn>>
  BY DEF Answer, Reply, Goto
<1>2. MotionInv'
  BY <1>1, QuietKeeps DEF MotionInv, RequestTypes
<1>3. SettingTypes' /\ FlashTypes'
  BY <1>1 DEF SettingTypes, FlashTypes, settings, NoMessage
<1>4. FlashFollows'
  BY <1>1 DEF FlashFollows, AheadOfFlash, Loaded, settings
<1>5. CopyIsOld'
  BY <1>1 DEF CopyIsOld, settings, Configuration, SettingTypes
<1> QED  BY <1>2, <1>3, <1>4, <1>5

LEMMA SetLimitsKeeps ==
  ASSUME IInv, NEW new \in NewLimits, SetLimits(new)
  PROVE  IInv'
<1> USE DEF IInv, MotionInv, SettingsInv
<1>1. /\ pc = "idle" /\ requests' \in [{"motion", "settings"} -> Nat]
      /\ UNCHANGED <<remembered, locals, asked, stopped,
                     site, guide, rev, flash, next, config, boots, worn, read>>
      /\ \/ UNCHANGED <<pc, motors, limits, owed>>
         \/ /\ MotorsStop \/ SetHome
            /\ limits' \in {new, limits} /\ owed' = "none" /\ pc' = "save_limits"
  BY Accepted DEF SetLimits, LimitsChange, Goto
<1>2. MotorTypes' /\ OrderAsAsked'
  BY <1>1, StopCall, OtherCall, SameMotors DEF motors, MotorTypes
<1>3. MotionInv'
  BY <1>1, <1>2 DEF RequestTypes, CacheIsAsked, ForgottenAtStop, remembered, locals
<1>4. limits' \in [KeysOf(LimitKeys) -> Places \cup {Factory}]
  <2>1. new \in [KeysOf(LimitKeys) -> Places \cup {Factory}]
    BY DEF NewLimits, SettingTypes
  <2> QED  BY <1>1, <2>1 DEF SettingTypes
<1>5. SettingTypes' /\ FlashTypes'
  BY <1>1, <1>4 DEF SettingTypes, FlashTypes, config
<1>6. CopyIsOld'
  BY <1>1 DEF CopyIsOld, config, Configuration
<1>7. FlashFollows'
  <2>1. next = 1 /\ next' = 1
    BY <1>1 DEF SettingTypes
  <2>2. CASE UNCHANGED <<pc, limits>>
    BY <1>1, <2>2 DEF FlashFollows, AheadOfFlash, Loaded
  <2>3. CASE pc' = "save_limits"
    <3>1. \A k \in KeysOf(LimitKeys) : AheadOfFlash(LimitKeys, "save_limits", k)'
      BY <2>1, <2>3, Keys DEF AheadOfFlash
    <3> QED  BY <1>1, <3>1 DEF FlashFollows, AheadOfFlash, Loaded
  <2> QED  BY <1>1, <2>2, <2>3
<1> QED  BY <1>3, <1>5, <1>6, <1>7

\* What a restart makes of the settings.
LEMMA LoadedTypes ==
  ASSUME FlashTypes
  PROVE  /\ [k \in KeysOf(SiteKeys) |-> Loaded(k, Default)] \in [KeysOf(SiteKeys) -> Sites]
         /\ [k \in KeysOf(LimitKeys) |-> Loaded(k, Factory)]
              \in [KeysOf(LimitKeys) -> Places \cup {Factory}]
         /\ Loaded("cfg_rev", 0) \in Nat
BY SettingsConstants DEF FlashTypes, Loaded

LEMMA PowerCutKeeps ==
  ASSUME IInv, PowerCut
  PROVE  IInv'
<1> USE DEF IInv, MotionInv, SettingsInv
<1>1. MotionInv'
  <2>1. MotorTypes' /\ OrderAsAsked'
    BY EmptyQueue DEF PowerCut
  <2>2. /\ saved' = "none" /\ rate' = Zero /\ Reply
        /\ asked' = Zero /\ owed' = "none" /\ UNCHANGED requests
    BY DEF PowerCut
  <2> QED  BY <2>1, <2>2, Replied, RatesMerged DEF RequestTypes, CacheIsAsked, ForgottenAtStop
<1>2. /\ site' = [k \in KeysOf(SiteKeys) |-> Loaded(k, Default)]
      /\ limits' = [k \in KeysOf(LimitKeys) |-> Loaded(k, Factory)]
      /\ rev' = Loaded("cfg_rev", 0) /\ next' = 1 /\ msg' = NoMessage
      /\ pc' = "idle" /\ boots' = boots + 1 /\ UNCHANGED <<flash, worn, read>>
  BY DEF PowerCut, Reply, Goto
<1>3. NoMessage.site \in [KeysOf(SiteKeys) -> Sites \cup {Omitted, Invalid}]
  BY DEF NoMessage
<1>4. SettingTypes' /\ FlashTypes'
  BY <1>2, <1>3, LoadedTypes, Keys DEF SettingTypes, FlashTypes
<1>5. CopyIsOld'
  BY <1>2 DEF CopyIsOld, SettingTypes
<1>6. FlashFollows'
  BY <1>2 DEF FlashFollows, Loaded
<1> QED  BY <1>1, <1>4, <1>5, <1>6
-----------------------------------------------------------------------------
(***************************************************************************)
(* The invariant and the theorems                                          *)
(***************************************************************************)
LEMMA InitIInv == Init => IInv
<1> SUFFICES ASSUME Init PROVE IInv
  OBVIOUS
<1>1. MotionInv
  <2>1. queue \in Seq(Command) /\ Len(queue) = 0 /\ DOMAIN queue = {} /\ active = Nothing
    BY DEF Init, MotionStart
  <2>2. MotorTypes /\ OrderAsAsked
    BY <2>1, CommandsMade, ManualConstants DEF Init, MotionStart, MotorTypes, OrderAsAsked
  <2>3. requests \in [{"motion", "settings"} -> Nat]
    BY ManualConstants DEF Init
  <2> QED  BY <2>2, <2>3 DEF Init, MotionStart, MotionInv, RequestTypes, CacheIsAsked,
                              ForgottenAtStop, Zero, NoRates
<1>2. FlashTypes
  BY Keys DEF Init, FlashTypes
<1>3. /\ site = [k \in KeysOf(SiteKeys) |-> Loaded(k, Default)]
      /\ limits = [k \in KeysOf(LimitKeys) |-> Loaded(k, Factory)]
      /\ rev = Loaded("cfg_rev", 0) /\ next = 1 /\ boots = 1 /\ read = <<0, 0, 0>>
      /\ pc = "idle" /\ msg = NoMessage
  BY DEF Init, Boot, MotionStart
<1>4. SettingTypes
  BY <1>2, <1>3, LoadedTypes, Keys DEF SettingTypes, NoMessage
<1>5. CopyIsOld /\ FlashFollows
  BY <1>3 DEF CopyIsOld, FlashFollows
<1> QED  BY <1>1, <1>2, <1>4, <1>5 DEF IInv, SettingsInv

LEMMA StepIInv == IInv /\ [Next]_vars => IInv'
<1> SUFFICES ASSUME IInv, [Next]_vars PROVE IInv'
  OBVIOUS
<1>1. CASE MotionStep
  <2>1. MotionInv'
    BY <1>1, MotionTaskKeeps, HandlerKeeps, RequestKeeps DEF MotionStep, IInv
  <2> QED  BY <1>1, <2>1, MotionKeepsSettings DEF IInv
<1>2. CASE ConfigStep
  BY <1>2, UpdateSiteKeeps, SaveSiteKeeps, ApplyRestKeeps, SaveRevKeeps, AnswerKeeps,
     SaveLimitsKeeps DEF ConfigStep
<1>3. CASE \E m \in ConfigMessages : Config(m)
  BY <1>3, ConfigKeeps
<1>4. CASE \E new \in NewLimits : SetLimits(new)
  BY <1>4, SetLimitsKeeps
<1>5. CASE PowerCut
  BY <1>5, PowerCutKeeps
<1>6. CASE UNCHANGED vars
  <2>1. UNCHANGED <<Still, requests, pc, settings, flash, next, config, boots, worn, read>>
    BY <1>6 DEF vars, motionVars, Still
  <2>2. MotionInv'
    <3>1. MotorTypes' /\ OrderAsAsked'
      BY <2>1, SameMotors DEF IInv, MotionInv, MotorTypes, Still, motors, history
    <3> QED  BY <2>1, <3>1 DEF IInv, MotionInv, RequestTypes, CacheIsAsked, ForgottenAtStop,
                               Still, remembered, locals, history
  <2>3. SettingsInv'
    BY <2>1 DEF IInv, SettingsInv, SettingTypes, FlashTypes, CopyIsOld, FlashFollows,
                AheadOfFlash, Loaded, Configuration, settings, config
  <2> QED  BY <2>2, <2>3 DEF IInv
<1> QED  BY <1>1, <1>2, <1>3, <1>4, <1>5, <1>6 DEF Next

\* The strengthened invariant holds whatever clients ask, in whatever order
\* the motion task, faults and power cuts come between the steps of a handler.
THEOREM MountIInv == Spec => []IInv
<1>1. Init => IInv
  BY InitIInv
<1>2. IInv /\ [Next]_vars => IInv'
  BY StepIInv
<1> QED  BY <1>1, <1>2, PTL DEF Spec

\* Every variable keeps its type and the queue never exceeds its length.
THEOREM MountTypes == Spec => []TypeOK
<1>1. IInv => TypeOK
  BY ElementOfSeq DEF IInv, MotionInv, SettingsInv, MotorTypes, RequestTypes, SettingTypes, TypeOK
<1> QED  BY <1>1, MountIInv, PTL

\* The newest order to the motors has, for each axis, what clients last asked
\* of it since the last stop.
THEOREM MountOrders == Spec => []OrderAsAsked
<1>1. IInv => OrderAsAsked
  BY DEF IInv, MotionInv
<1> QED  BY <1>1, MountIInv, PTL

\* No tracking mode from before a full stop is ever brought back after it.
THEOREM MountStops == Spec => []StopForgets
<1>1. IInv => StopForgets
  BY DEF IInv, MotionInv, ForgottenAtStop, StopForgets
<1> QED  BY <1>1, MountIInv, PTL

\* An unchanged revision means an unchanged configuration within a boot, for
\* every message, also one that is applied in part.
THEOREM MountRevision == Spec => []RevTellsChange
<1>1. IInv => RevTellsChange
  BY DEF IInv, SettingsInv, CopyIsOld, RevTellsChange
<1> QED  BY <1>1, MountIInv, PTL

\* A restart between two requests changes nothing of what was answered, if no
\* write to the flash has failed, wherever earlier cuts came.
THEOREM MountFlash == Spec => AnsweredSurvives
<1>1. IInv /\ [Next]_vars
        => [boots' # boots /\ pc = "idle" /\ ~worn => UNCHANGED <<site, rev, limits>>]_vars
  <2> SUFFICES ASSUME IInv, [Next]_vars, boots' # boots, pc = "idle", ~worn
               PROVE  UNCHANGED <<site, rev, limits>>
    OBVIOUS
  <2>1. PowerCut
    BY MotionStaysApart
       DEF Next, ConfigStep, UpdateSite, SaveSite, SaveLimits, Save, ApplyRest, Rest, SaveRev,
           Answer, Config, SetLimits, LimitsChange, vars
  <2>2. /\ site' = [k \in KeysOf(SiteKeys) |-> Loaded(k, Default)]
        /\ limits' = [k \in KeysOf(LimitKeys) |-> Loaded(k, Factory)]
        /\ rev' = Loaded("cfg_rev", 0)
    BY <2>1 DEF PowerCut
  <2>3. /\ \A k \in KeysOf(SiteKeys) : Loaded(k, Default) = site[k]
        /\ \A k \in KeysOf(LimitKeys) : Loaded(k, Factory) = limits[k]
        /\ Loaded("cfg_rev", 0) = rev
    BY DEF IInv, SettingsInv, FlashFollows, AheadOfFlash
  <2>4. site \in [KeysOf(SiteKeys) -> Sites] /\ limits \in [KeysOf(LimitKeys) -> Places \cup {Factory}]
    BY DEF IInv, SettingsInv, SettingTypes
  <2> QED  BY <2>2, <2>3, <2>4
<1> QED  BY <1>1, MountIInv, PTL DEF Spec, AnsweredSurvives
=============================================================================
