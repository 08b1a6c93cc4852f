---------------------------- MODULE BatchEncoding ----------------------------
(***************************************************************************)
(* The batches of one axis of a SLEW or MOVE_AXIS: the speed of each step, *)
(* how many steps go in a batch, and the RMT symbols that stand for them.  *)
(*                                                                         *)
(* A symbol has two halves with a duration each; a step is a pulse and an  *)
(* idle time, which takes more symbols the slower the axis is.  The loop   *)
(* counts every step of a batch when the batch completes, whatever was     *)
(* encoded.  Two batches are in flight; SlewPipeline says what happens to  *)
(* them, here they complete in order.                                      *)
(*                                                                         *)
(* Distances are in steps, of which a turn has StepsPerTurn, and the ramp  *)
(* in centidegrees; the quotients of floats are those of integers.         *)
(***************************************************************************)
EXTENDS Integers, Sequences

CONSTANTS
  DurationMax,      \* RMT_DURATION_MAX, of half a symbol
  PulseTicks,       \* STEP_PULSE_TICKS
  MinLowTicks,      \* STEP_MIN_LOW_TICKS
  MaxPeriod,        \* MAX_STEP_PERIOD_TICKS
  BatchTarget,      \* RMT_BATCH_TARGET_TICKS
  BatchMaxSteps,    \* RMT_BATCH_MAX_STEPS
  BufferSymbols,    \* RMT_BUFFER_SYMBOLS
  StepsPerTurn,     \* 360 / motors_get_deg_per_microstep()
  StepTicks,        \* the period of a step at one centidegree per second
  MinSlew, ShortSlew, GentleSlew, AccelDist, DecelDist,    \* *_CDS
  Orders            \* the motions of the axis

ASSUME EncodingConstants ==
  /\ {DurationMax, PulseTicks, MinLowTicks, MaxPeriod} \subseteq Nat \ {0}
  /\ PulseTicks <= DurationMax
  /\ {BatchTarget, BatchMaxSteps, BufferSymbols, StepTicks} \subseteq Nat \ {0}
  /\ StepsPerTurn \in Nat /\ StepsPerTurn >= 36000    \* a centidegree has a step
  /\ {MinSlew, AccelDist, DecelDist} \subseteq Nat \ {0}
  /\ {ShortSlew, GentleSlew} \subseteq Nat /\ ShortSlew >= 2
  /\ Orders \subseteq [move : BOOLEAN, distance : Nat, speed : Nat, ticks : Nat]
  /\ \A o \in Orders : o.speed >= MinSlew

\* What the constants of the code owe each other for a batch to fit its buffer:
\* a step of a SLEW takes one symbol, and a batch of a MOVE_AXIS two for each step
\* beside those that are full (motors_motion_task.c:47-63).
ASSUME BufferSuffices ==
  /\ MinLowTicks <= DurationMax
  /\ StepTicks \div MinSlew <= PulseTicks + DurationMax
  /\ 2 * BatchMaxSteps + BatchTarget \div (2 * DurationMax) < BufferSymbols

VARIABLES
  order,            \* a SLEW at a speed, or a MOVE_AXIS with steps of so many ticks
  pc,
  period,           \* ra_period: what the next batch is sized with
  done,             \* ra_steps_done
  flight,           \* ra_batch[ping] and ra_batch[pong], while they are queued
  \* encode_axis_batch() and encode_one_step()
  batch, taken,     \* steps of the batch; i
  idle,             \* idle_ticks: what is left of the step's idle time
  tape,             \* what is written in the buffer
  kept,             \* the part of it that `total' counts: the whole steps
  \* history
  due,              \* the time the whole steps should take
  speed             \* of the last step that was encoded

encoder == <<batch, taken, idle, tape, kept, due, speed>>
vars == <<order, pc, period, done, flight, encoder>>

Smaller(a, b) == IF a < b THEN a ELSE b
Larger(a, b) == IF a < b THEN b ELSE a
Goto(l) == pc' = l
-----------------------------------------------------------------------------
(***************************************************************************)
(* Speed                                                                   *)
(***************************************************************************)
\* ramp_percent(): up along AccelDist, down along DecelDist; short slews go up
\* half of the way.
RampPercent_NeverBrakes(t, d) ==
  IF d <= AccelDist + DecelDist
  THEN IF t < d \div 2 THEN (t * 100) \div (d \div 2) ELSE 100
  ELSE IF t < AccelDist THEN (t * 100) \div AccelDist ELSE 100

RampPercent(t, d) ==
  IF d <= AccelDist + DecelDist
  THEN IF t < d \div 2 THEN (t * 100) \div (d \div 2)
                       ELSE ((d - t) * 100) \div (d \div 2)
  ELSE IF t < AccelDist THEN (t * 100) \div AccelDist
       ELSE IF t < d - DecelDist THEN 100
       ELSE ((d - t) * 100) \div DecelDist

\* distance_ra_cds, in whole centidegrees: none for a slew of a few steps; and
\* travelled_cds, the share of it that t steps make up.
Cds(o) == (o.distance * 36000) \div StepsPerTurn
TravelledCds(o, t) == (t * Cds(o)) \div o.distance

\* ramp_velocity()
Cap(o) == IF Cds(o) < GentleSlew THEN Smaller(o.speed, 4 * MinSlew) ELSE o.speed

Velocity(o, t) ==
  IF Cds(o) = 0 THEN o.speed
  ELSE IF Cds(o) < ShortSlew THEN MinSlew
  ELSE MinSlew + ((Cap(o) - MinSlew) * RampPercent(TravelledCds(o, t), Cds(o))) \div 100

\* step_period_ticks(), and the period that compute_slew_periods() finds.
MinPeriod == PulseTicks + MinLowTicks
Period(ticks) == Larger(ticks, MinPeriod)
PeriodAt(o, t) == IF o.move THEN Period(o.ticks) ELSE Period(StepTicks \div Velocity(o, t))

\* compute_batch_size()
BatchSize_NoCeiling(p, remaining) ==
  Smaller(remaining, IF p < BatchTarget THEN BatchTarget \div p ELSE 1)

BatchSize(p, remaining) ==
  Smaller(Smaller(remaining, IF p < BatchTarget THEN BatchTarget \div p ELSE 1), BatchMaxSteps)

\* Where the next batch starts: behind the one that is still in flight when a
\* buffer is free.
Submitted == done + (IF flight = <<>> THEN 0 ELSE Head(flight))
-----------------------------------------------------------------------------
(***************************************************************************)
(* The slewing loop                                                        *)
(***************************************************************************)
Blank == [symbols |-> <<>>, ticks |-> 0, pulses |-> 0]

Init ==
  /\ order = [move |-> FALSE, distance |-> 0, speed |-> MinSlew, ticks |-> 0]
  /\ pc = "ready" /\ period = MaxPeriod /\ done = 0 /\ flight = <<>>
  /\ batch = 0 /\ taken = 0 /\ idle = 0 /\ tape = Blank /\ kept = Blank
  /\ due = 0 /\ speed = MinSlew

Begin(o) ==
  /\ pc = "ready" /\ Goto("size")
  /\ order' = o /\ period' = PeriodAt(o, 0) /\ done' = 0 /\ flight' = <<>>
  /\ speed' = MinSlew
  /\ UNCHANGED <<batch, taken, idle, tape, kept, due>>

\* A new batch for the buffer that is free.
Size ==
  /\ pc = "size"
  /\ batch' = BatchSize(period, order.distance - Submitted)
  /\ Goto(IF batch' = 0 THEN "wait" ELSE "encode")
  /\ taken' = 0 /\ idle' = 0 /\ tape' = Blank /\ kept' = Blank /\ due' = 0
  /\ UNCHANGED <<order, period, done, flight, speed>>

Encoded == (pc = "encode" /\ taken = batch) \/ pc = "full"

\* Both batches are submitted before the loop waits for the first.
Submit ==
  /\ Encoded
  /\ IF tape.symbols = <<>>
     THEN Goto("ready") /\ UNCHANGED flight         \* refused: nothing to send
     ELSE /\ flight' = Append(flight, batch)
          /\ Goto(IF done = 0 /\ flight = <<>> THEN "size" ELSE "wait")
  /\ UNCHANGED <<order, period, done, encoder>>

\* The ramp is recalculated every 5 ms, from a position that leaves out the batch
\* being emitted.
Pong == IF Len(flight) = 2 THEN flight[2] ELSE 0

Recalculate ==
  /\ pc = "wait"
  /\ period' = PeriodAt(order, done + Pong)
  /\ UNCHANGED <<order, pc, done, flight, encoder>>

Complete ==
  /\ pc = "wait" /\ flight # <<>>
  /\ done' = done + Head(flight) /\ flight' = Tail(flight)
  /\ Goto("size")
  /\ UNCHANGED <<order, period, encoder>>

Finish ==
  /\ pc = "wait" /\ done >= order.distance
  /\ Goto("ready")
  /\ UNCHANGED <<order, period, done, flight, encoder>>
-----------------------------------------------------------------------------
(***************************************************************************)
(* Encoding a step                                                         *)
(***************************************************************************)
Write(high, first, second) ==
  tape' = [symbols |-> Append(tape.symbols, <<first, second>>),
           ticks |-> tape.ticks + first + second,
           pulses |-> tape.pulses + high]

Room_OneMore == Len(tape.symbols) <= BufferSymbols
Room == Len(tape.symbols) < BufferSymbols

\* base_travelled + i
Travelled_ForgetsFlight == done + taken
Travelled == Submitted + taken

\* A MOVE_AXIS has one period for the batch, a SLEW one for each step.
Pace == IF order.move THEN Period(period) ELSE PeriodAt(order, Travelled)

StepDone ==
  /\ Goto("encode") /\ kept' = tape' /\ taken' = taken + 1 /\ idle' = 0
  /\ due' = due + Pace
  /\ speed' = IF order.move THEN speed ELSE Velocity(order, Travelled)

Encoder == <<order, period, done, flight, batch>>

Pulse ==
  /\ pc = "encode" /\ taken < batch /\ Room
  /\ Write(1, PulseTicks, Smaller(Pace - PulseTicks, DurationMax))
  /\ IF Pace - PulseTicks <= DurationMax THEN StepDone
     ELSE /\ Goto("idle") /\ idle' = Pace - PulseTicks - DurationMax
          /\ UNCHANGED <<taken, kept, due, speed>>
  /\ UNCHANGED Encoder

BulkIdle_CountsOneHalf ==
  /\ pc = "idle" /\ idle > 2 * DurationMax /\ Room
  /\ Write(0, DurationMax, DurationMax)
  /\ idle' = idle - DurationMax
  /\ UNCHANGED <<Encoder, pc, taken, kept, due, speed>>

BulkIdle ==
  /\ pc = "idle" /\ idle > 2 * DurationMax /\ Room
  /\ Write(0, DurationMax, DurationMax)
  /\ idle' = idle - 2 * DurationMax
  /\ UNCHANGED <<Encoder, pc, taken, kept, due, speed>>

LastIdle ==
  /\ pc = "idle" /\ idle <= 2 * DurationMax /\ Room
  /\ Write(0, Smaller(idle, DurationMax), idle - Smaller(idle, DurationMax))
  /\ StepDone
  /\ UNCHANGED Encoder

\* No room for the rest of a step: it is given up; the loop of a SLEW goes on
\* with the next one.
Truncate ==
  /\ pc = "idle" \/ (pc = "encode" /\ taken < batch)
  /\ ~Room
  /\ tape' = kept /\ idle' = 0
  /\ IF pc = "idle" /\ ~order.move THEN Goto("encode") /\ taken' = taken + 1
                                   ELSE Goto("full") /\ UNCHANGED taken
  /\ UNCHANGED <<Encoder, kept, due, speed>>

Encode == Pulse \/ BulkIdle \/ LastIdle \/ Truncate

Next ==
  \/ \E o \in Orders : Begin(o)
  \/ Size \/ Encode \/ Submit \/ Recalculate \/ Complete \/ Finish

Spec == Init /\ [][Next]_vars
-----------------------------------------------------------------------------
(***************************************************************************)
(* Properties                                                              *)
(***************************************************************************)
\* Types; the symbols fit the buffer and their halves the 15 bits they have.
TypeOK ==
  /\ pc \in {"ready", "size", "encode", "idle", "full", "wait"}
  /\ {period, done, batch, taken, idle, due, speed} \subseteq Nat
  /\ flight \in Seq(Nat) /\ Len(flight) <= 2
  /\ \A t \in {tape, kept} :
       /\ Len(t.symbols) <= BufferSymbols
       /\ \A i \in DOMAIN t.symbols : t.symbols[i] \in (0 .. DurationMax) \X (0 .. DurationMax)

\* The symbols of the whole steps take exactly the time of their periods,
\* however many symbols a step takes (motors_rmt.c:243-315).
StepsTimed == kept.ticks = due

\* The loop counts the steps of a batch that completes: when it is submitted,
\* the buffer has them all, or nothing that could be sent
\* (motors_motion_task.c:47-64, 233-246; motors_rmt.c:335-357).
CountedIsEncoded ==
  Encoded => tape = kept /\ tape.pulses \in {0, batch}

\* How fast the speed may change: the change along the ramp of one step, twice
\* that at the top of a short slew of odd length, and the rounding to a percent
\* and to a centidegree per second.
Slope(o) == Smaller(Smaller(AccelDist, DecelDist), Cds(o) \div 2)
Gain == Cap(order) - MinSlew
Near(v, w) ==
  100 * Slope(order) * (v - w) <= 200 * Gain + Slope(order) * (Gain + 200)

\* A slew of a centidegree or more.  The whole centidegrees of a shorter one are
\* none, and ramp_velocity() returns the speed that was asked for, from the first
\* step to the last (motors_motion_task.c:158-159, 686).
Measured(o) == ~o.move /\ Cds(o) > 0

\* The speed of a slew of a centidegree or more changes little by little from each
\* step to the next one, also where a batch ends and the next one starts, which was
\* encoded while two others were on their way (motors_motion_task.c:785-807,
\* 896-906).
SmoothRamp ==
  [][Measured(order) /\ order' = order
       => Near(speed, speed') /\ Near(speed', speed)]_vars

\* A slew of a centidegree or more comes to its target at about the lowest speed,
\* and never exceeds the speed it was asked for by more than a step of the ramp
\* (motors_motion_task.c:117-184).
ArrivesSlowly ==
  Measured(order) =>
    /\ speed >= MinSlew
    /\ Slope(order) * (speed - Cap(order)) <= Gain
    /\ pc # "ready" /\ done = order.distance => Near(speed, MinSlew)
=============================================================================
