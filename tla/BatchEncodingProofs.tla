------------------------- MODULE BatchEncodingProofs -------------------------
(***************************************************************************)
(* Proofs about BatchEncoding, for every value of the constants.           *)
(*                                                                         *)
(* That the symbols of a step take its time rests on the time being a      *)
(* positive number of ticks; that, on a speed of the ramp that is never    *)
(* below the lowest one; and that, on the loop never planning steps beyond *)
(* the distance, where the ramp would be negative.  So one inductive       *)
(* invariant, Inv, carries all of it.  Roomy adds that the symbols fit the *)
(* buffer; that no step of a slew is given up follows, so OnRamp can say   *)
(* of which step the last speed is.                                        *)
(***************************************************************************)
EXTENDS BatchEncoding, SequenceTheorems, TLAPS

Motion(o) ==
  /\ o \in [move : BOOLEAN, distance : Nat, speed : Nat, ticks : Nat]
  /\ o.speed >= MinSlew

\* Lemmas about the operators

LEMMA Quotient == ASSUME NEW a \in Nat, NEW b \in Nat, b > 0 PROVE a \div b \in Nat
  OBVIOUS

LEMMA QuotientBounds ==
  ASSUME NEW a \in Nat, NEW b \in Nat, b > 0
  PROVE  b * (a \div b) <= a
  OBVIOUS

\* The quotient is the largest of the factors that stay below.
LEMMA QuotientIsLargest ==
  ASSUME NEW a \in Nat, NEW b \in Nat, b > 0, NEW n \in Int, b * n <= a
  PROVE  n <= a \div b
<1> DEFINE q == a \div b
<1>1. q \in Nat /\ a < b * (q + 1)
  OBVIOUS
<1> HIDE DEF q
<1>2. SUFFICES ASSUME n >= q + 1 PROVE FALSE
  BY <1>1
<1>3. b * n >= b * (q + 1)
  BY <1>1, <1>2
<1> QED  BY <1>1, <1>3

LEMMA Percentage ==
  ASSUME NEW t \in Nat, NEW d \in Nat, t <= d, d >= 2
  PROVE  RampPercent(t, d) \in Nat
<1>1. AccelDist \in Nat /\ AccelDist > 0 /\ DecelDist \in Nat /\ DecelDist > 0
  BY EncodingConstants
<1>2. d \div 2 \in Nat /\ d \div 2 > 0
  OBVIOUS
<1>3. t * 100 \in Nat /\ (d - t) * 100 \in Nat
  OBVIOUS
<1>4. /\ (t * 100) \div (d \div 2) \in Nat /\ ((d - t) * 100) \div (d \div 2) \in Nat
      /\ (t * 100) \div AccelDist \in Nat /\ ((d - t) * 100) \div DecelDist \in Nat
  BY <1>1, <1>2, <1>3, Quotient
<1> QED  BY <1>4 DEF RampPercent

\* A slew is no more centidegrees than steps.
LEMMA CdsInRange ==
  ASSUME NEW o, Motion(o)
  PROVE  Cds(o) \in Nat /\ Cds(o) <= o.distance
<1> DEFINE d == o.distance
           n == d * 36000
<1>1. d \in Nat /\ n \in Nat /\ StepsPerTurn \in Nat /\ StepsPerTurn >= 36000
  BY EncodingConstants DEF Motion
<1>2. Cds(o) = n \div StepsPerTurn
  BY DEF Cds
<1>3. Cds(o) \in Nat /\ StepsPerTurn * Cds(o) <= n
  <2>1. n \div StepsPerTurn \in Nat /\ StepsPerTurn * (n \div StepsPerTurn) <= n
    <3> HIDE DEF n
    <3> QED  BY <1>1, Quotient, QuotientBounds
  <2> QED  BY <1>2, <2>1
<1>4. n <= StepsPerTurn * d
  BY <1>1
<1> HIDE DEF n, d
<1>5. ~(Cds(o) >= d + 1)
  <2>1. SUFFICES ASSUME Cds(o) >= d + 1 PROVE FALSE
    OBVIOUS
  <2>2. StepsPerTurn * Cds(o) >= StepsPerTurn * (d + 1)
    BY <1>1, <1>3, <2>1
  <2>3. StepsPerTurn * (d + 1) = StepsPerTurn * d + StepsPerTurn
    BY <1>1
  <2>4. StepsPerTurn * d \in Nat /\ StepsPerTurn * Cds(o) \in Nat
    BY <1>1, <1>3
  <2> QED  BY <1>1, <1>3, <1>4, <2>2, <2>3, <2>4
<1> QED  BY <1>1, <1>3, <1>5 DEF d

\* The whole centidegrees of the way are none at its start, all at its end, and
\* never more in between.
LEMMA WayInRange ==
  ASSUME NEW o, Motion(o), o.distance > 0, NEW t \in Nat, t <= o.distance
  PROVE  TravelledCds(o, t) \in Nat /\ TravelledCds(o, t) <= Cds(o)
<1> DEFINE d == o.distance
           c == Cds(o)
           u == TravelledCds(o, t)
<1>1. d \in Nat /\ d > 0 /\ c \in Nat
  BY CdsInRange DEF Motion
<1>2. t * c \in Nat /\ u = (t * c) \div d
  BY <1>1 DEF TravelledCds
<1>3. u \in Nat /\ d * u <= t * c
  <2>1. (t * c) \div d \in Nat /\ d * ((t * c) \div d) <= t * c
    BY <1>1, <1>2, Quotient, QuotientBounds
  <2> HIDE DEF u, c
  <2> QED  BY <1>2, <2>1
<1>4. t <= d
  OBVIOUS
<1> HIDE DEF d, c, u
<1>5. t * c <= d * c
  BY <1>1, <1>4
<1>6. ~(u >= c + 1)
  <2>1. SUFFICES ASSUME u >= c + 1 PROVE FALSE
    OBVIOUS
  <2>2. d * u >= d * (c + 1) /\ d * (c + 1) = d * c + d
    BY <1>1, <1>3, <2>1
  <2>3. d * c \in Nat /\ d * u \in Nat
    BY <1>1, <1>3
  <2> QED  BY <1>1, <1>2, <1>3, <1>5, <2>2, <2>3
<1>7. u <= c
  BY <1>1, <1>3, <1>6
<1> QED  BY <1>3, <1>7 DEF u, c

LEMMA WayEnds ==
  ASSUME NEW o, Motion(o), o.distance > 0
  PROVE  TravelledCds(o, 0) = 0 /\ TravelledCds(o, o.distance) = Cds(o)
<1> DEFINE d == o.distance
           c == Cds(o)
           u == TravelledCds(o, d)
<1>1. d \in Nat /\ d > 0 /\ c \in Nat
  BY CdsInRange DEF Motion
<1>2. TravelledCds(o, 0) = 0
  <2>1. 0 * c = 0 /\ 0 \div d = 0
    BY <1>1
  <2> QED  BY <2>1 DEF TravelledCds
<1>3. u \in Nat /\ u <= c
  BY <1>1, WayInRange
<1>4. d * c \in Nat /\ u = (d * c) \div d
  BY <1>1 DEF TravelledCds
<1> HIDE DEF d, c, u
<1>5. c <= u
  BY <1>1, <1>4, QuotientIsLargest
<1> QED  BY <1>1, <1>2, <1>3, <1>5 DEF u, c, d

\* A step makes up a centidegree at most.
LEMMA WayStep ==
  ASSUME NEW o, Motion(o), Cds(o) > 0, NEW t \in Nat, t + 1 <= o.distance
  PROVE  /\ TravelledCds(o, t) \in Nat /\ TravelledCds(o, t) + 1 <= Cds(o)
         /\ TravelledCds(o, t + 1) \in {TravelledCds(o, t), TravelledCds(o, t) + 1}
<1> DEFINE d == o.distance
           c == Cds(o)
           u == TravelledCds(o, t)
           w == TravelledCds(o, t + 1)
           n == t * c
           m == (t + 1) * c
<1>1. d \in Nat /\ d > 0 /\ c \in Nat /\ c > 0 /\ c <= d /\ t + 1 <= d
  BY CdsInRange DEF Motion
<1>2. n \in Nat /\ m \in Nat /\ m = n + c /\ u = n \div d /\ w = m \div d
  <2>1. n \in Nat /\ m \in Nat /\ m = n + c
    <3> HIDE DEF c
    <3> QED  BY <1>1
  <2>2. u = n \div d /\ w = m \div d
    BY DEF TravelledCds
  <2> QED  BY <2>1, <2>2
<1>3. m <= d * c
  BY <1>1
<1> HIDE DEF d, c, u, w, n, m
<1>4. /\ u \in Nat /\ d * u <= n /\ n < d * (u + 1)
      /\ w \in Nat /\ d * w <= m /\ m < d * (w + 1)
  BY <1>1, <1>2
<1>5. /\ d * (u + 1) = d * u + d /\ d * (w + 1) = d * w + d
      /\ d * u \in Nat /\ d * w \in Nat /\ d * c \in Nat
  BY <1>1, <1>4
<1>6. ~(u >= c)
  <2>1. SUFFICES ASSUME u >= c PROVE FALSE
    OBVIOUS
  <2>2. d * u >= d * c
    BY <1>1, <1>4, <2>1
  <2> QED  BY <1>1, <1>2, <1>3, <1>4, <1>5, <2>2
<1>7. ~(u >= w + 1)
  <2>1. SUFFICES ASSUME u >= w + 1 PROVE FALSE
    OBVIOUS
  <2>2. d * u >= d * (w + 1)
    BY <1>1, <1>4, <2>1
  <2> QED  BY <1>1, <1>2, <1>4, <1>5, <2>2
<1>8. ~(w >= u + 2)
  <2>1. SUFFICES ASSUME w >= u + 2 PROVE FALSE
    OBVIOUS
  <2>2. d * w >= d * (u + 2) /\ d * (u + 2) = d * u + d + d
    BY <1>1, <1>4, <2>1
  <2> QED  BY <1>1, <1>2, <1>4, <1>5, <2>2
<1>9. u \in Nat /\ u + 1 <= c /\ (w = u \/ w = u + 1)
  BY <1>1, <1>4, <1>6, <1>7, <1>8
<1> QED  BY <1>9 DEF u, w, c

LEMMA AtLeastMinSlew ==
  ASSUME NEW o, Motion(o), NEW t \in Nat, t <= o.distance
  PROVE  Velocity(o, t) \in Nat /\ Velocity(o, t) >= MinSlew
<1>1. /\ MinSlew \in Nat /\ MinSlew > 0 /\ ShortSlew \in Nat /\ ShortSlew >= 2
      /\ o.speed \in Nat /\ o.speed >= MinSlew
      /\ o.distance \in Nat /\ Cds(o) \in Nat /\ Cds(o) <= o.distance
  BY CdsInRange, EncodingConstants DEF Motion
<1>2. CASE Cds(o) >= ShortSlew
  <2> DEFINE u == TravelledCds(o, t)
             p == RampPercent(u, Cds(o))
             gain == Cap(o) - MinSlew
  <2>1. gain \in Nat
    BY <1>1 DEF Cap, Smaller
  <2>2. u \in Nat /\ u <= Cds(o)
    BY <1>1, <1>2, WayInRange
  <2>3. p \in Nat
    <3> HIDE DEF u
    <3> QED  BY <1>1, <1>2, <2>2, Percentage
  <2>4. gain * p \in Nat
    BY <2>1, <2>3
  <2>5. (gain * p) \div 100 \in Nat
    BY <2>4, Quotient
  <2>6. Velocity(o, t) = MinSlew + (gain * p) \div 100
    BY <1>1, <1>2 DEF Velocity
  <2> HIDE DEF gain, p
  <2> QED  BY <1>1, <2>5, <2>6
<1>3. CASE Cds(o) < ShortSlew
  BY <1>1, <1>3 DEF Velocity
<1> QED  BY <1>1, <1>2, <1>3

\* Whatever it is asked for, a step lasts longer than its pulse.
LEMMA LongerThanPulse ==
  ASSUME NEW x \in Nat
  PROVE  Period(x) \in Nat /\ Period(x) > PulseTicks
<1>1. PulseTicks \in Nat /\ MinLowTicks \in Nat /\ MinLowTicks > 0
  BY EncodingConstants
<1> QED  BY <1>1 DEF Period, MinPeriod, Larger

LEMMA PositivePeriod ==
  ASSUME NEW o, Motion(o), NEW t \in Nat, t <= o.distance
  PROVE  PeriodAt(o, t) \in Nat /\ PeriodAt(o, t) > PulseTicks
<1>1. StepTicks \in Nat
  BY EncodingConstants
<1>2. StepTicks \div Velocity(o, t) \in Nat
  <2>1. Velocity(o, t) \in Nat /\ Velocity(o, t) > 0
    BY AtLeastMinSlew, EncodingConstants
  <2> QED  BY <1>1, <2>1, Quotient
<1>3. o.ticks \in Nat
  BY DEF Motion
<1> QED  BY <1>2, <1>3, LongerThanPulse DEF PeriodAt

LEMMA BatchInRange ==
  ASSUME NEW p \in Nat, p > 0, NEW r \in Nat
  PROVE  BatchSize(p, r) \in Nat /\ BatchSize(p, r) <= r
<1>1. BatchTarget \in Nat /\ BatchMaxSteps \in Nat
  BY EncodingConstants
<1>2. BatchTarget \div p \in Nat
  BY <1>1, Quotient
<1> QED  BY <1>1, <1>2 DEF BatchSize, Smaller
-----------------------------------------------------------------------------
(***************************************************************************)
(* The invariant                                                           *)
(***************************************************************************)
Half == 0 .. DurationMax
Tape == [symbols : Seq(Half \X Half), ticks : Nat, pulses : Nat]
Fits(t) == t \in Tape /\ Len(t.symbols) <= BufferSymbols

Flying ==
  IF flight = <<>> THEN 0
  ELSE IF Len(flight) = 1 THEN flight[1] ELSE flight[1] + flight[2]

Encoding == pc \in {"encode", "idle", "full"}

Shape ==
  /\ pc \in {"ready", "size", "encode", "idle", "full", "wait"}
  /\ Motion(order)
  /\ period \in Nat /\ period > 0
  /\ done \in Nat /\ batch \in Nat /\ taken \in Nat /\ idle \in Nat /\ due \in Nat
  /\ speed \in Nat /\ speed >= MinSlew
  /\ flight \in Seq(Nat) /\ Len(flight) <= 2
  /\ pc = "size" \/ Encoding => Len(flight) <= 1
  /\ Fits(tape) /\ Fits(kept)

\* Nothing is planned beyond the distance.
Planned ==
  /\ pc \in {"size", "wait"} => done + Flying <= order.distance
  /\ Encoding => done + Flying + batch <= order.distance /\ taken <= batch
  /\ pc = "idle" => taken < batch

\* What is written and what is left of a step make up its period.
Timed ==
  /\ kept.ticks = due
  /\ pc # "idle" => tape = kept
  /\ pc = "idle" => tape.ticks + idle = due + Pace

Inv == Shape /\ Planned /\ Timed

LEMMA InitInv == Init => Inv
<1> SUFFICES ASSUME Init PROVE Inv
  OBVIOUS
<1>1. MinSlew \in Nat /\ MaxPeriod \in Nat /\ MaxPeriod > 0 /\ BufferSymbols \in Nat
  BY EncodingConstants
<1>2. Motion(order)
  BY <1>1 DEF Init, Motion
<1>3. Fits(Blank)
  BY <1>1 DEF Fits, Tape, Blank
<1>4. Blank.ticks = 0
  BY DEF Blank
<1> QED  BY <1>1, <1>2, <1>3, <1>4 DEF Init, Inv, Shape, Planned, Timed, Encoding

LEMMA Flight ==
  ASSUME Shape
  PROVE  /\ flight = <<>> \/ Len(flight) = 1 \/ Len(flight) = 2
         /\ \A i \in 1 .. Len(flight) : flight[i] \in Nat
         /\ flight # <<>> => Head(flight) = flight[1] /\ Len(flight) > 0
<1>1. flight \in Seq(Nat) /\ Len(flight) \in Nat /\ Len(flight) <= 2
  BY DEF Shape
<1>2. Len(flight) = 0 => flight = <<>>
  BY <1>1
<1>3. \A i \in 1 .. Len(flight) : flight[i] \in Nat
  BY <1>1
<1>4. flight # <<>> => Head(flight) = flight[1] /\ Len(flight) > 0
  <2>1. Head(flight) = flight[1]
    BY <1>1
  <2> QED  BY <1>1, <1>2, <2>1
<1>5. Len(flight) = 0 \/ Len(flight) = 1 \/ Len(flight) = 2
  <2>1. \A n \in Nat : n <= 2 => n = 0 \/ n = 1 \/ n = 2
    OBVIOUS
  <2> QED  BY <1>1, <2>1
<1> QED  BY <1>2, <1>3, <1>4, <1>5

LEMMA FlyingIsNat == ASSUME Shape PROVE Flying \in Nat
<1>1. CASE flight = <<>>
  BY <1>1 DEF Flying
<1>2. CASE Len(flight) = 1
  BY <1>2, Flight DEF Flying
<1>3. CASE Len(flight) = 2
  BY <1>3, Flight DEF Flying
<1> QED  BY <1>1, <1>2, <1>3, Flight

\* Where a buffer is free at most one batch is in flight.
LEMMA OneInFlight ==
  ASSUME Shape, pc = "size" \/ Encoding PROVE Submitted = done + Flying
<1>1. Len(flight) <= 1
  BY DEF Shape
<1>2. CASE flight = <<>>
  BY <1>2 DEF Submitted, Flying
<1>3. CASE flight # <<>>
  BY <1>1, <1>3, Flight DEF Submitted, Flying
<1> QED  BY <1>2, <1>3

\* What the loop knows where it encodes a step.
LEMMA StepPace ==
  ASSUME Inv, Encoding, taken < batch
  PROVE  /\ Pace \in Nat /\ Pace > PulseTicks
         /\ Travelled \in Nat /\ Travelled <= order.distance
<1>1. Submitted = done + Flying
  BY OneInFlight DEF Inv
<1>2. Travelled \in Nat /\ Travelled <= order.distance
  <2>1. Flying \in Nat /\ done \in Nat /\ taken \in Nat /\ batch \in Nat
        /\ order.distance \in Nat
    BY FlyingIsNat DEF Inv, Shape, Motion
  <2>2. done + Flying + batch <= order.distance
    BY DEF Inv, Planned
  <2> QED  BY <1>1, <2>1, <2>2 DEF Travelled
<1>3. PeriodAt(order, Travelled) \in Nat /\ PeriodAt(order, Travelled) > PulseTicks
  BY <1>2, PositivePeriod DEF Inv, Shape
<1>4. Period(period) \in Nat /\ Period(period) > PulseTicks
  <2>1. period \in Nat
    BY DEF Inv, Shape
  <2> QED  BY <2>1, LongerThanPulse
<1> QED  BY <1>2, <1>3, <1>4 DEF Pace

LEMMA WriteFits ==
  ASSUME Fits(tape), NEW high \in Nat, NEW a \in Half, NEW b \in Half, Room, Write(high, a, b)
  PROVE  Fits(tape') /\ tape'.ticks = tape.ticks + a + b
<1>1. DurationMax \in Nat /\ BufferSymbols \in Nat
  BY EncodingConstants
<1>2. tape.symbols \in Seq(Half \X Half) /\ tape.ticks \in Nat /\ tape.pulses \in Nat
  BY DEF Fits, Tape
<1>3. <<a, b>> \in Half \X Half
  OBVIOUS
<1>4. /\ Append(tape.symbols, <<a, b>>) \in Seq(Half \X Half)
      /\ Len(Append(tape.symbols, <<a, b>>)) = Len(tape.symbols) + 1
  BY <1>2, <1>3
<1>5. Len(tape.symbols) + 1 <= BufferSymbols
  BY <1>1, <1>2 DEF Room
<1>6. tape.ticks + a + b \in Nat /\ tape.pulses + high \in Nat
  BY <1>1, <1>2 DEF Half
<1> QED  BY <1>4, <1>5, <1>6 DEF Write, Fits, Tape

\* A step that is complete: its time is that of its period.
LEMMA StepDoneInv ==
  ASSUME Inv, Encoding, taken < batch, StepDone, UNCHANGED Encoder, Fits(tape'),
         tape'.ticks = due + Pace
  PROVE  Inv'
<1>1. Pace \in Nat /\ Travelled \in Nat /\ Travelled <= order.distance
  BY StepPace
<1>2. Velocity(order, Travelled) \in Nat /\ Velocity(order, Travelled) >= MinSlew
  BY <1>1, AtLeastMinSlew DEF Inv, Shape
<1>3. Shape'
  <2>1. speed' \in Nat /\ speed' >= MinSlew
    BY <1>2 DEF StepDone, Inv, Shape
  <2>2. due' \in Nat /\ taken' \in Nat /\ idle' \in Nat
    BY <1>1 DEF StepDone, Inv, Shape
  <2> QED  BY <2>1, <2>2 DEF StepDone, Goto, Encoder, Inv, Shape, Encoding
<1>4. Flying' = Flying
  BY DEF Encoder, Flying
<1>5. Planned'
  BY <1>4 DEF StepDone, Goto, Encoder, Inv, Shape, Planned, Encoding
<1>6. Timed'
  BY DEF StepDone, Goto, Inv, Timed
<1> QED  BY <1>3, <1>5, <1>6 DEF Inv

LEMMA PulseInv == ASSUME Inv, Pulse PROVE Inv'
<1>1. Encoding /\ taken < batch /\ pc = "encode"
  BY DEF Pulse, Encoding
<1>2. /\ Pace \in Nat /\ Pace > PulseTicks
      /\ {PulseTicks, DurationMax} \subseteq Nat /\ PulseTicks <= DurationMax
  BY <1>1, StepPace, EncodingConstants
<1>3. tape = kept /\ tape.ticks = due /\ due \in Nat /\ Fits(tape)
  BY <1>1 DEF Inv, Shape, Timed
<1> DEFINE low == Smaller(Pace - PulseTicks, DurationMax)
<1>4. PulseTicks \in Half /\ low \in Half
  BY <1>2 DEF Half, Smaller
<1>5. Fits(tape') /\ tape'.ticks = due + PulseTicks + low
  BY <1>3, <1>4, WriteFits DEF Pulse
<1>6. CASE Pace - PulseTicks <= DurationMax
  <2>1. tape'.ticks = due + Pace
    BY <1>2, <1>3, <1>5, <1>6 DEF Smaller
  <2>2. StepDone /\ UNCHANGED Encoder
    BY <1>6 DEF Pulse
  <2> QED  BY <1>1, <1>5, <2>1, <2>2, StepDoneInv
<1>7. CASE ~(Pace - PulseTicks <= DurationMax)
  <2>1. /\ pc' = "idle" /\ idle' = Pace - PulseTicks - DurationMax
        /\ UNCHANGED <<taken, kept, due, speed>> /\ UNCHANGED Encoder
    BY <1>7 DEF Pulse, Goto
  <2>2. low = DurationMax /\ idle' \in Nat
    BY <1>2, <1>7, <2>1 DEF Smaller
  <2>3. Pace' = Pace /\ Flying' = Flying
    BY <2>1 DEF Encoder, Pace, Travelled, Submitted, Flying, PeriodAt, Velocity, Cap, Cds, TravelledCds
  <2>4. Shape'
    BY <1>1, <1>5, <2>1, <2>2 DEF Inv, Shape, Encoder, Encoding
  <2>5. Planned'
    BY <1>1, <2>1, <2>3 DEF Inv, Planned, Encoder, Encoding
  <2>6. tape'.ticks + idle' = due + Pace
    BY <1>2, <1>3, <1>5, <2>1, <2>2
  <2>7. Timed'
    BY <2>1, <2>3, <2>6 DEF Inv, Timed
  <2> QED  BY <2>4, <2>5, <2>7 DEF Inv
<1> QED  BY <1>6, <1>7

\* What holds in the middle of a step.
LEMMA MiddleOfStep ==
  ASSUME Inv, pc = "idle"
  PROVE  /\ Encoding /\ taken < batch /\ Pace \in Nat /\ idle \in Nat /\ due \in Nat
         /\ Fits(tape) /\ tape.ticks \in Nat /\ tape.ticks + idle = due + Pace
         /\ DurationMax \in Nat /\ DurationMax \in Half
<1>1. Encoding /\ taken < batch /\ idle \in Nat /\ due \in Nat /\ Fits(tape)
  BY DEF Inv, Shape, Planned, Encoding
<1> QED  BY <1>1, StepPace, EncodingConstants DEF Inv, Timed, Fits, Tape, Half

LEMMA BulkIdleInv == ASSUME Inv, BulkIdle PROVE Inv'
<1>1. pc = "idle" /\ idle > 2 * DurationMax /\ idle' = idle - 2 * DurationMax
  BY DEF BulkIdle
<1>2. UNCHANGED <<Encoder, pc, taken, kept, due, speed>>
  BY DEF BulkIdle
<1>3. Fits(tape') /\ tape'.ticks = tape.ticks + DurationMax + DurationMax
  BY <1>1, MiddleOfStep, WriteFits DEF BulkIdle
<1>4. Pace' = Pace /\ Flying' = Flying
  BY <1>2 DEF Encoder, Pace, Travelled, Submitted, Flying, PeriodAt, Velocity, Cap, Cds, TravelledCds
<1>5. idle' \in Nat /\ tape'.ticks + idle' = due + Pace
  BY <1>1, <1>3, MiddleOfStep
<1>6. Shape'
  BY <1>2, <1>3, <1>5 DEF Inv, Shape, Encoder, Encoding
<1>7. Planned'
  BY <1>2, <1>4 DEF Inv, Planned, Encoder, Encoding
<1>8. Timed'
  BY <1>1, <1>2, <1>4, <1>5 DEF Inv, Timed
<1> QED  BY <1>6, <1>7, <1>8 DEF Inv

LEMMA LastIdleInv == ASSUME Inv, LastIdle PROVE Inv'
<1>1. pc = "idle" /\ idle <= 2 * DurationMax /\ StepDone /\ UNCHANGED Encoder
  BY DEF LastIdle
<1> DEFINE first == Smaller(idle, DurationMax)
<1>2. first \in Half /\ idle - first \in Half
  BY <1>1, MiddleOfStep DEF Smaller, Half
<1>3. Fits(tape') /\ tape'.ticks = tape.ticks + first + (idle - first)
  BY <1>1, <1>2, MiddleOfStep, WriteFits DEF LastIdle
<1>4. tape'.ticks = due + Pace
  <2>1. first \in Nat
    BY <1>2, MiddleOfStep DEF Half
  <2> QED  BY <1>1, <1>3, <2>1, MiddleOfStep
<1> QED  BY <1>1, <1>3, <1>4, MiddleOfStep, StepDoneInv

LEMMA TruncateInv == ASSUME Inv, Truncate PROVE Inv'
<1>1. /\ tape' = kept /\ idle' = 0 /\ UNCHANGED <<kept, due, speed>> /\ UNCHANGED Encoder
      /\ Encoding /\ taken < batch
  BY DEF Truncate, Encoding, Inv, Planned
<1>2. \/ pc' = "encode" /\ taken' = taken + 1
      \/ pc' = "full" /\ taken' = taken
  BY DEF Truncate, Goto
<1>3. Flying' = Flying
  BY <1>1 DEF Encoder, Flying
<1>4. Shape'
  BY <1>1, <1>2 DEF Inv, Shape, Encoder, Encoding
<1>5. Planned'
  BY <1>1, <1>2, <1>3 DEF Inv, Shape, Planned, Encoder, Encoding
<1>6. Timed'
  BY <1>1, <1>2 DEF Inv, Timed
<1> QED  BY <1>4, <1>5, <1>6 DEF Inv

LEMMA BeginInv == ASSUME Inv, NEW o \in Orders, Begin(o) PROVE Inv'
<1>1. Motion(o)
  BY EncodingConstants DEF Motion
<1>2. /\ pc' = "size" /\ order' = o /\ period' = PeriodAt(o, 0) /\ done' = 0 /\ flight' = <<>>
      /\ speed' = MinSlew /\ UNCHANGED <<batch, taken, idle, tape, kept, due>> /\ pc = "ready"
  BY DEF Begin, Goto
<1>3. o.distance \in Nat /\ MinSlew \in Nat /\ PulseTicks \in Nat
  BY <1>1, EncodingConstants DEF Motion
<1>4. period' \in Nat /\ period' > 0
  BY <1>1, <1>2, <1>3, PositivePeriod
<1>5. Shape'
  BY <1>1, <1>2, <1>3, <1>4 DEF Inv, Shape, Encoding
<1>6. Flying' = 0
  BY <1>2 DEF Flying
<1>7. Planned' /\ Timed'
  BY <1>2, <1>3, <1>6 DEF Inv, Planned, Timed, Encoding
<1> QED  BY <1>5, <1>7 DEF Inv

LEMMA SizeInv == ASSUME Inv, Size PROVE Inv'
<1> DEFINE rest == order.distance - Submitted
<1>1. /\ pc = "size" /\ batch' = BatchSize(period, rest) /\ pc' \in {"wait", "encode"}
      /\ taken' = 0 /\ idle' = 0 /\ tape' = Blank /\ kept' = Blank /\ due' = 0
      /\ UNCHANGED <<order, period, done, flight, speed>>
  BY DEF Size, Goto
<1>2. Submitted = done + Flying /\ Len(flight) <= 1
  BY <1>1, OneInFlight DEF Inv, Shape
<1>3. rest \in Nat /\ done \in Nat /\ order.distance \in Nat /\ Flying \in Nat
  BY <1>1, <1>2, FlyingIsNat DEF Inv, Shape, Planned, Motion
<1>4. batch' \in Nat /\ batch' <= rest
  BY <1>1, <1>3, BatchInRange DEF Inv, Shape
<1>5. Fits(Blank) /\ Blank.ticks = 0
  BY EncodingConstants DEF Fits, Tape, Blank
<1>6. Flying' = Flying
  BY <1>1 DEF Flying
<1>7. Shape'
  BY <1>1, <1>2, <1>4, <1>5 DEF Inv, Shape, Encoding
<1>8. Planned'
  BY <1>1, <1>2, <1>3, <1>4, <1>6 DEF Planned, Encoding
<1>9. Timed'
  BY <1>1, <1>5 DEF Timed
<1> QED  BY <1>7, <1>8, <1>9 DEF Inv

LEMMA Appended ==
  ASSUME NEW f \in Seq(Nat), NEW b \in Nat, Len(f) = 1
  PROVE  /\ Append(f, b) # <<>> /\ Len(Append(f, b)) = 2
         /\ Append(f, b)[1] = f[1] /\ Append(f, b)[2] = b
<1>1. Append(f, b) # <<>> /\ Len(Append(f, b)) = Len(f) + 1
  <2>1. Append(f, b) # <<>>
    BY AppendProperties
  <2>2. Len(Append(f, b)) = Len(f) + 1
    BY AppendProperties
  <2> QED  BY <2>1, <2>2
<1>2. \A i \in 1 .. Len(f) : Append(f, b)[i] = f[i]
  BY AppendProperties
<1>3. Append(f, b)[Len(f) + 1] = b
  BY AppendProperties, Zenon
<1>4. Len(f) + 1 = 2
  OBVIOUS
<1> QED  BY <1>1, <1>2, <1>3, <1>4

LEMMA FlyingGrows ==
  ASSUME Inv, Encoding, flight' = Append(flight, batch) PROVE Flying' = Flying + batch
<1>1. flight \in Seq(Nat) /\ batch \in Nat /\ Len(flight) <= 1 /\ Len(flight) \in Nat
  BY DEF Inv, Shape
<1>2. CASE flight = <<>>
  BY <1>1, <1>2 DEF Flying
<1>3. CASE flight # <<>>
  <2>1. Len(flight) = 1
    <3>1. \A n \in Nat : n <= 1 /\ n > 0 => n = 1
      OBVIOUS
    <3> QED  BY <1>1, <1>3, <3>1, Flight DEF Inv
  <2>2. flight[1] \in Nat
    BY <2>1, Flight DEF Inv
  <2>3. Len(flight') = 2 /\ flight' # <<>>
    BY <1>1, <2>1, Appended
  <2>4. flight'[1] = flight[1] /\ flight'[2] = batch
    BY <1>1, <2>1, Appended
  <2> QED  BY <1>3, <2>1, <2>2, <2>3, <2>4 DEF Flying
<1> QED  BY <1>2, <1>3

LEMMA SubmitInv == ASSUME Inv, Submit PROVE Inv'
<1>1. Encoding /\ pc # "idle" /\ UNCHANGED <<order, period, done, encoder>>
  BY DEF Submit, Encoded, Encoding
<1>2. tape = kept /\ kept.ticks = due
  BY <1>1 DEF Inv, Timed
<1>3. CASE pc' = "ready" /\ flight' = flight
  <2>1. Shape'
    BY <1>1, <1>3 DEF Inv, Shape, encoder, Encoding
  <2>2. Planned' /\ Timed'
    BY <1>1, <1>2, <1>3 DEF Planned, Timed, encoder, Encoding
  <2> QED  BY <2>1, <2>2 DEF Inv
<1>4. CASE /\ flight' = Append(flight, batch) /\ pc' \in {"size", "wait"}
           /\ pc' = "size" => flight = <<>>
  <2>1. flight \in Seq(Nat) /\ batch \in Nat /\ Len(flight) <= 1 /\ Len(flight) \in Nat
    BY <1>1 DEF Inv, Shape
  <2>2. flight' \in Seq(Nat) /\ Len(flight') = Len(flight) + 1
    BY <1>4, <2>1
  <2>3. pc' = "size" => Len(flight') <= 1
    BY <1>4, <2>2
  <2>4. Flying' = Flying + batch
    BY <1>1, <1>4, FlyingGrows
  <2>5. Shape'
    BY <1>1, <1>4, <2>1, <2>2, <2>3 DEF Inv, Shape, encoder, Encoding
  <2>6. Planned'
    <3>1. done + Flying + batch <= order.distance /\ Flying \in Nat /\ done \in Nat
      BY <1>1, FlyingIsNat DEF Inv, Shape, Planned
    <3> QED  BY <1>1, <1>4, <2>1, <2>4, <3>1 DEF Planned, Encoding
  <2>7. Timed'
    BY <1>1, <1>2, <1>4 DEF Timed, encoder
  <2> QED  BY <2>5, <2>6, <2>7 DEF Inv
<1>5. \/ pc' = "ready" /\ flight' = flight
      \/ /\ flight' = Append(flight, batch) /\ pc' \in {"size", "wait"}
         /\ pc' = "size" => flight = <<>>
  BY DEF Submit, Goto
<1> QED  BY <1>3, <1>4, <1>5

LEMMA RecalculateInv == ASSUME Inv, Recalculate PROVE Inv'
<1>1. pc = "wait" /\ period' = PeriodAt(order, done + Pong)
      /\ UNCHANGED <<order, pc, done, flight, encoder>>
  BY DEF Recalculate
<1>2. Pong \in Nat /\ Pong <= Flying /\ Flying \in Nat
  BY Flight, FlyingIsNat DEF Inv, Pong, Flying
<1>3. done + Pong \in Nat /\ done + Pong <= order.distance
  BY <1>1, <1>2 DEF Inv, Shape, Planned, Motion
<1>4. period' \in Nat /\ period' > 0
  <2>1. /\ PeriodAt(order, done + Pong) \in Nat
        /\ PeriodAt(order, done + Pong) > PulseTicks
    BY <1>3, PositivePeriod DEF Inv, Shape
  <2>2. PulseTicks \in Nat
    BY EncodingConstants
  <2> QED  BY <1>1, <2>1, <2>2
<1>5. Flying' = Flying
  BY <1>1 DEF Flying
<1>6. Shape' /\ Planned' /\ Timed'
  BY <1>1, <1>4, <1>5 DEF Inv, Shape, Planned, Timed, encoder, Encoding
<1> QED  BY <1>6 DEF Inv

LEMMA FlyingKept == ASSUME Inv, Complete PROVE done' + Flying' = done + Flying
<1>1. flight # <<>> /\ done' = done + Head(flight) /\ flight' = Tail(flight)
  BY DEF Complete
<1>2. flight \in Seq(Nat) /\ Len(flight) \in Nat /\ Len(flight) <= 2 /\ done \in Nat
  BY DEF Inv, Shape
<1>3. flight' \in Seq(Nat) /\ Len(flight') = Len(flight) - 1 /\ Head(flight) \in Nat
  BY <1>1, <1>2, Flight DEF Inv
<1>4. CASE Len(flight) = 1
  <2>1. flight' = <<>> /\ Head(flight) = flight[1]
    <3>1. Len(flight') = 0
      BY <1>3, <1>4
    <3>2. Head(flight) = flight[1]
      BY <1>1, Flight DEF Inv
    <3> QED  BY <1>3, <3>1, <3>2, EmptySeq
  <2>2. flight[1] \in Nat /\ flight # <<>>
    BY <1>1, <1>4, Flight DEF Inv
  <2>3. Flying' = 0 /\ Flying = flight[1]
    BY <1>4, <2>1, <2>2 DEF Flying
  <2> QED  BY <1>1, <1>2, <2>1, <2>2, <2>3
<1>5. CASE Len(flight) = 2
  <2>1. /\ flight' # <<>> /\ Len(flight') = 1
        /\ flight'[1] = flight[2] /\ Head(flight) = flight[1]
    <3>1. Len(flight') = 1 /\ flight' # <<>>
      <4>1. Len(flight') = 1
        BY <1>3, <1>5
      <4>2. Len(<<>>) = 0
        OBVIOUS
      <4> QED  BY <4>1, <4>2
    <3>2. flight'[1] = flight[2]
      <4>1. \A i \in 1 .. 1 : flight'[i] = flight[i + 1]
        BY <1>1, <1>2, <1>5, <3>1, HeadTailProperties
      <4> QED  BY <4>1
    <3> QED  BY <1>1, <3>1, <3>2, Flight DEF Inv
  <2>2. flight[1] \in Nat /\ flight[2] \in Nat
    BY <1>5, Flight DEF Inv
  <2>3. Flying' = flight[2]
    BY <2>1 DEF Flying
  <2>4. Flying = flight[1] + flight[2]
    <3>1. flight # <<>>
      BY <1>1
    <3> QED  BY <1>5, <3>1 DEF Flying
  <2> QED  BY <1>1, <1>2, <2>1, <2>2, <2>3, <2>4
<1> QED  BY <1>1, <1>4, <1>5, Flight DEF Inv

LEMMA CompleteInv == ASSUME Inv, Complete PROVE Inv'
<1>1. /\ pc = "wait" /\ flight # <<>> /\ done' = done + Head(flight) /\ flight' = Tail(flight)
      /\ pc' = "size" /\ UNCHANGED <<order, period, encoder>>
  BY DEF Complete, Goto
<1>2. flight \in Seq(Nat) /\ Len(flight) \in Nat /\ Len(flight) <= 2 /\ done \in Nat
  BY DEF Inv, Shape
<1>3. flight' \in Seq(Nat) /\ Len(flight') = Len(flight) - 1 /\ Head(flight) \in Nat
  BY <1>1, <1>2, Flight DEF Inv
<1>4. done' + Flying' = done + Flying
  BY FlyingKept
<1>5. Shape'
  BY <1>1, <1>2, <1>3 DEF Inv, Shape, encoder, Encoding
<1>6. Planned'
  BY <1>1, <1>4 DEF Inv, Planned, Encoding
<1>7. Timed'
  BY <1>1 DEF Inv, Timed, encoder
<1> QED  BY <1>5, <1>6, <1>7 DEF Inv

LEMMA FinishInv == ASSUME Inv, Finish PROVE Inv'
<1>1. pc = "wait" /\ pc' = "ready" /\ UNCHANGED <<order, period, done, flight, encoder>>
  BY DEF Finish, Goto
<1> QED  BY <1>1 DEF Inv, Shape, Planned, Timed, encoder, Encoding

LEMMA StepInv == Inv /\ [Next]_vars => Inv'
<1> SUFFICES ASSUME Inv, [Next]_vars PROVE Inv'
  OBVIOUS
<1>1. ASSUME NEW o \in Orders, Begin(o) PROVE Inv'
  BY <1>1, BeginInv
<1>2. CASE Encode
  BY <1>2, PulseInv, BulkIdleInv, LastIdleInv, TruncateInv DEF Encode
<1>3. CASE UNCHANGED vars
  BY <1>3 DEF vars, encoder, Inv, Shape, Planned, Timed, Encoding, Flying, Pace, Travelled,
              Submitted, PeriodAt, Velocity, Cap, Cds, TravelledCds
<1> QED
  BY <1>1, <1>2, <1>3, SizeInv, SubmitInv, RecalculateInv, CompleteInv, FinishInv DEF Next
-----------------------------------------------------------------------------
(***************************************************************************)
(* The room of a batch                                                     *)
(*                                                                         *)
(* A batch is sized in steps and its buffer in symbols.  Beside the first  *)
(* and the last symbol of each step the others are full, so their number   *)
(* is bounded by the time of the batch; and a batch of more than one step  *)
(* takes no more than BatchTarget.  One step alone may be longer, and is   *)
(* given up when it does not fit.                                          *)
(***************************************************************************)
Full == 2 * DurationMax

\* The full symbols of the whole steps, and of what is written of a step.
FullKept == Len(kept.symbols) - 2 * taken
FullWritten == Len(tape.symbols) - 2 * taken - 1

\* A batch of several steps is within the target, at the period it is sized with.
Sized ==
  /\ pc # "ready" => period >= MinPeriod
  /\ Encoding => /\ batch > 0 /\ batch <= BatchMaxSteps
                 /\ batch = 1 \/ batch * period <= BatchTarget

\* Every whole step has its pulse; only a step that is alone is given up.
Counted ==
  Encoding =>
    /\ kept.pulses = taken \/ (batch = 1 /\ kept.pulses = 0)
    /\ pc = "full" => batch = 1
    /\ pc = "idle" => tape.pulses = kept.pulses + 1

\* What the symbols of a SLEW and of a MOVE_AXIS take.
Filled ==
  Encoding =>
    /\ ~order.move => Len(kept.symbols) = taken /\ pc = "encode"
    /\ order.move => /\ due <= taken * period
                     /\ Full * FullKept <= due
                     /\ pc = "idle" => Full * FullWritten <= tape.ticks

Roomy == Sized /\ Counted /\ Filled

LEMMA FullIsNat == Full \in Nat /\ Full > 0
  BY EncodingConstants DEF Full

LEMMA OverMinPeriod ==
  ASSUME NEW x \in Nat PROVE Period(x) \in Nat /\ Period(x) >= MinPeriod
<1>1. MinPeriod \in Nat
  BY EncodingConstants DEF MinPeriod
<1> QED  BY <1>1 DEF Period, Larger

LEMMA PeriodAtLeast ==
  ASSUME NEW o, Motion(o), NEW t \in Nat, t <= o.distance
  PROVE  PeriodAt(o, t) >= MinPeriod
<1>1. StepTicks \div Velocity(o, t) \in Nat
  <2>1. StepTicks \in Nat /\ Velocity(o, t) \in Nat /\ Velocity(o, t) > 0
    BY AtLeastMinSlew, EncodingConstants
  <2> QED  BY <2>1, Quotient
<1>2. o.ticks \in Nat
  BY DEF Motion
<1> QED  BY <1>1, <1>2, OverMinPeriod DEF PeriodAt

\* A step of a SLEW takes one symbol: the axis is never slower than MinSlew.
LEMMA OneSymbol ==
  ASSUME NEW o, Motion(o), ~o.move, NEW t \in Nat, t <= o.distance
  PROVE  PeriodAt(o, t) <= PulseTicks + DurationMax
<1> DEFINE v == Velocity(o, t)
           q == StepTicks \div v
<1>1. StepTicks \in Nat /\ MinSlew \in Nat /\ MinSlew > 0
  BY EncodingConstants
<1>2. v \in Nat /\ v >= MinSlew
  BY AtLeastMinSlew
<1>3. q \in Nat /\ v * q <= StepTicks
  BY <1>1, <1>2, Quotient, QuotientBounds
<1>4. PeriodAt(o, t) = Period(q)
  BY DEF PeriodAt
<1> HIDE DEF v, q
<1>5. MinSlew * q <= v * q
  BY <1>1, <1>2, <1>3
<1>6. MinSlew * q <= StepTicks
  <2>1. MinSlew * q \in Nat /\ v * q \in Nat
    BY <1>1, <1>2, <1>3
  <2> QED  BY <1>1, <1>3, <1>5, <2>1
<1>7. q <= StepTicks \div MinSlew
  BY <1>1, <1>3, <1>6, QuotientIsLargest
<1>8. StepTicks \div MinSlew \in Nat /\ PulseTicks \in Nat /\ MinLowTicks \in Nat
      /\ DurationMax \in Nat
  BY <1>1, Quotient, EncodingConstants
<1>9. q <= PulseTicks + DurationMax /\ MinPeriod <= PulseTicks + DurationMax
  BY <1>3, <1>7, <1>8, BufferSuffices DEF MinPeriod
<1> QED  BY <1>4, <1>9 DEF Period, Larger

\* A batch of more than one step is within the target.
LEMMA WithinTarget ==
  ASSUME NEW p \in Nat, p > 0, NEW r \in Nat
  PROVE  /\ BatchSize(p, r) <= BatchMaxSteps
         /\ BatchSize(p, r) <= 1 \/ BatchSize(p, r) * p <= BatchTarget
<1> DEFINE b == BatchSize(p, r)
           x == BatchTarget \div p
<1>1. BatchTarget \in Nat /\ BatchMaxSteps \in Nat
  BY EncodingConstants
<1>2. x \in Nat /\ p * x <= BatchTarget
  BY <1>1, Quotient, QuotientBounds
<1>3. b \in Nat
  BY BatchInRange
<1>4. b <= BatchMaxSteps /\ (b <= x \/ b <= 1)
  BY <1>1, <1>2 DEF BatchSize, Smaller
<1> HIDE DEF b, x
<1>5. CASE b <= x
  <2>1. b * p <= p * x
    BY <1>2, <1>3, <1>5
  <2>2. b * p \in Nat /\ p * x \in Nat
    BY <1>2, <1>3
  <2>3. b * p <= BatchTarget
    BY <1>1, <1>2, <2>1, <2>2
  <2> QED  BY <1>4, <2>3 DEF b
<1> QED  BY <1>4, <1>5 DEF b

LEMMA Sizes ==
  ASSUME Inv
  PROVE  /\ Len(tape.symbols) \in Nat /\ tape.ticks \in Nat /\ tape.pulses \in Nat
         /\ Len(kept.symbols) \in Nat /\ kept.ticks \in Nat /\ kept.pulses \in Nat
         /\ period \in Nat /\ batch \in Nat /\ taken \in Nat /\ due \in Nat /\ idle \in Nat
<1>1. Fits(tape) /\ Fits(kept)
  BY DEF Inv, Shape
<1>2. ASSUME NEW t, Fits(t) PROVE Len(t.symbols) \in Nat /\ t.ticks \in Nat /\ t.pulses \in Nat
  <2>1. t.symbols \in Seq(Half \X Half)
    BY <1>2 DEF Fits, Tape
  <2> QED  BY <1>2, <2>1 DEF Fits, Tape
<1> QED  BY <1>1, <1>2 DEF Inv, Shape

LEMMA FullsAreIntegers ==
  ASSUME Inv PROVE FullWritten \in Int /\ FullKept \in Int
<1> DEFINE l == Len(tape.symbols)
           k == Len(kept.symbols)
<1>1. l \in Nat /\ k \in Nat /\ taken \in Nat
  BY Sizes
<1>2. FullWritten = l - 2 * taken - 1 /\ FullKept = k - 2 * taken
  BY DEF FullWritten, FullKept
<1> HIDE DEF l, k
<1> QED  BY <1>1, <1>2

LEMMA OneMoreSymbol ==
  ASSUME Inv, NEW high \in Nat, NEW x \in Nat, NEW y \in Nat, Write(high, x, y)
  PROVE  /\ Len(tape'.symbols) = Len(tape.symbols) + 1
         /\ tape'.ticks = tape.ticks + x + y /\ tape'.pulses = tape.pulses + high
<1>1. tape.symbols \in Seq(Half \X Half)
  BY DEF Inv, Shape, Fits, Tape
<1>2. Len(Append(tape.symbols, <<x, y>>)) = Len(tape.symbols) + 1
  BY <1>1
<1> QED  BY <1>2 DEF Write

\* The steps of a MOVE_AXIS have the period that the batch is sized with; those of
\* a SLEW take one symbol.
LEMMA PaceOfBatch ==
  ASSUME Inv, Roomy, Encoding, taken < batch
  PROVE  /\ order.move => Pace = period
         /\ ~order.move => Pace - PulseTicks <= DurationMax
<1>1. CASE order.move
  <2>1. period \in Nat
    BY Sizes
  <2>2. period >= MinPeriod
    BY DEF Roomy, Sized, Encoding
  <2>3. MinPeriod \in Nat
    BY EncodingConstants DEF MinPeriod
  <2>4. Period(period) = period
    BY <2>1, <2>2, <2>3 DEF Period, Larger
  <2> QED  BY <1>1, <2>4 DEF Pace
<1>2. CASE ~order.move
  <2>1. Travelled \in Nat /\ Travelled <= order.distance /\ Pace \in Nat
    BY StepPace
  <2>2. PeriodAt(order, Travelled) <= PulseTicks + DurationMax
    BY <1>2, <2>1, OneSymbol DEF Inv, Shape
  <2>3. PulseTicks \in Nat /\ DurationMax \in Nat
    BY EncodingConstants
  <2> QED  BY <1>2, <2>1, <2>2, <2>3 DEF Pace
<1> QED  BY <1>1, <1>2

\* There is room for every symbol of a SLEW and of a batch of several steps.
LEMMA RoomLeft ==
  ASSUME Inv, Roomy, pc \in {"encode", "idle"}, taken < batch,
         batch # 1 \/ ~order.move
  PROVE  Room
<1>1. Encoding /\ Full \in Nat /\ Full > 0 /\ BufferSymbols \in Nat /\ BatchTarget \in Nat
      /\ BatchMaxSteps \in Nat
  BY FullIsNat, EncodingConstants DEF Encoding
<1>2. batch <= BatchMaxSteps /\ (order.move => batch * period <= BatchTarget)
  BY <1>1 DEF Roomy, Sized
<1>3. BatchTarget \div Full \in Nat /\ 2 * BatchMaxSteps + BatchTarget \div Full < BufferSymbols
  BY <1>1, Quotient, BufferSuffices DEF Full
<1>4. CASE ~order.move
  <2>1. pc = "encode" /\ Len(kept.symbols) = taken
    BY <1>1, <1>4 DEF Roomy, Filled
  <2>2. tape = kept
    BY <2>1 DEF Inv, Timed
  <2> QED  BY <1>1, <1>2, <1>3, <2>1, <2>2, Sizes DEF Room
<1>5. CASE order.move
  <2>1. FullWritten \in Int /\ FullKept \in Int
    BY FullsAreIntegers
  <2>2. due <= taken * period /\ Full * FullKept <= due
    BY <1>1, <1>5 DEF Roomy, Filled
  <2>3. (taken + 1) * period = taken * period + period /\ (taken + 1) * period <= batch * period
    <3>1. taken + 1 <= batch /\ taken \in Nat /\ batch \in Nat /\ period \in Nat
      BY Sizes
    <3> QED  BY <3>1
  <2>4. taken * period \in Nat /\ (taken + 1) * period \in Nat /\ batch * period \in Nat
    <3>1. taken \in Nat /\ taken + 1 \in Nat /\ batch \in Nat /\ period \in Nat
      BY Sizes
    <3>2. \A m, n \in Nat : m * n \in Nat
      OBVIOUS
    <3> QED  BY <3>1, <3>2
  <2>5. CASE pc = "encode"
    <3>1. Full * FullKept <= BatchTarget
      <4> DEFINE spent == Full * FullKept
                 past  == taken * period
                 next  == (taken + 1) * period
                 whole == batch * period
      <4>1. spent \in Int
        BY <1>1, <2>1
      <4>2. due \in Nat /\ period \in Nat
        BY Sizes
      <4>3. /\ spent <= due /\ due <= past /\ next = past + period
            /\ next <= whole /\ whole <= BatchTarget
        BY <1>2, <1>5, <2>2, <2>3
      <4>4. past \in Nat /\ next \in Nat /\ whole \in Nat
        BY <2>4
      <4> HIDE DEF spent, past, next, whole
      <4>5. spent <= BatchTarget
        BY <1>1, <4>1, <4>2, <4>3, <4>4
      <4> QED  BY <4>5 DEF spent
    <3>2. FullKept <= BatchTarget \div Full
      BY <1>1, <2>1, <3>1, QuotientIsLargest
    <3>3. tape = kept
      BY <2>5 DEF Inv, Timed
    <3> QED  BY <1>1, <1>2, <1>3, <3>2, <3>3, Sizes DEF Room, FullKept
  <2>6. CASE pc = "idle"
    <3>1. tape.ticks + idle = due + period
      BY <1>1, <1>5, <2>6, PaceOfBatch DEF Inv, Timed
    <3>2. tape.ticks <= BatchTarget
      <4>1. tape.ticks <= due + period
        BY <3>1, Sizes
      <4>2. due + period <= (taken + 1) * period
        BY <2>2, <2>3, <2>4, Sizes
      <4>3. (taken + 1) * period <= BatchTarget
        BY <1>1, <1>2, <1>5, <2>3, <2>4
      <4>4. tape.ticks \in Nat /\ due + period \in Nat
        BY Sizes
      <4> QED  BY <1>1, <2>4, <4>1, <4>2, <4>3, <4>4
    <3>3. Full * FullWritten <= BatchTarget
      <4>1. Full * FullWritten <= tape.ticks
        BY <1>1, <1>5, <2>6 DEF Roomy, Filled
      <4>2. Full * FullWritten \in Int
        BY <1>1, <2>1
      <4> QED  BY <1>1, <3>2, <4>1, <4>2, Sizes
    <3>4. FullWritten <= BatchTarget \div Full
      BY <1>1, <2>1, <3>3, QuotientIsLargest
    <3>5. Len(tape.symbols) = FullWritten + 2 * taken + 1
      BY Sizes DEF FullWritten
    <3>6. taken + 1 <= batch /\ taken \in Nat /\ batch \in Nat
      BY Sizes
    <3> DEFINE n == BatchTarget \div Full
    <3> HIDE DEF n
    <3>7. Len(tape.symbols) < BufferSymbols
      <4>1. FullWritten <= n /\ n \in Nat /\ 2 * BatchMaxSteps + n < BufferSymbols
        BY <1>3, <3>4 DEF n
      <4> QED  BY <1>1, <1>2, <2>1, <3>5, <3>6, <4>1
    <3> QED  BY <3>7 DEF Room
  <2> QED  BY <2>5, <2>6
<1> QED  BY <1>4, <1>5

\* A step that is complete brings its pulse and at most two symbols that are not
\* full.
LEMMA StepDoneRoomy ==
  ASSUME Inv, Roomy, Encoding, taken < batch, StepDone, UNCHANGED Encoder,
         tape'.pulses = kept.pulses + 1, tape'.ticks = due + Pace,
         Len(tape'.symbols) \in Nat,
         ~order.move => Len(tape'.symbols) = taken + 1,
         order.move => Full * (Len(tape'.symbols) - 2 * (taken + 1)) <= tape'.ticks
  PROVE  Roomy'
<1>1. /\ pc' = "encode" /\ kept' = tape' /\ taken' = taken + 1 /\ due' = due + Pace
      /\ UNCHANGED <<order, period, done, flight, batch>>
  BY DEF StepDone, Goto, Encoder
<1>2. Sized'
  BY <1>1 DEF Roomy, Sized, Encoding
<1>3. Counted'
  <2>1. kept.pulses = taken
    <3>1. batch = 1 => taken = 0
      BY Sizes
    <3> QED  BY <3>1 DEF Roomy, Counted
  <2> QED  BY <1>1, <2>1 DEF Counted
<1>4. Filled'
  <2>1. CASE order.move
    <3>1. Pace = period /\ due <= taken * period
      BY <2>1, PaceOfBatch DEF Roomy, Filled
    <3>2. (taken + 1) * period = taken * period + period /\ taken * period \in Nat
      BY Sizes
    <3>3. due' <= taken' * period'
      BY <1>1, <3>1, <3>2, Sizes
    <3>4. Full' * FullKept' <= due'
      BY <1>1, <2>1 DEF FullKept, Full
    <3> QED  BY <1>1, <2>1, <3>3, <3>4 DEF Filled
  <2>2. CASE ~order.move
    BY <1>1, <2>2 DEF Filled
  <2> QED  BY <2>1, <2>2
<1> QED  BY <1>2, <1>3, <1>4 DEF Roomy

LEMMA PulseRoomy == ASSUME Inv, Roomy, Pulse PROVE Roomy'
<1>1. Encoding /\ taken < batch /\ pc = "encode" /\ UNCHANGED Encoder
  BY DEF Pulse, Encoding
<1>2. /\ Pace \in Nat /\ Pace > PulseTicks
      /\ PulseTicks \in Nat /\ DurationMax \in Nat /\ Full \in Nat /\ Full > 0
  BY <1>1, StepPace, FullIsNat, EncodingConstants
<1>3. tape = kept /\ kept.ticks = due
  BY <1>1 DEF Inv, Timed
<1> DEFINE low == Smaller(Pace - PulseTicks, DurationMax)
<1>4. low \in Nat /\ (Pace - PulseTicks <= DurationMax => low = Pace - PulseTicks)
      /\ (~(Pace - PulseTicks <= DurationMax) => low = DurationMax)
  BY <1>2 DEF Smaller
<1> HIDE DEF low
<1>5. Write(1, PulseTicks, low)
  BY DEF Pulse, low
<1>6. /\ Len(tape'.symbols) = Len(kept.symbols) + 1
      /\ tape'.ticks = due + PulseTicks + low /\ tape'.pulses = kept.pulses + 1
  BY <1>2, <1>3, <1>4, <1>5, OneMoreSymbol
<1>7. order.move => /\ due <= taken * period /\ Full * FullKept <= due
                    /\ Full * (FullKept - 1) <= due
  <2>1. order.move => due <= taken * period /\ Full * FullKept <= due
    BY <1>1 DEF Roomy, Filled
  <2>2. FullKept \in Int
    BY Sizes DEF FullKept
  <2>3. Full * (FullKept - 1) = Full * FullKept - Full /\ Full * FullKept \in Int
    BY <1>2, <2>2
  <2> QED  BY <1>2, <2>1, <2>3, Sizes
<1>8. Len(tape'.symbols) \in Nat /\ tape'.ticks \in Nat
  <2>1. Len(kept.symbols) \in Nat /\ due \in Nat
    BY Sizes
  <2> QED  BY <1>2, <1>4, <1>6, <2>1
<1>9. CASE Pace - PulseTicks <= DurationMax
  <2>1. StepDone /\ tape'.ticks = due + Pace
    <3>1. StepDone
      BY <1>9 DEF Pulse
    <3>2. tape'.ticks = due + PulseTicks + (Pace - PulseTicks)
      BY <1>4, <1>6, <1>9
    <3> QED  BY <1>2, <3>1, <3>2, Sizes
  <2>2. ~order.move => Len(tape'.symbols) = taken + 1
    BY <1>1, <1>6, Sizes DEF Roomy, Filled
  <2>3. order.move => Full * (Len(tape'.symbols) - 2 * (taken + 1)) <= tape'.ticks
    <3>1. Len(tape'.symbols) - 2 * (taken + 1) = FullKept - 1
      BY <1>6, Sizes DEF FullKept
    <3>2. Full * (FullKept - 1) \in Int
      BY <1>2, Sizes DEF FullKept
    <3> QED  BY <1>2, <1>7, <2>1, <3>1, <3>2, Sizes
  <2> QED  BY <1>1, <1>6, <1>8, <2>1, <2>2, <2>3, StepDoneRoomy
<1>10. CASE ~(Pace - PulseTicks <= DurationMax)
  <2>1. order.move /\ pc' = "idle" /\ UNCHANGED <<taken, kept, due>>
        /\ UNCHANGED <<order, period, batch>>
    BY <1>1, <1>10, PaceOfBatch DEF Pulse, Goto, Encoder
  <2>2. Sized' /\ Counted'
    BY <1>1, <1>6, <2>1 DEF Roomy, Sized, Counted, Encoding
  <2>3. Full' * FullWritten' <= tape'.ticks
    <3>1. FullWritten' = FullKept
      BY <1>6, <2>1, Sizes DEF FullWritten, FullKept
    <3>2. Full * FullKept \in Int /\ Full' = Full
      BY <1>2, Sizes DEF FullKept, Full
    <3> QED  BY <1>2, <1>4, <1>6, <1>7, <2>1, <3>1, <3>2, Sizes
  <2>4. Full' * FullKept' <= due' /\ due' <= taken' * period'
    BY <1>7, <2>1 DEF FullKept, Full
  <2>5. Filled'
    BY <2>1, <2>3, <2>4 DEF Filled
  <2> QED  BY <2>2, <2>5 DEF Roomy
<1> QED  BY <1>9, <1>10

\* What the loop knows in the middle of a step of a MOVE_AXIS.
LEMMA MiddleIsRoomy ==
  ASSUME Inv, Roomy, pc = "idle"
  PROVE  /\ order.move /\ tape.pulses = kept.pulses + 1
         /\ Full * FullWritten <= tape.ticks /\ FullWritten \in Int /\ Full * FullWritten \in Int
         /\ Full * (FullWritten + 1) = Full * FullWritten + Full
<1>1. Encoding /\ Full \in Nat
  BY FullIsNat DEF Encoding
<1>2. FullWritten \in Int
  BY Sizes DEF FullWritten
<1>3. order.move /\ tape.pulses = kept.pulses + 1 /\ Full * FullWritten <= tape.ticks
  BY <1>1 DEF Roomy, Counted, Filled
<1> QED  BY <1>1, <1>2, <1>3

LEMMA BulkIdleRoomy == ASSUME Inv, Roomy, BulkIdle PROVE Roomy'
<1>1. pc = "idle" /\ UNCHANGED <<order, period, batch, pc, taken, kept, due>>
  BY DEF BulkIdle, Encoder
<1>2. /\ Len(tape'.symbols) = Len(tape.symbols) + 1
      /\ tape'.ticks = tape.ticks + DurationMax + DurationMax /\ tape'.pulses = tape.pulses + 0
  BY <1>1, MiddleOfStep, OneMoreSymbol DEF BulkIdle
<1>3. tape'.pulses = tape.pulses /\ tape'.ticks = tape.ticks + Full
  <2>1. tape.pulses \in Nat /\ tape.ticks \in Nat
    BY Sizes
  <2>2. DurationMax \in Nat
    BY EncodingConstants
  <2> QED  BY <1>2, <2>1, <2>2 DEF Full
<1>4. FullWritten' = FullWritten + 1 /\ FullKept' = FullKept /\ Full' = Full
  BY <1>1, <1>2, Sizes DEF FullWritten, FullKept, Full
<1>5. Full' * FullWritten' <= tape'.ticks
  <2>1. tape.ticks \in Nat
    BY Sizes
  <2>2. /\ Full * FullWritten <= tape.ticks /\ Full * FullWritten \in Int
        /\ Full * (FullWritten + 1) = Full * FullWritten + Full
    BY <1>1, MiddleIsRoomy
  <2>3. Full * (FullWritten + 1) <= tape.ticks + Full
    BY <2>1, <2>2, FullIsNat
  <2> QED  BY <1>3, <1>4, <2>3
<1>6. Sized' /\ Counted'
  BY <1>1, <1>3 DEF Roomy, Sized, Counted, Encoding
<1>7. Filled'
  BY <1>1, <1>4, <1>5, MiddleIsRoomy DEF Roomy, Filled, Encoding
<1> QED  BY <1>6, <1>7 DEF Roomy

LEMMA LastIdleRoomy == ASSUME Inv, Roomy, LastIdle PROVE Roomy'
<1>1. pc = "idle" /\ idle <= 2 * DurationMax /\ StepDone /\ UNCHANGED Encoder
  BY DEF LastIdle
<1> DEFINE first == Smaller(idle, DurationMax)
<1>2. first \in Nat /\ idle - first \in Nat
  BY <1>1, MiddleOfStep DEF Smaller
<1> HIDE DEF first
<1>3. Write(0, first, idle - first)
  BY DEF LastIdle, first
<1>4. /\ Len(tape'.symbols) = Len(tape.symbols) + 1
      /\ tape'.ticks = tape.ticks + first + (idle - first) /\ tape'.pulses = tape.pulses + 0
  BY <1>2, <1>3, OneMoreSymbol
<1>5. tape'.ticks = due + Pace /\ tape'.ticks >= tape.ticks /\ tape'.ticks \in Nat
  <2>1. tape.ticks \in Nat /\ idle \in Nat /\ tape.ticks + idle = due + Pace
    BY <1>1, MiddleOfStep
  <2>2. tape'.ticks = tape.ticks + idle
    BY <1>2, <1>4, <2>1
  <2> QED  BY <2>1, <2>2
<1>6. tape'.pulses = kept.pulses + 1
  BY <1>1, <1>4, MiddleIsRoomy, Sizes
<1>7. Full * (Len(tape'.symbols) - 2 * (taken + 1)) <= tape'.ticks
  <2>1. Len(tape'.symbols) - 2 * (taken + 1) = FullWritten
    BY <1>4, Sizes DEF FullWritten
  <2>2. Full * FullWritten <= tape.ticks /\ Full * FullWritten \in Int
    BY <1>1, MiddleIsRoomy
  <2>3. tape.ticks \in Nat
    BY Sizes
  <2> QED  BY <1>5, <2>1, <2>2, <2>3
<1>8. Len(tape'.symbols) \in Nat
  BY <1>4, Sizes
<1> QED  BY <1>1, <1>5, <1>6, <1>7, <1>8, MiddleOfStep, MiddleIsRoomy, StepDoneRoomy

\* Only a step that is alone in its batch is given up.
LEMMA TruncateRoomy == ASSUME Inv, Roomy, Truncate PROVE Roomy'
<1>1. /\ pc \in {"encode", "idle"} /\ Encoding /\ taken < batch
      /\ UNCHANGED <<order, period, batch, kept, due>>
  BY DEF Truncate, Encoding, Inv, Planned, Encoder
<1>2. batch = 1 /\ order.move
  BY <1>1, RoomLeft DEF Truncate
<1>3. pc' = "full" /\ taken' = taken
  BY <1>1, MiddleIsRoomy DEF Truncate, Goto
<1>4. Sized' /\ Counted'
  BY <1>1, <1>2, <1>3 DEF Roomy, Sized, Counted, Encoding
<1>5. FullKept' = FullKept /\ Full' = Full
  BY <1>1, <1>3 DEF FullKept, Full
<1>6. Filled'
  BY <1>1, <1>2, <1>3, <1>5 DEF Roomy, Filled, Encoding
<1> QED  BY <1>4, <1>6 DEF Roomy

LEMMA SizeRoomy == ASSUME Inv, Roomy, Size PROVE Roomy'
<1> DEFINE rest == order.distance - Submitted
<1>1. /\ pc = "size" /\ batch' = BatchSize(period, rest)
      /\ pc' = IF batch' = 0 THEN "wait" ELSE "encode"
      /\ taken' = 0 /\ kept' = Blank /\ due' = 0 /\ UNCHANGED <<order, period>>
  BY DEF Size, Goto
<1>2. rest \in Nat
  <2>1. Submitted = done + Flying
    BY <1>1, OneInFlight DEF Inv
  <2> QED  BY <1>1, <2>1, FlyingIsNat DEF Inv, Shape, Planned, Motion
<1> HIDE DEF rest
<1>3. /\ batch' \in Nat /\ batch' <= BatchMaxSteps
      /\ batch' <= 1 \/ batch' * period <= BatchTarget
  BY <1>1, <1>2, BatchInRange, WithinTarget DEF Inv, Shape
<1>4. Sized'
  BY <1>1, <1>3 DEF Roomy, Sized, Encoding
<1>5. Len(kept'.symbols) = 0 /\ kept'.pulses = 0
  BY <1>1 DEF Blank
<1>6. Counted'
  BY <1>1, <1>5 DEF Counted, Encoding
<1>7. Full' * FullKept' <= due' /\ due' <= taken' * period' /\ Full' = Full
  <2>1. FullKept' = 0
    BY <1>1, <1>5 DEF FullKept
  <2>2. Full' = Full /\ Full * 0 = 0 /\ 0 * period = 0
    BY FullIsNat, Sizes DEF Full
  <2> QED  BY <1>1, <2>1, <2>2
<1>8. Filled'
  BY <1>1, <1>5, <1>7 DEF Filled, Encoding
<1> QED  BY <1>4, <1>6, <1>8 DEF Roomy

\* The other steps encode nothing; the period stays above the shortest one.
LEMMA LoopRoomy ==
  ASSUME Inv, Roomy,
         \/ \E o \in Orders : Begin(o)
         \/ Submit \/ Recalculate \/ Complete \/ Finish
  PROVE  Roomy'
<1>1. ASSUME NEW o \in Orders, Begin(o) PROVE Roomy'
  <2>1. Motion(o) /\ o.distance \in Nat
    BY EncodingConstants DEF Motion
  <2>2. pc' = "size" /\ period' = PeriodAt(o, 0)
    BY <1>1 DEF Begin, Goto
  <2>3. period' >= MinPeriod
    BY <2>1, <2>2, PeriodAtLeast
  <2> QED  BY <2>2, <2>3 DEF Roomy, Sized, Counted, Filled, Encoding, MinPeriod
<1>2. CASE Submit
  <2>1. pc # "ready" /\ pc' \in {"ready", "size", "wait"} /\ period' = period
    BY <1>2 DEF Submit, Encoded, Goto
  <2> QED  BY <2>1 DEF Roomy, Sized, Counted, Filled, Encoding, MinPeriod
<1>3. CASE Recalculate
  <2>1. pc = "wait" /\ pc' = "wait" /\ period' = PeriodAt(order, done + Pong)
    BY <1>3 DEF Recalculate
  <2>2. Pong \in Nat /\ Pong <= Flying /\ Flying \in Nat
    BY Flight, FlyingIsNat DEF Inv, Pong, Flying
  <2>3. done + Pong \in Nat /\ done + Pong <= order.distance
    BY <2>1, <2>2 DEF Inv, Shape, Planned, Motion
  <2>4. period' >= MinPeriod
    BY <2>1, <2>3, PeriodAtLeast DEF Inv, Shape
  <2> QED  BY <2>1, <2>4 DEF Roomy, Sized, Counted, Filled, Encoding, MinPeriod
<1>4. CASE Complete \/ Finish
  <2>1. pc = "wait" /\ pc' \in {"size", "ready"} /\ period' = period
    BY <1>4 DEF Complete, Finish, Goto
  <2> QED  BY <2>1 DEF Roomy, Sized, Counted, Filled, Encoding, MinPeriod
<1> QED  BY <1>1, <1>2, <1>3, <1>4

LEMMA RoomyInit == Init => Roomy
  BY DEF Init, Roomy, Sized, Counted, Filled, Encoding

LEMMA RoomyStep == Inv /\ Roomy /\ [Next]_vars => Roomy'
<1> SUFFICES ASSUME Inv, Roomy, [Next]_vars PROVE Roomy'
  OBVIOUS
<1>1. CASE Encode
  BY <1>1, PulseRoomy, BulkIdleRoomy, LastIdleRoomy, TruncateRoomy DEF Encode
<1>2. CASE UNCHANGED vars
  BY <1>2 DEF vars, encoder, Roomy, Sized, Counted, Filled, Encoding, FullKept, FullWritten,
              Full, MinPeriod
<1> QED  BY <1>1, <1>2, SizeRoomy, LoopRoomy DEF Next

-----------------------------------------------------------------------------
(***************************************************************************)
(* The ramp                                                                *)
(*                                                                         *)
(* A percentage is a quotient by the length of a slope, so from step to    *)
(* step it moves by about a hundredth of it; at the top of a short ramp of *)
(* odd length by two.  The speed is that percentage of the gain, rounded.  *)
(* The quotients are bounded by their products: b * (a \div b) is at most  *)
(* a, and more than a - b.                                                 *)
(***************************************************************************)
\* A quotient moves by one, and by the step of the numerator over the divisor.
LEMMA CloseQuotients ==
  ASSUME NEW h \in Nat, h > 0, NEW a \in Nat, NEW b \in Nat, b <= a + 200,
         NEW s \in Nat, s <= h
  PROVE  s * (b \div h - a \div h - 1) <= 200
<1> DEFINE x == a \div h
           y == b \div h
           n == y - x - 1
<1>1. x \in Nat /\ y \in Nat /\ h * y <= b /\ a < h * (x + 1)
  OBVIOUS
<1> HIDE DEF x, y
<1>2. n \in Int /\ h * n = h * y - h * (x + 1)
  BY <1>1
<1>3. h * y \in Nat /\ h * (x + 1) \in Nat
  BY <1>1
<1> HIDE DEF n
<1>4. h * n <= 200
  BY <1>1, <1>2, <1>3
<1>5. CASE n <= 0
  <2>1. s * n <= 0
    BY <1>2, <1>5
  <2>2. s * n \in Int
    BY <1>2
  <2> QED  BY <2>1, <2>2 DEF n, x, y
<1>6. CASE n > 0
  <2>1. n \in Nat
    BY <1>2, <1>6
  <2>2. s * n <= h * n /\ s * n \in Int /\ h * n \in Int
    BY <2>1
  <2>3. s * n <= 200
    BY <1>4, <2>2
  <2> QED  BY <2>3 DEF n, x, y
<1> QED  BY <1>2, <1>5, <1>6

\* The speed that a percentage gives, to the centidegree.
LEMMA CloseSpeeds ==
  ASSUME NEW s \in Nat, NEW g \in Nat, NEW p \in Nat, NEW q \in Nat,
         s * (q - p - 1) <= 200
  PROVE  100 * s * ((g * q) \div 100 - (g * p) \div 100) <= 200 * g + s * (g + 200)
<1> DEFINE x == (g * p) \div 100
           y == (g * q) \div 100
           n == q - p - 1
<1>1. g * p \in Nat /\ g * q \in Nat
  OBVIOUS
<1>2. x \in Nat /\ y \in Nat /\ 100 * y <= g * q /\ g * p < 100 * (x + 1)
  BY <1>1
<1>3. n \in Int /\ g * q - g * p = g * n + g
  OBVIOUS
<1> HIDE DEF x, y, n
<1>4. g * n \in Int
  BY <1>3
<1>5. 100 * (y - x) <= g * n + g + 100
  BY <1>1, <1>2, <1>3, <1>4
<1> DEFINE d == y - x
           r == g * n + g + 100
<1>6. d \in Int /\ r \in Int /\ 100 * d <= r
  BY <1>2, <1>4, <1>5
<1>7. r = g * n + g + 100
  OBVIOUS
<1> HIDE DEF d, r
<1>8. s * (100 * d) <= s * r
  BY <1>6
<1>9. s * r = g * (s * n) + s * g + 100 * s
  BY <1>3, <1>7
<1>10. g * (s * n) <= 200 * g
  <2>1. s * n \in Int /\ s * n <= 200
    BY <1>3 DEF n
  <2> HIDE DEF n
  <2> QED  BY <2>1
<1>11. s * (100 * d) = 100 * s * d /\ s * (g + 200) = s * g + 200 * s
  BY <1>6
<1>12. 100 * s * d <= 200 * g + s * (g + 200)
  <2>1. /\ s * r \in Int /\ g * (s * n) \in Int /\ s * g \in Nat /\ 100 * s * d \in Int
        /\ s * (100 * d) \in Int
    BY <1>3, <1>6
  <2> QED  BY <1>8, <1>9, <1>10, <1>11, <2>1
<1> QED  BY <1>12 DEF d, x, y

\* A little over the whole is a little over the speed asked for.
LEMMA PeakOfSpeeds ==
  ASSUME NEW s \in Nat, NEW g \in Nat, NEW p \in Nat, s * (p - 100) <= 100
  PROVE  s * ((g * p) \div 100 - g) <= g
<1> DEFINE x == (g * p) \div 100
<1>1. g * p \in Nat
  OBVIOUS
<1>2. x \in Nat /\ 100 * x <= g * p
  BY <1>1
<1> HIDE DEF x
<1> DEFINE n == p - 100
           d == x - g
<1>3. n \in Int /\ d \in Int /\ g * n = g * p - 100 * g
  BY <1>2
<1>4. s * n <= 100
  OBVIOUS
<1>5. 100 * d <= g * n
  BY <1>1, <1>2, <1>3
<1> HIDE DEF n, d
<1>6. s * (100 * d) <= s * (g * n)
  <2>1. g * n \in Int /\ 100 * d \in Int
    BY <1>3
  <2> HIDE <1>3
  <2> QED  BY <1>5, <2>1
<1>7. s * (100 * d) = 100 * (s * d) /\ s * (g * n) = g * (s * n)
  BY <1>3
<1>8. g * (s * n) <= 100 * g
  <2>1. s * n \in Int
    BY <1>3
  <2> QED  BY <1>4, <2>1
<1>9. s * d \in Int /\ g * (s * n) \in Int
  BY <1>3
<1>10. s * d <= g
  BY <1>6, <1>7, <1>8, <1>9
<1> QED  BY <1>10 DEF d, x

\* Where the ramp is: on a slope of h centidegrees, a short of its top or past its bottom.
LEMMA SlopeIsShortest ==
  ASSUME NEW o, Motion(o), Cds(o) >= 2
  PROVE  /\ Slope(o) \in Nat /\ Slope(o) > 0
         /\ Slope(o) <= AccelDist /\ Slope(o) <= DecelDist /\ Slope(o) <= Cds(o) \div 2
<1>1. AccelDist \in Nat /\ AccelDist > 0 /\ DecelDist \in Nat /\ DecelDist > 0
  BY EncodingConstants
<1>2. Cds(o) \in Nat
  BY CdsInRange
<1> DEFINE h == Cds(o) \div 2
<1>3. h \in Nat /\ h > 0
  BY <1>2
<1> HIDE DEF h
<1>4. Slope(o) = Smaller(Smaller(AccelDist, DecelDist), h)
  BY DEF Slope, h
<1>5. /\ Slope(o) \in Nat /\ Slope(o) > 0
      /\ Slope(o) <= AccelDist /\ Slope(o) <= DecelDist /\ Slope(o) <= h
  BY <1>1, <1>3, <1>4 DEF Smaller
<1> QED  BY <1>5 DEF h

LEMMA WholeQuotient == ASSUME NEW h \in Nat, h > 0 PROVE (100 * h) \div h = 100
<1> DEFINE x == (100 * h) \div h
<1>1. x \in Nat /\ h * x <= 100 * h /\ 100 * h < h * (x + 1)
  OBVIOUS
<1> HIDE DEF x
<1>2. x <= 100
  <2>1. SUFFICES ASSUME x >= 101 PROVE FALSE
    BY <1>1
  <2>2. h * x >= h * 101
    BY <1>1, <2>1
  <2> QED  BY <1>1, <2>2
<1>3. x >= 100
  <2>1. SUFFICES ASSUME x + 1 <= 100 PROVE FALSE
    BY <1>1
  <2>2. h * (x + 1) <= h * 100
    BY <1>1, <2>1
  <2> QED  BY <1>1, <2>2
<1> QED  BY <1>1, <1>2, <1>3 DEF x

\* Two percentages in a row are those of one slope that is no shorter than Slope:
\* on it they are one step apart, or two at the top of a short ramp of odd length.
OnSlope(o, t, h, a, b) ==
  /\ h >= Slope(o) /\ h > 0
  /\ RampPercent(t, Cds(o)) = a \div h
  /\ RampPercent(t + 1, Cds(o)) = b \div h
  /\ b <= a + 200 /\ a <= b + 200
  /\ a <= 100 * h + 100

LEMMA ShortRampStep ==
  ASSUME NEW o, Motion(o), Cds(o) >= 2, Cds(o) <= AccelDist + DecelDist,
         NEW t \in Nat, t + 1 <= Cds(o)
  PROVE  \E h, a, b \in Nat : OnSlope(o, t, h, a, b)
<1> DEFINE d == Cds(o)
           h == d \div 2
<1>1. d \in Nat
  BY CdsInRange
<1>2. h \in Nat /\ h > 0 /\ h >= Slope(o) /\ 2 * h <= d /\ d <= 2 * h + 1
  BY <1>1, SlopeIsShortest
<1>3. /\ RampPercent(t, d) = IF t < h THEN (t * 100) \div h ELSE ((d - t) * 100) \div h
      /\ RampPercent(t + 1, d)
           = IF t + 1 < h THEN ((t + 1) * 100) \div h ELSE ((d - (t + 1)) * 100) \div h
  BY DEF RampPercent
<1> HIDE DEF h, d
<1>4. CASE t + 1 < h
  <2>1. OnSlope(o, t, h, t * 100, (t + 1) * 100)
    BY <1>2, <1>3, <1>4 DEF OnSlope, d
  <2> QED  BY <1>2, <2>1
<1>5. CASE t + 1 = h
  <2>1. OnSlope(o, t, h, t * 100, (d - (t + 1)) * 100)
    BY <1>1, <1>2, <1>3, <1>5 DEF OnSlope, d
  <2>2. (d - (t + 1)) * 100 \in Nat
    BY <1>1 DEF d
  <2> QED  BY <1>2, <2>1, <2>2
<1>6. CASE t >= h
  <2>1. OnSlope(o, t, h, (d - t) * 100, (d - (t + 1)) * 100)
    BY <1>1, <1>2, <1>3, <1>6 DEF OnSlope, d
  <2>2. (d - t) * 100 \in Nat /\ (d - (t + 1)) * 100 \in Nat
    BY <1>1 DEF d
  <2> QED  BY <1>2, <2>1, <2>2
<1> QED  BY <1>2, <1>4, <1>5, <1>6

LEMMA LongRampStep ==
  ASSUME NEW o, Motion(o), Cds(o) >= 2, Cds(o) > AccelDist + DecelDist,
         NEW t \in Nat, t + 1 <= Cds(o)
  PROVE  \E h, a, b \in Nat : OnSlope(o, t, h, a, b)
<1> DEFINE d == Cds(o)
           u == AccelDist
           w == DecelDist
<1>1. d \in Nat /\ u \in Nat /\ u > 0 /\ w \in Nat /\ w > 0 /\ d > u + w
  BY CdsInRange, EncodingConstants
<1>2. u >= Slope(o) /\ w >= Slope(o)
  BY SlopeIsShortest
<1>3. /\ RampPercent(t, d) = IF t < u THEN (t * 100) \div u
                             ELSE IF t < d - w THEN 100 ELSE ((d - t) * 100) \div w
      /\ RampPercent(t + 1, d)
           = IF t + 1 < u THEN ((t + 1) * 100) \div u
             ELSE IF t + 1 < d - w THEN 100 ELSE ((d - (t + 1)) * 100) \div w
  BY <1>1 DEF RampPercent
<1>4. (100 * u) \div u = 100 /\ (100 * w) \div w = 100
  BY <1>1, WholeQuotient
<1> HIDE DEF u, d, w
<1>5. CASE t + 1 < u
  <2>1. OnSlope(o, t, u, t * 100, (t + 1) * 100)
    BY <1>1, <1>2, <1>3, <1>5 DEF OnSlope, d
  <2> QED  BY <1>1, <2>1
<1>6. CASE t + 1 = u
  <2>1. OnSlope(o, t, u, t * 100, 100 * u)
    BY <1>1, <1>2, <1>3, <1>4, <1>6 DEF OnSlope, d
  <2> QED  BY <1>1, <2>1
<1>7. CASE t >= u /\ t + 1 < d - w
  <2>1. OnSlope(o, t, u, 100 * u, 100 * u)
    BY <1>1, <1>2, <1>3, <1>4, <1>7 DEF OnSlope, d
  <2> QED  BY <1>1, <2>1
<1>8. CASE t >= u /\ t + 1 = d - w
  <2>1. (d - (t + 1)) * 100 = 100 * w
    BY <1>1, <1>8
  <2>2. OnSlope(o, t, w, 100 * w, 100 * w)
    BY <1>1, <1>2, <1>3, <1>4, <1>8, <2>1 DEF OnSlope, d
  <2> QED  BY <1>1, <2>2
<1>9. CASE t >= d - w
  <2>1. ~(t < u) /\ ~(t < d - w) /\ ~(t + 1 < u) /\ ~(t + 1 < d - w)
    BY <1>1, <1>9
  <2>2. /\ RampPercent(t, d) = ((d - t) * 100) \div w
        /\ RampPercent(t + 1, d) = ((d - (t + 1)) * 100) \div w
    BY <1>3, <2>1, Zenon
  <2>3. /\ (d - (t + 1)) * 100 <= (d - t) * 100 + 200
        /\ (d - t) * 100 <= (d - (t + 1)) * 100 + 200
        /\ (d - t) * 100 <= 100 * w + 100
    BY <1>1, <1>9
  <2>4. OnSlope(o, t, w, (d - t) * 100, (d - (t + 1)) * 100)
    BY <1>1, <1>2, <2>2, <2>3 DEF OnSlope, d
  <2>5. (d - t) * 100 \in Nat /\ (d - (t + 1)) * 100 \in Nat
    BY <1>1 DEF d
  <2> QED  BY <1>1, <2>4, <2>5
<1> QED  BY <1>1, <1>5, <1>6, <1>7, <1>8, <1>9

LEMMA PercentStep ==
  ASSUME NEW o, Motion(o), Cds(o) >= 2, NEW t \in Nat, t + 1 <= Cds(o)
  PROVE  LET p == RampPercent(t, Cds(o))
             q == RampPercent(t + 1, Cds(o))
         IN  /\ p \in Nat /\ q \in Nat
             /\ Slope(o) * (q - p - 1) <= 200 /\ Slope(o) * (p - q - 1) <= 200
             /\ Slope(o) * (p - 100) <= 100
<1>1. Cds(o) \in Nat /\ AccelDist \in Nat /\ DecelDist \in Nat /\ t <= Cds(o)
  BY CdsInRange, EncodingConstants
<1>2. PICK h \in Nat, a \in Nat, b \in Nat : OnSlope(o, t, h, a, b)
  BY <1>1, ShortRampStep, LongRampStep
<1> DEFINE p == RampPercent(t, Cds(o))
           q == RampPercent(t + 1, Cds(o))
           s == Slope(o)
<1>3. /\ s <= h /\ h > 0 /\ s \in Nat /\ p = a \div h /\ q = b \div h
      /\ b <= a + 200 /\ a <= b + 200 /\ a <= 100 * h + 100
  BY <1>2, SlopeIsShortest DEF OnSlope
<1> HIDE DEF p, q, s
<1>4. s * (q - p - 1) <= 200 /\ s * (p - q - 1) <= 200
  BY <1>3, CloseQuotients
<1>5. p \in Nat /\ q \in Nat
  BY <1>3, Quotient
<1>6. s * (p - 100) <= 100
  <2>1. h * p <= a /\ h * p \in Nat
    BY <1>3, <1>5, QuotientBounds
  <2>2. h * (p - 100) = h * p - 100 * h
    BY <1>5
  <2>3. h * (p - 100) <= 100
    BY <1>3, <2>1, <2>2
  <2>4. CASE p <= 100
    <3>1. p - 100 \in Int /\ p - 100 <= 0
      BY <1>5, <2>4
    <3>2. \A n \in Int : n <= 0 => s * n <= 0 /\ s * n \in Int
      BY <1>3
    <3> QED  BY <3>1, <3>2
  <2>5. CASE p > 100
    <3>1. p - 100 \in Nat
      BY <1>5, <2>5
    <3>2. \A n \in Nat : s * n <= h * n /\ s * n \in Nat /\ h * n \in Nat
      BY <1>3
    <3> QED  BY <2>3, <3>1, <3>2
  <2> QED  BY <1>5, <2>4, <2>5
<1> QED  BY <1>4, <1>5, <1>6 DEF p, q, s

\* Near, for any motion.
Close(o, v, w) ==
  100 * Slope(o) * (v - w) <= 200 * (Cap(o) - MinSlew) + Slope(o) * (Cap(o) - MinSlew + 200)

\* The speed of a SLEW after its first n steps, and at a place of its ramp.
SpeedAfter(o, n) == IF n = 0 THEN MinSlew ELSE Velocity(o, n - 1)
RampSpeed(o, u) == MinSlew + ((Cap(o) - MinSlew) * RampPercent(u, Cds(o))) \div 100

LEMMA GainIsNat == ASSUME NEW o, Motion(o) PROVE Cap(o) - MinSlew \in Nat /\ Slope(o) \in Nat
<1>1. MinSlew \in Nat /\ o.speed \in Nat /\ o.speed >= MinSlew
  BY EncodingConstants DEF Motion
<1>2. Cds(o) \div 2 \in Nat /\ AccelDist \in Nat /\ DecelDist \in Nat
  BY CdsInRange, Quotient, EncodingConstants
<1> QED  BY <1>1, <1>2 DEF Cap, Slope, Smaller

LEMMA RampSpeedStep ==
  ASSUME NEW o, Motion(o), Cds(o) >= ShortSlew, NEW u \in Nat, u + 1 <= Cds(o)
  PROVE  /\ Close(o, RampSpeed(o, u), RampSpeed(o, u + 1))
         /\ Close(o, RampSpeed(o, u + 1), RampSpeed(o, u))
         /\ Slope(o) * (RampSpeed(o, u) - Cap(o)) <= Cap(o) - MinSlew
<1> DEFINE p == RampPercent(u, Cds(o))
           q == RampPercent(u + 1, Cds(o))
           g == Cap(o) - MinSlew
           s == Slope(o)
<1>1. Cds(o) \in Nat /\ Cds(o) >= 2 /\ MinSlew \in Nat
  BY CdsInRange, EncodingConstants
<1>2. /\ RampSpeed(o, u) = MinSlew + (g * p) \div 100
      /\ RampSpeed(o, u + 1) = MinSlew + (g * q) \div 100
  BY DEF RampSpeed
<1>3. s \in Nat /\ g \in Nat
  BY GainIsNat
<1>4. /\ p \in Nat /\ q \in Nat
      /\ s * (q - p - 1) <= 200 /\ s * (p - q - 1) <= 200 /\ s * (p - 100) <= 100
  BY <1>1, PercentStep
<1>5. Cap(o) = MinSlew + g
  BY <1>1, GainIsNat DEF Cap, Smaller, Motion
<1> HIDE DEF p, q, g, s
<1> DEFINE x == (g * p) \div 100
           y == (g * q) \div 100
<1>6. /\ 100 * s * (y - x) <= 200 * g + s * (g + 200)
      /\ 100 * s * (x - y) <= 200 * g + s * (g + 200)
      /\ s * (x - g) <= g
  BY <1>3, <1>4, CloseSpeeds, PeakOfSpeeds
<1>7. x \in Nat /\ y \in Nat
  <2>1. g * p \in Nat /\ g * q \in Nat
    BY <1>3, <1>4
  <2> QED  BY <2>1, Quotient
<1>8. RampSpeed(o, u) = MinSlew + x /\ RampSpeed(o, u + 1) = MinSlew + y
  BY <1>2
<1> HIDE DEF x, y
<1>9. /\ RampSpeed(o, u) - RampSpeed(o, u + 1) = x - y
      /\ RampSpeed(o, u + 1) - RampSpeed(o, u) = y - x
      /\ RampSpeed(o, u) - Cap(o) = x - g
  BY <1>1, <1>3, <1>5, <1>7, <1>8
<1>10. /\ 100 * s * (RampSpeed(o, u + 1) - RampSpeed(o, u)) <= 200 * g + s * (g + 200)
       /\ 100 * s * (RampSpeed(o, u) - RampSpeed(o, u + 1)) <= 200 * g + s * (g + 200)
       /\ s * (RampSpeed(o, u) - Cap(o)) <= g
  BY <1>6, <1>9, Zenon
<1> QED  BY <1>10 DEF Close, s, g

LEMMA CloseToItself ==
  ASSUME NEW o, Motion(o), NEW v \in Nat
  PROVE  Close(o, v, v) /\ Slope(o) * (MinSlew - Cap(o)) <= Cap(o) - MinSlew
<1> DEFINE g == Cap(o) - MinSlew
           s == Slope(o)
<1>1. g \in Nat /\ s \in Nat
  BY GainIsNat
<1>2. MinSlew - Cap(o) = -g
  BY GainIsNat, EncodingConstants DEF Cap, Smaller, Motion
<1> HIDE DEF g, s
<1>3. 100 * s * (v - v) = 0 /\ s * (g + 200) \in Nat
  BY <1>1
<1>4. 100 * s * (v - v) <= 200 * g + s * (g + 200)
  BY <1>1, <1>3
<1>5. s * (-g) <= g
  <2>1. s * (-g) = -(s * g) /\ s * g \in Nat
    BY <1>1
  <2> QED  BY <1>1, <2>1
<1>6. s * (MinSlew - Cap(o)) <= g
  BY <1>2, <1>5, Zenon
<1> QED  BY <1>4, <1>6 DEF Close, g, s

LEMMA VelocityStep ==
  ASSUME NEW o, Motion(o), Measured(o), NEW t \in Nat, t + 1 <= o.distance
  PROVE  /\ Close(o, Velocity(o, t), Velocity(o, t + 1))
         /\ Close(o, Velocity(o, t + 1), Velocity(o, t))
         /\ Slope(o) * (Velocity(o, t) - Cap(o)) <= Cap(o) - MinSlew
<1>1. Cds(o) \in Nat /\ Cds(o) > 0 /\ ShortSlew \in Nat /\ MinSlew \in Nat /\ o.distance \in Nat
  BY CdsInRange, EncodingConstants DEF Measured, Motion
<1>2. CASE Cds(o) < ShortSlew
  <2>1. Velocity(o, t) = MinSlew /\ Velocity(o, t + 1) = MinSlew
    BY <1>1, <1>2 DEF Velocity
  <2> QED  BY <1>1, <2>1, CloseToItself
<1>3. CASE Cds(o) >= ShortSlew
  <2> DEFINE u == TravelledCds(o, t)
             w == TravelledCds(o, t + 1)
  <2>1. u \in Nat /\ u + 1 <= Cds(o) /\ (w = u \/ w = u + 1)
    BY <1>1, WayStep
  <2>2. Velocity(o, t) = RampSpeed(o, u) /\ Velocity(o, t + 1) = RampSpeed(o, w)
    BY <1>1, <1>3 DEF Velocity, RampSpeed
  <2>3. Velocity(o, t) \in Nat
    BY <1>1, AtLeastMinSlew
  <2> HIDE DEF u, w
  <2>4. /\ Close(o, RampSpeed(o, u), RampSpeed(o, u + 1))
        /\ Close(o, RampSpeed(o, u + 1), RampSpeed(o, u))
        /\ Slope(o) * (RampSpeed(o, u) - Cap(o)) <= Cap(o) - MinSlew
    BY <1>3, <2>1, RampSpeedStep
  <2>5. Close(o, Velocity(o, t), Velocity(o, t))
    BY <2>3, CloseToItself
  <2> QED  BY <2>1, <2>2, <2>4, <2>5
<1> QED  BY <1>1, <1>2, <1>3

\* The ramp starts and ends at the lowest speed.
LEMMA RampEnds ==
  ASSUME NEW o, Motion(o), Measured(o)
  PROVE  Velocity(o, 0) = MinSlew /\ Velocity(o, o.distance) = MinSlew
<1> DEFINE c == Cds(o)
           h == c \div 2
           g == Cap(o) - MinSlew
<1>1. c \in Nat /\ c > 0 /\ c <= o.distance /\ o.distance \in Nat /\ ShortSlew \in Nat
      /\ ShortSlew >= 2 /\ AccelDist \in Nat /\ AccelDist > 0
      /\ DecelDist \in Nat /\ DecelDist > 0 /\ MinSlew \in Nat
  BY CdsInRange, EncodingConstants DEF Measured, Motion
<1>2. CASE c < ShortSlew
  BY <1>1, <1>2 DEF Velocity
<1>3. CASE c >= ShortSlew
  <2>1. h \in Nat /\ h > 0 /\ h < c
    BY <1>1, <1>3
  <2>2. g \in Nat
    BY GainIsNat
  <2>3. /\ 0 * 100 = 0 /\ (c - c) * 100 = 0 /\ 0 \div h = 0 /\ 0 \div AccelDist = 0
        /\ 0 \div DecelDist = 0
    BY <1>1, <2>1
  <2>4. RampPercent(0, c) = 0
    BY <1>1, <2>1, <2>3 DEF RampPercent
  <2>5. RampPercent(c, c) = 0
    BY <1>1, <2>1, <2>3 DEF RampPercent
  <2>6. TravelledCds(o, 0) = 0 /\ TravelledCds(o, o.distance) = c
    BY <1>1, WayEnds
  <2>7. g * 0 = 0 /\ 0 \div 100 = 0
    BY <2>2
  <2> QED  BY <1>1, <1>3, <2>4, <2>5, <2>6, <2>7 DEF Velocity
<1> QED  BY <1>1, <1>2, <1>3

\* From step to step, from the start to the target, the speed is close to the one
\* before, and it exceeds what was asked for by a step of the ramp at most.
LEMMA SpeedsOfSlew ==
  ASSUME NEW o, Motion(o), Measured(o), NEW n \in Nat, n <= o.distance
  PROVE  /\ n < o.distance => /\ Close(o, SpeedAfter(o, n), SpeedAfter(o, n + 1))
                              /\ Close(o, SpeedAfter(o, n + 1), SpeedAfter(o, n))
         /\ Slope(o) * (SpeedAfter(o, n) - Cap(o)) <= Cap(o) - MinSlew
         /\ n = o.distance => /\ Close(o, SpeedAfter(o, n), MinSlew)
                              /\ Close(o, MinSlew, SpeedAfter(o, n))
<1>1. o.distance \in Nat /\ o.distance > 0 /\ MinSlew \in Nat
  BY CdsInRange, EncodingConstants DEF Motion, Measured
<1>2. CASE n = 0
  <2>1. SpeedAfter(o, n) = MinSlew /\ SpeedAfter(o, n + 1) = MinSlew
    BY <1>2, RampEnds DEF SpeedAfter
  <2> QED  BY <1>1, <1>2, <2>1, CloseToItself
<1>3. CASE n > 0
  <2> DEFINE t == n - 1
  <2>1. t \in Nat /\ t + 1 = n /\ n + 1 - 1 = t + 1 /\ n + 1 # 0 /\ n # 0
    BY <1>3
  <2>2. /\ SpeedAfter(o, n) = Velocity(o, t)
        /\ SpeedAfter(o, n + 1) = Velocity(o, t + 1)
    BY <2>1 DEF SpeedAfter
  <2> HIDE DEF t
  <2>3. /\ Close(o, Velocity(o, t), Velocity(o, t + 1))
        /\ Close(o, Velocity(o, t + 1), Velocity(o, t))
        /\ Slope(o) * (Velocity(o, t) - Cap(o)) <= Cap(o) - MinSlew
    BY <1>1, <2>1, VelocityStep
  <2>4. n = o.distance => Velocity(o, t + 1) = MinSlew
    BY <2>1, RampEnds
  <2> QED  BY <2>2, <2>3, <2>4
<1> QED  BY <1>2, <1>3
-----------------------------------------------------------------------------
(***************************************************************************)
(* The speeds of a slew                                                    *)
(***************************************************************************)
\* The steps of the motion that are encoded so far.
Progress == done + Flying + (IF Encoding THEN taken ELSE 0)

\* The last speed that was encoded is that of the last step: no step of a SLEW is
\* given up, and the next batch starts where the one before it ends.
OnRamp ==
  Measured(order) =>
    /\ speed = SpeedAfter(order, Progress)
    /\ pc = "ready" => Progress = order.distance

LEMMA ProgressInRange ==
  ASSUME Inv, OnRamp, Measured(order)
  PROVE  /\ Progress \in Nat /\ Progress <= order.distance
         /\ pc # "ready" /\ done = order.distance => Progress = order.distance
<1> DEFINE f == Flying
           d == order.distance
<1>1. f \in Nat /\ done \in Nat /\ taken \in Nat /\ batch \in Nat /\ d \in Nat
  BY FlyingIsNat DEF Inv, Shape, Motion
<1> HIDE DEF f, d
<1>2. CASE Encoding
  <2>1. done + f + batch <= d /\ taken <= batch
    BY <1>2 DEF Inv, Planned, f, d
  <2>2. Progress = done + f + taken
    BY <1>2 DEF Progress, f
  <2> QED  BY <1>1, <2>1, <2>2 DEF d
<1>3. CASE pc \in {"size", "wait"}
  <2>1. done + f <= d
    BY <1>3 DEF Inv, Planned, f, d
  <2>2. Progress = done + f
    BY <1>1, <1>3 DEF Progress, f, Encoding
  <2> QED  BY <1>1, <2>1, <2>2 DEF d
<1>4. CASE pc = "ready"
  <2>1. Progress = d
    BY <1>4 DEF OnRamp, d
  <2> QED  BY <1>1, <1>4, <2>1 DEF d
<1> QED  BY <1>2, <1>3, <1>4 DEF Inv, Shape, Encoding

\* A step that is complete has the next speed of the ramp.
LEMMA StepDoneOnRamp ==
  ASSUME Inv, OnRamp, Encoding, taken < batch, StepDone, UNCHANGED Encoder
  PROVE  /\ OnRamp'
         /\ Measured(order) => /\ speed = SpeedAfter(order, Progress)
                               /\ speed' = SpeedAfter(order, Progress + 1)
                               /\ Progress < order.distance
<1>1. /\ pc' = "encode" /\ taken' = taken + 1
      /\ ~order.move => speed' = Velocity(order, Travelled)
      /\ UNCHANGED <<order, period, done, flight, batch>>
  BY DEF StepDone, Goto, Encoder
<1>2. Travelled = Progress /\ Progress \in Nat
  <2>1. Flying \in Nat /\ done \in Nat /\ taken \in Nat
    BY FlyingIsNat DEF Inv, Shape
  <2> QED  BY <2>1, OneInFlight DEF Inv, Travelled, Progress
<1>3. Progress' = Progress + 1
  <2>1. Flying' = Flying /\ Flying \in Nat /\ done \in Nat /\ taken \in Nat
    BY <1>1, FlyingIsNat DEF Inv, Shape, Flying
  <2>2. Progress' = done' + Flying' + taken' /\ Progress = done + Flying + taken
    BY <1>1 DEF Progress, Encoding
  <2> QED  BY <1>1, <2>1, <2>2
<1>4. ASSUME Measured(order)
      PROVE  speed' = SpeedAfter(order, Progress + 1) /\ Progress < order.distance
  <2>1. speed' = Velocity(order, Progress)
    BY <1>1, <1>2, <1>4 DEF Measured
  <2>2. Progress + 1 # 0 /\ Progress + 1 - 1 = Progress
    BY <1>2
  <2>3. done + Flying + batch <= order.distance /\ Progress = done + Flying + taken
    BY DEF Inv, Planned, Progress
  <2>4. Flying \in Nat /\ done \in Nat /\ taken \in Nat /\ batch \in Nat
        /\ order.distance \in Nat
    BY FlyingIsNat DEF Inv, Shape, Motion
  <2> QED  BY <2>1, <2>2, <2>3, <2>4 DEF SpeedAfter
<1>5. OnRamp'
  BY <1>1, <1>3, <1>4 DEF OnRamp, Measured, SpeedAfter, Velocity, Cap, Cds, TravelledCds
<1> QED  BY <1>4, <1>5 DEF OnRamp

\* A SLEW is never in the middle of a step.
LEMMA EncodeOnRamp ==
  ASSUME Inv, Roomy, OnRamp, Encode
  PROVE  /\ OnRamp'
         /\ Measured(order) => /\ speed = SpeedAfter(order, Progress)
                               /\ speed' = SpeedAfter(order, Progress + 1)
                               /\ Progress < order.distance
<1>1. Encoding /\ order' = order /\ pc' # "ready"
  BY DEF Encode, Pulse, BulkIdle, LastIdle, Truncate, StepDone, Goto, Encoder, Encoding
<1>2. CASE order.move
  BY <1>1, <1>2 DEF OnRamp, Measured
<1>3. CASE ~order.move
  <2>1. pc = "encode"
    BY <1>1, <1>3 DEF Roomy, Filled
  <2>2. ~Truncate
    BY <1>3, <2>1, RoomLeft DEF Truncate
  <2>3. Pulse
    BY <2>1, <2>2 DEF Encode, BulkIdle, LastIdle
  <2>4. Pace - PulseTicks <= DurationMax
    BY <1>1, <1>3, <2>3, PaceOfBatch DEF Pulse
  <2> QED  BY <1>1, <2>3, <2>4, StepDoneOnRamp DEF Pulse
<1> QED  BY <1>2, <1>3

LEMMA BeginOnRamp == ASSUME Inv, NEW o \in Orders, Begin(o) PROVE OnRamp' /\ speed' = MinSlew
<1>1. pc' = "size" /\ order' = o /\ done' = 0 /\ flight' = <<>> /\ speed' = MinSlew
  BY DEF Begin, Goto
<1>2. Progress' = 0
  <2>1. Flying' = 0
    BY <1>1 DEF Flying
  <2> QED  BY <1>1, <2>1 DEF Progress, Encoding
<1>3. SpeedAfter(order, Progress)' = MinSlew
  BY <1>2 DEF SpeedAfter
<1> QED  BY <1>1, <1>3 DEF OnRamp

\* The rest of the loop takes steps from one place to another.
LEMMA LoopOnRamp ==
  ASSUME Inv, Roomy, OnRamp, Size \/ Submit \/ Recalculate \/ Complete \/ Finish
  PROVE  OnRamp' /\ UNCHANGED <<order, speed>>
<1>1. UNCHANGED <<order, speed>>
  BY DEF Size, Submit, Recalculate, Complete, Finish, encoder
<1>2. SUFFICES ASSUME Measured(order)
               PROVE  Progress' = Progress /\ (pc' = "ready" => Progress = order.distance)
  BY <1>1 DEF OnRamp, Measured, SpeedAfter, Velocity, Cap, Cds, TravelledCds
<1>3. Flying \in Nat /\ done \in Nat /\ taken \in Nat /\ batch \in Nat
      /\ order.distance \in Nat
  BY FlyingIsNat DEF Inv, Shape, Motion
<1>4. CASE Size
  <2>1. pc = "size" /\ pc' \in {"wait", "encode"} /\ taken' = 0 /\ UNCHANGED <<done, flight>>
    BY <1>4 DEF Size, Goto
  <2>2. Flying' = Flying /\ ~Encoding
    BY <2>1 DEF Flying, Encoding
  <2>3. Progress = done + Flying + 0 /\ Progress' = done + Flying + 0
    BY <2>1, <2>2 DEF Progress
  <2> QED  BY <2>1, <2>3
<1>5. CASE Submit
  <2>1. Encoding /\ pc = "encode" /\ taken = batch /\ UNCHANGED <<done, taken>>
    <3>1. Encoding /\ UNCHANGED <<done, taken>>
      BY <1>5 DEF Submit, Encoded, Encoding, encoder
    <3>2. pc = "encode"
      BY <1>2, <3>1 DEF Roomy, Filled, Measured
    <3> QED  BY <1>5, <3>1, <3>2 DEF Submit, Encoded
  <2>2. tape.symbols # <<>>
    <3>1. Len(kept.symbols) = taken /\ batch > 0
      BY <1>2, <2>1 DEF Roomy, Sized, Filled, Measured
    <3>2. tape = kept /\ Len(<<>>) = 0
      BY <2>1 DEF Inv, Timed
    <3> QED  BY <1>3, <2>1, <3>1, <3>2
  <2>3. flight' = Append(flight, batch) /\ pc' \in {"size", "wait"}
    BY <1>5, <2>2 DEF Submit, Goto
  <2>4. Flying' = Flying + batch
    BY <2>1, <2>3, FlyingGrows
  <2>5. Progress = done + Flying + batch /\ Progress' = done + (Flying + batch) + 0
    BY <2>1, <2>3, <2>4 DEF Progress, Encoding
  <2> QED  BY <1>3, <2>3, <2>5
<1>6. CASE Recalculate
  <2>1. pc = "wait" /\ UNCHANGED <<pc, done, flight, taken>>
    BY <1>6 DEF Recalculate, encoder
  <2> QED  BY <2>1 DEF Progress, Flying, Encoding
<1>7. CASE Complete
  <2>1. pc = "wait" /\ pc' = "size"
    BY <1>7 DEF Complete, Goto
  <2>2. done' + Flying' = done + Flying
    BY <1>7, FlyingKept
  <2>3. Progress = done + Flying + 0 /\ Progress' = done' + Flying' + 0
    BY <2>1 DEF Progress, Encoding
  <2> QED  BY <2>1, <2>2, <2>3
<1>8. CASE Finish
  <2>1. pc = "wait" /\ pc' = "ready" /\ done >= order.distance /\ UNCHANGED <<done, flight>>
    BY <1>8 DEF Finish, Goto
  <2>2. Flying' = Flying
    BY <2>1 DEF Flying
  <2>3. done + Flying <= order.distance
    BY <2>1 DEF Inv, Planned
  <2>4. Progress = done + Flying + 0 /\ Progress' = done + Flying + 0
    BY <2>1, <2>2 DEF Progress, Encoding
  <2> QED  BY <1>3, <2>1, <2>3, <2>4
<1> QED  BY <1>4, <1>5, <1>6, <1>7, <1>8

LEMMA RampInit == Init => OnRamp
<1> SUFFICES ASSUME Init PROVE OnRamp
  OBVIOUS
<1>1. ~Measured(order)
  BY EncodingConstants DEF Init, Measured, Cds
<1> QED  BY <1>1 DEF OnRamp

LEMMA RampStays == Inv /\ Roomy /\ OnRamp /\ [Next]_vars => OnRamp'
<1> SUFFICES ASSUME Inv, Roomy, OnRamp, [Next]_vars PROVE OnRamp'
  OBVIOUS
<1>1. CASE UNCHANGED vars
  BY <1>1 DEF vars, encoder, OnRamp, Measured, Progress, Flying, Encoding, SpeedAfter, Velocity,
              Cap, Cds, TravelledCds
<1> QED  BY <1>1, BeginOnRamp, EncodeOnRamp, LoopOnRamp DEF Next
-----------------------------------------------------------------------------
(***************************************************************************)
(* Theorems                                                                *)
(***************************************************************************)
\* The invariant: what is encoded is timed, nothing is planned beyond the
\* distance, and the ramp never falls below the lowest speed.
THEOREM EncodingInv == Spec => []Inv
<1> QED  BY InitInv, StepInv, PTL DEF Spec

\* The whole invariant: also what a batch has room for, and where on the ramp the
\* encoder is.
THEOREM SlewInvariance == Spec => [](Inv /\ Roomy /\ OnRamp)
<1>1. Init => Inv /\ Roomy /\ OnRamp
  BY InitInv, RoomyInit, RampInit
<1>2. Inv /\ Roomy /\ OnRamp /\ [Next]_vars => (Inv /\ Roomy /\ OnRamp)'
  BY StepInv, RoomyStep, RampStays
<1> QED  BY <1>1, <1>2, PTL DEF Spec

\* However slow the steps of a motion and however many symbols each takes, the
\* symbols of the whole steps take exactly the time of their periods.
THEOREM EncodedInTime == Spec => []StepsTimed
<1>1. Inv => StepsTimed
  BY DEF Inv, Timed, StepsTimed
<1> QED  BY <1>1, EncodingInv, PTL

\* The symbols fit the buffer and their halves 15 bits, whatever the period.
THEOREM EncodingTypes == Spec => []TypeOK
<1>1. ASSUME Inv PROVE TypeOK
  <2>1. ASSUME NEW t \in {tape, kept}
        PROVE  /\ Len(t.symbols) <= BufferSymbols
               /\ \A i \in DOMAIN t.symbols : t.symbols[i] \in (0 .. DurationMax) \X (0 .. DurationMax)
    <3>1. t.symbols \in Seq(Half \X Half) /\ Len(t.symbols) <= BufferSymbols
      BY <1>1, <2>1 DEF Inv, Shape, Fits, Tape
    <3> QED  BY <3>1 DEF Half
  <2> QED  BY <1>1, <2>1 DEF Inv, Shape, TypeOK
<1> QED  BY <1>1, EncodingInv, PTL

\* What the loop counts when a batch completes is what was encoded: every step of
\* a batch that is sent has its pulse, for any constants that BufferSuffices
\* allows; the only step that is ever given up is alone in its batch, which is
\* then refused (motors_motion_task.c:47-64, motors_rmt.c:335-357).
THEOREM CountsWhatIsEncoded == Spec => []CountedIsEncoded
<1>1. ASSUME Inv, Roomy PROVE CountedIsEncoded
  <2>1. SUFFICES ASSUME Encoded PROVE tape = kept /\ tape.pulses \in {0, batch}
    BY DEF CountedIsEncoded
  <2>2. Encoding /\ pc # "idle" /\ taken <= batch
    BY <1>1, <2>1 DEF Encoded, Encoding, Inv, Planned
  <2>3. tape = kept
    BY <1>1, <2>2 DEF Inv, Timed
  <2>4. kept.pulses \in {0, batch}
    <3>1. CASE pc = "full"
      <4>1. batch = 1 /\ (kept.pulses = taken \/ kept.pulses = 0)
        BY <1>1, <2>2, <3>1 DEF Roomy, Counted
      <4>2. taken \in {0, 1}
        BY <1>1, <2>2, <4>1, Sizes
      <4> QED  BY <4>1, <4>2
    <3>2. CASE taken = batch
      BY <1>1, <2>2, <3>2 DEF Roomy, Counted
    <3> QED  BY <2>1, <3>1, <3>2 DEF Encoded
  <2> QED  BY <2>3, <2>4
<1> QED  BY <1>1, SlewInvariance, PTL

\* A slew of a centidegree or more, at any speed, of any length, with any gear of
\* at least a step for a centidegree and in batches of any size, comes to its
\* target at about the lowest speed, and exceeds the speed it was asked for by a
\* step of the ramp at most (motors_motion_task.c:117-184).
THEOREM SlewsArriveSlowly == Spec => []ArrivesSlowly
<1>1. ASSUME Inv, Roomy, OnRamp PROVE ArrivesSlowly
  <2>1. SUFFICES ASSUME Measured(order)
                 PROVE  /\ speed >= MinSlew
                        /\ Slope(order) * (speed - Cap(order)) <= Gain
                        /\ pc # "ready" /\ done = order.distance => Near(speed, MinSlew)
    BY DEF ArrivesSlowly, Measured
  <2>2. Motion(order) /\ speed >= MinSlew
    BY <1>1 DEF Inv, Shape
  <2>3. /\ Progress \in Nat /\ Progress <= order.distance
        /\ pc # "ready" /\ done = order.distance => Progress = order.distance
    BY <1>1, <2>1, ProgressInRange
  <2>4. speed = SpeedAfter(order, Progress)
    BY <1>1, <2>1 DEF OnRamp
  <2>5. /\ Slope(order) * (speed - Cap(order)) <= Cap(order) - MinSlew
        /\ Progress = order.distance => Close(order, speed, MinSlew)
    BY <2>1, <2>2, <2>3, <2>4, SpeedsOfSlew
  <2> QED  BY <2>2, <2>3, <2>5 DEF Close, Near, Gain
<1> QED  BY <1>1, SlewInvariance, PTL

\* The speed of a slew changes little by little from each step to the next: in a
\* batch, from one batch to the next, and where a slew follows another.
THEOREM SlewsAreSmooth == Spec => SmoothRamp
<1>1. ASSUME Inv, Roomy, OnRamp, [Next]_vars, Measured(order), order' = order
      PROVE  Near(speed, speed') /\ Near(speed', speed)
  <2>1. Measured(order) /\ Motion(order) /\ speed \in Nat
    BY <1>1 DEF Measured, Inv, Shape
  <2>2. Progress \in Nat /\ Progress <= order.distance /\ speed = SpeedAfter(order, Progress)
    BY <1>1, <2>1, ProgressInRange DEF OnRamp
  <2>3. SUFFICES Close(order, speed, speed') /\ Close(order, speed', speed)
    BY DEF Close, Near, Gain
  <2>4. CASE speed' = speed
    BY <2>1, <2>4, CloseToItself
  <2>5. CASE Encode
    <3>1. Progress < order.distance /\ speed' = SpeedAfter(order, Progress + 1)
      BY <1>1, <2>1, <2>5, EncodeOnRamp
    <3> QED  BY <2>1, <2>2, <3>1, SpeedsOfSlew
  <2>6. ASSUME NEW o \in Orders, Begin(o) PROVE Close(order, speed, speed') /\ Close(order, speed', speed)
    <3>1. pc = "ready" /\ speed' = MinSlew
      BY <2>6 DEF Begin
    <3>2. Progress = order.distance
      BY <1>1, <2>1, <3>1 DEF OnRamp
    <3> QED  BY <2>1, <2>2, <3>1, <3>2, SpeedsOfSlew
  <2>7. Size \/ Submit \/ Recalculate \/ Complete \/ Finish \/ UNCHANGED vars => speed' = speed
    BY <1>1, LoopOnRamp DEF vars, encoder
  <2> QED  BY <1>1, <2>4, <2>5, <2>6, <2>7 DEF Next
<1>2. Inv /\ Roomy /\ OnRamp /\ [Next]_vars
        => (Measured(order) /\ order' = order
              => Near(speed, speed') /\ Near(speed', speed))
  BY <1>1
<1>3. Inv /\ Roomy /\ OnRamp /\ [Next]_vars
        => [Measured(order) /\ order' = order
              => Near(speed, speed') /\ Near(speed', speed)]_vars
  BY <1>2
<1> QED  BY <1>3, SlewInvariance, PTL DEF Spec, SmoothRamp
=============================================================================
