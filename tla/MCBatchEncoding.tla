--------------------------- MODULE MCBatchEncoding ---------------------------
(***************************************************************************)
(* An instance of BatchEncoding for TLC, with the constants of the code.   *)
(* The distances and the periods lie around the thresholds.  BatchEncoding *)
(* _batches has a gear of 2.5 steps for a centidegree.                     *)
(***************************************************************************)
EXTENDS BatchEncoding

SlewOf(d, v) == [move |-> FALSE, distance |-> d, speed |-> v, ticks |-> 0]
MoveOf(d, p) == [move |-> TRUE, distance |-> d, speed |-> MinSlew, ticks |-> p]

Longest == PulseTicks + DurationMax + 2 * DurationMax * (BufferSymbols - 1)
AroundSymbols ==
  {PulseTicks + n * DurationMax + r : n \in {1, 2, 3, 4, 5}, r \in {0, 1}}

\* The fewest steps that make up n centidegrees; one step fewer makes up n - 1.
StepsFor(n) == (n * StepsPerTurn + 35999) \div 36000
AroundThresholds ==
  UNION {{StepsFor(n), StepsFor(n + 1) - 1} : n \in {0, 1, 199, 200, 799, 800, 999, 1000, 1001}}
    \cup {StepsFor(1200)}

MCOrders ==
  {SlewOf(d, v) : d \in AroundThresholds, v \in {100, 300, 450, 600}}
    \cup {MoveOf(25, p) : p \in AroundSymbols \cup {BatchTarget - 1, BatchTarget}}
    \cup {MoveOf(300, p) : p \in {1, MinPeriod, BatchTarget \div BatchMaxSteps}}
    \cup {MoveOf(2, p) : p \in {Longest, Longest + 1}}
=============================================================================
