\* The constants of the code, with 2.5 steps for a centidegree instead of 107.
CONSTANTS
  DurationMax = 32767
  PulseTicks = 12
  MinLowTicks = 4
  MaxPeriod = 20000000
  BatchTarget = 320000
  BatchMaxSteps = 100
  BufferSymbols = 256
  StepsPerTurn = 90000
  StepTicks = 18750
  MinSlew = 80
  ShortSlew = 200
  GentleSlew = 800
  AccelDist = 500
  DecelDist = 500
  Orders <- MCOrders
SPECIFICATION Spec
INVARIANTS TypeOK StepsTimed CountedIsEncoded ArrivesSlowly
PROPERTY SmoothRamp
