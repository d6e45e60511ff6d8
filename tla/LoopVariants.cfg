\* Both variants, with room for repeats, for a budget spent, and for steps
\* that outlast it.
SPECIFICATION FairSpec
CONSTANTS
  breakup = breakup
  net = net
  fees = fees
  bank = bank
  Tools <- FourTools
  FirstOpener = breakup
  SecondOpener = net
  maxToolCalls = 4
  maxSteps = 6
  identicalToolCallLimit = 1
INVARIANT
  LateEndsSoon
PROPERTIES
  IsBounded
  LoopEnds
\* An investigation that has come to its result stops.
CHECK_DEADLOCK FALSE
