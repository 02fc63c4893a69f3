CONSTANTS
  c1 = c1
  c2 = c2
  Callers = {c1, c2}
  MaxCycles = 2
SPECIFICATION FairSpec
INVARIANTS TypeOK NothingForgotten LatchCovers OwnCycle
PROPERTIES StopTakesEffect
