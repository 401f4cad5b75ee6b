SPECIFICATION Spec
CONSTANTS
  Studies = {s1}
  Cases = {1}
  Pipeline = {}
  Workers = {w1, w2, w3}
  Starters = {r1}
  HaltLimit = 1
  Faults = {}
  Null = Null
INVARIANTS OneStudyExecutes
CHECK_DEADLOCK FALSE
