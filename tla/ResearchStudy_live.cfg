SPECIFICATION FairSpec
CONSTANTS
  Studies = {s1, s2}
  Cases = {1, 2}
  Pipeline = {2}
  Workers = {w1, w2}
  Starters = {r1}
  HaltLimit = 1
  Faults = {"crash", "restart"}
  Null = Null
INVARIANTS OrderlyStartsExecuteOne
PROPERTIES FinishedStaysFinished StudySettles
CHECK_DEADLOCK FALSE
