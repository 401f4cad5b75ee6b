SPECIFICATION Spec
CONSTANTS
  Studies = {s1}
  Cases = {1, 2}
  Pipeline = {2}
  Workers = {w1, w2}
  Starters = {r1, r2}
  HaltLimit = 1
  Faults = {"crash","restart","storage","stale","source"}
  Null = Null
INVARIANTS TripPaidAtMostOnce
SYMMETRY Interchangeable
CHECK_DEADLOCK FALSE
