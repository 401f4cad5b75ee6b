SPECIFICATION FairSpec
CONSTANTS
  o1 = o1
  o2 = o2
  k1 = k1
  k2 = k2
  Owners = {o1, o2}
  Keys = {k1, k2}
  Ids <- MCIds
  Payloads = {p1}
  Runs = {w1, w2}
  MaxActive = 1
  MaxFinished = 1
  Observed = {"complete"}
  Faults = {"storage", "crash"}
  Null = Null
INVARIANTS ActiveTripsBounded PaidAtMostOnce CompleteWasExecuted OnlyStoppedRunsStayUnfinished
PROPERTIES JobsEnd ImplementsLedger
CHECK_DEADLOCK FALSE
