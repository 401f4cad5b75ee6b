SPECIFICATION FairSpec
CONSTANTS
  a1 = a1
  a2 = a2
  a3 = a3
  b1 = b1
  A = A
  B = B
  Calls <- MCCalls
  Runs = {A, B}
  RunOf <- MCRunOf
  Threaded <- MCThreaded
  RunLimit = 2
  ProcessLimit = 2
  Threads = 1
  Interrupts = TRUE
INVARIANTS OnlyDroppedCallsLose ClosedRunsAreQuiet
PROPERTIES CallsAndRunsEnd
CHECK_DEADLOCK FALSE
