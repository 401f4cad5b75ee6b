\* One trip plans while operators stage, switch and recover two generations of the catalog.
SPECIFICATION FairPlanSpec
CONSTANTS
  b1 = b1
  b2 = b2
  c1 = c1
  q1 = q1
  q2 = q2
  Places <- MCPlaces
  Pilot <- MCPilot
  Bases = {b1, b2}
  Children = {c1}
  Parent <- MCParent
  Rows <- MCRows
  Shut <- MCShut
  Updated <- MCUpdated
  Recorded <- MCRecorded
  Entries <- MCEntries
  Omitted = Omitted
  Points = {q1, q2}
  Near <- MCNear
  Tight <- MCTight
  PageSize = 1
  PoolSize = 3
  Changes = 4
  NoGeneration = NoGeneration
  Wanted = 2
  Match <- MCMatch
  Loss = 1
  CandidateCap = 2
  MaxSearches = 2
INVARIANTS WalkComplete RatedInOneRound ReselectionSuffices StopsCurrent
PROPERTIES TripEnds
CHECK_DEADLOCK FALSE
