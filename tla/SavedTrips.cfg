\* Two setup pages race for a trip number while a third page edits a stored trip.
SPECIFICATION Spec
CONSTANTS
  Planners = {p, q}
  Viewers = {v}
  Long = {p}
  LastId = 3
  Saves = 2
  Deletes = 1
  Mishaps = 2
  Null = Null
INVARIANTS OneTripPerPlan SavesKept RouteReadsBack
PROPERTIES TripKept
CHECK_DEADLOCK FALSE
