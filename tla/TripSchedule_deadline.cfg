\* A destination deadline before the preferred hotel arrival.
SPECIFICATION ScheduleSpec
CONSTANTS
  Policies <- MCPolicies
  Departures = {18}
  Routes <- MCRoutes
  Visits = {}
  MaxVisits = 0
  MaxNights = 1
INVARIANTS ScheduledByDeadline
CHECK_DEADLOCK FALSE
