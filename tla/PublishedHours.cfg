\* Pages of every source, imported and visited, and worlds of a few source records, imported and enriched;
\* trips of up to two visits and two nights over a zone border.
SPECIFICATION CatalogSpec
CONSTANTS
  Policies <- MCPolicies
  Departures = {1, 18, 30}
  Routes <- MCRoutes
  Visits <- MCVisits
  MaxVisits = 2
  MaxNights = 2
  Week = 2
  Year = 3
  Horizon = 4
  Pages <- MCPages
  Waiting <- MCWaiting
  Held = Held
  NoPage = NoPage
  NoProof = NoProof
  Month = 4
  Worlds <- MCWorlds
  Days = 6
  Refused = Refused
INVARIANTS ScheduleHolds VisitsWerePossible OpenOnlyAsPublished ArrivalsApart HoursKept RefreshIsAccepted
PROPERTY AdmittedAsPublished
CHECK_DEADLOCK FALSE
