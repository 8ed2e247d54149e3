SPECIFICATION FairSpec
CONSTANTS
  u = u
  Users <- MCUsers
  Projects <- MCProjects
  Owner <- MCOwner
  Models <- MCModels
  Calls <- MCCalls
  SlotsPerHour = 2
  HoursPerDay = 2
  Ranges <- MCRanges
  RangeSlots <- MCRangeSlots
  SeriesRanges <- MCSeriesRanges
  SeriesDays <- MCSeriesDays
  WindowSeconds = 700
  SlotSeconds = 600
  Buckets = 3
  MaxDisplay = 2
  TopN = 1
  BatchSize = 2
  ClaimLimit = 1
  ClearLimit = 1
  RefreshLimit = 2
  Start = 3
  MaxNow = 4
  MaxFaults = 1
INVARIANTS
  SeriesCountCalls
  SnapshotsAreCurrent
PROPERTIES
  SummariesAge
CHECK_DEADLOCK FALSE
