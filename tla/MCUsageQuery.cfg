SPECIFICATION Spec
CONSTANTS
  Kinds <- MCKinds
  RETENTION_DAYS = 2
  DEFAULT_WINDOW_DAYS = 2
  Periods <- MCPeriods
  Dates <- MCDates
  Horizon <- MCHorizon
  BusyDays <- MCBusyDays
  MaxServed = 3
INVARIANTS AnswersMatchServed PercentilesInBucket
PROPERTY CalendarSteps
CHECK_DEADLOCK FALSE
