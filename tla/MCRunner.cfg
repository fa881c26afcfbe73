SPECIFICATION Spec
CONSTANTS
  Timeout = 600
  MaxRetries = 2
  BaseBackoff = 5
  TaskTimeLimit = 600
  Leads <- SomeLeads
  Durations <- SomeDurations
INVARIANTS
  TypeOK
  LoopInv
  OnlyFirstRunTimesOut
  AllRetriesMade
  ClockInBounds
