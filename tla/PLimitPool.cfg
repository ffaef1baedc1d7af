CONSTANTS
  Concurrency = 3
  MaxTasks = 7
SPECIFICATION FairSpec
INVARIANTS BoundedInFlight NoIdleSlot FirstComeFirstServed
PROPERTIES EveryTaskStarts
