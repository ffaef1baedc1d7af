CONSTANTS
  Log <- Mixed
  GracePeriod = 2
  ShutdownTimeout = 3
  MaxSignals = 1
  MaxTrouble = 0
  MaxFailedCalls = 0
SPECIFICATION Spec
INVARIANTS FailuresAreDeadLettered
