CONSTANTS
  Log <- Mixed
  GracePeriod = 2
  ShutdownTimeout = 3
  MaxSignals = 2
  MaxTrouble = 2
  MaxFailedCalls = 2
SPECIFICATION FairSpec
INVARIANTS StoresOutliveConsumer ConsumesOnlyWhenServing LossesHaveACause CleanExitIsDrained UntroubledExitIsClean
PROPERTIES SignalEndsProcess
