CONSTANTS
  Callers = {c1, c2}
  App = App
  Refresher = Refresher
  MaxAttempts = 2
  MaxConnects = 2
  MaxRefreshes = 1
  MaxFaults = 2
SPECIFICATION FairSpec
INVARIANTS LeaksNeedOverlap DisconnectIsFinal ReconnectionIsExclusive UsableUnlessGivenUp
PROPERTY QueriesReturn
