CONSTANTS
  pod1 = pod1
  pod2 = pod2
  p1 = p1
  p2 = p2
  e1 = e1
  e2 = e2
  Pods = {pod1, pod2}
  NoPod = NoPod
  Partitions = {p1, p2}
  EventIds = {e1, e2}
  Log <- MixedLog
  Unstorable = {}
  MaxInFlight = 1
  PartitionsConcurrency = 2
  IdempotencyEnabled = TRUE
  Faults <- FencedFaults
  MaxFaults = 3
SPECIFICATION Spec
INVARIANTS CommittedIsSettled MarkedIsApplied OvercountIsBounded
PROPERTIES MarkedIsNotApplied
SYMMETRY Symmetry
