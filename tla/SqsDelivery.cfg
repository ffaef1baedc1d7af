CONSTANTS
  q1 = q1
  m1 = m1
  Queues = {q1, q2}
  WithDLQ = {q1}
  Messages = {m1}
  Destination <- MCDestination
  MaxReceiveCount = 1
  MaxReceives = 2
  MaxCreates = 2
  MaxFaults = 1
SPECIFICATION FairSpec
INVARIANTS IdleStopsAreFinal SendsWereAdmitted
PROPERTY EveryMessageSettles
