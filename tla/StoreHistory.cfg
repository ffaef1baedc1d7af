CONSTANTS
  Events <- AllEvents
  StrictStore = FALSE
  MaxUpserts = 4
SPECIFICATION Spec
INVARIANTS TypeOK CountersMatchHistory ExtremesMatchHistory LastValuesAreKept FiledUnderIdentity
