CONSTANTS
  Events <- Identities
  StrictStore = TRUE
  MaxUpserts = 2
SPECIFICATION Spec
INVARIANTS NoDuplicateFields
