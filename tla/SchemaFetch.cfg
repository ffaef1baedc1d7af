CONSTANTS
  Callers = {c1, c2}
  Schemas = {here, late, fixed}
  Hardcoded = {fixed}
  Always = {here}
  Broken = {late}
  Slots = {slot1, slot2}
  NoSlot = NoSlot
  MaxAttempts = 2
  MaxKeys = 1
SPECIFICATION FairSpec
INVARIANTS OneFetchPerSchema OnlyMissingAreCondemned
PROPERTIES CachedIsServed EveryCallerIsAnswered
