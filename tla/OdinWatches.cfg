CONSTANTS
  k1 = k1
  Keys = {k1}
  Initial <- MCInitial
  Writable <- MCInitial
  Alterable <- MCAlterable
  MaxWrites = 2
  MaxAltered = 2
  MaxLosses = 1
  MaxExpiries = 1
SPECIFICATION OdinFairSpec
INVARIANTS OdinTypeOK QuietIsCurrent StartedIsLoaded
PROPERTY ChangesArrive
CHECK_DEADLOCK FALSE
