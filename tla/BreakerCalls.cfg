CONSTANTS
  c1 = c1
  c2 = c2
  c3 = c3
  c4 = c4
  n1 = n1
  n2 = n2
  Calls = {c1, c2, c3, c4, c5}
  Guarded = {c1, c2, c3, c4}
  OwnFallback = {c1, c2, c4}
  Names = {n1, n2}
  NameOf <- MCNameOf
  Attempts = 2
SPECIFICATION FairSpec
INVARIANT ForeignFallbackNeedsOverlap
PROPERTY AnsweredAfterOneRequest
CHECK_DEADLOCK FALSE
