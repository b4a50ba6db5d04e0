SPECIFICATION FairSpec
CONSTANTS
  report = report
  p1 = p1
  p2 = p2
  a = a
  b = b
  x = x
  y = y
  None = None
  EmptyPrefix = EmptyPrefix
  Key <- FreshKeys
  Prefix <- FreshPrefixes
  Match <- FreshMatch
  Opt <- FreshOpt
  Caller = {c1, c2}
  Flight = {f1, f2}
  Size = {1}
  MaxEntries = 2
  MaxBytes = 4
  MaxPinnedBytes = 2
  HoldTtl = 1
  HoldMs = {0, 1, 2}
  MaxTime = 3
  MaxEpoch = 2
INVARIANTS
  StoreIsCurrent
  ReadYourWrites
  OneLiveFetch
  LeashHonoured
  OneRefreshPerWindow
PROPERTIES
  CallsAnswered
CHECK_DEADLOCK FALSE
