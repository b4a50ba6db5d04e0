SPECIFICATION Spec
CONSTANTS
  report = report
  p1 = p1
  p2 = p2
  a = a
  b = b
  x = x
  y = y
  None = None
  EmptyPrefix = p2
  Key <- CapKeys
  Prefix <- CapPrefixes
  Match <- CapMatch
  Opt <- CapOpt
  Caller = {c1}
  Flight = {f1}
  Size = {1, 2, 3, 5}
  MaxEntries = 3
  MaxBytes = 4
  MaxPinnedBytes = 3
  HoldTtl = 1
  HoldMs = {0}
  MaxTime = 2
  MaxEpoch = 1
INVARIANTS
  WithinBudget
PROPERTIES
  PinsOutlastFloods
CHECK_DEADLOCK FALSE
