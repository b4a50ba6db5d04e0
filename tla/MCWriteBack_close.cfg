SPECIFICATION WriteSpec
CONSTANTS
  stats = stats
  devices = devices
  sli = sli
  listed = listed
  None = None
  EmptyPrefix = EmptyPrefix
  Key = {stats}
  Prefix = {listed}
  Match <- WriteMatch
  Opt <- WriteOpt
  ProblemKey <- ProblemKeys
  WritePrefix = listed
  WriteHoldMs = 2
  ApplyDelay = {0, 1}
  Caller = {c1, c2}
  Flight = {f1, f2}
  Size = {1}
  MaxEntries = 2
  MaxBytes = 4
  MaxPinnedBytes = 2
  HoldTtl = 1
  HoldMs = {2}
  MaxTime = 4
  MaxEpoch = 1
SYMMETRY Symmetric
INVARIANTS
  CloseShowsAfterHold
CHECK_DEADLOCK FALSE
