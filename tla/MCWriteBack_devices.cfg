SPECIFICATION WriteSpec
CONSTANTS
  stats = stats
  devices = devices
  sli = sli
  listed = listed
  None = None
  EmptyPrefix = EmptyPrefix
  Key = {stats, devices}
  Prefix = {listed}
  Match <- WriteMatch
  Opt <- WriteOpt
  ProblemKey <- ProblemKeys
  WritePrefix = listed
  WriteHoldMs = 2
  ApplyDelay = {0}
  Caller = {c1, c2}
  Flight = {f1, f2}
  Size = {1}
  MaxEntries = 2
  MaxBytes = 4
  MaxPinnedBytes = 2
  HoldTtl = 1
  HoldMs = {2}
  MaxTime = 3
  MaxEpoch = 1
SYMMETRY Symmetric
INVARIANTS
  ProblemKeysShowWrite
CHECK_DEADLOCK FALSE
