SPECIFICATION LiveSpec
CONSTANTS
  Tab = {t1, t2}
  MaxTokens = 2
  MaxSignedOut = 1
  Request = {r1, r2, r3, r4, r5}
  Limit = 2
  Patient = {r1, r2}
  TryOnly = {r5}
  Source = {s1, s2, s3}
  Selection = {"A", "B"}
  Run = {run1, run2, run3}
INVARIANTS
  SignOutHolds
  SignedOutRefused
  LastAskedShown
PROPERTIES
  SignOutEnds
  TabsFollow
  KeepsGatePromise
  WaitersServed
  Reconnects
  PollsGoOn
CHECK_DEADLOCK FALSE
