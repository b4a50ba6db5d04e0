SPECIFICATION PartSpec
CONSTANTS
  Account = {"ann", "bob", "eve"}
  Attempt = {a1, a2}
  LockAfter = 2
  LockBase = 1
  LockMax = 1
  FailTtl = 2
  FailKeys = 2
  MaxTried = 4
  MaxSignInTime = 2
  Call = {c1, c2}
  Caller = {"ann", "bob"}
  PerMinute = 2
  WindowMs = 2
  WindowKeys = 1
  PerUser = 2
  Total = 3
  Places = 1
  MaxCost = 2
  DayLength = 2
  MaxTakes = 5
  MaxAiTime = 2
  Question = {q1, q2}
  MaxProblems = 2
  MaxHosts = 2
  ReadyTtl = 15
  ReadyStale = 60
  ReadyTimeout = 2
  ZbxLimit = 10
  Asked = {k1, k2}
  Rival = someone
  Native = TRUE
  MaxPieces = 2
  Problem = {1, 2, 3, 4}
  LiveRows = 2
  HighlightMs = 1
  Row = {p1, p2}
  WaitTicks = 2
  MaxSends = 2
  Param = {kq, ks}
  Typed = {kq}
  Setting = {va, vb}
  Hurried = FALSE
  Spans <- SpanList
  EventsKept = 3
  MaxSeconds = 6
  Lists <- IntervalLists
  Hours <- HourSets
  HourLength = 2
  From = 1
  Until = 6
  MinCoverage = 50
  Clocks <- Seconds6
  MaxPerSecond = 2
  PageLimit = 3
  MinSliceSeconds = 2
  MaxItems = 4
  RowLimits = {2, 3, 4, 6}
  MinItems = 2
  Mark = 2
  DaySeconds = 3
  WeekDays = 2
  MonthDays = 5
  Months = 2
  Offset = 1
  Periods <- PeriodSet
  Bounds <- BoundsSet
  Ranges <- RangeSet
  Trigger = {t1, t2}
  OnHost = {h1, h2}
  Placings <- PlacingSet
  Histories <- HistorySet
  WindowStart = 4
  CutAt = 6
  ReportTime = 8
  LookBack = 2
  Lookups = 1
  NotMeasured <- NotMeasuredList
  Chronic = 3
  Kinds <- GraphKinds
  RowSpan = 4
  LongRange = 8
  FillWindow = 12
  Clock = 24
  HostIds = {1, 2, 3}
  HostKinds <- HostKindSet
  SeverityLists <- SeveritySet
  Checks = {{}, {w1}}
  Shown = 2
INVARIANTS
  GuessesSpaced
  FailuresRemembered
  BudgetHolds
  MinuteHolds
  SnapshotCurrent
  HealthBounded
  AnswerWhole
  ChatForgotten
  PageIsItsAddress
  ReplayExact
  FiguresExact
  ReadOnce
  WindowsExact
  ReportsExact
  GraphFaithful
  WholeEstateOnce
PROPERTIES
  ClearedWereShown
  MinuteKept
CHECK_DEADLOCK FALSE
