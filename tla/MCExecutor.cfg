CONSTANTS
  c1 = c1
  c2 = c2
  Caller = {c1, c2}
  Environments <- MCEnvironments
  Called <- MCCalled
  MaxU32 = 100000
  MaxU64 = 100000
  r1 = r1
  r2 = r2
  Task = {r1, r2}
  CacheTtl = 2
  LastSecond = 5
  Readings = 1
  Full = 1
  Day = 2
  FirstBackoff = 1
  MaxBackoff = 60
  Curve <- MCCurve
  Anchors <- MCAnchors
  Band = 1
  Windows <- MCWindows
  Stride = 2
  MaxPoints = 5
  MaxAligned = 4
  Junk = 9
  Outlines <- MCOutlines
  Issued = {0, 1}
  w1 = w1
  w2 = w2
  n1 = n1
  n2 = n2
  Requests <- MCRequests
  NegativeZero = NegativeZero
  NonFinite = NonFinite
  Signer = {w1, w2}
  Challenge = {n1, n2}
  Base = 4
  KeyCells = 1
  I64Cells = 2
  U32Cells = 1
  U16Cells = 1
  Tag <- MCTag
  RecentOffset = 10
  Slots = 2
  Identities <- MCIdentities
  Credentials <- MCCredentials
SPECIFICATION ExecutorSpec
INVARIANTS
  ServingIsPinned
  CostsAreEarned
  StudyPermitsConserved
  RefusalsAlike
  BalanceIsRecent
  RiskIsOfWhatWasRead
  AbandonIsExact
  SignedIsWhatRuns
  AccountsReadBack
PROPERTIES
  CallersAnswered
  ReadersFinish
