CONSTANTS
  b1 = b1
  b2 = b2
  b3 = b3
  x = x
  None = None
  BadSig = BadSig
  Poller = Poller
  SigLoop = SigLoop
  Admin = Admin
  Admin2 = Admin2
  Version <- MCVersion
  Shipped = b1
  Workers = {Poller}
  Bundles = {b1, b2, b3}
  Signed = {b1, b2, b3}
  Loadable = {b1, b2, b3}
  Offered = {b2, b3}
  Forgeries = {BadSig}
  Pushed = {}
  Rollback = FALSE
  Flush = TRUE
  MaxFaults = 2
  MaxCrashes = 1
SPECIFICATION FairSpec
INVARIANTS
  TypeOK
  DiskMatchesRouter
  PairSurvives
  SkipsOnlyLive
PROPERTIES VersionMonotone ImplementsService LatestWins
