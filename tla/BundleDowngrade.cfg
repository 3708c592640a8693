CONSTANTS
  b1 = b1
  b2 = b2
  b3 = b3
  x = x
  None = None
  BadSig = BadSig
  Poller = Poller
  SigLoop = SigLoop
  Admin = Admin
  Admin2 = Admin2
  Version <- MCVersion
  Shipped = b1
  Workers = {Admin, Admin2}
  Bundles = {b1, b2, b3}
  Signed = {b1, b2, b3}
  Loadable = {b1, b2, b3}
  Offered = {b2, b3}
  Forgeries = {}
  Pushed = {}
  Rollback = FALSE
  Flush = FALSE
  MaxFaults = 0
  MaxCrashes = 0
SPECIFICATION Spec
PROPERTY VersionMonotone
