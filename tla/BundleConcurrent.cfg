CONSTANTS
  b1 = b1
  b2 = b2
  b3 = b3
  x = x
  None = None
  BadSig = BadSig
  Poller = Poller
  SigLoop = SigLoop
  Admin = Admin
  Admin2 = Admin2
  Version <- MCVersion
  Shipped = b1
  Workers = {SigLoop, Admin}
  Bundles = {b1, b2, x}
  Signed = {b1, b2}
  Loadable = {b1, b2}
  Offered = {b2, x}
  Forgeries = {}
  Pushed = {b2}
  Rollback = TRUE
  Flush = FALSE
  MaxFaults = 0
  MaxCrashes = 0
SPECIFICATION Spec
INVARIANT RouterVerified
