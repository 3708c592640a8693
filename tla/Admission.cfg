CONSTANTS
  Pieces <- MCPieces
  MaxPieces = 4
  PathChars = {"/", "a", ".", "b"}
  MaxPath = 5
  BrokerIDs = {"k1", "k2"}
  Templates <- MCTemplates
  TextLines = {"x", "y"}
  MaxLines = 5
  Ctx = 1
  MaxPart = 2
  Days = {1, 9, 10, 31}
  Tags <- MCTags
  Serials = {1, 2, 3}
  Conns = {c1, c2}
  Config <- MCConfig
  Edits <- MCEdits
  Requests <- Rotations
  v1 = v1
  v2 = v2
  v3 = v3
  bad = bad
  NoBinary = NoBinary
  Binaries = {v1, v2, v3, bad}
  Signed = {v1, v2, v3}
  Shipped = v1
  Uploads = {u1, u2}
  MaxBinFaults = 2
  MaxCrashes = 1
  Names = {n1}
  Contents = {c1, c2}
  Savers = {s1, s2}
  Publishers = {p1, p2}
  Empty = Empty
  Mixed = Mixed
  None = None
  MaxFaults = 2
SPECIFICATION AdmissionSpec
INVARIANTS
  TemplatesMeanInstances
  LookupIsTheBundle
  GatesOrderVersions
  DiffIsFaithful
  ValidatedStarts
  FailuresLabelled
  KeptNeverRefused
  ServedWasListed
  OnlySigned
  PreviousIsPrior
  ActiveSurvives
  NoTornBroker
  PairPushed
PROPERTIES LockoutNeedsRestart SnapshotIsLive
SYMMETRY Sym
CHECK_DEADLOCK FALSE
