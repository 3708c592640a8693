CONSTANTS
  Serials = {1, 2, 3}
  Conns = {c1, c2}
  Config <- MCBefore
  Edits = {}
  Requests <- Promotions
SPECIFICATION AllowlistSpec
INVARIANT ListedNeverRefused
