CONSTANTS
  h1 = h1
  h2 = h2
  a1 = a1
  a2 = a2
  Hosts = {h1, h2}
  Addrs = {a1, a2}
  HostSets <- MCHostSets
  Answers <- MCAnswers
  Helper = FALSE
  DnsExempt = TRUE
  MaxSenders = 2
  MaxFaults = 2
SPECIFICATION FairSpec
INVARIANTS
  NoLostSwap
  RulesetSound
PROPERTY EgressConverges
