CONSTANTS
  h1 = h1
  h2 = h2
  a1 = a1
  a2 = a2
  Hosts = {h1, h2}
  Addrs = {a1, a2}
  HostSets <- MCHostSetsUp
  Answers <- MCAnswers
  Helper = FALSE
  DnsExempt = FALSE
  MaxSenders = 1
  MaxFaults = 0
SPECIFICATION FairSpec
PROPERTY EgressConverges
