CONSTANTS
  None = None
  Nodes <- MCNodes
  Active = 1
  Candidates <- MCCandidates
  Known = {"A", "C"}
  Domains <- MCDomains
  Providers = 2
  Ports = 2
  Cap = 1
  ProviderCap = 1
  Forwarding <- MCForwarding
  Documents <- MCDocuments
  World <- MCWorld
  Verbs = {"doctor", "doctor_nodes", "test_latency", "diagnose", "network_report"}
SPECIFICATION FairSpec
INVARIANTS TypeOK VerdictsExact NoRepeatedRemedy
PROPERTY VerbAnswers
