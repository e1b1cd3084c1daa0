CONSTANTS
  n1 = n1  n2 = n2  n3 = n3  n4 = n4  s1 = s1  s2 = s2  r1 = r1  r2 = r2
  Profile = {"p"}
  NodeId = {n1, n2}
  SubId = {s1, s2}
  RoutingId = {r1}
  Key = {"a"}
  GName = {}
  RName = {"default"}
  Url = {"u1", "u2"}
  Core = {}
  Body <- MCPlainBody
  Interval = {60}
  OldFile <- MCNoOldFile
  Faults = {}
  None = None
SPECIFICATION Spec
SYMMETRY MCSymmetry
INVARIANT UrlsUnique
