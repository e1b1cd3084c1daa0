CONSTANTS
  n1 = n1  n2 = n2  n3 = n3  n4 = n4  s1 = s1  s2 = s2  r1 = r1  r2 = r2
  Profile = {"p", "q"}
  NodeId = {n1}
  SubId = {s1}
  RoutingId = {r1, r2}
  Key = {"a"}
  GName = {}
  RName = {"default", "work"}
  Url = {"u1"}
  Core = {}
  Body <- MCPlainBody
  Interval = {60, 86400}
  OldFile <- MCOldFile
  Faults = {"save"}
  None = None
SPECIFICATION Spec
SYMMETRY MCSymmetry
INVARIANT IntervalStays
