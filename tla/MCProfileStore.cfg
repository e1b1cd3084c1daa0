CONSTANTS
  n1 = n1  n2 = n2  n3 = n3  n4 = n4  s1 = s1  s2 = s2  r1 = r1  r2 = r2
  Profile = {"p"}
  NodeId = {n1, n2, n3}
  SubId = {s1}
  RoutingId = {r1}
  Key = {"a", "b"}
  GName = {"auto"}
  RName = {"default"}
  Url = {"u1", "u2"}
  Core = {"xray"}
  Body <- MCBody
  Interval = {60}
  OldFile <- MCLeftFile
  Faults = {}
  None = None
SPECIFICATION Spec
SYMMETRY MCSymmetry
INVARIANTS TypeOK SelectionsResolve NoOrphans GroupsResolve ErrorOfUrl
PROPERTIES IdentityKept
