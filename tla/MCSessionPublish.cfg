CONSTANTS
  p1 = p1  n1 = n1  n2 = n2  g1 = g1  a = a  b = b  x = x  bad = bad
  Profile = {p1}
  Node = {n1, n2, g1}
  Group = {g1}
  Name = {a, b}
  Body = {x, bad}
  Dialable = {x}
  Stored <- MCStored
  Selects <- MCSelects
  Targets = {{}}
  Mode = {"socks"}
  Client = {c1}
  Faults = {"close"}
  None = None
  SessId = {s1, s2}
  MaxEdits = 0
SPECIFICATION Spec
INVARIANT EveryTransitionPublished
