CONSTANTS
  Checker = {c1, c2}
  Key = {"current", "recovery"}
  Recovery = "recovery"
  Version = {"v1", "v2", "v3"}
  Manifest <- MCReleases
  Faults = {}
  None = None
SPECIFICATION OverlapSpec
INVARIANT NoRollback
