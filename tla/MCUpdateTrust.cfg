CONSTANTS
  Checker = {c1, c2}
  Key = {"current", "old", "recovery"}
  Recovery = "recovery"
  Version = {"v1", "v2", "v3"}
  Manifest <- MCManifest
  Faults = {"load", "save"}
  None = None
SPECIFICATION OverlapSpec
INVARIANTS TypeOK RecoveryRetires RetiredKeysStayOut RollbackNeedsRace AnnouncedOnceAlone
