CONSTANTS
  Artifact = {"v1", "v2"}
  FileName = {"setup"}
  NameOf <- MCSameName
  Client = {"c1"}
  Transfer = {t1, t2, t3}
  t1 = t1  t2 = t2  t3 = t3
  Faults = {"swap", "remove"}
  None = None
SPECIFICATION FairSpec
INVARIANTS TypeOK LiveTempKept StagedIsCurrent StagedOnDisk VerifiedWasHashed
PROPERTIES DownloadSettles ShutdownEnds
