CONSTANTS
  None = None
  Documents <- MCDocuments
SPECIFICATION Spec
INVARIANT DriftAnnounced
