CONSTANTS
  Node = {n1, n2}
  Buffer = 2
  Socket = 1
  MaxMoves = 3
  MaxPolls = 2
  None = None
SPECIFICATION Spec
INVARIANT GoneShowsNothing
