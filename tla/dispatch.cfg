SPECIFICATION Spec
CONSTANTS
  c1 = c1
  c2 = c2
  Calls = {c1, c2}
  Requests <- MCRequests
  Disks <- MCDisks
  SearchPaths <- MCSearchPaths
  Unloaded = Unloaded
  NoRequest = NoRequest
CHECK_DEADLOCK FALSE
SYMMETRY MCSymmetry
INVARIANTS
  AllGatesBeforeAnyRun
  RunsTheBinaryFirstFound
  SameRequestSameVerdict
  ListedIsKnown
  CatalogAllOrNothing
  IInv
