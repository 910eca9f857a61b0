SPECIFICATION Spec
CONSTANTS
  alice = alice
  bob = bob
  Names = {alice, bob}
  None = None
  Empty = Empty
  Secret = Secret
  Wrong = Wrong
  Refused = Refused
  Streams = {s1, s2}
  Posts = {p1, p2}
  Unknown = Unknown
  Malformed = Malformed
  Requested <- MCRequests
  Deployed <- MCBlocks
CHECK_DEADLOCK FALSE
CONSTRAINT MCBounded
SYMMETRY MCSymmetry
INVARIANTS
  TypeOK
  RecordedAsItsOpener
  RecordedAsItsSender
  TablesAgree
  OwnerIsHeard
  ForeignLooksUnknown
  IInv
  FailsClosed
