SPECIFICATION FairSpec
\* A file is prepared once.
CHECK_DEADLOCK FALSE
CONSTANTS
  Files <- AllFiles
  Overlap = 2
  MaxChunk = 10
  Target = 9
  MaxHeading = 2
  MaxName = 6
INVARIANTS
  TypeOK
  AcceptedIsStorable
  BlocksAreNormal
  NothingLost
  PiecesFit
  OverlapBounded
  ChunksBounded
  NothingOmitted
  PartsInOrder
  ProvenanceHolds
PROPERTIES
  SplitAdvances
  FittingDocumentsEnd
