SPECIFICATION FairSpec
CHECK_DEADLOCK FALSE
CONSTANTS
  Files <- HeadingFiles
  Overlap = 2
  MaxChunk = 10
  Target = 9
  MaxHeading = 2
  MaxName = 6
PROPERTIES
  PreparationEnds
