SPECIFICATION Spec
CONSTANTS
  SearchPath <- Path2
  ExportQualifies = TRUE
  QualifiedTables <- MCQualifiedTables
  UnqualifiedTables <- MCUnqualifiedTables
  ColumnPairs <- MCColumnPairs
  IndexPairs <- MCIndexPairs
  ObjectPairs <- MCObjectPairs
  AlteredPairs <- MCAlteredPairs
  PrivilegePairs <- MCPrivilegePairs
  PartitionPairs <- MCPartitionPairs
  Rank <- NameRank
  Plans <- MCPlans
INVARIANTS
  AppliedMatchesDesired
  SecondRunIsEmpty
  DataFollowsRenames
  NothingLostWithoutDrop
  SharedIsKept
  OnlyReplacementsRefused
  SkippedAreReported
