SPECIFICATION Spec
CONSTANTS
  Parts <- AllParts
  SqliteInputs <- Rebuilt
INVARIANTS
  AppliedMatchesDesired
  RerunFindsTheRest
  OnlyKnownRefused
  UnchangedStays
  ScriptMatchesApply
  ChangeIsSeen
PROPERTIES
  RebuildKeepsValues
  RebuildIsAtomic
