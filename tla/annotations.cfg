SPECIFICATION Spec
CONSTANTS
  Dialects <- AllDialects
  Names <- TwoNames
  Texts <- TextsOfDialects
INVARIANTS MarksAreWhereWritten OnlyCommentsChange
CHECK_DEADLOCK FALSE
