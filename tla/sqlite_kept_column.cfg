SPECIFICATION Spec
CONSTANTS
  Parts = {"sqlite rebuild"}
  SqliteInputs <- OneAltered
INVARIANTS AppliedMatchesDesired
