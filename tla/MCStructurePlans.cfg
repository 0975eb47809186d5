SPECIFICATION Spec
CONSTANTS
  Names = {"Pool", "Final"}
  NewName = "Pool"
  Entrants = {"e"}
  None = None
  MaxMoves = 3
INVARIANTS PlansAreValid
PROPERTIES AppliedAsDrawn AppliedToWhatItSaw
CHECK_DEADLOCK FALSE
