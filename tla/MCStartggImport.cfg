SPECIFICATION Spec
CONSTANTS
  Party <- MCParty
  Events <- MCEvents
  FirstEvents <- MCFirstEvents
  Registered <- MCRegistered
  None = None
  MaxImports = 3
  MaxMoves = 3
INVARIANTS ImportMirrors AgainChangesNothing PreviewIsKept ReportedResultsStand
CHECK_DEADLOCK FALSE
