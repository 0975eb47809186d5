SPECIFICATION RankedSpec
CONSTANTS
    Types = {"SingleElimination", "DoubleElimination", "Manual"}
    Sizes = {2, 3, 4, 6, 8}
    MaxEntrants = 33  MaxPlayed <- UpToFourMatches
CHECK_DEADLOCK FALSE
INVARIANTS WellFormed EverybodyGoesOn EqualsMeet BeatenAreBehind
