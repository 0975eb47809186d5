SPECIFICATION Spec
CONSTANTS
    a = a  b = b  c = c  s = s  none = none  None = none
    Players = {a, b, c}  Guests = {}  Songs = {s}
    Scores <- Three  Deciders <- PassOrFail  HandPoints = {0, 1}
    Systems = {"PlacementPointsWithFailZero", "RoundWinner"}
    Rules <- WinnerGoesOn
    MaxRounds = 1  MaxTiebreaks = 2  MaxStale = 1  MaxDrift = 1
SYMMETRY Alike
INVARIANTS LiveTiebreaksStand RoundsAreRanked ReadsAgree FairlyPlaced
PROPERTIES CommitsAreDecided
