SPECIFICATION MCSpec
CONSTANTS
    x = x  y = y  d1 = d1  d2 = d2  None = None
    Typed = {"ann", "ANN", "bob"}  Normalized <- Lower  Lists <- Pasted
    Accounts = {x, y}  Username <- Name  Divisions = {d1, d2}
    MaxPlayers = 3  MaxEntrants = 3  MaxCrashes = 1
SYMMETRY Alike
INVARIANTS EditorsAgree EntrantsMirrorParticipants
PROPERTIES TypedOnce
