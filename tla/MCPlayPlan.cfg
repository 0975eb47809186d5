SPECIFICATION FairSpec
CONSTANTS
    x = x  y = y  c1 = c1  c2 = c2  p1 = p1
    Lanes = {x, y}  NoLanes = NoLanes
    ControlRooms = {c1, c2}
    Commands = {p1}
    Savers = {p1}
    MaxCommands = 3
    MaxCrashes = 1
INVARIANTS CacheIsCurrent
PROPERTIES AnswersAreAllowed 
