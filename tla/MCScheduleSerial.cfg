SPECIFICATION Spec
CONSTANTS
    m1 = m1  m2 = m2  s1 = s1  s2 = s2
    a = a  b = b  r1 = r1  r2 = r2
    Matches = {m1, m2}  NoMatch = NoMatch
    Schedules = {s1}  NoSchedule = NoSchedule
    Players = {a, b}  NoPlayer = NoPlayer
    Requests = {r1}  Server = Server  NoProc = NoProc
    Role <- AllButEntries
    Board0 <- OneBoard
    Match0 <- OneBoardMatches
    Required <- TwoEach
    Feeders <- OneBoardFeeders
    MaxCrashes = 1
INVARIANTS QuietIsSettled OnlyCurrentIsActive ClosedIsStopped
PROPERTIES SkipsNothing
