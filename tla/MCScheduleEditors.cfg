SPECIFICATION FairSpec
CONSTANTS
    m1 = m1  m2 = m2  s1 = s1  s2 = s2
    a = a  b = b  r1 = r1  r2 = r2
    Matches = {m1, m2}  NoMatch = NoMatch
    Schedules = {s1, s2}  NoSchedule = NoSchedule
    Players = {a, b}  NoPlayer = NoPlayer
    Requests = {r1, r2}  Server = Server  NoProc = NoProc
    Role <- TwoEditors
    Board0 <- TwoBoards
    Match0 <- PlayedByTwo
    Required <- TwoEach
    Feeders <- Unfed
    MaxCrashes = 0
PROPERTIES EveryoneIsAnswered
