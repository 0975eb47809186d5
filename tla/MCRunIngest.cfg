SPECIFICATION TurnSpec
CONSTANTS
    a = a  b = b  g = g  s1 = s1  s2 = s2  h1 = h1  h2 = h2
    q1 = q1  q2 = q2  noOne = noOne  None = noOne
    Players = {a, b, g}  Roster <- Both
    Submissions = {s1, s2}  RunsOf <- Crossing
    Matches = {1, 2}  Entrants <- TwoMatches
    Requests = {h1, h2}  Scorers = {q1, q2}
    AtOnce = 2  MaxCrashes = 1
INVARIANTS ResultsInTurn
PROPERTIES StandingsStayInTurn CountsOnce EveryReportIsAnswered
