SPECIFICATION Spec
CONSTANTS
    A = A  B = B  F = F  G = G  P = P  Q = Q  r1 = r1  r2 = r2  None = None
    Matches = {A, B, F, G}  Pools = {P, Q}  PoolOf <- Bracket
    Entrants = {1, 2, 3}  Entered <- TwoAndOne  Seated <- SeatedInP
    RulesAtFirst <- BothWays  RulesToSave <- LoserGoesOn
    Recorded <- RecordedThere  MaxPoints = 1  MaxEdits = 1  Requests = {r1}  Asks <- Everything  MaxCrashes = 1
INVARIANTS SeatsNameTheirRules CommittedIsAdvanced  PoolFollowsItsMatches
PROPERTIES SettledReopenSparesProgress
