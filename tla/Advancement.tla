---------------------------- MODULE Advancement ----------------------------
(***************************************************************************)
(* Committing and reopening match results, and what follows them through   *)
(* the bracket: advancement rules send an entrant from a placement of a    *)
(* match, or of a pool whose matches are all decided, to a match or to a   *)
(* pool.                                                                   *)
(*                                                                         *)
(* A commit and a reopening are chains of reads and saves without a        *)
(* transaction around them: every await is a step here, other requests and *)
(* a restart come between.  A match and a pool are loaded whole, changed   *)
(* in memory and saved whole, so a save writes back everything its copy    *)
(* holds.                                                                  *)
(*                                                                         *)
(* Every match is scored by hand in one round, so nobody has an average    *)
(* percentage and a tie stays a tie.  An entrant stands for its player.    *)
(* The entrants of a match are rows of a join table, which keeps no order: *)
(* the slot of a rule tells outcomes apart and seats nobody.               *)
(***************************************************************************)
EXTENDS Integers, FiniteSets, FiniteSetsExt, Functions

CONSTANTS
    Matches, Pools,
    PoolOf,         \* PoolOf[m]: the phase group of match m
    Entrants,       \* entrant ids, numbers
    Entered,        \* Entered[m]: who is in m before anything is played
    Seated,         \* Seated[p]: who holds a seat in p before
    RulesAtFirst,   \* RulesAtFirst[c]: the advancement rules of c
    RulesToSave,    \* RulesToSave[c]: sets of rules an organiser may save
    Recorded,       \* bound: Recorded[m], those whose points are entered in m
    MaxPoints,      \* bound: points of a standing
    MaxEdits,       \* bound: times rules are saved
    Requests,       \* requests the API handles at once
    Asks,           \* bound: Asks[r], the operations request r may be
    MaxCrashes,     \* bound: restarts of the API
    None

Competitions == Matches \union Pools

\* A rule and the number of the save that made it: saving rules again gives
\* them new ids.
Rule == [from : Competitions, placement : Nat \ {0}, to : Competitions,
         slot : Nat \ {0}, edit : 0..MaxEdits]

\* assertValidAdvancementRules: no source targets itself, no placement twice.
ValidRules(c, set) ==
    /\ set \subseteq Rule
    /\ \A r \in set : r.from = c /\ r.to # c
    /\ \A r, q \in set : r.placement = q.placement => r = q

ASSUME AdvancementAssumption ==
    /\ Matches \cap Pools = {}
    /\ PoolOf \in [Matches -> Pools]
    /\ Entrants \subseteq Nat
    /\ Entered \in [Matches -> SUBSET Entrants]
    /\ Seated \in [Pools -> SUBSET Entrants]
    /\ Recorded \in [Matches -> SUBSET Entrants]
    /\ MaxPoints \in Nat /\ MaxEdits \in Nat /\ MaxCrashes \in Nat
    /\ RulesAtFirst \in [Competitions -> SUBSET Rule]
    /\ \A c \in Competitions :
        /\ ValidRules(c, RulesAtFirst[c])
        /\ \A set \in RulesToSave[c] : ValidRules(c, set)
    /\ None \notin Entrants \union Competitions \union Rule

VARIABLES
    row,        \* row[m]: the match with its entrants, standings and result
    pool,       \* pool[p]: the phase group with its seats
    rules,      \* rules[c]: the advancement_rule rows of source c
    at,         \* at[r]: the step request r is about to take
    job,        \* job[r]: what it holds
    unsettled,  \* history: sources whose advancement was cut short, or whose
                \* rules were saved after they were applied
    edits, crashes

vars == <<row, pool, rules, at, job, unsettled, edits, crashes>>

Points == [Entrants -> 0..MaxPoints]

\* playerPoints: whom the result ranks, and their points.
Result == [who : SUBSET Entrants, points : Points]

ASSUME ResultAssumption == None \notin Result

ASSUME EntrantsAssumption == IsFiniteSet(Entrants)

States == {"open", "partial", "tiebreak_required", "ready", "completed"}

\* A standing without points and no standing are both 0 points.
Match == [entrants : SUBSET Entrants, points : Points,
          result : Result \union {None}, state : States]

Seat == [status : {"none", "active", "advanced"}, rule : Rule \union {None}]

NoSeat == [status |-> "none", rule |-> None]

Pool == [seats : [Entrants -> Seat], state : {"pending", "active", "completed"}]

\* A match as MatchStore loads it: with its own rules.
Aggregate == [match : Match, rules : SUBSET Rule]

Move == [who : Entrants, rule : Rule]

Steps == {"idle", "guard", "reload", "rules", "target", "write",
          "save", "create", "refresh", "stamp"}

NoMatchHeld == [match |-> [entrants |-> {}, points |-> [e \in Entrants |-> 0],
                           result |-> None, state |-> "open"], rules |-> {}]
NoPoolHeld == [seats |-> [e \in Entrants |-> NoSeat], state |-> "pending"]

\* op and on: the operation and its source; mine: the match it is about; way:
\* whether it places or removes; level: whose rules it follows; games and
\* group: the pool of the match as loaded; todo: moves not written yet; moves:
\* those being written to target, of which held or seats is the copy.
Job == [op : {"none", "commit", "reopen", "score", "rules"},
        on : Competitions \union {None},
        mine : Aggregate, way : {"place", "remove"}, level : {"match", "pool"},
        games : [Matches -> Match], group : Pool,
        todo : SUBSET Move, moved : SUBSET Entrants,
        moves : SUBSET Move, target : Competitions \union {None},
        held : Aggregate, seats : Pool, save : SUBSET Rule]

Blank == [op |-> "none", on |-> None, mine |-> NoMatchHeld, way |-> "place",
          level |-> "match", games |-> [m \in Matches |-> NoMatchHeld.match],
          group |-> NoPoolHeld, todo |-> {}, moved |-> {}, moves |-> {},
          target |-> None, held |-> NoMatchHeld, seats |-> NoPoolHeld, save |-> {}]

-----------------------------------------------------------------------------
(* A match in memory.                                                      *)

Ranked(points, e, f) ==
    \/ points[e] > points[f]
    \/ points[e] = points[f] /\ e < f

\* The position of a standing among those of the match, best first.
Position(match, e) ==
    1 + Cardinality({f \in match.entrants : Ranked(match.points, f, e)})

\* Where the rules send a placement.
Outcome(set, place) == {<<r.to, r.slot>> : r \in {q \in set : q.placement = place}}

\* hasEvidence: any standing counts, also of somebody who is not in the match.
Scored(match) == \E e \in Entrants : match.points[e] > 0

\* calculatePoints.
Settled(match) == match.entrants # {} /\ Scored(match)

\* separatesOutcomes: two places that a tied group takes lead elsewhere.
Tied(a) ==
    \E e, f \in a.match.entrants :
        /\ a.match.points[e] = a.match.points[f]
        /\ Outcome(a.rules, Position(a.match, e)) # Outcome(a.rules, Position(a.match, f))

StateOf(a) ==
    IF a.match.result # None THEN "completed"
    ELSE IF ~Scored(a.match) THEN "open"
    ELSE IF ~Settled(a.match) THEN "partial"
    ELSE IF Tied(a) THEN "tiebreak_required" ELSE "ready"

\* MatchStore.save computes the state column.
Saved(a) == [a.match EXCEPT !.state = StateOf(a)]

Committable(a) == Settled(a.match) /\ ~Tied(a)

Committed(a) ==
    [a EXCEPT !.match.result =
        [who |-> a.match.entrants,
         points |-> [e \in Entrants |->
            IF e \in a.match.entrants THEN a.match.points[e] ELSE 0]]]

Reopened(a) == [a EXCEPT !.match.result = None]

\* resettle: only standings of those who are in the match are kept.
Resettled(match) ==
    [match EXCEPT !.points =
        [e \in Entrants |-> IF e \in match.entrants THEN @[e] ELSE 0]]

PlaceEntrant(match, e) == Resettled([match EXCEPT !.entrants = @ \union {e}])

RemoveEntrant(match, e) == Resettled([match EXCEPT !.entrants = @ \ {e}])

-----------------------------------------------------------------------------
(* Who is placed where.                                                    *)

\* entrantsByPlacement: those the result ranks, then the others, in the order
\* in which the database returned them.
Placements(match) ==
    LET known == match.entrants \cap match.result.who
        others == match.entrants \ known
    IN  {[e \in match.entrants |->
            IF e \in known
            THEN 1 + Cardinality({f \in known : Ranked(match.result.points, f, e)})
            ELSE Cardinality(known) + order[e]] :
         order \in Bijection(others, 1..Cardinality(others))}

MatchesOf(p) == {m \in Matches : PoolOf[m] = p}

Earned(match, e) ==
    IF match.result # None /\ e \in match.result.who /\ e \in match.entrants
    THEN match.result.points[e] ELSE 0

\* poolTotals.
Total(games, p, e) == MapThenSumSet(LAMBDA m : Earned(games[m], e), MatchesOf(p))

InPool(games, p) == UNION {games[m].entrants : m \in MatchesOf(p)}

AheadInPool(games, p, f, e) ==
    LET t == Total(games, p, f)  u == Total(games, p, e)
    IN  t > u \/ (t = u /\ f < e)

PlaceInPool(games, p, e) ==
    1 + Cardinality({f \in InPool(games, p) : AheadInPool(games, p, f, e)})

\* Mutant: the pool is decided by its first result.
DecidedByOne(games, p) == \E m \in MatchesOf(p) : games[m].result # None

Decided(games, p) ==
    MatchesOf(p) # {} /\ \A m \in MatchesOf(p) : games[m].result # None

\* Mutant: placements are counted from zero.
MatchMovesFromZero(set, place) ==
    {v \in [who : DOMAIN place, rule : set] : place[v.who] = v.rule.placement + 1}

MatchMoves(set, place) ==
    {v \in [who : DOMAIN place, rule : set] : place[v.who] = v.rule.placement}

PoolMoves(set, games, p) ==
    {v \in [who : InPool(games, p), rule : set] :
        PlaceInPool(games, p, v.who) = v.rule.placement}

-----------------------------------------------------------------------------
(* A pool in memory.                                                       *)

SeatsPlaced(p, moves) ==
    [p EXCEPT !.seats = [e \in Entrants |->
        IF \E v \in moves : v.who = e
        THEN [status |-> "active", rule |-> (CHOOSE v \in moves : v.who = e).rule]
        ELSE @[e]]]

\* Mutant: who is released keeps the rule.
SeatsReleasedKeepingRule(p, moves) ==
    [p EXCEPT !.seats = [e \in Entrants |->
        IF \E v \in moves : v.who = e THEN [@[e] EXCEPT !.status = "none"] ELSE @[e]]]

SeatsReleased(p, moves) ==
    [p EXCEPT !.seats = [e \in Entrants |->
        IF \E v \in moves : v.who = e THEN NoSeat ELSE @[e]]]

\* markAdvanced, then complete() or reopen().
Marked(p, who, state) ==
    [seats |-> [e \in Entrants |->
        IF p.seats[e].status = "none" THEN NoSeat
        ELSE [p.seats[e] EXCEPT !.status = IF e \in who THEN "advanced" ELSE "active"]],
     state |-> state]

-----------------------------------------------------------------------------
(* Steps of a request.                                                     *)

Busy == {r \in Requests : at[r] # "idle"}

Go(r, step) == at' = [at EXCEPT ![r] = step]

Load(m) == [match |-> row[m], rules |-> rules[m]]

Put(r, j) == job' = [job EXCEPT ![r] = j]

End(r) == Go(r, "idle") /\ Put(r, Blank)

\* The sources whose advancement the request has in its hands.
AtStake(r) ==
    IF job[r].on \in Matches /\ job[r].op \in {"commit", "reopen"}
    THEN {job[r].on, PoolOf[job[r].on]}
    ELSE {job[r].on} \cap Competitions

\* It throws half-way.
Fail(r) ==
    /\ End(r)
    /\ unsettled' = unsettled \union AtStake(r)

\* commitResult loads the match.  A completed one is reverted first.
Commit(r, m) ==
    LET mine == Load(m) IN
    /\ at[r] = "idle"
    /\ Put(r, [Blank EXCEPT !.op = "commit", !.on = m, !.mine = mine, !.way = "remove"])
    /\ Go(r, IF mine.match.result # None THEN "rules" ELSE "save")
    /\ UNCHANGED <<row, pool, rules, unsettled, edits, crashes>>

\* reopenResult: the guard, a second load, the revert, the save.
Reopen(r, m) ==
    /\ at[r] = "idle"
    /\ Put(r, [Blank EXCEPT !.op = "reopen", !.on = m, !.mine = Load(m), !.way = "remove"])
    /\ Go(r, IF row[m].result # None THEN "guard" ELSE "reload")
    /\ UNCHANGED <<row, pool, rules, unsettled, edits, crashes>>

\* Mutant: what the pool of the match sent on is forgotten.
ImpactsOfMatch(c, place, p) == MatchMoves(rules[c], place)

\* assertMatchCanReopen reads what the rollback would touch.
Impacts(c, place, p) ==
    MatchMoves(rules[c], place) \union
        IF pool[p].state = "completed" THEN PoolMoves(rules[p], row, p) ELSE {}

BlockedByMatch(moves) ==
    \E v \in moves :
        /\ v.rule.to \in Matches
        /\ row[v.rule.to].state # "open"
        /\ v.who \in row[v.rule.to].entrants

BlockedByPool(moves) ==
    \E q \in {v.rule.to : v \in moves} \cap Pools :
        /\ \E e \in Entrants : pool[q].seats[e].rule \in {v.rule : v \in moves}
        /\ \E m \in MatchesOf(q) : row[m].state # "open"

Guard(r) ==
    LET m == job[r].on IN
    /\ at[r] = "guard"
    /\ \E place \in Placements(job[r].mine.match) :
        LET impacts == Impacts(m, place, PoolOf[m]) IN
        IF BlockedByMatch(impacts) \/ BlockedByPool(impacts)
        THEN End(r) ELSE Go(r, "reload") /\ UNCHANGED job
    /\ UNCHANGED <<row, pool, rules, unsettled, edits, crashes>>

Reload(r) ==
    LET m == job[r].on IN
    /\ at[r] = "reload"
    /\ Put(r, [job[r] EXCEPT !.mine = Load(m)])
    /\ Go(r, IF row[m].result # None THEN "rules" ELSE "save")
    /\ UNCHANGED <<row, pool, rules, unsettled, edits, crashes>>

\* applyRules reads the rules of the match, or of its pool.
ReadRules(r) ==
    LET j == job[r]
        Follow(moves) ==
            /\ Put(r, [j EXCEPT !.todo = moves, !.moved = {v.who : v \in moves}])
            /\ Go(r, "target")
    IN
    /\ at[r] = "rules"
    /\ \/ /\ j.level = "match"
          /\ \E place \in Placements(j.mine.match) : Follow(MatchMoves(rules[j.on], place))
       \/ /\ j.level = "pool"
          /\ Follow(PoolMoves(rules[PoolOf[j.on]], j.games, PoolOf[j.on]))
    /\ UNCHANGED <<row, pool, rules, unsettled, edits, crashes>>

ToMatches(moves) == {v \in moves : v.rule.to \in Matches}

First(moves) ==
    CHOOSE v \in moves : \A w \in moves : v.rule.placement <= w.rule.placement

\* The matches in the order of their rules, then each pool once.
Due(moves) ==
    IF ToMatches(moves) # {} THEN {First(ToMatches(moves))}
    ELSE {v \in moves : v.rule.to = First(moves).rule.to}

\* Mutant: nobody is ever taken back out of a match.
NothingEverToRemove(way, match, moves) == way = "remove"

\* removeEntrant finds nobody: nothing is saved.
NothingToRemove(way, match, moves) ==
    way = "remove" /\ \A v \in moves : v.who \notin match.entrants

LoadTarget(r) ==
    LET j == job[r]  due == Due(j.todo)  c == First(due).rule.to IN
    /\ at[r] = "target" /\ j.todo # {}
    /\ IF c \in Matches /\ NothingToRemove(j.way, row[c], due)
       THEN Put(r, [j EXCEPT !.todo = @ \ due]) /\ UNCHANGED at
       ELSE /\ Put(r, [j EXCEPT
                    !.todo = @ \ due, !.moves = due, !.target = c,
                    !.held = IF c \in Matches THEN Load(c) ELSE NoMatchHeld,
                    !.seats = IF c \in Pools THEN pool[c] ELSE NoPoolHeld])
            /\ Go(r, "write")
    /\ UNCHANGED <<row, pool, rules, unsettled, edits, crashes>>

\* writeTargetMatch.  A match target has one move.
Written(way, match, moves) ==
    LET v == First(moves)
    IN  IF way = "place" THEN PlaceEntrant(match, v.who)
        ELSE RemoveEntrant(match, v.who)

PutDown(r) ==
    Put(r, [job[r] EXCEPT !.moves = {}, !.target = None,
                          !.held = NoMatchHeld, !.seats = NoPoolHeld])

WriteMatch(r) ==
    LET j == job[r]  c == j.target IN
    /\ at[r] = "write" /\ c \in Matches
    /\ row' = [row EXCEPT ![c] =
            Saved([j.held EXCEPT !.match = Written(j.way, @, j.moves)])]
    /\ PutDown(r)
    /\ Go(r, "target")
    /\ UNCHANGED <<pool, rules, unsettled, edits, crashes>>

\* A seat may not point at a rule that is gone.
Dangling(p) ==
    \E e \in Entrants :
        LET q == p.seats[e].rule IN q # None /\ q \notin rules[q.from]

\* writeTargetPool.
WritePool(r) ==
    LET j == job[r]
        new == IF j.way = "place" THEN SeatsPlaced(j.seats, j.moves)
               ELSE SeatsReleased(j.seats, j.moves)
    IN
    /\ at[r] = "write" /\ j.target \in Pools
    /\ \/ /\ ~Dangling(new)
          /\ pool' = [pool EXCEPT ![j.target] = new]
          /\ PutDown(r)
          /\ Go(r, "target")
          /\ UNCHANGED unsettled
       \/ Dangling(new) /\ Fail(r) /\ UNCHANGED pool
    /\ UNCHANGED <<row, rules, edits, crashes>>

\* updatePhaseGroupCompletion goes on only if the pool is decided,
\* revertPhaseGroupCompletion always.
ReadGroup(r) ==
    LET j == job[r]  p == PoolOf[j.on] IN
    /\ at[r] = "target" /\ j.todo = {} /\ j.level = "match"
    /\ IF j.way = "place" /\ ~Decided(row, p)
       THEN End(r) /\ unsettled' = unsettled \ {j.on}
       ELSE /\ Put(r, [j EXCEPT !.level = "pool", !.games = row, !.group = pool[p]])
            /\ Go(r, "rules")
            /\ UNCHANGED unsettled
    /\ UNCHANGED <<row, pool, rules, edits, crashes>>

\* The pool is saved with who advanced; a revert goes on with the match.
Seal(r) ==
    LET j == job[r]
        p == PoolOf[j.on]
        new == IF j.way = "place" THEN Marked(j.group, j.moved, "completed")
               ELSE Marked(j.group, {}, "active")
    IN
    /\ at[r] = "target" /\ j.todo = {} /\ j.level = "pool"
    /\ \/ /\ ~Dangling(new)
          /\ pool' = [pool EXCEPT ![p] = new]
          /\ \/ /\ j.way = "place" /\ End(r)
                /\ unsettled' = unsettled \ {j.on, p}
             \/ /\ j.way = "remove" /\ Go(r, "save")
                /\ unsettled' = unsettled \ {p}
                /\ UNCHANGED job
       \/ Dangling(new) /\ Fail(r) /\ UNCHANGED pool
    /\ UNCHANGED <<row, rules, edits, crashes>>

\* match.commit() throws after the revert: an earlier result stays, its
\* advancement is gone.
Refuse(r) ==
    /\ at[r] = "save" /\ job[r].op = "commit" /\ ~Committable(job[r].mine)
    /\ IF job[r].mine.match.result = None THEN End(r) /\ UNCHANGED unsettled
       ELSE Fail(r)
    /\ UNCHANGED <<row, pool, rules, edits, crashes>>

SaveResult(r) ==
    LET new == Committed(job[r].mine) IN
    /\ at[r] = "save" /\ job[r].op = "commit" /\ Committable(job[r].mine)
    /\ row' = [row EXCEPT ![job[r].on] = Saved(new)]
    /\ Put(r, [job[r] EXCEPT !.mine = new, !.way = "place", !.level = "match"])
    /\ Go(r, "rules")
    /\ UNCHANGED <<pool, rules, unsettled, edits, crashes>>

SaveReopened(r) ==
    /\ at[r] = "save" /\ job[r].op = "reopen"
    /\ row' = [row EXCEPT ![job[r].on] = Saved(Reopened(job[r].mine))]
    /\ End(r)
    /\ unsettled' = unsettled \ {job[r].on}
    /\ UNCHANGED <<pool, rules, edits, crashes>>

-----------------------------------------------------------------------------
(* Scores and rules.                                                       *)

\* upsertPoints asks for no player of the match.
Score(r, m, e, n) ==
    /\ at[r] = "idle" /\ row[m].result = None
    /\ Put(r, [Blank EXCEPT !.op = "score", !.on = m,
                            !.mine = [Load(m) EXCEPT !.match.points[e] = n]])
    /\ Go(r, "save")
    /\ UNCHANGED <<row, pool, rules, unsettled, edits, crashes>>

SaveScore(r) ==
    /\ at[r] = "save" /\ job[r].op = "score"
    /\ row' = [row EXCEPT ![job[r].on] = Saved(job[r].mine)]
    /\ End(r)
    /\ UNCHANGED <<pool, rules, unsettled, edits, crashes>>

\* updateForSource: the old rules go, and seats forget them.
DropRules(r, c, set) ==
    /\ at[r] = "idle" /\ edits < MaxEdits
    /\ edits' = edits + 1
    /\ rules' = [rules EXCEPT ![c] = {}]
    /\ pool' = [p \in Pools |-> [pool[p] EXCEPT !.seats = [e \in Entrants |->
            IF @[e].rule # None /\ @[e].rule.from = c THEN [@[e] EXCEPT !.rule = None]
            ELSE @[e]]]]
    /\ Put(r, [Blank EXCEPT !.op = "rules", !.on = c,
                            !.save = {[q EXCEPT !.edit = edits + 1] : q \in set}])
    /\ Go(r, "create")
    /\ unsettled' = IF (c \in Matches /\ row[c].result # None)
                       \/ (c \in Pools /\ pool[c].state = "completed")
                    THEN unsettled \union {c} ELSE unsettled
    /\ UNCHANGED <<row, crashes>>

CreateRules(r) ==
    LET c == job[r].on IN
    /\ at[r] = "create"
    /\ rules' = [rules EXCEPT ![c] = @ \union job[r].save]
    /\ IF c \in Matches THEN Go(r, "refresh") /\ UNCHANGED job ELSE End(r)
    /\ UNCHANGED <<row, pool, unsettled, edits, crashes>>

\* refreshState loads the match and updates its state column.
LoadState(r) ==
    /\ at[r] = "refresh"
    /\ Put(r, [job[r] EXCEPT !.mine = Load(job[r].on)])
    /\ Go(r, "stamp")
    /\ UNCHANGED <<row, pool, rules, unsettled, edits, crashes>>

StampState(r) ==
    /\ at[r] = "stamp"
    /\ row' = [row EXCEPT ![job[r].on].state = StateOf(job[r].mine)]
    /\ End(r)
    /\ UNCHANGED <<pool, rules, unsettled, edits, crashes>>

\* The process dies and comes back: nobody finishes what was under way.
Crash ==
    /\ crashes < MaxCrashes /\ Busy # {}
    /\ crashes' = crashes + 1
    /\ at' = [r \in Requests |-> "idle"]
    /\ job' = [r \in Requests |-> Blank]
    /\ unsettled' = unsettled \union UNION {AtStake(r) : r \in Busy}
    /\ UNCHANGED <<row, pool, rules, edits>>

Init ==
    /\ row = [m \in Matches |-> [NoMatchHeld.match EXCEPT !.entrants = Entered[m]]]
    /\ pool = [p \in Pools |-> [NoPoolHeld EXCEPT !.seats = [e \in Entrants |->
            IF e \in Seated[p] THEN [NoSeat EXCEPT !.status = "active"] ELSE NoSeat]]]
    /\ rules = RulesAtFirst
    /\ at = [r \in Requests |-> "idle"]
    /\ job = [r \in Requests |-> Blank]
    /\ unsettled = {} /\ edits = 0 /\ crashes = 0

Ask(r) ==
    \/ "commit" \in Asks[r] /\ \E m \in Matches : Commit(r, m)
    \/ "reopen" \in Asks[r] /\ \E m \in Matches : Reopen(r, m)
    \/ "score" \in Asks[r] /\ \E m \in Matches, n \in 0..MaxPoints :
            \E e \in Recorded[m] : Score(r, m, e, n)
    \/ "rules" \in Asks[r] /\ \E c \in Competitions : \E set \in RulesToSave[c] :
            DropRules(r, c, set)

Step(r) ==
    \/ Guard(r) \/ Reload(r)
    \/ ReadRules(r) \/ LoadTarget(r) \/ WriteMatch(r) \/ WritePool(r)
    \/ ReadGroup(r) \/ Seal(r)
    \/ Refuse(r) \/ SaveResult(r) \/ SaveReopened(r) \/ SaveScore(r)
    \/ CreateRules(r) \/ LoadState(r) \/ StampState(r)

Next == (\E r \in Requests : Ask(r) \/ Step(r)) \/ Crash

Spec == Init /\ [][Next]_vars

-----------------------------------------------------------------------------
(* Properties.                                                             *)

\* Type invariant: the tables, and what a request holds of them between two
\* awaits, are of the kind the entities and aggregates declare.
TypeOK ==
    /\ row \in [Matches -> Match]
    /\ pool \in [Pools -> Pool]
    /\ rules \in [Competitions -> SUBSET Rule]
    /\ at \in [Requests -> Steps]
    /\ job \in [Requests -> Job]
    /\ unsettled \subseteq Competitions
    /\ edits \in 0..MaxEdits
    /\ crashes \in 0..MaxCrashes

\* However requests and crashes interleave, the rule a seat names exists and
\* leads to the pool of the seat: the guard of a reopening finds the seats it
\* endangers by that rule.
SeatsNameTheirRules ==
    \A p \in Pools, e \in Entrants :
        LET seat == pool[p].seats[e] IN
        seat.rule # None =>
            /\ seat.status # "none"
            /\ seat.rule.to = p
            /\ seat.rule \in rules[seat.rule.from]

Quiet == Busy = {}

\* Player e has the n-th place of result x.
HasPlace(x, e, n) ==
    /\ e \in x.who
    /\ Cardinality({f \in x.who \ {e} : ~Ranked(x.points, e, f)}) = n - 1

\* The entrants that the rules of c send on by its results.
SentOn(c, rule) ==
    IF c \in Matches
    THEN {e \in Entrants : row[c].result # None /\ HasPlace(row[c].result, e, rule.placement)}
    ELSE {e \in InPool(row, c) : pool[c].state = "completed"
                                 /\ PlaceInPool(row, c, e) = rule.placement}

Holds(c, e) == IF c \in Matches THEN e \in row[c].entrants
               ELSE pool[c].seats[e].status # "none"

\* When no request is under way, whom a committed result or a decided pool
\* sends on is where the rules say.  Exempt are sources whose rules were saved
\* after they were applied, and those whose commit or reopening was cut short,
\* until the next commit or reopening of the source repairs it.
CommittedIsAdvanced ==
    Quiet => \A c \in Competitions \ unsettled : \A rule \in rules[c] :
        \A e \in SentOn(c, rule) : Holds(rule.to, e)

\* What a reopening takes back is all that was sent: when no request is under
\* way, everybody in a match or a pool was entered there or is sent there by
\* results that stand now.
OnlyTheAdvancedAreThere ==
    Quiet /\ unsettled = {} /\ edits = 0 => \A c \in Competitions, e \in Entrants :
        Holds(c, e) =>
            \/ c \in Matches /\ e \in Entered[c]
            \/ c \in Pools /\ e \in Seated[c]
            \/ \E s \in Competitions : \E rule \in rules[s] :
                rule.to = c /\ e \in SentOn(s, rule)

\* When no request is under way, a pool is completed exactly if all its matches
\* have results, except where a commit or a reopening was cut short.
PoolFollowsItsMatches ==
    Quiet => \A p \in Pools \ unsettled :
        pool[p].state = "completed" <=> Decided(row, p)

\* A reopening takes nobody with points out of a match, and no seat out of a
\* pool where something was played: "affected advancement target already has
\* scores or a committed result" is what its guard refuses.
SparesProgress(r) ==
    job[r].op = "reopen" /\ at'[r] # at[r] =>
        /\ \A m \in Matches : \A e \in row[m].entrants :
            row[m].points[e] > 0 => e \in row'[m].entrants
        /\ \A q \in Pools, e \in Entrants :
            Holds(q, e) /\ (\E m \in MatchesOf(q) : row[m].state # "open") => Holds(q, e)'

\* The same for a reopening of what was committed and advanced as its rules
\* say, from start to end.
SettledReopenSparesProgress ==
    [][unsettled = {} => \A r \in Requests : SparesProgress(r)]_vars

-----------------------------------------------------------------------------
(* Brackets of which more is proved.                                       *)

\* c has, or may be given, a rule that leads to t.
Leads(c, t) ==
    \E rule \in RulesAtFirst[c] \union UNION RulesToSave[c] : rule.to = t

\* reach says who may ever be in a match or a pool: those who were entered, and
\* those whom sources may send.  Two sources that lead to the same target have
\* nobody in common.
Branches(reach) ==
    /\ \A m \in Matches : Entered[m] \subseteq reach[m] /\ reach[m] \subseteq reach[PoolOf[m]]
    /\ \A c \in Competitions, m \in Matches : Leads(c, m) => reach[c] \subseteq reach[m]
    /\ \A t, c, d \in Competitions :
            Leads(c, t) /\ Leads(d, t) /\ c # d => reach[c] \cap reach[d] = {}

\* The matches of a pool that leads anywhere are fed by one another only.
PoolsFeedThemselves ==
    \A m \in Matches : \A c, t \in Competitions :
        Leads(c, m) /\ Leads(PoolOf[m], t) => c \in Matches /\ PoolOf[c] = PoolOf[m]

\* The results of m decide who goes on.
SendsOn(m) == \E t \in Competitions : Leads(m, t) \/ Leads(PoolOf[m], t)

\* No rule leads to such a match: its entrants were entered by hand.
SendersAreNotFed ==
    \A c \in Competitions, m \in Matches : Leads(c, m) => ~SendsOn(m)

=============================================================================
