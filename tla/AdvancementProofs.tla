------------------------- MODULE AdvancementProofs -------------------------
(***************************************************************************)
(* What Advancement keeps for any brackets, rules, requests and restarts:  *)
(* its types, and that a seat names a rule that exists and leads to it;    *)
(* and, when requests follow one another, that pools are completed as      *)
(* their matches are, and that those whom standing results send on are     *)
(* where the rules send them, if no two sources send anyone to the same    *)
(* place (Branches), and they only, if whoever is in a match that sends on *)
(* was entered by hand (SendersAreNotFed).                                 *)
(*                                                                         *)
(* Seats are written from copies that other requests may have outdated, so *)
(* the invariant also says what a copy may hold between two awaits         *)
(* (JobsFit).  That the rule of a seat still exists is decided when the    *)
(* seat is written, by the foreign key.                                    *)
(***************************************************************************)
EXTENDS Advancement, FiniteSetTheorems, WellFoundedInduction, TLAPS

USE AdvancementAssumption DEF Competitions

\* Each seat of p that names a rule is taken, and the rule leads to pool q.
SeatsFit(p, q) ==
    \A e \in Entrants :
        p.seats[e].rule # None => p.seats[e].status # "none" /\ p.seats[e].rule.to = q

\* What a request about to take a step may hold.
Fits(step, j) ==
    /\ j.op \in {"commit", "reopen"} => j.on \in Matches
    /\ step \in {"guard", "reload", "rules", "target", "write", "refresh", "stamp"}
        => j.on \in Matches
    /\ step \in {"guard", "reload"} => j.level = "match"
    /\ step = "write" => j.moves # {} /\ \A v \in j.moves : v.rule.to = j.target
    /\ step = "write" /\ j.target \in Pools => SeatsFit(j.seats, j.target)
    /\ step \in {"rules", "target", "write"} /\ j.level = "pool"
        => SeatsFit(j.group, PoolOf[j.on])

JobsFit == \A r \in Requests : Fits(at[r], job[r])

AdvInv == TypeOK /\ JobsFit /\ SeatsNameTheirRules

-----------------------------------------------------------------------------
(* Matches and seats in memory.                                            *)

LEMMA BlankTypes == NoMatchHeld \in Aggregate /\ NoPoolHeld \in Pool /\ Blank \in Job
<1>1. [e \in Entrants |-> 0] \in Points
  BY DEF Points
<1>2. NoMatchHeld.match \in Match /\ NoMatchHeld \in Aggregate
  BY <1>1 DEF NoMatchHeld, Aggregate, Match, States
<1>3. NoPoolHeld \in Pool
  BY DEF NoPoolHeld, Pool, NoSeat, Seat
<1>. QED
  BY <1>2, <1>3 DEF Blank, Job

LEMMA BlankFits == Fits("idle", Blank)
  BY DEF Fits, Blank

LEMMA ResettledType ==
  ASSUME NEW match \in Match
  PROVE  Resettled(match) \in Match
<1>1. [e \in Entrants |-> IF e \in match.entrants THEN match.points[e] ELSE 0] \in Points
  BY DEF Match, Points
<1>. QED
  BY <1>1 DEF Resettled, Match

LEMMA EntrantsTypes ==
  ASSUME NEW match \in Match, NEW e
  PROVE  /\ e \in Entrants => PlaceEntrant(match, e) \in Match
         /\ RemoveEntrant(match, e) \in Match
<1>1. ASSUME e \in Entrants PROVE [match EXCEPT !.entrants = @ \union {e}] \in Match
  BY <1>1 DEF Match
<1>2. [match EXCEPT !.entrants = @ \ {e}] \in Match
  BY DEF Match
<1>. QED
  BY <1>1, <1>2, ResettledType DEF PlaceEntrant, RemoveEntrant

LEMMA SavedType ==
  ASSUME NEW a \in Aggregate
  PROVE  StateOf(a) \in States /\ Saved(a) \in Match
<1>1. StateOf(a) \in States
  BY DEF StateOf, States
<1>. QED
  BY <1>1 DEF Saved, Aggregate, Match

LEMMA ResultTypes ==
  ASSUME NEW a \in Aggregate
  PROVE  Committed(a) \in Aggregate /\ Reopened(a) \in Aggregate
<1> DEFINE points == [e \in Entrants |-> IF e \in a.match.entrants THEN a.match.points[e] ELSE 0]
           result == [who |-> a.match.entrants, points |-> points]
<1>1. a.match \in Match /\ a.rules \in SUBSET Rule
  BY DEF Aggregate
<1>2. points \in Points
  BY <1>1 DEF Match, Points
<1>3. result \in Result
  BY <1>1, <1>2 DEF Match, Result
<1>4. [a.match EXCEPT !.result = result] \in Match /\ [a.match EXCEPT !.result = None] \in Match
  BY <1>1, <1>3 DEF Match
<1>5. /\ Committed(a) = [a EXCEPT !.match = [a.match EXCEPT !.result = result]]
      /\ Reopened(a) = [a EXCEPT !.match = [a.match EXCEPT !.result = None]]
  BY DEF Committed, Reopened, Aggregate
<1>. QED
  BY <1>4, <1>5 DEF Aggregate

LEMMA SeatsPlacedFit ==
  ASSUME NEW p \in Pool, NEW moves \in SUBSET Move
  PROVE  /\ SeatsPlaced(p, moves) \in Pool
         /\ SeatsReleased(p, moves) \in Pool
         /\ \A q : SeatsFit(p, q) /\ (\A v \in moves : v.rule.to = q)
                => SeatsFit(SeatsPlaced(p, moves), q)
         /\ \A q : SeatsFit(p, q) => SeatsFit(SeatsReleased(p, moves), q)
<1> DEFINE new(e) == [status |-> "active", rule |-> (CHOOSE v \in moves : v.who = e).rule]
           seats == [e \in Entrants |-> IF \E v \in moves : v.who = e THEN new(e) ELSE p.seats[e]]
           rest == [e \in Entrants |-> IF \E v \in moves : v.who = e THEN NoSeat ELSE p.seats[e]]
<1>1. ASSUME NEW e \in Entrants, \E v \in moves : v.who = e
      PROVE  (CHOOSE v \in moves : v.who = e) \in moves
  BY <1>1
<1>2. ASSUME NEW e \in Entrants, \E v \in moves : v.who = e
      PROVE  new(e) \in Seat
  BY <1>1, <1>2 DEF Move, Seat
<1>3. NoSeat \in Seat
  BY DEF NoSeat, Seat
<1>4. seats \in [Entrants -> Seat] /\ rest \in [Entrants -> Seat]
  BY <1>2, <1>3 DEF Pool
<1>5. /\ SeatsPlaced(p, moves) = [p EXCEPT !.seats = seats]
      /\ SeatsReleased(p, moves) = [p EXCEPT !.seats = rest]
  BY DEF SeatsPlaced, SeatsReleased, Pool
<1>6. /\ SeatsPlaced(p, moves) \in Pool /\ SeatsReleased(p, moves) \in Pool
      /\ SeatsPlaced(p, moves).seats = seats /\ SeatsReleased(p, moves).seats = rest
  BY <1>4, <1>5 DEF Pool
<1>7. ASSUME NEW q, SeatsFit(p, q), \A v \in moves : v.rule.to = q
      PROVE  SeatsFit(SeatsPlaced(p, moves), q)
  <2>1. SUFFICES ASSUME NEW e \in Entrants, seats[e].rule # None
                 PROVE  seats[e].status # "none" /\ seats[e].rule.to = q
    BY <1>6 DEF SeatsFit
  <2>2. CASE \E v \in moves : v.who = e
    BY <2>2, <1>1, <1>7
  <2>3. CASE ~ \E v \in moves : v.who = e
    BY <2>1, <2>3, <1>7 DEF SeatsFit
  <2>. QED
    BY <2>2, <2>3
<1>8. ASSUME NEW q, SeatsFit(p, q)
      PROVE  SeatsFit(SeatsReleased(p, moves), q)
  BY <1>6, <1>8 DEF SeatsFit, NoSeat
<1>. QED
  BY <1>6, <1>7, <1>8

LEMMA MarkedFits ==
  ASSUME NEW p \in Pool, NEW who, NEW state \in {"active", "completed"}
  PROVE  /\ Marked(p, who, state) \in Pool
         /\ \A q : SeatsFit(p, q) => SeatsFit(Marked(p, who, state), q)
<1> DEFINE status(e) == IF e \in who THEN "advanced" ELSE "active"
           seats == [e \in Entrants |-> IF p.seats[e].status = "none" THEN NoSeat
                                        ELSE [p.seats[e] EXCEPT !.status = status(e)]]
<1>1. Marked(p, who, state) = [seats |-> seats, state |-> state]
  BY DEF Marked
<1>2. ASSUME NEW e \in Entrants
      PROVE  /\ seats[e] \in Seat
             /\ seats[e].rule # None =>
                    seats[e].status # "none" /\ seats[e].rule = p.seats[e].rule
                    /\ p.seats[e].rule # None
  <2>1. p.seats[e] \in Seat
    BY DEF Pool
  <2>2. [p.seats[e] EXCEPT !.status = status(e)] \in Seat
    BY <2>1 DEF Seat
  <2>. QED
    BY <2>1, <2>2 DEF Seat, NoSeat
<1>3. Marked(p, who, state) \in Pool /\ Marked(p, who, state).seats = seats
  BY <1>1, <1>2 DEF Pool
<1>4. ASSUME NEW q, SeatsFit(p, q)
      PROVE  SeatsFit(Marked(p, who, state), q)
  <2> HIDE DEF seats
  <2>. QED
    BY <1>2, <1>3, <1>4 DEF SeatsFit
<1>. QED
  BY <1>3, <1>4

-----------------------------------------------------------------------------
(* Moves.                                                                  *)

LEMMA MovesTypes ==
  ASSUME NEW set \in SUBSET Rule
  PROVE  /\ \A match \in Match : \A place \in Placements(match) :
                MatchMoves(set, place) \in SUBSET Move
         /\ \A games \in [Matches -> Match] : \A p : PoolMoves(set, games, p) \in SUBSET Move
<1>1. ASSUME NEW match \in Match, NEW place \in Placements(match)
      PROVE  MatchMoves(set, place) \in SUBSET Move
  <2>1. DOMAIN place = match.entrants
    BY DEF Placements
  <2>. QED
    BY <2>1 DEF MatchMoves, Move, Match
<1>2. ASSUME NEW games \in [Matches -> Match], NEW p
      PROVE  PoolMoves(set, games, p) \in SUBSET Move
  <2>1. InPool(games, p) \subseteq Entrants
    BY DEF InPool, MatchesOf, Match
  <2>. QED
    BY <2>1 DEF PoolMoves, Move
<1>. QED
  BY <1>1, <1>2

\* Of some moves, one has the first placement.
LEMMA FirstIsOne ==
  ASSUME NEW moves \in SUBSET Move, moves # {}
  PROVE  First(moves) \in moves
<1> DEFINE R == {pair \in Nat \X Nat : pair[1] < pair[2]}
           S == {v.rule.placement : v \in moves}
<1>1. \A v \in moves : v.rule.placement \in Nat
  BY DEF Move, Rule
<1>2. S \in SUBSET Nat /\ S # {}
  BY <1>1
<1>3. IsWellFoundedOn(R, Nat)
  BY NatLessThanWellFounded DEF OpToRel
<1>4. PICK i \in S : \A j \in S : <<j, i>> \notin R
  <2> HIDE DEF R, S
  <2>. QED
    BY <1>2, <1>3, WFMin
<1>5. PICK v \in moves : v.rule.placement = i
  OBVIOUS
<1>6. ASSUME NEW w \in moves
      PROVE  v.rule.placement <= w.rule.placement
  <2>1. w.rule.placement \in S
    OBVIOUS
  <2>2. <<w.rule.placement, v.rule.placement>> \notin R
    BY <1>4, <1>5, <2>1
  <2>. QED
    BY <1>1, <2>2
<1>. QED
  BY <1>5, <1>6 DEF First

\* Those due now are some of those to do, and all have one target.
LEMMA DueTypes ==
  ASSUME NEW moves \in SUBSET Move, moves # {}
  PROVE  /\ Due(moves) \in SUBSET moves
         /\ Due(moves) # {}
         /\ First(Due(moves)) \in Due(moves)
         /\ \A v \in Due(moves) : v.rule.to = First(Due(moves)).rule.to
<1>1. CASE ToMatches(moves) # {}
  <2>1. ToMatches(moves) \in SUBSET moves
    BY DEF ToMatches
  <2>2. First(ToMatches(moves)) \in ToMatches(moves)
    BY <1>1, <2>1, FirstIsOne
  <2>3. Due(moves) = {First(ToMatches(moves))}
    BY <1>1 DEF Due
  <2>4. First(Due(moves)) \in Due(moves)
    BY <2>1, <2>2, <2>3, FirstIsOne
  <2>. QED
    BY <2>1, <2>2, <2>3, <2>4
<1>2. CASE ToMatches(moves) = {}
  <2>1. First(moves) \in moves
    BY FirstIsOne
  <2>2. Due(moves) = {v \in moves : v.rule.to = First(moves).rule.to}
    BY <1>2 DEF Due
  <2>3. Due(moves) \in SUBSET moves /\ Due(moves) # {}
    BY <2>1, <2>2
  <2>4. First(Due(moves)) \in Due(moves)
    BY <2>3, FirstIsOne
  <2>. QED
    BY <2>2, <2>3, <2>4
<1>. QED
  BY <1>1, <1>2

LEMMA WrittenType ==
  ASSUME NEW match \in Match, NEW moves \in SUBSET Move, moves # {}, NEW way
  PROVE  Written(way, match, moves) \in Match
<1>1. First(moves) \in moves /\ First(moves).who \in Entrants
  BY FirstIsOne DEF Move
<1>. QED
  BY <1>1, EntrantsTypes DEF Written

LEMMA LoadType ==
  ASSUME TypeOK, NEW m \in Matches
  PROVE  Load(m) \in Aggregate
BY DEF TypeOK, Load, Aggregate

-----------------------------------------------------------------------------
(* One request takes a step.                                               *)

\* A request that goes to a step with a job that fits it disturbs no other.
LEMMA OneMoves ==
  ASSUME TypeOK, JobsFit, NEW r \in Requests, NEW s \in Steps, NEW j \in Job,
         Fits(s, j), Go(r, s), Put(r, j)
  PROVE  at' \in [Requests -> Steps] /\ job' \in [Requests -> Job] /\ JobsFit'
<1>1. at' \in [Requests -> Steps] /\ job' \in [Requests -> Job]
  BY DEF TypeOK, Go, Put
<1>2. ASSUME NEW q \in Requests PROVE Fits(at'[q], job'[q])
  BY DEF TypeOK, Go, Put, JobsFit
<1>. QED
  BY <1>1, <1>2 DEF JobsFit

LEMMA OneEnds ==
  ASSUME TypeOK, JobsFit, NEW r \in Requests, End(r)
  PROVE  at' \in [Requests -> Steps] /\ job' \in [Requests -> Job] /\ JobsFit'
BY OneMoves, BlankTypes, BlankFits DEF End, Steps

\* What a request puts at stake are sources.
LEMMA StakesTypes ==
  ASSUME JobsFit, NEW r \in Requests
  PROVE  AtStake(r) \subseteq Competitions
BY DEF JobsFit, Fits, AtStake

\* A step that leaves the tables alone, and one that writes only matches.
LEMMA TablesStay ==
  ASSUME AdvInv, at' \in [Requests -> Steps], job' \in [Requests -> Job], JobsFit',
         row' \in [Matches -> Match], unsettled' \subseteq Competitions,
         UNCHANGED <<pool, rules, edits, crashes>>
  PROVE  AdvInv'
BY DEF AdvInv, TypeOK, SeatsNameTheirRules

\* A pool is written whose seats fit it and whose rules all exist.
LEMMA PoolWritten ==
  ASSUME AdvInv, at' \in [Requests -> Steps], job' \in [Requests -> Job], JobsFit',
         unsettled' \subseteq Competitions, UNCHANGED <<row, rules, edits, crashes>>,
         NEW p \in Pools, NEW new \in Pool, SeatsFit(new, p), ~Dangling(new),
         pool' = [pool EXCEPT ![p] = new]
  PROVE  AdvInv'
<1>1. pool' \in [Pools -> Pool]
  BY DEF AdvInv, TypeOK
<1>2. TypeOK'
  BY <1>1 DEF AdvInv, TypeOK
<1>3. ASSUME NEW e \in Entrants, new.seats[e].rule # None
      PROVE  new.seats[e].rule \in rules[new.seats[e].rule.from]
  BY <1>3 DEF Dangling
<1>4. SeatsNameTheirRules'
  <2>1. SUFFICES ASSUME NEW q \in Pools, NEW e \in Entrants, pool'[q].seats[e].rule # None
                 PROVE  /\ pool'[q].seats[e].status # "none"
                        /\ pool'[q].seats[e].rule.to = q
                        /\ pool'[q].seats[e].rule \in rules'[pool'[q].seats[e].rule.from]
    BY DEF SeatsNameTheirRules
  <2>2. CASE q = p
    <3>1. pool'[q] = new
      BY <2>2 DEF AdvInv, TypeOK
    <3>. QED
      BY <2>1, <2>2, <3>1, <1>3 DEF SeatsFit
  <2>3. CASE q # p
    BY <2>1, <2>3 DEF AdvInv, TypeOK, SeatsNameTheirRules
  <2>. QED
    BY <2>2, <2>3
<1>. QED
  BY <1>2, <1>4 DEF AdvInv

\* The seats of a pool in the table fit it.
LEMMA TableFits ==
  ASSUME AdvInv
  PROVE  /\ \A p \in Pools : pool[p] \in Pool /\ SeatsFit(pool[p], p)
         /\ \A r \in Requests : job[r] \in Job /\ Fits(at[r], job[r])
         /\ \A c \in Competitions : rules[c] \in SUBSET Rule
BY DEF AdvInv, TypeOK, SeatsNameTheirRules, SeatsFit, JobsFit

-----------------------------------------------------------------------------
(* Every action keeps the invariant.                                       *)

\* A request arrives.
LEMMA AskKeeps ==
  ASSUME AdvInv, NEW r \in Requests, Ask(r)
  PROVE  AdvInv'
<1> USE DEF Steps
<1>1. TypeOK /\ JobsFit /\ Blank \in Job
  BY BlankTypes DEF AdvInv
<1>2. ASSUME NEW m \in Matches, Commit(r, m) PROVE AdvInv'
  <2> DEFINE j == [Blank EXCEPT !.op = "commit", !.on = m, !.mine = Load(m), !.way = "remove"]
  <2>1. j \in Job
    BY <1>1, LoadType DEF Job
  <2>2. Fits("rules", j) /\ Fits("save", j)
    BY DEF Fits, Blank
  <2>3. at' \in [Requests -> Steps] /\ job' \in [Requests -> Job] /\ JobsFit'
    BY <1>1, <1>2, <2>1, <2>2, OneMoves DEF Commit
  <2>. QED
    BY <1>1, <1>2, <2>3, TablesStay DEF Commit, TypeOK
<1>3. ASSUME NEW m \in Matches, Reopen(r, m) PROVE AdvInv'
  <2> DEFINE j == [Blank EXCEPT !.op = "reopen", !.on = m, !.mine = Load(m), !.way = "remove"]
  <2>1. j \in Job
    BY <1>1, LoadType DEF Job
  <2>2. Fits("guard", j) /\ Fits("reload", j)
    BY DEF Fits, Blank
  <2>3. at' \in [Requests -> Steps] /\ job' \in [Requests -> Job] /\ JobsFit'
    BY <1>1, <1>3, <2>1, <2>2, OneMoves DEF Reopen
  <2>. QED
    BY <1>1, <1>3, <2>3, TablesStay DEF Reopen, TypeOK
<1>4. ASSUME NEW m \in Matches, NEW e \in Entrants, NEW n \in 0..MaxPoints, Score(r, m, e, n)
      PROVE  AdvInv'
  <2> DEFINE mine == [Load(m) EXCEPT !.match.points[e] = n]
             j == [Blank EXCEPT !.op = "score", !.on = m, !.mine = mine]
  <2>1. mine \in Aggregate
    <3>1. row[m] \in Match /\ rules[m] \in SUBSET Rule
      BY <1>1 DEF TypeOK
    <3>2. [row[m].points EXCEPT ![e] = n] \in Points
      BY <3>1 DEF Match, Points
    <3>3. [row[m] EXCEPT !.points = [row[m].points EXCEPT ![e] = n]] \in Match
      BY <3>1, <3>2 DEF Match
    <3>4. mine = [match |-> [row[m] EXCEPT !.points = [row[m].points EXCEPT ![e] = n]],
                  rules |-> rules[m]]
      BY DEF Load
    <3>. QED
      BY <3>1, <3>3, <3>4 DEF Aggregate
  <2>2. j \in Job /\ Fits("save", j)
    <3> HIDE DEF mine
    <3>. QED
      BY <1>1, <2>1 DEF Job, Fits, Blank
  <2>3. at' \in [Requests -> Steps] /\ job' \in [Requests -> Job] /\ JobsFit'
    BY <1>1, <1>4, <2>2, OneMoves DEF Score
  <2>. QED
    BY <1>1, <1>4, <2>3, TablesStay DEF Score, TypeOK
<1>5. ASSUME NEW c \in Competitions, NEW set \in RulesToSave[c], DropRules(r, c, set)
      PROVE  AdvInv'
  <2> DEFINE save == {[q EXCEPT !.edit = edits + 1] : q \in set}
             j == [Blank EXCEPT !.op = "rules", !.on = c, !.save = save]
             Kept(seat) == IF seat.rule # None /\ seat.rule.from = c
                           THEN [seat EXCEPT !.rule = None] ELSE seat
  <2>1. edits \in Nat /\ edits + 1 \in 0..MaxEdits /\ edits' = edits + 1
    BY <1>1, <1>5 DEF DropRules, TypeOK
  <2>2. save \in SUBSET Rule
    <3>1. set \in SUBSET Rule
      BY DEF ValidRules
    <3>. QED
      BY <2>1, <3>1 DEF Rule
  <2>3. j \in Job /\ Fits("create", j)
    <3> HIDE DEF save
    <3>. QED
      BY <1>1, <2>2 DEF Job, Fits, Blank
  <2>4. at' \in [Requests -> Steps] /\ job' \in [Requests -> Job] /\ JobsFit'
    BY <1>1, <1>5, <2>3, OneMoves DEF DropRules
  <2>5. pool' = [p \in Pools |-> [pool[p] EXCEPT !.seats =
                    [e \in Entrants |-> Kept(pool[p].seats[e])]]]
    BY <1>5 DEF DropRules
  <2>6. ASSUME NEW p \in Pools, NEW e \in Entrants
        PROVE  /\ Kept(pool[p].seats[e]) \in Seat
               /\ Kept(pool[p].seats[e]).rule # None =>
                    /\ Kept(pool[p].seats[e]) = pool[p].seats[e]
                    /\ pool[p].seats[e].rule.from # c
    <3>1. pool[p].seats[e] \in Seat
      BY <1>1 DEF TypeOK, Pool
    <3>. QED
      BY <3>1 DEF Seat
  <2>7. ASSUME NEW p \in Pools
        PROVE  /\ pool'[p] \in Pool
               /\ \A e \in Entrants : pool'[p].seats[e] = Kept(pool[p].seats[e])
    <3>1. pool[p] \in Pool
      BY <1>1 DEF TypeOK
    <3>2. [e \in Entrants |-> Kept(pool[p].seats[e])] \in [Entrants -> Seat]
      BY <2>6
    <3> HIDE DEF Kept
    <3>. QED
      BY <2>5, <3>1, <3>2 DEF Pool
  <2>8. rules' \in [Competitions -> SUBSET Rule] /\ \A d \in Competitions \ {c} : rules'[d] = rules[d]
    BY <1>1, <1>5 DEF DropRules, TypeOK
  <2>9. TypeOK'
    <3>1. pool' \in [Pools -> Pool]
      BY <2>5, <2>7
    <3>2. unsettled' \subseteq Competitions /\ row' = row /\ crashes' = crashes
      BY <1>1, <1>5 DEF DropRules, TypeOK
    <3>. QED
      BY <1>1, <2>1, <2>4, <2>8, <3>1, <3>2 DEF TypeOK
  <2>10. SeatsNameTheirRules'
    <3>1. SUFFICES ASSUME NEW p \in Pools, NEW e \in Entrants, pool'[p].seats[e].rule # None
                   PROVE  /\ pool'[p].seats[e].status # "none"
                          /\ pool'[p].seats[e].rule.to = p
                          /\ pool'[p].seats[e].rule \in rules'[pool'[p].seats[e].rule.from]
      BY DEF SeatsNameTheirRules
    <3>2. pool'[p].seats[e] = pool[p].seats[e] /\ pool[p].seats[e].rule.from # c
      BY <2>6, <2>7, <3>1
    <3>3. pool[p].seats[e].rule \in Rule
      BY <1>1, <3>1, <3>2 DEF TypeOK, Pool, Seat
    <3>. QED
      BY <2>8, <3>1, <3>2, <3>3 DEF AdvInv, SeatsNameTheirRules, Rule
  <2>. QED
    BY <2>4, <2>9, <2>10 DEF AdvInv
<1>6. \A m \in Matches : Recorded[m] \subseteq Entrants
  OBVIOUS
<1>. QED
  BY <1>2, <1>3, <1>4, <1>5, <1>6 DEF Ask


\* A request throws half-way.
LEMMA FailKeeps ==
  ASSUME AdvInv, NEW r \in Requests, Fail(r), UNCHANGED <<row, pool, rules, edits, crashes>>
  PROVE  AdvInv'
<1>1. TypeOK /\ JobsFit /\ End(r) /\ unsettled' = unsettled \union AtStake(r)
  BY DEF AdvInv, Fail
<1>. QED
  BY <1>1, OneEnds, StakesTypes, TablesStay DEF TypeOK

\* The steps of a reopening before it takes anything back, and the rules it
\* then follows.
LEMMA ReadsKeep ==
  ASSUME AdvInv, NEW r \in Requests,
         Guard(r) \/ Reload(r) \/ ReadRules(r) \/ LoadTarget(r) \/ LoadState(r)
  PROVE  AdvInv'
<1> USE DEF Steps
<1> DEFINE j == job[r]
<1>1. TypeOK /\ JobsFit /\ j \in Job /\ Fits(at[r], j)
  BY TableFits DEF AdvInv
<1>2. ASSUME Guard(r) PROVE AdvInv'
  <2>1. CASE End(r)
    BY <1>1, <1>2, <2>1, OneEnds, TablesStay DEF Guard, TypeOK
  <2>2. CASE Go(r, "reload") /\ UNCHANGED job
    <3>1. Put(r, j)
      BY <1>1, <2>2 DEF Put, TypeOK
    <3>2. Fits("reload", j)
      BY <1>1, <1>2 DEF Guard, Fits
    <3>3. at' \in [Requests -> Steps] /\ job' \in [Requests -> Job] /\ JobsFit'
      BY <1>1, <2>2, <3>1, <3>2, OneMoves
    <3>. QED
      BY <1>1, <1>2, <3>3, TablesStay DEF Guard, TypeOK
  <2>. QED
    BY <1>2, <2>1, <2>2 DEF Guard
<1>3. ASSUME Reload(r) PROVE AdvInv'
  <2> DEFINE k == [j EXCEPT !.mine = Load(j.on)]
  <2>1. j.on \in Matches
    BY <1>1, <1>3 DEF Reload, Fits
  <2>2. k \in Job /\ Fits("rules", k) /\ Fits("save", k)
    <3>1. j.level = "match"
      BY <1>1, <1>3 DEF Reload, Fits
    <3>. QED
      BY <1>1, <1>3, <2>1, <3>1, LoadType DEF Job, Fits, Reload
  <2>3. at' \in [Requests -> Steps] /\ job' \in [Requests -> Job] /\ JobsFit'
    BY <1>1, <1>3, <2>2, OneMoves DEF Reload
  <2>. QED
    BY <1>1, <1>3, <2>3, TablesStay DEF Reload, TypeOK
<1>4. ASSUME ReadRules(r) PROVE AdvInv'
  <2> DEFINE k(moves) == [j EXCEPT !.todo = moves, !.moved = {v.who : v \in moves}]
  <2>1. at[r] = "rules" /\ j.on \in Matches /\ PoolOf[j.on] \in Pools
    BY <1>1, <1>4 DEF ReadRules, Fits
  <2>2. PICK moves \in SUBSET Move : Put(r, k(moves)) /\ Go(r, "target")
    <3>1. /\ rules[j.on] \in SUBSET Rule /\ rules[PoolOf[j.on]] \in SUBSET Rule
          /\ j.mine.match \in Match /\ j.games \in [Matches -> Match]
      BY <1>1, <2>1 DEF TypeOK, Job, Aggregate
    <3>2. \A place \in Placements(j.mine.match) :
            MatchMoves(rules[j.on], place) \in SUBSET Move
      BY <3>1, MovesTypes
    <3>3. PoolMoves(rules[PoolOf[j.on]], j.games, PoolOf[j.on]) \in SUBSET Move
      BY <3>1, MovesTypes
    <3>. QED
      BY <1>4, <3>2, <3>3 DEF ReadRules
  <2>3. k(moves) \in Job /\ Fits("target", k(moves))
    <3>1. {v.who : v \in moves} \in SUBSET Entrants
      BY DEF Move
    <3>. QED
      BY <1>1, <2>1, <3>1 DEF Job, Fits
  <2>4. at' \in [Requests -> Steps] /\ job' \in [Requests -> Job] /\ JobsFit'
    BY <1>1, <2>2, <2>3, OneMoves
  <2>. QED
    BY <1>1, <1>4, <2>4, TablesStay DEF ReadRules, TypeOK
<1>5. ASSUME LoadTarget(r) PROVE AdvInv'
  <2> DEFINE due == Due(j.todo)
             c == First(due).rule.to
             rest == [j EXCEPT !.todo = j.todo \ due]
             held == IF c \in Matches THEN Load(c) ELSE NoMatchHeld
             seats == IF c \in Pools THEN pool[c] ELSE NoPoolHeld
             k == [j EXCEPT !.todo = j.todo \ due, !.moves = due, !.target = c,
                            !.held = held, !.seats = seats]
  <2>1. /\ at[r] = "target" /\ j.todo # {} /\ j.todo \in SUBSET Move /\ j.on \in Matches
        /\ \/ Put(r, rest) /\ UNCHANGED at
           \/ Put(r, k) /\ Go(r, "write")
        /\ UNCHANGED <<row, pool, rules, unsettled, edits, crashes>>
    <3>1. at[r] = "target" /\ j.todo # {}
      BY <1>5 DEF LoadTarget
    <3>2. j.todo \in SUBSET Move /\ j.on \in Matches
      BY <1>1, <3>1 DEF Job, Fits
    <3>. QED
      BY <1>5, <3>1, <3>2 DEF LoadTarget
  <2>2. /\ due \in SUBSET Move /\ due # {} /\ c \in Competitions
        /\ \A v \in due : v.rule.to = c
    <3>1. due \in SUBSET j.todo /\ due # {} /\ First(due) \in due /\ \A v \in due : v.rule.to = c
      BY <2>1, DueTypes
    <3>. QED
      BY <2>1, <3>1 DEF Move, Rule
  <2>3. held \in Aggregate /\ seats \in Pool /\ (c \in Pools => SeatsFit(seats, c))
    BY <1>1, LoadType, TableFits, BlankTypes
  <2> HIDE DEF due, c, held, seats
  <2>4. CASE Put(r, rest) /\ UNCHANGED at
    <3>1. rest \in Job /\ Fits("target", rest)
      BY <1>1, <2>1 DEF Job, Fits
    <3>2. Go(r, "target")
      BY <1>1, <2>1, <2>4 DEF Go, TypeOK
    <3>3. at' \in [Requests -> Steps] /\ job' \in [Requests -> Job] /\ JobsFit'
      BY <1>1, <2>4, <3>1, <3>2, OneMoves
    <3>. QED
      BY <1>1, <2>1, <3>3, TablesStay DEF TypeOK
  <2>5. CASE Put(r, k) /\ Go(r, "write")
    <3>1. k \in Job
      BY <1>1, <2>1, <2>2, <2>3 DEF Job
    <3>2. Fits("write", k)
      BY <1>1, <2>1, <2>2, <2>3 DEF Job, Fits
    <3>3. at' \in [Requests -> Steps] /\ job' \in [Requests -> Job] /\ JobsFit'
      BY <1>1, <2>5, <3>1, <3>2, OneMoves
    <3>. QED
      BY <1>1, <2>1, <3>3, TablesStay DEF TypeOK
  <2>. QED
    BY <2>1, <2>4, <2>5
<1>6. ASSUME LoadState(r) PROVE AdvInv'
  <2> DEFINE k == [j EXCEPT !.mine = Load(j.on)]
  <2>1. k \in Job /\ Fits("stamp", k)
    <3>1. j.on \in Matches
      BY <1>1, <1>6 DEF LoadState, Fits
    <3>. QED
      BY <1>1, <3>1, LoadType DEF Job, Fits
  <2>2. at' \in [Requests -> Steps] /\ job' \in [Requests -> Job] /\ JobsFit'
    BY <1>1, <1>6, <2>1, OneMoves DEF LoadState
  <2>. QED
    BY <1>1, <1>6, <2>2, TablesStay DEF LoadState, TypeOK
<1>. QED
  BY <1>2, <1>3, <1>4, <1>5, <1>6

\* The steps that write the target of a move.
LEMMA WritesKeep ==
  ASSUME AdvInv, NEW r \in Requests,
         WriteMatch(r) \/ WritePool(r) \/ ReadGroup(r) \/ Seal(r)
  PROVE  AdvInv'
<1> USE DEF Steps
<1> DEFINE j == job[r]
           down == [j EXCEPT !.moves = {}, !.target = None,
                             !.held = NoMatchHeld, !.seats = NoPoolHeld]
<1>1. TypeOK /\ JobsFit /\ j \in Job /\ Fits(at[r], j)
  BY TableFits DEF AdvInv
<1>2. ASSUME at[r] = "write" PROVE down \in Job /\ Fits("target", down)
  BY <1>1, <1>2, BlankTypes DEF Job, Fits
<1>3. ASSUME WriteMatch(r) PROVE AdvInv'
  <2> DEFINE new == [j.held EXCEPT !.match = Written(j.way, j.held.match, j.moves)]
  <2>1. new \in Aggregate
    <3>1. j.moves \in SUBSET Move /\ j.moves # {} /\ j.held.match \in Match /\ j.held \in Aggregate
      BY <1>1, <1>3 DEF WriteMatch, Job, Fits, Aggregate
    <3>2. Written(j.way, j.held.match, j.moves) \in Match
      BY <3>1, WrittenType
    <3>. QED
      BY <3>1, <3>2 DEF Aggregate
  <2>2. /\ row' = [row EXCEPT ![j.target] = Saved(new)] /\ Put(r, down) /\ Go(r, "target")
        /\ UNCHANGED <<pool, rules, unsettled, edits, crashes>>
    BY <1>3 DEF WriteMatch, PutDown
  <2> HIDE DEF new
  <2>3. row' \in [Matches -> Match]
    BY <1>1, <2>1, <2>2, SavedType DEF TypeOK
  <2>4. at' \in [Requests -> Steps] /\ job' \in [Requests -> Job] /\ JobsFit'
    <3>1. at[r] = "write"
      BY <1>3 DEF WriteMatch
    <3>. QED
      BY <1>1, <1>2, <2>2, <3>1, OneMoves
  <2>. QED
    BY <1>1, <2>2, <2>3, <2>4, TablesStay DEF TypeOK
<1>4. ASSUME WritePool(r) PROVE AdvInv'
  <2> DEFINE new == IF j.way = "place" THEN SeatsPlaced(j.seats, j.moves)
                    ELSE SeatsReleased(j.seats, j.moves)
  <2>1. /\ at[r] = "write" /\ j.target \in Pools /\ UNCHANGED <<row, rules, edits, crashes>>
        /\ \/ /\ ~Dangling(new) /\ pool' = [pool EXCEPT ![j.target] = new]
              /\ Put(r, down) /\ Go(r, "target") /\ UNCHANGED unsettled
           \/ Fail(r) /\ UNCHANGED pool
    BY <1>4 DEF WritePool, PutDown
  <2>2. new \in Pool /\ SeatsFit(new, j.target)
    <3>1. /\ j.seats \in Pool /\ j.moves \in SUBSET Move
          /\ SeatsFit(j.seats, j.target) /\ \A v \in j.moves : v.rule.to = j.target
      BY <1>1, <2>1 DEF Job, Fits
    <3>. QED
      BY <3>1, SeatsPlacedFit
  <2> HIDE DEF new
  <2>3. CASE Fail(r) /\ UNCHANGED pool
    BY <2>1, <2>3, FailKeeps
  <2>4. CASE /\ ~Dangling(new) /\ pool' = [pool EXCEPT ![j.target] = new]
             /\ Put(r, down) /\ Go(r, "target") /\ UNCHANGED unsettled
    <3>1. at' \in [Requests -> Steps] /\ job' \in [Requests -> Job] /\ JobsFit'
      BY <1>1, <1>2, <2>1, <2>4, OneMoves
    <3>. QED
      BY <1>1, <2>1, <2>2, <2>4, <3>1, PoolWritten DEF TypeOK
  <2>. QED
    BY <2>1, <2>3, <2>4
<1>5. ASSUME ReadGroup(r) PROVE AdvInv'
  <2> DEFINE p == PoolOf[j.on]
             k == [j EXCEPT !.level = "pool", !.games = row, !.group = pool[p]]
  <2>1. /\ at[r] = "target" /\ j.on \in Matches /\ p \in Pools
        /\ UNCHANGED <<row, pool, rules, edits, crashes>>
    BY <1>1, <1>5 DEF ReadGroup, Fits
  <2>2. unsettled' \subseteq Competitions
    BY <1>1, <1>5 DEF ReadGroup, TypeOK
  <2>3. End(r) \/ (Put(r, k) /\ Go(r, "rules"))
    BY <1>5 DEF ReadGroup
  <2>4. k \in Job /\ Fits("rules", k)
    <3>1. pool[p] \in Pool /\ SeatsFit(pool[p], p) /\ row \in [Matches -> Match]
      BY <1>1, <2>1, TableFits DEF TypeOK
    <3>. QED
      BY <1>1, <2>1, <3>1 DEF Job, Fits
  <2>5. at' \in [Requests -> Steps] /\ job' \in [Requests -> Job] /\ JobsFit'
    BY <1>1, <2>3, <2>4, OneMoves, OneEnds
  <2>. QED
    BY <1>1, <2>1, <2>2, <2>5, TablesStay DEF TypeOK
<1>6. ASSUME Seal(r) PROVE AdvInv'
  <2> DEFINE p == PoolOf[j.on]
             new == IF j.way = "place" THEN Marked(j.group, j.moved, "completed")
                    ELSE Marked(j.group, {}, "active")
  <2>1. /\ at[r] = "target" /\ j.level = "pool" /\ UNCHANGED <<row, rules, edits, crashes>>
        /\ \/ /\ ~Dangling(new) /\ pool' = [pool EXCEPT ![p] = new]
              /\ End(r) \/ (Go(r, "save") /\ UNCHANGED job)
              /\ unsettled' \subseteq unsettled
           \/ Fail(r) /\ UNCHANGED pool
    BY <1>6 DEF Seal
  <2>2. p \in Pools /\ new \in Pool /\ SeatsFit(new, p)
    <3>1. j.on \in Matches /\ j.group \in Pool /\ SeatsFit(j.group, p)
      BY <1>1, <2>1 DEF Job, Fits
    <3>. QED
      BY <3>1, MarkedFits
  <2> HIDE DEF new
  <2>3. CASE Fail(r) /\ UNCHANGED pool
    BY <2>1, <2>3, FailKeeps
  <2>4. CASE /\ ~Dangling(new) /\ pool' = [pool EXCEPT ![p] = new]
             /\ End(r) \/ (Go(r, "save") /\ UNCHANGED job)
             /\ unsettled' \subseteq unsettled
    <3>1. CASE End(r)
      <4>1. at' \in [Requests -> Steps] /\ job' \in [Requests -> Job] /\ JobsFit'
        BY <1>1, <3>1, OneEnds
      <4>2. unsettled' \subseteq Competitions
        BY <1>1, <2>4 DEF TypeOK
      <4>. QED
        BY <2>1, <2>2, <2>4, <4>1, <4>2, PoolWritten
    <3>2. CASE Go(r, "save") /\ UNCHANGED job
      <4>1. Put(r, j)
        BY <1>1, <3>2 DEF Put, TypeOK
      <4>2. Fits("save", j)
        BY <1>1, <2>1 DEF Fits
      <4>3. at' \in [Requests -> Steps] /\ job' \in [Requests -> Job] /\ JobsFit'
        BY <1>1, <3>2, <4>1, <4>2, OneMoves
      <4>4. unsettled' \subseteq Competitions
        BY <1>1, <2>4 DEF TypeOK
      <4>. QED
        BY <2>1, <2>2, <2>4, <4>3, <4>4, PoolWritten
    <3>. QED
      BY <2>4, <3>1, <3>2
  <2>. QED
    BY <2>1, <2>3, <2>4
<1>. QED
  BY <1>3, <1>4, <1>5, <1>6

\* The steps that save the source, and those of an edit of its rules.
LEMMA SavesKeep ==
  ASSUME AdvInv, NEW r \in Requests,
         \/ Refuse(r) \/ SaveResult(r) \/ SaveReopened(r) \/ SaveScore(r)
         \/ CreateRules(r) \/ StampState(r)
  PROVE  AdvInv'
<1> USE DEF Steps
<1> DEFINE j == job[r]
<1>1. TypeOK /\ JobsFit /\ j \in Job /\ Fits(at[r], j) /\ j.mine \in Aggregate
  BY TableFits DEF AdvInv, Job
<1>2. ASSUME Refuse(r) PROVE AdvInv'
  <2>1. CASE End(r) /\ UNCHANGED unsettled
    BY <1>1, <1>2, <2>1, OneEnds, TablesStay DEF Refuse, TypeOK
  <2>2. CASE Fail(r)
    BY <1>2, <2>2, FailKeeps DEF Refuse
  <2>. QED
    BY <1>2, <2>1, <2>2 DEF Refuse
<1>3. ASSUME SaveResult(r) PROVE AdvInv'
  <2> DEFINE new == Committed(j.mine)
             k == [j EXCEPT !.mine = new, !.way = "place", !.level = "match"]
  <2>1. new \in Aggregate /\ Saved(new) \in Match
    BY <1>1, ResultTypes, SavedType
  <2>2. /\ at[r] = "save" /\ j.op = "commit" /\ row' = [row EXCEPT ![j.on] = Saved(new)]
        /\ Put(r, k) /\ Go(r, "rules")
        /\ UNCHANGED <<pool, rules, unsettled, edits, crashes>>
    BY <1>3 DEF SaveResult
  <2> HIDE DEF new
  <2>3. row' \in [Matches -> Match]
    BY <1>1, <2>1, <2>2 DEF TypeOK
  <2>4. k \in Job /\ Fits("rules", k)
    BY <1>1, <2>1, <2>2 DEF Job, Fits
  <2>5. at' \in [Requests -> Steps] /\ job' \in [Requests -> Job] /\ JobsFit'
    BY <1>1, <2>2, <2>4, OneMoves
  <2>. QED
    BY <1>1, <2>2, <2>3, <2>5, TablesStay DEF TypeOK
<1>4. ASSUME SaveReopened(r) \/ SaveScore(r) PROVE AdvInv'
  <2>1. PICK m \in Match : row' = [row EXCEPT ![j.on] = m]
    BY <1>1, <1>4, ResultTypes, SavedType DEF SaveReopened, SaveScore
  <2>2. row' \in [Matches -> Match]
    BY <1>1, <2>1 DEF TypeOK
  <2>3. End(r) /\ unsettled' \subseteq Competitions /\ UNCHANGED <<pool, rules, edits, crashes>>
    BY <1>1, <1>4 DEF SaveReopened, SaveScore, TypeOK
  <2>. QED
    BY <1>1, <2>2, <2>3, OneEnds, TablesStay
<1>5. ASSUME CreateRules(r) PROVE AdvInv'
  <2>1. /\ rules' = [rules EXCEPT ![j.on] = rules[j.on] \union j.save]
        /\ UNCHANGED <<row, pool, unsettled, edits, crashes>>
        /\ \/ j.on \in Matches /\ Go(r, "refresh") /\ UNCHANGED job
           \/ End(r)
    BY <1>5 DEF CreateRules
  <2>2. at' \in [Requests -> Steps] /\ job' \in [Requests -> Job] /\ JobsFit'
    <3>1. CASE End(r)
      BY <1>1, <3>1, OneEnds
    <3>2. CASE j.on \in Matches /\ Go(r, "refresh") /\ UNCHANGED job
      <4>1. Put(r, j) /\ Fits("refresh", j)
        BY <1>1, <3>2 DEF Put, TypeOK, Fits
      <4>. QED
        BY <1>1, <3>2, <4>1, OneMoves
    <3>. QED
      BY <2>1, <3>1, <3>2
  <2>3. /\ rules' \in [Competitions -> SUBSET Rule]
        /\ \A c \in Competitions : rules[c] \subseteq rules'[c]
    <3>1. j.save \in SUBSET Rule /\ rules \in [Competitions -> SUBSET Rule]
      BY <1>1 DEF Job, TypeOK
    <3>2. rules' = [c \in Competitions |-> IF c = j.on THEN rules[c] \union j.save ELSE rules[c]]
      BY <2>1, <3>1
    <3>3. \A c \in Competitions : rules[c] \in SUBSET Rule /\ rules[c] \union j.save \in SUBSET Rule
      BY <3>1
    <3>. QED
      BY <3>2, <3>3
  <2>4. TypeOK'
    <3>1. UNCHANGED <<row, pool, unsettled, edits, crashes>>
      BY <2>1
    <3>. QED
      BY <1>1, <2>2, <2>3, <3>1 DEF TypeOK
  <2>5. SeatsNameTheirRules'
    <3>1. ASSUME NEW p \in Pools, NEW e \in Entrants, pool[p].seats[e].rule # None
          PROVE  pool[p].seats[e].rule.from \in Competitions
      <4>1. pool[p].seats[e] \in Seat
        BY <1>1 DEF TypeOK, Pool
      <4>2. pool[p].seats[e].rule \in Rule
        BY <3>1, <4>1 DEF Seat
      <4>. QED
        BY <4>2 DEF Rule
    <3>2. pool' = pool
      BY <2>1
    <3>. QED
      BY <2>3, <3>1, <3>2 DEF AdvInv, SeatsNameTheirRules
  <2>. QED
    BY <2>2, <2>4, <2>5 DEF AdvInv
<1>6. ASSUME StampState(r) PROVE AdvInv'
  <2>1. StateOf(j.mine) \in States
    BY <1>1, SavedType
  <2>2. /\ row' = [row EXCEPT ![j.on] = [row[j.on] EXCEPT !.state = StateOf(j.mine)]]
        /\ j.on \in Matches /\ End(r) /\ UNCHANGED <<pool, rules, unsettled, edits, crashes>>
    BY <1>1, <1>6 DEF StampState, Fits
  <2>3. [row[j.on] EXCEPT !.state = StateOf(j.mine)] \in Match
    <3>1. row[j.on] \in Match
      BY <1>1, <2>2 DEF TypeOK
    <3>. QED
      BY <2>1, <3>1 DEF Match
  <2>4. row' \in [Matches -> Match]
    BY <1>1, <2>2, <2>3 DEF TypeOK
  <2>. QED
    BY <1>1, <2>2, <2>4, OneEnds, TablesStay DEF TypeOK
<1>. QED
  BY <1>2, <1>3, <1>4, <1>5, <1>6

\* The process dies and comes back.
LEMMA CrashKeeps ==
  ASSUME AdvInv, Crash
  PROVE  AdvInv'
<1>1. TypeOK /\ JobsFit
  BY DEF AdvInv
<1>2. at' \in [Requests -> Steps] /\ job' \in [Requests -> Job] /\ JobsFit'
  BY BlankTypes, BlankFits DEF Crash, Steps, JobsFit
<1>3. unsettled' \subseteq Competitions
  <2>1. \A r \in Busy : AtStake(r) \subseteq Competitions
    BY <1>1, StakesTypes DEF Busy
  <2>. QED
    BY <1>1, <2>1 DEF Crash, TypeOK
<1>4. TypeOK' /\ UNCHANGED <<pool, rules>>
  BY <1>1, <1>2, <1>3 DEF Crash, TypeOK
<1>. QED
  BY <1>2, <1>4 DEF AdvInv, SeatsNameTheirRules

-----------------------------------------------------------------------------
(* The theorems.                                                           *)

LEMMA AdvInitially == Init => AdvInv
<1>1. SUFFICES ASSUME Init PROVE AdvInv
  OBVIOUS
<1> DEFINE match(m) == [NoMatchHeld.match EXCEPT !.entrants = Entered[m]]
           seats(p) == [e \in Entrants |-> IF e \in Seated[p]
                            THEN [NoSeat EXCEPT !.status = "active"] ELSE NoSeat]
<1>2. \A m \in Matches : match(m) \in Match
  BY BlankTypes DEF Aggregate, Match
<1>3. row \in [Matches -> Match]
  BY <1>1, <1>2 DEF Init
<1>4. \A p \in Pools :
        /\ seats(p) \in [Entrants -> Seat]
        /\ \A e \in Entrants : seats(p)[e].rule = None
  BY DEF NoSeat, Seat
<1>5. pool = [p \in Pools |-> [NoPoolHeld EXCEPT !.seats = seats(p)]]
  BY <1>1 DEF Init, NoPoolHeld
<1> HIDE DEF seats
<1>6. pool \in [Pools -> Pool] /\ \A p \in Pools, e \in Entrants : pool[p].seats[e].rule = None
  BY <1>4, <1>5, BlankTypes DEF Pool
<1>7. TypeOK
  BY <1>1, <1>3, <1>6, BlankTypes DEF Init, TypeOK, Steps
<1>8. JobsFit
  BY <1>1, BlankFits DEF Init, JobsFit
<1>. QED
  BY <1>6, <1>7, <1>8 DEF AdvInv, SeatsNameTheirRules

LEMMA AdvAlways == Spec => []AdvInv
<1>1. AdvInv /\ [Next]_vars => AdvInv'
  <2>1. ASSUME AdvInv, Next PROVE AdvInv'
    <3>1. ASSUME NEW r \in Requests, Step(r) PROVE AdvInv'
      BY <2>1, <3>1, ReadsKeep, WritesKeep, SavesKeep DEF Step
    <3>. QED
      BY <2>1, <3>1, AskKeeps, CrashKeeps DEF Next
  <2>2. ASSUME AdvInv, UNCHANGED vars PROVE AdvInv'
    BY <2>2 DEF vars, AdvInv, TypeOK, JobsFit, SeatsNameTheirRules
  <2>. QED
    BY <2>1, <2>2
<1>. QED
  BY <1>1, AdvInitially, PTL DEF Spec

\* For any bracket, rules and number of requests, restarts included, the tables
\* and the copies requests hold stay of the kind the entities declare.
THEOREM AdvancementTypes == Spec => []TypeOK
<1>1. AdvInv => TypeOK
  BY DEF AdvInv
<1>. QED
  BY <1>1, AdvAlways, PTL

\* For any bracket, rules and number of requests, the rule a seat names exists
\* and leads to the pool of the seat, also when the seat was written from a
\* copy of the pool that another request or an edit of the rules outdated.
THEOREM SeatsStayNamed == Spec => []SeatsNameTheirRules
<1>1. AdvInv => SeatsNameTheirRules
  BY DEF AdvInv
<1>. QED
  BY <1>1, AdvAlways, PTL

-----------------------------------------------------------------------------
(* One request at a time.                                                  *)

OneRequest == \A r, q \in Requests : r = q

Aligned(p) == p \in unsettled \/ (pool[p].state = "completed" <=> Decided(row, p))

\* Request r commits or reopens a match of pool p.
InHand(r, p) ==
    /\ at[r] # "idle" /\ job[r].op \in {"commit", "reopen"}
    /\ job[r].on \in Matches /\ PoolOf[job[r].on] = p

\* What r is at, and what its copies still agree on with the tables: the result
\* of its match and of its target, and the state of the pool it seats.
OnCourse(r) ==
    /\ at[r] \in {"guard", "reload", "rules", "target", "write"}
        => job[r].op \in {"commit", "reopen"}
    /\ at[r] \in {"create", "refresh", "stamp"} => job[r].op = "rules"
    /\ at[r] # "idle" /\ job[r].op \in {"commit", "reopen", "score"} =>
        /\ job[r].on \in Matches
        /\ job[r].mine.match.result = row[job[r].on].result
    /\ at[r] = "write" /\ job[r].target \in Matches =>
        job[r].held.match.result = row[job[r].target].result
    /\ at[r] = "write" /\ job[r].target \in Pools =>
        job[r].seats.state = pool[job[r].target].state

\* How far the pool in hand is: it follows its matches until it is taken back;
\* from then on it is not completed, until everything its matches decide is in
\* its place.
Underway(r, p) ==
    \/ at[r] \in {"guard", "reload"} /\ job[r].way = "remove" /\ Aligned(p)
    \/ /\ at[r] \in {"rules", "target", "write"} /\ job[r].way = "remove"
       /\ Aligned(p) /\ row[job[r].on].result # None
    \/ /\ at[r] \in {"rules", "target", "write"} /\ job[r].way = "place"
       /\ job[r].op = "commit" /\ row[job[r].on].result # None
       /\ p \in unsettled \/ pool[p].state # "completed"
       /\ job[r].level = "pool" => Decided(row, p)
    \/ at[r] = "save" /\ (p \in unsettled \/ pool[p].state # "completed")

PoolInv ==
    /\ \A r \in Requests : OnCourse(r)
    /\ \A p \in Pools : (\A r \in Requests : ~InHand(r, p)) => Aligned(p)
    /\ \A p \in Pools, r \in Requests : InHand(r, p) => Underway(r, p)

\* What is to be shown of the one request, and what is known of it.
LEMMA OneIsAll ==
  ASSUME OneRequest, NEW r \in Requests, OnCourse(r)',
         \A p \in Pools : InHand(r, p)' => Underway(r, p)',
         \A p \in Pools : ~InHand(r, p)' => Aligned(p)'
  PROVE  PoolInv'
<1>1. \A q \in Requests : q = r
  BY DEF OneRequest
<1>. QED
  BY <1>1 DEF PoolInv

LEMMA OneHolds ==
  ASSUME OneRequest, PoolInv, NEW r \in Requests
  PROVE  /\ OnCourse(r)
         /\ \A p \in Pools : InHand(r, p) => Underway(r, p)
         /\ \A p \in Pools : ~InHand(r, p) => Aligned(p)
<1>1. \A q \in Requests : q = r
  BY DEF OneRequest
<1>. QED
  BY <1>1 DEF PoolInv

\* The results and the states of the pools are as they were.
SameResults ==
    /\ \A m \in Matches : row'[m].result = row[m].result
    /\ \A p \in Pools : pool'[p].state = pool[p].state

LEMMA StillDecided ==
  ASSUME \A m \in Matches : row'[m].result = row[m].result
  PROVE  \A p \in Pools : Decided(row', p) <=> Decided(row, p)
BY DEF Decided, MatchesOf

LEMMA StillAligned ==
  ASSUME SameResults, unsettled \subseteq unsettled'
  PROVE  \A p \in Pools : Aligned(p) => Aligned(p)'
<1>1. \A p \in Pools : Decided(row', p) <=> Decided(row, p)
  BY StillDecided DEF SameResults
<1>. QED
  BY <1>1 DEF Aligned, SameResults

LEMMA OpenIsUndecided ==
  ASSUME NEW m \in Matches, row[m].result = None, Aligned(PoolOf[m])
  PROVE  PoolOf[m] \in unsettled \/ pool[PoolOf[m]].state # "completed"
<1>1. ~Decided(row, PoolOf[m])
  BY DEF Decided, MatchesOf
<1>. QED
  BY <1>1 DEF Aligned

LEMMA ResultsKept ==
  /\ \A match \in Match : \A e \in Entrants :
        /\ PlaceEntrant(match, e).result = match.result
        /\ RemoveEntrant(match, e).result = match.result
  /\ \A a \in Aggregate : /\ Saved(a).result = a.match.result
                          /\ Committed(a).match.result # None
                          /\ Reopened(a).match.result = None
<1>1. ASSUME NEW match \in Match, NEW e \in Entrants
      PROVE  /\ PlaceEntrant(match, e).result = match.result
             /\ RemoveEntrant(match, e).result = match.result
  BY DEF Match, PlaceEntrant, RemoveEntrant, Resettled
<1>2. ASSUME NEW a \in Aggregate
      PROVE  /\ Saved(a).result = a.match.result
             /\ Committed(a).match.result # None
             /\ Reopened(a).match.result = None
  <2>1. a.match \in Match
    BY DEF Aggregate
  <2>2. Saved(a).result = a.match.result
    BY <2>1 DEF Saved, Match
  <2> DEFINE points == [e \in Entrants |-> IF e \in a.match.entrants THEN a.match.points[e] ELSE 0]
             result == [who |-> a.match.entrants, points |-> points]
  <2>3. points \in Points
    BY <2>1 DEF Match, Points
  <2>4. result \in Result
    BY <2>1, <2>3 DEF Match, Result
  <2>5. /\ Committed(a) = [a EXCEPT !.match = [a.match EXCEPT !.result = result]]
        /\ Reopened(a) = [a EXCEPT !.match = [a.match EXCEPT !.result = None]]
    BY DEF Committed, Reopened, Aggregate
  <2> HIDE DEF result
  <2>6. Committed(a).match.result = result /\ Reopened(a).match.result = None
    BY <2>1, <2>5 DEF Aggregate, Match
  <2>. QED
    BY <2>2, <2>4, <2>6, ResultAssumption
<1>. QED
  BY <1>1, <1>2

\* A request that ends leaves every pool aligned.
LEMMA EndAligns ==
  ASSUME OneRequest, TypeOK, NEW r \in Requests, End(r), \A p \in Pools : Aligned(p)'
  PROVE  PoolInv'
<1>1. at'[r] = "idle"
  BY DEF End, Go, TypeOK
<1>2. OnCourse(r)' /\ \A p \in Pools : ~InHand(r, p)'
  BY <1>1 DEF OnCourse, InHand
<1>. QED
  BY <1>2, OneIsAll

\* What was under way is at stake.
LEMMA FailAligns ==
  ASSUME OneRequest, TypeOK, PoolInv, NEW r \in Requests, Fail(r), UNCHANGED <<row, pool>>
  PROVE  PoolInv'
<1>1. ASSUME NEW p \in Pools PROVE Aligned(p)'
  <2>1. CASE InHand(r, p)
    BY <2>1 DEF InHand, Fail, AtStake, Aligned
  <2>2. CASE ~InHand(r, p)
    BY <2>2, OneHolds, StillAligned DEF Fail, SameResults
  <2>. QED
    BY <2>1, <2>2
<1>. QED
  BY <1>1, EndAligns DEF Fail

\* A request arrives.
LEMMA AskAligns ==
  ASSUME OneRequest, AdvInv, PoolInv, NEW r \in Requests, Ask(r)
  PROVE  PoolInv'
<1>1. /\ TypeOK /\ at[r] = "idle"
      /\ \A p \in Pools : Aligned(p)
  <2>1. at[r] = "idle"
    BY DEF Ask, Commit, Reopen, Score, DropRules
  <2>. QED
    BY <2>1, OneHolds DEF InHand, AdvInv
<1>2. ASSUME NEW m \in Matches, Commit(r, m) \/ Reopen(r, m) PROVE PoolInv'
  <2>1. SameResults /\ \A p \in Pools : Aligned(p)'
    BY <1>1, <1>2, StillAligned DEF Commit, Reopen, SameResults
  <2> DEFINE k(op) == [Blank EXCEPT !.op = op, !.on = m, !.mine = Load(m), !.way = "remove"]
  <2>0. PICK op \in {"commit", "reopen"} : job'[r] = k(op)
    BY <1>1, <1>2 DEF Commit, Reopen, Put, TypeOK
  <2>2. /\ job'[r].op \in {"commit", "reopen"} /\ job'[r].on = m /\ job'[r].way = "remove"
        /\ job'[r].mine = Load(m) /\ UNCHANGED row
    BY <1>2, <2>0 DEF Commit, Reopen, Blank
  <2> HIDE DEF k
  <2>3. /\ at'[r] \in {"guard", "reload", "rules", "save"}
        /\ at'[r] = "rules" => row[m].result # None
        /\ at'[r] = "save" => row[m].result = None
    BY <1>1, <1>2 DEF Commit, Reopen, Go, Load, TypeOK
  <2>4. OnCourse(r)'
    BY <2>2, <2>3 DEF OnCourse, Load
  <2>5. ASSUME NEW p \in Pools, InHand(r, p)' PROVE Underway(r, p)'
    <3>1. p = PoolOf[m]
      BY <2>2, <2>5 DEF InHand
    <3>2. row'[m].result = None => (p \in unsettled' \/ pool'[p].state # "completed")
      BY <2>1, <3>1 DEF Aligned, Decided, MatchesOf
    <3>. QED
      BY <2>1, <2>2, <2>3, <3>1, <3>2 DEF Underway
  <2>. QED
    BY <2>1, <2>4, <2>5, OneIsAll
<1>3. ASSUME NEW m \in Matches, NEW e \in Entrants, NEW n \in 0..MaxPoints, Score(r, m, e, n)
      PROVE  PoolInv'
  <2>1. \A p \in Pools : Aligned(p)'
    BY <1>1, <1>3, StillAligned DEF Score, SameResults
  <2>2. /\ job'[r].op = "score" /\ job'[r].on = m /\ at'[r] = "save" /\ UNCHANGED row
        /\ job'[r].mine = [Load(m) EXCEPT !.match.points[e] = n]
    BY <1>1, <1>3 DEF Score, Put, Go, Blank, TypeOK
  <2>3. job'[r].mine.match.result = row[m].result
    BY <1>1, <2>2 DEF Load, TypeOK, Match
  <2>4. OnCourse(r)' /\ \A p \in Pools : ~InHand(r, p)'
    BY <2>2, <2>3 DEF OnCourse, InHand
  <2>. QED
    BY <2>1, <2>4, OneIsAll
<1>4. ASSUME NEW c \in Competitions, NEW set \in RulesToSave[c], DropRules(r, c, set)
      PROVE  PoolInv'
  <2>1. \A p \in Pools : pool'[p].state = pool[p].state
    BY <1>1, <1>4 DEF DropRules, TypeOK, Pool
  <2>2. \A p \in Pools : Aligned(p)'
    BY <1>1, <1>4, <2>1, StillAligned DEF DropRules, SameResults
  <2>3. job'[r].op = "rules" /\ at'[r] = "create"
    BY <1>1, <1>4 DEF DropRules, Put, Go, Blank, TypeOK
  <2>4. OnCourse(r)' /\ \A p \in Pools : ~InHand(r, p)'
    BY <2>3 DEF OnCourse, InHand
  <2>. QED
    BY <2>2, <2>4, OneIsAll
<1>5. \A m \in Matches : Recorded[m] \subseteq Entrants
  OBVIOUS
<1>. QED
  BY <1>2, <1>3, <1>4, <1>5 DEF Ask

\* A request that goes on writing what it sends keeps its course.
LEMMA SameCourse ==
  ASSUME OneRequest, AdvInv, PoolInv, NEW r \in Requests, SameResults, UNCHANGED unsettled,
         at[r] \in {"rules", "target", "write"}, at'[r] \in {"rules", "target", "write"},
         job'[r].on = job[r].on, job'[r].op = job[r].op, job'[r].way = job[r].way,
         job'[r].mine = job[r].mine, job'[r].level = job[r].level,
         at'[r] = "write" =>
            /\ job'[r].target \in Matches =>
                  job'[r].held.match.result = row'[job'[r].target].result
            /\ job'[r].target \in Pools => job'[r].seats.state = pool'[job'[r].target].state
  PROVE  PoolInv'
<1>1. /\ OnCourse(r)
      /\ \A p \in Pools : InHand(r, p) => Underway(r, p)
      /\ \A p \in Pools : ~InHand(r, p) => Aligned(p)
  BY OneHolds
<1>2. /\ \A m \in Matches : row'[m].result = row[m].result
      /\ \A p \in Pools : pool'[p].state = pool[p].state
      /\ \A p \in Pools : Decided(row', p) <=> Decided(row, p)
      /\ \A p \in Pools : Aligned(p) => Aligned(p)'
  BY StillAligned, StillDecided DEF SameResults
<1>3. OnCourse(r)'
  BY <1>1, <1>2 DEF OnCourse
<1>4. ASSUME NEW p \in Pools PROVE InHand(r, p)' <=> InHand(r, p)
  BY <1>1 DEF InHand
<1>5. ASSUME NEW p \in Pools, InHand(r, p)' PROVE Underway(r, p)'
  <2>1. InHand(r, p) /\ Underway(r, p) /\ job[r].on \in Matches
    BY <1>1, <1>4, <1>5 DEF InHand
  <2>. QED
    BY <1>2, <2>1 DEF Underway
<1>. QED
  BY <1>1, <1>2, <1>3, <1>4, <1>5, OneIsAll

\* The steps that write nothing.
LEMMA ReadsAlign ==
  ASSUME OneRequest, AdvInv, PoolInv, NEW r \in Requests,
         Guard(r) \/ Reload(r) \/ ReadRules(r) \/ LoadTarget(r) \/ LoadState(r)
  PROVE  PoolInv'
<1> DEFINE j == job[r]  k == job'[r]
<1>1. /\ TypeOK /\ j \in Job /\ Fits(at[r], j) /\ OnCourse(r)
      /\ \A p \in Pools : InHand(r, p) => Underway(r, p)
      /\ \A p \in Pools : ~InHand(r, p) => Aligned(p)
  BY TableFits, OneHolds DEF AdvInv
<1>2. SameResults /\ UNCHANGED <<row, pool, unsettled>>
  BY DEF SameResults, Guard, Reload, ReadRules, LoadTarget, LoadState
<1>3. \A p \in Pools : Aligned(p) => Aligned(p)'
  BY <1>2, StillAligned
<1>4. ASSUME Guard(r) PROVE PoolInv'
  <2>1. \A p \in Pools : Aligned(p)
    BY <1>1, <1>4 DEF Guard, Underway
  <2>2. CASE End(r)
    BY <1>1, <1>3, <2>1, <2>2, EndAligns
  <2>3. CASE Go(r, "reload") /\ UNCHANGED job
    <3>1. at'[r] = "reload" /\ k = j /\ at[r] = "guard"
      BY <1>1, <1>4, <2>3 DEF Go, TypeOK, Guard
    <3>2. OnCourse(r)'
      BY <1>1, <1>2, <3>1 DEF OnCourse
    <3>3. \A p \in Pools : Aligned(p)' /\ (InHand(r, p)' => InHand(r, p))
      BY <1>3, <2>1, <3>1 DEF InHand
    <3>4. \A p \in Pools : InHand(r, p)' => Underway(r, p)'
      BY <1>1, <3>1, <3>3 DEF Underway
    <3>. QED
      BY <3>2, <3>3, <3>4, OneIsAll
  <2>. QED
    BY <1>4, <2>2, <2>3 DEF Guard
<1>5. ASSUME Reload(r) PROVE PoolInv'
  <2>1. /\ at[r] = "reload" /\ j.on \in Matches /\ j.op \in {"commit", "reopen"}
        /\ \A p \in Pools : Aligned(p)
    BY <1>1, <1>5 DEF Reload, Underway, OnCourse, Fits
  <2>2. /\ k = [j EXCEPT !.mine = Load(j.on)]
        /\ at'[r] = IF row[j.on].result # None THEN "rules" ELSE "save"
    BY <1>1, <1>5 DEF Reload, Put, Go, TypeOK
  <2>3. k.on = j.on /\ k.op = j.op /\ k.way = j.way /\ k.mine.match = row[j.on]
    BY <2>2 DEF Job, Load
  <2>4. OnCourse(r)'
    BY <1>2, <2>1, <2>2, <2>3 DEF OnCourse
  <2>5. ASSUME NEW p \in Pools, InHand(r, p)' PROVE Underway(r, p)'
    <3>1. p = PoolOf[j.on] /\ Aligned(p)'
      BY <1>3, <2>1, <2>3, <2>5 DEF InHand
    <3>2. row'[j.on].result = None => (p \in unsettled' \/ pool'[p].state # "completed")
      BY <2>1, <3>1 DEF Aligned, Decided, MatchesOf
    <3>3. j.way = "remove"
      BY <1>1, <2>1, <2>3, <3>1 DEF InHand, Underway
    <3>. QED
      BY <1>2, <2>2, <2>3, <3>1, <3>2, <3>3 DEF Underway
  <2>. QED
    BY <1>3, <2>1, <2>4, <2>5, OneIsAll
<1>6. ASSUME ReadRules(r) PROVE PoolInv'
  <2>1. PICK moves : k = [j EXCEPT !.todo = moves, !.moved = {v.who : v \in moves}]
    BY <1>1, <1>6 DEF ReadRules, Put, TypeOK
  <2>2. at[r] = "rules" /\ at'[r] = "target"
    BY <1>1, <1>6 DEF ReadRules, Go, TypeOK
  <2>3. /\ k.on = j.on /\ k.op = j.op /\ k.way = j.way /\ k.mine = j.mine /\ k.level = j.level
    BY <2>1 DEF Job
  <2>. QED
    BY <1>1, <1>2, <2>2, <2>3, SameCourse
<1>7. ASSUME LoadTarget(r) PROVE PoolInv'
  <2>1. at[r] = "target" /\ (at'[r] = "target" \/ at'[r] = "write")
    BY <1>1, <1>7 DEF LoadTarget, Go, TypeOK
  <2>2. PICK due : due = Due(j.todo)
    OBVIOUS
  <2>3. PICK c : c = First(due).rule.to
    OBVIOUS
  <2>4. \/ k = [j EXCEPT !.todo = @ \ due] /\ at'[r] = at[r]
        \/ k = [j EXCEPT !.todo = @ \ due, !.moves = due, !.target = c,
                         !.held = IF c \in Matches THEN Load(c) ELSE NoMatchHeld,
                         !.seats = IF c \in Pools THEN pool[c] ELSE NoPoolHeld]
    BY <1>1, <1>7, <2>2, <2>3, ZenonT(40) DEF LoadTarget, Put, TypeOK
  <2>5. k.on = j.on /\ k.op = j.op /\ k.way = j.way /\ k.mine = j.mine /\ k.level = j.level
    <3>1. j \in Job
      BY <1>1
    <3>2. CASE k = [j EXCEPT !.todo = @ \ due]
      BY <3>1, <3>2 DEF Job
    <3>3. CASE k # [j EXCEPT !.todo = @ \ due]
      BY <2>4, <3>1, <3>3, ZenonT(40) DEF Job
    <3>. QED
      BY <3>2, <3>3
  <2>6. at'[r] = "write" =>
           /\ k.target \in Matches => k.held = Load(k.target)
           /\ k.target \in Pools => k.seats = pool[k.target]
    <3>1. SUFFICES ASSUME at'[r] = "write"
                   PROVE  /\ k.target \in Matches => k.held = Load(k.target)
                          /\ k.target \in Pools => k.seats = pool[k.target]
      OBVIOUS
    <3>2. /\ k.target = c
          /\ k.held = IF c \in Matches THEN Load(c) ELSE NoMatchHeld
          /\ k.seats = IF c \in Pools THEN pool[c] ELSE NoPoolHeld
      BY <1>1, <2>1, <2>4, <3>1 DEF Job
    <3>. QED
      BY <3>2
  <2>. QED
    BY <1>1, <1>2, <2>1, <2>5, <2>6, SameCourse DEF Load
<1>8. ASSUME LoadState(r) PROVE PoolInv'
  <2>1. k.op = j.op /\ at[r] = "refresh" /\ at'[r] = "stamp"
    BY <1>1, <1>8 DEF LoadState, Put, Go, TypeOK, Job
  <2>2. OnCourse(r)' /\ \A p \in Pools : ~InHand(r, p) /\ ~InHand(r, p)'
    BY <1>1, <2>1 DEF OnCourse, InHand
  <2>. QED
    BY <1>1, <1>3, <2>2, OneIsAll
<1>. QED
  BY <1>4, <1>5, <1>6, <1>7, <1>8

\* The steps that write the target of a move.
LEMMA WritesAlign ==
  ASSUME OneRequest, AdvInv, PoolInv, NEW r \in Requests, WriteMatch(r) \/ WritePool(r)
  PROVE  PoolInv'
<1> DEFINE j == job[r]  k == job'[r]
<1>1. TypeOK /\ j \in Job /\ Fits(at[r], j) /\ OnCourse(r)
  BY TableFits, OneHolds DEF AdvInv
<1>2. ASSUME PutDown(r), Go(r, "target")
      PROVE  /\ at'[r] = "target" /\ k.on = j.on /\ k.op = j.op /\ k.way = j.way
             /\ k.mine = j.mine /\ k.level = j.level
  BY <1>1, <1>2 DEF PutDown, Put, Go, TypeOK, Job
<1>3. ASSUME WriteMatch(r) PROVE PoolInv'
  <2>1. /\ at[r] = "write" /\ j.target \in Matches /\ PutDown(r) /\ Go(r, "target")
        /\ UNCHANGED <<pool, unsettled>>
    BY <1>3 DEF WriteMatch
  <2>2. /\ j.held \in Aggregate /\ j.held.match \in Match
        /\ j.held.match.result = row[j.target].result
    BY <1>1, <2>1 DEF Job, Aggregate, OnCourse
  <2>3. PICK match : match = Written(j.way, j.held.match, j.moves)
    OBVIOUS
  <2>4. match \in Match
    BY <1>1, <2>1, <2>2, <2>3, WrittenType DEF Fits, Job
  <2>5. match.result = j.held.match.result
    <3>1. PICK e : e = First(j.moves).who
      OBVIOUS
    <3>2. e \in Entrants
      BY <1>1, <2>1, <3>1, FirstIsOne DEF Fits, Job, Move
    <3>. QED
      BY <2>2, <2>3, <3>1, <3>2, ResultsKept DEF Written
  <2>6. PICK new : new = [j.held EXCEPT !.match = match]
    OBVIOUS
  <2>7. new \in Aggregate /\ new.match = match
    BY <2>2, <2>4, <2>6 DEF Aggregate
  <2>10. Saved(new).result = row[j.target].result
    BY <2>2, <2>5, <2>7, ResultsKept
  <2>8. row' = [row EXCEPT ![j.target] = Saved(new)] /\ Saved(new).result = row[j.target].result
    BY <1>3, <2>3, <2>6, <2>10 DEF WriteMatch
  <2>9. SameResults
    BY <1>1, <2>1, <2>8 DEF SameResults, TypeOK
  <2>. QED
    BY <1>2, <2>1, <2>9, SameCourse
<1>4. ASSUME WritePool(r) PROVE PoolInv'
  <2>1. PICK new : new = IF j.way = "place" THEN SeatsPlaced(j.seats, j.moves)
                         ELSE SeatsReleased(j.seats, j.moves)
    OBVIOUS
  <2>2. /\ at[r] = "write" /\ j.target \in Pools /\ UNCHANGED row
        /\ \/ /\ pool' = [pool EXCEPT ![j.target] = new]
              /\ PutDown(r) /\ Go(r, "target") /\ UNCHANGED unsettled
           \/ Fail(r) /\ UNCHANGED pool
    BY <1>4, <2>1 DEF WritePool
  <2>3. new.state = j.seats.state /\ j.seats.state = pool[j.target].state
    BY <1>1, <2>1, <2>2 DEF SeatsPlaced, SeatsReleased, Job, Pool, OnCourse
  <2>4. CASE Fail(r) /\ UNCHANGED pool
    BY <1>1, <2>2, <2>4, FailAligns
  <2>5. CASE pool' = [pool EXCEPT ![j.target] = new] /\ PutDown(r) /\ Go(r, "target")
             /\ UNCHANGED unsettled
    <3>1. SameResults
      BY <1>1, <2>2, <2>3, <2>5 DEF SameResults, TypeOK
    <3>. QED
      BY <1>2, <2>2, <2>5, <3>1, SameCourse
  <2>. QED
    BY <2>2, <2>4, <2>5
<1>. QED
  BY <1>3, <1>4

\* The matches of the pool are read, and the pool is saved.
LEMMA SealAligns ==
  ASSUME OneRequest, AdvInv, PoolInv, NEW r \in Requests, ReadGroup(r) \/ Seal(r)
  PROVE  PoolInv'
<1> DEFINE j == job[r]  k == job'[r]
<1>1. /\ TypeOK /\ j \in Job /\ OnCourse(r)
      /\ \A p \in Pools : InHand(r, p) => Underway(r, p)
      /\ \A p \in Pools : ~InHand(r, p) => Aligned(p)
  BY TableFits, OneHolds DEF AdvInv
<1>2. PICK g : g = PoolOf[j.on]
  OBVIOUS
<1>3. /\ at[r] = "target" /\ j.on \in Matches /\ g \in Pools /\ j.op \in {"commit", "reopen"}
      /\ InHand(r, g) /\ Underway(r, g) /\ UNCHANGED row
      /\ \A p \in Pools \ {g} : Aligned(p)
  <2>1. at[r] = "target" /\ UNCHANGED row
    BY DEF ReadGroup, Seal
  <2>2. j.op \in {"commit", "reopen"} /\ j.on \in Matches
    BY <1>1, <2>1 DEF OnCourse
  <2>. QED
    BY <1>1, <1>2, <2>1, <2>2 DEF InHand
<1>4. ASSUME ReadGroup(r) PROVE PoolInv'
  <2>1. CASE j.way = "place" /\ ~Decided(row, g)
    <3>1. End(r) /\ unsettled' = unsettled \ {j.on} /\ UNCHANGED <<row, pool>>
      BY <1>2, <1>4, <2>1 DEF ReadGroup
    <3>2. g \in unsettled \/ pool[g].state # "completed"
      BY <1>3, <2>1 DEF Underway
    <3>3. \A p \in Pools : p # j.on
      BY <1>3
    <3>4. \A p \in Pools : Aligned(p)'
      BY <1>3, <2>1, <3>1, <3>2, <3>3 DEF Aligned
    <3>. QED
      BY <1>1, <3>1, <3>4, EndAligns
  <2>2. CASE ~(j.way = "place" /\ ~Decided(row, g))
    <3>1. /\ at'[r] = "rules" /\ UNCHANGED <<row, pool, unsettled>>
          /\ k = [j EXCEPT !.level = "pool", !.games = row, !.group = pool[g]]
      BY <1>1, <1>2, <1>4, <2>2 DEF ReadGroup, Put, Go, TypeOK
    <3>2. k.on = j.on /\ k.op = j.op /\ k.way = j.way /\ k.mine = j.mine
      BY <1>1, <3>1 DEF Job
    <3>3. OnCourse(r)'
      BY <1>1, <1>3, <3>1, <3>2 DEF OnCourse
    <3>4. Underway(r, g)'
      BY <1>1, <1>3, <2>2, <3>1, <3>2 DEF Underway, Aligned
    <3>5. \A p \in Pools : InHand(r, p)' <=> p = g
      BY <1>2, <1>3, <3>1, <3>2 DEF InHand
    <3>6. \A p \in Pools \ {g} : Aligned(p)'
      BY <1>3, <3>1 DEF Aligned
    <3>. QED
      BY <3>3, <3>4, <3>5, <3>6, OneIsAll
  <2>. QED
    BY <2>1, <2>2
<1>5. ASSUME Seal(r) PROVE PoolInv'
  <2>1. PICK new : new = IF j.way = "place" THEN Marked(j.group, j.moved, "completed")
                         ELSE Marked(j.group, {}, "active")
    OBVIOUS
  <2>2. \/ /\ pool' = [pool EXCEPT ![g] = new]
           /\ \/ /\ j.way = "place" /\ End(r)
                 /\ unsettled' = unsettled \ {j.on, g}
              \/ /\ j.way = "remove" /\ Go(r, "save")
                 /\ unsettled' = unsettled \ {g} /\ UNCHANGED job
        \/ Fail(r) /\ UNCHANGED pool
    BY <1>2, <1>5, <2>1 DEF Seal
  <2>3. /\ j.way = "place" => new.state = "completed"
        /\ j.way = "remove" => new.state = "active"
    BY <2>1 DEF Marked
  <2>4. CASE Fail(r) /\ UNCHANGED pool
    BY <1>1, <1>3, <2>4, FailAligns
  <2>5. ASSUME pool' = [pool EXCEPT ![g] = new], unsettled \ {j.on, g} \subseteq unsettled'
        PROVE  pool'[g] = new /\ \A p \in Pools \ {g} : Aligned(p)'
    <3>1. pool'[g] = new /\ \A p \in Pools \ {g} : pool'[p] = pool[p]
      BY <1>1, <1>3, <2>5 DEF TypeOK
    <3>2. \A p \in Pools \ {g} : p \in unsettled => p \in unsettled'
      BY <1>3, <2>5
    <3>. QED
      BY <1>3, <3>1, <3>2, StillDecided DEF Aligned
  <2>6. CASE /\ pool' = [pool EXCEPT ![g] = new] /\ j.way = "place" /\ End(r)
             /\ unsettled' = unsettled \ {j.on, g}
    <3>1. Decided(row, g)
      BY <1>3, <1>5, <2>6 DEF Underway, Seal
    <3>2. Aligned(g)'
      BY <1>3, <2>3, <2>5, <2>6, <3>1 DEF Aligned
    <3>. QED
      BY <1>1, <2>5, <2>6, <3>2, EndAligns
  <2>7. CASE /\ pool' = [pool EXCEPT ![g] = new] /\ j.way = "remove" /\ Go(r, "save")
             /\ unsettled' = unsettled \ {g} /\ UNCHANGED job
    <3>1. at'[r] = "save" /\ k = j
      BY <1>1, <2>7 DEF Go, TypeOK
    <3>2. OnCourse(r)'
      BY <1>1, <1>3, <3>1 DEF OnCourse
    <3>3. Underway(r, g)'
      BY <2>3, <2>5, <2>7, <3>1 DEF Underway
    <3>4. \A p \in Pools : InHand(r, p)' <=> p = g
      BY <1>2, <1>3, <3>1 DEF InHand
    <3>. QED
      BY <2>5, <2>7, <3>2, <3>3, <3>4, OneIsAll
  <2>. QED
    BY <2>2, <2>4, <2>6, <2>7
<1>. QED
  BY <1>4, <1>5

\* The match is saved.
LEMMA SavesAlign ==
  ASSUME OneRequest, AdvInv, PoolInv, NEW r \in Requests,
         Refuse(r) \/ SaveResult(r) \/ SaveReopened(r) \/ SaveScore(r)
  PROVE  PoolInv'
<1> DEFINE j == job[r]  k == job'[r]
<1>1. /\ TypeOK /\ j \in Job /\ j.mine \in Aggregate /\ OnCourse(r)
      /\ \A p \in Pools : InHand(r, p) => Underway(r, p)
      /\ \A p \in Pools : ~InHand(r, p) => Aligned(p)
  BY TableFits, OneHolds DEF AdvInv, Job
<1>2. PICK g : g = PoolOf[j.on]
  OBVIOUS
<1>3. /\ at[r] = "save" /\ j.on \in Matches /\ g \in Pools /\ UNCHANGED pool
      /\ j.mine.match.result = row[j.on].result
      /\ \A p \in Pools \ {g} : Aligned(p)
      /\ j.op \in {"commit", "reopen"} => (g \in unsettled \/ pool[g].state # "completed")
      /\ j.op = "score" => Aligned(g)
  <2>1. at[r] = "save" /\ UNCHANGED pool /\ j.op \in {"commit", "reopen", "score"}
    BY DEF Refuse, SaveResult, SaveReopened, SaveScore
  <2>2. j.on \in Matches /\ g \in Pools /\ j.mine.match.result = row[j.on].result
    BY <1>1, <1>2, <2>1 DEF OnCourse
  <2>3. \A p \in Pools : InHand(r, p) <=> p = g /\ j.op \in {"commit", "reopen"}
    BY <1>2, <2>1, <2>2 DEF InHand
  <2>. QED
    BY <1>1, <2>1, <2>2, <2>3 DEF Underway
<1>4. ASSUME NEW new \in Aggregate, row' = [row EXCEPT ![j.on] = Saved(new)]
      PROVE  /\ row'[j.on].result = new.match.result
             /\ \A m \in Matches \ {j.on} : row'[m] = row[m]
             /\ \A p \in Pools \ {g} : Decided(row', p) <=> Decided(row, p)
  <2>1. /\ row'[j.on] = Saved(new)
        /\ \A m \in Matches \ {j.on} : row'[m] = row[m]
    BY <1>1, <1>3, <1>4 DEF TypeOK
  <2>2. Saved(new).result = new.match.result
    BY <1>4, ResultsKept
  <2>3. ASSUME NEW p \in Pools \ {g} PROVE \A m \in MatchesOf(p) : m \in Matches \ {j.on}
    BY <1>2 DEF MatchesOf
  <2>. QED
    BY <2>1, <2>2, <2>3 DEF Decided
<1>5. ASSUME Refuse(r) PROVE PoolInv'
  <2>1. CASE j.mine.match.result = None
    <3>1. End(r) /\ UNCHANGED <<row, pool, unsettled>>
      BY <1>5, <2>1 DEF Refuse
    <3>2. ~Decided(row, g) /\ (g \in unsettled \/ pool[g].state # "completed")
      BY <1>2, <1>3, <1>5, <2>1 DEF Decided, MatchesOf, Refuse
    <3>3. \A p \in Pools : Aligned(p)'
      BY <1>3, <3>1, <3>2 DEF Aligned
    <3>. QED
      BY <1>1, <3>1, <3>3, EndAligns
  <2>2. CASE j.mine.match.result # None
    BY <1>1, <1>5, <2>2, FailAligns DEF Refuse
  <2>. QED
    BY <2>1, <2>2
<1>6. ASSUME SaveResult(r) PROVE PoolInv'
  <2>1. PICK new : new = Committed(j.mine)
    OBVIOUS
  <2>2. new \in Aggregate /\ new.match.result # None
    BY <1>1, <2>1, ResultTypes, ResultsKept
  <2>3. /\ row' = [row EXCEPT ![j.on] = Saved(new)] /\ j.op = "commit" /\ UNCHANGED <<pool, unsettled>>
        /\ k = [j EXCEPT !.mine = new, !.way = "place", !.level = "match"]
        /\ at'[r] = "rules"
    BY <1>1, <1>6, <2>1 DEF SaveResult, Put, Go, TypeOK
  <2>4. k.on = j.on /\ k.op = "commit" /\ k.way = "place" /\ k.mine = new /\ k.level = "match"
    BY <1>1, <2>3 DEF Job
  <2>5. /\ row'[j.on].result = new.match.result
        /\ \A p \in Pools \ {g} : Decided(row', p) <=> Decided(row, p)
    BY <1>4, <2>2, <2>3
  <2>6. OnCourse(r)'
    BY <1>3, <2>3, <2>4, <2>5 DEF OnCourse
  <2>7. Underway(r, g)'
    BY <1>3, <2>2, <2>3, <2>4, <2>5 DEF Underway
  <2>8. \A p \in Pools : InHand(r, p)' <=> p = g
    BY <1>2, <1>3, <2>3, <2>4 DEF InHand
  <2>9. \A p \in Pools \ {g} : Aligned(p)'
    BY <1>3, <2>3, <2>5 DEF Aligned
  <2>. QED
    BY <2>6, <2>7, <2>8, <2>9, OneIsAll
<1>7. ASSUME SaveReopened(r) PROVE PoolInv'
  <2>1. PICK new : new = Reopened(j.mine)
    OBVIOUS
  <2>2. new \in Aggregate /\ new.match.result = None
    BY <1>1, <2>1, ResultTypes, ResultsKept
  <2>3. /\ row' = [row EXCEPT ![j.on] = Saved(new)] /\ j.op = "reopen" /\ UNCHANGED pool
        /\ End(r) /\ unsettled' = unsettled \ {j.on}
    BY <1>7, <2>1 DEF SaveReopened
  <2>4. /\ row'[j.on].result = None
        /\ \A p \in Pools \ {g} : Decided(row', p) <=> Decided(row, p)
    BY <1>4, <2>2, <2>3
  <2>5. ~Decided(row', g)
    BY <1>2, <1>3, <2>4 DEF Decided, MatchesOf
  <2>6. \A p \in Pools : p \in unsettled' <=> p \in unsettled
    BY <1>3, <2>3
  <2>7. \A p \in Pools : Aligned(p)'
    BY <1>3, <2>3, <2>4, <2>5, <2>6 DEF Aligned
  <2>. QED
    BY <1>1, <2>3, <2>7, EndAligns
<1>8. ASSUME SaveScore(r) PROVE PoolInv'
  <2>1. row' = [row EXCEPT ![j.on] = Saved(j.mine)] /\ j.op = "score" /\ End(r) /\ UNCHANGED <<pool, unsettled>>
    BY <1>8 DEF SaveScore
  <2>2. /\ row'[j.on].result = j.mine.match.result
        /\ \A m \in Matches \ {j.on} : row'[m] = row[m]
    BY <1>1, <1>4, <2>1
  <2>3. SameResults
    BY <1>3, <2>1, <2>2 DEF SameResults
  <2>4. \A p \in Pools : Aligned(p)'
    BY <1>3, <2>1, <2>3, StillAligned
  <2>. QED
    BY <1>1, <2>1, <2>4, EndAligns
<1>. QED
  BY <1>5, <1>6, <1>7, <1>8

\* An edit of rules comes to its end.
LEMMA EditsAlign ==
  ASSUME OneRequest, AdvInv, PoolInv, NEW r \in Requests, CreateRules(r) \/ StampState(r)
  PROVE  PoolInv'
<1> DEFINE j == job[r]
<1>1. /\ TypeOK /\ j \in Job /\ j.op = "rules" /\ UNCHANGED <<pool, unsettled>>
      /\ \A p \in Pools : ~InHand(r, p) /\ Aligned(p)
  <2>1. at[r] \in {"create", "stamp"}
    BY DEF CreateRules, StampState
  <2>2. j.op = "rules"
    BY <2>1, OneHolds DEF OnCourse
  <2>3. \A p \in Pools : ~InHand(r, p)
    BY <2>2 DEF InHand
  <2>. QED
    BY <2>2, <2>3, TableFits, OneHolds DEF AdvInv, CreateRules, StampState
<1>2. SameResults
  <2>1. CASE CreateRules(r)
    BY <2>1 DEF SameResults, CreateRules
  <2>2. CASE StampState(r)
    BY <1>1, <2>2 DEF SameResults, StampState, TypeOK, Match
  <2>. QED
    BY <2>1, <2>2
<1>3. \A p \in Pools : Aligned(p)'
  BY <1>1, <1>2, StillAligned
<1>4. CASE End(r)
  BY <1>1, <1>3, <1>4, EndAligns
<1>5. CASE Go(r, "refresh") /\ UNCHANGED job
  <2>1. at'[r] = "refresh" /\ job'[r] = j
    BY <1>1, <1>5 DEF Go, TypeOK
  <2>2. OnCourse(r)' /\ \A p \in Pools : ~InHand(r, p)'
    BY <1>1, <2>1 DEF OnCourse, InHand
  <2>. QED
    BY <1>3, <2>2, OneIsAll
<1>. QED
  BY <1>4, <1>5 DEF CreateRules, StampState

\* The process dies and comes back.
LEMMA CrashAligns ==
  ASSUME OneRequest, PoolInv, Crash
  PROVE  PoolInv'
<1>1. \A q \in Requests : at'[q] = "idle"
  BY DEF Crash
<1>2. \A q \in Requests : OnCourse(q)' /\ \A p \in Pools : ~InHand(q, p)'
  BY <1>1 DEF OnCourse, InHand
<1>3. ASSUME NEW p \in Pools PROVE Aligned(p)'
  <2>1. CASE \E q \in Requests : InHand(q, p)
    <3>1. PICK q \in Requests : InHand(q, p)
      BY <2>1
    <3>2. q \in Busy /\ p \in AtStake(q)
      BY <3>1 DEF InHand, Busy, AtStake
    <3>. QED
      BY <3>2 DEF Crash, Aligned
  <2>2. CASE ~ \E q \in Requests : InHand(q, p)
    <3>1. Aligned(p)
      BY <2>2 DEF PoolInv
    <3>. QED
      BY <3>1, StillAligned DEF Crash, SameResults
  <2>. QED
    BY <2>1, <2>2
<1>. QED
  BY <1>2, <1>3 DEF PoolInv

LEMMA PoolsInitially ==
  ASSUME Init
  PROVE  PoolInv
<1>1. \A q \in Requests : at[q] = "idle"
  BY DEF Init
<1>2. \A q \in Requests : OnCourse(q) /\ \A p \in Pools : ~InHand(q, p)
  BY <1>1 DEF OnCourse, InHand
<1>3. ASSUME NEW m \in Matches PROVE row[m].result = None
  BY DEF Init, NoMatchHeld
<1>4. ASSUME NEW p \in Pools PROVE pool[p].state = "pending"
  BY DEF Init, NoPoolHeld
<1>5. \A p \in Pools : Aligned(p)
  BY <1>3, <1>4 DEF Aligned, Decided, MatchesOf
<1>. QED
  BY <1>2, <1>5 DEF PoolInv

LEMMA PoolsAlways ==
  ASSUME OneRequest
  PROVE  Spec => []PoolInv
<1>1. AdvInv /\ PoolInv /\ [Next]_vars => PoolInv'
  <2>1. ASSUME AdvInv, PoolInv, NEW r \in Requests, Step(r) PROVE PoolInv'
    BY <2>1, ReadsAlign, WritesAlign, SealAligns, SavesAlign, EditsAlign DEF Step
  <2>2. ASSUME AdvInv, PoolInv, UNCHANGED vars PROVE PoolInv'
    BY <2>2, StillAligned DEF vars, PoolInv, OnCourse, InHand, Underway, Aligned
  <2>. QED
    BY <2>1, <2>2, AskAligns, CrashAligns DEF Next
<1>2. Init => PoolInv
  BY PoolsInitially
<1>. QED
  BY <1>1, <1>2, AdvAlways, PTL DEF Spec

\* For any bracket, rules and restarts: if requests follow one another, a pool
\* is completed exactly if all its matches have results, whenever no request is
\* under way, except where a commit or a reopening was cut short.
THEOREM PoolsFollow ==
  ASSUME OneRequest
  PROVE  Spec => []PoolFollowsItsMatches
<1>1. PoolInv => PoolFollowsItsMatches
  <2>1. SUFFICES ASSUME PoolInv, Quiet, NEW p \in Pools \ unsettled
                 PROVE  pool[p].state = "completed" <=> Decided(row, p)
    BY DEF PoolFollowsItsMatches
  <2>2. \A r \in Requests : ~InHand(r, p)
    BY <2>1 DEF Quiet, Busy, InHand
  <2>. QED
    BY <2>1, <2>2 DEF PoolInv, Aligned
<1>. QED
  BY <1>1, PoolsAlways, PTL

-----------------------------------------------------------------------------
(* Whom results send on is there.                                          *)

\* A rule of c, stored or to be stored.
RuleFits(c, rule) == rule.from = c /\ rule.to # c /\ Leads(c, rule.to)

\* Nothing has been sent by the rules of c.
Unapplied(c) ==
    /\ c \in Matches => row[c].result = None
    /\ c \in Pools => pool[c].state # "completed"

RulesLead ==
    /\ \A c \in Competitions : \A rule \in rules[c] : RuleFits(c, rule)
    /\ \A r \in Requests : at[r] = "create" =>
        /\ \A rule \in job[r].save : RuleFits(job[r].on, rule)
        /\ job[r].on \in Competitions
        /\ job[r].on \in unsettled \/ Unapplied(job[r].on)

ReachedOnly(reach) ==
    \A m \in Matches :
        /\ row[m].entrants \subseteq reach[m]
        /\ row[m].result # None => row[m].result.who \subseteq reach[m]

\* Whose rules r follows.
Source(r) == IF job[r].level = "match" THEN job[r].on ELSE PoolOf[job[r].on]

Following == {"rules", "target", "write"}

\* What r has in memory is what the tables hold.
CopiesAreCurrent(r) ==
    /\ at[r] \in Following \union {"guard", "reload", "save"} =>
        /\ job[r].on \in Matches
        /\ job[r].mine.match.entrants = row[job[r].on].entrants
        /\ job[r].mine.match.result = row[job[r].on].result
    /\ at[r] = "rules" /\ job[r].way = "place" /\ job[r].level = "match" =>
        job[r].mine.match.result.who = job[r].mine.match.entrants
    /\ at[r] = "write" =>
        /\ job[r].target \in Matches => job[r].held.match = row[job[r].target]
        /\ job[r].target \in Pools => job[r].seats = pool[job[r].target]
    /\ at[r] \in Following /\ job[r].level = "pool" =>
        /\ job[r].group = pool[PoolOf[job[r].on]]
        /\ \A m \in MatchesOf(PoolOf[job[r].on]) : job[r].games[m] = row[m]

\* It moves those its source may send, by the rules of the source.
MovesAreOwn(reach, r) ==
    /\ at[r] \in {"target", "write"} => \A v \in job[r].todo \union job[r].moves :
        v.rule \in rules[Source(r)] /\ v.who \in reach[Source(r)]
    /\ at[r] \in {"guard", "reload", "rules", "target", "save"} => job[r].moves = {}
    /\ at[r] = "write" /\ job[r].target \in Matches =>
        \E v \in job[r].moves : job[r].moves = {v}

\* e is there, or still to be sent.
SentOrToSend(r, e, rule) ==
    \/ Holds(rule.to, e)
    \/ [who |-> e, rule |-> rule] \in job[r].todo \union job[r].moves

\* While r places: those its match sends, then those the pool of it will send.
MatchCarried(r) ==
    at[r] \in Following /\ job[r].way = "place" =>
        \A rule \in rules[job[r].on] : \A e \in SentOn(job[r].on, rule) :
            IF job[r].level = "pool" THEN Holds(rule.to, e)
            ELSE at[r] = "rules" \/ SentOrToSend(r, e, rule)

PoolCarried(r) ==
    at[r] \in {"target", "write"} /\ job[r].way = "place" /\ job[r].level = "pool" =>
        \A rule \in rules[PoolOf[job[r].on]] : \A e \in InPool(row, PoolOf[job[r].on]) :
            PlaceInPool(row, PoolOf[job[r].on], e) = rule.placement => SentOrToSend(r, e, rule)

\* r is taking back what c sent, or sending it.
Away(r, c) ==
    /\ job[r].op \in {"commit", "reopen"} /\ job[r].on \in Matches
    /\ \/ at[r] \in Following /\ job[r].way = "remove" /\ c \in {job[r].on, PoolOf[job[r].on]}
       \/ at[r] = "save" /\ c = job[r].on
       \/ at[r] \in Following /\ job[r].way = "place" /\ c = job[r].on

Served(c) == \A rule \in rules[c] : \A e \in SentOn(c, rule) : Holds(rule.to, e)

Carried ==
    \A c \in Competitions \ unsettled : Served(c) \/ \E r \in Requests : Away(r, c)

CarryInv(reach) ==
    /\ RulesLead /\ ReachedOnly(reach) /\ Carried
    /\ \A r \in Requests :
        CopiesAreCurrent(r) /\ MovesAreOwn(reach, r) /\ MatchCarried(r) /\ PoolCarried(r)


-----------------------------------------------------------------------------
(* Results and places.                                                     *)

\* The total of earned points over the matches of p.
Totals(p, earned) ==
    CHOOSE iter : iter = [s \in SUBSET MatchesOf(p) |->
        IF s = {} THEN 0
        ELSE earned[CHOOSE m \in s : TRUE] + iter[s \ {CHOOSE m \in s : TRUE}]]

LEMMA TotalOfEarned ==
  ASSUME NEW games, NEW p, NEW e
  PROVE  Total(games, p, e) =
           Totals(p, [m \in MatchesOf(p) |-> Earned(games[m], e)])[MatchesOf(p)]
<1> DEFINE earned == [m \in MatchesOf(p) |-> Earned(games[m], e)]
           F(iter) == [s \in SUBSET MatchesOf(p) |->
                IF s = {} THEN 0
                ELSE Earned(games[CHOOSE m \in s : TRUE], e) + iter[s \ {CHOOSE m \in s : TRUE}]]
           G(iter) == [s \in SUBSET MatchesOf(p) |->
                IF s = {} THEN 0
                ELSE earned[CHOOSE m \in s : TRUE] + iter[s \ {CHOOSE m \in s : TRUE}]]
<1>1. Total(games, p, e) = (CHOOSE iter : iter = F(iter))[MatchesOf(p)]
  BY DEF Total, MapThenSumSet, MapThenFoldSet
<1>2. Totals(p, earned) = CHOOSE iter : iter = G(iter)
  BY DEF Totals
<1>3. ASSUME NEW iter PROVE F(iter) = G(iter)
  <2>1. ASSUME NEW s \in SUBSET MatchesOf(p), s # {}
        PROVE  earned[CHOOSE m \in s : TRUE] = Earned(games[CHOOSE m \in s : TRUE], e)
    <3>1. PICK n : n = CHOOSE m \in s : TRUE
      OBVIOUS
    <3>2. n \in s
      BY <2>1, <3>1
    <3>. QED
      BY <3>1, <3>2
  <2> HIDE DEF earned
  <2>. QED
    BY <2>1
<1>4. (CHOOSE iter : iter = F(iter)) = (CHOOSE iter : iter = G(iter))
  <2> HIDE DEF F, G
  <2>. QED
    BY <1>3, Zenon
<1>. QED
  BY <1>1, <1>2, <1>4

\* The results and entrants of the matches of p are the same.
SameIn(p, games, others) ==
    \A m \in MatchesOf(p) : /\ games[m].result = others[m].result
                            /\ games[m].entrants = others[m].entrants

\* They are all that the places in a pool are about.
LEMMA PlacesSame ==
  ASSUME NEW games, NEW others, NEW p, SameIn(p, games, others)
  PROVE  /\ InPool(games, p) = InPool(others, p)
         /\ \A e : PlaceInPool(games, p, e) = PlaceInPool(others, p, e)
<1>1. ASSUME NEW e PROVE Total(games, p, e) = Total(others, p, e)
  <2>1. \A m \in MatchesOf(p) : Earned(games[m], e) = Earned(others[m], e)
    BY DEF Earned, SameIn
  <2>2. PICK earned : earned = [m \in MatchesOf(p) |-> Earned(games[m], e)]
    OBVIOUS
  <2>3. earned = [m \in MatchesOf(p) |-> Earned(others[m], e)]
    BY <2>1, <2>2
  <2>4. Total(games, p, e) = Totals(p, earned)[MatchesOf(p)]
    BY <2>2, TotalOfEarned
  <2>5. Total(others, p, e) = Totals(p, earned)[MatchesOf(p)]
    BY <2>3, TotalOfEarned
  <2>. QED
    BY <2>4, <2>5
<1>2. InPool(games, p) = InPool(others, p)
  BY DEF InPool, SameIn
<1>3. ASSUME NEW e PROVE PlaceInPool(games, p, e) = PlaceInPool(others, p, e)
  <2>1. \A f : AheadInPool(games, p, f, e) <=> AheadInPool(others, p, f, e)
    BY <1>1 DEF AheadInPool
  <2>2. PICK S : S = {f \in InPool(games, p) : AheadInPool(games, p, f, e)}
    OBVIOUS
  <2>3. S = {f \in InPool(others, p) : AheadInPool(others, p, f, e)}
    BY <1>2, <2>1, <2>2
  <2>. QED
    BY <2>2, <2>3 DEF PlaceInPool
<1>. QED
  BY <1>2, <1>3

\* The place of an entrant is one more than those the result does not rank behind.
LEMMA PlaceTold ==
  ASSUME NEW match \in Match, match.result # None, match.result.who = match.entrants,
         NEW place \in Placements(match)
  PROVE  /\ DOMAIN place = match.entrants
         /\ \A e \in match.entrants :
                place[e] = 1 + Cardinality({f \in match.result.who \ {e} :
                                            ~Ranked(match.result.points, e, f)})
<1>1. match.result.points \in [Entrants -> Nat] /\ match.entrants \subseteq Entrants
  BY DEF Match, Result, Points
<1>2. \A x, y \in Nat : (x > y \/ x = y) <=> ~(y > x)
  OBVIOUS
<1>3. ASSUME NEW e \in match.entrants, NEW f \in match.entrants
      PROVE  Ranked(match.result.points, f, e) <=>
              f # e /\ ~Ranked(match.result.points, e, f)
  <2>1. /\ match.result.points[e] \in Nat /\ match.result.points[f] \in Nat
        /\ e \in Nat /\ f \in Nat
    BY <1>1
  <2>. QED
    BY <1>2, <2>1 DEF Ranked
<1>4. \A e \in match.entrants :
        {f \in match.entrants : Ranked(match.result.points, f, e)} =
            {f \in match.result.who \ {e} : ~Ranked(match.result.points, e, f)}
  BY <1>3
<1>5. match.entrants \cap match.result.who = match.entrants
  OBVIOUS
<1>6. /\ DOMAIN place = match.entrants
      /\ \A e \in match.entrants :
            place[e] = 1 + Cardinality({f \in match.entrants : Ranked(match.result.points, f, e)})
  BY <1>5 DEF Placements
<1>. QED
  BY <1>4, <1>6

\* It is the only one he has.
LEMMA PlaceIsHis ==
  ASSUME NEW match \in Match, match.result # None, match.result.who = match.entrants,
         NEW place \in Placements(match), NEW e \in Entrants, NEW n,
         HasPlace(match.result, e, n), n \in Nat
  PROVE  e \in DOMAIN place /\ place[e] = n
<1>1. PICK behind : behind = {f \in match.result.who \ {e} : ~Ranked(match.result.points, e, f)}
  OBVIOUS
<1>2. e \in match.entrants /\ Cardinality(behind) = n - 1
  BY <1>1 DEF HasPlace
<1>3. e \in DOMAIN place /\ place[e] = 1 + Cardinality(behind)
  BY <1>1, <1>2, PlaceTold
<1>. QED
  BY <1>2, <1>3

LEMMA HasThatPlace ==
  ASSUME NEW match \in Match, match.result # None, match.result.who = match.entrants,
         NEW place \in Placements(match), NEW e \in DOMAIN place
  PROVE  e \in Entrants /\ HasPlace(match.result, e, place[e])
<1>1. PICK behind : behind = {f \in match.result.who \ {e} : ~Ranked(match.result.points, e, f)}
  OBVIOUS
<1>2. e \in match.entrants /\ place[e] = 1 + Cardinality(behind)
  BY <1>1, PlaceTold
<1>3. match.entrants \subseteq Entrants
  BY DEF Match
<1>4. Cardinality(behind) \in Nat
  <2>1. IsFiniteSet(behind)
    BY <1>1, <1>3, EntrantsAssumption, FS_Subset
  <2>. QED
    BY <2>1, FS_CardinalityType
<1>5. place[e] - 1 = Cardinality(behind)
  BY <1>2, <1>4
<1>. QED
  BY <1>1, <1>2, <1>3, <1>5 DEF HasPlace

LEMMA SentByMatch ==
  ASSUME NEW match \in Match, match.result # None, match.result.who = match.entrants,
         NEW place \in Placements(match), NEW set \in SUBSET Rule, NEW rule \in set,
         NEW e \in Entrants, HasPlace(match.result, e, rule.placement)
  PROVE  [who |-> e, rule |-> rule] \in MatchMoves(set, place)
<1>1. rule.placement \in Nat
  BY DEF Rule
<1>2. e \in DOMAIN place /\ place[e] = rule.placement
  BY <1>1, PlaceIsHis
<1>. QED
  BY <1>2 DEF MatchMoves

-----------------------------------------------------------------------------
(* What stays the same.                                                    *)

\* The results of c are as they were.
SameSource(c) ==
    /\ c \in Matches => row'[c].result = row[c].result
    /\ c \in Pools =>
        /\ pool'[c].state = pool[c].state
        /\ SameIn(c, row', row)

LEMMA SentOnSame ==
  ASSUME NEW c \in Competitions, SameSource(c)
  PROVE  \A rule : SentOn(c, rule)' = SentOn(c, rule)
<1>1. CASE c \in Matches
  BY <1>1 DEF SentOn, SameSource
<1>2. CASE c \in Pools
  <2>1. c \notin Matches
    BY <1>2
  <2>2. PICK old : old = row
    OBVIOUS
  <2>3. PICK new : new = row'
    OBVIOUS
  <2>4. /\ InPool(new, c) = InPool(old, c)
        /\ \A e : PlaceInPool(new, c, e) = PlaceInPool(old, c, e)
    <3>1. SameIn(c, new, old)
      BY <1>2, <2>2, <2>3 DEF SameSource, SameIn
    <3>. QED
      BY <3>1, PlacesSame
  <2>5. InPool(row', c) = InPool(old, c) /\ \A e : PlaceInPool(row', c, e) = PlaceInPool(old, c, e)
    BY <2>3, <2>4
  <2>6. InPool(row, c) = InPool(old, c) /\ \A e : PlaceInPool(row, c, e) = PlaceInPool(old, c, e)
    BY <2>2
  <2>7. pool'[c].state = pool[c].state
    BY <1>2 DEF SameSource
  <2>8. ASSUME NEW rule PROVE SentOn(c, rule)' = SentOn(c, rule)
    <3>1. SentOn(c, rule)' = {e \in InPool(row', c) : pool'[c].state = "completed"
                                        /\ PlaceInPool(row', c, e) = rule.placement}
      BY <2>1 DEF SentOn
    <3>2. SentOn(c, rule) = {e \in InPool(row, c) : pool[c].state = "completed"
                                        /\ PlaceInPool(row, c, e) = rule.placement}
      BY <2>1 DEF SentOn
    <3>. QED
      BY <2>5, <2>6, <2>7, <3>1, <3>2
  <2>. QED
    BY <2>8
<1>. QED
  BY <1>1, <1>2

\* Who holds a place keeps it.
Keeps(t, e) == Holds(t, e) => Holds(t, e)'

LEMMA ServedOn ==
  ASSUME NEW c \in Competitions, Served(c), SameSource(c), rules'[c] = rules[c],
         \A rule \in rules[c] : \A e \in SentOn(c, rule) : Keeps(rule.to, e)
  PROVE  Served(c)'
BY SentOnSame DEF Served, Keeps

\* Who is sent by c can reach it.
LEMMA SentOnReach ==
  ASSUME AdvInv, NEW reach, Branches(reach), ReachedOnly(reach), NEW c \in Competitions, NEW rule
  PROVE  SentOn(c, rule) \subseteq reach[c] \cap Entrants
<1>0. row \in [Matches -> Match]
  BY DEF AdvInv, TypeOK
<1>1. CASE c \in Matches
  <2>1. ASSUME NEW e \in SentOn(c, rule) PROVE e \in reach[c] /\ e \in Entrants
    <3>1. e \in Entrants /\ row[c].result # None /\ e \in row[c].result.who
      BY <1>1, <2>1 DEF SentOn, HasPlace
    <3>. QED
      BY <1>1, <3>1 DEF ReachedOnly
  <2>. QED
    BY <2>1
<1>2. CASE c \in Pools
  <2>1. c \notin Matches
    BY <1>2
  <2>2. ASSUME NEW e \in SentOn(c, rule) PROVE e \in reach[c] /\ e \in Entrants
    <3>1. e \in InPool(row, c)
      BY <2>1, <2>2 DEF SentOn
    <3>2. PICK m \in Matches : PoolOf[m] = c /\ e \in row[m].entrants
      BY <3>1 DEF InPool, MatchesOf
    <3>. QED
      BY <1>0, <3>2 DEF ReachedOnly, Branches, Match
  <2>. QED
    BY <2>2
<1>. QED
  BY <1>1, <1>2

\* What is to be shown of the one request.
LEMMA OneCarries ==
  ASSUME OneRequest, NEW reach, NEW r \in Requests, RulesLead', ReachedOnly(reach)',
         CopiesAreCurrent(r)', MovesAreOwn(reach, r)', MatchCarried(r)', PoolCarried(r)',
         \A c \in Competitions \ unsettled' : Away(r, c)' \/ Served(c)'
  PROVE  CarryInv(reach)'
<1>1. \A q \in Requests : q = r
  BY DEF OneRequest
<1>2. Carried'
  BY DEF Carried
<1>. QED
  BY <1>1, <1>2 DEF CarryInv

LEMMA OneCarried ==
  ASSUME OneRequest, NEW reach, CarryInv(reach), NEW r \in Requests
  PROVE  /\ RulesLead /\ ReachedOnly(reach)
         /\ CopiesAreCurrent(r) /\ MovesAreOwn(reach, r) /\ MatchCarried(r) /\ PoolCarried(r)
         /\ \A c \in Competitions \ unsettled : Away(r, c) \/ Served(c)
<1>1. \A q \in Requests : q = r
  BY DEF OneRequest
<1>. QED
  BY <1>1 DEF CarryInv, Carried

\* A request that is at rest, or edits rules, has nothing in its hands.
LEMMA RestCarries ==
  ASSUME OneRequest, NEW reach, NEW r \in Requests,
         RulesLead', ReachedOnly(reach)', at'[r] \in {"idle", "create", "refresh", "stamp"},
         \A c \in Competitions \ unsettled' : Served(c)'
  PROVE  CarryInv(reach)'
<1>1. CopiesAreCurrent(r)' /\ MovesAreOwn(reach, r)' /\ MatchCarried(r)' /\ PoolCarried(r)'
  BY DEF CopiesAreCurrent, MovesAreOwn, MatchCarried, PoolCarried, Following
<1>. QED
  BY <1>1, OneCarries

\* The tables are as they were.
LEMMA TablesCarry ==
  ASSUME UNCHANGED <<row, pool, rules>>
  PROVE  /\ \A reach : ReachedOnly(reach)' <=> ReachedOnly(reach)
         /\ \A c : Served(c)' <=> Served(c)
BY DEF ReachedOnly, Served, SentOn, Holds

LEMMA RulesStill ==
  ASSUME OneRequest, RulesLead, UNCHANGED rules, NEW r \in Requests, at'[r] # "create"
  PROVE  RulesLead'
<1>1. \A q \in Requests : q = r
  BY DEF OneRequest
<1>. QED
  BY <1>1 DEF RulesLead, RuleFits

-----------------------------------------------------------------------------
(* Requests that arrive, and steps that only read.                         *)

LEMMA AskCarries ==
  ASSUME OneRequest, NEW reach, Branches(reach), AdvInv, CarryInv(reach),
         NEW r \in Requests, Ask(r)
  PROVE  CarryInv(reach)'
<1>1. /\ TypeOK /\ at[r] = "idle" /\ RulesLead /\ ReachedOnly(reach)
      /\ \A c \in Competitions \ unsettled : Served(c)
  <2>1. at[r] = "idle"
    BY DEF Ask, Commit, Reopen, Score, DropRules
  <2>2. \A c : ~Away(r, c)
    BY <2>1 DEF Away, Following
  <2>. QED
    BY <2>1, <2>2, OneCarried DEF AdvInv
<1>2. ASSUME UNCHANGED <<row, pool, rules, unsettled>>, at'[r] # "create"
      PROVE  /\ RulesLead' /\ ReachedOnly(reach)'
             /\ \A c \in Competitions \ unsettled' : Served(c)'
  BY <1>1, <1>2, RulesStill, TablesCarry
<1>3. ASSUME NEW m \in Matches, Commit(r, m) \/ Reopen(r, m) PROVE CarryInv(reach)'
  <2> DEFINE k(op) == [Blank EXCEPT !.op = op, !.on = m, !.mine = Load(m), !.way = "remove"]
  <2>1. PICK op \in {"commit", "reopen"} : job'[r] = k(op)
    BY <1>1, <1>3 DEF Commit, Reopen, Put, TypeOK
  <2>2. /\ job'[r].on = m /\ job'[r].mine = Load(m) /\ job'[r].way = "remove"
        /\ job'[r].level = "match" /\ job'[r].moves = {}
    BY <2>1 DEF Blank
  <2> HIDE DEF k
  <2>3. at'[r] \in {"guard", "reload", "rules", "save"} /\ UNCHANGED <<row, pool, rules, unsettled>>
    BY <1>1, <1>3 DEF Commit, Reopen, Go, TypeOK
  <2>4. CopiesAreCurrent(r)'
    BY <2>2, <2>3 DEF CopiesAreCurrent, Load
  <2>5. MovesAreOwn(reach, r)' /\ MatchCarried(r)' /\ PoolCarried(r)'
    BY <2>2, <2>3 DEF MovesAreOwn, MatchCarried, PoolCarried
  <2>. QED
    BY <1>2, <2>3, <2>4, <2>5, OneCarries
<1>4. ASSUME NEW m \in Matches, NEW e \in Entrants, NEW n \in 0..MaxPoints, Score(r, m, e, n)
      PROVE  CarryInv(reach)'
  <2>1. /\ job'[r] = [Blank EXCEPT !.op = "score", !.on = m,
                                   !.mine = [Load(m) EXCEPT !.match.points[e] = n]]
        /\ at'[r] = "save" /\ UNCHANGED <<row, pool, rules, unsettled>>
    BY <1>1, <1>4 DEF Score, Put, Go, TypeOK
  <2>2. /\ job'[r].on = m /\ job'[r].moves = {}
        /\ job'[r].mine = [Load(m) EXCEPT !.match.points[e] = n]
    BY <2>1 DEF Blank
  <2>3. job'[r].mine.match.result = row[m].result /\ job'[r].mine.match.entrants = row[m].entrants
    BY <1>1, <2>2 DEF Load, TypeOK, Match
  <2>4. CopiesAreCurrent(r)'
    BY <2>1, <2>2, <2>3 DEF CopiesAreCurrent, Following
  <2>5. MovesAreOwn(reach, r)' /\ MatchCarried(r)' /\ PoolCarried(r)'
    BY <2>1, <2>2 DEF MovesAreOwn, MatchCarried, PoolCarried, Following
  <2>. QED
    BY <1>2, <2>1, <2>4, <2>5, OneCarries
<1>5. ASSUME NEW c \in Competitions, NEW set \in RulesToSave[c], DropRules(r, c, set)
      PROVE  CarryInv(reach)'
  <2> DEFINE seats(p) == [e \in Entrants |->
                IF pool[p].seats[e].rule # None /\ pool[p].seats[e].rule.from = c
                THEN [pool[p].seats[e] EXCEPT !.rule = None] ELSE pool[p].seats[e]]
  <2>1. /\ job'[r] = [Blank EXCEPT !.op = "rules", !.on = c,
                                   !.save = {[q EXCEPT !.edit = edits + 1] : q \in set}]
        /\ at'[r] = "create" /\ UNCHANGED row
        /\ rules' = [rules EXCEPT ![c] = {}]
        /\ pool' = [p \in Pools |-> [pool[p] EXCEPT !.seats = seats(p)]]
        /\ unsettled' = IF (c \in Matches /\ row[c].result # None)
                           \/ (c \in Pools /\ pool[c].state = "completed")
                        THEN unsettled \union {c} ELSE unsettled
    BY <1>1, <1>5 DEF DropRules, Put, Go, TypeOK
  <2>2. \A p \in Pools : /\ pool'[p].state = pool[p].state
                         /\ \A e \in Entrants : pool'[p].seats[e].status = pool[p].seats[e].status
    <3>1. SUFFICES ASSUME NEW p \in Pools
                   PROVE  /\ pool'[p].state = pool[p].state
                          /\ \A e \in Entrants : pool'[p].seats[e].status = pool[p].seats[e].status
      OBVIOUS
    <3>2. pool[p] \in Pool
      BY <1>1 DEF TypeOK
    <3>3. pool'[p] = [pool[p] EXCEPT !.seats = seats(p)]
      BY <2>1
    <3>4. \A e \in Entrants : seats(p)[e].status = pool[p].seats[e].status
      BY <3>2 DEF Pool, Seat
    <3> HIDE DEF seats
    <3>. QED
      BY <3>2, <3>3, <3>4 DEF Pool
  <2> HIDE DEF seats
  <2>3. job'[r].on = c /\ job'[r].save = {[q EXCEPT !.edit = edits + 1] : q \in set}
    BY <2>1 DEF Blank
  <2>4. \A q \in job'[r].save : RuleFits(c, q)
    <3>1. SUFFICES ASSUME NEW q \in set PROVE RuleFits(c, [q EXCEPT !.edit = edits + 1])
      BY <2>3
    <3>2. q \in Rule /\ q.from = c /\ q.to # c
      BY DEF ValidRules
    <3>3. PICK s : s = [q EXCEPT !.edit = edits + 1]
      OBVIOUS
    <3>4. s.from = c /\ s.to = q.to
      BY <3>2, <3>3 DEF Rule
    <3>5. Leads(c, q.to)
      BY DEF Leads
    <3>. QED
      BY <3>2, <3>3, <3>4, <3>5 DEF RuleFits
  <2>5. c \in unsettled' \/ Unapplied(c)'
    BY <2>1, <2>2 DEF Unapplied
  <2>6. RulesLead'
    <3>1. \A q \in Requests : q = r
      BY DEF OneRequest
    <3>2. \A d \in Competitions : \A q \in rules'[d] : RuleFits(d, q)
      BY <1>1, <2>1 DEF RulesLead, TypeOK
    <3>. QED
      BY <2>3, <2>4, <2>5, <3>1, <3>2 DEF RulesLead, RuleFits
  <2>7. ReachedOnly(reach)'
    BY <1>1, <2>1 DEF ReachedOnly
  <2>8. ASSUME NEW d \in Competitions \ unsettled' PROVE Served(d)'
    <3>1. CASE d = c
      BY <1>1, <2>1, <3>1 DEF Served, TypeOK
    <3>2. CASE d # c
      <4>1. Served(d) /\ rules'[d] = rules[d]
        BY <1>1, <2>1, <2>8, <3>2 DEF TypeOK
      <4>2. SameSource(d)
        BY <2>1, <2>2 DEF SameSource, SameIn
      <4>3. ASSUME NEW q \in rules[d], NEW e \in SentOn(d, q) PROVE Keeps(q.to, e)
        <5>1. e \in Entrants /\ q.to \in Competitions
          BY <1>1, <4>3, SentOnReach DEF TypeOK, Rule
        <5>2. PICK t \in Competitions : t = q.to
          BY <5>1
        <5>3. row' = row /\ (t \in Pools => pool'[t].seats[e].status = pool[t].seats[e].status)
          BY <2>1, <2>2, <5>1, ZenonT(40)
        <5>4. Keeps(t, e)
          BY <5>3 DEF Keeps, Holds
        <5>. QED
          BY <5>2, <5>4
      <4>. QED
        BY <4>1, <4>2, <4>3, ServedOn
    <3>. QED
      BY <3>1, <3>2
  <2>. QED
    BY <2>1, <2>6, <2>7, <2>8, RestCarries
<1>6. \A m \in Matches : Recorded[m] \subseteq Entrants
  OBVIOUS
<1>. QED
  BY <1>3, <1>4, <1>5, <1>6 DEF Ask

LEMMA LoadsCarry ==
  ASSUME OneRequest, NEW reach, AdvInv, PoolInv, CarryInv(reach),
         NEW r \in Requests, Guard(r) \/ Reload(r) \/ LoadState(r)
  PROVE  CarryInv(reach)'
<1> DEFINE j == job[r]  k == job'[r]
<1>1. /\ TypeOK /\ j \in Job /\ Fits(at[r], j) /\ OnCourse(r)
      /\ \A p \in Pools : InHand(r, p) => Underway(r, p)
      /\ RulesLead /\ ReachedOnly(reach) /\ CopiesAreCurrent(r) /\ MovesAreOwn(reach, r)
  BY TableFits, OneHolds, OneCarried DEF AdvInv
<1>2. /\ at[r] \in {"guard", "reload", "refresh"}
      /\ at'[r] \in {"idle", "reload", "rules", "save", "stamp"}
      /\ UNCHANGED <<row, pool, rules, unsettled>>
  BY <1>1 DEF Guard, Reload, LoadState, End, Go, TypeOK
<1>3. /\ RulesLead' /\ ReachedOnly(reach)'
      /\ \A c \in Competitions \ unsettled' : Served(c)'
  <2>1. \A c : ~Away(r, c)
    BY <1>2 DEF Away, Following
  <2>2. \A c \in Competitions \ unsettled : Served(c)
    BY <2>1, OneCarried
  <2>. QED
    BY <1>1, <1>2, <2>2, RulesStill, TablesCarry
<1>4. CASE at'[r] \in {"idle", "stamp"}
  BY <1>3, <1>4, RestCarries
<1>5. CASE at'[r] = "reload"
  <2>1. k = j /\ at[r] = "guard"
    BY <1>1, <1>2, <1>5 DEF Guard, Reload, LoadState, End, Go, TypeOK
  <2>2. CopiesAreCurrent(r)'
    BY <1>1, <1>2, <1>5, <2>1 DEF CopiesAreCurrent, Following
  <2>3. MovesAreOwn(reach, r)' /\ MatchCarried(r)' /\ PoolCarried(r)'
    BY <1>1, <1>5, <2>1 DEF MovesAreOwn, MatchCarried, PoolCarried, Following
  <2>. QED
    BY <1>3, <2>2, <2>3, OneCarries
<1>6. CASE at'[r] \in {"rules", "save"}
  <2>1. at[r] = "reload" /\ j.on \in Matches /\ k = [j EXCEPT !.mine = Load(j.on)]
    BY <1>1, <1>2, <1>6 DEF Guard, Reload, LoadState, End, Go, Put, TypeOK, Fits
  <2>2. /\ k.on = j.on /\ k.op = j.op /\ k.way = j.way /\ k.level = j.level
        /\ k.moves = j.moves /\ k.mine.match = row[j.on]
    BY <1>1, <2>1 DEF Job, Load
  <2>3. j.way = "remove" /\ j.level = "match" /\ j.moves = {}
    <3>1. j.op \in {"commit", "reopen"}
      BY <1>1, <2>1 DEF OnCourse
    <3>2. InHand(r, PoolOf[j.on])
      BY <2>1, <3>1 DEF InHand
    <3>. QED
      BY <1>1, <2>1, <3>2 DEF Underway, Fits, MovesAreOwn
  <2>4. CopiesAreCurrent(r)'
    BY <1>2, <1>6, <2>1, <2>2, <2>3 DEF CopiesAreCurrent, Following
  <2>5. MovesAreOwn(reach, r)' /\ MatchCarried(r)' /\ PoolCarried(r)'
    BY <1>6, <2>2, <2>3 DEF MovesAreOwn, MatchCarried, PoolCarried, Following
  <2>. QED
    BY <1>3, <2>4, <2>5, OneCarries
<1>. QED
  BY <1>2, <1>4, <1>5, <1>6

\* A pool that leads anywhere has been read as it is.
LEMMA PoolSends ==
  ASSUME NEW games, NEW p, SameIn(p, games, row), NEW set, NEW rule \in set,
         NEW e \in InPool(row, p), PlaceInPool(row, p, e) = rule.placement
  PROVE  [who |-> e, rule |-> rule] \in PoolMoves(set, games, p)
<1>1. PICK table : table = row
  OBVIOUS
<1>2. InPool(games, p) = InPool(table, p) /\ PlaceInPool(games, p, e) = PlaceInPool(table, p, e)
  BY <1>1, PlacesSame
<1>. QED
  BY <1>1, <1>2 DEF PoolMoves

\* The moves that a request reads from the rules.
LEMMA ReadsMoves ==
  ASSUME NEW reach, Branches(reach), AdvInv, PoolInv, OneRequest, CarryInv(reach),
         NEW r \in Requests, ReadRules(r)
  PROVE  \E moves :
            /\ at[r] = "rules" /\ at'[r] = "target"
            /\ job'[r] = [job[r] EXCEPT !.todo = moves, !.moved = {v.who : v \in moves}]
            /\ \A v \in moves : v.rule \in rules[Source(r)] /\ v.who \in reach[Source(r)]
            /\ job[r].way = "place" /\ job[r].level = "match" =>
                  \A rule \in rules[job[r].on] : \A e \in SentOn(job[r].on, rule) :
                      [who |-> e, rule |-> rule] \in moves
            /\ job[r].level = "pool" =>
                  \A rule \in rules[PoolOf[job[r].on]] : \A e \in InPool(row, PoolOf[job[r].on]) :
                      PlaceInPool(row, PoolOf[job[r].on], e) = rule.placement =>
                          [who |-> e, rule |-> rule] \in moves
<1> DEFINE j == job[r]  k == job'[r]
<1>1. /\ TypeOK /\ j \in Job /\ Fits(at[r], j) /\ OnCourse(r)
      /\ \A p \in Pools : InHand(r, p) => Underway(r, p)
      /\ RulesLead /\ ReachedOnly(reach) /\ CopiesAreCurrent(r)
  BY TableFits, OneHolds, OneCarried DEF AdvInv
<1>2. /\ at[r] = "rules" /\ at'[r] = "target" /\ j.on \in Matches /\ PoolOf[j.on] \in Pools
      /\ j.level \in {"match", "pool"}
  <2>1. at[r] = "rules" /\ at'[r] = "target"
    BY <1>1 DEF ReadRules, Go, TypeOK
  <2>2. j.on \in Matches /\ j.level \in {"match", "pool"}
    BY <1>1, <2>1 DEF Fits, Job
  <2>. QED
    BY <2>1, <2>2
<1>3. CASE j.level = "match"
  <2>1. PICK place \in Placements(j.mine.match) :
            k = [j EXCEPT !.todo = MatchMoves(rules[j.on], place),
                          !.moved = {v.who : v \in MatchMoves(rules[j.on], place)}]
    BY <1>1, <1>3 DEF ReadRules, Put, TypeOK
  <2>2. PICK moves : moves = MatchMoves(rules[j.on], place)
    OBVIOUS
  <2>3. Source(r) = j.on /\ rules[j.on] \in SUBSET Rule /\ j.mine.match \in Match
    BY <1>1, <1>2, <1>3 DEF Source, TypeOK, Job, Aggregate
  <2>4. \A v \in moves : v.rule \in rules[j.on] /\ v.who \in reach[j.on]
    <3>1. DOMAIN place = j.mine.match.entrants
      BY <2>1 DEF Placements
    <3>2. j.mine.match.entrants \subseteq reach[j.on]
      BY <1>1, <1>2 DEF CopiesAreCurrent, Following, ReachedOnly
    <3>. QED
      BY <2>2, <3>1, <3>2 DEF MatchMoves
  <2>5. ASSUME j.way = "place", NEW rule \in rules[j.on], NEW e \in SentOn(j.on, rule)
        PROVE  [who |-> e, rule |-> rule] \in moves
    <3>1. /\ e \in Entrants /\ row[j.on].result # None
          /\ HasPlace(row[j.on].result, e, rule.placement)
      BY <1>2, <2>5 DEF SentOn
    <3>2. /\ j.mine.match.result = row[j.on].result
          /\ j.mine.match.result.who = j.mine.match.entrants
      BY <1>1, <1>2, <1>3, <2>5 DEF CopiesAreCurrent, Following
    <3>3. PICK match : match = j.mine.match
      OBVIOUS
    <3>4. /\ match \in Match /\ match.result # None /\ match.result.who = match.entrants
          /\ place \in Placements(match) /\ HasPlace(match.result, e, rule.placement)
      BY <2>1, <2>3, <3>1, <3>2, <3>3
    <3>5. PICK set \in SUBSET Rule : set = rules[j.on]
      BY <2>3
    <3>6. [who |-> e, rule |-> rule] \in MatchMoves(set, place)
      BY <3>1, <3>4, <3>5, SentByMatch
    <3>. QED
      BY <2>2, <3>5, <3>6
  <2>. QED
    BY <1>2, <1>3, <2>1, <2>2, <2>3, <2>4, <2>5
<1>4. CASE j.level = "pool"
  <2>1. PICK p \in Pools : p = PoolOf[j.on]
    BY <1>2
  <2>2. PICK moves : moves = PoolMoves(rules[p], j.games, p)
    OBVIOUS
  <2>3. k = [j EXCEPT !.todo = moves, !.moved = {v.who : v \in moves}]
    BY <1>1, <1>4, <2>1, <2>2 DEF ReadRules, Put, TypeOK
  <2>4. Source(r) = p
    BY <1>4, <2>1 DEF Source
  <2>5. \A m \in MatchesOf(p) : j.games[m] = row[m]
    BY <1>1, <1>2, <1>4, <2>1 DEF CopiesAreCurrent, Following
  <2>6. \A v \in moves : v.rule \in rules[p] /\ v.who \in reach[p]
    <3>1. \A m \in MatchesOf(p) : row[m].entrants \subseteq reach[p]
      BY <1>1, <2>1 DEF MatchesOf, ReachedOnly, Branches
    <3>2. InPool(j.games, p) \subseteq reach[p]
      BY <2>5, <3>1 DEF InPool
    <3>. QED
      BY <2>2, <3>2 DEF PoolMoves
  <2>7. ASSUME NEW rule \in rules[p], NEW e \in InPool(row, p),
               PlaceInPool(row, p, e) = rule.placement
        PROVE  [who |-> e, rule |-> rule] \in moves
    <3>1. PICK games : games = j.games
      OBVIOUS
    <3>2. SameIn(p, games, row)
      BY <2>5, <3>1 DEF SameIn
    <3>3. PICK set : set = rules[p]
      OBVIOUS
    <3>4. [who |-> e, rule |-> rule] \in PoolMoves(set, games, p)
      BY <2>7, <3>2, <3>3, PoolSends
    <3>. QED
      BY <2>2, <3>1, <3>3, <3>4
  <2>. QED
    BY <1>2, <1>4, <2>1, <2>3, <2>4, <2>6, <2>7
<1>. QED
  BY <1>2, <1>3, <1>4

\* Who goes on following rules keeps the same sources in hand.
SameHand(r) ==
    /\ at[r] \in Following /\ at'[r] \in Following
    /\ job'[r].on = job[r].on /\ job'[r].op = job[r].op /\ job'[r].way = job[r].way
    /\ job'[r].level = job[r].level /\ job'[r].mine = job[r].mine

LEMMA SameHandIsAway ==
  ASSUME NEW r \in Requests, SameHand(r)
  PROVE  \A c : Away(r, c) => Away(r, c)'
BY DEF Away, SameHand, Following

LEMMA RulesCarry ==
  ASSUME OneRequest, NEW reach, Branches(reach), AdvInv, PoolInv, CarryInv(reach),
         NEW r \in Requests, ReadRules(r)
  PROVE  CarryInv(reach)'
<1> DEFINE j == job[r]  k == job'[r]
<1>1. /\ TypeOK /\ j \in Job /\ Fits(at[r], j)
      /\ RulesLead /\ ReachedOnly(reach) /\ CopiesAreCurrent(r) /\ MovesAreOwn(reach, r)
      /\ MatchCarried(r)
      /\ \A c \in Competitions \ unsettled : Away(r, c) \/ Served(c)
  BY TableFits, OneCarried DEF AdvInv
<1>2. PICK moves :
            /\ at[r] = "rules" /\ at'[r] = "target"
            /\ k = [j EXCEPT !.todo = moves, !.moved = {v.who : v \in moves}]
            /\ \A v \in moves : v.rule \in rules[Source(r)] /\ v.who \in reach[Source(r)]
            /\ j.way = "place" /\ j.level = "match" =>
                  \A rule \in rules[j.on] : \A e \in SentOn(j.on, rule) :
                      [who |-> e, rule |-> rule] \in moves
            /\ j.level = "pool" =>
                  \A rule \in rules[PoolOf[j.on]] : \A e \in InPool(row, PoolOf[j.on]) :
                      PlaceInPool(row, PoolOf[j.on], e) = rule.placement =>
                          [who |-> e, rule |-> rule] \in moves
  BY ReadsMoves
<1>3. /\ k.todo = moves /\ k.moves = j.moves /\ k.games = j.games /\ k.group = j.group
      /\ SameHand(r) /\ Source(r)' = Source(r)
  BY <1>1, <1>2 DEF Job, SameHand, Following, Source
<1>4. /\ UNCHANGED <<row, pool, rules, unsettled>> /\ j.on \in Matches
      /\ j.level \in {"match", "pool"}
  BY <1>1, <1>2 DEF ReadRules, Fits, Job
<1>5. RulesLead' /\ ReachedOnly(reach)'
  BY <1>1, <1>2, <1>4, RulesStill, TablesCarry
<1>6. \A c \in Competitions \ unsettled' : Away(r, c)' \/ Served(c)'
  BY <1>1, <1>3, <1>4, SameHandIsAway, TablesCarry
<1>7. CopiesAreCurrent(r)'
  BY <1>1, <1>2, <1>3, <1>4 DEF CopiesAreCurrent, SameHand, Following
<1>8. MovesAreOwn(reach, r)'
  <2>1. j.moves = {}
    BY <1>1, <1>2 DEF MovesAreOwn
  <2>. QED
    BY <1>2, <1>3, <1>4, <2>1 DEF MovesAreOwn
<1>9. MatchCarried(r)'
  <2>1. ASSUME k.way = "place", NEW rule \in rules[k.on], NEW e \in SentOn(k.on, rule)
        PROVE  IF k.level = "pool" THEN Holds(rule.to, e) ELSE [who |-> e, rule |-> rule] \in k.todo
    <3>1. k.on = j.on /\ k.way = j.way /\ k.level = j.level
      BY <1>3 DEF SameHand
    <3>2. CASE k.level = "pool"
      BY <1>1, <1>2, <2>1, <3>1, <3>2 DEF MatchCarried, Following
    <3>3. CASE k.level # "pool"
      <4>1. j.level = "match"
        BY <1>4, <3>1, <3>3
      <4>. QED
        BY <1>2, <1>3, <2>1, <3>1, <3>3, <4>1
    <3>. QED
      BY <3>2, <3>3
  <2>2. \A c, rule : SentOn(c, rule)' = SentOn(c, rule)
    BY <1>4 DEF SentOn
  <2>3. \A c, e : Holds(c, e)' <=> Holds(c, e)
    BY <1>4 DEF Holds
  <2>. QED
    BY <1>4, <2>1, <2>2, <2>3 DEF MatchCarried, SentOrToSend
<1>10. PoolCarried(r)'
  <2>1. k.on = j.on /\ k.level = j.level
    BY <1>3 DEF SameHand
  <2>. QED
    BY <1>2, <1>3, <1>4, <2>1 DEF PoolCarried, SentOrToSend
<1>. QED
  BY <1>5, <1>6, <1>7, <1>8, <1>9, <1>10, OneCarries

\* What r loads of a target, or that it finds nobody to remove there.
LEMMA TargetLoaded ==
  ASSUME OneRequest, NEW reach, AdvInv, CarryInv(reach), NEW r \in Requests, LoadTarget(r)
  PROVE  \E due, c :
            /\ due \in SUBSET job[r].todo /\ \A v \in due : v.rule.to = c
            /\ c \in Matches => \E v \in due : due = {v}
            /\ SameHand(r) /\ Source(r)' = Source(r)
            /\ job'[r].games = job[r].games /\ job'[r].group = job[r].group
            /\ job'[r].todo = job[r].todo \ due
            /\ at'[r] = "target" =>
                  /\ job[r].way = "remove" /\ job'[r].moves = job[r].moves
                  /\ c \in Matches /\ \A v \in due : v.who \notin row[c].entrants
            /\ at'[r] = "write" =>
                  /\ job'[r].moves = due /\ job'[r].target = c
                  /\ c \in Matches => job'[r].held = Load(c)
                  /\ c \in Pools => job'[r].seats = pool[c]
<1> DEFINE j == job[r]  k == job'[r]
<1>1. TypeOK /\ j \in Job /\ Fits(at[r], j)
  BY TableFits DEF AdvInv
<1>2. /\ at[r] = "target" /\ at'[r] \in {"target", "write"} /\ j.todo # {}
      /\ j.todo \in SUBSET Move
  BY <1>1 DEF LoadTarget, Go, TypeOK, Job
<1>3. PICK due, c : due = Due(j.todo) /\ c = First(due).rule.to
  OBVIOUS
<1>4. /\ due \in SUBSET j.todo /\ \A v \in due : v.rule.to = c
      /\ c \in Matches => \E v \in due : due = {v}
  <2>1. PICK todo \in SUBSET Move : todo = j.todo
    BY <1>2
  <2>2. /\ due \in SUBSET todo /\ due # {} /\ First(due) \in due
        /\ \A v \in due : v.rule.to = c
    BY <1>2, <1>3, <2>1, DueTypes
  <2>3. ASSUME c \in Matches PROVE \E v \in due : due = {v}
    <3>1. First(due) \in ToMatches(todo)
      BY <1>3, <2>2, <2>3 DEF ToMatches
    <3>2. due = {First(ToMatches(todo))}
      BY <1>3, <2>1, <3>1 DEF Due
    <3>. QED
      BY <3>2
  <2>. QED
    BY <2>1, <2>2, <2>3
<1>5. \/ /\ k = [j EXCEPT !.todo = @ \ due] /\ at'[r] = "target" /\ j.way = "remove"
         /\ c \in Matches /\ \A v \in due : v.who \notin row[c].entrants
      \/ /\ k = [j EXCEPT !.todo = @ \ due, !.moves = due, !.target = c,
                          !.held = IF c \in Matches THEN Load(c) ELSE NoMatchHeld,
                          !.seats = IF c \in Pools THEN pool[c] ELSE NoPoolHeld]
         /\ at'[r] = "write"
  BY <1>1, <1>2, <1>3, ZenonT(40) DEF LoadTarget, Put, Go, TypeOK, NothingToRemove
<1>6. /\ SameHand(r) /\ k.games = j.games /\ k.group = j.group /\ Source(r)' = Source(r)
      /\ k.todo = j.todo \ due
      /\ at'[r] = "target" =>
            /\ j.way = "remove" /\ k.moves = j.moves
            /\ c \in Matches /\ \A v \in due : v.who \notin row[c].entrants
      /\ at'[r] = "write" =>
            /\ k.moves = due /\ k.target = c
            /\ c \in Matches => k.held = Load(c)
            /\ c \in Pools => k.seats = pool[c]
  <2>1. CASE /\ k = [j EXCEPT !.todo = @ \ due] /\ at'[r] = "target" /\ j.way = "remove"
             /\ c \in Matches /\ \A v \in due : v.who \notin row[c].entrants
    BY <1>1, <1>2, <2>1 DEF Job, SameHand, Following, Source
  <2>2. CASE /\ k = [j EXCEPT !.todo = @ \ due, !.moves = due, !.target = c,
                          !.held = IF c \in Matches THEN Load(c) ELSE NoMatchHeld,
                          !.seats = IF c \in Pools THEN pool[c] ELSE NoPoolHeld]
             /\ at'[r] = "write"
    <3>1. /\ k.on = j.on /\ k.op = j.op /\ k.way = j.way /\ k.level = j.level
          /\ k.mine = j.mine /\ k.games = j.games /\ k.group = j.group
          /\ k.todo = j.todo \ due /\ k.moves = due /\ k.target = c
          /\ k.held = IF c \in Matches THEN Load(c) ELSE NoMatchHeld
          /\ k.seats = IF c \in Pools THEN pool[c] ELSE NoPoolHeld
      BY <1>1, <2>2 DEF Job
    <3>. QED
      BY <1>2, <2>2, <3>1 DEF SameHand, Following, Source
  <2>. QED
    BY <1>5, <2>1, <2>2
<1>. QED
  BY <1>4, <1>6

LEMMA TargetCarries ==
  ASSUME OneRequest, NEW reach, AdvInv, PoolInv, CarryInv(reach),
         NEW r \in Requests, LoadTarget(r)
  PROVE  CarryInv(reach)'
<1> DEFINE j == job[r]  k == job'[r]
<1>1. /\ TypeOK /\ j \in Job /\ Fits(at[r], j)
      /\ RulesLead /\ ReachedOnly(reach) /\ CopiesAreCurrent(r) /\ MovesAreOwn(reach, r)
      /\ MatchCarried(r) /\ PoolCarried(r)
      /\ \A c \in Competitions \ unsettled : Away(r, c) \/ Served(c)
  BY TableFits, OneCarried DEF AdvInv
<1>2. /\ at[r] = "target" /\ at'[r] \in {"target", "write"} /\ j.todo # {} /\ j.moves = {}
      /\ UNCHANGED <<row, pool, rules, unsettled>> /\ j.on \in Matches
      /\ j.todo \in SUBSET Move
  BY <1>1 DEF LoadTarget, Go, TypeOK, Fits, Job, MovesAreOwn
<1>3. PICK due, c :
            /\ due \in SUBSET job[r].todo /\ \A v \in due : v.rule.to = c
            /\ c \in Matches => \E v \in due : due = {v}
            /\ SameHand(r) /\ Source(r)' = Source(r)
            /\ job'[r].games = job[r].games /\ job'[r].group = job[r].group
            /\ job'[r].todo = job[r].todo \ due
            /\ at'[r] = "target" =>
                  /\ job[r].way = "remove" /\ job'[r].moves = job[r].moves
                  /\ c \in Matches /\ \A v \in due : v.who \notin row[c].entrants
            /\ at'[r] = "write" =>
                  /\ job'[r].moves = due /\ job'[r].target = c
                  /\ c \in Matches => job'[r].held = Load(c)
                  /\ c \in Pools => job'[r].seats = pool[c]
  BY TargetLoaded
<1>4. /\ due \in SUBSET j.todo /\ \A v \in due : v.rule.to = c
      /\ c \in Matches => \E v \in due : due = {v}
  BY <1>3
<1>6. /\ SameHand(r) /\ k.games = j.games /\ k.group = j.group /\ Source(r)' = Source(r)
      /\ k.todo = j.todo \ due
      /\ at'[r] = "target" => j.way = "remove" /\ k.moves = j.moves
      /\ at'[r] = "write" =>
            /\ k.moves = due /\ k.target = c
            /\ c \in Matches => k.held = Load(c)
            /\ c \in Pools => k.seats = pool[c]
  BY <1>3
<1>7. RulesLead' /\ ReachedOnly(reach)'
  BY <1>1, <1>2, RulesStill, TablesCarry
<1>8. \A d \in Competitions \ unsettled' : Away(r, d)' \/ Served(d)'
  BY <1>1, <1>2, <1>6, SameHandIsAway, TablesCarry
<1>9. CopiesAreCurrent(r)'
  BY <1>1, <1>2, <1>6 DEF CopiesAreCurrent, SameHand, Following, Load
<1>10. MovesAreOwn(reach, r)'
  <2>1. \A v \in j.todo : v.rule \in rules[Source(r)] /\ v.who \in reach[Source(r)]
    BY <1>1, <1>2 DEF MovesAreOwn
  <2>2. k.todo \union k.moves \subseteq j.todo
    BY <1>2, <1>4, <1>6
  <2>. QED
    BY <1>2, <1>4, <1>6, <2>1, <2>2 DEF MovesAreOwn
<1>11. MatchCarried(r)' /\ PoolCarried(r)'
  <2>1. CASE at'[r] = "target"
    BY <1>6, <2>1 DEF MatchCarried, PoolCarried, SameHand
  <2>2. CASE at'[r] = "write"
    <3>1. k.todo \union k.moves = j.todo \union j.moves
      BY <1>2, <1>4, <1>6, <2>2
    <3>2. \A c1, rule : SentOn(c1, rule)' = SentOn(c1, rule)
      BY <1>2 DEF SentOn
    <3>3. \A rule, e : SentOrToSend(r, e, rule)' <=> SentOrToSend(r, e, rule)
      BY <1>2, <3>1 DEF SentOrToSend, Holds
    <3>4. \A c1, e : Holds(c1, e)' <=> Holds(c1, e)
      BY <1>2 DEF Holds
    <3>5. k.on = j.on /\ k.way = j.way /\ k.level = j.level
      BY <1>6 DEF SameHand
    <3>6. MatchCarried(r)'
      BY <1>1, <1>2, <2>2, <3>2, <3>3, <3>4, <3>5 DEF MatchCarried, Following
    <3>7. PoolCarried(r)'
      BY <1>1, <1>2, <2>2, <3>3, <3>5 DEF PoolCarried
    <3>. QED
      BY <3>6, <3>7
  <2>. QED
    BY <1>2, <2>1, <2>2
<1>. QED
  BY <1>7, <1>8, <1>9, <1>10, <1>11, OneCarries

-----------------------------------------------------------------------------
(* Writing a target.                                                       *)

\* What r leaves when it writes its target c: only the entrants or seats of c
\* change, nobody leaves but those it removes, and those it places are there.
WritesTo(r, c) ==
    /\ c = job[r].target
    /\ at[r] = "write" /\ at'[r] = "target" /\ SameHand(r)
    /\ job'[r].todo = job[r].todo /\ job'[r].moves = {}
    /\ job'[r].games = job[r].games /\ job'[r].group = job[r].group
    /\ UNCHANGED <<rules, unsettled>>
    /\ \A m \in Matches : row'[m].result = row[m].result /\ (m # c => row'[m] = row[m])
    /\ \A p \in Pools : pool'[p].state = pool[p].state /\ (p # c => pool'[p] = pool[p])
    /\ \A t \in Competitions, e \in Entrants :
          \/ Keeps(t, e)
          \/ job[r].way = "remove" /\ t = c /\ \E v \in job[r].moves : v.who = e
    /\ job[r].way = "place" => \A v \in job[r].moves : Holds(c, v.who)'

\* Nobody comes to c but those it places, and those it removes are gone.
WritesNoMore(r, c) ==
    /\ UNCHANGED edits
    /\ \A t \in Competitions, e \in Entrants :
          \/ Holds(t, e)' => Holds(t, e)
          \/ job[r].way = "place" /\ t = c /\ \E v \in job[r].moves : v.who = e
    /\ job[r].way = "remove" => \A v \in job[r].moves : ~Holds(c, v.who)'

\* What is known of a target that is about to be written.
LEMMA TargetApart ==
  ASSUME PoolsFeedThemselves, NEW reach, AdvInv, CarryInv(reach), OneRequest,
         NEW r \in Requests, at[r] = "write", NEW c, c = job[r].target
  PROVE  /\ Source(r) \in Competitions /\ Source(r) # c /\ Leads(Source(r), c)
         /\ c \in Competitions /\ job[r].on # c
         /\ \A v \in job[r].moves : v.who \in reach[Source(r)] /\ v.rule.to = c
         /\ job[r].level = "pool" => c \notin MatchesOf(PoolOf[job[r].on])
         /\ \A p \in Pools, t \in Competitions :
                Leads(p, t) /\ c \in MatchesOf(p) => job[r].level = "match" /\ p = PoolOf[job[r].on]
<1> DEFINE j == job[r]
<1>1. /\ TypeOK /\ j \in Job /\ Fits(at[r], j) /\ RulesLead /\ MovesAreOwn(reach, r)
  BY TableFits, OneCarried DEF AdvInv
<1>2. j.on \in Matches /\ PoolOf[j.on] \in Pools /\ j.level \in {"match", "pool"}
  BY <1>1 DEF Fits, Job
<1>3. PICK S \in Competitions : S = Source(r)
  BY <1>2 DEF Source
<1>4. /\ \A v \in j.moves : v.who \in reach[S] /\ v.rule.to = c /\ v.rule \in rules[S]
      /\ j.moves # {}
  BY <1>1, <1>3 DEF Fits, MovesAreOwn
<1>5. PICK v \in j.moves : v.rule.to = c /\ v.rule \in rules[S]
  BY <1>4
<1>6. S # c /\ Leads(S, c) /\ c \in Competitions
  BY <1>1, <1>5 DEF RulesLead, RuleFits, TypeOK, Rule
<1>7. ASSUME j.level = "pool" PROVE c \notin MatchesOf(PoolOf[j.on])
  <2>1. S = PoolOf[j.on] /\ S \notin Matches
    BY <1>2, <1>3, <1>7 DEF Source
  <2>2. ASSUME c \in Matches, PoolOf[c] = S PROVE FALSE
    <3>1. Leads(S, c) /\ Leads(PoolOf[c], c)
      BY <1>6, <2>2
    <3>. QED
      BY <2>1, <2>2, <3>1 DEF PoolsFeedThemselves
  <2>. QED
    BY <2>1, <2>2 DEF MatchesOf
<1>8. j.on # c
  <2>1. CASE j.level = "match"
    BY <1>3, <1>6, <2>1 DEF Source
  <2>2. CASE j.level = "pool"
    BY <1>2, <1>7, <2>2 DEF MatchesOf
  <2>. QED
    BY <1>2, <2>1, <2>2
<1>9. ASSUME NEW p \in Pools, NEW t \in Competitions, Leads(p, t), c \in MatchesOf(p)
      PROVE  j.level = "match" /\ p = PoolOf[j.on]
  <2>1. c \in Matches /\ PoolOf[c] = p
    BY <1>9 DEF MatchesOf
  <2>2. S \in Matches /\ PoolOf[S] = p
    BY <1>6, <1>9, <2>1 DEF PoolsFeedThemselves
  <2>3. S = j.on /\ j.level = "match"
    BY <1>2, <1>3, <2>2 DEF Source
  <2>. QED
    BY <2>2, <2>3
<1>. QED
  BY <1>3, <1>4, <1>6, <1>7, <1>8, <1>9

\* What is said of sources survives the write.
LEMMA WriteServes ==
  ASSUME OneRequest, PoolsFeedThemselves, NEW reach, Branches(reach),
         AdvInv, PoolInv, CarryInv(reach), NEW r \in Requests, NEW c, WritesTo(r, c)
  PROVE  \A d \in Competitions \ unsettled' : Away(r, d)' \/ Served(d)'
<1> DEFINE j == job[r]  k == job'[r]
<1>1. PICK S : c = j.target /\ S = Source(r)
  BY DEF WritesTo
<1>2. /\ TypeOK /\ j \in Job /\ OnCourse(r) /\ Fits(at[r], j)
      /\ \A p \in Pools : InHand(r, p) => Underway(r, p)
      /\ RulesLead /\ ReachedOnly(reach)
      /\ \A d \in Competitions \ unsettled : Away(r, d) \/ Served(d)
  BY TableFits, OneHolds, OneCarried DEF AdvInv
<1>3. /\ at[r] = "write" /\ SameHand(r) /\ UNCHANGED <<rules, unsettled>>
      /\ \A m \in Matches : row'[m].result = row[m].result /\ (m # c => row'[m] = row[m])
      /\ \A p \in Pools : pool'[p].state = pool[p].state /\ (p # c => pool'[p] = pool[p])
      /\ \A t \in Competitions, e \in Entrants :
            \/ Keeps(t, e)
            \/ j.way = "remove" /\ t = c /\ \E v \in j.moves : v.who = e
  BY DEF WritesTo
<1>4. /\ S \in Competitions /\ Leads(S, c) /\ c \in Competitions
      /\ \A v \in j.moves : v.who \in reach[S]
      /\ \A p \in Pools, t \in Competitions :
            Leads(p, t) /\ c \in MatchesOf(p) => j.level = "match" /\ p = PoolOf[j.on]
  BY <1>1, <1>3, TargetApart
<1>5. j.op \in {"commit", "reopen"} /\ j.on \in Matches /\ InHand(r, PoolOf[j.on])
  BY <1>2, <1>3 DEF OnCourse, Fits, InHand
<1>6. ASSUME NEW d \in Competitions \ unsettled', ~Away(r, d) PROVE Served(d)'
  <2>1. Served(d) /\ d \notin unsettled /\ rules'[d] = rules[d]
    BY <1>2, <1>3, <1>6
  <2>2. CASE rules[d] = {}
    BY <2>1, <2>2 DEF Served
  <2>3. CASE rules[d] # {} /\ d \in Pools /\ c \in MatchesOf(d)
    <3>1. PICK t \in Competitions : Leads(d, t)
      BY <1>2, <2>3 DEF RulesLead, RuleFits, TypeOK, Rule
    <3>2. d = PoolOf[j.on]
      BY <1>4, <2>3, <3>1
    <3>3. j.way # "remove"
      BY <1>3, <1>5, <1>6, <3>2 DEF Away, Following
    <3>4. pool[d].state # "completed"
      BY <1>2, <1>3, <1>5, <2>1, <3>2, <3>3 DEF Underway
    <3>5. pool'[d].state # "completed" /\ d \notin Matches
      BY <1>3, <2>3, <3>4
    <3>. QED
      BY <3>5 DEF Served, SentOn
  <2>4. CASE rules[d] # {} /\ ~(d \in Pools /\ c \in MatchesOf(d))
    <3>1. SameSource(d)
      BY <1>3, <2>4 DEF SameSource, SameIn, MatchesOf
    <3>2. ASSUME NEW rule \in rules[d], NEW e \in SentOn(d, rule) PROVE Keeps(rule.to, e)
      <4>1. /\ e \in Entrants /\ e \in reach[d] /\ rule.to \in Competitions
            /\ Leads(d, rule.to)
        BY <1>2, <3>2, SentOnReach DEF TypeOK, Rule, RulesLead, RuleFits
      <4>2. ASSUME ~Keeps(rule.to, e) PROVE FALSE
        <5>0. PICK t \in Competitions : t = rule.to
          BY <4>1
        <5>1. j.way = "remove" /\ rule.to = c /\ e \in reach[S]
          <6>1. ~Keeps(t, e)
            BY <4>2, <5>0 DEF Keeps, Holds
          <6>2. j.way = "remove" /\ t = c /\ \E v \in j.moves : v.who = e
            BY <1>3, <4>1, <6>1
          <6>. QED
            BY <1>4, <5>0, <6>2
        <5>2. d = S
          BY <1>4, <4>1, <5>1 DEF Branches
        <5>3. d \in {j.on, PoolOf[j.on]}
          BY <1>1, <5>2 DEF Source
        <5>. QED
          BY <1>3, <1>5, <1>6, <5>1, <5>3 DEF Away, Following
      <4>. QED
        BY <4>2
    <3>. QED
      BY <2>1, <3>1, <3>2, ServedOn
  <2>. QED
    BY <2>2, <2>3, <2>4
<1>. QED
  BY <1>3, <1>6, SameHandIsAway

\* A write brings those nearer who are to be sent.
LEMMA WriteSends ==
  ASSUME AdvInv, NEW reach, CarryInv(reach), OneRequest, NEW r \in Requests,
         NEW c, WritesTo(r, c), job[r].way = "place",
         \A v \in job[r].moves : v.rule.to = c,
         NEW rule \in Rule, NEW e \in Entrants, SentOrToSend(r, e, rule)
  PROVE  SentOrToSend(r, e, rule)'
<1>1. PICK t \in Competitions : t = rule.to
  BY DEF Rule
<1>2. Keeps(t, e) /\ job'[r].todo = job[r].todo /\ \A v \in job[r].moves : Holds(c, v.who)'
  BY DEF WritesTo
<1>3. CASE Holds(rule.to, e)
  BY <1>1, <1>2, <1>3 DEF Keeps, SentOrToSend, Holds
<1>4. CASE [who |-> e, rule |-> rule] \in job[r].todo
  BY <1>2, <1>4 DEF SentOrToSend
<1>5. CASE [who |-> e, rule |-> rule] \in job[r].moves
  <2>1. PICK v \in job[r].moves : v = [who |-> e, rule |-> rule]
    BY <1>5
  <2>2. v.who = e /\ rule.to = c
    BY <1>1, <2>1
  <2>3. Holds(c, e)'
    BY <1>2, <2>2
  <2>. QED
    BY <2>2, <2>3 DEF SentOrToSend, Holds
<1>. QED
  BY <1>3, <1>4, <1>5 DEF SentOrToSend

LEMMA WriteCarries ==
  ASSUME OneRequest, PoolsFeedThemselves, NEW reach, Branches(reach),
         AdvInv, PoolInv, CarryInv(reach), NEW r \in Requests, NEW c, WritesTo(r, c),
         ReachedOnly(reach)'
  PROVE  CarryInv(reach)'
<1> DEFINE j == job[r]  k == job'[r]
<1>1. PICK p : c = j.target /\ p = PoolOf[j.on]
  BY DEF WritesTo
<1>2. /\ TypeOK /\ j \in Job /\ Fits(at[r], j)
      /\ RulesLead /\ CopiesAreCurrent(r) /\ MovesAreOwn(reach, r)
      /\ MatchCarried(r) /\ PoolCarried(r)
  BY TableFits, OneCarried DEF AdvInv
<1>3. /\ at[r] = "write" /\ at'[r] = "target" /\ UNCHANGED <<rules, unsettled>>
      /\ k.todo = j.todo /\ k.moves = {} /\ k.games = j.games /\ k.group = j.group
      /\ k.on = j.on /\ k.way = j.way /\ k.level = j.level /\ k.mine = j.mine
      /\ \A m \in Matches : row'[m].result = row[m].result /\ (m # c => row'[m] = row[m])
      /\ \A q \in Pools : pool'[q].state = pool[q].state /\ (q # c => pool'[q] = pool[q])
      /\ j.way = "place" => \A t \in Competitions, e \in Entrants : Keeps(t, e)
  BY DEF WritesTo, SameHand
<1>4. /\ j.on # c /\ j.on \in Matches /\ p \in Pools
      /\ Source(r) # c /\ \A v \in j.moves : v.rule.to = c
      /\ j.level = "pool" => c \notin MatchesOf(p)
  BY <1>1, <1>2, <1>3, TargetApart DEF Fits
<1>5. RulesLead'
  BY <1>2, <1>3, RulesStill
<1>6. CopiesAreCurrent(r)'
  <2>1. k.mine.match.entrants = row'[k.on].entrants /\ k.mine.match.result = row'[k.on].result
    BY <1>2, <1>3, <1>4 DEF CopiesAreCurrent, Following
  <2>2. ASSUME k.level = "pool"
        PROVE  k.group = pool'[p] /\ \A m \in MatchesOf(p) : k.games[m] = row'[m]
    <3>1. p # c
      BY <1>1, <1>3, <1>4, <2>2 DEF Source
    <3>. QED
      BY <1>1, <1>2, <1>3, <1>4, <2>2, <3>1 DEF CopiesAreCurrent, Following, MatchesOf
  <2>. QED
    BY <1>1, <1>3, <1>4, <2>1, <2>2 DEF CopiesAreCurrent
<1>7. MovesAreOwn(reach, r)'
  BY <1>2, <1>3 DEF MovesAreOwn, Source
<1>8. MatchCarried(r)'
  <2>1. SUFFICES ASSUME j.way = "place", NEW rule \in rules[j.on], NEW e \in SentOn(j.on, rule)
                 PROVE  IF j.level = "pool" THEN Holds(rule.to, e)' ELSE SentOrToSend(r, e, rule)'
    <3>1. SameSource(j.on)
      BY <1>3, <1>4 DEF SameSource
    <3>2. PICK m \in Competitions : m = j.on
      BY <1>4
    <3>3. \A rule : SentOn(m, rule)' = SentOn(m, rule)
      BY <3>1, <3>2, SentOnSame
    <3>4. \A rule : SentOn(job[r].on, rule)' = SentOn(m, rule)'
      BY <1>3, <3>2 DEF SentOn
    <3>5. \A rule : SentOn(job[r].on, rule)' = SentOn(m, rule)
      BY <3>3, <3>4
    <3>. QED
      BY <1>3, <3>2, <3>5 DEF MatchCarried
  <2>2. /\ e \in Entrants /\ rule \in Rule /\ rule.to \in Competitions
        /\ IF j.level = "pool" THEN Holds(rule.to, e) ELSE SentOrToSend(r, e, rule)
    <3>1. j.on \in Competitions /\ rules[j.on] \subseteq Rule /\ rule \in Rule
      BY <1>2, <1>4, <2>1 DEF TypeOK
    <3>2. rule.to \in Competitions
      BY <3>1 DEF Rule
    <3>3. e \in Entrants
      BY <1>4, <2>1 DEF SentOn
    <3>4. at[r] \in Following
      BY <1>3 DEF Following
    <3>5. IF j.level = "pool" THEN Holds(rule.to, e) ELSE SentOrToSend(r, e, rule)
      BY <1>2, <1>3, <2>1, <3>4 DEF MatchCarried
    <3>. QED
      BY <3>1, <3>2, <3>3, <3>5
  <2>3. CASE j.level = "pool"
    <3>1. PICK t \in Competitions : t = rule.to
      BY <2>2
    <3>2. Keeps(t, e)
      BY <1>3, <2>1, <2>2
    <3>. QED
      BY <2>2, <2>3, <3>1, <3>2 DEF Keeps, Holds
  <2>4. CASE j.level # "pool"
    BY <1>1, <1>4, <2>1, <2>2, <2>4, WriteSends
  <2>. QED
    BY <2>3, <2>4
<1>9. PoolCarried(r)'
  <2>1. SUFFICES ASSUME j.way = "place", j.level = "pool", NEW rule \in rules[p],
                        NEW e \in InPool(row', p), PlaceInPool(row', p, e) = rule.placement
                 PROVE  SentOrToSend(r, e, rule)'
    BY <1>1, <1>3 DEF PoolCarried
  <2>2. PICK old, new : old = row /\ new = row'
    OBVIOUS
  <2>3. SameIn(p, new, old)
    BY <1>3, <1>4, <2>1, <2>2 DEF SameIn, MatchesOf
  <2>4. InPool(new, p) = InPool(old, p) /\ PlaceInPool(new, p, e) = PlaceInPool(old, p, e)
    BY <2>3, PlacesSame
  <2>5. e \in InPool(row, p) /\ PlaceInPool(row, p, e) = rule.placement
    BY <2>1, <2>2, <2>4
  <2>6. SentOrToSend(r, e, rule)
    BY <1>1, <1>2, <1>3, <2>1, <2>5 DEF PoolCarried
  <2>7. rule \in Rule /\ e \in Entrants
    BY <1>2, <1>4, <2>5 DEF TypeOK, InPool, MatchesOf, Match
  <2>. QED
    BY <1>1, <1>4, <2>1, <2>6, <2>7, WriteSends
<1>10. \A d \in Competitions \ unsettled' : Away(r, d)' \/ Served(d)'
  BY WriteServes
<1>. QED
  BY <1>5, <1>6, <1>7, <1>8, <1>9, <1>10, OneCarries

LEMMA WrittenTells ==
  ASSUME NEW match \in Match, NEW v \in Move, NEW way
  PROVE  /\ Written(way, match, {v}).result = match.result
         /\ Written(way, match, {v}).entrants =
                IF way = "place" THEN match.entrants \union {v.who} ELSE match.entrants \ {v.who}
<1>1. First({v}) = v
  <2>1. {v} \in SUBSET Move
    OBVIOUS
  <2>. QED
    BY <2>1, FirstIsOne
<1>2. v.who \in Entrants
  BY DEF Move
<1>. QED
  BY <1>1, <1>2 DEF Written, PlaceEntrant, RemoveEntrant, Resettled, Match

LEMMA SavedTells ==
  ASSUME NEW a \in Aggregate
  PROVE  /\ Saved(a).entrants = a.match.entrants /\ Saved(a).result = a.match.result
         /\ \A match \in Match : [a EXCEPT !.match = match] \in Aggregate
                                 /\ [a EXCEPT !.match = match].match = match
BY DEF Aggregate, Saved, Match

LEMMA MatchWrites ==
  ASSUME OneRequest, NEW reach, AdvInv, CarryInv(reach), NEW r \in Requests, WriteMatch(r)
  PROVE  \E c \in Matches :
            /\ WritesTo(r, c) /\ WritesNoMore(r, c)
            /\ \A m \in Matches :
                  row'[m].entrants \subseteq row[m].entrants \union
                        IF m = c THEN {v.who : v \in job[r].moves} ELSE {}
<1> DEFINE j == job[r]  k == job'[r]
<1>1. /\ TypeOK /\ j \in Job /\ Fits(at[r], j)
      /\ CopiesAreCurrent(r) /\ MovesAreOwn(reach, r)
  BY TableFits, OneCarried DEF AdvInv
<1>2. PICK c \in Matches : c = j.target
  BY DEF WriteMatch
<1>3. /\ at[r] = "write" /\ at'[r] = "target"
      /\ k = [j EXCEPT !.moves = {}, !.target = None, !.held = NoMatchHeld, !.seats = NoPoolHeld]
      /\ UNCHANGED <<pool, rules, unsettled>>
      /\ row' = [row EXCEPT ![c] = Saved([j.held EXCEPT !.match = Written(j.way, j.held.match, j.moves)])]
  BY <1>1, <1>2 DEF WriteMatch, Go, PutDown, Put, TypeOK, Job, Aggregate
<1>4. PICK v \in j.moves : j.moves = {v}
  BY <1>1, <1>2, <1>3 DEF MovesAreOwn
<1>5. v \in Move /\ j.held \in Aggregate /\ j.held.match = row[c] /\ row[c] \in Match
  BY <1>1, <1>2, <1>3, <1>4 DEF Job, CopiesAreCurrent, TypeOK
<1>6. /\ row'[c].result = row[c].result
      /\ row'[c].entrants = IF j.way = "place" THEN row[c].entrants \union {v.who}
                            ELSE row[c].entrants \ {v.who}
  <2>1. PICK match, way, held : match = row[c] /\ way = j.way /\ held = j.held
    OBVIOUS
  <2>2. PICK new : new = Written(way, match, {v})
    OBVIOUS
  <2>3. match \in Match /\ held \in Aggregate
    BY <1>5, <2>1
  <2>4. /\ new.result = match.result
        /\ new.entrants = IF way = "place" THEN match.entrants \union {v.who}
                          ELSE match.entrants \ {v.who}
    BY <1>5, <2>2, <2>3, WrittenTells, ZenonT(40)
  <2>5. new \in Match
    BY <1>5, <2>2, <2>3, WrittenType
  <2>6. PICK a : a = [held EXCEPT !.match = new]
    OBVIOUS
  <2>7. a \in Aggregate /\ a.match = new
    BY <2>3, <2>5, <2>6, SavedTells
  <2>8. Saved(a).entrants = new.entrants /\ Saved(a).result = new.result
    BY <2>7, SavedTells
  <2>9. row'[c] = Saved(a)
    BY <1>1, <1>3, <1>4, <1>5, <2>1, <2>2, <2>6 DEF TypeOK
  <2>. QED
    BY <2>1, <2>4, <2>8, <2>9
<1>7. \A m \in Matches : m # c => row'[m] = row[m]
  BY <1>1, <1>3 DEF TypeOK
<1>8. SameHand(r) /\ k.todo = j.todo /\ k.moves = {} /\ k.games = j.games /\ k.group = j.group
  BY <1>1, <1>3 DEF SameHand, Following, Job
<1>9. ASSUME NEW t \in Competitions, NEW e \in Entrants
      PROVE  Keeps(t, e) \/ (j.way = "remove" /\ t = c /\ \E w \in j.moves : w.who = e)
  <2>1. CASE t = c
    <3>1. Holds(t, e) => e \in row[c].entrants
      BY <2>1 DEF Holds
    <3>2. e \in row'[c].entrants => Holds(t, e)'
      BY <2>1 DEF Holds
    <3>3. j.way \in {"place", "remove"}
      BY <1>1 DEF Job
    <3>. QED
      BY <1>4, <1>6, <2>1, <3>1, <3>2, <3>3 DEF Keeps
  <2>2. CASE t # c
    BY <1>3, <1>7, <2>2 DEF Keeps, Holds
  <2>. QED
    BY <2>1, <2>2
<1>10. j.way = "place" => \A w \in j.moves : Holds(c, w.who)'
  <2>1. ASSUME j.way = "place" PROVE v.who \in row'[c].entrants
    BY <1>6, <2>1
  <2>. QED
    BY <1>2, <1>4, <2>1 DEF Holds
<1>11. WritesTo(r, c)
  BY <1>2, <1>3, <1>6, <1>7, <1>8, <1>9, <1>10 DEF WritesTo
<1>12. ASSUME NEW t \in Competitions, NEW e \in Entrants
       PROVE  \/ Holds(t, e)' => Holds(t, e)
              \/ j.way = "place" /\ t = c /\ \E w \in j.moves : w.who = e
  <2>1. CASE t = c
    <3>1. Holds(t, e)' => e \in row'[c].entrants
      BY <2>1 DEF Holds
    <3>2. e \in row[c].entrants => Holds(t, e)
      BY <2>1 DEF Holds
    <3>. QED
      BY <1>4, <1>6, <2>1, <3>1, <3>2
  <2>2. CASE t # c
    BY <1>3, <1>7, <2>2 DEF Holds
  <2>. QED
    BY <2>1, <2>2
<1>13. j.way = "remove" => \A w \in j.moves : ~Holds(c, w.who)'
  <2>1. ASSUME j.way = "remove" PROVE v.who \notin row'[c].entrants
    BY <1>6, <2>1
  <2>. QED
    BY <1>2, <1>4, <2>1 DEF Holds
<1>14. WritesNoMore(r, c)
  BY <1>12, <1>13 DEF WritesNoMore, WriteMatch
<1>15. \A m \in Matches :
          row'[m].entrants \subseteq row[m].entrants \union
                IF m = c THEN {w.who : w \in j.moves} ELSE {}
  BY <1>4, <1>6, <1>7
<1>. QED
  BY <1>11, <1>14, <1>15

LEMMA MatchWriteCarries ==
  ASSUME OneRequest, PoolsFeedThemselves, NEW reach, Branches(reach),
         AdvInv, PoolInv, CarryInv(reach), NEW r \in Requests, WriteMatch(r)
  PROVE  CarryInv(reach)'
<1>1. PICK c \in Matches :
        /\ WritesTo(r, c) /\ WritesNoMore(r, c)
        /\ \A m \in Matches :
              row'[m].entrants \subseteq row[m].entrants \union
                    IF m = c THEN {v.who : v \in job[r].moves} ELSE {}
  BY MatchWrites
<1>2. ReachedOnly(reach)'
  <2>1. at[r] = "write" /\ c = job[r].target /\ ReachedOnly(reach)
    BY <1>1, OneCarried DEF WritesTo
  <2>2. /\ Leads(Source(r), c) /\ Source(r) \in Competitions
        /\ \A v \in job[r].moves : v.who \in reach[Source(r)]
    BY <2>1, TargetApart
  <2>3. \A v \in job[r].moves : v.who \in reach[c]
    BY <2>2 DEF Branches
  <2>4. \A m \in Matches : row'[m].entrants \subseteq reach[m]
    BY <1>1, <2>1, <2>3 DEF ReachedOnly
  <2>5. \A m \in Matches : row'[m].result = row[m].result
    BY <1>1 DEF WritesTo
  <2>. QED
    BY <2>1, <2>4, <2>5 DEF ReachedOnly
<1>. QED
  BY <1>1, <1>2, WriteCarries

\* What is cut short is at stake.
LEMMA FailCarries ==
  ASSUME OneRequest, NEW reach, AdvInv, PoolInv, CarryInv(reach), NEW r \in Requests,
         at[r] \in Following \union {"save"}, Fail(r), UNCHANGED <<row, pool, rules>>
  PROVE  CarryInv(reach)'
<1>1. /\ TypeOK /\ RulesLead /\ ReachedOnly(reach)
      /\ \A c \in Competitions \ unsettled : Away(r, c) \/ Served(c)
  BY OneCarried DEF AdvInv
<1>2. at'[r] = "idle" /\ unsettled' = unsettled \union AtStake(r)
  BY <1>1 DEF Fail, End, Go, TypeOK
<1>3. \A c : Away(r, c) => c \in AtStake(r)
  BY DEF Away, AtStake, Following
<1>4. RulesLead'
  BY <1>1, <1>2, RulesStill
<1>5. ReachedOnly(reach)' /\ \A c \in Competitions \ unsettled' : Served(c)'
  BY <1>1, <1>2, <1>3, TablesCarry
<1>. QED
  BY <1>2, <1>4, <1>5, RestCarries

\* Seats of a pool in memory.
LEMMA SeatsTell ==
  ASSUME NEW p \in Pool, NEW moves, NEW e \in Entrants
  PROVE  /\ SeatsPlaced(p, moves).state = p.state /\ SeatsReleased(p, moves).state = p.state
         /\ p.seats[e].status # "none" => SeatsPlaced(p, moves).seats[e].status # "none"
         /\ (\E v \in moves : v.who = e) => SeatsPlaced(p, moves).seats[e].status # "none"
         /\ ~(\E v \in moves : v.who = e) =>
                /\ SeatsReleased(p, moves).seats[e].status = p.seats[e].status
                /\ SeatsPlaced(p, moves).seats[e].status = p.seats[e].status
         /\ (\E v \in moves : v.who = e) => SeatsReleased(p, moves).seats[e].status = "none"
BY DEF SeatsPlaced, SeatsReleased, Pool, NoSeat

LEMMA PoolWrites ==
  ASSUME OneRequest, NEW reach, AdvInv, CarryInv(reach), NEW r \in Requests, WritePool(r),
         ~(Fail(r) /\ UNCHANGED pool)
  PROVE  \E c \in Pools : WritesTo(r, c) /\ WritesNoMore(r, c)
<1> DEFINE j == job[r]  k == job'[r]
<1>1. /\ TypeOK /\ j \in Job /\ CopiesAreCurrent(r)
      /\ at[r] = "write" /\ UNCHANGED <<row, rules, edits>>
  BY TableFits, OneCarried DEF AdvInv, WritePool
<1>2. PICK c \in Pools : c = j.target
  BY DEF WritePool
<1>3. PICK new : new = IF j.way = "place" THEN SeatsPlaced(j.seats, j.moves)
                       ELSE SeatsReleased(j.seats, j.moves)
  OBVIOUS
<1>4. /\ pool' = [pool EXCEPT ![c] = new] /\ at'[r] = "target" /\ UNCHANGED unsettled
      /\ k = [j EXCEPT !.moves = {}, !.target = None, !.held = NoMatchHeld, !.seats = NoPoolHeld]
  BY <1>1, <1>2, <1>3 DEF WritePool, Go, PutDown, Put, TypeOK
<1>5. SameHand(r) /\ k.todo = j.todo /\ k.moves = {} /\ k.games = j.games /\ k.group = j.group
  BY <1>1, <1>4 DEF SameHand, Following, Job
<1>6. j.seats = pool[c] /\ pool[c] \in Pool /\ j.way \in {"place", "remove"}
  BY <1>1, <1>2 DEF CopiesAreCurrent, TypeOK, Job
<1>7. /\ new.state = pool[c].state
      /\ \A e \in Entrants :
            IF \E v \in j.moves : v.who = e
            THEN (new.seats[e].status # "none") <=> j.way = "place"
            ELSE new.seats[e].status = pool[c].seats[e].status
  <2>1. PICK p, moves, way : p = pool[c] /\ moves = j.moves /\ way = j.way
    OBVIOUS
  <2>2. p \in Pool
    BY <1>6, <2>1
  <2>3. new = IF way = "place" THEN SeatsPlaced(p, moves) ELSE SeatsReleased(p, moves)
    BY <1>3, <1>6, <2>1
  <2>4. new.state = p.state
    BY <2>2, <2>3 DEF SeatsPlaced, SeatsReleased, Pool
  <2>5. ASSUME NEW e \in Entrants
        PROVE  IF \E v \in moves : v.who = e
               THEN (new.seats[e].status # "none") <=> way = "place"
               ELSE new.seats[e].status = p.seats[e].status
    <3>1. CASE \E v \in moves : v.who = e
      <4>1. /\ SeatsPlaced(p, moves).seats[e].status # "none"
            /\ SeatsReleased(p, moves).seats[e].status = "none"
        <5>1. SeatsPlaced(p, moves).seats[e].status # "none"
          BY <2>2, <3>1 DEF SeatsPlaced, Pool
        <5>2. SeatsReleased(p, moves).seats[e].status = "none"
          BY <2>2, <3>1 DEF SeatsReleased, Pool, NoSeat
        <5>. QED
          BY <5>1, <5>2
      <4>. QED
        BY <2>3, <3>1, <4>1
    <3>2. CASE ~\E v \in moves : v.who = e
      BY <2>2, <2>3, <3>2, SeatsTell
    <3>. QED
      BY <3>1, <3>2
  <2>. QED
    BY <2>1, <2>4, <2>5
<1>8. pool'[c] = new /\ \A p \in Pools : p # c => pool'[p] = pool[p]
  BY <1>1, <1>4 DEF TypeOK
<1>9. \A e : /\ Holds(c, e) <=> pool[c].seats[e].status # "none"
             /\ Holds(c, e)' <=> new.seats[e].status # "none"
  <2>1. c \notin Matches
    OBVIOUS
  <2>. QED
    BY <1>8, <2>1 DEF Holds
<1>10. ASSUME NEW t \in Competitions, NEW e \in Entrants
       PROVE  /\ Keeps(t, e) \/ (j.way = "remove" /\ t = c /\ \E w \in j.moves : w.who = e)
              /\ \/ Holds(t, e)' => Holds(t, e)
                 \/ j.way = "place" /\ t = c /\ \E w \in j.moves : w.who = e
  <2>1. CASE t = c
    BY <1>6, <1>7, <1>9, <2>1 DEF Keeps
  <2>2. CASE t # c
    BY <1>1, <1>8, <2>2 DEF Keeps, Holds
  <2>. QED
    BY <2>1, <2>2
<1>11. ASSUME NEW w \in j.moves PROVE Holds(c, w.who)' <=> j.way = "place"
  <2>1. w.who \in Entrants
    BY <1>1 DEF Job, Move
  <2>. QED
    BY <1>7, <1>9, <1>11, <2>1
<1>12. WritesTo(r, c)
  BY <1>1, <1>2, <1>4, <1>5, <1>7, <1>8, <1>10, <1>11 DEF WritesTo
<1>13. WritesNoMore(r, c)
  BY <1>1, <1>10, <1>11 DEF WritesNoMore
<1>. QED
  BY <1>12, <1>13

LEMMA PoolWriteCarries ==
  ASSUME OneRequest, PoolsFeedThemselves, NEW reach, Branches(reach),
         AdvInv, PoolInv, CarryInv(reach), NEW r \in Requests, WritePool(r)
  PROVE  CarryInv(reach)'
<1>1. at[r] = "write" /\ UNCHANGED <<row, rules>>
  BY DEF WritePool
<1>2. CASE Fail(r) /\ UNCHANGED pool
  BY <1>1, <1>2, FailCarries DEF Following
<1>3. CASE ~(Fail(r) /\ UNCHANGED pool)
  <2>1. PICK c \in Pools : WritesTo(r, c)
    BY <1>3, PoolWrites
  <2>2. ReachedOnly(reach)'
    BY <1>1, OneCarried DEF ReachedOnly
  <2>. QED
    BY <2>1, <2>2, WriteCarries
<1>. QED
  BY <1>2, <1>3

-----------------------------------------------------------------------------
(* The pool of the match.                                                  *)

LEMMA GroupCarries ==
  ASSUME OneRequest, NEW reach, AdvInv, PoolInv, CarryInv(reach),
         NEW r \in Requests, ReadGroup(r)
  PROVE  CarryInv(reach)'
<1> DEFINE j == job[r]  k == job'[r]
<1>1. /\ TypeOK /\ j \in Job /\ Fits(at[r], j) /\ OnCourse(r)
      /\ RulesLead /\ ReachedOnly(reach) /\ CopiesAreCurrent(r) /\ MovesAreOwn(reach, r)
      /\ MatchCarried(r)
      /\ \A c \in Competitions \ unsettled : Away(r, c) \/ Served(c)
  BY TableFits, OneHolds, OneCarried DEF AdvInv
<1>2. /\ at[r] = "target" /\ j.todo = {} /\ j.moves = {} /\ j.level = "match" /\ j.on \in Matches
      /\ UNCHANGED <<row, pool, rules>>
  BY <1>1 DEF ReadGroup, Fits, MovesAreOwn
<1>3. j.way = "place" => Served(j.on)
  BY <1>1, <1>2 DEF MatchCarried, SentOrToSend, Served, Following
<1>4. ReachedOnly(reach)' /\ \A c : Served(c)' <=> Served(c)
  BY <1>1, <1>2, TablesCarry
<1>5. CASE j.way = "place" /\ ~Decided(row, PoolOf[j.on])
  <2>1. at'[r] = "idle" /\ unsettled' = unsettled \ {j.on}
    BY <1>1, <1>2, <1>5 DEF ReadGroup, End, Go, TypeOK
  <2>2. \A c : Away(r, c) => c = j.on
    BY <1>2, <1>5 DEF Away, Following
  <2>3. RulesLead'
    BY <1>1, <1>2, <2>1, RulesStill
  <2>. QED
    BY <1>1, <1>3, <1>4, <1>5, <2>1, <2>2, <2>3, RestCarries
<1>6. CASE ~(j.way = "place" /\ ~Decided(row, PoolOf[j.on]))
  <2>1. /\ k = [j EXCEPT !.level = "pool", !.games = row, !.group = pool[PoolOf[j.on]]]
        /\ at'[r] = "rules" /\ UNCHANGED unsettled
    BY <1>1, <1>2, <1>6 DEF ReadGroup, Go, Put, TypeOK
  <2>2. /\ k.on = j.on /\ k.op = j.op /\ k.way = j.way /\ k.mine = j.mine /\ k.moves = j.moves
        /\ k.level = "pool" /\ k.games = row /\ k.group = pool[PoolOf[j.on]]
    BY <1>1, <2>1 DEF Job
  <2>3. \A c : Away(r, c) => Away(r, c)'
    BY <1>2, <2>1, <2>2 DEF Away, Following
  <2>4. RulesLead'
    BY <1>1, <1>2, <2>1, RulesStill
  <2>5. CopiesAreCurrent(r)'
    BY <1>1, <1>2, <2>1, <2>2 DEF CopiesAreCurrent, Following
  <2>6. MovesAreOwn(reach, r)' /\ PoolCarried(r)'
    BY <1>2, <2>1, <2>2 DEF MovesAreOwn, PoolCarried
  <2>7. MatchCarried(r)'
    <3>1. PICK m : m = j.on
      OBVIOUS
    <3>2. k.way = "place" => Served(m)'
      BY <1>3, <1>4, <2>2, <3>1
    <3>. QED
      BY <2>2, <3>1, <3>2 DEF MatchCarried, Served
  <2>. QED
    BY <1>1, <1>4, <2>1, <2>3, <2>4, <2>5, <2>6, <2>7, OneCarries
<1>. QED
  BY <1>5, <1>6

LEMMA MarkedTells ==
  ASSUME NEW p \in Pool, NEW who, NEW state
  PROVE  /\ Marked(p, who, state).state = state
         /\ \A e \in Entrants :
                (Marked(p, who, state).seats[e].status # "none") <=> p.seats[e].status # "none"
<1>1. ASSUME NEW e \in Entrants
      PROVE  (Marked(p, who, state).seats[e].status # "none") <=> p.seats[e].status # "none"
  <2>1. CASE p.seats[e].status # "none"
    <3>1. p.seats[e] \in Seat
      BY DEF Pool
    <3>2. Marked(p, who, state).seats[e] =
              [p.seats[e] EXCEPT !.status = IF e \in who THEN "advanced" ELSE "active"]
      BY <2>1 DEF Marked
    <3>. QED
      BY <2>1, <3>1, <3>2 DEF Seat
  <2>2. CASE p.seats[e].status = "none"
    BY <2>2 DEF Marked, NoSeat
  <2>. QED
    BY <2>1, <2>2
<1>. QED
  BY <1>1 DEF Marked

\* No result changes, and nobody loses a place.
LEMMA NobodyLeaves ==
  ASSUME AdvInv, NEW reach, Branches(reach), ReachedOnly(reach), UNCHANGED rules,
         NEW d \in Competitions, Served(d), SameSource(d),
         \A t \in Competitions, e \in Entrants : Keeps(t, e)
  PROVE  Served(d)'
<1>1. ASSUME NEW rule \in rules[d], NEW e \in SentOn(d, rule) PROVE Keeps(rule.to, e)
  <2>1. e \in Entrants /\ rule.to \in Competitions
    BY <1>1, SentOnReach DEF AdvInv, TypeOK, Rule
  <2>2. PICK t \in Competitions : t = rule.to
    BY <2>1
  <2>3. Keeps(t, e)
    BY <2>1
  <2>. QED
    BY <2>2, <2>3
<1>. QED
  BY <1>1, ServedOn

LEMMA SealCarries ==
  ASSUME OneRequest, NEW reach, Branches(reach), AdvInv, PoolInv, CarryInv(reach),
         NEW r \in Requests, Seal(r)
  PROVE  CarryInv(reach)'
<1> DEFINE j == job[r]  k == job'[r]
<1>1. /\ TypeOK /\ j \in Job /\ Fits(at[r], j) /\ OnCourse(r)
      /\ RulesLead /\ ReachedOnly(reach) /\ CopiesAreCurrent(r) /\ MovesAreOwn(reach, r)
      /\ MatchCarried(r) /\ PoolCarried(r)
      /\ \A c \in Competitions \ unsettled : Away(r, c) \/ Served(c)
  BY TableFits, OneHolds, OneCarried DEF AdvInv
<1>2. /\ at[r] = "target" /\ j.todo = {} /\ j.moves = {} /\ j.level = "pool" /\ j.on \in Matches
      /\ UNCHANGED <<row, rules>>
  BY <1>1 DEF Seal, Fits, MovesAreOwn
<1>3. PICK p \in Pools : p = PoolOf[j.on]
  BY <1>2
<1>4. CASE Fail(r) /\ UNCHANGED pool
  BY <1>2, <1>4, FailCarries DEF Following
<1>5. CASE ~(Fail(r) /\ UNCHANGED pool)
  <2>1. PICK who, state, new :
            /\ who = (IF j.way = "place" THEN j.moved ELSE {})
            /\ state = (IF j.way = "place" THEN "completed" ELSE "active")
            /\ new = Marked(j.group, who, state)
    OBVIOUS
  <2>2. /\ pool' = [pool EXCEPT ![p] = new]
        /\ \/ j.way = "place" /\ End(r) /\ unsettled' = unsettled \ {j.on, p}
           \/ j.way = "remove" /\ Go(r, "save") /\ unsettled' = unsettled \ {p} /\ UNCHANGED job
    BY <1>1, <1>3, <1>5, <2>1 DEF Seal
  <2>3. /\ new.state = state
        /\ \A e \in Entrants : (new.seats[e].status # "none") <=> pool[p].seats[e].status # "none"
    <3>1. PICK q : q = pool[p]
      OBVIOUS
    <3>2. q \in Pool /\ j.group = q
      BY <1>1, <1>2, <1>3, <3>1 DEF CopiesAreCurrent, Following, TypeOK
    <3>3. new = Marked(q, who, state)
      BY <2>1, <3>2
    <3>. QED
      BY <3>1, <3>2, <3>3, MarkedTells
  <2>4. /\ pool'[p].state = state /\ pool'[p] = new
        /\ \A q \in Pools : q # p => pool'[q] = pool[q]
    BY <1>1, <2>2, <2>3 DEF TypeOK
  <2>5. ASSUME NEW t \in Competitions, NEW e \in Entrants PROVE Keeps(t, e)
    <3>1. CASE t = p
      <4>1. t \notin Matches
        BY <3>1
      <4>2. Holds(t, e) => pool[p].seats[e].status # "none"
        BY <3>1, <4>1 DEF Holds
      <4>3. new.seats[e].status # "none" => Holds(t, e)'
        BY <2>4, <3>1, <4>1 DEF Holds
      <4>. QED
        BY <2>3, <4>2, <4>3 DEF Keeps
    <3>2. CASE t # p
      BY <1>2, <2>4, <3>2 DEF Keeps, Holds
    <3>. QED
      BY <3>1, <3>2
  <2>6. ReachedOnly(reach)'
    BY <1>1, <1>2 DEF ReachedOnly
  <2>7. ASSUME NEW d \in Competitions, d # p, Served(d) PROVE Served(d)'
    <3>1. SameSource(d)
      BY <1>2, <2>4, <2>7 DEF SameSource, SameIn
    <3>. QED
      BY <1>1, <1>2, <2>5, <2>7, <3>1, NobodyLeaves
  <2>8. CASE j.way = "place"
    <3>1. at'[r] = "idle" /\ unsettled' = unsettled \ {j.on, p} /\ j.on # p
      BY <1>1, <1>2, <2>2, <2>8 DEF End, Go, TypeOK
    <3>2. Served(j.on)
      BY <1>1, <1>2, <2>8 DEF MatchCarried, Served, Following
    <3>3. Served(p)'
      <4>1. SUFFICES ASSUME NEW rule \in rules[p], NEW e \in SentOn(p, rule)'
                     PROVE  Holds(rule.to, e)'
        BY <1>2 DEF Served
      <4>2. e \in InPool(row, p) /\ PlaceInPool(row, p, e) = rule.placement
        <5>1. p \notin Matches
          OBVIOUS
        <5>2. e \in InPool(row', p) /\ PlaceInPool(row', p, e) = rule.placement
          BY <4>1, <5>1 DEF SentOn
        <5>. QED
          BY <1>2, <5>2
      <4>3. Holds(rule.to, e)
        BY <1>1, <1>2, <1>3, <2>8, <4>2 DEF PoolCarried, SentOrToSend
      <4>4. e \in Entrants /\ rule.to \in Competitions
        BY <1>1, <4>2 DEF InPool, MatchesOf, TypeOK, Match, Rule
      <4>5. PICK t \in Competitions : t = rule.to
        BY <4>4
      <4>6. Keeps(t, e)
        BY <2>5, <4>4
      <4>. QED
        BY <4>3, <4>5, <4>6 DEF Keeps, Holds
    <3>4. \A c : Away(r, c) => c = j.on
      BY <1>2, <2>8 DEF Away, Following
    <3>5. RulesLead'
      BY <1>1, <1>2, <3>1, RulesStill
    <3>6. \A d \in Competitions \ unsettled' : Served(d)'
      BY <1>1, <1>2, <2>7, <3>1, <3>2, <3>3, <3>4
    <3>. QED
      BY <2>6, <3>1, <3>5, <3>6, RestCarries
  <2>9. CASE j.way = "remove"
    <3>1. at'[r] = "save" /\ k = j /\ unsettled' = unsettled \ {p}
      BY <1>1, <2>2, <2>9 DEF Go, TypeOK
    <3>2. CopiesAreCurrent(r)'
      BY <1>1, <1>2, <2>9, <3>1 DEF CopiesAreCurrent, Following
    <3>3. MovesAreOwn(reach, r)' /\ MatchCarried(r)' /\ PoolCarried(r)'
      BY <1>2, <3>1 DEF MovesAreOwn, MatchCarried, PoolCarried, Following
    <3>4. Served(p)'
      <4>1. p \notin Matches /\ pool'[p].state # "completed"
        BY <2>1, <2>4, <2>9
      <4>. QED
        BY <4>1 DEF Served, SentOn
    <3>5. \A c : Away(r, c) => c \in {j.on, p}
      BY <1>2, <1>3, <2>9 DEF Away, Following
    <3>6. Away(r, j.on)'
      BY <1>1, <1>2, <3>1 DEF Away, OnCourse
    <3>7. RulesLead'
      BY <1>1, <1>2, <3>1, RulesStill
    <3>8. \A d \in Competitions \ unsettled' : Away(r, d)' \/ Served(d)'
      <4>1. PICK m : m = j.on
        OBVIOUS
      <4>2. Away(r, m)'
        BY <3>1, <3>6, <4>1 DEF Away
      <4>. QED
        BY <1>1, <2>7, <3>1, <3>4, <3>5, <4>1, <4>2
    <3>. QED
      BY <2>6, <3>2, <3>3, <3>7, <3>8, OneCarries
  <2>. QED
    BY <2>2, <2>8, <2>9
<1>. QED
  BY <1>4, <1>5

-----------------------------------------------------------------------------
(* Saves, rules and restarts.                                              *)

\* A save of match m that keeps its entrants moves nobody.
LEMMA SaveKeeps ==
  ASSUME NEW m \in Matches, UNCHANGED pool,
         \A n \in Matches : row'[n].entrants = row[n].entrants
  PROVE  \A t \in Competitions, e \in Entrants : Keeps(t, e)
BY DEF Keeps, Holds

\* It leaves the other sources alone, save for the pool of m.
LEMMA SaveApart ==
  ASSUME AdvInv, NEW reach, Branches(reach), ReachedOnly(reach), UNCHANGED <<pool, rules>>,
         NEW m \in Matches, \A n \in Matches : row'[n].entrants = row[n].entrants,
         \A n \in Matches : n # m => row'[n].result = row[n].result,
         NEW d \in Competitions, d # m, Served(d),
         row'[m].result = row[m].result \/ d # PoolOf[m] \/ pool[d].state # "completed"
  PROVE  Served(d)'
<1>1. CASE d \in Pools /\ pool[d].state # "completed"
  <2>1. d \notin Matches
    BY <1>1
  <2>. QED
    BY <1>1, <2>1 DEF Served, SentOn
<1>2. CASE ~(d \in Pools /\ pool[d].state # "completed")
  <2>1. SameSource(d)
    BY <1>2 DEF SameSource, SameIn, MatchesOf
  <2>. QED
    BY <2>1, SaveKeeps, NobodyLeaves
<1>. QED
  BY <1>1, <1>2

LEMMA CommittedTells ==
  ASSUME NEW a \in Aggregate
  PROVE  /\ Committed(a) \in Aggregate /\ Reopened(a) \in Aggregate
         /\ Committed(a).match.entrants = a.match.entrants
         /\ Committed(a).match.result.who = a.match.entrants
         /\ Reopened(a).match.entrants = a.match.entrants
         /\ Reopened(a).match.result = None
<1> DEFINE points == [e \in Entrants |-> IF e \in a.match.entrants THEN a.match.points[e] ELSE 0]
           result == [who |-> a.match.entrants, points |-> points]
<1>1. a.match \in Match
  BY DEF Aggregate
<1>2. points \in Points
  BY <1>1 DEF Match, Points
<1>3. result \in Result
  BY <1>1, <1>2 DEF Match, Result
<1>4. /\ Committed(a) = [a EXCEPT !.match = [a.match EXCEPT !.result = result]]
      /\ Reopened(a) = [a EXCEPT !.match = [a.match EXCEPT !.result = None]]
  BY DEF Committed, Reopened, Aggregate
<1>5. result.who = a.match.entrants
  OBVIOUS
<1> HIDE DEF result
<1>6. /\ [a.match EXCEPT !.result = result] \in Match
      /\ [a.match EXCEPT !.result = None] \in Match
  BY <1>1, <1>3 DEF Match
<1>7. /\ [a.match EXCEPT !.result = result].entrants = a.match.entrants
      /\ [a.match EXCEPT !.result = result].result = result
      /\ [a.match EXCEPT !.result = None].entrants = a.match.entrants
      /\ [a.match EXCEPT !.result = None].result = None
  BY <1>1 DEF Match
<1>8. PICK x, y : x = [a.match EXCEPT !.result = result] /\ y = [a.match EXCEPT !.result = None]
  OBVIOUS
<1>9. x \in Match /\ y \in Match
  BY <1>6, <1>8
<1>10. /\ [a EXCEPT !.match = x] \in Aggregate /\ [a EXCEPT !.match = x].match = x
       /\ [a EXCEPT !.match = y] \in Aggregate /\ [a EXCEPT !.match = y].match = y
  BY <1>9, SavedTells
<1>. QED
  BY <1>4, <1>5, <1>7, <1>8, <1>10

LEMMA SavesCarry ==
  ASSUME OneRequest, NEW reach, Branches(reach), AdvInv, PoolInv, CarryInv(reach),
         NEW r \in Requests, Refuse(r) \/ SaveResult(r) \/ SaveReopened(r) \/ SaveScore(r)
  PROVE  CarryInv(reach)'
<1> DEFINE j == job[r]  k == job'[r]
<1>1. /\ TypeOK /\ j \in Job /\ Fits(at[r], j) /\ OnCourse(r)
      /\ \A p \in Pools : InHand(r, p) => Underway(r, p)
      /\ RulesLead /\ ReachedOnly(reach) /\ CopiesAreCurrent(r) /\ MovesAreOwn(reach, r)
      /\ \A c \in Competitions \ unsettled : Away(r, c) \/ Served(c)
  BY TableFits, OneHolds, OneCarried DEF AdvInv
<1>2. /\ at[r] = "save" /\ j.op \in {"commit", "reopen", "score"}
      /\ UNCHANGED <<pool, rules>>
  BY DEF Refuse, SaveResult, SaveReopened, SaveScore
<1>3. PICK m \in Matches : m = j.on
  BY <1>1, <1>2 DEF OnCourse
<1>4. /\ j.mine \in Aggregate /\ j.moves = {}
      /\ j.mine.match.entrants = row[m].entrants /\ j.mine.match.result = row[m].result
  BY <1>1, <1>2, <1>3 DEF CopiesAreCurrent, MovesAreOwn, Job
<1>5. \A c : Away(r, c) => c = m
  BY <1>2, <1>3 DEF Away, Following
<1>6. j.op # "score" =>
          PoolOf[m] \in unsettled \/ pool[PoolOf[m]].state # "completed"
  <2>1. SUFFICES ASSUME j.op # "score"
                 PROVE  PoolOf[m] \in unsettled \/ pool[PoolOf[m]].state # "completed"
    OBVIOUS
  <2>2. InHand(r, PoolOf[m]) /\ PoolOf[m] \in Pools
    BY <1>2, <1>3, <2>1 DEF InHand
  <2>. QED
    BY <1>1, <1>2, <2>2 DEF Underway
<1>7. ASSUME Refuse(r) PROVE CarryInv(reach)'
  <2>1. CASE Fail(r)
    BY <1>2, <1>7, <2>1, FailCarries DEF Refuse
  <2>2. CASE ~Fail(r)
    <3>1. row[m].result = None /\ End(r) /\ UNCHANGED <<row, unsettled>>
      BY <1>4, <1>7, <2>2 DEF Refuse
    <3>2. at'[r] = "idle"
      BY <1>1, <3>1 DEF End, Go, TypeOK
    <3>3. Served(m)
      BY <3>1 DEF Served, SentOn
    <3>4. RulesLead'
      BY <1>1, <1>2, <3>2, RulesStill
    <3>5. ReachedOnly(reach)' /\ \A c \in Competitions \ unsettled' : Served(c)'
      BY <1>1, <1>2, <1>5, <3>1, <3>3, TablesCarry
    <3>. QED
      BY <3>2, <3>4, <3>5, RestCarries
  <2>. QED
    BY <2>1, <2>2
\* What is left when the match is written with the entrants it has.
<1>8. ASSUME NEW a \in Aggregate, a.match.entrants = row[m].entrants,
             row' = [row EXCEPT ![m] = Saved(a)]
      PROVE  /\ \A n \in Matches : row'[n].entrants = row[n].entrants
             /\ row'[m].result = a.match.result
             /\ \A n \in Matches : n # m => row'[n] = row[n]
  BY <1>1, <1>8, SavedTells DEF TypeOK
<1>9. ASSUME SaveResult(r) PROVE CarryInv(reach)'
  <2>1. PICK a : a = Committed(j.mine)
    OBVIOUS
  <2>2. /\ a \in Aggregate /\ a.match.entrants = row[m].entrants
        /\ a.match.result.who = row[m].entrants
    BY <1>4, <2>1, CommittedTells
  <2>3. /\ row' = [row EXCEPT ![m] = Saved(a)] /\ at'[r] = "rules" /\ UNCHANGED unsettled
        /\ k = [j EXCEPT !.mine = a, !.way = "place", !.level = "match"] /\ j.op = "commit"
    BY <1>1, <1>3, <1>9, <2>1 DEF SaveResult, Go, Put, TypeOK
  <2>4. /\ k.on = m /\ k.op = "commit" /\ k.mine = a /\ k.way = "place" /\ k.level = "match"
        /\ k.moves = {}
    BY <1>1, <1>3, <1>4, <2>3 DEF Job
  <2>5. /\ \A n \in Matches : row'[n].entrants = row[n].entrants
        /\ row'[m].result = a.match.result
        /\ \A n \in Matches : n # m => row'[n] = row[n]
    BY <1>8, <2>2, <2>3
  <2>6. RulesLead'
    BY <1>1, <1>2, <2>3, RulesStill
  <2>7. ReachedOnly(reach)'
    BY <1>1, <2>2, <2>5 DEF ReachedOnly
  <2>8. CopiesAreCurrent(r)'
    BY <2>2, <2>3, <2>4, <2>5 DEF CopiesAreCurrent
  <2>9. MovesAreOwn(reach, r)' /\ MatchCarried(r)' /\ PoolCarried(r)'
    BY <2>3, <2>4 DEF MovesAreOwn, MatchCarried, PoolCarried
  <2>10. Away(r, m)'
    BY <2>3, <2>4 DEF Away, Following
  <2>11. ASSUME NEW d \in Competitions \ unsettled', d # m PROVE Served(d)'
    <3>1. Served(d)
      BY <1>1, <1>5, <2>3, <2>11
    <3>2. d # PoolOf[m] \/ pool[d].state # "completed"
      BY <1>6, <2>3, <2>11
    <3>. QED
      BY <1>1, <1>2, <2>5, <2>11, <3>1, <3>2, SaveApart
  <2>. QED
    BY <2>6, <2>7, <2>8, <2>9, <2>10, <2>11, OneCarries
<1>10. ASSUME SaveReopened(r) PROVE CarryInv(reach)'
  <2>1. PICK a : a = Reopened(j.mine)
    OBVIOUS
  <2>2. a \in Aggregate /\ a.match.entrants = row[m].entrants /\ a.match.result = None
    BY <1>4, <2>1, CommittedTells
  <2>3. /\ row' = [row EXCEPT ![m] = Saved(a)] /\ at'[r] = "idle" /\ unsettled' = unsettled \ {m}
        /\ j.op = "reopen"
    BY <1>1, <1>3, <1>10, <2>1 DEF SaveReopened, End, Go, TypeOK
  <2>4. /\ \A n \in Matches : row'[n].entrants = row[n].entrants
        /\ row'[m].result = None
        /\ \A n \in Matches : n # m => row'[n] = row[n]
    BY <1>8, <2>2, <2>3
  <2>5. RulesLead'
    BY <1>1, <1>2, <2>3, RulesStill
  <2>6. ReachedOnly(reach)'
    BY <1>1, <2>4 DEF ReachedOnly
  <2>7. ASSUME NEW d \in Competitions \ unsettled' PROVE Served(d)'
    <3>1. CASE d = m
      BY <2>4, <3>1 DEF Served, SentOn
    <3>2. CASE d # m
      <4>1. Served(d) /\ d \notin unsettled
        BY <1>1, <1>5, <2>3, <2>7, <3>2
      <4>2. d # PoolOf[m] \/ pool[d].state # "completed"
        BY <1>6, <2>3, <4>1
      <4>. QED
        BY <1>1, <1>2, <2>4, <3>2, <4>1, <4>2, SaveApart
    <3>. QED
      BY <3>1, <3>2
  <2>. QED
    BY <2>3, <2>5, <2>6, <2>7, RestCarries
<1>11. ASSUME SaveScore(r) PROVE CarryInv(reach)'
  <2>1. PICK a : a = j.mine
    OBVIOUS
  <2>2. a \in Aggregate /\ a.match.entrants = row[m].entrants /\ a.match.result = row[m].result
    BY <1>4, <2>1
  <2>3. /\ row' = [row EXCEPT ![m] = Saved(a)] /\ at'[r] = "idle" /\ UNCHANGED unsettled
        /\ j.op = "score"
    BY <1>1, <1>3, <1>11, <2>1 DEF SaveScore, End, Go, TypeOK
  <2>4. /\ \A n \in Matches : row'[n].entrants = row[n].entrants
        /\ row'[m].result = row[m].result
        /\ \A n \in Matches : n # m => row'[n] = row[n]
    BY <1>8, <2>2, <2>3
  <2>5. RulesLead'
    BY <1>1, <1>2, <2>3, RulesStill
  <2>6. ReachedOnly(reach)'
    BY <1>1, <2>4 DEF ReachedOnly
  <2>7. ASSUME NEW d \in Competitions \ unsettled' PROVE Served(d)'
    <3>1. Served(d)
      BY <1>1, <2>3, <2>7 DEF Away
    <3>2. \A n \in Matches : row'[n].result = row[n].result /\ row'[n].entrants = row[n].entrants
      BY <2>4
    <3>3. SameSource(d)
      BY <1>2, <3>2 DEF SameSource, SameIn, MatchesOf
    <3>. QED
      BY <1>1, <1>2, <2>4, <3>1, <3>3, SaveKeeps, NobodyLeaves
  <2>. QED
    BY <2>3, <2>5, <2>6, <2>7, RestCarries
<1>. QED
  BY <1>7, <1>9, <1>10, <1>11

LEMMA EditsCarry ==
  ASSUME OneRequest, NEW reach, Branches(reach), AdvInv, PoolInv, CarryInv(reach),
         NEW r \in Requests, CreateRules(r) \/ StampState(r)
  PROVE  CarryInv(reach)'
<1> DEFINE j == job[r]
<1>1. /\ TypeOK /\ j \in Job /\ Fits(at[r], j) /\ RulesLead /\ ReachedOnly(reach)
      /\ \A c \in Competitions \ unsettled : Away(r, c) \/ Served(c)
  BY TableFits, OneCarried DEF AdvInv
<1>2. /\ at[r] \in {"create", "stamp"} /\ UNCHANGED <<pool, unsettled>>
      /\ at'[r] \in {"refresh", "idle"}
  BY <1>1 DEF CreateRules, StampState, End, Go, TypeOK
<1>3. \A c \in Competitions \ unsettled : Served(c)
  BY <1>1, <1>2 DEF Away, Following
<1>4. \A q \in Requests : q = r
  BY DEF OneRequest
<1>5. ASSUME CreateRules(r) PROVE CarryInv(reach)'
  <2>1. PICK c : c = j.on
    OBVIOUS
  <2>2. /\ rules' = [rules EXCEPT ![c] = rules[c] \union j.save] /\ UNCHANGED row
        /\ at[r] = "create"
    BY <1>5, <2>1 DEF CreateRules
  <2>3. /\ c \in Competitions /\ (c \in unsettled \/ Unapplied(c))
        /\ \A q \in j.save : RuleFits(c, q)
    BY <1>1, <2>1, <2>2 DEF RulesLead
  <2>4. RulesLead'
    <3>1. \A d \in Competitions : \A q \in rules'[d] : RuleFits(d, q)
      BY <1>1, <2>2, <2>3 DEF RulesLead, TypeOK
    <3>. QED
      BY <1>2, <1>4, <3>1 DEF RulesLead, RuleFits
  <2>5. ReachedOnly(reach)'
    BY <1>1, <2>2 DEF ReachedOnly
  <2>6. ASSUME NEW d \in Competitions \ unsettled' PROVE Served(d)'
    <3>1. CASE d = c
      <4>1. Unapplied(d)
        BY <1>2, <2>3, <2>6, <3>1
      <4>2. Unapplied(d)'
        BY <1>2, <2>2, <4>1 DEF Unapplied
      <4>3. \A rule : SentOn(d, rule)' = {}
        BY <2>6, <4>2 DEF SentOn, Unapplied
      <4>. QED
        BY <4>3 DEF Served
    <3>2. CASE d # c
      <4>1. Served(d) /\ rules'[d] = rules[d]
        BY <1>1, <1>2, <1>3, <2>2, <2>6, <3>2 DEF TypeOK
      <4>2. SameSource(d) /\ \A t, e : Keeps(t, e)
        BY <1>2, <2>2 DEF SameSource, SameIn, Keeps, Holds
      <4>. QED
        BY <4>1, <4>2, ServedOn
    <3>. QED
      BY <3>1, <3>2
  <2>. QED
    BY <1>2, <2>4, <2>5, <2>6, RestCarries
<1>6. ASSUME StampState(r) PROVE CarryInv(reach)'
  <2>1. PICK c, state : c \in Matches /\ row' = [row EXCEPT ![c].state = state]
    BY <1>1, <1>6 DEF StampState, Fits
  <2>2. \A n \in Matches : row'[n].entrants = row[n].entrants /\ row'[n].result = row[n].result
    BY <1>1, <2>1 DEF TypeOK, Match
  <2>3. UNCHANGED rules /\ at'[r] = "idle"
    BY <1>1, <1>6 DEF StampState, End, Go, TypeOK
  <2>4. RulesLead'
    BY <1>1, <2>3, RulesStill
  <2>5. ReachedOnly(reach)'
    BY <1>1, <2>2 DEF ReachedOnly
  <2>6. ASSUME NEW d \in Competitions \ unsettled' PROVE Served(d)'
    <3>1. SameSource(d)
      BY <1>2, <2>2 DEF SameSource, SameIn, MatchesOf
    <3>2. Served(d)
      BY <1>2, <1>3, <2>6
    <3>3. \A t \in Competitions, e \in Entrants : Keeps(t, e)
      BY <1>2, <2>1, <2>2, SaveKeeps
    <3>. QED
      BY <1>1, <2>3, <2>6, <3>1, <3>2, <3>3, NobodyLeaves
  <2>. QED
    BY <2>3, <2>4, <2>5, <2>6, RestCarries
<1>. QED
  BY <1>5, <1>6

LEMMA CrashCarries ==
  ASSUME OneRequest, NEW reach, AdvInv, CarryInv(reach), Crash
  PROVE  CarryInv(reach)'
<1>1. PICK r \in Requests : at[r] # "idle"
  BY DEF Crash, Busy
<1>2. /\ RulesLead /\ ReachedOnly(reach)
      /\ \A c \in Competitions \ unsettled : Away(r, c) \/ Served(c)
  BY OneCarried
<1>3. /\ UNCHANGED <<row, pool, rules>> /\ at'[r] = "idle"
      /\ unsettled \union AtStake(r) \subseteq unsettled'
  BY <1>1 DEF Crash, Busy
<1>4. \A c : Away(r, c) => c \in AtStake(r)
  BY DEF Away, AtStake, Following
<1>5. RulesLead'
  BY <1>2, <1>3, RulesStill
<1>6. ReachedOnly(reach)' /\ \A c \in Competitions \ unsettled' : Served(c)'
  BY <1>2, <1>3, <1>4, TablesCarry
<1>. QED
  BY <1>3, <1>5, <1>6, RestCarries

LEMMA CarriedInitially ==
  ASSUME Init, NEW reach, Branches(reach)
  PROVE  CarryInv(reach)
<1>1. /\ \A m \in Matches : row[m].entrants = Entered[m] /\ row[m].result = None
      /\ \A p \in Pools : pool[p].state = "pending"
      /\ rules = RulesAtFirst /\ \A r \in Requests : at[r] = "idle"
  BY DEF Init, NoMatchHeld, NoPoolHeld
<1>2. RulesLead
  BY <1>1 DEF RulesLead, RuleFits, ValidRules, Leads
<1>3. ReachedOnly(reach)
  BY <1>1 DEF ReachedOnly, Branches
<1>4. Carried
  <2>1. \A c \in Competitions : \A rule : SentOn(c, rule) = {}
    BY <1>1 DEF SentOn
  <2>. QED
    BY <2>1 DEF Carried, Served
<1>5. \A r \in Requests :
        CopiesAreCurrent(r) /\ MovesAreOwn(reach, r) /\ MatchCarried(r) /\ PoolCarried(r)
  BY <1>1 DEF CopiesAreCurrent, MovesAreOwn, MatchCarried, PoolCarried, Following
<1>. QED
  BY <1>2, <1>3, <1>4, <1>5 DEF CarryInv

\* The next state.
LEMMA NextCarries ==
  ASSUME OneRequest, PoolsFeedThemselves, NEW reach, Branches(reach),
         AdvInv, PoolInv, CarryInv(reach), [Next]_vars
  PROVE  CarryInv(reach)'
<1>1. ASSUME NEW r \in Requests, Ask(r) PROVE CarryInv(reach)'
  BY <1>1, AskCarries
<1>2. ASSUME NEW r \in Requests, Step(r) PROVE CarryInv(reach)'
  <2>1. CASE Guard(r) \/ Reload(r) \/ LoadState(r)
    BY <2>1, LoadsCarry
  <2>2. CASE ReadRules(r)
    BY <2>2, RulesCarry
  <2>3. CASE LoadTarget(r)
    BY <2>3, TargetCarries
  <2>4. CASE WriteMatch(r)
    BY <2>4, MatchWriteCarries
  <2>5. CASE WritePool(r)
    BY <2>5, PoolWriteCarries
  <2>6. CASE ReadGroup(r)
    BY <2>6, GroupCarries
  <2>7. CASE Seal(r)
    BY <2>7, SealCarries
  <2>8. CASE Refuse(r) \/ SaveResult(r) \/ SaveReopened(r) \/ SaveScore(r)
    BY <2>8, SavesCarry
  <2>9. CASE CreateRules(r) \/ StampState(r)
    BY <2>9, EditsCarry
  <2>. QED
    BY <1>2, <2>1, <2>2, <2>3, <2>4, <2>5, <2>6, <2>7, <2>8, <2>9 DEF Step
<1>3. CASE UNCHANGED vars
  <2>1. RulesLead' /\ ReachedOnly(reach)'
    BY <1>3 DEF vars, CarryInv, RulesLead, RuleFits, Unapplied, ReachedOnly
  <2>2. Carried'
    BY <1>3 DEF vars, CarryInv, Carried, Away, Served, SentOn, Holds
  <2>3. \A r \in Requests : CopiesAreCurrent(r)' /\ MovesAreOwn(reach, r)'
    BY <1>3 DEF vars, CarryInv, CopiesAreCurrent, MovesAreOwn, Source
  <2>4. \A r \in Requests : MatchCarried(r)'
    <3>1. \A c, rule : SentOn(c, rule)' = SentOn(c, rule)
      BY <1>3 DEF vars, SentOn
    <3>2. ASSUME NEW r \in Requests, NEW e, NEW rule
          PROVE  /\ Holds(rule.to, e)' = Holds(rule.to, e)
                 /\ SentOrToSend(r, e, rule)' = SentOrToSend(r, e, rule)
      BY <1>3 DEF vars, SentOrToSend, Holds
    <3>. QED
      BY <1>3, <3>1, <3>2 DEF vars, CarryInv, MatchCarried
  <2>5. \A r \in Requests : PoolCarried(r)'
    BY <1>3 DEF vars, CarryInv, PoolCarried, SentOrToSend, Holds
  <2>. QED
    BY <2>1, <2>2, <2>3, <2>4, <2>5 DEF CarryInv
<1>. QED
  BY <1>1, <1>2, <1>3, CrashCarries DEF Next

\* With one request at a time, in any bracket whose branches meet nobody twice
\* and whatever rules an organiser saves and wherever the process dies: whom a
\* committed result or a decided pool sends on is where the rules say, except
\* for sources whose advancement was cut short or whose rules were edited since.
THEOREM AdvancedAreThere ==
  ASSUME OneRequest, PoolsFeedThemselves, NEW reach, Branches(reach)
  PROVE  Spec => []CommittedIsAdvanced
<1>1. Init => CarryInv(reach)
  BY CarriedInitially
<1>2. AdvInv /\ PoolInv /\ CarryInv(reach) /\ [Next]_vars => CarryInv(reach)'
  BY NextCarries
<1>3. CarryInv(reach) => CommittedIsAdvanced
  <2>1. SUFFICES ASSUME CarryInv(reach), Quiet, NEW c \in Competitions \ unsettled
                 PROVE  Served(c)
    BY DEF CommittedIsAdvanced, Served
  <2>2. \A r \in Requests : at[r] = "idle"
    BY <2>1 DEF Quiet, Busy
  <2>. QED
    BY <2>1, <2>2 DEF CarryInv, Carried, Away, Following
<1>. QED
  BY <1>1, <1>2, <1>3, AdvAlways, PoolsAlways, PTL DEF Spec

-----------------------------------------------------------------------------
(* Nobody else is there.                                                   *)

\* Results send e on: those of a match, or those of all matches of a pool.
WouldSend(c, rule) ==
    IF c \in Matches
    THEN {e \in Entrants : row[c].result # None /\ HasPlace(row[c].result, e, rule.placement)}
    ELSE {e \in InPool(row, c) : Decided(row, c) /\ PlaceInPool(row, c, e) = rule.placement}

Given(c, e) == IF c \in Matches THEN e \in Entered[c] ELSE e \in Seated[c]

Sent(c, e) ==
    \E s \in Competitions : \E rule \in rules[s] : rule.to = c /\ e \in WouldSend(s, rule)

OnlySent == \A c \in Competitions, e \in Entrants : Holds(c, e) => Given(c, e) \/ Sent(c, e)

\* Nobody is where c sent them.
Gone(c) == \A rule \in rules[c] : \A e \in WouldSend(c, rule) : ~Holds(rule.to, e)

\* Nobody is, whom r is not about to take back.
GoneOrDue(r, c) ==
    \A rule \in rules[c] : \A e \in WouldSend(c, rule) :
        ~Holds(rule.to, e) \/ [who |-> e, rule |-> rule] \in job[r].todo \union job[r].moves

\* Before r saves its match, all that the match and its pool sent is taken back.
TakenBack(r) ==
    /\ at[r] \in {"target", "write"} /\ job[r].way = "remove" => GoneOrDue(r, Source(r))
    /\ at[r] \in Following /\ job[r].way = "remove" /\ job[r].level = "pool" => Gone(job[r].on)
    /\ at[r] = "save" /\ job[r].op \in {"commit", "reopen"} =>
        Gone(job[r].on) /\ Gone(PoolOf[job[r].on])

\* r places those whom results send on.
PlacesTheSent(r) ==
    at[r] \in {"target", "write"} /\ job[r].way = "place" =>
        \A v \in job[r].todo \union job[r].moves : v.who \in WouldSend(Source(r), v.rule)

\* A match whose results matter has the entrants its result ranks.
SendersStand ==
    \A m \in Matches : SendsOn(m) /\ row[m].result # None => row[m].result.who = row[m].entrants

OnlyInv ==
    /\ SendersStand
    /\ edits = 0 =>
        /\ OnlySent
        /\ \A r \in Requests : TakenBack(r) /\ PlacesTheSent(r)
                               /\ at[r] \notin {"create", "refresh", "stamp"}

LEMMA HandsFeed ==
  ASSUME SendersAreNotFed
  PROVE  PoolsFeedThemselves
BY DEF SendersAreNotFed, PoolsFeedThemselves, SendsOn

\* What is to be shown of the one request, and what is known of it.
LEMMA OneOnly ==
  ASSUME OneRequest, NEW r \in Requests, SendersStand',
         edits' = 0 => /\ OnlySent' /\ TakenBack(r)' /\ PlacesTheSent(r)'
                       /\ at'[r] \notin {"create", "refresh", "stamp"}
  PROVE  OnlyInv'
<1>1. \A q \in Requests : q = r
  BY DEF OneRequest
<1>. QED
  BY <1>1 DEF OnlyInv

LEMMA RestOnly ==
  ASSUME OneRequest, NEW r \in Requests, SendersStand', at'[r] = "idle",
         edits' = 0 => OnlySent'
  PROVE  OnlyInv'
<1>1. TakenBack(r)' /\ PlacesTheSent(r)'
  BY DEF TakenBack, PlacesTheSent, Following
<1>. QED
  BY <1>1, OneOnly

\* The outcome of c is as it was.
SameOutcome(c) ==
    /\ c \in Matches => row'[c].result = row[c].result
    /\ c \in Pools => SameIn(c, row', row)

LEMMA WouldSendSame ==
  ASSUME NEW c \in Competitions, SameOutcome(c)
  PROVE  \A rule : WouldSend(c, rule)' = WouldSend(c, rule)
<1>1. CASE c \in Matches
  BY <1>1 DEF WouldSend, SameOutcome
<1>2. CASE c \in Pools
  <2>1. c \notin Matches
    BY <1>2
  <2>2. PICK old, new : old = row /\ new = row'
    OBVIOUS
  <2>3. SameIn(c, new, old)
    BY <1>2, <2>2 DEF SameOutcome, SameIn
  <2>4. /\ InPool(new, c) = InPool(old, c)
        /\ \A e : PlaceInPool(new, c, e) = PlaceInPool(old, c, e)
    BY <2>3, PlacesSame
  <2>5. Decided(new, c) <=> Decided(old, c)
    BY <2>3 DEF Decided, SameIn
  <2>6. \A rule : WouldSend(c, rule)' = {e \in InPool(new, c) : Decided(new, c)
                                            /\ PlaceInPool(new, c, e) = rule.placement}
    BY <2>1, <2>2 DEF WouldSend
  <2>7. \A rule : WouldSend(c, rule) = {e \in InPool(old, c) : Decided(old, c)
                                            /\ PlaceInPool(old, c, e) = rule.placement}
    BY <2>1, <2>2 DEF WouldSend
  <2>8. ASSUME NEW rule PROVE WouldSend(c, rule)' = WouldSend(c, rule)
    <3>1. {e \in InPool(new, c) : Decided(new, c) /\ PlaceInPool(new, c, e) = rule.placement}
             = {e \in InPool(old, c) : Decided(old, c) /\ PlaceInPool(old, c, e) = rule.placement}
      BY <2>4, <2>5
    <3>. QED
      BY <2>6, <2>7, <3>1
  <2>. QED
    BY <2>8
<1>. QED
  BY <1>1, <1>2

\* The tables are as they were.
LEMMA TablesOnly ==
  ASSUME UNCHANGED <<row, pool, rules>>
  PROVE  /\ SendersStand' <=> SendersStand
         /\ OnlySent' <=> OnlySent
         /\ \A c, rule : WouldSend(c, rule)' = WouldSend(c, rule)
         /\ \A c, e : Holds(c, e)' <=> Holds(c, e)
         /\ \A c : Gone(c)' <=> Gone(c)
<1>1. \A c, rule : WouldSend(c, rule)' = WouldSend(c, rule)
  BY DEF WouldSend
<1>2. \A c, e : Holds(c, e)' <=> Holds(c, e)
  BY DEF Holds
<1>3. SendersStand' <=> SendersStand
  BY DEF SendersStand
<1>4. \A c, e : Sent(c, e)' <=> Sent(c, e)
  BY <1>1 DEF Sent
<1>5. OnlySent' <=> OnlySent
  BY <1>2, <1>4 DEF OnlySent, Given
<1>6. \A c : Gone(c)' <=> Gone(c)
  BY <1>1, <1>2 DEF Gone
<1>. QED
  BY <1>1, <1>2, <1>3, <1>5, <1>6

\* What sources said is said again, and nobody came but by them.
LEMMA SentAgain ==
  ASSUME OnlySent, UNCHANGED rules,
         \A c \in Competitions, e \in Entrants : Holds(c, e)' => Holds(c, e) \/ Sent(c, e)',
         \A s \in Competitions : \A rule \in rules[s] :
            SameOutcome(s) \/ Gone(s)
  PROVE  OnlySent'
<1>1. SUFFICES ASSUME NEW c \in Competitions, NEW e \in Entrants, Holds(c, e)', ~Given(c, e)
               PROVE  Sent(c, e)'
  BY DEF OnlySent, Given
<1>2. CASE Holds(c, e)
  <2>1. PICK s \in Competitions : \E rule \in rules[s] : rule.to = c /\ e \in WouldSend(s, rule)
    BY <1>1, <1>2 DEF OnlySent, Sent
  <2>2. PICK rule \in rules[s] : rule.to = c /\ e \in WouldSend(s, rule)
    BY <2>1
  <2>3. ~Gone(s)
    BY <1>2, <2>2 DEF Gone
  <2>4. e \in WouldSend(s, rule)'
    <3>1. SameOutcome(s)
      BY <2>2, <2>3
    <3>. QED
      BY <2>2, <3>1, WouldSendSame
  <2>. QED
    BY <2>2, <2>4 DEF Sent
<1>3. CASE ~Holds(c, e)
  BY <1>1, <1>3
<1>. QED
  BY <1>2, <1>3

\* A match without a result sent nobody, nor did its pool.
LEMMA NothingToTake ==
  ASSUME NEW m \in Matches, row[m].result = None
  PROVE  Gone(m) /\ Gone(PoolOf[m])
<1>1. \A rule : WouldSend(m, rule) = {}
  BY DEF WouldSend
<1>2. PoolOf[m] \notin Matches /\ ~Decided(row, PoolOf[m])
  BY DEF Decided, MatchesOf
<1>3. \A rule : WouldSend(PoolOf[m], rule) = {}
  BY <1>2 DEF WouldSend
<1>. QED
  BY <1>1, <1>3 DEF Gone

\* A request that asks holds nobody.
LEMMA AskOnly ==
  ASSUME OneRequest, AdvInv, OnlyInv, NEW r \in Requests, Ask(r)
  PROVE  OnlyInv'
<1> DEFINE k == job'[r]
<1>1. /\ TypeOK /\ SendersStand /\ (edits = 0 => OnlySent) /\ UNCHANGED row /\ edits \in Nat
  <2>1. TypeOK /\ SendersStand /\ (edits = 0 => OnlySent)
    BY DEF AdvInv, OnlyInv
  <2>2. edits \in Nat
    BY <2>1 DEF TypeOK
  <2>3. UNCHANGED row
    BY DEF Ask, Commit, Reopen, Score, DropRules
  <2>. QED
    BY <2>1, <2>2, <2>3
<1>2. SendersStand'
  BY <1>1 DEF SendersStand
<1>3. ASSUME NEW c \in Competitions, NEW set \in RulesToSave[c], DropRules(r, c, set)
      PROVE  OnlyInv'
  <2>1. edits' # 0
    BY <1>1, <1>3 DEF DropRules
  <2>. QED
    BY <1>2, <2>1, OneOnly
<1>4. ASSUME UNCHANGED <<pool, rules, edits>>, NEW op, k.op = op, k.level = "match",
             \/ at'[r] \in {"guard", "reload", "rules"}
             \/ at'[r] = "save" /\ op \notin {"reopen"} /\ (op = "commit" =>
                    k.on \in Matches /\ row[k.on].result = None)
      PROVE  OnlyInv'
  <2>1. edits = 0 => OnlySent'
    BY <1>1, <1>4, TablesOnly
  <2>2. PlacesTheSent(r)'
    BY <1>4 DEF PlacesTheSent
  <2>3. TakenBack(r)'
    <3>1. CASE at'[r] \in {"guard", "reload", "rules"}
      BY <1>4, <3>1 DEF TakenBack
    <3>2. CASE at'[r] = "save" /\ op # "commit"
      BY <1>4, <3>2 DEF TakenBack, Following
    <3>3. CASE at'[r] = "save" /\ op = "commit"
      <4>1. PICK m \in Matches : m = k.on /\ row[m].result = None
        BY <1>4, <3>3
      <4>2. PICK p : p = PoolOf[m]
        OBVIOUS
      <4>3. Gone(m)' /\ Gone(p)'
        BY <1>1, <1>4, <4>1, <4>2, NothingToTake, TablesOnly
      <4>. QED
        BY <3>3, <4>1, <4>2, <4>3 DEF TakenBack, Following, Gone
    <3>. QED
      BY <1>4, <3>1, <3>2, <3>3
  <2>. QED
    BY <1>2, <1>4, <2>1, <2>2, <2>3, OneOnly
<1>5. ASSUME NEW m \in Matches, Commit(r, m) \/ Reopen(r, m) PROVE OnlyInv'
  <2>1. PICK op \in {"commit", "reopen"} :
            k = [Blank EXCEPT !.op = op, !.on = m, !.mine = Load(m), !.way = "remove"]
    BY <1>1, <1>5 DEF Commit, Reopen, Put, TypeOK
  <2>2. k.op = op /\ k.on = m /\ k.level = "match"
    BY <2>1 DEF Blank
  <2>3. UNCHANGED <<pool, rules, edits>>
    BY <1>5 DEF Commit, Reopen
  <2>4. \/ at'[r] \in {"guard", "reload", "rules"}
        \/ at'[r] = "save" /\ op = "commit" /\ row[m].result = None
    <3>1. CASE Commit(r, m)
      <4>1. k = [Blank EXCEPT !.op = "commit", !.on = m, !.mine = Load(m), !.way = "remove"]
        BY <1>1, <3>1 DEF Commit, Put, TypeOK
      <4>2. k.op = "commit"
        BY <4>1 DEF Blank
      <4>. QED
        BY <1>1, <2>2, <3>1, <4>2 DEF Commit, Go, Load, TypeOK
    <3>2. CASE Reopen(r, m)
      BY <1>1, <3>2 DEF Reopen, Go, TypeOK
    <3>. QED
      BY <1>5, <3>1, <3>2
  <2>. QED
    BY <1>4, <2>2, <2>3, <2>4
<1>6. ASSUME NEW m \in Matches, NEW e \in Entrants, NEW n \in 0..MaxPoints, Score(r, m, e, n)
      PROVE  OnlyInv'
  <2>1. k = [Blank EXCEPT !.op = "score", !.on = m, !.mine = [Load(m) EXCEPT !.match.points[e] = n]]
    BY <1>1, <1>6 DEF Score, Put, TypeOK
  <2>2. k.op = "score" /\ k.level = "match"
    BY <2>1 DEF Blank
  <2>3. at'[r] = "save" /\ UNCHANGED <<pool, rules, edits>>
    BY <1>1, <1>6 DEF Score, Go, TypeOK
  <2>. QED
    BY <1>4, <2>2, <2>3
<1>. QED
  BY <1>3, <1>5, <1>6 DEF Ask

LEMMA OnlyHolds ==
  ASSUME OneRequest, AdvInv, OnlyInv, NEW r \in Requests
  PROVE  /\ TypeOK /\ SendersStand /\ job[r] \in Job /\ Fits(at[r], job[r])
         /\ edits = 0 => /\ OnlySent /\ TakenBack(r) /\ PlacesTheSent(r)
                         /\ at[r] \notin {"create", "refresh", "stamp"}
BY TableFits DEF AdvInv, OnlyInv

LEMMA LoadsOnly ==
  ASSUME OneRequest, AdvInv, PoolInv, OnlyInv,
         NEW r \in Requests, Guard(r) \/ Reload(r) \/ LoadState(r)
  PROVE  OnlyInv'
<1> DEFINE j == job[r]  k == job'[r]
<1>1. /\ TypeOK /\ SendersStand /\ j \in Job /\ Fits(at[r], j) /\ OnCourse(r)
      /\ edits = 0 => OnlySent /\ at[r] # "refresh"
  BY OnlyHolds, OneHolds
<1>2. /\ UNCHANGED <<row, pool, rules, edits>> /\ at[r] \in {"guard", "reload", "refresh"}
      /\ at'[r] \in {"idle", "reload", "rules", "save", "stamp"}
  BY <1>1 DEF Guard, Reload, LoadState, End, Go, TypeOK
<1>3. SendersStand' /\ (edits' = 0 => OnlySent')
  BY <1>1, <1>2, TablesOnly
<1>4. PlacesTheSent(r)'
  BY <1>2 DEF PlacesTheSent
<1>5. CASE at'[r] \in {"idle", "reload"}
  <2>1. TakenBack(r)'
    BY <1>5 DEF TakenBack, Following
  <2>. QED
    BY <1>3, <1>4, <1>5, <2>1, OneOnly
<1>6. CASE at'[r] = "stamp"
  <2>1. at[r] = "refresh"
    BY <1>1, <1>2, <1>6 DEF Guard, Reload, LoadState, End, Go, TypeOK
  <2>. QED
    BY <1>1, <1>2, <1>3, <2>1, OneOnly
<1>7. CASE at'[r] \in {"rules", "save"}
  <2>1. at[r] = "reload" /\ j.on \in Matches /\ k = [j EXCEPT !.mine = Load(j.on)]
    BY <1>1, <1>2, <1>7 DEF Guard, Reload, LoadState, End, Go, Put, TypeOK, Fits
  <2>2. k.on = j.on /\ k.level = "match"
    BY <1>1, <2>1 DEF Job, Fits
  <2>3. at'[r] = "save" => row[j.on].result = None
    BY <1>1, <1>2, <2>1 DEF Guard, Reload, LoadState, Go, TypeOK
  <2>4. PICK m \in Matches : m = j.on
    BY <2>1
  <2>5. PICK p : p = PoolOf[m]
    OBVIOUS
  <2>6. at'[r] = "save" => Gone(m)' /\ Gone(p)'
    BY <1>2, <2>3, <2>4, <2>5, NothingToTake, TablesOnly
  <2>7. TakenBack(r)'
    BY <1>7, <2>2, <2>4, <2>5, <2>6 DEF TakenBack, Gone
  <2>. QED
    BY <1>3, <1>4, <1>7, <2>7, OneOnly
<1>. QED
  BY <1>2, <1>5, <1>6, <1>7

\* A match by whose rules anybody may go on has the entrants its result ranks.
LEMMA SenderStands ==
  ASSUME RulesLead, TypeOK, SendersStand, NEW m \in Matches, NEW rule \in rules[m],
         row[m].result # None
  PROVE  row[m].result.who = row[m].entrants
<1>1. Leads(m, rule.to) /\ rule.to \in Competitions
  BY DEF RulesLead, RuleFits, TypeOK, Rule
<1>. QED
  BY <1>1 DEF SendersStand, SendsOn

\* The moves that a request reads are of all that are sent, and of those it places.
LEMMA OnlyMoves ==
  ASSUME OneRequest, NEW reach, AdvInv, PoolInv, CarryInv(reach), OnlyInv,
         NEW r \in Requests, ReadRules(r)
  PROVE  \E moves, S :
            /\ S = Source(r) /\ S \in Competitions
            /\ at[r] = "rules" /\ at'[r] = "target"
            /\ job'[r] = [job[r] EXCEPT !.todo = moves, !.moved = {v.who : v \in moves}]
            /\ \A rule \in rules[S] : \A e \in WouldSend(S, rule) :
                  [who |-> e, rule |-> rule] \in moves
            /\ job[r].way = "place" => \A v \in moves : v.who \in WouldSend(S, v.rule)
<1> DEFINE j == job[r]  k == job'[r]
<1>1. /\ TypeOK /\ SendersStand /\ j \in Job /\ Fits(at[r], j) /\ OnCourse(r)
      /\ \A p \in Pools : InHand(r, p) => Underway(r, p)
      /\ RulesLead /\ CopiesAreCurrent(r)
  BY OnlyHolds, OneHolds, OneCarried
<1>2. /\ at[r] = "rules" /\ at'[r] = "target" /\ j.on \in Matches /\ PoolOf[j.on] \in Pools
      /\ j.level \in {"match", "pool"}
  BY <1>1 DEF ReadRules, Go, TypeOK, Fits, Job
<1>3. Underway(r, PoolOf[j.on])
  BY <1>1, <1>2 DEF OnCourse, InHand
<1>4. CASE j.level = "match"
  <2>1. PICK place \in Placements(j.mine.match) :
            k = [j EXCEPT !.todo = MatchMoves(rules[j.on], place),
                          !.moved = {v.who : v \in MatchMoves(rules[j.on], place)}]
    BY <1>1, <1>4 DEF ReadRules, Put, TypeOK
  <2>2. PICK m \in Matches, set \in SUBSET Rule, match \in Match :
            m = j.on /\ set = rules[m] /\ match = j.mine.match
    BY <1>1, <1>2 DEF TypeOK, Job, Aggregate
  <2>3. PICK moves : moves = MatchMoves(set, place)
    OBVIOUS
  <2>4. Source(r) = m /\ m \in Competitions
    BY <1>4, <2>2 DEF Source
  <2>5. row[m].result # None
    BY <1>2, <1>3, <2>2 DEF Underway
  <2>6. match.result = row[m].result /\ match.entrants = row[m].entrants
    BY <1>1, <1>2, <2>2 DEF CopiesAreCurrent, Following
  <2>7. ASSUME NEW rule \in set
        PROVE  match.result # None /\ match.result.who = match.entrants /\ rule.placement \in Nat
    BY <1>1, <2>2, <2>5, <2>6, <2>7, SenderStands DEF Rule
  <2>8. ASSUME NEW rule \in rules[m], NEW e \in WouldSend(m, rule)
        PROVE  [who |-> e, rule |-> rule] \in moves
    <3>1. e \in Entrants /\ HasPlace(match.result, e, rule.placement)
      BY <2>6, <2>8 DEF WouldSend
    <3>2. match.result # None /\ match.result.who = match.entrants /\ rule \in set
      BY <2>2, <2>7, <2>8
    <3>3. place \in Placements(match)
      BY <2>1, <2>2
    <3>. QED
      BY <2>3, <3>1, <3>2, <3>3, SentByMatch
  <2>9. ASSUME NEW v \in moves PROVE v.who \in WouldSend(m, v.rule)
    <3>1. v.rule \in set /\ v.who \in DOMAIN place /\ place[v.who] = v.rule.placement
      BY <2>3, <2>9 DEF MatchMoves
    <3>2. match.result # None /\ match.result.who = match.entrants /\ place \in Placements(match)
      BY <2>1, <2>2, <2>7, <3>1
    <3>3. PICK e \in DOMAIN place : e = v.who
      BY <3>1
    <3>4. e \in Entrants /\ HasPlace(match.result, e, place[e])
      BY <3>2, HasThatPlace
    <3>. QED
      BY <2>5, <2>6, <3>1, <3>3, <3>4 DEF WouldSend
  <2>. QED
    <3>1. k = [j EXCEPT !.todo = moves, !.moved = {v.who : v \in moves}]
      BY <2>1, <2>2, <2>3
    <3>. QED
      BY <1>2, <2>4, <2>8, <2>9, <3>1
<1>5. CASE j.level = "pool"
  <2>1. PICK p \in Pools : p = PoolOf[j.on]
    BY <1>2
  <2>2. PICK moves, set, games, table :
            set = rules[p] /\ games = j.games /\ table = row /\ moves = PoolMoves(set, games, p)
    OBVIOUS
  <2>3. k = [j EXCEPT !.todo = moves, !.moved = {v.who : v \in moves}]
    BY <1>1, <1>5, <2>1, <2>2 DEF ReadRules, Put, TypeOK
  <2>4. Source(r) = p /\ p \notin Matches
    BY <1>5, <2>1 DEF Source
  <2>5. SameIn(p, games, table)
    BY <1>1, <1>2, <1>5, <2>1, <2>2 DEF CopiesAreCurrent, Following, SameIn
  <2>6. /\ InPool(games, p) = InPool(table, p)
        /\ \A e : PlaceInPool(games, p, e) = PlaceInPool(table, p, e)
    BY <2>5, PlacesSame
  <2>7. \A rule : WouldSend(p, rule) = {e \in InPool(table, p) : Decided(table, p)
                                            /\ PlaceInPool(table, p, e) = rule.placement}
    BY <2>2, <2>4 DEF WouldSend
  <2>8. ASSUME NEW rule \in rules[p], NEW e \in WouldSend(p, rule)
        PROVE  [who |-> e, rule |-> rule] \in moves
    <3>1. e \in InPool(games, p) /\ PlaceInPool(games, p, e) = rule.placement /\ rule \in set
      BY <2>2, <2>6, <2>7, <2>8
    <3>. QED
      BY <2>2, <3>1 DEF PoolMoves
  <2>9. ASSUME j.way = "place", NEW v \in moves PROVE v.who \in WouldSend(p, v.rule)
    <3>1. v.who \in InPool(games, p) /\ PlaceInPool(games, p, v.who) = v.rule.placement
      BY <2>2, <2>9 DEF PoolMoves
    <3>2. Decided(table, p)
      BY <1>2, <1>3, <1>5, <2>1, <2>2, <2>9 DEF Underway
    <3>. QED
      BY <2>6, <2>7, <3>1, <3>2
  <2>. QED
    <3>1. Source(r) = p /\ p \in Competitions
      BY <2>1, <2>4
    <3>2. j.way = "place" => \A v \in moves : v.who \in WouldSend(p, v.rule)
      BY <2>9
    <3>. QED
      BY <1>2, <2>3, <2>8, <3>1, <3>2, ZenonT(40)
<1>. QED
  BY <1>2, <1>4, <1>5

LEMMA RulesOnly ==
  ASSUME OneRequest, NEW reach, AdvInv, PoolInv, CarryInv(reach), OnlyInv,
         NEW r \in Requests, ReadRules(r)
  PROVE  OnlyInv'
<1> DEFINE j == job[r]  k == job'[r]
<1>1. /\ TypeOK /\ SendersStand /\ j \in Job
      /\ edits = 0 => OnlySent /\ TakenBack(r)
  BY OnlyHolds
<1>2. PICK moves, S :
            /\ S = Source(r) /\ S \in Competitions
            /\ at[r] = "rules" /\ at'[r] = "target"
            /\ job'[r] = [job[r] EXCEPT !.todo = moves, !.moved = {v.who : v \in moves}]
            /\ \A rule \in rules[S] : \A e \in WouldSend(S, rule) :
                  [who |-> e, rule |-> rule] \in moves
            /\ job[r].way = "place" => \A v \in moves : v.who \in WouldSend(S, v.rule)
  BY OnlyMoves, ZenonT(40)
<1>3. UNCHANGED <<row, pool, rules, edits>>
  BY DEF ReadRules
<1>4. /\ k.todo = moves /\ k.moves = j.moves /\ k.on = j.on /\ k.way = j.way
      /\ k.level = j.level /\ Source(r)' = S
  BY <1>1, <1>2 DEF Job, Source
<1>5. SendersStand' /\ (edits' = 0 => OnlySent')
  BY <1>1, <1>3, TablesOnly
<1>6. \A c, rule : WouldSend(c, rule)' = WouldSend(c, rule)
  BY <1>3, TablesOnly
<1>7. PlacesTheSent(r)'
  <2>1. j.moves = {}
    BY <1>2, OneCarried DEF MovesAreOwn
  <2>. QED
    BY <1>2, <1>4, <1>6, <2>1 DEF PlacesTheSent
<1>8. edits' = 0 => TakenBack(r)'
  <2>1. GoneOrDue(r, S)'
    BY <1>2, <1>3, <1>4, <1>6 DEF GoneOrDue
  <2>2. PICK m : m = j.on /\ m = k.on
    BY <1>4
  <2>3. ASSUME edits' = 0, k.way = "remove", k.level = "pool" PROVE Gone(m)'
    <3>1. Gone(m)
      BY <1>1, <1>2, <1>3, <1>4, <2>2, <2>3 DEF TakenBack, Following
    <3>. QED
      BY <1>3, <3>1, TablesOnly
  <2>. QED
    BY <1>2, <1>4, <2>1, <2>2, <2>3 DEF TakenBack, GoneOrDue, Gone
<1>. QED
  BY <1>2, <1>5, <1>7, <1>8, OneOnly

LEMMA TargetOnly ==
  ASSUME OneRequest, NEW reach, AdvInv, PoolInv, CarryInv(reach), OnlyInv,
         NEW r \in Requests, LoadTarget(r)
  PROVE  OnlyInv'
<1> DEFINE j == job[r]  k == job'[r]
<1>1. /\ TypeOK /\ SendersStand /\ j \in Job
      /\ edits = 0 => OnlySent /\ TakenBack(r) /\ PlacesTheSent(r)
  BY OnlyHolds
<1>2. PICK due, c :
            /\ due \in SUBSET job[r].todo /\ \A v \in due : v.rule.to = c
            /\ c \in Matches => \E v \in due : due = {v}
            /\ SameHand(r) /\ Source(r)' = Source(r)
            /\ job'[r].games = job[r].games /\ job'[r].group = job[r].group
            /\ job'[r].todo = job[r].todo \ due
            /\ at'[r] = "target" =>
                  /\ job[r].way = "remove" /\ job'[r].moves = job[r].moves
                  /\ c \in Matches /\ \A v \in due : v.who \notin row[c].entrants
            /\ at'[r] = "write" =>
                  /\ job'[r].moves = due /\ job'[r].target = c
                  /\ c \in Matches => job'[r].held = Load(c)
                  /\ c \in Pools => job'[r].seats = pool[c]
  BY TargetLoaded
<1>3. /\ at[r] = "target" /\ at'[r] \in {"target", "write"} /\ j.moves = {}
      /\ UNCHANGED <<row, pool, rules, edits>>
  BY <1>1, OneCarried DEF LoadTarget, Go, TypeOK, MovesAreOwn
<1>4. SendersStand' /\ (edits' = 0 => OnlySent')
  BY <1>1, <1>3, TablesOnly
<1>5. PICK S : S = Source(r) /\ S = Source(r)'
  BY <1>2
<1>6. /\ \A d, rule : WouldSend(d, rule)' = WouldSend(d, rule)
      /\ \A d, e : Holds(d, e)' <=> Holds(d, e)
      /\ \A d : Gone(d)' <=> Gone(d)
  BY <1>3, TablesOnly
<1>7. k.todo \union k.moves \subseteq j.todo /\ k.way = j.way /\ k.level = j.level /\ k.on = j.on
  BY <1>2, <1>3 DEF SameHand
<1>8. edits' = 0 => PlacesTheSent(r)'
  BY <1>1, <1>3, <1>5, <1>6, <1>7 DEF PlacesTheSent
<1>9. ASSUME edits' = 0 PROVE TakenBack(r)'
  <2>1. TakenBack(r)
    BY <1>1, <1>3, <1>9
  <2>2. ASSUME k.way = "remove" PROVE GoneOrDue(r, S)'
    <3>1. GoneOrDue(r, S)
      BY <1>3, <1>5, <1>7, <2>1, <2>2 DEF TakenBack
    <3>2. SUFFICES ASSUME NEW rule \in rules[S], NEW e \in WouldSend(S, rule), Holds(rule.to, e)
                   PROVE  [who |-> e, rule |-> rule] \in k.todo \union k.moves
      BY <1>3, <1>6 DEF GoneOrDue
    <3>3. [who |-> e, rule |-> rule] \in j.todo
      BY <1>3, <3>1, <3>2 DEF GoneOrDue
    <3>4. CASE at'[r] = "write"
      BY <1>2, <3>3, <3>4
    <3>5. CASE at'[r] = "target"
      <4>1. ASSUME [who |-> e, rule |-> rule] \in due PROVE FALSE
        <5>1. rule.to = c /\ e \notin row[c].entrants /\ c \in Matches
          BY <1>2, <3>5, <4>1
        <5>. QED
          BY <3>2, <5>1 DEF Holds
      <4>. QED
        BY <1>2, <3>3, <4>1
    <3>. QED
      BY <1>3, <3>4, <3>5
  <2>3. PICK m : m = j.on /\ m = k.on
    BY <1>7
  <2>4. ASSUME k.way = "remove", k.level = "pool" PROVE Gone(m)'
    BY <1>3, <1>6, <1>7, <2>1, <2>3, <2>4 DEF TakenBack, Following
  <2>. QED
    BY <1>3, <1>5, <2>2, <2>3, <2>4 DEF TakenBack, GoneOrDue, Gone
<1>. QED
  BY <1>3, <1>4, <1>8, <1>9, OneOnly

LEMMA WouldSendEntrants ==
  ASSUME AdvInv, NEW c \in Competitions, NEW rule
  PROVE  WouldSend(c, rule) \subseteq Entrants
<1>1. row \in [Matches -> Match]
  BY DEF AdvInv, TypeOK
<1>2. CASE c \in Matches
  BY <1>2 DEF WouldSend
<1>3. CASE c \in Pools
  <2>1. c \notin Matches
    BY <1>3
  <2>2. WouldSend(c, rule) \subseteq InPool(row, c)
    BY <2>1 DEF WouldSend
  <2>. QED
    BY <1>1, <2>2 DEF InPool, MatchesOf, Match
<1>. QED
  BY <1>2, <1>3

LEMMA WriteOnly ==
  ASSUME OneRequest, SendersAreNotFed, NEW reach, AdvInv, PoolInv, CarryInv(reach), OnlyInv,
         NEW r \in Requests, NEW c, WritesTo(r, c), WritesNoMore(r, c)
  PROVE  OnlyInv'
<1> DEFINE j == job[r]  k == job'[r]
<1>1. /\ TypeOK /\ SendersStand /\ j \in Job /\ Fits(at[r], j)
      /\ RulesLead /\ MovesAreOwn(reach, r)
      /\ edits = 0 => OnlySent /\ TakenBack(r) /\ PlacesTheSent(r)
  BY OnlyHolds, OneCarried
<1>2. PICK S, on : S = Source(r) /\ S = Source(r)' /\ on = j.on /\ on = k.on
  BY DEF WritesTo, SameHand, Source
<1>3. /\ at[r] = "write" /\ at'[r] = "target" /\ c = j.target
      /\ k.way = j.way /\ k.level = j.level /\ k.todo = j.todo /\ k.moves = {}
      /\ UNCHANGED <<rules, edits>>
      /\ \A m \in Matches : row'[m].result = row[m].result /\ (m # c => row'[m] = row[m])
      /\ \A t \in Competitions, e \in Entrants :
          \/ Holds(t, e)' => Holds(t, e)
          \/ j.way = "place" /\ t = c /\ \E v \in j.moves : v.who = e
      /\ j.way = "remove" => \A v \in j.moves : ~Holds(c, v.who)'
  BY DEF WritesTo, WritesNoMore, SameHand
<1>4. S \in Competitions /\ Leads(S, c) /\ c \in Competitions /\ on \in Matches
  <2>1. PoolsFeedThemselves
    BY HandsFeed
  <2>2. Source(r) \in Competitions /\ Leads(Source(r), c) /\ c \in Competitions
    BY <1>3, <2>1, TargetApart
  <2>3. j.on \in Matches
    BY <1>1, <1>3 DEF Fits
  <2>. QED
    BY <1>2, <2>2, <2>3
<1>5. \A m \in Matches : SendsOn(m) => m # c
  BY <1>4 DEF SendersAreNotFed
<1>6. SendersStand'
  BY <1>1, <1>3, <1>5 DEF SendersStand
<1>7. ASSUME NEW s \in Competitions, NEW rule \in rules[s] PROVE SameOutcome(s)
  <2>1. Leads(s, rule.to) /\ rule.to \in Competitions
    BY <1>1, <1>7 DEF RulesLead, RuleFits, TypeOK, Rule
  <2>2. s \in Pools => \A m \in MatchesOf(s) : row'[m] = row[m]
    BY <1>3, <1>5, <2>1 DEF MatchesOf, SendsOn
  <2>. QED
    BY <1>3, <2>2 DEF SameOutcome, SameIn
<1>8. ASSUME NEW s \in Competitions, NEW rule \in rules[s], NEW e \in WouldSend(s, rule)'
      PROVE  /\ e \in WouldSend(s, rule) /\ e \in Entrants /\ rule.to \in Competitions
             /\ j.way = "remove" => (Holds(rule.to, e)' => Holds(rule.to, e))
  <2>1. e \in WouldSend(s, rule) /\ e \in Entrants
    BY <1>7, <1>8, WouldSendSame, WouldSendEntrants
  <2>2. PICK t \in Competitions : t = rule.to
    BY <1>1, <1>8 DEF TypeOK, Rule
  <2>3. j.way = "remove" => (Holds(t, e)' => Holds(t, e))
    BY <1>3, <2>1
  <2>. QED
    BY <2>1, <2>2, <2>3 DEF Holds
<1>9. ASSUME edits' = 0 PROVE OnlySent'
  <2>1. OnlySent /\ PlacesTheSent(r)
    BY <1>1, <1>3, <1>9
  <2>2. ASSUME NEW t \in Competitions, NEW e \in Entrants, Holds(t, e)', ~Holds(t, e)
        PROVE  Sent(t, e)'
    <3>1. PICK v \in j.moves : v.who = e /\ t = c /\ j.way = "place"
      BY <1>3, <2>2
    <3>2. PICK rule : rule = v.rule
      OBVIOUS
    <3>3. rule.to = c /\ rule \in rules[S]
      BY <1>1, <1>2, <1>3, <3>1, <3>2 DEF Fits, MovesAreOwn
    <3>4. e \in WouldSend(S, rule)
      BY <1>2, <1>3, <2>1, <3>1, <3>2 DEF PlacesTheSent
    <3>5. e \in WouldSend(S, rule)'
      BY <1>4, <1>7, <3>3, <3>4, WouldSendSame
    <3>. QED
      BY <1>3, <1>4, <3>1, <3>3, <3>5 DEF Sent
  <2>. QED
    BY <1>3, <1>7, <2>1, <2>2, SentAgain
<1>10. ASSUME edits' = 0 PROVE PlacesTheSent(r)'
  <2>1. SUFFICES ASSUME j.way = "place", NEW v \in j.todo PROVE v.who \in WouldSend(S, v.rule)'
    BY <1>2, <1>3 DEF PlacesTheSent
  <2>2. PICK rule, e : rule = v.rule /\ e = v.who
    OBVIOUS
  <2>3. e \in WouldSend(S, rule) /\ rule \in rules[S]
    BY <1>1, <1>2, <1>3, <1>10, <2>1, <2>2 DEF PlacesTheSent, MovesAreOwn
  <2>4. e \in WouldSend(S, rule)'
    BY <1>4, <1>7, <2>3, WouldSendSame
  <2>. QED
    BY <2>2, <2>4
<1>11. ASSUME edits' = 0 PROVE TakenBack(r)'
  <2>1. TakenBack(r)
    BY <1>1, <1>3, <1>11
  <2>2. ASSUME j.way = "remove" PROVE GoneOrDue(r, S)'
    <3>1. SUFFICES ASSUME NEW rule \in rules[S], NEW e \in WouldSend(S, rule)', Holds(rule.to, e)'
                   PROVE  [who |-> e, rule |-> rule] \in j.todo
      BY <1>3 DEF GoneOrDue
    <3>2. e \in WouldSend(S, rule) /\ Holds(rule.to, e)
      BY <1>4, <1>8, <2>2, <3>1
    <3>3. [who |-> e, rule |-> rule] \in j.todo \union j.moves
      BY <1>2, <1>3, <2>1, <2>2, <3>1, <3>2 DEF TakenBack, GoneOrDue
    <3>4. ASSUME [who |-> e, rule |-> rule] \in j.moves PROVE FALSE
      <4>1. PICK v \in j.moves : v = [who |-> e, rule |-> rule]
        BY <3>4
      <4>2. rule.to = c /\ v.who = e
        BY <1>1, <1>3, <4>1 DEF Fits
      <4>3. ~Holds(c, e)'
        BY <1>3, <2>2, <4>1, <4>2
      <4>. QED
        BY <3>1, <4>2, <4>3 DEF Holds
    <3>. QED
      BY <3>3, <3>4
  <2>3. ASSUME j.way = "remove", j.level = "pool" PROVE Gone(on)'
    <3>1. Gone(on) /\ on \in Competitions
      BY <1>2, <1>3, <1>4, <2>1, <2>3 DEF TakenBack, Following
    <3>2. SUFFICES ASSUME NEW rule \in rules[on], NEW e \in WouldSend(on, rule)', Holds(rule.to, e)'
                   PROVE  FALSE
      BY <1>3 DEF Gone
    <3>3. e \in WouldSend(on, rule) /\ Holds(rule.to, e)
      BY <1>8, <2>3, <3>1, <3>2
    <3>. QED
      BY <3>1, <3>2, <3>3 DEF Gone
  <2>. QED
    BY <1>2, <1>3, <2>2, <2>3 DEF TakenBack, GoneOrDue, Gone
<1>. QED
  BY <1>3, <1>6, <1>9, <1>10, <1>11, OneOnly

LEMMA WritesOnly ==
  ASSUME OneRequest, SendersAreNotFed, NEW reach, AdvInv, PoolInv, CarryInv(reach), OnlyInv,
         NEW r \in Requests, WriteMatch(r) \/ WritePool(r)
  PROVE  OnlyInv'
<1>1. CASE WriteMatch(r)
  <2>1. PICK c \in Matches :
          /\ WritesTo(r, c) /\ WritesNoMore(r, c)
          /\ \A m \in Matches :
                row'[m].entrants \subseteq row[m].entrants \union
                      IF m = c THEN {v.who : v \in job[r].moves} ELSE {}
    BY <1>1, MatchWrites
  <2>. QED
    BY <2>1, WriteOnly
<1>2. CASE WritePool(r) /\ ~(Fail(r) /\ UNCHANGED pool)
  <2>1. PICK c \in Pools : WritesTo(r, c) /\ WritesNoMore(r, c)
    BY <1>2, PoolWrites
  <2>. QED
    BY <2>1, WriteOnly
<1>3. CASE WritePool(r) /\ Fail(r) /\ UNCHANGED pool
  <2>1. /\ TypeOK /\ SendersStand
        /\ edits = 0 => OnlySent
    BY OnlyHolds
  <2>2. at'[r] = "idle" /\ UNCHANGED <<row, pool, rules, edits>>
    BY <1>3, <2>1 DEF WritePool, Fail, End, Go, TypeOK
  <2>. QED
    BY <2>1, <2>2, TablesOnly, RestOnly
<1>. QED
  BY <1>1, <1>2, <1>3

LEMMA GroupOnly ==
  ASSUME OneRequest, NEW reach, AdvInv, CarryInv(reach), OnlyInv,
         NEW r \in Requests, ReadGroup(r)
  PROVE  OnlyInv'
<1> DEFINE j == job[r]  k == job'[r]
<1>1. /\ TypeOK /\ SendersStand /\ j \in Job /\ MovesAreOwn(reach, r)
      /\ edits = 0 => OnlySent /\ TakenBack(r)
  BY OnlyHolds, OneCarried
<1>2. /\ at[r] = "target" /\ j.todo = {} /\ j.moves = {} /\ j.level = "match"
      /\ UNCHANGED <<row, pool, rules, edits>>
  BY <1>1 DEF ReadGroup, MovesAreOwn
<1>3. SendersStand' /\ (edits' = 0 => OnlySent')
  BY <1>1, <1>2, TablesOnly
<1>4. CASE End(r)
  <2>1. at'[r] = "idle"
    BY <1>1, <1>4 DEF End, Go, TypeOK
  <2>. QED
    BY <1>3, <2>1, RestOnly
<1>5. CASE ~End(r)
  <2>1. PICK games, group : k = [j EXCEPT !.level = "pool", !.games = games, !.group = group]
    <3>1. Put(r, [j EXCEPT !.level = "pool", !.games = row, !.group = pool[PoolOf[j.on]]])
      BY <1>5 DEF ReadGroup
    <3>. QED
      BY <1>1, <3>1 DEF Put, TypeOK
  <2>2. at'[r] = "rules"
    BY <1>1, <1>5 DEF ReadGroup, Go, TypeOK
  <2>3. k.way = j.way /\ k.on = j.on
    BY <1>1, <2>1 DEF Job
  <2>4. PICK m : m = j.on /\ m = k.on
    BY <2>3
  <2>5. ASSUME edits' = 0, k.way = "remove" PROVE Gone(m)'
    <3>1. GoneOrDue(r, Source(r)) /\ Source(r) = m
      BY <1>1, <1>2, <2>3, <2>4, <2>5 DEF TakenBack, Source
    <3>2. Gone(m)
      BY <1>2, <3>1 DEF GoneOrDue, Gone
    <3>. QED
      BY <1>2, <3>2, TablesOnly
  <2>6. edits' = 0 => TakenBack(r)'
    BY <2>2, <2>4, <2>5 DEF TakenBack, Gone
  <2>7. PlacesTheSent(r)'
    BY <2>2 DEF PlacesTheSent
  <2>. QED
    BY <1>3, <2>2, <2>6, <2>7, OneOnly
<1>. QED
  BY <1>4, <1>5

\* Who is gone stays gone when nobody comes.
LEMMA StillGone ==
  ASSUME AdvInv, UNCHANGED <<row, rules>>, NEW c \in Competitions, Gone(c),
         \A t \in Competitions, e \in Entrants : Holds(t, e)' => Holds(t, e)
  PROVE  Gone(c)'
<1>1. SUFFICES ASSUME NEW rule \in rules[c], NEW e \in WouldSend(c, rule)', Holds(rule.to, e)'
               PROVE  FALSE
  BY DEF Gone
<1>2. e \in WouldSend(c, rule)
  BY <1>1 DEF WouldSend
<1>3. e \in Entrants
  BY <1>2, WouldSendEntrants
<1>4. PICK t \in Competitions : t = rule.to
  BY DEF AdvInv, TypeOK, Rule
<1>5. Holds(t, e)' => Holds(t, e)
  BY <1>3
<1>. QED
  BY <1>1, <1>2, <1>4, <1>5 DEF Gone, Holds

LEMMA SealOnly ==
  ASSUME OneRequest, NEW reach, AdvInv, CarryInv(reach), OnlyInv,
         NEW r \in Requests, Seal(r)
  PROVE  OnlyInv'
<1> DEFINE j == job[r]  k == job'[r]
<1>1. /\ TypeOK /\ SendersStand /\ j \in Job /\ Fits(at[r], j)
      /\ MovesAreOwn(reach, r) /\ CopiesAreCurrent(r)
      /\ edits = 0 => OnlySent /\ TakenBack(r)
  BY OnlyHolds, OneCarried
<1>2. /\ at[r] = "target" /\ j.todo = {} /\ j.moves = {} /\ j.level = "pool" /\ j.on \in Matches
      /\ UNCHANGED <<row, rules, edits>>
  BY <1>1 DEF Seal, Fits, MovesAreOwn
<1>3. PICK m \in Matches, p \in Pools : m = j.on /\ p = PoolOf[m]
  BY <1>2
<1>4. SendersStand'
  BY <1>1, <1>2 DEF SendersStand
<1>5. CASE Fail(r) /\ UNCHANGED pool
  <2>1. at'[r] = "idle"
    BY <1>1, <1>5 DEF Fail, End, Go, TypeOK
  <2>. QED
    BY <1>1, <1>2, <1>4, <1>5, <2>1, TablesOnly, RestOnly
<1>6. CASE ~(Fail(r) /\ UNCHANGED pool)
  <2>1. PICK who, state, new :
            /\ who = (IF j.way = "place" THEN j.moved ELSE {})
            /\ state = (IF j.way = "place" THEN "completed" ELSE "active")
            /\ new = Marked(j.group, who, state)
    OBVIOUS
  <2>2. /\ pool' = [pool EXCEPT ![p] = new]
        /\ \/ j.way = "place" /\ End(r)
           \/ j.way = "remove" /\ Go(r, "save") /\ UNCHANGED job
    BY <1>1, <1>3, <1>6, <2>1 DEF Seal
  <2>3. \A e \in Entrants : (new.seats[e].status # "none") <=> pool[p].seats[e].status # "none"
    <3>1. PICK q : q = pool[p]
      OBVIOUS
    <3>2. q \in Pool /\ j.group = q
      BY <1>1, <1>2, <1>3, <3>1 DEF CopiesAreCurrent, Following, TypeOK
    <3>3. new = Marked(q, who, state)
      BY <2>1, <3>2
    <3>. QED
      <4>1. \A e \in Entrants :
                (Marked(q, who, state).seats[e].status # "none") <=> q.seats[e].status # "none"
        BY <3>2, MarkedTells
      <4>. QED
        BY <3>1, <3>3, <4>1
  <2>4. ASSUME NEW t \in Competitions, NEW e \in Entrants PROVE Holds(t, e)' => Holds(t, e)
    <3>1. CASE t = p
      BY <1>1, <2>2, <2>3, <3>1 DEF Holds, TypeOK
    <3>2. CASE t # p
      BY <1>1, <1>2, <2>2, <3>2 DEF Holds, TypeOK
    <3>. QED
      BY <3>1, <3>2
  <2>5. edits' = 0 => OnlySent'
    <3>1. \A s : SameOutcome(s)
      BY <1>2 DEF SameOutcome, SameIn
    <3>. QED
      BY <1>1, <1>2, <2>4, <3>1, SentAgain
  <2>6. CASE j.way = "place"
    <3>1. at'[r] = "idle"
      BY <1>1, <2>2, <2>6 DEF End, Go, TypeOK
    <3>. QED
      BY <1>4, <2>5, <3>1, RestOnly
  <2>7. CASE j.way = "remove"
    <3>1. at'[r] = "save" /\ k = j
      BY <1>1, <2>2, <2>7 DEF Go, TypeOK
    <3>2. ASSUME edits' = 0 PROVE Gone(m)' /\ Gone(p)'
      <4>1. TakenBack(r)
        BY <1>1, <1>2, <3>2
      <4>2. Gone(m)
        BY <1>2, <1>3, <2>7, <4>1 DEF TakenBack, Following
      <4>3. GoneOrDue(r, Source(r)) /\ Source(r) = p
        BY <1>2, <1>3, <2>7, <4>1 DEF TakenBack, Source
      <4>4. Gone(p)
        BY <1>2, <4>3 DEF GoneOrDue, Gone
      <4>. QED
        BY <1>2, <2>4, <4>2, <4>4, StillGone
    <3>3. edits' = 0 => TakenBack(r)'
      BY <1>3, <3>1, <3>2 DEF TakenBack, Following, Gone
    <3>4. PlacesTheSent(r)'
      BY <3>1 DEF PlacesTheSent
    <3>. QED
      BY <1>4, <2>5, <3>1, <3>3, <3>4, OneOnly
  <2>. QED
    BY <2>2, <2>6, <2>7
<1>. QED
  BY <1>5, <1>6

\* A match saved with the entrants it has moves nobody.
LEMMA SavedOnly ==
  ASSUME OnlySent, UNCHANGED <<pool, rules>>, NEW m \in Matches,
         \A n \in Matches : row'[n].entrants = row[n].entrants,
         \A n \in Matches : n # m => row'[n] = row[n],
         row'[m].result = row[m].result \/ (Gone(m) /\ Gone(PoolOf[m]))
  PROVE  OnlySent'
<1>1. \A c \in Competitions, e \in Entrants : Holds(c, e)' => Holds(c, e)
  BY DEF Holds
<1>2. ASSUME NEW s \in Competitions PROVE SameOutcome(s) \/ Gone(s)
  BY DEF SameOutcome, SameIn, MatchesOf
<1>. QED
  BY <1>1, <1>2, SentAgain

LEMMA SavesOnly ==
  ASSUME OneRequest, NEW reach, AdvInv, PoolInv, CarryInv(reach), OnlyInv,
         NEW r \in Requests, Refuse(r) \/ SaveResult(r) \/ SaveReopened(r) \/ SaveScore(r)
  PROVE  OnlyInv'
<1> DEFINE j == job[r]  k == job'[r]
<1>1. /\ TypeOK /\ SendersStand /\ j \in Job /\ Fits(at[r], j) /\ OnCourse(r)
      /\ CopiesAreCurrent(r)
      /\ edits = 0 => OnlySent /\ TakenBack(r)
  BY OnlyHolds, OneHolds, OneCarried
<1>2. /\ at[r] = "save" /\ j.op \in {"commit", "reopen", "score"}
      /\ UNCHANGED <<pool, rules, edits>>
  BY DEF Refuse, SaveResult, SaveReopened, SaveScore
<1>3. PICK m \in Matches : m = j.on
  BY <1>1, <1>2 DEF OnCourse
<1>4. /\ j.mine \in Aggregate
      /\ j.mine.match.entrants = row[m].entrants /\ j.mine.match.result = row[m].result
  BY <1>1, <1>2, <1>3 DEF CopiesAreCurrent, Job
<1>5. edits = 0 /\ j.op # "score" => Gone(m) /\ Gone(PoolOf[m])
  BY <1>1, <1>2, <1>3 DEF TakenBack, Following
<1>6. CASE Refuse(r)
  <2>1. at'[r] = "idle" /\ UNCHANGED row
    BY <1>1, <1>6 DEF Refuse, Fail, End, Go, TypeOK
  <2>. QED
    BY <1>1, <1>2, <2>1, TablesOnly, RestOnly
\* What is left when the match is written with the entrants it has.
<1>7. ASSUME NEW a \in Aggregate, a.match.entrants = row[m].entrants,
             row' = [row EXCEPT ![m] = Saved(a)],
             \/ a.match.result = row[m].result
             \/ j.op # "score" /\ (a.match.result # None =>
                                      a.match.result.who = a.match.entrants)
      PROVE  SendersStand' /\ (edits' = 0 => OnlySent')
  <2>1. /\ \A n \in Matches : row'[n].entrants = row[n].entrants
        /\ row'[m].result = a.match.result
        /\ \A n \in Matches : n # m => row'[n] = row[n]
    BY <1>1, <1>7, SavedTells DEF TypeOK
  <2>2. SendersStand'
    BY <1>1, <1>7, <2>1 DEF SendersStand
  <2>3. edits' = 0 => OnlySent'
    BY <1>1, <1>2, <1>5, <1>7, <2>1, SavedOnly
  <2>. QED
    BY <2>2, <2>3
<1>8. CASE SaveResult(r)
  <2>1. PICK a : a = Committed(j.mine)
    OBVIOUS
  <2>2. /\ a \in Aggregate /\ a.match.entrants = row[m].entrants
        /\ a.match.result.who = row[m].entrants
    BY <1>4, <2>1, CommittedTells
  <2>3. /\ row' = [row EXCEPT ![m] = Saved(a)] /\ at'[r] = "rules"
        /\ k = [j EXCEPT !.mine = a, !.way = "place", !.level = "match"] /\ j.op = "commit"
    BY <1>1, <1>3, <1>8, <2>1 DEF SaveResult, Go, Put, TypeOK
  <2>4. SendersStand' /\ (edits' = 0 => OnlySent')
    BY <1>7, <2>2, <2>3
  <2>5. k.way = "place"
    BY <1>1, <2>3 DEF Job
  <2>6. TakenBack(r)' /\ PlacesTheSent(r)'
    BY <2>3, <2>5 DEF TakenBack, PlacesTheSent, Following
  <2>. QED
    BY <2>3, <2>4, <2>6, OneOnly
<1>9. CASE SaveReopened(r)
  <2>1. PICK a : a = Reopened(j.mine)
    OBVIOUS
  <2>2. a \in Aggregate /\ a.match.entrants = row[m].entrants /\ a.match.result = None
    BY <1>4, <2>1, CommittedTells
  <2>3. row' = [row EXCEPT ![m] = Saved(a)] /\ at'[r] = "idle" /\ j.op = "reopen"
    BY <1>1, <1>3, <1>9, <2>1 DEF SaveReopened, End, Go, TypeOK
  <2>4. SendersStand' /\ (edits' = 0 => OnlySent')
    BY <1>7, <2>2, <2>3
  <2>. QED
    BY <2>3, <2>4, RestOnly
<1>10. CASE SaveScore(r)
  <2>1. PICK a : a = j.mine
    OBVIOUS
  <2>2. row' = [row EXCEPT ![m] = Saved(a)] /\ at'[r] = "idle"
    BY <1>1, <1>3, <1>10, <2>1 DEF SaveScore, End, Go, TypeOK
  <2>3. SendersStand' /\ (edits' = 0 => OnlySent')
    BY <1>4, <1>7, <2>1, <2>2
  <2>. QED
    BY <2>2, <2>3, RestOnly
<1>. QED
  BY <1>6, <1>8, <1>9, <1>10

\* Rules are made only when some were edited, and states of matches only then.
LEMMA EditsOnly ==
  ASSUME OneRequest, AdvInv, OnlyInv, NEW r \in Requests, CreateRules(r) \/ StampState(r)
  PROVE  OnlyInv'
<1>1. /\ TypeOK /\ SendersStand /\ Fits(at[r], job[r])
      /\ edits = 0 => at[r] \notin {"create", "refresh", "stamp"}
  BY OnlyHolds
<1>2. edits' # 0
  BY <1>1 DEF CreateRules, StampState
<1>3. \A m \in Matches : row'[m].entrants = row[m].entrants /\ row'[m].result = row[m].result
  <2>1. CASE CreateRules(r)
    BY <2>1 DEF CreateRules
  <2>2. CASE StampState(r)
    <3>1. PICK c, state : c \in Matches /\ row' = [row EXCEPT ![c].state = state]
      BY <1>1, <2>2 DEF StampState, Fits
    <3>. QED
      BY <1>1, <3>1 DEF TypeOK, Match
  <2>. QED
    BY <2>1, <2>2
<1>4. SendersStand'
  BY <1>1, <1>3 DEF SendersStand
<1>. QED
  BY <1>2, <1>4, OneOnly

LEMMA CrashOnly ==
  ASSUME OneRequest, AdvInv, OnlyInv, Crash
  PROVE  OnlyInv'
<1>1. PICK r \in Requests : at[r] # "idle"
  BY DEF Crash, Busy
<1>2. UNCHANGED <<row, pool, rules, edits>> /\ at'[r] = "idle"
  BY <1>1 DEF Crash, Busy
<1>3. SendersStand /\ (edits = 0 => OnlySent)
  BY DEF OnlyInv
<1>. QED
  BY <1>2, <1>3, TablesOnly, RestOnly

LEMMA OnlyInitially ==
  ASSUME Init
  PROVE  OnlyInv
<1>1. /\ \A m \in Matches : row[m].entrants = Entered[m] /\ row[m].result = None
      /\ \A r \in Requests : at[r] = "idle"
  BY DEF Init, NoMatchHeld
<1>2. SendersStand
  BY <1>1 DEF SendersStand
<1>3. OnlySent
  <2>1. ASSUME NEW c \in Competitions, NEW e \in Entrants, Holds(c, e) PROVE Given(c, e)
    <3>1. CASE c \in Matches
      BY <1>1, <2>1, <3>1 DEF Holds, Given
    <3>2. CASE c \notin Matches
      <4>1. pool[c].seats[e].status = IF e \in Seated[c] THEN "active" ELSE "none"
        BY <3>2 DEF Init, NoPoolHeld, NoSeat
      <4>. QED
        BY <2>1, <3>2, <4>1 DEF Holds, Given
    <3>. QED
      BY <3>1, <3>2
  <2>. QED
    BY <2>1 DEF OnlySent
<1>4. \A r \in Requests : TakenBack(r) /\ PlacesTheSent(r)
  BY <1>1 DEF TakenBack, PlacesTheSent, Following
<1>. QED
  BY <1>1, <1>2, <1>3, <1>4 DEF OnlyInv

LEMMA NextOnly ==
  ASSUME OneRequest, SendersAreNotFed, NEW reach, AdvInv, PoolInv, CarryInv(reach), OnlyInv,
         [Next]_vars
  PROVE  OnlyInv'
<1>1. ASSUME NEW r \in Requests, Ask(r) PROVE OnlyInv'
  BY <1>1, AskOnly
<1>2. ASSUME NEW r \in Requests, Step(r) PROVE OnlyInv'
  <2>1. CASE Guard(r) \/ Reload(r) \/ LoadState(r)
    BY <2>1, LoadsOnly
  <2>2. CASE ReadRules(r)
    BY <2>2, RulesOnly
  <2>3. CASE LoadTarget(r)
    BY <2>3, TargetOnly
  <2>4. CASE WriteMatch(r) \/ WritePool(r)
    BY <2>4, WritesOnly
  <2>5. CASE ReadGroup(r)
    BY <2>5, GroupOnly
  <2>6. CASE Seal(r)
    BY <2>6, SealOnly
  <2>7. CASE Refuse(r) \/ SaveResult(r) \/ SaveReopened(r) \/ SaveScore(r)
    BY <2>7, SavesOnly
  <2>8. CASE CreateRules(r) \/ StampState(r)
    BY <2>8, EditsOnly
  <2>. QED
    BY <1>2, <2>1, <2>2, <2>3, <2>4, <2>5, <2>6, <2>7, <2>8 DEF Step
<1>3. CASE UNCHANGED vars
  <2>1. SendersStand' /\ (edits = 0 => OnlySent')
    BY <1>3, TablesOnly DEF vars, OnlyInv
  <2>2. ASSUME NEW r \in Requests, edits = 0
        PROVE  TakenBack(r)' /\ PlacesTheSent(r)' /\ at'[r] \notin {"create", "refresh", "stamp"}
    <3>1. TakenBack(r) /\ PlacesTheSent(r) /\ at[r] \notin {"create", "refresh", "stamp"}
      BY <2>2 DEF OnlyInv
    <3>2. /\ \A c, rule : WouldSend(c, rule)' = WouldSend(c, rule)
          /\ \A c, e : Holds(c, e)' <=> Holds(c, e)
          /\ \A c : Gone(c)' <=> Gone(c)
      BY <1>3, TablesOnly DEF vars
    <3>3. job' = job /\ at' = at /\ rules' = rules
      BY <1>3 DEF vars
    <3>4. Source(r)' = Source(r)
      BY <3>3 DEF Source
    <3>5. PlacesTheSent(r)'
      BY <3>1, <3>2, <3>3, <3>4 DEF PlacesTheSent
    <3>6. TakenBack(r)'
      <4>1. PICK S, on, p : S = Source(r) /\ on = job[r].on /\ p = PoolOf[on]
        OBVIOUS
      <4>2. GoneOrDue(r, S)' <=> GoneOrDue(r, S)
        BY <3>2, <3>3 DEF GoneOrDue
      <4>3. (Gone(on)' <=> Gone(on)) /\ (Gone(p)' <=> Gone(p))
        BY <3>2
      <4>. QED
        BY <3>1, <3>3, <3>4, <4>1, <4>2, <4>3 DEF TakenBack, GoneOrDue, Gone
    <3>. QED
      BY <3>1, <3>3, <3>5, <3>6
  <2>. QED
    BY <1>3, <2>1, <2>2 DEF vars, OnlyInv
<1>. QED
  BY <1>1, <1>2, <1>3, CrashOnly DEF Next

\* With one request at a time, in any bracket whose branches meet nobody twice
\* and whose sources' matches are entered by hand, and wherever the process dies:
\* everybody in a match or a pool was entered there, or is sent there by results
\* that stand.
THEOREM OnlyTheyAreThere ==
  ASSUME OneRequest, SendersAreNotFed, NEW reach, Branches(reach)
  PROVE  Spec => []OnlyTheAdvancedAreThere
<1>1. Init => CarryInv(reach) /\ OnlyInv
  BY CarriedInitially, OnlyInitially
<1>2. AdvInv /\ PoolInv /\ CarryInv(reach) /\ OnlyInv /\ [Next]_vars
        => CarryInv(reach)' /\ OnlyInv'
  <2>1. PoolsFeedThemselves
    BY HandsFeed
  <2>. QED
    BY <2>1, NextCarries, NextOnly
<1>3. PoolInv /\ OnlyInv => OnlyTheAdvancedAreThere
  <2>1. SUFFICES ASSUME PoolInv, OnlyInv, Quiet, unsettled = {}, edits = 0,
                        NEW c \in Competitions, NEW e \in Entrants, Holds(c, e), ~Given(c, e)
                 PROVE  \E s \in Competitions : \E rule \in rules[s] :
                            rule.to = c /\ e \in SentOn(s, rule)
    BY DEF OnlyTheAdvancedAreThere, Given
  <2>2. PICK s \in Competitions : \E rule \in rules[s] : rule.to = c /\ e \in WouldSend(s, rule)
    BY <2>1 DEF OnlyInv, OnlySent, Sent
  <2>3. PICK rule \in rules[s] : rule.to = c /\ e \in WouldSend(s, rule)
    BY <2>2
  <2>4. e \in SentOn(s, rule)
    <3>1. CASE s \in Matches
      BY <2>3, <3>1 DEF WouldSend, SentOn
    <3>2. CASE s \in Pools
      <4>1. s \notin Matches
        BY <3>2
      <4>2. \A r \in Requests : ~InHand(r, s)
        BY <2>1 DEF Quiet, Busy, InHand
      <4>3. pool[s].state = "completed" <=> Decided(row, s)
        BY <2>1, <3>2, <4>2 DEF PoolInv, Aligned
      <4>. QED
        BY <2>3, <4>1, <4>3 DEF WouldSend, SentOn
    <3>. QED
      BY <3>1, <3>2
  <2>. QED
    BY <2>3, <2>4
<1>. QED
  BY <1>1, <1>2, <1>3, AdvAlways, PoolsAlways, PTL DEF Spec

=============================================================================
