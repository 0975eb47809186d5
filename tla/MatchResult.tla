---------------------------- MODULE MatchResult ----------------------------
(***************************************************************************)
(* One match and the result made of it: who is in it, its rounds (songs,   *)
(* or one round scored by hand), their ranking, the tiebreaks drawn for    *)
(* ties that matter, and the result (match.aggregate.ts), the placements   *)
(* the result states (placement.resolver.ts), the scoring systems          *)
(* (packages/scoring) and what the reads say of the match                  *)
(* (match.queries.ts).  One command is one step: requests whose saves      *)
(* interleave are in RunIngest and Advancement.                            *)
(***************************************************************************)
EXTENDS Integers, FiniteSets, Sequences, SequencesExt

CONSTANTS
    Players,      \* who may be in the match
    Guests,       \* who may be scored without being in it
    Songs,
    Scores,       \* records of percentage and isFailed
    Deciders,     \* bound: those of them that are set in a tiebreak
    HandPoints,   \* what a scorer may state
    Systems,      \* the scoring systems in use
    Rules,        \* the outgoing rules of the match: where a placement leads
    MaxRounds, MaxTiebreaks,
    MaxStale,     \* bound: invalidated tiebreaks left when the match is changed again
    MaxDrift,     \* bound: how far advancements take a finished match from its result
    None

ASSUME PlayersAssumption == IsFiniteSet(Players) /\ Guests \subseteq Players
ASSUME ScoresAssumption ==
    /\ Scores \subseteq [percentage : Nat, isFailed : BOOLEAN] /\ Deciders \subseteq Scores
    /\ HandPoints \subseteq Nat /\ 0 \in HandPoints
ASSUME SystemsAssumption ==
    Systems \subseteq {"PlacementPointsWithFailZero",
                      "PlacementPointsIncludingFails", "RoundWinner"}
ASSUME NoneAssumption ==
    /\ None \notin Songs /\ None \notin Scores /\ None \notin Nat
    /\ None \notin [score : Scores \union {None}, points : Nat]

VARIABLES
    entrants,     \* the players of the match
    system,       \* its scoring system
    rounds,       \* its rounds, in the order of their ids: the song, if it has one, and of
                  \* each player the standing (a score, if any, and points), or None
    tiebreaks,    \* its tiebreaks, in the order of their sequence: the song, whether it is
                  \* invalidated, and of each player tied a score, or points by hand
    result        \* the points and the placement of each player, or None

vars == <<entrants, system, rounds, tiebreaks, result>>

\* A round is a song, of which a standing is a score and its points, or it is
\* scored by hand, and a standing is the points.  So is a tiebreak.
SongRound == [song : Songs, of : [Players -> [score : Scores, points : Nat] \union {None}]]
HandRound == [song : {None}, of : [Players -> [score : {None}, points : Nat] \union {None}]]

SongTiebreak ==
    UNION {[song : Songs, invalidated : BOOLEAN, of : [S -> Scores \union {None}]] : S \in SUBSET Players}
HandTiebreak ==
    UNION {[song : {None}, invalidated : BOOLEAN, of : [S -> Nat]] : S \in SUBSET Players}

\* Every variable has a value of its kind.
TypeOK ==
    /\ entrants \in SUBSET Players /\ system \in Systems
    /\ rounds \in Seq(SongRound \union HandRound)
    /\ tiebreaks \in Seq(SongTiebreak \union HandTiebreak)
    /\ \/ result = None
       \/ result \in UNION {[S -> [points : Nat, placement : Nat]] : S \in SUBSET Players}

-----------------------------------------------------------------------------
(* Groups: sets of players in the order of a value, the highest first.     *)

Grouped(S, value) ==
    LET values   == {value[p] : p \in S}
        Above(p) == {v \in values : v > value[p]}
    IN  [i \in 1..Cardinality(values) |-> {p \in S : Cardinality(Above(p)) = i - 1}]

AheadOf(groups, i) == Cardinality(UNION {groups[j] : j \in 1..(i - 1)})

-----------------------------------------------------------------------------
(* Ranking a round.                                                        *)

Held(round) == {p \in Players : round.of[p] # None}

Complete(round, S) == S # {} /\ S \subseteq Held(round)

\* awardPlacementPoints: the first group has a point for each standing, the
\* next one as many less as there are players before it.
Awarded(round, includeFails) ==
    LET eligible == {p \in Held(round) : includeFails \/ ~round.of[p].score.isFailed}
        groups   == Grouped(eligible, [p \in eligible |-> round.of[p].score.percentage])
    IN  [p \in Held(round) |->
            IF p \in eligible
            THEN LET i == CHOOSE i \in DOMAIN groups : p \in groups[i]
                 IN  Cardinality(Held(round)) - AheadOf(groups, i)
            ELSE 0]

\* RoundWinner sorts and gives the first one the point; of equal ones the first
\* is the row the database returned first.
Winners(round) ==
    {p \in Held(round) : \A q \in Held(round) :
        round.of[q].score.percentage <= round.of[p].score.percentage}

Awards(round, sys) ==
    CASE sys = "PlacementPointsWithFailZero"   -> {Awarded(round, FALSE)}
      [] sys = "PlacementPointsIncludingFails" -> {Awarded(round, TRUE)}
      [] sys = "RoundWinner" ->
            {[p \in Held(round) |-> IF p = w THEN 1 ELSE 0] : w \in Winners(round)}

Pointed(round, points) ==
    [round EXCEPT !.of = [p \in Players |->
        IF round.of[p] = None THEN None ELSE [round.of[p] EXCEPT !.points = points[p]]]]

\* The rounds that ranking round may leave.
RankIfComplete(round, S, sys) ==
    IF Complete(round, S) THEN {Pointed(round, award) : award \in Awards(round, sys)}
    ELSE {round}

Zeroed(round) == Pointed(round, [p \in Players |-> 0])

\* The rounds that can be made when the i-th becomes one of options[i].
Remade(options) ==
    LET upTo[i \in 0..Len(options)] ==
            IF i = 0 THEN {<<>>} ELSE {Append(a, r) : a \in upTo[i - 1], r \in options[i]}
    IN  upTo[Len(options)]

\* Mutant: the points of an incomplete round stay.
SettledOnce(r, S, sys) == IF r.song = None THEN {r} ELSE RankIfComplete(r, S, sys)

\* The round of S only, its standings ranked again or without points.
SettledAgain(r, S, sys) ==
    CASE r.song = None -> {r}
      [] r.song # None /\ Complete(r, S) -> RankIfComplete(r, S, sys)
      [] OTHER -> {Zeroed(r)}

Staying(r, S) == [r EXCEPT !.of = [p \in Players |-> IF p \in S THEN r.of[p] ELSE None]]

\* resettle
Resettled(rs, S, sys) ==
    Remade([i \in 1..Len(rs) |-> SettledAgain(Staying(rs[i], S), S, sys)])

-----------------------------------------------------------------------------
(* What a match amounts to (calculatePoints, resolvePlacements).           *)

Settled ==
    /\ entrants # {} /\ rounds # <<>>
    /\ \A r \in Range(rounds) :
          IF r.song # None THEN entrants \subseteq Held(r)
          ELSE \E p \in Held(r) : r.of[p].points > 0

Sum(value) ==
    LET upTo[i \in 0..Len(value)] == IF i = 0 THEN 0 ELSE upTo[i - 1] + value[i]
    IN  upTo[Len(value)]

Total(p) ==
    Sum([i \in 1..Len(rounds) |-> IF rounds[i].of[p] = None THEN 0 ELSE rounds[i].of[p].points])

Passed(r, p) ==
    r.of[p] # None /\ (IF r.of[p].score = None THEN FALSE ELSE ~r.of[p].score.isFailed)

Count(p) == Cardinality({i \in DOMAIN rounds : Passed(rounds[i], p)})

PassedSum(p) ==
    Sum([i \in 1..Len(rounds) |->
            IF Passed(rounds[i], p) THEN rounds[i].of[p].score.percentage ELSE 0])

\* The average of p over the songs passed is higher than that of q.
BetterAverage(p, q) == PassedSum(p) * Count(q) > PassedSum(q) * Count(p)

\* isTiebreakComplete
TiebreakComplete(t) ==
    /\ Cardinality(DOMAIN t.of) >= 2
    /\ IF t.song # None THEN \A p \in DOMAIN t.of : t.of[p] # None
       ELSE \E p \in DOMAIN t.of : t.of[p] > 0

\* compareEvidence: a failed score comes after any other, none counts as zero.
Merit(t, p) ==
    CASE t.song = None -> t.of[p]
      [] t.song # None /\ t.of[p] = None -> 0
      [] OTHER -> IF t.of[p].isFailed THEN t.of[p].percentage - 1000 ELSE t.of[p].percentage

Merits(t) == [p \in DOMAIN t.of |-> Merit(t, p)]

\* Mutant: the tiebreak sorts whomever it has in the group.
SplitByAny(groups, t) ==
    LET hit == {i \in DOMAIN groups : groups[i] \subseteq DOMAIN t.of}
    IN  IF hit = {} THEN groups
        ELSE LET i == CHOOSE i \in hit : TRUE
             IN  Grouped(groups[i], Merits(t)) \o SubSeq(groups, 1, i - 1)
                    \o SubSeq(groups, i + 1, Len(groups))

\* A tiebreak that counts splits the group of just its players.
SplitBy(groups, t) ==
    LET hit == {i \in DOMAIN groups : groups[i] = DOMAIN t.of}
    IN  IF hit = {} THEN groups
        ELSE LET i == CHOOSE i \in hit : TRUE
             IN  SubSeq(groups, 1, i - 1) \o Grouped(groups[i], Merits(t))
                    \o SubSeq(groups, i + 1, Len(groups))

\* counts: the tiebreaks that are complete.
Groups(counts) ==
    LET after[i \in 0..Len(tiebreaks)] ==
            CASE i = 0 -> Grouped(entrants, [p \in entrants |-> Total(p)])
              [] i \in counts /\ ~tiebreaks[i].invalidated -> SplitBy(after[i - 1], tiebreaks[i])
              [] OTHER -> after[i - 1]
    IN  after[Len(tiebreaks)]

OutcomeOf(placement) == IF placement \in DOMAIN Rules THEN Rules[placement] ELSE None

Span(first, group) == first..(first + Cardinality(group) - 1)

\* Mutant: the span is taken one too short.
SeparatesShort(first, group) ==
    Cardinality({OutcomeOf(k) : k \in Span(first, group) \ {first + Cardinality(group) - 1}}) > 1

\* separatesOutcomes: the placements the group spans do not all lead to one outcome.
Separates(first, group) == Cardinality({OutcomeOf(k) : k \in Span(first, group)}) > 1

AmbiguousTies(groups) ==
    {groups[i] : i \in {j \in DOMAIN groups : Separates(AheadOf(groups, j) + 1, groups[j])}}

\* materialize: a group whose tie does not matter is split by average, if everybody has one.
Entries(groups) ==
    [p \in entrants |->
        LET i       == CHOOSE i \in DOMAIN groups : p \in groups[i]
            first   == AheadOf(groups, i) + 1
            settles == ~Separates(first, groups[i]) /\ \A q \in groups[i] : Count(q) > 0
            better  == {q \in groups[i] : settles /\ BetterAverage(q, p)}
        IN  [points |-> Total(p), placement |-> first + Cardinality(better)]]

Resolved == Groups({i \in DOMAIN tiebreaks : TiebreakComplete(tiebreaks[i])})

StatusOf(groups) ==
    CASE ~Settled -> "incomplete"
      [] Settled /\ AmbiguousTies(groups) # {} -> "tiebreak_required"
      [] OTHER -> "ready"

\* state, the column that the store saves
State ==
    CASE result # None -> "completed"
      [] result = None /\ Settled -> StatusOf(Resolved)
      [] OTHER -> IF \E r \in Range(rounds) : \E p \in Held(r) :
                        r.of[p].score # None \/ r.of[p].points > 0
                  THEN "partial" ELSE "open"

-----------------------------------------------------------------------------
(* What the reads say of the match.                                        *)

\* Mutant: a tiebreak counts when it exists.
ProjectedAtOnce(t) == Cardinality(DOMAIN t.of) >= 2 /\ \E p \in DOMAIN t.of : t.of[p] # None

\* projectedResultState: a tiebreak by hand, which has points of everybody, counts
\* as soon as it exists.
ProjectedComplete(t) ==
    Cardinality(DOMAIN t.of) >= 2 /\ \A p \in DOMAIN t.of : t.of[p] # None

Projected == Groups({i \in DOMAIN tiebreaks : ProjectedComplete(tiebreaks[i])})

SongRounds == {i \in DOMAIN rounds : rounds[i].song # None}

\* toSummary: the standings missing are counted, not looked for.
MissingScores ==
    LET scored  == {at \in SongRounds \X Players : rounds[at[1]].of[at[2]] # None}
        missing == Cardinality(SongRounds) * Cardinality(entrants) - Cardinality(scored)
    IN  IF missing > 0 THEN missing ELSE 0

\* TIEBREAK_IN_PROGRESS
TiebreakInProgress ==
    \E i \in DOMAIN tiebreaks : ~tiebreaks[i].invalidated /\ ~TiebreakComplete(tiebreaks[i])

-----------------------------------------------------------------------------
(* Commands.                                                               *)

Editable == result = None

\* Mutant: only what is in progress is invalidated.
InvalidateUnfinished ==
    /\ Cardinality({i \in DOMAIN tiebreaks : tiebreaks[i].invalidated}) <= MaxStale
    /\ tiebreaks' = [i \in DOMAIN tiebreaks |->
        [tiebreaks[i] EXCEPT !.invalidated = @ \/ ~TiebreakComplete(tiebreaks[i])]]

InvalidateTiebreaks ==
    /\ Cardinality({i \in DOMAIN tiebreaks : tiebreaks[i].invalidated}) <= MaxStale
    /\ tiebreaks' = [i \in DOMAIN tiebreaks |-> [tiebreaks[i] EXCEPT !.invalidated = TRUE]]

\* The entrants are S and the system is sys: everything is settled again.
Resettle(S, sys) ==
    /\ entrants' = S /\ system' = sys
    /\ rounds' \in Resettled(rounds, S, sys)
    /\ InvalidateTiebreaks
    /\ UNCHANGED <<result>>

\* update, addEntrant, removeEntrant
ChangeEntrants(S) == Editable /\ Resettle(S, system)

\* An advancement places or takes an entrant of a match that is over, too.
Advance(p) ==
    LET S == IF p \in entrants THEN entrants \ {p} ELSE entrants \union {p} IN
    /\ ~Editable
    /\ Cardinality(SymDiff(S, DOMAIN result)) <= MaxDrift
    /\ Resettle(S, system)

ChangeScoringSystem(sys) == Editable /\ sys # system /\ Resettle(entrants, sys)

NewRound(song) == [song |-> song, of |-> [p \in Players |-> None]]

\* assertRoundSourceAllowed
SourceAllowed(song, rs) ==
    IF song # None THEN \A r \in Range(rs) : r.song # None ELSE rs = <<>>

AddRound(song) ==
    /\ Editable /\ SourceAllowed(song, rounds)
    /\ Len(rounds) < MaxRounds
    /\ rounds' = Append(rounds, NewRound(song))
    /\ InvalidateTiebreaks
    /\ UNCHANGED <<entrants, system, result>>

\* A song with scores stays; points stated by hand go with their round.
Removable(i) == rounds[i].song = None \/ Held(rounds[i]) = {}

RemoveRound(i) ==
    /\ Editable /\ Removable(i)
    /\ rounds' = RemoveAt(rounds, i)
    /\ InvalidateTiebreaks
    /\ UNCHANGED <<entrants, system, result>>

ReplaceRoundSong(i, song) ==
    /\ Editable /\ Removable(i)
    /\ SourceAllowed(song, RemoveAt(rounds, i))
    /\ rounds' = Append(RemoveAt(rounds, i), NewRound(song))
    /\ InvalidateTiebreaks
    /\ UNCHANGED <<entrants, system, result>>

\* writeStanding
Written(round, p, score, points) ==
    [round EXCEPT !.of[p] = [score |-> score, points |-> points]]

UpsertScore(i, p, score) ==
    /\ Editable /\ rounds[i].song # None /\ p \in entrants \union Guests
    /\ \E r \in RankIfComplete(Written(rounds[i], p, score, 0), entrants, system) :
          rounds' = [rounds EXCEPT ![i] = r]
    /\ InvalidateTiebreaks
    /\ UNCHANGED <<entrants, system, result>>

UpsertPoints(i, p, points) ==
    /\ Editable /\ rounds[i].song = None /\ p \in entrants \union Guests
    /\ rounds' = [rounds EXCEPT ![i] = Written(@, p, None, points)]
    /\ InvalidateTiebreaks
    /\ UNCHANGED <<entrants, system, result>>

\* Nobody has points any more in a song that lost a standing.
Without(round, p) ==
    LET left == [round EXCEPT !.of[p] = None]
    IN  IF round.song # None THEN Zeroed(left) ELSE left

RemoveStanding(i, p) ==
    /\ Editable /\ p \in Held(rounds[i])
    /\ rounds' = [rounds EXCEPT ![i] = Without(@, p)]
    /\ InvalidateTiebreaks
    /\ UNCHANGED <<entrants, system, result>>

\* A tiebreak is drawn for one group whose tie matters, when no other is open.
AddTiebreak(song) ==
    /\ Editable /\ Settled /\ ~TiebreakInProgress
    /\ Len(tiebreaks) < MaxTiebreaks
    /\ \E groups \in {Resolved} : \E S \in AmbiguousTies(groups) :
          tiebreaks' = Append(tiebreaks,
              [song |-> song, invalidated |-> FALSE,
               of |-> [p \in S |-> IF song = None THEN 0 ELSE None]])
    /\ UNCHANGED <<entrants, system, rounds, result>>

RemoveTiebreak(i) ==
    /\ Editable
    /\ tiebreaks' = RemoveAt(tiebreaks, i)
    /\ UNCHANGED <<entrants, system, rounds, result>>

UpsertTiebreakScore(i, p, score) ==
    /\ Editable /\ ~tiebreaks[i].invalidated
    /\ tiebreaks[i].song # None /\ p \in DOMAIN tiebreaks[i].of
    /\ tiebreaks' = [tiebreaks EXCEPT ![i].of[p] = score]
    /\ UNCHANGED <<entrants, system, rounds, result>>

UpsertTiebreakPoints(i, p, points) ==
    /\ Editable /\ ~tiebreaks[i].invalidated
    /\ tiebreaks[i].song = None /\ p \in DOMAIN tiebreaks[i].of
    /\ tiebreaks' = [tiebreaks EXCEPT ![i].of[p] = points]
    /\ UNCHANGED <<entrants, system, rounds, result>>

ClearTiebreakStanding(i, p) ==
    /\ Editable /\ p \in DOMAIN tiebreaks[i].of
    /\ tiebreaks' = [tiebreaks EXCEPT ![i].of[p] = IF tiebreaks[i].song = None THEN 0 ELSE None]
    /\ UNCHANGED <<entrants, system, rounds, result>>

\* liveTargetsForSong: where a run of p counts, a tiebreak before a round.
LiveTiebreaks(song, p) ==
    {i \in DOMAIN tiebreaks : tiebreaks[i].song = song /\ ~tiebreaks[i].invalidated
        /\ p \in DOMAIN tiebreaks[i].of /\ tiebreaks[i].of[p] = None}

LiveRounds(song, p) ==
    {i \in DOMAIN rounds : rounds[i].song = song /\ p \in entrants /\ rounds[i].of[p] = None}

FirstOf(S) == CHOOSE i \in S : \A j \in S : i <= j

\* Whose run of the song has a target.
Live(song) == {p \in Players : LiveTiebreaks(song, p) \union LiveRounds(song, p) # {}}

\* applyCompletedSong: each run goes to its target, and a round is ranked as
\* often as it is written, the last time with all of them.
ApplyCompletedSong(song, runs) ==
    LET tied   == {p \in DOMAIN runs : LiveTiebreaks(song, p) # {}}
        played == DOMAIN runs \ tied
        Put(i) == [rounds[i] EXCEPT !.of = [p \in Players |->
                     IF p \in played /\ FirstOf(LiveRounds(song, p)) = i
                     THEN [score |-> runs[p], points |-> 0] ELSE @[p]]]
    IN  /\ Editable
        /\ \A p \in tied : runs[p] \in Deciders
        /\ IF played = {} THEN UNCHANGED rounds
           ELSE rounds' \in Remade([i \in 1..Len(rounds) |->
                    IF Put(i) = rounds[i] THEN {rounds[i]}
                    ELSE RankIfComplete(Put(i), entrants, system)])
        /\ tiebreaks' = [i \in DOMAIN tiebreaks |->
              [tiebreaks[i] EXCEPT
                  !.invalidated = @ \/ played # {},
                  !.of = [p \in DOMAIN @ |->
                     IF p \in tied /\ FirstOf(LiveTiebreaks(song, p)) = i THEN runs[p] ELSE @[p]]]]
        /\ UNCHANGED <<entrants, system, result>>

\* A match that is over may be committed again.
CommitResult ==
    /\ Settled
    /\ \E groups \in {Resolved} :
          /\ AmbiguousTies(groups) = {}
          /\ result' = Entries(groups)
    /\ UNCHANGED <<entrants, system, rounds, tiebreaks>>

ReopenResult ==
    /\ result # None
    /\ result' = None
    /\ UNCHANGED <<entrants, system, rounds, tiebreaks>>

Init ==
    /\ entrants \in SUBSET Players /\ system \in Systems
    /\ rounds \in {<<>>} \union {<<NewRound(s)>> : s \in Songs}
    /\ tiebreaks = <<>> /\ result = None

Next ==
    \/ \E S \in SUBSET Players : ChangeEntrants(S)
    \/ \E p \in Players : Advance(p)
    \/ \E sys \in Systems : ChangeScoringSystem(sys)
    \/ \E song \in Songs \union {None} :
          \/ AddRound(song)
          \/ \E i \in DOMAIN rounds : ReplaceRoundSong(i, song)
          \/ AddTiebreak(song)
    \/ \E i \in DOMAIN rounds :
          \/ RemoveRound(i)
          \/ \E p \in Players :
                \/ \E score \in Scores : UpsertScore(i, p, score)
                \/ \E points \in HandPoints : UpsertPoints(i, p, points)
                \/ RemoveStanding(i, p)
    \/ \E i \in DOMAIN tiebreaks :
          \/ RemoveTiebreak(i)
          \/ \E p \in Players :
                \/ \E score \in Deciders : UpsertTiebreakScore(i, p, score)
                \/ \E points \in HandPoints : UpsertTiebreakPoints(i, p, points)
                \/ ClearTiebreakStanding(i, p)
    \/ \E song \in Songs : \E S \in SUBSET Live(song) \ {{}} : \E runs \in [S -> Scores] :
          ApplyCompletedSong(song, runs)
    \/ CommitResult
    \/ ReopenResult

Spec == Init /\ [][Next]_vars

-----------------------------------------------------------------------------
(* Properties.                                                             *)

\* A tiebreak that is not invalidated is evidence about a tie that still is:
\* all its players are in the match, which is settled, with equal points.
\* Nothing but the invalidation in each command sees to that.
LiveTiebreaksStand ==
    \A i \in DOMAIN tiebreaks : ~tiebreaks[i].invalidated =>
        /\ DOMAIN tiebreaks[i].of \subseteq entrants /\ Settled
        /\ \A p, q \in DOMAIN tiebreaks[i].of : Total(p) = Total(q)

\* The points of a song follow from the scores in it, whatever happened before:
\* of a complete one they are what the scoring system says (a player's points
\* fall by one for every better standing; one best player has the only point),
\* of an incomplete one they are zero.
RoundsAreRanked ==
    \A i \in SongRounds :
        LET of         == rounds[i].of
            held       == Held(rounds[i])
            eligible   == {p \in held : system = "PlacementPointsWithFailZero" => ~of[p].score.isFailed}
            Better(p)  == {q \in eligible : of[q].score.percentage > of[p].score.percentage}
        IN  IF ~Complete(rounds[i], entrants) THEN \A p \in held : of[p].points = 0
            ELSE IF system = "RoundWinner"
            THEN \E w \in held : Better(w) = {} /\ \A p \in held : of[p].points = IF p = w THEN 1 ELSE 0
            ELSE \A p \in held : of[p].points =
                    IF p \in eligible THEN Cardinality(held) - Cardinality(Better(p)) ELSE 0

\* What the reads compute on their own agrees with the aggregate: the status,
\* the ties to be broken (which the organiser may draw a tiebreak for), and that
\* no score is missing only when the songs are all played.
ReadsAgree ==
    /\ Editable /\ Settled => \A theirs \in {Projected}, ours \in {Resolved} :
          /\ AmbiguousTies(theirs) = AmbiguousTies(ours)
          /\ StatusOf(theirs) = State
    /\ SongRounds # {} /\ entrants # {} => (MissingScores = 0 <=> Settled)

\* Placements: more points come first, equal placements are shared and the next
\* ones left out, and who is placed ahead with equal points was better in a
\* tiebreak that counts, or on average.
FairlyPlaced ==
    Settled => \A groups \in {Resolved} : \A place \in {Entries(groups)} :
        \A p, q \in entrants :
            /\ Total(p) > Total(q) => place[p].placement < place[q].placement
            /\ place[p].placement =
                  1 + Cardinality({o \in entrants : place[o].placement < place[p].placement})
            /\ Total(p) = Total(q) /\ place[p].placement < place[q].placement =>
                  \/ \E i \in DOMAIN tiebreaks :
                        /\ ~tiebreaks[i].invalidated /\ TiebreakComplete(tiebreaks[i])
                        /\ {p, q} \subseteq DOMAIN tiebreaks[i].of
                        /\ Merit(tiebreaks[i], p) > Merit(tiebreaks[i], q)
                  \/ BetterAverage(p, q)

\* A result is recorded only of exactly the players in the match, and only when
\* players who share a placement go the same way: whichever of the placements
\* they span one of them is taken for.
CommitsAreDecided ==
    [][result' # None /\ result' # result =>
        /\ DOMAIN result' = entrants
        /\ \A p \in entrants :
              LET k == result'[p].placement
                  shared == {q \in entrants : result'[q].placement = k}
              IN  \A j \in Span(k, shared) : OutcomeOf(j) = OutcomeOf(k)]_vars
=============================================================================
