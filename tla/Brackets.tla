------------------------------ MODULE Brackets ------------------------------
(***************************************************************************)
(* The brackets the organiser can have drawn (packages/brackets), as the   *)
(* matches, the seats and the routes they consist of, and what becomes of  *)
(* the entrants when such a bracket is played: a match is played once      *)
(* everybody who can come has come, in any order and with any outcome, and *)
(* its entrants go on by its routes.  How a result sends them on is in     *)
(* Advancement, how a bracket is written to the database in Structure.     *)
(*                                                                         *)
(* Matches are numbered as the builder adds them, from 0; placements,      *)
(* slots and seeds count from 0 too (the builder adds the 1 on its way     *)
(* out).                                                                   *)
(***************************************************************************)
EXTENDS Integers, FiniteSets, Sequences, FiniteSetsExt, Functions

CONSTANTS
    Types,        \* the bracket types asked for
    Sizes,        \* the numbers of players per match asked for
    MaxEntrants,  \* bound: the entrants of a bracket that is drawn
    MaxPlayed     \* bound, by size: the entrants of a bracket that is also played

ASSUME /\ Types \subseteq {"SingleElimination", "DoubleElimination", "Manual"}
       /\ Sizes \subseteq Nat /\ MaxEntrants \in Nat /\ MaxPlayed \in [Sizes -> Nat]

VARIABLES
    asked,        \* what was asked for: type, entrants, size (players per match)
    plan,         \* the bracket that was generated: its matches, the routes from a placement of
                  \* a match to a slot of another, and the seats of the seeds
    places        \* for each match the entrants by placement, none before it is played

vars == <<asked, plan, places>>

----------------------------------------------------------------------------
(* The shapes                                                              *)

Above(n, d) == (n + d - 1) \div d

NextPow2(n) == Min({2 ^ k : k \in 0..6} \ 0..(n - 1))

Log2(n) == CHOOSE k \in 0..6 : 2 ^ k = n

\* Rounds of n, n/2, n/4 ... matches, from number 0: the first match of round r.
Halved(n, r) == n \div (2 ^ r)
FirstMatch(n, r) == 2 * n - 2 * Halved(n, r)

\* A bug for the mutants: the seeds are dealt out to the matches in turn.
SeatsDealtOut(first, n, size) ==
    {[match |-> s % first, slot |-> s % size, seed |-> s] : s \in 0..(n - 1)}

\* The seeds in order fill one match after the other, up to the last of the round.
Seats(first, n, size) ==
    {[match |-> s \div size, slot |-> s % size, seed |-> s] :
        s \in {t \in 0..(n - 1) : t \div size < first}}

\* Where the j-th of match i goes in a round of n matches whose entrants are
\* spread over the next one: in blocks, forth for the first, back for the
\* second and so on.  (The counter runs down from size/2, which may not be whole.)
SpreadTarget(n, size, i, j) ==
    IF j % 2 = 0 THEN i \div Above(size, 2) ELSE n \div 2 - 1 - i \div Above(size, 2)

LeastRematch(n, size) ==
    {[from |-> i, place |-> j, to |-> SpreadTarget(n, size, i, j),
      slot |-> Cardinality({ij \in (0..(n - 1)) \X (0..(Above(size, 2) - 1)) :
                  /\ SpreadTarget(n, size, ij[1], ij[2]) = SpreadTarget(n, size, i, j)
                  /\ ij[2] < j \/ (ij[2] = j /\ ij[1] < i)})] :
        i \in 0..(n - 1), j \in 0..(Above(size, 2) - 1)}

Direct(n) == {[from |-> i, place |-> 0, to |-> i \div 2, slot |-> i % 2] : i \in 0..(n - 1)}

Indexes(n, size) == IF size > 2 THEN LeastRematch(n, size) ELSE Direct(n)

\* A next match takes as many as it holds; one with fewer breaks the generator.
BetweenRounds(n, size) == {x \in Indexes(n, size) : x.slot < size}

Shift(routes, from, to) ==
    {[x EXCEPT !.from = @ + from, !.to = @ + to] : x \in routes}

\* The last match of a bracket of more than two players per match is followed by
\* two finals, one for each half.
Finals(last, size) ==
    IF size = 2 THEN {}
    ELSE {[from |-> last, place |-> p,
           to |-> last + (IF p < size \div 2 THEN 1 ELSE 2),
           slot |-> IF p < size \div 2 THEN p ELSE p - size \div 2] : p \in 0..(size - 1)}

SingleElimination(n, size) ==
    LET first  == NextPow2(Above(n, size))
        rounds == 0..(Log2(first) - 1)
        last   == 2 * first - 2
    IN  [matches |-> 2 * first - 1 + (IF size > 2 THEN 2 ELSE 0),
         seats   |-> Seats(first, n, size),
         routes  |-> UNION {Shift(BetweenRounds(Halved(first, r), size),
                                  FirstMatch(first, r), FirstMatch(first, r + 1)) : r \in rounds}
                     \union Finals(last, size),
         failed  |-> \E r \in rounds : \E k \in 0..(Halved(first, r + 1) - 1) :
                        Cardinality({x \in BetweenRounds(Halved(first, r), size) : x.to = k}) < size]

----------------------------------------------------------------------------
(* Double elimination: F, F/2 ... 1 matches on the winners' side; on the    *)
(* losers' side a round to merge and a round to take in the next losers of *)
(* the winners' side, each of F/2, F/4 ... 1 matches; and a grand final.   *)

LosersSize(first, i) == Halved(first, 1 + i \div 2)

\* The first match of losers' round i.
FirstLosers(first, i) ==
    2 * first - 1 + 2 * (first - Halved(first, i \div 2)) + (i % 2) * LosersSize(first, i)

GrandFinal(first) == 4 * first - 3

\* (For the mutants: the losers of a round go where its winners go.)
LosersKeptUp(first, k, m) ==
    IF k = 0 THEN FirstLosers(first, 0) + m \div 2
    ELSE IF k < Log2(first) THEN FirstMatch(first, k + 1) + m \div 2
    ELSE FirstLosers(first, 2 * k - 1) + m

\* Where match m of winners' round k sends its losers.
LosersOf(first, k, m) ==
    IF k = 0 THEN FirstLosers(first, 0) + m \div 2 ELSE FirstLosers(first, 2 * k - 1) + m

FromWinners(first, size, k, m) ==
    LET half  == size \div 2
        side  == (m % 2) * half
        match == FirstMatch(first, k) + m
    IN  UNION {{[from |-> match, place |-> p, slot |-> side + p,
                 to |-> IF k < Log2(first) THEN FirstMatch(first, k + 1) + m \div 2
                        ELSE GrandFinal(first)],
                [from |-> match, place |-> half + p, slot |-> (IF k = 0 THEN side ELSE half) + p,
                 to |-> LosersOf(first, k, m)]} : p \in 0..(half - 1)}

\* (For the mutants: the winners of the losers' side join the winners again.)
FromLosersUp(first, size, i, m) ==
    {[from |-> FirstLosers(first, i) + m, place |-> p,
      to |-> IF i = 0 /\ first = 4 THEN FirstMatch(first, 2) ELSE GrandFinal(first),
      slot |-> size \div 2 + p] : p \in 0..(size \div 2 - 1)}

FromLosers(first, size, i, m) ==
    LET half == size \div 2
        last == 2 * Log2(first) - 1
        to   == IF i = last THEN GrandFinal(first)
                ELSE FirstLosers(first, i + 1) + (IF i % 2 = 0 THEN m ELSE m \div 2)
        base == IF i = last THEN half ELSE IF i % 2 = 0 THEN 0 ELSE (m % 2) * half
    IN  {[from |-> FirstLosers(first, i) + m, place |-> p, to |-> to, slot |-> base + p] :
            p \in 0..(half - 1)}

DoubleElimination(n, size) ==
    LET first   == Max({2, NextPow2(Above(n, size))})
        winners == {km \in (0..Log2(first)) \X (0..(first - 1)) : km[2] < Halved(first, km[1])}
        losers  == {im \in (0..(2 * Log2(first) - 1)) \X (0..(first - 1)) :
                       im[2] < LosersSize(first, im[1])}
    IN  [matches |-> GrandFinal(first) + 1,
         seats   |-> Seats(first, n, size),
         routes  |-> UNION {FromWinners(first, size, km[1], km[2]) : km \in winners}
                     \union UNION {FromLosers(first, size, im[1], im[2]) : im \in losers},
         failed  |-> FALSE]

Manual(n, size) ==
    [matches |-> Above(n, size), seats |-> Seats(Above(n, size), n, size), routes |-> {},
     failed |-> FALSE]

Allowed(type, size) == IF type = "DoubleElimination" THEN size \in {2, 4, 8} ELSE size >= 2

Generate(type, n, size) ==
    CASE type = "SingleElimination" -> SingleElimination(n, size)
      [] type = "DoubleElimination" -> DoubleElimination(n, size)
      [] type = "Manual"            -> Manual(n, size)

----------------------------------------------------------------------------
(* Playing it                                                              *)

Matches == 0..(plan.matches - 1)

Into(m) == {x \in plan.routes : x.to = m}
OutOf(m) == {x \in plan.routes : x.from = m}

\* The seats are turned into the entrants a match is created with, and a route
\* into a rule that enters whoever holds the placement in the target.
Entrants(m) ==
    {s.seed : s \in {t \in plan.seats : t.match = m}}
    \union {places[x.from][x.place + 1] : x \in {y \in Into(m) : y.place < Len(places[y.from])}}

Played(m) == places[m] # <<>>

\* Nobody will come from a match that is over or that nobody reaches.
Over == LET over[m \in Matches] ==
                Played(m) \/ (Entrants(m) = {} /\ \A x \in Into(m) : over[x.from])
        IN  {m \in Matches : over[m]}

Playable(m) == ~Played(m) /\ Entrants(m) # {} /\ \A x \in Into(m) : x.from \in Over

Orders(S) == {f \in [1..Cardinality(S) -> S] : \A i, j \in DOMAIN f : f[i] = f[j] => i = j}

IsPlayed == asked.entrants <= MaxPlayed[asked.size]

Play(m) ==
    /\ IsPlayed /\ ~plan.failed /\ Playable(m)
    /\ \E f \in Orders(Entrants(m)) : places' = [places EXCEPT ![m] = f]
    /\ UNCHANGED <<asked, plan>>

Init ==
    /\ asked \in {q \in [type : Types, entrants : 1..MaxEntrants, size : Sizes] :
                     Allowed(q.type, q.size)}
    /\ plan = Generate(asked.type, asked.entrants, asked.size)
    /\ places = [m \in Matches |-> <<>>]

Next == \E m \in Matches : Play(m)

Spec == Init /\ [][Next]_vars

----------------------------------------------------------------------------
(* Properties                                                              *)

\* The sizes the generators are made for; of the others README.md says more.
Regular == asked.size \in {2, 4, 8}

\* A bracket leads nobody nowhere (what assertWellFormed of the tests asserts for
\* a few brackets, and more): routes go forward, a slot is claimed once, by a
\* route or a seat, a placement leads to one place, and everybody has a seat.
WellFormed ==
    Regular =>
        /\ ~plan.failed
        /\ \A x \in plan.routes : x.from < x.to /\ x.to \in Matches /\ x.slot < asked.size
        /\ \A x, y \in plan.routes :
              x # y => /\ <<x.to, x.slot>> # <<y.to, y.slot>>
                       /\ <<x.from, x.place>> # <<y.from, y.place>>
        /\ \A s, t \in plan.seats : s # t => <<s.match, s.slot>> # <<t.match, t.slot>>
        /\ \A s \in plan.seats : \A x \in Into(s.match) : x.slot # s.slot
        /\ {s.seed : s \in plan.seats} = 0..(asked.entrants - 1)

\* The match that decides: the last but the finals, or the grand final.
Deciding ==
    CASE asked.type = "SingleElimination" -> {2 * NextPow2(Above(asked.entrants, asked.size)) - 2}
      [] asked.type = "DoubleElimination" -> {plan.matches - 1}
      [] asked.type = "Manual"            -> Matches

Lives == IF asked.type = "DoubleElimination" THEN 2 ELSE 1

\* The matches before the deciding ones in which p was in the lower half.
Lost(p) == {m \in Matches \ Deciding :
               \E i \in DOMAIN places[m] : places[m][i] = p /\ 2 * i > asked.size}

Through(p) == \E m \in Matches : OutOf(m) = {} /\ p \in Range(places[m])

\* Whatever the outcomes, an entrant has exactly one match to come until it has
\* been in the lower half as often as the bracket allows, or has played a last
\* match: nobody is dropped, nobody is in two places, byes or not.
EverybodyGoesOn ==
    Regular /\ IsPlayed =>
        \A p \in 0..(asked.entrants - 1) :
            Cardinality({m \in Matches : ~Played(m) /\ p \in Entrants(m)})
                = IF Through(p) \/ Cardinality(Lost(p)) >= Lives THEN 0 ELSE 1

\* Those who meet before the deciding matches have lost as often as each other:
\* the losers' side never meets the winners' side before the grand final.
EqualsMeet ==
    Regular =>
        \A m \in {k \in Matches : ~Played(k) /\ \A d \in Deciding : k < d} :
            \A p, q \in Entrants(m) : Cardinality(Lost(p)) = Cardinality(Lost(q))

=============================================================================
