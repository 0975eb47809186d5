----------------------------- MODULE Placements -----------------------------
(***************************************************************************)
(* The final placements of a division (stats/), read off a bracket while   *)
(* it is played: nothing stores who was knocked out when, the resolver     *)
(* works it out from the rules and the results there are.  The division    *)
(* here holds one pool, the one the bracket was drawn in.                  *)
(***************************************************************************)
EXTENDS Brackets

\* How far each competition is from an ending.  The resolver measures it at each
\* read; here, where no rule changes, it is measured once, for the brackets
\* that are played.
VARIABLE depths

\* A pool whose matches feed each other counts as its matches, any other as one competition.
Pool == -1
IsBracketPool == plan.routes # {}
Nodes == IF IsBracketPool THEN Matches ELSE {Pool}

\* How many results a competition is away from an ending, by the longest way.
Depths ==
    LET depth[m \in Matches] == Max({0} \union {1 + depth[x.to] : x \in OutOf(m)})
    IN  [n \in Nodes |-> IF n = Pool THEN 0 ELSE depth[n]]

PlaceIn(m, p) ==
    IF Played(m) THEN CHOOSE i \in DOMAIN places[m] : places[m][i] = p
    ELSE Cardinality(Entrants(m)) + 1

\* The points of a result, as far as they order its players.
Points(m, p) == IF Played(m) THEN Len(places[m]) + 1 - PlaceIn(m, p) ELSE 0

PoolTotal(p) == MapThenSumSet(LAMBDA m : Points(m, p), {m \in Matches : p \in Entrants(m)})

InMatches == UNION {Entrants(m) : m \in Matches}

Held(n) == IF n = Pool THEN InMatches ELSE Entrants(n)

Placement(n, p) ==
    IF n = Pool THEN 1 + Cardinality({q \in InMatches : PoolTotal(q) > PoolTotal(p)})
    ELSE PlaceIn(n, p)

\* Where an entrant is or was held, and how near the end that is.
Stops(p) ==
    {[node |-> n, depth |-> depths[n], placement |-> Placement(n, p)] :
        n \in {k \in Nodes : p \in Held(k)}}

Closer(a, b) ==
    \/ a.depth < b.depth
    \/ a.depth = b.depth /\ a.placement < b.placement
    \/ a.depth = b.depth /\ a.placement = b.placement /\ a.node < b.node

Exits == [p \in InMatches |-> CHOOSE s \in Stops(p) : \A t \in Stops(p) : t = s \/ Closer(s, t)]

\* (For the mutants: by the place first.)
AheadByPlace(s, t) == s.placement < t.placement \/ (s.placement = t.placement /\ s.depth < t.depth)

\* The rows: everybody whose exit is as near the end and as well placed shares a band.
Ahead(s, t) == s.depth < t.depth \/ (s.depth = t.depth /\ s.placement < t.placement)

Rows(exits) ==
    [p \in InMatches |->
        [exit          |-> exits[p].node,
         placement     |-> 1 + Cardinality({q \in InMatches : Ahead(exits[q], exits[p])}),
         sharedThrough |-> Cardinality({q \in InMatches : ~Ahead(exits[p], exits[q])})]]

RankedInit == Init /\ depths = IF IsPlayed THEN Depths ELSE <<>>

RankedNext == Next /\ UNCHANGED depths

RankedSpec == RankedInit /\ [][RankedNext]_<<vars, depths>>

----------------------------------------------------------------------------
(* Properties                                                              *)

\* Nobody is ranked beside or ahead of somebody who was placed before them in
\* the competition they went out in, at any time, on whichever side of a double
\* elimination that was; and the bands fill the ranking without overlapping.
BeatenAreBehind ==
    IsPlayed =>
        \A exits \in {Exits} : \A rows \in {Rows(exits)} :
            \A p \in InMatches :
                /\ \A q \in Held(rows[p].exit) :
                      Placement(rows[p].exit, q) < Placement(rows[p].exit, p)
                          => rows[q].sharedThrough < rows[p].placement
                /\ \A q \in InMatches :
                      rows[q].placement # rows[p].placement
                          => \/ rows[q].sharedThrough < rows[p].placement
                             \/ rows[p].sharedThrough < rows[q].placement

=============================================================================
