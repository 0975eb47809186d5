--------------------------- MODULE MCAdvancement ---------------------------
\* Small brackets for TLC.
EXTENDS Advancement, TLC

CONSTANTS A, B, F, G, P, Q, r1, r2

\* Two matches of pool P feed a match F and, once both are over, a match G of
\* pool Q.
Bracket == (A :> P) @@ (B :> P) @@ (F :> Q) @@ (G :> Q)

TwoAndOne == (A :> {1, 2}) @@ (B :> {3}) @@ (F :> {}) @@ (G :> {})

RecordedThere == (A :> {1, 2}) @@ (B :> {3}) @@ (F :> {1}) @@ (G :> {1})

SeatedInP == (P :> {1, 2, 3}) @@ (Q :> {})

Sends(c, place, to, slot) ==
    [from |-> c, placement |-> place, to |-> to, slot |-> slot, edit |-> 0]

\* The winners of A and B meet in F, the loser of A gets a seat in Q, and the
\* best of P plays in G.
BothWays ==
    (A :> {Sends(A, 1, F, 1), Sends(A, 2, Q, 1)})
    @@ (B :> {Sends(B, 1, F, 2)})
    @@ (P :> {Sends(P, 1, G, 1)})
    @@ [c \in {F, G, Q} |-> {}]

\* The organiser sends the loser of A to F instead.
LoserGoesOn ==
    (A :> {{Sends(A, 2, F, 1)}}) @@ [c \in {B, F, G, P, Q} |-> {}]

\* The theorems are about this bracket too.
Reach == (A :> {1, 2}) @@ (B :> {3}) @@ [c \in {F, G, P, Q} |-> {1, 2, 3}]

ASSUME BracketAssumption == Branches(Reach) /\ PoolsFeedThemselves /\ SendersAreNotFed

Everything == [r \in {r1} |-> {"commit", "reopen", "score", "rules"}]

=============================================================================
