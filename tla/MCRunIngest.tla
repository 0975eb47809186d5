---------------------------- MODULE MCRunIngest ----------------------------
(* A small instance of RunIngestTurns for TLC.                             *)
EXTENDS RunIngestTurns, TLC

CONSTANTS a, b, g, s1, s2, h1, h2, q1, q2, noOne

\* Two players of the tournament, and g who never registered.
Both == {a, b}

\* What the submissions report.
Crossing == s1 :> {a, b, g} @@ s2 :> {a}

\* Two matches, of which the first comes first for a.
TwoMatches == 1 :> {a, b} @@ 2 :> {a}
=============================================================================
