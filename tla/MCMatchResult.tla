--------------------------- MODULE MCMatchResult ---------------------------
(* Small instances of MatchResult for TLC.                                 *)
EXTENDS MatchResult, TLC

CONSTANTS a, b, c, s, none

Score(percentage, isFailed) == [percentage |-> percentage, isFailed |-> isFailed]

\* Two scores that passed, and one that did not although it is as high.
Three == {Score(1, FALSE), Score(2, FALSE), Score(2, TRUE)}
PassOrFail == {Score(1, FALSE), Score(2, TRUE)}

\* Only the winner goes on.
WinnerGoesOn == <<"final">>

\* Players are told apart by nothing but what they did.
Alike == Permutations({a, b, c})
=============================================================================
