----------------------------- MODULE MCBrackets -----------------------------
\* Every bracket up to a size, and the small ones played, for TLC.
EXTENDS Placements, TLC

\* Up to four first matches of two; two first matches of four; one of eight; the
\* irregular sizes are drawn, not played.
UpToFourMatches == (2 :> 8) @@ (3 :> 0) @@ (4 :> 5) @@ (6 :> 0) @@ (8 :> 4)
=============================================================================
