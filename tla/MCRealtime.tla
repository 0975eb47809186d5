----------------------------- MODULE MCRealtime -----------------------------
\* Small instances of Realtime for TLC.
EXTENDS Realtime

\* A scorer's result decides its pool, a schedule moves on.
DecideOrStart == {Decide, Start}
=============================================================================
