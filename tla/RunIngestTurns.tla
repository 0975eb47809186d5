--------------------------- MODULE RunIngestTurns ---------------------------
(***************************************************************************)
(* RunIngest in one of two settings.  Between control rooms, reports meet  *)
(* in every way and no scorer does anything.  At a desk, scorers and       *)
(* control rooms follow one another: nobody begins before the last one is  *)
(* done, which is what the API never makes sure of.  What saves promise    *)
(* as long as they take turns is stated here.                              *)
(***************************************************************************)
EXTENDS RunIngest

VARIABLE setting    \* what happens at once: "rooms" or "desk"

\* At work: the handlers h with InProgress(h).
InProgress(h) == at[h] \notin {"idle", "done"}

\* At the desk one handler at a time; between rooms, no scorer.
Held ==
    IF setting = "desk"
    THEN \A h, k \in Handlers : InProgress(h)' /\ InProgress(k)' => h = k
    ELSE \A q \in Scorers : at'[q] = "idle"

TurnInit == Init /\ setting \in {"rooms", "desk"}
TurnNext == Next /\ Held /\ UNCHANGED setting
TurnSpec ==
    /\ TurnInit /\ [][TurnNext]_<<vars, setting>>
    /\ \A h \in Handlers : WF_vars(Serve(h) /\ Held)
    /\ \A s \in Submissions : SF_vars(Resend(s) /\ Held)

-----------------------------------------------------------------------------
(* What holds as long as saves follow one another.                         *)

\* At the desk, a result is of its round (ResultIsOfTheRound).
ResultsInTurn == setting = "desk" => ResultIsOfTheRound

\* At the desk, no save takes a standing its command does not name.
StandingsStayInTurn == [][setting = "desk" => OthersStay]_vars
=============================================================================
