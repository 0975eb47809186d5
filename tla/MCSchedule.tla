----------------------------- MODULE MCSchedule -----------------------------
(* Small instances of Schedule for TLC.                                    *)
EXTENDS Schedule

CONSTANTS m1, m2, s1, s2, a, b, r1, r2

Playable(players) ==
    [state |-> "open", active |-> FALSE, players |-> players, rounds |-> TRUE]

\* One schedule; the winner of the first match takes a seat in the second.
OneBoard == (s1 :> <<m1, m2>>)
OneBoardMatches == (m1 :> Playable({a, b})) @@ (m2 :> Playable({a}))
OneBoardFeeders == (m1 :> {}) @@ (m2 :> {m1})
TwoEach == [m \in Matches |-> 2]

\* One request at a time, whatever it is, but edits of entries and manual
\* activations.
AllButEntries == (r1 :> (Ops \ {"create", "remove", "replace", "activate"}))

\* Two schedules whose matches have the same players.
Unfed == [m \in Matches |-> {}]
PlayedByTwo == [m \in Matches |-> Playable({a, b})]
TwoBoards == (s1 :> <<m1>>) @@ (s2 :> <<m2>>)

\* One desk edits the entries and runs the schedules while a match is scored or activated.
EditorAndScorer ==
    (r1 :> {"create", "remove", "replace", "start", "stop"})
    @@ (r2 :> {"score", "activate"})

\* Two desks edit the entries of two schedules at once.
TwoEditors == (r1 :> {"replace", "start", "stop"}) @@ (r2 :> {"replace"})
=============================================================================
