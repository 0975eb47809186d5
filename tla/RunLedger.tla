----------------------------- MODULE RunLedger -----------------------------
(***************************************************************************)
(* What a control room may count on when it reports runs: a submission is  *)
(* counted at most once, its outcome is decided after that and never       *)
(* changes, and whoever asks again is told that outcome or nothing yet.    *)
(***************************************************************************)
EXTENDS Naturals

CONSTANTS Submissions, Outcomes, Nothing

VARIABLES
    taken,      \* the submissions that were accepted
    counted,    \* counted[s]: how often the runs of s became scores
    outcome,    \* outcome[s]: what became of them, or Nothing
    heard       \* heard[s]: the outcomes control rooms were told

lvars == <<taken, counted, outcome, heard>>

Init ==
    /\ taken = {}
    /\ counted = [s \in Submissions |-> 0]
    /\ outcome = [s \in Submissions |-> Nothing]
    /\ heard = [s \in Submissions |-> {}]

Take(s) ==
    /\ s \notin taken
    /\ taken' = taken \union {s}
    /\ UNCHANGED <<counted, outcome, heard>>

Count(s) ==
    /\ s \in taken
    /\ counted[s] = 0
    /\ counted' = [counted EXCEPT ![s] = 1]
    /\ UNCHANGED <<taken, outcome, heard>>

Decide(s) ==
    /\ counted[s] = 1
    /\ outcome[s] = Nothing
    /\ \E o \in Outcomes : outcome' = [outcome EXCEPT ![s] = o]
    /\ UNCHANGED <<taken, counted, heard>>

Tell(s) ==
    /\ s \in taken
    /\ heard' = [heard EXCEPT ![s] = @ \union {outcome[s]}]
    /\ UNCHANGED <<taken, counted, outcome>>

Next == \E s \in Submissions : Take(s) \/ Count(s) \/ Decide(s) \/ Tell(s)

Spec == Init /\ [][Next]_lvars
=============================================================================
