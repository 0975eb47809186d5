----------------------------- MODULE RunIngest -----------------------------
(***************************************************************************)
(* POST v1/runs: a control room reports who played a song, and the runs    *)
(* become scores and, where a match waits for them, standings.  Beside it, *)
(* the commands of a scorer on the same matches.                           *)
(*                                                                         *)
(* A submission is claimed by its unique row, and everything after that is *)
(* done without a transaction around it: the process may die, and a resend *)
(* may arrive, between any two steps.  A match is loaded with its round,   *)
(* changed in memory and saved whole: the save compares what it holds with *)
(* the tables (Diff), writes the difference (Write), and takes a standing  *)
(* it has never seen out of the round.                                     *)
(*                                                                         *)
(* Every match has one round of the song that is played; a match stands    *)
(* for that round.  Entrants do not change here.                           *)
(***************************************************************************)
EXTENDS Naturals, FiniteSets

CONSTANTS
    Players,
    Roster,         \* players that take part in the tournament
    Submissions,    \* submission ids
    RunsOf,         \* RunsOf[s]: the players whose runs s reports
    Matches,        \* match ids, numbers
    Entrants,       \* Entrants[m]: the players of match m
    Requests,       \* reports the API handles at once
    Scorers,        \* commands of scorers, each given once
    None,           \* no match, no result, no outcome
    AtOnce,         \* bound: handlers in flight at the same time
    MaxCrashes      \* bound: restarts of the API in one behaviour

Sources == Submissions \union Scorers
Handlers == Requests \union Scorers

ASSUME IngestAssumption ==
    /\ Roster \subseteq Players
    /\ RunsOf \in [Submissions -> SUBSET Players]
    /\ Matches \subseteq Nat
    /\ Entrants \in [Matches -> SUBSET Players]
    /\ Requests \cap Scorers = {} /\ Submissions \cap Scorers = {}
    /\ None \notin Matches \union Submissions
    /\ AtOnce \in Nat /\ MaxCrashes \in Nat

VARIABLES
    claimed,    \* the run_submission rows
    outcome,    \* outcome[s]: the column of that row
    recorded,   \* recorded[s]: how often the runs of s were saved as scores
    rows,       \* the standing table
    active,     \* active[m]
    result,     \* result[m]: the scores the match result was made of, or None
    at,         \* at[h]: the step handler h is about to take
    mem,        \* mem[h]: what it holds
    heard,      \* history: heard[s], the outcomes control rooms were told
    crashes

vars == <<claimed, outcome, recorded, rows, active, result, at, mem, heard, crashes>>

\* A standing: the source and the player it was made for are its id, score is
\* the source of the score it carries, points the scores it was ranked among
\* ({} is zero points), and home the match of its round.
Standing == [by : Sources, player : Players, score : Sources,
             points : SUBSET (Players \X Sources), home : Matches \union {None}]

Results == {None} \union SUBSET (Players \X Sources)

Outcomes == [Players -> {"unknown-player", "no-waiting-round", "applied", "not reported"}]

Same(r, d) == r.by = d.by /\ r.player = d.player

Scores(round) == {<<r.player, r.score>> : r \in round}

Steps == {"idle", "claim", "previous", "record", "targets", "load", "diff",
          "write", "outcome", "answer", "done"}

\* named: the standings the handler means to write; round, on and res: the
\* match as it holds it; gone: the standings it deletes; plan: what the save
\* has found to write.
NoPlan == [insert |-> {}, update |-> {}, orphan |-> {}, active |-> {}, result |-> {}]

Blank == [sub |-> None, todo |-> {}, applied |-> {}, match |-> None, named |-> {},
          round |-> {}, on |-> FALSE, res |-> None, gone |-> {}, plan |-> NoPlan]

Plan == [insert : SUBSET Standing, update : SUBSET (Standing \X Standing),
         orphan : SUBSET Standing, active : SUBSET BOOLEAN, result : SUBSET Results]

Memory == [sub : Submissions \union {None}, todo : SUBSET (Matches \X Players),
           applied : SUBSET Players, match : Matches \union {None},
           named : SUBSET (Matches \X Players), round : SUBSET Standing,
           on : BOOLEAN, res : Results, gone : SUBSET Standing, plan : Plan]

Go(h, step) == at' = [at EXCEPT ![h] = step]

End(h) ==
    /\ Go(h, IF h \in Scorers THEN "done" ELSE "idle")
    /\ mem' = [mem EXCEPT ![h] = Blank]

Busy == {h \in Handlers : at[h] \notin {"idle", "done"}}

-----------------------------------------------------------------------------
(* A match in memory.                                                      *)

RoundOf(m) == {r \in rows : r.home = m}

Complete(round, m) ==
    Entrants[m] # {} /\ \A p \in Entrants[m] : \E r \in round : r.player = p

\* Ranking gives every standing of a complete round its points.
Ranked(round, m) ==
    IF Complete(round, m)
    THEN {[r EXCEPT !.points = Scores(round)] : r \in round}
    ELSE round

\* Mutant: the round keeps only what is written.
UpsertedAlone(round, m, who, src) ==
    {[by |-> src, player |-> p, score |-> src, points |-> {}, home |-> m] : p \in who}

\* The standings of the players in who carry the score of src, without points.
Upserted(round, m, who, src) ==
    LET old == {r \in round : r.player \in who}
        new == {p \in who : \A r \in old : r.player # p}
    IN  (round \ old)
            \union {[r EXCEPT !.score = src, !.points = {}] : r \in old}
            \union {[by |-> src, player |-> p, score |-> src, points |-> {}, home |-> m]
                       : p \in new}

Scored(round, m, who, src) == Ranked(Upserted(round, m, who, src), m)

\* The round without the standing of p: nobody has points any more, unless p
\* had none.
Without(round, p) ==
    IF \A r \in round : r.player # p THEN round
    ELSE {[r EXCEPT !.points = {}] : r \in {d \in round : d.player # p}}

\* The matches that wait for a run of p.
Waiting(p) ==
    {m \in Matches : active[m] /\ p \in Entrants[m] /\ \A r \in RoundOf(m) : r.player # p}

\* liveTargetsForSong: for each player the first of them.
TargetsOf(who) ==
    {t \in Matches \X who : t[1] \in Waiting(t[2]) /\ \A n \in Waiting(t[2]) : t[1] <= n}

Known(s) == RunsOf[s] \cap Roster

OutcomeOf(s, applied) ==
    [p \in Players |->
        CASE p \notin RunsOf[s] -> "not reported"
          [] p \in RunsOf[s] \ Roster -> "unknown-player"
          [] p \in Known(s) \cap applied -> "applied"
          [] OTHER -> "no-waiting-round"]

-----------------------------------------------------------------------------
(* Reports.                                                                *)

\* A control room sends, or sends again, at any time.
Submit(h, s) ==
    /\ at[h] = "idle" /\ Cardinality(Busy) < AtOnce
    /\ mem' = [mem EXCEPT ![h].sub = s]
    /\ Go(h, "claim")
    /\ UNCHANGED <<claimed, outcome, recorded, rows, active, result, heard, crashes>>

\* Mutant: the submission is looked up in the outcomes, not claimed.
ClaimUndecided(h) ==
    /\ at[h] = "claim"
    /\ claimed' = claimed \union {mem[h].sub}
    /\ Go(h, IF outcome[mem[h].sub] = None THEN "record" ELSE "previous")
    /\ UNCHANGED <<outcome, recorded, rows, active, result, mem, heard, crashes>>

\* INSERT ... ON CONFLICT DO NOTHING.
Claim(h) ==
    /\ at[h] = "claim"
    /\ claimed' = claimed \union {mem[h].sub}
    /\ Go(h, IF mem[h].sub \in claimed THEN "previous" ELSE "record")
    /\ UNCHANGED <<outcome, recorded, rows, active, result, mem, heard, crashes>>

Told(s, what) == heard' = [heard EXCEPT ![s] = @ \union {what}]

\* Mutant: a duplicate is refused as long as there is no outcome to answer.
PreviousDecided(h) ==
    /\ at[h] = "previous"
    /\ IF outcome[mem[h].sub] = None THEN UNCHANGED heard
       ELSE Told(mem[h].sub, outcome[mem[h].sub])
    /\ End(h)
    /\ UNCHANGED <<claimed, outcome, recorded, rows, active, result, crashes>>

\* The answer to a duplicate: the outcome, if there is one yet.
Previous(h) ==
    /\ at[h] = "previous"
    /\ Told(mem[h].sub, outcome[mem[h].sub])
    /\ End(h)
    /\ UNCHANGED <<claimed, outcome, recorded, rows, active, result, crashes>>

Record(h) ==
    /\ at[h] = "record"
    /\ recorded' = [recorded EXCEPT ![mem[h].sub] = @ + 1]
    /\ Go(h, "targets")
    /\ UNCHANGED <<claimed, outcome, rows, active, result, mem, heard, crashes>>

Targets(h) ==
    /\ at[h] = "targets"
    /\ LET found == TargetsOf(Known(mem[h].sub)) IN
          /\ mem' = [mem EXCEPT ![h].todo = found]
          /\ Go(h, IF found = {} THEN "outcome" ELSE "load")
    /\ UNCHANGED <<claimed, outcome, recorded, rows, active, result, heard, crashes>>

\* applyCompletedSong loads one of the matches and writes its runs.
LoadTarget(h) ==
    /\ at[h] = "load" /\ h \in Requests
    /\ \E m \in {t[1] : t \in mem[h].todo} :
          LET who == {t[2] : t \in {u \in mem[h].todo : u[1] = m}} IN
          mem' = [mem EXCEPT ![h] = [@ EXCEPT
              !.match = m,
              !.named = {m} \X who,
              !.round = Scored(RoundOf(m), m, who, mem[h].sub),
              !.on = active[m],
              !.res = result[m],
              !.gone = {}]]
    /\ Go(h, "diff")
    /\ UNCHANGED <<claimed, outcome, recorded, rows, active, result, heard, crashes>>

-----------------------------------------------------------------------------
(* MatchStore.save.                                                        *)

\* The standings the handler has not deleted by the time it saves.
Kept(h) == {d \in rows : \A g \in mem[h].gone : ~Same(g, d)}

\* What TypeORM finds to write: rows it does not know, columns that differ,
\* and rows of the round that the match in memory does not have.
PlanOf(h) ==
    LET now   == Kept(h)
        m     == mem[h].match
        round == mem[h].round
    IN  [insert |-> {r \in round : \A d \in now : ~Same(r, d)},
         update |-> {u \in now \X round : Same(u[1], u[2]) /\ u[1] # u[2]},
         orphan |-> {d \in now : d.home = m /\ \A r \in round : ~Same(r, d)},
         active |-> {mem[h].on} \ {active[m]},
         result |-> {mem[h].res} \ {result[m]}]

Diff(h) ==
    /\ at[h] = "diff"
    /\ mem' = [mem EXCEPT ![h].plan = PlanOf(h)]
    /\ Go(h, "write")
    /\ UNCHANGED <<claimed, outcome, recorded, rows, active, result, heard, crashes>>

Changed(was, wanted, now) == IF was = wanted THEN now ELSE wanted

\* The row d as it is now, after the updates and the orphaning that h found.
Rewritten(h, d) ==
    LET ups == {u \in mem[h].plan.update : Same(u[1], d)}
        put == IF ups = {} THEN d
               ELSE LET u == CHOOSE u \in ups : TRUE IN
                    [d EXCEPT !.score  = Changed(u[1].score, u[2].score, d.score),
                              !.points = Changed(u[1].points, u[2].points, d.points),
                              !.home   = Changed(u[1].home, u[2].home, d.home)]
    IN  IF \E o \in mem[h].plan.orphan : Same(o, d) THEN [put EXCEPT !.home = None] ELSE put

\* An insert meets the row of another handler in the unique index.
Clashes(h) ==
    \/ \E r \in mem[h].plan.insert, d \in Kept(h) :
          Same(r, d) \/ (r.home = d.home /\ r.player = d.player)
    \/ \E u \in mem[h].plan.update, d \in Kept(h) :
          /\ u[1].home # u[2].home
          /\ ~Same(u[1], d) /\ d.home = u[2].home /\ d.player = d.player

\* The transaction is rolled back, the request answers 500.
WriteFails(h) ==
    /\ at[h] = "write" /\ Clashes(h)
    /\ End(h)
    /\ UNCHANGED <<claimed, outcome, recorded, rows, active, result, heard, crashes>>

Write(h) ==
    /\ at[h] = "write" /\ ~Clashes(h)
    /\ rows' = {Rewritten(h, d) : d \in Kept(h)} \union mem[h].plan.insert
    /\ LET m == mem[h].match IN
          /\ active' = [active EXCEPT ![m] = IF mem[h].plan.active = {} THEN @ ELSE mem[h].on]
          /\ result' = [result EXCEPT ![m] = IF mem[h].plan.result = {} THEN @ ELSE mem[h].res]
    /\ UNCHANGED <<claimed, outcome, recorded, heard, crashes>>
    /\ IF h \in Scorers THEN End(h)
       ELSE LET left == mem[h].todo \ mem[h].named IN
            /\ Go(h, IF left = {} THEN "outcome" ELSE "load")
            /\ mem' = [mem EXCEPT ![h] =
                  [Blank EXCEPT !.sub = mem[h].sub, !.todo = left,
                      !.applied = mem[h].applied \union {t[2] : t \in mem[h].named}]]

SaveOutcome(h) ==
    /\ at[h] = "outcome"
    /\ outcome' = [outcome EXCEPT ![mem[h].sub] = OutcomeOf(mem[h].sub, mem[h].applied)]
    /\ Go(h, "answer")
    /\ UNCHANGED <<claimed, recorded, rows, active, result, mem, heard, crashes>>

Answer(h) ==
    /\ at[h] = "answer"
    /\ Told(mem[h].sub, OutcomeOf(mem[h].sub, mem[h].applied))
    /\ End(h)
    /\ UNCHANGED <<claimed, outcome, recorded, rows, active, result, crashes>>

-----------------------------------------------------------------------------
(* Commands of scorers.                                                    *)

\* The match in memory after the command: h goes on to save it.
Holds(h, m, named, round, on, res, gone) ==
    /\ at[h] = "idle" /\ Cardinality(Busy) < AtOnce
    /\ mem' = [mem EXCEPT ![h] = [Blank EXCEPT
          !.match = m, !.named = named, !.round = round, !.on = on, !.res = res, !.gone = gone]]
    /\ Go(h, "diff")
    /\ UNCHANGED <<claimed, outcome, recorded, rows, active, result, heard, crashes>>

\* Mutant: a completed match can be scored.
ScoreAnyway(h, m, p) ==
    Holds(h, m, {<<m, p>>}, Scored(RoundOf(m), m, {p}, h), active[m], result[m], {})

Score(h, m, p) ==
    /\ result[m] = None
    /\ Holds(h, m, {<<m, p>>}, Scored(RoundOf(m), m, {p}, h), active[m], result[m], {})

RemoveStanding(h, m, p) ==
    /\ result[m] = None
    /\ LET gone == {r \in RoundOf(m) : r.player = p} IN
          Holds(h, m, {<<m, p>>}, Without(RoundOf(m), p), active[m], result[m], gone)

Commit(h, m) ==
    /\ Complete(RoundOf(m), m)
    /\ Holds(h, m, {}, RoundOf(m), FALSE, Scores(RoundOf(m)), {})

Reopen(h, m) == Holds(h, m, {}, RoundOf(m), FALSE, None, {})

Activate(h, m, on) ==
    /\ on => result[m] = None
    /\ Holds(h, m, {}, RoundOf(m), on, result[m], {})

Command(h) ==
    \E m \in Matches :
        \/ \E p \in Entrants[m] : Score(h, m, p) \/ RemoveStanding(h, m, p)
        \/ Commit(h, m) \/ Reopen(h, m)
        \/ \E on \in BOOLEAN : Activate(h, m, on)

-----------------------------------------------------------------------------

Crash ==
    /\ crashes < MaxCrashes
    /\ crashes' = crashes + 1
    /\ at' = [h \in Handlers |-> IF h \in Scorers /\ at[h] # "idle" THEN "done" ELSE "idle"]
    /\ mem' = [h \in Handlers |-> Blank]
    /\ UNCHANGED <<claimed, outcome, recorded, rows, active, result, heard>>

Init ==
    /\ claimed = {}
    /\ outcome = [s \in Submissions |-> None]
    /\ recorded = [s \in Submissions |-> 0]
    /\ rows = {}
    /\ active \in [Matches -> BOOLEAN]
    /\ result = [m \in Matches |-> None]
    /\ at = [h \in Handlers |-> "idle"]
    /\ mem = [h \in Handlers |-> Blank]
    /\ heard = [s \in Submissions |-> {}]
    /\ crashes = 0

Serve(h) ==
    \/ Claim(h) \/ Previous(h) \/ Record(h) \/ Targets(h) \/ LoadTarget(h)
    \/ Diff(h) \/ Write(h) \/ WriteFails(h) \/ SaveOutcome(h) \/ Answer(h)

Next ==
    \/ \E h \in Requests, s \in Submissions : Submit(h, s)
    \/ \E h \in Scorers : Command(h)
    \/ \E h \in Handlers : Serve(h)
    \/ Crash

\* A control room sends again what was not answered, and a request is served.
Resend(s) == heard[s] = {} /\ \E h \in Requests : Submit(h, s)

Fairness ==
    /\ \A h \in Handlers : WF_vars(Serve(h))
    /\ \A s \in Submissions : SF_vars(Resend(s))

Spec == Init /\ [][Next]_vars
FairSpec == Spec /\ Fairness

-----------------------------------------------------------------------------
(* Properties.                                                             *)

\* Every variable holds what the code stores in it.
TypeOK ==
    /\ claimed \in SUBSET Submissions
    /\ outcome \in [Submissions -> Outcomes \union {None}]
    /\ recorded \in [Submissions -> Nat]
    /\ rows \in SUBSET Standing
    /\ active \in [Matches -> BOOLEAN]
    /\ result \in [Matches -> Results]
    /\ at \in [Handlers -> Steps]
    /\ mem \in [Handlers -> Memory]
    /\ heard \in [Submissions -> SUBSET (Outcomes \union {None})]
    /\ crashes \in Nat

\* A report counts once however often it is sent and whatever dies, and its
\* outcome, once decided, is what everybody is told from then on.
Ledger == INSTANCE RunLedger WITH
    taken <- claimed, counted <- recorded, Nothing <- None
CountsOnce == Ledger!Spec

\* A save changes who has which score only where its command said so.
OthersStay ==
    \A r \in rows :
        \/ r.home = None
        \/ <<r.player, r.score>> \in Scores({d \in rows' : d.home = r.home})
        \/ \E h \in Handlers :
              at[h] = "write" /\ at'[h] # "write" /\ <<r.home, r.player>> \in mem[h].named

\* A result was made of the scores in the round, and its match is not played.
ResultIsOfTheRound ==
    \A m \in Matches :
        result[m] # None => result[m] = Scores(RoundOf(m)) /\ ~active[m]

\* Every report is answered in the end.
EveryReportIsAnswered == \A s \in Submissions : <>(heard[s] # {})
=============================================================================
