-------------------------- MODULE RunIngestProofs --------------------------
(***************************************************************************)
(* Proofs about RunIngest, for every set of players, submissions, matches, *)
(* requests and scorers: its variables hold what they should, reports      *)
(* implement RunLedger, and results and standings stand as long as saves   *)
(* take turns (RunIngestTurns).                                            *)
(***************************************************************************)
EXTENDS RunIngestTurns, TLAPS

-----------------------------------------------------------------------------
(* What the operators on rounds return.                                    *)

\* Writing scores into a round of standings leaves standings.
LEMMA ScoredIsRound ==
    ASSUME NEW round \in SUBSET Standing, NEW m \in Matches,
           NEW who \in SUBSET Players, NEW src \in Sources
    PROVE  Scored(round, m, who, src) \in SUBSET Standing
<1> DEFINE up == Upserted(round, m, who, src)
<1> DEFINE old == {r \in round : r.player \in who}
           new == {p \in who : \A r \in old : r.player # p}
<1>1. up \in SUBSET Standing
  <2>1. ASSUME NEW r \in Standing
        PROVE  [r EXCEPT !.score = src, !.points = {}] \in Standing
    BY DEF Standing
  <2>2. ASSUME NEW p \in Players
        PROVE  [by |-> src, player |-> p, score |-> src, points |-> {}, home |-> m] \in Standing
    BY DEF Standing
  <2>3. {[r EXCEPT !.score = src, !.points = {}] : r \in old} \in SUBSET Standing
    BY <2>1
  <2>4. {[by |-> src, player |-> p, score |-> src, points |-> {}, home |-> m] : p \in new}
            \in SUBSET Standing
    BY <2>2
  <2> QED
    BY <2>3, <2>4 DEF Upserted
<1>2. ASSUME NEW points \in SUBSET (Players \X Sources), NEW r \in Standing
      PROVE  [r EXCEPT !.points = points] \in Standing
    BY <1>2 DEF Standing
<1>3. Scores(up) \in SUBSET (Players \X Sources)
    BY <1>1 DEF Scores, Standing
<1>4. {[r EXCEPT !.points = Scores(up)] : r \in up} \in SUBSET Standing
    BY <1>1, <1>2, <1>3
<1>5. Ranked(up, m) \in SUBSET Standing
    BY <1>1, <1>4 DEF Ranked
<1> QED
    BY <1>5 DEF Scored

\* Taking players out of a round leaves standings.
LEMMA WithoutIsRound ==
    ASSUME NEW round \in SUBSET Standing, NEW p
    PROVE  Without(round, p) \in SUBSET Standing
BY DEF Without, Standing

\* An outcome says one of four things of every player.
LEMMA OutcomeOfIsOutcome ==
    ASSUME NEW s \in Submissions, NEW applied
    PROVE  OutcomeOf(s, applied) \in Outcomes
<1> DEFINE what(p) ==
        CASE p \notin RunsOf[s] -> "not reported"
          [] p \in RunsOf[s] \ Roster -> "unknown-player"
          [] p \in Known(s) \cap applied -> "applied"
          [] OTHER -> "no-waiting-round"
<1>1. ASSUME NEW p \in Players
      PROVE  what(p) \in {"unknown-player", "no-waiting-round", "applied", "not reported"}
    OBVIOUS
<1>2. OutcomeOf(s, applied) = [p \in Players |-> what(p)]
    BY DEF OutcomeOf
<1> HIDE DEF what
<1> QED
    BY <1>1, <1>2 DEF Outcomes

-----------------------------------------------------------------------------
(* What a handler finds and writes.                                        *)

\* A save finds rows, and values of its columns, to write.
LEMMA PlanOfIsPlan ==
    ASSUME TypeOK, NEW h \in Handlers, mem[h].match \in Matches
    PROVE  PlanOf(h) \in Plan
<1>1. /\ mem[h].round \in SUBSET Standing
      /\ mem[h].on \in BOOLEAN /\ mem[h].res \in Results
      /\ rows \in SUBSET Standing
    BY DEF TypeOK, Memory
<1> DEFINE now == Kept(h)
<1>0. now \in SUBSET Standing
    BY <1>1 DEF Kept
<1> HIDE DEF now
<1>2. {r \in mem[h].round : \A d \in now : ~Same(r, d)} \in SUBSET Standing
    BY <1>1
<1>3. {u \in now \X mem[h].round : Same(u[1], u[2]) /\ u[1] # u[2]}
          \in SUBSET (Standing \X Standing)
    BY <1>0, <1>1
<1>4. {d \in now : d.home = mem[h].match /\ \A r \in mem[h].round : ~Same(r, d)}
          \in SUBSET Standing
    BY <1>0, <1>1
<1>5. /\ {mem[h].on} \ {active[mem[h].match]} \in SUBSET BOOLEAN
      /\ {mem[h].res} \ {result[mem[h].match]} \in SUBSET Results
    BY <1>1
<1> QED
    BY <1>2, <1>3, <1>4, <1>5 DEF PlanOf, Plan, now

\* A row stays a standing when a save writes it.
LEMMA RewrittenIsStanding ==
    ASSUME TypeOK, NEW h \in Handlers, NEW d \in Standing
    PROVE  Rewritten(h, d) \in Standing
<1>1. mem[h].plan.update \in SUBSET (Standing \X Standing)
    BY DEF TypeOK, Memory, Plan
<1> DEFINE ups == {u \in mem[h].plan.update : Same(u[1], d)}
           u == CHOOSE x \in ups : TRUE
           put == IF ups = {} THEN d
                  ELSE [d EXCEPT !.score  = Changed(u[1].score, u[2].score, d.score),
                                 !.points = Changed(u[1].points, u[2].points, d.points),
                                 !.home   = Changed(u[1].home, u[2].home, d.home)]
<1>2. ups # {} => u \in Standing \X Standing
    BY <1>1
<1> HIDE DEF u
<1>3. put \in Standing
  <2>1. CASE ups = {}
    BY <2>1
  <2>2. CASE ups # {}
    <3>1. u[1] \in Standing /\ u[2] \in Standing
        BY <1>2, <2>2
    <3> QED
        BY <3>1, <2>2 DEF Standing, Changed
  <2> QED
    BY <2>1, <2>2
<1>4. [put EXCEPT !.home = None] \in Standing
    BY <1>3 DEF Standing
<1>5. Rewritten(h, d) = IF \E o \in mem[h].plan.orphan : Same(o, d)
                        THEN [put EXCEPT !.home = None] ELSE put
    BY DEF Rewritten, u
<1> QED
    BY <1>3, <1>4, <1>5

-----------------------------------------------------------------------------
(* Types.                                                                  *)

LEMMA BlankIsMemory ==
    Blank \in Memory
BY DEF Blank, NoPlan, Memory, Plan, Results

LEMMA InitTypes ==
    ASSUME Init
    PROVE  TypeOK
BY BlankIsMemory DEF Init, TypeOK, Results, Steps

\* Ending a handler keeps the memories and the steps well typed.
LEMMA EndTypes ==
    ASSUME TypeOK, NEW h \in Handlers, End(h)
    PROVE  at' \in [Handlers -> Steps] /\ mem' \in [Handlers -> Memory]
BY BlankIsMemory DEF End, Go, Steps, TypeOK

LEMMA ToldTypes ==
    ASSUME TypeOK, NEW s \in Submissions, NEW what \in Outcomes \union {None}, Told(s, what)
    PROVE  heard' \in [Submissions -> SUBSET (Outcomes \union {None})]
BY DEF Told, TypeOK

\* A scorer's command goes on with a match in memory.
LEMMA HoldsTypes ==
    ASSUME TypeOK, NEW h \in Handlers, NEW m \in Matches,
           NEW named \in SUBSET (Matches \X Players), NEW round \in SUBSET Standing,
           NEW on \in BOOLEAN, NEW res \in Results, NEW gone \in SUBSET Standing,
           Holds(h, m, named, round, on, res, gone)
    PROVE  TypeOK'
<1> DEFINE held == [Blank EXCEPT !.match = m, !.named = named, !.round = round,
                                 !.on = on, !.res = res, !.gone = gone]
<1>1. held \in Memory
    BY BlankIsMemory DEF Memory
<1>2. mem' \in [Handlers -> Memory] /\ at' \in [Handlers -> Steps]
    BY <1>1 DEF Holds, Go, Steps, TypeOK
<1> QED
    BY <1>2 DEF Holds, TypeOK

LEMMA CommandTypes ==
    ASSUME TypeOK, NEW h \in Scorers, Command(h)
    PROVE  TypeOK'
<1>1. PICK m \in Matches :
        \/ \E p \in Entrants[m] : Score(h, m, p) \/ RemoveStanding(h, m, p)
        \/ Commit(h, m) \/ Reopen(h, m)
        \/ \E on \in BOOLEAN : Activate(h, m, on)
    BY DEF Command
<1>2. /\ RoundOf(m) \in SUBSET Standing
      /\ active[m] \in BOOLEAN /\ result[m] \in Results
      /\ h \in Handlers /\ h \in Sources
      /\ {} \in SUBSET Standing /\ {} \in SUBSET (Matches \X Players)
      /\ None \in Results
    BY DEF TypeOK, RoundOf, Handlers, Sources, Results
<1>3. \A p \in Entrants[m] : p \in Players
    BY IngestAssumption
<1>4. ASSUME NEW p \in Entrants[m], Score(h, m, p)
      PROVE  TypeOK'
  <2>1. Scored(RoundOf(m), m, {p}, h) \in SUBSET Standing
    BY <1>2, <1>3, ScoredIsRound
  <2>2. {<<m, p>>} \in SUBSET (Matches \X Players)
    BY <1>3
  <2>3. Holds(h, m, {<<m, p>>}, Scored(RoundOf(m), m, {p}, h), active[m], result[m], {})
    BY <1>4 DEF Score
  <2> QED
    BY <1>2, <2>1, <2>2, <2>3, HoldsTypes
<1>5. ASSUME NEW p \in Entrants[m], RemoveStanding(h, m, p)
      PROVE  TypeOK'
  <2> DEFINE gone == {r \in RoundOf(m) : r.player = p}
  <2>1. Without(RoundOf(m), p) \in SUBSET Standing /\ gone \in SUBSET Standing
    BY <1>2, WithoutIsRound
  <2>2. {<<m, p>>} \in SUBSET (Matches \X Players)
    BY <1>3
  <2>3. Holds(h, m, {<<m, p>>}, Without(RoundOf(m), p), active[m], result[m], gone)
    BY <1>5 DEF RemoveStanding
  <2> HIDE DEF gone
  <2> QED
    BY <1>2, <2>1, <2>2, <2>3, HoldsTypes
<1>6. ASSUME Commit(h, m)
      PROVE  TypeOK'
  <2>1. Scores(RoundOf(m)) \in Results
    BY <1>2 DEF Scores, Standing, Results
  <2>2. Holds(h, m, {}, RoundOf(m), FALSE, Scores(RoundOf(m)), {})
    BY <1>6 DEF Commit
  <2> QED
    BY <1>2, <2>1, <2>2, HoldsTypes
<1>7. ASSUME Reopen(h, m)
      PROVE  TypeOK'
  <2>1. Holds(h, m, {}, RoundOf(m), FALSE, None, {})
    BY <1>7 DEF Reopen
  <2> QED
    BY <1>2, <2>1, HoldsTypes
<1>8. ASSUME NEW on \in BOOLEAN, Activate(h, m, on)
      PROVE  TypeOK'
    BY <1>2, <1>8, HoldsTypes DEF Activate
<1> QED
    BY <1>1, <1>4, <1>5, <1>6, <1>7, <1>8

-----------------------------------------------------------------------------
(* The inductive invariant: what the handlers have in hand, and where each *)
(* submission is.                                                          *)

Asking == {"claim", "previous"}
Counted == {"targets", "load", "diff", "write", "outcome"}
Working == {"record", "answer"} \union Counted

\* A report has its submission, a save its match.
InHand ==
    \A h \in Handlers :
        /\ at[h] \in Asking \union (Working \ {"diff", "write"}) => h \in Requests
        /\ h \in Requests /\ at[h] \in Asking \union Working => mem[h].sub \in Submissions
        /\ at[h] \in {"diff", "write"} => mem[h].match \in Matches

\* Nothing is known of a submission that nobody claimed.
Unclaimed ==
    \A s \in Submissions \ claimed : recorded[s] = 0 /\ outcome[s] = None

\* What the handler of a claimed submission has done about it so far.
Progress ==
    \A h \in Requests :
        /\ at[h] \in Working \union {"previous"} => mem[h].sub \in claimed
        /\ at[h] = "record" => recorded[mem[h].sub] = 0
        /\ at[h] \in Counted => recorded[mem[h].sub] = 1
        /\ at[h] \in Counted \union {"record"} => outcome[mem[h].sub] = None
        /\ at[h] = "answer" => outcome[mem[h].sub] = OutcomeOf(mem[h].sub, mem[h].applied)

\* A submission is in the hands of one handler.
Alone ==
    \A h, k \in Requests :
        at[h] \in Working /\ at[k] \in Working /\ mem[h].sub = mem[k].sub => h = k

IngestInv == TypeOK /\ InHand /\ Unclaimed /\ Progress /\ Alone

LEMMA InitInv ==
    ASSUME Init
    PROVE  IngestInv
<1>1. TypeOK
    BY InitTypes
<1>2. \A h \in Handlers : at[h] = "idle"
    BY DEF Init
<1> QED
    BY <1>1, <1>2 DEF IngestInv, InHand, Unclaimed, Progress, Alone, Init, Asking, Counted,
        Working, Handlers

-----------------------------------------------------------------------------
(* Types, step by step.                                                    *)

LEMMA WriteTypes ==
    ASSUME TypeOK, InHand, NEW h \in Handlers, Write(h)
    PROVE  TypeOK'
<1>1. /\ mem[h] \in Memory /\ mem[h].match \in Matches
      /\ rows \in SUBSET Standing /\ mem[h].plan \in Plan
    BY DEF TypeOK, InHand, Write, Memory
<1>2. rows' \in SUBSET Standing
  <2>1. \A d \in Kept(h) : Rewritten(h, d) \in Standing
    BY <1>1, RewrittenIsStanding DEF Kept
  <2>2. mem[h].plan.insert \in SUBSET Standing
    BY <1>1 DEF Plan
  <2> QED
    BY <2>1, <2>2 DEF Write
<1>3. active' \in [Matches -> BOOLEAN] /\ result' \in [Matches -> Results]
    BY <1>1 DEF Write, TypeOK, Memory
<1>4. at' \in [Handlers -> Steps] /\ mem' \in [Handlers -> Memory]
  <2>1. CASE h \in Scorers
    BY <2>1, EndTypes DEF Write
  <2>2. CASE h \notin Scorers
    <3> DEFINE left == mem[h].todo \ mem[h].named
               next == [Blank EXCEPT !.sub = mem[h].sub, !.todo = left,
                           !.applied = mem[h].applied \union {t[2] : t \in mem[h].named}]
    <3>1. left \in SUBSET (Matches \X Players)
        BY <1>1 DEF Memory
    <3>2. mem[h].applied \union {t[2] : t \in mem[h].named} \in SUBSET Players
        BY <1>1 DEF Memory
    <3>3. mem[h].sub \in Submissions \union {None}
        BY <1>1 DEF Memory
    <3>4. mem' = [mem EXCEPT ![h] = next] /\ Go(h, IF left = {} THEN "outcome" ELSE "load")
        BY <2>2 DEF Write
    <3> HIDE DEF left
    <3>5. next \in Memory
        BY <3>1, <3>2, <3>3, BlankIsMemory DEF Memory
    <3> QED
        BY <3>4, <3>5 DEF TypeOK, Go, Steps
  <2> QED
    BY <2>1, <2>2
<1> QED
    BY <1>2, <1>3, <1>4 DEF Write, TypeOK

LEMMA LoadTargetTypes ==
    ASSUME TypeOK, InHand, NEW h \in Handlers, LoadTarget(h)
    PROVE  TypeOK' /\ mem'[h].match \in Matches /\ mem'[h].sub = mem[h].sub
<1>1. mem[h] \in Memory /\ mem[h].sub \in Submissions /\ h \in Requests
    BY DEF TypeOK, InHand, LoadTarget, Asking, Working, Counted
<1> DEFINE who(m) == {t[2] : t \in {u \in mem[h].todo : u[1] = m}}
           next(m) == [mem[h] EXCEPT
                          !.match = m,
                          !.named = {m} \X who(m),
                          !.round = Scored(RoundOf(m), m, who(m), mem[h].sub),
                          !.on = active[m],
                          !.res = result[m],
                          !.gone = {}]
<1>2. PICK m \in {t[1] : t \in mem[h].todo} : mem' = [mem EXCEPT ![h] = next(m)]
    BY DEF LoadTarget
<1>3. m \in Matches /\ who(m) \in SUBSET Players
    BY <1>1, <1>2 DEF Memory
<1>4. /\ Scored(RoundOf(m), m, who(m), mem[h].sub) \in SUBSET Standing
      /\ active[m] \in BOOLEAN /\ result[m] \in Results
  <2>1. RoundOf(m) \in SUBSET Standing /\ mem[h].sub \in Sources
    BY <1>1 DEF RoundOf, TypeOK, Sources
  <2> HIDE DEF who
  <2> QED
    BY <1>3, <2>1, ScoredIsRound DEF TypeOK
<1>5. {m} \X who(m) \in SUBSET (Matches \X Players)
    BY <1>3
<1> HIDE DEF who
<1>6. next(m) \in Memory /\ next(m).match = m /\ next(m).sub = mem[h].sub
    BY <1>1, <1>3, <1>4, <1>5 DEF Memory
<1>7. mem' \in [Handlers -> Memory] /\ mem'[h] = next(m)
    BY <1>2, <1>6 DEF TypeOK
<1> HIDE DEF next
<1> QED
    BY <1>3, <1>6, <1>7 DEF LoadTarget, TypeOK, Go, Steps

LEMMA NextTypes ==
    ASSUME IngestInv, [Next]_vars
    PROVE  TypeOK'
<1> USE DEF IngestInv
<1>1. ASSUME NEW h \in Requests, NEW s \in Submissions, Submit(h, s)
      PROVE  TypeOK'
    BY <1>1 DEF Submit, TypeOK, Memory, Go, Steps, Handlers
<1>2. ASSUME NEW h \in Scorers, Command(h)
      PROVE  TypeOK'
    BY <1>2, CommandTypes DEF Handlers
<1>3. ASSUME NEW h \in Handlers, Claim(h)
      PROVE  TypeOK'
  <2>1. mem[h].sub \in Submissions
    BY <1>3 DEF Claim, InHand, Asking, Working
  <2> QED
    BY <1>3, <2>1 DEF Claim, TypeOK, Go, Steps
<1>4. ASSUME NEW h \in Handlers, Previous(h)
      PROVE  TypeOK'
  <2>1. mem[h].sub \in Submissions
    BY <1>4 DEF Previous, InHand, Asking, Working
  <2>2. outcome[mem[h].sub] \in Outcomes \union {None}
    BY <2>1 DEF TypeOK
  <2> QED
    BY <1>4, <2>1, <2>2, EndTypes, ToldTypes DEF Previous, TypeOK
<1>5. ASSUME NEW h \in Handlers, Record(h)
      PROVE  TypeOK'
  <2>1. mem[h].sub \in Submissions
    BY <1>5 DEF Record, InHand, Asking, Working
  <2> QED
    BY <1>5, <2>1 DEF Record, TypeOK, Go, Steps
<1>6. ASSUME NEW h \in Handlers, Targets(h)
      PROVE  TypeOK'
  <2> DEFINE found == TargetsOf(Known(mem[h].sub))
  <2>1. found \in SUBSET (Matches \X Players)
    BY IngestAssumption DEF TargetsOf, Known
  <2>2. /\ mem' = [mem EXCEPT ![h].todo = found]
        /\ Go(h, IF found = {} THEN "outcome" ELSE "load")
    BY <1>6 DEF Targets
  <2> HIDE DEF found
  <2>3. mem' \in [Handlers -> Memory]
    <3>1. mem[h] \in Memory
        BY DEF TypeOK
    <3>2. [mem[h] EXCEPT !.todo = found] \in Memory
        BY <2>1, <3>1 DEF Memory
    <3> QED
        BY <2>2, <3>2 DEF TypeOK
  <2>4. at' \in [Handlers -> Steps]
    BY <2>2 DEF TypeOK, Go, Steps
  <2> QED
    BY <1>6, <2>3, <2>4 DEF Targets, TypeOK
<1>7. ASSUME NEW h \in Handlers, LoadTarget(h)
      PROVE  TypeOK'
    BY <1>7, LoadTargetTypes
<1>8. ASSUME NEW h \in Handlers, Diff(h)
      PROVE  TypeOK'
  <2>1. PlanOf(h) \in Plan
    BY <1>8, PlanOfIsPlan DEF Diff, InHand
  <2>2. mem' \in [Handlers -> Memory]
    BY SMTT(40), <1>8, <2>1 DEF Diff, TypeOK, Memory
  <2> QED
    BY <1>8, <2>2 DEF Diff, TypeOK, Go, Steps
<1>9. ASSUME NEW h \in Handlers, Write(h)
      PROVE  TypeOK'
    BY <1>9, WriteTypes
<1>10. ASSUME NEW h \in Handlers, WriteFails(h)
       PROVE  TypeOK'
    BY <1>10, EndTypes DEF WriteFails, TypeOK
<1>11. ASSUME NEW h \in Handlers, SaveOutcome(h)
       PROVE  TypeOK'
  <2>1. mem[h].sub \in Submissions
    BY <1>11 DEF SaveOutcome, InHand, Asking, Working, Counted
  <2> QED
    BY <1>11, <2>1, OutcomeOfIsOutcome DEF SaveOutcome, TypeOK, Go, Steps
<1>12. ASSUME NEW h \in Handlers, Answer(h)
       PROVE  TypeOK'
  <2>1. mem[h].sub \in Submissions
    BY <1>12 DEF Answer, InHand, Asking, Working, Counted
  <2>2. OutcomeOf(mem[h].sub, mem[h].applied) \in Outcomes \union {None}
    BY <2>1, OutcomeOfIsOutcome
  <2> QED
    BY <1>12, <2>1, <2>2, EndTypes, ToldTypes DEF Answer, TypeOK
<1>13. CASE Crash
  <2>1. mem' \in [Handlers -> Memory] /\ at' \in [Handlers -> Steps]
    BY <1>13, BlankIsMemory DEF Crash, Steps
  <2> QED
    BY <1>13, <2>1 DEF Crash, TypeOK
<1>14. CASE UNCHANGED vars
    BY <1>14 DEF vars, TypeOK
<1> QED
    BY <1>1, <1>2, <1>3, <1>4, <1>5, <1>6, <1>7, <1>8, <1>9, <1>10, <1>11, <1>12, <1>13,
        <1>14 DEF Next, Serve

-----------------------------------------------------------------------------
(* The rest of the invariant, step by step.                                *)

Others(h) == \A k \in Handlers \ {h} : at'[k] = at[k] /\ mem'[k] = mem[k]

InvRest == InHand /\ Unclaimed /\ Progress /\ Alone

Claims == <<claimed, recorded, outcome>>

\* A step of h that leaves the submissions alone and goes on with what it has.
LEMMA StepInv ==
    ASSUME IngestInv, NEW h \in Handlers, Others(h), UNCHANGED Claims,
           \/ at'[h] \in {"idle", "done"}
           \/ at'[h] = "claim" /\ h \in Requests /\ mem'[h].sub \in Submissions
           \/ at'[h] = "diff" /\ h \notin Requests /\ mem'[h].match \in Matches
           \/ /\ at[h] \in Counted /\ at'[h] \in Counted
              /\ mem'[h].sub = mem[h].sub
              /\ at'[h] \notin {"diff", "write"} => h \in Requests
              /\ at'[h] \in {"diff", "write"} => mem'[h].match \in Matches
    PROVE  InvRest'
<1> USE DEF IngestInv, Others, Claims, Asking, Counted, Working, Handlers
<1>1. InHand'
    BY DEF InHand
<1>2. Unclaimed'
    BY DEF Unclaimed
<1>3. Progress'
    BY DEF Progress
<1>4. Alone'
    BY DEF Alone
<1> QED
    BY <1>1, <1>2, <1>3, <1>4 DEF InvRest

LEMMA EndOthers ==
    ASSUME TypeOK, NEW h \in Handlers, End(h)
    PROVE  Others(h) /\ at'[h] \in {"idle", "done"}
BY DEF End, Go, Others, TypeOK

LEMMA ClaimInv ==
    ASSUME IngestInv, NEW h \in Handlers, Claim(h)
    PROVE  InvRest'
<1> USE DEF IngestInv
<1>1. h \in Requests /\ mem[h].sub \in Submissions
    BY DEF Claim, InHand, Asking, Working
<1>2. /\ Others(h) /\ mem' = mem /\ outcome' = outcome /\ recorded' = recorded
      /\ claimed' = claimed \union {mem[h].sub}
      /\ at'[h] = IF mem[h].sub \in claimed THEN "previous" ELSE "record"
    BY DEF Claim, Go, Others, TypeOK
<1>3. InHand'
    BY <1>1, <1>2 DEF InHand, Others, Asking, Working, Counted, Handlers
<1>4. Unclaimed'
    BY <1>2 DEF Unclaimed
<1>5. Progress'
    BY <1>1, <1>2 DEF Progress, Unclaimed, Others, Working, Counted, Handlers
<1>6. Alone'
    BY <1>1, <1>2 DEF Alone, Progress, Others, Working, Counted, Handlers
<1> QED
    BY <1>3, <1>4, <1>5, <1>6 DEF InvRest

LEMMA RecordInv ==
    ASSUME IngestInv, NEW h \in Handlers, Record(h)
    PROVE  InvRest'
<1> USE DEF IngestInv
<1>1. h \in Requests /\ mem[h].sub \in Submissions /\ mem[h].sub \in claimed
    BY DEF Record, InHand, Progress, Asking, Working
<1>2. /\ Others(h) /\ mem' = mem /\ outcome' = outcome /\ claimed' = claimed
      /\ recorded' = [recorded EXCEPT ![mem[h].sub] = recorded[mem[h].sub] + 1]
      /\ at[h] = "record" /\ at'[h] = "targets"
    BY DEF Record, Go, Others, TypeOK
<1>3. InHand'
    BY <1>1, <1>2 DEF InHand, Others, Asking, Working, Counted, Handlers
<1>4. Unclaimed'
    BY <1>1, <1>2 DEF Unclaimed, TypeOK
<1>5. Alone'
    BY <1>1, <1>2 DEF Alone, Others, Working, Counted, Handlers
<1>6. ASSUME NEW k \in Requests
      PROVE  /\ at'[k] \in Working \union {"previous"} => mem'[k].sub \in claimed'
             /\ at'[k] = "record" => recorded'[mem'[k].sub] = 0
             /\ at'[k] \in Counted => recorded'[mem'[k].sub] = 1
             /\ at'[k] \in Counted \union {"record"} => outcome'[mem'[k].sub] = None
             /\ at'[k] = "answer" => outcome'[mem'[k].sub] = OutcomeOf(mem'[k].sub, mem'[k].applied)
  <2>1. CASE k = h
    BY <1>1, <1>2, <2>1 DEF Progress, TypeOK, Counted, Working
  <2>2. CASE k # h
    <3>1. at'[k] = at[k]
        BY <1>2, <2>2 DEF Others, Handlers
    <3>2. at[k] \in Working => mem[k].sub # mem[h].sub
        BY <1>1, <1>2, <2>2 DEF Alone, Working
    <3>3. at[k] \in Working => recorded'[mem[k].sub] = recorded[mem[k].sub]
        BY <1>2, <3>2 DEF TypeOK, InHand, Handlers
    <3> QED
        BY <1>2, <3>1, <3>3 DEF Progress, Working, Counted
  <2> QED
    BY <2>1, <2>2
<1>7. Progress'
    BY <1>6 DEF Progress
<1> QED
    BY <1>3, <1>4, <1>5, <1>7 DEF InvRest

LEMMA SaveOutcomeInv ==
    ASSUME IngestInv, NEW h \in Handlers, SaveOutcome(h)
    PROVE  InvRest'
<1> USE DEF IngestInv
<1>1. h \in Requests /\ mem[h].sub \in Submissions /\ mem[h].sub \in claimed
    BY DEF SaveOutcome, InHand, Progress, Asking, Working, Counted
<1>2. /\ Others(h) /\ mem' = mem /\ recorded' = recorded /\ claimed' = claimed
      /\ outcome' = [outcome EXCEPT ![mem[h].sub] = OutcomeOf(mem[h].sub, mem[h].applied)]
      /\ at[h] = "outcome" /\ at'[h] = "answer"
    BY DEF SaveOutcome, Go, Others, TypeOK
<1>3. InHand'
    BY <1>1, <1>2 DEF InHand, Others, Asking, Working, Counted, Handlers
<1>4. Unclaimed'
    BY <1>1, <1>2 DEF Unclaimed, TypeOK
<1>5. Alone'
    BY <1>1, <1>2 DEF Alone, Others, Working, Counted, Handlers
<1>6. ASSUME NEW k \in Requests
      PROVE  /\ at'[k] \in Working \union {"previous"} => mem'[k].sub \in claimed'
             /\ at'[k] = "record" => recorded'[mem'[k].sub] = 0
             /\ at'[k] \in Counted => recorded'[mem'[k].sub] = 1
             /\ at'[k] \in Counted \union {"record"} => outcome'[mem'[k].sub] = None
             /\ at'[k] = "answer" => outcome'[mem'[k].sub] = OutcomeOf(mem'[k].sub, mem'[k].applied)
  <2>1. CASE k = h
    BY <1>1, <1>2, <2>1 DEF Progress, TypeOK, Counted, Working
  <2>2. CASE k # h
    <3>1. at'[k] = at[k]
        BY <1>2, <2>2 DEF Others, Handlers
    <3>2. at[k] \in Working => mem[k].sub # mem[h].sub
        BY <1>1, <1>2, <2>2 DEF Alone, Working, Counted
    <3>3. at[k] \in Working => outcome'[mem[k].sub] = outcome[mem[k].sub]
        BY <1>2, <3>2 DEF TypeOK, InHand, Handlers
    <3> QED
        BY <1>2, <3>1, <3>3 DEF Progress, Working, Counted
  <2> QED
    BY <2>1, <2>2
<1>7. Progress'
    BY <1>6 DEF Progress
<1> QED
    BY <1>3, <1>4, <1>5, <1>7 DEF InvRest

LEMMA NextRest ==
    ASSUME IngestInv, [Next]_vars
    PROVE  InvRest'
<1> USE DEF IngestInv
<1>1. ASSUME NEW h \in Requests, NEW s \in Submissions, Submit(h, s)
      PROVE  InvRest'
  <2>1. mem' = [mem EXCEPT ![h] = [mem[h] EXCEPT !.sub = s]] /\ mem[h] \in Memory
    BY <1>1 DEF Submit, TypeOK, Handlers
  <2>2. at'[h] = "claim" /\ mem'[h].sub = s /\ Others(h) /\ UNCHANGED Claims /\ h \in Handlers
    BY <1>1, <2>1 DEF Submit, Go, Others, Claims, TypeOK, Memory, Handlers
  <2> QED
    BY <1>1, <2>2, StepInv
<1>2. ASSUME NEW h \in Scorers, Command(h)
      PROVE  InvRest'
  <2> PICK m \in Matches :
          \E named, round, on, res, gone : Holds(h, m, named, round, on, res, gone)
    BY <1>2 DEF Command, Score, RemoveStanding, Commit, Reopen, Activate
  <2>1. PICK named, round, on, res, gone : Holds(h, m, named, round, on, res, gone)
    OBVIOUS
  <2>2. /\ at'[h] = "diff" /\ mem'[h].match = m /\ Others(h) /\ UNCHANGED Claims
        /\ h \in Handlers /\ h \notin Requests
    BY <2>1, IngestAssumption DEF Holds, Go, Others, Claims, TypeOK, Handlers, Blank
  <2> QED
    BY <2>2, StepInv
<1>3. ASSUME NEW h \in Handlers, Claim(h)
      PROVE  InvRest'
    BY <1>3, ClaimInv
<1>4. ASSUME NEW h \in Handlers, Previous(h) \/ Answer(h) \/ WriteFails(h)
      PROVE  InvRest'
  <2>1. Others(h) /\ at'[h] \in {"idle", "done"} /\ UNCHANGED Claims
    BY <1>4, EndOthers DEF Previous, Answer, WriteFails, Claims
  <2> QED
    BY <2>1, StepInv
<1>5. ASSUME NEW h \in Handlers, Record(h)
      PROVE  InvRest'
    BY <1>5, RecordInv
<1>6. ASSUME NEW h \in Handlers, Targets(h)
      PROVE  InvRest'
  <2>1. at[h] = "targets" /\ at'[h] \in {"outcome", "load"} /\ h \in Requests
    BY <1>6 DEF Targets, Go, TypeOK, InHand, Asking, Working, Counted
  <2>2. mem'[h].sub = mem[h].sub /\ Others(h) /\ UNCHANGED Claims
    BY <1>6 DEF Targets, Go, TypeOK, Others, Claims, Memory
  <2> QED
    BY <2>1, <2>2, StepInv DEF Counted
<1>7. ASSUME NEW h \in Handlers, LoadTarget(h)
      PROVE  InvRest'
  <2>1. mem'[h].match \in Matches /\ mem'[h].sub = mem[h].sub
    BY <1>7, LoadTargetTypes
  <2>2. at[h] = "load" /\ at'[h] = "diff" /\ Others(h) /\ UNCHANGED Claims
    BY <1>7 DEF LoadTarget, Go, TypeOK, Others, Claims
  <2> QED
    BY <2>1, <2>2, StepInv DEF Counted
<1>8. ASSUME NEW h \in Handlers, Diff(h)
      PROVE  InvRest'
  <2>1. /\ at[h] = "diff" /\ at'[h] = "write" /\ Others(h) /\ UNCHANGED Claims
        /\ mem'[h].sub = mem[h].sub /\ mem'[h].match = mem[h].match /\ mem[h].match \in Matches
    BY <1>8 DEF Diff, Go, TypeOK, Others, Claims, Memory, InHand
  <2> QED
    BY <2>1, StepInv DEF Counted
<1>9. ASSUME NEW h \in Handlers, Write(h)
      PROVE  InvRest'
  <2>1. UNCHANGED Claims /\ at[h] = "write"
    BY <1>9 DEF Write, Claims
  <2>2. CASE h \in Scorers
    BY <1>9, <2>1, <2>2, EndOthers, StepInv DEF Write
  <2>3. CASE h \notin Scorers
    <3>1. h \in Requests
        BY <2>3 DEF Handlers
    <3>2. at'[h] \in {"outcome", "load"} /\ mem'[h].sub = mem[h].sub /\ Others(h)
        BY <1>9, <2>3 DEF Write, Go, TypeOK, Others, Blank
    <3> QED
        BY <2>1, <3>1, <3>2, StepInv DEF Counted
  <2> QED
    BY <2>2, <2>3
<1>10. ASSUME NEW h \in Handlers, SaveOutcome(h)
       PROVE  InvRest'
    BY <1>10, SaveOutcomeInv
<1>11. CASE Crash
  <2>1. \A h \in Handlers : at'[h] \in {"idle", "done"}
    BY <1>11 DEF Crash
  <2>2. UNCHANGED Claims
    BY <1>11 DEF Crash, Claims
  <2> QED
    BY <2>1, <2>2 DEF InvRest, InHand, Unclaimed, Progress, Alone, Claims, Asking, Working,
        Counted, Handlers
<1>12. CASE UNCHANGED vars
    BY <1>12 DEF vars, InvRest, InHand, Unclaimed, Progress, Alone
<1> QED
    BY <1>1, <1>2, <1>3, <1>4, <1>5, <1>6, <1>7, <1>8, <1>9, <1>10, <1>11, <1>12 DEF Next, Serve

\* The inductive invariant: a handler past its claim works on a claimed
\* submission nobody else works on, and one not claimed yet left no trace.
THEOREM InvHolds == Spec => []IngestInv
<1>1. Init => IngestInv
    BY InitInv
<1>2. IngestInv /\ [Next]_vars => IngestInv'
    BY NextTypes, NextRest DEF IngestInv, InvRest
<1> QED
    BY <1>1, <1>2, PTL DEF Spec

\* Every variable of RunIngest always holds what the code stores in it.
THEOREM IngestTypes == Spec => []TypeOK
BY InvHolds, PTL DEF IngestInv

-----------------------------------------------------------------------------
(* Refinement.                                                             *)

LEMMA StutterOnLedger ==
    ASSUME UNCHANGED <<claimed, recorded, outcome, heard>>
    PROVE  UNCHANGED Ledger!lvars
BY DEF Ledger!lvars

\* Every step is a step of the ledger or leaves it alone.
LEMMA StepOfLedger ==
    ASSUME IngestInv, [Next]_vars
    PROVE  [Ledger!Next]_(Ledger!lvars)
<1> USE DEF IngestInv
<1>1. ASSUME NEW h \in Requests, NEW s \in Submissions, Submit(h, s)
      PROVE  UNCHANGED Ledger!lvars
    BY <1>1, StutterOnLedger DEF Submit
<1>2. ASSUME NEW h \in Scorers, Command(h)
      PROVE  UNCHANGED Ledger!lvars
    BY <1>2, StutterOnLedger
    DEF Command, Score, RemoveStanding, Commit, Reopen, Activate, Holds
<1>3. ASSUME NEW h \in Handlers, Claim(h)
      PROVE  Ledger!Next \/ UNCHANGED Ledger!lvars
  <2>1. mem[h].sub \in Submissions
    BY <1>3 DEF Claim, InHand, Asking, Working
  <2>2. CASE mem[h].sub \in claimed
    BY <1>3, <2>2, StutterOnLedger DEF Claim
  <2>3. CASE mem[h].sub \notin claimed
    <3>1. Ledger!Take(mem[h].sub)
        BY <1>3, <2>3 DEF Claim, Ledger!Take
    <3> QED
        BY <2>1, <3>1 DEF Ledger!Next
  <2> QED
    BY <2>2, <2>3
<1>4. ASSUME NEW h \in Handlers, Previous(h)
      PROVE  Ledger!Next
  <2>1. mem[h].sub \in Submissions /\ h \in Requests
    BY <1>4 DEF Previous, InHand, Asking, Working
  <2>2. mem[h].sub \in claimed
    BY <1>4, <2>1 DEF Previous, Progress
  <2>3. Ledger!Tell(mem[h].sub)
    BY <1>4, <2>2 DEF Previous, Told, Ledger!Tell
  <2> QED
    BY <2>1, <2>3 DEF Ledger!Next
<1>5. ASSUME NEW h \in Handlers, Record(h)
      PROVE  Ledger!Next
  <2>1. mem[h].sub \in Submissions /\ h \in Requests
    BY <1>5 DEF Record, InHand, Asking, Working
  <2>2. mem[h].sub \in claimed /\ recorded[mem[h].sub] = 0
    BY <1>5, <2>1 DEF Record, Progress, Working
  <2>3. Ledger!Count(mem[h].sub)
    BY <1>5, <2>2 DEF Record, Ledger!Count
  <2> QED
    BY <2>1, <2>3 DEF Ledger!Next
<1>6. ASSUME NEW h \in Handlers, Targets(h) \/ LoadTarget(h) \/ Diff(h) \/ Write(h) \/ WriteFails(h)
      PROVE  UNCHANGED Ledger!lvars
    BY <1>6, StutterOnLedger DEF Targets, LoadTarget, Diff, Write, WriteFails
<1>7. ASSUME NEW h \in Handlers, SaveOutcome(h)
      PROVE  Ledger!Next
  <2>1. mem[h].sub \in Submissions /\ h \in Requests
    BY <1>7 DEF SaveOutcome, InHand, Asking, Working, Counted
  <2>2. recorded[mem[h].sub] = 1 /\ outcome[mem[h].sub] = None
    BY <1>7, <2>1 DEF SaveOutcome, Progress, Counted
  <2>3. OutcomeOf(mem[h].sub, mem[h].applied) \in Outcomes
    BY <2>1, OutcomeOfIsOutcome
  <2>4. Ledger!Decide(mem[h].sub)
    BY <1>7, <2>2, <2>3 DEF SaveOutcome, Ledger!Decide
  <2> QED
    BY <2>1, <2>4 DEF Ledger!Next
<1>8. ASSUME NEW h \in Handlers, Answer(h)
      PROVE  Ledger!Next
  <2>1. mem[h].sub \in Submissions /\ h \in Requests
    BY <1>8 DEF Answer, InHand, Asking, Working, Counted
  <2>2. /\ mem[h].sub \in claimed
        /\ outcome[mem[h].sub] = OutcomeOf(mem[h].sub, mem[h].applied)
    BY <1>8, <2>1 DEF Answer, Progress, Working
  <2>3. Ledger!Tell(mem[h].sub)
    BY <1>8, <2>2 DEF Answer, Told, Ledger!Tell
  <2> QED
    BY <2>1, <2>3 DEF Ledger!Next
<1>9. CASE Crash
    BY <1>9, StutterOnLedger DEF Crash
<1>10. CASE UNCHANGED vars
    BY <1>10, StutterOnLedger DEF vars
<1> QED
    BY <1>1, <1>2, <1>3, <1>4, <1>5, <1>6, <1>7, <1>8, <1>9, <1>10 DEF Next, Serve

\* Reports implement RunLedger: whatever is resent, interleaved or killed, a
\* submission counts at most once and everybody is told the same outcome.
THEOREM IngestImplementsLedger == Spec => CountsOnce
<1>1. Init => Ledger!Init
    BY DEF Init, Ledger!Init
<1>2. IngestInv /\ [Next]_vars => [Ledger!Next]_(Ledger!lvars)
    BY StepOfLedger
<1> QED
    BY <1>1, <1>2, InvHolds, PTL DEF Spec, CountsOnce, Ledger!Spec

-----------------------------------------------------------------------------
(* Turns at the desk: what holds while handlers follow one another.        *)

\* The rows of S are told apart by their ids.
Apart(S) == \A r, d \in S : Same(r, d) => r = d

\* The source of r was handled before now.
Fresh(r) ==
    /\ r.by \in Submissions => r.by \in claimed
    /\ r.by \in Scorers => at[r.by] # "idle"

\* A match in memory that may be saved: its round goes over the round of m,
\* standing by standing, except for those named and gone.
Fit(m, named, round, on, res, gone) ==
    /\ Apart(round) /\ \A r \in round : r.home = m
    /\ gone \subseteq RoundOf(m)
    /\ \A d \in RoundOf(m) \ gone : \E r \in round : Same(r, d)
    /\ \A r \in round, d \in rows : Same(r, d) => d \in RoundOf(m) \ gone
    /\ \A d \in RoundOf(m) :
          <<m, d.player>> \in named \/ \E r \in round : r.player = d.player /\ r.score = d.score
    /\ res # None => res = Scores(round) /\ ~on

\* The runs still to be written are of one match each, which is played, and
\* none of S was made for them.
Pending(todo, sub, S) ==
    /\ \A t, u \in todo : t[2] = u[2] => t = u
    /\ \A t \in todo : active[t[1]] /\ \A d \in S : ~(d.by = sub /\ d.player = t[2])

OneAtATime == \A h, k \in Handlers : InProgress(h) /\ InProgress(k) => h = k

\* What the handler in turn has found so far.
InTurn(h) ==
    /\ at[h] \in {"record", "targets"} => \A d \in rows : d.by # mem[h].sub
    /\ at[h] = "load" => Pending(mem[h].todo, mem[h].sub, rows)
    /\ at[h] \in {"diff", "write"} =>
          /\ Fit(mem[h].match, mem[h].named, mem[h].round, mem[h].on, mem[h].res, mem[h].gone)
          /\ \A r \in mem[h].round : Fresh(r)
          /\ h \in Requests =>
                /\ \A t \in mem[h].todo \ mem[h].named : t[1] # mem[h].match
                /\ Pending(mem[h].todo \ mem[h].named, mem[h].sub, rows \union mem[h].round)
    /\ at[h] = "write" => mem[h].plan = PlanOf(h)

DeskInv ==
    /\ OneAtATime /\ ResultIsOfTheRound
    /\ Apart(rows) /\ \A d \in rows : Fresh(d)
    /\ \A h \in Handlers : InTurn(h)

TurnInv == setting = "desk" => DeskInv

-----------------------------------------------------------------------------
(* What scoring, removing and saving do to a round.                        *)

\* S is the round with the players in who scored by src: every row of the
\* round is there again, by its id, and the others are new.
Goes(round, S, m, who, src) ==
    /\ Apart(S) /\ \A r \in S : r.home = m
    /\ \A d \in round : \E r \in S : Same(r, d)
    /\ \A d \in round : d.player \in who \/ \E r \in S : r.player = d.player /\ r.score = d.score
    /\ \A r \in S : (\E d \in round : Same(r, d)) \/ (r.by = src /\ r.player \in who)

\* Writing scores into a round keeps its rows.
LEMMA UpsertedGoes ==
    ASSUME NEW round \in SUBSET Standing, Apart(round), NEW m \in Matches,
           \A r \in round : r.home = m,
           NEW who \in SUBSET Players, NEW src \in Sources
    PROVE  /\ Upserted(round, m, who, src) \in SUBSET Standing
           /\ Goes(round, Upserted(round, m, who, src), m, who, src)
<1> DEFINE old == {r \in round : r.player \in who}
           new == {p \in who : \A r \in old : r.player # p}
           again == {[r EXCEPT !.score = src, !.points = {}] : r \in old}
           first == {[by |-> src, player |-> p, score |-> src, points |-> {}, home |-> m]
                        : p \in new}
           up == Upserted(round, m, who, src)
<1>1. up = (round \ old) \union again \union first
  BY DEF Upserted
<1>2. \A r \in again : /\ r \in Standing /\ r.home = m /\ r.player \in who
                       /\ \E d \in old : Same(r, d) /\ r = [d EXCEPT !.score = src, !.points = {}]
  BY ZenonT(40) DEF Standing, Same
<1>3. ASSUME NEW d \in old
      PROVE  \E r \in again : Same(r, d)
  <2>1. [d EXCEPT !.score = src, !.points = {}] \in again
    OBVIOUS
  <2>2. Same([d EXCEPT !.score = src, !.points = {}], d)
    BY DEF Standing, Same
  <2> QED
    BY <2>1, <2>2
<1>4. \A r \in first : r \in Standing /\ r.home = m /\ r.by = src /\ r.player \in new
  BY DEF Standing
<1>5. \A r, t \in first : r.player = t.player => r = t
  OBVIOUS
<1>6. \A r \in old : r \in round /\ r.player \in who
  OBVIOUS
<1>7. \A r \in round \ old : r \in round /\ r.player \notin who
  OBVIOUS
<1>8. new \subseteq who /\ \A p \in new : \A r \in old : r.player # p
  OBVIOUS
<1>9. ASSUME NEW r \in again, NEW t \in again, Same(r, t)
      PROVE  r = t
  <2>1. PICK d \in old : Same(r, d) /\ r = [d EXCEPT !.score = src, !.points = {}]
    BY <1>2
  <2>2. PICK e \in old : Same(t, e) /\ t = [e EXCEPT !.score = src, !.points = {}]
    BY <1>2
  <2>3. Same(d, e) /\ d \in round /\ e \in round
    BY <1>9, <2>1, <2>2 DEF Same
  <2>4. d = e
    BY <2>3 DEF Apart
  <2> QED
    BY <2>1, <2>2, <2>4
<1> HIDE DEF old, new, again, first
<1>10. up \in SUBSET Standing /\ \A r \in up : r.home = m
  BY <1>1, <1>2, <1>4
<1>11. Apart(up)
  <2>1. \A r \in round \ old, t \in again \union first : ~Same(r, t)
    BY <1>2, <1>4, <1>7, <1>8 DEF Same
  <2>2. ASSUME NEW r \in again, NEW t \in first
        PROVE  ~Same(r, t)
    <3>1. PICK d \in old : Same(r, d)
      BY <1>2
    <3>2. d.player # t.player
      BY <1>4, <1>8
    <3> QED
      BY <3>1, <3>2 DEF Same
  <2>3. \A r, t : Same(r, t) <=> Same(t, r)
    BY DEF Same
  <2> QED
    BY <1>1, <1>5, <1>7, <1>9, <2>1, <2>2, <2>3 DEF Apart, Same
<1>12. \A d \in round : \E r \in up : Same(r, d)
  BY <1>1, <1>3 DEF Same
<1>13. \A d \in round : d.player \in who \/ \E r \in up : r.player = d.player /\ r.score = d.score
  BY <1>1, <1>6
<1>14. \A r \in up : (\E d \in round : Same(r, d)) \/ (r.by = src /\ r.player \in who)
  BY <1>1, <1>2, <1>4, <1>6, <1>7, <1>8 DEF Same
<1> QED
  BY <1>10, <1>11, <1>12, <1>13, <1>14 DEF Goes

\* Giving every standing the same points keeps ids, scores and homes.
LEMMA RankedGoes ==
    ASSUME NEW round, NEW S \in SUBSET Standing, NEW m \in Matches,
           NEW who, NEW src, Goes(round, S, m, who, src)
    PROVE  Goes(round, Ranked(S, m), m, who, src)
<1>1. CASE ~Complete(S, m)
  BY <1>1 DEF Ranked
<1>2. CASE Complete(S, m)
  <2> DEFINE all == Scores(S)
             ranked == {[r EXCEPT !.points = all] : r \in S}
  <2>1. Ranked(S, m) = ranked
    BY <1>2 DEF Ranked
  <2> HIDE DEF all
  <2>2. \A r \in ranked : \E d \in S : r = [d EXCEPT !.points = all] /\ Same(r, d)
                                       /\ r.home = d.home /\ r.score = d.score
    BY DEF Standing, Same
  <2>3. ASSUME NEW d \in S
        PROVE  \E r \in ranked : Same(r, d) /\ r.score = d.score
    <3>1. [d EXCEPT !.points = all] \in ranked
      OBVIOUS
    <3>2. /\ Same([d EXCEPT !.points = all], d)
          /\ [d EXCEPT !.points = all].score = d.score
      BY DEF Standing, Same
    <3> QED
      BY <3>1, <3>2
  <2> HIDE DEF ranked
  <2>4. Apart(ranked)
    BY <2>2 DEF Goes, Apart, Same
  <2>5. \A r \in ranked : r.home = m
    BY <2>2 DEF Goes
  <2>6. \A d \in round : \E r \in ranked : Same(r, d)
    BY <2>3 DEF Goes, Same
  <2>7. \A d \in round :
            d.player \in who \/ \E r \in ranked : r.player = d.player /\ r.score = d.score
    BY <2>3 DEF Goes, Same
  <2>8. \A r \in ranked : (\E d \in round : Same(r, d)) \/ (r.by = src /\ r.player \in who)
    BY <2>2 DEF Goes, Same
  <2> QED
    BY <2>1, <2>4, <2>5, <2>6, <2>7, <2>8 DEF Goes
<1> QED
  BY <1>1, <1>2

LEMMA ScoredGoes ==
    ASSUME NEW round \in SUBSET Standing, Apart(round), NEW m \in Matches,
           \A r \in round : r.home = m,
           NEW who \in SUBSET Players, NEW src \in Sources
    PROVE  Goes(round, Scored(round, m, who, src), m, who, src)
BY UpsertedGoes, RankedGoes DEF Scored

\* A scored round may be saved over the one it was made of, as long as the
\* source has no standing yet for those it scores.
LEMMA ScoredFits ==
    ASSUME TypeOK, Apart(rows), NEW m \in Matches, NEW who \in SUBSET Players,
           NEW src \in Sources, \A d \in rows : ~(d.by = src /\ d.player \in who),
           NEW named, \A p \in who : <<m, p>> \in named, NEW on
    PROVE  Fit(m, named, Scored(RoundOf(m), m, who, src), on, None, {})
<1> DEFINE S == Scored(RoundOf(m), m, who, src)
<1>1. RoundOf(m) \in SUBSET Standing /\ Apart(RoundOf(m)) /\ \A r \in RoundOf(m) : r.home = m
  BY DEF TypeOK, RoundOf, Apart
<1>2. Goes(RoundOf(m), S, m, who, src)
  BY <1>1, ScoredGoes
<1> HIDE DEF S
<1>3. \A r \in S, d \in rows : Same(r, d) => d \in RoundOf(m)
  <2> SUFFICES ASSUME NEW r \in S, NEW d \in rows, Same(r, d)
               PROVE  d \in RoundOf(m)
    OBVIOUS
  <2>1. \E e \in RoundOf(m) : Same(r, e)
    BY <1>2 DEF Goes, Same
  <2> QED
    BY <2>1 DEF Apart, Same, RoundOf
<1>4. Fit(m, named, S, on, None, {})
  BY <1>2, <1>3 DEF Fit, Goes
<1> QED
  BY <1>4 DEF S

\* So may a round without the standing of one player, which is deleted.
LEMMA WithoutFits ==
    ASSUME TypeOK, Apart(rows), NEW m \in Matches, NEW p \in Players, NEW on
    PROVE  Fit(m, {<<m, p>>}, Without(RoundOf(m), p), on, None, {r \in RoundOf(m) : r.player = p})
<1> DEFINE round == RoundOf(m)
           gone == {r \in round : r.player = p}
           S == Without(round, p)
<1>1. round \in SUBSET Standing /\ Apart(round) /\ \A r \in round : r.home = m /\ r \in rows
  BY DEF TypeOK, RoundOf, Apart
<1>2. CASE gone = {}
  <2>1. S = round /\ \A r \in round : r.player # p
    BY <1>2 DEF Without
  <2>2. \A r \in round, d \in rows : Same(r, d) => d \in round
    BY <1>1 DEF Apart, Same
  <2> QED
    BY <1>1, <1>2, <2>1, <2>2 DEF Fit, Same
<1>3. CASE gone # {}
  <2>1. S = {[r EXCEPT !.points = {}] : r \in {d \in round : d.player # p}}
    BY <1>3 DEF Without
  <2>2. \A r \in S : \E d \in round : /\ r = [d EXCEPT !.points = {}] /\ Same(r, d)
                                      /\ r.home = m /\ r.score = d.score /\ d \notin gone
    BY <1>1, <2>1 DEF Standing, Same
  <2>3. ASSUME NEW d \in round \ gone
        PROVE  \E r \in S : Same(r, d) /\ r.score = d.score
    <3>1. [d EXCEPT !.points = {}] \in S
      BY <2>1
    <3>2. /\ Same([d EXCEPT !.points = {}], d)
          /\ [d EXCEPT !.points = {}].score = d.score
      BY <1>1 DEF Standing, Same
    <3> QED
      BY <3>1, <3>2
  <2> HIDE DEF S
  <2>4. Apart(S)
    <3> SUFFICES ASSUME NEW r \in S, NEW t \in S, Same(r, t)
                 PROVE  r = t
      BY DEF Apart
    <3>1. PICK d \in round : r = [d EXCEPT !.points = {}] /\ Same(r, d)
      BY <2>2
    <3>2. PICK e \in round : t = [e EXCEPT !.points = {}] /\ Same(t, e)
      BY <2>2
    <3>3. Same(d, e)
      BY <3>1, <3>2 DEF Same
    <3>4. d = e
      BY <1>1, <3>3 DEF Apart
    <3> QED
      BY <3>1, <3>2, <3>4
  <2>5. \A r \in S, d \in rows : Same(r, d) => d \in round \ gone
    BY <1>1, <2>2 DEF Apart, Same
  <2>6. \A d \in round : <<m, d.player>> \in {<<m, p>>}
                         \/ \E r \in S : r.player = d.player /\ r.score = d.score
    BY <2>3 DEF Same
  <2>7. gone \subseteq round
    OBVIOUS
  <2>8. \A r \in S : r.home = m
    BY <2>2
  <2>9. \A d \in round \ gone : \E r \in S : Same(r, d)
    BY <2>3
  <2> HIDE DEF gone, round
  <2>10. Fit(m, {<<m, p>>}, S, on, None, gone)
    BY <2>4, <2>5, <2>6, <2>7, <2>8, <2>9 DEF Fit, round
  <2> QED
    BY <2>10 DEF S, gone, round
<1> QED
  BY <1>2, <1>3

\* The round as it was loaded may be saved with a result that is of it.
LEMMA RoundFits ==
    ASSUME TypeOK, Apart(rows), NEW m \in Matches, NEW on, NEW res,
           res # None => res = Scores(RoundOf(m)) /\ ~on
    PROVE  Fit(m, {}, RoundOf(m), on, res, {})
<1>1. \A r \in RoundOf(m) : r.home = m /\ r \in rows
  BY DEF RoundOf
<1>2. Apart(RoundOf(m)) /\ \A r \in RoundOf(m), d \in rows : Same(r, d) => d \in RoundOf(m)
  BY <1>1 DEF Apart
<1> QED
  BY <1>1, <1>2 DEF Fit, Same

FitInHand(h) ==
    Fit(mem[h].match, mem[h].named, mem[h].round, mem[h].on, mem[h].res, mem[h].gone)

\* What a save finds to write to a row, when its match fits.
LEMMA RewrittenIsOfTheRound ==
    ASSUME TypeOK, InHand, Apart(rows), NEW h \in Handlers, at[h] = "write",
           FitInHand(h), mem[h].plan = PlanOf(h), NEW d \in Kept(h)
    PROVE  /\ \A r \in mem[h].round : Same(r, d) => Rewritten(h, d) = r
           /\ (\A r \in mem[h].round : ~Same(r, d)) => Rewritten(h, d) = d
<1> DEFINE round == mem[h].round
           ups == {u \in mem[h].plan.update : Same(u[1], d)}
           u == CHOOSE x \in ups : TRUE
<1>1. rows \in SUBSET Standing /\ round \in SUBSET Standing /\ d \in rows
  BY DEF TypeOK, Memory, Kept
<1>2. Apart(round) /\ mem[h].plan.orphan = {}
  <2>1. \A e \in Kept(h) : e.home = mem[h].match => \E r \in round : Same(r, e)
    BY DEF Kept, FitInHand, Fit, RoundOf, Same
  <2> QED
    BY <2>1 DEF PlanOf, FitInHand, Fit
<1>3. mem[h].plan.update = {x \in Kept(h) \X round : Same(x[1], x[2]) /\ x[1] # x[2]}
  BY DEF PlanOf
<1>4. \A x \in ups : x[1] = d /\ x[2] \in round /\ Same(d, x[2]) /\ x[2] # d
  BY <1>1, <1>3 DEF Kept, Apart
<1>5. ASSUME \A r \in round : ~Same(r, d)
      PROVE  Rewritten(h, d) = d
  <2>1. ups = {}
    BY <1>4, <1>5 DEF Same
  <2> QED
    BY <1>2, <2>1 DEF Rewritten
<1>6. ASSUME NEW r \in round, Same(r, d)
      PROVE  Rewritten(h, d) = r
  <2>1. CASE r = d
    <3>1. \A x \in ups : x[2] = r
      BY <1>2, <1>4, <1>6 DEF Apart, Same
    <3>2. ups = {}
      BY <1>4, <2>1, <3>1
    <3> QED
      BY <1>2, <2>1, <3>2 DEF Rewritten
  <2>2. CASE r # d
    <3>1. <<d, r>> \in ups
      BY <1>3, <1>6, <2>2 DEF Same
    <3>2. u \in ups
      BY <3>1
    <3> HIDE DEF u
    <3>3. u[1] = d /\ u[2] = r
      BY <1>2, <1>4, <1>6, <3>2 DEF Apart, Same
    <3>4. Rewritten(h, d) = [d EXCEPT !.score  = Changed(d.score, r.score, d.score),
                                      !.points = Changed(d.points, r.points, d.points),
                                      !.home   = Changed(d.home, r.home, d.home)]
      BY <1>2, <3>1, <3>3 DEF Rewritten, u
    <3>5. /\ Changed(d.score, r.score, d.score) = r.score
          /\ Changed(d.points, r.points, d.points) = r.points
          /\ Changed(d.home, r.home, d.home) = r.home
      BY DEF Changed
    <3> QED
      BY <1>1, <1>6, <3>4, <3>5 DEF Standing, Same
  <2> QED
    BY <2>1, <2>2
<1> QED
  BY <1>5, <1>6

\* A save that fits replaces the round of its match, and nothing else.
LEMMA SaveReplaces ==
    ASSUME TypeOK, InHand, Apart(rows), NEW h \in Handlers, Write(h),
           FitInHand(h), mem[h].plan = PlanOf(h)
    PROVE  /\ rows' = (rows \ RoundOf(mem[h].match)) \union mem[h].round
           /\ active' = [active EXCEPT ![mem[h].match] = mem[h].on]
           /\ result' = [result EXCEPT ![mem[h].match] = mem[h].res]
<1> DEFINE m == mem[h].match
           round == mem[h].round
           gone == mem[h].gone
<1>0. at[h] = "write"
  BY DEF Write
<1>1. /\ gone \subseteq RoundOf(m) /\ RoundOf(m) \subseteq rows
      /\ \A d \in RoundOf(m) \ gone : \E r \in round : Same(r, d)
      /\ \A r \in round, d \in rows : Same(r, d) => d \in RoundOf(m) \ gone
  BY DEF FitInHand, Fit, RoundOf
<1>2. Kept(h) = rows \ gone
  BY <1>1 DEF Kept, Apart, Same
<1>3. mem[h].plan.insert = {r \in round : \A d \in Kept(h) : ~Same(r, d)}
  BY DEF PlanOf
<1>4. \A d \in Kept(h) : /\ \A r \in round : Same(r, d) => Rewritten(h, d) = r
                         /\ (\A r \in round : ~Same(r, d)) => Rewritten(h, d) = d
  BY <1>0, RewrittenIsOfTheRound
<1>5. rows' = {Rewritten(h, d) : d \in Kept(h)} \union mem[h].plan.insert
  BY DEF Write
<1> HIDE DEF m, round, gone
<1>6. ASSUME NEW x \in rows'
      PROVE  x \in (rows \ RoundOf(m)) \union round
  <2>1. CASE x \in mem[h].plan.insert
    BY <1>3, <2>1
  <2>2. CASE x \notin mem[h].plan.insert
    <3>1. PICK d \in Kept(h) : x = Rewritten(h, d)
      BY <1>5, <1>6, <2>2
    <3>2. CASE \E r \in round : Same(r, d)
      BY <1>4, <3>1, <3>2
    <3>3. CASE \A r \in round : ~Same(r, d)
      <4>1. x = d
        BY <1>4, <3>1, <3>3
      <4> QED
        BY <1>1, <1>2, <3>3, <4>1
    <3> QED
      BY <3>2, <3>3
  <2> QED
    BY <2>1, <2>2
<1>7. ASSUME NEW x \in rows \ RoundOf(m)
      PROVE  x \in rows'
  <2>1. x \in Kept(h) /\ \A r \in round : ~Same(r, x)
    BY <1>1, <1>2
  <2>2. Rewritten(h, x) = x
    BY <1>4, <2>1
  <2> QED
    BY <1>5, <2>1, <2>2
<1>8. ASSUME NEW x \in round
      PROVE  x \in rows'
  <2>1. CASE \E d \in Kept(h) : Same(x, d)
    <3>1. PICK d \in Kept(h) : Same(x, d)
      BY <2>1
    <3>2. Rewritten(h, d) = x
      BY <1>4, <3>1
    <3> QED
      BY <1>5, <3>2
  <2>2. CASE \A d \in Kept(h) : ~Same(x, d)
    BY <1>3, <1>5, <2>2
  <2> QED
    BY <2>1, <2>2
<1>9. rows' = (rows \ RoundOf(m)) \union round
  BY <1>6, <1>7, <1>8
<1>10. /\ mem[h].plan.active = {mem[h].on} \ {active[m]}
       /\ mem[h].plan.result = {mem[h].res} \ {result[m]}
  BY DEF PlanOf, m
<1>11. active' = [active EXCEPT ![m] = mem[h].on]
  <2>1. active' = [active EXCEPT ![m] = IF mem[h].plan.active = {} THEN active[m] ELSE mem[h].on]
    BY DEF Write, m
  <2>2. (IF mem[h].plan.active = {} THEN active[m] ELSE mem[h].on) = mem[h].on
    BY <1>10
  <2> QED
    BY <2>1, <2>2
<1>12. result' = [result EXCEPT ![m] = mem[h].res]
  <2>1. result' = [result EXCEPT ![m] = IF mem[h].plan.result = {} THEN result[m] ELSE mem[h].res]
    BY DEF Write, m
  <2>2. (IF mem[h].plan.result = {} THEN result[m] ELSE mem[h].res) = mem[h].res
    BY <1>10
  <2> QED
    BY <2>1, <2>2
<1> QED
  BY <1>9, <1>11, <1>12 DEF m, round

-----------------------------------------------------------------------------
(* Turns at the desk, step by step.                                        *)

Tables == <<rows, active, result>>

\* A step of the handler in turn that writes no table leaves the others out.
LEMMA TurnStep ==
    ASSUME DeskInv, TypeOK, TypeOK', OneAtATime', NEW h \in Handlers, Others(h), UNCHANGED Tables,
           InProgress(h) \/ InProgress(h)', claimed \subseteq claimed',
           h \in Scorers /\ at[h] # "idle" => at'[h] # "idle",
           InTurn(h)'
    PROVE  DeskInv'
<1>1. ASSUME NEW d, Fresh(d)
      PROVE  Fresh(d)'
  BY <1>1 DEF Fresh, Others, Handlers
<1>2. ASSUME NEW k \in Handlers
      PROVE  InTurn(k)'
  <2>1. CASE k = h
    BY <2>1
  <2>2. CASE k # h
    <3>1. ~InProgress(k)'
      BY <2>2 DEF DeskInv, OneAtATime, InProgress, Others
    <3> QED
      BY <3>1 DEF InTurn, InProgress
  <2> QED
    BY <2>1, <2>2
<1>3. ResultIsOfTheRound' /\ Apart(rows)' /\ (\A d \in rows : Fresh(d))'
  BY <1>1 DEF DeskInv, ResultIsOfTheRound, RoundOf, Scores, Apart, Same, Tables
<1> QED
  BY <1>2, <1>3 DEF DeskInv

\* Whether a match fits depends on the rows alone.
LEMMA FitFrame ==
    ASSUME NEW m, NEW named, NEW round, NEW on, NEW res, NEW gone,
           Fit(m, named, round, on, res, gone), rows' = rows
    PROVE  Fit(m, named, round, on, res, gone)'
BY DEF Fit, RoundOf, Apart, Same, Scores

\* A scorer's command goes on with a match that fits.
LEMMA HoldsTurn ==
    ASSUME DeskInv, TypeOK, TypeOK', OneAtATime', NEW h \in Scorers, NEW m \in Matches,
           NEW named, NEW round, NEW on, NEW res, NEW gone,
           Holds(h, m, named, round, on, res, gone), Fit(m, named, round, on, res, gone),
           \A r \in round : Fresh(r) \/ r.by = h
    PROVE  DeskInv'
<1>1. /\ h \in Handlers /\ at[h] = "idle" /\ at'[h] = "diff" /\ h \notin Requests
      /\ Others(h) /\ UNCHANGED Tables /\ UNCHANGED claimed
  BY IngestAssumption DEF Holds, Go, Others, Tables, TypeOK, Handlers
<1>2. mem'[h] = [Blank EXCEPT !.match = m, !.named = named, !.round = round,
                              !.on = on, !.res = res, !.gone = gone]
  BY <1>1 DEF Holds, TypeOK
<1>3. /\ mem'[h].match = m /\ mem'[h].named = named /\ mem'[h].round = round
      /\ mem'[h].on = on /\ mem'[h].res = res /\ mem'[h].gone = gone
  BY <1>2 DEF Blank
<1>4. FitInHand(h)'
  BY <1>1, <1>3, FitFrame DEF FitInHand, Tables
<1>5. \A r \in round : Fresh(r)'
  BY <1>1, IngestAssumption DEF Fresh, Others, Handlers
<1>6. InTurn(h)'
  BY <1>1, <1>3, <1>4, <1>5 DEF InTurn, FitInHand
<1> QED
  BY <1>1, <1>6, TurnStep DEF InProgress

LEMMA CommandTurn ==
    ASSUME DeskInv, TypeOK, TypeOK', OneAtATime', NEW h \in Scorers, Command(h)
    PROVE  DeskInv'
<1>1. PICK m \in Matches :
        \/ \E p \in Entrants[m] : Score(h, m, p) \/ RemoveStanding(h, m, p)
        \/ Commit(h, m) \/ Reopen(h, m)
        \/ \E on \in BOOLEAN : Activate(h, m, on)
  BY DEF Command
<1>2. /\ h \in Handlers /\ h \in Sources /\ Apart(rows)
      /\ RoundOf(m) \in SUBSET Standing /\ \A r \in RoundOf(m) : Fresh(r) /\ r.home = m
  BY DEF DeskInv, TypeOK, RoundOf, Handlers, Sources
<1>3. \A p \in Entrants[m] : p \in Players
  BY IngestAssumption
<1>4. at[h] = "idle" => \A d \in rows : d.by # h
  BY DEF DeskInv, Fresh
<1>5. ASSUME NEW p \in Entrants[m], Score(h, m, p)
      PROVE  DeskInv'
  <2> DEFINE round == Scored(RoundOf(m), m, {p}, h)
  <2>1. result[m] = None /\ Holds(h, m, {<<m, p>>}, round, active[m], result[m], {})
    BY <1>5 DEF Score
  <2>2. at[h] = "idle"
    BY <2>1 DEF Holds
  <2>3. /\ {p} \in SUBSET Players /\ \A d \in rows : ~(d.by = h /\ d.player \in {p})
        /\ \A q \in {p} : <<m, q>> \in {<<m, p>>}
    BY <1>3, <1>4, <2>2
  <2>4. Fit(m, {<<m, p>>}, round, active[m], None, {})
    BY <1>2, <2>3, ScoredFits
  <2>5. Goes(RoundOf(m), round, m, {p}, h)
    BY <1>2, <2>3, ScoredGoes DEF Apart, RoundOf
  <2> HIDE DEF round
  <2>6. \A r \in round : Fresh(r) \/ r.by = h
    BY <1>2, <2>5 DEF Goes, Same, Fresh
  <2> QED
    BY <2>1, <2>4, <2>6, HoldsTurn
<1>6. ASSUME NEW p \in Entrants[m], RemoveStanding(h, m, p)
      PROVE  DeskInv'
  <2> DEFINE round == Without(RoundOf(m), p)
             gone == {r \in RoundOf(m) : r.player = p}
  <2>1. result[m] = None /\ Holds(h, m, {<<m, p>>}, round, active[m], result[m], gone)
    BY <1>6 DEF RemoveStanding
  <2>2. Fit(m, {<<m, p>>}, round, active[m], None, gone)
    BY <1>2, <1>3, WithoutFits
  <2>3. \A r \in round : \E d \in RoundOf(m) : r.by = d.by
    BY <1>2 DEF Without, Standing
  <2> HIDE DEF round, gone
  <2>4. \A r \in round : Fresh(r)
    BY <1>2, <2>3 DEF Fresh
  <2> QED
    BY <2>1, <2>2, <2>4, HoldsTurn
<1>7. ASSUME NEW on, NEW res, Holds(h, m, {}, RoundOf(m), on, res, {}),
             res # None => res = Scores(RoundOf(m)) /\ ~on
      PROVE  DeskInv'
  <2>1. Fit(m, {}, RoundOf(m), on, res, {})
    BY <1>2, <1>7, RoundFits
  <2> QED
    BY <1>2, <1>7, <2>1, HoldsTurn
<1>8. CASE Commit(h, m)
  BY <1>7, <1>8 DEF Commit
<1>9. CASE Reopen(h, m)
  BY <1>7, <1>9 DEF Reopen
<1>10. ASSUME NEW on \in BOOLEAN, Activate(h, m, on)
       PROVE  DeskInv'
  <2>1. result[m] # None => result[m] = Scores(RoundOf(m)) /\ ~on
    BY <1>10 DEF Activate, DeskInv, ResultIsOfTheRound
  <2> QED
    BY <1>7, <1>10, <2>1 DEF Activate
<1> QED
  BY <1>1, <1>5, <1>6, <1>8, <1>9, <1>10

\* The runs of a submission that is new have no standing yet.
LEMMA ClaimTurn ==
    ASSUME IngestInv, DeskInv, TypeOK', OneAtATime', NEW h \in Handlers, Claim(h)
    PROVE  DeskInv'
<1>1. h \in Requests /\ h \notin Scorers /\ mem[h].sub \in Submissions
  BY IngestAssumption DEF Claim, IngestInv, InHand, Asking, Working
<1>2. /\ Others(h) /\ UNCHANGED Tables /\ mem' = mem /\ at[h] = "claim"
      /\ claimed \subseteq claimed'
      /\ at'[h] = IF mem[h].sub \in claimed THEN "previous" ELSE "record"
  BY DEF Claim, Go, Others, Tables, IngestInv, TypeOK
<1>3. mem[h].sub \notin claimed => \A d \in rows : d.by # mem[h].sub
  BY <1>1 DEF DeskInv, Fresh
<1>4. InTurn(h)'
  BY <1>2, <1>3 DEF InTurn, Tables
<1> QED
  BY <1>1, <1>2, <1>4, TurnStep DEF InProgress, IngestInv

\* Of two targets of a player neither comes first.
LEMMA TargetsPend ==
    ASSUME NEW who \in SUBSET Players, NEW sub, NEW S, \A d \in S : d.by # sub
    PROVE  Pending(TargetsOf(who), sub, S)
<1>1. ASSUME NEW t \in TargetsOf(who), NEW u \in TargetsOf(who), t[2] = u[2]
      PROVE  t = u
  <2>1. /\ t \in Matches \X who /\ u \in Matches \X who
        /\ t[1] \in Waiting(t[2]) /\ \A n \in Waiting(t[2]) : t[1] <= n
        /\ u[1] \in Waiting(u[2]) /\ \A n \in Waiting(u[2]) : u[1] <= n
    BY DEF TargetsOf
  <2>2. t[1] <= u[1] /\ u[1] <= t[1] /\ t[1] \in Nat /\ u[1] \in Nat
    BY <1>1, <2>1, IngestAssumption
  <2>3. t[1] = u[1]
    BY <2>2
  <2> QED
    BY <1>1, <2>1, <2>3
<1>2. \A t \in TargetsOf(who) : active[t[1]]
  BY DEF TargetsOf, Waiting
<1> QED
  BY <1>1, <1>2 DEF Pending

LEMMA TargetsTurn ==
    ASSUME IngestInv, DeskInv, TypeOK', OneAtATime', NEW h \in Handlers, Targets(h)
    PROVE  DeskInv'
<1> DEFINE found == TargetsOf(Known(mem[h].sub))
<1>1. h \in Requests /\ h \notin Scorers /\ mem[h].sub \in Submissions /\ mem[h] \in Memory
  BY IngestAssumption DEF Targets, IngestInv, InHand, TypeOK, Asking, Working, Counted
<1>2. /\ Others(h) /\ UNCHANGED Tables /\ at[h] = "targets" /\ claimed' = claimed
      /\ at'[h] = IF found = {} THEN "outcome" ELSE "load"
  BY DEF Targets, Go, Others, Tables, IngestInv, TypeOK
<1>3. mem'[h].todo = found /\ mem'[h].sub = mem[h].sub
  BY <1>1 DEF Targets, IngestInv, TypeOK, Memory
<1>4. \A d \in rows : d.by # mem[h].sub
  BY <1>2 DEF DeskInv, InTurn
<1>5. Known(mem[h].sub) \in SUBSET Players
  BY IngestAssumption DEF Known
<1>6. Pending(found, mem[h].sub, rows)
  BY <1>4, <1>5, TargetsPend
<1> HIDE DEF found
<1>7. Pending(mem[h].todo, mem[h].sub, rows)'
  BY <1>2, <1>3, <1>6 DEF Pending, Tables
<1>8. InTurn(h)'
  BY <1>2, <1>7 DEF InTurn
<1> QED
  BY <1>1, <1>2, <1>8, TurnStep DEF InProgress, IngestInv

LEMMA LoadTargetTurn ==
    ASSUME IngestInv, DeskInv, TypeOK', OneAtATime', NEW h \in Handlers, LoadTarget(h)
    PROVE  DeskInv'
<1> DEFINE sub == mem[h].sub
           todo == mem[h].todo
           who(m) == {t[2] : t \in {u \in todo : u[1] = m}}
<1>1. /\ h \in Requests /\ h \notin Scorers /\ sub \in Submissions /\ mem[h] \in Memory
      /\ sub \in claimed
  BY IngestAssumption
  DEF LoadTarget, IngestInv, InHand, Progress, TypeOK, Asking, Working, Counted
<1>2. /\ Others(h) /\ UNCHANGED Tables /\ at[h] = "load" /\ at'[h] = "diff"
      /\ claimed' = claimed
  BY DEF LoadTarget, Go, Others, Tables, IngestInv, TypeOK
<1>3. todo \in SUBSET (Matches \X Players) /\ Pending(todo, sub, rows)
  BY <1>1, <1>2 DEF DeskInv, InTurn, Memory
<1>4. PICK m \in {t[1] : t \in todo} :
          mem' = [mem EXCEPT ![h] = [mem[h] EXCEPT
              !.match = m,
              !.named = {m} \X who(m),
              !.round = Scored(RoundOf(m), m, who(m), sub),
              !.on = active[m],
              !.res = result[m],
              !.gone = {}]]
  BY DEF LoadTarget
<1>5. m \in Matches /\ active[m]
  BY <1>3, <1>4 DEF Pending
<1>6. PICK these : these = who(m)
  OBVIOUS
<1>7. these = {t[2] : t \in {u \in todo : u[1] = m}} /\ these \in SUBSET Players
  BY <1>3, <1>6
<1>8. /\ \A p \in these : \E u \in todo : u[1] = m /\ u[2] = p
      /\ \A u \in todo : u[1] = m => u[2] \in these
  BY <1>7
<1> HIDE DEF who
<1>9. PICK round : round = Scored(RoundOf(m), m, these, sub)
  OBVIOUS
<1>10. /\ mem'[h].match = m /\ mem'[h].named = {m} \X these /\ mem'[h].round = round
       /\ mem'[h].on = active[m] /\ mem'[h].res = result[m] /\ mem'[h].gone = {}
       /\ mem'[h].todo = todo /\ mem'[h].sub = sub
  BY <1>1, <1>4, <1>6, <1>9 DEF IngestInv, TypeOK, Memory
<1>11. result[m] = None
  BY <1>5 DEF DeskInv, ResultIsOfTheRound
<1>12. \A d \in rows : ~(d.by = sub /\ d.player \in these)
  BY <1>3, <1>8 DEF Pending
<1>13. \A p \in these : <<m, p>> \in {m} \X these
  OBVIOUS
<1>14. Apart(rows) /\ sub \in Sources /\ TypeOK
  BY <1>1 DEF DeskInv, Sources, IngestInv
<1>15. Fit(m, {m} \X these, round, active[m], None, {})
  BY <1>5, <1>7, <1>9, <1>12, <1>13, <1>14, ScoredFits
<1>16. RoundOf(m) \in SUBSET Standing /\ Apart(RoundOf(m)) /\ \A r \in RoundOf(m) : r.home = m
  BY <1>14 DEF RoundOf, Apart, TypeOK
<1>17. Goes(RoundOf(m), round, m, these, sub)
  BY <1>5, <1>7, <1>9, <1>14, <1>16, ScoredGoes
<1>18. \A r \in round : Fresh(r)
  <2>1. \A d \in RoundOf(m) : Fresh(d)
    BY DEF DeskInv, RoundOf
  <2>2. sub \notin Scorers
    BY <1>1, IngestAssumption
  <2> QED
    BY <1>1, <1>17, <2>1, <2>2 DEF Goes, Same, Fresh
<1>19. PICK left : left = todo \ ({m} \X these)
  OBVIOUS
<1>20. \A t \in left : t \in todo /\ t[1] # m
  <2> SUFFICES ASSUME NEW t \in todo, t[1] = m
               PROVE  t \in {m} \X these
    BY <1>19
  <2>1. t = <<t[1], t[2]>> /\ t[2] \in these
    BY <1>3, <1>8
  <2> QED
    BY <2>1
<1>21. Pending(left, sub, rows \union round)
  <2>1. ASSUME NEW t \in left, NEW d \in round, d.by = sub, d.player = t[2]
        PROVE  FALSE
    <3>1. ~\E e \in RoundOf(m) : Same(d, e)
      BY <1>3, <1>20, <2>1 DEF Pending, Same, RoundOf
    <3>2. d.player \in these
      BY <1>17, <3>1 DEF Goes
    <3>3. PICK u \in todo : u[1] = m /\ u[2] = t[2]
      BY <1>8, <2>1, <3>2
    <3>4. t = u
      BY <1>3, <1>20, <3>3 DEF Pending
    <3> QED
      BY <1>20, <3>3, <3>4
  <2> QED
    BY <1>3, <1>20, <2>1 DEF Pending
<1>22. FitInHand(h)'
  BY <1>2, <1>10, <1>11, <1>15, FitFrame DEF FitInHand, Tables
<1>23. \A r \in round : Fresh(r)'
  BY <1>2, <1>18 DEF Fresh, Others, Handlers
<1>24. Pending(left, sub, rows \union round)'
  BY <1>2, <1>10, <1>21 DEF Pending, Tables
<1>25. InTurn(h)'
  BY <1>2, <1>10, <1>19, <1>20, <1>22, <1>23, <1>24 DEF InTurn, FitInHand
<1> QED
  BY <1>1, <1>2, <1>25, TurnStep DEF InProgress, IngestInv

LEMMA DiffTurn ==
    ASSUME IngestInv, DeskInv, TypeOK', OneAtATime', NEW h \in Handlers, Diff(h)
    PROVE  DeskInv'
<1>1. /\ Others(h) /\ UNCHANGED Tables /\ at[h] = "diff" /\ at'[h] = "write"
      /\ claimed' = claimed /\ mem[h] \in Memory
  BY DEF Diff, Go, Others, Tables, IngestInv, TypeOK
<1>2. mem'[h] = [mem[h] EXCEPT !.plan = PlanOf(h)]
  BY DEF Diff, IngestInv, TypeOK
<1>3. /\ mem'[h].match = mem[h].match /\ mem'[h].named = mem[h].named
      /\ mem'[h].round = mem[h].round /\ mem'[h].on = mem[h].on /\ mem'[h].res = mem[h].res
      /\ mem'[h].gone = mem[h].gone /\ mem'[h].todo = mem[h].todo /\ mem'[h].sub = mem[h].sub
      /\ mem'[h].plan = PlanOf(h)
  BY <1>1, <1>2 DEF Memory
<1>4. PlanOf(h)' = PlanOf(h)
  BY <1>1, <1>3 DEF PlanOf, Kept, Tables, Same
<1>5. FitInHand(h)'
  <2>1. FitInHand(h)
    BY <1>1 DEF DeskInv, InTurn, FitInHand
  <2> QED
    BY <1>1, <1>3, <2>1, FitFrame DEF FitInHand, Tables
<1>6. \A r \in mem'[h].round : Fresh(r)'
  <2>1. \A r \in mem[h].round : Fresh(r)
    BY <1>1 DEF DeskInv, InTurn
  <2>2. \A r : Fresh(r) => Fresh(r)'
    BY <1>1 DEF Fresh, Others, Handlers
  <2> QED
    BY <1>3, <2>1, <2>2
<1>7. h \in Requests =>
          /\ \A t \in mem'[h].todo \ mem'[h].named : t[1] # mem'[h].match
          /\ Pending(mem[h].todo \ mem[h].named, mem[h].sub, rows \union mem[h].round)'
  BY <1>1, <1>3 DEF DeskInv, InTurn, Pending, Tables
<1>8. InTurn(h)'
  BY <1>1, <1>3, <1>4, <1>5, <1>6, <1>7 DEF InTurn, FitInHand
<1> QED
  BY <1>1, <1>8, TurnStep DEF InProgress, IngestInv

\* A save in turn: the round it replaces is of the result it writes.
LEMMA WriteTurn ==
    ASSUME IngestInv, DeskInv, TypeOK', OneAtATime', NEW h \in Handlers, Write(h)
    PROVE  DeskInv'
<1> DEFINE m == mem[h].match
           round == mem[h].round
           left == mem[h].todo \ mem[h].named
<1>1. at[h] = "write" /\ m \in Matches /\ mem[h] \in Memory /\ TypeOK /\ InHand /\ m # None
  BY IngestAssumption DEF Write, IngestInv, TypeOK, InHand
<1>2. /\ FitInHand(h) /\ mem[h].plan = PlanOf(h) /\ Apart(rows)
      /\ \A r \in round : Fresh(r)
      /\ \A d \in rows : Fresh(d)
      /\ h \in Requests => /\ \A t \in left : t[1] # m
                           /\ Pending(left, mem[h].sub, rows \union round)
  BY <1>1 DEF DeskInv, InTurn, FitInHand
<1>3. /\ rows' = (rows \ RoundOf(m)) \union round
      /\ active' = [active EXCEPT ![m] = mem[h].on]
      /\ result' = [result EXCEPT ![m] = mem[h].res]
  BY <1>1, <1>2, SaveReplaces
<1>4. /\ \A r \in round : r.home = m
      /\ Apart(round)
      /\ \A r \in round, d \in rows : Same(r, d) => d \in RoundOf(m)
      /\ mem[h].res # None => mem[h].res = Scores(round) /\ ~mem[h].on
  BY <1>2 DEF FitInHand, Fit
<1>5. Others(h) /\ claimed' = claimed /\ (h \in Scorers => at'[h] = "done")
  BY <1>1 DEF Write, Go, End, Others, TypeOK
<1>6. h \in Requests /\ h \notin Scorers =>
          /\ at'[h] = IF left = {} THEN "outcome" ELSE "load"
          /\ mem'[h].todo = left /\ mem'[h].sub = mem[h].sub
  <2> SUFFICES ASSUME h \in Requests, h \notin Scorers
               PROVE  /\ at'[h] = IF left = {} THEN "outcome" ELSE "load"
                      /\ mem'[h].todo = left /\ mem'[h].sub = mem[h].sub
    OBVIOUS
  <2>1. PICK applied :
            /\ Go(h, IF left = {} THEN "outcome" ELSE "load")
            /\ mem' = [mem EXCEPT ![h] = [Blank EXCEPT !.sub = mem[h].sub, !.todo = left,
                                                      !.applied = applied]]
    BY DEF Write
  <2> HIDE DEF left
  <2>2. mem'[h] = [Blank EXCEPT !.sub = mem[h].sub, !.todo = left, !.applied = applied]
    BY <1>1, <2>1 DEF TypeOK
  <2> QED
    BY <1>1, <2>1, <2>2 DEF Go, TypeOK, Blank
<1> HIDE DEF m, round, left
<1>7. Apart(rows)'
  <2>1. \A r \in round, d \in rows \ RoundOf(m) : ~Same(r, d) /\ ~Same(d, r)
    BY <1>4 DEF Same
  <2>2. \A r, d \in (rows \ RoundOf(m)) \union round : Same(r, d) => r = d
    BY <1>2, <1>4, <2>1 DEF Apart
  <2> QED
    BY <1>3, <2>2 DEF Apart, Same
<1>8. \A d : Fresh(d) => Fresh(d)'
  BY <1>1, <1>5 DEF Fresh, Others, Handlers
<1>9. (\A d \in rows : Fresh(d))'
  BY <1>2, <1>3, <1>8
<1>10. ResultIsOfTheRound'
  <2> SUFFICES ASSUME NEW n \in Matches, result'[n] # None
               PROVE  result'[n] = Scores(RoundOf(n)') /\ ~active'[n]
    BY DEF ResultIsOfTheRound, Scores
  <2>1. CASE n = m
    <3>1. result'[n] = mem[h].res /\ active'[n] = mem[h].on
      BY <1>1, <1>3, <2>1 DEF TypeOK
    <3>2. RoundOf(n)' = round
      BY <1>3, <1>4, <2>1 DEF RoundOf
    <3> QED
      BY <1>4, <3>1, <3>2
  <2>2. CASE n # m
    <3>1. result'[n] = result[n] /\ active'[n] = active[n]
      BY <1>1, <1>3, <2>2 DEF TypeOK
    <3>2. RoundOf(n)' = RoundOf(n)
      BY <1>3, <1>4, <2>2 DEF RoundOf
    <3> QED
      BY <3>1, <3>2 DEF DeskInv, ResultIsOfTheRound
  <2> QED
    BY <2>1, <2>2
<1>11. InTurn(h)'
  <2>1. CASE h \in Scorers
    BY <1>5, <2>1 DEF InTurn
  <2>2. CASE h \notin Scorers
    <3>1. h \in Requests
      BY <2>2 DEF Handlers
    <3>2. \A t \in left : t[1] # m /\ t[1] \in Matches
      BY <1>1, <1>2, <3>1 DEF left, Memory
    <3>3. \A t \in left : active'[t[1]] = active[t[1]]
      BY <1>1, <1>3, <3>2 DEF TypeOK
    <3>4. \A t \in left : active'[t[1]] /\ \A d \in rows' : ~(d.by = mem[h].sub /\ d.player = t[2])
      BY <1>2, <1>3, <3>1, <3>3 DEF Pending
    <3>5. Pending(mem[h].todo, mem[h].sub, rows)'
      BY <1>2, <1>6, <2>2, <3>1, <3>4 DEF Pending
    <3> QED
      BY <1>6, <2>2, <3>1, <3>5 DEF InTurn
  <2> QED
    BY <2>1, <2>2
<1>12. ASSUME NEW k \in Handlers
       PROVE  InTurn(k)'
  <2>1. CASE k = h
    BY <1>11, <2>1
  <2>2. CASE k # h
    <3>1. ~InProgress(k)'
      BY <1>1, <1>5, <2>2 DEF DeskInv, OneAtATime, InProgress, Others
    <3> QED
      BY <3>1 DEF InTurn, InProgress
  <2> QED
    BY <2>1, <2>2
<1> QED
  BY <1>7, <1>9, <1>10, <1>12 DEF DeskInv

LEMMA CrashTurn ==
    ASSUME IngestInv, DeskInv, Crash
    PROVE  DeskInv'
<1>1. /\ UNCHANGED Tables /\ claimed' = claimed
      /\ \A k \in Handlers : at'[k] \in {"idle", "done"}
      /\ \A q \in Scorers : at[q] # "idle" => at'[q] # "idle"
  BY DEF Crash, Tables, Handlers
<1>2. \A d : Fresh(d) => Fresh(d)'
  BY <1>1 DEF Fresh
<1>3. ResultIsOfTheRound' /\ Apart(rows)' /\ (\A d \in rows : Fresh(d))'
  BY <1>1, <1>2 DEF DeskInv, ResultIsOfTheRound, RoundOf, Scores, Apart, Same, Tables
<1>4. OneAtATime' /\ \A k \in Handlers : InTurn(k)'
  BY <1>1 DEF OneAtATime, InProgress, InTurn
<1> QED
  BY <1>3, <1>4 DEF DeskInv

LEMMA DeskStep ==
    ASSUME IngestInv, DeskInv, Next, OneAtATime'
    PROVE  DeskInv'
<1>1. TypeOK /\ TypeOK'
  BY NextTypes DEF IngestInv
<1>2. ASSUME NEW h \in Requests, NEW s \in Submissions, Submit(h, s)
      PROVE  DeskInv'
  <2>1. /\ h \in Handlers /\ h \notin Scorers /\ Others(h) /\ UNCHANGED Tables
        /\ claimed' = claimed /\ at'[h] = "claim"
    BY <1>1, <1>2, IngestAssumption DEF Submit, Go, Others, Tables, TypeOK, Handlers
  <2>2. InTurn(h)'
    BY <2>1 DEF InTurn
  <2> QED
    BY <1>1, <2>1, <2>2, TurnStep DEF InProgress
<1>3. ASSUME NEW h \in Scorers, Command(h)
      PROVE  DeskInv'
  BY <1>1, <1>3, CommandTurn
<1>4. ASSUME NEW h \in Handlers, Claim(h)
      PROVE  DeskInv'
  BY <1>1, <1>4, ClaimTurn
<1>5. ASSUME NEW h \in Handlers, Previous(h) \/ Answer(h) \/ WriteFails(h)
      PROVE  DeskInv'
  <2>1. /\ InProgress(h) /\ Others(h) /\ UNCHANGED Tables /\ claimed' = claimed
        /\ at'[h] = IF h \in Scorers THEN "done" ELSE "idle"
    BY <1>1, <1>5 DEF Previous, Answer, WriteFails, End, Go, Others, Tables, TypeOK, InProgress
  <2>2. InTurn(h)'
    BY <2>1 DEF InTurn
  <2> QED
    BY <1>1, <2>1, <2>2, TurnStep
<1>6. ASSUME NEW h \in Handlers, Record(h)
      PROVE  DeskInv'
  <2>1. /\ Others(h) /\ UNCHANGED Tables /\ claimed' = claimed /\ mem' = mem
        /\ at[h] = "record" /\ at'[h] = "targets"
    BY <1>1, <1>6 DEF Record, Go, Others, Tables, TypeOK
  <2>2. \A d \in rows : d.by # mem[h].sub
    BY <2>1 DEF DeskInv, InTurn
  <2>3. InTurn(h)'
    BY <2>1, <2>2 DEF InTurn, Tables
  <2> QED
    BY <1>1, <2>1, <2>3, TurnStep DEF InProgress
<1>7. ASSUME NEW h \in Handlers, Targets(h)
      PROVE  DeskInv'
  BY <1>1, <1>7, TargetsTurn
<1>8. ASSUME NEW h \in Handlers, LoadTarget(h)
      PROVE  DeskInv'
  BY <1>1, <1>8, LoadTargetTurn
<1>9. ASSUME NEW h \in Handlers, Diff(h)
      PROVE  DeskInv'
  BY <1>1, <1>9, DiffTurn
<1>10. ASSUME NEW h \in Handlers, Write(h)
       PROVE  DeskInv'
  BY <1>1, <1>10, WriteTurn
<1>11. ASSUME NEW h \in Handlers, SaveOutcome(h)
       PROVE  DeskInv'
  <2>1. /\ Others(h) /\ UNCHANGED Tables /\ claimed' = claimed
        /\ at[h] = "outcome" /\ at'[h] = "answer"
    BY <1>1, <1>11 DEF SaveOutcome, Go, Others, Tables, TypeOK
  <2>2. InTurn(h)'
    BY <2>1 DEF InTurn
  <2> QED
    BY <1>1, <2>1, <2>2, TurnStep DEF InProgress
<1>12. CASE Crash
  BY <1>12, CrashTurn
<1> QED
  BY <1>2, <1>3, <1>4, <1>5, <1>6, <1>7, <1>8, <1>9, <1>10, <1>11, <1>12 DEF Next, Serve

LEMMA InitDesk ==
    ASSUME Init
    PROVE  DeskInv
BY DEF Init, DeskInv, OneAtATime, InProgress, ResultIsOfTheRound, Apart, InTurn

\* A handler may change the scores of what it names, and of nothing else.
LEMMA DeskOthersStay ==
    ASSUME IngestInv, DeskInv, Next
    PROVE  OthersStay
<1>1. CASE rows' = rows
  BY <1>1 DEF OthersStay, Scores
<1>2. ASSUME NEW h \in Handlers, Write(h)
      PROVE  OthersStay
  <2> DEFINE m == mem[h].match
  <2>1. at[h] = "write" /\ m \in Matches /\ TypeOK /\ InHand
    BY <1>2 DEF Write, IngestInv, InHand
  <2>2. FitInHand(h) /\ mem[h].plan = PlanOf(h) /\ Apart(rows)
    BY <2>1 DEF DeskInv, InTurn, FitInHand
  <2>3. rows' = (rows \ RoundOf(m)) \union mem[h].round
    BY <1>2, <2>1, <2>2, SaveReplaces
  <2>4. at'[h] # "write"
    BY <1>2, <2>1 DEF Write, End, Go, TypeOK
  <2> SUFFICES ASSUME NEW r \in rows
               PROVE  \/ <<r.player, r.score>> \in Scores({d \in rows' : d.home = r.home})
                      \/ <<r.home, r.player>> \in mem[h].named
    BY <2>1, <2>4 DEF OthersStay
  <2>5. CASE r.home # m
    BY <2>3, <2>5 DEF RoundOf, Scores
  <2>6. CASE r.home = m /\ <<m, r.player>> \notin mem[h].named
    <3>1. PICK d \in mem[h].round : d.player = r.player /\ d.score = r.score
      BY <2>2, <2>6 DEF FitInHand, Fit, RoundOf
    <3>2. d \in rows' /\ d.home = r.home
      BY <2>2, <2>3, <2>6 DEF FitInHand, Fit
    <3> QED
      BY <3>1, <3>2 DEF Scores
  <2> QED
    BY <2>5, <2>6
<1>3. rows' = rows \/ \E h \in Handlers : Write(h)
  BY ZenonT(40) DEF Next, Submit, Command, Score, RemoveStanding, Commit, Reopen, Activate, Holds, Serve,
         Claim, Previous, Record, Targets, LoadTarget, Diff, WriteFails, SaveOutcome, Answer,
         Crash
<1> QED
  BY <1>1, <1>2, <1>3

-----------------------------------------------------------------------------
(* What taking turns is good for.                                          *)

LEMMA TurnStepInv ==
    ASSUME IngestInv, TurnInv, [TurnNext]_<<vars, setting>>
    PROVE  IngestInv' /\ TurnInv'
<1>1. IngestInv'
  BY NextTypes, NextRest DEF TurnNext, IngestInv, InvRest
<1>2. CASE TurnNext /\ setting = "desk"
  <2>1. OneAtATime'
    BY <1>2 DEF TurnNext, Held, OneAtATime
  <2> QED
    BY <1>1, <1>2, <2>1, DeskStep DEF TurnNext, TurnInv
<1>3. CASE TurnNext /\ setting # "desk"
  BY <1>1, <1>3 DEF TurnNext, TurnInv
<1>4. CASE UNCHANGED <<vars, setting>>
  <2>1. DeskInv => DeskInv'
    BY <1>4
    DEF vars, DeskInv, OneAtATime, InProgress, ResultIsOfTheRound, RoundOf, Scores, Apart, Same,
        Fresh, InTurn, Pending, Fit, PlanOf, Kept
  <2> QED
    BY <1>1, <1>4, <2>1 DEF TurnInv
<1> QED
  BY <1>2, <1>3, <1>4

\* At the desk whatever is in memory is what the tables hold, changed where
\* its command says so, until it is saved.
THEOREM TurnsHold == TurnSpec => [](IngestInv /\ TurnInv)
<1>1. TurnInit => IngestInv /\ TurnInv
  BY InitInv, InitDesk DEF TurnInit, TurnInv
<1>2. IngestInv /\ TurnInv /\ [TurnNext]_<<vars, setting>> => (IngestInv /\ TurnInv)'
  BY TurnStepInv
<1> QED
  BY <1>1, <1>2, PTL DEF TurnSpec

\* As long as saves follow one another, a result is of its round and its
\* match is not played.
THEOREM ResultsAreInTurn == TurnSpec => []ResultsInTurn
<1>1. TurnInv => ResultsInTurn
  BY DEF TurnInv, DeskInv, ResultsInTurn
<1> QED
  BY <1>1, TurnsHold, PTL

\* As long as saves follow one another, none takes a standing that its
\* command does not name.
THEOREM SavesTakeTurns == TurnSpec => StandingsStayInTurn
<1>1. IngestInv /\ TurnInv /\ [TurnNext]_<<vars, setting>>
          => [setting = "desk" => OthersStay]_vars
  BY DeskOthersStay DEF TurnNext, TurnInv, vars
<1> QED
  BY <1>1, TurnsHold, PTL DEF TurnSpec, StandingsStayInTurn

\* Whoever takes turns still does what RunIngest allows, so that what is
\* proved of every interleaving holds of turns.
THEOREM TurnsAreRuns == TurnSpec => Spec
<1>1. TurnInit => Init
  BY DEF TurnInit
<1>2. [TurnNext]_<<vars, setting>> => [Next]_vars
  BY DEF TurnNext, vars
<1> QED
  BY <1>1, <1>2, PTL DEF TurnSpec, Spec
=============================================================================
