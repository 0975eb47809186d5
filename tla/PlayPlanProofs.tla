--------------------------- MODULE PlayPlanProofs ---------------------------
(***************************************************************************)
(* PlayPlan implements PlanRegister when nobody else bumps the version     *)
(* while a command that saves the tournament is under way.                 *)
(***************************************************************************)
EXTENDS PlayPlan, TLAPS

\* A command that saves the tournament is the only command.
SaversAlone == \A p \in Savers : Writers = {p}

\* What is held under the current version is recent ...
Recent(plan) ==
    /\ plan.version <= version
    /\ plan.version = version => plan.lanes \in recent

\* ... and what is held under the version a poll has read may be its answer.
Answers(c, plan) ==
    at[c] = "compare" /\ plan.version = mem[c].version => plan.lanes \in allowed[c]

\* The cached plan, and the plan a poll is about to cache.
Held == cache \union {Built(c) : c \in {d \in ControlRooms : at[d] = "store"}}

PollSteps == {"idle", "version", "compare", "lanes", "store"}
WriterSteps == {"idle", "bump", "diff", "write"}

PollOK(c) ==
    /\ at[c] \in PollSteps
    /\ at[c] = "idle" <=> allowed[c] = {}
    /\ at[c] # "idle" => recent \subseteq allowed[c]
    /\ mem[c].version <= version
    /\ at[c] = "store" => mem[c].lanes \in allowed[c]

WriterOK(p) ==
    /\ at[p] \in WriterSteps
    /\ at[p] \in {"diff", "write"} => p \in Savers /\ mem[p].version = version
    /\ at[p] = "write" => ~mem[p].dirty

LanesOK == lanes \in recent /\ (Owed = {} => recent = {lanes})
HeldOK == \A plan \in Held : Recent(plan)
AnswersOK == \A c \in ControlRooms : \A plan \in Held : Answers(c, plan)
PollsOK == \A c \in ControlRooms : PollOK(c)
WritersOK == \A p \in Writers : WriterOK(p)

PlanInv == TypeOK /\ LanesOK /\ HeldOK /\ AnswersOK /\ PollsOK /\ WritersOK

-----------------------------------------------------------------------------
(* One lemma for each kind of step: it keeps the invariant, and it is a    *)
(* step of PlanRegister or none.                                           *)

RegisterStep == [Register!Next]_(Register!rvars)

LEMMA Apart == \A c \in ControlRooms : c \in Procs /\ c \notin Writers
  BY PlayPlanAssumption DEF Procs, Writers

LEMMA BeginOK ==
    ASSUME PlanInv, NEW c \in ControlRooms, Begin(c)
    PROVE  PlanInv' /\ RegisterStep
  <1> USE DEF PlanInv
  <1>1. /\ c \in Procs /\ c \notin Writers /\ at[c] = "idle" /\ at'[c] = "version"
        /\ allowed'[c] = recent
        /\ \A q \in Procs \ {c} : at'[q] = at[q]
        /\ \A d \in ControlRooms \ {c} : allowed'[d] = allowed[d]
        /\ UNCHANGED <<lanes, version, cache, mem, view, recent>>
    BY Apart DEF Begin, Go, TypeOK
  <1>2. TypeOK'
    BY DEF Begin, Go, TypeOK, Steps
  <1>3. Owed' = Owed
    BY <1>1 DEF Owed, Procs
  <1>4. Held' = Held
    <2>1. \A d \in ControlRooms : at'[d] = "store" <=> at[d] = "store"
      BY <1>1, Apart
    <2>2. \A d \in ControlRooms : Built(d)' = Built(d)
      BY <1>1 DEF Built
    <2> QED BY <1>1, <2>1, <2>2 DEF Held
  <1>5. LanesOK'
    BY <1>1, <1>3 DEF LanesOK
  <1>6. HeldOK'
    BY <1>1, <1>4 DEF HeldOK, Recent
  <1>7. AnswersOK'
    BY <1>1, <1>4, Apart DEF AnswersOK, Answers
  <1>8. PollsOK'
    <2> SUFFICES ASSUME NEW d \in ControlRooms PROVE PollOK(d)'
      BY DEF PollsOK
    <2>1. CASE d = c
      BY <1>1, <2>1 DEF PollsOK, PollOK, PollSteps, LanesOK
    <2>2. CASE d # c
      BY <1>1, <2>2, Apart DEF PollsOK, PollOK
    <2> QED BY <2>1, <2>2
  <1>9. WritersOK'
    BY <1>1 DEF WritersOK, WriterOK, Procs
  <1>10. Register!Begin(c)
    BY <1>1, <1>3 DEF Register!Begin, Begin, PollsOK, PollOK
  <1> QED BY <1>2, <1>5, <1>6, <1>7, <1>8, <1>9, <1>10 DEF RegisterStep, Register!Next

\* A poll that goes on to another step and reads at most something.
LEMMA PollGoesOn ==
    ASSUME PlanInv, NEW c \in ControlRooms, NEW step \in {"compare", "lanes", "store"},
           at[c] # "idle",
           Go(c, step), TypeOK',
           \A d \in Procs \ {c} : mem'[d] = mem[d],
           mem'[c].version <= version,
           step = "compare" => mem'[c].version = version,
           step = "store" => /\ at[c] = "lanes" /\ mem'[c].lanes = lanes
                             /\ mem'[c].version = mem[c].version,
           UNCHANGED <<lanes, version, cache, view, commands, crashes, recent, allowed>>
    PROVE  PlanInv' /\ RegisterStep
  <1> USE DEF PlanInv
  <1>1. /\ c \in Procs /\ c \notin Writers /\ at'[c] = step
        /\ \A q \in Procs \ {c} : at'[q] = at[q]
    BY Apart DEF Go, TypeOK
  <1>2. Owed' = Owed
    BY <1>1 DEF Owed, Procs
  <1>3. ASSUME NEW plan \in Held'
        PROVE  \/ plan \in Held
               \/ step = "store" /\ plan.version = mem[c].version /\ plan.lanes = lanes
    <2>1. CASE plan \in cache
      BY <2>1 DEF Held
    <2>2. CASE plan \notin cache
      <3>1. PICK d \in ControlRooms : at'[d] = "store" /\ plan = Built(d)'
        BY <1>3, <2>2 DEF Held
      <3>2. CASE d = c
        BY <1>1, <3>1, <3>2 DEF Built
      <3>3. CASE d # c
        BY <1>1, <3>1, <3>3, Apart DEF Built, Held
      <3> QED BY <3>2, <3>3
    <2> QED BY <2>1, <2>2
  <1>4. lanes \in recent /\ recent \subseteq allowed[c]
    BY DEF LanesOK, PollsOK, PollOK
  <1>5. LanesOK'
    BY <1>2 DEF LanesOK
  <1>6. HeldOK'
    BY <1>3, <1>4 DEF HeldOK, Recent, PollsOK, PollOK
  <1>7. AnswersOK'
    <2> SUFFICES ASSUME NEW d \in ControlRooms, NEW plan \in Held' PROVE Answers(d, plan)'
      BY DEF AnswersOK
    <2>1. CASE d = c
      <3>1. CASE step = "compare"
        <4>1. plan \in Held
          BY <1>3, <3>1
        <4> QED BY <1>1, <1>4, <2>1, <3>1, <4>1 DEF Answers, HeldOK, Recent
      <3>2. CASE step # "compare"
        BY <1>1, <2>1, <3>2 DEF Answers
      <3> QED BY <3>1, <3>2
    <2>2. CASE d # c
      <3>1. at'[d] = at[d] /\ mem'[d] = mem[d]
        BY <1>1, <2>2, Apart
      <3>2. at[d] = "compare" => lanes \in allowed[d]
        BY DEF PollsOK, PollOK, LanesOK
      <3> QED BY <1>3, <3>1, <3>2 DEF Answers, AnswersOK
    <2> QED BY <2>1, <2>2
  <1>8. PollsOK'
    <2> SUFFICES ASSUME NEW d \in ControlRooms PROVE PollOK(d)'
      BY DEF PollsOK
    <2>1. CASE d = c
      BY <1>1, <1>4, <2>1 DEF PollsOK, PollOK, PollSteps
    <2>2. CASE d # c
      BY <1>1, <2>2, Apart DEF PollsOK, PollOK
    <2> QED BY <2>1, <2>2
  <1>9. WritersOK'
    BY <1>1 DEF WritersOK, WriterOK, Procs
  <1>10. UNCHANGED Register!rvars
    BY <1>2 DEF Register!rvars
  <1> QED BY <1>5, <1>6, <1>7, <1>8, <1>9, <1>10 DEF RegisterStep

\* The answer, from the cache or after the plan was built.
LEMMA AnswerOK ==
    ASSUME PlanInv, NEW c \in ControlRooms, at[c] # "idle",
           NEW seen \in allowed[c], Answer(c, seen),
           \A plan \in cache' : plan \in Held,
           cache' \in SUBSET Plan,
           UNCHANGED <<lanes, version, commands, crashes, recent>>
    PROVE  PlanInv' /\ RegisterStep
  <1> USE DEF PlanInv
  <1>1. /\ c \in Procs /\ c \notin Writers /\ at'[c] = "idle"
        /\ mem'[c] = Blank /\ allowed'[c] = {}
        /\ \A q \in Procs \ {c} : at'[q] = at[q] /\ mem'[q] = mem[q]
        /\ \A d \in ControlRooms \ {c} : allowed'[d] = allowed[d]
    BY Apart DEF Answer, Go, TypeOK
  <1>2. TypeOK'
    BY <1>1 DEF Answer, Go, TypeOK, Steps, Blank, Memory
  <1>3. Owed' = Owed
    BY <1>1 DEF Owed, Procs
  <1>4. ASSUME NEW plan \in Held'
        PROVE  plan \in Held
    <2>1. CASE plan \in cache'
      BY <2>1
    <2>2. CASE plan \notin cache'
      <3>1. PICK d \in ControlRooms : at'[d] = "store" /\ plan = Built(d)'
        BY <1>4, <2>2 DEF Held
      <3> QED BY <1>1, <3>1, Apart DEF Built, Held
    <2> QED BY <2>1, <2>2
  <1>5. LanesOK'
    BY <1>3 DEF LanesOK
  <1>6. HeldOK'
    BY <1>4 DEF HeldOK, Recent
  <1>7. AnswersOK'
    BY <1>1, <1>4, Apart DEF AnswersOK, Answers
  <1>8. PollsOK'
    <2> SUFFICES ASSUME NEW d \in ControlRooms PROVE PollOK(d)'
      BY DEF PollsOK
    <2>1. CASE d = c
      BY <1>1, <2>1 DEF PollOK, PollSteps, Blank, TypeOK
    <2>2. CASE d # c
      BY <1>1, <2>2, Apart DEF PollsOK, PollOK
    <2> QED BY <2>1, <2>2
  <1>9. WritersOK'
    BY <1>1 DEF WritersOK, WriterOK, Procs
  <1>10. Register!Answer(c)
    BY <1>3 DEF Register!Answer, Answer
  <1> QED BY <1>2, <1>5, <1>6, <1>7, <1>8, <1>9, <1>10 DEF RegisterStep, Register!Next

LEMMA PollStepsOK ==
    ASSUME PlanInv, NEW c \in ControlRooms, Poll(c)
    PROVE  PlanInv' /\ RegisterStep
  <1> USE DEF PlanInv
  <1>1. /\ c \in Procs /\ mem[c] \in Memory /\ lanes \in Lanes /\ version \in Nat
        /\ mem \in [Procs -> Memory] /\ mem[c].version <= version
    BY Apart DEF TypeOK, PollsOK, PollOK
  <1>2. CASE ReadVersion(c)
    <2>1. TypeOK'
      BY <1>1, <1>2 DEF ReadVersion, Go, TypeOK, Steps, Memory
    <2>2. mem'[c].version = version /\ \A d \in Procs \ {c} : mem'[d] = mem[d]
      BY <1>1, <1>2 DEF ReadVersion, Memory
    <2> QED BY <1>1, <1>2, <2>1, <2>2, PollGoesOn DEF ReadVersion
  <1>3. CASE Compare(c)
    <2>1. CASE /\ \A plan \in cache : plan.version # mem[c].version
               /\ Go(c, "lanes")
               /\ UNCHANGED <<mem, view, allowed>>
      <3>1. TypeOK'
        BY <1>1, <1>3, <2>1 DEF Compare, Go, TypeOK, Steps
      <3> QED BY <1>1, <1>3, <2>1, <3>1, PollGoesOn DEF Compare
    <2>2. ASSUME NEW plan \in cache, plan.version = mem[c].version, Answer(c, plan.lanes)
          PROVE  PlanInv' /\ RegisterStep
      <3>1. /\ plan \in Held /\ at[c] = "compare"
            /\ UNCHANGED <<lanes, version, cache, commands, crashes, recent>>
        BY <1>3 DEF Held, Compare
      <3>2. plan.lanes \in allowed[c]
        BY <2>2, <3>1 DEF AnswersOK, Answers
      <3>3. cache' \in SUBSET Plan /\ \A held \in cache' : held \in Held
        BY <3>1 DEF Held, TypeOK
      <3> QED BY <2>2, <3>1, <3>2, <3>3, AnswerOK
    <2> QED BY <1>3, <2>1, <2>2 DEF Compare
  <1>4. CASE ReadLanes(c)
    <2>1. TypeOK'
      BY <1>1, <1>4 DEF ReadLanes, Go, TypeOK, Steps, Memory
    <2>2. /\ mem'[c].lanes = lanes /\ mem'[c].version = mem[c].version
          /\ \A d \in Procs \ {c} : mem'[d] = mem[d]
      BY <1>1, <1>4 DEF ReadLanes, Memory
    <2> QED BY <1>1, <1>4, <2>1, <2>2, PollGoesOn DEF ReadLanes
  <1>5. CASE Store(c)
    <2>1. at[c] = "store" /\ mem[c].lanes \in allowed[c] /\ allowed[c] \subseteq Lanes
      BY <1>5 DEF Store, PollsOK, PollOK, TypeOK
    <2>2. Built(c) \in Held /\ Built(c) \in Plan
      BY <1>1, <2>1 DEF Held, Built, Plan, Memory
    <2>3. cache' \in SUBSET Plan /\ \A held \in cache' : held \in Held
      BY <1>5, <2>2 DEF Store
    <2> QED BY <1>5, <2>1, <2>3, AnswerOK DEF Store
  <1> QED BY <1>2, <1>3, <1>4, <1>5 DEF Poll

LEMMA ChangeOK ==
    ASSUME PlanInv, NEW p \in Commands, NEW new \in Lanes, Change(p, new)
    PROVE  PlanInv' /\ RegisterStep
  <1> USE DEF PlanInv
  <1>1. /\ p \in Procs /\ p \in Writers /\ p \notin ControlRooms /\ at'[p] = "bump"
        /\ \A q \in Procs \ {p} : at'[q] = at[q]
        /\ lanes' = new /\ recent' = recent \union {new}
        /\ UNCHANGED <<version, cache, mem, view>>
    BY Apart DEF Change, Go, TypeOK, Procs, Writers
  <1>2. \A d \in ControlRooms :
           allowed'[d] = IF allowed[d] = {} THEN {} ELSE allowed[d] \union {new}
    BY DEF Change
  <1>3. TypeOK'
    <2>1. allowed' \in [ControlRooms -> SUBSET Lanes]
      BY <1>2 DEF Change, TypeOK
    <2> QED BY <1>1, <2>1 DEF Change, Go, TypeOK, Steps
  <1>4. Owed' = Owed \union {p}
    BY <1>1 DEF Owed, Procs
  <1>5. Held' = Held
    <2>1. \A d \in ControlRooms : at'[d] = at[d]
      BY <1>1, Apart
    <2>2. \A d \in ControlRooms : Built(d)' = Built(d)
      BY <1>1 DEF Built
    <2> QED BY <1>1, <2>1, <2>2 DEF Held
  <1>6. LanesOK'
    BY <1>1, <1>4 DEF LanesOK
  <1>7. HeldOK'
    BY <1>1, <1>5 DEF HeldOK, Recent
  <1>8. AnswersOK'
    BY <1>1, <1>2, <1>5, Apart DEF AnswersOK, Answers
  <1>9. PollsOK'
    BY <1>1, <1>2, Apart DEF PollsOK, PollOK
  <1>10. WritersOK'
    BY <1>1 DEF WritersOK, WriterOK, WriterSteps, Procs
  <1>11. Register!Change(p, new)
    BY <1>1, <1>4 DEF Register!Change, Change
  <1> QED BY <1>1, <1>3, <1>6, <1>7, <1>8, <1>9, <1>10, <1>11 DEF RegisterStep, Register!Next

LEMMA BumpOK ==
    ASSUME PlanInv, SaversAlone, NEW p \in Writers, Bump(p)
    PROVE  PlanInv' /\ RegisterStep
  <1> USE DEF PlanInv
  <1>1. /\ p \in Procs /\ p \notin ControlRooms /\ at[p] = "bump" /\ at'[p] = "idle"
        /\ \A q \in Procs \ {p} : at'[q] = at[q] /\ mem'[q] = mem[q]
        /\ version \in Nat /\ version' = version + 1
        /\ UNCHANGED <<lanes, cache, view, allowed>>
    BY Apart DEF Bump, Go, TypeOK, Procs
  <1>2. Owed' = Owed \ {p}
    BY <1>1 DEF Owed, Procs
  <1>3. recent' = IF Owed' = {} THEN {lanes} ELSE recent
    BY <1>2 DEF Bump
  <1>4. lanes \in recent /\ recent' \subseteq recent
    BY <1>3 DEF LanesOK
  <1>5. TypeOK'
    BY <1>1, <1>4 DEF Bump, Go, TypeOK, Steps, Blank, Memory
  <1>6. Held' = Held
    <2>1. \A d \in ControlRooms : at'[d] = at[d] /\ mem'[d] = mem[d]
      BY <1>1, Apart
    <2>2. \A d \in ControlRooms : Built(d)' = Built(d)
      BY <2>1 DEF Built
    <2> QED BY <1>1, <2>1, <2>2 DEF Held
  <1>7. LanesOK'
    BY <1>1, <1>3, <1>4 DEF LanesOK
  <1>8. HeldOK'
    <2>1. \A plan \in Held : plan.version \in Nat
      BY Apart DEF Held, Built, TypeOK, Plan, Memory
    <2> QED BY <1>1, <1>6, <2>1 DEF HeldOK, Recent
  <1>9. AnswersOK'
    BY <1>1, <1>6, Apart DEF AnswersOK, Answers
  <1>10. PollsOK'
    <2> SUFFICES ASSUME NEW d \in ControlRooms PROVE PollOK(d)'
      BY DEF PollsOK
    <2>1. mem[d].version \in Nat
      BY Apart DEF TypeOK, Memory
    <2> QED BY <1>1, <1>4, <2>1, Apart DEF PollsOK, PollOK
  <1>11. WritersOK'
    <2> SUFFICES ASSUME NEW q \in Writers PROVE WriterOK(q)'
      BY DEF WritersOK
    <2>1. CASE q = p
      BY <1>1, <2>1 DEF WriterOK, WriterSteps
    <2>2. CASE q # p
      BY <1>1, <2>2 DEF WritersOK, WriterOK, SaversAlone, Procs
    <2> QED BY <2>1, <2>2
  <1>12. Register!Announce(p)
    BY <1>1, <1>2, <1>3 DEF Register!Announce
  <1> QED BY <1>5, <1>7, <1>8, <1>9, <1>10, <1>11, <1>12 DEF RegisterStep, Register!Next

\* A command that saves the tournament loads it or finds what to write.
LEMMA LoadDiffOK ==
    ASSUME PlanInv, NEW p \in Savers, Load(p) \/ Diff(p)
    PROVE  PlanInv' /\ RegisterStep
  <1> USE DEF PlanInv
  <1>1. /\ p \in Procs /\ p \in Writers /\ p \notin ControlRooms
        /\ at'[p] \in {"diff", "write"} /\ at[p] # "bump"
        /\ \A q \in Procs \ {p} : at'[q] = at[q] /\ mem'[q] = mem[q]
        /\ UNCHANGED <<lanes, version, cache, view, recent, allowed>>
    BY Apart DEF Load, Diff, Go, TypeOK, Procs, Writers
  <1>2. mem'[p].version = version /\ (at'[p] = "write" => ~mem'[p].dirty)
    <2>1. CASE Load(p)
      BY <1>1, <2>1 DEF Load, Go, TypeOK, Memory
    <2>2. CASE Diff(p)
      <3>1. at[p] = "diff" /\ mem[p] \in Memory /\ mem \in [Procs -> Memory]
        BY <1>1, <2>2 DEF Diff, TypeOK
      <3>2. mem[p].version = version
        BY <1>1, <3>1 DEF WritersOK, WriterOK
      <3> QED BY <1>1, <2>2, <3>1, <3>2 DEF Diff, Go, Memory
    <2> QED BY <2>1, <2>2
  <1>3. TypeOK'
    <2>1. mem' \in [Procs -> Memory]
      <3>1. CASE Load(p)
        BY <1>1, <3>1 DEF Load, TypeOK, Memory
      <3>2. CASE Diff(p)
        BY ZenonT(40), <1>1, <3>2 DEF Diff, TypeOK, Memory
      <3> QED BY <3>1, <3>2
    <2> QED BY <1>1, <2>1 DEF Load, Diff, Go, TypeOK, Steps
  <1>4. Owed' = Owed
    BY <1>1 DEF Owed, Procs
  <1>5. Held' = Held
    <2>1. \A d \in ControlRooms : at'[d] = at[d] /\ mem'[d] = mem[d]
      BY <1>1, Apart
    <2>2. \A d \in ControlRooms : Built(d)' = Built(d)
      BY <2>1 DEF Built
    <2> QED BY <1>1, <2>1, <2>2 DEF Held
  <1>6. LanesOK' /\ HeldOK'
    BY <1>1, <1>4, <1>5 DEF LanesOK, HeldOK, Recent
  <1>7. AnswersOK'
    BY <1>1, <1>5, Apart DEF AnswersOK, Answers
  <1>8. PollsOK'
    BY <1>1, Apart DEF PollsOK, PollOK
  <1>9. WritersOK'
    BY <1>1, <1>2 DEF WritersOK, WriterOK, WriterSteps, Procs
  <1>10. UNCHANGED Register!rvars
    BY <1>1, <1>4 DEF Register!rvars
  <1> QED BY <1>3, <1>6, <1>7, <1>8, <1>9, <1>10 DEF RegisterStep

\* It writes a version back only if it is still the table's.
LEMMA WriteOK ==
    ASSUME PlanInv, NEW p \in Savers, Write(p)
    PROVE  PlanInv' /\ RegisterStep
  <1> USE DEF PlanInv
  <1>1. /\ p \in Procs /\ p \in Writers /\ p \notin ControlRooms /\ at'[p] = "bump"
        /\ \A q \in Procs \ {p} : at'[q] = at[q]
        /\ UNCHANGED <<lanes, version, cache, mem, view, commands, crashes, recent, allowed>>
    BY Apart DEF Write, Go, TypeOK, Procs, Writers, WritersOK, WriterOK
  <1>2. TypeOK'
    BY <1>1 DEF Write, Go, TypeOK, Steps
  <1>3. Owed' = Owed \union {p}
    BY <1>1 DEF Owed, Procs
  <1>4. Held' = Held
    <2>1. \A d \in ControlRooms : at'[d] = at[d]
      BY <1>1, Apart
    <2>2. \A d \in ControlRooms : Built(d)' = Built(d)
      BY <1>1 DEF Built
    <2> QED BY <1>1, <2>1, <2>2 DEF Held
  <1>5. LanesOK' /\ HeldOK'
    BY <1>1, <1>3, <1>4 DEF LanesOK, HeldOK, Recent
  <1>6. AnswersOK'
    BY <1>1, <1>4, Apart DEF AnswersOK, Answers
  <1>7. PollsOK'
    BY <1>1, Apart DEF PollsOK, PollOK
  <1>8. WritersOK'
    BY <1>1 DEF WritersOK, WriterOK, WriterSteps, Procs
  <1>9. Register!Change(p, lanes)
    <2>1. recent = recent \union {lanes}
      BY DEF LanesOK
    <2>2. allowed = [d \in ControlRooms |->
                        IF allowed[d] = {} THEN {} ELSE allowed[d] \union {lanes}]
      <3>1. \A d \in ControlRooms : allowed[d] # {} => lanes \in allowed[d]
        BY DEF LanesOK, PollsOK, PollOK
      <3>2. \A d \in ControlRooms :
               allowed[d] = IF allowed[d] = {} THEN {} ELSE allowed[d] \union {lanes}
        BY <3>1
      <3> QED BY <3>2 DEF TypeOK
    <2> QED BY <1>1, <1>3, <2>1, <2>2 DEF Register!Change
  <1>10. lanes \in Lanes
    BY DEF TypeOK
  <1> QED BY <1>1, <1>2, <1>5, <1>6, <1>7, <1>8, <1>9, <1>10 DEF RegisterStep, Register!Next

LEMMA CrashOK ==
    ASSUME PlanInv, Crash
    PROVE  PlanInv' /\ RegisterStep
  <1> USE DEF PlanInv
  <1>1. /\ \A q \in Procs : at'[q] = "idle" /\ mem'[q] = Blank
        /\ \A d \in ControlRooms : allowed'[d] = {}
    BY DEF Crash
  <1>2. TypeOK'
    BY DEF Crash, TypeOK, Steps, Blank, Memory
  <1>3. Owed' = {} /\ Held' = {}
    BY <1>1, Apart DEF Crash, Owed, Held, Procs
  <1>4. LanesOK' /\ HeldOK' /\ AnswersOK'
    BY <1>3 DEF Crash, LanesOK, HeldOK, AnswersOK
  <1>5. PollsOK'
    <2>1. version' \in Nat /\ Blank.version = 0
      BY <1>2 DEF TypeOK, Blank
    <2> QED BY <1>1, <2>1, Apart DEF PollsOK, PollOK, PollSteps
  <1>6. WritersOK'
    BY <1>1 DEF WritersOK, WriterOK, WriterSteps, Procs
  <1>7. Register!Restart
    BY <1>3 DEF Register!Restart, Crash
  <1> QED BY <1>2, <1>4, <1>5, <1>6, <1>7 DEF RegisterStep, Register!Next

LEMMA InitOK ==
    ASSUME Init
    PROVE  PlanInv /\ Register!Init
  <1>1. TypeOK
    BY DEF Init, TypeOK, Steps, Blank, Memory
  <1>2. Owed = {} /\ Held = {}
    BY Apart DEF Init, Owed, Held, Procs
  <1>3. LanesOK /\ HeldOK /\ AnswersOK
    BY <1>2 DEF Init, LanesOK, HeldOK, AnswersOK
  <1>4. PollsOK
    BY Apart DEF Init, PollsOK, PollOK, PollSteps, Blank
  <1>5. WritersOK
    BY DEF Init, WritersOK, WriterOK, WriterSteps, Procs
  <1>6. Register!Init
    BY <1>2 DEF Init, Register!Init
  <1> QED BY <1>1, <1>3, <1>4, <1>5, <1>6 DEF PlanInv

LEMMA StepOK ==
    ASSUME SaversAlone, PlanInv, [Next]_vars
    PROVE  PlanInv' /\ RegisterStep
  <1>1. CASE Next
    BY <1>1, BeginOK, PollStepsOK, ChangeOK, BumpOK, LoadDiffOK, WriteOK, CrashOK DEF Next
  <1>2. CASE UNCHANGED vars
    <2>1. Owed' = Owed /\ Held' = Held
      BY <1>2 DEF vars, Owed, Held, Built
    <2>2. PlanInv'
      BY <1>2, <2>1 DEF vars, PlanInv, TypeOK, LanesOK, HeldOK, Recent, AnswersOK, Answers,
                        PollsOK, PollOK, WritersOK, WriterOK
    <2>3. UNCHANGED Register!rvars
      BY <1>2, <2>1 DEF vars, Register!rvars
    <2> QED BY <2>2, <2>3 DEF RegisterStep
  <1> QED BY <1>1, <1>2

-----------------------------------------------------------------------------
\* With nothing left to announce, the cached plan is the one that would be
\* built without it, however polls, commands and restarts interleave.
THEOREM CacheStaysCurrent ==
    ASSUME SaversAlone
    PROVE  Spec => []CacheIsCurrent
  <1>1. Init => PlanInv
    BY InitOK
  <1>2. PlanInv /\ [Next]_vars => PlanInv'
    BY StepOK
  <1>3. PlanInv => CacheIsCurrent
    BY DEF PlanInv, CacheIsCurrent, LanesOK, HeldOK, Recent, Held
  <1> QED BY <1>1, <1>2, <1>3, PTL DEF Spec

\* Every poll answers what the register allows: the lanes since the last moment
\* before it when everything was announced.
THEOREM PlanImplementsRegister ==
    ASSUME SaversAlone
    PROVE  Spec => AnswersAreAllowed
  <1>1. Init => PlanInv /\ Register!Init
    BY InitOK
  <1>2. PlanInv /\ [Next]_vars => PlanInv' /\ RegisterStep
    BY StepOK
  <1> QED BY <1>1, <1>2, PTL DEF Spec, AnswersAreAllowed, Register!Spec, RegisterStep
=============================================================================
