--------------------------- MODULE ScheduleProofs ---------------------------
(***************************************************************************)
(* Safety of Schedule: its types; that the boards stay sound whoever edits *)
(* them; that every schedule row is one the aggregate could have produced, *)
(* when one desk at a time edits schedules; and, when the requests come    *)
(* one after the other, that runs skip nothing, a closed tournament comes  *)
(* to a halt, only current matches are active, and a run that is left to   *)
(* itself stands where its matches say.                                    *)
(***************************************************************************)
EXTENDS Schedule, SequenceTheorems, FiniteSetTheorems, WellFoundedInduction, TLAPS

-----------------------------------------------------------------------------
(* Rows.                                                                   *)

\* Each method of the aggregate makes a row of a row.
LEMMA RowTypes ==
    ASSUME NEW row \in Row, NEW e \in Matches \union {NoMatch}
    PROVE  /\ NoRow \in Row
           /\ Created \in Row
           /\ Started(row, e) \in Row
           /\ \A code \in InterruptionCodes \union {"none"} : Stopped(row, code) \in Row
           /\ InterruptedRun(row, e) \in Row
           /\ \A code \in StaleCodes : WaitingAt(row, e, code) \in Row
           /\ Activated(row, e) \in Row
           /\ Completed(row) \in Row
           /\ Archived(row) \in Row
           /\ Unarchived(row) \in Row
           /\ [row EXCEPT !.current = NoMatch] \in Row
  BY DEF Row, NoRow, Created, Started, Stopped, InterruptedRun, WaitingAt,
         Activated, Completed, Archived, Unarchived, Statuses, StaleCodes,
         InterruptionCodes

\* A save writes a mixture of two rows.
LEMMA MergedType ==
    ASSUME NEW old \in Row, NEW new \in Row, NEW delta
    PROVE  Merged(old, new, delta) \in Row
  BY DEF Row, Merged

\* Activations change nothing else of a match.
LEMMA WithActiveType ==
    ASSUME match \in [Matches -> MatchRow], NEW off, NEW on
    PROVE  WithActive(off, on) \in [Matches -> MatchRow]
  BY DEF WithActive, MatchRow

-----------------------------------------------------------------------------
(* Queues of steps.                                                        *)

\* A set of schedules or matches can be put in order, and every order is a
\* sequence of its elements.
LEMMA OrderType ==
    ASSUME NEW S, IsFiniteSet(S), NEW order \in OrdersOf(S)
    PROVE  order \in Seq(S)
  <1>1. Cardinality(S) \in Nat
    BY FS_CardinalityType
  <1>2. order \in [1..Cardinality(S) -> S]
    BY DEF OrdersOf
  <1> QED BY <1>1, <1>2, SeqDef

\* A record is a step if it names what the step is about.
LEMMA TaskIntro ==
    ASSUME NEW steps, NEW t,
           t \in [step : steps, on : Schedules \union {NoSchedule},
                  at : Matches \union {NoMatch}, who : Players \union {NoPlayer},
                  code : InterruptionCodes \union {"none"}],
           t.step \in ScheduleSteps => t.on \in Schedules,
           t.step \in MatchSteps => t.at \in Matches,
           t.step \in {"place", "unplace"} => t.who \in Players
    PROVE  t \in TaskOf(steps)
  BY DEF TaskOf

\* The steps the actions build.
LEMMA TaskTypes ==
    /\ Idle \in Task
    /\ Queued \subseteq Task
    /\ \A s \in Schedules :
          /\ \A step \in {"diffRow", "writeRow", "removeRow", "settle", "rewrite"} :
                OnSchedule(step, s) \in Task
          /\ \A step \in {"deactivateEvery", "read"} : OnSchedule(step, s) \in Queued
          /\ \A code \in InterruptionCodes \union {"none"} : StopOf(s, code) \in Queued
          /\ \A m \in Matches : [OnSchedule("interrupt", s) EXCEPT !.at = m] \in Task
    /\ \A m \in Matches :
          /\ AtMatch("prepareReopen", m) \in Task
          /\ \A step \in {"findSchedule", "guardRollback", "checkManual", "save"}
                         \union (MatchOps \ {"activate"}) : AtMatch(step, m) \in Queued
          /\ \A step \in {"place", "unplace"}, q \in Players : Seating(step, m, q) \in Queued
    /\ [Idle EXCEPT !.step = "listRunning"] \in Task
    /\ [Idle EXCEPT !.step = "reconcile"] \in Task
  <1> USE DEF Task, Queued, OwnSteps, QueuedSteps, ScheduleSteps, MatchSteps, MatchOps,
              InterruptionCodes
  <1>1. /\ Idle \in Task
        /\ [Idle EXCEPT !.step = "listRunning"] \in Task
        /\ [Idle EXCEPT !.step = "reconcile"] \in Task
    BY TaskIntro DEF Idle
  <1>2. Queued \subseteq Task
    BY DEF TaskOf
  <1>3. ASSUME NEW s \in Schedules
        PROVE  /\ \A step \in {"diffRow", "writeRow", "removeRow", "settle", "rewrite"} :
                     OnSchedule(step, s) \in Task
               /\ \A step \in {"deactivateEvery", "read"} : OnSchedule(step, s) \in Queued
               /\ \A code \in InterruptionCodes \union {"none"} : StopOf(s, code) \in Queued
               /\ \A m \in Matches : [OnSchedule("interrupt", s) EXCEPT !.at = m] \in Task
    <2>1. ASSUME NEW step \in {"diffRow", "writeRow", "removeRow", "settle", "rewrite"}
          PROVE  OnSchedule(step, s) \in Task
      BY TaskIntro DEF OnSchedule, Idle
    <2>2. ASSUME NEW step \in {"deactivateEvery", "read"}
          PROVE  OnSchedule(step, s) \in Queued
      BY TaskIntro DEF OnSchedule, Idle
    <2>3. ASSUME NEW code \in InterruptionCodes \union {"none"}
          PROVE  StopOf(s, code) \in Queued
      BY TaskIntro DEF StopOf, OnSchedule, Idle
    <2>4. ASSUME NEW m \in Matches
          PROVE  [OnSchedule("interrupt", s) EXCEPT !.at = m] \in Task
      BY TaskIntro DEF OnSchedule, Idle
    <2> QED BY <2>1, <2>2, <2>3, <2>4
  <1>4. ASSUME NEW m \in Matches
        PROVE  /\ AtMatch("prepareReopen", m) \in Task
               /\ \A step \in {"findSchedule", "guardRollback", "checkManual", "save"}
                              \union (MatchOps \ {"activate"}) : AtMatch(step, m) \in Queued
               /\ \A step \in {"place", "unplace"}, q \in Players :
                     Seating(step, m, q) \in Queued
    <2>1. AtMatch("prepareReopen", m) \in Task
      BY TaskIntro DEF AtMatch, Idle
    <2>2. ASSUME NEW step \in {"findSchedule", "guardRollback", "checkManual", "save"}
                              \union (MatchOps \ {"activate"})
          PROVE  AtMatch(step, m) \in Queued
      BY TaskIntro DEF AtMatch, Idle
    <2>3. ASSUME NEW step \in {"place", "unplace"}, NEW q \in Players
          PROVE  Seating(step, m, q) \in Queued
      BY TaskIntro DEF Seating, AtMatch, Idle
    <2> QED BY <2>1, <2>2, <2>3
  <1> QED BY <1>1, <1>2, <1>3, <1>4

-----------------------------------------------------------------------------
(* What a request holds.                                                   *)

\* A queued save has its match in memory.
Loaded(task, memory) == task.step = "save" => memory.copy[task.at] \in MatchRow

SavesAreLoaded ==
    \A p \in Procs :
        /\ Loaded(at[p], mem[p])
        /\ \A i \in DOMAIN todo[p] : Loaded(todo[p][i], mem[p])

LocalTypes ==
    /\ at \in [Procs -> Task]
    /\ todo \in [Procs -> Seq(Queued)]
    /\ mem \in [Procs -> Memory]

LocalOK == LocalTypes /\ SavesAreLoaded

\* The inductive invariant.
TypeInv == TypeOK /\ SavesAreLoaded

LEMMA BlankType == Blank \in Memory
  <1>1. NoRow \in Row
    BY DEF Row, NoRow, Statuses
  <1>2. Blank.plan \in Plan
    BY <1>1 DEF Blank, Plan
  <1>3. <<>> \in Seq(Matches)
    BY EmptySeq
  <1> QED BY <1>1, <1>2, <1>3 DEF Blank, Memory

\* memory holds every match that p has loaded.
Keeps(p, memory) ==
    \A m \in Matches : mem[p].copy[m] \in MatchRow => memory.copy[m] \in MatchRow

\* p has moved on to a queued step, or is done; nobody else has moved.
MovesOn(p) ==
    /\ LocalOK'
    /\ at'[p].step \in QueuedSteps \union {"idle"}
    /\ at'[p].step = "idle" => at'[p] = Idle /\ todo'[p] = <<>>
    /\ \A q \in Procs \ {p} : at'[q] = at[q] /\ todo'[q] = todo[q] /\ mem'[q] = mem[q]

LEMMA FinishLocal ==
    ASSUME LocalOK, NEW p \in Procs, Finish(p)
    PROVE  MovesOn(p)
  <1> USE DEF LocalOK, LocalTypes, Finish
  <1>1. Idle \in Task /\ Blank \in Memory /\ <<>> \in Seq(Queued)
    BY TaskTypes, BlankType, EmptySeq
  <1>2. LocalTypes'
    BY <1>1
  <1>3. SavesAreLoaded'
    BY DEF SavesAreLoaded, Loaded, Idle
  <1> QED BY <1>2, <1>3 DEF MovesOn, Idle

LEMMA DirectlyLocal ==
    ASSUME LocalOK, NEW p \in Procs, NEW memory \in Memory, NEW task \in Task,
           Keeps(p, memory), Loaded(task, memory), Directly(p, memory, task)
    PROVE  LocalOK'
  <1> USE DEF LocalOK, LocalTypes, Directly
  <1>1. LocalTypes'
    OBVIOUS
  <1>2. SavesAreLoaded'
    <2>1. ASSUME NEW i \in DOMAIN todo[p]
          PROVE  Loaded(todo[p][i], memory)
      <3>1. todo[p][i] \in Queued
        BY ElementOfSeq
      <3>2. todo[p][i].step = "save" => todo[p][i].at \in Matches
        BY <3>1 DEF Queued, TaskOf, MatchSteps
      <3> QED BY <3>2 DEF Keeps, SavesAreLoaded, Loaded
    <2> QED BY <2>1 DEF SavesAreLoaded
  <1> QED BY <1>1, <1>2

LEMMA ThenLocal ==
    ASSUME LocalOK, NEW p \in Procs, NEW memory \in Memory, NEW more \in Seq(Queued),
           Keeps(p, memory), \A i \in DOMAIN more : Loaded(more[i], memory),
           Then(p, memory, more)
    PROVE  MovesOn(p)
  <1> DEFINE next == more \o todo[p]
  <1>1. next \in Seq(Queued)
    BY ConcatProperties DEF LocalOK, LocalTypes
  <1>2. ASSUME NEW i \in DOMAIN todo[p]
        PROVE  Loaded(todo[p][i], memory)
    <2>1. todo[p][i] \in Queued
      BY ElementOfSeq DEF LocalOK, LocalTypes
    <2>2. todo[p][i].step = "save" => todo[p][i].at \in Matches
      BY <2>1 DEF Queued, TaskOf, MatchSteps
    <2> QED BY <2>2 DEF Keeps, LocalOK, SavesAreLoaded, Loaded
  <1>3. ASSUME NEW i \in DOMAIN next
        PROVE  Loaded(next[i], memory)
    <2>1. /\ i \in 1..(Len(more) + Len(todo[p]))
          /\ next[i] = IF i <= Len(more) THEN more[i] ELSE todo[p][i - Len(more)]
      BY ConcatProperties DEF LocalOK, LocalTypes
    <2>2. CASE i <= Len(more)
      BY <2>1, <2>2, LenProperties
    <2>3. CASE ~(i <= Len(more))
      <3>1. i - Len(more) \in DOMAIN todo[p]
        BY <2>1, <2>3, LenProperties DEF LocalOK, LocalTypes
      <3> QED BY <1>2, <2>1, <2>3, <3>1
    <2> QED BY <2>2, <2>3
  <1>4. CASE next = <<>>
    BY <1>4, FinishLocal DEF Then
  <1>5. CASE next # <<>>
    <2>1. /\ at' = [at EXCEPT ![p] = Head(next)]
          /\ todo' = [todo EXCEPT ![p] = Tail(next)]
          /\ mem' = [mem EXCEPT ![p] = memory]
      BY <1>5 DEF Then
    <2>2. /\ Head(next) \in Queued /\ Tail(next) \in Seq(Queued)
          /\ Head(next) = next[1] /\ 1 \in DOMAIN next
          /\ \A i \in DOMAIN Tail(next) : i + 1 \in DOMAIN next /\ Tail(next)[i] = next[i + 1]
      BY <1>1, <1>5, HeadTailProperties, LenProperties
    <2>3. LocalTypes'
      BY <2>1, <2>2, TaskTypes DEF LocalOK, LocalTypes
    <2>4. Loaded(Head(next), memory) /\ \A i \in DOMAIN Tail(next) : Loaded(Tail(next)[i], memory)
      BY <1>3, <2>2
    <2>5. SavesAreLoaded'
      BY <2>1, <2>4 DEF LocalOK, LocalTypes, SavesAreLoaded
    <2>6. /\ at'[p].step \in QueuedSteps
          /\ \A q \in Procs \ {p} : at'[q] = at[q] /\ todo'[q] = todo[q] /\ mem'[q] = mem[q]
      BY <2>1, <2>2 DEF LocalOK, LocalTypes, Queued, TaskOf
    <2> QED BY <2>3, <2>5, <2>6 DEF LocalOK, MovesOn, QueuedSteps, MatchOps
  <1> QED BY <1>4, <1>5

-----------------------------------------------------------------------------
(* The verdict.                                                            *)

\* A set of positions that is not empty has a first one.
LEMMA FirstExists ==
    ASSUME NEW S \in SUBSET Nat, S # {}
    PROVE  \E i \in S : \A j \in S : i <= j
  <1> DEFINE R == {pair \in Nat \X Nat : pair[1] < pair[2]}
  <1>1. IsWellFoundedOn(R, Nat)
    BY NatLessThanWellFounded DEF OpToRel
  <1>2. PICK i \in S : \A j \in S : <<j, i>> \notin R
    <2> HIDE DEF R
    <2> QED BY <1>1, WFMin
  <1>3. ASSUME NEW j \in S
        PROVE  i <= j
    <2>1. ~(i > j)
      BY <1>2
    <2> QED BY <2>1
  <1> QED BY <1>3

BoardsTyped == entries \in [Schedules -> Seq(Matches \union {NoMatch})]

\* The walk looks at entries of the schedule and stops at one of them.
LEMMA WalkTypes ==
    ASSUME BoardsTyped, NEW s \in Schedules
    PROVE  /\ Positions(s) \subseteq Nat
           /\ EntriesOf(s) \subseteq Matches
           /\ Walked(s) \subseteq EntriesOf(s)
           /\ Unpassed(s) # {} => entries[s][HaltIndex(s)] \in EntriesOf(s)
  <1>1. /\ entries[s] \in Seq(Matches \union {NoMatch})
        /\ DOMAIN entries[s] \subseteq Nat
    BY LenProperties DEF BoardsTyped
  <1>2. ASSUME NEW i \in Positions(s)
        PROVE  i \in Nat /\ entries[s][i] \in Matches
    BY <1>1, ElementOfSeq DEF Positions
  <1>3. Walked(s) \subseteq EntriesOf(s)
    BY DEF Walked, EntriesOf
  <1>4. ASSUME Unpassed(s) # {}
        PROVE  HaltIndex(s) \in Unpassed(s)
    <2>1. Unpassed(s) \subseteq Nat
      BY <1>2 DEF Unpassed
    <2> QED BY <1>4, <2>1, FirstExists DEF HaltIndex
  <1> QED BY <1>2, <1>3, <1>4 DEF EntriesOf, Unpassed

LEMMA VerdictType ==
    ASSUME NEW m, NEW isCurrent, NEW off
    PROVE  Verdict(m, isCurrent, off) \in StaleCodes \union {"eligible"}
  BY DEF Verdict, LocalVerdict, StaleCodes

LEMMA DecisionType ==
    ASSUME BoardsTyped, sched \in [Schedules -> Row], NEW s \in Schedules
    PROVE  Decision(s) \in Plan
  <1> DEFINE off == {m \in Walked(s) : match[m].active}
             halt == entries[s][HaltIndex(s)]
             verdict == Verdict(halt, halt = sched[s].current, off)
  <1>1. off \in SUBSET Matches /\ (Unpassed(s) # {} => halt \in Matches)
    BY WalkTypes
  <1>2. verdict \in StaleCodes \union {"eligible"}
    BY VerdictType
  <1>3. /\ Completed(sched[s]) \in Row
        /\ halt \in Matches => Activated(sched[s], halt) \in Row
        /\ halt \in Matches /\ verdict # "eligible" => WaitingAt(sched[s], halt, verdict) \in Row
    BY <1>2, RowTypes
  <1> QED BY <1>1, <1>2, <1>3 DEF Decision, Plan

-----------------------------------------------------------------------------
(* Matches and what follows their edits.                                   *)

LEMMA ResettledType ==
    ASSUME NEW c \in MatchRow
    PROVE  Resettled(c) \subseteq MatchRow
  BY DEF Resettled, MatchRow, MatchStates

LEMMA PlayerTypes ==
    ASSUME NEW c \in MatchRow, NEW q \in Players
    PROVE  WithPlayer(c, q) \in MatchRow /\ WithoutPlayer(c, q) \subseteq MatchRow
  <1>1. WithPlayer(c, q) \in MatchRow
    BY DEF WithPlayer, MatchRow, MatchStates
  <1>2. [c EXCEPT !.players = @ \ {q}] \in MatchRow
    BY DEF MatchRow
  <1> QED BY <1>1, <1>2, ResettledType DEF WithoutPlayer

LEMMA EditedType ==
    ASSUME NEW c \in MatchRow, NEW o \in MatchOps \ {"activate"}
    PROVE  Edited(o, c) \subseteq MatchRow
  <1>1. c.players \subseteq Players
    BY DEF MatchRow
  <1>2. /\ \A b \in BOOLEAN : [c EXCEPT !.rounds = b] \in MatchRow
        /\ [c EXCEPT !.rounds = TRUE] \in MatchRow
        /\ [c EXCEPT !.state = "completed", !.active = FALSE] \in MatchRow
        /\ [c EXCEPT !.state = "ready"] \in MatchRow
        /\ \A x \in MatchRow : [x EXCEPT !.active = FALSE] \in MatchRow
    BY DEF MatchRow, MatchStates
  <1>3. CASE o \in {"score", "run"}
    BY <1>3, ResettledType DEF Edited
  <1>4. CASE o = "shape"
    <2> SUFFICES ASSUME NEW x \in Edited(o, c)
                 PROVE  x \in MatchRow
      OBVIOUS
    <2>1. \/ \E q \in Players \ c.players : x = WithPlayer(c, q)
          \/ \E q \in c.players : x \in WithoutPlayer(c, q)
          \/ x = [c EXCEPT !.rounds = TRUE]
      BY <1>4 DEF Edited
    <2> QED BY <1>1, <1>2, <2>1, PlayerTypes
  <1>5. CASE o = "rollback"
    <2> SUFFICES ASSUME NEW x \in Edited(o, c)
                 PROVE  x \in MatchRow
      OBVIOUS
    <2>1. \/ \E b \in BOOLEAN : x \in Resettled([c EXCEPT !.rounds = b])
          \/ \E q \in c.players : x \in WithoutPlayer(c, q)
      BY <1>5 DEF Edited
    <2> QED BY <1>1, <1>2, <2>1, PlayerTypes, ResettledType
  <1>6. CASE o = "commit"
    BY <1>2, <1>6 DEF Edited
  <1>7. CASE o = "reopen"
    <2>1. Resettled([c EXCEPT !.state = "ready"]) \subseteq MatchRow
      BY <1>2, ResettledType
    <2> QED BY <1>2, <1>7, <2>1 DEF Edited
  <1> QED BY <1>3, <1>4, <1>5, <1>6, <1>7 DEF MatchOps

\* Steps that save no match but m, seat nobody in m, or find a schedule.
SavingOnly(m) ==
    {q \in Queued : /\ q.step = "save" => q.at = m
                    /\ q.step \in {"place", "unplace"} => q.at # m
                    /\ q.step \in {"save", "findSchedule", "place", "unplace"}}

LEMMA SeatingType ==
    ASSUME NEW c \in MatchRow, NEW m \in Matches, NEW step \in {"place", "unplace"},
           NEW seats \in SeatingOf(step, m, c)
    PROVE  seats \in Seq(SavingOnly(m))
  <1>1. CASE c.players = {}
    BY <1>1, EmptySeq DEF SeatingOf
  <1>2. CASE c.players # {}
    <2>1. Winner(c) \in Players
      BY <1>2 DEF Winner, MatchRow
    <2>2. /\ Targets(m) \subseteq Matches /\ IsFiniteSet(Targets(m))
          /\ m \notin Targets(m)
      BY ScheduleAssumption, FS_Subset DEF Targets
    <2>3. PICK order \in OrdersOf(Targets(m)) :
             seats = [i \in DOMAIN order |-> Seating(step, order[i], Winner(c))]
      BY <1>2 DEF SeatingOf
    <2>4. order \in Seq(Targets(m))
      BY <2>2, OrderType
    <2>5. /\ Len(order) \in Nat /\ DOMAIN order = 1..Len(order)
          /\ \A i \in DOMAIN order : order[i] \in Matches /\ order[i] # m
      BY <2>2, <2>4, LenProperties, ElementOfSeq
    <2>6. \A i \in DOMAIN order : Seating(step, order[i], Winner(c)) \in SavingOnly(m)
      BY <2>1, <2>5, TaskTypes DEF SavingOnly, Seating, AtMatch, Idle, MatchOps
    <2> QED BY <2>3, <2>5, <2>6, IsASeq
  <1> QED BY <1>1, <1>2

LEMMA FollowUpsType ==
    ASSUME NEW o \in MatchOps \ {"activate"}, NEW m \in Matches,
           NEW before \in MatchRow, NEW after \in MatchRow,
           NEW more \in FollowUps(o, m, before, after)
    PROVE  more \in Seq(SavingOnly(m))
  <1> DEFINE saved == <<AtMatch("save", m)>>
             recalculated == <<AtMatch("findSchedule", m)>>
             ifMoved == IF Moved(before, after) THEN recalculated ELSE <<>>
             reverts == IF before.state = "completed"
                        THEN SeatingOf("unplace", m, before) ELSE {<<>>}
  <1>1. /\ AtMatch("save", m) \in SavingOnly(m)
        /\ AtMatch("findSchedule", m) \in SavingOnly(m)
    BY TaskTypes DEF SavingOnly, AtMatch, Idle, MatchOps
  <1>2. /\ <<>> \in Seq(SavingOnly(m))
        /\ saved \in Seq(SavingOnly(m)) /\ recalculated \in Seq(SavingOnly(m))
        /\ ifMoved \in Seq(SavingOnly(m))
    BY <1>1, EmptySeq
  <1>3. /\ \A undo \in reverts : undo \in Seq(SavingOnly(m))
        /\ \A advance \in SeatingOf("place", m, after) : advance \in Seq(SavingOnly(m))
    BY <1>2, SeatingType
  <1>4. CASE o \in {"score", "run", "shape", "rollback"}
    <2>1. more \in {saved \o ifMoved, saved \o recalculated}
      BY <1>4 DEF FollowUps
    <2> HIDE DEF saved, recalculated, ifMoved
    <2> QED BY <1>2, <2>1, ConcatProperties
  <1>5. CASE o = "commit"
    <2>1. \/ \E undo \in reverts, advance \in SeatingOf("place", m, after) :
                more = undo \o saved \o advance \o ifMoved
          \/ more \in reverts
      BY <1>5 DEF FollowUps
    <2> HIDE DEF saved, ifMoved, reverts
    <2> QED BY <1>2, <1>3, <2>1, ConcatProperties
  <1>6. CASE o = "reopen"
    <2>1. \E undo \in reverts : more = undo \o saved \o ifMoved
      BY <1>6 DEF FollowUps
    <2> HIDE DEF saved, ifMoved, reverts
    <2> QED BY <1>2, <1>3, <2>1, ConcatProperties
  <1> QED BY <1>4, <1>5, <1>6 DEF MatchOps

-----------------------------------------------------------------------------
(* Steps.                                                                  *)

DbTypes ==
    /\ tournament \in {"open", "closed"}
    /\ sched \in [Schedules -> Row]
    /\ entries \in [Schedules -> Seq(Matches \union {NoMatch})]
    /\ match \in [Matches -> MatchRow]
    /\ lockedBy \in [Schedules -> Procs \union {NoProc}]
    /\ crashes \in Nat

LEMMA TypeInvSplit == TypeInv <=> DbTypes /\ LocalOK
  BY DEF TypeInv, TypeOK, DbTypes, LocalOK, LocalTypes

LEMMA TypeInvSplitNext == TypeInv' <=> DbTypes' /\ LocalOK'
  BY DEF TypeInv, TypeOK, DbTypes, LocalOK, LocalTypes

\* What the step a request is at says of its arguments.
LEMMA AtTypes ==
    ASSUME LocalOK, NEW p \in Procs
    PROVE  /\ at[p].step \in ScheduleSteps => at[p].on \in Schedules
           /\ at[p].step \in MatchSteps => at[p].at \in Matches
           /\ at[p].step \in {"place", "unplace"} => at[p].who \in Players
           /\ at[p].code \in InterruptionCodes \union {"none"}
           /\ mem[p] \in Memory
  BY DEF LocalOK, LocalTypes, Task, TaskOf

LEMMA MemoryTypes ==
    ASSUME NEW memory \in Memory
    PROVE  /\ \A plan \in Plan : [memory EXCEPT !.plan = plan] \in Memory
           /\ \A row \in Row : [memory EXCEPT !.row = row] \in Memory
           /\ \A delta \in SUBSET Columns : [memory EXCEPT !.delta = delta] \in Memory
           /\ \A row \in Row, delta \in SUBSET Columns :
                 [memory EXCEPT !.row = row, !.delta = delta] \in Memory
           /\ \A order \in Seq(Matches), from \in SUBSET Schedules :
                 [memory EXCEPT !.order = order, !.from = from] \in Memory
           /\ \A m \in Matches, c \in MatchRow : [memory EXCEPT !.copy[m] = c] \in Memory
  BY DEF Memory

\* p moves on, what it has loaded unchanged.
LEMMA ContinueLocal ==
    ASSUME LocalOK, NEW p \in Procs, NEW memory \in Memory,
           memory.copy = mem[p].copy, Then(p, memory, <<>>)
    PROVE  MovesOn(p)
  <1>1. <<>> \in Seq(Queued) /\ \A i \in DOMAIN <<>> : Loaded(<<>>[i], memory)
    BY EmptySeq
  <1>2. Keeps(p, memory)
    BY DEF Keeps
  <1> QED BY <1>1, <1>2, ThenLocal

LEMMA QueueLocal ==
    ASSUME LocalOK, NEW p \in Procs, NEW more \in Seq(Queued),
           \A i \in DOMAIN more : more[i].step # "save", Then(p, mem[p], more)
    PROVE  MovesOn(p)
  <1>1. mem[p] \in Memory
    BY AtTypes
  <1> QED BY <1>1, ThenLocal DEF Keeps, Loaded

LEMMA QueueOneLocal ==
    ASSUME LocalOK, NEW p \in Procs, NEW task \in Queued, task.step # "save",
           Then(p, mem[p], <<task>>)
    PROVE  MovesOn(p)
  <1>1. /\ <<task>> \in Seq(Queued)
        /\ \A i \in DOMAIN <<task>> : <<task>>[i].step # "save"
    OBVIOUS
  <1> QED BY <1>1, QueueLocal

LEMMA StayLocal ==
    ASSUME LocalOK, NEW p \in Procs, NEW memory \in Memory, NEW task \in Task,
           memory.copy = mem[p].copy, task.step # "save", Directly(p, memory, task)
    PROVE  LocalOK'
  BY DirectlyLocal DEF Keeps, Loaded

LEMMA ReadTypes ==
    ASSUME DbTypes, LocalOK, NEW p \in Procs, Read(p)
    PROVE  /\ DbTypes' /\ LocalOK'
           /\ \/ MovesOn(p)
              \/ Directly(p, [mem[p] EXCEPT !.plan = Decision(at[p].on)],
                          OnSchedule("settle", at[p].on))
  <1> DEFINE s == at[p].on
  <1>1. s \in Schedules /\ mem[p] \in Memory
    BY AtTypes DEF Read, At, ScheduleSteps
  <1>2. CASE sched[s].status = "absent" /\ Finish(p) /\ UNCHANGED <<sched, match, lockedBy>>
    BY <1>2, FinishLocal DEF Read, DbTypes, MovesOn
  <1>3. CASE /\ sched[s].status \in {"inactive", "completed"}
             /\ Then(p, mem[p], <<>>) /\ UNCHANGED <<sched, match, lockedBy>>
    <2>1. MovesOn(p)
      BY <1>1, <1>3, ContinueLocal
    <2> QED BY <1>3, <2>1 DEF Read, DbTypes, MovesOn
  <1>4. CASE /\ sched' = [sched EXCEPT ![s] = Stopped(@, "TOURNAMENT_CLOSED")]
             /\ match' = WithActive(CurrentMatch(s), {})
             /\ Then(p, mem[p], <<>>) /\ UNCHANGED lockedBy
    <2>1. Stopped(sched[s], "TOURNAMENT_CLOSED") \in Row
      BY <1>1, RowTypes DEF DbTypes, InterruptionCodes
    <2>2. match' \in [Matches -> MatchRow]
      BY <1>4, WithActiveType DEF DbTypes
    <2>3. MovesOn(p)
      BY <1>1, <1>4, ContinueLocal
    <2> QED BY <1>1, <1>4, <2>1, <2>2, <2>3 DEF Read, DbTypes, MovesOn
  <1>5. CASE /\ Lock(p, s)
             /\ Directly(p, [mem[p] EXCEPT !.plan = Decision(s)], OnSchedule("settle", s))
             /\ UNCHANGED <<sched, match>>
    <2>1. Decision(s) \in Plan
      BY <1>1, DecisionType DEF DbTypes, BoardsTyped
    <2>2. [mem[p] EXCEPT !.plan = Decision(s)] \in Memory
      BY <1>1, <2>1, MemoryTypes
    <2>3. OnSchedule("settle", s) \in Task /\ OnSchedule("settle", s).step # "save"
      BY <1>1, TaskTypes DEF OnSchedule, Idle
    <2>4. [mem[p] EXCEPT !.plan = Decision(s)].copy = mem[p].copy
      BY <1>1 DEF Memory
    <2>5. LocalOK'
      BY <1>5, <2>2, <2>3, <2>4, StayLocal
    <2> QED BY <1>1, <1>5, <2>5 DEF Read, Lock, DbTypes
  <1> QED BY <1>2, <1>3, <1>4, <1>5 DEF Read

LEMMA SettleTypes ==
    ASSUME DbTypes, LocalOK, NEW p \in Procs, Settle(p)
    PROVE  DbTypes' /\ MovesOn(p)
  <1> DEFINE s == at[p].on
             plan == mem[p].plan
  <1>1. s \in Schedules /\ mem[p] \in Memory
    BY AtTypes DEF Settle, At, ScheduleSteps
  <1>2. plan.row \in Row
    BY <1>1 DEF Memory, Plan
  <1>3. lockedBy' \in [Schedules -> Procs \union {NoProc}]
    BY DEF Settle, Release, DbTypes
  <1>4. CASE /\ sched' = [sched EXCEPT ![s] = plan.row]
             /\ match' = WithActive(plan.off, plan.on)
             /\ Then(p, [mem[p] EXCEPT !.plan = Blank.plan], <<>>)
    <2>1. match' \in [Matches -> MatchRow]
      BY <1>4, WithActiveType DEF DbTypes
    <2>2. Blank.plan \in Plan
      BY BlankType DEF Memory
    <2>3. [mem[p] EXCEPT !.plan = Blank.plan] \in Memory
      BY <1>1, <2>2, MemoryTypes
    <2>4. [mem[p] EXCEPT !.plan = Blank.plan].copy = mem[p].copy
      BY <1>1 DEF Memory
    <2>5. MovesOn(p)
      BY <1>4, <2>3, <2>4, ContinueLocal
    <2> QED BY <1>2, <1>3, <1>4, <2>1, <2>5 DEF Settle, DbTypes
  <1>5. CASE Finish(p) /\ UNCHANGED <<sched, match>>
    BY <1>3, <1>5, FinishLocal DEF Settle, DbTypes
  <1> QED BY <1>4, <1>5 DEF Settle

LEMMA LockedSavesTypes ==
    ASSUME DbTypes, LocalOK, NEW p \in Procs,
           DeactivateEvery(p) \/ Stop(p) \/ Interrupt(p) \/ RemoveRow(p)
    PROVE  DbTypes' /\ MovesOn(p)
  <1>0. mem[p] \in Memory
    BY AtTypes
  <1>1. CASE DeactivateEvery(p)
    <2>1. match' \in [Matches -> MatchRow]
      BY <1>1, WithActiveType DEF DeactivateEvery, DbTypes
    <2> QED BY <1>0, <1>1, <2>1, ContinueLocal DEF DeactivateEvery, DbTypes
  <1>2. CASE Stop(p)
    <2> DEFINE s == at[p].on
    <2>1. /\ s \in Schedules /\ Stopped(sched[s], at[p].code) \in Row
      BY <1>2, AtTypes, RowTypes DEF Stop, At, ScheduleSteps, DbTypes
    <2>2. CASE /\ sched' = [sched EXCEPT ![s] = Stopped(@, at[p].code)]
               /\ match' = WithActive(CurrentMatch(s), {})
               /\ Then(p, mem[p], <<>>)
      <3>1. match' \in [Matches -> MatchRow]
        BY <2>2, WithActiveType DEF DbTypes
      <3> QED BY <1>0, <1>2, <2>1, <2>2, <3>1, ContinueLocal DEF Stop, DbTypes
    <2>3. CASE Finish(p) /\ UNCHANGED <<sched, match>>
      BY <1>2, <2>3, FinishLocal DEF Stop, DbTypes
    <2> QED BY <1>2, <2>2, <2>3 DEF Stop
  <1>3. CASE Interrupt(p)
    <2> DEFINE s == at[p].on
    <2>1. s \in Schedules /\ InterruptedRun(sched[s], at[p].at) \in Row
      BY <1>3, AtTypes, RowTypes DEF Interrupt, At, ScheduleSteps, MatchSteps, DbTypes
    <2>2. CASE /\ sched' = [sched EXCEPT ![s] = InterruptedRun(@, at[p].at)]
               /\ Then(p, mem[p], <<>>)
      BY <1>0, <1>3, <2>1, <2>2, ContinueLocal DEF Interrupt, DbTypes
    <2>3. CASE Finish(p) /\ UNCHANGED sched
      BY <1>3, <2>3, FinishLocal DEF Interrupt, DbTypes
    <2> QED BY <1>3, <2>2, <2>3 DEF Interrupt
  <1>4. CASE RemoveRow(p)
    <2>1. NoRow \in Row /\ <<>> \in Seq(Matches \union {NoMatch})
      BY BlankType, EmptySeq DEF Blank, Memory
    <2>2. MovesOn(p)
      BY <1>0, <1>4, ContinueLocal DEF RemoveRow
    <2> QED BY <1>4, <2>1, <2>2 DEF RemoveRow, DbTypes
  <1> QED BY <1>1, <1>2, <1>3, <1>4

\* A queue of one step for each element of an order.
LEMMA QueueType ==
    ASSUME NEW S, IsFiniteSet(S), NEW order \in OrdersOf(S), NEW queue,
           DOMAIN queue = DOMAIN order, queue = [i \in DOMAIN order |-> queue[i]],
           \A i \in DOMAIN order : order[i] \in S => queue[i] \in Queued
    PROVE  queue \in Seq(Queued)
  <1>1. order \in Seq(S)
    BY OrderType
  <1>2. /\ Len(order) \in Nat /\ DOMAIN order = 1..Len(order)
        /\ \A i \in DOMAIN order : order[i] \in S
    BY <1>1, LenProperties, ElementOfSeq
  <1>3. queue \in [1..Len(order) -> Queued]
    BY <1>2
  <1> QED BY <1>2, <1>3, SeqDef

LEMMA RunningFinite == RunningSchedules \subseteq Schedules /\ IsFiniteSet(RunningSchedules)
  BY ScheduleAssumption, FS_Subset DEF RunningSchedules

LEMMA QueriesTypes ==
    ASSUME DbTypes, LocalOK, NEW p \in Procs,
           ListRunning(p) \/ Reconcile(p) \/ FindSchedule(p) \/ CheckManual(p)
    PROVE  DbTypes' /\ MovesOn(p)
  <1>0. mem[p] \in Memory
    BY AtTypes
  <1>1. DbTypes'
    BY DEF ListRunning, Reconcile, FindSchedule, CheckManual, db, DbTypes
  <1>2. CASE ListRunning(p)
    <2>1. PICK order \in OrdersOf(RunningSchedules) :
             Then(p, mem[p], [i \in DOMAIN order |-> StopOf(order[i], "TOURNAMENT_CLOSED")])
      BY <1>2 DEF ListRunning
    <2> DEFINE queue == [i \in DOMAIN order |-> StopOf(order[i], "TOURNAMENT_CLOSED")]
    <2>2. queue \in Seq(Queued)
      <3>1. \A i \in DOMAIN order : order[i] \in RunningSchedules => queue[i] \in Queued
        BY RunningFinite, TaskTypes DEF InterruptionCodes
      <3>2. DOMAIN queue = DOMAIN order /\ queue = [i \in DOMAIN order |-> queue[i]]
        OBVIOUS
      <3> HIDE DEF queue
      <3> QED BY <3>1, <3>2, RunningFinite, QueueType
    <2>3. \A i \in DOMAIN queue : queue[i].step # "save"
      BY DEF StopOf, OnSchedule, Idle
    <2> QED BY <1>1, <2>1, <2>2, <2>3, QueueLocal
  <1>3. CASE Reconcile(p)
    <2>1. PICK order \in OrdersOf(RunningSchedules) :
             Then(p, mem[p], [i \in DOMAIN order |-> OnSchedule("read", order[i])])
      BY <1>3 DEF Reconcile
    <2> DEFINE queue == [i \in DOMAIN order |-> OnSchedule("read", order[i])]
    <2>2. queue \in Seq(Queued)
      <3>1. \A i \in DOMAIN order : order[i] \in RunningSchedules => queue[i] \in Queued
        BY RunningFinite, TaskTypes
      <3>2. DOMAIN queue = DOMAIN order /\ queue = [i \in DOMAIN order |-> queue[i]]
        OBVIOUS
      <3> HIDE DEF queue
      <3> QED BY <3>1, <3>2, RunningFinite, QueueType
    <2>3. \A i \in DOMAIN queue : queue[i].step # "save"
      BY DEF OnSchedule, Idle
    <2> QED BY <1>1, <2>1, <2>2, <2>3, QueueLocal
  <1>4. CASE FindSchedule(p)
    <2>1. CASE \E s \in Schedules : Then(p, mem[p], <<OnSchedule("read", s)>>)
      <3>1. PICK s \in Schedules : Then(p, mem[p], <<OnSchedule("read", s)>>)
        BY <2>1
      <3>2. OnSchedule("read", s) \in Queued /\ OnSchedule("read", s).step # "save"
        BY TaskTypes DEF OnSchedule, Idle
      <3> QED BY <1>1, <3>1, <3>2, QueueOneLocal
    <2>2. CASE Then(p, mem[p], <<>>)
      BY <1>0, <1>1, <2>2, ContinueLocal
    <2> QED BY <1>4, <2>1, <2>2 DEF FindSchedule
  <1>5. CASE CheckManual(p)
    BY <1>0, <1>1, <1>5, ContinueLocal, FinishLocal DEF CheckManual
  <1> QED BY <1>2, <1>3, <1>4, <1>5

\* The rollback guard goes on, refuses, or queues a stop.
LEMMA ProtectLocal ==
    ASSUME LocalOK, NEW p \in Procs, NEW m, Protect(p, m, mem[p])
    PROVE  MovesOn(p)
  <1>0. mem[p] \in Memory
    BY AtTypes
  <1>1. CASE Then(p, mem[p], <<>>)
    BY <1>0, <1>1, ContinueLocal
  <1>2. CASE Finish(p)
    BY <1>2, FinishLocal
  <1>3. CASE \E s \in RolledBackBy(m) : Then(p, mem[p], <<StopOf(s, "ROLLBACK_CONFIRMED")>>)
    <2>1. PICK s \in Schedules : Then(p, mem[p], <<StopOf(s, "ROLLBACK_CONFIRMED")>>)
      BY <1>3 DEF RolledBackBy
    <2>2. /\ StopOf(s, "ROLLBACK_CONFIRMED") \in Queued
          /\ StopOf(s, "ROLLBACK_CONFIRMED").step # "save"
      BY TaskTypes DEF StopOf, OnSchedule, Idle, InterruptionCodes
    <2> QED BY <2>1, <2>2, QueueOneLocal
  <1> QED BY <1>1, <1>2, <1>3 DEF Protect

LEMMA GuardsTypes ==
    ASSUME DbTypes, LocalOK, NEW p \in Procs, GuardRollback(p) \/ PrepareReopen(p)
    PROVE  /\ DbTypes' /\ LocalOK'
           /\ \/ MovesOn(p)
              \/ /\ At(p, "prepareReopen")
                 /\ \E s \in Schedules :
                       Directly(p, mem[p], [OnSchedule("interrupt", s) EXCEPT !.at = at[p].at])
  <1>1. DbTypes'
    BY DEF GuardRollback, PrepareReopen, db, DbTypes
  <1>2. CASE GuardRollback(p)
    BY <1>1, <1>2, ProtectLocal DEF GuardRollback, MovesOn
  <1>3. CASE PrepareReopen(p)
    <2> DEFINE m == at[p].at
    <2>1. m \in Matches /\ mem[p] \in Memory
      BY <1>3, AtTypes DEF PrepareReopen, At, MatchSteps
    <2>2. CASE Protect(p, m, mem[p])
      BY <1>1, <2>2, ProtectLocal DEF MovesOn
    <2>3. CASE Finish(p)
      BY <1>1, <2>3, FinishLocal DEF MovesOn
    <2>4. ASSUME NEW s \in Schedules,
                 Directly(p, mem[p], [OnSchedule("interrupt", s) EXCEPT !.at = m])
          PROVE  LocalOK'
      <3>1. /\ [OnSchedule("interrupt", s) EXCEPT !.at = m] \in Task
            /\ [OnSchedule("interrupt", s) EXCEPT !.at = m].step # "save"
        BY <2>1, TaskTypes DEF OnSchedule, Idle
      <3> QED BY <2>1, <2>4, <3>1, StayLocal
    <2> QED BY <1>1, <1>3, <2>2, <2>3, <2>4 DEF PrepareReopen, CompletedWith
  <1> QED BY <1>2, <1>3

LEMMA RowSavesTypes ==
    ASSUME DbTypes, LocalOK, NEW p \in Procs, DiffRow(p) \/ WriteRow(p)
    PROVE  DbTypes' /\ LocalOK' /\ (WriteRow(p) => MovesOn(p))
  <1> DEFINE s == at[p].on
  <1>1. s \in Schedules /\ mem[p] \in Memory
    BY AtTypes DEF DiffRow, WriteRow, At, ScheduleSteps
  <1>2. CASE DiffRow(p)
    <2> DEFINE delta == {c \in Columns : mem[p].row[c] # sched[s][c]}
    <2>1. delta \in SUBSET Columns
      OBVIOUS
    <2>2. Directly(p, [mem[p] EXCEPT !.delta = delta], OnSchedule("writeRow", s))
      BY <1>2 DEF DiffRow
    <2> HIDE DEF delta
    <2>3. /\ [mem[p] EXCEPT !.delta = delta] \in Memory
          /\ [mem[p] EXCEPT !.delta = delta].copy = mem[p].copy
      BY <1>1, <2>1, MemoryTypes DEF Memory
    <2>4. OnSchedule("writeRow", s) \in Task /\ OnSchedule("writeRow", s).step # "save"
      BY <1>1, TaskTypes DEF OnSchedule, Idle
    <2>5. LocalOK'
      BY <2>2, <2>3, <2>4, StayLocal
    <2> QED BY <1>2, <2>5 DEF DiffRow, WriteRow, At, db, DbTypes
  <1>3. CASE WriteRow(p)
    <2> DEFINE row == Merged(sched[s], mem[p].row, mem[p].delta)
    <2>1. row \in Row
      BY <1>1, MergedType DEF DbTypes, Memory
    <2>2. CASE /\ sched' = [sched EXCEPT ![s] = row]
               /\ Then(p, [mem[p] EXCEPT !.row = NoRow, !.delta = {}], <<>>)
      <3>1. NoRow \in Row /\ {} \in SUBSET Columns
        BY BlankType DEF Blank, Memory
      <3>2. /\ [mem[p] EXCEPT !.row = NoRow, !.delta = {}] \in Memory
            /\ [mem[p] EXCEPT !.row = NoRow, !.delta = {}].copy = mem[p].copy
        BY <1>1, <3>1, MemoryTypes DEF Memory
      <3>3. MovesOn(p)
        BY <2>2, <3>2, ContinueLocal
      <3> QED BY <1>3, <2>1, <2>2, <3>3 DEF WriteRow, DbTypes, MovesOn
    <2>3. CASE Finish(p) /\ UNCHANGED sched
      BY <1>3, <2>3, FinishLocal DEF WriteRow, DbTypes, MovesOn
    <2> QED BY <1>3, <2>2, <2>3 DEF WriteRow
  <1> QED BY <1>2, <1>3

LEMMA RewriteTypes ==
    ASSUME DbTypes, LocalOK, NEW p \in Procs, Rewrite(p)
    PROVE  DbTypes' /\ MovesOn(p)
  <1> DEFINE s == at[p].on
             order == mem[p].order
             from == mem[p].from
             chosen == ToSet(order)
             robbed == Robbed(from, chosen)
  <1>1. /\ s \in Schedules /\ mem[p] \in Memory
        /\ order \in Seq(Matches) /\ order \in Seq(Matches \union {NoMatch})
    BY AtTypes, SeqMonotonic DEF Rewrite, At, ScheduleSteps, Memory
  <1>2. lockedBy' \in [Schedules -> Procs \union {NoProc}]
    BY DEF Rewrite, Release, DbTypes
  <1>3. CASE Finish(p) /\ UNCHANGED <<sched, entries>>
    BY <1>2, <1>3, FinishLocal DEF Rewrite, DbTypes
  <1>4. CASE /\ entries' = [t \in Schedules |->
                      IF t = s THEN order
                      ELSE IF t \in from
                      THEN [i \in DOMAIN entries[t] |->
                              IF entries[t][i] \in chosen THEN NoMatch ELSE entries[t][i]]
                      ELSE entries[t]]
             /\ sched' = [t \in Schedules |->
                      IF t \in robbed \union {s}
                      THEN [sched[t] EXCEPT !.current = NoMatch] ELSE sched[t]]
             /\ Then(p, [mem[p] EXCEPT !.order = <<>>, !.from = {}], <<>>)
    <2>1. sched' \in [Schedules -> Row]
      BY <1>4, RowTypes DEF DbTypes
    <2>2. ASSUME NEW t \in Schedules
          PROVE  [i \in DOMAIN entries[t] |->
                    IF entries[t][i] \in chosen THEN NoMatch ELSE entries[t][i]]
                 \in Seq(Matches \union {NoMatch})
      <3> DEFINE gaps == [i \in DOMAIN entries[t] |->
                            IF entries[t][i] \in chosen THEN NoMatch ELSE entries[t][i]]
      <3>1. /\ Len(entries[t]) \in Nat /\ DOMAIN entries[t] = 1..Len(entries[t])
            /\ entries[t] \in [1..Len(entries[t]) -> Matches \union {NoMatch}]
        BY LenProperties DEF DbTypes
      <3>2. gaps \in [1..Len(entries[t]) -> Matches \union {NoMatch}]
        BY <3>1
      <3> HIDE DEF gaps
      <3>3. gaps \in Seq(Matches \union {NoMatch})
        BY <3>1, <3>2, SeqDef
      <3> QED BY <3>3 DEF gaps
    <2>3. entries' \in [Schedules -> Seq(Matches \union {NoMatch})]
      BY <1>1, <1>4, <2>2 DEF DbTypes
    <2>4. <<>> \in Seq(Matches) /\ {} \in SUBSET Schedules
      BY EmptySeq
    <2>5. /\ [mem[p] EXCEPT !.order = <<>>, !.from = {}] \in Memory
          /\ [mem[p] EXCEPT !.order = <<>>, !.from = {}].copy = mem[p].copy
      BY <1>1, <2>4, MemoryTypes DEF Memory
    <2>6. MovesOn(p)
      BY <1>4, <2>5, ContinueLocal
    <2> QED BY <1>2, <2>1, <2>3, <2>6 DEF Rewrite, DbTypes
  <1> QED BY <1>3, <1>4 DEF Rewrite

\* A match that was edited or seated is in memory before its save is queued.
LEMMA LoadLocal ==
    ASSUME LocalOK, NEW p \in Procs, NEW m \in Matches, NEW c \in MatchRow,
           NEW more \in Seq(SavingOnly(m)),
           Then(p, [mem[p] EXCEPT !.copy[m] = c], more)
    PROVE  MovesOn(p)
  <1> DEFINE memory == [mem[p] EXCEPT !.copy[m] = c]
  <1>1. mem[p] \in Memory /\ memory \in Memory
    BY AtTypes, MemoryTypes
  <1>2. memory.copy[m] = c /\ \A n \in Matches \ {m} : memory.copy[n] = mem[p].copy[n]
    BY <1>1 DEF Memory
  <1>3. more \in Seq(Queued) /\ \A i \in DOMAIN more : more[i] \in SavingOnly(m)
    BY SeqMonotonic, LenProperties, ElementOfSeq DEF SavingOnly
  <1>4. Keeps(p, memory)
    BY <1>2 DEF Keeps
  <1>5. \A i \in DOMAIN more : Loaded(more[i], memory)
    BY <1>2, <1>3 DEF SavingOnly, Loaded
  <1> HIDE DEF memory
  <1>6. Then(p, memory, more)
    BY DEF memory
  <1> QED BY <1>1, <1>3, <1>4, <1>5, <1>6, ThenLocal

LEMMA MatchStepsTypes ==
    ASSUME DbTypes, LocalOK, NEW p \in Procs,
           \/ Save(p) \/ Seat(p)
           \/ \E o \in MatchOps \ {"activate"} : Edit(p, o)
    PROVE  DbTypes' /\ MovesOn(p)
  <1> DEFINE m == at[p].at
  <1>0. mem[p] \in Memory
    BY AtTypes
  <1>1. CASE Save(p)
    <2>1. mem[p].copy[m] \in MatchRow
      BY <1>1 DEF Save, At, LocalOK, SavesAreLoaded, Loaded
    <2>2. MovesOn(p)
      BY <1>0, <1>1, ContinueLocal DEF Save
    <2> QED BY <1>1, <2>1, <2>2 DEF Save, DbTypes
  <1>2. CASE Seat(p)
    <2> DEFINE q == at[p].who
               follow == <<AtMatch("save", m), AtMatch("findSchedule", m)>>
    <2>1. m \in Matches /\ q \in Players /\ match[m] \in MatchRow
      BY <1>2, AtTypes DEF Seat, At, MatchSteps, DbTypes
    <2>2. follow \in Seq(SavingOnly(m))
      <3>1. AtMatch("save", m) \in SavingOnly(m) /\ AtMatch("findSchedule", m) \in SavingOnly(m)
        BY <2>1, TaskTypes DEF SavingOnly, AtMatch, Idle, MatchOps
      <3> QED BY <3>1
    <2>3. DbTypes'
      BY <1>2 DEF Seat, db, DbTypes
    <2>4. CASE Then(p, [mem[p] EXCEPT !.copy[m] = WithPlayer(match[m], q)], follow)
      <3>1. WithPlayer(match[m], q) \in MatchRow
        BY <2>1, PlayerTypes
      <3> HIDE DEF follow
      <3> QED BY <2>1, <2>2, <2>3, <2>4, <3>1, LoadLocal
    <2>5. ASSUME NEW after \in WithoutPlayer(match[m], q),
                 Then(p, [mem[p] EXCEPT !.copy[m] = after], follow)
          PROVE  MovesOn(p)
      <3>1. after \in MatchRow
        BY <2>1, PlayerTypes
      <3> HIDE DEF follow
      <3> QED BY <2>1, <2>2, <2>5, <3>1, LoadLocal
    <2>6. CASE Then(p, mem[p], <<>>)
      BY <1>0, <2>3, <2>6, ContinueLocal
    <2> QED BY <1>2, <2>3, <2>4, <2>5, <2>6 DEF Seat
  <1>3. ASSUME NEW o \in MatchOps \ {"activate"}, Edit(p, o)
        PROVE  DbTypes' /\ MovesOn(p)
    <2>1. m \in Matches /\ match[m] \in MatchRow
      BY <1>3, AtTypes DEF Edit, At, MatchSteps, DbTypes
    <2>2. DbTypes'
      BY <1>3 DEF Edit, db, DbTypes
    <2>3. CASE Finish(p)
      BY <2>2, <2>3, FinishLocal
    <2>4. ASSUME NEW after \in Edited(o, match[m]),
                 NEW more \in FollowUps(o, m, match[m], after),
                 Then(p, [mem[p] EXCEPT !.copy[m] = after], more)
          PROVE  MovesOn(p)
      <3>1. after \in MatchRow
        BY <2>1, EditedType
      <3>2. more \in Seq(SavingOnly(m))
        BY <2>1, <3>1, FollowUpsType
      <3> QED BY <2>1, <2>4, <3>1, <3>2, LoadLocal
    <2> QED BY <1>3, <2>2, <2>3, <2>4 DEF Edit
  <1> QED BY <1>1, <1>2, <1>3

LEMMA StepTypes ==
    ASSUME DbTypes, LocalOK, NEW p \in Procs, Step(p)
    PROVE  DbTypes' /\ LocalOK'
  BY ReadTypes, SettleTypes, LockedSavesTypes, QueriesTypes, GuardsTypes, RowSavesTypes,
     RewriteTypes, MatchStepsTypes DEF Step, MovesOn

-----------------------------------------------------------------------------
(* Arrivals.                                                               *)

\* A handler that queues steps of its own after its first one.
LEMMA BeginLocal ==
    ASSUME LocalOK, NEW p \in Procs, NEW memory \in Memory,
           NEW task \in Task, NEW rest \in Seq(Queued),
           Loaded(task, memory), \A i \in DOMAIN rest : Loaded(rest[i], memory),
           at' = [at EXCEPT ![p] = task],
           todo' = [todo EXCEPT ![p] = rest],
           mem' = [mem EXCEPT ![p] = memory]
    PROVE  LocalOK'
  <1>1. LocalTypes'
    BY DEF LocalOK, LocalTypes
  <1>2. SavesAreLoaded'
    BY DEF LocalOK, LocalTypes, SavesAreLoaded
  <1> QED BY <1>1, <1>2 DEF LocalOK

LEMMA LoadRowTypes ==
    ASSUME DbTypes, LocalOK, NEW p \in Procs, NEW s \in Schedules, NEW row \in Row,
           NEW rest \in Seq(Queued), \A i \in DOMAIN rest : rest[i].step # "save",
           LoadRow(p, s, row, rest)
    PROVE  DbTypes' /\ LocalOK'
  <1>1. DbTypes'
    BY DEF LoadRow, db, DbTypes
  <1>2. OnSchedule("diffRow", s) \in Task /\ OnSchedule("diffRow", s).step # "save"
    BY TaskTypes DEF OnSchedule, Idle
  <1>3. [mem[p] EXCEPT !.row = row] \in Memory
    BY AtTypes, MemoryTypes
  <1>4. mem' = [mem EXCEPT ![p] = [mem[p] EXCEPT !.row = row]]
    BY DEF LoadRow, LocalOK, LocalTypes
  <1>5. at' = [at EXCEPT ![p] = OnSchedule("diffRow", s)] /\ todo' = [todo EXCEPT ![p] = rest]
    BY DEF LoadRow
  <1> DEFINE memory == [mem[p] EXCEPT !.row = row]
             task == OnSchedule("diffRow", s)
  <1>6. Loaded(task, memory) /\ \A i \in DOMAIN rest : Loaded(rest[i], memory)
    BY <1>2 DEF Loaded
  <1>7. LocalOK'
    <2> HIDE DEF memory, task
    <2>1. memory \in Memory /\ task \in Task
      BY <1>2, <1>3 DEF memory, task
    <2>2. mem' = [mem EXCEPT ![p] = memory] /\ at' = [at EXCEPT ![p] = task]
      BY <1>4, <1>5 DEF memory, task
    <2> QED BY <1>5, <1>6, <2>1, <2>2, BeginLocal
  <1> QED BY <1>1, <1>7

LEMMA ScheduleCommandsTypes ==
    ASSUME DbTypes, LocalOK, NEW p \in Requests, NEW s \in Schedules,
           \/ Start(p, s) \/ UpdateDetails(p, s) \/ Archive(p, s) \/ Create(p, s)
           \/ RemoveSchedule(p, s) \/ ReplaceEntries(p, s) \/ StopCommand(p, s)
    PROVE  DbTypes' /\ LocalOK'
  <1>0. p \in Procs /\ mem[p] \in Memory
    BY AtTypes DEF Procs
  <1>1. CASE Start(p, s)
    <2> DEFINE rest == <<OnSchedule("deactivateEvery", s), OnSchedule("read", s)>>
    <2>1. PICK e \in EntriesOf(s) \union {NoMatch} :
             LoadRow(p, s, Started(sched[s], e), rest)
      BY <1>1 DEF Start
    <2>2. Started(sched[s], e) \in Row
      BY WalkTypes, RowTypes DEF DbTypes, BoardsTyped
    <2>3. rest \in Seq(Queued) /\ \A i \in DOMAIN rest : rest[i].step # "save"
      <3>1. /\ OnSchedule("deactivateEvery", s) \in Queued
            /\ OnSchedule("read", s) \in Queued
            /\ OnSchedule("deactivateEvery", s).step # "save"
            /\ OnSchedule("read", s).step # "save"
        BY TaskTypes DEF OnSchedule, Idle
      <3> QED BY <3>1
    <2> HIDE DEF rest
    <2> QED BY <1>0, <2>1, <2>2, <2>3, LoadRowTypes
  <1>2. CASE UpdateDetails(p, s)
    <2>1. sched[s] \in Row
      BY DEF DbTypes
    <2>2. <<>> \in Seq(Queued) /\ \A i \in DOMAIN <<>> : <<>>[i].step # "save"
      BY EmptySeq
    <2>3. LoadRow(p, s, sched[s], <<>>)
      BY <1>2 DEF UpdateDetails
    <2> QED BY <1>0, <2>1, <2>2, <2>3, LoadRowTypes
  <1>3. CASE Archive(p, s)
    <2>1. PICK row \in {Archived(sched[s]), Unarchived(sched[s])} : LoadRow(p, s, row, <<>>)
      BY <1>3 DEF Archive
    <2>2. row \in Row
      BY RowTypes DEF DbTypes
    <2>3. <<>> \in Seq(Queued) /\ \A i \in DOMAIN <<>> : <<>>[i].step # "save"
      BY EmptySeq
    <2> QED BY <1>0, <2>1, <2>2, <2>3, LoadRowTypes
  <1>4. CASE Create(p, s)
    <2>0. PICK chosen \in SUBSET Matches : \E order \in OrdersOf(chosen) :
             entries' = [entries EXCEPT ![s] = order]
      BY <1>4 DEF Create
    <2>1. PICK order \in OrdersOf(chosen) : entries' = [entries EXCEPT ![s] = order]
      BY <2>0
    <2>2. order \in Seq(chosen)
      BY ScheduleAssumption, FS_Subset, OrderType
    <2>3. order \in Seq(Matches \union {NoMatch})
      BY <2>2, SeqMonotonic
    <2>4. Created \in Row
      BY DEF Created, NoRow, Row, Statuses
    <2>5. LocalOK'
      BY <1>4 DEF Create, LocalOK, LocalTypes, SavesAreLoaded
    <2> QED BY <1>4, <2>1, <2>3, <2>4, <2>5 DEF Create, DbTypes
  <1>5. CASE RemoveSchedule(p, s)
    <2>1. OnSchedule("removeRow", s) \in Task /\ OnSchedule("removeRow", s).step # "save"
      BY TaskTypes DEF OnSchedule, Idle
    <2>2. LocalOK'
      BY <1>0, <1>5, <2>1, StayLocal DEF RemoveSchedule
    <2> QED BY <1>5, <2>2 DEF RemoveSchedule, db, DbTypes
  <1>6. CASE ReplaceEntries(p, s)
    <2>0. PICK chosen \in SUBSET Matches : \E order \in OrdersOf(chosen) :
             Directly(p, [mem[p] EXCEPT !.order = order, !.from = Givers(s, chosen)],
                      OnSchedule("rewrite", s))
      BY <1>6 DEF ReplaceEntries
    <2>1. PICK order \in OrdersOf(chosen) :
             Directly(p, [mem[p] EXCEPT !.order = order, !.from = Givers(s, chosen)],
                      OnSchedule("rewrite", s))
      BY <2>0
    <2>2. order \in Seq(chosen)
      BY ScheduleAssumption, FS_Subset, OrderType
    <2>3. order \in Seq(Matches) /\ Givers(s, chosen) \in SUBSET Schedules
      BY <2>2, SeqMonotonic DEF Givers
    <2> DEFINE memory == [mem[p] EXCEPT !.order = order, !.from = Givers(s, chosen)]
    <2>4. memory \in Memory /\ memory.copy = mem[p].copy
      BY <1>0, <2>3, MemoryTypes DEF Memory
    <2>5. OnSchedule("rewrite", s) \in Task /\ OnSchedule("rewrite", s).step # "save"
      BY TaskTypes DEF OnSchedule, Idle
    <2> HIDE DEF memory
    <2>6. Directly(p, memory, OnSchedule("rewrite", s))
      BY <2>1 DEF memory
    <2>7. LocalOK'
      BY <1>0, <2>4, <2>5, <2>6, StayLocal
    <2> QED BY <1>0, <1>6, <2>7 DEF ReplaceEntries, Lock, db, DbTypes
  <1>7. CASE StopCommand(p, s)
    <2>1. StopOf(s, "none") \in Task /\ StopOf(s, "none").step # "save"
      BY TaskTypes DEF StopOf, OnSchedule, Idle, InterruptionCodes
    <2>2. LocalOK'
      BY <1>0, <1>7, <2>1, StayLocal DEF StopCommand
    <2> QED BY <1>7, <2>2 DEF StopCommand, db, DbTypes
  <1> QED BY <1>1, <1>2, <1>3, <1>4, <1>5, <1>6, <1>7

LEMMA MatchCommandsTypes ==
    ASSUME DbTypes, LocalOK, NEW p \in Requests, NEW m \in Matches,
           Activate(p, m) \/ Command(p, m) \/ ReportRun(p, m)
    PROVE  DbTypes' /\ LocalOK'
  <1>0. p \in Procs /\ mem[p] \in Memory
    BY AtTypes DEF Procs
  <1>1. DbTypes'
    BY DEF Activate, Command, ReportRun, db, DbTypes
  <1>2. ASSUME NEW step \in {"score", "shape", "commit", "run"},
               Directly(p, mem[p], AtMatch(step, m))
        PROVE  LocalOK'
    <2>1. AtMatch(step, m) \in Task /\ AtMatch(step, m).step # "save"
      BY TaskTypes DEF AtMatch, Idle, MatchOps
    <2> QED BY <1>0, <1>2, <2>1, StayLocal
  <1>3. ASSUME NEW task \in Task, NEW next \in Queued,
               task.step # "save", next.step # "save",
               at' = [at EXCEPT ![p] = task],
               todo' = [todo EXCEPT ![p] = <<next>>], UNCHANGED mem
        PROVE  LocalOK'
    <2>1. <<next>> \in Seq(Queued) /\ \A i \in DOMAIN <<next>> : Loaded(<<next>>[i], mem[p])
      BY <1>3 DEF Loaded
    <2>2. mem' = [mem EXCEPT ![p] = mem[p]] /\ Loaded(task, mem[p])
      BY <1>3 DEF LocalOK, LocalTypes, Loaded
    <2> QED BY <1>0, <1>3, <2>1, <2>2, BeginLocal
  <1>4. CASE Activate(p, m)
    <2>1. PICK b \in BOOLEAN : mem' = [mem EXCEPT ![p].copy[m] = [match[m] EXCEPT !.active = b]]
      BY <1>4 DEF Activate
    <2> DEFINE c == [match[m] EXCEPT !.active = b]
               memory == [mem[p] EXCEPT !.copy[m] = c]
               rest == <<AtMatch("save", m)>>
               task == AtMatch("checkManual", m)
    <2>2. c \in MatchRow
      BY DEF DbTypes, MatchRow
    <2>3. /\ memory \in Memory /\ memory.copy[m] \in MatchRow
          /\ mem' = [mem EXCEPT ![p] = memory]
      <3> HIDE DEF c
      <3>1. memory \in Memory
        BY <1>0, <2>2, MemoryTypes
      <3>2. memory.copy[m] = c
        BY <1>0 DEF Memory
      <3>3. mem' = [mem EXCEPT ![p] = memory]
        BY <2>1 DEF c
      <3> QED BY <2>2, <3>1, <3>2, <3>3
    <2>4. /\ AtMatch("checkManual", m) \in Queued
          /\ AtMatch("save", m) \in Queued /\ AtMatch("save", m).at = m
          /\ AtMatch("checkManual", m).step # "save"
      BY TaskTypes DEF AtMatch, Idle
    <2>5. /\ task \in Task /\ rest \in Seq(Queued) /\ Loaded(task, memory)
          /\ \A i \in DOMAIN rest : Loaded(rest[i], memory)
      <3> HIDE DEF memory
      <3>1. task \in Task /\ Loaded(task, memory)
        BY <2>4, TaskTypes DEF Loaded
      <3>2. Loaded(AtMatch("save", m), memory)
        BY <2>3, <2>4 DEF Loaded
      <3>3. rest \in Seq(Queued) /\ \A i \in DOMAIN rest : Loaded(rest[i], memory)
        BY <2>4, <3>2
      <3> QED BY <3>1, <3>3
    <2>6. at' = [at EXCEPT ![p] = task] /\ todo' = [todo EXCEPT ![p] = rest]
      BY <1>4 DEF Activate
    <2> HIDE DEF c, memory, rest, task
    <2> QED BY <1>0, <1>1, <2>3, <2>5, <2>6, BeginLocal
  <1>5. CASE Command(p, m)
    <2>1. /\ AtMatch("guardRollback", m) \in Task /\ AtMatch("prepareReopen", m) \in Task
          /\ AtMatch("rollback", m) \in Queued /\ AtMatch("reopen", m) \in Queued
          /\ \A step \in {"guardRollback", "prepareReopen", "rollback", "reopen"} :
                AtMatch(step, m).step # "save"
      BY TaskTypes DEF AtMatch, Idle, MatchOps
    <2>2. CASE \E o \in {"score", "shape", "commit"} : Directly(p, mem[p], AtMatch(o, m))
      BY <1>1, <1>2, <2>2
    <2>3. CASE /\ at' = [at EXCEPT ![p] = AtMatch("guardRollback", m)]
               /\ todo' = [todo EXCEPT ![p] = <<AtMatch("rollback", m)>>]
               /\ UNCHANGED mem
      BY <1>1, <1>3, <2>1, <2>3
    <2>4. CASE /\ at' = [at EXCEPT ![p] = AtMatch("prepareReopen", m)]
               /\ todo' = [todo EXCEPT ![p] = <<AtMatch("reopen", m)>>]
               /\ UNCHANGED mem
      BY <1>1, <1>3, <2>1, <2>4
    <2> QED BY <1>5, <2>2, <2>3, <2>4 DEF Command
  <1>6. CASE ReportRun(p, m)
    BY <1>1, <1>2, <1>6 DEF ReportRun
  <1> QED BY <1>4, <1>5, <1>6

LEMMA ArriveTypes ==
    ASSUME DbTypes, LocalOK, NEW p \in Requests, Arrive(p)
    PROVE  DbTypes' /\ LocalOK'
  <1>0. p \in Procs /\ mem[p] \in Memory
    BY AtTypes DEF Procs
  <1>1. CASE Close(p)
    <2>1. /\ [Idle EXCEPT !.step = "listRunning"] \in Task
          /\ [Idle EXCEPT !.step = "listRunning"].step # "save"
      BY TaskTypes DEF Idle
    <2>2. LocalOK'
      BY <1>0, <1>1, <2>1, StayLocal DEF Close
    <2> QED BY <1>1, <2>2 DEF Close, DbTypes
  <1>2. CASE OpenAgain(p)
    BY <1>2 DEF OpenAgain, DbTypes, LocalOK, LocalTypes, SavesAreLoaded
  <1>3. CASE \E s \in Schedules :
                \/ Start(p, s) \/ UpdateDetails(p, s) \/ Archive(p, s) \/ Create(p, s)
                \/ RemoveSchedule(p, s) \/ ReplaceEntries(p, s) \/ StopCommand(p, s)
    BY <1>3, ScheduleCommandsTypes
  <1>4. CASE \E m \in Matches : Activate(p, m) \/ Command(p, m) \/ ReportRun(p, m)
    BY <1>4, MatchCommandsTypes
  <1> QED BY <1>1, <1>2, <1>3, <1>4 DEF Arrive

LEMMA CrashTypes ==
    ASSUME DbTypes, LocalOK, Crash
    PROVE  DbTypes' /\ LocalOK'
  <1>1. /\ Idle \in Task /\ [Idle EXCEPT !.step = "reconcile"] \in Task
        /\ Blank \in Memory /\ <<>> \in Seq(Queued)
    BY TaskTypes, BlankType, EmptySeq
  <1>2. LocalTypes'
    BY <1>1 DEF Crash, LocalTypes
  <1>3. SavesAreLoaded'
    BY DEF Crash, SavesAreLoaded, Loaded, Idle
  <1>4. DbTypes'
    BY DEF Crash, db, DbTypes
  <1> QED BY <1>2, <1>3, <1>4 DEF LocalOK

LEMMA InitTypes ==
    ASSUME Init
    PROVE  DbTypes /\ LocalOK
  <1>1. /\ Idle \in Task /\ Blank \in Memory /\ <<>> \in Seq(Queued)
    BY TaskTypes, BlankType, EmptySeq
  <1>2. NoRow \in Row /\ Created \in Row
    BY DEF NoRow, Created, Row, Statuses
  <1>3. \A s \in Schedules : Board0[s] \in Seq(Matches \union {NoMatch})
    BY ScheduleAssumption, SeqMonotonic
  <1>4. DbTypes
    BY <1>2, <1>3, ScheduleAssumption DEF Init, DbTypes
  <1>5. LocalTypes
    BY <1>1 DEF Init, LocalTypes
  <1>6. SavesAreLoaded
    BY DEF Init, SavesAreLoaded, Loaded, Idle
  <1> QED BY <1>4, <1>5, <1>6 DEF LocalOK

-----------------------------------------------------------------------------
LEMMA NextTypes ==
    ASSUME TypeInv, [Next]_vars
    PROVE  TypeInv'
  <1>1. DbTypes /\ LocalOK
    BY TypeInvSplit
  <1>2. CASE Next
    <2>1. DbTypes' /\ LocalOK'
      BY <1>1, <1>2, ArriveTypes, StepTypes, CrashTypes DEF Next
    <2> QED BY <2>1, TypeInvSplitNext
  <1>3. CASE UNCHANGED vars
    BY <1>3 DEF vars, TypeInv, TypeOK, SavesAreLoaded
  <1> QED BY <1>2, <1>3

\* Every variable holds what the code stores in it, and a match is in memory
\* whenever its save is queued.
THEOREM TypesAlwaysHold == Spec => []TypeInv
  <1>1. Init => TypeInv
    BY InitTypes, TypeInvSplit
  <1>2. TypeInv /\ [Next]_vars => TypeInv'
    BY NextTypes
  <1> QED BY <1>1, <1>2, PTL DEF Spec

\* Every variable of Schedule always holds what the code stores in it.
THEOREM TypeCorrect == Spec => []TypeOK
  <1>1. TypeInv => TypeOK
    BY DEF TypeInv
  <1> QED BY <1>1, TypesAlwaysHold, PTL

-----------------------------------------------------------------------------
(* The inductive invariants.                                               *)

\* A replacement about to be written names every match once.
OrdersAreSound ==
    \A p \in Procs : At(p, "rewrite") =>
        \A i, j \in DOMAIN mem[p].order : mem[p].order[i] = mem[p].order[j] => i = j

BoardsInv == TypeInv /\ BoardsAreSound /\ OrdersAreSound

\* One desk edits schedules, and whoever archives them is not the one who
\* reopens results meanwhile.
Writes(p) == p \in Requests /\ Role[p] \intersect RowOps # {}
SingleDesk == \A p, q \in Requests : Writes(p) /\ Writes(q) => p = q
ArchiveApart ==
    \A p, q \in Requests : "archive" \in Role[p] /\ "reopen" \in Role[q] => p = q

\* A transaction that is open holds the row it works on.
HoldsItsRow(p) ==
    at[p].step \in {"settle", "rewrite"} => lockedBy[at[p].on] = p

\* A recalculation settles a schedule that runs.
SettlesARun(p) ==
    At(p, "settle") => sched[at[p].on].status = "running" /\ RowOK(mem[p].plan.row)

\* The row in memory is a sound successor of the row in the table, which
\* nobody else changes until it is saved.
SavesASuccessor(p) ==
    LET s == at[p].on
        row == mem[p].row
    IN  at[p].step \in {"diffRow", "writeRow"} =>
            /\ RowOK(row)
            /\ \/ Editable(sched[s])
               \/ sched[s].status = "completed" /\ p \in Requests /\ "archive" \in Role[p]
            /\ At(p, "writeRow") => \A c \in Columns \ mem[p].delta : row[c] = sched[s][c]

\* Only a request with the role takes the steps of a role.
KeepsToItsRole(p) ==
    /\ at[p].step \in {"diffRow", "writeRow", "removeRow", "rewrite"} => Writes(p)
    /\ at[p].step \in {"prepareReopen", "interrupt"} =>
          p \in Requests /\ "reopen" \in Role[p]

Sound(p) ==
    HoldsItsRow(p) /\ SettlesARun(p) /\ SavesASuccessor(p) /\ KeepsToItsRole(p)

RowsInv == TypeInv /\ AllRowsOK /\ \A p \in Procs : Sound(p)

-----------------------------------------------------------------------------
(* Rows.                                                                   *)

\* The aggregate's methods keep a row sound where the code calls them.
LEMMA RowsStaySound ==
    ASSUME NEW row \in Row, RowOK(row), NEW e
    PROVE  /\ row.status = "running" =>
                 /\ RowOK(Completed(row)) /\ RowOK(Activated(row, e))
                 /\ \A code : RowOK(WaitingAt(row, e, code)) /\ RowOK(Stopped(row, code))
           /\ row.status = "completed" =>
                 RowOK(InterruptedRun(row, e)) /\ RowOK(Archived(row)) /\ RowOK(Unarchived(row))
           /\ Editable(row) => RowOK(Started(row, e))
           /\ RowOK([row EXCEPT !.current = NoMatch])
  BY DEF Row, RowOK, FinishedIsClean, OnlyRunsWait, OnlyHaltedAreInterrupted,
         OnlyCompletedAreArchived, Completed, Activated, WaitingAt, Stopped,
         InterruptedRun, Archived, Unarchived, Editable, Started

LEMMA NewRowsAreSound == RowOK(NoRow) /\ RowOK(Created)
  BY DEF NoRow, Created, RowOK, FinishedIsClean, OnlyRunsWait, OnlyHaltedAreInterrupted,
         OnlyCompletedAreArchived

\* A save that misses no difference writes the row it has in memory.
LEMMA MergedIsNew ==
    ASSUME NEW old \in Row, NEW new \in Row, NEW delta,
           \A c \in Columns \ delta : new[c] = old[c]
    PROVE  Merged(old, new, delta) = new
  BY DEF Row, Merged, Columns

LEMMA DecisionIsSound ==
    ASSUME TypeInv, NEW s \in Schedules, RowOK(sched[s]), sched[s].status = "running"
    PROVE  RowOK(Decision(s).row)
  <1>1. sched[s] \in Row
    BY DEF TypeInv, TypeOK
  <1> QED BY <1>1, RowsStaySound DEF Decision

-----------------------------------------------------------------------------
(* What a step does to the requests that do not take it.                   *)

LEMMA RowsInvParts ==
    ASSUME RowsInv
    PROVE  DbTypes /\ LocalOK /\ NoProc \notin Procs
  BY TypeInvSplit, ScheduleAssumption DEF RowsInv

Undisturbed(q) ==
    /\ at'[q] = at[q] /\ mem'[q] = mem[q]
    /\ at[q].step \in {"settle", "rewrite"} => lockedBy'[at[q].on] = lockedBy[at[q].on]
    /\ at[q].step \in {"settle", "diffRow", "writeRow"} => sched'[at[q].on] = sched[at[q].on]

LEMMA UndisturbedSound ==
    ASSUME NEW q \in Procs, Sound(q), Undisturbed(q)
    PROVE  Sound(q)'
  <1>1. HoldsItsRow(q)'
    BY DEF Sound, HoldsItsRow, Undisturbed
  <1>2. SettlesARun(q)'
    BY DEF Sound, SettlesARun, Undisturbed, At
  <1>3. SavesASuccessor(q)'
    BY DEF Sound, SavesASuccessor, Undisturbed, At
  <1>4. KeepsToItsRole(q)'
    BY DEF Sound, KeepsToItsRole, Undisturbed
  <1> QED BY <1>1, <1>2, <1>3, <1>4 DEF Sound

\* Nothing is asked of a request between two steps it has queued.
LEMMA QueuedIsSound ==
    ASSUME NEW p \in Procs, MovesOn(p)
    PROVE  Sound(p)'
  BY DEF MovesOn, Sound, HoldsItsRow, SettlesARun, SavesASuccessor, KeepsToItsRole, At,
         QueuedSteps, MatchOps

\* A row that is free, or held by p, is not being settled by anybody else, and
\* a row p may not change is the only one somebody else is about to save.
LEMMA RowIsMine ==
    ASSUME RowsInv, SingleDesk, ArchiveApart, NEW p \in Procs, NEW q \in Procs \ {p},
           NEW s \in Schedules, lockedBy[s] \in {NoProc, p},
           \/ sched[s].status = "running"
           \/ sched[s].status = "absent"
           \/ sched[s].status = "completed" /\ p \in Requests /\ "reopen" \in Role[p]
           \/ Writes(p)
    PROVE  /\ at[q].step \in {"settle", "rewrite"} => at[q].on # s
           /\ at[q].step \in {"diffRow", "writeRow"} => at[q].on # s
  <1>1. Sound(q) /\ NoProc \notin Procs
    BY RowsInvParts DEF RowsInv
  <1>2. at[q].step \in {"settle", "rewrite"} => at[q].on # s
    BY <1>1 DEF Sound, HoldsItsRow
  <1>3. ASSUME at[q].step \in {"diffRow", "writeRow"}, at[q].on = s
        PROVE  FALSE
    <2>1. Writes(q) /\ q \in Requests
      BY <1>1, <1>3 DEF Sound, KeepsToItsRole, Writes
    <2>2. \/ Editable(sched[s])
          \/ sched[s].status = "completed" /\ "archive" \in Role[q]
      BY <1>1, <1>3 DEF Sound, SavesASuccessor
    <2>3. ~Writes(p)
      BY <2>1 DEF SingleDesk, Writes
    <2>4. ~(p \in Requests /\ "reopen" \in Role[p] /\ "archive" \in Role[q])
      BY <2>1 DEF ArchiveApart
    <2> QED BY <2>2, <2>3, <2>4 DEF Editable
  <1> QED BY <1>2, <1>3

RowsHold == AllRowsOK /\ \A q \in Procs : Sound(q)

\* A step that writes no row and takes or frees no lock.
LEMMA NoRowWritten ==
    ASSUME RowsInv, NEW p \in Procs, UNCHANGED <<sched, lockedBy>>,
           \A q \in Procs \ {p} : at'[q] = at[q] /\ mem'[q] = mem[q],
           Sound(p)'
    PROVE  RowsHold'
  <1>1. AllRowsOK'
    BY DEF RowsInv, AllRowsOK
  <1>2. ASSUME NEW q \in Procs \ {p}
        PROVE  Sound(q)'
    BY UndisturbedSound DEF RowsInv, Undisturbed
  <1> QED BY <1>1, <1>2 DEF RowsHold

LEMMA NoRowMoved ==
    ASSUME RowsInv, NEW p \in Procs, UNCHANGED <<sched, lockedBy>>, MovesOn(p)
    PROVE  RowsHold'
  BY NoRowWritten, QueuedIsSound DEF MovesOn

\* A step that writes the row of s, or not even that, and may free it.
LEMMA OneRowWritten ==
    ASSUME RowsInv, SingleDesk, ArchiveApart, NEW p \in Procs, NEW s \in Schedules,
           MovesOn(p), lockedBy[s] \in {NoProc, p},
           \/ sched[s].status = "running"
           \/ sched[s].status = "absent"
           \/ sched[s].status = "completed" /\ p \in Requests /\ "reopen" \in Role[p]
           \/ Writes(p),
           NEW row, RowOK(row),
           sched' = [sched EXCEPT ![s] = row] \/ UNCHANGED sched,
           \A t \in Schedules \ {s} : lockedBy'[t] = lockedBy[t]
    PROVE  RowsHold'
  <1>1. sched \in [Schedules -> Row]
    BY RowsInvParts DEF DbTypes
  <1>2. AllRowsOK'
    BY <1>1 DEF RowsInv, AllRowsOK
  <1>3. ASSUME NEW q \in Procs \ {p}
        PROVE  Sound(q)'
    <2>1. at'[q] = at[q] /\ mem'[q] = mem[q]
      BY DEF MovesOn
    <2>2. /\ at[q].step \in {"settle", "rewrite"} => at[q].on # s
          /\ at[q].step \in {"diffRow", "writeRow"} => at[q].on # s
      BY RowIsMine
    <2>3. at[q].step \in {"settle", "rewrite", "diffRow", "writeRow"} => at[q].on \in Schedules
      BY RowsInvParts, AtTypes DEF ScheduleSteps
    <2>4. Undisturbed(q)
      BY <1>1, <2>1, <2>2, <2>3 DEF Undisturbed
    <2> QED BY <2>4, UndisturbedSound DEF RowsInv
  <1> QED BY <1>2, <1>3, QueuedIsSound DEF RowsHold

-----------------------------------------------------------------------------
(* The actions.                                                            *)

LEMMA ReadRows ==
    ASSUME RowsInv, SingleDesk, ArchiveApart, NEW p \in Procs, Read(p)
    PROVE  RowsHold'
  <1> DEFINE s == at[p].on
  <1>0. DbTypes /\ LocalOK
    BY RowsInvParts
  <1>1. s \in Schedules /\ RowOK(sched[s]) /\ sched[s] \in Row /\ Free(s)
    BY <1>0, AtTypes DEF Read, At, ScheduleSteps, RowsInv, AllRowsOK, DbTypes
  <1>2. \/ MovesOn(p)
        \/ Directly(p, [mem[p] EXCEPT !.plan = Decision(s)], OnSchedule("settle", s))
    BY <1>0, ReadTypes
  <1>3. CASE MovesOn(p) /\ UNCHANGED <<sched, lockedBy>>
    BY <1>3, NoRowMoved
  <1>4. CASE /\ MovesOn(p) /\ sched[s].status = "running" /\ UNCHANGED lockedBy
             /\ sched' = [sched EXCEPT ![s] = Stopped(@, "TOURNAMENT_CLOSED")]
    <2>1. RowOK(Stopped(sched[s], "TOURNAMENT_CLOSED"))
      BY <1>1, <1>4, RowsStaySound
    <2> QED BY <1>1, <1>4, <2>1, OneRowWritten DEF Free
  <1>5. CASE /\ Lock(p, s) /\ sched[s].status = "running" /\ UNCHANGED sched
             /\ Directly(p, [mem[p] EXCEPT !.plan = Decision(s)], OnSchedule("settle", s))
    <2>1. RowOK(Decision(s).row)
      BY <1>1, <1>5, DecisionIsSound DEF RowsInv
    <2>2. /\ at'[p] = OnSchedule("settle", s) /\ mem'[p].plan = Decision(s)
          /\ \A q \in Procs \ {p} : at'[q] = at[q] /\ mem'[q] = mem[q]
      BY <1>0, <1>5 DEF Directly, LocalOK, LocalTypes, Memory
    <2>3. lockedBy' = [lockedBy EXCEPT ![s] = p]
      BY <1>5 DEF Lock
    <2>4. Sound(p)'
      BY <1>0, <1>1, <1>5, <2>1, <2>2, <2>3
      DEF Sound, HoldsItsRow, SettlesARun, SavesASuccessor, KeepsToItsRole, At,
          OnSchedule, Idle, DbTypes
    <2>5. ASSUME NEW q \in Procs \ {p}
          PROVE  Sound(q)'
      <3>1. at[q].step \in {"settle", "rewrite"} => at[q].on # s
        BY <1>1, RowsInvParts DEF RowsInv, Sound, HoldsItsRow, Free
      <3>2. Undisturbed(q)
        BY <1>5, <2>2, <2>3, <3>1 DEF Undisturbed
      <3> QED BY <3>2, UndisturbedSound DEF RowsInv
    <2>6. AllRowsOK'
      BY <1>5 DEF RowsInv, AllRowsOK
    <2> QED BY <2>4, <2>5, <2>6 DEF RowsHold
  <1>6. at'[p] = OnSchedule("settle", s) => ~MovesOn(p)
    BY DEF MovesOn, OnSchedule, Idle, QueuedSteps, MatchOps
  <1> QED BY <1>0, <1>2, <1>3, <1>4, <1>5, <1>6, FinishLocal, ContinueLocal, AtTypes DEF Read

LEMMA SettleRows ==
    ASSUME RowsInv, SingleDesk, ArchiveApart, NEW p \in Procs, Settle(p)
    PROVE  RowsHold'
  <1> DEFINE s == at[p].on
  <1>1. DbTypes /\ LocalOK /\ MovesOn(p)
    BY RowsInvParts, SettleTypes
  <1>2. /\ s \in Schedules /\ lockedBy[s] = p /\ sched[s].status = "running"
        /\ RowOK(mem[p].plan.row)
    BY <1>1, AtTypes DEF Settle, At, ScheduleSteps, RowsInv, Sound, HoldsItsRow, SettlesARun
  <1>3. sched' = [sched EXCEPT ![s] = mem[p].plan.row] \/ UNCHANGED sched
    BY DEF Settle
  <1>4. \A t \in Schedules \ {s} : lockedBy'[t] = lockedBy[t]
    BY <1>1 DEF Settle, Release, DbTypes
  <1> QED BY <1>1, <1>2, <1>3, <1>4, OneRowWritten

LEMMA LockedSavesRows ==
    ASSUME RowsInv, SingleDesk, ArchiveApart, NEW p \in Procs,
           DeactivateEvery(p) \/ Stop(p) \/ Interrupt(p) \/ RemoveRow(p)
    PROVE  RowsHold'
  <1> DEFINE s == at[p].on
  <1>1. DbTypes /\ LocalOK /\ MovesOn(p)
    BY RowsInvParts, LockedSavesTypes
  <1>2. CASE DeactivateEvery(p)
    BY <1>1, <1>2, NoRowMoved DEF DeactivateEvery
  <1>3. CASE Stop(p)
    <2>1. s \in Schedules /\ RowOK(sched[s]) /\ sched[s] \in Row
      BY <1>1, <1>3, AtTypes DEF Stop, At, ScheduleSteps, RowsInv, AllRowsOK, DbTypes
    <2>2. CASE /\ sched[s].status = "running"
               /\ sched' = [sched EXCEPT ![s] = Stopped(@, at[p].code)]
      <3>1. RowOK(Stopped(sched[s], at[p].code))
        BY <2>1, <2>2, RowsStaySound
      <3> QED BY <1>1, <1>3, <2>1, <2>2, <3>1, OneRowWritten DEF Stop, Free
    <2>3. CASE UNCHANGED sched
      BY <1>1, <1>3, <2>3, NoRowMoved DEF Stop
    <2> QED BY <1>3, <2>2, <2>3 DEF Stop
  <1>4. CASE Interrupt(p)
    <2>1. /\ s \in Schedules /\ RowOK(sched[s]) /\ sched[s] \in Row
          /\ p \in Requests /\ "reopen" \in Role[p]
      BY <1>1, <1>4, AtTypes
      DEF Interrupt, At, ScheduleSteps, RowsInv, AllRowsOK, DbTypes, Sound, KeepsToItsRole
    <2>2. CASE /\ sched[s].status = "completed"
               /\ sched' = [sched EXCEPT ![s] = InterruptedRun(@, at[p].at)]
      <3>1. RowOK(InterruptedRun(sched[s], at[p].at))
        BY <2>1, <2>2, RowsStaySound
      <3> QED BY <1>1, <1>4, <2>1, <2>2, <3>1, OneRowWritten DEF Interrupt, Free
    <2>3. CASE UNCHANGED sched
      BY <1>1, <1>4, <2>3, NoRowMoved DEF Interrupt
    <2> QED BY <1>4, <2>2, <2>3 DEF Interrupt
  <1>5. CASE RemoveRow(p)
    <2>1. s \in Schedules /\ Writes(p)
      BY <1>1, <1>5, AtTypes DEF RemoveRow, At, ScheduleSteps, RowsInv, Sound, KeepsToItsRole
    <2> QED BY <1>1, <1>5, <2>1, NewRowsAreSound, OneRowWritten DEF RemoveRow, Free
  <1> QED BY <1>2, <1>3, <1>4, <1>5

LEMMA QueriesRows ==
    ASSUME RowsInv, SingleDesk, ArchiveApart, NEW p \in Procs,
           ListRunning(p) \/ Reconcile(p) \/ FindSchedule(p) \/ CheckManual(p)
    PROVE  RowsHold'
  <1>1. MovesOn(p)
    BY RowsInvParts, QueriesTypes
  <1> QED BY <1>1, NoRowMoved DEF ListRunning, Reconcile, FindSchedule, CheckManual, db

LEMMA MatchStepsRows ==
    ASSUME RowsInv, SingleDesk, ArchiveApart, NEW p \in Procs,
           \/ Save(p) \/ Seat(p)
           \/ \E o \in MatchOps \ {"activate"} : Edit(p, o)
    PROVE  RowsHold'
  <1>1. MovesOn(p)
    BY RowsInvParts, MatchStepsTypes
  <1> QED BY <1>1, NoRowMoved DEF Save, Seat, Edit, db

LEMMA GuardsRows ==
    ASSUME RowsInv, SingleDesk, ArchiveApart, NEW p \in Procs,
           GuardRollback(p) \/ PrepareReopen(p)
    PROVE  RowsHold'
  <1>1. UNCHANGED <<sched, lockedBy>>
    BY DEF GuardRollback, PrepareReopen, db
  <1>2. CASE MovesOn(p)
    BY <1>1, <1>2, NoRowMoved
  <1>3. ASSUME At(p, "prepareReopen"), NEW s \in Schedules,
               Directly(p, mem[p], [OnSchedule("interrupt", s) EXCEPT !.at = at[p].at])
        PROVE  RowsHold'
    <2>1. p \in Requests /\ "reopen" \in Role[p]
      BY <1>3 DEF RowsInv, Sound, KeepsToItsRole, At
    <2>2. /\ at'[p].step = "interrupt"
          /\ \A q \in Procs \ {p} : at'[q] = at[q] /\ mem'[q] = mem[q]
      BY <1>3, RowsInvParts DEF Directly, LocalOK, LocalTypes, OnSchedule, Idle
    <2>3. Sound(p)'
      BY <2>1, <2>2
      DEF Sound, HoldsItsRow, SettlesARun, SavesASuccessor, KeepsToItsRole, At
    <2> QED BY <1>1, <2>2, <2>3, NoRowWritten
  <1> QED BY <1>2, <1>3, RowsInvParts, GuardsTypes

LEMMA RowSavesRows ==
    ASSUME RowsInv, SingleDesk, ArchiveApart, NEW p \in Procs, DiffRow(p) \/ WriteRow(p)
    PROVE  RowsHold'
  <1> DEFINE s == at[p].on
  <1>1. DbTypes /\ LocalOK /\ (WriteRow(p) => MovesOn(p))
    BY RowsInvParts, RowSavesTypes
  <1>2. /\ s \in Schedules /\ Writes(p) /\ SavesASuccessor(p) /\ mem[p] \in Memory
        /\ sched[s] \in Row
    BY <1>1, AtTypes
    DEF DiffRow, WriteRow, At, ScheduleSteps, RowsInv, Sound, KeepsToItsRole, DbTypes
  <1>3. CASE DiffRow(p)
    <2> DEFINE delta == {c \in Columns : mem[p].row[c] # sched[s][c]}
    <2>1. /\ at'[p] = OnSchedule("writeRow", s)
          /\ mem'[p] = [mem[p] EXCEPT !.delta = delta]
          /\ \A q \in Procs \ {p} : at'[q] = at[q] /\ mem'[q] = mem[q]
      BY <1>1, <1>3 DEF DiffRow, Directly, LocalOK, LocalTypes
    <2>2. at'[p].step = "writeRow" /\ at'[p].on = s
      BY <2>1 DEF OnSchedule, Idle
    <2>3. mem'[p].row = mem[p].row /\ mem'[p].delta = delta
      BY <1>2, <2>1 DEF Memory
    <2>4. UNCHANGED <<sched, lockedBy>>
      BY <1>3 DEF DiffRow, db
    <2>5. Sound(p)'
      BY <1>2, <1>3, <2>2, <2>3, <2>4
      DEF Sound, HoldsItsRow, SettlesARun, SavesASuccessor, KeepsToItsRole, DiffRow, At
    <2> QED BY <2>1, <2>4, <2>5, NoRowWritten
  <1>4. CASE WriteRow(p)
    <2>1. Merged(sched[s], mem[p].row, mem[p].delta) = mem[p].row
      BY <1>2, <1>4, MergedIsNew DEF SavesASuccessor, WriteRow, At, Memory
    <2>2. RowOK(mem[p].row)
      BY <1>2, <1>4 DEF SavesASuccessor, WriteRow, At
    <2>3. sched' = [sched EXCEPT ![s] = mem[p].row] \/ UNCHANGED sched
      BY <1>4, <2>1 DEF WriteRow
    <2> QED BY <1>1, <1>2, <1>4, <2>2, <2>3, OneRowWritten DEF WriteRow, Free
  <1> QED BY <1>3, <1>4

LEMMA RewriteRows ==
    ASSUME RowsInv, SingleDesk, ArchiveApart, NEW p \in Procs, Rewrite(p)
    PROVE  RowsHold'
  <1> DEFINE s == at[p].on
             robbed == Robbed(mem[p].from, ToSet(mem[p].order))
  <1>1. DbTypes /\ LocalOK /\ MovesOn(p)
    BY RowsInvParts, RewriteTypes
  <1>2. s \in Schedules /\ Writes(p) /\ lockedBy[s] = p /\ NoProc \notin Procs
    BY <1>1, AtTypes, RowsInvParts
    DEF Rewrite, At, ScheduleSteps, RowsInv, Sound, KeepsToItsRole, HoldsItsRow
  <1>3. lockedBy' = [lockedBy EXCEPT ![s] = NoProc]
    BY DEF Rewrite, Release
  <1>4. CASE UNCHANGED sched
    <2>1. AllRowsOK'
      BY <1>4 DEF RowsInv, AllRowsOK
    <2>2. ASSUME NEW q \in Procs \ {p}
          PROVE  Sound(q)'
      <3>1. at[q].step \in {"settle", "rewrite"} => at[q].on # s
        BY <1>2, RowIsMine
      <3>2. Undisturbed(q)
        BY <1>1, <1>3, <1>4, <3>1 DEF Undisturbed, MovesOn
      <3> QED BY <3>2, UndisturbedSound DEF RowsInv
    <2> QED BY <1>1, <2>1, <2>2, QueuedIsSound DEF RowsHold
  <1>5. CASE /\ \A t \in robbed : Free(t)
             /\ sched' = [t \in Schedules |->
                      IF t \in robbed \union {s}
                      THEN [sched[t] EXCEPT !.current = NoMatch] ELSE sched[t]]
    <2>1. AllRowsOK'
      BY <1>1, <1>5, RowsStaySound DEF RowsInv, AllRowsOK, DbTypes
    <2>2. ASSUME NEW q \in Procs \ {p}
          PROVE  Sound(q)'
      <3>1. ASSUME NEW t \in Schedules, t = s \/ t \in robbed
            PROVE  at[q].step \in {"settle", "rewrite", "diffRow", "writeRow"} => at[q].on # t
        <4>1. lockedBy[t] \in {NoProc, p}
          BY <1>2, <1>5, <3>1 DEF Free
        <4> QED BY <1>2, <4>1, RowIsMine
      <3>2. at[q].step \in {"settle", "rewrite", "diffRow", "writeRow"} => at[q].on \in Schedules
        BY <1>1, AtTypes DEF ScheduleSteps
      <3>3. at[q].step \in {"settle", "diffRow", "writeRow"} => sched'[at[q].on] = sched[at[q].on]
        BY <1>5, <3>1, <3>2
      <3>4. at[q].step \in {"settle", "rewrite"} => lockedBy'[at[q].on] = lockedBy[at[q].on]
        BY <1>2, <1>3, <3>1, <3>2
      <3>5. Undisturbed(q)
        BY <1>1, <3>3, <3>4 DEF Undisturbed, MovesOn
      <3> QED BY <3>5, UndisturbedSound DEF RowsInv
    <2> QED BY <1>1, <2>1, <2>2, QueuedIsSound DEF RowsHold
  <1> QED BY <1>4, <1>5 DEF Rewrite

LEMMA StepRows ==
    ASSUME RowsInv, SingleDesk, ArchiveApart, NEW p \in Procs, Step(p)
    PROVE  RowsHold'
  BY ReadRows, SettleRows, LockedSavesRows, QueriesRows, MatchStepsRows, GuardsRows,
     RowSavesRows, RewriteRows DEF Step

\* A command that loads a row begins a sound save.
LEMMA LoadRowRows ==
    ASSUME RowsInv, NEW p \in Requests, NEW s \in Schedules, Writes(p),
           NEW row \in Row, RowOK(row), NEW rest,
           Editable(sched[s]) \/ (sched[s].status = "completed" /\ "archive" \in Role[p]),
           LoadRow(p, s, row, rest)
    PROVE  RowsHold'
  <1>1. p \in Procs /\ LocalOK
    BY RowsInvParts DEF Procs
  <1>2. UNCHANGED <<sched, lockedBy>>
    BY DEF LoadRow, db
  <1>3. /\ at'[p] = OnSchedule("diffRow", s)
        /\ \A q \in Procs \ {p} : at'[q] = at[q] /\ mem'[q] = mem[q]
    BY <1>1 DEF LoadRow, LocalOK, LocalTypes
  <1>4. mem'[p].row = row
    BY <1>1 DEF LoadRow, LocalOK, LocalTypes, Memory
  <1>5. at'[p].step = "diffRow" /\ at'[p].on = s
    BY <1>3 DEF OnSchedule, Idle
  <1>6. Sound(p)'
    BY <1>2, <1>4, <1>5
    DEF Sound, HoldsItsRow, SettlesARun, SavesASuccessor, KeepsToItsRole, At, Writes
  <1> QED BY <1>1, <1>2, <1>3, <1>6, NoRowWritten

\* A request that begins with a step nothing is asked of.
LEMMA BeginRows ==
    ASSUME RowsInv, NEW p \in Procs, UNCHANGED <<sched, lockedBy>>,
           \A q \in Procs \ {p} : at'[q] = at[q] /\ mem'[q] = mem[q],
           at'[p].step \notin {"settle", "rewrite", "diffRow", "writeRow"},
           at'[p].step = "removeRow" => Writes(p),
           at'[p].step \in {"prepareReopen", "interrupt"} => p \in Requests /\ "reopen" \in Role[p]
    PROVE  RowsHold'
  <1>1. Sound(p)'
    BY DEF Sound, HoldsItsRow, SettlesARun, SavesASuccessor, KeepsToItsRole, At, Writes
  <1> QED BY <1>1, NoRowWritten

LEMMA ScheduleCommandsRows ==
    ASSUME RowsInv, SingleDesk, ArchiveApart, NEW p \in Requests, NEW s \in Schedules,
           \/ Start(p, s) \/ UpdateDetails(p, s) \/ Archive(p, s) \/ Create(p, s)
           \/ RemoveSchedule(p, s) \/ ReplaceEntries(p, s) \/ StopCommand(p, s)
    PROVE  RowsHold'
  <1>1. /\ p \in Procs /\ DbTypes /\ LocalOK /\ sched[s] \in Row /\ RowOK(sched[s])
        /\ at \in [Procs -> Task] /\ mem \in [Procs -> Memory]
    BY RowsInvParts DEF Procs, DbTypes, LocalOK, LocalTypes, RowsInv, AllRowsOK
  <1>2. \A o \in RowOps : Accept(p, o) => Writes(p)
    BY DEF Accept, Writes
  <1>3. CASE Start(p, s)
    <2>1. PICK e \in EntriesOf(s) \union {NoMatch} :
             LoadRow(p, s, Started(sched[s], e),
                     <<OnSchedule("deactivateEvery", s), OnSchedule("read", s)>>)
      BY <1>3 DEF Start
    <2>2. Started(sched[s], e) \in Row /\ RowOK(Started(sched[s], e))
      BY <1>1, <1>3, WalkTypes, RowTypes, RowsStaySound DEF Start, DbTypes, BoardsTyped
    <2>3. Writes(p) /\ Editable(sched[s])
      BY <1>2, <1>3 DEF Start, RowOps
    <2> QED BY <2>1, <2>2, <2>3, LoadRowRows
  <1>4. CASE UpdateDetails(p, s)
    <2>1. Writes(p) /\ Editable(sched[s]) /\ LoadRow(p, s, sched[s], <<>>)
      BY <1>2, <1>4 DEF UpdateDetails, RowOps
    <2> QED BY <1>1, <2>1, LoadRowRows
  <1>5. CASE Archive(p, s)
    <2>1. PICK row \in {Archived(sched[s]), Unarchived(sched[s])} : LoadRow(p, s, row, <<>>)
      BY <1>5 DEF Archive
    <2>2. Writes(p) /\ sched[s].status = "completed" /\ "archive" \in Role[p]
      BY <1>2, <1>5 DEF Archive, Accept, RowOps
    <2>3. row \in Row /\ RowOK(row)
      BY <1>1, <2>2, RowTypes, RowsStaySound
    <2> QED BY <2>1, <2>2, <2>3, LoadRowRows
  <1>6. CASE Create(p, s)
    <2>1. sched' = [sched EXCEPT ![s] = Created] /\ UNCHANGED <<lockedBy, at, mem>>
      BY <1>6 DEF Create
    <2>2. sched[s].status = "absent" /\ Writes(p)
      BY <1>2, <1>6 DEF Create, RowOps
    <2>3. AllRowsOK'
      BY <1>1, <2>1, NewRowsAreSound DEF RowsInv, AllRowsOK, DbTypes
    <2>4. ASSUME NEW q \in Procs
          PROVE  Sound(q)'
      <3>1. at[q].step \in {"settle", "diffRow", "writeRow"} => at[q].on # s
        BY <2>2 DEF RowsInv, Sound, SettlesARun, SavesASuccessor, Editable, At
      <3>2. Undisturbed(q)
        BY <1>1, <2>1, <3>1 DEF Undisturbed, DbTypes
      <3> QED BY <3>2, UndisturbedSound DEF RowsInv
    <2> QED BY <2>3, <2>4 DEF RowsHold
  <1>7. CASE RemoveSchedule(p, s)
    <2>1. /\ UNCHANGED <<sched, lockedBy>> /\ Writes(p)
          /\ at' = [at EXCEPT ![p] = OnSchedule("removeRow", s)]
          /\ mem' = [mem EXCEPT ![p] = mem[p]]
      BY <1>2, <1>7 DEF RemoveSchedule, Directly, db, RowOps
    <2> QED BY <1>1, <2>1, BeginRows DEF OnSchedule, Idle
  <1>8. CASE ReplaceEntries(p, s)
    <2>1. PICK memory :
             Directly(p, memory, OnSchedule("rewrite", s))
      BY <1>8 DEF ReplaceEntries
    <2>2. /\ UNCHANGED sched /\ Writes(p) /\ Free(s)
          /\ lockedBy' = [lockedBy EXCEPT ![s] = p]
      BY <1>2, <1>8 DEF ReplaceEntries, Lock, db, RowOps
    <2>3. /\ at'[p].step = "rewrite" /\ at'[p].on = s
          /\ \A q \in Procs \ {p} : at'[q] = at[q] /\ mem'[q] = mem[q]
      BY <1>1, <2>1 DEF Directly, OnSchedule, Idle
    <2>4. Sound(p)'
      BY <1>1, <2>2, <2>3
      DEF Sound, HoldsItsRow, SettlesARun, SavesASuccessor, KeepsToItsRole, At, Writes, DbTypes
    <2>5. ASSUME NEW q \in Procs \ {p}
          PROVE  Sound(q)'
      <3>1. at[q].step \in {"settle", "rewrite"} => at[q].on # s
        BY <2>2, RowsInvParts DEF RowsInv, Sound, HoldsItsRow, Free
      <3>2. Undisturbed(q)
        BY <2>2, <2>3, <3>1 DEF Undisturbed
      <3> QED BY <3>2, UndisturbedSound DEF RowsInv
    <2>6. AllRowsOK'
      BY <2>2 DEF RowsInv, AllRowsOK
    <2> QED BY <2>4, <2>5, <2>6 DEF RowsHold
  <1>9. CASE StopCommand(p, s)
    <2>1. /\ UNCHANGED <<sched, lockedBy>>
          /\ at' = [at EXCEPT ![p] = StopOf(s, "none")]
          /\ mem' = [mem EXCEPT ![p] = mem[p]]
      BY <1>9 DEF StopCommand, Directly, db
    <2> QED BY <1>1, <2>1, BeginRows DEF StopOf, OnSchedule, Idle
  <1> QED BY <1>3, <1>4, <1>5, <1>6, <1>7, <1>8, <1>9

LEMMA MatchCommandsRows ==
    ASSUME RowsInv, NEW p \in Requests, NEW m \in Matches,
           Activate(p, m) \/ Command(p, m) \/ ReportRun(p, m)
    PROVE  RowsHold'
  <1>1. p \in Procs /\ at \in [Procs -> Task] /\ mem \in [Procs -> Memory]
    BY RowsInvParts DEF Procs, LocalOK, LocalTypes
  <1>2. UNCHANGED <<sched, lockedBy>>
    BY DEF Activate, Command, ReportRun, db
  <1>3. ASSUME NEW step \in {"score", "shape", "commit", "run"},
               Directly(p, mem[p], AtMatch(step, m))
        PROVE  RowsHold'
    <2>1. /\ at' = [at EXCEPT ![p] = AtMatch(step, m)]
          /\ mem' = [mem EXCEPT ![p] = mem[p]]
      BY <1>3 DEF Directly
    <2> QED BY <1>1, <1>2, <2>1, BeginRows DEF AtMatch, Idle
  <1>4. CASE Activate(p, m)
    <2>1. PICK b : mem' = [mem EXCEPT ![p].copy[m] = [match[m] EXCEPT !.active = b]]
      BY <1>4 DEF Activate
    <2>2. at' = [at EXCEPT ![p] = AtMatch("checkManual", m)]
      BY <1>4 DEF Activate
    <2> QED BY <1>1, <1>2, <2>1, <2>2, BeginRows DEF AtMatch, Idle
  <1>5. CASE Command(p, m)
    <2>1. CASE \E o \in {"score", "shape", "commit"} : Directly(p, mem[p], AtMatch(o, m))
      BY <1>3, <2>1
    <2>2. CASE at' = [at EXCEPT ![p] = AtMatch("guardRollback", m)] /\ UNCHANGED mem
      BY <1>1, <1>2, <2>2, BeginRows DEF AtMatch, Idle
    <2>3. CASE /\ Accept(p, "reopen")
               /\ at' = [at EXCEPT ![p] = AtMatch("prepareReopen", m)] /\ UNCHANGED mem
      BY <1>1, <1>2, <2>3, BeginRows DEF AtMatch, Idle, Accept
    <2> QED BY <1>5, <2>1, <2>2, <2>3 DEF Command
  <1>6. CASE ReportRun(p, m)
    BY <1>3, <1>6 DEF ReportRun
  <1> QED BY <1>4, <1>5, <1>6

LEMMA ArriveRows ==
    ASSUME RowsInv, SingleDesk, ArchiveApart, NEW p \in Requests, Arrive(p)
    PROVE  RowsHold'
  <1>1. p \in Procs /\ at \in [Procs -> Task] /\ mem \in [Procs -> Memory]
    BY RowsInvParts DEF Procs, LocalOK, LocalTypes
  <1>2. CASE Close(p)
    <2>1. /\ UNCHANGED <<sched, lockedBy>>
          /\ at' = [at EXCEPT ![p] = [Idle EXCEPT !.step = "listRunning"]]
          /\ mem' = [mem EXCEPT ![p] = mem[p]]
      BY <1>2 DEF Close, Directly
    <2> QED BY <1>1, <2>1, BeginRows DEF Idle
  <1>3. CASE OpenAgain(p)
    <2>1. UNCHANGED <<sched, lockedBy, at, mem>>
      BY <1>3 DEF OpenAgain
    <2>2. \A q \in Procs : Sound(q)'
      BY <2>1, UndisturbedSound DEF RowsInv, Undisturbed
    <2> QED BY <2>1, <2>2 DEF RowsHold, RowsInv, AllRowsOK
  <1> QED BY <1>2, <1>3, ScheduleCommandsRows, MatchCommandsRows DEF Arrive

LEMMA CrashRows ==
    ASSUME RowsInv, Crash
    PROVE  RowsHold'
  <1>1. \A p \in Procs : at'[p].step \in {"idle", "reconcile"}
    BY DEF Crash, Idle
  <1>2. \A p \in Procs : Sound(p)'
    BY <1>1 DEF Sound, HoldsItsRow, SettlesARun, SavesASuccessor, KeepsToItsRole, At
  <1>3. AllRowsOK'
    BY DEF Crash, db, RowsInv, AllRowsOK
  <1> QED BY <1>2, <1>3 DEF RowsHold

\* A schedule row is always one that the aggregate could have produced: a
\* finished run points nowhere, only a run waits, only a halted schedule
\* carries an interruption and only a completed one is archived.  Crashes,
\* restarts, closings, scorers and control rooms interleave as they like with
\* the one desk that edits schedules.
THEOREM RowsStayOK ==
    ASSUME SingleDesk, ArchiveApart
    PROVE  Spec => []AllRowsOK
  <1>1. Init => RowsInv
    <2> SUFFICES ASSUME Init PROVE RowsInv
      OBVIOUS
    <2>1. TypeInv
      BY InitTypes, TypeInvSplit
    <2>2. AllRowsOK
      BY NewRowsAreSound DEF Init, AllRowsOK
    <2>3. \A p \in Procs : Sound(p)
      BY DEF Init, Idle, Sound, HoldsItsRow, SettlesARun, SavesASuccessor, KeepsToItsRole, At
    <2> QED BY <2>1, <2>2, <2>3 DEF RowsInv
  <1>2. RowsInv /\ [Next]_vars => RowsInv'
    <2> SUFFICES ASSUME RowsInv, [Next]_vars PROVE RowsInv'
      OBVIOUS
    <2>1. TypeInv'
      BY NextTypes DEF RowsInv
    <2>2. CASE Next
      <3>1. RowsHold'
        BY <2>2, ArriveRows, StepRows, CrashRows DEF Next
      <3> QED BY <2>1, <3>1 DEF RowsHold, RowsInv
    <2>3. CASE UNCHANGED vars
      <3>1. \A p \in Procs : Sound(p)'
        BY <2>3, UndisturbedSound DEF RowsInv, Undisturbed, vars
      <3>2. AllRowsOK'
        BY <2>3 DEF vars, RowsInv, AllRowsOK
      <3> QED BY <2>1, <3>1, <3>2 DEF RowsInv
    <2> QED BY <2>2, <2>3
  <1>3. RowsInv => AllRowsOK
    BY DEF RowsInv
  <1> QED BY <1>1, <1>2, <1>3, PTL DEF Spec

-----------------------------------------------------------------------------
(* Boards.                                                                 *)

\* An order names every element once.
LEMMA OrderIsInjective ==
    ASSUME NEW S, IsFiniteSet(S), NEW order \in OrdersOf(S)
    PROVE  /\ ToSet(order) = S
           /\ \A i, j \in DOMAIN order : order[i] = order[j] => i = j
  <1> DEFINE n == Cardinality(S)
  <1>1. n \in Nat /\ order \in [1..n -> S] /\ ToSet(order) = S
    BY FS_CardinalityType DEF OrdersOf
  <1>2. IsFiniteSet(1..n) /\ Cardinality(1..n) = n
    BY <1>1, FS_Interval
  <1>3. order \in Surjection(1..n, S)
    BY <1>1 DEF Surjection, ToSet
  <1>4. order \in Injection(1..n, S)
    <2> HIDE DEF n
    <2> QED BY <1>2, <1>3, FS_SurjSameCardinalityImpliesInj DEF n
  <1> QED BY <1>1, <1>4 DEF Injection, IsInjective

\* The boards stay sound as long as entries stay, and current entries stay or
\* are entries.
LEMMA BoardsKept ==
    ASSUME BoardsAreSound, UNCHANGED entries,
           \A s \in Schedules :
              sched'[s].current = sched[s].current \/ PointsAtItsEntry(sched'[s], s)
    PROVE  BoardsAreSound'
  <1>1. \A s \in Schedules : EntriesOf(s)' = EntriesOf(s) /\ Positions(s)' = Positions(s)
    BY DEF EntriesOf, Positions
  <1> QED BY <1>1 DEF BoardsAreSound, PointsAtItsEntry

LEMMA OrdersKept ==
    ASSUME OrdersAreSound, NEW p \in Procs, MovesOn(p)
    PROVE  OrdersAreSound'
  BY DEF OrdersAreSound, MovesOn, At, QueuedSteps, MatchOps

LEMMA BoardsInvParts ==
    ASSUME BoardsInv
    PROVE  DbTypes /\ LocalOK
  BY TypeInvSplit DEF BoardsInv

BoardsHold == BoardsAreSound /\ OrdersAreSound

\* What BoardsAreSound says of s.
SoundBoard(s) ==
    /\ \A i, j \in Positions(s) : entries[s][i] = entries[s][j] => i = j
    /\ \A t \in Schedules \ {s} : EntriesOf(s) \cap EntriesOf(t) = {}
    /\ PointsAtItsEntry(sched[s], s)

LEMMA ReadBoards ==
    ASSUME BoardsInv, NEW p \in Procs, Read(p)
    PROVE  BoardsHold'
  <1> DEFINE s == at[p].on
  <1>1. DbTypes /\ LocalOK /\ s \in Schedules
    BY BoardsInvParts, AtTypes DEF Read, At, ScheduleSteps
  <1>2. \/ MovesOn(p)
        \/ Directly(p, [mem[p] EXCEPT !.plan = Decision(s)], OnSchedule("settle", s))
    BY <1>1, ReadTypes
  <1>3. OrdersAreSound'
    <2>1. CASE MovesOn(p)
      BY <2>1, OrdersKept DEF BoardsInv
    <2>2. CASE Directly(p, [mem[p] EXCEPT !.plan = Decision(s)], OnSchedule("settle", s))
      BY <1>1, <2>2
      DEF Directly, BoardsInv, OrdersAreSound, At, OnSchedule, Idle, LocalOK, LocalTypes
    <2> QED BY <1>2, <2>1, <2>2
  <1>4. sched' = [sched EXCEPT ![s] = Stopped(@, "TOURNAMENT_CLOSED")] \/ UNCHANGED sched
    BY DEF Read
  <1>5. ASSUME NEW t \in Schedules
        PROVE  sched'[t].current = sched[t].current
    <2>1. CASE sched' = [sched EXCEPT ![s] = Stopped(@, "TOURNAMENT_CLOSED")]
      <3>1. sched \in [Schedules -> Row]
        BY <1>1 DEF DbTypes
      <3>2. Stopped(sched[s], "TOURNAMENT_CLOSED").current = sched[s].current
        BY <1>1, <3>1 DEF Row, Stopped
      <3>3. CASE t = s
        BY <1>1, <2>1, <3>1, <3>2, <3>3
      <3>4. CASE t # s
        BY <1>1, <2>1, <3>1, <3>4
      <3> QED BY <3>3, <3>4
    <2>2. CASE UNCHANGED sched
      BY <2>2
    <2> QED BY <1>4, <2>1, <2>2
  <1> QED BY <1>3, <1>5, BoardsKept DEF Read, BoardsInv, BoardsHold

LEMMA RowStepsBoards ==
    ASSUME BoardsInv, NEW p \in Procs,
           Settle(p) \/ DeactivateEvery(p) \/ Stop(p) \/ Interrupt(p) \/ WriteRow(p)
    PROVE  BoardsHold'
  <1> DEFINE s == at[p].on
  <1>1. DbTypes /\ LocalOK /\ MovesOn(p)
    BY BoardsInvParts, SettleTypes, LockedSavesTypes, RowSavesTypes
  <1>2. OrdersAreSound'
    BY <1>1, OrdersKept DEF BoardsInv
  <1>3. UNCHANGED entries
    BY DEF Settle, DeactivateEvery, Stop, Interrupt, WriteRow
  <1>4. \A t \in Schedules :
           sched'[t].current = sched[t].current \/ PointsAtItsEntry(sched'[t], t)
    <2>1. CASE UNCHANGED sched
      BY <2>1
    <2>2. CASE sched' = [sched EXCEPT ![s] = Stopped(@, at[p].code)]
      BY <1>1, <2>2 DEF DbTypes, Row, Stopped
    <2>3. ASSUME NEW row, PointsAtItsEntry(row, s), sched' = [sched EXCEPT ![s] = row]
          PROVE  \A t \in Schedules :
                    sched'[t].current = sched[t].current \/ PointsAtItsEntry(sched'[t], t)
      BY <1>1, <2>3 DEF DbTypes
    <2>4. at[p].at \in EntriesOf(s) => PointsAtItsEntry(InterruptedRun(sched[s], at[p].at), s) \/ s \notin Schedules
      BY <1>1 DEF PointsAtItsEntry, InterruptedRun, DbTypes, Row
    <2>5. CASE s \notin Schedules
      BY <1>1, <2>5, AtTypes
      DEF Settle, DeactivateEvery, Stop, Interrupt, WriteRow, At, ScheduleSteps
    <2> QED BY <1>1, <2>1, <2>2, <2>3, <2>4, <2>5
        DEF Settle, DeactivateEvery, Stop, Interrupt, WriteRow, DbTypes
  <1> QED BY <1>2, <1>3, <1>4, BoardsKept DEF BoardsInv, BoardsHold

LEMMA RemoveRowBoards ==
    ASSUME BoardsInv, NEW p \in Procs, RemoveRow(p)
    PROVE  BoardsHold'
  <1>0. PICK s : s = at[p].on
    OBVIOUS
  <1>1. DbTypes /\ LocalOK /\ MovesOn(p)
    BY BoardsInvParts, LockedSavesTypes
  <1>2. sched' = [sched EXCEPT ![s] = NoRow] /\ entries' = [entries EXCEPT ![s] = <<>>]
    BY <1>0 DEF RemoveRow
  <1>3. \A t \in Schedules \ {s} :
           /\ Positions(t)' = Positions(t) /\ EntriesOf(t)' = EntriesOf(t)
           /\ entries'[t] = entries[t] /\ sched'[t] = sched[t]
    BY <1>1, <1>2 DEF Positions, EntriesOf, DbTypes
  <1>4. ASSUME s \in Schedules
        PROVE  /\ Positions(s)' = {} /\ EntriesOf(s)' = {}
               /\ sched'[s].current = NoMatch
    <2>1. entries'[s] = <<>> /\ sched'[s] = NoRow
      BY <1>1, <1>2, <1>4 DEF DbTypes
    <2>2. Positions(s)' = {}
      BY <2>1 DEF Positions
    <2>3. EntriesOf(s)' = {}
      BY <2>2 DEF EntriesOf
    <2> QED BY <2>1, <2>2, <2>3 DEF NoRow
  <1>5. BoardsAreSound'
    <2> SUFFICES ASSUME NEW t \in Schedules
                 PROVE  SoundBoard(t)'
      BY DEF BoardsAreSound, SoundBoard
    <2>1. SoundBoard(t)
      BY DEF BoardsInv, BoardsAreSound, SoundBoard
    <2>2. CASE t = s
      BY <1>4, <2>2 DEF SoundBoard, PointsAtItsEntry
    <2>3. CASE t # s
      <3>1. \A u \in Schedules \ {t} : EntriesOf(t)' \cap EntriesOf(u)' = {}
        <4> TAKE u \in Schedules \ {t}
        <4>1. CASE u = s
          BY <1>4, <4>1
        <4>2. CASE u # s
          BY <1>3, <2>1, <2>3, <4>2 DEF SoundBoard
        <4> QED BY <4>1, <4>2
      <3> QED BY <1>3, <2>1, <2>3, <3>1 DEF SoundBoard, PointsAtItsEntry
    <2> QED BY <2>2, <2>3
  <1> QED BY <1>1, <1>5, OrdersKept DEF BoardsInv, BoardsHold

LEMMA RewriteBoards ==
    ASSUME BoardsInv, NEW p \in Procs, Rewrite(p)
    PROVE  BoardsHold'
  <1>0. PICK s, order, from : s = at[p].on /\ order = mem[p].order /\ from = mem[p].from
    OBVIOUS
  <1> DEFINE chosen == ToSet(order)
             robbed == Robbed(from, chosen)
  <1>1. DbTypes /\ LocalOK /\ MovesOn(p)
    BY BoardsInvParts, RewriteTypes
  <1>2. OrdersAreSound'
    BY <1>1, OrdersKept DEF BoardsInv
  <1>3. CASE UNCHANGED <<sched, entries>>
    BY <1>2, <1>3, BoardsKept DEF BoardsInv, BoardsHold
  <1>4. CASE /\ ~TakenMeanwhile(s, from, chosen)
             /\ entries' = [t \in Schedules |->
                      IF t = s THEN order
                      ELSE IF t \in from
                      THEN [i \in DOMAIN entries[t] |->
                              IF entries[t][i] \in chosen THEN NoMatch ELSE entries[t][i]]
                      ELSE entries[t]]
             /\ sched' = [t \in Schedules |->
                      IF t \in robbed \union {s}
                      THEN [sched[t] EXCEPT !.current = NoMatch] ELSE sched[t]]
    <2>1. /\ s \in Schedules /\ order \in Seq(Matches)
          /\ \A i \in DOMAIN order : order[i] \in Matches
          /\ \A i, j \in DOMAIN order : order[i] = order[j] => i = j
      <3>1. s \in Schedules /\ order \in Seq(Matches)
        BY <1>0, <1>1, AtTypes DEF Rewrite, At, ScheduleSteps, Memory
      <3> QED BY <1>0, <3>1, LenProperties, ElementOfSeq DEF BoardsInv, OrdersAreSound, Rewrite
    <2>2. /\ Positions(s)' = DOMAIN order /\ EntriesOf(s)' = chosen
          /\ entries'[s] = order
      <3>1. entries'[s] = order
        BY <1>4, <2>1
      <3>2. Positions(s)' = DOMAIN order
        BY <2>1, <3>1, NoMatchAssumption DEF Positions
      <3>3. EntriesOf(s)' = {order[i] : i \in DOMAIN order}
        BY <3>1, <3>2 DEF EntriesOf
      <3> QED BY <3>1, <3>2, <3>3 DEF ToSet
    <2>3. ASSUME NEW t \in Schedules \ {s}
          PROVE  /\ Positions(t)' \subseteq Positions(t)
                 /\ \A i \in Positions(t)' : entries'[t][i] = entries[t][i]
                 /\ EntriesOf(t)' \subseteq EntriesOf(t)
                 /\ EntriesOf(t)' \intersect chosen = {}
                 /\ PointsAtItsEntry(sched[t], t) => PointsAtItsEntry(sched[t], t)'
                                                     \/ sched'[t].current = NoMatch
      <3>1. CASE t \in from
        <4> DEFINE gaps == [i \in DOMAIN entries[t] |->
                              IF entries[t][i] \in chosen THEN NoMatch ELSE entries[t][i]]
        <4>1. entries'[t] = gaps
          BY <1>4, <3>1
        <4>2. Positions(t)' = {i \in Positions(t) : entries[t][i] \notin chosen}
          BY <4>1 DEF Positions
        <4>3. EntriesOf(t)' = EntriesOf(t) \ chosen
          BY <4>1, <4>2 DEF EntriesOf, Positions
        <4>4. sched[t].current \in chosen \intersect EntriesOf(t) => sched'[t].current = NoMatch
          BY <1>1, <1>4, <3>1 DEF Robbed, DbTypes, Row
        <4>5. sched'[t].current = sched[t].current \/ sched'[t].current = NoMatch
          BY <1>1, <1>4 DEF DbTypes, Row
        <4>6. \A i \in Positions(t)' : entries'[t][i] = entries[t][i]
          BY <4>1, <4>2 DEF Positions
        <4>7. PointsAtItsEntry(sched[t], t) =>
                 PointsAtItsEntry(sched[t], t)' \/ sched'[t].current = NoMatch
          BY <4>3, <4>4, <4>5 DEF PointsAtItsEntry
        <4> HIDE DEF gaps
        <4> QED BY <4>2, <4>3, <4>6, <4>7
      <3>2. CASE t \notin from
        <4>1. entries'[t] = entries[t] /\ sched'[t] = sched[t]
          BY <1>4, <3>2 DEF Robbed
        <4>2. EntriesOf(t) \intersect chosen = {}
          BY <1>4, <3>2 DEF TakenMeanwhile
        <4> QED BY <4>1, <4>2 DEF Positions, EntriesOf, PointsAtItsEntry
      <3> QED BY <3>1, <3>2
    <2>4. sched'[s].current = NoMatch
      BY <1>1, <1>4, <2>1 DEF DbTypes, Row
    <2>5. BoardsAreSound'
      <3> SUFFICES ASSUME NEW t \in Schedules
                   PROVE  /\ \A i, j \in Positions(t)' : entries'[t][i] = entries'[t][j] => i = j
                          /\ \A u \in Schedules \ {t} : EntriesOf(t)' \cap EntriesOf(u)' = {}
                          /\ PointsAtItsEntry(sched[t], t)'
        BY DEF BoardsAreSound
      <3>0. \A u \in Schedules : SoundBoard(u)
        BY DEF BoardsInv, BoardsAreSound, SoundBoard
      <3>1. \A i, j \in Positions(t)' : entries'[t][i] = entries'[t][j] => i = j
        <4>1. CASE t = s
          BY <2>1, <2>2, <4>1
        <4>2. CASE t # s
          BY <2>3, <3>0, <4>2 DEF SoundBoard
        <4> QED BY <4>1, <4>2
      <3>2. \A u \in Schedules \ {t} : EntriesOf(t)' \cap EntriesOf(u)' = {}
        <4> TAKE u \in Schedules \ {t}
        <4>1. CASE t = s
          BY <2>2, <2>3, <4>1
        <4>2. CASE u = s
          BY <2>2, <2>3, <4>2
        <4>3. CASE t # s /\ u # s
          <5>1. EntriesOf(t) \cap EntriesOf(u) = {}
            BY <3>0 DEF SoundBoard
          <5> QED BY <2>3, <4>3, <5>1
        <4> QED BY <4>1, <4>2, <4>3
      <3>3. PointsAtItsEntry(sched[t], t)'
        <4>1. CASE t = s
          BY <2>4, <4>1 DEF PointsAtItsEntry
        <4>2. CASE t # s
          <5>1. PointsAtItsEntry(sched[t], t)
            BY DEF BoardsInv, BoardsAreSound
          <5> QED BY <2>3, <4>2, <5>1 DEF PointsAtItsEntry
        <4> QED BY <4>1, <4>2
      <3> QED BY <3>1, <3>2, <3>3
    <2> QED BY <1>2, <2>5 DEF BoardsHold
  <1> QED BY <1>0, <1>3, <1>4 DEF Rewrite

\* A step that leaves the boards alone, and after which p does not rewrite one.
LEMMA OtherStepsBoards ==
    ASSUME BoardsInv, NEW p \in Procs, UNCHANGED <<sched, entries>>,
           at'[p].step # "rewrite",
           \A q \in Procs \ {p} : at'[q] = at[q] /\ mem'[q] = mem[q]
    PROVE  BoardsHold'
  <1>1. OrdersAreSound'
    BY DEF BoardsInv, OrdersAreSound, At
  <1>2. BoardsAreSound'
    BY BoardsKept DEF BoardsInv
  <1> QED BY <1>1, <1>2 DEF BoardsHold

LEMMA StepBoards ==
    ASSUME BoardsInv, NEW p \in Procs, Step(p)
    PROVE  BoardsHold'
  <1>1. /\ DbTypes /\ LocalOK
        /\ at \in [Procs -> Task] /\ mem \in [Procs -> Memory]
    BY BoardsInvParts DEF LocalOK, LocalTypes
  <1>2. ASSUME MovesOn(p), UNCHANGED <<sched, entries>>
        PROVE  BoardsHold'
    BY <1>2, OtherStepsBoards DEF MovesOn, QueuedSteps, MatchOps
  <1>3. CASE ListRunning(p) \/ Reconcile(p) \/ FindSchedule(p) \/ CheckManual(p)
    <2>1. UNCHANGED <<sched, entries>>
      BY <1>3 DEF ListRunning, Reconcile, FindSchedule, CheckManual, db
    <2> QED BY <1>1, <1>2, <1>3, <2>1, QueriesTypes
  <1>4. CASE Save(p) \/ Seat(p) \/ \E o \in MatchOps \ {"activate"} : Edit(p, o)
    <2>1. UNCHANGED <<sched, entries>>
      BY <1>4 DEF Save, Seat, Edit, db
    <2>2. MovesOn(p)
      BY <1>1, <1>4, MatchStepsTypes
    <2> QED BY <1>2, <2>1, <2>2
  <1>5. CASE GuardRollback(p) \/ PrepareReopen(p)
    <2>1. UNCHANGED <<sched, entries>>
      BY <1>5 DEF GuardRollback, PrepareReopen, db
    <2>2. CASE MovesOn(p)
      BY <1>2, <2>1, <2>2
    <2>3. ASSUME NEW t, Directly(p, mem[p], [OnSchedule("interrupt", t) EXCEPT !.at = at[p].at])
          PROVE  BoardsHold'
      BY <1>1, <2>1, <2>3, OtherStepsBoards DEF Directly, OnSchedule, Idle
    <2> QED BY <1>1, <1>5, <2>2, <2>3, GuardsTypes
  <1>6. CASE DiffRow(p)
    BY <1>1, <1>6, OtherStepsBoards DEF DiffRow, Directly, OnSchedule, Idle, db
  <1> QED BY <1>3, <1>4, <1>5, <1>6, ReadBoards, RowStepsBoards, RemoveRowBoards,
             RewriteBoards DEF Step

\* Only two commands touch the entries or begin to.
LEMMA CommandsBegin ==
    ASSUME LocalOK, NEW p \in Requests, Arrive(p)
    PROVE  \/ \E s \in Schedules : Create(p, s) \/ ReplaceEntries(p, s)
           \/ /\ UNCHANGED <<sched, entries>>
              /\ at'[p].step # "rewrite"
              /\ \A q \in Procs \ {p} : at'[q] = at[q] /\ mem'[q] = mem[q]
  <1> DEFINE Begins == /\ UNCHANGED <<sched, entries>>
                       /\ at'[p].step # "rewrite"
                       /\ \A q \in Procs \ {p} : at'[q] = at[q] /\ mem'[q] = mem[q]
  <1>1. p \in Procs /\ at \in [Procs -> Task] /\ mem \in [Procs -> Memory]
    BY DEF Procs, LocalOK, LocalTypes
  <1>2. ASSUME NEW s \in Schedules, Start(p, s) \/ UpdateDetails(p, s) \/ Archive(p, s)
        PROVE  Begins
    BY ZenonT(40), <1>1, <1>2 DEF Start, UpdateDetails, Archive, LoadRow, OnSchedule, Idle, db
  <1>3. ASSUME NEW s \in Schedules, RemoveSchedule(p, s) \/ StopCommand(p, s)
        PROVE  Begins
    BY <1>1, <1>3 DEF RemoveSchedule, StopCommand, StopOf, Directly, OnSchedule, Idle, db
  <1>4. ASSUME NEW m \in Matches, Activate(p, m)
        PROVE  Begins
    BY <1>1, <1>4 DEF Activate, AtMatch, Idle, db
  <1>5. ASSUME NEW m \in Matches, Command(p, m)
        PROVE  Begins
    <2>1. ASSUME NEW o \in {"score", "shape", "commit"}, Directly(p, mem[p], AtMatch(o, m))
          PROVE  /\ at'[p].step # "rewrite"
                 /\ \A q \in Procs \ {p} : at'[q] = at[q] /\ mem'[q] = mem[q]
      BY <1>1, <2>1 DEF Directly, AtMatch, Idle
    <2> QED BY <1>1, <1>5, <2>1 DEF Command, AtMatch, Idle, db
  <1>6. ASSUME NEW m \in Matches, ReportRun(p, m)
        PROVE  Begins
    BY <1>1, <1>6 DEF ReportRun, Directly, AtMatch, Idle, db
  <1>7. CASE Close(p)
    BY <1>1, <1>7 DEF Close, Directly, Idle
  <1>8. CASE OpenAgain(p)
    <2>1. UNCHANGED <<sched, entries, at, mem>> /\ at[p] = Idle
      BY <1>8 DEF OpenAgain, Accept
    <2> QED BY <2>1 DEF Idle
  <1> QED BY <1>2, <1>3, <1>4, <1>5, <1>6, <1>7, <1>8 DEF Arrive

LEMMA CreateBoards ==
    ASSUME BoardsInv, NEW p \in Requests, NEW s \in Schedules, Create(p, s)
    PROVE  BoardsHold'
  <1>1. DbTypes /\ p \in Procs
    BY BoardsInvParts DEF Procs
  <1>2. PICK chosen \in SUBSET Matches : \E order \in OrdersOf(chosen) :
           /\ \A t \in Schedules : EntriesOf(t) \cap chosen = {}
           /\ entries' = [entries EXCEPT ![s] = order]
    BY DEF Create
  <1>3. PICK order \in OrdersOf(chosen) :
           /\ \A t \in Schedules : EntriesOf(t) \cap chosen = {}
           /\ entries' = [entries EXCEPT ![s] = order]
    BY <1>2
  <1>4. /\ ToSet(order) = chosen
        /\ \A i, j \in DOMAIN order : order[i] = order[j] => i = j
    BY OrderIsInjective, ScheduleAssumption, FS_Subset
  <1>5. /\ entries'[s] = order /\ sched'[s] = Created
        /\ \A t \in Schedules \ {s} : entries'[t] = entries[t] /\ sched'[t] = sched[t]
    BY <1>1, <1>3 DEF Create, DbTypes
  <1>6. Positions(s)' \subseteq DOMAIN order /\ EntriesOf(s)' \subseteq chosen
    <2>1. Positions(s)' \subseteq DOMAIN order
      BY <1>5 DEF Positions
    <2>2. EntriesOf(s)' \subseteq {order[i] : i \in DOMAIN order}
      BY <1>5, <2>1 DEF EntriesOf
    <2> QED BY <1>4, <2>1, <2>2 DEF ToSet
  <1>7. \A t \in Schedules \ {s} : Positions(t)' = Positions(t) /\ EntriesOf(t)' = EntriesOf(t)
    BY <1>5 DEF Positions, EntriesOf
  <1>8. ASSUME NEW t \in Schedules
        PROVE  SoundBoard(t)'
    <2>1. SoundBoard(t)
      BY DEF BoardsInv, BoardsAreSound, SoundBoard
    <2>2. CASE t = s
      BY <1>3, <1>4, <1>5, <1>6, <1>7, <2>2 DEF SoundBoard, PointsAtItsEntry, Created, NoRow
    <2>3. CASE t # s
      <3>1. \A u \in Schedules \ {t} : EntriesOf(t)' \cap EntriesOf(u)' = {}
        <4> TAKE u \in Schedules \ {t}
        <4>1. CASE u = s
          BY <1>3, <1>6, <1>7, <2>3, <4>1
        <4>2. CASE u # s
          BY <1>7, <2>1, <2>3, <4>2 DEF SoundBoard
        <4> QED BY <4>1, <4>2
      <3> QED BY <1>5, <1>7, <2>1, <2>3, <3>1 DEF SoundBoard, PointsAtItsEntry
    <2> QED BY <2>2, <2>3
  <1>9. OrdersAreSound'
    BY DEF Create, BoardsInv, OrdersAreSound, At
  <1> QED BY <1>8, <1>9 DEF BoardsHold, BoardsAreSound, SoundBoard

LEMMA ReplaceBoards ==
    ASSUME BoardsInv, NEW p \in Requests, NEW s \in Schedules, ReplaceEntries(p, s)
    PROVE  BoardsHold'
  <1>1. p \in Procs /\ at \in [Procs -> Task] /\ mem \in [Procs -> Memory]
    BY BoardsInvParts DEF Procs, LocalOK, LocalTypes
  <1>2. PICK chosen \in SUBSET Matches : \E order \in OrdersOf(chosen) :
           Directly(p, [mem[p] EXCEPT !.order = order, !.from = Givers(s, chosen)],
                    OnSchedule("rewrite", s))
    BY DEF ReplaceEntries
  <1>3. PICK order \in OrdersOf(chosen) :
           Directly(p, [mem[p] EXCEPT !.order = order, !.from = Givers(s, chosen)],
                    OnSchedule("rewrite", s))
    BY <1>2
  <1>4. \A i, j \in DOMAIN order : order[i] = order[j] => i = j
    BY OrderIsInjective, ScheduleAssumption, FS_Subset
  <1>5. /\ mem'[p].order = order
        /\ \A q \in Procs \ {p} : at'[q] = at[q] /\ mem'[q] = mem[q]
    BY <1>1, <1>3 DEF Directly, Memory
  <1>6. OrdersAreSound'
    BY <1>4, <1>5 DEF BoardsInv, OrdersAreSound, At
  <1>7. BoardsAreSound'
    <2>1. UNCHANGED <<sched, entries>>
      BY DEF ReplaceEntries, db
    <2> QED BY <2>1, BoardsKept DEF BoardsInv
  <1> QED BY <1>6, <1>7 DEF BoardsHold

LEMMA ArriveBoards ==
    ASSUME BoardsInv, NEW p \in Requests, Arrive(p)
    PROVE  BoardsHold'
  <1>1. p \in Procs /\ LocalOK
    BY BoardsInvParts DEF Procs
  <1> QED BY <1>1, CommandsBegin, CreateBoards, ReplaceBoards, OtherStepsBoards

LEMMA InitBoards ==
    ASSUME Init
    PROVE  BoardsInv
  <1>1. TypeInv
    BY InitTypes, TypeInvSplit
  <1>2. OrdersAreSound
    BY DEF Init, Idle, OrdersAreSound, At
  <1>3. ASSUME NEW s \in Schedules
        PROVE  /\ Positions(s) \subseteq DOMAIN Board0[s]
               /\ EntriesOf(s) \subseteq ToSet(Board0[s])
    BY DEF Init, Positions, EntriesOf, ToSet
  <1>4. \A s \in Schedules : PointsAtItsEntry(sched[s], s)
    BY DEF Init, PointsAtItsEntry, NoRow, Created
  <1>5. ASSUME NEW s \in Schedules
        PROVE  SoundBoard(s)
    <2>1. \A i, j \in Positions(s) : entries[s][i] = entries[s][j] => i = j
      BY <1>3, BoardAssumption DEF Init
    <2>2. \A t \in Schedules \ {s} : EntriesOf(s) \cap EntriesOf(t) = {}
      <3> TAKE t \in Schedules \ {s}
      <3>1. ToSet(Board0[s]) \cap ToSet(Board0[t]) = {}
        BY BoardAssumption
      <3> QED BY <1>3, <3>1
    <2> QED BY <1>4, <2>1, <2>2 DEF SoundBoard
  <1> QED BY <1>1, <1>2, <1>5 DEF BoardsInv, BoardsAreSound, SoundBoard

LEMMA NextBoards ==
    ASSUME BoardsInv, [Next]_vars
    PROVE  BoardsInv'
  <1>1. TypeInv'
    BY NextTypes DEF BoardsInv
  <1>2. CASE Next
    <2>1. CASE Crash
      <3>1. OrdersAreSound'
        BY <2>1 DEF Crash, OrdersAreSound, At, Idle
      <3>2. BoardsAreSound'
        BY <2>1, BoardsKept DEF Crash, db, BoardsInv
      <3> QED BY <1>1, <3>1, <3>2 DEF BoardsInv
    <2>2. BoardsHold' \/ Crash
      BY <1>2, ArriveBoards, StepBoards DEF Next
    <2> QED BY <1>1, <2>1, <2>2 DEF BoardsHold, BoardsInv
  <1>3. CASE UNCHANGED vars
    <2>1. BoardsAreSound'
      BY <1>3, BoardsKept DEF vars, BoardsInv
    <2>2. OrdersAreSound'
      BY <1>3 DEF vars, BoardsInv, OrdersAreSound, At
    <2> QED BY <1>1, <2>1, <2>2 DEF BoardsInv
  <1> QED BY <1>2, <1>3

\* A match is on at most one schedule, once, and a schedule stands at an entry
\* of its own, whoever edits which entries at the same time: the checks of
\* replaceEntries, the unique index and the foreign key suffice.
THEOREM BoardsStaySound == Spec => []BoardsAreSound
  <1>1. Init => BoardsInv
    BY InitBoards
  <1>2. BoardsInv /\ [Next]_vars => BoardsInv'
    BY NextBoards
  <1>3. BoardsInv => BoardsAreSound
    BY DEF BoardsInv
  <1> QED BY <1>1, <1>2, <1>3, PTL DEF Spec

-----------------------------------------------------------------------------
(* One request at a time.                                                  *)

\* The requests come one after the other; the process may die at any moment
\* and start again.
OneRequest == \A p, q \in Requests : p = q

\* Nobody but p is in the middle of anything.
Alone(p) == \A q \in Procs \ {p} : at[q] = Idle /\ todo[q] = <<>>

Resting(p) == at[p] = Idle /\ todo[p] = <<>>

OneInFlight == \A p \in Procs : Resting(p) \/ (at[p] # Idle /\ Alone(p))

\* Nobody edits a schedule that runs, or takes matches from one.
HaltedWhileEdited(p) ==
    /\ at[p].step \in {"diffRow", "writeRow", "removeRow", "rewrite"} =>
          sched[at[p].on].status # "running"
    /\ At(p, "rewrite") => \A t \in mem[p].from : sched[t].status # "running"

\* What a recalculation is about to write is still what the tables say.
PlanIsFresh(p) ==
    At(p, "settle") =>
        /\ tournament = "open" /\ sched[at[p].on].status = "running"
        /\ mem[p].plan = Decision(at[p].on)

SerialInv ==
    /\ BoardsInv
    /\ OneInFlight
    /\ \A p \in Procs : HaltedWhileEdited(p) /\ PlanIsFresh(p)

LEMMA SerialInvParts ==
    ASSUME SerialInv
    PROVE  /\ DbTypes /\ LocalOK
           /\ BoardsTyped
           /\ at \in [Procs -> Task] /\ todo \in [Procs -> Seq(Queued)]
           /\ mem \in [Procs -> Memory]
  BY BoardsInvParts DEF SerialInv, DbTypes, BoardsTyped, LocalOK, LocalTypes

\* The verdict on a schedule is a function of the tables.
LEMMA SameDecision ==
    ASSUME NEW s, UNCHANGED <<sched, entries, match>>
    PROVE  Decision(s)' = Decision(s)
  <1>1. Positions(s)' = Positions(s)
    BY DEF Positions
  <1>2. StartIndex(s)' = StartIndex(s)
    BY <1>1 DEF StartIndex
  <1>3. Unpassed(s)' = Unpassed(s)
    BY <1>1, <1>2 DEF Unpassed, Passed
  <1>4. HaltIndex(s)' = HaltIndex(s)
    BY <1>3 DEF HaltIndex
  <1>5. Walked(s)' = Walked(s)
    BY <1>1, <1>2, <1>3, <1>4 DEF Walked
  <1>6. \A m, c, off : Verdict(m, c, off)' = Verdict(m, c, off)
    BY DEF Verdict, LocalVerdict, Blocking, Pending
  <1> QED BY <1>3, <1>4, <1>5, <1>6 DEF Decision

\* p has taken a step, and nobody else.
Acts(p) ==
    /\ at'[p] = Idle => todo'[p] = <<>>
    /\ \A q \in Procs \ {p} : at'[q] = at[q] /\ todo'[q] = todo[q]

\* A step that leads to one of its own.
GoesOn(p, step) ==
    /\ at'[p].step = step /\ at'[p].on = at[p].on /\ todo'[p] = todo[p]
    /\ \A q \in Procs \ {p} : at'[q] = at[q] /\ todo'[q] = todo[q] /\ mem'[q] = mem[q]

LEMMA DirectlyGoes ==
    ASSUME LocalOK, NEW p \in Procs, NEW memory, NEW task,
           Directly(p, memory, task)
    PROVE  /\ at'[p] = task /\ todo'[p] = todo[p] /\ mem'[p] = memory
           /\ \A q \in Procs \ {p} : at'[q] = at[q] /\ todo'[q] = todo[q] /\ mem'[q] = mem[q]
  BY DEF Directly, LocalOK, LocalTypes

\* Every step moves on, or is the first half of a transaction or of a save.
LEMMA StepMoves ==
    ASSUME DbTypes, LocalOK, NEW p \in Procs, Step(p)
    PROVE  /\ at[p] # Idle
           /\ \/ MovesOn(p)
              \/ Read(p) /\ GoesOn(p, "settle") /\ mem'[p].plan = Decision(at[p].on)
                 /\ UNCHANGED <<tournament, sched, entries, match>>
                 /\ sched[at[p].on].status = "running" /\ tournament = "open"
              \/ DiffRow(p) /\ GoesOn(p, "writeRow") /\ UNCHANGED db
                 /\ mem'[p].row = mem[p].row
              \/ PrepareReopen(p) /\ UNCHANGED db
                 /\ at'[p].step = "interrupt" /\ at'[p].at = at[p].at
                 /\ todo'[p] = todo[p] /\ mem'[p] = mem[p]
                 /\ \A q \in Procs \ {p} :
                       at'[q] = at[q] /\ todo'[q] = todo[q] /\ mem'[q] = mem[q]
  <1>0. mem[p] \in Memory
    BY AtTypes
  <1>1. at[p] # Idle
    <2>1. ASSUME NEW step, At(p, step), step # "idle"
          PROVE  at[p] # Idle
      BY <2>1 DEF At, Idle
    <2>2. ASSUME NEW o \in MatchOps \ {"activate"}, Edit(p, o)
          PROVE  at[p] # Idle
      BY <2>1, <2>2 DEF Edit, MatchOps
    <2>3. CASE Read(p) \/ Settle(p) \/ DeactivateEvery(p) \/ Stop(p) \/ Interrupt(p)
      BY <2>1, <2>3 DEF Read, Settle, DeactivateEvery, Stop, Interrupt
    <2>4. CASE ListRunning(p) \/ Reconcile(p) \/ FindSchedule(p) \/ GuardRollback(p)
               \/ PrepareReopen(p) \/ CheckManual(p)
      BY <2>1, <2>4
      DEF ListRunning, Reconcile, FindSchedule, GuardRollback, PrepareReopen, CheckManual
    <2>5. CASE DiffRow(p) \/ WriteRow(p) \/ RemoveRow(p) \/ Rewrite(p) \/ Save(p) \/ Seat(p)
      BY <2>1, <2>5 DEF DiffRow, WriteRow, RemoveRow, Rewrite, Save, Seat
    <2> QED BY <2>2, <2>3, <2>4, <2>5 DEF Step
  <1>2. CASE Read(p)
    <2>1. PICK s : s = at[p].on
      OBVIOUS
    <2>2. ASSUME Directly(p, [mem[p] EXCEPT !.plan = Decision(s)], OnSchedule("settle", s))
          PROVE  /\ GoesOn(p, "settle") /\ mem'[p].plan = Decision(s)
                 /\ at'[p].step = "settle"
      <3>1. PICK memory, task : /\ memory = [mem[p] EXCEPT !.plan = Decision(s)]
                                /\ task = OnSchedule("settle", s)
        OBVIOUS
      <3>2. Directly(p, memory, task)
        BY <2>2, <3>1
      <3>3. memory.plan = Decision(s) /\ task.step = "settle" /\ task.on = s
        BY <1>0, <3>1 DEF Memory, OnSchedule, Idle
      <3> QED BY <2>1, <3>2, <3>3, DirectlyGoes DEF GoesOn
    <2>3. CASE /\ sched[s].status = "running" /\ MayRun
               /\ Directly(p, [mem[p] EXCEPT !.plan = Decision(s)], OnSchedule("settle", s))
               /\ UNCHANGED <<sched, match>>
      BY <1>1, <1>2, <2>1, <2>2, <2>3 DEF MayRun, Read
    <2>4. CASE Then(p, mem[p], <<>>) \/ Finish(p)
      BY <1>0, <1>1, <2>4, FinishLocal, ContinueLocal
    <2> QED BY <1>2, <2>1, <2>3, <2>4 DEF Read
  <1>3. CASE DiffRow(p)
    <2>1. PICK s, delta :
             Directly(p, [mem[p] EXCEPT !.delta = delta], OnSchedule("writeRow", s)) /\ s = at[p].on
      BY <1>3 DEF DiffRow
    <2>2. PICK memory, task : /\ memory = [mem[p] EXCEPT !.delta = delta]
                              /\ task = OnSchedule("writeRow", s)
      OBVIOUS
    <2>3. memory.row = mem[p].row /\ task.step = "writeRow" /\ task.on = s
      BY <1>0, <2>2 DEF Memory, OnSchedule, Idle
    <2>4. GoesOn(p, "writeRow") /\ mem'[p].row = mem[p].row
      <3>1. Directly(p, memory, task)
        BY <2>1, <2>2
      <3> QED BY <2>1, <2>3, <3>1, DirectlyGoes DEF GoesOn
    <2> QED BY <1>1, <1>3, <2>4 DEF DiffRow
  <1>4. CASE GuardRollback(p) \/ PrepareReopen(p)
    <2>1. ASSUME At(p, "prepareReopen"), NEW s \in Schedules,
                 Directly(p, mem[p], [OnSchedule("interrupt", s) EXCEPT !.at = at[p].at])
          PROVE  /\ at'[p].step = "interrupt" /\ at'[p].at = at[p].at
                 /\ todo'[p] = todo[p] /\ mem'[p] = mem[p]
                 /\ \A q \in Procs \ {p} :
                       at'[q] = at[q] /\ todo'[q] = todo[q] /\ mem'[q] = mem[q]
      <3>1. PICK task : task = [OnSchedule("interrupt", s) EXCEPT !.at = at[p].at]
        OBVIOUS
      <3>2. task.step = "interrupt" /\ task.at = at[p].at
        BY <3>1 DEF OnSchedule, Idle
      <3>3. Directly(p, mem[p], task)
        BY <2>1, <3>1
      <3> QED BY <3>2, <3>3, DirectlyGoes
    <2>2. At(p, "prepareReopen") => PrepareReopen(p)
      BY <1>4 DEF GuardRollback, At
    <2> QED BY <1>1, <1>4, <2>1, <2>2, GuardsTypes DEF PrepareReopen
  <1> QED BY <1>1, <1>2, <1>3, <1>4, SettleTypes, LockedSavesTypes, QueriesTypes,
             RowSavesTypes, RewriteTypes, MatchStepsTypes DEF Step

LEMMA StepActs ==
    ASSUME DbTypes, LocalOK, NEW p \in Procs, Step(p)
    PROVE  Acts(p)
  BY StepMoves DEF MovesOn, Acts, GoesOn, Idle

\* The other requests have nothing to do before or after.
LEMMA OthersRest ==
    ASSUME OneInFlight, NEW p \in Procs, at[p] # Idle, Acts(p)
    PROVE  OneInFlight' /\ \A q \in Procs \ {p} : Resting(q) /\ Resting(q)'
  <1>1. \A q \in Procs \ {p} : Resting(q) /\ Resting(q)'
    BY DEF OneInFlight, Resting, Alone, Acts
  <1>2. \A q \in Procs : Resting(q)' \/ (at'[q] # Idle /\ Alone(q)')
    BY <1>1 DEF Acts, Resting, Alone
  <1> QED BY <1>1, <1>2 DEF OneInFlight

LEMMA RestingIsSerial ==
    ASSUME NEW p \in Procs, at[p] = Idle
    PROVE  HaltedWhileEdited(p) /\ PlanIsFresh(p)
  BY DEF Idle, HaltedWhileEdited, PlanIsFresh, At

-----------------------------------------------------------------------------
(* How a request begins.                                                   *)

\* It loads a row to save it.
BeginsSave(p) ==
    \E s \in Schedules :
        /\ at'[p].step = "diffRow" /\ at'[p].on = s /\ UNCHANGED db
        /\ \/ /\ tournament = "open" /\ Editable(sched[s])
              /\ todo'[p] = <<OnSchedule("deactivateEvery", s), OnSchedule("read", s)>>
              /\ mem'[p].row.status = "running"
           \/ /\ tournament = "open" /\ Editable(sched[s])
              /\ todo'[p] = <<>> /\ mem'[p].row = sched[s]
           \/ /\ sched[s].status = "completed"
              /\ todo'[p] = <<>> /\ mem'[p].row.status = "completed"

\* It is about to remove a schedule or to write its entries.
BeginsEdit(p) ==
    /\ UNCHANGED db /\ tournament = "open" /\ todo'[p] = <<>>
    /\ at'[p].step \in {"removeRow", "rewrite"} /\ Editable(sched[at'[p].on])
    /\ at'[p].step = "rewrite" => \A t \in mem'[p].from : sched[t].status # "running"

\* It is about to stop a schedule, or everything.
BeginsStop(p) ==
    /\ todo'[p] = <<>>
    /\ \/ at'[p].step = "stop" /\ tournament = "open" /\ UNCHANGED db
       \/ /\ at'[p].step = "listRunning" /\ tournament' = "closed"
          /\ UNCHANGED <<sched, entries, match>>

\* It has loaded a match to activate it.
BeginsActivation(p) ==
    /\ UNCHANGED db /\ tournament = "open" /\ "activate" \in Role[p]
    /\ at'[p].step = "checkManual"

\* It is about to load a match, perhaps behind a guard.
BeginsMatch(p) ==
    /\ UNCHANGED db /\ tournament = "open"
    /\ \E m \in Matches :
          /\ at'[p].at = m
          /\ \/ at'[p].step \in {"score", "shape", "commit", "run"} /\ todo'[p] = <<>>
             \/ at'[p].step = "guardRollback" /\ todo'[p] = <<AtMatch("rollback", m)>>
             \/ at'[p].step = "prepareReopen" /\ todo'[p] = <<AtMatch("reopen", m)>>

\* It is answered at once.
AnsweredAtOnce(p) ==
    /\ UNCHANGED <<at, todo, mem>>
    /\ \/ OpenAgain(p)
       \/ \E s \in Schedules : Create(p, s)

LEMMA ArrivesAlone ==
    ASSUME OneRequest, OneInFlight, NEW p \in Requests, NEW o, Accept(p, o)
    PROVE  \A q \in Procs : Resting(q)
  BY DEF OneRequest, OneInFlight, Accept, Procs

\* What is set for p is set for nobody else.
LEMMA BegunAlone ==
    ASSUME LocalOK, NEW p \in Procs, NEW task, NEW rest, NEW memory,
           at' = [at EXCEPT ![p] = task], todo' = [todo EXCEPT ![p] = rest],
           mem' = [mem EXCEPT ![p] = memory]
    PROVE  /\ at'[p] = task /\ todo'[p] = rest /\ mem'[p] = memory
           /\ \A q \in Procs \ {p} : at'[q] = at[q] /\ todo'[q] = todo[q]
  BY DEF LocalOK, LocalTypes

LEMMA LoadRowBegins ==
    ASSUME LocalOK, NEW p \in Procs, NEW s \in Schedules, NEW row, NEW rest,
           LoadRow(p, s, row, rest)
    PROVE  /\ at'[p].step = "diffRow" /\ at'[p].on = s /\ todo'[p] = rest
           /\ mem'[p].row = row /\ UNCHANGED db /\ Acts(p)
  <1>1. PICK task, memory : task = OnSchedule("diffRow", s) /\ memory = [mem[p] EXCEPT !.row = row]
    OBVIOUS
  <1>2. task.step = "diffRow" /\ task.on = s /\ memory.row = row
    BY <1>1, AtTypes DEF OnSchedule, Idle, Memory
  <1>3. /\ at' = [at EXCEPT ![p] = task] /\ todo' = [todo EXCEPT ![p] = rest]
        /\ mem' = [mem EXCEPT ![p] = memory] /\ UNCHANGED db
    BY <1>1 DEF LoadRow, LocalOK, LocalTypes
  <1>4. /\ at'[p] = task /\ todo'[p] = rest /\ mem'[p] = memory
        /\ \A q \in Procs \ {p} : at'[q] = at[q] /\ todo'[q] = todo[q]
    BY <1>3, BegunAlone
  <1> QED BY <1>2, <1>3, <1>4 DEF Acts, Idle

LEMMA ScheduleCommandBegins ==
    ASSUME OneRequest, OneInFlight, LocalOK, DbTypes, NEW p \in Requests, NEW s \in Schedules,
           \/ Start(p, s) \/ UpdateDetails(p, s) \/ Archive(p, s) \/ Create(p, s)
           \/ RemoveSchedule(p, s) \/ ReplaceEntries(p, s) \/ StopCommand(p, s)
    PROVE  /\ \A q \in Procs : Resting(q)
           /\ Acts(p)
           /\ BeginsSave(p) \/ BeginsEdit(p) \/ BeginsStop(p) \/ AnsweredAtOnce(p)
  <1>0. p \in Procs /\ mem[p] \in Memory
    BY AtTypes DEF Procs
  <1>1. \A q \in Procs : Resting(q)
    BY ArrivesAlone
    DEF Start, UpdateDetails, Archive, Create, RemoveSchedule, ReplaceEntries, StopCommand
  <1>2. CASE Start(p, s)
    <2>0. PICK row : /\ LoadRow(p, s, row, <<OnSchedule("deactivateEvery", s), OnSchedule("read", s)>>)
                     /\ \E e : row = Started(sched[s], e)
      BY <1>2 DEF Start
    <2>1. row.status = "running"
      BY <2>0 DEF Started, DbTypes, Row
    <2>2. PICK rest : rest = <<OnSchedule("deactivateEvery", s), OnSchedule("read", s)>>
      OBVIOUS
    <2>3. LoadRow(p, s, row, rest) /\ row.status = "running"
      BY <2>0, <2>1, <2>2
    <2>4. Acts(p) /\ BeginsSave(p)
      BY <1>0, <1>2, <2>2, <2>3, LoadRowBegins DEF BeginsSave, Start, TournamentOpen
    <2> QED BY <1>1, <2>4
  <1>3. CASE UpdateDetails(p, s)
    BY <1>0, <1>1, <1>3, LoadRowBegins DEF BeginsSave, UpdateDetails, TournamentOpen
  <1>4. CASE Archive(p, s)
    <2>1. PICK row \in {Archived(sched[s]), Unarchived(sched[s])} : LoadRow(p, s, row, <<>>)
      BY <1>4 DEF Archive
    <2>2. row.status = "completed" /\ sched[s].status = "completed"
      BY <1>4, <2>1 DEF Archive, DbTypes, Row, Archived, Unarchived
    <2> QED BY <1>0, <1>1, <2>1, <2>2, LoadRowBegins DEF BeginsSave
  <1>5. CASE Create(p, s)
    <2>1. UNCHANGED <<at, todo, mem>> /\ Resting(p)
      BY <1>0, <1>1, <1>5 DEF Create
    <2> QED BY <1>1, <1>5, <2>1 DEF AnsweredAtOnce, Acts, Resting
  <1>6. CASE RemoveSchedule(p, s)
    <2>1. PICK task : task = OnSchedule("removeRow", s)
      OBVIOUS
    <2>2. task.step = "removeRow" /\ task.on = s /\ Directly(p, mem[p], task)
      BY <1>6, <2>1 DEF RemoveSchedule, OnSchedule, Idle
    <2>3. Acts(p) /\ at'[p] = task /\ todo'[p] = <<>>
      BY <1>0, <1>1, <2>2, DirectlyGoes DEF Acts, Resting, Idle
    <2> QED BY <1>1, <1>6, <2>2, <2>3 DEF BeginsEdit, RemoveSchedule, TournamentOpen
  <1>7. CASE ReplaceEntries(p, s)
    <2>0. PICK chosen \in SUBSET Matches : \E order \in OrdersOf(chosen) :
             /\ \A t \in Givers(s, chosen) : sched[t].status = "inactive"
             /\ Directly(p, [mem[p] EXCEPT !.order = order, !.from = Givers(s, chosen)],
                         OnSchedule("rewrite", s))
      BY <1>7 DEF ReplaceEntries
    <2>1. PICK order, task, memory, from :
             /\ from = Givers(s, chosen)
             /\ \A t \in from : sched[t].status = "inactive"
             /\ memory = [mem[p] EXCEPT !.order = order, !.from = from]
             /\ task = OnSchedule("rewrite", s)
             /\ Directly(p, memory, task)
      BY <2>0
    <2>2. task.step = "rewrite" /\ task.on = s /\ memory.from = from
      BY <1>0, <2>1 DEF OnSchedule, Idle, Memory
    <2>3. Acts(p) /\ at'[p] = task /\ todo'[p] = <<>> /\ mem'[p] = memory
      BY <1>0, <1>1, <2>1, <2>2, DirectlyGoes DEF Acts, Resting, Idle
    <2> QED BY <1>1, <1>7, <2>1, <2>2, <2>3 DEF BeginsEdit, ReplaceEntries, TournamentOpen
  <1>8. CASE StopCommand(p, s)
    <2>1. PICK task : task = StopOf(s, "none")
      OBVIOUS
    <2>2. task.step = "stop" /\ Directly(p, mem[p], task)
      BY <1>8, <2>1 DEF StopCommand, StopOf, OnSchedule, Idle
    <2>3. Acts(p) /\ at'[p] = task /\ todo'[p] = <<>>
      BY <1>0, <1>1, <2>2, DirectlyGoes DEF Acts, Resting, Idle
    <2> QED BY <1>1, <1>8, <2>2, <2>3 DEF BeginsStop, StopCommand, TournamentOpen
  <1> QED BY <1>2, <1>3, <1>4, <1>5, <1>6, <1>7, <1>8

LEMMA MatchCommandBegins ==
    ASSUME OneRequest, OneInFlight, LocalOK, NEW p \in Requests, NEW m \in Matches,
           Activate(p, m) \/ Command(p, m) \/ ReportRun(p, m)
    PROVE  /\ \A q \in Procs : Resting(q)
           /\ Acts(p)
           /\ BeginsActivation(p) \/ BeginsMatch(p)
  <1>0. p \in Procs
    BY DEF Procs
  <1>1. \A q \in Procs : Resting(q)
    BY ArrivesAlone DEF Activate, Command, ReportRun
  <1>2. UNCHANGED db /\ tournament = "open"
    BY DEF Activate, Command, ReportRun, TournamentOpen
  <1>3. ASSUME NEW step \in {"score", "shape", "commit", "run"}, Directly(p, mem[p], AtMatch(step, m))
        PROVE  Acts(p) /\ BeginsMatch(p)
    <2>1. PICK task : task = AtMatch(step, m)
      OBVIOUS
    <2>2. task.step = step /\ task.at = m /\ Directly(p, mem[p], task) /\ step # "idle"
      BY <1>3, <2>1 DEF AtMatch, Idle
    <2>3. Acts(p) /\ at'[p] = task /\ todo'[p] = <<>>
      BY <1>0, <1>1, <2>2, DirectlyGoes DEF Acts, Resting, Idle
    <2> QED BY <1>2, <2>2, <2>3 DEF BeginsMatch
  <1>4. ASSUME NEW step \in {"guardRollback", "prepareReopen", "checkManual"},
               at' = [at EXCEPT ![p] = AtMatch(step, m)],
               NEW rest, todo' = [todo EXCEPT ![p] = rest]
        PROVE  Acts(p) /\ at'[p].step = step /\ at'[p].at = m /\ todo'[p] = rest
    <2>1. /\ at'[p] = AtMatch(step, m) /\ todo'[p] = rest
          /\ \A q \in Procs \ {p} : at'[q] = at[q] /\ todo'[q] = todo[q]
      BY <1>0, <1>4 DEF LocalOK, LocalTypes
    <2>2. AtMatch(step, m).step = step /\ AtMatch(step, m).at = m /\ AtMatch(step, m) # Idle
      BY DEF AtMatch, Idle
    <2> QED BY <2>1, <2>2 DEF Acts
  <1>5. CASE Activate(p, m)
    <2>1. "activate" \in Role[p]
      BY <1>5 DEF Activate, Accept
    <2>2. Acts(p) /\ at'[p].step = "checkManual"
      BY <1>4, <1>5 DEF Activate
    <2> QED BY <1>1, <1>2, <2>1, <2>2 DEF BeginsActivation
  <1>6. CASE Command(p, m)
    <2>1. CASE \E o \in {"score", "shape", "commit"} : Directly(p, mem[p], AtMatch(o, m))
      BY <1>1, <1>3, <2>1
    <2>2. CASE /\ at' = [at EXCEPT ![p] = AtMatch("guardRollback", m)]
               /\ todo' = [todo EXCEPT ![p] = <<AtMatch("rollback", m)>>]
      <3>1. /\ Acts(p) /\ at'[p].step = "guardRollback" /\ at'[p].at = m
            /\ todo'[p] = <<AtMatch("rollback", m)>>
        BY <1>4, <2>2
      <3> QED BY <1>1, <1>2, <3>1 DEF BeginsMatch
    <2>3. CASE /\ at' = [at EXCEPT ![p] = AtMatch("prepareReopen", m)]
               /\ todo' = [todo EXCEPT ![p] = <<AtMatch("reopen", m)>>]
      <3>1. /\ Acts(p) /\ at'[p].step = "prepareReopen" /\ at'[p].at = m
            /\ todo'[p] = <<AtMatch("reopen", m)>>
        BY <1>4, <2>3
      <3> QED BY <1>1, <1>2, <3>1 DEF BeginsMatch
    <2> QED BY <1>6, <2>1, <2>2, <2>3 DEF Command
  <1>7. CASE ReportRun(p, m)
    BY <1>1, <1>3, <1>7 DEF ReportRun
  <1> QED BY <1>5, <1>6, <1>7

LEMMA ArriveBegins ==
    ASSUME OneRequest, OneInFlight, LocalOK, DbTypes, NEW p \in Requests, Arrive(p)
    PROVE  /\ \A q \in Procs : Resting(q)
           /\ Acts(p)
           /\ \/ BeginsSave(p) \/ BeginsEdit(p) \/ BeginsStop(p) \/ AnsweredAtOnce(p)
              \/ BeginsActivation(p) \/ BeginsMatch(p)
  <1>0. p \in Procs
    BY DEF Procs
  <1>1. CASE Close(p)
    <2>1. \A q \in Procs : Resting(q)
      BY <1>1, ArrivesAlone DEF Close
    <2>2. PICK task : task = [Idle EXCEPT !.step = "listRunning"]
      OBVIOUS
    <2>3. task.step = "listRunning" /\ Directly(p, mem[p], task)
      BY <1>1, <2>2 DEF Close, Idle
    <2>4. Acts(p) /\ at'[p] = task /\ todo'[p] = <<>>
      BY <1>0, <2>1, <2>3, DirectlyGoes DEF Acts, Resting, Idle
    <2> QED BY <1>1, <2>1, <2>3, <2>4 DEF BeginsStop, Close
  <1>2. CASE OpenAgain(p)
    <2>1. \A q \in Procs : Resting(q)
      BY <1>2, ArrivesAlone DEF OpenAgain
    <2> QED BY <1>0, <1>2, <2>1 DEF AnsweredAtOnce, OpenAgain, Acts, Resting
  <1> QED BY <1>1, <1>2, ScheduleCommandBegins, MatchCommandBegins DEF Arrive

-----------------------------------------------------------------------------
(* A recalculation settles what it has read.                               *)

LEMMA StepSerial ==
    ASSUME SerialInv, NEW p \in Procs, Step(p)
    PROVE  OneInFlight' /\ \A q \in Procs : HaltedWhileEdited(q)' /\ PlanIsFresh(q)'
  <1>1. DbTypes /\ LocalOK /\ OneInFlight /\ HaltedWhileEdited(p)
    BY SerialInvParts DEF SerialInv
  <1>2. at[p] # Idle /\ Acts(p)
    BY <1>1, StepMoves, StepActs
  <1>3. OneInFlight' /\ \A q \in Procs \ {p} : HaltedWhileEdited(q)' /\ PlanIsFresh(q)'
    <2>1. OneInFlight' /\ \A q \in Procs \ {p} : at'[q] = Idle
      BY <1>1, <1>2, OthersRest DEF Resting
    <2> QED BY <2>1 DEF Idle, HaltedWhileEdited, PlanIsFresh, At
  <1>4. CASE MovesOn(p)
    <2>1. HaltedWhileEdited(p)' /\ PlanIsFresh(p)'
      BY <1>4 DEF MovesOn, HaltedWhileEdited, PlanIsFresh, At, QueuedSteps, MatchOps
    <2> QED BY <1>3, <2>1
  <1>5. CASE /\ GoesOn(p, "settle") /\ mem'[p].plan = Decision(at[p].on)
             /\ UNCHANGED <<tournament, sched, entries, match>>
             /\ sched[at[p].on].status = "running" /\ tournament = "open"
    <2>1. PICK s : s = at[p].on
      OBVIOUS
    <2>2. Decision(s)' = Decision(s)
      BY <1>5, SameDecision
    <2>3. HaltedWhileEdited(p)' /\ PlanIsFresh(p)'
      BY <1>5, <2>1, <2>2 DEF GoesOn, HaltedWhileEdited, PlanIsFresh, At
    <2> QED BY <1>3, <2>3
  <1>6. CASE DiffRow(p) /\ GoesOn(p, "writeRow") /\ UNCHANGED db
    <2>1. HaltedWhileEdited(p)' /\ PlanIsFresh(p)'
      BY <1>1, <1>6 DEF DiffRow, GoesOn, HaltedWhileEdited, PlanIsFresh, At, db
    <2> QED BY <1>3, <2>1
  <1>7. CASE at'[p].step = "interrupt"
    <2>1. HaltedWhileEdited(p)' /\ PlanIsFresh(p)'
      BY <1>7 DEF HaltedWhileEdited, PlanIsFresh, At
    <2> QED BY <1>3, <2>1
  <1> QED BY <1>1, <1>4, <1>5, <1>6, <1>7, StepMoves

LEMMA ArriveSerial ==
    ASSUME SerialInv, OneRequest, NEW p \in Requests, Arrive(p)
    PROVE  OneInFlight' /\ \A q \in Procs : HaltedWhileEdited(q)' /\ PlanIsFresh(q)'
  <1>1. p \in Procs /\ DbTypes /\ LocalOK /\ OneInFlight
    BY SerialInvParts DEF SerialInv, Procs
  <1>2. (\A q \in Procs : Resting(q)) /\ Acts(p)
    BY <1>1, ArriveBegins
  <1>3. \A q \in Procs \ {p} : Resting(q)'
    BY <1>2 DEF Resting, Acts
  <1>4. OneInFlight'
    BY <1>2, <1>3 DEF OneInFlight, Resting, Alone, Acts
  <1>5. \A q \in Procs \ {p} : HaltedWhileEdited(q)' /\ PlanIsFresh(q)'
    BY <1>3 DEF Resting, Idle, HaltedWhileEdited, PlanIsFresh, At
  <1>6. HaltedWhileEdited(p)' /\ PlanIsFresh(p)'
    <2>1. CASE BeginsSave(p)
      BY <2>1 DEF BeginsSave, Editable, HaltedWhileEdited, PlanIsFresh, At, db
    <2>2. CASE BeginsEdit(p)
      BY <2>2 DEF BeginsEdit, Editable, HaltedWhileEdited, PlanIsFresh, At, db
    <2>3. CASE BeginsStop(p)
      BY <2>3 DEF BeginsStop, HaltedWhileEdited, PlanIsFresh, At
    <2>4. CASE AnsweredAtOnce(p)
      BY <1>1, <1>2, <2>4 DEF AnsweredAtOnce, Resting, Idle, HaltedWhileEdited, PlanIsFresh, At
    <2>5. CASE BeginsActivation(p) \/ BeginsMatch(p)
      BY <2>5 DEF BeginsActivation, BeginsMatch, HaltedWhileEdited, PlanIsFresh, At
    <2> QED BY <1>1, <2>1, <2>2, <2>3, <2>4, <2>5, ArriveBegins
  <1> QED BY <1>4, <1>5, <1>6

LEMMA CrashSerial ==
    ASSUME SerialInv, Crash
    PROVE  OneInFlight' /\ \A q \in Procs : HaltedWhileEdited(q)' /\ PlanIsFresh(q)'
  <1>1. /\ \A q \in Procs \ {Server} : Resting(q)'
        /\ Server \in Procs /\ at'[Server].step = "reconcile" /\ todo'[Server] = <<>>
    BY DEF Crash, Procs, Resting, Idle
  <1>2. OneInFlight'
    BY <1>1 DEF OneInFlight, Resting, Alone, Idle
  <1>3. \A q \in Procs : at'[q].step \in {"idle", "reconcile"}
    BY <1>1 DEF Resting, Idle
  <1> QED BY <1>2, <1>3 DEF HaltedWhileEdited, PlanIsFresh, At

LEMMA InitSerial ==
    ASSUME Init
    PROVE  SerialInv
  <1>1. \A p \in Procs : Resting(p)
    BY DEF Init, Resting
  <1> QED BY <1>1, InitBoards, RestingIsSerial DEF SerialInv, OneInFlight, Resting

LEMMA NextSerial ==
    ASSUME SerialInv, OneRequest, [Next]_vars
    PROVE  SerialInv'
  <1>1. BoardsInv'
    BY NextBoards DEF SerialInv
  <1>2. CASE Next
    <2>1. OneInFlight' /\ \A q \in Procs : HaltedWhileEdited(q)' /\ PlanIsFresh(q)'
      BY <1>2, ArriveSerial, StepSerial, CrashSerial DEF Next
    <2> QED BY <1>1, <2>1 DEF SerialInv
  <1>3. CASE UNCHANGED vars
    <2>1. OneInFlight'
      BY <1>3 DEF vars, SerialInv, OneInFlight, Resting, Alone
    <2>2. ASSUME NEW q \in Procs
          PROVE  HaltedWhileEdited(q)' /\ PlanIsFresh(q)'
      <3>1. PICK s : s = at[q].on
        OBVIOUS
      <3>2. Decision(s)' = Decision(s)
        BY <1>3, SameDecision DEF vars
      <3> QED BY <1>3, <3>1, <3>2 DEF vars, SerialInv, HaltedWhileEdited, PlanIsFresh, At
    <2> QED BY <1>1, <2>1, <2>2 DEF SerialInv
  <1> QED BY <1>2, <1>3

-----------------------------------------------------------------------------
(* Nothing is skipped.                                                     *)

\* The walk halts at the first entry that is not passed.
LEMMA HaltIsFirst ==
    ASSUME BoardsTyped, NEW s \in Schedules, Unpassed(s) # {}
    PROVE  HaltIndex(s) \in Unpassed(s) /\ \A j \in Unpassed(s) : HaltIndex(s) <= j
  <1>1. Unpassed(s) \subseteq Nat
    BY WalkTypes DEF Unpassed
  <1> QED BY <1>1, FirstExists DEF HaltIndex

\* An entry is found where it is.
LEMMA PositionIs ==
    ASSUME BoardsAreSound, NEW s \in Schedules, NEW i \in Positions(s)
    PROVE  Position(s, entries[s][i]) = i
  BY DEF BoardsAreSound, Position

\* What SkipsNothing asks of a step and a schedule.
Goes(s) ==
    /\ sched[s].status = "running" /\ sched'[s] # sched[s]
    /\ sched'[s].status \in {"running", "completed"}
    /\ sched'[s].current # NoMatch \/ sched'[s].status = "completed"

\* Only a recalculation takes a running schedule on.
LEMMA OnlySettleGoesOn ==
    ASSUME SerialInv, [Next]_vars, NEW s \in Schedules, Goes(s)
    PROVE  \E p \in Procs : Settle(p) /\ at[p].on = s /\ sched'[s] = mem[p].plan.row
  <1>1. DbTypes /\ LocalOK /\ sched \in [Schedules -> Row]
    BY SerialInvParts DEF DbTypes
  <1>2. ~ UNCHANGED sched
    BY DEF Goes
  <1>3. ASSUME NEW p \in Requests, Arrive(p)
        PROVE  FALSE
    <2>1. PICK t \in Schedules : Create(p, t)
      BY <1>2, <1>3 DEF Arrive, Start, UpdateDetails, Archive, LoadRow, RemoveSchedule,
         ReplaceEntries, StopCommand, Activate, Command, ReportRun, Close, OpenAgain, db
    <2>2. sched[t].status = "absent" /\ sched' = [sched EXCEPT ![t] = Created]
      BY <2>1 DEF Create
    <2> QED BY <1>1, <2>2 DEF Goes
  <1>4. ~Crash
    BY <1>2 DEF Crash, db
  <1>5. PICK p \in Procs : Step(p)
    BY <1>2, <1>3, <1>4 DEF Next, vars
  <1>6. HaltedWhileEdited(p)
    BY DEF SerialInv
  <1>7. ASSUME NEW t \in Schedules, NEW code, sched' = [sched EXCEPT ![t] = Stopped(@, code)]
        PROVE  FALSE
    <2>1. sched'[t] = Stopped(sched[t], code) /\ \A u \in Schedules \ {t} : sched'[u] = sched[u]
      BY <1>1, <1>7
    <2>2. Stopped(sched[t], code).status = "inactive"
      BY <1>1 DEF Stopped, Row
    <2> QED BY <2>1, <2>2 DEF Goes
  <1>8. ASSUME NEW t \in Schedules, NEW row, sched[t].status # "running",
               sched' = [sched EXCEPT ![t] = row]
        PROVE  FALSE
    BY <1>1, <1>8 DEF Goes
  <1>9. CASE Read(p)
    <2>1. at[p].on \in Schedules
      BY <1>1, <1>9, AtTypes DEF Read, At, ScheduleSteps
    <2> QED BY <1>2, <1>7, <1>9, <2>1 DEF Read
  <1>10. CASE Settle(p)
    BY <1>1, <1>2, <1>10 DEF Settle, Goes
  <1>11. CASE Stop(p)
    <2>1. at[p].on \in Schedules
      BY <1>1, <1>11, AtTypes DEF Stop, At, ScheduleSteps
    <2> QED BY <1>2, <1>7, <1>11, <2>1 DEF Stop
  <1>12. CASE Interrupt(p)
    <2>1. at[p].on \in Schedules
      BY <1>1, <1>12, AtTypes DEF Interrupt, At, ScheduleSteps
    <2> QED BY <1>2, <1>8, <1>12, <2>1 DEF Interrupt
  <1>13. CASE WriteRow(p) \/ RemoveRow(p)
    <2>1. at[p].on \in Schedules /\ sched[at[p].on].status # "running"
      BY <1>1, <1>6, <1>13, AtTypes DEF WriteRow, RemoveRow, At, ScheduleSteps, HaltedWhileEdited
    <2> QED BY <1>2, <1>8, <1>13, <2>1 DEF WriteRow, RemoveRow
  <1>14. CASE Rewrite(p)
    <2>1. PICK robbed \in SUBSET Schedules :
             /\ robbed \subseteq mem[p].from
             /\ sched' = [t \in Schedules |->
                      IF t \in robbed \union {at[p].on}
                      THEN [sched[t] EXCEPT !.current = NoMatch] ELSE sched[t]]
      <3>1. mem[p].from \subseteq Schedules
        BY <1>1, AtTypes DEF Memory
      <3> QED BY <1>2, <1>14, <3>1 DEF Rewrite, Robbed
    <2>2. \A t \in robbed \union {at[p].on} : sched[t].status # "running"
      BY <1>6, <1>14, <2>1 DEF Rewrite, At, HaltedWhileEdited
    <2> QED BY <2>1, <2>2 DEF Goes
  <1>15. CASE DeactivateEvery(p) \/ ListRunning(p) \/ Reconcile(p) \/ FindSchedule(p)
              \/ GuardRollback(p) \/ PrepareReopen(p) \/ CheckManual(p) \/ DiffRow(p)
              \/ Save(p) \/ Seat(p) \/ \E o \in MatchOps \ {"activate"} : Edit(p, o)
    BY <1>2, <1>15 DEF DeactivateEvery, ListRunning, Reconcile, FindSchedule, GuardRollback,
       PrepareReopen, CheckManual, DiffRow, Save, Seat, Edit, db
  <1> QED BY <1>5, <1>9, <1>10, <1>11, <1>12, <1>13, <1>14, <1>15 DEF Step

LEMMA GoesOverPassed ==
    ASSUME SerialInv, [Next]_vars, NEW s \in Schedules, Goes(s)
    PROVE  \A m \in LeftBehind(s) : Passed(m)
  <1>1. BoardsTyped /\ BoardsAreSound /\ sched \in [Schedules -> Row]
    BY SerialInvParts DEF SerialInv, BoardsInv, DbTypes
  <1>2. PICK p \in Procs : Settle(p) /\ at[p].on = s /\ sched'[s] = mem[p].plan.row
    BY OnlySettleGoesOn
  <1>3. sched'[s] = Decision(s).row
    BY <1>2 DEF SerialInv, PlanIsFresh, Settle
  <1>4. SUFFICES ASSUME NEW j \in Positions(s), j >= StartIndex(s),
                        sched'[s].status = "running" => j < Position(s, sched'[s].current)
                 PROVE  Passed(entries[s][j])
    BY DEF LeftBehind
  <1>5. CASE Unpassed(s) = {}
    BY <1>4, <1>5 DEF Unpassed
  <1>6. CASE Unpassed(s) # {}
    <2>1. PICK i : i = HaltIndex(s)
      OBVIOUS
    <2>2. i \in Unpassed(s) /\ \A k \in Unpassed(s) : i <= k
      BY <1>1, <1>6, <2>1, HaltIsFirst
    <2>3. sched'[s].current = entries[s][i] /\ sched'[s].status = "running"
      BY <1>1, <1>3, <1>6, <2>1 DEF Decision, Activated, WaitingAt, Goes, Row
    <2>4. i \in Positions(s) /\ Position(s, entries[s][i]) = i
      BY <1>1, <2>2, PositionIs DEF Unpassed
    <2>5. j < i /\ i \in Nat /\ j \in Nat
      BY <1>1, <1>4, <2>3, <2>4, WalkTypes
    <2> QED BY <1>4, <2>2, <2>5 DEF Unpassed
  <1> QED BY <1>5, <1>6

\* With one request at a time a run moves only over passed matches, whatever
\* the schedules, matches, rules and roles are and wherever the process dies:
\* the recalculation writes what the walk found, and the walk stops at the
\* first entry still to be played.
THEOREM RunsSkipNothing ==
    ASSUME OneRequest
    PROVE  Spec => SkipsNothing
  <1>1. Init => SerialInv
    BY InitSerial
  <1>2. SerialInv /\ [Next]_vars => SerialInv'
    BY NextSerial
  <1>3. SerialInv /\ [Next]_vars =>
          [\A s \in Schedules :
             (/\ sched[s].status = "running" /\ sched'[s] # sched[s]
              /\ sched'[s].status \in {"running", "completed"}
              /\ sched'[s].current # NoMatch \/ sched'[s].status = "completed")
             => \A m \in LeftBehind(s) : Passed(m)]_vars
    BY GoesOverPassed DEF Goes
  <1> QED BY <1>1, <1>2, <1>3, PTL DEF Spec, SkipsNothing

-----------------------------------------------------------------------------
(* The line of steps a request still has to take.                          *)

\* p takes the first step of the line, and is done when there is none.
TakesFirst(p, line, memory) ==
    \/ line = <<>> /\ Resting(p)'
    \/ /\ 1 \in DOMAIN line
       /\ at'[p] = line[1] /\ mem'[p] = memory
       /\ DOMAIN line = 1..Len(line) /\ Len(line) \in Nat
       /\ Len(line) = 1 => todo'[p] = <<>>
       /\ Len(todo'[p]) = Len(line) - 1 /\ DOMAIN todo'[p] = 1..(Len(line) - 1)
       /\ \A i \in DOMAIN todo'[p] : i + 1 \in DOMAIN line /\ todo'[p][i] = line[i + 1]

LEMMA ThenTakes ==
    ASSUME LocalOK, NEW p \in Procs, NEW memory, NEW more \in Seq(Queued), NEW line,
           line = more \o todo[p], Then(p, memory, more)
    PROVE  TakesFirst(p, line, memory)
  <1>1. line \in Seq(Queued)
    BY ConcatProperties DEF LocalOK, LocalTypes
  <1>2. CASE line = <<>>
    BY <1>2 DEF Then, Finish, TakesFirst, Resting, LocalOK, LocalTypes
  <1>3. CASE line # <<>>
    <2>1. /\ at' = [at EXCEPT ![p] = Head(line)]
          /\ todo' = [todo EXCEPT ![p] = Tail(line)]
          /\ mem' = [mem EXCEPT ![p] = memory]
      BY <1>3 DEF Then
    <2>2. /\ 1 \in DOMAIN line /\ Head(line) = line[1]
          /\ DOMAIN line = 1..Len(line) /\ Len(line) \in Nat
          /\ Len(Tail(line)) = Len(line) - 1 /\ DOMAIN Tail(line) = 1..(Len(line) - 1)
          /\ \A i \in DOMAIN Tail(line) : i + 1 \in DOMAIN line /\ Tail(line)[i] = line[i + 1]
      BY <1>1, <1>3, HeadTailProperties, LenProperties
    <2>3. Len(line) = 1 => Tail(line) = <<>>
      BY <1>1, <1>3, <2>2, HeadTailProperties, EmptySeq
    <2> QED BY <2>1, <2>2, <2>3 DEF TakesFirst, LocalOK, LocalTypes
  <1> QED BY <1>2, <1>3

\* Nothing is put in front of what p had queued.
LEMMA ThenContinues ==
    ASSUME LocalOK, NEW p \in Procs, NEW memory, Then(p, memory, <<>>)
    PROVE  TakesFirst(p, todo[p], memory)
  <1>1. <<>> \in Seq(Queued) /\ todo[p] = <<>> \o todo[p]
    BY EmptySeq, ConcatEmptySeq DEF LocalOK, LocalTypes
  <1> QED BY <1>1, ThenTakes

\* p had nothing queued.
LEMMA ThenBegins ==
    ASSUME LocalOK, NEW p \in Procs, NEW memory, NEW more \in Seq(Queued),
           todo[p] = <<>>, Then(p, memory, more)
    PROVE  TakesFirst(p, more, memory)
  <1>1. more = more \o todo[p]
    BY ConcatEmptySeq
  <1> QED BY <1>1, ThenTakes

\* One step is put in front.
LEMMA ThenFirst ==
    ASSUME LocalOK, NEW p \in Procs, NEW memory, NEW task \in Queued,
           Then(p, memory, <<task>>)
    PROVE  at'[p] = task /\ todo'[p] = todo[p] /\ mem'[p] = memory
  <1>1. todo[p] \in Seq(Queued) /\ Len(todo[p]) \in Nat
    BY LenProperties DEF LocalOK, LocalTypes
  <1>2. PICK line : line = <<task>> \o todo[p]
    OBVIOUS
  <1>3. <<task>> \in Seq(Queued) /\ Len(<<task>>) = 1 /\ <<task>>[1] = task
    OBVIOUS
  <1>4. line # <<>> /\ Head(line) = task /\ Tail(line) = todo[p]
    <2>1. /\ line \in Seq(Queued) /\ Len(line) = 1 + Len(todo[p])
          /\ \A i \in 1..Len(line) :
                line[i] = IF i <= 1 THEN <<task>>[i] ELSE todo[p][i - 1]
      BY <1>1, <1>2, <1>3, ConcatProperties
    <2>2. line # <<>> /\ Head(line) = task
      BY <1>1, <1>3, <2>1
    <2>3. /\ Tail(line) \in Seq(Queued) /\ Len(Tail(line)) = Len(todo[p])
          /\ \A i \in 1..Len(todo[p]) : Tail(line)[i] = todo[p][i]
      <3>1. /\ Tail(line) \in Seq(Queued) /\ Len(Tail(line)) = Len(line) - 1
            /\ \A i \in 1..(Len(line) - 1) : Tail(line)[i] = line[i + 1]
        BY <2>1, <2>2, HeadTailProperties
      <3> QED BY <1>1, <2>1, <3>1
    <2>4. Tail(line) = todo[p]
      BY <1>1, <2>3, SeqEqual
    <2> QED BY <2>2, <2>4
  <1> QED BY <1>2, <1>4 DEF Then, LocalOK, LocalTypes

-----------------------------------------------------------------------------
(* A closed tournament comes to a halt.                                    *)

\* What can be going on in a closed tournament: the list of what runs is being
\* made, every running schedule on it is stopped in turn, the bootstrap reads
\* the schedules that ran, or a completed schedule is put away.
Listing(p) == at[p].step \in {"listRunning", "reconcile"} /\ todo[p] = <<>>

Stopping(p) ==
    /\ At(p, "stop") /\ sched[at[p].on].status = "running"
    /\ \A i \in DOMAIN todo[p] :
          /\ todo[p][i].step = "stop" /\ todo[p][i].on # at[p].on
          /\ sched[todo[p][i].on].status = "running"
          /\ \A j \in DOMAIN todo[p] : todo[p][i].on = todo[p][j].on => i = j

Reading(p) ==
    /\ At(p, "read") /\ sched[at[p].on].status # "absent"
    /\ \A i \in DOMAIN todo[p] :
          todo[p][i].step = "read" /\ sched[todo[p][i].on].status # "absent"

Archiving(p) ==
    /\ at[p].step \in {"diffRow", "writeRow"} /\ todo[p] = <<>>
    /\ sched[at[p].on].status = "completed" /\ mem[p].row.status = "completed"

Winding(p) == Resting(p) \/ Listing(p) \/ Stopping(p) \/ Reading(p) \/ Archiving(p)

\* A step that is the end of a run of s in a closed tournament.
Halts(task, s) == task.step \in {"stop", "read"} /\ task.on = s

WillHalt(p, s) ==
    \/ at[p].step \in {"listRunning", "reconcile"}
    \/ Halts(at[p], s)
    \/ \E i \in DOMAIN todo[p] : Halts(todo[p][i], s)

ClosedInv ==
    tournament = "closed" =>
        /\ \A p \in Procs : Winding(p)
        /\ \A s \in RunningSchedules : \E p \in Procs : WillHalt(p, s)

LEMMA RestingHaltsNothing ==
    ASSUME NEW p \in Procs, Resting(p), NEW s
    PROVE  ~WillHalt(p, s)
  BY DEF Resting, WillHalt, Halts, Idle

\* One step at a time is enough: the others rest.
LEMMA ClosedAlone ==
    ASSUME SerialInv, NEW p \in Procs, Step(p), Winding(p)',
           \A s \in RunningSchedules' : WillHalt(p, s)'
    PROVE  ClosedInv'
  <1>1. at[p] # Idle /\ Acts(p)
    BY SerialInvParts, StepMoves, StepActs
  <1>2. \A q \in Procs \ {p} : Resting(q)'
    BY <1>1, OthersRest DEF SerialInv
  <1> QED BY <1>2 DEF ClosedInv, Winding

\* A line of one step for every running schedule.
LEMMA OrderOfRunning ==
    ASSUME NEW order \in OrdersOf(RunningSchedules)
    PROVE  /\ DOMAIN order = 1..Len(order) /\ Len(order) \in Nat
           /\ \A i \in DOMAIN order : order[i] \in RunningSchedules
           /\ \A i, j \in DOMAIN order : order[i] = order[j] => i = j
           /\ \A s \in RunningSchedules : \E i \in DOMAIN order : order[i] = s
  <1>1. order \in Seq(RunningSchedules)
    BY RunningFinite, OrderType
  <1>2. /\ ToSet(order) = RunningSchedules
        /\ \A i, j \in DOMAIN order : order[i] = order[j] => i = j
    BY RunningFinite, OrderIsInjective
  <1>3. /\ DOMAIN order = 1..Len(order) /\ Len(order) \in Nat
        /\ \A i \in DOMAIN order : order[i] \in RunningSchedules
    BY <1>1, LenProperties, ElementOfSeq
  <1>4. \A s \in RunningSchedules : \E i \in DOMAIN order : order[i] = s
    BY <1>2 DEF ToSet
  <1> QED BY <1>2, <1>3, <1>4

\* Every running schedule is on the list that is stopped.
LEMMA ListClosed ==
    ASSUME SerialInv, NEW p \in Procs, todo[p] = <<>>, ListRunning(p) \/ Reconcile(p)
    PROVE  /\ ListRunning(p) => (Resting(p) \/ Stopping(p))'
           /\ Reconcile(p) => (Resting(p) \/ Reading(p))'
           /\ \A s \in RunningSchedules' : WillHalt(p, s)'
  <1>1. LocalOK /\ UNCHANGED sched /\ RunningSchedules' = RunningSchedules
    BY SerialInvParts DEF ListRunning, Reconcile, db, RunningSchedules
  <1>2. ASSUME NEW order \in OrdersOf(RunningSchedules), NEW queue, NEW step \in {"stop", "read"},
               DOMAIN queue = DOMAIN order, queue = [i \in DOMAIN order |-> queue[i]],
               \A i \in DOMAIN order :
                  queue[i].step = step /\ queue[i].on = order[i] /\ queue[i] \in Queued,
               Then(p, mem[p], queue)
        PROVE  /\ Resting(p)' \/ (IF step = "stop" THEN Stopping(p)' ELSE Reading(p)')
               /\ \A s \in RunningSchedules : WillHalt(p, s)'
    <2>0. /\ DOMAIN queue = DOMAIN order
          /\ \A i \in DOMAIN order : queue[i].step = step /\ queue[i].on = order[i]
      BY <1>2
    <2>1. /\ DOMAIN order = 1..Len(order) /\ Len(order) \in Nat
          /\ \A i \in DOMAIN order : order[i] \in RunningSchedules
          /\ \A i, j \in DOMAIN order : order[i] = order[j] => i = j
          /\ \A s \in RunningSchedules : \E i \in DOMAIN order : order[i] = s
      BY OrderOfRunning
    <2>2. queue \in Seq(Queued)
      BY <1>2, RunningFinite, QueueType
    <2>3. TakesFirst(p, queue, mem[p])
      BY <1>1, <1>2, <2>2, ThenBegins
    <2>4. CASE queue = <<>> /\ Resting(p)'
      <3>1. DOMAIN queue = {}
        BY <2>4
      <3> QED BY <1>2, <2>1, <2>4, <3>1
    <2>5. CASE ~(queue = <<>> /\ Resting(p)')
      <3>1. /\ 1 \in DOMAIN queue /\ at'[p] = queue[1] /\ Len(queue) \in Nat
            /\ DOMAIN queue = 1..Len(queue) /\ DOMAIN todo'[p] = 1..(Len(queue) - 1)
            /\ \A i \in DOMAIN todo'[p] : i + 1 \in DOMAIN queue /\ todo'[p][i] = queue[i + 1]
        BY <2>3, <2>5 DEF TakesFirst
      <3>2. \A i \in DOMAIN order : order[i] \in Schedules /\ sched'[order[i]].status = "running"
        BY <1>1, <2>1 DEF RunningSchedules
      <3>3. \A i \in DOMAIN todo'[p] :
               /\ todo'[p][i].step = step /\ todo'[p][i].on = order[i + 1]
               /\ i \in Nat /\ i + 1 \in DOMAIN order /\ i + 1 # 1
        <4> TAKE i \in DOMAIN todo'[p]
        <4>1. i \in Nat /\ i + 1 # 1 /\ i + 1 \in DOMAIN order /\ todo'[p][i] = queue[i + 1]
          BY <2>0, <3>1
        <4> QED BY <2>0, <4>1
      <3>4. at'[p].step = step /\ at'[p].on = order[1] /\ 1 \in DOMAIN order
        BY <1>2, <3>1
      <3>5. ASSUME step = "stop"
            PROVE  Stopping(p)'
        <4>1. ASSUME NEW i \in DOMAIN todo'[p], NEW j \in DOMAIN todo'[p],
                     todo'[p][i].on = todo'[p][j].on
              PROVE  i = j
          BY <2>1, <3>3, <4>1
        <4>2. \A i \in DOMAIN todo'[p] :
                 /\ todo'[p][i].step = "stop" /\ todo'[p][i].on # at'[p].on
                 /\ sched'[todo'[p][i].on].status = "running"
          BY <2>1, <3>2, <3>3, <3>4, <3>5
        <4>3. at'[p].step = "stop" /\ sched'[at'[p].on].status = "running"
          BY <3>2, <3>4, <3>5
        <4> QED BY <4>1, <4>2, <4>3 DEF Stopping, At
      <3>6. ASSUME step = "read"
            PROVE  Reading(p)'
        <4>1. at'[p].step = "read" /\ sched'[at'[p].on].status # "absent"
          BY <3>2, <3>4, <3>6
        <4>2. \A i \in DOMAIN todo'[p] :
                 todo'[p][i].step = "read" /\ sched'[todo'[p][i].on].status # "absent"
          BY <3>2, <3>3, <3>6
        <4> QED BY <4>1, <4>2 DEF Reading, At
      <3>7. ASSUME NEW s \in RunningSchedules
            PROVE  WillHalt(p, s)'
        <4>1. PICK i \in DOMAIN order : order[i] = s
          BY <2>1
        <4>2. CASE i = 1
          BY <3>4, <4>1, <4>2 DEF WillHalt, Halts
        <4>3. CASE i # 1
          <5>1. i - 1 \in DOMAIN todo'[p] /\ (i - 1) + 1 = i
            BY <1>2, <2>1, <3>1, <4>3
          <5>2. Halts(todo'[p][i - 1], s)
            BY <3>3, <4>1, <5>1 DEF Halts
          <5> QED BY <5>1, <5>2 DEF WillHalt, Halts
        <4> QED BY <4>2, <4>3
      <3>8. IF step = "stop" THEN Stopping(p)' ELSE Reading(p)'
        BY <3>5, <3>6
      <3> QED BY <3>7, <3>8
    <2> QED BY <2>4, <2>5
  <1>3. ASSUME ListRunning(p)
        PROVE  /\ Resting(p)' \/ Stopping(p)'
               /\ \A s \in RunningSchedules : WillHalt(p, s)'
    <2>1. PICK order \in OrdersOf(RunningSchedules) :
             Then(p, mem[p], [i \in DOMAIN order |-> StopOf(order[i], "TOURNAMENT_CLOSED")])
      BY <1>3 DEF ListRunning
    <2>2. PICK queue : queue = [i \in DOMAIN order |-> StopOf(order[i], "TOURNAMENT_CLOSED")]
      OBVIOUS
    <2>3. \A i \in DOMAIN order : order[i] \in Schedules
      BY OrderOfRunning DEF RunningSchedules
    <2>4. \A i \in DOMAIN order :
             queue[i].step = "stop" /\ queue[i].on = order[i] /\ queue[i] \in Queued
      BY <2>2, <2>3, TaskTypes DEF StopOf, OnSchedule, Idle, InterruptionCodes
    <2>5. DOMAIN queue = DOMAIN order /\ queue = [i \in DOMAIN order |-> queue[i]]
      BY <2>2
    <2> QED BY <1>1, <1>2, <2>1, <2>2, <2>4, <2>5
  <1>4. ASSUME Reconcile(p)
        PROVE  /\ Resting(p)' \/ Reading(p)'
               /\ \A s \in RunningSchedules : WillHalt(p, s)'
    <2>1. PICK order \in OrdersOf(RunningSchedules) :
             Then(p, mem[p], [i \in DOMAIN order |-> OnSchedule("read", order[i])])
      BY <1>4 DEF Reconcile
    <2>2. PICK queue : queue = [i \in DOMAIN order |-> OnSchedule("read", order[i])]
      OBVIOUS
    <2>3. \A i \in DOMAIN order : order[i] \in Schedules
      BY OrderOfRunning DEF RunningSchedules
    <2>4. \A i \in DOMAIN order :
             queue[i].step = "read" /\ queue[i].on = order[i] /\ queue[i] \in Queued
      BY <2>2, <2>3, TaskTypes DEF OnSchedule, Idle
    <2>5. DOMAIN queue = DOMAIN order /\ queue = [i \in DOMAIN order |-> queue[i]]
      BY <2>2
    <2> QED BY <1>1, <1>2, <2>1, <2>2, <2>4, <2>5
  <1> QED BY <1>1, <1>3, <1>4

\* What remains to be halted once the first schedule of the line is.
LEMMA RestWillHalt ==
    ASSUME NEW p \in Procs, TakesFirst(p, todo[p], mem[p]), NEW s, WillHalt(p, s),
           ~Halts(at[p], s), at[p].step \notin {"listRunning", "reconcile"}
    PROVE  WillHalt(p, s)'
  <1>1. PICK i \in DOMAIN todo[p] : Halts(todo[p][i], s)
    BY DEF WillHalt
  <1>2. /\ 1 \in DOMAIN todo[p] /\ at'[p] = todo[p][1]
        /\ DOMAIN todo[p] = 1..Len(todo[p]) /\ Len(todo[p]) \in Nat
        /\ DOMAIN todo'[p] = 1..(Len(todo[p]) - 1)
        /\ \A k \in DOMAIN todo'[p] : todo'[p][k] = todo[p][k + 1]
    BY <1>1 DEF TakesFirst
  <1>3. CASE i = 1
    BY <1>1, <1>2, <1>3 DEF WillHalt, Halts
  <1>4. CASE i # 1
    <2>1. i - 1 \in DOMAIN todo'[p] /\ (i - 1) + 1 = i
      BY <1>2, <1>4
    <2>2. todo'[p][i - 1] = todo[p][i]
      BY <1>2, <2>1
    <2> QED BY <1>1, <2>1, <2>2 DEF WillHalt, Halts
  <1> QED BY <1>3, <1>4

\* The schedule at the head of the line halts, the others stay on it.
LEMMA HaltClosed ==
    ASSUME SerialInv, tournament = "closed", NEW p \in Procs,
           (Stop(p) /\ Stopping(p)) \/ (Read(p) /\ Reading(p)),
           \A s \in RunningSchedules : WillHalt(p, s)
    PROVE  Winding(p)' /\ \A s \in RunningSchedules' : WillHalt(p, s)'
  <1>1. /\ DbTypes /\ LocalOK /\ at[p].on \in Schedules
        /\ at[p].step \in {"stop", "read"}
    BY SerialInvParts, AtTypes DEF Stop, Read, At, ScheduleSteps
  <1>2. PICK s : s = at[p].on
    OBVIOUS
  <1>3. /\ Then(p, mem[p], <<>>)
        /\ \/ \E code : sched' = [sched EXCEPT ![s] = Stopped(sched[s], code)]
           \/ UNCHANGED sched /\ sched[s].status # "running"
    BY <1>2 DEF Stop, Stopping, Read, Reading, MayRun
  <1>4. /\ \A t \in Schedules \ {s} : sched'[t] = sched[t]
        /\ sched'[s].status # "running"
        /\ sched[s].status # "absent" => sched'[s].status # "absent"
    <2>1. ASSUME NEW code, sched' = [sched EXCEPT ![s] = Stopped(sched[s], code)]
          PROVE  /\ \A t \in Schedules \ {s} : sched'[t] = sched[t]
                 /\ sched'[s].status = "inactive"
      <3>1. Stopped(sched[s], code).status = "inactive"
        BY <1>1, <1>2 DEF DbTypes, Row, Stopped
      <3>2. sched'[s] = Stopped(sched[s], code) /\ \A t \in Schedules \ {s} : sched'[t] = sched[t]
        BY <1>1, <1>2, <2>1 DEF DbTypes
      <3> QED BY <3>1, <3>2
    <2> QED BY <1>3, <2>1
  <1>5. TakesFirst(p, todo[p], mem[p])
    BY <1>1, <1>3, ThenContinues
  <1>6. ASSUME NEW t \in RunningSchedules'
        PROVE  WillHalt(p, t)'
    <2>1. t \in RunningSchedules /\ t # s
      BY <1>4, <1>6 DEF RunningSchedules
    <2>2. ~Halts(at[p], t) /\ at[p].step \notin {"listRunning", "reconcile"}
      BY <1>1, <1>2, <2>1 DEF Halts
    <2> QED BY <1>5, <2>1, <2>2, RestWillHalt
  <1>7. Winding(p)'
    <2>1. CASE Resting(p)'
      BY <2>1 DEF Winding
    <2>2. CASE ~Resting(p)'
      <3>1. /\ 1 \in DOMAIN todo[p] /\ at'[p] = todo[p][1]
            /\ DOMAIN todo[p] = 1..Len(todo[p]) /\ Len(todo[p]) \in Nat
            /\ DOMAIN todo'[p] = 1..(Len(todo[p]) - 1)
            /\ \A k \in DOMAIN todo'[p] :
                  k + 1 \in DOMAIN todo[p] /\ todo'[p][k] = todo[p][k + 1]
        BY <1>5, <2>2 DEF TakesFirst
      <3>2. \A i \in DOMAIN todo[p] : todo[p][i].step \in ScheduleSteps => todo[p][i].on \in Schedules
        <4> TAKE i \in DOMAIN todo[p]
        <4>1. todo[p][i] \in Queued
          BY <1>1, ElementOfSeq DEF LocalOK, LocalTypes
        <4> QED BY <4>1 DEF Queued, TaskOf
      <3>3. CASE Stopping(p)
        <4>1. \A i \in DOMAIN todo[p] :
                 /\ todo[p][i].step = "stop" /\ sched'[todo[p][i].on].status = "running"
                 /\ \A j \in DOMAIN todo[p] : todo[p][i].on = todo[p][j].on => i = j
          BY <1>2, <1>4, <3>2, <3>3 DEF Stopping, ScheduleSteps
        <4>2. \A i \in DOMAIN todo'[p] :
                 /\ todo'[p][i].step = "stop" /\ todo'[p][i].on # at'[p].on
                 /\ sched'[todo'[p][i].on].status = "running"
          <5> TAKE i \in DOMAIN todo'[p]
          <5>1. i + 1 \in DOMAIN todo[p] /\ todo'[p][i] = todo[p][i + 1] /\ i + 1 # 1
            BY <3>1
          <5> QED BY <3>1, <4>1, <5>1
        <4>3. ASSUME NEW i \in DOMAIN todo'[p], NEW j \in DOMAIN todo'[p],
                     todo'[p][i].on = todo'[p][j].on
              PROVE  i = j
          <5>1. /\ i + 1 \in DOMAIN todo[p] /\ todo'[p][i] = todo[p][i + 1] /\ i \in Int
                /\ j + 1 \in DOMAIN todo[p] /\ todo'[p][j] = todo[p][j + 1] /\ j \in Int
            BY <3>1
          <5>2. i + 1 = j + 1
            BY <4>1, <4>3, <5>1
          <5> QED BY <5>1, <5>2
        <4>4. at'[p].step = "stop" /\ sched'[at'[p].on].status = "running"
          BY <3>1, <4>1
        <4>5. Stopping(p)'
          BY <4>2, <4>3, <4>4 DEF Stopping, At
        <4> QED BY <4>5 DEF Winding
      <3>4. CASE Reading(p)
        <4>1. \A i \in DOMAIN todo[p] :
                 todo[p][i].step = "read" /\ sched'[todo[p][i].on].status # "absent"
          BY <1>2, <1>4, <3>2, <3>4 DEF Reading, ScheduleSteps
        <4>2. Reading(p)'
          BY <3>1, <4>1 DEF Reading, At
        <4> QED BY <4>2 DEF Winding
      <3> QED BY <3>3, <3>4
    <2> QED BY <2>1, <2>2
  <1> QED BY <1>6, <1>7

\* A completed schedule is put away or taken out again.
LEMMA ArchiveClosed ==
    ASSUME SerialInv, NEW p \in Procs, DiffRow(p) \/ WriteRow(p), Archiving(p),
           \A s \in RunningSchedules : WillHalt(p, s)
    PROVE  Winding(p)' /\ \A s \in RunningSchedules' : WillHalt(p, s)'
  <1>1. /\ DbTypes /\ LocalOK /\ mem[p] \in Memory /\ at[p].on \in Schedules
    BY SerialInvParts, AtTypes DEF DiffRow, WriteRow, At, ScheduleSteps
  <1>2. RunningSchedules = {}
    BY DEF Archiving, WillHalt, Halts
  <1>3. CASE DiffRow(p)
    <2>1. /\ GoesOn(p, "writeRow") /\ UNCHANGED db /\ mem'[p].row = mem[p].row
      BY ZenonT(40), <1>1, <1>3, StepMoves DEF Step, MovesOn, DiffRow, Directly, OnSchedule, Idle,
         QueuedSteps, MatchOps, LocalOK, LocalTypes, GoesOn, Memory
    <2>2. Archiving(p)'
      BY <2>1 DEF Archiving, GoesOn, db
    <2>3. RunningSchedules' = {}
      BY <1>2, <2>1 DEF RunningSchedules, db
    <2> QED BY <2>2, <2>3 DEF Winding
  <1>4. CASE WriteRow(p)
    <2>1. PICK s : s = at[p].on
      OBVIOUS
    <2>2. PICK row : row = Merged(sched[s], mem[p].row, mem[p].delta)
      OBVIOUS
    <2>3. row.status = "completed"
      BY <2>1, <2>2 DEF Archiving, Merged
    <2>4. UNCHANGED sched \/ sched' = [sched EXCEPT ![s] = row]
      BY <1>4, <2>1, <2>2 DEF WriteRow
    <2>5. RunningSchedules' = {}
      BY <1>1, <1>2, <2>3, <2>4 DEF RunningSchedules, DbTypes
    <2>6. Resting(p)'
      <3>1. CASE Finish(p)
        BY <1>1, <3>1 DEF Finish, Resting, LocalOK, LocalTypes
      <3>2. ASSUME NEW memory, Then(p, memory, <<>>)
            PROVE  Resting(p)'
        BY <1>1, <3>2, ThenContinues DEF TakesFirst, Archiving
      <3> QED BY <1>4, <3>1, <3>2 DEF WriteRow
    <2> QED BY <2>5, <2>6 DEF Winding
  <1> QED BY <1>3, <1>4

LEMMA StepClosed ==
    ASSUME SerialInv, ClosedInv, NEW p \in Procs, Step(p)
    PROVE  ClosedInv'
  <1>1. /\ DbTypes /\ LocalOK /\ at[p] # Idle /\ Acts(p) /\ OneInFlight
    BY SerialInvParts, StepMoves, StepActs DEF SerialInv
  <1>2. UNCHANGED tournament
    BY DEF Step, Read, Settle, DeactivateEvery, Stop, Interrupt, ListRunning, Reconcile,
           FindSchedule, GuardRollback, PrepareReopen, CheckManual, DiffRow, WriteRow,
           RemoveRow, Rewrite, Save, Seat, Edit, db
  <1>3. SUFFICES ASSUME tournament = "closed"
                 PROVE  ClosedInv'
    BY <1>2 DEF ClosedInv, DbTypes
  <1>4. \A s \in RunningSchedules : WillHalt(p, s)
    BY <1>1, <1>3, OthersRest, RestingHaltsNothing DEF ClosedInv
  <1>5. Listing(p) \/ Stopping(p) \/ Reading(p) \/ Archiving(p)
    BY <1>1, <1>3 DEF ClosedInv, Winding, Resting
  <1>6. CASE Listing(p)
    <2>1. ListRunning(p) \/ Reconcile(p)
      BY <1>6 DEF Listing, Step, Read, Settle, DeactivateEvery, Stop, Interrupt,
         FindSchedule, GuardRollback, PrepareReopen, CheckManual, DiffRow, WriteRow,
         RemoveRow, Rewrite, Save, Seat, Edit, At, MatchOps
    <2>2. Winding(p)' /\ \A s \in RunningSchedules' : WillHalt(p, s)'
      BY <1>6, <2>1, ListClosed DEF Listing, Winding
    <2> QED BY <2>2, ClosedAlone
  <1>7. CASE Stopping(p) \/ Reading(p)
    <2>1. CASE Stopping(p)
      <3>1. Stop(p)
        BY <2>1 DEF Stopping, Step, Read, Settle, DeactivateEvery, Interrupt,
           ListRunning, Reconcile, FindSchedule, GuardRollback, PrepareReopen, CheckManual,
           DiffRow, WriteRow, RemoveRow, Rewrite, Save, Seat, Edit, At, MatchOps
      <3> QED BY <1>3, <1>4, <2>1, <3>1, HaltClosed, ClosedAlone
    <2>2. CASE Reading(p)
      <3>1. Read(p)
        BY <2>2 DEF Reading, Step, Stop, Settle, DeactivateEvery, Interrupt,
           ListRunning, Reconcile, FindSchedule, GuardRollback, PrepareReopen, CheckManual,
           DiffRow, WriteRow, RemoveRow, Rewrite, Save, Seat, Edit, At, MatchOps
      <3> QED BY <1>3, <1>4, <2>2, <3>1, HaltClosed, ClosedAlone
    <2> QED BY <1>7, <2>1, <2>2
  <1>8. CASE Archiving(p)
    <2>1. DiffRow(p) \/ WriteRow(p)
      BY <1>8 DEF Archiving, Step, Read, Settle, DeactivateEvery, Stop, Interrupt,
         ListRunning, Reconcile, FindSchedule, GuardRollback, PrepareReopen, CheckManual,
         RemoveRow, Rewrite, Save, Seat, Edit, At, MatchOps
    <2> QED BY <1>4, <1>8, <2>1, ArchiveClosed, ClosedAlone
  <1> QED BY <1>5, <1>6, <1>7, <1>8

LEMMA ArriveClosed ==
    ASSUME SerialInv, OneRequest, ClosedInv, NEW p \in Requests, Arrive(p)
    PROVE  ClosedInv'
  <1>1. p \in Procs /\ DbTypes /\ LocalOK /\ OneInFlight
    BY SerialInvParts DEF SerialInv, Procs
  <1>2. (\A q \in Procs : Resting(q)) /\ Acts(p)
    BY <1>1, ArriveBegins
  <1>3. \A q \in Procs \ {p} : Resting(q)'
    BY <1>2 DEF Resting, Acts
  <1>4. tournament = "closed" => RunningSchedules = {}
    BY <1>2, RestingHaltsNothing DEF ClosedInv
  <1>5. SUFFICES ASSUME tournament' = "closed"
                 PROVE  Winding(p)' /\ \A s \in RunningSchedules' : WillHalt(p, s)'
    BY <1>1, <1>3 DEF ClosedInv, Winding
  <1>6. CASE BeginsSave(p)
    <2>1. PICK s \in Schedules :
             /\ at'[p].step = "diffRow" /\ at'[p].on = s /\ UNCHANGED db
             /\ \/ tournament = "open"
                \/ /\ sched[s].status = "completed"
                   /\ todo'[p] = <<>> /\ mem'[p].row.status = "completed"
      BY <1>6 DEF BeginsSave
    <2>2. UNCHANGED <<tournament, sched>> /\ tournament = "closed"
      BY <1>5, <2>1 DEF db
    <2>3. Archiving(p)'
      BY <2>1, <2>2 DEF Archiving
    <2> QED BY <1>4, <2>2, <2>3 DEF Winding, RunningSchedules
  <1>7. CASE BeginsStop(p)
    <2>1. \/ tournament' = tournament /\ tournament = "open"
          \/ at'[p].step = "listRunning" /\ todo'[p] = <<>>
      BY <1>7 DEF BeginsStop, db
    <2> QED BY <1>5, <2>1 DEF Winding, Listing, WillHalt
  <1>8. CASE BeginsEdit(p) \/ BeginsActivation(p) \/ BeginsMatch(p) \/ AnsweredAtOnce(p)
    BY <1>5, <1>8 DEF BeginsEdit, BeginsActivation, BeginsMatch, AnsweredAtOnce, OpenAgain,
       Create, TournamentOpen, db
  <1> QED BY <1>1, <1>6, <1>7, <1>8, ArriveBegins

LEMMA CrashClosed ==
    ASSUME Crash
    PROVE  ClosedInv'
  <1>1. /\ \A q \in Procs \ {Server} : Resting(q)'
        /\ Server \in Procs /\ at'[Server].step = "reconcile" /\ todo'[Server] = <<>>
    BY DEF Crash, Procs, Resting, Idle
  <1> QED BY <1>1 DEF ClosedInv, Winding, Listing, WillHalt

\* With one request at a time, a closed tournament runs no schedule once the
\* requests are over, wherever the process dies on the way: the close lists
\* what runs and stops all of it, and what it had no time to stop is stopped
\* by the recalculation of the bootstrap.
THEOREM ClosedComesToAHalt ==
    ASSUME OneRequest
    PROVE  Spec => []ClosedIsStopped
  <1>1. Init => SerialInv /\ ClosedInv
    BY InitSerial DEF Init, ClosedInv
  <1>2. SerialInv /\ ClosedInv /\ [Next]_vars => SerialInv' /\ ClosedInv'
    <2> SUFFICES ASSUME SerialInv, ClosedInv, [Next]_vars PROVE SerialInv' /\ ClosedInv'
      OBVIOUS
    <2>1. CASE Next
      BY <2>1, NextSerial, ArriveClosed, StepClosed, CrashClosed DEF Next
    <2>2. CASE UNCHANGED vars
      <3>1. ClosedInv'
        BY <2>2 DEF vars, ClosedInv, Winding, Resting, Listing, Stopping, Reading, Archiving,
                    WillHalt, Halts, RunningSchedules, At
      <3> QED BY <3>1, NextSerial
    <2> QED BY <2>1, <2>2
  <1>3. SerialInv /\ ClosedInv => ClosedIsStopped
    <2> SUFFICES ASSUME SerialInv, ClosedInv, Quiet, ~TournamentOpen, RunningSchedules # {}
                 PROVE  FALSE
      BY DEF ClosedIsStopped
    <2>1. tournament = "closed"
      BY SerialInvParts DEF DbTypes, TournamentOpen
    <2>2. PICK s \in RunningSchedules, p \in Procs : WillHalt(p, s)
      BY <2>1 DEF ClosedInv
    <2>3. Resting(p)
      BY DEF Quiet, SerialInv, OneInFlight
    <2> QED BY <2>2, <2>3, RestingHaltsNothing
  <1> QED BY <1>1, <1>2, <1>3, PTL DEF Spec

-----------------------------------------------------------------------------
(* Only the current match of a run is active.                              *)

Seats == {"place", "unplace"}
Loads == MatchOps \ {"activate"}

\* Nobody activates a match by hand, and none is active at the start.
NothingByHand ==
    /\ \A p \in Requests : "activate" \notin Role[p]
    /\ \A m \in Matches : ~Match0[m].active

\* An active match is the current one of a schedule that runs.
ActiveIsCurrent ==
    \A m \in Matches : match[m].active =>
        \E t \in Schedules : sched[t].status = "running" /\ sched[t].current = m

\* What waits in a line activates nothing: the copies still to be saved are
\* inactive, nobody is seated meanwhile in a match that is to be saved, and an
\* edit is the last of its line.
Calm(line, memory) ==
    \A i \in DOMAIN line :
        /\ line[i].step = "save" =>
              /\ ~memory.copy[line[i].at].active
              /\ \A j \in DOMAIN line : line[j].step \in Seats => line[j].at # line[i].at
        /\ line[i].step \in Loads => i = Len(line)

\* The same, but the first step may be the save of a copy just loaded.
Steady(line, memory) ==
    \A i \in DOMAIN line :
        /\ line[i].step = "save" =>
              /\ memory.copy[line[i].at].active => i = 1 /\ match[line[i].at].active
              /\ i > 1 => \A j \in DOMAIN line :
                            line[j].step \in Seats => line[j].at # line[i].at
        /\ line[i].step \in Loads => i = Len(line)

CopiesAreQuiet(p) ==
    /\ Calm(todo[p], mem[p])
    /\ At(p, "save") => (mem[p].copy[at[p].at].active => match[at[p].at].active)
    /\ at[p].step \in Seats =>
          \A i \in DOMAIN todo[p] : todo[p][i].step = "save" => todo[p][i].at # at[p].at
    /\ at[p].step \in Loads => todo[p] = <<>>

ActiveInv == ActiveIsCurrent /\ \A p \in Procs : CopiesAreQuiet(p)

LEMMA RestingIsQuiet ==
    ASSUME NEW p, Resting(p)
    PROVE  CopiesAreQuiet(p)
  BY DEF Resting, CopiesAreQuiet, Calm, Idle, At, Seats, Loads, MatchOps

LEMMA CalmIsSteady ==
    ASSUME NEW line, NEW memory, Calm(line, memory)
    PROVE  Steady(line, memory)
  BY DEF Calm, Steady

\* Taking the first step of a line leaves a quiet one.
LEMMA TakesQuietly ==
    ASSUME NEW p \in Procs, NEW line, NEW memory, TakesFirst(p, line, memory),
           \/ Calm(line, memory)
           \/ Steady(line, memory) /\ UNCHANGED match
    PROVE  CopiesAreQuiet(p)'
  <1>1. CASE Resting(p)'
    BY <1>1 DEF Resting, CopiesAreQuiet, Calm, Idle, At, Seats, Loads, MatchOps
  <1>2. CASE ~Resting(p)'
    <2>1. PICK rest : rest = todo'[p]
      OBVIOUS
    <2>2. /\ 1 \in DOMAIN line /\ (Len(line) = 1 => rest = <<>>)
          /\ at'[p] = line[1] /\ mem'[p] = memory
          /\ DOMAIN line = 1..Len(line) /\ Len(line) \in Nat
          /\ Len(rest) = Len(line) - 1 /\ DOMAIN rest = 1..(Len(line) - 1)
          /\ \A i \in DOMAIN rest : i + 1 \in DOMAIN line /\ rest[i] = line[i + 1]
      BY <1>2, <2>1 DEF TakesFirst
    <2>3. Steady(line, memory)
      BY CalmIsSteady
    <2>4. ASSUME NEW i \in DOMAIN rest
          PROVE  /\ rest[i].step = "save" =>
                       /\ ~memory.copy[rest[i].at].active
                       /\ \A j \in DOMAIN rest :
                             rest[j].step \in Seats => rest[j].at # rest[i].at
                       /\ line[1].step \in Seats => line[1].at # rest[i].at
                 /\ rest[i].step \in Loads => i = Len(rest)
      <3>1. PICK k : k = i + 1
        OBVIOUS
      <3>2. i \in 1..(Len(line) - 1)
        BY <2>2
      <3>3. k \in DOMAIN line /\ rest[i] = line[k] /\ k > 1 /\ k # 1
        BY <2>2, <3>1, <3>2
      <3>4. /\ line[k].step = "save" =>
                  /\ ~memory.copy[line[k].at].active
                  /\ \A j \in DOMAIN line : line[j].step \in Seats => line[j].at # line[k].at
            /\ line[k].step \in Loads => k = Len(line)
        BY <2>3, <3>3 DEF Steady
      <3>5. rest[i].step \in Loads => i = Len(rest)
        BY <2>2, <3>1, <3>2, <3>3, <3>4
      <3>6. \A j \in DOMAIN rest : \E l \in DOMAIN line : rest[j] = line[l]
        BY <2>2
      <3> QED BY <2>2, <3>3, <3>4, <3>5, <3>6
    <2>5. Calm(rest, memory)
      BY <2>4 DEF Calm
    <2>6. (At(p, "save") => (mem[p].copy[at[p].at].active => match[at[p].at].active))'
      BY <2>2, <2>3 DEF Steady, Calm, At
    <2>7. line[1].step \in Loads => Len(line) = 1
      BY <2>2, <2>3 DEF Steady
    <2>8. Calm(todo[p], mem[p])'
      <3>1. mem'[p] = memory
        BY <2>2
      <3> QED BY <2>1, <2>5, <3>1 DEF Calm
    <2>9. \A i \in DOMAIN rest :
             line[1].step \in Seats =>
                 (rest[i].step = "save" => rest[i].at # line[1].at)
      BY <2>4
    <2>10. (at[p].step \in Seats =>
              \A i \in DOMAIN todo[p] :
                  todo[p][i].step = "save" => todo[p][i].at # at[p].at)'
      BY <2>1, <2>2, <2>9
    <2>11. (at[p].step \in Loads => todo[p] = <<>>)'
      BY <2>1, <2>2, <2>7
    <2> QED BY <2>6, <2>8, <2>10, <2>11 DEF CopiesAreQuiet
  <1> QED BY <1>1, <1>2

\* A step that queues nothing and loads nothing.
LEMMA ContinuesQuietly ==
    ASSUME LocalOK, NEW p \in Procs, CopiesAreQuiet(p), NEW memory,
           memory.copy = mem[p].copy, Then(p, memory, <<>>)
    PROVE  CopiesAreQuiet(p)'
  <1>1. Calm(todo[p], memory)
    BY DEF CopiesAreQuiet, Calm
  <1>2. TakesFirst(p, todo[p], memory)
    BY ThenContinues
  <1> QED BY <1>1, <1>2, TakesQuietly

LEMMA FinishesQuietly ==
    ASSUME LocalOK, NEW p \in Procs, Finish(p)
    PROVE  CopiesAreQuiet(p)'
  BY DEF Finish, LocalOK, LocalTypes, CopiesAreQuiet, Calm, Idle, At, Seats, Loads, MatchOps

\* A step that leads to one that neither saves, seats nor edits.
LEMMA GoesQuietly ==
    ASSUME NEW p \in Procs, CopiesAreQuiet(p),
           at'[p].step \notin Seats \union Loads \union {"save"},
           todo'[p] = todo[p], mem'[p].copy = mem[p].copy
    PROVE  CopiesAreQuiet(p)'
  BY DEF CopiesAreQuiet, Calm, At

\* Steps that neither save, seat nor edit are put in front.
LEMMA QueuesQuietly ==
    ASSUME LocalOK, NEW p \in Procs, CopiesAreQuiet(p), NEW more \in Seq(Queued),
           \A i \in DOMAIN more : more[i].step \notin Seats \union Loads \union {"save"},
           Then(p, mem[p], more)
    PROVE  CopiesAreQuiet(p)'
  <1>1. PICK line : line = more \o todo[p]
    OBVIOUS
  <1>2. TakesFirst(p, line, mem[p])
    BY <1>1, ThenTakes
  <1>3. todo[p] \in Seq(Queued) /\ Len(more) \in Nat /\ DOMAIN more = 1..Len(more)
        /\ Len(todo[p]) \in Nat /\ DOMAIN todo[p] = 1..Len(todo[p])
    BY LenProperties DEF LocalOK, LocalTypes
  <1>4. /\ DOMAIN line = 1..Len(line) /\ Len(line) = Len(more) + Len(todo[p])
        /\ \A i \in DOMAIN line :
              line[i] = IF i <= Len(more) THEN more[i] ELSE todo[p][i - Len(more)]
    BY <1>1, <1>3, ConcatProperties, LenProperties
  <1>5. ASSUME NEW i \in DOMAIN line, line[i].step \in Seats \union Loads \union {"save"}
        PROVE  /\ i - Len(more) \in DOMAIN todo[p] /\ line[i] = todo[p][i - Len(more)]
    BY <1>3, <1>4, <1>5
  <1>6. Calm(line, mem[p])
    <2> SUFFICES ASSUME NEW i \in DOMAIN line
                 PROVE  /\ line[i].step = "save" =>
                             /\ ~mem[p].copy[line[i].at].active
                             /\ \A j \in DOMAIN line :
                                   line[j].step \in Seats => line[j].at # line[i].at
                        /\ line[i].step \in Loads => i = Len(line)
      BY DEF Calm
    <2>1. Calm(todo[p], mem[p])
      BY DEF CopiesAreQuiet
    <2>2. line[i].step = "save" => ~mem[p].copy[line[i].at].active
      BY <1>5, <2>1 DEF Calm
    <2>3. ASSUME line[i].step = "save", NEW j \in DOMAIN line, line[j].step \in Seats
          PROVE  line[j].at # line[i].at
      <3>1. PICK k \in DOMAIN todo[p], l \in DOMAIN todo[p] :
               line[i] = todo[p][k] /\ line[j] = todo[p][l]
        BY <1>5, <2>3
      <3> QED BY <2>1, <2>3, <3>1 DEF Calm
    <2>4. ASSUME line[i].step \in Loads
          PROVE  i = Len(line)
      <3>1. PICK k : k = i - Len(more)
        OBVIOUS
      <3>2. k \in DOMAIN todo[p] /\ line[i] = todo[p][k]
        BY <1>5, <2>4, <3>1
      <3>3. k = Len(todo[p])
        BY <2>1, <2>4, <3>2 DEF Calm
      <3> QED BY <1>3, <1>4, <3>1, <3>3
    <2> QED BY <2>2, <2>3, <2>4
  <1> QED BY <1>2, <1>6, TakesQuietly

LEMMA QueuesOneQuietly ==
    ASSUME LocalOK, NEW p \in Procs, CopiesAreQuiet(p), NEW task \in Queued,
           task.step \notin Seats \union Loads \union {"save"}, Then(p, mem[p], <<task>>)
    PROVE  CopiesAreQuiet(p)'
  <1>1. at'[p] = task /\ todo'[p] = todo[p] /\ mem'[p] = mem[p]
    BY ThenFirst
  <1> QED BY <1>1, GoesQuietly

\* An edit activates nothing, and a result is saved inactive.
LEMMA EditedIsQuiet ==
    ASSUME NEW c \in MatchRow, NEW o \in Loads, NEW after \in Edited(o, c)
    PROVE  /\ after.active => c.active
           /\ o \in {"commit", "reopen"} => ~after.active
  <1>1. ASSUME NEW d \in MatchRow
        PROVE  /\ \A x \in Resettled(d) : x.active = d.active
               /\ \A q : WithPlayer(d, q).active = d.active
               /\ \A q : \A x \in WithoutPlayer(d, q) : x.active = d.active
    <2>1. \A e \in MatchRow : \A x \in Resettled(e) : x.active = e.active
      BY DEF Resettled, MatchRow
    <2>2. \A q : [d EXCEPT !.players = @ \ {q}] \in MatchRow
      BY DEF MatchRow
    <2>3. \A q : [d EXCEPT !.players = @ \ {q}].active = d.active
      BY DEF MatchRow
    <2>4. \A q : \A x \in WithoutPlayer(d, q) : x.active = d.active
      BY <2>1, <2>2, <2>3 DEF WithoutPlayer
    <2>5. \A q : WithPlayer(d, q).active = d.active
      BY DEF WithPlayer, MatchRow
    <2> QED BY <2>1, <2>4, <2>5
  <1>2. /\ \A b \in BOOLEAN : [c EXCEPT !.rounds = b] \in MatchRow
        /\ \A b \in BOOLEAN : [c EXCEPT !.rounds = b].active = c.active
        /\ [c EXCEPT !.rounds = TRUE].active = c.active
        /\ [c EXCEPT !.state = "ready"] \in MatchRow
        /\ [c EXCEPT !.state = "completed", !.active = FALSE].active = FALSE
        /\ \A x \in MatchRow : [x EXCEPT !.active = FALSE].active = FALSE
    BY DEF MatchRow, MatchStates
  <1>3. CASE o \in {"score", "run"}
    BY <1>1, <1>3 DEF Edited
  <1>4. CASE o = "shape"
    <2>1. \/ \E q \in Players \ c.players : after = WithPlayer(c, q)
          \/ \E q \in c.players : after \in WithoutPlayer(c, q)
          \/ after = [c EXCEPT !.rounds = TRUE]
      BY <1>4 DEF Edited
    <2>2. ASSUME NEW q, after = WithPlayer(c, q) \/ after \in WithoutPlayer(c, q)
          PROVE  after.active = c.active
      BY <1>1, <2>2
    <2>3. after = [c EXCEPT !.rounds = TRUE] => after.active = c.active
      BY DEF MatchRow
    <2> QED BY <1>4, <2>1, <2>2, <2>3
  <1>5. CASE o = "rollback"
    <2>1. \/ \E b \in BOOLEAN : after \in Resettled([c EXCEPT !.rounds = b])
          \/ \E q \in c.players : after \in WithoutPlayer(c, q)
      BY <1>5 DEF Edited
    <2>2. ASSUME NEW b \in BOOLEAN, after \in Resettled([c EXCEPT !.rounds = b])
          PROVE  after.active = c.active
      <3>1. PICK d \in MatchRow : d = [c EXCEPT !.rounds = b]
        BY <1>2
      <3> QED BY <1>1, <1>2, <2>2, <3>1
    <2> QED BY <1>1, <1>5, <2>1, <2>2
  <1>6. CASE o = "commit"
    BY <1>2, <1>6 DEF Edited
  <1>7. CASE o = "reopen"
    <2>1. PICK x : /\ after = [x EXCEPT !.active = FALSE]
                   /\ x \in IF c.state = "completed"
                            THEN Resettled([c EXCEPT !.state = "ready"]) ELSE {c}
      BY <1>7 DEF Edited
    <2>2. x \in MatchRow
      BY <1>2, <2>1, ResettledType
    <2> QED BY <1>2, <1>7, <2>1, <2>2
  <1> QED BY <1>3, <1>4, <1>5, <1>6, <1>7 DEF Loads, MatchOps

\* What an edit that may leave a match active queues begins with its save.
LEMMA SavedFirst ==
    ASSUME NEW o \in Loads \ {"commit", "reopen"}, NEW m \in Matches,
           NEW before \in MatchRow, NEW after \in MatchRow,
           NEW more \in FollowUps(o, m, before, after), NEW i \in DOMAIN more,
           more[i].step = "save"
    PROVE  i = 1
  <1> DEFINE recalculated == <<AtMatch("findSchedule", m)>>
             ifMoved == IF Moved(before, after) THEN recalculated ELSE <<>>
  <1>1. PICK saved, rest : /\ saved = <<AtMatch("save", m)>> /\ more = saved \o rest
                           /\ rest \in {<<>>, recalculated}
    <2>1. PICK saved : saved = <<AtMatch("save", m)>>
      OBVIOUS
    <2>2. more \in {saved \o ifMoved, saved \o recalculated}
      <3>1. CASE o \in {"score", "run"}
        BY <2>1, <3>1 DEF FollowUps
      <3>2. CASE o \in {"shape", "rollback"}
        BY <2>1, <3>2 DEF FollowUps
      <3> QED BY <3>1, <3>2 DEF Loads, MatchOps
    <2>3. ifMoved \in {<<>>, recalculated}
      OBVIOUS
    <2> HIDE DEF ifMoved, recalculated
    <2> QED BY <2>1, <2>2, <2>3
  <1>2. /\ saved \in Seq(Queued) /\ Len(saved) = 1
        /\ rest \in Seq(Queued) /\ \A j \in DOMAIN rest : rest[j].step = "findSchedule"
    <2>1. PICK save, find : save = AtMatch("save", m) /\ find = AtMatch("findSchedule", m)
      OBVIOUS
    <2>2. save \in Queued /\ find \in Queued /\ find.step = "findSchedule"
      BY <2>1, TaskTypes DEF AtMatch, Idle
    <2>3. saved = <<save>> /\ (rest = <<>> \/ rest = <<find>>)
      BY <1>1, <2>1
    <2>4. saved \in Seq(Queued) /\ Len(saved) = 1
      BY <2>2, <2>3
    <2>5. rest = <<>> => rest \in Seq(Queued) /\ DOMAIN rest = {}
      BY EmptySeq
    <2>6. ASSUME rest = <<find>>
          PROVE  rest \in Seq(Queued) /\ \A j \in DOMAIN rest : rest[j].step = "findSchedule"
      BY <2>2, <2>6
    <2> QED BY <2>3, <2>4, <2>5, <2>6
  <1>3. /\ Len(rest) \in Nat /\ DOMAIN rest = 1..Len(rest)
        /\ i \in 1..(1 + Len(rest))
        /\ i <= 1 \/ more[i] = rest[i - 1]
    BY <1>1, <1>2, ConcatProperties, LenProperties
  <1> QED BY <1>2, <1>3

LEMMA EditsQuietly ==
    ASSUME DbTypes, LocalOK, NEW p \in Procs, CopiesAreQuiet(p), NEW o \in Loads, Edit(p, o)
    PROVE  CopiesAreQuiet(p)'
  <1>1. PICK m, c : m = at[p].at /\ c = match[m]
    OBVIOUS
  <1>2. /\ m \in Matches /\ c \in MatchRow /\ mem[p] \in Memory /\ o \in MatchOps \ {"activate"}
        /\ todo[p] = <<>> /\ UNCHANGED match
    BY <1>1, AtTypes DEF Edit, At, MatchSteps, DbTypes, Loads, CopiesAreQuiet, db
  <1>3. CASE Finish(p)
    BY <1>3, FinishesQuietly
  <1>4. ASSUME NEW after \in Edited(o, c), NEW more \in FollowUps(o, m, c, after),
               NEW memory, memory = [mem[p] EXCEPT !.copy[m] = after], Then(p, memory, more)
        PROVE  CopiesAreQuiet(p)'
    <2>1. after \in MatchRow
      BY <1>2, EditedType
    <2>2. more \in Seq(SavingOnly(m))
      BY <1>2, <2>1, FollowUpsType
    <2>3. memory.copy[m] = after
      BY <1>2, <1>4 DEF Memory
    <2>4. /\ more \in Seq(Queued)
          /\ \A i \in DOMAIN more : more[i] \in SavingOnly(m)
      BY <2>2, ElementOfSeq DEF SavingOnly
    <2>5. TakesFirst(p, more, memory)
      BY <1>2, <1>4, <2>4, ThenBegins
    <2>6. ASSUME NEW i \in DOMAIN more, more[i].step = "save", after.active
          PROVE  i = 1 /\ c.active
      <3>1. c.active /\ o \notin {"commit", "reopen"}
        BY <1>2, <2>6, EditedIsQuiet
      <3> QED BY <1>2, <2>1, <2>6, <3>1, SavedFirst
    <2>7. \A i \in DOMAIN more :
             /\ more[i].step = "save" => more[i].at = m
             /\ more[i].step \in Seats => more[i].at # m
             /\ more[i].step \notin Loads
      BY <2>4 DEF SavingOnly, Seats, Loads, MatchOps
    <2>8. Steady(more, memory)
      BY <1>1, <2>3, <2>6, <2>7 DEF Steady
    <2> QED BY <1>2, <2>5, <2>8, TakesQuietly
  <1> QED BY <1>1, <1>3, <1>4 DEF Edit

LEMMA SeatsQuietly ==
    ASSUME DbTypes, LocalOK, NEW p \in Procs, CopiesAreQuiet(p), Seat(p)
    PROVE  CopiesAreQuiet(p)'
  <1>1. PICK m, c, q : m = at[p].at /\ c = match[m] /\ q = at[p].who
    OBVIOUS
  <1>2. /\ m \in Matches /\ c \in MatchRow /\ q \in Players /\ mem[p] \in Memory
        /\ at[p].step \in Seats /\ UNCHANGED match
    BY <1>1, AtTypes DEF Seat, At, MatchSteps, DbTypes, Seats, db
  <1>3. CASE Then(p, mem[p], <<>>)
    BY <1>3, ContinuesQuietly
  <1>4. ASSUME NEW after, after \in MatchRow, after.active => c.active,
               NEW more, more = <<AtMatch("save", m), AtMatch("findSchedule", m)>>,
               NEW memory, memory = [mem[p] EXCEPT !.copy[m] = after], Then(p, memory, more)
        PROVE  CopiesAreQuiet(p)'
    <2>1. /\ memory.copy[m] = after
          /\ \A o : o # m => memory.copy[o] = mem[p].copy[o]
      BY <1>2, <1>4 DEF Memory
    <2>2. /\ more \in Seq(Queued) /\ Len(more) = 2
          /\ more[1].step = "save" /\ more[1].at = m /\ more[2].step = "findSchedule"
      <3>1. PICK save, find : save = AtMatch("save", m) /\ find = AtMatch("findSchedule", m)
        OBVIOUS
      <3>2. /\ save \in Queued /\ save.step = "save" /\ save.at = m
            /\ find \in Queued /\ find.step = "findSchedule"
        BY <1>2, <3>1, TaskTypes DEF AtMatch, Idle
      <3>3. more = <<save, find>>
        BY <1>4, <3>1
      <3> QED BY <3>2, <3>3
    <2>3. PICK line : line = more \o todo[p]
      OBVIOUS
    <2>4. TakesFirst(p, line, memory)
      BY <1>4, <2>2, <2>3, ThenTakes
    <2>5. todo[p] \in Seq(Queued) /\ Len(todo[p]) \in Nat /\ DOMAIN todo[p] = 1..Len(todo[p])
      BY LenProperties DEF LocalOK, LocalTypes
    <2>6. /\ DOMAIN line = 1..Len(line) /\ Len(line) = 2 + Len(todo[p])
          /\ \A i \in DOMAIN line : line[i] = IF i <= 2 THEN more[i] ELSE todo[p][i - 2]
      <3>1. PICK rest : rest = todo[p]
        OBVIOUS
      <3>2. /\ more \o rest \in Seq(Queued) /\ Len(more \o rest) = Len(more) + Len(rest)
            /\ \A i \in 1..(Len(more) + Len(rest)) :
                  (more \o rest)[i] = IF i <= Len(more) THEN more[i] ELSE rest[i - Len(more)]
        BY <2>2, <2>5, <3>1, ConcatProperties
      <3>3. line \in Seq(Queued) /\ line = more \o rest /\ Len(more) = 2
        BY <2>2, <2>3, <3>1, <3>2
      <3>4. DOMAIN line = 1..Len(line)
        BY <3>3, LenProperties
      <3> QED BY <3>1, <3>2, <3>3, <3>4
    <2>7. ASSUME NEW i \in DOMAIN line
          PROVE  \/ i = 1 /\ line[i].step = "save" /\ line[i].at = m
                 \/ i = 2 /\ line[i].step = "findSchedule"
                 \/ i > 2 /\ i - 2 \in DOMAIN todo[p] /\ line[i] = todo[p][i - 2]
      <3>1. i \in 1..(2 + Len(todo[p]))
        BY <2>6
      <3>2. CASE i = 1
        BY <2>2, <2>6, <3>2
      <3>3. CASE i = 2
        BY <2>2, <2>6, <3>3
      <3>4. CASE i > 2
        BY <2>5, <2>6, <3>1, <3>4
      <3> QED BY <3>1, <3>2, <3>3, <3>4
    <2>8. Calm(todo[p], mem[p])
      BY DEF CopiesAreQuiet
    <2>9. ASSUME NEW i \in DOMAIN todo[p], todo[p][i].step = "save"
          PROVE  /\ todo[p][i].at # m /\ ~memory.copy[todo[p][i].at].active
                 /\ \A j \in DOMAIN todo[p] : todo[p][j].step \in Seats => todo[p][j].at # todo[p][i].at
      BY <1>1, <1>2, <2>1, <2>8, <2>9 DEF CopiesAreQuiet, Calm
    <2>10. Steady(line, memory)
      <3> SUFFICES ASSUME NEW i \in DOMAIN line
                   PROVE  /\ line[i].step = "save" =>
                              /\ memory.copy[line[i].at].active =>
                                    i = 1 /\ match[line[i].at].active
                              /\ i > 1 => \A j \in DOMAIN line :
                                   line[j].step \in Seats => line[j].at # line[i].at
                          /\ line[i].step \in Loads => i = Len(line)
        BY DEF Steady
      <3>1. CASE i = 1 /\ line[i].step = "save" /\ line[i].at = m
        BY <1>1, <1>4, <2>1, <3>1 DEF Loads, MatchOps
      <3>2. CASE i = 2 /\ line[i].step = "findSchedule"
        BY <3>2 DEF Loads, MatchOps
      <3>3. CASE i > 2 /\ i - 2 \in DOMAIN todo[p] /\ line[i] = todo[p][i - 2]
        <4>1. PICK k \in DOMAIN todo[p] : k = i - 2 /\ line[i] = todo[p][k]
          BY <3>3
        <4>2. line[i].step \in Loads => k = Len(todo[p])
          BY <2>8, <4>1 DEF Calm
        <4>3. line[i].step \in Loads => i = Len(line)
          BY <2>5, <2>6, <3>3, <4>1, <4>2
        <4>4. ASSUME line[i].step = "save", NEW j \in DOMAIN line, line[j].step \in Seats
              PROVE  line[j].at # line[i].at
          <5>1. j - 2 \in DOMAIN todo[p] /\ line[j] = todo[p][j - 2]
            BY <2>7, <4>4 DEF Seats
          <5> QED BY <2>9, <4>1, <4>4, <5>1
        <4> QED BY <2>9, <4>1, <4>3, <4>4
      <3> QED BY <2>7, <3>1, <3>2, <3>3
    <2> QED BY <1>2, <2>4, <2>10, TakesQuietly
  <1>5. CASE At(p, "place")
    <2>1. PICK after : after = WithPlayer(c, q)
      OBVIOUS
    <2>2. after \in MatchRow /\ after.active = c.active
      BY <1>2, <2>1, PlayerTypes DEF WithPlayer, MatchRow
    <2> QED BY <1>1, <1>4, <1>5, <2>1, <2>2 DEF Seat, At
  <1>6. ASSUME NEW after \in WithoutPlayer(c, q)
        PROVE  after \in MatchRow /\ after.active = c.active
    <2>1. PICK d : d = [c EXCEPT !.players = @ \ {q}]
      OBVIOUS
    <2>2. d \in MatchRow /\ d.active = c.active /\ after \in Resettled(d)
      BY <1>2, <1>6, <2>1 DEF MatchRow, WithoutPlayer
    <2> QED BY <2>2, ResettledType DEF Resettled, MatchRow
  <1> QED BY <1>1, <1>3, <1>4, <1>5, <1>6 DEF Seat

LEMMA ReadQuietly ==
    ASSUME LocalOK, NEW p \in Procs, CopiesAreQuiet(p), Read(p)
    PROVE  CopiesAreQuiet(p)'
  <1>1. CASE Finish(p)
    BY <1>1, FinishesQuietly
  <1>2. CASE Then(p, mem[p], <<>>)
    BY <1>2, ContinuesQuietly
  <1>3. CASE Directly(p, [mem[p] EXCEPT !.plan = Decision(at[p].on)], OnSchedule("settle", at[p].on))
    <2>1. PICK memory, task : /\ memory = [mem[p] EXCEPT !.plan = Decision(at[p].on)]
                              /\ task = OnSchedule("settle", at[p].on)
      OBVIOUS
    <2>2. Directly(p, memory, task)
      BY <1>3, <2>1
    <2>3. memory.copy = mem[p].copy /\ task.step = "settle"
      BY <2>1, AtTypes DEF Memory, OnSchedule, Idle
    <2>4. at'[p] = task /\ todo'[p] = todo[p] /\ mem'[p] = memory
      BY <2>2, DirectlyGoes
    <2> QED BY <2>3, <2>4, GoesQuietly DEF Seats, Loads, MatchOps
  <1> QED BY <1>1, <1>2, <1>3 DEF Read

LEMMA DbStepsQuietly ==
    ASSUME LocalOK, NEW p \in Procs, CopiesAreQuiet(p),
           \/ Settle(p) \/ DeactivateEvery(p) \/ Stop(p) \/ Interrupt(p) \/ CheckManual(p)
           \/ WriteRow(p) \/ RemoveRow(p) \/ Rewrite(p) \/ Save(p)
    PROVE  CopiesAreQuiet(p)'
  <1>1. mem[p] \in Memory
    BY AtTypes
  <1>2. CASE Settle(p)
    <2>1. PICK memory : memory = [mem[p] EXCEPT !.plan = Blank.plan]
      OBVIOUS
    <2>2. memory.copy = mem[p].copy
      BY <1>1, <2>1 DEF Memory
    <2>3. Then(p, memory, <<>>) \/ Finish(p)
      BY <1>2, <2>1 DEF Settle
    <2> QED BY <2>2, <2>3, ContinuesQuietly, FinishesQuietly
  <1>3. CASE WriteRow(p)
    <2>1. PICK memory : memory = [mem[p] EXCEPT !.row = NoRow, !.delta = {}]
      OBVIOUS
    <2>2. memory.copy = mem[p].copy
      BY <1>1, <2>1 DEF Memory
    <2>3. Then(p, memory, <<>>) \/ Finish(p)
      BY <1>3, <2>1 DEF WriteRow
    <2> QED BY <2>2, <2>3, ContinuesQuietly, FinishesQuietly
  <1>4. CASE Rewrite(p)
    <2>1. PICK memory : memory = [mem[p] EXCEPT !.order = <<>>, !.from = {}]
      OBVIOUS
    <2>2. memory.copy = mem[p].copy
      BY <1>1, <2>1 DEF Memory
    <2>3. Then(p, memory, <<>>) \/ Finish(p)
      BY <1>4, <2>1 DEF Rewrite
    <2> QED BY <2>2, <2>3, ContinuesQuietly, FinishesQuietly
  <1>5. CASE Then(p, mem[p], <<>>) \/ Finish(p)
    BY <1>5, ContinuesQuietly, FinishesQuietly
  <1>6. CASE DeactivateEvery(p) \/ Stop(p) \/ Interrupt(p) \/ CheckManual(p) \/ RemoveRow(p) \/ Save(p)
    <2>1. Then(p, mem[p], <<>>) \/ Finish(p)
      BY <1>6 DEF DeactivateEvery, Stop, Interrupt, CheckManual, RemoveRow, Save
    <2> QED BY <1>5, <2>1
  <1> QED BY <1>2, <1>3, <1>4, <1>6

LEMMA QueriesQuietly ==
    ASSUME LocalOK, NEW p \in Procs, CopiesAreQuiet(p),
           \/ ListRunning(p) \/ Reconcile(p) \/ FindSchedule(p)
           \/ GuardRollback(p) \/ PrepareReopen(p) \/ DiffRow(p)
    PROVE  CopiesAreQuiet(p)'
  <1>1. ASSUME NEW order \in OrdersOf(RunningSchedules), NEW queue,
               DOMAIN queue = DOMAIN order, queue = [i \in DOMAIN order |-> queue[i]],
               \A i \in DOMAIN order :
                  queue[i].step \in {"stop", "read"} /\ queue[i] \in Queued,
               Then(p, mem[p], queue)
        PROVE  CopiesAreQuiet(p)'
    <2>1. queue \in Seq(Queued)
      BY <1>1, RunningFinite, QueueType
    <2>2. \A i \in DOMAIN queue : queue[i].step \notin Seats \union Loads \union {"save"}
      <3>1. DOMAIN queue = DOMAIN order /\ \A i \in DOMAIN order : queue[i].step \in {"stop", "read"}
        BY <1>1
      <3> QED BY <3>1 DEF Seats, Loads, MatchOps
    <2>3. Then(p, mem[p], queue)
      BY <1>1
    <2> QED BY <2>1, <2>2, <2>3, QueuesQuietly
  <1>2. CASE ListRunning(p)
    <2>1. PICK order \in OrdersOf(RunningSchedules) :
             Then(p, mem[p], [i \in DOMAIN order |-> StopOf(order[i], "TOURNAMENT_CLOSED")])
      BY <1>2 DEF ListRunning
    <2>2. PICK queue : queue = [i \in DOMAIN order |-> StopOf(order[i], "TOURNAMENT_CLOSED")]
      OBVIOUS
    <2>3. DOMAIN queue = DOMAIN order /\ queue = [i \in DOMAIN order |-> queue[i]]
      BY <2>2
    <2>4. \A i \in DOMAIN order : queue[i].step \in {"stop", "read"} /\ queue[i] \in Queued
      <3>1. \A i \in DOMAIN order : order[i] \in Schedules
        BY <2>1, RunningFinite, OrderOfRunning
      <3>2. \A s \in Schedules : StopOf(s, "TOURNAMENT_CLOSED").step = "stop"
        BY DEF StopOf, OnSchedule, Idle
      <3> QED BY <2>2, <3>1, <3>2, TaskTypes DEF InterruptionCodes
    <2> QED BY <1>1, <2>1, <2>2, <2>3, <2>4
  <1>3. CASE Reconcile(p)
    <2>1. PICK order \in OrdersOf(RunningSchedules) :
             Then(p, mem[p], [i \in DOMAIN order |-> OnSchedule("read", order[i])])
      BY <1>3 DEF Reconcile
    <2>2. PICK queue : queue = [i \in DOMAIN order |-> OnSchedule("read", order[i])]
      OBVIOUS
    <2>3. DOMAIN queue = DOMAIN order /\ queue = [i \in DOMAIN order |-> queue[i]]
      BY <2>2
    <2>4. \A i \in DOMAIN order : queue[i].step \in {"stop", "read"} /\ queue[i] \in Queued
      <3>1. \A i \in DOMAIN order : order[i] \in Schedules
        BY <2>1, RunningFinite, OrderOfRunning
      <3>2. \A s \in Schedules : OnSchedule("read", s).step = "read"
        BY DEF OnSchedule, Idle
      <3> QED BY <2>2, <3>1, <3>2, TaskTypes
    <2> QED BY <1>1, <2>1, <2>2, <2>3, <2>4
  <1>4. ASSUME NEW s \in Schedules, NEW code \in InterruptionCodes \union {"none"},
               NEW task \in {OnSchedule("read", s), StopOf(s, code)},
               Then(p, mem[p], <<task>>)
        PROVE  CopiesAreQuiet(p)'
    <2>1. task \in Queued /\ task.step \in {"read", "stop"}
      BY <1>4, TaskTypes DEF StopOf, OnSchedule, Idle
    <2>2. task.step \notin Seats \union Loads \union {"save"}
      BY <2>1 DEF Seats, Loads, MatchOps
    <2> QED BY <1>4, <2>1, <2>2, QueuesOneQuietly
  <1>5. CASE FindSchedule(p)
    <2>1. \/ \E s \in Schedules : Then(p, mem[p], <<OnSchedule("read", s)>>)
          \/ Then(p, mem[p], <<>>)
      BY <1>5 DEF FindSchedule
    <2>2. ASSUME NEW s \in Schedules, Then(p, mem[p], <<OnSchedule("read", s)>>)
          PROVE  CopiesAreQuiet(p)'
      BY <1>4, <2>2 DEF InterruptionCodes
    <2> QED BY <2>1, <2>2, ContinuesQuietly
  <1>6. ASSUME NEW m, Protect(p, m, mem[p])
        PROVE  CopiesAreQuiet(p)'
    <2>1. \/ \E s \in Schedules : Then(p, mem[p], <<StopOf(s, "ROLLBACK_CONFIRMED")>>)
          \/ Then(p, mem[p], <<>>)
          \/ Finish(p)
      BY <1>6 DEF Protect, RolledBackBy
    <2>2. ASSUME NEW s \in Schedules, Then(p, mem[p], <<StopOf(s, "ROLLBACK_CONFIRMED")>>)
          PROVE  CopiesAreQuiet(p)'
      BY <1>4, <2>2 DEF InterruptionCodes
    <2> QED BY <2>1, <2>2, ContinuesQuietly, FinishesQuietly
  <1>7. CASE GuardRollback(p)
    BY <1>6, <1>7 DEF GuardRollback
  <1>8. CASE PrepareReopen(p)
    <2>1. ASSUME NEW s \in Schedules,
                 Directly(p, mem[p], [OnSchedule("interrupt", s) EXCEPT !.at = at[p].at])
          PROVE  CopiesAreQuiet(p)'
      <3>1. PICK task : task = [OnSchedule("interrupt", s) EXCEPT !.at = at[p].at]
        OBVIOUS
      <3>2. task.step = "interrupt" /\ Directly(p, mem[p], task)
        BY <2>1, <3>1 DEF OnSchedule, Idle
      <3>3. at'[p] = task /\ todo'[p] = todo[p] /\ mem'[p] = mem[p]
        BY <3>2, DirectlyGoes
      <3> QED BY <3>2, <3>3, GoesQuietly DEF Seats, Loads, MatchOps
    <2>2. \/ \E s \in Schedules :
                Directly(p, mem[p], [OnSchedule("interrupt", s) EXCEPT !.at = at[p].at])
          \/ Finish(p)
          \/ Protect(p, at[p].at, mem[p])
      BY <1>8 DEF PrepareReopen, CompletedWith
    <2> QED BY <1>6, <2>1, <2>2, FinishesQuietly
  <1>9. CASE DiffRow(p)
    <2>1. PICK s, delta :
             Directly(p, [mem[p] EXCEPT !.delta = delta], OnSchedule("writeRow", s))
      BY <1>9 DEF DiffRow
    <2>2. PICK memory, task : /\ memory = [mem[p] EXCEPT !.delta = delta]
                              /\ task = OnSchedule("writeRow", s)
      OBVIOUS
    <2>3. memory.copy = mem[p].copy /\ task.step = "writeRow" /\ Directly(p, memory, task)
      BY <2>1, <2>2, AtTypes DEF Memory, OnSchedule, Idle
    <2>4. at'[p] = task /\ todo'[p] = todo[p] /\ mem'[p] = memory
      BY <2>3, DirectlyGoes
    <2> QED BY <2>3, <2>4, GoesQuietly DEF Seats, Loads, MatchOps
  <1> QED BY <1>2, <1>3, <1>5, <1>7, <1>8, <1>9

LEMMA StepsQuietly ==
    ASSUME DbTypes, LocalOK, NEW p \in Procs, CopiesAreQuiet(p), Step(p)
    PROVE  CopiesAreQuiet(p)'
  BY ReadQuietly, DbStepsQuietly, QueriesQuietly, SeatsQuietly, EditsQuietly DEF Step, Loads

LEMMA Activations ==
    ASSUME DbTypes, NEW off, NEW on, match' = WithActive(off, on), NEW m \in Matches
    PROVE  match'[m].active <=> (m \in on \/ (m \notin off /\ match[m].active))
  BY DEF DbTypes, WithActive, MatchRow

\* Deactivating matches, and changing rows of schedules that do not run.
LEMMA ActiveKept ==
    ASSUME ActiveIsCurrent,
           \A m \in Matches : match'[m].active => match[m].active,
           \A t \in Schedules : sched[t].status = "running" => sched'[t] = sched[t]
    PROVE  ActiveIsCurrent'
  BY DEF ActiveIsCurrent

\* A stopped schedule takes its current match along.
LEMMA StoppedActive ==
    ASSUME DbTypes, BoardsAreSound, ActiveIsCurrent, NEW s \in Schedules, NEW code,
           sched' = [sched EXCEPT ![s] = Stopped(@, code)],
           match' = WithActive(CurrentMatch(s), {})
    PROVE  ActiveIsCurrent'
  <1> SUFFICES ASSUME NEW m \in Matches, match'[m].active
               PROVE  \E t \in Schedules : sched'[t].status = "running" /\ sched'[t].current = m
    BY DEF ActiveIsCurrent
  <1>1. m \notin CurrentMatch(s) /\ match[m].active
    BY Activations
  <1>2. PICK t \in Schedules : sched[t].status = "running" /\ sched[t].current = m
    BY <1>1 DEF ActiveIsCurrent
  <1>3. t # s
    BY <1>1, <1>2, NoMatchAssumption DEF CurrentMatch, BoardsAreSound, PointsAtItsEntry
  <1> QED BY <1>2, <1>3 DEF DbTypes

\* A run that goes on takes the match it leaves along.
LEMMA SettleActive ==
    ASSUME SerialInv, ActiveIsCurrent, NEW p \in Procs, Settle(p)
    PROVE  ActiveIsCurrent'
  <1>0. PICK s, plan : s = at[p].on /\ plan = Decision(s)
    OBVIOUS
  <1>1. /\ DbTypes /\ LocalOK /\ BoardsTyped /\ BoardsAreSound /\ s \in Schedules
        /\ sched \in [Schedules -> Row]
    BY <1>0, SerialInvParts, AtTypes DEF SerialInv, BoardsInv, Settle, At, ScheduleSteps, DbTypes
  <1>2. mem[p].plan = plan /\ sched[s].status = "running"
    BY <1>0 DEF SerialInv, PlanIsFresh, Settle
  <1>3. CASE UNCHANGED <<sched, match>>
    BY <1>3 DEF ActiveIsCurrent
  <1>4. CASE sched' = [sched EXCEPT ![s] = plan.row] /\ match' = WithActive(plan.off, plan.on)
    <2> SUFFICES ASSUME NEW m \in Matches, match'[m].active
                 PROVE  \E t \in Schedules : sched'[t].status = "running" /\ sched'[t].current = m
      BY DEF ActiveIsCurrent
    <2>1. m \in plan.on \/ (m \notin plan.off /\ match[m].active)
      BY <1>1, <1>4, Activations
    <2>2. sched'[s] = plan.row /\ \A t \in Schedules \ {s} : sched'[t] = sched[t]
      BY <1>1, <1>4
    <2>3. CASE m \in plan.on
      <3>1. Unpassed(s) # {} /\ m = entries[s][HaltIndex(s)] /\ plan.row = Activated(sched[s], m)
        BY <1>0, <2>3 DEF Decision
      <3>2. plan.row.current = m /\ plan.row.status = "running"
        BY <1>1, <1>2, <3>1 DEF Activated, Row
      <3> QED BY <1>1, <2>2, <3>2
    <2>4. CASE m \notin plan.off /\ match[m].active
      <3>1. PICK t \in Schedules : sched[t].status = "running" /\ sched[t].current = m
        BY <2>4 DEF ActiveIsCurrent
      <3>2. CASE t # s
        BY <2>2, <3>1, <3>2
      <3>3. CASE t = s
        <4>1. m \in EntriesOf(s) /\ sched[s].current = m
          BY <1>1, <3>1, <3>3, NoMatchAssumption DEF BoardsAreSound, PointsAtItsEntry
        <4>2. PICK i : i = StartIndex(s)
          OBVIOUS
        <4>3. i \in Positions(s) /\ entries[s][i] = m
          BY <4>1, <4>2 DEF StartIndex, EntriesOf
        <4>4. m \notin Walked(s)
          BY <1>0, <2>4 DEF Decision
        <4>5. i \in Nat /\ Unpassed(s) \subseteq Nat
          BY <1>1, <4>3, WalkTypes DEF Unpassed
        <4>6. Unpassed(s) # {} /\ ~(i < HaltIndex(s))
          BY <4>2, <4>3, <4>4, <4>5 DEF Walked
        <4>7. HaltIndex(s) \in Unpassed(s)
          BY <1>1, <4>6, HaltIsFirst
        <4>8. HaltIndex(s) = i
          BY <4>2, <4>5, <4>6, <4>7 DEF Unpassed
        <4>9. plan.row.current = m /\ plan.row.status = "running"
          BY <1>0, <1>1, <1>2, <4>3, <4>6, <4>8 DEF Decision, Activated, WaitingAt, Row
        <4> QED BY <1>1, <2>2, <4>9
      <3> QED BY <3>2, <3>3
    <2> QED BY <2>1, <2>3, <2>4
  <1> QED BY <1>0, <1>2, <1>3, <1>4 DEF Settle

LEMMA StepActive ==
    ASSUME SerialInv, ActiveIsCurrent, NEW p \in Procs, CopiesAreQuiet(p), Step(p)
    PROVE  ActiveIsCurrent'
  <1>1. DbTypes /\ LocalOK /\ BoardsAreSound /\ HaltedWhileEdited(p)
    BY SerialInvParts DEF SerialInv, BoardsInv
  <1>2. CASE UNCHANGED <<sched, match>>
    BY <1>2 DEF ActiveIsCurrent
  <1>3. CASE Read(p) \/ Stop(p)
    <2>1. at[p].on \in Schedules
      BY <1>1, <1>3, AtTypes DEF Read, Stop, At, ScheduleSteps
    <2>2. PICK s, code : s = at[p].on /\ code = at[p].code
      OBVIOUS
    <2>3. \/ UNCHANGED <<sched, match>>
          \/ /\ match' = WithActive(CurrentMatch(s), {})
             /\ \/ sched' = [sched EXCEPT ![s] = Stopped(@, "TOURNAMENT_CLOSED")]
                \/ sched' = [sched EXCEPT ![s] = Stopped(@, code)]
      BY <1>3, <2>2 DEF Read, Stop
    <2> QED BY <1>1, <1>2, <2>1, <2>2, <2>3, StoppedActive
  <1>4. CASE DeactivateEvery(p)
    <2>1. UNCHANGED sched /\ match' = WithActive(EntriesOf(at[p].on), {})
      BY <1>4 DEF DeactivateEvery
    <2>2. \A m \in Matches : match'[m].active => match[m].active
      BY <1>1, <2>1, Activations
    <2> QED BY <2>1, <2>2, ActiveKept
  <1>5. CASE Interrupt(p) \/ WriteRow(p) \/ RemoveRow(p)
    <2>1. /\ at[p].on \in Schedules /\ UNCHANGED match
          /\ Interrupt(p) \/ sched[at[p].on].status # "running"
      BY <1>1, <1>5, AtTypes DEF Interrupt, WriteRow, RemoveRow, At, ScheduleSteps, HaltedWhileEdited
    <2>2. \A t \in Schedules : sched[t].status = "running" => sched'[t] = sched[t]
      BY <1>1, <1>5, <2>1 DEF Interrupt, WriteRow, RemoveRow, DbTypes
    <2> QED BY <2>1, <2>2, ActiveKept
  <1>6. CASE Rewrite(p)
    <2>1. mem[p].from \subseteq Schedules /\ UNCHANGED match
      BY <1>1, <1>6, AtTypes DEF Memory, Rewrite
    <2>2. \/ UNCHANGED sched
          \/ \E robbed : /\ robbed \subseteq mem[p].from
                         /\ sched' = [t \in Schedules |->
                                  IF t \in robbed \union {at[p].on}
                                  THEN [sched[t] EXCEPT !.current = NoMatch] ELSE sched[t]]
      BY <1>6 DEF Rewrite, Robbed
    <2>3. \A t \in mem[p].from \union {at[p].on} : sched[t].status # "running"
      BY <1>1, <1>6 DEF Rewrite, At, HaltedWhileEdited
    <2>4. \A t \in Schedules : sched[t].status = "running" => sched'[t] = sched[t]
      BY <2>2, <2>3
    <2> QED BY <2>1, <2>4, ActiveKept
  <1>7. CASE Save(p)
    <2>1. PICK m \in Matches : m = at[p].at /\ match' = [match EXCEPT ![m] = mem[p].copy[m]]
      BY <1>1, <1>7, AtTypes DEF Save, At, MatchSteps
    <2>2. mem[p].copy[m].active => match[m].active
      BY <1>7, <2>1 DEF Save, CopiesAreQuiet
    <2>3. \A o \in Matches : match'[o].active => match[o].active
      BY <1>1, <2>1, <2>2 DEF DbTypes
    <2>4. UNCHANGED sched
      BY <1>7 DEF Save
    <2> QED BY <2>3, <2>4, ActiveKept
  <1>8. CASE \/ ListRunning(p) \/ Reconcile(p) \/ FindSchedule(p) \/ GuardRollback(p)
             \/ PrepareReopen(p) \/ CheckManual(p) \/ DiffRow(p) \/ Seat(p)
             \/ \E o \in MatchOps \ {"activate"} : Edit(p, o)
    BY <1>2, <1>8 DEF ListRunning, Reconcile, FindSchedule, GuardRollback, PrepareReopen,
       CheckManual, DiffRow, Seat, Edit, db
  <1> QED BY <1>3, <1>4, <1>5, <1>6, <1>7, <1>8, SettleActive DEF Step

LEMMA ArriveActive ==
    ASSUME SerialInv, OneRequest, NothingByHand, ActiveInv, NEW p \in Requests, Arrive(p)
    PROVE  ActiveInv'
  <1>1. p \in Procs /\ DbTypes /\ LocalOK /\ OneInFlight
    BY SerialInvParts DEF SerialInv, Procs
  <1>2. (\A q \in Procs : Resting(q)) /\ Acts(p)
    BY <1>1, ArriveBegins
  <1>3. \A q \in Procs \ {p} : CopiesAreQuiet(q)'
    <2>1. \A q \in Procs \ {p} : Resting(q)'
      BY <1>2 DEF Resting, Acts
    <2> QED BY <2>1 DEF Resting, CopiesAreQuiet, Calm, Idle, At, Seats, Loads, MatchOps
  <1>4. ASSUME UNCHANGED match,
               \A t \in Schedules : sched[t].status = "running" => sched'[t] = sched[t]
        PROVE  ActiveIsCurrent'
    BY <1>4 DEF ActiveInv, ActiveIsCurrent
  <1>5. ASSUME todo'[p] = <<>>, at'[p].step \notin Seats \union {"save"}
        PROVE  CopiesAreQuiet(p)'
    BY <1>5 DEF CopiesAreQuiet, Calm, At
  <1>6. CASE BeginsSave(p)
    <2>1. PICK s \in Schedules :
             /\ at'[p].step = "diffRow" /\ UNCHANGED db
             /\ todo'[p] \in {<<>>, <<OnSchedule("deactivateEvery", s), OnSchedule("read", s)>>}
      BY <1>6 DEF BeginsSave
    <2>2. PICK first, second : first = OnSchedule("deactivateEvery", s) /\ second = OnSchedule("read", s)
      OBVIOUS
    <2>3. first.step = "deactivateEvery" /\ second.step = "read"
      BY <2>2 DEF OnSchedule, Idle
    <2>4. CopiesAreQuiet(p)'
      <3>1. CASE todo'[p] = <<>>
        BY <1>5, <2>1, <3>1 DEF Seats
      <3>2. CASE todo'[p] = <<first, second>>
        <4>1. \A i \in DOMAIN todo'[p] : todo'[p][i].step \in {"deactivateEvery", "read"}
          BY <2>3, <3>2
        <4> QED BY <2>1, <4>1 DEF CopiesAreQuiet, Calm, At, Seats, Loads, MatchOps
      <3> QED BY <2>1, <2>2, <3>1, <3>2
    <2> QED BY <1>3, <1>4, <2>1, <2>4 DEF ActiveInv, db
  <1>7. CASE BeginsEdit(p) \/ BeginsStop(p)
    <2>1. /\ UNCHANGED <<sched, match>> /\ todo'[p] = <<>>
          /\ at'[p].step \in {"removeRow", "rewrite", "stop", "listRunning"}
      BY <1>7 DEF BeginsEdit, BeginsStop, db
    <2> QED BY <1>3, <1>4, <1>5, <2>1 DEF ActiveInv, Seats
  <1>8. CASE BeginsMatch(p)
    <2>1. PICK m \in Matches :
          /\ UNCHANGED <<sched, match>>
          /\ \/ at'[p].step \in {"score", "shape", "commit", "run"} /\ todo'[p] = <<>>
             \/ at'[p].step = "guardRollback" /\ todo'[p] = <<AtMatch("rollback", m)>>
             \/ at'[p].step = "prepareReopen" /\ todo'[p] = <<AtMatch("reopen", m)>>
      BY <1>8 DEF BeginsMatch, db
    <2>2. CASE todo'[p] = <<>>
      BY <1>3, <1>4, <1>5, <2>1, <2>2 DEF ActiveInv, Seats
    <2>3. CASE todo'[p] # <<>>
      <3>1. PICK task \in {AtMatch("rollback", m), AtMatch("reopen", m)} : todo'[p] = <<task>>
        BY <2>1, <2>3
      <3>2. task.step \in {"rollback", "reopen"}
        BY <3>1 DEF AtMatch, Idle
      <3>3. \A i \in DOMAIN todo'[p] : i = 1 /\ Len(todo'[p]) = 1 /\ todo'[p][i].step # "save"
        BY <3>1, <3>2
      <3>4. at'[p].step \in {"guardRollback", "prepareReopen"}
        BY <2>1, <2>3
      <3>5. CopiesAreQuiet(p)'
        BY <3>3, <3>4 DEF CopiesAreQuiet, Calm, At, Seats, Loads, MatchOps
      <3> QED BY <1>3, <1>4, <2>1, <3>5 DEF ActiveInv
    <2> QED BY <2>2, <2>3
  <1>9. CASE AnsweredAtOnce(p)
    <2>1. /\ UNCHANGED match
          /\ \A t \in Schedules : sched[t].status = "running" => sched'[t] = sched[t]
      BY <1>1, <1>9 DEF AnsweredAtOnce, OpenAgain, Create, DbTypes
    <2>2. Resting(p)'
      BY <1>1, <1>2, <1>9 DEF AnsweredAtOnce, Resting
    <2>3. CopiesAreQuiet(p)'
      BY <2>2 DEF Resting, CopiesAreQuiet, Calm, Idle, At, Seats, Loads, MatchOps
    <2> QED BY <1>3, <1>4, <2>1, <2>3 DEF ActiveInv
  <1>10. ~BeginsActivation(p)
    BY DEF BeginsActivation, NothingByHand
  <1> QED BY <1>1, <1>6, <1>7, <1>8, <1>9, <1>10, ArriveBegins

LEMMA NextActive ==
    ASSUME SerialInv, OneRequest, NothingByHand, ActiveInv, [Next]_vars
    PROVE  ActiveInv'
  <1>1. DbTypes /\ LocalOK /\ OneInFlight
    BY SerialInvParts DEF SerialInv
  <1>2. ASSUME NEW p \in Procs, Step(p)
        PROVE  ActiveInv'
    <2>1. CopiesAreQuiet(p)' /\ ActiveIsCurrent'
      BY <1>1, <1>2, StepsQuietly, StepActive DEF ActiveInv
    <2>2. \A q \in Procs \ {p} : Resting(q)'
      BY <1>1, <1>2, StepMoves, StepActs, OthersRest
    <2>3. \A q \in Procs \ {p} : CopiesAreQuiet(q)'
      BY <2>2 DEF Resting, CopiesAreQuiet, Calm, Idle, At, Seats, Loads, MatchOps
    <2> QED BY <2>1, <2>3 DEF ActiveInv
  <1>3. CASE Crash
    <2>1. \A q \in Procs : at'[q].step \in {"idle", "reconcile"} /\ todo'[q] = <<>>
      BY <1>3 DEF Crash, Idle
    <2>2. \A q \in Procs : CopiesAreQuiet(q)'
      BY <2>1 DEF CopiesAreQuiet, Calm, At, Seats, Loads, MatchOps
    <2>3. ActiveIsCurrent'
      BY <1>3 DEF Crash, db, ActiveInv, ActiveIsCurrent
    <2> QED BY <2>2, <2>3 DEF ActiveInv
  <1>4. CASE UNCHANGED vars
    BY <1>4 DEF vars, ActiveInv, ActiveIsCurrent, CopiesAreQuiet, Calm, At
  <1> QED BY <1>2, <1>3, <1>4, ArriveActive DEF Next

\* With one request at a time and no activation by hand, a running schedule
\* has no active match but its current one, wherever the process dies: a run
\* that goes on or halts takes the match it leaves along, and no save brings
\* back an activation that was taken away since its load.
THEOREM OnlyTheCurrentPlays ==
    ASSUME OneRequest, NothingByHand
    PROVE  Spec => []OnlyCurrentIsActive
  <1>1. Init => SerialInv /\ ActiveInv
    <2> SUFFICES ASSUME Init PROVE SerialInv /\ ActiveInv
      OBVIOUS
    <2>1. SerialInv
      BY InitSerial
    <2>2. \A p \in Procs : CopiesAreQuiet(p)
      BY RestingIsQuiet DEF Init, Resting
    <2>3. ActiveIsCurrent
      BY DEF Init, ActiveIsCurrent, NothingByHand
    <2> QED BY <2>1, <2>2, <2>3 DEF ActiveInv
  <1>2. SerialInv /\ ActiveInv /\ [Next]_vars => SerialInv' /\ ActiveInv'
    BY NextSerial, NextActive
  <1>3. SerialInv /\ ActiveInv => OnlyCurrentIsActive
    <2> SUFFICES ASSUME SerialInv, ActiveInv, NEW s \in Schedules, sched[s].status = "running",
                        NEW m \in EntriesOf(s), match[m].active
                 PROVE  m = sched[s].current
      BY DEF OnlyCurrentIsActive
    <2>1. BoardsTyped /\ BoardsAreSound
      BY SerialInvParts DEF SerialInv, BoardsInv
    <2>2. m \in Matches
      BY <2>1, WalkTypes
    <2>3. PICK t \in Schedules : sched[t].status = "running" /\ sched[t].current = m
      BY <2>2 DEF ActiveInv, ActiveIsCurrent
    <2>4. m \in EntriesOf(t)
      BY <2>1, <2>2, <2>3, NoMatchAssumption DEF BoardsAreSound, PointsAtItsEntry
    <2>5. t = s
      BY <2>1, <2>4 DEF BoardsAreSound
    <2> QED BY <2>3, <2>5
  <1> QED BY <1>1, <1>2, <1>3, PTL DEF Spec

-----------------------------------------------------------------------------
(* A run stands where its matches say.                                     *)

\* The two verdicts on a match that is not full, which its feeders tell apart.
Unfillable == {"UNRESOLVED_ENTRANTS", "UNFILLABLE_ENTRANT_SLOTS"}

\* code is what a run that halts at m with this verdict keeps.  Players who are
\* busy elsewhere may have been released since, and a feeder may have settled:
\* neither recalculates the schedule of m.
Tells(m, code, verdict) ==
    \/ verdict = "eligible" /\ code = "none" /\ match[m].active
    \/ verdict = "eligible" /\ code = "ENTRANTS_ALREADY_ACTIVE" /\ \E s, t \in Schedules : s # t
    \/ verdict # "eligible" /\ code = verdict
    \/ Feeders[m] # {} /\ {code, verdict} \subseteq Unfillable

\* s is at an entry that still has to be played, and plays it or says why not.
Stands(s) ==
    LET m == sched[s].current
    IN  /\ m \in EntriesOf(s) /\ ~Passed(m)
        /\ Tells(m, sched[s].stale, LocalVerdict(m, TRUE))

\* A step that ends in a recalculation of s.
Due(task, s) ==
    \/ task.step \in {"read", "settle"} /\ task.on = s
    \/ task.step = "findSchedule" /\ task.at \in EntriesOf(s)

Owed(p, s) ==
    \/ At(p, "reconcile")
    \/ Due(at[p], s)
    \/ \E i \in DOMAIN todo[p] : Due(todo[p][i], s)

\* What a request can be in the middle of.  It removes a schedule or rewrites
\* its entries ...
Removing(p) ==
    /\ at[p].step \in {"removeRow", "rewrite"} /\ todo[p] = <<>>
    /\ At(p, "rewrite") => sched[at[p].on].status # "absent"

\* ... loads a match; one whose result is reopened has been taken off the air ...
Loading(p) ==
    /\ at[p].step \in Loads /\ todo[p] = <<>>
    /\ At(p, "reopen") => ~match[at[p].at].active

\* ... or has yet to get past the guard before it ...
Guarding(p) ==
    /\ at[p].step \in {"guardRollback", "prepareReopen", "stop", "interrupt"}
    /\ \E m \in Matches :
          \/ todo[p] = <<AtMatch("rollback", m)>>
          \/ /\ todo[p] = <<AtMatch("reopen", m)>>
             /\ \/ At(p, "prepareReopen") /\ at[p].at = m
                \/ At(p, "stop") /\ m \in EntriesOf(at[p].on)
                \/ At(p, "interrupt") /\ ~match[m].active

\* ... stops schedules ...
OnlyStops(p) ==
    At(p, "stop") /\ \A i \in DOMAIN todo[p] : todo[p][i].step = "stop"

\* ... saves a row, which a start follows up ...
Saving(p) ==
    /\ at[p].step \in {"diffRow", "writeRow"} /\ mem[p].row.status # "absent"
    /\ \/ todo[p] = <<OnSchedule("deactivateEvery", at[p].on), OnSchedule("read", at[p].on)>>
       \/ todo[p] = <<>> /\ mem[p].row.status # "running"

ToRead(p) ==
    /\ At(p, "deactivateEvery") /\ todo[p] = <<OnSchedule("read", at[p].on)>>
    /\ sched[at[p].on].status # "absent"

\* ... or saves matches and recalculates.
Telling == {"read", "settle", "findSchedule", "save"} \union Seats

Present(task) == task.step = "read" => sched[task.on].status # "absent"

PassedBoth(m, c) == Passed(m) /\ c.state \in {"ready", "completed"}

IsFind(task, m) == task.step = "findSchedule" /\ task.at = m

\* A save is followed by the recalculation of its match, or moves no schedule.
Told(line, memory) ==
    \A i \in DOMAIN line :
        /\ line[i].step \in Telling \ {"settle"} /\ Present(line[i])
        /\ line[i].step = "save" =>
              \/ \E j \in DOMAIN line : j > i /\ IsFind(line[j], line[i].at)
              \/ PassedBoth(line[i].at, memory.copy[line[i].at])

\* The same, but the first step may save what is in the table.
FirstTold(line, memory) ==
    \A i \in DOMAIN line :
        /\ line[i].step \in Telling \ {"settle"} /\ Present(line[i])
        /\ line[i].step = "save" =>
              \/ \E j \in DOMAIN line : j > i /\ IsFind(line[j], line[i].at)
              \/ PassedBoth(line[i].at, memory.copy[line[i].at])
              \/ i = 1 /\ memory.copy[line[i].at] = match[line[i].at]

SaveTells(p) ==
    LET m == at[p].at
    IN  \/ \E j \in DOMAIN todo[p] : IsFind(todo[p][j], m)
        \/ PassedBoth(m, mem[p].copy[m])
        \/ mem[p].copy[m] = match[m]

Tidy(p) ==
    /\ at[p].step \in Telling /\ Present(at[p]) /\ Told(todo[p], mem[p])
    /\ At(p, "save") => SaveTells(p)

LineOK(p) ==
    \/ Resting(p) \/ Listing(p) \/ Removing(p) \/ Loading(p) \/ Guarding(p)
    \/ OnlyStops(p) \/ Saving(p) \/ ToRead(p) \/ Tidy(p)

\* A run stands where its matches say, or is about to be recalculated.
RunsTold ==
    tournament = "open" =>
        \A s \in RunningSchedules : Stands(s) \/ \E p \in Procs : Owed(p, s)

AbsentAreEmpty == \A s \in Schedules : sched[s].status = "absent" => EntriesOf(s) = {}

StandInv == RunsTold /\ AbsentAreEmpty /\ \A p \in Procs : LineOK(p)

\* Which action a step is.
LEMMA StepAt ==
    ASSUME NEW p \in Procs, Step(p)
    PROVE  /\ At(p, "read") => Read(p)
           /\ At(p, "settle") => Settle(p)
           /\ At(p, "deactivateEvery") => DeactivateEvery(p)
           /\ At(p, "stop") => Stop(p)
           /\ At(p, "interrupt") => Interrupt(p)
           /\ At(p, "listRunning") => ListRunning(p)
           /\ At(p, "reconcile") => Reconcile(p)
           /\ At(p, "findSchedule") => FindSchedule(p)
           /\ At(p, "guardRollback") => GuardRollback(p)
           /\ At(p, "prepareReopen") => PrepareReopen(p)
           /\ At(p, "diffRow") => DiffRow(p)
           /\ At(p, "writeRow") => WriteRow(p)
           /\ At(p, "removeRow") => RemoveRow(p)
           /\ At(p, "rewrite") => Rewrite(p)
           /\ At(p, "save") => Save(p)
           /\ at[p].step \in Seats => Seat(p)
           /\ at[p].step \in Loads => Edit(p, at[p].step)
  <1>1. PICK step : step = at[p].step
    OBVIOUS
  <1>2. /\ Read(p) => step = "read"
        /\ Settle(p) => step = "settle"
        /\ DeactivateEvery(p) => step = "deactivateEvery"
        /\ Stop(p) => step = "stop"
        /\ Interrupt(p) => step = "interrupt"
        /\ ListRunning(p) => step = "listRunning"
        /\ Reconcile(p) => step = "reconcile"
        /\ FindSchedule(p) => step = "findSchedule"
        /\ GuardRollback(p) => step = "guardRollback"
    BY <1>1 DEF Read, Settle, DeactivateEvery, Stop, Interrupt, ListRunning, Reconcile,
       FindSchedule, GuardRollback, At
  <1>3. /\ PrepareReopen(p) => step = "prepareReopen"
        /\ CheckManual(p) => step = "checkManual"
        /\ DiffRow(p) => step = "diffRow"
        /\ WriteRow(p) => step = "writeRow"
        /\ RemoveRow(p) => step = "removeRow"
        /\ Rewrite(p) => step = "rewrite"
        /\ Save(p) => step = "save"
        /\ Seat(p) => step \in Seats
        /\ \A o \in MatchOps \ {"activate"} : Edit(p, o) => step = o
    BY <1>1 DEF PrepareReopen, CheckManual, DiffRow, WriteRow, RemoveRow, Rewrite, Save, Seat,
       Edit, At, Seats
  <1> QED BY <1>1, <1>2, <1>3 DEF Step, At, Seats, Loads, MatchOps

-----------------------------------------------------------------------------
(* What changes no verdict.                                                *)

\* The verdict on a match changes with its entrants and its rounds; its
\* feeders only tell one kind of incompleteness from the other.
LEMMA VerdictKept ==
    ASSUME NEW m \in Matches, match'[m].players = match[m].players,
           match'[m].rounds = match[m].rounds
    PROVE  \/ LocalVerdict(m, TRUE)' = LocalVerdict(m, TRUE)
           \/ /\ Feeders[m] # {}
              /\ {LocalVerdict(m, TRUE)', LocalVerdict(m, TRUE)} \subseteq Unfillable
  <1>1. CASE Feeders[m] = {}
    <2>1. Pending(m)' = Pending(m)
      BY <1>1 DEF Pending
    <2> QED BY <2>1 DEF LocalVerdict
  <1>2. CASE Feeders[m] # {}
    <2>1. PICK k, v, w : k = Cardinality(match[m].players) /\ v = LocalVerdict(m, TRUE)
                         /\ w = LocalVerdict(m, TRUE)'
      OBVIOUS
    <2>2. CASE k # 0 /\ k # 1 /\ k < Required[m]
      <3>1. v \in Unfillable /\ w \in Unfillable
        BY <2>1, <2>2 DEF LocalVerdict, Unfillable
      <3> QED BY <1>2, <2>1, <3>1
    <2>3. CASE ~(k # 0 /\ k # 1 /\ k < Required[m])
      BY <2>1, <2>3 DEF LocalVerdict
    <2> QED BY <2>2, <2>3
  <1> QED BY <1>1, <1>2

\* Neither the row and the entries of a schedule nor its current match change:
\* it stands where it stood.
LEMMA StandsKept ==
    ASSUME BoardsTyped, NEW s \in Schedules, Stands(s),
           sched'[s] = sched[s], entries'[s] = entries[s],
           NEW m, m = sched[s].current,
           match'[m].state = match[m].state, match'[m].players = match[m].players,
           match'[m].rounds = match[m].rounds, match[m].active => match'[m].active
    PROVE  Stands(s)'
  <1>1. EntriesOf(s)' = EntriesOf(s)
    BY DEF EntriesOf, Positions
  <1>2. m \in EntriesOf(s) /\ ~Passed(m)' /\ m = sched'[s].current
    BY DEF Stands, Passed
  <1>3. m \in Matches
    BY <1>2, WalkTypes
  <1>4. PICK v, w, code : v = LocalVerdict(m, TRUE) /\ w = LocalVerdict(m, TRUE)'
                          /\ code = sched[s].stale
    OBVIOUS
  <1>5. w = v \/ (Feeders[m] # {} /\ {w, v} \subseteq Unfillable)
    BY <1>3, <1>4, VerdictKept
  <1>6. Tells(m, code, v)
    BY <1>4 DEF Stands
  <1>7. Tells(m, code, w)'
    BY <1>5, <1>6 DEF Tells, Unfillable
  <1> QED BY <1>1, <1>2, <1>4, <1>7 DEF Stands

\* Taking matches on and off the air changes nothing else about them.
LEMMA WithActiveKeeps ==
    ASSUME DbTypes, NEW off, NEW on, match' = WithActive(off, on)
    PROVE  /\ \A m \in Matches :
                 /\ match'[m].state = match[m].state /\ match'[m].players = match[m].players
                 /\ match'[m].rounds = match[m].rounds
                 /\ m \notin off \union on => match'[m].active = match[m].active
           /\ \A m \in Matches : LocalVerdict(m, TRUE)' = LocalVerdict(m, TRUE)
           /\ \A m \in Matches : Passed(m)' = Passed(m)
  <1>1. \A m \in Matches :
           /\ match'[m].state = match[m].state /\ match'[m].players = match[m].players
           /\ match'[m].rounds = match[m].rounds
           /\ m \notin off \union on => match'[m].active = match[m].active
    BY DEF DbTypes, WithActive, MatchRow
  <1>2. ASSUME NEW m \in Matches
        PROVE  LocalVerdict(m, TRUE)' = LocalVerdict(m, TRUE)
    <2>1. Feeders[m] \subseteq Matches
      BY ScheduleAssumption
    <2>2. {f \in Feeders[m] : match'[f].state # "completed"}
             = {f \in Feeders[m] : match[f].state # "completed"}
      BY <1>1, <2>1
    <2>3. Pending(m)' = Pending(m)
      BY <2>2 DEF Pending
    <2> QED BY <1>1, <2>3 DEF LocalVerdict
  <1>3. \A m \in Matches : Passed(m)' = Passed(m)
    BY <1>1 DEF Passed
  <1> QED BY <1>1, <1>2, <1>3

\* A schedule whose entries are left alone.
LEMMA OthersStand ==
    ASSUME DbTypes, BoardsTyped, BoardsAreSound, NEW s \in Schedules, NEW off, NEW on,
           match' = WithActive(off, on), off \union on \subseteq EntriesOf(s),
           NEW t \in Schedules \ {s}, Stands(t), sched'[t] = sched[t], entries'[t] = entries[t]
    PROVE  Stands(t)'
  <1>1. PICK m : m = sched[t].current
    OBVIOUS
  <1>2. m \in EntriesOf(t) /\ m \in Matches
    BY <1>1, WalkTypes DEF Stands
  <1>3. m \notin off \union on
    BY <1>2 DEF BoardsAreSound
  <1>4. /\ match'[m].state = match[m].state /\ match'[m].players = match[m].players
        /\ match'[m].rounds = match[m].rounds /\ match'[m].active = match[m].active
    BY <1>2, <1>3, WithActiveKeeps
  <1> QED BY <1>1, <1>4, StandsKept

\* An active match on the board of a schedule is the current one of it.
LEMMA ActiveOnBoard ==
    ASSUME BoardsTyped, BoardsAreSound, ActiveIsCurrent, NEW s \in Schedules,
           NEW m \in EntriesOf(s), match[m].active
    PROVE  sched[s].status = "running" /\ m = sched[s].current
  <1>1. m \in Matches
    BY WalkTypes
  <1>2. PICK t \in Schedules : sched[t].status = "running" /\ sched[t].current = m
    BY <1>1 DEF ActiveIsCurrent
  <1>3. m \in EntriesOf(t)
    BY <1>1, <1>2, NoMatchAssumption DEF BoardsAreSound, PointsAtItsEntry
  <1> QED BY <1>2, <1>3 DEF BoardsAreSound

\* A match that is at the current entry is walked over, or the walk halts there.
LEMMA CurrentIsMet ==
    ASSUME BoardsTyped, BoardsAreSound, NEW s \in Schedules, NEW o \in Matches,
           o = sched[s].current, Unpassed(s) # {}, o # entries[s][HaltIndex(s)]
    PROVE  o \in Walked(s)
  <1>1. PICK i, h : i = StartIndex(s) /\ h = HaltIndex(s)
    OBVIOUS
  <1>2. o \in EntriesOf(s)
    BY NoMatchAssumption DEF BoardsAreSound, PointsAtItsEntry
  <1>3. i \in Positions(s) /\ entries[s][i] = o
    BY <1>1, <1>2 DEF StartIndex, EntriesOf
  <1>4. h \in Unpassed(s)
    BY <1>1, HaltIsFirst
  <1>5. i \in Nat /\ h \in Nat /\ i <= h /\ i # h
    BY <1>1, <1>3, <1>4, WalkTypes DEF Unpassed
  <1> QED BY <1>1, <1>3, <1>5 DEF Walked

\* A recalculation that was decided on what is still true is written, and the
\* run stands where the walk halted.
LEMMA SettleStands ==
    ASSUME SerialInv, ActiveIsCurrent, NEW p \in Procs, Settle(p),
           NEW s, s = at[p].on
    PROVE  /\ Then(p, [mem[p] EXCEPT !.plan = Blank.plan], <<>>)
           /\ \A t \in Schedules \ {s} : sched'[t] = sched[t]
           /\ s \in Schedules /\ sched[s].status = "running" /\ sched'[s].status # "absent"
           /\ \E off, on : match' = WithActive(off, on) /\ off \union on \subseteq EntriesOf(s)
           /\ sched'[s].status = "running" => Stands(s)'
  <1>0. PICK plan : plan = Decision(s)
    OBVIOUS
  <1>1. /\ DbTypes /\ LocalOK /\ BoardsTyped /\ BoardsAreSound /\ s \in Schedules
        /\ sched \in [Schedules -> Row]
    BY SerialInvParts, AtTypes DEF SerialInv, BoardsInv, Settle, At, ScheduleSteps, DbTypes
  <1>2. mem[p].plan = plan /\ sched[s].status = "running"
    BY <1>0 DEF SerialInv, PlanIsFresh, Settle
  <1>3. PICK halt, off : halt = entries[s][HaltIndex(s)] /\ off = {m \in Walked(s) : match[m].active}
    OBVIOUS
  <1>4. PICK verdict : verdict = Verdict(halt, halt = sched[s].current, off)
    OBVIOUS
  <1>5. plan = IF Unpassed(s) = {}
               THEN [row |-> Completed(sched[s]), off |-> off, on |-> {}]
               ELSE IF verdict = "eligible"
               THEN [row |-> Activated(sched[s], halt), off |-> off,
                     on |-> IF match[halt].active THEN {} ELSE {halt}]
               ELSE [row |-> WaitingAt(sched[s], halt, verdict), off |-> off, on |-> {}]
    BY <1>0, <1>3, <1>4 DEF Decision
  <1>6. off \subseteq EntriesOf(s)
    BY <1>1, <1>3, WalkTypes
  <1>7. ASSUME PointsAtItsEntry(plan.row, s)
        PROVE  /\ Then(p, [mem[p] EXCEPT !.plan = Blank.plan], <<>>)
               /\ \A t \in Schedules \ {s} : sched'[t] = sched[t]
               /\ sched'[s] = plan.row /\ match' = WithActive(plan.off, plan.on)
    <2>1. /\ sched' = [sched EXCEPT ![s] = plan.row] /\ match' = WithActive(plan.off, plan.on)
          /\ Then(p, [mem[p] EXCEPT !.plan = Blank.plan], <<>>)
      BY <1>2, <1>7 DEF Settle
    <2> QED BY <1>1, <2>1
  <1>8. CASE Unpassed(s) = {}
    <2>1. plan.row = Completed(sched[s]) /\ plan.off = off /\ plan.on = {}
      BY <1>5, <1>8
    <2>2. plan.row.status = "completed" /\ plan.row.current = NoMatch
      BY <1>1, <2>1 DEF Completed, Row
    <2>3. PointsAtItsEntry(plan.row, s)
      BY <2>2 DEF PointsAtItsEntry
    <2> QED BY <1>1, <1>2, <1>6, <1>7, <2>1, <2>2, <2>3
  <1>9. CASE Unpassed(s) # {}
    <2>1. halt \in EntriesOf(s) /\ halt \in Matches
      BY <1>1, <1>3, <1>9, WalkTypes
    <2>2. ~Passed(halt) /\ halt \notin Walked(s)
      <3>1. PICK h : h = HaltIndex(s)
        OBVIOUS
      <3>2. h \in Unpassed(s) /\ h \in Positions(s) /\ h \in Nat /\ Positions(s) \subseteq Nat
        BY <1>1, <1>9, <3>1, HaltIsFirst, WalkTypes DEF Unpassed
      <3>3. ASSUME NEW j \in Positions(s), j < h, entries[s][j] = halt
            PROVE  FALSE
        <4>1. j = h
          BY <1>1, <1>3, <3>1, <3>2, <3>3 DEF BoardsAreSound
        <4> QED BY <3>2, <3>3, <4>1
      <3>4. halt \notin Walked(s)
        BY <1>9, <3>1, <3>3 DEF Walked
      <3> QED BY <1>3, <3>1, <3>2, <3>4 DEF Unpassed
    <2>3. PICK local : local = LocalVerdict(halt, TRUE)
      OBVIOUS
    <2>4. LocalVerdict(halt, halt = sched[s].current) = local
      <3>1. match[halt].active => halt = sched[s].current
        BY <1>1, <2>1, ActiveOnBoard
      <3> QED BY <2>3, <3>1 DEF LocalVerdict
    <2>5. verdict = IF local = "eligible" /\ Blocking(halt, off) # {}
                    THEN "ENTRANTS_ALREADY_ACTIVE" ELSE local
      BY <1>4, <2>4 DEF Verdict
    <2>6. ASSUME Blocking(halt, off) # {}
          PROVE  \E t, u \in Schedules : t # u
      <3>1. PICK o \in Matches : o # halt /\ o \notin off /\ match[o].active
        BY <2>6 DEF Blocking
      <3>2. PICK t \in Schedules : sched[t].current = o
        BY <3>1 DEF ActiveIsCurrent
      <3>3. o = sched[s].current => FALSE
        BY <1>1, <1>3, <1>9, <3>1, CurrentIsMet
      <3> QED BY <1>1, <3>2, <3>3
    <2>7. /\ plan.off = off /\ plan.on \subseteq {halt} /\ plan.row.status = "running"
          /\ plan.row.current = halt
          /\ verdict = "eligible" => /\ plan.row.stale = "none"
                                     /\ match[halt].active \/ halt \in plan.on
          /\ verdict # "eligible" => plan.row.stale = verdict
      BY <1>1, <1>2, <1>5, <1>9 DEF Activated, WaitingAt, Row
    <2>8. PointsAtItsEntry(plan.row, s)
      BY <2>1, <2>7 DEF PointsAtItsEntry
    <2>9. /\ Then(p, [mem[p] EXCEPT !.plan = Blank.plan], <<>>)
          /\ \A t \in Schedules \ {s} : sched'[t] = sched[t]
          /\ sched'[s] = plan.row /\ match' = WithActive(plan.off, plan.on)
      BY <1>7, <2>8
    <2>10. EntriesOf(s)' = EntriesOf(s)
      BY DEF Settle, EntriesOf, Positions
    <2>11. LocalVerdict(halt, TRUE)' = local /\ ~Passed(halt)'
      BY <1>1, <2>1, <2>2, <2>3, <2>9, WithActiveKeeps
    <2>12. verdict = "eligible" => match'[halt].active
      <3>1. PICK offs, ons : offs = plan.off /\ ons = plan.on /\ match' = WithActive(offs, ons)
        BY <2>9
      <3>2. match'[halt].active <=> (halt \in ons \/ (halt \notin offs /\ match[halt].active))
        BY <1>1, <2>1, <3>1, Activations
      <3> QED BY <1>3, <2>2, <2>7, <3>1, <3>2
    <2>13. Tells(halt, plan.row.stale, local)'
      <3>1. PICK code : code = plan.row.stale
        OBVIOUS
      <3>2. Tells(halt, code, local)'
        BY <2>5, <2>6, <2>7, <2>12, <3>1 DEF Tells
      <3> QED BY <2>9, <3>1, <3>2 DEF Tells
    <2>14. Stands(s)'
      BY <2>1, <2>7, <2>9, <2>10, <2>11, <2>13 DEF Stands, Tells
    <2> QED BY <1>1, <1>2, <1>6, <2>1, <2>7, <2>9, <2>14
  <1> QED BY <1>8, <1>9

-----------------------------------------------------------------------------
(* What is owed stays on the line.                                         *)

LEMMA TakesOwed ==
    ASSUME NEW p \in Procs, NEW line, NEW memory, TakesFirst(p, line, memory),
           NEW s, NEW i \in DOMAIN line, Due(line[i], s)'
    PROVE  Owed(p, s)'
  <1>1. /\ 1 \in DOMAIN line /\ at'[p] = line[1]
        /\ DOMAIN line = 1..Len(line) /\ Len(line) \in Nat
        /\ DOMAIN todo'[p] = 1..(Len(line) - 1)
        /\ \A k \in DOMAIN todo'[p] : todo'[p][k] = line[k + 1]
    BY DEF TakesFirst
  <1>2. CASE i = 1
    BY <1>1, <1>2 DEF Owed, Due, EntriesOf, Positions
  <1>3. CASE i # 1
    <2>1. PICK k : k = i - 1
      OBVIOUS
    <2>2. k \in DOMAIN todo'[p] /\ k + 1 = i
      BY <1>1, <1>3, <2>1
    <2>3. todo'[p][k] = line[i]
      BY <1>1, <2>2
    <2>4. Due(todo[p][k], s)'
      <3>1. k' = k
        OBVIOUS
      <3> QED BY <2>3 DEF Due, EntriesOf, Positions
    <2> QED BY <2>2, <2>4 DEF Owed
  <1> QED BY <1>2, <1>3

LEMMA OwedContinues ==
    ASSUME LocalOK, NEW p \in Procs, NEW memory, Then(p, memory, <<>>),
           NEW s, EntriesOf(s)' = EntriesOf(s), NEW i \in DOMAIN todo[p], Due(todo[p][i], s)
    PROVE  Owed(p, s)'
  <1>1. PICK line : line = todo[p]
    OBVIOUS
  <1>2. TakesFirst(p, line, memory)
    BY <1>1, ThenContinues
  <1>3. i \in DOMAIN line /\ Due(line[i], s)'
    BY <1>1 DEF Due
  <1> QED BY <1>2, <1>3, TakesOwed

\* The first step of a line that tells is taken.
LEMMA TakesTidy ==
    ASSUME NEW p \in Procs, NEW line, NEW memory, TakesFirst(p, line, memory),
           FirstTold(line, memory)'
    PROVE  Resting(p)' \/ Tidy(p)'
  <1>1. CASE ~Resting(p)'
    <2>1. PICK rest : rest = todo'[p]
      OBVIOUS
    <2>2. /\ 1 \in DOMAIN line /\ at'[p] = line[1] /\ mem'[p] = memory
          /\ DOMAIN line = 1..Len(line) /\ Len(line) \in Nat
          /\ DOMAIN rest = 1..(Len(line) - 1)
          /\ \A i \in DOMAIN rest : i + 1 \in DOMAIN line /\ rest[i] = line[i + 1]
      BY <1>1, <2>1 DEF TakesFirst
    <2>3. ASSUME NEW k \in DOMAIN line, k > 1
          PROVE  k - 1 \in DOMAIN rest /\ rest[k - 1] = line[k]
      <3>1. PICK i : i = k - 1
        OBVIOUS
      <3>2. i \in DOMAIN rest /\ i + 1 = k
        BY <2>2, <2>3, <3>1
      <3> QED BY <2>2, <3>1, <3>2
    <2>4. ASSUME NEW i \in DOMAIN rest
          PROVE  /\ rest[i].step \in Telling \ {"settle"} /\ Present(rest[i])'
                 /\ rest[i].step = "save" =>
                       \/ \E j \in DOMAIN rest : j > i /\ IsFind(rest[j], rest[i].at)
                       \/ PassedBoth(rest[i].at, memory.copy[rest[i].at])'
      <3>1. PICK k : k = i + 1
        OBVIOUS
      <3>2. k \in DOMAIN line /\ rest[i] = line[k] /\ k > 1 /\ k # 1 /\ i \in Nat
        BY <2>2, <3>1
      <3>3. /\ line[k].step \in Telling \ {"settle"} /\ Present(line[k])'
            /\ line[k].step = "save" =>
                 \/ \E j \in DOMAIN line : j > k /\ IsFind(line[j], line[k].at)
                 \/ PassedBoth(line[k].at, memory.copy[line[k].at])'
        BY <3>2 DEF FirstTold, Present, PassedBoth, Passed
      <3>4. ASSUME NEW j \in DOMAIN line, j > k, IsFind(line[j], line[k].at)
            PROVE  \E l \in DOMAIN rest : l > i /\ IsFind(rest[l], line[k].at)
        <4>1. PICK l : l = j - 1
          OBVIOUS
        <4>2. l \in DOMAIN rest /\ rest[l] = line[j] /\ l > i
          BY <2>2, <2>3, <3>1, <3>2, <3>4, <4>1
        <4> QED BY <3>4, <4>2
      <3> QED BY <3>2, <3>3, <3>4 DEF Present, PassedBoth, Passed
    <2>5. Told(rest, memory)'
      BY <2>4 DEF Told, Present, PassedBoth, Passed
    <2>6. Told(todo[p], mem[p])'
      BY <2>1, <2>2, <2>5 DEF Told, Present, PassedBoth, Passed
    <2>7. PICK first : first = line[1]
      OBVIOUS
    <2>8. /\ first.step \in Telling \ {"settle"}
          /\ first.step = "read" => sched'[first.on].status # "absent"
          /\ first.step = "save" =>
               \/ \E j \in DOMAIN line : j > 1 /\ IsFind(line[j], first.at)
               \/ PassedBoth(first.at, memory.copy[first.at])'
               \/ memory.copy[first.at] = match'[first.at]
      BY <2>2, <2>7 DEF FirstTold, Present, PassedBoth, Passed
    <2>9. ASSUME first.step = "save"
          PROVE  SaveTells(p)'
      <3>1. CASE \E j \in DOMAIN line : j > 1 /\ IsFind(line[j], first.at)
        <4>1. PICK j \in DOMAIN line : j > 1 /\ IsFind(line[j], first.at)
          BY <3>1
        <4>2. j - 1 \in DOMAIN rest /\ rest[j - 1] = line[j]
          BY <2>3, <4>1
        <4> QED BY <2>1, <2>2, <2>7, <4>1, <4>2 DEF SaveTells
      <3>2. CASE PassedBoth(first.at, memory.copy[first.at])'
        BY <2>2, <2>7, <3>2 DEF SaveTells, PassedBoth, Passed
      <3>3. CASE memory.copy[first.at] = match'[first.at]
        BY <2>2, <2>7, <3>3 DEF SaveTells
      <3> QED BY <2>8, <2>9, <3>1, <3>2, <3>3
    <2> QED BY <2>2, <2>6, <2>7, <2>8, <2>9 DEF Tidy, Present, At
  <1> QED BY <1>1

\* A request that saves and recalculates goes on doing so.
LEMMA TidyContinues ==
    ASSUME LocalOK, NEW p \in Procs, Told(todo[p], mem[p]), NEW memory,
           memory.copy = mem[p].copy, Then(p, memory, <<>>),
           \A s \in Schedules : sched[s].status # "absent" => sched'[s].status # "absent",
           \A m \in Matches : PassedBoth(m, mem[p].copy[m]) => Passed(m)'
    PROVE  Resting(p)' \/ Tidy(p)'
  <1>1. PICK line : line = todo[p]
    OBVIOUS
  <1>2. TakesFirst(p, line, memory)
    BY <1>1, ThenContinues
  <1>3. ASSUME NEW i \in DOMAIN line
        PROVE  /\ line[i].step \in Telling \ {"settle"} /\ Present(line[i])'
               /\ line[i].step = "save" =>
                     \/ \E j \in DOMAIN line : j > i /\ IsFind(line[j], line[i].at)
                     \/ PassedBoth(line[i].at, memory.copy[line[i].at])'
    <2>1. line[i] \in Queued
      BY <1>1, ElementOfSeq DEF LocalOK, LocalTypes
    <2>2. /\ line[i].step = "read" => line[i].on \in Schedules
          /\ line[i].step = "save" => line[i].at \in Matches
      BY <2>1 DEF Queued, TaskOf, ScheduleSteps, MatchSteps
    <2>3. /\ line[i].step \in Telling \ {"settle"} /\ Present(line[i])
          /\ line[i].step = "save" =>
                \/ \E j \in DOMAIN line : j > i /\ IsFind(line[j], line[i].at)
                \/ PassedBoth(line[i].at, memory.copy[line[i].at])
      BY <1>1 DEF Told
    <2>4. PICK task : task = line[i]
      OBVIOUS
    <2>5. Present(task)'
      BY <2>2, <2>3, <2>4 DEF Present
    <2>6. task.step = "save" /\ PassedBoth(task.at, memory.copy[task.at])
             => PassedBoth(task.at, memory.copy[task.at])'
      BY <2>2, <2>4 DEF PassedBoth
    <2> QED BY <2>3, <2>4, <2>5, <2>6 DEF Present
  <1>4. FirstTold(line, memory)'
    BY <1>3 DEF FirstTold, Present, PassedBoth, Passed
  <1> QED BY <1>2, <1>4, TakesTidy

-----------------------------------------------------------------------------
(* Every step leaves the runs told, or to be told.                         *)

\* What a step of p has to show.
TellsOn(p) ==
    /\ LineOK(p)' /\ AbsentAreEmpty'
    /\ \A s \in Schedules :
          /\ tournament = "open" /\ sched'[s].status = "running"
          /\ sched[s].status = "running" => Stands(s) \/ Owed(p, s)
          => Stands(s)' \/ Owed(p, s)'

LEMMA Unmoved ==
    ASSUME UNCHANGED <<sched, entries, match>>
    PROVE  /\ \A s : EntriesOf(s)' = EntriesOf(s)
           /\ \A s : Stands(s) => Stands(s)'
           /\ AbsentAreEmpty => AbsentAreEmpty'
           /\ \A m : Passed(m)' = Passed(m)
  <1>1. \A s : EntriesOf(s)' = EntriesOf(s)
    BY DEF EntriesOf, Positions
  <1>2. /\ \A m : Passed(m)' = Passed(m)
        /\ \A m : LocalVerdict(m, TRUE)' = LocalVerdict(m, TRUE)
    BY DEF Passed, LocalVerdict, Pending
  <1>3. \A m, code, verdict : Tells(m, code, verdict) => Tells(m, code, verdict)'
    BY DEF Tells
  <1>4. ASSUME NEW s, Stands(s)
        PROVE  Stands(s)'
    <2>1. PICK m, code, v : m = sched[s].current /\ code = sched[s].stale /\ v = LocalVerdict(m, TRUE)
      OBVIOUS
    <2>2. m \in EntriesOf(s) /\ ~Passed(m) /\ Tells(m, code, v)
      BY <1>4, <2>1 DEF Stands
    <2>3. (m \in EntriesOf(s))' /\ ~Passed(m)' /\ Tells(m, code, v)' /\ LocalVerdict(m, TRUE)' = v
      BY <1>1, <1>2, <1>3, <2>1, <2>2
    <2>4. sched'[s].current = m /\ sched'[s].stale = code
      BY <2>1
    <2> QED BY <2>3, <2>4 DEF Stands
  <1>5. AbsentAreEmpty => AbsentAreEmpty'
    BY <1>1 DEF AbsentAreEmpty
  <1> QED BY <1>1, <1>2, <1>4, <1>5

\* Rows change that are not absent, and no board does.
LEMMA StillEmpty ==
    ASSUME AbsentAreEmpty, UNCHANGED entries,
           \A s \in Schedules : sched[s].status # "absent" => sched'[s].status # "absent"
    PROVE  AbsentAreEmpty'
  <1>1. \A s : EntriesOf(s)' = EntriesOf(s)
    BY DEF EntriesOf, Positions
  <1> QED BY <1>1 DEF AbsentAreEmpty

\* p was about to recalculate s; whatever else was owed is still on the line.
LEMMA RestOwed ==
    ASSUME LocalOK, NEW p \in Procs, NEW memory, Then(p, memory, <<>>),
           at[p].step # "reconcile", NEW s, EntriesOf(s)' = EntriesOf(s),
           Owed(p, s), ~Due(at[p], s)
    PROVE  Owed(p, s)'
  <1>1. PICK i \in DOMAIN todo[p] : Due(todo[p][i], s)
    BY DEF Owed, At
  <1> QED BY <1>1, OwedContinues

LEMMA ReadTells ==
    ASSUME SerialInv, AbsentAreEmpty, NEW p \in Procs, Tidy(p), Read(p)
    PROVE  TellsOn(p)
  <1>0. PICK s : s = at[p].on
    OBVIOUS
  <1>1. /\ DbTypes /\ LocalOK /\ BoardsTyped /\ s \in Schedules /\ mem[p] \in Memory
        /\ sched \in [Schedules -> Row] /\ at[p].step = "read" /\ sched[s].status # "absent"
        /\ Told(todo[p], mem[p]) /\ UNCHANGED <<tournament, entries>>
    BY <1>0, SerialInvParts, AtTypes DEF Read, At, ScheduleSteps, DbTypes, Tidy, Present
  <1>2. \A t : EntriesOf(t)' = EntriesOf(t)
    BY <1>1 DEF EntriesOf, Positions
  <1>3. CASE sched[s].status \in {"inactive", "completed"} /\ Then(p, mem[p], <<>>)
             /\ UNCHANGED <<sched, match>>
    <2>1. /\ UNCHANGED <<sched, entries, match>>
          /\ \A t \in Schedules : sched[t].status # "absent" => sched'[t].status # "absent"
      BY <1>1, <1>3
    <2>2. \A m \in Matches : PassedBoth(m, mem[p].copy[m]) => Passed(m)'
      BY <2>1, Unmoved DEF PassedBoth
    <2>3. LineOK(p)'
      BY <1>1, <1>3, <2>1, <2>2, TidyContinues DEF LineOK
    <2>4. ASSUME NEW t \in Schedules, sched'[t].status = "running", Stands(t) \/ Owed(p, t)
          PROVE  Stands(t)' \/ Owed(p, t)'
      <3>1. ~Due(at[p], t)
        BY <1>0, <1>1, <1>3, <2>4 DEF Due
      <3> QED BY <1>1, <1>2, <1>3, <2>1, <2>4, <3>1, Unmoved, RestOwed
    <2> QED BY <2>1, <2>3, <2>4, Unmoved DEF TellsOn
  <1>4. CASE /\ ~MayRun /\ Then(p, mem[p], <<>>)
             /\ sched' = [sched EXCEPT ![s] = Stopped(@, "TOURNAMENT_CLOSED")]
             /\ match' = WithActive(CurrentMatch(s), {})
    <2>1. \A t \in Schedules : sched[t].status # "absent" => sched'[t].status # "absent"
      BY <1>1, <1>4 DEF Stopped, Row
    <2>2. \A m \in Matches : PassedBoth(m, mem[p].copy[m]) => Passed(m)'
      BY <1>1, <1>4, WithActiveKeeps DEF PassedBoth
    <2>3. LineOK(p)'
      BY <1>1, <1>4, <2>1, <2>2, TidyContinues DEF LineOK
    <2> QED BY <1>1, <1>4, <2>1, <2>3, StillEmpty DEF TellsOn, MayRun
  <1>5. CASE /\ Directly(p, [mem[p] EXCEPT !.plan = Decision(s)], OnSchedule("settle", s))
             /\ UNCHANGED <<sched, match>>
    <2>1. PICK memory, task : /\ memory = [mem[p] EXCEPT !.plan = Decision(s)]
                              /\ task = OnSchedule("settle", s)
      OBVIOUS
    <2>2. memory.copy = mem[p].copy /\ task.step = "settle" /\ task.on = s
      BY <1>1, <2>1 DEF Memory, OnSchedule, Idle
    <2>3. Directly(p, memory, task)
      BY <1>5, <2>1
    <2>4. at'[p] = task /\ todo'[p] = todo[p] /\ mem'[p] = memory
      BY <1>1, <2>3, DirectlyGoes
    <2>5. UNCHANGED <<sched, entries, match>>
      BY <1>1, <1>5
    <2>6. Tidy(p)'
      <3>1. Told(todo[p], mem[p])'
        BY <1>1, <2>2, <2>4, <2>5 DEF Told, Present, PassedBoth, Passed
      <3> QED BY <2>2, <2>4, <3>1 DEF Tidy, Telling, Present, At
    <2>7. ASSUME NEW t \in Schedules, Stands(t) \/ Owed(p, t)
          PROVE  Stands(t)' \/ Owed(p, t)'
      BY <1>0, <1>1, <1>2, <2>2, <2>4, <2>5, <2>7, Unmoved DEF Owed, Due, At
    <2>8. \A t \in Schedules : sched'[t] = sched[t]
      BY <2>5
    <2> QED BY <2>5, <2>6, <2>7, <2>8, Unmoved DEF TellsOn, LineOK
  <1> QED BY <1>0, <1>1, <1>3, <1>4, <1>5 DEF Read

LEMMA SettleTells ==
    ASSUME SerialInv, ActiveIsCurrent, AbsentAreEmpty, NEW p \in Procs, Tidy(p), Settle(p)
    PROVE  TellsOn(p)
  <1>0. PICK s, memory : s = at[p].on /\ memory = [mem[p] EXCEPT !.plan = Blank.plan]
    OBVIOUS
  <1>1. /\ DbTypes /\ LocalOK /\ BoardsTyped /\ BoardsAreSound /\ mem[p] \in Memory
        /\ at[p].step = "settle" /\ Told(todo[p], mem[p]) /\ UNCHANGED entries
    BY SerialInvParts, AtTypes DEF SerialInv, BoardsInv, Settle, At, Tidy
  <1>2. memory.copy = mem[p].copy
    BY <1>0, <1>1 DEF Memory
  <1>3. /\ Then(p, memory, <<>>)
        /\ \A t \in Schedules \ {s} : sched'[t] = sched[t]
        /\ s \in Schedules /\ sched[s].status = "running" /\ sched'[s].status # "absent"
        /\ \E off, on : match' = WithActive(off, on) /\ off \union on \subseteq EntriesOf(s)
        /\ sched'[s].status = "running" => Stands(s)'
    BY <1>0, SettleStands
  <1>4. PICK off, on : match' = WithActive(off, on) /\ off \union on \subseteq EntriesOf(s)
    BY <1>3
  <1>5. \A t \in Schedules : sched[t].status # "absent" => sched'[t].status # "absent"
    BY <1>3
  <1>6. \A m \in Matches : PassedBoth(m, mem[p].copy[m]) => Passed(m)'
    BY <1>1, <1>4, WithActiveKeeps DEF PassedBoth
  <1>7. LineOK(p)'
    BY <1>1, <1>2, <1>3, <1>5, <1>6, TidyContinues DEF LineOK
  <1>8. ASSUME NEW t \in Schedules \ {s}, Stands(t) \/ Owed(p, t)
        PROVE  Stands(t)' \/ Owed(p, t)'
    <2>1. CASE Stands(t)
      BY <1>1, <1>3, <1>4, <2>1, OthersStand
    <2>2. CASE Owed(p, t)
      <3>1. ~Due(at[p], t) /\ EntriesOf(t)' = EntriesOf(t)
        BY <1>0, <1>1 DEF Due, EntriesOf, Positions
      <3> QED BY <1>1, <1>3, <2>2, <3>1, RestOwed
    <2> QED BY <1>8, <2>1, <2>2
  <1>9. AbsentAreEmpty'
    BY <1>1, <1>5, StillEmpty
  <1> QED BY <1>3, <1>7, <1>8, <1>9 DEF TellsOn

LEMMA FindTells ==
    ASSUME SerialInv, AbsentAreEmpty, NEW p \in Procs, Tidy(p), FindSchedule(p)
    PROVE  TellsOn(p)
  <1>0. PICK m : m = at[p].at
    OBVIOUS
  <1>1. /\ LocalOK /\ BoardsAreSound /\ at[p].step = "findSchedule" /\ Told(todo[p], mem[p])
        /\ UNCHANGED <<sched, entries, match>>
    BY SerialInvParts DEF SerialInv, BoardsInv, FindSchedule, At, Tidy, db
  <1>2. /\ \A t : EntriesOf(t)' = EntriesOf(t)
        /\ \A t \in Schedules : Stands(t) => Stands(t)'
        /\ \A t \in Schedules : sched'[t] = sched[t]
        /\ AbsentAreEmpty'
    BY <1>1, Unmoved
  <1>3. ASSUME NEW s \in Schedules, m \in EntriesOf(s), Then(p, mem[p], <<OnSchedule("read", s)>>)
        PROVE  TellsOn(p)
    <2>1. PICK task : task = OnSchedule("read", s)
      OBVIOUS
    <2>2. task.step = "read" /\ task.on = s /\ task \in Queued
      BY <2>1, TaskTypes DEF OnSchedule, Idle
    <2>3. at'[p] = task /\ todo'[p] = todo[p] /\ mem'[p] = mem[p]
      BY <1>1, <1>3, <2>1, <2>2, ThenFirst
    <2>4. sched'[s].status # "absent"
      BY <1>2, <1>3 DEF AbsentAreEmpty
    <2>5. Told(todo[p], mem[p])'
      BY <1>1, <2>3 DEF Told, Present, PassedBoth, Passed
    <2>6. Tidy(p)'
      BY <2>2, <2>3, <2>4, <2>5 DEF Tidy, Telling, Present, At
    <2>7. ASSUME NEW t \in Schedules, Owed(p, t)
          PROVE  Owed(p, t)'
      <3>1. Due(at[p], t) => t = s
        BY <1>0, <1>1, <1>3 DEF Due, BoardsAreSound
      <3> QED BY <1>1, <1>2, <2>2, <2>3, <2>7, <3>1 DEF Owed, Due, At
    <2> QED BY <1>2, <2>6, <2>7 DEF TellsOn, LineOK
  <1>4. CASE (\A s \in Schedules : m \notin EntriesOf(s)) /\ Then(p, mem[p], <<>>)
    <2>1. \A t \in Schedules : sched[t].status # "absent" => sched'[t].status # "absent"
      BY <1>2
    <2>2. \A o \in Matches : PassedBoth(o, mem[p].copy[o]) => Passed(o)'
      BY <1>1, Unmoved DEF PassedBoth
    <2>3. LineOK(p)'
      BY <1>1, <1>4, <2>1, <2>2, TidyContinues DEF LineOK
    <2>4. ASSUME NEW t \in Schedules, Owed(p, t)
          PROVE  Owed(p, t)'
      <3>1. ~Due(at[p], t)
        BY <1>0, <1>1, <1>4 DEF Due
      <3> QED BY <1>1, <1>2, <1>4, <2>4, <3>1, RestOwed
    <2> QED BY <1>2, <2>3, <2>4 DEF TellsOn
  <1> QED BY <1>0, <1>3, <1>4 DEF FindSchedule

LEMMA SaveTellsOn ==
    ASSUME SerialInv, AbsentAreEmpty, NEW p \in Procs, Tidy(p), Save(p)
    PROVE  TellsOn(p)
  <1>0. PICK m, c : m = at[p].at /\ c = mem[p].copy[m]
    OBVIOUS
  <1>1. /\ DbTypes /\ LocalOK /\ BoardsTyped /\ at[p].step = "save" /\ m \in Matches
        /\ Told(todo[p], mem[p]) /\ UNCHANGED <<sched, entries>> /\ SaveTells(p)
        /\ Then(p, mem[p], <<>>) /\ match' = [match EXCEPT ![m] = c]
    BY <1>0, SerialInvParts, AtTypes DEF Save, At, Tidy, MatchSteps
  <1>2. match'[m] = c /\ \A o \in Matches \ {m} : match'[o] = match[o]
    BY <1>1 DEF DbTypes
  <1>3. \A t : EntriesOf(t)' = EntriesOf(t)
    BY <1>1 DEF EntriesOf, Positions
  <1>4. \A t \in Schedules : sched[t].status # "absent" => sched'[t].status # "absent"
    BY <1>1
  <1>5. \A o \in Matches : PassedBoth(o, mem[p].copy[o]) => Passed(o)'
    BY <1>0, <1>2 DEF PassedBoth, Passed
  <1>6. LineOK(p)'
    BY <1>1, <1>4, <1>5, TidyContinues DEF LineOK
  <1>7. ASSUME NEW t \in Schedules, Stands(t)
        PROVE  Stands(t)' \/ Owed(p, t)'
    <2>1. PICK o : o = sched[t].current
      OBVIOUS
    <2>2. o \in EntriesOf(t) /\ o \in Matches /\ ~Passed(o)
      BY <1>1, <1>7, <2>1, WalkTypes DEF Stands
    <2>3. CASE match'[o] = match[o]
      BY <1>1, <1>7, <2>1, <2>3, StandsKept
    <2>4. CASE \E j \in DOMAIN todo[p] : IsFind(todo[p][j], m) /\ o = m
      <3>1. PICK j \in DOMAIN todo[p] : IsFind(todo[p][j], m) /\ o = m
        BY <2>4
      <3>2. Due(todo[p][j], t)
        BY <2>2, <3>1 DEF Due, IsFind
      <3> QED BY <1>1, <1>3, <3>1, <3>2, OwedContinues
    <2> QED BY <1>0, <1>1, <1>2, <2>2, <2>3, <2>4 DEF SaveTells, PassedBoth
  <1>8. ASSUME NEW t \in Schedules, Owed(p, t)
        PROVE  Owed(p, t)'
    <2>1. ~Due(at[p], t)
      BY <1>1 DEF Due
    <2> QED BY <1>1, <1>3, <1>8, <2>1, RestOwed
  <1>9. AbsentAreEmpty'
    BY <1>1, <1>4, StillEmpty
  <1> QED BY <1>1, <1>6, <1>7, <1>8, <1>9 DEF TellsOn

\* A seat is filled or vacated: the target is saved, and found again.
LEMMA SeatTells ==
    ASSUME SerialInv, AbsentAreEmpty, NEW p \in Procs, CopiesAreQuiet(p), Tidy(p), Seat(p)
    PROVE  TellsOn(p)
  <1>0. PICK m, c, q : m = at[p].at /\ c = match[m] /\ q = at[p].who
    OBVIOUS
  <1>1. /\ DbTypes /\ LocalOK /\ m \in Matches /\ c \in MatchRow /\ q \in Players
        /\ mem[p] \in Memory /\ at[p].step \in Seats /\ Told(todo[p], mem[p])
        /\ UNCHANGED <<sched, entries, match>>
    BY <1>0, SerialInvParts, AtTypes DEF Seat, At, MatchSteps, DbTypes, Seats, Tidy, db
  <1>2. /\ \A t : EntriesOf(t)' = EntriesOf(t)
        /\ \A t \in Schedules : Stands(t) => Stands(t)'
        /\ \A t \in Schedules : sched'[t] = sched[t]
        /\ AbsentAreEmpty'
        /\ \A o : Passed(o)' = Passed(o)
    BY <1>1, Unmoved
  <1>3. \A t : ~Due(at[p], t) /\ at[p].step # "reconcile"
    BY <1>1 DEF Due, Seats
  <1>4. CASE Then(p, mem[p], <<>>)
    <2>1. \A t \in Schedules : sched[t].status # "absent" => sched'[t].status # "absent"
      BY <1>2
    <2>2. LineOK(p)'
      BY <1>1, <1>2, <1>4, <2>1, TidyContinues DEF LineOK, PassedBoth
    <2>3. \A t \in Schedules : Owed(p, t) => Owed(p, t)'
      BY <1>1, <1>2, <1>3, <1>4, RestOwed
    <2> QED BY <1>2, <2>2, <2>3 DEF TellsOn
  <1>5. ASSUME NEW after, NEW more, more = <<AtMatch("save", m), AtMatch("findSchedule", m)>>,
               NEW memory, memory = [mem[p] EXCEPT !.copy[m] = after], Then(p, memory, more)
        PROVE  TellsOn(p)
    <2>1. \A o : o # m => memory.copy[o] = mem[p].copy[o]
      BY <1>1, <1>5 DEF Memory
    <2>2. /\ more \in Seq(Queued) /\ Len(more) = 2
          /\ more[1].step = "save" /\ more[1].at = m
          /\ more[2].step = "findSchedule" /\ more[2].at = m
      <3>1. PICK save, find : save = AtMatch("save", m) /\ find = AtMatch("findSchedule", m)
        OBVIOUS
      <3>2. /\ save \in Queued /\ save.step = "save" /\ save.at = m
            /\ find \in Queued /\ find.step = "findSchedule" /\ find.at = m
        BY <1>1, <3>1, TaskTypes DEF AtMatch, Idle
      <3>3. more = <<save, find>>
        BY <1>5, <3>1
      <3> QED BY <3>2, <3>3
    <2>3. PICK line, rest : line = more \o todo[p] /\ rest = todo[p]
      OBVIOUS
    <2>4. TakesFirst(p, line, memory)
      BY <1>1, <1>5, <2>2, <2>3, ThenTakes
    <2>5. rest \in Seq(Queued) /\ Len(rest) \in Nat /\ DOMAIN rest = 1..Len(rest)
      BY <1>1, <2>3, LenProperties DEF LocalOK, LocalTypes
    <2>6. /\ DOMAIN line = 1..Len(line) /\ Len(line) = 2 + Len(rest)
          /\ \A i \in DOMAIN line : line[i] = IF i <= 2 THEN more[i] ELSE rest[i - 2]
      <3>1. /\ more \o rest \in Seq(Queued) /\ Len(more \o rest) = Len(more) + Len(rest)
            /\ \A i \in 1..(Len(more) + Len(rest)) :
                  (more \o rest)[i] = IF i <= Len(more) THEN more[i] ELSE rest[i - Len(more)]
        BY <2>2, <2>5, ConcatProperties
      <3>2. line \in Seq(Queued) /\ line = more \o rest /\ Len(more) = 2
        BY <2>2, <2>3, <3>1
      <3>3. DOMAIN line = 1..Len(line)
        BY <3>2, LenProperties
      <3> QED BY <3>1, <3>2, <3>3
    <2>7. \A k \in DOMAIN rest : k \in Nat /\ k + 2 \in DOMAIN line /\ line[k + 2] = rest[k]
      <3> TAKE k \in DOMAIN rest
      <3>1. k + 2 \in DOMAIN line /\ k \in Nat /\ ~(k + 2 <= 2) /\ (k + 2) - 2 = k
        BY <2>5, <2>6
      <3> QED BY <2>6, <3>1
    <2>8. 2 \in DOMAIN line /\ line[1] = more[1] /\ line[2] = more[2]
      BY <2>5, <2>6
    <2>9. ASSUME NEW i \in DOMAIN line, i # 1, i # 2
          PROVE  \E k \in DOMAIN rest : i = k + 2 /\ line[i] = rest[k]
      <3>1. PICK k : k = i - 2
        OBVIOUS
      <3>2. k \in DOMAIN rest /\ i = k + 2
        BY <2>5, <2>6, <2>9, <3>1
      <3> QED BY <2>7, <3>2
    <2>10. ASSUME NEW i \in DOMAIN line
           PROVE  /\ line[i].step \in Telling \ {"settle"} /\ Present(line[i])'
                  /\ line[i].step = "save" =>
                       \/ \E j \in DOMAIN line : j > i /\ IsFind(line[j], line[i].at)
                       \/ PassedBoth(line[i].at, memory.copy[line[i].at])'
      <3>1. CASE i = 1
        BY <2>2, <2>8, <3>1 DEF Telling, Present, IsFind
      <3>2. CASE i = 2
        BY <2>2, <2>8, <3>2 DEF Telling, Present
      <3>3. CASE i # 1 /\ i # 2
        <4>1. PICK k \in DOMAIN rest : i = k + 2 /\ line[i] = rest[k]
          BY <2>9, <3>3
        <4>2. PICK task : task = rest[k]
          OBVIOUS
        <4>3. /\ task.step \in Telling \ {"settle"} /\ Present(task)
              /\ task.step = "save" =>
                   \/ \E j \in DOMAIN rest : j > k /\ IsFind(rest[j], task.at)
                   \/ PassedBoth(task.at, mem[p].copy[task.at])
          BY <1>1, <2>3, <4>2 DEF Told
        <4>4. task.step = "save" => task.at # m
          BY <1>0, <1>1, <2>3, <4>2 DEF CopiesAreQuiet
        <4>5. ASSUME NEW j \in DOMAIN rest, j > k, IsFind(rest[j], task.at)
              PROVE  \E l \in DOMAIN line : l > i /\ IsFind(line[l], task.at)
          <5>1. j + 2 \in DOMAIN line /\ line[j + 2] = rest[j] /\ j \in Nat /\ k \in Nat
            BY <2>7
          <5>2. j + 2 > i
            BY <4>1, <4>5, <5>1
          <5> QED BY <4>5, <5>1, <5>2
        <4>6. Present(task)'
          BY <1>1, <4>3 DEF Present
        <4>7. task.step = "save" /\ PassedBoth(task.at, mem[p].copy[task.at])
                 => PassedBoth(task.at, memory.copy[task.at])'
          BY <1>2, <2>1, <4>4 DEF PassedBoth
        <4> QED BY <4>1, <4>2, <4>3, <4>5, <4>6, <4>7 DEF Present
      <3> QED BY <3>1, <3>2, <3>3
    <2>11. FirstTold(line, memory)'
      BY <2>10 DEF FirstTold, Present, PassedBoth, Passed
    <2>12. LineOK(p)'
      BY <2>4, <2>11, TakesTidy DEF LineOK
    <2>13. ASSUME NEW t \in Schedules, Owed(p, t)
           PROVE  Owed(p, t)'
      <3>1. PICK k \in DOMAIN rest : Due(rest[k], t)
        BY <1>3, <2>3, <2>13 DEF Owed, At
      <3>2. PICK i : i = k + 2
        OBVIOUS
      <3>3. i \in DOMAIN line /\ line[i] = rest[k]
        BY <2>7, <3>2
      <3>4. Due(line[i], t)'
        BY <1>2, <3>1, <3>3 DEF Due
      <3> QED BY <2>4, <3>3, <3>4, TakesOwed
    <2> QED BY <1>2, <2>12, <2>13 DEF TellsOn
  <1> QED BY <1>0, <1>4, <1>5 DEF Seat

LEMMA TidyTells ==
    ASSUME SerialInv, ActiveIsCurrent, AbsentAreEmpty, NEW p \in Procs, CopiesAreQuiet(p),
           Tidy(p), Step(p)
    PROVE  TellsOn(p)
  <1>1. at[p].step \in {"read", "settle", "findSchedule", "save"} \union Seats
    BY DEF Tidy, Telling
  <1> QED BY <1>1, StepAt, ReadTells, SettleTells, FindTells, SaveTellsOn, SeatTells DEF At

\* A start takes the matches of its schedule back before it recalculates.
LEMMA ToReadTells ==
    ASSUME SerialInv, AbsentAreEmpty, NEW p \in Procs, ToRead(p), Step(p)
    PROVE  TellsOn(p)
  <1>0. PICK s, task : s = at[p].on /\ task = OnSchedule("read", s)
    OBVIOUS
  <1>1. /\ DbTypes /\ LocalOK /\ BoardsTyped /\ BoardsAreSound /\ s \in Schedules
        /\ at[p].step = "deactivateEvery" /\ DeactivateEvery(p)
    BY <1>0, SerialInvParts, AtTypes, StepAt DEF SerialInv, BoardsInv, ToRead, At, ScheduleSteps
  <1>2. /\ task.step = "read" /\ task.on = s /\ todo[p] = <<task>>
        /\ sched[s].status # "absent" /\ UNCHANGED <<sched, entries>>
        /\ match' = WithActive(EntriesOf(s), {}) /\ Then(p, mem[p], <<>>)
    BY <1>0, <1>1 DEF ToRead, DeactivateEvery, OnSchedule, Idle
  <1>3. TakesFirst(p, <<task>>, mem[p])
    BY <1>1, <1>2, ThenContinues
  <1>4. at'[p] = task /\ todo'[p] = <<>>
    BY <1>3 DEF TakesFirst
  <1>5. Tidy(p)'
    BY <1>2, <1>4 DEF Tidy, Telling, Told, Present, At
  <1>6. Owed(p, s)'
    BY <1>2, <1>4 DEF Owed, Due
  <1>7. ASSUME NEW t \in Schedules \ {s}, Stands(t) \/ Owed(p, t)
        PROVE  Stands(t)'
    <2>1. ~Owed(p, t)
      BY <1>0, <1>1, <1>2 DEF Owed, Due, At
    <2>2. EntriesOf(s) \union {} \subseteq EntriesOf(s)
      OBVIOUS
    <2> QED BY <1>1, <1>2, <1>7, <2>1, <2>2, OthersStand
  <1>8. AbsentAreEmpty'
    BY <1>2, StillEmpty
  <1> QED BY <1>2, <1>5, <1>6, <1>7, <1>8 DEF TellsOn, LineOK

\* A row is saved: only a start makes it run, and recalculates it.
LEMMA SavingTells ==
    ASSUME SerialInv, AbsentAreEmpty, NEW p \in Procs, Saving(p), Step(p)
    PROVE  TellsOn(p)
  <1>0. PICK s, first, second : /\ s = at[p].on /\ first = OnSchedule("deactivateEvery", s)
                                /\ second = OnSchedule("read", s)
    OBVIOUS
  <1>1. /\ DbTypes /\ LocalOK /\ BoardsTyped /\ BoardsAreSound /\ s \in Schedules
        /\ mem[p] \in Memory /\ sched \in [Schedules -> Row]
        /\ at[p].step \in {"diffRow", "writeRow"} /\ sched[s].status # "running"
        /\ DiffRow(p) \/ WriteRow(p)
    <2>1. HaltedWhileEdited(p)
      BY DEF SerialInv
    <2> QED BY <1>0, <2>1, SerialInvParts, AtTypes, StepAt
            DEF SerialInv, BoardsInv, Saving, At, ScheduleSteps, DbTypes, HaltedWhileEdited
  <1>2. /\ first.step = "deactivateEvery" /\ first.on = s
        /\ second.step = "read" /\ second.on = s
        /\ mem[p].row.status # "absent"
        /\ todo[p] = <<first, second>> \/ (todo[p] = <<>> /\ mem[p].row.status # "running")
    BY <1>0 DEF Saving, OnSchedule, Idle
  <1>3. \A t \in Schedules \ {s} : ~Owed(p, t)
    BY <1>0, <1>1, <1>2 DEF Owed, Due, At
  <1>4. CASE DiffRow(p)
    <2>1. /\ at'[p].step = "writeRow" /\ at'[p].on = s /\ todo'[p] = todo[p]
          /\ mem'[p].row = mem[p].row /\ UNCHANGED db
      <3>1. PICK delta, memory, task :
               /\ memory = [mem[p] EXCEPT !.delta = delta] /\ task = OnSchedule("writeRow", s)
               /\ Directly(p, memory, task) /\ UNCHANGED db
        BY <1>0, <1>4 DEF DiffRow
      <3>2. memory.row = mem[p].row /\ task.step = "writeRow" /\ task.on = s
        BY <1>1, <3>1 DEF Memory, OnSchedule, Idle
      <3>3. at'[p] = task /\ todo'[p] = todo[p] /\ mem'[p] = memory
        BY <1>1, <3>1, DirectlyGoes
      <3> QED BY <3>1, <3>2, <3>3
    <2>2. UNCHANGED <<sched, entries, match>>
      BY <2>1 DEF db
    <2>3. Saving(p)'
      BY <1>0, <1>2, <2>1 DEF Saving
    <2>4. \A t \in Schedules : sched'[t] = sched[t]
      BY <2>2
    <2> QED BY <1>1, <1>3, <2>2, <2>3, <2>4, Unmoved DEF TellsOn, LineOK
  <1>5. CASE WriteRow(p)
    <2>1. PICK row : row = Merged(sched[s], mem[p].row, mem[p].delta)
      OBVIOUS
    <2>2. PICK memory : memory = [mem[p] EXCEPT !.row = NoRow, !.delta = {}]
      OBVIOUS
    <2>3. /\ UNCHANGED <<entries, match>>
          /\ \/ /\ sched[s].status # "absent" /\ sched' = [sched EXCEPT ![s] = row]
                /\ Then(p, memory, <<>>)
             \/ Finish(p) /\ UNCHANGED sched
      BY <1>0, <1>5, <2>1, <2>2 DEF WriteRow
    <2>4. row.status \in {sched[s].status, mem[p].row.status}
      BY <2>1 DEF Merged
    <2>5. ASSUME NEW t \in Schedules \ {s}
          PROVE  sched'[t] = sched[t] /\ (Stands(t) => Stands(t)')
      <3>1. sched'[t] = sched[t]
        BY <1>1, <2>3
      <3>2. PICK m : m = sched[t].current
        OBVIOUS
      <3> QED BY <1>1, <2>3, <3>1, <3>2, StandsKept
    <2>6. \A t \in Schedules : sched[t].status # "absent" => sched'[t].status # "absent"
      BY <1>1, <1>2, <2>3, <2>4
    <2>7. AbsentAreEmpty'
      BY <2>3, <2>6, StillEmpty
    <2>8. CASE Finish(p) /\ UNCHANGED sched
      <3>1. Resting(p)'
        BY <1>1, <2>8 DEF Finish, Resting, LocalOK, LocalTypes
      <3>2. sched'[s].status # "running"
        BY <1>1, <2>8
      <3> QED BY <1>3, <2>5, <2>7, <3>1, <3>2 DEF TellsOn, LineOK
    <2>9. CASE /\ sched[s].status # "absent" /\ sched' = [sched EXCEPT ![s] = row]
               /\ Then(p, memory, <<>>)
      <3>1. sched'[s] = row
        BY <1>1, <2>9
      <3>2. CASE todo[p] = <<>> /\ mem[p].row.status # "running"
        <4>1. Resting(p)'
          BY <1>1, <2>9, <3>2, ThenContinues DEF TakesFirst
        <4>2. sched'[s].status # "running"
          BY <1>1, <2>4, <3>1, <3>2
        <4> QED BY <1>3, <2>5, <2>7, <4>1, <4>2 DEF TellsOn, LineOK
      <3>3. CASE todo[p] = <<first, second>>
        <4>1. PICK line : line = <<first, second>>
          OBVIOUS
        <4>2. TakesFirst(p, line, memory)
          BY <1>1, <2>9, <3>3, <4>1, ThenContinues
        <4>3. Len(line) = 2 /\ line[1] = first /\ line[2] = second /\ DOMAIN line = {1, 2}
          BY <4>1
        <4>4. at'[p] = first /\ DOMAIN todo'[p] = 1..1 /\ Len(todo'[p]) = 1 /\ todo'[p][1] = second
          BY <4>2, <4>3 DEF TakesFirst
        <4>5. todo'[p] = <<second>>
          <5>1. todo'[p] \in Seq(Queued)
            BY <1>1, <1>5, RowSavesTypes DEF MovesOn, LocalOK, LocalTypes
          <5>2. second \in Queued
            BY <1>0, <1>1, TaskTypes DEF OnSchedule, Idle
          <5>3. <<second>> \in Seq(Queued) /\ Len(<<second>>) = 1 /\ <<second>>[1] = second
            BY <5>2
          <5> QED BY <4>4, <5>1, <5>3, SeqEqual
        <4>6. ToRead(p)'
          <5>1. sched'[s].status # "absent"
            BY <1>1, <2>6, <2>9
          <5>2. at'[p].step = "deactivateEvery" /\ at'[p].on = s
            BY <1>2, <4>4
          <5> QED BY <1>0, <4>5, <5>1, <5>2 DEF ToRead, At
        <4>7. Owed(p, s)'
          BY <1>2, <4>4 DEF Owed, Due
        <4> QED BY <1>3, <2>5, <2>7, <4>6, <4>7 DEF TellsOn, LineOK
      <3> QED BY <1>2, <3>2, <3>3
    <2> QED BY <2>3, <2>8, <2>9
  <1> QED BY <1>1, <1>4, <1>5

\* What is not about a schedule.
LEMMA NothingOwed ==
    ASSUME NEW p \in Procs, at[p].step \notin {"read", "settle", "findSchedule", "reconcile"},
           \A i \in DOMAIN todo[p] : todo[p][i].step \notin {"read", "settle", "findSchedule"}
    PROVE  \A s : ~Owed(p, s)
  BY DEF Owed, Due, At

\* A schedule is removed, or given other entries: it does not run.
LEMMA RemovingTells ==
    ASSUME SerialInv, AbsentAreEmpty, NEW p \in Procs, Removing(p), Step(p)
    PROVE  TellsOn(p)
  <1>0. PICK s : s = at[p].on
    OBVIOUS
  <1>1. /\ DbTypes /\ LocalOK /\ BoardsTyped /\ s \in Schedules /\ mem[p] \in Memory
        /\ sched \in [Schedules -> Row] /\ entries \in [Schedules -> Seq(Matches \union {NoMatch})]
        /\ at[p].step \in {"removeRow", "rewrite"} /\ todo[p] = <<>>
        /\ RemoveRow(p) \/ (Rewrite(p) /\ sched[s].status # "absent")
    BY <1>0, SerialInvParts, AtTypes, StepAt DEF Removing, At, ScheduleSteps, DbTypes
  <1>2. \A t : ~Owed(p, t)
    BY <1>1, NothingOwed
  <1>3. ASSUME NEW memory, Then(p, memory, <<>>) \/ Finish(p)
        PROVE  LineOK(p)'
    <2>1. CASE Then(p, memory, <<>>)
      BY <1>1, <2>1, ThenContinues DEF TakesFirst, LineOK
    <2>2. CASE Finish(p)
      BY <1>1, <2>2 DEF Finish, Resting, LineOK, LocalOK, LocalTypes
    <2> QED BY <1>3, <2>1, <2>2
  <1>4. ASSUME UNCHANGED match, AbsentAreEmpty',
               \A t \in Schedules : sched'[t].status = "running" =>
                  /\ sched[t].status = "running"
                  /\ sched'[t] = sched[t] /\ entries'[t] = entries[t]
        PROVE  \A t \in Schedules : sched'[t].status = "running"
                  => sched[t].status = "running" /\ (Stands(t) => Stands(t)')
    <2> SUFFICES ASSUME NEW t \in Schedules, sched'[t].status = "running", Stands(t)
                 PROVE  Stands(t)'
      BY <1>4
    <2>1. PICK m : m = sched[t].current
      OBVIOUS
    <2> QED BY <1>1, <1>4, <2>1, StandsKept
  <1>5. CASE RemoveRow(p)
    <2>1. /\ sched' = [sched EXCEPT ![s] = NoRow] /\ entries' = [entries EXCEPT ![s] = <<>>]
          /\ UNCHANGED match /\ Then(p, mem[p], <<>>)
      BY <1>0, <1>5 DEF RemoveRow
    <2>2. /\ sched'[s].status = "absent" /\ entries'[s] = <<>>
          /\ \A t \in Schedules \ {s} : sched'[t] = sched[t] /\ entries'[t] = entries[t]
      BY <1>1, <2>1 DEF NoRow
    <2>3. EntriesOf(s)' = {} /\ \A t \in Schedules \ {s} : EntriesOf(t)' = EntriesOf(t)
      BY <2>2 DEF EntriesOf, Positions
    <2>4. AbsentAreEmpty'
      BY <2>2, <2>3 DEF AbsentAreEmpty
    <2>5. \A t \in Schedules : sched'[t].status = "running" =>
             /\ sched[t].status = "running"
             /\ sched'[t] = sched[t] /\ entries'[t] = entries[t]
      BY <2>2
    <2>6. LineOK(p)'
      BY <1>3, <2>1
    <2> QED BY <1>2, <1>4, <2>1, <2>4, <2>5, <2>6 DEF TellsOn
  <1>6. CASE Rewrite(p) /\ sched[s].status # "absent"
    <2>1. PICK from, chosen : from = mem[p].from /\ chosen = ToSet(mem[p].order)
      OBVIOUS
    <2>2. /\ \A t \in from \union {s} : sched[t].status # "running"
          /\ from \subseteq Schedules /\ Robbed(from, chosen) \subseteq from
      BY <1>0, <1>1, <1>6, <2>1 DEF SerialInv, HaltedWhileEdited, Rewrite, At, Memory, Robbed
    <2>3. UNCHANGED match /\ (\E memory : Then(p, memory, <<>>) \/ Finish(p))
      BY <1>6 DEF Rewrite
    <2>4. LineOK(p)'
      BY <1>3, <2>3
    <2>5. CASE UNCHANGED <<sched, entries>>
      <3>1. AbsentAreEmpty' /\ \A t \in Schedules : sched'[t] = sched[t] /\ entries'[t] = entries[t]
        BY <2>3, <2>5, Unmoved
      <3> QED BY <1>2, <1>4, <2>3, <2>4, <3>1 DEF TellsOn
    <2>6. CASE /\ entries' = [t \in Schedules |->
                     IF t = s THEN mem[p].order
                     ELSE IF t \in from
                     THEN [i \in DOMAIN entries[t] |->
                             IF entries[t][i] \in chosen THEN NoMatch ELSE entries[t][i]]
                     ELSE entries[t]]
               /\ sched' = [t \in Schedules |->
                     IF t \in Robbed(from, chosen) \union {s}
                     THEN [sched[t] EXCEPT !.current = NoMatch] ELSE sched[t]]
      <3>1. \A t \in Schedules : sched'[t].status = sched[t].status
        BY <1>1, <2>6 DEF Row
      <3>2. ASSUME NEW t \in Schedules, sched'[t].status = "running"
            PROVE  /\ sched[t].status = "running"
                   /\ sched'[t] = sched[t] /\ entries'[t] = entries[t]
        <4>1. t \notin from \union {s} /\ t \notin Robbed(from, chosen) \union {s}
          BY <2>2, <3>1, <3>2
        <4> QED BY <2>6, <3>1, <3>2, <4>1
      <3>3. ASSUME NEW t \in Schedules, sched'[t].status = "absent"
            PROVE  EntriesOf(t)' = {}
        <4>1. t # s /\ EntriesOf(t) = {}
          BY <1>6, <3>1, <3>3 DEF AbsentAreEmpty
        <4>2. \A i \in DOMAIN entries[t] : entries[t][i] = NoMatch
          BY <4>1 DEF EntriesOf, Positions
        <4>3. \A i \in DOMAIN entries'[t] : entries'[t][i] = NoMatch
          BY <2>6, <4>1, <4>2
        <4> QED BY <4>3 DEF EntriesOf, Positions
      <3>4. AbsentAreEmpty'
        BY <3>3 DEF AbsentAreEmpty
      <3> QED BY <1>2, <1>4, <2>3, <2>4, <3>2, <3>4 DEF TellsOn
    <2>7. \/ UNCHANGED <<sched, entries>>
          \/ /\ entries' = [t \in Schedules |->
                     IF t = s THEN mem[p].order
                     ELSE IF t \in from
                     THEN [i \in DOMAIN entries[t] |->
                             IF entries[t][i] \in chosen THEN NoMatch ELSE entries[t][i]]
                     ELSE entries[t]]
             /\ sched' = [t \in Schedules |->
                     IF t \in Robbed(from, chosen) \union {s}
                     THEN [sched[t] EXCEPT !.current = NoMatch] ELSE sched[t]]
      BY <1>0, <1>6, <2>1 DEF Rewrite
    <2> QED BY <2>5, <2>6, <2>7
  <1> QED BY <1>1, <1>5, <1>6

\* A stopped schedule takes its current match off the air, and no other.
LEMMA StopTells ==
    ASSUME SerialInv, AbsentAreEmpty, NEW p \in Procs, Stop(p)
    PROVE  /\ AbsentAreEmpty'
           /\ \A t \in Schedules : sched'[t].status = "running" =>
                 sched[t].status = "running" /\ (Stands(t) => Stands(t)')
           /\ \A t : EntriesOf(t)' = EntriesOf(t)
           /\ Finish(p) \/ (match' = WithActive(CurrentMatch(at[p].on), {}) /\ Then(p, mem[p], <<>>))
  <1>0. PICK s, code : s = at[p].on /\ code = at[p].code
    OBVIOUS
  <1>1. /\ DbTypes /\ LocalOK /\ BoardsTyped /\ BoardsAreSound /\ s \in Schedules
        /\ sched \in [Schedules -> Row] /\ UNCHANGED entries
    BY <1>0, SerialInvParts, AtTypes DEF SerialInv, BoardsInv, Stop, At, ScheduleSteps, DbTypes
  <1>2. \A t : EntriesOf(t)' = EntriesOf(t)
    BY <1>1 DEF EntriesOf, Positions
  <1>3. CASE Finish(p) /\ UNCHANGED <<sched, match>>
    <2>1. \A t \in Schedules : sched'[t] = sched[t]
      BY <1>3
    <2> QED BY <1>1, <1>2, <1>3, <2>1, Unmoved
  <1>4. CASE /\ sched' = [sched EXCEPT ![s] = Stopped(@, code)]
             /\ match' = WithActive(CurrentMatch(s), {}) /\ Then(p, mem[p], <<>>)
    <2>1. /\ sched'[s].status = "inactive"
          /\ \A t \in Schedules \ {s} : sched'[t] = sched[t]
      <3>1. sched'[s] = Stopped(sched[s], code) /\ \A t \in Schedules \ {s} : sched'[t] = sched[t]
        BY <1>1, <1>4
      <3>2. Stopped(sched[s], code).status = "inactive"
        BY <1>1 DEF Stopped, Row
      <3> QED BY <3>1, <3>2
    <2>2. CurrentMatch(s) \union {} \subseteq EntriesOf(s)
      BY DEF CurrentMatch
    <2>3. \A t \in Schedules \ {s} : Stands(t) => Stands(t)'
      BY <1>1, <1>4, <2>1, <2>2, OthersStand
    <2>4. AbsentAreEmpty'
      <3>1. \A t \in Schedules : sched[t].status # "absent" => sched'[t].status # "absent"
        BY <2>1
      <3> QED BY <1>1, <3>1, StillEmpty
    <2> QED BY <1>0, <1>2, <1>4, <2>1, <2>3, <2>4
  <1> QED BY <1>0, <1>3, <1>4 DEF Stop

LEMMA OnlyStopsTells ==
    ASSUME SerialInv, AbsentAreEmpty, NEW p \in Procs, OnlyStops(p), Step(p)
    PROVE  TellsOn(p)
  <1>1. LocalOK /\ Stop(p) /\ at[p].step = "stop" /\ \A i \in DOMAIN todo[p] : todo[p][i].step = "stop"
    BY SerialInvParts, StepAt DEF OnlyStops, At
  <1>2. \A s : ~Owed(p, s)
    BY <1>1, NothingOwed
  <1>3. /\ AbsentAreEmpty'
        /\ \A t \in Schedules : sched'[t].status = "running" =>
              sched[t].status = "running" /\ (Stands(t) => Stands(t)')
        /\ Finish(p) \/ Then(p, mem[p], <<>>)
    BY <1>1, StopTells
  <1>4. LineOK(p)'
    <2>1. CASE Finish(p)
      BY <1>1, <2>1 DEF Finish, Resting, LineOK, LocalOK, LocalTypes
    <2>2. CASE Then(p, mem[p], <<>>)
      <3>1. TakesFirst(p, todo[p], mem[p])
        BY <1>1, <2>2, ThenContinues
      <3> QED BY <1>1, <3>1 DEF TakesFirst, LineOK, OnlyStops, At
    <2> QED BY <1>3, <2>1, <2>2
  <1> QED BY <1>2, <1>3, <1>4 DEF TellsOn

\* The stops of a close are queued, and the recalculations of a bootstrap.
LEMMA ListingTells ==
    ASSUME SerialInv, AbsentAreEmpty, NEW p \in Procs, Listing(p), Step(p)
    PROVE  TellsOn(p)
  <1>1. /\ todo[p] = <<>> /\ at[p].step \in {"listRunning", "reconcile"}
        /\ At(p, "listRunning") => ListRunning(p)
        /\ At(p, "reconcile") => Reconcile(p)
        /\ ListRunning(p) \/ Reconcile(p)
    BY StepAt DEF Listing, At
  <1>2. UNCHANGED <<sched, entries, match>>
    BY <1>1 DEF ListRunning, Reconcile, db
  <1>3. /\ \A t : EntriesOf(t)' = EntriesOf(t)
        /\ \A t \in Schedules : Stands(t) => Stands(t)'
        /\ \A t \in Schedules : sched'[t] = sched[t]
        /\ AbsentAreEmpty'
    BY <1>2, Unmoved
  <1>4. /\ ListRunning(p) => (Resting(p) \/ Stopping(p))'
        /\ Reconcile(p) => (Resting(p) \/ Reading(p))'
        /\ \A s \in RunningSchedules' : WillHalt(p, s)'
    BY <1>1, ListClosed
  <1>5. CASE At(p, "listRunning")
    <2>1. LineOK(p)'
      BY <1>1, <1>4, <1>5 DEF LineOK, OnlyStops, Stopping
    <2>2. \A s : ~Owed(p, s)
      BY <1>1, <1>5 DEF Owed, Due, At
    <2> QED BY <1>3, <2>1, <2>2 DEF TellsOn
  <1>6. CASE At(p, "reconcile")
    <2>1. (Resting(p) \/ Reading(p))'
      BY <1>1, <1>4, <1>6
    <2>2. CASE Reading(p)'
      <3>1. Tidy(p)'
        BY <2>2 DEF Reading, Tidy, Telling, Told, Present, At
      <3>2. \A s \in RunningSchedules' : Owed(p, s)'
        BY <1>4, <2>2 DEF WillHalt, Halts, Reading, Owed, Due, At
      <3> QED BY <1>3, <3>1, <3>2 DEF TellsOn, LineOK, RunningSchedules
    <2>3. CASE Resting(p)'
      <3>1. RunningSchedules' = {}
        BY <1>4, <2>3 DEF Resting, WillHalt, Halts, Idle
      <3> QED BY <1>3, <2>3, <3>1 DEF TellsOn, LineOK, RunningSchedules
    <2> QED BY <2>1, <2>2, <2>3
  <1> QED BY <1>1, <1>5, <1>6 DEF At

\* A match whose change rolls no run back is off the air.
LEMMA UnguardedIsInactive ==
    ASSUME BoardsTyped, BoardsAreSound, ActiveIsCurrent, NEW m \in Matches,
           RolledBackBy(m) = {}
    PROVE  ~match[m].active
  <1> SUFFICES ASSUME match[m].active
               PROVE  FALSE
    OBVIOUS
  <1>1. PICK s \in Schedules : sched[s].status = "running" /\ sched[s].current = m
    BY DEF ActiveIsCurrent
  <1>2. m \in EntriesOf(s)
    BY <1>1, NoMatchAssumption DEF BoardsAreSound, PointsAtItsEntry
  <1>3. PICK i \in Positions(s) : entries[s][i] = m
    BY <1>2 DEF EntriesOf
  <1>4. i \in Nat
    BY <1>3, WalkTypes
  <1>5. \A j \in Positions(s) : entries[s][j] = sched[s].current => i <= j
    BY <1>1, <1>3, <1>4 DEF BoardsAreSound
  <1>6. s \in RolledBackBy(m)
    BY <1>1, <1>3, <1>5 DEF RolledBackBy
  <1> QED BY <1>6

\* Behind its guard a match is loaded; the run it takes back is stopped first.
LEMMA GuardingTells ==
    ASSUME SerialInv, ActiveIsCurrent, AbsentAreEmpty, NEW p \in Procs, Guarding(p), Step(p)
    PROVE  TellsOn(p)
  <1>1. /\ DbTypes /\ LocalOK /\ BoardsTyped /\ BoardsAreSound
        /\ at[p].step \in {"guardRollback", "prepareReopen", "stop", "interrupt"}
        /\ At(p, "guardRollback") => GuardRollback(p)
        /\ At(p, "prepareReopen") => PrepareReopen(p)
        /\ At(p, "stop") => Stop(p) /\ at[p].on \in Schedules
        /\ At(p, "interrupt") => Interrupt(p)
    BY SerialInvParts, AtTypes, StepAt DEF SerialInv, BoardsInv, Guarding, At, ScheduleSteps
  <1>2. PICK m, task :
           /\ m \in Matches /\ task \in Queued /\ todo[p] = <<task>>
           /\ task = AtMatch("rollback", m) \/ task = AtMatch("reopen", m)
           /\ task.step \in {"rollback", "reopen"} /\ task.at = m
           /\ task.step = "reopen" =>
                 \/ At(p, "prepareReopen") /\ at[p].at = m
                 \/ At(p, "stop") /\ m \in EntriesOf(at[p].on)
                 \/ At(p, "interrupt") /\ ~match[m].active
    <2>1. PICK m \in Matches :
             \/ todo[p] = <<AtMatch("rollback", m)>>
             \/ /\ todo[p] = <<AtMatch("reopen", m)>>
                /\ \/ At(p, "prepareReopen") /\ at[p].at = m
                   \/ At(p, "stop") /\ m \in EntriesOf(at[p].on)
                   \/ At(p, "interrupt") /\ ~match[m].active
      BY DEF Guarding
    <2>2. PICK rollback, reopen : rollback = AtMatch("rollback", m) /\ reopen = AtMatch("reopen", m)
      OBVIOUS
    <2>3. /\ rollback \in Queued /\ rollback.step = "rollback" /\ rollback.at = m
          /\ reopen \in Queued /\ reopen.step = "reopen" /\ reopen.at = m
      BY <2>2, TaskTypes DEF AtMatch, Idle, MatchOps
    <2> QED BY <2>1, <2>2, <2>3
  <1>3. \A s : ~Owed(p, s)
    <2>1. \A i \in DOMAIN todo[p] : todo[p][i].step \notin {"read", "settle", "findSchedule"}
      BY <1>2
    <2> QED BY <1>1, <2>1, NothingOwed
  <1>4. ASSUME Then(p, mem[p], <<>>), task.step = "reopen" => ~match'[m].active
        PROVE  LineOK(p)'
    <2>1. TakesFirst(p, <<task>>, mem[p])
      BY <1>1, <1>2, <1>4, ThenContinues
    <2>2. at'[p] = task /\ todo'[p] = <<>>
      BY <2>1 DEF TakesFirst
    <2>3. Loading(p)'
      BY <1>2, <1>4, <2>2 DEF Loading, Loads, MatchOps, At
    <2> QED BY <2>3 DEF LineOK
  <1>5. ASSUME Finish(p)
        PROVE  LineOK(p)'
    BY <1>1, <1>5 DEF Finish, Resting, LineOK, LocalOK, LocalTypes
  <1>6. ASSUME NEW o, Protect(p, o, mem[p]), UNCHANGED <<sched, entries, match>>,
               task.step = "reopen" => o = m
        PROVE  LineOK(p)'
    <2>1. CASE RolledBackBy(o) = {} /\ Then(p, mem[p], <<>>)
      <3>1. task.step = "reopen" => ~match'[m].active
        BY <1>1, <1>2, <1>6, <2>1, UnguardedIsInactive
      <3> QED BY <1>4, <2>1, <3>1
    <2>2. ASSUME NEW s \in RolledBackBy(o), Then(p, mem[p], <<StopOf(s, "ROLLBACK_CONFIRMED")>>)
          PROVE  LineOK(p)'
      <3>1. PICK stop : stop = StopOf(s, "ROLLBACK_CONFIRMED")
        OBVIOUS
      <3>2. s \in Schedules /\ (o = m => m \in EntriesOf(s))
        BY <1>2, NoMatchAssumption DEF RolledBackBy, EntriesOf
      <3>3. stop.step = "stop" /\ stop.on = s /\ stop \in Queued
        BY <3>1, <3>2, TaskTypes DEF StopOf, OnSchedule, Idle, InterruptionCodes
      <3>4. at'[p] = stop /\ todo'[p] = todo[p]
        BY <1>1, <2>2, <3>1, <3>3, ThenFirst
      <3>5. EntriesOf(s)' = EntriesOf(s)
        BY <1>6, Unmoved
      <3>6. At(p, "stop")' /\ (o = m => (m \in EntriesOf(at[p].on))')
        BY <3>2, <3>3, <3>4, <3>5 DEF At
      <3>7. Guarding(p)'
        <4>1. CASE task = AtMatch("rollback", m)
          BY <1>2, <3>3, <3>4, <4>1 DEF Guarding, At
        <4>2. CASE task = AtMatch("reopen", m)
          <5>1. task.step = "reopen"
            BY <4>2 DEF AtMatch, Idle
          <5> QED BY <1>2, <1>6, <3>3, <3>4, <3>6, <4>2, <5>1 DEF Guarding
        <4> QED BY <1>2, <4>1, <4>2
      <3> QED BY <3>7 DEF LineOK
    <2> QED BY <1>5, <1>6, <2>1, <2>2 DEF Protect
  <1>7. ASSUME UNCHANGED <<sched, entries, match>>, LineOK(p)'
        PROVE  TellsOn(p)
    <2>1. \A t \in Schedules : sched'[t] = sched[t]
      BY <1>7
    <2> QED BY <1>3, <1>7, <2>1, Unmoved DEF TellsOn
  <1>8. CASE At(p, "guardRollback")
    <2>1. Protect(p, at[p].at, mem[p]) /\ UNCHANGED <<sched, entries, match>>
      BY <1>1, <1>8 DEF GuardRollback, db
    <2>2. task.step # "reopen"
      BY <1>2, <1>8 DEF At
    <2>3. LineOK(p)'
      BY <1>6, <2>1, <2>2
    <2> QED BY <1>7, <2>1, <2>3
  <1>9. CASE At(p, "prepareReopen")
    <2>1. UNCHANGED <<sched, entries, match>>
      BY <1>1, <1>9 DEF PrepareReopen, db
    <2>2. PICK o : o = at[p].at
      OBVIOUS
    <2>3. task.step = "reopen" => o = m
      BY <1>2, <1>9, <2>2 DEF At
    <2>4. \/ \E s \in CompletedWith(o) :
                \/ Directly(p, mem[p], [OnSchedule("interrupt", s) EXCEPT !.at = o])
                \/ Finish(p)
          \/ Protect(p, o, mem[p])
      BY <1>1, <1>9, <2>2 DEF PrepareReopen
    <2>5. ASSUME NEW s \in CompletedWith(o),
                 Directly(p, mem[p], [OnSchedule("interrupt", s) EXCEPT !.at = o])
          PROVE  LineOK(p)'
      <3>1. PICK interrupt : interrupt = [OnSchedule("interrupt", s) EXCEPT !.at = o]
        OBVIOUS
      <3>2. interrupt.step = "interrupt"
        BY <3>1 DEF OnSchedule, Idle
      <3>3. at'[p] = interrupt /\ todo'[p] = todo[p]
        BY <1>1, <2>5, <3>1, DirectlyGoes
      <3>4. task.step = "reopen" => ~match'[m].active
        <4> SUFFICES ASSUME task.step = "reopen", match[m].active
                     PROVE  FALSE
          BY <2>1
        <4>1. m = o
          BY <2>3
        <4>2. s \in Schedules /\ m \in EntriesOf(s) /\ sched[s].status = "completed"
          BY <4>1 DEF CompletedWith
        <4>3. sched[s].status = "running"
          BY <1>1, <4>2, ActiveOnBoard
        <4> QED BY <4>2, <4>3
      <3>5. Guarding(p)'
        <4>1. CASE task = AtMatch("rollback", m)
          BY <1>2, <3>2, <3>3, <4>1 DEF Guarding, At
        <4>2. CASE task = AtMatch("reopen", m)
          <5>1. task.step = "reopen"
            BY <4>2 DEF AtMatch, Idle
          <5> QED BY <1>2, <3>2, <3>3, <3>4, <4>2, <5>1 DEF Guarding, At
        <4> QED BY <1>2, <4>1, <4>2
      <3> QED BY <3>5 DEF LineOK
    <2>6. LineOK(p)'
      BY <1>5, <1>6, <2>1, <2>3, <2>4, <2>5
    <2> QED BY <1>7, <2>1, <2>6
  <1>10. CASE At(p, "stop")
    <2>1. PICK s : s = at[p].on
      OBVIOUS
    <2>2. /\ AbsentAreEmpty'
          /\ \A t \in Schedules : sched'[t].status = "running" =>
                sched[t].status = "running" /\ (Stands(t) => Stands(t)')
          /\ Finish(p) \/ (match' = WithActive(CurrentMatch(s), {}) /\ Then(p, mem[p], <<>>))
      BY <1>1, <1>10, <2>1, StopTells
    <2>3. ASSUME match' = WithActive(CurrentMatch(s), {}), Then(p, mem[p], <<>>)
          PROVE  LineOK(p)'
      <3>1. ASSUME task.step = "reopen"
            PROVE  ~match'[m].active
        <4>1. s \in Schedules /\ m \in EntriesOf(s)
          BY <1>1, <1>2, <1>10, <2>1, <3>1 DEF At
        <4>2. match[m].active => m \in CurrentMatch(s)
          BY <1>1, <4>1, ActiveOnBoard DEF CurrentMatch
        <4> QED BY <1>1, <1>2, <2>3, <4>2, Activations
      <3> QED BY <1>4, <2>3, <3>1
    <2>4. LineOK(p)'
      BY <1>5, <2>2, <2>3
    <2> QED BY <1>3, <2>2, <2>4 DEF TellsOn
  <1>11. CASE At(p, "interrupt")
    <2>1. PICK s, o : s = at[p].on /\ o = at[p].at
      OBVIOUS
    <2>2. /\ UNCHANGED <<entries, match>>
          /\ \/ /\ sched[s].status = "completed" /\ Then(p, mem[p], <<>>)
                /\ sched' = [sched EXCEPT ![s] = InterruptedRun(@, o)]
             \/ Finish(p) /\ UNCHANGED sched
      BY <1>1, <1>11, <2>1 DEF Interrupt
    <2>3. LineOK(p)'
      BY <1>2, <1>4, <1>5, <1>11, <2>2 DEF At
    <2>4. CASE Finish(p) /\ UNCHANGED sched
      BY <1>7, <2>2, <2>3, <2>4
    <2>5. CASE /\ sched[s].status = "completed"
               /\ sched' = [sched EXCEPT ![s] = InterruptedRun(@, o)]
      <3>1. /\ s \in Schedules /\ sched'[s] = InterruptedRun(sched[s], o)
            /\ \A t \in Schedules \ {s} : sched'[t] = sched[t]
        BY <1>1, <1>11, <2>1, <2>5, AtTypes DEF At, ScheduleSteps, DbTypes
      <3>2. sched'[s].status = "inactive"
        BY <1>1, <3>1 DEF InterruptedRun, DbTypes, Row
      <3>3. \A t \in Schedules : sched[t].status # "absent" => sched'[t].status # "absent"
        BY <3>1, <3>2
      <3>4. AbsentAreEmpty'
        BY <2>2, <3>3, StillEmpty
      <3>5. ASSUME NEW t \in Schedules \ {s}, Stands(t)
            PROVE  Stands(t)'
        <4>1. PICK n : n = sched[t].current
          OBVIOUS
        <4> QED BY <1>1, <2>2, <3>1, <3>5, <4>1, StandsKept
      <3> QED BY <1>3, <2>3, <3>1, <3>2, <3>4, <3>5 DEF TellsOn
    <2> QED BY <2>2, <2>4, <2>5
  <1> QED BY <1>1, <1>8, <1>9, <1>10, <1>11 DEF At

\* A line that ends with finding the schedule of m again.
LEMMA EndsWithFind ==
    ASSUME NEW m \in Matches, NEW head \in Seq(SavingOnly(m)), NEW more,
           more = head \o <<AtMatch("findSchedule", m)>>,
           NEW i \in DOMAIN more, more[i].step = "save"
    PROVE  \E j \in DOMAIN more : j > i /\ IsFind(more[j], m)
  <1>1. PICK find, last : find = AtMatch("findSchedule", m) /\ last = <<find>>
    OBVIOUS
  <1>2. find \in SavingOnly(m) /\ find.step = "findSchedule" /\ find.at = m
    BY <1>1, TaskTypes DEF SavingOnly, AtMatch, Idle, MatchOps
  <1>3. last \in Seq(SavingOnly(m)) /\ Len(last) = 1 /\ last[1] = find
    BY <1>1, <1>2
  <1>4. more = head \o last
    BY <1>1
  <1>5. PICK n : n = Len(head)
    OBVIOUS
  <1>6. /\ n \in Nat /\ more \in Seq(SavingOnly(m)) /\ Len(more) = n + 1
        /\ \A k \in 1..(n + 1) : more[k] = IF k <= n THEN head[k] ELSE last[k - n]
    BY <1>3, <1>4, <1>5, ConcatProperties, LenProperties
  <1>7. DOMAIN more = 1..(n + 1)
    BY <1>6, LenProperties
  <1>8. more[n + 1] = find /\ n + 1 \in DOMAIN more
    BY <1>3, <1>6, <1>7
  <1>9. n + 1 > i
    BY <1>2, <1>6, <1>7, <1>8
  <1> QED BY <1>2, <1>8, <1>9 DEF IsFind

\* What a match operation queues recalculates the schedule of its match, unless
\* the match was passed and stays so, or is saved at once as it was loaded.
LEMMA FollowUpsTell ==
    ASSUME NEW o \in Loads, NEW m \in Matches, NEW before \in MatchRow,
           NEW after \in Edited(o, before), NEW more \in FollowUps(o, m, before, after),
           o = "reopen" => ~before.active, NEW i \in DOMAIN more, more[i].step = "save"
    PROVE  \/ \E j \in DOMAIN more : j > i /\ IsFind(more[j], m)
           \/ {before.state, after.state} \subseteq {"ready", "completed"}
           \/ i = 1 /\ after = before
  <1>1. PICK saved, found : saved = <<AtMatch("save", m)>> /\ found = <<AtMatch("findSchedule", m)>>
    OBVIOUS
  <1>2. saved \in Seq(SavingOnly(m)) /\ Len(saved) = 1 /\ DOMAIN saved = {1}
    <2>1. PICK save : save = AtMatch("save", m)
      OBVIOUS
    <2>2. save \in SavingOnly(m)
      BY <2>1, TaskTypes DEF SavingOnly, AtMatch, Idle, MatchOps
    <2>3. saved = <<save>>
      BY <1>1, <2>1
    <2> QED BY <2>2, <2>3
  <1>3. saved \o <<>> = saved
    BY <1>2, ConcatEmptySeq
  <1>4. after \in MatchRow
    BY EditedType DEF Loads
  <1>5. ASSUME NEW head \in Seq(SavingOnly(m)), more = head \o found
        PROVE  \E j \in DOMAIN more : j > i /\ IsFind(more[j], m)
    BY <1>1, <1>5, EndsWithFind
  <1>6. CASE o \in {"shape", "rollback"}
    <2>1. more = saved \o found
      BY <1>1, <1>6 DEF FollowUps
    <2> QED BY <1>2, <1>5, <2>1
  <1>7. CASE o \in {"score", "run"}
    <2>1. more = saved \o (IF Moved(before, after) THEN found ELSE <<>>)
      BY <1>1, <1>7 DEF FollowUps
    <2>2. CASE Moved(before, after)
      BY <1>2, <1>5, <2>1, <2>2
    <2>3. CASE ~Moved(before, after)
      <3>1. more = saved
        BY <1>3, <2>1, <2>3
      <3>2. after \in Resettled(before) /\ after.state = before.state
        BY <1>7, <2>3 DEF Edited, Moved
      <3>3. after = before
        BY <3>2 DEF Resettled, MatchRow
      <3> QED BY <1>2, <3>1, <3>3
    <2> QED BY <2>2, <2>3
  <1>8. CASE o = "commit"
    <2>1. before.state # "open" /\ after = [before EXCEPT !.state = "completed", !.active = FALSE]
      BY <1>8 DEF Edited
    <2> QED BY <2>1 DEF MatchRow, MatchStates
  <1>9. CASE o = "reopen"
    <2>1. PICK undo \in IF before.state = "completed" THEN SeatingOf("unplace", m, before) ELSE {<<>>} :
             more = undo \o saved \o (IF Moved(before, after) THEN found ELSE <<>>)
      BY <1>1, <1>9 DEF FollowUps
    <2>2. CASE before.state = "completed"
      <3>1. undo \in Seq(SavingOnly(m))
        BY <2>1, <2>2, SeatingType
      <3>2. PICK c, d : /\ c = [before EXCEPT !.state = "ready"]
                        /\ d \in Resettled(c) /\ after = [d EXCEPT !.active = FALSE]
        BY <1>9, <2>2 DEF Edited
      <3>3. c \in MatchRow /\ c.state = "ready"
        BY <3>2 DEF MatchRow, MatchStates
      <3>4. d \in MatchRow /\ d.state \in {"open", "ready"}
        <4>1. d \in MatchRow
          BY <3>2, <3>3, ResettledType
        <4>2. PICK x \in {"open", "ready"} : d = [c EXCEPT !.state = x]
          BY <3>2, <3>3 DEF Resettled
        <4>3. d.state = x
          BY <3>3, <4>2 DEF MatchRow
        <4> QED BY <4>1, <4>2, <4>3
      <3>5. after.state \in {"open", "ready"}
        BY <3>2, <3>4 DEF MatchRow
      <3>6. Moved(before, after)
        BY <2>2, <3>5 DEF Moved
      <3>7. PICK head : head = undo \o saved
        OBVIOUS
      <3>8. head \in Seq(SavingOnly(m))
        BY <1>2, <3>1, <3>7, ConcatProperties
      <3>9. more = head \o found
        BY <2>1, <3>6, <3>7
      <3> QED BY <1>5, <3>8, <3>9
    <2>3. CASE before.state # "completed"
      <3>1. after = [before EXCEPT !.active = FALSE]
        BY <1>9, <2>3 DEF Edited
      <3>2. after = before
        BY <1>9, <3>1 DEF MatchRow
      <3>3. undo = <<>> /\ ~Moved(before, after)
        BY <2>1, <2>3, <3>2 DEF Moved
      <3>4. more = (<<>> \o saved) \o <<>>
        BY <2>1, <3>3
      <3>5. more = saved
        BY <1>2, <1>3, <3>4, ConcatEmptySeq
      <3> QED BY <1>2, <3>2, <3>5
    <2> QED BY <2>2, <2>3
  <1> QED BY <1>6, <1>7, <1>8, <1>9 DEF Loads, MatchOps

\* A match is loaded and changed in memory.
LEMMA LoadingTells ==
    ASSUME SerialInv, AbsentAreEmpty, NEW p \in Procs, Loading(p), Step(p)
    PROVE  TellsOn(p)
  <1>0. PICK o, m, c : o = at[p].step /\ m = at[p].at /\ c = match[m]
    OBVIOUS
  <1>1. /\ LocalOK /\ o \in Loads /\ m \in Matches /\ c \in MatchRow /\ mem[p] \in Memory
        /\ todo[p] = <<>> /\ Edit(p, o) /\ (o = "reopen" => ~c.active)
        /\ UNCHANGED <<sched, entries, match>>
    <2>1. o \in Loads /\ Edit(p, o)
      BY <1>0, StepAt DEF Loading
    <2> QED BY <1>0, <2>1, SerialInvParts, AtTypes
            DEF Loading, At, Edit, db, Loads, MatchOps, MatchSteps, DbTypes
  <1>2. \A s : ~Owed(p, s)
    BY <1>0, <1>1, NothingOwed DEF Loads, MatchOps
  <1>3. ASSUME NEW after \in Edited(o, c), NEW more \in FollowUps(o, m, c, after),
               NEW memory, memory = [mem[p] EXCEPT !.copy[m] = after], Then(p, memory, more)
        PROVE  LineOK(p)'
    <2>1. more \in Seq(SavingOnly(m)) /\ memory.copy[m] = after
      BY <1>1, <1>3, EditedType, FollowUpsType DEF Loads, Memory
    <2>2. more \in Seq(Queued) /\ \A i \in DOMAIN more : more[i] \in SavingOnly(m)
      BY <2>1, ElementOfSeq DEF SavingOnly
    <2>3. TakesFirst(p, more, memory)
      BY <1>1, <1>3, <2>2, ThenBegins
    <2>4. ASSUME NEW i \in DOMAIN more
          PROVE  /\ more[i].step \in Telling \ {"settle"} /\ Present(more[i])'
                 /\ more[i].step = "save" =>
                       \/ \E j \in DOMAIN more : j > i /\ IsFind(more[j], more[i].at)
                       \/ PassedBoth(more[i].at, memory.copy[more[i].at])'
                       \/ i = 1 /\ memory.copy[more[i].at] = match'[more[i].at]
      <3>1. /\ more[i].step \in {"save", "findSchedule", "place", "unplace"}
            /\ more[i].step = "save" => more[i].at = m
        BY <2>2 DEF SavingOnly
      <3>2. ASSUME more[i].step = "save"
            PROVE  \/ \E j \in DOMAIN more : j > i /\ IsFind(more[j], m)
                   \/ {c.state, after.state} \subseteq {"ready", "completed"}
                   \/ i = 1 /\ after = c
        BY <1>1, <1>3, <3>2, FollowUpsTell
      <3>3. match'[m] = c
        BY <1>0, <1>1
      <3>4. {c.state, after.state} \subseteq {"ready", "completed"} => PassedBoth(m, after)'
        BY <3>3 DEF PassedBoth, Passed
      <3> QED BY <2>1, <3>1, <3>2, <3>3, <3>4 DEF Telling, Seats, Present
    <2>5. FirstTold(more, memory)'
      BY <2>4 DEF FirstTold, Present, PassedBoth, Passed
    <2> QED BY <2>3, <2>5, TakesTidy DEF LineOK
  <1>4. LineOK(p)'
    <2>1. CASE Finish(p)
      BY <1>1, <2>1 DEF Finish, Resting, LineOK, LocalOK, LocalTypes
    <2> QED BY <1>0, <1>1, <1>3, <2>1 DEF Edit
  <1>5. \A t \in Schedules : sched'[t] = sched[t]
    BY <1>1
  <1> QED BY <1>1, <1>2, <1>4, <1>5, Unmoved DEF TellsOn

\* No step but a close and an opening changes the status of the tournament.
LEMMA StepKeepsTournament ==
    ASSUME NEW p \in Procs, Step(p)
    PROVE  UNCHANGED tournament
  <1>1. CASE \E o \in MatchOps \ {"activate"} : Edit(p, o)
    BY <1>1 DEF Edit, db
  <1>2. CASE Read(p) \/ Settle(p) \/ DeactivateEvery(p) \/ Stop(p) \/ Interrupt(p)
             \/ RemoveRow(p) \/ Rewrite(p) \/ Save(p) \/ WriteRow(p)
    BY <1>2 DEF Read, Settle, DeactivateEvery, Stop, Interrupt, RemoveRow, Rewrite, Save, WriteRow
  <1>3. CASE ListRunning(p) \/ Reconcile(p) \/ FindSchedule(p) \/ GuardRollback(p)
             \/ PrepareReopen(p) \/ CheckManual(p) \/ DiffRow(p) \/ Seat(p)
    BY <1>3 DEF ListRunning, Reconcile, FindSchedule, GuardRollback, PrepareReopen, CheckManual,
       DiffRow, Seat, db
  <1> QED BY <1>1, <1>2, <1>3 DEF Step

LEMMA RestingOwesNothing ==
    ASSUME NEW p \in Procs, Resting(p)
    PROVE  LineOK(p) /\ \A s : ~Owed(p, s)
  BY DEF Resting, LineOK, Owed, Due, Idle, At

LEMMA StepStand ==
    ASSUME SerialInv, ActiveInv, StandInv, NEW p \in Procs, Step(p)
    PROVE  StandInv'
  <1>1. at[p] # Idle /\ Acts(p) /\ OneInFlight
    BY SerialInvParts, StepMoves, StepActs DEF SerialInv
  <1>2. \A q \in Procs \ {p} : Resting(q) /\ Resting(q)'
    BY <1>1, OthersRest
  <1>3. TellsOn(p)
    <2>1. /\ ActiveIsCurrent /\ CopiesAreQuiet(p) /\ AbsentAreEmpty
          /\ LineOK(p) /\ ~Resting(p)
      BY <1>1 DEF ActiveInv, StandInv, Resting
    <2> QED BY <2>1, ListingTells, RemovingTells, LoadingTells, GuardingTells, OnlyStopsTells,
            SavingTells, ToReadTells, TidyTells DEF LineOK
  <1>4. \A q \in Procs : LineOK(q)'
    BY <1>2, <1>3 DEF TellsOn, LineOK
  <1>5. RunsTold'
    <2> SUFFICES ASSUME tournament' = "open", NEW s \in Schedules, sched'[s].status = "running"
                 PROVE  Stands(s)' \/ Owed(p, s)'
      BY DEF RunsTold, RunningSchedules
    <2>1. tournament = "open"
      BY StepKeepsTournament
    <2>2. sched[s].status = "running" => Stands(s) \/ Owed(p, s)
      BY <1>2, <2>1, RestingOwesNothing DEF StandInv, RunsTold, RunningSchedules
    <2> QED BY <1>3, <2>1, <2>2 DEF TellsOn
  <1> QED BY <1>3, <1>4, <1>5 DEF StandInv, TellsOn

LEMMA ArriveStand ==
    ASSUME SerialInv, OneRequest, NothingByHand, ClosedInv, StandInv, NEW p \in Requests, Arrive(p)
    PROVE  StandInv'
  <1>1. /\ p \in Procs /\ DbTypes /\ LocalOK /\ OneInFlight /\ BoardsTyped
        /\ AbsentAreEmpty /\ (\A q \in Procs : Resting(q)) /\ Acts(p)
        /\ \/ BeginsSave(p) \/ BeginsEdit(p) \/ BeginsStop(p) \/ AnsweredAtOnce(p)
           \/ BeginsMatch(p)
    <2>1. p \in Procs /\ DbTypes /\ LocalOK /\ OneInFlight /\ BoardsTyped /\ AbsentAreEmpty
      BY SerialInvParts DEF SerialInv, Procs, StandInv
    <2>2. ~BeginsActivation(p)
      BY DEF BeginsActivation, NothingByHand
    <2> QED BY <2>1, <2>2, ArriveBegins
  <1>2. \A q \in Procs \ {p} : LineOK(q)'
    BY <1>1 DEF Resting, Acts, LineOK
  <1>3. /\ tournament = "open" => \A s \in RunningSchedules : Stands(s)
        /\ tournament = "closed" => RunningSchedules = {}
    BY <1>1, RestingOwesNothing, RestingHaltsNothing DEF StandInv, RunsTold, ClosedInv
  <1>4. ASSUME UNCHANGED <<sched, entries, match>>, LineOK(p)',
               tournament = "closed" \/ tournament' = "closed" \/ UNCHANGED tournament
        PROVE  StandInv'
    <2>1. tournament \in {"open", "closed"}
      BY <1>1 DEF DbTypes
    <2>2. RunsTold'
      BY <1>3, <1>4, <2>1, Unmoved DEF RunsTold, RunningSchedules
    <2> QED BY <1>1, <1>2, <1>4, <2>2, Unmoved DEF StandInv
  <1>5. CASE BeginsSave(p)
    <2>1. PICK s \in Schedules :
             /\ at'[p].step = "diffRow" /\ at'[p].on = s /\ UNCHANGED db
             /\ \/ /\ todo'[p] = <<OnSchedule("deactivateEvery", s), OnSchedule("read", s)>>
                   /\ mem'[p].row.status = "running"
                \/ /\ Editable(sched[s])
                   /\ todo'[p] = <<>> /\ mem'[p].row = sched[s]
                \/ todo'[p] = <<>> /\ mem'[p].row.status = "completed"
      BY <1>5 DEF BeginsSave
    <2>2. Saving(p)'
      BY <2>1 DEF Saving, Editable
    <2> QED BY <1>4, <2>1, <2>2 DEF db, LineOK
  <1>6. CASE BeginsEdit(p)
    <2>1. Removing(p)'
      BY <1>6 DEF BeginsEdit, Removing, Editable, At, db
    <2> QED BY <1>4, <1>6, <2>1 DEF BeginsEdit, db, LineOK
  <1>7. CASE BeginsStop(p)
    <2>1. OnlyStops(p)' \/ Listing(p)'
      BY <1>7 DEF BeginsStop, OnlyStops, Listing, At
    <2> QED BY <1>4, <1>7, <2>1 DEF BeginsStop, db, LineOK
  <1>8. CASE BeginsMatch(p)
    <2>1. Loading(p)' \/ Guarding(p)'
      BY <1>8 DEF BeginsMatch, Loading, Guarding, Loads, MatchOps, At
    <2> QED BY <1>4, <1>8, <2>1 DEF BeginsMatch, db, LineOK
  <1>9. CASE AnsweredAtOnce(p)
    <2>1. LineOK(p)'
      BY <1>1, <1>9 DEF AnsweredAtOnce, Resting, LineOK
    <2>2. CASE OpenAgain(p)
      <3>1. tournament = "closed"
        BY <1>1, <2>2 DEF OpenAgain, TournamentOpen, DbTypes
      <3> QED BY <1>4, <2>1, <2>2, <3>1 DEF OpenAgain
    <2>3. ASSUME NEW s \in Schedules, Create(p, s)
          PROVE  StandInv'
      <3>1. PICK order : entries' = [entries EXCEPT ![s] = order]
        BY <2>3 DEF Create
      <3>2. /\ UNCHANGED <<tournament, match>> /\ sched[s].status = "absent"
            /\ sched'[s].status = "inactive"
            /\ \A t \in Schedules \ {s} : sched'[t] = sched[t] /\ entries'[t] = entries[t]
        BY <1>1, <2>3, <3>1 DEF Create, Created, NoRow, DbTypes, BoardsTyped
      <3>3. ASSUME NEW t \in Schedules \ {s}, Stands(t)
            PROVE  Stands(t)'
        <4>1. PICK m : m = sched[t].current
          OBVIOUS
        <4> QED BY <1>1, <3>2, <3>3, <4>1, StandsKept
      <3>4. RunsTold'
        BY <1>3, <3>2, <3>3 DEF RunsTold, RunningSchedules
      <3>5. \A t \in Schedules \ {s} : EntriesOf(t)' = EntriesOf(t)
        BY <3>2 DEF EntriesOf, Positions
      <3>6. AbsentAreEmpty'
        BY <1>1, <3>2, <3>5 DEF AbsentAreEmpty
      <3> QED BY <1>2, <2>1, <3>4, <3>6 DEF StandInv
    <2> QED BY <1>9, <2>2, <2>3 DEF AnsweredAtOnce
  <1> QED BY <1>1, <1>5, <1>6, <1>7, <1>8, <1>9

LEMMA CrashStand ==
    ASSUME StandInv, Crash
    PROVE  StandInv'
  <1>1. /\ \A q \in Procs \ {Server} : Resting(q)'
        /\ Server \in Procs /\ at'[Server].step = "reconcile" /\ todo'[Server] = <<>>
        /\ UNCHANGED <<sched, entries, match>>
    BY DEF Crash, Procs, Resting, Idle, db
  <1>2. \A q \in Procs : LineOK(q)'
    BY <1>1 DEF LineOK, Listing
  <1>3. \A s : Owed(Server, s)'
    BY <1>1 DEF Owed, At
  <1> QED BY <1>1, <1>2, <1>3, Unmoved DEF StandInv, RunsTold

LEMMA InitStand ==
    ASSUME Init
    PROVE  StandInv
  <1>1. \A q \in Procs : LineOK(q)
    BY DEF Init, LineOK, Resting
  <1>2. \A s \in Schedules : sched[s].status # "running"
    BY DEF Init, NoRow, Created
  <1>3. ASSUME NEW s \in Schedules, sched[s].status = "absent"
        PROVE  EntriesOf(s) = {}
    <2>1. entries[s] = <<>>
      BY <1>3 DEF Init, NoRow, Created
    <2> QED BY <2>1 DEF EntriesOf, Positions
  <1> QED BY <1>1, <1>2, <1>3 DEF StandInv, RunsTold, RunningSchedules, AbsentAreEmpty

\* The four invariants that hold of one request at a time.
Settling == SerialInv /\ ActiveInv /\ ClosedInv /\ StandInv

LEMMA NextSettling ==
    ASSUME OneRequest, NothingByHand, Settling, [Next]_vars
    PROVE  Settling'
  <1>1. SerialInv' /\ ActiveInv'
    BY NextSerial, NextActive DEF Settling
  <1>2. CASE Next
    <2>1. ClosedInv'
      BY <1>2, ArriveClosed, StepClosed, CrashClosed DEF Next, Settling
    <2>2. StandInv'
      BY <1>2, ArriveStand, StepStand, CrashStand DEF Next, Settling
    <2> QED BY <1>1, <2>1, <2>2 DEF Settling
  <1>3. CASE UNCHANGED vars
    <2>1. ClosedInv'
      BY <1>3 DEF vars, Settling, ClosedInv, Winding, Resting, Listing, Stopping, Reading,
                  Archiving, WillHalt, Halts, RunningSchedules, At
    <2>2. UNCHANGED <<sched, entries, match>> /\ UNCHANGED <<tournament, at, todo, mem>>
      BY <1>3 DEF vars
    <2>3. \A s : EntriesOf(s)' = EntriesOf(s)
      BY <2>2, Unmoved
    <2>4. ASSUME NEW q \in Procs, LineOK(q)
          PROVE  LineOK(q)'
      BY <2>2, <2>3, <2>4 DEF LineOK, Resting, Listing, Removing, Loading, Guarding, OnlyStops,
         Saving, ToRead, Tidy, Present, Told, SaveTells, PassedBoth, Passed, At
    <2>5. \A q \in Procs, s \in Schedules : Owed(q, s) => Owed(q, s)'
      BY <2>2, <2>3 DEF Owed, Due, At
    <2>6. StandInv'
      BY <2>2, <2>4, <2>5, Unmoved DEF Settling, StandInv, RunsTold, RunningSchedules
    <2> QED BY <1>1, <2>1, <2>6 DEF Settling
  <1> QED BY <1>2, <1>3

LEMMA InitSettling ==
    ASSUME NothingByHand, Init
    PROVE  Settling
  <1>1. \A p \in Procs : CopiesAreQuiet(p)
    BY RestingIsQuiet DEF Init, Resting
  <1>2. ActiveInv
    BY <1>1 DEF Init, ActiveInv, ActiveIsCurrent, NothingByHand
  <1>3. ClosedInv
    BY DEF Init, ClosedInv
  <1> QED BY <1>2, <1>3, InitSerial, InitStand DEF Settling

\* Once the requests are over, a run stands at an entry that still has to be
\* played, and plays it or says why not.
RunsStand == Quiet /\ TournamentOpen => \A s \in RunningSchedules : Stands(s)

\* With one request at a time and no activation by hand, whatever the number of
\* schedules and of entrants to a match and wherever the process dies: once the
\* requests are over every running schedule is at an entry that is not passed,
\* and either plays it or says why it cannot, the reason being stale only when
\* players were busy in another schedule or a feeder has settled since.
THEOREM RunsStandAtRest ==
    ASSUME OneRequest, NothingByHand
    PROVE  Spec => []RunsStand
  <1>1. Init => Settling
    BY InitSettling
  <1>2. Settling /\ [Next]_vars => Settling'
    BY NextSettling
  <1>3. Settling => RunsStand
    <2> SUFFICES ASSUME Settling, Quiet, TournamentOpen
                 PROVE  \A s \in RunningSchedules : Stands(s)
      BY DEF RunsStand
    <2>1. \A p \in Procs : Resting(p)
      BY DEF Quiet, Settling, SerialInv, OneInFlight
    <2> QED BY <2>1, RestingOwesNothing DEF Settling, StandInv, RunsTold, TournamentOpen
  <1> QED BY <1>1, <1>2, <1>3, PTL DEF Spec

\* There is no second schedule whose matches could keep players busy.
OneSchedule == \A s, t \in Schedules : s = t

\* A match that is fed takes two entrants: it is never between "too few" and
\* "full".
TwoToAFedMatch ==
    IsFiniteSet(Players) /\ \A m \in Matches : Feeders[m] = {} \/ Required[m] <= 2

LEMMA NeverBetween ==
    ASSUME DbTypes, TwoToAFedMatch, NEW m \in Matches, Feeders[m] # {}
    PROVE  LocalVerdict(m, TRUE) \notin Unfillable
  <1>1. PICK k : k = Cardinality(match[m].players)
    OBVIOUS
  <1>2. k \in Nat
    <2>1. match[m].players \subseteq Players
      BY DEF DbTypes, MatchRow
    <2> QED BY <1>1, <2>1, FS_Subset, FS_CardinalityType DEF TwoToAFedMatch
  <1>3. Required[m] \in Nat /\ Required[m] <= 2
    BY ScheduleAssumption DEF TwoToAFedMatch
  <1>4. k = 0 \/ k = 1 \/ ~(k < Required[m])
    BY <1>2, <1>3
  <1> QED BY <1>1, <1>4 DEF LocalVerdict, Unfillable

\* A recalculation of a run that stands where it should changes nothing.
LEMMA StandingIsSettled ==
    ASSUME SerialInv, ActiveIsCurrent, OneSchedule, TwoToAFedMatch,
           NEW s \in Schedules, sched[s].status = "running", Stands(s)
    PROVE  Decision(s) = [row |-> sched[s], off |-> {}, on |-> {}]
  <1>1. DbTypes /\ BoardsTyped /\ BoardsAreSound /\ sched[s] \in Row
    BY SerialInvParts DEF SerialInv, BoardsInv, DbTypes
  <1>2. PICK m, code, v : m = sched[s].current /\ code = sched[s].stale /\ v = LocalVerdict(m, TRUE)
    OBVIOUS
  <1>3. m \in EntriesOf(s) /\ m \in Matches /\ ~Passed(m) /\ Tells(m, code, v)
    BY <1>1, <1>2, WalkTypes DEF Stands
  <1>4. PICK i, h : i = StartIndex(s) /\ h = HaltIndex(s)
    OBVIOUS
  <1>5. i \in Positions(s) /\ entries[s][i] = m /\ i \in Nat
    <2>1. \E j \in Positions(s) : entries[s][j] = sched[s].current
      BY <1>2, <1>3 DEF EntriesOf
    <2>2. i \in Positions(s) /\ entries[s][i] = m
      BY <1>2, <1>4, <2>1 DEF StartIndex
    <2> QED BY <1>1, <2>2, WalkTypes
  <1>6. i \in Unpassed(s)
    BY <1>3, <1>4, <1>5 DEF Unpassed
  <1>7. h = i
    <2>1. h \in Unpassed(s) /\ \A j \in Unpassed(s) : h <= j
      BY <1>1, <1>4, <1>6, HaltIsFirst
    <2>2. h \in Nat /\ h >= i /\ h <= i
      BY <1>1, <1>4, <1>6, <2>1, WalkTypes DEF Unpassed
    <2> QED BY <1>5, <2>2
  <1>8. Walked(s) = {}
    <2> SUFFICES ASSUME NEW j \in Positions(s), j >= i, j < i
                 PROVE  FALSE
      BY <1>4, <1>6, <1>7 DEF Walked
    <2> QED BY <1>1, <1>5, WalkTypes
  <1>9. {o \in Walked(s) : match[o].active} = {}
    BY <1>8
  <1>10. Blocking(m, {}) = {}
    <2> SUFFICES ASSUME NEW o \in Matches, o # m, match[o].active
                 PROVE  FALSE
      BY DEF Blocking
    <2>1. PICK t \in Schedules : sched[t].current = o
      BY DEF ActiveIsCurrent
    <2> QED BY <1>2, <2>1 DEF OneSchedule
  <1>11. Verdict(m, TRUE, {}) = v
    BY <1>2, <1>10 DEF Verdict
  <1>12. \/ v = "eligible" /\ code = "none" /\ match[m].active
         \/ v # "eligible" /\ code = v
    BY <1>1, <1>2, <1>3, NeverBetween DEF Tells, OneSchedule
  <1>13. /\ Decision(s).row = IF v = "eligible" THEN Activated(sched[s], m)
                                                ELSE WaitingAt(sched[s], m, v)
         /\ Decision(s) = [row |-> Decision(s).row, off |-> {}, on |-> {}]
    <2>1. PICK off, halt : off = {o \in Walked(s) : match[o].active} /\ halt = entries[s][HaltIndex(s)]
      OBVIOUS
    <2>2. off = {} /\ halt = m /\ Unpassed(s) # {}
      BY <1>4, <1>5, <1>6, <1>7, <1>9, <2>1
    <2>3. Verdict(halt, halt = sched[s].current, off) = v
      <3>1. (halt = sched[s].current) = TRUE
        BY <1>2, <2>2
      <3> QED BY <1>11, <2>2, <3>1
    <2>4. CASE v = "eligible"
      <3>1. Decision(s) = [row |-> Activated(sched[s], halt), off |-> off,
                           on |-> IF match[halt].active THEN {} ELSE {halt}]
        BY <2>1, <2>2, <2>3, <2>4 DEF Decision
      <3> QED BY <1>12, <2>2, <2>4, <3>1
    <2>5. CASE v # "eligible"
      <3>1. Decision(s) = [row |-> WaitingAt(sched[s], halt, v), off |-> off, on |-> {}]
        BY <2>1, <2>2, <2>3, <2>5 DEF Decision
      <3> QED BY <2>2, <2>5, <3>1
    <2> QED BY <2>4, <2>5
  <1>14. Decision(s).row = sched[s]
    <2>1. PICK row \in Row : row = sched[s]
      BY <1>1
    <2>2. row.current = m /\ row.stale = code
      BY <1>2, <2>1
    <2>3. WaitingAt(row, m, code) = row
      BY <2>2 DEF WaitingAt, Row
    <2>4. code = "none" => Activated(row, m) = row
      BY <2>2 DEF Activated, Row
    <2> QED BY <1>12, <1>13, <2>1, <2>3, <2>4
  <1> QED BY <1>13, <1>14

\* With one request at a time, one schedule and two entrants to a match that is
\* fed, a recalculation once the requests are over would change nothing: every
\* command that unsettles a run ends with the recalculation of it, and a crash
\* on the way leaves that to the bootstrap.
THEOREM QuietSettles ==
    ASSUME OneRequest, NothingByHand, OneSchedule, TwoToAFedMatch
    PROVE  Spec => []QuietIsSettled
  <1>1. Init => Settling
    BY InitSettling
  <1>2. Settling /\ [Next]_vars => Settling'
    BY NextSettling
  <1>3. Settling => QuietIsSettled
    <2> SUFFICES ASSUME Settling, Quiet, TournamentOpen, NEW s \in Schedules,
                        sched[s].status = "running"
                 PROVE  Decision(s) = [row |-> sched[s], off |-> {}, on |-> {}]
      BY DEF QuietIsSettled, Settled
    <2>1. \A p \in Procs : Resting(p)
      BY DEF Quiet, Settling, SerialInv, OneInFlight
    <2>2. Stands(s)
      BY <2>1, RestingOwesNothing
         DEF Settling, StandInv, RunsTold, TournamentOpen, RunningSchedules
    <2> QED BY <2>2, StandingIsSettled DEF Settling, ActiveInv
  <1> QED BY <1>1, <1>2, <1>3, PTL DEF Spec
=============================================================================
