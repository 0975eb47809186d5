------------------------------ MODULE Schedule ------------------------------
(***************************************************************************)
(* The schedules of one tournament, run against PostgreSQL by concurrent   *)
(* requests of the API.                                                    *)
(*                                                                         *)
(* The database is the shared state: the tournament's status, the schedule *)
(* rows and their entries, and the matches.  A request is a process; each  *)
(* of its steps is one awaited read, one save or one transaction, and      *)
(* between two steps every other request may run.  A request keeps what it *)
(* has read in mem[p] and its remaining steps in todo[p], in the order the *)
(* handler awaits them.  Recalculation, stop, interruption and the         *)
(* replacement of entries lock the schedule row (FOR UPDATE); the plain    *)
(* saves of ScheduleStore.save and MatchStore.save do not lock what they   *)
(* read.                                                                   *)
(***************************************************************************)
EXTENDS ScheduleRow, Naturals, Sequences, FiniteSets, SequencesExt

CONSTANTS
    Schedules, NoSchedule,
    Players, NoPlayer,
    Requests,       \* the HTTP requests in flight at once
    Server,         \* the bootstrap of the process
    NoProc,         \* nobody holds the row lock
    Role,           \* Role[p]: the operations request p may serve
    Board0,         \* Board0[s]: the matches s starts with, in order
    Match0,         \* Match0[m]: the match at the start
    Required,       \* Required[m]: greatest slot its rules fill, at least 2
    Feeders,        \* Feeders[m]: matches with an advancement rule into m, never m
    MaxCrashes      \* bound: restarts of the API in one behaviour

RowOps == {"start", "update", "archive", "create", "remove", "replace"}
MatchOps == {"score", "run", "shape", "rollback", "commit", "reopen", "activate"}
DeskOps == {"stop", "close", "openAgain"}
Ops == RowOps \union MatchOps \union DeskOps

Procs == Requests \union {Server}

MatchStates == {"open", "ready", "completed"}

\* "open" stands for open, partial and tiebreak_required: not yet passed.
MatchRow == [state : MatchStates, active : BOOLEAN,
             players : SUBSET Players, rounds : BOOLEAN]

ASSUME ScheduleAssumption ==
    /\ IsFiniteSet(Schedules) /\ IsFiniteSet(Matches)
    /\ NoSchedule \notin Schedules
    /\ NoPlayer \notin Players
    /\ Server \notin Requests
    /\ NoProc \notin Procs
    /\ Role \in [Requests -> SUBSET Ops]
    /\ Board0 \in [Schedules -> Seq(Matches)]
    /\ Match0 \in [Matches -> MatchRow]
    /\ Required \in [Matches -> Nat]
    /\ Feeders \in [Matches -> SUBSET Matches]
    /\ \A m \in Matches : m \notin Feeders[m]
    /\ MaxCrashes \in Nat

\* The unique index on the match of an entry holds at the start.
ASSUME BoardAssumption ==
    /\ \A s \in Schedules : \A i, j \in DOMAIN Board0[s] :
          Board0[s][i] = Board0[s][j] => i = j
    /\ \A s, t \in Schedules : s # t => ToSet(Board0[s]) \cap ToSet(Board0[t]) = {}

VARIABLES
    tournament,     \* its status column
    sched,          \* sched[s]: the schedule row
    entries,        \* entries[s]: its entries' matches by position
    match,          \* match[m]: the match row with its entrants and rounds
    lockedBy,       \* lockedBy[s]: the transaction holding the row lock
    at,             \* at[p]: the step p is about to take
    todo,           \* todo[p]: the steps after it
    mem,            \* mem[p]: what p holds in memory
    crashes

db == <<tournament, sched, entries, match>>
vars == <<tournament, sched, entries, match, lockedBy, at, todo, mem, crashes>>

-----------------------------------------------------------------------------
(* Steps and local memory.                                                 *)

\* Steps only the action before them leads to.
OwnSteps == {"idle", "diffRow", "writeRow", "removeRow", "settle", "rewrite",
             "prepareReopen", "interrupt"}

\* Steps a handler queues.
QueuedSteps == {"deactivateEvery", "read", "stop", "listRunning", "reconcile",
                "findSchedule", "guardRollback", "checkManual", "save",
                "place", "unplace"}
               \union (MatchOps \ {"activate"})

ScheduleSteps == {"diffRow", "writeRow", "removeRow", "settle", "rewrite",
                  "interrupt", "deactivateEvery", "read", "stop"}
MatchSteps == {"prepareReopen", "findSchedule", "guardRollback", "save",
               "place", "unplace", "interrupt"} \union (MatchOps \ {"activate"})

\* A step names the schedule, the match and the player it is about.
TaskOf(steps) ==
    {t \in [step : steps,
            on   : Schedules \union {NoSchedule},
            at   : Matches \union {NoMatch},
            who  : Players \union {NoPlayer},
            code : InterruptionCodes \union {"none"}] :
        /\ t.step \in ScheduleSteps => t.on \in Schedules
        /\ t.step \in MatchSteps => t.at \in Matches
        /\ t.step \in {"place", "unplace"} => t.who \in Players}

Task == TaskOf(OwnSteps \union QueuedSteps)
Queued == TaskOf(QueuedSteps)

Idle == [step |-> "idle", on |-> NoSchedule, at |-> NoMatch,
         who |-> NoPlayer, code |-> "none"]
OnSchedule(step, s) == [Idle EXCEPT !.step = step, !.on = s]
AtMatch(step, m) == [Idle EXCEPT !.step = step, !.at = m]
StopOf(s, code) == [OnSchedule("stop", s) EXCEPT !.code = code]
Seating(step, m, player) == [AtMatch(step, m) EXCEPT !.who = player]

\* A match that was not loaded.
NoCopy == [state |-> "none", active |-> FALSE, players |-> {}, rounds |-> FALSE]

Plan == [row : Row, off : SUBSET Matches, on : SUBSET Matches]

Memory == [row : Row, delta : SUBSET Columns, plan : Plan,
           copy : [Matches -> MatchRow \union {NoCopy}],
           order : Seq(Matches), from : SUBSET Schedules]

Blank == [row |-> NoRow, delta |-> {},
          plan |-> [row |-> NoRow, off |-> {}, on |-> {}],
          copy |-> [m \in Matches |-> NoCopy], order |-> <<>>, from |-> {}]

\* The handler is over: answered, refused or failed.
Finish(p) ==
    /\ at' = [at EXCEPT ![p] = Idle]
    /\ todo' = [todo EXCEPT ![p] = <<>>]
    /\ mem' = [mem EXCEPT ![p] = Blank]

\* p moves on to the steps in more, then to those it had queued.
Then(p, memory, more) ==
    LET next == more \o todo[p]
    IN  IF next = <<>>
        THEN Finish(p)
        ELSE /\ at' = [at EXCEPT ![p] = Head(next)]
             /\ todo' = [todo EXCEPT ![p] = Tail(next)]
             /\ mem' = [mem EXCEPT ![p] = memory]

\* p's next step is task, one that only the current action leads to.
Directly(p, memory, task) ==
    /\ at' = [at EXCEPT ![p] = task]
    /\ todo' = todo
    /\ mem' = [mem EXCEPT ![p] = memory]

At(p, step) == at[p].step = step

\* A request is accepted once the bootstrap has finished.
Accept(p, o) == at[p] = Idle /\ at[Server] = Idle /\ o \in Role[p]

\* TournamentOpenGuard, checked before the handler runs.
TournamentOpen == tournament = "open"

Free(s) == lockedBy[s] = NoProc
Lock(p, s) == lockedBy' = [lockedBy EXCEPT ![s] = p]

\* Mutant: the row lock outlives its transaction.
KeepLock(s) == lockedBy' = [lockedBy EXCEPT ![s] = @]

\* The end of a transaction, committed or rolled back.
Release(s) == lockedBy' = [lockedBy EXCEPT ![s] = NoProc]

\* The positions that hold an entry; a deleted one leaves a gap.
Positions(s) == {i \in DOMAIN entries[s] : entries[s][i] # NoMatch}

EntriesOf(s) == {entries[s][i] : i \in Positions(s)}

\* FK_schedule_current_entry.
PointsAtItsEntry(row, s) == row.current \in EntriesOf(s) \union {NoMatch}

-----------------------------------------------------------------------------
(* The verdict on a schedule: eligibility, conflicts and the walk.         *)

Passed(m) == match[m].state \in {"ready", "completed"}

\* Rules into m whose source is not settled.
Pending(m) == Cardinality({f \in Feeders[m] : match[f].state # "completed"})

LocalVerdict(m, isCurrent) ==
    LET entrants == Cardinality(match[m].players)
    IN  IF entrants = 0 THEN "NO_ENTRANTS"
        ELSE IF entrants = 1 THEN "NOT_ENOUGH_ENTRANTS"
        ELSE IF entrants < Required[m]
             THEN IF entrants + Pending(m) < Required[m]
                  THEN "UNFILLABLE_ENTRANT_SLOTS" ELSE "UNRESOLVED_ENTRANTS"
        ELSE IF ~match[m].rounds THEN "NO_ROUNDS"
        ELSE IF match[m].active /\ ~isCurrent THEN "MATCH_ALREADY_ACTIVE"
        ELSE "eligible"

\* Active matches, other than m and those being deactivated, with m's players.
Blocking(m, deactivated) ==
    {o \in Matches \ ({m} \union deactivated) :
        match[o].active /\ match[o].players \cap match[m].players # {}}

Verdict(m, isCurrent, deactivated) ==
    LET local == LocalVerdict(m, isCurrent)
    IN  IF local = "eligible" /\ Blocking(m, deactivated) # {}
        THEN "ENTRANTS_ALREADY_ACTIVE" ELSE local

\* Where the walk starts: the current entry, or the first one.
StartIndex(s) ==
    IF \E i \in Positions(s) : entries[s][i] = sched[s].current
    THEN CHOOSE i \in Positions(s) : entries[s][i] = sched[s].current
    ELSE 1

\* Mutant: the walk goes over entries that cannot be played yet.
UnpassedAndPlayable(s) ==
    {i \in Positions(s) :
        /\ i >= StartIndex(s) /\ ~Passed(entries[s][i])
        /\ LocalVerdict(entries[s][i], entries[s][i] = sched[s].current) = "eligible"}

\* Entries at or after the current one that are not passed.
Unpassed(s) == {i \in Positions(s) : i >= StartIndex(s) /\ ~Passed(entries[s][i])}

\* The entry the walk stops at.
HaltIndex(s) == CHOOSE i \in Unpassed(s) : \A j \in Unpassed(s) : i <= j

\* Mutant: the matches that are passed over stay active.
WalkedOverNone(s) == {}

\* Passed entries the walk goes over.
Walked(s) ==
    {entries[s][i] : i \in {j \in Positions(s) :
        j >= StartIndex(s) /\ (Unpassed(s) # {} => j < HaltIndex(s))}}

Decision(s) ==
    LET off == {m \in Walked(s) : match[m].active}
        halt == entries[s][HaltIndex(s)]
        verdict == Verdict(halt, halt = sched[s].current, off)
    IN  IF Unpassed(s) = {}
        THEN [row |-> Completed(sched[s]), off |-> off, on |-> {}]
        ELSE IF verdict = "eligible"
        THEN [row |-> Activated(sched[s], halt), off |-> off,
              on |-> IF match[halt].active THEN {} ELSE {halt}]
        ELSE [row |-> WaitingAt(sched[s], halt, verdict), off |-> off, on |-> {}]

WithActive(off, on) ==
    [m \in Matches |-> [match[m] EXCEPT
        !.active = IF m \in on THEN TRUE ELSE IF m \in off THEN FALSE ELSE @]]

\* deactivateCurrent: the current entry's match, if it is active.
CurrentMatch(s) == {m \in EntriesOf(s) : m = sched[s].current}

-----------------------------------------------------------------------------
(* The runner's transactions.                                              *)

\* Mutant: the status is only checked when the request arrives.
AlwaysMayRun == TRUE

\* The tournament is read again under the lock: it may have closed since.
MayRun == tournament = "open"

\* recalculateLocked up to the verdict: the lock is taken and the entries,
\* the tournament and the active matches are read.
Read(p) ==
    /\ At(p, "read")
    /\ LET s == at[p].on IN
       /\ Free(s)
       /\ \/ /\ sched[s].status = "absent"
             /\ Finish(p)
             /\ UNCHANGED <<sched, match, lockedBy>>
          \/ /\ sched[s].status \in {"inactive", "completed"}
             /\ Then(p, mem[p], <<>>)
             /\ UNCHANGED <<sched, match, lockedBy>>
          \/ /\ sched[s].status = "running" /\ ~MayRun
             /\ sched' = [sched EXCEPT ![s] = Stopped(@, "TOURNAMENT_CLOSED")]
             /\ match' = WithActive(CurrentMatch(s), {})
             /\ Then(p, mem[p], <<>>)
             /\ UNCHANGED lockedBy
          \/ /\ sched[s].status = "running" /\ MayRun
             /\ Lock(p, s)
             /\ Directly(p, [mem[p] EXCEPT !.plan = Decision(s)],
                         OnSchedule("settle", s))
             /\ UNCHANGED <<sched, match>>
    /\ UNCHANGED <<tournament, entries, crashes>>

\* settle and the commit.  An entry deleted since the read fails the
\* foreign key and rolls the transaction back.
Settle(p) ==
    /\ At(p, "settle")
    /\ LET s == at[p].on
           plan == mem[p].plan IN
       /\ Release(s)
       /\ \/ /\ PointsAtItsEntry(plan.row, s)
             /\ sched' = [sched EXCEPT ![s] = plan.row]
             /\ match' = WithActive(plan.off, plan.on)
             /\ Then(p, [mem[p] EXCEPT !.plan = Blank.plan], <<>>)
          \/ /\ ~PointsAtItsEntry(plan.row, s)
             /\ Finish(p)
             /\ UNCHANGED <<sched, match>>
    /\ UNCHANGED <<tournament, entries, crashes>>

\* deactivateEveryMatch, which takes no lock on the schedule.
DeactivateEvery(p) ==
    /\ At(p, "deactivateEvery")
    /\ match' = WithActive(EntriesOf(at[p].on), {})
    /\ Then(p, mem[p], <<>>)
    /\ UNCHANGED <<tournament, sched, entries, lockedBy, crashes>>

\* ScheduleRunner.stop.  Stopping what does not run fails the request.
Stop(p) ==
    /\ At(p, "stop")
    /\ LET s == at[p].on IN
       /\ Free(s)
       /\ \/ /\ sched[s].status = "running"
             /\ sched' = [sched EXCEPT ![s] = Stopped(@, at[p].code)]
             /\ match' = WithActive(CurrentMatch(s), {})
             /\ Then(p, mem[p], <<>>)
          \/ /\ sched[s].status # "running"
             /\ Finish(p)
             /\ UNCHANGED <<sched, match>>
    /\ UNCHANGED <<tournament, entries, lockedBy, crashes>>

\* ScheduleRunner.interruptCompleted.
Interrupt(p) ==
    /\ At(p, "interrupt")
    /\ LET s == at[p].on IN
       /\ Free(s)
       /\ \/ /\ at[p].at \in EntriesOf(s) /\ sched[s].status = "completed"
             /\ sched' = [sched EXCEPT ![s] = InterruptedRun(@, at[p].at)]
             /\ Then(p, mem[p], <<>>)
          \/ /\ ~(at[p].at \in EntriesOf(s) /\ sched[s].status = "completed")
             /\ Finish(p)
             /\ UNCHANGED sched
    /\ UNCHANGED <<tournament, entries, match, lockedBy, crashes>>

\* The ids of the running schedules, in whatever order the query returns.
RunningSchedules == {s \in Schedules : sched[s].status = "running"}

OrdersOf(S) == {o \in [1..Cardinality(S) -> S] : ToSet(o) = S}

\* stopTournament: list, then stop one after the other.
ListRunning(p) ==
    /\ At(p, "listRunning")
    /\ \E order \in OrdersOf(RunningSchedules) :
          Then(p, mem[p], [i \in DOMAIN order |-> StopOf(order[i], "TOURNAMENT_CLOSED")])
    /\ UNCHANGED <<db, lockedBy, crashes>>

\* Mutant: the bootstrap recalculates nothing.
ReconcileNothing(p) ==
    /\ At(p, "reconcile")
    /\ Then(p, mem[p], <<>>)
    /\ UNCHANGED <<db, lockedBy, crashes>>

\* reconcileRunning, at the start of the application.
Reconcile(p) ==
    /\ At(p, "reconcile")
    /\ \E order \in OrdersOf(RunningSchedules) :
          Then(p, mem[p], [i \in DOMAIN order |-> OnSchedule("read", order[i])])
    /\ UNCHANGED <<db, lockedBy, crashes>>

\* recalculateForMatch: which schedule holds the match, read without a lock.
FindSchedule(p) ==
    /\ At(p, "findSchedule")
    /\ \/ \E s \in Schedules :
             /\ at[p].at \in EntriesOf(s)
             /\ Then(p, mem[p], <<OnSchedule("read", s)>>)
       \/ /\ \A s \in Schedules : at[p].at \notin EntriesOf(s)
          /\ Then(p, mem[p], <<>>)
    /\ UNCHANGED <<db, lockedBy, crashes>>

-----------------------------------------------------------------------------
(* ScheduleMutationGuard.                                                  *)

\* The schedule a change to m would roll back: running, with m at or before
\* the current entry.
RolledBackBy(m) ==
    {s \in Schedules :
        /\ sched[s].status = "running"
        /\ \E i \in Positions(s) :
              /\ entries[s][i] = m
              /\ \A j \in Positions(s) : entries[s][j] = sched[s].current => i <= j}

\* protectRollback: without confirmation the request is refused.
Protect(p, m, memory) ==
    \/ /\ RolledBackBy(m) = {}
       /\ Then(p, memory, <<>>)
    \/ /\ RolledBackBy(m) # {}
       /\ Finish(p)
    \/ \E s \in RolledBackBy(m) : Then(p, memory, <<StopOf(s, "ROLLBACK_CONFIRMED")>>)

GuardRollback(p) ==
    /\ At(p, "guardRollback")
    /\ Protect(p, at[p].at, mem[p])
    /\ UNCHANGED <<db, lockedBy, crashes>>

\* prepareResultReopen: a completed run is interrupted, a running one stopped.
CompletedWith(m) ==
    {s \in Schedules : sched[s].status = "completed" /\ m \in EntriesOf(s)}

PrepareReopen(p) ==
    /\ At(p, "prepareReopen")
    /\ LET m == at[p].at IN
       \/ \E s \in CompletedWith(m) :
             \/ Directly(p, mem[p], [OnSchedule("interrupt", s) EXCEPT !.at = m])
             \/ Finish(p)
       \/ CompletedWith(m) = {} /\ Protect(p, m, mem[p])
    /\ UNCHANGED <<db, lockedBy, crashes>>

\* assertManualActivationAllowed.
CheckManual(p) ==
    /\ At(p, "checkManual")
    /\ \/ RunningSchedules = {} /\ Then(p, mem[p], <<>>)
       \/ RunningSchedules # {} /\ Finish(p)
    /\ UNCHANGED <<db, lockedBy, crashes>>

-----------------------------------------------------------------------------
(* Schedule commands.                                                      *)

\* The plain save of a loaded row: the columns that differ from the table
\* are found first ...
DiffRow(p) ==
    /\ At(p, "diffRow")
    /\ LET s == at[p].on
           row == mem[p].row IN
       Directly(p, [mem[p] EXCEPT !.delta = {c \in Columns : row[c] # sched[s][c]}],
                OnSchedule("writeRow", s))
    /\ UNCHANGED <<db, lockedBy, crashes>>

\* ... and written by an UPDATE that waits for the row lock.
Merged(old, new, delta) ==
    LET Pick(c) == IF c \in delta THEN new[c] ELSE old[c]
    IN  [status |-> Pick("status"), current |-> Pick("current"),
         stale |-> Pick("stale"), interruption |-> Pick("interruption"),
         archived |-> Pick("archived")]

WriteRow(p) ==
    /\ At(p, "writeRow")
    /\ LET s == at[p].on
           row == Merged(sched[s], mem[p].row, mem[p].delta) IN
       /\ Free(s)
       /\ \/ /\ sched[s].status # "absent" /\ PointsAtItsEntry(row, s)
             /\ sched' = [sched EXCEPT ![s] = row]
             /\ Then(p, [mem[p] EXCEPT !.row = NoRow, !.delta = {}], <<>>)
          \/ /\ ~(sched[s].status # "absent" /\ PointsAtItsEntry(row, s))
             /\ Finish(p)
             /\ UNCHANGED sched
    /\ UNCHANGED <<tournament, entries, match, lockedBy, crashes>>

\* A command that loads the row, changes it in memory and saves it.
LoadRow(p, s, row, rest) ==
    /\ at' = [at EXCEPT ![p] = OnSchedule("diffRow", s)]
    /\ todo' = [todo EXCEPT ![p] = rest]
    /\ mem' = [mem EXCEPT ![p].row = row]
    /\ UNCHANGED <<db, lockedBy, crashes>>

\* start(entry?): save, take the matches back, recalculate.
Start(p, s) ==
    /\ Accept(p, "start") /\ TournamentOpen
    /\ Editable(sched[s])
    /\ \E e \in EntriesOf(s) \union {NoMatch} :
          LoadRow(p, s, Started(sched[s], e),
                  <<OnSchedule("deactivateEvery", s), OnSchedule("read", s)>>)

\* updateDetails changes columns that are not modelled.
UpdateDetails(p, s) ==
    /\ Accept(p, "update") /\ TournamentOpen
    /\ Editable(sched[s])
    /\ LoadRow(p, s, sched[s], <<>>)

\* archive and unarchive ask for no open tournament.
Archive(p, s) ==
    /\ Accept(p, "archive")
    /\ sched[s].status = "completed"
    /\ \E row \in {Archived(sched[s]), Unarchived(sched[s])} : LoadRow(p, s, row, <<>>)

\* create: the unique index refuses a match another schedule holds.
Create(p, s) ==
    /\ Accept(p, "create") /\ TournamentOpen
    /\ sched[s].status = "absent"
    /\ \E chosen \in SUBSET Matches : \E order \in OrdersOf(chosen) :
          /\ \A t \in Schedules : EntriesOf(t) \cap chosen = {}
          /\ entries' = [entries EXCEPT ![s] = order]
    /\ sched' = [sched EXCEPT ![s] = Created]
    /\ UNCHANGED <<tournament, match, lockedBy, at, todo, mem, crashes>>

\* remove: assertEditable on the loaded row, then DELETE by id.
RemoveSchedule(p, s) ==
    /\ Accept(p, "remove") /\ TournamentOpen
    /\ Editable(sched[s])
    /\ Directly(p, mem[p], OnSchedule("removeRow", s))
    /\ UNCHANGED <<db, lockedBy, crashes>>

RemoveRow(p) ==
    /\ At(p, "removeRow")
    /\ LET s == at[p].on IN
       /\ Free(s)
       /\ sched' = [sched EXCEPT ![s] = NoRow]
       /\ entries' = [entries EXCEPT ![s] = <<>>]
    /\ Then(p, mem[p], <<>>)
    /\ UNCHANGED <<tournament, match, lockedBy, crashes>>

\* Schedules other than s that give up some of the chosen matches.
Givers(s, chosen) == {t \in Schedules \ {s} : EntriesOf(t) \cap chosen # {}}

\* replaceEntries, one transaction on the locked row.  The row is checked, and
\* so is the status of the schedules giving up matches, which are not locked ...
ReplaceEntries(p, s) ==
    /\ Accept(p, "replace") /\ TournamentOpen
    /\ Free(s) /\ Editable(sched[s])
    /\ \E chosen \in SUBSET Matches : \E order \in OrdersOf(chosen) :
          /\ \A t \in Givers(s, chosen) : sched[t].status = "inactive"
          /\ Directly(p, [mem[p] EXCEPT !.order = order, !.from = Givers(s, chosen)],
                      OnSchedule("rewrite", s))
    /\ Lock(p, s)
    /\ UNCHANGED <<db, crashes>>

\* Mutant: current entries are not cleared with the entry they point at.
NobodyRobbed(from, chosen) == {}

\* ... then their entries are deleted, which clears a current entry that goes
\* with them (ON DELETE SET NULL) ...
Robbed(from, chosen) == {t \in from : sched[t].current \in chosen \intersect EntriesOf(t)}

\* ... and the new order is written, unless a third schedule took one of the
\* matches meanwhile (UQ_schedule_entry_match).
TakenMeanwhile(s, from, chosen) ==
    \E t \in Schedules \ (from \union {s}) : EntriesOf(t) \cap chosen # {}

\* Clearing a current entry waits for its schedule's row; PostgreSQL aborts a
\* transaction that waits for one that waits for it.
DeadlockedOver(p, t) ==
    LET q == lockedBy[t] IN
    /\ q # NoProc /\ q # p
    /\ At(q, "rewrite")
    /\ at[p].on \in Robbed(mem[q].from, ToSet(mem[q].order))

Rewrite(p) ==
    /\ At(p, "rewrite")
    /\ LET s == at[p].on
           from == mem[p].from
           chosen == ToSet(mem[p].order)
           robbed == Robbed(from, chosen) IN
       /\ Release(s)
       /\ \/ /\ \A t \in robbed : Free(t)
             /\ ~TakenMeanwhile(s, from, chosen)
             /\ entries' = [t \in Schedules |->
                      IF t = s THEN mem[p].order
                      ELSE IF t \in from
                      THEN [i \in DOMAIN entries[t] |->
                              IF entries[t][i] \in chosen THEN NoMatch ELSE entries[t][i]]
                      ELSE entries[t]]
             /\ sched' = [t \in Schedules |->
                      IF t \in robbed \union {s}
                      THEN [sched[t] EXCEPT !.current = NoMatch] ELSE sched[t]]
             /\ Then(p, [mem[p] EXCEPT !.order = <<>>, !.from = {}], <<>>)
          \/ /\ \A t \in robbed : Free(t)
             /\ TakenMeanwhile(s, from, chosen)
             /\ Finish(p)
             /\ UNCHANGED <<sched, entries>>
          \/ /\ \E t \in robbed : DeadlockedOver(p, t)
             /\ Finish(p)
             /\ UNCHANGED <<sched, entries>>
    /\ UNCHANGED <<tournament, match, crashes>>

StopCommand(p, s) ==
    /\ Accept(p, "stop") /\ TournamentOpen
    /\ sched[s].status # "absent"
    /\ Directly(p, mem[p], StopOf(s, "none"))
    /\ UNCHANGED <<db, lockedBy, crashes>>

\* TournamentCommands.close saves the status before it stops anything.
Close(p) ==
    /\ Accept(p, "close") /\ TournamentOpen
    /\ tournament' = "closed"
    /\ Directly(p, mem[p], [Idle EXCEPT !.step = "listRunning"])
    /\ UNCHANGED <<sched, entries, match, lockedBy, crashes>>

OpenAgain(p) ==
    /\ Accept(p, "openAgain") /\ ~TournamentOpen
    /\ tournament' = "open"
    /\ UNCHANGED <<sched, entries, match, lockedBy, at, todo, mem, crashes>>

-----------------------------------------------------------------------------
(* Match commands: load, change in memory, save the whole row, and         *)
(* recalculate the schedule when the handler does.                         *)

\* Standings exist for every player of every round only if there are some.
CanBeReady(c) == c.players # {} /\ c.rounds

\* The same match with its standings re-ranked or dropped.
Resettled(c) ==
    IF c.state = "completed" THEN {c}
    ELSE {[c EXCEPT !.state = x] : x \in IF CanBeReady(c) THEN {"open", "ready"} ELSE {"open"}}

\* A new player has no standing yet.
WithPlayer(c, q) ==
    [c EXCEPT !.players = @ \union {q},
              !.state = IF c.state = "completed" \/ q \in c.players THEN @ ELSE "open"]

WithoutPlayer(c, q) == Resettled([c EXCEPT !.players = @ \ {q}])

\* What an operation can make of the match it loaded; {} when it refuses.
Edited(o, c) ==
    CASE o = "score"    -> IF c.state # "completed" /\ CanBeReady(c) THEN Resettled(c) ELSE {}
      [] o = "run"      -> Resettled(c)     \* applyCompletedSong has no assertEditable
      [] o = "shape"    -> IF c.state = "completed" THEN {}
                           ELSE {WithPlayer(c, q) : q \in Players \ c.players}
                                \union (UNION {WithoutPlayer(c, q) : q \in c.players})
                                \union (IF c.state = "open"
                                        THEN {[c EXCEPT !.rounds = TRUE]} ELSE {})
      [] o = "rollback" -> IF c.state = "completed" THEN {}
                           ELSE (UNION {Resettled([c EXCEPT !.rounds = b]) : b \in BOOLEAN})
                                \union (UNION {WithoutPlayer(c, q) : q \in c.players})
      [] o = "commit"   -> IF c.state = "open" THEN {}
                           ELSE {[c EXCEPT !.state = "completed", !.active = FALSE]}
      [] o = "reopen"   -> {[x EXCEPT !.active = FALSE] :
                               x \in IF c.state = "completed"
                                     THEN Resettled([c EXCEPT !.state = "ready"]) ELSE {c}}

\* Mutant: only a result moves a schedule.
MovedToResult(before, after) == before.state # "completed" /\ after.state = "completed"

\* recalculateScheduleIfMoved looks at completed and ready only.
Moved(before, after) == before.state # after.state

\* Entrants move through the rules of a result: its first placement.
Targets(m) == {t \in Matches : m \in Feeders[t]}
Winner(c) == CHOOSE q \in c.players : TRUE
SeatingOf(step, m, c) ==
    IF c.players = {} THEN {<<>>}
    ELSE {[i \in DOMAIN order |-> Seating(step, order[i], Winner(c))] :
             order \in OrdersOf(Targets(m))}

\* What follows the load of m by operation o, with before and after its copies.
FollowUps(o, m, before, after) ==
    LET saved == <<AtMatch("save", m)>>
        recalculated == <<AtMatch("findSchedule", m)>>
        ifMoved == IF Moved(before, after) THEN recalculated ELSE <<>>
        reverts == IF before.state = "completed" THEN SeatingOf("unplace", m, before) ELSE {<<>>}
    IN  CASE o \in {"score", "run"}     -> {saved \o ifMoved}
          [] o \in {"shape", "rollback"} -> {saved \o recalculated}
          [] o = "commit" -> {undo \o saved \o advance \o ifMoved :
                                undo \in reverts, advance \in SeatingOf("place", m, after)}
                         \* committing again may be refused after the revert
                         \union (IF before.state = "completed" THEN reverts ELSE {})
          [] o = "reopen" -> {undo \o saved \o ifMoved : undo \in reverts}

\* Load m, apply o, and queue what the handler does next.
Edit(p, o) ==
    /\ At(p, o)
    /\ LET m == at[p].at
           c == match[m] IN
       \/ /\ Edited(o, c) = {}
          /\ Finish(p)
       \/ \E after \in Edited(o, c) : \E more \in FollowUps(o, m, c, after) :
             Then(p, [mem[p] EXCEPT !.copy[m] = after], more)
    /\ UNCHANGED <<db, lockedBy, crashes>>

\* MatchStore.save writes every column of the copy, active included.
Save(p) ==
    /\ At(p, "save")
    /\ LET m == at[p].at IN
       /\ match' = [match EXCEPT ![m] = mem[p].copy[m]]
       /\ Then(p, mem[p], <<>>)
    /\ UNCHANGED <<tournament, sched, entries, lockedBy, crashes>>

\* AdvancementRunner.writeTargetMatch, up to its save.
Seat(p) ==
    /\ \/ At(p, "place") \/ At(p, "unplace")
    /\ LET m == at[p].at
           q == at[p].who
           follow == <<AtMatch("save", m), AtMatch("findSchedule", m)>> IN
       \/ /\ At(p, "place")
          /\ Then(p, [mem[p] EXCEPT !.copy[m] = WithPlayer(match[m], q)], follow)
       \/ /\ At(p, "unplace") /\ q \in match[m].players
          /\ \E after \in WithoutPlayer(match[m], q) :
                Then(p, [mem[p] EXCEPT !.copy[m] = after], follow)
       \/ /\ At(p, "unplace") /\ q \notin match[m].players
          /\ Then(p, mem[p], <<>>)
    /\ UNCHANGED <<db, lockedBy, crashes>>

\* AdvancementRollbackGuard: a target with evidence keeps what it was given.
CanReopen(m) ==
    match[m].state = "completed" =>
        \A t \in Targets(m) :
            match[m].players # {} /\ Winner(match[m]) \in match[t].players
                => match[t].state = "open"

\* setActive: load, then the guard, then the save.
Activate(p, m) ==
    /\ Accept(p, "activate") /\ TournamentOpen
    /\ \E b \in BOOLEAN :
          /\ b => match[m].state # "completed"
          /\ mem' = [mem EXCEPT ![p].copy[m] = [match[m] EXCEPT !.active = b]]
    /\ at' = [at EXCEPT ![p] = AtMatch("checkManual", m)]
    /\ todo' = [todo EXCEPT ![p] = <<AtMatch("save", m)>>]
    /\ UNCHANGED <<db, lockedBy, crashes>>

\* The other match commands begin with their load, or with a guard before it.
Command(p, m) ==
    /\ TournamentOpen
    /\ \/ \E o \in {"score", "shape", "commit"} :
             /\ Accept(p, o)
             /\ Directly(p, mem[p], AtMatch(o, m))
       \/ /\ Accept(p, "rollback")
          /\ at' = [at EXCEPT ![p] = AtMatch("guardRollback", m)]
          /\ todo' = [todo EXCEPT ![p] = <<AtMatch("rollback", m)>>]
          /\ UNCHANGED mem
       \/ /\ Accept(p, "reopen") /\ CanReopen(m)
          /\ at' = [at EXCEPT ![p] = AtMatch("prepareReopen", m)]
          /\ todo' = [todo EXCEPT ![p] = <<AtMatch("reopen", m)>>]
          /\ UNCHANGED mem
    /\ UNCHANGED <<db, lockedBy, crashes>>

\* A song the control room reports goes to an active match that waits for it.
\* The key of a closed tournament is not recognised.
ReportRun(p, m) ==
    /\ Accept(p, "run") /\ TournamentOpen
    /\ match[m].active
    /\ Directly(p, mem[p], AtMatch("run", m))
    /\ UNCHANGED <<db, lockedBy, crashes>>

-----------------------------------------------------------------------------
\* The process dies and is started again: what was in flight is lost, open
\* transactions roll back, and nothing is accepted before the bootstrap ends.
Crash ==
    /\ crashes < MaxCrashes
    /\ crashes' = crashes + 1
    /\ at' = [p \in Procs |-> IF p = Server THEN [Idle EXCEPT !.step = "reconcile"] ELSE Idle]
    /\ todo' = [p \in Procs |-> <<>>]
    /\ mem' = [p \in Procs |-> Blank]
    /\ lockedBy' = [s \in Schedules |-> NoProc]
    /\ UNCHANGED db

Init ==
    /\ tournament = "open"
    /\ sched = [s \in Schedules |-> IF Board0[s] = <<>> THEN NoRow ELSE Created]
    /\ entries = Board0
    /\ match = Match0
    /\ lockedBy = [s \in Schedules |-> NoProc]
    /\ at = [p \in Procs |-> Idle]
    /\ todo = [p \in Procs |-> <<>>]
    /\ mem = [p \in Procs |-> Blank]
    /\ crashes = 0

Arrive(p) ==
    \/ \E s \in Schedules :
          \/ Start(p, s) \/ UpdateDetails(p, s) \/ Archive(p, s) \/ Create(p, s)
          \/ RemoveSchedule(p, s) \/ ReplaceEntries(p, s) \/ StopCommand(p, s)
    \/ \E m \in Matches : Activate(p, m) \/ Command(p, m) \/ ReportRun(p, m)
    \/ Close(p)
    \/ OpenAgain(p)

Step(p) ==
    \/ Read(p) \/ Settle(p) \/ DeactivateEvery(p) \/ Stop(p) \/ Interrupt(p)
    \/ ListRunning(p) \/ Reconcile(p) \/ FindSchedule(p)
    \/ GuardRollback(p) \/ PrepareReopen(p) \/ CheckManual(p)
    \/ DiffRow(p) \/ WriteRow(p) \/ RemoveRow(p) \/ Rewrite(p)
    \/ Save(p) \/ Seat(p)
    \/ \E o \in MatchOps \ {"activate"} : Edit(p, o)

Next ==
    \/ \E p \in Requests : Arrive(p)
    \/ \E p \in Procs : Step(p)
    \/ Crash

\* The event loop keeps serving what it has accepted, PostgreSQL answers, and
\* it hands a row lock to its waiters in turn: one that waits again and again
\* is served.
Fairness == \A p \in Procs : SF_vars(Step(p))

Spec == Init /\ [][Next]_vars
FairSpec == Spec /\ Fairness
-----------------------------------------------------------------------------
(* Properties.                                                             *)

\* Every variable holds what the code stores in it.
TypeOK ==
    /\ tournament \in {"open", "closed"}
    /\ sched \in [Schedules -> Row]
    /\ entries \in [Schedules -> Seq(Matches \union {NoMatch})]
    /\ match \in [Matches -> MatchRow]
    /\ lockedBy \in [Schedules -> Procs \union {NoProc}]
    /\ at \in [Procs -> Task]
    /\ todo \in [Procs -> Seq(Queued)]
    /\ mem \in [Procs -> Memory]
    /\ crashes \in Nat

\* Whatever requests wrote it, a schedule row is one the aggregate could have
\* produced: finished runs are clean, only runs wait, only halted schedules
\* carry an interruption, only completed ones are archived.
AllRowsOK == \A s \in Schedules : RowOK(sched[s])

\* No request is in flight and the bootstrap is over.
Quiet == \A p \in Procs : at[p] = Idle

\* Recalculating a running schedule would change nothing.
Settled(s) ==
    sched[s].status = "running" =>
        Decision(s) = [row |-> sched[s], off |-> {}, on |-> {}]

\* Once the requests are over, each running schedule stands where its matches
\* say: recalculateScheduleIfMoved and the other triggers miss nothing.
QuietIsSettled == Quiet /\ TournamentOpen => \A s \in Schedules : Settled(s)

\* Once the requests are over, a running schedule has no active match but its
\* current one.
OnlyCurrentIsActive ==
    Quiet => \A s \in Schedules : sched[s].status = "running" =>
        \A m \in EntriesOf(s) : match[m].active => m = sched[s].current

\* A match is on at most one schedule, once, and a schedule stands at an entry
\* of its own.
BoardsAreSound ==
    \A s \in Schedules :
        /\ \A i, j \in Positions(s) : entries[s][i] = entries[s][j] => i = j
        /\ \A t \in Schedules \ {s} : EntriesOf(s) \cap EntriesOf(t) = {}
        /\ PointsAtItsEntry(sched[s], s)

\* Once the requests are over, a closed tournament runs no schedule.
ClosedIsStopped == Quiet /\ ~TournamentOpen => RunningSchedules = {}

\* No player is asked to play two active matches of running schedules at once.
OnAir == {m \in Matches : match[m].active /\ \E s \in RunningSchedules : sched[s].current = m}
NobodyPlaysTwice ==
    \A m, o \in OnAir : m # o => match[m].players \cap match[o].players = {}

\* A run moves only over passed matches: no step takes a running schedule past
\* an entry that still has to be played.
Position(s, m) == CHOOSE i \in Positions(s) : entries[s][i] = m
LeftBehind(s) ==
    {entries[s][i] : i \in {j \in Positions(s) :
        /\ j >= StartIndex(s)
        /\ sched'[s].status = "running" => j < Position(s, sched'[s].current)}}
SkipsNothing ==
    [][\A s \in Schedules :
        (/\ sched[s].status = "running" /\ sched'[s] # sched[s]
         /\ sched'[s].status \in {"running", "completed"}
         /\ sched'[s].current # NoMatch \/ sched'[s].status = "completed")
        => \A m \in LeftBehind(s) : Passed(m)]_vars

\* Every request is answered and every bootstrap ends: no lock is kept and no
\* step waits for ever.
EveryoneIsAnswered == \A p \in Procs : at[p] # Idle ~> at[p] = Idle
=============================================================================
