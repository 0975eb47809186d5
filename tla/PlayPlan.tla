------------------------------ MODULE PlayPlan ------------------------------
(***************************************************************************)
(* The play plan of one tournament: the lanes a control room polls, cached *)
(* in the API process under the planVersion column, and the commands that  *)
(* change the lanes and then bump the version.                             *)
(*                                                                         *)
(* A poll awaits the version and, when the cache holds another one, the    *)
(* lanes; what it read may be old when it compares or stores.  A command   *)
(* saves first and bumps after.  The commands that save the tournament     *)
(* itself write back the version they loaded when it differs from the      *)
(* table's.                                                                *)
(***************************************************************************)
EXTENDS Naturals

CONSTANTS
    Lanes,          \* the contents the lanes may have
    NoLanes,        \* a control room that was told nothing yet
    ControlRooms,   \* polls in flight, one for each control room
    Commands,       \* commands that change lanes
    Savers,         \* commands that save the tournament row
    MaxCommands,    \* bound: saves begun in one behaviour
    MaxCrashes      \* bound: restarts of the API in one behaviour

ASSUME PlayPlanAssumption ==
    /\ NoLanes \notin Lanes
    /\ ControlRooms \cap (Commands \union Savers) = {}
    /\ MaxCommands \in Nat /\ MaxCrashes \in Nat

VARIABLES
    lanes,      \* what LANES_OF_TOURNAMENT returns
    version,    \* tournament.planVersion
    cache,      \* the process's entry for the tournament, {} without one
    at,         \* at[p]: the step p is about to take
    mem,        \* mem[p]: what p has read
    view,       \* view[c]: the lanes c was last told
    commands, crashes,
    recent,     \* history: what the lanes have been since nothing was owed
    allowed     \* history: what the lanes have been for the poll of c

vars == <<lanes, version, cache, at, mem, view, commands, crashes, recent, allowed>>

Writers == Commands \union Savers
Procs == ControlRooms \union Writers

Steps == {"idle", "version", "compare", "lanes", "store", "bump", "diff", "write"}

Memory == [version : Nat, lanes : Lanes \union {NoLanes}, dirty : BOOLEAN]

Blank == [version |-> 0, lanes |-> NoLanes, dirty |-> FALSE]

Plan == [version : Nat, lanes : Lanes]

\* Commands that have saved and not bumped yet.
Owed == {p \in Writers : at[p] = "bump"}

Go(p, step) == at' = [at EXCEPT ![p] = step]

-----------------------------------------------------------------------------
(* Polls: GET play-plan, and the stamp on the answer to a run.             *)

Begin(c) ==
    /\ at[c] = "idle"
    /\ Go(c, "version")
    /\ allowed' = [allowed EXCEPT ![c] = recent]
    /\ UNCHANGED <<lanes, version, cache, mem, view, commands, crashes, recent>>

ReadVersion(c) ==
    /\ at[c] = "version"
    /\ mem' = [mem EXCEPT ![c].version = version]
    /\ Go(c, "compare")
    /\ UNCHANGED <<lanes, version, cache, view, commands, crashes, recent, allowed>>

\* 304 or the plan: the control room has these lanes either way.
Answer(c, seen) ==
    /\ view' = [view EXCEPT ![c] = seen]
    /\ Go(c, "idle")
    /\ mem' = [mem EXCEPT ![c] = Blank]
    /\ allowed' = [allowed EXCEPT ![c] = {}]

\* Mutant: any cached plan will do.
CompareNothing(c) ==
    /\ at[c] = "compare"
    /\ \/ \E plan \in cache : Answer(c, plan.lanes)
       \/ cache = {} /\ Go(c, "lanes") /\ UNCHANGED <<mem, view, allowed>>
    /\ UNCHANGED <<lanes, version, cache, commands, crashes, recent>>

Compare(c) ==
    /\ at[c] = "compare"
    /\ \/ \E plan \in cache :
             plan.version = mem[c].version /\ Answer(c, plan.lanes)
       \/ /\ \A plan \in cache : plan.version # mem[c].version
          /\ Go(c, "lanes")
          /\ UNCHANGED <<mem, view, allowed>>
    /\ UNCHANGED <<lanes, version, cache, commands, crashes, recent>>

ReadLanes(c) ==
    /\ at[c] = "lanes"
    /\ mem' = [mem EXCEPT ![c].lanes = lanes]
    /\ Go(c, "store")
    /\ UNCHANGED <<lanes, version, cache, view, commands, crashes, recent, allowed>>

Built(c) == [version |-> mem[c].version, lanes |-> mem[c].lanes]

Store(c) ==
    /\ at[c] = "store"
    /\ cache' = {Built(c)}
    /\ Answer(c, mem[c].lanes)
    /\ UNCHANGED <<lanes, version, commands, crashes, recent>>

Poll(c) == ReadVersion(c) \/ Compare(c) \/ ReadLanes(c) \/ Store(c)

-----------------------------------------------------------------------------
(* Commands.                                                               *)

\* A save that changes the lanes; a command may save more than once, as close
\* does when it stops the schedules after the tournament is saved.
Change(p, new) ==
    /\ at[p] \in {"idle", "bump"}
    /\ commands < MaxCommands
    /\ commands' = commands + 1
    /\ lanes' = new
    /\ Go(p, "bump")
    /\ recent' = recent \union {new}
    /\ allowed' = [c \in ControlRooms |->
                      IF allowed[c] = {} THEN {} ELSE allowed[c] \union {new}]
    /\ UNCHANGED <<version, cache, mem, view, crashes>>

\* Mutant: the update is published and the version stays.
PublishOnly(p) ==
    /\ at[p] = "bump"
    /\ Go(p, "idle")
    /\ mem' = [mem EXCEPT ![p] = Blank]
    /\ recent' = IF Owed \ {p} = {} THEN {lanes} ELSE recent
    /\ UNCHANGED <<lanes, version, cache, view, commands, crashes, allowed>>

\* UiUpdatePublisher.publish: the bump, then the event.
Bump(p) ==
    /\ at[p] = "bump"
    /\ version' = version + 1
    /\ Go(p, "idle")
    /\ mem' = [mem EXCEPT ![p] = Blank]
    /\ recent' = IF Owed \ {p} = {} THEN {lanes} ELSE recent
    /\ UNCHANGED <<lanes, cache, view, commands, crashes, allowed>>

\* TournamentStore.loadOrFail reads every column.
Load(p) ==
    /\ at[p] = "idle"
    /\ commands < MaxCommands
    /\ commands' = commands + 1
    /\ mem' = [mem EXCEPT ![p].version = version]
    /\ Go(p, "diff")
    /\ UNCHANGED <<lanes, version, cache, view, crashes, recent, allowed>>

\* TournamentStore.save: the columns that differ from the table's ...
Diff(p) ==
    /\ at[p] = "diff"
    /\ mem' = [mem EXCEPT ![p].dirty = (mem[p].version # version)]
    /\ Go(p, "write")
    /\ UNCHANGED <<lanes, version, cache, view, commands, crashes, recent, allowed>>

\* ... are written, the version among them.
Write(p) ==
    /\ at[p] = "write"
    /\ version' = IF mem[p].dirty THEN mem[p].version ELSE version
    /\ Go(p, "bump")
    /\ UNCHANGED <<lanes, cache, mem, view, commands, crashes, recent, allowed>>

\* The process is started again, with an empty cache.
Crash ==
    /\ crashes < MaxCrashes
    /\ crashes' = crashes + 1
    /\ cache' = {}
    /\ at' = [p \in Procs |-> "idle"]
    /\ mem' = [p \in Procs |-> Blank]
    /\ recent' = {lanes}
    /\ allowed' = [c \in ControlRooms |-> {}]
    /\ UNCHANGED <<lanes, version, view, commands>>

Init ==
    /\ lanes \in Lanes
    /\ version = 0
    /\ cache = {}
    /\ at = [p \in Procs |-> "idle"]
    /\ mem = [p \in Procs |-> Blank]
    /\ view = [c \in ControlRooms |-> NoLanes]
    /\ commands = 0 /\ crashes = 0
    /\ recent = {lanes}
    /\ allowed = [c \in ControlRooms |-> {}]

Next ==
    \/ \E c \in ControlRooms : Begin(c) \/ Poll(c)
    \/ \E p \in Commands, new \in Lanes : Change(p, new)
    \/ \E p \in Savers : Load(p) \/ Diff(p) \/ Write(p)
    \/ \E p \in Writers : Bump(p)
    \/ Crash

\* The event loop serves what it has accepted, and control rooms go on polling.
Fairness ==
    /\ \A c \in ControlRooms : WF_vars(Begin(c)) /\ WF_vars(Poll(c))
    /\ \A p \in Savers : WF_vars(Diff(p) \/ Write(p))
    /\ \A p \in Writers : WF_vars(Bump(p))

Spec == Init /\ [][Next]_vars
FairSpec == Spec /\ Fairness

-----------------------------------------------------------------------------
(* Properties.                                                             *)

\* Every variable holds what the code stores in it.
TypeOK ==
    /\ lanes \in Lanes
    /\ version \in Nat
    /\ cache \in SUBSET Plan
    /\ at \in [Procs -> Steps]
    /\ mem \in [Procs -> Memory]
    /\ view \in [ControlRooms -> Lanes \union {NoLanes}]
    /\ commands \in Nat /\ crashes \in Nat
    /\ recent \in SUBSET Lanes
    /\ allowed \in [ControlRooms -> SUBSET Lanes]

\* With no change left to announce, the plan the process would answer from its
\* cache is the one it would build without: PlayPlanService.current compares
\* the versions and nothing else.
CacheIsCurrent ==
    Owed = {} => \A plan \in cache : plan.version = version => plan.lanes = lanes

\* A poll answers what PlanRegister allows, whatever commands, other polls and
\* restarts interleave with its awaits.
Register == INSTANCE PlanRegister WITH owed <- Owed, Commands <- Writers
AnswersAreAllowed == Register!Spec

\* Once the commands are over, every control room ends up with the lanes.
EverybodyCatchesUp == <>[](\A c \in ControlRooms : view[c] = lanes)
=============================================================================
