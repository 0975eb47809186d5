--------------------------- MODULE StartggImport ---------------------------
(***************************************************************************)
(* The import of a Start.gg event into a tournament, the preview of it,    *)
(* and the results reported back.  An import reads the event once, walks   *)
(* it table by table with a write per step and no transaction around them, *)
(* and writes which row stands for which external id only at the very end. *)
(* Organisers delete rows, enter players and commit results meanwhile, the *)
(* event changes at Start.gg, and the API may crash.                       *)
(*                                                                         *)
(* One event and one import at a time; gamer tags are distinct, so that an *)
(* external participant stands for its tag.  Names, seed numbers, bracket  *)
(* types, scores and the status of entrants are left out.                  *)
(***************************************************************************)
EXTENDS Integers, FiniteSets, SequencesExt

CONSTANTS Party,      \* Party[e]: the participants of external entrant e
          Events,     \* what the event may look like at Start.gg
          FirstEvents, \* what it may look like at first
          Registered, \* participants somebody registered by hand before
          None,       \* no row, no snapshot, no winner, no group, no phase
          MaxImports, \* bound: imports
          MaxMoves    \* bound: edits, changes at Start.gg, faults, expiries

ASSUME EventsAssumption == FirstEvents \subseteq Events

VARIABLES db,        \* the tables, the advancement rules and the mappings
          remote,    \* the event at Start.gg and the winners of its sets
          held,      \* the snapshot kept for five minutes, or None
          import,    \* the import under way, or the last one
          reporting, \* committed results on their way to Start.gg
          reports,   \* history: set |-> the entrant whose win Start.gg took
          imports,   \* counts against MaxImports
          moves      \* counts against MaxMoves

vars == <<db, remote, held, import, reporting, reports, imports, moves>>

----------------------------------------------------------------------------
(* Events and snapshots.  A phase is [id, seeds, groups], a group          *)
(* [id, sets], a set [id, group, phase, slots] and a slot [entrant, from], *)
(* from = None or [kind, id, placement].                                   *)

Event == 0          \* the external id of the event
DefaultPhase == 0   \* the phase made up for an event that has none

Unique(s) ==
  LET first == SelectSeq([i \in DOMAIN s |-> i], LAMBDA i : \A j \in 1..(i-1) : s[j] # s[i])
  IN [k \in DOMAIN first |-> s[first[k]]]

Each(f(_), s) == [i \in DOMAIN s |-> f(s[i])]
Tagged(tag, s) == [i \in DOMAIN s |-> <<tag, s[i]>>]
Ids(s) == [i \in DOMAIN s |-> s[i].id]

Groups(event) == FlattenSeq([i \in DOMAIN event.phases |-> event.phases[i].groups])
GroupSets(event) == LET groups == Groups(event) IN FlattenSeq([i \in DOMAIN groups |-> groups[i].sets])
Filled(set) == SelectSeq([i \in DOMAIN set.slots |-> set.slots[i].entrant], LAMBDA e : e # None)
People(event) == Unique(FlattenSeq([i \in DOMAIN event.entrants |-> Party[event.entrants[i]]]))

BarePhase(id) == [id |-> id, seeds |-> <<>>, groups |-> <<>>]

\* Sets may name phases the event does not list, and it may list none.
EffectivePhases(event) ==
  LET sets == GroupSets(event)
      known == ToSet(Ids(event.phases)) \cup {None}
      named == Unique(SelectSeq([i \in DOMAIN sets |-> sets[i].phase], LAMBDA p : p \notin known))
      phases == event.phases \o [i \in DOMAIN named |-> BarePhase(named[i])]
  IN IF phases = <<>> THEN <<BarePhase(DefaultPhase)>> ELSE phases

\* Start.gg seats the winner of a set where a slot asks for it.
Seen(event, winner) ==
  LET Asks(slot) == /\ slot.entrant = None /\ slot.from # None
                    /\ slot.from.kind = "match" /\ slot.from.placement = 1 /\ slot.from.id \in DOMAIN winner
      Slot(slot) == IF Asks(slot) THEN [slot EXCEPT !.entrant = winner[slot.from.id]] ELSE slot
      Set(set) == [set EXCEPT !.slots = Each(Slot, @)]
      Group(group) == [group EXCEPT !.sets = Each(Set, @)]
      Phase(phase) == [phase EXCEPT !.groups = Each(Group, @)]
  IN [event EXCEPT !.phases = Each(Phase, @)]

BuildEventSnapshot == IF held # None THEN held
                      ELSE [event |-> Seen(remote.event, remote.winner), winner |-> remote.winner]

\* The rules an event asks for, between external ids.
Source(event, from) ==
  \/ from.kind = "match" /\ from.id \in ToSet(Ids(GroupSets(event)))
  \/ from.kind = "pool" /\ from.id \in ToSet(Ids(Groups(event)))
SlotRules(event) ==
  {[from |-> <<s.slots[i].from.kind, s.slots[i].from.id>>, placement |-> s.slots[i].from.placement,
    to |-> <<"match", s.id>>, slot |-> i] :
      <<s, i>> \in {<<s, i>> \in ToSet(GroupSets(event)) \X (1..2) :
                      i \in DOMAIN s.slots /\ s.slots[i].from # None /\ Source(event, s.slots[i].from)}}
Progressions(event) ==
  {[from |-> <<"pool", p.from>>, placement |-> p.placement, to |-> <<"pool", p.to>>, slot |-> p.slot] :
      p \in {p \in event.progressions : {p.from, p.to} \subseteq ToSet(Ids(Groups(event)))}}

\* The order of an import: one item for each write.
Work(event) ==
  <<<<"division", Event>>, <<"players", Event>>, <<"people", Event>>>>
    \o Tagged("entrant", event.entrants)
    \o Tagged("phase", Ids(EffectivePhases(event)))
    \o FlattenSeq([i \in DOMAIN Groups(event) |-> <<<<"pool", Groups(event)[i]>>, <<"seats", Groups(event)[i]>>>>])
    \o <<<<"fallback", Event>>, <<"matches", Event>>, <<"clear", Event>>>>
    \o Tagged("rule", SetToSeq(Progressions(event)))
    \o Tagged("rule", SetToSeq(SlotRules(event)))
    \o <<<<"results", Event>>>>
    \o Tagged("spare", Ids(EffectivePhases(event)))
    \o <<<<"flush", Event>>>>

----------------------------------------------------------------------------
(* Tables.                                                                 *)

Without(f, keys) == [k \in DOMAIN f \ keys |-> f[k]]
Exists(d, kind, id) == id \in DOMAIN d[kind]
Inserted(d, kind, row) == [d EXCEPT ![kind] = (d.next :> row) @@ @, !.next = @ + 1]
InsertedAll(d, kind, rows) ==
  [d EXCEPT ![kind] = [id \in d.next..(d.next + Len(rows) - 1) |-> rows[id - d.next + 1]] @@ @,
            !.next = @ + Len(rows)]

\* Deleting a row deletes what hangs from it, but no advancement rule.
Purged(d, divisions, phases, pools, matches) ==
  LET phs == phases \cup {p \in DOMAIN d.phase : d.phase[p] \in divisions}
      pls == pools \cup {g \in DOMAIN d.pool : d.pool[g].phase \in phs}
      mts == matches \cup {m \in DOMAIN d.match : d.match[m].pool \in pls}
      ents == {e \in DOMAIN d.entrant : d.entrant[e].division \in divisions}
  IN [d EXCEPT !.division = Without(@, divisions), !.phase = Without(@, phs), !.pool = Without(@, pls),
               !.match = Without(@, mts), !.entrant = Without(@, ents)]

TheOne(ids) == IF ids = {} THEN None ELSE CHOOSE id \in ids : \A other \in ids : id <= other
PlayerNamed(d, tag) == TheOne({i \in DOMAIN d.player : d.player[i] = tag})
ParticipantNamed(d, tag) ==
  LET player == PlayerNamed(d, tag)
  IN TheOne({i \in DOMAIN d.participant : d.participant[i] = player})
EntrantWith(d, division, participant) ==
  TheOne({e \in DOMAIN d.entrant : d.entrant[e].division = division /\ participant \in ToSet(d.entrant[e].participants)})
DefaultForPhase(d, phase) == TheOne({g \in DOMAIN d.pool : d.pool[g].phase = phase})

\* What a mapping leads to, if its row is still there.
Mapped(d, mappings, kind, ext) ==
  IF <<kind, ext>> \in DOMAIN mappings /\ Exists(d, kind, mappings[<<kind, ext>>])
  THEN mappings[<<kind, ext>>] ELSE None

----------------------------------------------------------------------------
(* The preview: the rows an import of the snapshot would link, None for    *)
(* those it would create.                                                  *)

PreviewImport(d, event) ==
  LET Found(kind, ext) == Mapped(d, d.mappings, kind, ext)
      division == Found("division", Event)
      Participant(p) == IF Found("participant", p) # None THEN Found("participant", p)
                        ELSE IF PlayerNamed(d, p) # None THEN ParticipantNamed(d, p) ELSE None
      Entrant(e) == IF Found("entrant", e) # None THEN Found("entrant", e)
                    ELSE IF division # None /\ Len(Party[e]) = 1 /\ Participant(Party[e][1]) # None
                    THEN EntrantWith(d, division, Participant(Party[e][1])) ELSE None
      nodes == {<<"division", Event>>} \cup ToSet(Tagged("participant", People(event)))
                 \cup ToSet(Tagged("entrant", event.entrants))
                 \cup ToSet(Tagged("phase", Ids(EffectivePhases(event))))
                 \cup ToSet(Tagged("match", Ids(GroupSets(event))))
  IN [node \in nodes |-> CASE node[1] = "participant" -> Participant(node[2])
                           [] node[1] = "entrant" -> Entrant(node[2])
                           [] OTHER -> Found(node[1], node[2])]

\* A preview reads the event, and leaves its snapshot for the import.
Preview ==
  /\ held = None
  /\ moves < MaxMoves
  /\ held' = BuildEventSnapshot
  /\ moves' = moves + 1
  /\ UNCHANGED <<db, remote, import, reporting, reports, imports>>

Expire ==
  /\ held # None
  /\ moves < MaxMoves
  /\ held' = None
  /\ moves' = moves + 1
  /\ UNCHANGED <<db, remote, import, reporting, reports, imports>>

----------------------------------------------------------------------------
(* The import.                                                             *)

Resting == import.todo = <<>>

StartImport ==
  /\ Resting
  /\ imports < MaxImports
  /\ LET snap == BuildEventSnapshot IN
       /\ held' = snap
       /\ import' = [todo |-> Work(snap.event), snap |-> snap, cache |-> db.mappings,
                     copies |-> <<>>, fallback |-> None, outcome |-> "under way", calm |-> TRUE,
                     before |-> db, plan |-> PreviewImport(db, snap.event),
                     again |-> import.outcome = "done" /\ import.calm /\ import.snap = snap]
  /\ imports' = imports + 1
  /\ UNCHANGED <<db, remote, reporting, reports, moves>>

Doing(step) == ~Resting /\ Head(import.todo)[1] = step
Item == Head(import.todo)[2]
Snap == import.snap.event
Local(kind, ext) == import.cache[<<kind, ext>>]
Known(kind, ext) == Mapped(db, import.cache, kind, ext)

\* One step is over: the tables and the mappings, still in memory, are these.
Went(d, cache) ==
  /\ db' = d
  /\ import' = [import EXCEPT !.todo = Tail(@), !.cache = cache]
  /\ UNCHANGED <<remote, held, reporting, reports, imports, moves>>

CacheMapping(kind, ext, id) == (<<kind, ext>> :> id) @@ import.cache

\* The row with this id, or a new one.
Ensured(kind, ext, id, row) ==
  IF id # None THEN Went(db, CacheMapping(kind, ext, id))
  ELSE Went(Inserted(db, kind, row), CacheMapping(kind, ext, db.next))

EnsureDivision == Doing("division") /\ Ensured("division", Event, Known("division", Event), None)
Division == Local("division", Event)

Unregistered == SelectSeq(People(Snap), LAMBDA p : Known("participant", p) = None)

CreatePlayers ==
  /\ Doing("players")
  /\ Went(InsertedAll(db, "player", SelectSeq(Unregistered, LAMBDA p : PlayerNamed(db, p) = None)), import.cache)

RegisterAll ==
  /\ Doing("people")
  /\ LET newcomers == SelectSeq(Unregistered, LAMBDA p : ParticipantNamed(db, p) = None)
         d == InsertedAll(db, "participant", [i \in DOMAIN newcomers |-> PlayerNamed(db, newcomers[i])])
         IdOf(p) == IF Known("participant", p) # None THEN Known("participant", p) ELSE ParticipantNamed(d, p)
     IN Went(d, [key \in ToSet(Tagged("participant", People(Snap))) |-> IdOf(key[2])] @@ import.cache)

Members(e) == [i \in DOMAIN Party[e] |-> Local("participant", Party[e][i])]
\* Mutant: a player who is in the division already is not looked for.
MappedEntrantId(e) ==
  LET known == Known("entrant", e)
  IN IF known # None /\ db.entrant[known].division = Division THEN known ELSE None

\* A mapped entrant counts in its division only; one player may be there unmapped.
EntrantId(e) ==
  LET known == Known("entrant", e)
  IN IF known # None /\ db.entrant[known].division = Division THEN known
     ELSE IF Len(Party[e]) = 1 THEN EntrantWith(db, Division, Members(e)[1]) ELSE None

EnsureEntrant ==
  /\ Doing("entrant")
  /\ LET id == EntrantId(Item)
         team == Len(Party[Item]) > 1
     IN IF id # None /\ team
        THEN Went([db EXCEPT !.entrant[id].participants = Members(Item)], CacheMapping("entrant", Item, id))
        ELSE Ensured("entrant", Item, id, [division |-> Division, participants |-> Members(Item)])

PhaseId(p) == LET known == Known("phase", p)
              IN IF known # None /\ db.phase[known] = Division THEN known ELSE None

EnsurePhase == Doing("phase") /\ Ensured("phase", Item, PhaseId(Item), Division)

PhaseOf(group) == CHOOSE p \in ToSet(EffectivePhases(Snap)) : group \in ToSet(p.groups)

EnsurePhaseGroup ==
  /\ Doing("pool")
  /\ Ensured("pool", Item.id, Known("pool", Item.id), [phase |-> Local("phase", PhaseOf(Item).id), seats |-> <<>>])

\* The entrants of the sets of a group, the seeded ones first.
SeatOrder(group) ==
  LET present == Unique(FlattenSeq([i \in DOMAIN group.sets |-> Filled(group.sets[i])]))
      seeds == PhaseOf(group).seeds
  IN SelectSeq(seeds, LAMBDA e : e \in ToSet(present)) \o SelectSeq(present, LAMBDA e : e \notin ToSet(seeds))

SeatEntrants ==
  /\ Doing("seats")
  /\ LET order == SeatOrder(Item)
     IN Went([db EXCEPT !.pool[Local("pool", Item.id)].seats = [i \in DOMAIN order |-> Local("entrant", order[i])]],
             import.cache)

SetsOfEvent == GroupSets(Snap)
HasGroup(set) == set.group \in ToSet(Ids(Groups(Snap)))
FallbackPhase == Local("phase", EffectivePhases(Snap)[1].id)
TargetPool(set) == IF HasGroup(set) THEN Local("pool", set.group) ELSE import.fallback
NeedsFallback == \E set \in ToSet(SetsOfEvent) : ~HasGroup(set)

\* The copies of the matches that are there, and the pool of sets without one.
ResolveFallback ==
  /\ Doing("fallback")
  /\ LET pool == DefaultForPhase(db, FallbackPhase)
         create == NeedsFallback /\ pool = None
         found == {s \in ToSet(Ids(SetsOfEvent)) : Known("match", s) # None}
     IN /\ db' = IF create THEN Inserted(db, "pool", [phase |-> FallbackPhase, seats |-> <<>>]) ELSE db
        /\ import' = [import EXCEPT !.todo = Tail(@),
                        !.fallback = IF ~NeedsFallback THEN None ELSE IF create THEN db.next ELSE pool,
                        !.copies = [s \in found |-> db.match[Known("match", s)].result]]
  /\ UNCHANGED <<remote, held, reporting, reports, imports, moves>>

Copied(set, result) ==
  [pool |-> TargetPool(set), result |-> result,
   entrants |-> {Local("entrant", e) : e \in ToSet(Filled(set)) \cap ToSet(Snap.entrants)}]

\* Saving a copy inserts a row that somebody has deleted since.
SaveMatches ==
  /\ Doing("matches")
  /\ LET found == DOMAIN import.copies
         new == SelectSeq(Ids(SetsOfEvent), LAMBDA s : s \notin found)
         IdOf(s) == IF s \in found THEN Local("match", s)
                    ELSE db.next - 1 + CHOOSE i \in DOMAIN new : new[i] = s
         rows == [id \in {IdOf(set.id) : set \in ToSet(SetsOfEvent)} |->
                    LET set == CHOOSE set \in ToSet(SetsOfEvent) : IdOf(set.id) = id
                    IN Copied(set, IF set.id \in found THEN import.copies[set.id] ELSE None)]
     IN Went([db EXCEPT !.match = rows @@ @, !.next = @ + Len(new)],
             [key \in ToSet(Tagged("match", Ids(SetsOfEvent))) |-> IdOf(key[2])] @@ import.cache)

RuleSources ==
  {<<"match", Local("match", s)>> : s \in ToSet(Ids(SetsOfEvent))}
    \cup {<<"pool", Local("pool", g)>> : g \in ToSet(Ids(Groups(Snap)))}
    \cup (IF import.fallback = None THEN {} ELSE {<<"pool", import.fallback>>})

\* Mutant: only the rules of the matches are cleared.
ClearMatchRules ==
  Doing("clear") /\ Went([db EXCEPT !.rules = {r \in @ : r.from[1] = "pool" \/ r.from \notin RuleSources}], import.cache)

ClearRules == Doing("clear") /\ Went([db EXCEPT !.rules = {r \in @ : r.from \notin RuleSources}], import.cache)

Resolved(rule, mappings) == [rule EXCEPT !.from = <<@[1], mappings[@]>>, !.to = <<@[1], mappings[@]>>]

CreateRule == Doing("rule") /\ Went([db EXCEPT !.rules = @ \cup {Resolved(Item, import.cache)}], import.cache)

\* Mutant: the points are not sorted by placement.
FirstSlotWins(set, winner, d, mappings) ==
  IF winner[set.id] = None \/ winner[set.id] \notin ToSet(Filled(set)) THEN None
  ELSE d.participant[d.entrant[mappings[<<"entrant", Filled(set)[1]>>]].participants[1]]

\* The first player of the entrant Start.gg places first, if the set is over.
Outcome(set, winner, d, mappings) ==
  IF winner[set.id] = None \/ winner[set.id] \notin ToSet(Filled(set)) THEN None
  ELSE d.participant[d.entrant[mappings[<<"entrant", winner[set.id]>>]].participants[1]]

SaveResults ==
  /\ Doing("results")
  /\ LET rows == [id \in {Local("match", s) : s \in ToSet(Ids(SetsOfEvent))} |->
                    LET set == CHOOSE set \in ToSet(SetsOfEvent) : Local("match", set.id) = id
                    IN Copied(set, Outcome(set, import.snap.winner, db, import.cache))]
     IN Went([db EXCEPT !.match = rows @@ @], import.cache)

\* Mutant: a phase gets a pool whether it has one or not.
AddPool ==
  /\ Doing("spare")
  /\ Went(Inserted(db, "pool", [phase |-> Local("phase", Item), seats |-> <<>>]), import.cache)

KeepPool ==
  /\ Doing("spare")
  /\ LET phase == Local("phase", Item)
     IN Went(IF DefaultForPhase(db, phase) # None THEN db ELSE Inserted(db, "pool", [phase |-> phase, seats |-> <<>>]),
             import.cache)

FlushMappingCache ==
  /\ Doing("flush")
  /\ db' = [db EXCEPT !.mappings = import.cache @@ @]
  /\ import' = [import EXCEPT !.todo = <<>>, !.outcome = "done"]
  /\ UNCHANGED <<remote, held, reporting, reports, imports, moves>>

\* A row the next step stands on has been deleted, or a mapped pool is gone.
Stands ==
  LET division == Exists(db, "division", Division)
      phase(p) == Exists(db, "phase", Local("phase", p))
      pools == \A set \in ToSet(SetsOfEvent) : Exists(db, "pool", TargetPool(set))
  IN /\ Doing("entrant") => EntrantId(Item) # None \/ division
     /\ Doing("phase") => PhaseId(Item) # None \/ division
     /\ Doing("pool") => IF <<"pool", Item.id>> \in DOMAIN import.cache THEN Known("pool", Item.id) # None
                         ELSE phase(PhaseOf(Item).id)
     /\ Doing("seats") => Exists(db, "pool", Local("pool", Item.id))
     /\ Doing("fallback") /\ NeedsFallback => Exists(db, "phase", FallbackPhase)
     /\ Doing("matches") \/ Doing("results") => pools
     /\ Doing("spare") => phase(Item)

Fail ==
  /\ ~Resting
  /\ ~Stands
  /\ import' = [import EXCEPT !.todo = <<>>, !.outcome = "failed"]
  /\ UNCHANGED <<db, remote, held, reporting, reports, imports, moves>>

Step ==
  /\ ~Resting
  /\ Stands
  /\ \/ EnsureDivision \/ CreatePlayers \/ RegisterAll \/ EnsureEntrant
     \/ EnsurePhase \/ EnsurePhaseGroup \/ SeatEntrants
     \/ ResolveFallback \/ SaveMatches \/ ClearRules \/ CreateRule \/ SaveResults
     \/ KeepPool \/ FlushMappingCache

\* The API dies: the snapshot, the mappings not yet written and the reports go.
Crash ==
  /\ ~Resting \/ reporting # {}
  /\ moves < MaxMoves
  /\ import' = IF Resting THEN import ELSE [import EXCEPT !.todo = <<>>, !.outcome = "lost"]
  /\ held' = None
  /\ reporting' = {}
  /\ moves' = moves + 1
  /\ UNCHANGED <<db, remote, reports, imports>>

----------------------------------------------------------------------------
(* The organisers.                                                         *)

Edited(d) ==
  /\ db' = d
  /\ import' = [import EXCEPT !.calm = FALSE]
  /\ moves' = moves + 1
  /\ UNCHANGED <<remote, held, reports, imports>>

Edit(d) == Edited(d) /\ UNCHANGED reporting

DeleteMatch(m) ==
  Edit([Purged(db, {}, {}, {}, {m}) EXCEPT !.rules = {r \in @ : <<"match", m>> \notin {r.from, r.to}}])

\* A phase keeps a pool.
DeletePool(g) ==
  /\ \E other \in DOMAIN db.pool \ {g} : db.pool[other].phase = db.pool[g].phase
  /\ Edit(Purged(db, {}, {}, {g}, {}))

DeletePhase(p) == Edit(Purged(db, {}, {p}, {}, {}))
DeleteDivision(d) == Edit(Purged(db, {d}, {}, {}, {}))

AddParticipant(division, participant) ==
  /\ EntrantWith(db, division, participant) = None
  /\ Edit(Inserted(db, "entrant", [division |-> division, participants |-> <<participant>>]))

OrganiserEdits ==
  /\ moves < MaxMoves
  /\ \/ \E m \in DOMAIN db.match : DeleteMatch(m)
     \/ \E g \in DOMAIN db.pool : DeletePool(g)
     \/ \E p \in DOMAIN db.phase : DeletePhase(p)
     \/ \E d \in DOMAIN db.division : DeleteDivision(d)
     \/ \E d \in DOMAIN db.division, p \in DOMAIN db.participant : AddParticipant(d, p)

\* A result is committed, its entrants advance, and it is to be reported.
\* Where a rule dangles or the pool feeds others, see Advancement.
CommitResult ==
  /\ moves < MaxMoves
  /\ \E m \in DOMAIN db.match : \E e \in db.match[m].entrants : \E p \in ToSet(db.entrant[e].participants) :
       LET match == db.match[m]
           Fed(to, placement) == \E r \in db.rules : r.from = <<"match", m>> /\ r.to = <<"match", to>> /\ r.placement = placement
           Arrive(to) == {x \in match.entrants : IF x = e THEN Fed(to, 1) ELSE Fed(to, 2)}
       IN /\ match.result = None
          /\ Cardinality(match.entrants) = 2
          /\ \A r \in db.rules : /\ r.from # <<"pool", match.pool>>
                                 /\ r.from = <<"match", m>> => Exists(db, "match", r.to[2])
          /\ Edited([db EXCEPT !.match = [to \in DOMAIN @ |->
                       IF to = m THEN [@[m] EXCEPT !.result = db.participant[p]]
                       ELSE [@[to] EXCEPT !.entrants = @ \cup Arrive(to)]]])
          /\ reporting' = reporting \cup {[match |-> m, winner |-> e]}

\* What a local row stands for at Start.gg.
ExternalOf(kind, id) ==
  LET keys == {key \in DOMAIN db.mappings : key[1] = kind /\ db.mappings[key] = id}
  IN IF keys = {} THEN None ELSE (CHOOSE key \in keys : TRUE)[2]

ReportedWinner(report) == ExternalOf("entrant", report.winner)

\* Start.gg takes the winner of a set that is open and has that entrant.
Takes(s, winner) ==
  \E set \in ToSet(GroupSets(Seen(remote.event, remote.winner))) :
    set.id = s /\ winner \in ToSet(Filled(set)) /\ remote.winner[s] = None

\* Nothing is tried again, whether it was refused, skipped or lost.
ReportCompletedMatch ==
  \E report \in reporting :
    LET s == ExternalOf("match", report.match)
        winner == ReportedWinner(report)
    IN /\ reporting' = reporting \ {report}
       /\ \/ /\ s # None /\ winner # None
             /\ Takes(s, winner)
             /\ remote' = [remote EXCEPT !.winner[s] = winner]
             /\ reports' = (s :> report.winner) @@ reports
             /\ UNCHANGED moves
          \/ /\ s = None \/ winner = None \/ ~Takes(s, winner)
             /\ UNCHANGED <<remote, reports, moves>>
          \/ /\ moves < MaxMoves
             /\ moves' = moves + 1
             /\ UNCHANGED <<remote, reports>>
       /\ UNCHANGED <<db, held, import, imports>>

----------------------------------------------------------------------------
(* Start.gg.                                                               *)

RemoteChanges ==
  /\ moves < MaxMoves
  /\ \/ \E event \in Events \ {remote.event} : remote' = [remote EXCEPT !.event = event]
     \/ \E set \in ToSet(GroupSets(Seen(remote.event, remote.winner))) :
          /\ remote.winner[set.id] = None
          /\ Len(Filled(set)) = 2
          /\ \E e \in ToSet(Filled(set)) : remote' = [remote EXCEPT !.winner[set.id] = e]
  /\ moves' = moves + 1
  /\ UNCHANGED <<db, held, import, reporting, reports, imports>>

AllSets == UNION {ToSet(Ids(GroupSets(event))) : event \in Events}

Init ==
  /\ db = [player |-> [i \in DOMAIN Registered |-> Registered[i]],
           participant |-> [i \in {Len(Registered) + j : j \in DOMAIN Registered} |-> i - Len(Registered)],
           division |-> <<>>, entrant |-> <<>>, phase |-> <<>>, pool |-> <<>>, match |-> <<>>,
           rules |-> {}, mappings |-> <<>>, next |-> 2 * Len(Registered) + 1]
  /\ remote \in [event : FirstEvents, winner : {[s \in AllSets |-> None]}]
  /\ held = None
  /\ import = [todo |-> <<>>, snap |-> None, cache |-> <<>>, copies |-> <<>>, fallback |-> None,
               outcome |-> "none", calm |-> TRUE, before |-> None, plan |-> <<>>, again |-> FALSE]
  /\ reporting = {}
  /\ reports = <<>>
  /\ imports = 0
  /\ moves = 0

Next ==
  \/ Preview \/ Expire \/ StartImport \/ Step \/ Fail \/ Crash
  \/ OrganiserEdits \/ CommitResult \/ ReportCompletedMatch \/ RemoteChanges

Spec == Init /\ [][Next]_vars

----------------------------------------------------------------------------
(* Properties.                                                             *)

\* An import that is over and during and since which nobody edited anything.
Undisturbed(outcome) == import.outcome = outcome /\ import.calm

Row(kind, ext) == db.mappings[<<kind, ext>>]
RowsOf(kind, exts) == [i \in DOMAIN exts |-> Row(kind, exts[i])]
OwnRow(kind, exts) ==
  \A ext \in exts : /\ <<kind, ext>> \in DOMAIN db.mappings
                    /\ Exists(db, kind, Row(kind, ext))
                    /\ \A other \in exts \ {ext} : Row(kind, other) # Row(kind, ext)

\* Whatever crashed, failed or was deleted before, an import that nobody
\* disturbs leaves the division the event is mapped to as the event is: every
\* external id has a row of its own, every row its parent, pools their seats in
\* the order of the seeds, matches their entrants and results, every phase a
\* pool, and the imported matches and pools exactly the rules the event asks for.
ImportMirrors ==
  Undisturbed("done") =>
    LET event == import.snap.event
        sets == ToSet(GroupSets(event))
        groups == ToSet(Groups(event))
        phases == ToSet(EffectivePhases(event))
        division == Row("division", Event)
        matches == {Row("match", set.id) : set \in sets}
        pools == {Row("pool", group.id) : group \in groups}
    IN /\ OwnRow("division", {Event})
       /\ OwnRow("participant", ToSet(People(event)))
       /\ OwnRow("entrant", ToSet(event.entrants))
       /\ OwnRow("phase", {p.id : p \in phases})
       /\ OwnRow("pool", {group.id : group \in groups})
       /\ OwnRow("match", {set.id : set \in sets})
       /\ \A p \in ToSet(People(event)) : db.player[db.participant[Row("participant", p)]] = p
       /\ \A e \in ToSet(event.entrants) :
            db.entrant[Row("entrant", e)] = [division |-> division, participants |-> RowsOf("participant", Party[e])]
       /\ \A p \in phases :
            /\ db.phase[Row("phase", p.id)] = division
            /\ \E g \in DOMAIN db.pool : db.pool[g].phase = Row("phase", p.id)
            /\ \A group \in ToSet(p.groups) :
                 LET seats == db.pool[Row("pool", group.id)].seats
                     rank(e) == IF e \in ToSet(p.seeds) THEN CHOOSE i \in DOMAIN p.seeds : p.seeds[i] = e ELSE 99
                 IN /\ db.pool[Row("pool", group.id)].phase = Row("phase", p.id)
                    /\ ToSet(seats) = UNION {{Row("entrant", e) : e \in ToSet(Filled(set))} : set \in ToSet(group.sets)}
                    /\ \A e1, e2 \in ToSet(event.entrants) : \A i, j \in DOMAIN seats :
                         seats[i] = Row("entrant", e1) /\ seats[j] = Row("entrant", e2) /\ rank(e1) < rank(e2) => i < j
       /\ \A set \in sets :
            LET match == db.match[Row("match", set.id)] IN
              /\ match.entrants = {Row("entrant", e) : e \in ToSet(Filled(set))}
              /\ match.pool = IF set.group \in {group.id : group \in groups} THEN Row("pool", set.group)
                              ELSE DefaultForPhase(db, Row("phase", EffectivePhases(event)[1].id))
              /\ match.result = None <=> import.snap.winner[set.id] = None
              /\ match.result # None =>
                   \E e \in match.entrants : /\ e = Row("entrant", import.snap.winner[set.id])
                                             /\ \E p \in ToSet(db.entrant[e].participants) : db.participant[p] = match.result
       /\ {r \in db.rules : r.from \in {<<"match", m>> : m \in matches} \cup {<<"pool", g>> : g \in pools}}
            = {Resolved(rule, db.mappings) : rule \in SlotRules(event) \cup Progressions(event)}

\* Importing what was imported already, with nothing changed in between, leaves
\* every table as it was: no row twice, no result and no rule lost.
AgainChangesNothing == Undisturbed("done") /\ import.again => db = import.before

\* What the preview says will be linked is the row the import writes to, and
\* what it says will be created is a row that was not there.
PreviewIsKept ==
  Undisturbed("done") =>
    \A node \in DOMAIN import.plan :
      IF import.plan[node] # None THEN db.mappings[node] = import.plan[node]
      ELSE db.mappings[node] >= import.before.next

\* A result committed here and taken by Start.gg comes back with an import that
\* has read it: the winner of the match is still a player of that entrant.
ReportedResultsStand ==
  Undisturbed("done") =>
    \A s \in DOMAIN reports \cap ToSet(Ids(GroupSets(import.snap.event))) :
      import.snap.winner[s] # None /\ Exists(db, "entrant", reports[s]) =>
        \E p \in ToSet(db.entrant[reports[s]].participants) : db.participant[p] = db.match[Row("match", s)].result

=============================================================================
