----------------------------- MODULE Structure -----------------------------
(***************************************************************************)
(* The structure of a division: the structure page, which collects edits   *)
(* in a draft over what two queries last showed and commits them as one    *)
(* plan; the API, which checks a plan and applies it in a transaction; and *)
(* the commands of other organisers, each of which loads a graph, saves it *)
(* and then raises the version of the structure.                           *)
(*                                                                         *)
(* Songs, notes, bracket types and display names are left out, and so are  *)
(* the results of the matches.  Entrants never leave their division, so a  *)
(* plan that seats them is never refused for that.                         *)
(***************************************************************************)
EXTENDS Integers, FiniteSets, Functions

CONSTANTS Names,     \* names somebody may give to a row
          NewName,   \* the name the page suggests for a row
          Entrants,  \* entrants of the division
          None,      \* no plan, no name, no parent
          MaxMoves   \* bound: edits, crashes, lost answers and, twice each, commands

ASSUME NamesAssumption == NewName \in Names /\ None \notin Names

VARIABLES db,        \* the tables
          overview,  \* what the overview query last answered
          list,      \* what the query of the matches last answered
          draft,     \* the edits, kept in the browser until they are written
          sent,      \* the plan on its way, or None
          command,   \* the other organiser's request, or Waiting
          alone,     \* history: no two requests have overlapped yet
          moves      \* counts against MaxMoves

vars == <<db, overview, list, draft, sent, command, alone, moves>>

\* Nobody else asks for anything.
Waiting == [step |-> "waiting"]

----------------------------------------------------------------------------
(* Rows.  A row is named by its table and its id; the page gives negative  *)
(* ids to those it has only drafted.                                       *)

\* A function of one value, and f where it is defined and else g (as in TLC).
x :> y == [z \in {x} |-> y]
f @@ g == [x \in DOMAIN f \cup DOMAIN g |-> IF x \in DOMAIN f THEN f[x] ELSE g[x]]

Division == <<"division", 0>>
Kind(ref) == ref[1]
Pending(ref) == ref[2] < 0
ParentKind == [phase |-> "division", pool |-> "phase", match |-> "pool"]
Routable == {"pool", "match"}

ASSUME NodesAssumption == None \notin {Division} \cup ({"phase", "pool", "match"} \X Nat)

OfKind(rows, kind) == {r \in DOMAIN rows : Kind(r) = kind}
ChildrenOf(rows, refs) == {r \in DOMAIN rows : rows[r].parent \in refs}

\* Deleting a row deletes what hangs from it; nothing deletes its rules.
Below(rows, refs) ==
  LET children == ChildrenOf(rows, refs)
  IN refs \cup children \cup ChildrenOf(rows, children)

\* The rows a query of the division reaches.
Attached(rows) == Below(rows, ChildrenOf(rows, {Division}))

Row(parent, name) == [parent |-> parent, name |-> name]
Slot(rule) == <<rule.to, rule.slot>>
Touches(rule, refs) == rule.from \in refs \/ rule.to \in refs
Without(f, keys) == [k \in DOMAIN f \ keys |-> f[k]]

ReadTree(d) ==
  LET tree == {r \in Attached(d.rows) : Kind(r) # "match"}
  IN [version |-> d.version, rows |-> Restrict(d.rows, tree),
      rules |-> {r \in d.rules : r.from \in tree}]

\* "at" is history: the version of the structure when the list was read.
ReadList(d) ==
  LET here == OfKind(d.rows, "match") \cap Attached(d.rows)
  IN [at |-> d.version, rows |-> Restrict(d.rows, here),
      rules |-> {r \in d.rules : Touches(r, here)}, seats |-> Restrict(d.seats, here)]

----------------------------------------------------------------------------
(* The draft, and the structure the page shows under it.                   *)

EmptyDraft ==
  [added |-> << >>, renamed |-> << >>, removed |-> {}, routes |-> {}, cleared |-> {},
   seated |-> << >>]

\* Parents and names, as far as the page knows them.
Indexed(ref) ==
  IF ref \in DOMAIN draft.added THEN draft.added[ref]
  ELSE IF ref \in DOMAIN overview.rows THEN overview.rows[ref]
  ELSE IF ref \in DOMAIN list.rows THEN list.rows[ref] ELSE Row(Division, None)

ParentOf(ref) == Indexed(ref).parent
NameOf(ref) == IF ref \in DOMAIN draft.renamed THEN draft.renamed[ref] ELSE Indexed(ref).name

\* A slot shows one rule, whatever the table holds; the list of matches wins.
SeenRules ==
  LET both == overview.rules \cup list.rules
      Last(slot) ==
        LET listed == {r \in list.rules : Slot(r) = slot}
        IN CHOOSE r \in IF listed # {} THEN listed ELSE both : Slot(r) = slot
  IN {Last(Slot(r)) : r \in both}

ShownRules ==
  {r \in SeenRules :
     /\ ~Touches(r, draft.removed)
     /\ Slot(r) \notin draft.cleared \cup {Slot(drawn) : drawn \in draft.routes}}
    \cup draft.routes

Shown ==
  LET Kept(rows, kind) == OfKind(rows, kind) \ draft.removed
      phases == Kept(overview.rows, "phase") \cup OfKind(draft.added, "phase")
      pools == {p \in Kept(overview.rows, "pool") \cup OfKind(draft.added, "pool") :
                  ParentOf(p) \in phases}
      matches == {m \in Kept(list.rows, "match") : ParentOf(m) \notin draft.removed}
                   \cup OfKind(draft.added, "match")
  IN [rows |-> [r \in phases \cup pools \cup matches |-> Row(ParentOf(r), NameOf(r))],
      rules |-> ShownRules,
      seats |-> [m \in matches |->
                   IF m \in DOMAIN draft.seated THEN draft.seated[m]
                   ELSE IF m \in DOMAIN list.seats THEN list.seats[m] ELSE {}]]

Most(numbers) == CHOOSE n \in numbers \cup {0} : \A other \in numbers : other <= n
Drafted(refs) == {-r[2] : r \in refs}
NextId(d) == Most(Drafted(DOMAIN d.added)) + 1

Added(d, kind, parent, name) ==
  [d EXCEPT !.added = @ @@ (<<kind, -NextId(d)>> :> Row(parent, name))]

\* A phase comes with its first pool.
PhaseAdded(d, name) ==
  Added(Added(d, "phase", Division, name), "pool", <<"phase", -NextId(d)>>, NewName)

\* A generated bracket, here of two matches, fills a pool of its own.
BracketAdded(d, phase) ==
  LET n == NextId(d)
      pooled == Added(d, "pool", phase, NewName)
      first == Added(pooled, "match", <<"pool", -n>>, NewName)
      both == Added(first, "match", <<"pool", -n>>, NewName)
  IN [both EXCEPT !.routes = @ \cup
        {[from |-> <<"match", -(n + 1)>>, place |-> 1,
          to |-> <<"match", -(n + 2)>>, slot |-> 1]}]

Renamed(d, ref, name) ==
  IF Pending(ref) THEN [d EXCEPT !.added[ref].name = name]
  ELSE [d EXCEPT !.renamed = (ref :> name) @@ @]

RemovedButRoutes(d, ref) ==
  LET gone == Below(Shown.rows, {ref})
  IN [d EXCEPT !.added = Without(@, gone), !.removed = @ \cup {r \in gone : ~Pending(r)},
               !.renamed = Without(@, gone), !.cleared = {s \in @ : s[1] \notin gone},
               !.seated = Without(@, gone)]

\* Everything the draft says of what is removed goes with it.
Removed(d, ref) ==
  LET gone == Below(Shown.rows, {ref})
  IN [added |-> Without(d.added, gone), renamed |-> Without(d.renamed, gone),
      removed |-> d.removed \cup {r \in gone : ~Pending(r)},
      routes |-> {r \in d.routes : ~Touches(r, gone)},
      cleared |-> {s \in d.cleared : s[1] \notin gone},
      seated |-> Without(d.seated, gone)]

Drawn(d, route) ==
  [d EXCEPT !.routes = {r \in @ : Slot(r) # Slot(route)} \cup {route},
            !.cleared = @ \ {Slot(route)}]

\* Clearing a slot takes back the route drawn there, or else empties it.
ClearedSlot(d, slot) ==
  LET here == {r \in d.routes : Slot(r) = slot}
  IN [d EXCEPT !.routes = @ \ here, !.cleared = IF here = {} THEN @ \cup {slot} ELSE @]

SeatedIn(d, match, who) == [d EXCEPT !.seated = (match :> who) @@ @]

\* Every edit, like every command, is a move; both are bounded where they are chosen.
Edit(next) ==
  /\ draft' = next
  /\ moves' = moves + 1
  /\ UNCHANGED <<db, overview, list, sent, command, alone>>

\* The canvas draws a match in its pool, a pool in its phase, and the rules
\* that leave them or lead to a match.
Canvas(kinds) == {r \in Attached(Shown.rows) : Kind(r) \in kinds}

OnCanvas(shown) ==
  LET here == Attached(shown.rows)
  IN [rows |-> Restrict(shown.rows, here),
      rules |-> {r \in shown.rules : r.from \in here \/ (Kind(r.to) = "match" /\ r.to \in here)},
      seats |-> Restrict(shown.seats, here \cap DOMAIN shown.seats)]

\* The only pool of a phase is drawn as the phase itself and not selected.
Selectable ==
  {ref \in Canvas(DOMAIN ParentKind) :
     Kind(ref) = "pool" => Cardinality(ChildrenOf(Shown.rows, {ParentOf(ref)})) > 1}

AddNode ==
  \/ \E phase \in Canvas({"phase"}) : Edit(Added(draft, "pool", phase, NewName))
  \/ \E pool \in Canvas({"pool"}) : Edit(Added(draft, "match", pool, NewName))
  \/ Edit(PhaseAdded(draft, NewName))

AddBracket ==
  \/ \E phase \in Canvas({"phase"}) : Edit(BracketAdded(draft, phase))
  \/ Edit(BracketAdded(Added(draft, "phase", Division, NewName), <<"phase", -NextId(draft)>>))

RenameNode ==
  \E ref \in Selectable, name \in Names : name # NameOf(ref) /\ Edit(Renamed(draft, ref, name))

RemoveNode == \E ref \in Selectable : Edit(Removed(draft, ref))

\* The places offered: those routed, and two of a pool or the next of a match.
Placements(ref) ==
  LET routed == {r.place : r \in {r \in ShownRules : r.from = ref}}
  IN routed \cup IF Kind(ref) = "pool" THEN {1, 2} ELSE {Most(routed) + 1}

\* A placement dropped on a match takes its first free slot, one dropped on
\* a pool the slot of its number.
SlotFor(to, place) ==
  LET Taken(slot) == \/ \E r \in ShownRules : Slot(r) = <<to, slot>>
                     \/ slot <= Cardinality(Shown.seats[to])
  IN IF Kind(to) = "pool" THEN place
     ELSE CHOOSE slot \in 1 .. 9 : ~Taken(slot) /\ \A before \in 1 .. (slot - 1) : Taken(before)

DropRoute ==
  \E from, to \in Canvas(Routable) :
    \E place \in Placements(from) :
      Edit(Drawn(draft, [from |-> from, place |-> place, to |-> to, slot |-> SlotFor(to, place)]))

ClearSlot ==
  \E rule \in ShownRules :
    /\ {rule.from, rule.to} \cap Selectable # {}
    /\ Edit(ClearedSlot(draft, Slot(rule)))

SeatEntrants ==
  \E match \in Canvas({"match"}), who \in SUBSET Entrants :
    Shown.seats[match] # who /\ Edit(SeatedIn(draft, match, who))

Discard ==
  /\ draft # EmptyDraft
  /\ draft' = EmptyDraft
  /\ UNCHANGED <<db, overview, list, sent, command, alone, moves>>

----------------------------------------------------------------------------
(* The plan: what the draft names, whatever that hangs from, and what is   *)
(* to become of each.                                                      *)

RouteEnds == {r.from : r \in draft.routes} \cup {r.to : r \in draft.routes}

Named ==
  DOMAIN draft.added \cup DOMAIN draft.renamed \cup RouteEnds \cup draft.removed
    \cup {s[1] : s \in draft.cleared} \cup DOMAIN draft.seated

Parents(refs) == {ParentOf(r) : r \in refs \ {Division}}

ActionOn(ref) ==
  IF ref \in draft.removed THEN "remove" ELSE IF Pending(ref) THEN "create" ELSE "link"

Node(ref) ==
  IF ref = Division THEN [action |-> "link", parent |-> None, name |-> NewName]
  ELSE [action |-> ActionOn(ref), parent |-> ParentOf(ref), name |-> NameOf(ref)]

ToStructurePlan ==
  LET above == Named \cup Parents(Named) \cup Parents(Parents(Named)) \cup {Division}
  IN [nodes |-> [r \in above |-> Node(r)], routes |-> draft.routes, cleared |-> draft.cleared,
      seats |-> draft.seated, basedOn |-> overview.version]

Survives(plan, ref) == ref \in DOMAIN plan.nodes /\ plan.nodes[ref].action \in {"create", "link"}

ValidNodes(plan) ==
  \A ref \in DOMAIN plan.nodes \ {Division} :
    LET node == plan.nodes[ref]
    IN /\ Survives(plan, ref) => node.name # None /\ Survives(plan, node.parent)
       /\ node.parent \in DOMAIN plan.nodes
       /\ Kind(node.parent) = ParentKind[Kind(ref)]

ValidRoutes(plan) ==
  \A r \in plan.routes :
    /\ r.from # r.to
    /\ \A end \in {r.from, r.to} : Kind(end) \in Routable /\ Survives(plan, end)
    /\ \A other \in plan.routes \ {r} : Slot(other) # Slot(r)

ValidClearedSlots(plan) ==
  \A s \in plan.cleared :
    /\ s[1] \in DOMAIN plan.nodes /\ Kind(s[1]) \in Routable
    /\ \A r \in plan.routes : Slot(r) # s

Valid(plan) == ValidNodes(plan) /\ ValidRoutes(plan) /\ ValidClearedSlots(plan)

----------------------------------------------------------------------------
(* Committing.  The plan is validated and its version compared in one step *)
(* and applied in another: nothing holds the structure in between.         *)

\* "seen" and "shown" are history: what the page had read, and what it drew.
Commit ==
  /\ sent = None /\ draft # EmptyDraft
  /\ sent' = [step |-> "asked", plan |-> ToStructurePlan, tree |-> overview, list |-> list,
              shown |-> OnCanvas(Shown)]
  /\ alone' = (alone /\ command = Waiting)
  /\ UNCHANGED <<db, overview, list, draft, command, moves>>

Check ==
  /\ sent # None /\ sent.step = "asked"
  /\ LET welcome == Valid(sent.plan) /\ sent.plan.basedOn = db.version
     IN sent' = [sent EXCEPT !.step = IF welcome THEN "checked" ELSE "refused"]
  /\ UNCHANGED <<db, overview, list, draft, command, alone, moves>>

Refs(plan, action) == {r \in DOMAIN plan.nodes : plan.nodes[r].action = action}

Linkable(d, plan) ==
  Refs(plan, "link") \cup Refs(plan, "remove") \subseteq Attached(d.rows) \cup {Division}

\* The id a drafted row gets from the table.
RowId(d, ref) == IF Pending(ref) THEN <<Kind(ref), d.next - ref[2]>> ELSE ref

Resolved(d, rule) == [rule EXCEPT !.from = RowId(d, @), !.to = RowId(d, @)]

WithRowNames(d, plan) ==
  [r \in DOMAIN d.rows |->
     IF r \in Refs(plan, "link") THEN [d.rows[r] EXCEPT !.name = plan.nodes[r].name]
     ELSE d.rows[r]]

Created(d, plan) ==
  [r \in {RowId(d, p) : p \in Refs(plan, "create")} |->
     LET p == CHOOSE p \in Refs(plan, "create") : RowId(d, p) = r
     IN Row(RowId(d, plan.nodes[p].parent), plan.nodes[p].name)]

RulesWrittenBeside(d, plan) ==
  {r \in d.rules : ~Touches(r, Refs(plan, "remove")) /\ Slot(r) \notin plan.cleared}
    \cup {Resolved(d, r) : r \in plan.routes}

RulesWritten(d, plan) ==
  LET claimed == {<<RowId(d, s[1]), s[2]>> : s \in plan.cleared \cup {Slot(r) : r \in plan.routes}}
  IN {r \in d.rules : ~Touches(r, Refs(plan, "remove")) /\ Slot(r) \notin claimed}
       \cup {Resolved(d, r) : r \in plan.routes}

SeatsWritten(d, plan, rows) ==
  [m \in OfKind(rows, "match") |->
     LET asked == {p \in DOMAIN plan.seats : RowId(d, p) = m}
     IN IF asked # {} THEN plan.seats[CHOOSE p \in asked : TRUE]
        ELSE IF m \in DOMAIN d.seats THEN d.seats[m] ELSE {}]

Applied(d, plan) ==
  LET grown == WithRowNames(d, plan) @@ Created(d, plan)
      rows == Without(grown, Below(grown, Refs(plan, "remove")))
  IN [rows |-> rows, rules |-> RulesWritten(d, plan), seats |-> SeatsWritten(d, plan, rows),
      version |-> d.version + 1, next |-> d.next + Most(Drafted(Refs(plan, "create")))]

\* One transaction: a row that is gone refuses the whole plan.
Apply ==
  /\ sent # None /\ sent.step = "checked"
  /\ LET found == Linkable(db, sent.plan)
     IN /\ sent' = [sent EXCEPT !.step = IF found THEN "applied" ELSE "refused"]
        /\ db' = IF found THEN Applied(db, sent.plan) ELSE db
  /\ UNCHANGED <<overview, list, draft, command, alone, moves>>

\* The page reads both queries again before it empties the draft.
Succeed ==
  /\ sent # None /\ sent.step = "applied"
  /\ overview' = ReadTree(db) /\ list' = ReadList(db)
  /\ draft' = EmptyDraft /\ sent' = None
  /\ UNCHANGED <<db, command, alone, moves>>

\* A refusal, or an answer that never arrives, leaves the draft as it is.
Fail ==
  /\ sent # None
  /\ \/ sent.step = "refused" /\ UNCHANGED moves
     \/ sent.step = "applied" /\ moves < MaxMoves /\ moves' = moves + 1
  /\ sent' = None
  /\ UNCHANGED <<db, overview, list, draft, command, alone>>

ReadOverview ==
  /\ overview' = ReadTree(db)
  /\ UNCHANGED <<db, list, draft, sent, command, alone, moves>>

ReadMatches ==
  /\ list' = ReadList(db)
  /\ UNCHANGED <<db, overview, draft, sent, command, alone, moves>>

----------------------------------------------------------------------------
(* The commands of another organiser: each loads what it needs, saves it   *)
(* whole, and raises the version in a third step, or not at all.           *)

Begin(request) ==
  /\ command' = [step |-> "loaded"] @@ request
  /\ moves' = moves + 2
  /\ alone' = (alone /\ sent = None)
  /\ UNCHANGED <<db, overview, list, draft, sent>>

Phases(d) == Restrict(d.rows, ChildrenOf(d.rows, {Division}))

OnDivision(copy, fresh, dropped, bumps) ==
  Begin([on |-> "division", copy |-> copy, version |-> db.version, fresh |-> fresh,
         dropped |-> dropped, bumps |-> bumps])

AddPhase == OnDivision(Phases(db), {NewName}, {}, TRUE)

RenamePhase ==
  \E phase \in DOMAIN Phases(db), name \in Names :
    OnDivision([Phases(db) EXCEPT ![phase].name = name], {}, {}, TRUE)

RemovePhase ==
  \E phase \in DOMAIN Phases(db) : OnDivision(Without(Phases(db), {phase}), {}, {phase}, TRUE)

\* Seeding, entering and withdrawing save the division too, but count no change.
SeedEntrants == OnDivision(Phases(db), {}, {}, FALSE)

CreatePool == \E phase \in DOMAIN Phases(db) : Begin([on |-> "newPool", under |-> phase, bumps |-> TRUE])

CreateMatchUncounted ==
  \E pool \in OfKind(db.rows, "pool") \cap Attached(db.rows) :
    Begin([on |-> "newMatch", under |-> pool, bumps |-> FALSE])

CreateMatch ==
  \E pool \in OfKind(db.rows, "pool") \cap Attached(db.rows) :
    Begin([on |-> "newMatch", under |-> pool, bumps |-> TRUE])

RenamePool ==
  \E pool \in OfKind(db.rows, "pool") \cap Attached(db.rows), name \in Names :
    Begin([on |-> "pool", row |-> pool, copy |-> Row(db.rows[pool].parent, name),
           held |-> ChildrenOf(db.rows, {pool}), bumps |-> TRUE])

\* The name alone is not counted as a change of the structure.
RenameMatch ==
  \E match \in OfKind(db.rows, "match") \cap Attached(db.rows), name \in Names :
    Begin([on |-> "match", row |-> match, copy |-> Row(db.rows[match].parent, name),
           seats |-> db.seats[match], bumps |-> FALSE])

\* A phase keeps a pool, by the count of the moment.
DeletePool ==
  \E pool \in OfKind(db.rows, "pool") \cap Attached(db.rows) :
    /\ Cardinality(ChildrenOf(db.rows, {db.rows[pool].parent})) > 1
    /\ Begin([on |-> "gone", row |-> pool, rules |-> {}, bumps |-> TRUE])

DeleteMatch ==
  \E match \in OfKind(db.rows, "match") \cap Attached(db.rows) :
    Begin([on |-> "gone", row |-> match, rules |-> {match}, bumps |-> TRUE])

UpdateRules ==
  \E from, to \in {r \in Attached(db.rows) : Kind(r) \in Routable} :
    /\ from # to
    /\ \E rules \in {{}, {[from |-> from, place |-> 1, to |-> to, slot |-> 1]}} :
         Begin([on |-> "rules", row |-> from, rules |-> rules, bumps |-> FALSE])

\* The division is written with the phases and the version it was loaded
\* with: one that is gone comes back, one that has come loses its division.
DivisionSaved(d, c) ==
  LET strangers == DOMAIN Phases(d) \ (DOMAIN c.copy \cup c.dropped)
      fresh == {<<"phase", d.next + 1>> : name \in c.fresh}
      rows == [r \in fresh |-> Row(Division, NewName)] @@ c.copy
                @@ [r \in strangers |-> [d.rows[r] EXCEPT !.parent = None]] @@ d.rows
      gone == Below(d.rows, c.dropped)
  IN [d EXCEPT !.rows = Without(rows, gone), !.seats = Without(d.seats, gone),
               !.version = c.version, !.next = @ + 1]

\* A pool is written with the matches it was loaded with.
PoolSaved(d, c) ==
  [d EXCEPT !.rows = [r \in {c.row} |-> c.copy]
     @@ [r \in ChildrenOf(d.rows, {c.row}) \ c.held |-> [d.rows[r] EXCEPT !.parent = None]] @@ @]

MatchSaved(d, c) ==
  [d EXCEPT !.rows = (c.row :> c.copy) @@ @, !.seats = (c.row :> c.seats) @@ @]

Inserted(d, kind, parent) ==
  LET row == <<kind, d.next + 1>>
  IN [d EXCEPT !.rows = (row :> Row(parent, NewName)) @@ @, !.next = @ + 1,
               !.seats = IF kind = "match" THEN (row :> {}) @@ @ ELSE @]

Deleted(d, c) ==
  LET gone == Below(d.rows, {c.row})
  IN [d EXCEPT !.rows = Without(@, gone), !.seats = Without(@, gone),
               !.rules = {r \in @ : ~Touches(r, c.rules)}]

RulesReplaced(d, c) == [d EXCEPT !.rules = {r \in @ : r.from # c.row} \cup c.rules]

SavedBy(d, c) ==
  CASE c.on = "division" -> DivisionSaved(d, c)
    [] c.on = "newPool" -> Inserted(d, "pool", c.under)
    [] c.on = "newMatch" -> Inserted(d, "match", c.under)
    [] c.on = "pool" -> PoolSaved(d, c)
    [] c.on = "match" -> MatchSaved(d, c)
    [] c.on = "gone" -> Deleted(d, c)
    [] c.on = "rules" -> RulesReplaced(d, c)

\* A foreign key fails the save of a row whose parent is gone.
ParentGone(d, c) ==
  \/ c.on \in {"newPool", "newMatch"} /\ c.under \notin DOMAIN d.rows
  \/ c.on \in {"pool", "match"} /\ c.copy.parent \notin DOMAIN d.rows

Save ==
  /\ command.step = "loaded"
  /\ IF ParentGone(db, command) THEN command' = Waiting /\ UNCHANGED db
     ELSE /\ db' = SavedBy(db, command)
          /\ command' = IF command.bumps
                        THEN [step |-> "saved", made |-> db.next + 1] @@ command ELSE Waiting
  /\ UNCHANGED <<overview, list, draft, sent, alone, moves>>

\* A new phase gets its first pool once its own version has been counted.
Bump ==
  /\ command.step = "saved"
  /\ db' = [db EXCEPT !.version = @ + 1]
  /\ command' = IF command.on = "division" /\ command.fresh # {}
                THEN [step |-> "loaded", on |-> "newPool", under |-> <<"phase", command.made>>,
                      bumps |-> TRUE]
                ELSE Waiting
  /\ UNCHANGED <<overview, list, draft, sent, alone, moves>>

\* The API dies between two steps; a transaction that was open is undone.
Crash ==
  /\ moves < MaxMoves /\ moves' = moves + 1
  /\ command # Waiting \/ (sent # None /\ sent.step \in {"asked", "checked"})
  /\ command' = Waiting
  /\ sent' = IF sent # None /\ sent.step \in {"asked", "checked"}
             THEN [sent EXCEPT !.step = "refused"] ELSE sent
  /\ alone' = FALSE
  /\ UNCHANGED <<db, overview, list, draft>>

----------------------------------------------------------------------------
\* A phase of one pool of two matches; the first match and the pool go on.
Init ==
  LET phase == <<"phase", 1>>   pool == <<"pool", 2>>
      rows == phase :> Row(Division, NewName) @@ pool :> Row(phase, NewName)
                @@ <<"match", 3>> :> Row(pool, NewName) @@ <<"match", 4>> :> Row(pool, NewName)
      rules == {[from |-> <<"match", 3>>, place |-> 1, to |-> <<"match", 4>>, slot |-> 1],
                [from |-> pool, place |-> 2, to |-> <<"match", 4>>, slot |-> 2]}
  IN /\ db = [rows |-> rows, rules |-> rules, version |-> 0, next |-> 4,
              seats |-> <<"match", 3>> :> Entrants @@ <<"match", 4>> :> {}]
     /\ overview = ReadTree(db) /\ list = ReadList(db)
     /\ draft = EmptyDraft /\ sent = None /\ command = Waiting
     /\ alone = TRUE /\ moves = 0

Edits ==
  /\ moves < MaxMoves
  /\ \/ AddNode \/ AddBracket \/ RenameNode \/ RemoveNode \/ DropRoute \/ ClearSlot
     \/ SeatEntrants

Page == Edits \/ Discard \/ Commit \/ Succeed \/ Fail \/ ReadOverview \/ ReadMatches

Commands ==
  /\ command = Waiting /\ moves + 2 <= MaxMoves
  /\ \/ AddPhase \/ RenamePhase \/ RemovePhase \/ SeedEntrants \/ CreatePool \/ RenamePool
     \/ DeletePool \/ CreateMatch \/ RenameMatch \/ DeleteMatch \/ UpdateRules

Next == Page \/ Check \/ Apply \/ Commands \/ Save \/ Bump \/ Crash

Spec == Init /\ [][Next]_vars

----------------------------------------------------------------------------
(* Properties.                                                             *)

\* What the draft speaks of, and what that hangs from.
Mentioned == Named \cup Parents(Named) \cup Parents(Parents(Named))

\* Whenever it may be committed, the plan a draft becomes is valid, whatever
\* sequence of edits made it: nothing in it hangs from what it removes, no two
\* routes claim a slot, no slot is both filled and cleared (structureDraft.ts
\* and structure-plan.validation.ts agree).  The page must see every row the
\* draft speaks of, and nothing that has come under a row the draft removes;
\* and no route may lead from a node to itself, as the canvas lets one be dropped.
PlansAreValid ==
  LET seen == DOMAIN overview.rows \cup DOMAIN list.rows
  IN /\ sent = None
     /\ \A r \in Mentioned : Pending(r) \/ r \in seen \cup {Division}
     /\ \A r \in seen : ParentOf(r) \in draft.removed => r \in draft.removed
     /\ \A r \in draft.routes : r.from # r.to
     => Valid(ToStructurePlan)

PlanApplied ==
  /\ sent # None /\ sent.step = "checked"
  /\ sent' # None /\ sent'.step = "applied"

Read(tree, matches) ==
  [rows |-> tree.rows @@ matches.rows, rules |-> tree.rules \cup matches.rules,
   seats |-> matches.seats]

Numbered(d, shown) ==
  [rows |-> [r \in {RowId(d, p) : p \in DOMAIN shown.rows} |->
               LET p == CHOOSE p \in DOMAIN shown.rows : RowId(d, p) = r
               IN Row(RowId(d, shown.rows[p].parent), shown.rows[p].name)],
   rules |-> {Resolved(d, r) : r \in shown.rules},
   seats |-> [r \in {RowId(d, p) : p \in DOMAIN shown.seats} |->
                shown.seats[CHOOSE p \in DOMAIN shown.seats : RowId(d, p) = r]]]

OnePerSlot(rules) == \A r, other \in rules : Slot(r) = Slot(other) => r = other

\* What the page drew is what the transaction writes: if nothing has changed
\* since the page read it, the division afterwards holds the rows, names,
\* parents, rules and seats the canvas showed, and no others.  (Where two
\* rules claim a slot already the page shows one of them.)
AppliedAsDrawn ==
  [][PlanApplied /\ Read(sent.tree, sent.list) = OnCanvas(db) /\ OnePerSlot(OnCanvas(db).rules)
       => OnCanvas(db') = Numbered(db, sent.shown)]_vars

\* What the version counts: the rows, and the names of phases and pools.
Counted(shown) ==
  [r \in Attached(shown.rows) |->
     IF Kind(r) = "match" THEN Row(shown.rows[r].parent, None) ELSE shown.rows[r]]

\* A plan is applied only to the structure it was drawn over: if no two
\* requests have overlapped and the list was read at the version of the
\* overview, the rows the page had read are those the plan finds.
AppliedToWhatItSaw ==
  [][PlanApplied /\ alone /\ sent.list.at = sent.tree.version
       => Counted(Read(sent.tree, sent.list)) = Counted(db)]_vars

=============================================================================
