-------------------------- MODULE StructureProofs --------------------------
(***************************************************************************)
(* The version a plan is compared with: when no two requests overlap, a    *)
(* plan is applied only to the structure the page had read, whatever       *)
(* commands, lost answers and repeated reads came before.                  *)
(*                                                                         *)
(* And the draft: whatever edits make it, over whatever the page has read, *)
(* the plan it becomes is one the API's validation accepts.                *)
(***************************************************************************)
EXTENDS Structure, TLAPS, NaturalsInduction, WellFoundedInduction

-----------------------------------------------------------------------------
(* The inductive invariant.                                                *)

\* The tables are one value, written whole or field by field.
DbShape ==
  db = [rows |-> db.rows, rules |-> db.rules, version |-> db.version, next |-> db.next,
        seats |-> db.seats]

\* What is read at version n still says what the tables say: nothing has been
\* saved whose version is still to be counted.
Fresh(n) == n = db.version /\ command.step # "saved"

TreeFollows(tree) ==
  /\ tree.version \in Nat /\ tree.version <= db.version
  /\ Fresh(tree.version) => tree.rows = ReadTree(db).rows

MatchesHere == OfKind(db.rows, "match") \cap Attached(db.rows)

ListFollows(seen) ==
  /\ seen.at \in Nat /\ seen.at <= db.version
  /\ Fresh(seen.at) =>
       /\ DOMAIN seen.rows = MatchesHere
       /\ \A r \in MatchesHere : seen.rows[r].parent = db.rows[r].parent

Counting == {"newPool", "newMatch", "pool", "gone"}

\* What a command that is about to save has loaded is still so, and it counts
\* itself unless it changes nothing the version is about.
CommandFits ==
  /\ command.step \in {"waiting", "loaded", "saved"}
  /\ "step" \in DOMAIN command
  /\ command.step = "loaded" =>
       /\ command.on \in Counting \cup {"division", "match", "rules"}
       /\ command.on \in Counting => command.bumps
       /\ command.on = "division" =>
            /\ command.version = db.version
            /\ command.bumps \/ (command.copy = Phases(db) /\ command.fresh = {}
                                 /\ command.dropped = {})
       /\ command.on = "match" =>
            /\ command.row \in DOMAIN db.rows /\ Kind(command.row) = "match"
            /\ command.copy.parent = db.rows[command.row].parent

\* The plan on its way is about what the page had read.
SentFits ==
  sent # None =>
    /\ sent = [step |-> sent.step, plan |-> sent.plan, tree |-> sent.tree, list |-> sent.list,
               shown |-> sent.shown]
    /\ sent.plan.basedOn = sent.tree.version
    /\ TreeFollows(sent.tree) /\ ListFollows(sent.list)
    /\ sent.step = "checked" => sent.tree.version = db.version

StructureInv ==
  alone =>
    /\ DbShape /\ db.version \in Nat
    /\ sent = None \/ command = Waiting
    /\ CommandFits /\ SentFits
    /\ TreeFollows(overview) /\ ListFollows(list)

-----------------------------------------------------------------------------
(* What is attached to the division.                                       *)

LEMMA AttachedAreRows ==
  ASSUME NEW rows
  PROVE  Attached(rows) \subseteq DOMAIN rows
BY DEF Attached, Below, ChildrenOf

\* What is attached is so by parents alone.
LEMMA SameAttached ==
  ASSUME NEW f, NEW g, Attached(f) \subseteq DOMAIN g, DOMAIN g \subseteq DOMAIN f,
         \A r \in DOMAIN g : g[r].parent = f[r].parent
  PROVE  Attached(g) = Attached(f)
<1> DEFINE F1 == ChildrenOf(f, {Division})  F2 == ChildrenOf(f, F1)  F3 == ChildrenOf(f, F2)
           G1 == ChildrenOf(g, {Division})  G2 == ChildrenOf(g, G1)  G3 == ChildrenOf(g, G2)
<1>1. Attached(f) = F1 \cup F2 \cup F3 /\ Attached(g) = G1 \cup G2 \cup G3
  BY DEF Attached, Below
<1>2. F1 \subseteq DOMAIN g /\ F2 \subseteq DOMAIN g /\ F3 \subseteq DOMAIN g
  BY <1>1
<1>3. ASSUME NEW refs, ChildrenOf(f, refs) \subseteq DOMAIN g
      PROVE  ChildrenOf(g, refs) = ChildrenOf(f, refs)
  BY <1>3 DEF ChildrenOf
<1>0. /\ G1 = ChildrenOf(g, {Division}) /\ G2 = ChildrenOf(g, G1) /\ G3 = ChildrenOf(g, G2)
      /\ F1 = ChildrenOf(f, {Division}) /\ F2 = ChildrenOf(f, F1) /\ F3 = ChildrenOf(f, F2)
  OBVIOUS
<1> HIDE DEF F1, F2, F3, G1, G2, G3
<1>4. G1 = F1
  BY <1>0, <1>2, <1>3
<1>5. G2 = F2
  BY <1>0, <1>2, <1>3, <1>4
<1>6. G3 = F3
  BY <1>0, <1>2, <1>3, <1>5
<1>. QED
  BY <1>1, <1>4, <1>5, <1>6

\* Tables of the same rows, of which matches may differ in their names.
SameRows(d, new) ==
  /\ DOMAIN new.rows = DOMAIN d.rows
  /\ \A r \in DOMAIN d.rows :
        /\ new.rows[r].parent = d.rows[r].parent
        /\ Kind(r) # "match" => new.rows[r] = d.rows[r]

LEMMA SameRead ==
  ASSUME NEW d, NEW new, SameRows(d, new)
  PROVE  /\ Attached(new.rows) = Attached(d.rows)
         /\ ReadTree(new).rows = ReadTree(d).rows
<1>1. Attached(d.rows) \subseteq DOMAIN d.rows
  BY AttachedAreRows
<1>2. Attached(new.rows) = Attached(d.rows)
  <2> DEFINE f == d.rows  g == new.rows
  <2>1. DOMAIN g = DOMAIN f /\ \A r \in DOMAIN g : g[r].parent = f[r].parent
    BY DEF SameRows
  <2> HIDE DEF f, g
  <2>2. Attached(f) \subseteq DOMAIN f
    BY AttachedAreRows
  <2>3. Attached(g) = Attached(f)
    BY <2>1, <2>2, SameAttached
  <2>. QED
    BY <2>3 DEF f, g
<1> DEFINE tree == {r \in Attached(d.rows) : Kind(r) # "match"}
<1>3. ReadTree(d).rows = [r \in tree |-> d.rows[r]]
  BY DEF ReadTree, Restrict
<1>4. ReadTree(new).rows = [r \in tree |-> new.rows[r]]
  BY <1>2 DEF ReadTree, Restrict
<1>5. \A r \in tree : new.rows[r] = d.rows[r]
  BY <1>1 DEF SameRows
<1>6. [r \in tree |-> new.rows[r]] = [r \in tree |-> d.rows[r]]
  BY <1>5
<1>. QED
  BY <1>2, <1>3, <1>4, <1>6

\* What the two queries show of the same structure is that structure.
LEMMA SeenIsThere ==
  ASSUME NEW d, NEW tree, NEW seen, tree.rows = ReadTree(d).rows,
         DOMAIN seen.rows = OfKind(d.rows, "match") \cap Attached(d.rows),
         \A r \in DOMAIN seen.rows : seen.rows[r].parent = d.rows[r].parent
  PROVE  Counted(Read(tree, seen)) = Counted(d)
<1> DEFINE here == Attached(d.rows)
           inner == {r \in here : Kind(r) # "match"}
           outer == OfKind(d.rows, "match") \cap here
           both == Read(tree, seen).rows
<1>1. here \subseteq DOMAIN d.rows
  BY AttachedAreRows
<1>2. here = inner \cup outer /\ inner \cap outer = {}
  BY <1>1 DEF OfKind
<1>3. tree.rows = [r \in inner |-> d.rows[r]]
  BY DEF ReadTree, Restrict
<1>4. both = [r \in DOMAIN tree.rows \cup DOMAIN seen.rows |->
                IF r \in DOMAIN tree.rows THEN tree.rows[r] ELSE seen.rows[r]]
  BY DEF Read, @@
<1>5. DOMAIN tree.rows = inner /\ \A r \in inner : tree.rows[r] = d.rows[r]
  BY <1>3
<1>6. /\ DOMAIN both = here
      /\ \A r \in inner : both[r] = d.rows[r]
      /\ \A r \in outer : both[r] = seen.rows[r]
  BY <1>2, <1>4, <1>5
<1>7. \A r \in here : both[r].parent = d.rows[r].parent
  BY <1>2, <1>6
<1>8. Attached(both) = here
  <2>1. PICK f : f = d.rows
    OBVIOUS
  <2>2. PICK g : g = both
    OBVIOUS
  <2>3. Attached(f) \subseteq DOMAIN g /\ DOMAIN g \subseteq DOMAIN f
    BY <1>1, <1>6, <2>1, <2>2
  <2>4. \A r \in DOMAIN g : g[r].parent = f[r].parent
    BY <1>6, <1>7, <2>1, <2>2
  <2> HIDE DEF both
  <2>5. Attached(g) = Attached(f)
    BY <2>3, <2>4, SameAttached
  <2>. QED
    BY <2>1, <2>2, <2>5
<1>9. \A r \in here : (IF Kind(r) = "match" THEN Row(both[r].parent, None) ELSE both[r])
                    = (IF Kind(r) = "match" THEN Row(d.rows[r].parent, None) ELSE d.rows[r])
  BY <1>1, <1>6, <1>7
<1>10. Counted(d) = [r \in here |-> IF Kind(r) = "match" THEN Row(d.rows[r].parent, None)
                                    ELSE d.rows[r]]
  BY DEF Counted
<1>11. Counted(Read(tree, seen)) =
          [r \in here |-> IF Kind(r) = "match" THEN Row(both[r].parent, None) ELSE both[r]]
  BY <1>8 DEF Counted
<1>. QED
  BY <1>9, <1>10, <1>11

-----------------------------------------------------------------------------
(* What has been read.                                                     *)

\* It goes on saying what the tables say while the rows stay, once a saved
\* change is to be counted, and again when it has been counted.
LEMMA StillFollows ==
  ASSUME NEW tree, NEW seen, TreeFollows(tree), ListFollows(seen), db.version \in Nat,
         \/ /\ db'.version = db.version /\ SameRows(db, db')
            /\ command'.step # "saved" => command.step # "saved"
         \/ db'.version = db.version /\ command'.step = "saved"
         \/ db'.version = db.version + 1
  PROVE  TreeFollows(tree)' /\ ListFollows(seen)'
<1>1. CASE /\ db'.version = db.version /\ SameRows(db, db')
           /\ command'.step # "saved" => command.step # "saved"
  <2>1. PICK d : d = db
    OBVIOUS
  <2>2. PICK new : new = db'
    OBVIOUS
  <2>3. SameRows(d, new)
    BY <1>1, <2>1, <2>2
  <2>4. Attached(new.rows) = Attached(d.rows) /\ ReadTree(new).rows = ReadTree(d).rows
    BY <2>3, SameRead
  <2>5. OfKind(new.rows, "match") = OfKind(d.rows, "match")
    BY <2>3 DEF SameRows, OfKind
  <2>6. MatchesHere = OfKind(d.rows, "match") \cap Attached(d.rows)
    BY <2>1 DEF MatchesHere
  <2>7. MatchesHere' = OfKind(new.rows, "match") \cap Attached(new.rows)
    BY <2>2 DEF MatchesHere
  <2>8. MatchesHere' = MatchesHere
    BY <2>4, <2>5, <2>6, <2>7
  <2>9. ReadTree(db)'.rows = ReadTree(db).rows
    <3>1. ReadTree(db)' = ReadTree(new)
      BY <2>2
    <3>2. ReadTree(db) = ReadTree(d)
      BY <2>1
    <3>. QED
      BY <2>4, <3>1, <3>2
  <2>10. \A r \in MatchesHere : db'.rows[r].parent = db.rows[r].parent
    BY <2>1, <2>2, <2>3 DEF MatchesHere, OfKind, SameRows
  <2>11. \A n : Fresh(n)' => Fresh(n)
    BY <1>1 DEF Fresh
  <2>12. TreeFollows(tree)'
    BY <1>1, <2>9, <2>11 DEF TreeFollows
  <2>13. ListFollows(seen)'
    BY <1>1, <2>8, <2>10, <2>11 DEF ListFollows
  <2>. QED
    BY <2>12, <2>13
<1>2. CASE db'.version = db.version /\ command'.step = "saved"
  BY <1>2 DEF TreeFollows, ListFollows, Fresh
<1>3. CASE db'.version = db.version + 1
  <2>1. tree.version \in Nat /\ tree.version <= db.version /\ seen.at \in Nat /\ seen.at <= db.version
    BY DEF TreeFollows, ListFollows
  <2>2. tree.version # db'.version /\ seen.at # db'.version
    BY <1>3, <2>1
  <2>3. tree.version <= db'.version /\ seen.at <= db'.version
    BY <1>3, <2>1
  <2>. QED
    BY <2>1, <2>2, <2>3 DEF TreeFollows, ListFollows, Fresh
<1>. QED
  BY <1>1, <1>2, <1>3

LEMMA ReadFollows ==
  ASSUME db.version \in Nat
  PROVE  TreeFollows(ReadTree(db)) /\ ListFollows(ReadList(db))
<1>1. ReadTree(db).version = db.version /\ ReadList(db).at = db.version
  BY DEF ReadTree, ReadList
<1>2. ReadList(db).rows = [r \in MatchesHere |-> db.rows[r]]
  BY DEF ReadList, Restrict, MatchesHere
<1>3. /\ DOMAIN ReadList(db).rows = MatchesHere
      /\ \A r \in MatchesHere : ReadList(db).rows[r] = db.rows[r]
  BY <1>2
<1>4. TreeFollows(ReadTree(db))
  BY <1>1 DEF TreeFollows
<1>5. ListFollows(ReadList(db))
  BY <1>1, <1>3 DEF ListFollows
<1>. QED
  BY <1>4, <1>5

\* The tables stay as they are and no change begins to wait.
LEMMA AllFollow ==
  ASSUME StructureInv, alone, UNCHANGED <<overview, list>>,
         \/ /\ db'.version = db.version /\ SameRows(db, db')
            /\ command'.step # "saved" => command.step # "saved"
         \/ db'.version = db.version /\ command'.step = "saved"
         \/ db'.version = db.version + 1
  PROVE  TreeFollows(overview)' /\ ListFollows(list)'
<1>1. PICK tree : tree = overview
  OBVIOUS
<1>2. PICK seen : seen = list
  OBVIOUS
<1>3. TreeFollows(tree) /\ ListFollows(seen) /\ db.version \in Nat
  BY <1>1, <1>2 DEF StructureInv
<1>4. TreeFollows(tree)' /\ ListFollows(seen)'
  BY <1>3, StillFollows
<1>. QED
  BY <1>1, <1>2, <1>4

LEMMA RowsStay == ASSUME UNCHANGED db PROVE SameRows(db, db') /\ db'.version = db.version
BY DEF SameRows

-----------------------------------------------------------------------------
(* Every action keeps the invariant.                                       *)

\* The page draws, reads, sends and hears.
LEMMA PageKeeps ==
  ASSUME StructureInv, Page
  PROVE  StructureInv'
<1>1. UNCHANGED <<db, command>>
  BY DEF Page, Edits, AddNode, AddBracket, RenameNode, RemoveNode, DropRoute, ClearSlot,
         SeatEntrants, Edit, Discard, Commit, Succeed, Fail, ReadOverview, ReadMatches
<1>2. /\ UNCHANGED <<overview, list, sent, alone>>
      \/ Commit \/ Succeed \/ Fail \/ ReadOverview \/ ReadMatches
  BY DEF Page, Edits, AddNode, AddBracket, RenameNode, RemoveNode, DropRoute, ClearSlot,
         SeatEntrants, Edit, Discard
<1>3. alone => DbShape'
  BY <1>1 DEF StructureInv, DbShape
<1>4. alone' => alone
  BY <1>2 DEF Commit, Succeed, Fail, ReadOverview, ReadMatches
<1>5. SUFFICES ASSUME alone, alone'
               PROVE  /\ sent' = None \/ command' = Waiting
                      /\ SentFits' /\ TreeFollows(overview)' /\ ListFollows(list)'
  BY <1>1, <1>3, <1>4 DEF StructureInv, CommandFits
<1>6. /\ db.version \in Nat /\ (sent = None \/ command = Waiting) /\ SentFits
      /\ TreeFollows(overview) /\ ListFollows(list)
  BY <1>5 DEF StructureInv
<1>7. \A t : (TreeFollows(t) => TreeFollows(t)') /\ (ListFollows(t) => ListFollows(t)')
  BY <1>1 DEF TreeFollows, ListFollows, Fresh, MatchesHere
<1>8. CASE UNCHANGED <<overview, list, sent, alone>>
  BY <1>1, <1>6, <1>8 DEF SentFits, TreeFollows, ListFollows, Fresh, MatchesHere
<1>9. CASE Commit
  <2>1. /\ sent' = [step |-> "asked", plan |-> ToStructurePlan, tree |-> overview, list |-> list,
                    shown |-> OnCanvas(Shown)]
        /\ command = Waiting /\ UNCHANGED <<overview, list>>
    BY <1>5, <1>9 DEF Commit
  <2>2. ToStructurePlan.basedOn = overview.version
    BY DEF ToStructurePlan
  <2>3. TreeFollows(overview)' /\ ListFollows(list)'
    BY <1>1, <1>6, <2>1 DEF TreeFollows, ListFollows, Fresh, MatchesHere
  <2>4. PICK plan : plan = ToStructurePlan
    OBVIOUS
  <2>5. PICK shown : shown = OnCanvas(Shown)
    OBVIOUS
  <2>6. /\ sent'.plan = plan /\ sent'.tree = overview' /\ sent'.list = list' /\ sent'.step = "asked"
        /\ sent'.shown = shown /\ plan.basedOn = overview'.version
        /\ sent' = [step |-> "asked", plan |-> plan, tree |-> overview', list |-> list', shown |-> shown]
    BY <2>1, <2>2, <2>4, <2>5
  <2>7. TreeFollows(sent.tree)' /\ ListFollows(sent.list)'
    BY <2>3, <2>6
  <2>8. SentFits'
    BY <2>6, <2>7 DEF SentFits
  <2>. QED
    BY <1>1, <2>1, <2>3, <2>8
<1>10. CASE Succeed
  <2>0. PICK tree, seen : tree = ReadTree(db) /\ seen = ReadList(db)
    OBVIOUS
  <2>1. sent' = None /\ overview' = tree /\ list' = seen
    BY <1>10, <2>0 DEF Succeed
  <2>2. TreeFollows(tree)' /\ ListFollows(seen)'
    BY <1>6, <1>7, <2>0, ReadFollows
  <2>. QED
    BY <2>1, <2>2 DEF SentFits
<1>11. CASE Fail
  BY <1>1, <1>6, <1>7, <1>11 DEF Fail, SentFits
<1>12. CASE ReadOverview
  <2>0. PICK tree : tree = ReadTree(db)
    OBVIOUS
  <2>1. UNCHANGED <<list, sent>> /\ overview' = tree
    BY <1>12, <2>0 DEF ReadOverview
  <2>2. TreeFollows(tree)'
    BY <1>6, <1>7, <2>0, ReadFollows
  <2>3. TreeFollows(overview)' /\ ListFollows(list)' /\ SentFits'
    BY <1>1, <1>6, <1>7, <2>1, <2>2 DEF SentFits
  <2>. QED
    BY <1>1, <1>6, <2>1, <2>3
<1>13. CASE ReadMatches
  <2>0. PICK seen : seen = ReadList(db)
    OBVIOUS
  <2>1. UNCHANGED <<overview, sent>> /\ list' = seen
    BY <1>13, <2>0 DEF ReadMatches
  <2>2. ListFollows(seen)'
    BY <1>6, <1>7, <2>0, ReadFollows
  <2>3. TreeFollows(overview)' /\ ListFollows(list)' /\ SentFits'
    BY <1>1, <1>6, <1>7, <2>1, <2>2 DEF SentFits
  <2>. QED
    BY <1>1, <1>6, <2>1, <2>3
<1>. QED
  BY <1>2, <1>8, <1>9, <1>10, <1>11, <1>12, <1>13

\* The plan is validated and its version compared.
LEMMA CheckKeeps ==
  ASSUME StructureInv, Check
  PROVE  StructureInv'
<1>1. UNCHANGED <<db, overview, list, command, alone>> /\ sent # None
  BY DEF Check
<1>2. alone => DbShape'
  BY <1>1 DEF StructureInv, DbShape
<1>3. SUFFICES ASSUME alone
               PROVE  /\ sent' = None \/ command' = Waiting
                      /\ SentFits' /\ TreeFollows(overview)' /\ ListFollows(list)'
  BY <1>1, <1>2 DEF StructureInv, CommandFits
<1>4. /\ command = Waiting /\ SentFits /\ TreeFollows(overview) /\ ListFollows(list)
  BY <1>1, <1>3 DEF StructureInv
<1>5. TreeFollows(overview)' /\ ListFollows(list)'
  BY <1>1, <1>4 DEF TreeFollows, ListFollows, Fresh, MatchesHere
<1>6. PICK step : /\ sent' = [sent EXCEPT !.step = step]
                  /\ step = "checked" => sent.plan.basedOn = db.version
  <2>1. CASE Valid(sent.plan) /\ sent.plan.basedOn = db.version
    <3>1. sent' = [sent EXCEPT !.step = "checked"]
      BY <2>1 DEF Check
    <3>. QED
      BY <2>1, <3>1
  <2>2. CASE ~(Valid(sent.plan) /\ sent.plan.basedOn = db.version)
    <3>1. sent' = [sent EXCEPT !.step = "refused"]
      BY <2>2 DEF Check
    <3>. QED
      BY <3>1
  <2>. QED
    BY <2>1, <2>2
<1>7. PICK plan, tree, seen, shown :
         /\ sent = [step |-> sent.step, plan |-> plan, tree |-> tree, list |-> seen, shown |-> shown]
         /\ plan.basedOn = tree.version /\ TreeFollows(tree) /\ ListFollows(seen)
  BY <1>1, <1>4 DEF SentFits
<1>8. sent' = [step |-> step, plan |-> plan, tree |-> tree, list |-> seen, shown |-> shown]
  BY <1>6, <1>7
<1>9. TreeFollows(tree)' /\ ListFollows(seen)'
  BY <1>1, <1>7 DEF TreeFollows, ListFollows, Fresh, MatchesHere
<1>10. /\ sent'.step = step /\ sent'.plan = plan /\ sent'.tree = tree /\ sent'.list = seen
       /\ sent'.shown = shown
  BY <1>8
<1>11. sent.plan = plan /\ sent.tree = tree
  BY <1>7
<1>12. SentFits'
  BY <1>1, <1>6, <1>7, <1>8, <1>9, <1>10, <1>11 DEF SentFits
<1>. QED
  BY <1>1, <1>4, <1>5, <1>12

\* The plan is applied or refused: its version is counted with it.
LEMMA ApplyKeeps ==
  ASSUME StructureInv, Apply
  PROVE  StructureInv'
<1>1. /\ UNCHANGED <<overview, list, command, alone>> /\ sent # None /\ sent.step = "checked"
      /\ \/ /\ db' = Applied(db, sent.plan) /\ sent' = [sent EXCEPT !.step = "applied"]
         \/ /\ db' = db /\ sent' = [sent EXCEPT !.step = "refused"]
  BY DEF Apply
<1>2. PICK step \in {"applied", "refused"} :
         /\ sent' = [sent EXCEPT !.step = step]
         /\ \/ db' = Applied(db, sent.plan)
            \/ db' = db
  BY <1>1
<1>3. db' = Applied(db, sent.plan) => DbShape' /\ db'.version = db.version + 1
  BY DEF Applied, DbShape
<1>4. alone => DbShape'
  BY <1>2, <1>3 DEF StructureInv, DbShape
<1>5. SUFFICES ASSUME alone
               PROVE  /\ db'.version \in Nat /\ command' = Waiting
                      /\ SentFits' /\ CommandFits' /\ TreeFollows(overview)' /\ ListFollows(list)'
  BY <1>1, <1>4 DEF StructureInv
<1>6. /\ command = Waiting /\ SentFits /\ db.version \in Nat /\ CommandFits
  BY <1>1, <1>5 DEF StructureInv
<1>7. command' = Waiting /\ command'.step # "loaded" /\ CommandFits'
  BY <1>1, <1>6 DEF CommandFits, Waiting
<1>8. \/ db'.version = db.version + 1
      \/ db'.version = db.version /\ SameRows(db, db') /\ command'.step = command.step
  BY <1>1, <1>2, <1>3, RowsStay
<1>9. TreeFollows(overview)' /\ ListFollows(list)'
  BY <1>1, <1>5, <1>8, AllFollow
<1>10. PICK plan, tree, seen, shown :
         /\ sent = [step |-> sent.step, plan |-> plan, tree |-> tree, list |-> seen, shown |-> shown]
         /\ plan.basedOn = tree.version /\ TreeFollows(tree) /\ ListFollows(seen)
  BY <1>1, <1>6 DEF SentFits
<1>11. sent' = [step |-> step, plan |-> plan, tree |-> tree, list |-> seen, shown |-> shown]
  BY <1>2, <1>10
<1>12. TreeFollows(tree)' /\ ListFollows(seen)'
  BY <1>6, <1>8, <1>10, StillFollows
<1>13. /\ sent'.step = step /\ sent'.plan = plan /\ sent'.tree = tree /\ sent'.list = seen
       /\ sent'.shown = shown
  BY <1>11
<1>14. SentFits'
  BY <1>2, <1>10, <1>11, <1>12, <1>13 DEF SentFits
<1>. QED
  BY <1>6, <1>7, <1>8, <1>9, <1>14

\* Another organiser's request loads what it needs.
LEMMA CommandsKeep ==
  ASSUME StructureInv, Commands
  PROVE  StructureInv'
<1>1. /\ command = Waiting /\ UNCHANGED <<db, overview, list, sent>>
      /\ alone' = (alone /\ sent = None)
  BY DEF Commands, AddPhase, RenamePhase, RemovePhase, SeedEntrants, CreatePool, RenamePool,
         DeletePool, CreateMatch, RenameMatch, DeleteMatch, UpdateRules, OnDivision, Begin
<1>2. alone => DbShape'
  BY <1>1 DEF StructureInv, DbShape
<1>3. ASSUME NEW copy, NEW fresh, NEW dropped, NEW bumps, OnDivision(copy, fresh, dropped, bumps),
             bumps \/ (copy = Phases(db) /\ fresh = {} /\ dropped = {})
      PROVE  CommandFits' /\ command'.step = "loaded"
  <2>1. command' = [step |-> "loaded"] @@ [on |-> "division", copy |-> copy,
                      version |-> db.version, fresh |-> fresh, dropped |-> dropped,
                      bumps |-> bumps]
    BY <1>3 DEF OnDivision, Begin
  <2>2. /\ command'.step = "loaded" /\ "step" \in DOMAIN command' /\ command'.on = "division"
        /\ command'.copy = copy /\ command'.version = db.version /\ command'.fresh = fresh
        /\ command'.dropped = dropped /\ command'.bumps = bumps
    BY <2>1 DEF @@
  <2>3. Phases(db)' = Phases(db)
    BY <1>1
  <2>. QED
    BY <1>1, <1>3, <2>2, <2>3 DEF CommandFits, Counting
<1>4. ASSUME NEW on \in {"newPool", "newMatch"}, NEW under,
             Begin([on |-> on, under |-> under, bumps |-> TRUE])
      PROVE  CommandFits' /\ command'.step = "loaded"
  <2>1. command' = [step |-> "loaded"] @@ [on |-> on, under |-> under, bumps |-> TRUE]
    BY <1>4 DEF Begin
  <2>2. /\ command'.step = "loaded" /\ "step" \in DOMAIN command' /\ command'.on = on
        /\ command'.bumps = TRUE
    BY <2>1 DEF @@
  <2>. QED
    BY <1>4, <2>2 DEF CommandFits, Counting
<1>5. ASSUME NEW row, NEW copy, NEW held,
             Begin([on |-> "pool", row |-> row, copy |-> copy, held |-> held, bumps |-> TRUE])
      PROVE  CommandFits' /\ command'.step = "loaded"
  <2>1. command' = [step |-> "loaded"] @@ [on |-> "pool", row |-> row, copy |-> copy,
                                           held |-> held, bumps |-> TRUE]
    BY <1>5 DEF Begin
  <2>2. /\ command'.step = "loaded" /\ "step" \in DOMAIN command' /\ command'.on = "pool"
        /\ command'.bumps = TRUE
    BY <2>1 DEF @@
  <2>. QED
    BY <2>2 DEF CommandFits, Counting
<1>6. ASSUME NEW row, NEW rules, Begin([on |-> "gone", row |-> row, rules |-> rules, bumps |-> TRUE])
      PROVE  CommandFits' /\ command'.step = "loaded"
  <2>1. command' = [step |-> "loaded"] @@ [on |-> "gone", row |-> row, rules |-> rules, bumps |-> TRUE]
    BY <1>6 DEF Begin
  <2>2. /\ command'.step = "loaded" /\ "step" \in DOMAIN command' /\ command'.on = "gone"
        /\ command'.bumps = TRUE
    BY <2>1 DEF @@
  <2>. QED
    BY <2>2 DEF CommandFits, Counting
<1>7. ASSUME NEW row, NEW rules, Begin([on |-> "rules", row |-> row, rules |-> rules, bumps |-> FALSE])
      PROVE  CommandFits' /\ command'.step = "loaded"
  <2>1. command' = [step |-> "loaded"] @@ [on |-> "rules", row |-> row, rules |-> rules, bumps |-> FALSE]
    BY <1>7 DEF Begin
  <2>2. command'.step = "loaded" /\ "step" \in DOMAIN command' /\ command'.on = "rules"
    BY <2>1 DEF @@
  <2>. QED
    BY <2>2 DEF CommandFits, Counting
<1>8. ASSUME RenameMatch
      PROVE  CommandFits' /\ command'.step = "loaded"
  <2>1. PICK m \in OfKind(db.rows, "match"), name \in Names :
           Begin([on |-> "match", row |-> m, copy |-> Row(db.rows[m].parent, name),
                  seats |-> db.seats[m], bumps |-> FALSE])
    BY <1>8 DEF RenameMatch
  <2>2. PICK copy, seats : copy = Row(db.rows[m].parent, name) /\ seats = db.seats[m]
    OBVIOUS
  <2>3. command' = [step |-> "loaded"] @@ [on |-> "match", row |-> m, copy |-> copy,
                                           seats |-> seats, bumps |-> FALSE]
    BY <2>1, <2>2 DEF Begin
  <2>4. /\ command'.step = "loaded" /\ "step" \in DOMAIN command' /\ command'.on = "match"
        /\ command'.row = m /\ command'.copy = copy
    BY <2>3 DEF @@
  <2>5. m \in DOMAIN db.rows /\ Kind(m) = "match" /\ copy.parent = db.rows[m].parent
    BY <2>2 DEF OfKind, Row
  <2>. QED
    BY <1>1, <2>4, <2>5 DEF CommandFits, Counting
<1>9. CommandFits' /\ command'.step = "loaded"
  <2>1. CASE AddPhase \/ RenamePhase \/ RemovePhase \/ SeedEntrants
    BY <1>3, <2>1 DEF AddPhase, RenamePhase, RemovePhase, SeedEntrants
  <2>2. CASE CreatePool \/ CreateMatch
    BY <1>4, <2>2 DEF CreatePool, CreateMatch
  <2>3. CASE RenamePool
    BY <1>5, <2>3 DEF RenamePool
  <2>4. CASE DeletePool \/ DeleteMatch
    BY <1>6, <2>4 DEF DeletePool, DeleteMatch
  <2>5. CASE UpdateRules
    BY <1>7, <2>5 DEF UpdateRules
  <2>. QED
    BY <1>8, <2>1, <2>2, <2>3, <2>4, <2>5 DEF Commands
<1>10. SUFFICES ASSUME alone, sent = None
                PROVE  TreeFollows(overview)' /\ ListFollows(list)' /\ SentFits' /\ sent' = None
  BY <1>1, <1>2, <1>9 DEF StructureInv
<1>11. command.step # "saved" /\ SameRows(db, db') /\ db'.version = db.version
  BY <1>1, RowsStay DEF Waiting
<1>12. TreeFollows(overview)' /\ ListFollows(list)'
  BY <1>1, <1>9, <1>10, <1>11, AllFollow
<1>. QED
  BY <1>1, <1>10, <1>12 DEF SentFits

\* A save keeps the version, and the rows too if it does not count itself.
LEMMA SaveKeepsVersion ==
  ASSUME NEW d, NEW c, NEW new, new = SavedBy(d, c),
         d = [rows |-> d.rows, rules |-> d.rules, version |-> d.version, next |-> d.next,
              seats |-> d.seats],
         c.on \in Counting \cup {"division", "match", "rules"},
         c.on = "division" => c.version = d.version
  PROVE  /\ new = [rows |-> new.rows, rules |-> new.rules, version |-> new.version,
                   next |-> new.next, seats |-> new.seats]
         /\ new.version = d.version
<1> DEFINE Like(e) ==
             /\ e = [rows |-> e.rows, rules |-> e.rules, version |-> e.version,
                     next |-> e.next, seats |-> e.seats]
             /\ e.version = d.version
<1>1. CASE c.on = "division"
  <2>1. new = DivisionSaved(d, c)
    BY <1>1 DEF SavedBy
  <2>2. PICK rows, seats :
          new = [d EXCEPT !.rows = rows, !.seats = seats, !.version = c.version, !.next = @ + 1]
    BY <2>1 DEF DivisionSaved
  <2>. QED
    BY <1>1, <2>2
<1>2. CASE c.on \in {"newPool", "newMatch"}
  <2>1. PICK kind : new = Inserted(d, kind, c.under)
    BY <1>2 DEF SavedBy
  <2>2. PICK rows, seats : new = [d EXCEPT !.rows = rows, !.next = @ + 1, !.seats = seats]
    BY <2>1 DEF Inserted
  <2>. QED
    BY <2>2
<1>3. CASE c.on = "pool"
  <2>1. new = PoolSaved(d, c)
    BY <1>3 DEF SavedBy
  <2>2. PICK rows : new = [d EXCEPT !.rows = rows]
    BY <2>1 DEF PoolSaved
  <2>. QED
    BY <2>2
<1>4. CASE c.on = "match"
  <2>1. new = MatchSaved(d, c)
    BY <1>4 DEF SavedBy
  <2>2. PICK rows, seats : new = [d EXCEPT !.rows = rows, !.seats = seats]
    BY <2>1 DEF MatchSaved
  <2>. QED
    BY <2>2
<1>5. CASE c.on = "gone"
  <2>1. new = Deleted(d, c)
    BY <1>5 DEF SavedBy
  <2>2. PICK rows, seats, rules : new = [d EXCEPT !.rows = rows, !.seats = seats, !.rules = rules]
    BY <2>1 DEF Deleted
  <2>. QED
    BY <2>2
<1>6. CASE c.on = "rules"
  <2>1. new = RulesReplaced(d, c)
    BY <1>6 DEF SavedBy
  <2>2. PICK rules : new = [d EXCEPT !.rules = rules]
    BY <2>1 DEF RulesReplaced
  <2>. QED
    BY <2>2
<1>. QED
  BY <1>1, <1>2, <1>3, <1>4, <1>5, <1>6 DEF Counting

LEMMA UncountedSaveKeepsRows ==
  ASSUME NEW d, NEW c, NEW new, new = SavedBy(d, c),
         d = [rows |-> d.rows, rules |-> d.rules, version |-> d.version, next |-> d.next,
              seats |-> d.seats],
         \/ /\ c.on = "division" /\ c.copy = Phases(d) /\ c.fresh = {} /\ c.dropped = {}
         \/ /\ c.on = "match" /\ c.row \in DOMAIN d.rows /\ Kind(c.row) = "match"
            /\ c.copy.parent = d.rows[c.row].parent
         \/ c.on = "rules"
  PROVE  SameRows(d, new)
<1>1. CASE c.on = "division" /\ c.copy = Phases(d) /\ c.fresh = {} /\ c.dropped = {}
  <2> DEFINE strangers == DOMAIN Phases(d) \ (DOMAIN c.copy \cup c.dropped)
             fresh == {<<"phase", d.next + 1>> : name \in c.fresh}
             rows == [r \in fresh |-> Row(Division, NewName)] @@ c.copy
                       @@ [r \in strangers |-> [d.rows[r] EXCEPT !.parent = None]] @@ d.rows
             gone == Below(d.rows, c.dropped)
  <2>1. new.rows = Without(rows, gone)
    <3>1. new = DivisionSaved(d, c)
      BY <1>1 DEF SavedBy
    <3>2. PICK all : all = Without(rows, gone)
      OBVIOUS
    <3>3. PICK seats : new = [d EXCEPT !.rows = all, !.seats = seats, !.version = c.version, !.next = @ + 1]
      BY <3>1, <3>2 DEF DivisionSaved
    <3>. QED
      BY <3>2, <3>3
  <2>2. strangers = {} /\ fresh = {} /\ gone = {}
    BY <1>1 DEF Below, ChildrenOf
  <2>3. /\ DOMAIN c.copy \subseteq DOMAIN d.rows
        /\ \A r \in DOMAIN c.copy : c.copy[r] = d.rows[r]
    BY <1>1 DEF Phases, Restrict, ChildrenOf
  <2>4. PICK none, nobody : /\ none = [r \in fresh |-> Row(Division, NewName)]
                            /\ nobody = [r \in strangers |-> [d.rows[r] EXCEPT !.parent = None]]
    OBVIOUS
  <2>5. DOMAIN none = {} /\ DOMAIN nobody = {}
    BY <2>2, <2>4
  <2>6. rows = none @@ c.copy @@ nobody @@ d.rows
    BY <2>4
  <2> HIDE DEF rows, gone, strangers, fresh
  <2>7. DOMAIN rows = DOMAIN d.rows /\ \A r \in DOMAIN rows : rows[r] = d.rows[r]
    BY <2>3, <2>5, <2>6 DEF @@
  <2>8. DOMAIN new.rows = DOMAIN d.rows /\ \A r \in DOMAIN d.rows : new.rows[r] = d.rows[r]
    BY <2>1, <2>2, <2>7 DEF Without
  <2>. QED
    BY <2>8 DEF SameRows
<1>2. CASE /\ c.on = "match" /\ c.row \in DOMAIN d.rows /\ Kind(c.row) = "match"
           /\ c.copy.parent = d.rows[c.row].parent
  <2>1. PICK rows : rows = (c.row :> c.copy) @@ d.rows
    OBVIOUS
  <2>2. new.rows = rows
    <3>1. new = MatchSaved(d, c)
      BY <1>2 DEF SavedBy
    <3>2. PICK seats : new = [d EXCEPT !.rows = rows, !.seats = seats]
      BY <2>1, <3>1 DEF MatchSaved
    <3>. QED
      BY <3>2
  <2>3. /\ DOMAIN rows = DOMAIN d.rows /\ rows[c.row] = c.copy
        /\ \A r \in DOMAIN d.rows \ {c.row} : rows[r] = d.rows[r]
    BY <1>2, <2>1 DEF @@, :>
  <2>. QED
    BY <1>2, <2>2, <2>3 DEF SameRows
<1>3. CASE c.on = "rules"
  <2>1. PICK rules : new = [d EXCEPT !.rules = rules]
    BY <1>3 DEF SavedBy, RulesReplaced
  <2>2. new.rows = d.rows
    BY <2>1
  <2>. QED
    BY <2>2 DEF SameRows
<1>. QED
  BY <1>1, <1>2, <1>3

\* The request saves.
LEMMA SaveKeeps ==
  ASSUME StructureInv, Save
  PROVE  StructureInv'
<1>1. command.step = "loaded" /\ UNCHANGED <<overview, list, sent, alone>>
  BY DEF Save
<1>2. SUFFICES ASSUME alone PROVE StructureInv'
  BY <1>1 DEF StructureInv
<1>3. DbShape /\ db.version \in Nat /\ sent = None /\ CommandFits
  BY <1>1, <1>2 DEF StructureInv, Waiting
<1>4. CASE ParentGone(db, command)
  <2>1. UNCHANGED db /\ command' = Waiting
    BY <1>4 DEF Save
  <2>2. TreeFollows(overview)' /\ ListFollows(list)'
    BY <1>1, <1>2, <2>1, AllFollow, RowsStay
  <2>. QED
    BY <1>1, <1>3, <2>1, <2>2 DEF StructureInv, DbShape, CommandFits, SentFits, Waiting
<1>5. CASE ~ParentGone(db, command)
  <2>1. PICK d, c, new : d = db /\ c = command /\ new = db'
    OBVIOUS
  <2>2. /\ new = SavedBy(d, c)
        /\ command' = IF c.bumps THEN [step |-> "saved", made |-> d.next + 1] @@ c ELSE Waiting
    BY <1>5, <2>1 DEF Save
  <2>3. /\ c.on \in Counting \cup {"division", "match", "rules"}
        /\ c.on = "division" => c.version = d.version
        /\ d = [rows |-> d.rows, rules |-> d.rules, version |-> d.version, next |-> d.next,
                seats |-> d.seats]
    BY <1>1, <1>3, <2>1 DEF CommandFits, DbShape
  <2>4. /\ new = [rows |-> new.rows, rules |-> new.rules, version |-> new.version,
                  next |-> new.next, seats |-> new.seats]
        /\ new.version = d.version
    BY <2>2, <2>3, SaveKeepsVersion
  <2>5. DbShape' /\ db'.version = db.version
    BY <2>1, <2>4 DEF DbShape
  <2>6. \/ command'.step = "saved" /\ "step" \in DOMAIN command'
        \/ command' = Waiting /\ SameRows(db, db')
    <3>1. CASE c.bumps
      <4>1. PICK mark : mark = [step |-> "saved", made |-> d.next + 1]
        OBVIOUS
      <4>2. command' = mark @@ c
        BY <2>2, <3>1, <4>1
      <4>. QED
        BY <4>1, <4>2 DEF @@
    <3>2. CASE ~c.bumps
      <4>1. \/ /\ c.on = "division" /\ c.copy = Phases(d) /\ c.fresh = {} /\ c.dropped = {}
            \/ /\ c.on = "match" /\ c.row \in DOMAIN d.rows /\ Kind(c.row) = "match"
               /\ c.copy.parent = d.rows[c.row].parent
            \/ c.on = "rules"
        BY <1>1, <1>3, <2>1, <3>2 DEF CommandFits
      <4>2. SameRows(d, new)
        BY <2>2, <2>3, <4>1, UncountedSaveKeepsRows
      <4>. QED
        BY <2>1, <2>2, <3>2, <4>2
    <3>. QED
      BY <3>1, <3>2
  <2>7. TreeFollows(overview)' /\ ListFollows(list)'
    BY <1>1, <1>2, <2>5, <2>6, AllFollow
  <2>8. CommandFits'
    BY <2>6 DEF CommandFits, Waiting
  <2>9. sent' = None /\ SentFits'
    BY <1>1, <1>3 DEF SentFits
  <2>. QED
    BY <1>3, <2>5, <2>7, <2>8, <2>9 DEF StructureInv
<1>. QED
  BY <1>4, <1>5

\* The request raises the version.
LEMMA BumpKeeps ==
  ASSUME StructureInv, Bump
  PROVE  StructureInv'
<1>1. command.step = "saved" /\ UNCHANGED <<overview, list, sent, alone>>
  BY DEF Bump
<1>2. SUFFICES ASSUME alone PROVE StructureInv'
  BY <1>1 DEF StructureInv
<1>3. DbShape /\ db.version \in Nat /\ sent = None
  BY <1>1, <1>2 DEF StructureInv, Waiting
<1>4. DbShape' /\ db'.version = db.version + 1
  BY <1>3 DEF DbShape, Bump
<1>5. TreeFollows(overview)' /\ ListFollows(list)'
  BY <1>1, <1>2, <1>4, AllFollow
<1>6. CommandFits'
  <2>1. PICK under : \/ command' = [step |-> "loaded", on |-> "newPool", under |-> under, bumps |-> TRUE]
                     \/ command' = Waiting
    BY DEF Bump
  <2>2. CASE command' = Waiting
    BY <2>2 DEF CommandFits, Waiting
  <2>3. CASE command' = [step |-> "loaded", on |-> "newPool", under |-> under, bumps |-> TRUE]
    BY <2>3 DEF CommandFits, Counting
  <2>. QED
    BY <2>1, <2>2, <2>3
<1>7. sent' = None /\ SentFits'
  BY <1>1, <1>3 DEF SentFits
<1>. QED
  BY <1>3, <1>4, <1>5, <1>6, <1>7 DEF StructureInv

LEMMA StructureInitially ==
  ASSUME Init
  PROVE  StructureInv
<1>1. DbShape /\ db.version = 0
  BY DEF Init, DbShape
<1>2. TreeFollows(ReadTree(db)) /\ ListFollows(ReadList(db))
  BY <1>1, ReadFollows
<1>3. overview = ReadTree(db) /\ list = ReadList(db) /\ sent = None /\ command = Waiting
  BY DEF Init
<1>. QED
  BY <1>1, <1>2, <1>3 DEF StructureInv, SentFits, CommandFits, Waiting

LEMMA StructureAlways == Spec => []StructureInv
<1>1. StructureInv /\ [Next]_vars => StructureInv'
  <2>1. ASSUME StructureInv, Crash PROVE StructureInv'
    BY <2>1 DEF Crash, StructureInv
  <2>2. ASSUME StructureInv, UNCHANGED vars PROVE StructureInv'
    BY <2>2 DEF vars, StructureInv, DbShape, CommandFits, SentFits, TreeFollows, ListFollows,
               Fresh, MatchesHere
  <2>. QED
    BY <2>1, <2>2, PageKeeps, CheckKeeps, ApplyKeeps, CommandsKeep, SaveKeeps, BumpKeeps DEF Next
<1>2. Init => StructureInv
  BY StructureInitially
<1>. QED
  BY <1>1, <1>2, PTL DEF Spec

-----------------------------------------------------------------------------
(* The theorem.                                                            *)

\* For any names, entrants, drafts and commands: as long as no two requests
\* have overlapped, a plan whose version is welcome and whose matches were
\* listed at that version finds the rows the page had read, although a command
\* saves first and raises the version later, and some never do.
THEOREM VersionsTell == Spec => AppliedToWhatItSaw
<1>1. StructureInv /\ [Next]_vars
        => [PlanApplied /\ alone /\ sent.list.at = sent.tree.version
              => Counted(Read(sent.tree, sent.list)) = Counted(db)]_vars
  <2>1. SUFFICES ASSUME StructureInv, PlanApplied, alone, sent.list.at = sent.tree.version
                 PROVE  Counted(Read(sent.tree, sent.list)) = Counted(db)
    OBVIOUS
  <2>2. sent # None /\ sent.step = "checked" /\ SentFits /\ command = Waiting
    BY <2>1 DEF StructureInv, PlanApplied
  <2>3. PICK tree, seen, d : tree = sent.tree /\ seen = sent.list /\ d = db
    OBVIOUS
  <2>4. TreeFollows(tree) /\ ListFollows(seen) /\ Fresh(tree.version) /\ Fresh(seen.at)
    BY <2>1, <2>2, <2>3 DEF SentFits, Fresh, Waiting
  <2>5. /\ tree.rows = ReadTree(d).rows
        /\ DOMAIN seen.rows = OfKind(d.rows, "match") \cap Attached(d.rows)
        /\ \A r \in DOMAIN seen.rows : seen.rows[r].parent = d.rows[r].parent
    BY <2>3, <2>4 DEF TreeFollows, ListFollows, MatchesHere
  <2>6. Counted(Read(tree, seen)) = Counted(d)
    BY <2>5, SeenIsThere
  <2>. QED
    BY <2>3, <2>6
<1>. QED
  BY <1>1, StructureAlways, PTL DEF Spec, AppliedToWhatItSaw

-----------------------------------------------------------------------------
(* What makes a draft a valid plan: an invariant of its own, of the tables,  *)
(* of what was read, of the requests and of the draft.                       *)

Kinds == {"phase", "pool", "match"}
NodeRef == Kinds \X (Int \ {0})
Stored == Kinds \X (Nat \ {0})
Ends == Routable \X (Nat \ {0})

\* A row hangs from one of the kind above its own.
HangsFrom(r, parent) ==
  IF Kind(r) = "phase" THEN parent = Division
  ELSE parent \in NodeRef /\ Kind(parent) = ParentKind[Kind(r)]

RowFits(r, row) ==
  /\ r \in Stored
  /\ row = [parent |-> row.parent, name |-> row.name] /\ row.name # None
  /\ row.parent = None \/ (HangsFrom(r, row.parent) /\ ~Pending(row.parent))

RowsFit(rows) == \A r \in DOMAIN rows : RowFits(r, rows[r])
RulesFit(rules) == \A rule \in rules : rule.from \in Ends /\ rule.to \in Ends

DbFits == RowsFit(db.rows) /\ RulesFit(db.rules) /\ db.next \in Nat

\* What is read hangs from something.
ReadFits(tree) ==
  /\ RowsFit(tree.rows) /\ RulesFit(tree.rules)
  /\ \A r \in DOMAIN tree.rows : tree.rows[r].parent # None

Alive(d, ref) == ref \in NodeRef \ d.removed /\ (ref \in Stored \/ ref \in DOMAIN d.added)

DraftShape(d) ==
  /\ d = [added |-> d.added, renamed |-> d.renamed, removed |-> d.removed, routes |-> d.routes,
          cleared |-> d.cleared, seated |-> d.seated]
  /\ d.added = [r \in DOMAIN d.added |-> [parent |-> d.added[r].parent, name |-> d.added[r].name]]

\* What is added is numbered below zero and hangs from what is there or added.
AddedFits(d) ==
  /\ \E n \in Nat : DOMAIN d.added \subseteq Kinds \X {-k : k \in 1 .. n}
  /\ \A r \in DOMAIN d.added :
       /\ d.added[r].name # None /\ HangsFrom(r, d.added[r].parent)
       /\ d.added[r].parent = Division \/ Alive(d, d.added[r].parent)

RouteShape(r) == r = [from |-> r.from, place |-> r.place, to |-> r.to, slot |-> r.slot]

RouteFits(d, r) ==
  /\ RouteShape(r)
  /\ Kind(r.from) \in Routable /\ Alive(d, r.from)
  /\ Kind(r.to) \in Routable /\ Alive(d, r.to)

RoutesFit(d) ==
  /\ \A r \in d.routes : RouteFits(d, r)
  /\ \A r, other \in d.routes : Slot(r) = Slot(other) => r = other

\* What the draft says is about rows that it does not remove.
DraftFits(d) ==
  /\ DraftShape(d) /\ AddedFits(d) /\ RoutesFit(d)
  /\ d.removed \subseteq Stored
  /\ \A r \in DOMAIN d.renamed : r \in Stored \ d.removed /\ d.renamed[r] # None
  /\ \A s \in d.cleared :
       /\ s = <<s[1], s[2]>> /\ Kind(s[1]) \in Routable /\ Alive(d, s[1])
       /\ \A r \in d.routes : Slot(r) # s
  /\ \A m \in DOMAIN d.seated : Alive(d, m)

\* A request carries rows and rules that fit.
LoadFits(c) ==
  /\ c.on \in Counting \cup {"division", "match", "rules"}
  /\ c.on = "division" => RowsFit(c.copy)
  /\ c.on = "newPool" => c.under \in Stored /\ Kind(c.under) = "phase"
  /\ c.on = "newMatch" => c.under \in Stored /\ Kind(c.under) = "pool"
  /\ c.on \in {"pool", "match"} => RowFits(c.row, c.copy)
  /\ c.on = "rules" => RulesFit(c.rules)

RequestFits ==
  /\ command.step = "loaded" => LoadFits(command)
  /\ command.step = "saved" => command.made \in Nat \ {0}

PlanFits(plan) ==
  /\ \E n \in Nat : \A r \in DOMAIN plan.nodes : r \in NodeRef \cup {Division} /\ -r[2] <= n
  /\ \A r \in Refs(plan, "create") : Pending(r)
  /\ \A r \in Refs(plan, "link") : ~Pending(r)
  /\ \A r \in plan.routes : RouteShape(r)

PlanSentFits ==
  sent # None =>
    /\ sent = [step |-> sent.step, plan |-> sent.plan, tree |-> sent.tree, list |-> sent.list,
               shown |-> sent.shown]
    /\ sent.step \in {"asked", "checked"} => PlanFits(sent.plan)
    /\ sent.step = "checked" => Valid(sent.plan)

DraftInv ==
  /\ DbShape /\ DbFits /\ ReadFits(overview) /\ ReadFits(list)
  /\ RequestFits /\ DraftFits(draft) /\ PlanSentFits

-----------------------------------------------------------------------------
(* The greatest of some numbers.                                           *)

LEMMA MostOf ==
  ASSUME NEW n \in Nat, NEW numbers \in SUBSET (0 .. n)
  PROVE  /\ Most(numbers) \in numbers \cup {0}
         /\ \A k \in numbers : k <= Most(numbers)
<1> DEFINE all == numbers \cup {0}
           above == {m \in Nat : \A k \in all : k <= m}
           R == {pair \in Nat \X Nat : pair[1] < pair[2]}
<1>1. IsWellFoundedOn(R, Nat)
  BY NatLessThanWellFounded DEF OpToRel
<1>2. above \subseteq Nat /\ n \in above
  OBVIOUS
<1>3. PICK m \in above : \A y \in above : <<y, m>> \notin R
  <2> HIDE DEF above, R
  <2>1. above # {}
    BY <1>2
  <2>. QED
    BY <1>1, <1>2, <2>1, WFMin
<1>4. m \in Nat /\ \A k \in all : k \in Nat /\ k <= m
  OBVIOUS
<1>5. m \in all
  <2>1. CASE m = 0
    BY <2>1
  <2>2. CASE m # 0
    <3>1. m - 1 \in Nat /\ <<m - 1, m>> \in R
      BY <1>4, <2>2
    <3>2. m - 1 \notin above
      BY <1>3, <3>1
    <3>3. PICK k \in all : ~(k <= m - 1)
      BY <3>1, <3>2
    <3>4. k = m
      BY <1>4, <3>3
    <3>. QED
      BY <3>4
  <2>. QED
    BY <2>1, <2>2
<1>6. PICK most : most = Most(numbers)
  OBVIOUS
<1>7. \E x \in all : \A other \in all : other <= x
  BY <1>4, <1>5
<1>8. most = CHOOSE x \in numbers \cup {0} : \A other \in numbers : other <= x
  BY <1>6 DEF Most
<1>9. \E x \in numbers \cup {0} : \A other \in numbers : other <= x
  BY <1>7
<1>10. most \in numbers \cup {0} /\ \A other \in numbers : other <= most
  <2> HIDE DEF all, above, R
  <2>. QED
    BY <1>8, <1>9
<1>. QED
  BY <1>6, <1>10

-----------------------------------------------------------------------------
(* Rows that fit.                                                          *)

\* Rows that fit, laid over rows that fit.
LEMMA BothFit ==
  ASSUME NEW f, NEW g, RowsFit(f), RowsFit(g)
  PROVE  RowsFit(f @@ g)
BY DEF RowsFit, @@

\* Fewer rows fit.
LEMMA FewerFit ==
  ASSUME NEW f, NEW keys, RowsFit(f)
  PROVE  RowsFit(Without(f, keys))
BY DEF RowsFit, Without

\* A row of its own fits.
LEMMA OneFits ==
  ASSUME NEW r, NEW row, RowFits(r, row)
  PROVE  RowsFit(r :> row)
BY DEF RowsFit, :>

\* A row that has lost its parent fits.
LEMMA OrphanFits ==
  ASSUME NEW r, NEW row, RowFits(r, row)
  PROVE  RowFits(r, [row EXCEPT !.parent = None])
BY DEF RowFits

\* A row with the suggested name fits below one of the kind above.
LEMMA SuggestedFits ==
  ASSUME NEW r \in Stored, NEW parent, HangsFrom(r, parent), ~Pending(parent)
  PROVE  RowFits(r, Row(parent, NewName))
BY NamesAssumption DEF RowFits, Row

\* What is attached hangs from something.
LEMMA AttachedHang ==
  ASSUME NEW rows, RowsFit(rows)
  PROVE  /\ Attached(rows) \subseteq DOMAIN rows
         /\ \A r \in Attached(rows) : rows[r].parent # None
<1>1. Attached(rows) \subseteq DOMAIN rows
  BY AttachedAreRows
<1>2. DOMAIN rows \subseteq Stored
  BY DEF RowsFit, RowFits
<1>3. None \notin Stored \cup {Division}
  BY NodesAssumption DEF Stored, Kinds
<1>4. \A r \in Attached(rows) : rows[r].parent \in DOMAIN rows \cup {Division}
  BY DEF Attached, Below, ChildrenOf
<1>. QED
  BY <1>1, <1>2, <1>3, <1>4

\* What the queries read of tables that fit hangs from something.
LEMMA ReadsFit ==
  ASSUME DbFits
  PROVE  ReadFits(ReadTree(db)) /\ ReadFits(ReadList(db))
<1>1. PICK d : d = db
  OBVIOUS
<1>2. RowsFit(d.rows) /\ RulesFit(d.rules)
  BY <1>1 DEF DbFits
<1>3. /\ Attached(d.rows) \subseteq DOMAIN d.rows
      /\ \A r \in Attached(d.rows) : d.rows[r].parent # None
  BY <1>2, AttachedHang
<1>4. ReadFits(ReadTree(d))
  <2>1. PICK tree : /\ tree \subseteq Attached(d.rows)
                    /\ ReadTree(d).rows = [r \in tree |-> d.rows[r]]
                    /\ ReadTree(d).rules \subseteq d.rules
    <3>1. PICK tree : tree = {r \in Attached(d.rows) : Kind(r) # "match"}
      OBVIOUS
    <3>2. /\ ReadTree(d).rows = Restrict(d.rows, tree)
          /\ ReadTree(d).rules = {r \in d.rules : r.from \in tree}
      BY <3>1 DEF ReadTree
    <3>3. Restrict(d.rows, tree) = [r \in tree |-> d.rows[r]]
      BY <1>3, <3>1 DEF Restrict
    <3>. QED
      BY <3>1, <3>2, <3>3
  <2>. QED
    BY <1>2, <1>3, <2>1 DEF ReadFits, RowsFit, RulesFit
<1>5. ReadFits(ReadList(d))
  <2>1. PICK here : /\ here \subseteq Attached(d.rows)
                    /\ ReadList(d).rows = [r \in here |-> d.rows[r]]
                    /\ ReadList(d).rules \subseteq d.rules
    <3>1. PICK here : here = OfKind(d.rows, "match") \cap Attached(d.rows)
      OBVIOUS
    <3>2. /\ ReadList(d).rows = Restrict(d.rows, here)
          /\ ReadList(d).rules = {r \in d.rules : Touches(r, here)}
      BY <3>1 DEF ReadList
    <3>3. Restrict(d.rows, here) = [r \in here |-> d.rows[r]]
      BY <1>3, <3>1 DEF Restrict
    <3>. QED
      BY <3>1, <3>2, <3>3
  <2>. QED
    BY <1>2, <1>3, <2>1 DEF ReadFits, RowsFit, RulesFit
<1>. QED
  BY <1>1, <1>4, <1>5

-----------------------------------------------------------------------------
(* Every edit of a draft keeps it fit.                                     *)

\* The next number is above those used.
LEMMA NextIsNew ==
  ASSUME NEW d, AddedFits(d)
  PROVE  /\ NextId(d) \in Nat \ {0}
         /\ \A r \in DOMAIN d.added : -r[2] \in Nat /\ -r[2] < NextId(d)
<1>1. PICK n \in Nat : DOMAIN d.added \subseteq Kinds \X {-k : k \in 1 .. n}
  BY DEF AddedFits
<1>2. PICK numbers : numbers = Drafted(DOMAIN d.added)
  OBVIOUS
<1>3. \A r \in DOMAIN d.added : -r[2] \in 0 .. n /\ -r[2] \in numbers
  <2>1. ASSUME NEW r \in DOMAIN d.added PROVE -r[2] \in 0 .. n
    <3>1. r \in Kinds \X {-k : k \in 1 .. n}
      BY <1>1
    <3>2. PICK k \in 1 .. n : r[2] = -k
      BY <3>1
    <3>. QED
      BY <3>2
  <2>. QED
    BY <1>2, <2>1 DEF Drafted
<1>4. numbers \in SUBSET (0 .. n)
  BY <1>2, <1>3 DEF Drafted
<1>5. PICK most : most = Most(numbers)
  OBVIOUS
<1>6. most \in numbers \cup {0} /\ \A k \in numbers : k <= most
  <2>1. /\ Most(numbers) \in numbers \cup {0}
        /\ \A k \in numbers : k <= Most(numbers)
    BY <1>4, MostOf
  <2>. QED
    BY <1>5, <2>1
<1>7. NextId(d) = most + 1 /\ most \in Nat
  BY <1>2, <1>4, <1>5, <1>6 DEF NextId
<1>. QED
  BY <1>3, <1>4, <1>6, <1>7

\* A node added below what is there or added; everything the draft spoke of
\* may still be spoken of.
LEMMA AddingFits ==
  ASSUME NEW d, DraftFits(d), NEW kind \in Kinds, NEW parent, NEW name, name # None,
         HangsFrom(<<kind, -1>>, parent), parent = Division \/ Alive(d, parent),
         NEW e, e = Added(d, kind, parent, name)
  PROVE  /\ DraftFits(e) /\ Alive(e, <<kind, -NextId(d)>>)
         /\ \A r : Alive(d, r) => Alive(e, r)
         /\ e.routes = d.routes /\ e.cleared = d.cleared
         /\ NextId(e) = NextId(d) + 1
<1>1. PICK n : n = NextId(d)
  OBVIOUS
<1>2. n \in Nat \ {0} /\ \A r \in DOMAIN d.added : -r[2] \in Nat /\ -r[2] < n
  <2>1. AddedFits(d)
    BY DEF DraftFits
  <2>. QED
    BY <1>1, <2>1, NextIsNew
<1>3. PICK new : new = <<kind, -n>>
  OBVIOUS
<1>4. PICK one : one = (new :> Row(parent, name))
  OBVIOUS
<1>5. PICK all : all = d.added @@ one
  OBVIOUS
<1>6. e = [d EXCEPT !.added = all]
  BY <1>1, <1>3, <1>4, <1>5 DEF Added
<1>7. DraftShape(d)
  BY DEF DraftFits
<1>8. e = [added |-> all, renamed |-> d.renamed, removed |-> d.removed, routes |-> d.routes,
           cleared |-> d.cleared, seated |-> d.seated]
  BY <1>6, <1>7 DEF DraftShape
<1>9. /\ e.added = all /\ e.renamed = d.renamed /\ e.removed = d.removed /\ e.routes = d.routes
      /\ e.cleared = d.cleared /\ e.seated = d.seated
  BY <1>8
<1>10. new \in NodeRef /\ new[2] = -n /\ Kind(new) = kind /\ new \notin Stored
  BY <1>2, <1>3 DEF NodeRef, Stored, Kind
<1>11. new \notin DOMAIN d.added
  <2>1. -new[2] = n
    BY <1>2, <1>10
  <2>. QED
    BY <1>2, <2>1
<1>12. /\ DOMAIN all = DOMAIN d.added \cup {new}
       /\ all[new] = Row(parent, name)
       /\ \A r \in DOMAIN d.added : all[r] = d.added[r]
       /\ all = [r \in DOMAIN all |-> IF r = new THEN Row(parent, name) ELSE d.added[r]]
  BY <1>4, <1>5, <1>11 DEF @@, :>
<1>13. \A r : Alive(d, r) => Alive(e, r)
  BY <1>9, <1>12 DEF Alive
<1>14. d.removed \subseteq Stored
  BY DEF DraftFits
<1>15. Alive(e, new)
  BY <1>9, <1>10, <1>12, <1>14 DEF Alive
<1>16. DraftShape(e)
  <2>1. \A r \in DOMAIN all : all[r] = [parent |-> all[r].parent, name |-> all[r].name]
    BY <1>7, <1>12 DEF DraftShape, Row
  <2>2. all = [r \in DOMAIN all |-> all[r]]
    BY <1>12
  <2>3. all = [r \in DOMAIN all |-> [parent |-> all[r].parent, name |-> all[r].name]]
    BY <2>1, <2>2
  <2>. QED
    BY <1>8, <1>9, <2>3 DEF DraftShape
<1>17. AddedFits(e)
  <2>1. DOMAIN all \subseteq Kinds \X {-k : k \in 1 .. n}
    <3>1. ASSUME NEW r \in DOMAIN d.added PROVE r \in Kinds \X {-k : k \in 1 .. n}
      <4>1. PICK m \in Nat : DOMAIN d.added \subseteq Kinds \X {-k : k \in 1 .. m}
        BY DEF DraftFits, AddedFits
      <4>2. r \in Kinds \X {-k : k \in 1 .. m}
        BY <3>1, <4>1
      <4>3. PICK k \in 1 .. m : r[2] = -k
        BY <4>2
      <4>4. k \in 1 .. n
        BY <1>2, <3>1, <4>3
      <4>5. r[2] \in {-i : i \in 1 .. n}
        BY <4>3, <4>4
      <4>. QED
        BY <4>2, <4>5
    <3>2. new \in Kinds \X {-k : k \in 1 .. n}
      BY <1>2, <1>3
    <3>. QED
      BY <1>12, <3>1, <3>2
  <2>2. ASSUME NEW r \in DOMAIN all
        PROVE  /\ all[r].name # None /\ HangsFrom(r, all[r].parent)
               /\ all[r].parent = Division \/ Alive(e, all[r].parent)
    <3>1. CASE r = new
      <4>1. all[r].name = name /\ all[r].parent = parent
        BY <1>12, <3>1 DEF Row
      <4>2. HangsFrom(new, parent)
        BY <1>10 DEF HangsFrom, Kind
      <4>. QED
        BY <1>13, <3>1, <4>1, <4>2
    <3>2. CASE r # new
      BY <1>12, <1>13, <2>2, <3>2 DEF DraftFits, AddedFits
    <3>. QED
      BY <3>1, <3>2
  <2>. QED
    BY <1>2, <1>9, <2>1, <2>2 DEF AddedFits
<1>18. RoutesFit(e)
  BY <1>9, <1>13 DEF DraftFits, RoutesFit, RouteFits
<1>19. DraftFits(e)
  BY <1>9, <1>13, <1>14, <1>16, <1>17, <1>18 DEF DraftFits
<1>20. NextId(e) = n + 1
  <2>1. PICK m : m = NextId(e)
    OBVIOUS
  <2>2. m \in Nat \ {0} /\ \A r \in DOMAIN e.added : -r[2] \in Nat /\ -r[2] < m
    BY <1>17, <2>1, NextIsNew
  <2>3. n < m
    BY <1>2, <1>9, <1>10, <1>12, <2>2
  <2>4. PICK numbers : numbers = Drafted(DOMAIN e.added)
    OBVIOUS
  <2>5. numbers \in SUBSET (0 .. n)
    BY <1>2, <1>9, <1>10, <1>12, <2>4 DEF Drafted
  <2>6. PICK most : most = Most(numbers)
    OBVIOUS
  <2>7. most \in numbers \cup {0}
    <3>1. Most(numbers) \in numbers \cup {0}
      BY <1>2, <2>5, MostOf
    <3>. QED
      BY <2>6, <3>1
  <2>8. m = most + 1
    BY <2>1, <2>4, <2>6 DEF NextId
  <2>9. most \in 0 .. n
    BY <1>2, <2>5, <2>7
  <2>10. m = n + 1
    BY <1>2, <2>2, <2>3, <2>8, <2>9
  <2>. QED
    BY <2>1, <2>10
<1>. QED
  BY <1>1, <1>3, <1>9, <1>13, <1>15, <1>19, <1>20

\* A phase with its pool is added, or a bracket with its pool, matches and route.
LEMMA AddingPhaseFits ==
  ASSUME NEW d, DraftFits(d), NEW name, name # None
  PROVE  DraftFits(PhaseAdded(d, name))
<1>1. PICK n : n = NextId(d)
  OBVIOUS
<1>2. PICK e : e = Added(d, "phase", Division, name)
  OBVIOUS
<1>3. "phase" \in Kinds /\ HangsFrom(<<"phase", -1>>, Division)
  BY DEF Kinds, HangsFrom, Kind
<1>4. DraftFits(e) /\ Alive(e, <<"phase", -n>>)
  <2>1. DraftFits(e) /\ Alive(e, <<"phase", -NextId(d)>>)
    BY <1>2, <1>3, AddingFits
  <2>. QED
    BY <1>1, <2>1
<1>5. PICK first : first = <<"phase", -n>>
  OBVIOUS
<1>6. PICK both : both = Added(e, "pool", first, NewName)
  OBVIOUS
<1>7. "pool" \in Kinds /\ HangsFrom(<<"pool", -1>>, first) /\ NewName # None
  <2>1. first \in NodeRef
    BY <1>4, <1>5 DEF Alive
  <2>. QED
    BY <1>5, <2>1, NamesAssumption DEF Kinds, HangsFrom, Kind, ParentKind
<1>8. DraftFits(both)
  BY <1>4, <1>5, <1>6, <1>7, AddingFits
<1>. QED
  BY <1>1, <1>2, <1>5, <1>6, <1>8 DEF PhaseAdded

LEMMA AddingBracketFits ==
  ASSUME NEW d, DraftFits(d), NEW phase, Alive(d, phase), Kind(phase) = "phase"
  PROVE  DraftFits(BracketAdded(d, phase))
<1>1. PICK n : n = NextId(d)
  OBVIOUS
<1>2. n \in Nat \ {0} /\ \A r \in DOMAIN d.added : -r[2] \in Nat /\ -r[2] < n
  <2>1. AddedFits(d)
    BY DEF DraftFits
  <2>. QED
    BY <1>1, <2>1, NextIsNew
<1>3. PICK pooled : pooled = Added(d, "pool", phase, NewName)
  OBVIOUS
<1>4. PICK pool : pool = <<"pool", -n>>
  OBVIOUS
<1>5. /\ DraftFits(pooled) /\ Alive(pooled, pool) /\ NextId(pooled) = n + 1
      /\ pooled.routes = d.routes /\ pooled.cleared = d.cleared
      /\ \A r : Alive(d, r) => Alive(pooled, r)
  <2>1. "pool" \in Kinds /\ HangsFrom(<<"pool", -1>>, phase) /\ NewName # None
    BY NamesAssumption DEF Kinds, HangsFrom, Kind, ParentKind, Alive
  <2>2. /\ DraftFits(pooled) /\ Alive(pooled, <<"pool", -NextId(d)>>)
        /\ \A r : Alive(d, r) => Alive(pooled, r)
        /\ pooled.routes = d.routes /\ pooled.cleared = d.cleared
        /\ NextId(pooled) = NextId(d) + 1
    BY <1>3, <2>1, AddingFits
  <2>. QED
    BY <1>1, <1>4, <2>2
<1>6. "match" \in Kinds /\ HangsFrom(<<"match", -1>>, pool) /\ NewName # None
  <2>1. pool \in NodeRef
    BY <1>5 DEF Alive
  <2>. QED
    BY <1>4, <2>1, NamesAssumption DEF Kinds, HangsFrom, Kind, ParentKind
<1>7. PICK first : first = Added(pooled, "match", pool, NewName)
  OBVIOUS
<1>8. PICK m1 : m1 = <<"match", -(n + 1)>>
  OBVIOUS
<1>9. /\ DraftFits(first) /\ Alive(first, m1) /\ NextId(first) = n + 2
      /\ first.routes = d.routes /\ first.cleared = d.cleared
      /\ \A r : Alive(pooled, r) => Alive(first, r)
  <2>1. /\ DraftFits(first) /\ Alive(first, <<"match", -NextId(pooled)>>)
        /\ \A r : Alive(pooled, r) => Alive(first, r)
        /\ first.routes = pooled.routes /\ first.cleared = pooled.cleared
        /\ NextId(first) = NextId(pooled) + 1
    BY <1>5, <1>6, <1>7, AddingFits
  <2>. QED
    BY <1>2, <1>5, <1>8, <2>1
<1>10. PICK both : both = Added(first, "match", pool, NewName)
  OBVIOUS
<1>11. PICK m2 : m2 = <<"match", -(n + 2)>>
  OBVIOUS
<1>12. /\ DraftFits(both) /\ Alive(both, m2)
       /\ both.routes = d.routes /\ both.cleared = d.cleared
       /\ \A r : Alive(first, r) => Alive(both, r)
  <2>1. Alive(first, pool)
    BY <1>5, <1>9
  <2>2. /\ DraftFits(both) /\ Alive(both, <<"match", -NextId(first)>>)
        /\ \A r : Alive(first, r) => Alive(both, r)
        /\ both.routes = first.routes /\ both.cleared = first.cleared
        /\ NextId(both) = NextId(first) + 1
    BY <1>6, <1>9, <1>10, <2>1, AddingFits
  <2>. QED
    BY <1>9, <1>11, <2>2
<1>13. PICK route : route = [from |-> m1, place |-> 1, to |-> m2, slot |-> 1]
  OBVIOUS
<1>14. PICK routes : routes = d.routes \cup {route}
  OBVIOUS
<1>15. PICK e : e = [both EXCEPT !.routes = routes]
  OBVIOUS
<1>16. BracketAdded(d, phase) = e
  <2>1. BracketAdded(d, phase) = [both EXCEPT !.routes = @ \cup {route}]
    BY <1>1, <1>3, <1>4, <1>7, <1>8, <1>10, <1>11, <1>13 DEF BracketAdded
  <2>. QED
    BY <1>12, <1>14, <1>15, <2>1
<1>17. DraftShape(both)
  BY <1>12 DEF DraftFits
<1>18. e = [added |-> both.added, renamed |-> both.renamed, removed |-> both.removed,
            routes |-> routes, cleared |-> both.cleared, seated |-> both.seated]
  BY <1>15, <1>17 DEF DraftShape
<1>19. /\ e.added = both.added /\ e.renamed = both.renamed /\ e.removed = both.removed
       /\ e.routes = routes /\ e.cleared = d.cleared /\ e.seated = both.seated
  BY <1>12, <1>18
<1>20. \A r : Alive(both, r) <=> Alive(e, r)
  BY <1>19 DEF Alive
<1>21. Slot(route) = <<m2, 1>> /\ Kind(m1) = "match" /\ Kind(m2) = "match"
  BY <1>8, <1>11, <1>13 DEF Slot, Kind
<1>22. \A r : Alive(d, r) => r # m2
  <2>1. m2 \notin DOMAIN d.added
    <3>1. -m2[2] = n + 2
      BY <1>2, <1>11
    <3>. QED
      BY <1>2, <3>1
  <2>2. m2 \notin Stored
    BY <1>2, <1>11 DEF Stored
  <2>. QED
    BY <2>1, <2>2 DEF Alive
<1>23. \A r \in d.routes : Slot(r) # Slot(route)
  <2>1. ASSUME NEW r \in d.routes PROVE Slot(r) # Slot(route)
    <3>1. Alive(d, r.to)
      BY <2>1 DEF DraftFits, RoutesFit, RouteFits
    <3>2. r.to # m2 /\ Slot(r) = <<r.to, r.slot>>
      BY <1>22, <3>1 DEF Slot
    <3>. QED
      BY <1>21, <3>2
  <2>. QED
    BY <2>1
<1>24. \A s \in d.cleared : Slot(route) # s
  <2>1. ASSUME NEW s \in d.cleared PROVE Slot(route) # s
    <3>1. Alive(d, s[1])
      BY <2>1 DEF DraftFits
    <3>2. s[1] # m2
      BY <1>22, <3>1
    <3>. QED
      BY <1>21, <3>2
  <2>. QED
    BY <2>1
<1>25. RoutesFit(e)
  <2>1. RoutesFit(both) /\ both.routes = d.routes
    BY <1>12 DEF DraftFits
  <2>2. Alive(e, m1) /\ Alive(e, m2)
    BY <1>9, <1>12, <1>20
  <2>3. ASSUME NEW r \in routes
        PROVE  RouteFits(e, r)
    <3>1. CASE r = route
      BY <1>13, <1>21, <2>2, <3>1 DEF Routable, RouteFits, RouteShape
    <3>2. CASE r \in d.routes
      BY <1>20, <2>1, <3>2 DEF RoutesFit, RouteFits
    <3>. QED
      BY <1>14, <3>1, <3>2
  <2>4. \A r, other \in routes : Slot(r) = Slot(other) => r = other
    BY <1>14, <1>23, <2>1 DEF RoutesFit, RouteFits
  <2>. QED
    BY <1>19, <2>3, <2>4 DEF RoutesFit, RouteFits
<1>26. AddedFits(e)
  BY <1>12, <1>19, <1>20 DEF DraftFits, AddedFits
<1>27. DraftShape(e)
  BY <1>17, <1>18, <1>19 DEF DraftShape
<1>28. DraftFits(e)
  <2>1. \A s \in e.cleared : \A r \in e.routes : Slot(r) # s
    <3>1. \A s \in d.cleared : \A r \in d.routes : Slot(r) # s
      BY DEF DraftFits
    <3>. QED
      BY <1>14, <1>19, <1>24, <3>1
  <2>2. /\ e.removed \subseteq Stored
        /\ \A r \in DOMAIN e.renamed : r \in Stored \ e.removed /\ e.renamed[r] # None
        /\ \A m \in DOMAIN e.seated : Alive(e, m)
        /\ \A s \in e.cleared : s = <<s[1], s[2]>> /\ Kind(s[1]) \in Routable /\ Alive(e, s[1])
    BY <1>12, <1>19, <1>20 DEF DraftFits
  <2>. QED
    BY <1>25, <1>26, <1>27, <2>1, <2>2 DEF DraftFits
<1>. QED
  BY <1>16, <1>28

\* The edits that touch neither rows nor routes.
LEMMA RenamingFits ==
  ASSUME NEW d, DraftFits(d), NEW ref, Alive(d, ref), NEW name, name # None
  PROVE  DraftFits(Renamed(d, ref, name))
<1>1. DraftShape(d)
  BY DEF DraftFits
<1>2. CASE Pending(ref)
  <2>1. ref \in DOMAIN d.added
    BY <1>2 DEF Alive, Stored, Pending
  <2>2. PICK all : all = [d.added EXCEPT ![ref].name = name]
    OBVIOUS
  <2>3. PICK e : e = [d EXCEPT !.added = all]
    OBVIOUS
  <2>4. Renamed(d, ref, name) = e
    <3>1. Renamed(d, ref, name) = [d EXCEPT !.added[ref].name = name]
      BY <1>2 DEF Renamed
    <3>. QED
      BY <1>1, <2>2, <2>3, <3>1 DEF DraftShape
  <2>5. e = [added |-> all, renamed |-> d.renamed, removed |-> d.removed, routes |-> d.routes,
             cleared |-> d.cleared, seated |-> d.seated]
    BY <1>1, <2>3 DEF DraftShape
  <2>6. /\ e.added = all /\ e.renamed = d.renamed /\ e.removed = d.removed
        /\ e.routes = d.routes /\ e.cleared = d.cleared /\ e.seated = d.seated
    BY <2>5
  <2>7. /\ DOMAIN all = DOMAIN d.added
        /\ \A r \in DOMAIN all : all[r] = [parent |-> d.added[r].parent,
                                           name |-> IF r = ref THEN name ELSE d.added[r].name]
        /\ all = [r \in DOMAIN all |-> [parent |-> d.added[r].parent,
                                        name |-> IF r = ref THEN name ELSE d.added[r].name]]
    <3>1. \A r \in DOMAIN d.added :
             d.added[r] = [parent |-> d.added[r].parent, name |-> d.added[r].name]
      BY <1>1 DEF DraftShape
    <3>2. PICK old : old = d.added
      OBVIOUS
    <3>3. all = [r \in DOMAIN old |-> IF r = ref THEN [old[r] EXCEPT !.name = name] ELSE old[r]]
      BY <1>1, <2>1, <2>2, <3>2 DEF DraftShape
    <3>4. \A r \in DOMAIN old : [old[r] EXCEPT !.name = name]
                                   = [parent |-> old[r].parent, name |-> name]
      <4>1. ASSUME NEW row, row = [parent |-> row.parent, name |-> row.name]
            PROVE  [row EXCEPT !.name = name] = [parent |-> row.parent, name |-> name]
        BY <4>1
      <4>. QED
        BY <3>1, <3>2, <4>1
    <3>. QED
      BY <3>1, <3>2, <3>3, <3>4
  <2>8. \A r : Alive(d, r) <=> Alive(e, r)
    BY <2>6, <2>7 DEF Alive
  <2>9. DraftShape(e)
    <3>1. all = [r \in DOMAIN all |-> [parent |-> all[r].parent, name |-> all[r].name]]
      BY <2>7
    <3>. QED
      BY <2>5, <2>6, <3>1 DEF DraftShape
  <2>10. AddedFits(e)
    BY <2>6, <2>7, <2>8 DEF AddedFits, DraftFits
  <2>11. RoutesFit(e)
    BY <2>6, <2>8 DEF RoutesFit, RouteFits, DraftFits
  <2>12. DraftFits(e)
    BY <2>6, <2>8, <2>9, <2>10, <2>11 DEF DraftFits
  <2>. QED
    BY <2>4, <2>12
<1>3. CASE ~Pending(ref)
  <2>1. PICK one : one = (ref :> name)
    OBVIOUS
  <2>2. PICK names : names = one @@ d.renamed
    OBVIOUS
  <2>3. PICK e : e = [d EXCEPT !.renamed = names]
    OBVIOUS
  <2>4. Renamed(d, ref, name) = e
    BY <1>3, <2>1, <2>2, <2>3 DEF Renamed
  <2>5. e = [added |-> d.added, renamed |-> names, removed |-> d.removed, routes |-> d.routes,
             cleared |-> d.cleared, seated |-> d.seated]
    BY <1>1, <2>3 DEF DraftShape
  <2>6. /\ e.added = d.added /\ e.renamed = names /\ e.removed = d.removed
        /\ e.routes = d.routes /\ e.cleared = d.cleared /\ e.seated = d.seated
    BY <2>5
  <2>7. \A r : Alive(d, r) <=> Alive(e, r)
    BY <2>6 DEF Alive
  <2>8. DraftShape(e) /\ AddedFits(e) /\ RoutesFit(e)
    <3>1. DraftShape(e)
      BY <1>1, <2>5, <2>6 DEF DraftShape
    <3>2. AddedFits(e)
      BY <2>6, <2>7 DEF AddedFits, DraftFits
    <3>3. RoutesFit(e)
      BY <2>6, <2>7 DEF RoutesFit, RouteFits, DraftFits
    <3>. QED
      BY <3>1, <3>2, <3>3
  <2>9. ref \in Stored \ d.removed
    <3>1. AddedFits(d) /\ ref \in NodeRef \ d.removed /\ (ref \in Stored \/ ref \in DOMAIN d.added)
      BY DEF DraftFits, Alive
    <3>2. \A r \in DOMAIN d.added : Pending(r)
      BY <3>1 DEF AddedFits, Pending
    <3>. QED
      BY <1>3, <3>1, <3>2
  <2>10. \A r \in DOMAIN names : r \in Stored \ d.removed /\ names[r] # None
    <3>1. DOMAIN names = {ref} \cup DOMAIN d.renamed
      BY <2>1, <2>2 DEF @@, :>
    <3>2. names[ref] = name /\ \A r \in DOMAIN d.renamed \ {ref} : names[r] = d.renamed[r]
      BY <2>1, <2>2 DEF @@, :>
    <3>. QED
      BY <2>9, <3>1, <3>2 DEF DraftFits
  <2>11. DraftFits(e)
    BY <2>6, <2>7, <2>8, <2>10 DEF DraftFits
  <2>. QED
    BY <2>4, <2>11
<1>. QED
  BY <1>2, <1>3

\* Entrants are seated in a match.
LEMMA SeatingFits ==
  ASSUME NEW d, DraftFits(d), NEW match, Alive(d, match), NEW who
  PROVE  DraftFits(SeatedIn(d, match, who))
<1>1. PICK one : one = (match :> who)
  OBVIOUS
<1>2. PICK seats : seats = one @@ d.seated
  OBVIOUS
<1>3. PICK e : e = [d EXCEPT !.seated = seats]
  OBVIOUS
<1>4. SeatedIn(d, match, who) = e
  BY <1>1, <1>2, <1>3 DEF SeatedIn
<1>5. DraftShape(d)
  BY DEF DraftFits
<1>6. e = [added |-> d.added, renamed |-> d.renamed, removed |-> d.removed, routes |-> d.routes,
           cleared |-> d.cleared, seated |-> seats]
  BY <1>3, <1>5 DEF DraftShape
<1>7. /\ e.added = d.added /\ e.renamed = d.renamed /\ e.removed = d.removed
      /\ e.routes = d.routes /\ e.cleared = d.cleared /\ e.seated = seats
  BY <1>6
<1>8. \A r : Alive(d, r) <=> Alive(e, r)
  BY <1>7 DEF Alive
<1>9. DraftShape(e) /\ AddedFits(e) /\ RoutesFit(e)
  <2>1. DraftShape(e)
    BY <1>5, <1>6, <1>7 DEF DraftShape
  <2>2. AddedFits(e)
    BY <1>7, <1>8 DEF AddedFits, DraftFits
  <2>3. RoutesFit(e)
    BY <1>7, <1>8 DEF RoutesFit, RouteFits, DraftFits
  <2>. QED
    BY <2>1, <2>2, <2>3
<1>10. \A m \in DOMAIN seats : Alive(e, m)
  <2>1. DOMAIN seats = {match} \cup DOMAIN d.seated
    BY <1>1, <1>2 DEF @@, :>
  <2>. QED
    BY <1>8, <2>1 DEF DraftFits
<1>11. DraftFits(e)
  BY <1>7, <1>8, <1>9, <1>10 DEF DraftFits
<1>. QED
  BY <1>4, <1>11

\* A draft whose routes and cleared slots are other ones.
LEMMA ReroutedFits ==
  ASSUME NEW d, DraftFits(d), NEW routes, NEW cleared, NEW e,
         e = [added |-> d.added, renamed |-> d.renamed, removed |-> d.removed, routes |-> routes,
              cleared |-> cleared, seated |-> d.seated],
         \A r \in routes : RouteFits(d, r),
         \A r, other \in routes : Slot(r) = Slot(other) => r = other,
         \A s \in cleared : /\ s = <<s[1], s[2]>> /\ Kind(s[1]) \in Routable /\ Alive(d, s[1])
                            /\ \A r \in routes : Slot(r) # s
  PROVE  DraftFits(e)
<1>1. /\ e.added = d.added /\ e.renamed = d.renamed /\ e.removed = d.removed
      /\ e.routes = routes /\ e.cleared = cleared /\ e.seated = d.seated
  OBVIOUS
<1>2. \A r : Alive(d, r) <=> Alive(e, r)
  BY <1>1 DEF Alive
<1>3. DraftShape(e)
  <2>1. DraftShape(d)
    BY DEF DraftFits
  <2>. QED
    BY <1>1, <2>1 DEF DraftShape
<1>4. AddedFits(e)
  BY <1>1, <1>2 DEF AddedFits, DraftFits
<1>5. RoutesFit(e)
  BY <1>1, <1>2 DEF RoutesFit, RouteFits
<1>. QED
  BY <1>1, <1>2, <1>3, <1>4, <1>5 DEF DraftFits

\* A route takes the slot of whatever was drawn or cleared there.
LEMMA DrawingFits ==
  ASSUME NEW d, DraftFits(d), NEW route, RouteFits(d, route)
  PROVE  DraftFits(Drawn(d, route))
<1>1. PICK routes : routes = {r \in d.routes : Slot(r) # Slot(route)} \cup {route}
  OBVIOUS
<1>2. PICK cleared : cleared = d.cleared \ {Slot(route)}
  OBVIOUS
<1>3. PICK e : e = [added |-> d.added, renamed |-> d.renamed, removed |-> d.removed,
                    routes |-> routes, cleared |-> cleared, seated |-> d.seated]
  OBVIOUS
<1>4. Drawn(d, route) = e
  <2>1. DraftShape(d)
    BY DEF DraftFits
  <2>2. Drawn(d, route) = [d EXCEPT !.routes = routes, !.cleared = cleared]
    <3>1. Drawn(d, route) = [d EXCEPT !.routes = {r \in @ : Slot(r) # Slot(route)} \cup {route},
                                      !.cleared = @ \ {Slot(route)}]
      BY DEF Drawn
    <3>. QED
      BY <1>1, <1>2, <2>1, <3>1 DEF DraftShape
  <2>. QED
    BY <1>3, <2>1, <2>2 DEF DraftShape
<1>5. \A r \in routes : RouteFits(d, r)
  BY <1>1 DEF DraftFits, RoutesFit, RouteFits
<1>6. \A r, other \in routes : Slot(r) = Slot(other) => r = other
  BY <1>1 DEF DraftFits, RoutesFit, RouteFits
<1>7. \A s \in cleared : /\ s = <<s[1], s[2]>> /\ Kind(s[1]) \in Routable /\ Alive(d, s[1])
                         /\ \A r \in routes : Slot(r) # s
  BY <1>1, <1>2 DEF DraftFits
<1>8. DraftFits(e)
  BY <1>3, <1>5, <1>6, <1>7, ReroutedFits
<1>. QED
  BY <1>4, <1>8

\* A slot is cleared that nothing drawn claims, or whose row is there.
LEMMA ClearingFits ==
  ASSUME NEW d, DraftFits(d), NEW to, NEW number, Kind(to) \in Routable,
         Alive(d, to) \/ \E r \in d.routes : Slot(r) = <<to, number>>
  PROVE  DraftFits(ClearedSlot(d, <<to, number>>))
<1>1. PICK slot : slot = <<to, number>>
  OBVIOUS
<1>2. PICK here : here = {r \in d.routes : Slot(r) = slot}
  OBVIOUS
<1>3. PICK routes, cleared : /\ routes = d.routes \ here
                             /\ cleared = IF here = {} THEN d.cleared \cup {slot} ELSE d.cleared
  OBVIOUS
<1>4. PICK e : e = [added |-> d.added, renamed |-> d.renamed, removed |-> d.removed,
                    routes |-> routes, cleared |-> cleared, seated |-> d.seated]
  OBVIOUS
<1>5. ClearedSlot(d, slot) = e
  <2>1. DraftShape(d)
    BY DEF DraftFits
  <2>2. ClearedSlot(d, slot) = [d EXCEPT !.routes = @ \ here,
                                         !.cleared = IF here = {} THEN @ \cup {slot} ELSE @]
    BY <1>2 DEF ClearedSlot
  <2>3. ClearedSlot(d, slot) = [d EXCEPT !.routes = routes, !.cleared = cleared]
    BY <1>3, <2>1, <2>2 DEF DraftShape
  <2>. QED
    BY <1>4, <2>1, <2>3 DEF DraftShape
<1>6. \A r \in routes : RouteFits(d, r)
  BY <1>3 DEF DraftFits, RoutesFit, RouteFits
<1>7. \A r, other \in routes : Slot(r) = Slot(other) => r = other
  BY <1>3 DEF DraftFits, RoutesFit, RouteFits
<1>8. \A s \in cleared : /\ s = <<s[1], s[2]>> /\ Kind(s[1]) \in Routable /\ Alive(d, s[1])
                         /\ \A r \in routes : Slot(r) # s
  <2>1. ASSUME NEW s \in d.cleared
        PROVE  /\ s = <<s[1], s[2]>> /\ Kind(s[1]) \in Routable /\ Alive(d, s[1])
               /\ \A r \in routes : Slot(r) # s
    BY <1>3, <2>1 DEF DraftFits
  <2>2. ASSUME here = {}
        PROVE  /\ slot = <<slot[1], slot[2]>> /\ Kind(slot[1]) \in Routable /\ Alive(d, slot[1])
               /\ \A r \in routes : Slot(r) # slot
    BY <1>1, <1>2, <1>3, <2>2
  <2>. QED
    BY <1>3, <2>1, <2>2
<1>9. DraftFits(e)
  BY <1>4, <1>6, <1>7, <1>8, ReroutedFits
<1>. QED
  BY <1>1, <1>5, <1>9

-----------------------------------------------------------------------------
(* The page, under a fit draft, over what fits.                            *)

PageFits == DraftFits(draft) /\ ReadFits(overview) /\ ReadFits(list)

Known == DOMAIN draft.added \cup DOMAIN overview.rows \cup DOMAIN list.rows

\* What the page knows hangs from one of the kind above, by a name.
LEMMA KnownHang ==
  ASSUME PageFits
  PROVE  /\ Known \subseteq NodeRef
         /\ \A r \in Known : HangsFrom(r, ParentOf(r)) /\ NameOf(r) # None
         /\ \A r \in DOMAIN draft.added : Pending(r) /\ ParentOf(r) = draft.added[r].parent
         /\ \A r \in Known \ DOMAIN draft.added : r \in Stored /\ ~Pending(ParentOf(r))
<1>1. \A r \in DOMAIN draft.added : r \in NodeRef /\ Pending(r)
  BY DEF PageFits, DraftFits, AddedFits, NodeRef, Pending
<1>2. Stored \subseteq NodeRef /\ \A r \in Stored : ~Pending(r)
  BY DEF Stored, NodeRef, Pending
<1>3. \A r \in DOMAIN overview.rows \cup DOMAIN list.rows : r \in Stored
  BY DEF PageFits, ReadFits, RowsFit, RowFits
<1>4. \A r \in DOMAIN draft.added :
         Indexed(r) = draft.added[r] /\ ParentOf(r) = draft.added[r].parent
  BY DEF Indexed, ParentOf
<1>5. \A r \in Known \ DOMAIN draft.added :
         /\ HangsFrom(r, ParentOf(r)) /\ ~Pending(ParentOf(r)) /\ Indexed(r).name # None
  <2>1. ASSUME NEW r \in DOMAIN overview.rows, r \notin DOMAIN draft.added
        PROVE  HangsFrom(r, ParentOf(r)) /\ ~Pending(ParentOf(r)) /\ Indexed(r).name # None
    <3>1. Indexed(r) = overview.rows[r]
      BY <2>1 DEF Indexed
    <3>2. RowFits(r, overview.rows[r]) /\ overview.rows[r].parent # None
      BY <2>1 DEF PageFits, ReadFits, RowsFit
    <3>. QED
      BY <3>1, <3>2 DEF RowFits, ParentOf
  <2>2. ASSUME NEW r \in DOMAIN list.rows, r \notin DOMAIN draft.added,
               r \notin DOMAIN overview.rows
        PROVE  HangsFrom(r, ParentOf(r)) /\ ~Pending(ParentOf(r)) /\ Indexed(r).name # None
    <3>1. Indexed(r) = list.rows[r]
      BY <2>2 DEF Indexed
    <3>2. RowFits(r, list.rows[r]) /\ list.rows[r].parent # None
      BY <2>2 DEF PageFits, ReadFits, RowsFit
    <3>. QED
      BY <3>1, <3>2 DEF RowFits, ParentOf
  <2>. QED
    BY <2>1, <2>2 DEF Known
<1>6. \A r \in DOMAIN draft.added : HangsFrom(r, ParentOf(r)) /\ Indexed(r).name # None
  BY <1>4 DEF PageFits, DraftFits, AddedFits
<1>7. \A r \in Known : NameOf(r) # None
  BY <1>5, <1>6 DEF NameOf, PageFits, DraftFits
<1>. QED
  BY <1>1, <1>2, <1>3, <1>4, <1>5, <1>6, <1>7 DEF Known

\* What is shown is known and not removed, and what is added below something
\* shown is shown.
LEMMA ShownFits ==
  ASSUME PageFits
  PROVE  /\ \A r \in DOMAIN Shown.rows :
               /\ Alive(draft, r) /\ r \in Known /\ Shown.rows[r].parent = ParentOf(r)
         /\ \A r \in DOMAIN draft.added :
               Kind(r) = "pool" => (ParentOf(r) \in DOMAIN Shown.rows => r \in DOMAIN Shown.rows)
         /\ \A r \in DOMAIN draft.added : Kind(r) # "pool" => r \in DOMAIN Shown.rows
<1> DEFINE Kept(rows, kind) == OfKind(rows, kind) \ draft.removed
           phases == Kept(overview.rows, "phase") \cup OfKind(draft.added, "phase")
           pools == {p \in Kept(overview.rows, "pool") \cup OfKind(draft.added, "pool") :
                       ParentOf(p) \in phases}
           matches == {m \in Kept(list.rows, "match") : ParentOf(m) \notin draft.removed}
                        \cup OfKind(draft.added, "match")
<1>1. Shown.rows = [r \in phases \cup pools \cup matches |-> Row(ParentOf(r), NameOf(r))]
  BY DEF Shown
<1>2. DOMAIN Shown.rows = phases \cup pools \cup matches
  BY <1>1
<1>3. \A r \in DOMAIN Shown.rows : Shown.rows[r].parent = ParentOf(r)
  BY <1>1, <1>2 DEF Row
<1>4. \A r \in DOMAIN Shown.rows :
         \/ r \in DOMAIN draft.added
         \/ r \in (DOMAIN overview.rows \cup DOMAIN list.rows) \ draft.removed
  BY <1>2 DEF OfKind
<1>5. \A r \in DOMAIN draft.added : r \notin draft.removed /\ r \in NodeRef
  <2>1. \A r \in DOMAIN draft.added : r \in NodeRef /\ r \notin Stored
    <3>1. \A r \in DOMAIN draft.added : Pending(r) /\ r \in NodeRef
      BY KnownHang DEF Known
    <3>. QED
      BY <3>1 DEF Pending, Stored
  <2>. QED
    BY <2>1 DEF PageFits, DraftFits
<1>6. \A r \in DOMAIN overview.rows \cup DOMAIN list.rows : r \in Stored /\ r \in NodeRef
  <2>1. ASSUME NEW rows, RowsFit(rows) PROVE \A r \in DOMAIN rows : r \in Stored
    BY <2>1 DEF RowsFit, RowFits
  <2>2. RowsFit(overview.rows) /\ RowsFit(list.rows)
    BY DEF PageFits, ReadFits
  <2>3. Stored \subseteq NodeRef
    BY DEF Stored, NodeRef
  <2>. QED
    BY <2>1, <2>2, <2>3
<1>7. \A r \in DOMAIN Shown.rows : Alive(draft, r) /\ r \in Known
  BY <1>4, <1>5, <1>6 DEF Alive, Known
<1>8. \A r \in DOMAIN draft.added :
         Kind(r) = "pool" => (ParentOf(r) \in phases => r \in DOMAIN Shown.rows)
  BY <1>2 DEF OfKind
<1>9. \A r \in DOMAIN draft.added : Kind(r) # "pool" => r \in DOMAIN Shown.rows
  <2>1. \A r \in DOMAIN draft.added : Kind(r) \in Kinds
    BY <1>5 DEF NodeRef, Kind
  <2>. QED
    BY <1>2, <2>1 DEF OfKind, Kinds
<1>10. ASSUME NEW r \in DOMAIN draft.added, Kind(r) = "pool", ParentOf(r) \in DOMAIN Shown.rows
       PROVE  ParentOf(r) \in phases
  <2>1. HangsFrom(r, ParentOf(r)) /\ r \in Known
    BY <1>10, KnownHang DEF Known
  <2>2. Kind(ParentOf(r)) = "phase"
    BY <1>10, <2>1 DEF HangsFrom, ParentKind
  <2>3. \A x \in pools \cup matches : Kind(x) # "phase"
    BY DEF OfKind
  <2>. QED
    BY <1>2, <1>10, <2>2, <2>3
<1>. QED
  BY <1>3, <1>7, <1>8, <1>9, <1>10

\* What is drawn on the canvas is shown, and so not removed.
LEMMA CanvasFits ==
  ASSUME PageFits
  PROVE  \A kinds : \A r \in Canvas(kinds) :
            r \in DOMAIN Shown.rows /\ Alive(draft, r) /\ Kind(r) \in kinds
<1>1. Attached(Shown.rows) \subseteq DOMAIN Shown.rows
  BY AttachedAreRows
<1>. QED
  BY <1>1, ShownFits DEF Canvas

\* What is removed takes with it whatever was added below it.
LEMMA RemovingFits ==
  ASSUME PageFits, NEW ref \in DOMAIN Shown.rows
  PROVE  DraftFits(Removed(draft, ref))
<1>1. PICK rows : rows = Shown.rows
  OBVIOUS
<1>2. PICK gone : gone = Below(rows, {ref})
  OBVIOUS
<1>3. PICK d : d = draft
  OBVIOUS
<1>4. /\ \A r \in DOMAIN rows : Alive(d, r) /\ r \in Known /\ rows[r].parent = ParentOf(r)
      /\ \A r \in DOMAIN d.added :
            Kind(r) = "pool" => (ParentOf(r) \in DOMAIN rows => r \in DOMAIN rows)
      /\ \A r \in DOMAIN d.added : Kind(r) # "pool" => r \in DOMAIN rows
  BY <1>1, <1>3, ShownFits
<1>5. /\ Known \subseteq NodeRef
      /\ \A r \in Known : HangsFrom(r, ParentOf(r))
      /\ \A r \in DOMAIN d.added : /\ Pending(r) /\ ParentOf(r) = d.added[r].parent
                                   /\ r \in Known
  BY <1>3, KnownHang DEF Known
<1>6. PICK children : children = ChildrenOf(rows, {ref})
  OBVIOUS
<1>7. gone = {ref} \cup children \cup ChildrenOf(rows, children)
  BY <1>2, <1>6 DEF Below
<1>8. gone \subseteq DOMAIN rows
  BY <1>1, <1>6, <1>7 DEF ChildrenOf
<1>9. DraftFits(d)
  BY <1>3 DEF PageFits
<1>10. PICK e :
        e = [added |-> Without(d.added, gone), renamed |-> Without(d.renamed, gone),
             removed |-> d.removed \cup {r \in gone : ~Pending(r)},
             routes |-> {r \in d.routes : ~Touches(r, gone)},
             cleared |-> {s \in d.cleared : s[1] \notin gone},
             seated |-> Without(d.seated, gone)]
  OBVIOUS
<1>11. Removed(draft, ref) = e
  BY <1>1, <1>2, <1>3, <1>10 DEF Removed
<1>12. /\ e.added = Without(d.added, gone) /\ e.renamed = Without(d.renamed, gone)
       /\ e.removed = d.removed \cup {r \in gone : ~Pending(r)}
       /\ e.routes = {r \in d.routes : ~Touches(r, gone)}
       /\ e.cleared = {s \in d.cleared : s[1] \notin gone}
       /\ e.seated = Without(d.seated, gone)
  BY <1>10
<1>13. /\ DOMAIN e.added = DOMAIN d.added \ gone
       /\ \A r \in DOMAIN e.added : e.added[r] = d.added[r]
       /\ e.added = [r \in DOMAIN d.added \ gone |-> d.added[r]]
  BY <1>12 DEF Without
<1>14. \A r : Alive(d, r) /\ r \notin gone => Alive(e, r)
  BY <1>12, <1>13 DEF Alive
<1>15. ASSUME NEW r \in DOMAIN d.added, r \notin gone
       PROVE  d.added[r].parent \notin gone
  <2>1. SUFFICES ASSUME d.added[r].parent \in gone PROVE FALSE
    OBVIOUS
  <2>2. PICK p : p = d.added[r].parent
    OBVIOUS
  <2>3. p = ParentOf(r) /\ p \in gone /\ p \in DOMAIN rows /\ HangsFrom(r, p)
    BY <1>5, <1>8, <1>15, <2>1, <2>2
  <2>4. r \in DOMAIN rows /\ rows[r].parent = p
    BY <1>4, <1>15, <2>3
  <2>5. CASE p \in {ref} \cup children
    <3>1. r \in gone
      BY <1>6, <1>7, <2>4, <2>5 DEF ChildrenOf
    <3>. QED
      BY <1>15, <3>1
  <2>6. CASE p \in ChildrenOf(rows, children)
    <3>1. PICK c : c = rows[p].parent
      OBVIOUS
    <3>2. c \in children /\ c \in DOMAIN rows /\ rows[c].parent = ref
      BY <1>6, <2>6, <3>1 DEF ChildrenOf
    <3>3. HangsFrom(p, c) /\ HangsFrom(c, ref)
      BY <1>4, <1>5, <2>3, <3>1, <3>2
    <3>4. ref \in NodeRef /\ c \in NodeRef /\ p \in NodeRef /\ r \in NodeRef
      BY <1>1, <1>4, <1>5, <1>15, <2>3, <3>2
    <3>5. Kind(r) \in Kinds /\ Kind(p) \in Kinds /\ Kind(c) \in Kinds /\ Kind(ref) \in Kinds
      BY <3>4 DEF NodeRef, Kind
    <3>6. /\ Kind(r) # "phase" /\ Kind(p) = ParentKind[Kind(r)]
          /\ Kind(p) # "phase" /\ Kind(c) = ParentKind[Kind(p)]
          /\ Kind(c) # "phase" /\ Kind(ref) = ParentKind[Kind(c)]
      <4>1. \A x \in NodeRef : x # Division
        BY DEF NodeRef, Division, Kinds
      <4>. QED
        BY <2>3, <3>3, <3>4, <4>1 DEF HangsFrom
    <3>. QED
      BY <3>5, <3>6 DEF Kinds, ParentKind
  <2>. QED
    BY <1>7, <2>3, <2>5, <2>6
<1>16. DraftShape(e)
  <2>1. e = [added |-> e.added, renamed |-> e.renamed, removed |-> e.removed,
             routes |-> e.routes, cleared |-> e.cleared, seated |-> e.seated]
    BY <1>10
  <2>2. \A r \in DOMAIN d.added : d.added[r] = [parent |-> d.added[r].parent, name |-> d.added[r].name]
    BY <1>9 DEF DraftFits, DraftShape
  <2>3. e.added = [r \in DOMAIN e.added |-> [parent |-> e.added[r].parent, name |-> e.added[r].name]]
    BY <1>13, <2>2
  <2>. QED
    BY <2>1, <2>3 DEF DraftShape
<1>17. AddedFits(e)
  <2>1. ASSUME NEW r \in DOMAIN e.added
        PROVE  /\ e.added[r].name # None /\ HangsFrom(r, e.added[r].parent)
               /\ e.added[r].parent = Division \/ Alive(e, e.added[r].parent)
    BY <1>9, <1>13, <1>14, <1>15, <2>1 DEF DraftFits, AddedFits
  <2>2. \E n \in Nat : DOMAIN e.added \subseteq Kinds \X {-k : k \in 1 .. n}
    BY <1>9, <1>13 DEF DraftFits, AddedFits
  <2>. QED
    BY <2>1, <2>2 DEF AddedFits
<1>18. RoutesFit(e)
  BY <1>9, <1>12, <1>14 DEF DraftFits, RoutesFit, RouteFits, Touches
<1>19. e.removed \subseteq Stored
  <2>1. \A r \in gone : ~Pending(r) => r \in Stored
    <3>1. \A r \in DOMAIN d.added : Pending(r)
      BY <1>5
    <3>2. \A r \in gone : Alive(d, r)
      BY <1>4, <1>8
    <3>. QED
      BY <3>1, <3>2 DEF Alive
  <2>. QED
    BY <1>9, <1>12, <2>1 DEF DraftFits
<1>20. \A r \in DOMAIN e.renamed : r \in Stored \ e.removed /\ e.renamed[r] # None
  BY <1>9, <1>12 DEF DraftFits, Without
<1>21. \A s \in e.cleared : /\ s = <<s[1], s[2]>> /\ Kind(s[1]) \in Routable /\ Alive(e, s[1])
                            /\ \A r \in e.routes : Slot(r) # s
  BY <1>9, <1>12, <1>14 DEF DraftFits
<1>22. \A m \in DOMAIN e.seated : Alive(e, m)
  BY <1>9, <1>12, <1>14 DEF DraftFits, Without
<1>23. DraftFits(e)
  BY <1>16, <1>17, <1>18, <1>19, <1>20, <1>21, <1>22 DEF DraftFits
<1>. QED
  BY <1>11, <1>23

\* A slot is cleared of a rule that is shown: it was drawn, or its row is there.
LEMMA ShownRulesFit ==
  ASSUME PageFits, NEW rule \in ShownRules
  PROVE  Kind(rule.to) \in Routable /\ (rule \in draft.routes \/ Alive(draft, rule.to))
<1>1. CASE rule \in draft.routes
  BY <1>1 DEF PageFits, DraftFits, RoutesFit, RouteFits
<1>2. CASE rule \notin draft.routes
  <2>1. rule \in SeenRules /\ ~Touches(rule, draft.removed)
    BY <1>2 DEF ShownRules
  <2>2. rule \in overview.rules \cup list.rules
    <3> DEFINE both == overview.rules \cup list.rules
               among(slot) == LET listed == {r \in list.rules : Slot(r) = slot}
                              IN IF listed # {} THEN listed ELSE both
    <3>1. PICK r \in both : rule = CHOOSE x \in among(Slot(r)) : Slot(x) = Slot(r)
      BY <2>1 DEF SeenRules
    <3>2. \E x \in among(Slot(r)) : Slot(x) = Slot(r)
      OBVIOUS
    <3>3. rule \in among(Slot(r))
      <4> HIDE DEF among, both
      <4>. QED
        BY <3>1, <3>2
    <3>. QED
      BY <3>3
  <2>3. rule.to \in Ends
    BY <2>2 DEF PageFits, ReadFits, RulesFit
  <2>4. rule.to \in Stored /\ rule.to \in NodeRef /\ Kind(rule.to) \in Routable
    BY <2>3 DEF Ends, Stored, NodeRef, Kinds, Routable, Kind
  <2>5. rule.to \notin draft.removed
    BY <2>1 DEF Touches
  <2>. QED
    BY <2>4, <2>5 DEF Alive
<1>. QED
  BY <1>1, <1>2

\* No edit of the page disturbs a draft that fits.
LEMMA EditsFit ==
  ASSUME PageFits, Edits
  PROVE  DraftFits(draft')
<1>1. PICK d : d = draft
  OBVIOUS
<1>2. DraftFits(d) /\ NewName # None /\ \A name \in Names : name # None
  BY <1>1, NamesAssumption DEF PageFits
<1>3. \A kinds : \A r \in Canvas(kinds) :
         r \in DOMAIN Shown.rows /\ Alive(d, r) /\ Kind(r) \in kinds
  BY <1>1, CanvasFits
<1>4. ASSUME AddNode PROVE DraftFits(draft')
  <2>1. ASSUME NEW phase \in Canvas({"phase"}), draft' = Added(d, "pool", phase, NewName)
        PROVE  DraftFits(draft')
    <3>1. Alive(d, phase) /\ Kind(phase) = "phase"
      BY <1>3, <2>1
    <3>2. "pool" \in Kinds /\ HangsFrom(<<"pool", -1>>, phase)
      BY <3>1 DEF Kinds, HangsFrom, Kind, ParentKind, Alive
    <3>3. PICK e : e = Added(d, "pool", phase, NewName)
      OBVIOUS
    <3>4. DraftFits(e)
      BY <1>2, <3>1, <3>2, <3>3, AddingFits
    <3>. QED
      BY <2>1, <3>3, <3>4
  <2>2. ASSUME NEW pool \in Canvas({"pool"}), draft' = Added(d, "match", pool, NewName)
        PROVE  DraftFits(draft')
    <3>1. Alive(d, pool) /\ Kind(pool) = "pool"
      BY <1>3, <2>2
    <3>2. "match" \in Kinds /\ HangsFrom(<<"match", -1>>, pool)
      BY <3>1 DEF Kinds, HangsFrom, Kind, ParentKind, Alive
    <3>3. PICK e : e = Added(d, "match", pool, NewName)
      OBVIOUS
    <3>4. DraftFits(e)
      BY <1>2, <3>1, <3>2, <3>3, AddingFits
    <3>. QED
      BY <2>2, <3>3, <3>4
  <2>3. ASSUME draft' = PhaseAdded(d, NewName) PROVE DraftFits(draft')
    BY <1>2, <2>3, AddingPhaseFits
  <2>. QED
    BY <1>1, <1>4, <2>1, <2>2, <2>3 DEF AddNode, Edit
<1>5. ASSUME AddBracket PROVE DraftFits(draft')
  <2>1. ASSUME NEW phase \in Canvas({"phase"}), draft' = BracketAdded(d, phase)
        PROVE  DraftFits(draft')
    <3>1. Alive(d, phase) /\ Kind(phase) = "phase"
      BY <1>3, <2>1
    <3>. QED
      BY <1>2, <2>1, <3>1, AddingBracketFits
  <2>2. ASSUME draft' = BracketAdded(Added(d, "phase", Division, NewName), <<"phase", -NextId(d)>>)
        PROVE  DraftFits(draft')
    <3>1. PICK e : e = Added(d, "phase", Division, NewName)
      OBVIOUS
    <3>2. PICK phase : phase = <<"phase", -NextId(d)>>
      OBVIOUS
    <3>3. "phase" \in Kinds /\ HangsFrom(<<"phase", -1>>, Division)
      BY DEF Kinds, HangsFrom, Kind
    <3>4. DraftFits(e) /\ Alive(e, phase)
      <4>1. DraftFits(e) /\ Alive(e, <<"phase", -NextId(d)>>)
        BY <1>2, <3>1, <3>3, AddingFits
      <4>. QED
        BY <3>2, <4>1
    <3>5. Kind(phase) = "phase"
      BY <3>2 DEF Kind
    <3>6. DraftFits(BracketAdded(e, phase))
      BY <3>4, <3>5, AddingBracketFits
    <3>. QED
      BY <2>2, <3>1, <3>2, <3>6
  <2>. QED
    BY <1>1, <1>5, <2>1, <2>2 DEF AddBracket, Edit
<1>6. ASSUME RenameNode PROVE DraftFits(draft')
  <2>1. PICK ref \in Selectable, name \in Names : draft' = Renamed(d, ref, name)
    BY <1>1, <1>6 DEF RenameNode, Edit
  <2>2. Alive(d, ref)
    BY <1>3, <2>1 DEF Selectable
  <2>3. DraftFits(Renamed(d, ref, name))
    BY <1>2, <2>2, RenamingFits
  <2>. QED
    BY <2>1, <2>3
<1>7. ASSUME RemoveNode PROVE DraftFits(draft')
  <2>1. PICK ref \in Selectable : draft' = Removed(draft, ref)
    BY <1>7 DEF RemoveNode, Edit
  <2>2. ref \in DOMAIN Shown.rows
    BY <1>3, <2>1 DEF Selectable
  <2>. QED
    BY <2>1, <2>2, RemovingFits
<1>8. ASSUME DropRoute PROVE DraftFits(draft')
  <2>0. PICK from \in Canvas(Routable), to \in Canvas(Routable) :
          \E place \in Placements(from) :
            draft' = Drawn(d, [from |-> from, place |-> place, to |-> to, slot |-> SlotFor(to, place)])
    BY <1>1, <1>8 DEF DropRoute, Edit
  <2>1. PICK place \in Placements(from) :
          draft' = Drawn(d, [from |-> from, place |-> place, to |-> to, slot |-> SlotFor(to, place)])
    BY <2>0
  <2>2. PICK route :
          route = [from |-> from, place |-> place, to |-> to, slot |-> SlotFor(to, place)]
    OBVIOUS
  <2>3. Alive(d, from) /\ Kind(from) \in Routable /\ Alive(d, to) /\ Kind(to) \in Routable
    BY <1>3, <2>1
  <2>4. RouteFits(d, route)
    BY <2>2, <2>3 DEF RouteFits, RouteShape
  <2>5. DraftFits(Drawn(d, route))
    BY <1>2, <2>4, DrawingFits
  <2>. QED
    BY <2>1, <2>2, <2>5
<1>9. ASSUME ClearSlot PROVE DraftFits(draft')
  <2>1. PICK rule \in ShownRules : draft' = ClearedSlot(d, Slot(rule))
    BY <1>1, <1>9 DEF ClearSlot, Edit
  <2>2. Kind(rule.to) \in Routable /\ (rule \in d.routes \/ Alive(d, rule.to))
    BY <1>1, <2>1, ShownRulesFit
  <2>3. PICK to, number : to = rule.to /\ number = rule.slot
    OBVIOUS
  <2>4. Slot(rule) = <<to, number>>
    BY <2>3 DEF Slot
  <2>5. Alive(d, to) \/ \E r \in d.routes : Slot(r) = <<to, number>>
    BY <2>2, <2>3, <2>4
  <2>6. DraftFits(ClearedSlot(d, <<to, number>>))
    BY <1>2, <2>2, <2>3, <2>5, ClearingFits
  <2>. QED
    BY <2>1, <2>4, <2>6
<1>10. ASSUME SeatEntrants PROVE DraftFits(draft')
  <2>1. PICK match \in Canvas({"match"}), who \in SUBSET Entrants :
          draft' = SeatedIn(d, match, who)
    BY <1>1, <1>10 DEF SeatEntrants, Edit
  <2>2. Alive(d, match)
    BY <1>3, <2>1
  <2>3. DraftFits(SeatedIn(d, match, who))
    BY <1>2, <2>2, SeatingFits
  <2>. QED
    BY <2>1, <2>3
<1>. QED
  BY <1>4, <1>5, <1>6, <1>7, <1>8, <1>9, <1>10 DEF Edits

\* The empty draft fits.
LEMMA EmptyFits == DraftFits(EmptyDraft)
<1>1. PICK d : d = EmptyDraft
  OBVIOUS
<1>2. d = [added |-> << >>, renamed |-> << >>, removed |-> {}, routes |-> {}, cleared |-> {},
           seated |-> << >>]
  BY <1>1 DEF EmptyDraft
<1>3. /\ DOMAIN d.added = {} /\ DOMAIN d.renamed = {} /\ DOMAIN d.seated = {}
      /\ d.removed = {} /\ d.routes = {} /\ d.cleared = {} /\ d.added = << >>
  BY <1>2
<1>4. DraftShape(d)
  <2>1. d.added = [r \in DOMAIN d.added |-> [parent |-> d.added[r].parent, name |-> d.added[r].name]]
    BY <1>3
  <2>. QED
    BY <1>2, <1>3, <2>1 DEF DraftShape
<1>5. AddedFits(d)
  <2>1. 0 \in Nat /\ DOMAIN d.added \subseteq Kinds \X {-k : k \in 1 .. 0}
    BY <1>3
  <2>. QED
    BY <1>3, <2>1 DEF AddedFits
<1>6. RoutesFit(d)
  BY <1>3 DEF RoutesFit
<1>7. DraftFits(d)
  BY <1>3, <1>4, <1>5, <1>6 DEF DraftFits
<1>. QED
  BY <1>1, <1>7

-----------------------------------------------------------------------------
(* The plan a fit draft becomes.                                           *)

\* Whatever the page sees, what hangs from nothing it knows hangs from the division.
LEMMA ParentsFit ==
  ASSUME PageFits, NEW r
  PROVE  /\ ParentOf(r) \in NodeRef \cup {Division}
         /\ Pending(ParentOf(r)) => ParentOf(r) \in DOMAIN draft.added
<1>1. CASE r \in Known
  <2>1. HangsFrom(r, ParentOf(r))
    BY <1>1, KnownHang
  <2>2. ParentOf(r) \in NodeRef \cup {Division}
    BY <2>1 DEF HangsFrom
  <2>3. ASSUME r \in DOMAIN draft.added, Pending(ParentOf(r))
        PROVE  ParentOf(r) \in DOMAIN draft.added
    <3>1. ParentOf(r) = draft.added[r].parent
      BY <2>3, KnownHang
    <3>2. ParentOf(r) = Division \/ Alive(draft, ParentOf(r))
      BY <2>3, <3>1 DEF PageFits, DraftFits, AddedFits
    <3>. QED
      BY <2>3, <3>2 DEF Alive, Stored, Pending, Division
  <2>4. ASSUME r \notin DOMAIN draft.added PROVE ~Pending(ParentOf(r))
    BY <1>1, <2>4, KnownHang
  <2>. QED
    BY <2>2, <2>3, <2>4
<1>2. CASE r \notin Known
  <2>1. ParentOf(r) = Division
    BY <1>2 DEF ParentOf, Indexed, Known, Row
  <2>. QED
    BY <2>1 DEF Division, Pending
<1>. QED
  BY <1>1, <1>2

\* What the draft names, and what it hangs from, is stored or was added.
LEMMA NamedFits ==
  ASSUME PageFits
  PROVE  /\ Named \subseteq NodeRef
         /\ \A r \in Named : Pending(r) => r \in DOMAIN draft.added
<1>1. ASSUME NEW r, r \in Stored \/ Alive(draft, r)
      PROVE  r \in NodeRef /\ (Pending(r) => r \in DOMAIN draft.added)
  BY <1>1 DEF Stored, NodeRef, Alive, Pending
<1>2. \A r \in DOMAIN draft.added : r \in NodeRef
  BY KnownHang DEF Known
<1>3. \A r \in draft.removed \cup DOMAIN draft.renamed : r \in Stored
  BY DEF PageFits, DraftFits
<1>4. \A r \in RouteEnds : Alive(draft, r)
  BY DEF PageFits, DraftFits, RoutesFit, RouteFits, RouteEnds
<1>5. \A r \in {s[1] : s \in draft.cleared} \cup DOMAIN draft.seated : Alive(draft, r)
  BY DEF PageFits, DraftFits
<1>. QED
  BY <1>1, <1>2, <1>3, <1>4, <1>5 DEF Named

\* So is what those hang from.
LEMMA MentionedFit ==
  ASSUME PageFits
  PROVE  \A r \in Mentioned :
            r \in NodeRef \cup {Division} /\ (Pending(r) => r \in DOMAIN draft.added)
BY NamedFits, ParentsFit DEF Mentioned, Parents

\* The plan of a draft that fits.
LEMMA PlanOfDraftFits ==
  ASSUME PageFits
  PROVE  PlanFits(ToStructurePlan)
<1>1. PICK plan : plan = ToStructurePlan
  OBVIOUS
<1>2. /\ DOMAIN plan.nodes = Mentioned \cup {Division}
      /\ \A r \in DOMAIN plan.nodes : plan.nodes[r] = Node(r)
      /\ plan.routes = draft.routes
  BY <1>1 DEF ToStructurePlan, Mentioned
<1>3. \A r \in DOMAIN plan.nodes :
         r \in NodeRef \cup {Division} /\ (Pending(r) => r \in DOMAIN draft.added)
  BY <1>2, MentionedFit DEF Pending, Division
<1>4. \E n \in Nat : \A r \in DOMAIN plan.nodes : r \in NodeRef \cup {Division} /\ -r[2] <= n
  <2>1. PICK n : n = NextId(draft)
    OBVIOUS
  <2>2. n \in Nat \ {0} /\ \A r \in DOMAIN draft.added : -r[2] \in Nat /\ -r[2] < n
    <3>1. AddedFits(draft)
      BY DEF PageFits, DraftFits
    <3>. QED
      BY <2>1, <3>1, NextIsNew
  <2>3. ASSUME NEW r \in DOMAIN plan.nodes PROVE -r[2] <= n
    <3>1. r[2] \in Int
      BY <1>3, <2>3 DEF NodeRef, Division
    <3>2. CASE r[2] < 0
      BY <1>3, <2>2, <2>3, <3>2 DEF Pending
    <3>3. CASE ~(r[2] < 0)
      BY <2>2, <3>1, <3>3
    <3>. QED
      BY <3>2, <3>3
  <2>. QED
    BY <1>3, <2>2, <2>3
<1>5. ASSUME NEW r \in DOMAIN plan.nodes
      PROVE  /\ plan.nodes[r].action = "create" => Pending(r)
             /\ plan.nodes[r].action = "link" => ~Pending(r)
  <2>1. plan.nodes[r] = Node(r)
    BY <1>2, <1>5
  <2>2. CASE r = Division
    BY <2>1, <2>2 DEF Node, Pending, Division
  <2>3. CASE r # Division
    BY <2>1, <2>3 DEF Node, ActionOn
  <2>. QED
    BY <2>2, <2>3
<1>6. \A r \in plan.routes : RouteShape(r)
  BY <1>2 DEF PageFits, DraftFits, RoutesFit, RouteFits
<1>7. PlanFits(plan)
  BY <1>4, <1>5, <1>6 DEF PlanFits, Refs
<1>. QED
  BY <1>1, <1>7

\* Edits that fit make valid plans, as long as nothing seen hangs from what is
\* removed without being removed itself.
LEMMA FitDraftsAreValid ==
  ASSUME PageFits
  PROVE  PlansAreValid
<1> DEFINE seen == DOMAIN overview.rows \cup DOMAIN list.rows
<1>1. SUFFICES ASSUME \A r \in Mentioned : Pending(r) \/ r \in seen \cup {Division},
                      \A r \in seen : ParentOf(r) \in draft.removed => r \in draft.removed,
                      \A r \in draft.routes : r.from # r.to
               PROVE  Valid(ToStructurePlan)
  BY DEF PlansAreValid
<1>2. PICK plan : plan = ToStructurePlan
  OBVIOUS
<1>3. /\ DOMAIN plan.nodes = Mentioned \cup {Division}
      /\ \A r \in DOMAIN plan.nodes : plan.nodes[r] = Node(r)
      /\ plan.routes = draft.routes /\ plan.cleared = draft.cleared
  BY <1>2 DEF ToStructurePlan, Mentioned
<1>4. \A r \in Mentioned : r = Division \/ r \in Known
  BY <1>1, MentionedFit DEF Known
<1>5. /\ Known \subseteq NodeRef
      /\ \A r \in Known : HangsFrom(r, ParentOf(r)) /\ NameOf(r) # None
      /\ \A r \in DOMAIN draft.added : Pending(r) /\ ParentOf(r) = draft.added[r].parent
      /\ \A r \in Known \ DOMAIN draft.added : r \in Stored /\ ~Pending(ParentOf(r))
  BY KnownHang
<1>6. Division \notin NodeRef /\ \A r \in NodeRef : Kind(r) \in Kinds
  BY DEF NodeRef, Division, Kinds, Kind
<1>7. \A r \in DOMAIN plan.nodes \ {Division} :
         /\ plan.nodes[r].parent = ParentOf(r) /\ plan.nodes[r].name = NameOf(r)
         /\ plan.nodes[r].action \in {"create", "link"} <=> r \notin draft.removed
  <2>1. ASSUME NEW r \in DOMAIN plan.nodes \ {Division}
        PROVE  /\ plan.nodes[r].parent = ParentOf(r) /\ plan.nodes[r].name = NameOf(r)
               /\ plan.nodes[r].action \in {"create", "link"} <=> r \notin draft.removed
    <3>1. plan.nodes[r] = Node(r)
      BY <1>3, <2>1
    <3>2. Node(r) = [action |-> ActionOn(r), parent |-> ParentOf(r), name |-> NameOf(r)]
      BY <2>1 DEF Node
    <3>3. ActionOn(r) \in {"create", "link"} <=> r \notin draft.removed
      BY DEF ActionOn
    <3>. QED
      BY <3>1, <3>2, <3>3
  <2>. QED
    BY <2>1
<1>8. \A r : Survives(plan, r) <=> r \in DOMAIN plan.nodes /\ r \notin draft.removed
  <2>1. Division \notin draft.removed
    BY <1>6 DEF PageFits, DraftFits, Stored, NodeRef
  <2>2. plan.nodes[Division].action = "link"
    <3>1. plan.nodes[Division] = Node(Division)
      BY <1>3
    <3>2. Node(Division) = [action |-> "link", parent |-> None, name |-> NewName]
      BY DEF Node
    <3>. QED
      BY <3>1, <3>2
  <2>. QED
    BY <1>3, <1>7, <2>1, <2>2 DEF Survives
<1>9. ASSUME NEW r \in Mentioned, r # Division
      PROVE  ParentOf(r) \in DOMAIN plan.nodes
  <2>1. CASE r \in Named \cup Parents(Named)
    <3>1. ParentOf(r) \in Parents(Named) \cup Parents(Parents(Named))
      BY <1>9, <2>1 DEF Parents
    <3>. QED
      BY <1>3, <3>1 DEF Mentioned
  <2>2. CASE r \in Parents(Parents(Named))
    <3>1. PICK p \in Parents(Named) \ {Division} : r = ParentOf(p)
      BY <2>2 DEF Parents
    <3>2. PICK x \in Named \ {Division} : p = ParentOf(x)
      BY <3>1 DEF Parents
    <3>3. x \in Known /\ p \in Known /\ r \in Known
      BY <1>4, <1>9, <3>1, <3>2 DEF Mentioned
    <3>4. HangsFrom(x, p) /\ HangsFrom(p, r) /\ HangsFrom(r, ParentOf(r))
      BY <1>5, <3>1, <3>2, <3>3
    <3>5. /\ Kind(x) # "phase" /\ Kind(p) = ParentKind[Kind(x)]
          /\ Kind(p) # "phase" /\ Kind(r) = ParentKind[Kind(p)]
      BY <1>9, <3>1, <3>4 DEF HangsFrom
    <3>6. Kind(x) \in Kinds /\ Kind(p) \in Kinds
      BY <1>5, <1>6, <3>3
    <3>7. Kind(r) = "phase"
      BY <3>5, <3>6 DEF Kinds, ParentKind
    <3>8. ParentOf(r) = Division
      BY <3>4, <3>7 DEF HangsFrom
    <3>. QED
      BY <1>3, <3>8
  <2>. QED
    BY <2>1, <2>2 DEF Mentioned
<1>10. ASSUME NEW r \in Known, r \notin draft.removed
       PROVE  ParentOf(r) \notin draft.removed
  <2>1. CASE r \in DOMAIN draft.added
    <3>1. ParentOf(r) = Division \/ Alive(draft, ParentOf(r))
      BY <1>5, <2>1 DEF PageFits, DraftFits, AddedFits
    <3>2. Division \notin draft.removed
      BY <1>6 DEF PageFits, DraftFits, Stored, NodeRef
    <3>. QED
      BY <3>1, <3>2 DEF Alive
  <2>2. CASE r \in seen
    BY <1>1, <1>10, <2>2
  <2>. QED
    BY <2>1, <2>2 DEF Known
<1>11. ValidNodes(plan)
  <2>1. ASSUME NEW r \in DOMAIN plan.nodes \ {Division}
        PROVE  /\ Survives(plan, r) =>
                     plan.nodes[r].name # None /\ Survives(plan, plan.nodes[r].parent)
               /\ plan.nodes[r].parent \in DOMAIN plan.nodes
               /\ Kind(plan.nodes[r].parent) = ParentKind[Kind(r)]
    <3>1. r \in Mentioned /\ r \in Known
      BY <1>3, <1>4, <2>1
    <3>2. plan.nodes[r].parent = ParentOf(r) /\ plan.nodes[r].name = NameOf(r)
      BY <1>7, <2>1
    <3>3. ParentOf(r) \in DOMAIN plan.nodes
      BY <1>9, <2>1, <3>1
    <3>4. NameOf(r) # None /\ HangsFrom(r, ParentOf(r)) /\ Kind(r) \in Kinds
      BY <1>5, <1>6, <3>1
    <3>5. Kind(ParentOf(r)) = ParentKind[Kind(r)]
      BY <3>4 DEF HangsFrom, Division, Kind, ParentKind
    <3>6. Survives(plan, r) => Survives(plan, ParentOf(r))
      BY <1>8, <1>10, <3>1, <3>3
    <3>. QED
      BY <3>2, <3>3, <3>4, <3>5, <3>6
  <2>. QED
    BY <2>1 DEF ValidNodes
<1>12. ValidRoutes(plan)
  <2>1. ASSUME NEW r \in draft.routes
        PROVE  /\ r.from # r.to
               /\ \A end \in {r.from, r.to} : Kind(end) \in Routable /\ Survives(plan, end)
               /\ \A other \in draft.routes \ {r} : Slot(other) # Slot(r)
    <3>1. RouteFits(draft, r)
      BY <2>1 DEF PageFits, DraftFits, RoutesFit
    <3>2. r.from \in Mentioned /\ r.to \in Mentioned
      BY <2>1 DEF Mentioned, Named, RouteEnds
    <3>3. Survives(plan, r.from) /\ Survives(plan, r.to)
      BY <1>3, <1>8, <3>1, <3>2 DEF RouteFits, Alive
    <3>4. \A other \in draft.routes \ {r} : Slot(other) # Slot(r)
      BY <2>1 DEF PageFits, DraftFits, RoutesFit
    <3>. QED
      BY <1>1, <2>1, <3>1, <3>3, <3>4 DEF RouteFits
  <2>. QED
    BY <1>3, <2>1 DEF ValidRoutes
<1>13. ValidClearedSlots(plan)
  <2>1. ASSUME NEW s \in draft.cleared
        PROVE  /\ s[1] \in DOMAIN plan.nodes /\ Kind(s[1]) \in Routable
               /\ \A r \in draft.routes : Slot(r) # s
    <3>1. s[1] \in Mentioned
      BY <2>1 DEF Mentioned, Named
    <3>. QED
      BY <1>3, <2>1, <3>1 DEF PageFits, DraftFits
  <2>. QED
    BY <1>3, <2>1 DEF ValidClearedSlots
<1>. QED
  BY <1>2, <1>11, <1>12, <1>13 DEF Valid

-----------------------------------------------------------------------------
(* Applying a valid plan, and saving a request, keep the tables fit.       *)

\* What a plan names becomes a stored row of its kind.
LEMMA RowIdFits ==
  ASSUME NEW d, d.next \in Nat, NEW ref \in NodeRef
  PROVE  RowId(d, ref) \in Stored /\ Kind(RowId(d, ref)) = Kind(ref) /\ ~Pending(RowId(d, ref))
<1>1. Kind(ref) \in Kinds /\ ref[2] \in Int \ {0} /\ ref = <<Kind(ref), ref[2]>>
  BY DEF NodeRef, Kind
<1>2. CASE Pending(ref)
  <2>1. RowId(d, ref) = <<Kind(ref), d.next - ref[2]>>
    BY <1>2 DEF RowId
  <2>2. d.next - ref[2] \in Nat \ {0}
    BY <1>1, <1>2 DEF Pending
  <2>. QED
    BY <1>1, <2>1, <2>2 DEF Stored, Kind, Pending
<1>3. CASE ~Pending(ref)
  BY <1>1, <1>3 DEF RowId, Stored, Pending
<1>. QED
  BY <1>2, <1>3

\* The rows a valid plan creates fit, and those it renames.
LEMMA CreatedFits ==
  ASSUME NEW d, d.next \in Nat, NEW plan, PlanFits(plan), ValidNodes(plan)
  PROVE  RowsFit(Created(d, plan))
<1>1. ASSUME NEW p \in Refs(plan, "create")
      PROVE  RowFits(RowId(d, p), Row(RowId(d, plan.nodes[p].parent), plan.nodes[p].name))
  <2>1. PICK node : node = plan.nodes[p]
    OBVIOUS
  <2>2. p \in DOMAIN plan.nodes /\ node.action = "create" /\ Pending(p)
    BY <1>1, <2>1 DEF PlanFits, Refs
  <2>3. p \in NodeRef /\ p # Division
    BY <2>2 DEF PlanFits, Pending, Division
  <2>4. /\ node.name # None /\ Survives(plan, node.parent)
        /\ Kind(node.parent) = ParentKind[Kind(p)]
    BY <2>1, <2>2, <2>3 DEF ValidNodes, Survives
  <2>5. PICK parent : parent = node.parent
    OBVIOUS
  <2>6. parent \in NodeRef \cup {Division}
    BY <2>4, <2>5 DEF PlanFits, Survives
  <2>7. /\ RowId(d, p) \in Stored /\ Kind(RowId(d, p)) = Kind(p) /\ Kind(p) \in Kinds
    BY <2>3, RowIdFits DEF NodeRef, Kind
  <2>8. HangsFrom(RowId(d, p), RowId(d, parent)) /\ ~Pending(RowId(d, parent))
    <3>1. CASE Kind(p) = "phase"
      <4>1. Kind(parent) = "division"
        BY <2>4, <2>5, <3>1 DEF ParentKind
      <4>2. parent = Division
        BY <2>6, <4>1 DEF NodeRef, Kinds, Kind
      <4>3. RowId(d, parent) = Division /\ ~Pending(Division)
        BY <4>2 DEF RowId, Pending, Division
      <4>. QED
        BY <2>7, <3>1, <4>3 DEF HangsFrom
    <3>2. CASE Kind(p) # "phase"
      <4>1. Kind(parent) # "division"
        BY <2>4, <2>5, <2>7, <3>2 DEF ParentKind, Kinds
      <4>2. parent \in NodeRef
        BY <2>6, <4>1 DEF Division, Kind
      <4>3. /\ RowId(d, parent) \in Stored /\ Kind(RowId(d, parent)) = Kind(parent)
            /\ ~Pending(RowId(d, parent))
        BY <4>2, RowIdFits
      <4>. QED
        BY <2>4, <2>5, <2>7, <3>2, <4>3 DEF HangsFrom, Stored, NodeRef
    <3>. QED
      BY <3>1, <3>2
  <2>. QED
    BY <2>1, <2>4, <2>5, <2>7, <2>8 DEF RowFits, Row
<1>2. PICK rows : rows = Created(d, plan)
  OBVIOUS
<1>3. ASSUME NEW r \in DOMAIN rows PROVE RowFits(r, rows[r])
  <2>1. r \in {RowId(d, p) : p \in Refs(plan, "create")}
    BY <1>2, <1>3 DEF Created
  <2>2. PICK p : p = CHOOSE x \in Refs(plan, "create") : RowId(d, x) = r
    OBVIOUS
  <2>3. p \in Refs(plan, "create") /\ RowId(d, p) = r
    BY <2>1, <2>2
  <2>4. rows[r] = Row(RowId(d, plan.nodes[p].parent), plan.nodes[p].name)
    BY <1>2, <2>1, <2>2 DEF Created
  <2>. QED
    BY <1>1, <2>3, <2>4
<1>. QED
  BY <1>2, <1>3 DEF RowsFit

LEMMA RenamedRowsFit ==
  ASSUME NEW d, RowsFit(d.rows), NEW plan, ValidNodes(plan)
  PROVE  RowsFit(WithRowNames(d, plan))
<1>1. Division \notin Stored
  BY DEF Stored, Division, Kinds
<1>2. ASSUME NEW r \in DOMAIN d.rows, r \in Refs(plan, "link")
      PROVE  RowFits(r, [d.rows[r] EXCEPT !.name = plan.nodes[r].name])
  <2>1. PICK row, name : row = d.rows[r] /\ name = plan.nodes[r].name
    OBVIOUS
  <2>2. RowFits(r, row) /\ r # Division
    BY <1>1, <2>1 DEF RowsFit, RowFits
  <2>3. name # None
    BY <1>2, <2>1, <2>2 DEF ValidNodes, Survives, Refs
  <2>4. RowFits(r, [row EXCEPT !.name = name])
    BY <2>2, <2>3 DEF RowFits
  <2>. QED
    BY <2>1, <2>4
<1>3. PICK rows : rows = WithRowNames(d, plan)
  OBVIOUS
<1>4. /\ DOMAIN rows = DOMAIN d.rows
      /\ \A r \in DOMAIN rows :
           rows[r] = IF r \in Refs(plan, "link") THEN [d.rows[r] EXCEPT !.name = plan.nodes[r].name]
                     ELSE d.rows[r]
  BY <1>3 DEF WithRowNames
<1>5. RowsFit(rows)
  BY <1>2, <1>4 DEF RowsFit
<1>. QED
  BY <1>3, <1>5

\* A valid plan leaves tables that fit.
LEMMA AppliedFits ==
  ASSUME NEW d, RowsFit(d.rows), RulesFit(d.rules), d.next \in Nat,
         NEW plan, PlanFits(plan), Valid(plan), NEW new, new = Applied(d, plan)
  PROVE  /\ new = [rows |-> new.rows, rules |-> new.rules, version |-> new.version,
                   next |-> new.next, seats |-> new.seats]
         /\ RowsFit(new.rows) /\ RulesFit(new.rules) /\ new.next \in Nat
<1>1. PICK grown : grown = WithRowNames(d, plan) @@ Created(d, plan)
  OBVIOUS
<1>2. PICK gone : gone = Below(grown, Refs(plan, "remove"))
  OBVIOUS
<1>3. PICK rows : rows = Without(grown, gone)
  OBVIOUS
<1>4. PICK rules, version, next, seats :
        /\ new = [rows |-> rows, rules |-> rules, seats |-> seats, version |-> version, next |-> next]
        /\ rules = RulesWritten(d, plan)
        /\ next = d.next + Most(Drafted(Refs(plan, "create")))
  BY <1>1, <1>2, <1>3 DEF Applied
<1>5. /\ new = [rows |-> new.rows, rules |-> new.rules, version |-> new.version,
                next |-> new.next, seats |-> new.seats]
      /\ new.rows = rows /\ new.rules = rules /\ new.next = next
  BY <1>4
<1>6. ValidNodes(plan) /\ ValidRoutes(plan)
  BY DEF Valid
<1>7. RowsFit(rows)
  <2>1. PICK named, made : named = WithRowNames(d, plan) /\ made = Created(d, plan)
    OBVIOUS
  <2>2. RowsFit(named) /\ RowsFit(made)
    BY <1>6, <2>1, RenamedRowsFit, CreatedFits
  <2>3. RowsFit(grown)
    <3>1. RowsFit(named @@ made)
      BY <2>2, BothFit
    <3>. QED
      BY <1>1, <2>1, <3>1
  <2>4. RowsFit(Without(grown, gone))
    BY <2>3, FewerFit
  <2>. QED
    BY <1>3, <2>4
<1>8. RulesFit(rules)
  <2>1. ASSUME NEW r \in plan.routes
        PROVE  Resolved(d, r).from \in Ends /\ Resolved(d, r).to \in Ends
    <3>1. PICK from, to : from = r.from /\ to = r.to
      OBVIOUS
    <3>2. RouteShape(r)
      BY <2>1 DEF PlanFits
    <3>3. /\ Kind(from) \in Routable /\ Survives(plan, from)
          /\ Kind(to) \in Routable /\ Survives(plan, to)
      BY <1>6, <2>1, <3>1 DEF ValidRoutes
    <3>4. from \in NodeRef /\ to \in NodeRef
      BY <3>3 DEF Survives, PlanFits, Routable, Division, Kind
    <3>5. /\ RowId(d, from) \in Stored /\ Kind(RowId(d, from)) = Kind(from)
          /\ RowId(d, to) \in Stored /\ Kind(RowId(d, to)) = Kind(to)
      BY <3>4, RowIdFits
    <3>6. \A x \in Stored : Kind(x) \in Routable => x \in Ends
      BY DEF Stored, Ends, Kind
    <3>7. Resolved(d, r).from = RowId(d, from) /\ Resolved(d, r).to = RowId(d, to)
      BY <3>1, <3>2 DEF Resolved, RouteShape
    <3>. QED
      BY <3>3, <3>5, <3>6, <3>7
  <2>2. \A r \in rules : r \in d.rules \/ \E route \in plan.routes : r = Resolved(d, route)
    BY <1>4 DEF RulesWritten
  <2>. QED
    BY <2>1, <2>2 DEF RulesFit
<1>9. next \in Nat
  <2>1. PICK n \in Nat : \A r \in DOMAIN plan.nodes : r \in NodeRef \cup {Division} /\ -r[2] <= n
    BY DEF PlanFits
  <2>2. PICK numbers : numbers = Drafted(Refs(plan, "create"))
    OBVIOUS
  <2>3. numbers \in SUBSET (0 .. n)
    <3>1. ASSUME NEW r \in Refs(plan, "create") PROVE -r[2] \in 0 .. n
      <4>1. Pending(r) /\ r \in DOMAIN plan.nodes
        BY <3>1 DEF PlanFits, Refs
      <4>2. r \in NodeRef \cup {Division} /\ -r[2] <= n
        BY <2>1, <4>1
      <4>3. r[2] \in Int
        BY <4>2 DEF NodeRef, Division
      <4>. QED
        BY <2>1, <4>1, <4>2, <4>3 DEF Pending
    <3>. QED
      BY <2>2, <3>1 DEF Drafted
  <2>4. Most(numbers) \in numbers \cup {0}
    BY <2>1, <2>3, MostOf
  <2>5. PICK most : most = Most(numbers)
    OBVIOUS
  <2>6. most \in Nat
    <3>1. most \in numbers \cup {0}
      BY <2>4, <2>5
    <3>2. \A k \in numbers : k \in Nat
      BY <2>1, <2>3
    <3>. QED
      BY <3>1, <3>2
  <2>. QED
    BY <1>4, <2>2, <2>5, <2>6
<1>. QED
  BY <1>5, <1>7, <1>8, <1>9

\* A request that saves leaves tables that fit.
LEMMA SavedFits ==
  ASSUME NEW d, RowsFit(d.rows), RulesFit(d.rules), d.next \in Nat,
         d = [rows |-> d.rows, rules |-> d.rules, version |-> d.version, next |-> d.next,
              seats |-> d.seats],
         NEW c, LoadFits(c), ~ParentGone(d, c), NEW new, new = SavedBy(d, c)
  PROVE  /\ new = [rows |-> new.rows, rules |-> new.rules, version |-> new.version,
                   next |-> new.next, seats |-> new.seats]
         /\ RowsFit(new.rows) /\ RulesFit(new.rules) /\ new.next \in Nat
<1>1. ASSUME NEW rows, NEW rules, NEW version, NEW next, NEW seats, RowsFit(rows), RulesFit(rules),
             next \in Nat,
             new = [rows |-> rows, rules |-> rules, version |-> version, next |-> next,
                    seats |-> seats]
      PROVE  /\ new = [rows |-> new.rows, rules |-> new.rules, version |-> new.version,
                       next |-> new.next, seats |-> new.seats]
             /\ RowsFit(new.rows) /\ RulesFit(new.rules) /\ new.next \in Nat
  BY <1>1
<1>2. <<"phase", d.next + 1>> \in Stored /\ <<"pool", d.next + 1>> \in Stored
      /\ <<"match", d.next + 1>> \in Stored /\ d.next + 1 \in Nat
  BY DEF Stored, Kinds
<1>3. CASE c.on = "division"
  <2> DEFINE fresh == {<<"phase", d.next + 1>> : name \in c.fresh}
  <2>1. PICK made : made = [r \in fresh |-> Row(Division, NewName)]
    OBVIOUS
  <2>2. PICK strangers : strangers = DOMAIN Phases(d) \ (DOMAIN c.copy \cup c.dropped)
    OBVIOUS
  <2>3. PICK lost : lost = [r \in strangers |-> [d.rows[r] EXCEPT !.parent = None]]
    OBVIOUS
  <2>4. PICK gone : gone = Below(d.rows, c.dropped)
    OBVIOUS
  <2>5. PICK all : all = made @@ c.copy @@ lost @@ d.rows
    OBVIOUS
  <2>6. PICK rows, seats : rows = Without(all, gone) /\ seats = Without(d.seats, gone)
    OBVIOUS
  <2>7. new = [d EXCEPT !.rows = rows, !.seats = seats, !.version = c.version, !.next = @ + 1]
    BY <1>3, <2>1, <2>2, <2>3, <2>4, <2>5, <2>6 DEF SavedBy, DivisionSaved
  <2>8. new = [rows |-> rows, rules |-> d.rules, version |-> c.version, next |-> d.next + 1,
               seats |-> seats]
    BY <2>7
  <2>9. RowsFit(made)
    <3>1. HangsFrom(<<"phase", d.next + 1>>, Division) /\ ~Pending(Division)
      BY DEF HangsFrom, Kind, Pending, Division
    <3>2. RowFits(<<"phase", d.next + 1>>, Row(Division, NewName))
      BY <1>2, <3>1, SuggestedFits
    <3>. QED
      BY <2>1, <3>2 DEF RowsFit
  <2>10. RowsFit(lost)
    <3>1. \A r \in strangers : r \in DOMAIN d.rows
      BY <2>2 DEF Phases, Restrict, ChildrenOf
    <3>2. \A r \in strangers : RowFits(r, [d.rows[r] EXCEPT !.parent = None])
      <4>1. ASSUME NEW r \in strangers PROVE RowFits(r, [d.rows[r] EXCEPT !.parent = None])
        <5>1. PICK row : row = d.rows[r]
          OBVIOUS
        <5>2. RowFits(r, row)
          BY <3>1, <4>1, <5>1 DEF RowsFit
        <5>3. RowFits(r, [row EXCEPT !.parent = None])
          BY <5>2, OrphanFits
        <5>. QED
          BY <5>1, <5>3
      <4>. QED
        BY <4>1
    <3>. QED
      BY <2>3, <3>2 DEF RowsFit
  <2>11. RowsFit(c.copy)
    BY <1>3 DEF LoadFits
  <2>12. RowsFit(all)
    <3>1. PICK f : f = made @@ c.copy
      OBVIOUS
    <3>2. RowsFit(f)
      BY <2>9, <2>11, <3>1, BothFit
    <3>3. PICK g : g = f @@ lost
      OBVIOUS
    <3>4. RowsFit(g)
      BY <2>10, <3>2, <3>3, BothFit
    <3>5. RowsFit(g @@ d.rows)
      BY <3>4, BothFit
    <3>6. all = g @@ d.rows
      BY <2>5, <3>1, <3>3
    <3>. QED
      BY <3>5, <3>6
  <2>13. RowsFit(rows)
    BY <2>6, <2>12, FewerFit
  <2>. QED
    BY <1>1, <1>2, <2>8, <2>13
<1>4. ASSUME NEW kind, NEW parent, kind \in {"pool", "match"}, new = Inserted(d, kind, parent),
             HangsFrom(<<kind, d.next + 1>>, parent), ~Pending(parent)
      PROVE  /\ new = [rows |-> new.rows, rules |-> new.rules, version |-> new.version,
                       next |-> new.next, seats |-> new.seats]
             /\ RowsFit(new.rows) /\ RulesFit(new.rules) /\ new.next \in Nat
  <2>1. PICK row : row = <<kind, d.next + 1>>
    OBVIOUS
  <2>2. PICK one : one = (row :> Row(parent, NewName))
    OBVIOUS
  <2>3. PICK rows : rows = one @@ d.rows
    OBVIOUS
  <2>4. PICK seats : new = [d EXCEPT !.rows = rows, !.next = @ + 1, !.seats = seats]
    BY <1>4, <2>1, <2>2, <2>3 DEF Inserted
  <2>5. new = [rows |-> rows, rules |-> d.rules, version |-> d.version, next |-> d.next + 1,
               seats |-> seats]
    BY <2>4
  <2>6. row \in Stored
    BY <1>2, <1>4, <2>1
  <2>7. RowFits(row, Row(parent, NewName))
    BY <1>4, <2>1, <2>6, SuggestedFits
  <2>8. RowsFit(rows)
    <3>1. RowsFit(one)
      <4>1. PICK value : value = Row(parent, NewName)
        OBVIOUS
      <4>2. RowsFit(row :> value)
        BY <2>7, <4>1, OneFits
      <4>. QED
        BY <2>2, <4>1, <4>2
    <3>. QED
      BY <2>3, <3>1, BothFit
  <2>. QED
    BY <1>1, <1>2, <2>5, <2>8
<1>5. CASE c.on = "newPool"
  <2>1. new = Inserted(d, "pool", c.under)
    BY <1>5 DEF SavedBy
  <2>2. HangsFrom(<<"pool", d.next + 1>>, c.under) /\ ~Pending(c.under)
    BY <1>5 DEF LoadFits, HangsFrom, Kind, ParentKind, Stored, NodeRef, Pending
  <2>. QED
    BY <1>4, <2>1, <2>2
<1>6. CASE c.on = "newMatch"
  <2>1. new = Inserted(d, "match", c.under)
    BY <1>6 DEF SavedBy
  <2>2. HangsFrom(<<"match", d.next + 1>>, c.under) /\ ~Pending(c.under)
    BY <1>6 DEF LoadFits, HangsFrom, Kind, ParentKind, Stored, NodeRef, Pending
  <2>. QED
    BY <1>4, <2>1, <2>2
<1>7. CASE c.on = "pool"
  <2>1. PICK left : left = ChildrenOf(d.rows, {c.row}) \ c.held
    OBVIOUS
  <2>2. PICK one : one = [r \in {c.row} |-> c.copy]
    OBVIOUS
  <2>3. PICK lost : lost = [r \in left |-> [d.rows[r] EXCEPT !.parent = None]]
    OBVIOUS
  <2>4. PICK rows : rows = one @@ lost @@ d.rows
    OBVIOUS
  <2>5. new = [d EXCEPT !.rows = rows]
    <3>1. new = [d EXCEPT !.rows = one @@ lost @@ @]
      BY <1>7, <2>1, <2>2, <2>3 DEF SavedBy, PoolSaved
    <3>. QED
      BY <2>4, <3>1
  <2>6. new = [rows |-> rows, rules |-> d.rules, version |-> d.version, next |-> d.next,
               seats |-> d.seats]
    BY <2>5
  <2>7. RowsFit(one)
    BY <1>7, <2>2 DEF LoadFits, RowsFit
  <2>8. RowsFit(lost)
    <3>1. ASSUME NEW r \in left PROVE RowFits(r, [d.rows[r] EXCEPT !.parent = None])
      <4>1. PICK row : row = d.rows[r]
        OBVIOUS
      <4>2. RowFits(r, row)
        BY <2>1, <3>1, <4>1 DEF RowsFit, ChildrenOf
      <4>3. RowFits(r, [row EXCEPT !.parent = None])
        BY <4>2, OrphanFits
      <4>. QED
        BY <4>1, <4>3
    <3>. QED
      BY <2>3, <3>1 DEF RowsFit
  <2>9. RowsFit(rows)
    <3>1. PICK f : f = one @@ lost
      OBVIOUS
    <3>2. RowsFit(f)
      BY <2>7, <2>8, <3>1, BothFit
    <3>3. RowsFit(f @@ d.rows)
      BY <3>2, BothFit
    <3>. QED
      BY <2>4, <3>1, <3>3
  <2>. QED
    BY <1>1, <2>6, <2>9
<1>8. CASE c.on = "match"
  <2>1. PICK one : one = (c.row :> c.copy)
    OBVIOUS
  <2>2. PICK rows : rows = one @@ d.rows
    OBVIOUS
  <2>3. PICK seats : new = [d EXCEPT !.rows = rows, !.seats = seats]
    BY <1>8, <2>1, <2>2 DEF SavedBy, MatchSaved
  <2>4. new = [rows |-> rows, rules |-> d.rules, version |-> d.version, next |-> d.next,
               seats |-> seats]
    BY <2>3
  <2>5. RowsFit(one)
    BY <1>8, <2>1, OneFits DEF LoadFits
  <2>6. RowsFit(rows)
    BY <2>2, <2>5, BothFit
  <2>. QED
    BY <1>1, <2>4, <2>6
<1>9. CASE c.on = "gone"
  <2>1. PICK gone : gone = Below(d.rows, {c.row})
    OBVIOUS
  <2>2. PICK rows, seats, rules : /\ rows = Without(d.rows, gone) /\ seats = Without(d.seats, gone)
                                  /\ rules = {r \in d.rules : ~Touches(r, c.rules)}
    OBVIOUS
  <2>3. new = [d EXCEPT !.rows = rows, !.seats = seats, !.rules = rules]
    BY <1>9, <2>1, <2>2 DEF SavedBy, Deleted
  <2>4. new = [rows |-> rows, rules |-> rules, version |-> d.version, next |-> d.next,
               seats |-> seats]
    BY <2>3
  <2>5. RowsFit(rows)
    BY <2>2, FewerFit
  <2>6. RulesFit(rules)
    BY <2>2 DEF RulesFit
  <2>. QED
    BY <1>1, <2>4, <2>5, <2>6
<1>10. CASE c.on = "rules"
  <2>1. PICK rules : rules = {r \in d.rules : r.from # c.row} \cup c.rules
    OBVIOUS
  <2>2. new = [d EXCEPT !.rules = rules]
    BY <1>10, <2>1 DEF SavedBy, RulesReplaced
  <2>3. new = [rows |-> d.rows, rules |-> rules, version |-> d.version, next |-> d.next,
               seats |-> d.seats]
    BY <2>2
  <2>4. RulesFit(rules)
    BY <1>10, <2>1 DEF LoadFits, RulesFit
  <2>. QED
    BY <1>1, <2>3, <2>4
<1>. QED
  BY <1>3, <1>5, <1>6, <1>7, <1>8, <1>9, <1>10 DEF LoadFits, Counting


\* The page edits, discards, commits, reads and hears of its plan.
LEMMA PageKeepsFit ==
  ASSUME DraftInv, Page
  PROVE  DraftInv'
<1>1. UNCHANGED <<db, command>>
  BY DEF Page, Edits, AddNode, AddBracket, RenameNode, RemoveNode, DropRoute, ClearSlot,
         SeatEntrants, Edit, Discard, Commit, Succeed, Fail, ReadOverview, ReadMatches
<1>2. DbShape' /\ DbFits' /\ RequestFits'
  BY <1>1 DEF DraftInv, DbShape, DbFits, RequestFits
<1>3. PageFits /\ ReadFits(ReadTree(db)) /\ ReadFits(ReadList(db)) /\ PlanSentFits
  BY ReadsFit DEF DraftInv, PageFits
<1>4. SUFFICES ReadFits(overview') /\ ReadFits(list') /\ DraftFits(draft') /\ PlanSentFits'
  BY <1>2 DEF DraftInv
<1>5. ASSUME Edits PROVE ReadFits(overview') /\ ReadFits(list') /\ DraftFits(draft') /\ PlanSentFits'
  <2>1. UNCHANGED <<overview, list, sent>>
    BY <1>5 DEF Edits, AddNode, AddBracket, RenameNode, RemoveNode, DropRoute, ClearSlot,
           SeatEntrants, Edit
  <2>2. DraftFits(draft')
    BY <1>3, <1>5, EditsFit
  <2>3. ReadFits(overview') /\ ReadFits(list') /\ PlanSentFits'
    BY <1>3, <2>1 DEF PageFits, PlanSentFits
  <2>. QED
    BY <2>2, <2>3
<1>6. ASSUME Discard PROVE ReadFits(overview') /\ ReadFits(list') /\ DraftFits(draft') /\ PlanSentFits'
  BY <1>3, <1>6, EmptyFits DEF Discard, PageFits, PlanSentFits
<1>7. ASSUME Commit PROVE ReadFits(overview') /\ ReadFits(list') /\ DraftFits(draft') /\ PlanSentFits'
  <2>1. PICK plan, tree, seen, shown :
          /\ plan = ToStructurePlan
          /\ sent' = [step |-> "asked", plan |-> plan, tree |-> tree, list |-> seen, shown |-> shown]
    BY <1>7 DEF Commit
  <2>2. PlanFits(plan)
    BY <1>3, <2>1, PlanOfDraftFits
  <2>3. PlanSentFits'
    BY <2>1, <2>2 DEF PlanSentFits
  <2>. QED
    BY <1>3, <1>7, <2>3 DEF Commit, PageFits
<1>8. ASSUME Succeed PROVE ReadFits(overview') /\ ReadFits(list') /\ DraftFits(draft') /\ PlanSentFits'
  BY <1>3, <1>8, EmptyFits DEF Succeed, PageFits, PlanSentFits
<1>9. ASSUME Fail PROVE ReadFits(overview') /\ ReadFits(list') /\ DraftFits(draft') /\ PlanSentFits'
  BY <1>3, <1>9 DEF Fail, PageFits, PlanSentFits
<1>10. ASSUME ReadOverview \/ ReadMatches
       PROVE  ReadFits(overview') /\ ReadFits(list') /\ DraftFits(draft') /\ PlanSentFits'
  BY <1>3, <1>10 DEF ReadOverview, ReadMatches, PageFits, PlanSentFits
<1>. QED
  BY <1>5, <1>6, <1>7, <1>8, <1>9, <1>10 DEF Page

\* The step of a plan on its way moves, and only a valid plan is checked.
LEMMA SentStepsFit ==
  ASSUME PlanSentFits, sent # None, NEW step, sent' = [sent EXCEPT !.step = step],
         step \in {"asked", "checked"} => sent.step \in {"asked", "checked"},
         step = "checked" => Valid(sent.plan)
  PROVE  PlanSentFits'
<1>1. PICK plan, tree, seen, shown :
        /\ sent = [step |-> sent.step, plan |-> plan, tree |-> tree, list |-> seen, shown |-> shown]
        /\ plan = sent.plan
  BY DEF PlanSentFits
<1>2. sent' = [step |-> step, plan |-> plan, tree |-> tree, list |-> seen, shown |-> shown]
  BY <1>1
<1>3. /\ sent'.step = step /\ sent'.plan = plan /\ sent'.tree = tree /\ sent'.list = seen
      /\ sent'.shown = shown
  BY <1>2
<1>4. sent' = [step |-> sent'.step, plan |-> sent'.plan, tree |-> sent'.tree,
               list |-> sent'.list, shown |-> sent'.shown]
  BY <1>2, <1>3
<1>. QED
  BY <1>1, <1>3, <1>4 DEF PlanSentFits

\* The plan is checked.
LEMMA CheckKeepsFit ==
  ASSUME DraftInv, Check
  PROVE  DraftInv'
<1>1. /\ UNCHANGED <<db, overview, list, draft, command>> /\ sent # None /\ sent.step = "asked"
      /\ PlanSentFits
  BY DEF Check, DraftInv
<1>2. PICK step \in {"checked", "refused"} :
        sent' = [sent EXCEPT !.step = step] /\ (step = "checked" => Valid(sent.plan))
  BY DEF Check
<1>3. PlanSentFits'
  BY <1>1, <1>2, SentStepsFit
<1>. QED
  BY <1>1, <1>3 DEF DraftInv, DbShape, DbFits, RequestFits

\* The plan is applied, or refused for a row that is gone.
LEMMA ApplyKeepsFit ==
  ASSUME DraftInv, Apply
  PROVE  DraftInv'
<1>1. /\ UNCHANGED <<overview, list, draft, command>> /\ sent # None /\ sent.step = "checked"
      /\ PlanSentFits /\ DbShape /\ DbFits
  BY DEF Apply, DraftInv
<1>2. PICK step \in {"applied", "refused"} : sent' = [sent EXCEPT !.step = step]
  BY DEF Apply
<1>3. PlanSentFits'
  BY <1>1, <1>2, SentStepsFit
<1>4. PICK d, new, plan : d = db /\ new = db' /\ plan = sent.plan
  OBVIOUS
<1>5. new = d \/ new = Applied(d, plan)
  BY <1>4 DEF Apply
<1>6. PlanFits(plan) /\ Valid(plan) /\ RowsFit(d.rows) /\ RulesFit(d.rules) /\ d.next \in Nat
  BY <1>1, <1>4 DEF PlanSentFits, DbFits
<1>7. /\ new = [rows |-> new.rows, rules |-> new.rules, version |-> new.version,
                next |-> new.next, seats |-> new.seats]
      /\ RowsFit(new.rows) /\ RulesFit(new.rules) /\ new.next \in Nat
  <2>1. CASE new = d
    BY <1>1, <1>4, <1>6, <2>1 DEF DbShape
  <2>2. CASE new = Applied(d, plan)
    BY <1>6, <2>2, AppliedFits
  <2>. QED
    BY <1>5, <2>1, <2>2
<1>8. DbShape' /\ DbFits'
  BY <1>4, <1>7 DEF DbShape, DbFits
<1>. QED
  BY <1>1, <1>3, <1>8 DEF DraftInv, RequestFits

\* A request carries what it has loaded, of rows that fit.
LEMMA RequestsFit ==
  ASSUME DraftInv, Commands
  PROVE  RequestFits'
<1>1. /\ RowsFit(db.rows) /\ RulesFit(db.rules)
      /\ \A refs : ChildrenOf(db.rows, refs) \subseteq DOMAIN db.rows
      /\ Attached(db.rows) \subseteq DOMAIN db.rows
  BY AttachedAreRows DEF DraftInv, DbFits, ChildrenOf
<1>2. PICK phases : phases = Phases(db)
  OBVIOUS
<1>3. /\ RowsFit(phases) /\ \A r \in DOMAIN phases : r \in Stored /\ Kind(r) = "phase"
  <2>1. /\ DOMAIN phases \subseteq DOMAIN db.rows
        /\ \A r \in DOMAIN phases : phases[r] = db.rows[r] /\ db.rows[r].parent = Division
    BY <1>1, <1>2 DEF Phases, Restrict, ChildrenOf
  <2>2. RowsFit(phases)
    BY <1>1, <2>1 DEF RowsFit
  <2>3. ASSUME NEW r \in DOMAIN phases PROVE r \in Stored /\ Kind(r) = "phase"
    <3>1. RowFits(r, db.rows[r]) /\ db.rows[r].parent = Division
      BY <1>1, <2>1 DEF RowsFit
    <3>2. PICK row : row = db.rows[r]
      OBVIOUS
    <3>3. r \in Stored /\ HangsFrom(r, Division)
      BY <3>1, NodesAssumption DEF RowFits
    <3>4. Division \notin NodeRef
      BY DEF NodeRef, Division, Kinds
    <3>. QED
      BY <3>3, <3>4 DEF HangsFrom
  <2>. QED
    BY <2>2, <2>3
<1>4. ASSUME NEW copy, NEW fresh, NEW dropped, NEW bumps, OnDivision(copy, fresh, dropped, bumps),
             RowsFit(copy)
      PROVE  RequestFits'
  <2>1. command' = [step |-> "loaded"] @@ [on |-> "division", copy |-> copy,
                      version |-> db.version, fresh |-> fresh, dropped |-> dropped,
                      bumps |-> bumps]
    BY <1>4 DEF OnDivision, Begin
  <2>2. command'.step = "loaded" /\ command'.on = "division" /\ command'.copy = copy
    BY <2>1 DEF @@
  <2>3. LoadFits(command')
    BY <1>4, <2>2 DEF LoadFits
  <2>. QED
    BY <2>2, <2>3 DEF RequestFits
<1>5. ASSUME NEW on \in {"newPool", "newMatch"}, NEW under \in Stored, NEW bumps,
             Kind(under) = IF on = "newPool" THEN "phase" ELSE "pool",
             Begin([on |-> on, under |-> under, bumps |-> bumps])
      PROVE  RequestFits'
  <2>1. command' = [step |-> "loaded"] @@ [on |-> on, under |-> under, bumps |-> bumps]
    BY <1>5 DEF Begin
  <2>2. command'.step = "loaded" /\ command'.on = on /\ command'.under = under
    BY <2>1 DEF @@
  <2>3. LoadFits(command')
    BY <1>5, <2>2 DEF LoadFits, Counting
  <2>. QED
    BY <2>2, <2>3 DEF RequestFits
<1>6. ASSUME NEW row, NEW copy, NEW held, RowFits(row, copy),
             Begin([on |-> "pool", row |-> row, copy |-> copy, held |-> held, bumps |-> TRUE])
      PROVE  RequestFits'
  <2>1. command' = [step |-> "loaded"] @@ [on |-> "pool", row |-> row, copy |-> copy,
                                           held |-> held, bumps |-> TRUE]
    BY <1>6 DEF Begin
  <2>2. /\ command'.step = "loaded" /\ command'.on = "pool" /\ command'.row = row
        /\ command'.copy = copy
    BY <2>1 DEF @@
  <2>3. LoadFits(command')
    BY <1>6, <2>2 DEF LoadFits, Counting
  <2>. QED
    BY <2>2, <2>3 DEF RequestFits
<1>7. ASSUME NEW row, NEW copy, NEW seats, RowFits(row, copy),
             Begin([on |-> "match", row |-> row, copy |-> copy, seats |-> seats, bumps |-> FALSE])
      PROVE  RequestFits'
  <2>1. command' = [step |-> "loaded"] @@ [on |-> "match", row |-> row, copy |-> copy,
                                           seats |-> seats, bumps |-> FALSE]
    BY <1>7 DEF Begin
  <2>2. /\ command'.step = "loaded" /\ command'.on = "match" /\ command'.row = row
        /\ command'.copy = copy
    BY <2>1 DEF @@
  <2>3. LoadFits(command')
    BY <1>7, <2>2 DEF LoadFits, Counting
  <2>. QED
    BY <2>2, <2>3 DEF RequestFits
<1>8. ASSUME NEW row, NEW rules, Begin([on |-> "gone", row |-> row, rules |-> rules, bumps |-> TRUE])
      PROVE  RequestFits'
  <2>1. command' = [step |-> "loaded"] @@ [on |-> "gone", row |-> row, rules |-> rules,
                                           bumps |-> TRUE]
    BY <1>8 DEF Begin
  <2>2. command'.step = "loaded" /\ command'.on = "gone"
    BY <2>1 DEF @@
  <2>3. LoadFits(command')
    BY <2>2 DEF LoadFits, Counting
  <2>. QED
    BY <2>2, <2>3 DEF RequestFits
<1>9. ASSUME NEW row, NEW rules, RulesFit(rules),
             Begin([on |-> "rules", row |-> row, rules |-> rules, bumps |-> FALSE])
      PROVE  RequestFits'
  <2>1. command' = [step |-> "loaded"] @@ [on |-> "rules", row |-> row, rules |-> rules,
                                           bumps |-> FALSE]
    BY <1>9 DEF Begin
  <2>2. command'.step = "loaded" /\ command'.on = "rules" /\ command'.rules = rules
    BY <2>1 DEF @@
  <2>3. LoadFits(command')
    BY <1>9, <2>2 DEF LoadFits, Counting
  <2>. QED
    BY <2>2, <2>3 DEF RequestFits
<1>10. CASE AddPhase \/ SeedEntrants
  BY <1>2, <1>3, <1>4, <1>10 DEF AddPhase, SeedEntrants
<1>11. CASE RenamePhase
  <2>1. PICK phase \in DOMAIN phases, name \in Names :
          OnDivision([phases EXCEPT ![phase].name = name], {}, {}, TRUE)
    BY <1>2, <1>11 DEF RenamePhase
  <2>2. PICK copy : copy = [phases EXCEPT ![phase].name = name]
    OBVIOUS
  <2>3. RowsFit(copy)
    <3>1. PICK row : row = phases[phase]
      OBVIOUS
    <3>2. RowFits(phase, row) /\ name # None
      BY <1>3, <2>1, <3>1, NamesAssumption DEF RowsFit
    <3>3. RowFits(phase, [row EXCEPT !.name = name])
      BY <3>2 DEF RowFits
    <3>4. /\ DOMAIN copy = DOMAIN phases /\ copy[phase] = [row EXCEPT !.name = name]
          /\ \A r \in DOMAIN phases \ {phase} : copy[r] = phases[r]
      BY <2>1, <2>2, <3>1
    <3>. QED
      BY <1>3, <3>3, <3>4 DEF RowsFit
  <2>. QED
    BY <1>4, <2>1, <2>2, <2>3
<1>12. CASE RemovePhase
  <2>1. PICK phase \in DOMAIN phases : OnDivision(Without(phases, {phase}), {}, {phase}, TRUE)
    BY <1>2, <1>12 DEF RemovePhase
  <2>2. PICK copy, dropped : copy = Without(phases, dropped) /\ dropped = {phase}
    OBVIOUS
  <2>3. RowsFit(copy)
    BY <1>3, <2>2, FewerFit
  <2>. QED
    BY <1>4, <2>1, <2>2, <2>3
<1>13. CASE CreatePool
  <2>1. PICK phase \in DOMAIN phases : Begin([on |-> "newPool", under |-> phase, bumps |-> TRUE])
    BY <1>2, <1>13 DEF CreatePool
  <2>. QED
    BY <1>3, <1>5, <2>1
<1>14. CASE CreateMatch
  <2>1. PICK pool \in OfKind(db.rows, "pool") : Begin([on |-> "newMatch", under |-> pool, bumps |-> TRUE])
    BY <1>14 DEF CreateMatch
  <2>2. pool \in Stored /\ Kind(pool) = "pool"
    BY <1>1, <2>1 DEF OfKind, RowsFit, RowFits
  <2>. QED
    BY <1>5, <2>1, <2>2
<1>15. ASSUME NEW r \in DOMAIN db.rows, NEW name \in Names
       PROVE  RowFits(r, Row(db.rows[r].parent, name))
  <2>1. PICK row : row = db.rows[r]
    OBVIOUS
  <2>2. RowFits(r, row) /\ name # None
    BY <1>1, <2>1, NamesAssumption DEF RowsFit
  <2>3. RowFits(r, Row(row.parent, name))
    BY <2>2 DEF RowFits, Row
  <2>. QED
    BY <2>1, <2>3
<1>16. CASE RenamePool
  <2>1. PICK pool \in OfKind(db.rows, "pool"), name \in Names :
          Begin([on |-> "pool", row |-> pool, copy |-> Row(db.rows[pool].parent, name),
                 held |-> ChildrenOf(db.rows, {pool}), bumps |-> TRUE])
    BY <1>16 DEF RenamePool
  <2>2. PICK copy, held : /\ copy = Row(db.rows[pool].parent, name)
                          /\ held = ChildrenOf(db.rows, {pool})
    OBVIOUS
  <2>3. RowFits(pool, copy)
    BY <1>15, <2>1, <2>2 DEF OfKind
  <2>. QED
    BY <1>6, <2>1, <2>2, <2>3
<1>17. CASE RenameMatch
  <2>1. PICK match \in OfKind(db.rows, "match"), name \in Names :
          Begin([on |-> "match", row |-> match, copy |-> Row(db.rows[match].parent, name),
                 seats |-> db.seats[match], bumps |-> FALSE])
    BY <1>17 DEF RenameMatch
  <2>2. PICK copy, seats : copy = Row(db.rows[match].parent, name) /\ seats = db.seats[match]
    OBVIOUS
  <2>3. RowFits(match, copy)
    BY <1>15, <2>1, <2>2 DEF OfKind
  <2>. QED
    BY <1>7, <2>1, <2>2, <2>3
<1>18. CASE DeletePool \/ DeleteMatch
  BY <1>8, <1>18 DEF DeletePool, DeleteMatch
<1>19. CASE UpdateRules
  <2>1. PICK from, to \in {r \in Attached(db.rows) : Kind(r) \in Routable} :
          \E rules \in {{}, {[from |-> from, place |-> 1, to |-> to, slot |-> 1]}} :
            Begin([on |-> "rules", row |-> from, rules |-> rules, bumps |-> FALSE])
    BY <1>19 DEF UpdateRules
  <2>2. PICK rules \in {{}, {[from |-> from, place |-> 1, to |-> to, slot |-> 1]}} :
          Begin([on |-> "rules", row |-> from, rules |-> rules, bumps |-> FALSE])
    BY <2>1
  <2>3. from \in Ends /\ to \in Ends
    BY <1>1, <2>1 DEF RowsFit, RowFits, Stored, Ends, Kind
  <2>4. RulesFit(rules)
    BY <2>2, <2>3 DEF RulesFit
  <2>. QED
    BY <1>9, <2>2, <2>4
<1>. QED
  BY <1>10, <1>11, <1>12, <1>13, <1>14, <1>16, <1>17, <1>18, <1>19 DEF Commands

\* Another organiser's request begins.
LEMMA CommandsKeepFit ==
  ASSUME DraftInv, Commands
  PROVE  DraftInv'
<1>1. UNCHANGED <<db, overview, list, draft, sent>>
  BY DEF Commands, AddPhase, RenamePhase, RemovePhase, SeedEntrants, CreatePool, RenamePool,
         DeletePool, CreateMatch, RenameMatch, DeleteMatch, UpdateRules, OnDivision, Begin
<1>. QED
  BY <1>1, RequestsFit DEF DraftInv, DbShape, DbFits, PlanSentFits

\* The request saves.
LEMMA SaveKeepsFit ==
  ASSUME DraftInv, Save
  PROVE  DraftInv'
<1>1. /\ UNCHANGED <<overview, list, draft, sent>> /\ command.step = "loaded"
      /\ DbShape /\ DbFits /\ LoadFits(command) /\ PlanSentFits
  BY DEF Save, DraftInv, RequestFits
<1>2. PlanSentFits'
  BY <1>1 DEF PlanSentFits
<1>3. CASE ParentGone(db, command)
  <2>1. UNCHANGED db /\ command' = Waiting
    BY <1>3 DEF Save
  <2>. QED
    BY <1>1, <1>2, <2>1 DEF DraftInv, DbShape, DbFits, RequestFits, Waiting
<1>4. CASE ~ParentGone(db, command)
  <2>1. PICK d, c, new : d = db /\ c = command /\ new = db'
    OBVIOUS
  <2>2. /\ new = SavedBy(d, c) /\ ~ParentGone(d, c) /\ LoadFits(c)
        /\ command' = IF c.bumps THEN [step |-> "saved", made |-> d.next + 1] @@ c ELSE Waiting
    BY <1>1, <1>4, <2>1 DEF Save
  <2>3. /\ RowsFit(d.rows) /\ RulesFit(d.rules) /\ d.next \in Nat
        /\ d = [rows |-> d.rows, rules |-> d.rules, version |-> d.version, next |-> d.next,
                seats |-> d.seats]
    BY <1>1, <2>1 DEF DbShape, DbFits
  <2>4. /\ new = [rows |-> new.rows, rules |-> new.rules, version |-> new.version,
                  next |-> new.next, seats |-> new.seats]
        /\ RowsFit(new.rows) /\ RulesFit(new.rules) /\ new.next \in Nat
    BY <2>2, <2>3, SavedFits
  <2>5. DbShape' /\ DbFits'
    BY <2>1, <2>4 DEF DbShape, DbFits
  <2>6. RequestFits'
    <3>1. CASE c.bumps
      <4>1. PICK mark : mark = [step |-> "saved", made |-> d.next + 1]
        OBVIOUS
      <4>2. command' = mark @@ c
        BY <2>2, <3>1, <4>1
      <4>3. command'.step = "saved" /\ command'.made = d.next + 1
        BY <4>1, <4>2 DEF @@
      <4>. QED
        BY <2>3, <4>3 DEF RequestFits
    <3>2. CASE ~c.bumps
      BY <2>2, <3>2 DEF RequestFits, Waiting
    <3>. QED
      BY <3>1, <3>2
  <2>. QED
    BY <1>1, <1>2, <2>5, <2>6 DEF DraftInv
<1>. QED
  BY <1>3, <1>4

\* The request raises the version, and may go on to add a pool to its phase.
LEMMA BumpKeepsFit ==
  ASSUME DraftInv, Bump
  PROVE  DraftInv'
<1>1. /\ UNCHANGED <<overview, list, draft, sent>> /\ command.step = "saved"
      /\ DbShape /\ DbFits /\ command.made \in Nat \ {0} /\ PlanSentFits
  BY DEF Bump, DraftInv, RequestFits
<1>2. DbShape' /\ DbFits'
  BY <1>1 DEF DbShape, DbFits, Bump
<1>3. PICK under : under = <<"phase", command.made>>
  OBVIOUS
<1>4. under \in Stored /\ Kind(under) = "phase"
  BY <1>1, <1>3 DEF Stored, Kinds, Kind
<1>5. \/ command' = Waiting
      \/ command' = [step |-> "loaded", on |-> "newPool", under |-> under, bumps |-> TRUE]
  BY <1>3 DEF Bump
<1>6. RequestFits'
  <2>1. CASE command' = Waiting
    BY <2>1 DEF RequestFits, Waiting
  <2>2. CASE command' = [step |-> "loaded", on |-> "newPool", under |-> under, bumps |-> TRUE]
    <3>1. LoadFits(command') /\ command'.step = "loaded"
      BY <1>4, <2>2 DEF LoadFits, Counting
    <3>. QED
      BY <3>1 DEF RequestFits
  <2>. QED
    BY <1>5, <2>1, <2>2
<1>. QED
  BY <1>1, <1>2, <1>6 DEF DraftInv, PlanSentFits

\* The API dies between two steps.
LEMMA CrashKeepsFit ==
  ASSUME DraftInv, Crash
  PROVE  DraftInv'
<1>1. /\ UNCHANGED <<db, overview, list, draft>> /\ command' = Waiting /\ PlanSentFits
      /\ \/ sent # None /\ sent' = [sent EXCEPT !.step = "refused"]
         \/ UNCHANGED sent
  BY DEF Crash, DraftInv
<1>2. PlanSentFits'
  <2>1. CASE sent # None /\ sent' = [sent EXCEPT !.step = "refused"]
    BY <1>1, <2>1, SentStepsFit
  <2>2. CASE UNCHANGED sent
    BY <1>1, <2>2 DEF PlanSentFits
  <2>. QED
    BY <1>1, <2>1, <2>2
<1>. QED
  BY <1>1, <1>2 DEF DraftInv, DbShape, DbFits, RequestFits, Waiting

\* The first rows and rules fit.
LEMMA DraftInitially ==
  ASSUME Init
  PROVE  DraftInv
<1>1. PICK phase, pool, first, last : /\ phase = <<"phase", 1>> /\ pool = <<"pool", 2>>
                                      /\ first = <<"match", 3>> /\ last = <<"match", 4>>
  OBVIOUS
<1>2. PICK rows, rules :
        /\ rows = phase :> Row(Division, NewName) @@ pool :> Row(phase, NewName)
                    @@ first :> Row(pool, NewName) @@ last :> Row(pool, NewName)
        /\ rules = {[from |-> first, place |-> 1, to |-> last, slot |-> 1],
                    [from |-> pool, place |-> 2, to |-> last, slot |-> 2]}
  OBVIOUS
<1>3. PICK seats : db = [rows |-> rows, rules |-> rules, version |-> 0, next |-> 4, seats |-> seats]
  BY <1>1, <1>2 DEF Init
<1>4. RowsFit(rows)
  <2>1. /\ phase \in Stored /\ pool \in Stored /\ first \in Stored /\ last \in Stored
        /\ phase \in NodeRef /\ pool \in NodeRef
    BY <1>1 DEF Stored, NodeRef, Kinds
  <2>2. /\ HangsFrom(phase, Division) /\ HangsFrom(pool, phase)
        /\ HangsFrom(first, pool) /\ HangsFrom(last, pool)
    BY <1>1, <2>1 DEF HangsFrom, Kind, ParentKind
  <2>3. ~Pending(Division) /\ ~Pending(phase) /\ ~Pending(pool)
    BY <1>1 DEF Pending, Division
  <2>4. /\ RowFits(phase, Row(Division, NewName)) /\ RowFits(pool, Row(phase, NewName))
        /\ RowFits(first, Row(pool, NewName)) /\ RowFits(last, Row(pool, NewName))
    BY <2>1, <2>2, <2>3, SuggestedFits
  <2>5. PICK a, b, c, d : /\ a = Row(Division, NewName) /\ b = Row(phase, NewName)
                          /\ c = Row(pool, NewName) /\ d = Row(pool, NewName)
    OBVIOUS
  <2>6. PICK f, g, h, i : f = phase :> a /\ g = pool :> b /\ h = first :> c /\ i = last :> d
    OBVIOUS
  <2>7. RowsFit(f) /\ RowsFit(g) /\ RowsFit(h) /\ RowsFit(i)
    BY <2>4, <2>5, <2>6, OneFits
  <2>8. rows = f @@ g @@ h @@ i
    BY <1>2, <2>5, <2>6
  <2>9. RowsFit(f @@ g @@ h @@ i)
    BY <2>7, BothFit
  <2>. QED
    BY <2>8, <2>9
<1>5. RulesFit(rules)
  BY <1>1, <1>2 DEF RulesFit, Ends, Routable
<1>6. DbShape /\ DbFits
  BY <1>3, <1>4, <1>5 DEF DbShape, DbFits
<1>7. ReadFits(overview) /\ ReadFits(list)
  BY <1>6, ReadsFit DEF Init
<1>8. DraftFits(draft) /\ RequestFits /\ PlanSentFits
  BY EmptyFits DEF Init, RequestFits, Waiting, PlanSentFits
<1>. QED
  BY <1>6, <1>7, <1>8 DEF DraftInv

LEMMA DraftAlways == Spec => []DraftInv
<1>1. DraftInv /\ [Next]_vars => DraftInv'
  <2>1. ASSUME DraftInv, UNCHANGED vars PROVE DraftInv'
    BY <2>1 DEF vars, DraftInv, DbShape, DbFits, RequestFits, PlanSentFits
  <2>. QED
    BY <2>1, PageKeepsFit, CheckKeepsFit, ApplyKeepsFit, CommandsKeepFit, SaveKeepsFit,
       BumpKeepsFit, CrashKeepsFit DEF Next
<1>2. Init => DraftInv
  BY DraftInitially
<1>. QED
  BY <1>1, <1>2, PTL DEF Spec

-----------------------------------------------------------------------------
(* The theorem.                                                            *)

\* For any names and entrants, and after any edits, reads, plans and commands:
\* a draft that may be committed becomes a plan the API's validation accepts,
\* if the page sees what the draft speaks of, nothing it sees has come under a
\* row the draft removes, and no route leads from a node to itself.
THEOREM EditsMakeValidPlans == Spec => []PlansAreValid
<1>1. DraftInv => PlansAreValid
  <2>1. DraftInv => PageFits
    BY DEF DraftInv, PageFits
  <2>. QED
    BY <2>1, FitDraftsAreValid
<1>. QED
  BY <1>1, DraftAlways, PTL

=============================================================================
