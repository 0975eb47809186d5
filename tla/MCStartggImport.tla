-------------------------- MODULE MCStartggImport --------------------------
(* An instance of StartggImport for TLC: one player, known by hand, and a   *)
(* team; an event that at first has no phases, then a set, and then a set   *)
(* its winner plays, in a second phase, or a set outside every pool.        *)
EXTENDS StartggImport

MCParty == [e \in {1, 2, 3} |-> CASE e = 1 -> <<1>> [] e = 2 -> <<2, 3>> [] e = 3 -> <<4>>]
MCRegistered == <<1>>

Fixed(e) == [entrant |-> e, from |-> None]
FedBy(kind, id) == [entrant |-> None, from |-> [kind |-> kind, id |-> id, placement |-> 1]]
ASet(id, group, phase, one, two) == [id |-> id, group |-> group, phase |-> phase, slots |-> <<one, two>>]
AGroup(id, sets) == [id |-> id, sets |-> sets]
APhase(id, seeds, groups) == [id |-> id, seeds |-> seeds, groups |-> groups]
Opening == ASet(1, 1, 1, Fixed(1), Fixed(2))

Announced == [entrants |-> <<2>>, phases |-> <<>>, progressions |-> {}]
OneSet == [entrants |-> <<1, 2>>, phases |-> <<APhase(1, <<2, 1>>, <<AGroup(1, <<Opening>>)>>)>>, progressions |-> {}]
TwoPhases ==
  [entrants |-> <<1, 2, 3>>,
   phases |-> <<APhase(1, <<2>>, <<AGroup(1, <<Opening>>)>>),
                APhase(2, <<3>>, <<AGroup(2, <<ASet(2, 2, 2, FedBy("match", 1), Fixed(3))>>)>>)>>,
   progressions |-> {}]
Loose ==
  [entrants |-> <<1, 2>>,
   phases |-> <<APhase(3, <<>>, <<>>), APhase(1, <<1, 2>>, <<AGroup(1, <<Opening>>)>>),
                APhase(2, <<>>, <<AGroup(2, <<ASet(3, None, 4, FedBy("pool", 1), FedBy("match", 9))>>)>>)>>,
   progressions |-> {[from |-> 1, placement |-> 1, to |-> 2, slot |-> 1], [from |-> 8, placement |-> 1, to |-> 2, slot |-> 2]}]
MCFirstEvents == {Announced, OneSet}
MCEvents == {Announced, OneSet, TwoPhases, Loose}
=============================================================================
