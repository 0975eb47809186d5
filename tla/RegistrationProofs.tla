------------------------- MODULE RegistrationProofs -------------------------
(***************************************************************************)
(* For any names, accounts and divisions and however often a request is    *)
(* cut short: the three ways to ask who may edit agree, the entrants stand *)
(* for participants one to one, and typing a name makes no player twice.   *)
(***************************************************************************)
EXTENDS Registration, FiniteSetTheorems, TLAPS

-----------------------------------------------------------------------------
(* Sets as sequences.                                                      *)

LEMMA SetToSeqFacts ==
    ASSUME NEW S, IsFiniteSet(S)
    PROVE  /\ SetToSeq(S) \in Seq(S) /\ Len(SetToSeq(S)) = Cardinality(S)
           /\ Cardinality(S) \in Nat
           /\ \A i, j \in 1..Cardinality(S) : SetToSeq(S)[i] = SetToSeq(S)[j] => i = j
<1>1. Cardinality(S) \in Nat /\ ExistsBijection(1..Cardinality(S), S)
  BY FS_CardinalityType
<1>2. \E f \in [1..Cardinality(S) -> S] : IsInjective(f)
  BY <1>1 DEF ExistsBijection, Bijection, Injection
<1>3. SetToSeq(S) \in [1..Cardinality(S) -> S] /\ IsInjective(SetToSeq(S))
  BY <1>2 DEF SetToSeq
<1>4. SetToSeq(S) \in Seq(S) /\ Len(SetToSeq(S)) = Cardinality(S)
  BY <1>1, <1>3
<1> QED BY <1>1, <1>3, <1>4 DEF IsInjective

LEMMA ConcatFacts ==
    ASSUME NEW S, NEW s \in Seq(S), NEW t \in Seq(S)
    PROVE  /\ s \o t \in Seq(S) /\ Len(s \o t) = Len(s) + Len(t)
           /\ Len(s) \in Nat /\ Len(t) \in Nat
           /\ \A i \in 1..Len(s) : (s \o t)[i] = s[i]
           /\ \A i \in Len(s) + 1 .. Len(s) + Len(t) :
                 i - Len(s) \in 1..Len(t) /\ (s \o t)[i] = t[i - Len(s)]
OBVIOUS

\* What is pasted is finitely many names.
LEMMA ListsAreFinite ==
    ASSUME NEW list \in Lists
    PROVE  /\ TypedNames(list) \subseteq Typed /\ IsFiniteSet(TypedNames(list))
           /\ DistinctNames(list) \subseteq TypedNames(list)
           /\ IsFiniteSet(DistinctNames(list))
<1>1. list \in Seq(Typed)
  BY NamesAssumption
<1>2. DOMAIN list = 1..Len(list) /\ Len(list) \in Nat /\ TypedNames(list) \subseteq Typed
  BY <1>1 DEF TypedNames
<1>3. IsFiniteSet(DOMAIN list)
  BY <1>2, FS_Interval
<1>4. list \in Surjection(DOMAIN list, TypedNames(list))
  <2>1. list \in [DOMAIN list -> TypedNames(list)]
    BY <1>1, <1>2 DEF TypedNames
  <2> QED BY <2>1 DEF Surjection, TypedNames
<1>5. IsFiniteSet(TypedNames(list))
  BY <1>3, <1>4, FS_Surjection DEF ExistsSurjection
<1>6. DistinctNames(list) \subseteq TypedNames(list)
  BY <1>1 DEF DistinctNames, TypedNames
<1> QED BY <1>2, <1>5, <1>6, FS_Subset

-----------------------------------------------------------------------------
(* What the commands make of participants and entrants.                    *)

\* One entrant per player who has none yet, everybody else where they were.
LEMMA AdmitAllFacts ==
    ASSUME TypeOK, NEW d \in Divisions, NEW found, found \subseteq DOMAIN players,
           NEW all, all = AdmitAll(d, found)
    PROVE  /\ all \in Seq(Entrant)
           /\ Len(entrants) \in Nat /\ Len(all) \in Nat /\ Len(entrants) <= Len(all)
           /\ \A e \in 1..Len(entrants) :
                 /\ all[e].division = entrants[e].division /\ all[e].of = entrants[e].of
                 /\ all[e].active => entrants[e].active \/ \E p \in found : e \in EntrantsOf(d, p)
           /\ \A e \in Len(entrants) + 1 .. Len(all) :
                 \E p \in found : EntrantsOf(d, p) = {} /\ all[e].division = d /\ all[e].of = {p}
           /\ \A e, f \in Len(entrants) + 1 .. Len(all) : all[e].of = all[f].of => e = f
<1> DEFINE none == {p \in found : EntrantsOf(d, p) = {}}
           new == SetToSeq(none)
           isBack(e) == \E p \in found : e \in EntrantsOf(d, p)
           old == [e \in DOMAIN entrants |-> [entrants[e] EXCEPT !.active = @ \/ isBack(e)]]
           added == [k \in DOMAIN new |-> [division |-> d, of |-> {new[k]}, active |-> TRUE]]
<1>1. all = old \o added
  BY DEF AdmitAll
<1>2. none \subseteq found /\ none \subseteq Nat /\ IsFiniteSet(none)
  <2>1. DOMAIN players = 1..Len(players) /\ Len(players) \in Nat
    BY DEF TypeOK
  <2>2. IsFiniteSet(1..Len(players)) /\ none \subseteq 1..Len(players)
    BY <2>1, FS_Interval
  <2> QED BY <2>1, <2>2, FS_Subset
<1>3. \A p \in none : p \in found /\ EntrantsOf(d, p) = {}
  OBVIOUS
<1>4. entrants \in Seq(Entrant) /\ DOMAIN entrants = 1..Len(entrants) /\ Len(entrants) \in Nat
  BY DEF TypeOK
<1>5. \A e \in 1..Len(entrants) : old[e] = [entrants[e] EXCEPT !.active = @ \/ isBack(e)]
  BY <1>4
<1>6. DOMAIN old = 1..Len(entrants) /\ old = [e \in 1..Len(entrants) |-> old[e]]
  BY <1>4
<1>7. /\ added = [k \in DOMAIN new |-> added[k]]
      /\ \A k \in DOMAIN new : added[k] = [division |-> d, of |-> {new[k]}, active |-> TRUE]
  OBVIOUS
<1> HIDE DEF none, old, added
<1>8. /\ new \in Seq(none) /\ DOMAIN new = 1..Len(new) /\ Len(new) \in Nat
      /\ \A i, j \in DOMAIN new : new[i] = new[j] => i = j
  BY <1>2, SetToSeqFacts
<1> HIDE DEF new
<1>9. \A e \in 1..Len(entrants) :
          /\ old[e].division = entrants[e].division /\ old[e].of = entrants[e].of
          /\ old[e].active => entrants[e].active \/ isBack(e)
          /\ old[e] \in Entrant
  <2> SUFFICES ASSUME NEW e \in 1..Len(entrants)
               PROVE  /\ old[e].division = entrants[e].division /\ old[e].of = entrants[e].of
                      /\ old[e].active => entrants[e].active \/ isBack(e)
                      /\ old[e] \in Entrant
    OBVIOUS
  <2>1. entrants[e] \in Entrant
    BY <1>4
  <2>2. isBack(e) \in BOOLEAN
    OBVIOUS
  <2> HIDE DEF isBack
  <2> QED BY <1>5, <2>1, <2>2 DEF Entrant
<1>10. old \in Seq(Entrant) /\ Len(old) = Len(entrants)
  <2>1. old \in [1..Len(entrants) -> Entrant]
    BY <1>6, <1>9
  <2> QED BY <2>1, <1>4, <1>6
<1>11. \A k \in 1..Len(new) : new[k] \in none
  BY <1>8
<1>12. added \in Seq(Entrant) /\ Len(added) = Len(new)
  <2>1. \A k \in 1..Len(new) : added[k] \in Entrant
    <3> SUFFICES ASSUME NEW k \in 1..Len(new) PROVE added[k] \in Entrant
      OBVIOUS
    <3>1. {new[k]} \in SUBSET Nat
      BY <1>2, <1>11
    <3>2. added[k] = [division |-> d, of |-> {new[k]}, active |-> TRUE]
      BY <1>7, <1>8
    <3> QED BY <3>1, <3>2 DEF Entrant
  <2>2. added \in [1..Len(new) -> Entrant]
    BY <2>1, <1>7, <1>8
  <2> QED BY <2>2, <1>8
<1>13. /\ all \in Seq(Entrant) /\ Len(all) = Len(entrants) + Len(new)
       /\ \A e \in 1..Len(entrants) : all[e] = old[e]
       /\ \A e \in Len(entrants) + 1 .. Len(entrants) + Len(new) :
             e - Len(entrants) \in 1..Len(new) /\ all[e] = added[e - Len(entrants)]
  <2>1. /\ all \in Seq(Entrant) /\ Len(all) = Len(old) + Len(added)
        /\ \A e \in 1..Len(old) : all[e] = old[e]
        /\ \A e \in Len(old) + 1 .. Len(old) + Len(added) :
              e - Len(old) \in 1..Len(added) /\ all[e] = added[e - Len(old)]
    <3> DEFINE whole == old \o added
    <3>1. /\ whole \in Seq(Entrant) /\ Len(whole) = Len(old) + Len(added)
          /\ \A e \in 1..Len(old) : whole[e] = old[e]
          /\ \A e \in Len(old) + 1 .. Len(old) + Len(added) :
                e - Len(old) \in 1..Len(added) /\ whole[e] = added[e - Len(old)]
      BY ZenonT(40), <1>10, <1>12, ConcatFacts
    <3>2. all = whole
      BY <1>1
    <3> HIDE DEF whole
    <3> QED BY <3>1, <3>2
  <2> QED BY <2>1, <1>10, <1>12
<1>14. \A e \in Len(entrants) + 1 .. Len(all) :
           \E p \in found : EntrantsOf(d, p) = {} /\ all[e].division = d /\ all[e].of = {p}
  <2> SUFFICES ASSUME NEW e \in Len(entrants) + 1 .. Len(all)
               PROVE  \E p \in found :
                          EntrantsOf(d, p) = {} /\ all[e].division = d /\ all[e].of = {p}
    OBVIOUS
  <2> DEFINE k == e - Len(entrants)
  <2>1. k \in 1..Len(new) /\ all[e] = added[k]
    BY <1>13
  <2> HIDE DEF k
  <2>2. new[k] \in found /\ EntrantsOf(d, new[k]) = {}
    BY <2>1, <1>3, <1>11
  <2>3. all[e] = [division |-> d, of |-> {new[k]}, active |-> TRUE]
    BY <2>1, <1>7, <1>8
  <2> QED BY <2>2, <2>3
<1>15. \A e, f \in Len(entrants) + 1 .. Len(all) : all[e].of = all[f].of => e = f
  <2> SUFFICES ASSUME NEW e \in Len(entrants) + 1 .. Len(all),
                      NEW f \in Len(entrants) + 1 .. Len(all),
                      all[e].of = all[f].of
               PROVE  e = f
    OBVIOUS
  <2> DEFINE k == e - Len(entrants)
             h == f - Len(entrants)
  <2>1. k \in 1..Len(new) /\ all[e] = added[k] /\ h \in 1..Len(new) /\ all[f] = added[h]
    BY <1>13
  <2> HIDE DEF k, h
  <2>2. all[e].of = {new[k]} /\ all[f].of = {new[h]}
    BY <2>1, <1>7, <1>8
  <2>3. k = h
    BY <2>1, <2>2, <1>8
  <2> QED BY <2>3, <1>4, <1>13 DEF k, h
<1>16. \A e \in 1..Len(entrants) :
           /\ all[e].division = entrants[e].division /\ all[e].of = entrants[e].of
           /\ all[e].active => entrants[e].active \/ \E p \in found : e \in EntrantsOf(d, p)
  BY <1>9, <1>13
<1>17. Len(all) \in Nat /\ Len(entrants) <= Len(all)
  BY <1>4, <1>8, <1>13
<1> QED BY <1>4, <1>13, <1>14, <1>15, <1>16, <1>17

LEMMA WithdrawnFacts ==
    ASSUME TypeOK, NEW d \in Divisions, NEW p
    PROVE  /\ Withdrawn(d, p) \in Seq(Entrant) /\ DOMAIN Withdrawn(d, p) = DOMAIN entrants
           /\ \A e \in DOMAIN entrants :
                 /\ Withdrawn(d, p)[e].division = entrants[e].division
                 /\ Withdrawn(d, p)[e].of = entrants[e].of
                 /\ Withdrawn(d, p)[e].active => entrants[e].active
           /\ (\A e, f \in EntrantsOf(d, p) : e = f) =>
                 \A e \in EntrantsOf(d, p) : ~Withdrawn(d, p)[e].active
<1>1. CASE EntrantsOf(d, p) = {}
  BY <1>1 DEF Withdrawn, TypeOK
<1>2. CASE EntrantsOf(d, p) # {}
  <2> DEFINE e0 == CHOOSE e \in EntrantsOf(d, p) : TRUE
  <2>1. e0 \in EntrantsOf(d, p) /\ e0 \in DOMAIN entrants
    BY <1>2 DEF EntrantsOf
  <2>2. Withdrawn(d, p) = [entrants EXCEPT ![e0] = [entrants[e0] EXCEPT !.active = FALSE]]
    BY <1>2 DEF Withdrawn
  <2> HIDE DEF e0
  <2>3. entrants \in Seq(Entrant) /\ entrants[e0] \in Entrant
    BY <2>1 DEF TypeOK
  <2>4. /\ [entrants[e0] EXCEPT !.active = FALSE] \in Entrant
        /\ [entrants[e0] EXCEPT !.active = FALSE].division = entrants[e0].division
        /\ [entrants[e0] EXCEPT !.active = FALSE].of = entrants[e0].of
        /\ [entrants[e0] EXCEPT !.active = FALSE].active = FALSE
    BY <2>3 DEF Entrant
  <2> QED BY <2>1, <2>2, <2>3, <2>4
<1> QED BY <1>1, <1>2

-----------------------------------------------------------------------------
(* Types.                                                                  *)

\* A request is what its step says.
LEMMA JobShapes ==
    ASSUME TypeOK
    PROVE  /\ job.step \in {"make", "register", "admit"} => job \in Registrations
           /\ job.step \in {"withdraw", "unregister"} => job \in Removals
           /\ job.step \in {"player", "save", "create"} => job \in Accountings
<1>1. Idle.step = "idle"
  BY DEF Idle
<1>2. /\ \A j \in Registrations : j.step \in {"make", "register", "admit"}
      /\ \A j \in Removals : j.step \in {"withdraw", "unregister"}
      /\ \A j \in Accountings : j.step \in {"player", "save", "create"}
  BY DEF Registrations, Removals, Accountings
<1> QED BY <1>1, <1>2 DEF TypeOK

\* Registering is asked for with known players and finitely many names.
LEMMA RegisteringTypes ==
    ASSUME TypeOK, UNCHANGED <<players, playerOf, tournament, participants, entrants,
                               preview, crashes>>,
           NEW kind \in {"typed", "chosen", "import"},
           NEW names \in SUBSET Typed, IsFiniteSet(names),
           NEW found \in SUBSET DOMAIN players,
           NEW division \in Divisions \union {None},
           Registering(kind, names, found, division)
    PROVE  TypeOK'
<1>1. job' \in Registrations' /\ job'.step \in {"make", "register"} /\ job'.names = names
  BY DEF Registering, Registrations
<1>2. UNCHANGED <<Registrations, Removals, Accountings>>
  BY DEF Registrations, Removals, Accountings
<1> QED BY <1>1, <1>2 DEF TypeOK, Registered

LEMMA FoundAreKnown ==
    ASSUME NEW names, NEW found \in Found(names) PROVE found \in SUBSET DOMAIN players
<1> PICK f \in [names \ Unknown(names) -> DOMAIN players] :
        found = {f[n] : n \in names \ Unknown(names)}
  BY DEF Found
<1> QED OBVIOUS

LEMMA UnknownAreFinite ==
    ASSUME NEW names \in SUBSET Typed, IsFiniteSet(names)
    PROVE  Unknown(names) \in SUBSET Typed /\ IsFiniteSet(Unknown(names))
<1>1. Unknown(names) \subseteq names
  BY DEF Unknown
<1> QED BY <1>1, FS_Subset

\* Of the requests.
LEMMA AskTypes == TypeOK /\ Ask => TypeOK'
<1> SUFFICES ASSUME TypeOK, Ask PROVE TypeOK'
  OBVIOUS
<1>0. None \notin Divisions /\ IsFiniteSet({}) /\ \A n : IsFiniteSet({n})
  BY NamesAssumption, FS_EmptySet, FS_Singleton
<1>1. CASE AskRegister
  <2>1. ASSUME NEW name \in Typed, NEW found \in Found({name}),
               Registering("typed", Unknown({name}), found, None)
        PROVE  TypeOK'
    BY <1>0, <1>1, <2>1, FoundAreKnown, UnknownAreFinite, RegisteringTypes DEF AskRegister
  <2>2. ASSUME NEW p \in DOMAIN players, Registering("chosen", {}, {p}, None) PROVE TypeOK'
    BY <1>0, <1>1, <2>2, RegisteringTypes DEF AskRegister
  <2> QED BY <1>1, <2>1, <2>2 DEF AskRegister
<1>2. CASE AskBulk
  <2> PICK list \in Lists, d \in Divisions : \E found \in Found(DistinctNames(list)) :
          Registering("typed", Unknown(DistinctNames(list)), found, d)
    BY <1>2 DEF AskBulk
  <2>1. DistinctNames(list) \in SUBSET Typed /\ IsFiniteSet(DistinctNames(list))
    BY ListsAreFinite
  <2> QED BY <1>2, <2>1, FoundAreKnown, UnknownAreFinite, RegisteringTypes DEF AskBulk
<1>3. CASE AskAssign
  BY <1>0, <1>3, RegisteringTypes DEF AskAssign
<1>4. CASE AskPreview
  <2> PICK list \in Lists : preview' =
          [names |-> Unknown(TypedNames(list)),
           found |-> UNION {Known(n) : n \in TypedNames(list)} \ Registered]
    BY <1>4 DEF AskPreview
  <2>1. Unknown(TypedNames(list)) \in SUBSET Typed /\ IsFiniteSet(Unknown(TypedNames(list)))
    BY ListsAreFinite, UnknownAreFinite
  <2>2. UNION {Known(n) : n \in TypedNames(list)} \ Registered \in SUBSET DOMAIN players
    BY DEF Known
  <2>3. UNCHANGED <<Registrations, Removals, Accountings>>
    BY <1>4 DEF Registrations, Removals, Accountings, AskPreview
  <2> QED BY <1>4, <2>1, <2>2, <2>3 DEF AskPreview, TypeOK, Registered
<1>5. CASE AskImport
  <2>1. preview.names \in SUBSET Typed /\ preview.found \in SUBSET DOMAIN players
    BY DEF TypeOK
  <2> QED BY <1>5, <2>1, RegisteringTypes DEF AskImport, TypeOK
<1>6. CASE AskRemove
  <2>1. job' \in Removals' /\ job'.step \in {"withdraw", "unregister"}
    BY <1>6 DEF AskRemove, Removals, DivisionsOf, TypeOK
  <2>2. UNCHANGED <<Registrations, Removals, Accountings>>
    BY <1>6 DEF Registrations, Removals, Accountings, AskRemove
  <2> QED BY <1>6, <2>1, <2>2 DEF AskRemove, TypeOK, Registered
<1>7. CASE AskAccount
  <2>1. job' \in Accountings' /\ job'.step = "player"
    BY <1>7, NamesAssumption DEF AskAccount, Accountings
  <2>2. UNCHANGED <<Registrations, Removals, Accountings>>
    BY <1>7 DEF Registrations, Removals, Accountings, AskAccount
  <2> QED BY <1>7, <2>1, <2>2 DEF AskAccount, TypeOK, Registered
<1>8. CASE AskTournament
  <2>1. /\ job' \in Accountings' /\ job'.step \in {"player", "create"}
        /\ job'.step = "create" => playerOf[job'.owner] \in DOMAIN players
    <3> PICK a \in Accounts :
            /\ playerOf[a] # NoAccount
            /\ job' = [step |-> IF playerOf[a] = NoPlayer THEN "player" ELSE "create",
                       kind |-> "create", owner |-> a, name |-> Username(a)]
      BY <1>8 DEF AskTournament
    <3>1. playerOf[a] # NoPlayer => playerOf[a] \in DOMAIN players
      BY DEF TypeOK, NoPlayer, NoAccount
    <3> QED BY <3>1, NamesAssumption DEF Accountings
  <2>2. UNCHANGED <<Registrations, Removals, Accountings>>
    BY <1>8 DEF Registrations, Removals, Accountings, AskTournament
  <2> QED BY <1>8, <2>1, <2>2 DEF AskTournament, TypeOK, Registered
<1>9. CASE GrantStaff
  <2> PICK p \in Registered : participants' = [participants EXCEPT
          ![p] = [account |-> AccountFor(p), roles |-> MergeRoles(@.roles, {"staff"})]]
    BY <1>9 DEF GrantStaff
  <2>1. participants[p] \in Participant
    BY DEF TypeOK
  <2>2. AccountFor(p) \in Accounts \union {None}
    BY <2>1 DEF AccountFor, Participant
  <2>3. MergeRoles(participants[p].roles, {"staff"}) \in SUBSET Roles
    BY <2>1 DEF MergeRoles, Participant, Roles
  <2>4. participants' \in [Registered' -> Participant] /\ Registered' = Registered
    BY <2>2, <2>3 DEF TypeOK, Registered, Participant
  <2>5. UNCHANGED <<Registrations, Removals, Accountings>>
    BY <1>9 DEF Registrations, Removals, Accountings, GrantStaff
  <2> QED BY <1>9, <2>4, <2>5 DEF GrantStaff, TypeOK
<1>10. CASE RevokeStaff
  <2> PICK p \in Registered : participants' = [participants EXCEPT ![p].roles =
              IF @ \subseteq {"staff"} THEN {"unknown"} ELSE @ \ {"staff"}]
    BY <1>10 DEF RevokeStaff
  <2> DEFINE new == IF participants[p].roles \subseteq {"staff"} THEN {"unknown"}
                    ELSE participants[p].roles \ {"staff"}
  <2>1. participants[p] \in Participant
    BY DEF TypeOK
  <2>2. new \in SUBSET Roles
    BY <2>1 DEF Participant, Roles
  <2>3. participants' = [participants EXCEPT ![p] = [participants[p] EXCEPT !.roles = new]]
    OBVIOUS
  <2> HIDE DEF new
  <2>4. [participants[p] EXCEPT !.roles = new] \in Participant
    BY <2>1, <2>2 DEF Participant
  <2>5. participants' \in [Registered' -> Participant] /\ Registered' = Registered
    BY <2>3, <2>4 DEF TypeOK, Registered
  <2>6. UNCHANGED <<Registrations, Removals, Accountings>>
    BY <1>10 DEF Registrations, Removals, Accountings, RevokeStaff
  <2> QED BY <1>10, <2>5, <2>6 DEF RevokeStaff, TypeOK
<1>11. CASE AddParticipants
  <2>1. entrants' \in Seq(Entrant)
    BY <1>11, AdmitAllFacts DEF AddParticipants, TypeOK
  <2>2. UNCHANGED <<Registrations, Removals, Accountings>>
    BY <1>11 DEF Registrations, Removals, Accountings, AddParticipants
  <2> QED BY <1>11, <2>1, <2>2 DEF AddParticipants, TypeOK, Registered
<1>12. CASE RemoveParticipant
  <2>1. entrants' \in Seq(Entrant)
    BY <1>12, WithdrawnFacts DEF RemoveParticipant
  <2>2. UNCHANGED <<Registrations, Removals, Accountings>>
    BY <1>12 DEF Registrations, Removals, Accountings, RemoveParticipant
  <2> QED BY <1>12, <2>1, <2>2 DEF RemoveParticipant, TypeOK, Registered
<1>13. CASE Rename
  <2>1. /\ players' \in Seq(Typed) /\ Len(players') = Len(players)
        /\ DOMAIN players' = DOMAIN players
        /\ players # <<>> => players' # <<>>
    <3> PICK a \in Accounts, name \in Typed :
            /\ playerOf[a] \notin {NoAccount, NoPlayer}
            /\ players' = [players EXCEPT ![playerOf[a]] = name]
      BY <1>13 DEF Rename
    <3>1. playerOf[a] \in 1..Len(players) /\ players \in Seq(Typed)
      BY DEF TypeOK, NoPlayer, NoAccount
    <3> QED BY <3>1
  <2>2. UNCHANGED <<Registrations, Removals, Accountings>>
    BY <1>13, <2>1 DEF Registrations, Removals, Accountings
  <2> QED BY <1>13, <2>1, <2>2 DEF Rename, TypeOK, Registered
<1>14. CASE CloseOrReopen
  <2>1. UNCHANGED <<Registrations, Removals, Accountings>>
    BY <1>14 DEF Registrations, Removals, Accountings, CloseOrReopen
  <2> QED BY <1>14, <2>1 DEF CloseOrReopen, TypeOK, Registered
<1> QED
  BY <1>1, <1>2, <1>3, <1>4, <1>5, <1>6, <1>7, <1>8, <1>9, <1>10, <1>11, <1>12, <1>13, <1>14
     DEF Ask

\* Of their saves.
LEMMA SaveTypes == TypeOK /\ Save => TypeOK'
<1> SUFFICES ASSUME TypeOK, Save PROVE TypeOK'
  OBVIOUS
<1>1. CASE MakePlayers
  <2> DEFINE new == SetToSeq(job.names)
  <2>1. job \in Registrations /\ IsFiniteSet(job.names) /\ job.names \subseteq Typed
    BY <1>1, JobShapes DEF MakePlayers, TypeOK, Registrations
  <2>2. new \in Seq(job.names) /\ new \in Seq(Typed)
    BY <2>1, SetToSeqFacts
  <2> HIDE DEF new
  <2>3. /\ players' = players \o new
        /\ job' = [job EXCEPT !.step = "register",
                              !.found = @ \union (Len(players) + 1 .. Len(players'))]
    BY <1>1 DEF MakePlayers, new
  <2>4. players \in Seq(Typed) /\ DOMAIN players = 1..Len(players) /\ Len(players) \in Nat
    BY DEF TypeOK
  <2>5. /\ players' \in Seq(Typed) /\ DOMAIN players' = 1..Len(players')
        /\ Len(players') \in Nat /\ Len(players) <= Len(players')
    BY <2>2, <2>3, <2>4, ConcatFacts
  <2>6. DOMAIN players \subseteq DOMAIN players'
    BY <2>4, <2>5
  <2>7. job.found \union (Len(players) + 1 .. Len(players')) \in SUBSET DOMAIN players'
    BY <2>1, <2>4, <2>5, <2>6 DEF Registrations
  <2>8. job' \in Registrations' /\ job'.step = "register"
    BY <2>1, <2>3, <2>7 DEF Registrations
  <2>9. playerOf' \in [Accounts -> {NoAccount} \union (0..Len(players'))]
    <3>1. playerOf' = playerOf /\ playerOf \in [Accounts -> {NoAccount} \union (0..Len(players))]
      BY <1>1 DEF MakePlayers, TypeOK
    <3>2. 0..Len(players) \subseteq 0..Len(players')
      BY <2>4, <2>5
    <3> QED BY <3>1, <3>2
  <2>10. preview' \in [names : SUBSET Typed, found : SUBSET DOMAIN players']
    BY <1>1, <2>6 DEF MakePlayers, TypeOK
  <2> QED BY <1>1, <2>5, <2>6, <2>8, <2>9, <2>10 DEF MakePlayers, TypeOK, Registered
<1>2. CASE SaveParticipants
  <2>1. job \in Registrations
    BY <1>2, JobShapes DEF SaveParticipants
  <2>2. UNCHANGED <<players, Registrations, Removals, Accountings>>
    BY <1>2 DEF Registrations, Removals, Accountings, SaveParticipants
  <2>3. job.found \subseteq DOMAIN players
    BY <2>1 DEF Registrations
  <2>4. /\ Registered' = Registered \union job.found
        /\ participants' \in [Registered' -> Participant]
    <3>1. participants' = RegisterAll(job.found)
      BY <1>2 DEF SaveParticipants
    <3>2. Registered' = Registered \union job.found
      BY <3>1 DEF RegisterAll, Registered
    <3>3. ASSUME NEW p \in Registered \union job.found
          PROVE  RegisterAll(job.found)[p] \in Participant
      <4>1. CASE p \notin Registered
        BY <3>3, <4>1 DEF RegisterAll, Participant, Roles
      <4>2. CASE p \in Registered
        <5>1. participants[p] \in Participant
          BY <4>2 DEF TypeOK
        <5>2. MergeRoles(participants[p].roles, {"competitor"}) \in SUBSET Roles
          BY <5>1 DEF MergeRoles, Participant, Roles
        <5>3. [participants[p] EXCEPT !.roles = MergeRoles(@, {"competitor"})] \in Participant
          BY <5>1, <5>2 DEF Participant
        <5> QED BY <3>3, <4>2, <5>1, <5>3 DEF RegisterAll
      <4> QED BY <4>1, <4>2
    <3> QED BY <3>1, <3>2, <3>3 DEF RegisterAll
  <2>5. job' \in {Idle} \union Registrations /\ job'.step \in {"idle", "admit"}
    <3>1. [job EXCEPT !.step = "admit"] \in Registrations
      BY <2>1 DEF Registrations
    <3>2. [job EXCEPT !.step = "admit"].step = "admit" /\ Idle.step = "idle"
      BY <2>1 DEF Registrations, Idle
    <3> QED BY <1>2, <3>1, <3>2 DEF SaveParticipants
  <2>6. job'.step = "admit" => job'.division \in Divisions
    <3>1. job.division \in Divisions \union {None} /\ Idle.step # "admit"
      BY <2>1 DEF Registrations, Idle
    <3>2. [job EXCEPT !.step = "admit"].division = job.division
      BY <2>1 DEF Registrations
    <3> QED BY <1>2, <3>1, <3>2 DEF SaveParticipants
  <2>7. /\ preview' \in [names : SUBSET Typed, found : SUBSET DOMAIN players']
        /\ IsFiniteSet(preview'.names)
    BY <1>2, <2>2, FS_EmptySet DEF SaveParticipants, TypeOK, NoPreview
  <2> QED BY <1>2, <2>2, <2>3, <2>4, <2>5, <2>6, <2>7 DEF SaveParticipants, TypeOK
<1>3. CASE SaveEntrants
  <2>1. job \in Registrations /\ job.division \in Divisions
    BY <1>3, JobShapes DEF SaveEntrants, TypeOK
  <2>2. entrants' \in Seq(Entrant)
    BY <1>3, <2>1, AdmitAllFacts DEF SaveEntrants, Registrations
  <2> QED BY <1>3, <2>2 DEF SaveEntrants, TypeOK, Registered, Idle
<1>4. CASE WithdrawFromNext
  <2> PICK d \in job.left :
          /\ entrants' = Withdrawn(d, job.who)
          /\ job' = [job EXCEPT !.left = @ \ {d},
                                !.step = IF job.left = {d} THEN "unregister" ELSE "withdraw"]
    BY <1>4 DEF WithdrawFromNext
  <2>1. job \in Removals
    BY <1>4, JobShapes DEF WithdrawFromNext
  <2>2. d \in Divisions
    BY <2>1 DEF Removals
  <2>3. entrants' \in Seq(Entrant)
    BY <2>2, WithdrawnFacts
  <2>4. UNCHANGED <<Registrations, Removals, Accountings>>
    BY <1>4 DEF Registrations, Removals, Accountings, WithdrawFromNext
  <2>5. job' \in Removals /\ job'.step \in {"withdraw", "unregister"}
    BY <2>1 DEF Removals
  <2> QED BY <1>4, <2>3, <2>4, <2>5 DEF WithdrawFromNext, TypeOK, Registered
<1>5. CASE Unregister
  <2>1. participants' \in [Registered' -> Participant] /\ Registered' \subseteq Registered
    BY <1>5 DEF Unregister, TypeOK, Registered
  <2>2. entrants' \in Seq(Entrant)
    <3>1. DOMAIN entrants = 1..Len(entrants) /\ Len(entrants) \in Nat
      BY DEF TypeOK
    <3>2. \A e \in DOMAIN entrants : [entrants[e] EXCEPT !.of = @ \ {job.who}] \in Entrant
      <4> SUFFICES ASSUME NEW e \in DOMAIN entrants
                   PROVE  [entrants[e] EXCEPT !.of = @ \ {job.who}] \in Entrant
        OBVIOUS
      <4>1. entrants[e] \in Entrant
        BY DEF TypeOK
      <4> QED BY <4>1 DEF Entrant
    <3>3. entrants' \in [1..Len(entrants) -> Entrant]
      BY <1>5, <3>1, <3>2 DEF Unregister
    <3> QED BY <3>1, <3>3
  <2> QED BY <1>5, <2>1, <2>2 DEF Unregister, TypeOK, Idle
<1>6. CASE SavePlayer
  <2>1. job \in Accountings
    BY <1>6, JobShapes DEF SavePlayer
  <2>2. players \in Seq(Typed) /\ DOMAIN players = 1..Len(players) /\ Len(players) \in Nat
    BY DEF TypeOK
  <2>3. /\ players' \in Seq(Typed) /\ Len(players') = Len(players) + 1
        /\ DOMAIN players' = 1..Len(players') /\ players' # <<>>
    BY <1>6, <2>1, <2>2 DEF SavePlayer, Accountings
  <2>4. DOMAIN players \subseteq DOMAIN players' /\ 0..Len(players) \subseteq 0..Len(players')
    BY <2>2, <2>3
  <2>5. playerOf' \in [Accounts -> {NoAccount} \union (0..Len(players'))]
    BY <1>6, <2>4 DEF SavePlayer, TypeOK
  <2>6. preview' \in [names : SUBSET Typed, found : SUBSET DOMAIN players']
    BY <1>6, <2>4 DEF SavePlayer, TypeOK
  <2>7. job' \in Accountings' /\ job'.step = "save"
    BY <1>6, <2>1 DEF SavePlayer, Accountings
  <2> QED BY <1>6, <2>3, <2>4, <2>5, <2>6, <2>7 DEF SavePlayer, TypeOK, Registered
<1>7. CASE SaveAccount
  <2>1. job \in Accountings
    BY <1>7, JobShapes DEF SaveAccount
  <2>2. Len(players) \in 0..Len(players)
    BY DEF TypeOK
  <2>3. playerOf' \in [Accounts -> {NoAccount} \union (0..Len(players))]
    BY <1>7, <2>2 DEF SaveAccount, TypeOK
  <2>4. UNCHANGED <<Registrations, Removals, Accountings>>
    BY <1>7 DEF Registrations, Removals, Accountings, SaveAccount
  <2>5. job' \in {Idle} \union Accountings /\ job'.step \in {"idle", "create"}
    BY <1>7, <2>1 DEF SaveAccount, Accountings, Idle
  <2>6. job'.step = "create" => playerOf'[job'.owner] \in DOMAIN players
    <3>1. Len(players) \in DOMAIN players
      BY <1>7 DEF SaveAccount, TypeOK
    <3>2. job.owner \in Accounts /\ (job'.step = "create" => job'.owner = job.owner)
      BY <1>7, <2>1 DEF SaveAccount, Accountings, Idle
    <3> QED BY <1>7, <3>1, <3>2 DEF SaveAccount, TypeOK
  <2> QED BY <1>7, <2>3, <2>4, <2>5, <2>6 DEF SaveAccount, TypeOK, Registered
<1>8. CASE SaveTournament
  <2>1. job \in Accountings /\ playerOf[job.owner] \in DOMAIN players
    BY <1>8, JobShapes DEF SaveTournament, TypeOK
  <2>2. Registered' = {playerOf[job.owner]} /\ participants' \in [Registered' -> Participant]
    BY <1>8, <2>1 DEF SaveTournament, Registered, Participant, Accountings, Roles
  <2> QED BY <1>8, <2>1, <2>2 DEF SaveTournament, TypeOK, Idle
<1> QED BY <1>1, <1>2, <1>3, <1>4, <1>5, <1>6, <1>7, <1>8 DEF Save

LEMMA InitTypes == Init => TypeOK
<1> SUFFICES ASSUME Init PROVE TypeOK
  OBVIOUS
<1>1. players = <<>> /\ Len(players) = 0 /\ players \in Seq(Typed)
  BY DEF Init
<1>2. playerOf \in [Accounts -> {NoAccount} \union (0..Len(players))]
  BY <1>1 DEF Init, NoAccount, NoPlayer
<1>3. Registered = {} /\ participants \in [Registered -> Participant]
  BY DEF Init, Registered
<1>4. entrants \in Seq(Entrant) /\ crashes \in Nat /\ tournament = "none"
  BY DEF Init
<1>5. /\ preview \in [names : SUBSET Typed, found : SUBSET DOMAIN players]
      /\ IsFiniteSet(preview.names)
  BY FS_EmptySet DEF Init, NoPreview
<1>6. job = Idle /\ Idle.step = "idle"
  BY DEF Init, Idle
<1> QED BY <1>1, <1>2, <1>3, <1>4, <1>5, <1>6 DEF TypeOK

LEMMA TypesStay == TypeOK /\ [Next]_vars => TypeOK'
<1> SUFFICES ASSUME TypeOK, [Next]_vars PROVE TypeOK'
  OBVIOUS
<1>1. CASE Crash
  BY <1>1 DEF Crash, TypeOK, Registered, Idle
<1>2. CASE UNCHANGED vars
  BY <1>2 DEF vars, TypeOK, Registered, Registrations, Removals, Accountings
<1> QED BY <1>1, <1>2, AskTypes, SaveTypes DEF Next

\* Every row refers to a player who exists, and so does every request.
THEOREM RegistrationTypes == Spec => []TypeOK
BY InitTypes, TypesStay, PTL DEF Spec

-----------------------------------------------------------------------------
(* Editors.  That the three ways agree follows from what links accounts,   *)
(* players and participants: an account has a player of its own, a         *)
(* participant who names an account is its player, and one who edits names *)
(* the account there is.  The request that gives an account its player     *)
(* keeps that, as it has made the player itself and nobody knows it yet.   *)

PlayersApart ==
    \A a, b \in Accounts : playerOf[a] = playerOf[b] /\ playerOf[a] \in DOMAIN players => a = b

LinksAreTrue ==
    \A p \in Registered :
        participants[p].account # None => playerOf[participants[p].account] = p

EditorsAreLinked ==
    \A p \in Registered : Edits(p) /\ participants[p].account = None =>
        \A a \in Accounts : playerOf[a] # p

OwnersAreFree ==
    job.step \in {"player", "save"} => playerOf[job.owner] \notin DOMAIN players

NewPlayerIsFree ==
    job.step = "save" =>
        Len(players) \notin Registered /\ \A a \in Accounts : playerOf[a] # Len(players)

EditorsInv ==
    PlayersApart /\ LinksAreTrue /\ EditorsAreLinked /\ OwnersAreFree /\ NewPlayerIsFree

LEMMA EditorsFollow == TypeOK /\ EditorsInv => EditorsAgree
<1> SUFFICES ASSUME TypeOK, EditorsInv, NEW a \in Accounts
             PROVE  /\ IsToldToEdit(a) <=> CanEdit(a)
                    /\ \A p \in RowsOf(a) : Edits(p) <=> CanEdit(a)
  BY DEF EditorsAgree
<1>1. ASSUME NEW p \in RowsOf(a), Edits(p) PROVE participants[p].account = a
  <2>1. p \in Registered /\ p \in DOMAIN players /\ participants[p] \in Participant
    BY <1>1 DEF RowsOf, TypeOK
  <2>2. CASE playerOf[a] = p
    <3>1. participants[p].account # None
      BY <1>1, <2>1, <2>2 DEF EditorsInv, EditorsAreLinked
    <3>2. participants[p].account \in Accounts
      BY <2>1, <3>1 DEF Participant
    <3>3. playerOf[participants[p].account] = p
      BY <2>1, <3>1 DEF EditorsInv, LinksAreTrue
    <3> QED BY <2>1, <2>2, <3>2, <3>3 DEF EditorsInv, PlayersApart
  <2> QED BY <1>1, <2>2 DEF RowsOf
<1>2. ASSUME NEW p \in RowsOf(a), CanEdit(a) PROVE Edits(p)
  <2> PICK q \in Registered : participants[q].account = a /\ Edits(q)
    BY <1>2 DEF CanEdit
  <2>1. a # None
    BY NamesAssumption
  <2>2. playerOf[a] = q
    BY <2>1 DEF EditorsInv, LinksAreTrue
  <2>3. p = q
    BY <2>1, <2>2 DEF RowsOf, EditorsInv, LinksAreTrue
  <2> QED BY <2>3
<1>3. CanEdit(a) => IsToldToEdit(a)
  BY DEF CanEdit, IsToldToEdit, RowsOf
<1>4. \A p \in RowsOf(a) : Edits(p) => CanEdit(a)
  BY <1>1 DEF CanEdit, RowsOf
<1> QED BY <1>2, <1>3, <1>4 DEF IsToldToEdit

\* A step that changes nothing the links are about.
LEMMA EditorsUntouched ==
    ASSUME EditorsInv, DOMAIN players' = DOMAIN players, Len(players') = Len(players),
           UNCHANGED <<playerOf, participants>>,
           job' = job \/ job'.step \notin {"player", "save"}
    PROVE  EditorsInv'
BY DEF EditorsInv, PlayersApart, LinksAreTrue, EditorsAreLinked, OwnersAreFree,
       NewPlayerIsFree, Registered, Edits

\* One that changes participants: whoever is new edits nothing, the others
\* keep who they are and edit what they did.
LEMMA ParticipantsOnly ==
    ASSUME EditorsInv, UNCHANGED <<players, playerOf>>,
           job'.step \notin {"player", "save"},
           \A p \in Registered' :
               \/ /\ p \in Registered /\ participants'[p].account = participants[p].account
                  /\ Edits(p)' => Edits(p)
               \/ participants'[p].account = None /\ ~Edits(p)'
    PROVE  EditorsInv'
<1>1. LinksAreTrue' /\ EditorsAreLinked'
  BY DEF EditorsInv, LinksAreTrue, EditorsAreLinked
<1> QED BY <1>1 DEF EditorsInv, PlayersApart, OwnersAreFree, NewPlayerIsFree

\* The requests.
LEMMA AskEditors == TypeOK /\ EditorsInv /\ Ask => EditorsInv'
<1> SUFFICES ASSUME TypeOK, EditorsInv, Ask PROVE EditorsInv'
  OBVIOUS
<1>0. job = Idle /\ Idle.step = "idle" /\ None \notin Accounts
  BY NamesAssumption DEF Idle, Ask
<1>1. CASE AskRegister \/ AskBulk \/ AskAssign \/ AskImport
  <2> DEFINE asks == \E kind, names, found, division :
                        Registering(kind, names, found, division)
  <2>1. job'.step \notin {"player", "save"}
    <3>1. asks => job'.step \in {"make", "register"}
      BY DEF Registering
    <3>2. CASE AskRegister
      BY <3>1, <3>2 DEF AskRegister
    <3>3. CASE AskBulk
      BY <3>1, <3>3 DEF AskBulk
    <3>4. CASE AskAssign \/ AskImport
      BY <3>1, <3>4 DEF AskAssign, AskImport
    <3> QED BY <1>1, <3>2, <3>3, <3>4
  <2>2. UNCHANGED <<players, playerOf, participants>>
    BY <1>1 DEF AskRegister, AskBulk, AskAssign, AskImport
  <2> QED BY <2>1, <2>2, EditorsUntouched
<1>2. CASE AskRemove
  <2>1. job'.step \notin {"player", "save"}
    BY <1>2 DEF AskRemove
  <2> QED BY <1>2, <2>1, EditorsUntouched DEF AskRemove
<1>3. CASE AskPreview \/ AddParticipants \/ RemoveParticipant \/ CloseOrReopen
  BY <1>3, EditorsUntouched DEF AskPreview, AddParticipants, RemoveParticipant, CloseOrReopen
<1>4. CASE AskAccount \/ AskTournament
  <2>1. job'.step # "save" /\ UNCHANGED <<players, playerOf, participants>>
    BY <1>4 DEF AskAccount, AskTournament
  <2>2. job'.step = "player" => playerOf[job'.owner] \notin DOMAIN players
    <3>1. NoAccount \notin DOMAIN players /\ NoPlayer \notin DOMAIN players
      BY DEF TypeOK, NoAccount, NoPlayer
    <3> QED BY <1>4, <3>1 DEF AskAccount, AskTournament
  <2>3. PlayersApart' /\ OwnersAreFree' /\ NewPlayerIsFree'
    BY <2>1, <2>2 DEF EditorsInv, PlayersApart, OwnersAreFree, NewPlayerIsFree
  <2>4. LinksAreTrue' /\ EditorsAreLinked'
    BY <2>1 DEF EditorsInv, LinksAreTrue, EditorsAreLinked, Registered, Edits
  <2> QED BY <2>3, <2>4 DEF EditorsInv
<1>5. CASE GrantStaff
  <2> PICK p \in Registered : participants' = [participants EXCEPT
          ![p] = [account |-> AccountFor(p), roles |-> MergeRoles(@.roles, {"staff"})]]
    BY <1>5 DEF GrantStaff
  <2>1. /\ Registered' = Registered /\ participants'[p].account = AccountFor(p)
        /\ \A q \in Registered \ {p} : participants'[q] = participants[q]
    BY DEF TypeOK, Registered
  <2>2. UNCHANGED <<players, playerOf, job>>
    BY <1>5 DEF GrantStaff
  <2>3. participants[p].account \in Accounts \union {None}
    BY DEF TypeOK, Participant
  <2>4. AccountFor(p) # None => playerOf[AccountFor(p)] = p
    BY <2>3 DEF AccountFor, EditorsInv, LinksAreTrue
  <2>5. AccountFor(p) = None => \A a \in Accounts : playerOf[a] # p
    BY <1>0, <2>3 DEF AccountFor
  <2>6. LinksAreTrue'
    BY <2>1, <2>2, <2>4 DEF EditorsInv, LinksAreTrue
  <2>7. EditorsAreLinked'
    BY <2>1, <2>2, <2>5 DEF EditorsInv, EditorsAreLinked, Edits
  <2> QED BY <1>0, <2>2, <2>6, <2>7 DEF EditorsInv, PlayersApart, OwnersAreFree, NewPlayerIsFree
<1>6. CASE RevokeStaff
  <2> PICK p \in Registered : participants' = [participants EXCEPT ![p].roles =
              IF @ \subseteq {"staff"} THEN {"unknown"} ELSE @ \ {"staff"}]
    BY <1>6 DEF RevokeStaff
  <2>1. Registered' = Registered /\ participants[p] \in Participant
    BY DEF TypeOK, Registered
  <2>2. \A q \in Registered \ {p} : participants'[q] = participants[q]
    BY DEF TypeOK, Registered
  <2>3. participants'[p] = [participants[p] EXCEPT !.roles =
              IF @ \subseteq {"staff"} THEN {"unknown"} ELSE @ \ {"staff"}]
    BY DEF TypeOK, Registered
  <2>4. /\ participants'[p].account = participants[p].account
        /\ participants'[p].roles = IF participants[p].roles \subseteq {"staff"} THEN {"unknown"}
                                    ELSE participants[p].roles \ {"staff"}
    BY <2>1, <2>3 DEF Participant
  <2>5. Edits(p)' => Edits(p)
    BY <2>4 DEF Edits
  <2>6. \A q \in Registered \ {p} : Edits(q)' => Edits(q)
    BY <2>2 DEF Edits
  <2> QED BY <1>0, <1>6, <2>1, <2>2, <2>4, <2>5, <2>6, ParticipantsOnly DEF RevokeStaff
<1>7. CASE Rename
  <2>1. DOMAIN players' = DOMAIN players /\ Len(players') = Len(players)
    <3> PICK a \in Accounts, name \in Typed : players' = [players EXCEPT ![playerOf[a]] = name]
      BY <1>7 DEF Rename
    <3>1. players \in Seq(Typed)
      BY DEF TypeOK
    <3>2. DOMAIN players' = DOMAIN players
      OBVIOUS
    <3> QED BY <3>1, <3>2
  <2> QED BY <1>7, <2>1, EditorsUntouched DEF Rename
<1> QED BY <1>1, <1>2, <1>3, <1>4, <1>5, <1>6, <1>7 DEF Ask

\* Their saves.
LEMMA SaveEditors == TypeOK /\ EditorsInv /\ Save => EditorsInv'
<1> SUFFICES ASSUME TypeOK, EditorsInv, Save PROVE EditorsInv'
  OBVIOUS
<1>0. Idle.step = "idle" /\ None \notin Accounts
  BY NamesAssumption DEF Idle
<1>1. CASE MakePlayers
  <2>1. job \in Registrations
    BY <1>1, JobShapes DEF MakePlayers
  <2>2. job'.step = "register" /\ UNCHANGED <<playerOf, participants>>
    BY <1>1, <2>1 DEF MakePlayers, Registrations
  <2>3. \A a \in Accounts : playerOf[a] \in DOMAIN players' => playerOf[a] \in DOMAIN players
    <3>1. SetToSeq(job.names) \in Seq(job.names)
      BY <1>1, SetToSeqFacts DEF MakePlayers, TypeOK
    <3>2. players' \in Seq(Typed)
      BY <1>1, <2>1, <3>1 DEF MakePlayers, Registrations, TypeOK
    <3> QED BY <3>2 DEF TypeOK, NoAccount
  <2>4. PlayersApart'
    BY <2>2, <2>3 DEF EditorsInv, PlayersApart
  <2>5. LinksAreTrue' /\ EditorsAreLinked'
    BY <2>2 DEF EditorsInv, LinksAreTrue, EditorsAreLinked, Registered, Edits
  <2> QED BY <2>2, <2>4, <2>5 DEF EditorsInv, OwnersAreFree, NewPlayerIsFree
<1>2. CASE SaveParticipants
  <2>1. job \in Registrations /\ participants' = RegisterAll(job.found)
    BY <1>2, JobShapes DEF SaveParticipants
  <2>2. job'.step \in {"idle", "admit"}
    BY <1>0, <1>2, <2>1 DEF SaveParticipants, Registrations
  <2>3. ASSUME NEW p \in Registered'
        PROVE  \/ /\ p \in Registered /\ participants'[p].account = participants[p].account
                  /\ Edits(p)' => Edits(p)
               \/ participants'[p].account = None /\ ~Edits(p)'
    <3>1. p \in Registered \union job.found
      BY <2>1 DEF Registered, RegisterAll
    <3>2. CASE p \notin Registered
      <4>1. participants'[p] = [account |-> None, roles |-> {"competitor"}]
        BY <2>1, <3>1, <3>2 DEF RegisterAll
      <4> QED BY <4>1 DEF Edits
    <3>3. CASE p \in Registered /\ p \in job.found
      <4>1. participants'[p] =
                [participants[p] EXCEPT !.roles = MergeRoles(@, {"competitor"})]
        BY <2>1, <3>3 DEF RegisterAll
      <4>2. /\ participants'[p].account = participants[p].account
            /\ participants'[p].roles = MergeRoles(participants[p].roles, {"competitor"})
        BY <3>3, <4>1 DEF TypeOK, Participant
      <4> QED BY <3>3, <4>2 DEF Edits, MergeRoles
    <3>4. CASE p \in Registered /\ p \notin job.found
      <4>1. participants'[p] = participants[p]
        BY <2>1, <3>4 DEF RegisterAll
      <4> QED BY <3>4, <4>1 DEF Edits
    <3> QED BY <3>2, <3>3, <3>4
  <2> QED BY <1>2, <2>2, <2>3, ParticipantsOnly DEF SaveParticipants
<1>3. CASE SaveEntrants
  BY <1>0, <1>3, EditorsUntouched DEF SaveEntrants
<1>4. CASE WithdrawFromNext
  <2>1. job \in Removals
    BY <1>4, JobShapes DEF WithdrawFromNext
  <2>2. job'.step \notin {"player", "save"}
    BY <1>4, <2>1 DEF WithdrawFromNext, Removals
  <2> QED BY <1>4, <2>2, EditorsUntouched DEF WithdrawFromNext
<1>5. CASE Unregister
  <2>1. \A p \in Registered' : p \in Registered /\ participants'[p] = participants[p]
    BY <1>5 DEF Unregister, Registered
  <2> QED BY <1>0, <1>5, <2>1, ParticipantsOnly DEF Unregister, Edits
<1>6. CASE SavePlayer
  <2>1. job \in Accountings /\ job.owner \in Accounts
    BY <1>6, JobShapes DEF SavePlayer, Accountings
  <2>2. job'.step = "save" /\ job'.owner = job.owner /\ UNCHANGED <<playerOf, participants>>
    BY <1>6, <2>1 DEF SavePlayer, Accountings
  <2>3. players' \in Seq(Typed) /\ Len(players') = Len(players) + 1 /\ Len(players) \in Nat
    BY <1>6, <2>1 DEF SavePlayer, TypeOK, Accountings
  <2>4. /\ Len(players') \notin Registered
        /\ \A a \in Accounts :
              /\ playerOf[a] # Len(players')
              /\ playerOf[a] \in DOMAIN players' => playerOf[a] \in DOMAIN players
    BY <2>3 DEF TypeOK, NoAccount
  <2>5. PlayersApart' /\ NewPlayerIsFree'
    BY <2>2, <2>4 DEF EditorsInv, PlayersApart, NewPlayerIsFree, Registered
  <2>6. OwnersAreFree'
    BY <1>6, <2>1, <2>2, <2>4 DEF SavePlayer, EditorsInv, OwnersAreFree
  <2>7. LinksAreTrue' /\ EditorsAreLinked'
    BY <2>2 DEF EditorsInv, LinksAreTrue, EditorsAreLinked, Registered, Edits
  <2> QED BY <2>5, <2>6, <2>7 DEF EditorsInv
<1>7. CASE SaveAccount
  <2>1. job \in Accountings /\ job.owner \in Accounts
    BY <1>7, JobShapes DEF SaveAccount, Accountings
  <2>2. job'.step \in {"idle", "create"}
    BY <1>0, <1>7, <2>1 DEF SaveAccount, Accountings
  <2>3. UNCHANGED <<players, participants>> /\ Registered' = Registered
    BY <1>7 DEF SaveAccount, Registered
  <2>4. /\ playerOf'[job.owner] = Len(players)
        /\ \A a \in Accounts \ {job.owner} : playerOf'[a] = playerOf[a]
    BY <1>7, <2>1 DEF SaveAccount, TypeOK
  <2>5. /\ Len(players) \notin Registered /\ playerOf[job.owner] \notin DOMAIN players
        /\ \A a \in Accounts : playerOf[a] # Len(players)
    BY <1>7 DEF SaveAccount, EditorsInv, NewPlayerIsFree, OwnersAreFree
  <2>6. PlayersApart'
    BY <2>3, <2>4, <2>5 DEF EditorsInv, PlayersApart
  <2>7. LinksAreTrue'
    <3> SUFFICES ASSUME NEW p \in Registered, participants[p].account # None
                 PROVE  playerOf'[participants[p].account] = p
      BY <2>3 DEF LinksAreTrue
    <3>1. participants[p].account \in Accounts /\ p \in DOMAIN players
      BY DEF TypeOK, Participant
    <3>2. playerOf[participants[p].account] = p
      BY DEF EditorsInv, LinksAreTrue
    <3> QED BY <2>4, <2>5, <3>1, <3>2
  <2>8. EditorsAreLinked'
    BY <2>3, <2>4, <2>5 DEF EditorsInv, EditorsAreLinked, Edits
  <2> QED BY <2>2, <2>6, <2>7, <2>8 DEF EditorsInv, OwnersAreFree, NewPlayerIsFree
<1>8. CASE SaveTournament
  <2>1. job \in Accountings /\ job.owner \in Accounts
    BY <1>8, JobShapes DEF SaveTournament, Accountings
  <2>2. /\ Registered' = {playerOf[job.owner]}
        /\ participants'[playerOf[job.owner]] = [account |-> job.owner, roles |-> {"owner"}]
    BY <1>8 DEF SaveTournament, Registered
  <2>3. UNCHANGED <<players, playerOf>> /\ job'.step = "idle"
    BY <1>0, <1>8 DEF SaveTournament
  <2>4. LinksAreTrue' /\ EditorsAreLinked'
    BY <1>0, <2>1, <2>2, <2>3 DEF LinksAreTrue, EditorsAreLinked
  <2> QED BY <2>3, <2>4 DEF EditorsInv, PlayersApart, OwnersAreFree, NewPlayerIsFree
<1> QED BY <1>1, <1>2, <1>3, <1>4, <1>5, <1>6, <1>7, <1>8 DEF Save

LEMMA EditorsStay == TypeOK /\ EditorsInv /\ [Next]_vars => EditorsInv'
<1> SUFFICES ASSUME TypeOK, EditorsInv, [Next]_vars PROVE EditorsInv'
  OBVIOUS
<1>1. CASE Crash
  BY <1>1, EditorsUntouched DEF Crash, Idle
<1>2. CASE UNCHANGED vars
  BY <1>2, EditorsUntouched DEF vars
<1> QED BY <1>1, <1>2, AskEditors, SaveEditors DEF Next

LEMMA InitEditors == Init => EditorsInv
BY DEF Init, Idle, NoAccount, NoPlayer, EditorsInv, PlayersApart, LinksAreTrue,
       EditorsAreLinked, OwnersAreFree, NewPlayerIsFree, Registered

\* The guard, the roles a page is told of and the query of a report agree on who
\* edits, however accounts come to have players and participants accounts.
THEOREM EditorsStayAgreed == Spec => []EditorsAgree
<1>1. TypeOK /\ EditorsInv /\ [Next]_vars => (TypeOK /\ EditorsInv)'
  BY TypesStay, EditorsStay
<1> QED BY <1>1, InitTypes, InitEditors, EditorsFollow, PTL DEF Spec

-----------------------------------------------------------------------------
(* Entrants.  A request knows, between two saves, how far it has come: who *)
(* is to be admitted is registered by then, and whoever leaves is active   *)
(* in no division but those it has still to visit.                         *)

EntrantsStand ==
    \A e \in DOMAIN entrants :
        entrants[e].of \subseteq Registered /\ (entrants[e].active => entrants[e].of # {})

OncePerDivision ==
    \A d \in Divisions : \A p \in Registered : \A e, f \in EntrantsOf(d, p) : e = f

NobodyBefore ==
    /\ tournament = "none" => entrants = <<>>
    /\ job.step \in {"make", "register", "admit", "withdraw", "unregister"} => tournament # "none"
    /\ job.step \in {"player", "save"} /\ job.kind = "create" => tournament = "none"
    /\ job.step = "create" => tournament = "none"

AdmittedAreRegistered ==
    job.step = "admit" => job.found \subseteq Registered

LeavingStepByStep ==
    job.step \in {"withdraw", "unregister"} =>
        /\ job.who \in Registered
        /\ \A e \in DOMAIN entrants : job.who \in entrants[e].of /\ entrants[e].active =>
              job.step = "withdraw" /\ entrants[e].division \in job.left

EntrantsInv ==
    /\ EntrantsStand /\ OncePerDivision /\ NobodyBefore
    /\ AdmittedAreRegistered /\ LeavingStepByStep

LEMMA EntrantsFollow == EntrantsInv => EntrantsMirrorParticipants
BY DEF EntrantsInv, EntrantsStand, OncePerDivision, EntrantsMirrorParticipants

\* Nobody leaves the tournament, and the entrants stay.
LEMMA EntrantsUntouched ==
    ASSUME EntrantsInv, Registered \subseteq Registered', UNCHANGED entrants
    PROVE  EntrantsStand' /\ OncePerDivision'
<1>1. EntrantsStand'
  BY DEF EntrantsInv, EntrantsStand
<1>2. OncePerDivision'
  <2> SUFFICES ASSUME NEW d \in Divisions, NEW p, NEW e \in EntrantsOf(d, p),
                      NEW f \in EntrantsOf(d, p)
               PROVE  e = f
    BY DEF OncePerDivision, EntrantsOf
  <2>1. p \in Registered
    BY DEF EntrantsInv, EntrantsStand, EntrantsOf
  <2> QED BY <2>1 DEF EntrantsInv, OncePerDivision
<1> QED BY <1>1, <1>2

\* Admission of participants.
LEMMA AdmittedStand ==
    ASSUME TypeOK, EntrantsInv, NEW d \in Divisions, NEW found, found \subseteq Registered,
           entrants' = AdmitAll(d, found), UNCHANGED participants
    PROVE  EntrantsStand' /\ OncePerDivision'
<1> DEFINE n == Len(entrants)
           m == Len(entrants')
<1>1. found \subseteq DOMAIN players
  BY DEF TypeOK
<1>2. /\ n \in Nat /\ m \in Nat /\ n <= m
      /\ \A e \in 1..n :
            /\ entrants'[e].division = entrants[e].division /\ entrants'[e].of = entrants[e].of
            /\ entrants'[e].active => entrants[e].active \/ \E p \in found : e \in EntrantsOf(d, p)
      /\ \A e \in n + 1 .. m : \E p \in found :
            EntrantsOf(d, p) = {} /\ entrants'[e].division = d /\ entrants'[e].of = {p}
      /\ \A e, f \in n + 1 .. m : entrants'[e].of = entrants'[f].of => e = f
  <2>1. n \in Nat /\ m \in Nat /\ n <= m
    BY <1>1, AdmitAllFacts
  <2>2. \A e \in 1..n :
            /\ entrants'[e].division = entrants[e].division /\ entrants'[e].of = entrants[e].of
            /\ entrants'[e].active => entrants[e].active \/ \E p \in found : e \in EntrantsOf(d, p)
    BY <1>1, AdmitAllFacts
  <2>3. \A e \in n + 1 .. m : \E p \in found :
            EntrantsOf(d, p) = {} /\ entrants'[e].division = d /\ entrants'[e].of = {p}
    BY <1>1, AdmitAllFacts
  <2>4. \A e, f \in n + 1 .. m : entrants'[e].of = entrants'[f].of => e = f
    BY <1>1, AdmitAllFacts
  <2> QED BY <2>1, <2>2, <2>3, <2>4
<1>3. DOMAIN entrants = 1..n /\ DOMAIN entrants' = 1..m
  BY <1>1, AdmitAllFacts DEF TypeOK
<1> HIDE DEF n, m
<1>4. Registered' = Registered
  BY DEF Registered
<1>5. \A e \in 1..m : e \in 1..n \/ e \in n + 1 .. m
  BY <1>2
<1>6. EntrantsStand'
  <2> SUFFICES ASSUME NEW e \in 1..m
               PROVE  /\ entrants'[e].of \subseteq Registered
                      /\ entrants'[e].active => entrants'[e].of # {}
    BY <1>3, <1>4 DEF EntrantsStand
  <2>1. CASE e \in 1..n
    <3>1. /\ entrants'[e].of = entrants[e].of
          /\ entrants'[e].active => entrants[e].active \/ \E p \in found : e \in EntrantsOf(d, p)
      BY <1>2, <2>1
    <3> QED BY <1>3, <2>1, <3>1 DEF EntrantsInv, EntrantsStand, EntrantsOf
  <2>2. CASE e \in n + 1 .. m
    <3> PICK p \in found : entrants'[e].of = {p}
      BY <1>2, <2>2
    <3> QED OBVIOUS
  <2> QED BY <1>5, <2>1, <2>2
<1>7. OncePerDivision'
  <2> SUFFICES ASSUME NEW c \in Divisions, NEW p \in Registered,
                      NEW e \in EntrantsOf(c, p)', NEW f \in EntrantsOf(c, p)'
               PROVE  e = f
    BY <1>4 DEF OncePerDivision
  <2>1. /\ e \in 1..m /\ entrants'[e].division = c /\ p \in entrants'[e].of
        /\ f \in 1..m /\ entrants'[f].division = c /\ p \in entrants'[f].of
    BY <1>3 DEF EntrantsOf
  <2>2. \A g \in 1..n : entrants'[g].division = c /\ p \in entrants'[g].of => g \in EntrantsOf(c, p)
    BY <1>2, <1>3 DEF EntrantsOf
  <2>3. \A g \in n + 1 .. m : entrants'[g].division = c /\ p \in entrants'[g].of =>
            entrants'[g].of = {p} /\ EntrantsOf(c, p) = {}
    <3> SUFFICES ASSUME NEW g \in n + 1 .. m, entrants'[g].division = c, p \in entrants'[g].of
                 PROVE  entrants'[g].of = {p} /\ EntrantsOf(c, p) = {}
      OBVIOUS
    <3> PICK q \in found :
            EntrantsOf(d, q) = {} /\ entrants'[g].division = d /\ entrants'[g].of = {q}
      BY <1>2
    <3> QED OBVIOUS
  <2>4. CASE e \in 1..n /\ f \in 1..n
    BY <2>1, <2>2, <2>4 DEF EntrantsInv, OncePerDivision
  <2>5. CASE e \in n + 1 .. m /\ f \in n + 1 .. m
    BY <1>2, <2>1, <2>3, <2>5
  <2> QED BY <1>5, <2>1, <2>2, <2>3, <2>4, <2>5
<1> QED BY <1>6, <1>7

\* A withdrawal.
LEMMA WithdrawnStand ==
    ASSUME TypeOK, EntrantsInv, NEW d \in Divisions, NEW p \in Registered,
           entrants' = Withdrawn(d, p), UNCHANGED participants
    PROVE  /\ EntrantsStand' /\ OncePerDivision'
           /\ \A e \in DOMAIN entrants' :
                 p \in entrants'[e].of /\ entrants'[e].active =>
                     /\ e \in DOMAIN entrants /\ entrants[e].active
                     /\ entrants'[e].of = entrants[e].of
                     /\ entrants'[e].division = entrants[e].division
                     /\ entrants'[e].division # d
<1>1. /\ DOMAIN entrants' = DOMAIN entrants
      /\ \A e \in DOMAIN entrants :
            /\ entrants'[e].division = entrants[e].division
            /\ entrants'[e].of = entrants[e].of
            /\ entrants'[e].active => entrants[e].active
      /\ (\A e, f \in EntrantsOf(d, p) : e = f) =>
            \A e \in EntrantsOf(d, p) : ~entrants'[e].active
  BY WithdrawnFacts
<1>2. \A e \in EntrantsOf(d, p) : ~entrants'[e].active
  BY <1>1 DEF EntrantsInv, OncePerDivision
<1>3. Registered' = Registered
  BY DEF Registered
<1>4. EntrantsStand'
  BY <1>1, <1>3 DEF EntrantsInv, EntrantsStand
<1>5. \A c, q : EntrantsOf(c, q)' = EntrantsOf(c, q)
  BY <1>1 DEF EntrantsOf
<1>6. OncePerDivision'
  BY <1>3, <1>5 DEF EntrantsInv, OncePerDivision
<1>7. ASSUME NEW e \in DOMAIN entrants', p \in entrants'[e].of, entrants'[e].active
      PROVE  entrants'[e].division # d
  BY <1>1, <1>2, <1>7 DEF EntrantsOf
<1> QED BY <1>1, <1>4, <1>6, <1>7

\* The requests.
LEMMA AskEntrants == TypeOK /\ EntrantsInv /\ Ask => EntrantsInv'
<1> SUFFICES ASSUME TypeOK, EntrantsInv, Ask PROVE EntrantsInv'
  OBVIOUS
<1>0. job = Idle /\ Idle.step = "idle" /\ (IsOpen => tournament # "none")
  BY DEF Idle, Ask, IsOpen
<1>1. CASE AskRegister \/ AskBulk \/ AskAssign \/ AskImport
  <2> DEFINE asks == \E kind, names, found, division :
                        Registering(kind, names, found, division)
  <2>1. job'.step \in {"make", "register"}
    <3>1. asks => job'.step \in {"make", "register"}
      BY DEF Registering
    <3>2. CASE AskRegister
      BY <3>1, <3>2 DEF AskRegister
    <3>3. CASE AskBulk
      BY <3>1, <3>3 DEF AskBulk
    <3>4. CASE AskAssign \/ AskImport
      BY <3>1, <3>4 DEF AskAssign, AskImport
    <3> QED BY <1>1, <3>2, <3>3, <3>4
  <2>2. UNCHANGED <<participants, entrants, tournament>> /\ tournament # "none"
    BY <1>0, <1>1 DEF AskRegister, AskBulk, AskAssign, AskImport
  <2>3. EntrantsStand' /\ OncePerDivision'
    BY <2>2, EntrantsUntouched DEF Registered
  <2> QED BY <2>1, <2>2, <2>3
          DEF EntrantsInv, NobodyBefore, AdmittedAreRegistered, LeavingStepByStep
<1>2. CASE AskRemove
  <2> PICK p \in Registered :
          job' = [step |-> IF DivisionsOf(p) = {} THEN "unregister" ELSE "withdraw",
                  who |-> p, left |-> DivisionsOf(p)]
    BY <1>2 DEF AskRemove
  <2>1. /\ job'.step = IF DivisionsOf(p) = {} THEN "unregister" ELSE "withdraw"
        /\ job'.who = p /\ job'.left = DivisionsOf(p)
    OBVIOUS
  <2>2. UNCHANGED <<participants, entrants, tournament>> /\ tournament # "none"
    BY <1>0, <1>2 DEF AskRemove
  <2>3. EntrantsStand' /\ OncePerDivision'
    BY <2>2, EntrantsUntouched DEF Registered
  <2>4. ASSUME NEW e \in DOMAIN entrants, p \in entrants[e].of
        PROVE  entrants[e].division \in DivisionsOf(p)
    <3>1. entrants[e] \in Entrant
      BY DEF TypeOK
    <3>2. entrants[e].division \in Divisions /\ e \in EntrantsOf(entrants[e].division, p)
      BY <2>4, <3>1 DEF Entrant, EntrantsOf
    <3> QED BY <3>2 DEF DivisionsOf
  <2>5. LeavingStepByStep'
    BY <2>1, <2>2, <2>4 DEF LeavingStepByStep, Registered
  <2> QED BY <2>1, <2>2, <2>3, <2>5 DEF EntrantsInv, NobodyBefore, AdmittedAreRegistered
<1>3. CASE AskAccount \/ AskTournament
  <2>1. /\ job'.step \in {"player", "create"}
        /\ job'.kind = "create" \/ job'.step = "create" => tournament = "none"
    BY <1>3 DEF AskAccount, AskTournament
  <2>2. UNCHANGED <<participants, entrants, tournament>>
    BY <1>3 DEF AskAccount, AskTournament
  <2>3. EntrantsStand' /\ OncePerDivision'
    BY <2>2, EntrantsUntouched DEF Registered
  <2> QED BY <2>1, <2>2, <2>3
          DEF EntrantsInv, NobodyBefore, AdmittedAreRegistered, LeavingStepByStep
<1>4. CASE AskPreview \/ Rename
  <2>1. UNCHANGED <<participants, entrants, tournament, job>>
    BY <1>4 DEF AskPreview, Rename
  <2>2. EntrantsStand' /\ OncePerDivision'
    BY <2>1, EntrantsUntouched DEF Registered
  <2> QED BY <1>0, <2>1, <2>2
          DEF EntrantsInv, NobodyBefore, AdmittedAreRegistered, LeavingStepByStep
<1>5. CASE CloseOrReopen
  <2>1. UNCHANGED <<participants, entrants, job>> /\ tournament' # "none"
    BY <1>5 DEF CloseOrReopen
  <2>2. EntrantsStand' /\ OncePerDivision'
    BY <2>1, EntrantsUntouched DEF Registered
  <2> QED BY <1>0, <2>1, <2>2
          DEF EntrantsInv, NobodyBefore, AdmittedAreRegistered, LeavingStepByStep
<1>6. CASE GrantStaff \/ RevokeStaff
  <2>1. UNCHANGED <<entrants, tournament, job>> /\ Registered' = Registered
    <3>1. CASE GrantStaff
      BY <3>1 DEF GrantStaff, Registered, TypeOK
    <3>2. CASE RevokeStaff
      BY <3>2 DEF RevokeStaff, Registered, TypeOK
    <3> QED BY <1>6, <3>1, <3>2
  <2>2. EntrantsStand' /\ OncePerDivision'
    BY <2>1, EntrantsUntouched
  <2> QED BY <1>0, <2>1, <2>2
          DEF EntrantsInv, NobodyBefore, AdmittedAreRegistered, LeavingStepByStep
<1>7. CASE AddParticipants \/ RemoveParticipant
  <2>1. UNCHANGED <<participants, tournament, job>> /\ tournament # "none"
    BY <1>0, <1>7 DEF AddParticipants, RemoveParticipant
  <2>2. EntrantsStand' /\ OncePerDivision'
    <3>1. CASE AddParticipants
      <4> PICK d \in Divisions, those \in SUBSET Registered : entrants' = AdmitAll(d, those)
        BY <3>1 DEF AddParticipants
      <4> QED BY <2>1, AdmittedStand
    <3>2. CASE RemoveParticipant
      <4> PICK d \in Divisions, p \in Registered : entrants' = Withdrawn(d, p)
        BY <3>2 DEF RemoveParticipant
      <4> QED BY <2>1, WithdrawnStand
    <3> QED BY <1>7, <3>1, <3>2
  <2> QED BY <1>0, <2>1, <2>2
          DEF EntrantsInv, NobodyBefore, AdmittedAreRegistered, LeavingStepByStep
<1> QED BY <1>1, <1>2, <1>3, <1>4, <1>5, <1>6, <1>7 DEF Ask

\* Their saves.
LEMMA SaveEntrantsStep == TypeOK /\ EntrantsInv /\ Save => EntrantsInv'
<1> SUFFICES ASSUME TypeOK, EntrantsInv, Save PROVE EntrantsInv'
  OBVIOUS
<1>0. Idle.step = "idle"
  BY DEF Idle
<1>1. CASE MakePlayers
  <2>1. job \in Registrations
    BY <1>1, JobShapes DEF MakePlayers
  <2>2. job'.step = "register" /\ UNCHANGED <<participants, entrants, tournament>>
    BY <1>1, <2>1 DEF MakePlayers, Registrations
  <2>3. EntrantsStand' /\ OncePerDivision' /\ tournament # "none"
    BY <1>1, <2>2, EntrantsUntouched DEF Registered, MakePlayers, EntrantsInv, NobodyBefore
  <2> QED BY <2>2, <2>3 DEF EntrantsInv, NobodyBefore, AdmittedAreRegistered, LeavingStepByStep
<1>2. CASE SaveParticipants
  <2>1. job \in Registrations /\ participants' = RegisterAll(job.found)
    BY <1>2, JobShapes DEF SaveParticipants
  <2>2. Registered' = Registered \union job.found
    BY <2>1 DEF RegisterAll, Registered
  <2>3. job'.step \in {"idle", "admit"} /\ (job'.step = "admit" => job'.found = job.found)
    BY <1>0, <1>2, <2>1 DEF SaveParticipants, Registrations
  <2>4. UNCHANGED <<entrants, tournament>> /\ tournament # "none"
    BY <1>2 DEF SaveParticipants, EntrantsInv, NobodyBefore
  <2>5. EntrantsStand' /\ OncePerDivision'
    BY <2>2, <2>4, EntrantsUntouched
  <2> QED BY <2>2, <2>3, <2>4, <2>5
          DEF EntrantsInv, NobodyBefore, AdmittedAreRegistered, LeavingStepByStep
<1>3. CASE SaveEntrants
  <2>1. job \in Registrations /\ job.division \in Divisions /\ job.found \subseteq Registered
    BY <1>3, JobShapes DEF SaveEntrants, TypeOK, EntrantsInv, AdmittedAreRegistered
  <2>2. UNCHANGED <<participants, tournament>> /\ tournament # "none" /\ job' = Idle
    BY <1>3 DEF SaveEntrants, EntrantsInv, NobodyBefore
  <2>3. EntrantsStand' /\ OncePerDivision'
    BY <1>3, <2>1, <2>2, AdmittedStand DEF SaveEntrants
  <2> QED BY <1>0, <2>2, <2>3
          DEF EntrantsInv, NobodyBefore, AdmittedAreRegistered, LeavingStepByStep
<1>4. CASE WithdrawFromNext
  <2> PICK d \in job.left :
          /\ entrants' = Withdrawn(d, job.who)
          /\ job' = [job EXCEPT !.left = @ \ {d},
                                !.step = IF job.left = {d} THEN "unregister" ELSE "withdraw"]
    BY <1>4 DEF WithdrawFromNext
  <2>1. job \in Removals /\ d \in Divisions
    BY <1>4, JobShapes DEF WithdrawFromNext, Removals
  <2>2. /\ job'.step = IF job.left = {d} THEN "unregister" ELSE "withdraw"
        /\ job'.left = job.left \ {d} /\ job'.who = job.who
    BY <2>1 DEF Removals
  <2>3. UNCHANGED <<participants, tournament>> /\ tournament # "none"
    BY <1>4 DEF WithdrawFromNext, EntrantsInv, NobodyBefore
  <2>4. /\ job.who \in Registered
        /\ \A e \in DOMAIN entrants :
              job.who \in entrants[e].of /\ entrants[e].active => entrants[e].division \in job.left
    BY <1>4 DEF WithdrawFromNext, EntrantsInv, LeavingStepByStep
  <2>5. /\ EntrantsStand' /\ OncePerDivision'
        /\ \A e \in DOMAIN entrants' :
              job.who \in entrants'[e].of /\ entrants'[e].active =>
                  /\ e \in DOMAIN entrants /\ entrants[e].active
                  /\ entrants'[e].of = entrants[e].of
                  /\ entrants'[e].division = entrants[e].division
                  /\ entrants'[e].division # d
    BY <2>1, <2>3, <2>4, WithdrawnStand
  <2>6. LeavingStepByStep'
    <3> SUFFICES ASSUME NEW e \in DOMAIN entrants', job.who \in entrants'[e].of,
                        entrants'[e].active
                 PROVE  job'.step = "withdraw" /\ entrants'[e].division \in job'.left
      BY <2>2, <2>3, <2>4 DEF LeavingStepByStep, Registered
    <3>1. entrants'[e].division \in job.left /\ entrants'[e].division # d
      BY <2>4, <2>5
    <3> QED BY <2>2, <3>1
  <2> QED BY <2>2, <2>3, <2>5, <2>6 DEF EntrantsInv, NobodyBefore, AdmittedAreRegistered
<1>5. CASE Unregister
  <2>1. /\ Registered' = Registered \ {job.who} /\ job' = Idle
        /\ entrants' = [e \in DOMAIN entrants |-> [entrants[e] EXCEPT !.of = @ \ {job.who}]]
    BY <1>5 DEF Unregister, Registered
  <2>2. DOMAIN entrants' = DOMAIN entrants
    BY <2>1
  <2>3. \A e \in DOMAIN entrants :
            /\ entrants'[e].division = entrants[e].division
            /\ entrants'[e].of = entrants[e].of \ {job.who}
            /\ entrants'[e].active = entrants[e].active
    <3> SUFFICES ASSUME NEW e \in DOMAIN entrants
                 PROVE  /\ entrants'[e].division = entrants[e].division
                        /\ entrants'[e].of = entrants[e].of \ {job.who}
                        /\ entrants'[e].active = entrants[e].active
      OBVIOUS
    <3>1. entrants[e] \in Entrant
      BY DEF TypeOK
    <3>2. entrants'[e] = [entrants[e] EXCEPT !.of = @ \ {job.who}]
      BY <2>1
    <3> QED BY <3>1, <3>2 DEF Entrant
  <2>4. \A e \in DOMAIN entrants : entrants[e].active => job.who \notin entrants[e].of
    BY <1>5 DEF Unregister, EntrantsInv, LeavingStepByStep
  <2>5. EntrantsStand'
    BY <2>1, <2>2, <2>3, <2>4 DEF EntrantsInv, EntrantsStand
  <2>6. OncePerDivision'
    <3>1. \A d, p : EntrantsOf(d, p)' \subseteq EntrantsOf(d, p)
      BY <2>2, <2>3 DEF EntrantsOf
    <3> QED BY <2>1, <3>1 DEF EntrantsInv, OncePerDivision
  <2>7. tournament # "none" /\ tournament' = tournament
    BY <1>5 DEF Unregister, EntrantsInv, NobodyBefore
  <2> QED BY <1>0, <2>1, <2>5, <2>6, <2>7
          DEF EntrantsInv, NobodyBefore, AdmittedAreRegistered, LeavingStepByStep
<1>6. CASE SavePlayer \/ SaveAccount
  <2>1. job \in Accountings
    BY <1>6, JobShapes DEF SavePlayer, SaveAccount
  <2>2. UNCHANGED <<participants, entrants, tournament>>
    BY <1>6 DEF SavePlayer, SaveAccount
  <2>3. /\ job'.step \in {"idle", "save", "create"}
        /\ job'.step # "idle" => job'.kind = job.kind
        /\ job'.step = "create" => job.kind = "create"
    BY <1>0, <1>6, <2>1 DEF SavePlayer, SaveAccount, Accountings
  <2>4. EntrantsStand' /\ OncePerDivision'
    BY <2>2, EntrantsUntouched DEF Registered
  <2>5. job.kind = "create" => tournament = "none"
    BY <1>6 DEF SavePlayer, SaveAccount, EntrantsInv, NobodyBefore
  <2>6. NobodyBefore'
    BY <2>2, <2>3, <2>5 DEF EntrantsInv, NobodyBefore
  <2> QED BY <2>3, <2>4, <2>6 DEF EntrantsInv, AdmittedAreRegistered, LeavingStepByStep
<1>7. CASE SaveTournament
  <2>1. entrants = <<>> /\ entrants' = <<>> /\ tournament' = "open" /\ job' = Idle
    BY <1>7 DEF SaveTournament, EntrantsInv, NobodyBefore
  <2>2. EntrantsStand' /\ OncePerDivision'
    BY <2>1 DEF EntrantsStand, OncePerDivision, EntrantsOf
  <2> QED BY <1>0, <2>1, <2>2
          DEF EntrantsInv, NobodyBefore, AdmittedAreRegistered, LeavingStepByStep
<1> QED BY <1>1, <1>2, <1>3, <1>4, <1>5, <1>6, <1>7 DEF Save

LEMMA EntrantsStay == TypeOK /\ EntrantsInv /\ [Next]_vars => EntrantsInv'
<1> SUFFICES ASSUME TypeOK, EntrantsInv, [Next]_vars PROVE EntrantsInv'
  OBVIOUS
<1>1. CASE Crash \/ UNCHANGED vars
  <2>1. /\ UNCHANGED <<participants, entrants, tournament>>
        /\ job' = Idle \/ job' = job
    BY <1>1 DEF Crash, vars
  <2>2. EntrantsStand' /\ OncePerDivision' /\ Registered' = Registered
    BY <2>1, EntrantsUntouched DEF Registered
  <2>3. Idle.step = "idle"
    BY DEF Idle
  <2> QED BY <2>1, <2>2, <2>3
          DEF EntrantsInv, NobodyBefore, AdmittedAreRegistered, LeavingStepByStep
<1> QED BY <1>1, AskEntrants, SaveEntrantsStep DEF Next

LEMMA InitEntrants == Init => EntrantsInv
BY DEF Init, Idle, EntrantsInv, EntrantsStand, OncePerDivision, EntrantsOf, NobodyBefore,
       AdmittedAreRegistered, LeavingStepByStep

\* Active entrants stand for registered participants, each of them once in a
\* division, wherever a registration or a removal is cut short.
THEOREM EntrantsStayMirrored == Spec => []EntrantsMirrorParticipants
<1>1. TypeOK /\ EntrantsInv /\ [Next]_vars => (TypeOK /\ EntrantsInv)'
  BY TypesStay, EntrantsStay
<1> QED BY <1>1, InitTypes, InitEntrants, EntrantsFollow, PTL DEF Spec

-----------------------------------------------------------------------------
(* Typed names.  Between the look-up and the save nobody else makes        *)
(* players, so the names that were unknown still are.                      *)

NamesAreNew ==
    job.step = "make" /\ job.kind = "typed" =>
        /\ \A n \in job.names : Known(n) = {}
        /\ \A m, n \in job.names : Normalized(m) = Normalized(n) => m = n

LEMMA NamesStay == TypeOK /\ NamesAreNew /\ [Next]_vars => NamesAreNew'
<1> SUFFICES ASSUME TypeOK, NamesAreNew, [Next]_vars, job'.step = "make", job'.kind = "typed"
             PROVE  /\ \A n \in job'.names : Known(n)' = {}
                    /\ \A m, n \in job'.names : Normalized(m) = Normalized(n) => m = n
  BY DEF NamesAreNew
<1>0. Idle.step = "idle"
  BY DEF Idle
<1>1. CASE UNCHANGED vars
  BY <1>1 DEF vars, NamesAreNew, Known
<1>2. CASE AskRegister
  <2> PICK name \in Typed : \E found \in Found({name}) :
          Registering("typed", Unknown({name}), found, None)
    <3>1. \A p : Registering("chosen", {}, {p}, None) => job'.kind = "chosen"
      BY DEF Registering
    <3> QED BY <1>2, <3>1 DEF AskRegister
  <2>1. job'.names = Unknown({name}) /\ UNCHANGED players
    BY <1>2 DEF AskRegister, Registering
  <2> QED BY <2>1 DEF Unknown, Known
<1>3. CASE AskBulk
  <2> PICK list \in Lists, d \in Divisions : \E found \in Found(DistinctNames(list)) :
          Registering("typed", Unknown(DistinctNames(list)), found, d)
    BY <1>3 DEF AskBulk
  <2>1. job'.names = Unknown(DistinctNames(list)) /\ UNCHANGED players
    BY <1>3 DEF AskBulk, Registering
  <2>2. list \in Seq(Typed)
    BY NamesAssumption
  <2>3. \A m, n \in DistinctNames(list) : Normalized(m) = Normalized(n) => m = n
    <3> SUFFICES ASSUME NEW i \in DOMAIN list, NEW j \in DOMAIN list,
                        \A h \in 1..i - 1 : Normalized(list[h]) # Normalized(list[i]),
                        \A h \in 1..j - 1 : Normalized(list[h]) # Normalized(list[j]),
                        Normalized(list[i]) = Normalized(list[j])
                 PROVE  i = j
      BY DEF DistinctNames
    <3>1. i \in 1..Len(list) /\ j \in 1..Len(list) /\ Len(list) \in Nat
      BY <2>2
    <3> QED BY <3>1
  <2> QED BY <2>1, <2>3 DEF Unknown, Known
<1>4. CASE Ask /\ ~AskRegister /\ ~AskBulk
  <2>1. CASE AskAssign \/ AskImport
    BY <2>1 DEF AskAssign, AskImport, Registering
  <2>2. CASE AskRemove
    BY <2>2 DEF AskRemove
  <2>3. CASE AskAccount \/ AskTournament
    BY <2>3 DEF AskAccount, AskTournament
  <2>4. job' = job /\ job = Idle => FALSE
    BY <1>0
  <2> QED BY <1>4, <2>1, <2>2, <2>3, <2>4
          DEF Ask, AskPreview, GrantStaff, RevokeStaff, AddParticipants, RemoveParticipant,
              Rename, CloseOrReopen
<1>5. CASE Save
  <2>1. CASE MakePlayers \/ SaveParticipants
    <3>1. job \in Registrations
      BY <2>1, JobShapes DEF MakePlayers, SaveParticipants
    <3> QED BY <1>0, <2>1, <3>1 DEF MakePlayers, SaveParticipants, Registrations
  <2>2. CASE WithdrawFromNext
    <3>1. job \in Removals
      BY <2>2, JobShapes DEF WithdrawFromNext
    <3> QED BY <2>2, <3>1 DEF WithdrawFromNext, Removals
  <2>3. CASE SavePlayer \/ SaveAccount
    <3>1. job \in Accountings
      BY <2>3, JobShapes DEF SavePlayer, SaveAccount
    <3> QED BY <1>0, <2>3, <3>1 DEF SavePlayer, SaveAccount, Accountings
  <2>4. CASE SaveEntrants \/ Unregister \/ SaveTournament
    BY <1>0, <2>4 DEF SaveEntrants, Unregister, SaveTournament
  <2> QED BY <1>5, <2>1, <2>2, <2>3, <2>4 DEF Save
<1>6. CASE Crash
  BY <1>0, <1>6 DEF Crash
<1> QED BY <1>1, <1>2, <1>3, <1>4, <1>5, <1>6 DEF Next

\* What the action property says of one step.
NewNamesOnly ==
    job.step = "make" /\ job.kind = "typed" =>
        \A p \in DOMAIN players' \ DOMAIN players : \A q \in DOMAIN players' \ {p} :
            Normalized(players'[p]) # Normalized(players'[q])

LEMMA NamesAreMadeOnce == TypeOK /\ NamesAreNew /\ [Next]_vars => NewNamesOnly \/ UNCHANGED vars
<1> SUFFICES ASSUME TypeOK, NamesAreNew, Next, job.step = "make", job.kind = "typed",
                    NEW p \in DOMAIN players' \ DOMAIN players,
                    NEW q \in DOMAIN players' \ {p}
             PROVE  Normalized(players'[p]) # Normalized(players'[q])
  BY DEF NewNamesOnly
<1>1. CASE MakePlayers
  <2> DEFINE new == SetToSeq(job.names)
  <2>1. job \in Registrations /\ IsFiniteSet(job.names) /\ job.names \subseteq Typed
    BY JobShapes DEF TypeOK, Registrations
  <2>2. /\ new \in Seq(job.names) /\ new \in Seq(Typed)
        /\ \A i, j \in 1..Len(new) : new[i] = new[j] => i = j
    BY <2>1, SetToSeqFacts
  <2>3. players' = players \o new /\ players \in Seq(Typed)
    BY <1>1 DEF MakePlayers, TypeOK
  <2> HIDE DEF new
  <2>4. /\ DOMAIN players = 1..Len(players) /\ Len(players) \in Nat /\ Len(new) \in Nat
        /\ DOMAIN players' = 1..Len(players) + Len(new)
        /\ \A i \in 1..Len(players) : players'[i] = players[i]
        /\ \A i \in Len(players) + 1 .. Len(players) + Len(new) :
              i - Len(players) \in 1..Len(new) /\ players'[i] = new[i - Len(players)]
    BY <2>2, <2>3, ConcatFacts
  <2>5. p \in Len(players) + 1 .. Len(players) + Len(new)
    BY <2>4
  <2>6. players'[p] = new[p - Len(players)] /\ new[p - Len(players)] \in job.names
    BY <2>2, <2>4, <2>5
  <2>7. CASE q \in DOMAIN players
    <3>1. Known(players'[p]) = {} /\ players'[q] = players[q]
      BY <2>4, <2>6, <2>7 DEF NamesAreNew
    <3> QED BY <2>7, <3>1 DEF Known
  <2>8. CASE q \notin DOMAIN players
    <3>1. q \in Len(players) + 1 .. Len(players) + Len(new)
      BY <2>4, <2>8
    <3>2. players'[q] = new[q - Len(players)] /\ new[q - Len(players)] \in job.names
      BY <2>2, <2>4, <3>1
    <3>3. new[p - Len(players)] # new[q - Len(players)]
      BY <2>2, <2>4, <2>5, <3>1
    <3> QED BY <2>6, <3>2, <3>3 DEF NamesAreNew
  <2> QED BY <2>7, <2>8
<1>2. CASE ~MakePlayers
  <2>1. players' = players
    BY <1>2 DEF Next, Ask, Save, Crash, Idle, SaveParticipants, SaveEntrants,
                WithdrawFromNext, Unregister, SavePlayer, SaveAccount, SaveTournament
  <2> QED BY <2>1
<1> QED BY <1>1, <1>2

\* Typing a name, or pasting a list, makes no player whose name another player
\* has, however the names are spelt and however often it is done again.
THEOREM TypedStaysOnce == Spec => TypedOnce
<1>1. Init => NamesAreNew
  BY DEF Init, Idle, NamesAreNew
<1>2. TypeOK /\ NamesAreNew /\ [Next]_vars => (TypeOK /\ NamesAreNew)'
  BY TypesStay, NamesStay
<1>3. TypeOK /\ NamesAreNew /\ [Next]_vars => [NewNamesOnly]_vars
  BY NamesAreMadeOnce DEF vars
<1> QED BY <1>1, <1>2, <1>3, InitTypes, PTL DEF Spec, TypedOnce, NewNamesOnly
=============================================================================
