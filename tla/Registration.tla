---------------------------- MODULE Registration ----------------------------
(***************************************************************************)
(* Who takes part: accounts and their players (account/, catalog/), the    *)
(* participants of a tournament and who of them may edit it                *)
(* (registration/, management/, auth/), the entrants of its divisions      *)
(* (structure/division/).                                                  *)
(*                                                                         *)
(* Every command is a few saves, one step each.  One request is handled at *)
(* a time, and the process may die between two saves of it: what was saved *)
(* stays, and the desk asks again as it likes.                             *)
(***************************************************************************)
EXTENDS Integers, FiniteSets, Sequences, SequencesExt

CONSTANTS Typed,          \* names as people type them
          Normalized(_),  \* what normalizePlayerName makes of one
          Lists,          \* the lists of names somebody pastes
          Accounts,
          Username(_),
          Divisions,
          None,
          MaxPlayers, MaxEntrants, MaxCrashes  \* bounds of the exploration

ASSUME NamesAssumption ==
    /\ \A l \in Lists : l \in Seq(Typed)
    /\ \A a \in Accounts : Username(a) \in Typed
    /\ None \notin Accounts \union Divisions

VARIABLES players,       \* the names of the players, by id
          playerOf,      \* the player of an account: none yet, or the account is not there
          tournament,    \* "none" yet, "open" or "closed"
          participants,  \* the account and the roles of each player who is registered
          entrants,      \* by id: of which division, whose, active or withdrawn
          preview,       \* the import somebody has before them: names and players
          job,           \* the request that is handled
          crashes

vars == <<players, playerOf, tournament, participants, entrants, preview, job, crashes>>

NoPlayer == 0
NoAccount == -1

Idle == [step |-> "idle"]
NoPreview == [names |-> {}, found |-> {}]

Init ==
    /\ players = <<>>
    /\ playerOf \in [Accounts -> {NoAccount, NoPlayer}]
    /\ tournament = "none"
    /\ participants = <<>>
    /\ entrants = <<>>
    /\ preview = NoPreview
    /\ job = Idle
    /\ crashes = 0

-----------------------------------------------------------------------------
(* Players and participants.  A participant is known by the player, as a   *)
(* unique index has it; registered again, it is another row, which no      *)
(* entrant has yet.                                                        *)

Known(name) == {p \in DOMAIN players : Normalized(players[p]) = Normalized(name)}

Unknown(names) == {n \in names : Known(n) = {}}

\* byNormalizedNames: for each name one player who has it, whichever comes last.
Found(names) ==
    LET known == names \ Unknown(names)
    IN  {{f[n] : n \in known} : f \in {g \in [known -> DOMAIN players] :
                                      \A n \in known : g[n] \in Known(n)}}

\* The first of each name as it is typed, for a preview.
TypedNames(list) == {list[i] : i \in DOMAIN list}

\* The first of each name, however it is typed.
DistinctNames(list) ==
    {list[i] : i \in {k \in DOMAIN list :
        \A h \in 1..k - 1 : Normalized(list[h]) # Normalized(list[k])}}

Registered == DOMAIN participants

MergeRoles(old, new) == (old \ {"unknown"}) \union new

\* Tournament.register, for competitors.
RegisterAll(found) ==
    [p \in Registered \union found |->
        IF p \notin Registered THEN [account |-> None, roles |-> {"competitor"}]
        ELSE IF p \in found
        THEN [participants[p] EXCEPT !.roles = MergeRoles(@, {"competitor"})]
        ELSE participants[p]]

-----------------------------------------------------------------------------
(* Entrants.                                                               *)

EntrantsOf(d, p) == {e \in DOMAIN entrants : entrants[e].division = d /\ p \in entrants[e].of}

\* Division.admit: whoever was there is active again, the others are new, in any order.
AdmitAll(d, found) ==
    LET new == SetToSeq({p \in found : EntrantsOf(d, p) = {}})
        isBack(e) == \E p \in found : e \in EntrantsOf(d, p)
    IN  [e \in DOMAIN entrants |-> [entrants[e] EXCEPT !.active = @ \/ isBack(e)]]
        \o [k \in DOMAIN new |-> [division |-> d, of |-> {new[k]}, active |-> TRUE]]

\* Division.withdrawParticipant, of the one entrant it finds.
Withdrawn(d, p) ==
    IF EntrantsOf(d, p) = {} THEN entrants
    ELSE [entrants EXCEPT ![CHOOSE e \in EntrantsOf(d, p) : TRUE].active = FALSE]

\* (For the mutants: one of the divisions.)
OneDivisionOf(p) ==
    LET all == {d \in Divisions : EntrantsOf(d, p) # {}}
    IN  IF all = {} THEN {} ELSE {CHOOSE d \in all : TRUE}

\* The divisions a participant is an entrant of, active or not.
DivisionsOf(p) == {d \in Divisions : EntrantsOf(d, p) # {}}

-----------------------------------------------------------------------------
(* Requests of several saves.                                              *)

IsOpen == tournament = "open"
Room(n) == Len(players) + n <= MaxPlayers

\* A request that creates players by the names, registers them with those it
\* found and, with a division, enters them all.
Registering(kind, names, found, division) ==
    job' = [step |-> IF names = {} THEN "register" ELSE "make",
            kind |-> kind, names |-> names, found |-> found, division |-> division]

\* POST participants, with a name or with a player; Start.gg registers players so too.
AskRegister ==
    /\ IsOpen
    /\ \/ \E name \in Typed : \E found \in Found({name}) :
             Room(1) /\ Registering("typed", Unknown({name}), found, None)
       \/ \E p \in DOMAIN players : Registering("chosen", {}, {p}, None)
    /\ UNCHANGED <<players, playerOf, tournament, participants, entrants, preview, crashes>>

\* POST players/divisions/bulk: names that are known are warned of and used.
AskBulk ==
    /\ IsOpen
    /\ \E list \in Lists, d \in Divisions :
          /\ Room(Len(list)) /\ Len(entrants) + Len(list) <= MaxEntrants
          /\ \E found \in Found(DistinctNames(list)) :
                Registering("typed", Unknown(DistinctNames(list)), found, d)
    /\ UNCHANGED <<players, playerOf, tournament, participants, entrants, preview, crashes>>

\* POST players/divisions.
AskAssign ==
    /\ IsOpen
    /\ Len(entrants) < MaxEntrants
    /\ \E p \in DOMAIN players, d \in Divisions : Registering("chosen", {}, {p}, d)
    /\ UNCHANGED <<players, playerOf, tournament, participants, entrants, preview, crashes>>

\* POST import-preview: every player a name matches, if not registered yet, and
\* the names that match nobody.
AskPreview ==
    /\ tournament # "none"
    /\ \E list \in Lists :
          LET names == TypedNames(list) IN
          preview' = [names |-> Unknown(names),
                      found |-> UNION {Known(n) : n \in names} \ Registered]
    /\ UNCHANGED <<players, playerOf, tournament, participants, entrants, job, crashes>>

\* POST import of what was previewed; the preview stays until it is answered.
AskImport ==
    /\ IsOpen /\ preview # NoPreview
    /\ Room(Cardinality(preview.names))
    /\ Registering("import", preview.names, preview.found, None)
    /\ UNCHANGED <<players, playerOf, tournament, participants, entrants, preview, crashes>>

\* DELETE participants/:id, after its divisions are read.
AskRemove ==
    /\ IsOpen
    /\ \E p \in Registered :
          job' = [step |-> IF DivisionsOf(p) = {} THEN "unregister" ELSE "withdraw",
                  who |-> p, left |-> DivisionsOf(p)]
    /\ UNCHANGED <<players, playerOf, tournament, participants, entrants, preview, crashes>>

\* POST user, with a username nobody has.
AskAccount ==
    /\ \E a \in Accounts : \E name \in {Username(a)} \union Typed :
          /\ playerOf[a] = NoAccount
          /\ Room(1)
          /\ job' = [step |-> "player", kind |-> "account", owner |-> a, name |-> name]
    /\ UNCHANGED <<players, playerOf, tournament, participants, entrants, preview, crashes>>

\* POST tournaments, by an account that may have no player yet (ensurePlayer).
AskTournament ==
    /\ tournament = "none"
    /\ \E a \in Accounts :
          /\ playerOf[a] # NoAccount
          /\ Room(1)
          /\ job' = [step |-> IF playerOf[a] = NoPlayer THEN "player" ELSE "create",
                     kind |-> "create", owner |-> a, name |-> Username(a)]
    /\ UNCHANGED <<players, playerOf, tournament, participants, entrants, preview, crashes>>

-----------------------------------------------------------------------------
(* Their saves.                                                            *)

\* PlayerStore.createAll, in one transaction.
MakePlayers ==
    /\ job.step = "make"
    /\ players' = players \o SetToSeq(job.names)
    /\ job' = [job EXCEPT !.step = "register",
                          !.found = @ \union (Len(players) + 1 .. Len(players'))]
    /\ UNCHANGED <<playerOf, tournament, participants, entrants, preview, crashes>>

SaveParticipants ==
    /\ job.step = "register"
    /\ participants' = RegisterAll(job.found)
    /\ job' = IF job.division = None THEN Idle ELSE [job EXCEPT !.step = "admit"]
    /\ preview' = IF job.kind = "import" THEN NoPreview ELSE preview
    /\ UNCHANGED <<players, playerOf, tournament, entrants, crashes>>

SaveEntrants ==
    /\ job.step = "admit"
    /\ entrants' = AdmitAll(job.division, job.found)
    /\ job' = Idle
    /\ UNCHANGED <<players, playerOf, tournament, participants, preview, crashes>>

\* Removal: division by division ...
WithdrawFromNext ==
    /\ job.step = "withdraw"
    /\ \E d \in job.left :
          /\ entrants' = Withdrawn(d, job.who)
          /\ job' = [job EXCEPT !.left = @ \ {d},
                                !.step = IF job.left = {d} THEN "unregister" ELSE "withdraw"]
    /\ UNCHANGED <<players, playerOf, tournament, participants, preview, crashes>>

\* ... and then the row, with which the entrants lose it.
Unregister ==
    /\ job.step = "unregister"
    /\ participants' = [p \in Registered \ {job.who} |-> participants[p]]
    /\ entrants' = [e \in DOMAIN entrants |-> [entrants[e] EXCEPT !.of = @ \ {job.who}]]
    /\ job' = Idle
    /\ UNCHANGED <<players, playerOf, tournament, preview, crashes>>

SavePlayer ==
    /\ job.step = "player"
    /\ players' = Append(players, job.name)
    /\ job' = [job EXCEPT !.step = "save"]
    /\ UNCHANGED <<playerOf, tournament, participants, entrants, preview, crashes>>

SaveAccount ==
    /\ job.step = "save"
    /\ playerOf' = [playerOf EXCEPT ![job.owner] = Len(players)]
    /\ job' = IF job.kind = "create" THEN [job EXCEPT !.step = "create"] ELSE Idle
    /\ UNCHANGED <<players, tournament, participants, entrants, preview, crashes>>

SaveTournament ==
    /\ job.step = "create"
    /\ tournament' = "open"
    /\ participants' = [p \in {playerOf[job.owner]} |-> [account |-> job.owner, roles |-> {"owner"}]]
    /\ job' = Idle
    /\ UNCHANGED <<players, playerOf, entrants, preview, crashes>>

Crash ==
    /\ job # Idle /\ crashes < MaxCrashes
    /\ job' = Idle
    /\ crashes' = crashes + 1
    /\ UNCHANGED <<players, playerOf, tournament, participants, entrants, preview>>

-----------------------------------------------------------------------------
(* Requests of one save.                                                   *)

\* (For the mutants: only the account the participant names.)
OwnAccount(p) == participants[p].account

\* The account of whoever's player it is, if the participant names none.
AccountFor(p) ==
    LET byPlayer == {a \in Accounts : playerOf[a] = p} IN
    IF participants[p].account # None THEN participants[p].account
    ELSE IF byPlayer = {} THEN None ELSE CHOOSE a \in byPlayer : TRUE

GrantStaff ==
    /\ IsOpen
    /\ \E p \in Registered :
          participants' = [participants EXCEPT
              ![p] = [account |-> AccountFor(p), roles |-> MergeRoles(@.roles, {"staff"})]]
    /\ UNCHANGED <<players, playerOf, tournament, entrants, preview, job, crashes>>

RevokeStaff ==
    /\ IsOpen
    /\ \E p \in Registered :
          participants' = [participants EXCEPT ![p].roles =
              IF @ \subseteq {"staff"} THEN {"unknown"} ELSE @ \ {"staff"}]
    /\ UNCHANGED <<players, playerOf, tournament, entrants, preview, job, crashes>>

\* POST divisions/:id/participants, of those the tournament has.
AddParticipants ==
    /\ IsOpen
    /\ \E d \in Divisions, those \in SUBSET Registered :
          /\ Len(entrants) + Cardinality(those) <= MaxEntrants
          /\ entrants' = AdmitAll(d, those)
    /\ UNCHANGED <<players, playerOf, tournament, participants, preview, job, crashes>>

\* DELETE of a participant of a division, or of a player.
RemoveParticipant ==
    /\ IsOpen
    /\ \E d \in Divisions, p \in Registered : entrants' = Withdrawn(d, p)
    /\ UNCHANGED <<players, playerOf, tournament, participants, preview, job, crashes>>

\* PATCH user/:id/profile: whoever renames themselves renames their player.
Rename ==
    /\ \E a \in Accounts, name \in Typed :
          /\ playerOf[a] \notin {NoAccount, NoPlayer}
          /\ players' = [players EXCEPT ![playerOf[a]] = name]
    /\ UNCHANGED <<playerOf, tournament, participants, entrants, preview, job, crashes>>

CloseOrReopen ==
    /\ tournament # "none"
    /\ tournament' = IF IsOpen THEN "closed" ELSE "open"
    /\ UNCHANGED <<players, playerOf, participants, entrants, preview, job, crashes>>

Ask ==
    /\ job = Idle
    /\ \/ AskRegister \/ AskBulk \/ AskAssign \/ AskPreview \/ AskImport \/ AskRemove
       \/ AskAccount \/ AskTournament \/ GrantStaff \/ RevokeStaff \/ AddParticipants
       \/ RemoveParticipant \/ Rename \/ CloseOrReopen

Save ==
    \/ MakePlayers \/ SaveParticipants \/ SaveEntrants \/ WithdrawFromNext \/ Unregister
    \/ SavePlayer \/ SaveAccount \/ SaveTournament

Next == Ask \/ Save \/ Crash

Spec == Init /\ [][Next]_vars

-----------------------------------------------------------------------------
(* Who may edit the tournament, as three places ask it.                    *)

Edits(p) == participants[p].roles \intersect {"owner", "staff"} # {}

\* TournamentAccessGuard takes one row that names the account or its player.
RowsOf(a) == {p \in Registered : participants[p].account = a \/ playerOf[a] = p}

\* The roles a page is told of (rolesFor): those of any such row.
IsToldToEdit(a) == \E p \in RowsOf(a) : Edits(p)

\* What Start.gg reports ask (canEdit): only rows that name the account.
CanEdit(a) == \E p \in Registered : participants[p].account = a /\ Edits(p)

-----------------------------------------------------------------------------
(* Properties                                                              *)

Roles == {"owner", "staff", "competitor", "unknown"}
Participant == [account : Accounts \union {None}, roles : SUBSET Roles]
Entrant == [division : Divisions, of : SUBSET Nat, active : BOOLEAN]
Registrations ==
    [step : {"make", "register", "admit"}, kind : {"typed", "chosen", "import"},
     names : SUBSET Typed, found : SUBSET DOMAIN players, division : Divisions \union {None}]
Removals ==
    [step : {"withdraw", "unregister"}, who : DOMAIN players, left : SUBSET Divisions]
Accountings ==
    [step : {"player", "save", "create"}, kind : {"account", "create"},
     owner : Accounts, name : Typed]

\* Rows refer to players who exist; a division somebody is admitted to as well.
TypeOK ==
    /\ players \in Seq(Typed)
    /\ playerOf \in [Accounts -> {NoAccount} \union (0..Len(players))]
    /\ tournament \in {"none", "open", "closed"}
    /\ participants \in [Registered -> Participant] /\ Registered \subseteq DOMAIN players
    /\ entrants \in Seq(Entrant)
    /\ preview \in [names : SUBSET Typed, found : SUBSET DOMAIN players]
    /\ IsFiniteSet(preview.names)
    /\ job \in {Idle} \union Registrations \union Removals \union Accountings
    /\ job.step = "make" => IsFiniteSet(job.names)
    /\ job.step = "admit" => job.division \in Divisions
    /\ job.step = "save" => players # <<>>
    /\ job.step = "create" => playerOf[job.owner] \in DOMAIN players
    /\ crashes \in Nat

\* Whoever may edit the tournament by one of the three ways the code asks may
\* by the others, whatever was granted before or after somebody had an account.
EditorsAgree ==
    \A a \in Accounts :
        /\ IsToldToEdit(a) <=> CanEdit(a)
        /\ \A p \in RowsOf(a) : Edits(p) <=> CanEdit(a)

\* Every active entrant has somebody who plays, wherever a removal was cut short,
\* and nobody is in a division twice: adding somebody back restores the entrant.
EntrantsMirrorParticipants ==
    /\ \A e \in DOMAIN entrants :
          entrants[e].active => entrants[e].of # {} /\ entrants[e].of \subseteq Registered
    /\ \A d \in Divisions : \A p \in Registered :
          \A e, f \in EntrantsOf(d, p) : e = f

\* A name somebody types becomes a player only if no player has it, in whichever
\* case it is typed, also when the answer was lost and it is typed again.
TypedOnce ==
    [][job.step = "make" /\ job.kind = "typed" =>
          \A p \in DOMAIN players' \ DOMAIN players : \A q \in DOMAIN players' \ {p} :
              Normalized(players'[p]) # Normalized(players'[q])]_vars

=============================================================================
