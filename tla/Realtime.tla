------------------------------ MODULE Realtime ------------------------------
(***************************************************************************)
(* How an open page learns that what it shows has changed.  A command      *)
(* saves and then publishes its events (ui-update.publisher.ts); Redis     *)
(* carries them to the realtime service, which numbers and broadcasts them *)
(* (apps/realtime); the page marks the queries an event names as stale and *)
(* fetches them again, 150 ms after the last one (useRealtimeSocket.ts,    *)
(* TournamentUpdates.tsx, staleAfterUpdate.ts).  Nothing else ever fetches *)
(* again: queries never grow stale by themselves (providers.tsx).          *)
(*                                                                         *)
(* One tournament, with one match; the page has a query of every key open. *)
(* Warnings and messages of the snapshot change nothing a page keeps.      *)
(* TanStack Query is external: invalidating a query fetches it again and   *)
(* cancels the fetch under way, unless that is its first.                  *)
(***************************************************************************)
EXTENDS Integers, Sequences, FiniteSets

CONSTANTS
    Keys,         \* the queries the pages have open
    Clients,      \* the pages
    Writers,      \* the requests that change something
    Commands,     \* what they may do, below
    Faults,       \* what may go wrong: "drop", "restart", "loss"
    MaxChanges, MaxFaults     \* bounds

AllKeys == {"overview", "configuration", "participants", "players", "songs", "summary",
            "entrants", "byId", "poolMatches", "divisionMatches", "lists", "activity", "editor"}

Events == {"TournamentUpdate", "SongsUpdate", "DivisionUpdate", "PhaseUpdate",
           "PhaseGroupUpdate", "MatchUpdate", "ScheduleUpdate", "UiWarning"}

\* The queries an event makes stale.
StaleAfter(e) ==
    CASE e = "TournamentUpdate" -> {"overview", "configuration", "participants", "players"}
      [] e = "SongsUpdate"      -> {"songs"}
      [] e = "DivisionUpdate"   -> {"overview", "summary", "entrants"}
      [] e = "PhaseUpdate"      -> {"overview", "summary"}
      [] e = "PhaseGroupUpdate" -> {"overview", "summary", "poolMatches", "divisionMatches"}
      [] e = "MatchUpdate"      -> {"byId", "poolMatches", "divisionMatches", "lists"}
      [] e = "ScheduleUpdate"   -> {"lists", "activity", "editor"}
      [] OTHER                  -> {}

\* What commands change, as the queries show it, and what they say of it: a score,
\* a score that decides or reopens its pool, a pool renamed, entrants seeded, a
\* schedule started or moved on, a participant registered.
Score    == [changes |-> {"byId", "poolMatches", "divisionMatches", "lists"},
             says    |-> <<"MatchUpdate">>]
Decide   == [changes |-> Score.changes \union {"overview", "summary"},
             says    |-> <<"MatchUpdate", "PhaseGroupUpdate">>]
Rename   == [changes |-> {"overview", "summary"},
             says    |-> <<"PhaseUpdate", "PhaseGroupUpdate">>]
Seed     == [changes |-> {"entrants"}, says |-> <<"DivisionUpdate">>]
Start    == [changes |-> {"lists", "activity", "editor", "byId", "poolMatches", "divisionMatches"},
             says    |-> <<"ScheduleUpdate", "MatchUpdate">>]
Register == [changes |-> {"overview", "participants", "players"}, says |-> <<"TournamentUpdate">>]

ASSUME KeysAssumption == Keys \subseteq AllKeys
ASSUME BoundsAssumption ==
    Faults \subseteq {"drop", "restart", "loss"} /\ MaxChanges \in Nat /\ MaxFaults \in Nat
\* Commands say what they change.  (Applying a structure plan does not: see README.md.)
ASSUME CommandsAssumption ==
    Commands \subseteq [changes : SUBSET AllKeys, says : Seq(Events)]
ASSUME NamesAssumption ==
    \A m \in Commands : \A k \in m.changes : \E i \in DOMAIN m.says : k \in StaleAfter(m.says[i])

VARIABLES
    db,           \* the versions of what the queries show
    todo,         \* the events a writer has yet to publish
    wire,         \* the events in Redis, between API and realtime
    sent,         \* the sequence number of the last event, as realtime has it
    open,         \* the pages whose socket is open
    queue,        \* what is on its way to them
    last,         \* the last sequence number a page has seen, or None
    resumed,      \* the pages whose next connection is not the first
    pending,      \* the keys to be marked stale when the timer fires
    cache,        \* what the page shows, or None
    asked,        \* the queries that are under way to the API
    answer,       \* and those on their way back
    owed,         \* history: changes made while the page was in touch, not shown yet
    away,         \* history: pages not connected since the service started again
    changes, faults           \* count what is bounded

socket == <<open, queue, last, resumed>>
page   == <<pending, cache, asked, answer>>
history == <<owed, away>>
counts == <<changes, faults>>
vars   == <<db, todo, wire, sent, socket, page, history, counts>>

None == -1
Ready == "RealtimeReady"
Message == [event : Events \union {Ready}, sequence : Nat]

\* Loaded, and connected to the service as it runs.
InTouch(c) == last[c] # None /\ c \notin away /\ \A k \in Keys : cache[c][k] # None

----------------------------------------------------------------------------
(* The API and the realtime service                                        *)

Command(w, m) ==
    /\ changes < MaxChanges /\ todo[w] = <<>>
    /\ db' = [k \in Keys |-> IF k \in m.changes THEN db[k] + 1 ELSE db[k]]
    /\ todo' = [todo EXCEPT ![w] = m.says]
    /\ owed' = [c \in Clients |->
                  IF InTouch(c) THEN owed[c] \union (m.changes \intersect Keys) ELSE owed[c]]
    /\ changes' = changes + 1
    /\ UNCHANGED <<wire, sent, socket, page, away, faults>>

Publish(w) ==
    /\ todo[w] # <<>>
    /\ wire' = Append(wire, Head(todo[w]))
    /\ todo' = [todo EXCEPT ![w] = Tail(@)]
    /\ UNCHANGED <<db, sent, socket, page, history, counts>>

Numbered(e) == [event |-> e, sequence |-> sent + 1]

Forward ==
    /\ wire # <<>>
    /\ wire' = Tail(wire)
    /\ sent' = sent + 1
    /\ queue' = [c \in Clients |->
                   IF open[c] THEN Append(queue[c], Numbered(Head(wire)))
                   ELSE queue[c]]
    /\ UNCHANGED <<db, todo, open, last, resumed, page, history, counts>>

Fault(kind) == kind \in Faults /\ faults < MaxFaults /\ faults' = faults + 1

\* Redis forgets an event nobody was there to receive, or to send.
Lose ==
    /\ Fault("loss") /\ wire # <<>>
    /\ wire' = Tail(wire)
    /\ owed' = [c \in Clients |-> owed[c] \ StaleAfter(Head(wire))]
    /\ UNCHANGED <<db, todo, sent, socket, page, away, changes>>

\* The realtime service starts again: it counts from 0, and nobody listened meanwhile.
Restart ==
    /\ Fault("restart")
    /\ wire' = <<>> /\ sent' = 0
    /\ open' = [c \in Clients |-> FALSE] /\ queue' = [c \in Clients |-> <<>>]
    /\ resumed' = [c \in Clients |-> TRUE]
    /\ owed' = [c \in Clients |-> {}] /\ away' = Clients
    /\ UNCHANGED <<db, todo, last, page, changes>>

----------------------------------------------------------------------------
(* A page and its socket                                                   *)

\* The server answers the upgrade with where it stands.
Connect(c) ==
    /\ ~open[c]
    /\ open' = [open EXCEPT ![c] = TRUE]
    /\ queue' = [queue EXCEPT ![c] = <<[event |-> Ready, sequence |-> sent]>>]
    /\ UNCHANGED <<db, todo, wire, sent, last, resumed, page, history, counts>>

\* The connection breaks, or could not be made.
Drop(c) ==
    /\ Fault("drop")
    /\ open' = [open EXCEPT ![c] = FALSE]
    /\ queue' = [queue EXCEPT ![c] = <<>>]
    /\ resumed' = [resumed EXCEPT ![c] = TRUE]
    /\ UNCHANGED <<db, todo, wire, sent, last, page, history, changes>>

\* (For the mutants: a fetch under way will do.)
JoinFetch(c, keys) ==
    /\ asked' = [asked EXCEPT ![c] = @ \union {k \in keys : answer[c][k] = None}]
    /\ UNCHANGED answer

\* Fetches these again; a first fetch goes on as it is.
Invalidate(c, keys) ==
    LET again == {k \in keys : cache[c][k] # None \/ answer[c][k] = None}
    IN  /\ asked' = [asked EXCEPT ![c] = @ \union again]
        /\ answer' = [answer EXCEPT ![c] = [k \in Keys |-> IF k \in again THEN None ELSE @[k]]]

\* (For the mutants: a reconnect is no reason.)
OnlyGaps(c, m) == m.event # Ready /\ last[c] # None /\ m.sequence > last[c] + 1

\* The page has missed something: it is connected again and the server is further, or
\* a number is missing.
Missed(c, m) ==
    IF m.event = Ready THEN resumed[c] /\ (last[c] = None \/ m.sequence > last[c])
    ELSE last[c] # None /\ m.sequence > last[c] + 1

News(c, m) == m.event # Ready /\ (last[c] = None \/ m.sequence > last[c])

Receive(c) ==
    /\ open[c] /\ queue[c] # <<>>
    /\ queue' = [queue EXCEPT ![c] = Tail(@)]
    /\ LET m == Head(queue[c])
       IN  /\ resumed' = [resumed EXCEPT ![c] = IF m.event = Ready THEN FALSE ELSE @]
           /\ last' = [last EXCEPT ![c] = IF m.event = Ready \/ News(c, m) THEN m.sequence ELSE @]
           /\ pending' = [pending EXCEPT ![c] =
                            IF News(c, m) THEN @ \union (StaleAfter(m.event) \intersect Keys) ELSE @]
           /\ Invalidate(c, IF Missed(c, m) THEN Keys ELSE {})
           /\ away' = IF m.event = Ready THEN away \ {c} ELSE away
    /\ UNCHANGED <<db, todo, wire, sent, open, cache, owed, counts>>

\* The timer, which every message sets back, fires.
Flush(c) ==
    /\ pending[c] # {}
    /\ pending' = [pending EXCEPT ![c] = {}]
    /\ Invalidate(c, pending[c])
    /\ UNCHANGED <<db, todo, wire, sent, socket, cache, history, counts>>

Answer(c, k) ==
    /\ k \in asked[c]
    /\ asked' = [asked EXCEPT ![c] = @ \ {k}]
    /\ answer' = [answer EXCEPT ![c][k] = db[k]]
    /\ UNCHANGED <<db, todo, wire, sent, socket, pending, cache, history, counts>>

Arrive(c, k) ==
    /\ answer[c][k] # None
    /\ cache' = [cache EXCEPT ![c][k] = answer[c][k]]
    /\ answer' = [answer EXCEPT ![c][k] = None]
    /\ owed' = [owed EXCEPT ![c] = IF answer[c][k] = db[k] THEN @ \ {k} ELSE @]
    /\ UNCHANGED <<db, todo, wire, sent, socket, pending, asked, away, counts>>

----------------------------------------------------------------------------

\* The pages are opened while the tournament runs.
Init ==
    /\ db = [k \in Keys |-> 0]
    /\ todo = [w \in Writers |-> <<>>]
    /\ wire = <<>> /\ sent = 0
    /\ open = [c \in Clients |-> FALSE]
    /\ queue = [c \in Clients |-> <<>>]
    /\ last = [c \in Clients |-> None]
    /\ resumed = [c \in Clients |-> FALSE]
    /\ pending = [c \in Clients |-> {}]
    /\ cache = [c \in Clients |-> [k \in Keys |-> None]]
    /\ asked = [c \in Clients |-> Keys]
    /\ answer = [c \in Clients |-> [k \in Keys |-> None]]
    /\ owed = [c \in Clients |-> {}] /\ away = {}
    /\ changes = 0 /\ faults = 0

Next ==
    \/ \E w \in Writers : Publish(w) \/ \E m \in Commands : Command(w, m)
    \/ Forward \/ Lose \/ Restart
    \/ \E c \in Clients : Connect(c) \/ Drop(c) \/ Receive(c) \/ Flush(c)
    \/ \E c \in Clients : \E k \in Keys : Answer(c, k) \/ Arrive(c, k)

Spec == Init /\ [][Next]_vars

\* Requests go on, the services run, a page reconnects for ever and its timer fires;
\* nobody need change anything and no connection need break.
Fairness ==
    /\ \A w \in Writers : WF_vars(Publish(w))
    /\ WF_vars(Forward)
    /\ \A c \in Clients : WF_vars(Connect(c)) /\ WF_vars(Receive(c)) /\ WF_vars(Flush(c))
    /\ \A c \in Clients : \A k \in Keys : WF_vars(Answer(c, k)) /\ WF_vars(Arrive(c, k))

FairSpec == Spec /\ Fairness

----------------------------------------------------------------------------
(* Properties                                                              *)

\* Types of everything that is kept or under way.
TypeOK ==
    /\ db \in [Keys -> Nat] /\ sent \in Nat
    /\ todo \in [Writers -> Seq(Events)] /\ wire \in Seq(Events)
    /\ open \in [Clients -> BOOLEAN] /\ resumed \in [Clients -> BOOLEAN]
    /\ queue \in [Clients -> Seq(Message)]
    /\ last \in [Clients -> Nat \union {None}]
    /\ pending \in [Clients -> SUBSET Keys] /\ asked \in [Clients -> SUBSET Keys]
    /\ cache \in [Clients -> [Keys -> Nat \union {None}]]
    /\ answer \in [Clients -> [Keys -> Nat \union {None}]]
    /\ owed \in [Clients -> SUBSET Keys] /\ away \subseteq Clients
    /\ changes \in Nat /\ faults \in Nat

Tells(e, k) == k \in StaleAfter(e)

\* Something under way will have the page fetch k again, or the fetch is under way.
OnItsWay(c, k) ==
    \/ k \in asked[c] \/ answer[c][k] = db[k] \/ k \in pending[c]
    \/ \E w \in Writers : \E i \in DOMAIN todo[w] : Tells(todo[w][i], k)
    \/ \E i \in DOMAIN wire : Tells(wire[i], k)
    \/ \E i \in DOMAIN queue[c] :
          /\ queue[c][i].event # Ready /\ Tells(queue[c][i].event, k)
          /\ queue[c][i].sequence > last[c]
    \/ /\ open[c] /\ queue[c] # <<>> /\ Head(queue[c]).event = Ready
       /\ resumed[c] /\ Head(queue[c]).sequence > last[c]
    \/ ~open[c] /\ resumed[c] /\ sent > last[c]

\* No page is left behind: as long as it does not show a change made while it was in
\* touch, something is under way that will have it fetched again, whatever connections
\* break and whichever fetch a message overtakes.  (What Redis loses, or a restart of
\* the service, is not made up for, and not owed.)
OwedIsComing == \A c \in Clients : \A k \in owed[c] : OnItsWay(c, k)

\* And in the end a page shows what it is owed.
OwedIsShown == \A c \in Clients : owed[c] # {} ~> owed[c] = {}

=============================================================================
