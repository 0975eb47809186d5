--------------------------- MODULE RealtimeProofs ---------------------------
(***************************************************************************)
(* For every number of pages, writers, commands and faults: a page that    *)
(* does not show a change made while it was in touch will be told of it.   *)
(*                                                                         *)
(* OwedIsComing is inductive once it is known how a page and its socket    *)
(* hang together (Linked): what is on its way is numbered upwards and up   *)
(* to what the service has sent, a page in touch has not seen more than    *)
(* that, and a page that was connected before will ask where it stands.    *)
(***************************************************************************)
EXTENDS Realtime, TLAPS

\* A page, its socket and what is owed to it.
Linked(c) ==
    /\ ~open[c] => queue[c] = <<>> /\ (last[c] # None => resumed[c])
    /\ \A i \in DOMAIN queue[c] : queue[c][i].sequence <= sent
    /\ \A i, j \in DOMAIN queue[c] : i < j => queue[c][i].sequence < queue[c][j].sequence
    /\ c \notin away => last[c] <= sent
    /\ c \in away => owed[c] = {}
    /\ owed[c] # {} => last[c] # None
    /\ \A k \in owed[c] : cache[c][k] # None

AllLinked == \A c \in Clients : Linked(c)

FeedInv == TypeOK /\ AllLinked /\ OwedIsComing

-----------------------------------------------------------------------------
(* Sequences.                                                              *)

\* The first leaves, the others move up.
LEMMA TailFacts ==
    ASSUME NEW S, NEW s \in Seq(S), s # <<>>
    PROVE  /\ Tail(s) \in Seq(S) /\ 1 \in DOMAIN s /\ Head(s) = s[1] /\ Head(s) \in S
           /\ \A i \in DOMAIN Tail(s) : i + 1 \in DOMAIN s /\ Tail(s)[i] = s[i + 1] /\ i \in Nat
           /\ \A i \in DOMAIN s :
                 i # 1 => i - 1 \in DOMAIN Tail(s) /\ Tail(s)[i - 1] = s[i]
OBVIOUS

\* The new one is the last.
LEMMA AppendFacts ==
    ASSUME NEW S, NEW s \in Seq(S), NEW e \in S
    PROVE  /\ Append(s, e) \in Seq(S)
           /\ DOMAIN Append(s, e) = 1..(Len(s) + 1) /\ DOMAIN s = 1..Len(s)
           /\ Append(s, e)[Len(s) + 1] = e
           /\ \A i \in DOMAIN s : Append(s, e)[i] = s[i]
OBVIOUS

-----------------------------------------------------------------------------
(* Types.                                                                  *)

LEMMA NoneIsNot == None \notin Nat /\ \A x \in Nat \union {None} : x # None => x \in Nat
BY DEF None

\* What is told of is among the keys that exist; events are what they are.
LEMMA EventsAreKnown == \A m \in Commands : m.says \in Seq(Events) /\ m.changes \subseteq AllKeys
BY CommandsAssumption

LEMMA InvalidateTypes ==
    ASSUME TypeOK, NEW c \in Clients, NEW keys \in SUBSET Keys, Invalidate(c, keys)
    PROVE  /\ asked' \in [Clients -> SUBSET Keys]
           /\ answer' \in [Clients -> [Keys -> Nat \union {None}]]
<1>1. asked \in [Clients -> SUBSET Keys] /\ answer \in [Clients -> [Keys -> Nat \union {None}]]
  BY DEF TypeOK
<1>2. \A f \in [Keys -> Nat \union {None}] : \A again \in SUBSET Keys :
          [k \in Keys |-> IF k \in again THEN None ELSE f[k]] \in [Keys -> Nat \union {None}]
  OBVIOUS
<1> QED BY <1>1, <1>2 DEF Invalidate

\* Every step keeps the types.
LEMMA TypesStay == TypeOK /\ [Next]_vars => TypeOK'
<1> SUFFICES ASSUME TypeOK, [Next]_vars PROVE TypeOK'
  OBVIOUS
<1>1. ASSUME NEW w \in Writers, Publish(w) PROVE TypeOK'
  <2>1. todo[w] \in Seq(Events) /\ todo[w] # <<>>
    BY <1>1 DEF Publish, TypeOK
  <2>2. Tail(todo[w]) \in Seq(Events) /\ Head(todo[w]) \in Events
    BY <2>1, TailFacts
  <2>3. todo' \in [Writers -> Seq(Events)] /\ wire' \in Seq(Events)
    BY <1>1, <2>2, AppendFacts DEF Publish, TypeOK
  <2> QED BY <1>1, <2>3 DEF Publish, TypeOK, socket, page, history, counts
<1>2. ASSUME NEW w \in Writers, NEW m \in Commands, Command(w, m) PROVE TypeOK'
  <2>1. db' \in [Keys -> Nat] /\ todo' \in [Writers -> Seq(Events)]
    BY <1>2, EventsAreKnown DEF Command, TypeOK
  <2>2. owed' \in [Clients -> SUBSET Keys] /\ changes' \in Nat
    BY <1>2 DEF Command, TypeOK
  <2> QED BY <1>2, <2>1, <2>2 DEF Command, TypeOK, socket, page
<1>3. CASE Forward
  <2>1. wire' \in Seq(Events) /\ Head(wire) \in Events /\ sent' \in Nat
    BY <1>3, TailFacts DEF Forward, TypeOK
  <2>2. Numbered(Head(wire)) \in Message
    BY <2>1 DEF Numbered, Message, TypeOK
  <2>3. queue' \in [Clients -> Seq(Message)]
    BY <1>3, <2>2, AppendFacts DEF Forward, TypeOK
  <2> QED BY <1>3, <2>1, <2>3 DEF Forward, TypeOK, page, history, counts
<1>4. CASE Lose
  <2>1. wire' \in Seq(Events) /\ owed' \in [Clients -> SUBSET Keys] /\ faults' \in Nat
    BY <1>4, TailFacts DEF Lose, Fault, TypeOK
  <2> QED BY <1>4, <2>1 DEF Lose, TypeOK, socket, page
<1>5. CASE Restart
  <2>1. wire' \in Seq(Events) /\ sent' \in Nat /\ faults' \in Nat /\ away' \subseteq Clients
    BY <1>5 DEF Restart, Fault, TypeOK
  <2>2. queue' \in [Clients -> Seq(Message)] /\ owed' \in [Clients -> SUBSET Keys]
    BY <1>5 DEF Restart
  <2>3. open' \in [Clients -> BOOLEAN] /\ resumed' \in [Clients -> BOOLEAN]
    BY <1>5 DEF Restart
  <2> QED BY <1>5, <2>1, <2>2, <2>3 DEF Restart, TypeOK, page
<1>6. ASSUME NEW c \in Clients, Connect(c) PROVE TypeOK'
  <2>1. [event |-> Ready, sequence |-> sent] \in Message
    BY DEF Message, TypeOK
  <2>2. open' \in [Clients -> BOOLEAN] /\ queue' \in [Clients -> Seq(Message)]
    BY <1>6, <2>1 DEF Connect, TypeOK
  <2> QED BY <1>6, <2>2 DEF Connect, TypeOK, page, history, counts
<1>7. ASSUME NEW c \in Clients, Drop(c) PROVE TypeOK'
  <2>1. open' \in [Clients -> BOOLEAN] /\ queue' \in [Clients -> Seq(Message)]
    BY <1>7 DEF Drop, TypeOK
  <2>2. resumed' \in [Clients -> BOOLEAN] /\ faults' \in Nat
    BY <1>7 DEF Drop, Fault, TypeOK
  <2> QED BY <1>7, <2>1, <2>2 DEF Drop, TypeOK, page, history
<1>8. ASSUME NEW c \in Clients, Receive(c) PROVE TypeOK'
  <2> DEFINE m == Head(queue[c])
  <2>1. m \in Message /\ Tail(queue[c]) \in Seq(Message)
    BY <1>8, TailFacts DEF Receive, TypeOK
  <2>2. m.sequence \in Nat
    BY <2>1 DEF Message
  <2>3. queue' \in [Clients -> Seq(Message)] /\ resumed' \in [Clients -> BOOLEAN]
    BY <1>8, <2>1 DEF Receive, TypeOK
  <2>4. last' \in [Clients -> Nat \union {None}] /\ away' \subseteq Clients
    BY <1>8, <2>2 DEF Receive, TypeOK
  <2>5. pending' \in [Clients -> SUBSET Keys]
    BY <1>8 DEF Receive, TypeOK
  <2>6. /\ asked' \in [Clients -> SUBSET Keys]
        /\ answer' \in [Clients -> [Keys -> Nat \union {None}]]
    BY <1>8, InvalidateTypes DEF Receive
  <2> QED BY <1>8, <2>3, <2>4, <2>5, <2>6 DEF Receive, TypeOK, counts
<1>9. ASSUME NEW c \in Clients, Flush(c) PROVE TypeOK'
  <2>1. /\ asked' \in [Clients -> SUBSET Keys]
        /\ answer' \in [Clients -> [Keys -> Nat \union {None}]]
    BY <1>9, InvalidateTypes DEF Flush, TypeOK
  <2>2. pending' \in [Clients -> SUBSET Keys]
    BY <1>9 DEF Flush, TypeOK
  <2> QED BY <1>9, <2>1, <2>2 DEF Flush, TypeOK, socket, history, counts
<1>10. ASSUME NEW c \in Clients, NEW k \in Keys, Answer(c, k) PROVE TypeOK'
  <2>1. asked' \in [Clients -> SUBSET Keys]
    BY <1>10 DEF Answer, TypeOK
  <2>2. [answer[c] EXCEPT ![k] = db[k]] \in [Keys -> Nat \union {None}]
    BY DEF TypeOK
  <2>3. answer' \in [Clients -> [Keys -> Nat \union {None}]]
    BY <1>10, <2>2 DEF Answer, TypeOK
  <2> QED BY <1>10, <2>1, <2>3 DEF Answer, TypeOK, socket, history, counts
<1>11. ASSUME NEW c \in Clients, NEW k \in Keys, Arrive(c, k) PROVE TypeOK'
  <2>1. owed' \in [Clients -> SUBSET Keys]
    BY <1>11 DEF Arrive, TypeOK
  <2>2. /\ [answer[c] EXCEPT ![k] = None] \in [Keys -> Nat \union {None}]
        /\ [cache[c] EXCEPT ![k] = answer[c][k]] \in [Keys -> Nat \union {None}]
    BY DEF TypeOK
  <2>3. /\ answer' \in [Clients -> [Keys -> Nat \union {None}]]
        /\ cache' \in [Clients -> [Keys -> Nat \union {None}]]
    BY <1>11, <2>2 DEF Arrive, TypeOK
  <2> QED BY <1>11, <2>1, <2>3 DEF Arrive, TypeOK, socket, counts
<1>12. CASE UNCHANGED vars
  BY <1>12 DEF TypeOK, vars, socket, page, history, counts
<1> QED BY <1>1, <1>2, <1>3, <1>4, <1>5, <1>6, <1>7, <1>8, <1>9, <1>10, <1>11, <1>12 DEF Next

-----------------------------------------------------------------------------
(* Pages and sockets.                                                      *)

\* Where neither a socket nor what is owed changes, nothing does.
LEMMA SameSockets ==
    ASSUME AllLinked, UNCHANGED <<socket, sent, away, owed, cache>>
    PROVE  AllLinked'
BY DEF AllLinked, Linked, socket

\* What a step adds to what is owed it owes to a page in touch.
LEMMA CommandLinked ==
    ASSUME TypeOK, AllLinked, NEW w \in Writers, NEW m \in Commands, Command(w, m)
    PROVE  AllLinked'
<1> SUFFICES ASSUME NEW c \in Clients PROVE Linked(c)'
  BY DEF AllLinked
<1>1. Linked(c) /\ UNCHANGED <<sent, socket, away, cache>>
  BY DEF AllLinked, Command, page
<1>2. owed'[c] = IF InTouch(c) THEN owed[c] \union (m.changes \intersect Keys) ELSE owed[c]
  BY DEF Command
<1>3. CASE InTouch(c)
  BY <1>1, <1>2, <1>3 DEF Linked, InTouch, socket
<1>4. CASE ~InTouch(c)
  BY <1>1, <1>2, <1>4 DEF Linked, socket
<1> QED BY <1>3, <1>4

\* A new message has the highest number.
LEMMA ForwardLinked ==
    ASSUME TypeOK, AllLinked, Forward
    PROVE  AllLinked'
<1> SUFFICES ASSUME NEW c \in Clients PROVE Linked(c)'
  BY DEF AllLinked
<1> DEFINE m == Numbered(Head(wire))
           q == queue[c]
<1>1. Linked(c) /\ UNCHANGED <<open, last, resumed, cache, away, owed>>
  BY DEF AllLinked, Forward, page, history
<1>2. m \in Message /\ m.sequence = sent + 1 /\ sent' = sent + 1 /\ sent \in Nat
  BY TailFacts DEF Forward, Numbered, Message, TypeOK
<1>3. q \in Seq(Message) /\ last[c] \in Int /\ \A i \in DOMAIN q : q[i].sequence \in Nat /\ i \in Nat
  <2>1. q \in Seq(Message) /\ last[c] \in Int
    BY DEF TypeOK, None
  <2>2. \A i \in DOMAIN q : q[i] \in Message /\ i \in Nat
    BY <2>1
  <2> QED BY <2>1, <2>2 DEF Message
<1>4. CASE open[c]
  <2>1. queue'[c] = Append(q, m)
    BY <1>4 DEF Forward
  <2>2. /\ DOMAIN queue'[c] = 1..(Len(q) + 1) /\ DOMAIN q = 1..Len(q) /\ Len(q) \in Nat
        /\ queue'[c][Len(q) + 1] = m /\ \A i \in DOMAIN q : queue'[c][i] = q[i]
    BY <1>2, <1>3, <2>1, AppendFacts
  <2>3. \A i \in DOMAIN queue'[c] : i \in DOMAIN q \/ i = Len(q) + 1
    BY <2>2
  <2>4. \A i \in DOMAIN queue'[c] : queue'[c][i].sequence <= sent'
    BY <1>1, <1>2, <1>3, <2>2, <2>3 DEF Linked
  <2>5. ASSUME NEW i \in DOMAIN queue'[c], NEW j \in DOMAIN queue'[c], i < j
        PROVE  queue'[c][i].sequence < queue'[c][j].sequence
    <3>1. i \in DOMAIN q
      BY <2>2, <2>3, <2>5
    <3>2. CASE j \in DOMAIN q
      BY <1>1, <2>2, <2>5, <3>1, <3>2 DEF Linked
    <3>3. CASE j = Len(q) + 1
      BY <1>1, <1>2, <1>3, <2>2, <3>1, <3>3 DEF Linked
    <3> QED BY <2>3, <3>2, <3>3
  <2> QED BY <1>1, <1>2, <1>3, <1>4, <2>4, <2>5 DEF Linked
<1>5. CASE ~open[c]
  <2>1. queue'[c] = q
    BY <1>5 DEF Forward, TypeOK
  <2> QED BY <1>1, <1>2, <1>3, <1>5, <2>1 DEF Linked
<1> QED BY <1>4, <1>5

\* Whoever was connected to the service that stopped is away, and owed nothing.
LEMMA RestartLinked ==
    ASSUME TypeOK, AllLinked, Restart
    PROVE  AllLinked'
<1> SUFFICES ASSUME NEW c \in Clients PROVE Linked(c)'
  BY DEF AllLinked
<1>1. /\ queue'[c] = <<>> /\ resumed'[c] = TRUE /\ owed'[c] = {} /\ c \in away'
      /\ open'[c] = FALSE
  BY DEF Restart
<1> QED BY <1>1 DEF Linked

\* The first message has the number of the last one sent.
LEMMA ConnectLinked ==
    ASSUME TypeOK, AllLinked, NEW d \in Clients, Connect(d)
    PROVE  AllLinked'
<1> SUFFICES ASSUME NEW c \in Clients PROVE Linked(c)'
  BY DEF AllLinked
<1>1. Linked(c) /\ UNCHANGED <<sent, last, resumed, cache, away, owed>>
  BY DEF AllLinked, Connect, page, history
<1>2. CASE c = d
  <2>1. queue'[c] = <<[event |-> Ready, sequence |-> sent]>> /\ open'[c] = TRUE
    BY <1>2 DEF Connect, TypeOK
  <2>2. /\ DOMAIN queue'[c] = {1} /\ queue'[c][1].sequence = sent /\ sent \in Nat
    BY <2>1 DEF TypeOK
  <2> QED BY <1>1, <2>1, <2>2 DEF Linked
<1>3. CASE c # d
  BY <1>1, <1>3 DEF Linked, Connect, TypeOK
<1> QED BY <1>2, <1>3

\* Whoever is cut off will ask where it stands.
LEMMA DropLinked ==
    ASSUME TypeOK, AllLinked, NEW d \in Clients, Drop(d)
    PROVE  AllLinked'
<1> SUFFICES ASSUME NEW c \in Clients PROVE Linked(c)'
  BY DEF AllLinked
<1>1. Linked(c) /\ UNCHANGED <<sent, last, cache, away, owed>>
  BY DEF AllLinked, Drop, page, history
<1>2. CASE c = d
  <2>1. queue'[c] = <<>> /\ open'[c] = FALSE /\ resumed'[c] = TRUE
    BY <1>2 DEF Drop, TypeOK
  <2> QED BY <1>1, <2>1 DEF Linked
<1>3. CASE c # d
  BY <1>1, <1>3 DEF Linked, Drop, TypeOK
<1> QED BY <1>2, <1>3

\* The others on their way come after the one received.
LEMMA ReceiveLinked ==
    ASSUME TypeOK, AllLinked, NEW d \in Clients, Receive(d)
    PROVE  AllLinked'
<1> SUFFICES ASSUME NEW c \in Clients PROVE Linked(c)'
  BY DEF AllLinked
<1>1. Linked(c) /\ UNCHANGED <<sent, open, cache, owed>>
  BY DEF AllLinked, Receive
<1>2. CASE c = d
  <2> DEFINE q == queue[c]
             m == Head(q)
  <2>1. q \in Seq(Message) /\ q # <<>> /\ queue'[c] = Tail(q) /\ open[c]
    BY <1>2 DEF Receive, TypeOK
  <2>2. /\ 1 \in DOMAIN q /\ m = q[1] /\ m \in Message
        /\ \A i \in DOMAIN Tail(q) : i + 1 \in DOMAIN q /\ Tail(q)[i] = q[i + 1] /\ i \in Nat
    BY <2>1, TailFacts
  <2>3. /\ last'[c] = (IF m.event = Ready \/ News(c, m) THEN m.sequence ELSE last[c])
        /\ away' = (IF m.event = Ready THEN away \ {c} ELSE away)
    BY <1>2 DEF Receive, TypeOK
  <2>4. m.sequence \in Nat /\ m.sequence <= sent /\ sent \in Nat /\ last[c] \in Int
    BY <1>1, <2>2 DEF Linked, Message, TypeOK, None
  <2>5. c \notin away' => last'[c] <= sent
    BY <1>1, <2>3, <2>4 DEF Linked
  <2>6. c \in away' => owed[c] = {}
    BY <1>1, <2>3 DEF Linked
  <2>7. owed[c] # {} => last'[c] # None
    BY <1>1, <2>3, <2>4 DEF Linked, None
  <2>8. \A i \in DOMAIN Tail(q) : Tail(q)[i].sequence <= sent
    BY <1>1, <2>2 DEF Linked
  <2>9. ASSUME NEW i \in DOMAIN Tail(q), NEW j \in DOMAIN Tail(q), i < j
        PROVE  Tail(q)[i].sequence < Tail(q)[j].sequence
    BY <1>1, <2>2, <2>9 DEF Linked
  <2> QED BY <1>1, <2>1, <2>5, <2>6, <2>7, <2>8, <2>9 DEF Linked
<1>3. CASE c # d
  <2>1. queue'[c] = queue[c] /\ resumed'[c] = resumed[c] /\ last'[c] = last[c]
    BY <1>3 DEF Receive, TypeOK
  <2>2. c \in away' <=> c \in away
    BY <1>3 DEF Receive
  <2> QED BY <1>1, <2>1, <2>2 DEF Linked
<1> QED BY <1>2, <1>3

\* What arrives is shown: nothing is taken from a page.
LEMMA ArriveLinked ==
    ASSUME TypeOK, AllLinked, NEW d \in Clients, NEW k \in Keys, Arrive(d, k)
    PROVE  AllLinked'
<1> SUFFICES ASSUME NEW c \in Clients PROVE Linked(c)'
  BY DEF AllLinked
<1>1. Linked(c) /\ UNCHANGED <<sent, socket, away>>
  BY DEF AllLinked, Arrive
<1>2. owed'[c] \subseteq owed[c] /\ owed[c] \in SUBSET Keys
  BY DEF Arrive, TypeOK
<1>3. \A n \in Keys : cache[c][n] # None => cache'[c][n] # None
  <2>1. cache[c] \in [Keys -> Nat \union {None}]
    BY DEF TypeOK
  <2>2. cache'[c] = IF c = d THEN [cache[c] EXCEPT ![k] = answer[c][k]] ELSE cache[c]
    BY DEF Arrive, TypeOK
  <2>3. answer[d][k] # None
    BY DEF Arrive
  <2> QED BY <2>1, <2>2, <2>3
<1> QED BY <1>1, <1>2, <1>3 DEF Linked, socket

LEMMA LinksStay == TypeOK /\ AllLinked /\ [Next]_vars => AllLinked'
<1> SUFFICES ASSUME TypeOK, AllLinked, [Next]_vars PROVE AllLinked'
  OBVIOUS
<1>1. ASSUME NEW w \in Writers, Publish(w) PROVE AllLinked'
  BY <1>1, SameSockets DEF Publish, page, history
<1>2. CASE Lose
  <2> SUFFICES ASSUME NEW c \in Clients PROVE Linked(c)'
    BY DEF AllLinked
  <2>1. Linked(c) /\ UNCHANGED <<sent, socket, away, cache>> /\ owed'[c] \subseteq owed[c]
    BY <1>2 DEF AllLinked, Lose, page
  <2> QED BY <2>1 DEF Linked, socket
<1>3. ASSUME NEW c \in Clients, Flush(c) PROVE AllLinked'
  BY <1>3, SameSockets DEF Flush, history
<1>4. ASSUME NEW c \in Clients, NEW k \in Keys, Answer(c, k) PROVE AllLinked'
  BY <1>4, SameSockets DEF Answer, history
<1>5. CASE UNCHANGED vars
  BY <1>5, SameSockets DEF vars, page, history
<1> QED BY <1>1, <1>2, <1>3, <1>4, <1>5, CommandLinked, ForwardLinked, RestartLinked, ConnectLinked,
           DropLinked, ReceiveLinked, ArriveLinked DEF Next

-----------------------------------------------------------------------------
(* What is owed is coming.                                                 *)

\* What a fetch asked for again is under way.
LEMMA AskedAgain ==
    ASSUME TypeOK, NEW c \in Clients, NEW keys \in SUBSET Keys, Invalidate(c, keys),
           NEW k \in keys, cache[c][k] # None
    PROVE  k \in asked'[c]
BY DEF Invalidate, TypeOK

\* And what it did not ask for is as it was.
LEMMA OthersAsIs ==
    ASSUME TypeOK, NEW c \in Clients, NEW keys \in SUBSET Keys, Invalidate(c, keys),
           NEW d \in Clients, NEW k \in Keys, d # c \/ k \notin keys
    PROVE  /\ k \in asked[d] => k \in asked'[d]
           /\ answer'[d][k] = answer[d][k]
BY DEF Invalidate, TypeOK

\* The parts of OnItsWay: the page, the API and Redis, the socket.
AtPage(c, k) == k \in asked[c] \/ answer[c][k] = db[k] \/ k \in pending[c]

Unsent(k) ==
    \/ \E w \in Writers : \E i \in DOMAIN todo[w] : Tells(todo[w][i], k)
    \/ \E i \in DOMAIN wire : Tells(wire[i], k)

OnSocket(c, k) ==
    \/ \E i \in DOMAIN queue[c] :
          /\ queue[c][i].event # Ready /\ Tells(queue[c][i].event, k)
          /\ queue[c][i].sequence > last[c]
    \/ /\ open[c] /\ queue[c] # <<>> /\ Head(queue[c]).event = Ready
       /\ resumed[c] /\ Head(queue[c]).sequence > last[c]
    \/ ~open[c] /\ resumed[c] /\ sent > last[c]

LEMMA ThreeWays ==
    \A c \in Clients, k \in Keys : OnItsWay(c, k) <=> AtPage(c, k) \/ Unsent(k) \/ OnSocket(c, k)
BY DEF OnItsWay, AtPage, Unsent, OnSocket

LEMMA ThreeWaysNext ==
    \A c \in Clients, k \in Keys :
        OnItsWay(c, k)' <=> AtPage(c, k)' \/ Unsent(k)' \/ OnSocket(c, k)'
BY DEF OnItsWay, AtPage, Unsent, OnSocket

LEMMA OwedHasAWay ==
    ASSUME FeedInv, NEW c \in Clients, NEW k \in owed[c]
    PROVE  /\ k \in Keys /\ cache[c][k] # None /\ last[c] \in Nat /\ c \notin away
           /\ last[c] <= sent /\ (~open[c] => resumed[c] /\ queue[c] = <<>>)
           /\ AtPage(c, k) \/ Unsent(k) \/ OnSocket(c, k)
<1>1. Linked(c) /\ k \in Keys /\ OnItsWay(c, k) /\ last[c] \in Nat \union {None}
  BY DEF FeedInv, AllLinked, TypeOK, OwedIsComing
<1> QED BY <1>1, ThreeWays DEF Linked

LEMMA CommandOwed ==
    ASSUME FeedInv, NEW w \in Writers, NEW m \in Commands, Command(w, m),
           NEW c \in Clients, NEW k \in owed'[c]
    PROVE  OnItsWay(c, k)'
<1>1. /\ k \in Keys /\ todo[w] = <<>> /\ todo' = [todo EXCEPT ![w] = m.says]
      /\ UNCHANGED <<wire, sent, open, queue, last, resumed, pending, asked, answer>>
      /\ db' = [n \in Keys |-> IF n \in m.changes THEN db[n] + 1 ELSE db[n]]
  BY DEF FeedInv, TypeOK, Command, socket, page
<1>2. CASE k \in m.changes
  <2>1. PICK i \in DOMAIN m.says : k \in StaleAfter(m.says[i])
    BY <1>2, NamesAssumption
  <2>2. todo'[w] = m.says
    BY <1>1 DEF FeedInv, TypeOK
  <2>3. Unsent(k)'
    BY <2>1, <2>2 DEF Unsent, Tells
  <2> QED BY <1>1, <2>3, ThreeWaysNext
<1>3. CASE k \notin m.changes
  <2>1. k \in owed[c]
    BY <1>3 DEF Command, FeedInv, TypeOK
  <2>2. AtPage(c, k) => AtPage(c, k)'
    BY <1>1, <1>3 DEF AtPage
  <2>3. Unsent(k) => Unsent(k)'
    <3>1. \A v \in Writers : todo[v] # <<>> => todo'[v] = todo[v]
      BY <1>1 DEF FeedInv, TypeOK
    <3>2. \A v \in Writers : \A i \in DOMAIN todo[v] : todo[v] # <<>>
      BY DEF FeedInv, TypeOK
    <3> QED BY <1>1, <3>1, <3>2 DEF Unsent
  <2>4. OnSocket(c, k) => OnSocket(c, k)'
    BY <1>1 DEF OnSocket
  <2> QED BY <1>1, <2>1, <2>2, <2>3, <2>4, OwedHasAWay, ThreeWaysNext
<1> QED BY <1>2, <1>3

LEMMA PublishOwed ==
    ASSUME FeedInv, NEW w \in Writers, Publish(w), NEW c \in Clients, NEW k \in owed'[c]
    PROVE  OnItsWay(c, k)'
<1>1. /\ k \in owed[c] /\ todo[w] \in Seq(Events) /\ todo[w] # <<>> /\ wire \in Seq(Events)
      /\ wire' = Append(wire, Head(todo[w])) /\ todo' = [todo EXCEPT ![w] = Tail(@)]
      /\ UNCHANGED <<db, sent, open, queue, last, resumed, pending, asked, answer>>
  BY DEF FeedInv, TypeOK, Publish, socket, page, history
<1>2. AtPage(c, k) => AtPage(c, k)'
  BY <1>1 DEF AtPage
<1>3. OnSocket(c, k) => OnSocket(c, k)'
  BY <1>1 DEF OnSocket
<1>4. Unsent(k) => Unsent(k)'
  <2>1. /\ Head(todo[w]) = todo[w][1] /\ Head(todo[w]) \in Events
        /\ \A i \in DOMAIN todo[w] :
              i # 1 => i - 1 \in DOMAIN Tail(todo[w]) /\ Tail(todo[w])[i - 1] = todo[w][i]
    BY <1>1, TailFacts
  <2>2. /\ \A i \in DOMAIN wire : i \in DOMAIN wire' /\ wire'[i] = wire[i]
        /\ \E i \in DOMAIN wire' : wire'[i] = Head(todo[w])
    <3>1. /\ DOMAIN wire' = 1..(Len(wire) + 1) /\ DOMAIN wire = 1..Len(wire) /\ Len(wire) \in Nat
          /\ wire'[Len(wire) + 1] = Head(todo[w]) /\ \A i \in DOMAIN wire : wire'[i] = wire[i]
      BY <1>1, <2>1, AppendFacts
    <3> QED BY <3>1
  <2>3. todo'[w] = Tail(todo[w]) /\ \A v \in Writers \ {w} : todo'[v] = todo[v]
    BY <1>1 DEF FeedInv, TypeOK
  <2>4. ASSUME NEW i \in DOMAIN todo[w], Tells(todo[w][i], k) PROVE Unsent(k)'
    <3>1. CASE i = 1
      BY <2>1, <2>2, <2>4, <3>1 DEF Unsent, Tells
    <3>2. CASE i # 1
      BY <2>1, <2>3, <2>4, <3>2 DEF Unsent, Tells
    <3> QED BY <3>1, <3>2
  <2>5. ASSUME NEW v \in Writers \ {w}, NEW i \in DOMAIN todo[v], Tells(todo[v][i], k)
        PROVE  Unsent(k)'
    BY <2>3, <2>5 DEF Unsent, Tells
  <2>6. ASSUME NEW i \in DOMAIN wire, Tells(wire[i], k) PROVE Unsent(k)'
    BY <2>2, <2>6 DEF Unsent, Tells
  <2> QED BY <2>4, <2>5, <2>6 DEF Unsent
<1> QED BY <1>1, <1>2, <1>3, <1>4, OwedHasAWay, ThreeWaysNext

LEMMA ForwardOwed ==
    ASSUME FeedInv, Forward, NEW c \in Clients, NEW k \in owed'[c]
    PROVE  OnItsWay(c, k)'
<1> DEFINE m == Numbered(Head(wire))
           q == queue[c]
<1>1. /\ k \in owed[c] /\ wire \in Seq(Events) /\ wire # <<>> /\ q \in Seq(Message)
      /\ wire' = Tail(wire) /\ sent' = sent + 1 /\ sent \in Nat
      /\ UNCHANGED <<db, todo, open, last, resumed, pending, asked, answer>>
      /\ queue'[c] = IF open[c] THEN Append(q, m) ELSE q
  BY DEF FeedInv, TypeOK, Forward, page, history
<1>2. /\ k \in Keys /\ last[c] \in Nat /\ last[c] <= sent
      /\ ~open[c] => resumed[c] /\ queue[c] = <<>>
      /\ AtPage(c, k) \/ Unsent(k) \/ OnSocket(c, k)
  BY <1>1, OwedHasAWay
<1>3. /\ Head(wire) = wire[1] /\ Head(wire) \in Events /\ Head(wire) # Ready
      /\ \A i \in DOMAIN wire : i # 1 => i - 1 \in DOMAIN wire' /\ wire'[i - 1] = wire[i]
  <2>1. /\ Head(wire) = wire[1] /\ Head(wire) \in Events
        /\ \A i \in DOMAIN wire : i # 1 => i - 1 \in DOMAIN wire' /\ wire'[i - 1] = wire[i]
    BY <1>1, TailFacts
  <2> QED BY <2>1 DEF Events, Ready
<1>4. m.event = Head(wire) /\ m.sequence = sent + 1 /\ m \in Message
  BY <1>1, <1>3 DEF Numbered, Message
<1>5. open[c] => /\ \A i \in DOMAIN q : i \in DOMAIN queue'[c] /\ queue'[c][i] = q[i]
                 /\ \E i \in DOMAIN queue'[c] : queue'[c][i] = m
  <2>1. SUFFICES ASSUME open[c]
                 PROVE  /\ \A i \in DOMAIN q : i \in DOMAIN queue'[c] /\ queue'[c][i] = q[i]
                        /\ \E i \in DOMAIN queue'[c] : queue'[c][i] = m
    OBVIOUS
  <2>2. /\ DOMAIN queue'[c] = 1..(Len(q) + 1) /\ DOMAIN q = 1..Len(q) /\ Len(q) \in Nat
        /\ queue'[c][Len(q) + 1] = m /\ \A i \in DOMAIN q : queue'[c][i] = q[i]
    BY <1>1, <1>4, <2>1, AppendFacts
  <2> QED BY <2>2
<1>6. AtPage(c, k) => AtPage(c, k)'
  BY <1>1 DEF AtPage
<1>7. OnSocket(c, k) => OnSocket(c, k)'
  <2>1. CASE open[c]
    <3>1. q # <<>> => queue'[c] # <<>> /\ Head(queue'[c]) = Head(q)
      BY <1>1, <1>4, <2>1
    <3> QED BY <1>1, <1>5, <2>1, <3>1 DEF OnSocket, Tells
  <2>2. CASE ~open[c]
    BY <1>1, <1>2, <2>2 DEF OnSocket, Tells
  <2> QED BY <2>1, <2>2
<1>8. Unsent(k) => Unsent(k)' \/ OnSocket(c, k)'
  <2>1. ASSUME Tells(Head(wire), k) PROVE OnSocket(c, k)'
    <3>1. CASE open[c]
      <4>1. PICK i \in DOMAIN queue'[c] : queue'[c][i] = m
        BY <1>5, <3>1
      <4>2. m.event # Ready /\ k \in StaleAfter(m.event) /\ m.sequence > last'[c]
        BY <1>1, <1>2, <1>3, <1>4, <2>1 DEF Tells
      <4> QED BY <4>1, <4>2 DEF OnSocket, Tells
    <3>2. CASE ~open[c]
      BY <1>1, <1>2, <3>2 DEF OnSocket
    <3> QED BY <3>1, <3>2
  <2>2. ASSUME NEW i \in DOMAIN wire, i # 1, Tells(wire[i], k) PROVE Unsent(k)'
    BY <1>3, <2>2 DEF Unsent, Tells
  <2>3. ASSUME NEW w \in Writers, NEW i \in DOMAIN todo[w], Tells(todo[w][i], k) PROVE Unsent(k)'
    BY <1>1, <2>3 DEF Unsent, Tells
  <2> QED BY <1>3, <2>1, <2>2, <2>3 DEF Unsent
<1> QED BY <1>2, <1>6, <1>7, <1>8, ThreeWaysNext

LEMMA LoseOwed ==
    ASSUME FeedInv, Lose, NEW c \in Clients, NEW k \in owed'[c]
    PROVE  OnItsWay(c, k)'
<1>1. /\ k \in owed[c] /\ ~Tells(Head(wire), k) /\ wire \in Seq(Events) /\ wire # <<>>
      /\ wire' = Tail(wire)
      /\ UNCHANGED <<db, todo, sent, open, queue, last, resumed, pending, asked, answer>>
  BY DEF FeedInv, TypeOK, Lose, socket, page, Tells
<1>2. AtPage(c, k) => AtPage(c, k)'
  BY <1>1 DEF AtPage
<1>3. OnSocket(c, k) => OnSocket(c, k)'
  BY <1>1 DEF OnSocket
<1>4. Unsent(k) => Unsent(k)'
  <2>1. /\ Head(wire) = wire[1]
        /\ \A i \in DOMAIN wire : i # 1 => i - 1 \in DOMAIN wire' /\ wire'[i - 1] = wire[i]
    BY <1>1, TailFacts
  <2>2. ASSUME NEW i \in DOMAIN wire, Tells(wire[i], k) PROVE Unsent(k)'
    BY <1>1, <2>1, <2>2 DEF Unsent, Tells
  <2> QED BY <1>1, <2>2 DEF Unsent
<1> QED BY <1>1, <1>2, <1>3, <1>4, OwedHasAWay, ThreeWaysNext

LEMMA ConnectOwed ==
    ASSUME FeedInv, NEW d \in Clients, Connect(d), NEW c \in Clients, NEW k \in owed'[c]
    PROVE  OnItsWay(c, k)'
<1>1. /\ k \in owed[c] /\ UNCHANGED <<db, todo, wire, sent, last, resumed, pending, asked, answer>>
  BY DEF Connect, page, history
<1>2. AtPage(c, k) => AtPage(c, k)'
  BY <1>1 DEF AtPage
<1>3. Unsent(k) => Unsent(k)'
  BY <1>1 DEF Unsent
<1>4. OnSocket(c, k) => OnSocket(c, k)'
  <2>1. CASE c = d
    <3>1. /\ queue'[c] = <<[event |-> Ready, sequence |-> sent]>> /\ open'[c] /\ ~open[c]
          /\ queue[c] = <<>> /\ resumed[c]
      BY <1>1, <2>1, OwedHasAWay DEF FeedInv, TypeOK, Connect
    <3>2. Head(queue'[c]).event = Ready /\ Head(queue'[c]).sequence = sent /\ queue'[c] # <<>>
      BY <3>1
    <3> QED BY <1>1, <3>1, <3>2 DEF OnSocket
  <2>2. CASE c # d
    <3>1. queue'[c] = queue[c] /\ open'[c] = open[c]
      BY <2>2 DEF FeedInv, TypeOK, Connect
    <3> QED BY <1>1, <3>1 DEF OnSocket
  <2> QED BY <2>1, <2>2
<1> QED BY <1>1, <1>2, <1>3, <1>4, OwedHasAWay, ThreeWaysNext

LEMMA DropOwed ==
    ASSUME FeedInv, NEW d \in Clients, Drop(d), NEW c \in Clients, NEW k \in owed'[c]
    PROVE  OnItsWay(c, k)'
<1>1. /\ k \in owed[c] /\ UNCHANGED <<db, todo, wire, sent, last, pending, asked, answer>>
  BY DEF Drop, page, history
<1>2. AtPage(c, k) => AtPage(c, k)'
  BY <1>1 DEF AtPage
<1>3. Unsent(k) => Unsent(k)'
  BY <1>1 DEF Unsent
<1>4. OnSocket(c, k) => OnSocket(c, k)'
  <2>1. CASE c = d
    <3>1. open'[c] = FALSE /\ resumed'[c] = TRUE
      BY <2>1 DEF FeedInv, TypeOK, Drop
    <3>2. OnSocket(c, k) => sent > last[c]
      <4>1. last[c] \in Nat /\ sent \in Nat /\ queue[c] \in Seq(Message) /\ Linked(c)
        BY <1>1, OwedHasAWay DEF FeedInv, AllLinked, TypeOK
      <4>2. \A i \in DOMAIN queue[c] : queue[c][i].sequence <= sent /\ queue[c][i].sequence \in Nat
        <5>1. \A i \in DOMAIN queue[c] : queue[c][i] \in Message
          BY <4>1
        <5> QED BY <4>1, <5>1 DEF Linked, Message
      <4>3. queue[c] # <<>> => 1 \in DOMAIN queue[c] /\ Head(queue[c]) = queue[c][1]
        BY <4>1
      <4> QED BY <4>1, <4>2, <4>3 DEF OnSocket
    <3> QED BY <1>1, <3>1, <3>2 DEF OnSocket
  <2>2. CASE c # d
    <3>1. queue'[c] = queue[c] /\ open'[c] = open[c] /\ resumed'[c] = resumed[c]
      BY <2>2 DEF FeedInv, TypeOK, Drop
    <3> QED BY <1>1, <3>1 DEF OnSocket
  <2> QED BY <2>1, <2>2
<1> QED BY <1>1, <1>2, <1>3, <1>4, OwedHasAWay, ThreeWaysNext

LEMMA ReceiveOwed ==
    ASSUME FeedInv, NEW d \in Clients, Receive(d), NEW c \in Clients, NEW k \in owed'[c]
    PROVE  OnItsWay(c, k)'
<1> DEFINE q == queue[d]
           m == Head(q)
           keys == IF Missed(d, m) THEN Keys ELSE {}
<1>1. /\ k \in owed[c] /\ k \in Keys /\ cache[c][k] # None /\ last[c] \in Nat
      /\ AtPage(c, k) \/ Unsent(k) \/ OnSocket(c, k)
      /\ UNCHANGED <<db, todo, wire, sent, open>>
  BY OwedHasAWay DEF Receive
<1>2. TypeOK /\ keys \in SUBSET Keys /\ Invalidate(d, keys)
  BY DEF FeedInv, Receive
<1>3. Unsent(k) => Unsent(k)'
  BY <1>1 DEF Unsent
<1>4. AtPage(c, k) => AtPage(c, k)'
  <2>1. pending[c] \subseteq pending'[c]
    BY <1>2 DEF Receive, TypeOK
  <2>2. CASE c = d /\ k \in keys
    <3>1. k \in asked'[c]
      BY <1>1, <1>2, <2>2, AskedAgain
    <3> QED BY <3>1 DEF AtPage
  <2>3. CASE c # d \/ k \notin keys
    <3>1. (k \in asked[c] => k \in asked'[c]) /\ answer'[c][k] = answer[c][k]
      BY <1>1, <1>2, <2>3, OthersAsIs
    <3> QED BY <1>1, <2>1, <3>1 DEF AtPage
  <2> QED BY <2>2, <2>3
<1>5. CASE c # d
  <2>1. queue'[c] = queue[c] /\ resumed'[c] = resumed[c] /\ last'[c] = last[c]
    BY <1>2, <1>5 DEF Receive, TypeOK
  <2>2. OnSocket(c, k) => OnSocket(c, k)'
    BY <1>1, <2>1 DEF OnSocket
  <2> QED BY <1>1, <1>3, <1>4, <2>2, ThreeWaysNext
<1>6. CASE c = d
  <2>1. q \in Seq(Message) /\ q # <<>> /\ queue'[c] = Tail(q) /\ open[c] /\ Linked(c)
    BY <1>2, <1>6 DEF Receive, TypeOK, FeedInv, AllLinked
  <2>2. /\ 1 \in DOMAIN q /\ m = q[1] /\ m \in Message
        /\ \A i \in DOMAIN q : i # 1 => i - 1 \in DOMAIN Tail(q) /\ Tail(q)[i - 1] = q[i]
    BY <2>1, TailFacts
  <2>3. last'[c] = IF m.event = Ready \/ News(d, m) THEN m.sequence ELSE last[c]
    BY <1>2, <1>6 DEF Receive, TypeOK
  <2>4. m.sequence \in Nat /\ \A i \in DOMAIN q : q[i].sequence \in Nat /\ i \in Nat
    <3>1. \A i \in DOMAIN q : q[i] \in Message /\ i \in Nat
      BY <2>1
    <3> QED BY <2>2, <3>1 DEF Message
  <2>5. ASSUME NEW i \in DOMAIN q, q[i].event # Ready, Tells(q[i].event, k), q[i].sequence > last[c]
        PROVE  OnItsWay(c, k)'
    <3>1. CASE i = 1
      <4>1. News(d, m) /\ pending'[c] = pending[c] \union (StaleAfter(m.event) \intersect Keys)
        BY <1>2, <1>6, <2>2, <2>5, <3>1 DEF News, Receive, TypeOK
      <4>2. k \in pending'[c]
        BY <1>1, <2>2, <2>5, <3>1, <4>1 DEF Tells
      <4> QED BY <1>1, <4>2, ThreeWaysNext DEF AtPage
    <3>2. CASE i # 1
      <4>1. i - 1 \in DOMAIN queue'[c] /\ queue'[c][i - 1] = q[i]
        BY <2>1, <2>2, <3>2
      <4>2. q[1].sequence < q[i].sequence
        <5>1. 1 < i
          BY <2>1, <3>2
        <5> QED BY <1>6, <2>1, <2>2, <5>1 DEF Linked
      <4>3. q[i].sequence > last'[c]
        BY <1>1, <2>2, <2>3, <2>4, <2>5, <4>2
      <4> QED BY <1>1, <2>5, <4>1, <4>3, ThreeWaysNext DEF OnSocket, Tells
    <3> QED BY <3>1, <3>2
  <2>6. ASSUME m.event = Ready, resumed[c], m.sequence > last[c] PROVE OnItsWay(c, k)'
    <3>1. Missed(d, m)
      BY <1>6, <2>6 DEF Missed
    <3>2. k \in asked'[c]
      BY <1>1, <1>2, <1>6, <3>1, AskedAgain
    <3> QED BY <1>1, <3>2, ThreeWaysNext DEF AtPage
  <2>7. OnSocket(c, k) => OnItsWay(c, k)'
    BY <1>6, <2>1, <2>5, <2>6 DEF OnSocket
  <2> QED BY <1>1, <1>3, <1>4, <2>7, ThreeWaysNext
<1> QED BY <1>5, <1>6

LEMMA FlushOwed ==
    ASSUME FeedInv, NEW d \in Clients, Flush(d), NEW c \in Clients, NEW k \in owed'[c]
    PROVE  OnItsWay(c, k)'
<1>1. /\ k \in owed[c] /\ k \in Keys /\ cache[c][k] # None
      /\ AtPage(c, k) \/ Unsent(k) \/ OnSocket(c, k)
      /\ UNCHANGED <<db, todo, wire, sent, open, queue, last, resumed>>
  BY OwedHasAWay DEF Flush, socket, history
<1>2. TypeOK /\ pending[d] \in SUBSET Keys /\ Invalidate(d, pending[d])
  BY DEF FeedInv, TypeOK, Flush
<1>3. AtPage(c, k) => AtPage(c, k)'
  <2>1. CASE c = d /\ k \in pending[d]
    <3>1. k \in asked'[c]
      BY <1>1, <1>2, <2>1, AskedAgain
    <3> QED BY <3>1 DEF AtPage
  <2>2. CASE c # d \/ k \notin pending[d]
    <3>1. (k \in asked[c] => k \in asked'[c]) /\ answer'[c][k] = answer[c][k]
      BY <1>1, <1>2, <2>2, OthersAsIs
    <3>2. k \in pending[c] => k \in pending'[c]
      BY <1>2, <2>2 DEF Flush, TypeOK
    <3> QED BY <1>1, <3>1, <3>2 DEF AtPage
  <2> QED BY <2>1, <2>2
<1>4. (Unsent(k) => Unsent(k)') /\ (OnSocket(c, k) => OnSocket(c, k)')
  BY <1>1 DEF Unsent, OnSocket
<1> QED BY <1>1, <1>3, <1>4, ThreeWaysNext

LEMMA AnswerOwed ==
    ASSUME FeedInv, NEW d \in Clients, NEW n \in Keys, Answer(d, n),
           NEW c \in Clients, NEW k \in owed'[c]
    PROVE  OnItsWay(c, k)'
<1>0. UNCHANGED <<db, todo, wire, sent, open, queue, last, resumed, pending>>
  BY DEF Answer, socket, history
<1>1. k \in owed[c] /\ k \in Keys /\ (AtPage(c, k) \/ Unsent(k) \/ OnSocket(c, k))
  BY OwedHasAWay DEF Answer, socket, history
<1>2. AtPage(c, k) => AtPage(c, k)'
  <2>1. CASE c = d /\ k = n
    <3>1. answer'[c][k] = db[k]
      BY <2>1 DEF Answer, FeedInv, TypeOK
    <3> QED BY <1>0, <1>1, <3>1 DEF AtPage
  <2>2. CASE c # d \/ k # n
    <3>1. (k \in asked[c] => k \in asked'[c]) /\ answer'[c][k] = answer[c][k]
      BY <1>1, <2>2 DEF Answer, FeedInv, TypeOK
    <3> QED BY <1>0, <1>1, <3>1 DEF AtPage
  <2> QED BY <2>1, <2>2
<1>3. Unsent(k) => Unsent(k)'
  BY <1>0 DEF Unsent
<1>4. OnSocket(c, k) => OnSocket(c, k)'
  BY <1>0 DEF OnSocket
<1> QED BY <1>1, <1>2, <1>3, <1>4, ThreeWaysNext

LEMMA ArriveOwed ==
    ASSUME FeedInv, NEW d \in Clients, NEW n \in Keys, Arrive(d, n),
           NEW c \in Clients, NEW k \in owed'[c]
    PROVE  OnItsWay(c, k)'
<1>1. owed' = [owed EXCEPT ![d] = IF answer[d][n] = db[n] THEN @ \ {n} ELSE @]
  BY DEF Arrive
<1>2. k \in owed[c] /\ ~(c = d /\ k = n /\ answer[d][n] = db[n])
  BY <1>1 DEF FeedInv, TypeOK
<1>0. UNCHANGED <<db, todo, wire, sent, open, queue, last, resumed, pending, asked>>
  BY DEF Arrive, socket
<1>3. k \in Keys /\ (AtPage(c, k) \/ Unsent(k) \/ OnSocket(c, k))
  BY <1>2, OwedHasAWay DEF Arrive, socket
<1>4. answer[c][k] = db[k] => answer'[c][k] = db[k]
  BY <1>0, <1>2, <1>3 DEF Arrive, FeedInv, TypeOK
<1>5. AtPage(c, k) => AtPage(c, k)'
  BY <1>0, <1>3, <1>4 DEF AtPage
<1>6. Unsent(k) => Unsent(k)'
  BY <1>0 DEF Unsent
<1>7. OnSocket(c, k) => OnSocket(c, k)'
  BY <1>0 DEF OnSocket
<1> QED BY <1>3, <1>5, <1>6, <1>7, ThreeWaysNext

LEMMA OwedStays == FeedInv /\ [Next]_vars => OwedIsComing'
<1> SUFFICES ASSUME FeedInv, [Next]_vars, NEW c \in Clients, NEW k \in owed'[c]
             PROVE  OnItsWay(c, k)'
  BY DEF OwedIsComing
<1>1. CASE Restart
  BY <1>1 DEF Restart
<1>2. CASE UNCHANGED vars
  <2>1. OnItsWay(c, k)
    BY <1>2 DEF FeedInv, OwedIsComing, vars, history
  <2> QED BY <1>2, <2>1 DEF OnItsWay, vars, socket, page
<1> QED BY <1>1, <1>2, CommandOwed, PublishOwed, ForwardOwed, LoseOwed, ConnectOwed, DropOwed,
           ReceiveOwed, FlushOwed, AnswerOwed, ArriveOwed DEF Next

-----------------------------------------------------------------------------

LEMMA FeedInit == Init => FeedInv
<1> SUFFICES ASSUME Init PROVE FeedInv
  OBVIOUS
<1>1. TypeOK
  BY BoundsAssumption DEF Init, TypeOK
<1>2. AllLinked
  BY DEF Init, AllLinked, Linked, None
<1>3. OwedIsComing
  BY DEF Init, OwedIsComing
<1> QED BY <1>1, <1>2, <1>3 DEF FeedInv

LEMMA FeedSteps == FeedInv /\ [Next]_vars => FeedInv'
BY TypesStay, LinksStay, OwedStays DEF FeedInv

\* Everything kept or under way has its type, for any number of pages, requests
\* and faults.
THEOREM FeedTypes == Spec => []TypeOK
<1>1. FeedInv => TypeOK
  BY DEF FeedInv
<1> QED BY <1>1, FeedInit, FeedSteps, PTL DEF Spec

\* However many pages are open, requests write and connections break: whatever a
\* page in touch does not show yet, something under way will have it fetch
\* (useRealtimeSocket.ts, TournamentUpdates.tsx).
THEOREM OwedStaysComing == Spec => []OwedIsComing
<1>1. FeedInv => OwedIsComing
  BY DEF FeedInv
<1> QED BY <1>1, FeedInit, FeedSteps, PTL DEF Spec

=============================================================================
