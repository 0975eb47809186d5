---------------------------- MODULE PlanRegister ----------------------------
(***************************************************************************)
(* What the play plan promises a control room: an answer shows the lanes   *)
(* as they are, or as they were since the last moment before the poll when *)
(* every change had been announced.  With nothing left to announce, a poll *)
(* answers the lanes at its start or later.                                *)
(***************************************************************************)
EXTENDS Naturals

CONSTANTS Lanes, NoLanes, ControlRooms, Commands

VARIABLES
    lanes,      \* the lanes of the running schedules
    owed,       \* commands that have changed them and not announced it yet
    recent,     \* what the lanes have been since nothing was owed
    allowed,    \* allowed[c]: what the poll of c may answer, {} without one
    view        \* view[c]: what c was last told

rvars == <<lanes, owed, recent, allowed, view>>

Init ==
    /\ lanes \in Lanes
    /\ owed = {}
    /\ recent = {lanes}
    /\ allowed = [c \in ControlRooms |-> {}]
    /\ view = [c \in ControlRooms |-> NoLanes]

Change(p, new) ==
    /\ lanes' = new
    /\ owed' = owed \union {p}
    /\ recent' = recent \union {new}
    /\ allowed' = [c \in ControlRooms |->
                      IF allowed[c] = {} THEN {} ELSE allowed[c] \union {new}]
    /\ UNCHANGED view

Announce(p) ==
    /\ owed' = owed \ {p}
    /\ recent' = IF owed' = {} THEN {lanes} ELSE recent
    /\ UNCHANGED <<lanes, allowed, view>>

Begin(c) ==
    /\ allowed[c] = {}
    /\ allowed' = [allowed EXCEPT ![c] = recent]
    /\ UNCHANGED <<lanes, owed, recent, view>>

Answer(c) ==
    /\ \E seen \in allowed[c] : view' = [view EXCEPT ![c] = seen]
    /\ allowed' = [allowed EXCEPT ![c] = {}]
    /\ UNCHANGED <<lanes, owed, recent>>

\* Polls and announcements in flight are lost; nothing stale outlives them.
Restart ==
    /\ owed' = {}
    /\ recent' = {lanes}
    /\ allowed' = [c \in ControlRooms |-> {}]
    /\ UNCHANGED <<lanes, view>>

Next ==
    \/ \E p \in Commands : (\E new \in Lanes : Change(p, new)) \/ Announce(p)
    \/ \E c \in ControlRooms : Begin(c) \/ Answer(c)
    \/ Restart

Spec == Init /\ [][Next]_rvars
=============================================================================
