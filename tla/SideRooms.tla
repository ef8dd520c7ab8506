------------------------------ MODULE SideRooms ------------------------------
(***************************************************************************)
(* Pulling people aside into a fresh room (frontend/src/lib/sideroom.ts,   *)
(* the picker, invitation and banner in CallRoom.tsx), on top of the       *)
(* screens of AppSession.  An invitation is a LiveKit data message to      *)
(* chosen identities; it reaches those still connected to the room it was  *)
(* sent in.                                                                *)
(***************************************************************************)
EXTENDS AppSession

VARIABLES
    incoming, \* incoming[t]: the invitation t is shown, with its expiry timer
    wire,     \* invitations sent and not yet received
    mainOf,   \* history: the main room a side room was opened from
    entered,  \* history: rooms that were entered through their lobby
    unopened, \* history: side rooms whose opener could not move there
    strayed   \* history: some tab was answered late

sideVars == <<incoming, wire, mainOf, entered, unopened, strayed>>
vars == <<appVars, sideVars>>

NoInvite == [main |-> NoRoom]
Invite == [room : Rooms, main : Rooms]

TypeOK ==
    /\ AppTypeOK
    /\ incoming \in [Tabs -> Invite \cup {NoInvite}]
    /\ wire \in SUBSET [to : Tabs, via : Rooms, invite : Invite]
    /\ mainOf \in [Rooms -> Rooms \cup {NoRoom}]
    /\ entered \in SUBSET Rooms
    /\ unopened \in SUBSET Rooms
    /\ strayed \in BOOLEAN

Init ==
    /\ AppInit
    /\ incoming = [t \in Tabs |-> NoInvite]
    /\ wire = {}
    /\ mainOf = [r \in Rooms |-> NoRoom]
    /\ entered = {}
    /\ unopened = {}
    /\ strayed = FALSE

\* generateRoomId: a room nobody has been in, has a link to, or was invited to.
FreshRoom(r) ==
    /\ mainOf[r] = NoRoom
    /\ r \notin entered
    /\ \A t \in Tabs : /\ room[t] # r
                       /\ \A q \in Requests : asks[t][q] # NoAsk => asks[t][q].room # r

----
(* Steps of the tabs that the invitations only look on.                     *)

\* The call stage of t, and the invitation it shows, live with its connection.
Stage(t) ==
    incoming' = [incoming EXCEPT ![t] =
        IF conn'[t] = conn[t] /\ conn[t] # NoConn THEN @ ELSE NoInvite]

Screens(t) ==
    /\ \/ \E r \in Rooms : AskCreate(t, r)
       \/ AskJoin(t)
       \/ AskRejoin(t)
       \/ Connect(t)
       \/ Leave(t)
       \/ Exit(t)
       \/ Reload(t)
    /\ Stage(t)
    /\ UNCHANGED <<wire, mainOf, entered, unopened, strayed>>

Answered(t, q) ==
    /\ Answer(t, q)
    /\ Stage(t)
    /\ entered' = IF asks[t][q].kind = "join"
                  THEN entered \cup {asks[t][q].room} ELSE entered
    /\ strayed' = (strayed \/ ~asks[t][q].live)
    /\ UNCHANGED <<wire, mainOf, unopened>>

Refused(t, q) ==
    /\ Refuse(t, q)
    /\ unopened' = IF asks[t][q].kind = "aside"
                   THEN unopened \cup {asks[t][q].room} ELSE unopened
    /\ UNCHANGED <<incoming, wire, mainOf, entered, strayed>>

----
(* Invitations.                                                             *)

\* Bugs for comparison: the room one is in, whichever that is; the room one would
\* return to, even where there is none.
TrueMainIsHere(t) == join[t]
TrueMainIsParent(t) == sideParent[t]

\* The true main room (survives nested side rooms).
TrueMain(t) == IF sideParent[t] # NoRoom THEN sideParent[t] ELSE join[t]

\* onTakeAside: invite the chosen people of this room, then move there.
TakeAside(t, r) ==
    /\ FreshRoom(r)
    /\ AskMove(t, "aside", r, TrueMain(t))
    /\ \E targets \in (SUBSET {u \in Tabs \ {t} : conn[u] = conn[t]}) \ {{}} :
          wire' = wire \cup [to : targets, via : {join[t]},
                             invite : {[room |-> r, main |-> TrueMain(t)]}]
    /\ mainOf' = [mainOf EXCEPT ![r] = TrueMain(t)]
    /\ UNCHANGED <<incoming, entered, unopened, strayed>>

\* onData: the invitation is shown, or the tab is gone from that room.
Receive(msg) ==
    /\ msg \in wire
    /\ wire' = wire \ {msg}
    /\ incoming' = [incoming EXCEPT ![msg.to] =
          IF conn[msg.to] = [st |-> "connected", room |-> msg.via]
          THEN msg.invite ELSE @]
    /\ UNCHANGED <<appVars, mainOf, entered, unopened, strayed>>

\* Dismissed, or cleared by the 40 s timer.
Dismiss(t) ==
    /\ incoming[t] # NoInvite
    /\ incoming' = [incoming EXCEPT ![t] = NoInvite]
    /\ UNCHANGED <<appVars, wire, mainOf, entered, unopened, strayed>>

\* A bug for comparison: the way back leads to the room one comes from.
AcceptFromHere(t) ==
    /\ incoming[t] # NoInvite
    /\ AskMove(t, "move", incoming[t].room, join[t])
    /\ incoming' = [incoming EXCEPT ![t] = NoInvite]
    /\ UNCHANGED <<wire, mainOf, entered, unopened, strayed>>

\* "Join": the invitation is dismissed, then the move is asked for.
Accept(t) ==
    /\ incoming[t] # NoInvite
    /\ AskMove(t, "move", incoming[t].room, incoming[t].main)
    /\ incoming' = [incoming EXCEPT ![t] = NoInvite]
    /\ UNCHANGED <<wire, mainOf, entered, unopened, strayed>>

\* "Back to main".
BackToMain(t) ==
    /\ sideParent[t] # NoRoom
    /\ AskMove(t, "move", sideParent[t], NoRoom)
    /\ UNCHANGED sideVars

Next ==
    \/ \E t \in Tabs :
          \/ Screens(t)
          \/ Dismiss(t)
          \/ Accept(t)
          \/ BackToMain(t)
    \/ \E t \in Tabs, q \in Requests : Answered(t, q) \/ Refused(t, q)
    \/ \E t \in Tabs, r \in Rooms : TakeAside(t, r)
    \/ \E msg \in wire : Receive(msg)

Spec == Init /\ [][Next]_vars

----
(* Properties.                                                              *)

\* Whoever is in a side room, and whoever is invited to one, is offered the way
\* back that its opener has, unless an answer came late (CallRoom.tsx: trueMain,
\* sideroom.ts: main).
SameWayBack ==
    \A t \in Tabs :
        /\ incoming[t] # NoInvite => incoming[t].main = mainOf[incoming[t].room]
        /\ ~late[t] /\ sideParent[t] # NoRoom => sideParent[t] = mainOf[room[t]]

\* "The true main room to return to (survives nested side rooms)": however deep
\* the nesting, the way back leads to a room that was entered through its lobby,
\* not to another side room.
WayBackIsMain ==
    ~strayed => \A r \in Rooms : mainOf[r] # NoRoom => mainOf[r] \in entered

\* CallRoom.tsx:222, "if the token request fails, throw so the picker stays open
\* ... rather than inviting people into a room nobody entered": nobody is shown
\* an invitation to a room whose opener could not go there.
NoInviteToUnopened ==
    \A t \in Tabs : incoming[t] # NoInvite => incoming[t].room \notin unopened
==============================================================================
