-------------------------- MODULE SideRooms_proofs --------------------------
(* Proofs about the screens and the side rooms: type correctness,            *)
(* InOnePlace, SameWayBack and WayBackIsMain, for any number of tabs, rooms  *)
(* and requests under way.                                                   *)
EXTENDS SideRooms, TLAPS

(* The screens.                                                             *)

\* A live request belongs to the screen that is shown.
Fits(t, a) ==
    /\ a.kind = "create" => View(t) = "home"
    /\ a.kind = "join" => View(t) = "lobby" /\ a.room = room[t]
    /\ a.kind = "rejoin" => View(t) = "postcall" /\ a.room = join[t]
    /\ a.kind \in {"move", "aside"} => View(t) = "call"

\* Whoever is or was in a call has a join.
Joined == \A t \in Tabs : screen[t] \in {"call", "postcall"} => join[t] # NoRoom

\* What makes InOnePlace inductive: while no answer came late, the live requests
\* fit the screen, and there is a way back only from a call.
LiveFits ==
    \A t \in Tabs : ~late[t] =>
        /\ View(t) \in {"home", "lobby"} => sideParent[t] = NoRoom
        /\ \A q \in Requests :
              asks[t][q] # NoAsk /\ asks[t][q].live => Fits(t, asks[t][q])

AppInv == AppTypeOK /\ Joined /\ InOnePlace /\ LiveFits

USE NoRoomAssumption

LEMMA InitAppInv == AppInit => AppInv
<1> SUFFICES ASSUME AppInit PROVE AppInv
  OBVIOUS
<1>1. NoAsk \in Ask /\ NoConn \in Conn
  BY DEF Ask, Conn
<1>2. AppTypeOK
  BY <1>1 DEF AppInit, AppTypeOK
<1>3. Joined /\ InOnePlace
  BY DEF AppInit, Joined, InOnePlace, View
<1>4. LiveFits
  BY DEF AppInit, LiveFits, View
<1>. QED
  BY <1>2, <1>3, <1>4 DEF AppInv

\* The fields of a request that is under way.
LEMMA AskFields ==
    ASSUME AppTypeOK, NEW t \in Tabs, NEW q \in Requests, asks[t][q] # NoAsk
    PROVE  /\ asks[t][q].kind \in {"create", "join", "rejoin", "move", "aside"}
           /\ asks[t][q].room \in Rooms
           /\ asks[t][q].parent \in Rooms \cup {NoRoom}
           /\ asks[t][q].live \in BOOLEAN
           /\ [asks[t][q] EXCEPT !.live = FALSE] \in Ask
           /\ [asks[t][q] EXCEPT !.live = FALSE].live = FALSE
           /\ [asks[t][q] EXCEPT !.live = FALSE].kind = asks[t][q].kind
           /\ [asks[t][q] EXCEPT !.live = FALSE].room = asks[t][q].room
           /\ [asks[t][q] EXCEPT !.live = FALSE].parent = asks[t][q].parent
<1> DEFINE a == asks[t][q]
<1>1. a \in [kind : {"create", "join", "rejoin", "move", "aside"},
             room : Rooms, parent : Rooms \cup {NoRoom}, live : BOOLEAN]
  BY DEF AppTypeOK, Ask
<1>2. [a EXCEPT !.live = FALSE] \in
        [kind : {"create", "join", "rejoin", "move", "aside"},
         room : Rooms, parent : Rooms \cup {NoRoom}, live : BOOLEAN]
  BY <1>1
<1>. QED
  BY <1>1, <1>2 DEF Ask

\* A request grown old is the same request, and dead if its screen is gone.
LEMMA AgedFields ==
    ASSUME AppTypeOK, NEW t \in Tabs
    PROVE  /\ Aged(t) \in [Requests -> Ask]
           /\ \A q \in Requests :
                 /\ asks[t][q] = NoAsk => Aged(t)[q] = NoAsk
                 /\ StillMounted(t) => Aged(t)[q] = asks[t][q]
                 /\ asks[t][q] # NoAsk =>
                       /\ Aged(t)[q].kind = asks[t][q].kind
                       /\ Aged(t)[q].room = asks[t][q].room
                       /\ Aged(t)[q].parent = asks[t][q].parent
                       /\ ~StillMounted(t) => Aged(t)[q].live = FALSE
<1>1. ASSUME NEW q \in Requests
      PROVE  /\ Aged(t)[q] \in Ask
             /\ asks[t][q] = NoAsk => Aged(t)[q] = NoAsk
             /\ StillMounted(t) => Aged(t)[q] = asks[t][q]
             /\ asks[t][q] # NoAsk =>
                   /\ Aged(t)[q].kind = asks[t][q].kind
                   /\ Aged(t)[q].room = asks[t][q].room
                   /\ Aged(t)[q].parent = asks[t][q].parent
                   /\ ~StillMounted(t) => Aged(t)[q].live = FALSE
  <2>1. asks[t][q] \in Ask
    BY DEF AppTypeOK
  <2>2. CASE asks[t][q] = NoAsk \/ StillMounted(t)
    BY <2>1, <2>2 DEF Aged
  <2>3. CASE asks[t][q] # NoAsk /\ ~StillMounted(t)
    <3>1. Aged(t)[q] = [asks[t][q] EXCEPT !.live = FALSE]
      BY <2>3 DEF Aged
    <3>. QED
      BY <2>3, <3>1, AskFields
  <2>. QED
    BY <2>2, <2>3
<1>2. Aged(t) = [q \in Requests |-> Aged(t)[q]]
  BY DEF Aged
<1>. QED
  BY <1>1, <1>2

LEMMA SentKeeps ==
    ASSUME AppInv,
           NEW t \in Tabs, NEW kind \in {"create", "join", "rejoin", "move", "aside"},
           NEW r \in Rooms, NEW parent \in Rooms \cup {NoRoom},
           Sent(t, kind, r, parent),
           ~late[t] => Fits(t, [kind |-> kind, room |-> r, parent |-> parent, live |-> TRUE])
    PROVE  AppInv'
<1> DEFINE a == [kind |-> kind, room |-> r, parent |-> parent, live |-> TRUE]
<1>1. PICK q \in Requests :
         /\ asks' = [asks EXCEPT ![t][q] = a]
         /\ UNCHANGED <<screen, room, join, sideParent, started, conn, late>>
  BY DEF Sent
<1>2. a \in Ask
  BY DEF Ask
<1>3. AppTypeOK'
  BY <1>1, <1>2 DEF AppInv, AppTypeOK
<1>4. Joined' /\ InOnePlace'
  BY <1>1 DEF AppInv, Joined, InOnePlace, View
<1>5. \A u \in Tabs, p \in Requests :
         asks'[u][p] = IF u = t /\ p = q THEN a ELSE asks[u][p]
  BY <1>1 DEF AppInv, AppTypeOK
<1>6. LiveFits'
  BY <1>1, <1>5 DEF AppInv, LiveFits, Fits, View
<1>. QED
  BY <1>3, <1>4, <1>6 DEF AppInv

LEMMA ScreensKeep ==
    ASSUME AppInv, NEW t \in Tabs,
           Connect(t) \/ Leave(t) \/ Exit(t) \/ Reload(t)
    PROVE  AppInv'
<1>1. CASE Connect(t)
  <2>1. conn[t] \in [st : {"connecting", "connected", "failed"}, room : Rooms]
    BY <1>1 DEF Connect, AppInv, AppTypeOK, Conn, NoConn
  <2>2. AppTypeOK'
    <3>1. PICK st \in {"connected", "failed"} : conn' = [conn EXCEPT ![t].st = st]
      BY <1>1 DEF Connect
    <3>2. [conn[t] EXCEPT !.st = st] \in Conn
      BY <2>1 DEF Conn
    <3>. QED
      BY <1>1, <3>1, <3>2 DEF Connect, AppInv, AppTypeOK
  <2>3. InOnePlace'
    BY <1>1, <2>1 DEF Connect, AppInv, AppTypeOK, InOnePlace, View, NoConn
  <2>. QED
    BY <1>1, <2>2, <2>3 DEF Connect, AppInv, Joined, LiveFits, Fits, View
<1>2. CASE Leave(t) \/ Exit(t)
  <2>0. asks' = [asks EXCEPT ![t] = Aged(t)]
    BY <1>2 DEF Leave, Exit
  <2>1. AppTypeOK'
    <3>1. NoConn \in Conn /\ Aged(t) \in [Requests -> Ask]
      BY AgedFields DEF AppInv, Conn
    <3>2. conn' = [conn EXCEPT ![t] = NoConn]
      BY <1>2 DEF Leave, Exit, Left, WentHome, Render, View, AppInv, AppTypeOK
    <3>3. conn' \in [Tabs -> Conn] /\ asks' \in [Tabs -> [Requests -> Ask]]
      BY <2>0, <3>1, <3>2 DEF AppInv, AppTypeOK
    <3>. QED
      BY <1>2, <3>3 DEF Leave, Exit, Left, WentHome, AppInv, AppTypeOK
  <2>2. Joined'
    BY <1>2 DEF Leave, Exit, Left, WentHome, View, AppInv, AppTypeOK, Joined
  <2>3. InOnePlace'
    BY <1>2 DEF Leave, Exit, Left, WentHome, Render, View, AppInv, AppTypeOK, InOnePlace, NoConn
  <2>4. ~StillMounted(t)
    BY <1>2 DEF Leave, Exit, Left, WentHome, View, AppInv, AppTypeOK, StillMounted
  <2>5. \A u \in Tabs, p \in Requests :
           /\ u # t => asks'[u][p] = asks[u][p]
           /\ asks'[t][p] # NoAsk => asks'[t][p].live = FALSE
    <3>1. /\ \A u \in Tabs \ {t} : asks'[u] = asks[u]
          /\ asks'[t] = Aged(t)
      BY <2>0 DEF AppInv, AppTypeOK
    <3>2. \A p \in Requests : Aged(t)[p] # NoAsk => Aged(t)[p].live = FALSE
      BY <2>4, AgedFields DEF AppInv
    <3>. QED
      BY <3>1, <3>2
  <2>6. LiveFits'
    BY <1>2, <2>5 DEF Leave, Exit, Left, WentHome, View, AppInv, AppTypeOK, LiveFits, Fits
  <2>. QED
    BY <2>1, <2>2, <2>3, <2>6 DEF AppInv
<1>3. CASE Reload(t)
  <2>1. AppTypeOK'
    BY <1>3 DEF Reload, AppInv, AppTypeOK, Ask, Conn
  <2>2. Joined' /\ InOnePlace'
    BY <1>3 DEF Reload, AppInv, AppTypeOK, Joined, InOnePlace, View
  <2>3. LiveFits'
    BY <1>3 DEF Reload, AppInv, AppTypeOK, LiveFits, Fits, View
  <2>. QED
    BY <2>1, <2>2, <2>3 DEF AppInv
<1>. QED
  BY <1>1, <1>2, <1>3

\* A live answer leaves the tab in one place; a late one makes it a late tab.
LEMMA AnswerKeeps ==
    ASSUME AppInv, NEW t \in Tabs, NEW q \in Requests, Answer(t, q)
    PROVE  AppInv'
<1> DEFINE a == asks[t][q]
<1>1. /\ a # NoAsk
      /\ a.kind \in {"create", "join", "rejoin", "move", "aside"}
      /\ a.room \in Rooms
      /\ a.parent \in Rooms \cup {NoRoom}
      /\ a.live \in BOOLEAN
  BY AskFields DEF Answer, AppInv
<1>2. /\ asks' = [asks EXCEPT ![t] = [Aged(t) EXCEPT ![q] = NoAsk]]
      /\ late' = [late EXCEPT ![t] = late[t] \/ ~a.live]
      /\ Render(t)
  BY DEF Answer
<1>3. \/ a.kind = "create" /\ OpenRoom(t, a.room)
      \/ /\ a.kind \in {"join", "rejoin"}
         /\ HandleJoin(t, a.room)
         /\ UNCHANGED <<room, sideParent>>
      \/ a.kind \in {"move", "aside"} /\ Moved(t, a.room, a.parent)
  BY DEF Answer
<1>4. AppTypeOK'
  <2>1. /\ screen' \in [Tabs -> {"home", "lobby", "call", "postcall"}]
        /\ room' \in [Tabs -> Rooms \cup {NoRoom}]
        /\ join' \in [Tabs -> Rooms \cup {NoRoom}]
        /\ sideParent' \in [Tabs -> Rooms \cup {NoRoom}]
        /\ started' \in [Tabs -> BOOLEAN]
    BY <1>1, <1>3 DEF OpenRoom, HandleJoin, Moved, AppInv, AppTypeOK
  <2>2. late' \in [Tabs -> BOOLEAN]
    BY <1>1, <1>2 DEF AppInv, AppTypeOK
  <2>3. asks' \in [Tabs -> [Requests -> Ask]]
    <3>1. NoAsk \in Ask /\ Aged(t) \in [Requests -> Ask]
      BY AgedFields DEF AppInv, Ask
    <3>. QED
      BY <1>2, <3>1 DEF AppInv, AppTypeOK
  <2>4. conn' \in [Tabs -> Conn]
    <3>1. View(t)' = "call" => join'[t] \in Rooms
      BY <1>1, <1>3 DEF OpenRoom, HandleJoin, Moved, AppInv, AppTypeOK, View
    <3>2. NoConn \in Conn /\ \A r \in Rooms : [st |-> "connecting", room |-> r] \in Conn
      BY DEF Conn
    <3>. QED
      BY <1>2, <3>1, <3>2 DEF Render, AppInv, AppTypeOK
  <2>. QED
    BY <2>1, <2>2, <2>3, <2>4 DEF AppTypeOK
<1>5. Joined'
  BY <1>1, <1>3 DEF OpenRoom, HandleJoin, Moved, AppInv, AppTypeOK, Joined
<1>6. \A u \in Tabs \ {t} :
         /\ screen'[u] = screen[u] /\ room'[u] = room[u] /\ join'[u] = join[u]
         /\ sideParent'[u] = sideParent[u] /\ started'[u] = started[u]
         /\ conn'[u] = conn[u] /\ asks'[u] = asks[u] /\ late'[u] = late[u]
  BY <1>2, <1>3 DEF OpenRoom, HandleJoin, Moved, Render, AppInv, AppTypeOK
<1>7. ~late'[t] => ~late[t] /\ a.live /\ Fits(t, a)
  BY <1>1, <1>2 DEF AppInv, AppTypeOK, LiveFits
<1>8. InOnePlace'
  <2>1. ASSUME ~late'[t]
        PROVE  /\ View(t)' = "call" =>
                     join'[t] = room'[t] /\ conn'[t] # NoConn /\ conn'[t].room = room'[t]
               /\ View(t)' # "call" => conn'[t] = NoConn
               /\ View(t)' = "postcall" => join'[t] = room'[t]
               /\ started'[t] <=> View(t)' = "call"
    <3>1. /\ View(t)' = "call" => join'[t] = room'[t]
          /\ View(t)' # "postcall"
          /\ started'[t] <=> View(t)' = "call"
      BY <1>1, <1>3, <1>7, <2>1 DEF OpenRoom, HandleJoin, Moved, Fits, View, AppInv, AppTypeOK, InOnePlace
    <3>2. conn'[t] = IF View(t)' # "call" THEN NoConn
                     ELSE IF conn[t] # NoConn /\ conn[t].room = join'[t] THEN conn[t]
                     ELSE [st |-> "connecting", room |-> join'[t]]
      BY <1>2 DEF Render, AppInv, AppTypeOK
    <3>. QED
      BY <3>1, <3>2 DEF NoConn
  <2>. QED
    BY <1>6, <2>1 DEF AppInv, InOnePlace, View
<1>9. LiveFits'
  <2>1. \A p \in Requests :
           asks'[t][p] # NoAsk /\ asks'[t][p].live =>
              StillMounted(t) /\ asks'[t][p] = asks[t][p] /\ p # q
    BY <1>2, AgedFields DEF AppInv, AppTypeOK
  <2>2. ASSUME ~late'[t]
        PROVE  /\ View(t)' \in {"home", "lobby"} => sideParent'[t] = NoRoom
               /\ StillMounted(t) => View(t) = "call" /\ View(t)' = "call"
    BY <1>1, <1>3, <1>7, <2>2 DEF OpenRoom, HandleJoin, Moved, Fits, View, StillMounted, AppInv, AppTypeOK, LiveFits
  <2>3. ASSUME ~late'[t], NEW p \in Requests, asks'[t][p] # NoAsk, asks'[t][p].live
        PROVE  Fits(t, asks[t][p])'
    BY <1>7, <2>1, <2>2, <2>3 DEF Fits, AppInv, LiveFits
  <2>. QED
    BY <1>6, <2>2, <2>3 DEF AppInv, LiveFits, Fits, View
<1>. QED
  BY <1>4, <1>5, <1>8, <1>9 DEF AppInv

LEMMA RefuseKeeps ==
    ASSUME AppInv, NEW t \in Tabs, NEW q \in Requests, Refuse(t, q)
    PROVE  AppInv'
<1>1. AppTypeOK'
  BY DEF Refuse, AppInv, AppTypeOK, Ask
<1>2. \A u \in Tabs, p \in Requests : asks'[u][p] \in {asks[u][p], NoAsk}
  BY DEF Refuse, AppInv, AppTypeOK
<1>3. LiveFits'
  BY <1>2 DEF Refuse, AppInv, LiveFits, Fits, View
<1>. QED
  BY <1>1, <1>3 DEF Refuse, AppInv, Joined, InOnePlace, View

----
(* Side rooms: types, and the screens' invariant.                           *)

LEMMA InitTypeOK == Init => TypeOK
<1>1. AppInit => AppTypeOK
  BY InitAppInv DEF AppInv
<1>. QED
  BY <1>1 DEF Init, TypeOK

\* In a call, the true main room is a room.
LEMMA TrueMainIsRoom ==
    ASSUME AppInv, NEW t \in Tabs, View(t) = "call"
    PROVE  join[t] \in Rooms /\ TrueMain(t) \in Rooms
  BY DEF AppInv, AppTypeOK, Joined, View, TrueMain

\* Every request is sent from the screen it belongs to.
LEMMA AskKeeps ==
    ASSUME AppInv, NEW t \in Tabs,
           \/ \E r \in Rooms : AskCreate(t, r)
           \/ AskJoin(t)
           \/ AskRejoin(t)
           \/ \E kind \in {"move", "aside"}, r \in Rooms, parent \in Rooms \cup {NoRoom} :
                 AskMove(t, kind, r, parent)
    PROVE  AppInv'
<1>1. ASSUME NEW r \in Rooms, AskCreate(t, r) PROVE AppInv'
  BY <1>1, SentKeeps DEF AskCreate, Fits
<1>2. CASE AskJoin(t)
  <2>1. room[t] \in Rooms
    BY <1>2 DEF AskJoin, View, AppInv, AppTypeOK
  <2>. QED
    BY <1>2, <2>1, SentKeeps DEF AskJoin, Fits
<1>3. CASE AskRejoin(t)
  <2>1. join[t] \in Rooms
    BY <1>3 DEF AskRejoin, View, AppInv, AppTypeOK, Joined
  <2>. QED
    BY <1>3, <2>1, SentKeeps DEF AskRejoin, Fits
<1>4. ASSUME NEW kind \in {"move", "aside"}, NEW r \in Rooms,
             NEW parent \in Rooms \cup {NoRoom}, AskMove(t, kind, r, parent)
      PROVE  AppInv'
  BY <1>4, SentKeeps DEF AskMove, Fits
<1>. QED
  BY <1>1, <1>2, <1>3, <1>4

\* An invitation and a way back are rooms.
LEMMA Rooms2 ==
    ASSUME TypeOK, NEW t \in Tabs
    PROVE  /\ incoming[t] # NoInvite => incoming[t].room \in Rooms /\ incoming[t].main \in Rooms
           /\ sideParent[t] # NoRoom => sideParent[t] \in Rooms
  BY DEF TypeOK, AppTypeOK, Invite

LEMMA AppInvStep == TypeOK /\ AppInv /\ [Next]_vars => AppInv'
<1> SUFFICES ASSUME TypeOK, AppInv, [Next]_vars PROVE AppInv'
  OBVIOUS
<1>1. CASE UNCHANGED appVars
  BY <1>1 DEF appVars, AppInv, AppTypeOK, Joined, InOnePlace, LiveFits, Fits, View
<1>2. ASSUME NEW t \in Tabs, Screens(t) PROVE AppInv'
  BY <1>2, AskKeeps, ScreensKeep DEF Screens
<1>3. ASSUME NEW t \in Tabs, Accept(t) \/ BackToMain(t) PROVE AppInv'
  BY <1>3, AskKeeps, Rooms2 DEF Accept, BackToMain
<1>4. ASSUME NEW t \in Tabs, NEW q \in Requests, Answered(t, q) PROVE AppInv'
  BY <1>4, AnswerKeeps DEF Answered
<1>5. ASSUME NEW t \in Tabs, NEW q \in Requests, Refused(t, q) PROVE AppInv'
  BY <1>5, RefuseKeeps DEF Refused
<1>6. ASSUME NEW t \in Tabs, NEW r \in Rooms, TakeAside(t, r) PROVE AppInv'
  <2>1. AskMove(t, "aside", r, TrueMain(t))
    BY <1>6 DEF TakeAside
  <2>2. TrueMain(t) \in Rooms
    BY <2>1, TrueMainIsRoom DEF AskMove
  <2>. QED
    BY <2>1, <2>2, AskKeeps
<1>7. ASSUME NEW t \in Tabs, Dismiss(t) PROVE AppInv'
  BY <1>1, <1>7 DEF Dismiss
<1>8. ASSUME NEW msg \in wire, Receive(msg) PROVE AppInv'
  BY <1>1, <1>8 DEF Receive
<1>. QED
  BY <1>1, <1>2, <1>3, <1>4, <1>5, <1>6, <1>7, <1>8 DEF Next, vars

LEMMA TypeStep == TypeOK /\ AppInv /\ [Next]_vars => TypeOK'
<1> SUFFICES ASSUME TypeOK, AppInv, [Next]_vars PROVE TypeOK'
  OBVIOUS
<1>0. AppTypeOK'
  BY AppInvStep DEF AppInv
<1>1. CASE UNCHANGED sideVars
  BY <1>0, <1>1 DEF sideVars, TypeOK
<1>2. ASSUME NEW t \in Tabs, Screens(t) PROVE TypeOK'
  BY <1>0, <1>2 DEF Screens, Stage, TypeOK
<1>3. ASSUME NEW t \in Tabs, Accept(t) \/ BackToMain(t) \/ Dismiss(t) PROVE TypeOK'
  BY <1>0, <1>3 DEF Accept, BackToMain, Dismiss, TypeOK, sideVars
<1>4. ASSUME NEW t \in Tabs, NEW q \in Requests, Answered(t, q) PROVE TypeOK'
  <2>1. asks[t][q] # NoAsk
    BY <1>4 DEF Answered, Answer
  <2>2. asks[t][q].room \in Rooms /\ asks[t][q].live \in BOOLEAN
    BY <2>1, AskFields DEF AppInv
  <2>. QED
    BY <1>0, <1>4, <2>2 DEF Answered, Stage, TypeOK
<1>5. ASSUME NEW t \in Tabs, NEW q \in Requests, Refused(t, q) PROVE TypeOK'
  <2>1. asks[t][q].room \in Rooms
    BY <1>5, AskFields DEF Refused, Refuse, AppInv
  <2>. QED
    BY <1>0, <1>5, <2>1 DEF Refused, TypeOK
<1>6. ASSUME NEW t \in Tabs, NEW r \in Rooms, TakeAside(t, r) PROVE TypeOK'
  <2>1. join[t] \in Rooms /\ TrueMain(t) \in Rooms
    BY <1>6, TrueMainIsRoom DEF TakeAside, AskMove
  <2>2. [room |-> r, main |-> TrueMain(t)] \in Invite
    BY <2>1 DEF Invite
  <2>3. wire' \in SUBSET [to : Tabs, via : Rooms, invite : Invite]
    BY <1>6, <2>1, <2>2 DEF TakeAside, TypeOK
  <2>. QED
    BY <1>0, <1>6, <2>1, <2>3 DEF TakeAside, TypeOK
<1>7. ASSUME NEW msg \in wire, Receive(msg) PROVE TypeOK'
  BY <1>0, <1>7 DEF Receive, TypeOK
<1>. QED
  BY <1>1, <1>2, <1>3, <1>4, <1>5, <1>6, <1>7 DEF Next, vars

----
(* The way back.                                                            *)

\* What makes SameWayBack inductive: invitations on their way and moves under way
\* carry the opener's main room too.
WaysBack ==
    /\ SameWayBack
    /\ \A msg \in wire : msg.invite.main = mainOf[msg.invite.room]
    /\ \A t \in Tabs, q \in Requests :
          /\ asks[t][q] # NoAsk
          /\ asks[t][q].kind \in {"move", "aside"}
          /\ asks[t][q].parent # NoRoom
          => asks[t][q].parent = mainOf[asks[t][q].room]

\* What makes WayBackIsMain inductive: whoever is or was in a call and has no way
\* back is in a room entered through its lobby, or on the way to one.
Mains ==
    ~strayed =>
        /\ WayBackIsMain
        /\ \A t \in Tabs :
              /\ ~late[t]
              /\ View(t) \in {"call", "postcall"} /\ sideParent[t] = NoRoom
                    => join[t] \in entered
        /\ \A t \in Tabs, q \in Requests :
              /\ asks[t][q] # NoAsk
              /\ asks[t][q].kind \in {"move", "aside"}
              /\ asks[t][q].parent = NoRoom
              => asks[t][q].room \in entered

\* The inductive invariant.
IInv == TypeOK /\ AppInv /\ WaysBack /\ Mains

LEMMA InitIInv == Init => IInv
<1> SUFFICES ASSUME Init PROVE IInv
  OBVIOUS
<1>1. TypeOK /\ AppInv
  BY InitTypeOK, InitAppInv DEF Init
<1>2. WaysBack
  BY DEF Init, AppInit, WaysBack, SameWayBack
<1>3. Mains
  BY DEF Init, AppInit, Mains, WayBackIsMain, View
<1>. QED
  BY <1>1, <1>2, <1>3 DEF IInv

\* Steps that ask for no move and lead into no call.
Quiet ==
    /\ \A t \in Tabs, q \in Requests : asks'[t][q] # NoAsk =>
          \/ asks'[t][q].kind \in {"create", "join", "rejoin"}
          \/ /\ asks[t][q] # NoAsk
             /\ asks'[t][q].kind = asks[t][q].kind
             /\ asks'[t][q].room = asks[t][q].room
             /\ asks'[t][q].parent = asks[t][q].parent
    /\ \A t \in Tabs :
          /\ late'[t] => late[t]
          /\ \/ sideParent'[t] = NoRoom
             \/ /\ sideParent'[t] = sideParent[t]
                /\ room'[t] = room[t]
                /\ late'[t] = late[t]
          /\ View(t)' \in {"call", "postcall"} /\ sideParent'[t] = NoRoom =>
                /\ View(t) \in {"call", "postcall"}
                /\ sideParent[t] = NoRoom
                /\ join'[t] = join[t]

LEMMA QuietKeepsMains ==
    ASSUME TypeOK, Mains, Quiet, UNCHANGED <<mainOf, entered, strayed>>
    PROVE  Mains'
  BY DEF TypeOK, Mains, Quiet, WayBackIsMain, View

LEMMA QuietKeepsWays ==
    ASSUME TypeOK, WaysBack, Quiet, UNCHANGED mainOf,
           wire' \subseteq wire,
           \A t \in Tabs : \/ incoming'[t] \in {incoming[t], NoInvite}
                          \/ \E msg \in wire : incoming'[t] = msg.invite
    PROVE  WaysBack'
<1>1. SameWayBack'
  BY DEF TypeOK, WaysBack, SameWayBack, Quiet
<1>2. \A msg \in wire' : msg.invite.main = mainOf'[msg.invite.room]
  BY DEF WaysBack
<1>3. ASSUME NEW t \in Tabs, NEW q \in Requests, asks'[t][q] # NoAsk,
             asks'[t][q].kind \in {"move", "aside"}, asks'[t][q].parent # NoRoom
      PROVE  asks'[t][q].parent = mainOf'[asks'[t][q].room]
  BY <1>3 DEF WaysBack, Quiet
<1>. QED
  BY <1>1, <1>2, <1>3 DEF WaysBack

LEMMA UnchangedIsQuiet == UNCHANGED appVars => Quiet
  BY DEF appVars, Quiet, View

LEMMA SentIsQuiet ==
    ASSUME AppInv, NEW t \in Tabs, NEW kind \in {"create", "join", "rejoin"},
           NEW r, NEW parent, Sent(t, kind, r, parent)
    PROVE  Quiet
<1> DEFINE a == [kind |-> kind, room |-> r, parent |-> parent, live |-> TRUE]
<1>1. PICK q \in Requests :
         /\ asks' = [asks EXCEPT ![t][q] = a]
         /\ UNCHANGED <<screen, room, join, sideParent, started, conn, late>>
  BY DEF Sent
<1>2. \A u \in Tabs, p \in Requests :
         asks'[u][p] = IF u = t /\ p = q THEN a ELSE asks[u][p]
  BY <1>1 DEF AppInv, AppTypeOK
<1>. QED
  BY <1>1, <1>2 DEF Quiet, View

LEMMA ScreensQuiet ==
    ASSUME AppInv, NEW t \in Tabs, Screens(t)
    PROVE  Quiet
<1>1. CASE (\E r \in Rooms : AskCreate(t, r)) \/ AskJoin(t) \/ AskRejoin(t)
  BY <1>1, SentIsQuiet DEF AskCreate, AskJoin, AskRejoin
<1>2. CASE Connect(t)
  BY <1>2 DEF Connect, Quiet, View
<1>3. CASE Leave(t) \/ Exit(t)
  <2>1. /\ \A u \in Tabs \ {t} : asks'[u] = asks[u]
        /\ asks'[t] = Aged(t)
    BY <1>3 DEF Leave, Exit, AppInv, AppTypeOK
  <2>2. \A q \in Requests : Aged(t)[q] # NoAsk =>
           /\ asks[t][q] # NoAsk
           /\ Aged(t)[q].kind = asks[t][q].kind
           /\ Aged(t)[q].room = asks[t][q].room
           /\ Aged(t)[q].parent = asks[t][q].parent
    BY AgedFields DEF AppInv
  <2>. QED
    BY <1>3, <2>1, <2>2 DEF Leave, Exit, Left, WentHome, Quiet, View, AppInv, AppTypeOK
<1>4. CASE Reload(t)
  <2>1. \A u \in Tabs, q \in Requests : asks'[u][q] \in {asks[u][q], NoAsk}
    BY <1>4 DEF Reload, AppInv, AppTypeOK
  <2>. QED
    BY <1>4, <2>1 DEF Reload, Quiet, View, AppInv, AppTypeOK
<1>. QED
  BY <1>1, <1>2, <1>3, <1>4 DEF Screens

LEMMA RefusedQuiet ==
    ASSUME AppInv, NEW t \in Tabs, NEW q \in Requests, Refused(t, q)
    PROVE  Quiet
<1>1. \A u \in Tabs, p \in Requests : asks'[u][p] \in {asks[u][p], NoAsk}
  BY DEF Refused, Refuse, AppInv, AppTypeOK
<1>. QED
  BY <1>1 DEF Refused, Refuse, Quiet, View

\* Asking for a move adds one request and changes nothing on the screen.
LEMMA MoveAsked ==
    ASSUME AppInv, NEW t \in Tabs, NEW kind, NEW r, NEW parent, AskMove(t, kind, r, parent)
    PROVE  /\ View(t) = "call"
           /\ UNCHANGED <<screen, room, join, sideParent, late>>
           /\ \A u \in Tabs, p \in Requests :
                 \/ asks'[u][p] = asks[u][p]
                 \/ asks'[u][p] = [kind |-> kind, room |-> r, parent |-> parent, live |-> TRUE]
<1>1. PICK q \in Requests :
         asks' = [asks EXCEPT ![t][q] =
                     [kind |-> kind, room |-> r, parent |-> parent, live |-> TRUE]]
  BY DEF AskMove, Sent
<1>2. \A u \in Tabs, p \in Requests :
         asks'[u][p] = IF u = t /\ p = q
                       THEN [kind |-> kind, room |-> r, parent |-> parent, live |-> TRUE]
                       ELSE asks[u][p]
  BY <1>1 DEF AppInv, AppTypeOK
<1>. QED
  BY <1>2 DEF AskMove, Sent

\* Accepting an invitation, and going back.
LEMMA MovesKeep ==
    ASSUME IInv, NEW t \in Tabs, Accept(t) \/ BackToMain(t)
    PROVE  WaysBack' /\ Mains'
<1>1. CASE Accept(t)
  <2>1. /\ UNCHANGED <<screen, room, join, sideParent, late>>
        /\ \A u \in Tabs, p \in Requests :
              \/ asks'[u][p] = asks[u][p]
              \/ asks'[u][p] = [kind |-> "move", room |-> incoming[t].room,
                                parent |-> incoming[t].main, live |-> TRUE]
    BY <1>1, MoveAsked DEF Accept, IInv
  <2>2. incoming[t].main = mainOf[incoming[t].room] /\ incoming[t].main # NoRoom
    BY <1>1, Rooms2 DEF Accept, IInv, WaysBack, SameWayBack
  <2>3. SameWayBack'
    BY <1>1, <2>1 DEF Accept, IInv, TypeOK, WaysBack, SameWayBack
  <2>4. WaysBack'
    BY <1>1, <2>1, <2>2, <2>3 DEF Accept, IInv, WaysBack
  <2>5. Mains'
    BY <1>1, <2>1, <2>2 DEF Accept, IInv, Mains, WayBackIsMain, View
  <2>. QED
    BY <2>4, <2>5
<1>2. CASE BackToMain(t)
  <2>1. /\ View(t) = "call"
        /\ UNCHANGED <<screen, room, join, sideParent, late>>
        /\ \A u \in Tabs, p \in Requests :
              \/ asks'[u][p] = asks[u][p]
              \/ asks'[u][p] = [kind |-> "move", room |-> sideParent[t],
                                parent |-> NoRoom, live |-> TRUE]
    BY <1>2, MoveAsked DEF BackToMain, IInv
  <2>2. ~strayed => sideParent[t] \in entered
    <3>1. room[t] \in Rooms
      BY <2>1 DEF View, IInv, AppInv, AppTypeOK
    <3>. QED
      BY <1>2, <3>1 DEF BackToMain, IInv, Mains, WayBackIsMain, WaysBack, SameWayBack
  <2>3. SameWayBack'
    BY <1>2, <2>1 DEF BackToMain, sideVars, IInv, WaysBack, SameWayBack
  <2>4. WaysBack'
    BY <1>2, <2>1, <2>3 DEF BackToMain, sideVars, IInv, WaysBack
  <2>5. Mains'
    BY <1>2, <2>1, <2>2 DEF BackToMain, sideVars, IInv, Mains, WayBackIsMain, View
  <2>. QED
    BY <2>4, <2>5
<1>. QED
  BY <1>1, <1>2

\* A fresh side room gets its main room; nothing yet refers to it.
LEMMA TakeAsideKeeps ==
    ASSUME IInv, NEW t \in Tabs, NEW r \in Rooms, TakeAside(t, r)
    PROVE  WaysBack' /\ Mains'
<1> DEFINE m == TrueMain(t)
<1>1. /\ View(t) = "call"
      /\ UNCHANGED <<screen, room, join, sideParent, late>>
      /\ \A u \in Tabs, p \in Requests :
            \/ asks'[u][p] = asks[u][p]
            \/ asks'[u][p] = [kind |-> "aside", room |-> r, parent |-> m, live |-> TRUE]
  BY MoveAsked DEF TakeAside, IInv
<1>2. m \in Rooms /\ join[t] \in Rooms
  BY <1>1, TrueMainIsRoom DEF IInv
<1>3. /\ mainOf[r] = NoRoom
      /\ \A u \in Tabs : /\ room[u] # r
                         /\ \A q \in Requests : asks[u][q] # NoAsk => asks[u][q].room # r
  BY DEF TakeAside, FreshRoom
<1>4. mainOf'[r] = m /\ \A x \in Rooms \ {r} : mainOf'[x] = mainOf[x]
  BY DEF TakeAside, IInv, TypeOK
<1>5. \A x \in Invite : x.main = mainOf[x.room] => x.room # r /\ mainOf'[x.room] = mainOf[x.room]
  BY <1>3, <1>4 DEF Invite
<1>6. SameWayBack'
  <2>1. \A u \in Tabs : incoming'[u] # NoInvite => incoming'[u].main = mainOf'[incoming'[u].room]
    BY <1>5 DEF TakeAside, IInv, TypeOK, WaysBack, SameWayBack
  <2>2. ASSUME NEW u \in Tabs, ~late[u], sideParent[u] # NoRoom
        PROVE  sideParent[u] = mainOf'[room[u]]
    <3>1. room[u] \in Rooms \cup {NoRoom}
      BY DEF IInv, TypeOK, AppTypeOK
    <3>2. room[u] # NoRoom
      BY <2>2, <3>1 DEF IInv, AppInv, LiveFits, View
    <3>. QED
      BY <1>3, <1>4, <2>2, <3>1, <3>2 DEF IInv, WaysBack, SameWayBack
  <2>. QED
    BY <1>1, <2>1, <2>2 DEF SameWayBack
<1>7. \A msg \in wire' : msg.invite.main = mainOf'[msg.invite.room]
  <2>1. ASSUME NEW msg \in wire'
        PROVE  msg \in wire \/ msg.invite = [room |-> r, main |-> m]
    BY <2>1 DEF TakeAside
  <2>2. ASSUME NEW msg \in wire PROVE msg.invite.main = mainOf'[msg.invite.room]
    BY <1>5 DEF IInv, TypeOK, WaysBack
  <2>. QED
    BY <1>4, <2>1, <2>2
<1>8. ASSUME NEW u \in Tabs, NEW q \in Requests, asks'[u][q] # NoAsk,
             asks'[u][q].kind \in {"move", "aside"}, asks'[u][q].parent # NoRoom
      PROVE  asks'[u][q].parent = mainOf'[asks'[u][q].room]
  <2>1. CASE asks'[u][q] = asks[u][q]
    <3>1. asks[u][q] # NoAsk /\ asks[u][q].room \in Rooms \ {r}
      BY <1>3, <1>8, <2>1, AskFields DEF IInv, AppInv
    <3>2. asks[u][q].parent = mainOf[asks[u][q].room]
      BY <1>8, <2>1, <3>1 DEF IInv, WaysBack
    <3>. QED
      BY <1>4, <2>1, <3>1, <3>2
  <2>2. CASE asks'[u][q] = [kind |-> "aside", room |-> r, parent |-> m, live |-> TRUE]
    BY <1>4, <2>2
  <2>. QED
    BY <1>1, <2>1, <2>2
<1>9. Mains'
  <2>1. ~strayed => m \in entered
    <3>1. room[t] \in Rooms
      BY <1>1 DEF View, IInv, AppInv, AppTypeOK
    <3>. QED
      BY <1>1, <3>1 DEF TrueMain, IInv, Mains, WayBackIsMain, WaysBack, SameWayBack
  <2>2. UNCHANGED <<entered, strayed>>
    BY DEF TakeAside
  <2>3. ~strayed' => WayBackIsMain'
    BY <1>4, <2>1, <2>2 DEF IInv, Mains, WayBackIsMain
  <2>. QED
    BY <1>1, <1>2, <2>2, <2>3 DEF IInv, Mains, View
<1>. QED
  BY <1>6, <1>7, <1>8, <1>9 DEF WaysBack

\* A live answer brings the parent it was sent with; the first answer to a join
\* enters the room through its lobby.
LEMMA AnsweredKeeps ==
    ASSUME IInv, NEW t \in Tabs, NEW q \in Requests, Answered(t, q)
    PROVE  WaysBack' /\ Mains'
<1> DEFINE a == asks[t][q]
<1>1. /\ a # NoAsk
      /\ a.kind \in {"create", "join", "rejoin", "move", "aside"}
      /\ a.room \in Rooms
      /\ a.parent \in Rooms \cup {NoRoom}
      /\ a.live \in BOOLEAN
  BY AskFields DEF Answered, Answer, IInv, AppInv
<1>2. \/ a.kind = "create" /\ OpenRoom(t, a.room)
      \/ /\ a.kind \in {"join", "rejoin"}
         /\ HandleJoin(t, a.room)
         /\ UNCHANGED <<room, sideParent>>
      \/ a.kind \in {"move", "aside"} /\ Moved(t, a.room, a.parent)
  BY DEF Answered, Answer
<1>3. /\ late' = [late EXCEPT ![t] = late[t] \/ ~a.live]
      /\ strayed' = (strayed \/ ~a.live)
      /\ entered' = IF a.kind = "join" THEN entered \cup {a.room} ELSE entered
      /\ UNCHANGED <<wire, mainOf>>
      /\ \A u \in Tabs : incoming'[u] \in {incoming[u], NoInvite}
  BY DEF Answered, Answer, Stage, IInv, TypeOK
<1>4. \A u \in Tabs \ {t} :
         /\ screen'[u] = screen[u] /\ room'[u] = room[u] /\ join'[u] = join[u]
         /\ sideParent'[u] = sideParent[u] /\ late'[u] = late[u]
  BY <1>2, <1>3 DEF OpenRoom, HandleJoin, Moved, IInv, AppInv, AppTypeOK
<1>5. ~late'[t] => ~late[t] /\ a.live /\ Fits(t, a)
  BY <1>1, <1>3 DEF IInv, AppInv, AppTypeOK, LiveFits
<1>6. \A u \in Tabs, p \in Requests : asks'[u][p] # NoAsk =>
         /\ asks[u][p] # NoAsk
         /\ asks'[u][p].kind = asks[u][p].kind
         /\ asks'[u][p].room = asks[u][p].room
         /\ asks'[u][p].parent = asks[u][p].parent
  <2>1. /\ \A u \in Tabs \ {t} : asks'[u] = asks[u]
        /\ asks'[t] = [Aged(t) EXCEPT ![q] = NoAsk]
    BY DEF Answered, Answer, IInv, AppInv, AppTypeOK
  <2>2. /\ Aged(t) \in [Requests -> Ask]
        /\ \A p \in Requests : Aged(t)[p] # NoAsk =>
              /\ asks[t][p] # NoAsk
              /\ Aged(t)[p].kind = asks[t][p].kind
              /\ Aged(t)[p].room = asks[t][p].room
              /\ Aged(t)[p].parent = asks[t][p].parent
    BY AgedFields DEF IInv, AppInv
  <2>3. ASSUME NEW p \in Requests
        PROVE  asks'[t][p] = IF p = q THEN NoAsk ELSE Aged(t)[p]
    BY <2>1, <2>2
  <2>4. ASSUME NEW p \in Requests, asks'[t][p] # NoAsk
        PROVE  /\ asks[t][p] # NoAsk
               /\ asks'[t][p].kind = asks[t][p].kind
               /\ asks'[t][p].room = asks[t][p].room
               /\ asks'[t][p].parent = asks[t][p].parent
    <3>1. asks'[t][p] = Aged(t)[p]
      BY <2>3, <2>4
    <3>. QED
      BY <2>2, <2>4, <3>1
  <2>. QED
    BY <2>1, <2>4
<1>7. WaysBack'
  <2>1. ~late'[t] /\ sideParent'[t] # NoRoom => sideParent'[t] = mainOf[room'[t]]
    BY <1>1, <1>2, <1>5 DEF OpenRoom, HandleJoin, Moved, Fits, View, IInv, AppInv, AppTypeOK, LiveFits, WaysBack, SameWayBack
  <2>2. SameWayBack'
    BY <1>3, <1>4, <2>1 DEF IInv, WaysBack, SameWayBack
  <2>. QED
    BY <1>3, <1>6, <2>2 DEF IInv, WaysBack
<1>8. Mains'
  <2> SUFFICES ASSUME ~strayed' PROVE Mains'
    BY DEF Mains
  <2>1. ~strayed /\ a.live /\ ~late[t] /\ ~late'[t] /\ entered \subseteq entered'
    BY <1>1, <1>3 DEF IInv, Mains, AppInv, AppTypeOK
  <2>2. View(t)' \in {"call", "postcall"} /\ sideParent'[t] = NoRoom => join'[t] \in entered'
    BY <1>1, <1>2, <1>3, <1>5, <2>1 DEF OpenRoom, HandleJoin, Moved, Fits, View, IInv, Mains, AppInv, AppTypeOK
  <2>3. WayBackIsMain'
    BY <1>3, <2>1 DEF IInv, Mains, WayBackIsMain
  <2>4. ASSUME NEW u \in Tabs
        PROVE  /\ ~late'[u]
               /\ View(u)' \in {"call", "postcall"} /\ sideParent'[u] = NoRoom => join'[u] \in entered'
    BY <1>4, <2>1, <2>2 DEF IInv, Mains, View
  <2>. QED
    BY <1>6, <2>1, <2>3, <2>4 DEF IInv, Mains
<1>. QED
  BY <1>7, <1>8

LEMMA IInvStep == IInv /\ [Next]_vars => IInv'
<1> SUFFICES ASSUME IInv, [Next]_vars PROVE IInv'
  OBVIOUS
<1>0. TypeOK' /\ AppInv'
  BY TypeStep, AppInvStep DEF IInv
<1>1. CASE UNCHANGED vars
  <2>1. Quiet /\ UNCHANGED <<incoming, wire, mainOf, entered, strayed>>
    BY <1>1, UnchangedIsQuiet DEF vars, sideVars
  <2>2. WaysBack' /\ Mains'
    BY <2>1, QuietKeepsMains, QuietKeepsWays DEF IInv
  <2>. QED
    BY <1>0, <2>2 DEF IInv
<1>2. ASSUME NEW t \in Tabs, Screens(t) PROVE WaysBack' /\ Mains'
  <2>1. \A u \in Tabs : incoming'[u] \in {incoming[u], NoInvite}
    BY <1>2 DEF Screens, Stage, IInv, TypeOK
  <2>. QED
    BY <1>2, <2>1, ScreensQuiet, QuietKeepsMains, QuietKeepsWays DEF Screens, IInv
<1>3. ASSUME NEW t \in Tabs, NEW q \in Requests, Refused(t, q) PROVE WaysBack' /\ Mains'
  BY <1>3, RefusedQuiet, QuietKeepsMains, QuietKeepsWays DEF Refused, IInv
<1>4. ASSUME NEW t \in Tabs, Dismiss(t) PROVE WaysBack' /\ Mains'
  <2>1. \A u \in Tabs : incoming'[u] \in {incoming[u], NoInvite}
    BY <1>4 DEF Dismiss, IInv, TypeOK
  <2>. QED
    BY <1>4, <2>1, UnchangedIsQuiet, QuietKeepsMains, QuietKeepsWays DEF Dismiss, IInv
<1>5. ASSUME NEW msg \in wire, Receive(msg) PROVE WaysBack' /\ Mains'
  <2>1. \A u \in Tabs : incoming'[u] = incoming[u] \/ incoming'[u] = msg.invite
    BY <1>5 DEF Receive, IInv, TypeOK
  <2>. QED
    BY <1>5, <2>1, UnchangedIsQuiet, QuietKeepsMains, QuietKeepsWays DEF Receive, IInv
<1>6. ASSUME NEW t \in Tabs, Accept(t) \/ BackToMain(t) PROVE WaysBack' /\ Mains'
  BY <1>6, MovesKeep
<1>7. ASSUME NEW t \in Tabs, NEW r \in Rooms, TakeAside(t, r) PROVE WaysBack' /\ Mains'
  BY <1>7, TakeAsideKeeps
<1>8. ASSUME NEW t \in Tabs, NEW q \in Requests, Answered(t, q) PROVE WaysBack' /\ Mains'
  BY <1>8, AnsweredKeeps
<1>9. WaysBack' /\ Mains'
  BY <1>1, <1>2, <1>3, <1>4, <1>5, <1>6, <1>7, <1>8 DEF Next, IInv
<1>. QED
  BY <1>0, <1>9 DEF IInv

LEMMA Invariant == Spec => []IInv
  BY InitIInv, IInvStep, PTL DEF Spec

\* Every variable of the screens and the invitations keeps its type; in
\* particular "Rejoin" always has a join to repeat (App.tsx: handleRejoin).
THEOREM TypeCorrect == Spec => []TypeOK
<1>1. IInv => TypeOK
  BY DEF IInv
<1>. QED
  BY <1>1, Invariant, PTL

\* A tab that was answered in time is in one place (App.tsx, CallRoom's key).
THEOREM TabInOnePlace == Spec => []InOnePlace
<1>1. IInv => InOnePlace
  BY DEF IInv, AppInv
<1>. QED
  BY <1>1, Invariant, PTL

\* Everybody in or invited to a side room has its opener's way back (CallRoom.tsx:
\* trueMain, sideroom.ts: main).
THEOREM SameWayBackForAll == Spec => []SameWayBack
<1>1. IInv => SameWayBack
  BY DEF IInv, WaysBack
<1>. QED
  BY <1>1, Invariant, PTL

\* However deep side rooms nest, the way back leads to a room entered through its
\* lobby, while no answer came late (CallRoom.tsx: trueMain).
THEOREM WayBackSurvivesNesting == Spec => []WayBackIsMain
<1>1. IInv => WayBackIsMain
  BY DEF IInv, Mains, WayBackIsMain
<1>. QED
  BY <1>1, Invariant, PTL
=============================================================================
