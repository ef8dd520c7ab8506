----------------------------- MODULE AppSession -----------------------------
(***************************************************************************)
(* The screens of a browser tab (frontend/src/App.tsx) and the call they   *)
(* mount (CallRoom with useRoomConnection).                                *)
(*                                                                         *)
(* A handler that awaits the backend is two steps: what it does before,    *)
(* which leaves a request with everything its continuation captured, and   *)
(* the continuation, which is applied to whatever the tab shows by then.   *)
(* A request is live while the screen that sent it is still mounted.       *)
(*                                                                         *)
(* The role and devices a call is joined with are left out; the waiting    *)
(* screen is never shown, as nobody sets waitForHost.                      *)
(***************************************************************************)
CONSTANTS
    Tabs,
    Rooms,
    NoRoom,    \* null
    Requests   \* bound: the requests a tab may have under way at once

ASSUME NoRoomAssumption == NoRoom \notin Rooms

VARIABLES
    screen,
    room,       \* the room state, and the room of the URL, set with it
    join,       \* the room of the last token received
    sideParent, \* the room "back to main" returns to
    started,    \* startedAt # 0: the clock of the call is running
    conn,       \* the mounted CallRoom, by its key, and how far it is connected
    asks,       \* asks[t][q]: request q of tab t
    late        \* history: a continuation ran after its screen was gone

appVars == <<screen, room, join, sideParent, started, conn, asks, late>>

NoAsk == [kind |-> "none"]
Ask == {NoAsk} \cup
    [kind : {"create", "join", "rejoin", "move", "aside"},
     room : Rooms, parent : Rooms \cup {NoRoom}, live : BOOLEAN]

NoConn == [st |-> "none"]
Conn == {NoConn} \cup [st : {"connecting", "connected", "failed"}, room : Rooms]

AppTypeOK ==
    /\ screen \in [Tabs -> {"home", "lobby", "call", "postcall"}]
    /\ room \in [Tabs -> Rooms \cup {NoRoom}]
    /\ join \in [Tabs -> Rooms \cup {NoRoom}]
    /\ sideParent \in [Tabs -> Rooms \cup {NoRoom}]
    /\ started \in [Tabs -> BOOLEAN]
    /\ conn \in [Tabs -> Conn]
    /\ asks \in [Tabs -> [Requests -> Ask]]
    /\ late \in [Tabs -> BOOLEAN]

\* What App renders.
View(t) == IF room[t] = NoRoom THEN "home" ELSE screen[t]

\* A tab opened at the root or at a meeting link.
AppInit ==
    /\ room \in [Tabs -> Rooms \cup {NoRoom}]
    /\ screen = [t \in Tabs |-> IF room[t] = NoRoom THEN "home" ELSE "lobby"]
    /\ join = [t \in Tabs |-> NoRoom]
    /\ sideParent = [t \in Tabs |-> NoRoom]
    /\ started = [t \in Tabs |-> FALSE]
    /\ conn = [t \in Tabs |-> NoConn]
    /\ asks = [t \in Tabs |-> [q \in Requests |-> NoAsk]]
    /\ late = [t \in Tabs |-> FALSE]

----
(* Rendering: what React mounts and unmounts after a state change.          *)

\* A bug for comparison: CallRoom has no key, and stays mounted across rooms.
RenderUnkeyed(t) ==
    conn' = [conn EXCEPT ![t] =
        IF View(t)' # "call" THEN NoConn
        ELSE IF @ # NoConn THEN @
        ELSE [st |-> "connecting", room |-> join'[t]]]

\* CallRoom is mounted on the call screen, keyed on the room; unmounting it
\* disconnects.
Render(t) ==
    conn' = [conn EXCEPT ![t] =
        IF View(t)' # "call" THEN NoConn
        ELSE IF @ # NoConn /\ @.room = join'[t] THEN @
        ELSE [st |-> "connecting", room |-> join'[t]]]

\* The screen that was shown is still the one mounted.
StillMounted(t) ==
    /\ View(t)' = View(t)
    /\ View(t) = "call" => join'[t] = join[t]

\* Requests of t after a state change: those of an unmounted screen go on.
Aged(t) ==
    [q \in Requests |->
        IF asks[t][q] = NoAsk \/ StillMounted(t) THEN asks[t][q]
        ELSE [asks[t][q] EXCEPT !.live = FALSE]]

----
(* State changes of App, without rendering.                                 *)

\* openRoom(r)
OpenRoom(t, r) ==
    /\ room' = [room EXCEPT ![t] = r]
    /\ screen' = [screen EXCEPT ![t] = "lobby"]
    /\ UNCHANGED <<join, sideParent, started>>

\* handleJoin with a token for r, and enterCall.
HandleJoin(t, r) ==
    /\ join' = [join EXCEPT ![t] = r]
    /\ started' = [started EXCEPT ![t] = TRUE]
    /\ screen' = [screen EXCEPT ![t] = "call"]

\* The success branch of moveToRoom.
Moved(t, r, parent) ==
    /\ sideParent' = [sideParent EXCEPT ![t] = parent]
    /\ room' = [room EXCEPT ![t] = r]
    /\ HandleJoin(t, r)

\* handleLeave
Left(t) ==
    /\ started' = [started EXCEPT ![t] = FALSE]
    /\ screen' = [screen EXCEPT ![t] = "postcall"]
    /\ UNCHANGED <<room, join, sideParent>>

\* goHome
WentHome(t) ==
    /\ room' = [room EXCEPT ![t] = NoRoom]
    /\ join' = [join EXCEPT ![t] = NoRoom]
    /\ sideParent' = [sideParent EXCEPT ![t] = NoRoom]
    /\ started' = [started EXCEPT ![t] = FALSE]
    /\ screen' = [screen EXCEPT ![t] = "home"]

----
(* What the user, the backend and LiveKit do to a tab.                      *)

Sent(t, kind, r, parent) ==
    \E q \in Requests :
        /\ asks[t][q] = NoAsk
        /\ asks' = [asks EXCEPT ![t][q] =
               [kind |-> kind, room |-> r, parent |-> parent, live |-> TRUE]]
        /\ UNCHANGED <<screen, room, join, sideParent, started, conn, late>>

\* A button that is disabled while its own request is under way.
Busy(t, kind) ==
    \E q \in Requests : asks[t][q].kind = kind /\ asks[t][q].live

\* createMeeting from Home; without an access code it is answered at once.
AskCreate(t, r) ==
    View(t) = "home" /\ ~Busy(t, "create") /\ Sent(t, "create", r, NoRoom)

\* "Join now" in the lobby.
AskJoin(t) ==
    View(t) = "lobby" /\ ~Busy(t, "join") /\ Sent(t, "join", room[t], NoRoom)

\* "Rejoin" on the post-call screen (handleRejoin), with the join of that time:
\* there is always one, or Ask would hold no room.
AskRejoin(t) ==
    View(t) = "postcall" /\ Sent(t, "rejoin", join[t], NoRoom)

\* moveToRoom from the call.
AskMove(t, kind, r, parent) ==
    /\ View(t) = "call"
    /\ conn[t].st = "connected"
    /\ Sent(t, kind, r, parent)

\* The continuation of request q.
Answer(t, q) ==
    LET a == asks[t][q]
    IN  /\ a # NoAsk
        /\ \/ a.kind = "create" /\ OpenRoom(t, a.room)
           \/ /\ a.kind \in {"join", "rejoin"}
              /\ HandleJoin(t, a.room)
              /\ UNCHANGED <<room, sideParent>>
           \/ a.kind \in {"move", "aside"} /\ Moved(t, a.room, a.parent)
        /\ Render(t)
        /\ asks' = [asks EXCEPT ![t] = [Aged(t) EXCEPT ![q] = NoAsk]]
        /\ late' = [late EXCEPT ![t] = @ \/ ~a.live]

\* The request fails; whatever the handler does then, it changes no screen.
Refuse(t, q) ==
    /\ asks[t][q] # NoAsk
    /\ asks' = [asks EXCEPT ![t][q] = NoAsk]
    /\ UNCHANGED <<screen, room, join, sideParent, started, conn, late>>

\* useRoomConnection: connect and publish, or the error screen.
Connect(t) ==
    /\ conn[t].st = "connecting"
    /\ \E st \in {"connected", "failed"} : conn' = [conn EXCEPT ![t].st = st]
    /\ UNCHANGED <<screen, room, join, sideParent, started, asks, late>>

\* The leave button, "Back to lobby" on the error screen, or a Disconnected
\* event: removed by the host, connection lost, room closed.
Leave(t) ==
    /\ View(t) = "call"
    /\ Left(t)
    /\ Render(t)
    /\ asks' = [asks EXCEPT ![t] = Aged(t)]
    /\ UNCHANGED late

Exit(t) ==
    /\ View(t) = "postcall"
    /\ WentHome(t)
    /\ Render(t)
    /\ asks' = [asks EXCEPT ![t] = Aged(t)]
    /\ UNCHANGED late

\* The page is reloaded: only the URL survives.
Reload(t) ==
    /\ screen' = [screen EXCEPT ![t] = IF room[t] = NoRoom THEN "home" ELSE "lobby"]
    /\ join' = [join EXCEPT ![t] = NoRoom]
    /\ sideParent' = [sideParent EXCEPT ![t] = NoRoom]
    /\ started' = [started EXCEPT ![t] = FALSE]
    /\ conn' = [conn EXCEPT ![t] = NoConn]
    /\ asks' = [asks EXCEPT ![t] = [q \in Requests |-> NoAsk]]
    /\ late' = [late EXCEPT ![t] = FALSE]
    /\ UNCHANGED room

----
(* Properties.                                                              *)

\* A tab for which no answer came late is in one place: the call it is in, the
\* room of its URL and state, and its connection agree, and the clock runs
\* exactly during the call (App.tsx: handleJoin, moveToRoom, handleLeave, and
\* CallRoom's key).
InOnePlace ==
    \A t \in Tabs : ~late[t] =>
        /\ View(t) = "call" =>
              /\ join[t] = room[t]
              /\ conn[t] # NoConn
              /\ conn[t].room = room[t]
        /\ View(t) # "call" => conn[t] = NoConn
        /\ View(t) = "postcall" => join[t] = room[t]
        /\ started[t] <=> View(t) = "call"

\* App.tsx:13, "Flow: home -> lobby -> call -> post-call": whoever has left a
\* call is taken into a call again only by its own "Rejoin".
LeftMeansLeft ==
    [][\A t \in Tabs :
          View(t) = "postcall" /\ View(t)' = "call" =>
              \E q \in Requests :
                  asks[t][q].kind = "rejoin" /\ asks'[t][q] = NoAsk]_appVars
=============================================================================
