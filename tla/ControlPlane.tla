---------------------------- MODULE ControlPlane ----------------------------
(***************************************************************************)
(* Who may host, who may enter, and what a lock stops: the Go backend's    *)
(* sessions, room grants, ownership table, token endpoint and lock/remove  *)
(* endpoints, with the browsers that call them and the LiveKit server that *)
(* the tokens and the lock act upon.                                       *)
(*                                                                         *)
(* A browser is a cookie jar plus a localStorage plus one tab.  A remote   *)
(* call is split where another actor may interleave: the token endpoint    *)
(* first decides the role and then asks LiveKit whether the room is        *)
(* locked; an admin endpoint first authorises and then calls LiveKit.      *)
(*                                                                         *)
(* Time is kept as remaining lifetimes, which Tick shortens: a session,    *)
(* grant or token is valid while some of its lifetime is left.  A          *)
(* handler's LiveKit call is bounded by 10 s (timeoutCtx), far below a     *)
(* tick, so no tick passes a request that is still inside the backend.     *)
(***************************************************************************)
EXTENDS RoomOwners, Integers

CONSTANTS
    Browsers,
    CallRooms,   \* bound: the rooms browsers enter; others only fill the table
    staffSub,    \* the one subject sessions are ever minted for
    SessionTTL,  \* sessionTTL, in ticks
    GrantTTL,    \* roomGrantTTL
    TokenTTL     \* the Issuer's ttl

ASSUME StaffAssumption == Subs = {staffSub}
ASSUME CallRoomsAssumption == CallRooms \subseteq Rooms
ASSUME TimeAssumption ==
    /\ SessionTTL \in Nat \ {0}
    /\ GrantTTL \in Nat \ {0}
    /\ TokenTTL \in Nat \ {0}

VARIABLES
    codeEnabled, \* the backend was started with CREATE_CODE and SESSION_SECRET
    cookie,      \* cookie[b]: lifetime left of browser b's session, 0 = none
    grant,       \* grant[b][r]: lifetime left of the grant b keeps, 0 = none
    seat,        \* seat[b]: how far b has come in entering a room
    adm,         \* adm[b]: an authorised admin request of b, not yet executed
    lk,          \* lk[r]: the room on the LiveKit server
    created,     \* history: rooms POST /api/rooms has registered
    signedIn,    \* history: browsers that ever passed the access code
    lockAge      \* history: ticks the lock of r is in force, up to TokenTTL

cpVars == <<codeEnabled, cookie, grant, seat, adm, lk,
            created, signedIn, lockAge>>
vars == <<ownersVars, cpVars>>
cpVarsButSeat == <<codeEnabled, cookie, grant, adm, lk,
                   created, signedIn, lockAge>>

Role == {"host", "participant", "viewer"}

\* The steps of entering: asking (role decided, lock not yet read), token
\* (response received), in (connected to LiveKit).
Out == [st |-> "out"]
Seat ==
    {Out}
    \cup [st : {"asking"}, room : CallRooms, role : Role]
    \cup [st : {"token"}, room : CallRooms, role : Role, left : 0..TokenTTL, failOpen : BOOLEAN]
    \cup [st : {"in"}, room : CallRooms, role : Role]

Idle == [op |-> "none"]
Adm ==
    {Idle}
    \cup [op : {"lock", "unlock"}, room : CallRooms]
    \cup [op : {"remove"}, room : CallRooms, target : Browsers]

TypeOK ==
    /\ OwnersTypeOK
    /\ codeEnabled \in BOOLEAN
    /\ cookie \in [Browsers -> 0..SessionTTL]
    /\ grant \in [Browsers -> [CallRooms -> 0..GrantTTL]]
    /\ seat \in [Browsers -> Seat]
    /\ adm \in [Browsers -> Adm]
    /\ lk \in [CallRooms -> {"absent", "open", "locked"}]
    /\ created \in SUBSET Rooms
    /\ signedIn \in SUBSET Browsers
    /\ lockAge \in [CallRooms -> 0..TokenTTL]

Init ==
    /\ NewRoomOwners(m, order)
    /\ codeEnabled \in BOOLEAN
    /\ cookie = [b \in Browsers |-> 0]
    /\ grant = [b \in Browsers |-> [r \in CallRooms |-> 0]]
    /\ seat = [b \in Browsers |-> Out]
    /\ adm = [b \in Browsers |-> Idle]
    /\ lk = [r \in CallRooms |-> "absent"]
    /\ created = {}
    /\ signedIn = {}
    /\ lockAge = [r \in CallRooms |-> 0]

----
(* Sessions.                                                               *)

\* POST /api/auth/code with the right code.
SignIn(b) ==
    /\ codeEnabled
    /\ cookie' = [cookie EXCEPT ![b] = SessionTTL]
    /\ signedIn' = signedIn \cup {b}
    /\ UNCHANGED <<ownersVars, codeEnabled, grant, seat, adm, lk,
                   created, lockAge>>

\* POST /api/auth/logout; the grants stay in localStorage.
SignOut(b) ==
    /\ cookie[b] # 0
    /\ cookie' = [cookie EXCEPT ![b] = 0]
    /\ UNCHANGED <<ownersVars, codeEnabled, grant, seat, adm, lk,
                   created, signedIn, lockAge>>

\* sessionFromRequest, with VerifySession.
HasSession(b) == codeEnabled /\ cookie[b] > 0

----
(* Host authority.                                                         *)

\* VerifyRoomGrant of the X-Room-Grant header the browser sends for room r.
HasGrant(b, r) == grant[b][r] > 0

\* A bug for comparison: ownership is looked up in memory only.
IsRoomHostMapOnly(b, r) == m[r] = staffSub

\* isRoomHost, for a browser with a session: the table if it knows the room,
\* otherwise the durable grant.
IsRoomHost(b, r) ==
    \/ m[r] = staffSub
    \/ m[r] = NoOwner /\ HasGrant(b, r)

\* What asking isRoomHost does to the table: an accepted grant re-populates it.
RepopulateOwners(b, r) ==
    IF m[r] = NoOwner /\ HasGrant(b, r)
    THEN Set(r, staffSub)
    ELSE UNCHANGED ownersVars

\* POST /api/rooms for a fresh or a chosen id.  The grant in the response
\* reaches localStorage, or is lost with the response or a full storage; the
\* grant of a room no browser enters is never presented, and is not kept here.
CreateRoom(b, r) ==
    /\ HasSession(b)
    /\ m[r] \in {NoOwner, staffSub}
    /\ Set(r, staffSub)
    /\ created' = created \cup {r}
    /\ \/ r \in CallRooms /\ grant' = [grant EXCEPT ![b][r] = GrantTTL]
       \/ UNCHANGED grant
    /\ UNCHANGED <<codeEnabled, cookie, seat, adm, lk, signedIn, lockAge>>

----
(* The token endpoint (handleToken).                                       *)

Asking(r, role) == [st |-> "asking", room |-> r, role |-> role]

Token(r, role, failOpen) ==
    [st |-> "token", room |-> r, role |-> role, left |-> TokenTTL,
     failOpen |-> failOpen]

\* A host skips the lock check and has its token at once.
Decided(r, role) ==
    IF role = "host" THEN Token(r, role, FALSE) ELSE Asking(r, role)

\* The role: the server's decision when the code gate is on, the request's
\* own claim otherwise.
DecideRole(b, r) ==
    /\ seat[b] = Out
    /\ \/ /\ ~codeEnabled
          /\ \E role \in Role : seat' = [seat EXCEPT ![b] = Decided(r, role)]
          /\ UNCHANGED ownersVars
       \/ /\ codeEnabled
          /\ ~HasSession(b)
          /\ seat' = [seat EXCEPT ![b] = Decided(r, "participant")]
          /\ UNCHANGED ownersVars
       \/ /\ HasSession(b)
          /\ seat' = [seat EXCEPT ![b] =
                Decided(r, IF IsRoomHost(b, r) THEN "host" ELSE "participant")]
          /\ RepopulateOwners(b, r)
    /\ UNCHANGED cpVarsButSeat

\* A bug for comparison: the lock is not consulted.
IssueUnchecked(b) ==
    /\ seat[b].st = "asking"
    /\ seat' = [seat EXCEPT ![b] = Token(@.room, @.role, FALSE)]
    /\ UNCHANGED <<ownersVars, cpVarsButSeat>>

\* IsLocked answers, and a token is issued or "room is locked" returned.  An
\* error of the call (failOpen) admits: "never block joins on a transient
\* error".
IssueIfUnlocked(b) ==
    /\ seat[b].st = "asking"
    /\ \/ /\ lk[seat[b].room] = "locked"
          /\ seat' = [seat EXCEPT ![b] = Out]
       \/ /\ lk[seat[b].room] # "locked"
          /\ seat' = [seat EXCEPT ![b] = Token(@.room, @.role, FALSE)]
       \/ seat' = [seat EXCEPT ![b] = Token(@.room, @.role, TRUE)]
    /\ UNCHANGED <<ownersVars, cpVarsButSeat>>

----
(* Moderation of a room by its host: the lock and remove endpoints.        *)

\* A bug for comparison: any session may moderate any room.
OwnsRoomSignedIn(b, r) == codeEnabled => HasSession(b)

\* ownsRoom: open to everyone when no access code is configured.
OwnsRoom(b, r) == codeEnabled => HasSession(b) /\ IsRoomHost(b, r)

\* The admin requests about room r.
AdmRequests(b, r) ==
    [op : {"lock", "unlock"}, room : {r}]
    \cup [op : {"remove"}, room : {r}, target : Browsers \ {b}]

\* The endpoint authorises (a refused request changes nothing).  A request may
\* come from any browser and about any room, in the call or not.
Authorise(b, r) ==
    /\ adm[b] = Idle
    /\ OwnsRoom(b, r)
    /\ \E req \in AdmRequests(b, r) : adm' = [adm EXCEPT ![b] = req]
    /\ IF codeEnabled THEN RepopulateOwners(b, r) ELSE UNCHANGED ownersVars
    /\ UNCHANGED <<codeEnabled, cookie, grant, seat, lk,
                   created, signedIn, lockAge>>

\* SetLocked: UpdateRoomMetadata, which fails on a room that does not exist.
SetLocked(b) ==
    /\ adm[b].op \in {"lock", "unlock"}
    /\ lk[adm[b].room] # "absent"
    /\ lk' = [lk EXCEPT ![adm[b].room] =
                 IF adm[b].op = "lock" THEN "locked" ELSE "open"]
    /\ lockAge' = [lockAge EXCEPT ![adm[b].room] =
                 IF lk'[adm[b].room] = lk[adm[b].room] THEN @ ELSE 0]
    /\ adm' = [adm EXCEPT ![b] = Idle]
    /\ UNCHANGED <<ownersVars, codeEnabled, cookie, grant, seat,
                   created, signedIn>>

\* RemoveParticipant: the target is disconnected, and its seat is free again.
RemoveParticipant(b) ==
    /\ adm[b].op = "remove"
    /\ LET t == adm[b].target
       IN  /\ seat[t].st = "in"
           /\ seat[t].room = adm[b].room
           /\ seat' = [seat EXCEPT ![t] = Out]
    /\ adm' = [adm EXCEPT ![b] = Idle]
    /\ UNCHANGED <<ownersVars, codeEnabled, cookie, grant, lk,
                   created, signedIn, lockAge>>

\* The LiveKit call fails or times out (502): nothing was done.
AdminFails(b) ==
    /\ adm[b] # Idle
    /\ adm' = [adm EXCEPT ![b] = Idle]
    /\ UNCHANGED <<ownersVars, codeEnabled, cookie, grant, seat, lk,
                   created, signedIn, lockAge>>

----
(* LiveKit, as the tokens use it, the backend's restarts, and time.        *)

\* The browser connects with its token; the room is created on first use.
Connect(b) ==
    /\ seat[b].st = "token"
    /\ seat[b].left > 0
    /\ seat' = [seat EXCEPT ![b] = [st |-> "in", room |-> @.room, role |-> @.role]]
    /\ lk' = [lk EXCEPT ![seat[b].room] = IF @ = "absent" THEN "open" ELSE @]
    /\ UNCHANGED <<ownersVars, codeEnabled, cookie, grant, adm,
                   created, signedIn, lockAge>>

\* The browser leaves the call, or gives up a token (or finds it expired).
Leave(b) ==
    /\ seat[b].st \in {"token", "in"}
    /\ seat' = [seat EXCEPT ![b] = Out]
    /\ UNCHANGED <<ownersVars, cpVarsButSeat>>

\* LiveKit deletes a room everybody has left, and its metadata with it.
CloseRoom(r) ==
    /\ lk[r] # "absent"
    /\ \A b \in Browsers : seat[b].st = "in" => seat[b].room # r
    /\ lk' = [lk EXCEPT ![r] = "absent"]
    /\ lockAge' = [lockAge EXCEPT ![r] = 0]
    /\ UNCHANGED <<ownersVars, codeEnabled, cookie, grant, seat, adm,
                   created, signedIn>>

\* The backend process restarts: the table is empty, requests in it are lost.
Restart ==
    /\ NewRoomOwners(m', order')
    /\ seat' = [b \in Browsers |-> IF seat[b].st = "asking" THEN Out ELSE seat[b]]
    /\ adm' = [b \in Browsers |-> Idle]
    /\ UNCHANGED <<codeEnabled, cookie, grant, lk,
                   created, signedIn, lockAge>>

\* A bug for comparison: the lifetime of what has expired keeps falling.
LessUnchecked(n) == n - 1

\* One tick off a remaining lifetime; 0 is expired.
Less(n) == IF n > 0 THEN n - 1 ELSE 0

Tick ==
    /\ \A b \in Browsers : seat[b].st # "asking" /\ adm[b] = Idle
    /\ cookie' = [b \in Browsers |-> Less(cookie[b])]
    /\ grant' = [b \in Browsers |-> [r \in CallRooms |-> Less(grant[b][r])]]
    /\ seat' = [b \in Browsers |->
                   IF seat[b].st = "token"
                   THEN [seat[b] EXCEPT !.left = Less(@)] ELSE seat[b]]
    /\ lockAge' = [r \in CallRooms |->
                     IF lk[r] = "locked" /\ lockAge[r] < TokenTTL
                     THEN lockAge[r] + 1 ELSE lockAge[r]]
    /\ UNCHANGED <<ownersVars, codeEnabled, adm, lk, created, signedIn>>

Next ==
    \/ \E b \in Browsers :
          \/ SignIn(b)
          \/ SignOut(b)
          \/ IssueIfUnlocked(b)
          \/ SetLocked(b)
          \/ RemoveParticipant(b)
          \/ AdminFails(b)
          \/ Connect(b)
          \/ Leave(b)
    \/ \E b \in Browsers, r \in Rooms : CreateRoom(b, r)
    \/ \E b \in Browsers, r \in CallRooms : DecideRole(b, r) \/ Authorise(b, r)
    \/ \E r \in CallRooms : CloseRoom(r)
    \/ Restart
    \/ Tick

Spec == Init /\ [][Next]_vars

----
(* Properties.                                                             *)

\* With the code gate on, whoever holds or uses host authority over a room (a
\* host token, a host's seat in the call, an authorised admin request) has
\* passed the access code, and the room was registered by POST /api/rooms.
\* Admin requests come from any browser about any room, so that this half rests
\* on ownsRoom alone.  It survives restarts, evictions, sign-outs and grants
\* outliving sessions (handleToken, isRoomHost, ownsRoom).
HostEarned ==
    codeEnabled =>
        \A b \in Browsers :
           /\ seat[b] # Out /\ seat[b].role = "host"
                 => b \in signedIn /\ seat[b].room \in created
           /\ adm[b] # Idle
                 => b \in signedIn /\ adm[b].room \in created

\* Once a lock has been in force for longer than a token lives, no guest can
\* enter any more: a usable non-host token for the room exists only if it was
\* issued while the lock could not be read (handleToken, IsLocked).
LockSeals ==
    \A b \in Browsers :
        LET t == seat[b]
        IN  /\ t.st = "token"
            /\ t.role # "host"
            /\ ~t.failOpen
            /\ lk[t.room] = "locked"
            /\ lockAge[t.room] = TokenTTL
            => t.left = 0

\* A creator who still has a session and the grant of the room is made host
\* whenever it asks for a token, whatever restarts and evictions did to the
\* table meanwhile (session.go: RoomGrant, auth_handlers.go: isRoomHost).
GrantKeepsHost ==
    [][\A b \in Browsers :
          /\ seat[b] = Out
          /\ seat'[b] # Out
          /\ HasSession(b)
          /\ HasGrant(b, seat'[b].room)
          => seat'[b].role = "host"]_vars

\* handlers.go:74, "A locked room admits only its host; everyone else is
\* turned away", with the exception that text makes ("Fail open: an IsLocked
\* error just admits"): nobody but a host enters a room while it is locked, on a
\* token for which the lock could be read.
LockedAdmitsOnlyHost ==
    [][\A b \in Browsers :
          /\ seat[b].st = "token"
          /\ ~seat[b].failOpen
          /\ seat'[b].st = "in"
          /\ lk[seat'[b].room] = "locked"
          => seat'[b].role = "host"]_vars
=============================================================================
