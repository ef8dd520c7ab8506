------------------------- MODULE ControlPlane_proofs -------------------------
(***************************************************************************)
(* Theorems about ControlPlane, for any browsers, rooms, capacity and      *)
(* lifetimes.                                                              *)
(***************************************************************************)
EXTENDS ControlPlane, TLAPS

----
(* The ownership table: the insertion queue and the map stay in step       *)
(* through every operation, for any capacity and any set of rooms.         *)

\* The elements of a sequence, as QueueMatchesMap writes them.
Listed(s) == {s[i] : i \in 1..Len(s)}

\* A fresh room goes to the back of a queue that does not list it: the queue
\* lists it too, and still lists nothing twice.
LEMMA AppendFresh ==
    ASSUME NEW S, NEW s \in Seq(S), NEW x \in S,
           \A i, j \in 1..Len(s) : s[i] = s[j] => i = j,
           x \notin Listed(s)
    PROVE  /\ Append(s, x) \in Seq(S)
           /\ Len(Append(s, x)) = Len(s) + 1
           /\ Listed(Append(s, x)) = Listed(s) \cup {x}
           /\ \A i, j \in 1..Len(Append(s, x)) :
                 Append(s, x)[i] = Append(s, x)[j] => i = j
  <1> DEFINE a == Append(s, x)
  <1>1. a \in Seq(S) /\ Len(a) = Len(s) + 1 /\ Len(s) \in Nat
    OBVIOUS
  <1>2. a[Len(s) + 1] = x /\ \A i \in 1..Len(s) : a[i] = s[i]
    OBVIOUS
  <1>3. 1..Len(a) = (1..Len(s)) \cup {Len(s) + 1}
    BY <1>1
  <1> HIDE DEF a
  <1>4. Listed(a) = Listed(s) \cup {x}
    BY <1>2, <1>3 DEF Listed
  <1>5. \A i, j \in 1..Len(a) : a[i] = a[j] => i = j
    BY <1>1, <1>2, <1>3 DEF Listed
  <1> QED BY <1>1, <1>4, <1>5 DEF a

\* Taking the oldest room off the queue removes that room and no other.
LEMMA TailDropsHead ==
    ASSUME NEW S, NEW s \in Seq(S), Len(s) > 0,
           \A i, j \in 1..Len(s) : s[i] = s[j] => i = j
    PROVE  /\ Tail(s) \in Seq(S)
           /\ Len(Tail(s)) = Len(s) - 1
           /\ Head(s) = s[1]
           /\ Listed(Tail(s)) = Listed(s) \ {Head(s)}
           /\ \A i, j \in 1..Len(Tail(s)) : Tail(s)[i] = Tail(s)[j] => i = j
  <1> DEFINE t == Tail(s)
  <1>1. t \in Seq(S) /\ Len(t) = Len(s) - 1 /\ Len(s) \in Nat \ {0} /\ Head(s) = s[1]
    OBVIOUS
  <1>2. \A i \in 1..Len(t) : t[i] = s[i + 1]
    OBVIOUS
  <1> HIDE DEF t
  <1>3. Listed(t) = Listed(s) \ {s[1]}
    <2>1. ASSUME NEW y \in Listed(t) PROVE y \in Listed(s) \ {s[1]}
      <3>1. PICK i \in 1..Len(t) : y = t[i]
        BY DEF Listed
      <3>2. i + 1 \in 1..Len(s) /\ y = s[i + 1] /\ 1 \in 1..Len(s) /\ i + 1 # 1
        BY <1>1, <1>2, <3>1
      <3> QED BY <3>2 DEF Listed
    <2>2. ASSUME NEW y \in Listed(s) \ {s[1]} PROVE y \in Listed(t)
      <3>1. PICK i \in 1..Len(s) : y = s[i]
        BY DEF Listed
      <3>2. i - 1 \in 1..Len(t) /\ (i - 1) + 1 = i
        BY <1>1, <3>1
      <3>3. y = t[i - 1]
        BY <1>2, <3>1, <3>2
      <3> QED BY <3>2, <3>3 DEF Listed
    <2> QED BY <2>1, <2>2
  <1>4. ASSUME NEW i \in 1..Len(t), NEW j \in 1..Len(t), t[i] = t[j] PROVE i = j
    <2>1. i + 1 \in 1..Len(s) /\ j + 1 \in 1..Len(s) /\ s[i + 1] = s[j + 1]
      BY <1>1, <1>2, <1>4
    <2>2. i + 1 = j + 1
      BY <2>1
    <2> QED BY <2>2, <1>1
  <1> QED BY <1>1, <1>3, <1>4 DEF t

----
\* A new table is well formed.
LEMMA NewRoomOwnersOK ==
    ASSUME NewRoomOwners(m, order)
    PROVE  OwnersTypeOK /\ QueueMatchesMap
  <1>1. OwnersTypeOK /\ Len(order) = 0
    BY DEF NewRoomOwners, OwnersTypeOK
  <1>2. Owned = {} /\ 1..Len(order) = {}
    BY <1>1 DEF NewRoomOwners, Owned
  <1> QED BY <1>1, <1>2, CapacityAssumption DEF QueueMatchesMap

\* So is the table of a restarted process.
LEMMA RestartedRoomOwnersOK ==
    ASSUME NewRoomOwners(m', order')
    PROVE  OwnersTypeOK' /\ QueueMatchesMap'
  <1>1. OwnersTypeOK' /\ Len(order') = 0
    BY DEF NewRoomOwners, OwnersTypeOK
  <1>2. Owned' = {} /\ 1..Len(order') = {}
    BY <1>1 DEF NewRoomOwners, Owned
  <1> QED BY <1>1, <1>2, CapacityAssumption DEF QueueMatchesMap

\* set keeps queue and map in step, owns the room it was called for, and
\* gives no other room an owner.
LEMMA SetOK ==
    ASSUME OwnersTypeOK, QueueMatchesMap,
           NEW room \in Rooms, NEW sub \in Subs, Set(room, sub)
    PROVE  /\ OwnersTypeOK'
           /\ QueueMatchesMap'
           /\ Owned' \subseteq Owned \cup {room}
  <1> USE NoOwnerAssumption, CapacityAssumption
  <1>0. /\ m \in [Rooms -> Subs \cup {NoOwner}]
        /\ order \in Seq(Rooms)
        /\ Listed(order) = Owned
        /\ Len(order) \in Nat
        /\ Len(order) <= MaxRooms
        /\ \A i, j \in 1..Len(order) : order[i] = order[j] => i = j
    BY DEF OwnersTypeOK, QueueMatchesMap, Listed
  <1>1. CASE Update(room, sub)
    <2>1. Owned' = Owned
      BY <1>0, <1>1 DEF Update, Owned
    <2>2. OwnersTypeOK'
      BY <1>0, <1>1 DEF Update, OwnersTypeOK
    <2>3. QueueMatchesMap'
      BY <1>1, <2>1 DEF Update, QueueMatchesMap
    <2> QED BY <2>1, <2>2, <2>3
  <1>2. CASE Insert(room, sub)
    <2>1. Owned' = Owned \cup {room}
      BY <1>0, <1>2 DEF Insert, Owned
    <2>2. room \notin Listed(order) /\ order' = Append(order, room)
      BY <1>0, <1>2 DEF Insert
    <2>3. /\ order' \in Seq(Rooms)
          /\ Len(order') = Len(order) + 1
          /\ Listed(order') = Listed(order) \cup {room}
          /\ \A i, j \in 1..Len(order') : order'[i] = order'[j] => i = j
      BY <1>0, <2>2, AppendFresh
    <2>4. Len(order') <= MaxRooms
      BY <1>0, <1>2, <2>3 DEF Insert
    <2>5. OwnersTypeOK'
      BY <1>0, <1>2, <2>3 DEF Insert, OwnersTypeOK
    <2>6. QueueMatchesMap'
      BY <1>0, <2>1, <2>3, <2>4 DEF QueueMatchesMap, Listed
    <2> QED BY <2>1, <2>5, <2>6
  <1>3. CASE InsertEvicting(room, sub)
    <2>0. Len(order) > 0 /\ order' = Append(Tail(order), room) /\ room \notin Owned
      BY <1>0, <1>3 DEF InsertEvicting
    <2>1. /\ Tail(order) \in Seq(Rooms)
          /\ Len(Tail(order)) = Len(order) - 1
          /\ Listed(Tail(order)) = Owned \ {Head(order)}
          /\ Head(order) \in Rooms
          /\ \A i, j \in 1..Len(Tail(order)) :
                Tail(order)[i] = Tail(order)[j] => i = j
      <3>1. Head(order) \in Rooms
        BY <1>0, <2>0
      <3> QED BY <1>0, <2>0, <3>1, TailDropsHead
    <2>2. Owned' = (Owned \ {Head(order)}) \cup {room}
      BY <1>0, <1>3, <2>1 DEF InsertEvicting, Owned
    <2>3. /\ order' \in Seq(Rooms)
          /\ Len(order') = Len(Tail(order)) + 1
          /\ Listed(order') = Listed(Tail(order)) \cup {room}
          /\ \A i, j \in 1..Len(order') : order'[i] = order'[j] => i = j
      <3> DEFINE t == Tail(order)
      <3>1. room \notin Listed(t) /\ order' = Append(t, room)
        BY <2>0, <2>1
      <3>2. t \in Seq(Rooms) /\ \A i, j \in 1..Len(t) : t[i] = t[j] => i = j
        BY <2>1
      <3> HIDE DEF t
      <3>3. /\ order' \in Seq(Rooms)
            /\ Len(order') = Len(t) + 1
            /\ Listed(order') = Listed(t) \cup {room}
            /\ \A i, j \in 1..Len(order') : order'[i] = order'[j] => i = j
        BY <3>1, <3>2, AppendFresh
      <3> QED BY <3>3 DEF t
    <2>4. Len(order') <= MaxRooms
      BY <1>0, <2>1, <2>3
    <2>5. OwnersTypeOK'
      BY <1>0, <1>3, <2>1, <2>3 DEF InsertEvicting, OwnersTypeOK
    <2>6. QueueMatchesMap'
      BY <2>1, <2>2, <2>3, <2>4 DEF QueueMatchesMap, Listed
    <2> QED BY <2>2, <2>5, <2>6
  <1> QED BY <1>1, <1>2, <1>3 DEF Set

----
(* What every step needs.                                                  *)


\* The constants every step needs.
LEMMA Constants ==
    /\ staffSub \in Subs
    /\ CallRooms \subseteq Rooms
    /\ SessionTTL \in Nat \ {0}
    /\ GrantTTL \in Nat \ {0}
    /\ TokenTTL \in Nat \ {0}
  BY StaffAssumption, CallRoomsAssumption, TimeAssumption

----
(* Steps on the ownership table, as ControlPlane's actions take them.      *)

\* The part of the invariant the table owns.
TableOK == OwnersTypeOK /\ QueueMatchesMap

\* A step that asks isRoomHost, or leaves the table alone, keeps it well
\* formed and owns at most the room of an accepted grant.
LEMMA RepopulateOK ==
    ASSUME TableOK, NEW b \in Browsers, NEW r \in CallRooms,
           RepopulateOwners(b, r)
    PROVE  /\ TableOK'
           /\ Owned' \subseteq Owned \cup {q \in {r} : HasGrant(b, q)}
  <1>1. CASE m[r] = NoOwner /\ HasGrant(b, r)
    <2>1. Set(r, staffSub)
      BY <1>1 DEF RepopulateOwners
    <2>2. TableOK' /\ Owned' \subseteq Owned \cup {r}
      BY <2>1, SetOK, Constants DEF TableOK
    <2> QED BY <2>2, <1>1
  <1>2. CASE ~(m[r] = NoOwner /\ HasGrant(b, r))
    <2>1. m' = m /\ order' = order
      BY <1>2 DEF RepopulateOwners, ownersVars
    <2> QED BY <2>1 DEF TableOK, OwnersTypeOK, QueueMatchesMap, Owned
  <1> QED BY <1>1, <1>2

\* The table is unchanged.
LEMMA TableUnchanged ==
    ASSUME TableOK, UNCHANGED ownersVars
    PROVE  TableOK' /\ Owned' = Owned
  BY DEF TableOK, OwnersTypeOK, QueueMatchesMap, Owned, ownersVars

\* What every step does to the table.
LEMMA TableStep ==
    ASSUME TypeOK, QueueMatchesMap, Next
    PROVE  TableOK'
  <1> USE DEF cpVars, cpVarsButSeat
  <1>0. TableOK
    BY DEF TypeOK, TableOK
  <1>1. ASSUME UNCHANGED ownersVars PROVE TableOK'
    BY <1>0, <1>1, TableUnchanged
  <1>2. ASSUME NEW b \in Browsers, NEW r \in Rooms, CreateRoom(b, r) PROVE TableOK'
    <2>1. Set(r, staffSub)
      BY <1>2 DEF CreateRoom
    <2> QED BY <2>1, <1>0, SetOK, Constants DEF TableOK
  <1>3. ASSUME NEW b \in Browsers, NEW r \in CallRooms, DecideRole(b, r) PROVE TableOK'
    <2>1. UNCHANGED ownersVars \/ RepopulateOwners(b, r)
      BY <1>3 DEF DecideRole
    <2> QED BY <2>1, <1>0, <1>1, RepopulateOK
  <1>4. ASSUME NEW b \in Browsers, NEW r \in CallRooms, Authorise(b, r) PROVE TableOK'
    <2>1. UNCHANGED ownersVars \/ RepopulateOwners(b, r)
      BY <1>4 DEF Authorise
    <2> QED BY <2>1, <1>0, <1>1, RepopulateOK
  <1>5. CASE Restart
    BY <1>5, RestartedRoomOwnersOK DEF Restart, TableOK
  <1>6. ASSUME NEW b \in Browsers,
               \/ SignIn(b) \/ SignOut(b) \/ IssueIfUnlocked(b) \/ SetLocked(b)
               \/ RemoveParticipant(b) \/ AdminFails(b) \/ Connect(b) \/ Leave(b)
        PROVE  UNCHANGED ownersVars
    BY <1>6 DEF SignIn, SignOut, IssueIfUnlocked, SetLocked, RemoveParticipant,
                AdminFails, Connect, Leave
  <1>7. ASSUME NEW r \in CallRooms, CloseRoom(r) PROVE UNCHANGED ownersVars
    BY <1>7 DEF CloseRoom
  <1>8. CASE Tick
    BY <1>8, <1>1 DEF Tick
  <1> QED BY <1>1, <1>2, <1>3, <1>4, <1>5, <1>6, <1>7, <1>8 DEF Next

----
(* Types.                                                                  *)

\* What a seat's stage says about its other fields.
LEMMA SeatFields ==
    ASSUME TypeOK, NEW b \in Browsers
    PROVE  /\ seat[b].st \in {"out", "asking", "token", "in"}
           /\ seat[b].st = "out" => seat[b] = Out
           /\ seat[b].st # "out" => seat[b].room \in CallRooms /\ seat[b].role \in Role
           /\ seat[b].st = "token" =>
                 /\ seat[b].left \in 0..TokenTTL
                 /\ seat[b].failOpen \in BOOLEAN
                 /\ seat[b] \in [st : {"token"}, room : CallRooms, role : Role,
                                 left : 0..TokenTTL, failOpen : BOOLEAN]
  BY DEF TypeOK, Seat, Out

LEMMA AdmFields ==
    ASSUME TypeOK, NEW b \in Browsers
    PROVE  /\ adm[b].op \in {"none", "lock", "unlock", "remove"}
           /\ adm[b].op = "none" => adm[b] = Idle
           /\ adm[b].op # "none" => adm[b].room \in CallRooms
           /\ adm[b].op = "remove" => adm[b].target \in Browsers
  BY DEF TypeOK, Adm, Idle

LEMMA SeatsBuilt ==
    /\ Out \in Seat
    /\ \A r \in CallRooms, role \in Role :
          /\ Asking(r, role) \in Seat
          /\ \A f \in BOOLEAN : Token(r, role, f) \in Seat
          /\ Decided(r, role) \in Seat
          /\ [st |-> "in", room |-> r, role |-> role] \in Seat
  BY Constants DEF Seat, Out, Asking, Token, Decided

LEMMA LessType ==
    ASSUME NEW n \in Nat \ {0}, NEW k \in 0..n
    PROVE  Less(k) \in 0..n
  BY DEF Less

LEMMA InitType == Init => TypeOK /\ QueueMatchesMap
  <1> SUFFICES ASSUME Init PROVE TypeOK /\ QueueMatchesMap
    OBVIOUS
  <1>1. OwnersTypeOK /\ QueueMatchesMap
    BY NewRoomOwnersOK DEF Init
  <1>2. Out \in Seat /\ Idle \in Adm
    BY DEF Seat, Adm
  <1>3. codeEnabled \in BOOLEAN
    BY DEF Init
  <1>4. /\ cookie \in [Browsers -> 0..SessionTTL]
        /\ grant \in [Browsers -> [CallRooms -> 0..GrantTTL]]
        /\ lockAge \in [CallRooms -> 0..TokenTTL]
    BY Constants DEF Init
  <1>5. /\ seat \in [Browsers -> Seat]
        /\ adm \in [Browsers -> Adm]
        /\ lk \in [CallRooms -> {"absent", "open", "locked"}]
        /\ created \in SUBSET Rooms
        /\ signedIn \in SUBSET Browsers
    BY <1>2 DEF Init
  <1> QED BY <1>1, <1>3, <1>4, <1>5 DEF TypeOK

LEMMA TypeStep ==
    ASSUME TypeOK, QueueMatchesMap, Next
    PROVE  TypeOK'
  <1>0. OwnersTypeOK'
    BY TableStep DEF TableOK
  <1> USE DEF cpVars, cpVarsButSeat
  <1>1. ASSUME NEW b \in Browsers, SignIn(b) \/ SignOut(b) PROVE TypeOK'
    BY <1>0, <1>1, Constants DEF SignIn, SignOut, TypeOK
  <1>2. ASSUME NEW b \in Browsers, NEW r \in Rooms, CreateRoom(b, r) PROVE TypeOK'
    <2>1. grant' \in [Browsers -> [CallRooms -> 0..GrantTTL]]
      <3>1. CASE UNCHANGED grant
        BY <3>1 DEF TypeOK
      <3>2. CASE r \in CallRooms /\ grant' = [grant EXCEPT ![b][r] = GrantTTL]
        <4>1. grant[b] \in [CallRooms -> 0..GrantTTL] /\ GrantTTL \in 0..GrantTTL
          BY Constants DEF TypeOK
        <4>2. [grant[b] EXCEPT ![r] = GrantTTL] \in [CallRooms -> 0..GrantTTL]
          BY <4>1
        <4> QED BY <3>2, <4>2 DEF TypeOK
      <3> QED BY <1>2, <3>1, <3>2 DEF CreateRoom
    <2>2. created' \in SUBSET Rooms
      BY <1>2 DEF CreateRoom, TypeOK
    <2> QED BY <1>0, <1>2, <2>1, <2>2 DEF CreateRoom, TypeOK
  <1>3. ASSUME NEW b \in Browsers, NEW r \in CallRooms, DecideRole(b, r) PROVE TypeOK'
    <2>1. PICK role \in Role : seat' = [seat EXCEPT ![b] = Decided(r, role)]
      BY <1>3 DEF DecideRole, Role
    <2>2. seat' \in [Browsers -> Seat]
      BY <2>1, SeatsBuilt DEF TypeOK
    <2> QED BY <1>0, <1>3, <2>2 DEF DecideRole, TypeOK
  <1>4. ASSUME NEW b \in Browsers, IssueIfUnlocked(b) PROVE TypeOK'
    <2>1. seat[b].room \in CallRooms /\ seat[b].role \in Role
      BY <1>4, SeatFields DEF IssueIfUnlocked
    <2>2. \E s \in Seat : seat' = [seat EXCEPT ![b] = s]
      <3> DEFINE T(f) == Token(seat[b].room, seat[b].role, f)
      <3>1. T(TRUE) \in Seat /\ T(FALSE) \in Seat /\ Out \in Seat
        BY <2>1, SeatsBuilt
      <3>2. \/ seat' = [seat EXCEPT ![b] = T(TRUE)]
            \/ seat' = [seat EXCEPT ![b] = T(FALSE)]
            \/ seat' = [seat EXCEPT ![b] = Out]
        BY <1>4 DEF IssueIfUnlocked
      <3> HIDE DEF T
      <3> QED BY <3>1, <3>2
    <2>3. seat' \in [Browsers -> Seat]
      BY <2>2 DEF TypeOK
    <2> QED BY <1>0, <1>4, <2>3 DEF IssueIfUnlocked, TypeOK
  <1>5. ASSUME NEW b \in Browsers, NEW r \in CallRooms, Authorise(b, r) PROVE TypeOK'
    <2>1. AdmRequests(b, r) \subseteq Adm
      BY DEF AdmRequests, Adm
    <2>2. adm' \in [Browsers -> Adm]
      BY <1>5, <2>1 DEF Authorise, TypeOK
    <2> QED BY <1>0, <1>5, <2>2 DEF Authorise, TypeOK
  <1>6. ASSUME NEW b \in Browsers, SetLocked(b) PROVE TypeOK'
    <2>1. adm' \in [Browsers -> Adm]
      BY <1>6 DEF SetLocked, TypeOK, Adm
    <2>2. lk' \in [CallRooms -> {"absent", "open", "locked"}]
      BY <1>6 DEF SetLocked, TypeOK
    <2>3. lockAge' \in [CallRooms -> 0..TokenTTL]
      <3>1. 0 \in 0..TokenTTL
        BY Constants
      <3>2. \/ lockAge' = lockAge
            \/ lockAge' = [lockAge EXCEPT ![adm[b].room] = 0]
        BY <1>6, <3>1 DEF SetLocked, TypeOK
      <3> QED BY <3>1, <3>2 DEF TypeOK
    <2> QED BY <1>0, <1>6, <2>1, <2>2, <2>3 DEF SetLocked, TypeOK
  <1>7. ASSUME NEW b \in Browsers, RemoveParticipant(b) PROVE TypeOK'
    <2>1. adm' \in [Browsers -> Adm]
      BY <1>7 DEF RemoveParticipant, TypeOK, Adm
    <2>2. seat' \in [Browsers -> Seat]
      BY <1>7, SeatsBuilt DEF RemoveParticipant, TypeOK
    <2> QED BY <1>0, <1>7, <2>1, <2>2 DEF RemoveParticipant, TypeOK
  <1>8. ASSUME NEW b \in Browsers, AdminFails(b) PROVE TypeOK'
    <2>1. adm' \in [Browsers -> Adm]
      BY <1>8 DEF AdminFails, TypeOK, Adm
    <2> QED BY <1>0, <1>8, <2>1 DEF AdminFails, TypeOK
  <1>9. ASSUME NEW b \in Browsers, Connect(b) PROVE TypeOK'
    <2>1. seat[b].room \in CallRooms /\ seat[b].role \in Role
      BY <1>9, SeatFields DEF Connect
    <2>2. seat' \in [Browsers -> Seat]
      BY <1>9, <2>1, SeatsBuilt DEF Connect, TypeOK
    <2> QED BY <1>0, <1>9, <2>1, <2>2 DEF Connect, TypeOK
  <1>10. ASSUME NEW b \in Browsers, Leave(b) PROVE TypeOK'
    <2>1. seat' \in [Browsers -> Seat]
      BY <1>10, SeatsBuilt DEF Leave, TypeOK
    <2> QED BY <1>0, <1>10, <2>1 DEF Leave, TypeOK
  <1>11. ASSUME NEW r \in CallRooms, CloseRoom(r) PROVE TypeOK'
    BY <1>0, <1>11, Constants DEF CloseRoom, TypeOK
  <1>12. CASE Restart
    <2>1. adm' \in [Browsers -> Adm]
      BY <1>12 DEF Restart, Adm
    <2>2. seat' \in [Browsers -> Seat]
      BY <1>12, SeatsBuilt DEF Restart, TypeOK
    <2> QED BY <1>0, <1>12, <2>1, <2>2 DEF Restart, TypeOK
  <1>13. CASE Tick
    <2>1. ASSUME NEW b \in Browsers PROVE seat'[b] \in Seat
      <3>1. CASE seat[b].st = "token"
        <4>1. seat'[b] = [seat[b] EXCEPT !.left = Less(@)]
          BY <1>13, <3>1 DEF Tick
        <4>2. Less(seat[b].left) \in 0..TokenTTL
          BY <3>1, SeatFields, LessType, Constants
        <4>3. seat'[b] \in [st : {"token"}, room : CallRooms, role : Role,
                            left : 0..TokenTTL, failOpen : BOOLEAN]
          BY <3>1, <4>1, <4>2, SeatFields
        <4> QED BY <4>3 DEF Seat
      <3>2. CASE seat[b].st # "token"
        BY <1>13, <3>2 DEF Tick, TypeOK
      <3> QED BY <3>1, <3>2
    <2>2. seat' \in [Browsers -> Seat]
      BY <1>13, <2>1 DEF Tick
    <2>3. cookie' \in [Browsers -> 0..SessionTTL]
      BY <1>13, LessType, Constants DEF Tick, TypeOK
    <2>4. grant' \in [Browsers -> [CallRooms -> 0..GrantTTL]]
      BY <1>13, LessType, Constants DEF Tick, TypeOK
    <2>5. lockAge' \in [CallRooms -> 0..TokenTTL]
      BY <1>13, Constants DEF Tick, TypeOK
    <2> QED BY <1>0, <1>13, <2>2, <2>3, <2>4, <2>5 DEF Tick, TypeOK
  <1> QED BY <1>1, <1>2, <1>3, <1>4, <1>5, <1>6, <1>7, <1>8, <1>9, <1>10,
             <1>11, <1>12, <1>13 DEF Next

----
(* The strengthening.                                                      *)

\* Host authority rests on the table, on grants and on sessions, so each of
\* those must itself go back to the access code and to POST /api/rooms.
SourcesEarned ==
    codeEnabled =>
        /\ Owned \subseteq created
        /\ \A b \in Browsers :
              /\ cookie[b] > 0 => b \in signedIn
              /\ \A r \in CallRooms : grant[b][r] > 0 => r \in created

\* A guest's token for a locked room is at least as old as the lock.
LockOlderThanTokens ==
    \A b \in Browsers :
        LET t == seat[b]
        IN  /\ t.st = "token"
            /\ t.role # "host"
            /\ ~t.failOpen
            /\ lk[t.room] = "locked"
            => t.left + lockAge[t.room] <= TokenTTL

IInv ==
    /\ TypeOK
    /\ QueueMatchesMap
    /\ SourcesEarned
    /\ HostEarned
    /\ LockOlderThanTokens

\* isRoomHost answers yes only about a room that was registered.
LEMMA HostsOnlyCreated ==
    ASSUME TypeOK, SourcesEarned, codeEnabled,
           NEW b \in Browsers, NEW r \in CallRooms, IsRoomHost(b, r)
    PROVE  r \in created
  <1>1. CASE m[r] = staffSub
    <2>1. staffSub # NoOwner /\ r \in Rooms
      BY Constants, NoOwnerAssumption
    <2> QED BY <1>1, <2>1 DEF SourcesEarned, Owned
  <1>2. CASE HasGrant(b, r)
    BY <1>2 DEF HasGrant, SourcesEarned
  <1> QED BY <1>1, <1>2 DEF IsRoomHost

\* Every step keeps the sources of authority earned.
LEMMA SourcesStep ==
    ASSUME TypeOK, QueueMatchesMap, SourcesEarned, Next
    PROVE  SourcesEarned'
  <1> SUFFICES ASSUME codeEnabled' PROVE SourcesEarned'
    BY DEF SourcesEarned
  <1> USE DEF cpVars, cpVarsButSeat
  <1>0. codeEnabled' = codeEnabled
    BY DEF Next, SignIn, SignOut, CreateRoom, DecideRole, IssueIfUnlocked, Authorise,
           SetLocked, RemoveParticipant, AdminFails, Connect, Leave, CloseRoom,
           Restart, Tick
  <1>a. /\ codeEnabled
        /\ Owned \subseteq created
        /\ \A b \in Browsers :
              /\ cookie[b] > 0 => b \in signedIn
              /\ \A r \in CallRooms : grant[b][r] > 0 => r \in created
    BY <1>0 DEF SourcesEarned
  <1>b. TableOK
    BY DEF TypeOK, TableOK
  <1>1. ASSUME NEW b \in Browsers, SignIn(b) \/ SignOut(b) PROVE SourcesEarned'
    <2>1. Owned' = Owned
      BY <1>1, <1>b, TableUnchanged DEF SignIn, SignOut
    <2> QED BY <1>1, <1>a, <2>1 DEF SignIn, SignOut, SourcesEarned, TypeOK
  <1>2. ASSUME NEW b \in Browsers, NEW r \in Rooms, CreateRoom(b, r)
        PROVE  SourcesEarned'
    <2>1. Owned' \subseteq Owned \cup {r} /\ created' = created \cup {r}
      BY <1>2, <1>b, SetOK, Constants DEF CreateRoom, TableOK
    <2>2. ASSUME NEW c \in Browsers, NEW q \in CallRooms, grant'[c][q] > 0
          PROVE  q \in created'
      <3>1. CASE grant'[c][q] = grant[c][q]
        BY <1>a, <2>1, <2>2, <3>1
      <3>2. CASE grant'[c][q] # grant[c][q]
        <4>1. q = r
          BY <1>2, <3>2 DEF CreateRoom, TypeOK
        <4> QED BY <2>1, <4>1
      <3> QED BY <3>1, <3>2
    <2> QED BY <1>2, <1>a, <2>1, <2>2 DEF CreateRoom, SourcesEarned
  <1>3. ASSUME NEW b \in Browsers, NEW r \in CallRooms,
               RepopulateOwners(b, r) \/ UNCHANGED ownersVars,
               UNCHANGED <<cookie, grant, created, signedIn>>
        PROVE  SourcesEarned'
    <2>1. Owned' \subseteq Owned \cup {q \in {r} : HasGrant(b, q)}
      BY <1>3, <1>b, RepopulateOK, TableUnchanged
    <2>2. HasGrant(b, r) => r \in created
      BY <1>a DEF HasGrant
    <2>3. Owned' \subseteq created'
      BY <1>a, <1>3, <2>1, <2>2
    <2> QED BY <1>a, <1>3, <2>3 DEF SourcesEarned
  <1>4. ASSUME NEW b \in Browsers, NEW r \in CallRooms, DecideRole(b, r)
        PROVE  SourcesEarned'
    BY <1>3, <1>4 DEF DecideRole
  <1>5. ASSUME NEW b \in Browsers, NEW r \in CallRooms, Authorise(b, r)
        PROVE  SourcesEarned'
    BY <1>3, <1>5 DEF Authorise
  <1>6. ASSUME UNCHANGED ownersVars, UNCHANGED <<cookie, grant, created, signedIn>>
        PROVE  SourcesEarned'
    <2>1. Owned' = Owned
      BY <1>6, <1>b, TableUnchanged
    <2> QED BY <1>a, <1>6, <2>1 DEF SourcesEarned
  <1>7. ASSUME NEW b \in Browsers,
               \/ IssueIfUnlocked(b) \/ SetLocked(b) \/ RemoveParticipant(b)
               \/ AdminFails(b) \/ Connect(b) \/ Leave(b)
        PROVE  SourcesEarned'
    BY <1>6, <1>7 DEF IssueIfUnlocked, SetLocked, RemoveParticipant, AdminFails,
                      Connect, Leave
  <1>8. ASSUME NEW r \in CallRooms, CloseRoom(r) PROVE SourcesEarned'
    BY <1>6, <1>8 DEF CloseRoom
  <1>9. CASE Restart
    <2>1. Owned' = {}
      BY <1>9 DEF Restart, NewRoomOwners, Owned
    <2> QED BY <1>9, <1>a, <2>1 DEF Restart, SourcesEarned
  <1>10. CASE Tick
    <2>1. Owned' = Owned
      BY <1>10, <1>b, TableUnchanged DEF Tick
    <2>2. \A k \in Nat : Less(k) > 0 => k > 0
      BY DEF Less
    <2>3. ASSUME NEW c \in Browsers PROVE cookie'[c] > 0 => cookie[c] > 0
      BY <1>10, <2>2, Constants DEF Tick, TypeOK
    <2>4. ASSUME NEW c \in Browsers, NEW q \in CallRooms
          PROVE  grant'[c][q] > 0 => grant[c][q] > 0
      <3>1. grant[c] \in [CallRooms -> 0..GrantTTL] /\ grant[c][q] \in Nat
        BY Constants DEF TypeOK
      <3>2. grant'[c][q] = Less(grant[c][q])
        BY <1>10 DEF Tick
      <3> QED BY <3>1, <3>2, <2>2
    <2> QED BY <1>10, <1>a, <2>1, <2>3, <2>4 DEF Tick, SourcesEarned
  <1> QED BY <1>1, <1>2, <1>4, <1>5, <1>7, <1>8, <1>9, <1>10 DEF Next

\* A seat or an admin request with host authority, backed as HostEarned asks.
SeatEarned(b, who, made, seats) ==
    seats[b] # Out /\ seats[b].role = "host" => b \in who /\ seats[b].room \in made

LEMMA HostEarnedStep ==
    ASSUME TypeOK, QueueMatchesMap, SourcesEarned, HostEarned, Next
    PROVE  HostEarned'
  <1> SUFFICES ASSUME codeEnabled' PROVE HostEarned'
    BY DEF HostEarned
  <1> USE DEF cpVars, cpVarsButSeat
  <1>0. codeEnabled' = codeEnabled
    BY DEF Next, SignIn, SignOut, CreateRoom, DecideRole, IssueIfUnlocked, Authorise,
           SetLocked, RemoveParticipant, AdminFails, Connect, Leave, CloseRoom,
           Restart, Tick
  <1>a. /\ codeEnabled
        /\ \A b \in Browsers :
              /\ SeatEarned(b, signedIn, created, seat)
              /\ adm[b] # Idle => b \in signedIn /\ adm[b].room \in created
    BY <1>0 DEF HostEarned, SeatEarned
  <1>b. signedIn \subseteq signedIn' /\ created \subseteq created'
    BY DEF Next, SignIn, SignOut, CreateRoom, DecideRole, IssueIfUnlocked, Authorise,
           SetLocked, RemoveParticipant, AdminFails, Connect, Leave, CloseRoom,
           Restart, Tick
  <1>c. SUFFICES /\ \A b \in Browsers : SeatEarned(b, signedIn', created', seat')
                 /\ \A b \in Browsers : adm'[b] # Idle =>
                       b \in signedIn' /\ adm'[b].room \in created'
    BY DEF HostEarned, SeatEarned
  \* Seats.
  <1>d. ASSUME NEW c \in Browsers, seat'[c] = seat[c]
        PROVE  SeatEarned(c, signedIn', created', seat')
    BY <1>a, <1>b, <1>d DEF SeatEarned
  <1>e. ASSUME NEW c \in Browsers, seat'[c] = Out
        PROVE  SeatEarned(c, signedIn', created', seat')
    BY <1>e DEF SeatEarned
  <1>f. ASSUME NEW c \in Browsers, seat[c] # Out,
               seat'[c].role = seat[c].role, seat'[c].room = seat[c].room
        PROVE  SeatEarned(c, signedIn', created', seat')
    BY <1>a, <1>b, <1>f DEF SeatEarned
  <1>1. ASSUME NEW b \in Browsers, NEW r \in CallRooms, DecideRole(b, r),
               NEW c \in Browsers
        PROVE  SeatEarned(c, signedIn', created', seat')
    <2>1. CASE c # b
      BY <1>1, <1>d, <2>1 DEF DecideRole, TypeOK
    <2>2. CASE c = b
      <3>1. PICK role \in Role :
               /\ seat'[b] = Decided(r, role)
               /\ role = "host" => HasSession(b) /\ IsRoomHost(b, r)
        BY <1>1, <1>a DEF DecideRole, Role, TypeOK
      <3>2. Decided(r, role).role = role /\ Decided(r, role).room = r
        BY DEF Decided, Asking, Token
      <3>3. role = "host" => b \in signedIn /\ r \in created
        BY <1>a, <3>1, HostsOnlyCreated DEF HasSession, SourcesEarned
      <3> QED BY <1>b, <2>2, <3>1, <3>2, <3>3 DEF SeatEarned
    <2> QED BY <2>1, <2>2
  <1>2. ASSUME NEW b \in Browsers, IssueIfUnlocked(b) \/ Connect(b), NEW c \in Browsers
        PROVE  SeatEarned(c, signedIn', created', seat')
    <2>1. CASE c # b
      BY <1>2, <1>d, <2>1 DEF IssueIfUnlocked, Connect, TypeOK
    <2>2. CASE c = b /\ seat'[b] # Out
      <3>1. seat[b] # Out
        <4>1. seat[b].st # "out"
          BY <1>2 DEF IssueIfUnlocked, Connect
        <4>2. Out.st = "out"
          BY DEF Out
        <4> QED BY <4>1, <4>2
      <3>2. PICK f \in BOOLEAN :
               \/ seat'[b] = Token(seat[b].room, seat[b].role, f)
               \/ seat'[b] = [st |-> "in", room |-> seat[b].room, role |-> seat[b].role]
        BY <1>2, <2>2 DEF IssueIfUnlocked, Connect, TypeOK
      <3>3. seat'[b].role = seat[b].role /\ seat'[b].room = seat[b].room
        BY <3>2 DEF Token
      <3> QED BY <1>f, <2>2, <3>1, <3>3
    <2> QED BY <1>e, <2>1, <2>2
  <1>3. ASSUME NEW b \in Browsers, RemoveParticipant(b) \/ Leave(b) \/ Restart,
               NEW c \in Browsers
        PROVE  SeatEarned(c, signedIn', created', seat')
    <2>1. seat'[c] = seat[c] \/ seat'[c] = Out
      BY <1>3 DEF RemoveParticipant, Leave, Restart, TypeOK
    <2> QED BY <1>d, <1>e, <2>1
  <1>4. ASSUME Tick, NEW c \in Browsers
        PROVE  SeatEarned(c, signedIn', created', seat')
    <2>1. CASE seat[c].st = "token"
      <3>1. seat'[c] = [seat[c] EXCEPT !.left = Less(@)] /\ seat[c] # Out
        BY <1>4, <2>1 DEF Tick, Out
      <3>2. seat'[c].role = seat[c].role /\ seat'[c].room = seat[c].room
        BY <2>1, <3>1, SeatFields
      <3> QED BY <1>f, <3>1, <3>2
    <2>2. CASE seat[c].st # "token"
      BY <1>4, <1>d, <2>2 DEF Tick
    <2> QED BY <2>1, <2>2
  <1>5. ASSUME UNCHANGED seat, NEW c \in Browsers
        PROVE  SeatEarned(c, signedIn', created', seat')
    BY <1>5, <1>d
  <1>6. ASSUME NEW c \in Browsers PROVE SeatEarned(c, signedIn', created', seat')
    BY <1>1, <1>2, <1>3, <1>4, <1>5, <1>6
       DEF Next, SignIn, SignOut, CreateRoom, Authorise, SetLocked, AdminFails, CloseRoom
  \* Admin requests.
  <1>7. ASSUME NEW b \in Browsers, NEW r \in CallRooms, Authorise(b, r),
               NEW c \in Browsers, adm'[c] # Idle
        PROVE  c \in signedIn' /\ adm'[c].room \in created'
    <2>1. CASE c # b
      BY <1>7, <1>a, <1>b, <2>1 DEF Authorise, TypeOK
    <2>2. CASE c = b
      <3>1. b \in signedIn /\ r \in created
        BY <1>7, <1>a, HostsOnlyCreated
           DEF Authorise, OwnsRoom, HasSession, SourcesEarned
      <3>2. adm'[b] \in AdmRequests(b, r)
        BY <1>7 DEF Authorise, TypeOK
      <3>3. adm'[b].room = r
        BY <3>2 DEF AdmRequests
      <3> QED BY <1>b, <2>2, <3>1, <3>3
    <2> QED BY <2>1, <2>2
  <1>8. ASSUME NEW b \in Browsers,
               SetLocked(b) \/ RemoveParticipant(b) \/ AdminFails(b) \/ Restart \/ UNCHANGED adm,
               NEW c \in Browsers, adm'[c] # Idle
        PROVE  c \in signedIn' /\ adm'[c].room \in created'
    <2>1. adm'[c] = adm[c]
      BY <1>8 DEF SetLocked, RemoveParticipant, AdminFails, Restart, TypeOK
    <2> QED BY <1>8, <1>a, <1>b, <2>1
  <1>9. ASSUME NEW c \in Browsers, adm'[c] # Idle
        PROVE  c \in signedIn' /\ adm'[c].room \in created'
    BY <1>7, <1>8, <1>9
       DEF Next, SignIn, SignOut, CreateRoom, DecideRole, IssueIfUnlocked, Connect, Leave,
           CloseRoom, Tick
  <1> QED BY <1>6, <1>9

----
\* A lock is never younger than a usable guest token of its room: a token is
\* issued only while the room is not locked, and both age together.
LEMMA LockOlderStep ==
    ASSUME TypeOK, LockOlderThanTokens, Next
    PROVE  LockOlderThanTokens'
  <1> DEFINE Guest(t) == t.st = "token" /\ t.role # "host" /\ ~t.failOpen
             Bound(t, lock, age) ==
                Guest(t) /\ lock[t.room] = "locked" => t.left + age[t.room] <= TokenTTL
  <1> USE DEF cpVars, cpVarsButSeat
  <1>a. \A c \in Browsers : Bound(seat[c], lk, lockAge)
    BY DEF LockOlderThanTokens
  <1>b. SUFFICES ASSUME NEW c \in Browsers PROVE Bound(seat'[c], lk', lockAge')
    BY DEF LockOlderThanTokens
  <1>1. ASSUME seat'[c] = seat[c] \/ seat'[c].st # "token" \/ seat'[c].role = "host",
               UNCHANGED <<lk, lockAge>>
        PROVE  Bound(seat'[c], lk', lockAge')
    BY <1>a, <1>1
  <1>2. ASSUME NEW b \in Browsers, NEW r \in CallRooms, DecideRole(b, r)
        PROVE  Bound(seat'[c], lk', lockAge')
    <2>1. seat'[c] = seat[c] \/ \E role \in Role : seat'[c] = Decided(r, role)
      BY <1>2 DEF DecideRole, TypeOK, Role
    <2>2. \A role \in Role :
             Decided(r, role).st # "token" \/ Decided(r, role).role = "host"
      BY DEF Decided, Asking, Token
    <2>3. UNCHANGED <<lk, lockAge>>
      BY <1>2 DEF DecideRole
    <2> QED BY <1>1, <2>1, <2>2, <2>3
  <1>3. ASSUME NEW b \in Browsers, IssueIfUnlocked(b)
        PROVE  Bound(seat'[c], lk', lockAge')
    <2>0. UNCHANGED <<lk, lockAge>>
      BY <1>3 DEF IssueIfUnlocked
    <2>1. CASE c = b /\ lk[seat[b].room] # "locked"
               /\ seat'[b] = Token(seat[b].room, seat[b].role, FALSE)
      <3>1. seat'[c].room = seat[b].room
        BY <2>1 DEF Token
      <3> QED BY <2>0, <2>1, <3>1
    <2>2. CASE c = b /\ seat'[b] = Token(seat[b].room, seat[b].role, TRUE)
      <3>1. seat'[c].failOpen = TRUE
        BY <2>2 DEF Token
      <3> QED BY <3>1
    <2>3. CASE seat'[c] = seat[c] \/ seat'[c] = Out
      BY <1>1, <2>0, <2>3 DEF Out
    <2> QED BY <1>3, <2>1, <2>2, <2>3 DEF IssueIfUnlocked, TypeOK
  <1>4. ASSUME NEW b \in Browsers, SetLocked(b) PROVE Bound(seat'[c], lk', lockAge')
    <2> SUFFICES ASSUME Guest(seat[c]), lk'[seat[c].room] = "locked"
                 PROVE  seat[c].left + lockAge'[seat[c].room] <= TokenTTL
      BY <1>4 DEF SetLocked
    <2>1. /\ seat[c].left \in 0..TokenTTL
          /\ seat[c].room \in CallRooms
          /\ TokenTTL \in Nat
      BY SeatFields, Constants
    <2>2. \/ lockAge'[seat[c].room] = 0
          \/ /\ lockAge'[seat[c].room] = lockAge[seat[c].room]
             /\ lk[seat[c].room] = "locked"
      BY <1>4, <2>1 DEF SetLocked, TypeOK
    <2> QED BY <1>a, <2>1, <2>2
  <1>5. ASSUME NEW b \in Browsers, Connect(b) PROVE Bound(seat'[c], lk', lockAge')
    <2>1. /\ seat'[c] = seat[c] \/ seat'[c].st # "token"
          /\ UNCHANGED lockAge
          /\ \A r \in CallRooms : lk'[r] = "locked" => lk[r] = "locked"
      BY <1>5 DEF Connect, TypeOK
    <2>2. seat[c].st = "token" => seat[c].room \in CallRooms
      BY SeatFields
    <2> QED BY <1>a, <2>1, <2>2
  <1>6. ASSUME NEW r \in CallRooms, CloseRoom(r) PROVE Bound(seat'[c], lk', lockAge')
    <2>1. /\ UNCHANGED seat
          /\ \A q \in CallRooms : lk'[q] = "locked" => lk[q] = "locked" /\ lockAge'[q] = lockAge[q]
      BY <1>6 DEF CloseRoom, TypeOK
    <2>2. seat[c].st = "token" => seat[c].room \in CallRooms
      BY SeatFields
    <2> QED BY <1>a, <2>1, <2>2
  <1>7. ASSUME NEW b \in Browsers, RemoveParticipant(b) \/ Leave(b) \/ Restart
        PROVE  Bound(seat'[c], lk', lockAge')
    <2>1. seat'[c] = seat[c] \/ seat'[c] = Out
      BY <1>7 DEF RemoveParticipant, Leave, Restart, TypeOK
    <2>2. UNCHANGED <<lk, lockAge>>
      BY <1>7 DEF RemoveParticipant, Leave, Restart
    <2> QED BY <1>1, <2>1, <2>2 DEF Out
  <1>8. CASE Tick
    <2>0. CASE seat[c].st # "token"
      <3>1. seat'[c] = seat[c]
        BY <1>8, <2>0 DEF Tick
      <3> QED BY <2>0, <3>1
    <2>1. CASE seat[c].st = "token"
      <3>0. /\ seat[c].left \in 0..TokenTTL
            /\ seat[c].room \in CallRooms
            /\ TokenTTL \in Nat
            /\ lockAge[seat[c].room] \in 0..TokenTTL
        BY <2>1, SeatFields, Constants DEF TypeOK
      <3>1. /\ seat'[c].left = Less(seat[c].left)
            /\ seat'[c].room = seat[c].room
            /\ seat'[c].role = seat[c].role
            /\ seat'[c].failOpen = seat[c].failOpen
        <4>1. seat'[c] = [seat[c] EXCEPT !.left = Less(@)]
          BY <1>8, <2>1 DEF Tick
        <4> QED BY <2>1, <4>1, SeatFields
      <3>2. /\ lk' = lk
            /\ lockAge'[seat[c].room] \in
                  {lockAge[seat[c].room], lockAge[seat[c].room] + 1}
            /\ lockAge'[seat[c].room] <= TokenTTL
        BY <1>8, <3>0 DEF Tick
      <3>3. Guest(seat'[c]) /\ lk'[seat'[c].room] = "locked"
               => Guest(seat[c]) /\ lk[seat[c].room] = "locked"
        BY <2>1, <3>1, <3>2
      <3> QED BY <1>a, <3>0, <3>1, <3>2, <3>3 DEF Less
    <2> QED BY <2>0, <2>1
  <1>9. CASE UNCHANGED <<seat, lk, lockAge>>
    BY <1>1, <1>9
  <1> QED BY <1>2, <1>3, <1>4, <1>5, <1>6, <1>7, <1>8, <1>9
          DEF Next, SignIn, SignOut, CreateRoom, Authorise, AdminFails

----
(* The theorems.                                                           *)

LEMMA InitInv == Init => IInv
  <1> SUFFICES ASSUME Init PROVE IInv
    OBVIOUS
  <1>1. TypeOK /\ QueueMatchesMap
    BY InitType
  <1>2. Owned = {}
    BY DEF Init, NewRoomOwners, Owned
  <1>3. SourcesEarned
    BY <1>2 DEF Init, SourcesEarned
  <1>4. \A b \in Browsers : seat[b] = Out /\ adm[b] = Idle
    BY DEF Init
  <1>5. HostEarned
    BY <1>4 DEF HostEarned
  <1>6. LockOlderThanTokens
    BY <1>4 DEF LockOlderThanTokens, Out
  <1> QED BY <1>1, <1>3, <1>5, <1>6 DEF IInv

LEMMA StepInv == IInv /\ [Next]_vars => IInv'
  <1> SUFFICES ASSUME IInv, [Next]_vars PROVE IInv'
    OBVIOUS
  <1>1. CASE Next
    <2>1. TypeOK' /\ QueueMatchesMap'
      BY <1>1, TypeStep, TableStep DEF IInv, TableOK
    <2>2. SourcesEarned'
      BY <1>1, SourcesStep DEF IInv
    <2>3. HostEarned'
      BY <1>1, HostEarnedStep DEF IInv
    <2>4. LockOlderThanTokens'
      BY <1>1, LockOlderStep DEF IInv
    <2> QED BY <2>1, <2>2, <2>3, <2>4 DEF IInv
  <1>2. CASE UNCHANGED vars
    BY <1>2 DEF vars, ownersVars, cpVars, IInv, TypeOK, OwnersTypeOK, QueueMatchesMap,
                Owned, SourcesEarned, HostEarned, LockOlderThanTokens
  <1> QED BY <1>1, <1>2

\* The strengthened invariant holds throughout.
THEOREM Invariance == Spec => []IInv
  BY InitInv, StepInv, PTL DEF Spec

\* Every variable keeps its type.
THEOREM TypeCorrect == Spec => []TypeOK
  <1>1. IInv => TypeOK
    BY DEF IInv
  <1> QED BY <1>1, Invariance, PTL

\* The eviction queue and the owner map agree and stay within the capacity.
THEOREM QueueCorrect == Spec => []QueueMatchesMap
  <1>1. IInv => QueueMatchesMap
    BY DEF IInv
  <1> QED BY <1>1, Invariance, PTL

\* Host authority always goes back to the access code and to a registered room.
THEOREM HostAuthority == Spec => []HostEarned
  <1>1. IInv => HostEarned
    BY DEF IInv
  <1> QED BY <1>1, Invariance, PTL

\* A lock older than a token's lifetime admits no guest.
THEOREM LockSealsRoom == Spec => []LockSeals
  <1>1. IInv => LockSeals
    <2> SUFFICES ASSUME IInv, NEW b \in Browsers,
                        seat[b].st = "token", seat[b].role # "host", ~seat[b].failOpen,
                        lk[seat[b].room] = "locked", lockAge[seat[b].room] = TokenTTL
                 PROVE  seat[b].left = 0
      BY DEF LockSeals
    <2>1. seat[b].left + TokenTTL <= TokenTTL
      BY DEF IInv, LockOlderThanTokens
    <2>2. seat[b].left \in 0..TokenTTL /\ TokenTTL \in Nat
      BY SeatFields, Constants DEF IInv
    <2> QED BY <2>1, <2>2
  <1> QED BY <1>1, Invariance, PTL

----
(* Two action properties.                                                  *)

\* set forgets nobody but the oldest room of a full table.
LEMMA SetForgets ==
    ASSUME TableOK, NEW room \in Rooms, Set(room, staffSub),
           NEW r \in Rooms, m[r] # NoOwner, m'[r] = NoOwner
    PROVE  Len(order) = MaxRooms /\ r = order[1]
  <1> USE Constants, NoOwnerAssumption, CapacityAssumption
  <1>1. m \in [Rooms -> Subs \cup {NoOwner}] /\ staffSub # NoOwner
    BY DEF TableOK, OwnersTypeOK
  <1>2. InsertEvicting(room, staffSub)
    BY <1>1 DEF Set, Update, Insert
  <1>3. r = Head(order)
    BY <1>1, <1>2 DEF InsertEvicting
  <1>4. order \in Seq(Rooms) /\ Len(order) >= MaxRooms /\ Len(order) <= MaxRooms
    BY <1>2 DEF InsertEvicting, TableOK, OwnersTypeOK, QueueMatchesMap
  <1> QED BY <1>3, <1>4

LEMMA ForgetsStep ==
    ASSUME IInv, [Next]_vars, NEW r \in Rooms, m[r] # NoOwner, m'[r] = NoOwner
    PROVE  order' = <<>> \/ (Len(order) = MaxRooms /\ r = order[1])
  <1> USE DEF ownersVars
  <1>0. TableOK
    BY DEF IInv, TypeOK, TableOK
  <1>1. ASSUME NEW room \in Rooms, Set(room, staffSub)
        PROVE  Len(order) = MaxRooms /\ r = order[1]
    BY <1>0, <1>1, SetForgets
  <1>2. ASSUME NEW b \in Browsers, NEW q \in CallRooms, RepopulateOwners(b, q)
        PROVE  Len(order) = MaxRooms /\ r = order[1]
    BY <1>1, <1>2, Constants DEF RepopulateOwners
  <1>3. ~UNCHANGED ownersVars
    OBVIOUS
  <1>4. Next
    BY <1>3 DEF vars
  <1>5. ASSUME NEW b \in Browsers, NEW q \in Rooms, CreateRoom(b, q)
        PROVE  Len(order) = MaxRooms /\ r = order[1]
    BY <1>1, <1>5 DEF CreateRoom
  <1>6. ASSUME NEW b \in Browsers, NEW q \in CallRooms, DecideRole(b, q)
        PROVE  Len(order) = MaxRooms /\ r = order[1]
    BY <1>2, <1>3, <1>6 DEF DecideRole
  <1>7. ASSUME NEW b \in Browsers, NEW q \in CallRooms, Authorise(b, q)
        PROVE  Len(order) = MaxRooms /\ r = order[1]
    BY <1>2, <1>3, <1>7 DEF Authorise
  <1>8. CASE Restart
    BY <1>8 DEF Restart, NewRoomOwners
  <1>9. ASSUME NEW b \in Browsers
        PROVE  ~(\/ SignIn(b) \/ SignOut(b) \/ IssueIfUnlocked(b) \/ SetLocked(b)
                 \/ RemoveParticipant(b) \/ AdminFails(b) \/ Connect(b) \/ Leave(b))
    BY <1>3 DEF SignIn, SignOut, IssueIfUnlocked, SetLocked, RemoveParticipant,
                AdminFails, Connect, Leave
  <1>10. ~Tick /\ \A q \in CallRooms : ~CloseRoom(q)
    BY <1>3 DEF Tick, CloseRoom
  <1> QED BY <1>4, <1>5, <1>6, <1>7, <1>8, <1>9, <1>10 DEF Next

\* Owners are forgotten by a restart or by FIFO eviction, never otherwise.
THEOREM ForgetsOnlyOldestHolds == Spec => ForgetsOnlyOldest
  <1>1. IInv /\ [Next]_vars =>
           [\A r \in Rooms : m[r] # NoOwner /\ m'[r] = NoOwner =>
               \/ order' = <<>>
               \/ /\ Len(order) = MaxRooms
                  /\ r = order[1]]_ownersVars
    BY ForgetsStep
  <1> QED BY <1>1, Invariance, PTL DEF Spec, ForgetsOnlyOldest

LEMMA GrantStep ==
    ASSUME IInv, [Next]_vars, NEW b \in Browsers,
           seat[b] = Out, seat'[b] # Out, HasSession(b), HasGrant(b, seat'[b].room)
    PROVE  seat'[b].role = "host"
  <1> USE DEF cpVars, cpVarsButSeat
  <1>1. Next /\ seat \in [Browsers -> Seat]
    BY DEF vars, IInv, TypeOK
  <1>2. PICK r \in CallRooms : DecideRole(b, r)
    <2>0. seat[b].st = "out"
      BY DEF Out
    <2>1. ASSUME NEW c \in Browsers
          PROVE  ~(\/ IssueIfUnlocked(c) \/ RemoveParticipant(c) \/ Connect(c) \/ Leave(c))
      <3>1. ASSUME IssueIfUnlocked(c) \/ Connect(c) \/ Leave(c) PROVE FALSE
        <4>1. c # b
          BY <2>0, <3>1 DEF IssueIfUnlocked, Connect, Leave
        <4>2. seat'[b] = seat[b]
          BY <1>1, <3>1, <4>1 DEF IssueIfUnlocked, Connect, Leave
        <4> QED BY <4>2
      <3>2. ASSUME RemoveParticipant(c) PROVE FALSE
        <4>1. seat'[b] = seat[b] \/ seat'[b] = Out
          BY <1>1, <3>2 DEF RemoveParticipant
        <4> QED BY <4>1
      <3> QED BY <3>1, <3>2
    <2>2. ~UNCHANGED seat /\ ~Restart /\ ~Tick
      BY <1>1 DEF Restart, Tick, Out
    <2>3. PICK c \in Browsers, r \in CallRooms : DecideRole(c, r)
      BY <1>1, <2>1, <2>2
         DEF Next, SignIn, SignOut, CreateRoom, Authorise, SetLocked, AdminFails, CloseRoom
    <2>4. c = b
      BY <1>1, <2>3 DEF DecideRole
    <2> QED BY <2>3, <2>4
  <1>3. seat'[b] = Decided(r, IF IsRoomHost(b, r) THEN "host" ELSE "participant")
    BY <1>1, <1>2 DEF DecideRole, HasSession
  <1>4. \A role \in Role : Decided(r, role).room = r /\ Decided(r, role).role = role
    BY DEF Decided, Asking, Token
  <1>5. r \in Rooms /\ m[r] \in {staffSub, NoOwner}
    BY Constants, StaffAssumption DEF IInv, TypeOK, OwnersTypeOK
  <1>6. seat'[b].room = r
    BY <1>3, <1>4 DEF Role
  <1>7. IsRoomHost(b, r)
    BY <1>5, <1>6 DEF IsRoomHost
  <1> QED BY <1>3, <1>4, <1>7 DEF Role

\* A creator with its grant and a session is the host again after any restart
\* or eviction.
THEOREM GrantKeepsHostHolds == Spec => GrantKeepsHost
  <1>1. IInv /\ [Next]_vars =>
           [\A b \in Browsers :
               /\ seat[b] = Out
               /\ seat'[b] # Out
               /\ HasSession(b)
               /\ HasGrant(b, seat'[b].room)
               => seat'[b].role = "host"]_vars
    BY GrantStep
  <1> QED BY <1>1, Invariance, PTL DEF Spec, GrantKeepsHost
=============================================================================
