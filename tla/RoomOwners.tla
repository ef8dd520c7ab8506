----------------------------- MODULE RoomOwners -----------------------------
(***************************************************************************)
(* The backend's in-memory table of room owners (httpapi/rooms.go): a map  *)
(* m from room ids to the subject that owns the room, and order, the rooms *)
(* in the order they were first inserted.  Once order holds MaxRooms rooms *)
(* the oldest is evicted to make place for a new one.  Both fields are     *)
(* guarded by one RWMutex, so set and owner are single steps.              *)
(***************************************************************************)
EXTENDS Naturals, Sequences

CONSTANTS
    Rooms,     \* room ids
    Subs,      \* subjects that may own a room
    NoOwner,   \* what a lookup of an absent room answers
    MaxRooms   \* the capacity of the table

ASSUME CapacityAssumption == MaxRooms \in Nat \ {0}
ASSUME NoOwnerAssumption == NoOwner \notin Subs

VARIABLES
    m,      \* m[r]: the owner of room r, or NoOwner
    order   \* insertion order, for FIFO eviction

ownersVars == <<m, order>>

----
(* The operations of roomOwners.                                           *)

\* newRoomOwners(): also what a restarted process begins with.
NewRoomOwners(tbl, queue) ==
    /\ tbl = [r \in Rooms |-> NoOwner]
    /\ queue = <<>>

Owned == {r \in Rooms : m[r] # NoOwner}

Update(room, sub) ==
    /\ room \in Owned
    /\ m' = [m EXCEPT ![room] = sub]
    /\ UNCHANGED order

Insert(room, sub) ==
    /\ room \notin Owned
    /\ Len(order) < MaxRooms
    /\ m' = [m EXCEPT ![room] = sub]
    /\ order' = Append(order, room)

InsertEvicting(room, sub) ==
    /\ room \notin Owned
    /\ Len(order) >= MaxRooms
    /\ m' = [m EXCEPT ![Head(order)] = NoOwner, ![room] = sub]
    /\ order' = Append(Tail(order), room)

\* A bug for comparison: the newest room is evicted instead of the oldest.
SetEvictingNewest(room, sub) ==
    \/ Update(room, sub)
    \/ Insert(room, sub)
    \/ /\ room \notin Owned
       /\ Len(order) >= MaxRooms
       /\ m' = [m EXCEPT ![order[Len(order)]] = NoOwner, ![room] = sub]
       /\ order' = Append(SubSeq(order, 1, Len(order) - 1), room)

\* A bug for comparison: a map hit is queued a second time.
SetWithoutExists(room, sub) ==
    \/ /\ Len(order) < MaxRooms
       /\ m' = [m EXCEPT ![room] = sub]
       /\ order' = Append(order, room)
    \/ InsertEvicting(room, sub)

\* set(room, sub)
Set(room, sub) ==
    \/ Update(room, sub)
    \/ Insert(room, sub)
    \/ InsertEvicting(room, sub)

----
(* What the table promises to whoever uses it.                             *)

OwnersTypeOK ==
    /\ m \in [Rooms -> Subs \cup {NoOwner}]
    /\ order \in Seq(Rooms)

\* The queue lists exactly the owned rooms, each once, and never more than
\* MaxRooms of them: eviction frees the memory it means to free, and no room
\* is in the map that eviction could not reach (rooms.go: set).
QueueMatchesMap ==
    /\ \A i, j \in 1..Len(order) : order[i] = order[j] => i = j
    /\ {order[i] : i \in 1..Len(order)} = Owned
    /\ Len(order) <= MaxRooms

\* An owner is forgotten only with the whole table (a restart), or as the
\* oldest room of a full table (rooms.go: set, the eviction branch).
ForgetsOnlyOldest ==
    [][\A r \in Rooms : m[r] # NoOwner /\ m'[r] = NoOwner =>
          \/ order' = <<>>
          \/ /\ Len(order) = MaxRooms
             /\ r = order[1]]_ownersVars
=============================================================================
