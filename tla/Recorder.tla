------------------------------ MODULE Recorder ------------------------------
(***************************************************************************)
(* Starting and stopping the recording of a room: the backend's table of   *)
(* active recordings (livekit/recorder.go), the two endpoints that use it  *)
(* (httpapi/admin.go) and the LiveKit Egress service that records.         *)
(*                                                                         *)
(* Every request is a goroutine.  The table's mutex covers a look-up or an *)
(* update only, never the call to the Egress service between them, so Start *)
(* and Stop of one room interleave at those calls.  A request its caller   *)
(* may not make (ownsRoom) changes nothing and is left out.                *)
(***************************************************************************)
CONSTANTS
    Rooms,
    Requests,  \* goroutines that may be in flight at once
    Egresses,  \* bound: the egress ids the service can ever hand out
    NoEgress   \* the "" a look-up of an absent room answers

ASSUME NoEgressAssumption == NoEgress \notin Egresses

VARIABLES
    active,  \* active[r]: the egress the backend believes records r
    req,     \* req[q]: how far request q has come
    egress,  \* egress[e]: the service's own state
    lost,    \* history: egresses whose id was lost to a failed call or a restart
    raced    \* history: rooms for which two Starts were in flight at once

vars == <<active, req, egress, lost, raced>>

None == [st |-> "none"]

\* starting: checked, Egress is being called; started: Egress has answered, the
\* id is not stored yet; stopping: the id is out of the table, Egress is being
\* called; alreadyRecording, notRecording: the refusals, on their way back.
Request ==
    {None}
    \cup [st : {"starting", "alreadyRecording", "notRecording"}, room : Rooms]
    \cup [st : {"started", "stopping"}, room : Rooms, id : Egresses]

Unused == [st |-> "unused"]
Egress == {Unused} \cup [st : {"running", "ended"}, room : Rooms]

TypeOK ==
    /\ active \in [Rooms -> Egresses \cup {NoEgress}]
    /\ req \in [Requests -> Request]
    /\ egress \in [Egresses -> Egress]
    /\ lost \in SUBSET Egresses
    /\ raced \in SUBSET Rooms

\* NewRecorder
Init ==
    /\ active = [r \in Rooms |-> NoEgress]
    /\ req = [q \in Requests |-> None]
    /\ egress = [e \in Egresses |-> Unused]
    /\ lost = {}
    /\ raced = {}

Running(e) == egress[e].st = "running"

\* Requests that have passed Start's check for r and not stored their id.
Starts(r) ==
    {q \in Requests : req[q].st \in {"starting", "started"} /\ req[q].room = r}

----
(* Start(room)                                                             *)

Pass(q, r) ==
    /\ req' = [req EXCEPT ![q] = [st |-> "starting", room |-> r]]
    /\ raced' = IF Starts(r) = {} THEN raced ELSE raced \cup {r}

\* A bug for comparison: the table is not consulted.
StartUnchecked(q, r) ==
    /\ req[q] = None
    /\ Pass(q, r)
    /\ UNCHANGED <<active, egress, lost>>

StartCheck(q, r) ==
    /\ req[q] = None
    /\ \/ active[r] = NoEgress /\ Pass(q, r)
       \/ /\ active[r] # NoEgress
          /\ req' = [req EXCEPT ![q] = [st |-> "alreadyRecording", room |-> r]]
          /\ UNCHANGED raced
    /\ UNCHANGED <<active, egress, lost>>

\* StartRoomCompositeEgress takes effect.
EgressStarts(q, e) ==
    /\ req[q].st = "starting"
    /\ egress[e] = Unused
    /\ egress' = [egress EXCEPT ![e] = [st |-> "running", room |-> req[q].room]]
    /\ req' = [req EXCEPT ![q] = [st |-> "started", room |-> @.room, id |-> e]]
    /\ UNCHANGED <<active, lost, raced>>

StartStore(q) ==
    /\ req[q].st = "started"
    /\ active' = [active EXCEPT ![req[q].room] = req[q].id]
    /\ req' = [req EXCEPT ![q] = None]
    /\ UNCHANGED <<egress, lost, raced>>

\* The call errs or runs into its 10 s timeout, before it took effect or after.
StartFails(q) ==
    /\ \/ req[q].st = "starting" /\ UNCHANGED lost
       \/ req[q].st = "started" /\ lost' = lost \cup {req[q].id}
    /\ req' = [req EXCEPT ![q] = None]
    /\ UNCHANGED <<active, egress, raced>>

----
(* Stop(room)                                                              *)

\* A bug for comparison: the id is read, and stays in the table.
StopKeeps(q, r) ==
    /\ req[q] = None
    /\ active[r] # NoEgress
    /\ req' = [req EXCEPT ![q] = [st |-> "stopping", room |-> r, id |-> active[r]]]
    /\ UNCHANGED <<active, egress, lost, raced>>

\* A bug for comparison: an absent id is not noticed.
StopBlindly(q, r) ==
    /\ req[q] = None
    /\ req' = [req EXCEPT ![q] = [st |-> "stopping", room |-> r, id |-> active[r]]]
    /\ active' = [active EXCEPT ![r] = NoEgress]
    /\ UNCHANGED <<egress, lost, raced>>

StopTake(q, r) ==
    /\ req[q] = None
    /\ req' = [req EXCEPT ![q] =
                 IF active[r] = NoEgress
                 THEN [st |-> "notRecording", room |-> r]
                 ELSE [st |-> "stopping", room |-> r, id |-> active[r]]]
    /\ active' = [active EXCEPT ![r] = NoEgress]
    /\ UNCHANGED <<egress, lost, raced>>

\* StopEgress takes effect (whether or not its answer then comes back).
EgressStops(q) ==
    /\ req[q].st = "stopping"
    /\ Running(req[q].id)
    /\ egress' = [egress EXCEPT ![req[q].id].st = "ended"]
    /\ req' = [req EXCEPT ![q] = None]
    /\ UNCHANGED <<active, lost, raced>>

\* It errs or times out without effect.
StopFails(q) ==
    /\ req[q].st = "stopping"
    /\ req' = [req EXCEPT ![q] = None]
    /\ lost' = lost \cup {req[q].id}
    /\ UNCHANGED <<active, egress, raced>>

----

\* A refusal reaches the caller.
Refused(q) ==
    /\ req[q].st \in {"alreadyRecording", "notRecording"}
    /\ req' = [req EXCEPT ![q] = None]
    /\ UNCHANGED <<active, egress, lost, raced>>

\* An egress ends by itself, as when its room closes; nobody tells the backend.
EgressEnds(e) ==
    /\ Running(e)
    /\ egress' = [egress EXCEPT ![e].st = "ended"]
    /\ UNCHANGED <<active, req, lost, raced>>

\* The backend process restarts; recordings go on without it.
Restart ==
    /\ active' = [r \in Rooms |-> NoEgress]
    /\ req' = [q \in Requests |-> None]
    /\ lost' = lost \cup {e \in Egresses : Running(e)}
    /\ UNCHANGED <<egress, raced>>

Next ==
    \/ \E q \in Requests, r \in Rooms : StartCheck(q, r) \/ StopTake(q, r)
    \/ \E q \in Requests, e \in Egresses : EgressStarts(q, e)
    \/ \E q \in Requests :
          \/ StartStore(q)
          \/ StartFails(q)
          \/ EgressStops(q)
          \/ StopFails(q)
          \/ Refused(q)
    \/ \E e \in Egresses : EgressEnds(e)
    \/ Restart

Spec == Init /\ [][Next]_vars

----
(* Properties.                                                             *)

Holders(e) ==
    {q \in Requests : req[q].st \in {"started", "stopping"} /\ req[q].id = e}

\* One hand at a time on a recording: its id is in the table under its own room
\* or with one request that works on that room, never both, and never with two
\* Stops that would stop it twice (Start, Stop).
HeldOnce ==
    /\ \A r \in Rooms, e \in Egresses :
          active[r] = e => /\ egress[e] # Unused
                           /\ egress[e].room = r
                           /\ Holders(e) = {}
    /\ \A e \in Egresses : \A q1, q2 \in Holders(e) :
          /\ q1 = q2
          /\ egress[e] # Unused
          /\ egress[e].room = req[q1].room

\* As long as nobody starts a room twice at once, a recording the backend did
\* not lose to a failed call or a restart can be stopped: its id is in the table
\* or in a request's hands.  No room has two of them that are not being stopped.
Stoppable ==
    LET Known == {e \in Egresses : Running(e) /\ e \notin lost
                                   /\ egress[e].room \notin raced}
        Stopping(e) == \E q \in Holders(e) : req[q].st = "stopping"
    IN  /\ \A e \in Known : active[egress[e].room] = e \/ Holders(e) # {}
        /\ \A e1, e2 \in Known :
              /\ egress[e1].room = egress[e2].room
              /\ ~Stopping(e1)
              /\ ~Stopping(e2)
              => e1 = e2

\* recorder.go:11, "ErrNoActiveRecording is returned when stopping a room that
\* isn't recording": while a recording of the room runs and no other request is
\* under way, Stop does not answer that there is none.
RefusesOnlyIdleRooms ==
    [][\A q \in Requests, e \in Egresses :
          /\ \A p \in Requests : req[p] = None
          /\ req'[q] # None
          /\ req'[q].st = "notRecording"
          => ~(Running(e) /\ egress[e].room = req'[q].room)]_vars

\* recorder.go:43, "already recording": a room that is being recorded is not
\* started a second time while no call failed and the backend kept running.
OneRecordingPerRoom ==
    \A e1, e2 \in Egresses \ lost :
        /\ Running(e1)
        /\ Running(e2)
        /\ egress[e1].room = egress[e2].room
        /\ \A q \in Requests : req[q].st # "stopping"
        => e1 = e2
=============================================================================
