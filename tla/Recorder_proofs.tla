--------------------------- MODULE Recorder_proofs ---------------------------
(* Proofs about the recorder: type correctness, HeldOnce and Stoppable, for  *)
(* any number of rooms, requests and egresses.                               *)
EXTENDS Recorder, TLAPS

\* What makes Stoppable inductive: in a room that was never raced at most one
\* Start is past its check, and then the table has no entry for the room ...
OneStart ==
    \A r \in Rooms \ raced :
        /\ \A q1, q2 \in Starts(r) : q1 = q2
        /\ Starts(r) # {} => active[r] = NoEgress

\* ... and a running egress that was not lost is in the table or in a request's
\* hands.
NoneAdrift ==
    \A e \in Egresses :
        /\ Running(e)
        /\ e \notin lost
        /\ egress[e].room \notin raced
        => active[egress[e].room] = e \/ Holders(e) # {}

\* The inductive invariant.
IInv == TypeOK /\ HeldOnce /\ OneStart /\ NoneAdrift

USE NoEgressAssumption

LEMMA InitIInv == Init => IInv
  BY DEF Init, IInv, TypeOK, HeldOnce, OneStart, NoneAdrift, Running, Holders,
         Starts, None, Unused, Request, Egress

\* What a type-correct request's fields are, one status at a time.
LEMMA RequestFields ==
    ASSUME TypeOK, NEW q \in Requests
    PROVE  /\ req[q].st \in {"starting", "started", "stopping", "none",
                             "alreadyRecording", "notRecording"}
           /\ req[q].st = "none" <=> req[q] = None
           /\ req[q] # None => req[q].room \in Rooms
           /\ req[q].st \in {"started", "stopping"} => req[q].id \in Egresses
  BY DEF TypeOK, Request, None

LEMMA EgressFields ==
    ASSUME TypeOK, NEW e \in Egresses
    PROVE  /\ egress[e].st \in {"unused", "running", "ended"}
           /\ egress[e].st = "unused" <=> egress[e] = Unused
           /\ egress[e] # Unused => egress[e].room \in Rooms
  BY DEF TypeOK, Egress, Unused

LEMMA TypeStep == TypeOK /\ [Next]_vars => TypeOK'
<1> SUFFICES ASSUME TypeOK, [Next]_vars PROVE TypeOK'
  OBVIOUS
<1>1. CASE UNCHANGED vars
  BY <1>1 DEF vars, TypeOK
<1>2. ASSUME NEW q \in Requests, NEW r \in Rooms, StartCheck(q, r) PROVE TypeOK'
  BY <1>2 DEF StartCheck, Pass, TypeOK, Request
<1>3. ASSUME NEW q \in Requests, NEW r \in Rooms, StopTake(q, r) PROVE TypeOK'
  BY <1>3 DEF StopTake, TypeOK, Request
<1>4. ASSUME NEW q \in Requests, NEW e \in Egresses, EgressStarts(q, e) PROVE TypeOK'
  BY <1>4, RequestFields DEF EgressStarts, TypeOK, Request, Egress, None
<1>5. ASSUME NEW q \in Requests, StartStore(q) PROVE TypeOK'
  BY <1>5, RequestFields DEF StartStore, TypeOK, Request, None
<1>6. ASSUME NEW q \in Requests, StartFails(q) PROVE TypeOK'
  BY <1>6, RequestFields DEF StartFails, TypeOK, Request
<1>7. ASSUME NEW q \in Requests, EgressStops(q) PROVE TypeOK'
  <2>1. /\ req[q].id \in Egresses
        /\ egress[req[q].id] \in [st : {"running", "ended"}, room : Rooms]
    BY <1>7, RequestFields DEF EgressStops, Running, TypeOK, Egress, Unused
  <2>2. [egress[req[q].id] EXCEPT !.st = "ended"] \in Egress
    BY <2>1 DEF Egress
  <2>. QED
    BY <1>7, <2>1, <2>2 DEF EgressStops, TypeOK, Request
<1>8. ASSUME NEW q \in Requests, StopFails(q) PROVE TypeOK'
  BY <1>8, RequestFields DEF StopFails, TypeOK, Request
<1>9. ASSUME NEW q \in Requests, Refused(q) PROVE TypeOK'
  BY <1>9 DEF Refused, TypeOK, Request
<1>10. ASSUME NEW e \in Egresses, EgressEnds(e) PROVE TypeOK'
  <2>1. egress[e] \in [st : {"running", "ended"}, room : Rooms]
    BY <1>10 DEF EgressEnds, Running, TypeOK, Egress, Unused
  <2>2. [egress[e] EXCEPT !.st = "ended"] \in Egress
    BY <2>1 DEF Egress
  <2>. QED
    BY <1>10, <2>2 DEF EgressEnds, TypeOK
<1>11. CASE Restart
  BY <1>11 DEF Restart, TypeOK, Request
<1>. QED
  BY <1>1, <1>2, <1>3, <1>4, <1>5, <1>6, <1>7, <1>8, <1>9, <1>10, <1>11 DEF Next

(* HeldOnce, with the table and the holders spelled out.                    *)
LEMMA HeldOnceStep == TypeOK /\ HeldOnce /\ [Next]_vars => HeldOnce'
<1> SUFFICES ASSUME TypeOK, HeldOnce, [Next]_vars PROVE HeldOnce'
  OBVIOUS
<1>0. TypeOK'
  BY TypeStep
<1>1. CASE UNCHANGED vars
  BY <1>1 DEF vars, HeldOnce, Holders
<1>2. ASSUME NEW q \in Requests, NEW r \in Rooms, StartCheck(q, r) PROVE HeldOnce'
  BY <1>0, <1>2, RequestFields, EgressFields DEF StartCheck, Pass, HeldOnce, Holders, TypeOK, None, Running, Unused
<1>3. ASSUME NEW q \in Requests, NEW r \in Rooms, StopTake(q, r) PROVE HeldOnce'
  BY <1>0, <1>3, RequestFields, EgressFields DEF StopTake, HeldOnce, Holders, TypeOK, None, Running, Unused
<1>4. ASSUME NEW q \in Requests, NEW e \in Egresses, EgressStarts(q, e) PROVE HeldOnce'
  BY <1>0, <1>4, RequestFields, EgressFields DEF EgressStarts, HeldOnce, Holders, TypeOK, None, Running, Unused
<1>5. ASSUME NEW q \in Requests, StartStore(q) PROVE HeldOnce'
  BY <1>0, <1>5, RequestFields, EgressFields DEF StartStore, HeldOnce, Holders, TypeOK, None, Running, Unused
<1>6. ASSUME NEW q \in Requests, StartFails(q) PROVE HeldOnce'
  BY <1>0, <1>6, RequestFields, EgressFields DEF StartFails, HeldOnce, Holders, TypeOK, None, Running, Unused
<1>7. ASSUME NEW q \in Requests, EgressStops(q) PROVE HeldOnce'
  BY <1>0, <1>7, RequestFields, EgressFields DEF EgressStops, HeldOnce, Holders, TypeOK, None, Running, Unused
<1>8. ASSUME NEW q \in Requests, StopFails(q) PROVE HeldOnce'
  BY <1>0, <1>8, RequestFields, EgressFields DEF StopFails, HeldOnce, Holders, TypeOK, None, Running, Unused
<1>9. ASSUME NEW q \in Requests, Refused(q) PROVE HeldOnce'
  BY <1>0, <1>9, RequestFields, EgressFields DEF Refused, HeldOnce, Holders, TypeOK, None, Running, Unused
<1>10. ASSUME NEW e \in Egresses, EgressEnds(e) PROVE HeldOnce'
  BY <1>0, <1>10, RequestFields, EgressFields DEF EgressEnds, HeldOnce, Holders, TypeOK, None, Running, Unused
<1>11. CASE Restart
  BY <1>0, <1>11 DEF Restart, HeldOnce, Holders, TypeOK, None
<1>. QED
  BY <1>1, <1>2, <1>3, <1>4, <1>5, <1>6, <1>7, <1>8, <1>9, <1>10, <1>11 DEF Next

(* A second Start past its check makes the room a raced one. *)
LEMMA OneStartStep == TypeOK /\ OneStart /\ [Next]_vars => OneStart'
<1> SUFFICES ASSUME TypeOK, OneStart, [Next]_vars PROVE OneStart'
  OBVIOUS
<1>0. TypeOK'
  BY TypeStep
<1>1. CASE UNCHANGED vars
  BY <1>1 DEF vars, OneStart, Starts
<1>2. ASSUME NEW q \in Requests, NEW r \in Rooms, StartCheck(q, r) PROVE OneStart'
  BY <1>0, <1>2, RequestFields, EgressFields DEF StartCheck, Pass, OneStart, Starts, TypeOK, None
<1>3. ASSUME NEW q \in Requests, NEW r \in Rooms, StopTake(q, r) PROVE OneStart'
  BY <1>0, <1>3, RequestFields, EgressFields DEF StopTake, OneStart, Starts, TypeOK, None
<1>4. ASSUME NEW q \in Requests, NEW e \in Egresses, EgressStarts(q, e) PROVE OneStart'
  BY <1>0, <1>4, RequestFields, EgressFields DEF EgressStarts, OneStart, Starts, TypeOK, None
<1>5. ASSUME NEW q \in Requests, StartStore(q) PROVE OneStart'
  BY <1>0, <1>5, RequestFields, EgressFields DEF StartStore, OneStart, Starts, TypeOK, None
<1>6. ASSUME NEW q \in Requests, StartFails(q) PROVE OneStart'
  BY <1>0, <1>6, RequestFields, EgressFields DEF StartFails, OneStart, Starts, TypeOK, None
<1>7. ASSUME NEW q \in Requests, EgressStops(q) PROVE OneStart'
  BY <1>0, <1>7, RequestFields, EgressFields DEF EgressStops, OneStart, Starts, TypeOK, None
<1>8. ASSUME NEW q \in Requests, StopFails(q) PROVE OneStart'
  BY <1>0, <1>8, RequestFields, EgressFields DEF StopFails, OneStart, Starts, TypeOK, None
<1>9. ASSUME NEW q \in Requests, Refused(q) PROVE OneStart'
  BY <1>0, <1>9, RequestFields, EgressFields DEF Refused, OneStart, Starts, TypeOK, None
<1>10. ASSUME NEW e \in Egresses, EgressEnds(e) PROVE OneStart'
  BY <1>0, <1>10, RequestFields, EgressFields DEF EgressEnds, OneStart, Starts, TypeOK, None
<1>11. CASE Restart
  BY <1>0, <1>11 DEF Restart, OneStart, Starts, TypeOK, None
<1>. QED
  BY <1>1, <1>2, <1>3, <1>4, <1>5, <1>6, <1>7, <1>8, <1>9, <1>10, <1>11 DEF Next

(* No step of an unraced room drops the id of a running egress. *)
LEMMA NoneAdriftStep == TypeOK /\ HeldOnce /\ OneStart /\ NoneAdrift /\ [Next]_vars => NoneAdrift'
<1> SUFFICES ASSUME TypeOK, HeldOnce, OneStart, NoneAdrift, [Next]_vars PROVE NoneAdrift'
  OBVIOUS
<1>0. TypeOK'
  BY TypeStep
<1>1. CASE UNCHANGED vars
  BY <1>1 DEF vars, NoneAdrift, Running, Holders
<1>2. ASSUME NEW q \in Requests, NEW r \in Rooms, StartCheck(q, r) PROVE NoneAdrift'
  BY <1>0, <1>2, RequestFields, EgressFields DEF StartCheck, Pass, HeldOnce, OneStart, Starts, NoneAdrift, Running, Holders, TypeOK, None, Unused
<1>3. ASSUME NEW q \in Requests, NEW r \in Rooms, StopTake(q, r) PROVE NoneAdrift'
  BY <1>0, <1>3, RequestFields, EgressFields DEF StopTake, HeldOnce, OneStart, Starts, NoneAdrift, Running, Holders, TypeOK, None, Unused
<1>4. ASSUME NEW q \in Requests, NEW e \in Egresses, EgressStarts(q, e) PROVE NoneAdrift'
  BY <1>0, <1>4, RequestFields, EgressFields DEF EgressStarts, HeldOnce, OneStart, Starts, NoneAdrift, Running, Holders, TypeOK, None, Unused
<1>5. ASSUME NEW q \in Requests, StartStore(q) PROVE NoneAdrift'
  BY <1>0, <1>5, RequestFields, EgressFields DEF StartStore, HeldOnce, OneStart, Starts, NoneAdrift, Running, Holders, TypeOK, None, Unused
<1>6. ASSUME NEW q \in Requests, StartFails(q) PROVE NoneAdrift'
  BY <1>0, <1>6, RequestFields, EgressFields DEF StartFails, HeldOnce, OneStart, Starts, NoneAdrift, Running, Holders, TypeOK, None, Unused
<1>7. ASSUME NEW q \in Requests, EgressStops(q) PROVE NoneAdrift'
  BY <1>0, <1>7, RequestFields, EgressFields DEF EgressStops, HeldOnce, OneStart, Starts, NoneAdrift, Running, Holders, TypeOK, None, Unused
<1>8. ASSUME NEW q \in Requests, StopFails(q) PROVE NoneAdrift'
  BY <1>0, <1>8, RequestFields, EgressFields DEF StopFails, HeldOnce, OneStart, Starts, NoneAdrift, Running, Holders, TypeOK, None, Unused
<1>9. ASSUME NEW q \in Requests, Refused(q) PROVE NoneAdrift'
  BY <1>0, <1>9, RequestFields, EgressFields DEF Refused, HeldOnce, OneStart, Starts, NoneAdrift, Running, Holders, TypeOK, None, Unused
<1>10. ASSUME NEW e \in Egresses, EgressEnds(e) PROVE NoneAdrift'
  BY <1>0, <1>10, RequestFields, EgressFields DEF EgressEnds, HeldOnce, OneStart, Starts, NoneAdrift, Running, Holders, TypeOK, None, Unused
<1>11. CASE Restart
  BY <1>0, <1>11 DEF Restart, HeldOnce, OneStart, Starts, NoneAdrift, Running, Holders, TypeOK, None, Unused
<1>. QED
  BY <1>1, <1>2, <1>3, <1>4, <1>5, <1>6, <1>7, <1>8, <1>9, <1>10, <1>11 DEF Next

THEOREM Invariance == Spec => []IInv
<1>1. IInv /\ [Next]_vars => IInv'
  BY TypeStep, HeldOnceStep, OneStartStep, NoneAdriftStep DEF IInv
<1>. QED
  BY InitIInv, <1>1, PTL DEF Spec

(* Every variable has its type in every reachable state (recorder.go).      *)
THEOREM TypeCorrect == Spec => []TypeOK
<1>1. IInv => TypeOK
  BY DEF IInv
<1>. QED
  BY Invariance, <1>1, PTL

(* A running recording is held once: by the table or by one request, and it *)
(* belongs to that room (recorder.go: Start, Stop).                         *)
THEOREM RecordingHeldOnce == Spec => []HeldOnce
<1>1. IInv => HeldOnce
  BY DEF IInv
<1>. QED
  BY Invariance, <1>1, PTL

(* A recording of a room that is never started twice at once, and whose id  *)
(* no failure lost, can be stopped, and it is the only one of its room      *)
(* (recorder.go: Start, Stop).                                              *)
THEOREM RecordingStoppable == Spec => []Stoppable
<1>1. IInv => Stoppable
  <2> SUFFICES ASSUME IInv PROVE Stoppable
    OBVIOUS
  <2> DEFINE Known == {e \in Egresses : Running(e) /\ e \notin lost
                                        /\ egress[e].room \notin raced}
             Stopping(e) == \E q \in Holders(e) : req[q].st = "stopping"
  <2>1. \A e \in Known : active[egress[e].room] = e \/ Holders(e) # {}
    BY DEF IInv, NoneAdrift
  <2>2. ASSUME NEW e \in Known, ~Stopping(e)
        PROVE  LET r == egress[e].room
               IN  /\ r \in Rooms \ raced
                   /\ active[r] = e
                      \/ \E q \in Starts(r) : req[q].st = "started" /\ req[q].id = e
    BY <2>1, <2>2, EgressFields DEF IInv, HeldOnce, Holders, Starts, Running, Unused
  <2>3. ASSUME NEW e1 \in Known, NEW e2 \in Known,
               egress[e1].room = egress[e2].room, ~Stopping(e1), ~Stopping(e2)
        PROVE  e1 = e2
    <3> DEFINE r == egress[e1].room
    <3>1. r \in Rooms \ raced
      BY <2>2, <2>3
    <3>2. CASE active[r] = e1
      BY <2>2, <2>3, <3>1, <3>2 DEF IInv, OneStart
    <3>3. CASE \E q \in Starts(r) : req[q].st = "started" /\ req[q].id = e1
      BY <2>2, <2>3, <3>1, <3>3 DEF IInv, OneStart
    <3>. QED
      BY <2>2, <2>3, <3>2, <3>3
  <2>. QED
    BY <2>1, <2>3 DEF Stoppable
<1>. QED
  BY Invariance, <1>1, PTL
=============================================================================
