----------------------------- MODULE HostPanel -----------------------------
(***************************************************************************)
(* The lock button of the host's panel                                     *)
(* (frontend/src/components/ParticipantsPanel.tsx) against the room's      *)
(* metadata, which the backend writes (livekit/moderator.go: SetLocked,    *)
(* httpapi/admin.go: handleLock) and LiveKit pushes to every client.  The  *)
(* button answers before the request does, and a failed request undoes it. *)
(* Requests of one page may overlap, and another of the host's browsers    *)
(* may lock too.                                                           *)
(***************************************************************************)
EXTENDS Naturals, Sequences, FiniteSets

CONSTANTS
    HpMaxAsks, \* requests of this page in flight
    HpMaxWire  \* metadata pushes in flight

ASSUME HpAssumption == HpMaxAsks \in Nat

VARIABLES
    hpMeta,  \* the lock in the room's metadata
    hpWire,  \* pushes on their way to this page, in order
    hpLocal, \* room.metadata as this page has it
    hpOpen,  \* the panel is mounted
    hpShown, \* its locked state
    hpAsks,  \* the requests under way
    hpDoubt  \* history: a request failed that had been applied, or not alone

hpVars == <<hpMeta, hpWire, hpLocal, hpOpen, hpShown, hpAsks, hpDoubt>>

\* A request: what it asks, whether the server has done it, whether its panel is
\* still mounted, and whether the lock has had no other reason to change.
HpAsk == [id : 1..HpMaxAsks, next : BOOLEAN, done : BOOLEAN, live : BOOLEAN, alone : BOOLEAN]

HpTypeOK ==
    /\ hpMeta \in BOOLEAN
    /\ hpWire \in Seq(BOOLEAN)
    /\ hpLocal \in BOOLEAN
    /\ hpOpen \in BOOLEAN
    /\ hpShown \in BOOLEAN
    /\ hpAsks \subseteq HpAsk
    /\ hpDoubt \in BOOLEAN

\* parseLocked of the metadata at hand.
HpInit ==
    /\ hpMeta \in BOOLEAN
    /\ hpWire = <<>>
    /\ hpLocal = hpMeta
    /\ hpOpen = FALSE
    /\ hpShown = FALSE
    /\ hpAsks = {}
    /\ hpDoubt = FALSE

HpMount ==
    /\ ~hpOpen
    /\ hpOpen' = TRUE
    /\ hpShown' = hpLocal
    /\ hpDoubt' = FALSE
    /\ UNCHANGED <<hpMeta, hpWire, hpLocal, hpAsks>>

HpUnmount ==
    /\ hpOpen
    /\ hpOpen' = FALSE
    /\ hpAsks' = {[a EXCEPT !.live = FALSE] : a \in hpAsks}
    /\ UNCHANGED <<hpMeta, hpWire, hpLocal, hpShown, hpDoubt>>

\* toggleLock, up to its await.  Bound: HpMaxAsks.
HpToggle ==
    /\ hpOpen
    /\ Cardinality(hpAsks) < HpMaxAsks
    /\ hpShown' = ~hpShown
    /\ LET id == CHOOSE i \in 1..HpMaxAsks : \A a \in hpAsks : a.id # i
       IN hpAsks' = {[a EXCEPT !.alone = FALSE] : a \in hpAsks} \cup
                    {[id |-> id, next |-> ~hpShown, done |-> FALSE, live |-> TRUE,
                      alone |-> hpAsks = {} /\ hpShown = hpMeta]}
    /\ UNCHANGED <<hpMeta, hpWire, hpLocal, hpOpen, hpDoubt>>

\* UpdateRoomMetadata, which is pushed to everyone.  Bound: HpMaxWire.
HpWrite(locked) ==
    /\ Len(hpWire) < HpMaxWire
    /\ hpMeta' = locked
    /\ hpWire' = Append(hpWire, locked)

HpApply(a) ==
    /\ a \in hpAsks
    /\ ~a.done
    /\ HpWrite(a.next)
    /\ hpAsks' = (hpAsks \ {a}) \cup {[a EXCEPT !.done = TRUE]}
    /\ UNCHANGED <<hpLocal, hpOpen, hpShown, hpDoubt>>

HpSucceeds(a) ==
    /\ a \in hpAsks
    /\ a.done
    /\ hpAsks' = hpAsks \ {a}
    /\ UNCHANGED <<hpMeta, hpWire, hpLocal, hpOpen, hpShown, hpDoubt>>

\* A bug for comparison: the button keeps what was wished for.
HpAfterFailureKept(a) == hpShown

\* catch { setLocked(!next) }
HpAfterFailure(a) == ~a.next

\* Refused, failed, or its answer lost after all.
HpFails(a) ==
    /\ a \in hpAsks
    /\ hpShown' = IF a.live THEN HpAfterFailure(a) ELSE hpShown
    /\ hpDoubt' = (hpDoubt \/ (a.live /\ (a.done \/ ~a.alone)))
    /\ hpAsks' = hpAsks \ {a}
    /\ UNCHANGED <<hpMeta, hpWire, hpLocal, hpOpen>>

\* The same host in another browser.
HpElsewhere ==
    /\ HpWrite(~hpMeta)
    /\ hpAsks' = {[a EXCEPT !.alone = FALSE] : a \in hpAsks}
    /\ UNCHANGED <<hpLocal, hpOpen, hpShown, hpDoubt>>

\* RoomMetadataChanged, which the SDK raises only for a change.
HpPushed ==
    /\ hpWire # <<>>
    /\ hpWire' = Tail(hpWire)
    /\ hpLocal' = Head(hpWire)
    /\ hpShown' = IF hpOpen /\ hpLocal' # hpLocal THEN hpLocal' ELSE hpShown
    /\ hpDoubt' = (hpDoubt /\ hpLocal' = hpLocal)
    /\ UNCHANGED <<hpMeta, hpOpen, hpAsks>>

HpNext ==
    \/ HpMount
    \/ HpUnmount
    \/ HpToggle
    \/ \E a \in hpAsks : HpApply(a) \/ HpSucceeds(a) \/ HpFails(a)
    \/ HpElsewhere
    \/ HpPushed

HpSpec == HpInit /\ [][HpNext]_hpVars

----
(* Properties.                                                              *)

\* "Keep the lock state in sync with the room's server-side metadata"
\* (ParticipantsPanel.tsx:19): once the requests are answered and the pushes have
\* arrived, the button shows the room's lock, whatever the order they came in -
\* unless a request failed that had been applied, or while the lock was changing
\* for another reason, and nothing has been pushed since.
HpInSync ==
    hpOpen /\ hpAsks = {} /\ hpWire = <<>> /\ ~hpDoubt => hpShown = hpMeta
=============================================================================
