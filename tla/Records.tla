------------------------------- MODULE Records -------------------------------
(***************************************************************************)
(* What outlives the call's page within the tab and within the browser:    *)
(* the attendance store (frontend/src/lib/attendance.ts), the commitments  *)
(* store and each room's saved commitment (lib/commitments.ts), as calls   *)
(* begin, move aside and end, and PostCall reads them (pages/PostCall.tsx, *)
(* pages/CallRoom.tsx).  A stay lasts from joining to leaving, through     *)
(* moves between rooms.                                                    *)
(***************************************************************************)
EXTENDS Naturals, FiniteSets

CONSTANTS
    RcRooms,
    RcMaxMounts, \* calls mounted in all
    RcMaxSends,  \* calls with a commitment being published at a time
    RcNone

ASSUME RcAssumption ==
    /\ RcMaxMounts \in Nat /\ RcMaxSends \in Nat
    /\ RcNone \notin [mount : Nat, stay : Nat, done : BOOLEAN]

VARIABLES
    rcPage,   \* the screen, its room, and the number of the stay
    rcMounts, \* how many calls have been mounted
    rcAtt,    \* the attendance store: valid, room, and the stay it recorded
    rcCom,    \* the commitments store: valid, room, and the stays its list is from
    rcSaved,  \* localStorage: each room's own commitment, by the mount it was left in
    rcPrior,  \* the mounted call's prior commitment, while its prompt is up
    rcPost,   \* what PostCall shows: the report's stay, the commitments' stays, their rooms
    rcSends,  \* commitments being published: the room, the stay and the mount they are from
    rcMoved,  \* history: stays in which the user moved between rooms
    rcLate,   \* history: stays with a commitment published only after its call was left
    rcMarked  \* history: was it the prior commitment that "Done" marked

rcVars == <<rcPage, rcMounts, rcAtt, rcCom, rcSaved, rcPrior, rcPost, rcSends, rcMoved,
            rcLate, rcMarked>>

RcStays == 0..RcMaxMounts
RcNoPost == [report |-> 0, stays |-> {}, rooms |-> {}]

RcSavedType == [mount : RcStays, stay : RcStays, done : BOOLEAN] \cup {RcNone}
RcTypeOK ==
    /\ rcPage \in [at : {"home", "joining", "call", "post"}, room : RcRooms, stay : RcStays]
    /\ rcMounts \in RcStays
    /\ rcAtt \in [valid : BOOLEAN, room : RcRooms, stay : RcStays]
    /\ rcCom \in [valid : BOOLEAN, room : RcRooms, stays : SUBSET RcStays]
    /\ rcSaved \in [RcRooms -> RcSavedType]
    /\ rcPrior \in RcSavedType
    /\ rcPost \in [report : RcStays, stays : SUBSET RcStays, rooms : SUBSET RcRooms]
    /\ rcSends \in SUBSET [room : RcRooms, stay : RcStays, mount : RcStays]
    /\ rcMoved \in SUBSET RcStays
    /\ rcLate \in SUBSET RcStays
    /\ rcMarked \in BOOLEAN

RcInit ==
    /\ rcPage \in [at : {"home"}, room : RcRooms, stay : {0}]
    /\ rcMounts = 0
    /\ rcAtt = [valid |-> FALSE, room |-> rcPage.room, stay |-> 0]
    /\ rcCom = [valid |-> FALSE, room |-> rcPage.room, stays |-> {}]
    /\ rcSaved = [r \in RcRooms |-> RcNone]
    /\ rcPrior = RcNone
    /\ rcPost = RcNoPost
    /\ rcSends = {}
    /\ rcMoved = {}
    /\ rcLate = {}
    /\ rcMarked = TRUE

\* A room is entered from its lobby, or again from PostCall.
RcEnter(r) ==
    /\ rcPage.at = "home" \/ (rcPage.at = "post" /\ rcPage.room = r)
    /\ rcPage.stay < RcMaxMounts
    /\ rcPage' = [at |-> "joining", room |-> r, stay |-> rcPage.stay + 1]
    /\ rcPost' = RcNoPost
    /\ UNCHANGED <<rcMounts, rcAtt, rcCom, rcSaved, rcPrior, rcSends, rcMoved, rcLate, rcMarked>>

\* Connected: the call mounts, its attendance starts anew, and the room's saved
\* commitment is the one to ask about.  Bound: RcMaxMounts.
RcMount ==
    /\ rcPage.at = "joining"
    /\ rcMounts < RcMaxMounts
    /\ rcMounts' = rcMounts + 1
    /\ rcPage' = [rcPage EXCEPT !.at = "call"]
    /\ rcAtt' = [valid |-> TRUE, room |-> rcPage.room, stay |-> rcPage.stay]
    /\ rcPrior' = IF rcSaved[rcPage.room] # RcNone /\ rcSaved[rcPage.room].done THEN RcNone
                  ELSE rcSaved[rcPage.room]
    /\ UNCHANGED <<rcCom, rcSaved, rcPost, rcSends, rcMoved, rcLate, rcMarked>>

\* A bug for comparison: the list of another call is continued.
RcAddKeeping(room, stay) == rcCom.stays \cup {stay}

\* The list of an earlier room, or one already read, is begun anew.
RcAdd(room, stay) ==
    (IF rcCom.valid /\ rcCom.room = room THEN rcCom.stays ELSE {}) \cup {stay}

\* Another's commitment arrives.
RcReceive ==
    /\ rcPage.at = "call"
    /\ rcCom' = [valid |-> TRUE, room |-> rcPage.room, stays |-> RcAdd(rcPage.room, rcPage.stay)]
    /\ UNCHANGED <<rcPage, rcMounts, rcAtt, rcSaved, rcPrior, rcPost, rcSends, rcMoved,
                   rcLate, rcMarked>>

\* The user leaves a commitment, which is published first.  Bound: RcMaxSends.
RcSend ==
    /\ rcPage.at = "call"
    /\ Cardinality(rcSends) < RcMaxSends
    /\ rcSends' = rcSends \cup {[room |-> rcPage.room, stay |-> rcPage.stay, mount |-> rcMounts]}
    /\ UNCHANGED <<rcPage, rcMounts, rcAtt, rcCom, rcSaved, rcPrior, rcPost, rcMoved,
                   rcLate, rcMarked>>

RcFromHere(s) == rcPage.at = "call" /\ s.mount = rcMounts

\* Published: only now is it added and saved, for the room it was left in, and wherever
\* the user is by now.  Others of the same call may still be under way.
RcCommit(s) ==
    /\ s \in rcSends
    /\ rcSends' \in {rcSends, rcSends \ {s}}
    /\ rcCom' = [valid |-> TRUE, room |-> s.room, stays |-> RcAdd(s.room, s.stay)]
    /\ rcSaved' = [rcSaved EXCEPT ![s.room] = [mount |-> s.mount, stay |-> s.stay, done |-> FALSE]]
    /\ rcLate' = IF RcFromHere(s) THEN rcLate ELSE rcLate \cup {s.stay}
    /\ UNCHANGED <<rcPage, rcMounts, rcAtt, rcPrior, rcPost, rcMoved, rcMarked>>

\* Publishing fails, of the last one under way: nothing is added or saved.
RcCommitFails(s) ==
    /\ s \in rcSends
    /\ rcSends' = rcSends \ {s}
    /\ UNCHANGED <<rcPage, rcMounts, rcAtt, rcCom, rcSaved, rcPrior, rcPost, rcMoved,
                   rcLate, rcMarked>>

\* "Done": whatever is saved for the room by now is marked.
RcDone ==
    /\ rcPage.at = "call"
    /\ rcPrior # RcNone
    /\ rcSaved' = [rcSaved EXCEPT ![rcPage.room].done = TRUE]
    /\ rcMarked' = (rcSaved[rcPage.room].mount = rcPrior.mount)
    /\ rcPrior' = RcNone
    /\ UNCHANGED <<rcPage, rcMounts, rcAtt, rcCom, rcPost, rcSends, rcMoved, rcLate>>

RcDismiss ==
    /\ rcPrior # RcNone
    /\ rcPrior' = RcNone
    /\ UNCHANGED <<rcPage, rcMounts, rcAtt, rcCom, rcSaved, rcPost, rcSends, rcMoved,
                   rcLate, rcMarked>>

\* Aside and back: the call unmounts, the stay goes on in another room.
RcMove(r) ==
    /\ rcPage.at = "call"
    /\ r # rcPage.room
    /\ rcPage' = [rcPage EXCEPT !.at = "joining", !.room = r]
    /\ rcPrior' = RcNone
    /\ rcMoved' = rcMoved \cup {rcPage.stay}
    /\ UNCHANGED <<rcMounts, rcAtt, rcCom, rcSaved, rcPost, rcSends, rcLate, rcMarked>>

\* A bug for comparison: a store is read whatever room it is of.
RcIsOfAny(store) == store.valid

\* A store is for this screen only if it is unread and of its room.
RcIsOf(store) == store.valid /\ store.room = rcPage.room

\* Left, or never connected: PostCall reads both stores, which consumes them.
RcLeave ==
    /\ rcPage.at \in {"joining", "call"}
    /\ rcPage' = [rcPage EXCEPT !.at = "post"]
    /\ rcPost' = [report |-> IF RcIsOf(rcAtt) THEN rcAtt.stay ELSE 0,
                  stays |-> IF RcIsOf(rcCom) THEN rcCom.stays ELSE {},
                  rooms |-> {s.room : s \in {x \in {rcAtt, rcCom} : RcIsOf(x)}}]
    /\ rcAtt' = [rcAtt EXCEPT !.valid = @ /\ ~RcIsOf(rcAtt)]
    /\ rcCom' = [rcCom EXCEPT !.valid = @ /\ ~RcIsOf(rcCom)]
    /\ rcPrior' = RcNone
    /\ UNCHANGED <<rcMounts, rcSaved, rcSends, rcMoved, rcLate, rcMarked>>

RcHome ==
    /\ rcPage.at = "post"
    /\ rcPage' = [rcPage EXCEPT !.at = "home"]
    /\ rcPost' = RcNoPost
    /\ UNCHANGED <<rcMounts, rcAtt, rcCom, rcSaved, rcPrior, rcSends, rcMoved, rcLate, rcMarked>>

\* The tab is loaded again: what is in storage stays.
RcReload ==
    /\ rcPage.at # "home"
    /\ rcPage' = [rcPage EXCEPT !.at = "home"]
    /\ rcAtt' = [rcAtt EXCEPT !.valid = FALSE]
    /\ rcCom' = [rcCom EXCEPT !.valid = FALSE, !.stays = {}]
    /\ rcPost' = RcNoPost
    /\ rcPrior' = RcNone
    /\ rcSends' = {}
    /\ UNCHANGED <<rcMounts, rcSaved, rcMoved, rcLate, rcMarked>>

RcNext ==
    \/ \E r \in RcRooms : RcEnter(r) \/ RcMove(r)
    \/ RcMount
    \/ RcReceive
    \/ RcSend
    \/ \E s \in rcSends : RcCommit(s) \/ RcCommitFails(s)
    \/ RcDone
    \/ RcDismiss
    \/ RcLeave
    \/ RcHome
    \/ RcReload

RcSpec == RcInit /\ [][RcNext]_rcVars

----
(* Properties.                                                              *)

\* After a call the user sees the report and the commitments of the stay just ended
\* and of the room on the screen (attendance.ts:165, commitments.ts:118), and nothing of
\* an earlier stay, but for two kinds of stay whose stores nobody read: one that moved
\* between rooms, and one whose commitment was published only after its call was left.
\* A prompt asks about a commitment of an earlier stay, unless this one has moved.
RcOwnCall ==
    /\ rcPost.rooms \subseteq {rcPage.room}
    /\ ({rcPost.report} \ {0}) \cup rcPost.stays \subseteq {rcPage.stay} \cup rcMoved \cup rcLate
    /\ rcPrior # RcNone => (rcPrior.stay < rcPage.stay \/ rcPage.stay \in rcMoved)

\* "Mark the prior commitment as done" (commitments.ts:112): the "Done" of the prompt
\* is about the commitment it asks about.
RcMarksPrior == rcMarked
=============================================================================
