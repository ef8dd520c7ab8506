--------------------------- MODULE Records_proofs ---------------------------
(***************************************************************************)
(* What PostCall and the prompt show is of the user's own call, for any    *)
(* rooms and any number of calls.                                          *)
(***************************************************************************)
EXTENDS Records, TLAPS

RcInCall == rcPage.at \in {"joining", "call"}

\* Only PostCall shows records, and only those of its room, of its stay or of one
\* that moved.
RcPostInv ==
    /\ rcPage.at # "post" => rcPost = RcNoPost
    /\ rcPost.rooms \subseteq {rcPage.room}
    /\ ({rcPost.report} \ {0}) \cup rcPost.stays \subseteq {rcPage.stay} \cup rcMoved \cup rcLate

\* What nobody has read is of the stay that goes on or of one that moved, and of the
\* room the user is in unless this stay has moved.
RcAttInv ==
    rcAtt.valid =>
        /\ rcAtt.stay \in rcMoved \/ (RcInCall /\ rcAtt.stay = rcPage.stay)
        /\ RcInCall /\ rcAtt.stay = rcPage.stay /\ rcPage.stay \notin rcMoved
             => rcAtt.room = rcPage.room

RcComInv ==
    rcCom.valid =>
        /\ rcCom.stays \subseteq rcMoved \cup rcLate \cup (IF RcInCall THEN {rcPage.stay} ELSE {})
        /\ RcInCall /\ rcPage.stay \in rcCom.stays /\ rcPage.stay \notin rcMoved \cup rcLate
             => rcCom.room = rcPage.room

\* A saved commitment is of this stay or an earlier one; of an earlier one, until the
\* first call of a stay is mounted.
RcPriorInv ==
    /\ \A r \in RcRooms : rcSaved[r] # RcNone =>
         /\ rcSaved[r].stay <= rcPage.stay
         /\ rcPage.at = "joining" /\ rcPage.stay \notin rcMoved => rcSaved[r].stay < rcPage.stay
    /\ rcPrior # RcNone =>
         /\ rcPrior.stay < rcPage.stay \/ rcPage.stay \in rcMoved
         /\ rcPage.at = "call" /\ rcSaved[rcPage.room] # RcNone

\* What is being published is of this stay or an earlier one, and what the mounted call
\* publishes is of its room.
RcSendInv ==
    \A s \in rcSends :
      /\ s.stay <= rcPage.stay /\ s.mount <= rcMounts
      /\ rcPage.at = "joining" /\ rcPage.stay \notin rcMoved => s.stay < rcPage.stay
      /\ RcFromHere(s) => s.stay = rcPage.stay /\ s.room = rcPage.room

RcInv == RcTypeOK /\ RcPostInv /\ RcAttInv /\ RcComInv /\ RcPriorInv /\ RcSendInv

LEMMA RcInitially == RcInit => RcInv
BY RcAssumption DEF RcInit, RcInv, RcTypeOK, RcSavedType, RcStays, RcNoPost, RcPostInv, RcAttInv,
   RcComInv, RcPriorInv, RcSendInv, RcInCall

\* Every variable keeps its type.
LEMMA RcTypeStep == RcTypeOK /\ RcPriorInv /\ [RcNext]_rcVars => RcTypeOK'
<1> SUFFICES ASSUME RcTypeOK, RcPriorInv, [RcNext]_rcVars PROVE RcTypeOK'
  OBVIOUS
<1> USE RcAssumption DEF RcTypeOK, RcSavedType, RcStays, RcNoPost
<1>1. ASSUME NEW r \in RcRooms, RcEnter(r) PROVE RcTypeOK'
  BY <1>1 DEF RcEnter
<1>2. ASSUME NEW r \in RcRooms, RcMove(r) PROVE RcTypeOK'
  BY <1>2 DEF RcMove
<1>3. CASE RcMount
  BY <1>3 DEF RcMount
<1>5. CASE RcDone
  <2>1. /\ rcPage.room \in RcRooms
        /\ rcSaved[rcPage.room] \in [mount : RcStays, stay : RcStays, done : BOOLEAN]
    BY <1>5 DEF RcDone, RcPriorInv
  <2>2. [rcSaved[rcPage.room] EXCEPT !.done = TRUE] \in RcSavedType
    BY <2>1
  <2>3. rcSaved' \in [RcRooms -> RcSavedType]
    BY <1>5, <2>1, <2>2 DEF RcDone
  <2>4. QED
    BY <1>5, <2>3 DEF RcDone
<1>6. CASE RcDismiss
  BY <1>6 DEF RcDismiss
<1>7. CASE RcLeave
  <2>1. {s.room : s \in {x \in {rcAtt, rcCom} : RcIsOf(x)}} \subseteq RcRooms
    BY DEF RcIsOf
  <2>2. rcPost' \in [report : RcStays, stays : SUBSET RcStays, rooms : SUBSET RcRooms]
    BY <1>7, <2>1 DEF RcLeave
  <2>3. /\ rcAtt' \in [valid : BOOLEAN, room : RcRooms, stay : RcStays]
        /\ rcCom' \in [valid : BOOLEAN, room : RcRooms, stays : SUBSET RcStays]
    BY <1>7 DEF RcLeave, RcIsOf
  <2>4. QED
    BY <1>7, <2>2, <2>3 DEF RcLeave
<1>8. CASE RcHome
  BY <1>8 DEF RcHome
<1>9. CASE RcReload
  <2>1. /\ rcPage' \in [at : {"home", "joining", "call", "post"}, room : RcRooms, stay : RcStays]
        /\ rcAtt' \in [valid : BOOLEAN, room : RcRooms, stay : RcStays]
        /\ rcCom' \in [valid : BOOLEAN, room : RcRooms, stays : SUBSET RcStays]
    BY <1>9 DEF RcReload
  <2>2. QED
    BY <1>9, <2>1 DEF RcReload
<1>10. CASE UNCHANGED rcVars
  BY <1>10 DEF rcVars
<1>11. CASE RcReceive
  <2>1. RcAdd(rcPage.room, rcPage.stay) \in SUBSET RcStays
    BY DEF RcAdd
  <2>2. QED
    BY <1>11, <2>1 DEF RcReceive
<1>12. CASE RcSend
  <2>1. [room |-> rcPage.room, stay |-> rcPage.stay, mount |-> rcMounts]
          \in [room : RcRooms, stay : RcStays, mount : RcStays]
    OBVIOUS
  <2>2. QED
    BY <1>12, <2>1 DEF RcSend
<1>13. ASSUME NEW s \in rcSends, RcCommit(s) PROVE RcTypeOK'
  <2>0. s \in [room : RcRooms, stay : RcStays, mount : RcStays]
    OBVIOUS
  <2>1. RcAdd(s.room, s.stay) \in SUBSET RcStays
    BY <2>0 DEF RcAdd
  <2>2. rcCom' \in [valid : BOOLEAN, room : RcRooms, stays : SUBSET RcStays]
    BY <1>13, <2>0, <2>1 DEF RcCommit
  <2>3. rcSaved' \in [RcRooms -> RcSavedType]
    <3>1. [mount |-> s.mount, stay |-> s.stay, done |-> FALSE] \in RcSavedType
      BY <2>0
    <3>2. QED
      BY <1>13, <3>1 DEF RcCommit
  <2>4. rcSends' \subseteq rcSends /\ rcLate' \in SUBSET RcStays
    BY <1>13, <2>0 DEF RcCommit
  <2>5. QED
    BY <1>13, <2>2, <2>3, <2>4 DEF RcCommit
<1>14. ASSUME NEW s \in rcSends, RcCommitFails(s) PROVE RcTypeOK'
  BY <1>14 DEF RcCommitFails
<1>15. QED
  BY <1>1, <1>2, <1>3, <1>5, <1>6, <1>7, <1>8, <1>9, <1>10, <1>11, <1>12, <1>13, <1>14 DEF RcNext

\* The attendance store.
LEMMA RcAttStep == RcTypeOK /\ RcAttInv /\ [RcNext]_rcVars => RcAttInv'
<1> SUFFICES ASSUME RcTypeOK, RcAttInv, [RcNext]_rcVars PROVE RcAttInv'
  OBVIOUS
<1> USE RcAssumption DEF RcTypeOK, RcStays, RcAttInv, RcInCall
<1>1. ASSUME NEW r \in RcRooms, RcEnter(r) PROVE RcAttInv'
  BY <1>1 DEF RcEnter
<1>2. ASSUME NEW r \in RcRooms, RcMove(r) PROVE RcAttInv'
  BY <1>2 DEF RcMove
<1>3. CASE RcMount
  BY <1>3 DEF RcMount
<1>5. CASE RcDone
  BY <1>5 DEF RcDone
<1>6. CASE RcDismiss
  BY <1>6 DEF RcDismiss
<1>7. CASE RcLeave
  BY <1>7 DEF RcLeave, RcIsOf
<1>8. CASE RcHome
  BY <1>8 DEF RcHome
<1>9. CASE RcReload
  BY <1>9 DEF RcReload
<1>10. CASE UNCHANGED rcVars
  BY <1>10 DEF rcVars
<1>11. CASE RcReceive
  BY <1>11 DEF RcReceive
<1>12. CASE RcSend
  BY <1>12 DEF RcSend
<1>13. ASSUME NEW s \in rcSends, RcCommit(s) PROVE RcAttInv'
  BY <1>13 DEF RcCommit
<1>14. ASSUME NEW s \in rcSends, RcCommitFails(s) PROVE RcAttInv'
  BY <1>14 DEF RcCommitFails
<1>15. QED
  BY <1>1, <1>2, <1>3, <1>5, <1>6, <1>7, <1>8, <1>9, <1>10, <1>11, <1>12, <1>13, <1>14 DEF RcNext

\* The commitments store.
LEMMA RcComStep == RcTypeOK /\ RcComInv /\ RcSendInv /\ [RcNext]_rcVars => RcComInv'
<1> SUFFICES ASSUME RcTypeOK, RcComInv, RcSendInv, [RcNext]_rcVars PROVE RcComInv'
  OBVIOUS
<1> USE RcAssumption DEF RcTypeOK, RcStays, RcComInv, RcInCall
<1>1. ASSUME NEW r \in RcRooms, RcEnter(r) PROVE RcComInv'
  BY <1>1 DEF RcEnter
<1>2. ASSUME NEW r \in RcRooms, RcMove(r) PROVE RcComInv'
  BY <1>2 DEF RcMove
<1>3. CASE RcMount
  BY <1>3 DEF RcMount
<1>5. CASE RcDone
  BY <1>5 DEF RcDone
<1>6. CASE RcDismiss
  BY <1>6 DEF RcDismiss
<1>7. CASE RcLeave
  BY <1>7 DEF RcLeave, RcIsOf
<1>8. CASE RcHome
  BY <1>8 DEF RcHome
<1>9. CASE RcReload
  BY <1>9 DEF RcReload
<1>10. CASE UNCHANGED rcVars
  BY <1>10 DEF rcVars
<1>11. CASE RcReceive
  BY <1>11 DEF RcReceive, RcAdd
<1>12. CASE RcSend
  BY <1>12 DEF RcSend
<1>13. ASSUME NEW s \in rcSends, RcCommit(s) PROVE RcComInv'
  BY <1>13 DEF RcCommit, RcAdd, RcSendInv, RcFromHere
<1>14. ASSUME NEW s \in rcSends, RcCommitFails(s) PROVE RcComInv'
  BY <1>14 DEF RcCommitFails
<1>15. QED
  BY <1>1, <1>2, <1>3, <1>5, <1>6, <1>7, <1>8, <1>9, <1>10, <1>11, <1>12, <1>13, <1>14 DEF RcNext

\* The saved commitments and the one asked about.
LEMMA RcPriorStep == RcTypeOK /\ RcPriorInv /\ RcSendInv /\ [RcNext]_rcVars => RcPriorInv'
<1> SUFFICES ASSUME RcTypeOK, RcPriorInv, RcSendInv, [RcNext]_rcVars PROVE RcPriorInv'
  OBVIOUS
<1> USE RcAssumption DEF RcTypeOK, RcSavedType, RcStays, RcPriorInv
<1>1. ASSUME NEW r \in RcRooms, RcEnter(r) PROVE RcPriorInv'
  BY <1>1 DEF RcEnter
<1>2. ASSUME NEW r \in RcRooms, RcMove(r) PROVE RcPriorInv'
  BY <1>2 DEF RcMove
<1>3. CASE RcMount
  BY <1>3 DEF RcMount
<1>5. CASE RcDone
  BY <1>5 DEF RcDone
<1>6. CASE RcDismiss
  BY <1>6 DEF RcDismiss
<1>7. CASE RcLeave
  BY <1>7 DEF RcLeave
<1>8. CASE RcHome
  BY <1>8 DEF RcHome
<1>9. CASE RcReload
  BY <1>9 DEF RcReload
<1>10. CASE UNCHANGED rcVars
  BY <1>10 DEF rcVars
<1>11. CASE RcReceive
  BY <1>11 DEF RcReceive
<1>12. CASE RcSend
  BY <1>12 DEF RcSend
<1>13. ASSUME NEW s \in rcSends, RcCommit(s) PROVE RcPriorInv'
  <2> DEFINE mine == [mount |-> s.mount, stay |-> s.stay, done |-> FALSE]
  <2>0. s.mount \in Nat /\ s.stay \in Nat /\ s.room \in RcRooms
    OBVIOUS
  <2>1. mine \in [mount : Nat, stay : Nat, done : BOOLEAN]
    BY <2>0
  <2>2. mine # RcNone /\ mine.stay = s.stay
    BY <2>1
  <2>3. \A r \in RcRooms : rcSaved'[r] = IF r = s.room THEN mine ELSE rcSaved[r]
    BY <1>13 DEF RcCommit
  <2>4. /\ s.stay <= rcPage.stay
        /\ rcPage.at = "joining" /\ rcPage.stay \notin rcMoved => s.stay < rcPage.stay
    BY DEF RcSendInv
  <2> HIDE DEF mine
  <2>5. QED
    BY <1>13, <2>0, <2>2, <2>3, <2>4 DEF RcCommit
<1>14. ASSUME NEW s \in rcSends, RcCommitFails(s) PROVE RcPriorInv'
  BY <1>14 DEF RcCommitFails
<1>15. QED
  BY <1>1, <1>2, <1>3, <1>5, <1>6, <1>7, <1>8, <1>9, <1>10, <1>11, <1>12, <1>13, <1>14 DEF RcNext

\* What is being published.
LEMMA RcSendStep == RcTypeOK /\ RcSendInv /\ [RcNext]_rcVars => RcSendInv'
<1> SUFFICES ASSUME RcTypeOK, RcSendInv, [RcNext]_rcVars PROVE RcSendInv'
  OBVIOUS
<1> USE RcAssumption DEF RcTypeOK, RcStays, RcSendInv, RcFromHere
<1>1. ASSUME NEW r \in RcRooms, RcEnter(r) PROVE RcSendInv'
  BY <1>1 DEF RcEnter
<1>2. ASSUME NEW r \in RcRooms, RcMove(r) PROVE RcSendInv'
  BY <1>2 DEF RcMove
<1>3. CASE RcMount
  BY <1>3 DEF RcMount
<1>4. CASE RcDone
  BY <1>4 DEF RcDone
<1>5. CASE RcDismiss
  BY <1>5 DEF RcDismiss
<1>6. CASE RcLeave
  BY <1>6 DEF RcLeave
<1>7. CASE RcHome
  BY <1>7 DEF RcHome
<1>8. CASE RcReload
  BY <1>8 DEF RcReload
<1>9. CASE UNCHANGED rcVars
  BY <1>9 DEF rcVars
<1>10. CASE RcReceive
  BY <1>10 DEF RcReceive
<1>11. CASE RcSend
  BY <1>11 DEF RcSend
<1>12. ASSUME NEW s \in rcSends, RcCommit(s) PROVE RcSendInv'
  BY <1>12 DEF RcCommit
<1>13. ASSUME NEW s \in rcSends, RcCommitFails(s) PROVE RcSendInv'
  BY <1>13 DEF RcCommitFails
<1>14. QED
  BY <1>1, <1>2, <1>3, <1>4, <1>5, <1>6, <1>7, <1>8, <1>9,
     <1>10, <1>11, <1>12, <1>13 DEF RcNext

\* What PostCall shows.
LEMMA RcPostStep == RcTypeOK /\ RcAttInv /\ RcComInv /\ RcPostInv /\ [RcNext]_rcVars => RcPostInv'
<1> SUFFICES ASSUME RcTypeOK, RcAttInv, RcComInv, RcPostInv, [RcNext]_rcVars PROVE RcPostInv'
  OBVIOUS
<1> USE RcAssumption DEF RcTypeOK, RcStays, RcNoPost, RcPostInv
<1>1. ASSUME NEW r \in RcRooms, RcEnter(r) PROVE RcPostInv'
  BY <1>1 DEF RcEnter
<1>2. ASSUME NEW r \in RcRooms, RcMove(r) PROVE RcPostInv'
  BY <1>2 DEF RcMove
<1>3. CASE RcMount
  BY <1>3 DEF RcMount
<1>5. CASE RcDone
  BY <1>5 DEF RcDone
<1>6. CASE RcDismiss
  BY <1>6 DEF RcDismiss
<1>7. CASE RcLeave
  BY <1>7 DEF RcLeave, RcIsOf, RcAttInv, RcComInv, RcInCall
<1>8. CASE RcHome
  BY <1>8 DEF RcHome
<1>9. CASE RcReload
  BY <1>9 DEF RcReload
<1>10. CASE UNCHANGED rcVars
  BY <1>10 DEF rcVars
<1>11. CASE RcReceive
  BY <1>11 DEF RcReceive
<1>12. CASE RcSend
  BY <1>12 DEF RcSend
<1>13. ASSUME NEW s \in rcSends, RcCommit(s) PROVE RcPostInv'
  BY <1>13 DEF RcCommit
<1>14. ASSUME NEW s \in rcSends, RcCommitFails(s) PROVE RcPostInv'
  BY <1>14 DEF RcCommitFails
<1>15. QED
  BY <1>1, <1>2, <1>3, <1>5, <1>6, <1>7, <1>8, <1>9, <1>10, <1>11, <1>12, <1>13, <1>14 DEF RcNext

LEMMA RcInvariant == RcSpec => []RcInv
<1>1. RcInv /\ [RcNext]_rcVars => RcInv'
  BY RcTypeStep, RcAttStep, RcComStep, RcPriorStep, RcSendStep, RcPostStep DEF RcInv
<1>2. QED
  BY RcInitially, <1>1, PTL DEF RcSpec

\* Every variable of the records keeps its type (attendance.ts, commitments.ts).
THEOREM RcTypeCorrect == RcSpec => []RcTypeOK
<1>1. RcInv => RcTypeOK
  BY DEF RcInv
<1>2. QED
  BY RcInvariant, <1>1, PTL

\* PostCall shows the records of its own room and stay, and the prompt asks about an
\* earlier stay, but for stays that moved between rooms or had a commitment published only
\* after their call was left (attendance.ts: buildReport,
\* commitments.ts: getCommitments, useCommitments).
THEOREM OwnCall == RcSpec => []RcOwnCall
<1>1. RcInv => RcOwnCall
  BY DEF RcInv, RcPostInv, RcPriorInv, RcOwnCall
<1>2. QED
  BY RcInvariant, <1>1, PTL
=============================================================================
