---------------------------- MODULE Muting_proofs ----------------------------
(***************************************************************************)
(* What a mute by the host leaves behind, for any number of participants.  *)
(***************************************************************************)
EXTENDS Muting, TLAPS

\* Nobody is counted as told while a request for them is under way, and a request
\* that has muted its target has done so unless the microphone was turned on since.
MuOneInv ==
    \A u \in MuUsers :
        /\ muOne[u] # "none" => u \notin muTold
        /\ (u \in muTold \/ muOne[u] = "muted") /\ muMic[u] = "on" => u \in muTurned.one

\* While no track has failed, those of the list who are done are silent, or turned
\* the microphone on since.
MuAllInv ==
    /\ muAll.state = "ok" => muAll.todo = {} /\ ~muAll.failed
    /\ muAll.state \in {"muting", "ok"} /\ ~muAll.failed =>
         \A u \in muAll.listed \ muAll.todo : muMic[u] = "on" => u \in muTurned.all

MuInv == MuTypeOK /\ MuOneInv /\ MuAllInv

LEMMA MuInitially == MuInit => MuInv
BY DEF MuInit, MuInv, MuTypeOK, MuOneInv, MuAllInv, MuNoAll

\* Every variable keeps its type.
LEMMA MuTypeStep == MuTypeOK /\ [MuNext]_muVars => MuTypeOK'
<1> SUFFICES ASSUME MuTypeOK, [MuNext]_muVars PROVE MuTypeOK'
  OBVIOUS
<1> USE DEF MuTypeOK
<1>1. ASSUME NEW u \in MuUsers, MuSwitch(u) PROVE MuTypeOK'
  BY <1>1 DEF MuSwitch
<1>2. ASSUME NEW u \in MuUsers, MuLeave(u) PROVE MuTypeOK'
  BY <1>2 DEF MuLeave
<1>3. ASSUME NEW u \in MuUsers, MuAsk(u) PROVE MuTypeOK'
  BY <1>3 DEF MuAsk
<1>4. ASSUME NEW u \in MuUsers, MuList(u) PROVE MuTypeOK'
  BY <1>4 DEF MuList
<1>5. ASSUME NEW u \in MuUsers, MuMute(u) PROVE MuTypeOK'
  BY <1>5 DEF MuMute, MuMuted
<1>6. ASSUME NEW u \in MuUsers, MuFails(u) PROVE MuTypeOK'
  BY <1>6 DEF MuFails
<1>7. ASSUME NEW u \in MuUsers, MuNotify(u) PROVE MuTypeOK'
  BY <1>7 DEF MuNotify
<1>8. ASSUME NEW u \in MuUsers, MuMuteNext(u) PROVE MuTypeOK'
  BY <1>8 DEF MuMuteNext, MuMuted, MuErrors
<1>9. CASE MuAskAll
  BY <1>9 DEF MuAskAll, MuNoAll
<1>10. CASE MuListAll
  <2>1. MuUnmuted \in SUBSET MuUsers
    BY DEF MuUnmuted
  <2>2. muAll' \in [state : {"idle", "asked", "muting", "ok", "failed"},
                    listed : SUBSET MuUsers, todo : SUBSET MuUsers, failed : BOOLEAN]
    BY <1>10, <2>1 DEF MuListAll
  <2>3. muTurned' \in [{"one", "all"} -> SUBSET MuUsers]
    BY <1>10, <2>1 DEF MuListAll
  <2>4. QED
    BY <1>10, <2>2, <2>3 DEF MuListAll
<1>11. CASE MuAllAnswered
  BY <1>11 DEF MuAllAnswered
<1>12. CASE UNCHANGED muVars
  BY <1>12 DEF muVars
<1>13. QED
  BY <1>1, <1>2, <1>3, <1>4, <1>5, <1>6, <1>7, <1>8, <1>9, <1>10, <1>11, <1>12 DEF MuNext

\* The request about one participant.
LEMMA MuOneStep == MuTypeOK /\ MuOneInv /\ [MuNext]_muVars => MuOneInv'
<1> SUFFICES ASSUME MuTypeOK, MuOneInv, [MuNext]_muVars PROVE MuOneInv'
  OBVIOUS
<1> USE DEF MuTypeOK, MuOneInv
<1>1. ASSUME NEW u \in MuUsers, MuSwitch(u) PROVE MuOneInv'
  BY <1>1 DEF MuSwitch
<1>2. ASSUME NEW u \in MuUsers, MuLeave(u) PROVE MuOneInv'
  BY <1>2 DEF MuLeave
<1>3. ASSUME NEW u \in MuUsers, MuAsk(u) PROVE MuOneInv'
  BY <1>3 DEF MuAsk
<1>4. ASSUME NEW u \in MuUsers, MuList(u) PROVE MuOneInv'
  BY <1>4 DEF MuList
<1>5. ASSUME NEW u \in MuUsers, MuMute(u) PROVE MuOneInv'
  BY <1>5 DEF MuMute, MuMuted
<1>6. ASSUME NEW u \in MuUsers, MuFails(u) PROVE MuOneInv'
  BY <1>6 DEF MuFails
<1>7. ASSUME NEW u \in MuUsers, MuNotify(u) PROVE MuOneInv'
  BY <1>7 DEF MuNotify, MuAnswered
<1>8. ASSUME NEW u \in MuUsers, MuMuteNext(u) PROVE MuOneInv'
  BY <1>8 DEF MuMuteNext, MuMuted
<1>9. CASE MuAskAll
  BY <1>9 DEF MuAskAll
<1>10. CASE MuListAll
  BY <1>10 DEF MuListAll
<1>11. CASE MuAllAnswered
  BY <1>11 DEF MuAllAnswered
<1>12. CASE UNCHANGED muVars
  BY <1>12 DEF muVars
<1>13. QED
  BY <1>1, <1>2, <1>3, <1>4, <1>5, <1>6, <1>7, <1>8, <1>9, <1>10, <1>11, <1>12 DEF MuNext

\* The request about all.
LEMMA MuAllStep == MuTypeOK /\ MuAllInv /\ [MuNext]_muVars => MuAllInv'
<1> SUFFICES ASSUME MuTypeOK, MuAllInv, [MuNext]_muVars PROVE MuAllInv'
  OBVIOUS
<1> USE DEF MuTypeOK, MuAllInv
<1>1. ASSUME NEW u \in MuUsers, MuSwitch(u) PROVE MuAllInv'
  BY <1>1 DEF MuSwitch
<1>2. ASSUME NEW u \in MuUsers, MuLeave(u) PROVE MuAllInv'
  BY <1>2 DEF MuLeave
<1>3. ASSUME NEW u \in MuUsers, MuAsk(u) PROVE MuAllInv'
  BY <1>3 DEF MuAsk
<1>4. ASSUME NEW u \in MuUsers, MuList(u) PROVE MuAllInv'
  BY <1>4 DEF MuList
<1>5. ASSUME NEW u \in MuUsers, MuMute(u) PROVE MuAllInv'
  BY <1>5 DEF MuMute, MuMuted
<1>6. ASSUME NEW u \in MuUsers, MuFails(u) PROVE MuAllInv'
  BY <1>6 DEF MuFails
<1>7. ASSUME NEW u \in MuUsers, MuNotify(u) PROVE MuAllInv'
  BY <1>7 DEF MuNotify
<1>8. ASSUME NEW u \in MuUsers, MuMuteNext(u) PROVE MuAllInv'
  <2>1. CASE muAll' = [muAll EXCEPT !.todo = @ \ {u}, !.failed = MuErrors(TRUE)]
    BY <1>8, <2>1 DEF MuMuteNext, MuErrors
  <2>2. CASE /\ muMic' = MuMuted(u)
             /\ muAll' = [muAll EXCEPT !.todo = @ \ {u}, !.failed = MuErrors(FALSE)]
    <3>1. /\ muAll.state = "muting"
          /\ muAll'.state = "muting"
          /\ muAll'.todo = muAll.todo \ {u}
          /\ muAll'.listed = muAll.listed
          /\ muAll'.failed = muAll.failed
          /\ muTurned' = muTurned
      BY <1>8, <2>2 DEF MuMuteNext, MuErrors
    <3>2. /\ muMic'[u] # "on"
          /\ \A v \in MuUsers : muMic'[v] = "on" => muMic[v] = "on"
      BY <2>2 DEF MuMuted
    <3>3. QED
      BY <3>1, <3>2
  <2>3. QED
    BY <1>8, <2>1, <2>2 DEF MuMuteNext
<1>9. CASE MuAskAll
  BY <1>9 DEF MuAskAll, MuNoAll
<1>10. CASE MuListAll
  BY <1>10 DEF MuListAll, MuUnmuted
<1>11. CASE MuAllAnswered
  BY <1>11 DEF MuAllAnswered
<1>12. CASE UNCHANGED muVars
  BY <1>12 DEF muVars
<1>13. QED
  BY <1>1, <1>2, <1>3, <1>4, <1>5, <1>6, <1>7, <1>8, <1>9, <1>10, <1>11, <1>12 DEF MuNext

LEMMA MuInvariant == MuSpec => []MuInv
<1>1. MuInv /\ [MuNext]_muVars => MuInv'
  BY MuTypeStep, MuOneStep, MuAllStep DEF MuInv
<1>2. QED
  BY MuInitially, <1>1, PTL DEF MuSpec

\* Every variable of the mute requests keeps its type (ParticipantsPanel.tsx,
\* moderator.go).
THEOREM MuTypeCorrect == MuSpec => []MuTypeOK
<1>1. MuInv => MuTypeOK
  BY DEF MuInv
<1>2. QED
  BY MuInvariant, <1>1, PTL

\* A mute-all that reports no error has silenced everyone it listed, and who is told
\* of a mute is muted, unless they turned the microphone on again (moderator.go:
\* MuteAll, moderation.ts: notifyModeration).
THEOREM MuteHolds == MuSpec => []MuHolds
<1>1. MuInv => MuHolds
  BY DEF MuInv, MuTypeOK, MuOneInv, MuAllInv, MuHolds
<1>2. QED
  BY MuInvariant, <1>1, PTL
=============================================================================
