------------------------- MODULE CallMedia_proofs -------------------------
(***************************************************************************)
(* Proofs about the components of a call that own a device, a window or a  *)
(* timer, for any number of devices' requests, tracks, users and notices:  *)
(* the inductive invariant of each, the refinement of LatestWins by the    *)
(* camera background, and the properties of MCCallMedia's specification.   *)
(***************************************************************************)
EXTENDS MCCallMedia, WellFoundedInduction, TLAPS

----
(* Every set of numbers has a least one, which is what induction rests on.   *)

LEMMA LeastNat ==
    ASSUME NEW T \in SUBSET Nat, T # {}
    PROVE  \E i \in T : \A j \in T : i <= j
<1> DEFINE R == {p \in Nat \X Nat : p[1] < p[2]}
<1>1. IsWellFoundedOn(R, Nat)
  BY NatLessThanWellFounded DEF OpToRel
<1>2. \E i \in T : \A j \in T : <<j, i>> \notin R
  <2> HIDE DEF R
  <2>1. QED
    BY <1>1, WFMin
<1>3. PICK i \in T : \A j \in T : <<j, i>> \notin R
  BY <1>2
<1>4. \A j \in T : ~(j < i)
  BY <1>3
<1>5. QED
  BY <1>4

----
(* From the lobby into the call.                                            *)

JnLive(i) == jnAsked[i].live

\* At most one request of the lobby's is live, asks for what is on, and finds no
\* stream; elsewhere than in the lobby none is.
JnAskInv ==
    /\ \A i \in JnAsks : JnLive(i) =>
          jnAsked[i].for = jnOn /\ jnStream = NoStream /\ jnScreen = "lobby"
    /\ \A i, j \in JnAsks : JnLive(i) /\ JnLive(j) => i = j

\* What a join under way wants is what was on; once connected, the wanted devices and
\* no others have been set about; and in the room they are live.
JnCallInv ==
    /\ jnScreen \notin {"lobby", "left"} \/ jnForm.busy =>
          (jnTouched.toggles \/ jnWant = jnOn)
    /\ jnScreen = "room" => jnLink
    /\ jnScreen \in {"lobby", "left"} => jnLink = FALSE
    /\ jnLink /\ jnScreen \in {"connecting", "room"} =>
          \A d \in Devices : (jnPub[d] = "off") <=> (d \notin jnWant)
    /\ jnScreen = "room" => \A d \in Devices : jnPub[d] \in {"off", "live"}

\* Audio elements play what is subscribed, while the call is shown.
JnSoundInv ==
    \A t \in JnTracks : jnPlays[t] = IF jnScreen = "room" /\ t \in jnSubs THEN 1 ELSE 0

JnInv == JnTypeOK /\ JnAskInv /\ JnPreview /\ JnCallInv /\ JnSoundInv

JnFormType == [named : BOOLEAN, busy : BOOLEAN, error : {"none", "name", "refused"}]
JnAskType == [for : SUBSET Devices, live : BOOLEAN]

LEMMA JnFields ==
    /\ NoRequest \in JnAskType /\ NoRequest.live = FALSE
    /\ NoStream = {} /\ NoStream \in SUBSET Devices
    /\ JnFreshLobby.form \in JnFormType /\ JnFreshLobby.form.busy = FALSE
    /\ JnFreshLobby.touched \in [preview : BOOLEAN, toggles : BOOLEAN]
    /\ JnFreshLobby.touched.preview = FALSE /\ JnFreshLobby.touched.toggles = FALSE
BY DEF NoRequest, JnAskType, NoStream, JnFreshLobby, JnFormType

LEMMA JnInitially == JnInit => JnInv
<1> SUFFICES ASSUME JnInit PROVE JnInv
  OBVIOUS
<1> USE JnFields
<1>1. jnForm \in JnFormType /\ jnForm.busy = FALSE
  BY DEF JnInit, JnFormType
<1>2. jnAsked \in [JnAsks -> JnAskType] /\ \A i \in JnAsks : jnAsked[i].live = FALSE
  BY DEF JnInit
<1>3. JnTypeOK
  <2>1. /\ jnPub \in [Devices -> {"off", "pending", "live", "failed"}]
        /\ jnPlays \in [JnTracks -> 0..2]
    BY DEF JnInit
  <2>2. QED
    BY <1>1, <1>2, <2>1 DEF JnInit, JnTypeOK, JnFormType, JnAskType
<1>4. JnAskInv /\ JnPreview
  BY <1>2 DEF JnInit, JnAskInv, JnLive, JnPreview
<1>5. JnCallInv /\ JnSoundInv
  BY <1>1 DEF JnInit, JnCallInv, JnSoundInv
<1>6. QED
  BY <1>3, <1>4, <1>5 DEF JnInv

\* Cancelling leaves no request live, and each asking for what it asked.
LEMMA JnCancelling ==
    ASSUME JnTypeOK
    PROVE  /\ JnCancelled \in [JnAsks -> JnAskType]
           /\ \A i \in JnAsks : JnCancelled[i].live = FALSE
<1>1. ASSUME NEW ask \in JnAskType
      PROVE  [ask EXCEPT !.live = FALSE] \in JnAskType /\ [ask EXCEPT !.live = FALSE].live = FALSE
  BY DEF JnAskType
<1>2. \A i \in JnAsks : jnAsked[i] \in JnAskType
  BY DEF JnTypeOK, JnAskType
<1>3. QED
  BY <1>1, <1>2 DEF JnCancelled

\* The steps of the call leave the lobby alone, and nobody gets back to it by them.
JnCallStep ==
    \/ JnConnected \/ JnConnectFails
    \/ \E d \in Devices : JnPublished(d) \/ JnPublishFails(d)
    \/ \E t \in JnTracks : JnSubscribed(t) \/ JnUnsubscribed(t)
    \/ JnLeave

LEMMA JnCallLeavesLobby ==
    ASSUME JnCallStep
    PROVE  /\ UNCHANGED <<jnLobby, jnWant>>
           /\ jnScreen = "lobby" <=> jnScreen' = "lobby"
<1>1. CASE JnConnected \/ JnConnectFails
  BY <1>1 DEF JnConnected, JnConnectFails, JnShow, jnCall
<1>2. ASSUME NEW d \in Devices, JnPublished(d) \/ JnPublishFails(d)
      PROVE  /\ UNCHANGED <<jnLobby, jnWant>>
             /\ jnScreen = "lobby" <=> jnScreen' = "lobby"
  BY <1>2 DEF JnPublished, JnPublishFails, JnShow
<1>3. ASSUME NEW t \in JnTracks, JnSubscribed(t) \/ JnUnsubscribed(t)
      PROVE  /\ UNCHANGED <<jnLobby, jnWant>>
             /\ jnScreen = "lobby" <=> jnScreen' = "lobby"
  BY <1>3 DEF JnSubscribed, JnUnsubscribed
<1>4. CASE JnLeave
  BY <1>4 DEF JnLeave
<1>5. QED
  BY <1>1, <1>2, <1>3, <1>4 DEF JnCallStep

LEMMA JnNextSplits ==
    ASSUME JnNext
    PROVE  \/ JnCallStep
           \/ \E d \in Devices : JnToggle(d)
           \/ JnTypeName \/ JnJoin \/ JnToken \/ JnRefused \/ JnAgain
           \/ \E i \in JnAsks : JnGranted(i) \/ JnDenied(i)
BY DEF JnNext, JnAnswers, JnCallStep

\* What the lobby's steps do to the requests and to the preview.
LEMMA JnLobbyStep ==
    JnTypeOK /\ JnAskInv /\ JnPreview /\ [JnNext]_jnVars => JnAskInv' /\ JnPreview'
<1> SUFFICES ASSUME JnTypeOK, JnAskInv, JnPreview, [JnNext]_jnVars
             PROVE  JnAskInv' /\ JnPreview'
  OBVIOUS
<1> USE JnFields DEF JnAskInv, JnPreview, JnLive
<1>1. CASE JnCallStep
  BY <1>1, JnCallLeavesLobby DEF jnLobby
<1>2. ASSUME NEW d \in Devices, JnToggle(d) PROVE JnAskInv' /\ JnPreview'
  <2>1. /\ jnScreen = "lobby" /\ jnScreen' = "lobby" /\ jnStream' = NoStream
        /\ jnStray' = jnStray
    BY <1>2 DEF JnToggle
  <2>2. CASE jnOn' = {}
    <3>1. \A i \in JnAsks : jnAsked'[i].live = FALSE
      BY <1>2, <2>2, JnCancelling DEF JnToggle
    <3>2. QED
      BY <2>1, <2>2, <3>1
  <2>3. CASE jnOn' # {}
    <3>1. PICK i \in JnAsks : jnAsked' = [JnCancelled EXCEPT ![i] = [for |-> jnOn', live |-> TRUE]]
      BY <1>2, <2>3 DEF JnToggle
    <3>2. /\ jnAsked'[i].live /\ jnAsked'[i].for = jnOn'
          /\ \A j \in JnAsks : j # i => ~jnAsked'[j].live
      BY <3>1, JnCancelling
    <3>3. QED
      BY <2>1, <3>2
  <2>4. QED
    BY <2>2, <2>3
<1>3. ASSUME NEW i \in JnAsks, JnGranted(i) PROVE JnAskInv' /\ JnPreview'
  <2>1. /\ jnAsked' = [jnAsked EXCEPT ![i] = NoRequest]
        /\ UNCHANGED <<jnOn, jnForm, jnTouched, jnScreen>>
    BY <1>3 DEF JnGranted
  <2>2. \A j \in JnAsks : jnAsked'[j] = IF j = i THEN NoRequest ELSE jnAsked[j]
    BY <2>1 DEF JnTypeOK
  <2>3. CASE jnAsked[i].live
    BY <1>3, <2>1, <2>2, <2>3 DEF JnGranted, JnTypeOK
  <2>4. CASE ~jnAsked[i].live
    BY <1>3, <2>1, <2>2, <2>4 DEF JnGranted, JnTypeOK
  <2>5. QED
    BY <2>3, <2>4
<1>4. ASSUME NEW i \in JnAsks, JnDenied(i) PROVE JnAskInv' /\ JnPreview'
  <2>1. /\ jnAsked' = [jnAsked EXCEPT ![i] = NoRequest]
        /\ jnTouched' = [jnTouched EXCEPT !.preview = @ \/ jnAsked[i].live]
        /\ UNCHANGED <<jnOn, jnStream, jnStray, jnScreen>>
    BY <1>4 DEF JnDenied
  <2>2. \A j \in JnAsks : jnAsked'[j] = IF j = i THEN NoRequest ELSE jnAsked[j]
    BY <2>1 DEF JnTypeOK
  <2>3. jnTouched'.preview = (jnTouched.preview \/ jnAsked[i].live)
    BY <2>1 DEF JnTypeOK
  <2>4. JnAskInv'
    BY <2>1, <2>2
  <2>5. JnPreview'
    <3>1. ~jnTouched'.preview /\ (\A j \in JnAsks : ~jnAsked'[j].live)
          => ~jnTouched.preview /\ (\A j \in JnAsks : ~jnAsked[j].live)
      BY <2>2, <2>3
    <3>2. QED
      BY <2>1, <3>1
  <2>6. QED
    BY <2>4, <2>5
<1>5. CASE JnTypeName \/ JnRefused
  BY <1>5 DEF JnTypeName, JnRefused
<1>6. CASE JnJoin
  BY <1>6 DEF JnJoin
<1>7. CASE JnToken
  BY <1>7, JnCancelling DEF JnToken
<1>8. CASE JnAgain
  BY <1>8 DEF JnAgain
<1>9. CASE UNCHANGED jnVars
  BY <1>9 DEF jnVars, jnLobby
<1>10. QED
  BY <1>1, <1>2, <1>3, <1>4, <1>5, <1>6, <1>7, <1>8, <1>9, JnNextSplits

\* The devices that are set about are the wanted ones.
LEMMA JnWantedStep ==
    JnTypeOK /\ JnCallInv /\ [JnNext]_jnVars => JnCallInv'
<1> SUFFICES ASSUME JnTypeOK, JnCallInv, [JnNext]_jnVars PROVE JnCallInv'
  OBVIOUS
<1> USE JnFields DEF JnCallInv
<1>1. ASSUME NEW d \in Devices, JnToggle(d) PROVE JnCallInv'
  <2>1. jnTouched'.toggles = (jnTouched.toggles \/ jnForm.busy)
    BY <1>1 DEF JnToggle
  <2>2. QED
    BY <1>1, <2>1 DEF JnToggle, jnCall
<1>2. ASSUME NEW i \in JnAsks, JnGranted(i) \/ JnDenied(i) PROVE JnCallInv'
  <2>1. jnTouched'.toggles = jnTouched.toggles
    BY <1>2 DEF JnGranted, JnDenied, JnTypeOK
  <2>2. QED
    BY <1>2, <2>1 DEF JnGranted, JnDenied, jnCall
<1>3. CASE JnTypeName
  <2>1. jnForm'.busy = jnForm.busy
    BY <1>3 DEF JnTypeName, JnTypeOK
  <2>2. QED
    BY <1>3, <2>1 DEF JnTypeName, jnCall
<1>4. CASE JnJoin
  <2>1. CASE jnForm.named
    BY <1>4, <2>1 DEF JnJoin, JnTypeOK
  <2>2. CASE ~jnForm.named
    <3>1. jnForm'.busy = jnForm.busy
      BY <1>4, <2>2 DEF JnJoin, JnTypeOK
    <3>2. QED
      BY <1>4, <2>2, <3>1 DEF JnJoin
  <2>3. QED
    BY <2>1, <2>2
<1>5. CASE JnToken
  <2>1. /\ jnScreen = "lobby" /\ jnForm.busy /\ jnScreen' = "connecting"
        /\ UNCHANGED <<jnOn, jnTouched, jnWant, jnPub, jnLink>>
    BY <1>5 DEF JnToken, jnCall
  <2>2. QED
    BY <2>1
<1>6. CASE JnRefused
  BY <1>6 DEF JnRefused, JnTypeOK, jnCall
<1>7. CASE JnAgain
  <2>1. jnForm'.busy = FALSE
    BY <1>7 DEF JnAgain, JnFormType
  <2>2. QED
    BY <1>7, <2>1 DEF JnAgain
<1>8. CASE JnCallStep
  <2>1. UNCHANGED <<jnOn, jnForm, jnTouched, jnWant>> /\ (jnScreen = "lobby" <=> jnScreen' = "lobby")
    BY <1>8, JnCallLeavesLobby DEF jnLobby
  <2>2. CASE JnConnected
    <3>1. /\ jnScreen = "connecting" /\ jnLink' = TRUE
          /\ jnPub' = [d \in Devices |-> IF d \in jnWant THEN "pending" ELSE "off"]
          /\ \/ jnScreen' = "connecting"
             \/ jnScreen' = "room" /\ \A d \in Devices : jnPub'[d] \notin {"pending", "failed"}
      BY <2>2 DEF JnConnected, JnShow
    <3>2. QED
      BY <2>1, <3>1
  <2>3. CASE JnConnectFails
    BY <2>1, <2>3 DEF JnConnectFails, jnCall
  <2>4. ASSUME NEW d \in Devices, JnPublished(d) PROVE JnCallInv'
    <3>1. /\ jnPub[d] = "pending" /\ jnLink /\ jnLink' = jnLink
          /\ jnPub' = [jnPub EXCEPT ![d] = "live"]
          /\ \/ jnScreen' = jnScreen
             \/ /\ jnScreen = "connecting" /\ jnScreen' = "room"
                /\ \A e \in Devices : jnPub'[e] \notin {"pending", "failed"}
      BY <2>4 DEF JnPublished, JnShow
    <3>2. \A e \in Devices : jnPub'[e] = IF e = d THEN "live" ELSE jnPub[e]
      BY <3>1 DEF JnTypeOK
    <3>3. \A e \in Devices : jnPub[e] \in {"off", "pending", "live", "failed"}
      BY DEF JnTypeOK
    <3>4. QED
      BY <2>1, <3>1, <3>2, <3>3
  <2>5. ASSUME NEW d \in Devices, JnPublishFails(d) PROVE JnCallInv'
    <3>1. /\ jnPub[d] = "pending" /\ jnLink' = jnLink
          /\ jnScreen' = IF jnScreen = "connecting" THEN "error" ELSE jnScreen
          /\ \A e \in Devices : jnPub'[e] = IF e = d THEN "failed" ELSE jnPub[e]
      BY <2>5 DEF JnPublishFails, JnTypeOK
    <3>2. QED
      BY <2>1, <3>1
  <2>6. ASSUME NEW t \in JnTracks, JnSubscribed(t) \/ JnUnsubscribed(t) PROVE JnCallInv'
    BY <2>1, <2>6 DEF JnSubscribed, JnUnsubscribed
  <2>7. CASE JnLeave
    BY <2>1, <2>7 DEF JnLeave
  <2>8. QED
    BY <1>8, <2>2, <2>3, <2>4, <2>5, <2>6, <2>7 DEF JnCallStep
<1>9. CASE UNCHANGED jnVars
  BY <1>9 DEF jnVars, jnLobby, jnCall
<1>10. QED
  BY <1>1, <1>2, <1>3, <1>4, <1>5, <1>6, <1>7, <1>8, <1>9, JnNextSplits

\* Elements play what is subscribed, from the moment the call is shown to its end.
LEMMA JnSoundStep ==
    JnTypeOK /\ JnSoundInv /\ [JnNext]_jnVars => JnSoundInv' /\ jnPlays' \in [JnTracks -> 0..2]
<1> SUFFICES ASSUME JnTypeOK, JnSoundInv, [JnNext]_jnVars
             PROVE  JnSoundInv' /\ jnPlays' \in [JnTracks -> 0..2]
  OBVIOUS
<1> USE DEF JnSoundInv
<1>a. /\ jnPlays \in [JnTracks -> 0..2]
      /\ \A t \in JnTracks : jnPlays[t] \in {0, 1}
  BY DEF JnTypeOK
<1>b. /\ JnMountAudio \in [JnTracks -> 0..2]
      /\ \A t \in JnTracks : JnMountAudio[t] = IF t \in jnSubs THEN 1 ELSE 0
  BY DEF JnMountAudio
<1>1. CASE /\ UNCHANGED <<jnPlays, jnSubs>>
           /\ (jnScreen = "room") <=> (jnScreen' = "room")
  BY <1>1, <1>a
<1>2. CASE /\ jnSubs' = jnSubs /\ jnPlays' = JnMountAudio /\ jnScreen' = "room"
  BY <1>2, <1>b
<1>3. CASE JnCallStep
  <2>1. CASE JnConnected
    BY <1>1, <1>2, <2>1 DEF JnConnected, JnShow
  <2>2. CASE JnConnectFails
    BY <1>1, <2>2 DEF JnConnectFails, jnCall
  <2>3. ASSUME NEW d \in Devices, JnPublished(d)
        PROVE  JnSoundInv' /\ jnPlays' \in [JnTracks -> 0..2]
    BY <1>1, <1>2, <2>3 DEF JnPublished, JnShow
  <2>4. ASSUME NEW d \in Devices, JnPublishFails(d)
        PROVE  JnSoundInv' /\ jnPlays' \in [JnTracks -> 0..2]
    BY <1>1, <2>4 DEF JnPublishFails
  <2>5. ASSUME NEW t \in JnTracks, JnSubscribed(t)
        PROVE  JnSoundInv' /\ jnPlays' \in [JnTracks -> 0..2]
    <3>1. /\ t \notin jnSubs /\ jnSubs' = jnSubs \cup {t} /\ jnScreen' = jnScreen
          /\ jnPlays' = IF jnScreen = "room" THEN [jnPlays EXCEPT ![t] = @ + 1] ELSE jnPlays
      BY <2>5 DEF JnSubscribed
    <3>2. QED
      BY <1>a, <3>1
  <2>6. ASSUME NEW t \in JnTracks, JnUnsubscribed(t)
        PROVE  JnSoundInv' /\ jnPlays' \in [JnTracks -> 0..2]
    BY <1>a, <2>6 DEF JnUnsubscribed
  <2>7. CASE JnLeave
    BY <2>7 DEF JnLeave
  <2>8. QED
    BY <1>3, <2>1, <2>2, <2>3, <2>4, <2>5, <2>6, <2>7 DEF JnCallStep
<1>4. CASE (\E d \in Devices : JnToggle(d)) \/ JnTypeName \/ JnToken \/ JnRefused
           \/ \E i \in JnAsks : JnGranted(i) \/ JnDenied(i)
  BY <1>1, <1>4 DEF JnToggle, JnTypeName, JnToken, JnRefused, JnGranted, JnDenied, jnCall
<1>5. CASE JnJoin \/ JnAgain
  BY <1>1, <1>5 DEF JnJoin, JnAgain
<1>6. CASE UNCHANGED jnVars
  BY <1>1, <1>6 DEF jnVars, jnCall
<1>7. QED
  BY <1>3, <1>4, <1>5, <1>6, JnNextSplits

\* Each variable keeps its type; how often an element plays is what the sound says.
LEMMA JnTypeStep ==
    JnTypeOK /\ JnSoundInv /\ [JnNext]_jnVars => JnTypeOK'
<1> SUFFICES ASSUME JnTypeOK, JnSoundInv, [JnNext]_jnVars PROVE JnTypeOK'
  OBVIOUS
<1> USE JnFields
<1>a. jnPlays' \in [JnTracks -> 0..2]
  BY JnSoundStep
<1>b. /\ jnAsked \in [JnAsks -> JnAskType] /\ jnForm \in JnFormType
      /\ jnTouched \in [preview : BOOLEAN, toggles : BOOLEAN]
      /\ jnOn \in SUBSET Devices /\ jnWant \in SUBSET Devices /\ jnStream \in SUBSET Devices
      /\ jnStray \in BOOLEAN /\ jnLink \in BOOLEAN /\ jnSubs \in SUBSET JnTracks
      /\ jnPub \in [Devices -> {"off", "pending", "live", "failed"}]
      /\ jnScreen \in {"lobby", "connecting", "error", "room", "left"}
  BY DEF JnTypeOK, JnAskType, JnFormType
<1> DEFINE LobbyOK ==
             /\ jnOn \in SUBSET Devices
             /\ jnAsked \in [JnAsks -> JnAskType]
             /\ jnStream \in SUBSET Devices
             /\ jnStray \in BOOLEAN
             /\ jnForm \in JnFormType
             /\ jnTouched \in [preview : BOOLEAN, toggles : BOOLEAN]
           CallOK ==
             /\ jnScreen \in {"lobby", "connecting", "error", "room", "left"}
             /\ jnWant \in SUBSET Devices
             /\ jnPub \in [Devices -> {"off", "pending", "live", "failed"}]
             /\ jnLink \in BOOLEAN
             /\ jnSubs \in SUBSET JnTracks
<1>c. LobbyOK' /\ CallOK' => JnTypeOK'
  BY <1>a DEF JnTypeOK, JnAskType, JnFormType
<1>d. LobbyOK /\ CallOK
  BY <1>b
<1>1. ASSUME NEW d \in Devices, JnToggle(d) PROVE LobbyOK' /\ CallOK'
  <2>1. /\ jnOn' \in SUBSET Devices
        /\ jnTouched' \in [preview : BOOLEAN, toggles : BOOLEAN]
    BY <1>1, <1>b DEF JnToggle, JnFormType
  <2>2. jnAsked' \in [JnAsks -> JnAskType]
    <3>1. CASE jnOn' = {}
      BY <1>1, <3>1, JnCancelling DEF JnToggle
    <3>2. CASE jnOn' # {}
      <4>1. PICK i \in JnAsks :
               jnAsked' = [JnCancelled EXCEPT ![i] = [for |-> jnOn', live |-> TRUE]]
        BY <1>1, <3>2 DEF JnToggle
      <4>2. [for |-> jnOn', live |-> TRUE] \in JnAskType
        BY <2>1 DEF JnAskType
      <4>3. QED
        BY <4>1, <4>2, JnCancelling
    <3>3. QED
      BY <3>1, <3>2
  <2>3. QED
    BY <1>1, <1>b, <2>1, <2>2 DEF JnToggle, jnCall
<1>2. ASSUME NEW i \in JnAsks, JnGranted(i) PROVE LobbyOK' /\ CallOK'
  <2>1. jnAsked' \in [JnAsks -> JnAskType]
    BY <1>2, <1>b DEF JnGranted
  <2>2. jnStream' \in SUBSET Devices /\ jnStray' \in BOOLEAN
    BY <1>2, <1>b DEF JnGranted, JnAskType
  <2>3. QED
    BY <1>2, <1>b, <2>1, <2>2 DEF JnGranted, jnCall
<1>3. ASSUME NEW i \in JnAsks, JnDenied(i) PROVE LobbyOK' /\ CallOK'
  <2>1. jnAsked' \in [JnAsks -> JnAskType]
    BY <1>3, <1>b DEF JnDenied
  <2>2. jnTouched' \in [preview : BOOLEAN, toggles : BOOLEAN]
    BY <1>3, <1>b DEF JnDenied, JnAskType
  <2>3. QED
    BY <1>3, <1>b, <2>1, <2>2 DEF JnDenied, jnCall
<1>4. CASE JnTypeName \/ JnRefused
  <2>1. jnForm' \in JnFormType
    BY <1>4, <1>b DEF JnTypeName, JnRefused, JnFormType
  <2>2. QED
    BY <1>c, <1>4, <1>b, <2>1 DEF JnTypeName, JnRefused, jnCall
<1>5. CASE JnJoin
  <2>1. jnForm' \in JnFormType
    <3>1. ASSUME NEW form \in JnFormType
          PROVE  /\ [form EXCEPT !.busy = TRUE, !.error = "none"] \in JnFormType
                 /\ [form EXCEPT !.error = "name"] \in JnFormType
      BY DEF JnFormType
    <3>2. jnForm' \in {[jnForm EXCEPT !.busy = TRUE, !.error = "none"],
                      [jnForm EXCEPT !.error = "name"]}
      BY <1>5 DEF JnJoin
    <3>3. QED
      BY <1>b, <3>1, <3>2
  <2>2. /\ jnStream' \in SUBSET Devices /\ jnWant' \in SUBSET Devices
        /\ jnTouched' \in [preview : BOOLEAN, toggles : BOOLEAN]
        /\ UNCHANGED <<jnOn, jnAsked, jnStray, jnScreen, jnPub, jnLink, jnSubs>>
    <3>1. [preview |-> TRUE, toggles |-> FALSE] \in [preview : BOOLEAN, toggles : BOOLEAN]
      OBVIOUS
    <3>2. CASE jnForm.named
      BY <1>5, <1>b, <3>1, <3>2 DEF JnJoin
    <3>3. CASE ~jnForm.named
      BY <1>5, <1>b, <3>3 DEF JnJoin
    <3>4. QED
      BY <3>2, <3>3
  <2>3. QED
    BY <1>c, <1>b, <2>1, <2>2
<1>6. CASE JnToken
  <2>1. jnForm' \in JnFormType
    BY <1>6, <1>b DEF JnToken, JnFormType
  <2>2. QED
    BY <1>c, <1>6, <1>b, <2>1, JnCancelling DEF JnToken, jnCall
<1>7. CASE JnAgain
  <2>1. jnForm' \in JnFormType
    BY <1>7, <1>b DEF JnAgain, JnFormType
  <2>2. QED
    BY <1>c, <1>7, <1>b, <2>1 DEF JnAgain
<1>8. CASE JnCallStep
  <2>1. LobbyOK' /\ jnWant' = jnWant
    BY <1>8, <1>d, JnCallLeavesLobby DEF jnLobby
  <2>2. CASE JnConnected \/ JnConnectFails
    BY <1>c, <2>1, <2>2, <1>b DEF JnConnected, JnConnectFails, JnShow, jnCall
  <2>3. ASSUME NEW d \in Devices, JnPublished(d) \/ JnPublishFails(d) PROVE LobbyOK' /\ CallOK'
    BY <2>1, <2>3, <1>b DEF JnPublished, JnPublishFails, JnShow
  <2>4. ASSUME NEW t \in JnTracks, JnSubscribed(t) \/ JnUnsubscribed(t) PROVE LobbyOK' /\ CallOK'
    BY <2>1, <2>4, <1>b DEF JnSubscribed, JnUnsubscribed
  <2>5. CASE JnLeave
    BY <1>c, <2>1, <2>5, <1>b DEF JnLeave
  <2>6. QED
    BY <1>c, <1>8, <2>2, <2>3, <2>4, <2>5 DEF JnCallStep
<1>9. CASE UNCHANGED jnVars
  BY <1>c, <1>9, <1>d DEF jnVars, jnLobby, jnCall
<1>10. QED
  BY <1>c, <1>1, <1>2, <1>3, <1>4, <1>5, <1>6, <1>7, <1>8, <1>9, JnNextSplits

LEMMA JnInvariant == JnInit /\ [][JnNext]_jnVars => []JnInv
<1>1. JnInv /\ [JnNext]_jnVars => JnInv'
  BY JnTypeStep, JnLobbyStep, JnWantedStep, JnSoundStep DEF JnInv
<1>2. QED
  BY <1>1, JnInitially, PTL

\* What the devices do and who is heard, from the invariant.
LEMMA JnShows == JnInv => JnTypeOK /\ JnPreview /\ JnRoomIsLive /\ JnHeard
<1> SUFFICES ASSUME JnInv PROVE JnTypeOK /\ JnPreview /\ JnRoomIsLive /\ JnHeard
  OBVIOUS
<1>1. JnTypeOK /\ JnPreview
  BY DEF JnInv
<1>2. JnRoomIsLive
  BY DEF JnInv, JnCallInv, JnRoomIsLive
<1>3. JnHeard
  BY DEF JnInv, JnSoundInv, JnHeard
<1>4. QED
  BY <1>1, <1>2, <1>3

----
(* Live transcription.                                                      *)

\* A build goes on only while transcription is on, and has captured the microphone
\* that is published, unless that changed since.
TrInv ==
    /\ TrTypeOK
    /\ TrPipeline
    /\ TrAwaiting => trOn
    /\ ~trSwitched => \A i \in DOMAIN trBuilds : trBuilds[i].live => trBuilds[i].mic = trMic

TrJobs == [mic : TrMics, live : BOOLEAN]

LEMMA TrInitially == TrInit => TrInv
<1> SUFFICES ASSUME TrInit PROVE TrInv
  OBVIOUS
<1>1. TrTypeOK
  <2>1. \A S : <<>> \in Seq(S)
    OBVIOUS
  <2>2. trBuilds \in Seq([mic : TrMics, live : BOOLEAN]) /\ trText \in Seq({"mine", "remote"})
    BY <2>1 DEF TrInit
  <2>3. QED
    BY <2>2 DEF TrInit, TrTypeOK
<1>2. DOMAIN trBuilds = {}
  BY DEF TrInit
<1>3. QED
  BY <1>1, <1>2 DEF TrInit, TrInv, TrPipeline, TrHearsTheMic, TrAwaiting

\* One more build is awaited for a microphone, and none without one.
LEMMA TrBuilding ==
    ASSUME TrTypeOK, NEW mic \in TrMics \cup {NoMic}, TrBuild(mic, trBuilds)
    PROVE  /\ trBuilds' \in Seq(TrJobs)
           /\ trLoading' \in BOOLEAN
           /\ trModel' \in {"none", "loading", "ready"}
           /\ mic = NoMic => trBuilds' = trBuilds
           /\ mic # NoMic => TrAwaiting'
           /\ \A i \in DOMAIN trBuilds' : \/ i \in DOMAIN trBuilds /\ trBuilds'[i] = trBuilds[i]
                                          \/ trBuilds'[i].mic = mic /\ mic # NoMic
<1>1. CASE mic = NoMic
  BY <1>1 DEF TrTypeOK, TrBuild, TrJobs
<1>2. CASE mic # NoMic
  <2> DEFINE job == [mic |-> mic, live |-> TRUE]
  <2>1. /\ trBuilds' = Append(trBuilds, job) /\ trLoading' = TRUE
        /\ trModel' = IF trModel = "none" THEN "loading" ELSE trModel
    BY <1>2 DEF TrBuild
  <2>2. job \in TrJobs /\ trBuilds \in Seq(TrJobs) /\ job.mic = mic /\ job.live = TRUE
    BY <1>2 DEF TrTypeOK, TrJobs
  <2> HIDE DEF job
  <2>3. /\ trBuilds' \in Seq(TrJobs)
        /\ DOMAIN trBuilds' = 1..Len(trBuilds) + 1 /\ DOMAIN trBuilds = 1..Len(trBuilds)
        /\ trBuilds'[Len(trBuilds) + 1] = job
        /\ \A i \in DOMAIN trBuilds : trBuilds'[i] = trBuilds[i]
    BY <2>1, <2>2
  <2>4. Len(trBuilds) \in Nat
    BY <2>2
  <2>5. TrAwaiting'
    BY <2>2, <2>3, <2>4 DEF TrAwaiting
  <2>6. \A i \in DOMAIN trBuilds' : \/ i \in DOMAIN trBuilds /\ trBuilds'[i] = trBuilds[i]
                                    \/ trBuilds'[i].mic = mic /\ mic # NoMic
    BY <1>2, <2>2, <2>3, <2>4
  <2>7. QED
    BY <1>2, <2>1, <2>3, <2>5, <2>6 DEF TrTypeOK
<1>3. QED
  BY <1>1, <1>2

\* A cancelled build stays in the queue and is awaited no more.
LEMMA TrCancelling ==
    ASSUME TrTypeOK
    PROVE  /\ TrCancelled \in Seq(TrJobs)
           /\ \A i \in DOMAIN TrCancelled : ~TrCancelled[i].live
<1>1. trBuilds \in Seq(TrJobs)
  BY DEF TrTypeOK, TrJobs
<1>2. \A i \in DOMAIN trBuilds : trBuilds[i] \in TrJobs
  BY <1>1
<1>3. \A i \in DOMAIN trBuilds : [trBuilds[i] EXCEPT !.live = FALSE] \in TrJobs
                                 /\ ~[trBuilds[i] EXCEPT !.live = FALSE].live
  BY <1>2 DEF TrJobs
<1>4. DOMAIN trBuilds = 1..Len(trBuilds) /\ Len(trBuilds) \in Nat
  BY <1>1
<1>5. TrCancelled \in [1..Len(trBuilds) -> TrJobs]
  BY <1>3, <1>4 DEF TrCancelled
<1>6. TrCancelled \in Seq(TrJobs)
  BY <1>4, <1>5
<1>7. QED
  BY <1>3, <1>4, <1>6 DEF TrCancelled

\* The first build nobody cancelled, if there is one.
LEMMA TrFirstLive ==
    ASSUME TrTypeOK
    PROVE  IF TrAwaiting
           THEN \E i \in DOMAIN trBuilds : trBuilds[i].live /\ TrFirst(trBuilds) = trBuilds[i].mic
           ELSE TrFirst(trBuilds) = NoMic
<1> DEFINE live == {i \in DOMAIN trBuilds : trBuilds[i].live}
           first == CHOOSE i \in live : \A j \in live : i <= j
<1>1. CASE TrAwaiting
  <2>1. live \in SUBSET Nat /\ live # {}
    BY <1>1 DEF TrAwaiting, TrTypeOK
  <2>2. \E i \in live : \A j \in live : i <= j
    BY <2>1, LeastNat
  <2>3. first \in live
    BY <2>2
  <2>4. TrFirst(trBuilds) = trBuilds[first].mic
    BY <2>1 DEF TrFirst
  <2> HIDE DEF first
  <2>5. QED
    BY <1>1, <2>3, <2>4
<1>2. CASE ~TrAwaiting
  BY <1>2 DEF TrAwaiting, TrFirst
<1>3. QED
  BY <1>1, <1>2

LEMMA TrStep == TrInv /\ [TrNext]_trVars => TrInv'
<1> SUFFICES ASSUME TrInv, [TrNext]_trVars PROVE TrInv'
  OBVIOUS
<1>a. trBuilds \in Seq(TrJobs) /\ <<>> \in Seq(TrJobs) /\ DOMAIN <<>> = {}
      /\ Seq(TrJobs) = Seq([mic : TrMics, live : BOOLEAN])
  BY DEF TrInv, TrTypeOK, TrJobs
<1>b. \A i \in DOMAIN trBuilds : trBuilds[i].mic \in TrMics
  <2>1. \A i \in DOMAIN trBuilds : trBuilds[i] \in TrJobs
    BY <1>a
  <2>2. QED
    BY <2>1 DEF TrJobs
<1>c. TrTypeOK
  BY DEF TrInv
<1>1. CASE TrToggle
  <2>1. CASE trOn
    <3>1. /\ trFailed' = FALSE /\ trOn' = FALSE /\ trPipe' = NoMic /\ trBuilds' = TrCancelled
          /\ trSwitched' = FALSE /\ UNCHANGED <<trLoading, trModel, trMic, trText>>
      BY <1>1, <2>1 DEF TrToggle, TrInv, TrTypeOK
    <3>2. QED
      BY <1>a, <1>c, <3>1, TrCancelling DEF TrInv, TrTypeOK, TrPipeline, TrHearsTheMic, TrAwaiting
  <2>2. CASE ~trOn
    <3>1. /\ trFailed' = FALSE /\ trOn' = TRUE /\ trPipe' = NoMic /\ TrBuild(trMic, trBuilds)
          /\ trSwitched' = FALSE /\ UNCHANGED <<trMic, trText>>
      BY <1>1, <2>2 DEF TrToggle, TrInv, TrTypeOK
    <3>2. trMic \in TrMics \cup {NoMic}
      BY <1>c DEF TrTypeOK
    <3>3. TrTypeOK' /\ TrPipeline'
      BY <1>a, <1>c, <3>1, <3>2, TrBuilding DEF TrTypeOK, TrPipeline, TrHearsTheMic
    <3>4. \A i \in DOMAIN trBuilds' : trBuilds'[i].live => trBuilds'[i].mic = trMic
      BY <1>c, <2>2, <3>1, <3>2, TrBuilding DEF TrInv, TrAwaiting
    <3>5. QED
      BY <3>1, <3>3, <3>4 DEF TrInv
  <2>3. QED
    BY <2>1, <2>2
<1>2. ASSUME NEW mic \in TrMics, TrPublished(mic) PROVE TrInv'
  <2>1. /\ trMic' = mic /\ trPipe' = NoMic /\ trSwitched' = (trSwitched \/ TrAwaiting)
        /\ UNCHANGED <<trOn, trFailed, trText>> /\ mic # NoMic /\ mic \in TrMics \cup {NoMic}
    BY <1>2, TrAssumption DEF TrPublished
  <2>2. CASE trOn
    <3>1. TrBuild(mic, trBuilds)
      BY <1>2, <2>2 DEF TrPublished
    <3>2. TrTypeOK' /\ TrPipeline'
      BY <1>a, <1>c, <2>1, <3>1, TrBuilding DEF TrTypeOK, TrPipeline, TrHearsTheMic
    <3>3. ~trSwitched' => \A i \in DOMAIN trBuilds' : trBuilds'[i].live => trBuilds'[i].mic = trMic'
      BY <1>c, <2>1, <3>1, TrBuilding DEF TrAwaiting
    <3>4. QED
      BY <2>1, <2>2, <3>2, <3>3 DEF TrInv
  <2>3. CASE ~trOn
    <3>1. UNCHANGED <<trBuilds, trLoading, trModel>>
      BY <1>2, <2>3 DEF TrPublished
    <3>2. QED
      BY <2>1, <2>3, <3>1 DEF TrInv, TrTypeOK, TrPipeline, TrHearsTheMic, TrAwaiting
  <2>4. QED
    BY <2>2, <2>3
<1>3. CASE TrUnpublished
  BY <1>3 DEF TrUnpublished, TrInv, TrTypeOK, TrPipeline, TrHearsTheMic, TrAwaiting
<1>4. CASE TrLoaded
  <2>1. /\ trModel' = "ready" /\ trBuilds' = <<>> /\ trLoading' \in BOOLEAN
        /\ trPipe' = IF trPipe = NoMic THEN TrFirst(trBuilds) ELSE trPipe
        /\ UNCHANGED <<trOn, trFailed, trMic, trText, trSwitched>>
    BY <1>4, <1>c DEF TrLoaded, TrTypeOK
  <2>2. ~TrAwaiting'
    BY <1>a, <2>1 DEF TrAwaiting
  <2>3. trPipe' \in TrMics \cup {NoMic}
    BY <1>b, <1>c, <2>1, TrFirstLive DEF TrTypeOK
  <2>4. TrTypeOK'
    BY <1>a, <1>c, <2>1, <2>3 DEF TrTypeOK
  <2>5. trPipe' # NoMic => trOn
    BY <1>c, <2>1, TrFirstLive DEF TrInv, TrPipeline
  <2>6. ~trSwitched /\ trPipe' # NoMic => trPipe' = trMic
    BY <1>c, <2>1, TrFirstLive DEF TrInv, TrPipeline, TrHearsTheMic
  <2>7. trOn /\ trMic # NoMic => trPipe' # NoMic
    BY <1>b, <1>c, <2>1, TrFirstLive, TrAssumption DEF TrInv, TrPipeline
  <2>8. QED
    BY <1>a, <2>1, <2>2, <2>4, <2>5, <2>6, <2>7 DEF TrInv, TrPipeline, TrHearsTheMic
<1>5. CASE TrLoadFails
  <2>1. trModel' = "none" /\ trBuilds' = <<>> /\ UNCHANGED <<trMic, trText, trSwitched>>
    BY <1>5 DEF TrLoadFails
  <2>2. CASE TrAwaiting
    BY <1>5, <1>a, <2>1, <2>2 DEF TrLoadFails, TrInv, TrTypeOK, TrPipeline, TrHearsTheMic, TrAwaiting
  <2>3. CASE ~TrAwaiting
    BY <1>5, <1>a, <2>1, <2>3 DEF TrLoadFails, TrInv, TrTypeOK, TrPipeline, TrHearsTheMic, TrAwaiting
  <2>4. QED
    BY <2>2, <2>3
<1>6. ASSUME NEW whose \in {"mine", "remote"}, TrSegment(whose) PROVE TrInv'
  BY <1>6 DEF TrSegment, TrInv, TrTypeOK, TrPipeline, TrHearsTheMic, TrAwaiting
<1>7. CASE TrClear
  BY <1>7 DEF TrClear, TrInv, TrTypeOK, TrPipeline, TrHearsTheMic, TrAwaiting
<1>8. CASE UNCHANGED trVars
  BY <1>8 DEF trVars, TrInv, TrTypeOK, TrPipeline, TrHearsTheMic, TrAwaiting
<1>9. QED
  BY <1>1, <1>2, <1>3, <1>4, <1>5, <1>6, <1>7, <1>8 DEF TrNext

LEMMA TrInvariant == TrInit /\ [][TrNext]_trVars => []TrInv
BY TrInitially, TrStep, PTL

----
(* Screen sharing.                                                          *)

\* Of two who have begun to share, one began without having seen the other; a share
\* is begun by asking.
ShInv ==
    /\ ShTypeOK
    /\ \A u, v \in ShUsers :
          u # v /\ shState[u] # "off" /\ shState[v] # "off" => {u, v} \cap shBlind # {}

LEMMA ShInitially == ShInit => ShInv
BY DEF ShInit, ShInv, ShTypeOK

LEMMA ShStep == ShInv /\ [ShNext]_shVars => ShInv'
<1> SUFFICES ASSUME ShInv, [ShNext]_shVars PROVE ShInv'
  OBVIOUS
<1> USE DEF ShInv, ShTypeOK
<1>1. ASSUME NEW u \in ShUsers, ShPresent(u) PROVE ShInv'
  <2>1. shState' \in [ShUsers -> {"off", "asking", "on"}] /\ shBlind' \in SUBSET ShUsers
    BY <1>1 DEF ShPresent
  <2>2. ASSUME NEW v \in ShUsers, v # u, shState[v] # "off" PROVE u \in shBlind'
    BY <1>1, <2>2 DEF ShPresent, ShMayPresent
  <2>3. ASSUME NEW v \in ShUsers, NEW w \in ShUsers, v # w,
               shState'[v] # "off", shState'[w] # "off"
        PROVE  {v, w} \cap shBlind' # {}
    <3>1. CASE v = u \/ w = u
      BY <1>1, <2>2, <2>3, <3>1 DEF ShPresent
    <3>2. CASE v # u /\ w # u
      <4>1. {v, w} \cap shBlind # {}
        BY <1>1, <2>3, <3>2 DEF ShPresent
      <4>2. QED
        BY <1>1, <3>2, <4>1 DEF ShPresent
    <3>3. QED
      BY <3>1, <3>2
  <2>4. QED
    BY <1>1, <2>1, <2>3 DEF ShPresent
<1>2. ASSUME NEW u \in ShUsers, ShPicked(u) PROVE ShInv'
  BY <1>2 DEF ShPicked
<1>3. ASSUME NEW u \in ShUsers, ShHear(u) PROVE ShInv'
  BY <1>3 DEF ShHear
<1>4. ASSUME NEW u \in ShUsers, ShAskStop(u) PROVE ShInv'
  BY <1>4 DEF ShAskStop
<1>5. ASSUME NEW u \in ShUsers, ShConfirmStop(u) PROVE ShInv'
  BY <1>5 DEF ShConfirmStop, ShStopped
<1>6. ASSUME NEW u \in ShUsers, ShDialogCloses(u) PROVE ShInv'
  BY <1>6 DEF ShDialogCloses
<1>7. ASSUME NEW u \in ShUsers, ShNativeStop(u) PROVE ShInv'
  BY <1>7 DEF ShNativeStop
<1>8. CASE UNCHANGED shVars
  BY <1>8 DEF shVars
<1>9. QED
  BY <1>1, <1>2, <1>3, <1>4, <1>5, <1>6, <1>7, <1>8 DEF ShNext

LEMMA ShInvariant == ShInit /\ [][ShNext]_shVars => []ShInv
BY ShInitially, ShStep, PTL

\* No step asks for the share of a user whose dialog is open.
LEMMA ShNeverStarts ==
    ShInv /\ [ShNext]_shVars =>
        [\A u \in ShUsers : u \in shDialog /\ shState[u] # "asking" => shState'[u] # "asking"]_shVars
<1> SUFFICES ASSUME ShInv, [ShNext]_shVars, NEW v \in ShUsers, v \in shDialog,
                    shState[v] # "asking", shState' # shState
             PROVE  shState'[v] # "asking"
  BY DEF shVars
<1> USE DEF ShInv, ShTypeOK
<1>1. ASSUME NEW u \in ShUsers, ShPresent(u) PROVE shState'[v] # "asking"
  BY <1>1 DEF ShPresent, ShMayPresent
<1>2. ASSUME NEW u \in ShUsers, ShPicked(u) PROVE shState'[v] # "asking"
  BY <1>2 DEF ShPicked
<1>3. ASSUME NEW u \in ShUsers, ShConfirmStop(u) PROVE shState'[v] # "asking"
  BY <1>3 DEF ShConfirmStop, ShStopped
<1>4. ASSUME NEW u \in ShUsers, ShNativeStop(u) PROVE shState'[v] # "asking"
  BY <1>4 DEF ShNativeStop
<1>5. QED
  BY <1>1, <1>2, <1>3, <1>4 DEF ShNext, ShHear, ShAskStop, ShDialogCloses, shVars

----
(* The mini window.                                                         *)

\* An opening is under way only while no window is held, and by the call that is
\* mounted if it is still its own; what is open was opened by somebody.
MwInv ==
    /\ MwTypeOK
    /\ MwNoOrphan
    /\ mwAsked.by = "none" => mwAsked = NoAsking
    /\ mwWindow.by = "none" => mwWindow = NoWindow
    /\ mwAsked # NoAsking => ~mwRef
    /\ mwAsked.mine => mwCall

\* An asking and a window tell by their first field whether there is one.
LEMMA MwFields ==
    /\ NoAsking \in [by : {"none", "auto", "user"}, mine : BOOLEAN]
    /\ NoAsking.by = "none" /\ ~NoAsking.mine
    /\ NoWindow \in [by : {"none", "auto", "user"}, confirm : BOOLEAN]
    /\ NoWindow.by = "none" /\ ~NoWindow.confirm
BY DEF NoAsking, NoWindow

LEMMA MwInitially == MwInit => MwInv
BY MwFields DEF MwInit, MwInv, MwTypeOK, MwNoOrphan

LEMMA MwStep == MwInv /\ [MwNext]_mwVars => MwInv'
<1> SUFFICES ASSUME MwInv, [MwNext]_mwVars PROVE MwInv'
  OBVIOUS
<1> USE MwFields DEF MwInv, MwTypeOK, MwNoOrphan
<1>1. ASSUME NEW by \in {"auto", "user"}, MwOpen(by) PROVE MwInv'
  BY <1>1 DEF MwOpen
<1>2. CASE MwOpened
  <2>1. mwAsked.by \in {"auto", "user"} /\ ~mwRef /\ mwAsked' = NoAsking
        /\ UNCHANGED <<mwCall, mwVisible>>
    BY <1>2 DEF MwOpened
  <2>2. CASE MwKeeps
    <3>1. /\ mwWindow' = [by |-> mwAsked.by, confirm |-> FALSE]
          /\ mwRef' = mwAsked.mine /\ mwLost' = ~mwAsked.mine
      BY <1>2, <2>1, <2>2 DEF MwOpened
    <3>2. /\ mwWindow'.by = mwAsked.by /\ mwWindow' # NoWindow
          /\ mwWindow' \in [by : {"none", "auto", "user"}, confirm : BOOLEAN]
      BY <2>1, <3>1
    <3>3. QED
      BY <2>1, <2>2, <3>1, <3>2 DEF MwKeeps
  <2>3. CASE ~MwKeeps
    <3>1. mwWindow' = NoWindow /\ mwRef' = FALSE /\ mwLost' = FALSE
      BY <1>2, <2>1, <2>3 DEF MwOpened
    <3>2. QED
      BY <2>1, <3>1
  <2>4. QED
    BY <2>2, <2>3
<1>3. CASE MwDenied
  BY <1>3 DEF MwDenied
<1>4. CASE MwClosed
  BY <1>4 DEF MwClosed
<1>5. CASE MwHide
  BY <1>5 DEF MwHide
<1>6. CASE MwReturn
  BY <1>6 DEF MwReturn
<1>7. CASE MwEnd
  BY <1>7 DEF MwEnd
<1>8. CASE MwNextCall
  BY <1>8 DEF MwNextCall
<1>9. CASE MwConfirm
  BY <1>9 DEF MwConfirm
<1>10. CASE MwLeave
  BY <1>10 DEF MwLeave
<1>11. CASE UNCHANGED mwVars
  BY <1>11 DEF mwVars
<1>12. QED
  BY <1>1, <1>2, <1>3, <1>4, <1>5, <1>6, <1>7, <1>8, <1>9, <1>10, <1>11 DEF MwNext

LEMMA MwInvariant == MwInit /\ [][MwNext]_mwVars => []MwInv
BY MwInitially, MwStep, PTL

----
(* Timed notices.                                                           *)

NtInv == NtTypeOK /\ NtOwnTimer

LEMMA NtInitially == NtInit => NtInv
BY NtAssumption DEF NtInit, NtInv, NtTypeOK, NtOwnTimer

\* A notice that is shown has its timers, and nothing else runs.
LEMMA NtShowing == 
    ASSUME NtInv, NEW n \in NtNotices, NtShow(n)
    PROVE  NtInv'
<1> USE NtAssumption
<1>1. /\ ntShown' = n /\ ntAge' = 0 /\ ntKind' = ntKind
      /\ ntTimers' = NtTimesOf(ntKind)
  BY DEF NtShow, NtRestart
<1>2. NtTimesOf(ntKind) \in SUBSET (1..NtSpan + 1)
  BY DEF NtTimesOf
<1>3. NtTimesOf(ntKind) = {t - 0 : t \in NtTimesOf(ntKind)}
  BY <1>2
<1>4. QED
  BY <1>1, <1>2, <1>3 DEF NtInv, NtTypeOK, NtOwnTimer

LEMMA NtClearing == NtInv /\ NtCleared => NtInv'
BY NtAssumption DEF NtInv, NtTypeOK, NtOwnTimer, NtCleared

LEMMA NtStep == NtInv /\ [NtNext]_ntVars => NtInv'
<1> SUFFICES ASSUME NtInv, [NtNext]_ntVars PROVE NtInv'
  OBVIOUS
<1>1. ASSUME NEW n \in NtNotices, NtMuted(n) \/ NtMoment(n) \/ NtInvited(n) \/ NtDeviceFails(n)
      PROVE  NtInv'
  BY <1>1, NtShowing DEF NtMuted, NtMoment, NtInvited, NtDeviceFails
<1>2. CASE NtDismiss \/ NtUnmount
  BY <1>2, NtClearing DEF NtDismiss, NtUnmount
<1>3. CASE NtTick
  <2>1. CASE 1 \in ntTimers
    BY <1>3, <2>1, NtClearing DEF NtTick
  <2>2. CASE 1 \notin ntTimers
    <3> USE NtAssumption
    <3>1. /\ ntTimers # {} /\ ntTimers' = {t - 1 : t \in ntTimers}
          /\ ntAge' = ntAge + 1 /\ ntShown' = ntShown /\ ntKind' = ntKind
      BY <1>3, <2>2 DEF NtTick
    <3>2. ntShown # NoNotice /\ ntTimers = {t - ntAge : t \in NtTimesOf(ntKind)}
      BY <3>1 DEF NtInv, NtOwnTimer
    <3>3. ntAge \in Nat /\ ntAge < NtSpan
      BY DEF NtInv, NtTypeOK, NtOwnTimer
    <3>4. NtSpan \in NtTimesOf(ntKind) /\ NtTimesOf(ntKind) \subseteq {NtSpan, NtSpan + 1}
      BY DEF NtTimesOf
    <3>5. NtSpan - ntAge # 1
      BY <2>2, <3>2, <3>4
    <3>6. ntAge' < NtSpan /\ ntAge' \in 0..NtSpan + 1
      BY <3>1, <3>3, <3>5
    <3>7. ntTimers' = {t - ntAge' : t \in NtTimesOf(ntKind)}
      <4>1. \A t \in NtTimesOf(ntKind) : t - ntAge - 1 = t - ntAge'
        BY <3>1, <3>3, <3>4
      <4>2. ntTimers' = {t - ntAge - 1 : t \in NtTimesOf(ntKind)}
        BY <3>1, <3>2
      <4>3. QED
        BY <4>1, <4>2
    <3>8. ntTimers' \in SUBSET (1..NtSpan + 1)
      BY <3>4, <3>6, <3>7
    <3>9. QED
      BY <3>1, <3>2, <3>6, <3>7, <3>8 DEF NtInv, NtTypeOK, NtOwnTimer
  <2>3. QED
    BY <2>1, <2>2
<1>4. CASE UNCHANGED ntVars
  <2>1. UNCHANGED NtTimesOf(ntKind)
    BY <1>4 DEF ntVars, NtTimesOf
  <2>2. QED
    BY <1>4, <2>1 DEF ntVars, NtInv, NtTypeOK, NtOwnTimer
<1>5. QED
  BY <1>1, <1>2, <1>3, <1>4 DEF NtNext

LEMMA NtInvariant == NtInit /\ [][NtNext]_ntVars => []NtInv
BY NtInitially, NtStep, PTL

----
(* Reactions.                                                               *)

RxInv == RxTypeOK /\ RxTimed /\ rxCounter + rxSending <= RxMax

LEMMA RxInitially == RxInit => RxInv
<1> SUFFICES ASSUME RxInit PROVE RxInv
  OBVIOUS
<1>1. rxTimers \in [{} -> Nat] /\ {} \in SUBSET (0..RxMax) /\ DOMAIN rxTimers = {}
  BY DEF RxInit
<1>2. RxTypeOK
  <2>1. 0 \in 0..RxMax
    BY RxAssumption
  <2>2. \E S \in SUBSET (0..RxMax) : rxTimers \in [S -> Nat]
    BY <1>1
  <2>3. QED
    BY <2>1, <2>2 DEF RxInit, RxTypeOK
<1>3. QED
  BY <1>1, <1>2, RxAssumption DEF RxInit, RxInv, RxTimed

\* A reaction is shown together with its timer.
LEMMA RxSpawning ==
    ASSUME RxInv, RxSpawn, rxCounter < RxMax
    PROVE  /\ rxCounter' = rxCounter + 1
           /\ rxActive' = DOMAIN rxTimers'
           /\ rxActive' \in SUBSET (0..RxMax)
           /\ rxTimers' \in [DOMAIN rxTimers \cup {rxCounter} -> Nat]
           /\ DOMAIN rxTimers \cup {rxCounter} \in SUBSET (0..RxMax)
           /\ rxLate' \in SUBSET (0..RxMax)
           /\ ~rxHere => DOMAIN rxTimers' \subseteq rxLate'
<1> USE RxAssumption
<1>1. PICK span \in RxSpans :
         /\ rxCounter' = rxCounter + 1
         /\ rxActive' = rxActive \cup {rxCounter}
         /\ rxTimers' = [r \in DOMAIN rxTimers \cup {rxCounter} |->
                           IF r = rxCounter THEN span ELSE rxTimers[r]]
         /\ rxLate' = IF rxHere THEN rxLate ELSE rxLate \cup {rxCounter}
  BY DEF RxSpawn
<1>2. rxTimers \in [DOMAIN rxTimers -> Nat] /\ rxActive = DOMAIN rxTimers /\ rxCounter \in 0..RxMax
  BY DEF RxInv, RxTypeOK, RxTimed
<1>3. rxTimers' \in [DOMAIN rxTimers \cup {rxCounter} -> Nat]
  BY <1>1, <1>2
<1>4. QED
  BY <1>1, <1>2, <1>3 DEF RxInv, RxTypeOK, RxTimed

LEMMA RxStep == RxInv /\ [RxNext]_rxVars => RxInv'
<1> SUFFICES ASSUME RxInv, [RxNext]_rxVars PROVE RxInv'
  OBVIOUS
<1> USE RxAssumption DEF RxInv, RxTypeOK, RxTimed
<1>1. CASE RxSend
  BY <1>1 DEF RxSend
<1>2. CASE RxSent
  <2>1. rxSending' \in 0..RxMax /\ rxSending' = rxSending - 1 /\ rxHere' = rxHere
    BY <1>2 DEF RxSent
  <2>2. CASE RxSpawn
    <3>1. rxCounter < RxMax
      BY <1>2 DEF RxSent
    <3>2. QED
      BY <2>1, <2>2, <3>1, RxSpawning
  <2>3. CASE UNCHANGED <<rxCounter, rxActive, rxTimers, rxLate>>
    BY <2>1, <2>3
  <2>4. QED
    BY <1>2, <2>2, <2>3 DEF RxSent
<1>3. CASE RxReceive
  <2>1. rxCounter < RxMax /\ RxSpawn /\ rxSending' = rxSending /\ rxHere /\ rxHere'
        /\ rxCounter + 1 + rxSending <= RxMax
    BY <1>3 DEF RxReceive
  <2>2. QED
    BY <2>1, RxSpawning
<1>4. CASE RxTick
  <2>1. rxTimers' \in [DOMAIN rxTimers -> Nat]
    BY <1>4 DEF RxTick
  <2>2. QED
    BY <1>4, <2>1 DEF RxTick
<1>5. ASSUME NEW r \in 0..RxMax, RxExpire(r) PROVE RxInv'
  <2>1. rxTimers' \in [DOMAIN rxTimers \ {r} -> Nat]
    BY <1>5 DEF RxExpire
  <2>2. QED
    BY <1>5, <2>1 DEF RxExpire, RxRemoved
<1>6. CASE RxUnmount
  <2>1. rxTimers' \in [{} -> Nat]
    BY <1>6 DEF RxUnmount
  <2>2. QED
    BY <1>6, <2>1 DEF RxUnmount
<1>7. CASE UNCHANGED rxVars
  BY <1>7 DEF rxVars
<1>8. QED
  BY <1>1, <1>2, <1>3, <1>4, <1>5, <1>6, <1>7 DEF RxNext

LEMMA RxInvariant == RxInit /\ [][RxNext]_rxVars => []RxInv
BY RxInitially, RxStep, PTL

----
(* The camera background.                                                   *)

\* Jobs come in the order of their tracks, the newest track being the live one if any
\* is, and a track that has not been published yet shows nothing.
BgOrdered(chain, used) ==
    /\ \A i \in 1..Len(chain) : chain[i].track <= used
    /\ \A i, j \in 1..Len(chain) : i <= j => chain[i].track <= chain[j].track

BgInv ==
    /\ BgTypeOK
    /\ bgTrack \in {NoTrack, bgUsed}
    /\ BgOrdered(bgChain, bgUsed)
    /\ \A t \in 1..BgTracks : t > bgUsed => bgProc[t] = NoProc

LEMMA BgJobFields ==
    ASSUME NEW track \in 1..BgTracks, NEW id \in BgIds
    PROVE  /\ [track |-> track, id |-> id, at |-> "queued"] \in BgJobs
           /\ [track |-> track, id |-> id, at |-> "queued"].track = track
           /\ [track |-> track, id |-> id, at |-> "queued"].id = id
BY DEF BgJobs, BgPhases

LEMMA BgJobType ==
    ASSUME NEW job \in BgJobs
    PROVE  job.track \in 1..BgTracks /\ job.track \in Nat /\ job.id \in BgIds
<1>1. job.track \in 1..BgTracks /\ job.id \in BgIds
  BY DEF BgJobs
<1>2. QED
  BY <1>1, BgAssumption

\* What one more job makes of a chain.
LEMMA BgChaining ==
    ASSUME NEW chain \in Seq(BgJobs), NEW used \in 0..BgTracks, BgOrdered(chain, used),
           NEW track \in 1..BgTracks, used <= track, NEW id \in BgIds
    PROVE  /\ BgChained(chain, track, id) \in Seq(BgJobs)
           /\ Len(BgChained(chain, track, id)) = Len(chain) + 1
           /\ \A i \in 1..Len(chain) : BgChained(chain, track, id)[i] = chain[i]
           /\ BgChained(chain, track, id)[Len(chain) + 1].track = track
           /\ BgChained(chain, track, id)[Len(chain) + 1].id = id
           /\ BgOrdered(BgChained(chain, track, id), track)
<1> DEFINE job == [track |-> track, id |-> id, at |-> "queued"]
<1>1. job \in BgJobs /\ job.track = track /\ job.id = id
  BY BgJobFields
<1>2. BgChained(chain, track, id) = Append(chain, job)
  BY DEF BgChained
<1> HIDE DEF job
<1>3. /\ Append(chain, job) \in Seq(BgJobs)
      /\ Len(Append(chain, job)) = Len(chain) + 1
      /\ \A i \in 1..Len(chain) : Append(chain, job)[i] = chain[i]
      /\ Append(chain, job)[Len(chain) + 1] = job
  BY <1>1
<1>4. \A i \in 1..Len(chain) : chain[i].track \in Nat
  BY BgJobType
<1>5. BgOrdered(Append(chain, job), track)
  BY <1>1, <1>3, <1>4, BgAssumption DEF BgOrdered
<1>6. QED
  BY <1>1, <1>2, <1>3, <1>5

LEMMA BgMounting ==
    ASSUME NEW live \in 0..BgTracks, NEW saved \in BgIds
    PROVE  /\ BgMounted(live, saved) \in Seq(BgJobs)
           /\ BgOrdered(BgMounted(live, saved), live)
           /\ \/ BgMounted(live, saved) = <<>>
              \/ /\ Len(BgMounted(live, saved)) = 1
                 /\ live # NoTrack
                 /\ BgMounted(live, saved)[1].track = live
                 /\ BgMounted(live, saved)[1].id = saved
<1>1. CASE live = NoTrack \/ saved = BgNone
  BY <1>1 DEF BgMounted, BgOrdered
<1>2. CASE live # NoTrack /\ saved # BgNone
  <2> DEFINE job == [track |-> live, id |-> saved, at |-> "queued"]
  <2>1. live \in 1..BgTracks
    BY <1>2, BgAssumption DEF NoTrack
  <2>2. job \in BgJobs /\ job.track = live /\ job.id = saved
    BY <2>1, BgJobFields
  <2>3. BgMounted(live, saved) = Append(<<>>, job)
    BY <1>2 DEF BgMounted, BgChained
  <2> HIDE DEF job
  <2>4. Append(<<>>, job) = <<job>> /\ <<job>> \in Seq(BgJobs) /\ Len(<<job>>) = 1 /\ <<job>>[1] = job
    BY <2>2
  <2>5. BgOrdered(<<job>>, live)
    BY <2>1, <2>2, <2>4, BgAssumption DEF BgOrdered
  <2>6. QED
    BY <1>2, <2>2, <2>3, <2>4, <2>5
<1>3. QED
  BY <1>1, <1>2

LEMMA BgInitially == BgInit => BgInv
<1> SUFFICES ASSUME BgInit PROVE BgInv
  OBVIOUS
<1>1. /\ bgTrack \in 0..BgTracks /\ bgUsed = bgTrack
      /\ bgChoice \in BgIds /\ bgSaved \in BgIds /\ bgFailed \in BOOLEAN
      /\ bgChain = BgMounted(bgTrack, bgSaved)
  <2>1. bgTrack \in 0..(IF BgTracks = 0 THEN 0 ELSE 1)
    BY DEF BgInit
  <2>2. bgTrack \in 0..BgTracks
    BY <2>1, BgAssumption
  <2>3. QED
    BY <2>2 DEF BgInit
<1>2. /\ bgProc \in [1..BgTracks -> BgIds \cup {NoProc}]
      /\ \A t \in 1..BgTracks : bgProc[t] = NoProc
  BY DEF BgInit
<1>3. QED
  BY <1>1, <1>2, BgMounting DEF BgInv, BgTypeOK

\* The head's await: its job goes, and its track's processor is one of procs.
LEMMA BgSettling ==
    ASSUME BgInv, NEW failed \in BOOLEAN, NEW procs \in SUBSET (BgIds \cup {NoProc}),
           BgSettled(failed, procs)
    PROVE  BgInv'
<1>1. /\ bgChain # <<>> /\ bgChain' = Tail(bgChain)
      /\ \E p \in procs : bgProc' = [bgProc EXCEPT ![Head(bgChain).track] = p]
      /\ bgFailed' \in BOOLEAN
      /\ UNCHANGED <<bgChoice, bgSaved, bgTrack, bgUsed>>
  BY DEF BgSettled, BgInv, BgTypeOK
<1>2. bgChain \in Seq(BgJobs) /\ Len(bgChain) \in Nat \ {0}
  BY <1>1 DEF BgInv, BgTypeOK
<1>3. /\ Tail(bgChain) \in Seq(BgJobs) /\ Len(Tail(bgChain)) = Len(bgChain) - 1
      /\ \A i \in 1..Len(bgChain) - 1 : Tail(bgChain)[i] = bgChain[i + 1]
      /\ Head(bgChain) = bgChain[1]
  BY <1>2
<1>4. bgChain[1].track \in 1..BgTracks /\ bgChain[1].track <= bgUsed
  <2>1. bgChain[1] \in BgJobs /\ 1 \in 1..Len(bgChain)
    BY <1>2
  <2>2. QED
    BY <2>1, BgJobType DEF BgInv, BgOrdered
<1>5. BgOrdered(bgChain', bgUsed')
  <2>1. BgOrdered(Tail(bgChain), bgUsed)
    BY <1>2, <1>3 DEF BgInv, BgOrdered
  <2>2. QED
    BY <1>1, <2>1
<1>6. /\ bgProc' \in [1..BgTracks -> BgIds \cup {NoProc}]
      /\ \A t \in 1..BgTracks : t > bgUsed => bgProc'[t] = NoProc
  BY <1>1, <1>3, <1>4, BgAssumption DEF BgInv, BgTypeOK
<1>7. QED
  BY <1>1, <1>3, <1>5, <1>6 DEF BgInv, BgTypeOK

\* As a job starts, only how far it has come changes.
LEMMA BgStarting ==
    ASSUME bgChain \in Seq(BgJobs), BgStart
    PROVE  /\ bgChain' \in Seq(BgJobs) /\ Len(bgChain') = Len(bgChain)
           /\ \A i \in 1..Len(bgChain) : /\ bgChain'[i].track = bgChain[i].track
                                         /\ bgChain'[i].id = bgChain[i].id
<1>1. bgChain # <<>> /\ Len(bgChain) \in Nat \ {0} /\ Head(bgChain) = bgChain[1]
      /\ bgChain[1] \in BgJobs
  BY DEF BgStart
<1>2. PICK at \in BgPhases : bgChain' = <<[bgChain[1] EXCEPT !.at = at]>> \o Tail(bgChain)
  BY <1>1 DEF BgStart, BgPhase, BgPhases
<1> DEFINE job == [bgChain[1] EXCEPT !.at = at]
<1>3. job \in BgJobs /\ job.track = bgChain[1].track /\ job.id = bgChain[1].id
  BY <1>1 DEF BgJobs
<1>4. bgChain' = <<job>> \o Tail(bgChain)
  BY <1>2
<1> HIDE DEF job
<1>5. /\ Tail(bgChain) \in Seq(BgJobs) /\ Len(Tail(bgChain)) = Len(bgChain) - 1
      /\ \A i \in 1..Len(bgChain) - 1 : Tail(bgChain)[i] = bgChain[i + 1]
  BY <1>1
<1>6. <<job>> \in Seq(BgJobs) /\ Len(<<job>>) = 1 /\ <<job>>[1] = job
  BY <1>3
<1>7. /\ bgChain' \in Seq(BgJobs) /\ Len(bgChain') = Len(bgChain)
      /\ bgChain'[1] = job
      /\ \A i \in 2..Len(bgChain) : bgChain'[i] = bgChain[i]
  <2>1. /\ bgChain' \in Seq(BgJobs)
        /\ Len(bgChain') = 1 + (Len(bgChain) - 1)
        /\ bgChain'[1] = job
        /\ \A i \in 2..Len(bgChain) : bgChain'[i] = Tail(bgChain)[i - 1]
    BY <1>1, <1>4, <1>5, <1>6
  <2>2. \A i \in 2..Len(bgChain) : Tail(bgChain)[i - 1] = bgChain[i]
    BY <1>1, <1>5
  <2>3. QED
    BY <1>1, <2>1, <2>2
<1>8. QED
  BY <1>1, <1>3, <1>7

LEMMA BgStep == BgInv /\ [BgNext]_bgVars => BgInv'
<1> SUFFICES ASSUME BgInv, [BgNext]_bgVars PROVE BgInv'
  OBVIOUS
<1>a. /\ bgChain \in Seq(BgJobs) /\ Len(bgChain) \in Nat /\ BgOrdered(bgChain, bgUsed)
      /\ bgUsed \in 0..BgTracks /\ bgTrack \in {NoTrack, bgUsed}
      /\ bgChoice \in BgIds /\ bgSaved \in BgIds /\ bgFailed \in BOOLEAN
      /\ bgProc \in [1..BgTracks -> BgIds \cup {NoProc}]
      /\ \A t \in 1..BgTracks : t > bgUsed => bgProc[t] = NoProc
  BY DEF BgInv, BgTypeOK
<1>b. BgTracks \in Nat
  BY BgAssumption
<1>1. ASSUME NEW id \in BgIds, BgSet(id) PROVE BgInv'
  <2>1. /\ bgChoice' = id /\ bgSaved' \in {id, bgSaved}
        /\ UNCHANGED <<bgTrack, bgUsed, bgProc, bgFailed>>
        /\ bgChain' = IF bgTrack = NoTrack THEN bgChain ELSE BgChained(bgChain, bgTrack, id)
    BY <1>1 DEF BgSet, BgApply
  <2>2. bgChain' \in Seq(BgJobs) /\ BgOrdered(bgChain', bgUsed)
    <3>1. CASE bgTrack = NoTrack
      BY <1>a, <2>1, <3>1
    <3>2. CASE bgTrack # NoTrack
      <4>1. bgTrack = bgUsed /\ bgUsed \in 1..BgTracks /\ bgUsed <= bgUsed
        BY <1>a, <1>b, <3>2 DEF NoTrack
      <4>2. QED
        BY <1>a, <2>1, <3>2, <4>1, BgChaining
    <3>3. QED
      BY <3>1, <3>2
  <2>3. QED
    BY <1>a, <2>1, <2>2 DEF BgInv, BgTypeOK
<1>2. CASE BgPublished
  <2>1. /\ bgUsed' = bgUsed + 1 /\ bgTrack' = bgUsed + 1 /\ bgFailed' = FALSE
        /\ bgUsed + 1 \in 1..BgTracks /\ bgUsed <= bgUsed + 1
        /\ bgChain' = BgChained(bgChain, bgUsed + 1, bgChoice)
        /\ UNCHANGED <<bgChoice, bgSaved, bgProc>>
    BY <1>2, <1>a, <1>b DEF BgPublished, BgApply, NoTrack
  <2>2. bgChain' \in Seq(BgJobs) /\ BgOrdered(bgChain', bgUsed')
    BY <1>a, <2>1, BgChaining
  <2>3. \A t \in 1..BgTracks : t > bgUsed' => bgProc'[t] = NoProc
    BY <1>a, <1>b, <2>1
  <2>4. bgUsed' \in 0..BgTracks /\ bgTrack' \in 0..BgTracks /\ bgTrack' \in {NoTrack, bgUsed'}
    BY <1>b, <2>1
  <2>5. QED
    BY <1>a, <2>1, <2>2, <2>3, <2>4 DEF BgInv, BgTypeOK
<1>3. CASE BgUnpublished
  <2>1. /\ bgTrack' = NoTrack /\ bgFailed' = FALSE /\ NoTrack \in 0..BgTracks
        /\ UNCHANGED <<bgChoice, bgSaved, bgUsed, bgChain, bgProc>>
    BY <1>3, <1>b DEF BgUnpublished, NoTrack
  <2>2. QED
    BY <1>a, <2>1 DEF BgInv, BgTypeOK
<1>4. CASE BgRemount
  <2>1. PICK live \in {NoTrack, bgUsed + 1} :
           /\ bgTrack' = live
           /\ bgUsed' = IF live = NoTrack THEN bgUsed ELSE live
           /\ bgChain' = BgMounted(live, bgSaved)
    BY <1>4 DEF BgRemount
  <2>2. /\ bgChoice' = bgSaved /\ bgFailed' = FALSE /\ UNCHANGED <<bgSaved, bgProc>>
        /\ bgUsed + 1 \in 1..BgTracks
    BY <1>4, <1>a, <1>b DEF BgRemount
  <2>3. live \in 0..BgTracks /\ bgUsed' \in 0..BgTracks /\ bgUsed' >= live /\ bgUsed' >= bgUsed
    BY <2>1, <2>2, <1>a, <1>b DEF NoTrack
  <2>4. bgChain' \in Seq(BgJobs) /\ BgOrdered(bgChain', live)
    BY <1>a, <2>1, <2>3, BgMounting
  <2>5. BgOrdered(bgChain', bgUsed')
    <3>1. \A i \in 1..Len(bgChain') : bgChain'[i].track \in Nat
      BY <2>4, BgJobType
    <3>2. QED
      BY <2>3, <2>4, <3>1, <1>b DEF BgOrdered
  <2>6. \A t \in 1..BgTracks : t > bgUsed' => bgProc'[t] = NoProc
    BY <1>a, <1>b, <2>2, <2>3
  <2>7. QED
    BY <1>a, <1>b, <2>1, <2>2, <2>3, <2>4, <2>5, <2>6 DEF BgInv, BgTypeOK
<1>5. CASE BgStart
  <2>1. UNCHANGED <<bgChoice, bgSaved, bgTrack, bgUsed, bgProc, bgFailed>>
    BY <1>5 DEF BgStart
  <2>2. BgOrdered(bgChain', bgUsed)
    BY <1>a, <1>5, BgStarting DEF BgOrdered
  <2>3. QED
    BY <1>a, <1>5, <2>1, <2>2, BgStarting DEF BgInv, BgTypeOK
<1>6. CASE BgDone \/ BgFails
  <2>1. bgChain # <<>> => Head(bgChain).id \in BgIds /\ Head(bgChain).track \in 1..BgTracks
    <3>1. bgChain # <<>> => Head(bgChain) \in BgJobs
      BY <1>a
    <3>2. QED
      BY <3>1, BgJobType
  <2>2. bgChain # <<>> => /\ {BgLeft(Head(bgChain))} \in SUBSET (BgIds \cup {NoProc})
                          /\ BgLeftFailing(Head(bgChain)) \in SUBSET (BgIds \cup {NoProc})
    <3>1. BgNone \in BgIds
      BY DEF BgIds
    <3>2. \A t \in 1..BgTracks : bgProc[t] \in BgIds \cup {NoProc}
      BY <1>a
    <3>3. QED
      BY <2>1, <3>1, <3>2 DEF BgLeft, BgLeftFailing
  <2>3. bgChain # <<>>
    BY <1>6 DEF BgDone, BgFails, BgSettled
  <2>4. QED
    BY <1>6, <2>2, <2>3, BgSettling DEF BgDone, BgFails
<1>7. CASE UNCHANGED bgVars
  BY <1>7, <1>a DEF bgVars, BgInv, BgTypeOK
<1>8. QED
  BY <1>1, <1>2, <1>3, <1>4, <1>5, <1>6, <1>7 DEF BgNext

LEMMA BgInvariant == BgInit /\ [][BgNext]_bgVars => []BgInv
BY BgInitially, BgStep, PTL

\* The applies to older tracks come first: n of them.
BgOlderAre(n, chain, track) ==
    /\ n \in 0..Len(chain)
    /\ \A i \in 1..Len(chain) : chain[i].track # track <=> i <= n

\* What is pending, as a function of the chain and the live track.
BgOlderOf(chain, track) ==
    LET others == {i \in DOMAIN chain : chain[i].track # track}
    IN  IF others = {} THEN 0 ELSE CHOOSE i \in others : \A j \in others : j <= i
BgPendingOf(chain, track) ==
    [i \in 1..Len(chain) - BgOlderOf(chain, track) |-> chain[BgOlderOf(chain, track) + i].id]

LEMMA BgPendingDef ==
    /\ BgPending = BgPendingOf(bgChain, bgTrack)
    /\ BgPending' = BgPendingOf(bgChain', bgTrack')
BY DEF BgPending, BgOlder, BgPendingOf, BgOlderOf

LEMMA BgOlderIs ==
    ASSUME NEW chain \in Seq(BgJobs), NEW track, NEW n, BgOlderAre(n, chain, track)
    PROVE  BgOlderOf(chain, track) = n
<1> DEFINE others == {i \in DOMAIN chain : chain[i].track # track}
<1>1. others = 1..n /\ n \in Nat
  BY DEF BgOlderAre
<1>2. CASE n = 0
  BY <1>1, <1>2 DEF BgOlderOf
<1>3. CASE n # 0
  <2>1. n \in others /\ (\A j \in others : j <= n) /\ others # {}
    BY <1>1, <1>3
  <2>2. \A i \in others : (\A j \in others : j <= i) => i = n
    BY <1>1, <2>1
  <2>3. BgOlderOf(chain, track) = CHOOSE i \in others : \A j \in others : j <= i
    BY <2>1 DEF BgOlderOf
  <2> HIDE DEF others
  <2>4. QED
    BY <2>1, <2>2, <2>3
<1>4. QED
  BY <1>2, <1>3

\* The chain is sorted by track, and the live track is the newest: so there is such n.
LEMMA BgOlderExists ==
    ASSUME BgInv
    PROVE  \E n \in 0..Len(bgChain) : BgOlderAre(n, bgChain, bgTrack)
<1> DEFINE T == {n \in Nat : \A i \in 1..Len(bgChain) : bgChain[i].track # bgTrack => i <= n}
<1>1. /\ bgChain \in Seq(BgJobs) /\ Len(bgChain) \in Nat /\ BgOrdered(bgChain, bgUsed)
      /\ bgTrack \in {NoTrack, bgUsed} /\ bgUsed \in Nat
  BY BgAssumption DEF BgInv, BgTypeOK
<1>2. \A i \in 1..Len(bgChain) : bgChain[i].track \in Nat \ {0}
  <2>1. \A i \in 1..Len(bgChain) : bgChain[i] \in BgJobs
    BY <1>1
  <2>2. \A i \in 1..Len(bgChain) : bgChain[i].track \in 1..BgTracks
    BY <2>1, BgJobType
  <2>3. QED
    BY <2>2, BgAssumption
<1>3. Len(bgChain) \in T
  BY <1>1
<1>4. PICK n \in T : \A m \in T : n <= m
  <2> HIDE DEF T
  <2>1. T \in SUBSET Nat
    BY DEF T
  <2>2. QED
    BY <2>1, <1>3, LeastNat
<1>5. n \in 0..Len(bgChain)
  BY <1>1, <1>3, <1>4
<1>6. n # 0 => bgChain[n].track # bgTrack
  <2>1. SUFFICES ASSUME n # 0, bgChain[n].track = bgTrack PROVE FALSE
    OBVIOUS
  <2>2. n - 1 \in Nat /\ \A i \in 1..Len(bgChain) : bgChain[i].track # bgTrack => i <= n - 1
    BY <1>1, <1>4, <1>5, <2>1
  <2>3. QED
    BY <1>4, <1>5, <2>2
<1>7. \A i \in 1..Len(bgChain) : bgChain[i].track # bgTrack <=> i <= n
  <2>1. SUFFICES ASSUME NEW i \in 1..Len(bgChain), i <= n PROVE bgChain[i].track # bgTrack
    BY <1>4
  <2>2. n \in 1..Len(bgChain) /\ bgChain[n].track # bgTrack
    BY <1>1, <1>5, <1>6, <2>1
  <2>3. bgChain[i].track <= bgChain[n].track /\ bgChain[n].track <= bgUsed
    BY <1>1, <2>1, <2>2 DEF BgOrdered
  <2>4. bgChain[i].track \in Nat \ {0} /\ bgChain[n].track \in Nat \ {0}
    BY <1>2, <2>2
  <2>5. QED
    BY <1>1, <2>2, <2>3, <2>4 DEF NoTrack
<1>8. QED
  BY <1>5, <1>7 DEF BgOlderAre

\* The part of a chain that is for the live track.
BgMine(n, chain) == [i \in 1..Len(chain) - n |-> chain[n + i].id]

LEMMA BgPendingIs ==
    ASSUME NEW chain \in Seq(BgJobs), NEW track, NEW n, BgOlderAre(n, chain, track)
    PROVE  BgPendingOf(chain, track) = BgMine(n, chain)
BY BgOlderIs DEF BgPendingOf, BgMine

LEMMA BgMineType ==
    ASSUME NEW chain \in Seq(BgJobs), NEW n \in 0..Len(chain)
    PROVE  /\ BgMine(n, chain) \in Seq(BgIds)
           /\ Len(BgMine(n, chain)) = Len(chain) - n
           /\ \A i \in 1..Len(chain) - n : BgMine(n, chain)[i] = chain[n + i].id
<1>1. Len(chain) - n \in Nat /\ \A i \in 1..Len(chain) - n : n + i \in 1..Len(chain)
  OBVIOUS
<1>2. \A i \in 1..Len(chain) - n : chain[n + i].id \in BgIds
  <2>1. \A i \in 1..Len(chain) - n : chain[n + i] \in BgJobs
    BY <1>1
  <2>2. QED
    BY <2>1, BgJobType
<1>3. ASSUME NEW k \in Nat, NEW f \in [1..k -> BgIds] PROVE f \in Seq(BgIds) /\ Len(f) = k
  OBVIOUS
<1>4. BgMine(n, chain) \in [1..(Len(chain) - n) -> BgIds]
  BY <1>2 DEF BgMine
<1>5. \A i \in 1..Len(chain) - n : BgMine(n, chain)[i] = chain[n + i].id
  BY DEF BgMine
<1>6. QED
  BY <1>1, <1>3, <1>4, <1>5

LEMMA SameSequence ==
    ASSUME NEW S, NEW s \in Seq(S), NEW t \in Seq(S), Len(s) = Len(t),
           \A i \in 1..Len(s) : s[i] = t[i]
    PROVE  s = t
OBVIOUS

\* What is pending and shown depends on the chain's tracks and ids only.
LEMMA BgSameMine ==
    ASSUME NEW chain \in Seq(BgJobs), NEW other \in Seq(BgJobs), NEW n \in 0..Len(chain),
           Len(chain) = Len(other), \A i \in 1..Len(chain) : chain[i].id = other[i].id
    PROVE  BgMine(n, chain) = BgMine(n, other)
<1>1. \A i \in 1..Len(chain) - n : BgMine(n, chain)[i] = BgMine(n, other)[i]
  <2>1. \A i \in 1..Len(chain) - n : n + i \in 1..Len(chain)
    OBVIOUS
  <2>2. QED
    BY <2>1, BgMineType
<1>2. n \in 0..Len(other)
  OBVIOUS
<1>3. /\ BgMine(n, chain) \in Seq(BgIds) /\ Len(BgMine(n, chain)) = Len(chain) - n
      /\ BgMine(n, other) \in Seq(BgIds) /\ Len(BgMine(n, other)) = Len(chain) - n
  BY <1>2, BgMineType
<1>4. QED
  BY <1>1, <1>3, SameSequence

LEMMA BgPendingNow ==
    ASSUME BgInv
    PROVE  \E n \in 0..Len(bgChain) : /\ BgOlderAre(n, bgChain, bgTrack)
                                      /\ BgPending = BgMine(n, bgChain)
<1>1. bgChain \in Seq(BgJobs)
  BY DEF BgInv, BgTypeOK
<1>2. QED
  BY <1>1, BgOlderExists, BgPendingIs, BgPendingDef

\* A fresh target: what is pending is the choice that comes with it, or nothing.
LEMMA BgFresh ==
    ASSUME NEW chain \in Seq(BgJobs), NEW n \in Nat, Len(chain) \in {n, n + 1}
    PROVE  /\ BgMine(n, chain) \in {<<>>} \cup {<<w>> : w \in BgIds}
<1>1. n \in 0..Len(chain)
  OBVIOUS
<1>2. CASE Len(chain) = n
  <2>1. BgMine(n, chain) \in Seq(BgIds) /\ Len(BgMine(n, chain)) = 0
    BY <1>1, <1>2, BgMineType
  <2>2. QED
    BY <2>1
<1>3. CASE Len(chain) = n + 1
  <2>1. BgMine(n, chain) \in Seq(BgIds) /\ Len(BgMine(n, chain)) = 1
    <3>1. Len(chain) - n = 1
      BY <1>3
    <3>2. QED
      BY <1>1, <3>1, BgMineType
  <2>2. QED
    BY <2>1
<1>4. QED
  BY <1>2, <1>3

LEMMA BgImplementsInit == BgInit => LW!Init
<1> SUFFICES ASSUME BgInit PROVE LW!Init
  OBVIOUS
<1>1. BgInv
  BY BgInitially
<1>2. bgUsed = bgTrack /\ bgChain = BgMounted(bgTrack, bgSaved) /\ bgSaved \in BgIds
      /\ bgTrack \in 0..BgTracks /\ bgChain \in Seq(BgJobs)
      /\ \A t \in 1..BgTracks : bgProc[t] = NoProc
  BY <1>1 DEF BgInit, BgInv, BgTypeOK
<1>3. BgShown = BgNone
  BY <1>2, BgAssumption DEF BgShown, NoTrack
<1>4. Len(bgChain) \in {0, 1} /\ BgOlderAre(0, bgChain, bgTrack)
  BY <1>2, BgMounting DEF BgOlderAre
<1>5. BgPending = BgMine(0, bgChain)
  BY <1>2, <1>4, BgPendingIs, BgPendingDef
<1>6. Len(bgChain) \in {0, 0 + 1}
  BY <1>4
<1>7. BgMine(0, bgChain) \in {<<>>} \cup {<<w>> : w \in BgIds}
  BY <1>2, <1>6, BgFresh
<1>8. QED
  BY <1>3, <1>5, <1>7 DEF LW!Init

\* A wish: the choice goes to the end of what is pending.
LEMMA BgSetMaps ==
    ASSUME BgInv, NEW id \in BgIds, BgSet(id)
    PROVE  [LW!Next]_<<BgShown, BgPending>>
<1>1. PICK n \in 0..Len(bgChain) : BgOlderAre(n, bgChain, bgTrack) /\ BgPending = BgMine(n, bgChain)
  BY BgPendingNow
<1>2. /\ UNCHANGED <<bgTrack, bgProc>>
      /\ bgChain' = IF bgTrack = NoTrack THEN bgChain ELSE BgChained(bgChain, bgTrack, id)
      /\ bgChain \in Seq(BgJobs) /\ bgUsed \in 0..BgTracks /\ bgTrack \in {NoTrack, bgUsed}
      /\ BgOrdered(bgChain, bgUsed) /\ Len(bgChain) \in Nat
  BY DEF BgSet, BgApply, BgInv, BgTypeOK
<1>3. BgShown' = BgShown
  BY <1>2 DEF BgShown
<1>4. CASE bgTrack = NoTrack
  <2>1. BgPending' = BgPending
    BY <1>2, <1>4 DEF BgPending, BgOlder
  <2>2. QED
    BY <1>3, <2>1
<1>5. CASE bgTrack # NoTrack
  <2>1. bgTrack = bgUsed /\ bgUsed \in 1..BgTracks /\ bgUsed <= bgUsed
    BY <1>2, <1>5, BgAssumption DEF NoTrack
  <2>2. /\ bgChain' \in Seq(BgJobs) /\ Len(bgChain') = Len(bgChain) + 1
        /\ \A i \in 1..Len(bgChain) : bgChain'[i] = bgChain[i]
        /\ bgChain'[Len(bgChain) + 1].track = bgTrack
        /\ bgChain'[Len(bgChain) + 1].id = id
    BY <1>2, <1>5, <2>1, BgChaining
  <2>3. BgOlderAre(n, bgChain', bgTrack')
    <3>1. n \in 0..Len(bgChain') /\ bgTrack' = bgTrack
      BY <1>2, <2>2
    <3>2. \A i \in 1..Len(bgChain) : bgChain'[i].track # bgTrack <=> i <= n
      BY <1>1, <2>2 DEF BgOlderAre
    <3>3. ~(Len(bgChain) + 1 <= n)
      BY <1>2
    <3>4. \A i \in 1..Len(bgChain') : i \in 1..Len(bgChain) \/ i = Len(bgChain) + 1
      BY <1>2, <2>2
    <3>5. QED
      BY <2>2, <3>1, <3>2, <3>3, <3>4 DEF BgOlderAre
  <2>4. BgPending' = BgMine(n, bgChain')
    BY <2>2, <2>3, BgPendingIs, BgPendingDef
  <2>5. BgMine(n, bgChain') = Append(BgMine(n, bgChain), id)
    <3>1. /\ BgMine(n, bgChain) \in Seq(BgIds) /\ Len(BgMine(n, bgChain)) = Len(bgChain) - n
          /\ \A i \in 1..Len(bgChain) - n : BgMine(n, bgChain)[i] = bgChain[n + i].id
      BY <1>2, BgMineType
    <3>2. /\ BgMine(n, bgChain') \in Seq(BgIds) /\ Len(BgMine(n, bgChain')) = Len(bgChain) - n + 1
          /\ \A i \in 1..Len(bgChain) - n + 1 : BgMine(n, bgChain')[i] = bgChain'[n + i].id
      <4>1. n \in 0..Len(bgChain') /\ Len(bgChain') - n = Len(bgChain) - n + 1
        BY <1>2, <2>2
      <4>2. QED
        BY <2>2, <4>1, BgMineType
    <3>3. ASSUME NEW q \in Seq(BgIds), NEW p \in Seq(BgIds), Len(q) = Len(p) + 1,
                 \A i \in 1..Len(p) : q[i] = p[i], q[Len(p) + 1] = id
          PROVE  q = Append(p, id)
      <4>1. /\ Append(p, id) \in Seq(BgIds) /\ Len(Append(p, id)) = Len(p) + 1
            /\ \A i \in 1..Len(p) : Append(p, id)[i] = p[i]
            /\ Append(p, id)[Len(p) + 1] = id
        OBVIOUS
      <4>2. \A i \in 1..Len(q) : i \in 1..Len(p) \/ i = Len(p) + 1
        BY <3>3
      <4>3. \A i \in 1..Len(q) : q[i] = Append(p, id)[i]
        BY <3>3, <4>1, <4>2
      <4>4. QED
        BY <3>3, <4>1, <4>3, SameSequence
    <3>4. Len(bgChain) - n \in Nat /\ n + (Len(bgChain) - n + 1) = Len(bgChain) + 1
      BY <1>2
    <3>5. \A i \in 1..Len(bgChain) - n :
             /\ i \in 1..Len(bgChain) - n + 1 /\ n + i \in 1..Len(bgChain)
      BY <1>2
    <3>6. \A i \in 1..Len(bgChain) - n : BgMine(n, bgChain')[i] = BgMine(n, bgChain)[i]
      BY <2>2, <3>1, <3>2, <3>5
    <3>7. BgMine(n, bgChain')[Len(bgChain) - n + 1] = id
      <4>1. Len(bgChain) - n + 1 \in 1..Len(bgChain) - n + 1
        BY <3>4
      <4>2. BgMine(n, bgChain')[Len(bgChain) - n + 1] = bgChain'[n + (Len(bgChain) - n + 1)].id
        BY <3>2, <4>1
      <4>3. QED
        BY <2>2, <3>4, <4>2
    <3>8. QED
      BY <3>1, <3>2, <3>3, <3>6, <3>7
  <2>6. LW!Wish(id)
    BY <1>1, <1>3, <2>4, <2>5 DEF LW!Wish
  <2>7. QED
    BY <2>6 DEF LW!Next
<1>6. QED
  BY <1>4, <1>5

\* A target that is replaced starts afresh.
LEMMA BgReplaced ==
    ASSUME NEW n \in Nat, bgChain' \in Seq(BgJobs), Len(bgChain') \in {n, n + 1},
           BgOlderAre(n, bgChain', bgTrack'), BgShown' = BgNone
    PROVE  LW!Replace
<1>1. BgPending' = BgMine(n, bgChain')
  BY BgPendingIs, BgPendingDef
<1>2. QED
  BY <1>1, BgFresh DEF LW!Replace

LEMMA BgReplaceMaps ==
    ASSUME BgInv, BgPublished \/ BgUnpublished \/ BgRemount
    PROVE  LW!Replace
<1>1. /\ bgChain \in Seq(BgJobs) /\ Len(bgChain) \in Nat /\ bgUsed \in 0..BgTracks
      /\ BgOrdered(bgChain, bgUsed) /\ bgChoice \in BgIds /\ bgSaved \in BgIds
      /\ \A t \in 1..BgTracks : t > bgUsed => bgProc[t] = NoProc
  BY DEF BgInv, BgTypeOK
<1>2. \A i \in 1..Len(bgChain) : bgChain[i].track \in Nat \ {0} /\ bgChain[i].track <= bgUsed
  <2>1. \A i \in 1..Len(bgChain) : bgChain[i] \in BgJobs
    BY <1>1
  <2>2. \A i \in 1..Len(bgChain) : bgChain[i].track \in 1..BgTracks
    BY <2>1, BgJobType
  <2>3. QED
    BY <1>1, <2>2, BgAssumption DEF BgOrdered
<1>3. CASE BgPublished
  <2>1. /\ bgUsed + 1 \in 1..BgTracks /\ bgTrack' = bgUsed + 1 /\ bgTrack' # NoTrack
        /\ bgUsed <= bgUsed + 1 /\ bgUsed + 1 > bgUsed /\ bgProc' = bgProc
        /\ bgChain' = BgChained(bgChain, bgUsed + 1, bgChoice)
    BY <1>1, <1>3, BgAssumption DEF BgPublished, BgApply, NoTrack
  <2>2. BgShown' = BgNone
    BY <1>1, <2>1 DEF BgShown
  <2>3. /\ bgChain' \in Seq(BgJobs) /\ Len(bgChain') = Len(bgChain) + 1
        /\ \A i \in 1..Len(bgChain) : bgChain'[i] = bgChain[i]
        /\ bgChain'[Len(bgChain) + 1].track = bgUsed + 1
    BY <1>1, <2>1, BgChaining
  <2>4. BgOlderAre(Len(bgChain), bgChain', bgTrack')
    BY <1>1, <1>2, <2>1, <2>3, BgAssumption DEF BgOlderAre
  <2>5. QED
    BY <1>1, <2>2, <2>3, <2>4, BgReplaced
<1>4. CASE BgUnpublished
  <2>1. bgTrack' = NoTrack /\ bgChain' = bgChain
    BY <1>4 DEF BgUnpublished
  <2>2. BgShown' = BgNone
    BY <2>1 DEF BgShown
  <2>3. BgOlderAre(Len(bgChain), bgChain', bgTrack')
    BY <1>1, <1>2, <2>1 DEF BgOlderAre, NoTrack
  <2>4. QED
    BY <1>1, <2>1, <2>2, <2>3, BgReplaced
<1>5. CASE BgRemount
  <2>1. PICK live \in {NoTrack, bgUsed + 1} : bgTrack' = live /\ bgChain' = BgMounted(live, bgSaved)
    BY <1>5 DEF BgRemount
  <2>2. bgProc' = bgProc /\ live \in 0..BgTracks /\ (live # NoTrack => live > bgUsed)
    BY <1>1, <1>5, <2>1, BgAssumption DEF BgRemount, NoTrack
  <2>3. BgShown' = BgNone
    BY <1>1, <2>1, <2>2, BgAssumption DEF BgShown, NoTrack
  <2>4. /\ bgChain' \in Seq(BgJobs) /\ Len(bgChain') \in {0, 0 + 1}
        /\ Len(bgChain') = 1 => bgChain'[1].track = live
    BY <1>1, <2>1, <2>2, BgMounting
  <2>5. BgOlderAre(0, bgChain', bgTrack')
    BY <2>1, <2>4 DEF BgOlderAre
  <2>6. QED
    BY <2>3, <2>4, <2>5, BgReplaced
<1>6. QED
  BY <1>3, <1>4, <1>5

\* A job that starts changes nothing of what is shown or pending.
LEMMA BgStartMaps ==
    ASSUME BgInv, BgStart
    PROVE  UNCHANGED <<BgShown, BgPending>>
<1>1. PICK n \in 0..Len(bgChain) : BgOlderAre(n, bgChain, bgTrack) /\ BgPending = BgMine(n, bgChain)
  BY BgPendingNow
<1>2. bgChain \in Seq(BgJobs) /\ UNCHANGED <<bgTrack, bgProc>>
  BY DEF BgInv, BgTypeOK, BgStart
<1>3. /\ bgChain' \in Seq(BgJobs) /\ Len(bgChain') = Len(bgChain)
      /\ \A i \in 1..Len(bgChain) : /\ bgChain'[i].track = bgChain[i].track
                                    /\ bgChain'[i].id = bgChain[i].id
  BY <1>2, BgStarting
<1>4. BgOlderAre(n, bgChain', bgTrack')
  BY <1>1, <1>2, <1>3 DEF BgOlderAre
<1>5. BgPending' = BgMine(n, bgChain')
  BY <1>3, <1>4, BgPendingIs, BgPendingDef
<1>6. BgMine(n, bgChain') = BgMine(n, bgChain)
  BY <1>2, <1>3, BgSameMine
<1>7. BgShown' = BgShown
  BY <1>2 DEF BgShown
<1>8. QED
  BY <1>1, <1>5, <1>6, <1>7

\* A job that settles is tried, if it is the live track's; else nothing is seen of it.
LEMMA BgSettleMaps ==
    ASSUME BgInv, BgDone \/ BgFails
    PROVE  LW!Try \/ UNCHANGED <<BgShown, BgPending>>
<1>1. PICK n \in 0..Len(bgChain) : BgOlderAre(n, bgChain, bgTrack) /\ BgPending = BgMine(n, bgChain)
  BY BgPendingNow
<1>2. /\ bgChain \in Seq(BgJobs) /\ Len(bgChain) \in Nat \ {0} /\ bgChain # <<>>
      /\ bgChain' = Tail(bgChain) /\ bgTrack' = bgTrack
      /\ bgProc \in [1..BgTracks -> BgIds \cup {NoProc}]
  <2>1. bgChain \in Seq(BgJobs) /\ bgProc \in [1..BgTracks -> BgIds \cup {NoProc}]
    BY DEF BgInv, BgTypeOK
  <2>2. bgChain # <<>> /\ bgChain' = Tail(bgChain) /\ bgTrack' = bgTrack
    BY DEF BgDone, BgFails, BgSettled
  <2>3. Len(bgChain) \in Nat \ {0}
    BY <2>1, <2>2
  <2>4. QED
    BY <2>1, <2>2, <2>3
<1>3. /\ Tail(bgChain) \in Seq(BgJobs) /\ Len(Tail(bgChain)) = Len(bgChain) - 1
      /\ \A i \in 1..Len(bgChain) - 1 : Tail(bgChain)[i] = bgChain[i + 1]
      /\ Head(bgChain) = bgChain[1]
  BY <1>2
<1> DEFINE job == bgChain[1]
<1>4. job \in BgJobs /\ job.track \in 1..BgTracks /\ job.id \in BgIds
  BY <1>2, BgJobType
<1>5. PICK p : /\ bgProc' = [bgProc EXCEPT ![job.track] = p]
               /\ \/ p = BgLeft(job)
                  \/ p \in BgLeftFailing(job)
  BY <1>3 DEF BgDone, BgFails, BgSettled
<1> HIDE DEF job
<1>6. \A i \in 1..Len(bgChain) - 1 : i + 1 \in 1..Len(bgChain)
  BY <1>2
<1>7. CASE job.track # bgTrack
  <2>1. n # 0
    BY <1>1, <1>2, <1>7 DEF BgOlderAre, job
  <2>2. BgOlderAre(n - 1, bgChain', bgTrack')
    <3>1. n - 1 \in 0..Len(Tail(bgChain))
      BY <1>2, <1>3, <2>1
    <3>2. \A i \in 1..Len(Tail(bgChain)) : Tail(bgChain)[i].track # bgTrack <=> i + 1 <= n
      BY <1>1, <1>2, <1>3, <1>6 DEF BgOlderAre
    <3>3. \A i \in 1..Len(Tail(bgChain)) : i + 1 <= n <=> i <= n - 1
      BY <1>2
    <3>4. QED
      BY <1>2, <3>1, <3>2, <3>3 DEF BgOlderAre
  <2>3. BgPending' = BgMine(n - 1, bgChain')
    BY <1>2, <1>3, <2>2, BgPendingIs, BgPendingDef
  <2>4. BgMine(n - 1, bgChain') = BgMine(n, bgChain)
    <3>1. /\ BgMine(n, bgChain) \in Seq(BgIds) /\ Len(BgMine(n, bgChain)) = Len(bgChain) - n
          /\ \A i \in 1..Len(bgChain) - n : BgMine(n, bgChain)[i] = bgChain[n + i].id
      BY <1>2, BgMineType
    <3>2. /\ n - 1 \in 0..Len(bgChain') /\ Len(bgChain') - (n - 1) = Len(bgChain) - n
          /\ bgChain' \in Seq(BgJobs)
      BY <1>2, <1>3, <2>1
    <3>3. /\ BgMine(n - 1, bgChain') \in Seq(BgIds)
          /\ Len(BgMine(n - 1, bgChain')) = Len(bgChain) - n
          /\ \A i \in 1..Len(bgChain) - n : BgMine(n - 1, bgChain')[i] = bgChain'[n - 1 + i].id
      BY <3>2, BgMineType
    <3>4. \A i \in 1..Len(bgChain) - n : /\ n - 1 + i \in 1..Len(bgChain) - 1
                                         /\ n - 1 + i + 1 = n + i
      BY <1>2, <2>1
    <3>5. \A i \in 1..Len(bgChain) - n : bgChain'[n - 1 + i] = bgChain[n + i]
      BY <1>2, <1>3, <3>4
    <3>6. QED
      BY <3>1, <3>3, <3>5, SameSequence
  <2>5. BgShown' = BgShown
    <3>1. bgTrack # NoTrack => bgTrack \in 1..BgTracks
      BY BgAssumption DEF BgInv, BgTypeOK, NoTrack
    <3>2. bgTrack # NoTrack => bgProc'[bgTrack] = bgProc[bgTrack]
      BY <1>2, <1>4, <1>5, <1>7, <3>1
    <3>3. QED
      BY <1>2, <3>2 DEF BgShown
  <2>6. QED
    BY <1>1, <2>3, <2>4, <2>5
<1>8. CASE job.track = bgTrack
  <2>1. n = 0 /\ bgTrack # NoTrack
    BY <1>1, <1>2, <1>4, <1>8, BgAssumption DEF BgOlderAre, job, NoTrack
  <2>2. BgOlderAre(0, bgChain', bgTrack')
    BY <1>1, <1>2, <1>3, <1>6, <2>1 DEF BgOlderAre
  <2>3. BgPending' = BgMine(0, bgChain')
    BY <1>2, <1>3, <2>2, BgPendingIs, BgPendingDef
  <2>4. /\ BgMine(0, bgChain) \in Seq(BgIds) /\ Len(BgMine(0, bgChain)) = Len(bgChain)
        /\ \A i \in 1..Len(bgChain) : BgMine(0, bgChain)[i] = bgChain[i].id
    <3>1. /\ bgChain \in Seq(BgJobs) /\ 0 \in 0..Len(bgChain)
          /\ Len(bgChain) - 0 = Len(bgChain)
          /\ \A i \in 1..Len(bgChain) : 0 + i = i
      BY <1>2
    <3>2. /\ BgMine(0, bgChain) \in Seq(BgIds)
          /\ Len(BgMine(0, bgChain)) = Len(bgChain) - 0
          /\ \A i \in 1..Len(bgChain) - 0 : BgMine(0, bgChain)[i] = bgChain[0 + i].id
      BY <3>1, BgMineType
    <3>3. QED
      BY <3>1, <3>2
  <2>5. /\ BgMine(0, bgChain') \in Seq(BgIds) /\ Len(BgMine(0, bgChain')) = Len(bgChain) - 1
        /\ \A i \in 1..Len(bgChain) - 1 : BgMine(0, bgChain')[i] = bgChain'[i].id
    <3>1. /\ bgChain' \in Seq(BgJobs) /\ 0 \in 0..Len(bgChain')
          /\ Len(bgChain') - 0 = Len(bgChain) - 1
          /\ \A i \in 1..Len(bgChain') : 0 + i = i
      BY <1>2, <1>3
    <3>2. /\ BgMine(0, bgChain') \in Seq(BgIds)
          /\ Len(BgMine(0, bgChain')) = Len(bgChain') - 0
          /\ \A i \in 1..Len(bgChain') - 0 : BgMine(0, bgChain')[i] = bgChain'[0 + i].id
      BY <3>1, BgMineType
    <3>3. Len(bgChain') = Len(bgChain) - 1
      BY <1>2, <1>3
    <3>4. QED
      BY <3>1, <3>2, <3>3
  <2>6. /\ BgPending # <<>> /\ Head(BgPending) = job.id
        /\ Tail(BgPending) \in Seq(BgIds) /\ Len(Tail(BgPending)) = Len(bgChain) - 1
        /\ \A i \in 1..Len(bgChain) - 1 : Tail(BgPending)[i] = BgMine(0, bgChain)[i + 1]
    BY <1>1, <1>2, <2>1, <2>4 DEF job
  <2>7. BgPending' = Tail(BgPending)
    <3>1. \A i \in 1..Len(bgChain) - 1 : BgMine(0, bgChain')[i] = Tail(BgPending)[i]
      BY <1>2, <1>3, <1>6, <2>4, <2>5, <2>6
    <3>2. QED
      BY <2>3, <2>5, <2>6, <3>1, SameSequence
  <2>8. BgShown' \in {job.id, BgShown, BgNone}
    <3>1. bgProc'[bgTrack] = p /\ bgProc[bgTrack] \in BgIds \cup {NoProc}
      BY <1>2, <1>4, <1>5, <1>8
    <3>2. BgShown' = IF p = NoProc THEN BgNone ELSE p
      BY <1>2, <2>1, <3>1 DEF BgShown
    <3>3. p \in {NoProc, BgNone, job.id, bgProc[bgTrack]}
      BY <1>5, <1>8 DEF BgLeft, BgLeftFailing
    <3>4. BgShown = IF bgProc[bgTrack] = NoProc THEN BgNone ELSE bgProc[bgTrack]
      BY <2>1 DEF BgShown
    <3>5. QED
      BY <3>2, <3>3, <3>4
  <2>9. QED
    BY <2>6, <2>7, <2>8 DEF LW!Try
<1>9. QED
  BY <1>7, <1>8

LEMMA BgImplementsStep ==
    BgInv /\ [BgNext]_bgVars => [LW!Next]_<<BgShown, BgPending>>
<1> SUFFICES ASSUME BgInv, [BgNext]_bgVars PROVE [LW!Next]_<<BgShown, BgPending>>
  OBVIOUS
<1>1. ASSUME NEW id \in BgIds, BgSet(id) PROVE [LW!Next]_<<BgShown, BgPending>>
  BY <1>1, BgSetMaps
<1>2. CASE BgPublished \/ BgUnpublished \/ BgRemount
  BY <1>2, BgReplaceMaps DEF LW!Next
<1>3. CASE BgStart
  BY <1>3, BgStartMaps
<1>4. CASE BgDone \/ BgFails
  BY <1>4, BgSettleMaps DEF LW!Next
<1>5. CASE UNCHANGED bgVars
  BY <1>5 DEF bgVars, BgShown, BgPending, BgOlder
<1>6. QED
  BY <1>1, <1>2, <1>3, <1>4, <1>5 DEF BgNext

LEMMA BgImplements == BgInit /\ [][BgNext]_bgVars => BgLatestWins
<1>1. BgInit => LW!Init
  BY BgImplementsInit
<1>2. BgInv /\ [BgNext]_bgVars => [LW!Next]_<<BgShown, BgPending>>
  BY BgImplementsStep
<1>3. QED
  BY <1>1, <1>2, BgInvariant, PTL DEF BgLatestWins, LW!Spec

----
(* The call's specification.                                                *)

\* A step is one of one component, the others resting.
LEMMA Components ==
    Spec => /\ BgInit /\ [][BgNext]_bgVars
            /\ JnInit /\ [][JnNext]_jnVars
            /\ TrInit /\ [][TrNext]_trVars
            /\ ShInit /\ [][ShNext]_shVars
            /\ MwInit /\ [][MwNext]_mwVars
            /\ NtInit /\ [][NtNext]_ntVars
            /\ RxInit /\ [][RxNext]_rxVars
<1>1. Init => BgInit /\ JnInit /\ TrInit /\ ShInit /\ MwInit /\ NtInit /\ RxInit
  BY DEF Init
<1>2. [Next]_vars => /\ [BgNext]_bgVars /\ [JnNext]_jnVars /\ [TrNext]_trVars
                     /\ [ShNext]_shVars /\ [MwNext]_mwVars /\ [NtNext]_ntVars
                     /\ [RxNext]_rxVars
  BY DEF Next, vars, bgRest, jnRest, trRest, shRest, mwRest, ntRest, rxRest
<1>3. QED
  BY <1>1, <1>2, PTL DEF Spec

\* Every variable of every component keeps its type.
THEOREM TypeCorrect == Spec => []TypeOK
<1>1. BgInv /\ JnInv /\ TrInv /\ ShInv /\ MwInv /\ NtInv /\ RxInv => TypeOK
  BY DEF BgInv, JnInv, TrInv, ShInv, MwInv, NtInv, RxInv, TypeOK
<1>2. QED
  BY <1>1, Components, BgInvariant, JnInvariant, TrInvariant, ShInvariant, MwInvariant,
     NtInvariant, RxInvariant, PTL

\* For any tracks and pending requests, however toggles, prompts, the token, the
\* connection and the publishing of devices cross: the lobby previews what is on and
\* leaves no stream behind, and the room is shown with exactly the wanted devices live
\* (Lobby.tsx, hooks.ts: useRoomConnection).
THEOREM DevicesHold == Spec => []DevicesAsWanted
<1>1. JnInv => DevicesAsWanted
  BY JnShows DEF DevicesAsWanted
<1>2. QED
  BY <1>1, Components, JnInvariant, PTL

\* For any audio tracks: while the call is shown, whoever is subscribed to is played by
\* exactly one element (RemoteAudio.tsx).
THEOREM EveryoneHeard == Spec => []JnHeard
<1>1. JnInv => JnHeard
  BY JnShows
<1>2. QED
  BY <1>1, Components, JnInvariant, PTL

\* For any microphones and any number of overlapping builds: one pipeline at most, of
\* the microphone in use, and none when transcription is off (transcription.ts).
THEOREM PipelineHolds == Spec => []TrPipeline
<1>1. TrInv => TrPipeline
  BY DEF TrInv
<1>2. QED
  BY <1>1, Components, TrInvariant, PTL

\* No mini window outlives its call or is held by nobody (callpip.ts).
THEOREM NoOrphanWindow == Spec => []MwNoOrphan
<1>1. MwInv => MwNoOrphan
  BY DEF MwInv
<1>2. QED
  BY <1>1, Components, MwInvariant, PTL

\* For any notices, spans and numbers of reactions: what is shown for a time has a
\* timer of its own, and no timer is left of what was replaced (moderation.ts,
\* moment.ts, sideroom.ts, datachannel.ts).
THEOREM TimersOwned == Spec => []OwnTimers
<1>1. NtInv /\ RxInv => OwnTimers
  BY DEF NtInv, RxInv, OwnTimers
<1>2. QED
  BY <1>1, Components, NtInvariant, RxInvariant, PTL

\* For any users: two present at once only if one had not yet seen the other, and a
\* confirmed stop never begins a share (MeetControls.tsx).
THEOREM SharesHold == Spec => SharesAsMeant
<1>1. ShInv => ShOnePresenter
  BY DEF ShInv, ShOnePresenter
<1>2. QED
  BY <1>1, Components, ShInvariant, ShNeverStarts, PTL DEF SharesAsMeant, ShStopNeverStarts

\* For any presets, tracks and lengths of the chain: what the live track shows and what
\* is still to be applied to it are a serialised switch (hooks.ts: applyToCamera).
THEOREM BackgroundLatestWins == Spec => BgLatestWins
BY Components, BgImplements, PTL
=============================================================================
