------------------------------ MODULE Joining ------------------------------
(***************************************************************************)
(* From the lobby into the call: the lobby's preview stream                *)
(* (pages/Lobby.tsx), the connection that takes over the devices           *)
(* (useRoomConnection in lib/hooks.ts, CallRoom), and the sound of the     *)
(* others (RemoteAudio.tsx).  Every await is a step of its own: the        *)
(* browser's device prompt, the token request, connect, and the publishing *)
(* of microphone and camera, which run side by side.                       *)
(***************************************************************************)
EXTENDS Naturals, FiniteSets

CONSTANTS
    JnAsks,  \* bound: ids of device requests pending at once
    JnTracks \* remote audio tracks

Devices == {"mic", "cam"}
NoStream == {}   \* a stream is the non-empty set of its devices
NoRequest == [for |-> NoStream, live |-> FALSE]

VARIABLES
    jnOn,     \* the lobby's toggles: the devices that are on
    jnAsked,  \* getUserMedia requests: the devices asked for, and not cancelled
    jnStream, \* streamRef: the stream that shows in the preview
    jnStray,  \* history: a stream is open that no variable refers to
    jnForm,   \* the lobby's name, busy state and error
    jnScreen, \* lobby, connecting, error, room, or left
    jnWant,   \* JoinInfo: the devices to publish
    jnPub,    \* per device: off, pending, live or failed
    jnLink,   \* the room is connected
    jnSubs,   \* remote audio tracks that are subscribed
    jnPlays,  \* how many audio elements play each of them
    jnTouched \* history: what disturbed the preview, or the toggles during a join

jnLobby == <<jnOn, jnAsked, jnStream, jnStray, jnForm, jnTouched>>
jnCall == <<jnWant, jnPub, jnLink, jnSubs, jnPlays>>
jnVars == <<jnLobby, jnScreen, jnCall>>

JnTypeOK ==
    /\ jnOn \in SUBSET Devices
    /\ jnAsked \in [JnAsks -> [for : SUBSET Devices, live : BOOLEAN]]
    /\ jnStream \in SUBSET Devices
    /\ jnStray \in BOOLEAN
    /\ jnForm \in [named : BOOLEAN, busy : BOOLEAN, error : {"none", "name", "refused"}]
    /\ jnScreen \in {"lobby", "connecting", "error", "room", "left"}
    /\ jnWant \in SUBSET Devices
    /\ jnPub \in [Devices -> {"off", "pending", "live", "failed"}]
    /\ jnLink \in BOOLEAN
    /\ jnSubs \in SUBSET JnTracks
    /\ jnPlays \in [JnTracks -> 0..2]
    /\ jnTouched \in [preview : BOOLEAN, toggles : BOOLEAN]

JnFreshLobby ==
    [form |-> [named |-> FALSE, busy |-> FALSE, error |-> "none"],
     touched |-> [preview |-> FALSE, toggles |-> FALSE]]

JnInit ==
    /\ jnOn = {}
    /\ jnAsked = [i \in JnAsks |-> NoRequest]
    /\ jnStream = NoStream
    /\ jnStray = FALSE
    /\ \E named \in BOOLEAN : jnForm = [JnFreshLobby.form EXCEPT !.named = named]
    /\ jnTouched = JnFreshLobby.touched
    /\ jnScreen = "lobby"
    /\ jnWant = {}
    /\ jnPub = [d \in Devices |-> "off"]
    /\ jnLink = FALSE
    /\ jnSubs = {}
    /\ jnPlays = [t \in JnTracks |-> 0]

----
(* The lobby.                                                               *)

JnCancelled == [i \in JnAsks |-> [jnAsked[i] EXCEPT !.live = FALSE]]

\* The effect of the toggles: cancel the run before it, tear its stream down, ask
\* for the devices that are on.
JnToggle(d) ==
    /\ jnScreen = "lobby"
    /\ jnOn' = IF d \in jnOn THEN jnOn \ {d} ELSE jnOn \cup {d}
    /\ jnStream' = NoStream
    /\ IF jnOn' = {} THEN jnAsked' = JnCancelled
       ELSE \E i \in JnAsks :
               /\ jnAsked[i] = NoRequest
               /\ jnAsked' = [JnCancelled EXCEPT ![i] = [for |-> jnOn', live |-> TRUE]]
    /\ jnTouched' = [preview |-> FALSE, toggles |-> jnTouched.toggles \/ jnForm.busy]
    /\ UNCHANGED <<jnStray, jnForm, jnScreen, jnCall>>

\* Bugs for comparison: the answer is not checked against later toggles.
JnGrantedUnchecked(i) ==
    /\ jnAsked[i] # NoRequest
    /\ jnAsked' = [jnAsked EXCEPT ![i] = NoRequest]
    /\ jnStream' = jnAsked[i].for
    /\ jnStray' = (jnStray \/ jnStream # NoStream)
    /\ UNCHANGED <<jnOn, jnForm, jnTouched, jnScreen, jnCall>>

\* A stream for a cancelled run is stopped at once.
JnGranted(i) ==
    /\ jnAsked[i] # NoRequest
    /\ jnAsked' = [jnAsked EXCEPT ![i] = NoRequest]
    /\ IF jnAsked[i].live
       THEN jnStream' = jnAsked[i].for /\ jnStray' = (jnStray \/ jnStream # NoStream)
       ELSE UNCHANGED <<jnStream, jnStray>>
    /\ UNCHANGED <<jnOn, jnForm, jnTouched, jnScreen, jnCall>>

JnDenied(i) ==
    /\ jnAsked[i] # NoRequest
    /\ jnAsked' = [jnAsked EXCEPT ![i] = NoRequest]
    /\ jnTouched' = [jnTouched EXCEPT !.preview = @ \/ jnAsked[i].live]
    /\ UNCHANGED <<jnOn, jnStream, jnStray, jnForm, jnScreen, jnCall>>

JnTypeName ==
    /\ jnScreen = "lobby"
    /\ ~jnForm.busy
    /\ jnForm' = [jnForm EXCEPT !.named = ~@]
    /\ UNCHANGED <<jnOn, jnAsked, jnStream, jnStray, jnTouched, jnScreen, jnCall>>

\* handleJoin up to its await: the preview is torn down, and the toggles are read
\* as they were when the button was drawn.
JnJoin ==
    /\ jnScreen = "lobby"
    /\ ~jnForm.busy
    /\ IF jnForm.named
       THEN /\ jnForm' = [jnForm EXCEPT !.busy = TRUE, !.error = "none"]
            /\ jnStream' = NoStream
            /\ jnTouched' = [preview |-> TRUE, toggles |-> FALSE]
            /\ jnWant' = jnOn
       ELSE /\ jnForm' = [jnForm EXCEPT !.error = "name"]
            /\ UNCHANGED <<jnStream, jnTouched, jnWant>>
    /\ UNCHANGED <<jnOn, jnAsked, jnStray, jnScreen, jnPub, jnLink, jnSubs, jnPlays>>

\* The token: the lobby unmounts (teardown, and the effect is cancelled).
JnToken ==
    /\ jnScreen = "lobby"
    /\ jnForm.busy
    /\ jnScreen' = "connecting"
    /\ jnAsked' = JnCancelled
    /\ jnStream' = NoStream
    /\ jnForm' = [jnForm EXCEPT !.busy = FALSE]
    /\ UNCHANGED <<jnOn, jnStray, jnTouched, jnCall>>

\* "room is locked", or any other failure: back to the form.
JnRefused ==
    /\ jnScreen = "lobby"
    /\ jnForm.busy
    /\ jnForm' = [jnForm EXCEPT !.busy = FALSE, !.error = "refused"]
    /\ UNCHANGED <<jnOn, jnAsked, jnStream, jnStray, jnTouched, jnScreen, jnCall>>

----
(* The connection.                                                          *)

\* A bug for comparison: audio subscribed before the stage mounts is not looked for.
JnMountAudioLate == [t \in JnTracks |-> 0]

\* RemoteAudio mounts with the stage and catches what is subscribed already.
JnMountAudio == [t \in JnTracks |-> IF t \in jnSubs THEN 1 ELSE 0]

\* Promise.all has all it waits for: setRoom, and the stage mounts.
JnShow(pub) ==
    IF \A d \in Devices : pub[d] \notin {"pending", "failed"}
    THEN jnScreen' = "room" /\ jnPlays' = JnMountAudio
    ELSE UNCHANGED <<jnScreen, jnPlays>>

JnConnected ==
    /\ jnScreen = "connecting"
    /\ ~jnLink
    /\ jnLink' = TRUE
    /\ jnPub' = [d \in Devices |-> IF d \in jnWant THEN "pending" ELSE "off"]
    /\ JnShow(jnPub')
    /\ UNCHANGED <<jnLobby, jnWant, jnSubs>>

JnConnectFails ==
    /\ jnScreen = "connecting"
    /\ ~jnLink
    /\ jnScreen' = "error"
    /\ UNCHANGED <<jnLobby, jnCall>>

\* A bug for comparison: the room is shown as soon as one device is live.
JnPublishedFirst(d) ==
    /\ jnPub[d] = "pending"
    /\ jnLink
    /\ jnPub' = [jnPub EXCEPT ![d] = "live"]
    /\ IF jnScreen = "connecting" THEN jnScreen' = "room" /\ jnPlays' = JnMountAudio
       ELSE UNCHANGED <<jnScreen, jnPlays>>
    /\ UNCHANGED <<jnLobby, jnWant, jnLink, jnSubs>>

\* A device goes live, though the screen may already show the other's failure.
JnPublished(d) ==
    /\ jnPub[d] = "pending"
    /\ jnLink
    /\ jnPub' = [jnPub EXCEPT ![d] = "live"]
    /\ IF jnScreen = "connecting" THEN JnShow(jnPub') ELSE UNCHANGED <<jnScreen, jnPlays>>
    /\ UNCHANGED <<jnLobby, jnWant, jnLink, jnSubs>>

\* A bug for comparison: nothing catches a device that cannot be published.
JnPublishFailsUncaught(d) ==
    /\ jnPub[d] = "pending"
    /\ jnPub' = [jnPub EXCEPT ![d] = "failed"]
    /\ UNCHANGED <<jnLobby, jnScreen, jnWant, jnLink, jnSubs, jnPlays>>

\* No device, no permission, or the link is gone: setError, if anyone still looks.
JnPublishFails(d) ==
    /\ jnPub[d] = "pending"
    /\ jnPub' = [jnPub EXCEPT ![d] = "failed"]
    /\ jnScreen' = IF jnScreen = "connecting" THEN "error" ELSE jnScreen
    /\ UNCHANGED <<jnLobby, jnWant, jnLink, jnSubs, jnPlays>>

JnSubscribed(t) ==
    /\ jnLink
    /\ t \notin jnSubs
    /\ jnSubs' = jnSubs \cup {t}
    /\ jnPlays' = IF jnScreen = "room" THEN [jnPlays EXCEPT ![t] = @ + 1] ELSE jnPlays
    /\ UNCHANGED <<jnLobby, jnScreen, jnWant, jnPub, jnLink>>

JnUnsubscribed(t) ==
    /\ t \in jnSubs
    /\ jnSubs' = jnSubs \ {t}
    /\ jnPlays' = [jnPlays EXCEPT ![t] = 0]
    /\ UNCHANGED <<jnLobby, jnScreen, jnWant, jnPub, jnLink>>

\* onLeave, by the user or because the server ended the connection: the call
\* unmounts, disconnects and lets its devices go.
JnLeave ==
    /\ jnScreen \in {"error", "room"} \/ (jnScreen = "connecting" /\ jnLink)
    /\ jnScreen' = "left"
    /\ jnLink' = FALSE
    /\ jnPub' = [d \in Devices |-> IF jnPub[d] = "live" THEN "off" ELSE jnPub[d]]
    /\ jnSubs' = {}
    /\ jnPlays' = [t \in JnTracks |-> 0]
    /\ UNCHANGED <<jnLobby, jnWant>>

\* A new visit, when the awaits of the last one have settled.
JnAgain ==
    /\ jnScreen = "left"
    /\ \A d \in Devices : jnPub[d] # "pending"
    /\ jnScreen' = "lobby"
    /\ jnOn' = {}
    /\ jnForm' = [JnFreshLobby.form EXCEPT !.named = jnForm.named]
    /\ jnTouched' = JnFreshLobby.touched
    /\ jnWant' = {}
    /\ jnPub' = [d \in Devices |-> "off"]
    /\ UNCHANGED <<jnAsked, jnStream, jnStray, jnLink, jnSubs, jnPlays>>

\* Steps the code waits for.
JnAnswers ==
    \/ \E i \in JnAsks : JnGranted(i) \/ JnDenied(i)
    \/ JnToken
    \/ JnRefused
    \/ JnConnected
    \/ JnConnectFails
    \/ \E d \in Devices : JnPublished(d) \/ JnPublishFails(d)

JnNext ==
    \/ \E d \in Devices : JnToggle(d)
    \/ JnTypeName
    \/ JnJoin
    \/ JnAnswers
    \/ \E t \in JnTracks : JnSubscribed(t) \/ JnUnsubscribed(t)
    \/ JnLeave
    \/ JnAgain

\* Requests to the backend and to LiveKit are answered.  The browser's device
\* prompt, which publishing awaits, may stay unanswered for ever.
JnFairness ==
    /\ WF_jnVars(JnToken \/ JnRefused)
    /\ WF_jnVars(JnConnected \/ JnConnectFails)

JnSpec == JnInit /\ [][JnNext]_jnVars /\ JnFairness

----
(* Properties.                                                              *)

\* However the toggles and the answers to the device prompt cross, the lobby holds
\* at most the one stream it can stop, it holds none once the call has the devices,
\* and it previews exactly the devices that are on, unless a request is pending, was
\* denied, or a join has torn the preview down (Lobby.tsx:106, "if (cancelled)").
JnPreview ==
    /\ ~jnStray
    /\ jnScreen # "lobby" => jnStream = NoStream
    /\ jnStream \in {NoStream, jnOn}
    /\ jnScreen = "lobby" /\ ~jnTouched.preview /\ (\A i \in JnAsks : ~jnAsked[i].live)
       => jnStream = jnOn

\* "Show the room as soon as the user is connected and publishing": the room is not
\* shown before every wanted device is live, no other device is, and what is wanted
\* is what the lobby shows as on, unless it was toggled while the token was awaited.
JnRoomIsLive ==
    /\ jnScreen = "room" => \A d \in Devices : (jnPub[d] = "live") <=> (d \in jnWant)
    /\ jnScreen \notin {"lobby", "left"} /\ ~jnTouched.toggles => jnWant = jnOn

\* Everyone who is subscribed to is heard exactly once while the call is shown
\* (RemoteAudio.tsx: "Catch audio tracks already subscribed before this component
\* mounted").
JnHeard ==
    jnScreen = "room" => \A t \in JnTracks : jnPlays[t] = IF t \in jnSubs THEN 1 ELSE 0

\* The spinner ends, in the room, in an error or by leaving, whatever order the
\* connection and the two devices settle in, unless a device's prompt is never
\* answered: nothing else can keep it up (hooks.ts:113, "don't make them stare at
\* the spinner").
JnSpinnerEnds ==
    \/ []<>(jnScreen # "connecting")
    \/ \E d \in Devices : <>[](jnPub[d] = "pending")
=============================================================================
