----------------------------- MODULE MCCallMedia -----------------------------
(***************************************************************************)
(* The components of a call that own a device, a window or a timer, on     *)
(* small instances.  They share no state: each behaviour is one of one     *)
(* component, named by part, the others resting in an initial state in     *)
(* which no fair action of theirs is enabled.                              *)
(***************************************************************************)
EXTENDS Backgrounds, Joining, Transcription, ScreenShare, MiniWindow, TimedNotice, Reactions

CONSTANTS blur, green, t1, m1, m2, u1, u2, n1, n2

VARIABLE part

bgRest == UNCHANGED bgVars
jnRest == UNCHANGED jnVars
trRest == UNCHANGED trVars
shRest == UNCHANGED shVars
mwRest == UNCHANGED mwVars
ntRest == UNCHANGED ntVars
rxRest == UNCHANGED rxVars

Init ==
    /\ part \in {"bg", "jn", "tr", "sh", "mw", "nt", "rx"}
    /\ BgInit /\ JnInit /\ TrInit /\ ShInit /\ MwInit /\ NtInit /\ RxInit
    /\ part # "bg" => bgSaved = BgNone /\ bgTrack = 0
    /\ part # "jn" => jnForm.named
    /\ part # "tr" => trMic = NoMic
    /\ part # "nt" => ntKind = "muted"

Next ==
    /\ UNCHANGED part
    /\ \/ part = "bg" /\ BgNext /\ jnRest /\ trRest /\ shRest /\ mwRest /\ ntRest /\ rxRest
       \/ part = "jn" /\ JnNext /\ bgRest /\ trRest /\ shRest /\ mwRest /\ ntRest /\ rxRest
       \/ part = "tr" /\ TrNext /\ bgRest /\ jnRest /\ shRest /\ mwRest /\ ntRest /\ rxRest
       \/ part = "sh" /\ ShNext /\ bgRest /\ jnRest /\ trRest /\ mwRest /\ ntRest /\ rxRest
       \/ part = "mw" /\ MwNext /\ bgRest /\ jnRest /\ trRest /\ shRest /\ ntRest /\ rxRest
       \/ part = "nt" /\ NtNext /\ bgRest /\ jnRest /\ trRest /\ shRest /\ mwRest /\ rxRest
       \/ part = "rx" /\ RxNext /\ bgRest /\ jnRest /\ trRest /\ shRest /\ mwRest /\ ntRest

vars == <<part, bgVars, jnVars, trVars, shVars, mwVars, ntVars, rxVars>>

\* Each component's own fairness.
Spec ==
    /\ Init
    /\ [][Next]_vars
    /\ BgFairness /\ JnFairness /\ TrFairness /\ ShFairness /\ NtFairness /\ RxFairness

----
(* The components' properties, those of a kind together.                    *)

TypeOK == BgTypeOK /\ JnTypeOK /\ TrTypeOK /\ ShTypeOK /\ MwTypeOK /\ NtTypeOK /\ RxTypeOK

\* What the camera and microphone do is what the page shows them doing, in the
\* lobby's preview and in the room (Lobby.tsx, hooks.ts: useLiveKitRoom).
DevicesAsWanted == JnPreview /\ JnRoomIsLive

\* Whoever replaces what is shown replaces its timer too, and nobody else's
\* (moderation.ts, moment.ts, sideroom.ts, MeetControls.tsx, datachannel.ts).
OwnTimers == NtOwnTimer /\ RxTimed

\* What appears for a time goes away: notices, reactions, and a dialog about a screen
\* share that has ended (moderation.ts, moment.ts, sideroom.ts, datachannel.ts,
\* MeetControls.tsx).
NoticesGo == NtGoes /\ RxAllGo /\ ShDialogGoes

\* A screen share is one person's, and only ever begun on purpose (MeetControls.tsx).
SharesAsMeant == []ShOnePresenter /\ ShStopNeverStarts
=============================================================================
