--------------------------- MODULE Transcription ---------------------------
(***************************************************************************)
(* Live transcription of one's own microphone and the shared transcript    *)
(* (frontend/src/lib/transcription.ts, TranscriptPanel.tsx).  The          *)
(* recogniser's pipeline is built after an await, the download of its      *)
(* model, while the user toggles and the microphone is published anew.     *)
(***************************************************************************)
EXTENDS Naturals, Sequences

CONSTANTS
    TrMics,    \* microphone tracks
    NoMic,
    TrMaxBuilds, \* bound: builds awaiting the model at once
    TrMaxSegments \* bound: the transcript's length

ASSUME TrAssumption == NoMic \notin TrMics

VARIABLES
    trOn,      \* enabled
    trLoading, \* loading: the panel's button reads "Loading"
    trFailed,  \* failed
    trMic,     \* the published microphone, or NoMic
    trModel,   \* modelPromise: none, loading or ready
    trBuilds,  \* builds that await the model: the track captured, and not cancelled
    trPipe,    \* the microphone the pipeline listens to, or NoMic
    trText,    \* segments: one's own or another's, in order
    trSwitched \* history: the microphone changed while a build awaited the model

trVars == <<trOn, trLoading, trFailed, trMic, trModel, trBuilds, trPipe, trText, trSwitched>>

TrTypeOK ==
    /\ trOn \in BOOLEAN
    /\ trLoading \in BOOLEAN
    /\ trFailed \in BOOLEAN
    /\ trMic \in TrMics \cup {NoMic}
    /\ trModel \in {"none", "loading", "ready"}
    /\ trBuilds \in Seq([mic : TrMics, live : BOOLEAN])
    /\ trPipe \in TrMics \cup {NoMic}
    /\ trText \in Seq({"mine", "remote"})
    /\ trSwitched \in BOOLEAN

TrInit ==
    /\ trOn = FALSE
    /\ trLoading = FALSE
    /\ trFailed = FALSE
    /\ trMic \in TrMics \cup {NoMic}
    /\ trModel = "none"
    /\ trBuilds = <<>>
    /\ trPipe = NoMic
    /\ trText = <<>>
    /\ trSwitched = FALSE

TrAwaiting == \E i \in DOMAIN trBuilds : trBuilds[i].live

\* build, up to its await: the microphone is captured, the model asked for.
TrBuild(mic, builds) ==
    IF mic = NoMic
    THEN trBuilds' = builds /\ UNCHANGED <<trLoading, trModel>>
    ELSE /\ Len(builds) < TrMaxBuilds
         /\ trBuilds' = Append(builds, [mic |-> mic, live |-> TRUE])
         /\ trLoading' = TRUE
         /\ trModel' = IF trModel = "none" THEN "loading" ELSE trModel

\* The cleanup of the effect: what was begun for it is cancelled.
TrCancelled == [i \in DOMAIN trBuilds |-> [trBuilds[i] EXCEPT !.live = FALSE]]

TrToggle ==
    /\ trFailed' = FALSE
    /\ trOn' = ~trOn
    /\ trPipe' = NoMic
    /\ IF trOn THEN trBuilds' = TrCancelled /\ UNCHANGED <<trLoading, trModel>>
       ELSE TrBuild(trMic, trBuilds)
    /\ trSwitched' = FALSE
    /\ UNCHANGED <<trMic, trText>>

\* rewire: the pipeline is torn down and built for the new microphone.
TrPublished(mic) ==
    /\ trMic' = mic
    /\ trPipe' = NoMic
    /\ IF trOn THEN TrBuild(mic, trBuilds) ELSE UNCHANGED <<trBuilds, trLoading, trModel>>
    /\ trSwitched' = (trSwitched \/ TrAwaiting)
    /\ UNCHANGED <<trOn, trFailed, trText>>

TrUnpublished ==
    /\ trMic # NoMic
    /\ trMic' = NoMic
    /\ trPipe' = NoMic
    /\ trSwitched' = (trSwitched \/ TrAwaiting)
    /\ UNCHANGED <<trOn, trLoading, trFailed, trModel, trBuilds, trText>>

\* A bug for comparison: a build that was cancelled meanwhile goes on.
TrFirstAny(builds) == IF builds = <<>> THEN NoMic ELSE Head(builds).mic

\* The microphone of the first build that nobody cancelled.
TrFirst(builds) ==
    LET live == {i \in DOMAIN builds : builds[i].live}
    IN  IF live = {} THEN NoMic ELSE builds[CHOOSE i \in live : \A j \in live : i <= j].mic

\* The model is there: the builds go on in order.  The first makes the pipeline,
\* the later ones find it made.
TrLoaded ==
    /\ trBuilds # <<>>
    /\ trModel' = "ready"
    /\ trPipe' = IF trPipe = NoMic THEN TrFirst(trBuilds) ELSE trPipe
    /\ trLoading' = IF TrAwaiting THEN FALSE ELSE trLoading
    /\ trBuilds' = <<>>
    /\ UNCHANGED <<trOn, trFailed, trMic, trText, trSwitched>>

\* A bug for comparison: a rejected download is kept.
TrLoadFailsKept ==
    /\ trBuilds # <<>>
    /\ trModel = "loading"
    /\ trLoading' = IF TrAwaiting THEN FALSE ELSE trLoading
    /\ trBuilds' = <<>>
    /\ UNCHANGED <<trOn, trFailed, trMic, trModel, trPipe, trText, trSwitched>>

\* The download fails: it is forgotten, so that it can be retried, and
\* transcription switches itself off if it is still wanted.
TrLoadFails ==
    /\ trBuilds # <<>>
    /\ trModel = "loading"
    /\ trModel' = "none"
    /\ trBuilds' = <<>>
    /\ IF TrAwaiting
       THEN trFailed' = TRUE /\ trOn' = FALSE /\ trLoading' = FALSE /\ trPipe' = NoMic
       ELSE UNCHANGED <<trFailed, trOn, trLoading, trPipe>>
    /\ UNCHANGED <<trMic, trText, trSwitched>>

\* The recogniser's result, and a segment of somebody else.
TrSegment(whose) ==
    /\ Len(trText) < TrMaxSegments
    /\ whose = "mine" => trPipe # NoMic
    /\ trText' = Append(trText, whose)
    /\ UNCHANGED <<trOn, trLoading, trFailed, trMic, trModel, trBuilds, trPipe, trSwitched>>

TrClear ==
    /\ trText # <<>>
    /\ trText' = <<>>
    /\ UNCHANGED <<trOn, trLoading, trFailed, trMic, trModel, trBuilds, trPipe, trSwitched>>

TrNext ==
    \/ TrToggle
    \/ \E mic \in TrMics : TrPublished(mic)
    \/ TrUnpublished
    \/ TrLoaded
    \/ TrLoadFails
    \/ \E whose \in {"mine", "remote"} : TrSegment(whose)
    \/ TrClear

\* The download of the model ends, well or not.
TrFairness == WF_trVars(TrLoaded \/ TrLoadFails)

TrSpec == TrInit /\ [][TrNext]_trVars /\ TrFairness

----
(* Properties.                                                              *)

\* "Rebuilt whenever the local mic (re)publishes so mute/unmute and device switches
\* keep working" (transcription.ts:109): the pipeline listens to the microphone
\* that is published.
TrHearsTheMic == trPipe # NoMic => trPipe = trMic

\* What does hold of it: there is a pipeline only while transcription is on, and it
\* listens to the published microphone unless that changed during a download; and
\* while it is on with a microphone and nothing pending, there is one.
TrPipeline ==
    /\ trPipe # NoMic => trOn
    /\ ~trSwitched => TrHearsTheMic
    /\ trOn /\ trMic # NoMic /\ ~TrAwaiting => trPipe # NoMic

\* Whoever switches transcription on hears, by and by, whether it works: it stops
\* loading, and runs, is off again, or has no microphone to listen to.
TrStarts == trOn ~> (~trOn \/ trMic = NoMic \/ (trPipe # NoMic /\ ~trLoading))
=============================================================================
