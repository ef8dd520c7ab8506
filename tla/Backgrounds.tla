---------------------------- MODULE Backgrounds ----------------------------
(***************************************************************************)
(* The camera background of a call (frontend/src/lib/backgrounds.ts and    *)
(* useCallBackground in hooks.ts).  Choosing is synchronous; applying a    *)
(* choice to the live camera track is asynchronous (the segmenter is       *)
(* downloaded, the processor initialised), so applies are chained on one   *)
(* promise.  The track may be replaced while applies to it are pending.    *)
(***************************************************************************)
EXTENDS Naturals, Sequences

CONSTANTS
    BgEffects,  \* the presets other than "none"
    BgNone,     \* the preset "none"
    NoProc,     \* a track without a processor
    BgTracks,   \* bound: camera tracks published in one call
    BgMaxQueue  \* bound: applies pending at once

ASSUME BgAssumption ==
    /\ BgNone \notin BgEffects
    /\ NoProc \notin BgEffects \cup {BgNone}
    /\ BgTracks \in Nat
    /\ BgMaxQueue \in Nat

BgIds == BgEffects \cup {BgNone}
NoTrack == 0

VARIABLES
    bgChoice, \* bgRef: the preset marked as chosen
    bgSaved,  \* localStorage "cc-bg"
    bgTrack,  \* the live camera track, or NoTrack
    bgUsed,   \* tracks published so far
    bgChain,  \* applyChain: the applies not yet settled, in order
    bgProc,   \* the mode of each track's processor, or NoProc
    bgFailed  \* history: the last apply to the live track failed, or fell back to none

bgVars == <<bgChoice, bgSaved, bgTrack, bgUsed, bgChain, bgProc, bgFailed>>

\* How far an apply has come: it waits its turn, or awaits switchTo,
\* stopProcessor, or the import and setProcessor.
BgPhases == {"queued", "switching", "stopping", "building"}
BgJobs == [track : 1..BgTracks, id : BgIds, at : BgPhases]

BgTypeOK ==
    /\ bgChoice \in BgIds
    /\ bgSaved \in BgIds
    /\ bgTrack \in 0..BgTracks
    /\ bgUsed \in 0..BgTracks
    /\ bgChain \in Seq(BgJobs)
    /\ bgProc \in [1..BgTracks -> BgIds \cup {NoProc}]
    /\ bgFailed \in BOOLEAN

\* A bug for comparison: "none" needs no download, so it goes first.
BgChainedNoneFirst(chain, track, id) ==
    IF id = BgNone THEN <<[track |-> track, id |-> id, at |-> "queued"]>> \o chain
    ELSE Append(chain, [track |-> track, id |-> id, at |-> "queued"])

\* applyToCamera: nothing without a track, else one more link of the chain.
BgChained(chain, track, id) ==
    Append(chain, [track |-> track, id |-> id, at |-> "queued"])
BgApply(track, id) ==
    bgChain' = IF track = NoTrack THEN bgChain ELSE BgChained(bgChain, track, id)

\* The call's page mounts, with or without a live camera; the mount effect
\* applies the remembered choice to a camera that is already live.
BgMounted(live, saved) ==
    IF live = NoTrack \/ saved = BgNone THEN <<>> ELSE BgChained(<<>>, live, saved)

BgInit ==
    /\ bgSaved \in BgIds
    /\ bgChoice = bgSaved
    /\ bgTrack \in 0..(IF BgTracks = 0 THEN 0 ELSE 1)
    /\ bgUsed = bgTrack
    /\ bgChain = BgMounted(bgTrack, bgSaved)
    /\ bgProc = [t \in 1..BgTracks |-> NoProc]
    /\ bgFailed = FALSE

\* setBackground; saving may fail.
BgSet(id) ==
    /\ Len(bgChain) < BgMaxQueue
    /\ bgChoice' = id
    /\ bgSaved' \in {id, bgSaved}
    /\ BgApply(bgTrack, id)
    /\ UNCHANGED <<bgTrack, bgUsed, bgProc, bgFailed>>

\* LocalTrackPublished for the camera: a new track, and what is chosen now.
BgPublished ==
    /\ bgUsed < BgTracks
    /\ Len(bgChain) < BgMaxQueue
    /\ bgUsed' = bgUsed + 1
    /\ bgTrack' = bgUsed + 1
    /\ BgApply(bgUsed + 1, bgChoice)
    /\ bgFailed' = FALSE
    /\ UNCHANGED <<bgChoice, bgSaved, bgProc>>

\* The camera's publication goes; applies to its track stay in the chain.
BgUnpublished ==
    /\ bgTrack # NoTrack
    /\ bgTrack' = NoTrack
    /\ bgFailed' = FALSE
    /\ UNCHANGED <<bgChoice, bgSaved, bgUsed, bgChain, bgProc>>

\* The next call of the tab: a new chain, and the choice read back.
BgRemount ==
    /\ bgUsed < BgTracks
    /\ bgChoice' = bgSaved
    /\ \E live \in {NoTrack, bgUsed + 1} :
          /\ bgTrack' = live
          /\ bgUsed' = IF live = NoTrack THEN bgUsed ELSE live
          /\ bgChain' = BgMounted(live, bgSaved)
    /\ bgFailed' = FALSE
    /\ UNCHANGED <<bgSaved, bgProc>>

\* applyBackground decides by the track's processor as its turn comes.
BgPhase(job) ==
    IF bgProc[job.track] # NoProc THEN "switching"
    ELSE IF job.id = BgNone THEN "stopping" ELSE "building"

BgStart ==
    /\ bgChain # <<>>
    /\ Head(bgChain).at = "queued"
    /\ bgChain' = <<[Head(bgChain) EXCEPT !.at = BgPhase(Head(bgChain))]>> \o Tail(bgChain)
    /\ UNCHANGED <<bgChoice, bgSaved, bgTrack, bgUsed, bgProc, bgFailed>>

\* An await of the head settles, well or not; .catch lets the chain go on.
BgSettled(failed, procs) ==
    /\ bgChain # <<>>
    /\ Head(bgChain).at # "queued"
    /\ bgChain' = Tail(bgChain)
    /\ \E p \in procs : bgProc' = [bgProc EXCEPT ![Head(bgChain).track] = p]
    /\ bgFailed' = IF Head(bgChain).track = bgTrack THEN failed ELSE bgFailed
    /\ UNCHANGED <<bgChoice, bgSaved, bgTrack, bgUsed>>

\* What the head's await leaves on its track when it succeeds and when it fails:
\* setProcessor takes the old processor away before it builds the new one.  An
\* image that cannot be drawn fails as well, though silently: targetMode turns the
\* preset into "disabled", which clears the track or switches its processor off.
BgLeft(job) == IF job.at = "stopping" THEN NoProc ELSE job.id
BgLeftFailing(job) ==
    IF job.at = "switching" THEN {job.id, bgProc[job.track], BgNone} ELSE {NoProc}

BgDone == BgSettled(FALSE, {BgLeft(Head(bgChain))})
BgFails == BgSettled(TRUE, BgLeftFailing(Head(bgChain)))

BgNext ==
    \/ \E id \in BgIds : BgSet(id)
    \/ BgPublished
    \/ BgUnpublished
    \/ BgRemount
    \/ BgStart
    \/ BgDone
    \/ BgFails

\* The browser settles what it was asked: an apply that was started ends, and
\* the next link of a promise chain runs.
BgFairness == WF_bgVars(BgStart \/ BgDone \/ BgFails)

BgSpec == BgInit /\ [][BgNext]_bgVars /\ BgFairness

----
(* Properties.                                                              *)

BgShown == IF bgTrack = NoTrack THEN BgNone
           ELSE IF bgProc[bgTrack] = NoProc THEN BgNone ELSE bgProc[bgTrack]

\* The ids still to be applied to the live track, in order: they come after every
\* apply to a track before it.
BgOlder ==
    LET others == {i \in DOMAIN bgChain : bgChain[i].track # bgTrack}
    IN  IF others = {} THEN 0 ELSE CHOOSE i \in others : \A j \in others : j <= i
BgPending == [i \in 1..Len(bgChain) - BgOlder |-> bgChain[BgOlder + i].id]

\* Once the user and the camera leave it alone, the live track comes to show the
\* chosen preset and keeps it, or the last apply to it failed or fell back to none
\* (hooks.ts:232: an apply "can't finish before an in-flight apply and leave the
\* wrong effect on the track").
BgEventuallyShown ==
    \A id \in BgIds, t \in 1..BgTracks :
        <>[](bgChoice = id /\ bgTrack = t) => <>[](bgFailed \/ BgShown = id)

\* "order-preserving, latest wins": as the live track sees it, the chain is a
\* serialised switch.
LW == INSTANCE LatestWins WITH Wishes <- BgIds, Off <- BgNone,
                               shown <- BgShown, queue <- BgPending
BgLatestWins == LW!Spec
=============================================================================
