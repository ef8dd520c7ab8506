------------------------------- MODULE Stage -------------------------------
(***************************************************************************)
(* What the call shows of its participants, as they come and go            *)
(* (frontend/src/lib/hooks.ts and raisehand.ts; FocusView, GridView,       *)
(* SoloStage and ParticipantTile; the mini window's choice of a picture).  *)
(* Pins and active speakers outlive the participants they name.            *)
(***************************************************************************)
EXTENDS Integers, Sequences, FiniteSets, SequencesExt

CONSTANTS
    StLocal,   \* the local participant
    StOthers,  \* the others
    NoPin,
    StGone,    \* the sid, or the object, of someone who has left
    StMaxTime  \* bound: the time stamps of raised hands

StAll == {StLocal} \cup StOthers

ASSUME StAssumption ==
    /\ StLocal \notin StOthers
    /\ NoPin \notin StAll /\ StGone \notin StAll
    /\ StMaxTime \in Nat
StMedia == SUBSET {"cam", "screen"}

VARIABLES
    stHere,     \* the others in the room, in the order they came
    stMedia,    \* unmuted video tracks of each participant
    stSpeakers, \* room.activeSpeakers, which may name someone who left
    stPinned,   \* pinnedSid of the FocusView
    stView,     \* tiled or sidebar
    stHand      \* handRaised: the time stamp of each raised hand, or 0

stVars == <<stHere, stMedia, stSpeakers, stPinned, stView, stHand>>

StTypeOK ==
    /\ stHere \in Seq(StOthers)
    /\ stMedia \in [StAll -> StMedia]
    /\ stSpeakers \in Seq(StAll \cup {StGone})
    /\ stPinned \in StAll \cup {NoPin, StGone}
    /\ stView \in {"tiled", "sidebar"}
    /\ stHand \in [StAll -> 0..StMaxTime]

StInit ==
    /\ stHere = <<>>
    /\ stMedia = [p \in StAll |-> {}]
    /\ stSpeakers = <<>>
    /\ stPinned = NoPin
    /\ stView = "tiled"
    /\ stHand = [p \in StAll |-> 0]

\* useParticipants: the local one first.
StParticipants == <<StLocal>> \o stHere

\* The first element of s that satisfies P, else d (find ... ??).
StFirst(s, P(_), d) ==
    LET found == {i \in DOMAIN s : P(s[i])} IN IF found = {} THEN d ELSE s[Min(found)]

\* useActiveSpeaker: who left is passed over.
StActiveSpeaker ==
    StFirst(stSpeakers, LAMBDA p : p \in Range(StParticipants), StLocal)

\* FocusView: the sharer, else the pinned one, else the active speaker.
StSharer == StFirst(StParticipants, LAMBDA p : "screen" \in stMedia[p], NoPin)
StMain ==
    IF StSharer # NoPin THEN StSharer
    ELSE IF stPinned \in Range(StParticipants) THEN stPinned
    ELSE StActiveSpeaker
StStrip == Range(StParticipants) \ {StMain}

\* CallStage: alone, a lead with a film strip, or a grid.
StLayout ==
    IF Len(StParticipants) <= 1 THEN "solo"
    ELSE IF StSharer # NoPin \/ stView = "sidebar" THEN "focus" ELSE "grid"

\* ParticipantTile: the screen before the camera, else initials.
StTile(p) ==
    IF "screen" \in stMedia[p] THEN "screen"
    ELSE IF "cam" \in stMedia[p] THEN "cam" ELSE "initials"

\* SoloStage shows only the camera.
StSolo == IF "cam" \in stMedia[StLocal] THEN "cam" ELSE "initials"

\* Who has a tile in the grid, and in the lead with its film strip.
StGrid == Range(StParticipants)
StFocus == {StMain} \cup StStrip

\* What the page shows: each tile's participant and content.
StShown ==
    IF StLayout = "solo" THEN {<<StLocal, StSolo>>}
    ELSE {<<p, StTile(p)>> : p \in IF StLayout = "grid" THEN StGrid ELSE StFocus}

\* videoTrack of the mini window: other speakers, then everyone, then oneself; the
\* first who has a picture, the screen before the camera.
StMini ==
    LET seen(p) == p \in StAll /\ stMedia[p] # {}
        who == StFirst(stSpeakers, LAMBDA p : p # StLocal /\ seen(p),
                       StFirst(stHere \o <<StLocal>>, seen, NoPin))
    IN  IF who = NoPin THEN <<NoPin, "initials">> ELSE <<who, StTile(who)>>

StRaised == {p \in Range(StParticipants) : stHand[p] # 0}

\* The list a page starts from: the viewer before everyone else.
StPlace(viewer, p) ==
    IF p = viewer THEN 0 ELSE CHOOSE i \in DOMAIN StParticipants : StParticipants[i] = p

\* A bug for comparison: the queue in the order of the list.
StBeforeUnsorted(viewer, p, q) == StPlace(viewer, p) < StPlace(viewer, q)

\* raisedHandQueue compares time stamps, and the sort is stable.
StBefore(viewer, p, q) ==
    \/ stHand[p] < stHand[q]
    \/ stHand[p] = stHand[q] /\ StPlace(viewer, p) < StPlace(viewer, q)

\* The sorted queue, as the page of viewer has it: whoever has i - 1 before them is at i.
StQueue(viewer) ==
    [i \in 1..Cardinality(StRaised) |->
       CHOOSE p \in StRaised : Cardinality({q \in StRaised : StBefore(viewer, q, p)}) = i - 1]

\* raiseRank, as the page of viewer shows it.
StRank(viewer, p) ==
    LET queue == StQueue(viewer)
    IN  IF p \in Range(queue) THEN CHOOSE i \in DOMAIN queue : queue[i] = p ELSE 0

----
\* The pin is state of the FocusView and goes with that layout.
StPinLives(pin) == stPinned' = IF StLayout' = "focus" THEN pin ELSE NoPin

StJoin(p) ==
    /\ p \notin Range(stHere)
    /\ stHere' = Append(stHere, p)
    /\ UNCHANGED <<stMedia, stSpeakers, stView, stHand>>
    /\ StPinLives(stPinned)

\* Tracks and attributes go with the participant; a pin and an entry among the
\* speakers stay, and name nobody any more.
StLeave(p) ==
    /\ \E i \in DOMAIN stHere : stHere[i] = p /\ stHere' = RemoveAt(stHere, i)
    /\ stMedia' = [stMedia EXCEPT ![p] = {}]
    /\ stHand' = [stHand EXCEPT ![p] = 0]
    /\ stSpeakers' = [i \in DOMAIN stSpeakers |-> IF stSpeakers[i] = p THEN StGone ELSE stSpeakers[i]]
    /\ UNCHANGED stView
    /\ StPinLives(IF stPinned = p THEN StGone ELSE stPinned)

StTrack(p, kind) ==
    /\ p \in Range(StParticipants)
    /\ stMedia' = [stMedia EXCEPT ![p] = IF kind \in @ THEN @ \ {kind} ELSE @ \cup {kind}]
    /\ UNCHANGED <<stHere, stSpeakers, stView, stHand>>
    /\ StPinLives(stPinned)

\* ActiveSpeakersChanged, from the server.
StSpeak(speakers) ==
    /\ Range(speakers) \subseteq Range(StParticipants)
    /\ stSpeakers' = speakers
    /\ UNCHANGED <<stHere, stMedia, stPinned, stView, stHand>>

\* A click on the film strip pins, one on the lead unpins.
StPin(p) ==
    /\ StLayout = "focus"
    /\ \/ p \in StStrip /\ stPinned' = p
       \/ p = StMain /\ stPinned \in Range(StParticipants) /\ stPinned' = NoPin
    /\ UNCHANGED <<stHere, stMedia, stSpeakers, stView, stHand>>

StSetView ==
    /\ stView' = IF stView = "tiled" THEN "sidebar" ELSE "tiled"
    /\ UNCHANGED <<stHere, stMedia, stSpeakers, stHand>>
    /\ StPinLives(stPinned)

\* toggleHand: a time stamp of the participant's own clock, or ''.
StToggleHand(p) ==
    /\ p \in Range(StParticipants)
    /\ \E now \in 1..StMaxTime :
          stHand' = [stHand EXCEPT ![p] = IF @ # 0 THEN 0 ELSE now]
    /\ UNCHANGED <<stHere, stMedia, stSpeakers, stPinned, stView>>

\* What changes the picture, and what changes the queue: neither reads the other.
StPictureNext ==
    \/ \E p \in StOthers : StJoin(p) \/ StLeave(p)
    \/ \E p \in StAll : StPin(p)
    \/ \E p \in StAll, kind \in {"cam", "screen"} : StTrack(p, kind)
    \/ \E s \in {<<>>} \cup {<<p>> : p \in StAll} : StSpeak(s)
    \/ StSetView

StQueueNext ==
    \/ \E p \in StOthers : StJoin(p) \/ StLeave(p)
    \/ \E p \in StAll : StToggleHand(p)

StNext == StPictureNext \/ StQueueNext

StSpec == StInit /\ [][StNext]_stVars

----
(* Properties.                                                              *)

\* Whoever left while pinned, speaking or sharing, the page shows everyone who is
\* here and nobody else, a shared screen leads unless one is alone, and the mini
\* window shows a picture somebody here has (hooks.ts:63, "Guard against a stale
\* active-speaker entry for someone who just left").
StShowsWhoIsHere ==
    /\ {t[1] : t \in StShown} = Range(StParticipants)
    /\ StLayout # "solo" /\ StSharer # NoPin => <<StMain, "screen">> \in StShown
    /\ StLayout = "focus" => StMain \in Range(StParticipants)
    /\ StMini[2] # "initials" => StMini[1] \in Range(StParticipants)

\* "So everyone can show the queue order (1, 2, 3...)": unless two hands carry the
\* same time, all pages give a raised hand the same number, and number in the order
\* of the stamps without a gap.
StOneQueue ==
    LET here == Range(StParticipants)
        raised == {p \in here : stHand[p] # 0}
    IN  (\A p, q \in raised : stHand[p] = stHand[q] => p = q)
        => \A viewer \in here, p \in raised :
              StRank(viewer, p) = Cardinality({q \in raised : stHand[q] <= stHand[p]})
=============================================================================
