------------------------------ MODULE Reactions ------------------------------
(***************************************************************************)
(* Floating reactions (frontend/src/lib/datachannel.ts useReactions,       *)
(* components/ReactionsOverlay.tsx): each one shown has a timer of its     *)
(* own, of a random length; one's own is shown after it is published.      *)
(***************************************************************************)
EXTENDS FiniteSets, Naturals

CONSTANTS
    RxMax,  \* reactions in all
    RxSpans \* how long a reaction may float, in ticks

ASSUME RxAssumption == RxMax \in Nat /\ RxSpans \subseteq Nat

VARIABLES
    rxHere,    \* the call is mounted
    rxSending, \* own reactions being published
    rxCounter, \* the next reaction's number
    rxActive,  \* the reactions on the overlay
    rxTimers,  \* the removal timers: ticks left, by reaction
    rxLate     \* history: reactions spawned after the call unmounted

rxVars == <<rxHere, rxSending, rxCounter, rxActive, rxTimers, rxLate>>

RxTypeOK ==
    /\ rxHere \in BOOLEAN
    /\ rxSending \in 0..RxMax
    /\ rxCounter \in 0..RxMax
    /\ rxActive \in SUBSET (0..RxMax)
    /\ \E S \in SUBSET (0..RxMax) : rxTimers \in [S -> Nat]
    /\ rxLate \in SUBSET (0..RxMax)

RxInit ==
    /\ rxHere = TRUE
    /\ rxSending = 0
    /\ rxCounter = 0
    /\ rxActive = {}
    /\ rxTimers = [r \in {} |-> 0]
    /\ rxLate = {}

RxSpawn ==
    \E span \in RxSpans :
        /\ rxCounter' = rxCounter + 1
        /\ rxActive' = rxActive \cup {rxCounter}
        /\ rxTimers' = [r \in DOMAIN rxTimers \cup {rxCounter} |->
                          IF r = rxCounter THEN span ELSE rxTimers[r]]
        /\ rxLate' = IF rxHere THEN rxLate ELSE rxLate \cup {rxCounter}

\* Bound: RxMax reactions.
RxSend ==
    /\ rxHere
    /\ rxCounter + rxSending < RxMax
    /\ rxSending' = rxSending + 1
    /\ UNCHANGED <<rxHere, rxCounter, rxActive, rxTimers, rxLate>>

\* Published, perhaps after the call has gone; or not, and nothing is shown.
RxSent ==
    /\ rxSending > 0
    /\ rxSending' = rxSending - 1
    /\ RxSpawn \/ UNCHANGED <<rxCounter, rxActive, rxTimers, rxLate>>
    /\ UNCHANGED rxHere

RxReceive ==
    /\ rxHere
    /\ rxCounter + rxSending < RxMax
    /\ RxSpawn
    /\ UNCHANGED <<rxHere, rxSending>>

\* A bug for comparison: the oldest one shown is taken away.
RxRemovedOldest(r) == rxActive \ {CHOOSE x \in rxActive : \A y \in rxActive : x <= y}

\* A timer takes away its own reaction, whichever order they end in.
RxRemoved(r) == rxActive \ {r}

RxTick ==
    /\ DOMAIN rxTimers # {}
    /\ \A r \in DOMAIN rxTimers : rxTimers[r] > 0
    /\ rxTimers' = [r \in DOMAIN rxTimers |-> rxTimers[r] - 1]
    /\ UNCHANGED <<rxHere, rxSending, rxCounter, rxActive, rxLate>>

RxExpire(r) ==
    /\ r \in DOMAIN rxTimers
    /\ rxTimers[r] = 0
    /\ rxActive' = RxRemoved(r)
    /\ rxTimers' = [x \in DOMAIN rxTimers \ {r} |-> rxTimers[x]]
    /\ UNCHANGED <<rxHere, rxSending, rxCounter, rxLate>>

\* The cleanup clears the timers; the overlay goes with the call.
RxUnmount ==
    /\ rxHere
    /\ rxHere' = FALSE
    /\ rxActive' = {}
    /\ rxTimers' = [r \in {} |-> 0]
    /\ UNCHANGED <<rxSending, rxCounter, rxLate>>

RxNext ==
    \/ RxSend
    \/ RxSent
    \/ RxReceive
    \/ RxTick
    \/ \E r \in 0..RxMax : RxExpire(r)
    \/ RxUnmount

\* Time passes and due timers fire.
RxFairness == WF_rxVars(RxTick) /\ WF_rxVars(\E r \in 0..RxMax : RxExpire(r))

RxSpec == RxInit /\ [][RxNext]_rxVars /\ RxFairness

----
(* Properties.                                                              *)

\* Every reaction on the overlay has its own timer still to come, and no timer
\* outlives the call except of a reaction whose sending ended after it.
RxTimed ==
    /\ rxActive = DOMAIN rxTimers
    /\ ~rxHere => DOMAIN rxTimers \subseteq rxLate

\* The overlay always empties again, unless new reactions keep coming.
RxAllGo == \A r \in 0..RxMax : (r \in rxActive) ~> (r \notin rxActive)
=============================================================================
