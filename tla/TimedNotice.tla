---------------------------- MODULE TimedNotice ----------------------------
(***************************************************************************)
(* Notices of the call that go by themselves: "muted by the host"          *)
(* (frontend/src/lib/moderation.ts), a moment of recognition (moment.ts,   *)
(* MomentOverlay.tsx), a side-room invitation (sideroom.ts) and a device   *)
(* error (MeetControls.tsx).  Each keeps one notice and the timers that    *)
(* clear it; a new notice may arrive while an older one is still shown.    *)
(***************************************************************************)
EXTENDS Naturals

CONSTANTS
    NtNotices, \* what can be shown
    NoNotice,
    NtSpan     \* how long each kind's timers run, in ticks

ASSUME NtAssumption == NoNotice \notin NtNotices /\ NtSpan \in Nat \ {0}

NtKinds == {"muted", "moment", "invite", "error"}

VARIABLES
    ntKind,   \* which of the four this is
    ntShown,  \* the notice, or NoNotice
    ntTimers, \* ticks left on the timers that will clear it
    ntAge     \* history: ticks since the notice was last shown

ntVars == <<ntKind, ntShown, ntTimers, ntAge>>

\* A moment has two: the overlay's own end, and a later fallback.
NtTimesOf(kind) == IF kind = "moment" THEN {NtSpan, NtSpan + 1} ELSE {NtSpan}

NtTypeOK ==
    /\ ntKind \in NtKinds
    /\ ntShown \in NtNotices \cup {NoNotice}
    /\ ntTimers \in SUBSET (1..NtSpan + 1)
    /\ ntAge \in 0..NtSpan + 1

NtInit ==
    /\ ntKind \in NtKinds
    /\ ntShown = NoNotice
    /\ ntTimers = {}
    /\ ntAge = 0

\* A bug for comparison: the timer of the notice before is left running.
NtRestartKeeping(times) == ntTimers \cup times

\* The timer is started anew.
NtRestart(times) == times

NtShow(n) ==
    /\ ntShown' = n
    /\ ntTimers' = NtRestart(NtTimesOf(ntKind))
    /\ ntAge' = 0
    /\ UNCHANGED ntKind

\* The message names its target; everybody else ignores it.
NtMuted(n) == ntKind = "muted" /\ NtShow(n)

\* A moment from another, or one's own, which is shown even if sending fails.
NtMoment(n) == ntKind = "moment" /\ NtShow(n)

NtInvited(n) == ntKind = "invite" /\ NtShow(n)

\* mediaFail: the effect that times the toast runs again only for another text.
NtDeviceFails(n) == ntKind = "error" /\ ntShown # n /\ NtShow(n)

NtCleared ==
    /\ ntShown' = NoNotice
    /\ ntTimers' = {}
    /\ ntAge' = 0
    /\ UNCHANGED ntKind

\* Dismissed by the user; a muted-by-host notice cannot be.
NtDismiss ==
    /\ ntKind # "muted"
    /\ ntShown # NoNotice
    /\ NtCleared

\* The call unmounts: its notice and timers go with it.
NtUnmount == ntShown # NoNotice /\ NtCleared

\* A bug for comparison: the timers run one tick too long.
NtTickLate ==
    /\ ntTimers # {}
    /\ IF 0 \in ntTimers THEN NtCleared
       ELSE /\ ntTimers' = {t - 1 : t \in ntTimers}
            /\ ntAge' = ntAge + 1
            /\ UNCHANGED <<ntShown, ntKind>>

\* Time, and what is due: the first timer clears the notice, and the overlay of a
\* moment takes the later one with it.
NtTick ==
    /\ ntTimers # {}
    /\ IF 1 \in ntTimers THEN NtCleared
       ELSE /\ ntTimers' = {t - 1 : t \in ntTimers}
            /\ ntAge' = ntAge + 1
            /\ UNCHANGED <<ntShown, ntKind>>

NtNext ==
    \/ \E n \in NtNotices : NtMuted(n) \/ NtMoment(n) \/ NtInvited(n) \/ NtDeviceFails(n)
    \/ NtDismiss
    \/ NtUnmount
    \/ NtTick

\* Time passes.
NtFairness == WF_ntVars(NtTick)

NtSpec == NtInit /\ [][NtNext]_ntVars /\ NtFairness

----
(* Properties.                                                              *)

\* Every notice has its full time: the timers that run are the shown notice's own,
\* and never one left over from a notice before it.
NtOwnTimer ==
    /\ ntTimers = {t - ntAge : t \in IF ntShown = NoNotice THEN {} ELSE NtTimesOf(ntKind)}
    /\ ntAge < NtSpan

\* Every notice goes by itself, unless another one takes its place.
NtGoes ==
    \A n \in NtNotices : (ntShown = n /\ ntAge > 0) ~> (ntShown # n \/ ntAge = 0)
=============================================================================
