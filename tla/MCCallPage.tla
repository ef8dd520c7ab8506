----------------------------- MODULE MCCallPage -----------------------------
(***************************************************************************)
(* The components of the page that keep what people see and say, on small  *)
(* instances.  They share no state: each behaviour is one of one           *)
(* component, named by part, the others resting in an initial state.       *)
(* The stage's picture and its queue of hands are two parts: who comes and *)
(* goes is in both, and nothing else of one is read by the other.          *)
(***************************************************************************)
EXTENDS Stage, Chat, HostPanel, Muting, Records, Attendance, PageAuth, Preferences,
        Faces, RoomNames, LobbyPresence, ShellCache, CallControls

CONSTANTS me, ann, bob, r1, r2

VARIABLE part

vars == <<part, stVars, chVars, hpVars, muVars, rcVars, atVars, paVars, pfVars, fcVars,
          rnVars, lpVars, scVars, ccVars>>

\* Everything but one component's variables rests.
callRest == UNCHANGED <<stVars, chVars, hpVars, muVars, ccVars>>
tabRest == UNCHANGED <<rcVars, atVars, paVars, pfVars>>
pureRest == UNCHANGED <<fcVars, rnVars, lpVars, scVars>>

Init ==
    /\ part \in {"st", "rh", "ch", "hp", "mu", "cc", "rc", "at", "pa", "pf", "fc", "rn", "lp", "sc"}
    /\ StInit /\ ChInit /\ HpInit /\ MuInit /\ RcInit /\ AtInit /\ PaInit /\ PfInit
    /\ FcInit /\ RnInit /\ LpInit /\ ScInit /\ CcInit
    /\ part # "hp" => ~hpMeta
    /\ part # "mu" => muMic = [u \in MuUsers |-> "on"]
    /\ part # "cc" => ~ccPage.host /\ ~ccPage.mobile
    /\ part # "rc" => rcPage.room = r1
    /\ part # "pa" => paCookie = 0
    /\ part # "pf" => pfStore.works
    /\ part # "sc" => scNet = "up"

CallNext ==
    \/ part = "st" /\ StPictureNext /\ UNCHANGED <<chVars, hpVars, muVars, ccVars>>
    \/ part = "rh" /\ StQueueNext /\ UNCHANGED <<chVars, hpVars, muVars, ccVars>>
    \/ part = "ch" /\ ChNext /\ UNCHANGED <<stVars, hpVars, muVars, ccVars>>
    \/ part = "hp" /\ HpNext /\ UNCHANGED <<stVars, chVars, muVars, ccVars>>
    \/ part = "mu" /\ MuNext /\ UNCHANGED <<stVars, chVars, hpVars, ccVars>>
    \/ part = "cc" /\ CcNext /\ UNCHANGED <<stVars, chVars, hpVars, muVars>>

TabNext ==
    \/ part = "rc" /\ RcNext /\ UNCHANGED <<atVars, paVars, pfVars>>
    \/ part = "at" /\ AtNext /\ UNCHANGED <<rcVars, paVars, pfVars>>
    \/ part = "pa" /\ PaNext /\ UNCHANGED <<rcVars, atVars, pfVars>>
    \/ part = "pf" /\ PfNext /\ UNCHANGED <<rcVars, atVars, paVars>>

LobbyNext ==
    \/ part = "fc" /\ FcNext /\ UNCHANGED <<rnVars, lpVars, scVars>>
    \/ part = "rn" /\ RnNext /\ UNCHANGED <<fcVars, lpVars, scVars>>
    \/ part = "lp" /\ LpNext /\ UNCHANGED <<fcVars, rnVars, scVars>>
    \/ part = "sc" /\ ScNext /\ UNCHANGED <<fcVars, rnVars, lpVars>>

Next ==
    /\ UNCHANGED part
    /\ \/ CallNext /\ tabRest /\ pureRest
       \/ TabNext /\ callRest /\ pureRest
       \/ LobbyNext /\ callRest /\ tabRest

Spec == Init /\ [][Next]_vars

----
(* The components' properties, those of a kind together.                    *)

TypeOK ==
    /\ StTypeOK /\ ChTypeOK /\ HpTypeOK /\ MuTypeOK /\ RcTypeOK /\ AtTypeOK /\ PaTypeOK
    /\ PfTypeOK /\ FcTypeOK /\ RnTypeOK /\ LpTypeOK /\ ScTypeOK /\ CcTypeOK

\* What can be derived in two places is the same in both: a preference and what is
\* stored, a face in the lobby and in the call, a room's name and its link, the
\* controls of a phone and of a desktop (theme.ts, i18n.tsx, Avatar.tsx, presence.go,
\* rooms.ts, MeetControls.tsx).
SameEverywhere == PfAgrees /\ FcSameFace /\ RnUsable /\ CcAllOffered /\ CcOnePanel

\* The tiles, the spotlight and the queue of hands are of those who are here
\* (FocusView.tsx, GridView.tsx, raisehand.ts).
StageIsCurrent == StShowsWhoIsHere /\ StOneQueue

\* The page and its session agree: no answer signs a user out or back in by surprise
\* (auth.tsx, api.ts).
SessionHolds == []PaStaysOut /\ PaStaysIn

\* What is shown as said was said to all, and what is shown is let go again
\* (datachannel.ts).
ChatHolds == ChTold /\ ChReleased

\* What has been stored of the application is whole and stays, unless an error was once
\* answered in its place (sw.js).
CacheServes == ScOffline /\ ScBlame
=============================================================================
