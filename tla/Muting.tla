------------------------------- MODULE Muting -------------------------------
(***************************************************************************)
(* The host mutes one participant, mutes all, or removes one               *)
(* (frontend/src/components/ParticipantsPanel.tsx, ParticipantTile.tsx;    *)
(* backend livekit/moderator.go, httpapi/admin.go).  The backend lists the *)
(* room once and then mutes track by track, while people come, go and turn *)
(* their microphones on; each call to LiveKit may fail.                    *)
(***************************************************************************)
CONSTANT MuUsers \* everyone but the host, whom a mute-all excepts

VARIABLES
    muMic,   \* who is in the room: out, muted or on
    muOne,   \* users a mute request is under way for, and how far it is
    muAll,   \* the mute-all request: its state, the tracks listed, those left, its errors
    muTold,  \* users told "muted by the host" since their latest mute request
    muTurned \* history: who turned the microphone on since listed, by which request

muVars == <<muMic, muOne, muAll, muTold, muTurned>>

MuTypeOK ==
    /\ muMic \in [MuUsers -> {"out", "muted", "on"}]
    /\ muOne \in [MuUsers -> {"none", "asked", "muting", "muted"}]
    /\ muAll \in [state : {"idle", "asked", "muting", "ok", "failed"},
                  listed : SUBSET MuUsers, todo : SUBSET MuUsers, failed : BOOLEAN]
    /\ muTold \in SUBSET MuUsers
    /\ muTurned \in [{"one", "all"} -> SUBSET MuUsers]

MuNoAll == [state |-> "idle", listed |-> {}, todo |-> {}, failed |-> FALSE]

MuInit ==
    /\ muMic \in [MuUsers -> {"muted", "on"}]
    /\ muOne = [u \in MuUsers |-> "none"]
    /\ muAll = MuNoAll
    /\ muTold = {}
    /\ muTurned = [r \in {"one", "all"} |-> {}]

----
(* The participants.                                                        *)

\* The microphone button, or joining: with the microphone on or muted.
MuSwitch(u) ==
    /\ \E mic \in {"muted", "on"} \ {muMic[u]} :
         /\ muMic' = [muMic EXCEPT ![u] = mic]
         /\ muTurned' = IF mic = "on" THEN [r \in {"one", "all"} |-> muTurned[r] \cup {u}]
                        ELSE muTurned
    /\ UNCHANGED <<muOne, muAll, muTold>>

\* Leaving, or being removed by the host.
MuLeave(u) ==
    /\ muMic[u] # "out"
    /\ muMic' = [muMic EXCEPT ![u] = "out"]
    /\ UNCHANGED <<muOne, muAll, muTold, muTurned>>

----
(* Muting one: handleMute, MuteParticipant, then notifyModeration.          *)

MuAsk(u) ==
    /\ muMic[u] = "on"
    /\ muOne[u] = "none"
    /\ muOne' = [muOne EXCEPT ![u] = "asked"]
    /\ muTold' = muTold \ {u}
    /\ UNCHANGED <<muMic, muAll, muTurned>>

\* The list: a track already muted needs nothing; one who is gone is an error.
MuList(u) ==
    /\ muOne[u] = "asked"
    /\ muOne' = [muOne EXCEPT ![u] =
                   CASE muMic[u] = "on" -> "muting"
                     [] muMic[u] = "muted" -> "muted"
                     [] OTHER -> "none"]
    /\ muTurned' = [muTurned EXCEPT !.one = @ \ {u}]
    /\ UNCHANGED <<muMic, muAll, muTold>>

\* LiveKit mutes the track, if it is still there.
MuMuted(u) == [muMic EXCEPT ![u] = IF @ = "on" THEN "muted" ELSE @]

MuMute(u) ==
    /\ muOne[u] = "muting"
    /\ muMic[u] # "out"
    /\ muMic' = MuMuted(u)
    /\ muOne' = [muOne EXCEPT ![u] = "muted"]
    /\ UNCHANGED <<muAll, muTold, muTurned>>

\* Any call fails, or the request does: nobody is notified.
MuFails(u) ==
    /\ muOne[u] # "none"
    /\ muOne' = [muOne EXCEPT ![u] = "none"]
    /\ UNCHANGED <<muMic, muAll, muTold, muTurned>>

\* A bug for comparison: the target is told without waiting for the backend.
MuAnsweredEarly(u) == muOne[u] # "none"

\* The backend has answered 204.
MuAnswered(u) == muOne[u] = "muted"

MuNotify(u) ==
    /\ MuAnswered(u)
    /\ muOne' = [muOne EXCEPT ![u] = "none"]
    /\ muTold' = muTold \cup {u}
    /\ UNCHANGED <<muMic, muAll, muTurned>>

----
(* Muting all: handleMuteAll, MuteAll.                                      *)

\* The button is disabled while its request is under way.
MuAskAll ==
    /\ muAll.state \in {"idle", "ok", "failed"}
    /\ muAll' = [MuNoAll EXCEPT !.state = "asked"]
    /\ UNCHANGED <<muMic, muOne, muTold, muTurned>>

MuUnmuted == {u \in MuUsers : muMic[u] = "on"}

MuListAll ==
    /\ muAll.state = "asked"
    /\ \/ /\ muAll' = [muAll EXCEPT !.state = "muting", !.listed = MuUnmuted, !.todo = MuUnmuted]
          /\ muTurned' = [muTurned EXCEPT !.all = @ \ MuUnmuted]
       \/ /\ muAll' = [muAll EXCEPT !.state = "failed"]
          /\ UNCHANGED muTurned
    /\ UNCHANGED <<muMic, muOne, muTold>>

\* A bug for comparison: the errors of all but the last track are forgotten.
MuErrorsLast(failed) == failed

\* errors.Join
MuErrors(failed) == muAll.failed \/ failed

\* The next track is muted, or fails (as one that has gone does); the others follow.
MuMuteNext(u) ==
    /\ muAll.state = "muting"
    /\ u \in muAll.todo
    /\ \/ /\ muMic[u] # "out"
          /\ muMic' = MuMuted(u)
          /\ muAll' = [muAll EXCEPT !.todo = @ \ {u}, !.failed = MuErrors(FALSE)]
       \/ /\ muAll' = [muAll EXCEPT !.todo = @ \ {u}, !.failed = MuErrors(TRUE)]
          /\ UNCHANGED muMic
    /\ UNCHANGED <<muOne, muTold, muTurned>>

MuAllAnswered ==
    /\ muAll.state = "muting"
    /\ muAll.todo = {}
    /\ muAll' = [muAll EXCEPT !.state = IF muAll.failed THEN "failed" ELSE "ok"]
    /\ UNCHANGED <<muMic, muOne, muTold, muTurned>>

MuNext ==
    \/ \E u \in MuUsers :
         \/ MuSwitch(u) \/ MuLeave(u)
         \/ MuAsk(u) \/ MuList(u) \/ MuMute(u) \/ MuFails(u) \/ MuNotify(u)
         \/ MuMuteNext(u)
    \/ MuAskAll
    \/ MuListAll
    \/ MuAllAnswered

MuSpec == MuInit /\ [][MuNext]_muVars

----
(* Properties.                                                              *)

\* A mute-all that reports no error has silenced everyone whose microphone was on
\* when the room was listed, but for those who turned theirs on again; and whoever
\* has been told of a mute by the host is muted, or turned the microphone on again.
MuHolds ==
    /\ muAll.state = "ok" =>
         \A u \in muAll.listed : muMic[u] = "on" => u \in muTurned.all
    /\ \A u \in muTold : muMic[u] = "on" => u \in muTurned.one
=============================================================================
