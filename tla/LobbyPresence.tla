---------------------------- MODULE LobbyPresence ----------------------------
(***************************************************************************)
(* Who is already in the room, as the lobby shows it                       *)
(* (frontend/src/components/LobbyPresence.tsx, lib/api.ts fetchPresence,   *)
(* httpapi/presence.go, moderator.go ParticipantNames).  The lobby asks    *)
(* every five seconds and does not wait for the answer before.             *)
(***************************************************************************)
EXTENDS Naturals, Sequences

CONSTANTS
    LpMaxIn,    \* most participants of the room
    LpMembers,  \* how many of them are sent with their initials
    LpMaxPolls, \* polls in all
    LpNothing   \* no answer yet

ASSUME LpAssumption == LpMaxIn \in Nat /\ LpMembers \in Nat /\ LpMaxPolls \in Nat

VARIABLES
    lpRoom,  \* who is in the room: a sequence of the orders they came in
    lpCame,  \* how many have ever come
    lpHere,  \* the lobby is mounted
    lpPolls, \* the requests, by number: what each is at, and its answer
    lpShown, \* the answer on the screen
    lpFrom,  \* history: the request the answer on the screen is to
    lpLate   \* history: that answer was overtaken by a later request's

lpVars == <<lpRoom, lpCame, lpHere, lpPolls, lpShown, lpFrom, lpLate>>

LpAnswers == [count : 0..LpMaxIn, members : Seq(Nat)]

LpTypeOK ==
    /\ lpRoom \in Seq(1..lpCame) /\ Len(lpRoom) <= LpMaxIn
    /\ lpHere \in BOOLEAN
    /\ Len(lpPolls) <= LpMaxPolls
    /\ \A i \in DOMAIN lpPolls : lpPolls[i].at \in {"sent", "answered", "done"}
    /\ lpShown = LpNothing \/ lpShown \in LpAnswers
    /\ lpFrom \in 0..LpMaxPolls
    /\ lpLate \in BOOLEAN

LpInit ==
    /\ lpRoom = <<>>
    /\ lpCame = 0
    /\ lpHere = TRUE
    /\ lpPolls = <<>>
    /\ lpShown = LpNothing
    /\ lpFrom = 0
    /\ lpLate = FALSE

\* Bound: LpMaxIn + 1 arrivals.
LpCome ==
    /\ Len(lpRoom) < LpMaxIn
    /\ lpCame <= LpMaxIn
    /\ lpCame' = lpCame + 1
    /\ lpRoom' = Append(lpRoom, lpCame + 1)
    /\ UNCHANGED <<lpHere, lpPolls, lpShown, lpFrom, lpLate>>

LpGo ==
    /\ \E i \in DOMAIN lpRoom : lpRoom' = SubSeq(lpRoom, 1, i - 1) \o SubSeq(lpRoom, i + 1, Len(lpRoom))
    /\ UNCHANGED <<lpCame, lpHere, lpPolls, lpShown, lpFrom, lpLate>>

\* tick, at once and every POLL_MS.
LpPoll ==
    /\ lpHere
    /\ Len(lpPolls) < LpMaxPolls
    /\ lpPolls' = Append(lpPolls, [at |-> "sent", answer |-> LpNothing])
    /\ UNCHANGED <<lpRoom, lpCame, lpHere, lpShown, lpFrom, lpLate>>

\* ParticipantNames: the first few and the whole number.
LpListed == [count |-> Len(lpRoom),
             members |-> SubSeq(lpRoom, 1, IF Len(lpRoom) < LpMembers THEN Len(lpRoom) ELSE LpMembers)]

\* The backend's answer: what it is told of the room, or an empty room when asking
\* fails, for whatever reason.
LpServe(i) ==
    /\ i \in DOMAIN lpPolls
    /\ lpPolls[i].at = "sent"
    /\ \E a \in {LpListed, [count |-> 0, members |-> <<>>]} :
        lpPolls' = [lpPolls EXCEPT ![i] = [at |-> "answered", answer |-> a]]
    /\ UNCHANGED <<lpRoom, lpCame, lpHere, lpShown, lpFrom, lpLate>>

\* A bug for comparison: a request that failed shows an empty room.
LpAfterFailureEmpty(i) == [count |-> 0, members |-> <<>>]

\* "null = fetch failed: keep last known."
LpAfterFailure(i) == lpShown

LpFails(i) ==
    /\ i \in DOMAIN lpPolls
    /\ lpPolls[i].at \in {"sent", "answered"}
    /\ lpPolls' = [lpPolls EXCEPT ![i] = [at |-> "done", answer |-> LpNothing]]
    /\ lpShown' = LpAfterFailure(i)
    /\ UNCHANGED <<lpRoom, lpCame, lpHere, lpFrom, lpLate>>

\* The answer reaches the page, in whatever order, and is shown if the lobby is there.
LpArrive(i) ==
    /\ i \in DOMAIN lpPolls
    /\ lpPolls[i].at = "answered"
    /\ lpPolls' = [lpPolls EXCEPT ![i].at = "done"]
    /\ IF lpHere THEN /\ lpShown' = lpPolls[i].answer
                      /\ lpFrom' = i
                      /\ lpLate' = (\E j \in i + 1..Len(lpPolls) : lpPolls[j].at = "done"
                                                                 /\ lpPolls[j].answer # LpNothing)
       ELSE UNCHANGED <<lpShown, lpFrom, lpLate>>
    /\ UNCHANGED <<lpRoom, lpCame, lpHere>>

\* The user joins: the lobby unmounts.
LpUnmount ==
    /\ lpHere
    /\ lpHere' = FALSE
    /\ UNCHANGED <<lpRoom, lpCame, lpPolls, lpShown, lpFrom, lpLate>>

LpNext ==
    \/ LpCome
    \/ LpGo
    \/ LpPoll
    \/ \E i \in 1..LpMaxPolls : LpServe(i) \/ LpFails(i) \/ LpArrive(i)
    \/ LpUnmount

LpSpec == LpInit /\ [][LpNext]_lpVars

----
(* Properties.                                                              *)

\* The lobby shows an answer the backend gave, whole, and the newest of those that
\* have come, unless a later request's answer was faster: a failed request never turns
\* it into an empty room.
LpLastKnown ==
    lpShown # LpNothing =>
        /\ lpFrom > 0 /\ lpShown = lpPolls[lpFrom].answer
        /\ Len(lpShown.members) <= LpMembers /\ Len(lpShown.members) <= lpShown.count
        /\ lpHere /\ ~lpLate =>
              \A j \in lpFrom + 1..Len(lpPolls) :
                  lpPolls[j].at = "done" => lpPolls[j].answer = LpNothing
=============================================================================
