------------------------------ MODULE PageAuth ------------------------------
(***************************************************************************)
(* The page's idea of its session (frontend/src/lib/auth.tsx, lib/api.ts,  *)
(* pages/WelcomeScreen.tsx, pages/Home.tsx, components/AuthChip.tsx and    *)
(* App.tsx createMeeting) against the session cookie, which expires and    *)
(* which other tabs share.  Sign-ins are numbered; 0 is none.              *)
(***************************************************************************)
EXTENDS Naturals, Sequences

CONSTANTS
    PaMaxSignIns, \* sign-ins in all
    PaMaxCreates, \* meetings asked for in all
    PaMaxOuts,    \* sign-outs of one sign-in under way when its user asks for one more
    PaNotAsked    \* the answer to "me" is not there yet

ASSUME PaAssumption ==
    PaMaxSignIns \in Nat \ {0} /\ PaMaxCreates \in Nat /\ PaMaxOuts \in Nat

VARIABLES
    paCookie,  \* the session the browser's cookie proves, or 0
    paLoad,    \* the load effect: config, me (not yet served), answer, done
    paMe,      \* the answer to "me" on its way
    paPage,    \* ready, authRequired, the user (by sign-in), at home
    paAsking,  \* a code is being checked
    paOuts,    \* sign-in -> the sign-outs under way that were asked for during it
    paCreates, \* createRoom calls: where each is, who asked, its answer
    paSignIns, \* sign-ins so far
    paAsked,   \* history: the sign-ins whose user asked to sign out
    paOut,     \* history: the last sign-in that was signed out of on this page
    paFailed   \* history: the last sign-out's request was lost

paVars == <<paCookie, paLoad, paMe, paPage, paAsking, paOuts, paCreates, paSignIns, paAsked,
            paOut, paFailed>>

PaTypeOK ==
    /\ paCookie \in 0..PaMaxSignIns
    /\ paLoad \in {"config", "me", "done"}
    /\ paMe \in 0..PaMaxSignIns \cup {PaNotAsked}
    /\ paPage \in [ready : BOOLEAN, required : BOOLEAN, user : 0..PaMaxSignIns, home : BOOLEAN]
    /\ paAsking \in BOOLEAN
    /\ paOuts \in [1..PaMaxSignIns -> Nat]
    /\ paCreates \in Seq([at : {"sent", "answered", "done"}, by : 1..PaMaxSignIns,
                          answer : {"none", "room", "taken", "unauthorized", "error"}])
    /\ paSignIns \in 0..PaMaxSignIns
    /\ paAsked \in SUBSET (1..PaMaxSignIns)
    /\ paOut \in 0..PaMaxSignIns
    /\ paFailed \in BOOLEAN

\* The page loads, perhaps with a session from before.
PaInit ==
    /\ paCookie \in {0, 1}
    /\ paLoad = "config"
    /\ paMe = PaNotAsked
    /\ paPage = [ready |-> FALSE, required |-> FALSE, user |-> 0, home |-> TRUE]
    /\ paAsking = FALSE
    /\ paOuts = [u \in 1..PaMaxSignIns |-> 0]
    /\ paCreates = <<>>
    /\ paSignIns = paCookie
    /\ paAsked = {}
    /\ paOut = 0
    /\ paFailed = FALSE

\* A bug for comparison: the page is ready before the session is restored.
PaConfiguredReady(required) ==
    /\ paPage' = [paPage EXCEPT !.required = required, !.ready = TRUE]
    /\ paLoad' = IF required THEN "me" ELSE "done"

\* Only a gated page has a session to restore before it is ready.
PaConfigured(required) ==
    /\ paPage' = [paPage EXCEPT !.required = required, !.ready = ~required]
    /\ paLoad' = IF required THEN "me" ELSE "done"

\* fetchConfig: what the backend says, or "no gate" when it cannot be reached.
PaConfig ==
    /\ paLoad = "config"
    /\ \E required \in BOOLEAN : PaConfigured(required)
    /\ UNCHANGED <<paCookie, paMe, paAsking, paOuts, paCreates, paSignIns,
                   paAsked, paOut, paFailed>>

PaMeServed ==
    /\ paLoad = "me"
    /\ paMe = PaNotAsked
    /\ paMe' = paCookie
    /\ UNCHANGED <<paCookie, paLoad, paPage, paAsking, paOuts, paCreates, paSignIns,
                   paAsked, paOut, paFailed>>

\* fetchMe's answer, or its failure, which is no user.
PaMeArrives ==
    /\ paLoad = "me"
    /\ paLoad' = "done"
    /\ \/ paMe \notin {0, PaNotAsked} /\ paPage' = [paPage EXCEPT !.user = paMe, !.ready = TRUE]
       \/ paPage' = [paPage EXCEPT !.ready = TRUE]
    /\ UNCHANGED <<paCookie, paMe, paAsking, paOuts, paCreates, paSignIns,
                   paAsked, paOut, paFailed>>

\* The code is asked for where Home would be; there is one form, busy while it waits.
PaSubmitCode ==
    /\ paPage.home /\ paPage.ready /\ paPage.required /\ paPage.user = 0
    /\ ~paAsking
    /\ paAsking' = TRUE
    /\ UNCHANGED <<paCookie, paLoad, paMe, paPage, paOuts, paCreates, paSignIns, paAsked, paOut,
                   paFailed>>

\* Accepted, the cookie is set with the answer; or wrong, or failed.
PaCodeAnswered ==
    /\ paAsking
    /\ paAsking' = FALSE
    /\ \/ /\ paSignIns < PaMaxSignIns
          /\ paSignIns' = paSignIns + 1
          /\ paCookie' = paSignIns + 1
          /\ paPage' = [paPage EXCEPT !.user = paSignIns + 1]
       \/ UNCHANGED <<paSignIns, paCookie, paPage>>
    /\ UNCHANGED <<paLoad, paMe, paOuts, paCreates, paAsked, paOut, paFailed>>

\* The button stays as it is while the request is under way, and can be pressed again.
PaSignOut ==
    /\ paPage.home /\ paPage.ready /\ paPage.user # 0
    /\ paOuts[paPage.user] < PaMaxOuts
    /\ paOuts' = [paOuts EXCEPT ![paPage.user] = @ + 1]
    /\ paAsked' = paAsked \cup {paPage.user}
    /\ UNCHANGED <<paCookie, paLoad, paMe, paPage, paAsking, paCreates, paSignIns, paOut,
                   paFailed>>

\* logout swallows its failures: the page forgets the user either way, whoever it is by
\* then; the answer clears the cookie of whatever session it is by then.
PaSignedOut(u) ==
    /\ paOuts[u] > 0
    /\ paOuts' = [paOuts EXCEPT ![u] = @ - 1]
    /\ paPage' = [paPage EXCEPT !.user = 0]
    /\ paOut' = paSignIns
    /\ \/ paCookie' = 0 /\ paFailed' = FALSE
       \/ paFailed' = TRUE /\ UNCHANGED paCookie
    /\ UNCHANGED <<paLoad, paMe, paAsking, paCreates, paSignIns, paAsked>>

\* createMeeting, from a Home that has none under way for this sign-in.
PaCreate ==
    /\ paPage.home /\ paPage.ready /\ paPage.required /\ paPage.user # 0
    /\ Len(paCreates) < PaMaxCreates
    /\ \A i \in DOMAIN paCreates : paCreates[i].by = paPage.user => paCreates[i].at = "done"
    /\ paCreates' = Append(paCreates, [at |-> "sent", by |-> paPage.user, answer |-> "none"])
    /\ UNCHANGED <<paCookie, paLoad, paMe, paPage, paAsking, paOuts, paSignIns, paAsked,
                   paOut, paFailed>>

PaCreateServed(i) ==
    /\ i \in DOMAIN paCreates
    /\ paCreates[i].at = "sent"
    /\ \E a \in IF paCookie = 0 THEN {"unauthorized", "error"} ELSE {"room", "taken", "error"} :
        paCreates' = [paCreates EXCEPT ![i].at = "answered", ![i].answer = a]
    /\ UNCHANGED <<paCookie, paLoad, paMe, paPage, paAsking, paOuts, paSignIns, paAsked,
                   paOut, paFailed>>

\* A bug for comparison: any failed creation ends the session.
PaEndsSessionAny(answer) == answer # "room"

\* "Only a 401 means the session is gone."
PaEndsSession(answer) == answer = "unauthorized"

\* The answer: on to the lobby; or a sign-out is begun, not awaited; or a message.
PaCreateArrives(i) ==
    /\ i \in DOMAIN paCreates
    /\ paCreates[i].at = "answered"
    /\ paCreates' = [paCreates EXCEPT ![i].at = "done"]
    /\ IF PaEndsSession(paCreates[i].answer)
       THEN /\ paOuts' = [paOuts EXCEPT ![paCreates[i].by] = @ + 1]
            /\ UNCHANGED paPage
       ELSE /\ paPage' = [paPage EXCEPT !.home = @ /\ paCreates[i].answer # "room"]
            /\ UNCHANGED paOuts
    /\ UNCHANGED <<paCookie, paLoad, paMe, paAsking, paSignIns, paAsked, paOut, paFailed>>

\* Left the meeting.
PaGoHome ==
    /\ ~paPage.home
    /\ paPage' = [paPage EXCEPT !.home = TRUE]
    /\ UNCHANGED <<paCookie, paLoad, paMe, paAsking, paOuts, paCreates, paSignIns,
                   paAsked, paOut, paFailed>>

\* The session expires, or another tab signs out.
PaExpire ==
    /\ paCookie # 0
    /\ paCookie' = 0
    /\ UNCHANGED <<paLoad, paMe, paPage, paAsking, paOuts, paCreates, paSignIns,
                   paAsked, paOut, paFailed>>

PaNext ==
    \/ PaConfig
    \/ PaMeServed
    \/ PaMeArrives
    \/ PaSubmitCode
    \/ PaCodeAnswered
    \/ PaSignOut
    \/ \E u \in 1..PaMaxSignIns : PaSignedOut(u)
    \/ PaCreate
    \/ \E i \in 1..PaMaxCreates : PaCreateServed(i) \/ PaCreateArrives(i)
    \/ PaGoHome
    \/ PaExpire

PaSpec == PaInit /\ [][PaNext]_paVars

----
(* Properties.                                                              *)

\* Who has signed out stays out: no answer that was on its way brings the user back,
\* and the cookie is gone with the user unless the request that clears it was lost.
PaStaysOut ==
    /\ paPage.user # 0 => paPage.user > paOut
    /\ paOut = paSignIns /\ ~paFailed => paCookie = 0 \/ paOut = 0

\* Who is signed in stays in: the page forgets a live session only when its own user has
\* asked to sign out, or at the end of a sign-out of an earlier one, still under way.  A
\* refused or failed creation does not end it.
PaStaysIn ==
    [][paPage.user # 0 /\ paPage'.user = 0 /\ paCookie = paPage.user =>
          \/ paPage.user \in paAsked
          \/ \E u \in 1..(paPage.user - 1) : paOuts'[u] < paOuts[u]]_paVars
=============================================================================
