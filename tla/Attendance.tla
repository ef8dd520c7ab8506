----------------------------- MODULE Attendance -----------------------------
(***************************************************************************)
(* The attendance report (frontend/src/lib/attendance.ts): sessions opened *)
(* and closed by connect and disconnect events, talk time by the lists of  *)
(* active speakers, and the report built either before or after the        *)
(* tracking effect has been cleaned up.  The shares of talk time are those *)
(* of components/MeetingReport.tsx.  A unit of time is one clock tick.     *)
(***************************************************************************)
EXTENDS Integers, Sequences, FiniteSetsExt

CONSTANTS
    AtMe,     \* the local participant
    AtOthers,
    AtMaxTime,
    AtMaxSessions, \* of one person
    AtNull

ASSUME AtAssumption ==
    /\ AtMe \notin AtOthers
    /\ AtMaxTime \in Nat /\ AtMaxSessions \in Nat \ {0}
    /\ AtNull \notin Int

VARIABLES
    atNow,
    atPhase,  \* out, call, ended (cleaned up, nothing read) or report
    atHere,   \* the others connected to the room
    atLoud,   \* the active speakers of the last event, less who has left since
    atStore,  \* person -> sessions, talk, hadTalk, since
    atStart,  \* the store's startedAt
    atEnd,    \* the store's endedAt
    atReport, \* what buildReport returned
    atSeen    \* history: person -> ticks present, ticks listed as speaking, whether ever
              \* listed, when their last stay is dated, and whether a clock ahead of this
              \* one or a list of speakers had them where they were not

atVars == <<atNow, atPhase, atHere, atLoud, atStore, atStart, atEnd, atReport, atSeen>>

AtPeople == {AtMe} \cup AtOthers
AtTimes == 0..AtMaxTime

AtEntry == [sessions : Seq([from : AtTimes, to : AtTimes \cup {AtNull}]),
            talk : AtTimes, hadTalk : BOOLEAN, since : AtTimes \cup {AtNull}]

AtRow == [joined : AtTimes, left : AtTimes \cup {AtNull}, sessions : 0..AtMaxSessions,
          present : AtTimes, talk : AtTimes \cup {AtNull}, pct : 3..100 \cup {AtNull}]

AtSight == [present : AtTimes, talk : AtTimes, heard : BOOLEAN, from : AtTimes, odd : BOOLEAN]

AtTypeOK ==
    /\ atNow \in AtTimes
    /\ atPhase \in {"out", "call", "ended", "report"}
    /\ atHere \in SUBSET AtOthers
    /\ atLoud \in SUBSET AtPeople
    /\ DOMAIN atStore \subseteq AtPeople
    /\ \A p \in DOMAIN atStore : atStore[p] \in AtEntry
    /\ atStart \in AtTimes
    /\ atEnd \in AtTimes \cup {AtNull}
    /\ \A p \in DOMAIN atReport : atReport[p] \in AtRow
    /\ atSeen \in [AtPeople -> AtSight]

AtNobody == [p \in {} |-> 0]
AtUnseen == [present |-> 0, talk |-> 0, heard |-> FALSE, from |-> 0, odd |-> FALSE]

AtInit ==
    /\ atNow = 0
    /\ atPhase = "out"
    /\ atHere = {}
    /\ atLoud = {}
    /\ atStore = AtNobody
    /\ atStart = 0
    /\ atEnd = AtNull
    /\ atReport = AtNobody
    /\ atSeen = [p \in AtPeople |-> AtUnseen]

\* ensure: someone the store did not know.
AtKnown == [sessions |-> <<>>, talk |-> 0, hadTalk |-> FALSE, since |-> AtNull]

AtFresh(at) == [AtKnown EXCEPT !.sessions = <<[from |-> at, to |-> AtNull]>>]

AtIsOpen(e) == e.sessions # <<>> /\ e.sessions[Len(e.sessions)].to = AtNull

\* openSession: a person already in the call keeps the session they have.
AtOpened(p, at) ==
    IF p \notin DOMAIN atStore THEN AtFresh(at)
    ELSE IF AtIsOpen(atStore[p]) THEN atStore[p]
    ELSE [atStore[p] EXCEPT !.sessions = Append(@, [from |-> at, to |-> AtNull])]

\* A bug for comparison: the words being spoken are lost.
AtQuietLosing(e, t) == [e EXCEPT !.since = AtNull]

\* The running talk timer is folded in and stopped.
AtQuiet(e, t) ==
    IF e.since = AtNull THEN e
    ELSE [e EXCEPT !.talk = @ + t - e.since, !.since = AtNull]

\* closeSession
AtClosed(e, t) ==
    IF AtIsOpen(e) THEN AtQuiet([e EXCEPT !.sessions[Len(e.sessions)].to = t], t)
    ELSE AtQuiet(e, t)

AtTalks(e, t) == [e EXCEPT !.hadTalk = TRUE, !.since = IF @ = AtNull THEN t ELSE @]

\* onSpeakers: who is on the list starts or goes on, everyone else stops.
AtHeard(speakers) ==
    [p \in DOMAIN atStore \cup speakers |->
       IF p \notin speakers THEN AtQuiet(atStore[p], atNow)
       ELSE AtTalks(IF p \in DOMAIN atStore THEN atStore[p] ELSE AtKnown, atNow)]

\* How long it is from one time to another, if it is not before it.
AtLasted(from, to) == IF from <= to THEN to - from ELSE 0

\* The tracking starts: the store is emptied and seeded with everyone present, each
\* from the time they joined, if the server said, whose clock may be ahead of ours.
AtMount ==
    /\ atPhase = "out"
    /\ \E here \in SUBSET AtOthers : \E said \in [{AtMe} \cup here -> AtTimes \cup {AtNull}] :
         LET at(p) == IF said[p] = AtNull THEN atNow ELSE said[p]
         IN /\ atHere' = here
            /\ atStore' = [p \in {AtMe} \cup here |-> AtFresh(at(p))]
            /\ atStart' = Min({atNow} \cup {at(p) : p \in {AtMe} \cup here})
            /\ atSeen' = [p \in AtPeople |->
                            IF p \notin {AtMe} \cup here THEN AtUnseen
                            ELSE [AtUnseen EXCEPT !.present = AtLasted(at(p), atNow),
                                                  !.from = at(p), !.odd = at(p) > atNow]]
    /\ atPhase' = "call"
    /\ UNCHANGED <<atNow, atLoud, atEnd, atReport>>

\* Bound: AtMaxSessions.
AtJoin(p) ==
    /\ atPhase = "call"
    /\ p \notin atHere
    /\ p \in DOMAIN atStore => Len(atStore[p].sessions) < AtMaxSessions
    /\ atHere' = atHere \cup {p}
    /\ atStore' = [q \in DOMAIN atStore \cup {p} |->
                     IF q = p THEN AtOpened(p, atNow) ELSE atStore[q]]
    /\ atSeen' = [atSeen EXCEPT ![p].from = atNow]
    /\ UNCHANGED <<atNow, atPhase, atLoud, atStart, atEnd, atReport>>

AtGone(p) ==
    /\ atPhase = "call"
    /\ p \in atHere
    /\ atHere' = atHere \ {p}
    /\ atLoud' = atLoud \ {p}
    /\ atStore' = [atStore EXCEPT ![p] = AtClosed(@, atNow)]
    /\ UNCHANGED <<atNow, atPhase, atStart, atEnd, atReport, atSeen>>

\* The list may still name who has left, even before the tracking began (hooks.ts:63).
AtSpeakers ==
    /\ atPhase = "call"
    /\ \E speakers \in SUBSET AtPeople :
         /\ speakers # atLoud
         /\ atLoud' = speakers
         /\ atStore' = AtHeard(speakers)
         /\ atSeen' = [p \in AtPeople |->
                         [atSeen[p] EXCEPT !.heard = @ \/ p \in speakers,
                                           !.odd = @ \/ p \in speakers \ ({AtMe} \cup atHere)]]
    /\ UNCHANGED <<atNow, atPhase, atHere, atStart, atEnd, atReport>>

\* Here, and by the server's clock already.
AtStays(p) == p \in {AtMe} \cup atHere /\ atSeen[p].from <= atNow

AtTick ==
    /\ atNow < AtMaxTime
    /\ atNow' = atNow + 1
    /\ atSeen' = IF atPhase # "call" THEN atSeen
                 ELSE [p \in AtPeople |->
                         [atSeen[p] EXCEPT !.present = @ + (IF AtStays(p) THEN 1 ELSE 0),
                                           !.talk = @ + (IF p \in atLoud THEN 1 ELSE 0)]]
    /\ UNCHANGED <<atPhase, atHere, atLoud, atStore, atStart, atEnd, atReport>>

AtRound(a, b) == (2 * a + b) \div (2 * b)

\* A bug for comparison: the bar of a short talk vanishes.
AtShareBare(talk, busiest) == AtRound(100 * talk, busiest)

AtShare(talk, busiest) == Max({3, AtRound(100 * talk, busiest)})

\* normalise: the share of the busiest speaker, at least 3, when two have data.
AtPct(talk) ==
    LET talkers == {p \in DOMAIN talk : talk[p] # AtNull}
        busiest == Max({0} \cup {talk[p] : p \in talkers})
    IN [p \in DOMAIN talk |->
          IF Cardinality(talkers) < 2 \/ busiest = 0 \/ p \notin talkers THEN AtNull
          ELSE AtShare(talk[p], busiest)]

\* g[1] + ... + g[n]
AtSum(g, n) ==
    LET sum[k \in 0..n] == IF k = 0 THEN 0 ELSE sum[k - 1] + g[k] IN sum[n]

AtOut(s, end) == IF s.to = AtNull THEN end ELSE s.to

\* A bug for comparison: whoever speaks when the call ends is not folded in.
AtTalkOfStopped(e, end) == IF e.hadTalk THEN e.talk ELSE AtNull

AtTalkOf(e, end) ==
    IF ~e.hadTalk THEN AtNull
    ELSE e.talk + (IF e.since = AtNull THEN 0 ELSE Max({0, end - e.since}))

\* buildReport of a store as it stands, its talk shares beside it.
AtBuild(end) ==
    LET talk == [p \in DOMAIN atStore |-> AtTalkOf(atStore[p], end)]
        row(p) ==
          LET ss == atStore[p].sessions
          IN [joined |-> IF ss = <<>> THEN atStart ELSE Min({ss[i].from : i \in DOMAIN ss}),
              left |-> IF ss = <<>> \/ (p # AtMe /\ \E i \in DOMAIN ss : ss[i].to = AtNull)
                       THEN AtNull
                       ELSE Max({AtOut(ss[i], end) : i \in DOMAIN ss}),
              sessions |-> Len(ss),
              present |-> AtSum([i \in DOMAIN ss |-> AtLasted(ss[i].from, AtOut(ss[i], end))],
                                Len(ss)),
              talk |-> talk[p],
              pct |-> AtPct(talk)[p]]
    IN [p \in DOMAIN atStore |-> row(p)]

AtCleaned == [p \in DOMAIN atStore |-> AtQuiet(atStore[p], atNow)]

\* The user leaves: PostCall renders, and so reads the store, before the cleanup runs.
AtLeave ==
    /\ atPhase = "call"
    /\ atReport' = AtBuild(atNow)
    /\ atStore' = AtCleaned
    /\ atEnd' = atNow
    /\ atPhase' = "report"
    /\ UNCHANGED <<atNow, atHere, atLoud, atStart, atSeen>>

\* The call is unmounted with no report read: a move between rooms.
AtCleanUp ==
    /\ atPhase = "call"
    /\ atStore' = AtCleaned
    /\ atEnd' = atNow
    /\ atPhase' = "ended"
    /\ UNCHANGED <<atNow, atHere, atLoud, atStart, atReport, atSeen>>

\* The move failed and so did the way back: PostCall reads what was tracked before.
AtReadLate ==
    /\ atPhase = "ended"
    /\ atReport' = AtBuild(atEnd)
    /\ atPhase' = "report"
    /\ UNCHANGED <<atNow, atHere, atLoud, atStore, atStart, atEnd, atSeen>>

AtNext ==
    \/ AtMount
    \/ \E p \in AtOthers : AtJoin(p) \/ AtGone(p)
    \/ AtSpeakers
    \/ AtTick
    \/ AtLeave
    \/ AtCleanUp
    \/ AtReadLate

AtSpec == AtInit /\ [][AtNext]_atVars

----
(* Properties.                                                              *)

\* The report counts what was observed, tick by tick, whether it is built before or
\* after the cleanup ("Order-independent", attendance.ts:158): time present, over all
\* sessions, none of it before a time of joining that is ahead of this clock; talk time,
\* none for who was never listed, and within the presence, unless such a time or a list
\* naming someone who had left says otherwise; "In call" exactly for those still
\* connected and for who was only ever listed; nobody longer than the call itself; and
\* the longer talk is the longer bar.
AtCounts ==
    \A p \in DOMAIN atReport :
      LET row == atReport[p]
          seen == atSeen[p]
      IN /\ row.present = seen.present
         /\ row.talk = IF seen.heard THEN seen.talk ELSE AtNull
         /\ seen.heard /\ ~seen.odd => row.talk <= row.present
         /\ (row.left = AtNull) = (p \in atHere \/ row.sessions = 0)
         /\ row.sessions = 0 => seen.odd
         /\ row.present <= atEnd - atStart
         /\ row.pct # AtNull =>
              \A q \in DOMAIN atReport :
                (atReport[q].pct # AtNull /\ atReport[q].talk > row.talk) =>
                  atReport[q].pct >= row.pct
=============================================================================
