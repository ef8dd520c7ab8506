---------------------------- MODULE RateLimiter ----------------------------
(***************************************************************************)
(* The fixed-window limiter in front of POST /api/auth/code                *)
(* (httpapi/ratelimit.go).  Every request is a goroutine: its middleware   *)
(* reads the clock, and only then allow takes the mutex, so time stamps    *)
(* reach allow late (by at most Skew ticks) and out of order.              *)
(***************************************************************************)
EXTENDS Integers, Sequences

CONSTANTS
    Keys,      \* client addresses
    Requests,  \* goroutines that may be in flight at once
    limit,
    window,
    Skew,      \* how long a goroutine may be held between the clock and the mutex
    MaxClock   \* bound of the model: the clock stops there

ASSUME LimitAssumption == limit \in Nat \ {0}
ASSUME TimeAssumption ==
    /\ window \in Nat \ {0}
    /\ Skew \in Nat
    /\ Skew <= window
    /\ MaxClock \in Nat

VARIABLES
    hits,      \* hits[k]: the window of key k, or NoWindow
    nextSweep,
    clock,
    stamp,     \* stamp[p]: request p read the clock, waits for the mutex
    admitted,  \* history: when requests of key k were admitted
    refused    \* history: the last answer to key k was a refusal

vars == <<hits, nextSweep, clock, stamp, admitted, refused>>

NoWindow == [count |-> 0, resetAt |-> -1]
NoStamp == -1

\* time.Time's zero value, before every clock reading.
ZeroTime == -1

Window == [count : 1..limit, resetAt : Nat]

TypeOK ==
    /\ hits \in [Keys -> Window \cup {NoWindow}]
    /\ nextSweep \in Nat \cup {ZeroTime}
    /\ clock \in Nat
    /\ stamp \in [Requests -> Nat \cup {NoStamp}]
    /\ admitted \in [Keys -> Seq(Nat)]
    /\ refused \in [Keys -> BOOLEAN]

\* newRateLimiter
Init ==
    /\ hits = [k \in Keys |-> NoWindow]
    /\ nextSweep = ZeroTime
    /\ clock = 0
    /\ stamp = [p \in Requests |-> NoStamp]
    /\ admitted = [k \in Keys |-> <<>>]
    /\ refused = [k \in Keys |-> FALSE]

----
(* allow(key, now)                                                         *)

\* A bug for comparison: a window is over one tick early.
ExpiredAtReset(w, now) == now >= w.resetAt

\* now.After(w.resetAt)
Expired(w, now) == now > w.resetAt

\* A bug for comparison: the sweep is due but forgets to delete.
SweepNothing(now) == hits

\* The map after the sweep that is due once per window.
Swept(now) ==
    IF now > nextSweep
    THEN [k \in Keys |-> IF Expired(hits[k], now) THEN NoWindow ELSE hits[k]]
    ELSE hits

SweepAt(now) == IF now > nextSweep THEN now + window ELSE nextSweep

\* No open window: a new one begins with this request.
Fresh(w, now) == w = NoWindow \/ Expired(w, now)

Answer(k, ok) ==
    /\ refused' = [refused EXCEPT ![k] = ~ok]
    /\ admitted' = IF ok THEN [admitted EXCEPT ![k] = Append(@, clock)]
                       ELSE admitted

Open(k, now) ==
    /\ Fresh(Swept(now)[k], now)
    /\ hits' = [Swept(now) EXCEPT ![k] = [count |-> 1, resetAt |-> now + window]]
    /\ Answer(k, TRUE)

\* A bug for comparison: the limit is off by one.
CountPastLimit(k, now) ==
    LET w == Swept(now)[k]
    IN  /\ ~Fresh(w, now)
        /\ w.count <= limit
        /\ hits' = [Swept(now) EXCEPT ![k].count = @ + 1]
        /\ Answer(k, TRUE)

Count(k, now) ==
    LET w == Swept(now)[k]
    IN  /\ ~Fresh(w, now)
        /\ w.count < limit
        /\ hits' = [Swept(now) EXCEPT ![k].count = @ + 1]
        /\ Answer(k, TRUE)

Refuse(k, now) ==
    LET w == Swept(now)[k]
    IN  /\ ~Fresh(w, now)
        /\ w.count >= limit
        /\ hits' = Swept(now)
        /\ Answer(k, FALSE)

----
(* The middleware of one request, and time.                                *)

Arrive(p) ==
    /\ stamp[p] = NoStamp
    /\ stamp' = [stamp EXCEPT ![p] = clock]
    /\ UNCHANGED <<hits, nextSweep, clock, admitted, refused>>

Allow(p, k) ==
    /\ stamp[p] # NoStamp
    /\ \/ Open(k, stamp[p])
       \/ Count(k, stamp[p])
       \/ Refuse(k, stamp[p])
    /\ nextSweep' = SweepAt(stamp[p])
    /\ stamp' = [stamp EXCEPT ![p] = NoStamp]
    /\ UNCHANGED clock

Tick ==
    /\ clock < MaxClock
    /\ \A p \in Requests : stamp[p] # NoStamp => clock < stamp[p] + Skew
    /\ clock' = clock + 1
    /\ UNCHANGED <<hits, nextSweep, stamp, admitted, refused>>

Next ==
    \/ \E p \in Requests : Arrive(p)
    \/ \E p \in Requests, k \in Keys : Allow(p, k)
    \/ Tick

Spec == Init /\ [][Next]_vars

----
(* Properties.                                                             *)

\* The limiter never admits more than 2 * limit requests of a key within any
\* window - Skew ticks, and refuses one only if limit requests were admitted
\* within the last window + Skew ticks, whatever the order in which goroutines
\* take the mutex and whatever the sweep removes (allow, middleware).
Promise == INSTANCE BurstLimit
    WITH tight <- window - Skew, loose <- window + Skew

KeepsPromise == Promise!Spec

\* "Expired entries are swept once per window so the map stays bounded to
\* active keys": no window that was over by the last sweep is still kept.
SweptEntriesGone ==
    \A k \in Keys : hits[k] # NoWindow => hits[k].resetAt >= nextSweep - window
=============================================================================
