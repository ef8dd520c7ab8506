----------------------------- MODULE BurstLimit -----------------------------
(***************************************************************************)
(* What a caller of the rate limiter may rely on (httpapi/ratelimit.go),   *)
(* stated without windows, entries or sweeps: only the times at which      *)
(* requests of a key were admitted.                                        *)
(*   - a burst is bounded: at most 2 * limit requests of a key are admitted*)
(*     within any `tight' ticks;                                           *)
(*   - a refusal is earned: a request is refused only if limit requests of *)
(*     its key were admitted within the last `loose' ticks.                *)
(***************************************************************************)
EXTENDS Naturals, Sequences

CONSTANTS
    Keys,    \* client addresses
    limit,
    tight,   \* length of the interval a burst is counted over
    loose    \* how far back a refusal may look

VARIABLES
    clock,
    admitted, \* admitted[k]: the times at which requests of key k were admitted
    refused   \* refused[k]: the last answer to key k was a refusal

vars == <<clock, admitted, refused>>

\* Were m requests of k admitted within the last n ticks?  Time goes on, so the m-th
\* last admission tells.
Recently(k, m, n) ==
    /\ Len(admitted[k]) >= m
    /\ admitted[k][Len(admitted[k]) - m + 1] + n >= clock

Init ==
    /\ clock = 0
    /\ admitted = [k \in Keys |-> <<>>]
    /\ refused = [k \in Keys |-> FALSE]

Tick == clock' = clock + 1 /\ UNCHANGED <<admitted, refused>>

Admit(k) ==
    /\ ~Recently(k, 2 * limit, tight)
    /\ admitted' = [admitted EXCEPT ![k] = Append(@, clock)]
    /\ refused' = [refused EXCEPT ![k] = FALSE]
    /\ UNCHANGED clock

Refuse(k) ==
    /\ Recently(k, limit, loose)
    /\ refused' = [refused EXCEPT ![k] = TRUE]
    /\ UNCHANGED <<clock, admitted>>

Next ==
    \/ Tick
    \/ \E k \in Keys : Admit(k) \/ Refuse(k)

Spec == Init /\ [][Next]_vars
=============================================================================
