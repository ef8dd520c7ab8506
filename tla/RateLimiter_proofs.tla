------------------------- MODULE RateLimiter_proofs -------------------------
(***************************************************************************)
(* Theorems about RateLimiter, for any keys, any number of goroutines in   *)
(* flight, any limit and window, and any delay up to one window: types, the*)
(* sweep, and the refinement of BurstLimit.                                *)
(***************************************************************************)
EXTENDS RateLimiter, TLAPS

\* Time stamps lie at most Skew in the past, and the next sweep at most one
\* window ahead: a late request cannot open a window the sweep has passed.
Timely ==
    /\ nextSweep <= clock + window
    /\ \A p \in Requests : stamp[p] # NoStamp =>
          stamp[p] <= clock /\ clock <= stamp[p] + Skew

IInv == TypeOK /\ Timely /\ SweptEntriesGone

LEMMA Numbers ==
    /\ limit \in Nat \ {0} /\ window \in Nat \ {0} /\ Skew \in Nat
    /\ Skew <= window /\ MaxClock \in Nat
    /\ NoStamp = -1 /\ ZeroTime = -1
  BY LimitAssumption, TimeAssumption DEF NoStamp, ZeroTime

\* The sweep keeps every entry or deletes it.
LEMMA SweptEntry ==
    ASSUME TypeOK, NEW now \in Nat, NEW k \in Keys
    PROVE  /\ Swept(now) \in [Keys -> Window \cup {NoWindow}]
           /\ Swept(now)[k] \in {hits[k], NoWindow}
           /\ now > nextSweep /\ Swept(now)[k] # NoWindow =>
                 Swept(now)[k].resetAt >= now
  <1>1. hits[k] \in Window \cup {NoWindow}
    BY DEF TypeOK
  <1>2. Swept(now) \in [Keys -> Window \cup {NoWindow}]
    BY DEF Swept, TypeOK
  <1>3. Swept(now)[k] \in {hits[k], NoWindow}
    BY DEF Swept, TypeOK
  <1>4. ASSUME now > nextSweep, Swept(now)[k] # NoWindow
        PROVE  Swept(now)[k].resetAt >= now
    <2>1. Swept(now)[k] = hits[k] /\ ~Expired(hits[k], now)
      BY <1>4 DEF Swept
    <2>2. hits[k].resetAt \in Nat
      BY <1>1, <1>4, <2>1 DEF Window
    <2> QED BY <2>1, <2>2 DEF Expired
  <1> QED BY <1>2, <1>3, <1>4

\* allow changes the map as the sweep does, except for the key it answers,
\* whose window is new, or counts one more, or is as it was.
LEMMA AllowEntry ==
    ASSUME TypeOK, NEW p \in Requests, NEW k \in Keys, Allow(p, k)
    PROVE  /\ stamp[p] \in Nat
           /\ hits' \in [Keys -> Window \cup {NoWindow}]
           /\ \A j \in Keys : hits'[j] # NoWindow =>
                 \/ hits'[j].resetAt = stamp[p] + window
                 \/ /\ Swept(stamp[p])[j] # NoWindow
                    /\ hits'[j].resetAt = Swept(stamp[p])[j].resetAt
  <1> DEFINE now == stamp[p]
             s == Swept(now)
  <1>0. now \in Nat
    BY Numbers DEF Allow, TypeOK
  <1>a. s \in [Keys -> Window \cup {NoWindow}]
    BY <1>0, SweptEntry
  <1> HIDE DEF now, s
  <1>1. CASE Open(k, now)
    <2>1. hits' = [s EXCEPT ![k] = [count |-> 1, resetAt |-> now + window]]
      BY <1>1 DEF Open, s
    <2>2. [count |-> 1, resetAt |-> now + window] \in Window
      BY <1>0, Numbers DEF Window
    <2>3. /\ hits'[k].resetAt = now + window
          /\ \A j \in Keys \ {k} : hits'[j] = s[j]
          /\ hits' \in [Keys -> Window \cup {NoWindow}]
      BY <1>a, <2>1, <2>2
    <2> QED BY <1>0, <2>3 DEF now, s
  <1>2. CASE Count(k, now)
    <2>1. /\ ~Fresh(s[k], now)
          /\ s[k].count < limit
          /\ hits' = [s EXCEPT ![k].count = @ + 1]
      BY <1>2 DEF Count, s
    <2>2. s[k] # NoWindow /\ s[k] \in Window
      BY <1>a, <2>1 DEF Fresh
    <2>3. hits'[k] = [s[k] EXCEPT !.count = @ + 1]
      BY <1>a, <2>1
    <2>4. hits'[k] \in Window /\ hits'[k].resetAt = s[k].resetAt
      BY <2>1, <2>2, <2>3, Numbers DEF Window
    <2>5. \A j \in Keys \ {k} : hits'[j] = s[j]
      BY <1>a, <2>1
    <2>6. hits' \in [Keys -> Window \cup {NoWindow}]
      BY <1>a, <2>1, <2>3, <2>4, <2>5
    <2> QED BY <1>0, <2>2, <2>4, <2>5, <2>6 DEF now, s
  <1>3. CASE Refuse(k, now)
    BY <1>0, <1>a, <1>3 DEF Refuse, now, s
  <1> QED BY <1>1, <1>2, <1>3 DEF Allow, now

LEMMA InitInv == Init => IInv
  <1> SUFFICES ASSUME Init PROVE IInv
    OBVIOUS
  <1>1. TypeOK
    BY Numbers DEF Init, TypeOK
  <1>2. Timely
    BY Numbers DEF Init, Timely
  <1>3. SweptEntriesGone
    BY DEF Init, SweptEntriesGone
  <1> QED BY <1>1, <1>2, <1>3 DEF IInv

LEMMA StepInv == IInv /\ [Next]_vars => IInv'
  <1> SUFFICES ASSUME TypeOK, Timely, SweptEntriesGone, [Next]_vars PROVE IInv'
    BY DEF IInv
  <1> USE Numbers
  <1>1. ASSUME NEW p \in Requests, Arrive(p) PROVE IInv'
    <2>1. TypeOK'
      BY <1>1 DEF Arrive, TypeOK
    <2>2. Timely'
      BY <1>1 DEF Arrive, TypeOK, Timely
    <2>3. SweptEntriesGone'
      BY <1>1 DEF Arrive, SweptEntriesGone
    <2> QED BY <2>1, <2>2, <2>3 DEF IInv
  <1>2. ASSUME NEW p \in Requests, NEW k \in Keys, Allow(p, k) PROVE IInv'
    <2> DEFINE now == stamp[p]
    <2>0. /\ now \in Nat /\ now <= clock /\ clock <= now + Skew
          /\ nextSweep \in Nat \cup {-1} /\ clock \in Nat
          /\ stamp' = [stamp EXCEPT ![p] = NoStamp] /\ clock' = clock
          /\ nextSweep' = SweepAt(now)
      BY <1>2, AllowEntry DEF Allow, Timely, TypeOK
    <2>1. TypeOK'
      <3>1. hits' \in [Keys -> Window \cup {NoWindow}]
        BY <1>2, AllowEntry
      <3>2. nextSweep' \in Nat \cup {ZeroTime} /\ clock' \in Nat
        BY <2>0 DEF SweepAt
      <3>3. stamp' \in [Requests -> Nat \cup {NoStamp}]
        BY <2>0 DEF TypeOK
      <3>4. PICK ok \in BOOLEAN : Answer(k, ok)
        BY <1>2 DEF Allow, Open, Count, Refuse
      <3>5. admitted' \in [Keys -> Seq(Nat)]
        BY <2>0, <3>4 DEF Answer, TypeOK
      <3>6. refused' \in [Keys -> BOOLEAN]
        BY <3>4, Zenon DEF Answer, TypeOK
      <3> QED BY <3>1, <3>2, <3>3, <3>5, <3>6 DEF TypeOK
    <2>2. Timely'
      <3>1. nextSweep' <= clock' + window
        BY <2>0 DEF SweepAt, Timely
      <3> QED BY <2>0, <3>1 DEF Timely, TypeOK
    <2>3. ASSUME NEW j \in Keys, hits'[j] # NoWindow
          PROVE  hits'[j].resetAt >= nextSweep' - window
      <3>1. CASE hits'[j].resetAt = now + window
        <4>1. nextSweep' <= clock + window
          BY <2>0, <2>2 DEF Timely
        <4>2. nextSweep' \in Int
          BY <2>0 DEF SweepAt
        <4> QED BY <2>0, <3>1, <4>1, <4>2
      <3>2. CASE Swept(now)[j] # NoWindow /\ hits'[j].resetAt = Swept(now)[j].resetAt
        <4>1. Swept(now)[j] = hits[j] /\ hits[j] # NoWindow /\ hits[j].resetAt \in Nat
          BY <2>0, <3>2, SweptEntry DEF TypeOK, Window
        <4>2. hits[j].resetAt >= nextSweep - window
          BY <4>1 DEF SweptEntriesGone
        <4>3. now > nextSweep => hits[j].resetAt >= now
          BY <2>0, <3>2, <4>1, SweptEntry
        <4> QED BY <2>0, <3>2, <4>1, <4>2, <4>3 DEF SweepAt
      <3> QED BY <1>2, <2>3, <3>1, <3>2, AllowEntry
    <2> QED BY <2>1, <2>2, <2>3 DEF IInv, SweptEntriesGone
  <1>3. CASE Tick
    <2>1. TypeOK'
      BY <1>3 DEF Tick, TypeOK
    <2>2. Timely'
      BY <1>3 DEF Tick, TypeOK, Timely
    <2>3. SweptEntriesGone'
      BY <1>3 DEF Tick, SweptEntriesGone
    <2> QED BY <2>1, <2>2, <2>3 DEF IInv
  <1>4. CASE UNCHANGED vars
    BY <1>4 DEF vars, IInv, TypeOK, Timely, SweptEntriesGone
  <1> QED BY <1>1, <1>2, <1>3, <1>4 DEF Next

THEOREM Invariance == Spec => []IInv
  BY InitInv, StepInv, PTL DEF Spec

\* Types; in particular no window ever counts past the limit.
THEOREM TypeCorrect == Spec => []TypeOK
  <1>1. IInv => TypeOK
    BY DEF IInv
  <1> QED BY <1>1, Invariance, PTL

\* The map holds no window that had ended before the last sweep, even when
\* requests are processed out of the order of their time stamps.
THEOREM MapSwept == Spec => []SweptEntriesGone
  <1>1. IInv => SweptEntriesGone
    BY DEF IInv
  <1> QED BY <1>1, Invariance, PTL

----
(* The promise of BurstLimit.                                               *)

\* A key's admissions are in order of time, none after t.
InOrder(times, t) ==
    /\ \A i \in 1..Len(times) : times[i] <= t
    /\ \A i, j \in 1..Len(times) : i <= j => times[i] <= times[j]

\* The limit-th last admission is more than window - Skew ticks past.
Rested(times, t) ==
    Len(times) >= limit => times[Len(times) - limit + 1] + (window - Skew) < t

\* The admissions an open window has counted: the first came when it was opened, give
\* or take Skew, and the limit-th before it more than window - Skew ticks earlier.
Counted(count, opened, times) ==
    /\ Len(times) >= count
    /\ opened <= times[Len(times) - count + 1]
    /\ times[Len(times) - count + 1] <= opened + Skew
    /\ Len(times) - count >= limit =>
          times[Len(times) - count - limit + 1] + (window - Skew) < times[Len(times) - count + 1]

Kept(w, times, t) ==
    IF w = NoWindow THEN Rested(times, t) ELSE Counted(w.count, w.resetAt - window, times)

Spaced == \A k \in Keys : InOrder(admitted[k], clock) /\ Kept(hits[k], admitted[k], clock)

\* Where an open window's admissions, and those before them, are listed.
LEMMA Indices ==
    ASSUME NEW n \in Nat, NEW c \in 1..limit, n >= c
    PROVE  /\ n - c + 1 \in 1..n
           /\ (n + 1) - (c + 1) = n - c /\ n + 1 >= c + 1
           /\ n >= limit => n - limit + 1 \in 1..n /\ n - limit + 1 <= n - c + 1
           /\ n - c >= limit => n - c - limit + 1 \in 1..n
  BY Numbers

LEMMA RestedIsSpaced ==
    ASSUME NEW times \in Seq(Nat), NEW t \in Nat, InOrder(times, t), Rested(times, t),
           Len(times) >= 2 * limit
    PROVE  times[Len(times) - 2 * limit + 1] + (window - Skew) < t
<1> USE Numbers
<1>1. /\ Len(times) - 2 * limit + 1 \in 1..Len(times)
      /\ Len(times) - limit + 1 \in 1..Len(times)
      /\ Len(times) - 2 * limit + 1 <= Len(times) - limit + 1
  OBVIOUS
<1>2. times[Len(times) - 2 * limit + 1] <= times[Len(times) - limit + 1]
  BY <1>1 DEF InOrder
<1>3. times[Len(times) - 2 * limit + 1] \in Nat /\ times[Len(times) - limit + 1] \in Nat
  BY <1>1
<1>4. times[Len(times) - limit + 1] + (window - Skew) < t
  BY DEF Rested
<1>5. ASSUME NEW x \in Nat, NEW y \in Nat, y + (window - Skew) < t, x <= y
      PROVE  x + (window - Skew) < t
  BY <1>5
<1>6. QED
  BY <1>2, <1>3, <1>4, <1>5

\* Once a window is over, the key is rested.
LEMMA OverIsRested ==
    ASSUME NEW times \in Seq(Nat), NEW t \in Nat, InOrder(times, t),
           NEW c \in 1..limit, NEW opened \in Int, Counted(c, opened, times), opened + window < t
    PROVE  Rested(times, t)
<1> USE Numbers
<1> SUFFICES ASSUME Len(times) >= limit
             PROVE  times[Len(times) - limit + 1] + (window - Skew) < t
  BY DEF Rested
<1>1. Len(times) \in Nat /\ Len(times) >= c
  BY DEF Counted
<1>2. /\ Len(times) - limit + 1 \in 1..Len(times)
      /\ Len(times) - c + 1 \in 1..Len(times)
      /\ Len(times) - limit + 1 <= Len(times) - c + 1
  BY <1>1, Indices
<1>3. times[Len(times) - limit + 1] <= times[Len(times) - c + 1]
  BY <1>2 DEF InOrder
<1>4. times[Len(times) - limit + 1] \in Nat /\ times[Len(times) - c + 1] \in Nat
  <2>1. \A i \in 1..Len(times) : times[i] \in Nat
    OBVIOUS
  <2>2. QED
    BY <1>2, <2>1
<1>5. times[Len(times) - c + 1] <= opened + Skew
  BY DEF Counted
<1>6. ASSUME NEW x \in Nat, NEW y \in Nat, x <= y, y <= opened + Skew
      PROVE  x + (window - Skew) < t
  BY <1>6
<1>7. QED
  BY <1>3, <1>4, <1>5, <1>6

\* One more admission, now.
LEMMA OneMore ==
    ASSUME NEW times \in Seq(Nat), NEW t \in Nat, InOrder(times, t)
    PROVE  /\ Append(times, t) \in Seq(Nat)
           /\ Len(Append(times, t)) = Len(times) + 1
           /\ \A i \in 1..Len(times) : Append(times, t)[i] = times[i]
           /\ Append(times, t)[Len(times) + 1] = t
           /\ InOrder(Append(times, t), t)
<1>1. /\ Append(times, t) \in Seq(Nat) /\ Len(Append(times, t)) = Len(times) + 1
      /\ \A i \in 1..Len(times) : Append(times, t)[i] = times[i]
      /\ Append(times, t)[Len(times) + 1] = t
  OBVIOUS
<1>2. \A i \in 1..Len(times) + 1 : i \in 1..Len(times) \/ i = Len(times) + 1
  OBVIOUS
<1>3. \A i \in 1..Len(times) + 1 : Append(times, t)[i] <= t
  BY <1>1, <1>2 DEF InOrder
<1>4. \A i, j \in 1..Len(times) + 1 : i <= j => Append(times, t)[i] <= Append(times, t)[j]
  <2>1. SUFFICES ASSUME NEW i \in 1..Len(times) + 1, NEW j \in 1..Len(times) + 1, i <= j
                 PROVE  Append(times, t)[i] <= Append(times, t)[j]
    OBVIOUS
  <2>2. CASE j = Len(times) + 1
    BY <1>1, <1>3, <2>2
  <2>3. CASE j # Len(times) + 1
    <3>1. i \in 1..Len(times) /\ j \in 1..Len(times)
      BY <2>1, <2>3
    <3>2. QED
      BY <1>1, <2>1, <3>1 DEF InOrder
  <2>4. QED
    BY <2>2, <2>3
<1>5. QED
  BY <1>1, <1>3, <1>4 DEF InOrder

\* A window opened by a rested key has counted its first.
LEMMA OpenedIsCounted ==
    ASSUME NEW times \in Seq(Nat), NEW t \in Nat, NEW now \in Nat, now <= t, t <= now + Skew,
           InOrder(times, t), Rested(times, t)
    PROVE  Counted(1, now, Append(times, t))
<1> USE Numbers
<1> DEFINE more == Append(times, t)
<1>1. /\ more \in Seq(Nat) /\ Len(more) = Len(times) + 1 /\ Len(times) \in Nat
      /\ \A i \in 1..Len(times) : more[i] = times[i]
      /\ more[Len(times) + 1] = t
  BY OneMore
<1> HIDE DEF more
<1>2. Len(more) - 1 + 1 = Len(times) + 1 /\ Len(more) - 1 = Len(times) /\ Len(more) >= 1
  BY <1>1
<1>3. now <= more[Len(more) - 1 + 1] /\ more[Len(more) - 1 + 1] <= now + Skew
  BY <1>1, <1>2
<1>4. ASSUME Len(times) >= limit
      PROVE  more[Len(times) - limit + 1] + (window - Skew) < more[Len(times) + 1]
  <2>1. Len(times) - limit + 1 \in 1..Len(times)
    BY <1>1, <1>4
  <2>2. times[Len(times) - limit + 1] + (window - Skew) < t
    BY <1>4 DEF Rested
  <2>3. QED
    BY <1>1, <2>1, <2>2
<1>5. QED
  BY <1>2, <1>3, <1>4 DEF Counted, more

\* A window that counts one more has still counted them.
LEMMA CountedMore ==
    ASSUME NEW times \in Seq(Nat), NEW t \in Nat, InOrder(times, t),
           NEW c \in 1..limit, NEW opened \in Int, Counted(c, opened, times)
    PROVE  Counted(c + 1, opened, Append(times, t))
<1> USE Numbers
<1> DEFINE longer == Append(times, t)
<1>1. /\ longer \in Seq(Nat) /\ Len(longer) = Len(times) + 1 /\ Len(times) \in Nat
      /\ \A i \in 1..Len(times) : longer[i] = times[i]
  BY OneMore
<1> HIDE DEF longer
<1>2. Len(times) >= c
  BY DEF Counted
<1> DEFINE first == Len(times) - c + 1
           before == Len(times) - c - limit + 1
<1>3. /\ first \in 1..Len(times)
      /\ Len(times) - c >= limit => before \in 1..Len(times)
  BY <1>1, <1>2, Indices
<1>4. /\ Len(longer) >= c + 1
      /\ Len(longer) - (c + 1) = Len(times) - c
      /\ Len(longer) - (c + 1) + 1 = first
      /\ Len(longer) - (c + 1) - limit + 1 = before
  BY <1>1, <1>2
<1>5. /\ opened <= times[first] /\ times[first] <= opened + Skew
      /\ Len(times) - c >= limit => times[before] + (window - Skew) < times[first]
  BY DEF Counted
<1> HIDE DEF first, before
<1>6. longer[first] = times[first] /\ (Len(times) - c >= limit => longer[before] = times[before])
  BY <1>1, <1>3
<1>7. QED
  BY <1>4, <1>5, <1>6 DEF Counted, longer

\* While a window that is not full is open, twice the limit have not been admitted.
LEMMA CountedIsSpaced ==
    ASSUME NEW times \in Seq(Nat), NEW t \in Nat, InOrder(times, t),
           NEW c \in 1..limit, NEW opened \in Int, c < limit, Counted(c, opened, times),
           Len(times) >= 2 * limit
    PROVE  times[Len(times) - 2 * limit + 1] + (window - Skew) < t
<1> USE Numbers
<1> DEFINE first == Len(times) - c + 1
           before == Len(times) - c - limit + 1
           oldest == Len(times) - 2 * limit + 1
<1>1. /\ first \in 1..Len(times) /\ before \in 1..Len(times) /\ oldest \in 1..Len(times)
      /\ oldest <= before /\ Len(times) - c >= limit
  <2>1. Len(times) \in Nat /\ 2 * limit = limit + limit
    OBVIOUS
  <2>2. QED
    BY <2>1
<1>2. times[before] + (window - Skew) < times[first]
  BY <1>1 DEF Counted
<1> HIDE DEF first, before, oldest
<1>3. times[oldest] <= times[before] /\ times[first] <= t
  BY <1>1 DEF InOrder
<1>4. times[oldest] \in Nat /\ times[before] \in Nat /\ times[first] \in Nat
  <2>1. \A i \in 1..Len(times) : times[i] \in Nat
    OBVIOUS
  <2>2. QED
    BY <1>1, <2>1
<1>5. ASSUME NEW x \in Nat, NEW y \in Nat, NEW z \in Nat,
             y + (window - Skew) < z, x <= y, z <= t
      PROVE  x + (window - Skew) < t
  BY <1>5
<1>6. times[oldest] + (window - Skew) < t
  BY <1>2, <1>3, <1>4, <1>5
<1>7. QED
  BY <1>6 DEF oldest

\* A full window that is not over was filled within the last window + Skew ticks.
LEMMA FullIsRecent ==
    ASSUME NEW times \in Seq(Nat), NEW t \in Nat, NEW now \in Nat, t <= now + Skew,
           NEW opened \in Int, now <= opened + window, Counted(limit, opened, times)
    PROVE  /\ Len(times) >= limit
           /\ times[Len(times) - limit + 1] + (window + Skew) >= t
<1> USE Numbers
<1>1. Len(times) >= limit /\ Len(times) - limit + 1 \in 1..Len(times)
  BY DEF Counted
<1>2. times[Len(times) - limit + 1] \in Nat
  BY <1>1
<1>3. opened <= times[Len(times) - limit + 1]
  BY DEF Counted
<1>4. QED
  BY <1>1, <1>2, <1>3

\* An open window's fields.
LEMMA WindowFields ==
    /\ NoWindow \notin Window
    /\ \A w \in Window : w.count \in 1..limit /\ w.resetAt \in Nat /\ w.resetAt - window \in Int
<1>1. NoWindow \notin Window
  BY DEF NoWindow, Window
<1>2. \A w \in Window : w.count \in 1..limit /\ w.resetAt \in Nat
  BY DEF Window
<1>3. QED
  BY <1>1, <1>2, Numbers

LEMMA OverInTime ==
    ASSUME NEW w \in Window, NEW times \in Seq(Nat), NEW t \in Nat, NEW now \in Nat, now <= t,
           InOrder(times, t), Counted(w.count, w.resetAt - window, times), Expired(w, now)
    PROVE  Rested(times, t)
<1>1. (w.resetAt - window) + window < t
  BY WindowFields, Numbers DEF Expired
<1>2. QED
  BY <1>1, WindowFields, OverIsRested

\* The sweep leaves every key as spaced as it was.
LEMMA SweptIsKept ==
    ASSUME TypeOK, Spaced, NEW now \in Nat, now <= clock, NEW k \in Keys
    PROVE  Kept(Swept(now)[k], admitted[k], clock)
<1>1. /\ hits[k] \in Window \cup {NoWindow} /\ admitted[k] \in Seq(Nat) /\ clock \in Nat
      /\ InOrder(admitted[k], clock) /\ Kept(hits[k], admitted[k], clock)
  BY DEF TypeOK, Spaced
<1>2. CASE Swept(now)[k] = hits[k]
  BY <1>1, <1>2
<1>3. CASE Swept(now)[k] # hits[k]
  <2>1. Swept(now)[k] = NoWindow
    BY <1>3, SweptEntry
  <2>2. hits[k] \in Window /\ hits[k] # NoWindow /\ Expired(hits[k], now)
    BY <1>1, <1>3, <2>1 DEF Swept
  <2>3. Counted(hits[k].count, hits[k].resetAt - window, admitted[k])
    BY <1>1, <2>2 DEF Kept
  <2>4. Rested(admitted[k], clock)
    BY <1>1, <2>2, <2>3, OverInTime
  <2>5. QED
    BY <2>1, <2>4 DEF Kept
<1>4. QED
  BY <1>2, <1>3

\* What one allow does to the key it answers.
LEMMA AllowSpaces ==
    ASSUME TypeOK, Timely, Spaced, NEW p \in Requests, NEW k \in Keys, Allow(p, k)
    PROVE  /\ \A j \in Keys : InOrder(admitted'[j], clock) /\ Kept(hits'[j], admitted'[j], clock)
           /\ Promise!Admit(k) \/ Promise!Refuse(k)
<1> DEFINE now == stamp[p]
           w == Swept(now)[k]
           times == admitted[k]
<1>1. /\ now \in Nat /\ now <= clock /\ clock <= now + Skew /\ clock \in Nat
      /\ Skew \in Nat
  BY AllowEntry, Numbers DEF Allow, Timely, TypeOK
<1>2. /\ Swept(now) \in [Keys -> Window \cup {NoWindow}]
      /\ \A j \in Keys : Kept(Swept(now)[j], admitted[j], clock)
  BY <1>1, SweptEntry, SweptIsKept
<1>3. /\ times \in Seq(Nat) /\ InOrder(times, clock) /\ admitted \in [Keys -> Seq(Nat)]
      /\ \A j \in Keys : InOrder(admitted[j], clock)
  BY DEF TypeOK, Spaced
<1>4. Kept(w, times, clock) /\ w \in Window \cup {NoWindow}
  BY <1>2
<1>5. UNCHANGED clock
  BY DEF Allow
<1>6. ASSUME Answer(k, TRUE),
             \A j \in Keys \ {k} : hits'[j] = Swept(now)[j],
             hits'[k] \in Window,
             Counted(hits'[k].count, hits'[k].resetAt - window, Append(times, clock)),
             Len(times) >= 2 * limit =>
                ~(times[Len(times) - 2 * limit + 1] + (window - Skew) >= clock)
      PROVE  /\ \A j \in Keys : InOrder(admitted'[j], clock) /\ Kept(hits'[j], admitted'[j], clock)
             /\ Promise!Admit(k)
  <2>1. /\ admitted' = [admitted EXCEPT ![k] = Append(times, clock)]
        /\ refused' = [refused EXCEPT ![k] = FALSE]
    BY <1>6 DEF Answer
  <2>2. admitted'[k] = Append(times, clock) /\ \A j \in Keys \ {k} : admitted'[j] = admitted[j]
    BY <1>3, <2>1
  <2>3. InOrder(admitted'[k], clock) /\ Kept(hits'[k], admitted'[k], clock)
    BY <1>1, <1>3, <1>6, <2>2, OneMore, WindowFields DEF Kept
  <2>4. \A j \in Keys \ {k} : InOrder(admitted'[j], clock) /\ Kept(hits'[j], admitted'[j], clock)
    BY <1>2, <1>3, <1>6, <2>2
  <2>5. Promise!Admit(k)
    BY <1>5, <1>6, <2>1 DEF Promise!Admit, Promise!Recently
  <2>6. QED
    BY <2>3, <2>4, <2>5
<1>7. CASE Open(k, now)
  <2>1. /\ Fresh(w, now) /\ Answer(k, TRUE)
        /\ hits' = [Swept(now) EXCEPT ![k] = [count |-> 1, resetAt |-> now + window]]
    BY <1>7 DEF Open
  <2>2. /\ hits'[k] = [count |-> 1, resetAt |-> now + window]
        /\ \A j \in Keys \ {k} : hits'[j] = Swept(now)[j]
    BY <1>2, <2>1
  <2>3. hits'[k] \in Window
    BY <1>1, <2>2, Numbers DEF Window
  <2>4. Rested(times, clock)
    <3>1. CASE w = NoWindow
      BY <1>4, <3>1 DEF Kept
    <3>2. CASE w # NoWindow
      BY <1>1, <1>3, <1>4, <2>1, <3>2, OverInTime DEF Kept, Fresh
    <3>3. QED
      BY <3>1, <3>2
  <2>5. Counted(hits'[k].count, hits'[k].resetAt - window, Append(times, clock))
    <3>1. Counted(1, now, Append(times, clock))
      BY <1>1, <1>3, <2>4, OpenedIsCounted
    <3>2. hits'[k].count = 1 /\ hits'[k].resetAt - window = now
      BY <1>1, <2>2, Numbers
    <3>3. QED
      BY <3>1, <3>2
  <2>6. Len(times) >= 2 * limit =>
           ~(times[Len(times) - 2 * limit + 1] + (window - Skew) >= clock)
    <3>1. SUFFICES ASSUME Len(times) >= 2 * limit
                   PROVE  ~(times[Len(times) - 2 * limit + 1] + (window - Skew) >= clock)
      OBVIOUS
    <3>2. times[Len(times) - 2 * limit + 1] + (window - Skew) < clock
      BY <1>1, <1>3, <2>4, <3>1, RestedIsSpaced
    <3>3. times[Len(times) - 2 * limit + 1] \in Nat
      BY <1>3, <3>1, Numbers
    <3>4. ASSUME NEW x \in Nat, x + (window - Skew) < clock
          PROVE  ~(x + (window - Skew) >= clock)
      BY <1>1, <3>4, Numbers
    <3>5. QED
      BY <3>2, <3>3, <3>4
  <2>7. QED
    BY <1>6, <2>1, <2>2, <2>3, <2>5, <2>6
<1>8. CASE Count(k, now)
  <2>1. /\ ~Fresh(w, now) /\ w.count < limit /\ Answer(k, TRUE)
        /\ hits' = [Swept(now) EXCEPT ![k].count = @ + 1]
    BY <1>8 DEF Count
  <2>2. w \in Window /\ w # NoWindow
    BY <1>4, <2>1 DEF Fresh
  <2>3. /\ hits'[k] = [w EXCEPT !.count = @ + 1]
        /\ \A j \in Keys \ {k} : hits'[j] = Swept(now)[j]
    BY <1>2, <2>1
  <2>4. hits'[k] \in Window /\ hits'[k].count = w.count + 1 /\ hits'[k].resetAt = w.resetAt
    <3>1. ASSUME NEW v \in Window, v.count < limit
          PROVE  /\ [v EXCEPT !.count = @ + 1] \in Window
                 /\ [v EXCEPT !.count = @ + 1].count = v.count + 1
                 /\ [v EXCEPT !.count = @ + 1].resetAt = v.resetAt
      BY <3>1, Numbers DEF Window
    <3>2. QED
      BY <2>1, <2>2, <2>3, <3>1
  <2>5. Counted(w.count, w.resetAt - window, times)
    BY <1>4, <2>2 DEF Kept
  <2>6. Counted(hits'[k].count, hits'[k].resetAt - window, Append(times, clock))
    BY <1>1, <1>3, <2>2, <2>4, <2>5, WindowFields, CountedMore
  <2>7. Len(times) >= 2 * limit =>
           ~(times[Len(times) - 2 * limit + 1] + (window - Skew) >= clock)
    <3>1. SUFFICES ASSUME Len(times) >= 2 * limit
                   PROVE  ~(times[Len(times) - 2 * limit + 1] + (window - Skew) >= clock)
      OBVIOUS
    <3>2. times[Len(times) - 2 * limit + 1] + (window - Skew) < clock
      BY <1>1, <1>3, <2>1, <2>2, <2>5, <3>1, WindowFields, CountedIsSpaced
    <3>3. times[Len(times) - 2 * limit + 1] \in Nat
      BY <1>3, <3>1, Numbers
    <3>4. ASSUME NEW x \in Nat, x + (window - Skew) < clock
          PROVE  ~(x + (window - Skew) >= clock)
      BY <1>1, <3>4, Numbers
    <3>5. QED
      BY <3>2, <3>3, <3>4
  <2>8. QED
    BY <1>6, <2>1, <2>3, <2>4, <2>6, <2>7
<1>9. CASE Refuse(k, now)
  <2>1. /\ ~Fresh(w, now) /\ w.count >= limit /\ Answer(k, FALSE) /\ hits' = Swept(now)
    BY <1>9 DEF Refuse
  <2>2. w \in Window /\ ~Expired(w, now) /\ Counted(w.count, w.resetAt - window, times)
    BY <1>4, <2>1 DEF Fresh, Kept
  <2>3. admitted' = admitted /\ refused' = [refused EXCEPT ![k] = TRUE]
    BY <2>1 DEF Answer
  <2>4. Len(times) >= limit /\ times[Len(times) - limit + 1] + (window + Skew) >= clock
    <3>1. /\ w.count = limit /\ w.resetAt - window \in Int
          /\ now <= (w.resetAt - window) + window
      <4>1. w.count \in 1..limit /\ w.resetAt \in Nat /\ w.resetAt - window \in Int
        BY <2>2, WindowFields
      <4>2. now <= w.resetAt
        BY <1>1, <2>2, <4>1 DEF Expired
      <4>3. w.count = limit
        BY <2>1, <4>1, Numbers
      <4>4. QED
        BY <1>1, <4>1, <4>2, <4>3, Numbers
    <3>2. Counted(limit, w.resetAt - window, times)
      BY <2>2, <3>1
    <3>3. QED
      BY <1>1, <1>3, <3>1, <3>2, FullIsRecent
  <2>5. Promise!Refuse(k)
    BY <1>5, <2>3, <2>4 DEF Promise!Refuse, Promise!Recently
  <2>6. QED
    BY <1>2, <1>3, <2>1, <2>3, <2>5
<1>10. QED
  BY <1>7, <1>8, <1>9 DEF Allow

LEMMA SpacedStep == IInv /\ Spaced /\ [Next]_vars => Spaced'
<1> SUFFICES ASSUME TypeOK, Timely, Spaced, [Next]_vars PROVE Spaced'
  BY DEF IInv
<1>1. ASSUME NEW p \in Requests, Arrive(p) PROVE Spaced'
  BY <1>1 DEF Arrive, Spaced
<1>2. ASSUME NEW p \in Requests, NEW k \in Keys, Allow(p, k) PROVE Spaced'
  <2>1. clock' = clock
    BY <1>2 DEF Allow
  <2>2. QED
    BY <1>2, <2>1, AllowSpaces DEF Spaced
<1>3. CASE Tick
  <2>1. clock' = clock + 1 /\ UNCHANGED <<hits, admitted>> /\ clock \in Nat
    BY <1>3 DEF Tick, TypeOK
  <2>2. ASSUME NEW times \in Seq(Nat), InOrder(times, clock) PROVE InOrder(times, clock + 1)
    <3>1. \A i \in 1..Len(times) : times[i] \in Nat /\ times[i] <= clock
      BY <2>2 DEF InOrder
    <3>2. \A i \in 1..Len(times) : times[i] <= clock + 1
      BY <2>1, <3>1
    <3>3. QED
      BY <2>2, <3>2 DEF InOrder
  <2>3. ASSUME NEW times \in Seq(Nat), Rested(times, clock) PROVE Rested(times, clock + 1)
    <3>1. SUFFICES ASSUME Len(times) >= limit
                   PROVE  times[Len(times) - limit + 1] + (window - Skew) < clock + 1
      BY DEF Rested
    <3>2. times[Len(times) - limit + 1] \in Nat
      BY <3>1, Numbers
    <3>3. QED
      BY <2>1, <2>3, <3>1, <3>2, Numbers DEF Rested
  <2>4. \A k \in Keys : admitted[k] \in Seq(Nat)
    BY DEF TypeOK
  <2>5. QED
    BY <2>1, <2>2, <2>3, <2>4 DEF Spaced, Kept
<1>4. CASE UNCHANGED vars
  BY <1>4 DEF vars, Spaced
<1>5. QED
  BY <1>1, <1>2, <1>3, <1>4 DEF Next

LEMMA SpacedInit == Init => Spaced
<1> SUFFICES ASSUME Init, NEW k \in Keys
             PROVE  InOrder(admitted[k], clock) /\ Kept(hits[k], admitted[k], clock)
  BY DEF Spaced
<1>1. admitted[k] = <<>> /\ hits[k] = NoWindow
  BY DEF Init
<1>2. Len(<<>>) = 0
  OBVIOUS
<1>3. InOrder(<<>>, clock)
  BY <1>2 DEF InOrder
<1>4. Rested(<<>>, clock)
  BY <1>2, Numbers DEF Rested
<1>5. QED
  BY <1>1, <1>3, <1>4 DEF Kept

\* Every step is one of the promise's, or none it sees.
LEMMA PromiseStep ==
    IInv /\ Spaced /\ [Next]_vars => [Promise!Next]_(Promise!vars)
<1> SUFFICES ASSUME TypeOK, Timely, Spaced, [Next]_vars PROVE [Promise!Next]_(Promise!vars)
  BY DEF IInv
<1>1. ASSUME NEW p \in Requests, Arrive(p) PROVE [Promise!Next]_(Promise!vars)
  BY <1>1 DEF Arrive, Promise!vars
<1>2. ASSUME NEW p \in Requests, NEW k \in Keys, Allow(p, k) PROVE [Promise!Next]_(Promise!vars)
  BY <1>2, AllowSpaces DEF Promise!Next
<1>3. CASE Tick
  BY <1>3 DEF Tick, Promise!Next, Promise!Tick
<1>4. CASE UNCHANGED vars
  BY <1>4 DEF vars, Promise!vars
<1>5. QED
  BY <1>1, <1>2, <1>3, <1>4 DEF Next

\* For any limit, window and delay: what the limiter admits and refuses is what its
\* callers may rely on, however late requests take the mutex and whatever is swept
\* (ratelimit.go: allow, middleware).
THEOREM PromiseKept == Spec => KeepsPromise
<1>1. Init => Promise!Init
  BY DEF Init, Promise!Init
<1>2. QED
  BY <1>1, SpacedInit, SpacedStep, PromiseStep, Invariance, PTL DEF Spec, KeepsPromise, Promise!Spec
=============================================================================
