-------------------------- MODULE CallPage_proofs --------------------------
(***************************************************************************)
(* Proofs about the components of the page that keep what people see and   *)
(* say, for any users, participants, rooms, versions and bounds: the       *)
(* inductive invariant of each, and the properties of MCCallPage's         *)
(* specification.  Muting and the records have modules of their own.       *)
(***************************************************************************)
EXTENDS MCCallPage, Muting_proofs, Records_proofs, FiniteSetTheorems, SequenceTheorems,
        WellFoundedInduction, TLAPS

----
(* Numbers: the least and the greatest of a set, steps, copies.             *)

\* Every set of numbers has a least one, which is what induction rests on.
LEMMA LeastNat ==
    ASSUME NEW T \in SUBSET Nat, T # {}
    PROVE  \E i \in T : \A j \in T : i <= j
<1> DEFINE R == {p \in Nat \X Nat : p[1] < p[2]}
<1>1. IsWellFoundedOn(R, Nat)
  BY NatLessThanWellFounded DEF OpToRel
<1>2. \E i \in T : \A j \in T : <<j, i>> \notin R
  <2> HIDE DEF R
  <2>1. QED
    BY <1>1, WFMin
<1>3. PICK i \in T : \A j \in T : <<j, i>> \notin R
  BY <1>2
<1>4. \A j \in T : ~(j < i)
  BY <1>3
<1>5. QED
  BY <1>4

LEMMA MinIsLeast ==
    ASSUME NEW T \in SUBSET Nat, T # {}
    PROVE  Min(T) \in T /\ \A j \in T : Min(T) <= j
  BY LeastNat DEF Min

\* A set of numbers with a bound has a greatest one.
LEMMA MaxIsGreatest ==
    ASSUME NEW n \in Nat, NEW T \in SUBSET (0..n), T # {}
    PROVE  Max(T) \in T /\ \A j \in T : Max(T) >= j
<1> DEFINE U == {i \in 0..n : n - i \in T}
<1>1. U \in SUBSET Nat /\ U # {}
  <2>1. PICK i \in T : TRUE
    OBVIOUS
  <2>2. n - i \in 0..n /\ n - (n - i) = i
    OBVIOUS
  <2>3. QED
    BY <2>1, <2>2
<1>2. PICK m \in U : \A j \in U : m <= j
  BY <1>1, LeastNat
<1>3. \A j \in T : n - m >= j
  <2>1. SUFFICES ASSUME NEW j \in T PROVE n - m >= j
    OBVIOUS
  <2>2. n - j \in 0..n /\ n - (n - j) = j
    OBVIOUS
  <2>3. n - j \in U
    BY <2>2
  <2>4. m <= n - j /\ m \in Nat
    BY <1>2, <2>3
  <2>5. QED
    BY <2>4
<1>4. QED
  BY <1>2, <1>3 DEF Max

\* Induction on the numbers up to n, over the set of those for which something holds.
LEMMA UpTo ==
    ASSUME NEW n \in Nat, NEW T, 0 \in T, \A k \in 1..n : k - 1 \in T => k \in T
    PROVE  \A k \in 0..n : k \in T
<1> DEFINE bad == {k \in 0..n : k \notin T}
<1>1. SUFFICES ASSUME bad # {} PROVE FALSE
  OBVIOUS
<1>2. PICK k \in bad : \A j \in bad : k <= j
  <2>1. bad \in SUBSET Nat
    OBVIOUS
  <2> HIDE DEF bad
  <2>2. QED
    BY <1>1, <2>1, LeastNat
<1>3. k \in 1..n /\ k \notin T
  BY <1>2
<1>4. k - 1 \in 0..n /\ ~(k <= k - 1)
  BY <1>3
<1>5. k - 1 \notin bad
  <2> HIDE DEF bad
  <2>1. QED
    BY <1>2, <1>4
<1>6. k - 1 \in T
  BY <1>4, <1>5
<1>7. QED
  BY <1>3, <1>6

\* Values made step by step, each of the one before.
Stepped(first, n, step, f) == f[0] = first /\ \A k \in 1..n : f[k] = step[k][f[k - 1]]

LEMMA Steps ==
    ASSUME NEW V, NEW first \in V, NEW n \in Nat, NEW step \in [1..n -> [V -> V]]
    PROVE  \E f \in [0..n -> V] : Stepped(first, n, step, f)
<1> DEFINE Ok(m) == \E f \in [0..m -> V] :
                       f[0] = first /\ \A k \in 1..m : f[k] = step[k][f[k - 1]]
           T == {m \in 0..n : Ok(m)}
<1>1. 0 \in T
  <2> DEFINE f == [k \in 0..0 |-> first]
  <2>1. f \in [0..0 -> V] /\ f[0] = first /\ \A k \in 1..0 : f[k] = step[k][f[k - 1]]
    OBVIOUS
  <2>2. Ok(0)
    BY <2>1
  <2> HIDE DEF Ok, f
  <2>3. QED
    BY <2>2
<1>2. ASSUME NEW m \in 1..n, m - 1 \in T PROVE m \in T
  <2>1. PICK f \in [0..m - 1 -> V] :
               f[0] = first /\ \A k \in 1..m - 1 : f[k] = step[k][f[k - 1]]
    <3>1. Ok(m - 1)
      <4> HIDE DEF Ok
      <4>1. QED
        BY <1>2
    <3>2. QED
      BY <3>1
  <2> DEFINE h == [k \in 0..m |-> IF k = m THEN step[m][f[m - 1]] ELSE f[k]]
  <2>2. m - 1 \in 0..m - 1 /\ f[m - 1] \in V /\ m \in Nat /\ m # 0
    BY <2>1
  <2>3. step[m][f[m - 1]] \in V
    BY <2>2
  <2>4. \A k \in 0..m : h[k] \in V
    <3>1. SUFFICES ASSUME NEW k \in 0..m, k # m PROVE f[k] \in V
      BY <2>3
    <3>2. k \in 0..m - 1
      BY <3>1
    <3>3. QED
      BY <2>1, <3>2
  <2>5. h[0] = first
    BY <2>1, <2>2
  <2>6. ASSUME NEW k \in 1..m PROVE h[k] = step[k][h[k - 1]]
    <3>1. k - 1 \in 0..m /\ k - 1 # m /\ k \in 0..m
      BY <2>6
    <3>2. h[k - 1] = f[k - 1]
      BY <3>1
    <3>3. CASE k = m
      BY <3>1, <3>2, <3>3
    <3>4. CASE k # m
      <4>1. k \in 1..m - 1
        BY <2>6, <3>4
      <4>2. h[k] = f[k] /\ f[k] = step[k][f[k - 1]]
        BY <2>1, <3>1, <3>4, <4>1
      <4>3. QED
        BY <3>2, <4>2
    <3>5. QED
      BY <3>3, <3>4
  <2>7. h \in [0..m -> V]
    BY <2>4
  <2> HIDE DEF h
  <2>8. Ok(m)
    BY <2>5, <2>6, <2>7
  <2> HIDE DEF Ok
  <2>9. QED
    BY <2>8
<1>3. \A k \in 0..n : k \in T
  <2> HIDE DEF T
  <2>1. QED
    BY <1>1, <1>2, UpTo
<1>4. Ok(n)
  <2> HIDE DEF Ok
  <2>1. QED
    BY <1>3
<1>5. QED
  BY <1>4 DEF Stepped

\* Sequences of the same length with the same elements are the same.
LEMMA SameSeq ==
    ASSUME NEW S, NEW s \in Seq(S), NEW R, NEW t \in Seq(R), Len(s) = Len(t),
           \A i \in 1..Len(s) : s[i] = t[i]
    PROVE  s = t
  OBVIOUS

\* A sequence with one element more.
LEMMA OneMore ==
    ASSUME NEW S, NEW u \in Seq(S), NEW c \in S, NEW v, v = u \o <<c>>
    PROVE  /\ v \in Seq(S) /\ Len(v) = Len(u) + 1
           /\ \A j \in 1..Len(u) + 1 : v[j] = IF j = Len(u) + 1 THEN c ELSE u[j]
  OBVIOUS

\* A copy of n elements of a list, and that adding one at a time makes one.
CopyOf(s, S, list, n) == s \in Seq(S) /\ Len(s) = n /\ \A j \in 1..n : s[j] = list[j]

LEMMA Copied ==
    ASSUME NEW S, NEW n \in Nat, NEW list, \A k \in 1..n : list[k] \in S,
           NEW f, f[0] = <<>>, \A k \in 1..n : f[k] = f[k - 1] \o <<list[k]>>
    PROVE  CopyOf(f[n], S, list, n)
<1> DEFINE Same(k) == /\ f[k] \in Seq(S) /\ Len(f[k]) = k
                      /\ \A j \in 1..k : f[k][j] = list[j]
           T == {k \in 0..n : Same(k)}
<1>1. 0 \in T
  <2>1. Same(0)
    <3>1. <<>> \in Seq(S) /\ Len(<<>>) = 0 /\ \A j \in 1..0 : <<>>[j] = list[j]
      OBVIOUS
    <3>2. QED
      BY <3>1
  <2> HIDE DEF Same
  <2>2. QED
    BY <2>1
<1>2. ASSUME NEW k \in 1..n, k - 1 \in T PROVE k \in T
  <2>1. /\ f[k - 1] \in Seq(S) /\ Len(f[k - 1]) = k - 1
        /\ \A j \in 1..k - 1 : f[k - 1][j] = list[j]
    BY <1>2
  <2>2. PICK u : u = f[k - 1]
    OBVIOUS
  <2>3. PICK c : c = list[k]
    OBVIOUS
  <2>4. PICK v : v = u \o <<c>>
    OBVIOUS
  <2>5. c \in S /\ k \in Nat /\ k \in 0..n
    BY <2>3
  <2>6. f[k] = v
    BY <2>2, <2>3, <2>4, Zenon
  <2>7. u \in Seq(S) /\ Len(u) = k - 1 /\ \A j \in 1..k - 1 : u[j] = list[j]
    BY <2>1, <2>2
  <2>8. /\ v \in Seq(S) /\ Len(v) = k
        /\ \A j \in 1..k : v[j] = IF j = k THEN c ELSE u[j]
    <3>1. /\ v \in Seq(S) /\ Len(v) = Len(u) + 1
          /\ \A j \in 1..Len(u) + 1 : v[j] = IF j = Len(u) + 1 THEN c ELSE u[j]
      BY <2>4, <2>5, <2>7, OneMore
    <3>2. Len(u) + 1 = k
      BY <2>5, <2>7
    <3>3. QED
      BY <3>1, <3>2
  <2>9. ASSUME NEW j \in 1..k PROVE v[j] = list[j]
    <3>1. CASE j = k
      BY <2>3, <2>8, <3>1
    <3>2. CASE j # k
      <4>1. j \in 1..k - 1
        BY <2>5, <3>2
      <4>2. v[j] = u[j] /\ u[j] = list[j]
        BY <2>7, <2>8, <3>2, <4>1
      <4>3. QED
        BY <4>2
    <3>3. QED
      BY <3>1, <3>2
  <2>10. Same(k)
    BY <2>6, <2>8, <2>9
  <2> HIDE DEF Same
  <2>11. QED
    BY <2>5, <2>10
<1>3. Same(n)
  <2>1. \A k \in 0..n : k \in T
    <3> HIDE DEF T
    <3>1. QED
      BY <1>1, <1>2, UpTo
  <2> HIDE DEF Same
  <2>2. QED
    BY <2>1
<1>4. QED
  BY <1>3 DEF CopyOf

----
(* The stage and the queue of raised hands.                                 *)

\* A sequence keeps everything but what is at the place taken out.
LEMMA AllButOne ==
    ASSUME NEW S, NEW s \in Seq(S), NEW i \in DOMAIN s
    PROVE  /\ RemoveAt(s, i) \in Seq(S)
           /\ Range(RemoveAt(s, i)) \subseteq Range(s)
           /\ \A x \in Range(s) : x # s[i] => x \in Range(RemoveAt(s, i))
<1> DEFINE before == SubSeq(s, 1, i - 1)
           after == SubSeq(s, i + 1, Len(s))
           t == before \o after
<1>1. Len(s) \in Nat /\ DOMAIN s = 1..Len(s) /\ i \in 1..Len(s) /\ i - 1 \in Int /\ i + 1 \in Int
  OBVIOUS
<1>2. /\ before \in Seq(S) /\ Len(before) = i - 1
      /\ \A j \in 1..i - 1 : before[j] = s[j]
  <2>1. \A j \in 1..i - 1 : s[j] \in S
    BY <1>1
  <2>2. /\ before \in Seq(S)
        /\ Len(before) = IF 1 <= i - 1 THEN (i - 1) - 1 + 1 ELSE 0
        /\ \A j \in 1..(i - 1) - 1 + 1 : before[j] = s[1 + j - 1]
    BY <1>1, <2>1, SubSeqProperties
  <2> HIDE DEF before
  <2>3. QED
    BY <1>1, <2>2
<1>3. /\ after \in Seq(S) /\ Len(after) = Len(s) - i
      /\ \A j \in 1..Len(s) - i : after[j] = s[i + j]
  <2>1. \A j \in i + 1..Len(s) : s[j] \in S
    BY <1>1
  <2>2. /\ after \in Seq(S)
        /\ Len(after) = IF i + 1 <= Len(s) THEN Len(s) - (i + 1) + 1 ELSE 0
        /\ \A j \in 1..Len(s) - (i + 1) + 1 : after[j] = s[(i + 1) + j - 1]
    <3> DEFINE m == i + 1
               n == Len(s)
    <3>1. m \in Int /\ n \in Int /\ \A j \in m..n : s[j] \in S
      BY <1>1, <2>1
    <3> HIDE DEF m, n
    <3>2. /\ SubSeq(s, m, n) \in Seq(S)
          /\ Len(SubSeq(s, m, n)) = IF m <= n THEN n - m + 1 ELSE 0
          /\ \A j \in 1..n - m + 1 : SubSeq(s, m, n)[j] = s[m + j - 1]
      BY <3>1, SubSeqProperties
    <3>3. QED
      BY <3>2 DEF m, n
  <2> HIDE DEF after
  <2>3. \A j \in 1..Len(s) - i : after[j] = s[i + j]
    <3>1. SUFFICES ASSUME NEW j \in 1..Len(s) - i PROVE after[j] = s[i + j]
      OBVIOUS
    <3>2. j \in 1..Len(s) - (i + 1) + 1 /\ (i + 1) + j - 1 = i + j
      BY <1>1
    <3>3. after[j] = s[(i + 1) + j - 1]
      BY <2>2, <3>2
    <3>4. QED
      BY <3>2, <3>3
  <2>4. Len(after) = Len(s) - i
    BY <1>1, <2>2
  <2>5. QED
    BY <2>2, <2>3, <2>4
<1> HIDE DEF before, after
<1>4. /\ t \in Seq(S) /\ Len(t) = Len(before) + Len(after)
      /\ \A j \in 1..Len(before) + Len(after) :
            t[j] = IF j <= Len(before) THEN before[j] ELSE after[j - Len(before)]
  BY <1>2, <1>3, ConcatProperties
<1>5. t \in Seq(S) /\ DOMAIN t = 1..Len(s) - 1
  <2>1. t \in Seq(S) /\ Len(t) = Len(s) - 1
    BY <1>1, <1>2, <1>3, <1>4
  <2> HIDE DEF t
  <2>2. QED
    BY <2>1
<1>6. \A j \in 1..Len(s) - 1 : t[j] = IF j < i THEN s[j] ELSE s[j + 1]
  <2>1. SUFFICES ASSUME NEW j \in 1..Len(s) - 1
                 PROVE t[j] = IF j < i THEN s[j] ELSE s[j + 1]
    OBVIOUS
  <2>2. t[j] = IF j <= i - 1 THEN before[j] ELSE after[j - (i - 1)]
    <3>1. Len(before) = i - 1 /\ Len(before) + Len(after) = Len(s) - 1
      BY <1>1, <1>2, <1>3
    <3>2. j \in 1..Len(before) + Len(after)
      BY <3>1
    <3>3. t[j] = IF j <= Len(before) THEN before[j] ELSE after[j - Len(before)]
      BY <1>4, <3>2
    <3>4. QED
      BY <3>1, <3>3
  <2>3. CASE j < i
    BY <1>1, <1>2, <2>2, <2>3
  <2>4. CASE ~(j < i)
    <3>1. j - (i - 1) \in 1..Len(s) - i /\ i + (j - (i - 1)) = j + 1 /\ ~(j <= i - 1)
      BY <1>1, <2>4
    <3>2. after[j - (i - 1)] = s[i + (j - (i - 1))]
      BY <1>3, <3>1
    <3>3. QED
      BY <2>2, <2>4, <3>1, <3>2
  <2>5. QED
    BY <2>3, <2>4
<1> HIDE DEF t
<1>7. Range(t) \subseteq Range(s)
  <2>1. \A j \in 1..Len(s) - 1 : j \in DOMAIN s /\ j + 1 \in DOMAIN s
    BY <1>1
  <2>2. \A j \in DOMAIN t : \E k \in DOMAIN s : t[j] = s[k]
    BY <1>5, <1>6, <2>1
  <2>3. QED
    BY <2>2 DEF Range
<1>8. ASSUME NEW x \in Range(s), x # s[i] PROVE x \in Range(t)
  <2>1. PICK k \in 1..Len(s) : s[k] = x
    BY <1>1 DEF Range
  <2>2. CASE k < i
    <3>1. k \in 1..Len(s) - 1 /\ t[k] = x
      BY <1>1, <1>6, <2>1, <2>2
    <3>2. QED
      BY <1>5, <3>1 DEF Range
  <2>3. CASE k > i
    <3>1. k - 1 \in 1..Len(s) - 1 /\ ~(k - 1 < i) /\ (k - 1) + 1 = k
      BY <1>1, <2>1, <2>3
    <3>2. t[k - 1] = x
      BY <1>6, <2>1, <3>1
    <3>3. QED
      BY <1>5, <3>1, <3>2 DEF Range
  <2>4. QED
    BY <1>1, <1>8, <2>1, <2>2, <2>3
<1>9. RemoveAt(s, i) = t
  BY DEF RemoveAt, t, before, after
<1>10. QED
  BY <1>5, <1>7, <1>8, <1>9

\* The local participant and the others, in a list.
LEMMA StEveryone ==
    ASSUME StTypeOK
    PROVE  /\ StParticipants \in Seq(StAll)
           /\ Len(StParticipants) = Len(stHere) + 1 /\ Len(stHere) \in Nat
           /\ Range(StParticipants) = {StLocal} \cup Range(stHere)
           /\ Range(stHere) \subseteq StOthers
<1> DEFINE s == <<StLocal>>
           t == stHere
           r == s \o t
<1>1. t \in Seq(StAll) /\ Len(t) \in Nat /\ DOMAIN t = 1..Len(t) /\ Range(t) \subseteq StOthers
  BY DEF StTypeOK, StAll, Range
<1>2. s \in Seq(StAll) /\ Len(s) = 1 /\ s[1] = StLocal
  BY DEF StAll
<1> HIDE DEF s, t
<1>3. /\ r \in Seq(StAll) /\ Len(r) = Len(s) + Len(t)
      /\ \A i \in 1..Len(s) + Len(t) : r[i] = IF i <= Len(s) THEN s[i] ELSE t[i - Len(s)]
  BY <1>1, <1>2, ConcatProperties
<1>4. DOMAIN r = 1..Len(t) + 1 /\ r[1] = StLocal
      /\ \A i \in 2..Len(t) + 1 : i - 1 \in DOMAIN t /\ r[i] = t[i - 1]
  BY <1>1, <1>2, <1>3
<1> HIDE DEF r
<1>5. Range(r) \subseteq {StLocal} \cup Range(t)
  <2>1. \A i \in DOMAIN r : i = 1 \/ i \in 2..Len(t) + 1
    BY <1>1, <1>4
  <2>2. QED
    BY <1>4, <2>1 DEF Range
<1>6. {StLocal} \cup Range(t) \subseteq Range(r)
  <2>1. 1 \in DOMAIN r
    BY <1>1, <1>4
  <2>2. \A i \in DOMAIN t : i + 1 \in DOMAIN r /\ r[i + 1] = t[i]
    <3>1. SUFFICES ASSUME NEW i \in DOMAIN t PROVE i + 1 \in DOMAIN r /\ r[i + 1] = t[i]
      OBVIOUS
    <3>2. i + 1 \in 2..Len(t) + 1 /\ (i + 1) - 1 = i /\ i + 1 \in 1..Len(t) + 1
      BY <1>1
    <3>3. QED
      BY <1>4, <3>2
  <2>3. QED
    BY <1>4, <2>1, <2>2 DEF Range
<1>7. StParticipants = r
  BY DEF StParticipants, r, s, t
<1>8. QED
  BY <1>1, <1>2, <1>3, <1>5, <1>6, <1>7 DEF t

\* Whoever is not here has no picture.
StInv == StTypeOK /\ \A p \in StOthers \ Range(stHere) : stMedia[p] = {}

LEMMA StStep == StInv /\ [StNext]_stVars => StInv'
<1> SUFFICES ASSUME StInv, [StNext]_stVars PROVE StInv'
  OBVIOUS
<1>1. /\ stHere \in Seq(StOthers) /\ stMedia \in [StAll -> StMedia]
      /\ stSpeakers \in Seq(StAll \cup {StGone}) /\ stPinned \in StAll \cup {NoPin, StGone}
      /\ stView \in {"tiled", "sidebar"} /\ stHand \in [StAll -> 0..StMaxTime]
      /\ \A p \in StOthers \ Range(stHere) : stMedia[p] = {}
  BY DEF StInv, StTypeOK
<1>2. Range(StParticipants) = {StLocal} \cup Range(stHere) /\ Range(stHere) \subseteq StOthers
  BY StEveryone DEF StInv
<1>3. ASSUME NEW pin \in StAll \cup {NoPin, StGone}, StPinLives(pin)
      PROVE  stPinned' \in StAll \cup {NoPin, StGone}
  BY <1>3 DEF StPinLives
<1>4. StOthers \subseteq StAll /\ StLocal \in StAll
  BY DEF StAll
<1>5. ASSUME NEW p \in StOthers, StJoin(p) PROVE StInv'
  <2>1. stHere' = Append(stHere, p) /\ stPinned' \in StAll \cup {NoPin, StGone}
        /\ UNCHANGED <<stMedia, stSpeakers, stView, stHand>>
    BY <1>1, <1>3, <1>5 DEF StJoin
  <2>2. stHere' \in Seq(StOthers) /\ Range(stHere) \subseteq Range(stHere')
    <3>1. /\ stHere' \in Seq(StOthers) /\ DOMAIN stHere = 1..Len(stHere)
          /\ DOMAIN stHere' = 1..Len(stHere) + 1
          /\ \A i \in DOMAIN stHere : stHere'[i] = stHere[i] /\ i \in DOMAIN stHere'
      BY <1>1, <2>1
    <3>2. QED
      BY <3>1 DEF Range
  <2>3. QED
    BY <1>1, <2>1, <2>2 DEF StInv, StTypeOK
<1>6. ASSUME NEW p \in StOthers, StLeave(p) PROVE StInv'
  <2>1. PICK i \in DOMAIN stHere : stHere[i] = p /\ stHere' = RemoveAt(stHere, i)
    BY <1>6 DEF StLeave
  <2>2. /\ stMedia' = [stMedia EXCEPT ![p] = {}] /\ stHand' = [stHand EXCEPT ![p] = 0]
        /\ stSpeakers' = [k \in DOMAIN stSpeakers |-> IF stSpeakers[k] = p THEN StGone ELSE stSpeakers[k]]
        /\ stView' = stView
        /\ StPinLives(IF stPinned = p THEN StGone ELSE stPinned)
    BY <1>6 DEF StLeave
  <2>3. /\ stHere' \in Seq(StOthers)
        /\ \A x \in Range(stHere) : x # p => x \in Range(stHere')
    <3> DEFINE s == stHere
    <3>1. s \in Seq(StOthers) /\ i \in DOMAIN s
      BY <1>1
    <3> HIDE DEF s
    <3>2. RemoveAt(s, i) \in Seq(StOthers) /\ \A x \in Range(s) : x # s[i] => x \in Range(RemoveAt(s, i))
      BY <3>1, AllButOne
    <3>3. QED
      BY <2>1, <3>2 DEF s
  <2>4. stPinned' \in StAll \cup {NoPin, StGone}
    BY <1>1, <1>3, <2>2
  <2>5. stSpeakers' \in Seq(StAll \cup {StGone})
    <3>1. /\ DOMAIN stSpeakers = 1..Len(stSpeakers) /\ Len(stSpeakers) \in Nat
          /\ \A k \in 1..Len(stSpeakers) : stSpeakers[k] \in StAll \cup {StGone}
      BY <1>1
    <3>2. QED
      BY <2>2, <3>1
  <2>6. stHand' \in [StAll -> 0..StMaxTime] /\ stMedia' \in [StAll -> StMedia]
    <3>1. 0 \in 0..StMaxTime /\ {} \in StMedia
      BY StAssumption DEF StMedia
    <3>2. QED
      BY <1>1, <2>2, <3>1
  <2>7. \A q \in StOthers \ Range(stHere') : stMedia'[q] = {}
    BY <1>1, <1>4, <2>2, <2>3
  <2>8. QED
    BY <1>1, <2>2, <2>3, <2>4, <2>5, <2>6, <2>7 DEF StInv, StTypeOK
<1>7. ASSUME NEW p \in StAll, NEW kind \in {"cam", "screen"}, StTrack(p, kind) PROVE StInv'
  <2>1. /\ p \in Range(StParticipants)
        /\ stMedia' = [stMedia EXCEPT ![p] = IF kind \in @ THEN @ \ {kind} ELSE @ \cup {kind}]
        /\ UNCHANGED <<stHere, stSpeakers, stView, stHand>>
        /\ stPinned' \in StAll \cup {NoPin, StGone}
    BY <1>1, <1>3, <1>7 DEF StTrack
  <2>2. stMedia' \in [StAll -> StMedia]
    BY <1>1, <2>1 DEF StMedia
  <2>3. \A q \in StOthers \ Range(stHere') : stMedia'[q] = {}
    BY <1>1, <1>2, <1>4, <2>1, StAssumption
  <2>4. QED
    BY <1>1, <2>1, <2>2, <2>3 DEF StInv, StTypeOK
<1>8. ASSUME NEW s \in {<<>>} \cup {<<p>> : p \in StAll}, StSpeak(s) PROVE StInv'
  <2>1. s \in Seq(StAll \cup {StGone})
    <3>1. CASE s = <<>>
      BY <3>1
    <3>2. ASSUME NEW p \in StAll, s = <<p>> PROVE s \in Seq(StAll \cup {StGone})
      BY <3>2
    <3>3. QED
      BY <3>1, <3>2
  <2>2. QED
    BY <1>1, <1>8, <2>1 DEF StInv, StTypeOK, StSpeak
<1>9. ASSUME NEW p \in StAll, StPin(p) PROVE StInv'
  BY <1>1, <1>9 DEF StInv, StTypeOK, StPin
<1>10. CASE StSetView
  <2>1. stPinned' \in StAll \cup {NoPin, StGone} /\ UNCHANGED <<stHere, stMedia, stSpeakers, stHand>>
        /\ stView' \in {"tiled", "sidebar"}
    BY <1>1, <1>3, <1>10 DEF StSetView
  <2>2. QED
    BY <1>1, <2>1 DEF StInv, StTypeOK
<1>11. ASSUME NEW p \in StAll, StToggleHand(p) PROVE StInv'
  <2>1. 0 \in 0..StMaxTime /\ 1..StMaxTime \subseteq 0..StMaxTime
    BY StAssumption
  <2>2. stHand' \in [StAll -> 0..StMaxTime]
    BY <1>1, <1>11, <2>1 DEF StToggleHand
  <2>3. QED
    BY <1>1, <1>11, <2>2 DEF StInv, StTypeOK, StToggleHand
<1>12. CASE UNCHANGED stVars
  BY <1>1, <1>12 DEF StInv, StTypeOK, stVars
<1>13. QED
  BY <1>5, <1>6, <1>7, <1>8, <1>9, <1>10, <1>11, <1>12 DEF StNext, StPictureNext, StQueueNext

LEMMA StInitially == StInit => StInv
<1> SUFFICES ASSUME StInit PROVE StInv
  OBVIOUS
<1>1. <<>> \in Seq(StOthers) /\ <<>> \in Seq(StAll \cup {StGone}) /\ 0 \in 0..StMaxTime
  BY StAssumption
<1>2. stMedia \in [StAll -> StMedia] /\ stHand \in [StAll -> 0..StMaxTime]
  <2>1. {} \in StMedia
    BY DEF StMedia
  <2> HIDE DEF StMedia
  <2>2. QED
    BY <1>1, <2>1 DEF StInit
<1>3. StTypeOK
  BY <1>1, <1>2 DEF StInit, StTypeOK
<1>4. \A p \in StAll : stMedia[p] = {} /\ stHand[p] = 0
  BY DEF StInit
<1>5. Range(stHere) = {}
  BY DEF StInit, Range
<1>6. QED
  BY <1>3, <1>4, <1>5 DEF StInit, StInv, StAll

\* The lead is somebody who is here; a shared screen is that of the lead.
LEMMA StLead ==
    ASSUME StInv
    PROVE  /\ StMain \in Range(StParticipants)
           /\ StSharer # NoPin => StMain = StSharer /\ StTile(StSharer) = "screen"
<1> DEFINE everyone == StParticipants
           sharing == {i \in DOMAIN everyone : "screen" \in stMedia[everyone[i]]}
           speaking == {i \in DOMAIN stSpeakers : stSpeakers[i] \in Range(everyone)}
<1>1. everyone \in Seq(StAll) /\ DOMAIN everyone \subseteq Nat /\ StLocal \in Range(everyone)
  BY StEveryone DEF StInv
<1>2. DOMAIN stSpeakers \subseteq Nat
  BY DEF StInv, StTypeOK
<1>3. StSharer = IF sharing = {} THEN NoPin ELSE everyone[Min(sharing)]
  BY DEF StSharer, StFirst
<1>4. StActiveSpeaker = IF speaking = {} THEN StLocal ELSE stSpeakers[Min(speaking)]
  BY DEF StActiveSpeaker, StFirst
<1>5. sharing # {} => Min(sharing) \in sharing
  <2>1. sharing \in SUBSET Nat
    BY <1>1
  <2> HIDE DEF sharing
  <2>2. QED
    BY <2>1, MinIsLeast
<1>6. speaking # {} => Min(speaking) \in speaking
  <2>1. speaking \in SUBSET Nat
    BY <1>2
  <2> HIDE DEF speaking
  <2>2. QED
    BY <2>1, MinIsLeast
<1>7. StSharer # NoPin => StSharer \in Range(everyone) /\ "screen" \in stMedia[StSharer]
  BY <1>3, <1>5 DEF Range
<1>8. StActiveSpeaker \in Range(everyone)
  BY <1>1, <1>4, <1>6
<1>9. QED
  BY <1>7, <1>8 DEF StMain, StTile

\* The mini window's picture is of somebody who is here.
LEMMA StMiniHere ==
    ASSUME StInv
    PROVE  StMini[2] # "initials" => StMini[1] \in Range(StParticipants)
<1> DEFINE rest == stHere \o <<StLocal>>
           seen(p) == p \in StAll /\ stMedia[p] # {}
           speaking == {i \in DOMAIN stSpeakers : stSpeakers[i] # StLocal /\ seen(stSpeakers[i])}
           others == {i \in DOMAIN rest : seen(rest[i])}
           next == IF others = {} THEN NoPin ELSE rest[Min(others)]
           who == IF speaking = {} THEN next ELSE stSpeakers[Min(speaking)]
<1>1. DOMAIN stSpeakers \subseteq Nat
  BY DEF StInv, StTypeOK
<1>2. DOMAIN rest \subseteq Nat
  <2>1. stHere \in Seq(StAll) /\ <<StLocal>> \in Seq(StAll)
    BY DEF StInv, StTypeOK, StAll
  <2>2. rest \in Seq(StAll)
    BY <2>1, ConcatProperties
  <2>3. QED
    BY <2>2
<1>3. speaking # {} => Min(speaking) \in speaking
  <2>1. speaking \in SUBSET Nat
    BY <1>1
  <2> HIDE DEF speaking
  <2>2. QED
    BY <2>1, MinIsLeast
<1>4. others # {} => Min(others) \in others
  <2>1. others \in SUBSET Nat
    BY <1>2
  <2> HIDE DEF others
  <2>2. QED
    BY <2>1, MinIsLeast
<1>5. StMini = IF who = NoPin THEN <<NoPin, "initials">> ELSE <<who, StTile(who)>>
  BY DEF StMini, StFirst
<1>6. who # NoPin => seen(who)
  BY <1>3, <1>4
<1>7. seen(who) => who \in Range(StParticipants)
  <2> HIDE DEF who
  <2>1. QED
    BY StEveryone DEF StInv, StAll
<1> HIDE DEF who
<1>8. QED
  BY <1>5, <1>6, <1>7

LEMMA StShownIsHere == ASSUME StInv PROVE StShowsWhoIsHere
<1>1. Range(StParticipants) = {StLocal} \cup Range(stHere)
      /\ Len(StParticipants) = Len(stHere) + 1 /\ Len(stHere) \in Nat
  BY StEveryone DEF StInv
<1>2. /\ StMain \in Range(StParticipants)
      /\ StSharer # NoPin => StMain = StSharer /\ StTile(StSharer) = "screen"
  BY StLead
<1>3. {t[1] : t \in StShown} = Range(StParticipants)
  <2>1. CASE StLayout = "solo"
    <3>1. Len(stHere) = 0
      BY <1>1, <2>1 DEF StLayout
    <3>2. Range(stHere) = {}
      BY <3>1 DEF StInv, StTypeOK, Range
    <3>3. QED
      BY <1>1, <2>1, <3>2 DEF StShown
  <2> DEFINE tiles(S) == {<<p, StTile(p)>> : p \in S}
  <2> HIDE DEF StTile
  <2>5. ASSUME NEW S PROVE {t[1] : t \in tiles(S)} = S
    <3>1. \A t \in tiles(S) : t[1] \in S
      OBVIOUS
    <3>2. \A p \in S : <<p, StTile(p)>> \in tiles(S) /\ <<p, StTile(p)>>[1] = p
      OBVIOUS
    <3> HIDE DEF tiles
    <3>3. QED
      BY <3>1, <3>2
  <2>2. CASE StLayout = "grid"
    <3>1. StShown = tiles(StGrid)
      BY <2>2 DEF StShown
    <3> HIDE DEF tiles
    <3>2. QED
      BY <2>5, <3>1 DEF StGrid
  <2>3. CASE StLayout = "focus"
    <3>1. StFocus = Range(StParticipants)
      BY <1>2 DEF StFocus, StStrip
    <3>2. StShown = tiles(StFocus)
      BY <2>3 DEF StShown
    <3> HIDE DEF tiles
    <3>3. QED
      BY <2>5, <3>1, <3>2
  <2>4. QED
    BY <2>1, <2>2, <2>3 DEF StLayout
<1>4. StLayout # "solo" /\ StSharer # NoPin => <<StMain, "screen">> \in StShown
  <2>1. SUFFICES ASSUME StLayout # "solo", StSharer # NoPin PROVE <<StMain, "screen">> \in StShown
    OBVIOUS
  <2>2. StLayout = "focus" /\ StMain \in StFocus /\ StTile(StMain) = "screen"
    BY <1>2, <2>1 DEF StLayout, StFocus
  <2>3. QED
    BY <2>2 DEF StShown
<1>5. QED
  BY <1>2, <1>3, <1>4, StMiniHere DEF StShowsWhoIsHere

\* What a sequence holds is finite.
LEMMA FiniteRange == ASSUME NEW S, NEW s \in Seq(S) PROVE IsFiniteSet(Range(s))
<1>1. s \in Surjection(1..Len(s), Range(s))
  BY DEF Surjection, Range
<1>2. \A k \in Nat : IsFiniteSet(1..k)
  BY FS_Interval
<1>3. IsFiniteSet(1..Len(s))
  BY <1>2
<1> HIDE DEF Surjection
<1>4. QED
  BY <1>1, <1>3, FS_Surjection

\* With distinct keys, how many are below is a number of its own for everyone, and all
\* numbers from 0 on are taken.
StBelow(S, p) == {q \in S : stHand[q] < stHand[p]}

LEMMA StNumbered ==
    ASSUME NEW S, IsFiniteSet(S), \A p \in S : stHand[p] \in Nat,
           \A p, q \in S : stHand[p] = stHand[q] => p = q
    PROVE  /\ \A p \in S : Cardinality(StBelow(S, p)) \in 0..Cardinality(S) - 1
           /\ \A p, q \in S : Cardinality(StBelow(S, p)) = Cardinality(StBelow(S, q)) => p = q
           /\ \A i \in 1..Cardinality(S) : \E p \in S : Cardinality(StBelow(S, p)) = i - 1
           /\ \A p \in S : Cardinality({q \in S : stHand[q] <= stHand[p]})
                              = Cardinality(StBelow(S, p)) + 1
<1> DEFINE n == Cardinality(S)
           count(p) == Cardinality(StBelow(S, p))
<1>1. n \in Nat
  BY FS_CardinalityType
<1>2. ASSUME NEW p \in S
      PROVE /\ IsFiniteSet(StBelow(S, p)) /\ count(p) \in Nat /\ p \notin StBelow(S, p)
            /\ Cardinality(StBelow(S, p) \cup {p}) = count(p) + 1
  <2>1. StBelow(S, p) \in SUBSET S /\ p \notin StBelow(S, p)
    BY DEF StBelow
  <2>2. IsFiniteSet(StBelow(S, p))
    BY <2>1, FS_Subset
  <2>3. count(p) \in Nat
    BY <2>2, FS_CardinalityType
  <2>4. Cardinality(StBelow(S, p) \cup {p}) = count(p) + 1
    BY <2>1, <2>2, FS_AddElement
  <2>5. QED
    BY <2>1, <2>2, <2>3, <2>4
<1>3. ASSUME NEW p \in S, NEW T, IsFiniteSet(T), StBelow(S, p) \cup {p} \subseteq T
      PROVE  count(p) + 1 <= Cardinality(T)
  <2>1. Cardinality(StBelow(S, p) \cup {p}) <= Cardinality(T)
    BY <1>3, FS_Subset
  <2>2. QED
    BY <1>2, <2>1
<1>4. \A p \in S : count(p) \in 0..n - 1
  <2>1. SUFFICES ASSUME NEW p \in S PROVE count(p) \in 0..n - 1
    OBVIOUS
  <2>2. StBelow(S, p) \cup {p} \subseteq S
    BY DEF StBelow
  <2>3. count(p) + 1 <= n
    BY <1>3, <2>2
  <2>4. count(p) \in Nat
    BY <1>2
  <2> HIDE DEF count, n
  <2>5. QED
    BY <1>1, <2>3, <2>4
<1>5. \A p, q \in S : stHand[p] < stHand[q] => count(p) + 1 <= count(q)
  <2>1. SUFFICES ASSUME NEW p \in S, NEW q \in S, stHand[p] < stHand[q]
                 PROVE  count(p) + 1 <= count(q)
    OBVIOUS
  <2>2. StBelow(S, p) \cup {p} \subseteq StBelow(S, q)
    BY <2>1 DEF StBelow
  <2>3. IsFiniteSet(StBelow(S, q))
    BY <1>2
  <2>4. QED
    BY <1>3, <2>2, <2>3
<1>6. \A p, q \in S : count(p) = count(q) => p = q
  <2>1. SUFFICES ASSUME NEW p \in S, NEW q \in S, p # q PROVE count(p) # count(q)
    OBVIOUS
  <2>2. stHand[p] < stHand[q] \/ stHand[q] < stHand[p]
    BY <2>1
  <2>3. count(p) \in Nat /\ count(q) \in Nat
    BY <1>2
  <2>4. count(p) + 1 <= count(q) \/ count(q) + 1 <= count(p)
    BY <1>5, <2>2
  <2> HIDE DEF count
  <2>5. QED
    BY <2>3, <2>4
<1>7. \A i \in 1..n : \E p \in S : count(p) = i - 1
  <2> DEFINE f == [p \in S |-> count(p) + 1]
  <2>1. f \in [S -> 1..n]
    <3> HIDE DEF count, n
    <3>1. \A p \in S : count(p) + 1 \in 1..n
      BY <1>1, <1>4
    <3>2. QED
      BY <3>1
  <2>2. \A p, q \in S : f[p] = f[q] => p = q
    <3>1. SUFFICES ASSUME NEW p \in S, NEW q \in S, f[p] = f[q] PROVE p = q
      OBVIOUS
    <3>2. count(p) + 1 = count(q) + 1
      BY <3>1
    <3>3. count(p) \in Nat /\ count(q) \in Nat
      BY <1>2
    <3> HIDE DEF count, f
    <3>4. QED
      BY <1>6, <3>2, <3>3
  <2>3. f \in Injection(S, 1..n)
    <3> HIDE DEF f
    <3>1. QED
      BY <2>1, <2>2 DEF Injection, IsInjective
  <2>4. IsFiniteSet(1..n) /\ Cardinality(1..n) = n
    BY <1>1, FS_Interval
  <2>5. f \in Surjection(S, 1..n)
    <3> HIDE DEF f
    <3>1. QED
      BY <2>3, <2>4, FS_Injection
  <2>6. \A i \in 1..n : \E p \in S : f[p] = i
    <3> HIDE DEF f
    <3>1. QED
      BY <2>5 DEF Surjection
  <2>7. SUFFICES ASSUME NEW i \in 1..n PROVE \E p \in S : count(p) = i - 1
    OBVIOUS
  <2>8. PICK p \in S : f[p] = i
    BY <2>6
  <2>9. count(p) + 1 = i /\ count(p) \in Nat
    BY <1>2, <2>8
  <2> HIDE DEF count, f
  <2>10. QED
    BY <1>1, <2>9
<1>8. \A p \in S : Cardinality({q \in S : stHand[q] <= stHand[p]}) = count(p) + 1
  <2>1. SUFFICES ASSUME NEW p \in S
                 PROVE  Cardinality({q \in S : stHand[q] <= stHand[p]}) = count(p) + 1
    OBVIOUS
  <2>2. {q \in S : stHand[q] <= stHand[p]} = StBelow(S, p) \cup {p}
    BY DEF StBelow
  <2>3. QED
    BY <1>2, <2>2
<1>9. QED
  BY <1>4, <1>6, <1>7, <1>8

LEMMA StQueueHolds == ASSUME StInv PROVE StOneQueue
<1> DEFINE here == Range(StParticipants)
           n == Cardinality(StRaised)
<1>1. StParticipants \in Seq(StAll)
  BY StEveryone DEF StInv
<1>2. IsFiniteSet(here) /\ here \subseteq StAll
  BY <1>1, FiniteRange DEF Range
<1>3. IsFiniteSet(StRaised) /\ \A p \in StRaised : stHand[p] \in Nat
  <2>1. StRaised \in SUBSET here
    BY DEF StRaised
  <2>2. QED
    BY <1>2, <2>1, FS_Subset DEF StInv, StTypeOK
<1>4. SUFFICES
        ASSUME \A p, q \in StRaised : stHand[p] = stHand[q] => p = q,
               NEW viewer \in here, NEW p \in StRaised
        PROVE  StRank(viewer, p) = Cardinality({q \in StRaised : stHand[q] <= stHand[p]})
  BY DEF StOneQueue, StRaised
<1>5. \A q \in StRaised : StPlace(viewer, q) \in Nat
  <2>1. SUFFICES ASSUME NEW q \in StRaised PROVE StPlace(viewer, q) \in Nat
    OBVIOUS
  <2>2. \E i \in DOMAIN StParticipants : StParticipants[i] = q
    BY DEF StRaised, Range
  <2>3. DOMAIN StParticipants \subseteq Nat
    BY <1>1
  <2>4. QED
    BY <2>2, <2>3 DEF StPlace
<1>6. \A q \in StRaised : {x \in StRaised : StBefore(viewer, x, q)} = StBelow(StRaised, q)
  <2>1. SUFFICES ASSUME NEW q \in StRaised, NEW x \in StRaised
                 PROVE  StBefore(viewer, x, q) <=> stHand[x] < stHand[q]
    BY DEF StBelow
  <2>2. stHand[x] = stHand[q] => ~(StPlace(viewer, x) < StPlace(viewer, q))
    BY <1>4, <1>5
  <2>3. QED
    BY <2>2 DEF StBefore
<1>7. /\ \A q \in StRaised : Cardinality(StBelow(StRaised, q)) \in 0..n - 1
      /\ \A q, x \in StRaised :
            Cardinality(StBelow(StRaised, q)) = Cardinality(StBelow(StRaised, x)) => q = x
      /\ \A i \in 1..n : \E q \in StRaised : Cardinality(StBelow(StRaised, q)) = i - 1
      /\ Cardinality({q \in StRaised : stHand[q] <= stHand[p]})
            = Cardinality(StBelow(StRaised, p)) + 1
  BY <1>3, <1>4, StNumbered
<1>8. n \in Nat
  BY <1>3, FS_CardinalityType
<1> DEFINE queue == StQueue(viewer)
           k == Cardinality(StBelow(StRaised, p)) + 1
<1> HIDE DEF n
<1>9. DOMAIN queue = 1..n
      /\ \A i \in 1..n : queue[i] = CHOOSE q \in StRaised : Cardinality(StBelow(StRaised, q)) = i - 1
  BY <1>6 DEF StQueue, n
<1>10. \A i \in 1..n : queue[i] \in StRaised /\ Cardinality(StBelow(StRaised, queue[i])) = i - 1
  BY <1>7, <1>9
<1>11. k \in 1..n /\ k - 1 = Cardinality(StBelow(StRaised, p))
  BY <1>7, <1>8
<1>12. queue[k] = p
  BY <1>7, <1>10, <1>11
<1>13. \A i \in 1..n : queue[i] = p => i = k
  <2>1. SUFFICES ASSUME NEW i \in 1..n, queue[i] = p PROVE i = k
    OBVIOUS
  <2>2. i - 1 = k - 1
    BY <1>10, <1>11, <2>1
  <2> HIDE DEF k
  <2>3. QED
    BY <1>11, <2>2
<1>14. p \in Range(queue)
  BY <1>9, <1>11, <1>12 DEF Range
<1>15. StRank(viewer, p) = CHOOSE i \in DOMAIN queue : queue[i] = p
  BY <1>14 DEF StRank
<1>16. StRank(viewer, p) = k
  <2> HIDE DEF k, queue
  <2>1. QED
    BY <1>9, <1>11, <1>12, <1>13, <1>15
<1>17. QED
  BY <1>7, <1>16

LEMMA StHolds ==
    StInit /\ [][StNext]_stVars => [](StTypeOK /\ StShowsWhoIsHere /\ StOneQueue)
<1>1. StInv => StTypeOK /\ StShowsWhoIsHere /\ StOneQueue
  BY StShownIsHere, StQueueHolds DEF StInv
<1>2. QED
  BY <1>1, StInitially, StStep, PTL

----
(* The host panel.                                                          *)

\* The image of a finite set under a function is finite and no larger.
LEMMA FiniteImage ==
    ASSUME NEW S, IsFiniteSet(S), NEW f, DOMAIN f = S
    PROVE  /\ IsFiniteSet({f[x] : x \in S})
           /\ Cardinality({f[x] : x \in S}) <= Cardinality(S)
<1> DEFINE T == {f[x] : x \in S}
           g == [x \in S |-> f[x]]
<1>1. g \in Surjection(S, T)
  BY DEF Surjection
<1> HIDE DEF g
<1>2. QED
  BY <1>1, FS_Surjection

\* What the last push on its way says, or what has arrived if there is none.
HpLast == IF hpWire = <<>> THEN hpLocal ELSE hpWire[Len(hpWire)]

\* A push on its way will change what the page has.
HpNews == \E i \in 1..Len(hpWire) : hpWire[i] # hpLocal

\* The pushes lead to the room's metadata; a request that is alone is the only one
\* and finds the lock as its button showed it; and an undoubted button that shows
\* something else than the page has been told has a push on its way, or a request
\* under way that asks for what it shows.
HpAlone ==
    \A q \in hpAsks : q.alone => hpAsks = {q} /\ (q.done \/ hpMeta = ~q.next)
HpExplained ==
    hpOpen /\ ~hpDoubt /\ ~HpNews /\ hpShown # hpLocal =>
        \E q \in hpAsks : q.live /\ ~q.done /\ q.next = hpShown

HpInv == HpTypeOK /\ IsFiniteSet(hpAsks) /\ HpLast = hpMeta /\ HpAlone /\ HpExplained

\* A new request's number is free.
LEMMA HpFreeId ==
    ASSUME NEW S, S \subseteq HpAsk, IsFiniteSet(S), Cardinality(S) < HpMaxAsks
    PROVE  \E i \in 1..HpMaxAsks : \A q \in S : q.id # i
<1> DEFINE f == [q \in S |-> q.id]
           I == {f[q] : q \in S}
<1>1. IsFiniteSet(I) /\ Cardinality(I) <= Cardinality(S)
  <2> HIDE DEF f
  <2>1. DOMAIN f = S
    BY DEF f
  <2>2. QED
    BY <2>1, FiniteImage
<1>2. IsFiniteSet(1..HpMaxAsks) /\ Cardinality(1..HpMaxAsks) = HpMaxAsks
  BY HpAssumption, FS_Interval
<1>3. Cardinality(I) \in Nat /\ Cardinality(S) \in Nat
  BY <1>1, FS_CardinalityType
<1>4. ~(1..HpMaxAsks \subseteq I)
  <2>1. SUFFICES ASSUME 1..HpMaxAsks \subseteq I PROVE FALSE
    OBVIOUS
  <2>2. Cardinality(1..HpMaxAsks) <= Cardinality(I)
    BY <1>1, <2>1, FS_Subset
  <2>3. QED
    BY <1>1, <1>2, <1>3, <2>2, HpAssumption
<1>5. QED
  BY <1>4

\* What the requests are after one field of each has been cleared.
LEMMA HpCleared ==
    ASSUME NEW S, S \subseteq HpAsk, IsFiniteSet(S)
    PROVE  /\ {[q EXCEPT !.live = FALSE] : q \in S} \subseteq HpAsk
           /\ {[q EXCEPT !.alone = FALSE] : q \in S} \subseteq HpAsk
           /\ IsFiniteSet({[q EXCEPT !.live = FALSE] : q \in S})
           /\ IsFiniteSet({[q EXCEPT !.alone = FALSE] : q \in S})
<1>1. ASSUME NEW q \in S
      PROVE  [q EXCEPT !.live = FALSE] \in HpAsk /\ [q EXCEPT !.alone = FALSE] \in HpAsk
  BY DEF HpAsk
<1>2. IsFiniteSet({[q EXCEPT !.live = FALSE] : q \in S})
  <2> DEFINE f == [q \in S |-> [q EXCEPT !.live = FALSE]]
  <2>1. DOMAIN f = S /\ {f[q] : q \in S} = {[q EXCEPT !.live = FALSE] : q \in S}
    OBVIOUS
  <2> HIDE DEF f
  <2>2. IsFiniteSet({f[q] : q \in S})
    BY <2>1, FiniteImage
  <2>3. QED
    BY <2>1, <2>2
<1>3. IsFiniteSet({[q EXCEPT !.alone = FALSE] : q \in S})
  <2> DEFINE f == [q \in S |-> [q EXCEPT !.alone = FALSE]]
  <2>1. DOMAIN f = S /\ {f[q] : q \in S} = {[q EXCEPT !.alone = FALSE] : q \in S}
    OBVIOUS
  <2> HIDE DEF f
  <2>2. IsFiniteSet({f[q] : q \in S})
    BY <2>1, FiniteImage
  <2>3. QED
    BY <2>1, <2>2
<1>4. QED
  BY <1>1, <1>2, <1>3

LEMMA HpInitially == HpInit => HpInv
<1> SUFFICES ASSUME HpInit PROVE HpInv
  OBVIOUS
<1>1. <<>> \in Seq(BOOLEAN)
  OBVIOUS
<1>2. IsFiniteSet({})
  BY FS_EmptySet
<1>3. QED
  BY <1>1, <1>2 DEF HpInit, HpInv, HpTypeOK, HpLast, HpAlone, HpExplained

\* The lock is written: pushed to the page behind what is on its way.
LEMMA HpWritten ==
    ASSUME HpTypeOK, NEW locked \in BOOLEAN, HpWrite(locked), hpLocal' = hpLocal
    PROVE  /\ hpMeta' = locked
           /\ hpMeta' \in BOOLEAN /\ hpWire' \in Seq(BOOLEAN)
           /\ HpLast' = locked
           /\ HpNews \/ locked # hpLocal => HpNews'
<1>1. hpMeta' = locked /\ hpWire' = Append(hpWire, locked)
  BY DEF HpWrite
<1>2. hpWire \in Seq(BOOLEAN)
  BY DEF HpTypeOK
<1>3. /\ Len(hpWire') = Len(hpWire) + 1
      /\ hpWire'[Len(hpWire')] = locked
      /\ \A i \in 1..Len(hpWire) : hpWire'[i] = hpWire[i]
      /\ hpWire' \in Seq(BOOLEAN)
  BY <1>1, <1>2
<1>4. Len(hpWire) \in Nat
  BY <1>2
<1>5. HpNews \/ locked # hpLocal => HpNews'
  BY <1>3, <1>4 DEF HpNews
<1>6. HpLast' = locked
  BY <1>3, <1>4 DEF HpLast
<1>7. QED
  BY <1>1, <1>3, <1>5, <1>6

LEMMA HpStep == HpInv /\ [HpNext]_hpVars => HpInv'
<1> SUFFICES ASSUME HpInv, [HpNext]_hpVars PROVE HpInv'
  OBVIOUS
<1>0. /\ HpTypeOK /\ IsFiniteSet(hpAsks) /\ HpLast = hpMeta /\ HpAlone /\ HpExplained
      /\ hpAsks \subseteq HpAsk /\ hpWire \in Seq(BOOLEAN)
      /\ hpMeta \in BOOLEAN /\ hpLocal \in BOOLEAN /\ hpShown \in BOOLEAN
  BY DEF HpInv, HpTypeOK
<1>1. CASE HpMount
  <2>1. HpTypeOK' /\ IsFiniteSet(hpAsks')
    BY <1>0, <1>1 DEF HpTypeOK, HpMount
  <2>2. (HpLast = hpMeta)' /\ HpAlone'
    BY <1>0, <1>1 DEF HpMount, HpLast, HpAlone
  <2>3. HpExplained'
    BY <1>0, <1>1 DEF HpMount, HpExplained
  <2>4. QED
    BY <2>1, <2>2, <2>3 DEF HpInv
<1>2. CASE HpUnmount
  <2>1. HpTypeOK' /\ IsFiniteSet(hpAsks')
    BY <1>0, <1>2, HpCleared DEF HpTypeOK, HpUnmount
  <2>2. (HpLast = hpMeta)'
    BY <1>0, <1>2 DEF HpUnmount, HpLast
  <2>3. HpAlone'
    <3>1. SUFFICES ASSUME NEW p \in hpAsks', p.alone
                   PROVE  hpAsks' = {p} /\ (p.done \/ hpMeta' = ~p.next)
      BY DEF HpAlone
    <3>2. PICK q \in hpAsks : p = [q EXCEPT !.live = FALSE]
      BY <1>2 DEF HpUnmount
    <3>3. p.alone = q.alone /\ p.done = q.done /\ p.next = q.next
      BY <1>0, <3>2 DEF HpAsk
    <3>4. hpAsks = {q} /\ (q.done \/ hpMeta = ~q.next)
      BY <1>0, <3>1, <3>3 DEF HpAlone
    <3>5. QED
      BY <1>2, <3>2, <3>3, <3>4 DEF HpUnmount
  <2>4. HpExplained'
    BY <1>2 DEF HpUnmount, HpExplained
  <2>5. QED
    BY <2>1, <2>2, <2>3, <2>4 DEF HpInv
<1>3. CASE HpToggle
  <2> DEFINE id == CHOOSE i \in 1..HpMaxAsks : \A q \in hpAsks : q.id # i
             new == [id |-> id, next |-> ~hpShown, done |-> FALSE, live |-> TRUE,
                     alone |-> hpAsks = {} /\ hpShown = hpMeta]
             old == {[q EXCEPT !.alone = FALSE] : q \in hpAsks}
  <2>1. hpAsks' = old \cup {new} /\ hpShown' = ~hpShown /\ hpOpen /\ hpOpen' = hpOpen
        /\ hpMeta' = hpMeta /\ hpWire' = hpWire /\ hpLocal' = hpLocal /\ hpDoubt' = hpDoubt
    BY <1>3 DEF HpToggle
  <2>2. id \in 1..HpMaxAsks
    BY <1>0, <1>3, HpFreeId DEF HpToggle
  <2>3. new \in HpAsk
    BY <1>0, <2>2 DEF HpAsk
  <2>4. old \subseteq HpAsk /\ IsFiniteSet(old)
    BY <1>0, HpCleared
  <2>5. new.alone = (hpAsks = {} /\ hpShown = hpMeta) /\ new.next = ~hpShown /\ new.live /\ ~new.done
    OBVIOUS
  <2>6. \A q \in old : q.alone = FALSE
    BY <1>0 DEF HpAsk
  <2>7. hpAsks = {} => old = {}
    OBVIOUS
  <2> HIDE DEF new, old
  <2>8. HpTypeOK' /\ IsFiniteSet(hpAsks')
    <3>1. IsFiniteSet(old \cup {new})
      BY <2>4, FS_AddElement
    <3>2. QED
      BY <1>0, <2>1, <2>3, <2>4, <3>1 DEF HpTypeOK
  <2>9. (HpLast = hpMeta)'
    BY <1>0, <2>1 DEF HpLast
  <2>10. HpAlone'
    <3>1. SUFFICES ASSUME NEW p \in hpAsks', p.alone
                   PROVE  hpAsks' = {p} /\ (p.done \/ hpMeta' = ~p.next)
      BY DEF HpAlone
    <3>2. p = new
      BY <2>1, <2>6, <3>1
    <3>3. QED
      BY <1>0, <2>1, <2>5, <2>7, <3>1, <3>2
  <2>11. HpExplained'
    <3>1. new \in hpAsks' /\ new.live /\ ~new.done /\ new.next = hpShown'
      BY <2>1, <2>5
    <3>2. QED
      BY <3>1 DEF HpExplained
  <2>12. QED
    BY <2>8, <2>9, <2>10, <2>11 DEF HpInv
<1>4. ASSUME NEW q \in hpAsks, HpApply(q) PROVE HpInv'
  <2> DEFINE new == [q EXCEPT !.done = TRUE]
  <2>1. /\ ~q.done /\ HpWrite(q.next) /\ hpAsks' = (hpAsks \ {q}) \cup {new}
        /\ hpLocal' = hpLocal /\ hpOpen' = hpOpen /\ hpShown' = hpShown /\ hpDoubt' = hpDoubt
    BY <1>4 DEF HpApply
  <2>2. q.next \in BOOLEAN /\ new \in HpAsk /\ new.done /\ new.alone = q.alone
    BY <1>0 DEF HpAsk
  <2> HIDE DEF new
  <2>3. /\ hpMeta' = q.next /\ hpMeta' \in BOOLEAN /\ hpWire' \in Seq(BOOLEAN)
        /\ HpLast' = q.next
        /\ HpNews \/ q.next # hpLocal => HpNews'
    BY <1>0, <2>1, <2>2, HpWritten
  <2>4. HpTypeOK' /\ IsFiniteSet(hpAsks')
    <3>1. IsFiniteSet((hpAsks \ {q}) \cup {new})
      BY <1>0, FS_AddElement, FS_RemoveElement
    <3>2. QED
      BY <1>0, <2>1, <2>2, <2>3, <3>1 DEF HpTypeOK
  <2>5. HpAlone'
    BY <1>0, <2>1, <2>2 DEF HpAlone
  <2>6. HpExplained'
    <3>1. SUFFICES ASSUME hpOpen, ~hpDoubt, ~HpNews', hpShown # hpLocal
                   PROVE  \E p \in hpAsks' : p.live /\ ~p.done /\ p.next = hpShown
      BY <2>1 DEF HpExplained
    <3>2. ~HpNews /\ q.next = hpLocal
      BY <2>3, <3>1
    <3>3. PICK p \in hpAsks : p.live /\ ~p.done /\ p.next = hpShown
      BY <1>0, <3>1, <3>2 DEF HpExplained
    <3>4. QED
      BY <2>1, <3>1, <3>2, <3>3
  <2>7. QED
    BY <2>3, <2>4, <2>5, <2>6 DEF HpInv
<1>5. ASSUME NEW q \in hpAsks, HpSucceeds(q) PROVE HpInv'
  <2>1. /\ q.done /\ hpAsks' = hpAsks \ {q}
        /\ hpMeta' = hpMeta /\ hpWire' = hpWire /\ hpLocal' = hpLocal /\ hpOpen' = hpOpen
        /\ hpShown' = hpShown /\ hpDoubt' = hpDoubt
    BY <1>5 DEF HpSucceeds
  <2>2. IsFiniteSet(hpAsks')
    BY <1>0, <2>1, FS_RemoveElement
  <2>3. HpTypeOK' /\ (HpLast = hpMeta)'
    BY <1>0, <2>1 DEF HpTypeOK, HpLast
  <2>4. HpAlone'
    BY <1>0, <2>1 DEF HpAlone
  <2>5. HpExplained'
    <3>1. HpNews' = HpNews
      BY <2>1 DEF HpNews
    <3>2. QED
      BY <1>0, <2>1, <3>1 DEF HpExplained
  <2>6. QED
    BY <2>2, <2>3, <2>4, <2>5 DEF HpInv
<1>6. ASSUME NEW q \in hpAsks, HpFails(q) PROVE HpInv'
  <2>1. /\ hpShown' = IF q.live THEN ~q.next ELSE hpShown
        /\ hpDoubt' = (hpDoubt \/ (q.live /\ (q.done \/ ~q.alone)))
        /\ hpAsks' = hpAsks \ {q}
        /\ hpMeta' = hpMeta /\ hpWire' = hpWire /\ hpLocal' = hpLocal /\ hpOpen' = hpOpen
    BY <1>6 DEF HpFails, HpAfterFailure
  <2>2. q.next \in BOOLEAN /\ q.live \in BOOLEAN /\ q.done \in BOOLEAN /\ q.alone \in BOOLEAN
    BY <1>0 DEF HpAsk
  <2>3. IsFiniteSet(hpAsks')
    BY <1>0, <2>1, FS_RemoveElement
  <2>4. HpTypeOK' /\ (HpLast = hpMeta)'
    <3>1. hpShown' \in BOOLEAN
      BY <1>0, <2>1, <2>2
    <3>2. hpDoubt' \in BOOLEAN
      BY <2>1
    <3>3. QED
      BY <1>0, <2>1, <3>1, <3>2 DEF HpTypeOK, HpLast
  <2>5. HpAlone'
    BY <1>0, <2>1 DEF HpAlone
  <2>6. HpExplained'
    <3>1. HpNews' = HpNews
      BY <2>1 DEF HpNews
    <3>2. SUFFICES ASSUME hpOpen, ~hpDoubt', ~HpNews, hpShown' # hpLocal
                   PROVE  \E p \in hpAsks' : p.live /\ ~p.done /\ p.next = hpShown'
      BY <2>1, <3>1 DEF HpExplained
    <3>3. CASE q.live
      <4>1. hpMeta = ~q.next /\ hpShown' = ~q.next
        BY <1>0, <2>1, <2>2, <3>2, <3>3 DEF HpAlone
      <4>2. hpMeta = hpLocal
        BY <1>0, <3>2 DEF HpLast, HpNews
      <4>3. QED
        BY <3>2, <4>1, <4>2
    <3>4. CASE ~q.live
      <4>1. ~hpDoubt /\ hpShown' = hpShown
        BY <2>1, <3>2, <3>4
      <4>2. PICK p \in hpAsks : p.live /\ ~p.done /\ p.next = hpShown
        BY <1>0, <3>2, <4>1 DEF HpExplained
      <4>3. QED
        BY <2>1, <3>4, <4>1, <4>2
    <3>5. QED
      BY <3>3, <3>4
  <2>7. QED
    BY <2>3, <2>4, <2>5, <2>6 DEF HpInv
<1>7. CASE HpElsewhere
  <2>1. /\ HpWrite(~hpMeta) /\ hpAsks' = {[q EXCEPT !.alone = FALSE] : q \in hpAsks}
        /\ hpLocal' = hpLocal /\ hpOpen' = hpOpen /\ hpShown' = hpShown /\ hpDoubt' = hpDoubt
    BY <1>7 DEF HpElsewhere
  <2>2. (~hpMeta) \in BOOLEAN
    BY <1>0
  <2>3. /\ hpMeta' = ~hpMeta /\ hpMeta' \in BOOLEAN /\ hpWire' \in Seq(BOOLEAN)
        /\ HpLast' = ~hpMeta
        /\ HpNews \/ (~hpMeta) # hpLocal => HpNews'
    BY <1>0, <2>1, <2>2, HpWritten
  <2>4. HpTypeOK' /\ IsFiniteSet(hpAsks')
    BY <1>0, <2>1, <2>3, HpCleared DEF HpTypeOK
  <2>5. HpAlone'
    BY <1>0, <2>1 DEF HpAlone, HpAsk
  <2>6. HpNews'
    <3>1. ~HpNews => hpMeta = hpLocal
      BY <1>0 DEF HpLast, HpNews
    <3>2. QED
      BY <1>0, <2>3, <3>1
  <2>7. HpExplained'
    BY <2>6 DEF HpExplained
  <2>8. QED
    BY <2>3, <2>4, <2>5, <2>7 DEF HpInv
<1>8. CASE HpPushed
  <2>1. /\ hpWire # <<>> /\ hpWire' = Tail(hpWire) /\ hpLocal' = hpWire[1]
        /\ hpShown' = IF hpOpen /\ hpLocal' # hpLocal THEN hpLocal' ELSE hpShown
        /\ hpDoubt' = (hpDoubt /\ hpLocal' = hpLocal)
        /\ hpMeta' = hpMeta /\ hpOpen' = hpOpen /\ hpAsks' = hpAsks
    BY <1>8 DEF HpPushed
  <2>2. /\ Len(hpWire) \in Nat \ {0} /\ Len(hpWire') = Len(hpWire) - 1
        /\ \A i \in 1..Len(hpWire') : hpWire'[i] = hpWire[i + 1]
        /\ hpWire' \in Seq(BOOLEAN)
        /\ hpWire[1] \in BOOLEAN
    BY <1>0, <2>1
  <2>3. HpTypeOK' /\ IsFiniteSet(hpAsks')
    <3>1. hpShown' \in BOOLEAN /\ hpDoubt' \in BOOLEAN
      BY <1>0, <2>1, <2>2
    <3>2. QED
      BY <1>0, <2>1, <2>2, <3>1 DEF HpTypeOK
  <2>4. (HpLast = hpMeta)'
    <3>1. hpWire' = <<>> <=> Len(hpWire) = 1
      BY <2>2
    <3>2. QED
      BY <1>0, <2>1, <2>2, <3>1 DEF HpLast
  <2>5. HpAlone'
    BY <1>0, <2>1 DEF HpAlone
  <2>6. HpExplained'
    <3>1. SUFFICES ASSUME hpOpen, ~hpDoubt', ~HpNews', hpShown' # hpLocal'
                   PROVE  \E p \in hpAsks : p.live /\ ~p.done /\ p.next = hpShown'
      BY <2>1 DEF HpExplained
    <3>2. hpLocal' = hpLocal /\ hpShown' = hpShown /\ ~hpDoubt
      BY <2>1, <3>1
    <3>3. ~HpNews
      <4>1. SUFFICES ASSUME NEW i \in 1..Len(hpWire), hpWire[i] # hpLocal PROVE FALSE
        BY DEF HpNews
      <4>2. i # 1
        BY <2>1, <3>2, <4>1
      <4>3. i - 1 \in 1..Len(hpWire') /\ hpWire'[i - 1] = hpWire[i]
        BY <2>2, <4>2
      <4>4. QED
        BY <3>1, <3>2, <4>1, <4>3 DEF HpNews
    <3>4. QED
      BY <1>0, <3>1, <3>2, <3>3 DEF HpExplained
  <2>7. QED
    BY <2>3, <2>4, <2>5, <2>6 DEF HpInv
<1>9. CASE UNCHANGED hpVars
  BY <1>9 DEF hpVars, HpInv, HpTypeOK, HpLast, HpAlone, HpExplained, HpNews
<1>10. QED
  BY <1>1, <1>2, <1>3, <1>4, <1>5, <1>6, <1>7, <1>8, <1>9 DEF HpNext

\* Once a host's requests are answered and the pushes have arrived, the button of the
\* panel shows the room's lock (ParticipantsPanel.tsx, admin.go).
LEMMA HpInSyncHolds == HpSpec => []HpInSync
<1>1. HpInv => HpInSync
  BY DEF HpInv, HpTypeOK, HpLast, HpExplained, HpNews, HpInSync
<1>2. QED
  BY HpInitially, HpStep, <1>1, PTL DEF HpSpec

----
(* The lobby's list of who is in.                                           *)

\* A piece of a sequence.
LEMMA Piece ==
    ASSUME NEW S, NEW s \in Seq(S), NEW m \in Int, NEW n \in Int, 1 <= m, n <= Len(s)
    PROVE  /\ SubSeq(s, m, n) \in Seq(S)
           /\ Len(SubSeq(s, m, n)) = IF m <= n THEN n - m + 1 ELSE 0
<1>1. \A i \in m..n : s[i] \in S
  OBVIOUS
<1>2. QED
  BY <1>1, SubSeqProperties

\* A sequence with one element taken out.
LEMMA OneOut ==
    ASSUME NEW S, NEW s \in Seq(S), NEW i \in 1..Len(s)
    PROVE  /\ SubSeq(s, 1, i - 1) \o SubSeq(s, i + 1, Len(s)) \in Seq(S)
           /\ Len(SubSeq(s, 1, i - 1) \o SubSeq(s, i + 1, Len(s))) = Len(s) - 1
<1> DEFINE before == SubSeq(s, 1, i - 1)
           after == SubSeq(s, i + 1, Len(s))
<1>1. Len(s) \in Int /\ i - 1 \in Int /\ i + 1 \in Int /\ 1 <= i + 1 /\ i - 1 <= Len(s)
  OBVIOUS
<1>2. before \in Seq(S) /\ Len(before) = IF 1 <= i - 1 THEN (i - 1) - 1 + 1 ELSE 0
  BY <1>1, Piece
<1>3. after \in Seq(S) /\ Len(after) = IF i + 1 <= Len(s) THEN Len(s) - (i + 1) + 1 ELSE 0
  BY <1>1, Piece
<1>4. Len(before) = i - 1 /\ Len(after) = Len(s) - i
  BY <1>2, <1>3
<1> HIDE DEF before, after
<1>5. before \o after \in Seq(S) /\ Len(before \o after) = Len(before) + Len(after)
  BY <1>2, <1>3, ConcatProperties
<1>6. before \o after \in Seq(S) /\ Len(before \o after) = Len(s) - 1
  BY <1>4, <1>5
<1>7. QED
  BY <1>6 DEF before, after

LpPollType == [at : {"sent", "answered", "done"}, answer : LpAnswers \cup {LpNothing}]

\* An answer of the backend's sends no more initials than it counts.
LpWhole(x) ==
    x \in LpAnswers /\ Len(x.members) <= LpMembers /\ Len(x.members) <= x.count

\* What an answered poll holds is whole; and the answer on the screen is that of a
\* poll that is done, and of the last one to have brought any unless it was late.
LpAnswered == \A i \in 1..Len(lpPolls) : lpPolls[i].at = "answered" => LpWhole(lpPolls[i].answer)
LpScreen ==
    lpShown # LpNothing =>
        /\ lpFrom \in 1..Len(lpPolls) /\ lpPolls[lpFrom].at = "done"
        /\ lpShown = lpPolls[lpFrom].answer
        /\ LpWhole(lpShown)
        /\ lpHere /\ ~lpLate =>
              \A j \in lpFrom + 1..Len(lpPolls) :
                  lpPolls[j].at = "done" => lpPolls[j].answer = LpNothing

LpRoomInv == lpCame \in Nat /\ lpRoom \in Seq(1..lpCame) /\ Len(lpRoom) <= LpMaxIn
LpPollsInv == lpPolls \in Seq(LpPollType) /\ Len(lpPolls) <= LpMaxPolls
LpPageInv ==
    /\ lpHere \in BOOLEAN /\ lpLate \in BOOLEAN /\ lpFrom \in 0..LpMaxPolls
    /\ lpShown \in LpAnswers \cup {LpNothing}

LpInv == LpRoomInv /\ LpPollsInv /\ LpPageInv /\ LpAnswered /\ LpScreen

LEMMA LpInitially == LpInit => LpInv
<1> SUFFICES ASSUME LpInit PROVE LpInv
  OBVIOUS
<1>1. <<>> \in Seq(1..0) /\ <<>> \in Seq(LpPollType)
  OBVIOUS
<1>2. LpRoomInv
  BY <1>1, LpAssumption DEF LpInit, LpRoomInv
<1>3. LpPollsInv /\ LpAnswered
  BY <1>1, LpAssumption DEF LpInit, LpPollsInv, LpAnswered
<1>4. LpPageInv
  <2>1. 0 \in 0..LpMaxPolls
    BY LpAssumption
  <2>2. QED
    BY <2>1 DEF LpInit, LpPageInv
<1>5. LpScreen
  BY DEF LpInit, LpScreen
<1>6. QED
  BY <1>2, <1>3, <1>4, <1>5 DEF LpInv

\* Both answers the backend may give are whole.
LEMMA LpListedWhole ==
    ASSUME LpRoomInv
    PROVE  LpWhole(LpListed) /\ LpWhole([count |-> 0, members |-> <<>>])
<1> DEFINE n == IF Len(lpRoom) < LpMembers THEN Len(lpRoom) ELSE LpMembers
<1>1. lpRoom \in Seq(Nat) /\ Len(lpRoom) \in 0..LpMaxIn
  BY LpAssumption DEF LpRoomInv
<1>2. n \in 0..Len(lpRoom) /\ n <= LpMembers
  BY <1>1, LpAssumption
<1> HIDE DEF n
<1>3. SubSeq(lpRoom, 1, n) \in Seq(Nat) /\ Len(SubSeq(lpRoom, 1, n)) = n
  BY <1>1, <1>2
<1>4. LpListed = [count |-> Len(lpRoom), members |-> SubSeq(lpRoom, 1, n)]
  BY DEF LpListed, n
<1>5. LpWhole(LpListed)
  BY <1>1, <1>2, <1>3, <1>4 DEF LpWhole, LpAnswers
<1>6. <<>> \in Seq(Nat) /\ Len(<<>>) = 0
  OBVIOUS
<1>7. LpWhole([count |-> 0, members |-> <<>>])
  BY <1>6, LpAssumption DEF LpWhole, LpAnswers
<1>8. QED
  BY <1>5, <1>7

LEMMA LpStep == LpInv /\ [LpNext]_lpVars => LpInv'
<1> SUFFICES ASSUME LpInv, [LpNext]_lpVars PROVE LpInv'
  OBVIOUS
<1>0. LpRoomInv /\ LpPollsInv /\ LpPageInv /\ LpAnswered /\ LpScreen
  BY DEF LpInv
<1>A. /\ lpPolls \in Seq(LpPollType) /\ Len(lpPolls) \in Nat /\ Len(lpPolls) <= LpMaxPolls
      /\ \A i \in 1..Len(lpPolls) : lpPolls[i] \in LpPollType
  BY <1>0 DEF LpPollsInv
<1>1. CASE LpCome
  <2>1. LpRoomInv'
    <3>1. lpCame + 1 \in Nat /\ 1..lpCame \subseteq 1..lpCame + 1 /\ lpCame + 1 \in 1..lpCame + 1
      BY <1>0 DEF LpRoomInv
    <3>2. lpRoom \in Seq(1..lpCame + 1) /\ Len(lpRoom) < LpMaxIn
      BY <1>0, <1>1, <3>1 DEF LpRoomInv, LpCome
    <3>3. Append(lpRoom, lpCame + 1) \in Seq(1..lpCame + 1)
          /\ Len(Append(lpRoom, lpCame + 1)) = Len(lpRoom) + 1 /\ Len(lpRoom) \in Nat
      BY <3>1, <3>2
    <3>4. QED
      BY <1>1, <3>1, <3>2, <3>3, LpAssumption DEF LpRoomInv, LpCome
  <2>2. QED
    BY <1>0, <1>1, <2>1 DEF LpCome, LpInv, LpPollsInv, LpPageInv, LpAnswered, LpScreen
<1>2. CASE LpGo
  <2>0. DOMAIN lpRoom = 1..Len(lpRoom)
    BY <1>0 DEF LpRoomInv
  <2>1. PICK i \in 1..Len(lpRoom) :
          lpRoom' = SubSeq(lpRoom, 1, i - 1) \o SubSeq(lpRoom, i + 1, Len(lpRoom))
    BY <1>2, <2>0 DEF LpGo
  <2>2. LpRoomInv'
    <3>1. lpRoom \in Seq(1..lpCame) /\ Len(lpRoom) \in Nat /\ Len(lpRoom) <= LpMaxIn
      BY <1>0 DEF LpRoomInv
    <3>2. lpRoom' \in Seq(1..lpCame) /\ Len(lpRoom') = Len(lpRoom) - 1
      BY <2>1, <3>1, OneOut
    <3>5. lpCame' = lpCame /\ lpCame \in Nat
      BY <1>0, <1>2 DEF LpGo, LpRoomInv
    <3>6. QED
      BY <3>1, <3>2, <3>5, LpAssumption DEF LpRoomInv
  <2>3. QED
    BY <1>0, <1>2, <2>2 DEF LpGo, LpInv, LpPollsInv, LpPageInv, LpAnswered, LpScreen
<1>3. CASE LpPoll
  <2> DEFINE new == [at |-> "sent", answer |-> LpNothing]
  <2>1. /\ lpPolls' = Append(lpPolls, new) /\ Len(lpPolls) < LpMaxPolls
        /\ lpRoom' = lpRoom /\ lpCame' = lpCame /\ lpHere' = lpHere
        /\ lpShown' = lpShown /\ lpFrom' = lpFrom /\ lpLate' = lpLate
    BY <1>3 DEF LpPoll
  <2>2. new \in LpPollType /\ new.at = "sent"
    BY DEF LpPollType
  <2> HIDE DEF new
  <2>3. /\ lpPolls' \in Seq(LpPollType) /\ Len(lpPolls') = Len(lpPolls) + 1
        /\ \A i \in 1..Len(lpPolls) : lpPolls'[i] = lpPolls[i]
        /\ lpPolls'[Len(lpPolls) + 1] = new
    BY <1>A, <2>1, <2>2
  <2>4. LpPollsInv'
    BY <1>A, <2>1, <2>3, LpAssumption DEF LpPollsInv
  <2>5. LpAnswered'
    BY <1>0, <1>A, <2>2, <2>3 DEF LpAnswered
  <2>6. LpScreen'
    BY <1>0, <1>A, <2>1, <2>2, <2>3 DEF LpScreen
  <2>7. QED
    BY <1>0, <2>1, <2>4, <2>5, <2>6 DEF LpInv, LpRoomInv, LpPageInv
<1>4. ASSUME NEW i \in 1..LpMaxPolls, LpServe(i) PROVE LpInv'
  <2>1. PICK x \in {LpListed, [count |-> 0, members |-> <<>>]} :
          lpPolls' = [lpPolls EXCEPT ![i] = [at |-> "answered", answer |-> x]]
    BY <1>4 DEF LpServe
  <2>2. LpWhole(x)
    BY <1>0, LpListedWhole
  <2> DEFINE new == [at |-> "answered", answer |-> x]
  <2>3. new \in LpPollType /\ new.answer = x /\ new.at = "answered"
    BY <2>2 DEF LpPollType, LpWhole
  <2> HIDE DEF new
  <2>4. /\ i \in 1..Len(lpPolls) /\ lpPolls[i].at = "sent" /\ lpPolls' = [lpPolls EXCEPT ![i] = new]
        /\ lpRoom' = lpRoom /\ lpCame' = lpCame /\ lpHere' = lpHere
        /\ lpShown' = lpShown /\ lpFrom' = lpFrom /\ lpLate' = lpLate
    <3>1. DOMAIN lpPolls = 1..Len(lpPolls)
      BY <1>A
    <3>2. i \in DOMAIN lpPolls /\ lpPolls[i].at = "sent"
      BY <1>4 DEF LpServe
    <3>3. UNCHANGED <<lpRoom, lpCame, lpHere, lpShown, lpFrom, lpLate>>
      BY <1>4 DEF LpServe
    <3>4. QED
      BY <2>1, <3>1, <3>2, <3>3 DEF new
  <2>5. /\ lpPolls' \in Seq(LpPollType) /\ Len(lpPolls') = Len(lpPolls)
        /\ \A j \in 1..Len(lpPolls) : lpPolls'[j] = IF j = i THEN new ELSE lpPolls[j]
    BY <1>A, <2>3, <2>4
  <2>6. LpPollsInv'
    BY <1>A, <2>5 DEF LpPollsInv
  <2>7. LpAnswered'
    BY <1>0, <2>2, <2>3, <2>5 DEF LpAnswered
  <2>8. LpScreen'
    BY <1>0, <1>A, <2>3, <2>4, <2>5, LpAssumption DEF LpScreen, LpPageInv
  <2>9. QED
    BY <1>0, <2>4, <2>6, <2>7, <2>8 DEF LpInv, LpRoomInv, LpPageInv
<1>5. ASSUME NEW i \in 1..LpMaxPolls, LpFails(i) PROVE LpInv'
  <2> DEFINE new == [at |-> "done", answer |-> LpNothing]
  <2>3. new \in LpPollType /\ new.answer = LpNothing /\ new.at = "done"
    BY DEF LpPollType
  <2>4. /\ i \in 1..Len(lpPolls) /\ lpPolls[i].at # "done" /\ lpPolls' = [lpPolls EXCEPT ![i] = new]
        /\ lpRoom' = lpRoom /\ lpCame' = lpCame /\ lpHere' = lpHere
        /\ lpShown' = lpShown /\ lpFrom' = lpFrom /\ lpLate' = lpLate
    BY <1>A, <1>5 DEF LpFails, LpAfterFailure
  <2> HIDE DEF new
  <2>5. /\ lpPolls' \in Seq(LpPollType) /\ Len(lpPolls') = Len(lpPolls)
        /\ \A j \in 1..Len(lpPolls) : lpPolls'[j] = IF j = i THEN new ELSE lpPolls[j]
    BY <1>A, <2>3, <2>4
  <2>6. LpPollsInv'
    BY <1>A, <2>5 DEF LpPollsInv
  <2>7. LpAnswered'
    BY <1>0, <2>3, <2>5 DEF LpAnswered
  <2>8. LpScreen'
    BY <1>0, <1>A, <2>3, <2>4, <2>5, LpAssumption DEF LpScreen, LpPageInv
  <2>9. QED
    BY <1>0, <2>4, <2>6, <2>7, <2>8 DEF LpInv, LpRoomInv, LpPageInv
<1>6. ASSUME NEW i \in 1..LpMaxPolls, LpArrive(i) PROVE LpInv'
  <2> DEFINE new == [lpPolls[i] EXCEPT !.at = "done"]
  <2>1. /\ i \in 1..Len(lpPolls) /\ lpPolls[i].at = "answered"
        /\ lpPolls' = [lpPolls EXCEPT ![i] = new]
        /\ lpRoom' = lpRoom /\ lpCame' = lpCame /\ lpHere' = lpHere
    BY <1>A, <1>6 DEF LpArrive
  <2>2. new \in LpPollType /\ new.answer = lpPolls[i].answer /\ new.at = "done"
    BY <1>A, <2>1 DEF LpPollType
  <2> HIDE DEF new
  <2>3. /\ lpPolls' \in Seq(LpPollType) /\ Len(lpPolls') = Len(lpPolls)
        /\ \A j \in 1..Len(lpPolls) : lpPolls'[j] = IF j = i THEN new ELSE lpPolls[j]
    BY <1>A, <2>1, <2>2
  <2>4. LpPollsInv' /\ LpAnswered'
    BY <1>0, <1>A, <2>2, <2>3 DEF LpPollsInv, LpAnswered
  <2>5. LpWhole(lpPolls[i].answer)
    BY <1>0, <2>1 DEF LpAnswered
  <2>6. CASE lpHere
    <3>1. /\ lpShown' = lpPolls[i].answer /\ lpFrom' = i
          /\ lpLate' = (\E j \in i + 1..Len(lpPolls) : lpPolls[j].at = "done"
                                                     /\ lpPolls[j].answer # LpNothing)
      BY <1>6, <2>6 DEF LpArrive
    <3>2. LpPageInv'
      BY <1>0, <1>A, <2>1, <2>5, <3>1 DEF LpPageInv, LpWhole
    <3>3. LpScreen'
      BY <1>A, <2>1, <2>2, <2>3, <2>5, <3>1 DEF LpScreen
    <3>4. QED
      BY <1>0, <2>1, <2>4, <3>2, <3>3 DEF LpInv, LpRoomInv
  <2>7. CASE ~lpHere
    <3>1. lpShown' = lpShown /\ lpFrom' = lpFrom /\ lpLate' = lpLate
      BY <1>6, <2>7 DEF LpArrive
    <3>2. LpPageInv' /\ LpRoomInv'
      BY <1>0, <2>1, <3>1 DEF LpPageInv, LpRoomInv
    <3>3. LpScreen'
      BY <1>0, <1>A, <2>1, <2>2, <2>3, <2>7, <3>1 DEF LpScreen
    <3>4. QED
      BY <2>4, <3>2, <3>3 DEF LpInv
  <2>8. QED
    BY <2>6, <2>7
<1>7. CASE LpUnmount
  BY <1>0, <1>7 DEF LpUnmount, LpInv, LpRoomInv, LpPollsInv, LpPageInv, LpAnswered, LpScreen
<1>8. CASE UNCHANGED lpVars
  BY <1>0, <1>8 DEF lpVars, LpInv, LpRoomInv, LpPollsInv, LpPageInv, LpAnswered, LpScreen
<1>9. QED
  BY <1>1, <1>2, <1>3, <1>4, <1>5, <1>6, <1>7, <1>8 DEF LpNext

LEMMA LpHolds == LpSpec => [](LpTypeOK /\ LpLastKnown)
<1>1. LpInv => LpTypeOK
  <2> SUFFICES ASSUME LpInv PROVE LpTypeOK
    OBVIOUS
  <2>1. \A i \in DOMAIN lpPolls : lpPolls[i] \in LpPollType
    BY DEF LpInv, LpPollsInv
  <2>2. \A i \in DOMAIN lpPolls : lpPolls[i].at \in {"sent", "answered", "done"}
    BY <2>1 DEF LpPollType
  <2>3. QED
    BY <2>2 DEF LpInv, LpRoomInv, LpPollsInv, LpPageInv, LpTypeOK
<1>2. LpInv => LpLastKnown
  BY DEF LpInv, LpScreen, LpWhole, LpLastKnown
<1>3. QED
  BY LpInitially, LpStep, <1>1, <1>2, PTL DEF LpSpec

----
(* The sign-in state of the page.                                           *)

PaPageType == [ready : BOOLEAN, required : BOOLEAN, user : 0..PaMaxSignIns, home : BOOLEAN]
PaCreateType == [at : {"sent", "answered", "done"}, by : 1..PaMaxSignIns,
                 answer : {"none", "room", "taken", "unauthorized", "error"}]

\* No number is ahead of the sign-ins, and the cookie is of the last; before the load has ended nothing else has
\* begun; who is signed in has signed in since the last sign-out; a creation was
\* refused for a sign-in before the one the cookie is of; and a sign-out nobody asked
\* for is of a session that is gone.
PaNumbers ==
    /\ paCookie \in {0, paSignIns}
    /\ paCookie <= paSignIns /\ paPage.user <= paSignIns /\ paOut <= paSignIns
    /\ paMe \in 0..paSignIns \cup {PaNotAsked}
    /\ \A i \in 1..Len(paCreates) : paCreates[i].by <= paSignIns
    /\ \A u \in 1..PaMaxSignIns : paOuts[u] > 0 => u <= paSignIns
PaLoading ==
    paLoad # "done" =>
        ~paPage.ready /\ paPage.user = 0 /\ paOut = 0 /\ ~paAsking /\ paCreates = <<>>
        /\ \A u \in 1..PaMaxSignIns : paOuts[u] = 0
PaRefused ==
    \A i \in 1..Len(paCreates) :
        paCreates[i].answer = "unauthorized" /\ paCookie # 0 => paCreates[i].by < paCookie

PaOwed == \A u \in 1..PaMaxSignIns : paOuts[u] > 0 => u \in paAsked \/ paCookie # u

PaInv == PaTypeOK /\ PaNumbers /\ PaLoading /\ PaRefused /\ PaOwed /\ PaStaysOut

\* What PaStaysIn says of a step.
PaStayed ==
    paPage.user # 0 /\ paPage'.user = 0 /\ paCookie = paPage.user =>
        \/ paPage.user \in paAsked
        \/ \E u \in 1..(paPage.user - 1) : paOuts'[u] < paOuts[u]

LEMMA PaInitially == PaInit => PaInv
<1> SUFFICES ASSUME PaInit PROVE PaInv
  OBVIOUS
<1>1. <<>> \in Seq(PaCreateType) /\ Len(<<>>) = 0
  OBVIOUS
<1>2. {0, 1} \subseteq 0..PaMaxSignIns
  BY PaAssumption
<1>3. /\ paCookie \in 0..PaMaxSignIns /\ paSignIns = paCookie /\ paOut = 0 /\ paMe = PaNotAsked
      /\ paCreates = <<>> /\ paLoad = "config" /\ paAsking = FALSE /\ paFailed = FALSE
      /\ paOuts \in [1..PaMaxSignIns -> Nat] /\ paAsked = {}
      /\ \A u \in 1..PaMaxSignIns : paOuts[u] = 0
      /\ paPage \in PaPageType /\ paPage.user = 0 /\ ~paPage.ready
  BY <1>2, PaAssumption DEF PaInit, PaPageType
<1>4. PaTypeOK
  BY <1>1, <1>3, PaAssumption DEF PaTypeOK, PaPageType, PaCreateType
<1>5. PaNumbers /\ PaLoading /\ PaRefused /\ PaOwed
  BY <1>1, <1>3 DEF PaNumbers, PaLoading, PaRefused, PaOwed
<1>6. PaStaysOut
  BY <1>3 DEF PaStaysOut
<1>7. QED
  BY <1>4, <1>5, <1>6 DEF PaInv

LEMMA PaStep == PaInv /\ [PaNext]_paVars => PaInv' /\ (PaStayed \/ UNCHANGED paVars)
<1> SUFFICES ASSUME PaInv, [PaNext]_paVars PROVE PaInv' /\ (PaStayed \/ UNCHANGED paVars)
  OBVIOUS
<1> USE PaAssumption
<1>0. PaTypeOK /\ PaNumbers /\ PaLoading /\ PaRefused /\ PaOwed /\ PaStaysOut
  BY DEF PaInv
<1>A. /\ paCookie \in 0..PaMaxSignIns /\ paSignIns \in 0..PaMaxSignIns /\ paOut \in 0..PaMaxSignIns
      /\ paMe \in 0..PaMaxSignIns \cup {PaNotAsked} /\ paFailed \in BOOLEAN
      /\ paLoad \in {"config", "me", "done"} /\ paAsking \in BOOLEAN
      /\ paOuts \in [1..PaMaxSignIns -> Nat] /\ paAsked \in SUBSET (1..PaMaxSignIns)
      /\ paPage \in PaPageType /\ paPage.user \in 0..PaMaxSignIns
      /\ paCreates \in Seq(PaCreateType) /\ Len(paCreates) \in Nat
      /\ DOMAIN paCreates = 1..Len(paCreates)
      /\ \A i \in 1..Len(paCreates) :
            paCreates[i] \in PaCreateType /\ paCreates[i].by \in 1..PaMaxSignIns
  <2>1. paCreates \in Seq(PaCreateType)
    BY <1>0 DEF PaTypeOK, PaCreateType
  <2>2. paPage \in PaPageType /\ paPage.user \in 0..PaMaxSignIns
    BY <1>0 DEF PaTypeOK, PaPageType
  <2>3. \A i \in 1..Len(paCreates) : paCreates[i] \in PaCreateType
    BY <2>1
  <2>4. \A i \in 1..Len(paCreates) : paCreates[i].by \in 1..PaMaxSignIns
    BY <2>3 DEF PaCreateType
  <2>5. QED
    BY <1>0, <2>1, <2>2, <2>3, <2>4 DEF PaTypeOK
<1>1. CASE PaConfig
  <2>1. /\ paLoad = "config" /\ paLoad' \in {"me", "done"}
        /\ paPage' \in PaPageType /\ paPage'.user = paPage.user /\ (paPage'.ready => paLoad' = "done")
        /\ paCookie' = paCookie /\ paMe' = paMe /\ paAsking' = paAsking /\ paOuts' = paOuts /\ paAsked' = paAsked /\ paCreates' = paCreates
        /\ paSignIns' = paSignIns /\ paOut' = paOut /\ paFailed' = paFailed
    BY <1>A, <1>1 DEF PaConfig, PaConfigured, PaPageType
  <2>7. PaTypeOK'
    BY <1>0, <1>A, <2>1 DEF PaTypeOK, PaPageType, PaCreateType
  <2>8. PaNumbers' /\ PaLoading' /\ PaRefused' /\ PaOwed'
    BY <1>0, <1>A, <2>1 DEF PaNumbers, PaLoading, PaRefused, PaOwed
  <2>9. PaStaysOut' /\ PaStayed
    BY <1>0, <1>A, <2>1 DEF PaNumbers, PaLoading, PaRefused, PaStaysOut, PaStayed
  <2>10. QED
    BY <2>7, <2>8, <2>9 DEF PaInv
<1>2. CASE PaMeServed
  <2>1. /\ paLoad = "me" /\ paMe' = paCookie
        /\ paCookie' = paCookie /\ paLoad' = paLoad /\ paPage' = paPage /\ paAsking' = paAsking /\ paOuts' = paOuts /\ paAsked' = paAsked
        /\ paCreates' = paCreates /\ paSignIns' = paSignIns /\ paOut' = paOut /\ paFailed' = paFailed
    BY <1>A, <1>2 DEF PaMeServed
  <2>7. PaTypeOK'
    BY <1>0, <1>A, <2>1 DEF PaTypeOK, PaPageType, PaCreateType
  <2>8. PaNumbers' /\ PaLoading' /\ PaRefused' /\ PaOwed'
    BY <1>0, <1>A, <2>1 DEF PaNumbers, PaLoading, PaRefused, PaOwed
  <2>9. PaStaysOut' /\ PaStayed
    BY <1>0, <1>A, <2>1 DEF PaNumbers, PaLoading, PaRefused, PaStaysOut, PaStayed
  <2>10. QED
    BY <2>7, <2>8, <2>9 DEF PaInv
<1>3. CASE PaMeArrives
  <2>1. /\ paLoad = "me" /\ paLoad' = "done" /\ paPage' \in PaPageType
        /\ (paPage'.user = paPage.user \/ (paMe \notin {0, PaNotAsked} /\ paPage'.user = paMe))
        /\ paCookie' = paCookie /\ paMe' = paMe /\ paAsking' = paAsking /\ paOuts' = paOuts /\ paAsked' = paAsked /\ paCreates' = paCreates
        /\ paSignIns' = paSignIns /\ paOut' = paOut /\ paFailed' = paFailed
    BY <1>A, <1>3 DEF PaMeArrives, PaPageType
  <2>7. PaTypeOK'
    BY <1>0, <1>A, <2>1 DEF PaTypeOK, PaPageType, PaCreateType
  <2>8. PaNumbers' /\ PaLoading' /\ PaRefused' /\ PaOwed'
    BY <1>0, <1>A, <2>1 DEF PaNumbers, PaLoading, PaRefused, PaOwed
  <2>9. PaStaysOut' /\ PaStayed
    BY <1>0, <1>A, <2>1 DEF PaNumbers, PaLoading, PaRefused, PaStaysOut, PaStayed
  <2>10. QED
    BY <2>7, <2>8, <2>9 DEF PaInv
<1>4. CASE PaSubmitCode
  <2>1. /\ paPage.ready /\ paAsking' = TRUE /\ paOuts' = paOuts /\ paAsked' = paAsked
        /\ paCookie' = paCookie /\ paLoad' = paLoad /\ paMe' = paMe /\ paPage' = paPage
        /\ paCreates' = paCreates /\ paSignIns' = paSignIns /\ paOut' = paOut /\ paFailed' = paFailed
    BY <1>A, <1>4 DEF PaSubmitCode
  <2>7. PaTypeOK'
    BY <1>0, <1>A, <2>1 DEF PaTypeOK, PaPageType, PaCreateType
  <2>8. PaNumbers' /\ PaLoading' /\ PaRefused' /\ PaOwed'
    BY <1>0, <1>A, <2>1 DEF PaNumbers, PaLoading, PaRefused, PaOwed
  <2>9. PaStaysOut' /\ PaStayed
    BY <1>0, <1>A, <2>1 DEF PaNumbers, PaLoading, PaRefused, PaStaysOut, PaStayed
  <2>10. QED
    BY <2>7, <2>8, <2>9 DEF PaInv
<1>5. CASE PaCodeAnswered
  <2>1. /\ paAsking /\ paAsking' = FALSE /\ paOuts' = paOuts /\ paAsked' = paAsked
        /\ paPage' \in PaPageType
        /\ \/ /\ paSignIns < PaMaxSignIns /\ paSignIns' = paSignIns + 1
              /\ paCookie' = paSignIns + 1 /\ paPage'.user = paSignIns + 1
           \/ paSignIns' = paSignIns /\ paCookie' = paCookie /\ paPage' = paPage
        /\ paLoad' = paLoad /\ paMe' = paMe /\ paCreates' = paCreates
        /\ paOut' = paOut /\ paFailed' = paFailed
    <3>1. /\ paAsking /\ paAsking' = FALSE
          /\ UNCHANGED <<paLoad, paMe, paOuts, paCreates, paAsked, paOut, paFailed>>
          /\ \/ /\ paSignIns < PaMaxSignIns /\ paSignIns' = paSignIns + 1
                /\ paCookie' = paSignIns + 1
                /\ paPage' = [paPage EXCEPT !.user = paSignIns + 1]
             \/ UNCHANGED <<paSignIns, paCookie, paPage>>
      BY <1>5 DEF PaCodeAnswered
    <3>2. CASE UNCHANGED <<paSignIns, paCookie, paPage>>
      BY <1>A, <3>1, <3>2
    <3>3. CASE /\ paSignIns < PaMaxSignIns /\ paSignIns' = paSignIns + 1
               /\ paCookie' = paSignIns + 1
               /\ paPage' = [paPage EXCEPT !.user = paSignIns + 1]
      <4>0. PICK x \in 0..PaMaxSignIns : x = paSignIns + 1
        BY <1>A, <3>3
      <4>1. paPage' \in PaPageType /\ paPage'.user = x
        BY <1>A, <3>3, <4>0 DEF PaPageType
      <4>2. QED
        BY <3>1, <3>3, <4>0, <4>1
    <3>4. QED
      BY <3>1, <3>2, <3>3
  <2>7. PaTypeOK'
    BY <1>0, <1>A, <2>1 DEF PaTypeOK, PaPageType, PaCreateType
  <2>8. PaNumbers' /\ PaLoading' /\ PaRefused' /\ PaOwed'
    <3>1. paSignIns <= paSignIns'
      BY <1>A, <2>1
    <3>2. PaNumbers'
      <4>1. \A i \in 1..Len(paCreates) : paCreates[i].by <= paSignIns'
        BY <1>0, <1>A, <2>1, <3>1 DEF PaNumbers
      <4>2. paMe \in 0..paSignIns' \cup {PaNotAsked} /\ paOut <= paSignIns'
        BY <1>0, <1>A, <2>1, <3>1 DEF PaNumbers
      <4>3. paCookie' \in {0, paSignIns'} /\ paCookie' <= paSignIns' /\ paPage'.user <= paSignIns'
        BY <1>0, <1>A, <2>1 DEF PaNumbers
      <4>4. \A u \in 1..PaMaxSignIns : paOuts[u] > 0 => u <= paSignIns'
        BY <1>0, <1>A, <2>1, <3>1 DEF PaNumbers
      <4>5. QED
        BY <2>1, <4>1, <4>2, <4>3, <4>4 DEF PaNumbers
    <3>3. PaLoading'
      BY <1>0, <1>A, <2>1 DEF PaLoading
    <3>4. PaRefused'
      <4>1. \A i \in 1..Len(paCreates) : paCreates[i].by < paSignIns + 1
        BY <1>0, <1>A DEF PaNumbers
      <4>2. QED
        BY <1>0, <2>1, <4>1 DEF PaRefused
    <3>5. PaOwed'
      <4>0. paSignIns \in Nat /\ \A u \in 1..PaMaxSignIns : u \in Nat
        BY <1>A
      <4>1. ASSUME NEW u \in 1..PaMaxSignIns, paOuts[u] > 0 PROVE u < paSignIns + 1
        <5>1. u <= paSignIns
          BY <1>0, <4>1 DEF PaNumbers
        <5>2. QED
          BY <4>0, <5>1
      <4>2. QED
        BY <1>0, <1>A, <2>1, <4>1 DEF PaOwed
    <3>6. QED
      BY <3>2, <3>3, <3>4, <3>5
  <2>9. PaStaysOut' /\ PaStayed
    BY <1>0, <1>A, <2>1 DEF PaNumbers, PaLoading, PaRefused, PaStaysOut, PaStayed
  <2>10. QED
    BY <2>7, <2>8, <2>9 DEF PaInv
<1>6. CASE PaSignOut
  <2>1. /\ paPage.ready /\ paPage.user \in 1..PaMaxSignIns
        /\ paOuts' = [paOuts EXCEPT ![paPage.user] = @ + 1]
        /\ paAsked' = paAsked \cup {paPage.user}
        /\ paCookie' = paCookie /\ paLoad' = paLoad /\ paMe' = paMe /\ paPage' = paPage
        /\ paAsking' = paAsking /\ paCreates' = paCreates /\ paSignIns' = paSignIns
        /\ paOut' = paOut /\ paFailed' = paFailed
    BY <1>A, <1>6 DEF PaSignOut
  <2>2. /\ paOuts' \in [1..PaMaxSignIns -> Nat] /\ paAsked' \in SUBSET (1..PaMaxSignIns)
        /\ \A u \in 1..PaMaxSignIns : u # paPage.user => paOuts'[u] = paOuts[u]
    <3>1. PICK mine \in 1..PaMaxSignIns : mine = paPage.user
      BY <2>1
    <3>2. paOuts' = [paOuts EXCEPT ![mine] = @ + 1] /\ paAsked' = paAsked \cup {mine}
      BY <2>1, <3>1
    <3>3. paAsked' \in SUBSET (1..PaMaxSignIns)
      BY <1>A, <3>1, <3>2
    <3>4. /\ paOuts' \in [1..PaMaxSignIns -> Nat]
          /\ \A u \in 1..PaMaxSignIns : u # mine => paOuts'[u] = paOuts[u]
      BY <1>A, <3>1, <3>2
    <3>5. QED
      BY <3>1, <3>3, <3>4
  <2>3. paLoad = "done" /\ paPage.user <= paSignIns
    BY <1>0, <1>A, <2>1 DEF PaLoading, PaNumbers
  <2>7. PaTypeOK'
    BY <1>0, <1>A, <2>1, <2>2 DEF PaTypeOK, PaPageType, PaCreateType
  <2>8. PaNumbers' /\ PaLoading' /\ PaRefused' /\ PaOwed'
    <3>1. PaNumbers'
      <4>1. \A u \in 1..PaMaxSignIns : paOuts'[u] > 0 => u <= paSignIns
        BY <1>0, <2>2, <2>3 DEF PaNumbers
      <4>2. QED
        BY <1>0, <2>1, <4>1 DEF PaNumbers
    <3>2. PaLoading' /\ PaRefused'
      BY <1>0, <2>1, <2>3 DEF PaLoading, PaRefused
    <3>3. PaOwed'
      BY <1>0, <2>1, <2>2 DEF PaOwed
    <3>4. QED
      BY <3>1, <3>2, <3>3
  <2>9. PaStaysOut' /\ PaStayed
    BY <1>0, <1>A, <2>1 DEF PaStaysOut, PaStayed
  <2>10. QED
    BY <2>7, <2>8, <2>9 DEF PaInv
<1>7. ASSUME NEW u \in 1..PaMaxSignIns, PaSignedOut(u) PROVE PaInv' /\ PaStayed
  <2>1. /\ paOuts[u] > 0 /\ paOuts' = [paOuts EXCEPT ![u] = @ - 1] /\ paOut' = paSignIns
        /\ paPage' \in PaPageType /\ paPage'.user = 0 /\ paPage'.ready = paPage.ready
        /\ (paCookie' = 0 /\ paFailed' = FALSE) \/ (paFailed' = TRUE /\ paCookie' = paCookie)
        /\ paLoad' = paLoad /\ paMe' = paMe /\ paAsking' = paAsking /\ paAsked' = paAsked
        /\ paCreates' = paCreates /\ paSignIns' = paSignIns
    <3>1. /\ paOuts[u] > 0 /\ paOuts' = [paOuts EXCEPT ![u] = @ - 1] /\ paOut' = paSignIns
          /\ paPage' = [paPage EXCEPT !.user = 0]
          /\ (paCookie' = 0 /\ paFailed' = FALSE) \/ (paFailed' = TRUE /\ paCookie' = paCookie)
          /\ UNCHANGED <<paLoad, paMe, paAsking, paCreates, paSignIns, paAsked>>
      BY <1>7 DEF PaSignedOut
    <3>2. paPage' \in PaPageType /\ paPage'.user = 0 /\ paPage'.ready = paPage.ready
      <4>1. paPage \in PaPageType /\ 0 \in 0..PaMaxSignIns
        BY <1>A
      <4>2. QED
        BY <3>1, <4>1 DEF PaPageType
    <3>3. QED
      BY <3>1, <3>2
  <2>2. /\ paOuts' \in [1..PaMaxSignIns -> Nat] /\ paOuts'[u] = paOuts[u] - 1
        /\ \A v \in 1..PaMaxSignIns : v # u => paOuts'[v] = paOuts[v]
    BY <1>A, <2>1
  <2>3. paLoad = "done" /\ u <= paSignIns
    BY <1>0, <1>A, <2>1 DEF PaLoading, PaNumbers
  <2>4. \A v \in 1..PaMaxSignIns : paOuts'[v] > 0 => paOuts[v] > 0
    BY <2>1, <2>2
  <2>7. PaTypeOK'
    BY <1>0, <1>A, <2>1, <2>2 DEF PaTypeOK, PaPageType, PaCreateType
  <2>8. PaNumbers' /\ PaLoading' /\ PaRefused' /\ PaOwed'
    <3>1. PaNumbers'
      <4>1. paCookie' \in {0, paSignIns} /\ paCookie' <= paSignIns /\ paOut' <= paSignIns
        BY <1>0, <1>A, <2>1 DEF PaNumbers
      <4>2. paPage'.user <= paSignIns /\ paMe' \in 0..paSignIns \cup {PaNotAsked}
        BY <1>0, <1>A, <2>1 DEF PaNumbers
      <4>3. \A i \in 1..Len(paCreates') : paCreates'[i].by <= paSignIns
        BY <1>0, <2>1 DEF PaNumbers
      <4>4. \A v \in 1..PaMaxSignIns : paOuts'[v] > 0 => v <= paSignIns
        BY <1>0, <2>4 DEF PaNumbers
      <4>5. QED
        BY <2>1, <4>1, <4>2, <4>3, <4>4 DEF PaNumbers
    <3>2. PaLoading' /\ PaRefused'
      BY <1>0, <2>1, <2>3 DEF PaLoading, PaRefused
    <3>3. PaOwed'
      BY <1>0, <2>1, <2>4 DEF PaOwed
    <3>4. QED
      BY <3>1, <3>2, <3>3
  <2>9. PaStaysOut'
    BY <1>0, <1>A, <2>1 DEF PaStaysOut
  <2>11. PaStayed
    <3>1. SUFFICES ASSUME paPage.user # 0, paCookie = paPage.user, paPage.user \notin paAsked
                   PROVE  \E v \in 1..(paPage.user - 1) : paOuts'[v] < paOuts[v]
      BY DEF PaStayed
    <3>2. u # paPage.user
      BY <1>0, <2>1, <3>1 DEF PaOwed
    <3>3. paPage.user = paSignIns
      BY <1>0, <1>A, <3>1 DEF PaNumbers
    <3>4. u \in 1..(paPage.user - 1)
      BY <1>A, <2>3, <3>2, <3>3
    <3>5. paOuts'[u] < paOuts[u]
      <4>1. paOuts[u] \in Nat /\ paOuts'[u] = paOuts[u] - 1
        BY <1>A, <2>2
      <4>2. QED
        BY <4>1
    <3>6. QED
      BY <3>4, <3>5
  <2>10. QED
    BY <2>7, <2>8, <2>9, <2>11 DEF PaInv
<1>8. CASE PaCreate
  <2>1. /\ paPage.ready /\ paPage.user # 0
        /\ paCreates' = Append(paCreates, [at |-> "sent", by |-> paPage.user, answer |-> "none"])
        /\ paCookie' = paCookie /\ paLoad' = paLoad /\ paMe' = paMe /\ paPage' = paPage
        /\ paAsking' = paAsking /\ paOuts' = paOuts /\ paAsked' = paAsked /\ paSignIns' = paSignIns /\ paOut' = paOut /\ paFailed' = paFailed
    BY <1>A, <1>8 DEF PaCreate
  <2>2. /\ paCreates' \in Seq(PaCreateType) /\ Len(paCreates') = Len(paCreates) + 1
        /\ \A j \in 1..Len(paCreates) : paCreates'[j] = paCreates[j]
        /\ paCreates'[Len(paCreates) + 1].by = paPage.user
        /\ paCreates'[Len(paCreates) + 1].answer = "none"
    <3> DEFINE new == [at |-> "sent", by |-> paPage.user, answer |-> "none"]
    <3>1. new \in PaCreateType /\ new.by = paPage.user /\ new.answer = "none"
      BY <1>A, <2>1 DEF PaCreateType
    <3>2. paCreates' = Append(paCreates, new)
      BY <2>1
    <3> HIDE DEF new
    <3>3. QED
      BY <1>A, <3>1, <3>2
  <2>7. PaTypeOK'
    BY <1>0, <1>A, <2>1, <2>2 DEF PaTypeOK, PaPageType, PaCreateType
  <2>8. PaNumbers' /\ PaLoading' /\ PaRefused' /\ PaOwed'
    <3>1. \A j \in 1..Len(paCreates') :
             \/ j \in 1..Len(paCreates) /\ paCreates'[j] = paCreates[j]
             \/ paCreates'[j].by = paPage.user /\ paCreates'[j].answer = "none"
      BY <1>A, <2>2
    <3>2. PaNumbers'
      BY <1>0, <2>1, <3>1 DEF PaNumbers
    <3>3. PaLoading'
      BY <1>0, <2>1 DEF PaLoading
    <3>4. PaRefused'
      BY <1>0, <2>1, <3>1 DEF PaRefused
    <3>5. PaOwed'
      BY <1>0, <2>1 DEF PaOwed
    <3>6. QED
      BY <3>2, <3>3, <3>4, <3>5
  <2>9. PaStaysOut' /\ PaStayed
    BY <1>0, <1>A, <2>1, <2>2 DEF PaNumbers, PaLoading, PaRefused, PaStaysOut, PaStayed
  <2>10. QED
    BY <2>7, <2>8, <2>9 DEF PaInv
<1>9. ASSUME NEW i \in 1..PaMaxCreates, PaCreateServed(i) PROVE PaInv' /\ PaStayed
  <2>1. /\ i \in 1..Len(paCreates)
        /\ paCookie' = paCookie /\ paLoad' = paLoad /\ paMe' = paMe /\ paPage' = paPage
        /\ paAsking' = paAsking /\ paOuts' = paOuts /\ paAsked' = paAsked /\ paSignIns' = paSignIns /\ paOut' = paOut /\ paFailed' = paFailed
    BY <1>A, <1>9 DEF PaCreateServed
  <2>2. /\ paCreates' \in Seq(PaCreateType) /\ Len(paCreates') = Len(paCreates)
        /\ \A j \in 1..Len(paCreates) :
              /\ paCreates'[j].by = paCreates[j].by
              /\ j # i => paCreates'[j] = paCreates[j]
        /\ paCreates'[i].answer = "unauthorized" => paCookie = 0
    <3>1. PICK x \in IF paCookie = 0 THEN {"unauthorized", "error"} ELSE {"room", "taken", "error"} :
            paCreates' = [paCreates EXCEPT ![i].at = "answered", ![i].answer = x]
      BY <1>9 DEF PaCreateServed
    <3> DEFINE new == [paCreates[i] EXCEPT !.at = "answered", !.answer = x]
    <3>2. new \in PaCreateType /\ new.by = paCreates[i].by /\ new.answer = x
      BY <1>A, <2>1, <3>1 DEF PaCreateType
    <3>3. paCreates' = [paCreates EXCEPT ![i] = new]
      BY <1>A, <2>1, <3>1
    <3> HIDE DEF new
    <3>4. /\ paCreates' \in Seq(PaCreateType) /\ Len(paCreates') = Len(paCreates)
          /\ \A j \in 1..Len(paCreates) : paCreates'[j] = IF j = i THEN new ELSE paCreates[j]
      BY <1>A, <2>1, <3>2, <3>3
    <3>5. QED
      BY <2>1, <3>1, <3>2, <3>4
  <2>3. paLoad = "done"
    BY <1>0, <1>A, <2>1 DEF PaLoading
  <2>7. PaTypeOK'
    BY <1>0, <1>A, <2>1, <2>2, <2>3 DEF PaTypeOK, PaPageType, PaCreateType
  <2>8. PaNumbers' /\ PaLoading' /\ PaRefused' /\ PaOwed'
    BY <1>0, <1>A, <2>1, <2>2, <2>3 DEF PaNumbers, PaLoading, PaRefused, PaOwed
  <2>9. PaStaysOut' /\ PaStayed
    BY <1>0, <1>A, <2>1, <2>2, <2>3 DEF PaNumbers, PaLoading, PaRefused, PaStaysOut, PaStayed
  <2>10. QED
    BY <2>7, <2>8, <2>9 DEF PaInv
<1>10. ASSUME NEW i \in 1..PaMaxCreates, PaCreateArrives(i) PROVE PaInv' /\ PaStayed
  <2> DEFINE by == paCreates[i].by
  <2>0. i \in 1..Len(paCreates) /\ by \in 1..PaMaxSignIns
    <3>1. i \in 1..Len(paCreates)
      BY <1>A, <1>10 DEF PaCreateArrives
    <3>2. QED
      BY <1>A, <3>1
  <2>1. /\ paPage' \in PaPageType /\ paPage'.user = paPage.user /\ paCookie' = paCookie
        /\ \/ paCreates[i].answer = "unauthorized" /\ paOuts' = [paOuts EXCEPT ![by] = @ + 1]
           \/ paOuts' = paOuts
        /\ paLoad' = paLoad /\ paMe' = paMe /\ paAsking' = paAsking /\ paAsked' = paAsked
        /\ paSignIns' = paSignIns /\ paOut' = paOut /\ paFailed' = paFailed
    <3>2. CASE paCreates[i].answer = "unauthorized"
      <4>1. /\ paPage' = paPage /\ paOuts' = [paOuts EXCEPT ![by] = @ + 1]
            /\ UNCHANGED <<paCookie, paLoad, paMe, paAsking, paSignIns, paAsked, paOut, paFailed>>
        BY <1>10, <3>2 DEF PaCreateArrives, PaEndsSession
      <4>2. QED
        BY <1>A, <3>2, <4>1
    <3>3. CASE paCreates[i].answer # "unauthorized"
      <4>1. /\ paPage' = [paPage EXCEPT !.home = @ /\ paCreates[i].answer # "room"]
            /\ paOuts' = paOuts
            /\ UNCHANGED <<paCookie, paLoad, paMe, paAsking, paSignIns, paAsked, paOut, paFailed>>
        BY <1>10, <3>3 DEF PaCreateArrives, PaEndsSession
      <4>2. paPage' \in PaPageType /\ paPage'.user = paPage.user
        BY <1>A, <4>1 DEF PaPageType
      <4>3. QED
        BY <4>1, <4>2
    <3>4. QED
      BY <3>2, <3>3
  <2>2. /\ paCreates' \in Seq(PaCreateType) /\ Len(paCreates') = Len(paCreates)
        /\ \A j \in 1..Len(paCreates) :
              paCreates'[j].by = paCreates[j].by /\ paCreates'[j].answer = paCreates[j].answer
    <3>1. paCreates' = [paCreates EXCEPT ![i].at = "done"]
      BY <1>10 DEF PaCreateArrives
    <3> DEFINE new == [paCreates[i] EXCEPT !.at = "done"]
    <3>2. new \in PaCreateType /\ new.by = paCreates[i].by /\ new.answer = paCreates[i].answer
      BY <1>A, <2>0, <3>1 DEF PaCreateType
    <3>3. paCreates' = [paCreates EXCEPT ![i] = new]
      BY <1>A, <2>0, <3>1
    <3> HIDE DEF new
    <3>4. /\ paCreates' \in Seq(PaCreateType) /\ Len(paCreates') = Len(paCreates)
          /\ \A j \in 1..Len(paCreates) : paCreates'[j] = IF j = i THEN new ELSE paCreates[j]
      BY <1>A, <2>0, <3>2, <3>3
    <3>5. QED
      BY <2>0, <3>2, <3>4
  <2>3. paLoad = "done"
    BY <1>0, <1>A, <2>0 DEF PaLoading
  <2>4. /\ by <= paSignIns
        /\ paCreates[i].answer = "unauthorized" => paCookie # by
    <3>1. by <= paSignIns /\ (paCreates[i].answer = "unauthorized" /\ paCookie # 0 => by < paCookie)
      BY <1>0, <2>0 DEF PaNumbers, PaRefused
    <3>2. QED
      BY <1>A, <2>0, <3>1
  <2> HIDE DEF by
  <2>5. /\ paOuts' \in [1..PaMaxSignIns -> Nat]
        /\ \A u \in 1..PaMaxSignIns :
              \/ paOuts'[u] = paOuts[u]
              \/ u = by /\ paCreates[i].answer = "unauthorized"
    BY <1>A, <2>0, <2>1
  <2>7. PaTypeOK'
    BY <1>0, <1>A, <2>1, <2>2, <2>3, <2>5 DEF PaTypeOK, PaPageType, PaCreateType
  <2>8. PaNumbers' /\ PaLoading' /\ PaRefused' /\ PaOwed'
    <3>1. PaNumbers'
      <4>1. \A u \in 1..PaMaxSignIns : paOuts'[u] > 0 => u <= paSignIns
        BY <1>0, <2>4, <2>5 DEF PaNumbers
      <4>2. \A j \in 1..Len(paCreates') : paCreates'[j].by <= paSignIns
        BY <1>0, <2>2 DEF PaNumbers
      <4>3. QED
        BY <1>0, <2>1, <4>1, <4>2 DEF PaNumbers
    <3>2. PaLoading'
      BY <2>1, <2>3 DEF PaLoading
    <3>3. PaRefused'
      BY <1>0, <2>1, <2>2 DEF PaRefused
    <3>5. PaOwed'
      BY <1>0, <2>1, <2>4, <2>5 DEF PaOwed
    <3>4. QED
      BY <3>1, <3>2, <3>3, <3>5
  <2>9. PaStaysOut' /\ PaStayed
    BY <1>0, <1>A, <2>1 DEF PaStaysOut, PaStayed
  <2>10. QED
    BY <2>7, <2>8, <2>9 DEF PaInv
<1>11. CASE PaGoHome
  <2>1. /\ paPage' \in PaPageType /\ paPage'.user = paPage.user /\ paPage'.ready = paPage.ready
        /\ paCookie' = paCookie /\ paLoad' = paLoad /\ paMe' = paMe /\ paAsking' = paAsking /\ paOuts' = paOuts /\ paAsked' = paAsked
        /\ paCreates' = paCreates /\ paSignIns' = paSignIns /\ paOut' = paOut /\ paFailed' = paFailed
    BY <1>A, <1>11 DEF PaGoHome, PaPageType
  <2>7. PaTypeOK'
    BY <1>0, <1>A, <2>1 DEF PaTypeOK, PaPageType, PaCreateType
  <2>8. PaNumbers' /\ PaLoading' /\ PaRefused' /\ PaOwed'
    BY <1>0, <1>A, <2>1 DEF PaNumbers, PaLoading, PaRefused, PaOwed
  <2>9. PaStaysOut' /\ PaStayed
    BY <1>0, <1>A, <2>1 DEF PaNumbers, PaLoading, PaRefused, PaStaysOut, PaStayed
  <2>10. QED
    BY <2>7, <2>8, <2>9 DEF PaInv
<1>12. CASE PaExpire
  <2>1. /\ paCookie' = 0
        /\ paLoad' = paLoad /\ paMe' = paMe /\ paPage' = paPage /\ paAsking' = paAsking /\ paOuts' = paOuts /\ paAsked' = paAsked
        /\ paCreates' = paCreates /\ paSignIns' = paSignIns /\ paOut' = paOut /\ paFailed' = paFailed
    BY <1>A, <1>12 DEF PaExpire
  <2>7. PaTypeOK'
    BY <1>0, <1>A, <2>1 DEF PaTypeOK, PaPageType, PaCreateType
  <2>8. PaNumbers' /\ PaLoading' /\ PaRefused' /\ PaOwed'
    BY <1>0, <1>A, <2>1 DEF PaNumbers, PaLoading, PaRefused, PaOwed
  <2>9. PaStaysOut' /\ PaStayed
    BY <1>0, <1>A, <2>1 DEF PaNumbers, PaLoading, PaRefused, PaStaysOut, PaStayed
  <2>10. QED
    BY <2>7, <2>8, <2>9 DEF PaInv
<1>13. CASE UNCHANGED paVars
  BY <1>0, <1>13 DEF paVars, PaInv, PaTypeOK, PaNumbers, PaLoading, PaRefused, PaOwed, PaStaysOut
<1>14. QED
  BY <1>1, <1>2, <1>3, <1>4, <1>5, <1>6, <1>7, <1>8, <1>9, <1>10, <1>11, <1>12, <1>13 DEF PaNext

LEMMA PaHolds == PaSpec => []PaTypeOK /\ ([]PaStaysOut /\ PaStaysIn)
<1>1. PaInv => PaTypeOK /\ PaStaysOut
  BY DEF PaInv
<1>2. PaSpec => []PaTypeOK /\ []PaStaysOut /\ [][PaStayed]_paVars
  BY PaInitially, PaStep, <1>1, PTL DEF PaSpec
<1>3. QED
  BY <1>2, PTL DEF PaStaysIn, PaStayed

----
(* Preferences.                                                             *)

PfStores == [works : BOOLEAN, theme : Themes \cup {PfNothing}, lang : Langs \cup {PfNothing}]

\* A preference has two values: a toggle has one to go to.
LEMMA PfOther ==
    /\ \A x \in Themes : (CHOOSE t \in Themes : t # x) \in Themes
    /\ \A x \in Langs : (CHOOSE l \in Langs : l # x) \in Langs
<1>1. /\ \A x \in Themes : \E t \in Themes : t # x
      /\ \A x \in Langs : \E l \in Langs : l # x
  BY DEF Themes, Langs
<1>2. QED
  BY <1>1

\* A stored value is found again; the other preference is not touched.
LEMMA PfSaved ==
    ASSUME NEW s \in PfStores
    PROVE  /\ PfStoredTheme(s) \in Themes /\ PfStoredLang(s) \in Langs
           /\ \A t \in Themes :
                 /\ [s EXCEPT !.theme = t] \in PfStores
                 /\ [s EXCEPT !.theme = t].works = s.works
                 /\ PfStoredLang([s EXCEPT !.theme = t]) = PfStoredLang(s)
                 /\ s.works => PfStoredTheme([s EXCEPT !.theme = t]) = t
           /\ \A l \in Langs :
                 /\ [s EXCEPT !.lang = l] \in PfStores
                 /\ [s EXCEPT !.lang = l].works = s.works
                 /\ PfStoredTheme([s EXCEPT !.lang = l]) = PfStoredTheme(s)
                 /\ s.works => PfStoredLang([s EXCEPT !.lang = l]) = l
<1>1. s.works \in BOOLEAN /\ s.theme \in Themes \cup {PfNothing} /\ s.lang \in Langs \cup {PfNothing}
  BY DEF PfStores
<1>2. PfNothing \notin Themes /\ PfNothing \notin Langs /\ "dark" \in Themes /\ "ru" \in Langs
  BY PfAssumption DEF Themes, Langs
<1>3. PfStoredTheme(s) \in Themes /\ PfStoredLang(s) \in Langs
  BY <1>1, <1>2 DEF PfStoredTheme, PfStoredLang
<1>4. ASSUME NEW t \in Themes
      PROVE  /\ [s EXCEPT !.theme = t] \in PfStores
             /\ [s EXCEPT !.theme = t].works = s.works
             /\ PfStoredLang([s EXCEPT !.theme = t]) = PfStoredLang(s)
             /\ s.works => PfStoredTheme([s EXCEPT !.theme = t]) = t
  <2> DEFINE n == [s EXCEPT !.theme = t]
  <2>1. n \in PfStores /\ n.works = s.works /\ n.theme = t /\ n.lang = s.lang
    BY DEF PfStores
  <2> HIDE DEF n
  <2>2. PfStoredLang(n) = PfStoredLang(s) /\ (s.works => PfStoredTheme(n) = t)
    BY <1>2, <2>1 DEF PfStoredTheme, PfStoredLang
  <2>3. QED
    BY <2>1, <2>2 DEF n
<1>5. ASSUME NEW l \in Langs
      PROVE  /\ [s EXCEPT !.lang = l] \in PfStores
             /\ [s EXCEPT !.lang = l].works = s.works
             /\ PfStoredTheme([s EXCEPT !.lang = l]) = PfStoredTheme(s)
             /\ s.works => PfStoredLang([s EXCEPT !.lang = l]) = l
  <2> DEFINE n == [s EXCEPT !.lang = l]
  <2>1. n \in PfStores /\ n.works = s.works /\ n.theme = s.theme /\ n.lang = l
    BY DEF PfStores
  <2> HIDE DEF n
  <2>2. PfStoredTheme(n) = PfStoredTheme(s) /\ (s.works => PfStoredLang(n) = l)
    BY <1>2, <2>1 DEF PfStoredTheme, PfStoredLang
  <2>3. QED
    BY <2>1, <2>2 DEF n
<1>6. QED
  BY <1>3, <1>4, <1>5

\* A storage that has not failed works.
PfInv == PfTypeOK /\ (pfBroken = FALSE => pfStore.works = TRUE) /\ PfAgrees

LEMMA PfInitially == PfInit => PfInv
<1> SUFFICES ASSUME PfInit PROVE PfInv
  OBVIOUS
<1>1. pfStore \in PfStores /\ pfStore.theme = PfNothing /\ pfStore.lang = PfNothing
      /\ pfStore.works \in BOOLEAN
  BY DEF PfInit, PfStores
<1>2. PfStoredTheme(pfStore) = "dark" /\ PfStoredLang(pfStore) = "ru"
  BY <1>1 DEF PfStoredTheme, PfStoredLang
<1>3. pfBroken \in BOOLEAN /\ (pfBroken = FALSE => pfStore.works = TRUE)
  BY <1>1 DEF PfInit
<1>4. PfTypeOK
  BY <1>1, <1>3 DEF PfInit, PfTypeOK, PfStores, Themes, Langs
<1>5. PfAgrees
  BY <1>2 DEF PfInit, PfAgrees
<1>6. QED
  BY <1>3, <1>4, <1>5 DEF PfInv

LEMMA PfStep == PfInv /\ [PfNext]_pfVars => PfInv'
<1> SUFFICES ASSUME PfInv, [PfNext]_pfVars PROVE PfInv'
  OBVIOUS
<1>1. /\ pfStore \in PfStores /\ pfTheme \in Themes /\ pfToggle \in Themes
      /\ pfLang \in [provider : Langs, outside : Langs, document : Langs] /\ pfBroken \in BOOLEAN
      /\ pfBroken = FALSE => pfStore.works = TRUE
      /\ pfLang.provider = pfLang.outside /\ pfLang.outside = pfLang.document
      /\ pfBroken = FALSE => /\ pfToggle = pfTheme /\ PfStoredTheme(pfStore) = pfTheme
                             /\ PfStoredLang(pfStore) = pfLang.provider
  BY DEF PfInv, PfTypeOK, PfAgrees, PfStores
<1>2. SUFFICES
        /\ pfStore' \in PfStores /\ pfTheme' \in Themes /\ pfToggle' \in Themes
        /\ pfLang' \in [provider : Langs, outside : Langs, document : Langs] /\ pfBroken' \in BOOLEAN
        /\ pfBroken' = FALSE => pfStore'.works = TRUE
        /\ pfLang'.provider = pfLang'.outside /\ pfLang'.outside = pfLang'.document
        /\ pfBroken' = FALSE => /\ pfToggle' = pfTheme' /\ PfStoredTheme(pfStore') = pfTheme'
                                /\ PfStoredLang(pfStore') = pfLang'.provider
  BY DEF PfInv, PfTypeOK, PfAgrees, PfStores, PfStoredTheme, PfStoredLang
<1>3. pfStore.works \in BOOLEAN
  BY <1>1 DEF PfStores
<1>4. ASSUME NEW l \in Langs
      PROVE  /\ PfLang(l) \in [provider : Langs, outside : Langs, document : Langs]
             /\ PfLang(l).provider = l /\ PfLang(l).outside = l /\ PfLang(l).document = l
  BY DEF PfLang
<1>5. CASE PfLoad
  <2>1. PfStoredTheme(pfStore) \in Themes /\ PfStoredLang(pfStore) \in Langs
    BY <1>1, PfSaved
  <2>2. /\ pfTheme' = PfStoredTheme(pfStore) /\ pfToggle' = PfStoredTheme(pfStore)
        /\ pfLang' = PfLang(PfStoredLang(pfStore)) /\ pfBroken' = ~pfStore.works
        /\ pfStore' = IF pfStore.works THEN [pfStore EXCEPT !.theme = PfStoredTheme(pfStore)]
                      ELSE pfStore
    BY <1>5 DEF PfLoad, PfApply
  <2>3. CASE pfStore.works = TRUE
    BY <1>1, <1>4, <2>1, <2>2, <2>3, PfSaved
  <2>4. CASE pfStore.works = FALSE
    BY <1>1, <1>4, <2>1, <2>2, <2>4
  <2>5. QED
    BY <1>3, <2>3, <2>4
<1>6. CASE PfMount
  BY <1>1, <1>6, PfSaved DEF PfMount
<1>7. CASE PfToggleTheme
  <2>1. PICK next \in Themes :
          /\ pfToggle' = next /\ pfTheme' = next /\ pfLang' = pfLang /\ pfBroken' = pfBroken
          /\ pfStore' = IF pfStore.works THEN [pfStore EXCEPT !.theme = next] ELSE pfStore
    BY <1>1, <1>7, PfOther DEF PfToggleTheme, PfApply
  <2>2. CASE pfStore.works = TRUE
    BY <1>1, <2>1, <2>2, PfSaved
  <2>3. CASE pfStore.works = FALSE
    BY <1>1, <2>1, <2>3
  <2>4. QED
    BY <1>3, <2>2, <2>3
<1>8. CASE PfToggleLang
  <2>1. PICK next \in Langs :
          /\ pfLang' = PfLang(next)
          /\ pfTheme' = pfTheme /\ pfToggle' = pfToggle /\ pfBroken' = pfBroken
          /\ pfStore' = IF pfStore.works THEN [pfStore EXCEPT !.lang = next] ELSE pfStore
    <3>1. pfLang.provider \in Langs
      BY <1>1
    <3> DEFINE w == CHOOSE l \in Langs : l # pfLang.provider
    <3>2. w \in Langs
      BY <3>1, PfOther
    <3>3. /\ pfLang' = PfLang(w)
          /\ pfTheme' = pfTheme /\ pfToggle' = pfToggle /\ pfBroken' = pfBroken
          /\ pfStore' = IF pfStore.works THEN [pfStore EXCEPT !.lang = w] ELSE pfStore
      BY <1>8 DEF PfToggleLang
    <3> HIDE DEF w
    <3>4. QED
      BY <3>2, <3>3
  <2>2. CASE pfStore.works = TRUE
    BY <1>1, <1>4, <2>1, <2>2, PfSaved
  <2>3. CASE pfStore.works = FALSE
    BY <1>1, <1>4, <2>1, <2>3
  <2>4. QED
    BY <1>3, <2>2, <2>3
<1>9. CASE PfStorage
  <2>1. pfStore' \in PfStores
    BY <1>1, <1>9 DEF PfStorage, PfStores
  <2>2. QED
    BY <1>1, <1>9, <2>1 DEF PfStorage
<1>10. CASE UNCHANGED pfVars
  BY <1>1, <1>10 DEF pfVars
<1>11. QED
  BY <1>5, <1>6, <1>7, <1>8, <1>9, <1>10 DEF PfNext

LEMMA PfHolds == PfSpec => [](PfTypeOK /\ PfAgrees)
<1>1. PfInv => PfTypeOK /\ PfAgrees
  BY DEF PfInv
<1>2. QED
  BY <1>1, PfInitially, PfStep, PTL DEF PfSpec

----
(* The shell cache.                                                         *)

\* What is being stored is what the address is there for, or an error answered there.
ScPutsBlamed ==
    \A p \in scPuts : p.what \in ScWhole(p.at) \/ (p.at \in scErred /\ p.what = ScError)

ScInv == ScTypeOK /\ ScPutsBlamed /\ ScBlame /\ ScOffline

LEMMA ScInitially == ScInit => ScInv
<1> SUFFICES ASSUME ScInit PROVE ScInv
  OBVIOUS
<1>1. ScTypeOK
  BY ScAssumption DEF ScInit, ScTypeOK, Version, Content
<1>2. ScPutsBlamed /\ ScBlame /\ ScOffline
  BY DEF ScInit, ScPutsBlamed, ScBlame, ScOffline
<1>3. QED
  BY <1>1, <1>2 DEF ScInv

\* What the server answers is whole, or an error.
LEMMA ScServedWhole ==
    ScTypeOK => \A a \in Address : /\ ScServed(a) \in Content
                                   /\ ScServed(a) \in ScWhole(a) \/ ScServed(a) = ScError
  BY ScAssumption DEF ScServed, ScWhole, ScTypeOK, Content, Address

\* An answer keeps the invariant of what is being stored, and of what is stored already.
LEMMA ScAnswerKept ==
    ASSUME ScInv, NEW a \in Address, ScAnswered(a), UNCHANGED <<scDeployed, scNet, scCache, scStored>>
    PROVE  /\ scPuts' \in SUBSET [at : Address, what : Content] /\ scErred' \in SUBSET Address
           /\ ScPutsBlamed' /\ ScBlame' /\ ScOffline'
<1>0. ScTypeOK /\ ScPutsBlamed /\ ScBlame /\ ScOffline
  BY DEF ScInv
<1>1. scPuts' = scPuts \cup {[at |-> a, what |-> ScServed(a)]}
  BY DEF ScAnswered
<1>2. /\ scErred \subseteq scErred' /\ scErred' \subseteq scErred \cup {a}
      /\ ScServed(a) = ScError => a \in scErred'
  BY DEF ScAnswered
<1>3. ScServed(a) \in Content /\ (ScServed(a) \in ScWhole(a) \/ ScServed(a) = ScError)
  BY <1>0, ScServedWhole
<1>4. scPuts' \in SUBSET [at : Address, what : Content] /\ scErred' \in SUBSET Address
  BY <1>0, <1>1, <1>2, <1>3 DEF ScTypeOK
<1>5. ScPutsBlamed'
  <2>1. ASSUME NEW p \in scPuts' PROVE p.what \in ScWhole(p.at) \/ (p.at \in scErred' /\ p.what = ScError)
    <3>1. CASE p \in scPuts
      BY <1>0, <1>2, <3>1 DEF ScPutsBlamed
    <3>2. CASE p = [at |-> a, what |-> ScServed(a)]
      <4>1. p.at = a /\ p.what = ScServed(a)
        BY <3>2
      <4>2. ScServed(a) \in ScWhole(p.at) \/ (p.at \in scErred' /\ p.what = ScError)
        BY <1>2, <1>3, <4>1
      <4>3. QED
        BY <4>1, <4>2
    <3>3. QED
      BY <1>1, <2>1, <3>1, <3>2
  <2>2. QED
    BY <2>1 DEF ScPutsBlamed, ScWhole
<1>6. ScBlame' /\ ScOffline'
  BY <1>0, <1>2 DEF ScBlame, ScOffline, ScWhole
<1>7. QED
  BY <1>4, <1>5, <1>6

LEMMA ScStep == ScInv /\ [ScNext]_scVars => ScInv'
<1> SUFFICES ASSUME ScInv, [ScNext]_scVars PROVE ScInv'
  OBVIOUS
<1>0. ScTypeOK /\ ScPutsBlamed /\ ScBlame /\ ScOffline
  BY DEF ScInv
<1>1. CASE ScNavigate
  <2>1. /\ ScAnswered(ScHome) /\ ScHome \in Address
        /\ scShells' \in SUBSET Version
        /\ UNCHANGED <<scDeployed, scNet, scCache, scMissed, scStored>>
    BY <1>0, <1>1 DEF ScNavigate, ScTypeOK, Address
  <2>2. QED
    BY <1>0, <2>1, ScAnswerKept DEF ScInv, ScTypeOK
<1>2. CASE ScNavigateOffline
  BY <1>0, <1>2 DEF ScNavigateOffline, ScInv, ScTypeOK, ScPutsBlamed, ScBlame, ScOffline, ScWhole
<1>3. CASE ScMiss
  BY <1>0, <1>3 DEF ScMiss, ScInv, ScTypeOK, ScPutsBlamed, ScBlame, ScOffline, ScWhole
<1>4. CASE ScFetch
  <2>1. PICK v \in scMissed : ScAnswered(v) /\ scMissed' \in {scMissed, scMissed \ {v}}
    BY <1>4 DEF ScFetch
  <2>2. v \in Address /\ scMissed' \in SUBSET Version
    BY <1>0, <2>1 DEF ScTypeOK, Address
  <2>3. UNCHANGED <<scDeployed, scNet, scCache, scShells, scStored>>
    BY <1>4 DEF ScFetch
  <2>4. QED
    BY <1>0, <2>1, <2>2, <2>3, ScAnswerKept DEF ScInv, ScTypeOK
<1>5. CASE ScFetchFails
  BY <1>0, <1>5 DEF ScFetchFails, ScInv, ScTypeOK, ScPutsBlamed, ScBlame, ScOffline, ScWhole
<1>6. CASE ScPutLands
  <2>1. PICK p \in scPuts : /\ scCache' = [scCache EXCEPT ![p.at] = p.what]
                            /\ scPuts' = scPuts \ {p}
                            /\ scStored' = scStored \cup {p.at}
    BY <1>6 DEF ScPutLands
  <2>2. UNCHANGED <<scDeployed, scNet, scShells, scMissed, scErred>>
    BY <1>6 DEF ScPutLands
  <2>3. p.at \in Address /\ p.what \in Content
    BY <1>0 DEF ScTypeOK
  <2>4. p.what \in ScWhole(p.at) \/ (p.at \in scErred /\ p.what = ScError)
    BY <1>0 DEF ScPutsBlamed
  <2>5. scCache'[p.at] = p.what /\ \A a \in Address : a # p.at => scCache'[a] = scCache[a]
    BY <1>0, <2>1, <2>3 DEF ScTypeOK
  <2>6. ScTypeOK'
    BY <1>0, <2>1, <2>2, <2>3 DEF ScTypeOK
  <2>7. ScPutsBlamed'
    BY <1>0, <2>1, <2>2 DEF ScPutsBlamed, ScWhole
  <2>8. ScBlame'
    BY <1>0, <2>2, <2>4, <2>5 DEF ScBlame, ScWhole
  <2>9. ScOffline'
    BY <1>0, <2>1, <2>2, <2>4, <2>5 DEF ScOffline, ScWhole, ScTypeOK
  <2>10. QED
    BY <2>6, <2>7, <2>8, <2>9 DEF ScInv
<1>7. CASE ScPutFails
  BY <1>0, <1>7 DEF ScPutFails, ScInv, ScTypeOK, ScPutsBlamed, ScBlame, ScOffline, ScWhole
<1>8. CASE ScDeploy
  BY <1>0, <1>8 DEF ScDeploy, ScInv, ScTypeOK, ScPutsBlamed, ScBlame, ScOffline, ScWhole
<1>9. CASE ScNetwork
  BY <1>0, <1>9 DEF ScNetwork, ScInv, ScTypeOK, ScPutsBlamed, ScBlame, ScOffline, ScWhole
<1>10. CASE UNCHANGED scVars
  BY <1>0, <1>10 DEF scVars, ScInv, ScTypeOK, ScPutsBlamed, ScBlame, ScOffline, ScWhole
<1>11. QED
  BY <1>1, <1>2, <1>3, <1>4, <1>5, <1>6, <1>7, <1>8, <1>9, <1>10 DEF ScNext

LEMMA ScHolds == ScSpec => []ScTypeOK /\ [](ScOffline /\ ScBlame)
<1>1. ScInv => ScTypeOK /\ ScOffline /\ ScBlame
  BY DEF ScInv
<1>2. QED
  BY ScInitially, ScStep, <1>1, PTL DEF ScSpec

----
(* The control bar.                                                         *)

\* One side panel at a time, and the host's dialogs on the host's page alone.
CcInv ==
    /\ CcTypeOK
    /\ CcOnePanel
    /\ {"board", "recognise"} \cap ccOpen # {} => ccPage.host

LEMMA CcOffers == CcInv => CcAllOffered
  BY DEF CcInv, CcTypeOK, CcAllOffered, CcOffered, CcDock, CcCorner, CcMenu, Panels, Dialogs

\* Opening one panel closes the others.
LEMMA CcToggles ==
    ASSUME CcInv, NEW p \in Panels
    PROVE  /\ CcToggled(p) \in SUBSET (Panels \cup Dialogs)
           /\ \A x, y \in Panels \cap CcToggled(p) : x = y
           /\ \A x \in {"board", "recognise"} : x \in CcToggled(p) => x \in ccOpen
  BY DEF CcInv, CcTypeOK, CcOnePanel, CcToggled, Panels, Dialogs

LEMMA CcStep == CcInv /\ [CcNext]_ccVars => CcInv'
<1> SUFFICES ASSUME CcInv, [CcNext]_ccVars PROVE CcInv'
  OBVIOUS
<1>1. /\ ccPage \in [host : BOOLEAN, mobile : BOOLEAN] /\ ccPopover \in Popovers \cup {"none"}
      /\ ccOpen \in SUBSET (Panels \cup Dialogs)
      /\ \A x, y \in Panels \cap ccOpen : x = y
      /\ {"board", "recognise"} \cap ccOpen # {} => ccPage.host
  BY DEF CcInv, CcTypeOK, CcOnePanel
<1>2. ASSUME NEW item \in CcMenu(TRUE, TRUE), CcChoose(item) PROVE CcInv'
  <2>1. ccPage' = ccPage /\ ccPopover' \in Popovers \cup {"none"}
    BY <1>2 DEF CcChoose, Popovers
  <2>2. CASE item \in Panels
    BY <1>1, <1>2, <2>1, <2>2, CcToggles DEF CcInv, CcTypeOK, CcOnePanel, CcChoose
  <2>3. CASE item \in Dialogs
    <3>1. ccOpen' = ccOpen \cup {item} /\ item \notin Panels
      BY <1>2, <2>3 DEF CcChoose, Panels, Dialogs
    <3>2. item \in {"board", "recognise"} => ccPage.host
      BY <1>1, <1>2, <2>3 DEF CcChoose, CcMenu, Panels, Dialogs
    <3>3. QED
      BY <1>1, <2>1, <2>3, <3>1, <3>2 DEF CcInv, CcTypeOK, CcOnePanel
  <2>4. CASE item \notin Panels \cup Dialogs
    BY <1>1, <1>2, <2>1, <2>4 DEF CcInv, CcTypeOK, CcOnePanel, CcChoose
  <2>5. QED
    BY <2>2, <2>3, <2>4
<1>3. ASSUME NEW item \in Panels \cup Dialogs, CcPress(item) PROVE CcInv'
  <2>1. ccPage' = ccPage /\ ccPopover' = ccPopover
    BY <1>3 DEF CcPress
  <2>2. CASE item \in Panels
    BY <1>1, <1>3, <2>1, <2>2, CcToggles DEF CcInv, CcTypeOK, CcOnePanel, CcPress
  <2>3. CASE item \in Dialogs
    <3>1. ccOpen' = ccOpen \cup {item} /\ item \notin Panels
      BY <1>3, <2>3 DEF CcPress, Panels, Dialogs
    <3>2. item = "backgrounds"
      BY <1>1, <1>3, <2>3 DEF CcPress, CcDock, CcCorner, Panels, Dialogs
    <3>3. QED
      BY <1>1, <2>1, <2>3, <3>1, <3>2 DEF CcInv, CcTypeOK, CcOnePanel
  <2>4. QED
    BY <2>2, <2>3
<1>4. ASSUME NEW item \in Panels \cup Dialogs, CcCloseOpen(item) PROVE CcInv'
  BY <1>1, <1>4 DEF CcInv, CcTypeOK, CcOnePanel, CcCloseOpen
<1>5. ASSUME NEW p \in Popovers, CcTrigger(p) PROVE CcInv'
  BY <1>1, <1>5 DEF CcInv, CcTypeOK, CcOnePanel, CcTrigger
<1>6. CASE CcClosePopover \/ UNCHANGED ccVars
  BY <1>1, <1>6 DEF CcInv, CcTypeOK, CcOnePanel, CcClosePopover, ccVars
<1>7. CASE CcResize
  <2>1. ccPage' \in [host : BOOLEAN, mobile : BOOLEAN] /\ ccPage'.host = ccPage.host
    BY <1>1, <1>7 DEF CcResize
  <2>2. QED
    BY <1>1, <1>7, <2>1 DEF CcInv, CcTypeOK, CcOnePanel, CcResize
<1>8. QED
  BY <1>2, <1>3, <1>4, <1>5, <1>6, <1>7 DEF CcNext

LEMMA CcHolds == CcSpec => [](CcTypeOK /\ CcAllOffered /\ CcOnePanel)
<1>1. CcInit => CcInv
  BY DEF CcInit, CcInv, CcTypeOK, CcOnePanel
<1>2. CcInv => CcTypeOK /\ CcAllOffered /\ CcOnePanel
  BY CcOffers DEF CcInv
<1>3. QED
  BY <1>1, <1>2, CcStep, PTL DEF CcSpec

----
(* Chat.                                                                    *)

\* What a sequence holds, without repetition, and in which order, after one more
\* element, without its first, and followed by another.
LEMMA InAppended ==
    ASSUME NEW S, NEW s \in Seq(S), NEW e \in S
    PROVE  /\ Append(s, e) \in Seq(S)
           /\ ToSet(Append(s, e)) = ToSet(s) \cup {e}
           /\ IsInjective(s) /\ e \notin ToSet(s) => IsInjective(Append(s, e))
           /\ \A x, y : ChInOrder(Append(s, e), x, y)
                           <=> (ChInOrder(s, x, y) \/ (x \in ToSet(s) /\ y = e))
<1> DEFINE t == Append(s, e)
<1>1. /\ t \in Seq(S) /\ Len(s) \in Nat /\ Len(t) = Len(s) + 1
      /\ DOMAIN s = 1..Len(s) /\ DOMAIN t = 1..Len(s) + 1
      /\ \A i \in 1..Len(s) : t[i] = s[i]
      /\ t[Len(s) + 1] = e
  OBVIOUS
<1>2. \A i \in DOMAIN t : i \in DOMAIN s \/ i = Len(s) + 1
  BY <1>1
<1> HIDE DEF t
<1>3. ToSet(t) = ToSet(s) \cup {e}
  BY <1>1, <1>2 DEF ToSet
<1>4. IsInjective(s) /\ e \notin ToSet(s) => IsInjective(t)
  BY <1>1, <1>2 DEF ToSet, IsInjective
<1>5. ASSUME NEW x, NEW y
      PROVE  ChInOrder(t, x, y) <=> (ChInOrder(s, x, y) \/ (x \in ToSet(s) /\ y = e))
  <2>1. ASSUME ChInOrder(t, x, y) PROVE ChInOrder(s, x, y) \/ (x \in ToSet(s) /\ y = e)
    <3>1. PICK i, j \in DOMAIN t : i < j /\ t[i] = x /\ t[j] = y
      BY <2>1 DEF ChInOrder
    <3>2. i \in DOMAIN s /\ s[i] = x
      BY <1>1, <3>1
    <3>3. CASE j \in DOMAIN s
      BY <1>1, <3>1, <3>2, <3>3 DEF ChInOrder
    <3>4. CASE j = Len(s) + 1
      BY <1>1, <3>1, <3>2, <3>4 DEF ToSet
    <3>5. QED
      BY <1>2, <3>3, <3>4
  <2>2. ASSUME ChInOrder(s, x, y) PROVE ChInOrder(t, x, y)
    BY <1>1, <2>2 DEF ChInOrder
  <2>3. ASSUME x \in ToSet(s), y = e PROVE ChInOrder(t, x, y)
    <3>1. PICK i \in DOMAIN s : s[i] = x
      BY <2>3 DEF ToSet
    <3>2. i \in DOMAIN t /\ Len(s) + 1 \in DOMAIN t /\ i < Len(s) + 1 /\ t[i] = x
      BY <1>1, <3>1
    <3>3. QED
      BY <1>1, <2>3, <3>2 DEF ChInOrder
  <2>4. QED
    BY <2>1, <2>2, <2>3
<1>6. QED
  BY <1>1, <1>3, <1>4, <1>5 DEF t

LEMMA InTail ==
    ASSUME NEW S, NEW s \in Seq(S), s # <<>>
    PROVE  /\ Head(s) \in S /\ Tail(s) \in Seq(S)
           /\ ToSet(s) = ToSet(Tail(s)) \cup {Head(s)}
           /\ IsInjective(s) => IsInjective(Tail(s)) /\ Head(s) \notin ToSet(Tail(s))
           /\ \A x, y : ChInOrder(s, x, y)
                           <=> (ChInOrder(Tail(s), x, y) \/ (x = Head(s) /\ y \in ToSet(Tail(s))))
<1> DEFINE t == Tail(s)
           h == Head(s)
<1>1. /\ t \in Seq(S) /\ h \in S /\ Len(s) \in Nat \ {0} /\ Len(t) = Len(s) - 1
      /\ DOMAIN s = 1..Len(s) /\ DOMAIN t = 1..Len(s) - 1
      /\ \A i \in DOMAIN t : t[i] = s[i + 1]
      /\ s[1] = h
  OBVIOUS
<1>2. /\ \A i \in DOMAIN s : i = 1 \/ (i - 1 \in DOMAIN t /\ s[i] = t[i - 1])
      /\ \A i \in DOMAIN t : i + 1 \in DOMAIN s
      /\ 1 \in DOMAIN s
  <2>1. ASSUME NEW i \in DOMAIN s, i # 1 PROVE i - 1 \in DOMAIN t /\ s[i] = t[i - 1]
    <3>1. i - 1 \in DOMAIN t /\ (i - 1) + 1 = i
      BY <1>1, <2>1
    <3>2. QED
      BY <1>1, <3>1
  <2>2. QED
    BY <1>1, <2>1
<1> HIDE DEF t, h
<1>3. ToSet(s) = ToSet(t) \cup {h}
  BY <1>1, <1>2 DEF ToSet
<1>4. IsInjective(s) => IsInjective(t) /\ h \notin ToSet(t)
  <2>1. SUFFICES ASSUME IsInjective(s) PROVE IsInjective(t) /\ h \notin ToSet(t)
    OBVIOUS
  <2>2. ASSUME NEW i \in DOMAIN t, NEW j \in DOMAIN t, t[i] = t[j] PROVE i = j
    <3>1. i + 1 = j + 1
      BY <1>1, <1>2, <2>1, <2>2 DEF IsInjective
    <3>2. QED
      BY <1>1, <3>1
  <2>3. ASSUME NEW i \in DOMAIN t, t[i] = h PROVE FALSE
    <3>1. i + 1 = 1
      BY <1>1, <1>2, <2>1, <2>3 DEF IsInjective
    <3>2. QED
      BY <1>1, <3>1
  <2>4. QED
    BY <2>2, <2>3 DEF IsInjective, ToSet
<1>5. ASSUME NEW x, NEW y
      PROVE  ChInOrder(s, x, y) <=> (ChInOrder(t, x, y) \/ (x = h /\ y \in ToSet(t)))
  <2>1. ASSUME ChInOrder(s, x, y) PROVE ChInOrder(t, x, y) \/ (x = h /\ y \in ToSet(t))
    <3>1. PICK i, j \in DOMAIN s : i < j /\ s[i] = x /\ s[j] = y
      BY <2>1 DEF ChInOrder
    <3>2. j - 1 \in DOMAIN t /\ t[j - 1] = y
      BY <1>1, <1>2, <3>1
    <3>3. CASE i = 1
      BY <1>1, <3>1, <3>2, <3>3 DEF ToSet
    <3>4. CASE i - 1 \in DOMAIN t /\ s[i] = t[i - 1]
      <4>1. i - 1 < j - 1
        BY <1>1, <3>1
      <4>2. QED
        BY <3>1, <3>2, <3>4, <4>1 DEF ChInOrder
    <3>5. QED
      BY <1>2, <3>3, <3>4
  <2>2. ASSUME ChInOrder(t, x, y) PROVE ChInOrder(s, x, y)
    <3>1. PICK i, j \in DOMAIN t : i < j /\ t[i] = x /\ t[j] = y
      BY <2>2 DEF ChInOrder
    <3>2. i + 1 < j + 1 /\ s[i + 1] = x /\ s[j + 1] = y
      BY <1>1, <3>1
    <3>3. QED
      BY <1>2, <3>2 DEF ChInOrder
  <2>3. ASSUME x = h, y \in ToSet(t) PROVE ChInOrder(s, x, y)
    <3>1. PICK i \in DOMAIN t : t[i] = y
      BY <2>3 DEF ToSet
    <3>2. 1 < i + 1 /\ s[i + 1] = y
      BY <1>1, <3>1
    <3>3. QED
      BY <1>1, <1>2, <2>3, <3>2 DEF ChInOrder
  <2>4. QED
    BY <2>1, <2>2, <2>3
<1>6. QED
  BY <1>1, <1>3, <1>4, <1>5 DEF t, h

LEMMA InBoth ==
    ASSUME NEW S, NEW s \in Seq(S), NEW t \in Seq(S)
    PROVE  /\ ToSet(s \o t) = ToSet(s) \cup ToSet(t)
           /\ IsInjective(s) /\ IsInjective(t) /\ ToSet(s) \cap ToSet(t) = {} => IsInjective(s \o t)
           /\ \A x, y : ChInOrder(s \o t, x, y) =>
                 \/ ChInOrder(s, x, y)
                 \/ ChInOrder(t, x, y)
                 \/ x \in ToSet(s) /\ y \in ToSet(t)
<1> DEFINE r == s \o t
<1>1. /\ Len(s) \in Nat /\ Len(t) \in Nat /\ Len(r) = Len(s) + Len(t)
      /\ DOMAIN s = 1..Len(s) /\ DOMAIN t = 1..Len(t) /\ DOMAIN r = 1..Len(s) + Len(t)
      /\ \A i \in DOMAIN r : r[i] = IF i <= Len(s) THEN s[i] ELSE t[i - Len(s)]
  BY ConcatProperties
<1> HIDE DEF r
<1>2. \A i \in DOMAIN r :
         \/ i \in DOMAIN s /\ r[i] = s[i]
         \/ i > Len(s) /\ i - Len(s) \in DOMAIN t /\ r[i] = t[i - Len(s)]
  BY <1>1
<1>3. ToSet(r) = ToSet(s) \cup ToSet(t)
  <2>1. \A i \in DOMAIN s : i \in DOMAIN r /\ r[i] = s[i]
    BY <1>1
  <2>2. \A i \in DOMAIN t : i + Len(s) \in DOMAIN r /\ r[i + Len(s)] = t[i]
    <3>1. SUFFICES ASSUME NEW i \in DOMAIN t
                   PROVE  i + Len(s) \in DOMAIN r /\ r[i + Len(s)] = t[i]
      OBVIOUS
    <3>2. /\ i + Len(s) \in DOMAIN r /\ ~(i + Len(s) <= Len(s))
          /\ (i + Len(s)) - Len(s) = i
      BY <1>1
    <3>3. QED
      BY <1>1, <3>2
  <2>3. QED
    BY <1>2, <2>1, <2>2 DEF ToSet
<1>4. ASSUME IsInjective(s), IsInjective(t), ToSet(s) \cap ToSet(t) = {} PROVE IsInjective(r)
  <2>1. SUFFICES ASSUME NEW i \in DOMAIN r, NEW j \in DOMAIN r, r[i] = r[j] PROVE i = j
    BY DEF IsInjective
  <2>2. i \in Nat /\ j \in Nat
    BY <1>1
  <2>3. (i \in DOMAIN s /\ r[i] = s[i]) \/ (i - Len(s) \in DOMAIN t /\ r[i] = t[i - Len(s)])
    BY <1>2
  <2>4. (j \in DOMAIN s /\ r[j] = s[j]) \/ (j - Len(s) \in DOMAIN t /\ r[j] = t[j - Len(s)])
    BY <1>2
  <2>5. (i \in DOMAIN s /\ j \in DOMAIN s /\ s[i] = s[j])
        \/ (i - Len(s) \in DOMAIN t /\ j - Len(s) \in DOMAIN t /\ t[i - Len(s)] = t[j - Len(s)])
    BY <1>4, <2>1, <2>3, <2>4 DEF ToSet
  <2>6. i = j \/ i - Len(s) = j - Len(s)
    BY <1>4, <2>5 DEF IsInjective
  <2>7. QED
    BY <1>1, <2>2, <2>6
<1>5. ASSUME NEW x, NEW y, ChInOrder(r, x, y)
      PROVE  ChInOrder(s, x, y) \/ ChInOrder(t, x, y) \/ (x \in ToSet(s) /\ y \in ToSet(t))
  <2>1. PICK i, j \in DOMAIN r : i < j /\ r[i] = x /\ r[j] = y
    BY <1>5 DEF ChInOrder
  <2>2. i \in Nat /\ j \in Nat
    BY <1>1
  <2>3. CASE i \in DOMAIN s /\ j \in DOMAIN s
    BY <1>1, <2>1, <2>3 DEF ChInOrder
  <2>4. CASE i \in DOMAIN s /\ j - Len(s) \in DOMAIN t /\ r[j] = t[j - Len(s)]
    BY <1>1, <2>1, <2>4 DEF ToSet
  <2>5. CASE i > Len(s)
    <3>1. /\ i - Len(s) \in DOMAIN t /\ r[i] = t[i - Len(s)]
          /\ j - Len(s) \in DOMAIN t /\ r[j] = t[j - Len(s)]
          /\ i - Len(s) < j - Len(s)
      BY <1>1, <2>1, <2>2, <2>5
    <3>2. QED
      BY <2>1, <3>1 DEF ChInOrder
  <2>6. QED
    BY <1>1, <1>2, <2>1, <2>2, <2>3, <2>4, <2>5
<1>6. QED
  BY <1>3, <1>4, <1>5 DEF r

ChNow == 1..Len(chSent)
ChSentType == [from : ChUsers, kind : {"text", "image"}, state : {"preparing", "sending", "shared", "failed"}]

\* x is a text of v's; x comes before y on its way to u, or on u's page.
ChTextOf(v, x) == chSent[x].kind = "text" /\ chSent[x].from = v
ChArrive(u, x, y) ==
    \/ ChInOrder(chList[u], x, y)
    \/ ChInOrder(chWire[u], x, y)
    \/ x \in ToSet(chList[u]) /\ y \in ToSet(chWire[u])

\* Only what has been made is shown or on its way.
ChTypes ==
    /\ chSent \in Seq(ChSentType) /\ Len(chSent) <= ChMaxSent
    /\ chHere \in SUBSET ChUsers
    /\ chList \in [ChUsers -> Seq(ChNow)] /\ chWire \in [ChUsers -> Seq(ChNow)]
    /\ chStream \in SUBSET [id : ChNow, to : ChUsers]
    /\ chUrls \in [ChUsers -> SUBSET ChNow]

\* On the wire there are published texts of others, on a page published texts and what
\* others have published.
ChKinds ==
    \A u \in ChUsers :
        /\ \A x \in ToSet(chWire[u]) :
              chSent[x].kind = "text" /\ chSent[x].state = "shared" /\ chSent[x].from # u
        /\ \A x \in ToSet(chList[u]) :
              chSent[x].kind = "text" \/ chSent[x].from # u => chSent[x].state = "shared"

\* Nothing is shown or sent twice.
ChOnce ==
    \A u \in ChUsers :
        /\ IsInjective(chList[u]) /\ IsInjective(chWire[u])
        /\ ToSet(chList[u]) \cap ToSet(chWire[u]) = {}

\* An image being received is another's, and not shown yet.
ChImages ==
    \A s \in chStream :
        /\ chSent[s.id].kind = "image" /\ chSent[s.id].state = "shared" /\ chSent[s.id].from # s.to
        /\ s.id \notin ToSet(chList[s.to])

\* Who is there has, or will have, the texts of every other as that other shows them.
ChFaithful ==
    \A u \in chHere, v \in ChUsers : u # v =>
        /\ \A x \in ChNow : ChTextOf(v, x) =>
              (x \in ToSet(chList[u]) \cup ToSet(chWire[u]) <=> x \in ToSet(chList[v]))
        /\ \A x, y \in ChNow :
              ChTextOf(v, x) /\ ChTextOf(v, y) /\ ChArrive(u, x, y) => ChInOrder(chList[v], x, y)

ChInv == ChTypes /\ ChKinds /\ ChOnce /\ ChImages /\ ChReleased /\ ChFaithful

\* No page shows an image before it is prepared.
ChReady == \A u \in ChUsers : \A x \in ToSet(chList[u]) : chSent[x].state # "preparing"

LEMMA ChInitially == ChInit => ChInv
<1> SUFFICES ASSUME ChInit PROVE ChInv
  OBVIOUS
<1>1. /\ chSent = <<>> /\ chHere = ChUsers /\ chStream = {}
      /\ chList = [u \in ChUsers |-> <<>>] /\ chWire = [u \in ChUsers |-> <<>>]
      /\ chUrls = [u \in ChUsers |-> {}]
  BY DEF ChInit
<1>2. ToSet(<<>>) = {} /\ IsInjective(<<>>) /\ \A x, y : ~ChInOrder(<<>>, x, y)
  BY DEF ToSet, IsInjective, ChInOrder
<1>3. ChTypes
  <2>1. <<>> \in Seq(ChSentType) /\ Len(<<>>) = 0 /\ <<>> \in Seq(ChNow)
    OBVIOUS
  <2>2. QED
    BY <1>1, <2>1, ChAssumption DEF ChTypes
<1>4. ChKinds /\ ChOnce /\ ChReleased
  BY <1>1, <1>2 DEF ChKinds, ChOnce, ChReleased
<1>5. ChImages
  BY <1>1 DEF ChImages
<1>6. ChFaithful
  BY <1>1 DEF ChFaithful, ChNow
<1>7. QED
  BY <1>3, <1>4, <1>5, <1>6 DEF ChInv

\* What has been made stays what it is, and published if it was.
ChKept ==
    /\ chSent' \in Seq(ChSentType) /\ Len(chSent') \in Len(chSent)..ChMaxSent
    /\ \A x \in ChNow :
          /\ chSent'[x].from = chSent[x].from /\ chSent'[x].kind = chSent[x].kind
          /\ chSent[x].state = "shared" => chSent'[x].state = "shared"
          /\ chSent[x].state # "preparing" => chSent'[x].state # "preparing"

\* More may be made without a type changing.
LEMMA ChMore ==
    ASSUME ChTypes, ChKept
    PROVE  /\ ChNow \subseteq ChNow'
           /\ chList \in [ChUsers -> Seq(ChNow')] /\ chWire \in [ChUsers -> Seq(ChNow')]
           /\ chStream \in SUBSET [id : ChNow', to : ChUsers]
           /\ chUrls \in [ChUsers -> SUBSET ChNow']
           /\ \A u \in ChUsers : ToSet(chList[u]) \subseteq ChNow /\ ToSet(chWire[u]) \subseteq ChNow
<1>1. Len(chSent) \in Nat /\ Len(chSent') \in Nat /\ Len(chSent) <= Len(chSent')
  BY DEF ChTypes, ChKept
<1>2. ChNow \subseteq ChNow'
  BY <1>1 DEF ChNow
<1>3. ASSUME NEW S, NEW T, S \subseteq T, NEW s \in Seq(S) PROVE s \in Seq(T) /\ ToSet(s) \subseteq S
  <2>1. \A i \in DOMAIN s : s[i] \in S
    OBVIOUS
  <2>2. s \in Seq(T)
    BY <1>3
  <2>3. QED
    BY <2>1, <2>2 DEF ToSet
<1>4. \A u \in ChUsers : chList[u] \in Seq(ChNow) /\ chWire[u] \in Seq(ChNow)
  BY DEF ChTypes
<1>5. \A u \in ChUsers : /\ chList[u] \in Seq(ChNow') /\ chWire[u] \in Seq(ChNow')
                         /\ ToSet(chList[u]) \subseteq ChNow /\ ToSet(chWire[u]) \subseteq ChNow
  BY <1>2, <1>3, <1>4
<1>6. chList \in [ChUsers -> Seq(ChNow')] /\ chWire \in [ChUsers -> Seq(ChNow')]
  BY <1>5 DEF ChTypes
<1>7. chStream \in SUBSET [id : ChNow', to : ChUsers] /\ chUrls \in [ChUsers -> SUBSET ChNow']
  BY <1>2 DEF ChTypes
<1>8. QED
  BY <1>2, <1>5, <1>6, <1>7

LEMMA ChMadeKept ==
    ASSUME ChTypes, NEW u \in ChUsers, NEW kind \in {"text", "image"}, ChMake(u, kind)
    PROVE  /\ ChKept /\ u \in chHere
           /\ Len(chSent') \in ChNow' /\ Len(chSent') \notin ChNow
           /\ ChNow' = ChNow \cup {Len(chSent')}
           /\ chSent'[Len(chSent')].from = u /\ chSent'[Len(chSent')].kind = kind
<1> DEFINE new == [from |-> u, kind |-> kind,
                   state |-> IF kind = "image" THEN "preparing" ELSE "sending"]
<1>1. new \in ChSentType
  BY DEF ChSentType
<1>2. u \in chHere /\ Len(chSent) < ChMaxSent /\ chSent' = Append(chSent, new)
  BY DEF ChMake
<1> HIDE DEF new
<1>3. chSent \in Seq(ChSentType) /\ Len(chSent) \in Nat
  BY DEF ChTypes
<1>4. /\ chSent' \in Seq(ChSentType) /\ Len(chSent') = Len(chSent) + 1
      /\ chSent'[Len(chSent')] = new
      /\ \A x \in 1..Len(chSent) : chSent'[x] = chSent[x]
  BY <1>1, <1>2, <1>3
<1>5. ChKept
  BY <1>2, <1>3, <1>4, ChAssumption DEF ChKept, ChNow
<1>6. Len(chSent') \in ChNow' /\ Len(chSent') \notin ChNow /\ ChNow' = ChNow \cup {Len(chSent')}
  BY <1>3, <1>4 DEF ChNow
<1>7. QED
  BY <1>2, <1>4, <1>5, <1>6 DEF new

LEMMA ChChangedKept ==
    ASSUME ChTypes, NEW id, NEW kind \in {"text", "image"},
           NEW old \in {"preparing", "sending"}, ChIs(id, kind, old),
           NEW state \in {"sending", "shared", "failed"},
           chSent' = [chSent EXCEPT ![id].state = state]
    PROVE  /\ ChKept /\ id \in ChNow /\ ChNow' = ChNow
           /\ chSent[id].kind = kind /\ chSent[id].state = old /\ chSent[id].from \in ChUsers
           /\ chSent'[id].state = state
           /\ \A x \in ChNow : x # id => chSent'[x] = chSent[x]
<1>1. chSent \in Seq(ChSentType) /\ Len(chSent) \in Nat /\ Len(chSent) <= ChMaxSent
      /\ DOMAIN chSent = ChNow
  BY DEF ChTypes, ChNow
<1>2. id \in ChNow /\ chSent[id].kind = kind /\ chSent[id].state = old
  BY <1>1 DEF ChIs
<1> DEFINE new == [chSent[id] EXCEPT !.state = state]
<1>3. chSent[id] \in ChSentType
  BY <1>1, <1>2 DEF ChNow
<1>4. new \in ChSentType /\ new.from = chSent[id].from /\ new.kind = kind /\ new.state = state
      /\ chSent[id].from \in ChUsers
  BY <1>2, <1>3 DEF ChSentType
<1>5. chSent' = [chSent EXCEPT ![id] = new]
  BY <1>1, <1>2
<1> HIDE DEF new
<1>6. /\ chSent' \in Seq(ChSentType) /\ Len(chSent') = Len(chSent)
      /\ \A x \in ChNow : chSent'[x] = IF x = id THEN new ELSE chSent[x]
  BY <1>1, <1>2, <1>4, <1>5 DEF ChNow
<1>7. Len(chSent') \in Len(chSent)..ChMaxSent
  BY <1>1, <1>6, ChAssumption
<1>8. ChKept
  BY <1>2, <1>4, <1>6, <1>7 DEF ChKept
<1>9. ChNow' = ChNow
  BY <1>6 DEF ChNow
<1>10. QED
  BY <1>2, <1>4, <1>6, <1>8, <1>9

\* Pages, wires and URLs as they were.
ChRest == UNCHANGED <<chHere, chList, chWire, chUrls>>

LEMMA ChPagesAtRest ==
    ASSUME ChInv, ChKept, UNCHANGED <<chHere, chList, chWire>>,
           chUrls' \in [ChUsers -> SUBSET ChNow'],
           chStream' \in SUBSET [id : ChNow', to : ChUsers], ChImages', ChReleased'
    PROVE  ChInv'
<1>0. ChTypes /\ ChKinds /\ ChOnce /\ ChImages /\ ChReleased /\ ChFaithful
  BY DEF ChInv
<1>1. chHere' = chHere /\ chList' = chList /\ chWire' = chWire
  OBVIOUS
<1>2. Len(chSent') <= ChMaxSent
  BY <1>0 DEF ChKept, ChTypes
<1>3. ChTypes'
  BY <1>0, <1>1, <1>2, ChMore DEF ChTypes, ChKept
<1>4. ChKinds'
  <2>1. SUFFICES ASSUME NEW u \in ChUsers
        PROVE /\ \A x \in ToSet(chWire[u]) : /\ chSent'[x].kind = "text"
                                              /\ chSent'[x].state = "shared"
                                              /\ chSent'[x].from # u
              /\ \A x \in ToSet(chList[u]) :
                    chSent'[x].kind = "text" \/ chSent'[x].from # u => chSent'[x].state = "shared"
    BY <1>1 DEF ChKinds
  <2>2. ToSet(chList[u]) \subseteq ChNow /\ ToSet(chWire[u]) \subseteq ChNow
    BY <1>0, ChMore
  <2>3. QED
    BY <1>0, <2>2 DEF ChKinds, ChKept
<1>5. ChOnce'
  BY <1>0, <1>1 DEF ChOnce
<1>6. ChFaithful'
  <2>1. SUFFICES ASSUME NEW u \in chHere, NEW v \in ChUsers, u # v
        PROVE /\ \A x \in ChNow' : ChTextOf(v, x)' =>
                    (x \in ToSet(chList[u]) \cup ToSet(chWire[u]) <=> x \in ToSet(chList[v]))
              /\ \A x, y \in ChNow' :
                    ChTextOf(v, x)' /\ ChTextOf(v, y)' /\ ChArrive(u, x, y) => ChInOrder(chList[v], x, y)
    BY <1>1 DEF ChFaithful, ChArrive
  <2>2. u \in ChUsers
    BY <1>0 DEF ChTypes
  <2>3. /\ ToSet(chList[u]) \subseteq ChNow /\ ToSet(chWire[u]) \subseteq ChNow
        /\ ToSet(chList[v]) \subseteq ChNow
    BY <1>0, <2>2, ChMore
  <2>4. \A x \in ChNow : ChTextOf(v, x)' <=> ChTextOf(v, x)
    BY DEF ChKept, ChTextOf
  <2>5. \A x, y : ChArrive(u, x, y) => x \in ChNow /\ y \in ChNow
    BY <2>3 DEF ChArrive, ChInOrder, ToSet
  <2>6. QED
    BY <1>0, <2>1, <2>3, <2>4, <2>5 DEF ChFaithful
<1>7. QED
  BY <1>3, <1>4, <1>5, <1>6 DEF ChInv

LEMMA ChAtRest ==
    ASSUME ChInv, ChKept, ChRest, chStream' \in SUBSET [id : ChNow', to : ChUsers], ChImages'
    PROVE  ChInv'
<1>1. ChTypes /\ ChReleased
  BY DEF ChInv
<1>2. chUrls' \in [ChUsers -> SUBSET ChNow'] /\ ChReleased'
  BY <1>1, ChMore DEF ChRest, ChReleased
<1>3. QED
  BY <1>2, ChPagesAtRest DEF ChRest

LEMMA ChFewerStreams ==
    ASSUME ChInv, ChKept, ChRest, chStream' \subseteq chStream
    PROVE  ChInv'
<1>0. ChTypes /\ ChImages
  BY DEF ChInv
<1>1. chStream' \in SUBSET [id : ChNow', to : ChUsers]
  BY <1>0, ChMore
<1>2. ChImages'
  <2>1. \A s \in chStream' : s \in chStream /\ s.id \in ChNow
    BY <1>0 DEF ChTypes
  <2>2. QED
    BY <1>0, <2>1 DEF ChImages, ChKept, ChRest
<1>3. QED
  BY <1>1, <1>2, ChAtRest

LEMMA ChTextInStep == ASSUME ChInv, NEW u \in ChUsers, ChTextIn(u) PROVE ChInv'
<1>0. ChTypes /\ ChKinds /\ ChOnce /\ ChImages /\ ChReleased /\ ChFaithful
  BY DEF ChInv
<1> DEFINE h == Head(chWire[u])
<1>1. /\ u \in chHere /\ chWire[u] # <<>> /\ chWire' = [chWire EXCEPT ![u] = Tail(@)]
      /\ chList' = [chList EXCEPT ![u] = Append(@, h)]
      /\ chSent' = chSent /\ chHere' = chHere /\ chStream' = chStream /\ chUrls' = chUrls
      /\ ChNow' = ChNow
  BY DEF ChTextIn, ChShow, ChNow
<1>2. /\ chWire \in [ChUsers -> Seq(ChNow)] /\ chList \in [ChUsers -> Seq(ChNow)]
      /\ chWire' = [w \in ChUsers |-> IF w = u THEN Tail(chWire[u]) ELSE chWire[w]]
      /\ chList' = [w \in ChUsers |-> IF w = u THEN Append(chList[u], h) ELSE chList[w]]
  BY <1>0, <1>1 DEF ChTypes
<1>3. /\ chWire' \in [ChUsers -> Seq(ChNow)] /\ h \in ChNow
      /\ \A w \in ChUsers : w # u => chWire'[w] = chWire[w]
      /\ ToSet(chWire[u]) = ToSet(chWire'[u]) \cup {h}
      /\ IsInjective(chWire[u]) => IsInjective(chWire'[u]) /\ h \notin ToSet(chWire'[u])
      /\ \A x, y : ChInOrder(chWire[u], x, y)
                      <=> (ChInOrder(chWire'[u], x, y) \/ (x = h /\ y \in ToSet(chWire'[u])))
  <2> DEFINE s == chWire[u]
             t == chWire'[u]
  <2>1. s \in Seq(ChNow) /\ s # <<>> /\ t = Tail(s) /\ h = Head(s)
    BY <1>1, <1>2
  <2> HIDE DEF s, t, h
  <2>2. ToSet(s) = ToSet(t) \cup {h}
    BY <2>1, InTail
  <2>3. IsInjective(s) => IsInjective(t) /\ h \notin ToSet(t)
    BY <2>1, InTail
  <2>4. \A x, y : ChInOrder(s, x, y)
                    <=> (ChInOrder(t, x, y) \/ (x = h /\ y \in ToSet(t)))
    BY <2>1, InTail
  <2>5. h \in ChNow /\ t \in Seq(ChNow)
    BY <2>1, InTail
  <2>6. chWire' \in [ChUsers -> Seq(ChNow)] /\ \A w \in ChUsers : w # u => chWire'[w] = chWire[w]
    BY <2>5, <1>2, <2>1 DEF t, s
  <2>7. QED
    BY <2>2, <2>3, <2>4, <2>5, <2>6 DEF s, t
<1> HIDE DEF h
<1>4. /\ chList' \in [ChUsers -> Seq(ChNow)]
      /\ \A w \in ChUsers : w # u => chList'[w] = chList[w]
      /\ ToSet(chList'[u]) = ToSet(chList[u]) \cup {h}
      /\ IsInjective(chList[u]) /\ h \notin ToSet(chList[u]) => IsInjective(chList'[u])
      /\ \A x, y : ChInOrder(chList'[u], x, y)
                      <=> (ChInOrder(chList[u], x, y) \/ (x \in ToSet(chList[u]) /\ y = h))
  <2> DEFINE s == chList[u]
             t == chList'[u]
  <2>1. s \in Seq(ChNow) /\ t = Append(s, h) /\ h \in ChNow
    BY <1>1, <1>2, <1>3
  <2> HIDE DEF s, t
  <2>2. t \in Seq(ChNow) /\ ToSet(t) = ToSet(s) \cup {h}
    BY <2>1, InAppended
  <2>3. IsInjective(s) /\ h \notin ToSet(s) => IsInjective(t)
    BY <2>1, InAppended
  <2>4. \A x, y : ChInOrder(t, x, y) <=> (ChInOrder(s, x, y) \/ (x \in ToSet(s) /\ y = h))
    BY <2>1, InAppended
  <2>5. chList' \in [ChUsers -> Seq(ChNow)] /\ \A w \in ChUsers : w # u => chList'[w] = chList[w]
    BY <2>1, <2>2, <1>1, <1>2, <1>3 DEF s, t
  <2>6. QED
    BY <2>2, <2>3, <2>4, <2>5 DEF s, t
<1>5. h \in ToSet(chWire[u]) /\ h \notin ToSet(chList[u])
  BY <1>0, <1>3 DEF ChOnce
<1>6. chSent[h].kind = "text" /\ chSent[h].state = "shared" /\ chSent[h].from # u
  BY <1>0, <1>5 DEF ChKinds
<1>7. ChTypes'
  BY <1>0, <1>1, <1>3, <1>4 DEF ChTypes
<1>8. ChKinds'
  BY <1>0, <1>1, <1>3, <1>4, <1>6 DEF ChKinds
<1>9. ChOnce'
  BY <1>0, <1>3, <1>4, <1>5 DEF ChOnce
<1>10. ChImages'
  BY <1>0, <1>1, <1>4, <1>6 DEF ChImages, ChTypes
<1>11. ChReleased'
  BY <1>0, <1>1, <1>4 DEF ChReleased
<1>12. ChFaithful'
  <2>1. SUFFICES ASSUME NEW w \in chHere, NEW v \in ChUsers, w # v
        PROVE /\ \A x \in ChNow : ChTextOf(v, x) =>
                    (x \in ToSet(chList'[w]) \cup ToSet(chWire'[w]) <=> x \in ToSet(chList'[v]))
              /\ \A x, y \in ChNow :
                    ChTextOf(v, x) /\ ChTextOf(v, y) /\ ChArrive(w, x, y)' => ChInOrder(chList'[v], x, y)
    BY <1>1 DEF ChFaithful, ChTextOf
  <2>2. w \in ChUsers
    BY <1>0 DEF ChTypes
  <2>3. \A x \in ChNow : x \in ToSet(chList'[w]) \cup ToSet(chWire'[w])
                         <=> x \in ToSet(chList[w]) \cup ToSet(chWire[w])
    BY <1>3, <1>4, <2>2
  <2>4. \A x, y : ChArrive(w, x, y)' <=> ChArrive(w, x, y)
    <3>1. CASE w = u
      BY <1>3, <1>4, <3>1 DEF ChArrive
    <3>2. CASE w # u
      BY <1>3, <1>4, <2>2, <3>2 DEF ChArrive
    <3>3. QED
      BY <3>1, <3>2
  <2>5. \A x \in ChNow : ChTextOf(v, x) => (x \in ToSet(chList'[v]) <=> x \in ToSet(chList[v]))
    BY <1>4, <1>6 DEF ChTextOf
  <2>6. \A x, y : ChInOrder(chList[v], x, y) => ChInOrder(chList'[v], x, y)
    BY <1>4
  <2>7. QED
    BY <1>0, <2>1, <2>3, <2>4, <2>5, <2>6 DEF ChFaithful
<1>13. QED
  BY <1>7, <1>8, <1>9, <1>10, <1>11, <1>12 DEF ChInv

LEMMA ChPreparedHere ==
    ASSUME ChInv, ChReady, NEW n, ChPrepared(n), chSent[n].from \in chHere
    PROVE  ChInv'
<1>0. ChTypes /\ ChKinds /\ ChOnce /\ ChImages /\ ChReleased /\ ChFaithful /\ ChReady
  BY DEF ChInv
<1> DEFINE u == chSent[n].from
<1>1. /\ chList' = [chList EXCEPT ![u] = Append(@, n)]
      /\ chUrls' = [chUrls EXCEPT ![u] = @ \cup {n}]
      /\ chHere' = chHere /\ chStream' = chStream /\ chWire' = chWire
      /\ ChIs(n, "image", "preparing") /\ chSent' = [chSent EXCEPT ![n].state = "sending"]
  BY DEF ChPrepared, ChShow
<1>2. /\ ChKept /\ u \in chHere /\ n \in ChNow' /\ n \in ChNow /\ ChNow' = ChNow
      /\ chSent[n].kind = "image" /\ chSent[n].state = "preparing"
      /\ chSent'[n].from = u /\ chSent'[n].kind = "image" /\ u \in ChUsers
  <2>1. /\ ChKept /\ n \in ChNow /\ ChNow' = ChNow
        /\ chSent[n].kind = "image" /\ chSent[n].state = "preparing"
    BY <1>0, <1>1, ChChangedKept DEF ChSending
  <2>2. QED
    BY <1>0, <2>1 DEF ChKept, ChTypes
<1>a. \A w \in ChUsers : n \notin ToSet(chList[w]) /\ n \notin ToSet(chWire[w])
  BY <1>0, <1>2 DEF ChReady, ChKinds
<1>b. \A s \in chStream : s.id # n
  BY <1>0, <1>2 DEF ChImages
<1>3. /\ chList \in [ChUsers -> Seq(ChNow')] /\ chWire \in [ChUsers -> Seq(ChNow')]
      /\ chStream \in SUBSET [id : ChNow', to : ChUsers]
      /\ chUrls \in [ChUsers -> SUBSET ChNow']
      /\ \A w \in ChUsers : ToSet(chList[w]) \subseteq ChNow /\ ToSet(chWire[w]) \subseteq ChNow
  BY <1>0, <1>2, ChMore
<1> HIDE DEF u
<1>4. /\ chList' \in [ChUsers -> Seq(ChNow')]
      /\ \A w \in ChUsers : w # u => chList'[w] = chList[w]
      /\ ToSet(chList'[u]) = ToSet(chList[u]) \cup {n}
      /\ IsInjective(chList[u]) /\ n \notin ToSet(chList[u]) => IsInjective(chList'[u])
      /\ \A x, y : ChInOrder(chList'[u], x, y)
                      <=> (ChInOrder(chList[u], x, y) \/ (x \in ToSet(chList[u]) /\ y = n))
  <2> DEFINE s == chList[u]
             t == chList'[u]
  <2>1. s \in Seq(ChNow') /\ t = Append(s, n) /\ n \in ChNow'
    BY <1>1, <1>2, <1>3
  <2> HIDE DEF s, t
  <2>2. t \in Seq(ChNow') /\ ToSet(t) = ToSet(s) \cup {n}
    BY <2>1, InAppended
  <2>3. IsInjective(s) /\ n \notin ToSet(s) => IsInjective(t)
    BY <2>1, InAppended
  <2>4. \A x, y : ChInOrder(t, x, y) <=> (ChInOrder(s, x, y) \/ (x \in ToSet(s) /\ y = n))
    BY <2>1, InAppended
  <2>5. chList' \in [ChUsers -> Seq(ChNow')] /\ \A w \in ChUsers : w # u => chList'[w] = chList[w]
    BY <2>1, <2>2, <1>1, <1>2, <1>3 DEF s, t
  <2>6. QED
    BY <2>2, <2>3, <2>4, <2>5 DEF s, t
<1>5. \A x \in ChNow : /\ chSent'[x].from = chSent[x].from /\ chSent'[x].kind = chSent[x].kind
                       /\ chSent[x].state = "shared" => chSent'[x].state = "shared"
  BY <1>2 DEF ChKept
<1>6. ChTypes'
  <2>1. chSent' \in Seq(ChSentType) /\ Len(chSent') <= ChMaxSent
    BY <1>0, <1>2 DEF ChKept, ChTypes
  <2>2. chUrls' \in [ChUsers -> SUBSET ChNow']
    BY <1>1, <1>2, <1>3
  <2>3. QED
    BY <1>0, <1>1, <1>3, <1>4, <2>1, <2>2 DEF ChTypes
<1>7. ChKinds'
  <2>1. SUFFICES ASSUME NEW w \in ChUsers
        PROVE /\ \A x \in ToSet(chWire[w]) : /\ chSent'[x].kind = "text"
                                              /\ chSent'[x].state = "shared"
                                              /\ chSent'[x].from # w
              /\ \A x \in ToSet(chList'[w]) :
                    chSent'[x].kind = "text" \/ chSent'[x].from # w => chSent'[x].state = "shared"
    BY <1>1 DEF ChKinds
  <2>2. ToSet(chList'[w]) = ToSet(chList[w]) \/ (w = u /\ ToSet(chList'[w]) = ToSet(chList[w]) \cup {n})
    BY <1>4
  <2>3. \A x \in ToSet(chWire[w]) : /\ chSent'[x].kind = "text" /\ chSent'[x].state = "shared"
                                    /\ chSent'[x].from # w
    <3>1. \A x \in ToSet(chWire[w]) : /\ chSent[x].kind = "text" /\ chSent[x].state = "shared"
                                      /\ chSent[x].from # w
      BY <1>0 DEF ChKinds
    <3>2. \A x \in ToSet(chWire[w]) : x \in ChNow
      BY <1>3
    <3>3. QED
      BY <1>5, <3>1, <3>2
  <2>4. ASSUME NEW x \in ToSet(chList[w]), chSent'[x].kind = "text" \/ chSent'[x].from # w
        PROVE  chSent'[x].state = "shared"
    <3>1. x \in ChNow /\ (chSent[x].kind = "text" \/ chSent[x].from # w)
      BY <1>3, <1>5, <2>4
    <3>2. chSent[x].state = "shared"
      BY <1>0, <3>1 DEF ChKinds
    <3>3. QED
      BY <1>5, <3>1, <3>2
  <2>5. QED
    BY <1>2, <2>2, <2>3, <2>4
<1>8. ChOnce'
  BY <1>0, <1>1, <1>3, <1>4, <1>a DEF ChOnce
<1>9. ChImages'
  <2>1. SUFFICES ASSUME NEW s \in chStream
        PROVE /\ chSent'[s.id].kind = "image" /\ chSent'[s.id].state = "shared"
              /\ chSent'[s.id].from # s.to /\ s.id \notin ToSet(chList'[s.to])
    BY <1>1 DEF ChImages
  <2>2. s.id \in ChNow /\ s.to \in ChUsers
    BY <1>0 DEF ChTypes
  <2>3. s.id \notin ToSet(chList'[s.to])
    BY <1>0, <1>4, <1>b, <2>2 DEF ChImages
  <2>4. QED
    BY <1>0, <1>5, <2>2, <2>3 DEF ChImages
<1>10. ChReleased'
  BY <1>0, <1>1, <1>2, <1>3, <1>4 DEF ChReleased, ChTypes
<1>11. ChFaithful'
  <2>1. SUFFICES ASSUME NEW w \in chHere, NEW v \in ChUsers, w # v
        PROVE /\ \A x \in ChNow' : ChTextOf(v, x)' =>
                    (x \in ToSet(chList'[w]) \cup ToSet(chWire[w]) <=> x \in ToSet(chList'[v]))
              /\ \A x, y \in ChNow' :
                    ChTextOf(v, x)' /\ ChTextOf(v, y)' /\ ChArrive(w, x, y)' => ChInOrder(chList'[v], x, y)
    BY <1>1 DEF ChFaithful
  <2>2. w \in ChUsers
    BY <1>0 DEF ChTypes
  <2>3. \A x \in ChNow' : ChTextOf(v, x)' => x \in ChNow /\ x # n /\ ChTextOf(v, x)
    BY <1>2, <1>5 DEF ChTextOf
  <2>4. \A x : x # n => /\ x \in ToSet(chList'[w]) <=> x \in ToSet(chList[w])
                        /\ x \in ToSet(chList'[v]) <=> x \in ToSet(chList[v])
    BY <1>4, <2>2
  <2>5. \A x, y : y # n => (ChInOrder(chList'[w], x, y) <=> ChInOrder(chList[w], x, y))
    BY <1>4, <2>2
  <2>6. \A x, y : ChInOrder(chList[v], x, y) => ChInOrder(chList'[v], x, y)
    BY <1>4
  <2>7. \A x, y : x # n /\ y # n /\ ChArrive(w, x, y)' => ChArrive(w, x, y)
    BY <1>1, <2>4, <2>5 DEF ChArrive
  <2>8. QED
    BY <1>0, <2>1, <2>3, <2>4, <2>6, <2>7 DEF ChFaithful
<1>12. QED
  BY <1>6, <1>7, <1>8, <1>9, <1>10, <1>11 DEF ChInv

\* The image is prepared when the chat is gone: only its URL is made.
LEMMA ChPreparedGone ==
    ASSUME ChInv, ChReady, NEW id, ChPrepared(id), chSent[id].from \notin chHere
    PROVE  ChInv'
<1>0. ChTypes /\ ChImages /\ ChReleased
  BY DEF ChInv
<1>1. /\ ChIs(id, "image", "preparing") /\ chSent' = [chSent EXCEPT ![id].state = "sending"]
      /\ UNCHANGED <<chHere, chList, chWire, chStream>>
      /\ chUrls' = [chUrls EXCEPT ![chSent[id].from] = @ \cup {id}]
  BY DEF ChPrepared
<1>2. /\ ChKept /\ id \in ChNow /\ ChNow' = ChNow /\ chSent[id].from \in ChUsers
      /\ chSent[id].state = "preparing"
  BY <1>0, <1>1, ChChangedKept DEF ChSending
<1>3. /\ chUrls \in [ChUsers -> SUBSET ChNow']
      /\ chStream' \in SUBSET [id : ChNow', to : ChUsers]
  BY <1>0, <1>1, <1>2 DEF ChTypes
<1>4. chUrls' \in [ChUsers -> SUBSET ChNow']
  BY <1>1, <1>2, <1>3
<1>5. ChImages'
  <2>1. \A s \in chStream : s.id \in ChNow
    BY <1>0 DEF ChTypes
  <2>2. QED
    BY <1>0, <1>1, <1>2, <2>1 DEF ChImages, ChKept
<1>6. ChReleased'
  <2>1. \A u \in ChUsers : \A x \in chUrls'[u] : x \in chUrls[u] \/ x = id
    BY <1>1, <1>3
  <2>2. \A u \in ChUsers : id \notin ToSet(chList[u])
    BY <1>2 DEF ChReady
  <2>3. QED
    BY <1>0, <1>1, <2>1, <2>2 DEF ChReleased
<1>7. QED
  BY <1>1, <1>2, <1>3, <1>4, <1>5, <1>6, ChPagesAtRest

LEMMA ChTextOutStep == ASSUME ChInv, NEW id, ChTextOut(id) PROVE ChInv'
<1>0. ChTypes /\ ChKinds /\ ChOnce /\ ChImages /\ ChReleased /\ ChFaithful
  BY DEF ChInv
<1> DEFINE u == chSent[id].from
<1>1. /\ ChSending(id, "text") /\ u \in chHere
      /\ chSent' = [chSent EXCEPT ![id].state = "shared"]
      /\ chWire' = [w \in ChUsers |-> IF w \in chHere \ {u} THEN Append(chWire[w], id) ELSE chWire[w]]
      /\ chList' = [chList EXCEPT ![u] = Append(@, id)]
      /\ chHere' = chHere /\ chStream' = chStream /\ chUrls' = chUrls
  BY DEF ChTextOut, ChShow, ChOthers
<1>2. /\ ChKept /\ id \in ChNow /\ ChNow' = ChNow /\ u \in ChUsers
      /\ chSent[id].kind = "text" /\ chSent[id].state = "sending" /\ chSent'[id].state = "shared"
  BY <1>0, <1>1, ChChangedKept DEF ChSending
<1>3. /\ chList \in [ChUsers -> Seq(ChNow)] /\ chWire \in [ChUsers -> Seq(ChNow)]
      /\ \A w \in ChUsers : ToSet(chList[w]) \subseteq ChNow /\ ToSet(chWire[w]) \subseteq ChNow
  BY <1>0, <1>2, ChMore
<1>5. \A x \in ChNow : /\ chSent'[x].from = chSent[x].from /\ chSent'[x].kind = chSent[x].kind
                       /\ chSent[x].state = "shared" => chSent'[x].state = "shared"
  BY <1>2 DEF ChKept
<1> HIDE DEF u
<1>4. /\ chList' \in [ChUsers -> Seq(ChNow)]
      /\ \A w \in ChUsers : w # u => chList'[w] = chList[w]
      /\ ToSet(chList'[u]) = ToSet(chList[u]) \cup {id}
      /\ IsInjective(chList[u]) /\ id \notin ToSet(chList[u]) => IsInjective(chList'[u])
      /\ \A x, y : ChInOrder(chList'[u], x, y)
                      <=> (ChInOrder(chList[u], x, y) \/ (x \in ToSet(chList[u]) /\ y = id))
  <2> DEFINE s == chList[u]
             t == chList'[u]
  <2>1. s \in Seq(ChNow) /\ t = Append(s, id) /\ id \in ChNow
    BY <1>1, <1>2, <1>3
  <2> HIDE DEF s, t
  <2>2. t \in Seq(ChNow) /\ ToSet(t) = ToSet(s) \cup {id}
    BY <2>1, InAppended
  <2>3. IsInjective(s) /\ id \notin ToSet(s) => IsInjective(t)
    BY <2>1, InAppended
  <2>4. \A x, y : ChInOrder(t, x, y) <=> (ChInOrder(s, x, y) \/ (x \in ToSet(s) /\ y = id))
    BY <2>1, InAppended
  <2>5. chList' \in [ChUsers -> Seq(ChNow)] /\ \A w \in ChUsers : w # u => chList'[w] = chList[w]
    BY <2>1, <2>2, <1>1, <1>2, <1>3 DEF s, t
  <2>6. QED
    BY <2>2, <2>3, <2>4, <2>5 DEF s, t
<1>6. ASSUME NEW w \in ChUsers
      PROVE  /\ chWire'[w] \in Seq(ChNow)
             /\ w \notin chHere \ {u} => chWire'[w] = chWire[w]
             /\ w \in chHere \ {u} =>
                  /\ ToSet(chWire'[w]) = ToSet(chWire[w]) \cup {id}
                  /\ IsInjective(chWire[w]) /\ id \notin ToSet(chWire[w]) => IsInjective(chWire'[w])
                  /\ \A x, y : ChInOrder(chWire'[w], x, y)
                        <=> (ChInOrder(chWire[w], x, y) \/ (x \in ToSet(chWire[w]) /\ y = id))
  <2>1. CASE w \notin chHere \ {u}
    BY <1>1, <1>3, <2>1
  <2>2. CASE w \in chHere \ {u}
    <3> DEFINE s == chWire[w]
               t == chWire'[w]
    <3>1. s \in Seq(ChNow) /\ t = Append(s, id) /\ id \in ChNow
      BY <1>1, <1>2, <1>3, <2>2
    <3> HIDE DEF s, t
    <3>2. t \in Seq(ChNow) /\ ToSet(t) = ToSet(s) \cup {id}
      BY <3>1, InAppended
    <3>3. IsInjective(s) /\ id \notin ToSet(s) => IsInjective(t)
      BY <3>1, InAppended
    <3>4. \A x, y : ChInOrder(t, x, y) <=> (ChInOrder(s, x, y) \/ (x \in ToSet(s) /\ y = id))
      BY <3>1, InAppended
    <3>5. QED
      BY <2>2, <3>2, <3>3, <3>4 DEF s, t
  <2>3. QED
    BY <2>1, <2>2
<1>7. \A w \in ChUsers : id \notin ToSet(chList[w]) /\ id \notin ToSet(chWire[w])
  BY <1>0, <1>2 DEF ChKinds
<1>8. \A w \in ChUsers : /\ ToSet(chWire'[w]) \subseteq ToSet(chWire[w]) \cup {id}
                         /\ w = u => ToSet(chWire'[w]) = ToSet(chWire[w])
                         /\ ToSet(chList'[w]) \subseteq ToSet(chList[w]) \cup {id}
                         /\ w # u => ToSet(chList'[w]) = ToSet(chList[w])
  BY <1>4, <1>6
<1>9. ChTypes'
  <2>1. chSent' \in Seq(ChSentType) /\ Len(chSent') <= ChMaxSent
    BY <1>0, <1>2 DEF ChKept, ChTypes
  <2>2. chWire' \in [ChUsers -> Seq(ChNow)]
    <3>1. DOMAIN chWire' = ChUsers /\ chWire' = [w \in ChUsers |-> chWire'[w]]
      BY <1>1
    <3>2. QED
      BY <1>6, <3>1
  <2>3. QED
    BY <1>0, <1>1, <1>2, <1>4, <2>1, <2>2 DEF ChTypes
<1>10. ChKinds'
  <2>1. SUFFICES ASSUME NEW w \in ChUsers
        PROVE /\ \A x \in ToSet(chWire'[w]) : /\ chSent'[x].kind = "text"
                                               /\ chSent'[x].state = "shared"
                                               /\ chSent'[x].from # w
              /\ \A x \in ToSet(chList'[w]) :
                    chSent'[x].kind = "text" \/ chSent'[x].from # w => chSent'[x].state = "shared"
    BY DEF ChKinds
  <2>2. /\ chSent'[id].kind = "text" /\ chSent'[id].state = "shared"
        /\ id \in ToSet(chWire'[w]) => chSent'[id].from # w
    BY <1>2, <1>5, <1>7, <1>8 DEF u
  <2>3. \A x \in ToSet(chWire[w]) : /\ chSent'[x].kind = "text" /\ chSent'[x].state = "shared"
                                    /\ chSent'[x].from # w
    <3>1. \A x \in ToSet(chWire[w]) : /\ chSent[x].kind = "text" /\ chSent[x].state = "shared"
                                      /\ chSent[x].from # w
      BY <1>0 DEF ChKinds
    <3>2. \A x \in ToSet(chWire[w]) : x \in ChNow
      BY <1>3
    <3>3. QED
      BY <1>5, <3>1, <3>2
  <2>4. ASSUME NEW x \in ToSet(chList[w]), chSent'[x].kind = "text" \/ chSent'[x].from # w
        PROVE  chSent'[x].state = "shared"
    <3>1. x \in ChNow /\ (chSent[x].kind = "text" \/ chSent[x].from # w)
      BY <1>3, <1>5, <2>4
    <3>2. chSent[x].state = "shared"
      BY <1>0, <3>1 DEF ChKinds
    <3>3. QED
      BY <1>5, <3>1, <3>2
  <2>5. QED
    BY <1>8, <2>2, <2>3, <2>4
<1>11. ChOnce'
  <2>1. SUFFICES ASSUME NEW w \in ChUsers
        PROVE /\ IsInjective(chList'[w]) /\ IsInjective(chWire'[w])
              /\ ToSet(chList'[w]) \cap ToSet(chWire'[w]) = {}
    BY DEF ChOnce
  <2>2. IsInjective(chList'[w]) /\ IsInjective(chWire'[w])
    BY <1>0, <1>4, <1>6, <1>7 DEF ChOnce
  <2>3. ToSet(chList'[w]) \cap ToSet(chWire'[w]) = {}
    BY <1>0, <1>7, <1>8 DEF ChOnce
  <2>4. QED
    BY <2>2, <2>3
<1>12. ChImages'
  <2>1. SUFFICES ASSUME NEW s \in chStream
        PROVE /\ chSent'[s.id].kind = "image" /\ chSent'[s.id].state = "shared"
              /\ chSent'[s.id].from # s.to /\ s.id \notin ToSet(chList'[s.to])
    BY <1>1 DEF ChImages
  <2>2. s.id \in ChNow /\ s.to \in ChUsers /\ s.id # id
    BY <1>0, <1>2 DEF ChTypes, ChImages
  <2>3. QED
    BY <1>0, <1>5, <1>8, <2>2 DEF ChImages
<1>13. ChReleased'
  BY <1>0, <1>1, <1>8 DEF ChReleased
<1>14. ChFaithful'
  <2>1. SUFFICES ASSUME NEW w \in chHere, NEW v \in ChUsers, w # v
        PROVE /\ \A x \in ChNow : ChTextOf(v, x) =>
                    (x \in ToSet(chList'[w]) \cup ToSet(chWire'[w]) <=> x \in ToSet(chList'[v]))
              /\ \A x, y \in ChNow :
                    ChTextOf(v, x) /\ ChTextOf(v, y) /\ ChArrive(w, x, y)' => ChInOrder(chList'[v], x, y)
    BY <1>1, <1>2, <1>5 DEF ChFaithful, ChTextOf
  <2>2. w \in ChUsers
    BY <1>0 DEF ChTypes
  <2>3. /\ \A x \in ChNow : ChTextOf(v, x) =>
               (x \in ToSet(chList[w]) \cup ToSet(chWire[w]) <=> x \in ToSet(chList[v]))
        /\ \A x, y \in ChNow :
               ChTextOf(v, x) /\ ChTextOf(v, y) /\ ChArrive(w, x, y) => ChInOrder(chList[v], x, y)
    BY <1>0, <2>1 DEF ChFaithful
  <2>4. CASE v = u
    <3>1. /\ chList'[w] = chList[w]
          /\ ToSet(chWire'[w]) = ToSet(chWire[w]) \cup {id}
          /\ \A x, y : ChInOrder(chWire'[w], x, y)
                <=> (ChInOrder(chWire[w], x, y) \/ (x \in ToSet(chWire[w]) /\ y = id))
      BY <1>4, <1>6, <2>1, <2>2, <2>4
    <3>2. /\ ToSet(chList'[v]) = ToSet(chList[v]) \cup {id}
          /\ \A x, y : ChInOrder(chList'[v], x, y)
                <=> (ChInOrder(chList[v], x, y) \/ (x \in ToSet(chList[v]) /\ y = id))
      BY <1>4, <2>4
    <3>3. \A x, y : ChArrive(w, x, y)' =>
              \/ ChArrive(w, x, y)
              \/ y = id /\ x \in ToSet(chList[w]) \cup ToSet(chWire[w])
      BY <3>1 DEF ChArrive
    <3>4. QED
      BY <2>3, <3>1, <3>2, <3>3
  <2>5. CASE v # u
    <3>1. chList'[v] = chList[v]
      BY <1>4, <2>5
    <3>2. \A x : ChTextOf(v, x) => x # id
      BY <2>5 DEF ChTextOf, u
    <3>3. \A x : x # id => (x \in ToSet(chList'[w]) \cup ToSet(chWire'[w])
                             <=> x \in ToSet(chList[w]) \cup ToSet(chWire[w]))
      BY <1>4, <1>6, <2>2
    <3>4. \A x, y : x # id /\ y # id /\ ChArrive(w, x, y)' => ChArrive(w, x, y)
      <4>1. /\ \A x, y : y # id /\ ChInOrder(chList'[w], x, y) => ChInOrder(chList[w], x, y)
            /\ \A x, y : y # id /\ ChInOrder(chWire'[w], x, y) => ChInOrder(chWire[w], x, y)
            /\ \A x : x # id /\ x \in ToSet(chList'[w]) => x \in ToSet(chList[w])
            /\ \A x : x # id /\ x \in ToSet(chWire'[w]) => x \in ToSet(chWire[w])
        <5>1. /\ \A x, y : y # id /\ ChInOrder(chList'[w], x, y) => ChInOrder(chList[w], x, y)
              /\ \A x : x # id /\ x \in ToSet(chList'[w]) => x \in ToSet(chList[w])
          BY <1>4, <2>2
        <5>2. CASE w \in chHere \ {u}
          <6>1. ToSet(chWire'[w]) = ToSet(chWire[w]) \cup {id}
            BY <1>6, <2>2, <5>2
          <6>2. \A x, y : ChInOrder(chWire'[w], x, y)
                    <=> (ChInOrder(chWire[w], x, y) \/ (x \in ToSet(chWire[w]) /\ y = id))
            BY <1>6, <2>2, <5>2
          <6>3. QED
            BY <5>1, <6>1, <6>2
        <5>3. CASE w \notin chHere \ {u}
          BY <1>6, <2>2, <5>1, <5>3
        <5>4. QED
          BY <5>2, <5>3
      <4>2. QED
        BY <4>1 DEF ChArrive
    <3>5. QED
      BY <2>3, <3>1, <3>2, <3>3, <3>4
  <2>6. QED
    BY <2>4, <2>5
<1>15. QED
  BY <1>9, <1>10, <1>11, <1>12, <1>13, <1>14 DEF ChInv

LEMMA ChImageOutStep == ASSUME ChInv, NEW id, ChImageOut(id) PROVE ChInv'
<1>0. ChTypes /\ ChKinds /\ ChOnce /\ ChImages /\ ChReleased /\ ChFaithful
  BY DEF ChInv
<1>1. ChSending(id, "image") /\ ChRest
  BY DEF ChImageOut, ChRest
<1>2. CASE chSent' = [chSent EXCEPT ![id].state = "failed"] /\ chStream' = chStream
  <2>1. ChKept
    BY <1>0, <1>1, <1>2, ChChangedKept DEF ChSending
  <2>2. QED
    BY <1>1, <1>2, <2>1, ChFewerStreams
<1>3. CASE /\ chSent' = [chSent EXCEPT ![id].state = "shared"]
           /\ chStream' = chStream \cup [id : {id}, to : ChOthers(id)]
  <2>1. /\ ChKept /\ id \in ChNow /\ ChNow' = ChNow
        /\ chSent[id].kind = "image" /\ chSent[id].state = "sending" /\ chSent[id].from \in ChUsers
        /\ chSent'[id].state = "shared"
    BY <1>0, <1>1, <1>3, ChChangedKept DEF ChSending
  <2>2. chSent'[id].kind = "image" /\ chSent'[id].from = chSent[id].from
    BY <2>1 DEF ChKept
  <2>3. \A s \in chStream' : s \in chStream \/ (s.id = id /\ s.to \in ChOthers(id))
    BY <1>3
  <2>4. ChOthers(id) \subseteq ChUsers /\ chSent[id].from \notin ChOthers(id)
    BY <1>0 DEF ChOthers, ChTypes
  <2>5. chStream' \in SUBSET [id : ChNow', to : ChUsers]
    BY <1>0, <1>3, <2>1, <2>4 DEF ChTypes
  <2>6. ChImages'
    <3>1. SUFFICES ASSUME NEW s \in chStream'
          PROVE /\ chSent'[s.id].kind = "image" /\ chSent'[s.id].state = "shared"
                /\ chSent'[s.id].from # s.to /\ s.id \notin ToSet(chList[s.to])
      BY <1>1 DEF ChImages, ChRest
    <3>2. CASE s \in chStream
      <4>1. s.id \in ChNow
        BY <1>0, <3>2 DEF ChTypes
      <4>2. QED
        BY <1>0, <2>1, <3>2, <4>1 DEF ChImages, ChKept
    <3>3. CASE s.id = id /\ s.to \in ChOthers(id)
      <4>1. s.to \in ChUsers /\ chSent[id].from # s.to
        BY <2>4, <3>3
      <4>2. id \notin ToSet(chList[s.to])
        BY <1>0, <2>1, <4>1 DEF ChKinds
      <4>3. QED
        BY <2>1, <2>2, <3>3, <4>1, <4>2
    <3>4. QED
      BY <2>3, <3>2, <3>3
  <2>7. QED
    BY <1>1, <2>1, <2>5, <2>6, ChAtRest
<1>4. QED
  BY <1>2, <1>3 DEF ChImageOut

LEMMA ChImageInStep == ASSUME ChInv, NEW r \in chStream, ChImageIn(r) PROVE ChInv'
<1>0. ChTypes /\ ChKinds /\ ChOnce /\ ChImages /\ ChReleased /\ ChFaithful
  BY DEF ChInv
<1> DEFINE u == r.to
           n == r.id
<1>1. /\ chStream' = chStream \ {r} /\ chUrls' = [chUrls EXCEPT ![u] = @ \cup {n}]
      /\ IF u \in chHere THEN chList' = [chList EXCEPT ![u] = Append(@, n)] ELSE chList' = chList
      /\ chSent' = chSent /\ chHere' = chHere /\ chWire' = chWire /\ ChNow' = ChNow
  BY DEF ChImageIn, ChShow, ChNow
<1>2. u \in ChUsers /\ n \in ChNow /\ r = [id |-> n, to |-> u]
  BY <1>0 DEF ChTypes
<1>3. /\ chSent[n].kind = "image" /\ chSent[n].state = "shared" /\ chSent[n].from # u
      /\ n \notin ToSet(chList[u])
  BY <1>0 DEF ChImages
<1>4. \A s \in chStream' : s.id \in ChNow /\ s.to \in ChUsers /\ ~(s.id = n /\ s.to = u)
  <2>1. SUFFICES ASSUME NEW s \in chStream' PROVE s.id \in ChNow /\ s.to \in ChUsers /\ ~(s.id = n /\ s.to = u)
    OBVIOUS
  <2>2. s \in [id : ChNow, to : ChUsers] /\ r \in [id : ChNow, to : ChUsers] /\ s # r
    BY <1>0, <1>1 DEF ChTypes
  <2>3. QED
    BY <2>2
<1> HIDE DEF u, n
<1>5. chUrls' \in [ChUsers -> SUBSET ChNow] /\ chStream' \in SUBSET [id : ChNow, to : ChUsers]
      /\ \A w \in ChUsers : w # u => chUrls'[w] = chUrls[w]
      /\ chUrls'[u] = chUrls[u] \cup {n}
  BY <1>0, <1>1, <1>2 DEF ChTypes
<1>9. chList \in [ChUsers -> Seq(ChNow)] /\ u \in ChUsers /\ n \in ChNow
  BY <1>0, <1>2 DEF ChTypes
<1>6. CASE u \notin chHere
  <2>1. chList' = chList
    BY <1>1, <1>6
  <2>2. ChTypes'
    BY <1>0, <1>1, <1>5, <2>1 DEF ChTypes
  <2>3. ChKinds' /\ ChOnce' /\ ChImages'
    BY <1>0, <1>1, <2>1 DEF ChKinds, ChOnce, ChImages
  <2>4. ChReleased'
    BY <1>0, <1>1, <1>3, <1>5, <2>1 DEF ChReleased
  <2>5. ChFaithful'
    BY <1>0, <1>1, <2>1 DEF ChFaithful, ChTextOf, ChArrive
  <2>6. QED
    BY <2>2, <2>3, <2>4, <2>5 DEF ChInv
<1>7. CASE u \in chHere
  <2>1. chList' = [chList EXCEPT ![u] = Append(@, n)]
    BY <1>1, <1>7
  <2>2. /\ chList' \in [ChUsers -> Seq(ChNow)]
        /\ \A w \in ChUsers : w # u => chList'[w] = chList[w]
        /\ ToSet(chList'[u]) = ToSet(chList[u]) \cup {n}
        /\ IsInjective(chList[u]) /\ n \notin ToSet(chList[u]) => IsInjective(chList'[u])
        /\ \A x, y : ChInOrder(chList'[u], x, y)
                        <=> (ChInOrder(chList[u], x, y) \/ (x \in ToSet(chList[u]) /\ y = n))
    <3> DEFINE s == chList[u]
               t == chList'[u]
    <3>1. s \in Seq(ChNow) /\ t = Append(s, n) /\ n \in ChNow
      BY <1>9, <2>1
    <3> HIDE DEF s, t
    <3>2. t \in Seq(ChNow) /\ ToSet(t) = ToSet(s) \cup {n}
      BY <3>1, InAppended
    <3>3. IsInjective(s) /\ n \notin ToSet(s) => IsInjective(t)
      BY <3>1, InAppended
    <3>4. \A x, y : ChInOrder(t, x, y) <=> (ChInOrder(s, x, y) \/ (x \in ToSet(s) /\ y = n))
      BY <3>1, InAppended
    <3>5. chList' \in [ChUsers -> Seq(ChNow)] /\ \A w \in ChUsers : w # u => chList'[w] = chList[w]
      BY <3>1, <3>2, <1>9, <2>1 DEF s, t
    <3>6. QED
      BY <3>2, <3>3, <3>4, <3>5 DEF s, t
  <2>3. n \notin ToSet(chWire[u])
    BY <1>0, <1>2, <1>3 DEF ChKinds
  <2>4. ChTypes'
    BY <1>0, <1>1, <1>5, <2>2 DEF ChTypes
  <2>5. ChKinds'
    BY <1>0, <1>1, <1>3, <2>2 DEF ChKinds
  <2>6. ChOnce'
    BY <1>0, <1>1, <1>3, <2>2, <2>3 DEF ChOnce
  <2>7. ChImages'
    <3>1. SUFFICES ASSUME NEW s \in chStream'
          PROVE /\ chSent[s.id].kind = "image" /\ chSent[s.id].state = "shared"
                /\ chSent[s.id].from # s.to /\ s.id \notin ToSet(chList'[s.to])
      BY <1>1 DEF ChImages
    <3>2. s \in chStream /\ s.id \notin ToSet(chList[s.to])
      BY <1>0, <1>1 DEF ChImages
    <3>3. s.id \notin ToSet(chList'[s.to])
      BY <1>4, <2>2, <3>2
    <3>4. QED
      BY <1>0, <3>2, <3>3 DEF ChImages
  <2>8. ChReleased'
    BY <1>0, <1>1, <1>5, <1>7, <2>2 DEF ChReleased
  <2>9. ChFaithful'
    <3>1. SUFFICES ASSUME NEW w \in chHere, NEW v \in ChUsers, w # v
          PROVE /\ \A x \in ChNow : ChTextOf(v, x) =>
                      (x \in ToSet(chList'[w]) \cup ToSet(chWire[w]) <=> x \in ToSet(chList'[v]))
                /\ \A x, y \in ChNow :
                      ChTextOf(v, x) /\ ChTextOf(v, y) /\ ChArrive(w, x, y)' => ChInOrder(chList'[v], x, y)
      BY <1>1 DEF ChFaithful, ChTextOf
    <3>2. w \in ChUsers
      BY <1>0 DEF ChTypes
    <3>3. \A x : ChTextOf(v, x) => x # n
      BY <1>3 DEF ChTextOf
    <3>4. \A x : x # n => /\ x \in ToSet(chList'[w]) <=> x \in ToSet(chList[w])
                          /\ x \in ToSet(chList'[v]) <=> x \in ToSet(chList[v])
      BY <2>2, <3>2
    <3>5. \A x, y : y # n => (ChInOrder(chList'[w], x, y) <=> ChInOrder(chList[w], x, y))
      BY <2>2, <3>2
    <3>6. \A x, y : ChInOrder(chList[v], x, y) => ChInOrder(chList'[v], x, y)
      BY <2>2
    <3>7. \A x, y : x # n /\ y # n /\ ChArrive(w, x, y)' => ChArrive(w, x, y)
      BY <1>1, <3>4, <3>5 DEF ChArrive
    <3>8. QED
      BY <1>0, <3>1, <3>3, <3>4, <3>6, <3>7 DEF ChFaithful
  <2>10. QED
    BY <2>4, <2>5, <2>6, <2>7, <2>8, <2>9 DEF ChInv
<1>8. QED
  BY <1>6, <1>7

LEMMA ChLeaveStep == ASSUME ChInv, NEW u \in ChUsers, ChLeave(u) PROVE ChInv'
<1>0. ChTypes /\ ChKinds /\ ChOnce /\ ChImages /\ ChReleased /\ ChFaithful
  BY DEF ChInv
<1>1. /\ chHere' = chHere \ {u} /\ chWire' = [chWire EXCEPT ![u] = <<>>]
      /\ chUrls' = [chUrls EXCEPT ![u] = {}]
      /\ chSent' = chSent /\ chList' = chList /\ chStream' = chStream /\ ChNow' = ChNow
  BY DEF ChLeave, ChNow
<1>2. ToSet(<<>>) = {} /\ IsInjective(<<>>) /\ \A x, y : ~ChInOrder(<<>>, x, y)
  BY DEF ToSet, IsInjective, ChInOrder
<1>3. /\ chWire'[u] = <<>> /\ \A w \in ChUsers : w # u => chWire'[w] = chWire[w]
      /\ chUrls'[u] = {} /\ \A w \in ChUsers : w # u => chUrls'[w] = chUrls[w]
  BY <1>0, <1>1 DEF ChTypes
<1>4. ChTypes'
  <2>1. <<>> \in Seq(ChNow)
    OBVIOUS
  <2>2. chWire' \in [ChUsers -> Seq(ChNow)]
    BY <1>0, <1>1, <2>1 DEF ChTypes
  <2>3. QED
    BY <1>0, <1>1, <2>2 DEF ChTypes
<1>5. ChKinds' /\ ChOnce'
  BY <1>0, <1>1, <1>2, <1>3 DEF ChKinds, ChOnce
<1>6. ChImages'
  BY <1>0, <1>1 DEF ChImages
<1>7. ChReleased'
  BY <1>0, <1>1, <1>3 DEF ChReleased
<1>8. ChFaithful'
  <2>1. \A w \in chHere' : w \in chHere /\ chWire'[w] = chWire[w]
    BY <1>0, <1>1, <1>3 DEF ChTypes
  <2>2. QED
    BY <1>0, <1>1, <2>1 DEF ChFaithful, ChTextOf, ChArrive
<1>9. QED
  BY <1>4, <1>5, <1>6, <1>7, <1>8 DEF ChInv

\* Every step of the chat keeps the invariant.
LEMMA ChStep == ASSUME ChInv, ChReady, [ChNext]_chVars PROVE ChInv'
<1>0. ChTypes
  BY DEF ChInv
<1>1. ASSUME chSent' = chSent PROVE ChKept
  <2>1. Len(chSent) \in Nat /\ Len(chSent) <= ChMaxSent
    BY <1>0 DEF ChTypes
  <2>2. Len(chSent) \in Len(chSent)..ChMaxSent
    BY <2>1, ChAssumption
  <2>3. QED
    BY <1>0, <1>1, <2>2 DEF ChKept, ChTypes
<1>2. ASSUME NEW u \in ChUsers, ChSendText(u) \/ ChSendImage(u) PROVE ChInv'
  <2>1. /\ ChMake(u, "text") \/ ChMake(u, "image")
        /\ ChRest /\ chStream' = chStream
    BY <1>2 DEF ChSendText, ChSendImage, ChRest
  <2>2. ChKept
    BY <1>0, <2>1, ChMadeKept
  <2>3. QED
    BY <2>1, <2>2, ChFewerStreams
<1>3. ASSUME NEW id \in ChIds, ChTextFails(id) PROVE ChInv'
  <2>1. /\ ChSending(id, "text") /\ chSent' = [chSent EXCEPT ![id].state = "failed"]
        /\ ChRest /\ chStream' = chStream
    BY <1>3 DEF ChTextFails, ChRest
  <2>2. ChKept
    BY <1>0, <2>1, ChChangedKept DEF ChSending
  <2>3. QED
    BY <2>1, <2>2, ChFewerStreams
<1>4. ASSUME NEW s \in chStream, ChImageLost(s) PROVE ChInv'
  <2>1. chSent' = chSent /\ chStream' \subseteq chStream /\ ChRest
    BY <1>4 DEF ChImageLost, ChRest
  <2>2. QED
    BY <1>1, <2>1, ChFewerStreams
<1>5. CASE ChPanel \/ ChEffect \/ UNCHANGED chVars
  <2>1. chSent' = chSent /\ chStream' \subseteq chStream /\ ChRest
    BY <1>5 DEF ChPanel, ChEffect, chVars, ChRest
  <2>2. QED
    BY <1>1, <2>1, ChFewerStreams
<1>6. QED
  BY <1>2, <1>3, <1>4, <1>5, ChPreparedHere, ChPreparedGone, ChTextInStep, ChLeaveStep, ChTextOutStep,
     ChImageOutStep, ChImageInStep DEF ChNext

\* What the invariant says of what each page shows and is about to show.
LEMMA ChToldFollows == ASSUME ChInv PROVE ChTold
<1>0. ChTypes /\ ChKinds /\ ChOnce /\ ChFaithful
  BY DEF ChInv
<1>1. SUFFICES ASSUME NEW u \in ChUsers
      PROVE LET got == chList[u] \o chWire[u] IN
        /\ \A id \in ToSet(chList[u]) : chSent[id].kind = "text" => chSent[id].state = "shared"
        /\ IsInjective(got)
        /\ u \in chHere =>
             \A v \in ChUsers :
                /\ ChTexts(v, got) = ChTexts(v, chList[v])
                /\ \A x, y \in ChTexts(v, got) :
                      ChInOrder(got, x, y) => ChInOrder(chList[v], x, y)
  BY DEF ChTold
<1> DEFINE got == chList[u] \o chWire[u]
<1>2. chList[u] \in Seq(ChNow) /\ chWire[u] \in Seq(ChNow)
  BY <1>0 DEF ChTypes
<1>3. /\ ToSet(got) = ToSet(chList[u]) \cup ToSet(chWire[u])
      /\ IsInjective(got)
      /\ \A x, y : ChInOrder(got, x, y) => ChArrive(u, x, y)
  <2> DEFINE s == chList[u]
             t == chWire[u]
  <2>1. s \in Seq(ChNow) /\ t \in Seq(ChNow) /\ got = s \o t
    BY <1>2
  <2>2. IsInjective(s) /\ IsInjective(t) /\ ToSet(s) \cap ToSet(t) = {}
    BY <1>0 DEF ChOnce
  <2> HIDE DEF s, t, got
  <2>3. ToSet(s \o t) = ToSet(s) \cup ToSet(t)
    BY <2>1, InBoth
  <2>4. IsInjective(s \o t)
    BY <2>1, <2>2, InBoth
  <2>5. \A x, y : ChInOrder(s \o t, x, y) =>
                     \/ ChInOrder(s, x, y)
                     \/ ChInOrder(t, x, y)
                     \/ x \in ToSet(s) /\ y \in ToSet(t)
    BY <2>1, InBoth
  <2>6. QED
    BY <2>1, <2>3, <2>4, <2>5 DEF s, t, ChArrive
<1>4. \A w \in ChUsers : ToSet(chList[w]) \subseteq ChNow /\ ToSet(chWire[w]) \subseteq ChNow
  <2>1. \A w \in ChUsers : chList[w] \in Seq(ChNow) /\ chWire[w] \in Seq(ChNow)
    BY <1>0 DEF ChTypes
  <2>2. ASSUME NEW s \in Seq(ChNow) PROVE ToSet(s) \subseteq ChNow
    <3>1. \A i \in DOMAIN s : s[i] \in ChNow
      OBVIOUS
    <3>2. QED
      BY <3>1 DEF ToSet
  <2>3. QED
    BY <2>1, <2>2
<1>5. \A id \in ToSet(chList[u]) : chSent[id].kind = "text" => chSent[id].state = "shared"
  BY <1>0 DEF ChKinds
<1> HIDE DEF got
<1>6. ASSUME u \in chHere, NEW v \in ChUsers
      PROVE  /\ ChTexts(v, got) = ChTexts(v, chList[v])
             /\ \A x, y \in ChTexts(v, got) : ChInOrder(got, x, y) => ChInOrder(chList[v], x, y)
  <2>1. CASE u = v
    <3>1. \A x \in ToSet(chWire[u]) : ~ChTextOf(v, x)
      BY <1>0, <2>1 DEF ChKinds, ChTextOf
    <3>2. \A x, y : ChInOrder(chWire[u], x, y) => x \in ToSet(chWire[u])
      BY DEF ChInOrder, ToSet
    <3>3. QED
      BY <1>3, <2>1, <3>1, <3>2 DEF ChTexts, ChTextOf, ChArrive
  <2>2. CASE u # v
    <3>1. /\ \A x \in ChNow : ChTextOf(v, x) =>
                (x \in ToSet(chList[u]) \cup ToSet(chWire[u]) <=> x \in ToSet(chList[v]))
          /\ \A x, y \in ChNow :
                ChTextOf(v, x) /\ ChTextOf(v, y) /\ ChArrive(u, x, y) => ChInOrder(chList[v], x, y)
      BY <1>0, <1>6, <2>2 DEF ChFaithful
    <3>2. \A x : x \in ToSet(got) \/ x \in ToSet(chList[v]) => x \in ChNow
      BY <1>3, <1>4
    <3>3. QED
      BY <1>3, <3>1, <3>2 DEF ChTexts, ChTextOf
  <2>3. QED
    BY <2>1, <2>2
<1>7. QED
  BY <1>3, <1>5, <1>6 DEF got

\* No more messages are shown than have been made.
LEMMA InjectiveLength ==
    ASSUME NEW n \in Nat, NEW s \in Seq(1..n), IsInjective(s)
    PROVE  Len(s) <= n
<1>1. s \in Injection(1..Len(s), 1..n)
  BY DEF Injection
<1>2. IsFiniteSet(1..n) /\ Cardinality(1..n) = n
  BY FS_Interval
<1>3. IsFiniteSet(1..Len(s)) /\ Cardinality(1..Len(s)) = Len(s)
  <2>1. \A k \in Nat : IsFiniteSet(1..k) /\ Cardinality(1..k) = k
    BY FS_Interval
  <2>2. Len(s) \in Nat
    OBVIOUS
  <2>3. QED
    BY <2>1, <2>2
<1> HIDE DEF Injection
<1>4. Cardinality(1..Len(s)) <= Cardinality(1..n)
  BY <1>1, <1>2, FS_Injection
<1>5. QED
  BY <1>2, <1>3, <1>4

\* The messages of others among those at positions m+1 to n of the reader's page.
ChCame(m, n) == {i \in m + 1..n : chSent[chList[ChReader][i]].from # ChReader}

LEMMA ChCameSize ==
    ASSUME NEW m \in Nat, NEW n \in Nat, m <= n
    PROVE  IsFiniteSet(ChCame(m, n)) /\ Cardinality(ChCame(m, n)) \in 0..n
<1>1. IsFiniteSet(1..n) /\ Cardinality(1..n) = n
  BY FS_Interval
<1>2. ChCame(m, n) \in SUBSET (1..n)
  BY DEF ChCame
<1>3. IsFiniteSet(ChCame(m, n)) /\ Cardinality(ChCame(m, n)) <= n
  BY <1>1, <1>2, FS_Subset
<1>4. QED
  BY <1>3, FS_CardinalityType

LEMMA ChCameMore ==
    ASSUME NEW m \in Nat, NEW n \in Nat, NEW k \in Nat, m <= n, n <= k
    PROVE  Cardinality(ChCame(m, k)) = Cardinality(ChCame(m, n)) + Cardinality(ChCame(n, k))
<1> DEFINE S == ChCame(m, n)
           T == ChCame(n, k)
<1>1. IsFiniteSet(S) /\ IsFiniteSet(T) /\ Cardinality(S) \in Nat /\ Cardinality(T) \in Nat
  BY ChCameSize
<1>2. S \cap T = {} /\ S \cup T = ChCame(m, k)
  BY DEF ChCame
<1> HIDE DEF S, T
<1>3. Cardinality(S \cup T) = Cardinality(S) + Cardinality(T) - Cardinality(S \cap T)
  BY <1>1, FS_Union
<1>4. QED
  BY <1>1, <1>2, <1>3, FS_EmptySet DEF S, T

\* The badge has counted what came between the last look and the last effect, and an
\* effect is due when more has come.
ChBadgeInv ==
    /\ chBadge \in [open : BOOLEAN, seen : Nat, unread : Nat, due : BOOLEAN]
    /\ chMark \in Nat /\ chMark <= chBadge.seen
    /\ chBadge.seen <= Len(chList[ChReader])
    /\ ~chBadge.due => chBadge.seen = Len(chList[ChReader])
    /\ chBadge.unread = Cardinality(ChCame(chMark, chBadge.seen))

\* What the reader has been shown is only added to, and then an effect is due.
ChGrown ==
    /\ Len(chList[ChReader]) <= Len(chList'[ChReader])
    /\ \A i \in 1..Len(chList[ChReader]) :
          chSent'[chList'[ChReader][i]].from = chSent[chList[ChReader][i]].from
    /\ chMark' = chMark
    /\ chBadge' \in [open : BOOLEAN, seen : {chBadge.seen}, unread : {chBadge.unread}, due : BOOLEAN]
    /\ ~chBadge'.due => ~chBadge.due /\ Len(chList'[ChReader]) = Len(chList[ChReader])

LEMMA ChBadgeKept == ASSUME ChTypes, ChTypes', ChBadgeInv, ChGrown PROVE ChBadgeInv'
<1> DEFINE k == Len(chList[ChReader])
           n == Len(chList'[ChReader])
<1>1. k \in Nat /\ n \in Nat
  BY ChAssumption DEF ChTypes
<1>2. /\ chBadge'.open \in BOOLEAN /\ chBadge'.due \in BOOLEAN
      /\ chBadge'.seen = chBadge.seen /\ chBadge'.unread = chBadge.unread
      /\ chBadge.seen \in Nat /\ chBadge.unread \in Nat /\ chMark' = chMark
      /\ chBadge' \in [open : BOOLEAN, seen : Nat, unread : Nat, due : BOOLEAN]
  BY DEF ChGrown, ChBadgeInv
<1>3. ChCame(chMark, chBadge.seen)' = ChCame(chMark, chBadge.seen)
  <2>1. \A i \in chMark + 1..chBadge.seen : i \in 1..k
    BY <1>1, <1>2 DEF ChBadgeInv
  <2>2. QED
    BY <1>2, <2>1 DEF ChCame, ChGrown
<1>4. QED
  BY <1>1, <1>2, <1>3 DEF ChBadgeInv, ChGrown

LEMMA ChOthersShown ==
    ASSUME ChTypes, ChKept, chMark' = chMark, ChBadgeInv,
           \/ chList' = chList /\ chBadge' = chBadge
           \/ \E u \in ChUsers : \E id : ChShow(u, id)
    PROVE  ChGrown
<1> DEFINE s == chList[ChReader]
           t == chList'[ChReader]
<1>1. s \in Seq(ChNow) /\ Len(s) \in Nat /\ \A i \in 1..Len(s) : s[i] \in ChNow
  BY ChAssumption DEF ChTypes
<1>2. /\ chBadge \in [open : BOOLEAN, seen : {chBadge.seen}, unread : {chBadge.unread}, due : BOOLEAN]
      /\ [chBadge EXCEPT !.due = TRUE]
            \in [open : BOOLEAN, seen : {chBadge.seen}, unread : {chBadge.unread}, due : BOOLEAN]
      /\ [chBadge EXCEPT !.due = TRUE].due = TRUE
  BY DEF ChBadgeInv
<1>3. \A i \in 1..Len(s) : chSent'[s[i]].from = chSent[s[i]].from
  BY <1>1 DEF ChKept
<1>4. CASE t = s /\ chBadge' = chBadge
  BY <1>1, <1>2, <1>3, <1>4 DEF ChGrown
<1>5. ASSUME NEW id, t = Append(s, id), chBadge' = [chBadge EXCEPT !.due = TRUE] PROVE ChGrown
  <2>1. Len(t) = Len(s) + 1 /\ \A i \in 1..Len(s) : t[i] = s[i]
    BY <1>1, <1>5
  <2>2. chBadge'.due = TRUE
    BY <1>2, <1>5
  <2>3. chBadge' \in [open : BOOLEAN, seen : {chBadge.seen}, unread : {chBadge.unread}, due : BOOLEAN]
    BY <1>2, <1>5
  <2>4. QED
    BY <1>1, <1>3, <2>1, <2>2, <2>3 DEF ChGrown
<1>6. ASSUME NEW u \in ChUsers, NEW id, ChShow(u, id) PROVE ChGrown
  <2>1. CASE u = ChReader
    <3>1. t = Append(s, id) /\ chBadge' = [chBadge EXCEPT !.due = TRUE]
      BY <1>6, <2>1 DEF ChShow, ChTypes
    <3>2. QED
      BY <1>5, <3>1
  <2>2. CASE u # ChReader
    <3>1. t = s /\ chBadge' = chBadge
      BY <1>6, <2>2 DEF ChShow, ChTypes
    <3>2. QED
      BY <1>4, <3>1
  <2>3. QED
    BY <2>1, <2>2
<1>7. QED
  BY <1>4, <1>6

LEMMA ChBadgeInitially == ChInit => ChBadgeInv
<1> SUFFICES ASSUME ChInit PROVE ChBadgeInv
  OBVIOUS
<1>1. /\ chBadge = [open |-> FALSE, seen |-> 0, unread |-> 0, due |-> FALSE] /\ chMark = 0
      /\ chList[ChReader] = <<>>
  BY ChAssumption DEF ChInit
<1>2. Len(<<>>) = 0
  OBVIOUS
<1>3. ChCame(0, 0) = {}
  BY DEF ChCame
<1>4. QED
  BY <1>1, <1>2, <1>3, FS_EmptySet DEF ChBadgeInv

\* The badge's effect counts what came since it last ran, and nothing twice.
LEMMA ChEffectStep == ASSUME ChTypes, ChBadgeInv, ChEffect PROVE ChBadgeInv'
<1>0. Len(chList[ChReader]) \in Nat /\ chBadge.seen \in Nat
  BY ChAssumption DEF ChTypes, ChBadgeInv
<1>1. SUFFICES ASSUME NEW n \in Nat, n = Len(chList[ChReader]), NEW k \in Nat, k = chBadge.seen
      PROVE  ChBadgeInv'
  BY <1>0
<1>2. /\ k <= n /\ chMark \in Nat /\ chMark <= k
      /\ chBadge.unread \in Nat /\ chBadge.open \in BOOLEAN
  BY <1>1 DEF ChBadgeInv
<1>3. chSent' = chSent /\ chList' = chList /\ chBadge' = ChCounted(chBadge)
      /\ chMark' = IF chBadge.open THEN n ELSE chMark
  BY <1>1 DEF ChEffect
<1>4. ChIncoming(k) = ChCame(k, n)
  BY <1>1 DEF ChIncoming, ChCame
<1>5. /\ chBadge'.open = chBadge.open /\ chBadge'.seen = n /\ chBadge'.due = FALSE
      /\ chBadge'.unread = IF chBadge.open THEN 0 ELSE chBadge.unread + Cardinality(ChCame(k, n))
      /\ chBadge' = [open |-> chBadge'.open, seen |-> chBadge'.seen, unread |-> chBadge'.unread,
                     due |-> chBadge'.due]
  BY <1>1, <1>3, <1>4 DEF ChCounted, ChBadgeInv
<1>6. ASSUME NEW m \in Nat, m <= n, chMark' = m, chBadge'.unread = Cardinality(ChCame(m, n))
      PROVE  ChBadgeInv'
  <2>1. chBadge'.unread \in Nat
    BY <1>6, ChCameSize
  <2>2. chBadge' \in [open : BOOLEAN, seen : Nat, unread : Nat, due : BOOLEAN]
    BY <1>2, <1>5, <2>1
  <2>3. Len(chList'[ChReader]) = n
    BY <1>1, <1>3
  <2>4. ChCame(m, n) = ChCame(chMark, chBadge.seen)'
    BY <1>3, <1>5, <1>6 DEF ChCame
  <2>5. QED
    BY <1>5, <1>6, <2>2, <2>3, <2>4 DEF ChBadgeInv
<1>7. CASE chBadge.open
  <2>1. ChCame(n, n) = {}
    BY DEF ChCame
  <2>2. chBadge'.unread = Cardinality(ChCame(n, n)) /\ chMark' = n
    BY <1>3, <1>5, <1>7, <2>1, FS_EmptySet
  <2>3. QED
    BY <1>6, <2>2
<1>8. CASE ~chBadge.open
  <2>1. Cardinality(ChCame(chMark, n)) = Cardinality(ChCame(chMark, k)) + Cardinality(ChCame(k, n))
    BY <1>2, ChCameMore
  <2>2. chBadge'.unread = Cardinality(ChCame(chMark, n)) /\ chMark' = chMark
    BY <1>1, <1>3, <1>5, <1>8, <2>1 DEF ChBadgeInv
  <2>3. QED
    BY <1>2, <1>6, <2>2
<1>9. QED
  BY <1>7, <1>8

LEMMA ChBadgeStep == ASSUME ChInv, ChInv', ChBadgeInv, [ChNext]_chVars PROVE ChBadgeInv'
<1>0. ChTypes /\ ChTypes' /\ ChImages
  BY DEF ChInv
<1>1. ASSUME chSent' = chSent PROVE ChKept
  <2>1. Len(chSent) \in Nat /\ Len(chSent) <= ChMaxSent
    BY <1>0 DEF ChTypes
  <2>2. Len(chSent) \in Len(chSent)..ChMaxSent
    BY <2>1, ChAssumption
  <2>3. QED
    BY <1>0, <1>1, <2>2 DEF ChKept, ChTypes
<1>2. ASSUME ChKept, chMark' = chMark,
             \/ chList' = chList /\ chBadge' = chBadge
             \/ \E u \in ChUsers : \E id : ChShow(u, id)
      PROVE  ChBadgeInv'
  BY <1>0, <1>2, ChOthersShown, ChBadgeKept
<1>3. ASSUME NEW u \in ChUsers, ChSendText(u) \/ ChSendImage(u) PROVE ChBadgeInv'
  <2>1. ChKept
    BY <1>0, <1>3, ChMadeKept DEF ChSendText, ChSendImage
  <2>2. QED
    BY <1>2, <1>3, <2>1 DEF ChSendText, ChSendImage
<1>4. ASSUME NEW id \in ChIds,
             ChTextFails(id) \/ ChTextOut(id) \/ ChPrepared(id) \/ ChImageOut(id)
      PROVE  ChBadgeInv'
  <2>1. ChKept
    <3>1. CASE ChTextFails(id)
      BY <1>0, <3>1, ChChangedKept DEF ChTextFails, ChSending
    <3>2. CASE ChTextOut(id)
      BY <1>0, <3>2, ChChangedKept DEF ChTextOut, ChSending
    <3>3. CASE ChImageOut(id)
      BY <1>0, <3>3, ChChangedKept DEF ChImageOut, ChSending
    <3>4. CASE ChPrepared(id)
      BY <1>0, <3>4, ChChangedKept DEF ChPrepared
    <3>5. QED
      BY <1>4, <3>1, <3>2, <3>3, <3>4
  <2>2. \/ chSent[id].from \in ChUsers
        \/ ~(ChTextOut(id) \/ (ChPrepared(id) /\ chSent[id].from \in chHere))
    BY <1>0 DEF ChTextOut, ChTypes
  <2>3. QED
    BY <1>2, <1>4, <2>1, <2>2 DEF ChTextFails, ChTextOut, ChPrepared, ChImageOut
<1>5. ASSUME NEW u \in ChUsers, ChTextIn(u) \/ ChLeave(u) PROVE ChBadgeInv'
  BY <1>1, <1>2, <1>5 DEF ChTextIn, ChLeave
<1>6. ASSUME NEW s \in chStream, ChImageIn(s) \/ ChImageLost(s) PROVE ChBadgeInv'
  <2>1. s.to \in ChUsers
    BY <1>0 DEF ChTypes
  <2>2. QED
    BY <1>1, <1>2, <1>6, <2>1 DEF ChImageIn, ChImageLost
<1>7. CASE ChPanel
  <2>1. chSent' = chSent /\ chList' = chList /\ chMark' = chMark
        /\ chBadge' = [chBadge EXCEPT !.open = ~@, !.due = TRUE]
    BY <1>7 DEF ChPanel
  <2>2. /\ chBadge' \in [open : BOOLEAN, seen : {chBadge.seen}, unread : {chBadge.unread}, due : BOOLEAN]
        /\ chBadge'.due = TRUE
    BY <2>1 DEF ChBadgeInv
  <2>3. Len(chList[ChReader]) \in Nat
    BY <1>0, ChAssumption DEF ChTypes
  <2>4. ChGrown
    BY <2>1, <2>2, <2>3 DEF ChGrown
  <2>5. QED
    BY <1>0, <2>4, ChBadgeKept
<1>8. CASE ChEffect
  BY <1>0, <1>8, ChEffectStep
<1>9. CASE UNCHANGED chVars
  BY <1>1, <1>2, <1>9 DEF chVars
<1>10. QED
  BY <1>3, <1>4, <1>5, <1>6, <1>7, <1>8, <1>9 DEF ChNext

LEMMA ChReadyStep == ASSUME ChInv, ChReady, [ChNext]_chVars PROVE ChReady'
<1>0. ChTypes /\ ChKinds /\ ChImages
  BY DEF ChInv
<1>1. ASSUME chSent' = chSent \/ ChKept, chList' = chList PROVE ChReady'
  <2>1. \A u \in ChUsers : \A x \in ToSet(chList[u]) : x \in ChNow
    <3>1. \A u \in ChUsers : chList[u] \in Seq(ChNow)
      BY <1>0 DEF ChTypes
    <3>2. QED
      BY <3>1 DEF ToSet
  <2>2. QED
    BY <1>1, <2>1 DEF ChReady, ChKept
<1>2. ASSUME NEW u \in ChUsers, NEW id \in ChNow, ChShow(u, id), chSent' = chSent \/ ChKept,
             chSent'[id].state # "preparing"
      PROVE  ChReady'
  <2>1. SUFFICES ASSUME NEW w \in ChUsers, NEW x \in ToSet(chList'[w])
                 PROVE  chSent'[x].state # "preparing"
    BY DEF ChReady
  <2>2. chList[u] \in Seq(ChNow) /\ chList[w] \in Seq(ChNow)
    BY <1>0 DEF ChTypes
  <2>3. \A y \in ToSet(chList[w]) : y \in ChNow
    BY <2>2 DEF ToSet
  <2>4. ToSet(Append(chList[u], id)) = ToSet(chList[u]) \cup {id}
    BY <2>2, InAppended
  <2>5. chList'[w] = IF w = u THEN Append(chList[u], id) ELSE chList[w]
    BY <1>0, <1>2 DEF ChShow, ChTypes
  <2>6. x \in ToSet(chList[w]) \/ x = id
    BY <2>4, <2>5
  <2>7. QED
    BY <1>2, <2>3, <2>6 DEF ChReady, ChKept
<1>3. ASSUME NEW u \in ChUsers, ChSendText(u) \/ ChSendImage(u) PROVE ChReady'
  <2>1. ChKept
    BY <1>0, <1>3, ChMadeKept DEF ChSendText, ChSendImage
  <2>2. QED
    BY <1>1, <1>3, <2>1 DEF ChSendText, ChSendImage
<1>4. ASSUME NEW u \in ChUsers, ChTextIn(u) PROVE ChReady'
  <2>1. ChShow(u, Head(chWire[u])) /\ chWire[u] # <<>> /\ chSent' = chSent
    BY <1>4 DEF ChTextIn
  <2>2. chWire[u] \in Seq(ChNow)
    BY <1>0 DEF ChTypes
  <2>3. Head(chWire[u]) \in ToSet(chWire[u]) /\ Head(chWire[u]) \in ChNow
    BY <2>1, <2>2, InTail
  <2>4. chSent'[Head(chWire[u])].state # "preparing"
    BY <1>0, <2>1, <2>3 DEF ChKinds
  <2>5. QED
    BY <1>2, <2>1, <2>3, <2>4
<1>5. ASSUME NEW s \in chStream, ChImageIn(s) PROVE ChReady'
  <2>1. s.to \in ChUsers /\ s.id \in ChNow /\ chSent[s.id].state = "shared" /\ chSent' = chSent
    BY <1>0, <1>5 DEF ChTypes, ChImages, ChImageIn
  <2>2. ChShow(s.to, s.id) \/ chList' = chList
    BY <1>5 DEF ChImageIn
  <2>3. QED
    BY <1>1, <1>2, <2>1, <2>2
<1>6. ASSUME NEW id \in ChIds, ChTextFails(id) \/ ChImageOut(id) PROVE ChReady'
  <2>1. ChKept
    BY <1>0, <1>6, ChChangedKept DEF ChTextFails, ChImageOut, ChSending
  <2>2. QED
    BY <1>1, <1>6, <2>1 DEF ChTextFails, ChImageOut
<1>7. ASSUME NEW id \in ChIds, ChTextOut(id) PROVE ChReady'
  <2>1. /\ ChKept /\ id \in ChNow /\ chSent'[id].state = "shared"
        /\ chSent[id].from \in ChUsers
    BY <1>0, <1>7, ChChangedKept DEF ChTextOut, ChSending
  <2>2. QED
    BY <1>2, <1>7, <2>1 DEF ChTextOut
<1>8. ASSUME NEW id \in ChIds, ChPrepared(id) PROVE ChReady'
  <2>1. /\ ChKept /\ id \in ChNow /\ chSent'[id].state = "sending"
        /\ chSent[id].from \in ChUsers
    BY <1>0, <1>8, ChChangedKept DEF ChPrepared
  <2>2. ChShow(chSent[id].from, id) \/ chList' = chList
    BY <1>8 DEF ChPrepared
  <2>3. QED
    BY <1>1, <1>2, <2>1, <2>2
<1>9. ASSUME \/ \E u \in ChUsers : ChLeave(u)
             \/ \E s \in chStream : ChImageLost(s)
             \/ ChPanel \/ ChEffect \/ UNCHANGED chVars
      PROVE  ChReady'
  BY <1>1, <1>9 DEF ChLeave, ChImageLost, ChPanel, ChEffect, chVars
<1>10. QED
  BY <1>3, <1>4, <1>5, <1>6, <1>7, <1>8, <1>9 DEF ChNext

LEMMA ChTypesFollow == ASSUME ChInv, ChBadgeInv PROVE ChTypeOK
<1>0. ChTypes /\ ChOnce
  BY DEF ChInv
<1>1. Len(chSent) \in Nat /\ Len(chSent) <= ChMaxSent /\ ChNow \subseteq ChIds
  BY <1>0, ChAssumption DEF ChTypes, ChNow, ChIds
<1>2. ASSUME NEW u \in ChUsers
      PROVE  chList[u] \in Seq(ChIds) /\ chWire[u] \in Seq(ChIds) /\ Len(chList[u]) <= ChMaxSent
  <2>1. chList[u] \in Seq(ChNow) /\ chWire[u] \in Seq(ChNow) /\ IsInjective(chList[u])
    BY <1>0 DEF ChTypes, ChOnce
  <2>2. ASSUME NEW s \in Seq(ChNow) PROVE s \in Seq(ChIds)
    BY <1>1
  <2>3. chList[u] \in Seq(ChIds) /\ chWire[u] \in Seq(ChIds)
    BY <2>1, <2>2
  <2>4. QED
    BY <2>1, <2>3, InjectiveLength, ChAssumption DEF ChIds
<1>3. chList \in [ChUsers -> Seq(ChIds)] /\ chWire \in [ChUsers -> Seq(ChIds)]
  BY <1>0, <1>2 DEF ChTypes
<1>4. chStream \in SUBSET [id : ChIds, to : ChUsers] /\ chUrls \in [ChUsers -> SUBSET ChIds]
  BY <1>0, <1>1 DEF ChTypes
<1>5. chBadge.seen \in 0..ChMaxSent /\ chBadge.unread \in 0..ChMaxSent /\ chMark \in 0..ChMaxSent
  <2>1. Len(chList[ChReader]) <= ChMaxSent /\ Len(chList[ChReader]) \in Nat
    BY <1>2, <1>3, ChAssumption
  <2>2. chBadge.seen \in Nat /\ chMark \in Nat /\ chMark <= chBadge.seen
        /\ chBadge.seen <= ChMaxSent
    BY <2>1, ChAssumption DEF ChBadgeInv
  <2>3. Cardinality(ChCame(chMark, chBadge.seen)) \in 0..chBadge.seen
    BY <2>2, ChCameSize
  <2>4. QED
    BY <2>2, <2>3, ChAssumption DEF ChBadgeInv
<1>6. chBadge \in [open : BOOLEAN, seen : 0..ChMaxSent, unread : 0..ChMaxSent, due : BOOLEAN]
  BY <1>5 DEF ChBadgeInv
<1>7. QED
  BY <1>0, <1>3, <1>4, <1>5, <1>6 DEF ChTypeOK, ChTypes, ChSentType

LEMMA ChUnreadFollows == ASSUME ChBadgeInv PROVE ChUnread
  BY DEF ChBadgeInv, ChUnread, ChIncoming, ChCame

LEMMA ChHolds == ChSpec => [](ChTypeOK /\ ChTold /\ ChReleased /\ ChUnread)
<1>1. ChInit => ChInv /\ ChReady /\ ChBadgeInv
  <2>1. ChInit => ChReady
    BY DEF ChInit, ChReady, ToSet
  <2>2. QED
    BY <2>1, ChInitially, ChBadgeInitially
<1>2. ChInv /\ ChReady /\ ChBadgeInv /\ [ChNext]_chVars => ChInv' /\ ChReady' /\ ChBadgeInv'
  BY ChStep, ChReadyStep, ChBadgeStep
<1>3. ChInv /\ ChBadgeInv => ChTypeOK /\ ChTold /\ ChReleased /\ ChUnread
  BY ChTypesFollow, ChToldFollows, ChUnreadFollows DEF ChInv
<1>4. QED
  BY <1>1, <1>2, <1>3, PTL DEF ChSpec

----
(* The attendance report.                                                   *)

\* How long, until now, each session was, one was present, and has been speaking.
AtTerms(e, now) ==
    [i \in DOMAIN e.sessions |-> AtLasted(e.sessions[i].from, AtOut(e.sessions[i], now))]
AtPresent(e, now) == AtSum(AtTerms(e, now), Len(e.sessions))
AtRunning(e, now) == IF e.since = AtNull THEN 0 ELSE now - e.since

\* What the store has of one person accounts for what was seen of them until now: only
\* the last session may be open, none ends later, and the sums are right.
AtBooks(e, seen, now) ==
    /\ e \in AtEntry /\ Len(e.sessions) \in 0..AtMaxSessions
    /\ \A i \in 1..Len(e.sessions) - 1 : e.sessions[i].to # AtNull
    /\ \A i \in DOMAIN e.sessions : AtOut(e.sessions[i], now) <= now
    /\ AtPresent(e, now) = seen.present
    /\ e.since # AtNull => e.since <= now /\ e.hadTalk
    /\ e.talk + AtRunning(e, now) = seen.talk
    /\ e.hadTalk <=> seen.heard
    /\ AtIsOpen(e) => e.sessions[Len(e.sessions)].from = seen.from

\* Unless something was odd about them, they were here whenever listed as speaking.
AtPlain(e, seen, now) ==
    \/ seen.odd
    \/ /\ e.sessions # <<>> /\ seen.talk <= seen.present
       /\ e.since # AtNull => AtIsOpen(e)
       /\ AtIsOpen(e) => seen.from <= now

AtAccount(e, seen, now) == AtBooks(e, seen, now) /\ AtPlain(e, seen, now)

\* The call is tracked until now: everyone who is here has an open session, and nobody
\* else; nobody was seen longer than the call.
AtTracked(now) ==
    /\ {AtMe} \cup atHere \subseteq DOMAIN atStore
    /\ \A p \in DOMAIN atStore :
          /\ AtAccount(atStore[p], atSeen[p], now)
          /\ AtIsOpen(atStore[p]) <=> p \in {AtMe} \cup atHere
    /\ \A p \in AtPeople \ DOMAIN atStore :
          atSeen[p] = AtUnseen
    /\ atStart <= now
    /\ \A p \in AtPeople : atSeen[p].present <= now - atStart /\ atSeen[p].talk <= now

\* During the call, whoever speaks has a running timer, and nobody else.
AtCall ==
    /\ AtTracked(atNow) /\ atLoud \subseteq DOMAIN atStore
    /\ \A p \in DOMAIN atStore : atStore[p].since # AtNull <=> p \in atLoud

AtInv ==
    /\ AtTypeOK
    /\ atPhase = "out" => atLoud = {} /\ atEnd = AtNull
    /\ atPhase = "call" => atEnd = AtNull /\ AtCall
    /\ atPhase = "ended" =>
          /\ atEnd \in AtTimes /\ AtTracked(atEnd)
          /\ \A p \in DOMAIN atStore : atStore[p].since = AtNull
    /\ atPhase \in {"out", "call", "ended"} => atReport = AtNobody
    /\ atPhase = "report" => AtCounts

\* The sum over the first n values is what its recursion says.
LEMMA SumDef ==
    ASSUME NEW n \in Nat, NEW g, \A i \in 1..n : g[i] \in Int
    PROVE  \E f \in [0..n -> Int] : \A k \in 0..n : f[k] = IF k = 0 THEN 0 ELSE f[k - 1] + g[k]
<1> DEFINE Ok(m) == \E f \in [0..m -> Int] :
                      \A k \in 0..m : f[k] = IF k = 0 THEN 0 ELSE f[k - 1] + g[k]
           bad == {m \in 0..n : ~Ok(m)}
<1>1. SUFFICES ASSUME bad # {} PROVE FALSE
  OBVIOUS
<1>2. PICK m \in bad : \A j \in bad : m <= j
  <2>1. bad \in SUBSET Nat
    OBVIOUS
  <2> HIDE DEF bad
  <2>2. QED
    BY <1>1, <2>1, LeastNat
<1>3. CASE m = 0
  <2> DEFINE f == [k \in 0..0 |-> 0]
  <2>1. f \in [0..0 -> Int] /\ \A k \in 0..0 : f[k] = IF k = 0 THEN 0 ELSE f[k - 1] + g[k]
    OBVIOUS
  <2>2. Ok(0)
    BY <2>1
  <2>3. QED
    BY <1>2, <1>3, <2>2
<1>4. CASE m # 0
  <2>1. m \in 1..n /\ m - 1 \in 0..n /\ m - 1 < m
    BY <1>2, <1>4
  <2>2. Ok(m - 1)
    <3> HIDE DEF Ok
    <3>1. m - 1 \notin bad
      <4> HIDE DEF bad
      <4>1. \A j \in bad : ~(j < m)
        <5>1. bad \subseteq Nat
          BY DEF bad
        <5>2. QED
          BY <1>2, <5>1
      <4>2. QED
        BY <2>1, <4>1
    <3>2. QED
      BY <2>1, <3>1
  <2>3. PICK f \in [0..m - 1 -> Int] :
               \A k \in 0..m - 1 : f[k] = IF k = 0 THEN 0 ELSE f[k - 1] + g[k]
    BY <2>2
  <2> DEFINE h == [k \in 0..m |-> IF k = m THEN f[m - 1] + g[m] ELSE f[k]]
  <2>4. \A k \in 0..m : h[k] \in Int
    <3>1. f[m - 1] \in Int /\ g[m] \in Int
      BY <2>1
    <3>2. QED
      BY <2>1, <3>1
  <2>5. \A k \in 0..m : h[k] = IF k = 0 THEN 0 ELSE h[k - 1] + g[k]
    BY <2>1, <2>3
  <2>6. h \in [0..m -> Int]
    BY <2>4
  <2> HIDE DEF h
  <2>7. Ok(m)
    BY <2>5, <2>6
  <2>8. QED
    BY <1>2, <2>7
<1>5. QED
  BY <1>3, <1>4

\* f has all the sums of the first values of g, up to n of them.
SumsTo(g, n, f) ==
    /\ f \in [0..n -> Int] /\ AtSum(g, n) = f[n]
    /\ \A k \in 0..n : f[k] = IF k = 0 THEN 0 ELSE f[k - 1] + g[k]

LEMMA SumAt ==
    ASSUME NEW n \in Nat, NEW g, \A i \in 1..n : g[i] \in Int
    PROVE  \E f : SumsTo(g, n, f)
<1> DEFINE Is(s) == s = [k \in 0..n |-> IF k = 0 THEN 0 ELSE s[k - 1] + g[k]]
           sum == CHOOSE s : Is(s)
<1>1. PICK f \in [0..n -> Int] : \A k \in 0..n : f[k] = IF k = 0 THEN 0 ELSE f[k - 1] + g[k]
  BY SumDef
<1>2. Is(f)
  BY <1>1
<1>3. Is(sum)
  <2> HIDE DEF Is
  <2>1. QED
    BY <1>2
<1>4. AtSum(g, n) = sum[n]
  BY DEF AtSum
<1> HIDE DEF sum
<1>5. DOMAIN sum = 0..n /\ \A k \in 0..n : sum[k] = IF k = 0 THEN 0 ELSE sum[k - 1] + g[k]
  BY <1>3
<1> DEFINE off == {k \in 0..n : sum[k] # f[k]}
<1>6. off = {}
  <2>1. SUFFICES ASSUME off # {} PROVE FALSE
    OBVIOUS
  <2>2. PICK k \in off : \A j \in off : k <= j
    <3>1. off \in SUBSET Nat
      OBVIOUS
    <3> HIDE DEF off
    <3>2. QED
      BY <2>1, <3>1, LeastNat
  <2>3. k # 0
    BY <1>1, <1>5, <2>2
  <2>4. k - 1 \in 0..n /\ k - 1 < k /\ k - 1 \notin off
    BY <2>2, <2>3
  <2>5. sum[k - 1] = f[k - 1]
    BY <2>4
  <2>6. QED
    BY <1>1, <1>5, <2>2, <2>3, <2>5
<1>7. n \in 0..n /\ n \notin off
  BY <1>6
<1>8. AtSum(g, n) = f[n]
  BY <1>4, <1>7
<1> HIDE DEF off
<1>9. QED
  BY <1>1, <1>8 DEF SumsTo

\* The sum depends on the values summed only.
LEMMA SumAgrees ==
    ASSUME NEW n \in Nat, NEW g, NEW h, \A i \in 1..n : g[i] \in Int /\ h[i] = g[i]
    PROVE  AtSum(h, n) = AtSum(g, n)
<1>1. PICK f : SumsTo(g, n, f)
  BY SumAt
<1>2. PICK e : SumsTo(h, n, e)
  <2>1. \A i \in 1..n : h[i] \in Int
    OBVIOUS
  <2>2. QED
    BY <2>1, SumAt
<1> DEFINE off == {k \in 0..n : e[k] # f[k]}
<1>3. off = {}
  <2>1. SUFFICES ASSUME off # {} PROVE FALSE
    OBVIOUS
  <2>2. PICK k \in off : \A j \in off : k <= j
    <3>1. off \in SUBSET Nat
      OBVIOUS
    <3> HIDE DEF off
    <3>2. QED
      BY <2>1, <3>1, LeastNat
  <2>3. k # 0
    BY <1>1, <1>2, <2>2 DEF SumsTo
  <2>4. k - 1 \in 0..n /\ k - 1 < k /\ k - 1 \notin off
    BY <2>2, <2>3
  <2>5. e[k - 1] = f[k - 1]
    BY <2>4
  <2>6. k \in 1..n /\ h[k] = g[k]
    BY <2>2, <2>3
  <2>7. QED
    BY <1>1, <1>2, <2>2, <2>3, <2>5, <2>6 DEF SumsTo
<1>4. n \in 0..n /\ n \notin off
  BY <1>3
<1>5. e[n] = f[n]
  BY <1>4
<1>6. QED
  BY <1>1, <1>2, <1>5 DEF SumsTo

\* The last value comes to the sum of those before.
LEMMA SumLast ==
    ASSUME NEW n \in Nat \ {0}, NEW g, \A i \in 1..n : g[i] \in Int
    PROVE  AtSum(g, n) = AtSum(g, n - 1) + g[n] /\ AtSum(g, n - 1) \in Int
<1>1. PICK f : SumsTo(g, n, f)
  BY SumAt
<1>2. n - 1 \in Nat /\ \A i \in 1..n - 1 : g[i] \in Int
  OBVIOUS
<1>3. PICK e : SumsTo(g, n - 1, e)
  BY <1>2, SumAt
<1> DEFINE off == {k \in 0..n - 1 : e[k] # f[k]}
<1>4. off = {}
  <2>1. SUFFICES ASSUME off # {} PROVE FALSE
    OBVIOUS
  <2>2. PICK k \in off : \A j \in off : k <= j
    <3>1. off \in SUBSET Nat
      OBVIOUS
    <3> HIDE DEF off
    <3>2. QED
      BY <2>1, <3>1, LeastNat
  <2>3. k # 0
    BY <1>1, <1>3, <2>2 DEF SumsTo
  <2>4. k - 1 \in 0..n - 1 /\ k - 1 < k /\ k - 1 \notin off
    BY <2>2, <2>3
  <2>5. e[k - 1] = f[k - 1]
    BY <2>4
  <2>6. k \in 0..n
    BY <2>2
  <2>7. QED
    BY <1>1, <1>3, <2>2, <2>3, <2>5, <2>6 DEF SumsTo
<1>5. n - 1 \in 0..n - 1 /\ e[n - 1] = f[n - 1] /\ e[n - 1] \in Int
  <2>1. n - 1 \in 0..n - 1
    OBVIOUS
  <2>2. n - 1 \notin off
    BY <1>4
  <2>3. QED
    BY <1>3, <2>1, <2>2 DEF SumsTo
<1>6. QED
  BY <1>1, <1>3, <1>5 DEF SumsTo

LEMMA SumNone == ASSUME NEW g PROVE AtSum(g, 0) = 0
<1>1. \A i \in 1..0 : g[i] \in Int
  OBVIOUS
<1>2. QED
  BY <1>1, SumAt DEF SumsTo

AtSession == [from : AtTimes, to : AtTimes \cup {AtNull}]

LEMMA AtBasics ==
    ASSUME NEW e, e \in AtEntry, NEW now \in Int
    PROVE  /\ e.sessions \in Seq(AtSession) /\ Len(e.sessions) \in Nat
           /\ DOMAIN e.sessions = 1..Len(e.sessions)
           /\ e.talk \in AtTimes /\ e.hadTalk \in BOOLEAN /\ e.since \in AtTimes \cup {AtNull}
           /\ \A i \in 1..Len(e.sessions) :
                 /\ e.sessions[i] \in AtSession /\ AtOut(e.sessions[i], now) \in Int
                 /\ AtTerms(e, now)[i] = AtLasted(e.sessions[i].from, AtOut(e.sessions[i], now))
                 /\ AtTerms(e, now)[i] \in Int
<1>1. e.sessions \in Seq(AtSession) /\ e.talk \in AtTimes /\ e.hadTalk \in BOOLEAN
      /\ e.since \in AtTimes \cup {AtNull}
  BY DEF AtEntry, AtSession
<1> DEFINE ss == e.sessions
<1>2. ss \in Seq(AtSession)
  BY <1>1
<1>3. DOMAIN ss = 1..Len(ss) /\ Len(ss) \in Nat /\ \A i \in 1..Len(ss) : ss[i] \in AtSession
  <2> HIDE DEF ss
  <2>1. QED
    BY <1>2
<1>4. \A s \in AtSession : /\ s.from \in Int /\ AtOut(s, now) \in Int
                            /\ AtLasted(s.from, AtOut(s, now)) \in Int
  BY DEF AtSession, AtTimes, AtOut, AtLasted
<1>5. \A i \in 1..Len(ss) : AtTerms(e, now)[i] = AtLasted(ss[i].from, AtOut(ss[i], now))
  BY <1>3 DEF AtTerms
<1> HIDE DEF ss
<1>6. \A i \in 1..Len(ss) : AtTerms(e, now)[i] \in Int
  BY <1>3, <1>4, <1>5
<1>7. QED
  BY <1>1, <1>3, <1>4, <1>5, <1>6 DEF ss

\* The last session is open and has begun.
AtGrows(e, now) == AtIsOpen(e) /\ e.sessions[Len(e.sessions)].from <= now

\* When the clock ticks an open session that has begun grows, and nothing else does.
LEMMA AtPresentTicks ==
    ASSUME NEW e, e \in AtEntry, Len(e.sessions) \in 0..AtMaxSessions, NEW now \in Int,
           \A i \in 1..Len(e.sessions) - 1 : e.sessions[i].to # AtNull,
           \A i \in DOMAIN e.sessions : AtOut(e.sessions[i], now) <= now
    PROVE  AtPresent(e, now + 1) = AtPresent(e, now) + (IF AtGrows(e, now) THEN 1 ELSE 0)
<1> DEFINE n == Len(e.sessions)
           g == AtTerms(e, now)
           h == AtTerms(e, now + 1)
           up == IF AtGrows(e, now) THEN 1 ELSE 0
<1>1. n \in Nat
  BY AtAssumption
<1>2. /\ e.sessions \in Seq(AtSession) /\ DOMAIN e.sessions = 1..n
      /\ \A i \in 1..n : /\ g[i] = AtLasted(e.sessions[i].from, AtOut(e.sessions[i], now))
                         /\ g[i] \in Int /\ e.sessions[i] \in AtSession
  BY AtBasics
<1>3. \A i \in 1..n : /\ h[i] = AtLasted(e.sessions[i].from, AtOut(e.sessions[i], now + 1))
                      /\ h[i] \in Int
  <2> DEFINE then == now + 1
  <2>1. then \in Int
    OBVIOUS
  <2> HIDE DEF then
  <2>2. \A i \in 1..n : /\ AtTerms(e, then)[i] = AtLasted(e.sessions[i].from, AtOut(e.sessions[i], then))
                        /\ AtTerms(e, then)[i] \in Int
    BY <2>1, AtBasics
  <2>3. QED
    BY <2>2 DEF then
<1> HIDE DEF g, h
<1>4. \A i \in 1..n - 1 : g[i] \in Int /\ h[i] = g[i]
  <2>1. SUFFICES ASSUME NEW i \in 1..n - 1 PROVE g[i] \in Int /\ h[i] = g[i]
    OBVIOUS
  <2>2. i \in 1..n /\ e.sessions[i].to # AtNull
    BY <1>1
  <2>3. AtOut(e.sessions[i], now) = AtOut(e.sessions[i], now + 1)
    BY <2>2 DEF AtOut
  <2>4. QED
    BY <1>2, <1>3, <2>2, <2>3
<1>5. CASE n = 0
  <2>1. e.sessions = <<>>
    BY <1>2, <1>5
  <2>2. up = 0
    BY <2>1 DEF AtGrows, AtIsOpen
  <2>3. AtSum(h, n) = 0 /\ AtSum(g, n) = 0
    BY <1>5, SumNone
  <2>4. QED
    BY <2>2, <2>3 DEF AtPresent, g, h, n
<1>6. CASE n # 0
  <2>1. n \in 1..n /\ n \in Nat \ {0} /\ e.sessions # <<>>
    BY <1>1, <1>6
  <2> DEFINE s == e.sessions[n]
             f == s.from
  <2>0. g[n] = AtLasted(f, AtOut(s, now)) /\ h[n] = AtLasted(f, AtOut(s, now + 1))
        /\ s \in AtSession
    BY <1>2, <1>3, <2>1
  <2>00. AtOut(s, now) <= now /\ (AtGrows(e, now) <=> s.to = AtNull /\ f <= now)
    BY <1>2, <2>1 DEF AtIsOpen, AtGrows
  <2>2. /\ g[n] = AtLasted(f, AtOut(s, now)) /\ h[n] = AtLasted(f, AtOut(s, now + 1))
        /\ f \in Int /\ s.to \in Int \cup {AtNull} /\ AtOut(s, now) <= now
        /\ AtGrows(e, now) <=> s.to = AtNull /\ f <= now
    BY <2>0, <2>00 DEF AtSession, AtTimes
  <2>3. h[n] = g[n] + up
    <3> HIDE DEF n, s, f
    <3>1. CASE s.to = AtNull
      <4>1. g[n] = AtLasted(f, now) /\ h[n] = AtLasted(f, now + 1) /\ f \in Int
            /\ up = IF f <= now THEN 1 ELSE 0
        BY <2>2, <3>1 DEF AtOut
      <4> HIDE DEF up
      <4>2. AtLasted(f, now + 1) = AtLasted(f, now) + (IF f <= now THEN 1 ELSE 0)
        BY <4>1 DEF AtLasted
      <4>3. QED
        BY <4>1, <4>2
    <3>2. CASE s.to # AtNull
      BY <2>2, <3>2 DEF AtOut, AtLasted
    <3>3. QED
      BY <3>1, <3>2
  <2>4. up \in Int
    OBVIOUS
  <2> HIDE DEF n, up, s, f
  <2>5. AtSum(h, n - 1) = AtSum(g, n - 1)
    <3>1. n - 1 \in Nat
      BY <2>1
    <3>2. QED
      BY <1>4, <3>1, SumAgrees
  <2>6. AtSum(h, n) = AtSum(h, n - 1) + h[n]
    BY <1>3, <2>1, SumLast
  <2>7. AtSum(g, n) = AtSum(g, n - 1) + g[n] /\ AtSum(g, n - 1) \in Int /\ g[n] \in Int
    BY <1>2, <2>1, SumLast
  <2>8. AtSum(h, n) = AtSum(g, n) + up
    BY <2>3, <2>4, <2>5, <2>6, <2>7
  <2>9. QED
    BY <2>8 DEF AtPresent, g, h, n, up
<1>7. QED
  BY <1>5, <1>6

\* Two entries with the same sessions so far were present for as long.
LEMMA AtPresentAgrees ==
    ASSUME NEW e, e \in AtEntry, NEW d, d \in AtEntry, NEW now \in Int,
           Len(d.sessions) = Len(e.sessions),
           \A i \in 1..Len(e.sessions) : /\ d.sessions[i].from = e.sessions[i].from
                                         /\ AtOut(d.sessions[i], now) = AtOut(e.sessions[i], now)
    PROVE  AtPresent(d, now) = AtPresent(e, now)
<1> DEFINE n == Len(e.sessions)
           g == AtTerms(e, now)
           h == AtTerms(d, now)
<1>1. n \in Nat /\ \A i \in 1..n : g[i] = AtLasted(e.sessions[i].from, AtOut(e.sessions[i], now))
                                  /\ g[i] \in Int
  BY AtBasics
<1>2. \A i \in 1..n : h[i] = AtLasted(d.sessions[i].from, AtOut(d.sessions[i], now))
  BY AtBasics
<1>3. \A i \in 1..n : g[i] \in Int /\ h[i] = g[i]
  BY <1>1, <1>2
<1> HIDE DEF g, h
<1>4. AtSum(h, n) = AtSum(g, n)
  BY <1>1, <1>3, SumAgrees
<1>5. QED
  BY <1>4 DEF AtPresent, g, h

\* A session opened now has not lasted yet.
LEMMA AtPresentAppends ==
    ASSUME NEW e, e \in AtEntry, NEW d, d \in AtEntry, NEW now \in AtTimes,
           d.sessions = Append(e.sessions, [from |-> now, to |-> AtNull])
    PROVE  AtPresent(d, now) = AtPresent(e, now)
<1> DEFINE n == Len(e.sessions)
           s == e.sessions
           t == d.sessions
           g == AtTerms(e, now)
           h == AtTerms(d, now)
<1>1. now \in Int
  BY DEF AtTimes
<1>2. s \in Seq(AtSession) /\ n \in Nat /\ \A i \in 1..n : g[i] = AtLasted(s[i].from, AtOut(s[i], now)) /\ g[i] \in Int
  BY <1>1, AtBasics
<1>3. \A i \in 1..Len(t) : h[i] = AtLasted(t[i].from, AtOut(t[i], now)) /\ h[i] \in Int
  BY <1>1, AtBasics
<1>4. /\ Len(t) = n + 1 /\ t[n + 1] = [from |-> now, to |-> AtNull]
      /\ \A i \in 1..n : t[i] = s[i]
  <2> HIDE DEF s
  <2>1. n = Len(s) /\ t = Append(s, [from |-> now, to |-> AtNull])
    BY DEF s
  <2>2. QED
    BY <1>2, <2>1
<1> HIDE DEF g, h, n, s, t
<1>5. h[n + 1] = 0
  <2>1. n + 1 \in 1..Len(t)
    BY <1>2, <1>4
  <2>2. QED
    BY <1>1, <1>3, <1>4, <2>1 DEF AtOut, AtLasted
<1>6. \A i \in 1..n : g[i] \in Int /\ h[i] = g[i]
  <2>1. SUFFICES ASSUME NEW i \in 1..n PROVE g[i] \in Int /\ h[i] = g[i]
    OBVIOUS
  <2>2. i \in 1..Len(t) /\ t[i] = s[i]
    BY <1>2, <1>4
  <2>3. h[i] = AtLasted(t[i].from, AtOut(t[i], now))
    BY <1>3, <2>2
  <2>4. g[i] = AtLasted(s[i].from, AtOut(s[i], now)) /\ g[i] \in Int
    BY <1>2
  <2>5. QED
    BY <2>2, <2>3, <2>4
<1>7. AtSum(h, n) = AtSum(g, n)
  BY <1>2, <1>6, SumAgrees
<1>8. AtSum(h, n + 1) = AtSum(h, n) + h[n + 1] /\ AtSum(h, n) \in Int
  <2>1. n + 1 \in Nat \ {0} /\ (n + 1) - 1 = n
    BY <1>2
  <2>2. \A i \in 1..n + 1 : h[i] \in Int
    BY <1>3, <1>4
  <2> DEFINE m == n + 1
  <2> HIDE DEF m
  <2>3. AtSum(h, m) = AtSum(h, m - 1) + h[m] /\ AtSum(h, m - 1) \in Int
    BY <2>1, <2>2, SumLast DEF m
  <2>4. QED
    BY <2>1, <2>3 DEF m
<1>9. AtSum(h, n + 1) = AtSum(g, n)
  BY <1>5, <1>7, <1>8
<1>10. QED
  BY <1>4, <1>9 DEF AtPresent, g, h, n, s, t

\* What is present of a session that was only just seeded.
LEMMA AtPresentFresh ==
    ASSUME NEW at \in AtTimes, NEW now \in AtTimes
    PROVE  AtFresh(at) \in AtEntry /\ AtPresent(AtFresh(at), now) = AtLasted(at, now)
<1> DEFINE e == AtFresh(at)
           g == AtTerms(e, now)
<1>1. e \in AtEntry
  <2>1. <<[from |-> at, to |-> AtNull]>> \in Seq(AtSession)
    BY DEF AtSession
  <2>2. 0 \in AtTimes
    BY AtAssumption DEF AtTimes
  <2>3. QED
    BY <2>1, <2>2 DEF AtEntry, AtFresh, AtKnown, AtSession
<1>2. Len(e.sessions) = 1 /\ e.sessions[1] = [from |-> at, to |-> AtNull]
  BY DEF AtFresh, AtKnown
<1>3. now \in Int
  BY DEF AtTimes
<1> HIDE DEF e
<1>4. \A i \in 1..1 : g[i] = AtLasted(e.sessions[i].from, AtOut(e.sessions[i], now)) /\ g[i] \in Int
  BY <1>1, <1>2, <1>3, AtBasics
<1> HIDE DEF g
<1>5. g[1] = AtLasted(at, now)
  BY <1>2, <1>4 DEF AtOut
<1>6. AtSum(g, 1) = AtSum(g, 0) + g[1]
  <2>1. AtSum(g, 1) = AtSum(g, 1 - 1) + g[1]
    BY <1>4, SumLast
  <2>2. 1 - 1 = 0
    OBVIOUS
  <2>3. QED
    BY <2>1, <2>2
<1>7. AtSum(g, 1) = AtLasted(at, now)
  BY <1>5, <1>6, SumNone DEF AtTimes, AtLasted
<1>8. QED
  BY <1>1, <1>2, <1>7 DEF AtPresent, g, e

\* What one step does to one person's account.
LEMMA AtAccountFresh ==
    ASSUME NEW at \in AtTimes, NEW now \in AtTimes, NEW seen,
           seen.present = AtLasted(at, now), seen.talk = 0, ~seen.heard,
           seen.from = at, seen.odd \/ at <= now
    PROVE  /\ AtAccount(AtFresh(at), seen, now)
           /\ AtIsOpen(AtFresh(at)) /\ AtFresh(at).since = AtNull
<1> DEFINE e == AtFresh(at)
<1>1. e \in AtEntry /\ AtPresent(e, now) = AtLasted(at, now)
  BY AtPresentFresh
<1>2. Len(e.sessions) = 1 /\ e.sessions[1] = [from |-> at, to |-> AtNull] /\ e.sessions # <<>>
      /\ e.talk = 0 /\ e.hadTalk = FALSE /\ e.since = AtNull
  BY DEF AtFresh, AtKnown
<1>3. DOMAIN e.sessions = 1..1
  BY DEF AtFresh, AtKnown
<1> HIDE DEF e
<1>4. AtOut(e.sessions[1], now) = now /\ AtIsOpen(e)
  BY <1>2 DEF AtOut, AtIsOpen
<1>5. Len(e.sessions) \in 0..AtMaxSessions /\ now <= now
  BY <1>2, AtAssumption DEF AtTimes
<1>6. AtRunning(e, now) = 0
  BY <1>2 DEF AtRunning
<1>7. AtBooks(e, seen, now)
  BY <1>1, <1>2, <1>3, <1>4, <1>5, <1>6 DEF AtBooks
<1>8. seen.talk <= seen.present
  BY DEF AtLasted, AtTimes
<1>9. AtPlain(e, seen, now)
  BY <1>2, <1>8 DEF AtPlain
<1>10. QED
  BY <1>2, <1>4, <1>7, <1>9 DEF e, AtAccount

\* Someone the list of speakers brings up.
LEMMA AtAccountKnown ==
    ASSUME NEW now \in AtTimes, NEW seen, seen.present = 0, seen.talk = 0, ~seen.heard, seen.odd
    PROVE  /\ AtAccount(AtKnown, seen, now)
           /\ ~AtIsOpen(AtKnown) /\ AtKnown.since = AtNull
<1> DEFINE e == AtKnown
<1>1. /\ e.sessions = <<>> /\ e.talk = 0 /\ e.hadTalk = FALSE /\ e.since = AtNull
      /\ DOMAIN e.sessions = {} /\ Len(e.sessions) = 0
  BY DEF AtKnown
<1>2. e \in AtEntry
  <2>1. <<>> \in Seq(AtSession) /\ 0 \in AtTimes
    BY AtAssumption DEF AtTimes
  <2>2. QED
    BY <2>1 DEF AtEntry, AtSession, AtKnown
<1> HIDE DEF e
<1>3. AtPresent(e, now) = 0 /\ AtRunning(e, now) = 0 /\ ~AtIsOpen(e)
  BY <1>1, SumNone DEF AtPresent, AtRunning, AtIsOpen
<1>4. AtBooks(e, seen, now)
  BY <1>1, <1>2, <1>3, AtAssumption DEF AtBooks
<1>5. QED
  BY <1>1, <1>3, <1>4 DEF e, AtAccount, AtPlain

LEMMA AtAccountTicks ==
    ASSUME NEW e, NEW seen, NEW later, NEW now \in AtTimes, now + 1 \in AtTimes,
           AtAccount(e, seen, now), seen.present \in Int, seen.talk \in Int,
           later.present = seen.present + (IF AtGrows(e, now) THEN 1 ELSE 0),
           later.talk = seen.talk + (IF e.since # AtNull THEN 1 ELSE 0),
           later.heard <=> seen.heard, later.from = seen.from, later.odd <=> seen.odd
    PROVE  AtAccount(e, later, now + 1)
<1>1. /\ e \in AtEntry /\ Len(e.sessions) \in 0..AtMaxSessions
      /\ \A i \in 1..Len(e.sessions) - 1 : e.sessions[i].to # AtNull
      /\ \A i \in DOMAIN e.sessions : AtOut(e.sessions[i], now) <= now
      /\ AtPresent(e, now) = seen.present
      /\ e.since # AtNull => e.since <= now /\ e.hadTalk
      /\ e.talk + AtRunning(e, now) = seen.talk
      /\ e.hadTalk <=> seen.heard
      /\ AtIsOpen(e) => e.sessions[Len(e.sessions)].from = seen.from
  BY DEF AtAccount, AtBooks
<1>2. now \in Int
  BY DEF AtTimes
<1>3. AtPresent(e, now + 1) = later.present
  BY <1>1, <1>2, AtPresentTicks
<1>4. /\ DOMAIN e.sessions = 1..Len(e.sessions) /\ e.talk \in Int
      /\ e.since \in Int \cup {AtNull}
      /\ \A i \in 1..Len(e.sessions) : e.sessions[i] \in AtSession
  <2>1. \A t \in AtTimes : t \in Int
    BY DEF AtTimes
  <2>2. e \in AtEntry
    BY <1>1
  <2>3. QED
    BY <1>2, <2>1, <2>2, AtBasics
<1>5. \A i \in DOMAIN e.sessions : AtOut(e.sessions[i], now + 1) <= now + 1
  <2>1. SUFFICES ASSUME NEW i \in DOMAIN e.sessions PROVE AtOut(e.sessions[i], now + 1) <= now + 1
    OBVIOUS
  <2> DEFINE s == e.sessions[i]
  <2>2. s.to \in Int \cup {AtNull} /\ AtOut(s, now) <= now
    BY <1>1, <1>4 DEF AtSession, AtTimes
  <2> HIDE DEF s
  <2>3. CASE s.to = AtNull
    BY <1>2, <2>2, <2>3 DEF AtOut, s
  <2>4. CASE s.to # AtNull
    BY <1>2, <2>2, <2>4 DEF AtOut, s
  <2>5. QED
    BY <2>3, <2>4
<1>6. e.talk + AtRunning(e, now + 1) = later.talk
  <2>1. CASE e.since = AtNull
    BY <1>1, <1>4, <2>1 DEF AtRunning
  <2>2. CASE e.since # AtNull
    <3>1. /\ AtRunning(e, now + 1) = (now + 1) - e.since
          /\ AtRunning(e, now) = now - e.since
          /\ later.talk = seen.talk + 1
      BY <2>2 DEF AtRunning
    <3>2. e.talk + (now - e.since) = seen.talk /\ e.talk \in Int /\ e.since \in Int
      BY <1>1, <1>4, <2>2, <3>1
    <3>3. QED
      BY <1>2, <3>1, <3>2
  <2>3. QED
    BY <2>1, <2>2
<1>7. e.since # AtNull => e.since <= now + 1 /\ e.hadTalk
  BY <1>1, <1>2, <1>4
<1>8. e.hadTalk <=> later.heard
  BY <1>1
<1>9. AtBooks(e, later, now + 1)
  BY <1>1, <1>3, <1>5, <1>6, <1>7, <1>8 DEF AtBooks
<1>10. AtPlain(e, later, now + 1)
  <2>1. CASE seen.odd
    BY <2>1 DEF AtPlain
  <2>2. CASE ~seen.odd
    <3>1. /\ e.sessions # <<>> /\ seen.talk <= seen.present
          /\ e.since # AtNull => AtIsOpen(e)
          /\ AtIsOpen(e) => seen.from <= now
      BY <2>2 DEF AtAccount, AtPlain
    <3>2. AtIsOpen(e) => AtGrows(e, now)
      BY <1>1, <3>1 DEF AtGrows
    <3>3. later.talk <= later.present
      <4> DEFINE more == IF AtGrows(e, now) THEN 1 ELSE 0
                 said == IF e.since # AtNull THEN 1 ELSE 0
      <4>1. more \in {0, 1} /\ said \in {0, 1} /\ said <= more
        BY <3>1, <3>2
      <4>2. later.present = seen.present + more /\ later.talk = seen.talk + said
        OBVIOUS
      <4> HIDE DEF more, said
      <4>3. QED
        BY <3>1, <4>1, <4>2
    <3>4. AtIsOpen(e) => later.from <= now + 1
      <4>1. AtIsOpen(e) => seen.from \in Int
        <5>1. AtIsOpen(e) => Len(e.sessions) \in 1..Len(e.sessions)
          BY <1>1, <3>1, <1>4 DEF AtIsOpen, AtEntry
        <5>2. QED
          BY <1>1, <1>4, <5>1 DEF AtSession, AtTimes
      <4>2. QED
        BY <1>2, <3>1, <4>1
    <3>5. QED
      BY <3>1, <3>3, <3>4 DEF AtPlain
  <2>3. QED
    BY <2>1, <2>2
<1>11. QED
  BY <1>9, <1>10 DEF AtAccount

\* The running talk timer goes into the sum.
LEMMA AtBooksQuiet ==
    ASSUME NEW e, NEW seen, NEW now \in AtTimes, AtBooks(e, seen, now), seen.talk \in AtTimes
    PROVE  /\ AtBooks(AtQuiet(e, now), seen, now) /\ AtQuiet(e, now).since = AtNull
           /\ AtIsOpen(AtQuiet(e, now)) <=> AtIsOpen(e)
           /\ AtQuiet(e, now).sessions = e.sessions
<1>1. CASE e.since = AtNull
  BY <1>1 DEF AtQuiet
<1>2. CASE e.since # AtNull
  <2> DEFINE d == AtQuiet(e, now)
  <2>1. e \in AtEntry /\ now \in Int
    BY DEF AtBooks, AtTimes
  <2>2. /\ e \in [sessions : Seq(AtSession), talk : AtTimes, hadTalk : BOOLEAN,
                  since : AtTimes \cup {AtNull}]
        /\ e.since \in Int /\ e.talk \in Int
    BY <1>2, <2>1, AtBasics DEF AtEntry, AtSession, AtTimes
  <2>3. /\ d.sessions = e.sessions /\ d.talk = e.talk + now - e.since
        /\ d.hadTalk = e.hadTalk /\ d.since = AtNull
        /\ d = [e EXCEPT !.talk = e.talk + now - e.since, !.since = AtNull]
    BY <1>2, <2>2 DEF AtQuiet
  <2>4. AtRunning(e, now) = now - e.since /\ e.talk + AtRunning(e, now) = seen.talk
    BY <1>2 DEF AtRunning, AtBooks
  <2>5. d.talk = seen.talk /\ AtRunning(d, now) = 0 /\ d.talk + AtRunning(d, now) = seen.talk
    <3>1. d.talk = seen.talk /\ seen.talk \in Int
      BY <2>1, <2>2, <2>3, <2>4 DEF AtTimes
    <3>2. AtRunning(d, now) = 0
      BY <2>3 DEF AtRunning
    <3>3. QED
      BY <3>1, <3>2
  <2>6. d \in AtEntry
    <3>1. e.talk + now - e.since \in AtTimes
      BY <2>3, <2>5
    <3> HIDE DEF d
    <3>2. QED
      BY <2>2, <2>3, <3>1 DEF AtEntry, AtSession
  <2> HIDE DEF d
  <2>7. AtPresent(d, now) = AtPresent(e, now) /\ (AtIsOpen(d) <=> AtIsOpen(e))
    BY <2>3 DEF AtPresent, AtTerms, AtIsOpen
  <2>8. AtBooks(d, seen, now)
    BY <2>3, <2>5, <2>6, <2>7 DEF AtBooks
  <2>9. QED
    BY <2>3, <2>7, <2>8 DEF d
<1>3. QED
  BY <1>1, <1>2

LEMMA AtAccountQuiet ==
    ASSUME NEW e, NEW seen, NEW now \in AtTimes, AtAccount(e, seen, now), seen.talk \in AtTimes
    PROVE  /\ AtAccount(AtQuiet(e, now), seen, now) /\ AtQuiet(e, now).since = AtNull
           /\ AtIsOpen(AtQuiet(e, now)) <=> AtIsOpen(e)
<1>1. /\ AtBooks(AtQuiet(e, now), seen, now) /\ AtQuiet(e, now).since = AtNull
      /\ AtIsOpen(AtQuiet(e, now)) <=> AtIsOpen(e)
      /\ AtQuiet(e, now).sessions = e.sessions
  BY AtBooksQuiet DEF AtAccount
<1>2. AtPlain(AtQuiet(e, now), seen, now)
  BY <1>1 DEF AtAccount, AtPlain
<1>3. QED
  BY <1>1, <1>2 DEF AtAccount

\* Whoever is on the list of speakers is heard from now on.
LEMMA AtAccountHeard ==
    ASSUME NEW e, NEW seen, NEW later, NEW now \in AtTimes, AtAccount(e, seen, now),
           later.present = seen.present, later.talk = seen.talk, later.heard,
           later.from = seen.from, later.odd \/ (AtIsOpen(e) /\ (later.odd <=> seen.odd))
    PROVE  /\ AtAccount(AtTalks(e, now), later, now)
           /\ AtTalks(e, now).since # AtNull
           /\ AtIsOpen(AtTalks(e, now)) <=> AtIsOpen(e)
<1> DEFINE d == AtTalks(e, now)
           from == IF e.since = AtNull THEN now ELSE e.since
<1>1. e \in AtEntry /\ now \in Int
  BY DEF AtAccount, AtBooks, AtTimes
<1>2. /\ e \in [sessions : Seq(AtSession), talk : AtTimes, hadTalk : BOOLEAN,
                since : AtTimes \cup {AtNull}]
      /\ e.since \in Int \cup {AtNull} /\ e.talk \in Int
  BY <1>1, AtBasics DEF AtEntry, AtSession, AtTimes
<1>3. from \in AtTimes /\ from # AtNull
  BY <1>2, AtAssumption DEF AtTimes
<1>4. d = [e EXCEPT !.hadTalk = TRUE, !.since = from]
  BY <1>2 DEF AtTalks
<1>5. /\ d.sessions = e.sessions /\ d.talk = e.talk /\ d.hadTalk = TRUE /\ d.since = from
  BY <1>2, <1>4
<1>6. from <= now /\ AtRunning(d, now) = AtRunning(e, now)
  <2>1. CASE e.since = AtNull
    BY <1>1, <1>3, <1>5, <2>1 DEF AtRunning
  <2>2. CASE e.since # AtNull
    BY <1>1, <1>3, <1>5, <2>2 DEF AtRunning, AtAccount, AtBooks
  <2>3. QED
    BY <2>1, <2>2
<1>7. d \in AtEntry
  <2> HIDE DEF from
  <2>1. QED
    BY <1>2, <1>3, <1>4 DEF AtEntry, AtSession
<1> HIDE DEF d
<1>8. AtPresent(d, now) = AtPresent(e, now) /\ (AtIsOpen(d) <=> AtIsOpen(e))
  BY <1>5 DEF AtPresent, AtTerms, AtIsOpen
<1>9. e.talk + AtRunning(e, now) = seen.talk /\ AtPresent(e, now) = seen.present
  BY DEF AtAccount, AtBooks
<1>10. d.talk + AtRunning(d, now) = later.talk /\ AtPresent(d, now) = later.present
  BY <1>5, <1>6, <1>8, <1>9
<1>11. /\ Len(d.sessions) \in 0..AtMaxSessions
       /\ \A i \in 1..Len(d.sessions) - 1 : d.sessions[i].to # AtNull
       /\ \A i \in DOMAIN d.sessions : AtOut(d.sessions[i], now) <= now
       /\ AtIsOpen(d) => d.sessions[Len(d.sessions)].from = later.from
  BY <1>5, <1>8 DEF AtAccount, AtBooks
<1>12. AtBooks(d, later, now)
  <2> HIDE DEF from
  <2>1. QED
    BY <1>5, <1>6, <1>7, <1>10, <1>11 DEF AtBooks
<1>13. AtPlain(d, later, now)
  BY <1>5, <1>8 DEF AtPlain, AtAccount
<1>14. QED
  BY <1>3, <1>5, <1>8, <1>12, <1>13 DEF d, AtAccount

\* closeSession: the open session ends now, and the running talk timer with it.
LEMMA AtAccountClosed ==
    ASSUME NEW e, NEW seen, NEW now \in AtTimes, AtAccount(e, seen, now), seen.talk \in AtTimes,
           AtIsOpen(e)
    PROVE  /\ AtAccount(AtClosed(e, now), seen, now) /\ AtClosed(e, now).since = AtNull
           /\ ~AtIsOpen(AtClosed(e, now))
<1> DEFINE n == Len(e.sessions)
           s == e.sessions
           t == [s EXCEPT ![n].to = now]
           d == [e EXCEPT !.sessions = t]
<1>0. Len(e.sessions) \in 1..AtMaxSessions
  <2>1. e \in AtEntry /\ Len(e.sessions) \in 0..AtMaxSessions /\ e.sessions # <<>>
    BY DEF AtAccount, AtBooks, AtIsOpen
  <2>2. e.sessions \in Seq(AtSession) /\ e.sessions # <<>>
    BY <2>1 DEF AtEntry, AtSession
  <2>3. Len(e.sessions) # 0
    BY <2>2
  <2>4. QED
    BY <2>1, <2>3, AtAssumption
<1>1. e \in AtEntry /\ now \in Int /\ n \in 1..AtMaxSessions /\ now # AtNull
  BY <1>0, AtAssumption DEF AtAccount, AtBooks, AtTimes
<1>2. /\ e \in [sessions : Seq(AtSession), talk : AtTimes, hadTalk : BOOLEAN,
                since : AtTimes \cup {AtNull}]
      /\ s \in Seq(AtSession) /\ n \in Nat \ {0} /\ DOMAIN s = 1..n
      /\ \A i \in 1..n : s[i] \in AtSession
  <2>1. e \in [sessions : Seq(AtSession), talk : AtTimes, hadTalk : BOOLEAN,
               since : AtTimes \cup {AtNull}]
    BY <1>1 DEF AtEntry, AtSession
  <2>2. /\ s \in Seq(AtSession) /\ DOMAIN s = 1..n /\ \A i \in 1..n : s[i] \in AtSession
    BY <1>1, AtBasics
  <2>3. n \in Nat \ {0}
    BY <1>1, AtAssumption
  <2>4. QED
    BY <2>1, <2>2, <2>3
<1>3. [e EXCEPT !.sessions[Len(e.sessions)].to = now] = d
  OBVIOUS
<1>4. AtClosed(e, now) = AtQuiet(d, now)
  BY <1>3 DEF AtClosed
<1>5. s[n] = [from |-> s[n].from, to |-> AtNull] /\ s[n].from \in AtTimes
  BY <1>2 DEF AtIsOpen, AtSession
<1> HIDE DEF s
<1>6. /\ t \in Seq(AtSession) /\ Len(t) = n /\ DOMAIN t = 1..n
      /\ \A i \in 1..n : t[i] = IF i = n THEN [s[n] EXCEPT !.to = now] ELSE s[i]
  <2>1. n \in 1..n
    BY <1>2
  <2>2. [s[n] EXCEPT !.to = now] \in AtSession
    BY <1>5, <2>1 DEF AtSession
  <2>3. t = [i \in 1..n |-> IF i = n THEN [s[n] EXCEPT !.to = now] ELSE s[i]]
    BY <1>2
  <2>4. t \in [1..n -> AtSession]
    BY <1>2, <2>2, <2>3
  <2>5. n = Len(s)
    BY DEF s
  <2> HIDE DEF t, n
  <2>6. t \in Seq(AtSession)
    BY <1>2, <2>4
  <2>7. Len(t) = n
    BY <1>2, <2>4, <2>6
  <2>8. QED
    BY <2>3, <2>4, <2>6, <2>7
<1>7. t[n].to = now /\ t[n].from = s[n].from
  BY <1>2, <1>5, <1>6
<1> HIDE DEF t
<1>8. /\ d.sessions = t /\ d.talk = e.talk /\ d.hadTalk = e.hadTalk /\ d.since = e.since
      /\ d \in AtEntry
  BY <1>2, <1>6 DEF AtEntry, AtSession, s
<1> HIDE DEF d
<1>9. \A i \in 1..n : t[i].from = s[i].from /\ AtOut(t[i], now) = AtOut(s[i], now)
  <2>1. SUFFICES ASSUME NEW i \in 1..n
                 PROVE  t[i].from = s[i].from /\ AtOut(t[i], now) = AtOut(s[i], now)
    OBVIOUS
  <2>2. CASE i = n
    BY <1>1, <1>5, <1>7, <2>2 DEF AtOut
  <2>3. CASE i # n
    BY <1>6, <2>3
  <2>4. QED
    BY <2>2, <2>3
<1>10. AtPresent(d, now) = AtPresent(e, now)
  BY <1>1, <1>6, <1>8, <1>9, AtPresentAgrees DEF s, n
<1>11. ~AtIsOpen(d)
  BY <1>1, <1>6, <1>7, <1>8 DEF AtIsOpen
<1>12. AtBooks(d, seen, now)
  <2>1. \A i \in 1..n - 1 : t[i].to # AtNull
    <3>1. \A i \in 1..n - 1 : t[i] = s[i] /\ s[i].to # AtNull
      BY <1>2, <1>6 DEF AtAccount, AtBooks, s
    <3>2. QED
      BY <3>1
  <2>2. \A i \in 1..n : AtOut(t[i], now) <= now
    <3>1. \A i \in 1..n : AtOut(s[i], now) <= now
      BY <1>2 DEF AtAccount, AtBooks, s
    <3>2. QED
      BY <1>9, <3>1
  <2>3. AtRunning(d, now) = AtRunning(e, now)
    BY <1>8 DEF AtRunning
  <2>4. /\ AtPresent(d, now) = seen.present /\ d.talk + AtRunning(d, now) = seen.talk
        /\ d.since # AtNull => d.since <= now /\ d.hadTalk
        /\ d.hadTalk <=> seen.heard
    BY <1>8, <1>10, <2>3 DEF AtAccount, AtBooks
  <2>5. n \in 0..AtMaxSessions
    BY <1>1
  <2>6. QED
    BY <1>6, <1>8, <1>11, <2>1, <2>2, <2>4, <2>5 DEF AtBooks
<1>13. /\ AtBooks(AtClosed(e, now), seen, now) /\ AtClosed(e, now).since = AtNull
       /\ ~AtIsOpen(AtClosed(e, now)) /\ AtClosed(e, now).sessions = t
  <2>1. /\ AtBooks(AtQuiet(d, now), seen, now) /\ AtQuiet(d, now).since = AtNull
        /\ AtIsOpen(AtQuiet(d, now)) <=> AtIsOpen(d)
        /\ AtQuiet(d, now).sessions = d.sessions
    BY <1>12, AtBooksQuiet
  <2>2. QED
    BY <1>4, <1>8, <1>11, <2>1
<1>14. t # <<>>
  BY <1>2, <1>6
<1>15. AtPlain(AtClosed(e, now), seen, now)
  BY <1>13, <1>14 DEF AtPlain, AtAccount
<1>16. QED
  BY <1>13, <1>15 DEF AtAccount

\* openSession: who comes back has one session more.
LEMMA AtAccountReopened ==
    ASSUME NEW e, NEW seen, NEW later, NEW now \in AtTimes, AtAccount(e, seen, now),
           ~AtIsOpen(e), Len(e.sessions) < AtMaxSessions,
           later.present = seen.present, later.talk = seen.talk, later.heard <=> seen.heard,
           later.odd <=> seen.odd, later.from = now
    PROVE  LET d == [e EXCEPT !.sessions = Append(@, [from |-> now, to |-> AtNull])]
           IN  AtAccount(d, later, now) /\ AtIsOpen(d) /\ d.since = e.since
<1> DEFINE n == Len(e.sessions)
           s == e.sessions
           new == [from |-> now, to |-> AtNull]
           t == Append(s, new)
           d == [e EXCEPT !.sessions = t]
<1>1. e \in AtEntry /\ now \in Int /\ n \in 0..AtMaxSessions /\ now # AtNull
  BY AtAssumption DEF AtAccount, AtBooks, AtTimes
<1>2. /\ e \in [sessions : Seq(AtSession), talk : AtTimes, hadTalk : BOOLEAN,
                since : AtTimes \cup {AtNull}]
      /\ s \in Seq(AtSession) /\ n \in Nat /\ DOMAIN s = 1..n
  <2>1. e \in [sessions : Seq(AtSession), talk : AtTimes, hadTalk : BOOLEAN,
               since : AtTimes \cup {AtNull}]
    BY <1>1 DEF AtEntry, AtSession
  <2>2. s \in Seq(AtSession) /\ DOMAIN s = 1..n
    BY <1>1, AtBasics
  <2>3. n \in Nat
    BY <1>1, AtAssumption
  <2>4. QED
    BY <2>1, <2>2, <2>3
<1>3. new \in AtSession /\ AtOut(new, now) = now /\ new.from = now /\ new.to = AtNull
  BY DEF AtSession, AtOut
<1> HIDE DEF new
<1>4. /\ t \in Seq(AtSession) /\ Len(t) = n + 1 /\ DOMAIN t = 1..n + 1
      /\ \A i \in 1..n : t[i] = s[i]
      /\ t[n + 1] = new
  <2>1. n = Len(s)
    OBVIOUS
  <2> HIDE DEF s
  <2>2. QED
    BY <1>2, <1>3, <2>1
<1>5. /\ d.sessions = Append(e.sessions, [from |-> now, to |-> AtNull])
      /\ d.sessions = t /\ d.talk = e.talk /\ d.hadTalk = e.hadTalk /\ d.since = e.since
  BY <1>2 DEF new
<1> HIDE DEF s, t
<1>6. d \in AtEntry
  BY <1>2, <1>4 DEF AtEntry, AtSession
<1> HIDE DEF d
<1>7. AtPresent(d, now) = AtPresent(e, now)
  BY <1>1, <1>5, <1>6, AtPresentAppends
<1>8. Len(d.sessions) \in 1..AtMaxSessions /\ Len(d.sessions) \in 0..AtMaxSessions
  <2>1. n < AtMaxSessions /\ AtMaxSessions \in Nat
    BY AtAssumption
  <2> HIDE DEF n
  <2>2. QED
    BY <1>2, <1>4, <1>5, <2>1
<1>9. \A i \in 1..Len(d.sessions) - 1 : d.sessions[i].to # AtNull
  <2>1. \A i \in 1..n : t[i].to # AtNull
    <3>1. \A i \in 1..n - 1 : s[i].to # AtNull
      BY DEF AtAccount, AtBooks, s, n
    <3>2. n # 0 => s[n].to # AtNull
      <4>1. n # 0 => s # <<>>
        BY <1>2 DEF n
      <4>2. QED
        BY <4>1 DEF AtIsOpen, s, n
    <3>3. \A i \in 1..n : i = n \/ i \in 1..n - 1
      BY <1>2
    <3>4. \A i \in 1..n : s[i].to # AtNull
      BY <3>1, <3>2, <3>3
    <3>5. QED
      BY <1>4, <3>4
  <2>2. Len(t) - 1 = n
    BY <1>2, <1>4
  <2>3. QED
    BY <1>5, <2>1, <2>2
<1>10. \A i \in 1..n + 1 : AtOut(t[i], now) <= now
  <2>1. \A i \in 1..n : AtOut(s[i], now) <= now
    BY <1>2 DEF AtAccount, AtBooks, s
  <2>2. \A i \in 1..n + 1 : i = n + 1 \/ i \in 1..n
    BY <1>2
  <2>3. now <= now
    BY <1>1
  <2>4. SUFFICES ASSUME NEW i \in 1..n + 1 PROVE AtOut(t[i], now) <= now
    OBVIOUS
  <2>5. CASE i = n + 1
    BY <1>3, <1>4, <2>3, <2>5
  <2>6. CASE i \in 1..n
    BY <1>4, <2>1, <2>6
  <2>7. QED
    BY <2>2, <2>5, <2>6
<1>11. AtRunning(d, now) = AtRunning(e, now)
  BY <1>5 DEF AtRunning
<1>12. /\ AtPresent(d, now) = later.present /\ d.talk + AtRunning(d, now) = later.talk
       /\ d.since # AtNull => d.since <= now /\ d.hadTalk
       /\ d.hadTalk <=> later.heard
  BY <1>5, <1>7, <1>11 DEF AtAccount, AtBooks
<1>13. \A i \in DOMAIN d.sessions : AtOut(d.sessions[i], now) <= now
  BY <1>4, <1>5, <1>10
<1>14. d.sessions[Len(d.sessions)] = new /\ d.sessions # <<>>
  BY <1>2, <1>4, <1>5
<1>15. AtBooks(d, later, now)
  BY <1>3, <1>6, <1>8, <1>9, <1>12, <1>13, <1>14 DEF AtBooks
<1>16. AtIsOpen(d)
  BY <1>3, <1>14 DEF AtIsOpen
<1>17. AtPlain(d, later, now)
  <2>1. now <= now
    BY <1>1
  <2>2. QED
    BY <1>14, <1>16, <2>1 DEF AtPlain, AtAccount
<1>18. QED
  BY <1>5, <1>15, <1>16, <1>17 DEF d, t, s, new, AtAccount

\* The greater of two numbers.
LEMMA MaxOfTwo ==
    ASSUME NEW m \in Nat, NEW n \in Nat
    PROVE  Max({m, n}) = IF m <= n THEN n ELSE m
<1> DEFINE top == IF m <= n THEN n ELSE m
           T == {m, n}
<1>1. top \in Nat /\ T \in SUBSET (0..top) /\ T # {} /\ m \in T /\ n \in T
  OBVIOUS
<1>2. top \in T /\ \A j \in T : j <= top
  OBVIOUS
<1> HIDE DEF top, T
<1>3. Max(T) \in T /\ \A j \in T : Max(T) >= j
  BY <1>1, MaxIsGreatest
<1>4. Max(T) <= top /\ Max(T) >= top /\ Max(T) \in Nat
  <2> DEFINE max == Max(T)
  <2>1. max \in T /\ \A j \in T : max >= j
    BY <1>3
  <2> HIDE DEF max
  <2>2. max \in 0..top /\ max <= top /\ max >= top
    BY <1>1, <1>2, <2>1
  <2>3. QED
    BY <1>1, <2>2 DEF max
<1>5. Max(T) = top
  BY <1>1, <1>4
<1>6. QED
  BY <1>5 DEF T, top

\* A share of the busiest speaker's talk is of a bar of at most 100, and the longer
\* talk is the longer bar.
LEMMA AtShareOrders ==
    ASSUME NEW most \in Nat \ {0}
    PROVE  /\ \A t \in 0..most : AtShare(t, most) \in 3..100
           /\ \A s, t \in 0..most : s <= t => AtShare(s, most) <= AtShare(t, most)
<1>1. ASSUME NEW t \in 0..most
      PROVE  AtRound(100 * t, most) \in 0..100
             /\ AtShare(t, most) = IF 3 <= AtRound(100 * t, most) THEN AtRound(100 * t, most) ELSE 3
  <2> DEFINE q == (2 * (100 * t) + most) \div (2 * most)
  <2>1. 2 * (100 * t) + most \in Nat /\ 2 * most \in Nat \ {0}
        /\ 2 * (100 * t) + most < 101 * (2 * most)
    OBVIOUS
  <2>2. q \in 0..100
    <3> DEFINE n == 2 * (100 * t) + most
               d == 2 * most
    <3> HIDE DEF n, d
    <3>1. n \in Nat /\ d \in Nat \ {0} /\ n < (100 + 1) * d
      BY <2>1 DEF n, d
    <3>2. n \div d \in 0..100
      BY <3>1
    <3>3. QED
      BY <3>2 DEF n, d
  <2> HIDE DEF q
  <2>3. AtRound(100 * t, most) = q
    BY DEF AtRound, q
  <2>4. Max({3, q}) = IF 3 <= q THEN q ELSE 3
    BY <2>2, MaxOfTwo
  <2>5. QED
    BY <2>2, <2>3, <2>4 DEF AtShare
<1>2. ASSUME NEW s \in 0..most, NEW t \in 0..most, s <= t
      PROVE  AtRound(100 * s, most) <= AtRound(100 * t, most)
  <2> DEFINE m == 2 * (100 * s) + most
             n == 2 * (100 * t) + most
             d == 2 * most
  <2>1. m \in Nat /\ n \in Nat /\ d \in Nat \ {0} /\ m <= n
    BY <1>2
  <2> HIDE DEF m, n, d
  <2>2. m \div d <= n \div d
    BY <2>1
  <2>3. QED
    BY <2>2 DEF AtRound, m, n, d
<1>3. \A t \in 0..most : AtShare(t, most) \in 3..100
  <2>1. SUFFICES ASSUME NEW t \in 0..most PROVE AtShare(t, most) \in 3..100
    OBVIOUS
  <2>2. QED
    BY <1>1
<1>4. \A s, t \in 0..most : s <= t => AtShare(s, most) <= AtShare(t, most)
  <2>1. SUFFICES ASSUME NEW s \in 0..most, NEW t \in 0..most, s <= t
                 PROVE  AtShare(s, most) <= AtShare(t, most)
    OBVIOUS
  <2> DEFINE x == AtRound(100 * s, most)
             y == AtRound(100 * t, most)
  <2>2. x \in 0..100 /\ y \in 0..100 /\ x <= y
        /\ AtShare(s, most) = (IF 3 <= x THEN x ELSE 3)
        /\ AtShare(t, most) = (IF 3 <= y THEN y ELSE 3)
    BY <1>1, <1>2, <2>1
  <2> HIDE DEF x, y
  <2>3. QED
    BY <2>2
<1>5. QED
  BY <1>3, <1>4

\* Whoever has a share has talk data, and the shares are in the order of the talk.
LEMMA AtPctOrders ==
    ASSUME NEW talk, \A p \in DOMAIN talk : talk[p] \in AtTimes \cup {AtNull}
    PROVE  /\ DOMAIN AtPct(talk) = DOMAIN talk
           /\ \A p \in DOMAIN talk : AtPct(talk)[p] \in 3..100 \cup {AtNull}
           /\ \A p, q \in DOMAIN talk :
                 (AtPct(talk)[p] # AtNull /\ AtPct(talk)[q] # AtNull /\ talk[q] > talk[p])
                    => AtPct(talk)[q] >= AtPct(talk)[p]
<1> DEFINE talkers == {p \in DOMAIN talk : talk[p] # AtNull}
           T == {0} \cup {talk[p] : p \in talkers}
           most == Max(T)
           none(p) == Cardinality(talkers) < 2 \/ most = 0 \/ p \notin talkers
<1>1. DOMAIN AtPct(talk) = DOMAIN talk
      /\ \A p \in DOMAIN talk :
            AtPct(talk)[p] = IF none(p) THEN AtNull ELSE AtShare(talk[p], most)
  BY DEF AtPct
<1>2. T \in SUBSET (0..AtMaxTime) /\ T # {} /\ AtMaxTime \in Nat
  BY AtAssumption DEF AtTimes
<1>3. most \in Nat /\ \A j \in T : j <= most
  <2> HIDE DEF T
  <2>1. most \in T /\ \A j \in T : most >= j
    BY <1>2, MaxIsGreatest
  <2> HIDE DEF most
  <2>2. most \in 0..AtMaxTime /\ \A j \in T : j \in 0..AtMaxTime
    BY <1>2, <2>1
  <2>3. QED
    BY <1>2, <2>1, <2>2
<1>4. \A p \in talkers : talk[p] \in 0..most
  <2>1. SUFFICES ASSUME NEW p \in talkers PROVE talk[p] \in 0..most
    OBVIOUS
  <2>2. talk[p] \in T /\ talk[p] \in Nat
    BY <1>2
  <2> HIDE DEF most, T
  <2>3. QED
    BY <1>3, <2>2
<1>5. ASSUME NEW p \in DOMAIN talk, ~none(p)
      PROVE  most \in Nat \ {0} /\ talk[p] \in 0..most /\ AtPct(talk)[p] = AtShare(talk[p], most)
  <2>1. most # 0 /\ p \in talkers /\ AtPct(talk)[p] = AtShare(talk[p], most)
    BY <1>1, <1>5
  <2> HIDE DEF most, talkers
  <2>2. QED
    BY <1>3, <1>4, <2>1
<1>6. \A p \in DOMAIN talk : none(p) => AtPct(talk)[p] = AtNull
  BY <1>1
<1> HIDE DEF none, most
<1>7. ASSUME NEW p \in DOMAIN talk PROVE AtPct(talk)[p] \in 3..100 \cup {AtNull}
  <2>1. CASE none(p)
    BY <1>6, <2>1
  <2>2. CASE ~none(p)
    BY <1>5, <2>2, AtShareOrders
  <2>3. QED
    BY <2>1, <2>2
<1>8. ASSUME NEW p \in DOMAIN talk, NEW q \in DOMAIN talk, AtPct(talk)[p] # AtNull,
             AtPct(talk)[q] # AtNull, talk[q] > talk[p]
      PROVE  AtPct(talk)[q] >= AtPct(talk)[p]
  <2>1. ~none(p) /\ ~none(q)
    BY <1>6, <1>8
  <2>2. /\ most \in Nat \ {0} /\ talk[p] \in 0..most /\ talk[q] \in 0..most
        /\ AtPct(talk)[p] = AtShare(talk[p], most) /\ AtPct(talk)[q] = AtShare(talk[q], most)
    BY <1>5, <2>1
  <2>3. talk[p] <= talk[q]
    BY <1>8, <2>2
  <2>4. /\ AtShare(talk[p], most) <= AtShare(talk[q], most)
        /\ AtShare(talk[p], most) \in 3..100 /\ AtShare(talk[q], most) \in 3..100
    BY <2>2, <2>3, AtShareOrders
  <2>5. QED
    BY <2>2, <2>4
<1>9. QED
  BY <1>1, <1>7, <1>8

\* The talk time of one person is what was heard of them.
LEMMA AtTalkRight ==
    ASSUME NEW d, NEW seen, NEW now \in AtTimes, AtAccount(d, seen, now), seen.talk \in AtTimes
    PROVE  /\ AtTalkOf(d, now) = IF seen.heard THEN seen.talk ELSE AtNull
           /\ AtTalkOf(d, now) \in AtTimes \cup {AtNull}
<1>1. /\ d \in AtEntry
      /\ d.since # AtNull => d.since <= now
      /\ d.talk + AtRunning(d, now) = seen.talk
      /\ d.hadTalk <=> seen.heard
      /\ now \in Int
  BY DEF AtAccount, AtBooks, AtTimes
<1>2. d.since \in AtTimes \cup {AtNull}
  BY <1>1, AtBasics
<1>3. (IF d.since = AtNull THEN 0 ELSE Max({0, now - d.since})) = AtRunning(d, now)
  <2>1. CASE d.since = AtNull
    BY <2>1 DEF AtRunning
  <2>2. CASE d.since # AtNull
    <3> DEFINE x == now - d.since
    <3>1. d.since \in Int /\ d.since <= now
      BY <1>1, <1>2, <2>2 DEF AtTimes
    <3>2. x \in Nat
      BY <1>1, <3>1
    <3> HIDE DEF x
    <3>3. Max({0, x}) = x
      BY <3>2, MaxOfTwo
    <3>4. QED
      BY <2>2, <3>3 DEF AtRunning, x
  <2>3. QED
    BY <2>1, <2>2
<1>4. CASE seen.heard
  <2>1. AtTalkOf(d, now) = d.talk + AtRunning(d, now)
    BY <1>1, <1>3, <1>4 DEF AtTalkOf
  <2>2. QED
    BY <1>1, <1>4, <2>1
<1>5. CASE ~seen.heard
  BY <1>1, <1>5 DEF AtTalkOf
<1>6. QED
  BY <1>4, <1>5

\* The row of one person, built now.
LEMMA AtRowRight ==
    ASSUME NEW now \in AtTimes, AtTypeOK, AtTracked(now), NEW p \in DOMAIN atStore
    PROVE  LET row == AtBuild(now)[p]
           IN  /\ row \in AtRow
               /\ row.present = atSeen[p].present
               /\ row.talk = IF atSeen[p].heard THEN atSeen[p].talk ELSE AtNull
               /\ atSeen[p].heard /\ ~atSeen[p].odd => row.talk <= row.present
               /\ row.left = AtNull <=> p \in atHere \/ row.sessions = 0
               /\ row.sessions = 0 => atSeen[p].odd
<1> DEFINE e == atStore[p]
           s == e.sessions
           n == Len(s)
           froms == {s[i].from : i \in DOMAIN s}
           outs == {AtOut(s[i], now) : i \in DOMAIN s}
           lengths == [i \in DOMAIN s |-> AtLasted(s[i].from, AtOut(s[i], now))]
           talk == [q \in DOMAIN atStore |-> AtTalkOf(atStore[q], now)]
           open == \E i \in DOMAIN s : s[i].to = AtNull
           joined == IF s = <<>> THEN atStart ELSE Min(froms)
           left == IF s = <<>> \/ (p # AtMe /\ open) THEN AtNull ELSE Max(outs)
           row == [joined |-> joined, left |-> left, sessions |-> n,
                   present |-> AtSum(lengths, n), talk |-> talk[p], pct |-> AtPct(talk)[p]]
<1>1. AtBuild(now)[p] = row
  BY DEF AtBuild
<1>2. /\ \A q \in DOMAIN atStore : AtAccount(atStore[q], atSeen[q], now)
      /\ AtIsOpen(e) <=> p \in {AtMe} \cup atHere
      /\ now \in Int
  BY DEF AtTracked, AtTimes
<1>3. /\ e \in AtEntry /\ n \in 0..AtMaxSessions
      /\ \A i \in 1..n - 1 : s[i].to # AtNull
      /\ \A i \in DOMAIN s : AtOut(s[i], now) <= now
      /\ AtPresent(e, now) = atSeen[p].present
      /\ AtPlain(e, atSeen[p], now)
  BY <1>2 DEF AtAccount, AtBooks
<1>4. /\ s \in Seq(AtSession) /\ n \in Nat /\ DOMAIN s = 1..n
      /\ \A i \in 1..n : /\ s[i] \in AtSession /\ AtOut(s[i], now) \in Int
                         /\ AtTerms(e, now)[i] = AtLasted(s[i].from, AtOut(s[i], now))
                         /\ AtTerms(e, now)[i] \in Int
  BY <1>2, <1>3, AtBasics
<1>5. \A i \in 1..n : s[i].from \in Nat /\ s[i].from \in AtTimes
  BY <1>4 DEF AtSession, AtTimes
<1>6. \A i \in 1..n : AtOut(s[i], now) \in 0..now
  <2>1. SUFFICES ASSUME NEW i \in 1..n PROVE AtOut(s[i], now) \in 0..now
    OBVIOUS
  <2> DEFINE x == AtOut(s[i], now)
  <2>2. x \in Nat
    BY <1>4 DEF AtSession, AtTimes, AtOut
  <2>3. x <= now
    BY <1>3, <1>4
  <2> HIDE DEF x
  <2>4. x \in 0..now
    BY <1>2, <2>2, <2>3
  <2>5. QED
    BY <2>4 DEF x
<1>60. s # <<>> => n \in Nat \ {0} /\ 1 \in DOMAIN s
  <2>1. s # <<>> => Len(s) # 0
    <3> HIDE DEF s
    <3>1. QED
      BY <1>4
  <2>2. QED
    BY <1>4, <2>1
<1>61. n = 0 <=> s = <<>>
  BY <1>60
<1> HIDE DEF n
<1>7. joined \in AtTimes
  <2>1. CASE s = <<>>
    BY <2>1 DEF AtTypeOK
  <2>2. CASE s # <<>>
    <3> HIDE DEF s
    <3>1. froms \in SUBSET Nat /\ froms # {} /\ froms \subseteq AtTimes
      <4>1. 1 \in DOMAIN s /\ s[1].from \in froms
        BY <1>60, <2>2
      <4>2. \A x \in froms : x \in Nat /\ x \in AtTimes
        BY <1>4, <1>5
      <4> HIDE DEF froms
      <4>3. QED
        BY <4>1, <4>2
    <3> HIDE DEF froms
    <3>2. Min(froms) \in AtTimes
      BY <3>1, MinIsLeast
    <3>3. QED
      BY <2>2, <3>2
  <2>3. QED
    BY <2>1, <2>2
<1>8. s # <<>> => Max(outs) \in AtTimes /\ Max(outs) # AtNull
  <2> HIDE DEF s
  <2>0. SUFFICES ASSUME s # <<>> PROVE Max(outs) \in AtTimes /\ Max(outs) # AtNull
    OBVIOUS
  <2>1. outs \in SUBSET (0..now) /\ outs # {} /\ now \in Nat
    <3>1. 1 \in DOMAIN s /\ AtOut(s[1], now) \in outs
      BY <1>60, <2>0
    <3>2. \A x \in outs : x \in 0..now
      BY <1>4, <1>6
    <3>3. now \in Nat
      BY DEF AtTimes
    <3> HIDE DEF outs
    <3>4. QED
      BY <3>1, <3>2, <3>3
  <2> HIDE DEF outs
  <2>2. Max(outs) \in 0..now
    BY <2>1, MaxIsGreatest
  <2>3. QED
    BY <2>2, AtAssumption DEF AtTimes
<1>9. open <=> AtIsOpen(e)
  <2>1. CASE s = <<>>
    BY <2>1 DEF AtIsOpen
  <2>2. CASE s # <<>>
    <3>1. \A i \in 1..n : i = n \/ i \in 1..n - 1
      BY <1>4
    <3>2. n \in 1..n /\ n = Len(e.sessions)
      BY <1>60, <2>2 DEF n
    <3>3. QED
      BY <1>3, <1>4, <2>2, <3>1, <3>2 DEF AtIsOpen
  <2>3. QED
    BY <2>1, <2>2
<1>10. left = AtNull <=> p \in atHere \/ n = 0
  <2>1. AtMe \notin atHere
    BY AtAssumption DEF AtTypeOK
  <2>2. left = AtNull <=> s = <<>> \/ (p # AtMe /\ open)
    BY <1>8
  <2>3. AtIsOpen(e) => s # <<>>
    BY DEF AtIsOpen
  <2>4. QED
    BY <1>2, <1>9, <1>61, <2>1, <2>2, <2>3
<1>11. left \in AtTimes \cup {AtNull}
  BY <1>8
<1>12. AtSum(lengths, n) = atSeen[p].present
  <2> DEFINE g == AtTerms(e, now)
  <2>1. \A i \in 1..n : lengths[i] = g[i] /\ g[i] \in Int
    BY <1>4
  <2> HIDE DEF lengths, g
  <2>2. AtSum(lengths, n) = AtSum(g, n)
    BY <1>4, <2>1, SumAgrees
  <2>3. QED
    BY <1>3, <2>2 DEF AtPresent, g, n
<1>13. ASSUME NEW q \in DOMAIN atStore
       PROVE  /\ AtTalkOf(atStore[q], now) = IF atSeen[q].heard THEN atSeen[q].talk ELSE AtNull
              /\ AtTalkOf(atStore[q], now) \in AtTimes \cup {AtNull}
  <2>1. atSeen[q].talk \in AtTimes
    BY DEF AtTypeOK, AtSight
  <2>2. QED
    BY <1>2, <2>1, AtTalkRight
<1>14. AtPct(talk)[p] \in 3..100 \cup {AtNull}
  <2>1. \A q \in DOMAIN talk : talk[q] \in AtTimes \cup {AtNull}
    BY <1>13
  <2>2. p \in DOMAIN talk
    OBVIOUS
  <2> HIDE DEF talk
  <2>3. QED
    BY <2>1, <2>2, AtPctOrders
<1>15. talk[p] = AtTalkOf(atStore[p], now)
  OBVIOUS
<1>16. n \in 0..AtMaxSessions /\ atSeen[p].present \in AtTimes
  BY <1>3 DEF n, AtTypeOK, AtSight
<1>17. /\ n = 0 => atSeen[p].odd
       /\ ~atSeen[p].odd => atSeen[p].talk <= atSeen[p].present
  BY <1>3, <1>61 DEF AtPlain
<1> HIDE DEF joined, left, talk, lengths, froms, e, s
<1>18. row \in AtRow
  BY <1>7, <1>11, <1>12, <1>13, <1>14, <1>15, <1>16 DEF AtRow
<1>19. QED
  BY <1>1, <1>10, <1>12, <1>13, <1>15, <1>17, <1>18

LEMMA AtInitially == AtInit => AtInv
<1> SUFFICES ASSUME AtInit PROVE AtInv
  OBVIOUS
<1>1. 0 \in AtTimes
  BY AtAssumption DEF AtTimes
<1>2. DOMAIN AtNobody = {}
  BY DEF AtNobody
<1>3. atSeen \in [AtPeople -> AtSight]
  BY <1>1 DEF AtInit, AtUnseen, AtSight
<1>4. AtTypeOK
  BY <1>1, <1>2, <1>3 DEF AtInit, AtTypeOK
<1>5. QED
  BY <1>4 DEF AtInit, AtInv

LEMMA AtSeenIs ==
    ASSUME NEW o \in AtSight, NEW x, NEW y
    PROVE  [o EXCEPT !.present = x, !.talk = y]
             = [present |-> x, talk |-> y, heard |-> o.heard, from |-> o.from, odd |-> o.odd]
<1> DEFINE w == [o EXCEPT !.present = x, !.talk = y]
<1>1. w \in [present : {x}, talk : {y}, heard : {o.heard}, from : {o.from}, odd : {o.odd}]
  BY DEF AtSight
<1> HIDE DEF w
<1>2. w = [present |-> x, talk |-> y, heard |-> o.heard, from |-> o.from, odd |-> o.odd]
  BY <1>1
<1>3. QED
  BY <1>2 DEF w

\* The clock ticks during the call.
LEMMA AtTracksTick ==
    ASSUME AtTypeOK, AtCall, AtTick, atPhase = "call"
    PROVE  AtTypeOK' /\ AtCall'
<1>1. /\ AtTypeOK /\ AtTracked(atNow) /\ atLoud \subseteq DOMAIN atStore
      /\ \A p \in DOMAIN atStore : atStore[p].since # AtNull <=> p \in atLoud
  BY DEF AtCall
<1>2. PICK now : now = atNow
  OBVIOUS
<1>3. /\ now \in AtTimes /\ now + 1 \in AtTimes /\ atNow' = now + 1 /\ now \in Int
      /\ atStart \in Int
  <2>1. atNow \in AtTimes /\ atNow < AtMaxTime /\ atNow' = atNow + 1 /\ atStart \in AtTimes
    BY <1>1 DEF AtTick, AtTypeOK
  <2>2. QED
    BY <1>2, <2>1, AtAssumption DEF AtTimes
<1>4. /\ {AtMe} \cup atHere \subseteq DOMAIN atStore
      /\ \A p \in DOMAIN atStore :
            /\ AtAccount(atStore[p], atSeen[p], now)
            /\ AtIsOpen(atStore[p]) <=> p \in {AtMe} \cup atHere
      /\ \A p \in AtPeople \ DOMAIN atStore :
            atSeen[p] = AtUnseen
      /\ atStart <= now
      /\ \A p \in AtPeople : atSeen[p].present <= now - atStart /\ atSeen[p].talk <= now
  BY <1>1, <1>2 DEF AtTracked
<1>5. /\ UNCHANGED <<atPhase, atHere, atLoud, atStore, atStart, atEnd, atReport>>
      /\ atSeen' = [p \in AtPeople |->
           [atSeen[p] EXCEPT !.present = @ + (IF AtStays(p) THEN 1 ELSE 0),
                             !.talk = @ + (IF p \in atLoud THEN 1 ELSE 0)]]
  BY DEF AtTick
<1> DEFINE up(p) == IF AtStays(p) THEN 1 ELSE 0
           heard(p) == IF p \in atLoud THEN 1 ELSE 0
<1>6. ASSUME NEW p \in AtPeople
      PROVE  /\ atSeen[p].present \in Nat /\ atSeen[p].talk \in Nat
             /\ atSeen[p].heard \in BOOLEAN /\ atSeen[p].odd \in BOOLEAN
             /\ atSeen[p].from \in AtTimes
             /\ atSeen'[p] = [present |-> atSeen[p].present + up(p),
                              talk |-> atSeen[p].talk + heard(p), heard |-> atSeen[p].heard,
                              from |-> atSeen[p].from, odd |-> atSeen[p].odd]
             /\ up(p) \in {0, 1} /\ heard(p) \in {0, 1}
  <2> DEFINE o == atSeen[p]
             x == o.present + up(p)
             y == o.talk + heard(p)
  <2>1. o \in AtSight
    BY <1>1 DEF AtTypeOK
  <2>2. atSeen'[p] = [o EXCEPT !.present = x, !.talk = y]
    BY <1>5
  <2>3. up(p) \in {0, 1} /\ heard(p) \in {0, 1}
    OBVIOUS
  <2> HIDE DEF o, x, y
  <2>4. /\ o.present \in Nat /\ o.talk \in Nat /\ o.heard \in BOOLEAN
        /\ o.odd \in BOOLEAN /\ o.from \in AtTimes
    BY <2>1 DEF AtTimes, AtSight
  <2>5. [o EXCEPT !.present = x, !.talk = y]
          = [present |-> x, talk |-> y, heard |-> o.heard, from |-> o.from, odd |-> o.odd]
    BY <2>1, AtSeenIs
  <2>6. QED
    BY <2>2, <2>3, <2>4, <2>5 DEF o, x, y
<1>61. \A p \in AtPeople : atSeen[p].present \in Int /\ atSeen[p].talk \in Int
  BY <1>1 DEF AtTypeOK, AtSight, AtTimes
<1>7. ASSUME NEW p \in AtPeople
      PROVE  /\ atSeen'[p].present = atSeen[p].present + up(p)
             /\ atSeen'[p].talk = atSeen[p].talk + heard(p)
             /\ atSeen'[p].heard = atSeen[p].heard /\ atSeen'[p].from = atSeen[p].from
             /\ atSeen'[p].odd = atSeen[p].odd
             /\ atSeen'[p].present <= (now + 1) - atStart /\ atSeen'[p].talk <= now + 1
             /\ atSeen'[p] \in AtSight
  <2>1. /\ atSeen[p].present <= now - atStart /\ atSeen[p].talk <= now
        /\ atStart \in Nat
    BY <1>1, <1>4 DEF AtTypeOK, AtTimes
  <2> DEFINE o == atSeen[p].present
             t == atSeen[p].talk
             x == o + up(p)
             y == t + heard(p)
  <2>2. /\ o \in Nat /\ t \in Nat /\ o <= now - atStart /\ t <= now
        /\ up(p) \in {0, 1} /\ heard(p) \in {0, 1}
        /\ atSeen'[p] = [present |-> x, talk |-> y, heard |-> atSeen[p].heard,
                         from |-> atSeen[p].from, odd |-> atSeen[p].odd]
        /\ atSeen[p].heard \in BOOLEAN /\ atSeen[p].odd \in BOOLEAN
        /\ atSeen[p].from \in AtTimes
    BY <1>6, <2>1
  <2> HIDE DEF o, t, up, heard
  <2>3. x <= (now + 1) - atStart /\ y <= now + 1 /\ x \in Nat /\ y \in Nat
    BY <1>3, <2>1, <2>2
  <2> HIDE DEF x, y
  <2>4. x <= now + 1
    BY <1>3, <2>1, <2>3
  <2>5. x \in AtTimes /\ y \in AtTimes
    BY <1>3, <2>3, <2>4, AtAssumption DEF AtTimes
  <2>6. /\ atSeen'[p].present = x /\ atSeen'[p].talk = y /\ atSeen'[p].heard = atSeen[p].heard
        /\ atSeen'[p].from = atSeen[p].from /\ atSeen'[p].odd = atSeen[p].odd
        /\ atSeen'[p] \in AtSight
    BY <2>2, <2>5 DEF AtSight
  <2>7. QED
    BY <2>3, <2>6 DEF o, t, x, y
<1>8. DOMAIN atStore \subseteq AtPeople
  BY <1>1 DEF AtTypeOK
<1>9. \A p \in DOMAIN atStore : AtAccount(atStore[p], atSeen'[p], now + 1)
  <2>1. SUFFICES ASSUME NEW p \in DOMAIN atStore
                 PROVE  AtAccount(atStore[p], atSeen'[p], now + 1)
    OBVIOUS
  <2>2. p \in AtPeople
    BY <1>8
  <2>30. AtAccount(atStore[p], atSeen[p], now)
    BY <1>4
  <2>31. atSeen[p].present \in Int /\ atSeen[p].talk \in Int
    BY <1>61, <2>2
  <2>32. /\ atSeen'[p].heard = atSeen[p].heard /\ atSeen'[p].odd = atSeen[p].odd
         /\ atSeen'[p].from = atSeen[p].from
    BY <1>7, <2>2
  <2>3. /\ AtAccount(atStore[p], atSeen[p], now)
        /\ atSeen'[p].heard <=> atSeen[p].heard
        /\ atSeen'[p].from = atSeen[p].from /\ (atSeen'[p].odd <=> atSeen[p].odd)
        /\ atSeen[p].present \in Int /\ atSeen[p].talk \in Int
    BY <2>30, <2>31, <2>32
  <2>4. up(p) = IF AtGrows(atStore[p], now) THEN 1 ELSE 0
    <3>1. AtIsOpen(atStore[p])
            => atStore[p].sessions[Len(atStore[p].sessions)].from = atSeen[p].from
      BY <2>3 DEF AtAccount, AtBooks
    <3>2. AtGrows(atStore[p], now) <=> AtStays(p)
      BY <1>2, <1>4, <3>1 DEF AtGrows, AtStays
    <3>3. QED
      BY <3>2
  <2>5. heard(p) = IF atStore[p].since # AtNull THEN 1 ELSE 0
    BY <1>1
  <2> HIDE DEF up, heard
  <2>6. /\ atSeen'[p].present = atSeen[p].present + (IF AtGrows(atStore[p], now) THEN 1 ELSE 0)
        /\ atSeen'[p].talk = atSeen[p].talk + (IF atStore[p].since # AtNull THEN 1 ELSE 0)
    BY <1>7, <2>2, <2>4, <2>5
  <2>7. QED
    BY <1>3, <2>3, <2>6, AtAccountTicks
<1>10. \A p \in AtPeople \ DOMAIN atStore :
          atSeen'[p] = AtUnseen
  <2>1. SUFFICES ASSUME NEW p \in AtPeople \ DOMAIN atStore
                 PROVE  atSeen'[p] = AtUnseen
    OBVIOUS
  <2>2. p \notin {AtMe} \cup atHere /\ p \notin atLoud
    BY <1>1, <1>4
  <2>3. up(p) = 0 /\ heard(p) = 0
    BY <2>2 DEF AtStays
  <2>4. atSeen[p].present = 0 /\ atSeen[p].talk = 0 /\ atSeen[p].heard = FALSE
        /\ atSeen[p].from = 0 /\ atSeen[p].odd = FALSE
    BY <1>4 DEF AtUnseen
  <2> HIDE DEF up, heard
  <2>5. QED
    <3>1. p \in AtPeople /\ 0 + 0 = 0
      OBVIOUS
    <3>2. atSeen'[p] = [present |-> 0 + 0, talk |-> 0 + 0, heard |-> FALSE, from |-> 0,
                        odd |-> FALSE]
      BY <1>6, <2>3, <2>4, <3>1
    <3>3. QED
      BY <3>1, <3>2 DEF AtUnseen
<1>11. atSeen' \in [AtPeople -> AtSight]
  <2>1. \A p \in AtPeople : atSeen'[p] \in AtSight
    BY <1>7
  <2>2. DOMAIN atSeen' = AtPeople /\ atSeen' = [p \in AtPeople |-> atSeen'[p]]
    BY <1>5
  <2>3. QED
    BY <2>1, <2>2
<1>12. AtTypeOK'
  BY <1>1, <1>3, <1>5, <1>11 DEF AtTypeOK
<1>13. AtTracked(atNow)'
  <2>1. atStart <= now + 1
    BY <1>3, <1>4
  <2>2. \A p \in DOMAIN atStore : AtIsOpen(atStore[p]) <=> p \in {AtMe} \cup atHere
    BY <1>4
  <2>3. \A p \in AtPeople : atSeen'[p].present <= (now + 1) - atStart /\ atSeen'[p].talk <= now + 1
    BY <1>7
  <2> HIDE DEF up, heard
  <2>4. ({AtMe} \cup atHere \subseteq DOMAIN atStore)'
    BY <1>4, <1>5
  <2>5. (\A p \in DOMAIN atStore :
            /\ AtAccount(atStore[p], atSeen[p], atNow)
            /\ AtIsOpen(atStore[p]) <=> p \in {AtMe} \cup atHere)'
    BY <1>3, <1>5, <1>9, <2>2
  <2>6. (\A p \in AtPeople \ DOMAIN atStore :
            atSeen[p] = AtUnseen)'
    BY <1>5, <1>10
  <2>7. (\A p \in AtPeople : atSeen[p].present <= atNow - atStart /\ atSeen[p].talk <= atNow)'
    BY <1>3, <1>5, <2>3
  <2>8. (atStart <= atNow)'
    BY <1>3, <1>5, <2>1
  <2>9. QED
    BY <2>4, <2>5, <2>6, <2>7, <2>8 DEF AtTracked
<1>14. AtCall'
  BY <1>1, <1>5, <1>13 DEF AtCall
<1>15. QED
  BY <1>12, <1>14

\* The parts of AtTracked, at a time that no step changes.
LEMMA AtParts ==
    ASSUME AtTypeOK, NEW now \in AtTimes, AtTracked(now)
    PROVE  /\ {AtMe} \cup atHere \subseteq DOMAIN atStore /\ DOMAIN atStore \subseteq AtPeople
           /\ \A p \in DOMAIN atStore :
                 /\ AtAccount(atStore[p], atSeen[p], now)
                 /\ AtIsOpen(atStore[p]) <=> p \in {AtMe} \cup atHere
                 /\ atSeen[p].talk \in AtTimes
           /\ \A p \in AtPeople \ DOMAIN atStore :
                 atSeen[p] = AtUnseen
           /\ atStart <= now
           /\ \A p \in AtPeople : atSeen[p].present <= now - atStart /\ atSeen[p].talk <= now
           /\ atHere \subseteq AtOthers /\ AtMe \notin atHere
  BY AtAssumption DEF AtTypeOK, AtTracked, AtSight

LEMMA AtTracksGone ==
    ASSUME AtTypeOK, AtCall, NEW p \in AtOthers, AtGone(p)
    PROVE  AtTypeOK' /\ AtCall'
<1>1. PICK now : now = atNow
  OBVIOUS
<1>2. now \in AtTimes /\ AtTracked(now)
  BY <1>1 DEF AtTypeOK, AtCall
<1>3. /\ {AtMe} \cup atHere \subseteq DOMAIN atStore /\ DOMAIN atStore \subseteq AtPeople
      /\ \A q \in DOMAIN atStore :
            /\ AtAccount(atStore[q], atSeen[q], now)
            /\ AtIsOpen(atStore[q]) <=> q \in {AtMe} \cup atHere
            /\ atSeen[q].talk \in AtTimes
      /\ \A q \in AtPeople \ DOMAIN atStore :
            atSeen[q] = AtUnseen
      /\ atStart <= now
      /\ \A q \in AtPeople : atSeen[q].present <= now - atStart /\ atSeen[q].talk <= now
      /\ atHere \subseteq AtOthers /\ AtMe \notin atHere
  BY <1>2, AtParts
<1>4. /\ p \in atHere /\ atHere' = atHere \ {p} /\ atLoud' = atLoud \ {p}
      /\ atStore' = [atStore EXCEPT ![p] = AtClosed(atStore[p], now)]
      /\ UNCHANGED <<atNow, atPhase, atStart, atEnd, atReport, atSeen>>
  BY <1>1 DEF AtGone
<1>5. /\ AtAccount(AtClosed(atStore[p], now), atSeen[p], now)
      /\ AtClosed(atStore[p], now).since = AtNull
      /\ ~AtIsOpen(AtClosed(atStore[p], now))
  <2>1. p \in DOMAIN atStore
    BY <1>3, <1>4
  <2>2. AtAccount(atStore[p], atSeen[p], now) /\ AtIsOpen(atStore[p]) /\ atSeen[p].talk \in AtTimes
    BY <1>3, <1>4, <2>1
  <2>3. QED
    BY <1>2, <2>2, AtAccountClosed
<1>6. /\ DOMAIN atStore' = DOMAIN atStore
      /\ \A q \in DOMAIN atStore :
            atStore'[q] = IF q = p THEN AtClosed(atStore[p], now) ELSE atStore[q]
  BY <1>4
<1>7. \A q \in DOMAIN atStore :
         /\ AtAccount(atStore'[q], atSeen[q], now)
         /\ AtIsOpen(atStore'[q]) <=> q \in {AtMe} \cup atHere'
         /\ atStore'[q].since # AtNull <=> q \in atLoud'
  <2>1. SUFFICES ASSUME NEW q \in DOMAIN atStore
                 PROVE  /\ AtAccount(atStore'[q], atSeen[q], now)
                        /\ AtIsOpen(atStore'[q]) <=> q \in {AtMe} \cup atHere'
                        /\ atStore'[q].since # AtNull <=> q \in atLoud'
    OBVIOUS
  <2>2. CASE q = p
    <3>1. atStore'[q] = AtClosed(atStore[p], now)
      BY <1>6, <2>2
    <3>2. q \notin {AtMe} \cup atHere' /\ q \notin atLoud'
      BY <1>3, <1>4, <2>2
    <3>3. QED
      BY <1>5, <2>2, <3>1, <3>2
  <2>3. CASE q # p
    <3>1. atStore'[q] = atStore[q] /\ (q \in atHere' <=> q \in atHere) /\ (q \in atLoud' <=> q \in atLoud)
      BY <1>4, <1>6, <2>3
    <3>2. QED
      BY <1>3, <3>1 DEF AtCall
  <2>4. QED
    BY <2>2, <2>3
<1>8. AtTracked(atNow)'
  <2>1. ({AtMe} \cup atHere \subseteq DOMAIN atStore)'
    BY <1>3, <1>4, <1>6
  <2>2. (\A q \in DOMAIN atStore :
            /\ AtAccount(atStore[q], atSeen[q], atNow)
            /\ AtIsOpen(atStore[q]) <=> q \in {AtMe} \cup atHere)'
    BY <1>1, <1>4, <1>6, <1>7
  <2>3. (/\ \A q \in AtPeople \ DOMAIN atStore :
                atSeen[q] = AtUnseen
         /\ atStart <= atNow
         /\ \A q \in AtPeople : atSeen[q].present <= atNow - atStart /\ atSeen[q].talk <= atNow)'
    BY <1>1, <1>3, <1>4, <1>6
  <2>4. QED
    BY <2>1, <2>2, <2>3 DEF AtTracked
<1>9. AtCall'
  <2>1. (atLoud \subseteq DOMAIN atStore)'
    BY <1>4, <1>6 DEF AtCall
  <2>2. (\A q \in DOMAIN atStore : atStore[q].since # AtNull <=> q \in atLoud)'
    BY <1>6, <1>7
  <2>3. QED
    BY <1>8, <2>1, <2>2 DEF AtCall
<1>10. AtTypeOK'
  <2>1. \A q \in DOMAIN atStore : atStore'[q] \in AtEntry
    BY <1>7 DEF AtAccount, AtBooks
  <2>2. (atHere \in SUBSET AtOthers /\ atLoud \in SUBSET AtPeople)'
    BY <1>4 DEF AtTypeOK
  <2>3. QED
    BY <1>4, <1>6, <2>1, <2>2 DEF AtTypeOK
<1>11. QED
  BY <1>9, <1>10

LEMMA AtTracksJoin ==
    ASSUME AtTypeOK, AtCall, NEW p \in AtOthers, AtJoin(p)
    PROVE  AtTypeOK' /\ AtCall'
<1>1. PICK now : now = atNow
  OBVIOUS
<1>2. now \in AtTimes /\ AtTracked(now)
  BY <1>1 DEF AtTypeOK, AtCall
<1>3. /\ {AtMe} \cup atHere \subseteq DOMAIN atStore /\ DOMAIN atStore \subseteq AtPeople
      /\ \A q \in DOMAIN atStore :
            /\ AtAccount(atStore[q], atSeen[q], now)
            /\ AtIsOpen(atStore[q]) <=> q \in {AtMe} \cup atHere
            /\ atSeen[q].talk \in AtTimes
      /\ \A q \in AtPeople \ DOMAIN atStore :
            atSeen[q] = AtUnseen
      /\ atStart <= now
      /\ \A q \in AtPeople : atSeen[q].present <= now - atStart /\ atSeen[q].talk <= now
      /\ atHere \subseteq AtOthers /\ AtMe \notin atHere
  BY <1>2, AtParts
<1>4. /\ p \notin atHere /\ atHere' = atHere \cup {p}
      /\ p \in DOMAIN atStore => Len(atStore[p].sessions) < AtMaxSessions
      /\ atStore' = [q \in DOMAIN atStore \cup {p} |->
                       IF q = p THEN AtOpened(p, now) ELSE atStore[q]]
      /\ atSeen' = [atSeen EXCEPT ![p].from = now]
      /\ UNCHANGED <<atNow, atPhase, atLoud, atStart, atEnd, atReport>>
  BY <1>1 DEF AtJoin
<1>5. p \in AtPeople /\ p # AtMe
  BY <1>4, AtAssumption DEF AtPeople
<1>50. /\ \A q \in AtPeople : q # p => atSeen'[q] = atSeen[q]
       /\ atSeen' \in [AtPeople -> AtSight]
       /\ atSeen'[p] = [atSeen[p] EXCEPT !.from = now]
       /\ atSeen'[p].present = atSeen[p].present /\ atSeen'[p].talk = atSeen[p].talk
       /\ atSeen'[p].heard = atSeen[p].heard /\ atSeen'[p].odd = atSeen[p].odd
       /\ atSeen'[p].from = now
  <2>1. atSeen \in [AtPeople -> AtSight] /\ atSeen[p] \in AtSight
    BY <1>5 DEF AtTypeOK
  <2>2. \A q \in AtPeople : atSeen'[q] = IF q = p THEN [atSeen[p] EXCEPT !.from = now] ELSE atSeen[q]
    BY <1>4, <2>1
  <2>3. [atSeen[p] EXCEPT !.from = now] \in AtSight
    BY <1>2, <2>1 DEF AtSight
  <2>4. atSeen' = [q \in AtPeople |-> atSeen'[q]]
    BY <1>4, <2>1
  <2>5. atSeen' \in [AtPeople -> AtSight]
    BY <2>1, <2>2, <2>3, <2>4
  <2>6. atSeen'[p] = [atSeen[p] EXCEPT !.from = now]
    BY <1>5, <2>2
  <2> DEFINE o == atSeen[p]
  <2>7. o \in AtSight /\ atSeen'[p] = [o EXCEPT !.from = now]
    BY <2>1, <2>6
  <2> HIDE DEF o
  <2>8. /\ atSeen'[p].present = o.present /\ atSeen'[p].talk = o.talk
        /\ atSeen'[p].heard = o.heard /\ atSeen'[p].odd = o.odd /\ atSeen'[p].from = now
    BY <2>7 DEF AtSight
  <2>9. QED
    BY <2>2, <2>5, <2>6, <2>8 DEF o
<1>6. /\ AtAccount(AtOpened(p, now), atSeen'[p], now)
      /\ AtOpened(p, now).since # AtNull <=> p \in atLoud
      /\ AtIsOpen(AtOpened(p, now))
  <2>1. CASE p \notin DOMAIN atStore
    <3>1. AtOpened(p, now) = AtFresh(now)
      BY <2>1 DEF AtOpened
    <3>2. atSeen[p] = AtUnseen
      BY <1>3, <1>5, <2>1
    <3>3. now <= now /\ AtLasted(now, now) = 0
      BY <1>2 DEF AtTimes, AtLasted
    <3>4. /\ atSeen'[p].present = AtLasted(now, now) /\ atSeen'[p].talk = 0
          /\ ~atSeen'[p].heard /\ atSeen'[p].from = now
      BY <1>50, <3>2, <3>3 DEF AtUnseen
    <3>5. /\ AtAccount(AtFresh(now), atSeen'[p], now)
          /\ AtIsOpen(AtFresh(now)) /\ AtFresh(now).since = AtNull
      BY <1>2, <3>3, <3>4, AtAccountFresh
    <3>6. p \notin atLoud
      BY <2>1 DEF AtCall
    <3>7. QED
      BY <3>1, <3>5, <3>6
  <2>2. CASE p \in DOMAIN atStore
    <3>1. AtAccount(atStore[p], atSeen[p], now) /\ ~AtIsOpen(atStore[p])
          /\ (atStore[p].since # AtNull <=> p \in atLoud)
          /\ Len(atStore[p].sessions) < AtMaxSessions
      BY <1>3, <1>4, <1>5, <2>2 DEF AtCall
    <3>2. AtOpened(p, now)
            = [atStore[p] EXCEPT !.sessions = Append(@, [from |-> now, to |-> AtNull])]
      BY <2>2, <3>1 DEF AtOpened
    <3> DEFINE d == [atStore[p] EXCEPT !.sessions = Append(@, [from |-> now, to |-> AtNull])]
    <3>3. AtAccount(d, atSeen'[p], now) /\ AtIsOpen(d) /\ d.since = atStore[p].since
      <4> DEFINE e == atStore[p]
                 seen == atSeen[p]
                 later == atSeen'[p]
      <4>1. /\ AtAccount(e, seen, now) /\ ~AtIsOpen(e) /\ Len(e.sessions) < AtMaxSessions
            /\ later.present = seen.present /\ later.talk = seen.talk
            /\ (later.heard <=> seen.heard) /\ (later.odd <=> seen.odd) /\ later.from = now
        BY <1>50, <3>1
      <4> HIDE DEF e, seen, later
      <4>2. LET f == [e EXCEPT !.sessions = Append(@, [from |-> now, to |-> AtNull])]
            IN  AtAccount(f, later, now) /\ AtIsOpen(f) /\ f.since = e.since
        BY <1>2, <4>1, AtAccountReopened
      <4>3. QED
        BY <4>2 DEF e, seen, later
    <3> HIDE DEF d
    <3>4. AtOpened(p, now) = d
      BY <3>2 DEF d
    <3>5. QED
      BY <3>1, <3>3, <3>4
  <2>3. QED
    BY <2>1, <2>2
<1>7. /\ DOMAIN atStore' = DOMAIN atStore \cup {p}
      /\ \A q \in DOMAIN atStore' :
            atStore'[q] = IF q = p THEN AtOpened(p, now) ELSE atStore[q]
  BY <1>4
<1>8. \A q \in DOMAIN atStore' :
         /\ AtAccount(atStore'[q], atSeen'[q], now)
         /\ AtIsOpen(atStore'[q]) <=> q \in {AtMe} \cup atHere'
         /\ atStore'[q].since # AtNull <=> q \in atLoud
  <2>1. SUFFICES ASSUME NEW q \in DOMAIN atStore'
                 PROVE  /\ AtAccount(atStore'[q], atSeen'[q], now)
                        /\ AtIsOpen(atStore'[q]) <=> q \in {AtMe} \cup atHere'
                        /\ atStore'[q].since # AtNull <=> q \in atLoud
    OBVIOUS
  <2>2. CASE q = p
    <3>1. atStore'[q] = AtOpened(p, now)
      BY <1>7, <2>2
    <3>2. q \in {AtMe} \cup atHere'
      BY <1>4, <2>2
    <3>3. QED
      BY <1>6, <2>2, <3>1, <3>2
  <2>3. CASE q # p
    <3>1. /\ atStore'[q] = atStore[q] /\ (q \in atHere' <=> q \in atHere) /\ q \in DOMAIN atStore
          /\ atSeen'[q] = atSeen[q]
      BY <1>3, <1>4, <1>7, <1>50, <2>3
    <3>2. QED
      BY <1>3, <3>1 DEF AtCall
  <2>4. QED
    BY <2>2, <2>3
<1>9. AtTracked(atNow)'
  <2>1. ({AtMe} \cup atHere \subseteq DOMAIN atStore)'
    BY <1>3, <1>4, <1>7
  <2>2. (\A q \in DOMAIN atStore :
            /\ AtAccount(atStore[q], atSeen[q], atNow)
            /\ AtIsOpen(atStore[q]) <=> q \in {AtMe} \cup atHere)'
    BY <1>1, <1>4, <1>8
  <2>3. (/\ \A q \in AtPeople \ DOMAIN atStore :
                atSeen[q] = AtUnseen
         /\ atStart <= atNow
         /\ \A q \in AtPeople : atSeen[q].present <= atNow - atStart /\ atSeen[q].talk <= atNow)'
    <3>1. \A q \in AtPeople : atSeen'[q].present = atSeen[q].present /\ atSeen'[q].talk = atSeen[q].talk
      BY <1>50
    <3>2. \A q \in AtPeople \ DOMAIN atStore' : atSeen'[q] = AtUnseen
      BY <1>3, <1>7, <1>50
    <3>3. QED
      BY <1>1, <1>3, <1>4, <3>1, <3>2
  <2>4. QED
    BY <2>1, <2>2, <2>3 DEF AtTracked
<1>10. AtCall'
  <2>1. (atLoud \subseteq DOMAIN atStore)'
    BY <1>4, <1>7 DEF AtCall
  <2>2. (\A q \in DOMAIN atStore : atStore[q].since # AtNull <=> q \in atLoud)'
    BY <1>4, <1>8
  <2>3. QED
    BY <1>9, <2>1, <2>2 DEF AtCall
<1>11. AtTypeOK'
  <2>1. \A q \in DOMAIN atStore' : atStore'[q] \in AtEntry
    BY <1>8 DEF AtAccount, AtBooks
  <2>2. (atHere \in SUBSET AtOthers /\ DOMAIN atStore \subseteq AtPeople)'
    BY <1>3, <1>4, <1>5, <1>7
  <2>3. QED
    BY <1>4, <1>50, <2>1, <2>2 DEF AtTypeOK
<1>12. QED
  BY <1>10, <1>11

LEMMA AtTracksSpeakers ==
    ASSUME AtTypeOK, AtCall, AtSpeakers
    PROVE  AtTypeOK' /\ AtCall'
<1>1. PICK now : now = atNow
  OBVIOUS
<1>2. now \in AtTimes /\ AtTracked(now)
  BY <1>1 DEF AtTypeOK, AtCall
<1>3. /\ {AtMe} \cup atHere \subseteq DOMAIN atStore /\ DOMAIN atStore \subseteq AtPeople
      /\ \A q \in DOMAIN atStore :
            /\ AtAccount(atStore[q], atSeen[q], now)
            /\ AtIsOpen(atStore[q]) <=> q \in {AtMe} \cup atHere
            /\ atSeen[q].talk \in AtTimes
      /\ \A q \in AtPeople \ DOMAIN atStore :
            atSeen[q] = AtUnseen
      /\ atStart <= now
      /\ \A q \in AtPeople : atSeen[q].present <= now - atStart /\ atSeen[q].talk <= now
      /\ atHere \subseteq AtOthers /\ AtMe \notin atHere
  BY <1>2, AtParts
<1>4. PICK speakers \in SUBSET AtPeople :
         /\ atLoud' = speakers
         /\ atStore' = AtHeard(speakers)
         /\ atSeen' = [p \in AtPeople |->
              [atSeen[p] EXCEPT !.heard = @ \/ p \in speakers,
                                !.odd = @ \/ p \in speakers \ ({AtMe} \cup atHere)]]
  BY DEF AtSpeakers
<1>5. UNCHANGED <<atNow, atPhase, atHere, atStart, atEnd, atReport>>
  BY DEF AtSpeakers
<1> DEFINE old(q) == IF q \in DOMAIN atStore THEN atStore[q] ELSE AtKnown
<1>6. /\ DOMAIN atStore' = DOMAIN atStore \cup speakers
      /\ \A q \in DOMAIN atStore' :
            atStore'[q] = IF q \notin speakers THEN AtQuiet(atStore[q], now)
                          ELSE AtTalks(old(q), now)
  BY <1>1, <1>4 DEF AtHeard
<1>7. ASSUME NEW q \in AtPeople
      PROVE  /\ atSeen'[q].present = atSeen[q].present /\ atSeen'[q].talk = atSeen[q].talk
             /\ atSeen'[q].from = atSeen[q].from
             /\ q \in speakers => atSeen'[q].heard
             /\ q \in speakers /\ q \notin {AtMe} \cup atHere => atSeen'[q].odd
             /\ q \in {AtMe} \cup atHere => (atSeen'[q].odd <=> atSeen[q].odd)
             /\ q \notin speakers => atSeen'[q] = atSeen[q]
             /\ atSeen'[q] \in AtSight
  <2> DEFINE o == atSeen[q]
             heard == o.heard \/ q \in speakers
             odd == o.odd \/ q \in speakers \ ({AtMe} \cup atHere)
  <2>1. o \in AtSight
    BY DEF AtTypeOK
  <2>2. atSeen'[q] = [o EXCEPT !.heard = heard, !.odd = odd]
    BY <1>4
  <2>3. /\ heard \in BOOLEAN /\ odd \in BOOLEAN
        /\ q \in speakers => heard = TRUE
        /\ q \in speakers /\ q \notin {AtMe} \cup atHere => odd = TRUE
        /\ q \in {AtMe} \cup atHere => odd = o.odd
        /\ q \notin speakers => heard = o.heard /\ odd = o.odd
    BY <2>1 DEF AtSight
  <2> HIDE DEF o, heard, odd
  <2>4. /\ atSeen'[q] \in AtSight /\ atSeen'[q].present = o.present /\ atSeen'[q].talk = o.talk
        /\ atSeen'[q].from = o.from /\ atSeen'[q].heard = heard /\ atSeen'[q].odd = odd
    BY <2>1, <2>2, <2>3 DEF AtSight
  <2>5. q \notin speakers => atSeen'[q] = o
    <3>1. [o EXCEPT !.heard = o.heard, !.odd = o.odd] = o
      BY <2>1 DEF AtSight
    <3>2. QED
      BY <2>2, <2>3, <3>1
  <2>6. QED
    BY <2>3, <2>4, <2>5 DEF o
<1>70. ASSUME NEW q \in AtPeople, q \in speakers
       PROVE  /\ AtAccount(AtTalks(old(q), now), atSeen'[q], now)
              /\ AtTalks(old(q), now).since # AtNull
              /\ AtIsOpen(AtTalks(old(q), now)) <=> q \in {AtMe} \cup atHere
  <2>1. /\ atSeen'[q].present = atSeen[q].present /\ atSeen'[q].talk = atSeen[q].talk
        /\ atSeen'[q].heard /\ atSeen'[q].from = atSeen[q].from
    BY <1>7, <1>70
  <2>2. CASE q \in DOMAIN atStore
    <3>1. AtAccount(atStore[q], atSeen[q], now) /\ (AtIsOpen(atStore[q]) <=> q \in {AtMe} \cup atHere)
      BY <1>3, <2>2
    <3>2. atSeen'[q].odd \/ (AtIsOpen(atStore[q]) /\ (atSeen'[q].odd <=> atSeen[q].odd))
      BY <1>7, <1>70, <3>1
    <3>3. /\ AtAccount(AtTalks(atStore[q], now), atSeen'[q], now)
          /\ AtTalks(atStore[q], now).since # AtNull
          /\ AtIsOpen(AtTalks(atStore[q], now)) <=> AtIsOpen(atStore[q])
      BY <1>2, <2>1, <3>1, <3>2, AtAccountHeard
    <3>4. QED
      BY <2>2, <3>1, <3>3
  <2>3. CASE q \notin DOMAIN atStore
    <3>1. q \notin {AtMe} \cup atHere /\ atSeen'[q].odd
      BY <1>3, <1>7, <1>70, <2>3
    <3> DEFINE w == [AtUnseen EXCEPT !.odd = TRUE]
    <3>2. w.present = 0 /\ w.talk = 0 /\ ~w.heard /\ w.odd /\ w.from = 0
      BY DEF AtUnseen
    <3>3. atSeen[q].present = 0 /\ atSeen[q].talk = 0 /\ atSeen[q].from = 0
      BY <1>3, <2>3 DEF AtUnseen
    <3> HIDE DEF w
    <3>4. /\ AtAccount(AtKnown, w, now) /\ ~AtIsOpen(AtKnown)
      BY <1>2, <3>2, AtAccountKnown
    <3>5. /\ atSeen'[q].present = w.present /\ atSeen'[q].talk = w.talk
          /\ atSeen'[q].from = w.from
      BY <2>1, <3>2, <3>3
    <3>6. /\ AtAccount(AtTalks(AtKnown, now), atSeen'[q], now)
          /\ AtTalks(AtKnown, now).since # AtNull
          /\ AtIsOpen(AtTalks(AtKnown, now)) <=> AtIsOpen(AtKnown)
      BY <1>2, <2>1, <3>1, <3>4, <3>5, AtAccountHeard
    <3>7. QED
      BY <2>3, <3>1, <3>4, <3>6
  <2>4. QED
    BY <2>2, <2>3
<1> HIDE DEF old
<1>8. \A q \in DOMAIN atStore' :
         /\ AtAccount(atStore'[q], atSeen'[q], now)
         /\ AtIsOpen(atStore'[q]) <=> q \in {AtMe} \cup atHere
         /\ atStore'[q].since # AtNull <=> q \in speakers
  <2>1. SUFFICES ASSUME NEW q \in DOMAIN atStore'
                 PROVE  /\ AtAccount(atStore'[q], atSeen'[q], now)
                        /\ AtIsOpen(atStore'[q]) <=> q \in {AtMe} \cup atHere
                        /\ atStore'[q].since # AtNull <=> q \in speakers
    OBVIOUS
  <2>2. q \in AtPeople
    BY <1>3, <1>6
  <2>4. CASE q \in speakers
    BY <1>6, <1>70, <2>2, <2>4
  <2>5. CASE q \notin speakers
    <3>0. q \in DOMAIN atStore
      BY <1>6, <2>5
    <3>1. atStore'[q] = AtQuiet(atStore[q], now) /\ atSeen'[q] = atSeen[q]
      BY <1>6, <1>7, <2>2, <2>5
    <3>2. AtAccount(atStore[q], atSeen[q], now) /\ atSeen[q].talk \in AtTimes
          /\ (AtIsOpen(atStore[q]) <=> q \in {AtMe} \cup atHere)
      BY <1>3, <3>0
    <3>3. /\ AtAccount(AtQuiet(atStore[q], now), atSeen[q], now)
          /\ AtQuiet(atStore[q], now).since = AtNull
          /\ AtIsOpen(AtQuiet(atStore[q], now)) <=> AtIsOpen(atStore[q])
      BY <1>2, <3>2, AtAccountQuiet
    <3>4. QED
      BY <2>5, <3>1, <3>2, <3>3
  <2>6. QED
    BY <2>4, <2>5
<1>9. AtTracked(atNow)'
  <2>1. ({AtMe} \cup atHere \subseteq DOMAIN atStore)'
    BY <1>3, <1>5, <1>6
  <2>2. (\A q \in DOMAIN atStore :
            /\ AtAccount(atStore[q], atSeen[q], atNow)
            /\ AtIsOpen(atStore[q]) <=> q \in {AtMe} \cup atHere)'
    BY <1>1, <1>5, <1>6, <1>8
  <2>3. (\A q \in AtPeople \ DOMAIN atStore :
            atSeen[q] = AtUnseen)'
    <3>1. \A q \in AtPeople \ DOMAIN atStore' : q \notin speakers /\ q \notin DOMAIN atStore
      BY <1>6
    <3>2. QED
      BY <1>3, <1>7, <3>1
  <2>4. (/\ atStart <= atNow
         /\ \A q \in AtPeople : atSeen[q].present <= atNow - atStart /\ atSeen[q].talk <= atNow)'
    BY <1>1, <1>3, <1>5, <1>7
  <2>5. QED
    BY <2>1, <2>2, <2>3, <2>4 DEF AtTracked
<1>10. AtCall'
  <2>1. (atLoud \subseteq DOMAIN atStore)'
    BY <1>4, <1>6
  <2>2. (\A q \in DOMAIN atStore : atStore[q].since # AtNull <=> q \in atLoud)'
    BY <1>4, <1>6, <1>8
  <2>3. QED
    BY <1>9, <2>1, <2>2 DEF AtCall
<1>11. AtTypeOK'
  <2>1. \A q \in DOMAIN atStore' : atStore'[q] \in AtEntry
    BY <1>8 DEF AtAccount, AtBooks
  <2>2. (atLoud \in SUBSET AtPeople)'
    BY <1>4
  <2>3. (atSeen \in [AtPeople -> AtSight])'
    <3>1. \A q \in AtPeople : atSeen'[q] \in AtSight
      BY <1>7
    <3>2. atSeen' = [q \in AtPeople |-> atSeen'[q]]
      BY <1>4
    <3>3. QED
      BY <3>1, <3>2
  <2>4. QED
    BY <1>3, <1>4, <1>5, <1>6, <2>1, <2>2, <2>3 DEF AtTypeOK
<1>12. QED
  BY <1>10, <1>11

LEMMA AtTracksMount ==
    ASSUME AtTypeOK, atLoud = {}, AtMount
    PROVE  AtTypeOK' /\ AtCall'
<1>1. PICK now : now = atNow
  OBVIOUS
<1>2. now \in AtTimes /\ now \in Nat /\ 0 \in AtTimes
  BY <1>1, AtAssumption DEF AtTypeOK, AtTimes
<1>3. PICK here \in SUBSET AtOthers : \E said \in [{AtMe} \cup here -> AtTimes \cup {AtNull}] :
        LET at(p) == IF said[p] = AtNull THEN atNow ELSE said[p]
        IN  /\ atHere' = here
            /\ atStore' = [p \in {AtMe} \cup here |-> AtFresh(at(p))]
            /\ atStart' = Min({atNow} \cup {at(p) : p \in {AtMe} \cup here})
            /\ atSeen' = [p \in AtPeople |->
                            IF p \notin {AtMe} \cup here THEN AtUnseen
                            ELSE [AtUnseen EXCEPT !.present = AtLasted(at(p), atNow),
                                                  !.from = at(p), !.odd = at(p) > atNow]]
  BY DEF AtMount
<1>4. PICK said \in [{AtMe} \cup here -> AtTimes \cup {AtNull}] :
        LET at(p) == IF said[p] = AtNull THEN atNow ELSE said[p]
        IN  /\ atHere' = here
            /\ atStore' = [p \in {AtMe} \cup here |-> AtFresh(at(p))]
            /\ atStart' = Min({atNow} \cup {at(p) : p \in {AtMe} \cup here})
            /\ atSeen' = [p \in AtPeople |->
                            IF p \notin {AtMe} \cup here THEN AtUnseen
                            ELSE [AtUnseen EXCEPT !.present = AtLasted(at(p), atNow),
                                                  !.from = at(p), !.odd = at(p) > atNow]]
  BY <1>3
<1> DEFINE at(p) == IF said[p] = AtNull THEN now ELSE said[p]
           in == {AtMe} \cup here
           froms == {now} \cup {at(p) : p \in in}
           first(p) == [AtUnseen EXCEPT !.present = AtLasted(at(p), now),
                                        !.from = at(p), !.odd = at(p) > now]
<1>5. /\ atHere' = here /\ atPhase' = "call"
      /\ atStore' = [p \in in |-> AtFresh(at(p))]
      /\ atStart' = Min(froms)
      /\ atSeen' = [p \in AtPeople |-> IF p \notin in THEN AtUnseen ELSE first(p)]
      /\ UNCHANGED <<atNow, atLoud, atEnd, atReport>>
  <2>1. atPhase' = "call" /\ UNCHANGED <<atNow, atLoud, atEnd, atReport>>
    BY DEF AtMount
  <2>2. atHere' = here /\ atStore' = [p \in in |-> AtFresh(at(p))]
    BY <1>1, <1>4
  <2>3. atStart' = Min(froms)
    BY <1>1, <1>4
  <2>4. atSeen' = [p \in AtPeople |-> IF p \notin in THEN AtUnseen ELSE first(p)]
    BY <1>1, <1>4
  <2>5. QED
    BY <2>1, <2>2, <2>3, <2>4
<1>6. in \subseteq AtPeople
  BY DEF AtPeople
<1>7. \A p \in in : at(p) \in AtTimes
  <2>1. SUFFICES ASSUME NEW p \in in PROVE at(p) \in AtTimes
    OBVIOUS
  <2>2. said[p] \in AtTimes \cup {AtNull}
    OBVIOUS
  <2>3. QED
    BY <1>2, <2>2
<1>70. ASSUME NEW p \in in
       PROVE  /\ first(p) \in AtSight /\ first(p).present = AtLasted(at(p), now)
              /\ first(p).talk = 0 /\ first(p).heard = FALSE /\ first(p).from = at(p)
              /\ first(p).odd = (at(p) > now)
  <2>1. at(p) \in AtTimes
    BY <1>7
  <2> HIDE DEF at
  <2>2. AtLasted(at(p), now) \in AtTimes
    BY <1>2, <2>1, AtAssumption DEF AtTimes, AtLasted
  <2> DEFINE x == AtLasted(at(p), now)
             f == at(p)
             b == f > now
  <2>3. x \in AtTimes /\ f \in AtTimes /\ b \in BOOLEAN
    BY <2>1, <2>2
  <2> HIDE DEF x, f, b
  <2> DEFINE w == [AtUnseen EXCEPT !.present = x, !.from = f, !.odd = b]
  <2>4. w \in [present : {x}, talk : {0}, heard : {FALSE}, from : {f}, odd : {b}]
    BY DEF AtUnseen
  <2> HIDE DEF w
  <2>5. /\ w \in AtSight /\ w.present = x /\ w.talk = 0 /\ w.heard = FALSE
        /\ w.from = f /\ w.odd = b
    BY <1>2, <2>3, <2>4 DEF AtSight
  <2>6. first(p) = w
    BY DEF w, x, f, b
  <2> HIDE DEF first
  <2>7. QED
    BY <2>5, <2>6 DEF x, f, b
<1> HIDE DEF at
<1>8. froms \in SUBSET AtTimes /\ now \in froms /\ \A p \in in : at(p) \in froms
  BY <1>2, <1>7
<1>9. Min(froms) \in 0..now /\ \A p \in in : Min(froms) <= at(p)
  <2> HIDE DEF froms
  <2>1. froms \in SUBSET Nat /\ froms # {}
    BY <1>8 DEF AtTimes
  <2>2. Min(froms) \in froms /\ \A j \in froms : Min(froms) <= j
    BY <2>1, MinIsLeast
  <2>3. Min(froms) <= now /\ Min(froms) \in Nat
    BY <1>8, <2>1, <2>2
  <2>4. \A p \in in : Min(froms) <= at(p)
    <3> HIDE DEF in
    <3>1. QED
      BY <1>8, <2>2
  <2>5. QED
    BY <1>2, <2>3, <2>4
<1>10. \A x \in 0..now : x \in AtTimes /\ now - x \in AtTimes
  BY <1>2, AtAssumption DEF AtTimes
<1> HIDE DEF in, froms, first
<1>11. ASSUME NEW p \in in
       PROVE  /\ AtAccount(atStore'[p], atSeen'[p], now) /\ AtIsOpen(atStore'[p])
              /\ atStore'[p].since = AtNull
              /\ atSeen'[p] \in AtSight
              /\ atSeen'[p].present <= now - atStart' /\ atSeen'[p].talk <= now
  <2>1. atStore'[p] = AtFresh(at(p)) /\ atSeen'[p] = first(p)
    BY <1>5, <1>6
  <2>2. at(p) \in AtTimes /\ at(p) \in Int /\ Min(froms) <= at(p) /\ Min(froms) \in 0..now
    BY <1>7, <1>9 DEF AtTimes
  <2>3. AtLasted(at(p), now) <= now - Min(froms)
    BY <1>2, <2>2 DEF AtLasted
  <2>4. /\ AtAccount(AtFresh(at(p)), first(p), now)
        /\ AtIsOpen(AtFresh(at(p))) /\ AtFresh(at(p)).since = AtNull
    <3> DEFINE f == at(p)
               seen == first(p)
    <3>1. /\ seen.present = AtLasted(f, now) /\ seen.talk = 0 /\ ~seen.heard
          /\ seen.from = f /\ (seen.odd \/ f <= now) /\ f \in AtTimes
      <4>1. f > now \/ f <= now
        BY <1>2, <2>2
      <4>2. QED
        BY <1>70, <2>2, <4>1
    <3> HIDE DEF f, seen
    <3>2. /\ AtAccount(AtFresh(f), seen, now)
          /\ AtIsOpen(AtFresh(f)) /\ AtFresh(f).since = AtNull
      BY <1>2, <3>1, AtAccountFresh
    <3>3. QED
      BY <3>2 DEF f, seen
  <2>5. atSeen'[p] \in AtSight
    BY <1>70, <2>1
  <2>6. atSeen'[p].present <= now - atStart' /\ atSeen'[p].talk <= now
    <3>1. atSeen'[p].present = AtLasted(at(p), now) /\ atSeen'[p].talk = 0
      BY <1>70, <2>1
    <3>2. QED
      BY <1>2, <1>5, <2>3, <3>1
  <2>7. QED
    BY <2>1, <2>4, <2>5, <2>6
<1>12. ASSUME NEW p \in AtPeople \ in
       PROVE  /\ atSeen'[p] = AtUnseen
              /\ atSeen'[p] \in AtSight
              /\ atSeen'[p].present <= now - atStart' /\ atSeen'[p].talk <= now
  <2>1. atSeen'[p] = AtUnseen
    BY <1>5
  <2>2. 0 \in AtTimes /\ 0 <= now - atStart' /\ 0 <= now
    BY <1>2, <1>5, <1>9, AtAssumption DEF AtTimes
  <2>3. AtUnseen \in AtSight /\ AtUnseen.present = 0 /\ AtUnseen.talk = 0
    BY <2>2 DEF AtUnseen, AtSight
  <2>4. QED
    BY <2>1, <2>2, <2>3
<1>13. DOMAIN atStore' = in /\ {AtMe} \cup atHere' = in
  BY <1>5 DEF in
<1>14. AtTracked(atNow)'
  <2>1. ({AtMe} \cup atHere \subseteq DOMAIN atStore)'
    BY <1>13
  <2>2. (\A q \in DOMAIN atStore :
            /\ AtAccount(atStore[q], atSeen[q], atNow)
            /\ AtIsOpen(atStore[q]) <=> q \in {AtMe} \cup atHere)'
    <3>1. SUFFICES ASSUME NEW q \in in
                   PROVE  /\ AtAccount(atStore'[q], atSeen'[q], atNow')
                          /\ AtIsOpen(atStore'[q]) <=> q \in in
      BY <1>13
    <3>2. AtAccount(atStore'[q], atSeen'[q], now) /\ AtIsOpen(atStore'[q])
      BY <1>11
    <3>3. atNow' = now
      BY <1>1, <1>5
    <3>4. AtAccount(atStore'[q], atSeen'[q], atNow')
      BY <3>2, <3>3
    <3>5. QED
      BY <3>2, <3>4
  <2>3. (\A q \in AtPeople \ DOMAIN atStore :
            atSeen[q] = AtUnseen)'
    BY <1>12, <1>13
  <2>4. (\A q \in AtPeople : atSeen[q].present <= atNow - atStart /\ atSeen[q].talk <= atNow)'
    <3>1. \A q \in AtPeople : atSeen'[q].present <= now - atStart' /\ atSeen'[q].talk <= now
      BY <1>11, <1>12
    <3>2. QED
      BY <1>1, <1>5, <3>1
  <2>5. (atStart <= atNow)'
    BY <1>1, <1>2, <1>5, <1>9
  <2>6. QED
    BY <2>1, <2>2, <2>3, <2>4, <2>5 DEF AtTracked
<1>15. AtCall'
  BY <1>5, <1>11, <1>13, <1>14 DEF AtCall
<1>16. AtTypeOK'
  <2>1. \A q \in in : atStore'[q] \in AtEntry
    BY <1>11 DEF AtAccount, AtBooks
  <2>2. atStart' \in AtTimes
    BY <1>5, <1>9, <1>10
  <2>3. \A q \in AtPeople : atSeen'[q] \in AtSight
    BY <1>11, <1>12
  <2>4. atSeen' = [q \in AtPeople |-> atSeen'[q]]
    BY <1>5
  <2>5. atSeen' \in [AtPeople -> AtSight]
    BY <2>3, <2>4
  <2>6. QED
    BY <1>5, <1>6, <1>13, <2>1, <2>2, <2>5 DEF AtTypeOK
<1>17. QED
  BY <1>15, <1>16

\* The timers are stopped, and everyone's account still stands.
LEMMA AtCleanedStands ==
    ASSUME AtTypeOK, AtCall, NEW now, now = atNow, atStore' = AtCleaned,
           UNCHANGED <<atHere, atStart, atSeen>>
    PROVE  /\ AtTracked(now)' /\ DOMAIN atStore' = DOMAIN atStore
           /\ \A p \in DOMAIN atStore : atStore'[p].since = AtNull /\ atStore'[p] \in AtEntry
<1>1. now \in AtTimes /\ AtTracked(now)
  BY DEF AtTypeOK, AtCall
<1>2. /\ {AtMe} \cup atHere \subseteq DOMAIN atStore /\ DOMAIN atStore \subseteq AtPeople
      /\ \A q \in DOMAIN atStore :
            /\ AtAccount(atStore[q], atSeen[q], now)
            /\ AtIsOpen(atStore[q]) <=> q \in {AtMe} \cup atHere
            /\ atSeen[q].talk \in AtTimes
      /\ \A q \in AtPeople \ DOMAIN atStore :
            atSeen[q] = AtUnseen
      /\ atStart <= now
      /\ \A q \in AtPeople : atSeen[q].present <= now - atStart /\ atSeen[q].talk <= now
  BY <1>1, AtParts
<1>3. /\ DOMAIN atStore' = DOMAIN atStore
      /\ \A q \in DOMAIN atStore : atStore'[q] = AtQuiet(atStore[q], now)
  BY DEF AtCleaned
<1>4. \A q \in DOMAIN atStore :
         /\ AtAccount(atStore'[q], atSeen[q], now) /\ atStore'[q].since = AtNull
         /\ AtIsOpen(atStore'[q]) <=> q \in {AtMe} \cup atHere
  <2>1. SUFFICES ASSUME NEW q \in DOMAIN atStore
                 PROVE  /\ AtAccount(atStore'[q], atSeen[q], now) /\ atStore'[q].since = AtNull
                        /\ AtIsOpen(atStore'[q]) <=> q \in {AtMe} \cup atHere
    OBVIOUS
  <2>2. /\ AtAccount(AtQuiet(atStore[q], now), atSeen[q], now)
        /\ AtQuiet(atStore[q], now).since = AtNull
        /\ AtIsOpen(AtQuiet(atStore[q], now)) <=> AtIsOpen(atStore[q])
    BY <1>1, <1>2, AtAccountQuiet
  <2>3. QED
    BY <1>2, <1>3, <2>2
<1>5. AtTracked(now)'
  <2>1. (\A q \in DOMAIN atStore :
            /\ AtAccount(atStore[q], atSeen[q], now)
            /\ AtIsOpen(atStore[q]) <=> q \in {AtMe} \cup atHere)'
    BY <1>3, <1>4
  <2>2. (/\ {AtMe} \cup atHere \subseteq DOMAIN atStore
         /\ \A q \in AtPeople \ DOMAIN atStore :
                atSeen[q] = AtUnseen
         /\ atStart <= now
         /\ \A q \in AtPeople : atSeen[q].present <= now - atStart /\ atSeen[q].talk <= now)'
    BY <1>2, <1>3
  <2>3. QED
    BY <2>1, <2>2 DEF AtTracked
<1>6. QED
  BY <1>3, <1>4, <1>5 DEF AtAccount, AtBooks

\* A report built of what was tracked until the end counts it right.
LEMMA AtReportRight ==
    ASSUME AtTypeOK, NEW end \in AtTimes, AtTracked(end), atReport' = AtBuild(end),
           atEnd' = end, UNCHANGED <<atHere, atStart, atSeen>>
    PROVE  AtCounts' /\ \A p \in DOMAIN atReport' : atReport'[p] \in AtRow
<1> DEFINE talk == [q \in DOMAIN atStore |-> AtTalkOf(atStore[q], end)]
<1>1. /\ DOMAIN atReport' = DOMAIN atStore
      /\ \A p \in DOMAIN atStore :
            atReport'[p].talk = talk[p] /\ atReport'[p].pct = AtPct(talk)[p]
  BY DEF AtBuild
<1>2. \A p \in DOMAIN atStore :
         /\ atReport'[p] \in AtRow
         /\ atReport'[p].present = atSeen[p].present
         /\ atReport'[p].talk = IF atSeen[p].heard THEN atSeen[p].talk ELSE AtNull
         /\ atSeen[p].heard /\ ~atSeen[p].odd => atReport'[p].talk <= atReport'[p].present
         /\ atReport'[p].left = AtNull <=> p \in atHere \/ atReport'[p].sessions = 0
         /\ atReport'[p].sessions = 0 => atSeen[p].odd
  BY AtRowRight
<1>3. \A p \in DOMAIN atStore : talk[p] \in AtTimes \cup {AtNull}
  <2>1. SUFFICES ASSUME NEW p \in DOMAIN atStore PROVE talk[p] \in AtTimes \cup {AtNull}
    OBVIOUS
  <2>2. atReport'[p] \in AtRow /\ atReport'[p].talk = talk[p]
    BY <1>1, <1>2
  <2> HIDE DEF talk
  <2>3. atReport'[p].talk \in AtTimes \cup {AtNull}
    BY <2>2 DEF AtRow
  <2>4. QED
    BY <2>2, <2>3
<1>4. \A p, q \in DOMAIN atStore :
         (AtPct(talk)[p] # AtNull /\ AtPct(talk)[q] # AtNull /\ talk[q] > talk[p])
            => AtPct(talk)[q] >= AtPct(talk)[p]
  <2>1. DOMAIN talk = DOMAIN atStore
    OBVIOUS
  <2> HIDE DEF talk
  <2>2. QED
    BY <1>3, <2>1, AtPctOrders
<1>5. \A p \in DOMAIN atStore : atSeen[p].present <= end - atStart
  BY AtParts
<1> HIDE DEF talk
<1>6. ASSUME NEW p \in DOMAIN atReport'
      PROVE  /\ atReport'[p].present = atSeen'[p].present
             /\ atReport'[p].talk = IF atSeen'[p].heard THEN atSeen'[p].talk ELSE AtNull
             /\ atSeen'[p].heard /\ ~atSeen'[p].odd => atReport'[p].talk <= atReport'[p].present
             /\ (atReport'[p].left = AtNull) = (p \in atHere' \/ atReport'[p].sessions = 0)
             /\ atReport'[p].sessions = 0 => atSeen'[p].odd
             /\ atReport'[p].present <= atEnd' - atStart'
             /\ atReport'[p].pct # AtNull =>
                  \A q \in DOMAIN atReport' :
                    (atReport'[q].pct # AtNull /\ atReport'[q].talk > atReport'[p].talk) =>
                      atReport'[q].pct >= atReport'[p].pct
  <2>1. p \in DOMAIN atStore
    BY <1>1
  <2>2. /\ atReport'[p].present = atSeen'[p].present
        /\ atReport'[p].talk = IF atSeen'[p].heard THEN atSeen'[p].talk ELSE AtNull
        /\ atSeen'[p].heard /\ ~atSeen'[p].odd => atReport'[p].talk <= atReport'[p].present
        /\ (atReport'[p].left = AtNull) = (p \in atHere' \/ atReport'[p].sessions = 0)
        /\ atReport'[p].sessions = 0 => atSeen'[p].odd
    BY <1>2, <2>1
  <2>3. atReport'[p].present <= atEnd' - atStart'
    BY <1>2, <1>5, <2>1
  <2>4. \A q \in DOMAIN atStore :
           (atReport'[p].pct # AtNull /\ atReport'[q].pct # AtNull
              /\ atReport'[q].talk > atReport'[p].talk)
             => atReport'[q].pct >= atReport'[p].pct
    BY <1>1, <1>4, <2>1
  <2>5. QED
    BY <1>1, <2>2, <2>3, <2>4
<1>7. AtCounts'
  BY <1>6 DEF AtCounts
<1>8. QED
  BY <1>1, <1>2, <1>7

LEMMA AtStep == AtInv /\ [AtNext]_atVars => AtInv'
<1> SUFFICES ASSUME AtInv, [AtNext]_atVars PROVE AtInv'
  OBVIOUS
<1>1. /\ AtTypeOK
      /\ atPhase \in {"out", "call", "ended", "report"}
      /\ atPhase = "out" => atLoud = {} /\ atEnd = AtNull
      /\ atPhase = "call" => atEnd = AtNull /\ AtCall
      /\ atPhase = "ended" =>
            /\ atEnd \in AtTimes /\ AtTracked(atEnd)
            /\ \A p \in DOMAIN atStore : atStore[p].since = AtNull
      /\ atPhase \in {"out", "call", "ended"} => atReport = AtNobody
      /\ atPhase = "report" => AtCounts
  BY DEF AtInv, AtTypeOK
<1>2. ASSUME AtTypeOK', AtCall', atPhase' = "call", atEnd' = AtNull, atReport' = AtNobody
      PROVE  AtInv'
  BY <1>2 DEF AtInv
<1>3. CASE AtMount
  <2>1. atPhase = "out" /\ atPhase' = "call" /\ atEnd' = atEnd /\ atReport' = atReport
    BY <1>3 DEF AtMount
  <2>2. AtTypeOK' /\ AtCall'
    BY <1>1, <1>3, <2>1, AtTracksMount
  <2>3. QED
    BY <1>1, <1>2, <2>1, <2>2
<1>4. ASSUME NEW p \in AtOthers, AtJoin(p) PROVE AtInv'
  <2>1. atPhase = "call" /\ atPhase' = "call" /\ atEnd' = atEnd /\ atReport' = atReport
    BY <1>4 DEF AtJoin
  <2>2. AtTypeOK' /\ AtCall'
    BY <1>1, <1>4, <2>1, AtTracksJoin
  <2>3. QED
    BY <1>1, <1>2, <2>1, <2>2
<1>5. ASSUME NEW p \in AtOthers, AtGone(p) PROVE AtInv'
  <2>1. atPhase = "call" /\ atPhase' = "call" /\ atEnd' = atEnd /\ atReport' = atReport
    BY <1>5 DEF AtGone
  <2>2. AtTypeOK' /\ AtCall'
    BY <1>1, <1>5, <2>1, AtTracksGone
  <2>3. QED
    BY <1>1, <1>2, <2>1, <2>2
<1>6. CASE AtSpeakers
  <2>1. atPhase = "call" /\ atPhase' = "call" /\ atEnd' = atEnd /\ atReport' = atReport
    BY <1>6 DEF AtSpeakers
  <2>2. AtTypeOK' /\ AtCall'
    BY <1>1, <1>6, <2>1, AtTracksSpeakers
  <2>3. QED
    BY <1>1, <1>2, <2>1, <2>2
<1>7. CASE AtTick
  <2>1. UNCHANGED <<atPhase, atHere, atLoud, atStore, atStart, atEnd, atReport>>
    BY <1>7 DEF AtTick
  <2>2. CASE atPhase = "call"
    <3>1. AtTypeOK' /\ AtCall'
      BY <1>1, <1>7, <2>2, AtTracksTick
    <3>2. QED
      BY <1>1, <1>2, <2>1, <2>2, <3>1
  <2>3. CASE atPhase # "call"
    <3>1. atSeen' = atSeen
      BY <1>7, <2>3 DEF AtTick
    <3>2. atNow' \in AtTimes
      <4>1. atNow \in AtTimes /\ atNow < AtMaxTime /\ atNow' = atNow + 1
        BY <1>1, <1>7 DEF AtTick, AtTypeOK
      <4>2. QED
        BY <4>1, AtAssumption DEF AtTimes
    <3>3. AtTypeOK'
      BY <1>1, <2>1, <3>1, <3>2 DEF AtTypeOK
    <3>4. AtTracked(atEnd) => AtTracked(atEnd)'
      BY <2>1, <3>1 DEF AtTracked
    <3>5. AtCounts => AtCounts'
      BY <2>1, <3>1 DEF AtCounts
    <3>6. QED
      BY <1>1, <2>1, <2>3, <3>3, <3>4, <3>5 DEF AtInv
  <2>4. QED
    BY <2>2, <2>3
<1>8. ASSUME atPhase = "call", atStore' = AtCleaned, atEnd' = atNow,
             UNCHANGED <<atNow, atHere, atLoud, atStart, atSeen>>
      PROVE  /\ AtTracked(atEnd)' /\ DOMAIN atStore' = DOMAIN atStore /\ atEnd' \in AtTimes
             /\ \A p \in DOMAIN atStore : atStore'[p].since = AtNull /\ atStore'[p] \in AtEntry
  <2>1. PICK now : now = atNow
    OBVIOUS
  <2>2. /\ AtTracked(now)' /\ DOMAIN atStore' = DOMAIN atStore
        /\ \A p \in DOMAIN atStore : atStore'[p].since = AtNull /\ atStore'[p] \in AtEntry
    BY <1>1, <1>8, <2>1, AtCleanedStands
  <2>3. AtTracked(atEnd)'
    BY <1>8, <2>1, <2>2 DEF AtTracked
  <2>4. atEnd' \in AtTimes
    BY <1>1, <1>8 DEF AtTypeOK
  <2>5. QED
    BY <2>2, <2>3, <2>4
<1>9. CASE AtLeave
  <2>1. /\ atPhase = "call" /\ atPhase' = "report" /\ atReport' = AtBuild(atNow)
        /\ atStore' = AtCleaned /\ atEnd' = atNow
        /\ UNCHANGED <<atNow, atHere, atLoud, atStart, atSeen>>
    BY <1>9 DEF AtLeave
  <2>2. AtCounts' /\ \A p \in DOMAIN atReport' : atReport'[p] \in AtRow
    <3>1. atNow \in AtTimes /\ AtTracked(atNow)
      BY <1>1, <2>1 DEF AtTypeOK, AtCall
    <3>2. QED
      BY <1>1, <2>1, <3>1, AtReportRight
  <2>3. AtTypeOK'
    BY <1>1, <1>8, <2>1, <2>2 DEF AtTypeOK
  <2>4. QED
    BY <2>1, <2>2, <2>3 DEF AtInv
<1>10. CASE AtCleanUp
  <2>1. /\ atPhase = "call" /\ atPhase' = "ended" /\ atReport' = atReport
        /\ atStore' = AtCleaned /\ atEnd' = atNow
        /\ UNCHANGED <<atNow, atHere, atLoud, atStart, atSeen>>
    BY <1>10 DEF AtCleanUp
  <2>2. /\ AtTracked(atEnd)' /\ DOMAIN atStore' = DOMAIN atStore /\ atEnd' \in AtTimes
        /\ \A p \in DOMAIN atStore : atStore'[p].since = AtNull /\ atStore'[p] \in AtEntry
    BY <1>8, <2>1
  <2>3. AtTypeOK'
    BY <1>1, <2>1, <2>2 DEF AtTypeOK
  <2>4. QED
    BY <1>1, <2>1, <2>2, <2>3 DEF AtInv
<1>11. CASE AtReadLate
  <2>1. /\ atPhase = "ended" /\ atPhase' = "report" /\ atReport' = AtBuild(atEnd)
        /\ UNCHANGED <<atNow, atHere, atLoud, atStore, atStart, atEnd, atSeen>>
    BY <1>11 DEF AtReadLate
  <2>2. AtCounts' /\ \A p \in DOMAIN atReport' : atReport'[p] \in AtRow
    BY <1>1, <2>1, AtReportRight
  <2>3. AtTypeOK'
    BY <1>1, <2>1, <2>2 DEF AtTypeOK
  <2>4. QED
    BY <2>1, <2>2, <2>3 DEF AtInv
<1>12. CASE UNCHANGED atVars
  <2>1. UNCHANGED <<atNow, atPhase, atHere, atLoud, atStore, atStart, atEnd, atReport, atSeen>>
    BY <1>12 DEF atVars
  <2>2. AtTypeOK'
    BY <1>1, <2>1 DEF AtTypeOK
  <2>3. (AtTracked(atNow) => AtTracked(atNow)') /\ (AtTracked(atEnd) => AtTracked(atEnd)')
    BY <2>1 DEF AtTracked
  <2>4. AtCounts => AtCounts'
    BY <2>1 DEF AtCounts
  <2>5. AtCall => AtCall'
    BY <2>1, <2>3 DEF AtCall
  <2>6. QED
    BY <1>1, <2>1, <2>2, <2>3, <2>4, <2>5 DEF AtInv
<1>13. QED
  BY <1>3, <1>4, <1>5, <1>6, <1>7, <1>9, <1>10, <1>11, <1>12 DEF AtNext

LEMMA AtHolds == AtSpec => [](AtTypeOK /\ AtCounts)
<1>1. AtInv => AtTypeOK /\ AtCounts
  <2>1. AtInv /\ atPhase # "report" => atReport = AtNobody
    BY DEF AtInv, AtTypeOK
  <2>2. AtInv /\ atPhase # "report" => AtCounts
    BY <2>1 DEF AtCounts, AtNobody
  <2>3. QED
    BY <2>2 DEF AtInv
<1>2. QED
  BY <1>1, AtInitially, AtStep, PTL DEF AtSpec

----
(* The name of a participant: one face in the lobby and in the call.        *)

\* A character within the basic plane is one unit.
FcBasic(c) == c \in Nat /\ c < 65536

LEMMA FcUnit == ASSUME NEW c, FcBasic(c) PROVE FcUnits(c) = <<c>> /\ c \in Nat
  BY DEF FcUnits, FcBasic

\* A name of n characters within it.
FcName(name, n) == Len(name) = n /\ \A k \in 1..n : FcBasic(name[k])

\* What the recursion of FcUTF16 asks of the units of the first characters.
FcMakes(name, f) ==
    f = [k \in 0..Len(name) |-> IF k = 0 THEN <<>> ELSE f[k - 1] \o FcUnits(name[k])]

FcGrows(f, name, n) ==
    f[0] = <<>> /\ \A k \in 1..n : f[k] = f[k - 1] \o FcUnits(name[k])

LEMMA FcMakesEach ==
    ASSUME NEW n \in Nat, NEW name, Len(name) = n, NEW f, FcMakes(name, f)
    PROVE  FcGrows(f, name, n)
<1>1. f = [k \in 0..n |-> IF k = 0 THEN <<>> ELSE f[k - 1] \o FcUnits(name[k])]
  BY DEF FcMakes
<1>2. f[0] = <<>>
  BY <1>1
<1>3. ASSUME NEW k \in 1..n PROVE f[k] = f[k - 1] \o FcUnits(name[k])
  <2>1. k \in 0..n /\ k # 0
    OBVIOUS
  <2>2. f[k] = IF k = 0 THEN <<>> ELSE f[k - 1] \o FcUnits(name[k])
    BY <1>1, <2>1, Zenon
  <2>3. QED
    BY <2>1, <2>2
<1>4. QED
  BY <1>2, <1>3 DEF FcGrows

LEMMA FcMakesAll ==
    ASSUME NEW name, NEW f, Len(name) \in Nat, f = [k \in 0..Len(name) |-> f[k]], f[0] = <<>>,
           \A k \in 1..Len(name) : f[k] = f[k - 1] \o FcUnits(name[k])
    PROVE  FcMakes(name, f)
<1>1. \A k \in 0..Len(name) : f[k] = IF k = 0 THEN <<>> ELSE f[k - 1] \o FcUnits(name[k])
  <2>1. SUFFICES ASSUME NEW k \in 0..Len(name), k # 0
                 PROVE  f[k] = f[k - 1] \o FcUnits(name[k])
    OBVIOUS
  <2>2. k \in 1..Len(name)
    BY <2>1
  <2>3. QED
    BY <2>2
<1>2. QED
  BY <1>1, Zenon DEF FcMakes

LEMMA FcMade ==
    ASSUME NEW n \in Nat, NEW name, FcName(name, n)
    PROVE  \E f : FcMakes(name, f)
<1>0. Len(name) = n /\ \A k \in 1..n : FcBasic(name[k])
  BY DEF FcName
<1> DEFINE step == [k \in 1..n |-> [s \in Seq(Nat) |-> Append(s, name[k])]]
<1>1. step \in [1..n -> [Seq(Nat) -> Seq(Nat)]]
  <2>1. \A k \in 1..n : name[k] \in Nat
    BY <1>0, FcUnit
  <2>2. QED
    BY <2>1
<1>2. ASSUME NEW s \in Seq(Nat), NEW k \in 1..n PROVE step[k][s] = s \o FcUnits(name[k])
  <2>1. FcUnits(name[k]) = <<name[k]>>
    BY <1>0, FcUnit
  <2>2. step[k][s] = Append(s, name[k])
    OBVIOUS
  <2> DEFINE c == name[k]
  <2>3. c \in Nat
    BY <1>0, FcUnit
  <2> HIDE DEF c, step
  <2>4. Append(s, c) = s \o <<c>>
    BY <2>3
  <2>5. QED
    BY <2>1, <2>2, <2>4 DEF c
<1> HIDE DEF step
<1>7. PICK V : V = Seq(Nat)
  OBVIOUS
<1>8. PICK none : none = <<>>
  OBVIOUS
<1>10. none \in V /\ step \in [1..n -> [V -> V]]
  BY <1>1, <1>7, <1>8
<1>11. PICK f \in [0..n -> V] : Stepped(none, n, step, f)
  BY <1>10, Steps
<1>3. f \in [0..n -> Seq(Nat)] /\ f[0] = <<>> /\ \A k \in 1..n : f[k] = step[k][f[k - 1]]
  BY <1>7, <1>8, <1>11 DEF Stepped
<1>4. ASSUME NEW k \in 1..n PROVE f[k] = f[k - 1] \o FcUnits(name[k])
  <2>1. k - 1 \in 0..n
    OBVIOUS
  <2> DEFINE s == f[k - 1]
  <2>2. s \in Seq(Nat) /\ f[k] = step[k][s]
    BY <1>3, <2>1
  <2> HIDE DEF s
  <2>3. step[k][s] = s \o FcUnits(name[k])
    BY <1>2, <2>2
  <2>4. QED
    BY <2>2, <2>3 DEF s
<1>5. f = [k \in 0..n |-> f[k]] /\ f[0] = <<>>
  BY <1>3
<1>6. FcMakes(name, f)
  BY <1>0, <1>4, <1>5, FcMakesAll
<1>9. QED
  BY <1>6

LEMMA FcMakesSame ==
    ASSUME NEW n \in Nat, NEW name, FcName(name, n), NEW units, FcMakes(name, units)
    PROVE  CopyOf(units[n], Nat, name, n)
<1>0. Len(name) = n /\ \A k \in 1..n : FcBasic(name[k])
  BY DEF FcName
<1>1. units[0] = <<>> /\ \A k \in 1..n : units[k] = units[k - 1] \o FcUnits(name[k])
  <2>1. FcGrows(units, name, n)
    BY <1>0, FcMakesEach, Zenon
  <2>2. QED
    BY <2>1 DEF FcGrows
<1>2. ASSUME NEW k \in 1..n PROVE name[k] \in Nat /\ units[k] = units[k - 1] \o <<name[k]>>
  <2>1. name[k] \in Nat /\ FcUnits(name[k]) = <<name[k]>>
    BY <1>0, FcUnit
  <2>2. units[k] = units[k - 1] \o FcUnits(name[k])
    BY <1>1
  <2>3. QED
    BY <2>1, <2>2
<1>3. (\A k \in 1..n : name[k] \in Nat) /\ \A k \in 1..n : units[k] = units[k - 1] \o <<name[k]>>
  BY <1>2
<1>4. units[0] = <<>>
  BY <1>1
<1>5. QED
  BY <1>3, <1>4, Copied

\* The units of a name within the basic plane are its characters.
LEMMA FcPlainUnits ==
    ASSUME NEW n \in Nat, NEW name, FcName(name, n)
    PROVE  CopyOf(FcUTF16(name), Nat, name, n)
<1>1. FcMakes(name, CHOOSE f : FcMakes(name, f))
  BY FcMade
<1>2. FcUTF16(name) = (CHOOSE f : FcMakes(name, f))[n]
  BY DEF FcUTF16, FcMakes, FcName
<1>3. PICK units : FcMakes(name, units) /\ FcUTF16(name) = units[n]
  BY <1>1, <1>2
<1>4. CopyOf(units[n], Nat, name, n)
  BY <1>3, FcMakesSame
<1>5. QED
  BY <1>3, <1>4

FcPlainSeq(s) == s \in Seq(Nat) /\ \A i \in 1..Len(s) : FcBasic(s[i])

LEMMA FcPlain ==
    ASSUME NEW name, FcPlainSeq(name)
    PROVE  FcUTF16(name) = name
<1>1. name \in Seq(Nat) /\ \A k \in 1..Len(name) : FcBasic(name[k])
  BY DEF FcPlainSeq
<1>2. PICK n \in Nat : Len(name) = n
  BY <1>1
<1>3. PICK all : all = FcUTF16(name)
  OBVIOUS
<1>4. all \in Seq(Nat) /\ Len(all) = n /\ \A j \in 1..n : all[j] = name[j]
  <2>1. FcName(name, n)
    BY <1>1, <1>2 DEF FcName
  <2>2. CopyOf(all, Nat, name, n)
    BY <1>3, <2>1, FcPlainUnits
  <2>3. QED
    BY <2>2 DEF CopyOf
<1>5. all = name
  BY <1>1, <1>2, <1>4, SameSeq
<1>6. QED
  BY <1>3, <1>5

\* Whoever takes the same steps comes to the same place.
Walked(V, first, n, step, g) ==
    g[0] = first /\ \A k \in 1..n : g[k - 1] \in V => g[k] = step[k][g[k - 1]]

LEMMA SameSteps ==
    ASSUME NEW V, NEW first \in V, NEW n \in Nat, NEW step \in [1..n -> [V -> V]],
           NEW f \in [0..n -> V], Stepped(first, n, step, f),
           NEW g, Walked(V, first, n, step, g)
    PROVE  g[n] = f[n]
<1> DEFINE T == {k \in 0..n : g[k] = f[k]}
<1>1. f[0] = first /\ \A k \in 1..n : f[k] = step[k][f[k - 1]]
  BY DEF Stepped
<1>10. g[0] = first /\ \A k \in 1..n : g[k - 1] \in V => g[k] = step[k][g[k - 1]]
  BY DEF Walked
<1>2. 0 \in T
  BY <1>1, <1>10
<1>3. ASSUME NEW k \in 1..n, k - 1 \in T PROVE k \in T
  <2>1. g[k - 1] = f[k - 1] /\ f[k - 1] \in V
    BY <1>3
  <2>2. g[k] = step[k][g[k - 1]] /\ f[k] = step[k][f[k - 1]]
    BY <1>1, <1>10, <2>1
  <2>3. QED
    BY <2>1, <2>2
<1>4. \A k \in 0..n : k \in T
  <2> HIDE DEF T
  <2>1. QED
    BY <1>2, <1>3, UpTo
<1>5. QED
  BY <1>4

\* One step of either hash, of a half-split h, is the same.
FcHalf == {x \in Nat : x < 65536}
FcHalves == [low : FcHalf, high : FcHalf]

LEMMA FcParts ==
    ASSUME NEW a \in Nat
    PROVE  /\ a % 65536 \in FcHalf /\ a \div 65536 \in Nat
           /\ a = 65536 * (a \div 65536) + (a % 65536)
  BY DEF FcHalf

LEMMA FcLow ==
    ASSUME NEW r \in Nat, NEW q \in Nat, NEW m, m = 65536 * q + r, NEW c \in Nat
    PROVE  (r + c) % 65536 = (m + c) % 65536
  OBVIOUS

LEMMA FcCarry ==
    ASSUME NEW r \in Nat, NEW q \in Nat, NEW m, m = 65536 * q + r, NEW c \in Nat
    PROVE  (m + c) \div 65536 = q + ((r + c) \div 65536)
  OBVIOUS

LEMMA FcHigh ==
    ASSUME NEW p \in Nat, NEW q \in Nat, NEW d \in Nat
    PROVE  (((p + q) % 65536) + d) % 65536 = (p + (q + d)) % 65536
  OBVIOUS

LEMMA FcStepSame ==
    ASSUME NEW h \in FcHalves, NEW c \in Nat
    PROVE  FcPlus(FcImul(h), c) = FcWrapped(h, c) /\ FcWrapped(h, c) \in FcHalves
<1>1. h.low \in Nat /\ h.high \in Nat
  BY DEF FcHalves, FcHalf
<1>2. PICK m \in Nat : m = h.low * 31
  BY <1>1
<1>3. PICK p \in Nat : p = h.high * 31
  BY <1>1
<1>4. PICK r \in Nat : r = m % 65536
  BY FcParts DEF FcHalf
<1>5. PICK q \in Nat : q = m \div 65536
  BY FcParts
<1>6. m = 65536 * q + r
  BY <1>4, <1>5, FcParts
<1>7. PICK d \in Nat : d = (r + c) \div 65536
  <2>1. r + c \in Nat
    OBVIOUS
  <2>2. QED
    BY <2>1, FcParts
<1>8. FcImul(h) = [low |-> r, high |-> (p + q) % 65536]
  BY <1>2, <1>3, <1>4, <1>5 DEF FcImul
<1>9. FcPlus(FcImul(h), c) = [low |-> (r + c) % 65536, high |-> (((p + q) % 65536) + d) % 65536]
  BY <1>7, <1>8 DEF FcPlus
<1>10. FcWrapped(h, c) = [low |-> (m + c) % 65536, high |-> (p + ((m + c) \div 65536)) % 65536]
  BY <1>2, <1>3 DEF FcWrapped
<1>11. (r + c) % 65536 = (m + c) % 65536
  BY <1>6, FcLow
<1>12. (m + c) \div 65536 = q + d
  BY <1>6, <1>7, FcCarry
<1>13. (((p + q) % 65536) + d) % 65536 = (p + (q + d)) % 65536
  BY FcHigh
<1>14. FcPlus(FcImul(h), c) = FcWrapped(h, c)
  BY <1>9, <1>10, <1>11, <1>12, <1>13
<1>15. (m + c) % 65536 \in FcHalf /\ (p + (q + d)) % 65536 \in FcHalf
  <2>1. m + c \in Nat /\ p + (q + d) \in Nat
    OBVIOUS
  <2>2. QED
    BY <2>1, FcParts
<1>16. FcWrapped(h, c) \in FcHalves
  BY <1>10, <1>12, <1>15 DEF FcHalves
<1>17. QED
  BY <1>14, <1>16

\* What the recursions of the two hashes ask of the hashes of the first characters.
FcPageMakes(s, f) ==
    f = [n \in 0..Len(s) |-> IF n = 0 THEN FcZero ELSE FcPlus(FcImul(f[n - 1]), s[n])]
FcBackendMakes(s, f) ==
    f = [n \in 0..Len(s) |-> IF n = 0 THEN FcZero ELSE FcWrapped(f[n - 1], s[n])]

LEMMA FcPageGrows ==
    ASSUME NEW s, NEW n \in Nat, Len(s) = n, NEW f, FcPageMakes(s, f)
    PROVE  f[0] = FcZero /\ \A k \in 1..n : f[k] = FcPlus(FcImul(f[k - 1]), s[k])
<1>1. f = [k \in 0..n |-> IF k = 0 THEN FcZero ELSE FcPlus(FcImul(f[k - 1]), s[k])]
  BY DEF FcPageMakes
<1>2. f[0] = FcZero
  BY <1>1
<1>3. ASSUME NEW k \in 1..n PROVE f[k] = FcPlus(FcImul(f[k - 1]), s[k])
  <2>1. k \in 0..n /\ k # 0
    OBVIOUS
  <2>2. f[k] = IF k = 0 THEN FcZero ELSE FcPlus(FcImul(f[k - 1]), s[k])
    BY <1>1, <2>1, Zenon
  <2>3. QED
    BY <2>1, <2>2
<1>4. QED
  BY <1>2, <1>3

LEMMA FcBackendGrows ==
    ASSUME NEW s, NEW n \in Nat, Len(s) = n, NEW f, FcBackendMakes(s, f)
    PROVE  f[0] = FcZero /\ \A k \in 1..n : f[k] = FcWrapped(f[k - 1], s[k])
<1>1. f = [k \in 0..n |-> IF k = 0 THEN FcZero ELSE FcWrapped(f[k - 1], s[k])]
  BY DEF FcBackendMakes
<1>2. f[0] = FcZero
  BY <1>1
<1>3. ASSUME NEW k \in 1..n PROVE f[k] = FcWrapped(f[k - 1], s[k])
  <2>1. k \in 0..n /\ k # 0
    OBVIOUS
  <2>2. f[k] = IF k = 0 THEN FcZero ELSE FcWrapped(f[k - 1], s[k])
    BY <1>1, <2>1, Zenon
  <2>3. QED
    BY <2>1, <2>2
<1>4. QED
  BY <1>2, <1>3

\* Some function does what both ask, for they ask the same.
LEMMA FcBothMade ==
    ASSUME NEW s, NEW n \in Nat, Len(s) = n, NEW f, f = [k \in 0..n |-> f[k]], f[0] = FcZero,
           \A k \in 1..n : f[k] = FcWrapped(f[k - 1], s[k])
                           /\ f[k] = FcPlus(FcImul(f[k - 1]), s[k])
    PROVE  FcPageMakes(s, f) /\ FcBackendMakes(s, f)
<1>1. \A k \in 0..n : f[k] = IF k = 0 THEN FcZero ELSE FcPlus(FcImul(f[k - 1]), s[k])
  <2>1. \A k \in 0..n : k = 0 \/ k \in 1..n
    OBVIOUS
  <2>2. QED
    BY <2>1
<1>2. \A k \in 0..n : f[k] = IF k = 0 THEN FcZero ELSE FcWrapped(f[k - 1], s[k])
  <2>1. \A k \in 0..n : k = 0 \/ k \in 1..n
    OBVIOUS
  <2>2. QED
    BY <2>1
<1>3. FcPageMakes(s, f)
  BY <1>1, Zenon DEF FcPageMakes
<1>4. FcBackendMakes(s, f)
  BY <1>2, Zenon DEF FcBackendMakes
<1>5. QED
  BY <1>3, <1>4

\* The two hashes of the same numbers are the same.
LEMMA FcHashSame ==
    ASSUME NEW s, NEW n \in Nat, Len(s) = n, \A k \in 1..n : s[k] \in Nat
    PROVE  FcPageHash(s) = FcBackendHash(s)
<1> DEFINE step == [k \in 1..n |-> [h \in FcHalves |-> FcWrapped(h, s[k])]]
<1>1. \A k \in 1..n : \A h \in FcHalves :
         /\ FcPlus(FcImul(h), s[k]) = FcWrapped(h, s[k]) /\ FcWrapped(h, s[k]) \in FcHalves
  BY FcStepSame
<1>2. step \in [1..n -> [FcHalves -> FcHalves]]
  BY <1>1
<1>3. \A k \in 1..n : \A h \in FcHalves :
         step[k][h] = FcWrapped(h, s[k]) /\ step[k][h] = FcPlus(FcImul(h), s[k])
  BY <1>1
<1> HIDE DEF step
<1>4. FcZero \in FcHalves
  BY DEF FcZero, FcHalves, FcHalf
<1>40. PICK V : V = FcHalves
  OBVIOUS
<1>41. PICK zero \in V : zero = FcZero
  BY <1>4, <1>40
<1>44. PICK go \in [1..n -> [V -> V]] : go = step
  BY <1>2, <1>40
<1>43. PICK f \in [0..n -> V] : Stepped(zero, n, go, f)
  BY Steps
<1>5. f \in [0..n -> FcHalves] /\ Stepped(FcZero, n, step, f)
  BY <1>40, <1>41, <1>43, <1>44
<1>6. f[0] = FcZero /\ \A k \in 1..n : f[k] = step[k][f[k - 1]]
  BY <1>5 DEF Stepped
<1>7. \A k \in 1..n : f[k - 1] \in FcHalves
  BY <1>5
<1>8. FcPageMakes(s, f) /\ FcBackendMakes(s, f)
  <2>1. \A k \in 1..n : f[k] = FcWrapped(f[k - 1], s[k]) /\ f[k] = FcPlus(FcImul(f[k - 1]), s[k])
    BY <1>3, <1>6, <1>7
  <2>2. f = [k \in 0..n |-> f[k]]
    BY <1>5
  <2>3. QED
    BY <1>6, <2>1, <2>2, FcBothMade
<1>9. FcPageMakes(s, CHOOSE g : FcPageMakes(s, g)) /\ FcBackendMakes(s, CHOOSE g : FcBackendMakes(s, g))
  BY <1>8
<1>10. /\ FcPageHash(s) = (CHOOSE g : FcPageMakes(s, g))[n]
       /\ FcBackendHash(s) = (CHOOSE g : FcBackendMakes(s, g))[n]
  BY DEF FcPageHash, FcBackendHash, FcPageMakes, FcBackendMakes
<1>11. PICK g : FcPageMakes(s, g) /\ FcPageHash(s) = g[n]
  BY <1>9, <1>10
<1>12. PICK b : FcBackendMakes(s, b) /\ FcBackendHash(s) = b[n]
  BY <1>9, <1>10
<1>13. g[n] = f[n]
  <2>1. g[0] = FcZero /\ \A k \in 1..n : g[k] = FcPlus(FcImul(g[k - 1]), s[k])
    BY <1>11, FcPageGrows
  <2>2. \A k \in 1..n : g[k - 1] \in FcHalves => g[k] = step[k][g[k - 1]]
    BY <1>3, <2>1
  <2>3. Walked(V, zero, n, go, g)
    BY <1>40, <1>41, <1>44, <2>1, <2>2 DEF Walked
  <2>4. QED
    BY <1>43, <2>3, SameSteps
<1>14. b[n] = f[n]
  <2>1. b[0] = FcZero /\ \A k \in 1..n : b[k] = FcWrapped(b[k - 1], s[k])
    BY <1>12, FcBackendGrows
  <2>2. \A k \in 1..n : b[k - 1] \in FcHalves => b[k] = step[k][b[k - 1]]
    BY <1>3, <2>1
  <2>3. Walked(V, zero, n, go, b)
    BY <1>40, <1>41, <1>44, <2>1, <2>2 DEF Walked
  <2>4. QED
    BY <1>43, <2>3, SameSteps
<1>15. QED
  BY <1>11, <1>12, <1>13, <1>14

\* A character that both take for white space or neither does, and make one letter of.
FcAlike(c) == FcBasic(c) /\ c \notin {FcNextLine, FcMark, FcSharpS}

LEMMA FcAlikeIs ==
    ASSUME NEW c, FcAlike(c)
    PROVE  /\ c \in FcPageBreaks <=> c \in FcBackendBreaks
           /\ FcFull(c) = <<FcSimple(c)>> /\ FcBasic(FcSimple(c)) /\ FcSimple(c) \in Nat
<1>1. c \in Nat /\ c < 65536 /\ c # FcNextLine /\ c # FcMark /\ c # FcSharpS
  BY DEF FcAlike, FcBasic
<1>2. c \in FcPageBreaks <=> c \in FcBackendBreaks
  <2>1. c \in FcPageBreaks <=> (c \in FcBlanks \/ c = FcHyphen)
    BY <1>1 DEF FcPageBreaks
  <2>2. c \in FcBackendBreaks <=> (c \in FcBlanks \/ c = FcHyphen)
    BY <1>1 DEF FcBackendBreaks
  <2>3. QED
    BY <2>1, <2>2
<1>3. FcFull(c) = <<FcSimple(c)>>
  BY <1>1 DEF FcFull
<1>4. FcBasic(FcSimple(c)) /\ FcSimple(c) \in Nat
  <2>1. (FcSimple(c) = c - 32 /\ c >= 97) \/ FcSimple(c) = c
    BY <1>1 DEF FcSimple
  <2>2. QED
    BY <1>1, <2>1 DEF FcBasic
<1>5. QED
  BY <1>2, <1>3, <1>4

LEMMA FcUpperSame ==
    ASSUME NEW c, FcAlike(c), NEW d, FcAlike(d)
    PROVE  /\ FcPageUpper(<<c>>) = FcBackendUpper(<<c>>)
           /\ FcPageUpper(<<c, d>>) = FcBackendUpper(<<c, d>>)
           /\ FcPlainSeq(FcBackendUpper(<<c>>)) /\ FcPlainSeq(FcBackendUpper(<<c, d>>))
<1>1. PICK a : a = FcSimple(c)
  OBVIOUS
<1>2. PICK b : b = FcSimple(d)
  OBVIOUS
<1>3. FcFull(c) = <<a>> /\ FcFull(d) = <<b>> /\ FcBasic(a) /\ FcBasic(b) /\ a \in Nat /\ b \in Nat
  BY <1>1, <1>2, FcAlikeIs
<1>4. FcBackendUpper(<<c>>) = <<a>> /\ FcBackendUpper(<<c, d>>) = <<a, b>>
  BY <1>1, <1>2 DEF FcBackendUpper
<1>5. FcPageUpper(<<c>>) = <<a>>
  BY <1>3 DEF FcPageUpper
<1>6. FcPageUpper(<<c, d>>) = <<a, b>>
  <2>0. Len(<<c, d>>) # 1 /\ <<c, d>>[1] = c /\ <<c, d>>[2] = d
    OBVIOUS
  <2>1. FcPageUpper(<<c, d>>) = FcFull(c) \o FcFull(d)
    BY <2>0 DEF FcPageUpper
  <2>11. FcPageUpper(<<c, d>>) = <<a>> \o <<b>>
    BY <1>3, <2>1
  <2>2. QED
    BY <1>3, <2>11
<1>7. FcPlainSeq(<<a>>) /\ FcPlainSeq(<<a, b>>)
  BY <1>3 DEF FcPlainSeq
<1>8. QED
  BY <1>4, <1>5, <1>6, <1>7

\* The ends of a set of places.
LEMMA EndsOf ==
    ASSUME NEW m \in Nat, NEW W \in SUBSET (1..m), W # {}
    PROVE  Min(W) \in 1..m /\ Max(W) \in 1..m
<1>1. W \in SUBSET Nat /\ W \in SUBSET (0..m)
  OBVIOUS
<1>2. Min(W) \in W
  BY <1>1, MinIsLeast
<1>3. Max(W) \in W
  BY <1>1, MaxIsGreatest
<1>4. QED
  BY <1>2, <1>3

\* The initials of a name of such characters are the same, and of the basic plane.
LEMMA FcInitialsSame ==
    ASSUME NEW n \in Nat, NEW name, Len(name) = n, DOMAIN name = 1..n,
           \A k \in 1..n : FcAlike(name[k])
    PROVE  FcPageInitials(name) = FcBackendInitials(name) /\ FcPlainSeq(FcBackendInitials(name))
<1>1. \A k \in 1..n : name[k] \in FcPageBreaks <=> name[k] \in FcBackendBreaks
  BY FcAlikeIs
<1>2. FcStarts(name, FcPageBreaks) = FcStarts(name, FcBackendBreaks)
  <2>1. ASSUME NEW i \in 1..n PROVE i > 1 => i - 1 \in 1..n
    OBVIOUS
  <2>2. QED
    BY <1>1, <2>1 DEF FcStarts
<1> DEFINE W == FcStarts(name, FcBackendBreaks)
           first == Min(W)
           last == Max(W)
           x == name[first]
           y == name[last]
           z == name[first + 1]
<1>3. CASE W = {}
  <2>1. FcPageInitials(name) = <<63>> /\ FcBackendInitials(name) = <<63>>
    BY <1>2, <1>3 DEF FcPageInitials, FcBackendInitials
  <2>2. FcPlainSeq(<<63>>)
    BY DEF FcPlainSeq, FcBasic
  <2>3. QED
    BY <2>1, <2>2
<1>4. CASE W # {}
  <2>1. W \in SUBSET (1..n)
    BY DEF FcStarts
  <2>2. first \in 1..n /\ last \in 1..n
    <3> HIDE DEF W
    <3>1. QED
      BY <1>4, <2>1, EndsOf
  <2>3. FcTwo(name, first, FcPageBreaks) = FcTwo(name, first, FcBackendBreaks)
    <3> HIDE DEF W
    <3>1. first < n => first + 1 \in 1..n
      BY <2>2
    <3> HIDE DEF first
    <3>2. QED
      BY <1>1, <2>2, <3>1 DEF FcTwo
  <2>4. \/ first # last /\ FcPageInitials(name) = FcPageUpper(<<x, y>>)
        \/ /\ first = last
           /\ FcPageInitials(name) = FcPageUpper(FcTwo(name, first, FcBackendBreaks))
    BY <1>2, <1>4, <2>3 DEF FcPageInitials
  <2>5. \/ first # last /\ FcBackendInitials(name) = FcBackendUpper(<<x, y>>)
        \/ /\ first = last
           /\ FcBackendInitials(name) = FcBackendUpper(FcTwo(name, first, FcBackendBreaks))
    BY <1>4 DEF FcBackendInitials
  <2> HIDE DEF W, first, last
  <2>6. \/ FcTwo(name, first, FcBackendBreaks) = <<x>>
        \/ first < n /\ FcTwo(name, first, FcBackendBreaks) = <<x, z>>
    BY DEF FcTwo
  <2>7. FcAlike(x) /\ FcAlike(y)
    BY <2>2
  <2>8. first < n => FcAlike(z)
    <3>1. first < n => first + 1 \in 1..n
      BY <2>2
    <3>2. QED
      BY <3>1
  <2> HIDE DEF x, y, z
  <2>9. QED
    BY <2>4, <2>5, <2>6, <2>7, <2>8, FcUpperSame
<1>5. QED
  BY <1>3, <1>4

\* Page and backend agree where they may.
LEMMA FcTwins == ASSUME FcTypeOK PROVE FcSameFace
<1>1. SUFFICES ASSUME \A c \in ToSet(fcName) : ~(c >= 65536)
               PROVE  /\ FcPage(fcName).hue = FcBackend(fcName).hue
                      /\ ~FcHas({FcNextLine, FcMark, FcSharpS}) =>
                            FcPage(fcName).initials = FcBackend(fcName).initials
  BY DEF FcSameFace
<1>2. fcName \in Seq(Nat)
  BY FcAssumption, SeqMonotonic DEF FcTypeOK
<1>3. PICK n \in Nat : Len(fcName) = n
  BY <1>2
<1>4. DOMAIN fcName = 1..n /\ \A i \in 1..n : fcName[i] \in ToSet(fcName) /\ fcName[i] \in Nat
  BY <1>2, <1>3 DEF ToSet
<1>5. \A i \in 1..n : FcBasic(fcName[i])
  BY <1>1, <1>4 DEF FcBasic
<1>6. FcPlainSeq(fcName)
  BY <1>2, <1>3, <1>5 DEF FcPlainSeq
<1>7. FcUTF16(fcName) = fcName
  BY <1>6, FcPlain
<1>8. FcPage(fcName).hue = FcBackend(fcName).hue
  <2>1. FcPageHash(FcKey(fcName)) = FcBackendHash(FcKey(fcName))
    <3>1. CASE fcName = <<>>
      <4>1. PICK key : key = FcKey(fcName)
        OBVIOUS
      <4>2. key = <<63>>
        BY <3>1, <4>1 DEF FcKey
      <4>3. Len(key) = 1 /\ \A k \in 1..1 : key[k] \in Nat
        BY <4>2
      <4>4. FcPageHash(key) = FcBackendHash(key)
        BY <4>3, FcHashSame
      <4>5. QED
        BY <4>1, <4>4
    <3>2. CASE fcName # <<>>
      <4>1. FcKey(fcName) = fcName
        BY <3>2 DEF FcKey
      <4>2. FcPageHash(fcName) = FcBackendHash(fcName)
        BY <1>3, <1>4, FcHashSame
      <4>3. QED
        BY <4>1, <4>2
    <3>3. QED
      BY <3>1, <3>2
  <2>2. QED
    BY <1>7, <2>1 DEF FcPage, FcBackend
<1>9. ASSUME ~FcHas({FcNextLine, FcMark, FcSharpS})
      PROVE  FcPage(fcName).initials = FcBackend(fcName).initials
  <2>1. \A i \in 1..n : FcAlike(fcName[i])
    BY <1>4, <1>5, <1>9 DEF FcHas, FcAlike
  <2>2. /\ FcPageInitials(fcName) = FcBackendInitials(fcName)
        /\ FcPlainSeq(FcBackendInitials(fcName))
    BY <1>3, <1>4, <2>1, FcInitialsSame
  <2>3. FcUTF16(FcBackendInitials(fcName)) = FcBackendInitials(fcName)
    BY <2>2, FcPlain
  <2>4. QED
    BY <1>7, <2>2, <2>3 DEF FcPage, FcBackend
<1>10. QED
  BY <1>8, <1>9

----
(* The name of a room and its link.                                         *)

\* What a slug is made of, and what it never has: two hyphens side by side.
RnLetters == RnSlugChars \cup {"-"}
RnSingle(s) == \A i \in 1..Len(s) - 1 : ~(s[i] = "-" /\ s[i + 1] = "-")

LEMMA RnTranslitType == \A c : RnTranslit(c) \in Seq(RnLetters)
<1>1. \A c \in RnLetters : <<c>> \in Seq(RnLetters)
  OBVIOUS
<1>2. <<"a">> \in Seq(RnLetters) /\ <<"-">> \in Seq(RnLetters) /\ <<>> \in Seq(RnLetters)
  BY <1>1 DEF RnLetters, RnSlugChars
<1>3. <<"s", "c", "h">> \in Seq(RnLetters)
  <2>1. "s" \in RnLetters /\ "c" \in RnLetters /\ "h" \in RnLetters
    BY DEF RnLetters, RnSlugChars
  <2>2. QED
    BY <2>1
<1>4. \A c \in RnSlugChars : c \in RnLetters
  BY DEF RnLetters
<1>5. SUFFICES ASSUME NEW c PROVE RnTranslit(c) \in Seq(RnLetters)
  OBVIOUS
<1>6. \/ c \in RnSlugChars /\ RnTranslit(c) = <<c>>
      \/ RnTranslit(c) \in {<<"a">>, <<"s", "c", "h">>, <<>>, <<"-">>}
  BY DEF RnTranslit
<1>7. QED
  BY <1>1, <1>2, <1>3, <1>4, <1>6

LEMMA RnTranslitKeeps == \A c \in RnLetters : RnTranslit(c) = <<c>>
<1>1. SUFFICES ASSUME NEW c \in RnLetters PROVE RnTranslit(c) = <<c>>
  OBVIOUS
<1>2. CASE c \in RnSlugChars
  BY <1>2 DEF RnTranslit, RnSlugChars
<1>3. CASE c = "-"
  BY <1>3 DEF RnTranslit, RnSlugChars
<1>4. QED
  BY <1>2, <1>3 DEF RnLetters

\* What the recursions of RnTranslits and RnCollapse ask of their values.
RnSpells(raw, f) ==
    f = [k \in 0..Len(raw) |-> IF k = 0 THEN <<>> ELSE f[k - 1] \o RnTranslit(raw[k])]
RnKeeps(s, f) ==
    f = [k \in 0..Len(s) |->
           IF k = 0 THEN <<>>
           ELSE IF k > 1 /\ s[k] = "-" /\ s[k - 1] = "-" THEN f[k - 1]
           ELSE Append(f[k - 1], s[k])]

LEMMA RnSpellsEach ==
    ASSUME NEW n \in Nat, NEW raw, Len(raw) = n, NEW f, RnSpells(raw, f)
    PROVE  f[0] = <<>> /\ \A k \in 1..n : f[k] = f[k - 1] \o RnTranslit(raw[k])
<1>1. f = [k \in 0..n |-> IF k = 0 THEN <<>> ELSE f[k - 1] \o RnTranslit(raw[k])]
  BY DEF RnSpells
<1>2. f[0] = <<>>
  BY <1>1
<1>3. ASSUME NEW k \in 1..n PROVE f[k] = f[k - 1] \o RnTranslit(raw[k])
  <2>1. k \in 0..n /\ k # 0
    OBVIOUS
  <2>2. f[k] = IF k = 0 THEN <<>> ELSE f[k - 1] \o RnTranslit(raw[k])
    BY <1>1, <2>1, Zenon
  <2>3. QED
    BY <2>1, <2>2
<1>4. QED
  BY <1>2, <1>3

LEMMA RnSpellsAll ==
    ASSUME NEW raw, NEW f, Len(raw) \in Nat, f = [k \in 0..Len(raw) |-> f[k]], f[0] = <<>>,
           \A k \in 1..Len(raw) : f[k] = f[k - 1] \o RnTranslit(raw[k])
    PROVE  RnSpells(raw, f)
<1>1. \A k \in 0..Len(raw) : f[k] = IF k = 0 THEN <<>> ELSE f[k - 1] \o RnTranslit(raw[k])
  <2>1. SUFFICES ASSUME NEW k \in 0..Len(raw), k # 0
                 PROVE  f[k] = f[k - 1] \o RnTranslit(raw[k])
    OBVIOUS
  <2>2. k \in 1..Len(raw)
    BY <2>1
  <2>3. QED
    BY <2>2
<1>2. QED
  BY <1>1, Zenon DEF RnSpells

LEMMA RnSpelt ==
    ASSUME NEW n \in Nat, NEW raw, Len(raw) = n
    PROVE  \E f : f \in [0..n -> Seq(RnLetters)] /\ RnSpells(raw, f)
<1> DEFINE step == [k \in 1..n |-> [s \in Seq(RnLetters) |-> s \o RnTranslit(raw[k])]]
<1>1. step \in [1..n -> [Seq(RnLetters) -> Seq(RnLetters)]]
  <2>1. \A k \in 1..n : RnTranslit(raw[k]) \in Seq(RnLetters)
    BY RnTranslitType
  <2>2. \A s, t \in Seq(RnLetters) : s \o t \in Seq(RnLetters)
    OBVIOUS
  <2>3. QED
    BY <2>1, <2>2
<1>2. \A k \in 1..n, s \in Seq(RnLetters) : step[k][s] = s \o RnTranslit(raw[k])
  OBVIOUS
<1> HIDE DEF step
<1>3. PICK V : V = Seq(RnLetters)
  OBVIOUS
<1>4. PICK none : none = <<>>
  OBVIOUS
<1>5. none \in V /\ step \in [1..n -> [V -> V]]
  BY <1>1, <1>3, <1>4
<1>6. PICK f \in [0..n -> V] : Stepped(none, n, step, f)
  BY <1>5, Steps
<1>7. f \in [0..n -> Seq(RnLetters)] /\ f[0] = <<>> /\ \A k \in 1..n : f[k] = step[k][f[k - 1]]
  BY <1>3, <1>4, <1>6 DEF Stepped
<1>8. ASSUME NEW k \in 1..n PROVE f[k] = f[k - 1] \o RnTranslit(raw[k])
  <2>1. k - 1 \in 0..n
    OBVIOUS
  <2>2. PICK s : s = f[k - 1]
    OBVIOUS
  <2>3. s \in Seq(RnLetters) /\ f[k] = step[k][s]
    BY <1>7, <2>1, <2>2
  <2>4. step[k][s] = s \o RnTranslit(raw[k])
    BY <1>2, <2>3
  <2>5. QED
    BY <2>2, <2>3, <2>4
<1>9. f = [k \in 0..n |-> f[k]] /\ f[0] = <<>>
  BY <1>7
<1>10. RnSpells(raw, f)
  BY <1>8, <1>9, RnSpellsAll
<1>11. QED
  BY <1>7, <1>10

\* What is typed is spelt with the letters of a slug.
LEMMA RnSpellsType ==
    ASSUME NEW n \in Nat, NEW raw, Len(raw) = n, NEW f, RnSpells(raw, f)
    PROVE  f[n] \in Seq(RnLetters)
<1>1. f[0] = <<>> /\ \A k \in 1..n : f[k] = f[k - 1] \o RnTranslit(raw[k])
  BY RnSpellsEach
<1> DEFINE T == {k \in 0..n : f[k] \in Seq(RnLetters)}
<1>2. 0 \in T
  <2>1. <<>> \in Seq(RnLetters) /\ 0 \in 0..n
    OBVIOUS
  <2>2. QED
    BY <1>1, <2>1
<1>3. ASSUME NEW k \in 1..n, k - 1 \in T PROVE k \in T
  <2>1. PICK u : u = f[k - 1]
    OBVIOUS
  <2>2. PICK v : v = RnTranslit(raw[k])
    OBVIOUS
  <2>3. u \in Seq(RnLetters) /\ v \in Seq(RnLetters)
    BY <1>3, <2>1, <2>2, RnTranslitType
  <2>4. f[k] = u \o v
    BY <1>1, <2>1, <2>2
  <2>5. u \o v \in Seq(RnLetters)
    BY <2>3
  <2>6. f[k] \in Seq(RnLetters) /\ k \in 0..n
    BY <2>4, <2>5
  <2>7. QED
    BY <2>6
<1>4. \A k \in 0..n : k \in T
  <2> HIDE DEF T
  <2>1. QED
    BY <1>2, <1>3, UpTo
<1>5. n \in 0..n
  OBVIOUS
<1>6. QED
  BY <1>4, <1>5

LEMMA RnTranslitsType ==
    ASSUME NEW raw, Len(raw) \in Nat
    PROVE  RnTranslits(raw) \in Seq(RnLetters)
<1>1. PICK n \in Nat : n = Len(raw)
  OBVIOUS
<1>2. RnSpells(raw, CHOOSE f : RnSpells(raw, f))
  BY <1>1, RnSpelt
<1>3. RnTranslits(raw) = (CHOOSE f : RnSpells(raw, f))[n]
  BY <1>1 DEF RnTranslits, RnSpells
<1>4. PICK f : RnSpells(raw, f) /\ RnTranslits(raw) = f[n]
  BY <1>2, <1>3
<1>5. QED
  BY <1>1, <1>4, RnSpellsType

\* What is spelt with the letters of a slug already stays as it is.
LEMMA RnTranslitsKeeps ==
    ASSUME NEW s \in Seq(RnLetters)
    PROVE  RnTranslits(s) = s
<1>1. PICK n \in Nat : Len(s) = n
  OBVIOUS
<1>2. \A k \in 1..n : s[k] \in RnLetters
  BY <1>1
<1>3. RnSpells(s, CHOOSE f : RnSpells(s, f))
  BY <1>1, RnSpelt
<1>4. RnTranslits(s) = (CHOOSE f : RnSpells(s, f))[n]
  BY <1>1 DEF RnTranslits, RnSpells
<1>5. PICK f : RnSpells(s, f) /\ RnTranslits(s) = f[n]
  BY <1>3, <1>4
<1>6. f[0] = <<>> /\ \A k \in 1..n : f[k] = f[k - 1] \o RnTranslit(s[k])
  BY <1>1, <1>5, RnSpellsEach
<1>7. ASSUME NEW k \in 1..n PROVE f[k] = f[k - 1] \o <<s[k]>>
  <2>1. RnTranslit(s[k]) = <<s[k]>>
    BY <1>2, RnTranslitKeeps
  <2>2. f[k] = f[k - 1] \o RnTranslit(s[k])
    BY <1>6
  <2>3. QED
    BY <2>1, <2>2
<1>8. PICK t : t = f[n]
  OBVIOUS
<1>9. CopyOf(t, RnLetters, s, n)
  BY <1>2, <1>6, <1>7, <1>8, Copied
<1>10. t = s
  BY <1>1, <1>9, SameSeq DEF CopyOf
<1>11. QED
  BY <1>5, <1>8, <1>10

LEMMA RnKeepsEach ==
    ASSUME NEW n \in Nat, NEW s, Len(s) = n, NEW f, RnKeeps(s, f)
    PROVE  /\ f[0] = <<>>
           /\ \A k \in 1..n : f[k] = IF k > 1 /\ s[k] = "-" /\ s[k - 1] = "-" THEN f[k - 1]
                                     ELSE Append(f[k - 1], s[k])
<1>1. f = [k \in 0..n |-> IF k = 0 THEN <<>>
                          ELSE IF k > 1 /\ s[k] = "-" /\ s[k - 1] = "-" THEN f[k - 1]
                          ELSE Append(f[k - 1], s[k])]
  BY DEF RnKeeps
<1>2. f[0] = <<>>
  BY <1>1
<1>3. ASSUME NEW k \in 1..n
      PROVE  f[k] = IF k > 1 /\ s[k] = "-" /\ s[k - 1] = "-" THEN f[k - 1]
                    ELSE Append(f[k - 1], s[k])
  <2>1. k \in 0..n /\ k # 0
    OBVIOUS
  <2>2. f[k] = IF k = 0 THEN <<>>
               ELSE IF k > 1 /\ s[k] = "-" /\ s[k - 1] = "-" THEN f[k - 1]
               ELSE Append(f[k - 1], s[k])
    BY <1>1, <2>1, Zenon
  <2>3. QED
    BY <2>1, <2>2, Zenon
<1>4. QED
  BY <1>2, <1>3

LEMMA RnKeepsAll ==
    ASSUME NEW s, NEW f, Len(s) \in Nat, f = [k \in 0..Len(s) |-> f[k]], f[0] = <<>>,
           \A k \in 1..Len(s) :
              f[k] = IF k > 1 /\ s[k] = "-" /\ s[k - 1] = "-" THEN f[k - 1]
                     ELSE Append(f[k - 1], s[k])
    PROVE  RnKeeps(s, f)
<1>1. \A k \in 0..Len(s) : f[k] = IF k = 0 THEN <<>>
                                  ELSE IF k > 1 /\ s[k] = "-" /\ s[k - 1] = "-" THEN f[k - 1]
                                  ELSE Append(f[k - 1], s[k])
  <2>1. SUFFICES ASSUME NEW k \in 0..Len(s), k # 0
                 PROVE  f[k] = IF k > 1 /\ s[k] = "-" /\ s[k - 1] = "-" THEN f[k - 1]
                               ELSE Append(f[k - 1], s[k])
    OBVIOUS
  <2>2. k \in 1..Len(s)
    BY <2>1
  <2>3. QED
    BY <2>2, Zenon
<1>2. QED
  BY <1>1, Zenon DEF RnKeeps

LEMMA RnKept ==
    ASSUME NEW n \in Nat, NEW s, Len(s) = n, \A k \in 1..n : s[k] \in RnLetters
    PROVE  \E f : RnKeeps(s, f)
<1> DEFINE skips(k) == k > 1 /\ s[k] = "-" /\ s[k - 1] = "-"
           step == [k \in 1..n |-> [t \in Seq(RnLetters) |->
                                      IF skips(k) THEN t ELSE Append(t, s[k])]]
<1> HIDE DEF skips
<1>1. step \in [1..n -> [Seq(RnLetters) -> Seq(RnLetters)]]
  <2>1. \A c \in RnLetters, t \in Seq(RnLetters) : Append(t, c) \in Seq(RnLetters)
    OBVIOUS
  <2>2. QED
    BY <2>1
<1>2. \A k \in 1..n, t \in Seq(RnLetters) : step[k][t] = IF skips(k) THEN t ELSE Append(t, s[k])
  OBVIOUS
<1> HIDE DEF step
<1>3. PICK V : V = Seq(RnLetters)
  OBVIOUS
<1>4. PICK none : none = <<>>
  OBVIOUS
<1>5. none \in V /\ step \in [1..n -> [V -> V]]
  BY <1>1, <1>3, <1>4
<1>6. PICK f \in [0..n -> V] : Stepped(none, n, step, f)
  BY <1>5, Steps
<1>7. f \in [0..n -> Seq(RnLetters)] /\ f[0] = <<>> /\ \A k \in 1..n : f[k] = step[k][f[k - 1]]
  BY <1>3, <1>4, <1>6 DEF Stepped
<1>8. ASSUME NEW k \in 1..n PROVE f[k] = IF skips(k) THEN f[k - 1] ELSE Append(f[k - 1], s[k])
  <2>1. k - 1 \in 0..n
    OBVIOUS
  <2>2. PICK t : t = f[k - 1]
    OBVIOUS
  <2>3. t \in Seq(RnLetters) /\ f[k] = step[k][t]
    BY <1>7, <2>1, <2>2
  <2>4. step[k][t] = IF skips(k) THEN t ELSE Append(t, s[k])
    BY <1>2, <2>3
  <2>5. QED
    BY <2>2, <2>3, <2>4
<1>9. f = [k \in 0..n |-> f[k]] /\ f[0] = <<>>
  BY <1>7
<1>10. RnKeeps(s, f)
  BY <1>8, <1>9, RnKeepsAll DEF skips
<1>11. QED
  BY <1>10

\* A slug that ends in c, and one letter more.
RnEnds(t, c) == Len(t) > 0 /\ t[Len(t)] = c

LEMMA RnOneMore ==
    ASSUME NEW u \in Seq(RnLetters), RnSingle(u), NEW c \in RnLetters,
           ~(RnEnds(u, "-") /\ c = "-")
    PROVE  Append(u, c) \in Seq(RnLetters) /\ RnSingle(Append(u, c)) /\ RnEnds(Append(u, c), c)
<1>1. PICK m \in Nat : m = Len(u)
  OBVIOUS
<1>2. PICK v : v = Append(u, c)
  OBVIOUS
<1>3. /\ v \in Seq(RnLetters) /\ Len(v) = m + 1 /\ v[m + 1] = c
      /\ \A i \in 1..m : v[i] = u[i]
  BY <1>1, <1>2
<1>4. ASSUME NEW i \in 1..m PROVE ~(v[i] = "-" /\ v[i + 1] = "-")
  <2>1. CASE i = m
    BY <1>1, <1>3, <2>1 DEF RnEnds
  <2>2. CASE i # m
    <3>1. i \in 1..m - 1 /\ i + 1 \in 1..m
      BY <2>2
    <3>2. QED
      BY <1>1, <1>3, <3>1 DEF RnSingle
  <2>3. QED
    BY <2>1, <2>2
<1>5. RnSingle(v) /\ RnEnds(v, c)
  BY <1>3, <1>4 DEF RnSingle, RnEnds
<1>6. QED
  BY <1>2, <1>3, <1>5

\* Collapsed: its letters are a slug's, and no two hyphens are side by side.
LEMMA RnKeepsSingle ==
    ASSUME NEW n \in Nat, NEW s, Len(s) = n, \A k \in 1..n : s[k] \in RnLetters,
           NEW f, RnKeeps(s, f)
    PROVE  f[n] \in Seq(RnLetters) /\ RnSingle(f[n])
<1>1. /\ f[0] = <<>>
      /\ \A k \in 1..n : f[k] = IF k > 1 /\ s[k] = "-" /\ s[k - 1] = "-" THEN f[k - 1]
                                ELSE Append(f[k - 1], s[k])
  BY RnKeepsEach
<1> DEFINE Good(k) == /\ f[k] \in Seq(RnLetters) /\ RnSingle(f[k])
                      /\ k > 0 => RnEnds(f[k], s[k])
                      /\ k = 0 => f[k] = <<>>
           T == {k \in 0..n : Good(k)}
<1>2. 0 \in T
  <2>1. <<>> \in Seq(RnLetters) /\ RnSingle(<<>>)
    BY DEF RnSingle
  <2>2. Good(0)
    BY <1>1, <2>1
  <2> HIDE DEF Good
  <2>3. QED
    BY <2>2
<1>3. ASSUME NEW k \in 1..n, k - 1 \in T PROVE k \in T
  <2>0. k - 1 \in 0..n /\ Good(k - 1) /\ k \in 0..n /\ k > 0
    BY <1>3
  <2>1. PICK u : u = f[k - 1]
    OBVIOUS
  <2>2. PICK c : c = s[k]
    OBVIOUS
  <2>3. /\ u \in Seq(RnLetters) /\ RnSingle(u) /\ c \in RnLetters
        /\ k > 1 => RnEnds(u, s[k - 1])
        /\ k = 1 => u = <<>>
    BY <2>0, <2>1, <2>2
  <2>4. CASE k > 1 /\ c = "-" /\ s[k - 1] = "-"
    <3>1. f[k] = u
      BY <1>1, <2>1, <2>2, <2>4
    <3>2. Good(k)
      BY <2>0, <2>2, <2>3, <2>4, <3>1
    <3> HIDE DEF Good
    <3>3. QED
      BY <2>0, <3>2
  <2>5. CASE ~(k > 1 /\ c = "-" /\ s[k - 1] = "-")
    <3>1. f[k] = Append(u, c)
      BY <1>1, <2>1, <2>2, <2>5
    <3>2. ~(RnEnds(u, "-") /\ c = "-")
      BY <2>3, <2>5 DEF RnEnds
    <3>3. f[k] \in Seq(RnLetters) /\ RnSingle(f[k]) /\ RnEnds(f[k], c)
      BY <2>3, <3>1, <3>2, RnOneMore
    <3>4. Good(k)
      BY <2>0, <2>2, <3>3
    <3> HIDE DEF Good
    <3>5. QED
      BY <2>0, <3>4
  <2>6. QED
    BY <2>4, <2>5
<1>4. \A k \in 0..n : k \in T
  <2> HIDE DEF T
  <2>1. QED
    BY <1>2, <1>3, UpTo
<1>5. Good(n)
  <2> HIDE DEF Good
  <2>1. QED
    BY <1>4
<1>6. QED
  BY <1>5

LEMMA RnCollapseSingle ==
    ASSUME NEW s \in Seq(RnLetters)
    PROVE  RnCollapse(s) \in Seq(RnLetters) /\ RnSingle(RnCollapse(s))
<1>1. PICK n \in Nat : Len(s) = n
  OBVIOUS
<1>2. \A k \in 1..n : s[k] \in RnLetters
  BY <1>1
<1>3. RnKeeps(s, CHOOSE f : RnKeeps(s, f))
  BY <1>1, <1>2, RnKept
<1>4. RnCollapse(s) = (CHOOSE f : RnKeeps(s, f))[n]
  BY <1>1 DEF RnCollapse, RnKeeps
<1>5. PICK f : RnKeeps(s, f) /\ RnCollapse(s) = f[n]
  BY <1>3, <1>4
<1>6. f[n] \in Seq(RnLetters) /\ RnSingle(f[n])
  BY <1>1, <1>2, <1>5, RnKeepsSingle
<1>7. QED
  BY <1>5, <1>6

\* What has no two hyphens side by side is collapsed already.
LEMMA RnCollapseKeeps ==
    ASSUME NEW s \in Seq(RnLetters), RnSingle(s)
    PROVE  RnCollapse(s) = s
<1>1. PICK n \in Nat : Len(s) = n
  OBVIOUS
<1>2. \A k \in 1..n : s[k] \in RnLetters
  BY <1>1
<1>3. RnKeeps(s, CHOOSE f : RnKeeps(s, f))
  BY <1>1, <1>2, RnKept
<1>4. RnCollapse(s) = (CHOOSE f : RnKeeps(s, f))[n]
  BY <1>1 DEF RnCollapse, RnKeeps
<1>5. PICK f : RnKeeps(s, f) /\ RnCollapse(s) = f[n]
  BY <1>3, <1>4
<1>6. /\ f[0] = <<>>
      /\ \A k \in 1..n : f[k] = IF k > 1 /\ s[k] = "-" /\ s[k - 1] = "-" THEN f[k - 1]
                                ELSE Append(f[k - 1], s[k])
  BY <1>1, <1>5, RnKeepsEach
<1> DEFINE T == {k \in 0..n : f[k] \in Seq(RnLetters)}
<1>7. ASSUME NEW k \in 1..n PROVE f[k] = Append(f[k - 1], s[k])
  <2>1. ~(k > 1 /\ s[k] = "-" /\ s[k - 1] = "-")
    <3>1. SUFFICES ASSUME k > 1 PROVE ~(s[k - 1] = "-" /\ s[k] = "-")
      OBVIOUS
    <3>2. k - 1 \in 1..Len(s) - 1 /\ (k - 1) + 1 = k
      BY <1>1, <3>1
    <3>3. QED
      BY <3>2 DEF RnSingle
  <2>2. QED
    BY <1>6, <2>1
<1>8. 0 \in T
  <2>1. <<>> \in Seq(RnLetters) /\ 0 \in 0..n
    OBVIOUS
  <2>2. QED
    BY <1>6, <2>1
<1>9. ASSUME NEW k \in 1..n, k - 1 \in T PROVE k \in T
  <2>1. PICK u : u = f[k - 1]
    OBVIOUS
  <2>2. PICK c : c = s[k]
    OBVIOUS
  <2>3. u \in Seq(RnLetters) /\ c \in RnLetters /\ k \in 0..n
    BY <1>2, <1>9, <2>1, <2>2
  <2>4. f[k] = Append(u, c)
    BY <1>7, <2>1, <2>2
  <2>5. Append(u, c) \in Seq(RnLetters)
    BY <2>3
  <2>6. QED
    BY <2>3, <2>4, <2>5
<1>10. \A k \in 0..n : f[k] \in Seq(RnLetters)
  <2>1. \A k \in 0..n : k \in T
    <3> HIDE DEF T
    <3>1. QED
      BY <1>8, <1>9, UpTo
  <2>2. QED
    BY <2>1
<1>11. ASSUME NEW k \in 1..n PROVE f[k] = f[k - 1] \o <<s[k]>>
  <2>1. PICK u : u = f[k - 1]
    OBVIOUS
  <2>2. PICK c : c = s[k]
    OBVIOUS
  <2>3. k - 1 \in 0..n
    OBVIOUS
  <2>4. u \in Seq(RnLetters) /\ c \in RnLetters
    BY <1>2, <1>10, <2>1, <2>2, <2>3
  <2>5. Append(u, c) = u \o <<c>>
    BY <2>4
  <2>6. QED
    BY <1>7, <2>1, <2>2, <2>5
<1>12. PICK t : t = f[n]
  OBVIOUS
<1>13. CopyOf(t, RnLetters, s, n)
  BY <1>2, <1>6, <1>11, <1>12, Copied
<1>14. t = s
  BY <1>1, <1>13, SameSeq DEF CopyOf
<1>15. QED
  BY <1>5, <1>12, <1>14

\* A piece of a sequence.
RnPart(t, s, a, b) ==
    /\ t \in Seq(RnLetters) /\ RnSingle(t) /\ Len(t) <= Len(s)
    /\ Len(t) = IF a <= b THEN b - a + 1 ELSE 0
    /\ \A i \in 1..Len(t) : t[i] = s[a + i - 1]

LEMMA RnPiece ==
    ASSUME NEW s \in Seq(RnLetters), RnSingle(s), NEW a \in 1..Len(s), NEW b \in 0..Len(s),
           NEW t, t = SubSeq(s, a, b)
    PROVE  RnPart(t, s, a, b)
<1>1. /\ t \in Seq(RnLetters) /\ Len(t) = IF a <= b THEN b - a + 1 ELSE 0
      /\ \A i \in 1..Len(t) : t[i] = s[a + i - 1] /\ a + i - 1 \in 1..Len(s)
  <2>1. a \in Nat /\ b \in Nat /\ Len(s) \in Nat /\ a >= 1 /\ b <= Len(s)
    OBVIOUS
  <2>2. Len(t) = IF a <= b THEN b - a + 1 ELSE 0
    BY <2>1
  <2>3. ASSUME NEW i \in 1..Len(t) PROVE t[i] = s[a + i - 1] /\ a + i - 1 \in 1..Len(s)
    BY <2>1, <2>2, <2>3
  <2>4. t \in Seq(RnLetters)
    BY <2>1
  <2>5. QED
    BY <2>2, <2>3, <2>4
<1>2. Len(t) <= Len(s)
  BY <1>1
<1>3. ASSUME NEW i \in 1..Len(t) - 1 PROVE ~(t[i] = "-" /\ t[i + 1] = "-")
  <2>1. i \in 1..Len(t) /\ i + 1 \in 1..Len(t) /\ a + (i + 1) - 1 = (a + i - 1) + 1
    BY <1>1
  <2>2. PICK j : j = a + i - 1
    OBVIOUS
  <2>3. t[i] = s[j] /\ t[i + 1] = s[j + 1] /\ j \in 1..Len(s) /\ j + 1 \in 1..Len(s)
    BY <1>1, <2>1, <2>2
  <2>4. j \in 1..Len(s) - 1
    BY <2>3
  <2>5. QED
    BY <2>3, <2>4 DEF RnSingle
<1>4. QED
  BY <1>1, <1>2, <1>3 DEF RnSingle, RnPart

LEMMA RnCutPiece ==
    ASSUME NEW s \in Seq(RnLetters), RnSingle(s)
    PROVE  RnCut(s) \in Seq(RnLetters) /\ RnSingle(RnCut(s)) /\ Len(RnCut(s)) <= RnMaxSlug
<1>1. RnMaxSlug \in Nat
  BY RnAssumption
<1>2. PICK b : b = IF Len(s) < RnMaxSlug THEN Len(s) ELSE RnMaxSlug
  OBVIOUS
<1>3. b \in 0..Len(s) /\ b <= RnMaxSlug
  BY <1>1, <1>2
<1>4. PICK t : t = SubSeq(s, 1, b)
  OBVIOUS
<1>5. RnCut(s) = t
  BY <1>2, <1>4 DEF RnCut
<1>6. CASE Len(s) = 0
  <2>1. s = <<>> /\ b = 0
    BY <1>3, <1>6
  <2>2. t = <<>>
    BY <1>4, <2>1
  <2>3. <<>> \in Seq(RnLetters) /\ RnSingle(<<>>) /\ Len(<<>>) = 0
    BY DEF RnSingle
  <2>4. QED
    BY <1>1, <1>5, <2>2, <2>3
<1>7. CASE Len(s) # 0
  <2>1. 1 \in 1..Len(s)
    BY <1>7
  <2>2. /\ t \in Seq(RnLetters) /\ RnSingle(t)
        /\ Len(t) = IF 1 <= b THEN b - 1 + 1 ELSE 0
    <3>1. RnPart(t, s, 1, b)
      BY <1>3, <1>4, <2>1, RnPiece
    <3>2. QED
      BY <3>1 DEF RnPart
  <2>3. QED
    BY <1>1, <1>3, <1>5, <2>2
<1>8. QED
  BY <1>6, <1>7

\* A slug: single hyphens, inside, and short enough.
RnClean(t) ==
    /\ t \in Seq(RnLetters) /\ RnSingle(t) /\ Len(t) <= RnMaxSlug
    /\ t # <<>> => t[1] # "-" /\ t[Len(t)] # "-"

LEMMA RnTrimClean ==
    ASSUME NEW s \in Seq(RnLetters), RnSingle(s), Len(s) <= RnMaxSlug
    PROVE  RnClean(RnTrim(s))
<1> DEFINE inner == {i \in DOMAIN s : s[i] # "-"}
<1>1. CASE inner = {}
  <2>1. RnTrim(s) = <<>>
    BY <1>1 DEF RnTrim
  <2>2. <<>> \in Seq(RnLetters) /\ RnSingle(<<>>) /\ Len(<<>>) = 0
    BY DEF RnSingle
  <2>3. QED
    BY <2>1, <2>2, RnAssumption DEF RnClean
<1>2. CASE inner # {}
  <2>1. PICK n \in Nat : n = Len(s)
    OBVIOUS
  <2>2. inner \in SUBSET (1..n) /\ inner \in SUBSET Nat /\ inner \in SUBSET (0..n)
    BY <2>1
  <2>3. \A i \in inner : s[i] # "-"
    OBVIOUS
  <2>4. PICK a : a = Min(inner)
    OBVIOUS
  <2>5. PICK b : b = Max(inner)
    OBVIOUS
  <2>6. RnTrim(s) = SubSeq(s, a, b)
    BY <1>2, <2>4, <2>5 DEF RnTrim
  <2> HIDE DEF inner
  <2>7. a \in inner /\ \A j \in inner : a <= j
    BY <1>2, <2>2, <2>4, MinIsLeast
  <2>8. b \in inner
    BY <1>2, <2>1, <2>2, <2>5, MaxIsGreatest
  <2>9. a \in 1..Len(s) /\ b \in 1..Len(s) /\ a <= b /\ s[a] # "-" /\ s[b] # "-"
    BY <2>1, <2>2, <2>3, <2>7, <2>8
  <2>10. PICK t : t = SubSeq(s, a, b)
    OBVIOUS
  <2>11. b \in 0..Len(s)
    BY <2>9
  <2>12. /\ t \in Seq(RnLetters) /\ RnSingle(t) /\ Len(t) <= Len(s)
         /\ Len(t) = IF a <= b THEN b - a + 1 ELSE 0
         /\ \A i \in 1..Len(t) : t[i] = s[a + i - 1]
    <3>1. RnPart(t, s, a, b)
      BY <2>9, <2>10, <2>11, RnPiece
    <3>2. QED
      BY <3>1 DEF RnPart
  <2>13. Len(t) = b - a + 1
    BY <2>9, <2>12
  <2>14. 1 \in 1..Len(t) /\ Len(t) \in 1..Len(t) /\ a + 1 - 1 = a /\ a + Len(t) - 1 = b
    BY <2>9, <2>13
  <2>15. t[1] # "-" /\ t[Len(t)] # "-"
    BY <2>9, <2>12, <2>14
  <2>16. Len(t) <= RnMaxSlug
    BY <2>1, <2>9, <2>12, <2>13, RnAssumption
  <2>17. RnClean(t)
    BY <2>12, <2>15, <2>16 DEF RnClean
  <2>18. QED
    BY <2>6, <2>10, <2>17
<1>3. QED
  BY <1>1, <1>2

\* Nothing of a slug is cut or trimmed.
LEMMA RnCutKeeps ==
    ASSUME NEW t, RnClean(t)
    PROVE  RnCut(t) = t
<1>1. t \in Seq(RnLetters) /\ Len(t) <= RnMaxSlug /\ RnMaxSlug \in Nat
  BY RnAssumption DEF RnClean
<1>2. (IF Len(t) < RnMaxSlug THEN Len(t) ELSE RnMaxSlug) = Len(t)
  BY <1>1
<1>3. SubSeq(t, 1, Len(t)) = t
  BY <1>1
<1>4. QED
  BY <1>2, <1>3 DEF RnCut

LEMMA RnTrimKeeps ==
    ASSUME NEW t, RnClean(t)
    PROVE  RnTrim(t) = t
<1>1. t \in Seq(RnLetters) /\ (t # <<>> => t[1] # "-" /\ t[Len(t)] # "-")
  BY DEF RnClean
<1> DEFINE inner == {i \in DOMAIN t : t[i] # "-"}
<1>2. CASE t = <<>>
  <2>1. inner = {}
    BY <1>2
  <2>2. QED
    BY <1>2, <2>1 DEF RnTrim
<1>3. CASE t # <<>>
  <2>1. PICK n \in Nat : n = Len(t)
    BY <1>1
  <2>2. n > 0
    BY <1>1, <1>3, <2>1
  <2>3. inner \in SUBSET (1..n) /\ 1 \in inner /\ n \in inner
    BY <1>1, <1>3, <2>1, <2>2
  <2>4. inner # {}
    BY <2>3
  <2>5. RnTrim(t) = SubSeq(t, Min(inner), Max(inner))
    BY <2>4 DEF RnTrim
  <2> HIDE DEF inner
  <2>6. inner \in SUBSET Nat /\ inner \in SUBSET (0..n)
    BY <2>3
  <2>7. Min(inner) \in inner /\ \A j \in inner : Min(inner) <= j
    BY <2>4, <2>6, MinIsLeast
  <2>8. Max(inner) \in inner /\ \A j \in inner : Max(inner) >= j
    BY <2>4, <2>6, MaxIsGreatest
  <2>9. Min(inner) = 1 /\ Max(inner) = n
    <3>1. PICK a : a = Min(inner)
      OBVIOUS
    <3>2. PICK b : b = Max(inner)
      OBVIOUS
    <3>3. a \in 1..n /\ b \in 1..n /\ a <= 1 /\ b >= n
      BY <2>3, <2>7, <2>8, <3>1, <3>2
    <3>4. QED
      BY <3>1, <3>2, <3>3
  <2>10. SubSeq(t, 1, n) = t
    BY <1>1, <2>1
  <2>11. QED
    BY <2>5, <2>9, <2>10
<1>4. QED
  BY <1>2, <1>3

\* What is typed becomes a slug, and a slug stays as it is.
LEMMA RnSlugifyClean ==
    ASSUME NEW raw, Len(raw) \in Nat
    PROVE  RnClean(RnSlugify(raw))
<1>1. PICK s : s = RnTranslits(raw)
  OBVIOUS
<1>2. PICK t : t = RnCollapse(s)
  OBVIOUS
<1>3. PICK u : u = RnCut(t)
  OBVIOUS
<1>4. s \in Seq(RnLetters)
  BY <1>1, RnTranslitsType
<1>5. t \in Seq(RnLetters) /\ RnSingle(t)
  BY <1>2, <1>4, RnCollapseSingle
<1>6. u \in Seq(RnLetters) /\ RnSingle(u) /\ Len(u) <= RnMaxSlug
  BY <1>3, <1>5, RnCutPiece
<1>7. RnClean(RnTrim(u))
  BY <1>6, RnTrimClean
<1>8. QED
  BY <1>1, <1>2, <1>3, <1>7 DEF RnSlugify

LEMMA RnSlugifyKeeps ==
    ASSUME NEW t, RnClean(t)
    PROVE  RnSlugify(t) = t
<1>1. t \in Seq(RnLetters) /\ RnSingle(t)
  BY DEF RnClean
<1>2. RnTranslits(t) = t
  BY <1>1, RnTranslitsKeeps
<1>3. RnCollapse(t) = t
  BY <1>1, RnCollapseKeeps
<1>4. RnCut(t) = t /\ RnTrim(t) = t
  BY RnCutKeeps, RnTrimKeeps
<1>5. QED
  BY <1>2, <1>3, <1>4 DEF RnSlugify

\* The link of a slug leads back to it: nothing in it ends a path's segment.
LEMMA RnLinkLeads ==
    ASSUME NEW t, RnClean(t)
    PROVE  RnFromUrl(RnLink(t)) = t
<1>1. t \in Seq(RnLetters)
  BY DEF RnClean
<1>2. PICK n \in Nat : n = Len(t)
  BY <1>1
<1>3. PICK all : all = RnLetters \cup {"/"}
  OBVIOUS
<1>4. PICK path : path = RnLink(t)
  OBVIOUS
<1>5. path \in Seq(all) /\ Len(path) = n + 1 /\ \A i \in 1..n : path[i + 1] = t[i]
  <2>1. t \in Seq(all) /\ <<"/">> \in Seq(all)
    BY <1>1, <1>3
  <2>2. path = <<"/">> \o t
    BY <1>4 DEF RnLink
  <2>3. QED
    BY <1>2, <2>1, <2>2
<1>6. PICK bare : bare = SubSeq(path, 2, Len(path))
  OBVIOUS
<1>7. bare \in Seq(all) /\ Len(bare) = n /\ \A i \in 1..n : bare[i] = path[i + 1]
  BY <1>5, <1>6
<1>8. bare = t
  BY <1>1, <1>2, <1>5, <1>7, SameSeq
<1>9. {i \in DOMAIN t : t[i] \in {"/", "?", "#"}} = {}
  <2>1. \A c \in RnLetters : c \notin {"/", "?", "#"}
    BY DEF RnLetters, RnSlugChars
  <2>2. \A i \in DOMAIN t : t[i] \in RnLetters
    BY <1>1
  <2>3. QED
    BY <2>1, <2>2
<1>10. RnFromUrl(path) = t
  BY <1>6, <1>8, <1>9 DEF RnFromUrl
<1>11. QED
  BY <1>4, <1>10

\* A name that is accepted is a link that leads back to it.
LEMMA RnLeadsBack == ASSUME RnTypeOK PROVE RnUsable
<1>1. Len(rnTyped) \in Nat
  BY DEF RnTypeOK
<1>2. PICK slug : slug = RnSlugify(rnTyped)
  OBVIOUS
<1>3. RnClean(slug)
  BY <1>1, <1>2, RnSlugifyClean
<1>4. RnSlugify(slug) = slug /\ RnFromUrl(RnLink(slug)) = slug
  BY <1>3, RnSlugifyKeeps, RnLinkLeads
<1>5. ToSet(slug) \subseteq RnSlugChars \cup {"-"}
  BY <1>3 DEF RnClean, RnLetters, ToSet
<1>6. Len(slug) <= RnMaxSlug /\ (slug # <<>> => slug[1] # "-" /\ slug[Len(slug)] # "-")
  BY <1>3 DEF RnClean
<1>7. QED
  BY <1>2, <1>4, <1>5, <1>6 DEF RnUsable

----
(* Names as they are typed.                                                 *)

LEMMA FcHolds == FcSpec => [](FcTypeOK /\ FcSameFace)
<1>1. FcInit => FcTypeOK
  BY FcAssumption DEF FcInit, FcTypeOK
<1>2. FcTypeOK /\ [FcNext]_fcVars => FcTypeOK'
  <2>1. SUFFICES ASSUME FcTypeOK, [FcNext]_fcVars PROVE FcTypeOK'
    OBVIOUS
  <2>2. ASSUME NEW c \in FcChars, FcType(c) PROVE FcTypeOK'
    <3>1. fcName \in Seq(FcChars) /\ fcName' = Append(fcName, c) /\ Len(fcName) < FcMaxName
      BY <2>1, <2>2 DEF FcTypeOK, FcType
    <3>2. QED
      BY <3>1, FcAssumption DEF FcTypeOK
  <2>3. CASE UNCHANGED fcVars
    BY <2>1, <2>3 DEF FcTypeOK, fcVars
  <2>4. QED
    BY <2>1, <2>2, <2>3 DEF FcNext
<1>3. FcTypeOK => FcSameFace
  BY FcTwins
<1>4. QED
  BY <1>1, <1>2, <1>3, PTL DEF FcSpec

LEMMA RnHolds == RnSpec => [](RnTypeOK /\ RnUsable)
<1>1. RnInit => RnTypeOK
  BY RnAssumption DEF RnInit, RnTypeOK
<1>2. RnTypeOK /\ [RnNext]_rnVars => RnTypeOK'
  <2>1. SUFFICES ASSUME RnTypeOK, [RnNext]_rnVars PROVE RnTypeOK'
    OBVIOUS
  <2>2. ASSUME NEW c \in RnChars, RnType(c) PROVE RnTypeOK'
    <3>1. rnTyped \in Seq(RnChars) /\ rnTyped' = Append(rnTyped, c) /\ Len(rnTyped) < RnMaxInput
      BY <2>1, <2>2 DEF RnTypeOK, RnType
    <3>2. QED
      BY <3>1, RnAssumption DEF RnTypeOK
  <2>3. CASE UNCHANGED rnVars
    BY <2>1, <2>3 DEF RnTypeOK, rnVars
  <2>4. QED
    BY <2>1, <2>2, <2>3 DEF RnNext
<1>3. RnTypeOK => RnUsable
  BY RnLeadsBack
<1>4. QED
  BY <1>1, <1>2, <1>3, PTL DEF RnSpec

----
(* The page's specification.                                                *)

\* A step is one of one component, the others resting.
LEMMA PageComponents ==
    Spec => /\ StSpec /\ ChSpec /\ HpSpec /\ MuSpec /\ RcSpec /\ AtSpec /\ PaSpec /\ PfSpec
            /\ FcSpec /\ RnSpec /\ LpSpec /\ ScSpec /\ CcSpec
<1>1. Init => /\ StInit /\ ChInit /\ HpInit /\ MuInit /\ RcInit /\ AtInit /\ PaInit /\ PfInit
              /\ FcInit /\ RnInit /\ LpInit /\ ScInit /\ CcInit
  BY DEF Init
<1>2. [Next]_vars => /\ [StNext]_stVars /\ [ChNext]_chVars /\ [HpNext]_hpVars
                     /\ [MuNext]_muVars /\ [CcNext]_ccVars
  BY DEF Next, vars, CallNext, callRest, StNext
<1>3. [Next]_vars => /\ [RcNext]_rcVars /\ [AtNext]_atVars /\ [PaNext]_paVars /\ [PfNext]_pfVars
  BY DEF Next, vars, TabNext, tabRest
<1>4. [Next]_vars => /\ [FcNext]_fcVars /\ [RnNext]_rnVars /\ [LpNext]_lpVars /\ [ScNext]_scVars
  BY DEF Next, vars, LobbyNext, pureRest
<1>5. QED
  BY <1>1, <1>2, <1>3, <1>4, PTL DEF Spec, StSpec, ChSpec, HpSpec, MuSpec, RcSpec, AtSpec, PaSpec,
     PfSpec, FcSpec, RnSpec, LpSpec, ScSpec, CcSpec

\* Every variable of every component keeps its type.
THEOREM TypeCorrect == Spec => []TypeOK
<1>1. /\ StTypeOK /\ ChTypeOK /\ HpTypeOK /\ MuTypeOK /\ RcTypeOK /\ AtTypeOK /\ PaTypeOK
      /\ PfTypeOK /\ FcTypeOK /\ RnTypeOK /\ LpTypeOK /\ ScTypeOK /\ CcTypeOK
      => TypeOK
  BY DEF TypeOK
<1>2. HpSpec => []HpTypeOK
  <2>1. HpInv => HpTypeOK
    BY DEF HpInv
  <2>2. QED
    BY <2>1, HpInitially, HpStep, PTL DEF HpSpec
<1>3. QED
  BY <1>1, <1>2, PageComponents, StHolds, ChHolds, MuTypeCorrect, RcTypeCorrect, AtHolds, PaHolds,
     PfHolds, FcHolds, RnHolds, LpHolds, ScHolds, CcHolds, PTL DEF StSpec

\* For any participants, however they come, go, speak, share and raise hands while pins
\* and speakers outlive them: the page shows who is here, a shared screen leads, and
\* every page numbers the raised hands alike (FocusView.tsx, hooks.ts, raisehand.ts).
THEOREM StageCurrent == Spec => []StageIsCurrent
<1>1. StShowsWhoIsHere /\ StOneQueue => StageIsCurrent
  BY DEF StageIsCurrent
<1>2. QED
  BY <1>1, PageComponents, StHolds, PTL DEF StSpec

\* For any users and messages, though deliveries cross and some fail half-way: what is
\* shown as said was said to all, in the order of each speaker, and what is shown is
\* let go again (datachannel.ts).
THEOREM ChatKept == Spec => []ChatHolds
<1>1. ChTold /\ ChReleased => ChatHolds
  BY DEF ChatHolds
<1>2. QED
  BY <1>1, PageComponents, ChHolds, PTL

\* For any messages, the badge counts what came since the chat was last looked at
\* (datachannel.ts, CallRoom.tsx).
THEOREM UnreadCounted == Spec => []ChUnread
  BY PageComponents, ChHolds, PTL

\* For any number of requests on their way, the host panel shows what the room is once
\* the last of them is answered (ParticipantsPanel.tsx, moderator.go).
THEOREM PanelInSync == Spec => []HpInSync
  BY PageComponents, HpInSyncHolds, PTL

\* For any ticks, sessions and participants, whose speakers may be listed after they have
\* left and who may have joined by a clock that is ahead: the report counts, to the tick,
\* what was observed, whether it is built before or after the cleanup (attendance.ts).
THEOREM ReportCounts == Spec => []AtCounts
  BY PageComponents, AtHolds, PTL

\* For any polls and members, the lobby shows the last answer there was, and forgets
\* nobody on a failed one (LobbyPresence.tsx).
THEOREM LobbyLastKnown == Spec => []LpLastKnown
  BY PageComponents, LpHolds, PTL

\* For any number of sign-ins, sign-outs under way and meetings asked for: no late answer
\* brings a user back who signed out, and none but that of an earlier sign-out ends a
\* session its user did not end (auth.tsx, api.ts, AuthChip.tsx).
THEOREM SessionHeld == Spec => SessionHolds
  BY PageComponents, PaHolds, PTL DEF SessionHolds

\* For any number of versions, deployed and rolled back under any number of requests:
\* what has been stored of one is whole and stays, and whatever is wrong in the cache is
\* an error once answered at that address (sw.js).
THEOREM CacheServed == Spec => []CacheServes
<1>1. ScOffline /\ ScBlame => CacheServes
  BY DEF CacheServes
<1>2. QED
  BY <1>1, PageComponents, ScHolds, PTL

\* Whatever is typed, chosen or pressed: a preference is what is stored, the page's
\* and the backend's own arithmetic give a name of the basic plane one hue, and but for
\* three characters they treat apart, one pair of initials, an accepted room name is a link that leads back to it, and
\* the controls of a phone offer what those of a desktop do, one side panel at a time
\* (theme.ts, i18n.tsx, Avatar.tsx, presence.go, rooms.ts, MeetControls.tsx).
THEOREM SameForAll == Spec => []SameEverywhere
<1>1. PfAgrees /\ FcSameFace /\ RnUsable /\ CcAllOffered /\ CcOnePanel => SameEverywhere
  BY DEF SameEverywhere
<1>2. QED
  BY <1>1, PageComponents, PfHolds, FcHolds, RnHolds, CcHolds, PTL
=============================================================================
