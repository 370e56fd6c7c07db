---------------------------- MODULE FrameProofs ----------------------------
(***************************************************************************)
(* What is known of a frame is true of it: the navigation sample of its    *)
(* instant is the nearest there is, the edge it is stamped with is its own *)
(* exposure's, the card file its row is given is that exposure, and its    *)
(* bytes are at its name, whatever killed the ingest.                      *)
(***************************************************************************)
EXTENDS CardPlace, NavHistory, EdgeMatch, CardMatch, FiniteSetTheorems,
        FunctionTheorems, SequenceTheorems, WellFoundedInduction, TLAPS

-----------------------------------------------------------------------------
(***************************************************************************)
(* Least numbers, induction along an interval, and walks along a list.     *)
(***************************************************************************)
\* A set of numbers that is not empty has a least one, and Min finds it.
LEMMA LeastOf ==
  ASSUME NEW S \in SUBSET Nat, S # {}
  PROVE  Min(S) \in S /\ \A x \in S : Min(S) <= x
<1> DEFINE below(k) == S \cap (0..k)
           T == {below(k) : k \in S}
<1>1. T \subseteq FiniteSubsetsOf(Nat) /\ T # {}
  <2>1. ASSUME NEW k \in S PROVE below(k) \in FiniteSubsetsOf(Nat)
    <3>1. IsFiniteSet(0..k)
      BY FS_Interval
    <3>2. IsFiniteSet(below(k))
      BY <3>1, FS_Subset
    <3> QED BY <3>2 DEF FiniteSubsetsOf
  <2> QED BY <2>1
<1>2. IsWellFoundedOn(StrictSubsetOrdering(Nat), FiniteSubsetsOf(Nat))
  BY FS_StrictSubsetOrderingWellFounded
<1>3. PICK X \in T : \A Y \in T : ~(<<Y, X>> \in StrictSubsetOrdering(Nat))
  <2> HIDE DEF T
  <2> QED BY <1>1, <1>2, WFMin
<1>4. PICK m \in S : X = below(m)
  OBVIOUS
<1>5. ASSUME NEW y \in S, y < m PROVE FALSE
  <2>1. below(y) \in T /\ below(y) \subseteq X /\ below(y) # X
    BY <1>4, <1>5
  <2> QED BY <2>1, <1>3, <1>4 DEF StrictSubsetOrdering
<1>6. \A y \in S : m <= y
  BY <1>5
<1> QED BY <1>6 DEF Min

\* Induction along an interval: what holds of 0 and of the next of whatever it
\* holds of holds of all.
LEMMA Along ==
  ASSUME NEW n \in Nat, NEW S, 0 \in S,
         \A k \in 0..n - 1 : k \in S => k + 1 \in S
  PROVE  \A k \in 0..n : k \in S
<1> DEFINE T == {k \in 0..n : k \notin S}
<1>1. SUFFICES ASSUME T # {} PROVE FALSE
  OBVIOUS
<1>2. T \in SUBSET Nat
  OBVIOUS
<1>3. PICK m \in T : \A x \in T : m <= x
  <2> HIDE DEF T
  <2> QED BY <1>1, <1>2, LeastOf
<1>4. m - 1 \in 0..n - 1 /\ m - 1 \notin T /\ (m - 1) + 1 = m
  BY <1>3
<1> QED BY <1>3, <1>4

\* A walk along a list is a function: there is one for every step.
IsWalk(w, n, base, step) ==
    w = [i \in 0..n |-> IF i = 0 THEN base ELSE step[<<i, w[i - 1]>>]]

LEMMA WalkExists ==
  ASSUME NEW n \in Nat, NEW R, NEW base \in R, NEW step \in [(1..n) \X R -> R]
  PROVE  \E w \in [0..n -> R] : IsWalk(w, n, base, step)
<1> USE DEF IsWalk
<1> DEFINE Upto(m, w) == IsWalk(w, m, base, step)
           S == {m \in 0..n : \E w \in [0..m -> R] : Upto(m, w)}
<1>1. 0 \in S
  <2>1. [i \in 0..0 |-> base] \in [0..0 -> R]
        /\ Upto(0, [i \in 0..0 |-> base])
    OBVIOUS
  <2>2. \E w \in [0..0 -> R] : Upto(0, w)
    <3> HIDE DEF Upto
    <3> QED BY <2>1
  <2> HIDE DEF Upto
  <2> QED BY <2>2
<1>2. ASSUME NEW m \in 0..n - 1, m \in S PROVE m + 1 \in S
  <2>1. PICK w \in [0..m -> R] : Upto(m, w)
    BY <1>2
  <2> DEFINE x == [i \in 0..m + 1 |-> IF i <= m THEN w[i] ELSE step[<<m + 1, w[m]>>]]
  <2>2. w[m] \in R /\ <<m + 1, w[m]>> \in (1..n) \X R
    BY <1>2
  <2>3. step[<<m + 1, w[m]>>] \in R
    BY <2>2
  <2>4. x \in [0..m + 1 -> R]
    BY <2>3
  <2>5. ASSUME NEW i \in 0..m + 1
        PROVE  x[i] = IF i = 0 THEN base ELSE step[<<i, x[i - 1]>>]
    <3>1. CASE i = 0
      <4>1. w[0] = base
        BY <2>1
      <4> QED BY <3>1, <4>1
    <3>2. CASE i \in 1..m
      <4>1. w[i] = step[<<i, w[i - 1]>>]
        BY <2>1, <3>2
      <4>2. x[i] = w[i] /\ x[i - 1] = w[i - 1]
        BY <3>2
      <4> HIDE DEF x
      <4> QED BY <3>2, <4>1, <4>2
    <3>3. CASE i = m + 1
      <4>1. x[i] = step[<<m + 1, w[m]>>] /\ x[i - 1] = w[m]
        BY <3>3
      <4> HIDE DEF x
      <4> QED BY <3>3, <4>1
    <3> QED BY <3>1, <3>2, <3>3
  <2>6. Upto(m + 1, x)
    <3> HIDE DEF x
    <3>1. x = [i \in 0..m + 1 |-> x[i]]
      BY <2>4
    <3> QED BY <2>5, <3>1
  <2> HIDE DEF x
  <2>7. m + 1 \in 0..n
    OBVIOUS
  <2> QED BY <2>4, <2>6, <2>7
<1>3. n \in S
  <2> HIDE DEF S
  <2>1. \A k \in 0..n : k \in S
    BY <1>1, <1>2, Along
  <2> QED BY <2>1
<1> QED BY <1>3

-----------------------------------------------------------------------------
(***************************************************************************)
(* What the navigation reader remembers.                                   *)
(***************************************************************************)
Samples == [at : Nat, method : Methods]

HistoryTypeOK ==
    /\ instant \in Nat
    /\ latest \in [PGNs -> Samples \cup {NoSample}]
    /\ navRing \in [PGNs -> Seq(Samples)]

\* A ring is in the order of its instants, and none is to come.
InOrder(samples) ==
    /\ \A i, j \in 1..Len(samples) : i <= j => samples[i].at <= samples[j].at
    /\ \A i \in 1..Len(samples) : samples[i].at <= instant

\* The latest sample is the newest of its ring, or there is none of either.
NewestIsLatest(p) ==
    IF navRing[p] = <<>> THEN latest[p] = NoSample
    ELSE latest[p] = navRing[p][Len(navRing[p])]

HistoryInv ==
    /\ HistoryTypeOK
    /\ \A p \in PGNs : InOrder(navRing[p]) /\ NewestIsLatest(p)

LEMMA HistoryBegins == HistoryInit => HistoryInv
BY DEF HistoryInit, HistoryInv, HistoryTypeOK, InOrder, NewestIsLatest, NoSample

\* What is kept is the newest part of what there was, and not empty.
LEMMA KeptIsEnd ==
  ASSUME NEW samples \in Seq(Samples), samples # <<>>, instant \in Nat,
         samples[Len(samples)].at = instant
  PROVE  \E a \in 1..Len(samples) :
            /\ Kept(samples) \in Seq(Samples)
            /\ Len(Kept(samples)) = Len(samples) - a + 1
            /\ \A k \in 1..Len(samples) - a + 1 : Kept(samples)[k] = samples[a + k - 1]
<1> DEFINE n == Len(samples)
           cut == IF n > HistoryLen THEN SubSeq(samples, n - HistoryLen + 1, n)
                  ELSE samples
           young == {k \in DOMAIN cut : instant - cut[k].at <= HistoryAge}
           m == Min(young)
<1>1. n \in Nat \ {0}
  OBVIOUS
<1>2. PICK c \in 1..n : /\ cut \in Seq(Samples) /\ Len(cut) = n - c + 1
                        /\ \A k \in 1..n - c + 1 : cut[k] = samples[c + k - 1]
  <2>1. CASE n > HistoryLen
    <3>1. n - HistoryLen + 1 \in 1..n
      BY <1>1, <2>1, NavHistoryAssumption
    <3>2. \A k \in n - HistoryLen + 1..n : samples[k] \in Samples
      BY <3>1
    <3> HIDE DEF n
    <3>3. cut = SubSeq(samples, n - HistoryLen + 1, n)
      BY <2>1
    <3> HIDE DEF cut
    <3>4. cut \in Seq(Samples)
          /\ Len(cut) = n - (n - HistoryLen + 1) + 1
          /\ \A k \in 1..n - (n - HistoryLen + 1) + 1 :
                cut[k] = samples[n - HistoryLen + 1 + k - 1]
      BY <1>1, <3>1, <3>2, <3>3, SubSeqProperties
    <3> QED BY <3>1, <3>4
  <2>2. CASE ~(n > HistoryLen)
    <3>1. cut = samples /\ 1 \in 1..n
      BY <1>1, <2>2
    <3> HIDE DEF cut
    <3>2. \A k \in 1..n - 1 + 1 : cut[k] = samples[1 + k - 1]
      BY <1>1, <3>1
    <3>3. Len(cut) = n - 1 + 1 /\ cut \in Seq(Samples)
      BY <1>1, <3>1
    <3> HIDE DEF n
    <3> QED BY <3>1, <3>2, <3>3
  <2> QED BY <2>1, <2>2
<1>3. m \in 1..n - c + 1
  <2>1. n - c + 1 \in DOMAIN cut
    <3> HIDE DEF cut, n
    <3> QED BY <1>1, <1>2
  <2>2. cut[n - c + 1] = samples[n]
    <3> HIDE DEF cut
    <3> QED BY <1>1, <1>2
  <2> HIDE DEF cut
  <2>3. n - c + 1 \in young
    BY <2>1, <2>2, NavHistoryAssumption
  <2>4. young \in SUBSET (1..n - c + 1)
    <3> HIDE DEF n
    <3> QED BY <1>1, <1>2
  <2> HIDE DEF young
  <2>5. m \in young
    BY <2>3, <2>4, LeastOf
  <2> QED BY <2>4, <2>5
<1>4. Kept(samples) = SubSeq(cut, m, Len(cut))
  BY DEF Kept
<1> HIDE DEF cut, young, m
<1>5. \A k \in m..n - c + 1 : cut[k] \in Samples
  <2> HIDE DEF n
  <2> QED BY <1>1, <1>2, <1>3
<1>6. /\ Kept(samples) \in Seq(Samples)
      /\ Len(Kept(samples)) = (n - c + 1) - m + 1
      /\ \A k \in 1..(n - c + 1) - m + 1 : Kept(samples)[k] = cut[m + k - 1]
  <2> HIDE DEF n
  <2> QED BY <1>1, <1>2, <1>3, <1>4, <1>5, SubSeqProperties
<1> DEFINE a == c + m - 1
<1>7. a \in 1..n /\ (n - c + 1) - m + 1 = n - a + 1
  <2> HIDE DEF n
  <2> QED BY <1>1, <1>3
<1>8. ASSUME NEW k \in 1..n - a + 1 PROVE Kept(samples)[k] = samples[a + k - 1]
  <2> HIDE DEF n
  <2>1. m + k - 1 \in 1..n - c + 1
    BY <1>1, <1>3
  <2>2. cut[m + k - 1] = samples[c + (m + k - 1) - 1]
    BY <1>2, <2>1
  <2>3. c + (m + k - 1) - 1 = a + k - 1
    BY <1>1, <1>3
  <2> QED BY <1>6, <1>7, <2>2, <2>3
<1> HIDE DEF a
<1> QED BY <1>6, <1>7, <1>8

LEMMA IngestKeeps ==
  ASSUME HistoryInv, NEW p \in PGNs, NEW method \in Methods, Ingest(p, method)
  PROVE  HistoryInv'
<1> DEFINE v == [at |-> instant, method |-> method]
           samples == Append(navRing[p], v)
           n == Len(navRing[p])
<1>1. navRing[p] \in Seq(Samples) /\ n \in Nat /\ v \in Samples /\ instant \in Nat
  <2>1. navRing[p] \in Seq(Samples) /\ instant \in Nat
    BY DEF HistoryInv, HistoryTypeOK
  <2>2. v \in Samples
    BY <2>1 DEF Samples
  <2> HIDE DEF v
  <2> QED BY <2>1, <2>2
<1>2. /\ samples \in Seq(Samples) /\ samples # <<>> /\ Len(samples) = n + 1
      /\ \A i \in 1..n : samples[i] = navRing[p][i]
      /\ samples[n + 1] = v
  BY <1>1
<1>3. InOrder(samples)
  <2>1. \A i, j \in 1..n : i <= j => navRing[p][i].at <= navRing[p][j].at
    BY DEF HistoryInv, InOrder
  <2>2. \A i \in 1..n : navRing[p][i].at \in Nat /\ navRing[p][i].at <= instant
    <3>1. \A i \in 1..n : navRing[p][i] \in Samples
      BY <1>1
    <3>2. \A i \in 1..n : navRing[p][i].at <= instant
      BY DEF HistoryInv, InOrder
    <3> HIDE DEF n, samples, v
    <3> QED BY <3>1, <3>2 DEF Samples
  <2>3. v.at = instant
    OBVIOUS
  <2> HIDE DEF v, samples, n
  <2>4. ASSUME NEW i \in 1..n + 1, NEW j \in 1..n + 1, i <= j
        PROVE  samples[i].at <= samples[j].at
    <3>1. CASE j \in 1..n
      <4>1. i \in 1..n
        BY <1>1, <2>4, <3>1
      <4> QED BY <1>2, <2>1, <2>4, <3>1, <4>1
    <3>2. CASE j = n + 1 /\ i \in 1..n
      BY <1>2, <2>2, <2>3, <3>2
    <3>3. CASE j = n + 1 /\ i = n + 1
      BY <1>1, <1>2, <2>3, <3>3
    <3> QED BY <1>1, <2>4, <3>1, <3>2, <3>3
  <2>5. ASSUME NEW i \in 1..n + 1 PROVE samples[i].at <= instant
    <3>1. CASE i \in 1..n
      BY <1>2, <2>2, <3>1
    <3>2. CASE i = n + 1
      BY <1>1, <1>2, <2>3, <3>2
    <3> QED BY <1>1, <3>1, <3>2
  <2> QED BY <1>2, <2>4, <2>5 DEF InOrder
<1>0. PICK a \in 1..Len(samples) :
            /\ Kept(samples) \in Seq(Samples)
            /\ Len(Kept(samples)) = Len(samples) - a + 1
            /\ \A k \in 1..Len(samples) - a + 1 : Kept(samples)[k] = samples[a + k - 1]
  <2>1. samples[Len(samples)].at = instant
    BY <1>2
  <2> HIDE DEF v, samples, n
  <2> QED BY <1>1, <1>2, <2>1, KeptIsEnd
<1>4. /\ a \in 1..n + 1
      /\ Kept(samples) \in Seq(Samples)
      /\ Len(Kept(samples)) = n + 1 - a + 1
      /\ \A k \in 1..n + 1 - a + 1 : Kept(samples)[k] = samples[a + k - 1]
  <2> HIDE DEF v, samples, n
  <2>1. Len(samples) = n + 1
    BY <1>2
  <2>2. a \in 1..n + 1
    BY <2>1
  <2>3. Len(Kept(samples)) = n + 1 - a + 1
    BY <1>0, <1>1, <2>1
  <2>4. \A k \in 1..n + 1 - a + 1 : Kept(samples)[k] = samples[a + k - 1]
    BY <1>0, <1>1, <2>1
  <2>5. Kept(samples) \in Seq(Samples)
    BY <1>0
  <2> QED BY <2>2, <2>3, <2>4, <2>5
<1> DEFINE kept == Kept(samples)
<1>5. kept # <<>> /\ Len(kept) \in Nat /\ kept[Len(kept)] = v
  <2> HIDE DEF samples, v, n
  <2>1. kept[n + 1 - a + 1] = samples[a + (n + 1 - a + 1) - 1]
    BY <1>1, <1>4
  <2>2. a + (n + 1 - a + 1) - 1 = n + 1
    BY <1>1
  <2> QED BY <1>1, <1>2, <1>4, <2>1, <2>2
<1>6. InOrder(kept)
  <2>0. ASSUME NEW i \in 1..Len(kept)
        PROVE  a + i - 1 \in 1..n + 1 /\ kept[i] = samples[a + i - 1]
    <3> HIDE DEF samples, v, n
    <3>1. i \in 1..n + 1 - a + 1
      BY <1>4
    <3>2. kept[i] = samples[a + i - 1]
      BY <1>4, <3>1
    <3> HIDE DEF kept
    <3> QED BY <1>1, <1>4, <3>1, <3>2
  <2> HIDE DEF samples, v, n, kept
  <2>1. ASSUME NEW i \in 1..Len(kept), NEW j \in 1..Len(kept), i <= j
        PROVE  kept[i].at <= kept[j].at
    <3>1. /\ a + i - 1 \in 1..n + 1 /\ a + j - 1 \in 1..n + 1
          /\ a + i - 1 <= a + j - 1
          /\ kept[i] = samples[a + i - 1] /\ kept[j] = samples[a + j - 1]
      BY <2>0, <2>1
    <3> QED BY <1>2, <1>3, <3>1 DEF InOrder
  <2>2. ASSUME NEW i \in 1..Len(kept) PROVE kept[i].at <= instant
    <3>1. a + i - 1 \in 1..n + 1 /\ kept[i] = samples[a + i - 1]
      BY <2>0
    <3> QED BY <1>2, <1>3, <3>1 DEF InOrder
  <2> QED BY <2>1, <2>2 DEF InOrder
<1>7. /\ latest' = [latest EXCEPT ![p] = v]
      /\ navRing' = [navRing EXCEPT ![p] = kept]
      /\ instant' = instant
  BY DEF Ingest
<1> HIDE DEF kept, samples, v
<1>8. HistoryTypeOK'
  BY <1>1, <1>4, <1>7 DEF HistoryInv, HistoryTypeOK, kept
<1>9. ASSUME NEW q \in PGNs PROVE InOrder(navRing[q])' /\ NewestIsLatest(q)'
  <2>1. CASE q = p
    <3>1. navRing'[q] = kept /\ latest'[q] = v
      BY <1>7, <2>1 DEF HistoryInv, HistoryTypeOK
    <3> QED BY <1>5, <1>6, <1>7, <3>1 DEF InOrder, NewestIsLatest
  <2>2. CASE q # p
    <3>1. navRing'[q] = navRing[q] /\ latest'[q] = latest[q]
      BY <1>7, <2>2 DEF HistoryInv, HistoryTypeOK
    <3> QED BY <1>7, <3>1 DEF HistoryInv, InOrder, NewestIsLatest
  <2> QED BY <2>1, <2>2
<1> QED BY <1>8, <1>9 DEF HistoryInv

\* What a ring of samples holds is in order and ends with the latest sample.
THEOREM HistoryInductive == HistorySpec => []HistoryInv
<1>1. HistoryInv /\ [HistoryNext]_historyVars => HistoryInv'
  <2> SUFFICES ASSUME HistoryInv, [HistoryNext]_historyVars PROVE HistoryInv'
    OBVIOUS
  <2>1. CASE HistoryTick
    <3>1. instant \in Nat /\ instant' = instant + 1 /\ UNCHANGED <<latest, navRing>>
      BY <2>1 DEF HistoryTick, HistoryInv, HistoryTypeOK
    <3>2. ASSUME NEW p \in PGNs PROVE InOrder(navRing[p])'
      <4>1. \A i \in 1..Len(navRing[p]) : navRing[p][i].at \in Nat
                                          /\ navRing[p][i].at <= instant
        <5>1. navRing[p] \in Seq(Samples)
          BY DEF HistoryInv, HistoryTypeOK
        <5>2. \A i \in 1..Len(navRing[p]) : navRing[p][i] \in Samples
          BY <5>1
        <5> QED BY <5>2 DEF HistoryInv, InOrder, Samples
      <4>2. \A i \in 1..Len(navRing[p]) : navRing[p][i].at <= instant + 1
        BY <3>1, <4>1
      <4> QED BY <3>1, <4>2 DEF HistoryInv, InOrder
    <3> QED BY <3>1, <3>2 DEF HistoryInv, HistoryTypeOK, NewestIsLatest
  <2>2. ASSUME NEW p \in PGNs, NEW method \in Methods, Ingest(p, method)
        PROVE  HistoryInv'
    BY <2>2, IngestKeeps
  <2>3. CASE UNCHANGED historyVars
    BY <2>3 DEF historyVars, HistoryInv, HistoryTypeOK, InOrder, NewestIsLatest
  <2> QED BY <2>1, <2>2, <2>3 DEF HistoryNext
<1> QED BY <1>1, HistoryBegins, PTL DEF HistorySpec

-----------------------------------------------------------------------------
(***************************************************************************)
(* The walk back through a ring.                                           *)
(***************************************************************************)
Views == [best : Samples \cup {NoSample}, done : BOOLEAN]
NoView == [best |-> NoSample, done |-> FALSE]

\* A sample is not the lack of one.
LEMMA SampleIs == ASSUME NEW v \in Samples PROVE v # NoSample /\ v.at \in Nat
BY DEF Samples, NoSample

LEMMA LookType ==
  ASSUME NEW before \in Views, NEW v \in Samples, NEW at
  PROVE  Look(before, v, at) \in Views
<1>1. Stops(v, at, Away(before.best.at, at)) \in BOOLEAN
  BY DEF Stops
<1>2. [before EXCEPT !.best = v] \in Views
  BY DEF Views
<1>3. [before EXCEPT !.done = Stops(v, at, Away(before.best.at, at))] \in Views
  BY <1>1 DEF Views
<1> QED BY <1>2, <1>3 DEF Look

\* The walk takes one look at each item after the other.
LEMMA WalkIs ==
  ASSUME NEW items \in Seq(Samples), NEW at
  PROVE  /\ Walk(items, at) \in [0..Len(items) -> Views]
         /\ Walk(items, at)[0] = NoView
         /\ \A i \in 1..Len(items) :
                Walk(items, at)[i] = Look(Walk(items, at)[i - 1], items[i], at)
<1> DEFINE n == Len(items)
           step == [q \in (1..n) \X Views |-> Look(q[2], items[q[1]], at)]
           Is(w) == w = [i \in 0..n |-> IF i = 0 THEN NoView
                                        ELSE Look(w[i - 1], items[i], at)]
           walk == CHOOSE w : Is(w)
<1>1. n \in Nat /\ \A i \in 1..n : items[i] \in Samples
  OBVIOUS
<1>2. Walk(items, at) = walk
  BY DEF Walk, NoView
<1>3. step \in [(1..n) \X Views -> Views]
  <2>1. ASSUME NEW q \in (1..n) \X Views PROVE Look(q[2], items[q[1]], at) \in Views
    BY <1>1, LookType
  <2> HIDE DEF n
  <2> QED BY <2>1
<1>4. NoView \in Views
  BY DEF NoView, Views
<1>5. PICK w \in [0..n -> Views] : IsWalk(w, n, NoView, step)
  <2> HIDE DEF n, step
  <2> QED BY <1>1, <1>3, <1>4, WalkExists
<1>6. Is(w)
  <2>1. ASSUME NEW i \in 1..n
        PROVE  step[<<i, w[i - 1]>>] = Look(w[i - 1], items[i], at)
    <3>1. <<i, w[i - 1]>> \in (1..n) \X Views
      BY <1>1
    <3> QED BY <3>1
  <2> HIDE DEF step, n
  <2>2. /\ w = [i \in 0..n |-> w[i]] /\ w[0] = NoView
        /\ \A i \in 1..n : w[i] = Look(w[i - 1], items[i], at)
    BY <1>1, <1>5, <2>1 DEF IsWalk
  <2>3. [i \in 0..n |-> w[i]]
            = [i \in 0..n |-> IF i = 0 THEN NoView ELSE Look(w[i - 1], items[i], at)]
    <3>1. ASSUME NEW i \in 0..n
          PROVE  w[i] = IF i = 0 THEN NoView ELSE Look(w[i - 1], items[i], at)
      <4>1. CASE i = 0
        BY <2>2, <4>1
      <4>2. CASE i \in 1..n
        <5>1. i # 0
          BY <1>1, <4>2
        <5> QED BY <2>2, <4>2, <5>1
      <4> QED BY <1>1, <4>1, <4>2
    <3> QED BY <3>1
  <2> QED BY <2>2, <2>3
<1>7. Is(walk)
  <2> HIDE DEF Is
  <2> QED BY <1>6
<1>8. /\ DOMAIN walk = 0..n /\ walk[0] = NoView
      /\ \A i \in 1..n : walk[i] = Look(walk[i - 1], items[i], at)
  <2> HIDE DEF walk, n
  <2> QED BY <1>1, <1>7
<1>9. \A i \in 0..n : walk[i] \in Views
  <2> DEFINE S == {i \in 0..n : walk[i] \in Views}
  <2> HIDE DEF walk, n
  <2>1. 0 \in S
    BY <1>1, <1>4, <1>8
  <2>2. ASSUME NEW k \in 0..n - 1, k \in S PROVE k + 1 \in S
    <3>1. k + 1 \in 1..n /\ (k + 1) - 1 = k /\ walk[k] \in Views
      BY <1>1, <2>2
    <3>2. walk[k + 1] = Look(walk[k], items[k + 1], at)
      BY <1>8, <3>1
    <3>3. walk[k + 1] \in Views
      BY <1>1, <3>1, <3>2, LookType
    <3> QED BY <1>1, <3>1, <3>3
  <2>3. \A k \in 0..n : k \in S
    <3> HIDE DEF S
    <3> QED BY <1>1, <2>1, <2>2, Along
  <2> QED BY <2>3
<1>10. walk = [i \in 0..n |-> walk[i]]
  <2> HIDE DEF walk, n
  <2> QED BY <1>7
<1>11. walk \in [0..n -> Views]
  <2> HIDE DEF walk, n
  <2> QED BY <1>9, <1>10
<1> HIDE DEF walk
<1> QED BY <1>2, <1>8, <1>11

\* What the walk has found after some items: the first of the closest of them,
\* and none of those to come is closer either once it has stopped.
Finds(items, at, view, m) ==
    /\ \E k \in 1..m : /\ view.best = items[k]
                       /\ \A j \in 1..k - 1 :
                            Away(items[k].at, at) < Away(items[j].at, at)
    /\ \A k \in 1..m : Away(view.best.at, at) <= Away(items[k].at, at)
    /\ view.done => \A k \in 1..Len(items) :
                        Away(view.best.at, at) <= Away(items[k].at, at)

\* A distance is a number.
LEMMA AwayIs == ASSUME NEW a \in Nat, NEW b \in Nat PROVE Away(a, b) \in Nat
BY DEF Away

\* What lies before an instant that is too far back is too far back as well.
LEMMA Further ==
  ASSUME NEW a \in Nat, NEW b \in Nat, NEW at \in Nat, NEW d \in Nat,
         a <= b, b < at - d
  PROVE  d <= Away(a, at)
BY DEF Away

\* Of two instants gone by the later one is nearer.
LEMMA Nearer ==
  ASSUME NEW a \in Nat, NEW b \in Nat, NEW at \in Nat, a <= b, b <= at
  PROVE  Away(b, at) = at - b /\ ~(Away(a, at) < Away(b, at))
BY DEF Away

\* One look keeps what was found, of items from the newest to the oldest.
LEMMA LookFinds ==
  ASSUME NEW items \in Seq(Samples), NEW at \in Nat, NEW before \in Views,
         \A i, j \in 1..Len(items) : i <= j => items[j].at <= items[i].at,
         NEW m \in 1..Len(items) - 1, Finds(items, at, before, m)
  PROVE  Finds(items, at, Look(before, items[m + 1], at), m + 1)
<1> DEFINE v == items[m + 1]
           after == Look(before, v, at)
           dist == Away(before.best.at, at)
<1>1. /\ m \in Nat /\ m + 1 \in 1..Len(items)
      /\ \A k \in 1..Len(items) : items[k].at \in Nat
      /\ v.at \in Nat
  <2>1. \A k \in 1..Len(items) : items[k] \in Samples
    OBVIOUS
  <2>2. m + 1 \in 1..Len(items)
    OBVIOUS
  <2> QED BY <2>1, <2>2 DEF Samples
<1>2. PICK b \in 1..m : /\ before.best = items[b]
                        /\ \A j \in 1..b - 1 :
                            Away(items[b].at, at) < Away(items[j].at, at)
  BY DEF Finds
<1>3. before.best # NoSample /\ before.best.at \in Nat
  <2>1. before.best \in Samples
    BY <1>1, <1>2
  <2> QED BY <2>1, SampleIs
<1>4. \A k \in 1..m : dist <= Away(items[k].at, at)
  BY DEF Finds
<1>9. /\ dist \in Nat /\ Away(v.at, at) \in Nat
      /\ \A k \in 1..Len(items) : Away(items[k].at, at) \in Nat
  BY <1>1, <1>3, AwayIs
<1>5. \A k \in 1..m + 1 : k \in 1..m \/ k = m + 1
  BY <1>1
<1>6. CASE before.done
  <2>1. after = before
    BY <1>6 DEF Look
  <2>2. \A k \in 1..Len(items) : Away(before.best.at, at) <= Away(items[k].at, at)
    BY <1>6 DEF Finds
  <2>3. b \in 1..m + 1 /\ 1..m + 1 \subseteq 1..Len(items)
    BY <1>1
  <2> QED BY <1>2, <2>1, <2>2, <2>3 DEF Finds
<1>7. CASE ~before.done /\ Away(v.at, at) < dist
  <2>1. after = [before EXCEPT !.best = v]
    BY <1>7 DEF Look
  <2>2. after.best = v /\ after.done = FALSE
    BY <1>7, <2>1 DEF Views
  <2>3. \A k \in 1..m : Away(v.at, at) <= Away(items[k].at, at)
    <3> SUFFICES ASSUME NEW k \in 1..m PROVE Away(v.at, at) <= Away(items[k].at, at)
      OBVIOUS
    <3> DEFINE a == Away(v.at, at)
               b2 == Away(items[k].at, at)
    <3>1. k \in 1..Len(items)
      BY <1>1
    <3>2. a \in Nat /\ b2 \in Nat /\ dist \in Nat /\ dist <= b2 /\ a < dist
      BY <1>4, <1>7, <1>9, <3>1
    <3> HIDE DEF dist, a, b2
    <3>3. a <= b2
      BY <3>2
    <3> QED BY <3>3 DEF a, b2
  <2>4. Away(v.at, at) <= Away(v.at, at)
    BY <1>1 DEF Away
  <2>5. \A k \in 1..m + 1 : Away(v.at, at) <= Away(items[k].at, at)
    BY <1>5, <2>3, <2>4
  <2>6. m + 1 \in 1..m + 1
        /\ \A j \in 1..(m + 1) - 1 : Away(items[m + 1].at, at) < Away(items[j].at, at)
    <3>1. \A j \in 1..(m + 1) - 1 : j \in 1..m /\ j \in 1..Len(items)
      BY <1>1
    <3> HIDE DEF dist
    <3>2. \A j \in 1..(m + 1) - 1 : Away(v.at, at) < Away(items[j].at, at)
      BY <1>4, <1>7, <1>9, <3>1
    <3> QED BY <1>1, <3>2
  <2> QED BY <2>2, <2>5, <2>6 DEF Finds
<1>8. CASE ~before.done /\ ~(Away(v.at, at) < dist)
  <2>1. after = [before EXCEPT !.done = Stops(v, at, dist)]
    BY <1>3, <1>8 DEF Look
  <2>2. after.best = before.best /\ (after.done => Stops(v, at, dist))
    BY <2>1 DEF Views
  <2>3. dist <= Away(v.at, at)
    <3> HIDE DEF dist
    <3> QED BY <1>8, <1>9
  <2>4. \A k \in 1..m + 1 : dist <= Away(items[k].at, at)
    BY <1>4, <1>5, <2>3
  <2>5. ASSUME Stops(v, at, dist), NEW k \in 1..Len(items)
        PROVE  dist <= Away(items[k].at, at)
    <3>1. CASE k \in 1..m + 1
      BY <2>4, <3>1
    <3>2. CASE m + 1 <= k
      <4>1. items[k].at <= v.at
        BY <1>1, <3>2
      <4>2. v.at < at - dist /\ items[k].at \in Nat
        BY <1>1, <2>5 DEF Stops
      <4> HIDE DEF dist, v
      <4> QED BY <1>1, <1>9, <4>1, <4>2, Further
    <3> QED BY <1>1, <3>1, <3>2
  <2>6. b \in 1..m + 1
    BY <1>1
  <2>7. \E k \in 1..m + 1 : /\ after.best = items[k]
                            /\ \A j \in 1..k - 1 :
                                Away(items[k].at, at) < Away(items[j].at, at)
    <3> HIDE DEF after
    <3> QED BY <1>2, <2>2, <2>6
  <2>8. \A k \in 1..m + 1 : Away(after.best.at, at) <= Away(items[k].at, at)
    <3> HIDE DEF after
    <3> QED BY <2>2, <2>4
  <2>9. after.done => \A k \in 1..Len(items) :
                        Away(after.best.at, at) <= Away(items[k].at, at)
    <3> HIDE DEF after
    <3> QED BY <2>2, <2>5
  <2> QED BY <2>7, <2>8, <2>9 DEF Finds
<1> QED BY <1>6, <1>7, <1>8

\* The walk finds one of the items, and none is closer.
LEMMA WalkFinds ==
  ASSUME NEW items \in Seq(Samples), items # <<>>, NEW at \in Nat,
         \A i, j \in 1..Len(items) : i <= j => items[j].at <= items[i].at
  PROVE  Finds(items, at, Walk(items, at)[Len(items)], Len(items))
<1> DEFINE n == Len(items)
           w == Walk(items, at)
           S == {m \in 0..n : m = 0 \/ Finds(items, at, w[m], m)}
<1>1. n \in Nat \ {0}
  OBVIOUS
<1>2. /\ \A m \in 0..n : w[m] \in Views
      /\ w[0] = NoView
      /\ \A i \in 1..n : w[i] = Look(w[i - 1], items[i], at)
  BY WalkIs
<1>3. 0 \in S
  BY <1>1
<1>4. ASSUME NEW m \in 0..n - 1, m \in S PROVE m + 1 \in S
  <2>1. m + 1 \in 1..n /\ (m + 1) - 1 = m
    BY <1>1
  <2>2. w[m + 1] = Look(w[m], items[m + 1], at)
    <3> HIDE DEF w, n
    <3> QED BY <1>2, <2>1
  <2>3. CASE m = 0
    <3>1. w[1] = Look(NoView, items[1], at)
      <4> HIDE DEF w
      <4> QED BY <1>2, <2>2, <2>3
    <3>2. w[1] = [NoView EXCEPT !.best = items[1]]
      <4> HIDE DEF w
      <4> QED BY <3>1 DEF Look, NoView
    <3>3. w[1].best = items[1] /\ w[1].done = FALSE
      <4> HIDE DEF w
      <4> QED BY <3>2 DEF NoView
    <3>4. items[1].at \in Nat
      <4>1. items[1] \in Samples
        BY <1>1
      <4> QED BY <4>1, SampleIs
    <3>5. Away(items[1].at, at) <= Away(items[1].at, at)
      BY <3>4 DEF Away
    <3>6. Finds(items, at, w[1], 1)
      <4> HIDE DEF w
      <4> QED BY <3>3, <3>5 DEF Finds
    <3> HIDE DEF w
    <3> QED BY <1>1, <2>1, <2>3, <3>6
  <2>4. CASE m \in 1..n - 1
    <3>1. Finds(items, at, w[m], m) /\ w[m] \in Views
      <4> HIDE DEF w
      <4> QED BY <1>1, <1>2, <1>4, <2>4
    <3>2. Finds(items, at, w[m + 1], m + 1)
      <4> HIDE DEF w
      <4> QED BY <2>2, <2>4, <3>1, LookFinds
    <3> HIDE DEF w
    <3> QED BY <2>1, <3>2
  <2> QED BY <1>1, <2>3, <2>4
<1>5. n \in S
  <2> HIDE DEF S, n
  <2>1. \A k \in 0..n : k \in S
    BY <1>1, <1>3, <1>4, Along
  <2> QED BY <1>1, <2>1
<1> HIDE DEF w
<1> QED BY <1>1, <1>5 DEF w

\* The ring from its newest to its oldest.
LEMMA Backwards ==
  ASSUME HistoryInv, NEW p \in PGNs
  PROVE  /\ Reverse(navRing[p]) \in Seq(Samples)
         /\ Len(Reverse(navRing[p])) = Len(navRing[p])
         /\ \A i \in 1..Len(navRing[p]) :
                Reverse(navRing[p])[i] = navRing[p][Len(navRing[p]) - i + 1]
         /\ \A i, j \in 1..Len(navRing[p]) :
                i <= j => Reverse(navRing[p])[j].at <= Reverse(navRing[p])[i].at
<1> DEFINE n == Len(navRing[p])
           items == Reverse(navRing[p])
<1>1. navRing[p] \in Seq(Samples)
  BY DEF HistoryInv, HistoryTypeOK
<1>2. n \in Nat /\ items = [i \in 1..n |-> navRing[p][(n - i) + 1]]
  BY <1>1 DEF Reverse
<1>3. ASSUME NEW i \in 1..n PROVE (n - i) + 1 \in 1..n /\ navRing[p][(n - i) + 1] \in Samples
  <2>1. (n - i) + 1 \in 1..n
    <3> HIDE DEF n
    <3> QED BY <1>2
  <2> QED BY <1>1, <2>1
<1>4. items \in Seq(Samples) /\ Len(items) = n
  <2> HIDE DEF n
  <2>1. items \in [1..n -> Samples]
    BY <1>2, <1>3
  <2> HIDE DEF items
  <2> QED BY <1>2, <2>1
<1>5. ASSUME NEW i \in 1..n, NEW j \in 1..n, i <= j PROVE items[j].at <= items[i].at
  <2>1. InOrder(navRing[p])
    BY DEF HistoryInv
  <2>2. (n - j) + 1 \in 1..n /\ (n - i) + 1 \in 1..n /\ (n - j) + 1 <= (n - i) + 1
    <3> HIDE DEF n
    <3> QED BY <1>2, <1>5
  <2>3. navRing[p][(n - j) + 1].at <= navRing[p][(n - i) + 1].at
    <3> HIDE DEF items
    <3> QED BY <2>1, <2>2 DEF InOrder
  <2>4. items[j] = navRing[p][(n - j) + 1] /\ items[i] = navRing[p][(n - i) + 1]
    <3> HIDE DEF n
    <3> QED BY <1>2
  <2> HIDE DEF n, items
  <2> QED BY <2>3, <2>4
<1>6. \A i \in 1..n : items[i] = navRing[p][n - i + 1]
  <2> HIDE DEF n
  <2> QED BY <1>2
<1> HIDE DEF items, n
<1> QED BY <1>4, <1>5, <1>6 DEF items, n

\* What _nearest() returns, of a ring that is not empty.
LEMMA NearestIs ==
  ASSUME HistoryInv, NEW p \in PGNs, NEW at \in Nat, navRing[p] # <<>>
  PROVE  \E k \in 1..Len(navRing[p]) :
            /\ \A j \in 1..Len(navRing[p]) :
                  Away(navRing[p][k].at, at) <= Away(navRing[p][j].at, at)
            /\ \A j \in k + 1..Len(navRing[p]) :
                  Away(navRing[p][k].at, at) < Away(navRing[p][j].at, at)
            /\ Nearest(p, at) =
                  IF Away(navRing[p][k].at, at) > StaleAfter[p] THEN NoSample
                  ELSE navRing[p][k]
<1> DEFINE n == Len(navRing[p])
           items == Reverse(navRing[p])
           view == Walk(items, at)[n]
<1>1. navRing[p] \in Seq(Samples) /\ n \in Nat \ {0}
  BY DEF HistoryInv, HistoryTypeOK
<1>2. /\ items \in Seq(Samples) /\ Len(items) = n
      /\ \A i \in 1..n : items[i] = navRing[p][n - i + 1]
      /\ \A i, j \in 1..n : i <= j => items[j].at <= items[i].at
  BY Backwards
<1>3. Finds(items, at, view, n)
  <2>1. items # <<>>
    <3> HIDE DEF n, items
    <3> QED BY <1>1, <1>2
  <2> HIDE DEF items, n
  <2> QED BY <1>2, <2>1, WalkFinds
<1>4. PICK b \in 1..n : /\ view.best = items[b]
                        /\ \A j \in 1..b - 1 :
                            Away(items[b].at, at) < Away(items[j].at, at)
  <2> HIDE DEF items, n, view
  <2> QED BY <1>3 DEF Finds
<1> DEFINE k == n - b + 1
<1>5. k \in 1..n /\ view.best = navRing[p][k] /\ navRing[p][k] # NoSample
  <2>1. k \in 1..n
    <3> HIDE DEF n
    <3> QED BY <1>1
  <2>2. view.best = navRing[p][k]
    <3> HIDE DEF n, items, view
    <3> QED BY <1>2, <1>4
  <2>3. navRing[p][k] \in Samples
    <3> HIDE DEF k
    <3> QED BY <1>1, <2>1
  <2> HIDE DEF k, view
  <2> QED BY <2>1, <2>2, <2>3, SampleIs
<1>6. ASSUME NEW j \in 1..n
      PROVE  Away(navRing[p][k].at, at) <= Away(navRing[p][j].at, at)
  <2>1. n - j + 1 \in 1..n /\ n - (n - j + 1) + 1 = j
    <3> HIDE DEF n
    <3> QED BY <1>1
  <2>2. items[n - j + 1] = navRing[p][j]
    <3> HIDE DEF n, items
    <3> QED BY <1>2, <2>1
  <2>3. Away(view.best.at, at) <= Away(items[n - j + 1].at, at)
    <3> HIDE DEF n, items, view
    <3> QED BY <1>3, <2>1 DEF Finds
  <2> HIDE DEF n, items, view, k
  <2> QED BY <1>5, <2>2, <2>3
<1>9. ASSUME NEW j \in k + 1..n
      PROVE  Away(navRing[p][k].at, at) < Away(navRing[p][j].at, at)
  <2>1. n - j + 1 \in 1..b - 1 /\ n - j + 1 \in 1..n /\ n - (n - j + 1) + 1 = j
    <3> HIDE DEF n
    <3> QED BY <1>1
  <2>2. items[n - j + 1] = navRing[p][j] /\ items[b] = navRing[p][k]
    <3> HIDE DEF n, items
    <3> QED BY <1>2, <2>1
  <2> HIDE DEF n, items, view, k
  <2> QED BY <1>4, <2>1, <2>2
<1>7. Nearest(p, at) = IF view.best = NoSample \/ Away(view.best.at, at) > StaleAfter[p]
                       THEN NoSample ELSE view.best
  <2>1. Len(items) = n
    BY <1>2
  <2> HIDE DEF n
  <2> QED BY <2>1 DEF Nearest
<1> HIDE DEF n, items, view, k
<1>8. Nearest(p, at) = IF Away(navRing[p][k].at, at) > StaleAfter[p] THEN NoSample
                       ELSE navRing[p][k]
  BY <1>5, <1>7
<1> QED BY <1>5, <1>6, <1>8, <1>9 DEF n

\* Of an empty ring it returns nothing.
LEMMA NearestOfNone ==
  ASSUME HistoryInv, NEW p \in PGNs, NEW at \in Nat, navRing[p] = <<>>
  PROVE  Nearest(p, at) = NoSample
<1>1. Reverse(navRing[p]) = <<>>
  <2>1. Reverse(navRing[p]) \in Seq(Samples) /\ Len(Reverse(navRing[p])) = 0
    BY Backwards
  <2> QED BY <2>1
<1>2. Walk(<<>>, at)[Len(<<>>)] = NoView
  <2>1. <<>> \in Seq(Samples) /\ Len(<<>>) = 0
    OBVIOUS
  <2>2. Walk(<<>>, at)[0] = NoView
    BY <2>1, WalkIs
  <2> QED BY <2>1, <2>2
<1> QED BY <1>1, <1>2 DEF Nearest, NoView

\* A frame's sample is the closest of those that are close enough.
LEMMA HistoryNearest == HistoryInv => NearestIsNearest
<1> SUFFICES ASSUME HistoryInv, NEW p \in PGNs, NEW at \in 0..MaxInstant + 1
             PROVE  LET close == {i \in 1..Len(navRing[p]) :
                                    Away(navRing[p][i].at, at) <= StaleAfter[p]}
                        v == Nearest(p, at)
                    IN  IF close = {} THEN v = NoSample
                        ELSE /\ \E i \in close : navRing[p][i] = v
                             /\ \A i \in close : Away(v.at, at) <= Away(navRing[p][i].at, at)
  BY DEF NearestIsNearest
<1> DEFINE n == Len(navRing[p])
           away(i) == Away(navRing[p][i].at, at)
           close == {i \in 1..n : away(i) <= StaleAfter[p]}
<1>1. at \in Nat /\ StaleAfter[p] \in Nat
  BY NavHistoryAssumption DEF PGNs
<1>2. navRing[p] \in Seq(Samples) /\ n \in Nat
  BY DEF HistoryInv, HistoryTypeOK
<1>3. \A i \in 1..n : away(i) \in Nat
  <2>1. \A i \in 1..n : navRing[p][i] \in Samples
    BY <1>2
  <2>2. \A i \in 1..n : navRing[p][i].at \in Nat
    BY <2>1, SampleIs
  <2> QED BY <1>1, <2>2, AwayIs
<1>4. CASE navRing[p] = <<>>
  <2>1. n = 0
    BY <1>4
  <2>3. Nearest(p, at) = NoSample
    BY <1>1, <1>4, NearestOfNone
  <2> QED BY <2>1, <2>3
<1>5. CASE navRing[p] # <<>>
  <2>1. PICK k \in 1..n :
            /\ \A j \in 1..n : away(k) <= away(j)
            /\ Nearest(p, at) = IF away(k) > StaleAfter[p] THEN NoSample
                                ELSE navRing[p][k]
    BY <1>1, <1>5, NearestIs
  <2> HIDE DEF n
  <2>2. CASE away(k) > StaleAfter[p]
    <3>1. close = {}
      <4> HIDE DEF away
      <4> QED BY <1>1, <1>3, <2>1, <2>2
    <3>2. Nearest(p, at) = NoSample
      BY <2>1, <2>2
    <3> HIDE DEF close, away
    <3> QED BY <3>1, <3>2 DEF close, away, n
  <2>3. CASE ~(away(k) > StaleAfter[p])
    <3>1. k \in close /\ Nearest(p, at) = navRing[p][k]
      <4> HIDE DEF away
      <4> QED BY <1>1, <1>3, <2>1, <2>3
    <3>2. \A i \in close : Away(navRing[p][k].at, at) <= Away(navRing[p][i].at, at)
      BY <2>1
    <3> QED BY <3>1, <3>2 DEF n
  <2> QED BY <2>2, <2>3
<1> QED BY <1>4, <1>5

\* The sample of the instant itself is the latest one.
LEMMA NowIsLatest ==
  ASSUME HistoryInv, NEW p \in PGNs
  PROVE  Nearest(p, instant) = Latest(p, instant)
<1> DEFINE n == Len(navRing[p])
<1>1. instant \in Nat /\ navRing[p] \in Seq(Samples) /\ n \in Nat
  BY DEF HistoryInv, HistoryTypeOK
<1>2. StaleAfter[p] \in Nat
  BY NavHistoryAssumption DEF PGNs
<1>3. CASE navRing[p] = <<>>
  <2>1. Nearest(p, instant) = NoSample
    BY <1>1, <1>3, NearestOfNone
  <2>2. latest[p] = NoSample
    BY <1>3 DEF HistoryInv, NewestIsLatest
  <2> QED BY <2>1, <2>2 DEF Latest
<1>4. CASE navRing[p] # <<>>
  <2>1. PICK k \in 1..n :
            /\ \A j \in k + 1..n :
                  Away(navRing[p][k].at, instant) < Away(navRing[p][j].at, instant)
            /\ Nearest(p, instant) =
                  IF Away(navRing[p][k].at, instant) > StaleAfter[p] THEN NoSample
                  ELSE navRing[p][k]
    BY <1>1, <1>4, NearestIs
  <2>2. /\ navRing[p][k].at <= navRing[p][n].at
        /\ navRing[p][n].at <= instant
        /\ navRing[p][k] \in Samples /\ navRing[p][n] \in Samples
        /\ latest[p] = navRing[p][n]
    <3>1. InOrder(navRing[p]) /\ NewestIsLatest(p)
      BY DEF HistoryInv
    <3>2. n \in 1..n /\ k <= n
      <4> HIDE DEF n
      <4> QED BY <1>1
    <3> QED BY <1>1, <1>4, <3>1, <3>2 DEF InOrder, NewestIsLatest
  <2>3. navRing[p][k].at \in Nat /\ navRing[p][n].at \in Nat /\ latest[p] # NoSample
    BY <2>2, SampleIs
  <2>4. k = n
    <3>1. ~(Away(navRing[p][k].at, instant) < Away(navRing[p][n].at, instant))
      BY <1>1, <2>2, <2>3, Nearer
    <3>2. n \notin k + 1..n
      BY <2>1, <3>1
    <3> HIDE DEF n
    <3> QED BY <1>1, <3>2
  <2>5. Away(navRing[p][n].at, instant) = instant - latest[p].at
    BY <1>1, <2>2, <2>3, Nearer
  <2> QED BY <2>1, <2>2, <2>3, <2>4, <2>5 DEF Latest
<1> QED BY <1>3, <1>4

\* The two views are of the same sample.
LEMMA HistoryViews == HistoryInv => ViewsAgree
<1>1. ASSUME HistoryInv
      PROVE  [p \in PGNs |-> Latest(p, instant)] = [p \in PGNs |-> Nearest(p, instant)]
  BY <1>1, NowIsLatest
<1> QED BY <1>1 DEF ViewsAgree, FixAt, Snapshot


\* What a frame and the operator are told from the ring is the nearest sample
\* there is, and the same of both (_nearest, snapshot, fix_at).
THEOREM HistoryStaysHonest == HistorySpec => []HistoryIsHonest
<1>1. HistoryInv => HistoryIsHonest
  BY HistoryNearest, HistoryViews DEF HistoryIsHonest
<1> QED BY <1>1, HistoryInductive, PTL

-----------------------------------------------------------------------------
(***************************************************************************)
(* Which edge a frame is stamped with.                                     *)
(***************************************************************************)
ShotKinds == {"fire", "unheard", "dud", "body"}
MadeShots == [at : Nat, kind : ShotKinds, slips : Nat]
Edges == [edge : {"fall", "rise"}, t : Nat, fire : Nat, soft : BOOLEAN, of : Nat]
Exifs == {"none", "rough", "fine"}
Handlings == [frame : Nat, claim : Nat, tries : Nat, exif : Exifs]

EdgeTypeOK ==
    /\ shots \in Seq(MadeShots)
    /\ ring \in Seq(Edges)
    /\ cursor \in 0..Len(ring)
    /\ falls \in Seq(Edges) /\ rises \in Seq(Edges)
    /\ handling \in Handlings
    /\ ~Idle => F \in 1..Len(shots)

\* What a row names are shots that were made.
RowNamesShots(r) ==
    /\ r.frame \in 1..Len(shots)
    /\ r.edge # 0 => r.edge \in 1..Len(shots)
    /\ r.rise # 0 => r.rise \in 1..Len(shots)
RowsNameShots == \A r \in stamped : RowNamesShots(r)

\* The ring has at most one fall and one rise of a shot, at their instants.
IsOf(e, made) ==
    /\ e.of \in 1..Len(made)
    /\ e.t = IF e.edge = "fall" THEN made[e.of].at ELSE made[e.of].at + 1
IsTrue(events, made) ==
    /\ \A i \in 1..Len(events) : IsOf(events[i], made)
    /\ \A i, j \in 1..Len(events) :
          events[i].edge = events[j].edge /\ events[i].of = events[j].of => i = j
RingIsTrue == IsTrue(ring, shots)

\* A buffer holds read events of its kind, each once.
HoldsRead(buffer, edge, upTo) ==
    /\ \A k \in 1..Len(buffer) :
          \E i \in 1..upTo : ring[i] = buffer[k] /\ buffer[k].edge = edge
    /\ \A i, j \in 1..Len(buffer) : buffer[i].of = buffer[j].of => i = j

\* What was stamped is no longer in the buffer, and was read.
Unused(buffer) == \A k \in 1..Len(buffer), r \in stamped : r.edge # buffer[k].of
StampedWasRead ==
    \A r \in stamped :
        r.edge # 0 => \E i \in 1..cursor : ring[i].edge = "fall" /\ ring[i].of = r.edge

EdgeInv ==
    /\ EdgeTypeOK /\ RowsNameShots /\ RingIsTrue
    /\ HoldsRead(falls, "fall", cursor) /\ HoldsRead(rises, "rise", cursor)
    /\ Unused(falls) /\ StampedWasRead
    /\ EdgesAreHonest

LEMMA EdgeBegins == EdgeInit => EdgeInv
BY DEF EdgeInit, EdgeInv, EdgeTypeOK, RowsNameShots, RingIsTrue, IsTrue, HoldsRead, Unused,
       StampedWasRead, EdgesAreHonest, EdgeServesOneFrame, HardMeansHard,
       FineFramesStayNear, WindowIsPlausible, NoFrame, Handlings, Exifs, Idle

-----------------------------------------------------------------------------
\* Reading appends events of its kind that were not read before, and no other.
ReadUpTo(w, buffer, edge, m) ==
    /\ w \in Seq(Edges)
    /\ \A k \in 1..Len(w) :
          \/ k <= Len(buffer) /\ w[k] = buffer[k]
          \/ \E i \in cursor + 1..m : ring[i] = w[k] /\ w[k].edge = edge
    /\ \A i, j \in 1..Len(w) : w[i].of = w[j].of => i = j

LEMMA ReadsOne ==
  ASSUME EdgeInv, NEW buffer \in Seq(Edges), NEW edge, HoldsRead(buffer, edge, cursor),
         NEW m \in cursor..Len(ring) - 1, NEW w, ReadUpTo(w, buffer, edge, m),
         ring[m + 1].edge = edge
  PROVE  ReadUpTo(Append(w, ring[m + 1]), buffer, edge, m + 1)
<1> DEFINE e == ring[m + 1]
           x == Append(w, e)
           n == Len(w)
<1>1. m \in Nat /\ cursor \in Nat /\ Len(ring) \in Nat /\ m + 1 \in cursor + 1..Len(ring)
      /\ m + 1 \in 1..Len(ring)
  BY DEF EdgeInv, EdgeTypeOK
<1>2. e \in Edges
  BY <1>1 DEF EdgeInv, EdgeTypeOK
<1>3. w \in Seq(Edges) /\ n \in Nat
  BY DEF ReadUpTo
<1>4. /\ x \in Seq(Edges) /\ Len(x) = n + 1 /\ x[n + 1] = e
      /\ \A k \in 1..n : x[k] = w[k]
  <2> HIDE DEF e
  <2> QED BY <1>2, <1>3, AppendProperties
<1>5. ASSUME NEW k \in 1..n PROVE w[k].of # e.of
  <2>1. CASE k <= Len(buffer) /\ w[k] = buffer[k]
    <3>1. PICK i \in 1..cursor : ring[i] = w[k] /\ w[k].edge = edge
      BY <1>1, <1>3, <2>1 DEF HoldsRead
    <3>2. i \in 1..Len(ring) /\ i # m + 1
      BY <1>1
    <3> QED BY <1>1, <3>1, <3>2 DEF EdgeInv, RingIsTrue, IsTrue
  <2>2. CASE \E i \in cursor + 1..m : ring[i] = w[k] /\ w[k].edge = edge
    <3>1. PICK i \in cursor + 1..m : ring[i] = w[k] /\ w[k].edge = edge
      BY <2>2
    <3>2. i \in 1..Len(ring) /\ i # m + 1
      BY <1>1
    <3> QED BY <1>1, <3>1, <3>2 DEF EdgeInv, RingIsTrue, IsTrue
  <2> QED BY <2>1, <2>2 DEF ReadUpTo
<1>6. ASSUME NEW k \in 1..n + 1
      PROVE  \/ k <= Len(buffer) /\ x[k] = buffer[k]
             \/ \E i \in cursor + 1..m + 1 : ring[i] = x[k] /\ x[k].edge = edge
  <2>1. CASE k \in 1..n
    <3>1. x[k] = w[k]
      BY <1>4, <2>1
    <3>2. \A i \in cursor + 1..m : i \in cursor + 1..m + 1
      BY <1>1
    <3> HIDE DEF x
    <3> QED BY <2>1, <3>1, <3>2 DEF ReadUpTo
  <2>2. CASE k = n + 1
    <3>1. m + 1 \in cursor + 1..m + 1
      BY <1>1
    <3> HIDE DEF x
    <3> QED BY <1>4, <2>2, <3>1
  <2> QED BY <1>3, <2>1, <2>2
<1>7. ASSUME NEW i \in 1..n + 1, NEW j \in 1..n + 1, x[i].of = x[j].of PROVE i = j
  <2> HIDE DEF x, e, n
  <2>1. CASE i \in 1..n /\ j \in 1..n
    BY <1>4, <1>7, <2>1 DEF ReadUpTo, n
  <2>2. CASE i = n + 1 \/ j = n + 1
    BY <1>3, <1>4, <1>5, <1>7, <2>2
  <2> QED BY <1>3, <2>1, <2>2
<1> HIDE DEF x, n
<1> QED BY <1>4, <1>6, <1>7 DEF ReadUpTo, x

LEMMA ReadIs ==
  ASSUME EdgeInv, NEW buffer \in Seq(Edges), NEW edge, HoldsRead(buffer, edge, cursor)
  PROVE  ReadUpTo(Read(buffer, edge), buffer, edge, Len(ring))
<1> DEFINE n == Len(ring)
           next(i, w) == IF i <= cursor THEN buffer
                         ELSE IF ring[i].edge = edge THEN Append(w, ring[i])
                         ELSE w
           step == [q \in (1..n) \X Seq(Edges) |-> next(q[1], q[2])]
           Is(w) == w = [i \in 0..n |->
                            IF i <= cursor THEN buffer
                            ELSE IF ring[i].edge = edge THEN Append(w[i - 1], ring[i])
                            ELSE w[i - 1]]
           walk == CHOOSE w : Is(w)
<1>1. n \in Nat /\ cursor \in 0..n /\ \A i \in 1..n : ring[i] \in Edges
  BY DEF EdgeInv, EdgeTypeOK
<1>2. Read(buffer, edge) = walk[n]
  BY DEF Read
<1>3. step \in [(1..n) \X Seq(Edges) -> Seq(Edges)]
  <2>1. ASSUME NEW q \in (1..n) \X Seq(Edges) PROVE next(q[1], q[2]) \in Seq(Edges)
    <3>1. q[1] \in 1..n /\ q[2] \in Seq(Edges) /\ ring[q[1]] \in Edges
      BY <1>1
    <3>2. Append(q[2], ring[q[1]]) \in Seq(Edges)
      BY <3>1, AppendProperties
    <3> QED BY <3>1, <3>2
  <2> HIDE DEF next, n
  <2> QED BY <2>1
<1>4. PICK w \in [0..n -> Seq(Edges)] : IsWalk(w, n, buffer, step)
  <2> HIDE DEF n, step
  <2> QED BY <1>1, <1>3, WalkExists
<1>5. Is(w)
  <2>1. ASSUME NEW i \in 1..n
        PROVE  w[i] = next(i, w[i - 1])
    <3>1. <<i, w[i - 1]>> \in (1..n) \X Seq(Edges) /\ i # 0
      <4> HIDE DEF n
      <4>1. i - 1 \in 0..n /\ i # 0
        BY <1>1
      <4> QED BY <4>1
    <3>2. w[i] = step[<<i, w[i - 1]>>]
      <4> HIDE DEF step, n
      <4> QED BY <1>1, <1>4, <3>1 DEF IsWalk
    <3> HIDE DEF next
    <3> QED BY <3>1, <3>2
  <2>2. w = [i \in 0..n |-> w[i]] /\ w[0] = buffer
    <3> HIDE DEF step, n
    <3> QED BY <1>1, <1>4 DEF IsWalk
  <2>3. ASSUME NEW i \in 0..n
        PROVE  w[i] = IF i <= cursor THEN buffer
                      ELSE IF ring[i].edge = edge THEN Append(w[i - 1], ring[i])
                      ELSE w[i - 1]
    <3>1. CASE i = 0
      BY <1>1, <2>2, <3>1
    <3>2. CASE i \in 1..n
      BY <2>1, <3>2
    <3> QED BY <1>1, <3>1, <3>2
  <2> QED BY <2>2, <2>3
<1>6. Is(walk)
  <2> HIDE DEF Is
  <2> QED BY <1>5
<1>7. \A i \in 0..n : walk[i] = IF i <= cursor THEN buffer
                                ELSE IF ring[i].edge = edge THEN Append(walk[i - 1], ring[i])
                                ELSE walk[i - 1]
  <2> HIDE DEF walk, n
  <2> QED BY <1>6
<1> HIDE DEF walk
<1> DEFINE S == {m \in 0..n : m >= cursor => ReadUpTo(walk[m], buffer, edge, m)}
<1>8. ReadUpTo(buffer, buffer, edge, cursor)
  BY DEF ReadUpTo, HoldsRead
<1>9. 0 \in S
  <2>1. 0 >= cursor => cursor = 0 /\ walk[0] = buffer
    BY <1>1, <1>7
  <2> QED BY <1>1, <1>8, <2>1
<1>10. ASSUME NEW m \in 0..n - 1, m \in S PROVE m + 1 \in S
  <2>1. m + 1 \in 0..n /\ (m + 1) - 1 = m
    BY <1>1
  <2>2. CASE m + 1 < cursor
    BY <1>1, <2>1, <2>2
  <2>3. CASE m + 1 = cursor
    <3>1. walk[m + 1] = buffer
      BY <1>1, <1>7, <2>1, <2>3
    <3> QED BY <1>8, <2>1, <2>3, <3>1
  <2>4. CASE cursor <= m
    <3>1. ReadUpTo(walk[m], buffer, edge, m)
      BY <1>1, <1>10, <2>4
    <3>2. walk[m + 1] = IF ring[m + 1].edge = edge THEN Append(walk[m], ring[m + 1])
                        ELSE walk[m]
      BY <1>1, <1>7, <2>1, <2>4
    <3>3. m \in cursor..n - 1
      BY <1>1, <2>4
    <3>4. CASE ring[m + 1].edge = edge
      BY <2>1, <3>1, <3>2, <3>3, <3>4, ReadsOne
    <3>5. CASE ring[m + 1].edge # edge
      <4>1. walk[m + 1] = walk[m]
        BY <3>2, <3>5
      <4>2. \A i \in cursor + 1..m : i \in cursor + 1..m + 1
        BY <1>1
      <4>3. ReadUpTo(walk[m + 1], buffer, edge, m + 1)
        BY <3>1, <4>1, <4>2 DEF ReadUpTo
      <4> QED BY <2>1, <4>3
    <3> QED BY <3>4, <3>5
  <2> QED BY <1>1, <2>2, <2>3, <2>4
<1>11. n \in S
  <2> HIDE DEF S, n
  <2>1. \A k \in 0..n : k \in S
    BY <1>1, <1>9, <1>10, Along
  <2> QED BY <1>1, <2>1
<1> QED BY <1>1, <1>2, <1>11

\* What a read leaves in the buffer: read events of its kind, each once, and
\* no fall that a row was stamped with before.
LEMMA ReadHolds ==
  ASSUME EdgeInv, NEW buffer \in Seq(Edges), NEW edge, HoldsRead(buffer, edge, cursor)
  PROVE  /\ Read(buffer, edge) \in Seq(Edges)
         /\ HoldsRead(Read(buffer, edge), edge, Len(ring))
<1> DEFINE x == Read(buffer, edge)
<1>1. ReadUpTo(x, buffer, edge, Len(ring))
  BY ReadIs
<1> HIDE DEF x
<1>2. cursor \in 0..Len(ring) /\ Len(ring) \in Nat
  BY DEF EdgeInv, EdgeTypeOK
<1>3. ASSUME NEW k \in 1..Len(x)
      PROVE  \E i \in 1..Len(ring) : ring[i] = x[k] /\ x[k].edge = edge
  <2>1. CASE k <= Len(buffer) /\ x[k] = buffer[k]
    <3>1. k \in 1..Len(buffer)
      BY <1>1, <2>1 DEF ReadUpTo
    <3>2. PICK i \in 1..cursor : ring[i] = x[k] /\ x[k].edge = edge
      BY <2>1, <3>1 DEF HoldsRead
    <3> QED BY <1>2, <3>2
  <2>2. CASE \E i \in cursor + 1..Len(ring) : ring[i] = x[k] /\ x[k].edge = edge
    BY <1>2, <2>2
  <2> QED BY <1>1, <2>1, <2>2 DEF ReadUpTo
<1>4. x \in Seq(Edges) /\ HoldsRead(x, edge, Len(ring))
  BY <1>1, <1>3 DEF ReadUpTo, HoldsRead
<1> QED BY <1>4 DEF x

LEMMA ReadUnused ==
  ASSUME EdgeInv
  PROVE  Unused(Read(falls, "fall"))
<1> DEFINE x == Read(falls, "fall")
<1>1. falls \in Seq(Edges) /\ HoldsRead(falls, "fall", cursor)
  BY DEF EdgeInv, EdgeTypeOK
<1>2. ReadUpTo(x, falls, "fall", Len(ring))
  BY <1>1, ReadIs
<1> HIDE DEF x
<1>3. cursor \in 0..Len(ring) /\ Len(ring) \in Nat
  BY DEF EdgeInv, EdgeTypeOK
<1>4. ASSUME NEW k \in 1..Len(x), NEW r \in stamped, r.edge = x[k].of PROVE FALSE
  <2>1. CASE k <= Len(falls) /\ x[k] = falls[k]
    <3>1. k \in 1..Len(falls)
      BY <1>2, <2>1 DEF ReadUpTo
    <3> QED BY <1>4, <2>1, <3>1 DEF EdgeInv, Unused
  <2>2. CASE \E i \in cursor + 1..Len(ring) : ring[i] = x[k] /\ x[k].edge = "fall"
    <3>1. PICK i \in cursor + 1..Len(ring) : ring[i] = x[k] /\ x[k].edge = "fall"
      BY <2>2
    <3>2. i \in 1..Len(ring) /\ IsOf(ring[i], shots)
      BY <1>3, <3>1 DEF EdgeInv, RingIsTrue, IsTrue
    <3>3. r.edge # 0
      BY <1>4, <3>1, <3>2 DEF IsOf
    <3>4. PICK j \in 1..cursor : ring[j].edge = "fall" /\ ring[j].of = r.edge
      BY <3>3 DEF EdgeInv, StampedWasRead
    <3>5. j \in 1..Len(ring) /\ i # j
      BY <1>3
    <3> QED BY <1>4, <3>1, <3>2, <3>4, <3>5 DEF EdgeInv, RingIsTrue, IsTrue
  <2> QED BY <1>2, <2>1, <2>2 DEF ReadUpTo
<1>5. Unused(x)
  BY <1>4 DEF Unused
<1> QED BY <1>5 DEF x

-----------------------------------------------------------------------------
\* Taking one out, and putting one back.
LEMMA CutIs ==
  ASSUME NEW R, NEW s \in Seq(R), NEW a \in 1..Len(s) + 1, NEW b \in a - 1..Len(s)
  PROVE  /\ SubSeq(s, a, b) \in Seq(R)
         /\ Len(SubSeq(s, a, b)) = b - a + 1
         /\ \A i \in 1..b - a + 1 : SubSeq(s, a, b)[i] = s[a + i - 1]
<1>1. Len(s) \in Nat /\ a \in Int /\ b \in Int
  OBVIOUS
<1>2. \A i \in a..b : s[i] \in R
  <2>1. ASSUME NEW i \in a..b PROVE i \in 1..Len(s)
    BY <1>1
  <2> QED BY <2>1
<1>3. /\ SubSeq(s, a, b) \in Seq(R)
      /\ Len(SubSeq(s, a, b)) = IF a <= b THEN b - a + 1 ELSE 0
      /\ \A i \in 1..b - a + 1 : SubSeq(s, a, b)[i] = s[a + i - 1]
  BY <1>1, <1>2, SubSeqProperties
<1>4. (IF a <= b THEN b - a + 1 ELSE 0) = b - a + 1
  BY <1>1
<1> QED BY <1>3, <1>4

Joins(x, s, t, p, q) ==
    /\ x \in Seq(Edges)
    /\ Len(x) = p + q
    /\ \A i \in 1..p : x[i] = s[i]
    /\ \A i \in 1..q : x[p + i] = t[i]

LEMMA JoinIs ==
  ASSUME NEW s \in Seq(Edges), NEW t \in Seq(Edges), NEW p, NEW q, Len(s) = p, Len(t) = q,
         NEW x, x = s \o t
  PROVE  Joins(x, s, t, p, q)
<1>1. p \in Nat /\ q \in Nat
  OBVIOUS
<1>2. /\ x \in Seq(Edges)
      /\ Len(x) = Len(s) + Len(t)
      /\ \A i \in 1..Len(s) + Len(t) :
             x[i] = IF i <= Len(s) THEN s[i] ELSE t[i - Len(s)]
  BY ConcatProperties
<1>3. ASSUME NEW i \in 1..p PROVE x[i] = s[i]
  BY <1>1, <1>2
<1>4. ASSUME NEW i \in 1..q PROVE x[p + i] = t[i]
  <2>1. p + i \in 1..p + q /\ ~(p + i <= p) /\ (p + i) - p = i
    BY <1>1
  <2> QED BY <1>2, <2>1
<1> QED BY <1>2, <1>3, <1>4 DEF Joins

LEMMA WithoutIs ==
  ASSUME NEW buffer \in Seq(Edges), NEW k \in 1..Len(buffer)
  PROVE  /\ Without(buffer, k) \in Seq(Edges)
         /\ Len(Without(buffer, k)) = Len(buffer) - 1
         /\ \A i \in 1..Len(buffer) - 1 :
                Without(buffer, k)[i] = buffer[IF i < k THEN i ELSE i + 1]
<1> DEFINE a == SubSeq(buffer, 1, k - 1)
           z == SubSeq(buffer, k + 1, Len(buffer))
           m == Len(buffer)
<1>1. m \in Nat /\ k \in 1..m
  OBVIOUS
<1>2. a \in Seq(Edges) /\ Len(a) = k - 1 /\ \A i \in 1..k - 1 : a[i] = buffer[i]
  <2>1. 1 \in 1..m + 1 /\ k - 1 \in 1 - 1..m /\ (k - 1) - 1 + 1 = k - 1
        /\ \A i \in 1..k - 1 : 1 + i - 1 = i
    BY <1>1
  <2> QED BY <2>1, CutIs
<1>3. z \in Seq(Edges) /\ Len(z) = m - k /\ \A i \in 1..m - k : z[i] = buffer[k + i]
  <2> DEFINE c == k + 1
  <2>1. c \in 1..m + 1 /\ m \in c - 1..m /\ m - c + 1 = m - k
        /\ \A i \in 1..m - k : c + i - 1 = k + i
    BY <1>1
  <2>2. z = SubSeq(buffer, c, m)
    OBVIOUS
  <2> HIDE DEF c, z, m
  <2>3. /\ z \in Seq(Edges) /\ Len(z) = m - c + 1
        /\ \A i \in 1..m - c + 1 : z[i] = buffer[c + i - 1]
    BY <2>1, <2>2, CutIs DEF m
  <2> QED BY <2>1, <2>3
<1>4. Without(buffer, k) = a \o z
  BY DEF Without, RemoveAt
<1> DEFINE x == a \o z
           p == k - 1
           q == m - k
<1>5. p \in Nat /\ q \in Nat /\ k = p + 1 /\ m - 1 = p + q /\ Len(a) = p /\ Len(z) = q
  BY <1>1, <1>2, <1>3
<1> HIDE DEF a, z, m, p, q
<1>6. /\ x \in Seq(Edges) /\ Len(x) = p + q
      /\ \A i \in 1..p : x[i] = a[i]
      /\ \A i \in 1..q : x[p + i] = z[i]
  <2>1. x = a \o z
    OBVIOUS
  <2> HIDE DEF x
  <2>3. Joins(x, a, z, p, q)
    BY <1>2, <1>3, <1>5, <2>1, JoinIs
  <2> QED BY <2>3 DEF Joins
<1> HIDE DEF x
<1>7. ASSUME NEW i \in 1..m - 1
      PROVE  x[i] = buffer[IF i < k THEN i ELSE i + 1]
  <2>1. CASE i < k
    BY <1>1, <1>2, <1>5, <1>6, <2>1 DEF p
  <2>2. CASE ~(i < k)
    <3>1. i - p \in 1..q /\ p + (i - p) = i /\ k + (i - p) = i + 1
      BY <1>1, <1>5, <2>2
    <3> QED BY <1>3, <1>6, <2>2, <3>1 DEF q
  <2> QED BY <2>1, <2>2
<1> QED BY <1>4, <1>5, <1>6, <1>7 DEF m, x

IsInserted(x, buffer, p, e) ==
    /\ x \in Seq(Edges)
    /\ Len(x) = Len(buffer) + 1
    /\ \A i \in 1..Len(buffer) + 1 :
           x[i] = IF i < p THEN buffer[i] ELSE IF i = p THEN e ELSE buffer[i - 1]

LEMMA InsertedIs ==
  ASSUME NEW buffer \in Seq(Edges), NEW p \in 1..Len(buffer) + 1, NEW e \in Edges
  PROVE  IsInserted(InsertAt(buffer, p, e), buffer, p, e)
<1> DEFINE a == SubSeq(buffer, 1, p - 1)
           z == SubSeq(buffer, p, Len(buffer))
           y == <<e>>
           m == Len(buffer)
           q == p - 1
           r == m + 1 - p
           ay == a \o y
           x == ay \o z
<1>1. m \in Nat /\ p \in 1..m + 1 /\ q \in Nat /\ r \in Nat /\ p = q + 1 /\ p + r = m + 1
  OBVIOUS
<1>2. a \in Seq(Edges) /\ Len(a) = q /\ \A i \in 1..q : a[i] = buffer[i]
  <2>1. 1 \in 1..m + 1 /\ p - 1 \in 1 - 1..m /\ (p - 1) - 1 + 1 = p - 1
        /\ \A i \in 1..p - 1 : 1 + i - 1 = i
    BY <1>1
  <2> QED BY <2>1, CutIs
<1>3. z \in Seq(Edges) /\ Len(z) = r /\ \A i \in 1..r : z[i] = buffer[p + i - 1]
  <2>1. p \in 1..m + 1 /\ m \in p - 1..m /\ m - p + 1 = r
    BY <1>1
  <2> QED BY <2>1, CutIs
<1>4. InsertAt(buffer, p, e) = x
  BY DEF InsertAt
<1>5. y \in Seq(Edges) /\ Len(y) = 1 /\ y[1] = e
  OBVIOUS
<1> HIDE DEF a, z, m, y, q, r
<1>6. /\ ay \in Seq(Edges) /\ Len(ay) = q + 1
      /\ \A i \in 1..q : ay[i] = a[i]
      /\ \A i \in 1..1 : ay[q + i] = y[i]
  <2>1. ay = a \o y
    OBVIOUS
  <2> HIDE DEF ay
  <2>3. Joins(ay, a, y, q, 1)
    BY <1>1, <1>2, <1>5, <2>1, JoinIs
  <2> QED BY <2>3 DEF Joins
<1> HIDE DEF ay
<1>7. ay[p] = e
  BY <1>1, <1>5, <1>6
<1>8. /\ x \in Seq(Edges) /\ Len(x) = p + r
      /\ \A i \in 1..p : x[i] = ay[i]
      /\ \A i \in 1..r : x[p + i] = z[i]
  <2>1. Len(ay) = p
    BY <1>1, <1>6
  <2>2. x = ay \o z
    OBVIOUS
  <2> HIDE DEF x
  <2>3. Joins(x, ay, z, p, r)
    BY <1>1, <1>3, <1>6, <2>1, <2>2, JoinIs
  <2> QED BY <2>3 DEF Joins
<1> HIDE DEF x
<1>9. ASSUME NEW i \in 1..m + 1
      PROVE  x[i] = IF i < p THEN buffer[i] ELSE IF i = p THEN e ELSE buffer[i - 1]
  <2>1. CASE i < p
    BY <1>1, <1>2, <1>6, <1>8, <2>1
  <2>2. CASE i = p
    BY <1>1, <1>7, <1>8, <2>2
  <2>3. CASE i > p
    <3>1. i - p \in 1..r /\ p + (i - p) = i /\ p + (i - p) - 1 = i - 1
      BY <1>1, <2>3
    <3>2. x[i] = z[i - p] /\ z[i - p] = buffer[i - 1]
      BY <1>3, <1>8, <3>1
    <3> QED BY <1>1, <2>3, <3>2
  <2> QED BY <1>1, <2>1, <2>2, <2>3
<1> QED BY <1>1, <1>4, <1>8, <1>9 DEF m, IsInserted

LEMMA GreatestOf ==
  ASSUME NEW n \in Nat, NEW S \in SUBSET (0..n), S # {}
  PROVE  Max(S) \in S /\ \A x \in S : Max(S) >= x
<1> DEFINE T == {n - x : x \in S}
<1>1. T \in SUBSET Nat /\ T # {}
  <2>1. \A x \in S : n - x \in Nat
    OBVIOUS
  <2> QED BY <2>1
<1>2. Min(T) \in T /\ \A y \in T : Min(T) <= y
  <2> HIDE DEF T
  <2> QED BY <1>1, LeastOf
<1>3. PICK m \in S : Min(T) = n - m
  BY <1>2
<1>4. ASSUME NEW x \in S PROVE m >= x
  <2>1. n - m <= n - x
    BY <1>2, <1>3
  <2> QED BY <2>1
<1> QED BY <1>4 DEF Max

-----------------------------------------------------------------------------
LEMMA WithoutHolds ==
  ASSUME NEW buffer \in Seq(Edges), NEW k \in 1..Len(buffer), NEW edge, NEW n,
         HoldsRead(buffer, edge, n)
  PROVE  /\ Without(buffer, k) \in Seq(Edges)
         /\ HoldsRead(Without(buffer, k), edge, n)
         /\ \A i \in 1..Len(Without(buffer, k)) :
                /\ Without(buffer, k)[i].of # buffer[k].of
                /\ \E j \in 1..Len(buffer) : Without(buffer, k)[i] = buffer[j]
<1> DEFINE x == Without(buffer, k)
           m == Len(buffer)
           at(i) == IF i < k THEN i ELSE i + 1
<1>1. m \in Nat /\ k \in 1..m
  OBVIOUS
<1>2. x \in Seq(Edges) /\ Len(x) = m - 1 /\ \A i \in 1..m - 1 : x[i] = buffer[at(i)]
  BY WithoutIs
<1> HIDE DEF x, m
<1>3. ASSUME NEW i \in 1..m - 1
      PROVE  at(i) \in 1..m /\ at(i) # k /\ x[i] = buffer[at(i)]
  BY <1>1, <1>2
<1> HIDE DEF at
<1>5. ASSUME NEW i \in 1..m - 1, NEW j \in 1..m - 1, x[i].of = x[j].of PROVE i = j
  <2>1. at(i) \in 1..m /\ at(j) \in 1..m /\ buffer[at(i)].of = buffer[at(j)].of
    BY <1>3, <1>5
  <2>2. at(i) = at(j)
    BY <2>1 DEF HoldsRead, m
  <2> QED BY <1>1, <2>2 DEF at
<1>6. ASSUME NEW i \in 1..m - 1
      PROVE  \E j \in 1..n : ring[j] = x[i] /\ x[i].edge = edge
  <2>1. at(i) \in 1..m /\ x[i] = buffer[at(i)]
    BY <1>3
  <2> QED BY <2>1 DEF HoldsRead, m
<1>7. ASSUME NEW i \in 1..m - 1
      PROVE  x[i].of # buffer[k].of /\ \E j \in 1..m : x[i] = buffer[j]
  <2>1. at(i) \in 1..m /\ at(i) # k /\ x[i] = buffer[at(i)]
    BY <1>3
  <2> QED BY <1>1, <2>1 DEF HoldsRead, m
<1> QED BY <1>2, <1>5, <1>6, <1>7 DEF HoldsRead, x, m

LEMMA InsertedHolds ==
  ASSUME NEW buffer \in Seq(Edges), NEW p \in 1..Len(buffer) + 1, NEW e \in Edges,
         NEW edge, NEW n, HoldsRead(buffer, edge, n),
         \E i \in 1..n : ring[i] = e /\ e.edge = edge,
         \A i \in 1..Len(buffer) : buffer[i].of # e.of
  PROVE  /\ InsertAt(buffer, p, e) \in Seq(Edges)
         /\ HoldsRead(InsertAt(buffer, p, e), edge, n)
         /\ \A i \in 1..Len(InsertAt(buffer, p, e)) :
                \/ InsertAt(buffer, p, e)[i] = e
                \/ \E j \in 1..Len(buffer) : InsertAt(buffer, p, e)[i] = buffer[j]
<1> DEFINE x == InsertAt(buffer, p, e)
           m == Len(buffer)
           at(i) == IF i < p THEN i ELSE i - 1
<1>1. m \in Nat /\ p \in 1..m + 1
  OBVIOUS
<1>2. x \in Seq(Edges) /\ Len(x) = m + 1
      /\ \A i \in 1..m + 1 : x[i] = IF i < p THEN buffer[i]
                                    ELSE IF i = p THEN e ELSE buffer[i - 1]
  <2>1. IsInserted(x, buffer, p, e)
    BY InsertedIs
  <2> HIDE DEF x
  <2> QED BY <2>1 DEF IsInserted
<1> HIDE DEF x, m
<1>3. ASSUME NEW i \in 1..m + 1, i # p
      PROVE  at(i) \in 1..m /\ x[i] = buffer[at(i)]
  BY <1>1, <1>2, <1>3
<1>4. ASSUME NEW i \in 1..m + 1, NEW j \in 1..m + 1, i # p, j # p, at(i) = at(j) PROVE i = j
  BY <1>1, <1>4
<1>5. x[p] = e
  BY <1>1, <1>2
<1> HIDE DEF at
<1>6. ASSUME NEW i \in 1..m + 1, NEW j \in 1..m + 1, x[i].of = x[j].of PROVE i = j
  <2>1. CASE i # p /\ j # p
    <3>1. at(i) \in 1..m /\ at(j) \in 1..m /\ buffer[at(i)].of = buffer[at(j)].of
      BY <1>3, <1>6, <2>1
    <3>2. at(i) = at(j)
      BY <3>1 DEF HoldsRead, m
    <3> QED BY <1>4, <2>1, <3>2
  <2>2. CASE i # p /\ j = p
    BY <1>3, <1>5, <1>6, <2>2 DEF m
  <2>3. CASE i = p /\ j # p
    BY <1>3, <1>5, <1>6, <2>3 DEF m
  <2> QED BY <2>1, <2>2, <2>3
<1>7. ASSUME NEW i \in 1..m + 1
      PROVE  \E j \in 1..n : ring[j] = x[i] /\ x[i].edge = edge
  BY <1>3, <1>5 DEF HoldsRead, m
<1>8. \A i \in 1..m + 1 : x[i] = e \/ \E j \in 1..m : x[i] = buffer[j]
  BY <1>3, <1>5
<1> QED BY <1>2, <1>6, <1>7, <1>8 DEF HoldsRead, x, m

LEMMA ReturnedHolds ==
  ASSUME NEW buffer \in Seq(Edges), NEW k \in 1..Len(buffer), NEW edge, NEW n,
         HoldsRead(buffer, edge, n)
  PROVE  LET x == Returned(Without(buffer, k), buffer[k])
         IN  /\ x \in Seq(Edges)
             /\ HoldsRead(x, edge, n)
             /\ \A i \in 1..Len(x) : \E j \in 1..Len(buffer) : x[i] = buffer[j]
<1> DEFINE e == buffer[k]
           y == Without(buffer, k)
           S == {0} \cup {j \in DOMAIN y : y[j].t <= e.t}
           p == Max(S) + 1
           x == InsertAt(y, p, e)
<1>1. e \in Edges /\ \E i \in 1..n : ring[i] = e /\ e.edge = edge
  BY DEF HoldsRead
<1>2. /\ y \in Seq(Edges) /\ HoldsRead(y, edge, n)
      /\ \A i \in 1..Len(y) : /\ y[i].of # e.of
                              /\ \E j \in 1..Len(buffer) : y[i] = buffer[j]
  BY WithoutHolds
<1> HIDE DEF e, y
<1>3. Len(y) \in Nat /\ DOMAIN y = 1..Len(y)
  BY <1>2
<1>4. S \in SUBSET (0..Len(y)) /\ S # {}
  BY <1>3
<1>5. p \in 1..Len(y) + 1
  <2> HIDE DEF S
  <2>1. Max(S) \in 0..Len(y)
    BY <1>3, <1>4, GreatestOf
  <2> QED BY <1>3, <2>1
<1> HIDE DEF p
<1>6. /\ x \in Seq(Edges) /\ HoldsRead(x, edge, n)
      /\ \A i \in 1..Len(x) : x[i] = e \/ \E j \in 1..Len(y) : x[i] = y[j]
  BY <1>1, <1>2, <1>5, InsertedHolds
<1>7. Returned(y, e) = x
  BY DEF Returned, p
<1> HIDE DEF x
<1>8. \A i \in 1..Len(x) : \E j \in 1..Len(buffer) : x[i] = buffer[j]
  BY <1>2, <1>6 DEF e
<1> QED BY <1>6, <1>7, <1>8 DEF e, y
-----------------------------------------------------------------------------
\* Which edge is chosen: one that is in the buffer, or none.
LEMMA FirstIs ==
  ASSUME NEW ks \in SUBSET Nat
  PROVE  First(ks) = 0 \/ First(ks) \in ks
BY LeastOf DEF First

LEMMA ChosenIs ==
  ASSUME NEW buffer \in Seq(Edges)
  PROVE  /\ \A c : OfCommand(buffer, c) \in 0..Len(buffer)
         /\ \A at : LET k == OfInstant(buffer, at)
                    IN  /\ k \in 0..Len(buffer)
                        /\ k # 0 => Apart(buffer[k].t, at) <= Window
         /\ \A e, fire : RiseOf(buffer, e, fire) \in 0..Len(buffer)
<1>1. Len(buffer) \in Nat /\ DOMAIN buffer = 1..Len(buffer)
  OBVIOUS
<1>2. \A fire : ByFire(buffer, fire) \in SUBSET Nat /\ ByFire(buffer, fire) \subseteq 1..Len(buffer)
  BY <1>1 DEF ByFire
<1>3. \A at : /\ Closest(buffer, at) \in SUBSET Nat
              /\ Closest(buffer, at) \subseteq 1..Len(buffer)
              /\ \A k \in Closest(buffer, at) : Apart(buffer[k].t, at) <= Window
  BY <1>1 DEF Closest
<1>4. ASSUME NEW c PROVE OfCommand(buffer, c) \in 0..Len(buffer)
  <2>1. CASE shots[c].kind = "fire"
    BY <1>1, <1>2, <2>1, FirstIs DEF OfCommand
  <2>2. CASE shots[c].kind # "fire"
    BY <1>1, <1>3, <2>2, FirstIs DEF OfCommand
  <2> QED BY <2>1, <2>2
<1>5. ASSUME NEW at
      PROVE  /\ OfInstant(buffer, at) \in 0..Len(buffer)
             /\ OfInstant(buffer, at) # 0 => Apart(buffer[OfInstant(buffer, at)].t, at) <= Window
  BY <1>1, <1>3, FirstIs DEF OfInstant
<1>6. ASSUME NEW e, NEW fire PROVE RiseOf(buffer, e, fire) \in 0..Len(buffer)
  <2> DEFINE named == IF fire = 0 THEN {} ELSE ByFire(buffer, fire)
             open == {k \in DOMAIN buffer : Closes(buffer[k], e)}
  <2>1. named \in SUBSET Nat /\ named \subseteq 1..Len(buffer)
    BY <1>2
  <2>2. open \in SUBSET Nat /\ open \subseteq 1..Len(buffer)
    BY <1>1
  <2>3. RiseOf(buffer, e, fire) = IF named # {} THEN Min(named) ELSE First(open)
    BY DEF RiseOf
  <2> HIDE DEF named, open
  <2>4. CASE named # {}
    <3>1. Min(named) \in named
      BY <2>1, <2>4, LeastOf
    <3>2. RiseOf(buffer, e, fire) \in 1..Len(buffer)
      BY <2>1, <2>3, <2>4, <3>1
    <3> QED BY <1>1, <3>2
  <2>5. CASE named = {}
    <3>1. First(open) = 0 \/ First(open) \in open
      BY <2>2, FirstIs
    <3>2. RiseOf(buffer, e, fire) = First(open)
      BY <2>3, <2>5
    <3>3. First(open) = 0 \/ First(open) \in 1..Len(buffer)
      BY <2>2, <3>1
    <3> QED BY <1>1, <3>2, <3>3
  <2> QED BY <2>4, <2>5
<1> QED BY <1>4, <1>5, <1>6

-----------------------------------------------------------------------------
\* The row and what is left in the buffers, of any edge the frame's own
\* instant does not contradict.
LEMMA ResultKeeps ==
  ASSUME EdgeInv, EdgeMatchAssumption, ~Idle,
         NEW k \in 0..Len(Read(falls, "fall")), Result(k, Read(falls, "fall")),
         k # 0 /\ handling.exif = "fine"
             => Apart(Read(falls, "fall")[k].t, shots[F].at) <= Near
  PROVE  EdgeInv'
<1> DEFINE buffer == Read(falls, "fall")
           risen == Read(rises, "rise")
           e == buffer[k]
           fire == IF C # 0 /\ shots[C].kind = "fire" THEN C ELSE 0
           n == Len(ring)
<1>1. /\ EdgeTypeOK /\ RowsNameShots /\ RingIsTrue /\ StampedWasRead /\ EdgesAreHonest
      /\ n \in Nat /\ cursor \in 0..n
  BY DEF EdgeInv, EdgeTypeOK
<1>2. buffer \in Seq(Edges) /\ HoldsRead(buffer, "fall", n) /\ Unused(buffer)
  BY ReadHolds, ReadUnused DEF EdgeInv, EdgeTypeOK
<1>3. risen \in Seq(Edges) /\ HoldsRead(risen, "rise", n)
  BY ReadHolds DEF EdgeInv, EdgeTypeOK
<1> DEFINE src == IF k # 0 /\ ~buffer[k].soft THEN "gpio_edge"
                  ELSE IF k # 0 /\ handling.exif # "fine" THEN "gpio_edge_soft"
                  ELSE "exif"
           kk == IF src = "exif" THEN 0 ELSE k
           r == IF src = "gpio_edge" THEN RiseOf(risen, e, fire) ELSE 0
           row == [frame |-> F, src |-> src, exif |-> handling.exif,
                   edge |-> IF kk = 0 \/ src = "exif" THEN 0 ELSE buffer[kk].of,
                   hard |-> kk # 0 /\ src = "gpio_edge"
                              /\ \E i \in DOMAIN ring :
                                     ring[i].edge = "fall" /\ ring[i].of = buffer[kk].of
                                     /\ ~ring[i].soft,
                   rise |-> IF r = 0 THEN 0
                            ELSE IF Closes(risen[r], buffer[kk]) THEN risen[r].of ELSE 0]
<1> HIDE DEF buffer, risen
<1>4. /\ falls' = IF k = 0 THEN buffer ELSE Without(buffer, k)
      /\ cursor' = n /\ handling' = NoFrame
      /\ UNCHANGED <<shots, ring>>
  BY DEF Result, Taken, buffer
<1>5. /\ stamped' = stamped \cup {row}
      /\ rises' = IF r = 0 THEN risen ELSE Without(risen, r)
  <2>1. CASE k # 0 /\ ~buffer[k].soft
    BY <2>1 DEF Result, Stamp, Taken, buffer, risen
  <2>2. CASE ~(k # 0 /\ ~buffer[k].soft) /\ k # 0 /\ handling.exif # "fine"
    BY <2>2 DEF Result, Stamp, Taken, buffer, risen
  <2>3. CASE ~(k # 0 /\ ~buffer[k].soft) /\ ~(k # 0 /\ handling.exif # "fine")
    BY <2>3 DEF Result, Stamp, Taken, buffer, risen
  <2> QED BY <2>1, <2>2, <2>3
<1>6. r \in 0..Len(risen)
  BY <1>3, ChosenIs
<1>7. k # 0 => /\ k \in 1..Len(buffer) /\ e \in Edges
               /\ \E i \in 1..n : ring[i] = e /\ e.edge = "fall"
               /\ e.of \in 1..Len(shots) /\ e.t = shots[e.of].at
  <2>1. Len(buffer) \in Nat /\ k \in 0..Len(buffer)
    BY <1>2 DEF buffer
  <2>2. SUFFICES ASSUME k # 0
                 PROVE  /\ k \in 1..Len(buffer) /\ e \in Edges
                        /\ \E i \in 1..n : ring[i] = e /\ e.edge = "fall"
                        /\ e.of \in 1..Len(shots) /\ e.t = shots[e.of].at
    OBVIOUS
  <2>3. k \in 1..Len(buffer)
    BY <2>1, <2>2
  <2>4. PICK i \in 1..n : ring[i] = e /\ e.edge = "fall"
    BY <1>2, <2>3 DEF HoldsRead
  <2>5. IsOf(ring[i], shots)
    BY <1>1, <2>4 DEF RingIsTrue, IsTrue
  <2> QED BY <1>2, <2>3, <2>4, <2>5 DEF IsOf
<1>8. r # 0 => /\ r \in 1..Len(risen)
               /\ risen[r].of \in 1..Len(shots) /\ risen[r].t = shots[risen[r].of].at + 1
  <2>1. SUFFICES ASSUME r # 0
                 PROVE  /\ r \in 1..Len(risen)
                        /\ risen[r].of \in 1..Len(shots)
                        /\ risen[r].t = shots[risen[r].of].at + 1
    OBVIOUS
  <2> HIDE DEF r
  <2>2. r \in 1..Len(risen)
    BY <1>3, <1>6, <2>1
  <2>3. PICK i \in 1..n : ring[i] = risen[r] /\ risen[r].edge = "rise"
    BY <1>3, <2>2 DEF HoldsRead
  <2>4. IsOf(ring[i], shots)
    BY <1>1, <2>3 DEF RingIsTrue, IsTrue
  <2> QED BY <2>2, <2>3, <2>4 DEF IsOf
\* The row.
<1>9. row.edge # 0 => k # 0 /\ row.edge = e.of /\ row.src # "exif"
  OBVIOUS
<1>10. row.src = "gpio_edge" => row.hard
  <2>1. SUFFICES ASSUME row.src = "gpio_edge" PROVE row.hard
    OBVIOUS
  <2>2. k # 0 /\ ~e.soft /\ kk = k /\ src = "gpio_edge"
    BY <2>1
  <2>3. PICK i \in 1..n : ring[i] = e /\ e.edge = "fall"
    BY <1>7, <2>2
  <2>4. i \in DOMAIN ring
    BY <1>1, <2>3 DEF EdgeTypeOK
  <2> HIDE DEF src, kk
  <2> QED BY <2>2, <2>3, <2>4
<1>11. row.exif = "fine" /\ row.edge # 0
          => Apart(shots[row.edge].at, shots[row.frame].at) <= Near
  <2>1. SUFFICES ASSUME row.exif = "fine", row.edge # 0
                 PROVE  Apart(shots[row.edge].at, shots[row.frame].at) <= Near
    OBVIOUS
  <2>2. k # 0 /\ row.edge = e.of /\ handling.exif = "fine" /\ row.frame = F
    BY <1>9, <2>1
  <2>3. Apart(e.t, shots[F].at) <= Near
    BY <2>2 DEF buffer
  <2> HIDE DEF row, e
  <2> QED BY <1>7, <2>2, <2>3
<1>12. row.rise # 0 => /\ row.edge # 0
                       /\ shots[row.rise].at - shots[row.edge].at \in 0..(RiseLimit - 1)
                       /\ row.rise \in 1..Len(shots)
  <2>1. SUFFICES ASSUME row.rise # 0
                 PROVE  /\ row.edge # 0
                        /\ shots[row.rise].at - shots[row.edge].at \in 0..(RiseLimit - 1)
                        /\ row.rise \in 1..Len(shots)
    OBVIOUS
  <2>2. r # 0 /\ src = "gpio_edge" /\ k # 0 /\ kk = k /\ row.edge = e.of
        /\ Closes(risen[r], e) /\ row.rise = risen[r].of
    BY <2>1
  <2>3. risen[r].t - e.t \in 1..RiseLimit
    BY <2>2 DEF Closes
  <2> HIDE DEF row, e, r, src, kk
  <2>4. e.of \in 1..Len(shots) /\ e.t = shots[e.of].at
    BY <1>7, <2>2
  <2>5. risen[r].of \in 1..Len(shots) /\ risen[r].t = shots[risen[r].of].at + 1
    BY <1>8, <2>2
  <2>6. shots[e.of].at \in Nat /\ shots[risen[r].of].at \in Nat /\ RiseLimit \in Nat
        /\ Len(shots) \in Nat
    <3>0. \A i \in 1..Len(shots) : shots[i] \in MadeShots
      BY <1>1 DEF EdgeTypeOK
    <3>1. shots[e.of] \in MadeShots /\ shots[risen[r].of] \in MadeShots
      BY <2>4, <2>5, <3>0
    <3>2. Len(shots) \in Nat
      BY <1>1 DEF EdgeTypeOK
    <3> QED BY <3>1, <3>2 DEF MadeShots, EdgeMatchAssumption
  <2>7. \A a, z \in Nat : (z + 1) - a \in 1..RiseLimit => z - a \in 0..(RiseLimit - 1)
    BY <2>6
  <2>8. e.of # 0
    BY <2>4, <2>6
  <2> QED BY <2>2, <2>3, <2>4, <2>5, <2>6, <2>7, <2>8
<1>13. row.edge # 0 => \A s \in stamped : s.edge # row.edge
  BY <1>2, <1>7, <1>9 DEF Unused
<1>14. row.edge # 0 => \E i \in 1..n : ring[i].edge = "fall" /\ ring[i].of = row.edge
  <2> HIDE DEF row, e
  <2> QED BY <1>7, <1>9
<1> DEFINE left == falls'
<1>15. /\ left \in Seq(Edges) /\ HoldsRead(left, "fall", n)
       /\ \A i \in 1..Len(left), s \in stamped : s.edge # left[i].of
       /\ row.edge # 0 => \A i \in 1..Len(left) : left[i].of # row.edge
  <2> HIDE DEF row
  <2>1. CASE k = 0
    BY <1>2, <1>4, <1>9, <2>1 DEF Unused
  <2>2. CASE k # 0
    <3>1. left = Without(buffer, k) /\ k \in 1..Len(buffer)
      BY <1>4, <1>7, <2>2
    <3>2. /\ left \in Seq(Edges) /\ HoldsRead(left, "fall", n)
          /\ \A i \in 1..Len(left) : left[i].of # buffer[k].of
                                     /\ \E j \in 1..Len(buffer) : left[i] = buffer[j]
      <4> DEFINE x == Without(buffer, k)
      <4>1. /\ x \in Seq(Edges) /\ HoldsRead(x, "fall", n)
            /\ \A i \in 1..Len(x) : /\ x[i].of # buffer[k].of
                                     /\ \E j \in 1..Len(buffer) : x[i] = buffer[j]
        <5> HIDE DEF n
        <5> QED BY <1>2, <3>1, WithoutHolds
      <4> HIDE DEF left, x, n
      <4>2. left = x
        BY <3>1 DEF x
      <4> QED BY <4>1, <4>2
    <3> HIDE DEF left
    <3>3. \A i \in 1..Len(left), s \in stamped : s.edge # left[i].of
      BY <1>2, <3>2 DEF Unused
    <3> QED BY <1>9, <3>2, <3>3
  <2> QED BY <2>1, <2>2
<1>16. rises' \in Seq(Edges) /\ HoldsRead(rises', "rise", n)
  <2> HIDE DEF r
  <2>1. CASE r = 0
    BY <1>3, <1>5, <2>1
  <2>2. CASE r # 0
    BY <1>3, <1>5, <1>8, <2>2, WithoutHolds
  <2> QED BY <2>1, <2>2
<1> HIDE DEF row, r, e, src, kk, left
<1>17. EdgeTypeOK'
  BY <1>1, <1>4, <1>15, <1>16 DEF EdgeTypeOK, NoFrame, Handlings, Exifs, Idle, F, left
<1>18. RowsNameShots' /\ RingIsTrue'
  <2>1. RowNamesShots(row)
    <3>1. row.frame = F /\ F \in 1..Len(shots)
      BY <1>1 DEF EdgeTypeOK, row
    <3>2. row.edge # 0 => row.edge \in 1..Len(shots)
      BY <1>7, <1>9
    <3> QED BY <1>12, <3>1, <3>2 DEF RowNamesShots
  <2> QED BY <1>1, <1>4, <1>5, <2>1 DEF RowsNameShots, RowNamesShots, RingIsTrue
<1>19. HoldsRead(falls, "fall", cursor)' /\ HoldsRead(rises, "rise", cursor)'
  <2>1. ring' = ring /\ cursor' = n /\ falls' = left
    BY <1>4 DEF left
  <2> QED BY <1>15, <1>16, <2>1 DEF HoldsRead
<1>20. Unused(falls)'
  <2>1. ASSUME NEW i \in 1..Len(left), NEW s \in stamped' PROVE s.edge # left[i].of
    <3>1. CASE s \in stamped
      BY <1>15, <3>1
    <3>2. CASE s = row
      <4>1. left[i].of # 0
        <5>1. PICK j \in 1..n : ring[j] = left[i]
          BY <1>15 DEF HoldsRead
        <5> QED BY <1>1, <5>1 DEF RingIsTrue, IsTrue, IsOf
      <4> QED BY <1>15, <3>2, <4>1
    <3> QED BY <1>5, <3>1, <3>2
  <2> QED BY <2>1 DEF Unused, left
<1>21. StampedWasRead'
  <2>1. ASSUME NEW s \in stamped', s.edge # 0
        PROVE  \E i \in 1..n : ring[i].edge = "fall" /\ ring[i].of = s.edge
    <3>1. CASE s \in stamped
      <4>1. PICK i \in 1..cursor : ring[i].edge = "fall" /\ ring[i].of = s.edge
        BY <1>1, <2>1, <3>1 DEF StampedWasRead
      <4>2. i \in 1..n
        BY <1>1
      <4> QED BY <4>1, <4>2
    <3>2. CASE s = row
      BY <1>14, <2>1, <3>2
    <3> QED BY <1>5, <3>1, <3>2
  <2> HIDE DEF n
  <2> QED BY <1>4, <2>1 DEF StampedWasRead
<1>22. EdgesAreHonest'
  <2>1. EdgeServesOneFrame'
    BY <1>1, <1>5, <1>13 DEF EdgesAreHonest, EdgeServesOneFrame
  <2>2. HardMeansHard'
    BY <1>1, <1>5, <1>10 DEF EdgesAreHonest, HardMeansHard
  <2>3. FineFramesStayNear'
    <3>1. ASSUME NEW s \in stamped', s.exif = "fine", s.edge # 0
          PROVE  Apart(shots[s.edge].at, shots[s.frame].at) <= Near
      <4>1. CASE s \in stamped
        BY <1>1, <3>1, <4>1 DEF EdgesAreHonest, FineFramesStayNear
      <4>2. CASE s = row
        BY <1>11, <3>1, <4>2
      <4> QED BY <1>5, <3>1, <4>1, <4>2
    <3>2. shots' = shots
      BY <1>4
    <3> QED BY <3>1, <3>2 DEF FineFramesStayNear, Apart
  <2>4. WindowIsPlausible'
    <3>1. ASSUME NEW s \in stamped', s.rise # 0
          PROVE  /\ s.edge # 0
                 /\ shots[s.rise].at - shots[s.edge].at \in 0..(RiseLimit - 1)
      <4>1. CASE s \in stamped
        BY <1>1, <3>1, <4>1 DEF EdgesAreHonest, WindowIsPlausible
      <4>2. CASE s = row
        BY <1>12, <3>1, <4>2
      <4> QED BY <1>5, <3>1, <4>1, <4>2
    <3>2. shots' = shots
      BY <1>4
    <3> QED BY <3>1, <3>2 DEF WindowIsPlausible
  <2> QED BY <2>1, <2>2, <2>3, <2>4 DEF EdgesAreHonest
<1> QED BY <1>17, <1>18, <1>19, <1>20, <1>21, <1>22 DEF EdgeInv
-----------------------------------------------------------------------------
LEMMA ChecksOut ==
  ASSUME EdgeMatchAssumption
  PROVE  /\ handling.exif = "fine" => Checkable /\ ClaimTolerance = Near
         /\ {Near, Coarse, MaxTries} \subseteq Nat
BY DEF EdgeMatchAssumption, Checkable, ClaimTolerance

LEMMA MatchedKeeps == ASSUME EdgeInv, EdgeMatchAssumption, Matched PROVE EdgeInv'
<1> DEFINE buffer == Read(falls, "fall")
           k == OfCommand(buffer, C)
<1>1. buffer \in Seq(Edges)
  BY ReadHolds DEF EdgeInv, EdgeTypeOK
<1>2. k \in 0..Len(buffer)
  BY <1>1, ChosenIs
<1>3. Result(k, buffer) /\ ~Idle
  BY DEF Matched, Trying
<1>4. ASSUME k # 0, handling.exif = "fine"
      PROVE  Apart(buffer[k].t, shots[F].at) <= Near
  BY <1>4, ChecksOut DEF Matched
<1> HIDE DEF k
<1> QED BY <1>2, <1>3, <1>4, ResultKeeps

LEMMA UnclaimedKeeps == ASSUME EdgeInv, EdgeMatchAssumption, Unclaimed PROVE EdgeInv'
<1> DEFINE buffer == Read(falls, "fall")
           k == IF Checkable THEN OfInstant(buffer, shots[F].at)
                ELSE IF C = 0 /\ buffer # <<>> THEN 1 ELSE 0
<1>1. buffer \in Seq(Edges)
  BY ReadHolds DEF EdgeInv, EdgeTypeOK
<1>2. k \in 0..Len(buffer)
  <2> HIDE DEF buffer
  <2>1. CASE Checkable
    BY <1>1, <2>1, ChosenIs
  <2>2. CASE ~Checkable
    BY <1>1, <2>2
  <2> QED BY <2>1, <2>2
<1>3. Result(k, buffer) /\ ~Idle
  BY DEF Unclaimed
<1>4. ASSUME k # 0, handling.exif = "fine"
      PROVE  Apart(buffer[k].t, shots[F].at) <= Near
  <2>1. Checkable
    BY <1>4, ChecksOut
  <2>2. k = OfInstant(buffer, shots[F].at)
    BY <2>1
  <2> HIDE DEF k, buffer
  <2>3. k \in 1..Len(buffer) /\ Apart(buffer[k].t, shots[F].at) <= Window
    BY <1>1, <1>2, <1>4, <2>2, ChosenIs
  <2>4. buffer[k].t \in Nat
    <3>1. buffer[k] \in Edges
      BY <1>1, <2>3
    <3> QED BY <3>1 DEF Edges
  <2>5. shots[F].at \in Nat
    <3>1. F \in 1..Len(shots) /\ shots \in Seq(MadeShots)
      BY <1>3 DEF EdgeInv, EdgeTypeOK
    <3>2. shots[F] \in MadeShots
      BY <3>1
    <3> QED BY <3>2 DEF MadeShots
  <2>6. Apart(buffer[k].t, shots[F].at) \in Nat
    BY <2>4, <2>5 DEF Apart
  <2>7. Window \in Nat /\ Near \in Nat /\ Window <= Near
    BY DEF EdgeMatchAssumption
  <2> QED BY <2>3, <2>6, <2>7
<1> HIDE DEF k
<1> QED BY <1>2, <1>3, <1>4, ResultKeeps

LEMMA GivesUpKeeps == ASSUME EdgeInv, EdgeMatchAssumption, GivesUpClaims PROVE EdgeInv'
<1>1. Result(0, Read(falls, "fall")) /\ ~Idle
  BY DEF GivesUpClaims
<1>2. Read(falls, "fall") \in Seq(Edges)
  BY ReadHolds DEF EdgeInv, EdgeTypeOK
<1>3. 0 \in 0..Len(Read(falls, "fall"))
  BY <1>2
<1> QED BY <1>1, <1>3, ResultKeeps

\* What changes the frame being dated only keeps the rest.
LEMMA ClaimKeeps ==
  ASSUME EdgeInv, UNCHANGED <<shots, ring, cursor, falls, rises, stamped>>,
         handling' \in Handlings, handling' # NoFrame => handling'.frame \in 1..Len(shots)
  PROVE  EdgeInv'
<1>1. EdgeTypeOK'
  BY DEF EdgeInv, EdgeTypeOK, Idle, F
<1>2. RowsNameShots' /\ RingIsTrue' /\ Unused(falls)' /\ StampedWasRead'
  BY DEF EdgeInv, RowsNameShots, RowNamesShots, RingIsTrue, Unused, StampedWasRead
<1>3. HoldsRead(falls, "fall", cursor)' /\ HoldsRead(rises, "rise", cursor)'
  BY DEF EdgeInv, HoldsRead
<1>4. EdgesAreHonest'
  BY DEF EdgeInv, EdgesAreHonest, EdgeServesOneFrame, HardMeansHard,
         FineFramesStayNear, WindowIsPlausible
<1> QED BY <1>1, <1>2, <1>3, <1>4 DEF EdgeInv

LEMMA OrphanedTypes ==
  ASSUME EdgeInv, EdgeMatchAssumption, ~Idle, NEW next, NEW sofar, Orphaned(next, sofar)
  PROVE  handling' \in Handlings /\ handling'.frame \in 1..Len(shots)
<1>1. handling \in Handlings /\ F \in 1..Len(shots)
  BY DEF EdgeInv, EdgeTypeOK
<1>2. next \in Nat
  BY DEF Orphaned, Commands, EdgeInv, EdgeTypeOK
<1>3. MaxTries + 1 \in Nat /\ handling.tries + 1 \in Nat
  BY <1>1 DEF EdgeMatchAssumption, Handlings
<1>4. \/ handling' = [handling EXCEPT !.tries = MaxTries + 1]
      \/ handling' = [handling EXCEPT !.claim = next, !.tries = @ + 1]
  BY DEF Orphaned
<1>5. handling' \in Handlings /\ handling'.frame = F
  BY <1>1, <1>2, <1>3, <1>4 DEF Handlings, F
<1> QED BY <1>1, <1>5

LEMMA PullKeeps ==
  ASSUME EdgeInv, NEW f \in DOMAIN shots, NEW c \in Commands \cup {0},
         NEW exif \in Exifs, Pull(f, c, exif)
  PROVE  EdgeInv'
<1>1. f \in 1..Len(shots) /\ c \in Nat
  BY DEF Commands, EdgeInv, EdgeTypeOK
<1>2. handling' = [frame |-> f, claim |-> c, tries |-> 1, exif |-> exif]
  BY DEF Pull
<1>3. handling' \in Handlings /\ handling'.frame = f
  BY <1>1, <1>2 DEF Handlings
<1>4. UNCHANGED <<shots, ring, cursor, falls, rises, stamped>>
  BY DEF Pull
<1> QED BY <1>1, <1>3, <1>4, ClaimKeeps

LEMMA TooEarlyKeeps == ASSUME EdgeInv, TooEarly PROVE EdgeInv'
<1>1. handling \in Handlings /\ F \in 1..Len(shots)
  BY DEF EdgeInv, EdgeTypeOK, TooEarly, Trying
<1>2. handling' = [handling EXCEPT !.claim = 0]
  BY DEF TooEarly
<1>3. handling' \in Handlings /\ handling'.frame = F
  BY <1>1, <1>2 DEF Handlings, F
<1>4. UNCHANGED <<shots, ring, cursor, falls, rises, stamped>>
  BY DEF TooEarly
<1> QED BY <1>1, <1>3, <1>4, ClaimKeeps

LEMMA TooLateKeeps ==
  ASSUME EdgeInv, EdgeMatchAssumption, NEW next, TooLate(next)
  PROVE  EdgeInv'
<1>1. ~Idle /\ Orphaned(next, strikes) /\ UNCHANGED <<shots, ring, cursor, falls, rises, stamped>>
  BY DEF TooLate, Trying
<1>2. handling' \in Handlings /\ handling'.frame \in 1..Len(shots)
  BY <1>1, OrphanedTypes
<1> QED BY <1>1, <1>2, ClaimKeeps

LEMMA ElsewhereKeeps ==
  ASSUME EdgeInv, EdgeMatchAssumption, NEW next, Elsewhere(next)
  PROVE  EdgeInv'
<1> DEFINE buffer == Read(falls, "fall")
           risen == Read(rises, "rise")
           k == OfCommand(buffer, C)
           n == Len(ring)
           left == Returned(Without(buffer, k), buffer[k])
<1>1. /\ ~Idle /\ Orphaned(next, 0) /\ UNCHANGED <<shots, ring, stamped>> /\ k # 0
      /\ falls' = left /\ cursor' = n /\ rises' = risen
  BY DEF Elsewhere, Trying
<1>2. handling' \in Handlings /\ handling'.frame \in 1..Len(shots)
  BY <1>1, OrphanedTypes
<1>3. buffer \in Seq(Edges) /\ HoldsRead(buffer, "fall", n) /\ Unused(buffer)
  BY ReadHolds, ReadUnused DEF EdgeInv, EdgeTypeOK
<1>4. risen \in Seq(Edges) /\ HoldsRead(risen, "rise", n)
  BY ReadHolds DEF EdgeInv, EdgeTypeOK
<1> HIDE DEF buffer, risen
<1>5. k \in 1..Len(buffer)
  <2>1. k \in 0..Len(buffer) /\ Len(buffer) \in Nat
    BY <1>3, ChosenIs
  <2> HIDE DEF k
  <2> QED BY <1>1, <2>1
<1> HIDE DEF k
<1>6. /\ left \in Seq(Edges) /\ HoldsRead(left, "fall", n)
      /\ \A i \in 1..Len(left) : \E j \in 1..Len(buffer) : left[i] = buffer[j]
  BY <1>3, <1>5, ReturnedHolds
<1> HIDE DEF left
<1>7. n \in Nat /\ cursor \in 0..n
  BY DEF EdgeInv, EdgeTypeOK
<1> HIDE DEF n
<1>8. EdgeTypeOK'
  BY <1>1, <1>2, <1>4, <1>6, <1>7 DEF EdgeInv, EdgeTypeOK, Idle, F, n
<1>9. RowsNameShots' /\ RingIsTrue'
  BY <1>1 DEF EdgeInv, RowsNameShots, RowNamesShots, RingIsTrue
<1>10. HoldsRead(falls, "fall", cursor)' /\ HoldsRead(rises, "rise", cursor)'
  <2>1. ring' = ring /\ cursor' = n /\ falls' = left /\ rises' = risen
    BY <1>1
  <2>2. HoldsRead(falls, "fall", cursor)'
    BY <1>6, <2>1 DEF HoldsRead
  <2>3. HoldsRead(rises, "rise", cursor)'
    BY <1>4, <2>1 DEF HoldsRead
  <2> QED BY <2>2, <2>3
<1>11. Unused(falls)'
  BY <1>1, <1>3, <1>6 DEF Unused
<1>12. StampedWasRead'
  <2>1. \A i \in 1..cursor : i \in 1..n
    BY <1>7
  <2> QED BY <1>1, <2>1 DEF EdgeInv, StampedWasRead
<1>13. EdgesAreHonest'
  BY <1>1 DEF EdgeInv, EdgesAreHonest, EdgeServesOneFrame, HardMeansHard,
              FineFramesStayNear, WindowIsPlausible
<1> QED BY <1>8, <1>9, <1>10, <1>11, <1>12, <1>13 DEF EdgeInv
-----------------------------------------------------------------------------
\* A new shot: the ring grows by an edge of each kind at most.
Only(x, q, e) == \A i \in 1..Len(x) : x[i] = e \/ \E j \in 1..Len(q) : x[i] = q[j]
Extends(x, q) == Len(q) \in 0..Len(x) /\ \A i \in 1..Len(q) : x[i] = q[i]

LEMMA OneMore ==
  ASSUME NEW q \in Seq(Edges), NEW made, IsTrue(q, made), NEW e \in Edges, IsOf(e, made),
         \A i \in 1..Len(q) : ~(q[i].edge = e.edge /\ q[i].of = e.of),
         NEW some, some \in {<<>>, <<e>>}, NEW x, x = q \o some
  PROVE  /\ x \in Seq(Edges) /\ Extends(x, q) /\ IsTrue(x, made)
         /\ Only(x, q, e)
<1>1. CASE some = <<>>
  <2>1. x = q /\ Len(q) \in Nat
    BY <1>1, ConcatEmptySeq
  <2> QED BY <2>1 DEF Extends, Only
<1>2. CASE some = <<e>>
  <2> DEFINE y == <<e>>
             m == Len(q)
  <2>1. y \in Seq(Edges) /\ Len(y) = 1 /\ y[1] = e /\ m \in Nat
    OBVIOUS
  <2>2. x = q \o y
    BY <1>2
  <2> HIDE DEF y, m
  <2>3. Joins(x, q, y, m, 1)
    BY <2>1, <2>2, JoinIs DEF m
  <2>4. x \in Seq(Edges) /\ Len(x) = m + 1 /\ \A i \in 1..m : x[i] = q[i]
    BY <2>3 DEF Joins
  <2>5. x[m + 1] = e
    BY <2>1, <2>3 DEF Joins
  <2>6. Extends(x, q)
    BY <2>1, <2>4 DEF Extends, m
  <2>7. \A i \in 1..m + 1 : i \in 1..m \/ i = m + 1
    BY <2>1
  <2>8. \A i \in 1..m + 1 : IsOf(x[i], made)
    BY <2>4, <2>5, <2>7 DEF IsTrue, m
  <2>9. ASSUME NEW i \in 1..m + 1, NEW j \in 1..m + 1,
               x[i].edge = x[j].edge, x[i].of = x[j].of
        PROVE  i = j
    <3>1. CASE i \in 1..m /\ j \in 1..m
      BY <2>4, <2>9, <3>1 DEF IsTrue, m
    <3>2. CASE i \in 1..m /\ j = m + 1
      BY <2>4, <2>5, <2>9, <3>2 DEF m
    <3>3. CASE i = m + 1 /\ j \in 1..m
      BY <2>4, <2>5, <2>9, <3>3 DEF m
    <3> QED BY <2>7, <3>1, <3>2, <3>3
  <2>10. IsTrue(x, made)
    BY <2>4, <2>8, <2>9 DEF IsTrue
  <2>11. \A i \in 1..Len(x) : x[i] = e \/ \E j \in 1..m : x[i] = q[j]
    BY <2>4, <2>5, <2>7
  <2> QED BY <2>4, <2>6, <2>10, <2>11 DEF m, Only
<1> QED BY <1>1, <1>2

\* The shot itself: what was true of the shots before stays true.
LEMMA ShotsGrow ==
  ASSUME EdgeInv, NEW shot \in MadeShots, stamped' = stamped,
         shots' = Append(shots, shot)
  PROVE  /\ shots' \in Seq(MadeShots) /\ Len(shots') = Len(shots) + 1
         /\ \A i \in 1..Len(shots) : shots'[i] = shots[i]
         /\ shots'[Len(shots) + 1] = shot
         /\ RowsNameShots'
         /\ IsTrue(ring, shots')
<1> DEFINE m == Len(shots)
<1>1. shots \in Seq(MadeShots) /\ m \in Nat /\ RowsNameShots /\ RingIsTrue
  BY DEF EdgeInv, EdgeTypeOK
<1> DEFINE x == shots'
<1>3. /\ x \in Seq(MadeShots) /\ Len(x) = m + 1
      /\ (\A i \in 1..m : x[i] = shots[i]) /\ x[m + 1] = shot
  BY <1>1, AppendProperties
<1> HIDE DEF m
<1>7. RowsNameShots'
  <2>1. \A i : i \in 1..m => i \in 1..m + 1
    BY <1>1
  <2> QED BY <1>1, <1>3, <2>1 DEF RowsNameShots, RowNamesShots, m
<1>8. IsTrue(ring, x)
  <2>1. ASSUME NEW i \in 1..Len(ring) PROVE IsOf(ring[i], x)
    <3>1. IsOf(ring[i], shots)
      BY <1>1 DEF RingIsTrue, IsTrue
    <3>2. ring[i].of \in 1..m /\ ring[i].of \in 1..m + 1
      BY <1>1, <3>1 DEF IsOf, m
    <3>3. x[ring[i].of] = shots[ring[i].of]
      BY <1>3, <3>2
    <3> HIDE DEF x
    <3> QED BY <1>3, <3>1, <3>2, <3>3 DEF IsOf
  <2> QED BY <1>1, <2>1 DEF RingIsTrue, IsTrue
<1> QED BY <1>3, <1>7, <1>8 DEF m
LEMMA ShootKeeps ==
  ASSUME EdgeInv, EdgeMatchAssumption, NEW gap \in Gaps, NEW kind \in ShotKinds,
         NEW fall \in {"own", "before", "lost"}, NEW rise \in {"own", "before", "lost"},
         NEW soft \in BOOLEAN, Shoot(gap, kind, fall, rise, soft)
  PROVE  EdgeInv'
<1> DEFINE m == Len(shots)
           n == Len(shots) + 1
           at == (IF n = 1 THEN 0 ELSE Last(shots).at) + gap
           tag(who) == IF who = "before" THEN n - 1 ELSE IF kind = "fire" THEN n ELSE 0
           down == Event("fall", at, tag(fall), soft, n)
           up == Event("rise", at + 1, tag(rise), soft, n)
           a == IF fall = "lost" \/ kind = "dud" THEN <<>> ELSE <<down>>
           z == IF rise = "lost" \/ kind = "dud" THEN <<>> ELSE <<up>>
           slips == Cardinality({i \in 1..4 : <<kind # "fire", fall # "own",
                                                rise # "own", soft>>[i]})
           shot == [at |-> at, kind |-> kind, slips |-> slips]
<1>1. /\ shots' = Append(shots, shot)
      /\ ring' = (ring \o a) \o z
      /\ UNCHANGED <<cursor, falls, rises, handling, strikes, stamped>>
  BY DEF Shoot
<1>2. /\ shots \in Seq(MadeShots) /\ m \in Nat /\ n = m + 1 /\ gap \in Nat
      /\ ring \in Seq(Edges) /\ cursor \in 0..Len(ring) /\ RingIsTrue
  BY DEF EdgeInv, EdgeTypeOK, EdgeMatchAssumption
<1>3. slips \in Nat
  <2> DEFINE S == {i \in 1..4 : <<kind # "fire", fall # "own", rise # "own", soft>>[i]}
  <2>0. S \subseteq 1..4
    BY Zenon
  <2>1. IsFiniteSet(1..4)
    <3>1. 1 \in Int /\ 4 \in Int
      OBVIOUS
    <3> QED BY <3>1, FS_Interval
  <2> HIDE DEF S
  <2>2. IsFiniteSet(S)
    BY <2>0, <2>1, FS_Subset
  <2>3. Cardinality(S) \in Nat
    BY <2>2, FS_CardinalityType
  <2> QED BY <2>3 DEF S
<1>4. at \in Nat /\ at = (IF m = 0 THEN 0 ELSE shots[m].at) + gap
  <2>1. at = (IF m = 0 THEN 0 ELSE shots[m].at) + gap
    BY <1>2 DEF Last
  <2>2. m # 0 => shots[m] \in MadeShots
    BY <1>2
  <2>3. m # 0 => shots[m].at \in Nat
    BY <2>2 DEF MadeShots
  <2> HIDE DEF at
  <2>4. (IF m = 0 THEN 0 ELSE shots[m].at) \in Nat
    BY <2>3
  <2> DEFINE b == IF m = 0 THEN 0 ELSE shots[m].at
  <2> HIDE DEF b
  <2>5. at = b + gap /\ b \in Nat
    BY <2>1, <2>4 DEF b
  <2>6. at \in Nat
    BY <1>2, <2>5
  <2> QED BY <2>1, <2>6
<1> HIDE DEF at, slips, m
<1>5. shot \in MadeShots /\ shot.at = at
  BY <1>3, <1>4 DEF MadeShots
<1>6. down \in Edges /\ up \in Edges /\ down.of = n /\ up.of = n
      /\ down.edge = "fall" /\ up.edge = "rise" /\ down.t = at /\ up.t = at + 1
  <2>1. n \in Nat /\ n - 1 \in Nat /\ at + 1 \in Nat
    <3> HIDE DEF at
    <3> QED BY <1>2, <1>4
  <2>2. tag(fall) \in Nat /\ tag(rise) \in Nat
    <3> HIDE DEF at, n
    <3> QED BY <2>1
  <2> HIDE DEF n, tag
  <2> QED BY <1>4, <2>1, <2>2 DEF Edges, Event
<1> HIDE DEF shot, down, up, n
<1> DEFINE made == shots'
<1>7. /\ made \in Seq(MadeShots) /\ Len(made) = n
      /\ made[n] = shot
      /\ \A i \in 1..Len(shots) : made[i] = shots[i]
      /\ RowsNameShots' /\ IsTrue(ring, made)
  BY <1>1, <1>2, <1>5, ShotsGrow DEF m
<1> HIDE DEF made
<1>8. IsOf(down, made) /\ IsOf(up, made)
  <2>1. n \in 1..Len(made)
    BY <1>2, <1>7
  <2> QED BY <1>5, <1>6, <1>7, <2>1 DEF IsOf
<1>9. \A i \in 1..Len(ring) : ring[i].of # n
  <2>1. \A i \in 1..Len(ring) : ring[i].of \in 1..m
    BY <1>2 DEF RingIsTrue, IsTrue, IsOf, m
  <2> QED BY <1>2, <2>1
<1> DEFINE mid == ring \o a
<1>10. /\ mid \in Seq(Edges) /\ Extends(mid, ring) /\ IsTrue(mid, made)
       /\ \A i \in 1..Len(mid) : mid[i] = down \/ \E j \in 1..Len(ring) : mid[i] = ring[j]
  <2>1. a \in {<<>>, <<down>>} /\ mid = ring \o a
    OBVIOUS
  <2>2. \A i \in 1..Len(ring) : ~(ring[i].edge = down.edge /\ ring[i].of = down.of)
    BY <1>6, <1>9
  <2> HIDE DEF a, mid
  <2>3. mid \in Seq(Edges) /\ Extends(mid, ring) /\ IsTrue(mid, made) /\ Only(mid, ring, down)
    BY <1>2, <1>6, <1>7, <1>8, <2>1, <2>2, OneMore
  <2> QED BY <2>3 DEF Only
<1> DEFINE full == mid \o z
<1> HIDE DEF mid
<1>11. full \in Seq(Edges) /\ Extends(full, mid) /\ IsTrue(full, made)
  <2>1. z \in {<<>>, <<up>>} /\ full = mid \o z
    OBVIOUS
  <2>2. \A i \in 1..Len(mid) : ~(mid[i].edge = up.edge /\ mid[i].of = up.of)
    BY <1>6, <1>9, <1>10
  <2> HIDE DEF z, full
  <2> QED BY <1>6, <1>7, <1>8, <1>10, <2>1, <2>2, OneMore
<1>12. ring' = full
  BY <1>1 DEF mid
<1> HIDE DEF full
<1>13. cursor \in 0..Len(full) /\ \A i \in 1..cursor : full[i] = ring[i]
  <2>1. Len(ring) \in Nat /\ Len(mid) \in Nat /\ Len(full) \in Nat
    BY <1>2, <1>10, <1>11
  <2>2. \A i \in 1..cursor : i \in 1..Len(ring) /\ i \in 1..Len(mid)
    BY <1>2, <1>10, <2>1 DEF Extends
  <2>3. cursor \in 0..Len(full)
    BY <1>2, <1>10, <1>11, <2>1 DEF Extends
  <2> QED BY <1>10, <1>11, <2>2, <2>3 DEF Extends
<1>14. EdgeTypeOK'
  <2>1. ~Idle => F \in 1..Len(made)
    BY <1>2, <1>7 DEF EdgeInv, EdgeTypeOK, m, F
  <2> QED BY <1>1, <1>7, <1>11, <1>12, <1>13, <2>1 DEF EdgeInv, EdgeTypeOK, Idle, F, made
<1>15. RingIsTrue'
  BY <1>11, <1>12 DEF RingIsTrue, made
<1>16. /\ \A i \in 1..cursor : ring'[i] = ring[i]
       /\ cursor' = cursor /\ falls' = falls /\ rises' = rises /\ stamped' = stamped
  BY <1>1, <1>12, <1>13
<1>17. HoldsRead(falls, "fall", cursor)' /\ HoldsRead(rises, "rise", cursor)'
  <2>1. HoldsRead(falls, "fall", cursor)'
    BY <1>16 DEF EdgeInv, HoldsRead
  <2>2. HoldsRead(rises, "rise", cursor)'
    BY <1>16 DEF EdgeInv, HoldsRead
  <2> QED BY <2>1, <2>2
<1>18. Unused(falls)'
  BY <1>16 DEF EdgeInv, Unused
<1>19. StampedWasRead'
  BY <1>16 DEF EdgeInv, StampedWasRead
<1>20. EdgesAreHonest'
  <2>1. \A i \in 1..Len(shots) : shots'[i] = shots[i]
    BY <1>7 DEF made
  <2>2. \A r \in stamped : RowNamesShots(r)
    BY DEF EdgeInv, RowsNameShots
  <2>3. EdgeServesOneFrame' /\ HardMeansHard'
    BY <1>1 DEF EdgeInv, EdgesAreHonest, EdgeServesOneFrame, HardMeansHard
  <2>4. FineFramesStayNear'
    BY <1>16, <2>1, <2>2 DEF EdgeInv, EdgesAreHonest, FineFramesStayNear, RowNamesShots
  <2>5. WindowIsPlausible'
    BY <1>16, <2>1, <2>2 DEF EdgeInv, EdgesAreHonest, WindowIsPlausible, RowNamesShots
  <2> QED BY <2>3, <2>4, <2>5 DEF EdgesAreHonest
<1> QED BY <1>7, <1>14, <1>15, <1>17, <1>18, <1>19, <1>20 DEF EdgeInv

-----------------------------------------------------------------------------
\* The edges' invariant: the ring tells the truth of every exposure, however
\* close two of them come, a buffer holds each read edge once, and none that was
\* used.
THEOREM EdgeInductive == EdgeSpec => []EdgeInv
<1>1. EdgeInit => EdgeInv
  BY EdgeBegins
<1>2. EdgeInv /\ [EdgeNext]_edgeVars => EdgeInv'
  <2> SUFFICES ASSUME EdgeInv, [EdgeNext]_edgeVars PROVE EdgeInv'
    OBVIOUS
  <2> USE EdgeMatchAssumption
  <2>1. ASSUME NEW gap \in Gaps, NEW kind \in {"fire", "unheard", "dud", "body"},
               NEW fall \in {"own", "before", "lost"},
               NEW rise \in {"own", "before", "lost"}, NEW soft \in BOOLEAN,
               Shoot(gap, kind, fall, rise, soft)
        PROVE  EdgeInv'
    BY <2>1, ShootKeeps DEF ShotKinds
  <2>2. ASSUME NEW f \in DOMAIN shots, NEW c \in Commands \cup {0},
               NEW exif \in {"none", "rough", "fine"}, Pull(f, c, exif)
        PROVE  EdgeInv'
    BY <2>2, PullKeeps DEF Exifs
  <2>3. CASE TooEarly
    BY <2>3, TooEarlyKeeps
  <2>4. CASE Matched
    BY <2>4, MatchedKeeps
  <2>5. CASE Unclaimed
    BY <2>5, UnclaimedKeeps
  <2>6. CASE GivesUpClaims
    BY <2>6, GivesUpKeeps
  <2>7. ASSUME NEW next \in Commands \cup {0}, TooLate(next)
        PROVE  EdgeInv'
    BY <2>7, TooLateKeeps
  <2>8. ASSUME NEW next \in Commands \cup {0}, Elsewhere(next)
        PROVE  EdgeInv'
    BY <2>8, ElsewhereKeeps
  <2>9. CASE UNCHANGED edgeVars
    <3>1. handling \in Handlings /\ (handling # NoFrame => handling.frame \in 1..Len(shots))
      BY DEF EdgeInv, EdgeTypeOK, Idle, F
    <3> QED BY <2>9, <3>1, ClaimKeeps DEF edgeVars
  <2> QED BY <2>1, <2>2, <2>3, <2>4, <2>5, <2>6, <2>7, <2>8, <2>9 DEF EdgeNext, Dating
<1> QED BY <1>1, <1>2, PTL DEF EdgeSpec

\* For any exposures, lost or mistaken edges, and whatever command a frame
\* claims: an edge dates one frame, a fine one no further than the tolerance from
\* its own exposure, and a window lasts no longer than an exposure may
\* (_capture_instant, match_exposure_edge, match_rise).
THEOREM EdgesStayHonest == EdgeSpec => []EdgesAreHonest
<1>1. EdgeInv => EdgesAreHonest
  BY DEF EdgeInv
<1> QED BY <1>1, EdgeInductive, PTL

-----------------------------------------------------------------------------
(***************************************************************************)
(* Where its bytes are.  No ingest loses the bytes of a card file, and     *)
(* none blesses a file that changed: for any sources, any number of        *)
(* passes, kills, torn copies and changes on disk.                         *)
(***************************************************************************)
Labels == Sources \cup {"torn"}
Contents == {Nothing} \cup (Labels \X Nat)
PassStages == {"idle", "place", "unlink", "hash"}

PlaceTypeOK ==
    /\ staged \in [Sources -> Contents]
    /\ placed \in [DOMAIN placed -> Contents]
    /\ recorded \in [DOMAIN recorded -> Contents]
    /\ pass \in [at : PassStages, src : Sources \cup {"none"},
                 move : BOOLEAN, fresh : BOOLEAN]
    /\ pass.at # "idle" => pass.src \in Sources
    /\ spent \in [passes : Nat, rots : Nat, tears : Nat]

\* No bytes are of a later version than the changes so far.
Aged(b) == b # Nothing => b[2] <= spent.rots
AllAged ==
    /\ \A s \in Sources : Aged(staged[s])
    /\ \A p \in DOMAIN placed : Aged(placed[p])
    /\ \A p \in DOMAIN recorded : Aged(recorded[p])

\* A source that shares the inode of the run's name shows its bytes.
LinksAgree ==
    \A s \in oneFile : s \in Sources /\ staged[s] # Nothing /\ At(Name) = staged[s]

\* A source about to be removed is at the run's name, or was.
RemovalIsSafe ==
    /\ pass.at = "place" => staged[Src] # Nothing
    /\ pass.at = "unlink" => staged[Src] = At(Name) \/ staged[Src] \in doomed

\* A changed file is there, is listed, and differs from its hash.
ChangesShow ==
    \A p \in changed : /\ At(p) # Nothing /\ Recorded(p) # Nothing
                       /\ At(p) # Recorded(p)

PlaceInv == /\ PlaceTypeOK /\ AllAged /\ LinksAgree /\ RemovalIsSafe
            /\ ChangesShow /\ NoBytesLost

LEMMA BytesAreSome == \A x, y : <<x, y>> # Nothing
BY DEF Nothing

LEMMA PlaceBegins == PlaceInit => PlaceInv
<1> SUFFICES ASSUME PlaceInit PROVE PlaceInv
  OBVIOUS
<1> USE DEF PlaceInit
<1>1. \A s \in Sources : Bytes(s) \in Contents /\ Bytes(s)[2] = 0
  BY DEF Bytes, Contents, Labels
<1>2. PlaceTypeOK
  BY <1>1 DEF PlaceTypeOK, NoPass, PassStages
<1>3. AllAged
  BY <1>1 DEF AllAged, Aged
<1>4. LinksAgree /\ RemovalIsSafe /\ ChangesShow
  BY DEF LinksAgree, RemovalIsSafe, ChangesShow, NoPass
<1>5. NoBytesLost
  BY DEF NoBytesLost, Somewhere
<1> QED
  BY <1>2, <1>3, <1>4, <1>5 DEF PlaceInv

\* A step that only turns to another stage of the pass, or to another pass.
LEMMA TurnKeeps ==
    ASSUME PlaceInv, UNCHANGED <<staged, placed, oneFile, recorded, doomed, changed>>,
           pass' \in [at : PassStages, src : Sources \cup {"none"},
                      move : BOOLEAN, fresh : BOOLEAN],
           pass'.at # "idle" => pass'.src \in Sources,
           spent' \in [passes : Nat, rots : Nat, tears : Nat],
           spent'.rots = spent.rots,
           RemovalIsSafe'
    PROVE  PlaceInv'
<1>1. PlaceTypeOK'
  BY DEF PlaceInv, PlaceTypeOK
<1>2. AllAged'
  BY DEF PlaceInv, AllAged, Aged
<1>3. LinksAgree' /\ ChangesShow' /\ NoBytesLost'
  BY DEF PlaceInv, LinksAgree, ChangesShow, NoBytesLost, Somewhere, At, Recorded
<1> QED
  BY <1>1, <1>2, <1>3 DEF PlaceInv

LEMMA BeginKeeps ==
    ASSUME PlaceInv, NEW s \in Sources, NEW move \in BOOLEAN, Begin(s, move)
    PROVE  PlaceInv'
<1>1. /\ pass' \in [at : PassStages, src : Sources \cup {"none"},
                    move : BOOLEAN, fresh : BOOLEAN]
      /\ pass'.at = "place" /\ pass'.src = s
  BY DEF Begin, NoPass, PassStages
<1>2. spent' \in [passes : Nat, rots : Nat, tears : Nat] /\ spent'.rots = spent.rots
  BY DEF Begin, PlaceInv, PlaceTypeOK
<1>3. RemovalIsSafe'
  BY <1>1 DEF Begin, RemovalIsSafe, Src
<1> QED
  BY <1>1, <1>2, <1>3, TurnKeeps DEF Begin

LEMMA KilledKeeps ==
    ASSUME PlaceInv, Killed
    PROVE  PlaceInv'
<1>1. /\ pass' \in [at : PassStages, src : Sources \cup {"none"},
                    move : BOOLEAN, fresh : BOOLEAN]
      /\ pass'.at = "idle"
  BY DEF Killed, NoPass, PassStages
<1>2. RemovalIsSafe'
  BY <1>1 DEF RemovalIsSafe
<1> QED
  BY <1>1, <1>2, TurnKeeps DEF Killed, PlaceInv, PlaceTypeOK

\* Where the pass turns to once the file has its name.
LEMMA TurnsTo ==
    ASSUME PlaceInv, pass.at = "place"
    PROVE  /\ \A p \in {Moves, Freshly, [pass EXCEPT !.at = "hash"]} :
                /\ p \in [at : PassStages, src : Sources \cup {"none"},
                          move : BOOLEAN, fresh : BOOLEAN]
                /\ p.at \in {"unlink", "hash"} /\ p.src = Src
           /\ Src \in Sources /\ staged[Src] # Nothing /\ staged[Src] \in Contents
BY DEF PlaceInv, PlaceTypeOK, RemovalIsSafe, Moves, Freshly, Src, PassStages

LEMMA ExistsKeeps ==
    ASSUME PlaceInv, Exists
    PROVE  PlaceInv'
<1>1. pass.at = "place" /\ SameAs(Src) /\ pass' = Moves
  BY DEF Exists
<1>2. At(Name) = staged[Src]
  BY <1>1 DEF SameAs, PlaceInv, LinksAgree
<1>3. pass'.src = Src /\ pass'.at # "place" /\ pass'.at # "idle"
  BY <1>1, TurnsTo
<1>4. Src' = Src /\ At(Name)' = At(Name) /\ staged' = staged
  <2>1. Src' = Src
    BY <1>3 DEF Src
  <2>2. placed' = placed /\ staged' = staged
    BY DEF Exists
  <2>3. At(Name)' = At(Name)
    BY <2>2 DEF At, Name
  <2> QED
    BY <2>1, <2>2, <2>3
<1>5. RemovalIsSafe'
  BY <1>2, <1>3, <1>4, TurnsTo, <1>1 DEF RemovalIsSafe
<1> QED
  BY <1>1, <1>3, <1>5, TurnsTo, TurnKeeps DEF Exists, PlaceInv, PlaceTypeOK

\* A file is written at a path that had none.
LEMMA WritingKeeps ==
    ASSUME PlaceInv, NEW path, NEW b \in Contents, b # Nothing, Aged(b),
           At(path) = Nothing, placed' = With(placed, path, b),
           UNCHANGED <<staged, recorded, doomed, changed>>,
           spent'.rots = spent.rots
    PROVE  /\ placed' \in [DOMAIN placed' -> Contents]
           /\ AllAged' /\ ChangesShow' /\ NoBytesLost'
           /\ At(path)' = b /\ (\A p : p # path => At(p)' = At(p))
<1>1. /\ DOMAIN placed' = DOMAIN placed \cup {path}
      /\ placed'[path] = b
      /\ \A q \in DOMAIN placed : q # path => placed'[q] = placed[q]
  <2>1. placed' = [q \in DOMAIN placed \cup {path} |-> IF q = path THEN b ELSE placed[q]]
    BY DEF With
  <2> QED
    BY <2>1
<1>2. placed' \in [DOMAIN placed' -> Contents]
  <2>1. \A q \in DOMAIN placed : placed[q] \in Contents
    BY DEF PlaceInv, PlaceTypeOK
  <2>2. placed' = [q \in DOMAIN placed \cup {path} |-> IF q = path THEN b ELSE placed[q]]
    BY DEF With
  <2> QED
    BY <2>1, <2>2
<1>3. AllAged'
  BY <1>1 DEF PlaceInv, AllAged, Aged
<1>4. At(path)' = b /\ \A p : p # path => At(p)' = At(p)
  BY <1>1 DEF At
<1>5. ChangesShow'
  BY <1>4 DEF PlaceInv, ChangesShow, Recorded
<1>6. NoBytesLost'
  <2> SUFFICES ASSUME NEW s \in Sources, Bytes(s) \notin doomed
               PROVE  Somewhere(Bytes(s))'
    BY DEF NoBytesLost, Bytes
  <2>1. Somewhere(Bytes(s)) /\ Bytes(s) # Nothing
    BY BytesAreSome DEF PlaceInv, NoBytesLost, Bytes
  <2>2. CASE \E t \in Sources : staged[t] = Bytes(s)
    BY <2>2 DEF Somewhere, Bytes
  <2>3. CASE \E p \in DOMAIN placed : placed[p] = Bytes(s)
    BY <2>1, <2>3, <1>1 DEF Somewhere, At, Bytes
  <2> QED
    BY <2>1, <2>2, <2>3 DEF Somewhere
<1> QED
  BY <1>2, <1>3, <1>4, <1>5, <1>6

LEMMA ConflictsKeeps ==
    ASSUME PlaceInv, Conflicts
    PROVE  PlaceInv'
<1> DEFINE alt == Parked(staged[Src])
           p == [pass EXCEPT !.at = "hash"]
<1>1. pass.at = "place" /\ pass' = p /\ UNCHANGED <<staged, oneFile, recorded, doomed, changed, spent>>
      /\ At(Name) # Nothing
  BY DEF Conflicts
<1>2. /\ pass' \in [at : PassStages, src : Sources \cup {"none"},
                    move : BOOLEAN, fresh : BOOLEAN]
      /\ pass'.at = "hash" /\ pass'.src \in Sources
  BY <1>1, TurnsTo
<1>3. RemovalIsSafe'
  BY <1>2 DEF RemovalIsSafe
<1>4. CASE At(alt) = Nothing
  <2>1. placed' = With(placed, alt, staged[Src])
    BY <1>4 DEF Conflicts
  <2>2. Aged(staged[Src]) /\ staged[Src] \in Contents /\ staged[Src] # Nothing
    BY <1>1, TurnsTo DEF PlaceInv, AllAged
  <2>3. /\ placed' \in [DOMAIN placed' -> Contents]
        /\ AllAged' /\ ChangesShow' /\ NoBytesLost' /\ At(Name)' = At(Name)
    BY <1>1, <1>4, <2>1, <2>2, WritingKeeps
  <2>4. LinksAgree'
    BY <1>1, <2>3 DEF PlaceInv, LinksAgree
  <2> QED
    BY <1>1, <1>2, <1>3, <2>3, <2>4 DEF PlaceInv, PlaceTypeOK
<1>5. CASE At(alt) # Nothing
  BY <1>1, <1>2, <1>3, <1>5, TurnKeeps DEF Conflicts, PlaceInv, PlaceTypeOK
<1> QED
  BY <1>4, <1>5

LEMMA LinksKeeps ==
    ASSUME PlaceInv, Links
    PROVE  PlaceInv'
<1>1. /\ pass.at = "place" /\ At(Name) = Nothing /\ oneFile' = {Src}
      /\ placed' = With(placed, Name, staged[Src]) /\ pass' = Freshly
      /\ UNCHANGED <<staged, recorded, doomed, changed, spent>>
  BY DEF Links
<1>2. /\ pass' \in [at : PassStages, src : Sources \cup {"none"},
                    move : BOOLEAN, fresh : BOOLEAN]
      /\ pass'.at \in {"unlink", "hash"} /\ pass'.src = Src
      /\ Src \in Sources /\ staged[Src] # Nothing /\ staged[Src] \in Contents
  BY <1>1, TurnsTo
<1>3. Aged(staged[Src])
  BY <1>2 DEF PlaceInv, AllAged
<1>4. /\ placed' \in [DOMAIN placed' -> Contents]
      /\ AllAged' /\ ChangesShow' /\ NoBytesLost' /\ At(Name)' = staged[Src]
  BY <1>1, <1>2, <1>3, WritingKeeps
<1>5. Src' = Src
  BY <1>2 DEF Src
<1>6. LinksAgree' /\ RemovalIsSafe'
  BY <1>1, <1>2, <1>4, <1>5 DEF LinksAgree, RemovalIsSafe
<1>7. PlaceTypeOK'
  BY <1>1, <1>2, <1>4 DEF PlaceInv, PlaceTypeOK
<1> QED
  BY <1>4, <1>6, <1>7 DEF PlaceInv

LEMMA CopiesKeeps ==
    ASSUME PlaceInv, NEW b, Copies(b)
    PROVE  PlaceInv'
<1>1. /\ pass.at = "place" /\ At(Name) = Nothing /\ (b = staged[Src] \/ b = Torn)
      /\ UNCHANGED <<staged, recorded, doomed, changed>>
  BY DEF Copies
<1>2. spent' \in [passes : Nat, rots : Nat, tears : Nat] /\ spent'.rots = spent.rots
  BY DEF Copies, PlaceInv, PlaceTypeOK
<1>3. /\ Src \in Sources /\ staged[Src] # Nothing /\ staged[Src] \in Contents
      /\ Aged(staged[Src])
  BY <1>1, TurnsTo DEF PlaceInv, AllAged
<1>4. b \in Contents /\ b # Nothing /\ Aged(b)
  <2>1. Torn \in Contents /\ Torn # Nothing /\ Torn[2] = 0
    BY DEF Torn, Contents, Labels, Nothing
  <2>2. spent.rots \in Nat
    BY DEF PlaceInv, PlaceTypeOK
  <2> QED
    BY <1>1, <1>3, <2>1, <2>2 DEF Aged
<1>5. CASE pass.move /\ b # staged[Src]
  <2>1. pass' = NoPass /\ UNCHANGED <<placed, oneFile>>
    BY <1>5 DEF Copies
  <2>2. /\ pass' \in [at : PassStages, src : Sources \cup {"none"},
                      move : BOOLEAN, fresh : BOOLEAN]
        /\ pass'.at = "idle"
    BY <2>1 DEF NoPass, PassStages
  <2>3. RemovalIsSafe'
    BY <2>2 DEF RemovalIsSafe
  <2> QED
    BY <1>1, <1>2, <2>1, <2>2, <2>3, TurnKeeps
<1>6. CASE ~(pass.move /\ b # staged[Src])
  <2>1. placed' = With(placed, Name, b) /\ oneFile' = {} /\ pass' = Freshly
    BY <1>6 DEF Copies
  <2>2. /\ pass' \in [at : PassStages, src : Sources \cup {"none"},
                      move : BOOLEAN, fresh : BOOLEAN]
        /\ pass'.at \in {"unlink", "hash"} /\ pass'.src = Src
        /\ (pass'.at = "unlink" => pass.move)
    <3>1. Freshly.at = IF pass.move THEN "unlink" ELSE "hash"
      BY DEF Freshly, Moves, PlaceInv, PlaceTypeOK
    <3> QED
      BY <1>1, <2>1, <3>1, TurnsTo
  <2>3. /\ placed' \in [DOMAIN placed' -> Contents]
        /\ AllAged' /\ ChangesShow' /\ NoBytesLost' /\ At(Name)' = b
    BY <1>1, <1>2, <1>4, <2>1, WritingKeeps
  <2>4. Src' = Src
    BY <2>2 DEF Src
  <2>5. LinksAgree' /\ RemovalIsSafe'
    BY <1>1, <1>6, <2>1, <2>2, <2>3, <2>4 DEF LinksAgree, RemovalIsSafe
  <2>6. PlaceTypeOK'
    BY <1>1, <1>2, <1>3, <2>2, <2>3 DEF PlaceInv, PlaceTypeOK
  <2> QED
    BY <2>3, <2>5, <2>6 DEF PlaceInv
<1> QED
  BY <1>5, <1>6

\* The source goes; its bytes are at the run's name, or were changed on disk.
LEMMA UnlinksKeeps ==
    ASSUME PlaceInv, Unlinks
    PROVE  PlaceInv'
<1> DEFINE p == [pass EXCEPT !.at = "hash"]
<1>1. /\ pass.at = "unlink" /\ pass' = p
      /\ staged' = [staged EXCEPT ![Src] = Nothing] /\ oneFile' = oneFile \ {Src}
      /\ UNCHANGED <<placed, recorded, doomed, changed, spent>>
  BY DEF Unlinks
<1>2. /\ pass' \in [at : PassStages, src : Sources \cup {"none"},
                    move : BOOLEAN, fresh : BOOLEAN]
      /\ pass'.at = "hash" /\ Src \in Sources /\ pass'.src = Src
      /\ (staged[Src] = At(Name) \/ staged[Src] \in doomed)
  BY <1>1 DEF PlaceInv, PlaceTypeOK, RemovalIsSafe, PassStages, Src
<1>3. \A s \in Sources : staged'[s] = IF s = Src THEN Nothing ELSE staged[s]
  BY <1>1 DEF PlaceInv, PlaceTypeOK
<1>4. Nothing \in Contents /\ Aged(Nothing)
  BY DEF Contents, Aged
<1>5. PlaceTypeOK'
  BY <1>1, <1>2, <1>4 DEF PlaceInv, PlaceTypeOK
<1>6. AllAged'
  BY <1>1, <1>3 DEF PlaceInv, AllAged, Aged
<1>7. At(Name)' = At(Name) /\ \A q : At(q)' = At(q) /\ Recorded(q)' = Recorded(q)
  BY <1>1 DEF At, Recorded
<1>8. LinksAgree' /\ RemovalIsSafe' /\ ChangesShow'
  BY <1>1, <1>2, <1>3, <1>7 DEF PlaceInv, LinksAgree, RemovalIsSafe, ChangesShow
<1>9. NoBytesLost'
  <2> SUFFICES ASSUME NEW s \in Sources, Bytes(s) \notin doomed
               PROVE  Somewhere(Bytes(s))'
    BY <1>1 DEF NoBytesLost, Bytes
  <2>1. Somewhere(Bytes(s)) /\ Bytes(s) # Nothing
    BY BytesAreSome DEF PlaceInv, NoBytesLost, Bytes
  <2>2. CASE staged[Src] = Bytes(s)
    <3>1. At(Name) = Bytes(s)
      BY <1>2, <2>2
    <3>2. Name \in DOMAIN placed /\ placed[Name] = Bytes(s)
      BY <2>1, <3>1 DEF At
    <3> QED
      BY <1>1, <3>2 DEF Somewhere, Bytes
  <2>3. CASE staged[Src] # Bytes(s)
    BY <1>1, <1>3, <2>1, <2>3 DEF Somewhere, Bytes
  <2> QED
    BY <2>2, <2>3
<1> QED
  BY <1>5, <1>6, <1>8, <1>9 DEF PlaceInv

\* What is recorded stays as it was recorded, but for what was just written.
LEMMA WriteSumsKeeps ==
    ASSUME PlaceInv, WriteSums
    PROVE  PlaceInv'
<1>1. /\ pass.at = "hash" /\ pass' = NoPass
      /\ UNCHANGED <<staged, placed, oneFile, doomed, spent>>
      /\ recorded' = [p \in SumFiles \cup DOMAIN recorded |->
                        IF p \in SumFiles THEN Hash(p) ELSE Recorded(p)]
      /\ changed' = IF pass.fresh THEN changed \ {Name} ELSE changed
  BY DEF WriteSums
<1>2. /\ DOMAIN recorded' = SumFiles \cup DOMAIN recorded
      /\ \A p \in DOMAIN recorded' :
            recorded'[p] = IF p \in SumFiles THEN Hash(p) ELSE Recorded(p)
  BY <1>1
<1>3. \A p \in DOMAIN recorded' : recorded'[p] = At(p) \/ recorded'[p] = Recorded(p)
  BY <1>2 DEF Hash
<1>4. \A p : At(p) \in Contents /\ Aged(At(p)) /\ Recorded(p) \in Contents
              /\ Aged(Recorded(p))
  BY DEF PlaceInv, PlaceTypeOK, AllAged, At, Recorded, Aged, Contents
<1>5. PlaceTypeOK'
  <2>1. recorded' \in [DOMAIN recorded' -> Contents]
    BY <1>1, <1>3, <1>4
  <2>2. pass' \in [at : PassStages, src : Sources \cup {"none"},
                   move : BOOLEAN, fresh : BOOLEAN] /\ pass'.at = "idle"
    BY <1>1 DEF NoPass, PassStages
  <2> QED
    BY <1>1, <2>1, <2>2 DEF PlaceInv, PlaceTypeOK
<1>6. AllAged'
  BY <1>1, <1>3, <1>4 DEF PlaceInv, AllAged, Aged
<1>7. \A p : At(p)' = At(p)
  BY <1>1 DEF At
<1>8. LinksAgree' /\ NoBytesLost'
  BY <1>1, <1>7 DEF PlaceInv, LinksAgree, NoBytesLost, Somewhere, Bytes
<1>9. RemovalIsSafe'
  BY <1>1 DEF RemovalIsSafe, NoPass
<1>10. ChangesShow'
  <2> SUFFICES ASSUME NEW p \in changed'
               PROVE  At(p) # Nothing /\ Recorded(p)' = Recorded(p)
                      /\ Recorded(p) # Nothing /\ At(p) # Recorded(p)
    BY <1>7 DEF ChangesShow
  <2>1. p \in changed /\ ~(pass.fresh /\ p = Name)
    BY <1>1
  <2>2. At(p) # Nothing /\ Recorded(p) # Nothing /\ At(p) # Recorded(p)
    BY <2>1 DEF PlaceInv, ChangesShow
  <2>3. p \in SumFiles
    BY <2>2 DEF SumFiles, At
  <2>4. recorded'[p] = Recorded(p) /\ p \in DOMAIN recorded'
    BY <1>2, <2>1, <2>2, <2>3 DEF Hash
  <2> QED
    BY <2>2, <2>4 DEF Recorded
<1> QED
  BY <1>5, <1>6, <1>8, <1>9, <1>10 DEF PlaceInv

\* Changed bytes are of a version nothing has seen, and a linked source's change
\* with them.
LEMMA RotKeeps ==
    ASSUME PlaceInv, NEW path, Rot(path)
    PROVE  PlaceInv'
<1> DEFINE b == placed[path]
           linked(s) == path = Name /\ s \in oneFile
<1>1. /\ At(path) # Nothing /\ path \in DOMAIN placed /\ At(path) = b
      /\ placed' = [placed EXCEPT ![path] = Rotten(b)]
      /\ staged' = [s \in Sources |-> IF linked(s) THEN Rotten(staged[s]) ELSE staged[s]]
      /\ doomed' = doomed \cup {b}
      /\ changed' = IF Recorded(path) # Nothing THEN changed \cup {path} ELSE changed
      /\ UNCHANGED <<oneFile, recorded, pass>>
  BY DEF Rot, At
<1>2. /\ spent' \in [passes : Nat, rots : Nat, tears : Nat]
      /\ spent'.rots = spent.rots + 1 /\ spent.rots \in Nat
  BY DEF Rot, PlaceInv, PlaceTypeOK
<1>3. ASSUME NEW c \in Contents, c # Nothing
      PROVE  /\ Rotten(c) \in Contents /\ Rotten(c) # Nothing
             /\ Rotten(c)[2] = spent.rots + 1
  <2>1. c \in Labels \X Nat
    BY <1>3 DEF Contents
  <2> QED
    BY <2>1, <1>2, BytesAreSome DEF Rotten, Contents
<1>4. b \in Contents /\ b # Nothing
  BY <1>1 DEF PlaceInv, PlaceTypeOK
<1>5. \A s \in Sources : staged[s] \in Contents /\ (linked(s) => staged[s] = b /\ staged[s] # Nothing)
  BY <1>1 DEF PlaceInv, PlaceTypeOK, LinksAgree
<1>6. \A s \in Sources : staged'[s] = IF linked(s) THEN Rotten(staged[s]) ELSE staged[s]
  BY <1>1
<1>7. PlaceTypeOK'
  <2>1. staged' \in [Sources -> Contents]
    BY <1>1, <1>3, <1>5
  <2>2. placed' \in [DOMAIN placed' -> Contents]
    BY <1>1, <1>3, <1>4 DEF PlaceInv, PlaceTypeOK
  <2> QED
    BY <1>1, <1>2, <2>1, <2>2 DEF PlaceInv, PlaceTypeOK
<1>8. /\ At(path)' = Rotten(b) /\ At(path)' # Nothing
      /\ \A q : q # path => At(q)' = At(q)
      /\ \A q : Recorded(q)' = Recorded(q)
  <2>1. /\ DOMAIN placed' = DOMAIN placed /\ placed'[path] = Rotten(b)
        /\ \A q \in DOMAIN placed : q # path => placed'[q] = placed[q]
    BY <1>1
  <2>2. Rotten(b) # Nothing
    BY <1>3, <1>4
  <2> QED
    BY <1>1, <2>1, <2>2 DEF At, Recorded
<1>9. AllAged'
  <2>1. ASSUME NEW c \in Contents, Aged(c) PROVE c # Nothing => c[2] <= spent.rots + 1
    <3> SUFFICES ASSUME c # Nothing PROVE c[2] <= spent.rots + 1
      OBVIOUS
    <3>1. c[2] \in Nat /\ c[2] <= spent.rots
      BY <2>1 DEF Aged, Contents
    <3> QED
      BY <1>2, <3>1
  <2>2. \A s \in Sources : staged'[s] # Nothing => staged'[s][2] <= spent.rots + 1
    BY <1>2, <1>3, <1>5, <1>6, <2>1 DEF PlaceInv, AllAged
  <2>3. \A p \in DOMAIN placed : placed[p] \in Contents /\ Aged(placed[p])
    BY DEF PlaceInv, PlaceTypeOK, AllAged
  <2>4. \A p \in DOMAIN placed' : placed'[p] # Nothing => placed'[p][2] <= spent.rots + 1
    BY <1>1, <1>2, <1>3, <1>4, <2>1, <2>3
  <2>5. \A p \in DOMAIN recorded : recorded[p] # Nothing => recorded[p][2] <= spent.rots + 1
    BY <2>1 DEF PlaceInv, PlaceTypeOK, AllAged
  <2> QED
    BY <1>1, <1>2, <2>2, <2>4, <2>5 DEF AllAged, Aged
<1>10. LinksAgree'
  BY <1>1, <1>3, <1>5, <1>6, <1>8 DEF PlaceInv, LinksAgree
<1>11. RemovalIsSafe'
  <2>1. Src' = Src
    BY <1>1 DEF Src
  <2>2. CASE pass.at = "place"
    BY <1>1, <1>3, <1>5, <1>6, <2>1, <2>2 DEF PlaceInv, PlaceTypeOK, RemovalIsSafe, Src
  <2>3. CASE pass.at = "unlink"
    <3>1. Src \in Sources /\ (staged[Src] = At(Name) \/ staged[Src] \in doomed)
      BY <2>3 DEF PlaceInv, PlaceTypeOK, RemovalIsSafe, Src
    <3>2. CASE linked(Src)
      BY <1>1, <1>5, <1>6, <1>8, <2>1, <2>3, <3>1, <3>2 DEF RemovalIsSafe
    <3>3. CASE ~linked(Src)
      <4>1. staged'[Src] = staged[Src]
        BY <1>6, <3>1, <3>3
      <4>2. CASE path = Name
        BY <1>1, <2>1, <2>3, <3>1, <4>1, <4>2 DEF RemovalIsSafe
      <4>3. CASE path # Name
        BY <1>1, <1>8, <2>1, <2>3, <3>1, <4>1, <4>3 DEF RemovalIsSafe
      <4> QED
        BY <4>2, <4>3
    <3> QED
      BY <3>2, <3>3
  <2>4. CASE pass.at \notin {"place", "unlink"}
    BY <1>1, <2>4 DEF RemovalIsSafe
  <2> QED
    BY <2>2, <2>3, <2>4
<1>12. ChangesShow'
  <2>1. Recorded(path) # Nothing => Rotten(b) # Recorded(path)
    <3> SUFFICES ASSUME Recorded(path) # Nothing PROVE Rotten(b) # Recorded(path)
      OBVIOUS
    <3>1. /\ path \in DOMAIN recorded /\ Recorded(path) = recorded[path]
          /\ Recorded(path) \in Contents
      BY DEF Recorded, PlaceInv, PlaceTypeOK
    <3>2. Recorded(path)[2] \in Nat /\ Recorded(path)[2] <= spent.rots
      BY <3>1 DEF PlaceInv, AllAged, Aged, Contents
    <3> QED
      BY <1>2, <1>3, <1>4, <3>2
  <2> QED
    BY <1>1, <1>8, <2>1 DEF PlaceInv, ChangesShow
<1>13. NoBytesLost'
  <2> SUFFICES ASSUME NEW s \in Sources, Bytes(s) \notin doomed'
               PROVE  Somewhere(Bytes(s))'
    BY DEF NoBytesLost, Bytes
  <2>1. Somewhere(Bytes(s)) /\ Bytes(s) # b
    BY <1>1 DEF PlaceInv, NoBytesLost
  <2>2. CASE \E t \in Sources : staged[t] = Bytes(s)
    <3>1. PICK t \in Sources : staged[t] = Bytes(s)
      BY <2>2
    <3>2. staged'[t] = Bytes(s)
      BY <1>5, <1>6, <2>1, <3>1
    <3> QED
      BY <3>2 DEF Somewhere, Bytes
  <2>3. CASE \E p \in DOMAIN placed : placed[p] = Bytes(s)
    BY <1>1, <2>1, <2>3 DEF Somewhere, Bytes
  <2> QED
    BY <2>1, <2>2, <2>3 DEF Somewhere
<1> QED
  BY <1>7, <1>9, <1>10, <1>11, <1>12, <1>13 DEF PlaceInv

LEMMA DeletedKeeps ==
    ASSUME PlaceInv, Deleted
    PROVE  PlaceInv'
<1>1. /\ pass = NoPass /\ At(Name) # Nothing /\ Name \in DOMAIN placed
      /\ placed' = [placed EXCEPT ![Name] = Nothing]
      /\ doomed' = doomed \cup {placed[Name]}
      /\ oneFile' = {} /\ changed' = changed \ {Name}
      /\ UNCHANGED <<staged, recorded, pass>>
  BY DEF Deleted, At
<1>2. /\ spent' \in [passes : Nat, rots : Nat, tears : Nat]
      /\ spent'.rots = spent.rots + 1 /\ spent.rots \in Nat
  BY DEF Deleted, PlaceInv, PlaceTypeOK
<1>3. Nothing \in Contents
  BY DEF Contents
<1>4. PlaceTypeOK'
  BY <1>1, <1>2, <1>3 DEF PlaceInv, PlaceTypeOK
<1>5. AllAged'
  <2>1. ASSUME NEW c \in Contents, Aged(c) PROVE c # Nothing => c[2] <= spent.rots + 1
    <3> SUFFICES ASSUME c # Nothing PROVE c[2] <= spent.rots + 1
      OBVIOUS
    <3>1. c[2] \in Nat /\ c[2] <= spent.rots
      BY <2>1 DEF Aged, Contents
    <3> QED
      BY <1>2, <3>1
  <2>2. \A s \in Sources : staged[s] \in Contents /\ Aged(staged[s])
    BY DEF PlaceInv, PlaceTypeOK, AllAged
  <2>3. \A p \in DOMAIN placed : placed[p] \in Contents /\ Aged(placed[p])
    BY DEF PlaceInv, PlaceTypeOK, AllAged
  <2>4. \A p \in DOMAIN recorded : recorded[p] \in Contents /\ Aged(recorded[p])
    BY DEF PlaceInv, PlaceTypeOK, AllAged
  <2>5. \A p \in DOMAIN placed' : placed'[p] = Nothing \/ (p \in DOMAIN placed /\ placed'[p] = placed[p])
    BY <1>1
  <2> QED
    BY <1>1, <1>2, <2>1, <2>2, <2>3, <2>4, <2>5 DEF AllAged, Aged
<1>6. \A q : q # Name => At(q)' = At(q)
  BY <1>1 DEF At
<1>7. LinksAgree' /\ RemovalIsSafe'
  BY <1>1 DEF LinksAgree, RemovalIsSafe, NoPass
<1>8. ChangesShow'
  BY <1>1, <1>6 DEF PlaceInv, ChangesShow, Recorded
<1>9. NoBytesLost'
  <2> SUFFICES ASSUME NEW s \in Sources, Bytes(s) \notin doomed'
               PROVE  Somewhere(Bytes(s))'
    BY DEF NoBytesLost, Bytes
  <2>1. Somewhere(Bytes(s)) /\ Bytes(s) # placed[Name]
    BY <1>1 DEF PlaceInv, NoBytesLost
  <2> QED
    BY <1>1, <2>1 DEF Somewhere, Bytes
<1> QED
  BY <1>4, <1>5, <1>7, <1>8, <1>9 DEF PlaceInv

\* The invariant of the placing holds in every reachable state.
THEOREM PlaceInductive == PlaceSpec => []PlaceInv
<1>1. PlaceInv /\ [PlaceNext]_placeVars => PlaceInv'
  <2> SUFFICES ASSUME PlaceInv, [PlaceNext]_placeVars
               PROVE  PlaceInv'
    OBVIOUS
  <2>1. CASE \E s \in Sources, move \in BOOLEAN : Begin(s, move)
    BY <2>1, BeginKeeps
  <2>2. CASE Exists \/ Conflicts \/ Links \/ Unlinks \/ WriteSums \/ Killed
    BY <2>2, ExistsKeeps, ConflictsKeeps, LinksKeeps, UnlinksKeeps, WriteSumsKeeps,
       KilledKeeps
  <2>3. CASE \E b \in {Torn} \cup {staged[s] : s \in Sources} : Copies(b)
    BY <2>3, CopiesKeeps
  <2>4. CASE \E path \in Paths : Rot(path)
    BY <2>4, RotKeeps
  <2>5. CASE Deleted
    BY <2>5, DeletedKeeps
  <2>6. CASE UNCHANGED placeVars
    BY <2>6, TurnKeeps DEF placeVars, PlaceInv, PlaceTypeOK, RemovalIsSafe, Src, At
  <2> QED
    BY <2>1, <2>2, <2>3, <2>4, <2>5, <2>6 DEF PlaceNext
<1> QED
  BY <1>1, PlaceBegins, PTL DEF PlaceSpec

\* No card file's bytes are lost by linking, copying, moving, parking, a kill or
\* a repetition, and a file that changed after it was recorded shows it.
THEOREM PlacingIsSafe == PlaceSpec => []PlacementIsSafe
<1>1. PlaceInv => PlacementIsSafe
  BY DEF PlaceInv, PlacementIsSafe, ChangesShow, SumsCatchChanges
<1> QED
  BY <1>1, PlaceInductive, PTL
-----------------------------------------------------------------------------
(***************************************************************************)
(* Which frame a card file is.                                             *)
(***************************************************************************)
\* A camera whose files can be told from the other's: a run is long enough
\* that one flaw does not hide it (0.8 of the best count), two frames are two
\* bins apart, the journal is within its reach, and a directory says whose
\* cards it holds.
Recognisable ==
    /\ NRows >= 5 /\ Period >= 2 /\ JournalError <= JournalReach
    /\ Directories \subseteq {"cam1", "cam2", "both"}

\* All that a card holds lasts less.
Spread == 2 * Period * (NRows + 5)

Truth(cam) == [series |-> scene.setup.prefix[cam], off |-> Clock(cam)]
Took(cam, run, i) == [body |-> cam, run |-> run, shot |-> i]

SceneOK == /\ scene.dir \in Directories /\ scene.runs \in {1, 2}
           /\ scene.setup \in Setups /\ scene.journal \subseteq Cameras
           /\ IsFiniteSet(scene.flaws)

LEMMA Sizes ==
  ASSUME CardMatchAssumption
  PROVE  /\ NRows \in Nat \ {0} /\ Period \in Nat \ {0} /\ MaxFlaws \in Nat \ {0}
         /\ JournalError \in Nat /\ 2 * JournalError < Period
BY DEF CardMatchAssumption

LEMMA SetupIs ==
  ASSUME CardMatchAssumption, SceneOK, NEW b \in {1, 2}
  PROVE  Clock(b) \in Int /\ scene.setup.prefix[b] \in {1, 2}
<1>1. scene.setup \in Setups
  BY DEF SceneOK
<1>2. \A u \in Setups, c \in {1, 2} : u.clock[c] \in Int /\ u.prefix[c] \in {1, 2}
  BY DEF CardMatchAssumption
<1> QED BY <1>1, <1>2 DEF Clock

LEMMA AllRows ==
  ASSUME CardMatchAssumption
  PROVE  IsFiniteSet(1..NRows) /\ Cardinality(1..NRows) = NRows
<1>1. NRows \in Int /\ 1 \in Int /\ NRows >= 1
  BY Sizes
<1>2. IsFiniteSet(1..NRows)
  BY <1>1, FS_Interval
<1>3. Cardinality(1..NRows) = IF 1 > NRows THEN 0 ELSE NRows - 1 + 1
  BY <1>1, FS_Interval
<1> QED BY <1>1, <1>2, <1>3

LEMMA MinOfTwo ==
  ASSUME NEW a \in Int, NEW b \in Int
  PROVE  /\ Min({a, b}) = IF a <= b THEN a ELSE b
         /\ Max({a, b}) = IF a >= b THEN a ELSE b
<1>1. \E x \in {a, b} : \A y \in {a, b} : x <= y
  OBVIOUS
<1>2. \E x \in {a, b} : \A y \in {a, b} : x >= y
  OBVIOUS
<1>3. Min({a, b}) \in {a, b} /\ \A y \in {a, b} : Min({a, b}) <= y
  BY <1>1 DEF Min
<1>4. Max({a, b}) \in {a, b} /\ \A y \in {a, b} : Max({a, b}) >= y
  BY <1>2 DEF Max
<1> QED BY <1>3, <1>4

LEMMA Tolerance ==
  ASSUME CardMatchAssumption
  PROVE  RunTol \in Nat /\ RunTol < Period /\ RunTol <= 3
<1>1. (45 * Period) \div 100 \in Nat /\ (45 * Period) \div 100 < Period
  BY Sizes
<1> QED BY <1>1, MinOfTwo DEF RunTol

\* Two exposures of one body are a period apart, or one.
LEMMA Separated ==
  ASSUME CardMatchAssumption, NEW a \in {1, 2}, NEW b \in {1, 2},
         NEW i \in 0..NRows, NEW j \in 0..NRows
  PROVE  /\ ShotAt(a, i) \in Int
         /\ -Spread < ShotAt(a, i) - ShotAt(b, j) /\ ShotAt(a, i) - ShotAt(b, j) < Spread
         /\ -Period < ShotAt(a, i) - ShotAt(b, j) /\ ShotAt(a, i) - ShotAt(b, j) < Period
               => a = b /\ i = j
         /\ a = b /\ i <= j => ShotAt(a, i) <= ShotAt(b, j)
<1> DEFINE q == (a - b) * (NRows + 5) + (i - j)
<1>1. NRows \in Nat /\ Period \in Nat /\ Period > 0 /\ NRows > 0
  BY Sizes
<1>2. /\ ShotAt(a, i) = (a * (NRows + 5) + i) * Period
      /\ ShotAt(b, j) = (b * (NRows + 5) + j) * Period
  BY <1>1 DEF ShotAt
<1>3. ShotAt(a, i) - ShotAt(b, j) = q * Period
  BY <1>1, <1>2
<1>4. q \in Int /\ (a * (NRows + 5) + i) \in Int
  BY <1>1
<1>5. -(2 * (NRows + 5)) < q /\ q < 2 * (NRows + 5)
  BY <1>1
<1>6. (q = 0 => a = b /\ i = j) /\ (a = b /\ i <= j => q <= 0)
  BY <1>1
<1>7. /\ q >= 1 => q * Period >= Period
      /\ q <= -1 => q * Period <= -Period
      /\ q <= 0 => q * Period <= 0
  <2> HIDE DEF q
  <2> QED BY <1>1, <1>4
<1>8. -Spread < q * Period /\ q * Period < Spread
  <2> DEFINE m == 2 * (NRows + 5)
  <2>1. m \in Int /\ Spread = m * Period
    BY <1>1 DEF Spread
  <2> HIDE DEF q, m
  <2>2. -m < q /\ q < m
    BY <1>5 DEF m
  <2>3. -(m * Period) < q * Period /\ q * Period < m * Period
    BY <2>1, <2>2, <1>1, <1>4
  <2> QED BY <2>1, <2>3
<1> HIDE DEF q
<1>9. ShotAt(a, i) \in Int /\ ShotAt(b, j) \in Int
  BY <1>1, <1>2
<1>10. a = b /\ i <= j => ShotAt(a, i) <= ShotAt(b, j)
  BY <1>3, <1>4, <1>6, <1>7, <1>9
<1> QED BY <1>1, <1>3, <1>4, <1>6, <1>7, <1>8, <1>9, <1>10

LEMMA FilesAreFinite ==
  ASSUME CardMatchAssumption
  PROVE  IsFiniteSet(File)
<1> DEFINE codes == (Cameras \X {1, 2}) \X (0..NRows)
           g == [f \in File |-> <<<<f.body, f.run>>, f.shot>>]
<1>1. IsFiniteSet(0..NRows) /\ IsFiniteSet(1..2)
  <2>1. 0 \in Int /\ 1 \in Int /\ 2 \in Int /\ NRows \in Int
    BY Sizes
  <2> QED BY <2>1, FS_Interval
<1>2. Cameras = 1..2 /\ {1, 2} = 1..2
  BY DEF Cameras
<1>3. IsFiniteSet(codes)
  BY <1>1, <1>2, FS_Product
<1>4. g \in [File -> codes]
  BY DEF File
<1>5. ASSUME NEW f \in File, NEW h \in File, g[f] = g[h] PROVE f = h
  BY <1>5 DEF File
<1>6. g \in Injection(File, codes)
  <2> HIDE DEF g, codes
  <2> QED BY <1>4, <1>5, Fun_IsInj
<1> HIDE DEF g, codes
<1> QED BY <1>3, <1>6, FS_Injection

\* The files an offset lays over a row.
Over(run, rows, avail, k) ==
    {f \in avail : /\ Series(f) = k.series
                   /\ \E i \in rows : Exif(f) - ShotAt(run, i) = k.off}

\* They are all of one body.
Of(b, run, rows, avail, k) ==
    \A f \in avail, i \in rows :
        Series(f) = k.series /\ Exif(f) - ShotAt(run, i) = k.off => f.body = b

LEMMA FileIs ==
  ASSUME CardMatchAssumption, SceneOK, NEW f \in File
  PROVE  /\ f.body \in {1, 2} /\ f.run \in {1, 2} /\ f.shot \in 0..NRows
         /\ Exif(f) = ShotAt(f.run, f.shot) + Clock(f.body) /\ Exif(f) \in Int
         /\ Clock(f.body) \in Int /\ f = Took(f.body, f.run, f.shot)
         /\ Series(f) = scene.setup.prefix[f.body] /\ Series(f) \in {1, 2}
<1>1. f.body \in {1, 2} /\ f.run \in {1, 2} /\ f.shot \in 0..NRows
  BY DEF File, Cameras
<1>2. f = Took(f.body, f.run, f.shot)
  BY DEF File, Took
<1>3. /\ ShotAt(f.run, f.shot) \in Int /\ Clock(f.body) \in Int
      /\ scene.setup.prefix[f.body] \in {1, 2}
  BY <1>1, SetupIs, Separated
<1> QED BY <1>1, <1>2, <1>3 DEF Exif, Series

\* An offset is of two exposures of one body, and zero only of one.
LEMMA OverOne ==
  ASSUME CardMatchAssumption, SceneOK, NEW f \in File, NEW run \in {1, 2}, NEW i \in 1..NRows
  PROVE  /\ (-Period < Exif(f) - ShotAt(run, i) - Clock(f.body) /\
              Exif(f) - ShotAt(run, i) - Clock(f.body) < Period)
             => f = Took(f.body, run, i)
         /\ Exif(Took(f.body, run, i)) - ShotAt(run, i) = Clock(f.body)
         /\ Took(f.body, run, i) \in File
<1>1. /\ f.body \in {1, 2} /\ f.run \in {1, 2} /\ f.shot \in 0..NRows
      /\ Exif(f) = ShotAt(f.run, f.shot) + Clock(f.body) /\ Exif(f) \in Int
      /\ Clock(f.body) \in Int /\ f = Took(f.body, f.run, f.shot)
  BY FileIs
<1>2. i \in 0..NRows
  BY Sizes
<1>3. Took(f.body, run, i) \in File
  BY <1>1, <1>2 DEF Took, File, Cameras
<1>4. Exif(Took(f.body, run, i)) = ShotAt(run, i) + Clock(f.body)
  BY DEF Exif, Took
<1>5. ShotAt(run, i) \in Int /\ ShotAt(f.run, f.shot) \in Int
  BY <1>1, <1>2, Separated
<1>6. -Period < ShotAt(f.run, f.shot) - ShotAt(run, i)
      /\ ShotAt(f.run, f.shot) - ShotAt(run, i) < Period => f.run = run /\ f.shot = i
  BY <1>1, <1>2, Separated
<1> QED BY <1>1, <1>3, <1>4, <1>5, <1>6

LEMMA CountAtMost ==
  ASSUME CardMatchAssumption, SceneOK, NEW avail \in SUBSET File, NEW run \in {1, 2},
         NEW rows \in SUBSET (1..NRows), NEW over \in SUBSET (1..NRows), NEW k,
         NEW b \in {1, 2}, Of(b, run, rows, avail, k),
         \A f \in avail, i \in rows :
             Series(f) = k.series /\ Exif(f) - ShotAt(run, i) = k.off => i \in over
  PROVE  /\ Count(run, rows, avail, k) \in Nat
         /\ Count(run, rows, avail, k) <= Cardinality(over)
         /\ Cardinality(over) \in Nat /\ Cardinality(over) <= NRows
<1> DEFINE T == Over(run, rows, avail, k)
           row(f) == CHOOSE i \in rows : Exif(f) - ShotAt(run, i) = k.off
           g == [f \in T |-> row(f)]
<1>1. IsFiniteSet(1..NRows) /\ Cardinality(1..NRows) = NRows
  BY AllRows
<1>2. IsFiniteSet(over) /\ Cardinality(over) \in Nat /\ Cardinality(over) <= NRows
  BY <1>1, FS_Subset, FS_CardinalityType
<1>3. ASSUME NEW f \in T
      PROVE  /\ f \in avail /\ Series(f) = k.series /\ f.body = b
             /\ row(f) \in rows /\ Exif(f) - ShotAt(run, row(f)) = k.off
  BY DEF Over, Of
<1>4. g \in [T -> over]
  BY <1>3
<1>5. ASSUME NEW f \in T, NEW h \in T, g[f] = g[h] PROVE f = h
  <2>1. row(f) = row(h)
    BY <1>5
  <2>2. PICK i \in 1..NRows : i = row(f)
    BY <1>3
  <2>3. Exif(f) - ShotAt(run, i) = k.off /\ Exif(h) - ShotAt(run, i) = k.off
        /\ f \in File /\ h \in File /\ f.body = h.body
    BY <1>3, <2>1, <2>2
  <2>4. f.run \in {1, 2} /\ f.shot \in 0..NRows /\ h.run \in {1, 2} /\ h.shot \in 0..NRows
    BY <2>3, FileIs
  <2>5. ShotAt(f.run, f.shot) = ShotAt(h.run, h.shot)
    <3>1. i \in 0..NRows
      BY Sizes
    <3>2. ShotAt(run, i) \in Int /\ ShotAt(f.run, f.shot) \in Int /\ ShotAt(h.run, h.shot) \in Int
      BY <2>4, <3>1, Separated
    <3>3. /\ Exif(f) = ShotAt(f.run, f.shot) + Clock(f.body)
          /\ Exif(h) = ShotAt(h.run, h.shot) + Clock(f.body) /\ Clock(f.body) \in Int
      BY <2>3, FileIs
    <3> QED BY <2>3, <3>2, <3>3
  <2>6. f.run = h.run /\ f.shot = h.shot
    <3>1. ShotAt(f.run, f.shot) \in Int /\ Period > 0
      BY <2>4, Separated, Sizes
    <3>2. -Period < ShotAt(f.run, f.shot) - ShotAt(h.run, h.shot)
          /\ ShotAt(f.run, f.shot) - ShotAt(h.run, h.shot) < Period
      BY <2>5, <3>1, Sizes
    <3> QED BY <2>4, <3>2, Separated
  <2> QED BY <2>3, <2>6, FileIs
<1>6. g \in Injection(T, over)
  <2> HIDE DEF g, T
  <2> QED BY <1>4, <1>5, Fun_IsInj
<1>7. IsFiniteSet(T) /\ Cardinality(T) <= Cardinality(over)
  <2> HIDE DEF g, T
  <2> QED BY <1>2, <1>6, FS_Injection
<1>8. Count(run, rows, avail, k) = Cardinality(T)
  BY DEF Count, Over
<1>9. Cardinality(T) \in Nat
  BY <1>7, FS_CardinalityType
<1> QED BY <1>2, <1>7, <1>8, <1>9

LEMMA CountIs ==
  ASSUME CardMatchAssumption, NEW avail \in SUBSET File, NEW run, NEW rows, NEW k
  PROVE  Cardinality(File) \in Nat /\ Count(run, rows, avail, k) \in 0..Cardinality(File)
<1> DEFINE T == Over(run, rows, avail, k)
<1>1. T \in SUBSET File
  BY DEF Over
<1>2. /\ Cardinality(T) <= Cardinality(File) /\ IsFiniteSet(T)
      /\ Cardinality(T) \in Nat /\ Cardinality(File) \in Nat
  <2> HIDE DEF T
  <2> QED BY <1>1, FilesAreFinite, FS_Subset, FS_CardinalityType
<1>3. Count(run, rows, avail, k) = Cardinality(T)
  BY DEF Count, Over
<1> QED BY <1>2, <1>3

\* The true offset lays every file that is there over its row.
LEMMA CountAtLeast ==
  ASSUME CardMatchAssumption, SceneOK, NEW avail \in SUBSET File, NEW run \in {1, 2},
         NEW rows \in SUBSET (1..NRows), NEW cam \in {1, 2}, NEW there \in SUBSET rows,
         \A i \in there : Took(cam, run, i) \in avail
  PROVE  /\ Count(run, rows, avail, Truth(cam)) \in Nat
         /\ Count(run, rows, avail, Truth(cam)) >= Cardinality(there)
         /\ Cardinality(there) \in Nat
<1> DEFINE T == Over(run, rows, avail, Truth(cam))
           g == [i \in there |-> Took(cam, run, i)]
<1>1. IsFiniteSet(T) /\ Cardinality(T) \in Nat
  <2>1. T \subseteq File
    BY DEF Over
  <2> QED BY <2>1, FilesAreFinite, FS_Subset, FS_CardinalityType
<1>2. ASSUME NEW i \in there PROVE Took(cam, run, i) \in T
  <2>1. Took(cam, run, i) \in avail /\ i \in rows /\ i \in 1..NRows
    OBVIOUS
  <2>2. Took(cam, run, i).body = cam /\ Series(Took(cam, run, i)) = scene.setup.prefix[cam]
    BY DEF Took, Series
  <2>3. Exif(Took(cam, run, i)) - ShotAt(run, i) = Clock(cam)
    BY <2>1, <2>2, OverOne
  <2> QED BY <2>1, <2>2, <2>3 DEF Over, Truth
<1>3. g \in [there -> T]
  BY <1>2
<1>4. ASSUME NEW i \in there, NEW j \in there, g[i] = g[j] PROVE i = j
  <2>1. Took(cam, run, i).shot = Took(cam, run, j).shot
    BY <1>4
  <2> QED BY <2>1 DEF Took
<1>5. g \in Injection(there, T)
  <2> HIDE DEF g, T
  <2> QED BY <1>3, <1>4, Fun_IsInj
<1>6. IsFiniteSet(there) /\ Cardinality(there) <= Cardinality(T)
  <2> HIDE DEF g, T
  <2> QED BY <1>1, <1>5, FS_Injection
<1>7. Count(run, rows, avail, Truth(cam)) = Cardinality(T)
  BY DEF Count, Over, Truth
<1> QED BY <1>1, <1>6, <1>7, FS_CardinalityType

-----------------------------------------------------------------------------
PassKinds == {1, 2} \X {"number", "time"} \X Cameras
MatchedFrames == [run : {1, 2}, cam : Cameras, shot : 1..NRows, card : File]

MatchTypeOK ==
    /\ SceneOK /\ todo \in Seq(PassKinds)
    /\ series \in [{1, 2} \X Cameras -> 0..2]
    /\ matches \subseteq MatchedFrames
    /\ used = {m.card : m \in matches}

\* One flaw at most.
Few == Cardinality(scene.flaws) <= 1

\* Every file of this body and this run that the card holds can be had.
OwnThere(run, cam, avail) ==
    /\ avail \subseteq Cards
    /\ \A f \in Cards : f.body = cam /\ f.run = run => f \in avail

LEMMA LoneFlaw ==
  ASSUME SceneOK, Few, NEW x \in scene.flaws, NEW y \in scene.flaws
  PROVE  x = y
<1>1. IsFiniteSet(scene.flaws) /\ Cardinality(scene.flaws) \in Nat
  BY FS_CardinalityType DEF SceneOK
<1>2. Cardinality(scene.flaws) # 0
  BY <1>1, FS_EmptySet
<1>3. Cardinality(scene.flaws) = 1
  BY <1>1, <1>2 DEF Few
<1>4. PICK z : scene.flaws = {z}
  BY <1>1, <1>3, FS_Singleton
<1> QED BY <1>4

LEMMA RowIsNoFile ==
  ASSUME NEW a, NEW b, NEW i, NEW c, NEW d, NEW j
  PROVE  [run |-> a, cam |-> b, row |-> i] # [body |-> c, run |-> d, shot |-> j]
<1>1. "row" \in DOMAIN [run |-> a, cam |-> b, row |-> i]
  OBVIOUS
<1>2. "row" \notin DOMAIN [body |-> c, run |-> d, shot |-> j]
  OBVIOUS
<1> QED BY <1>1, <1>2

\* All rows but one have their file and are there themselves.
LEMMA AllButOne ==
  ASSUME CardMatchAssumption, SceneOK, Few, NEW run \in {1, 2}, run <= scene.runs,
         NEW cam \in {1, 2}, cam \in Bodies(scene.dir)
  PROVE  \E j \in 1..NRows : \A i \in (1..NRows) \ {j} :
            i \in Rows(run, cam) /\ Took(cam, run, i) \in Cards
<1> DEFINE flawed(i) == \/ [run |-> run, cam |-> cam, row |-> i] \in scene.flaws
                        \/ Took(cam, run, i) \in scene.flaws
<1>1. ASSUME NEW i \in 1..NRows, ~flawed(i)
      PROVE  i \in Rows(run, cam) /\ Took(cam, run, i) \in Cards
  <2>1. i \in Rows(run, cam)
    BY <1>1 DEF Rows
  <2>2. Took(cam, run, i) \in File
    BY Sizes DEF Took, File, Cameras
  <2>3. /\ Took(cam, run, i).body = cam /\ Took(cam, run, i).run = run
        /\ Took(cam, run, i).shot = i /\ i # 0
    BY Sizes DEF Took
  <2> QED BY <1>1, <2>1, <2>2, <2>3 DEF Cards
<1>2. ASSUME NEW i \in 1..NRows, NEW j \in 1..NRows, flawed(i), flawed(j) PROVE i = j
  <2>1. CASE /\ [run |-> run, cam |-> cam, row |-> i] \in scene.flaws
             /\ [run |-> run, cam |-> cam, row |-> j] \in scene.flaws
    <3>1. [run |-> run, cam |-> cam, row |-> i] = [run |-> run, cam |-> cam, row |-> j]
      BY <2>1, LoneFlaw
    <3>2. [run |-> run, cam |-> cam, row |-> i].row = [run |-> run, cam |-> cam, row |-> j].row
      BY <3>1
    <3> QED BY <3>2
  <2>2. CASE Took(cam, run, i) \in scene.flaws /\ Took(cam, run, j) \in scene.flaws
    <3>1. Took(cam, run, i) = Took(cam, run, j)
      BY <2>2, LoneFlaw
    <3>2. Took(cam, run, i).shot = Took(cam, run, j).shot
      BY <3>1
    <3> QED BY <3>2 DEF Took
  <2>3. ASSUME NEW p, NEW q, Took(cam, run, p) \in scene.flaws,
               [run |-> run, cam |-> cam, row |-> q] \in scene.flaws
        PROVE  FALSE
    <3>1. [run |-> run, cam |-> cam, row |-> q] = Took(cam, run, p)
      BY <2>3, LoneFlaw
    <3> QED BY <3>1, RowIsNoFile DEF Took
  <2> QED BY <1>2, <2>1, <2>2, <2>3
<1>3. CASE \A i \in 1..NRows : ~flawed(i)
  <2>1. 1 \in 1..NRows
    BY Sizes
  <2> HIDE DEF flawed
  <2> QED BY <1>1, <1>3, <2>1
<1>4. CASE \E i \in 1..NRows : flawed(i)
  <2> HIDE DEF flawed
  <2>1. PICK j \in 1..NRows : flawed(j)
    BY <1>4
  <2>2. \A i \in (1..NRows) \ {j} : ~flawed(i)
    BY <1>2, <2>1
  <2> QED BY <1>1, <2>2
<1> QED BY <1>3, <1>4

LEMMA RowsAre ==
  ASSUME CardMatchAssumption, NEW run, NEW cam
  PROVE  /\ Rows(run, cam) \subseteq 1..NRows
         /\ IsFiniteSet(Rows(run, cam)) /\ Cardinality(Rows(run, cam)) \in 0..NRows
<1>1. IsFiniteSet(1..NRows) /\ Cardinality(1..NRows) = NRows
  BY AllRows
<1>2. Rows(run, cam) \subseteq 1..NRows
  BY DEF Rows
<1>3. IsFiniteSet(Rows(run, cam)) /\ Cardinality(Rows(run, cam)) <= NRows
  BY <1>1, <1>2, FS_Subset
<1>4. Cardinality(Rows(run, cam)) \in Nat
  BY <1>3, FS_CardinalityType
<1> QED BY <1>2, <1>3, <1>4, Sizes

LEMMA EnoughIs ==
  ASSUME CardMatchAssumption, Recognisable, NEW n \in 0..NRows, NEW least \in {2, 3}
  PROVE  AtLeast(n, least) \in Int /\ AtLeast(n, least) <= NRows - 1
<1>1. Share(n) \in Int /\ Share(n) <= NRows - 1
  BY Sizes DEF Share, Recognisable
<1>2. least \in Int /\ least <= NRows - 1
  BY Sizes DEF Recognisable
<1>3. Max({least, Share(n)}) = IF least >= Share(n) THEN least ELSE Share(n)
  <2> HIDE DEF Share
  <2> QED BY <1>1, <1>2, MinOfTwo
<1> QED BY <1>1, <1>2, <1>3 DEF AtLeast

\* So the true offset is among the alignments, short of the best by one.
LEMMA TruthCounts ==
  ASSUME CardMatchAssumption, Recognisable, SceneOK, Few, NEW run \in {1, 2},
         run <= scene.runs, NEW cam \in {1, 2}, cam \in Bodies(scene.dir),
         NEW avail, OwnThere(run, cam, avail)
  PROVE  /\ Count(run, Rows(run, cam), avail, Truth(cam)) \in Nat
         /\ Count(run, Rows(run, cam), avail, Truth(cam)) >= NRows - 1
         /\ Truth(cam) \in Alignments(run, Rows(run, cam), avail)
<1> DEFINE rows == Rows(run, cam)
<1>0. rows \subseteq 1..NRows /\ Cardinality(rows) \in 0..NRows
  BY RowsAre
<1>1. PICK j \in 1..NRows : \A i \in (1..NRows) \ {j} :
            i \in Rows(run, cam) /\ Took(cam, run, i) \in Cards
  BY AllButOne
<1> DEFINE there == (1..NRows) \ {j}
<1>2. IsFiniteSet(1..NRows) /\ Cardinality(1..NRows) = NRows
  BY AllRows
<1>3. Cardinality(there) = NRows - 1
  <2>1. Cardinality((1..NRows) \ {j}) = Cardinality(1..NRows) - 1
    BY <1>2, FS_RemoveElement
  <2> QED BY <1>2, <2>1
<1>4. \A i \in there : i \in rows /\ Took(cam, run, i) \in avail
  BY <1>1 DEF OwnThere, Took
<1>5. avail \in SUBSET File
  BY DEF OwnThere, Cards
<1>6. /\ Count(run, rows, avail, Truth(cam)) \in Nat
      /\ Count(run, rows, avail, Truth(cam)) >= NRows - 1
  <2> HIDE DEF rows, there
  <2> QED BY <1>0, <1>3, <1>4, <1>5, CountAtLeast
<1>7. PICK i \in there : TRUE
  <2>1. 1 \in 1..NRows /\ 2 \in 1..NRows
    BY Sizes DEF Recognisable
  <2> QED BY <2>1
<1>8. Took(cam, run, i) \in avail /\ i \in rows
  BY <1>4
<1>9. /\ Exif(Took(cam, run, i)) - ShotAt(run, i) = Clock(cam)
      /\ Series(Took(cam, run, i)) = scene.setup.prefix[cam]
  <2>1. Took(cam, run, i) \in File /\ i \in 1..NRows /\ Took(cam, run, i).body = cam
    BY <1>5, <1>8 DEF Took
  <2> QED BY <2>1, OverOne, FileIs
<1>10. Count(run, rows, avail, Truth(cam)) >= AtLeast(Cardinality(rows), 2)
  <2>1. AtLeast(Cardinality(rows), 2) \in Int /\ AtLeast(Cardinality(rows), 2) <= NRows - 1
    BY <1>0, EnoughIs
  <2> HIDE DEF rows
  <2> QED BY <1>6, <2>1, Sizes
<1>11. Truth(cam) \in {[series |-> Series(f), off |-> Exif(f) - ShotAt(run, h)] :
                         f \in avail, h \in rows}
  <2> HIDE DEF rows
  <2> QED BY <1>8, <1>9 DEF Truth
<1> QED BY <1>6, <1>10, <1>11 DEF Alignments

LEMMA AlignmentOf ==
  ASSUME CardMatchAssumption, SceneOK, NEW run, NEW rows, NEW avail \in SUBSET File,
         NEW k \in Alignments(run, rows, avail)
  PROVE  \E f \in avail, i \in rows :
            /\ k = [series |-> Series(f), off |-> Exif(f) - ShotAt(run, i)]
            /\ Series(f) = k.series /\ Exif(f) - ShotAt(run, i) = k.off
            /\ k.series \in {1, 2} /\ f \in File
<1>1. PICK f \in avail, i \in rows :
          k = [series |-> Series(f), off |-> Exif(f) - ShotAt(run, i)]
  BY DEF Alignments
<1>2. Series(f) \in {1, 2} /\ f \in File
  BY FileIs
<1> QED BY <1>1, <1>2

LEMMA AlignmentType ==
  ASSUME CardMatchAssumption, SceneOK, NEW run \in {1, 2}, NEW rows \in SUBSET (1..NRows),
         NEW avail \in SUBSET File, NEW k \in Alignments(run, rows, avail)
  PROVE  k.series \in {1, 2} /\ k.off \in Int
<1>1. PICK f \in avail, i \in rows :
          k = [series |-> Series(f), off |-> Exif(f) - ShotAt(run, i)]
  BY DEF Alignments
<1>2. i \in 0..NRows
  <2>1. i \in 1..NRows
    OBVIOUS
  <2> QED BY <2>1, Sizes
<1>3. Exif(f) \in Int /\ ShotAt(run, i) \in Int /\ Series(f) \in {1, 2}
  BY <1>2, FileIs, Separated
<1> QED BY <1>1, <1>3

\* What is between an offset and the clock of the body it is of.
LEMMA AlignmentIs ==
  ASSUME CardMatchAssumption, SceneOK, NEW run \in {1, 2}, NEW rows \in SUBSET (1..NRows),
         NEW avail \in SUBSET File, NEW k \in Alignments(run, rows, avail),
         NEW b \in {1, 2}, Of(b, run, rows, avail, k)
  PROVE  /\ k.series = scene.setup.prefix[b] /\ k.off \in Int /\ Clock(b) \in Int
         /\ -Spread < k.off - Clock(b) /\ k.off - Clock(b) < Spread
         /\ -Period < k.off - Clock(b) /\ k.off - Clock(b) < Period => k = Truth(b)
<1>1. PICK f \in avail, i \in rows :
          /\ k = [series |-> Series(f), off |-> Exif(f) - ShotAt(run, i)]
          /\ Series(f) = k.series /\ Exif(f) - ShotAt(run, i) = k.off
  BY AlignmentOf
<1>2. f \in File /\ f.body = b /\ i \in 1..NRows
  BY <1>1 DEF Of
<1>3. /\ f.run \in {1, 2} /\ f.shot \in 0..NRows
      /\ Exif(f) = ShotAt(f.run, f.shot) + Clock(b) /\ Exif(f) \in Int
      /\ Clock(b) \in Int /\ Series(f) = scene.setup.prefix[b]
  BY <1>2, FileIs
<1>4. i \in 0..NRows
  BY <1>2, Sizes
<1>5. /\ ShotAt(run, i) \in Int /\ ShotAt(f.run, f.shot) \in Int
      /\ -Spread < ShotAt(f.run, f.shot) - ShotAt(run, i)
      /\ ShotAt(f.run, f.shot) - ShotAt(run, i) < Spread
  BY <1>3, <1>4, Separated
<1>6. k.off - Clock(b) = ShotAt(f.run, f.shot) - ShotAt(run, i) /\ k.off \in Int
  BY <1>1, <1>3, <1>5
<1>7. ASSUME -Period < k.off - Clock(b), k.off - Clock(b) < Period
      PROVE  k = Truth(b)
  <2>1. f = Took(b, run, i)
    BY <1>1, <1>2, <1>7, OverOne
  <2>2. Exif(f) - ShotAt(run, i) = Clock(b)
    BY <1>2, <2>1, OverOne
  <2> QED BY <1>1, <1>3, <2>2 DEF Truth
<1> QED BY <1>1, <1>3, <1>5, <1>6, <1>7

LEMMA OnlyOne ==
  ASSUME NEW S \in SUBSET {1, 2}, NEW c \in S, ~(Cardinality(S) > 1)
  PROVE  S = {c}
<1>1. Cardinality({1, 2}) = 2
  <2>1. IsFiniteSet({1}) /\ Cardinality({1}) = 1
    BY FS_Singleton
  <2>2. Cardinality({1} \cup {2}) = Cardinality({1}) + 1
    BY <2>1, FS_AddElement
  <2>3. {1} \cup {2} = {1, 2}
    OBVIOUS
  <2> QED BY <2>1, <2>2, <2>3
<1>2. S # {1, 2}
  BY <1>1
<1> QED BY <1>2

LEMMA OffIs ==
  ASSUME NEW a \in Int, NEW b \in Int
  PROVE  OffBy(a, b) \in Nat /\ (OffBy(a, b) = b - a \/ OffBy(a, b) = a - b)
         /\ OffBy(a, b) >= a - b /\ OffBy(a, b) >= b - a
BY DEF OffBy

\* The journal's word picks the true one of the alignments of one body.
LEMMA JournalPicks ==
  ASSUME CardMatchAssumption, SceneOK, NEW cam \in {1, 2}, NEW close, Truth(cam) \in close,
         \A k \in close : k.off \in Int,
         \A k \in close : -Period < k.off - Clock(cam) /\ k.off - Clock(cam) < Period
                              => k = Truth(cam)
  PROVE  \A k \in close :
            (\A j \in close : OffBy(k.off, Clock(cam) + JournalError)
                                <= OffBy(j.off, Clock(cam) + JournalError))
            <=> k = Truth(cam)
<1> DEFINE expect == Clock(cam) + JournalError
<1>1. /\ Clock(cam) \in Int /\ expect \in Int /\ JournalError \in Nat
      /\ 2 * JournalError < Period /\ Truth(cam).off = Clock(cam) /\ Period \in Nat
  BY Sizes, SetupIs DEF Truth
<1>2. OffBy(Truth(cam).off, expect) = JournalError
  BY <1>1 DEF OffBy
<1>3. ASSUME NEW k \in close, OffBy(k.off, expect) <= JournalError PROVE k = Truth(cam)
  <2>1. k.off \in Int
    OBVIOUS
  <2>2. -Period < k.off - Clock(cam) /\ k.off - Clock(cam) < Period
    <3>1. OffBy(k.off, expect) >= k.off - expect /\ OffBy(k.off, expect) >= expect - k.off
          /\ OffBy(k.off, expect) \in Nat
      BY <1>1, <2>1, OffIs
    <3> QED BY <1>1, <1>3, <2>1, <3>1
  <2> QED BY <2>2
<1>4. ASSUME NEW k \in close PROVE JournalError <= OffBy(k.off, expect)
  <2>1. k.off \in Int
    OBVIOUS
  <2>2. OffBy(k.off, expect) \in Nat
    BY <1>1, <2>1, OffIs
  <2>3. CASE OffBy(k.off, expect) <= JournalError
    BY <1>2, <1>3, <2>3, <1>1
  <2>4. CASE ~(OffBy(k.off, expect) <= JournalError)
    BY <1>1, <2>2, <2>4
  <2> QED BY <2>3, <2>4
<1>5. \A j \in close : OffBy(Truth(cam).off, expect) <= OffBy(j.off, expect)
  BY <1>2, <1>4
<1>6. ASSUME NEW k \in close, \A j \in close : OffBy(k.off, expect) <= OffBy(j.off, expect)
      PROVE  k = Truth(cam)
  BY <1>2, <1>3, <1>6
<1> QED BY <1>5, <1>6

\* Nothing lies over more rows than the true offset of the only run there is.
LEMMA TruthIsBest ==
  ASSUME CardMatchAssumption, Recognisable, SceneOK, Few, scene.runs = 1,
         NEW cam \in {1, 2}, cam \in Bodies(scene.dir), NEW avail, OwnThere(1, cam, avail),
         NEW k, Of(cam, 1, Rows(1, cam), avail, k)
  PROVE  Count(1, Rows(1, cam), avail, k) <= Count(1, Rows(1, cam), avail, Truth(cam))
<1> DEFINE rows == Rows(1, cam)
           there == {i \in rows : Took(cam, 1, i) \in Cards}
<1>1. rows \subseteq 1..NRows /\ avail \in SUBSET File
  BY RowsAre DEF OwnThere, Cards
<1>2. \A i \in there : Took(cam, 1, i) \in avail
  BY DEF OwnThere, Took
<1>3. /\ Count(1, rows, avail, Truth(cam)) >= Cardinality(there)
      /\ Count(1, rows, avail, Truth(cam)) \in Nat /\ Cardinality(there) \in Nat
  <2>1. there \in SUBSET rows
    OBVIOUS
  <2> HIDE DEF rows, there
  <2> QED BY <1>1, <1>2, <2>1, CountAtLeast
<1>4. CASE there = rows
  <2>1. Count(1, rows, avail, k) \in Nat /\ Count(1, rows, avail, k) <= Cardinality(rows)
    <3>1. Of(cam, 1, rows, avail, k)
      OBVIOUS
    <3> HIDE DEF rows
    <3> QED BY <1>1, <3>1, CountAtMost
  <2>2. Cardinality(there) = Cardinality(rows)
    BY <1>4
  <2> HIDE DEF there
  <2> QED BY <1>3, <2>1, <2>2
<1>5. CASE there # rows
  <2>1. PICK j \in rows : Took(cam, 1, j) \notin Cards
    BY <1>5
  <2>2. Took(cam, 1, j) \in scene.flaws /\ j # 0
    <3>1. Took(cam, 1, j) \in File /\ j # 0
      BY <1>1, <2>1, Sizes DEF Took, File, Cameras
    <3>2. Took(cam, 1, j).body = cam /\ Took(cam, 1, j).run = 1 /\ Took(cam, 1, j).shot = j
      BY DEF Took
    <3> HIDE DEF rows
    <3> QED BY <2>1, <3>1, <3>2 DEF Cards
  <2>3. rows = 1..NRows
    <3>1. ASSUME NEW i, [run |-> 1, cam |-> cam, row |-> i] \in scene.flaws PROVE FALSE
      <4>1. [run |-> 1, cam |-> cam, row |-> i] = Took(cam, 1, j)
        BY <2>2, <3>1, LoneFlaw
      <4> QED BY <4>1, RowIsNoFile DEF Took
    <3> QED BY <3>1 DEF Rows
  <2> DEFINE T == Over(1, rows, avail, k)
             g == [f \in T |-> f.shot]
  <2>4. ASSUME NEW f \in T
        PROVE  f \in File /\ f.shot \in there /\ f = Took(cam, 1, f.shot)
    <3>1. f \in avail /\ f \in Cards /\ f \in File /\ f.body = cam
      BY DEF Over, Of, OwnThere, Cards
    <3>2. f.run = 1
      BY <3>1, FileIs DEF Cards
    <3>3. f = Took(cam, 1, f.shot) /\ f.shot \in 0..NRows
      BY <3>1, <3>2, FileIs
    <3>4. f.shot # 0
      <4>1. SUFFICES ASSUME f.shot = 0 PROVE FALSE
        OBVIOUS
      <4>2. f \in scene.flaws
        BY <3>1, <4>1 DEF Cards
      <4>3. f = Took(cam, 1, j)
        BY <2>2, <4>2, LoneFlaw
      <4> QED BY <2>2, <4>1, <4>3 DEF Took
    <3>5. f.shot \in 1..NRows
      BY <3>3, <3>4, Sizes
    <3> QED BY <2>3, <3>1, <3>3, <3>5
  <2>5. g \in Injection(T, there)
    <3>1. g \in [T -> there]
      <4> HIDE DEF T, there
      <4> QED BY <2>4
    <3>2. ASSUME NEW f \in T, NEW h \in T, g[f] = g[h] PROVE f = h
      <4> HIDE DEF T, there
      <4> QED BY <2>4, <3>2
    <3> HIDE DEF g, T, there
    <3> QED BY <3>1, <3>2, Fun_IsInj
  <2>6. IsFiniteSet(there)
    <3>1. IsFiniteSet(rows)
      BY RowsAre
    <3> QED BY <3>1, FS_Subset
  <2>7. IsFiniteSet(T) /\ Cardinality(T) <= Cardinality(there)
    <3> HIDE DEF g, T, there
    <3> QED BY <2>5, <2>6, FS_Injection
  <2>8. Count(1, rows, avail, k) = Cardinality(T)
    BY DEF Count, Over
  <2>9. Cardinality(T) \in Nat
    BY <2>7, FS_CardinalityType
  <2> HIDE DEF T, there
  <2> QED BY <1>3, <2>7, <2>8, <2>9
<1> QED BY <1>4, <1>5

\* With no flaws every row has its file, and only the true offset fits them all.
LEMMA AllThere ==
  ASSUME CardMatchAssumption, scene.flaws = {}, NEW run \in {1, 2}, run <= scene.runs,
         NEW cam \in {1, 2}, cam \in Bodies(scene.dir)
  PROVE  Rows(run, cam) = 1..NRows /\ \A i \in 1..NRows : Took(cam, run, i) \in Cards
<1>1. Rows(run, cam) = 1..NRows
  BY DEF Rows
<1>2. ASSUME NEW i \in 1..NRows PROVE Took(cam, run, i) \in Cards
  <2>1. Took(cam, run, i) \in File /\ i # 0
    BY Sizes DEF Took, File, Cameras
  <2>2. /\ Took(cam, run, i).body = cam /\ Took(cam, run, i).run = run
        /\ Took(cam, run, i).shot = i
    BY DEF Took
  <2> QED BY <2>1, <2>2 DEF Cards
<1> QED BY <1>1, <1>2

LEMMA OnlyTruthFits ==
  ASSUME CardMatchAssumption, SceneOK, scene.flaws = {}, scene.runs = 1,
         NEW cam \in {1, 2}, cam \in Bodies(scene.dir), NEW avail, OwnThere(1, cam, avail),
         NEW k \in Alignments(1, Rows(1, cam), avail), Of(cam, 1, Rows(1, cam), avail, k),
         Count(1, Rows(1, cam), avail, k) >= Count(1, Rows(1, cam), avail, Truth(cam))
  PROVE  k = Truth(cam)
<1> DEFINE rows == Rows(1, cam)
<1>1. rows = 1..NRows /\ \A i \in 1..NRows : Took(cam, 1, i) \in avail
  <2>1. 1 <= scene.runs
    OBVIOUS
  <2>2. rows = 1..NRows /\ \A i \in 1..NRows : Took(cam, 1, i) \in Cards
    BY <2>1, AllThere
  <2> QED BY <2>2 DEF OwnThere, Took
<1>2. avail \in SUBSET File
  BY DEF OwnThere, Cards
<1>3. IsFiniteSet(1..NRows) /\ Cardinality(1..NRows) = NRows
  BY AllRows
<1>4. Count(1, rows, avail, Truth(cam)) \in Nat /\ Count(1, rows, avail, Truth(cam)) >= NRows
  <2>1. Count(1, rows, avail, Truth(cam)) \in Nat
        /\ Count(1, rows, avail, Truth(cam)) >= Cardinality(1..NRows)
    <3>1. rows \in SUBSET (1..NRows) /\ 1..NRows \in SUBSET rows
      BY <1>1
    <3> HIDE DEF rows
    <3> QED BY <1>1, <1>2, <3>1, CountAtLeast
  <2> QED BY <1>3, <2>1
<1>5. k.off \in Int /\ Clock(cam) \in Int /\ Period \in Nat /\ Period > 0 /\ NRows \in Nat
      /\ NRows > 0
  <2>1. rows \in SUBSET (1..NRows)
    BY <1>1
  <2> QED BY <1>2, <2>1, AlignmentIs, Sizes
<1>6. ASSUME NEW f \in avail, NEW i \in 1..NRows, Series(f) = k.series,
             Exif(f) - ShotAt(1, i) = k.off
      PROVE  /\ i = NRows => k.off <= Clock(cam)
             /\ i = 1 => k.off >= Clock(cam)
  <2>1. f \in File /\ f.body = cam /\ f.run = 1 /\ f.shot \in 1..NRows
    <3>1. f \in Cards /\ f \in File /\ f.body = cam
      BY <1>1, <1>2, <1>6 DEF OwnThere, Of
    <3>2. f.run \in {1, 2} /\ f.shot \in 0..NRows /\ f.run <= 1 /\ f.shot # 0
      BY <3>1, FileIs DEF Cards
    <3> QED BY <1>5, <3>1, <3>2
  <2>2. k.off - Clock(cam) = ShotAt(1, f.shot) - ShotAt(1, i)
        /\ ShotAt(1, f.shot) \in Int /\ ShotAt(1, i) \in Int
    <3>1. i \in 0..NRows /\ f.shot \in 0..NRows
      BY <1>5, <2>1
    <3>2. ShotAt(1, f.shot) \in Int /\ ShotAt(1, i) \in Int
      BY <3>1, Separated
    <3>3. Exif(f) = ShotAt(1, f.shot) + Clock(cam)
      BY <1>6, <2>1, FileIs
    <3> QED BY <1>5, <1>6, <3>2, <3>3
  <2>3. ASSUME i = NRows PROVE ShotAt(1, f.shot) <= ShotAt(1, i)
    <3>1. i \in 0..NRows /\ f.shot \in 0..NRows /\ f.shot <= i
      BY <1>5, <2>1, <2>3
    <3> QED BY <3>1, Separated
  <2>4. ASSUME i = 1 PROVE ShotAt(1, i) <= ShotAt(1, f.shot)
    <3>1. i \in 0..NRows /\ f.shot \in 0..NRows /\ i <= f.shot
      BY <1>5, <2>1, <2>4
    <3> QED BY <3>1, Separated
  <2> QED BY <1>5, <2>2, <2>3, <2>4
<1>7. ASSUME NEW last \in 1..NRows,
             \A f \in avail, i \in 1..NRows :
                Series(f) = k.series /\ Exif(f) - ShotAt(1, i) = k.off => i # last
      PROVE  FALSE
  <2> DEFINE over == (1..NRows) \ {last}
  <2>1. Cardinality(over) = NRows - 1
    <3>1. Cardinality((1..NRows) \ {last}) = Cardinality(1..NRows) - 1
      BY <1>3, FS_RemoveElement
    <3> QED BY <1>3, <3>1
  <2>2. Count(1, rows, avail, k) <= Cardinality(over) /\ Count(1, rows, avail, k) \in Nat
    <3>1. \A f \in avail, i \in rows :
              Series(f) = k.series /\ Exif(f) - ShotAt(1, i) = k.off => i \in over
      BY <1>1, <1>7
    <3>2. /\ over \in SUBSET (1..NRows) /\ rows \in SUBSET (1..NRows)
          /\ Of(cam, 1, rows, avail, k)
      BY <1>1
    <3> HIDE DEF over, rows
    <3> QED BY <1>2, <3>1, <3>2, CountAtMost
  <2> HIDE DEF over
  <2> QED BY <1>4, <1>5, <2>1, <2>2
<1>8. k.off = Clock(cam)
  <2>1. CASE k.off > Clock(cam)
    <3>1. NRows \in 1..NRows
      BY <1>5
    <3>2. \A f \in avail, i \in 1..NRows :
              Series(f) = k.series /\ Exif(f) - ShotAt(1, i) = k.off => i # NRows
      BY <1>5, <1>6, <2>1
    <3> QED BY <1>7, <3>1, <3>2
  <2>2. CASE k.off < Clock(cam)
    <3>1. 1 \in 1..NRows
      BY <1>5
    <3>2. \A f \in avail, i \in 1..NRows :
              Series(f) = k.series /\ Exif(f) - ShotAt(1, i) = k.off => i # 1
      BY <1>5, <1>6, <2>2
    <3> QED BY <1>7, <3>1, <3>2
  <2> QED BY <1>5, <2>1, <2>2
<1>9. rows \in SUBSET (1..NRows)
  BY <1>1
<1>10. -Period < k.off - Clock(cam) /\ k.off - Clock(cam) < Period
  BY <1>5, <1>8
<1> QED BY <1>2, <1>9, <1>10, AlignmentIs

-----------------------------------------------------------------------------
\* Each body has its own names, or there is one body only.
NamesTell == scene.dir # "both" \/ scene.setup.prefix[1] # scene.setup.prefix[2]

LEMMA SeriesTells ==
  ASSUME Recognisable, SceneOK, NamesTell, NEW cam \in {1, 2}, cam \in Bodies(scene.dir),
         NEW f \in Cards, Series(f) = scene.setup.prefix[cam]
  PROVE  f.body = cam
<1>1. f.body \in {1, 2} /\ f.body \in Bodies(scene.dir)
  BY DEF Cards, File, Cameras
<1>2. CASE scene.dir # "both"
  BY <1>1, <1>2 DEF Bodies
<1>3. CASE scene.setup.prefix[1] # scene.setup.prefix[2]
  BY <1>1, <1>3 DEF Series
<1> QED BY <1>2, <1>3 DEF NamesTell

\* An offset within the journal's reach is of the body that the journal is of.
LEMMA NearIsOwn ==
  ASSUME CardMatchAssumption, SceneOK, ClocksApart, NEW cam \in {1, 2}, NEW run \in {1, 2},
         NEW rows \in SUBSET (1..NRows), NEW avail \in SUBSET File, NEW k,
         OffBy(k.off, Clock(cam) + JournalError) <= JournalReach
  PROVE  Of(cam, run, rows, avail, k)
<1> SUFFICES ASSUME NEW f \in avail, NEW i \in rows, Exif(f) - ShotAt(run, i) = k.off,
                    f.body # cam
             PROVE  FALSE
  BY DEF Of
<1>1. /\ f.body \in {1, 2} /\ f.run \in {1, 2} /\ f.shot \in 0..NRows
      /\ Exif(f) = ShotAt(f.run, f.shot) + Clock(f.body)
      /\ Clock(1) \in Int /\ Clock(2) \in Int
  BY FileIs, SetupIs
<1>2. i \in 0..NRows
  <2>1. i \in 1..NRows
    OBVIOUS
  <2> QED BY <2>1, Sizes
<1>3. /\ ShotAt(run, i) \in Int /\ ShotAt(f.run, f.shot) \in Int
      /\ -Spread < ShotAt(f.run, f.shot) - ShotAt(run, i)
      /\ ShotAt(f.run, f.shot) - ShotAt(run, i) < Spread
  BY <1>1, <1>2, Separated
<1>4. /\ k.off \in Int /\ k.off - Clock(f.body) = ShotAt(f.run, f.shot) - ShotAt(run, i)
  BY <1>1, <1>3
<1>5. JournalError \in Nat /\ JournalReach \in Nat /\ Spread \in Int
  BY Sizes DEF JournalReach, Spread
<1>6. /\ k.off - (Clock(cam) + JournalError) <= JournalReach
      /\ (Clock(cam) + JournalError) - k.off <= JournalReach
  BY <1>1, <1>4, <1>5 DEF OffBy
<1>7. \/ Clock(1) - Clock(2) > Spread + JournalReach + JournalError
      \/ Clock(2) - Clock(1) > Spread + JournalReach + JournalError
  <2>1. OffBy(Clock(1), Clock(2)) > Spread + JournalReach + JournalError
    BY DEF ClocksApart, Spread
  <2> QED BY <1>1, <2>1 DEF OffBy
<1>8. CASE cam = 1
  <2>1. f.body = 2
    BY <1>1, <1>8
  <2> QED BY <1>1, <1>3, <1>4, <1>5, <1>6, <1>7, <1>8, <2>1
<1>9. CASE cam = 2
  <2>1. f.body = 1
    BY <1>1, <1>9
  <2> QED BY <1>1, <1>3, <1>4, <1>5, <1>6, <1>7, <1>9, <2>1
<1> QED BY <1>8, <1>9

\* What a pass by time finds is the true offset, or a refusal.
LEMMA TimeIs ==
  ASSUME CardMatchAssumption, Recognisable, SceneOK, Few, BodiesAreTold, NEW run \in {1, 2},
         run <= scene.runs, NEW cam \in {1, 2}, cam \in Bodies(scene.dir),
         NEW avail, OwnThere(run, cam, avail), NEW waiting
  PROVE  /\ ByTime(run, cam, avail, waiting) # NoOffset =>
               /\ ByTime(run, cam, avail, waiting).series = scene.setup.prefix[cam]
               /\ ByTime(run, cam, avail, waiting).off \in Int
               /\ cam \in scene.journal \/ scene.runs = 1 =>
                     ByTime(run, cam, avail, waiting) = Truth(cam)
         /\ /\ scene.flaws = {}
            /\ Journalled(cam) \/ (DirCamera = cam /\ scene.runs = 1)
            => ByTime(run, cam, avail, waiting) # NoOffset
<1> DEFINE rows == Rows(run, cam)
           soleOk == waiting = {}
           known == cam \in scene.journal
           expect == Clock(cam) + JournalError
           all == Alignments(run, rows, avail)
           near == {k \in all : known /\ OffBy(k.off, expect) <= JournalReach}
           cands == IF near # {} THEN near ELSE all
           n(k) == Count(run, rows, avail, k)
           top == Max({n(k) : k \in cands})
           best == {k \in cands : n(k) = top}
           close == {k \in cands : 10 * n(k) >= 8 * top}
           tie == \E j, k \in best : /\ j.series = k.series
                                     /\ OffBy(j.off, k.off) >= 2
           nearest == CHOOSE k \in close :
                          \A j \in close : OffBy(k.off, expect) <= OffBy(j.off, expect)
           result == ByTime(run, cam, avail, waiting)
           barred == ~Attributed(Cardinality({k.series : k \in cands}) > 1, near # {},
                                 DirCamera = cam, soleOk)
           some == CHOOSE k \in best : TRUE
<1>1. result = IF all = {} THEN NoOffset ELSE IF barred THEN NoOffset
               ELSE IF known THEN nearest ELSE IF tie THEN NoOffset ELSE some
  BY DEF ByTime
<1>2. rows \in SUBSET (1..NRows) /\ avail \in SUBSET File
  BY RowsAre DEF OwnThere, Cards
<1>3. /\ Truth(cam) \in all /\ n(Truth(cam)) \in Nat /\ n(Truth(cam)) >= NRows - 1
  BY TruthCounts
<1>4. known => Truth(cam) \in near
  <2>1. Clock(cam) \in Int /\ JournalError \in Nat /\ JournalError <= JournalReach
    BY Sizes, SetupIs DEF Recognisable
  <2>2. OffBy(Clock(cam), expect) <= JournalReach
    BY <2>1 DEF OffBy
  <2> HIDE DEF all, known
  <2> QED BY <1>3, <2>2 DEF Truth
<1>5. /\ cands \subseteq all /\ Truth(cam) \in cands
      /\ ~known => cands = all /\ near = {}
  <2> HIDE DEF all, known, expect
  <2> QED BY <1>3, <1>4
<1>6. \A k \in cands : k.series \in {1, 2} /\ n(k) \in 0..Cardinality(File)
  <2>1. ASSUME NEW k \in all PROVE k.series \in {1, 2}
    BY <1>2, <2>1, AlignmentOf
  <2>2. ASSUME NEW k \in all PROVE n(k) \in 0..Cardinality(File)
    BY <1>2, CountIs
  <2> HIDE DEF all, cands, n
  <2> QED BY <1>5, <2>1, <2>2
<1>7. ASSUME ~barred
      PROVE  \A k \in cands : /\ k \in all /\ k.series = scene.setup.prefix[cam]
                              /\ Of(cam, run, rows, avail, k)
  <2>1. CASE NamesTell
    <3>1. \A k \in cands : k.series = scene.setup.prefix[cam]
      <4>1. CASE scene.dir # "both"
        <5>1. \A f \in avail : f.body = cam
          <6>1. scene.dir \in {"cam1", "cam2"}
            BY <4>1 DEF Recognisable, SceneOK
          <6> QED BY <6>1 DEF OwnThere, Cards, Bodies
        <5>2. \A f \in avail : Series(f) = scene.setup.prefix[cam]
          BY <5>1 DEF Series
        <5>3. \A k \in all : k.series = scene.setup.prefix[cam]
          <6>1. ASSUME NEW k \in all PROVE k.series = scene.setup.prefix[cam]
            <7> HIDE DEF rows
            <7> QED BY <1>2, <5>2, <6>1, AlignmentOf
          <6> QED BY <6>1
        <5> HIDE DEF all, cands
        <5> QED BY <1>5, <5>3
      <4>2. CASE scene.dir = "both"
        <5> DEFINE S == {k.series : k \in cands}
        <5>1. DirCamera # cam
          BY <4>2 DEF DirCamera
        <5>2. ~(Cardinality(S) > 1)
          BY <1>7, <5>1 DEF Attributed
        <5>3. S \in SUBSET {1, 2}
          BY <1>6
        <5>4. scene.setup.prefix[cam] \in S
          <6>1. Truth(cam).series = scene.setup.prefix[cam]
            BY DEF Truth
          <6> HIDE DEF cands
          <6> QED BY <1>5, <6>1
        <5>5. S = {scene.setup.prefix[cam]}
          <6> HIDE DEF S
          <6> QED BY <5>2, <5>3, <5>4, OnlyOne
        <5> HIDE DEF cands
        <5> QED BY <5>5
      <4> QED BY <4>1, <4>2
    <3>2. \A f \in avail : Series(f) = scene.setup.prefix[cam] => f.body = cam
      BY <2>1, SeriesTells DEF OwnThere
    <3> HIDE DEF cands, all
    <3> QED BY <1>5, <3>1, <3>2 DEF Of
  <2>2. CASE ~NamesTell
    <3>1. scene.journal = Cameras /\ ClocksApart
      BY <2>2 DEF BodiesAreTold, NamesTell
    <3>2. known /\ cands = near
      <4>1. known
        BY <3>1 DEF Cameras
      <4> HIDE DEF all, known
      <4> QED BY <1>4, <4>1
    <3>3. ASSUME NEW k \in near
          PROVE  k \in all /\ k.series = scene.setup.prefix[cam] /\ Of(cam, run, rows, avail, k)
      <4>1. k \in all /\ OffBy(k.off, expect) <= JournalReach
        OBVIOUS
      <4>2. Of(cam, run, rows, avail, k)
        <5> HIDE DEF rows
        <5> QED BY <1>2, <3>1, <4>1, NearIsOwn
      <4> HIDE DEF rows
      <4> QED BY <1>2, <4>1, <4>2, AlignmentIs
    <3> HIDE DEF cands, near
    <3> QED BY <3>2, <3>3
  <2> QED BY <2>1, <2>2
<1>8. top \in {n(k) : k \in cands} /\ \A k \in cands : n(k) <= top
  <2> DEFINE counts == {n(k) : k \in cands}
  <2>1. counts \in SUBSET (0..Cardinality(File)) /\ counts # {}
    <3> HIDE DEF n, cands
    <3> QED BY <1>5, <1>6
  <2>2. Max(counts) \in counts /\ \A x \in counts : Max(counts) >= x
    <3>1. Cardinality(File) \in Nat
      BY <1>2, CountIs
    <3> HIDE DEF counts
    <3> QED BY <2>1, <3>1, GreatestOf
  <2> HIDE DEF n, cands
  <2> QED BY <2>2
<1>9. ASSUME known, ~barred PROVE result = Truth(cam)
  <2>1. top \in Int /\ top <= NRows
    <3>1. PICK k \in cands : top = n(k)
      <4> HIDE DEF n, cands, top
      <4> QED BY <1>8
    <3>2. Of(cam, run, rows, avail, k)
      <4> HIDE DEF cands, all, barred
      <4> QED BY <1>7, <1>9
    <3>3. n(k) \in Nat /\ n(k) <= Cardinality(rows) /\ Cardinality(rows) <= NRows
          /\ Cardinality(rows) \in Nat
      <4>1. Cardinality(rows) \in 0..NRows
        BY RowsAre
      <4>2. \A f \in avail, i \in rows :
               Series(f) = k.series /\ Exif(f) - ShotAt(run, i) = k.off => i \in rows
        OBVIOUS
      <4>3. Count(run, rows, avail, k) \in Nat /\ Count(run, rows, avail, k) <= Cardinality(rows)
        <5> HIDE DEF rows, cands, near, all, known
        <5> QED BY <1>2, <3>2, <4>2, CountAtMost
      <4> HIDE DEF rows
      <4> QED BY <4>1, <4>3
    <3> HIDE DEF n, cands, top, rows
    <3> QED BY <3>1, <3>3, Sizes
  <2>2. Truth(cam) \in close
    <3>1. NRows \in Nat /\ NRows >= 5
      BY Sizes DEF Recognisable
    <3>2. 10 * n(Truth(cam)) >= 8 * top
      <4> HIDE DEF n, top
      <4> QED BY <1>3, <2>1, <3>1
    <3> HIDE DEF n, top, cands
    <3> QED BY <1>5, <3>2
  <2>3. close \in SUBSET all /\ \A k \in close : Of(cam, run, rows, avail, k)
    <3> HIDE DEF n, top, cands, all, barred
    <3> QED BY <1>5, <1>7, <1>9
  <2>4. nearest = Truth(cam)
    <3> DEFINE nearer(k) == \A j \in close : OffBy(k.off, expect) <= OffBy(j.off, expect)
    <3>1. \A k \in close : nearer(k) <=> k = Truth(cam)
      <4>1. ASSUME NEW k \in close
            PROVE  /\ k.off \in Int
                   /\ -Period < k.off - Clock(cam) /\ k.off - Clock(cam) < Period
                         => k = Truth(cam)
        <5>1. k \in all /\ Of(cam, run, rows, avail, k)
          BY <2>3
        <5> HIDE DEF rows, close
        <5> QED BY <1>2, <5>1, AlignmentIs
      <4> HIDE DEF close
      <4> QED BY <2>2, <4>1, JournalPicks
    <3>2. nearest = CHOOSE k \in close : nearer(k)
      OBVIOUS
    <3> HIDE DEF nearest, nearer, close
    <3> QED BY <2>2, <3>1, <3>2
  <2> HIDE DEF nearest, result, best, all, barred, tie, some, known
  <2> QED BY <1>1, <1>3, <1>9, <2>4
<1>10. ASSUME ~known, ~barred, ~tie
       PROVE  /\ result \in best /\ result.series = scene.setup.prefix[cam]
              /\ result.off \in Int
              /\ scene.runs = 1 => result = Truth(cam)
  <2>1. \E k \in cands : n(k) = top
    <3> HIDE DEF n, cands, top
    <3> QED BY <1>8
  <2>2. result \in best
    <3>1. best # {}
      <4> HIDE DEF n, cands, top
      <4> QED BY <2>1
    <3> HIDE DEF nearest, result, best, all, barred, tie, known
    <3> QED BY <1>1, <1>3, <1>10, <3>1
  <2>3. /\ result \in cands /\ result \in all /\ result.series = scene.setup.prefix[cam]
        /\ n(result) = top /\ Of(cam, run, rows, avail, result)
    <3> HIDE DEF result, n, cands, top, all, barred
    <3> QED BY <1>5, <1>7, <1>10, <2>2
  <2>5. result.off \in Int /\ Clock(cam) \in Int
    <3> HIDE DEF result, rows
    <3> QED BY <1>2, <2>3, AlignmentIs DEF rows
  <2>4. ASSUME scene.runs = 1 PROVE result = Truth(cam)
    <3>1. run = 1
      BY <2>4
    <3>2. n(Truth(cam)) = top
      <4>1. n(result) <= n(Truth(cam))
        <5> HIDE DEF result, rows
        <5> QED BY <2>3, <2>4, <3>1, TruthIsBest DEF rows
      <4>2. Cardinality(File) \in Nat
        BY <1>2, CountIs
      <4> HIDE DEF result, n, cands, top
      <4> QED BY <1>3, <1>5, <1>6, <1>8, <2>3, <4>1, <4>2
    <3>3. Truth(cam) \in best
      <4> HIDE DEF n, cands, top
      <4> QED BY <1>5, <3>2
    <3>4. ~tie
      BY <1>10
    <3>5. ~(OffBy(result.off, Clock(cam)) >= 2)
      <4>1. Truth(cam).series = result.series /\ Truth(cam).off = Clock(cam)
        BY <2>3 DEF Truth
      <4> HIDE DEF result, best
      <4> QED BY <2>2, <3>3, <3>4, <4>1
    <3>6. result.off \in Int /\ Clock(cam) \in Int /\ Period >= 2 /\ Period \in Int
      BY <2>5, Sizes DEF Recognisable
    <3>7. -Period < result.off - Clock(cam) /\ result.off - Clock(cam) < Period
      <4> HIDE DEF result
      <4>1. /\ OffBy(result.off, Clock(cam)) \in Nat
            /\ OffBy(result.off, Clock(cam)) >= result.off - Clock(cam)
            /\ OffBy(result.off, Clock(cam)) >= Clock(cam) - result.off
        BY <3>6, OffIs
      <4> QED BY <3>5, <3>6, <4>1
    <3> HIDE DEF result, rows
    <3> QED BY <1>2, <2>3, <3>7, AlignmentIs
  <2> QED BY <2>2, <2>3, <2>4, <2>5
<1>11. ASSUME result # NoOffset PROVE ~barred /\ (known \/ ~tie)
  <2> HIDE DEF nearest, result, best, all, barred, tie, some, known
  <2> QED BY <1>1, <1>11
<1>12. ASSUME scene.flaws = {}, Journalled(cam) \/ (DirCamera = cam /\ scene.runs = 1)
       PROVE  result # NoOffset
  <2>1. ~barred
    <3>1. CASE DirCamera = cam
      BY <3>1 DEF Attributed
    <3>2. CASE DirCamera # cam
      <4>0. known /\ ClocksApart
        BY <1>12, <3>2 DEF Journalled
      <4>1. ASSUME NEW k \in near PROVE k.series = scene.setup.prefix[cam]
        <5>1. k \in all /\ OffBy(k.off, expect) <= JournalReach
          OBVIOUS
        <5>2. Of(cam, run, rows, avail, k)
          <6> HIDE DEF rows
          <6> QED BY <1>2, <4>0, <5>1, NearIsOwn
        <5> HIDE DEF rows
        <5> QED BY <1>2, <5>1, <5>2, AlignmentIs
      <4>2. near # {} /\ cands = near
        <5> HIDE DEF known, all
        <5> QED BY <1>4, <4>0
      <4>3. {k.series : k \in cands} = {scene.setup.prefix[cam]}
        <5> HIDE DEF near, cands
        <5> QED BY <4>1, <4>2
      <4>4. Cardinality({k.series : k \in cands}) = 1
        BY <4>3, FS_Singleton
      <4> HIDE DEF near, cands
      <4> QED BY <4>2, <4>4 DEF Attributed
    <3> QED BY <3>1, <3>2
  <2>2. ASSUME ~known PROVE ~tie
    <3>1. scene.runs = 1 /\ run = 1
      BY <1>12, <2>2 DEF Journalled
    <3>2. ASSUME NEW k \in best PROVE k = Truth(cam)
      <4>1. /\ k \in all /\ Of(cam, run, rows, avail, k)
            /\ n(k) >= n(Truth(cam))
        <5> HIDE DEF n, cands, top, all, barred
        <5> QED BY <1>5, <1>7, <1>8, <2>1
      <4> QED BY <1>12, <3>1, <4>1, OnlyTruthFits
    <3>3. Clock(cam) \in Int
      BY SetupIs
    <3> HIDE DEF best
    <3> QED BY <3>2, <3>3 DEF Truth, OffBy
  <2>3. result.series = scene.setup.prefix[cam]
    <3> HIDE DEF result, tie, known, barred, best
    <3> QED BY <1>9, <1>10, <2>1, <2>2 DEF Truth
  <2>4. scene.setup.prefix[cam] # NoOffset.series
    BY SetupIs DEF NoOffset
  <2> HIDE DEF result
  <2> QED BY <2>3, <2>4
<1>13. ASSUME result # NoOffset
       PROVE  /\ result.series = scene.setup.prefix[cam] /\ result.off \in Int
              /\ known \/ scene.runs = 1 => result = Truth(cam)
  <2>1. Clock(cam) \in Int
    BY SetupIs
  <2> HIDE DEF result, tie, known, barred, best
  <2> QED BY <1>9, <1>10, <1>11, <1>13, <2>1 DEF Truth
<1> QED BY <1>12, <1>13

\* With neither the journal nor, it may be, all of its files: a body of its own,
\* or what is left over.
LEMMA LeftOver ==
  ASSUME CardMatchAssumption, SceneOK, NEW run \in {1, 2}, NEW cam \in {1, 2}, cam \notin scene.journal,
         NEW avail, avail \subseteq Cards, NEW waiting,
         ByTime(run, cam, avail, waiting) # NoOffset
  PROVE  /\ ByTime(run, cam, avail, waiting).series \in {1, 2}
         /\ ByTime(run, cam, avail, waiting).off \in Int
         /\ waiting # {} => ByTime(run, cam, avail, waiting).series = scene.setup.prefix[cam]
<1> DEFINE rows == Rows(run, cam)
           soleOk == waiting = {}
           known == cam \in scene.journal
           expect == Clock(cam) + JournalError
           all == Alignments(run, rows, avail)
           near == {k \in all : known /\ OffBy(k.off, expect) <= JournalReach}
           cands == IF near # {} THEN near ELSE all
           n(k) == Count(run, rows, avail, k)
           top == Max({n(k) : k \in cands})
           best == {k \in cands : n(k) = top}
           close == {k \in cands : 10 * n(k) >= 8 * top}
           tie == \E j, k \in best : /\ j.series = k.series
                                     /\ OffBy(j.off, k.off) >= 2
           nearest == CHOOSE k \in close :
                          \A j \in close : OffBy(k.off, expect) <= OffBy(j.off, expect)
           result == ByTime(run, cam, avail, waiting)
           barred == ~Attributed(Cardinality({k.series : k \in cands}) > 1, near # {},
                                 DirCamera = cam, soleOk)
           some == CHOOSE k \in best : TRUE
<1>1. result = IF all = {} THEN NoOffset ELSE IF barred THEN NoOffset
               ELSE IF known THEN nearest ELSE IF tie THEN NoOffset ELSE some
  BY DEF ByTime
<1>2. near = {} /\ cands = all /\ all # {} /\ ~barred /\ result = some
  <2>1. ~known /\ near = {} /\ cands = all
    <3> HIDE DEF all, expect
    <3> QED OBVIOUS
  <2>2. result # NoOffset
    OBVIOUS
  <2> HIDE DEF all, barred, tie, some, result, cands, near, known, nearest
  <2> QED BY <1>1, <2>1, <2>2
<1>3. rows \in SUBSET (1..NRows) /\ avail \in SUBSET File
  BY RowsAre DEF Cards
<1>4. \A k \in all : k.series \in {1, 2} /\ k.off \in Int /\ n(k) \in 0..Cardinality(File)
  <2>1. ASSUME NEW k \in all PROVE k.series \in {1, 2} /\ k.off \in Int
    BY <1>3, <2>1, AlignmentType
  <2>2. ASSUME NEW k \in all PROVE n(k) \in 0..Cardinality(File)
    BY <1>3, CountIs
  <2> HIDE DEF all, n
  <2> QED BY <2>1, <2>2
<1>5. top \in {n(k) : k \in cands}
  <2> DEFINE counts == {n(k) : k \in cands}
  <2>1. counts \in SUBSET (0..Cardinality(File)) /\ counts # {}
    <3> HIDE DEF n, cands, all
    <3> QED BY <1>2, <1>4
  <2>2. Max(counts) \in counts
    <3>1. Cardinality(File) \in Nat
      BY <1>3, CountIs
    <3> HIDE DEF counts
    <3> QED BY <2>1, <3>1, GreatestOf
  <2> HIDE DEF n, cands, all
  <2> QED BY <2>2
<1>6. result \in all
  <2>1. best # {}
    <3> HIDE DEF n, cands, all, top
    <3> QED BY <1>5
  <2>2. some \in best
    <3> HIDE DEF best
    <3> QED BY <2>1
  <2> HIDE DEF n, cands, all, top, result, some
  <2> QED BY <1>2, <2>2
<1>7. DirCamera = cam \/ soleOk
  <2> HIDE DEF all, cands, near
  <2> QED BY <1>2 DEF Attributed
<1>8. ASSUME DirCamera = cam PROVE result.series = scene.setup.prefix[cam]
  <2>1. \A f \in avail : f.body = cam
    BY <1>8 DEF DirCamera, Cards, Bodies
  <2>2. \A f \in avail : Series(f) = scene.setup.prefix[cam]
    BY <2>1 DEF Series
  <2>3. ASSUME NEW k \in all PROVE k.series = scene.setup.prefix[cam]
    <3> HIDE DEF rows
    <3> QED BY <1>3, <2>2, AlignmentOf
  <2> HIDE DEF all, result
  <2> QED BY <1>6, <2>3
<1>9. result.series = scene.setup.prefix[cam] \/ soleOk
  BY <1>7, <1>8
<1>10. result.series \in {1, 2} /\ result.off \in Int
  <2> HIDE DEF all, result
  <2> QED BY <1>4, <1>6
<1> QED BY <1>9, <1>10

LEMMA EndIs ==
  ASSUME NEW S \in SUBSET Int, NEW c \in S
  PROVE  /\ (\A v \in S : c <= v) => Min(S) = c
         /\ (\A v \in S : v <= c) => Max(S) = c
<1>1. ASSUME \A v \in S : c <= v PROVE Min(S) = c
  <2>1. Min(S) \in S /\ \A y \in S : Min(S) <= y
    BY <1>1 DEF Min
  <2>2. Min(S) <= c /\ c <= Min(S) /\ Min(S) \in Int /\ c \in Int
    BY <1>1, <2>1
  <2> QED BY <2>2
<1>2. ASSUME \A v \in S : v <= c PROVE Max(S) = c
  <2>1. \A y \in S : c >= y
    BY <1>2
  <2>2. Max(S) \in S /\ \A y \in S : Max(S) >= y
    BY <2>1 DEF Max
  <2>3. Max(S) <= c /\ c <= Max(S) /\ Max(S) \in Int /\ c \in Int
    BY <1>2, <2>2
  <2> QED BY <2>3
<1> QED BY <1>1, <1>2

\* What more than half of the values are is in the middle of them.
LEMMA MedianIs ==
  ASSUME NEW I, IsFiniteSet(I), NEW c \in Int, NEW d, \A i \in I : d[i] \in Int,
         2 * Cardinality({i \in I : d[i] = c}) > Cardinality(I)
  PROVE  Median(I, d) = c
<1> DEFINE A == {i \in I : d[i] = c}
           values == {d[i] : i \in I}
           below(v) == {i \in I : d[i] <= v}
           above(v) == {i \in I : d[i] >= v}
           lows == {v \in values : 2 * Cardinality(below(v)) >= Cardinality(I)}
           highs == {v \in values : 2 * Cardinality(above(v)) >= Cardinality(I)}
<1>1. ASSUME NEW T \in SUBSET I
      PROVE  IsFiniteSet(T) /\ Cardinality(T) \in Nat /\ Cardinality(T) <= Cardinality(I)
  BY FS_Subset, FS_CardinalityType
<1>2. A \in SUBSET I /\ Cardinality(I) \in Nat /\ Cardinality(A) \in Nat
      /\ 2 * Cardinality(A) > Cardinality(I)
  <2>1. A \in SUBSET I
    OBVIOUS
  <2>2. Cardinality(I) \in Nat /\ Cardinality(A) \in Nat
    <3> HIDE DEF A
    <3> QED BY <1>1, <2>1, FS_CardinalityType
  <2> QED BY <2>1, <2>2
<1>3. c \in values /\ values \subseteq Int
  <2>1. A # {}
    <3> HIDE DEF A
    <3> QED BY <1>2, FS_EmptySet
  <2> QED BY <2>1
<1>4. ASSUME NEW T \in SUBSET I, A \subseteq T PROVE 2 * Cardinality(T) >= Cardinality(I)
  <2> HIDE DEF A
  <2>1. Cardinality(A) <= Cardinality(T) /\ Cardinality(T) \in Nat
    BY <1>1, <1>4, FS_Subset
  <2> QED BY <1>2, <2>1
<1>5. ASSUME NEW T \in SUBSET I, A \cap T = {} PROVE ~(2 * Cardinality(T) >= Cardinality(I))
  <2> HIDE DEF A
  <2> DEFINE rest == I \ A
  <2>1. Cardinality(rest) = Cardinality(I) - Cardinality(A)
    <3>1. Cardinality(I \ A) = Cardinality(I) - Cardinality(I \cap A)
      BY FS_Difference
    <3>2. I \cap A = A
      BY <1>2
    <3> QED BY <3>1, <3>2
  <2>2. rest \in SUBSET I /\ T \in SUBSET rest
    BY <1>5
  <2> HIDE DEF rest, lows, highs, values, below, above
  <2>3. IsFiniteSet(rest)
    BY <1>1, <2>2
  <2>4. Cardinality(T) <= Cardinality(rest) /\ Cardinality(T) \in Nat
    <3>1. Cardinality(T) <= Cardinality(rest)
      BY <2>2, <2>3, FS_Subset
    <3> QED BY <1>1, <3>1
  <2> QED BY <1>2, <2>1, <2>4
<1>6. c \in lows /\ \A v \in lows : c <= v
  <2>1. below(c) \in SUBSET I /\ A \subseteq below(c)
    OBVIOUS
  <2>2. 2 * Cardinality(below(c)) >= Cardinality(I)
    <3> HIDE DEF A, below
    <3> QED BY <1>4, <2>1
  <2>3. ASSUME NEW v \in lows PROVE c <= v
    <3>1. SUFFICES ASSUME v < c PROVE FALSE
      BY <1>3
    <3>2. below(v) \in SUBSET I /\ A \cap below(v) = {}
      <4>1. v \in Int
        BY <1>3
      <4> QED BY <3>1, <4>1
    <3>3. 2 * Cardinality(below(v)) >= Cardinality(I)
      OBVIOUS
    <3> HIDE DEF A, below, lows
    <3> QED BY <1>5, <3>2, <3>3
  <2> HIDE DEF A, below, values
  <2> QED BY <1>3, <2>2, <2>3
<1>7. c \in highs /\ \A v \in highs : v <= c
  <2>1. above(c) \in SUBSET I /\ A \subseteq above(c)
    OBVIOUS
  <2>2. 2 * Cardinality(above(c)) >= Cardinality(I)
    <3> HIDE DEF A, above
    <3> QED BY <1>4, <2>1
  <2>3. ASSUME NEW v \in highs PROVE v <= c
    <3>1. SUFFICES ASSUME v > c PROVE FALSE
      BY <1>3
    <3>2. above(v) \in SUBSET I /\ A \cap above(v) = {}
      <4>1. v \in Int
        BY <1>3
      <4> QED BY <3>1, <4>1
    <3>3. 2 * Cardinality(above(v)) >= Cardinality(I)
      OBVIOUS
    <3> HIDE DEF A, above, highs
    <3> QED BY <1>5, <3>2, <3>3
  <2> HIDE DEF A, above, values
  <2> QED BY <1>3, <2>2, <2>3
<1>8. lows \subseteq Int /\ highs \subseteq Int
  <2> HIDE DEF below, above, values
  <2> QED BY <1>3
<1>9. Min(lows) = c /\ Max(highs) = c
  <2> HIDE DEF lows, highs
  <2> QED BY <1>6, <1>7, <1>8, EndIs
<1>10. Median(I, d) = (Min(lows) + Max(highs)) \div 2
  BY DEF Median
<1> HIDE DEF lows, highs
<1>11. Median(I, d) = (c + c) \div 2
  BY <1>9, <1>10
<1> QED BY <1>11

LEMMA ButOne ==
  ASSUME CardMatchAssumption, NEW j \in 1..NRows
  PROVE  Cardinality((1..NRows) \ {j}) = NRows - 1
<1>1. IsFiniteSet(1..NRows) /\ Cardinality(1..NRows) = NRows
  BY AllRows
<1>2. Cardinality((1..NRows) \ {j}) = Cardinality(1..NRows) - 1
  BY <1>1, FS_RemoveElement
<1> QED BY <1>1, <1>2

LEMMA LeastNumber ==
  ASSUME NEW n \in Nat
  PROVE  AtLeast(n, 3) \in Int /\ AtLeast(n, 3) >= 3
<1>1. Share(n) \in Int
  BY DEF Share
<1>2. Max({3, Share(n)}) = IF 3 >= Share(n) THEN 3 ELSE Share(n)
  <2> HIDE DEF Share
  <2> QED BY <1>1, MinOfTwo
<1> QED BY <1>1, <1>2 DEF AtLeast

\* The file that bears a row's number: its own, if the row is not misnumbered.
LEMMA BearerIs ==
  ASSUME CardMatchAssumption, SceneOK, NEW run \in {1, 2}, NEW cam \in {1, 2},
         NEW avail \in SUBSET Cards, NEW s, NEW i \in Borne(run, cam, avail, s)
  PROVE  /\ i \in Rows(run, cam) /\ i \in 1..NRows
         /\ Ahead(run, cam, avail, s)[i] \in Int
         /\ i \notin Misnumbered(run, cam) =>
               s = scene.setup.prefix[cam] /\ Ahead(run, cam, avail, s)[i] = Clock(cam)
<1> DEFINE bearers == Bearers(run, cam, avail, s, i)
           f == CHOOSE g \in bearers : TRUE
<1>1. i \in Rows(run, cam) /\ Cardinality(bearers) = 1
  BY DEF Borne
<1>2. bearers \subseteq File
  BY DEF Bearers, Cards
<1>3. bearers # {}
  <2>1. IsFiniteSet(bearers)
    BY <1>2, FilesAreFinite, FS_Subset
  <2> HIDE DEF bearers
  <2>2. \E x : bearers = {x}
    BY <1>1, <2>1, FS_Singleton
  <2> QED BY <2>2
<1>4. f \in bearers
  <2> HIDE DEF bearers
  <2> QED BY <1>3
<1>5. f \in Cards /\ f \in File /\ Series(f) = s /\ Number(f) = NumberOfRow(run, cam, i)
  <2> HIDE DEF f
  <2> QED BY <1>4 DEF Bearers, Cards
<1>6. Ahead(run, cam, avail, s)[i] = Exif(f) - ShotAt(run, i)
  BY DEF Ahead
<1> HIDE DEF f
<1>7. i \in 1..NRows /\ i \in 0..NRows
  <2>1. i \in 1..NRows
    BY <1>1 DEF Rows
  <2> QED BY <2>1, Sizes
<1>8. Ahead(run, cam, avail, s)[i] \in Int
  BY <1>5, <1>6, <1>7, FileIs, Separated
<1>9. ASSUME i \notin Misnumbered(run, cam)
      PROVE  s = scene.setup.prefix[cam] /\ Ahead(run, cam, avail, s)[i] = Clock(cam)
  <2>1. f = Took(cam, run, i)
    BY <1>1, <1>5, <1>9 DEF Misnumbered, Took
  <2>2. f.body = cam
    BY <2>1 DEF Took
  <2>3. Exif(f) - ShotAt(run, i) = Clock(cam)
    BY <1>5, <1>7, <2>1, <2>2, OverOne
  <2> QED BY <1>5, <1>6, <2>2, <2>3, FileIs
<1> QED BY <1>1, <1>7, <1>8, <1>9

\* What a pass by number finds, where most numbers are right, is the true
\* offset, and it finds it when all of them are.
LEMMA NumberIs ==
  ASSUME CardMatchAssumption, SceneOK, NumbersAreRight, NEW run \in {1, 2},
         run <= scene.runs, NEW cam \in {1, 2}, NEW avail \in SUBSET Cards
  PROVE  /\ ByNumber(run, cam, avail) \in {NoOffset, Truth(cam)}
         /\ /\ Recognisable /\ Few /\ cam \in Bodies(scene.dir) /\ Numbered(cam)
            /\ OwnThere(run, cam, avail)
            => ByNumber(run, cam, avail) = Truth(cam)
<1> DEFINE rows == Rows(run, cam)
           mis == Misnumbered(run, cam)
           p == scene.setup.prefix[cam]
           borne(s) == Borne(run, cam, avail, s)
           ahead(s) == Ahead(run, cam, avail, s)
           many(s) == Cardinality(borne(s))
           least == AtLeast(Cardinality(rows), 3)
           shows == {s \in Cameras : many(s) >= least /\ Tight(borne(s), ahead(s))}
           best == CHOOSE s \in shows :
                      \A t \in shows : many(t) < many(s) \/ (many(t) = many(s) /\ t <= s)
<1>1. ByNumber(run, cam, avail) =
        IF shows = {} THEN NoOffset
        ELSE [series |-> best, off |-> Median(borne(best), ahead(best))]
  BY DEF ByNumber
<1>2. ASSUME NEW T \in SUBSET rows
      PROVE  IsFiniteSet(T) /\ Cardinality(T) \in Nat
  <2>1. IsFiniteSet(rows)
    BY RowsAre
  <2> HIDE DEF rows
  <2> QED BY <2>1, FS_Subset, FS_CardinalityType
<1>3. /\ \A s : borne(s) \in SUBSET rows
      /\ mis \in SUBSET rows
  BY DEF Borne, Misnumbered
<1>4. /\ \A s : IsFiniteSet(borne(s)) /\ many(s) \in Nat
      /\ IsFiniteSet(mis) /\ Cardinality(mis) \in Nat
  <2> HIDE DEF borne, mis, rows
  <2> QED BY <1>2, <1>3
<1>5. /\ \A s : \A i \in borne(s) :
            /\ ahead(s)[i] \in Int
            /\ i \notin mis => s = p /\ ahead(s)[i] = Clock(cam)
      /\ Clock(cam) \in Int /\ p \in {1, 2}
  BY BearerIs, SetupIs
<1>6. 2 * Cardinality(mis) < least /\ least \in Int /\ least >= 3
  <2>1. Cardinality(rows) \in Nat
    BY <1>2
  <2>2. least \in Int /\ least >= 3
    <3> HIDE DEF rows
    <3> QED BY <2>1, LeastNumber
  <2>3. run \in 1..scene.runs /\ cam \in Cameras
    BY DEF SceneOK, Cameras
  <2> QED BY <2>2, <2>3 DEF NumbersAreRight
<1>7. ASSUME NEW s \in shows PROVE s = p
  <2>1. SUFFICES ASSUME s # p PROVE FALSE
    OBVIOUS
  <2>2. borne(s) \subseteq mis /\ many(s) >= least
    <3>1. borne(s) \subseteq mis
      <4> HIDE DEF borne, mis, ahead, p, shows
      <4> QED BY <1>5, <2>1
    <3> HIDE DEF borne, mis
    <3> QED BY <3>1
  <2>3. many(s) <= Cardinality(mis)
    <3> HIDE DEF borne, mis, shows
    <3> QED BY <1>4, <2>2, FS_Subset
  <2> HIDE DEF shows, borne, mis, least, many
  <2> QED BY <1>4, <1>6, <2>2, <2>3
<1>8. ASSUME p \in shows PROVE Median(borne(p), ahead(p)) = Clock(cam)
  <2> DEFINE A == {i \in borne(p) : ahead(p)[i] = Clock(cam)}
  <2>1. borne(p) \ mis \subseteq A
    <3> HIDE DEF borne, mis, ahead, p, shows
    <3> QED BY <1>5
  <2>2. many(p) >= least
    BY <1>8
  <2>3. A \in SUBSET borne(p)
    OBVIOUS
  <2>4. IsFiniteSet(A) /\ Cardinality(A) \in Nat
    <3>1. A \in SUBSET rows
      <4> HIDE DEF A, borne, rows
      <4> QED BY <1>3, <2>3
    <3> HIDE DEF A, rows
    <3> QED BY <1>2, <3>1
  <2> HIDE DEF A
  <2>5. Cardinality(borne(p) \ mis) <= Cardinality(A)
    <3> HIDE DEF borne, mis, p, shows
    <3> QED BY <2>1, <2>4, FS_Subset
  <2>6. /\ Cardinality(borne(p) \ mis) = many(p) - Cardinality(borne(p) \cap mis)
        /\ Cardinality(borne(p) \cap mis) <= Cardinality(mis)
        /\ Cardinality(borne(p) \cap mis) \in Nat
    <3> HIDE DEF borne, mis, p, shows
    <3>1. IsFiniteSet(borne(p)) /\ IsFiniteSet(mis)
      BY <1>4
    <3>2. borne(p) \cap mis \subseteq mis
      OBVIOUS
    <3>3. IsFiniteSet(borne(p) \cap mis)
          /\ Cardinality(borne(p) \cap mis) <= Cardinality(mis)
      BY <3>1, <3>2, FS_Subset
    <3>4. Cardinality(borne(p) \cap mis) \in Nat
      BY <3>3, FS_CardinalityType
    <3>5. Cardinality(borne(p) \ mis) = Cardinality(borne(p)) - Cardinality(borne(p) \cap mis)
      BY <3>1, FS_Difference
    <3> QED BY <3>3, <3>4, <3>5 DEF many
  <2>7. 2 * Cardinality(A) > many(p)
    <3> HIDE DEF borne, mis, p, shows, many, least
    <3> QED BY <1>4, <1>6, <2>2, <2>4, <2>5, <2>6
  <2>8. 2 * Cardinality({i \in borne(p) : ahead(p)[i] = Clock(cam)}) > Cardinality(borne(p))
    BY <2>7 DEF A
  <2>9. \A i \in borne(p) : ahead(p)[i] \in Int
    BY <1>5
  <2> HIDE DEF borne, ahead, p, mis, shows
  <2> QED BY <1>4, <1>5, <2>8, <2>9, MedianIs
<1>9. ASSUME p \in shows PROVE ByNumber(run, cam, avail) = Truth(cam)
  <2>1. shows = {p}
    <3> HIDE DEF shows, p
    <3> QED BY <1>7, <1>9
  <2>2. best = p
    <3>1. /\ p \in shows
          /\ \A t \in shows : many(t) < many(p) \/ (many(t) = many(p) /\ t <= p)
      <4> HIDE DEF shows, p, many
      <4> QED BY <1>5, <2>1
    <3>2. best \in shows
      <4> HIDE DEF shows, p, many
      <4> QED BY <3>1
    <3> HIDE DEF shows, p, many, best
    <3> QED BY <2>1, <3>2
  <2>3. ByNumber(run, cam, avail) = [series |-> p, off |-> Median(borne(p), ahead(p))]
    <3> HIDE DEF shows, best, borne, ahead
    <3> QED BY <1>1, <2>1, <2>2
  <2> QED BY <1>8, <1>9, <2>3 DEF Truth
<1>10. ByNumber(run, cam, avail) \in {NoOffset, Truth(cam)}
  <2> HIDE DEF shows, best, borne, ahead, p
  <2> QED BY <1>1, <1>7, <1>9
<1>11. ASSUME Recognisable, Few, cam \in Bodies(scene.dir), Numbered(cam),
              OwnThere(run, cam, avail)
       PROVE  p \in shows
  <2>1. PICK j \in 1..NRows : \A i \in (1..NRows) \ {j} :
            i \in Rows(run, cam) /\ Took(cam, run, i) \in Cards
    BY <1>11, AllButOne
  <2> DEFINE there == (1..NRows) \ {j}
  <2>2. Cardinality(there) = NRows - 1
    BY ButOne
  <2>3. ASSUME NEW i \in 1..NRows
        PROVE  /\ Number(Took(cam, run, i)) = NumberOfRow(run, cam, i)
               /\ i \notin mis
    <3>1. run \in 1..scene.runs
      BY DEF SceneOK
    <3> QED BY <1>11, <3>1 DEF Numbered, Took
  <2>4. ASSUME NEW i \in there PROVE i \in borne(p)
    <3>1. i \in 1..NRows /\ i \in rows /\ Took(cam, run, i) \in Cards
      BY <2>1
    <3>2. Took(cam, run, i) \in avail /\ Series(Took(cam, run, i)) = p
      BY <1>11, <3>1 DEF OwnThere, Took, Series
    <3>3. Bearers(run, cam, avail, p, i) = {Took(cam, run, i)}
      <4>1. Took(cam, run, i) \in Bearers(run, cam, avail, p, i)
        BY <2>3, <3>1, <3>2 DEF Bearers
      <4>2. ASSUME NEW f \in Bearers(run, cam, avail, p, i) PROVE f = Took(cam, run, i)
        BY <2>3, <3>1 DEF Bearers, Misnumbered, Took
      <4> QED BY <4>1, <4>2
    <3>4. Cardinality(Bearers(run, cam, avail, p, i)) = 1
      BY <3>3, FS_Singleton
    <3> QED BY <3>1, <3>4 DEF Borne
  <2>5. many(p) >= NRows - 1
    <3>1. there \subseteq borne(p)
      <4> HIDE DEF there, borne, p
      <4> QED BY <2>4
    <3> HIDE DEF there, borne, p
    <3> QED BY <1>4, <2>2, <3>1, FS_Subset
  <2>6. many(p) >= least
    <3>1. Cardinality(rows) \in 0..NRows
      BY RowsAre
    <3>2. least <= NRows - 1
      <4> HIDE DEF rows
      <4> QED BY <1>11, <3>1, EnoughIs
    <3> HIDE DEF many, least, p
    <3> QED BY <1>4, <1>6, <2>5, <3>2, Sizes
  <2>7. {ahead(p)[i] : i \in borne(p)} = {Clock(cam)}
    <3>1. borne(p) # {}
      <4>1. 1 \in 1..NRows /\ 2 \in 1..NRows
        BY <1>11, Sizes DEF Recognisable
      <4>2. there # {}
        BY <4>1
      <4> HIDE DEF there, borne, p
      <4> QED BY <2>4, <4>2
    <3>2. \A i \in borne(p) : ahead(p)[i] = Clock(cam)
      <4>1. \A i \in borne(p) : i \notin mis
        <5>1. borne(p) \subseteq 1..NRows
          BY <1>3, RowsAre
        <5> HIDE DEF borne, p, mis
        <5> QED BY <2>3, <5>1
      <4> HIDE DEF borne, p, mis, ahead
      <4> QED BY <1>5, <4>1
    <3> HIDE DEF borne, p, ahead
    <3> QED BY <3>1, <3>2
  <2>8. Tight(borne(p), ahead(p))
    <3>1. Cardinality({ahead(p)[i] : i \in borne(p)}) = 1
      BY <2>7, FS_Singleton
    <3> HIDE DEF borne, p, ahead
    <3> QED BY <3>1 DEF Tight
  <2>9. p \in Cameras
    BY <1>5 DEF Cameras
  <2> HIDE DEF borne, p, ahead, many, least
  <2> QED BY <2>6, <2>8, <2>9
<1> HIDE DEF shows, p
<1> QED BY <1>9, <1>10, <1>11

LEMMA BesideIs ==
  ASSUME CardMatchAssumption, SceneOK, NEW run \in {1, 2}, NEW i \in 1..NRows, NEW k,
         k.off \in Int, NEW f \in File
  PROVE  /\ Beside(run, i, k, f) \in Nat
         /\ Beside(run, i, k, f) <= RunTol =>
               /\ -RunTol <= Exif(f) - k.off - ShotAt(run, i)
               /\ Exif(f) - k.off - ShotAt(run, i) <= RunTol
         /\ Exif(f) - k.off = ShotAt(run, i) => Beside(run, i, k, f) = 0
<1>1. Exif(f) \in Int /\ RunTol \in Nat
  BY FileIs, Tolerance
<1>2. ShotAt(run, i) \in Int
  <2>1. i \in 0..NRows
    BY Sizes
  <2> QED BY <2>1, Separated
<1> QED BY <1>1, <1>2 DEF Beside, OffBy

\* The nearest file that is within the tolerance is one that is.
LEMMA NearestFits ==
  ASSUME CardMatchAssumption, SceneOK, NEW run \in {1, 2}, NEW i \in 1..NRows, NEW k,
         k.off \in Int, Fits(run, i, k) # {}
  PROVE  NearestFile(run, i, k) \in Fits(run, i, k)
<1> DEFINE fits == Fits(run, i, k)
           T == {Beside(run, i, k, f) : f \in fits}
<1>1. \A f \in fits : Beside(run, i, k, f) \in Nat
  <2>1. fits \subseteq File
    BY DEF Fits, Cards
  <2> HIDE DEF fits
  <2> QED BY <2>1, BesideIs
<1>2. T \in SUBSET Nat /\ T # {}
  <2>1. fits # {}
    OBVIOUS
  <2> HIDE DEF fits
  <2> QED BY <1>1, <2>1
<1>3. Min(T) \in T /\ \A x \in T : Min(T) <= x
  <2> HIDE DEF T
  <2> QED BY <1>2, LeastOf
<1>4. \E f \in fits : \A g \in fits : Beside(run, i, k, f) <= Beside(run, i, k, g)
  <2> HIDE DEF fits
  <2> QED BY <1>3
<1> QED BY <1>4 DEF NearestFile

\* A file that is matched: its series, and, by the true offset, its exposure.
LEMMA MatchedTruly ==
  ASSUME CardMatchAssumption, Recognisable, SceneOK, BodiesAreTold, NEW run \in {1, 2},
         NEW cam \in {1, 2}, cam \in Bodies(scene.dir), NEW k, k.off \in Int
  PROVE  \A m \in RowMatches(run, cam, k) :
            /\ m \in MatchedFrames /\ m.run = run /\ m.cam = cam
            /\ Series(m.card) = k.series
            /\ NamesTell /\ k.series = scene.setup.prefix[cam] => Own(m)
            /\ k = Truth(cam) => Same(m)
<1>1. ASSUME NEW m \in RowMatches(run, cam, k)
      PROVE  /\ m \in MatchedFrames /\ m.run = run /\ m.cam = cam
             /\ Series(m.card) = k.series /\ m.card \in Cards /\ m.card \in File
             /\ m.shot \in 1..NRows /\ Beside(run, m.shot, k, m.card) <= RunTol
  <2>1. PICK i \in Rows(run, cam) :
           /\ Fits(run, i, k) # {}
           /\ m = [run |-> run, cam |-> cam, shot |-> i, card |-> NearestFile(run, i, k)]
    BY DEF RowMatches
  <2>2. i \in 1..NRows
    BY DEF Rows
  <2>3. m.card \in Fits(run, i, k)
    BY <2>1, <2>2, NearestFits
  <2>4. m.run = run /\ m.cam = cam /\ m.shot = i
    BY <2>1
  <2>5. /\ Series(m.card) = k.series /\ m.card \in Cards /\ m.card \in File
        /\ Beside(run, i, k, m.card) <= RunTol
    BY <2>3 DEF Fits, Cards
  <2>6. m \in MatchedFrames
    <3>1. NearestFile(run, i, k) \in File
      BY <2>1, <2>5
    <3> QED BY <2>1, <2>2, <3>1 DEF MatchedFrames, Cameras
  <2> QED BY <2>2, <2>4, <2>5, <2>6
<1>2. ASSUME NEW m \in RowMatches(run, cam, k), NamesTell,
             k.series = scene.setup.prefix[cam]
      PROVE  Own(m)
  BY <1>1, <1>2, SeriesTells DEF Own
<1>3. ASSUME NEW m \in RowMatches(run, cam, k), k = Truth(cam) PROVE Same(m)
  <2> DEFINE f == m.card
  <2>1. /\ f \in File /\ m.cam = cam /\ m.run = run /\ m.shot \in 1..NRows
        /\ Beside(run, m.shot, k, f) <= RunTol
    BY <1>1, <1>3
  <2> HIDE DEF f
  <2>2. /\ f.body \in {1, 2} /\ f.run \in {1, 2} /\ f.shot \in 0..NRows
        /\ Exif(f) = ShotAt(f.run, f.shot) + Clock(f.body)
        /\ Clock(1) \in Int /\ Clock(2) \in Int
    BY <2>1, FileIs, SetupIs
  <2>3. m.shot \in 0..NRows
    BY <2>1, Sizes
  <2>4. /\ ShotAt(f.run, f.shot) \in Int /\ ShotAt(run, m.shot) \in Int
        /\ -Spread < ShotAt(f.run, f.shot) - ShotAt(run, m.shot)
        /\ ShotAt(f.run, f.shot) - ShotAt(run, m.shot) < Spread
    BY <2>2, <2>3, Separated
  <2>5. k.off = Clock(cam)
    BY <1>3 DEF Truth
  <2>6. /\ RunTol \in Nat /\ RunTol < Period /\ RunTol <= 3 /\ Period \in Nat
        /\ Spread \in Int /\ JournalError \in Nat
    BY Tolerance, Sizes DEF Spread
  <2>7. /\ -RunTol <= ShotAt(f.run, f.shot) + Clock(f.body) - Clock(cam) - ShotAt(run, m.shot)
        /\ ShotAt(f.run, f.shot) + Clock(f.body) - Clock(cam) - ShotAt(run, m.shot) <= RunTol
    <3>1. /\ -RunTol <= Exif(f) - k.off - ShotAt(run, m.shot)
          /\ Exif(f) - k.off - ShotAt(run, m.shot) <= RunTol
      BY <2>1, BesideIs
    <3> QED BY <2>2, <2>4, <2>5, <2>6, <3>1
  <2>8. f.body = cam
    <3>1. CASE NamesTell
      <4>1. Own(m)
        BY <1>2, <1>3, <3>1 DEF Truth
      <4> QED BY <2>1, <4>1 DEF Own, f
    <3>2. CASE ~NamesTell
      <4>1. ClocksApart
        BY <3>2 DEF BodiesAreTold, NamesTell
      <4>2. OffBy(Clock(1), Clock(2)) > Spread + JournalReach + JournalError
        BY <4>1 DEF ClocksApart, Spread
      <4>3. \/ Clock(1) - Clock(2) > Spread + 8
            \/ Clock(2) - Clock(1) > Spread + 8
        BY <2>2, <2>6, <4>2 DEF OffBy, JournalReach
      <4>4. CASE f.body = 1 /\ cam = 2
        BY <2>2, <2>4, <2>6, <2>7, <4>3, <4>4
      <4>5. CASE f.body = 2 /\ cam = 1
        BY <2>2, <2>4, <2>6, <2>7, <4>3, <4>5
      <4> QED BY <2>2, <4>4, <4>5
    <3> QED BY <3>1, <3>2
  <2>9. f.run = run /\ f.shot = m.shot
    <3>1. Clock(cam) \in Int
      BY <2>2
    <3>2. -Period < ShotAt(f.run, f.shot) - ShotAt(run, m.shot)
          /\ ShotAt(f.run, f.shot) - ShotAt(run, m.shot) < Period
      BY <2>4, <2>6, <2>7, <2>8, <3>1
    <3> QED BY <2>2, <2>3, <3>2, Separated
  <2> QED BY <2>1, <2>8, <2>9 DEF Same, Own, f
<1> QED BY <1>1, <1>2, <1>3

\* Every row of a run has its file.
Covered(run, cam, found) ==
    \A i \in 1..NRows : \E m \in found : m.run = run /\ m.cam = cam /\ m.shot = i

\* And a clear card is matched whole.
LEMMA AllMatched ==
  ASSUME CardMatchAssumption, SceneOK, NEW run \in {1, 2}, NEW cam \in {1, 2},
         scene.flaws = {}, run <= scene.runs, cam \in Bodies(scene.dir), NEW avail,
         avail = Cards \ used, OwnThere(run, cam, avail), NEW found,
         found = RowMatches(run, cam, Truth(cam))
  PROVE  Covered(run, cam, found)
<1> SUFFICES ASSUME NEW i \in 1..NRows
             PROVE  \E m \in found : m.run = run /\ m.cam = cam /\ m.shot = i
  BY DEF Covered
<1> DEFINE k == Truth(cam)
           m == [run |-> run, cam |-> cam, shot |-> i, card |-> NearestFile(run, i, k)]
<1>1. Rows(run, cam) = 1..NRows /\ Took(cam, run, i) \in Cards
  BY AllThere
<1>2. Took(cam, run, i) \in avail /\ Took(cam, run, i) \in File
      /\ Took(cam, run, i).body = cam
  BY <1>1 DEF OwnThere, Took, Cards
<1>3. /\ Exif(Took(cam, run, i)) - ShotAt(run, i) = Clock(cam) /\ Clock(cam) \in Int
      /\ Exif(Took(cam, run, i)) \in Int
      /\ Series(Took(cam, run, i)) = scene.setup.prefix[cam]
  BY <1>2, OverOne, FileIs
<1>4. ShotAt(run, i) \in Int
  <2>1. i \in 0..NRows
    BY Sizes
  <2> QED BY <2>1, Separated
<1>5. k.off = Clock(cam) /\ k.series = scene.setup.prefix[cam]
  BY DEF Truth
<1>6. Beside(run, i, k, Took(cam, run, i)) <= RunTol
  <2>1. Exif(Took(cam, run, i)) - k.off = ShotAt(run, i)
    BY <1>3, <1>4, <1>5
  <2>2. k.off \in Int
    BY <1>3, <1>5
  <2>3. Beside(run, i, k, Took(cam, run, i)) = 0
    <3> HIDE DEF k
    <3> QED BY <1>2, <2>1, <2>2, BesideIs
  <2> QED BY <2>3, Tolerance
<1>7. Fits(run, i, k) # {}
  <2> HIDE DEF k
  <2> QED BY <1>2, <1>3, <1>5, <1>6 DEF Fits
<1>8. m \in found
  <2> HIDE DEF k
  <2> QED BY <1>1, <1>7 DEF RowMatches, k
<1> QED BY <1>8

-----------------------------------------------------------------------------
\* The passes in order: a run's before the next one's, by number before by time.
Rank(p) == 4 * p[1] + (IF p[2] = "time" THEN 2 ELSE 0) + p[3]
InTodo(p) == \E i \in 1..Len(todo) : todo[i] = p

PassesInOrder ==
    /\ \A i, j \in 1..Len(todo) : i < j => Rank(todo[i]) < Rank(todo[j])
    /\ \A i \in 1..Len(todo) : todo[i][1] <= scene.runs
    /\ \A run \in {1, 2}, cam \in Cameras : series[<<run, cam>>] # 0 =>
           \A i \in 1..Len(todo) : Rank(todo[i]) > Rank(<<run, "number", cam>>)
    /\ \A m \in matches : series[<<m.run, m.cam>>] # 0

\* One flaw, numbers that are mostly right, and bodies that are told apart.
Plain == Few /\ NumbersAreRight /\ BodiesAreTold

\* A camera that is given no other exposure's file.  A file of the other body
\* can only be what is left over in the second run: what the first one takes of
\* a body is that body's.
Sure(cam) == Numbered(cam) \/ cam \in scene.journal \/ scene.runs = 1
FilesStay ==
    /\ \A m \in matches : Sure(m.cam) => Same(m)
    /\ \A m \in matches : ~Own(m) =>
           /\ m.run = 2 /\ ~Sure(m.cam)
           /\ \A cam \in Cameras \ {m.cam} : series[<<2, cam>>] # 0

\* Numbers are enough: a camera that has them waits for no pass by time.
NumbersSuffice ==
    \A run \in {1, 2}, cam \in Bodies(scene.dir) :
        run <= scene.runs /\ Numbered(cam) /\ series[<<run, cam>>] = 0 => InTodo(<<run, "number", cam>>)

\* A camera that must be given its files: it has them all, or its pass is to come.
Whole ==
    \A run \in {1, 2}, cam \in Cameras : run <= scene.runs /\ Clear(cam) =>
        IF series[<<run, cam>>] # 0
        THEN Covered(run, cam, matches)
        ELSE InTodo(<<run, "time", cam>>)

MatchInv ==
    /\ SceneOK
    /\ Plain => /\ MatchTypeOK /\ PassesInOrder /\ NumbersSuffice /\ FilesStay
                /\ scene.flaws = {} => Whole

LEMMA RankIs ==
  ASSUME NEW p \in PassKinds
  PROVE  /\ p[1] \in {1, 2} /\ p[2] \in {"number", "time"} /\ p[3] \in {1, 2}
         /\ Rank(p) \in Int /\ p = <<p[1], p[2], p[3]>>
         /\ p[2] = "time" => Rank(p) = 4 * p[1] + 2 + p[3]
         /\ p[2] = "number" => Rank(p) = 4 * p[1] + p[3]
<1>1. PICK a \in {1, 2}, k \in {"number", "time"}, c \in Cameras : p = <<a, k, c>>
  BY DEF PassKinds
<1> QED BY <1>1 DEF Rank, Cameras

LEMMA TailIs ==
  ASSUME todo \in Seq(PassKinds), todo # <<>>, todo' = Tail(todo)
  PROVE  /\ todo' \in Seq(PassKinds) /\ Len(todo) \in Nat /\ Len(todo) >= 1
         /\ Head(todo) = todo[1] /\ todo[1] \in PassKinds
         /\ Len(todo') = Len(todo) - 1
         /\ \A i \in 1..Len(todo') : todo'[i] = todo[i + 1] /\ i + 1 \in 1..Len(todo)
         /\ \A p : p # todo[1] /\ InTodo(p) => InTodo(p)'
<1>1. /\ todo' \in Seq(PassKinds) /\ Len(todo) \in Nat /\ Len(todo) >= 1
      /\ Head(todo) = todo[1] /\ todo[1] \in PassKinds
      /\ Len(todo') = Len(todo) - 1
      /\ \A i \in 1..Len(todo') : todo'[i] = todo[i + 1] /\ i + 1 \in 1..Len(todo)
  OBVIOUS
<1>2. ASSUME NEW p, p # todo[1], InTodo(p) PROVE InTodo(p)'
  <2>1. PICK i \in 1..Len(todo) : todo[i] = p
    BY <1>2 DEF InTodo
  <2>2. i # 1
    BY <1>2, <2>1
  <2>3. i - 1 \in 1..Len(todo') /\ todo'[i - 1] = p
    BY <1>1, <2>1, <2>2
  <2> QED BY <2>3 DEF InTodo
<1> QED BY <1>1, <1>2

LEMMA AtHead ==
  ASSUME MatchTypeOK, PassesInOrder, NEW run \in {1, 2}, NEW cam \in {1, 2},
         NEW kind \in {"number", "time"}, todo # <<>>, Head(todo) = <<run, kind, cam>>
  PROVE  /\ run <= scene.runs
         /\ kind = "number" => series[<<run, cam>>] = 0
         /\ run = 1 => \A m \in matches : m.run = 1
         /\ kind = "time" => ~InTodo(<<run, "number", cam>>)
<1>1. /\ todo \in Seq(PassKinds) /\ Len(todo) \in Nat /\ Len(todo) >= 1
      /\ todo[1] = <<run, kind, cam>> /\ 1 \in 1..Len(todo)
  BY DEF MatchTypeOK
<1>2. /\ Rank(todo[1]) = IF kind = "time" THEN 4 * run + 2 + cam ELSE 4 * run + cam
      /\ todo[1][1] = run
  BY <1>1 DEF Rank
<1>3. \A r \in {1, 2}, c \in {1, 2} : Rank(<<r, "number", c>>) = 4 * r + c
  BY DEF Rank
<1>4. run <= scene.runs
  BY <1>1, <1>2 DEF PassesInOrder
<1>5. ASSUME kind = "number" PROVE series[<<run, cam>>] = 0
  <2>1. Rank(todo[1]) = Rank(<<run, "number", cam>>)
    BY <1>1, <1>5
  <2>2. Rank(todo[1]) \in Int
    BY <1>2
  <2>3. series[<<run, cam>>] # 0 => Rank(todo[1]) > Rank(<<run, "number", cam>>)
    BY <1>1 DEF PassesInOrder, Cameras
  <2> QED BY <2>1, <2>2, <2>3
<1>6. ASSUME run = 1, NEW m \in matches PROVE m.run = 1
  <2>1. m.run \in {1, 2} /\ m.cam \in {1, 2} /\ series[<<m.run, m.cam>>] # 0
    BY DEF MatchTypeOK, MatchedFrames, PassesInOrder, Cameras
  <2>2. Rank(todo[1]) > Rank(<<m.run, "number", m.cam>>)
    BY <1>1, <2>1 DEF PassesInOrder, Cameras
  <2> QED BY <1>2, <1>3, <1>6, <2>1, <2>2
<1>7. ASSUME kind = "time", InTodo(<<run, "number", cam>>) PROVE FALSE
  <2>1. PICK i \in 1..Len(todo) : todo[i] = <<run, "number", cam>>
    BY <1>7 DEF InTodo
  <2>2. Rank(todo[i]) = 4 * run + cam
    BY <1>3, <2>1
  <2>3. 1 < i
    <3>1. i # 1
      BY <1>2, <1>7, <2>2
    <3> QED BY <1>1, <3>1
  <2>4. Rank(todo[1]) < Rank(todo[i])
    <3>1. 1 \in 1..Len(todo) /\ i \in 1..Len(todo)
      BY <1>1
    <3> QED BY <2>3, <3>1 DEF PassesInOrder
  <2> QED BY <1>2, <1>7, <2>2, <2>4
<1> QED BY <1>4, <1>5, <1>6, <1>7

\* When its turn comes, the files of a body are there: nobody took them before.
LEMMA Available ==
  ASSUME CardMatchAssumption, MatchTypeOK, PassesInOrder, FilesStay,
         NEW run \in {1, 2}, NEW cam \in {1, 2}, NEW kind \in {"number", "time"},
         todo # <<>>, Head(todo) = <<run, kind, cam>>, series[<<run, cam>>] = 0,
         Sure(cam) \/ run = 1
  PROVE  OwnThere(run, cam, Cards \ used)
<1>1. SUFFICES ASSUME NEW f \in Cards, f.body = cam, f.run = run, f \in used PROVE FALSE
  BY DEF OwnThere
<1>2. PICK m \in matches : f = m.card
  BY <1>1 DEF MatchTypeOK
<1>3. m.run \in {1, 2} /\ m.cam \in {1, 2} /\ series[<<m.run, m.cam>>] # 0
  BY DEF MatchTypeOK, MatchedFrames, PassesInOrder, Cameras
<1>4. run = 1 => m.run = 1
  BY AtHead
<1>5. CASE m.cam = cam
  <2>1. CASE run = 1
    BY <1>3, <1>4, <1>5, <2>1
  <2>2. CASE Sure(cam)
    <3>1. Same(m)
      BY <1>5, <2>2 DEF FilesStay
    <3> QED BY <1>1, <1>2, <1>3, <1>5, <3>1 DEF Same
  <2> QED BY <2>1, <2>2
<1>6. CASE m.cam # cam
  <2>1. ~Own(m)
    BY <1>1, <1>2, <1>6 DEF Own
  <2>2. m.run = 2 /\ series[<<2, cam>>] # 0
    BY <1>6, <2>1 DEF FilesStay, Cameras
  <2> QED BY <1>4, <2>2
<1> QED BY <1>5, <1>6

LEMMA Here ==
  ASSUME Recognisable, SceneOK, NEW cam \in {1, 2}
  PROVE  /\ ~NotHere(cam) => cam \in Bodies(scene.dir)
         /\ cam \in Bodies(scene.dir) => ~NotHere(cam)
<1>1. scene.dir \in {"cam1", "cam2", "both"}
  BY DEF Recognisable, SceneOK
<1> QED BY <1>1 DEF NotHere, DirCamera, Bodies, Cameras

\* What a pass may find for a camera; with a clear card, and not a number still
\* to be tried, it finds its files.
Fit(run, cam, kind, k) ==
    /\ k.series \in 0..2 /\ k.off \in Int
    /\ k # NoOffset => k.series # 0 /\ cam \in Bodies(scene.dir)
    /\ Sure(cam) /\ k # NoOffset => k = Truth(cam)
    /\ k # NoOffset /\ k.series # scene.setup.prefix[cam] =>
          run = 2 /\ ~Sure(cam) /\ \A c \in Cameras \ {cam} : series[<<run, c>>] # 0
    /\ kind = "number" /\ Numbered(cam) /\ cam \in Bodies(scene.dir) => k = Truth(cam)
    /\ scene.flaws = {} /\ Clear(cam) => k = Truth(cam) \/ (k = NoOffset /\ kind = "number")

LEMMA NumberFits ==
  ASSUME CardMatchAssumption, Recognisable, MatchInv, Plain, NEW run \in {1, 2},
         NEW cam \in {1, 2}, todo # <<>>, Head(todo) = <<run, "number", cam>>,
         NEW k, k = IF NotHere(cam) THEN NoOffset ELSE ByNumber(run, cam, Cards \ used)
  PROVE  Fit(run, cam, "number", k)
<1>1. /\ SceneOK /\ MatchTypeOK /\ PassesInOrder /\ FilesStay
      /\ Few /\ NumbersAreRight /\ BodiesAreTold
  BY DEF MatchInv, Plain
<1>2. series[<<run, cam>>] = 0 /\ run <= scene.runs
  BY <1>1, AtHead
<1>3. ByNumber(run, cam, Cards \ used) \in {NoOffset, Truth(cam)}
  BY <1>1, <1>2, NumberIs
<1>4. k \in {NoOffset, Truth(cam)} /\ (k # NoOffset => cam \in Bodies(scene.dir))
  BY <1>1, <1>3, Here
<1>5. ASSUME Numbered(cam), cam \in Bodies(scene.dir) PROVE k = Truth(cam)
  <2>1. Sure(cam) /\ ~NotHere(cam)
    BY <1>1, <1>5, Here DEF Sure
  <2>2. OwnThere(run, cam, Cards \ used)
    BY <1>1, <1>2, <2>1, Available
  <2> QED BY <1>1, <1>2, <1>5, <2>1, <2>2, NumberIs
<1>6. /\ Truth(cam).series = scene.setup.prefix[cam] /\ Truth(cam).off = Clock(cam)
      /\ scene.setup.prefix[cam] \in {1, 2} /\ Clock(cam) \in Int
      /\ NoOffset.series = 0 /\ NoOffset.off = 0
  BY <1>1, SetupIs DEF Truth, NoOffset
<1> QED BY <1>4, <1>5, <1>6 DEF Fit

LEMMA TimeFits ==
  ASSUME CardMatchAssumption, Recognisable, MatchInv, Plain, NEW run \in {1, 2},
         NEW cam \in {1, 2}, todo # <<>>, Head(todo) = <<run, "time", cam>>,
         series[<<run, cam>>] = 0, ~NotHere(cam), NEW k,
         k = ByTime(run, cam, Cards \ used,
                    {c \in Cameras \ {cam} : series[<<run, c>>] = 0})
  PROVE  Fit(run, cam, "time", k)
<1> DEFINE waiting == {c \in Cameras \ {cam} : series[<<run, c>>] = 0}
           avail == Cards \ used
           own == scene.setup.prefix[cam]
<1>1. /\ SceneOK /\ MatchTypeOK /\ PassesInOrder /\ NumbersSuffice /\ FilesStay
      /\ Few /\ BodiesAreTold
  BY DEF MatchInv, Plain
<1>2. run <= scene.runs /\ ~InTodo(<<run, "number", cam>>)
  BY <1>1, AtHead
<1>3. cam \in Bodies(scene.dir)
  BY <1>1, Here
<1>4. k = ByTime(run, cam, avail, waiting)
  OBVIOUS
<1>5. ASSUME cam \in scene.journal \/ scene.runs = 1 \/ run = 1
      PROVE  /\ k # NoOffset => k.series = own /\ k.off \in Int
             /\ cam \in scene.journal \/ scene.runs = 1 => k \in {NoOffset, Truth(cam)}
             /\ (/\ scene.flaws = {}
                 /\ Journalled(cam) \/ (DirCamera = cam /\ scene.runs = 1))
                => k # NoOffset
  <2>1. OwnThere(run, cam, avail)
    BY <1>1, <1>5, Available DEF Sure
  <2> HIDE DEF waiting, avail
  <2>2. /\ ByTime(run, cam, avail, waiting) # NoOffset =>
               /\ ByTime(run, cam, avail, waiting).series = scene.setup.prefix[cam]
               /\ ByTime(run, cam, avail, waiting).off \in Int
               /\ cam \in scene.journal \/ scene.runs = 1 =>
                     ByTime(run, cam, avail, waiting) = Truth(cam)
        /\ /\ scene.flaws = {}
           /\ Journalled(cam) \/ (DirCamera = cam /\ scene.runs = 1)
           => ByTime(run, cam, avail, waiting) # NoOffset
    BY <1>1, <1>2, <1>3, <2>1, TimeIs
  <2> QED BY <1>4, <2>2
<1>6. ~Numbered(cam)
  BY <1>1, <1>2, <1>3 DEF NumbersSuffice
<1>7. ASSUME cam \notin scene.journal, k # NoOffset
      PROVE  k.series \in {1, 2} /\ k.off \in Int /\ (waiting # {} => k.series = own)
  <2>1. avail \subseteq Cards
    OBVIOUS
  <2> HIDE DEF waiting, avail
  <2>2. ByTime(run, cam, avail, waiting) # NoOffset
    BY <1>4, <1>7
  <2>3. /\ ByTime(run, cam, avail, waiting).series \in {1, 2}
        /\ ByTime(run, cam, avail, waiting).off \in Int
    BY <1>1, <1>7, <2>1, <2>2, LeftOver
  <2>4. waiting # {} => ByTime(run, cam, avail, waiting).series = scene.setup.prefix[cam]
    BY <1>1, <1>7, <2>1, <2>2, LeftOver
  <2> QED BY <1>4, <2>3, <2>4
<1>8. Sure(cam) => cam \in scene.journal \/ scene.runs = 1
  BY <1>6 DEF Sure
<1>9. own \in {1, 2}
  BY <1>1, SetupIs
<1>10. ASSUME k # NoOffset PROVE k.series \in {1, 2} /\ k.off \in Int
  <2>1. CASE cam \in scene.journal
    <3>1. k.series = own /\ k.off \in Int
      BY <1>5, <1>10, <2>1
    <3> QED BY <1>9, <3>1
  <2>2. CASE cam \notin scene.journal
    BY <1>7, <1>10, <2>2
  <2> QED BY <2>1, <2>2
<1>11. /\ k.series \in 0..2 /\ k.off \in Int
       /\ k # NoOffset => k.series # 0
  BY <1>10 DEF NoOffset
<1>12. Sure(cam) /\ k # NoOffset => k = Truth(cam)
  BY <1>5, <1>8
<1>13. ASSUME k # NoOffset, k.series # own PROVE run = 2 /\ ~Sure(cam) /\ waiting = {}
  <2> HIDE DEF waiting, avail, own
  <2> QED BY <1>5, <1>7, <1>8, <1>13
<1>14. ASSUME scene.flaws = {}, Clear(cam) PROVE k = Truth(cam)
  <2>1. Journalled(cam) \/ (DirCamera = cam /\ scene.runs = 1)
    BY <1>6, <1>14 DEF Clear
  <2> QED BY <1>5, <1>14, <2>1 DEF Journalled
<1>15. waiting = {} => \A c \in Cameras \ {cam} : series[<<run, c>>] # 0
  OBVIOUS
<1> HIDE DEF waiting, avail
<1> QED BY <1>3, <1>11, <1>12, <1>13, <1>14, <1>15 DEF Fit

-----------------------------------------------------------------------------
LEMMA RunPassesAre ==
  ASSUME NEW run \in {1, 2}
  PROVE  /\ RunPasses(run) \in Seq(PassKinds) /\ Len(RunPasses(run)) = 4
         /\ \A i \in 1..4 : RunPasses(run)[i][1] = run /\ Rank(RunPasses(run)[i]) = 4 * run + i
         /\ \A cam \in {1, 2} : /\ RunPasses(run)[cam] = <<run, "number", cam>>
                                /\ RunPasses(run)[2 + cam] = <<run, "time", cam>>
<1>1. RunPasses(run) = <<<<run, "number", 1>>, <<run, "number", 2>>,
                         <<run, "time", 1>>, <<run, "time", 2>>>>
  BY DEF RunPasses
<1>2. RunPasses(run) \in Seq(PassKinds) /\ Len(RunPasses(run)) = 4
  BY <1>1 DEF PassKinds, Cameras
<1>3. \A i \in 1..4 : RunPasses(run)[i][1] = run /\ Rank(RunPasses(run)[i]) = 4 * run + i
  BY <1>1 DEF Rank
<1>4. \A cam \in {1, 2} : /\ RunPasses(run)[cam] = <<run, "number", cam>>
                          /\ RunPasses(run)[2 + cam] = <<run, "time", cam>>
  BY <1>1
<1> QED BY <1>2, <1>3, <1>4

LEMMA Joined ==
  ASSUME NEW S, NEW a \in Seq(S), NEW b \in Seq(S), Len(a) = 4, Len(b) = 4
  PROVE  /\ a \o b \in Seq(S) /\ Len(a \o b) = 8
         /\ \A i \in 1..4 : (a \o b)[i] = a[i]
         /\ \A i \in 5..8 : (a \o b)[i] = b[i - 4]
<1>1. a \o b \in Seq(S) /\ Len(a \o b) = Len(a) + Len(b)
  BY ConcatProperties
<1>2. \A i \in 1..(Len(a) + Len(b)) :
          (a \o b)[i] = IF i <= Len(a) THEN a[i] ELSE b[i - Len(a)]
  BY ConcatProperties
<1> QED BY <1>1, <1>2

LEMMA PassesAre ==
  ASSUME NEW runs \in {1, 2}
  PROVE  /\ Passes(runs) \in Seq(PassKinds) /\ Len(Passes(runs)) = 4 * runs
         /\ \A i \in 1..(4 * runs) : /\ Passes(runs)[i][1] <= runs
                                     /\ Rank(Passes(runs)[i]) = 4 + i
         /\ \A run \in {1, 2}, cam \in {1, 2} : run <= runs =>
               /\ Passes(runs)[4 * (run - 1) + cam] = <<run, "number", cam>>
               /\ Passes(runs)[4 * (run - 1) + 2 + cam] = <<run, "time", cam>>
<1>1. CASE runs = 1
  <2>1. Passes(runs) = RunPasses(1)
    BY <1>1 DEF Passes
  <2> QED BY <1>1, <2>1, RunPassesAre
<1>2. CASE runs = 2
  <2>1. Passes(runs) = RunPasses(1) \o RunPasses(2)
    BY <1>2 DEF Passes
  <2>2. /\ RunPasses(1) \in Seq(PassKinds) /\ Len(RunPasses(1)) = 4
        /\ RunPasses(2) \in Seq(PassKinds) /\ Len(RunPasses(2)) = 4
    BY RunPassesAre
  <2>3. Passes(runs) \in Seq(PassKinds) /\ Len(Passes(runs)) = 8
    BY <2>1, <2>2, Joined
  <2>4. /\ \A i \in 1..4 : Passes(runs)[i] = RunPasses(1)[i]
        /\ \A i \in 5..8 : Passes(runs)[i] = RunPasses(2)[i - 4]
    BY <2>1, <2>2, Joined
  <2>5. ASSUME NEW i \in 1..8
        PROVE  Passes(runs)[i][1] <= 2 /\ Rank(Passes(runs)[i]) = 4 + i
    <3>1. CASE i \in 1..4
      BY <2>4, <3>1, RunPassesAre
    <3>2. CASE i \in 5..8
      <4>1. i - 4 \in 1..4
        BY <3>2
      <4>2. RunPasses(2)[i - 4][1] = 2 /\ Rank(RunPasses(2)[i - 4]) = 8 + (i - 4)
        BY <4>1, RunPassesAre
      <4> QED BY <2>4, <3>2, <4>2
    <3> QED BY <3>1, <3>2
  <2>6. ASSUME NEW run \in {1, 2}, NEW cam \in {1, 2}
        PROVE  /\ Passes(runs)[4 * (run - 1) + cam] = <<run, "number", cam>>
               /\ Passes(runs)[4 * (run - 1) + 2 + cam] = <<run, "time", cam>>
    <3>1. CASE run = 1
      BY <2>4, <3>1, RunPassesAre
    <3>2. CASE run = 2
      <4>1. Passes(runs)[4 + cam] = RunPasses(2)[cam]
            /\ Passes(runs)[4 + 2 + cam] = RunPasses(2)[2 + cam]
        BY <2>4
      <4>2. 4 * (run - 1) + cam = 4 + cam /\ 4 * (run - 1) + 2 + cam = 4 + 2 + cam
        BY <3>2
      <4>3. RunPasses(2)[cam] = <<2, "number", cam>> /\ RunPasses(2)[2 + cam] = <<2, "time", cam>>
        BY RunPassesAre
      <4> QED BY <3>2, <4>1, <4>2, <4>3
    <3> QED BY <3>1, <3>2
  <2> QED BY <1>2, <2>3, <2>5, <2>6
<1> QED BY <1>1, <1>2

LEMMA MatchStarts ==
  ASSUME CardMatchAssumption, MatchInit
  PROVE  MatchInv
<1>0. PICK dir \in Directories, runs \in {1, 2}, setup \in Setups,
           journal \in SUBSET Cameras :
          \E flaws \in FlawSets(dir, runs) :
             scene = [dir |-> dir, runs |-> runs, setup |-> setup,
                      journal |-> journal, flaws |-> flaws]
  BY DEF MatchInit
<1>1. PICK flaws \in FlawSets(dir, runs) :
          scene = [dir |-> dir, runs |-> runs, setup |-> setup,
                   journal |-> journal, flaws |-> flaws]
  BY <1>0
<1>2. IsFiniteSet(flaws)
  <2>1. CASE flaws = {}
    BY <2>1, FS_EmptySet
  <2>2. ASSUME NEW g \in [1..MaxFlaws -> Flaws(dir, runs)], flaws = Range(g)
        PROVE  IsFiniteSet(flaws)
    <3>1. IsFiniteSet(1..MaxFlaws)
      BY Sizes, FS_Interval
    <3>2. g \in Surjection(1..MaxFlaws, Range(g))
      BY Fun_RangeProperties
    <3> QED BY <2>2, <3>1, <3>2, FS_Surjection
  <2> QED BY <2>1, <2>2 DEF FlawSets
<1>3. SceneOK
  BY <1>1, <1>2 DEF SceneOK
<1>4. /\ todo = Passes(scene.runs) /\ used = {} /\ matches = {}
      /\ series = [rc \in {1, 2} \X Cameras |-> 0] /\ scene.runs \in {1, 2}
  BY <1>3 DEF MatchInit, SceneOK
<1>5. MatchTypeOK
  <2>1. todo \in Seq(PassKinds)
    BY <1>4, PassesAre
  <2> QED BY <1>3, <1>4, <2>1 DEF MatchTypeOK
<1>6. \A run \in {1, 2}, cam \in Cameras : series[<<run, cam>>] = 0
  BY <1>4
<1>7. PassesInOrder
  <2>1. /\ Len(todo) = 4 * scene.runs
        /\ \A i \in 1..Len(todo) : todo[i][1] <= scene.runs /\ Rank(todo[i]) = 4 + i
    BY <1>4, PassesAre
  <2> QED BY <1>4, <1>6, <2>1 DEF PassesInOrder
<1>8. ASSUME NEW run \in {1, 2}, NEW cam \in Cameras, run <= scene.runs
      PROVE  InTodo(<<run, "time", cam>>) /\ InTodo(<<run, "number", cam>>)
  <2>1. cam \in {1, 2}
    BY DEF Cameras
  <2>2. /\ Len(todo) = 4 * scene.runs
        /\ todo[4 * (run - 1) + cam] = <<run, "number", cam>>
        /\ todo[4 * (run - 1) + 2 + cam] = <<run, "time", cam>>
    BY <1>4, <1>8, <2>1, PassesAre
  <2>3. 4 * (run - 1) + cam \in 1..Len(todo) /\ 4 * (run - 1) + 2 + cam \in 1..Len(todo)
    <3>1. Len(todo) \in Int /\ Len(todo) >= 4 * run
      BY <1>4, <1>8, <2>2
    <3> QED BY <2>1, <3>1
  <2> QED BY <2>2, <2>3 DEF InTodo
<1>9. NumbersSuffice /\ Whole
  <2>1. Bodies(scene.dir) \subseteq Cameras
    BY DEF Bodies, Cameras
  <2> QED BY <1>6, <1>8, <2>1 DEF NumbersSuffice, Whole
<1>10. FilesStay
  BY <1>4 DEF FilesStay
<1> QED BY <1>3, <1>5, <1>7, <1>9, <1>10 DEF MatchInv

-----------------------------------------------------------------------------
\* One pass done, whatever it found.
LEMMA OrderAfter ==
  ASSUME CardMatchAssumption, MatchTypeOK, PassesInOrder, NEW run \in {1, 2},
         NEW cam \in {1, 2}, NEW kind \in {"number", "time"}, todo # <<>>,
         Head(todo) = <<run, kind, cam>>, todo' = Tail(todo), scene' = scene,
         \A r \in {1, 2}, c \in Cameras :
            series'[<<r, c>>] # 0 => series[<<r, c>>] # 0 \/ (r = run /\ c = cam),
         \A m \in matches' : series'[<<m.run, m.cam>>] # 0
  PROVE  PassesInOrder'
<1>1. /\ todo \in Seq(PassKinds) /\ todo' \in Seq(PassKinds) /\ todo[1] = <<run, kind, cam>>
      /\ Len(todo) \in Nat /\ Len(todo) >= 1 /\ Len(todo') = Len(todo) - 1
      /\ \A i \in 1..Len(todo') : todo'[i] = todo[i + 1] /\ i + 1 \in 1..Len(todo)
  BY TailIs DEF MatchTypeOK
<1>2. \A i \in 1..Len(todo) : todo[i] \in PassKinds
  BY <1>1
<1>3. ASSUME NEW i \in 1..Len(todo'), NEW j \in 1..Len(todo'), i < j
      PROVE  Rank(todo'[i]) < Rank(todo'[j])
  <2>1. /\ i + 1 \in 1..Len(todo) /\ j + 1 \in 1..Len(todo) /\ i + 1 < j + 1
        /\ todo'[i] = todo[i + 1] /\ todo'[j] = todo[j + 1]
    BY <1>1, <1>3
  <2>2. Rank(todo[i + 1]) < Rank(todo[j + 1])
    BY <2>1 DEF PassesInOrder
  <2> QED BY <2>1, <2>2
<1>4. ASSUME NEW i \in 1..Len(todo') PROVE todo'[i][1] <= scene'.runs
  BY <1>1 DEF PassesInOrder
<1>5. ASSUME NEW i \in 1..Len(todo')
      PROVE  /\ Rank(todo'[i]) \in Int /\ Rank(todo[1]) \in Int
             /\ Rank(todo[1]) < Rank(todo'[i])
  <2>1. /\ i + 1 \in 1..Len(todo) /\ 1 \in 1..Len(todo) /\ 1 < i + 1
        /\ todo'[i] = todo[i + 1]
    BY <1>1
  <2>2. Rank(todo[1]) < Rank(todo[i + 1])
    BY <2>1 DEF PassesInOrder
  <2>3. Rank(todo[1]) \in Int /\ Rank(todo[i + 1]) \in Int
    BY <1>2, <2>1, RankIs
  <2> QED BY <2>1, <2>2, <2>3
<1>6. ASSUME NEW r \in {1, 2}, NEW c \in Cameras, series'[<<r, c>>] # 0,
             NEW i \in 1..Len(todo')
      PROVE  Rank(todo'[i]) > Rank(<<r, "number", c>>)
  <2>1. CASE series[<<r, c>>] # 0
    <3>1. i + 1 \in 1..Len(todo) /\ todo'[i] = todo[i + 1]
      BY <1>1
    <3>2. Rank(todo[i + 1]) > Rank(<<r, "number", c>>)
      BY <2>1, <3>1 DEF PassesInOrder
    <3> QED BY <3>1, <3>2
  <2>2. CASE r = run /\ c = cam
    <3>1. Rank(todo[1]) >= Rank(<<r, "number", c>>) /\ Rank(<<r, "number", c>>) \in Int
      BY <1>1, <2>2 DEF Rank
    <3> QED BY <1>5, <3>1
  <2> QED BY <1>6, <2>1, <2>2
<1>7. /\ \A i, j \in 1..Len(todo') : i < j => Rank(todo'[i]) < Rank(todo'[j])
      /\ \A i \in 1..Len(todo') : todo'[i][1] <= scene'.runs
      /\ \A r \in {1, 2}, c \in Cameras : series'[<<r, c>>] # 0 =>
            \A i \in 1..Len(todo') : Rank(todo'[i]) > Rank(<<r, "number", c>>)
  BY <1>3, <1>4, <1>6
<1> QED BY <1>7 DEF PassesInOrder

LEMMA SceneStays ==
  ASSUME scene' = scene
  PROVE  /\ SceneOK' = SceneOK /\ Plain' = Plain
         /\ \A c : Sure(c)' = Sure(c) /\ Clear(c)' = Clear(c) /\ Numbered(c)' = Numbered(c)
<1>1. Cards' = Cards
  BY DEF Cards, Bodies
<1>2. \A run, cam : Rows(run, cam)' = Rows(run, cam)
  BY DEF Rows
<1>3. \A run, cam, i : NumberOfRow(run, cam, i)' = NumberOfRow(run, cam, i)
  BY DEF NumberOfRow, Nth
<1>4. \A f : Number(f)' = Number(f)
  BY DEF Number, Nth
<1>5. \A run, cam : Misnumbered(run, cam)' = Misnumbered(run, cam)
  BY <1>1, <1>2, <1>3, <1>4 DEF Misnumbered
<1>6. NumbersAreRight' = NumbersAreRight
  BY <1>2, <1>5 DEF NumbersAreRight, AtLeast, Share
<1>7. ClocksApart' = ClocksApart
  BY DEF ClocksApart, Clock
<1>8. BodiesAreTold' = BodiesAreTold
  BY <1>7 DEF BodiesAreTold
<1>9. SceneOK' = SceneOK /\ Few' = Few
  BY DEF SceneOK, Few
<1>10. \A c : Numbered(c)' = Numbered(c)
  BY <1>3, <1>4, <1>5 DEF Numbered
<1>11. \A c : Journalled(c)' = Journalled(c)
  BY <1>7 DEF Journalled, DirCamera
<1>12. \A c : Sure(c)' = Sure(c)
  BY <1>10 DEF Sure
<1>13. \A c : Clear(c)' = Clear(c)
  BY <1>10, <1>11 DEF Clear, DirCamera
<1> QED BY <1>6, <1>8, <1>9, <1>10, <1>12, <1>13 DEF Plain

LEMMA PassTaken ==
  ASSUME CardMatchAssumption, Recognisable, MatchInv, Plain, NEW run \in {1, 2},
         NEW cam \in {1, 2}, NEW kind \in {"number", "time"}, todo # <<>>,
         Head(todo) = <<run, kind, cam>>, todo' = Tail(todo), scene' = scene,
         series[<<run, cam>>] = 0, NEW k, Fit(run, cam, kind, k), Take(run, cam, k)
  PROVE  MatchInv'
<1> DEFINE found == IF k = NoOffset THEN {} ELSE RowMatches(run, cam, k)
<1>1. /\ SceneOK /\ MatchTypeOK /\ PassesInOrder /\ NumbersSuffice /\ FilesStay
      /\ BodiesAreTold
  BY DEF MatchInv, Plain
<1>2. /\ series' = [series EXCEPT ![<<run, cam>>] = k.series]
      /\ matches' = matches \cup found /\ used' = used \cup {m.card : m \in found}
  BY DEF Take
<1>3. k.series \in 0..2 /\ series \in [{1, 2} \X Cameras -> 0..2]
  BY <1>1 DEF Fit, MatchTypeOK
<1>4. /\ \A r \in {1, 2}, c \in Cameras :
           series'[<<r, c>>] = IF r = run /\ c = cam THEN k.series ELSE series[<<r, c>>]
      /\ series' \in [{1, 2} \X Cameras -> 0..2] /\ cam \in Cameras
  BY <1>2, <1>3 DEF Cameras
<1>5. ASSUME NEW m \in found
      PROVE  /\ m \in MatchedFrames /\ m.run = run /\ m.cam = cam
             /\ k # NoOffset /\ (k = Truth(cam) => Same(m))
             /\ NamesTell /\ k.series = scene.setup.prefix[cam] => Own(m)
  <2>1. k # NoOffset /\ m \in RowMatches(run, cam, k)
    OBVIOUS
  <2>2. cam \in Bodies(scene.dir) /\ k.off \in Int
    BY <2>1 DEF Fit
  <2> HIDE DEF found
  <2> QED BY <1>1, <2>1, <2>2, MatchedTruly
<1>6. k # NoOffset => found = RowMatches(run, cam, k)
  OBVIOUS
<1> HIDE DEF found
<1>7. ASSUME NEW m \in found PROVE k.series # 0
  BY <1>5 DEF Fit
<1>8. todo \in Seq(PassKinds) /\ todo[1] = <<run, kind, cam>> /\ todo' \in Seq(PassKinds)
      /\ \A p : p # todo[1] /\ InTodo(p) => InTodo(p)'
  BY <1>1, TailIs DEF MatchTypeOK
<1>9. MatchTypeOK'
  <2>1. matches' \subseteq MatchedFrames
    BY <1>1, <1>2, <1>5 DEF MatchTypeOK
  <2>2. used' = {m.card : m \in matches'}
    BY <1>1, <1>2 DEF MatchTypeOK
  <2>3. SceneOK'
    BY <1>1, SceneStays
  <2> QED BY <1>4, <1>8, <2>1, <2>2, <2>3 DEF MatchTypeOK
<1>10. \A m \in matches : m.run \in {1, 2} /\ m.cam \in Cameras /\ series[<<m.run, m.cam>>] # 0
  BY <1>1 DEF MatchTypeOK, MatchedFrames, PassesInOrder
<1>11. \A r \in {1, 2}, c \in Cameras :
          /\ series[<<r, c>>] # 0 => series'[<<r, c>>] # 0 /\ ~(r = run /\ c = cam)
          /\ series'[<<r, c>>] # 0 => series[<<r, c>>] # 0 \/ (r = run /\ c = cam)
  BY <1>4
<1>12. PassesInOrder'
  <2>1. ASSUME NEW m \in matches' PROVE series'[<<m.run, m.cam>>] # 0
    <3>1. CASE m \in matches
      BY <1>10, <1>11, <3>1
    <3>2. CASE m \in found
      BY <1>4, <1>5, <1>7, <3>2
    <3> QED BY <1>2, <3>1, <3>2
  <2> QED BY <1>1, <1>11, <2>1, OrderAfter
<1>13. NumbersSuffice'
  <2>1. SUFFICES ASSUME NEW r \in {1, 2}, NEW c \in Bodies(scene.dir), Numbered(c),
                        r <= scene.runs, series'[<<r, c>>] = 0
                 PROVE  InTodo(<<r, "number", c>>)'
    <3>1. \A b : Numbered(b)' = Numbered(b)
      BY SceneStays
    <3> QED BY <3>1 DEF NumbersSuffice, Bodies
  <2>2. c \in Cameras
    BY DEF Bodies, Cameras
  <2>3. series[<<r, c>>] = 0
    BY <1>11, <2>1, <2>2
  <2>4. InTodo(<<r, "number", c>>)
    BY <1>1, <2>1, <2>3 DEF NumbersSuffice
  <2>5. <<r, "number", c>> # todo[1]
    <3>1. SUFFICES ASSUME r = run, kind = "number", c = cam PROVE FALSE
      BY <1>8
    <3>2. k = Truth(cam)
      BY <2>1, <3>1 DEF Fit
    <3>3. series'[<<r, c>>] = scene.setup.prefix[cam]
      BY <1>4, <3>1, <3>2 DEF Truth
    <3> QED BY <1>1, <2>1, <3>3, SetupIs
  <2> QED BY <1>8, <2>4, <2>5
<1>14. FilesStay'
  <2>1. ASSUME NEW m \in matches', Sure(m.cam) PROVE Same(m)
    <3>1. CASE m \in matches
      BY <1>1, <2>1, <3>1 DEF FilesStay
    <3>2. CASE m \in found
      <4>1. k # NoOffset /\ Sure(cam)
        BY <1>5, <2>1, <3>2
      <4> QED BY <1>5, <3>2, <4>1 DEF Fit
    <3> QED BY <1>2, <3>1, <3>2
  <2>2. ASSUME NEW m \in matches', ~Own(m)
        PROVE  /\ m.run = 2 /\ ~Sure(m.cam)
               /\ \A c \in Cameras \ {m.cam} : series'[<<2, c>>] # 0
    <3>1. CASE m \in matches
      <4>1. /\ m.run = 2 /\ ~Sure(m.cam)
            /\ \A c \in Cameras \ {m.cam} : series[<<2, c>>] # 0
        BY <1>1, <2>2, <3>1 DEF FilesStay
      <4> QED BY <1>11, <4>1
    <3>2. CASE m \in found
      <4>0. k # NoOffset /\ m.cam = cam /\ m.run = run /\ ~Sure(cam)
        BY <1>5, <2>2, <3>2 DEF Fit, Same
      <4>1. k # NoOffset /\ m.cam = cam /\ m.run = run /\ k.series # scene.setup.prefix[cam]
        <5>1. cam \notin scene.journal
          BY <4>0 DEF Sure
        <5>2. NamesTell
          BY <1>1, <1>4, <5>1 DEF BodiesAreTold, NamesTell
        <5> QED BY <1>5, <2>2, <3>2, <4>0, <5>2
      <4>2. run = 2 /\ ~Sure(cam) /\ \A c \in Cameras \ {cam} : series[<<run, c>>] # 0
        BY <4>1 DEF Fit
      <4> QED BY <1>11, <4>1, <4>2
    <3> QED BY <1>2, <3>1, <3>2
  <2>3. \A c : Sure(c)' = Sure(c)
    BY SceneStays
  <2> QED BY <2>1, <2>2, <2>3 DEF FilesStay, Same, Own
<1>15. ASSUME scene.flaws = {} PROVE Whole'
  <2>1. Whole
    BY <1>15 DEF MatchInv
  <2>2. SUFFICES ASSUME NEW r \in {1, 2}, NEW c \in Cameras, r <= scene.runs, Clear(c)
                 PROVE  IF series'[<<r, c>>] # 0
                        THEN Covered(r, c, matches')
                        ELSE InTodo(<<r, "time", c>>)'
    <3>1. \A c : Clear(c)' = Clear(c)
      BY SceneStays
    <3> QED BY <3>1 DEF Whole, Covered
  <2>3. CASE r = run /\ c = cam
    <3>1. CASE k = Truth(cam)
      <4> DEFINE avail == Cards \ used
      <4>1. OwnThere(run, cam, avail)
        <5>1. Sure(cam)
          BY <2>2, <2>3 DEF Clear, Journalled, Sure
        <5> QED BY <1>1, <5>1, Available
      <4>2. run <= scene.runs /\ cam \in Bodies(scene.dir) /\ avail = Cards \ used
        BY <2>2, <2>3 DEF Clear
      <4> HIDE DEF avail
      <4>3. k # NoOffset /\ k.series # 0
        BY <1>1, <3>1, SetupIs DEF Truth, NoOffset
      <4>4. found = RowMatches(run, cam, Truth(cam)) /\ series'[<<r, c>>] # 0
        BY <1>4, <1>6, <2>3, <3>1, <4>3
      <4>5. Covered(run, cam, found)
        BY <1>1, <1>15, <4>1, <4>2, <4>4, AllMatched
      <4> QED BY <1>2, <2>3, <4>4, <4>5 DEF Covered
    <3>2. CASE k = NoOffset /\ kind = "number"
      <4>1. series'[<<r, c>>] = 0
        BY <1>4, <2>3, <3>2 DEF NoOffset
      <4>2. InTodo(<<r, "time", c>>)
        BY <2>1, <2>2, <2>3 DEF Whole
      <4> QED BY <1>8, <3>2, <4>1, <4>2
    <3> QED BY <1>15, <2>2, <2>3, <3>1, <3>2 DEF Fit
  <2>4. CASE ~(r = run /\ c = cam)
    <3>1. series'[<<r, c>>] = series[<<r, c>>] /\ matches \subseteq matches'
      BY <1>2, <1>4, <2>4
    <3>2. <<r, "time", c>> # todo[1]
      BY <1>8, <2>4
    <3>3. IF series[<<r, c>>] # 0
          THEN Covered(r, c, matches)
          ELSE InTodo(<<r, "time", c>>)
      BY <2>1, <2>2 DEF Whole
    <3>4. CASE series[<<r, c>>] # 0
      <4>1. Covered(r, c, matches')
        BY <3>1, <3>3, <3>4 DEF Covered
      <4> QED BY <3>1, <3>4, <4>1
    <3>5. CASE series[<<r, c>>] = 0
      BY <1>8, <3>1, <3>2, <3>3, <3>5
    <3> QED BY <3>4, <3>5
  <2> QED BY <2>3, <2>4
<1>16. SceneOK' /\ scene'.flaws = scene.flaws
  BY <1>1, SceneStays
<1> QED BY <1>9, <1>12, <1>13, <1>14, <1>15, <1>16 DEF MatchInv

\* A pass by time of a camera that is not here, or has its series already.
LEMMA PassSkipped ==
  ASSUME CardMatchAssumption, Recognisable, MatchInv, Plain, NEW run \in {1, 2},
         NEW cam \in {1, 2}, todo # <<>>, Head(todo) = <<run, "time", cam>>,
         todo' = Tail(todo), UNCHANGED <<scene, used, series, matches>>,
         NotHere(cam) \/ series[<<run, cam>>] # 0
  PROVE  MatchInv'
<1>1. /\ SceneOK /\ MatchTypeOK /\ PassesInOrder /\ NumbersSuffice /\ FilesStay
      /\ BodiesAreTold
  BY DEF MatchInv, Plain
<1>2. scene' = scene /\ used' = used /\ series' = series /\ matches' = matches
  OBVIOUS
<1>3. todo \in Seq(PassKinds) /\ todo[1] = <<run, "time", cam>> /\ todo' \in Seq(PassKinds)
      /\ \A p : p # todo[1] /\ InTodo(p) => InTodo(p)'
  BY <1>1, TailIs DEF MatchTypeOK
<1>4. /\ SceneOK' /\ scene'.flaws = scene.flaws
      /\ \A c : Sure(c)' = Sure(c) /\ Clear(c)' = Clear(c) /\ Numbered(c)' = Numbered(c)
  BY <1>1, <1>2, SceneStays
<1>5. MatchTypeOK'
  BY <1>1, <1>2, <1>3, <1>4 DEF MatchTypeOK
<1>6. PassesInOrder'
  <2>1. \A m \in matches' : series'[<<m.run, m.cam>>] # 0
    BY <1>1, <1>2 DEF PassesInOrder
  <2>2. \A r \in {1, 2}, c \in Cameras :
            series'[<<r, c>>] # 0 => series[<<r, c>>] # 0 \/ (r = run /\ c = cam)
    BY <1>2
  <2> QED BY <1>1, <1>2, <2>1, <2>2, OrderAfter
<1>7. NumbersSuffice'
  <2>1. \A r, c : <<r, "number", c>> # todo[1]
    BY <1>3
  <2> QED BY <1>1, <1>2, <1>3, <1>4, <2>1 DEF NumbersSuffice, Bodies
<1>8. FilesStay'
  BY <1>1, <1>2, <1>4 DEF FilesStay, Same, Own
<1>9. ASSUME scene.flaws = {} PROVE Whole'
  <2>1. Whole
    BY <1>9 DEF MatchInv
  <2>2. SUFFICES ASSUME NEW r \in {1, 2}, NEW c \in Cameras, r <= scene.runs, Clear(c)
                 PROVE  IF series'[<<r, c>>] # 0
                        THEN Covered(r, c, matches')
                        ELSE InTodo(<<r, "time", c>>)'
    BY <1>2, <1>4 DEF Whole, Covered
  <2>3. IF series[<<r, c>>] # 0 THEN Covered(r, c, matches) ELSE InTodo(<<r, "time", c>>)
    BY <2>1, <2>2 DEF Whole
  <2>4. CASE series[<<r, c>>] # 0
    BY <1>2, <2>3, <2>4
  <2>5. CASE series[<<r, c>>] = 0
    <3>1. ~NotHere(c)
      <4>1. c \in {1, 2} /\ c \in Bodies(scene.dir)
        BY <2>2 DEF Clear, Cameras
      <4> QED BY <1>1, <4>1, Here
    <3>2. <<r, "time", c>> # todo[1]
      <4>1. SUFFICES ASSUME r = run, c = cam PROVE FALSE
        BY <1>3
      <4> QED BY <2>5, <3>1, <4>1
    <3> QED BY <1>2, <1>3, <2>3, <2>5, <3>2
  <2> QED BY <2>4, <2>5
<1> QED BY <1>4, <1>5, <1>6, <1>7, <1>8, <1>9 DEF MatchInv

LEMMA MatchPreserved ==
  ASSUME CardMatchAssumption, Recognisable, MatchInv, [MatchNext]_matchVars
  PROVE  MatchInv'
<1>1. CASE ~Plain
  <2>1. scene' = scene
    BY DEF MatchNext, NumberPass, TimePass, matchVars
  <2>2. SceneOK' /\ ~Plain'
    BY <1>1, <2>1, SceneStays DEF MatchInv
  <2> QED BY <2>2 DEF MatchInv
<1>2. CASE Plain /\ UNCHANGED matchVars
  <2>1. /\ scene' = scene /\ todo' = todo /\ used' = used /\ series' = series
        /\ matches' = matches
    BY <1>2 DEF matchVars
  <2>3. /\ SceneOK' = SceneOK /\ Plain' = Plain
        /\ \A c : Sure(c)' = Sure(c) /\ Clear(c)' = Clear(c) /\ Numbered(c)' = Numbered(c)
    BY <2>1, SceneStays
  <2>2. /\ MatchTypeOK' /\ PassesInOrder' /\ NumbersSuffice'
    <3>1. /\ MatchTypeOK /\ PassesInOrder /\ NumbersSuffice
      BY <1>2 DEF MatchInv
    <3>2. MatchTypeOK'
      BY <2>1, <2>3, <3>1 DEF MatchTypeOK, MatchedFrames
    <3>3. PassesInOrder'
      BY <2>1, <3>1 DEF PassesInOrder
    <3>4. NumbersSuffice'
      <4>1. \A p : InTodo(p)' = InTodo(p)
        BY <2>1 DEF InTodo
      <4> QED BY <2>1, <2>3, <3>1, <4>1 DEF NumbersSuffice
    <3> QED BY <3>2, <3>3, <3>4
  <2>4. FilesStay' = FilesStay
    BY <2>1, <2>3 DEF FilesStay, Same, Own
  <2>5. ASSUME Whole PROVE Whole'
    <3>1. \A p : InTodo(p)' = InTodo(p)
      BY <2>1 DEF InTodo
    <3>2. SUFFICES ASSUME NEW r \in {1, 2}, NEW c \in Cameras, r <= scene.runs, Clear(c)
                   PROVE  IF series'[<<r, c>>] # 0
                          THEN Covered(r, c, matches')
                          ELSE InTodo(<<r, "time", c>>)'
      BY <2>1, <2>3 DEF Whole, Covered
    <3> QED BY <2>1, <2>5, <3>1, <3>2 DEF Whole
  <2> QED BY <1>2, <2>1, <2>2, <2>3, <2>4, <2>5 DEF MatchInv
<1>3. ASSUME Plain, NEW run \in {1, 2}, NEW cam \in Cameras, NumberPass(run, cam)
      PROVE  MatchInv'
  <2> DEFINE k == IF NotHere(cam) THEN NoOffset ELSE ByNumber(run, cam, Cards \ used)
  <2>1. /\ cam \in {1, 2} /\ todo # <<>> /\ Head(todo) = <<run, "number", cam>>
        /\ todo' = Tail(todo) /\ scene' = scene /\ Take(run, cam, k)
    BY <1>3 DEF NumberPass, Cameras
  <2>2. Fit(run, cam, "number", k)
    BY <1>3, <2>1, NumberFits
  <2>3. series[<<run, cam>>] = 0
    BY <1>3, <2>1, AtHead DEF MatchInv
  <2> HIDE DEF k
  <2> QED BY <1>3, <2>1, <2>2, <2>3, PassTaken
<1>4. ASSUME Plain, NEW run \in {1, 2}, NEW cam \in Cameras, TimePass(run, cam)
      PROVE  MatchInv'
  <2> DEFINE k == ByTime(run, cam, Cards \ used,
                         {c \in Cameras \ {cam} : series[<<run, c>>] = 0})
  <2>1. /\ cam \in {1, 2} /\ todo # <<>> /\ Head(todo) = <<run, "time", cam>>
        /\ todo' = Tail(todo) /\ scene' = scene
        /\ IF NotHere(cam) \/ series[<<run, cam>>] # 0
           THEN UNCHANGED <<used, series, matches>> ELSE Take(run, cam, k)
    BY <1>4 DEF TimePass, Cameras
  <2>2. CASE NotHere(cam) \/ series[<<run, cam>>] # 0
    <3>1. UNCHANGED <<scene, used, series, matches>>
      BY <2>1, <2>2
    <3> QED BY <1>4, <2>1, <2>2, <3>1, PassSkipped
  <2>3. CASE ~NotHere(cam) /\ series[<<run, cam>>] = 0
    <3>1. Take(run, cam, k)
      BY <2>1, <2>3
    <3>2. Fit(run, cam, "time", k)
      BY <1>4, <2>1, <2>3, TimeFits
    <3> HIDE DEF k
    <3> QED BY <1>4, <2>1, <2>3, <3>1, <3>2, PassTaken
  <2> QED BY <2>2, <2>3
<1> QED BY <1>1, <1>2, <1>3, <1>4 DEF MatchNext

\* With a long enough run, shots two bins apart, a journal within its reach and
\* directories that say whose card they are, the passes of ingest keep
\* their order and their evidence (ingest.py: match_run, ingest).
THEOREM MatchInductive ==
  ASSUME CardMatchAssumption, Recognisable
  PROVE  MatchSpec => []MatchInv
<1>1. MatchInit => MatchInv
  BY MatchStarts
<1>2. MatchInv /\ [MatchNext]_matchVars => MatchInv'
  BY MatchPreserved
<1> QED BY <1>1, <1>2, PTL DEF MatchSpec

LEMMA EmptyIsFew ==
  ASSUME scene.flaws = {}
  PROVE  Few
BY FS_EmptySet DEF Few

LEMMA RowsKeepFiles ==
  ASSUME MatchInv
  PROVE  FramesKeepTheirRow
<1> SUFFICES ASSUME NEW m \in matches, Cardinality(scene.flaws) <= 1, NumbersAreRight,
                    BodiesAreTold, m.cam \in scene.journal \/ scene.runs = 1
             PROVE  Same(m)
  BY DEF FramesKeepTheirRow
<1>1. FilesStay /\ Sure(m.cam)
  BY DEF MatchInv, Plain, Few, Sure
<1> QED BY <1>1 DEF FilesStay

LEMMA ClearIsWhole ==
  ASSUME MatchInv
  PROVE  ClearCardIsMatched
<1> SUFFICES ASSUME todo = <<>>, scene.flaws = {}, NumbersAreRight, BodiesAreTold,
                    NEW run \in 1..scene.runs, NEW cam \in Cameras, Clear(cam)
             PROVE  Covered(run, cam, matches)
  BY DEF ClearCardIsMatched, Covered
<1>1. SceneOK /\ Whole
  BY EmptyIsFew DEF MatchInv, Plain
<1>2. run \in {1, 2} /\ run <= scene.runs
  BY <1>1 DEF SceneOK
<1>3. ~InTodo(<<run, "time", cam>>)
  BY DEF InTodo
<1> QED BY <1>1, <1>2, <1>3 DEF Whole

\* With one flaw at most on the card, most of its numbers right and its bodies
\* told apart, a frame that is given to a row of a camera in the journal, or of
\* the only run there is, is the exposure of that row: neither a shift by a
\* period nor the other body's (_offset_by_number, _offset_by_time).
THEOREM FramesStayInRow ==
  ASSUME CardMatchAssumption, Recognisable
  PROVE  MatchSpec => []FramesKeepTheirRow
<1>1. MatchInv => FramesKeepTheirRow
  BY RowsKeepFiles
<1> QED BY <1>1, MatchInductive, PTL

\* And a card without flaws is matched whole for every camera whose numbers, its
\* journal or its directory tell its files (match_run, _offset_by_time).
THEOREM CardsStayAttributed ==
  ASSUME CardMatchAssumption, Recognisable
  PROVE  MatchSpec => []CardsAreAttributed
<1>1. MatchInv => CardsAreAttributed
  BY RowsKeepFiles, ClearIsWhole DEF CardsAreAttributed
<1> QED BY <1>1, MatchInductive, PTL
=============================================================================
