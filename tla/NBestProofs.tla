----------------------------- MODULE NBestProofs -----------------------------
(***************************************************************************)
(* Proofs about NBest, for every N and every set of units.                 *)
(*                                                                         *)
(* That the links thread all candidates (ChainComplete) is not inductive:  *)
(* an insertion changes the list at the place its search has come to, so   *)
(* the invariant also says where that is (Searching), and that the scores  *)
(* fall along the links (Sorted): only then may the search stop at the     *)
(* first candidate that is not worse.                                      *)
(***************************************************************************)
EXTENDS NBest, Sequences, FiniteSetTheorems, TLAPS

-----------------------------------------------------------------------------
(* A set of naturals has a least element: what replaces induction below.   *)

Less == { p \in Nat \X Nat : p[1] < p[2] }

LEMMA LeastElement ==
  ASSUME NEW S \in SUBSET Nat, S # {}
  PROVE  \E n \in S : \A m \in S : n <= m
<1>1. IsWellFoundedOn(Less, Nat)
  BY NatLessThanWellFounded DEF OpToRel, Less
<1>2. PICK n \in S : \A m \in S : ~(<< m, n >> \in Less)
  BY <1>1, WFMin
<1>3. \A i \in Nat, j \in Nat : i < j => << i, j >> \in Less
  BY DEF Less
<1>4. ASSUME NEW m \in S PROVE n <= m
  <2>1. ~(<< m, n >> \in Less)
    BY <1>2
  <2>2. ~(m < n)
    BY <2>1, <1>3
  <2> QED
    BY <2>2
<1> QED
  BY <1>4
-----------------------------------------------------------------------------
(***************************************************************************)
(* order[1], ..., order[n] are the places of n candidates, the best first, *)
(* and prev and last are the links that thread them.                       *)
(***************************************************************************)
Threads(order, prev, last, n) ==
  /\ order \in [1 .. n -> 0 .. n - 1]
  /\ \A i \in 0 .. n - 1 : \E k \in 1 .. n : order[k] = i
  /\ \A j, k \in 1 .. n : j # k => order[j] # order[k]
  /\ n > 0 => order[n] = last /\ prev[order[1]] = -1
  /\ \A k \in 1 .. n - 1 : prev[order[k + 1]] = order[k]

(* Following the links from the last candidate on gives just that order.   *)
LEMMA FollowedLinks ==
  ASSUME NEW n \in Nat, NEW order, NEW prev, NEW last, Threads(order, prev, last, n),
         NEW c, c = [k \in 1 .. n |-> IF k = n THEN last ELSE prev[c[k + 1]]]
  PROVE  c = order
<1> DEFINE Differ == { m \in Nat : m < n /\ c[n - m] # order[n - m] }
<1>1. Differ = {}
  <2> SUFFICES ASSUME Differ # {} PROVE FALSE
    OBVIOUS
  <2>1. PICK m \in Differ : \A i \in Differ : m <= i
    BY LeastElement
  <2>2. m \in Nat /\ m < n /\ n - m \in 1 .. n /\ c[n - m] # order[n - m]
    BY <2>1
  <2>3. CASE m = 0
    BY <2>2, <2>3 DEF Threads
  <2>4. CASE m > 0
    <3>1. ~(m - 1 \in Differ)
      <4> HIDE DEF Differ
      <4> QED
        BY <2>1, <2>2, <2>4
    <3>2. m - 1 \in Nat /\ m - 1 < n /\ n - (m - 1) = n - m + 1
      BY <2>2, <2>4
    <3>3. c[n - m + 1] = order[n - m + 1]
      BY <3>1, <3>2
    <3>4. c[n - m] = prev[c[n - m + 1]] /\ n - m \in 1 .. n - 1
      BY <2>2, <2>4
    <3> QED
      BY <2>2, <3>3, <3>4 DEF Threads
  <2> QED
    BY <2>2, <2>3, <2>4
<1>2. ASSUME NEW k \in 1 .. n PROVE c[k] = order[k]
  <2>1. n - k \in Nat /\ n - k < n /\ n - (n - k) = k
    OBVIOUS
  <2> QED
    BY <1>1, <2>1
<1> QED
  BY <1>2 DEF Threads

(* The order solves the equation that defines `chain`...                   *)
LEMMA OrderIsSolution ==
  ASSUME NEW n \in Nat, NEW order, NEW prev, NEW last, Threads(order, prev, last, n)
  PROVE  order = [k \in 1 .. n |-> IF k = n THEN last ELSE prev[order[k + 1]]]
<1>1. \A k \in 1 .. n : order[k] = IF k = n THEN last ELSE prev[order[k + 1]]
  <2> SUFFICES ASSUME NEW k \in 1 .. n
               PROVE  order[k] = IF k = n THEN last ELSE prev[order[k + 1]]
    OBVIOUS
  <2>1. CASE k = n
    BY <2>1 DEF Threads
  <2>2. CASE k # n
    <3>1. k \in 1 .. n - 1
      BY <2>2
    <3> QED
      BY <2>2, <3>1 DEF Threads
  <2> QED
    BY <2>1, <2>2
<1>2. order = [k \in 1 .. n |-> order[k]]
  BY DEF Threads
<1> QED
  BY <1>1, <1>2

(* ... and is therefore what `chain` is, before a step and after it.       *)
LEMMA ChainIsOrder ==
  ASSUME canSize \in Nat, NEW order, Threads(order, previous, lastIndex, canSize)
  PROVE  chain = order
<1>1. PICK n, prev, last : n = canSize /\ prev = previous /\ last = lastIndex
  OBVIOUS
<1>2. n \in Nat /\ Threads(order, prev, last, n)
  BY <1>1
<1>3. order = [k \in 1 .. n |-> IF k = n THEN last ELSE prev[order[k + 1]]]
  BY <1>2, OrderIsSolution
<1>4. chain = CHOOSE c : c = [k \in 1 .. n |-> IF k = n THEN last ELSE prev[c[k + 1]]]
  BY <1>1 DEF chain
<1>5. PICK c : c = chain
  OBVIOUS
<1>6. c = [k \in 1 .. n |-> IF k = n THEN last ELSE prev[c[k + 1]]]
  BY <1>3, <1>4, <1>5
<1> QED
  BY <1>2, <1>5, <1>6, FollowedLinks

LEMMA NextChainIsOrder ==
  ASSUME canSize' \in Nat, NEW order, Threads(order, previous', lastIndex', canSize')
  PROVE  chain' = order
<1>1. PICK n, prev, last : n = canSize' /\ prev = previous' /\ last = lastIndex'
  OBVIOUS
<1>2. n \in Nat /\ Threads(order, prev, last, n)
  BY <1>1
<1>3. order = [k \in 1 .. n |-> IF k = n THEN last ELSE prev[order[k + 1]]]
  BY <1>2, OrderIsSolution
<1>4. chain' = CHOOSE c : c = [k \in 1 .. n |-> IF k = n THEN last ELSE prev[c[k + 1]]]
  BY <1>1 DEF chain
<1>5. PICK c : c = chain'
  OBVIOUS
<1>6. c = [k \in 1 .. n |-> IF k = n THEN last ELSE prev[c[k + 1]]]
  BY <1>3, <1>4, <1>5
<1> QED
  BY <1>2, <1>5, <1>6, FollowedLinks
-----------------------------------------------------------------------------
(* Three ways to put a candidate into a threaded list.                     *)

(* The place behind the last one, n, becomes the worst candidate.          *)
LEMMA ThreadsAppend ==
  ASSUME NEW n \in Nat, NEW order, NEW prev, NEW last, Threads(order, prev, last, n),
         NEW next, \A i \in 0 .. n - 1 : next[i] = prev[i],
         next[n] = IF n = 0 THEN -1 ELSE last
  PROVE  Threads([k \in 1 .. n + 1 |-> IF k = n + 1 THEN n ELSE order[k]], next, n, n + 1)
<1> DEFINE longer == [k \in 1 .. n + 1 |-> IF k = n + 1 THEN n ELSE order[k]]
<1>1. longer \in [1 .. n + 1 -> 0 .. n]
  BY DEF Threads
<1>2. \A i \in 0 .. n : \E k \in 1 .. n + 1 : longer[k] = i
  <2>1. \A i \in 0 .. n - 1 : \E k \in 1 .. n : longer[k] = i
    BY DEF Threads
  <2>2. longer[n + 1] = n /\ n + 1 \in 1 .. n + 1
    OBVIOUS
  <2> HIDE DEF longer
  <2> QED
    BY <2>1, <2>2
<1>3. \A j, k \in 1 .. n + 1 : j # k => longer[j] # longer[k]
  BY DEF Threads
<1>4. longer[n + 1] = n /\ next[longer[1]] = -1
  BY DEF Threads
<1>5. ASSUME NEW k \in 1 .. n PROVE next[longer[k + 1]] = longer[k]
  <2>0. order \in [1 .. n -> 0 .. n - 1] /\ n \in 1 .. n /\ order[n] = last
    <3>1. n \in 1 .. n /\ n > 0
      OBVIOUS
    <3> QED
      BY <3>1 DEF Threads
  <2>1. k # n + 1 /\ longer[k] = order[k] /\ order[k] \in 0 .. n - 1
    BY <2>0
  <2>2. CASE k = n
    <3>1. longer[k + 1] = n /\ longer[k] = last
      BY <2>0, <2>1, <2>2, <1>4
    <3> QED
      BY <3>1
  <2>3. CASE k # n
    <3>0. k \in 1 .. n - 1 /\ k + 1 \in 1 .. n /\ k + 1 # n + 1
      BY <2>3
    <3>1. longer[k + 1] = order[k + 1] /\ order[k + 1] \in 0 .. n - 1
      BY <2>0, <3>0
    <3>2. prev[order[k + 1]] = order[k]
      BY <3>0 DEF Threads
    <3> QED
      BY <2>1, <3>1, <3>2
  <2> QED
    BY <2>2, <2>3
<1> HIDE DEF longer
<1>6. Threads(longer, next, n, n + 1)
  BY <1>1, <1>2, <1>3, <1>4, <1>5 DEF Threads
<1> QED
  BY <1>6 DEF longer

(* The order with candidate d at position p, cut to n candidates.          *)
Shifted(order, p, d, n) ==
  [k \in 1 .. n |-> IF k < p THEN order[k] ELSE IF k = p THEN d ELSE order[k - 1]]

(* Candidate n goes before the one at position p.                          *)
LEMMA ThreadsInsert ==
  ASSUME NEW n \in Nat, NEW order, NEW prev, NEW last, Threads(order, prev, last, n),
         NEW p \in 1 .. n, NEW next,
         next[n] = IF p = 1 THEN -1 ELSE order[p - 1],
         next[order[p]] = n,
         \A i \in 0 .. n - 1 : i # order[p] => next[i] = prev[i]
  PROVE  Threads(Shifted(order, p, n, n + 1), next, last, n + 1)
<1> DEFINE longer == Shifted(order, p, n, n + 1)
<1>a. \A k \in 1 .. n : order[k] \in 0 .. n - 1
  BY DEF Threads
<1>b. \A j, k \in 1 .. n : j # k => order[j] # order[k]
  BY DEF Threads
<1>c. order[n] = last /\ prev[order[1]] = -1 /\ \A k \in 1 .. n - 1 : prev[order[k + 1]] = order[k]
  BY DEF Threads
<1>d. \A k \in 1 .. n : k # p => next[order[k]] = prev[order[k]]
  BY <1>a, <1>b
<1>0. \A k \in 1 .. n + 1 :
        /\ k < p => longer[k] = order[k]
        /\ k = p => longer[k] = n
        /\ k > p => longer[k] = order[k - 1]
  BY DEF Shifted
<1>1. longer \in [1 .. n + 1 -> 0 .. n]
  <2>1. \A k \in 1 .. n + 1 : longer[k] \in 0 .. n
    <3> HIDE DEF longer
    <3> SUFFICES ASSUME NEW k \in 1 .. n + 1 PROVE longer[k] \in 0 .. n
      OBVIOUS
    <3>1. CASE k < p
      BY <1>0, <1>a, <3>1
    <3>2. CASE k = p
      BY <1>0, <3>2
    <3>3. CASE k > p
      <4>1. k - 1 \in 1 .. n
        BY <3>3
      <4> QED
        BY <1>0, <1>a, <3>3, <4>1
    <3> QED
      BY <3>1, <3>2, <3>3
  <2> QED
    BY <2>1 DEF Shifted
<1> HIDE DEF longer
<1>2. \A i \in 0 .. n : \E k \in 1 .. n + 1 : longer[k] = i
  <2>1. ASSUME NEW i \in 0 .. n - 1 PROVE \E k \in 1 .. n + 1 : longer[k] = i
    <3>1. PICK k \in 1 .. n : order[k] = i
      BY DEF Threads
    <3>2. CASE k < p
      BY <1>0, <3>1, <3>2
    <3>3. CASE k >= p
      <4>1. longer[k + 1] = i /\ k + 1 \in 1 .. n + 1
        BY <1>0, <3>1, <3>3
      <4> QED
        BY <4>1
    <3> QED
      BY <3>2, <3>3
  <2>2. longer[p] = n
    BY <1>0
  <2> QED
    BY <2>1, <2>2
<1>3. ASSUME NEW j \in 1 .. n + 1, NEW k \in 1 .. n + 1, j < k PROVE longer[j] # longer[k]
  <2>1. CASE k < p
    BY <1>0, <1>b, <1>3, <2>1
  <2>2. CASE k = p
    BY <1>0, <1>a, <1>3, <2>2
  <2>3. CASE k > p
    <3>1. k - 1 \in 1 .. n /\ longer[k] = order[k - 1]
      BY <1>0, <2>3
    <3>2. CASE j < p
      BY <1>0, <1>b, <2>3, <3>1, <3>2
    <3>3. CASE j = p
      BY <1>0, <1>a, <3>1, <3>3
    <3>4. CASE j > p
      <4>1. j - 1 \in 1 .. n /\ longer[j] = order[j - 1]
        BY <1>0, <3>4
      <4> QED
        BY <1>3, <1>b, <3>1, <4>1
    <3> QED
      BY <3>2, <3>3, <3>4
  <2> QED
    BY <2>1, <2>2, <2>3
<1>4. longer[n + 1] = last /\ next[longer[1]] = -1
  <2>1. longer[n + 1] = last
    BY <1>0, <1>c
  <2>2. CASE p = 1
    BY <1>0, <2>1, <2>2
  <2>3. CASE p # 1
    <3>1. longer[1] = order[1] /\ 1 \in 1 .. n
      BY <1>0, <2>3
    <3> QED
      BY <1>c, <1>d, <2>1, <2>3, <3>1
  <2> QED
    BY <2>1, <2>2, <2>3
<1>5. ASSUME NEW k \in 1 .. n PROVE next[longer[k + 1]] = longer[k]
  <2>1. CASE k + 1 < p
    BY <1>0, <1>c, <1>d, <2>1
  <2>2. CASE k + 1 = p
    BY <1>0, <2>2
  <2>3. CASE k = p
    BY <1>0, <2>3
  <2>4. CASE k > p
    <3>1. longer[k + 1] = order[k] /\ longer[k] = order[k - 1]
      BY <1>0, <2>4
    <3>2. k - 1 \in 1 .. n - 1 /\ (k - 1) + 1 = k
      BY <2>4
    <3>3. prev[order[k]] = order[k - 1]
      BY <1>c, <3>2
    <3> QED
      BY <1>d, <2>4, <3>1, <3>3
  <2> QED
    BY <2>1, <2>2, <2>3, <2>4
<1>6. Threads(longer, next, last, n + 1)
  <2>1. \A j, k \in 1 .. n + 1 : j # k => longer[j] # longer[k]
    BY <1>3
  <2>2. (n + 1) - 1 = n
    OBVIOUS
  <2> QED
    BY <1>1, <1>2, <1>4, <1>5, <2>1, <2>2 DEF Threads
<1> QED
  BY <1>6 DEF longer

(* The worst candidate's place is taken by the one at position p.          *)
LEMMA ThreadsReplace ==
  ASSUME NEW n \in Nat, NEW order, NEW prev, NEW last, Threads(order, prev, last, n),
         NEW p \in 1 .. n, NEW next,
         next[last] = IF p = 1 THEN -1 ELSE order[p - 1],
         p < n => next[order[p]] = last,
         \A i \in 0 .. n - 1 : i # order[p] /\ i # last => next[i] = prev[i]
  PROVE  Threads(Shifted(order, p, last, n), next, IF p = n THEN last ELSE order[n - 1], n)
<1> DEFINE other == Shifted(order, p, last, n)
           worst == IF p = n THEN last ELSE order[n - 1]
<1>a. \A k \in 1 .. n : order[k] \in 0 .. n - 1
  BY DEF Threads
<1>b. \A j, k \in 1 .. n : j # k => order[j] # order[k]
  BY DEF Threads
<1>c. order[n] = last /\ prev[order[1]] = -1 /\ \A k \in 1 .. n - 1 : prev[order[k + 1]] = order[k]
  BY DEF Threads
<1>d. \A k \in 1 .. n - 1 : k # p => next[order[k]] = prev[order[k]]
  BY <1>a, <1>b, <1>c
<1>0. \A k \in 1 .. n :
        /\ k < p => other[k] = order[k]
        /\ k = p => other[k] = last
        /\ k > p => other[k] = order[k - 1]
  BY DEF Shifted
<1>1. other \in [1 .. n -> 0 .. n - 1]
  <2>1. \A k \in 1 .. n : other[k] \in 0 .. n - 1
    <3> HIDE DEF other
    <3> SUFFICES ASSUME NEW k \in 1 .. n PROVE other[k] \in 0 .. n - 1
      OBVIOUS
    <3>1. CASE k < p
      BY <1>0, <1>a, <3>1
    <3>2. CASE k = p
      BY <1>0, <1>a, <1>c, <3>2
    <3>3. CASE k > p
      <4>1. k - 1 \in 1 .. n
        BY <3>3
      <4> QED
        BY <1>0, <1>a, <3>3, <4>1
    <3> QED
      BY <3>1, <3>2, <3>3
  <2> QED
    BY <2>1 DEF Shifted
<1> HIDE DEF other
<1>2. \A i \in 0 .. n - 1 : \E k \in 1 .. n : other[k] = i
  <2> SUFFICES ASSUME NEW i \in 0 .. n - 1 PROVE \E k \in 1 .. n : other[k] = i
    OBVIOUS
  <2>1. PICK k \in 1 .. n : order[k] = i
    BY DEF Threads
  <2>2. CASE k < p
    BY <1>0, <2>1, <2>2
  <2>3. CASE k >= p /\ k < n
    <3>1. other[k + 1] = i /\ k + 1 \in 1 .. n
      BY <1>0, <2>1, <2>3
    <3> QED
      BY <3>1
  <2>4. CASE k = n
    <3>1. other[p] = i
      BY <1>0, <1>c, <2>1, <2>4
    <3> QED
      BY <3>1
  <2> QED
    BY <2>2, <2>3, <2>4
<1>3. ASSUME NEW j \in 1 .. n, NEW k \in 1 .. n, j < k PROVE other[j] # other[k]
  <2>1. CASE k < p
    BY <1>0, <1>b, <1>3, <2>1
  <2>2. CASE k = p
    <3>1. other[j] = order[j] /\ j # n /\ other[k] = order[n]
      BY <1>0, <1>c, <1>3, <2>2
    <3> QED
      BY <1>b, <3>1
  <2>3. CASE k > p
    <3>1. k - 1 \in 1 .. n /\ other[k] = order[k - 1]
      BY <1>0, <2>3
    <3>2. CASE j < p
      BY <1>0, <1>b, <2>3, <3>1, <3>2
    <3>3. CASE j = p
      <4>1. other[j] = order[n] /\ k - 1 # n
        BY <1>0, <1>c, <3>3
      <4> QED
        BY <1>b, <3>1, <4>1
    <3>4. CASE j > p
      <4>1. j - 1 \in 1 .. n /\ other[j] = order[j - 1]
        BY <1>0, <3>4
      <4> QED
        BY <1>3, <1>b, <3>1, <4>1
    <3> QED
      BY <3>2, <3>3, <3>4
  <2> QED
    BY <2>1, <2>2, <2>3
<1>4. other[n] = worst /\ next[other[1]] = -1
  <2>1. other[n] = worst
    BY <1>0
  <2>2. CASE p = 1
    BY <1>0, <2>2
  <2>3. CASE p # 1
    BY <1>0, <1>c, <1>d, <2>3
  <2> QED
    BY <2>1, <2>2, <2>3
<1>5. ASSUME NEW k \in 1 .. n - 1 PROVE next[other[k + 1]] = other[k]
  <2>1. CASE k + 1 < p
    BY <1>0, <1>c, <1>d, <2>1
  <2>2. CASE k + 1 = p
    BY <1>0, <2>2
  <2>3. CASE k = p
    BY <1>0, <2>3
  <2>4. CASE k > p
    <3>1. other[k + 1] = order[k] /\ other[k] = order[k - 1]
      BY <1>0, <2>4
    <3>2. k - 1 \in 1 .. n - 1 /\ (k - 1) + 1 = k
      BY <2>4
    <3>3. prev[order[k]] = order[k - 1]
      BY <1>c, <3>2
    <3> QED
      BY <1>d, <2>4, <3>1, <3>3
  <2> QED
    BY <2>1, <2>2, <2>3, <2>4
<1>6. Threads(other, next, worst, n)
  <2>1. \A j, k \in 1 .. n : j # k => other[j] # other[k]
    BY <1>3
  <2> QED
    BY <1>1, <1>2, <1>4, <1>5, <2>1 DEF Threads
<1> QED
  BY <1>6 DEF other
-----------------------------------------------------------------------------
(* The inductive invariant.                                                *)

(* The scores fall from the best candidate to the worst. *)
Sorted ==
  \A j, k \in 1 .. canSize : j <= k => unit[chain[j]].score >= unit[chain[k]].score

(* The search has come to position p: all from there on are worse. *)
SearchAt(p) ==
  /\ lIndex = chain[p]
  /\ cIndex = IF p = 1 THEN -1 ELSE chain[p - 1]
  /\ \A k \in p .. canSize : unit[chain[k]].score < given.score

Searching == walking => \E p \in 1 .. canSize : SearchAt(p)

Threaded == Threads(chain, previous, lastIndex, canSize)

IInv == TypeOK /\ Threaded /\ Sorted /\ Searching

(* It is more than the property the runs check.                            *)
LEMMA IInvChainComplete == IInv => ChainComplete
<1> SUFFICES ASSUME IInv, canSize > 0
             PROVE  /\ { chain[k] : k \in 1 .. canSize } = 0 .. canSize - 1
                    /\ previous[chain[1]] = -1
  BY DEF ChainComplete
<1>1. Threads(chain, previous, lastIndex, canSize)
  BY DEF IInv, Threaded
<1>2. \A k \in 1 .. canSize : chain[k] \in 0 .. canSize - 1
  BY <1>1 DEF Threads
<1>3. \A i \in 0 .. canSize - 1 : \E k \in 1 .. canSize : chain[k] = i
  BY <1>1 DEF Threads
<1>4. previous[chain[1]] = -1
  BY <1>1 DEF Threads
<1> QED
  BY <1>2, <1>3, <1>4

(* Facts about the places of the list used in every step.                  *)
LEMMA Places ==
  ASSUME IInv
  PROVE  /\ canSize \in Nat /\ canSize <= N
         /\ \A k \in 1 .. canSize : chain[k] \in 0 .. canSize - 1 /\ chain[k] \in Slots
         /\ \A j, k \in 1 .. canSize : j # k => chain[j] # chain[k]
         /\ canSize > 0 => /\ lastIndex = chain[canSize]
                           /\ lastIndex \in 0 .. canSize - 1
                           /\ lastIndex \in Slots
         /\ \A i \in Slots : unit[i] \in Unit /\ unit[i].score \in Int
<1>1. canSize \in 0 .. N /\ unit \in [Slots -> Unit]
  BY DEF IInv, TypeOK
<1>2. Threads(chain, previous, lastIndex, canSize)
  BY DEF IInv, Threaded
<1>3. \A k \in 1 .. canSize : chain[k] \in 0 .. canSize - 1 /\ chain[k] \in Slots
  BY <1>1, <1>2, NAssumption DEF Threads, Slots
<1>4. \A j, k \in 1 .. canSize : j # k => chain[j] # chain[k]
  BY <1>2 DEF Threads
<1>5. canSize > 0 => lastIndex = chain[canSize] /\ canSize \in 1 .. canSize
  BY <1>1, <1>2, NAssumption DEF Threads
<1>6. \A i \in Slots : unit[i] \in Unit /\ unit[i].score \in Int
  BY <1>1, UnitAssumption
<1> QED
  BY <1>1, <1>3, <1>4, <1>5, <1>6, NAssumption

(***************************************************************************)
(* What an insertion does to the list: u stands at position p, behind all  *)
(* that are at least as good; those behind it move one on, and the last    *)
(* one of a full list is gone.                                             *)
(***************************************************************************)
PutAt(p, u) ==
  /\ canSize' = IF canSize < N THEN canSize + 1 ELSE N
  /\ p \in 1 .. canSize'
  /\ \A k \in 1 .. canSize' :
        unit'[chain'[k]] = IF k < p THEN unit[chain[k]]
                           ELSE IF k = p THEN u ELSE unit[chain[k - 1]]
  /\ \A k \in 1 .. canSize : k < p => unit[chain[k]].score >= u.score
  /\ \A k \in 1 .. canSize : k >= p => unit[chain[k]].score < u.score

LEMMA PutAtSorted ==
  ASSUME IInv, NEW u \in Unit, NEW p, PutAt(p, u)
  PROVE  Sorted'
<1> DEFINE s(k) == unit[chain[k]].score
<1>1. /\ canSize \in Nat /\ canSize <= N /\ N \in Nat
      /\ canSize' = IF canSize < N THEN canSize + 1 ELSE N
      /\ p \in 1 .. canSize'
  BY Places, NAssumption DEF PutAt
<1>2. \A j, k \in 1 .. canSize : s(j) \in Int /\ (j <= k => s(j) >= s(k))
  BY Places DEF IInv, Sorted
<1>3. u.score \in Int
  BY UnitAssumption
<1> SUFFICES ASSUME NEW j \in 1 .. canSize', NEW k \in 1 .. canSize', j <= k
             PROVE  unit'[chain'[j]].score >= unit'[chain'[k]].score
  BY DEF Sorted
<1>4. /\ \A i \in 1 .. canSize' :
           unit'[chain'[i]].score = IF i < p THEN s(i) ELSE IF i = p THEN u.score ELSE s(i - 1)
      /\ \A i \in 1 .. canSize : i < p => s(i) >= u.score
      /\ \A i \in 1 .. canSize : i >= p => s(i) < u.score
  BY DEF PutAt
<1> HIDE DEF s
<1>5. CASE k < p
  BY <1>1, <1>2, <1>4, <1>5
<1>6. CASE k = p
  BY <1>1, <1>2, <1>3, <1>4, <1>6
<1>7. CASE k > p
  <2>1. k - 1 \in 1 .. canSize
    BY <1>1, <1>7
  <2>2. CASE j < p
    BY <1>1, <1>2, <1>4, <1>7, <2>1, <2>2
  <2>3. CASE j = p
    BY <1>1, <1>2, <1>3, <1>4, <1>7, <2>1, <2>3
  <2>4. CASE j > p
    <3>1. j - 1 \in 1 .. canSize
      BY <1>1, <2>4
    <3> QED
      BY <1>1, <1>2, <1>4, <1>7, <2>1, <2>4, <3>1
  <2> QED
    BY <1>1, <2>2, <2>3, <2>4
<1> QED
  BY <1>1, <1>5, <1>6, <1>7
-----------------------------------------------------------------------------
(* Each branch of insertCandidate puts its unit where PutAt says.          *)

LEMMA HeadPutAt ==
  ASSUME IInv, NEW u \in Unit, ~walking, InsertHead(u)
  PROVE  TypeOK' /\ Threaded' /\ PutAt(1, u)
<1>1. /\ unit' = [unit EXCEPT ![0] = u] /\ previous' = [previous EXCEPT ![0] = -1]
      /\ lastIndex' = 0 /\ canSize' = 1 /\ UNCHANGED search
  BY DEF InsertHead, Put
<1>2. TypeOK' /\ unit'[0] = u /\ previous'[0] = -1
  BY <1>1, NAssumption DEF IInv, TypeOK, Slots, search
<1> DEFINE one == [k \in 1 .. 1 |-> 0]
<1>3. Threads(one, previous', lastIndex', canSize')
  BY <1>1, <1>2 DEF Threads
<1>4. chain' = one
  BY <1>1, <1>3, NextChainIsOrder
<1>5. canSize = 0 \/ (N = 1 /\ canSize = 1 /\ u.score > unit[lastIndex].score)
  BY Places DEF InsertHead, IsHead
<1>6. PutAt(1, u)
  <2>1. canSize' = IF canSize < N THEN canSize + 1 ELSE N
    BY <1>1, <1>5, NAssumption
  <2>2. \A k \in 1 .. canSize' : k = 1 /\ unit'[chain'[k]] = u
    BY <1>1, <1>2, <1>4
  <2>3. \A k \in 1 .. canSize : k = 1 /\ unit[chain[k]].score < u.score
    BY <1>5, Places, UnitAssumption
  <2> QED
    BY <1>1, <2>1, <2>2, <2>3 DEF PutAt
<1> QED
  BY <1>2, <1>3, <1>4, <1>6 DEF Threaded

LEMMA LastPutAt ==
  ASSUME IInv, NEW u \in Unit, ~walking, ~Full(u), InsertLast(u)
  PROVE  TypeOK' /\ Threaded' /\ PutAt(canSize + 1, u)
<1>1. /\ unit' = [unit EXCEPT ![canSize] = u]
      /\ previous' = [previous EXCEPT ![canSize] = lastIndex]
      /\ lastIndex' = canSize /\ canSize' = canSize + 1 /\ UNCHANGED search
      /\ u.score <= unit[lastIndex].score
  BY DEF InsertLast, Put
<1>2. canSize \in Slots /\ canSize > 0 /\ canSize < N
  BY <1>1, Places, NAssumption DEF Full, InsertLast, IsHead, Slots
<1>3. unit'[canSize] = u /\ previous'[canSize] = lastIndex
  BY <1>1, <1>2 DEF IInv, TypeOK
<1>4. \A i \in 0 .. canSize - 1 : unit'[i] = unit[i] /\ previous'[i] = previous[i]
  BY <1>1, <1>2 DEF IInv, TypeOK, Slots
<1>5. TypeOK'
  BY <1>1, <1>2, NAssumption DEF IInv, TypeOK, Slots, search
<1> DEFINE longer == [k \in 1 .. canSize + 1 |-> IF k = canSize + 1 THEN canSize ELSE chain[k]]
<1>6. Threads(longer, previous', lastIndex', canSize')
  <2>1. canSize \in Nat /\ Threads(chain, previous, lastIndex, canSize)
    BY Places DEF IInv, Threaded
  <2>2. /\ \A i \in 0 .. canSize - 1 : previous'[i] = previous[i]
        /\ previous'[canSize] = IF canSize = 0 THEN -1 ELSE lastIndex
    BY <1>2, <1>3, <1>4
  <2>3. Threads(longer, previous', canSize, canSize + 1)
    BY <2>1, <2>2, ThreadsAppend
  <2> QED
    BY <1>1, <2>3
<1>7. chain' = longer
  <2>1. canSize' \in Nat
    BY <1>1, <1>2 DEF Slots
  <2> HIDE DEF longer
  <2> QED
    BY <1>6, <2>1, NextChainIsOrder
<1>8. PutAt(canSize + 1, u)
  <2>1. canSize' = IF canSize < N THEN canSize + 1 ELSE N
    BY <1>1, <1>2
  <2>2. ASSUME NEW k \in 1 .. canSize'
        PROVE  unit'[chain'[k]] = IF k < canSize + 1 THEN unit[chain[k]] ELSE u
    BY <1>1, <1>2, <1>3, <1>4, <1>7, Places
  <2>3. ASSUME NEW k \in 1 .. canSize PROVE k < canSize + 1 /\ unit[chain[k]].score >= u.score
    <3>1. unit[chain[k]].score >= unit[chain[canSize]].score
      BY <1>2, Places DEF IInv, Sorted
    <3>2. unit[chain[k]].score \in Int /\ unit[lastIndex].score \in Int /\ u.score \in Int
      BY <1>2, Places, UnitAssumption
    <3> QED
      BY <1>1, <1>2, <3>1, <3>2, Places
  <2> QED
    BY <1>1, <1>2, <2>1, <2>2, <2>3, Places DEF PutAt
<1> QED
  BY <1>5, <1>6, <1>7, <1>8 DEF Threaded
(* Where the search stops, all before it are at least as good.             *)
LEMMA StopsBehindBetter ==
  ASSUME IInv, walking, ~Worse(cIndex), NEW p \in 1 .. canSize, SearchAt(p)
  PROVE  /\ \A k \in 1 .. canSize : k < p => unit[chain[k]].score >= given.score
         /\ \A k \in 1 .. canSize : k >= p => unit[chain[k]].score < given.score
<1>1. given.score \in Int /\ \A k \in 1 .. canSize : unit[chain[k]].score \in Int
  BY Places, UnitAssumption DEF IInv, TypeOK
<1>2. \A k \in 1 .. canSize : k >= p => unit[chain[k]].score < given.score
  BY Places DEF SearchAt
<1>3. ASSUME NEW k \in 1 .. canSize, k < p PROVE unit[chain[k]].score >= given.score
  <2>1. p - 1 \in 1 .. canSize /\ k <= p - 1 /\ cIndex = chain[p - 1]
    BY <1>3, Places DEF SearchAt
  <2>2. cIndex >= 0
    BY <2>1, Places
  <2>3. unit[chain[p - 1]].score >= given.score
    BY <1>1, <2>1, <2>2 DEF Worse
  <2>4. unit[chain[k]].score >= unit[chain[p - 1]].score
    BY <2>1 DEF IInv, Sorted
  <2> QED
    BY <1>1, <2>1, <2>3, <2>4
<1> QED
  BY <1>2, <1>3

LEMMA PlacePutAt ==
  ASSUME IInv, Place
  PROVE  TypeOK' /\ Threaded' /\ \E p \in 1 .. canSize : PutAt(p, given)
<1> DEFINE dest == IF canSize = N THEN lastIndex ELSE canSize
<1>1. /\ walking /\ ~Worse(cIndex)
      /\ lastIndex' = IF canSize = N /\ lIndex # lastIndex THEN previous[lastIndex] ELSE lastIndex
      /\ canSize' = IF canSize = N THEN N ELSE canSize + 1
      /\ unit' = [unit EXCEPT ![dest] = given]
      /\ previous' = [i \in Slots |-> IF i = dest THEN cIndex
                                      ELSE IF i = lIndex THEN dest ELSE previous[i]]
      /\ walking' = FALSE /\ given' = AnyUnit /\ lIndex' = -1 /\ cIndex' = -1
  BY DEF Place
<1>2. PICK p \in 1 .. canSize : SearchAt(p)
  BY <1>1 DEF IInv, Searching
<1>3. /\ canSize > 0 /\ canSize \in Nat /\ canSize <= N /\ N \in Nat
      /\ lIndex = chain[p] /\ lIndex \in 0 .. canSize - 1
      /\ cIndex = IF p = 1 THEN -1 ELSE chain[p - 1]
      /\ lastIndex = chain[canSize] /\ lastIndex \in Slots
      /\ dest \in Slots
  BY <1>2, Places, NAssumption DEF SearchAt, Slots
<1>4. \A i \in Slots : unit'[i] = IF i = dest THEN given ELSE unit[i]
  BY <1>1 DEF IInv, TypeOK
<1> HIDE DEF dest
<1>5. TypeOK'
  <2>1. unit' \in [Slots -> Unit]
    BY <1>1, <1>3 DEF IInv, TypeOK
  <2>2. previous' \in [Slots -> Slots \cup {-1}]
    BY <1>1, <1>3 DEF IInv, TypeOK
  <2>3. lastIndex' \in Slots \cup {-1}
    BY <1>1, <1>3 DEF IInv, TypeOK
  <2>4. canSize' \in 0 .. N
    BY <1>1, <1>3
  <2> QED
    BY <1>1, <2>1, <2>2, <2>3, <2>4, UnitAssumption DEF TypeOK
<1>6. Threads(chain, previous, lastIndex, canSize)
  BY DEF IInv, Threaded
<1>7. canSize' = (IF canSize < N THEN canSize + 1 ELSE N) /\ p \in 1 .. canSize' /\ canSize' \in Nat
  BY <1>1, <1>3
<1>8. chain' = Shifted(chain, p, dest, canSize') /\ Threads(chain', previous', lastIndex', canSize')
  <2>1. CASE canSize < N
    <3>1. dest = canSize /\ canSize' = canSize + 1 /\ lastIndex' = lastIndex
      BY <1>1, <1>3, <2>1 DEF dest
    <3>2. /\ previous'[canSize] = IF p = 1 THEN -1 ELSE chain[p - 1]
          /\ previous'[chain[p]] = canSize
          /\ \A i \in 0 .. canSize - 1 : i # chain[p] => previous'[i] = previous[i]
      BY <1>1, <1>3, <2>1, <3>1 DEF Slots
    <3>3. Threads(Shifted(chain, p, canSize, canSize + 1), previous', lastIndex, canSize + 1)
      BY <1>3, <1>6, <3>2, ThreadsInsert
    <3> QED
      BY <1>7, <3>1, <3>3, NextChainIsOrder
  <2>2. CASE canSize = N
    <3>1. dest = lastIndex /\ canSize' = canSize
      BY <1>1, <2>2 DEF dest
    <3>2. lIndex = lastIndex <=> p = canSize
      BY <1>3, Places
    <3>3. previous'[lastIndex] = IF p = 1 THEN -1 ELSE chain[p - 1]
      BY <1>1, <1>3, <3>1
    <3>4. p < canSize => previous'[chain[p]] = lastIndex
      BY <1>1, <1>3, <3>1, <3>2, Places
    <3>5. \A i \in 0 .. canSize - 1 : i # chain[p] /\ i # lastIndex => previous'[i] = previous[i]
      BY <1>1, <1>3, <2>2, <3>1 DEF Slots
    <3>6. lastIndex' = IF p = canSize THEN lastIndex ELSE chain[canSize - 1]
      <4>1. p # canSize => previous[lastIndex] = chain[canSize - 1]
        <5>1. ASSUME p # canSize PROVE canSize - 1 \in 1 .. canSize - 1 /\ (canSize - 1) + 1 = canSize
          BY <1>3, <5>1
        <5> QED
          BY <1>3, <1>6, <5>1 DEF Threads
      <4> QED
        BY <1>1, <2>2, <3>2, <4>1
    <3>7. Threads(Shifted(chain, p, lastIndex, canSize), previous',
                  IF p = canSize THEN lastIndex ELSE chain[canSize - 1], canSize)
      BY <1>3, <1>6, <3>3, <3>4, <3>5, ThreadsReplace
    <3> QED
      BY <1>7, <3>1, <3>6, <3>7, NextChainIsOrder
  <2> QED
    BY <1>3, <2>1, <2>2
<1>9. PutAt(p, given)
  <2>1. ASSUME NEW k \in 1 .. canSize'
        PROVE  unit'[chain'[k]] = IF k < p THEN unit[chain[k]]
                                  ELSE IF k = p THEN given ELSE unit[chain[k - 1]]
    <3>1. chain'[k] = IF k < p THEN chain[k] ELSE IF k = p THEN dest ELSE chain[k - 1]
      BY <1>8 DEF Shifted
    <3>2. \A j \in 1 .. canSize : chain[j] = dest => canSize = N /\ j = canSize
      BY <1>3, Places DEF dest
    <3>3. CASE k < p
      <4>1. k \in 1 .. canSize /\ k # canSize
        BY <3>3, <1>3
      <4> QED
        BY <1>4, <3>1, <3>2, <3>3, <4>1, Places
    <3>4. CASE k = p
      BY <1>3, <1>4, <3>1, <3>4
    <3>5. CASE k > p
      <4>1. k - 1 \in 1 .. canSize /\ (canSize = N => k - 1 # canSize)
        BY <3>5, <1>3, <1>7
      <4> QED
        BY <1>4, <3>1, <3>2, <3>5, <4>1, Places
    <3> QED
      BY <3>3, <3>4, <3>5
  <2>2. /\ \A k \in 1 .. canSize : k < p => unit[chain[k]].score >= given.score
        /\ \A k \in 1 .. canSize : k >= p => unit[chain[k]].score < given.score
    BY <1>1, <1>2, StopsBehindBetter
  <2> QED
    BY <1>7, <2>1, <2>2 DEF PutAt
<1> QED
  BY <1>5, <1>8, <1>9 DEF Threaded
-----------------------------------------------------------------------------
(* The invariant is inductive.                                             *)

LEMMA InitIInv == Init => IInv
<1> SUFFICES ASSUME Init PROVE IInv
  OBVIOUS
<1>1. canSize = 0 /\ walking = FALSE
  BY DEF Init, NoSearch
<1>2. TypeOK
  <2>1. unit \in [Slots -> Unit] /\ given \in Unit
    BY UnitAssumption DEF Init, NoSearch
  <2>2. previous \in [Slots -> Slots \cup {-1}] /\ canSize \in 0 .. N
    BY NAssumption DEF Init
  <2>3. lastIndex = -1 /\ walking = FALSE /\ lIndex = -1 /\ cIndex = -1
    BY DEF Init, NoSearch
  <2> QED
    BY <2>1, <2>2, <2>3 DEF TypeOK
<1> DEFINE none == [k \in 1 .. 0 |-> 0]
<1>3. Threads(none, previous, lastIndex, canSize)
  BY <1>1 DEF Threads
<1>4. chain = none
  BY <1>1, <1>3, ChainIsOrder
<1>5. Threaded /\ Sorted /\ Searching
  BY <1>1, <1>3, <1>4 DEF Threaded, Sorted, Searching
<1> QED
  BY <1>2, <1>5 DEF IInv

(* Reset makes the list empty; what the places hold does not matter.       *)
LEMMA ResetIInv ==
  ASSUME TypeOK, Reset
  PROVE  IInv'
<1>1. canSize' = 0 /\ lastIndex' = -1 /\ ~walking' /\ UNCHANGED << unit, previous, search >>
  BY DEF Reset, array, search
<1>2. TypeOK'
  BY <1>1, NAssumption DEF TypeOK, search
<1> DEFINE none == [k \in 1 .. 0 |-> 0]
<1>3. Threads(none, previous', lastIndex', canSize')
  BY <1>1 DEF Threads
<1>4. chain' = none
  BY <1>1, <1>3, NextChainIsOrder
<1>5. Threaded' /\ Sorted' /\ Searching'
  BY <1>1, <1>3, <1>4 DEF Threaded, Sorted, Searching
<1> QED
  BY <1>2, <1>5 DEF IInv

(* A step of the search leaves the list alone.                             *)
LEMMA SameChain ==
  ASSUME UNCHANGED << array, lastIndex, canSize >>
  PROVE  chain' = chain
BY DEF chain, array

LEMMA StartWalkIInv ==
  ASSUME IInv, NEW u \in Unit, ~Full(u), StartWalk(u)
  PROVE  IInv'
<1>1. /\ walking' = TRUE /\ given' = u /\ lIndex' = lastIndex /\ cIndex' = previous[lastIndex]
      /\ UNCHANGED << array, lastIndex, canSize >> /\ u.score > unit[lastIndex].score
      /\ canSize > 0
  BY Places DEF StartWalk, IsHead
<1>2. UNCHANGED << unit, previous, lastIndex, canSize, chain >>
  BY <1>1, SameChain DEF array
<1>3. TypeOK'
  BY <1>1, <1>2, Places DEF IInv, TypeOK
<1>4. Threaded' /\ Sorted'
  BY <1>2 DEF IInv, Threaded, Sorted
<1>5. SearchAt(canSize)'
  <2>1. cIndex' = IF canSize = 1 THEN -1 ELSE chain[canSize - 1]
    <3>1. Threads(chain, previous, lastIndex, canSize)
      BY DEF IInv, Threaded
    <3>2. CASE canSize = 1
      BY <1>1, <3>1, <3>2 DEF Threads
    <3>3. CASE canSize # 1
      <4>1. canSize - 1 \in 1 .. canSize - 1 /\ (canSize - 1) + 1 = canSize
        BY <1>1, <3>3, Places
      <4>2. previous[chain[(canSize - 1) + 1]] = chain[canSize - 1]
        BY <3>1, <4>1 DEF Threads
      <4> QED
        BY <1>1, <3>3, <4>1, <4>2, Places
    <3> QED
      BY <3>2, <3>3
  <2>2. \A k \in canSize .. canSize : unit[chain[k]].score < u.score
    BY <1>1, Places, UnitAssumption
  <2> QED
    BY <1>1, <1>2, <2>1, <2>2, Places DEF SearchAt
<1>6. Searching'
  BY <1>1, <1>2, <1>5, Places DEF Searching, SearchAt
<1> QED
  BY <1>3, <1>4, <1>6 DEF IInv

LEMMA WalkIInv ==
  ASSUME IInv, Walk
  PROVE  IInv'
<1>1. /\ walking /\ Worse(cIndex) /\ lIndex' = cIndex /\ cIndex' = previous[cIndex]
      /\ UNCHANGED << array, lastIndex, canSize, walking, given >>
  BY DEF Walk
<1>2. UNCHANGED << unit, previous, lastIndex, canSize, chain, given, walking >>
  BY <1>1, SameChain DEF array
<1>3. PICK p \in 1 .. canSize : SearchAt(p)
  BY <1>1 DEF IInv, Searching
<1>4. p - 1 \in 1 .. canSize - 1 /\ cIndex = chain[p - 1] /\ cIndex \in Slots
  BY <1>1, <1>3, Places DEF SearchAt, Worse
<1>5. TypeOK'
  BY <1>1, <1>2, <1>4 DEF IInv, TypeOK
<1>6. Threaded' /\ Sorted'
  BY <1>2 DEF IInv, Threaded, Sorted
<1>7. SearchAt(p - 1)'
  <2>1. cIndex' = IF p - 1 = 1 THEN -1 ELSE chain[(p - 1) - 1]
    <3>1. Threads(chain, previous, lastIndex, canSize)
      BY DEF IInv, Threaded
    <3>2. CASE p - 1 = 1
      BY <1>1, <1>4, <3>1, <3>2, Places DEF Threads
    <3>3. CASE p - 1 # 1
      <4>1. (p - 1) - 1 \in 1 .. canSize - 1 /\ ((p - 1) - 1) + 1 = p - 1
        BY <1>4, <3>3, Places
      <4> QED
        BY <1>1, <1>4, <3>1, <3>3, <4>1 DEF Threads
    <3> QED
      BY <3>2, <3>3
  <2>2. ASSUME NEW k \in (p - 1) .. canSize PROVE unit[chain[k]].score < given.score
    <3>1. CASE k = p - 1
      BY <1>1, <1>4, <3>1 DEF Worse
    <3>2. CASE k # p - 1
      <4>1. k \in p .. canSize
        BY <1>4, <3>2, Places
      <4> QED
        BY <1>3, <4>1 DEF SearchAt
    <3> QED
      BY <3>1, <3>2
  <2> QED
    BY <1>1, <1>2, <1>4, <2>1, <2>2 DEF SearchAt
<1>8. Searching'
  BY <1>2, <1>4, <1>7, Places DEF Searching, SearchAt
<1> QED
  BY <1>5, <1>6, <1>8 DEF IInv

(* Every step keeps the invariant.                                         *)
LEMMA NextIInv == IInv /\ [Next]_vars => IInv'
<1> SUFFICES ASSUME IInv, [Next]_vars PROVE IInv'
  OBVIOUS
<1>1. CASE Reset
  BY <1>1, ResetIInv DEF IInv
<1>2. ASSUME NEW u \in Unit, insertCandidate(u) PROVE IInv'
  <2>1. ~walking /\ ~Full(u)
    BY <1>2 DEF insertCandidate
  <2>2. CASE InsertHead(u)
    <3>1. TypeOK' /\ Threaded' /\ PutAt(1, u)
      BY <2>1, <2>2, HeadPutAt
    <3>2. ~walking'
      BY <2>1, <2>2 DEF InsertHead, search
    <3> QED
      BY <3>1, <3>2, PutAtSorted DEF IInv, Searching
  <2>3. CASE InsertLast(u)
    <3>1. TypeOK' /\ Threaded' /\ PutAt(canSize + 1, u)
      BY <2>1, <2>3, LastPutAt
    <3>2. ~walking'
      BY <2>1, <2>3 DEF InsertLast, search
    <3> QED
      BY <3>1, <3>2, PutAtSorted DEF IInv, Searching
  <2>4. CASE StartWalk(u)
    BY <2>1, <2>4, StartWalkIInv
  <2> QED
    BY <1>2, <2>2, <2>3, <2>4 DEF insertCandidate
<1>3. CASE Walk
  BY <1>3, WalkIInv
<1>4. CASE Place
  <2>1. TypeOK' /\ Threaded' /\ \E p \in 1 .. canSize : PutAt(p, given)
    BY <1>4, PlacePutAt
  <2>2. given \in Unit /\ ~walking'
    BY <1>4 DEF Place, IInv, TypeOK
  <2> QED
    BY <2>1, <2>2, PutAtSorted DEF IInv, Searching
<1>5. CASE UNCHANGED vars
  <2>1. UNCHANGED << unit, previous, lastIndex, canSize, walking, given, lIndex, cIndex >>
    BY <1>5 DEF vars, array, search
  <2>2. chain' = chain
    BY <2>1, SameChain DEF array
  <2> QED
    BY <2>1, <2>2 DEF IInv, TypeOK, Threaded, Sorted, Searching, SearchAt
<1> QED
  BY <1>1, <1>2, <1>3, <1>4, <1>5 DEF Next

LEMMA Invariance == Spec => []IInv
<1> QED
  BY InitIInv, NextIInv, PTL DEF Spec

(***************************************************************************)
(* Every index insertCandidate writes to and reads from lies in the array  *)
(* and canSize never passes N, the assertion "assert(canSize < N)".        *)
(***************************************************************************)
THEOREM TypeCorrect == Spec => []TypeOK
<1>1. IInv => TypeOK
  BY DEF IInv
<1> QED
  BY <1>1, Invariance, PTL

(***************************************************************************)
(* However many units seg_sentence offers, and in whatever order, the      *)
(* links thread all the candidates in use, each once, down to the best: no *)
(* candidate is lost and none is read twice or at index -1.                *)
(***************************************************************************)
THEOREM ChainAlwaysComplete == Spec => []ChainComplete
BY IInvChainComplete, Invariance, PTL
-----------------------------------------------------------------------------
(* The list implements TopN.                                               *)

kept == [k \in 1 .. canSize |-> unit[chain[k]]]

(* TopN counts the units at least as good as u: those before its place.    *)
LEMMA RankIsPosition ==
  ASSUME IInv, NEW u \in Unit, NEW p, PutAt(p, u)
  PROVE  Best!Rank(u) = p
<1> DEFINE better == { k \in DOMAIN kept : kept[k].score >= u.score }
<1>1. canSize \in Nat /\ p \in 1 .. canSize + 1
  BY Places, NAssumption DEF PutAt
<1>2. better = 1 .. p - 1
  <2>1. ASSUME NEW k \in 1 .. canSize PROVE kept[k].score >= u.score <=> k \in 1 .. p - 1
    <3>1. kept[k] = unit[chain[k]] /\ unit[chain[k]].score \in Int /\ u.score \in Int
      BY Places, UnitAssumption DEF kept
    <3>2. CASE k < p
      BY <1>1, <3>1, <3>2 DEF PutAt
    <3>3. CASE k >= p
      BY <1>1, <3>1, <3>3 DEF PutAt
    <3> QED
      BY <1>1, <3>2, <3>3
  <2>2. DOMAIN kept = 1 .. canSize /\ 1 .. p - 1 \subseteq 1 .. canSize
    BY <1>1 DEF kept
  <2> QED
    BY <2>1, <2>2
<1>3. Cardinality(1 .. p - 1) = p - 1
  BY <1>1, FS_Interval
<1>4. Best!Rank(u) = 1 + Cardinality(better)
  <2>1. \A S : Best!Cardinality(S) = Cardinality(S)
    BY DEF Best!Cardinality, Cardinality
  <2> QED
    BY <2>1 DEF Best!Rank, kept
<1> HIDE DEF better
<1> QED
  BY <1>1, <1>2, <1>3, <1>4

LEMMA PutAtOffers ==
  ASSUME IInv, NEW u \in Unit, NEW p, PutAt(p, u)
  PROVE  Best!Offer(u)
<1>1. canSize \in Nat /\ N \in Nat /\ Len(kept) = canSize
  BY Places, NAssumption DEF kept
<1>2. canSize' = IF Len(kept) < N THEN Len(kept) + 1 ELSE N
  BY <1>1 DEF PutAt
<1>3. Best!Rank(u) = p
  BY RankIsPosition
<1>4. kept' = [k \in 1 .. canSize' |-> IF k < p THEN kept[k] ELSE IF k = p THEN u ELSE kept[k - 1]]
  <2>1. ASSUME NEW k \in 1 .. canSize'
        PROVE  unit'[chain'[k]] = IF k < p THEN kept[k] ELSE IF k = p THEN u ELSE kept[k - 1]
    <3>1. unit'[chain'[k]] = IF k < p THEN unit[chain[k]]
                             ELSE IF k = p THEN u ELSE unit[chain[k - 1]]
      BY DEF PutAt
    <3>2. p \in 1 .. canSize' /\ canSize' <= canSize + 1
      BY <1>1, <1>2 DEF PutAt
    <3>3. k < p => k \in 1 .. canSize
      BY <1>1, <1>2, <3>2
    <3>4. k > p => k - 1 \in 1 .. canSize
      BY <1>1, <1>2, <3>2
    <3> QED
      BY <1>1, <1>2, <3>1, <3>2, <3>3, <3>4 DEF kept
  <2> QED
    BY <2>1 DEF kept
<1> QED
  BY <1>2, <1>3, <1>4 DEF Best!Offer, kept

LEMMA SameKept ==
  ASSUME UNCHANGED << unit, previous, lastIndex, canSize >>
  PROVE  kept' = kept
BY SameChain DEF kept, array

(* Each step maps to a step of TopN or to none.                            *)
LEMMA NextImplements == IInv /\ [Next]_vars => [Best!Next]_kept
<1> SUFFICES ASSUME IInv, [Next]_vars PROVE Best!Next \/ kept' = kept
  BY DEF kept
<1>1. CASE Reset
  <2>1. canSize' = 0
    BY <1>1 DEF Reset
  <2>2. kept' = << >>
    BY <2>1 DEF kept
  <2> QED
    BY <2>2 DEF Best!Next, Best!Reset, kept
<1>2. ASSUME NEW u \in Unit, insertCandidate(u) PROVE Best!Next \/ kept' = kept
  <2>1. ~walking /\ ~Full(u)
    BY <1>2 DEF insertCandidate
  <2>2. CASE InsertHead(u)
    BY <2>1, <2>2, HeadPutAt, PutAtOffers DEF Best!Next
  <2>3. CASE InsertLast(u)
    BY <2>1, <2>3, LastPutAt, PutAtOffers DEF Best!Next
  <2>4. CASE StartWalk(u)
    BY <2>4, SameKept DEF StartWalk, array
  <2> QED
    BY <1>2, <2>2, <2>3, <2>4 DEF insertCandidate
<1>3. CASE Walk
  BY <1>3, SameKept DEF Walk, array
<1>4. CASE Place
  <2>1. given \in Unit
    BY DEF IInv, TypeOK
  <2> QED
    BY <1>4, <2>1, PlacePutAt, PutAtOffers DEF Best!Next
<1>5. CASE UNCHANGED vars
  BY <1>5, SameKept DEF vars, array
<1> QED
  BY <1>1, <1>2, <1>3, <1>4, <1>5 DEF Next

LEMMA InitImplements == Init => Best!Init
<1> SUFFICES ASSUME Init PROVE kept = << >>
  BY DEF Best!Init, kept
<1> QED
  BY DEF Init, kept

(***************************************************************************)
(* insertCandidate keeps the N best of all units offered since the last    *)
(* reset, sorted, of equal ones the earlier first: the array with its      *)
(* links implements the list that TopN specifies.                          *)
(***************************************************************************)
THEOREM ImplementsTopN == Spec => KeepsTheBest
BY Invariance, InitImplements, NextImplements, PTL DEF Spec, KeepsTheBest, Best!Spec, kept
-----------------------------------------------------------------------------
(***************************************************************************)
(* When all units offered are different, the ones kept are N of them, or   *)
(* all, and none left out is better.  This is what a component needs to    *)
(* know of its candidates; the order in which they came is forgotten.      *)
(***************************************************************************)

(* K[1], ..., K[m] are the best of Off. *)
BestIn(K, m, Off) ==
  /\ \A k \in 1 .. m : K[k] \in Off
  /\ \A j, k \in 1 .. m : j # k => K[j] # K[k]
  /\ \A x \in Off : \/ \E k \in 1 .. m : K[k] = x
                    \/ m = N /\ \A k \in 1 .. m : x.score <= K[k].score

BestOf(Off) == BestIn(kept, canSize, Off)

(* L is K with u put in at p, and cut to N. *)
LEMMA PutBest ==
  ASSUME NEW m \in 0 .. N, NEW K, \A k \in 1 .. m : K[k].score \in Int,
         \A j, k \in 1 .. m : j <= k => K[j].score >= K[k].score,
         NEW Off, \A x \in Off : x.score \in Int, BestIn(K, m, Off),
         NEW u, u \notin Off, u.score \in Int,
         NEW n, n = (IF m < N THEN m + 1 ELSE N), NEW p \in 1 .. n,
         NEW L, \A k \in 1 .. n : L[k] = IF k < p THEN K[k] ELSE IF k = p THEN u ELSE K[k - 1],
         \A k \in 1 .. m : k < p => K[k].score >= u.score,
         \A k \in 1 .. m : k >= p => K[k].score < u.score
  PROVE  BestIn(L, n, Off \cup { u })
<1>1. N \in Nat /\ N >= 1 /\ m \in Nat /\ m <= N /\ n \in Nat /\ n <= m + 1 /\ n >= 1 /\ p \in Nat
  BY NAssumption
<1>2. /\ \A k \in 1 .. m : K[k] \in Off
      /\ \A j, k \in 1 .. m : j # k => K[j] # K[k]
      /\ \A x \in Off : \/ \E k \in 1 .. m : K[k] = x
                        \/ m = N /\ \A k \in 1 .. m : x.score <= K[k].score
  BY DEF BestIn
<1>3. /\ \A k \in 1 .. n : k < p => k \in 1 .. m /\ L[k] = K[k]
      /\ L[p] = u
      /\ \A k \in 1 .. n : k > p => k - 1 \in 1 .. m /\ L[k] = K[k - 1]
  <2>1. \A k \in 1 .. n : k < p => k \in 1 .. m
    BY <1>1
  <2>2. \A k \in 1 .. n : k > p => k - 1 \in 1 .. m
    BY <1>1
  <2> QED
    BY <1>1, <2>1, <2>2
<1>4. ASSUME NEW k \in 1 .. n PROVE L[k] \in Off \cup { u }
  BY <1>1, <1>2, <1>3
<1>5. ASSUME NEW j \in 1 .. n, NEW k \in 1 .. n, j < k PROVE L[j] # L[k]
  <2>1. CASE k < p
    BY <1>1, <1>2, <1>3, <1>5, <2>1
  <2>2. CASE k = p
    <3>1. L[j] = K[j] /\ j \in 1 .. m
      BY <1>1, <1>3, <1>5, <2>2
    <3> QED
      BY <1>2, <1>3, <2>2, <3>1
  <2>3. CASE k > p
    <3>1. k - 1 \in 1 .. m /\ L[k] = K[k - 1]
      BY <1>3, <2>3
    <3>2. CASE j < p
      <4>1. L[j] = K[j] /\ j \in 1 .. m /\ j # k - 1
        BY <1>1, <1>3, <2>3, <3>2
      <4> QED
        BY <1>2, <3>1, <4>1
    <3>3. CASE j = p
      BY <1>2, <1>3, <3>1, <3>3
    <3>4. CASE j > p
      <4>1. j - 1 \in 1 .. m /\ L[j] = K[j - 1] /\ j - 1 # k - 1
        BY <1>1, <1>3, <1>5, <3>4
      <4> QED
        BY <1>2, <3>1, <4>1
    <3> QED
      BY <1>1, <3>2, <3>3, <3>4
  <2> QED
    BY <1>1, <2>1, <2>2, <2>3
<1>6. ASSUME NEW x \in Off \cup { u }
      PROVE  \/ \E k \in 1 .. n : L[k] = x
             \/ n = N /\ \A k \in 1 .. n : x.score <= L[k].score
  <2>1. CASE x = u
    BY <1>3, <2>1
  <2>2. CASE x \in Off /\ \E k \in 1 .. m : K[k] = x
    <3>1. PICK k \in 1 .. m : K[k] = x
      BY <2>2
    <3>2. CASE k < p
      <4>1. k \in 1 .. n
        BY <1>1, <3>2
      <4> QED
        BY <1>3, <3>1, <3>2, <4>1
    <3>3. CASE k >= p /\ k + 1 <= n
      <4>1. k + 1 \in 1 .. n /\ k + 1 > p /\ (k + 1) - 1 = k
        BY <1>1, <3>3
      <4> QED
        BY <1>3, <3>1, <4>1
    <3>4. CASE k >= p /\ k + 1 > n
      <4>1. n = N /\ m = N /\ k = N
        BY <1>1, <3>4
      <4>2. x.score < u.score /\ x.score \in Int
        BY <3>1, <3>4
      <4>3. ASSUME NEW l \in 1 .. n PROVE x.score <= L[l].score
        <5>1. CASE l = p
          BY <1>3, <4>2, <5>1
        <5>2. CASE l < p
          <6>1. l \in 1 .. m /\ l <= k /\ L[l] = K[l]
            BY <1>1, <1>3, <3>4, <5>2
          <6> QED
            BY <3>1, <6>1
        <5>3. CASE l > p
          <6>1. l - 1 \in 1 .. m /\ l - 1 <= k /\ L[l] = K[l - 1]
            BY <1>1, <1>3, <4>1, <5>3
          <6> QED
            BY <3>1, <6>1
        <5> QED
          BY <1>1, <5>1, <5>2, <5>3
      <4> QED
        BY <4>1, <4>3
    <3> QED
      BY <1>1, <3>2, <3>3, <3>4
  <2>3. CASE x \in Off /\ m = N /\ \A k \in 1 .. m : x.score <= K[k].score
    <3>1. x.score \in Int /\ n = N
      BY <1>1, <2>3
    <3>2. ASSUME NEW l \in 1 .. n PROVE x.score <= L[l].score
      <4>1. CASE l = p
        <5>1. p \in 1 .. m /\ x.score <= K[p].score /\ K[p].score < u.score /\ K[p].score \in Int
          BY <1>1, <2>3
        <5> QED
          BY <1>3, <3>1, <4>1, <5>1
      <4>2. CASE l < p
        BY <1>3, <2>3, <4>2
      <4>3. CASE l > p
        BY <1>3, <2>3, <4>3
      <4> QED
        BY <1>1, <4>1, <4>2, <4>3
    <3> QED
      BY <3>1, <3>2
  <2> QED
    BY <1>2, <2>1, <2>2, <2>3
<1> QED
  BY <1>4, <1>5, <1>6, <1>1 DEF BestIn

LEMMA PutAtBest ==
  ASSUME IInv, NEW Off \in SUBSET Unit, BestOf(Off), NEW u \in Unit, u \notin Off,
         NEW p, PutAt(p, u)
  PROVE  BestOf(Off \cup { u })'
<1> DEFINE L == [k \in 1 .. canSize' |-> unit'[chain'[k]]]
<1>1. canSize \in 0 .. N /\ canSize \in Nat
  BY DEF IInv, TypeOK
<1>2. canSize' = (IF canSize < N THEN canSize + 1 ELSE N) /\ p \in 1 .. canSize'
  BY DEF PutAt
<1>3. \A k \in 1 .. canSize : kept[k] = unit[chain[k]] /\ kept[k].score \in Int
  BY Places DEF kept
<1>4. \A j, k \in 1 .. canSize : j <= k => kept[j].score >= kept[k].score
  BY <1>3 DEF IInv, Sorted
<1>5. (\A x \in Off : x.score \in Int) /\ u.score \in Int
  BY UnitAssumption
<1>6. ASSUME NEW k \in 1 .. canSize'
      PROVE  L[k] = IF k < p THEN kept[k] ELSE IF k = p THEN u ELSE kept[k - 1]
  <2>1. L[k] = IF k < p THEN unit[chain[k]] ELSE IF k = p THEN u ELSE unit[chain[k - 1]]
    BY DEF PutAt
  <2>2. canSize' <= canSize + 1 /\ p \in Nat
    BY <1>1, <1>2, NAssumption
  <2>3. (k < p => k \in 1 .. canSize) /\ (k > p => k - 1 \in 1 .. canSize)
    BY <1>1, <1>2, <2>2, NAssumption
  <2> HIDE DEF L
  <2> QED
    BY <1>2, <1>3, <2>1, <2>3
<1>7. /\ \A k \in 1 .. canSize : k < p => kept[k].score >= u.score
      /\ \A k \in 1 .. canSize : k >= p => kept[k].score < u.score
  BY <1>3 DEF PutAt
<1> HIDE DEF L
<1>8. BestIn(L, canSize', Off \cup { u })
  <2>1. PICK n, m, K : n = canSize' /\ m = canSize /\ K = kept
    OBVIOUS
  <2>2. BestIn(K, m, Off)
    BY <2>1 DEF BestOf
  <2>3. BestIn(L, n, Off \cup { u })
    BY <1>1, <1>2, <1>3, <1>4, <1>5, <1>6, <1>7, <2>1, <2>2, PutBest
  <2> QED
    BY <2>1, <2>3
<1> QED
  BY <1>8 DEF L, BestOf, BestIn, kept

(* What becomes of the best of Off when one more unit is offered. *)
LEMMA InsertBest ==
  ASSUME IInv, NEW Off \in SUBSET Unit, BestOf(Off), NEW u \in Unit, u \notin Off, insertCandidate(u)
  PROVE  \/ walking' /\ given' = u /\ BestOf(Off)'
         \/ ~walking' /\ BestOf(Off \cup { u })'
<1>1. ~walking /\ ~Full(u)
  BY DEF insertCandidate
<1>2. CASE InsertHead(u)
  BY <1>1, <1>2, HeadPutAt, PutAtBest DEF InsertHead, search
<1>3. CASE InsertLast(u)
  BY <1>1, <1>3, LastPutAt, PutAtBest DEF InsertLast, search
<1>4. CASE StartWalk(u)
  BY <1>4, SameKept DEF StartWalk, array, BestOf, BestIn
<1> QED
  BY <1>2, <1>3, <1>4 DEF insertCandidate

LEMMA WalkBest ==
  ASSUME NEW Off, BestOf(Off), UNCHANGED << array, lastIndex, canSize >>
  PROVE  BestOf(Off)'
BY SameKept DEF array, BestOf, BestIn

LEMMA PlaceBest ==
  ASSUME IInv, NEW Off \in SUBSET Unit, BestOf(Off), NEW u, u = given, u \notin Off, Place
  PROVE  ~walking' /\ BestOf(Off \cup { u })'
<1>1. u \in Unit /\ ~walking' /\ walking
  BY DEF Place, IInv, TypeOK
<1>2. PICK p \in 1 .. canSize : PutAt(p, u)
  BY PlacePutAt
<1> QED
  BY <1>1, <1>2, PutAtBest

(* A full list leaves out a unit that is no better than its worst. *)
LEMMA FullBest ==
  ASSUME IInv, NEW Off, BestOf(Off), NEW u \in Unit, Full(u),
         UNCHANGED << array, lastIndex, canSize >>
  PROVE  BestOf(Off \cup { u })'
<1>1. canSize = N /\ canSize > 0 /\ canSize \in Nat /\ u.score <= unit[lastIndex].score
  BY Places, NAssumption DEF Full
<1>2. ASSUME NEW k \in 1 .. canSize PROVE u.score <= kept[k].score
  <2>1. unit[chain[k]].score >= unit[lastIndex].score
    BY <1>1, Places DEF IInv, Sorted
  <2>2. unit[chain[k]].score \in Int /\ unit[lastIndex].score \in Int /\ u.score \in Int
    BY <1>1, Places, UnitAssumption
  <2> QED
    BY <1>1, <2>1, <2>2 DEF kept
<1>3. BestIn(kept, canSize, Off \cup { u })
  BY <1>1, <1>2 DEF BestOf, BestIn
<1> QED
  BY <1>3, SameKept DEF array, BestOf, BestIn

LEMMA ResetBest ==
  ASSUME Reset
  PROVE  BestOf({})'
BY DEF Reset, BestOf, BestIn

(* The units kept are units, in order. *)
LEMMA KeptSorted ==
  ASSUME IInv
  PROVE  /\ canSize \in 0 .. N
         /\ \A k \in 1 .. canSize : kept[k] = unit[chain[k]] /\ kept[k] \in Unit
         /\ \A j, k \in 1 .. canSize : j <= k => kept[j].score >= kept[k].score
<1>1. \A k \in 1 .. canSize : kept[k] = unit[chain[k]] /\ kept[k] \in Unit
  BY Places DEF kept
<1> QED
  BY <1>1 DEF IInv, TypeOK, Sorted
==============================================================================
