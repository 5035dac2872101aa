----------------------------- MODULE SessionProofs -----------------------------
(***************************************************************************)
(* Proofs about Session, for all texts, files and numbers of runs.         *)
(*                                                                         *)
(* The lists of a Sentence are written in one go for all candidates and    *)
(* read by the places of each: what connects them is LabelsAt, what stands *)
(* behind the place where a candidate begins.                              *)
(***************************************************************************)
EXTENDS Session, WellFoundedInduction, TLAPS

(* The order of the natural numbers, as the library's theorems want it. *)
Less == { p \in Nat \X Nat : p[1] < p[2] }

LEMMA LeastElement ==
  ASSUME NEW S \in SUBSET Nat, S # {}
  PROVE  \E n \in S : \A m \in S : n <= m
<1>1. IsWellFoundedOn(Less, Nat)
  BY NatLessThanWellFounded DEF OpToRel, Less
<1>2. PICK n \in S : \A m \in S : ~(<< m, n >> \in Less)
  BY <1>1, WFMin
<1>3. \A k \in Nat, l \in Nat : k < l => << k, l >> \in Less
  BY DEF Less
<1>4. ASSUME NEW m \in S PROVE n <= m
  <2>1. ~(m < n)
    BY <1>2, <1>3
  <2> QED
    BY <2>1
<1> QED
  BY <1>4
-----------------------------------------------------------------------------
(* Flattening. *)

LEMMA Concat ==
  ASSUME NEW X, NEW a \in Seq(X), NEW b \in Seq(X)
  PROVE  /\ a \o b \in Seq(X) /\ Len(a \o b) = Len(a) + Len(b)
         /\ \A q \in 1 .. Len(a) : (a \o b)[q] = a[q]
         /\ \A q \in 1 .. Len(b) : (a \o b)[Len(a) + q] = b[q]
OBVIOUS

(* The recursion of FlattenSeq has a solution. *)
LEMMA FlattenExists ==
  ASSUME NEW n \in Nat, NEW seqs
  PROVE  \E f : f = [k \in 1 .. n |-> IF k = 1 THEN seqs[k] ELSE f[k - 1] \o seqs[k]]
<1> DEFINE Solves(f, m) == f = [k \in 1 .. m |-> IF k = 1 THEN seqs[k] ELSE f[k - 1] \o seqs[k]]
           Bad == { m \in Nat : ~\E f : Solves(f, m) }
<1>1. ASSUME Bad # {} PROVE FALSE
  <2>1. PICK m \in Bad : \A l \in Bad : m <= l
    <3>1. Bad \in SUBSET Nat
      OBVIOUS
    <3> HIDE DEF Bad
    <3> QED
      BY <1>1, <3>1, LeastElement
  <2>2. m \in Nat /\ ~\E f : Solves(f, m)
    BY <2>1
  <2>3. m # 0
    <3>1. Solves([k \in 1 .. 0 |-> << >>], 0)
      OBVIOUS
    <3> QED
      BY <2>2, <3>1
  <2>4. m - 1 \in Nat /\ m - 1 \notin Bad
    <3>1. m - 1 \in Nat /\ ~(m <= m - 1)
      BY <2>2, <2>3
    <3> HIDE DEF Bad
    <3> QED
      BY <2>1, <3>1
  <2>5. PICK f : Solves(f, m - 1)
    BY <2>4
  <2> DEFINE g == [k \in 1 .. m |-> IF k = 1 THEN seqs[k] ELSE f[k - 1] \o seqs[k]]
  <2>6. ASSUME NEW k \in 1 .. m, k # 1 PROVE g[k - 1] = f[k - 1]
    <3>1. k - 1 \in 1 .. m - 1 /\ k - 1 \in 1 .. m
      BY <2>2, <2>6
    <3>2. f[k - 1] = IF k - 1 = 1 THEN seqs[k - 1] ELSE f[(k - 1) - 1] \o seqs[k - 1]
      BY <2>5, <3>1
    <3> QED
      BY <3>1, <3>2
  <2>7. Solves(g, m)
    BY <2>6
  <2> QED
    BY <2>2, <2>7
<1> QED
  BY <1>1

(* The flattened first parts of a sequence and one part more: S[k] is       *)
(* behind part k.                                                          *)
Flat(seqs, S, m, f) ==
  /\ Len(f) = S[m]
  /\ \A k \in 1 .. m : \A l \in 1 .. Len(seqs[k]) :
       S[k - 1] + l \in 1 .. S[m] /\ f[S[k - 1] + l] = seqs[k][l]

LEMMA OnePartMore ==
  ASSUME NEW X, NEW n \in Nat, NEW seqs, NEW S \in [0 .. n -> Nat],
         NEW m \in 1 .. n, S[m] = S[m - 1] + Len(seqs[m]), seqs[m] \in Seq(X),
         NEW f \in Seq(X), Flat(seqs, S, m - 1, f)
  PROVE  f \o seqs[m] \in Seq(X) /\ Flat(seqs, S, m, f \o seqs[m])
<1> DEFINE b == seqs[m]
           g == f \o b
<1>1. m - 1 \in 0 .. n /\ m \in Int /\ S[m - 1] \in Nat /\ b \in Seq(X) /\ Len(b) \in Nat
  OBVIOUS
<1>2. Len(f) = S[m - 1]
  BY DEF Flat
<1>3. S[m] = S[m - 1] + Len(b)
  OBVIOUS
<1>4. b = seqs[m]
  OBVIOUS
<1> HIDE DEF b
<1>5. /\ g \in Seq(X) /\ Len(g) = S[m]
      /\ \A q \in 1 .. S[m - 1] : g[q] = f[q]
      /\ \A q \in 1 .. Len(b) : g[S[m - 1] + q] = b[q]
  <2>1. /\ f \o b \in Seq(X) /\ Len(f \o b) = Len(f) + Len(b)
        /\ \A q \in 1 .. Len(f) : (f \o b)[q] = f[q]
        /\ \A q \in 1 .. Len(b) : (f \o b)[Len(f) + q] = b[q]
    BY <1>1, Concat
  <2> QED
    BY <1>2, <1>3, <2>1
<1> HIDE DEF g
<1>6. ASSUME NEW k \in 1 .. m, NEW l \in 1 .. Len(seqs[k])
      PROVE  S[k - 1] + l \in 1 .. S[m] /\ g[S[k - 1] + l] = seqs[k][l]
  <2>1. CASE k = m
    <3>1. l \in 1 .. Len(b)
      BY <1>4, <2>1
    <3>2. S[m - 1] + l \in 1 .. S[m]
      BY <1>1, <1>3, <3>1
    <3> QED
      BY <1>4, <1>5, <2>1, <3>1, <3>2
  <2>2. CASE k # m
    <3>1. k \in 1 .. m - 1
      BY <1>1, <2>2
    <3>2. S[k - 1] + l \in 1 .. S[m - 1] /\ f[S[k - 1] + l] = seqs[k][l]
      BY <3>1 DEF Flat
    <3> DEFINE q == S[k - 1] + l
    <3>3. q \in 1 .. S[m - 1] /\ f[q] = seqs[k][l]
      BY <3>2
    <3> HIDE DEF q
    <3>4. q \in 1 .. S[m] /\ g[q] = f[q]
      BY <1>1, <1>3, <1>5, <3>3
    <3> QED
      BY <3>3, <3>4 DEF q
  <2> QED
    BY <2>1, <2>2
<1>7. g = f \o seqs[m]
  BY <1>4 DEF g
<1> QED
  BY <1>5, <1>6, <1>7 DEF Flat

LEMMA FlattenIs ==
  ASSUME NEW X, NEW seqs \in Seq(Seq(X)), NEW S \in [0 .. Len(seqs) -> Nat], S[0] = 0,
         \A k \in 1 .. Len(seqs) : S[k] = S[k - 1] + Len(seqs[k])
  PROVE  FlattenSeq(seqs) \in Seq(X) /\ Flat(seqs, S, Len(seqs), FlattenSeq(seqs))
<1> DEFINE n == Len(seqs)
           flat == CHOOSE f : f = [k \in 1 .. n |-> IF k = 1 THEN seqs[k] ELSE f[k - 1] \o seqs[k]]
           Bad == { m \in 1 .. n : ~(flat[m] \in Seq(X) /\ Flat(seqs, S, m, flat[m])) }
<1>1. n \in Nat /\ \A k \in 1 .. n : seqs[k] \in Seq(X)
  OBVIOUS
<1>2. flat = [k \in 1 .. n |-> IF k = 1 THEN seqs[k] ELSE flat[k - 1] \o seqs[k]]
  BY <1>1, FlattenExists
<1> HIDE DEF flat
<1>3. \A k \in 1 .. n : flat[k] = IF k = 1 THEN seqs[k] ELSE flat[k - 1] \o seqs[k]
  BY <1>2
<1>4. ASSUME Bad # {} PROVE FALSE
  <2>1. PICK m \in Bad : \A l \in Bad : m <= l
    <3>1. Bad \in SUBSET Nat
      OBVIOUS
    <3> HIDE DEF Bad
    <3> QED
      BY <1>4, <3>1, LeastElement
  <2>2. m \in 1 .. n /\ m \in Int /\ ~(flat[m] \in Seq(X) /\ Flat(seqs, S, m, flat[m]))
    BY <2>1
  <2>3. S[m] = S[m - 1] + Len(seqs[m]) /\ seqs[m] \in Seq(X)
    BY <1>1, <2>2
  <2>4. \E f \in Seq(X) : Flat(seqs, S, m - 1, f) /\ flat[m] = f \o seqs[m]
    <3>1. CASE m = 1
      <4>1. << >> \in Seq(X) /\ Flat(seqs, S, m - 1, << >>)
        BY <3>1 DEF Flat
      <4>2. flat[m] = << >> \o seqs[m]
        BY <1>3, <2>2, <2>3, <3>1
      <4> QED
        BY <4>1, <4>2
    <3>2. CASE m # 1
      <4>1. m - 1 \in 1 .. n /\ ~(m <= m - 1)
        BY <2>2, <3>2
      <4>2. m - 1 \notin Bad
        <5> HIDE DEF Bad
        <5> QED
          BY <2>1, <4>1
      <4>3. flat[m - 1] \in Seq(X) /\ Flat(seqs, S, m - 1, flat[m - 1])
        BY <4>1, <4>2
      <4>4. flat[m] = flat[m - 1] \o seqs[m]
        BY <1>3, <2>2, <3>2
      <4> QED
        BY <4>3, <4>4
    <3> QED
      BY <3>1, <3>2
  <2>5. PICK f \in Seq(X) : Flat(seqs, S, m - 1, f) /\ flat[m] = f \o seqs[m]
    BY <2>4
  <2>6. f \o seqs[m] \in Seq(X) /\ Flat(seqs, S, m, f \o seqs[m])
    <3> HIDE DEF Bad
    <3> QED
      BY <1>1, <2>2, <2>3, <2>5, OnePartMore
  <2> QED
    BY <2>2, <2>5, <2>6
<1>5. CASE n = 0
  <2>1. FlattenSeq(seqs) = << >>
    BY <1>5 DEF FlattenSeq
  <2> QED
    BY <1>5, <2>1 DEF Flat
<1>6. CASE n # 0
  <2>1. FlattenSeq(seqs) = flat[n]
    BY <1>6 DEF FlattenSeq, flat
  <2>2. n \in 1 .. n
    BY <1>1, <1>6
  <2> QED
    BY <1>4, <2>1, <2>2
<1> QED
  BY <1>5, <1>6
-----------------------------------------------------------------------------
(* The units of the candidates. *)

Label == Int \X Int \X Int

(* S[i] is the number of units of the first i candidates. *)
IsSums(counts, S) ==
  /\ S \in [0 .. Len(counts) -> Nat]
  /\ S[0] = 0
  /\ \A i \in 1 .. Len(counts) : S[i] = S[i - 1] + counts[i]

LEMMA SumsExist ==
  ASSUME NEW counts \in Seq(Nat)
  PROVE  \E S : IsSums(counts, S)
<1> DEFINE Upto(m, S) == /\ S \in [0 .. m -> Nat] /\ S[0] = 0
                         /\ \A i \in 1 .. m : S[i] = S[i - 1] + counts[i]
           Bad == { m \in 0 .. Len(counts) : ~\E S : Upto(m, S) }
<1>1. Len(counts) \in Nat /\ \A i \in 1 .. Len(counts) : counts[i] \in Nat
  OBVIOUS
<1>2. ASSUME Bad # {} PROVE FALSE
  <2>1. PICK m \in Bad : \A l \in Bad : m <= l
    <3>1. Bad \in SUBSET Nat
      OBVIOUS
    <3> HIDE DEF Bad
    <3> QED
      BY <1>2, <3>1, LeastElement
  <2>2. m \in 0 .. Len(counts) /\ m \in Int /\ ~\E S : Upto(m, S)
    <3>1. m \in 0 .. Len(counts) /\ ~\E S : Upto(m, S)
      BY <2>1, Zenon
    <3> QED
      BY <3>1
  <2>3. m # 0
    <3>1. Upto(0, [i \in 0 .. 0 |-> 0])
      OBVIOUS
    <3> QED
      BY <2>2, <3>1
  <2>4. m - 1 \in 0 .. Len(counts) /\ m - 1 \notin Bad
    <3>1. m - 1 \in 0 .. Len(counts) /\ ~(m <= m - 1)
      BY <1>1, <2>2, <2>3
    <3> HIDE DEF Bad
    <3> QED
      BY <2>1, <3>1
  <2>5. PICK S : Upto(m - 1, S)
    BY <2>4
  <2> DEFINE T == [i \in 0 .. m |-> IF i = m THEN S[m - 1] + counts[m] ELSE S[i]]
  <2>6. m - 1 \in 0 .. m - 1 /\ m \in 1 .. Len(counts) /\ S[m - 1] \in Nat /\ counts[m] \in Nat
    BY <1>1, <2>2, <2>3, <2>5
  <2>7. T \in [0 .. m -> Nat] /\ T[0] = 0
    <3>1. \A i \in 0 .. m : i # m => i \in 0 .. m - 1
      BY <2>2
    <3> QED
      BY <2>2, <2>3, <2>5, <2>6, <3>1
  <2>8. ASSUME NEW i \in 1 .. m PROVE T[i] = T[i - 1] + counts[i]
    <3>1. i \in 0 .. m /\ i - 1 \in 0 .. m /\ i - 1 # m /\ (i # m => i \in 1 .. m - 1)
      BY <2>2
    <3> QED
      BY <2>5, <3>1
  <2> QED
    BY <2>2, <2>7, <2>8
<1>3. Len(counts) \in 0 .. Len(counts)
  BY <1>1
<1>4. \E S : Upto(Len(counts), S)
  BY <1>2, <1>3, Zenon
<1> QED
  BY <1>4 DEF IsSums

LEMMA LabelsFlat ==
  ASSUME NEW counts \in Seq(Nat), NEW r \in Int, NEW S, IsSums(counts, S)
  PROVE  /\ AllLabels(r, counts) \in Seq(Label)
         /\ Len(AllLabels(r, counts)) = S[Len(counts)]
         /\ \A i \in 1 .. Len(counts) : \A j \in 1 .. counts[i] :
              /\ S[i - 1] + j \in 1 .. S[Len(counts)]
              /\ AllLabels(r, counts)[S[i - 1] + j] = << r, i, j >>
<1> DEFINE n == Len(counts)
           seqs == [i \in 1 .. n |-> Labels(r, i, counts[i])]
<1>1. n \in Nat /\ \A i \in 1 .. n : counts[i] \in Nat
  OBVIOUS
<1>2. ASSUME NEW i \in 1 .. n
      PROVE  Labels(r, i, counts[i]) \in Seq(Label) /\ Len(Labels(r, i, counts[i])) = counts[i]
  <2>1. counts[i] \in Nat
    BY <1>1
  <2>2. \A j \in 1 .. counts[i] : << r, i, j >> \in Label
    BY DEF Label
  <2>3. Labels(r, i, counts[i]) = [j \in 1 .. counts[i] |-> << r, i, j >>]
    BY DEF Labels
  <2> DEFINE c == counts[i]
             label(j) == << r, i, j >>
  <2>4. c \in Nat /\ \A j \in 1 .. c : label(j) \in Label
    BY <2>1, <2>2
  <2> HIDE DEF c, label
  <2>5. [j \in 1 .. c |-> label(j)] \in Seq(Label) /\ Len([j \in 1 .. c |-> label(j)]) = c
    BY <2>4
  <2> QED
    BY <2>3, <2>5 DEF c, label
<1>3. seqs \in Seq(Seq(Label)) /\ Len(seqs) = n /\ \A i \in 1 .. n : seqs[i] = Labels(r, i, counts[i])
  BY <1>1, <1>2
<1>4. FlattenSeq(seqs) = AllLabels(r, counts)
  BY DEF AllLabels
<1>5. \A i \in 1 .. n : \A j \in 1 .. counts[i] : Labels(r, i, counts[i])[j] = << r, i, j >>
  BY DEF Labels
<1> HIDE DEF seqs
<1>6. FlattenSeq(seqs) \in Seq(Label) /\ Flat(seqs, S, Len(seqs), FlattenSeq(seqs))
  BY <1>2, <1>3, FlattenIs DEF IsSums
<1>7. /\ Len(FlattenSeq(seqs)) = S[n]
      /\ \A i \in 1 .. n : \A j \in 1 .. Len(seqs[i]) :
           S[i - 1] + j \in 1 .. S[n] /\ FlattenSeq(seqs)[S[i - 1] + j] = seqs[i][j]
  BY <1>3, <1>6 DEF Flat
<1>8. ASSUME NEW i \in 1 .. n, NEW j \in 1 .. counts[i]
      PROVE  S[i - 1] + j \in 1 .. S[n] /\ FlattenSeq(seqs)[S[i - 1] + j] = << r, i, j >>
  <2>1. j \in 1 .. Len(seqs[i]) /\ seqs[i][j] = << r, i, j >>
    BY <1>2, <1>3, <1>5
  <2> QED
    BY <1>7, <2>1
<1> QED
  BY <1>4, <1>6, <1>7, <1>8

(* Where a candidate begins. *)
LEMMA BeforeIs ==
  ASSUME NEW counts \in Seq(Nat), NEW S, IsSums(counts, S), NEW i \in 1 .. Len(counts)
  PROVE  Before(counts, i) = S[i - 1]
<1> DEFINE first == SubSeq(counts, 1, i - 1)
           T == [k \in 0 .. i - 1 |-> S[k]]
<1>1. first \in Seq(Nat) /\ Len(first) = i - 1 /\ \A k \in 1 .. i - 1 : first[k] = counts[k]
  OBVIOUS
<1>2. IsSums(first, T)
  <2>1. i \in Int /\ i - 1 \in 0 .. i - 1 /\ 0 \in 0 .. i - 1 /\ i - 1 < Len(counts) /\ Len(counts) \in Nat
    OBVIOUS
  <2>2. T \in [0 .. i - 1 -> Nat] /\ T[0] = 0
    <3>1. \A k \in 0 .. i - 1 : k \in 0 .. Len(counts)
      BY <2>1
    <3>2. S[0] = 0 /\ \A k \in 0 .. Len(counts) : S[k] \in Nat
      BY DEF IsSums
    <3> QED
      BY <2>1, <3>1, <3>2
  <2>3. ASSUME NEW k \in 1 .. i - 1 PROVE T[k] = T[k - 1] + first[k]
    <3>1. k \in 0 .. i - 1 /\ k - 1 \in 0 .. i - 1 /\ k \in 1 .. Len(counts)
      BY <2>1
    <3> QED
      BY <1>1, <3>1 DEF IsSums
  <2> HIDE DEF first, T
  <2> QED
    BY <1>1, <2>2, <2>3 DEF IsSums
<1>3. Before(counts, i) = Len(AllLabels(0, first))
  BY DEF Before
<1>4. T[i - 1] = S[i - 1]
  OBVIOUS
<1> HIDE DEF first, T
<1>5. Len(AllLabels(0, first)) = T[Len(first)]
  <2>1. first \in Seq(Nat) /\ 0 \in Int
    BY <1>1
  <2> QED
    BY <1>2, <2>1, LabelsFlat, Zenon
<1> QED
  BY <1>1, <1>3, <1>4, <1>5
-----------------------------------------------------------------------------
(* What an analysis leaves, and what the getters read from it. *)

Code == Label \cup { << -1 >> }
Meta == [seg : Nat, offset : { 0 }, pos : Nat]
Sentences ==
  [raw : Texts \cup { NoText }, metas : Seq(Meta), segment : Seq(Label), pos : Seq(Label),
   wordOffset : Seq(Label), candidates : Seq(Seq(Code)), incrementedWordOffset : BOOLEAN,
   reserved : BOOLEAN]
Options == [type : Types, nbest : Nat, pos : BOOLEAN]

(* s holds the results of run r. *)
Holds(s, r, counts, type, pos) ==
  /\ s.metas = Metas(counts, pos /\ type # "prefix")
  /\ s.segment = AllLabels(r, counts)
  /\ (counts # << >> /\ type = "dict") =>
       Len(counts) = 1 /\ ~s.incrementedWordOffset /\ s.wordOffset = AllLabels(r, counts)
  /\ (counts # << >> /\ type # "prefix" /\ pos) => s.pos = AllLabels(r, counts)

LEMMA MetasType ==
  ASSUME NEW counts \in Seq(Nat), NEW tagged
  PROVE  Metas(counts, tagged) \in Seq(Meta) /\ Len(Metas(counts, tagged)) = Len(counts)
<1>1. PICK S : IsSums(counts, S)
  BY SumsExist
<1>2. ASSUME NEW i \in 1 .. Len(counts)
      PROVE  Before(counts, i) \in Nat
  <2>1. i - 1 \in 0 .. Len(counts)
    OBVIOUS
  <2> QED
    BY <1>1, <2>1, BeforeIs DEF IsSums
<1> DEFINE meta(i) == [seg |-> Before(counts, i), offset |-> 0, pos |-> IF tagged THEN Before(counts, i) ELSE 0]
<1>3. \A i \in 1 .. Len(counts) : meta(i) \in Meta
  BY <1>2 DEF Meta
<1>4. Metas(counts, tagged) = [i \in 1 .. Len(counts) |-> meta(i)]
  BY DEF Metas
<1> HIDE DEF meta
<1> QED
  BY <1>3, <1>4

LEMMA Answers ==
  ASSUME NEW s \in Sentences, NEW r \in Int, NEW counts \in Seq(Nat), NEW type, NEW pos,
         Holds(s, r, counts, type, pos)
  PROVE  /\ getListSize(s) = Len(counts)
         /\ \A i \in 1 .. Len(counts) :
              /\ getCount(s, i) = counts[i]
              /\ \A j \in 1 .. counts[i] :
                   /\ getLexicon(s, i, j) = << r, i, j >>
                   /\ type = "dict" => getOffset(s, i, j) = << r, i, j >>
                   /\ (type # "prefix" /\ pos) => getStrPOS(s, i, j) = << r, i, j >>
<1> DEFINE n == Len(counts)
           all == AllLabels(r, counts)
<1>1. n \in Nat /\ \A i \in 1 .. n : counts[i] \in Nat
  OBVIOUS
<1>2. PICK S : IsSums(counts, S)
  BY SumsExist
<1>3. /\ s.segment = all
      /\ (counts # << >> /\ type = "dict") => n = 1 /\ ~s.incrementedWordOffset /\ s.wordOffset = all
      /\ (counts # << >> /\ type # "prefix" /\ pos) => s.pos = all
      /\ Len(s.metas) = n
  BY MetasType DEF Holds
<1>4. \A i \in 1 .. n : /\ s.metas[i].seg = Before(counts, i)
                        /\ s.metas[i].offset = 0
                        /\ (type # "prefix" /\ pos) => s.metas[i].pos = Before(counts, i)
  BY DEF Holds, Metas
<1>5. /\ Len(all) = S[n]
      /\ \A i \in 1 .. n : \A j \in 1 .. counts[i] :
           S[i - 1] + j \in 1 .. S[n] /\ all[S[i - 1] + j] = << r, i, j >>
  BY <1>2, LabelsFlat
<1>6. /\ \A i \in 0 .. n : S[i] \in Nat
      /\ \A i \in 1 .. n : S[i] = S[i - 1] + counts[i]
  BY <1>2 DEF IsSums
<1>7. ASSUME NEW i \in 1 .. n
      PROVE  getCount(s, i) = counts[i]
  <2>1. i - 1 \in 0 .. n /\ i \in 0 .. n /\ S[i] \in Nat /\ S[i - 1] \in Nat /\ counts[i] \in Nat
    BY <1>1, <1>6
  <2>2. s.metas # << >> /\ s.metas[i].seg = S[i - 1]
    BY <1>1, <1>2, <1>3, <1>4, BeforeIs
  <2>3. (IF i + 1 > Len(s.metas) THEN Len(s.segment) ELSE s.metas[i + 1].seg) = S[i]
    <3>1. CASE i = n
      BY <1>1, <1>3, <1>5, <3>1
    <3>2. CASE i # n
      <4>1. i + 1 \in 1 .. n /\ ~(i + 1 > n) /\ (i + 1) - 1 = i
        BY <1>1, <3>2
      <4>2. Before(counts, i + 1) = S[i]
        BY <1>2, <4>1, BeforeIs
      <4> QED
        BY <1>3, <1>4, <4>1, <4>2
    <3> QED
      BY <3>1, <3>2
  <2>4. S[i] = S[i - 1] + counts[i]
    BY <1>6
  <2> HIDE DEF n
  <2> QED
    BY <2>1, <2>2, <2>3, <2>4 DEF getCount, getListSize
<1>8. ASSUME NEW i \in 1 .. n, NEW j \in 1 .. counts[i]
      PROVE  /\ getLexicon(s, i, j) = << r, i, j >>
             /\ type = "dict" => getOffset(s, i, j) = << r, i, j >>
             /\ (type # "prefix" /\ pos) => getStrPOS(s, i, j) = << r, i, j >>
  <2>1. Before(counts, i) = S[i - 1] /\ counts # << >>
    BY <1>2, BeforeIs
  <2>2. S[i - 1] + j \in 1 .. Len(all) /\ all[S[i - 1] + j] = << r, i, j >>
    BY <1>5
  <2>3. i - 1 \in 0 .. n /\ j \in Int
    OBVIOUS
  <2>4. S[i - 1] \in Nat
    BY <1>6, <2>3
  <2>5. At(all, S[i - 1] + j) = << r, i, j >>
    BY <2>2 DEF At
  <2>6. getLexicon(s, i, j) = << r, i, j >>
    BY <1>3, <1>4, <2>1, <2>5 DEF getLexicon
  <2>7. (type # "prefix" /\ pos) => getStrPOS(s, i, j) = << r, i, j >>
    BY <1>3, <1>4, <2>1, <2>5 DEF getStrPOS
  <2>8. type = "dict" => getOffset(s, i, j) = << r, i, j >>
    <3>1. CASE type = "dict"
      <4>1. n = 1 /\ ~s.incrementedWordOffset /\ s.wordOffset = all
        BY <1>3, <2>1, <3>1, Zenon
      <4>2. i = 1
        BY <4>1
      <4>3. S[i - 1] = 0
        BY <1>2, <4>2 DEF IsSums
      <4>4. getOffset(s, i, j) = At(all, 0 + j)
        BY <1>4, <4>1 DEF getOffset
      <4> QED
        BY <2>5, <4>3, <4>4
    <3> QED
      BY <3>1
  <2> QED
    BY <2>6, <2>7, <2>8
<1> QED
  BY <1>3, <1>7, <1>8 DEF getListSize

LEMMA MinOfTwo ==
  ASSUME NEW a \in Nat, NEW b \in Nat
  PROVE  Min({ a, b }) \in { a, b } /\ Min({ a, b }) <= a /\ Min({ a, b }) <= b
<1>1. \E x \in { a, b } : \A y \in { a, b } : x <= y
  BY SMT
<1> QED
  BY <1>1 DEF Min

LEMMA NoneWithoutLength ==
  ASSUME NEW X, NEW q \in Seq(X)
  PROVE  Len(q) \in Nat /\ (q = << >> <=> Len(q) = 0)
OBVIOUS

LEMMA Firsts ==
  ASSUME NEW counts \in Seq(Nat), NEW n \in Nat \ { 0 }
  PROVE  /\ SubSeq(counts, 1, Min({ n, Len(counts) })) \in Seq(Nat)
         /\ counts # << >> <=> SubSeq(counts, 1, Min({ n, Len(counts) })) # << >>
<1> DEFINE m == Min({ n, Len(counts) })
           f == SubSeq(counts, 1, m)
<1>1. Len(counts) \in Nat /\ n \in Nat /\ n # 0
  OBVIOUS
<1>2. m \in { n, Len(counts) } /\ m <= n /\ m <= Len(counts)
  BY <1>1, MinOfTwo
<1> HIDE DEF m
<1>3. m \in 0 .. Len(counts) /\ (m = 0 <=> Len(counts) = 0)
  BY <1>1, <1>2
<1>4. f \in Seq(Nat) /\ Len(f) = m
  BY <1>3
<1>5. (f # << >> <=> m # 0) /\ (counts # << >> <=> Len(counts) # 0)
  <2> HIDE DEF f
  <2> QED
    BY <1>4, NoneWithoutLength
<1> QED
  BY <1>3, <1>4, <1>5 DEF m

LEMMA AnalysisIs ==
  ASSUME options \in Options, NEW s \in Sentences, NEW t \in Texts, NEW n \in Nat, NEW r \in Nat
  PROVE  LET counts == Counts(t, options.type, n)
             a == analysis(s, t, n, r)
         IN /\ counts \in Seq(Nat)
            /\ HasChars(t) <=> counts # << >>
            /\ a \in Sentences /\ a.raw = s.raw /\ a.candidates = s.candidates
            /\ HasChars(t) => Holds(a, r, counts, options.type, options.pos)
            /\ ~HasChars(t) => a.metas = s.metas /\ a.segment = s.segment
<1> DEFINE counts == Counts(t, options.type, n)
           a == analysis(s, t, n, r)
           type == options.type
           pos == options.pos
<1>1. /\ t.mm \in Seq(Nat) /\ t.dict \in Seq(Nat) /\ t.prefix \in Seq(Nat)
      /\ HasChars(t) <=> t.mm # << >>
      /\ HasChars(t) <=> t.dict # << >>
      /\ HasChars(t) <=> t.prefix # << >>
      /\ Len(t.dict) <= 1
  BY TextsAssumption DEF HasChars
<1>2. type \in Types /\ pos \in BOOLEAN
  BY DEF Options
<1>3. ASSUME NEW c \in Seq(Nat) PROVE AllLabels(r, c) \in Seq(Label)
  <2>1. PICK S : IsSums(c, S)
    BY SumsExist
  <2>2. r \in Int
    OBVIOUS
  <2> QED
    BY <2>1, <2>2, LabelsFlat
<1>4. \A c \in Seq(Nat) : Metas(c, pos) \in Seq(Meta) /\ Metas(c, FALSE) \in Seq(Meta)
  BY MetasType
<1>5. CASE type = "mm"
  <2>1. counts = SubSeq(t.mm, 1, Min({ NBest(n), Len(t.mm) }))
    <3>1. NBest(n) = IF n = 0 THEN 20 ELSE n
      BY DEF NBest
    <3> QED
      BY <1>5, <3>1 DEF Counts
  <2>2. NBest(n) \in Nat \ { 0 }
    BY DEF NBest
  <2>3. counts \in Seq(Nat) /\ (t.mm # << >> <=> counts # << >>)
    BY <1>1, <2>1, <2>2, Firsts
  <2>4. a = analysis_mmmodel(s, t, n, pos, r)
    BY <1>5 DEF analysis
  <2> HIDE DEF counts
  <2>5. CASE t.mm = << >>
    <3>1. a = s
      BY <2>4, <2>5 DEF analysis_mmmodel
    <3> QED
      BY <1>1, <2>3, <2>5, <3>1 DEF counts
  <2>6. CASE t.mm # << >>
    <3>1. a = [s EXCEPT !.metas = Metas(counts, pos), !.reserved = TRUE,
                        !.segment = AllLabels(r, counts),
                        !.pos = IF pos THEN AllLabels(r, counts) ELSE @]
      BY <2>1, <2>4, <2>6 DEF analysis_mmmodel
    <3>2. Metas(counts, pos) \in Seq(Meta) /\ AllLabels(r, counts) \in Seq(Label)
      BY <1>3, <1>4, <2>3
    <3> HIDE DEF a, type, pos
    <3>3. /\ a \in Sentences /\ a.raw = s.raw /\ a.candidates = s.candidates
          /\ a.metas = Metas(counts, pos) /\ a.segment = AllLabels(r, counts)
          /\ pos => a.pos = AllLabels(r, counts)
      BY <3>1, <3>2 DEF Sentences
    <3>4. (pos /\ type # "prefix") = pos /\ type # "dict"
      BY <1>2, <1>5
    <3>5. Holds(a, r, counts, type, pos)
      BY <3>3, <3>4 DEF Holds
    <3> QED
      BY <1>1, <2>3, <2>6, <3>3, <3>5 DEF counts, a, type, pos
  <2> QED
    BY <2>5, <2>6
<1>6. CASE type = "dict"
  <2>1. counts = t.dict
    BY <1>6 DEF Counts
  <2>2. a = analysis_fmincover(s, t, pos, r)
    BY <1>6 DEF analysis
  <2>3. [s EXCEPT !.incrementedWordOffset = FALSE] \in Sentences
    BY DEF Sentences
  <2>4. CASE t.dict = << >>
    <3>1. a = [s EXCEPT !.incrementedWordOffset = FALSE]
      BY <2>2, <2>4 DEF analysis_fmincover
    <3>2. a.raw = s.raw /\ a.candidates = s.candidates /\ a.metas = s.metas /\ a.segment = s.segment
      BY <3>1 DEF Sentences
    <3> HIDE DEF a
    <3> QED
      BY <1>1, <2>1, <2>3, <2>4, <3>1, <3>2 DEF a
  <2>5. CASE t.dict # << >>
    <3>1. a = [[s EXCEPT !.incrementedWordOffset = FALSE] EXCEPT
                        !.metas = Metas(counts, pos), !.reserved = TRUE,
                        !.segment = AllLabels(r, counts), !.wordOffset = AllLabels(r, counts),
                        !.pos = IF pos THEN AllLabels(r, counts) ELSE @]
      BY <2>1, <2>2, <2>5 DEF analysis_fmincover
    <3>2. Metas(counts, pos) \in Seq(Meta) /\ AllLabels(r, counts) \in Seq(Label)
      BY <1>1, <1>3, <1>4, <2>1
    <3>3. Len(counts) = 1
      <4>1. Len(t.dict) \in Nat /\ Len(t.dict) # 0
        BY <1>1, <2>5, NoneWithoutLength
      <4>2. Len(t.dict) = 1
        <5>1. Len(t.dict) <= 1
          BY <1>1
        <5>2. \A l \in Nat : (l # 0 /\ l <= 1) => l = 1
          OBVIOUS
        <5> HIDE DEF counts, a, type, pos
        <5> QED
          BY <4>1, <5>1, <5>2, Zenon
      <4> HIDE DEF counts
      <4> QED
        BY <2>1, <4>2
    <3> HIDE DEF a, type, pos, counts
    <3>4. /\ a \in Sentences /\ a.raw = s.raw /\ a.candidates = s.candidates
          /\ a.metas = Metas(counts, pos) /\ a.segment = AllLabels(r, counts)
          /\ a.wordOffset = AllLabels(r, counts) /\ a.incrementedWordOffset = FALSE
          /\ pos => a.pos = AllLabels(r, counts)
      BY <3>1, <3>2 DEF Sentences
    <3>5. (pos /\ type # "prefix") = pos
      BY <1>2, <1>6
    <3>6. Holds(a, r, counts, type, pos)
      BY <3>3, <3>4, <3>5 DEF Holds
    <3> QED
      BY <1>1, <2>1, <2>5, <3>4, <3>6 DEF counts, a, type, pos
  <2> QED
    BY <2>4, <2>5
<1>7. CASE type = "prefix"
  <2>1. counts = t.prefix
    BY <1>7 DEF Counts
  <2>2. a = analysis_maxprefix(s, t, r)
    BY <1>7 DEF analysis
  <2>3. CASE t.prefix = << >>
    <3>1. a = s
      BY <2>2, <2>3 DEF analysis_maxprefix
    <3> QED
      BY <1>1, <2>1, <2>3, <3>1
  <2>4. CASE t.prefix # << >>
    <3>1. a = [s EXCEPT !.metas = Metas(counts, FALSE), !.reserved = TRUE,
                        !.segment = AllLabels(r, counts)]
      BY <2>1, <2>2, <2>4 DEF analysis_maxprefix
    <3>2. Metas(counts, FALSE) \in Seq(Meta) /\ AllLabels(r, counts) \in Seq(Label)
      BY <1>1, <1>3, <1>4, <2>1
    <3> HIDE DEF a, type, pos, counts
    <3>3. /\ a \in Sentences /\ a.raw = s.raw /\ a.candidates = s.candidates
          /\ a.metas = Metas(counts, FALSE) /\ a.segment = AllLabels(r, counts)
      BY <3>1, <3>2 DEF Sentences
    <3>4. (pos /\ type # "prefix") = FALSE /\ type # "dict"
      BY <1>2, <1>7
    <3>5. Holds(a, r, counts, type, pos)
      BY <1>7, <3>3, <3>4 DEF Holds
    <3> QED
      BY <1>1, <2>1, <2>4, <3>3, <3>5 DEF counts, a, type, pos
  <2> QED
    BY <2>3, <2>4
<1> QED
  BY <1>2, <1>5, <1>6, <1>7 DEF Types

(* A text without characters leaves what a Sentence holds. *)
LEMMA LeftAsItWas ==
  ASSUME options \in Options, NEW s \in Sentences, NEW t \in Texts, ~HasChars(t), NEW n \in Nat, NEW r \in Nat,
         NEW q, NEW counts, NEW type, NEW pos, Holds(s, q, counts, type, pos)
  PROVE  Holds(analysis(s, t, n, r), q, counts, type, pos)
<1>1. t.mm = << >> /\ t.dict = << >> /\ t.prefix = << >>
  BY TextsAssumption DEF HasChars
<1>2. options.type \in Types
  BY DEF Options
<1> DEFINE a == analysis(s, t, n, r)
<1>3. CASE options.type = "mm" \/ options.type = "prefix"
  <2>1. a = s
    BY <1>1, <1>3 DEF analysis, analysis_mmmodel, analysis_maxprefix
  <2> QED
    BY <2>1
<1>4. CASE options.type = "dict"
  <2>1. a = [s EXCEPT !.incrementedWordOffset = FALSE]
    BY <1>1, <1>4 DEF analysis, analysis_fmincover
  <2>2. /\ a.metas = s.metas /\ a.segment = s.segment /\ a.pos = s.pos /\ a.wordOffset = s.wordOffset
        /\ a.incrementedWordOffset = FALSE
    BY <2>1 DEF Sentences
  <2> HIDE DEF a
  <2> QED
    BY <2>2 DEF Holds, a
<1> QED
  BY <1>2, <1>3, <1>4 DEF Types
-----------------------------------------------------------------------------
(* The lists of morphemes. *)

LEMMA AtType ==
  ASSUME NEW list \in Seq(Label), NEW k
  PROVE  At(list, k) \in Label
<1>1. Garbage \in Label
  BY DEF Garbage, Label
<1> QED
  BY <1>1 DEF At

(* The morphemes that candidate k had already, *)
Earlier(s, k) == IF k \in 1 .. Len(s.candidates) THEN s.candidates[k] ELSE << >>

(* and what the j-th one is when the run is over. *)
Morpheme(s, k, j) ==
  IF options.pos /\ j <= getCount(s, k) THEN getStrPOS(s, k, j)
  ELSE IF j <= Len(Earlier(s, k)) THEN Earlier(s, k)[j] ELSE << -1 >>

(* One list more for each candidate, and those of 1 to i are filled. *)
Filled(s, i, c) ==
  /\ c \in Seq(Seq(Code)) /\ Len(c) = Len(s.candidates) + i
  /\ \A k \in 1 .. i :
       /\ Len(c[k]) = Len(Earlier(s, k)) + getCount(s, k)
       /\ \A j \in 1 .. Len(c[k]) : c[k][j] = Morpheme(s, k, j)
  /\ \A k \in i + 1 .. Len(c) : c[k] = Earlier(s, k)

LEMMA OneListMore ==
  ASSUME options \in Options, NEW s \in Sentences, NEW i \in Nat \ { 0 }, getCount(s, i) \in Nat,
         NEW c, Filled(s, i - 1, c)
  PROVE  \E d : /\ Filled(s, i, d)
                /\ AddMorphemes([s EXCEPT !.candidates = c], i) = [s EXCEPT !.candidates = d]
<1> DEFINE u == [s EXCEPT !.candidates = c]
           count == getCount(s, i)
           all == Append(c, << >>)
           list == all[i] \o Untagged(count)
           code(j) == IF options.pos /\ j <= count THEN getStrPOS(s, i, j) ELSE list[j]
           coded == [j \in 1 .. Len(list) |-> code(j)]
           d == [all EXCEPT ![i] = coded]
<1>1. AddMorphemes(u, i) = [s EXCEPT !.candidates = d]
  <2>1. /\ u.candidates = c /\ u.metas = s.metas /\ u.segment = s.segment /\ u.pos = s.pos
    BY DEF Sentences
  <2>2. getCount(u, i) = count
    BY <2>1 DEF getCount, getListSize
  <2>3. \A j : getStrPOS(u, i, j) = getStrPOS(s, i, j)
    BY <2>1 DEF getStrPOS
  <2>4. AddMorphemes(u, i) = [u EXCEPT !.candidates = d]
    BY <2>1, <2>2, <2>3 DEF AddMorphemes
  <2> HIDE DEF d
  <2> QED
    BY <2>4 DEF Sentences
<1>2. count \in Nat /\ i \in Nat /\ i # 0 /\ c \in Seq(Seq(Code)) /\ Len(s.candidates) \in Nat
  BY DEF Filled, Sentences
<1>3. Len(c) = Len(s.candidates) + (i - 1)
  BY DEF Filled
<1>4. << >> \in Seq(Code)
  OBVIOUS
<1>5. /\ all \in Seq(Seq(Code)) /\ Len(all) = Len(c) + 1
      /\ \A k \in 1 .. Len(c) : all[k] = c[k]
      /\ all[Len(c) + 1] = << >>
  BY <1>2, <1>4
<1>6. i \in 1 .. Len(all)
  BY <1>2, <1>3, <1>5
<1>19. \A k \in i .. Len(all) : all[k] = Earlier(s, k)
  <2> SUFFICES ASSUME NEW k \in i .. Len(all) PROVE all[k] = Earlier(s, k)
    OBVIOUS
  <2>1. k \in Nat /\ Len(c) \in Nat
    BY <1>2
  <2>2. CASE k = Len(c) + 1
    <3>1. ~(k \in 1 .. Len(s.candidates))
      BY <1>2, <1>3, <2>2
    <3> QED
      BY <1>5, <2>2, <3>1 DEF Earlier
  <2>3. CASE k # Len(c) + 1
    <3>1. k \in (i - 1) + 1 .. Len(c) /\ k \in 1 .. Len(c)
      BY <1>2, <1>5, <2>1, <2>3
    <3> QED
      BY <1>5, <3>1 DEF Filled
  <2> QED
    BY <2>2, <2>3
<1>20. all[i] = Earlier(s, i)
  BY <1>2, <1>5, <1>6, <1>19
<1>7. Untagged(count) \in Seq(Code) /\ Len(Untagged(count)) = count
      /\ \A j \in 1 .. count : Untagged(count)[j] = << -1 >>
  <2> HIDE DEF count
  <2> QED
    BY <1>2 DEF Untagged, Code
<1>8. all[i] \in Seq(Code)
  BY <1>5, <1>6
<1> HIDE DEF all
<1>9. /\ list \in Seq(Code) /\ Len(list) = Len(all[i]) + count
      /\ \A j \in 1 .. Len(all[i]) : list[j] = all[i][j]
      /\ \A j \in 1 .. count : list[Len(all[i]) + j] = Untagged(count)[j]
  <2>1. /\ all[i] \o Untagged(count) \in Seq(Code)
        /\ Len(all[i] \o Untagged(count)) = Len(all[i]) + Len(Untagged(count))
        /\ \A j \in 1 .. Len(all[i]) : (all[i] \o Untagged(count))[j] = all[i][j]
        /\ \A j \in 1 .. Len(Untagged(count)) :
             (all[i] \o Untagged(count))[Len(all[i]) + j] = Untagged(count)[j]
    <3>1. Untagged(count) \in Seq(Code)
      BY <1>7
    <3>2. \A x \in Seq(Code), y \in Seq(Code) :
            /\ x \o y \in Seq(Code) /\ Len(x \o y) = Len(x) + Len(y)
            /\ \A j \in 1 .. Len(x) : (x \o y)[j] = x[j]
            /\ \A j \in 1 .. Len(y) : (x \o y)[Len(x) + j] = y[j]
      BY Concat
    <3> HIDE DEF count
    <3> QED
      BY <1>8, <3>1, <3>2, Zenon
  <2>2. Len(Untagged(count)) = count
    BY <1>7
  <2> QED
    BY <2>1, <2>2
<1>10. Len(list) \in Nat /\ count <= Len(list)
  <2>1. Len(all[i]) \in Nat
    BY <1>8
  <2> QED
    BY <1>2, <1>9, <2>1
<1>11. \A j \in 1 .. Len(list) : code(j) \in Code
  <2>1. \A j : getStrPOS(s, i, j) \in Label
    BY AtType DEF getStrPOS, Sentences
  <2>2. \A j \in 1 .. Len(list) : list[j] \in Code
    BY <1>9
  <2> HIDE DEF list, count
  <2> QED
    BY <2>1, <2>2 DEF Code
<1>12. \A j \in 1 .. Len(list) :
         list[j] = IF j <= Len(Earlier(s, i)) THEN Earlier(s, i)[j] ELSE << -1 >>
  <2> SUFFICES ASSUME NEW j \in 1 .. Len(list)
               PROVE  list[j] = IF j <= Len(Earlier(s, i)) THEN Earlier(s, i)[j] ELSE << -1 >>
    OBVIOUS
  <2> DEFINE m == Len(all[i])
  <2>1. m \in Nat /\ m = Len(Earlier(s, i)) /\ Len(list) = m + count /\ j \in Nat
    BY <1>8, <1>9, <1>10, <1>20
  <2>2. CASE j <= m
    <3>1. j \in 1 .. Len(all[i])
      BY <2>1, <2>2
    <3> QED
      BY <1>9, <1>20, <2>1, <2>2, <3>1
  <2>3. CASE ~(j <= m)
    <3>1. PICK l \in 1 .. count : j = m + l
      <4>1. j - m \in 1 .. count /\ j = m + (j - m)
        BY <1>2, <1>10, <2>1, <2>3
      <4> QED
        BY <4>1
    <3>2. list[m + l] = << -1 >>
      BY <1>7, <1>9
    <3> HIDE DEF m
    <3> QED
      BY <2>1, <2>3, <3>1, <3>2
  <2> QED
    BY <2>2, <2>3
<1>13. coded \in Seq(Code) /\ Len(coded) = Len(list) /\ \A j \in 1 .. Len(list) : coded[j] = code(j)
  <2> HIDE DEF code, list
  <2> QED
    BY <1>10, <1>11
<1>14. /\ Len(coded) = Len(Earlier(s, i)) + count
       /\ \A j \in 1 .. Len(coded) : coded[j] = Morpheme(s, i, j)
  <2>1. \A j \in 1 .. Len(list) : code(j) = Morpheme(s, i, j)
    <3> HIDE DEF list
    <3> QED
      BY <1>12 DEF Morpheme
  <2> HIDE DEF coded, list, code
  <2> QED
    BY <1>9, <1>13, <1>20, <2>1
<1> HIDE DEF coded
<1>15. /\ d \in Seq(Seq(Code)) /\ Len(d) = Len(s.candidates) + i
       /\ d[i] = coded
       /\ \A k \in 1 .. Len(all) : k # i => d[k] = all[k]
  BY <1>2, <1>3, <1>5, <1>6, <1>13
<1> HIDE DEF d
<1>16. ASSUME NEW k \in 1 .. i
       PROVE  /\ Len(d[k]) = Len(Earlier(s, k)) + getCount(s, k)
              /\ \A j \in 1 .. Len(d[k]) : d[k][j] = Morpheme(s, k, j)
  <2>1. CASE k = i
    BY <1>14, <1>15, <2>1
  <2>2. CASE k # i
    <3>1. k \in 1 .. i - 1 /\ k \in 1 .. Len(c) /\ k \in 1 .. Len(all)
      <4>1. Len(c) \in Nat /\ Len(c) >= i - 1 /\ Len(all) = Len(c) + 1
        BY <1>2, <1>3, <1>5
      <4>2. k \in 1 .. i - 1
        BY <1>2, <2>2
      <4> QED
        BY <1>2, <4>1, <4>2
    <3>2. d[k] = c[k]
      BY <1>5, <1>15, <2>2, <3>1
    <3> QED
      BY <3>1, <3>2 DEF Filled
  <2> QED
    BY <2>1, <2>2
<1>17. ASSUME NEW k \in i + 1 .. Len(d)
       PROVE  d[k] = Earlier(s, k)
  <2>1. Len(d) = Len(all) /\ Len(all) \in Nat
    BY <1>2, <1>3, <1>5, <1>15
  <2>2. k \in 1 .. Len(all) /\ k # i /\ k \in i .. Len(all)
    BY <1>2, <1>17, <2>1
  <2> QED
    BY <1>15, <1>19, <2>2
<1>18. Filled(s, i, d)
  BY <1>15, <1>16, <1>17 DEF Filled
<1> QED
  BY <1>1, <1>18

(* The recursion of AddAllMorphemes has a solution. *)
LEMMA AddAllExists ==
  ASSUME NEW n \in Nat, NEW s
  PROVE  \E f : f = [i \in 0 .. n |-> IF i = 0 THEN s ELSE AddMorphemes(f[i - 1], i)]
<1> DEFINE Solves(f, m) == f = [i \in 0 .. m |-> IF i = 0 THEN s ELSE AddMorphemes(f[i - 1], i)]
           Bad == { m \in Nat : ~\E f : Solves(f, m) }
<1>1. ASSUME Bad # {} PROVE FALSE
  <2>1. PICK m \in Bad : \A l \in Bad : m <= l
    <3>1. Bad \in SUBSET Nat
      OBVIOUS
    <3> HIDE DEF Bad
    <3> QED
      BY <1>1, <3>1, LeastElement
  <2>2. m \in Nat /\ ~\E f : Solves(f, m)
    BY <2>1
  <2>3. m # 0
    <3>1. Solves([i \in 0 .. 0 |-> s], 0)
      OBVIOUS
    <3> QED
      BY <2>2, <3>1
  <2>4. m - 1 \in Nat /\ m - 1 \notin Bad
    <3>1. m - 1 \in Nat /\ ~(m <= m - 1)
      BY <2>2, <2>3
    <3> HIDE DEF Bad
    <3> QED
      BY <2>1, <3>1
  <2>5. PICK f : Solves(f, m - 1)
    BY <2>4
  <2> DEFINE g == [i \in 0 .. m |-> IF i = 0 THEN s ELSE AddMorphemes(f[i - 1], i)]
  <2>6. ASSUME NEW i \in 0 .. m, i # 0 PROVE g[i - 1] = f[i - 1]
    <3>1. i - 1 \in 0 .. m - 1 /\ i - 1 \in 0 .. m
      BY <2>2, <2>6
    <3>2. f[i - 1] = IF i - 1 = 0 THEN s ELSE AddMorphemes(f[(i - 1) - 1], i - 1)
      BY <2>5, <3>1
    <3> QED
      BY <3>1, <3>2
  <2>7. Solves(g, m)
    BY <2>6
  <2> QED
    BY <2>2, <2>7
<1> QED
  BY <1>1

LEMMA AddAll ==
  ASSUME options \in Options, NEW s \in Sentences, NEW n \in Nat,
         n = (IF getListSize(s) <= 1 THEN 1 ELSE getListSize(s)),
         \A k \in 1 .. n : getCount(s, k) \in Nat
  PROVE  \E c : Filled(s, n, c) /\ AddAllMorphemes(s) = [s EXCEPT !.candidates = c]
<1> DEFINE upTo == CHOOSE f : f = [i \in 0 .. n |-> IF i = 0 THEN s ELSE AddMorphemes(f[i - 1], i)]
           Bad == { i \in 0 .. n : ~\E c : Filled(s, i, c) /\ upTo[i] = [s EXCEPT !.candidates = c] }
<1>1. upTo = [i \in 0 .. n |-> IF i = 0 THEN s ELSE AddMorphemes(upTo[i - 1], i)]
  BY AddAllExists
<1>2. AddAllMorphemes(s) = upTo[n]
  BY DEF AddAllMorphemes
<1> HIDE DEF upTo
<1>3. \A i \in 0 .. n : upTo[i] = IF i = 0 THEN s ELSE AddMorphemes(upTo[i - 1], i)
  BY <1>1
<1>4. ASSUME Bad # {} PROVE FALSE
  <2>1. PICK i \in Bad : \A l \in Bad : i <= l
    <3>1. Bad \in SUBSET Nat
      OBVIOUS
    <3> HIDE DEF Bad
    <3> QED
      BY <1>4, <3>1, LeastElement
  <2>2. i \in 0 .. n /\ ~\E c : Filled(s, i, c) /\ upTo[i] = [s EXCEPT !.candidates = c]
    BY <2>1, Zenon
  <2>3. CASE i = 0
    <3>1. upTo[i] = s
      BY <1>3, <2>2, <2>3
    <3>2. s = [s EXCEPT !.candidates = s.candidates]
      BY DEF Sentences
    <3>3. Filled(s, 0, s.candidates)
      <4>1. s.candidates \in Seq(Seq(Code)) /\ Len(s.candidates) \in Nat
        BY DEF Sentences
      <4>2. \A k \in 0 + 1 .. Len(s.candidates) : s.candidates[k] = Earlier(s, k)
        BY DEF Earlier
      <4> QED
        BY <4>1, <4>2 DEF Filled
    <3> QED
      BY <2>2, <2>3, <3>1, <3>2, <3>3
  <2>4. CASE i # 0
    <3>1. i - 1 \in 0 .. n /\ ~(i <= i - 1) /\ i \in Nat \ { 0 } /\ i \in 1 .. n
      BY <2>2, <2>4
    <3>2. i - 1 \notin Bad
      <4> HIDE DEF Bad
      <4> QED
        BY <2>1, <3>1
    <3>3. PICK c : Filled(s, i - 1, c) /\ upTo[i - 1] = [s EXCEPT !.candidates = c]
      BY <3>1, <3>2, Zenon
    <3>4. upTo[i] = AddMorphemes([s EXCEPT !.candidates = c], i)
      BY <1>3, <2>2, <2>4, <3>3
    <3>5. getCount(s, i) \in Nat
      BY <3>1
    <3>6. \E d : /\ Filled(s, i, d)
                 /\ AddMorphemes([s EXCEPT !.candidates = c], i) = [s EXCEPT !.candidates = d]
      <4>1. Filled(s, i - 1, c) /\ i \in Nat \ { 0 }
        BY <3>1, <3>3
      <4> HIDE DEF Bad
      <4> QED
        BY <3>5, <4>1, OneListMore, Zenon
    <3> QED
      BY <2>2, <3>4, <3>6
  <2> QED
    BY <2>3, <2>4
<1>5. n \in 0 .. n
  OBVIOUS
<1> QED
  BY <1>2, <1>4, <1>5, Zenon
-----------------------------------------------------------------------------
(* The inductive invariant. *)

PastRuns == [run : Nat \ { 0 }, type : Types, pos : BOOLEAN, counts : Seq(Nat)]
Runs == [run : Nat \ { 0 }, type : Types, pos : BOOLEAN, counts : Seq(Nat), before : Seq(PastRuns)]
Streams == [run : { -1 }, file : Files, read : Nat, sent : Sentences, out : Seq(Seq(Label \X Label))]

TypesOK ==
  /\ options \in Options
  /\ sent \in Sentences
  /\ run \in Nat
  /\ last \in Runs \cup { None }
  /\ stream \in Streams \cup { None }

(* c is the code that the last of the runs to tag the place left there. *)
CodeOf(c, i, j, runs) ==
  \/ c = << -1 >> /\ \A k \in 1 .. Len(runs) : ~Tags(runs[k], i, j)
  \/ \E k \in 1 .. Len(runs) :
       /\ Tags(runs[k], i, j)
       /\ \A m \in k + 1 .. Len(runs) : ~Tags(runs[m], i, j)
       /\ runs[k].type # "prefix" => c = << runs[k].run, i, j >>

Has(lists, i, j) == i \in 1 .. Len(lists) /\ j \in 1 .. Len(lists[i])

Coded ==
  /\ \A i \in 1 .. Len(last.counts) : \A j \in 1 .. last.counts[i] : Has(sent.candidates, i, j)
  /\ \A i, j \in Nat :
       Has(sent.candidates, i, j) => CodeOf(sent.candidates[i][j], i, j, RunsOnString)
  /\ \A k \in 1 .. Len(RunsOnString) : \A i, j \in Nat :
       Tags(RunsOnString[k], i, j) => Has(sent.candidates, i, j)

Cleared == sent.metas = << >> /\ sent.segment = << >>

(* A text without characters leaves what was there: nothing, because       *)
(* setString came before it.                                               *)
ResultsOK ==
  /\ last = None => Cleared /\ sent.candidates = << >>
  /\ (sent.raw # NoText /\ ~HasChars(sent.raw)) => Cleared
  /\ last # None => Holds(sent, last.run, last.counts, last.type, last.pos) /\ Coded

(* runWithStream's Sentence holds the last line that had characters. *)
HeldOf(s, m) == Holds(s, m, Counts(stream.file[m], options.type, 1), options.type, options.pos)

LinesHeld(s, n) ==
  IF LinesWithChars(n) = {} THEN s.metas = << >>
  ELSE \E m \in LinesWithChars(n) : (\A l \in LinesWithChars(n) : l <= m) /\ HeldOf(s, m)

LineHeld == LinesHeld(stream.sent, stream.read)

StreamOK ==
  stream # None =>
    /\ stream.read <= Len(stream.file)
    /\ LineHeld
    /\ Len(stream.out) = IF stream.read < Len(stream.file) THEN stream.read + 1 ELSE stream.read
    /\ stream.read < Len(stream.file) => stream.out[stream.read + 1] = << >>
    /\ ~(options.type = "prefix" /\ options.pos) =>
         \A k \in 1 .. stream.read : stream.out[k] = LineUnits(k)

IInv == TypesOK /\ ResultsOK /\ StreamOK

LEMMA InitIInv == Init => IInv
<1> SUFFICES ASSUME Init PROVE IInv
  OBVIOUS
<1>1. Sentence \in Sentences
  BY DEF Sentence, Sentences
<1>2. TypesOK
  BY <1>1 DEF Init, TypesOK, Options, Types
<1>3. ResultsOK
  BY DEF Init, ResultsOK, Cleared, Sentence
<1>4. StreamOK
  BY DEF Init, StreamOK
<1> QED
  BY <1>2, <1>3, <1>4 DEF IInv

(* Without candidates there are no units. *)
LEMMA NoneHeld ==
  ASSUME NEW r \in Int, NEW tagged
  PROVE  Metas(<< >>, tagged) = << >> /\ AllLabels(r, << >>) = << >>
<1>1. << >> \in Seq(Nat) /\ Len(<< >>) = 0
  OBVIOUS
<1>2. Metas(<< >>, tagged) = << >>
  <2>1. Metas(<< >>, tagged) \in Seq(Meta) /\ Len(Metas(<< >>, tagged)) = 0
    <3>1. Len(Metas(<< >>, tagged)) = Len(<< >>)
      BY <1>1, MetasType, Zenon
    <3>2. Metas(<< >>, tagged) \in Seq(Meta)
      BY <1>1, MetasType, Zenon
    <3> QED
      BY <1>1, <3>1, <3>2
  <2> QED
    BY <2>1, NoneWithoutLength
<1>3. PICK S : IsSums(<< >>, S)
  BY <1>1, SumsExist
<1>4. AllLabels(r, << >>) \in Seq(Label) /\ Len(AllLabels(r, << >>)) = 0
  BY <1>1, <1>3, LabelsFlat DEF IsSums
<1> QED
  BY <1>2, <1>4, NoneWithoutLength

LEMMA PastIs ==
  ASSUME last \in Runs \cup { None }
  PROVE  /\ RunsOnString \in Seq(PastRuns)
         /\ last = None => RunsOnString = << >>
<1>1. CASE last = None
  BY <1>1 DEF RunsOnString
<1>2. CASE last # None
  <2>1. /\ last.before \in Seq(PastRuns)
        /\ [run |-> last.run, type |-> last.type, pos |-> last.pos, counts |-> last.counts] \in PastRuns
    BY <1>2 DEF Runs, PastRuns
  <2> QED
    BY <1>2, <2>1 DEF RunsOnString
<1> QED
  BY <1>1, <1>2

(* One run more. *)
LEMMA CodeOfMore ==
  ASSUME NEW runs \in Seq(PastRuns), NEW e \in PastRuns, NEW i, NEW j, NEW c
  PROVE  /\ (Tags(e, i, j) /\ (e.type # "prefix" => c = << e.run, i, j >>))
              => CodeOf(c, i, j, Append(runs, e))
         /\ (~Tags(e, i, j) /\ CodeOf(c, i, j, runs)) => CodeOf(c, i, j, Append(runs, e))
<1> DEFINE more == Append(runs, e)
           l == Len(runs)
<1>1. /\ l \in Nat /\ Len(more) = l + 1 /\ more[l + 1] = e
      /\ \A k \in 1 .. l : more[k] = runs[k]
  OBVIOUS
<1>2. \A k \in 1 .. l + 1 : k = l + 1 \/ k \in 1 .. l
  BY <1>1
<1>3. l + 1 \in 1 .. l + 1 /\ \A m : ~(m \in (l + 1) + 1 .. l + 1)
  BY <1>1
<1> HIDE DEF more, l
<1>4. ASSUME Tags(e, i, j), e.type # "prefix" => c = << e.run, i, j >>
      PROVE  CodeOf(c, i, j, more)
  BY <1>1, <1>3, <1>4 DEF CodeOf
<1>5. ASSUME ~Tags(e, i, j), CodeOf(c, i, j, runs)
      PROVE  CodeOf(c, i, j, more)
  <2>1. CASE c = << -1 >> /\ \A k \in 1 .. l : ~Tags(runs[k], i, j)
    BY <1>1, <1>2, <1>5, <2>1 DEF CodeOf
  <2>2. ASSUME NEW k \in 1 .. l, Tags(runs[k], i, j),
               \A m \in k + 1 .. l : ~Tags(runs[m], i, j),
               runs[k].type # "prefix" => c = << runs[k].run, i, j >>
        PROVE  CodeOf(c, i, j, more)
    <3>1. k \in 1 .. l + 1
      BY <1>1
    <3>2. \A m \in k + 1 .. l + 1 : m = l + 1 \/ (m \in k + 1 .. l /\ m \in 1 .. l)
      BY <1>1
    <3>3. \A m \in k + 1 .. l + 1 : ~Tags(more[m], i, j)
      BY <1>1, <1>5, <2>2, <3>2
    <3> QED
      BY <1>1, <2>2, <3>1, <3>3 DEF CodeOf
  <2> QED
    BY <1>5, <2>1, <2>2 DEF CodeOf, l
<1> QED
  BY <1>4, <1>5 DEF more

LEMMA RunIInv == IInv /\ runWithSentence => IInv'
<1> SUFFICES ASSUME IInv, runWithSentence PROVE IInv'
  OBVIOUS
<1> DEFINE t == sent.raw
           r == run + 1
           counts == Counts(t, options.type, options.nbest)
           a == analysis(sent, t, options.nbest, r)
           type == options.type
           pos == options.pos
           size == IF getListSize(a) <= 1 THEN 1 ELSE getListSize(a)
<1>1. /\ options \in Options /\ sent \in Sentences /\ run \in Nat /\ last \in Runs \cup { None }
      /\ stream = None
  BY DEF IInv, TypesOK, runWithSentence, Idle
<1>2. t \in Texts /\ r \in Nat \ { 0 } /\ options.nbest \in Nat /\ type \in Types /\ pos \in BOOLEAN
  BY <1>1 DEF runWithSentence, Sentences, Options
<1>3. /\ counts \in Seq(Nat)
      /\ HasChars(t) <=> counts # << >>
      /\ a \in Sentences /\ a.raw = t /\ a.candidates = sent.candidates
      /\ HasChars(t) => Holds(a, r, counts, type, pos)
      /\ ~HasChars(t) => a.metas = sent.metas /\ a.segment = sent.segment
  BY <1>1, <1>2, AnalysisIs
<1>4. /\ sent' = AddAllMorphemes(a)
      /\ last' = [run |-> r, type |-> type, pos |-> pos, counts |-> counts, before |-> RunsOnString]
      /\ run' = r /\ options' = options /\ stream' = None
  BY <1>1 DEF runWithSentence
<1> HIDE DEF t, r, counts, a, type, pos
<1>5. ~HasChars(t) => a.metas = << >> /\ a.segment = << >> /\ counts = << >>
  BY <1>1, <1>3 DEF IInv, ResultsOK, Cleared, t, runWithSentence
<1>6. /\ size \in Nat /\ \A k \in 1 .. size : getCount(a, k) \in Nat
      /\ HasChars(t) => size = Len(counts)
  <2>1. CASE HasChars(t)
    <3>1. /\ getListSize(a) = Len(counts)
          /\ \A k \in 1 .. Len(counts) : getCount(a, k) = counts[k]
      BY <1>2, <1>3, <2>1, Answers
    <3>2. Len(counts) \in Nat /\ Len(counts) # 0 /\ \A k \in 1 .. Len(counts) : counts[k] \in Nat
      BY <1>3, <2>1, NoneWithoutLength
    <3>3. size = Len(counts)
      BY <3>1, <3>2
    <3> QED
      BY <3>1, <3>2, <3>3
  <2>2. CASE ~HasChars(t)
    <3>1. getListSize(a) = 0 /\ Len(a.segment) = 0
      BY <1>5, <2>2 DEF getListSize
    <3>2. size = 1
      BY <3>1
    <3>3. getCount(a, 1) = 0
      BY <1>5, <2>2, <3>1 DEF getCount
    <3> QED
      BY <2>2, <3>2, <3>3
  <2> QED
    BY <2>1, <2>2
<1>7. PICK c : Filled(a, size, c) /\ sent' = [a EXCEPT !.candidates = c]
  BY <1>1, <1>3, <1>4, <1>6, AddAll
<1>8. /\ c \in Seq(Seq(Code)) /\ Len(c) = Len(sent.candidates) + size
      /\ \A k \in 1 .. size :
           /\ Len(c[k]) = Len(Earlier(sent, k)) + getCount(a, k)
           /\ \A j \in 1 .. Len(c[k]) : c[k][j] = Morpheme(a, k, j)
      /\ \A k \in size + 1 .. Len(c) : c[k] = Earlier(sent, k)
      /\ \A k : Earlier(a, k) = Earlier(sent, k)
  BY <1>3, <1>7 DEF Filled, Earlier
<1>9. /\ sent' \in Sentences /\ sent'.raw = t /\ sent'.candidates = c
      /\ sent'.metas = a.metas /\ sent'.segment = a.segment /\ sent'.pos = a.pos
      /\ sent'.wordOffset = a.wordOffset /\ sent'.incrementedWordOffset = a.incrementedWordOffset
  BY <1>3, <1>7, <1>8 DEF Sentences
<1>10. last' \in Runs /\ last'.run = r /\ last'.counts = counts /\ last'.type = type /\ last'.pos = pos
       /\ last'.before = RunsOnString
  BY <1>1, <1>2, <1>3, <1>4, PastIs DEF Runs
<1>11. last' # None
  BY <1>10 DEF Runs, None
<1>12. TypesOK'
  BY <1>1, <1>2, <1>4, <1>9, <1>10 DEF TypesOK
<1>13. Holds(sent', r, counts, type, pos)
  <2>1. CASE HasChars(t)
    BY <1>3, <1>9, <2>1 DEF Holds
  <2>2. CASE ~HasChars(t)
    <3>1. r \in Int
      BY <1>2
    <3> QED
      BY <1>5, <1>9, <2>2, <3>1, NoneHeld DEF Holds
  <2> QED
    BY <2>1, <2>2
<1> DEFINE e == [run |-> r, type |-> type, pos |-> pos, counts |-> counts]
<1>19. /\ RunsOnString \in Seq(PastRuns) /\ e \in PastRuns
       /\ e.run = r /\ e.type = type /\ e.pos = pos /\ e.counts = counts
       /\ last = None => sent.candidates = << >>
  BY <1>1, <1>2, <1>3, PastIs DEF PastRuns, IInv, ResultsOK
<1>20. RunsOnString' = Append(RunsOnString, e)
  BY <1>4, <1>11 DEF RunsOnString
<1> HIDE DEF e, size
<1>21. /\ Len(sent.candidates) \in Nat /\ Len(c) \in Nat /\ size <= Len(c)
       /\ \A k : Len(Earlier(sent, k)) \in Nat
       /\ \A k \in 1 .. Len(c) : Len(c[k]) \in Nat /\ Len(Earlier(sent, k)) <= Len(c[k])
  <2>1. sent.candidates \in Seq(Seq(Code)) /\ Len(sent.candidates) \in Nat
    BY <1>1 DEF Sentences
  <2>2. ASSUME NEW k PROVE Len(Earlier(sent, k)) \in Nat
    BY <2>1 DEF Earlier
  <2>3. Len(c) \in Nat /\ size <= Len(c)
    BY <1>6, <1>8, <2>1
  <2>4. ASSUME NEW k \in 1 .. Len(c) PROVE Len(c[k]) \in Nat /\ Len(Earlier(sent, k)) <= Len(c[k])
    <3>1. CASE k \in 1 .. size
      <4>1. Len(c[k]) = Len(Earlier(sent, k)) + getCount(a, k) /\ getCount(a, k) \in Nat
        BY <1>6, <1>8, <3>1
      <4> QED
        BY <2>2, <4>1
    <3>2. CASE ~(k \in 1 .. size)
      <4>1. k \in size + 1 .. Len(c)
        BY <1>6, <3>2
      <4>2. c[k] = Earlier(sent, k)
        BY <1>8, <4>1
      <4> QED
        BY <2>2, <4>2
    <3> QED
      BY <3>1, <3>2
  <2> QED
    BY <2>1, <2>2, <2>3, <2>4
<1>22. ASSUME NEW i, NEW j
       PROVE  /\ Has(sent.candidates, i, j) <=> i \in 1 .. Len(sent.candidates) /\ j \in 1 .. Len(Earlier(sent, i))
              /\ Has(sent.candidates, i, j) => Earlier(sent, i)[j] = sent.candidates[i][j]
              /\ j \in 1 .. Len(Earlier(sent, i)) => Has(sent.candidates, i, j)
  <2>1. CASE i \in 1 .. Len(sent.candidates)
    BY <2>1 DEF Has, Earlier
  <2>2. CASE ~(i \in 1 .. Len(sent.candidates))
    <3>1. Earlier(sent, i) = << >>
      BY <2>2 DEF Earlier
    <3>2. ~(j \in 1 .. Len(<< >>))
      OBVIOUS
    <3> QED
      BY <2>2, <3>1, <3>2 DEF Has
  <2> QED
    BY <2>1, <2>2
<1>23. ASSUME NEW i \in 1 .. Len(counts)
       PROVE  HasChars(t) /\ i \in 1 .. size /\ getCount(a, i) = counts[i] /\ counts[i] \in Nat
  <2>1. HasChars(t)
    <3>1. counts # << >>
      <4>1. counts = << >> => Len(counts) = 0
        OBVIOUS
      <4>2. Len(counts) # 0
        BY <1>3
      <4> QED
        BY <4>1, <4>2
    <3> QED
      BY <1>3, <3>1
  <2>2. size = Len(counts)
    BY <1>6, <2>1
  <2>3. getCount(a, i) = counts[i]
    BY <1>2, <1>3, <2>1, Answers
  <2> QED
    BY <1>3, <2>1, <2>2, <2>3
<1>14. ASSUME NEW i \in 1 .. Len(counts), NEW j \in 1 .. counts[i]
       PROVE  /\ Has(c, i, j)
              /\ (pos /\ type # "prefix") => c[i][j] = << r, i, j >>
  <2>1. HasChars(t) /\ i \in 1 .. size /\ getCount(a, i) = counts[i] /\ counts[i] \in Nat
    <3>1. i \in 1 .. Len(counts)
      OBVIOUS
    <3> QED
      BY <1>23, <3>1, Zenon
  <2>2. (pos /\ type # "prefix") => getStrPOS(a, i, j) = << r, i, j >>
    <3>1. \A k \in 1 .. Len(counts) : \A l \in 1 .. counts[k] :
            (type # "prefix" /\ pos) => getStrPOS(a, k, l) = << r, k, l >>
      <4>1. r \in Int /\ a \in Sentences /\ counts \in Seq(Nat) /\ Holds(a, r, counts, type, pos)
        BY <1>2, <1>3, <2>1
      <4> QED
        BY <4>1, Answers
    <3> QED
      BY <3>1
  <2>3. i \in 1 .. Len(c)
    BY <1>6, <1>21, <2>1
  <2>4. Len(c[i]) = Len(Earlier(sent, i)) + counts[i] /\ Len(Earlier(sent, i)) \in Nat
    BY <1>8, <1>21, <2>1
  <2>5. j \in 1 .. Len(c[i]) /\ j <= getCount(a, i)
    BY <2>1, <2>4
  <2>6. c[i][j] = Morpheme(a, i, j)
    BY <1>8, <2>1, <2>5
  <2>7. pos => Morpheme(a, i, j) = getStrPOS(a, i, j)
    BY <2>5 DEF Morpheme, pos
  <2> QED
    BY <2>2, <2>3, <2>5, <2>6, <2>7 DEF Has
<1>24. ASSUME last # None
       PROVE  /\ \A i, j \in Nat :
                   Has(sent.candidates, i, j) => CodeOf(sent.candidates[i][j], i, j, RunsOnString)
              /\ \A k \in 1 .. Len(RunsOnString) : \A i, j \in Nat :
                   Tags(RunsOnString[k], i, j) => Has(sent.candidates, i, j)
  BY <1>24 DEF IInv, ResultsOK, Coded
<1>25. ASSUME NEW i \in Nat, NEW j \in Nat, Has(c, i, j)
       PROVE  CodeOf(c[i][j], i, j, Append(RunsOnString, e))
  <2>1. i \in 1 .. Len(c) /\ j \in 1 .. Len(c[i])
    BY <1>25 DEF Has
  <2>2. CASE Tags(e, i, j)
    <3>1. pos /\ i \in 1 .. Len(counts) /\ j \in 1 .. counts[i]
      BY <1>19, <2>2 DEF Tags
    <3>2. e.type # "prefix" => c[i][j] = << e.run, i, j >>
      BY <1>14, <1>19, <3>1
    <3> QED
      BY <1>19, <2>2, <3>2, CodeOfMore
  <2>3. CASE ~Tags(e, i, j)
    <3>1. c[i][j] = IF j <= Len(Earlier(sent, i)) THEN Earlier(sent, i)[j] ELSE << -1 >>
      <4>1. CASE i \in 1 .. size
        <5>1. ~(pos /\ j <= getCount(a, i))
          <6>1. ASSUME pos, j <= getCount(a, i) PROVE FALSE
            <7>1. HasChars(t)
              <8>1. ASSUME ~HasChars(t) PROVE FALSE
                <9>1. getListSize(a) = 0 /\ Len(a.segment) = 0
                  BY <1>5, <8>1 DEF getListSize
                <9>2. size = 1
                  BY <9>1 DEF size
                <9>3. i = 1
                  BY <4>1, <9>2
                <9>4. getCount(a, 1) = 0
                  BY <1>5, <8>1, <9>1 DEF getCount
                <9> QED
                  BY <2>1, <6>1, <9>3, <9>4
              <8> QED
                BY <8>1
            <7>2. i \in 1 .. Len(counts)
              BY <1>6, <4>1, <7>1
            <7>3. j \in 1 .. counts[i]
              BY <1>23, <2>1, <6>1, <7>2
            <7> QED
              BY <1>19, <2>3, <6>1, <7>2, <7>3 DEF Tags
          <6> QED
            BY <6>1
        <5>2. c[i][j] = Morpheme(a, i, j)
          BY <1>8, <2>1, <4>1
        <5> QED
          BY <1>8, <5>1, <5>2 DEF Morpheme, pos
      <4>2. CASE ~(i \in 1 .. size)
        <5>1. i \in size + 1 .. Len(c)
          BY <1>6, <1>21, <2>1, <4>2
        <5>2. c[i] = Earlier(sent, i)
          BY <1>8, <5>1
        <5>3. j <= Len(Earlier(sent, i))
          BY <2>1, <5>2
        <5> QED
          BY <5>2, <5>3
      <4> QED
        BY <4>1, <4>2
    <3>2. CASE last = None
      <4>1. RunsOnString = << >> /\ sent.candidates = << >> /\ Len(<< >>) = 0
        BY <1>1, <1>19, <3>2, PastIs
      <4>2. Earlier(sent, i) = << >>
        BY <4>1 DEF Earlier
      <4>3. c[i][j] = << -1 >>
        BY <2>1, <3>1, <4>1, <4>2
      <4>4. CodeOf(<< -1 >>, i, j, << >>)
        BY <4>1 DEF CodeOf
      <4> QED
        BY <1>19, <2>3, <4>1, <4>3, <4>4, CodeOfMore
    <3>3. CASE last # None
      <4>1. CASE j <= Len(Earlier(sent, i))
        <5>1. j \in 1 .. Len(Earlier(sent, i))
          BY <1>21, <2>1, <4>1
        <5>2. Has(sent.candidates, i, j) /\ c[i][j] = sent.candidates[i][j]
          BY <1>22, <3>1, <4>1, <5>1
        <5>3. CodeOf(c[i][j], i, j, RunsOnString)
          BY <1>24, <3>3, <5>2
        <5> QED
          BY <1>19, <2>3, <5>3, CodeOfMore
      <4>2. CASE ~(j <= Len(Earlier(sent, i)))
        <5>1. ~Has(sent.candidates, i, j)
          <6>1. ~(j \in 1 .. Len(Earlier(sent, i)))
            BY <4>2
          <6> QED
            BY <1>22, <6>1
        <5>2. \A k \in 1 .. Len(RunsOnString) : ~Tags(RunsOnString[k], i, j)
          BY <1>24, <3>3, <5>1
        <5>3. CodeOf(c[i][j], i, j, RunsOnString)
          BY <3>1, <4>2, <5>2 DEF CodeOf
        <5> QED
          BY <1>19, <2>3, <5>3, CodeOfMore
      <4> QED
        BY <4>1, <4>2
    <3> QED
      BY <3>2, <3>3
  <2> QED
    BY <2>2, <2>3
<1>26. ASSUME NEW k \in 1 .. Len(RunsOnString) + 1, NEW i \in Nat, NEW j \in Nat,
              Tags(Append(RunsOnString, e)[k], i, j)
       PROVE  Has(c, i, j)
  <2>1. CASE k = Len(RunsOnString) + 1
    <3>1. Append(RunsOnString, e)[k] = e
      BY <1>19, <2>1
    <3>2. i \in 1 .. Len(counts) /\ j \in 1 .. counts[i]
      BY <1>19, <1>26, <3>1 DEF Tags
    <3> QED
      BY <1>14, <3>2
  <2>2. CASE k # Len(RunsOnString) + 1
    <3>1. k \in 1 .. Len(RunsOnString) /\ Append(RunsOnString, e)[k] = RunsOnString[k]
      BY <1>19, <2>2
    <3>2. last # None
      BY <1>1, <3>1, PastIs
    <3>3. Has(sent.candidates, i, j)
      BY <1>24, <1>26, <3>1, <3>2
    <3>4. i \in 1 .. Len(sent.candidates) /\ j \in 1 .. Len(Earlier(sent, i))
      BY <1>22, <3>3
    <3>5. i \in 1 .. Len(c)
      BY <1>6, <1>8, <1>21, <3>4
    <3>6. j \in 1 .. Len(c[i])
      BY <1>21, <3>4, <3>5
    <3> QED
      BY <3>5, <3>6 DEF Has
  <2> QED
    BY <2>1, <2>2
<1>15. Coded'
  <2>1. sent'.candidates = c /\ last'.counts = counts /\ RunsOnString' = Append(RunsOnString, e)
        /\ Len(Append(RunsOnString, e)) = Len(RunsOnString) + 1
    BY <1>9, <1>10, <1>19, <1>20
  <2> QED
    BY <1>14, <1>25, <1>26, <2>1 DEF Coded
<1>16. (~HasChars(sent'.raw)) => Cleared'
  BY <1>5, <1>9 DEF Cleared
<1>17. ResultsOK'
  BY <1>10, <1>11, <1>13, <1>15, <1>16 DEF ResultsOK
<1>18. StreamOK'
  BY <1>4 DEF StreamOK
<1> QED
  BY <1>12, <1>17, <1>18 DEF IInv

Line == Seq(Label \X Label)

(* A line was read: o is what is written up to it, s the Sentence then. *)
LEMMA LineIInv ==
  ASSUME IInv, Reading, stream.read < Len(stream.file),
         NEW o \in Seq(Line), Len(o) = stream.read + 1,
         \A k \in 1 .. stream.read : o[k] = stream.out[k],
         ~(options.type = "prefix" /\ options.pos) => o[stream.read + 1] = LineUnits(stream.read + 1),
         NEW s \in Sentences, LinesHeld(s, stream.read + 1),
         stream' = [stream EXCEPT !.read = @ + 1, !.sent = s, !.out = Endl(o)],
         UNCHANGED << options, sent, run, last >>
  PROVE  IInv'
<1> DEFINE read == stream.read
           file == stream.file
           n == Len(file)
<1>1. stream \in Streams /\ stream # None
  BY DEF IInv, TypesOK, Reading, None
<1>2. read \in Nat /\ file \in Files /\ n \in Nat
  BY <1>1, FilesAssumption DEF Streams
<1>3. << >> \in Line
  BY DEF Line
<1>4. /\ Endl(o) \in Seq(Line)
      /\ \A k \in 1 .. read + 1 : Endl(o)[k] = o[k]
      /\ Len(Endl(o)) = IF read + 1 < n THEN read + 2 ELSE read + 1
      /\ read + 1 < n => Endl(o)[read + 2] = << >>
  <2>1. CASE read + 1 < n
    <3>1. Endl(o) = Append(o, << >>)
      BY <2>1 DEF Endl, remains
    <3> HIDE DEF read, n
    <3>2. Len(o) = read + 1
      BY DEF read
    <3> QED
      BY <1>2, <1>3, <2>1, <3>1, <3>2
  <2>2. CASE ~(read + 1 < n)
    <3>1. Endl(o) = o
      BY <2>2 DEF Endl, remains
    <3> QED
      BY <1>2, <2>2, <3>1
  <2> QED
    BY <2>1, <2>2
<1>5. stream' \in Streams /\ stream' # None
      /\ stream'.read = read + 1 /\ stream'.file = file /\ stream'.sent = s /\ stream'.out = Endl(o)
  <2> DEFINE out == Endl(o)
  <2>1. out \in Seq(Line) /\ stream' = [stream EXCEPT !.read = @ + 1, !.sent = s, !.out = out]
    BY <1>4
  <2>2. stream.read + 1 \in Nat /\ stream.read \in Nat
    BY <1>2
  <2> HIDE DEF out
  <2>3. /\ stream' \in Streams
        /\ stream'.read = stream.read + 1 /\ stream'.file = stream.file
        /\ stream'.sent = s /\ stream'.out = out
    BY <1>1, <2>1, <2>2 DEF Streams, Line
  <2>4. stream' # None
    BY <2>3 DEF Streams, None
  <2> QED
    BY <2>3, <2>4 DEF out
<1>6. TypesOK'
  BY <1>5 DEF IInv, TypesOK
<1>7. ResultsOK'
  BY DEF IInv, ResultsOK, Coded, Cleared, RunsOnString
<1>9. /\ \A k : LinesWithChars(k)' = LinesWithChars(k)
      /\ \A m : UnitsOfLine(m)' = UnitsOfLine(m)
  <2>1. options' = options /\ stream'.file = stream.file
    BY <1>5
  <2>2. ASSUME NEW k PROVE LinesWithChars(k)' = LinesWithChars(k)
    BY <2>1 DEF LinesWithChars
  <2>3. ASSUME NEW m PROVE UnitsOfLine(m)' = UnitsOfLine(m)
    BY <2>1 DEF UnitsOfLine
  <2> QED
    BY <2>2, <2>3
<1>10. LineHeld'
  <2>1. options' = options /\ stream'.file = stream.file
    BY <1>5
  <2>2. stream'.sent = s /\ stream'.read = stream.read + 1
    BY <1>5
  <2>3. \A m : HeldOf(s, m)' <=> HeldOf(s, m)
    BY <2>1 DEF HeldOf
  <2>4. LinesHeld(s, stream.read + 1)
    OBVIOUS
  <2> QED
    BY <1>9, <2>2, <2>3, <2>4 DEF LineHeld, LinesHeld
<1>8. StreamOK'
  <2>1. read + 1 <= n
    BY <1>2
  <2>2. ASSUME ~(options.type = "prefix" /\ options.pos), NEW k \in 1 .. read + 1
        PROVE  Endl(o)[k] = LineUnits(k)'
    <3>1. LineUnits(k)' = LineUnits(k)
      BY <1>5, <1>9 DEF LineUnits
    <3>2. CASE k = read + 1
      BY <1>2, <1>4, <2>2, <3>1, <3>2
    <3>3. CASE k # read + 1
      <4>1. k \in 1 .. read
        BY <1>2, <3>3
      <4>2. stream.out[k] = LineUnits(k)
        BY <1>1, <2>2, <4>1 DEF IInv, StreamOK
      <4> QED
        BY <1>4, <3>1, <4>1, <4>2
    <3> QED
      BY <3>2, <3>3
  <2>3. /\ read + 1 # 0
        /\ Len(Endl(o)) = IF read + 1 < n THEN (read + 1) + 1 ELSE read + 1
        /\ read + 1 < n => Endl(o)[(read + 1) + 1] = << >>
    <3>1. (read + 1) + 1 = read + 2 /\ read + 1 # 0
      BY <1>2
    <3> QED
      BY <1>4, <3>1
  <2>4. options' = options
    OBVIOUS
  <2> HIDE DEF read, n, file
  <2>5. n = Len(file)
    BY DEF n
  <2> QED
    BY <1>5, <1>10, <2>1, <2>2, <2>3, <2>4, <2>5 DEF StreamOK
<1> QED
  BY <1>6, <1>7, <1>8 DEF IInv

(* The lines with characters, with one line more. *)
LEMMA OneLineMore ==
  ASSUME NEW n \in Nat
  PROVE  LET t == stream.file[n + 1]
         IN /\ LinesWithChars(n) \subseteq 1 .. n
            /\ (t # NoText /\ HasChars(t)) => /\ n + 1 \in LinesWithChars(n + 1)
                                             /\ \A l \in LinesWithChars(n + 1) : l <= n + 1
            /\ ~(t # NoText /\ HasChars(t)) => LinesWithChars(n + 1) = LinesWithChars(n)
<1>1. 1 .. n + 1 = 1 .. n \cup { n + 1 }
  OBVIOUS
<1> QED
  BY <1>1 DEF LinesWithChars

(* The greatest of them. *)
LEMMA LastLine ==
  ASSUME NEW lines \in SUBSET Nat, NEW m \in lines, \A l \in lines : l <= m
  PROVE  Max(lines) = m
<1>1. \A x \in lines : (\A y \in lines : x >= y) => x = m
  OBVIOUS
<1>2. \A y \in lines : m >= y
  OBVIOUS
<1> QED
  BY <1>1, <1>2 DEF Max

LEMMA EmptyLineIInv == IInv /\ EmptyLine => IInv'
<1> SUFFICES ASSUME IInv, EmptyLine PROVE IInv'
  OBVIOUS
<1>1. stream \in Streams /\ stream # None
  BY DEF IInv, TypesOK, EmptyLine, Reading, None
<1>2. /\ Reading /\ stream.read < Len(stream.file) /\ stream.file[stream.read + 1] = NoText
      /\ UNCHANGED << options, sent, run, last >>
      /\ stream' = [stream EXCEPT !.read = @ + 1, !.out = Endl(@)]
  BY DEF EmptyLine
<1>3. stream' = [stream EXCEPT !.read = @ + 1, !.sent = stream.sent, !.out = Endl(stream.out)]
  BY <1>1, <1>2 DEF Streams
<1>4. stream.out \in Seq(Line) /\ stream.sent \in Sentences /\ Len(stream.out) = stream.read + 1
  BY <1>1, <1>2 DEF Streams, Line, IInv, StreamOK
<1>5. stream.out[stream.read + 1] = LineUnits(stream.read + 1)
  BY <1>1, <1>2 DEF IInv, StreamOK, LineUnits
<1>6. LinesHeld(stream.sent, stream.read + 1)
  <2>1. stream.read \in Nat
    BY <1>1 DEF Streams
  <2>2. LinesWithChars(stream.read + 1) = LinesWithChars(stream.read)
    BY <1>2, <2>1, OneLineMore
  <2> QED
    BY <1>1, <2>2 DEF IInv, StreamOK, LineHeld, LinesHeld
<1> QED
  BY <1>2, <1>3, <1>4, <1>5, <1>6, LineIInv

LEMMA AnalyzeLineIInv == IInv /\ AnalyzeLine => IInv'
<1> SUFFICES ASSUME IInv, AnalyzeLine PROVE IInv'
  OBVIOUS
<1> DEFINE k == stream.read + 1
           t == stream.file[k]
           s == analysis(stream.sent, t, 1, k)
           type == options.type
           pos == options.pos
           o == IF getListSize(s) > 0 THEN PrintLine(stream.out, s) ELSE stream.out
           counts(m) == Counts(stream.file[m], type, 1)
           lines == LinesWithChars(k)
<1>1. stream \in Streams /\ stream # None /\ options \in Options
  BY DEF IInv, TypesOK, AnalyzeLine, Reading, None
<1>2. /\ Reading /\ stream.read < Len(stream.file) /\ t # NoText
      /\ UNCHANGED << options, sent, run, last >>
      /\ stream' = [stream EXCEPT !.read = @ + 1, !.sent = s, !.out = Endl(o)]
  BY <1>1 DEF AnalyzeLine, Streams
<1>3. stream.read \in Nat /\ k \in Nat \ { 0 } /\ stream.file \in Files /\ k \in 1 .. Len(stream.file)
  BY <1>1, <1>2, FilesAssumption DEF Streams
<1>4. \A m \in lines : stream.file[m] \in Texts /\ HasChars(stream.file[m]) /\ m \in Nat
  <2>1. \A m \in 1 .. k : m \in 1 .. Len(stream.file) /\ m \in Nat
    BY <1>3
  <2>2. \A m \in 1 .. Len(stream.file) : stream.file[m] \in Texts \cup { NoText }
    BY <1>3, FilesAssumption
  <2> HIDE DEF k
  <2> QED
    BY <2>1, <2>2 DEF LinesWithChars
<1>5. stream.sent \in Sentences /\ type \in Types /\ pos \in BOOLEAN
  BY <1>1 DEF Streams, Options
<1>6. /\ t \in Texts /\ s \in Sentences
      /\ HasChars(t) => HeldOf(s, k)
      /\ ~HasChars(t) => /\ s.metas = stream.sent.metas
                         /\ \A m : HeldOf(stream.sent, m) => HeldOf(s, m)
  <2>1. k \in Nat /\ 1 \in Nat
    BY <1>3
  <2>2. t \in Texts
    BY <1>2, <1>3, FilesAssumption
  <2>3. /\ s \in Sentences
        /\ HasChars(t) => Holds(s, k, Counts(t, type, 1), type, pos)
        /\ ~HasChars(t) => s.metas = stream.sent.metas
    <3> HIDE DEF k, t
    <3> QED
      BY <1>1, <1>5, <2>1, <2>2, AnalysisIs
  <2>4. HasChars(t) => HeldOf(s, k)
    BY <2>3 DEF HeldOf
  <2>5. ASSUME ~HasChars(t), NEW m, HeldOf(stream.sent, m) PROVE HeldOf(s, m)
    <3> HIDE DEF k, t
    <3> QED
      BY <1>1, <1>5, <2>1, <2>2, <2>5, LeftAsItWas DEF HeldOf
  <2> HIDE DEF s, k, t
  <2> QED
    BY <2>2, <2>3, <2>4, <2>5
<1>7. /\ stream.out \in Seq(Line) /\ Len(stream.out) = k /\ stream.out[k] = << >>
  BY <1>1, <1>2 DEF Streams, Line, IInv, StreamOK
<1>8. LineHeld /\ LineHeld = LinesHeld(stream.sent, stream.read)
  BY <1>1 DEF IInv, StreamOK, LineHeld
<1>9. LinesHeld(s, k)
  <2>1. CASE HasChars(t)
    <3>1. k \in lines /\ \A l \in lines : l <= k
      BY <1>2, <1>3, <2>1, OneLineMore
    <3> HIDE DEF s, k
    <3> QED
      BY <1>6, <2>1, <3>1 DEF LinesHeld, k
  <2>2. CASE ~HasChars(t)
    <3>1. lines = LinesWithChars(stream.read)
      BY <1>3, <2>2, OneLineMore
    <3> HIDE DEF s, k
    <3> QED
      BY <1>6, <1>8, <2>2, <3>1 DEF LinesHeld
  <2> QED
    BY <2>1, <2>2
<1>10. CASE lines = {}
  <2>1. getListSize(s) = 0
    <3>1. s.metas = << >>
      BY <1>9, <1>10 DEF LinesHeld
    <3> QED
      BY <3>1 DEF getListSize
  <2>2. o = stream.out
    BY <2>1
  <2>3. LineUnits(k) = << >>
    BY <1>10 DEF LineUnits
  <2> HIDE DEF o, s
  <2>4. o[k] = LineUnits(k)
    BY <1>7, <2>2, <2>3
  <2> QED
    BY <1>2, <1>6, <1>7, <1>9, <2>2, <2>4, LineIInv
<1>11. CASE lines # {}
  <2> HIDE DEF s, t
  <2>1. PICK m \in lines : (\A l \in lines : l <= m) /\ HeldOf(s, m)
    BY <1>9, <1>11 DEF LinesHeld
  <2>2. stream.file[m] \in Texts /\ HasChars(stream.file[m]) /\ m \in Nat /\ m \in Int
    BY <1>4, <2>1
  <2>3. counts(m) \in Seq(Nat) /\ counts(m) # << >>
    BY <1>1, <1>5, <2>2, AnalysisIs
  <2>4. LineUnits(k) = UnitsOfLine(m)
    <3>1. lines \in SUBSET Nat
      BY <1>4
    <3>2. Max(lines) = m
      <4> HIDE DEF lines
      <4> QED
        BY <2>1, <3>1, LastLine
    <3> QED
      BY <1>2, <1>11, <3>2 DEF LineUnits, t
  <2> DEFINE c == counts(m)
  <2> HIDE DEF counts
  <2>5. /\ getListSize(s) = Len(c)
        /\ \A i \in 1 .. Len(c) :
             /\ getCount(s, i) = c[i]
             /\ \A j \in 1 .. c[i] :
                  /\ getLexicon(s, i, j) = << m, i, j >>
                  /\ (type # "prefix" /\ pos) => getStrPOS(s, i, j) = << m, i, j >>
    <3>1. Holds(s, m, c, type, pos)
      BY <2>1 DEF HeldOf, counts
    <3> HIDE DEF c
    <3> QED
      BY <1>6, <2>2, <2>3, <3>1, Answers DEF c
  <2>6. Len(c) \in Nat /\ Len(c) # 0 /\ 1 \in 1 .. Len(c) /\ c[1] \in Nat
    BY <2>3, NoneWithoutLength
  <2>7. o = [stream.out EXCEPT ![k] = stream.out[k] \o Units(s)]
    BY <1>7, <2>5, <2>6 DEF PrintLine
  <2> DEFINE unit(j) == << getLexicon(s, 1, j),
                           IF options.pos THEN getStrPOS(s, 1, j) ELSE getLexicon(s, 1, j) >>
             n == c[1]
  <2>8. Units(s) = [j \in 1 .. n |-> unit(j)]
    BY <2>5, <2>6 DEF Units
  <2>9. \A j : getLexicon(s, 1, j) \in Label /\ getStrPOS(s, 1, j) \in Label
    BY <1>6, AtType DEF getLexicon, getStrPOS, Sentences
  <2>10. \A j : unit(j) \in Label \X Label
    BY <2>9
  <2>11. ~(type = "prefix" /\ pos) => \A j \in 1 .. n : unit(j) = << << m, 1, j >>, << m, 1, j >> >>
    BY <2>5, <2>6
  <2>12. n = Counts(stream.file[m], options.type, 1)[1]
    BY DEF counts
  <2>13. n \in Nat
    BY <2>6
  <2> HIDE DEF unit, n, c
  <2>14. Units(s) \in Line /\ << >> \o Units(s) = Units(s)
    <3>1. Units(s) \in Seq(Label \X Label)
      BY <2>8, <2>10, <2>13
    <3> QED
      BY <3>1 DEF Line
  <2>15. ~(type = "prefix" /\ pos) => Units(s) = LineUnits(k)
    <3>1. UnitsOfLine(m) = [j \in 1 .. n |-> << << m, 1, j >>, << m, 1, j >> >>]
      BY <2>12 DEF UnitsOfLine
    <3> QED
      BY <2>4, <2>8, <2>11, <3>1
  <2>16. o = [stream.out EXCEPT ![k] = Units(s)]
    BY <1>7, <2>7, <2>14
  <2> HIDE DEF o, k
  <2>17. /\ o \in Seq(Line) /\ Len(o) = k /\ o[k] = Units(s)
         /\ \A l \in 1 .. k : l # k => o[l] = stream.out[l]
    BY <1>3, <1>7, <2>14, <2>16
  <2>18. k = stream.read + 1 /\ \A l \in 1 .. stream.read : l \in 1 .. k /\ l # k
    BY <1>3 DEF k
  <2>19. ~(options.type = "prefix" /\ options.pos) => o[stream.read + 1] = LineUnits(stream.read + 1)
    BY <2>15, <2>17, <2>18
  <2>20. Len(o) = stream.read + 1 /\ \A l \in 1 .. stream.read : o[l] = stream.out[l]
    BY <2>17, <2>18
  <2> QED
    BY <1>2, <1>6, <1>9, <2>17, <2>18, <2>19, <2>20, LineIInv
<1> QED
  BY <1>10, <1>11

LEMMA NextIInv == IInv /\ [Next]_vars => IInv'
<1> SUFFICES ASSUME IInv, [Next]_vars PROVE IInv'
  OBVIOUS
<1>1. TypesOK /\ ResultsOK /\ StreamOK
  BY DEF IInv
<1>2. ASSUME options' \in Options, stream = None, UNCHANGED << sent, run, last, stream >>
      PROVE  IInv'
  BY <1>1, <1>2 DEF IInv, TypesOK, ResultsOK, StreamOK, Coded, Cleared, RunsOnString
<1>3. CASE setOption
  BY <1>2, <1>3 DEF setOption, Idle, Options
<1>4. CASE setKnowledge
  <2>1. options' \in Options
    BY <1>1, <1>4 DEF setKnowledge, TypesOK, Options
  <2> QED
    BY <1>2, <1>4, <2>1 DEF setKnowledge, Idle
<1>5. CASE runWithSentence
  BY <1>5, RunIInv
<1>6. ASSUME NEW t \in Texts, setString(t) PROVE IInv'
  <2>1. /\ sent' = SetString(sent, t) /\ last' = None /\ stream = None
        /\ UNCHANGED << options, run, stream >>
    BY <1>6 DEF setString, Idle
  <2>2. sent' \in Sentences /\ sent'.metas = << >> /\ sent'.segment = << >> /\ sent'.candidates = << >>
    <3>1. sent \in Sentences /\ t \in Texts \cup { NoText }
      BY <1>1 DEF TypesOK
    <3>2. << >> \in Seq(Meta) /\ << >> \in Seq(Label) /\ << >> \in Seq(Seq(Code))
      OBVIOUS
    <3>3. sent' = [sent EXCEPT !.raw = t, !.candidates = << >>, !.segment = << >>, !.pos = << >>,
                               !.metas = << >>, !.wordOffset = << >>]
      BY <2>1 DEF SetString
    <3> QED
      BY <3>1, <3>2, <3>3 DEF Sentences
  <2>3. TypesOK'
    BY <1>1, <2>1, <2>2 DEF TypesOK
  <2>4. ResultsOK'
    BY <2>1, <2>2 DEF ResultsOK, Cleared
  <2>5. StreamOK'
    BY <2>1 DEF StreamOK
  <2> QED
    BY <2>3, <2>4, <2>5 DEF IInv
<1>7. ASSUME NEW f \in Files, OpenStream(f) PROVE IInv'
  <2>1. /\ stream' = [run |-> -1, file |-> f, read |-> 0, sent |-> Sentence, out |-> << << >> >>]
        /\ UNCHANGED << options, sent, run, last >>
    BY <1>7 DEF OpenStream
  <2>2. Len(f) \in Nat /\ Len(f) # 0
    BY FilesAssumption, NoneWithoutLength
  <2>3. stream' \in Streams
    <3>1. Sentence \in Sentences /\ << << >> >> \in Seq(Seq(Label \X Label))
      BY DEF Sentence, Sentences
    <3> QED
      BY <2>1, <3>1 DEF Streams
  <2>4. TypesOK'
    BY <1>1, <2>1, <2>3 DEF TypesOK
  <2>5. ResultsOK'
    BY <1>1, <2>1 DEF ResultsOK, Coded, Cleared, RunsOnString
  <2>7. LineHeld'
    <3>1. stream'.sent.metas = << >> /\ stream'.read = 0
      BY <2>1 DEF Sentence
    <3>2. LinesWithChars(0)' = {}
      BY DEF LinesWithChars
    <3> QED
      BY <3>1, <3>2 DEF LineHeld, LinesHeld
  <2>6. StreamOK'
    BY <2>1, <2>2, <2>7 DEF StreamOK
  <2> QED
    BY <2>4, <2>5, <2>6 DEF IInv
<1>8. CASE EmptyLine
  BY <1>8, EmptyLineIInv
<1>9. CASE AnalyzeLine
  BY <1>9, AnalyzeLineIInv
<1>10. CASE CloseStream
  BY <1>1, <1>10 DEF CloseStream, IInv, TypesOK, ResultsOK, StreamOK, Coded, Cleared, RunsOnString
<1>11. CASE UNCHANGED vars
  <2>1. /\ \A k : LinesWithChars(k)' = LinesWithChars(k)
        /\ \A m : UnitsOfLine(m)' = UnitsOfLine(m)
        /\ \A s, m : HeldOf(s, m)' <=> HeldOf(s, m)
    BY <1>11 DEF vars, LinesWithChars, UnitsOfLine, HeldOf
  <2>2. (\A k : LineUnits(k)' = LineUnits(k)) /\ (LineHeld' <=> LineHeld)
    BY <1>11, <2>1 DEF vars, LineUnits, LineHeld, LinesHeld
  <2>3. TypesOK' /\ ResultsOK'
    BY <1>1, <1>11 DEF vars, TypesOK, ResultsOK, Coded, Cleared, RunsOnString
  <2>4. StreamOK'
    BY <1>1, <1>11, <2>2 DEF vars, StreamOK
  <2> QED
    BY <2>3, <2>4 DEF IInv
<1> QED
  BY <1>3, <1>4, <1>5, <1>6, <1>7, <1>8, <1>9, <1>10, <1>11 DEF Next

LEMMA AlwaysIInv == Spec => []IInv
BY InitIInv, NextIInv, PTL DEF Spec
-----------------------------------------------------------------------------
LEMMA HeldAnswers ==
  ASSUME IInv, last # None
  PROVE  /\ last \in Runs
         /\ getListSize(sent) = Len(last.counts)
         /\ \A i \in 1 .. Len(last.counts) :
              /\ getCount(sent, i) = last.counts[i]
              /\ \A j \in 1 .. last.counts[i] :
                   /\ getLexicon(sent, i, j) = << last.run, i, j >>
                   /\ last.type = "dict" => getOffset(sent, i, j) = << last.run, i, j >>
                   /\ (last.type # "prefix" /\ last.pos) => getStrPOS(sent, i, j) = << last.run, i, j >>
<1>1. last \in Runs /\ sent \in Sentences
  BY DEF IInv, TypesOK
<1>2. last.run \in Int /\ last.counts \in Seq(Nat)
  BY <1>1 DEF Runs
<1>3. Holds(sent, last.run, last.counts, last.type, last.pos)
  BY DEF IInv, ResultsOK
<1> QED
  BY <1>1, <1>2, <1>3, Answers

(***************************************************************************)
(* The candidates, their units and, after the dictionary approach, their   *)
(* offsets are those of the last run: runWithSentence replaces every list  *)
(* a getter reads, setString removes them, and a text without characters   *)
(* leaves none.                                                            *)
(***************************************************************************)
THEOREM AlwaysForLastRun == Spec => []AnswersForLastRun
<1>1. ASSUME IInv PROVE AnswersForLastRun
  <2>1. CASE last = None
    <3>1. sent.metas = << >>
      BY <1>1, <2>1 DEF IInv, ResultsOK, Cleared
    <3> QED
      BY <2>1, <3>1 DEF AnswersForLastRun, getListSize
  <2>2. CASE last # None
    BY <1>1, <2>2, HeldAnswers DEF AnswersForLastRun, Candidates, UnitsOf
  <2> QED
    BY <2>1, <2>2
<1> QED
  BY <1>1, AlwaysIInv, PTL

(* What CodeOf says of a place that the last of the runs tagged. *)
LEMMA CodeOfTagged ==
  ASSUME NEW before \in Seq(PastRuns), NEW e \in PastRuns, NEW i, NEW j, NEW c,
         Tags(e, i, j), e.type # "prefix", CodeOf(c, i, j, Append(before, e))
  PROVE  c = << e.run, i, j >>
<1> DEFINE runs == Append(before, e)
           l == Len(before) + 1
<1>1. l \in Nat /\ Len(runs) = l /\ runs[l] = e /\ l \in 1 .. l
  OBVIOUS
<1>2. CodeOf(c, i, j, runs)
  OBVIOUS
<1>3. \A k \in 1 .. l : k = l \/ l \in k + 1 .. l
  BY <1>1
<1> HIDE DEF runs, l
<1>4. PICK k \in 1 .. l : /\ \A m \in k + 1 .. l : ~Tags(runs[m], i, j)
                          /\ runs[k].type # "prefix" => c = << runs[k].run, i, j >>
  BY <1>1, <1>2 DEF CodeOf
<1>5. k = l
  BY <1>1, <1>3, <1>4
<1> QED
  BY <1>1, <1>4, <1>5

(* What CodeOf says of a place that the last of the runs did not tag. *)
LEMMA CodeAfterUntagged ==
  ASSUME NEW before \in Seq(PastRuns), NEW e \in PastRuns, NEW i, NEW j, NEW c,
         ~Tags(e, i, j), CodeOf(c, i, j, Append(before, e)),
         NEW tagged, \A k : k \in tagged <=> (k \in 1 .. Len(before) /\ Tags(before[k], i, j))
  PROVE  /\ tagged = {} => c = << -1 >>
         /\ tagged # {} => LET r == before[Max(tagged)]
                           IN r.type # "prefix" => c = << r.run, i, j >>
<1> DEFINE runs == Append(before, e)
           l == Len(before)
<1>0. \A k : k \in tagged <=> (k \in 1 .. l /\ Tags(before[k], i, j))
  OBVIOUS
<1>1. /\ l \in Nat /\ Len(runs) = l + 1 /\ runs[l + 1] = e
      /\ \A k \in 1 .. l : runs[k] = before[k] /\ k \in 1 .. l + 1
      /\ \A k \in 1 .. l + 1 : k = l + 1 \/ k \in 1 .. l
  OBVIOUS
<1> HIDE DEF runs, l
<1>2. CASE c = << -1 >> /\ \A k \in 1 .. Len(runs) : ~Tags(runs[k], i, j)
  <2>1. tagged = {}
    BY <1>0, <1>1, <1>2
  <2> QED
    BY <1>2, <2>1 DEF l
<1>3. ASSUME NEW k \in 1 .. Len(runs), Tags(runs[k], i, j),
             \A m \in k + 1 .. Len(runs) : ~Tags(runs[m], i, j),
             runs[k].type # "prefix" => c = << runs[k].run, i, j >>
      PROVE  /\ tagged # {} /\ Max(tagged) = k
             /\ before[k].type # "prefix" => c = << before[k].run, i, j >>
  <2>1. k # l + 1
    BY <1>1, <1>3
  <2>2. k \in 1 .. l /\ runs[k] = before[k] /\ k \in Nat
    BY <1>1, <1>3, <2>1
  <2>3. k \in tagged
    BY <1>0, <1>3, <2>2
  <2>4. ASSUME NEW m \in tagged PROVE m <= k
    <3>1. m \in 1 .. l /\ Tags(runs[m], i, j)
      BY <1>0, <1>1
    <3>2. ~(m \in k + 1 .. l + 1)
      BY <1>1, <1>3, <3>1
    <3> QED
      BY <1>1, <2>2, <3>1, <3>2
  <2>5. tagged \in SUBSET Nat
    BY <1>0, <1>1
  <2>6. Max(tagged) = k
    BY <2>3, <2>4, <2>5, LastLine
  <2> QED
    BY <1>3, <2>2, <2>3, <2>6
<1>4. \/ c = << -1 >> /\ \A k \in 1 .. Len(runs) : ~Tags(runs[k], i, j)
      \/ \E k \in 1 .. Len(runs) :
           /\ Tags(runs[k], i, j)
           /\ \A m \in k + 1 .. Len(runs) : ~Tags(runs[m], i, j)
           /\ runs[k].type # "prefix" => c = << runs[k].run, i, j >>
  BY DEF CodeOf, runs
<1>5. CASE \E k \in 1 .. Len(runs) :
             /\ Tags(runs[k], i, j)
             /\ \A m \in k + 1 .. Len(runs) : ~Tags(runs[m], i, j)
             /\ runs[k].type # "prefix" => c = << runs[k].run, i, j >>
  <2>1. PICK k \in 1 .. Len(runs) :
             /\ Tags(runs[k], i, j)
             /\ \A m \in k + 1 .. Len(runs) : ~Tags(runs[m], i, j)
             /\ runs[k].type # "prefix" => c = << runs[k].run, i, j >>
    BY <1>5
  <2>2. /\ tagged # {} /\ Max(tagged) = k
        /\ before[k].type # "prefix" => c = << before[k].run, i, j >>
    BY <1>3, <2>1
  <2> QED
    BY <2>2
<1> QED
  BY <1>2, <1>4, <1>5

(***************************************************************************)
(* Tags and their codes are those of the units they are asked for, in      *)
(* every candidate of the last run, although runWithSentence adds the      *)
(* lists of morphemes to those of earlier runs.  Where the last run does   *)
(* not tag, getPOS still answers with the code of the last run on the same *)
(* string that tagged that place, and with -1 only if there was none.      *)
(***************************************************************************)
THEOREM TagsStayWithUnits == Spec => []TagsForLastRun
<1>1. ASSUME IInv, last # None, last.type # "prefix",
             NEW i \in Candidates, NEW j \in UnitsOf(i)
      PROVE  IF last.pos
               THEN getStrPOS(sent, i, j) = << last.run, i, j >> /\ getPOS(sent, i, j) = << last.run, i, j >>
               ELSE IF TaggedBefore(i, j) = {} THEN getPOS(sent, i, j) = << -1 >>
               ELSE LET r == last.before[Max(TaggedBefore(i, j))]
                    IN r.type # "prefix" => getPOS(sent, i, j) = << r.run, i, j >>
  <2>1. i \in 1 .. Len(last.counts) /\ j \in 1 .. last.counts[i]
    BY <1>1, HeldAnswers DEF Candidates, UnitsOf
  <2>2. last.pos => getStrPOS(sent, i, j) = << last.run, i, j >>
    BY <1>1, <2>1, HeldAnswers
  <2> DEFINE e == [run |-> last.run, type |-> last.type, pos |-> last.pos, counts |-> last.counts]
             c == sent.candidates[i][j]
  <2>3. /\ last \in Runs /\ last.before \in Seq(PastRuns) /\ last.pos \in BOOLEAN
        /\ e \in PastRuns /\ e.run = last.run /\ e.type = last.type /\ e.pos = last.pos
        /\ e.counts = last.counts /\ last.counts \in Seq(Nat)
    BY <1>1 DEF IInv, TypesOK, Runs, PastRuns
  <2>4. RunsOnString = Append(last.before, e)
    BY <1>1 DEF RunsOnString
  <2>5. i \in Nat /\ j \in Nat
    BY <2>1, <2>3
  <2>6. Has(sent.candidates, i, j) /\ CodeOf(c, i, j, Append(last.before, e))
    BY <1>1, <2>1, <2>4, <2>5 DEF IInv, ResultsOK, Coded
  <2>7. getPOS(sent, i, j) = c
    <3>1. i \in 1 .. Len(sent.candidates) /\ j \in 1 .. Len(sent.candidates[i])
      BY <2>6 DEF Has
    <3> QED
      BY <3>1 DEF getPOS, At
  <2> HIDE DEF e, c
  <2>8. CASE last.pos
    <3>1. Tags(e, i, j)
      BY <2>1, <2>3, <2>8 DEF Tags
    <3>2. c = << e.run, i, j >>
      BY <1>1, <2>3, <2>6, <3>1, CodeOfTagged
    <3> QED
      BY <2>2, <2>3, <2>7, <2>8, <3>2
  <2>9. CASE ~last.pos
    <3>1. ~Tags(e, i, j)
      BY <2>3, <2>9 DEF Tags
    <3>2. /\ TaggedBefore(i, j) = {} => c = << -1 >>
          /\ TaggedBefore(i, j) # {} => LET r == last.before[Max(TaggedBefore(i, j))]
                                        IN r.type # "prefix" => c = << r.run, i, j >>
      <4> DEFINE before == last.before
                 tagged == { k \in 1 .. Len(before) : Tags(before[k], i, j) }
      <4>1. TaggedBefore(i, j) = tagged
        BY DEF TaggedBefore
      <4>4. \A k : k \in tagged <=> (k \in 1 .. Len(before) /\ Tags(before[k], i, j))
        OBVIOUS
      <4>2. before \in Seq(PastRuns) /\ CodeOf(c, i, j, Append(before, e)) /\ e \in PastRuns
        BY <2>3, <2>6
      <4> HIDE DEF before, tagged
      <4>3. /\ tagged = {} => c = << -1 >>
            /\ tagged # {} => LET r == before[Max(tagged)]
                              IN r.type # "prefix" => c = << r.run, i, j >>
        BY <3>1, <4>2, <4>4, CodeAfterUntagged
      <4> QED
        BY <4>1, <4>3 DEF before
    <3> QED
      BY <2>7, <2>9, <3>2
  <2> QED
    BY <2>8, <2>9
<1>2. IInv => TagsForLastRun
  BY <1>1 DEF TagsForLastRun
<1> QED
  BY <1>2, AlwaysIInv, PTL

(***************************************************************************)
(* runWithStream writes a line for each line it reads, with the units of   *)
(* that line and their tags, although all lines share one Sentence that is *)
(* never cleared: each analysis replaces what the one before it left.  A   *)
(* line of bytes without characters leaves the Sentence as it was, so the  *)
(* units of the last line that had some are written again.                 *)
(***************************************************************************)
THEOREM LinesStayApart == Spec => []LinesKept
<1>1. ASSUME IInv, Reading, ~(options.type = "prefix" /\ options.pos)
      PROVE  /\ \A k \in 1 .. stream.read : stream.out[k] = LineUnits(k)
             /\ stream.read = Len(stream.file) => Len(stream.out) = Len(stream.file)
  <2>1. stream # None /\ stream \in Streams
    BY <1>1 DEF IInv, TypesOK, Reading, None
  <2>2. stream.read \in Nat
    BY <2>1 DEF Streams
  <2> QED
    BY <1>1, <2>1, <2>2 DEF IInv, StreamOK
<1>2. IInv => LinesKept
  BY <1>1 DEF LinesKept
<1> QED
  BY <1>2, AlwaysIInv, PTL
==============================================================================
