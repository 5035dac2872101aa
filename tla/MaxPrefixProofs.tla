--------------------------- MODULE MaxPrefixProofs ---------------------------
(***************************************************************************)
(* Proofs about MaxPrefix, and about FMinCover, which it extends, for all  *)
(* dictionaries and texts.                                                 *)
(*                                                                         *)
(* Longest prefix analysis: the first pass is a scan: what was found so    *)
(* far are the longest entries at their places, and none begins between    *)
(* them (DictOK).  The second pass is one too, and keeps for the text      *)
(* before begin what is promised of the whole (RestOK).                    *)
(*                                                                         *)
(* The dictionary approach: each operator that cuts a run gives units that *)
(* are spread over it and cover it; runs are of spaces or have none, so    *)
(* that what was read so far is shown but its spaces (ParseOK), and no     *)
(* word of it is missing or cut (FoundOK).                                 *)
(***************************************************************************)
EXTENDS MaxPrefix, FiniteSetTheorems, WellFoundedInduction, TLAPS

Unit == Nat \X Nat

(* The words found in the text up to a position. *)
DictOK(upTo) ==
  /\ \A k \in 1 .. dicSegNum :
       /\ segs[k][2] <= upTo
       /\ segs[k][2] \in EntriesAt(segs[k][1])
       /\ \A e \in EntriesAt(segs[k][1]) : e <= segs[k][2]
  /\ \A j, k \in 1 .. dicSegNum : j < k => segs[j][2] <= segs[k][1]
  /\ \A p \in 0 .. upTo - 1 : In(p, DictUnits) \/ EntriesAt(p) = {}

WordsOK ==
  /\ text \in Texts
  /\ segs \in Seq(Unit) /\ dicSegNum \in 0 .. Len(segs)
  /\ begin \in 0 .. n /\ gap \in 0 .. dicSegNum
  /\ phase = "options" => begin = 0 /\ segs = << >>
  /\ phase = "words" => gap = 0 /\ dicSegNum = Len(segs) /\ DictOK(begin)
  /\ phase \in { "rest", "found" } => DictOK(n)
  /\ phase = "rest" => begin <= SegEnd /\ (gap > 0 => segs[gap][2] <= begin)
  /\ phase = "found" => begin = n
-----------------------------------------------------------------------------
(* The order of the natural numbers, as the library's theorems want it. *)
Less == { p \in Nat \X Nat : p[1] < p[2] }

LEMMA LeastElement ==
  ASSUME NEW S \in SUBSET Nat, S # {}
  PROVE  Min(S) \in S /\ \A m \in S : Min(S) <= m
<1>1. IsWellFoundedOn(Less, Nat)
  BY NatLessThanWellFounded DEF OpToRel, Less
<1>2. PICK l \in S : \A m \in S : ~(<< m, l >> \in Less)
  BY <1>1, WFMin
<1>3. \A k \in Nat, m \in Nat : k < m => << k, m >> \in Less
  BY DEF Less
<1>4. ASSUME NEW m \in S PROVE l <= m
  <2>1. ~(m < l)
    BY <1>2, <1>3
  <2> QED
    BY <2>1
<1> QED
  BY <1>4 DEF Min

LEMMA GreatestElement ==
  ASSUME NEW top \in Nat, NEW S \in SUBSET (0 .. top), S # {}
  PROVE  Max(S) \in S /\ \A m \in S : m <= Max(S)
<1> DEFINE T == { top - m : m \in S }
<1>0. \A m \in S : m \in Nat /\ top - m \in Nat
  <2>1. \A m \in 0 .. top : m \in Nat /\ top - m \in Nat
    OBVIOUS
  <2> QED
    BY <2>1
<1>1. T \in SUBSET Nat /\ T # {}
  BY <1>0
<1>2. Min(T) \in T /\ \A m \in T : Min(T) <= m
  <2> HIDE DEF T
  <2> QED
    BY <1>1, LeastElement
<1>3. PICK l \in S : Min(T) = top - l
  BY <1>2
<1>4. ASSUME NEW m \in S PROVE m <= l
  <2>1. top - l <= top - m
    BY <1>2, <1>3
  <2> QED
    BY <1>0, <2>1
<1>5. \A k \in S : (\A m \in S : k >= m) => k = l
  BY <1>0, <1>4
<1>6. Max(S) \in S /\ \A m \in S : Max(S) >= m
  BY <1>0, <1>4 DEF Max
<1> QED
  BY <1>0, <1>6

LEMMA TextIs ==
  ASSUME text \in Texts
  PROVE  n \in Nat \ { 0 }
<1>1. text \in Seq(Range(text)) \ { << >> }
  BY TextsAssumption DEF IsText
<1> QED
  BY <1>1 DEF n
-----------------------------------------------------------------------------
(* The first pass. *)

(* What is found by following the trie are the entries in the text. *)
LEMMA WordEndsAre ==
  ASSUME text \in Texts, NEW b \in 0 .. n - 1
  PROVE  /\ WordEndsAt(b) = EntriesAt(b)
         /\ EntriesAt(b) # {} => /\ Max(EntriesAt(b)) \in EntriesAt(b)
                                 /\ \A e \in EntriesAt(b) : e <= Max(EntriesAt(b))
<1> DEFINE P == { e \in b + 1 .. n : IsPath(Word(b, e)) /\ \A p \in b .. e - 1 : Ch(p).type # "SPACE" }
           S == { b } \cup P
<1>1. n \in Nat /\ b \in Nat
  BY TextIs
<1>2. LongestPath(b) = Max(S)
  BY DEF LongestPath
<1>3. Max(S) \in S /\ \A m \in S : m <= Max(S)
  <2>1. S \in SUBSET (0 .. n) /\ S # {}
    BY <1>1
  <2> HIDE DEF S
  <2> QED
    BY <1>1, <2>1, GreatestElement
<1>4. ASSUME NEW e \in WordEndsAt(b) PROVE e \in EntriesAt(b)
  <2>1. e \in b + 1 .. LongestPath(b) /\ Word(b, e) \in Entries
    BY DEF WordEndsAt
  <2>2. Max(S) # b
    BY <1>1, <1>2, <2>1
  <2>3. Max(S) \in P
    BY <1>3, <2>2
  <2>4. Max(S) \in b + 1 .. n /\ \A p \in b .. Max(S) - 1 : Ch(p).type # "SPACE"
    BY <2>3
  <2> HIDE DEF S
  <2>5. e \in b + 1 .. n /\ \A p \in b .. e - 1 : Ch(p).type # "SPACE"
    BY <1>1, <1>2, <2>1, <2>4
  <2> QED
    BY <2>1, <2>5 DEF EntriesAt, Type
<1>5. ASSUME NEW e \in EntriesAt(b) PROVE e \in WordEndsAt(b)
  <2>1. /\ e \in b + 1 .. n /\ Word(b, e) \in Entries /\ \A p \in b .. e - 1 : Ch(p).type # "SPACE"
    BY DEF EntriesAt, Type
  <2>2. IsPath(Word(b, e))
    <3>1. Len(Word(b, e)) \in Nat
      BY <1>1, <2>1 DEF Word
    <3> QED
      BY <2>1, <3>1 DEF IsPath, IsPrefix
  <2>3. e <= Max(S)
    BY <1>3, <2>1, <2>2
  <2>4. Max(S) \in Int
    BY <1>1, <1>3
  <2> HIDE DEF S
  <2> QED
    BY <1>1, <1>2, <2>1, <2>3, <2>4 DEF WordEndsAt
<1>6. EntriesAt(b) \in SUBSET (0 .. n)
  BY <1>1 DEF EntriesAt
<1> QED
  BY <1>1, <1>4, <1>5, <1>6, GreatestElement

(* A position inside an appended unit, or inside one of those before. *)
LEMMA AppendIs ==
  ASSUME NEW u \in Unit, segs \in Seq(Unit), segs' = Append(segs, u)
  PROVE  /\ segs' \in Seq(Unit) /\ Len(segs) \in Nat /\ Len(segs') = Len(segs) + 1 /\ segs'[Len(segs) + 1] = u
         /\ \A k \in 1 .. Len(segs) : segs'[k] = segs[k]
OBVIOUS

LEMMA FindWordStep == WordsOK /\ FindWord => WordsOK'
<1> SUFFICES ASSUME WordsOK, FindWord PROVE WordsOK'
  OBVIOUS
<1>0. PICK e : e = Max(WordEndsAt(begin))
  OBVIOUS
<1>1. /\ text \in Texts /\ n \in Nat \ { 0 } /\ begin \in 0 .. n - 1 /\ segs \in Seq(Unit) /\ Len(segs) \in Nat
      /\ dicSegNum = Len(segs) /\ DictOK(begin) /\ phase = "words" /\ gap = 0
  BY TextIs DEF WordsOK, FindWord
<1>2. /\ segs' = Append(segs, << begin, e >>) /\ begin' = e /\ dicSegNum' = dicSegNum + 1
      /\ UNCHANGED << text, dict, phase, gap >>
  BY <1>0 DEF FindWord, parseVars
<1>3. /\ e \in EntriesAt(begin) /\ \A m \in EntriesAt(begin) : m <= e
  BY <1>0, <1>1, WordEndsAre DEF FindWord
<1>4. e \in begin + 1 .. n
  BY <1>3 DEF EntriesAt
<1>5. << begin, e >> \in Unit
  BY <1>1, <1>4 DEF Unit
<1>6. /\ segs' \in Seq(Unit) /\ Len(segs') = Len(segs) + 1 /\ segs'[Len(segs) + 1] = << begin, e >>
      /\ \A k \in 1 .. Len(segs) : segs'[k] = segs[k]
  BY <1>1, <1>2, <1>5, AppendIs
<1>7. n' = n /\ \A p : EntriesAt(p)' = EntriesAt(p)
  BY <1>2 DEF n, EntriesAt, Word, Ch, Entries, Type
<1>8. \A k \in 1 .. Len(segs) : segs[k][1] \in Nat /\ segs[k][2] \in Nat
  BY <1>1 DEF Unit
<1>9. DictOK(e)'
  <2>1. ASSUME NEW k \in 1 .. dicSegNum'
        PROVE  /\ segs'[k][2] <= e
               /\ segs'[k][2] \in EntriesAt(segs'[k][1])
               /\ \A m \in EntriesAt(segs'[k][1]) : m <= segs'[k][2]
    <3>1. CASE k = Len(segs) + 1
      BY <1>1, <1>3, <1>4, <1>6, <3>1
    <3>2. CASE k # Len(segs) + 1
      <4>1. k \in 1 .. Len(segs)
        BY <1>1, <1>2, <3>2
      <4> QED
        BY <1>1, <1>4, <1>6, <1>8, <4>1 DEF DictOK
    <3> QED
      BY <3>1, <3>2
  <2>2. ASSUME NEW j \in 1 .. dicSegNum', NEW k \in 1 .. dicSegNum', j < k
        PROVE  segs'[j][2] <= segs'[k][1]
    <3>1. j \in 1 .. Len(segs)
      BY <1>1, <1>2, <2>2
    <3>2. CASE k = Len(segs) + 1
      BY <1>1, <1>6, <3>1, <3>2 DEF DictOK
    <3>3. CASE k # Len(segs) + 1
      <4>1. k \in 1 .. Len(segs)
        BY <1>1, <1>2, <3>3
      <4> QED
        BY <1>1, <1>6, <2>2, <3>1, <4>1 DEF DictOK
    <3> QED
      BY <3>2, <3>3
  <2>3. ASSUME NEW p \in 0 .. e - 1
        PROVE  In(p, DictUnits') \/ EntriesAt(p) = {}
    <3>1. CASE p < begin
      <4>1. p \in 0 .. begin - 1
        BY <1>1, <3>1
      <4>2. In(p, DictUnits) \/ EntriesAt(p) = {}
        BY <1>1, <4>1 DEF DictOK
      <4>3. DictUnits \subseteq DictUnits'
        BY <1>1, <1>2, <1>6 DEF DictUnits
      <4> QED
        BY <4>2, <4>3 DEF In
    <3>2. CASE ~(p < begin)
      <4>1. << begin, e >> \in DictUnits'
        <5>1. Len(segs) + 1 \in 1 .. dicSegNum'
          BY <1>1, <1>2
        <5> QED
          BY <1>6, <5>1 DEF DictUnits
      <4>2. p \in begin .. e - 1
        BY <1>1, <1>4, <3>2
      <4> QED
        BY <4>1, <4>2 DEF In
    <3> QED
      BY <3>1, <3>2
  <2> QED
    BY <1>7, <2>1, <2>2, <2>3 DEF DictOK, In
<1>10. begin' \in 0 .. n /\ gap' = 0 /\ dicSegNum' = Len(segs') /\ dicSegNum' \in 0 .. Len(segs') /\ 0 \in 0 .. dicSegNum'
  BY <1>1, <1>2, <1>4, <1>6
<1>11. DictOK(begin)'
  BY <1>2, <1>9 DEF DictOK
<1> QED
  BY <1>1, <1>2, <1>6, <1>7, <1>10, <1>11 DEF WordsOK

LEMMA FindNoWordStep == WordsOK /\ FindNoWord => WordsOK'
<1> SUFFICES ASSUME WordsOK, FindNoWord PROVE WordsOK'
  OBVIOUS
<1>1. /\ text \in Texts /\ n \in Nat \ { 0 } /\ begin \in 0 .. n - 1 /\ dicSegNum = Len(segs)
      /\ DictOK(begin) /\ phase = "words" /\ gap = 0 /\ segs \in Seq(Unit)
  BY TextIs DEF WordsOK, FindNoWord
<1>2. begin' = begin + 1 /\ UNCHANGED << text, dict, phase, segs, dicSegNum, gap >>
  BY DEF FindNoWord, parseVars
<1>3. EntriesAt(begin) = {}
  BY <1>1, WordEndsAre DEF FindNoWord
<1>4. n' = n /\ DictUnits' = DictUnits /\ \A p : EntriesAt(p)' = EntriesAt(p)
  BY <1>2 DEF n, EntriesAt, Word, Ch, Entries, Type, DictUnits
<1>5. DictOK(begin)'
  <2>1. ASSUME NEW p \in 0 .. begin' - 1
        PROVE  In(p, DictUnits) \/ EntriesAt(p) = {}
    <3>1. p = begin \/ p \in 0 .. begin - 1
      BY <1>1, <1>2
    <3> QED
      BY <1>1, <1>3, <3>1 DEF DictOK
  <2>2. ASSUME NEW k \in 1 .. dicSegNum
        PROVE  segs[k][2] <= begin'
    <3>1. segs[k][2] \in Nat /\ segs[k][2] <= begin
      BY <1>1 DEF DictOK, Unit
    <3> QED
      BY <1>1, <1>2, <3>1
  <2> QED
    BY <1>1, <1>2, <1>4, <2>1, <2>2 DEF DictOK, In
<1>6. begin' \in 0 .. n
  BY <1>1, <1>2
<1> QED
  BY <1>1, <1>2, <1>4, <1>5, <1>6 DEF WordsOK

LEMMA EndWordsStep == WordsOK /\ EndWords => WordsOK'
<1> SUFFICES ASSUME WordsOK, EndWords PROVE WordsOK'
  OBVIOUS
<1>1. /\ text \in Texts /\ n \in Nat \ { 0 } /\ begin = n /\ dicSegNum = Len(segs) /\ Len(segs) \in Nat
      /\ DictOK(n) /\ phase = "words" /\ gap = 0 /\ segs \in Seq(Unit)
  BY TextIs DEF WordsOK, EndWords
<1>2. begin' = 0 /\ phase' = "rest" /\ UNCHANGED << text, dict, segs, dicSegNum, gap >>
  BY DEF EndWords, parseVars
<1>3. n' = n /\ DictUnits' = DictUnits /\ \A p : EntriesAt(p)' = EntriesAt(p)
  BY <1>2 DEF n, EntriesAt, Word, Ch, Entries, Type, DictUnits
<1>4. DictOK(n)'
  BY <1>1, <1>2, <1>3 DEF DictOK, In
<1>5. SegEnd' >= 0
  <2>1. SegEnd' = SegEnd
    BY <1>2, <1>3 DEF SegEnd
  <2>2. gap = dicSegNum \/ segs[gap + 1] \in Unit
    BY <1>1
  <2> QED
    BY <1>1, <2>1, <2>2 DEF SegEnd, Unit
<1> QED
  BY <1>1, <1>2, <1>3, <1>4, <1>5 DEF WordsOK
-----------------------------------------------------------------------------
(* Where the second pass is: between two words, or at an end of the text.  *)
LEMMA GapIs ==
  ASSUME WordsOK, phase = "rest"
  PROVE  /\ n \in Nat \ { 0 } /\ SegEnd \in Nat /\ SegEnd <= n /\ begin \in 0 .. SegEnd
         /\ \A p \in begin .. SegEnd - 1 : ~In(p, DictUnits)
         /\ SegEnd < n => In(SegEnd, DictUnits)
         /\ gap < dicSegNum => /\ gap + 1 \in 1 .. dicSegNum /\ segs[gap + 1] \in Unit
                               /\ segs[gap + 1][1] = SegEnd
                               /\ segs[gap + 1][2] > SegEnd /\ segs[gap + 1][2] <= n
<1>1. /\ text \in Texts /\ n \in Nat \ { 0 } /\ DictOK(n) /\ gap \in 0 .. dicSegNum /\ segs \in Seq(Unit)
      /\ dicSegNum \in 0 .. Len(segs) /\ Len(segs) \in Nat /\ begin \in 0 .. n /\ begin <= SegEnd
      /\ gap > 0 => segs[gap][2] <= begin
  BY TextIs DEF WordsOK
<1>2. ASSUME NEW k \in 1 .. dicSegNum
      PROVE  /\ segs[k] \in Unit /\ segs[k][1] \in Nat /\ segs[k][2] \in Nat
             /\ segs[k][1] < segs[k][2] /\ segs[k][2] <= n
  <2>1. k \in 1 .. Len(segs)
    BY <1>1
  <2>2. segs[k] \in Unit /\ segs[k][1] \in Nat /\ segs[k][2] \in Nat
    BY <1>1, <2>1 DEF Unit
  <2>3. segs[k][2] \in EntriesAt(segs[k][1]) /\ segs[k][2] <= n
    BY <1>1 DEF DictOK
  <2>4. segs[k][2] \in segs[k][1] + 1 .. n
    BY <2>3 DEF EntriesAt
  <2> QED
    BY <2>2, <2>3, <2>4
<1>3. gap < dicSegNum => /\ gap + 1 \in 1 .. dicSegNum /\ segs[gap + 1] \in Unit
                         /\ segs[gap + 1][1] = SegEnd
                         /\ segs[gap + 1][2] > SegEnd /\ segs[gap + 1][2] <= n
  <2> SUFFICES ASSUME gap < dicSegNum
               PROVE  /\ gap + 1 \in 1 .. dicSegNum /\ segs[gap + 1] \in Unit
                      /\ segs[gap + 1][1] = SegEnd
                      /\ segs[gap + 1][2] > SegEnd /\ segs[gap + 1][2] <= n
    OBVIOUS
  <2>1. gap + 1 \in 1 .. dicSegNum /\ gap # dicSegNum
    BY <1>1
  <2>2. SegEnd = segs[gap + 1][1]
    BY <2>1 DEF SegEnd
  <2> QED
    BY <1>2, <2>1, <2>2
<1>4. gap = dicSegNum => SegEnd = n
  BY DEF SegEnd
<1>5. gap < dicSegNum \/ gap = dicSegNum
  BY <1>1
<1>6. SegEnd \in Nat /\ SegEnd <= n
  BY <1>1, <1>2, <1>3, <1>4, <1>5
<1>7. ASSUME NEW p \in begin .. SegEnd - 1, NEW k \in 1 .. dicSegNum
      PROVE  ~(p \in segs[k][1] .. segs[k][2] - 1)
  <2>1. CASE k <= gap
    <3>1. gap \in 1 .. dicSegNum
      BY <1>1, <2>1
    <3>2. segs[k][2] <= segs[gap][2]
      <4>1. CASE k = gap
        BY <1>2, <3>1, <4>1
      <4>2. CASE k # gap
        <5>1. segs[k][2] <= segs[gap][1]
          BY <1>1, <2>1, <3>1, <4>2 DEF DictOK
        <5> QED
          BY <1>2, <3>1, <5>1
      <4> QED
        BY <4>1, <4>2
    <3> QED
      BY <1>1, <1>2, <3>1, <3>2
  <2>2. CASE ~(k <= gap)
    <3>1. gap < dicSegNum /\ k >= gap + 1
      BY <1>1, <2>2
    <3>2. SegEnd <= segs[k][1]
      <4>1. CASE k = gap + 1
        BY <1>2, <1>3, <3>1, <4>1
      <4>2. CASE k # gap + 1
        <5>1. segs[gap + 1][2] <= segs[k][1]
          BY <1>1, <1>3, <3>1, <4>2 DEF DictOK
        <5> QED
          BY <1>2, <1>3, <1>6, <3>1, <5>1
      <4> QED
        BY <4>1, <4>2
    <3> QED
      BY <1>1, <1>2, <1>6, <3>2
  <2> QED
    BY <1>1, <2>1, <2>2
<1>8. \A p \in begin .. SegEnd - 1 : ~In(p, DictUnits)
  BY <1>7 DEF In, DictUnits
<1>9. SegEnd < n => In(SegEnd, DictUnits)
  <2> SUFFICES ASSUME SegEnd < n PROVE In(SegEnd, DictUnits)
    OBVIOUS
  <2>1. gap < dicSegNum
    BY <1>1, <1>4, <1>5
  <2>2. segs[gap + 1] \in DictUnits
    BY <1>3, <2>1 DEF DictUnits
  <2>3. SegEnd \in segs[gap + 1][1] .. segs[gap + 1][2] - 1
    BY <1>2, <1>3, <1>6, <2>1
  <2> QED
    BY <2>2, <2>3 DEF In
<1> QED
  BY <1>1, <1>3, <1>6, <1>8, <1>9

(* The bytes read since b. *)
LEMMA WidthIs ==
  ASSUME text \in Texts, NEW p \in 0 .. n - 1
  PROVE  Bytes(p) \in 1 .. 4
<1>1. p + 1 \in 1 .. Len(text)
  BY TextIs DEF n
<1> QED
  BY <1>1, TextsAssumption DEF IsText, Bytes, Ch

LEMMA BytesIs ==
  ASSUME text \in Texts, NEW b \in Nat, NEW p \in Nat, b <= p, p <= n
  PROVE  /\ BytesFrom(b, p) \in Nat
         /\ p = b => BytesFrom(b, p) = 0
         /\ p > b => BytesFrom(b, p) >= Bytes(b)
         /\ p >= b + 3 => BytesFrom(b, p) >= 3
<1> DEFINE Value(f, q) == IF q = b THEN 0 ELSE f[q - 1] + Bytes(q - 1)
           Solves(f, m) == f = [q \in b .. m |-> Value(f, q)]
           Bad == { m \in Nat : m >= b /\ ~\E f : Solves(f, m) }
<1>0. n \in Nat
  BY TextIs
<1>1. \A q \in b .. p - 1 : Bytes(q) \in Nat /\ Bytes(q) >= 1
  BY <1>0, WidthIs
<1>2. ASSUME Bad # {} PROVE FALSE
  <2>0. PICK m : m = Min(Bad)
    OBVIOUS
  <2>1. m \in Bad /\ \A l \in Bad : m <= l
    <3>1. Bad \in SUBSET Nat
      OBVIOUS
    <3> HIDE DEF Bad
    <3> QED
      BY <1>2, <2>0, <3>1, LeastElement
  <2>2. m \in Nat /\ m >= b /\ ~\E f : Solves(f, m)
    BY <2>1
  <2>3. m # b
    <3> DEFINE g == [q \in b .. b |-> 0]
    <3>1. Solves(g, b)
      <4>1. \A q \in b .. b : Value(g, q) = 0
        OBVIOUS
      <4> HIDE DEF Value
      <4> QED
        BY <4>1
    <3> QED
      BY <2>2, <3>1
  <2>4. m - 1 \in Nat /\ m - 1 >= b /\ m - 1 \notin Bad
    <3>1. m - 1 \in Nat /\ m - 1 >= b /\ ~(m <= m - 1)
      BY <2>2, <2>3
    <3> HIDE DEF Bad
    <3> QED
      BY <2>1, <3>1
  <2>5. PICK f : Solves(f, m - 1)
    BY <2>4
  <2> DEFINE g == [q \in b .. m |-> Value(f, q)]
  <2>6. ASSUME NEW q \in b .. m, q # b PROVE g[q - 1] = f[q - 1]
    <3>1. q - 1 \in b .. m - 1 /\ q - 1 \in b .. m
      BY <2>2, <2>6
    <3>2. f[q - 1] = Value(f, q - 1)
      <4> HIDE DEF Value
      <4> QED
        BY <2>5, <3>1
    <3>3. g[q - 1] = Value(f, q - 1)
      <4> HIDE DEF Value
      <4> QED
        BY <3>1
    <3> QED
      BY <3>2, <3>3
  <2>7. ASSUME NEW q \in b .. m PROVE Value(g, q) = Value(f, q)
    <3> HIDE DEF g
    <3> QED
      BY <2>6, <2>7
  <2>8. Solves(g, m)
    <3> HIDE DEF Value
    <3> QED
      BY <2>7
  <2> QED
    BY <2>2, <2>8
<1>3. \E f : Solves(f, p)
  <2>1. p \notin Bad
    BY <1>2
  <2> QED
    BY <2>1
<1> DEFINE bytes == CHOOSE f : Solves(f, p)
<1>4. Solves(bytes, p)
  BY <1>3
<1>5. BytesFrom(b, p) = bytes[p]
  BY DEF BytesFrom
<1> HIDE DEF bytes
<1>6. ASSUME NEW q \in b .. p PROVE bytes[q] = Value(bytes, q)
  <2> HIDE DEF Value
  <2> QED
    BY <1>4
<1> DEFINE NoNat == { q \in b .. p : bytes[q] \notin Nat }
<1>7. ASSUME NoNat # {} PROVE FALSE
  <2>0. PICK m : m = Min(NoNat)
    OBVIOUS
  <2>1. m \in NoNat /\ \A l \in NoNat : m <= l
    <3>1. NoNat \in SUBSET Nat
      OBVIOUS
    <3> HIDE DEF NoNat
    <3> QED
      BY <1>7, <2>0, <3>1, LeastElement
  <2>2. m \in b .. p /\ bytes[m] \notin Nat
    BY <2>1
  <2>3. m # b
    BY <1>6, <2>2
  <2>4. m - 1 \in b .. p /\ ~(m <= m - 1)
    BY <2>2, <2>3
  <2>5. bytes[m - 1] \in Nat
    BY <2>1, <2>4
  <2>6. m - 1 \in b .. p - 1
    BY <2>2, <2>3
  <2> QED
    BY <1>1, <1>6, <2>2, <2>3, <2>5, <2>6
<1>8. \A q \in b .. p : bytes[q] \in Nat
  BY <1>7
<1>9. p = b => bytes[p] = 0
  BY <1>6
<1>10. \A q \in b + 1 .. p : bytes[q] \in Nat /\ bytes[q - 1] \in Nat /\ bytes[q] >= bytes[q - 1] + 1
  <2> SUFFICES ASSUME NEW q \in b + 1 .. p
               PROVE  bytes[q] \in Nat /\ bytes[q - 1] \in Nat /\ bytes[q] >= bytes[q - 1] + 1
    OBVIOUS
  <2>1. q \in b .. p /\ q - 1 \in b .. p /\ q - 1 \in b .. p - 1 /\ q # b
    OBVIOUS
  <2>2. bytes[q] = bytes[q - 1] + Bytes(q - 1)
    BY <1>6, <2>1
  <2> QED
    BY <1>1, <1>8, <2>1, <2>2
<1>11. ASSUME p > b PROVE bytes[b + 1] = Bytes(b)
  <2>1. b + 1 \in b .. p /\ b \in b .. p /\ b \in b .. p - 1 /\ b + 1 # b /\ (b + 1) - 1 = b
    BY <1>11
  <2>2. bytes[b + 1] = bytes[b] + Bytes(b) /\ bytes[b] = 0
    BY <1>6, <2>1
  <2> QED
    BY <1>1, <2>1, <2>2
<1> DEFINE Less1 == { q \in b + 1 .. p : ~(bytes[q] >= bytes[b + 1]) }
<1>12. ASSUME Less1 # {} PROVE FALSE
  <2>0. PICK m : m = Min(Less1)
    OBVIOUS
  <2>1. m \in Less1 /\ \A l \in Less1 : m <= l
    <3>1. Less1 \in SUBSET Nat
      OBVIOUS
    <3> HIDE DEF Less1
    <3> QED
      BY <1>12, <2>0, <3>1, LeastElement
  <2>2. m \in b + 1 .. p /\ ~(bytes[m] >= bytes[b + 1])
    BY <2>1
  <2>3. m # b + 1
    BY <1>10, <2>2
  <2>4. m - 1 \in b + 1 .. p /\ ~(m <= m - 1) /\ b + 1 \in b + 1 .. p
    BY <2>2, <2>3
  <2>5. bytes[m - 1] >= bytes[b + 1]
    BY <2>1, <2>4
  <2> QED
    BY <1>10, <2>2, <2>4, <2>5
<1>13. p > b => bytes[p] >= Bytes(b)
  <2> SUFFICES ASSUME p > b PROVE bytes[p] >= Bytes(b)
    OBVIOUS
  <2>1. p \in b + 1 .. p /\ p \notin Less1
    BY <1>12
  <2> QED
    BY <1>11, <2>1
<1>14. p >= b + 3 => bytes[p] >= 3
  <2> SUFFICES ASSUME p >= b + 3 PROVE bytes[p] >= 3
    OBVIOUS
  <2>1. p \in b + 1 .. p /\ p - 1 \in b + 1 .. p /\ p - 2 \in b + 1 .. p
    OBVIOUS
  <2>2. (p - 1) - 1 = p - 2 /\ (p - 2) - 1 = p - 3
    OBVIOUS
  <2>3. bytes[p] >= bytes[p - 1] + 1 /\ bytes[p - 1] >= bytes[p - 2] + 1 /\ bytes[p - 2] >= bytes[p - 3] + 1
    BY <1>10, <2>1, <2>2
  <2>4. bytes[p] \in Nat /\ bytes[p - 1] \in Nat /\ bytes[p - 2] \in Nat /\ bytes[p - 3] \in Nat
    BY <1>10, <2>1, <2>2
  <2> QED
    BY <2>3, <2>4
<1> QED
  BY <1>5, <1>8, <1>9, <1>13, <1>14

(* Where the inner loop stops. *)
LEMMA StopIs ==
  ASSUME WordsOK, InGap
  PROVE  /\ Stop(begin) \in begin .. SegEnd
         /\ Stop(begin) < SegEnd => EndsBefore(begin, Stop(begin)) \/ PairedAt(begin, Stop(begin))
         /\ \A p \in begin .. Stop(begin) - 1 : ~EndsBefore(begin, p) /\ ~PairedAt(begin, p)
<1> DEFINE P == { p \in begin .. SegEnd - 1 : EndsBefore(begin, p) \/ PairedAt(begin, p) }
           S == { SegEnd } \cup P
<1>1. SegEnd \in Nat /\ begin \in 0 .. SegEnd /\ begin < SegEnd
  BY GapIs DEF InGap
<1>2. Stop(begin) = Min(S)
  BY DEF Stop
<1>3. S \in SUBSET Nat /\ S # {}
  BY <1>1
<1>4. Min(S) \in S /\ \A p \in S : Min(S) <= p
  <2> HIDE DEF S
  <2> QED
    BY <1>3, LeastElement
<1>5. PICK m : m = Min(S)
  OBVIOUS
<1>6. m \in begin .. SegEnd /\ (m < SegEnd => m \in P)
  BY <1>1, <1>4, <1>5
<1>7. \A p \in P : m <= p
  BY <1>4, <1>5
<1>8. ASSUME NEW p \in begin .. m - 1
      PROVE  ~EndsBefore(begin, p) /\ ~PairedAt(begin, p)
  <2>1. p \in begin .. SegEnd - 1 /\ ~(m <= p)
    BY <1>1, <1>6
  <2> QED
    BY <1>7, <2>1
<1>9. m < SegEnd => EndsBefore(begin, m) \/ PairedAt(begin, m)
  BY <1>6
<1> HIDE DEF S, P
<1> QED
  BY <1>2, <1>5, <1>6, <1>8, <1>9

(* The kinds of characters exclude one another. *)
LEMMA EndsBeforeIs ==
  ASSUME NEW b, NEW p
  PROVE  /\ IsPossibleChineseWord(p) => (EndsBefore(b, p) <=> p > b /\ ~IsPossibleChineseWord(p - 1))
         /\ Type(p) \in { "DIGIT", "LETTER" } => (EndsBefore(b, p) <=> p > b /\ IsPossibleChineseWord(p - 1))
         /\ Type(p) = "SPACE" => EndsBefore(b, p)
<1>1. CASE IsPossibleChineseWord(p)
  <2>1. Type(p) \notin { "DIGIT", "LETTER" } /\ Type(p) # "SPACE"
    BY <1>1 DEF IsPossibleChineseWord
  <2> QED
    BY <1>1, <2>1 DEF EndsBefore
<1>2. CASE Type(p) \in { "DIGIT", "LETTER" }
  <2>1. ~IsPossibleChineseWord(p) /\ Type(p) # "SPACE"
    BY <1>2 DEF IsPossibleChineseWord
  <2> QED
    BY <1>2, <2>1 DEF EndsBefore
<1>3. CASE ~IsPossibleChineseWord(p) /\ Type(p) \notin { "DIGIT", "LETTER" }
  BY <1>3 DEF EndsBefore
<1> QED
  BY <1>1, <1>2, <1>3

(* A pair needs a character before its second one. *)
LEMMA PairIs ==
  ASSUME WordsOK, InGap, NEW p \in begin .. SegEnd, PairedAt(begin, p)
  PROVE  /\ p > begin /\ IsPossibleChineseWord(p) /\ IsPossibleChineseWord(p - 1)
<1>1. begin \in Nat /\ p \in Nat /\ p >= begin /\ SegEnd \in Nat
  BY GapIs DEF InGap
<1>2. ~EndsBefore(begin, p) /\ IsPossibleChineseWord(p) /\ BytesFrom(begin, p) >= 3
  BY DEF PairedAt
<1>3. p # begin
  <2>1. begin <= n /\ text \in Texts
    BY GapIs DEF InGap, WordsOK
  <2>2. BytesFrom(begin, begin) = 0
    BY <1>1, <2>1, BytesIs
  <2> QED
    BY <1>2, <2>2
<1>4. p > begin
  BY <1>1, <1>3
<1>5. IsPossibleChineseWord(p - 1)
  BY <1>2, <1>4, EndsBeforeIs
<1> QED
  BY <1>2, <1>4, <1>5

(* The three steps of the second pass inside a gap. *)
LEMMA RestStep ==
  ASSUME WordsOK, TakePair \/ TakeRun \/ DropChar
  PROVE  /\ begin' \in begin + 1 .. SegEnd
         /\ UNCHANGED << text, dict, phase, dicSegNum, gap >>
         /\ \A k \in 1 .. Len(segs) : segs'[k] = segs[k]
         /\ segs' \in Seq(Unit) /\ Len(segs') \in Nat /\ Len(segs') >= Len(segs)
<1>0. InGap /\ WordsOK /\ phase = "rest"
  BY DEF TakePair, TakeRun, DropChar, InGap
<1>1. /\ SegEnd \in Nat /\ begin \in Nat /\ begin < SegEnd /\ SegEnd <= n /\ n \in Nat
      /\ segs \in Seq(Unit) /\ Len(segs) \in Nat
  BY <1>0, GapIs DEF InGap, WordsOK
<1>2. /\ Stop(begin) \in begin .. SegEnd
      /\ Stop(begin) < SegEnd => EndsBefore(begin, Stop(begin)) \/ PairedAt(begin, Stop(begin))
  BY <1>0, StopIs
<1>3. UNCHANGED << text, dict, phase, dicSegNum, gap >>
  BY DEF TakePair, TakeRun, DropChar, parseVars
<1>4. CASE TakePair
  <2>1. PICK p : p = Stop(begin)
    OBVIOUS
  <2>2. p \in begin .. SegEnd /\ p < SegEnd /\ PairedAt(begin, p)
    BY <1>2, <1>4, <2>1 DEF TakePair, Pairs
  <2>3. p > begin
    BY <1>0, <2>2, PairIs
  <2>4. begin' = PairEnd(p) /\ PairEnd(p) \in { p, p + 1 }
    BY <1>4, <2>1 DEF TakePair, PairEnd
  <2>5. begin' \in begin + 1 .. SegEnd
    BY <1>1, <2>2, <2>3, <2>4
  <2>6. << begin, begin + 2 >> \in Unit /\ segs' = Append(segs, << begin, begin + 2 >>)
    BY <1>1, <1>4 DEF TakePair, Unit
  <2> QED
    BY <1>1, <1>3, <2>5, <2>6, AppendIs
<1>5. CASE TakeRun
  <2>1. PICK p : p = Stop(begin)
    OBVIOUS
  <2>2. p \in begin .. SegEnd /\ p > begin /\ begin' = p /\ segs' = Append(segs, << begin, p >>)
    BY <1>2, <1>5, <2>1 DEF TakeRun
  <2>3. << begin, p >> \in Unit
    BY <1>1, <2>2 DEF Unit
  <2>4. begin' \in begin + 1 .. SegEnd
    BY <1>1, <2>2
  <2> QED
    BY <1>1, <1>3, <2>2, <2>3, <2>4, AppendIs
<1>6. CASE DropChar
  <2>1. begin' = begin + 1 /\ segs' = segs
    BY <1>6 DEF DropChar
  <2> QED
    BY <1>1, <1>3, <2>1
<1> QED
  BY <1>4, <1>5, <1>6

LEMMA RestWordsStep ==
  ASSUME WordsOK, TakePair \/ TakeRun \/ DropChar
  PROVE  /\ WordsOK'
         /\ n' = n /\ SegEnd' = SegEnd /\ DictUnits' = DictUnits
<1>0. phase = "rest" /\ SegEnd \in Nat /\ SegEnd <= n /\ begin \in 0 .. n /\ n \in Nat
  BY GapIs DEF TakePair, TakeRun, DropChar, InGap, WordsOK
<1>1. /\ begin' \in begin + 1 .. SegEnd
      /\ UNCHANGED << text, dict, phase, dicSegNum, gap >>
      /\ \A k \in 1 .. Len(segs) : segs'[k] = segs[k]
      /\ segs' \in Seq(Unit) /\ Len(segs') \in Nat /\ Len(segs') >= Len(segs)
  BY RestStep
<1>2. /\ text \in Texts /\ DictOK(n) /\ dicSegNum \in 0 .. Len(segs) /\ gap \in 0 .. dicSegNum
      /\ gap > 0 => segs[gap][2] <= begin
      /\ segs \in Seq(Unit) /\ Len(segs) \in Nat
  BY <1>0 DEF WordsOK
<1>3. \A k \in 1 .. dicSegNum : segs'[k] = segs[k]
  BY <1>1, <1>2
<1>4. n' = n /\ DictUnits' = DictUnits /\ \A p : EntriesAt(p)' = EntriesAt(p)
  BY <1>1, <1>3 DEF n, EntriesAt, Word, Ch, Entries, Type, DictUnits
<1>5. SegEnd' = SegEnd
  <2>1. gap = dicSegNum \/ gap + 1 \in 1 .. dicSegNum
    BY <1>2
  <2> QED
    BY <1>1, <1>3, <1>4, <2>1 DEF SegEnd
<1>6. DictOK(n)'
  BY <1>1, <1>2, <1>3, <1>4 DEF DictOK, In
<1>7. gap' > 0 => segs'[gap'][2] <= begin'
  <2> SUFFICES ASSUME gap > 0 PROVE segs'[gap][2] <= begin'
    BY <1>1
  <2>1. gap \in 1 .. dicSegNum /\ gap \in 1 .. Len(segs)
    BY <1>2
  <2>2. segs[gap][2] \in Nat
    BY <1>2, <2>1 DEF Unit
  <2> QED
    BY <1>0, <1>1, <1>2, <1>3, <2>1, <2>2
<1>8. begin' \in 0 .. n /\ begin' <= SegEnd /\ dicSegNum' \in 0 .. Len(segs') /\ gap' \in 0 .. dicSegNum'
  BY <1>0, <1>1, <1>2
<1> QED
  BY <1>0, <1>1, <1>2, <1>4, <1>5, <1>6, <1>7, <1>8 DEF WordsOK

LEMMA NextGapStep ==
  ASSUME WordsOK, NextGap
  PROVE  /\ WordsOK' /\ begin = SegEnd /\ begin' = segs[gap + 1][2] /\ begin' \in begin .. n
         /\ gap + 1 \in 1 .. dicSegNum /\ segs[gap + 1][1] = SegEnd
         /\ n' = n /\ DictUnits' = DictUnits
<1>0. /\ phase = "rest" /\ begin >= SegEnd /\ gap < dicSegNum
      /\ begin' = segs[gap + 1][2] /\ gap' = gap + 1 /\ UNCHANGED << text, dict, phase, segs, dicSegNum >>
  BY DEF NextGap, parseVars
<1>1. /\ n \in Nat \ { 0 } /\ SegEnd \in Nat /\ SegEnd <= n /\ begin \in 0 .. SegEnd
      /\ gap + 1 \in 1 .. dicSegNum /\ segs[gap + 1] \in Unit
      /\ segs[gap + 1][1] = SegEnd
      /\ segs[gap + 1][2] > SegEnd /\ segs[gap + 1][2] <= n
  BY <1>0, GapIs
<1>2. begin = SegEnd /\ begin' \in begin .. n
  <2>1. segs[gap + 1][2] \in Nat
    BY <1>1 DEF Unit
  <2> QED
    BY <1>0, <1>1, <2>1
<1>3. /\ text \in Texts /\ DictOK(n) /\ dicSegNum \in 0 .. Len(segs) /\ gap \in 0 .. dicSegNum
      /\ segs \in Seq(Unit) /\ Len(segs) \in Nat
  BY <1>0 DEF WordsOK
<1>4. n' = n /\ DictUnits' = DictUnits /\ \A p : EntriesAt(p)' = EntriesAt(p)
  BY <1>0 DEF n, EntriesAt, Word, Ch, Entries, Type, DictUnits
<1>5. DictOK(n)'
  BY <1>0, <1>3, <1>4 DEF DictOK, In
<1>6. begin' <= SegEnd'
  <2>1. CASE gap' = dicSegNum
    BY <1>0, <1>2, <1>4, <2>1 DEF SegEnd
  <2>2. CASE gap' # dicSegNum
    <3>1. PICK k : k = gap + 1
      OBVIOUS
    <3>2. k \in 1 .. dicSegNum /\ k + 1 \in 1 .. dicSegNum /\ k < k + 1
      BY <1>0, <1>1, <1>3, <2>2, <3>1
    <3>3. segs[k][2] <= segs[k + 1][1]
      BY <1>3, <3>2 DEF DictOK
    <3>4. SegEnd' = segs[k + 1][1]
      BY <1>0, <2>2, <3>1 DEF SegEnd
    <3> QED
      BY <1>0, <3>1, <3>3, <3>4
  <2> QED
    BY <2>1, <2>2
<1>7. gap' \in 0 .. dicSegNum /\ begin' \in 0 .. n /\ segs'[gap'][2] <= begin'
  <2>1. segs[gap + 1][2] \in Nat
    BY <1>1 DEF Unit
  <2> QED
    BY <1>0, <1>1, <1>2, <1>3, <2>1
<1>8. WordsOK'
  BY <1>0, <1>3, <1>4, <1>5, <1>6, <1>7 DEF WordsOK
<1> QED
  BY <1>0, <1>1, <1>2, <1>4, <1>8

LEMMA EndPrefixStep == WordsOK /\ EndPrefix => WordsOK' /\ begin = n
<1> SUFFICES ASSUME WordsOK, EndPrefix PROVE WordsOK' /\ begin = n
  OBVIOUS
<1>1. /\ phase = "rest" /\ gap = dicSegNum /\ begin >= n /\ phase' = "found"
      /\ UNCHANGED << text, dict, begin, segs, dicSegNum, gap >>
  BY DEF EndPrefix, SegEnd, parseVars, prefixVars
<1>2. begin = n /\ n \in Nat
  <2>1. begin \in 0 .. n /\ n \in Nat
    BY TextIs DEF WordsOK
  <2> QED
    BY <1>1, <2>1
<1>3. n' = n /\ DictUnits' = DictUnits /\ \A p : EntriesAt(p)' = EntriesAt(p)
  BY <1>1 DEF n, EntriesAt, Word, Ch, Entries, Type, DictUnits
<1>4. DictOK(n)'
  BY <1>1, <1>3 DEF WordsOK, DictOK, In
<1> QED
  BY <1>1, <1>2, <1>3, <1>4 DEF WordsOK

-----------------------------------------------------------------------------
(* The other analyses do not touch what the passes keep. *)
LEMMA DictionaryIs ==
  ASSUME Dictionary
  PROVE  /\ phase \notin { "words", "rest", "found" } /\ phase' \notin { "words", "rest", "found" }
         /\ phase' = "options" => phase = "options"
         /\ UNCHANGED << text, dict, begin, segs, dicSegNum, gap >>
<1>1. UNCHANGED << begin, segs, dicSegNum, gap >> /\ Next
  BY DEF Dictionary, prefixVars
<1>2. CASE \E nValue \in AnalysisTypes : setOption(nValue)
  BY <1>1, <1>2 DEF setOption
<1>3. CASE \E bValue \in BOOLEAN : setAnalOption(bValue)
  BY <1>1, <1>3 DEF setAnalOption
<1>4. CASE StartParse \/ NextChar \/ EndParse \/ createWordOffset \/ Return
  BY <1>1, <1>4 DEF StartParse, NextChar, EndParse, createWordOffset, Return
<1> QED
  BY <1>1, <1>2, <1>3, <1>4 DEF Next

LEMMA KeptWords ==
  ASSUME WordsOK, UNCHANGED << text, dict, begin, segs, dicSegNum, gap >>,
         \/ phase' = phase
         \/ phase' \notin { "words", "rest", "found", "options" }
         \/ phase = "options" /\ phase' = "words"
  PROVE  WordsOK'
<1>1. n' = n /\ DictUnits' = DictUnits /\ SegEnd' = SegEnd /\ \A p : EntriesAt(p)' = EntriesAt(p)
  BY DEF n, EntriesAt, Word, Ch, Entries, Type, DictUnits, SegEnd
<1>2. \A upTo : DictOK(upTo)' <=> DictOK(upTo)
  BY <1>1 DEF DictOK, In
<1>3. DictOK(begin)' <=> DictOK(begin)
  BY <1>1 DEF DictOK, In
<1>4. DictOK(n)' <=> DictOK(n)
  BY <1>1 DEF DictOK, In
<1>5. ASSUME phase = "options"
      PROVE  gap = 0 /\ dicSegNum = Len(segs) /\ DictOK(begin)
  <2>1. begin = 0 /\ segs = << >> /\ Len(segs) = 0 /\ dicSegNum \in 0 .. 0 /\ gap \in 0 .. dicSegNum
    BY <1>5 DEF WordsOK
  <2>2. dicSegNum = 0 /\ gap = 0
    BY <2>1
  <2> QED
    BY <2>1, <2>2 DEF DictOK
<1> QED
  BY <1>1, <1>3, <1>4, <1>5 DEF WordsOK

LEMMA InitWords == PrefixInit => WordsOK
<1> SUFFICES ASSUME PrefixInit PROVE WordsOK
  OBVIOUS
<1>1. text \in Texts /\ n \in Nat /\ phase = "options" /\ begin = 0 /\ segs = << >> /\ dicSegNum = 0 /\ gap = 0
  BY TextIs DEF PrefixInit, Init
<1> QED
  BY <1>1 DEF WordsOK

LEMMA NextWords == WordsOK /\ [PrefixNext]_allVars => WordsOK'
<1> SUFFICES ASSUME WordsOK, [PrefixNext]_allVars PROVE WordsOK'
  OBVIOUS
<1>1. CASE Dictionary
  BY <1>1, DictionaryIs, KeptWords
<1>2. CASE StartPrefix
  BY <1>2, KeptWords DEF StartPrefix, parseVars, prefixVars
<1>3. CASE FindWord
  BY <1>3, FindWordStep
<1>4. CASE FindNoWord
  BY <1>4, FindNoWordStep
<1>5. CASE EndWords
  BY <1>5, EndWordsStep
<1>6. CASE TakePair \/ TakeRun \/ DropChar
  BY <1>6, RestWordsStep
<1>7. CASE NextGap
  BY <1>7, NextGapStep
<1>8. CASE EndPrefix
  BY <1>8, EndPrefixStep
<1>9. CASE UNCHANGED allVars
  BY <1>9, KeptWords DEF allVars, vars, prefixVars
<1> QED
  BY <1>1, <1>2, <1>3, <1>4, <1>5, <1>6, <1>7, <1>8, <1>9 DEF PrefixNext

LEMMA AlwaysWords == PrefixSpec => []WordsOK
BY InitWords, NextWords, PTL DEF PrefixSpec

(***************************************************************************)
(* The first result are the leftmost longest entries: in order, none the   *)
(* beginning of a longer one, and no entry begins outside of them.         *)
(***************************************************************************)
THEOREM AlwaysLongestFirst == PrefixSpec => []LongestEntriesFirst
<1>1. WordsOK => LongestEntriesFirst
  <2> SUFFICES ASSUME WordsOK, PrefixDone PROVE LongestEntriesFirst
    BY DEF LongestEntriesFirst
  <2>1. DictOK(n) /\ dicSegNum \in Nat
    BY DEF WordsOK, PrefixDone
  <2>2. ASSUME NEW k \in 2 .. dicSegNum
        PROVE  segs[k - 1][2] <= segs[k][1]
    <3>1. k \in 1 .. dicSegNum /\ k - 1 \in 1 .. dicSegNum /\ k - 1 < k
      BY <2>1
    <3> QED
      BY <2>1, <3>1 DEF DictOK
  <2>3. \A u \in DictUnits : u[2] \in EntriesAt(u[1]) /\ \A e \in EntriesAt(u[1]) : e <= u[2]
    BY <2>1 DEF DictOK, DictUnits
  <2> QED
    BY <2>1, <2>2, <2>3 DEF LongestEntriesFirst, DictOK
<1> QED
  BY <1>1, AlwaysWords, PTL

(***************************************************************************)
(* Both passes end: every step moves on in the text, or to the next gap    *)
(* without going back, also where a pair's second character is read again. *)
(***************************************************************************)
AdvanceStep ==
  (phase \in { "words", "rest" } /\ phase' = phase)
    => \/ begin' \in begin + 1 .. n
       \/ gap' = gap + 1 /\ begin' \in begin .. n

THEOREM AlwaysAdvance == PrefixSpec => PassesAdvance
<1>1. WordsOK /\ [PrefixNext]_allVars => [AdvanceStep]_allVars
  <2> SUFFICES ASSUME WordsOK, PrefixNext, phase \in { "words", "rest" }, phase' = phase
               PROVE  \/ begin' \in begin + 1 .. n
                      \/ gap' = gap + 1 /\ begin' \in begin .. n
    BY DEF AdvanceStep
  <2>0. text \in Texts /\ begin \in 0 .. n /\ n \in Nat \ { 0 }
    BY TextIs DEF WordsOK
  <2>1. ~Dictionary /\ ~StartPrefix /\ ~EndWords /\ ~EndPrefix
    BY DictionaryIs DEF StartPrefix, EndWords, EndPrefix
  <2>2. CASE FindWord
    <3>1. begin \in 0 .. n - 1
      BY <2>0, <2>2 DEF FindWord
    <3>2. begin' \in EntriesAt(begin)
      BY <2>0, <2>2, <3>1, WordEndsAre DEF FindWord
    <3> QED
      BY <3>2 DEF EntriesAt
  <2>3. CASE FindNoWord
    BY <2>0, <2>3 DEF FindNoWord
  <2>4. CASE TakePair \/ TakeRun \/ DropChar
    <3>1. phase = "rest"
      BY <2>4 DEF TakePair, TakeRun, DropChar, InGap
    <3>2. begin' \in begin + 1 .. SegEnd
      BY <2>4, RestStep
    <3>3. SegEnd \in Nat /\ SegEnd <= n
      BY <3>1, GapIs
    <3> QED
      BY <2>0, <3>2, <3>3
  <2>5. CASE NextGap
    <3>1. begin' \in begin .. n
      BY <2>5, NextGapStep
    <3> QED
      BY <2>5, <3>1 DEF NextGap
  <2> QED
    BY <2>1, <2>2, <2>3, <2>4, <2>5 DEF PrefixNext
<1>2. PrefixSpec => [][AdvanceStep]_allVars
  BY <1>1, AlwaysWords, PTL DEF PrefixSpec
<1> QED
  BY <1>2 DEF PassesAdvance, AdvanceStep

-----------------------------------------------------------------------------
(***************************************************************************)
(* The second pass, for characters of any bytes.  Where one has less than  *)
(* three a pair is noticed late, behind the character that follows it.     *)
(***************************************************************************)
IsRest(p) == IsPossibleChineseWord(p) \/ Type(p) \in { "DIGIT", "LETTER" }

(* What units of the second pass are, for the text up to a position. *)
RestFor(units, upTo) ==
  /\ \A u \in units : \A p \in u[1] .. u[2] - 1 : ~In(p, DictUnits) /\ Type(p) # "SPACE"
  /\ \A p \in 0 .. upTo - 1 :
       IsRest(p) => In(p, DictUnits \cup units) \/ (IsPossibleChineseWord(p) /\ NarrowIn(p - 3, p - 2))
  /\ \A p \in 0 .. upTo - 1 : << p, p + 2 >> \in Bigrams => << p, p + 2 >> \in units \/ NarrowIn(p - 2, p)
  /\ \A u \in units \ Bigrams :
       (\A p \in u[1] + 1 .. u[2] - 1 : ~IsPossibleChineseWord(p)) \/ NarrowIn(u[1], u[1])

RestOK ==
  /\ phase = "rest" => RestFor(RestUnits, begin)
  /\ phase = "found" => RestFor(RestUnits, n)

LEMMA BigramIs ==
  ASSUME NEW p \in Int, n \in Nat
  PROVE  << p, p + 2 >> \in Bigrams <=>
           /\ p \in 0 .. n - 2
           /\ IsPossibleChineseWord(p) /\ ~In(p, DictUnits)
           /\ IsPossibleChineseWord(p + 1) /\ ~In(p + 1, DictUnits)
<1> DEFINE Both(q) == Left(q) /\ Left(q + 1)
<1>1. ASSUME << p, p + 2 >> \in Bigrams PROVE p \in 0 .. n - 2 /\ Both(p)
  <2>1. PICK q \in 0 .. n - 2 : Both(q) /\ << p, p + 2 >> = << q, q + 2 >>
    BY <1>1 DEF Bigrams
  <2>2. p = q
    BY <2>1
  <2> QED
    BY <2>1, <2>2
<1>2. ASSUME p \in 0 .. n - 2, Both(p) PROVE << p, p + 2 >> \in Bigrams
  BY <1>2 DEF Bigrams
<1>3. p \in 0 .. n - 2 =>
        (Both(p) <=> /\ IsPossibleChineseWord(p) /\ ~In(p, DictUnits)
                     /\ IsPossibleChineseWord(p + 1) /\ ~In(p + 1, DictUnits))
  <2> SUFFICES ASSUME p \in 0 .. n - 2
               PROVE  Both(p) <=> /\ IsPossibleChineseWord(p) /\ ~In(p, DictUnits)
                                  /\ IsPossibleChineseWord(p + 1) /\ ~In(p + 1, DictUnits)
    OBVIOUS
  <2>1. p \in 0 .. n - 1 /\ p + 1 \in 0 .. n - 1
    OBVIOUS
  <2> QED
    BY <2>1 DEF Left
<1> HIDE DEF Both
<1> QED
  BY <1>1, <1>2, <1>3

(* If the loop goes on at a second Chinese character, the first is narrow. *)
LEMMA InsideIs ==
  ASSUME WordsOK, InGap, NEW p \in begin + 1 .. Stop(begin) - 1, IsPossibleChineseWord(p)
  PROVE  /\ p <= begin + 2
         /\ NarrowIn(begin, begin)
         /\ \A q \in begin .. p : IsPossibleChineseWord(q)
<1>1. /\ begin \in Nat /\ Stop(begin) \in begin .. SegEnd /\ SegEnd \in Nat /\ SegEnd <= n /\ n \in Nat
      /\ begin < SegEnd /\ \A q \in begin .. SegEnd - 1 : ~In(q, DictUnits)
  BY GapIs, StopIs DEF InGap
<1>2. /\ \A q \in begin + 1 .. p : q \in Nat /\ q > begin /\ ~EndsBefore(begin, q) /\ ~PairedAt(begin, q)
      /\ p \in Nat /\ p > begin /\ p <= n
  <2>1. \A q \in begin + 1 .. p : q \in begin .. Stop(begin) - 1
    BY <1>1
  <2> QED
    BY <1>1, <2>1, StopIs
<1>3. BytesFrom(begin, p) \in Nat /\ BytesFrom(begin, p) < 3
  <2>1. p \in begin + 1 .. p
    BY <1>1, <1>2
  <2>2. BytesFrom(begin, p) \in Nat
    BY <1>1, <1>2, BytesIs DEF WordsOK
  <2> QED
    BY <1>2, <2>1, <2>2 DEF PairedAt
<1>4. p <= begin + 2
  <2>1. p >= begin + 3 => BytesFrom(begin, p) >= 3
    BY <1>1, <1>2, BytesIs DEF WordsOK
  <2> QED
    BY <1>1, <1>2, <1>3, <2>1
<1>5. ASSUME NEW q \in begin + 1 .. p, IsPossibleChineseWord(q) PROVE IsPossibleChineseWord(q - 1)
  BY <1>2, <1>5, EndsBeforeIs
<1>6. \A q \in begin .. p : IsPossibleChineseWord(q)
  <2>1. CASE p = begin + 1
    <3>1. IsPossibleChineseWord(p - 1) /\ p - 1 = begin
      BY <1>1, <1>5, <2>1
    <3>2. \A q \in begin .. p : q = p \/ q = begin
      BY <1>1, <2>1
    <3> QED
      BY <3>1, <3>2
  <2>2. CASE p = begin + 2
    <3>1. IsPossibleChineseWord(p - 1) /\ p - 1 \in begin + 1 .. p
      BY <1>1, <1>5, <2>2
    <3>2. IsPossibleChineseWord((p - 1) - 1) /\ (p - 1) - 1 = begin /\ p - 1 = begin + 1
      BY <1>1, <1>5, <2>2, <3>1
    <3>3. \A q \in begin .. p : q = p \/ q = begin + 1 \/ q = begin
      BY <1>1, <2>2
    <3> QED
      BY <3>1, <3>2, <3>3
  <2> QED
    BY <1>1, <1>2, <1>4, <2>1, <2>2
<1>7. NarrowIn(begin, begin)
  <2>1. begin \in begin .. p /\ begin \in begin .. SegEnd - 1 /\ begin \in 0 .. n - 1 /\ begin \in begin .. begin
    BY <1>1, <1>2
  <2>2. Left(begin)
    BY <1>1, <1>6, <2>1 DEF Left
  <2>3. Bytes(begin) \in 1 .. 4 /\ BytesFrom(begin, p) >= Bytes(begin)
    BY <1>1, <1>2, <2>1, WidthIs, BytesIs DEF WordsOK
  <2> QED
    BY <1>3, <2>1, <2>2, <2>3 DEF NarrowIn
<1> QED
  BY <1>4, <1>6, <1>7

LEMMA NarrowWider ==
  ASSUME NEW b \in Int, NarrowIn(b, b), NEW l \in Int, NEW m \in Int, l <= b, b <= m
  PROVE  NarrowIn(l, m)
<1> QED
  BY DEF NarrowIn

LEMMA RestUnitsAre ==
  ASSUME WordsOK, phase = "rest", NEW u \in Unit, segs' = Append(segs, u), UNCHANGED dicSegNum
  PROVE  RestUnits' = RestUnits \cup { u }
<1>1. segs \in Seq(Unit) /\ Len(segs) \in Nat /\ dicSegNum \in 0 .. Len(segs)
  BY DEF WordsOK
<1>2. /\ Len(segs') = Len(segs) + 1 /\ segs'[Len(segs) + 1] = u
      /\ \A k \in 1 .. Len(segs) : segs'[k] = segs[k]
  BY <1>1, AppendIs
<1>3. dicSegNum + 1 .. Len(segs') = (dicSegNum + 1 .. Len(segs)) \cup { Len(segs) + 1 }
  BY <1>1, <1>2
<1>4. \A k \in dicSegNum + 1 .. Len(segs) : k \in 1 .. Len(segs)
  BY <1>1
<1> QED
  BY <1>2, <1>3, <1>4 DEF RestUnits

(* What the steps leave alone. *)
LEMMA RestForKept ==
  ASSUME UNCHANGED << text, dict >>, DictUnits' = DictUnits
  PROVE  \A units, upTo : RestFor(units, upTo)' <=> RestFor(units, upTo)
<1>1. n' = n /\ (\A p : Type(p)' = Type(p) /\ (IsPossibleChineseWord(p)' <=> IsPossibleChineseWord(p)))
  BY DEF n, Type, Ch, IsPossibleChineseWord
<1>2. Bigrams' = Bigrams
  BY <1>1 DEF Bigrams, Left, In
<1>3. \A b, e : NarrowIn(b, e)' <=> NarrowIn(b, e)
  BY <1>1 DEF NarrowIn, Left, Bytes, Ch, In
<1> QED
  BY <1>1, <1>2, <1>3 DEF RestFor, IsRest, In

LEMMA TakePairRest ==
  ASSUME WordsOK, TakePair, RestFor(RestUnits, begin)
  PROVE  RestFor(RestUnits', begin')
<1>0. InGap /\ phase = "rest"
  BY DEF TakePair, InGap
<1>1. /\ n \in Nat /\ SegEnd \in Nat /\ SegEnd <= n /\ begin \in Nat /\ begin < SegEnd
      /\ \A p \in begin .. SegEnd - 1 : ~In(p, DictUnits)
      /\ SegEnd < n => In(SegEnd, DictUnits)
  BY <1>0, GapIs DEF InGap
<1>2. PICK p : p = Stop(begin)
  OBVIOUS
<1>3. p \in begin .. SegEnd /\ p < SegEnd /\ PairedAt(begin, p)
  BY <1>0, <1>2, StopIs DEF TakePair, Pairs
<1>4. p > begin /\ IsPossibleChineseWord(p) /\ IsPossibleChineseWord(p - 1)
  BY <1>0, <1>3, PairIs
<1>5. /\ p \in { begin + 1, begin + 2, begin + 3 }
      /\ \A q \in begin .. p : IsPossibleChineseWord(q)
      /\ p # begin + 1 => NarrowIn(begin, begin)
  <2>1. CASE p = begin + 1
    <3>1. \A q \in begin .. p : q = p \/ q = p - 1
      BY <1>1, <2>1
    <3> QED
      BY <1>4, <2>1, <3>1
  <2>2. CASE p # begin + 1
    <3>1. p - 1 \in begin + 1 .. Stop(begin) - 1
      BY <1>1, <1>2, <1>3, <1>4, <2>2
    <3>2. /\ p - 1 <= begin + 2 /\ NarrowIn(begin, begin)
          /\ \A q \in begin .. p - 1 : IsPossibleChineseWord(q)
      BY <1>0, <1>4, <3>1, InsideIs
    <3>3. \A q \in begin .. p : q = p \/ q \in begin .. p - 1
      BY <1>1, <1>3
    <3> QED
      BY <1>1, <1>3, <1>4, <2>2, <3>2, <3>3
  <2> QED
    BY <2>1, <2>2
<1>6. PICK u : u = << begin, begin + 2 >>
  OBVIOUS
<1>7. RestUnits' = RestUnits \cup { u }
  <2>1. u \in Unit /\ segs' = Append(segs, u) /\ UNCHANGED dicSegNum
    BY <1>1, <1>6 DEF TakePair, Unit
  <2> QED
    BY <1>0, <2>1, RestUnitsAre
<1>8. /\ IsPossibleChineseWord(begin) /\ IsPossibleChineseWord(begin + 1)
      /\ ~In(begin, DictUnits) /\ ~In(begin + 1, DictUnits) /\ begin + 1 < n
  <2>1. begin \in begin .. p /\ begin + 1 \in begin .. p /\ begin + 1 < SegEnd
    BY <1>1, <1>3, <1>5
  <2> QED
    BY <1>1, <1>5, <2>1
<1>9. u \in Bigrams
  <2>1. begin \in 0 .. n - 2
    BY <1>1, <1>8
  <2> QED
    BY <1>1, <1>6, <1>8, <2>1, BigramIs
<1>10. /\ begin' \in { p, p + 1 }
       /\ begin' = p + 1 => p + 1 = SegEnd \/ ~IsPossibleChineseWord(p + 1)
  <2>1. begin' = PairEnd(p)
    BY <1>2 DEF TakePair
  <2> QED
    BY <1>1, <1>3, <2>1 DEF PairEnd
<1>11. \A q \in begin .. begin + 1 : ~In(q, DictUnits) /\ Type(q) # "SPACE" /\ In(q, { u })
  <2>1. \A q \in begin .. begin + 1 : q = begin \/ q = begin + 1
    BY <1>1
  <2> QED
    BY <1>1, <1>6, <1>8, <2>1 DEF IsPossibleChineseWord, In
<1>12. ASSUME NEW v \in RestUnits'
       PROVE  /\ \A q \in v[1] .. v[2] - 1 : ~In(q, DictUnits) /\ Type(q) # "SPACE"
              /\ v \notin Bigrams => \/ \A q \in v[1] + 1 .. v[2] - 1 : ~IsPossibleChineseWord(q)
                                   \/ NarrowIn(v[1], v[1])
  <2>1. CASE v = u
    <3>1. v[1] = begin /\ v[2] - 1 = begin + 1
      BY <1>1, <1>6, <2>1
    <3> QED
      BY <1>9, <1>11, <2>1, <3>1
  <2>2. CASE v \in RestUnits
    BY <2>2 DEF RestFor
  <2> QED
    BY <1>7, <2>1, <2>2
<1>13. ASSUME NEW q \in 0 .. begin' - 1
       PROVE  /\ IsRest(q) => In(q, DictUnits \cup RestUnits') \/ (IsPossibleChineseWord(q) /\ NarrowIn(q - 3, q - 2))
              /\ << q, q + 2 >> \in Bigrams => << q, q + 2 >> \in RestUnits' \/ NarrowIn(q - 2, q)
  <2>1. CASE q < begin
    <3>1. q \in 0 .. begin - 1
      BY <1>1, <2>1
    <3>2. /\ IsRest(q) => In(q, DictUnits \cup RestUnits) \/ (IsPossibleChineseWord(q) /\ NarrowIn(q - 3, q - 2))
          /\ << q, q + 2 >> \in Bigrams => << q, q + 2 >> \in RestUnits \/ NarrowIn(q - 2, q)
      BY <3>1 DEF RestFor
    <3> QED
      BY <1>7, <3>2 DEF In
  <2>2. CASE ~(q < begin)
    <3>0. PICK e : e = begin'
      OBVIOUS
    <3>1. q \in Nat /\ q >= begin /\ q <= p /\ q < e /\ (e = p \/ e = p + 1)
      <4>1. (e = p \/ e = p + 1) /\ q \in 0 .. e - 1
        BY <1>10, <3>0
      <4> QED
        BY <1>1, <1>3, <2>2, <4>1
    <3>2. IsPossibleChineseWord(q)
      <4>1. q \in begin .. p
        BY <1>1, <1>3, <3>1
      <4> QED
        BY <1>5, <4>1
    <3>3. In(q, { u }) \/ NarrowIn(q - 3, q - 2)
      <4>1. CASE q <= begin + 1
        <5>1. q \in begin .. begin + 1
          BY <1>1, <3>1, <4>1
        <5> QED
          BY <1>11, <5>1
      <4>2. CASE ~(q <= begin + 1)
        <5>1. p # begin + 1 /\ q - 3 <= begin /\ begin <= q - 2 /\ q - 3 \in Int /\ q - 2 \in Int /\ begin \in Int
          BY <1>1, <1>5, <3>1, <4>2
        <5>2. NarrowIn(begin, begin)
          BY <1>5, <5>1
        <5> QED
          BY <5>1, <5>2, NarrowWider
      <4> QED
        BY <4>1, <4>2
    <3>4. ASSUME << q, q + 2 >> \in Bigrams, q # begin PROVE NarrowIn(q - 2, q)
      <4>1. q \in 0 .. n - 2 /\ IsPossibleChineseWord(q + 1) /\ ~In(q + 1, DictUnits)
        BY <1>1, <3>1, <3>4, BigramIs
      <4>2. q # p
        <5> SUFFICES ASSUME q = p PROVE FALSE
          OBVIOUS
        <5>1. e = p + 1
          BY <1>1, <1>3, <3>1
        <5>2. p + 1 = SegEnd
          BY <1>10, <3>0, <4>1, <5>1
        <5>3. SegEnd < n
          BY <1>1, <4>1, <5>2
        <5> QED
          BY <1>1, <4>1, <5>2, <5>3
      <4>3. p # begin + 1 /\ q - 2 <= begin /\ begin <= q /\ q - 2 \in Int /\ q \in Int /\ begin \in Int
        BY <1>1, <1>5, <3>1, <3>4, <4>2
      <4>4. NarrowIn(begin, begin)
        BY <1>5, <4>3
      <4> QED
        BY <4>3, <4>4, NarrowWider
    <3>5. << q, q + 2 >> \in Bigrams => << q, q + 2 >> \in RestUnits' \/ NarrowIn(q - 2, q)
      BY <1>6, <1>7, <3>4
    <3>6. In(q, { u }) => In(q, DictUnits \cup RestUnits')
      BY <1>7 DEF In
    <3> QED
      BY <3>2, <3>3, <3>5, <3>6
  <2> QED
    BY <2>1, <2>2
<1> QED
  BY <1>12, <1>13 DEF RestFor

LEMMA TakeRunRest ==
  ASSUME WordsOK, TakeRun, RestFor(RestUnits, begin)
  PROVE  RestFor(RestUnits', begin')
<1>0. InGap /\ phase = "rest"
  BY DEF TakeRun, InGap
<1>1. /\ n \in Nat /\ SegEnd \in Nat /\ SegEnd <= n /\ begin \in Nat /\ begin < SegEnd
      /\ \A q \in begin .. SegEnd - 1 : ~In(q, DictUnits)
      /\ SegEnd < n => In(SegEnd, DictUnits)
  BY <1>0, GapIs DEF InGap
<1>2. PICK p : p = Stop(begin)
  OBVIOUS
<1>3. /\ p \in begin .. SegEnd /\ p > begin /\ begin' = p
      /\ p < SegEnd => EndsBefore(begin, p)
      /\ \A q \in begin .. p - 1 : ~EndsBefore(begin, q)
  BY <1>0, <1>2, StopIs DEF TakeRun, Pairs
<1>9. ASSUME NEW q \in begin + 1 .. p - 1, IsPossibleChineseWord(q)
      PROVE  NarrowIn(begin, begin) /\ q <= begin + 2
  BY <1>0, <1>2, <1>9, InsideIs
<1>4. PICK u : u = << begin, p >>
  OBVIOUS
<1>5. RestUnits' = RestUnits \cup { u }
  <2>1. u \in Unit /\ segs' = Append(segs, u) /\ UNCHANGED dicSegNum
    BY <1>1, <1>2, <1>3, <1>4 DEF TakeRun, Unit
  <2> QED
    BY <1>0, <2>1, RestUnitsAre
<1>6. \A q \in begin .. p - 1 : ~In(q, DictUnits) /\ Type(q) # "SPACE" /\ In(q, { u })
  <2> SUFFICES ASSUME NEW q \in begin .. p - 1
               PROVE  ~In(q, DictUnits) /\ Type(q) # "SPACE" /\ In(q, { u })
    OBVIOUS
  <2>1. q \in begin .. SegEnd - 1
    BY <1>1, <1>3
  <2>2. Type(q) # "SPACE"
    BY <1>3, EndsBeforeIs
  <2> QED
    BY <1>1, <1>4, <2>1, <2>2 DEF In
<1>7. ASSUME NEW v \in RestUnits'
      PROVE  /\ \A q \in v[1] .. v[2] - 1 : ~In(q, DictUnits) /\ Type(q) # "SPACE"
             /\ v \notin Bigrams => \/ \A q \in v[1] + 1 .. v[2] - 1 : ~IsPossibleChineseWord(q)
                                  \/ NarrowIn(v[1], v[1])
  <2>1. CASE v = u
    <3>1. v[1] = begin /\ v[2] = p
      BY <1>4, <2>1
    <3> QED
      BY <1>6, <1>9, <3>1
  <2>2. CASE v \in RestUnits
    BY <2>2 DEF RestFor
  <2> QED
    BY <1>5, <2>1, <2>2
<1>8. ASSUME NEW q \in 0 .. p - 1
      PROVE  /\ IsRest(q) => In(q, DictUnits \cup RestUnits') \/ (IsPossibleChineseWord(q) /\ NarrowIn(q - 3, q - 2))
             /\ << q, q + 2 >> \in Bigrams => << q, q + 2 >> \in RestUnits' \/ NarrowIn(q - 2, q)
  <2>1. CASE q < begin
    <3>1. q \in 0 .. begin - 1
      BY <1>1, <2>1
    <3>2. /\ IsRest(q) => In(q, DictUnits \cup RestUnits) \/ (IsPossibleChineseWord(q) /\ NarrowIn(q - 3, q - 2))
          /\ << q, q + 2 >> \in Bigrams => << q, q + 2 >> \in RestUnits \/ NarrowIn(q - 2, q)
      BY <3>1 DEF RestFor
    <3> QED
      BY <1>5, <3>2 DEF In
  <2>2. CASE ~(q < begin)
    <3>1. q \in begin .. p - 1
      BY <1>1, <1>3, <2>2
    <3>2. In(q, { u })
      BY <1>6, <3>1
    <3>3. ASSUME << q, q + 2 >> \in Bigrams PROVE NarrowIn(q - 2, q)
      <4>1. /\ q \in 0 .. n - 2 /\ IsPossibleChineseWord(q)
            /\ IsPossibleChineseWord(q + 1) /\ ~In(q + 1, DictUnits)
        BY <1>1, <3>3, BigramIs
      <4>2. q + 1 # p
        <5> SUFFICES ASSUME q + 1 = p PROVE FALSE
          OBVIOUS
        <5>1. p # SegEnd
          <6>1. q + 1 < n
            BY <1>1, <4>1
          <6> QED
            BY <1>1, <4>1, <6>1
        <5>2. EndsBefore(begin, p) /\ IsPossibleChineseWord(p)
          BY <1>1, <1>3, <4>1, <5>1
        <5>3. ~IsPossibleChineseWord(p - 1)
          BY <5>2, EndsBeforeIs
        <5>4. p - 1 = q
          BY <1>1, <3>1
        <5> QED
          BY <4>1, <5>3, <5>4
      <4>3. q + 1 \in begin + 1 .. p - 1
        BY <1>1, <1>3, <3>1, <4>2
      <4>4. NarrowIn(begin, begin) /\ q + 1 <= begin + 2
        BY <1>9, <4>1, <4>3
      <4>5. q - 2 <= begin /\ begin <= q /\ q - 2 \in Int /\ q \in Int /\ begin \in Int
        BY <1>1, <1>3, <3>1, <4>4
      <4> QED
        BY <4>4, <4>5, NarrowWider
    <3> QED
      BY <1>5, <3>2, <3>3 DEF In
  <2> QED
    BY <2>1, <2>2
<1> QED
  BY <1>3, <1>7, <1>8 DEF RestFor

LEMMA DropCharRest ==
  ASSUME WordsOK, DropChar, RestFor(RestUnits, begin)
  PROVE  RestFor(RestUnits', begin')
<1>0. InGap /\ phase = "rest" /\ Stop(begin) = begin
  BY DEF DropChar, InGap
<1>1. n \in Nat /\ SegEnd \in Nat /\ begin \in Nat /\ begin < SegEnd
  BY <1>0, GapIs DEF InGap
<1>2. EndsBefore(begin, begin)
  <2>1. ~PairedAt(begin, begin)
    BY <1>0, <1>1, PairIs
  <2> QED
    BY <1>0, <1>1, <2>1, StopIs
<1>3. ~IsRest(begin)
  BY <1>1, <1>2, EndsBeforeIs DEF IsRest
<1>4. RestUnits' = RestUnits /\ begin' = begin + 1
  BY DEF DropChar, RestUnits
<1>5. ASSUME NEW q \in 0 .. begin
      PROVE  /\ IsRest(q) => In(q, DictUnits \cup RestUnits) \/ (IsPossibleChineseWord(q) /\ NarrowIn(q - 3, q - 2))
             /\ << q, q + 2 >> \in Bigrams => << q, q + 2 >> \in RestUnits \/ NarrowIn(q - 2, q)
  <2>1. CASE q = begin
    <3>1. << q, q + 2 >> \notin Bigrams
      BY <1>1, <1>3, <2>1, BigramIs DEF IsRest
    <3> QED
      BY <1>3, <2>1, <3>1
  <2>2. CASE q # begin
    <3>1. q \in 0 .. begin - 1
      BY <1>1, <2>2
    <3> QED
      BY <3>1 DEF RestFor
  <2> QED
    BY <2>1, <2>2
<1>6. RestFor(RestUnits', begin + 1)
  <2>1. 0 .. (begin + 1) - 1 = 0 .. begin
    BY <1>1
  <2> QED
    BY <1>4, <1>5, <2>1 DEF RestFor
<1> QED
  BY <1>4, <1>6, Zenon

LEMMA NextGapRest ==
  ASSUME WordsOK, NextGap, RestFor(RestUnits, begin)
  PROVE  RestFor(RestUnits', begin')
<1>1. /\ begin = SegEnd /\ begin' = segs[gap + 1][2] /\ begin' \in begin .. n
      /\ gap + 1 \in 1 .. dicSegNum /\ segs[gap + 1][1] = SegEnd
  BY NextGapStep
<1>2. n \in Nat /\ begin \in Nat
  BY GapIs DEF NextGap
<1>3. RestUnits' = RestUnits
  BY DEF NextGap, RestUnits, parseVars
<1>4. PICK e : e = begin'
  OBVIOUS
<1>5. ASSUME NEW q \in 0 .. e - 1
      PROVE  /\ IsRest(q) => In(q, DictUnits \cup RestUnits) \/ (IsPossibleChineseWord(q) /\ NarrowIn(q - 3, q - 2))
             /\ << q, q + 2 >> \in Bigrams => << q, q + 2 >> \in RestUnits \/ NarrowIn(q - 2, q)
  <2>1. CASE q < begin
    <3>1. q \in 0 .. begin - 1
      BY <1>2, <2>1
    <3> QED
      BY <3>1 DEF RestFor
  <2>2. CASE ~(q < begin)
    <3>1. e \in begin .. n
      BY <1>1, <1>4
    <3>2. q \in begin .. e - 1
      BY <1>2, <2>2, <3>1
    <3>3. In(q, DictUnits)
      BY <1>1, <1>4, <3>2 DEF In, DictUnits
    <3>4. << q, q + 2 >> \notin Bigrams
      BY <1>2, <3>3, BigramIs
    <3> QED
      BY <3>3, <3>4 DEF In
  <2> QED
    BY <2>1, <2>2
<1>6. RestFor(RestUnits', e)
  BY <1>3, <1>5 DEF RestFor
<1> QED
  BY <1>4, <1>6, Zenon

LEMMA NextRest == WordsOK /\ RestOK /\ [PrefixNext]_allVars => RestOK'
<1> SUFFICES ASSUME WordsOK, RestOK, [PrefixNext]_allVars PROVE RestOK'
  OBVIOUS
<1>1. CASE Dictionary \/ StartPrefix \/ FindWord \/ FindNoWord
  <2>1. phase' \notin { "rest", "found" }
    BY <1>1, DictionaryIs DEF StartPrefix, FindWord, FindNoWord
  <2> QED
    BY <2>1 DEF RestOK
<1>2. CASE EndWords
  <2>1. /\ phase' = "rest" /\ begin' = 0 /\ dicSegNum = Len(segs) /\ Len(segs) \in Nat
        /\ UNCHANGED << segs, dicSegNum >>
    BY <1>2 DEF EndWords, WordsOK
  <2>2. RestUnits' = {}
    BY <2>1 DEF RestUnits
  <2> QED
    BY <2>1, <2>2 DEF RestOK, RestFor
<1>3. CASE TakePair \/ TakeRun \/ DropChar
  <2>1. phase = "rest" /\ UNCHANGED << text, dict, phase >> /\ DictUnits' = DictUnits
    BY <1>3, RestStep, RestWordsStep DEF TakePair, TakeRun, DropChar, InGap
  <2>2. RestFor(RestUnits', begin')
    BY <1>3, <2>1, TakePairRest, TakeRunRest, DropCharRest DEF RestOK
  <2>3. \A units, upTo : RestFor(units, upTo)' <=> RestFor(units, upTo)
    BY <2>1, RestForKept
  <2> QED
    BY <2>1, <2>2, <2>3, Zenon DEF RestOK
<1>4. CASE NextGap
  <2>1. phase = "rest" /\ UNCHANGED << text, dict, phase >> /\ DictUnits' = DictUnits
    BY <1>4, NextGapStep DEF NextGap, parseVars
  <2>2. RestFor(RestUnits', begin')
    BY <1>4, <2>1, NextGapRest DEF RestOK
  <2>3. \A units, upTo : RestFor(units, upTo)' <=> RestFor(units, upTo)
    BY <2>1, RestForKept
  <2> QED
    BY <2>1, <2>2, <2>3, Zenon DEF RestOK
<1>5. CASE EndPrefix
  <2>1. phase = "rest" /\ begin = n /\ phase' = "found" /\ UNCHANGED << text, dict, segs, dicSegNum >>
    BY <1>5, EndPrefixStep DEF EndPrefix, parseVars, prefixVars
  <2>2. RestFor(RestUnits, n) /\ RestUnits' = RestUnits /\ DictUnits' = DictUnits /\ n' = n
    BY <2>1 DEF RestOK, RestUnits, DictUnits, n
  <2>3. \A units, upTo : RestFor(units, upTo)' <=> RestFor(units, upTo)
    BY <2>1, <2>2, RestForKept
  <2>4. RestFor(RestUnits', n')
    BY <2>2
  <2> QED
    BY <2>1, <2>3, <2>4, Zenon DEF RestOK
<1>6. CASE UNCHANGED allVars
  <2>1. UNCHANGED << text, dict, phase, begin, segs, dicSegNum >>
    BY <1>6 DEF allVars, vars, prefixVars
  <2>2. RestUnits' = RestUnits /\ DictUnits' = DictUnits /\ n' = n
    BY <2>1 DEF RestUnits, DictUnits, n
  <2>3. \A units, upTo : RestFor(units, upTo)' <=> RestFor(units, upTo)
    BY <2>1, <2>2, RestForKept
  <2>4. CASE phase = "rest"
    <3>1. RestFor(RestUnits', begin')
      BY <2>1, <2>2, <2>4 DEF RestOK
    <3> QED
      BY <2>1, <2>3, <2>4, <3>1, Zenon DEF RestOK
  <2>5. CASE phase = "found"
    <3>1. RestFor(RestUnits', n')
      BY <2>1, <2>2, <2>5 DEF RestOK
    <3> QED
      BY <2>1, <2>3, <2>5, <3>1, Zenon DEF RestOK
  <2>6. CASE phase \notin { "rest", "found" }
    BY <2>1, <2>6 DEF RestOK
  <2> QED
    BY <2>4, <2>5, <2>6
<1> QED
  BY <1>1, <1>2, <1>3, <1>4, <1>5, <1>6 DEF PrefixNext

LEMMA AlwaysRest == PrefixSpec => []RestOK
<1>1. PrefixInit => RestOK
  BY DEF PrefixInit, Init, RestOK
<1>2. WordsOK /\ RestOK /\ [PrefixNext]_allVars => RestOK'
  BY NextRest
<1> QED
  BY <1>1, <1>2, AlwaysWords, PTL DEF PrefixSpec

(***************************************************************************)
(* The second result has nothing of the first one and no space, all digits *)
(* and letters that are left, and all Chinese characters but one behind a  *)
(* pair whose first character has less than three bytes.                   *)
(***************************************************************************)
THEOREM AlwaysRestIsRest == PrefixSpec => []RestIsRest
<1>1. WordsOK /\ RestOK => RestIsRest
  <2> SUFFICES ASSUME WordsOK, RestOK, PrefixDone PROVE RestIsRest
    BY DEF RestIsRest
  <2>1. RestFor(RestUnits, n)
    BY DEF RestOK, PrefixDone
  <2>2. ASSUME NEW p \in 0 .. n - 1, In(p, RestUnits)
        PROVE  ~In(p, DictUnits) /\ Type(p) # "SPACE"
    BY <2>1, <2>2 DEF RestFor, In
  <2>3. ASSUME NEW p \in 0 .. n - 1, IsRest(p)
        PROVE  In(p, DictUnits \cup RestUnits) \/ (IsPossibleChineseWord(p) /\ NarrowIn(p - 3, p - 2))
    BY <2>1, <2>3 DEF RestFor
  <2>4. \A p : Type(p) \in { "DIGIT", "LETTER" } => IsRest(p) /\ ~IsPossibleChineseWord(p)
    BY DEF IsRest, IsPossibleChineseWord
  <2>5. \A p : IsPossibleChineseWord(p) => IsRest(p)
    BY DEF IsRest
  <2> QED
    BY <2>2, <2>3, <2>4, <2>5 DEF RestIsRest
<1> QED
  BY <1>1, AlwaysWords, AlwaysRest, PTL

LEMMA AtMostOne ==
  ASSUME NEW S, NEW x, S \subseteq { x }
  PROVE  Cardinality(S) <= 1
<1>1. S = {} \/ S = { x }
  OBVIOUS
<1>2. Cardinality({}) = 0
  BY FS_EmptySet
<1>3. Cardinality({ x }) = 1
  BY FS_Singleton
<1> QED
  BY <1>1, <1>2, <1>3

(***************************************************************************)
(* "Chinese to bigram": all neighbours outside the dictionary words are    *)
(* pairs, and no other unit has two Chinese characters, but where one of   *)
(* less than three bytes comes before the second one.                      *)
(***************************************************************************)
THEOREM AlwaysBigrams == PrefixSpec => []ChineseToBigram
<1>1. WordsOK /\ RestOK => ChineseToBigram
  <2> SUFFICES ASSUME WordsOK, RestOK, PrefixDone PROVE ChineseToBigram
    BY DEF ChineseToBigram
  <2>1. RestFor(RestUnits, n) /\ n \in Nat
    BY TextIs DEF RestOK, PrefixDone, WordsOK
  <2>2. ASSUME NEW p \in 0 .. n - 2, << p, p + 2 >> \in Bigrams \ RestUnits
        PROVE  NarrowIn(p - 2, p)
    <3>1. p \in 0 .. n - 1
      BY <2>1
    <3> QED
      BY <2>1, <2>2, <3>1 DEF RestFor
  <2>3. ASSUME NEW u \in RestUnits \ Bigrams, ~NarrowIn(u[1], u[1])
        PROVE  Cardinality({ p \in u[1] .. u[2] - 1 : IsPossibleChineseWord(p) }) <= 1
    <3> DEFINE S == { p \in u[1] .. u[2] - 1 : IsPossibleChineseWord(p) }
    <3>1. u[1] \in Nat /\ u[2] \in Nat
      <4>1. u \in Unit
        BY DEF RestUnits, WordsOK
      <4> QED
        BY <4>1 DEF Unit
    <3>2. \A p \in u[1] + 1 .. u[2] - 1 : ~IsPossibleChineseWord(p)
      BY <2>1, <2>3 DEF RestFor
    <3>3. S \subseteq { u[1] }
      BY <3>1, <3>2
    <3> HIDE DEF S
    <3>4. Cardinality(S) <= 1
      BY <3>3, AtMostOne
    <3> QED
      BY <3>4 DEF S
  <2> QED
    BY <2>2, <2>3 DEF ChineseToBigram
<1> QED
  BY <1>1, AlwaysWords, AlwaysRest, PTL
-----------------------------------------------------------------------------
(***************************************************************************)
(* The dictionary approach.  A list of units for the text from b to m is   *)
(* spread when the units begin there, in order, none given twice, and end  *)
(* by e; it covers the text when no character is missing.                  *)
(***************************************************************************)
Spread(s, b, m, e) ==
  /\ s \in Seq(Unit)
  /\ \A k \in 1 .. Len(s) : b <= s[k][1] /\ s[k][1] < m /\ s[k][1] < s[k][2] /\ s[k][2] <= e
  /\ \A j, k \in 1 .. Len(s) : j < k => s[j][1] <= s[k][1] /\ s[j] # s[k]

Covers(s, b, e) == \A p \in b .. e - 1 : \E k \in 1 .. Len(s) : p \in s[k][1] .. s[k][2] - 1

LEMMA Concat ==
  ASSUME NEW s \in Seq(Unit), NEW t \in Seq(Unit)
  PROVE  /\ s \o t \in Seq(Unit) /\ Len(s) \in Nat /\ Len(t) \in Nat /\ Len(s \o t) = Len(s) + Len(t)
         /\ \A k \in 1 .. Len(s) : k \in 1 .. Len(s \o t) /\ (s \o t)[k] = s[k]
         /\ \A k \in 1 .. Len(t) : Len(s) + k \in 1 .. Len(s \o t) /\ (s \o t)[Len(s) + k] = t[k]
         /\ \A k \in 1 .. Len(s \o t) : k \in 1 .. Len(s) \/ k - Len(s) \in 1 .. Len(t)
<1>1. s \o t \in Seq(Unit) /\ Len(s) \in Nat /\ Len(t) \in Nat /\ Len(s \o t) = Len(s) + Len(t)
  OBVIOUS
<1>2. \A k \in 1 .. Len(s) : (s \o t)[k] = s[k]
  OBVIOUS
<1>3. \A k \in 1 .. Len(t) : (s \o t)[Len(s) + k] = t[k]
  OBVIOUS
<1> QED
  BY <1>1, <1>2, <1>3

(* Units that end by d end by e. *)
LEMMA Widen ==
  ASSUME NEW s, NEW b \in Nat, NEW m \in Nat, NEW d \in Nat, NEW e \in Nat, d <= e, Spread(s, b, m, d)
  PROVE  Spread(s, b, m, e)
<1>1. \A k \in 1 .. Len(s) : s[k][2] \in Nat
  BY DEF Spread, Unit
<1> QED
  BY <1>1 DEF Spread

(* One list after another. *)
LEMMA SpreadConcat ==
  ASSUME NEW b \in Nat, NEW m \in Nat, NEW h \in Nat, b <= m, m <= h, NEW e \in Nat, NEW s, NEW t,
         Spread(s, b, m, e), Spread(t, m, h, e)
  PROVE  Spread(s \o t, b, h, e)
<1> PICK u : u = s \o t
  OBVIOUS
<1>1. s \in Seq(Unit) /\ t \in Seq(Unit)
  BY DEF Spread
<1>2. PICK l \in Nat, r \in Nat : l = Len(s) /\ r = Len(t)
  BY <1>1, Concat
<1>3. /\ u \in Seq(Unit) /\ Len(u) = l + r
      /\ \A k \in 1 .. l : u[k] = s[k]
      /\ \A k \in 1 .. r : u[l + k] = t[k]
  BY <1>1, <1>2, Concat
<1>4. \A k \in 1 .. l : /\ s[k] \in Unit /\ s[k][1] \in Nat /\ s[k][2] \in Nat
                        /\ b <= s[k][1] /\ s[k][1] < m /\ s[k][1] < s[k][2] /\ s[k][2] <= e
  BY <1>1, <1>2 DEF Spread, Unit
<1>5. \A k \in 1 .. r : /\ t[k] \in Unit /\ t[k][1] \in Nat /\ t[k][2] \in Nat
                        /\ m <= t[k][1] /\ t[k][1] < h /\ t[k][1] < t[k][2] /\ t[k][2] <= e
  BY <1>1, <1>2 DEF Spread, Unit
<1>6. ASSUME NEW k \in 1 .. l + r
      PROVE  k \in 1 .. l \/ (k - l \in 1 .. r /\ u[k] = t[k - l])
  <2>1. (k - l \in 1 .. r /\ k = l + (k - l)) \/ k \in 1 .. l
    BY <1>2, <1>6
  <2> QED
    BY <1>3, <2>1
<1>7. ASSUME NEW k \in 1 .. Len(u)
      PROVE  b <= u[k][1] /\ u[k][1] < h /\ u[k][1] < u[k][2] /\ u[k][2] <= e
  <2> PICK x : x = u[k]
    OBVIOUS
  <2>1. CASE k \in 1 .. l
    <3>1. x = s[k]
      BY <1>3, <2>1
    <3>2. b <= s[k][1] /\ s[k][1] < m /\ s[k][1] < s[k][2] /\ s[k][2] <= e /\ s[k][1] \in Nat
      BY <1>4, <2>1
    <3>3. b <= x[1] /\ x[1] < m /\ x[1] < x[2] /\ x[2] <= e /\ x[1] \in Nat
      BY <3>1, <3>2
    <3>4. x[1] < h
      BY <3>3
    <3> QED
      BY <3>3, <3>4
  <2>2. CASE k - l \in 1 .. r /\ u[k] = t[k - l]
    <3> PICK i : i = k - l
      OBVIOUS
    <3>1. i \in 1 .. r /\ x = t[i]
      BY <2>2
    <3>2. m <= t[i][1] /\ t[i][1] < h /\ t[i][1] < t[i][2] /\ t[i][2] <= e /\ t[i][1] \in Nat
      BY <1>5, <3>1
    <3>3. m <= x[1] /\ x[1] < h /\ x[1] < x[2] /\ x[2] <= e /\ x[1] \in Nat
      BY <3>1, <3>2
    <3>4. b <= x[1]
      BY <3>3
    <3> QED
      BY <3>3, <3>4
  <2> QED
    BY <1>3, <1>6, <2>1, <2>2
<1>8. ASSUME NEW j \in 1 .. Len(u), NEW k \in 1 .. Len(u), j < k PROVE u[j][1] <= u[k][1] /\ u[j] # u[k]
  <2>0. k \in 1 .. l + r /\ j \in 1 .. l + r /\ j \in Int /\ k \in Int
    BY <1>3
  <2>1. CASE k \in 1 .. l
    <3>1. j \in 1 .. l
      BY <1>8, <2>0, <2>1
    <3>2. s[j][1] <= s[k][1] /\ s[j] # s[k]
      BY <1>2, <1>8, <2>1, <3>1 DEF Spread
    <3> QED
      BY <1>3, <2>1, <3>1, <3>2
  <2>2. CASE k - l \in 1 .. r /\ u[k] = t[k - l]
    <3>1. CASE j \in 1 .. l
      <4>1. s[j][1] \in Nat /\ s[j][1] < m
        BY <1>4, <3>1
      <4>2. t[k - l][1] \in Nat /\ m <= t[k - l][1]
        BY <1>5, <2>2
      <4>3. u[j] = s[j] /\ u[k] = t[k - l]
        BY <1>3, <2>2, <3>1
      <4> PICK x, y : x = s[j] /\ y = t[k - l]
        OBVIOUS
      <4>4. x[1] < y[1] /\ x[1] \in Nat /\ y[1] \in Nat
        BY <4>1, <4>2
      <4>5. x[1] <= y[1] /\ x # y
        BY <4>4
      <4> QED
        BY <4>3, <4>5
    <3>2. CASE j - l \in 1 .. r /\ u[j] = t[j - l]
      <4>1. j - l < k - l
        BY <1>2, <1>8, <2>0
      <4>2. t[j - l][1] <= t[k - l][1] /\ t[j - l] # t[k - l]
        BY <1>2, <2>2, <3>2, <4>1 DEF Spread
      <4> QED
        BY <2>2, <3>2, <4>2
    <3> QED
      BY <1>6, <2>0, <3>1, <3>2
  <2> QED
    BY <1>6, <2>0, <2>1, <2>2
<1> QED
  BY <1>3, <1>7, <1>8 DEF Spread

LEMMA CoversConcat ==
  ASSUME NEW b \in Nat, NEW m \in Nat, NEW e \in Nat, NEW s \in Seq(Unit), NEW t \in Seq(Unit),
         Covers(s, b, m), Covers(t, m, e)
  PROVE  Covers(s \o t, b, e)
<1> SUFFICES ASSUME NEW p \in b .. e - 1
             PROVE  \E k \in 1 .. Len(s \o t) : p \in (s \o t)[k][1] .. (s \o t)[k][2] - 1
  BY DEF Covers
<1>1. CASE p < m
  <2>1. p \in b .. m - 1
    BY <1>1
  <2>2. PICK k \in 1 .. Len(s) : p \in s[k][1] .. s[k][2] - 1
    BY <2>1 DEF Covers
  <2>3. k \in 1 .. Len(s \o t) /\ (s \o t)[k] = s[k]
    BY Concat
  <2> QED
    BY <2>2, <2>3, Zenon
<1>2. CASE ~(p < m)
  <2>1. p \in m .. e - 1
    BY <1>2
  <2>2. PICK k \in 1 .. Len(t) : p \in t[k][1] .. t[k][2] - 1
    BY <2>1 DEF Covers
  <2>3. Len(s) + k \in 1 .. Len(s \o t) /\ (s \o t)[Len(s) + k] = t[k]
    BY Concat
  <2> QED
    BY <2>2, <2>3, Zenon
<1> QED
  BY <1>1, <1>2

(* The recursion of Pieces has a solution. *)
AreFrom(f, b, e, piece, end) == f = [p \in b .. e |-> IF p = e THEN << >> ELSE piece[p] \o f[end[p]]]

LEMMA PiecesExist ==
  ASSUME NEW b \in Nat, NEW e \in Nat, b <= e, NEW piece, NEW end,
         \A p \in b .. e - 1 : end[p] \in p + 1 .. e
  PROVE  \E f : AreFrom(f, b, e, piece, end)
<1> DEFINE Value(f, p) == IF p = e THEN << >> ELSE piece[p] \o f[end[p]]
           Solves(f, d) == f = [p \in e - d .. e |-> Value(f, p)]
           Bad == { d \in 0 .. e - b : ~\E f : Solves(f, d) }
<1>1. ASSUME Bad # {} PROVE FALSE
  <2>0. PICK d : d = Min(Bad)
    OBVIOUS
  <2>1. d \in Bad /\ \A l \in Bad : d <= l
    <3>1. Bad \in SUBSET Nat
      <4> HIDE DEF Solves
      <4> QED
        OBVIOUS
    <3> HIDE DEF Bad
    <3> QED
      BY <1>1, <2>0, <3>1, LeastElement
  <2>2. d \in 0 .. e - b /\ d \in Nat /\ ~\E f : Solves(f, d)
    <3> HIDE DEF Solves
    <3> QED
      BY <2>1
  <2>3. d # 0
    <3> DEFINE g == [p \in e - 0 .. e |-> << >>]
    <3>1. \A p \in e - 0 .. e : Value(g, p) = << >>
      OBVIOUS
    <3>2. Solves(g, 0)
      <4> HIDE DEF Value
      <4> QED
        BY <3>1
    <3> QED
      BY <2>2, <3>2
  <2>4. d - 1 \in 0 .. e - b /\ d - 1 \in Nat /\ d - 1 \notin Bad
    <3>1. d - 1 \in 0 .. e - b /\ d - 1 \in Nat /\ ~(d <= d - 1)
      BY <2>2, <2>3
    <3> HIDE DEF Bad
    <3> QED
      BY <2>1, <3>1
  <2>5. PICK f : Solves(f, d - 1)
    BY <2>4
  <2> DEFINE g == [p \in e - d .. e |-> Value(f, p)]
  <2>6. ASSUME NEW p \in e - (d - 1) .. e PROVE g[p] = f[p]
    <3>1. p \in e - d .. e
      BY <2>2, <2>4
    <3>2. f[p] = Value(f, p)
      <4> HIDE DEF Value
      <4> QED
        BY <2>5
    <3>3. g[p] = Value(f, p)
      <4> HIDE DEF Value
      <4> QED
        BY <3>1
    <3> QED
      BY <3>2, <3>3
  <2>7. ASSUME NEW p \in e - d .. e PROVE Value(g, p) = Value(f, p)
    <3>1. CASE p = e
      BY <3>1
    <3>2. CASE p # e
      <4>1. p \in b .. e - 1 /\ p \in Int
        BY <2>2, <3>2
      <4>2. end[p] \in p + 1 .. e
        BY <4>1
      <4>3. end[p] \in e - (d - 1) .. e
        BY <2>2, <4>1, <4>2
      <4>4. g[end[p]] = f[end[p]]
        BY <2>6, <4>3
      <4> HIDE DEF g
      <4> QED
        BY <4>4
    <3> QED
      BY <3>1, <3>2
  <2>8. Solves(g, d)
    <3> HIDE DEF Value
    <3> QED
      BY <2>7
  <2> QED
    BY <2>2, <2>8
<1>2. e - b \in 0 .. e - b /\ e - (e - b) = b
  OBVIOUS
<1>3. PICK f : Solves(f, e - b)
  BY <1>1, <1>2
<1>4. AreFrom(f, b, e, piece, end)
  BY <1>2, <1>3 DEF AreFrom
<1> QED
  BY <1>4

(* What is true of each piece and of two lists put together is true of all *)
(* pieces: R is the set of those lists, with the text they are for.        *)
LEMMA PiecesIn ==
  ASSUME NEW b \in Nat, NEW e \in Nat, b <= e, NEW piece, NEW end,
         \A p \in b .. e - 1 : end[p] \in p + 1 .. e,
         NEW R, << << >>, e, e >> \in R,
         \A p \in b .. e - 1 : << piece[p], p, end[p] >> \in R,
         \A p \in b .. e, m \in b .. e : \A s, t :
           p <= m /\ << s, p, m >> \in R /\ << t, m, e >> \in R => << s \o t, p, e >> \in R
  PROVE  << Pieces(b, e, piece, end), b, e >> \in R
<1> DEFINE Value(f, p) == IF p = e THEN << >> ELSE piece[p] \o f[end[p]]
           from == CHOOSE f : AreFrom(f, b, e, piece, end)
           Bad == { d \in 0 .. e - b : << from[e - d], e - d, e >> \notin R }
<1>1. AreFrom(from, b, e, piece, end)
  BY PiecesExist
<1>2. Pieces(b, e, piece, end) = from[b]
  BY DEF Pieces, AreFrom
<1> HIDE DEF from
<1>3. ASSUME NEW p \in b .. e PROVE from[p] = Value(from, p)
  BY <1>1, <1>3 DEF AreFrom
<1>4. ASSUME Bad # {} PROVE FALSE
  <2>0. PICK d : d = Min(Bad)
    OBVIOUS
  <2>1. d \in Bad /\ \A l \in Bad : d <= l
    <3>1. Bad \in SUBSET Nat
      OBVIOUS
    <3> HIDE DEF Bad
    <3> QED
      BY <1>4, <2>0, <3>1, LeastElement
  <2>2. PICK p : p = e - d
    OBVIOUS
  <2>3. d \in 0 .. e - b /\ p \in b .. e /\ p \in Int /\ << from[p], p, e >> \notin R
    BY <2>1, <2>2
  <2>4. CASE p = e
    BY <1>3, <2>3, <2>4
  <2>5. CASE p # e
    <3>1. p \in b .. e - 1
      BY <2>3, <2>5
    <3>2. PICK m : m = end[p]
      OBVIOUS
    <3>3. m \in p + 1 .. e /\ << piece[p], p, m >> \in R
      BY <3>1, <3>2
    <3>4. m \in b .. e /\ p <= m /\ e - m \in 0 .. e - b /\ ~(d <= e - m) /\ e - (e - m) = m
      BY <2>2, <2>3, <3>3
    <3>5. << from[m], m, e >> \in R
      BY <2>1, <3>4
    <3>6. << piece[p] \o from[m], p, e >> \in R
      BY <2>3, <3>3, <3>4, <3>5
    <3>7. from[p] = piece[p] \o from[m]
      BY <1>3, <2>3, <2>5, <3>2
    <3> QED
      BY <2>3, <3>6, <3>7
  <2> QED
    BY <2>4, <2>5
<1>5. e - b \in 0 .. e - b /\ e - (e - b) = b
  OBVIOUS
<1> QED
  BY <1>2, <1>4, <1>5

(* Spread pieces, and pieces that cover what they are for. *)
LEMMA PiecesSpread ==
  ASSUME NEW b \in Nat, NEW e \in Nat, b <= e, NEW h \in Nat, NEW piece, NEW end,
         \A p \in b .. e - 1 : end[p] \in p + 1 .. e /\ Spread(piece[p], p, end[p], h)
  PROVE  /\ Spread(Pieces(b, e, piece, end), b, e, h)
         /\ (\A p \in b .. e - 1 : Covers(piece[p], p, end[p])) => Covers(Pieces(b, e, piece, end), b, e)
<1> DEFINE R == { x \in Seq(Unit) \X Nat \X Nat : Spread(x[1], x[2], x[3], h) }
           C == { x \in R : Covers(x[1], x[2], x[3]) }
<1>1. \A s, x, y : << s, x, y >> \in R <=> x \in Nat /\ y \in Nat /\ Spread(s, x, y, h)
  BY DEF Spread
<1>2. \A s, x, y : << s, x, y >> \in C <=> << s, x, y >> \in R /\ Covers(s, x, y)
  OBVIOUS
<1>3. << << >>, e, e >> \in R /\ << << >>, e, e >> \in C
  <2>1. Spread(<< >>, e, e, h) /\ Covers(<< >>, e, e)
    <3>1. << >> \in Seq(Unit) /\ 1 .. Len(<< >>) = {} /\ e .. e - 1 = {}
      OBVIOUS
    <3> QED
      BY <3>1 DEF Spread, Covers
  <2> HIDE DEF R, C
  <2> QED
    BY <1>1, <1>2, <2>1
<1> HIDE DEF R, C
<1>4. ASSUME NEW p \in b .. e, NEW m \in b .. e, NEW s, NEW t, p <= m,
             << s, p, m >> \in R, << t, m, e >> \in R
      PROVE  << s \o t, p, e >> \in R
  <2>1. p \in Nat /\ m \in Nat /\ m <= e /\ Spread(s, p, m, h) /\ Spread(t, m, e, h)
    BY <1>1, <1>4
  <2>2. Spread(s \o t, p, e, h)
    BY <1>4, <2>1, SpreadConcat
  <2> QED
    BY <1>1, <2>1, <2>2
<1>5. ASSUME NEW p \in b .. e, NEW m \in b .. e, NEW s, NEW t, p <= m,
             << s, p, m >> \in C, << t, m, e >> \in C
      PROVE  << s \o t, p, e >> \in C
  <2>1. /\ p \in Nat /\ m \in Nat /\ m <= e /\ s \in Seq(Unit) /\ t \in Seq(Unit)
        /\ << s, p, m >> \in R /\ << t, m, e >> \in R /\ Covers(s, p, m) /\ Covers(t, m, e)
    BY <1>1, <1>2, <1>5 DEF Spread
  <2>2. << s \o t, p, e >> \in R
    BY <1>4, <1>5, <2>1
  <2>3. Covers(s \o t, p, e)
    BY <2>1, CoversConcat
  <2> QED
    BY <1>2, <2>2, <2>3
<1>6. \A p \in b .. e - 1 : p \in Nat /\ end[p] \in p + 1 .. e /\ end[p] \in Nat /\ << piece[p], p, end[p] >> \in R
  <2> SUFFICES ASSUME NEW p \in b .. e - 1
               PROVE  p \in Nat /\ end[p] \in p + 1 .. e /\ end[p] \in Nat /\ << piece[p], p, end[p] >> \in R
    OBVIOUS
  <2>1. p \in Nat /\ end[p] \in p + 1 .. e /\ Spread(piece[p], p, end[p], h)
    OBVIOUS
  <2>2. end[p] \in Nat
    BY <2>1
  <2> QED
    BY <1>1, <2>1, <2>2
<1>7. Spread(Pieces(b, e, piece, end), b, e, h)
  <2>1. << Pieces(b, e, piece, end), b, e >> \in R
    BY <1>3, <1>4, <1>6, PiecesIn
  <2> QED
    BY <1>1, <2>1
<1>8. ASSUME \A p \in b .. e - 1 : Covers(piece[p], p, end[p])
      PROVE  Covers(Pieces(b, e, piece, end), b, e)
  <2>1. \A p \in b .. e - 1 : << piece[p], p, end[p] >> \in C
    BY <1>2, <1>6, <1>8
  <2>2. << Pieces(b, e, piece, end), b, e >> \in C
    BY <1>3, <1>5, <1>6, <2>1, PiecesIn
  <2> QED
    BY <1>2, <2>2
<1> QED
  BY <1>7, <1>8

(* Pieces that are lists of certain units. *)
LEMMA PiecesOf ==
  ASSUME NEW b \in Nat, NEW e \in Nat, b <= e, NEW piece, NEW end, NEW V \in SUBSET Unit,
         \A p \in b .. e - 1 : end[p] \in p + 1 .. e /\ piece[p] \in Seq(V)
  PROVE  Pieces(b, e, piece, end) \in Seq(V)
<1>0. << >> \in Seq(V) /\ \A s \in Seq(V), t \in Seq(V) : s \o t \in Seq(V)
  OBVIOUS
<1> PICK S : S = Seq(V)
  OBVIOUS
<1>1. << << >>, e, e >> \in S \X Nat \X Nat
  BY <1>0
<1>2. \A p \in b .. e - 1 : end[p] \in p + 1 .. e /\ << piece[p], p, end[p] >> \in S \X Nat \X Nat
  OBVIOUS
<1>3. \A p \in b .. e, m \in b .. e : \A s, t :
        p <= m /\ << s, p, m >> \in S \X Nat \X Nat /\ << t, m, e >> \in S \X Nat \X Nat
          => << s \o t, p, e >> \in S \X Nat \X Nat
  BY <1>0
<1>4. Pieces(b, e, piece, end) \in S
  <2>1. << Pieces(b, e, piece, end), b, e >> \in S \X Nat \X Nat
    <3> DEFINE T == S \X Nat \X Nat
    <3>1. /\ << << >>, e, e >> \in T
          /\ \A p \in b .. e - 1 : end[p] \in p + 1 .. e /\ << piece[p], p, end[p] >> \in T
          /\ \A p \in b .. e, m \in b .. e : \A s, t :
               p <= m /\ << s, p, m >> \in T /\ << t, m, e >> \in T => << s \o t, p, e >> \in T
      BY <1>1, <1>2, <1>3
    <3> HIDE DEF T
    <3>2. << Pieces(b, e, piece, end), b, e >> \in T
      BY <3>1, PiecesIn
    <3> QED
      BY <3>2 DEF T
  <2> QED
    BY <2>1
<1> QED
  BY <1>4

(* Short lists. *)
LEMMA NoUnit ==
  ASSUME NEW b, NEW m, NEW e
  PROVE  Spread(<< >>, b, m, e)
<1>1. << >> \in Seq(Unit) /\ 1 .. Len(<< >>) = {}
  OBVIOUS
<1> QED
  BY <1>1 DEF Spread

LEMMA OneUnit ==
  ASSUME NEW b \in Nat, NEW e \in Nat, b < e
  PROVE  Spread(<< << b, e >> >>, b, e, e) /\ Covers(<< << b, e >> >>, b, e)
<1> PICK s : s = << << b, e >> >>
  OBVIOUS
<1>1. s \in Seq(Unit) /\ Len(s) = 1 /\ s[1] = << b, e >> /\ 1 .. Len(s) = { 1 }
  BY DEF Unit
<1>2. Spread(s, b, e, e)
  BY <1>1 DEF Spread
<1>3. Covers(s, b, e)
  BY <1>1 DEF Covers
<1> QED
  BY <1>2, <1>3

LEMMA UnigramsAre ==
  ASSUME NEW b \in Nat, NEW e \in Nat, b <= e
  PROVE  /\ Spread(Unigrams(b, e), b, e, e) /\ Covers(Unigrams(b, e), b, e)
         /\ \A k \in 1 .. Len(Unigrams(b, e)) : Unigrams(b, e)[k][2] = Unigrams(b, e)[k][1] + 1
<1> PICK s : s = Unigrams(b, e)
  OBVIOUS
<1>1. e - b \in Nat /\ s = [k \in 1 .. e - b |-> << b + k - 1, b + k >>]
  BY DEF Unigrams
<1>2. \A k \in 1 .. e - b : << b + k - 1, b + k >> \in Unit
  BY DEF Unit
<1>3. s \in Seq(Unit) /\ Len(s) = e - b /\ \A k \in 1 .. e - b : s[k] = << b + k - 1, b + k >>
  <2> DEFINE u(k) == << b + k - 1, b + k >>
  <2>1. \A k \in 1 .. e - b : u(k) \in Unit
    BY <1>2
  <2>2. s = [k \in 1 .. e - b |-> u(k)]
    BY <1>1
  <2> HIDE DEF u
  <2>3. PICK m : m = e - b
    OBVIOUS
  <2>4. m \in Nat /\ s = [k \in 1 .. m |-> u(k)] /\ \A k \in 1 .. m : u(k) \in Unit
    BY <1>1, <2>1, <2>2, <2>3
  <2>5. s \in Seq(Unit) /\ Len(s) = m /\ \A k \in 1 .. m : s[k] = u(k)
    BY <2>4
  <2> QED
    BY <2>3, <2>5 DEF u
<1>4. \A k \in 1 .. e - b : s[k][1] = b + k - 1 /\ s[k][2] = b + k
  BY <1>3
<1>5. Spread(s, b, e, e)
  BY <1>3, <1>4 DEF Spread
<1>6. ASSUME NEW p \in b .. e - 1 PROVE \E k \in 1 .. Len(s) : p \in s[k][1] .. s[k][2] - 1
  <2>1. p - b + 1 \in 1 .. e - b /\ b + (p - b + 1) - 1 = p /\ b + (p - b + 1) = p + 1
    OBVIOUS
  <2>2. s[p - b + 1][1] = p /\ s[p - b + 1][2] = p + 1
    BY <1>4, <2>1
  <2>3. p \in s[p - b + 1][1] .. s[p - b + 1][2] - 1
    BY <2>2
  <2> QED
    BY <1>3, <2>1, <2>3
<1>7. Covers(s, b, e)
  BY <1>6 DEF Covers
<1>8. \A k \in 1 .. Len(s) : s[k][2] = s[k][1] + 1
  BY <1>3, <1>4
<1> QED
  BY <1>5, <1>7, <1>8

(* All of the text as one unit, and then others. *)
LEMMA WholeFirst ==
  ASSUME NEW b \in Nat, NEW e \in Nat, b < e, NEW s, Spread(s, b, e, e),
         \A k \in 1 .. Len(s) : s[k] # << b, e >>
  PROVE  Spread(<< << b, e >> >> \o s, b, e, e) /\ Covers(<< << b, e >> >> \o s, b, e)
<1> PICK w, u : w = << << b, e >> >> /\ u = w \o s
  OBVIOUS
<1>1. w \in Seq(Unit) /\ Len(w) = 1 /\ w[1] = << b, e >> /\ s \in Seq(Unit) /\ Len(s) \in Nat
  BY DEF Unit, Spread
<1>2. /\ u \in Seq(Unit) /\ Len(u) = 1 + Len(s) /\ u[1] = << b, e >>
      /\ \A k \in 1 .. Len(s) : u[1 + k] = s[k]
  <2>1. 1 \in 1 .. Len(w)
    BY <1>1
  <2>2. /\ w \o s \in Seq(Unit) /\ Len(w \o s) = Len(w) + Len(s) /\ (w \o s)[1] = w[1]
        /\ \A k \in 1 .. Len(s) : (w \o s)[Len(w) + k] = s[k]
    BY <1>1, <2>1, Concat
  <2> QED
    BY <1>1, <2>2
<1>3. ASSUME NEW k \in 1 .. Len(u) PROVE k = 1 \/ (k - 1 \in 1 .. Len(s) /\ u[k] = s[k - 1])
  <2>1. k = 1 \/ (k - 1 \in 1 .. Len(s) /\ 1 + (k - 1) = k)
    BY <1>1, <1>2
  <2> QED
    BY <1>2, <2>1
<1>4. \A k \in 1 .. Len(s) : /\ s[k][1] \in Nat /\ s[k][2] \in Nat
                             /\ b <= s[k][1] /\ s[k][1] < e /\ s[k][1] < s[k][2] /\ s[k][2] <= e
  BY <1>1 DEF Spread, Unit
<1>5. ASSUME NEW k \in 1 .. Len(u) PROVE b <= u[k][1] /\ u[k][1] < e /\ u[k][1] < u[k][2] /\ u[k][2] <= e
  <2>1. CASE k = 1
    BY <1>2, <2>1
  <2>2. CASE k - 1 \in 1 .. Len(s) /\ u[k] = s[k - 1]
    BY <1>4, <2>2
  <2> QED
    BY <1>3, <2>1, <2>2
<1>6. ASSUME NEW j \in 1 .. Len(u), NEW k \in 1 .. Len(u), j < k PROVE u[j][1] <= u[k][1] /\ u[j] # u[k]
  <2>1. k - 1 \in 1 .. Len(s) /\ u[k] = s[k - 1]
    BY <1>1, <1>2, <1>3, <1>6
  <2>2. CASE j = 1
    BY <1>2, <1>4, <2>1, <2>2
  <2>3. CASE j # 1
    <3>1. j - 1 \in 1 .. Len(s) /\ u[j] = s[j - 1] /\ j - 1 < k - 1
      BY <1>1, <1>2, <1>3, <1>6, <2>3
    <3>2. s[j - 1][1] <= s[k - 1][1] /\ s[j - 1] # s[k - 1]
      BY <2>1, <3>1 DEF Spread
    <3> QED
      BY <2>1, <3>1, <3>2
  <2> QED
    BY <2>2, <2>3
<1>7. Spread(u, b, e, e)
  BY <1>2, <1>5, <1>6 DEF Spread
<1>8. Covers(u, b, e)
  <2>1. 1 \in 1 .. Len(u) /\ \A p \in b .. e - 1 : p \in u[1][1] .. u[1][2] - 1
    BY <1>1, <1>2
  <2> QED
    BY <2>1 DEF Covers
<1> QED
  BY <1>7, <1>8

(* The word looked for at p ends before e, a cluster after its words, and  *)
(* a part after its first character.                                       *)
LEMMA DictLenIs ==
  ASSUME NEW p \in Nat, NEW e \in Nat, p < e
  PROVE  dictLen(p, e) \in Nat /\ 1 <= dictLen(p, e) /\ p + dictLen(p, e) <= e
<1>1. CASE WordEnds(p, e) = {}
  BY <1>1 DEF dictLen
<1>2. CASE WordEnds(p, e) # {}
  <2> PICK S : S = WordEnds(p, e)
    OBVIOUS
  <2>1. S \in SUBSET (p + 2 .. e)
    BY DEF WordEnds
  <2>2. S \in SUBSET (0 .. e) /\ S \in SUBSET Nat /\ S # {}
    BY <1>2, <2>1
  <2>3. Max(S) \in p + 2 .. e
    BY <2>1, <2>2, GreatestElement
  <2>4. Min(S) \in p + 2 .. e
    BY <2>1, <2>2, LeastElement
  <2>5. dictLen(p, e) = (IF analOption.isMaxMatch THEN Max(S) ELSE Min(S)) - p
    BY <1>2 DEF dictLen
  <2>6. PICK m \in p + 2 .. e : dictLen(p, e) = m - p
    BY <2>3, <2>4, <2>5
  <2> QED
    BY <2>6
<1> QED
  BY <1>1, <1>2

LEMMA ClusterEndIs ==
  ASSUME NEW p \in Nat, NEW e \in Nat, p < e
  PROVE  /\ ClusterEnd(p, e) \in p + 1 .. e
         /\ \A q \in p .. ClusterEnd(p, e) - 1 : q + dictLen(q, e) <= ClusterEnd(p, e)
<1> DEFINE S == { E \in p + 1 .. e : \A q \in p .. E - 1 : q + dictLen(q, e) <= E }
<1>1. e \in S
  BY DictLenIs
<1>2. S \in SUBSET Nat
  OBVIOUS
<1>3. Min(S) \in S
  <2> HIDE DEF S
  <2> QED
    BY <1>1, <1>2, LeastElement
<1> QED
  BY <1>3 DEF ClusterEnd

LEMMA SameTypeEndIs ==
  ASSUME NEW p \in Nat, NEW e \in Nat, p < e
  PROVE  SameTypeEnd(p, e) \in p + 1 .. e
<1> DEFINE S == { q \in p + 1 .. e : q = e \/ ExpandedType(q) # ExpandedType(p) }
<1>1. e \in S /\ S \in SUBSET Nat
  OBVIOUS
<1>2. Min(S) \in S
  <2> HIDE DEF S
  <2> QED
    BY <1>1, LeastElement
<1> QED
  BY <1>2 DEF SameTypeEnd

(* A run of CHAR_TYPE_OTHER. *)
LEMMA ChainIs ==
  ASSUME NEW b \in Nat, NEW E \in Nat, NEW e \in Nat, b <= E, E <= e,
         \A q \in b .. E - 1 : q + dictLen(q, e) <= E
  PROVE  Spread(Chain(b, E, e), b, E, E) /\ Covers(Chain(b, E, e), b, E)
<1> DEFINE piece == [q \in b .. E - 1 |-> << << q, q + dictLen(q, e) >> >>]
           end == [q \in b .. E - 1 |-> q + dictLen(q, e)]
<1>1. ASSUME NEW q \in b .. E - 1
      PROVE  end[q] \in q + 1 .. E /\ Spread(piece[q], q, end[q], E) /\ Covers(piece[q], q, end[q])
  <2> PICK m : m = q + dictLen(q, e)
    OBVIOUS
  <2>1. q \in Nat /\ q < e /\ m \in q + 1 .. E
    BY DictLenIs
  <2>2. Spread(<< << q, m >> >>, q, m, m) /\ Covers(<< << q, m >> >>, q, m)
    BY <2>1, OneUnit
  <2>4. Spread(<< << q, m >> >>, q, m, E)
    BY <2>1, <2>2, Widen
  <2>3. piece[q] = << << q, m >> >> /\ end[q] = m
    OBVIOUS
  <2> QED
    BY <2>1, <2>2, <2>3, <2>4
<1>2. Chain(b, E, e) = Pieces(b, E, piece, end)
  BY DEF Chain
<1> HIDE DEF piece, end
<1> QED
  BY <1>1, <1>2, PiecesSpread

LEMMA OverlappingIs ==
  ASSUME NEW b \in Nat, NEW E \in Nat, NEW e \in Nat, b <= E, E <= e,
         \A q \in b .. E - 1 : q + dictLen(q, e) <= E
  PROVE  Spread(Overlapping(b, E, e), b, E, E) /\ Covers(Overlapping(b, E, e), b, E)
<1> DEFINE piece == [q \in b .. E - 1 |-> IF dictLen(q, e) = 1 THEN << << q, q + 1 >> >>
                                         ELSE << << q, q + 1 >>, << q, q + dictLen(q, e) >> >>]
           end == [q \in b .. E - 1 |-> q + 1]
<1>1. ASSUME NEW q \in b .. E - 1
      PROVE  end[q] \in q + 1 .. E /\ Spread(piece[q], q, end[q], E) /\ Covers(piece[q], q, end[q])
  <2> PICK l : l = dictLen(q, e)
    OBVIOUS
  <2>1. q \in Nat /\ q < e /\ q + 1 \in q + 1 .. E /\ l \in Nat /\ 1 <= l /\ q + l \in q + 1 .. E
    BY DictLenIs
  <2>2. Spread(<< << q, q + 1 >> >>, q, q + 1, q + 1) /\ Covers(<< << q, q + 1 >> >>, q, q + 1)
    BY <2>1, OneUnit
  <2>3. Spread(<< << q, q + 1 >> >>, q, q + 1, E)
    BY <2>1, <2>2, Widen
  <2>4. end[q] = q + 1 /\ piece[q] = IF l = 1 THEN << << q, q + 1 >> >>
                                     ELSE << << q, q + 1 >>, << q, q + l >> >>
    OBVIOUS
  <2> HIDE DEF piece, end
  <2>5. CASE l = 1
    BY <2>1, <2>2, <2>3, <2>4, <2>5
  <2>6. CASE l # 1
    <3> PICK s : s = << << q, q + 1 >>, << q, q + l >> >>
      OBVIOUS
    <3>1. s \in Seq(Unit) /\ Len(s) = 2 /\ s[1] = << q, q + 1 >> /\ s[2] = << q, q + l >>
      BY <2>1 DEF Unit
    <3>2. Spread(s, q, q + 1, E)
      BY <2>1, <2>6, <3>1 DEF Spread
    <3>3. Covers(s, q, q + 1)
      BY <2>1, <3>1 DEF Covers
    <3> QED
      BY <2>1, <2>4, <2>6, <3>2, <3>3
  <2> QED
    BY <2>5, <2>6
<1>2. Overlapping(b, E, e) = Pieces(b, E, piece, end)
  BY DEF Overlapping
<1> HIDE DEF piece, end
<1> QED
  BY <1>1, <1>2, PiecesSpread

LEMMA ClusterIs ==
  ASSUME NEW p \in Nat, NEW e \in Nat, p < e
  PROVE  Spread(Cluster(p, e), p, ClusterEnd(p, e), ClusterEnd(p, e)) /\ Covers(Cluster(p, e), p, ClusterEnd(p, e))
<1> PICK E : E = ClusterEnd(p, e)
  OBVIOUS
<1>1. E \in p + 1 .. e /\ E \in Nat /\ p <= E /\ E <= e /\ \A q \in p .. E - 1 : q + dictLen(q, e) <= E
  BY ClusterEndIs
<1>2. Cluster(p, e) \in { Chain(p, E, e), Overlapping(p, E, e), << << p, E >> >> }
  BY DEF Cluster
<1>3. CASE Cluster(p, e) = Chain(p, E, e)
  BY <1>1, <1>3, ChainIs
<1>4. CASE Cluster(p, e) = Overlapping(p, E, e)
  BY <1>1, <1>4, OverlappingIs
<1>5. CASE Cluster(p, e) = << << p, E >> >>
  BY <1>1, <1>5, OneUnit
<1> QED
  BY <1>2, <1>3, <1>4, <1>5

LEMMA NormalStringIs ==
  ASSUME NEW b \in Nat, NEW e \in Nat, b < e
  PROVE  Spread(divideNormalString(b, e), b, e, e) /\ Covers(divideNormalString(b, e), b, e)
<1> DEFINE piece == [p \in b .. e - 1 |-> Cluster(p, e)]
           end == [p \in b .. e - 1 |-> ClusterEnd(p, e)]
<1>1. ASSUME NEW p \in b .. e - 1
      PROVE  end[p] \in p + 1 .. e /\ Spread(piece[p], p, end[p], e) /\ Covers(piece[p], p, end[p])
  <2> PICK E : E = ClusterEnd(p, e)
    OBVIOUS
  <2>1. p \in Nat /\ p < e /\ E \in p + 1 .. e /\ E \in Nat /\ E <= e
    BY ClusterEndIs
  <2>2. Spread(Cluster(p, e), p, E, E) /\ Covers(Cluster(p, e), p, E)
    BY <2>1, ClusterIs
  <2>3. Spread(Cluster(p, e), p, E, e)
    BY <2>1, <2>2, Widen
  <2>4. piece[p] = Cluster(p, e) /\ end[p] = E
    OBVIOUS
  <2> QED
    BY <2>1, <2>2, <2>3, <2>4
<1>2. divideNormalString(b, e) = Pieces(b, e, piece, end)
  BY DEF divideNormalString
<1> HIDE DEF piece, end
<1> QED
  BY <1>1, <1>2, PiecesSpread

(* A part of a string of digits and letters. *)
LEMMA PartIs ==
  ASSUME NEW b \in Nat, NEW p \in Nat, NEW e \in Nat, b <= p, p < e
  PROVE  /\ Spread(Part(b, p, e), p, SameTypeEnd(p, e), SameTypeEnd(p, e))
         /\ analOption.noOverlap => Covers(Part(b, p, e), p, SameTypeEnd(p, e))
         /\ ~analOption.noOverlap => Part(b, p, e) \in Seq(Unit \ { << b, e >> })
<1> PICK q : q = SameTypeEnd(p, e)
  OBVIOUS
<1>1. q \in p + 1 .. e /\ q \in Nat /\ p < q
  BY SameTypeEndIs
<1> PICK x, y : /\ x = IF p = b /\ q = e /\ ~analOption.noOverlap THEN << >> ELSE << << p, q >> >>
                /\ y = IF analOption.doUnigram /\ p + 1 < q /\ ExpandedType(p)[2] THEN Unigrams(p, q) ELSE << >>
  OBVIOUS
<1>2. Part(b, p, e) = x \o y
  BY DEF Part
<1> PICK u : u = Unigrams(p, q)
  OBVIOUS
<1>3. Spread(u, p, q, q) /\ \A k \in 1 .. Len(u) : u[k][2] = u[k][1] + 1
  <2>1. p <= q
    BY <1>1
  <2>2. /\ Spread(Unigrams(p, q), p, q, q)
        /\ \A k \in 1 .. Len(Unigrams(p, q)) : Unigrams(p, q)[k][2] = Unigrams(p, q)[k][1] + 1
    BY <1>1, <2>1, UnigramsAre
  <2> QED
    BY <2>2
<1>4. Spread(<< >>, p, q, q) /\ Spread(<< << p, q >> >>, p, q, q) /\ Covers(<< << p, q >> >>, p, q)
  BY <1>1, NoUnit, OneUnit
<1>5. u \in Seq(Unit) /\ << << p, q >> >> \in Seq(Unit) /\ << >> \in Seq(Unit)
  BY <1>3, <1>4 DEF Spread
<1>6. CASE p + 1 < q /\ y = u
  <2>1. \A k \in 1 .. Len(u) : u[k] # << p, q >> /\ u[k] # << b, e >>
    <3> SUFFICES ASSUME NEW k \in 1 .. Len(u) PROVE u[k] # << p, q >> /\ u[k] # << b, e >>
      OBVIOUS
    <3>1. u[k][2] = u[k][1] + 1
      BY <1>3
    <3>2. << p, q >>[2] # << p, q >>[1] + 1 /\ << b, e >>[2] # << b, e >>[1] + 1
      BY <1>1, <1>6
    <3> QED
      BY <3>1, <3>2
  <2>2. Spread(<< << p, q >> >> \o u, p, q, q) /\ Covers(<< << p, q >> >> \o u, p, q)
    BY <1>1, <1>3, <2>1, WholeFirst
  <2>3. u \in Seq(Unit \ { << b, e >> })
    BY <1>5, <2>1
  <2>4. CASE x = << >> /\ ~analOption.noOverlap
    <3>1. << >> \o u = u
      BY <1>5
    <3> QED
      BY <1>2, <1>3, <1>6, <2>3, <2>4, <3>1
  <2>5. CASE x = << << p, q >> >> /\ (analOption.noOverlap \/ << p, q >> # << b, e >>)
    <3>1. << p, q >> # << b, e >> => << << p, q >> >> \in Seq(Unit \ { << b, e >> })
      BY <1>1 DEF Unit
    <3>2. << p, q >> # << b, e >> => << << p, q >> >> \o u \in Seq(Unit \ { << b, e >> })
      BY <2>3, <3>1
    <3> QED
      BY <1>2, <1>6, <2>2, <2>5, <3>2
  <2> QED
    BY <2>4, <2>5
<1>7. CASE y = << >>
  <2>1. << >> \o << >> = << >> /\ << << p, q >> >> \o << >> = << << p, q >> >>
    BY <1>5
  <2>2. CASE x = << >> /\ ~analOption.noOverlap
    <3>1. << >> \in Seq(Unit \ { << b, e >> })
      OBVIOUS
    <3> QED
      BY <1>2, <1>4, <1>7, <2>1, <2>2, <3>1
  <2>3. CASE x = << << p, q >> >> /\ (analOption.noOverlap \/ << p, q >> # << b, e >>)
    <3>1. << p, q >> # << b, e >> => << << p, q >> >> \in Seq(Unit \ { << b, e >> })
      BY <1>1 DEF Unit
    <3> QED
      BY <1>2, <1>4, <1>7, <2>1, <2>3, <3>1
  <2> QED
    BY <2>2, <2>3
<1> QED
  BY <1>6, <1>7

LEMMA PartsAre ==
  ASSUME NEW b \in Nat, NEW e \in Nat, b < e
  PROVE  /\ Spread(Parts(b, e), b, e, e)
         /\ analOption.noOverlap => Covers(Parts(b, e), b, e)
         /\ ~analOption.noOverlap => Parts(b, e) \in Seq(Unit \ { << b, e >> })
<1> DEFINE piece == [p \in b .. e - 1 |-> Part(b, p, e)]
           end == [p \in b .. e - 1 |-> SameTypeEnd(p, e)]
<1>1. ASSUME NEW p \in b .. e - 1
      PROVE  /\ end[p] \in p + 1 .. e /\ Spread(piece[p], p, end[p], e)
             /\ analOption.noOverlap => Covers(piece[p], p, end[p])
             /\ ~analOption.noOverlap => piece[p] \in Seq(Unit \ { << b, e >> })
  <2> PICK q : q = SameTypeEnd(p, e)
    OBVIOUS
  <2>1. p \in Nat /\ b <= p /\ p < e /\ q \in p + 1 .. e /\ q \in Nat /\ q <= e
    BY SameTypeEndIs
  <2>2. Spread(Part(b, p, e), p, q, q)
    BY <2>1, PartIs
  <2>3. Spread(Part(b, p, e), p, q, e)
    BY <2>1, <2>2, Widen
  <2>4. piece[p] = Part(b, p, e) /\ end[p] = q
    OBVIOUS
  <2> HIDE DEF piece, end
  <2> QED
    BY <2>1, <2>3, <2>4, PartIs
<1>2. Parts(b, e) = Pieces(b, e, piece, end)
  BY DEF Parts
<1>3. b <= e /\ Unit \ { << b, e >> } \in SUBSET Unit
  OBVIOUS
<1> HIDE DEF piece, end
<1>4. Spread(Parts(b, e), b, e, e) /\ (analOption.noOverlap => Covers(Parts(b, e), b, e))
  BY <1>1, <1>2, <1>3, PiecesSpread
<1>5. ASSUME ~analOption.noOverlap PROVE Parts(b, e) \in Seq(Unit \ { << b, e >> })
  <2> PICK V : V = Unit \ { << b, e >> }
    OBVIOUS
  <2>1. V \in SUBSET Unit /\ \A p \in b .. e - 1 : end[p] \in p + 1 .. e /\ piece[p] \in Seq(V)
    BY <1>1, <1>5
  <2>2. Parts(b, e) \in Seq(V)
    BY <1>2, <1>3, <2>1, PiecesOf
  <2> QED
    BY <2>2
<1> QED
  BY <1>4, <1>5

LEMMA DigitLetterStringIs ==
  ASSUME NEW b \in Nat, NEW e \in Nat, b < e
  PROVE  Spread(divideDigitLetterString(b, e), b, e, e) /\ Covers(divideDigitLetterString(b, e), b, e)
<1>1. CASE analOption.noOverlap /\ analOption.mergeAlphaDigit
  BY <1>1, OneUnit DEF divideDigitLetterString
<1>2. CASE analOption.noOverlap /\ ~analOption.mergeAlphaDigit
  BY <1>2, PartsAre DEF divideDigitLetterString
<1>3. CASE ~analOption.noOverlap
  <2>1. Parts(b, e) \in Seq(Unit \ { << b, e >> }) /\ Spread(Parts(b, e), b, e, e)
    BY <1>3, PartsAre
  <2> PICK s : s = Parts(b, e)
    OBVIOUS
  <2>2. \A k \in 1 .. Len(s) : s[k] # << b, e >>
    <3> PICK V : V = Unit \ { << b, e >> }
      OBVIOUS
    <3>1. s \in Seq(V) /\ << b, e >> \notin V
      BY <2>1
    <3>2. \A k \in 1 .. Len(s) : s[k] \in V
      BY <3>1
    <3> QED
      BY <3>1, <3>2
  <2>3. divideDigitLetterString(b, e) = << << b, e >> >> \o s
    BY <1>3 DEF divideDigitLetterString
  <2> QED
    BY <2>1, <2>2, <2>3, WholeFirst
<1> QED
  BY <1>1, <1>2, <1>3

(* The other runs begin with all of their text. *)
LEMMA DateStringIs ==
  ASSUME NEW b \in Nat, NEW e \in Nat, b < e
  PROVE  Spread(DateString(b, e), b, e, e) /\ Covers(DateString(b, e), b, e)
<1> PICK d, s : /\ d = e - 1
                /\ s = IF e - 1 > b /\ ~analOption.noOverlap
                         THEN divideDigitLetterString(b, e - 1) \o << << e - 1, e >> >> ELSE << >>
  OBVIOUS
<1>1. DateString(b, e) = << << b, e >> >> \o s
  BY DEF DateString
<1>2. CASE s = << >>
  <2>1. << << b, e >> >> \o << >> = << << b, e >> >>
    OBVIOUS
  <2> QED
    BY <1>1, <1>2, <2>1, OneUnit
<1>3. CASE e - 1 > b /\ s = divideDigitLetterString(b, e - 1) \o << << e - 1, e >> >>
  <2>1. d \in Nat /\ b < d /\ d < e /\ b <= d /\ d <= e
    BY <1>3
  <2> PICK t, l : t = divideDigitLetterString(b, d) /\ l = << << d, e >> >>
    OBVIOUS
  <2>2. s = t \o l
    BY <1>3
  <2>3. Spread(t, b, d, d)
    BY <2>1, DigitLetterStringIs
  <2>4. Spread(t, b, d, e)
    BY <2>1, <2>3, Widen
  <2>5. Spread(l, d, e, e)
    BY <2>1, OneUnit
  <2>6. Spread(s, b, e, e)
    BY <2>1, <2>2, <2>4, <2>5, SpreadConcat
  <2>7. t \in Seq(Unit) /\ l \in Seq(Unit) /\ Len(l) = 1 /\ l[1] = << d, e >>
    BY <2>3, <2>5 DEF Spread
  <2>8. ASSUME NEW k \in 1 .. Len(s) PROVE s[k] # << b, e >>
    <3>1. (k \in 1 .. Len(t) /\ s[k] = t[k]) \/ (k - Len(t) \in 1 .. Len(l) /\ s[k] = l[k - Len(t)])
      <4>1. k \in 1 .. Len(t) \/ (k - Len(t) \in 1 .. Len(l) /\ Len(t) + (k - Len(t)) = k)
        BY <2>2, <2>7, Concat
      <4> QED
        BY <2>2, <2>7, <4>1, Concat
    <3>2. CASE k \in 1 .. Len(t) /\ s[k] = t[k]
      <4>1. t[k][2] <= d /\ t[k][2] \in Nat
        BY <2>3, <3>2 DEF Spread, Unit
      <4> QED
        BY <2>1, <3>2, <4>1
    <3>3. CASE k - Len(t) \in 1 .. Len(l) /\ s[k] = l[k - Len(t)]
      <4>1. k - Len(t) = 1
        BY <2>7, <3>3
      <4> QED
        BY <2>1, <2>7, <3>3, <4>1
    <3> QED
      BY <3>1, <3>2, <3>3
  <2> QED
    BY <1>1, <2>6, <2>8, WholeFirst
<1> QED
  BY <1>2, <1>3

LEMMA CharDigitStringIs ==
  ASSUME NEW b \in Nat, NEW e \in Nat, b < e
  PROVE  Spread(CharDigitString(b, e), b, e, e) /\ Covers(CharDigitString(b, e), b, e)
<1> PICK s : s = IF analOption.doUnigram /\ e - 1 > b THEN Unigrams(b, e) ELSE << >>
  OBVIOUS
<1>1. CharDigitString(b, e) = << << b, e >> >> \o s
  BY DEF CharDigitString
<1>2. CASE s = << >>
  <2>1. << << b, e >> >> \o << >> = << << b, e >> >>
    OBVIOUS
  <2> QED
    BY <1>1, <1>2, <2>1, OneUnit
<1>3. CASE e - 1 > b /\ s = Unigrams(b, e)
  <2>1. b <= e
    OBVIOUS
  <2>2. /\ Spread(Unigrams(b, e), b, e, e)
        /\ \A k \in 1 .. Len(Unigrams(b, e)) : Unigrams(b, e)[k][2] = Unigrams(b, e)[k][1] + 1
    BY <2>1, UnigramsAre
  <2>3. \A k \in 1 .. Len(s) : s[k][2] = s[k][1] + 1
    BY <1>3, <2>2
  <2>4. \A k \in 1 .. Len(s) : s[k] # << b, e >>
    <3>1. << b, e >>[2] # << b, e >>[1] + 1
      BY <1>3
    <3> QED
      BY <2>3, <3>1
  <2> QED
    BY <1>1, <1>3, <2>2, <2>4, WholeFirst
<1> QED
  BY <1>2, <1>3

(* The units of a run: none of a run of spaces, and else all of the run.   *)
LEMMA RunIs ==
  ASSUME text \in Texts, NEW b \in Nat, NEW e \in Nat, b < e, e <= n
  PROVE  /\ Spread(addFMinCString(b, e), b, e, e)
         /\ IF Ch(e - 1).type = "SPACE" THEN addFMinCString(b, e) = << >>
            ELSE Covers(addFMinCString(b, e), b, e)
<1> PICK c : c = Ch(e - 1).type
  OBVIOUS
<1>1. c \in CharType
  <2>1. e - 1 + 1 \in 1 .. Len(text)
    BY TextIs DEF n
  <2> QED
    BY <2>1, TextsAssumption DEF IsText, Ch
<1>2. CASE c = "OTHER"
  BY <1>2, NormalStringIs DEF addFMinCString
<1>3. CASE c \in { "DIGIT", "LETTER" }
  BY <1>3, DigitLetterStringIs DEF addFMinCString
<1>4. CASE c = "DATE"
  BY <1>4, DateStringIs DEF addFMinCString
<1>5. CASE c = "CHARDIGIT"
  BY <1>5, CharDigitStringIs DEF addFMinCString
<1>6. CASE c = "PUNC"
  BY <1>6, OneUnit DEF addFMinCString
<1>7. CASE c = "SPACE"
  BY <1>7, NoUnit DEF addFMinCString
<1> QED
  BY <1>1, <1>2, <1>3, <1>4, <1>5, <1>6, <1>7 DEF CharType

(* The character at p is in a unit. *)
Inside(s, p) == \E k \in 1 .. Len(s) : p \in s[k][1] .. s[k][2] - 1

(* A run is of spaces only, or has none. *)
OneKind(b, e) == \A p \in b .. e - 1 : Ch(p).type = "SPACE" <=> Ch(e - 1).type = "SPACE"

(* What is shown of the text before upTo are all characters but spaces. *)
Shown(s, upTo) ==
  /\ Spread(s, 0, upTo, upTo)
  /\ \A p \in 0 .. upTo - 1 : Inside(s, p) <=> Ch(p).type # "SPACE"

LEMMA InsideConcat ==
  ASSUME NEW s \in Seq(Unit), NEW t \in Seq(Unit), NEW p
  PROVE  Inside(s \o t, p) <=> Inside(s, p) \/ Inside(t, p)
<1> PICK u : u = s \o t
  OBVIOUS
<1>1. /\ Len(s) \in Nat
      /\ \A k \in 1 .. Len(s) : k \in 1 .. Len(u) /\ u[k] = s[k]
      /\ \A k \in 1 .. Len(t) : Len(s) + k \in 1 .. Len(u) /\ u[Len(s) + k] = t[k]
      /\ \A k \in 1 .. Len(u) : k \in 1 .. Len(s) \/ k - Len(s) \in 1 .. Len(t)
  BY Concat
<1>2. ASSUME Inside(s, p) PROVE Inside(u, p)
  BY <1>1, <1>2 DEF Inside
<1>3. ASSUME Inside(t, p) PROVE Inside(u, p)
  <2>1. PICK k \in 1 .. Len(t) : p \in t[k][1] .. t[k][2] - 1
    BY <1>3 DEF Inside
  <2>2. Len(s) + k \in 1 .. Len(u) /\ p \in u[Len(s) + k][1] .. u[Len(s) + k][2] - 1
    BY <1>1, <2>1
  <2> QED
    BY <2>2 DEF Inside
<1>4. ASSUME Inside(u, p) PROVE Inside(s, p) \/ Inside(t, p)
  <2>1. PICK k \in 1 .. Len(u) : p \in u[k][1] .. u[k][2] - 1
    BY <1>4 DEF Inside
  <2>2. CASE k \in 1 .. Len(s)
    BY <1>1, <2>1, <2>2 DEF Inside
  <2>3. CASE k - Len(s) \in 1 .. Len(t)
    <3>1. Len(s) + (k - Len(s)) = k
      BY <1>1, <2>1
    <3>2. u[k] = t[k - Len(s)]
      BY <1>1, <2>3, <3>1
    <3> QED
      BY <2>1, <2>3, <3>2 DEF Inside
  <2> QED
    BY <1>1, <2>2, <2>3
<1> QED
  BY <1>2, <1>3, <1>4

(* One more run. *)
LEMMA OneMoreRun ==
  ASSUME text \in Texts, NEW b \in Nat, NEW e \in Nat, b < e, e <= n, OneKind(b, e),
         NEW s, Shown(s, b)
  PROVE  Shown(s \o addFMinCString(b, e), e)
<1> PICK t : t = addFMinCString(b, e)
  OBVIOUS
<1>1. /\ Spread(t, b, e, e)
      /\ Ch(e - 1).type = "SPACE" => t = << >>
      /\ Ch(e - 1).type # "SPACE" => Covers(t, b, e)
  BY RunIs
<1>2. Spread(s, 0, b, b) /\ \A p \in 0 .. b - 1 : Inside(s, p) <=> Ch(p).type # "SPACE"
  BY DEF Shown
<1>3. s \in Seq(Unit) /\ t \in Seq(Unit)
  BY <1>1, <1>2 DEF Spread
<1>4. Spread(s \o t, 0, e, e)
  <2>1. 0 \in Nat /\ 0 <= b /\ b <= e
    OBVIOUS
  <2>2. Spread(s, 0, b, e)
    BY <1>2, <2>1, Widen
  <2> QED
    BY <1>1, <2>1, <2>2, SpreadConcat
<1>5. ASSUME NEW p \in 0 .. e - 1 PROVE Inside(s \o t, p) <=> Ch(p).type # "SPACE"
  <2>1. Inside(s \o t, p) <=> Inside(s, p) \/ Inside(t, p)
    BY <1>3, InsideConcat
  <2>2. CASE p < b
    <3>1. ~Inside(t, p)
      <4> SUFFICES ASSUME NEW k \in 1 .. Len(t), p \in t[k][1] .. t[k][2] - 1 PROVE FALSE
        BY DEF Inside
      <4>1. t[k][1] \in Nat /\ b <= t[k][1]
        BY <1>1 DEF Spread, Unit
      <4> QED
        BY <2>2, <4>1
    <3>2. p \in 0 .. b - 1
      BY <2>2
    <3> QED
      BY <1>2, <2>1, <3>1, <3>2
  <2>3. CASE ~(p < b)
    <3>1. p \in b .. e - 1
      BY <2>3
    <3>2. ~Inside(s, p)
      <4> SUFFICES ASSUME NEW k \in 1 .. Len(s), p \in s[k][1] .. s[k][2] - 1 PROVE FALSE
        BY DEF Inside
      <4>1. s[k][1] \in Nat /\ s[k][2] \in Nat /\ s[k][2] <= b
        BY <1>2 DEF Spread, Unit
      <4> QED
        BY <2>3, <4>1
    <3>3. Ch(p).type = "SPACE" <=> Ch(e - 1).type = "SPACE"
      BY <3>1 DEF OneKind
    <3>4. CASE Ch(e - 1).type = "SPACE"
      <4>1. ~Inside(<< >>, p)
        BY DEF Inside
      <4> QED
        BY <1>1, <2>1, <3>2, <3>3, <3>4, <4>1
    <3>5. CASE Ch(e - 1).type # "SPACE"
      <4>1. Inside(t, p)
        BY <1>1, <3>1, <3>5 DEF Covers, Inside
      <4> QED
        BY <2>1, <3>3, <3>5, <4>1
    <3> QED
      BY <3>4, <3>5
  <2> QED
    BY <2>2, <2>3
<1> QED
  BY <1>4, <1>5 DEF Shown

(* Whether a character is a space is seen of the character alone. *)
LEMMA SameRun ==
  ASSUME text \in Texts, NEW p \in 1 .. n - 1, ~Boundary(p)
  PROVE  Ch(p).type = "SPACE" <=> Ch(p - 1).type = "SPACE"
<1>1. n \in Nat /\ p + 1 \in 1 .. Len(text) /\ p - 1 + 1 \in 1 .. Len(text)
  BY TextIs DEF n
<1>2. Ch(p).char = Ch(p - 1).char => (Ch(p).type = "SPACE" <=> Ch(p - 1).type = "SPACE")
  BY <1>1, TextsAssumption DEF IsText, Ch
<1>3. Ch(p - 1).type = "PUNC" => Ch(p).char = Ch(p - 1).char
  BY DEF Boundary
<1>4. Ch(p - 1).type \in { "DIGIT", "LETTER" } => Ch(p).type \in { "DATE", "DIGIT", "LETTER" }
  BY DEF Boundary
<1>5. Ch(p - 1).type # "DATE"
  BY DEF Boundary
<1>6. Ch(p - 1).type \notin { "PUNC", "DATE", "DIGIT", "LETTER" } => Ch(p).type = Ch(p - 1).type
  BY DEF Boundary
<1> QED
  BY <1>2, <1>3, <1>4, <1>5, <1>6
-----------------------------------------------------------------------------
(***************************************************************************)
(* The invariant of the dictionary approach.  While runs are read, the     *)
(* text before the present run is shown, and that run is of one kind;      *)
(* while offsets are given, those given so far are ordered as their units  *)
(* are.                                                                    *)
(***************************************************************************)
OffsetsOrdered ==
  \A j, k \in 1 .. Len(wordOffset) : wordOffset[j] < wordOffset[k] <=> out[j][1] < out[k][1]

ParseOK ==
  /\ text \in Texts
  /\ phase = "options" => out = << >> /\ wordOffset = << >> /\ curIdx = 1 /\ fsIdx = 0
  /\ phase = "parse" => /\ curIdx \in 1 .. n /\ fsIdx \in 0 .. curIdx - 1 /\ OneKind(fsIdx, curIdx)
                        /\ Shown(out, fsIdx) /\ wordOffset = << >>
  /\ Parsed => /\ Shown(out, n)
               /\ wordOffset \in Seq(Nat) /\ Len(wordOffset) <= Len(out) /\ OffsetsOrdered
  /\ phase = "done" => Len(wordOffset) = Len(out)

LEMMA KindKept ==
  ASSUME UNCHANGED text
  PROVE  /\ n' = n /\ (\A p : Ch(p)' = Ch(p))
         /\ \A b, e : OneKind(b, e)' <=> OneKind(b, e)
         /\ \A s, upTo : Shown(s, upTo)' <=> Shown(s, upTo)
<1>1. n' = n /\ \A p : Ch(p)' = Ch(p)
  BY DEF n, Ch
<1>2. \A b, e : OneKind(b, e)' <=> OneKind(b, e)
  BY <1>1 DEF OneKind
<1>3. \A s, upTo : Shown(s, upTo)' <=> Shown(s, upTo)
  BY <1>1 DEF Shown
<1> QED
  BY <1>1, <1>2, <1>3

LEMMA StartParseStep == ParseOK /\ StartParse => ParseOK'
<1> SUFFICES ASSUME ParseOK, StartParse PROVE ParseOK'
  OBVIOUS
<1>1. /\ text \in Texts /\ out = << >> /\ wordOffset = << >> /\ curIdx = 1 /\ fsIdx = 0 /\ n \in Nat \ { 0 }
      /\ phase' = "parse" /\ UNCHANGED << text, curIdx, fsIdx, out, wordOffset >>
  BY TextIs DEF ParseOK, StartParse
<1>2. Shown(<< >>, 0)
  BY NoUnit DEF Shown
<1>3. OneKind(0, 1)
  <2>1. \A p \in 0 .. 1 - 1 : p = 1 - 1
    OBVIOUS
  <2> QED
    BY <2>1 DEF OneKind
<1>4. OneKind(0, 1)' /\ Shown(<< >>, 0)' /\ n' = n
  BY <1>1, <1>2, <1>3, KindKept
<1>5. OneKind(fsIdx, curIdx)' /\ Shown(out, fsIdx)'
  BY <1>1, <1>4 DEF OneKind, Shown
<1>6. curIdx' \in 1 .. n' /\ fsIdx' \in 0 .. curIdx' - 1 /\ wordOffset' = << >> /\ text' \in Texts
  BY <1>1, <1>4
<1> QED
  BY <1>1, <1>5, <1>6 DEF ParseOK, Parsed

LEMMA NextCharStep == ParseOK /\ NextChar => ParseOK'
<1> SUFFICES ASSUME ParseOK, NextChar PROVE ParseOK'
  OBVIOUS
<1> PICK b, c : b = fsIdx /\ c = curIdx
  OBVIOUS
<1>1. /\ text \in Texts /\ n \in Nat /\ c \in 1 .. n - 1 /\ b \in 0 .. c - 1 /\ OneKind(b, c) /\ Shown(out, b)
      /\ wordOffset = << >> /\ phase = "parse" /\ phase' = "parse" /\ curIdx' = c + 1
      /\ UNCHANGED << text, wordOffset >>
  <2>1. /\ text \in Texts /\ curIdx \in 1 .. n /\ curIdx < n /\ fsIdx \in 0 .. curIdx - 1
        /\ OneKind(fsIdx, curIdx) /\ Shown(out, fsIdx) /\ wordOffset = << >>
        /\ phase = "parse" /\ phase' = "parse" /\ curIdx' = curIdx + 1 /\ UNCHANGED << text, wordOffset >>
    BY DEF ParseOK, NextChar, n
  <2> QED
    BY <2>1, TextIs
<1>2. b \in Nat /\ c \in Nat /\ b < c /\ c <= n
  BY <1>1
<1>3. fsIdx' \in 0 .. c /\ OneKind(fsIdx', c + 1) /\ Shown(out', fsIdx')
  <2>1. CASE Boundary(c)
    <3>1. out' = out \o addFMinCString(b, c) /\ fsIdx' = c
      BY <2>1 DEF NextChar
    <3>2. Shown(out', c)
      BY <1>1, <1>2, <3>1, OneMoreRun
    <3>3. OneKind(c, c + 1)
      <4>1. \A p \in c .. (c + 1) - 1 : p = (c + 1) - 1
        BY <1>2
      <4> QED
        BY <4>1 DEF OneKind
    <3> QED
      BY <1>2, <3>1, <3>2, <3>3
  <2>2. CASE ~Boundary(c)
    <3>1. out' = out /\ fsIdx' = b
      BY <2>2 DEF NextChar
    <3>2. Ch(c).type = "SPACE" <=> Ch(c - 1).type = "SPACE"
      BY <1>1, <2>2, SameRun
    <3>3. OneKind(b, c + 1)
      <4> SUFFICES ASSUME NEW p \in b .. (c + 1) - 1
                   PROVE  Ch(p).type = "SPACE" <=> Ch((c + 1) - 1).type = "SPACE"
        BY DEF OneKind
      <4>1. (c + 1) - 1 = c /\ (p = c \/ p \in b .. c - 1)
        BY <1>2
      <4> QED
        BY <1>1, <3>2, <4>1 DEF OneKind
    <3> QED
      BY <1>1, <1>2, <3>1, <3>3
  <2> QED
    BY <2>1, <2>2
<1>4. n' = n /\ (\A x, y : OneKind(x, y)' <=> OneKind(x, y)) /\ (\A s, x : Shown(s, x)' <=> Shown(s, x))
  BY <1>1, KindKept
<1>5. OneKind(fsIdx, curIdx)' /\ Shown(out, fsIdx)'
  BY <1>1, <1>3, <1>4
<1>6. curIdx' \in 1 .. n' /\ fsIdx' \in 0 .. curIdx' - 1 /\ text' \in Texts
  BY <1>1, <1>3, <1>4
<1> QED
  BY <1>1, <1>5, <1>6 DEF ParseOK, Parsed

LEMMA EndParseStep == ParseOK /\ EndParse => ParseOK'
<1> SUFFICES ASSUME ParseOK, EndParse PROVE ParseOK'
  OBVIOUS
<1> PICK b : b = fsIdx
  OBVIOUS
<1>1. /\ text \in Texts /\ n \in Nat \ { 0 } /\ curIdx = n /\ b \in 0 .. n - 1 /\ OneKind(b, n) /\ Shown(out, b)
      /\ wordOffset = << >> /\ phase' = "offset" /\ UNCHANGED << text, wordOffset >>
      /\ out' = out \o addFMinCString(b, n)
  <2>1. /\ text \in Texts /\ curIdx \in 1 .. n /\ curIdx >= n /\ fsIdx \in 0 .. curIdx - 1
        /\ OneKind(fsIdx, curIdx) /\ Shown(out, fsIdx) /\ wordOffset = << >>
        /\ phase' = "offset" /\ UNCHANGED << text, wordOffset >>
        /\ out' = IF fsIdx < curIdx THEN out \o addFMinCString(fsIdx, curIdx) ELSE out
    BY DEF ParseOK, EndParse, n
  <2>2. curIdx = n /\ fsIdx < curIdx
    BY <2>1, TextIs
  <2> QED
    BY <2>1, <2>2, TextIs
<1>2. b \in Nat /\ b < n /\ n <= n
  BY <1>1
<1>3. Shown(out', n)
  BY <1>1, <1>2, OneMoreRun
<1>4. n' = n /\ Shown(out, n)'
  BY <1>1, <1>3, KindKept
<1>5. out' \in Seq(Unit)
  BY <1>3 DEF Shown, Spread
<1>6. wordOffset' \in Seq(Nat) /\ Len(wordOffset') <= Len(out') /\ OffsetsOrdered'
  <2>1. wordOffset' = << >> /\ Len(<< >>) = 0 /\ << >> \in Seq(Nat) /\ Len(out') \in Nat
    BY <1>1, <1>5
  <2> QED
    BY <2>1 DEF OffsetsOrdered
<1> QED
  BY <1>1, <1>4, <1>6 DEF ParseOK, Parsed

LEMMA OffsetStep == ParseOK /\ createWordOffset => ParseOK'
<1> SUFFICES ASSUME ParseOK, createWordOffset PROVE ParseOK'
  OBVIOUS
<1> PICK l, k : l = Len(wordOffset) /\ k = l + 1
  OBVIOUS
<1> PICK o : o = IF k = 1 THEN 0
                 ELSE IF out[k][1] > LastIdx(k - 1) THEN wordOffset[k - 1] + 1 ELSE wordOffset[k - 1]
  OBVIOUS
<1>1. /\ text \in Texts /\ n \in Nat /\ Shown(out, n) /\ wordOffset \in Seq(Nat) /\ l \in Nat /\ l < Len(out)
      /\ OffsetsOrdered /\ phase = "offset" /\ UNCHANGED << text, phase, out >>
      /\ wordOffset' = Append(wordOffset, o)
  <2>1. /\ text \in Texts /\ Shown(out, n) /\ wordOffset \in Seq(Nat) /\ Len(wordOffset) < Len(out)
        /\ OffsetsOrdered /\ phase = "offset" /\ UNCHANGED << text, phase, out >>
    BY DEF ParseOK, createWordOffset, Parsed
  <2>2. wordOffset' = Append(wordOffset, o)
    BY DEF createWordOffset
  <2> QED
    BY <2>1, <2>2, TextIs
<1>2. /\ out \in Seq(Unit) /\ Len(out) \in Nat /\ k \in 1 .. Len(out)
      /\ \A j \in 1 .. Len(out) : out[j][1] \in Nat /\ out[j][2] \in Nat /\ out[j][1] < n
      /\ \A i, j \in 1 .. Len(out) : i < j => out[i][1] <= out[j][1]
  <2>1. Spread(out, 0, n, n)
    BY <1>1 DEF Shown
  <2>2. out \in Seq(Unit)
    BY <2>1 DEF Spread
  <2> QED
    BY <1>1, <2>1, <2>2 DEF Spread, Unit
<1>3. ASSUME k # 1
      PROVE  /\ k - 1 \in 1 .. l /\ k - 1 \in 1 .. Len(out) /\ LastIdx(k - 1) = out[k - 1][1]
             /\ wordOffset[k - 1] \in Nat
  <2>1. k - 1 \in 1 .. l /\ k - 1 = l /\ l \in 1 .. Len(out) /\ wordOffset[k - 1] \in Nat
    BY <1>1, <1>3
  <2> DEFINE S == { out[m][1] : m \in 1 .. k - 1 }
  <2>2. S \in SUBSET (0 .. n) /\ S # {} /\ out[k - 1][1] \in S /\ \A x \in S : x <= out[k - 1][1]
    <3>1. \A m \in 1 .. k - 1 : m \in 1 .. Len(out) /\ out[m][1] \in 0 .. n /\ out[m][1] <= out[k - 1][1]
      <4> SUFFICES ASSUME NEW m \in 1 .. k - 1
                   PROVE  m \in 1 .. Len(out) /\ out[m][1] \in 0 .. n /\ out[m][1] <= out[k - 1][1]
        OBVIOUS
      <4>1. m \in 1 .. Len(out) /\ (m = k - 1 \/ m < k - 1)
        BY <1>1, <1>2, <2>1
      <4>2. out[m][1] \in 0 .. n
        BY <1>1, <1>2, <4>1
      <4> QED
        BY <1>2, <2>1, <4>1, <4>2
    <3>2. k - 1 \in 1 .. k - 1
      BY <2>1
    <3> QED
      BY <3>1, <3>2
  <2>3. Max(S) \in S /\ \A x \in S : x <= Max(S)
    <3> HIDE DEF S
    <3> QED
      BY <1>1, <2>2, GreatestElement
  <2>4. Max(S) = out[k - 1][1]
    <3> HIDE DEF S
    <3>1. Max(S) \in 0 .. n /\ out[k - 1][1] \in 0 .. n /\ Max(S) <= out[k - 1][1] /\ out[k - 1][1] <= Max(S)
      BY <2>2, <2>3
    <3> QED
      BY <3>1
  <2> QED
    BY <2>1, <2>4 DEF LastIdx
<1>4. /\ o \in Nat
      /\ k # 1 => /\ wordOffset[k - 1] <= o
                  /\ wordOffset[k - 1] < o <=> out[k - 1][1] < out[k][1]
  <2>1. CASE k = 1
    BY <2>1
  <2>2. CASE k # 1
    <3>1. o = IF out[k][1] > out[k - 1][1] THEN wordOffset[k - 1] + 1 ELSE wordOffset[k - 1]
      BY <1>3, <2>2
    <3> QED
      BY <1>2, <1>3, <2>2, <3>1
  <2> QED
    BY <2>1, <2>2
<1>5. /\ wordOffset' \in Seq(Nat) /\ Len(wordOffset') = k /\ wordOffset'[k] = o
      /\ \A j \in 1 .. l : wordOffset'[j] = wordOffset[j] /\ wordOffset[j] \in Nat
  BY <1>1, <1>4
<1>6. ASSUME NEW j \in 1 .. l
      PROVE  /\ out[j][1] <= out[k][1] /\ wordOffset[j] <= o
             /\ wordOffset[j] < o <=> out[j][1] < out[k][1]
  <2>1. j \in 1 .. Len(out) /\ k - 1 = l /\ k # 1 /\ k - 1 \in 1 .. Len(out)
    BY <1>1
  <2>2. out[j][1] <= out[k - 1][1] /\ out[k - 1][1] <= out[k][1]
    <3>1. k - 1 < k /\ (j = k - 1 \/ j < k - 1)
      BY <1>1, <2>1
    <3>2. out[j][1] <= out[k - 1][1]
      BY <1>2, <2>1, <3>1
    <3> QED
      BY <1>2, <2>1, <3>1, <3>2
  <2>3. /\ wordOffset[j] < wordOffset[k - 1] <=> out[j][1] < out[k - 1][1]
        /\ wordOffset[k - 1] < wordOffset[j] <=> out[k - 1][1] < out[j][1]
    BY <1>1, <1>3, <2>1 DEF OffsetsOrdered
  <2>4. /\ wordOffset[j] \in Nat /\ wordOffset[k - 1] \in Nat /\ o \in Nat
        /\ out[j][1] \in Nat /\ out[k - 1][1] \in Nat /\ out[k][1] \in Nat
    BY <1>2, <1>3, <1>4, <1>5, <2>1
  <2>5. wordOffset[j] <= wordOffset[k - 1]
    BY <2>2, <2>3, <2>4
  <2> QED
    BY <1>4, <2>1, <2>2, <2>3, <2>4, <2>5
<1>7. OffsetsOrdered'
  <2> SUFFICES ASSUME NEW i \in 1 .. k, NEW j \in 1 .. k
               PROVE  wordOffset'[i] < wordOffset'[j] <=> out[i][1] < out[j][1]
    <3>1. out' = out /\ Len(wordOffset') = k
      BY <1>1, <1>5
    <3> QED
      BY <3>1, Zenon DEF OffsetsOrdered
  <2>1. (i = k \/ i \in 1 .. l) /\ (j = k \/ j \in 1 .. l)
    BY <1>1
  <2>2. CASE i \in 1 .. l /\ j \in 1 .. l
    BY <1>1, <1>5, <2>2 DEF OffsetsOrdered
  <2>3. CASE i \in 1 .. l /\ j = k
    BY <1>5, <1>6, <2>3
  <2>4. CASE i = k /\ j \in 1 .. l
    <3>1. /\ out[j][1] <= out[k][1] /\ wordOffset[j] <= o /\ wordOffset[j] \in Nat
          /\ out[j][1] \in Nat /\ out[k][1] \in Nat
      <4>1. j \in 1 .. Len(out)
        BY <1>1, <2>4
      <4> QED
        BY <1>2, <1>5, <1>6, <2>4, <4>1
    <3>2. ~(o < wordOffset[j]) /\ ~(out[k][1] < out[j][1])
      BY <1>4, <3>1
    <3> QED
      BY <1>5, <2>4, <3>2
  <2>5. CASE i = k /\ j = k
    <3>1. ~(o < o) /\ ~(out[k][1] < out[k][1])
      BY <1>2, <1>4
    <3> QED
      BY <1>5, <2>5, <3>1
  <2> QED
    BY <2>1, <2>2, <2>3, <2>4, <2>5
<1>8. Shown(out, n)'
  <2>1. n' = n /\ out' = out /\ (Shown(out, n)' <=> Shown(out, n))
    <3>1. n' = n /\ out' = out
      BY <1>1, KindKept
    <3>2. \A s, upTo : Shown(s, upTo)' <=> Shown(s, upTo)
      BY <1>1, KindKept
    <3> QED
      BY <3>1, <3>2 DEF Shown
  <2> QED
    BY <1>1, <2>1
<1>9. Len(wordOffset') <= Len(out')
  BY <1>1, <1>2, <1>5
<1> QED
  BY <1>1, <1>5, <1>7, <1>8, <1>9 DEF ParseOK, Parsed

LEMMA ReturnStep == ParseOK /\ Return => ParseOK'
<1> SUFFICES ASSUME ParseOK, Return PROVE ParseOK'
  OBVIOUS
<1>1. /\ text \in Texts /\ Shown(out, n) /\ wordOffset \in Seq(Nat) /\ Len(wordOffset) = Len(out)
      /\ Len(wordOffset) <= Len(out) /\ OffsetsOrdered
      /\ phase' = "done" /\ UNCHANGED << text, out, wordOffset >>
  BY DEF ParseOK, Return, Parsed
<1>2. n' = n /\ OffsetsOrdered'
  BY <1>1 DEF n, OffsetsOrdered
<1>3. Shown(out, n)'
  <2>1. \A s, upTo : Shown(s, upTo)' <=> Shown(s, upTo)
    BY <1>1, KindKept
  <2> QED
    BY <1>1, <1>2, <2>1 DEF Shown
<1> QED
  BY <1>1, <1>2, <1>3 DEF ParseOK, Parsed

(* Nothing is read while options are set. *)
LEMMA OptionsStep ==
  ASSUME ParseOK, phase = "options", phase' = "options", UNCHANGED << text, curIdx, fsIdx, out, wordOffset >>
  PROVE  ParseOK'
BY DEF ParseOK, Parsed

(* Longest prefix analysis leaves the state of this approach alone. *)
LEMMA PrefixLeaves ==
  ASSUME ParseOK, phase' \in { "words", "rest", "found" }, UNCHANGED parseVars
  PROVE  ParseOK'
BY DEF ParseOK, Parsed, parseVars

LEMMA ParseStutter ==
  ASSUME ParseOK, UNCHANGED vars
  PROVE  ParseOK'
<1>1. UNCHANGED << phase, text, curIdx, fsIdx, out, wordOffset >>
  BY DEF vars
<1>2. n' = n /\ (OffsetsOrdered' <=> OffsetsOrdered) /\ (Parsed' <=> Parsed)
  BY <1>1 DEF n, OffsetsOrdered, Parsed
<1>3. \A s, upTo : Shown(s, upTo)' <=> Shown(s, upTo)
  BY <1>1, KindKept
<1>4. \A b, e : OneKind(b, e)' <=> OneKind(b, e)
  BY <1>1, KindKept
<1>5. /\ Shown(out, n)' <=> Shown(out, n)
      /\ Shown(out, fsIdx)' <=> Shown(out, fsIdx)
      /\ OneKind(fsIdx, curIdx)' <=> OneKind(fsIdx, curIdx)
  BY <1>1, <1>2, <1>3, <1>4 DEF Shown, OneKind
<1> QED
  BY <1>1, <1>2, <1>5 DEF ParseOK

LEMMA InitParse == PrefixInit => ParseOK
BY DEF PrefixInit, Init, ParseOK, Parsed

LEMMA NextParse == ParseOK /\ [PrefixNext]_allVars => ParseOK'
<1> SUFFICES ASSUME ParseOK, [PrefixNext]_allVars PROVE ParseOK'
  OBVIOUS
<1>1. CASE \E nValue \in AnalysisTypes : setOption(nValue)
  <2>1. phase = "options" /\ phase' = "options" /\ UNCHANGED << text, curIdx, fsIdx, out, wordOffset >>
    BY <1>1 DEF setOption
  <2> QED
    BY <2>1, OptionsStep
<1>2. CASE \E bValue \in BOOLEAN : setAnalOption(bValue)
  <2>1. phase = "options" /\ phase' = "options" /\ UNCHANGED << text, curIdx, fsIdx, out, wordOffset >>
    BY <1>2 DEF setAnalOption
  <2> QED
    BY <2>1, OptionsStep
<1>3. CASE StartParse
  BY <1>3, StartParseStep
<1>4. CASE NextChar
  BY <1>4, NextCharStep
<1>5. CASE EndParse
  BY <1>5, EndParseStep
<1>6. CASE createWordOffset
  BY <1>6, OffsetStep
<1>7. CASE Return
  BY <1>7, ReturnStep
<1>8. CASE StartPrefix
  BY <1>8, PrefixLeaves DEF StartPrefix
<1>9. CASE FindWord
  BY <1>9, PrefixLeaves DEF FindWord
<1>10. CASE FindNoWord
  BY <1>10, PrefixLeaves DEF FindNoWord
<1>11. CASE EndWords
  BY <1>11, PrefixLeaves DEF EndWords
<1>12. CASE TakePair
  BY <1>12, PrefixLeaves DEF TakePair, InGap
<1>13. CASE TakeRun
  BY <1>13, PrefixLeaves DEF TakeRun, InGap
<1>14. CASE DropChar
  BY <1>14, PrefixLeaves DEF DropChar, InGap
<1>15. CASE NextGap
  BY <1>15, PrefixLeaves DEF NextGap
<1>16. CASE EndPrefix
  BY <1>16, PrefixLeaves DEF EndPrefix
<1>17. CASE UNCHANGED allVars
  BY <1>17, ParseStutter DEF allVars
<1> QED
  BY <1>1, <1>2, <1>3, <1>4, <1>5, <1>6, <1>7, <1>8, <1>9, <1>10, <1>11, <1>12, <1>13, <1>14, <1>15,
     <1>16, <1>17 DEF PrefixNext, Dictionary, Next

(* parseFMinCoverString and createWordOffset, read to the end of any text  *)
(* under any flags, keep their invariant.                                  *)
THEOREM AlwaysParse == PrefixSpec => []ParseOK
<1>1. PrefixInit => ParseOK
  BY InitParse
<1>2. ParseOK /\ [PrefixNext]_allVars => ParseOK'
  BY NextParse
<1> QED
  BY <1>1, <1>2, PTL DEF PrefixSpec

(* What createWordOffset gives an index: units have the same offset        *)
(* exactly when they begin at the same character, and offsets grow along   *)
(* the text.                                                               *)
THEOREM AlwaysOffsetsFollow == PrefixSpec => []OffsetsFollowText
<1>1. ParseOK => OffsetsFollowText
  BY DEF ParseOK, OffsetsFollowText, OffsetsOrdered, Parsed
<1> QED
  BY <1>1, AlwaysParse, PTL

LEMMA ShownIsCovered ==
  ASSUME Shown(out, n), n \in Nat
  PROVE  /\ UNION { u[1] .. u[2] - 1 : u \in Units } = { p \in 0 .. n - 1 : Ch(p).type # "SPACE" }
         /\ Cardinality(Units) = Len(out)
<1>1. Spread(out, 0, n, n)
  BY DEF Shown
<1>2. out \in Seq(Unit) /\ Len(out) \in Nat
  BY <1>1 DEF Spread
<1>3. ASSUME NEW p PROVE p \in UNION { u[1] .. u[2] - 1 : u \in Units } <=> Inside(out, p)
  BY DEF Units, Inside
<1>4. ASSUME NEW p, Inside(out, p) PROVE p \in 0 .. n - 1
  <2>1. PICK k \in 1 .. Len(out) : p \in out[k][1] .. out[k][2] - 1
    BY <1>4 DEF Inside
  <2>2. out[k][1] \in Nat /\ out[k][2] \in Nat /\ out[k][2] <= n
    BY <1>1, <1>2 DEF Spread, Unit
  <2> QED
    BY <2>1, <2>2
<1>5. ASSUME NEW p
      PROVE  p \in UNION { u[1] .. u[2] - 1 : u \in Units } <=> p \in 0 .. n - 1 /\ Ch(p).type # "SPACE"
  <2>1. p \in 0 .. n - 1 => (Inside(out, p) <=> Ch(p).type # "SPACE")
    BY DEF Shown
  <2> QED
    BY <1>3, <1>4, <2>1
<1>6. Cardinality(Units) = Len(out)
  <2> PICK l, g : l = Len(out) /\ g = [k \in 1 .. Len(out) |-> out[k]]
    OBVIOUS
  <2>1. \A j, k \in 1 .. l : out[j] = out[k] => j = k
    BY <1>1 DEF Spread
  <2>2. g \in [1 .. l -> Units] /\ \A k \in 1 .. l : g[k] = out[k]
    BY DEF Units
  <2>3. \A u \in Units : \E k \in 1 .. l : g[k] = u
    BY <2>2 DEF Units
  <2>4. \A j, k \in 1 .. l : g[j] = g[k] => j = k
    BY <2>1, <2>2
  <2>5. g \in Injection(1 .. l, Units)
    BY <2>2, <2>4 DEF Injection, IsInjective
  <2>6. g \in Surjection(1 .. l, Units)
    BY <2>2, <2>3 DEF Surjection
  <2>7. ExistsBijection(1 .. l, Units)
    BY <2>5, <2>6 DEF ExistsBijection, Bijection
  <2> QED
    BY <1>2, <2>7, FS_CountingElements
<1> QED
  BY <1>5, <1>6

(* However the flags of setOption and setAnalOption are combined,          *)
(* parseFMinCoverString loses no character of the text but its spaces,     *)
(* gives no space, and gives no unit twice.                                *)
THEOREM AlwaysCovered == PrefixSpec => []Covered
<1>1. ParseOK => Covered
  <2> SUFFICES ASSUME ParseOK, Parsed PROVE Covered
    BY DEF Covered
  <2>1. Shown(out, n) /\ n \in Nat /\ n = Len(text)
    BY TextIs DEF ParseOK, n
  <2> QED
    BY <2>1, ShownIsCovered DEF Covered
<1> QED
  BY <1>1, AlwaysParse, PTL
-----------------------------------------------------------------------------
(***************************************************************************)
(* The words of a run of CHAR_TYPE_OTHER.  All units are words or single   *)
(* characters; when they may overlap no word is missing, and else they do  *)
(* not overlap and are the words that were looked for, unless doUnigram is *)
(* set.                                                                    *)
(***************************************************************************)
FoundWord(q, e) == << q, q + dictLen(q, e) >>
WordUnits(e) == { u \in Unit : u[1] < e /\ u = FoundWord(u[1], e) }
CharUnits(e) == { u \in Unit : u[1] < e /\ u[2] = u[1] + 1 }
LongWords(e) == { u \in WordUnits(e) : u[2] > u[1] + 1 }

Apart(s) == \A j, k \in 1 .. Len(s) : j < k => s[j][2] <= s[k][1]
Has(s, u) == \E k \in 1 .. Len(s) : s[k] = u
HasFrom(s, b, e, X) == \A u \in X : u[1] \in b .. e - 1 => Has(s, u)

LEMMA ApartConcat ==
  ASSUME NEW b \in Nat, NEW m \in Nat, NEW e \in Nat, b <= m, m <= e, NEW s, NEW t,
         Spread(s, b, m, m), Spread(t, m, e, e), Apart(s), Apart(t)
  PROVE  Apart(s \o t)
<1> PICK u, l, r : u = s \o t /\ l = Len(s) /\ r = Len(t)
  OBVIOUS
<1>1. s \in Seq(Unit) /\ t \in Seq(Unit)
  BY DEF Spread
<1>2. /\ l \in Nat /\ r \in Nat /\ Len(u) = l + r
      /\ \A k \in 1 .. l : u[k] = s[k]
      /\ \A k \in 1 .. r : u[l + k] = t[k]
      /\ \A k \in 1 .. Len(u) : k \in 1 .. l \/ k - l \in 1 .. r
  BY <1>1, Concat
<1>3. \A k \in 1 .. l : s[k][2] <= m /\ s[k][2] \in Nat
  BY <1>1 DEF Spread, Unit
<1>4. \A k \in 1 .. r : m <= t[k][1] /\ t[k][1] \in Nat
  BY <1>1 DEF Spread, Unit
<1>5. ASSUME NEW k \in 1 .. Len(u)
      PROVE  (k \in 1 .. l /\ u[k] = s[k]) \/ (k - l \in 1 .. r /\ u[k] = t[k - l])
  <2>1. k \in 1 .. l \/ (k - l \in 1 .. r /\ k = l + (k - l))
    BY <1>2
  <2> QED
    BY <1>2, <2>1
<1> SUFFICES ASSUME NEW j \in 1 .. Len(u), NEW k \in 1 .. Len(u), j < k PROVE u[j][2] <= u[k][1]
  BY DEF Apart
<1>6. j \in Int /\ k \in Int /\ l \in Int
  BY <1>2
<1>7. CASE k \in 1 .. l /\ u[k] = s[k]
  <2>1. j \in 1 .. l
    BY <1>6, <1>7
  <2>2. u[j] = s[j] /\ s[j][2] <= s[k][1]
    BY <1>2, <1>7, <2>1 DEF Apart
  <2> QED
    BY <1>7, <2>2
<1>8. CASE k - l \in 1 .. r /\ u[k] = t[k - l]
  <2>1. CASE j \in 1 .. l /\ u[j] = s[j]
    <3>1. s[j][2] <= t[k - l][1]
      BY <1>3, <1>4, <1>8, <2>1
    <3> QED
      BY <1>8, <2>1, <3>1
  <2>2. CASE j - l \in 1 .. r /\ u[j] = t[j - l]
    <3>1. j - l < k - l
      BY <1>6
    <3>2. t[j - l][2] <= t[k - l][1]
      BY <1>8, <2>2, <3>1 DEF Apart
    <3> QED
      BY <1>8, <2>2, <3>2
  <2> QED
    BY <1>5, <2>1, <2>2
<1> QED
  BY <1>5, <1>7, <1>8

LEMMA HasConcat ==
  ASSUME NEW s \in Seq(Unit), NEW t \in Seq(Unit), NEW u
  PROVE  Has(s \o t, u) <=> Has(s, u) \/ Has(t, u)
<1> PICK w : w = s \o t
  OBVIOUS
<1>1. /\ Len(s) \in Nat
      /\ \A k \in 1 .. Len(s) : k \in 1 .. Len(w) /\ w[k] = s[k]
      /\ \A k \in 1 .. Len(t) : Len(s) + k \in 1 .. Len(w) /\ w[Len(s) + k] = t[k]
      /\ \A k \in 1 .. Len(w) : k \in 1 .. Len(s) \/ k - Len(s) \in 1 .. Len(t)
  BY Concat
<1>2. ASSUME Has(s, u) PROVE Has(w, u)
  BY <1>1, <1>2 DEF Has
<1>3. ASSUME Has(t, u) PROVE Has(w, u)
  <2>1. PICK k \in 1 .. Len(t) : t[k] = u
    BY <1>3 DEF Has
  <2>2. Len(s) + k \in 1 .. Len(w) /\ w[Len(s) + k] = u
    BY <1>1, <2>1
  <2> QED
    BY <2>2 DEF Has
<1>4. ASSUME Has(w, u) PROVE Has(s, u) \/ Has(t, u)
  <2>1. PICK k \in 1 .. Len(w) : w[k] = u
    BY <1>4 DEF Has
  <2>2. CASE k \in 1 .. Len(s)
    BY <1>1, <2>1, <2>2 DEF Has
  <2>3. CASE k - Len(s) \in 1 .. Len(t)
    <3>1. Len(s) + (k - Len(s)) = k
      BY <1>1, <2>1
    <3>2. w[k] = t[k - Len(s)]
      BY <1>1, <2>3, <3>1
    <3> QED
      BY <2>1, <2>3, <3>2 DEF Has
  <2> QED
    BY <1>1, <2>2, <2>3
<1> QED
  BY <1>2, <1>3, <1>4

LEMMA PiecesApart ==
  ASSUME NEW b \in Nat, NEW e \in Nat, b <= e, NEW piece, NEW end,
         \A p \in b .. e - 1 : /\ end[p] \in p + 1 .. e
                               /\ Spread(piece[p], p, end[p], end[p]) /\ Apart(piece[p])
  PROVE  Apart(Pieces(b, e, piece, end))
<1> DEFINE R == { x \in Seq(Unit) \X Nat \X Nat : Spread(x[1], x[2], x[3], x[3]) /\ Apart(x[1]) }
<1>1. << << >>, e, e >> \in R
  <2>1. << >> \in Seq(Unit) /\ Apart(<< >>) /\ Spread(<< >>, e, e, e)
    BY NoUnit DEF Apart
  <2> QED
    BY <2>1
<1>2. ASSUME NEW p \in b .. e - 1 PROVE << piece[p], p, end[p] >> \in R
  <2>1. piece[p] \in Seq(Unit) /\ p \in Nat /\ end[p] \in Nat
    BY DEF Spread
  <2> QED
    BY <2>1
<1>3. ASSUME NEW p \in b .. e, NEW m \in b .. e, NEW s, NEW t, p <= m,
             << s, p, m >> \in R, << t, m, e >> \in R
      PROVE  << s \o t, p, e >> \in R
  <2>1. /\ Spread(s, p, m, m) /\ Spread(t, m, e, e) /\ Apart(s) /\ Apart(t)
        /\ s \in Seq(Unit) /\ t \in Seq(Unit) /\ p \in Nat /\ m \in Nat /\ m <= e
    BY <1>3
  <2>2. Spread(s, p, m, e)
    BY <2>1, Widen
  <2>3. Spread(s \o t, p, e, e)
    BY <1>3, <2>1, <2>2, SpreadConcat
  <2>4. Apart(s \o t)
    BY <1>3, <2>1, ApartConcat
  <2>5. s \o t \in Seq(Unit)
    BY <2>1
  <2> QED
    BY <2>1, <2>3, <2>4, <2>5
<1>4. << Pieces(b, e, piece, end), b, e >> \in R
  <2> HIDE DEF R
  <2> QED
    BY <1>1, <1>2, <1>3, PiecesIn
<1> QED
  BY <1>4

LEMMA PiecesHave ==
  ASSUME NEW b \in Nat, NEW e \in Nat, b <= e, NEW piece, NEW end, NEW X \in SUBSET Unit,
         \A p \in b .. e - 1 : /\ end[p] \in p + 1 .. e
                               /\ piece[p] \in Seq(Unit) /\ HasFrom(piece[p], p, end[p], X)
  PROVE  HasFrom(Pieces(b, e, piece, end), b, e, X)
<1> DEFINE R == { x \in Seq(Unit) \X Nat \X Nat : HasFrom(x[1], x[2], x[3], X) }
<1>1. << << >>, e, e >> \in R
  <2>1. << >> \in Seq(Unit) /\ HasFrom(<< >>, e, e, X)
    BY DEF HasFrom
  <2> QED
    BY <2>1
<1>2. ASSUME NEW p \in b .. e - 1 PROVE << piece[p], p, end[p] >> \in R
  <2>1. piece[p] \in Seq(Unit) /\ p \in Nat /\ end[p] \in Nat
    OBVIOUS
  <2> QED
    BY <2>1
<1>3. ASSUME NEW p \in b .. e, NEW m \in b .. e, NEW s, NEW t, p <= m,
             << s, p, m >> \in R, << t, m, e >> \in R
      PROVE  << s \o t, p, e >> \in R
  <2>1. /\ HasFrom(s, p, m, X) /\ HasFrom(t, m, e, X)
        /\ s \in Seq(Unit) /\ t \in Seq(Unit) /\ p \in Nat /\ m \in Nat
    BY <1>3
  <2>2. ASSUME NEW u \in X, u[1] \in p .. e - 1 PROVE Has(s \o t, u)
    <3>1. u[1] \in p .. m - 1 \/ u[1] \in m .. e - 1
      BY <2>1, <2>2
    <3>2. Has(s, u) \/ Has(t, u)
      BY <2>1, <3>1 DEF HasFrom
    <3> QED
      BY <2>1, <3>2, HasConcat
  <2>3. s \o t \in Seq(Unit) /\ HasFrom(s \o t, p, e, X)
    BY <2>1, <2>2 DEF HasFrom
  <2> QED
    BY <2>1, <2>3
<1>4. << Pieces(b, e, piece, end), b, e >> \in R
  <2> HIDE DEF R
  <2> QED
    BY <1>1, <1>2, <1>3, PiecesIn
<1> QED
  BY <1>4

LEMMA OneApart == ASSUME NEW u PROVE Apart(<< u >>)
<1>1. \A j, k \in 1 .. Len(<< u >>) : ~(j < k)
  OBVIOUS
<1> QED
  BY <1>1 DEF Apart

(* A cluster without a crossing is one word. *)
LEMMA LoneEnd ==
  ASSUME NEW p \in Nat, NEW e \in Nat, p < e, ~haveCross(p, e)
  PROVE  ClusterEnd(p, e) = p + dictLen(p, e)
<1> PICK l, E : l = dictLen(p, e) /\ E = ClusterEnd(p, e)
  OBVIOUS
<1> DEFINE S == { d \in p + 1 .. e : \A q \in p .. d - 1 : q + dictLen(q, e) <= d }
<1>1. l \in Nat /\ 1 <= l /\ p + l <= e
  BY DictLenIs
<1>2. E \in p + 1 .. e /\ \A q \in p .. E - 1 : q + dictLen(q, e) <= E
  BY ClusterEndIs
<1>3. p + l <= E
  <2>1. p \in p .. E - 1
    BY <1>2
  <2> QED
    BY <1>2, <2>1
<1>4. p + l \in S
  <2>1. p + l \in p + 1 .. e
    BY <1>1
  <2>2. ASSUME NEW q \in p .. (p + l) - 1 PROVE q + dictLen(q, e) <= p + l
    <3>1. CASE q = p
      BY <1>1, <3>1
    <3>2. CASE q # p
      <4>1. q \in p + 1 .. E - 1 /\ q \in Nat /\ q < e /\ q + 1 <= p + l
        BY <1>1, <1>2, <1>3, <3>2
      <4>2. dictLen(q, e) \in Nat /\ 1 <= dictLen(q, e) /\ ~(dictLen(q, e) > 1)
        BY <4>1, DictLenIs DEF haveCross
      <4>3. dictLen(q, e) = 1
        BY <4>2
      <4> QED
        BY <4>1, <4>3
    <3> QED
      BY <3>1, <3>2
  <2> QED
    BY <2>1, <2>2
<1>5. E <= p + l
  <2>1. E = Min(S)
    BY DEF ClusterEnd
  <2>2. S \in SUBSET Nat
    OBVIOUS
  <2> HIDE DEF S
  <2>3. Min(S) <= p + l
    BY <1>4, <2>2, LeastElement
  <2> QED
    BY <2>1, <2>3
<1> QED
  BY <1>1, <1>2, <1>3, <1>5

(* What a list of units of a run that ends at e keeps. *)
LEMMA ChainWords ==
  ASSUME NEW b \in Nat, NEW E \in Nat, NEW e \in Nat, b <= E, E <= e,
         \A q \in b .. E - 1 : q + dictLen(q, e) <= E
  PROVE  Chain(b, E, e) \in Seq(WordUnits(e)) /\ Apart(Chain(b, E, e))
<1> DEFINE piece == [q \in b .. E - 1 |-> << << q, q + dictLen(q, e) >> >>]
           end == [q \in b .. E - 1 |-> q + dictLen(q, e)]
<1>1. ASSUME NEW q \in b .. E - 1
      PROVE  /\ end[q] \in q + 1 .. E /\ Spread(piece[q], q, end[q], end[q]) /\ Apart(piece[q])
             /\ piece[q] \in Seq(WordUnits(e))
  <2> PICK d : d = q + dictLen(q, e)
    OBVIOUS
  <2>1. q \in Nat /\ q < e /\ dictLen(q, e) \in Nat /\ 1 <= dictLen(q, e)
    <3>1. q \in Nat /\ q < e
      OBVIOUS
    <3> QED
      BY <3>1, DictLenIs
  <2>2. d \in q + 1 .. E /\ d \in Nat /\ q < d
    BY <2>1
  <2>3. piece[q] = << << q, d >> >> /\ end[q] = d
    OBVIOUS
  <2>4. << q, d >> \in WordUnits(e)
    BY <2>1, <2>2 DEF WordUnits, FoundWord, Unit
  <2> HIDE DEF piece, end
  <2>5. Spread(<< << q, d >> >>, q, d, d) /\ Apart(<< << q, d >> >>)
    BY <2>1, <2>2, OneUnit, OneApart
  <2> QED
    BY <2>2, <2>3, <2>4, <2>5
<1>2. Chain(b, E, e) = Pieces(b, E, piece, end)
  BY DEF Chain
<1>3. WordUnits(e) \in SUBSET Unit
  BY DEF WordUnits
<1> HIDE DEF piece, end
<1>4. Apart(Pieces(b, E, piece, end))
  BY <1>1, PiecesApart
<1>5. Pieces(b, E, piece, end) \in Seq(WordUnits(e))
  <2> PICK V : V = WordUnits(e)
    OBVIOUS
  <2>1. V \in SUBSET Unit /\ \A q \in b .. E - 1 : end[q] \in q + 1 .. E /\ piece[q] \in Seq(V)
    BY <1>1, <1>3
  <2> QED
    BY <2>1, PiecesOf
<1> QED
  BY <1>2, <1>4, <1>5

LEMMA OverlappingWords ==
  ASSUME NEW b \in Nat, NEW E \in Nat, NEW e \in Nat, b <= E, E <= e,
         \A q \in b .. E - 1 : q + dictLen(q, e) <= E
  PROVE  /\ Overlapping(b, E, e) \in Seq(WordUnits(e) \cup CharUnits(e))
         /\ HasFrom(Overlapping(b, E, e), b, E, LongWords(e))
<1> DEFINE piece == [q \in b .. E - 1 |-> IF dictLen(q, e) = 1 THEN << << q, q + 1 >> >>
                                          ELSE << << q, q + 1 >>, << q, q + dictLen(q, e) >> >>]
           end == [q \in b .. E - 1 |-> q + 1]
<1>0. WordUnits(e) \cup CharUnits(e) \in SUBSET Unit /\ LongWords(e) \in SUBSET Unit
  BY DEF WordUnits, CharUnits, LongWords
<1>1. ASSUME NEW q \in b .. E - 1
      PROVE  /\ end[q] \in q + 1 .. E
             /\ piece[q] \in Seq(WordUnits(e) \cup CharUnits(e))
             /\ HasFrom(piece[q], q, end[q], LongWords(e))
  <2> PICK l, d : l = dictLen(q, e) /\ d = q + dictLen(q, e)
    OBVIOUS
  <2>1. q \in Nat /\ q < e /\ l \in Nat /\ 1 <= l /\ d = q + l
    <3>1. q \in Nat /\ q < e
      OBVIOUS
    <3> QED
      BY <3>1, DictLenIs
  <2>2. d \in Nat /\ q + 1 \in Nat
    BY <2>1
  <2>3. /\ end[q] = q + 1
        /\ piece[q] = IF l = 1 THEN << << q, q + 1 >> >> ELSE << << q, q + 1 >>, << q, d >> >>
    OBVIOUS
  <2>4. << q, d >> \in WordUnits(e) /\ << q, q + 1 >> \in CharUnits(e)
    BY <2>1, <2>2 DEF WordUnits, CharUnits, FoundWord, Unit
  <2> HIDE DEF piece, end
  <2>5. end[q] \in q + 1 .. E /\ q .. end[q] - 1 = { q }
    BY <2>1, <2>3
  <2>6. ASSUME NEW u \in LongWords(e), u[1] \in q .. end[q] - 1 PROVE Has(piece[q], u)
    <3>1. u[1] = q /\ u = << q, d >> /\ u[2] > u[1] + 1
      BY <2>5, <2>6 DEF LongWords, WordUnits, FoundWord
    <3>2. l # 1
      BY <2>1, <3>1
    <3>3. piece[q] = << << q, q + 1 >>, << q, d >> >>
      BY <2>3, <3>2
    <3>4. 2 \in 1 .. Len(piece[q]) /\ piece[q][2] = u
      BY <3>1, <3>3
    <3> QED
      BY <3>4 DEF Has
  <2>7. piece[q] \in Seq(WordUnits(e) \cup CharUnits(e))
    <3> PICK V, u, v : V = WordUnits(e) \cup CharUnits(e) /\ u = << q, q + 1 >> /\ v = << q, d >>
      OBVIOUS
    <3>1. u \in V /\ v \in V /\ piece[q] = IF l = 1 THEN << u >> ELSE << u, v >>
      BY <2>3, <2>4
    <3>2. << u >> \in Seq(V) /\ << u, v >> \in Seq(V)
      BY <3>1
    <3> QED
      BY <3>1, <3>2
  <2> QED
    BY <2>5, <2>6, <2>7 DEF HasFrom
<1>2. Overlapping(b, E, e) = Pieces(b, E, piece, end)
  BY DEF Overlapping
<1> HIDE DEF piece, end
<1> PICK V, X : V = WordUnits(e) \cup CharUnits(e) /\ X = LongWords(e)
  OBVIOUS
<1>3. /\ V \in SUBSET Unit /\ X \in SUBSET Unit
      /\ \A q \in b .. E - 1 : /\ end[q] \in q + 1 .. E /\ piece[q] \in Seq(V) /\ piece[q] \in Seq(Unit)
                               /\ HasFrom(piece[q], q, end[q], X)
  BY <1>0, <1>1
<1>4. Pieces(b, E, piece, end) \in Seq(V)
  BY <1>3, PiecesOf
<1>5. HasFrom(Pieces(b, E, piece, end), b, E, X)
  BY <1>3, PiecesHave
<1> QED
  BY <1>2, <1>4, <1>5

Strict == analOption.noOverlap /\ ~analOption.doUnigram

(* What the units of a text from b to m promise of the words of a run that *)
(* ends at e.                                                              *)
RunWords(s, b, m, e) ==
  /\ s \in Seq(WordUnits(e) \cup CharUnits(e))
  /\ ~analOption.noOverlap => HasFrom(s, b, m, LongWords(e))
  /\ Strict => s \in Seq(WordUnits(e)) /\ Apart(s)

LEMMA ClusterWords ==
  ASSUME NEW p \in Nat, NEW e \in Nat, p < e
  PROVE  RunWords(Cluster(p, e), p, ClusterEnd(p, e), e)
<1> PICK E : E = ClusterEnd(p, e)
  OBVIOUS
<1>1. E \in p + 1 .. e /\ E \in Nat /\ p <= E /\ E <= e /\ p < E /\ \A q \in p .. E - 1 : q + dictLen(q, e) <= E
  BY ClusterEndIs
<1>2. CASE haveCross(p, e) /\ analOption.noOverlap
  <2>1. Cluster(p, e) = Chain(p, E, e)
    BY <1>2 DEF Cluster
  <2>2. Chain(p, E, e) \in Seq(WordUnits(e)) /\ Apart(Chain(p, E, e))
    BY <1>1, ChainWords
  <2> QED
    BY <1>2, <2>1, <2>2 DEF RunWords
<1>3. CASE \/ haveCross(p, e) /\ ~analOption.noOverlap
           \/ ~haveCross(p, e) /\ analOption.doUnigram /\ E > p + 1
  <2>1. Cluster(p, e) = Overlapping(p, E, e)
    BY <1>3 DEF Cluster
  <2>2. ~Strict
    BY <1>3 DEF Strict
  <2> QED
    BY <1>1, <2>1, <2>2, OverlappingWords DEF RunWords
<1>4. CASE ~haveCross(p, e) /\ ~(analOption.doUnigram /\ E > p + 1)
  <2>1. Cluster(p, e) = << << p, E >> >>
    BY <1>4 DEF Cluster
  <2>2. E = p + dictLen(p, e)
    BY <1>4, LoneEnd
  <2>3. << p, E >> \in WordUnits(e)
    BY <1>1, <2>2 DEF WordUnits, FoundWord, Unit
  <2>4. Apart(<< << p, E >> >>)
    BY OneApart
  <2>5. ASSUME NEW u \in LongWords(e), u[1] \in p .. E - 1 PROVE Has(<< << p, E >> >>, u)
    <3>1. u = << u[1], u[1] + dictLen(u[1], e) >> /\ u[2] > u[1] + 1
      BY DEF LongWords, WordUnits, FoundWord
    <3>2. u[1] = p
      <4> SUFFICES ASSUME u[1] # p PROVE FALSE
        OBVIOUS
      <4> PICK q : q = u[1]
        OBVIOUS
      <4>1. q \in p + 1 .. E - 1 /\ q \in Nat /\ q < e
        BY <1>1, <2>5
      <4>2. dictLen(q, e) \in Nat /\ q + dictLen(q, e) > q + 1
        <5>1. u[2] = q + dictLen(q, e)
          BY <3>1
        <5> QED
          BY <3>1, <4>1, <5>1, DictLenIs
      <4>3. dictLen(q, e) > 1
        BY <4>1, <4>2
      <4> QED
        BY <1>4, <4>1, <4>3 DEF haveCross
    <3>3. u = << p, E >>
      BY <2>2, <3>1, <3>2
    <3>4. 1 \in 1 .. Len(<< << p, E >> >>) /\ << << p, E >> >>[1] = u
      BY <3>3
    <3> QED
      BY <3>4 DEF Has
  <2>6. << << p, E >> >> \in Seq(WordUnits(e)) /\ << << p, E >> >> \in Seq(WordUnits(e) \cup CharUnits(e))
    BY <2>3
  <2> QED
    BY <2>1, <2>4, <2>5, <2>6 DEF RunWords, HasFrom
<1> QED
  BY <1>2, <1>3, <1>4

LEMMA NormalStringWords ==
  ASSUME NEW b \in Nat, NEW e \in Nat, b < e
  PROVE  RunWords(divideNormalString(b, e), b, e, e)
<1> DEFINE piece == [p \in b .. e - 1 |-> Cluster(p, e)]
           end == [p \in b .. e - 1 |-> ClusterEnd(p, e)]
<1>1. ASSUME NEW p \in b .. e - 1
      PROVE  /\ end[p] \in p + 1 .. e /\ Spread(piece[p], p, end[p], end[p])
             /\ RunWords(piece[p], p, end[p], e)
  <2>1. p \in Nat /\ p < e /\ piece[p] = Cluster(p, e) /\ end[p] = ClusterEnd(p, e)
    OBVIOUS
  <2> HIDE DEF piece, end
  <2> QED
    BY <2>1, ClusterIs, ClusterEndIs, ClusterWords
<1>2. divideNormalString(b, e) = Pieces(b, e, piece, end)
  BY DEF divideNormalString
<1> HIDE DEF piece, end
<1> PICK V, W, X : V = WordUnits(e) \cup CharUnits(e) /\ W = WordUnits(e) /\ X = LongWords(e)
  OBVIOUS
<1>3. V \in SUBSET Unit /\ W \in SUBSET Unit /\ X \in SUBSET Unit /\ b <= e
  BY DEF WordUnits, CharUnits, LongWords
<1>4. Pieces(b, e, piece, end) \in Seq(V)
  <2>1. \A p \in b .. e - 1 : end[p] \in p + 1 .. e /\ piece[p] \in Seq(V)
    BY <1>1 DEF RunWords
  <2> QED
    BY <1>3, <2>1, PiecesOf
<1>5. ASSUME ~analOption.noOverlap PROVE HasFrom(Pieces(b, e, piece, end), b, e, X)
  <2>1. \A p \in b .. e - 1 : /\ end[p] \in p + 1 .. e /\ piece[p] \in Seq(Unit)
                              /\ HasFrom(piece[p], p, end[p], X)
    BY <1>1, <1>5 DEF RunWords, Spread
  <2> QED
    BY <1>3, <2>1, PiecesHave
<1>6. ASSUME Strict PROVE Pieces(b, e, piece, end) \in Seq(W) /\ Apart(Pieces(b, e, piece, end))
  <2>1. \A p \in b .. e - 1 : /\ end[p] \in p + 1 .. e /\ piece[p] \in Seq(W)
                              /\ Spread(piece[p], p, end[p], end[p]) /\ Apart(piece[p])
    BY <1>1, <1>6 DEF RunWords
  <2>2. Pieces(b, e, piece, end) \in Seq(W)
    BY <1>3, <2>1, PiecesOf
  <2>3. Apart(Pieces(b, e, piece, end))
    BY <1>3, <2>1, PiecesApart
  <2> QED
    BY <2>2, <2>3
<1> QED
  BY <1>2, <1>4, <1>5, <1>6 DEF RunWords

(* No unit of another run overlaps the one before. *)
LEMMA PartsApart ==
  ASSUME NEW b \in Nat, NEW e \in Nat, b < e, Strict
  PROVE  Apart(Parts(b, e))
<1> DEFINE piece == [p \in b .. e - 1 |-> Part(b, p, e)]
           end == [p \in b .. e - 1 |-> SameTypeEnd(p, e)]
<1>1. ASSUME NEW p \in b .. e - 1
      PROVE  end[p] \in p + 1 .. e /\ Spread(piece[p], p, end[p], end[p]) /\ Apart(piece[p])
  <2> PICK q : q = SameTypeEnd(p, e)
    OBVIOUS
  <2>1. p \in Nat /\ b <= p /\ p < e /\ piece[p] = Part(b, p, e) /\ end[p] = q
    OBVIOUS
  <2>2. q \in p + 1 .. e /\ Spread(Part(b, p, e), p, q, q)
    BY <2>1, PartIs, SameTypeEndIs
  <2>3. Part(b, p, e) = << << p, q >> >> \o << >>
    BY DEF Part, Strict
  <2>4. << << p, q >> >> \o << >> = << << p, q >> >>
    OBVIOUS
  <2>5. Apart(Part(b, p, e))
    BY <2>3, <2>4, OneApart
  <2> HIDE DEF piece, end
  <2> QED
    BY <2>1, <2>2, <2>5
<1>2. Parts(b, e) = Pieces(b, e, piece, end) /\ b <= e
  BY DEF Parts
<1> HIDE DEF piece, end
<1> QED
  BY <1>1, <1>2, PiecesApart

LEMMA RunApart ==
  ASSUME text \in Texts, NEW b \in Nat, NEW e \in Nat, b < e, e <= n, Strict
  PROVE  Apart(addFMinCString(b, e))
<1> PICK c : c = Ch(e - 1).type
  OBVIOUS
<1>1. c \in CharType
  <2>1. e - 1 + 1 \in 1 .. Len(text)
    BY TextIs DEF n
  <2> QED
    BY <2>1, TextsAssumption DEF IsText, Ch
<1>2. CASE c = "OTHER"
  BY <1>2, NormalStringWords DEF addFMinCString, RunWords
<1>3. CASE c \in { "DIGIT", "LETTER" }
  <2>1. addFMinCString(b, e) = IF analOption.mergeAlphaDigit THEN << << b, e >> >> ELSE Parts(b, e)
    BY <1>3 DEF addFMinCString, divideDigitLetterString, Strict
  <2> QED
    BY <2>1, OneApart, PartsApart
<1>4. CASE c \in { "DATE", "CHARDIGIT" }
  <2>1. addFMinCString(b, e) = << << b, e >> >> \o << >>
    BY <1>4 DEF addFMinCString, DateString, CharDigitString, Strict
  <2>2. << << b, e >> >> \o << >> = << << b, e >> >>
    OBVIOUS
  <2> QED
    BY <2>1, <2>2, OneApart
<1>5. CASE c = "PUNC"
  BY <1>5, OneApart DEF addFMinCString
<1>6. CASE c = "SPACE"
  BY <1>6 DEF addFMinCString, Apart
<1> QED
  BY <1>1, <1>2, <1>3, <1>4, <1>5, <1>6 DEF CharType
-----------------------------------------------------------------------------
(* A run goes on from a character of CHAR_TYPE_OTHER with such ones only.  *)
IsOther(p) == Ch(p).type = "OTHER"
OtherTail(b, e) == \A p \in b .. e - 1 : IsOther(p) => \A q \in p .. e - 1 : IsOther(q)

(* Of all runs before upTo. *)
WordsShown(s, upTo) ==
  /\ \A k \in 1 .. Len(s) : IsOther(s[k][1]) =>
       s[k] \in WordUnits(RunEnd(s[k][1])) \cup CharUnits(RunEnd(s[k][1]))
  /\ ~analOption.noOverlap =>
       \A q \in 0 .. upTo - 1 : IsOther(q) =>
         \A u \in LongWords(RunEnd(q)) : u[1] = q => Has(s, u)
  /\ Strict => /\ Apart(s)
               /\ \A k \in 1 .. Len(s) : IsOther(s[k][1]) => s[k] \in WordUnits(RunEnd(s[k][1]))

LEMMA RunEndIs ==
  ASSUME NEW p \in Nat, NEW e \in Nat, p < e, e <= n, n \in Nat,
         \A q \in p .. e - 1 : IsOther(q), e = n \/ ~IsOther(e)
  PROVE  RunEnd(p) = e
<1> DEFINE S == { n } \cup { q \in p .. n - 1 : Ch(q).type # "OTHER" }
<1>1. RunEnd(p) = Min(S)
  BY DEF RunEnd, n
<1>2. S \in SUBSET Nat /\ S # {} /\ e \in S
  BY DEF IsOther
<1>3. \A q \in S : e <= q
  <2> SUFFICES ASSUME NEW q \in S PROVE e <= q
    OBVIOUS
  <2>1. q \in Nat /\ (q = n \/ (q \in p .. n - 1 /\ ~IsOther(q)))
    BY DEF IsOther
  <2>2. CASE q = n
    BY <2>2
  <2>3. CASE q \in p .. n - 1 /\ ~IsOther(q)
    <3>1. ~(q \in p .. e - 1)
      BY <2>3
    <3> QED
      BY <2>3, <3>1
  <2> QED
    BY <2>1, <2>2, <2>3
<1> HIDE DEF S
<1>4. Min(S) \in S /\ Min(S) <= e /\ e <= Min(S)
  BY <1>2, <1>3, LeastElement
<1>5. Min(S) \in Nat
  BY <1>2, <1>4
<1> QED
  BY <1>1, <1>4, <1>5

LEMMA OneMoreRunWords ==
  ASSUME text \in Texts, NEW b \in Nat, NEW e \in Nat, b < e, e <= n, OtherTail(b, e),
         e = n \/ ~(IsOther(e) /\ IsOther(e - 1)),
         NEW s, Spread(s, 0, b, b), WordsShown(s, b)
  PROVE  WordsShown(s \o addFMinCString(b, e), e)
<1> PICK t, u : t = addFMinCString(b, e) /\ u = s \o t
  OBVIOUS
<1>1. Spread(t, b, e, e) /\ s \in Seq(Unit) /\ t \in Seq(Unit)
  <2>1. Spread(t, b, e, e)
    BY RunIs
  <2> QED
    BY <2>1 DEF Spread
<1>2. ASSUME NEW q \in b .. e - 1, IsOther(q)
      PROVE  RunEnd(q) = e /\ IsOther(e - 1) /\ RunWords(t, b, e, e)
  <2>1. \A r \in q .. e - 1 : IsOther(r)
    BY <1>2 DEF OtherTail
  <2>2. q \in Nat /\ q < e /\ e - 1 \in q .. e - 1 /\ n \in Nat
    BY TextIs DEF n
  <2>3. IsOther(e - 1)
    BY <2>1, <2>2
  <2>4. RunEnd(q) = e
    BY <2>1, <2>2, <2>3, RunEndIs
  <2>5. t = divideNormalString(b, e)
    BY <2>3 DEF addFMinCString, IsOther
  <2> QED
    BY <2>3, <2>4, <2>5, NormalStringWords
<1>3. ASSUME NEW k \in 1 .. Len(t), IsOther(t[k][1])
      PROVE  /\ t[k] \in WordUnits(RunEnd(t[k][1])) \cup CharUnits(RunEnd(t[k][1]))
             /\ Strict => t[k] \in WordUnits(RunEnd(t[k][1]))
  <2>1. t[k][1] \in b .. e - 1
    BY <1>1 DEF Spread, Unit
  <2>2. RunEnd(t[k][1]) = e /\ RunWords(t, b, e, e)
    BY <1>2, <1>3, <2>1
  <2> PICK V, W : V = WordUnits(e) \cup CharUnits(e) /\ W = WordUnits(e)
    OBVIOUS
  <2>3. t \in Seq(V) /\ (Strict => t \in Seq(W))
    BY <2>2 DEF RunWords
  <2>4. t[k] \in V /\ (Strict => t[k] \in W)
    BY <2>3
  <2> QED
    BY <2>2, <2>4
<1>4. ASSUME NEW k \in 1 .. Len(u)
      PROVE  (k \in 1 .. Len(s) /\ u[k] = s[k]) \/ (\E j \in 1 .. Len(t) : u[k] = t[j])
  <2>0. Len(s) \in Nat /\ Len(t) \in Nat /\ Len(u) = Len(s) + Len(t)
    BY <1>1, Concat
  <2>1. k \in 1 .. Len(s) \/ (k - Len(s) \in 1 .. Len(t) /\ k = Len(s) + (k - Len(s)))
    BY <2>0
  <2> QED
    BY <1>1, <2>1, Concat
<1>5. ASSUME NEW k \in 1 .. Len(u), IsOther(u[k][1])
      PROVE  /\ u[k] \in WordUnits(RunEnd(u[k][1])) \cup CharUnits(RunEnd(u[k][1]))
             /\ Strict => u[k] \in WordUnits(RunEnd(u[k][1]))
  <2>1. CASE k \in 1 .. Len(s) /\ u[k] = s[k]
    <3>1. IsOther(s[k][1])
      BY <1>5, <2>1
    <3>2. /\ s[k] \in WordUnits(RunEnd(s[k][1])) \cup CharUnits(RunEnd(s[k][1]))
          /\ Strict => s[k] \in WordUnits(RunEnd(s[k][1]))
      BY <2>1, <3>1 DEF WordsShown
    <3> QED
      BY <2>1, <3>2
  <2>2. CASE \E j \in 1 .. Len(t) : u[k] = t[j]
    <3>1. PICK j \in 1 .. Len(t) : u[k] = t[j]
      BY <2>2
    <3>2. IsOther(t[j][1])
      BY <1>5, <3>1
    <3>3. /\ t[j] \in WordUnits(RunEnd(t[j][1])) \cup CharUnits(RunEnd(t[j][1]))
          /\ Strict => t[j] \in WordUnits(RunEnd(t[j][1]))
      BY <1>3, <3>2
    <3> QED
      BY <3>1, <3>3
  <2> QED
    BY <1>4, <2>1, <2>2
<1>6. ASSUME ~analOption.noOverlap, NEW q \in 0 .. e - 1, IsOther(q),
             NEW w \in LongWords(RunEnd(q)), w[1] = q
      PROVE  Has(u, w)
  <2>1. CASE q \in 0 .. b - 1
    <3>1. Has(s, w)
      BY <1>6, <2>1 DEF WordsShown
    <3> QED
      BY <1>1, <3>1, HasConcat
  <2>2. CASE q \in b .. e - 1
    <3>1. RunEnd(q) = e /\ RunWords(t, b, e, e)
      BY <1>2, <1>6, <2>2
    <3>2. Has(t, w)
      BY <1>6, <2>2, <3>1 DEF RunWords, HasFrom
    <3> QED
      BY <1>1, <3>2, HasConcat
  <2> QED
    BY <2>1, <2>2
<1>7. ASSUME Strict PROVE Apart(u)
  <2>1. Apart(s) /\ Apart(t) /\ 0 \in Nat /\ 0 <= b /\ b <= e
    BY <1>7, RunApart DEF WordsShown
  <2> QED
    BY <1>1, <2>1, ApartConcat
<1> QED
  BY <1>5, <1>6, <1>7 DEF WordsShown

LEMMA OtherRun ==
  ASSUME NEW b \in Nat, NEW c \in Nat, b < c, OtherTail(b, c), ~Boundary(c)
  PROVE  OtherTail(b, c + 1)
<1>1. IsOther(c - 1) => IsOther(c)
  BY DEF Boundary, IsOther
<1> SUFFICES ASSUME NEW p \in b .. c, IsOther(p), NEW q \in p .. c PROVE IsOther(q)
  BY DEF OtherTail
<1>2. CASE q \in p .. c - 1
  BY <1>2 DEF OtherTail
<1>3. CASE q = c
  <2>1. CASE p = c
    BY <1>3, <2>1
  <2>2. CASE p \in b .. c - 1
    <3>1. c - 1 \in p .. c - 1
      BY <2>2
    <3>2. IsOther(c - 1)
      BY <2>2, <3>1 DEF OtherTail
    <3> QED
      BY <1>1, <1>3, <3>2
  <2> QED
    BY <2>1, <2>2
<1> QED
  BY <1>2, <1>3
-----------------------------------------------------------------------------
(* The words of the dictionary approach: an invariant next to ParseOK.     *)
FoundOK ==
  /\ phase = "parse" => OtherTail(fsIdx, curIdx) /\ WordsShown(out, fsIdx)
  /\ Parsed => WordsShown(out, n)

LEMMA WordsKept ==
  ASSUME UNCHANGED << analOption, dict, text >>
  PROVE  /\ \A s, upTo : WordsShown(s, upTo)' <=> WordsShown(s, upTo)
         /\ \A b, e : OtherTail(b, e)' <=> OtherTail(b, e)
         /\ n' = n
<1>1. n' = n /\ (\A p : Ch(p)' = Ch(p)) /\ (\A p : IsOther(p)' <=> IsOther(p)) /\ (Strict' <=> Strict)
  BY DEF n, Ch, IsOther, Strict
<1>2. \A b, e : Word(b, e)' = Word(b, e)
  BY <1>1 DEF Word
<1>3. \A b, e : dictLen(b, e)' = dictLen(b, e)
  BY <1>2 DEF dictLen, WordEnds
<1>4. \A e : /\ WordUnits(e)' = WordUnits(e) /\ CharUnits(e)' = CharUnits(e)
             /\ LongWords(e)' = LongWords(e)
  BY <1>3 DEF WordUnits, CharUnits, LongWords, FoundWord
<1>5. \A p : RunEnd(p)' = RunEnd(p)
  BY <1>1 DEF RunEnd, n
<1>6. \A s, upTo : WordsShown(s, upTo)' <=> WordsShown(s, upTo)
  BY <1>1, <1>4, <1>5 DEF WordsShown
<1>7. \A b, e : OtherTail(b, e)' <=> OtherTail(b, e)
  BY <1>1 DEF OtherTail
<1> QED
  BY <1>1, <1>6, <1>7

LEMMA FoundNextChar == ParseOK /\ FoundOK /\ NextChar => FoundOK'
<1> SUFFICES ASSUME ParseOK, FoundOK, NextChar PROVE FoundOK'
  OBVIOUS
<1> PICK b, c : b = fsIdx /\ c = curIdx
  OBVIOUS
<1>1. /\ text \in Texts /\ n \in Nat /\ c \in 1 .. n - 1 /\ b \in 0 .. c - 1 /\ Shown(out, b)
      /\ OtherTail(b, c) /\ WordsShown(out, b)
      /\ phase = "parse" /\ phase' = "parse" /\ curIdx' = c + 1 /\ UNCHANGED << analOption, dict, text >>
  <2>1. /\ text \in Texts /\ curIdx \in 1 .. n /\ curIdx < n /\ fsIdx \in 0 .. curIdx - 1 /\ Shown(out, fsIdx)
        /\ OtherTail(fsIdx, curIdx) /\ WordsShown(out, fsIdx)
        /\ phase = "parse" /\ phase' = "parse" /\ curIdx' = curIdx + 1 /\ UNCHANGED << analOption, dict, text >>
    BY DEF ParseOK, FoundOK, NextChar, n
  <2> QED
    BY <2>1, TextIs
<1>2. b \in Nat /\ c \in Nat /\ b < c /\ c <= n /\ Spread(out, 0, b, b)
  BY <1>1 DEF Shown
<1>3. OtherTail(fsIdx', c + 1) /\ WordsShown(out', fsIdx')
  <2>1. CASE Boundary(c)
    <3>1. out' = out \o addFMinCString(b, c) /\ fsIdx' = c
      BY <2>1 DEF NextChar
    <3>2. ~(IsOther(c) /\ IsOther(c - 1))
      BY <2>1 DEF Boundary, IsOther
    <3>3. WordsShown(out', c)
      BY <1>1, <1>2, <3>1, <3>2, OneMoreRunWords
    <3>4. OtherTail(c, c + 1)
      <4>1. \A p \in c .. (c + 1) - 1 : \A q \in p .. (c + 1) - 1 : q = p
        BY <1>2
      <4> QED
        BY <4>1 DEF OtherTail
    <3> QED
      BY <3>1, <3>3, <3>4
  <2>2. CASE ~Boundary(c)
    <3>1. out' = out /\ fsIdx' = b
      BY <2>2 DEF NextChar
    <3>2. OtherTail(b, c + 1)
      BY <1>1, <1>2, <2>2, OtherRun
    <3> QED
      BY <1>1, <3>1, <3>2
  <2> QED
    BY <2>1, <2>2
<1>4. (\A x, y : OtherTail(x, y)' <=> OtherTail(x, y)) /\ (\A s, x : WordsShown(s, x)' <=> WordsShown(s, x))
  BY <1>1, WordsKept
<1>5. OtherTail(fsIdx, curIdx)' /\ WordsShown(out, fsIdx)'
  BY <1>1, <1>3, <1>4
<1> QED
  BY <1>1, <1>5 DEF FoundOK, Parsed

LEMMA FoundEndParse == ParseOK /\ FoundOK /\ EndParse => FoundOK'
<1> SUFFICES ASSUME ParseOK, FoundOK, EndParse PROVE FoundOK'
  OBVIOUS
<1> PICK b : b = fsIdx
  OBVIOUS
<1>1. /\ text \in Texts /\ n \in Nat \ { 0 } /\ b \in 0 .. n - 1 /\ Shown(out, b)
      /\ OtherTail(b, n) /\ WordsShown(out, b)
      /\ phase' = "offset" /\ UNCHANGED << analOption, dict, text >> /\ out' = out \o addFMinCString(b, n)
  <2>1. /\ text \in Texts /\ curIdx \in 1 .. n /\ curIdx >= n /\ fsIdx \in 0 .. curIdx - 1 /\ Shown(out, fsIdx)
        /\ OtherTail(fsIdx, curIdx) /\ WordsShown(out, fsIdx)
        /\ phase' = "offset" /\ UNCHANGED << analOption, dict, text >>
        /\ out' = IF fsIdx < curIdx THEN out \o addFMinCString(fsIdx, curIdx) ELSE out
    BY DEF ParseOK, FoundOK, EndParse, n
  <2>2. curIdx = n /\ fsIdx < curIdx
    BY <2>1, TextIs
  <2> QED
    BY <2>1, <2>2, TextIs
<1>2. b \in Nat /\ n \in Nat /\ b < n /\ n <= n /\ Spread(out, 0, b, b)
  BY <1>1 DEF Shown
<1>3. WordsShown(out', n)
  BY <1>1, <1>2, OneMoreRunWords
<1>4. WordsShown(out, n)'
  BY <1>1, <1>3, WordsKept
<1> QED
  BY <1>1, <1>4 DEF FoundOK, Parsed

LEMMA FoundStartParse == ParseOK /\ StartParse => FoundOK'
<1> SUFFICES ASSUME ParseOK, StartParse PROVE FoundOK'
  OBVIOUS
<1>1. /\ out' = << >> /\ curIdx' = 1 /\ fsIdx' = 0 /\ phase' = "parse"
      /\ UNCHANGED << analOption, dict, text >>
  BY DEF ParseOK, StartParse
<1>2. WordsShown(<< >>, 0) /\ OtherTail(0, 1)
  <2>1. Apart(<< >>)
    BY DEF Apart
  <2>2. WordsShown(<< >>, 0)
    BY <2>1 DEF WordsShown
  <2>3. \A p \in 0 .. 1 - 1 : \A q \in p .. 1 - 1 : q = p
    OBVIOUS
  <2> QED
    BY <2>2, <2>3 DEF OtherTail
<1>3. OtherTail(0, 1)' /\ WordsShown(<< >>, 0)'
  BY <1>1, <1>2, WordsKept
<1>4. OtherTail(fsIdx, curIdx)' /\ WordsShown(out, fsIdx)'
  BY <1>1, <1>3 DEF OtherTail, WordsShown
<1> QED
  BY <1>1, <1>4 DEF FoundOK, Parsed

(* The units are not changed while offsets are numbered. *)
LEMMA FoundKept ==
  ASSUME FoundOK, UNCHANGED << analOption, dict, text, out >>,
         \/ UNCHANGED << phase, curIdx, fsIdx >>
         \/ Parsed /\ Parsed' /\ phase' # "parse"
  PROVE  FoundOK'
<1>1. /\ \A s, x : WordsShown(s, x)' <=> WordsShown(s, x)
      /\ \A x, y : OtherTail(x, y)' <=> OtherTail(x, y)
      /\ n' = n
  BY WordsKept
<1>2. WordsShown(out, n)' <=> WordsShown(out, n)
  BY <1>1 DEF WordsShown
<1>3. CASE UNCHANGED << phase, curIdx, fsIdx >>
  <2>1. /\ WordsShown(out, fsIdx)' <=> WordsShown(out, fsIdx)
        /\ OtherTail(fsIdx, curIdx)' <=> OtherTail(fsIdx, curIdx)
    BY <1>1, <1>3 DEF WordsShown, OtherTail
  <2> QED
    BY <1>2, <1>3, <2>1 DEF FoundOK, Parsed
<1>4. CASE Parsed /\ Parsed' /\ phase' # "parse"
  BY <1>2, <1>4 DEF FoundOK
<1> QED
  BY <1>3, <1>4

LEMMA FoundElsewhere ==
  ASSUME phase' \in { "options", "words", "rest", "found" }
  PROVE  FoundOK'
BY DEF FoundOK, Parsed

LEMMA NextFound == ParseOK /\ FoundOK /\ [PrefixNext]_allVars => FoundOK'
<1> SUFFICES ASSUME ParseOK, FoundOK, [PrefixNext]_allVars PROVE FoundOK'
  OBVIOUS
<1>1. CASE \E nValue \in AnalysisTypes : setOption(nValue)
  BY <1>1, FoundElsewhere DEF setOption
<1>2. CASE \E bValue \in BOOLEAN : setAnalOption(bValue)
  BY <1>2, FoundElsewhere DEF setAnalOption
<1>3. CASE StartParse
  BY <1>3, FoundStartParse
<1>4. CASE NextChar
  BY <1>4, FoundNextChar
<1>5. CASE EndParse
  BY <1>5, FoundEndParse
<1>6. CASE createWordOffset
  BY <1>6, FoundKept DEF createWordOffset
<1>7. CASE Return
  <2>1. Parsed /\ Parsed' /\ phase' # "parse" /\ UNCHANGED << analOption, dict, text, out >>
    BY <1>7 DEF Return, Parsed
  <2> QED
    BY <2>1, FoundKept
<1>8. CASE StartPrefix
  BY <1>8, FoundElsewhere DEF StartPrefix
<1>9. CASE FindWord
  BY <1>9, FoundElsewhere DEF FindWord
<1>10. CASE FindNoWord
  BY <1>10, FoundElsewhere DEF FindNoWord
<1>11. CASE EndWords
  BY <1>11, FoundElsewhere DEF EndWords
<1>12. CASE TakePair
  BY <1>12, FoundElsewhere DEF TakePair, InGap
<1>13. CASE TakeRun
  BY <1>13, FoundElsewhere DEF TakeRun, InGap
<1>14. CASE DropChar
  BY <1>14, FoundElsewhere DEF DropChar, InGap
<1>15. CASE NextGap
  BY <1>15, FoundElsewhere DEF NextGap
<1>16. CASE EndPrefix
  BY <1>16, FoundElsewhere DEF EndPrefix
<1>17. CASE UNCHANGED allVars
  BY <1>17, FoundKept DEF allVars, vars
<1> QED
  BY <1>1, <1>2, <1>3, <1>4, <1>5, <1>6, <1>7, <1>8, <1>9, <1>10, <1>11, <1>12, <1>13, <1>14, <1>15,
     <1>16, <1>17 DEF PrefixNext, Dictionary, Next

(* The words that divideNormalString gives of any text, under any flags.   *)
THEOREM AlwaysFound == PrefixSpec => [](ParseOK /\ FoundOK)
<1>1. PrefixInit => ParseOK /\ FoundOK
  <2>1. PrefixInit => FoundOK
    BY DEF PrefixInit, Init, FoundOK, Parsed
  <2> QED
    BY <2>1, InitParse
<1>2. ParseOK /\ FoundOK /\ [PrefixNext]_allVars => ParseOK' /\ FoundOK'
  BY NextParse, NextFound
<1> QED
  BY <1>1, <1>2, PTL DEF PrefixSpec
-----------------------------------------------------------------------------
(* The word looked for at p is the preferred one. *)
LEMMA PreferredIs ==
  ASSUME NEW p \in Nat, RunEnd(p) \in Nat, p < RunEnd(p)
  PROVE  /\ WordsAt(p) = {} <=> dictLen(p, RunEnd(p)) = 1
         /\ WordsAt(p) = {} => Preferred(p) = {}
         /\ WordsAt(p) # {} => Preferred(p) = { FoundWord(p, RunEnd(p)) }
<1> PICK e, l : e = RunEnd(p) /\ l = dictLen(p, RunEnd(p))
  OBVIOUS
<1> DEFINE M == WordEnds(p, e)
<1>1. M \in SUBSET Nat /\ M \in SUBSET (0 .. e) /\ \A m \in M : m >= p + 2
  BY DEF WordEnds
<1>2. WordsAt(p) = { << p, m >> : m \in M }
  BY DEF WordsAt, WordEnds
<1>3. CASE M = {}
  <2>1. WordsAt(p) = {} /\ l = 1
    BY <1>2, <1>3 DEF dictLen
  <2>2. Preferred(p) = {}
    BY <2>1 DEF Preferred
  <2> QED
    BY <2>1, <2>2
<1>4. CASE M # {}
  <2> DEFINE best == IF analOption.isMaxMatch THEN Max(M) ELSE Min(M)
  <2>1. l = best - p
    BY <1>4 DEF dictLen
  <2>2. best \in M /\ \A m \in M : IF analOption.isMaxMatch THEN m <= best ELSE best <= m
    <3> HIDE DEF M
    <3>1. Max(M) \in M /\ \A m \in M : m <= Max(M)
      BY <1>1, <1>4, GreatestElement
    <3>2. Min(M) \in M /\ \A m \in M : Min(M) <= m
      BY <1>1, <1>4, LeastElement
    <3> QED
      BY <3>1, <3>2
  <2> HIDE DEF best
  <2>3. best \in Nat /\ best >= p + 2 /\ p + l = best /\ l # 1
    BY <1>1, <2>1, <2>2
  <2>4. WordsAt(p) # {}
    BY <1>2, <1>4
  <2>5. ASSUME NEW w \in Preferred(p) PROVE w = << p, best >>
    <3>1. w \in WordsAt(p) /\ \A v \in WordsAt(p) : IF analOption.isMaxMatch THEN v[2] <= w[2] ELSE w[2] <= v[2]
      BY DEF Preferred
    <3>2. PICK m \in M : w = << p, m >>
      BY <1>2, <3>1
    <3>3. << p, best >> \in WordsAt(p)
      BY <1>2, <2>2
    <3>4. IF analOption.isMaxMatch THEN best <= m ELSE m <= best
      <4>1. IF analOption.isMaxMatch THEN << p, best >>[2] <= w[2] ELSE w[2] <= << p, best >>[2]
        BY <3>1, <3>3
      <4> QED
        BY <3>2, <4>1
    <3>5. IF analOption.isMaxMatch THEN m <= best ELSE best <= m
      BY <2>2
    <3>6. m = best
      <4>1. m \in Nat
        BY <1>1
      <4> QED
        BY <2>3, <3>4, <3>5, <4>1
    <3> QED
      BY <3>2, <3>6
  <2>6. << p, best >> \in Preferred(p)
    <3>1. << p, best >> \in WordsAt(p)
      BY <1>2, <2>2
    <3>2. \A v \in WordsAt(p) : IF analOption.isMaxMatch THEN v[2] <= best ELSE best <= v[2]
      <4> SUFFICES ASSUME NEW v \in WordsAt(p)
                   PROVE  IF analOption.isMaxMatch THEN v[2] <= best ELSE best <= v[2]
        OBVIOUS
      <4>1. PICK m \in M : v = << p, m >>
        BY <1>2
      <4> QED
        BY <2>2, <4>1
    <3> QED
      BY <3>1, <3>2 DEF Preferred
  <2>7. FoundWord(p, RunEnd(p)) = << p, best >>
    BY <2>3 DEF FoundWord
  <2> QED
    BY <2>3, <2>4, <2>5, <2>6, <2>7
<1> QED
  BY <1>3, <1>4

LEMMA RunEndAfter ==
  ASSUME n \in Nat, NEW q \in 0 .. n - 1, IsOther(q)
  PROVE  RunEnd(q) \in Nat /\ q < RunEnd(q)
<1> DEFINE S == { n } \cup { m \in q .. n - 1 : Ch(m).type # "OTHER" }
<1>1. RunEnd(q) = Min(S)
  BY DEF RunEnd, n
<1>2. S \in SUBSET Nat /\ S # {} /\ \A m \in S : q < m
  <2>1. \A m \in q .. n - 1 : Ch(m).type # "OTHER" => q < m
    <3> SUFFICES ASSUME NEW m \in q .. n - 1, Ch(m).type # "OTHER" PROVE q < m
      OBVIOUS
    <3>1. m # q
      BY DEF IsOther
    <3> QED
      BY <3>1
  <2> QED
    BY <2>1
<1> HIDE DEF S
<1>3. Min(S) \in S
  BY <1>2, LeastElement
<1> QED
  BY <1>1, <1>2, <1>3

(* divideNormalString follows only clusters of words that touch, and goes  *)
(* on behind a cluster; still no word is missed, whatever the dictionary   *)
(* and the text: where units may overlap, from every character the word    *)
(* that is preferred there is given, and nothing else but characters.      *)
THEOREM AlwaysEveryWord == PrefixSpec => []EveryWordFound
<1>1. ParseOK /\ FoundOK => EveryWordFound
  <2> SUFFICES ASSUME ParseOK, FoundOK, Parsed, ~analOption.noOverlap PROVE EveryWordFound
    BY DEF EveryWordFound
  <2>1. n \in Nat /\ n = Len(text) /\ Spread(out, 0, n, n) /\ WordsShown(out, n)
    BY TextIs DEF ParseOK, FoundOK, Shown, n
  <2> DEFINE Q == { q \in 0 .. Len(text) - 1 : Ch(q).type = "OTHER" }
  <2>2. ASSUME NEW q \in Q
        PROVE  /\ q \in 0 .. n - 1 /\ q \in Nat /\ IsOther(q) /\ RunEnd(q) \in Nat /\ q < RunEnd(q)
               /\ 1 <= dictLen(q, RunEnd(q)) /\ dictLen(q, RunEnd(q)) \in Nat
    <3>1. q \in 0 .. n - 1 /\ q \in Nat /\ IsOther(q)
      BY <2>1 DEF IsOther
    <3>2. RunEnd(q) \in Nat /\ q < RunEnd(q)
      BY <2>1, <3>1, RunEndAfter
    <3> QED
      BY <3>1, <3>2, DictLenIs
  <2>3. ASSUME NEW u \in OtherUnits PROVE u \in UNION { Preferred(p) : p \in Q }
    <3>1. PICK k \in 1 .. Len(out) : u = out[k]
      BY DEF OtherUnits, Units
    <3>2. IsOther(u[1]) /\ u[2] > u[1] + 1
      BY DEF OtherUnits, IsOther
    <3> PICK q : q = u[1]
      OBVIOUS
    <3>3. q \in Q
      <4>1. q \in Nat /\ 0 <= q /\ q < n
        BY <2>1, <3>1 DEF Spread, Unit
      <4> QED
        BY <2>1, <3>2, <4>1 DEF IsOther
    <3>4. u \in WordUnits(RunEnd(q)) \cup CharUnits(RunEnd(q))
      BY <2>1, <3>1, <3>2 DEF WordsShown
    <3> PICK e : e = RunEnd(q)
      OBVIOUS
    <3>5. u = FoundWord(q, e)
      <4>1. u \notin CharUnits(e)
        <5>1. u[1] \in Nat /\ u[2] # u[1] + 1
          BY <3>2, <3>3
        <5> QED
          BY <5>1 DEF CharUnits
      <4>2. u \in WordUnits(e)
        BY <3>4, <4>1
      <4> QED
        BY <4>2 DEF WordUnits
    <3>6. dictLen(q, e) # 1
      <4>1. q \in Nat /\ u[2] > q + 1 /\ u[2] = q + dictLen(q, e)
        BY <3>2, <3>3, <3>5 DEF FoundWord
      <4> QED
        BY <4>1
    <3>7. u \in Preferred(q)
      BY <2>2, <3>3, <3>5, <3>6, PreferredIs
    <3> QED
      BY <3>3, <3>7
  <2>4. ASSUME NEW q \in Q, NEW u \in Preferred(q) PROVE u \in OtherUnits
    <3>1. /\ q \in Nat /\ q \in 0 .. n - 1 /\ IsOther(q) /\ RunEnd(q) \in Nat /\ q < RunEnd(q)
          /\ 1 <= dictLen(q, RunEnd(q)) /\ dictLen(q, RunEnd(q)) \in Nat
      BY <2>2
    <3>2. WordsAt(q) # {} /\ dictLen(q, RunEnd(q)) # 1 /\ u = FoundWord(q, RunEnd(q))
      BY <3>1, PreferredIs
    <3>3. u[1] = q /\ u[2] > u[1] + 1 /\ u \in Unit
      <4> PICK l : l = dictLen(q, RunEnd(q))
        OBVIOUS
      <4>1. l \in Nat /\ l > 1 /\ u = << q, q + l >>
        BY <3>1, <3>2 DEF FoundWord
      <4>2. q + l \in Nat /\ q + l > q + 1
        BY <2>2, <4>1
      <4>3. u[1] = q /\ u[2] = q + l
        BY <4>1
      <4> QED
        BY <2>2, <4>1, <4>2, <4>3 DEF Unit
    <3>4. u \in LongWords(RunEnd(q))
      <4>1. u[1] < RunEnd(q) /\ u = FoundWord(u[1], RunEnd(q))
        BY <3>1, <3>2, <3>3
      <4> QED
        BY <3>3, <4>1 DEF LongWords, WordUnits
    <3>5. Has(out, u)
      BY <2>1, <3>1, <3>3, <3>4 DEF WordsShown
    <3> QED
      BY <3>1, <3>3, <3>5 DEF Has, OtherUnits, Units, IsOther
  <2>5. OtherUnits = UNION { Preferred(p) : p \in Q }
    BY <2>3, <2>4
  <2> QED
    BY <2>5 DEF EveryWordFound
<1> QED
  BY <1>1, AlwaysFound, PTL

(* With noOverlap and without doUnigram, setOption's analysis types 2 and  *)
(* 5, the units cut the text, spaces aside, and each unit of a run of      *)
(* CHAR_TYPE_OTHER is the word preferred at its first character.           *)
THEOREM AlwaysCutWithoutOverlap == PrefixSpec => []CutWithoutOverlap
<1>1. ParseOK /\ FoundOK => CutWithoutOverlap
  <2> SUFFICES ASSUME ParseOK, FoundOK, Parsed, Strict PROVE CutWithoutOverlap
    BY DEF CutWithoutOverlap, Strict
  <2>1. /\ n \in Nat /\ n = Len(text) /\ Spread(out, 0, n, n) /\ WordsShown(out, n) /\ Apart(out)
        /\ \A p \in 0 .. n - 1 : Inside(out, p) <=> Ch(p).type # "SPACE"
    BY TextIs DEF ParseOK, FoundOK, Shown, WordsShown, n
  <2>2. /\ out \in Seq(Unit) /\ Len(out) \in Nat
        /\ \A k \in 1 .. Len(out) : out[k][1] \in 0 .. n - 1 /\ out[k][2] \in 0 .. n /\ out[k][1] < out[k][2]
    <3>1. out \in Seq(Unit)
      BY <2>1 DEF Spread
    <3> QED
      BY <2>1, <3>1 DEF Spread, Unit
  <2>3. ASSUME NEW k \in 2 .. Len(out)
        PROVE  /\ out[k - 1][2] <= out[k][1]
               /\ \A p \in out[k - 1][2] .. out[k][1] - 1 : Ch(p).type = "SPACE"
    <3>1. k \in 1 .. Len(out) /\ k - 1 \in 1 .. Len(out) /\ k - 1 < k
      BY <2>2
    <3>2. out[k - 1][2] <= out[k][1]
      BY <2>1, <3>1 DEF Apart
    <3>3. ASSUME NEW p \in out[k - 1][2] .. out[k][1] - 1 PROVE Ch(p).type = "SPACE"
      <4>1. /\ out[k - 1][2] \in Nat /\ out[k][1] \in Nat /\ out[k][1] <= n - 1
            /\ p \in 0 .. n - 1 /\ out[k - 1][2] <= p /\ p < out[k][1]
        BY <2>1, <2>2, <3>1
      <4>2. ~Inside(out, p)
        <5> SUFFICES ASSUME NEW j \in 1 .. Len(out), p \in out[j][1] .. out[j][2] - 1 PROVE FALSE
          BY DEF Inside
        <5>1. out[j][1] \in Nat /\ out[j][2] \in Nat /\ out[j][1] <= p /\ p < out[j][2]
          BY <2>2, <4>1
        <5>2. CASE j < k
          <6>1. j = k - 1 \/ j < k - 1
            BY <3>1, <5>2
          <6>2. out[k - 1][1] \in Nat /\ out[k - 1][1] < out[k - 1][2]
            BY <2>2, <3>1
          <6>3. j < k - 1 => out[j][2] <= out[k - 1][1]
            BY <2>1, <3>1 DEF Apart
          <6>4. out[j][2] <= out[k - 1][2]
            <7>1. CASE j = k - 1
              BY <5>1, <7>1
            <7>2. CASE j < k - 1
              BY <4>1, <5>1, <6>2, <6>3, <7>2
            <7> QED
              BY <6>1, <7>1, <7>2
          <6> QED
            BY <4>1, <5>1, <6>4
        <5>3. CASE j = k
          BY <4>1, <5>1, <5>3
        <5>4. CASE k < j
          <6>1. out[k][2] <= out[j][1] /\ out[k][1] < out[k][2] /\ out[k][2] \in Nat
            BY <2>1, <2>2, <3>1, <5>4 DEF Apart
          <6> QED
            BY <4>1, <5>1, <6>1
        <5> QED
          BY <3>1, <5>2, <5>3, <5>4
      <4> QED
        BY <2>1, <4>1, <4>2
    <3> QED
      BY <3>2, <3>3
  <2>4. ASSUME NEW u \in Units, Ch(u[1]).type = "OTHER"
        PROVE  u \in IF WordsAt(u[1]) = {} THEN { << u[1], u[1] + 1 >> } ELSE Preferred(u[1])
    <3>1. PICK k \in 1 .. Len(out) : u = out[k]
      BY DEF Units
    <3> PICK q : q = u[1]
      OBVIOUS
    <3>2. q \in 0 .. n - 1 /\ q \in Nat /\ IsOther(q)
      BY <2>2, <2>4, <3>1 DEF IsOther
    <3>3. u \in WordUnits(RunEnd(q))
      BY <2>1, <3>1, <3>2 DEF WordsShown
    <3>4. u = FoundWord(q, RunEnd(q))
      BY <3>3 DEF WordUnits
    <3>5. RunEnd(q) \in Nat /\ q < RunEnd(q)
      BY <2>1, <3>2, RunEndAfter
    <3>6. WordsAt(q) = {} => u = << q, q + 1 >>
      BY <3>2, <3>4, <3>5, PreferredIs DEF FoundWord
    <3>7. WordsAt(q) # {} => u \in Preferred(q)
      BY <3>2, <3>4, <3>5, PreferredIs
    <3> QED
      BY <3>6, <3>7
  <2> QED
    BY <2>3, <2>4 DEF CutWithoutOverlap
<1> QED
  BY <1>1, AlwaysFound, PTL
=============================================================================
