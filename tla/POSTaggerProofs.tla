--------------------------- MODULE POSTaggerProofs ---------------------------
(***************************************************************************)
(* Proofs about POSTagger, for all dictionaries, texts, further results    *)
(* and tags.                                                               *)
(*                                                                         *)
(* That words and tags are in step at the end (TagsInStep) follows from    *)
(* what holds at each step: every word listed is that of its unit, the     *)
(* tags are as many as the words passed, and a tag has its word's label.   *)
(* That the first result holds the longest matches (LongestMatch) follows  *)
(* from a relation between the offsets in work and the strings still       *)
(* expected, which combining, packing and reading the strings all keep.    *)
(***************************************************************************)
EXTENDS POSTagger, WellFoundedInduction, TLAPS

Unit == Nat \X Nat
Word == Seq(Range(text.chars))
Listed == [word : Word, cand : Nat, unit : Nat]
Meta == [seg : Nat, pos : Nat]

(* The combining: the offsets stay in the text, and strings are those of   *)
(* the offsets.                                                            *)
CombineOK ==
  /\ dict \in Dicts /\ text \in Texts /\ others \in Others[text]
  /\ phase \in { "combine", "pack", "lexicon", "done" }
  /\ segment \in Seq(Unit)
  /\ \A k \in 1 .. n : segment[k][2] <= Len(text.chars)
  /\ i \in Nat \ { 0 }
  /\ continueSch => begin \in 1 .. n /\ lastWordEnd \in 1 .. n
  /\ out \in Seq(Word) /\ Len(out) <= n
  /\ out = << >> \/ phase \in { "lexicon", "done" }
  /\ \A k \in 1 .. Len(out) : segment[k][1] < segment[k][2] /\ out[k] = Chars(segment[k][1], segment[k][2])

(* The lists of the words. *)
ListsOK ==
  /\ metas = << >> \/ phase = "done"
  /\ metas \in Seq(Meta) /\ Len(metas) <= results
  /\ words \in Seq(Listed)
  /\ metas = << >> => words = << >>
  /\ metas # << >> => metas[1].seg = 0
  /\ \A r \in 1 .. Len(metas) :
       /\ Count(r) = Len(Strings(r))
       /\ \A k \in 1 .. Count(r) :
            metas[r].seg + k \in 1 .. Len(words) /\ words[metas[r].seg + k] = Labelled(r)[k]

TagName ==
  Range(CharToWordType) \cup { "default" } \cup UNION { Range(TagsOf[w]) : w \in UNION { d.words : d \in Dicts } }

(* The tagging. *)
TagsOK ==
  /\ cand \in 0 .. results
  /\ cand > 0 => Len(metas) = results
  /\ pos \in Seq([tag : TagName, cand : Nat, unit : Nat])
  /\ index = Len(pos) + 1
  /\ IF cand = 0 THEN pos = << >> ELSE index \in WordBegin + 1 .. WordEnd + 1
  /\ \A r \in 1 .. cand : metas[r].pos = metas[r].seg
  /\ \A k \in 1 .. Len(pos) : pos[k].cand = words[k].cand /\ pos[k].unit = words[k].unit

IInv == CombineOK /\ ListsOK /\ TagsOK /\ TagsAllowed
-----------------------------------------------------------------------------
LEMMA CharsIs ==
  ASSUME text \in Texts, NEW b \in Nat, NEW e \in Nat, e <= Len(text.chars)
  PROVE  /\ Chars(b, e) \in Word
         /\ b < e => /\ Len(Chars(b, e)) = e - b
                     /\ \A k \in 1 .. e - b : Chars(b, e)[k] = text.chars[b + k]
<1> DEFINE chars == text.chars
<1>1. chars \in Seq(Range(chars))
  BY TextsAssumption DEF IsText
<1> DEFINE X == Range(chars)
<1> HIDE DEF X, chars
<1>2. /\ SubSeq(chars, b + 1, e) \in Seq(X)
      /\ b < e => /\ Len(SubSeq(chars, b + 1, e)) = e - b
                  /\ \A k \in 1 .. e - b : SubSeq(chars, b + 1, e)[k] = chars[b + k]
  <2>1. chars \in Seq(X) /\ e <= Len(chars)
    BY <1>1 DEF chars, X
  <2>2. \A k \in b + 1 .. e : k \in 1 .. Len(chars)
    BY <2>1
  <2> QED
    BY <2>1, <2>2
<1> QED
  BY <1>2 DEF chars, X, Chars, Word

(* Joining keeps the offsets in the text. *)
LEMMA JoinedType ==
  ASSUME NEW L, segment \in Seq(Unit), \A k \in 1 .. n : segment[k][2] <= L, L \in Nat,
         NEW b \in 1 .. n, NEW last \in 1 .. n
  PROVE  /\ toCombine(b, last) \in Seq(Unit) /\ Len(toCombine(b, last)) = n
         /\ \A k \in 1 .. n : toCombine(b, last)[k][2] <= L
<1> DEFINE unit(k) == IF k = b THEN << segment[b][1], segment[last][2] >>
                      ELSE IF k \in b .. last THEN << segment[k][1], 0 >> ELSE segment[k]
<1>1. ASSUME NEW k \in 1 .. n
      PROVE  unit(k) \in Unit /\ unit(k)[2] <= L
  <2>1. Unit = Nat \X Nat /\ \A l \in 1 .. n : segment[l] \in Unit
    BY DEF Unit, n
  <2>2. \A l \in 1 .. n : segment[l][1] \in Nat /\ segment[l][2] \in Nat /\ segment[l][2] <= L
    BY <2>1
  <2>3. CASE k = b
    <3>1. unit(k) = << segment[b][1], segment[last][2] >>
      BY <2>3
    <3> HIDE DEF unit
    <3> QED
      BY <2>1, <2>2, <3>1
  <2>4. CASE k # b /\ k \in b .. last
    <3>1. unit(k) = << segment[k][1], 0 >>
      BY <2>4
    <3> HIDE DEF unit
    <3> QED
      BY <2>1, <2>2, <3>1
  <2>5. CASE k # b /\ k \notin b .. last
    <3>1. unit(k) = segment[k]
      BY <2>5
    <3> HIDE DEF unit
    <3> QED
      BY <2>1, <2>2, <3>1
  <2> QED
    BY <2>3, <2>4, <2>5
<1>2. n \in Nat
  BY DEF n
<1>3. toCombine(b, last) = [k \in 1 .. n |-> unit(k)]
  BY DEF toCombine
<1> HIDE DEF unit
<1> QED
  BY <1>1, <1>2, <1>3

(* So does replacing a unit, also where none is. *)
LEMMA ReplacedType ==
  ASSUME NEW L \in Nat, segment \in Seq(Unit), \A k \in 1 .. n : segment[k][2] <= L,
         NEW l, NEW unit, l \in 1 .. n => unit \in Unit /\ unit[2] <= L
  PROVE  /\ [segment EXCEPT ![l] = unit] \in Seq(Unit)
         /\ Len([segment EXCEPT ![l] = unit]) = n
         /\ \A k \in 1 .. n : [segment EXCEPT ![l] = unit][k][2] <= L
<1>1. CASE l \in 1 .. n
  BY <1>1 DEF n
<1>2. CASE l \notin 1 .. n
  <2>1. [segment EXCEPT ![l] = unit] = segment
    BY <1>2 DEF n
  <2> QED
    BY <2>1 DEF n
<1> QED
  BY <1>1, <1>2

LEMMA EmptiedType ==
  ASSUME NEW unit \in Unit, NEW L \in Nat
  PROVE  [unit EXCEPT ![2] = 0] \in Unit /\ [unit EXCEPT ![2] = 0][2] <= L
BY DEF Unit

LEMMA ResultsType ==
  ASSUME text \in Texts, others \in Others[text]
  PROVE  others \in Seq(Range(others)) /\ results \in Nat \ { 0 } /\ results = 1 + Len(others)
<1>1. others \in Seq(Range(others))
  BY OthersAssumption
<1>2. Len(others) \in Nat
  BY <1>1
<1> QED
  BY <1>1, <1>2 DEF results

LEMMA InitIInv == TagInit => IInv
<1> SUFFICES ASSUME TagInit PROVE IInv
  OBVIOUS
<1>1. dict \in Dicts /\ text \in Texts /\ others \in Others[text]
  BY DEF TagInit, Init
<1>2. segment \in Seq(Unit) /\ \A k \in 1 .. n : segment[k][2] <= Len(text.chars)
  <2>1. IsText(text.chars, text.cuts) /\ segment = text.cuts
    BY <1>1, TextsAssumption DEF TagInit, Init
  <2>2. text.chars \in Seq(Range(text.chars))
    BY <2>1 DEF IsText
  <2>3. Len(text.chars) \in Nat
    BY <2>2
  <2>4. \A k \in 1 .. n : segment[k][2] \in 1 .. Len(text.chars)
    BY <2>1 DEF IsText, n
  <2> QED
    BY <2>1, <2>3, <2>4 DEF IsText, Unit
<1>3. n \in Nat
  BY <1>2 DEF n
<1>4. CombineOK
  <2>1. << >> \in Seq(Word) /\ Len(<< >>) = 0
    BY DEF Word
  <2> QED
    BY <1>1, <1>2, <1>3, <2>1 DEF TagInit, Init, CombineOK
<1>5. results \in Nat \ { 0 }
  BY <1>1, ResultsType
<1>6. ListsOK
  BY <1>5 DEF TagInit, ListsOK
<1>7. TagsOK
  BY <1>5 DEF TagInit, TagsOK
<1>8. TagsAllowed
  BY DEF TagInit, TagsAllowed
<1> QED
  BY <1>4, <1>6, <1>7, <1>8 DEF IInv
-----------------------------------------------------------------------------
(* The steps of combining. *)

LEMMA CombineStep == IInv /\ CombineFirst => IInv'
<1> SUFFICES ASSUME IInv, CombineFirst PROVE IInv'
  OBVIOUS
<1> DEFINE L == Len(text.chars)
<1>1. CombineOK /\ UNCHANGED tagVars
  BY DEF IInv, CombineFirst
<1>2. L \in Nat
  <2>1. text.chars \in Seq(Range(text.chars))
    BY <1>1, TextsAssumption DEF CombineOK, IsText
  <2> QED
    BY <2>1
<1>3. /\ segment \in Seq(Unit) /\ n \in Nat /\ i \in Nat \ { 0 }
      /\ \A k \in 1 .. n : segment[k] \in Unit /\ segment[k][2] <= L
  BY <1>1 DEF CombineOK, n
<1>4. phase # "done" /\ UNCHANGED << dict, text, others >>
  BY <1>1 DEF CombineFirst, Next, SkipUnknown, SkipLeaf, StartSearch, ExtendSearch, StopSearch, GoBack,
     EndSearch, EndCombine, FindEmpty, MoveUnit, SkipEmpty, EndPack, AppendLexicon, EndLexicon, tagVars
<1>5. results \in Nat \ { 0 }
  BY <1>1, ResultsType DEF CombineOK
<1>6. metas = << >> /\ words = << >> /\ cand = 0 /\ pos = << >> /\ index = 1
  <2>1. metas = << >> /\ words = << >>
    BY <1>4 DEF IInv, ListsOK
  <2>2. cand = 0
    BY <1>5, <2>1 DEF IInv, TagsOK
  <2> QED
    BY <2>1, <2>2 DEF IInv, TagsOK
<1>7. /\ L' = L /\ Word' = Word /\ results' = results /\ TagName' = TagName
      /\ \A b, e : Chars(b, e)' = Chars(b, e)
  BY <1>4 DEF Word, Chars, results
<1>8. ASSUME segment' \in Seq(Unit), \A k \in 1 .. n' : segment'[k][2] <= L,
             i' \in Nat \ { 0 }, UNCHANGED out, out = << >>,
             phase' \in { "combine", "pack", "lexicon", "done" },
             continueSch' => begin' \in 1 .. n' /\ lastWordEnd' \in 1 .. n'
      PROVE  CombineOK'
  <2>1. n' \in Nat
    BY <1>8 DEF n
  <2> QED
    BY <1>1, <1>4, <1>7, <1>8, <2>1 DEF CombineOK
<1>9. ASSUME segment' = segment, UNCHANGED << search, out >>, out = << >>, i' \in Nat \ { 0 },
             phase' \in { "combine", "pack", "lexicon", "done" }
      PROVE  CombineOK'
  BY <1>1, <1>3, <1>8, <1>9 DEF CombineOK, search, n
<1>10. CombineOK'
  <2>1. CASE SkipUnknown
    <3> DEFINE unit == [segment[i] EXCEPT ![2] = 0]
               emptied == [segment EXCEPT ![i] = unit]
    <3>1. i \in 1 .. n /\ segment[i] \in Unit
      BY <1>3, <2>1 DEF SkipUnknown
    <3>2. unit \in Unit /\ unit[2] <= L
      BY <1>2, <3>1, EmptiedType
    <3>3. emptied = [segment EXCEPT ![i][2] = 0]
      OBVIOUS
    <3> HIDE DEF unit
    <3>4. emptied \in Seq(Unit) /\ Len(emptied) = n /\ \A k \in 1 .. n : emptied[k][2] <= L
      BY <1>2, <1>3, <3>2, ReplacedType
    <3>5. segment' = emptied \/ segment' = segment
      BY <2>1, <3>3 DEF SkipUnknown
    <3> HIDE DEF emptied
    <3>6. segment' \in Seq(Unit) /\ n' = n /\ \A k \in 1 .. n : segment'[k][2] <= L
      BY <1>3, <3>4, <3>5 DEF n
    <3> QED
      BY <1>1, <1>3, <1>8, <2>1, <3>6 DEF SkipUnknown, search, CombineOK
  <2>2. CASE SkipLeaf
    BY <1>1, <1>3, <1>9, <2>2 DEF SkipLeaf, CombineOK
  <2>3. CASE StartSearch
    <3>1. i \in 1 .. n
      BY <1>3, <2>3 DEF StartSearch
    <3> QED
      BY <1>1, <1>3, <1>8, <2>3, <3>1 DEF StartSearch, CombineOK, n
  <2>4. CASE ExtendSearch
    <3>1. i \in 1 .. n
      BY <1>3, <2>4 DEF ExtendSearch
    <3> QED
      BY <1>1, <1>3, <1>8, <2>4, <3>1 DEF ExtendSearch, CombineOK, n
  <2>5. CASE StopSearch \/ GoBack
    <3>1. begin \in 1 .. n /\ lastWordEnd \in 1 .. n /\ EndSearch /\ out = << >> /\ phase = "combine"
      BY <1>1, <2>5 DEF StopSearch, GoBack, CombineOK
    <3>2. segment' \in Seq(Unit) /\ n' = n /\ \A k \in 1 .. n : segment'[k][2] <= L
      BY <1>2, <1>3, <3>1, JoinedType DEF EndSearch, n
    <3>3. lastWordEnd + 1 \in Nat \ { 0 }
      BY <1>3, <3>1
    <3> QED
      BY <1>8, <3>1, <3>2, <3>3 DEF EndSearch
  <2>6. CASE EndCombine
    <3>1. continueSch => begin \in 1 .. n /\ n \in 1 .. n
      BY <1>1, <1>3 DEF CombineOK
    <3>2. segment' \in Seq(Unit) /\ n' = n /\ \A k \in 1 .. n : segment'[k][2] <= L
      <4>1. CASE continueSch
        BY <1>2, <1>3, <2>6, <3>1, <4>1, JoinedType DEF EndCombine, n
      <4>2. CASE ~continueSch
        BY <1>3, <2>6, <4>2 DEF EndCombine, n
      <4> QED
        BY <4>1, <4>2
    <3> QED
      BY <1>1, <1>3, <1>8, <2>6, <3>2 DEF EndCombine, search, CombineOK
  <2>7. CASE FindEmpty
    BY <1>1, <1>3, <1>9, <2>7 DEF FindEmpty, CombineOK
  <2>8. CASE MoveUnit
    <3> DEFINE unit == segment[validIdx]
               moved == [segment EXCEPT ![idx] = unit]
    <3>1. unit \in Unit /\ unit[2] <= L
      BY <1>3, <2>8 DEF MoveUnit
    <3>4. segment' = moved
      BY <2>8 DEF MoveUnit
    <3> HIDE DEF unit
    <3>2. moved \in Seq(Unit) /\ Len(moved) = n /\ \A k \in 1 .. n : moved[k][2] <= L
      BY <1>2, <1>3, <3>1, ReplacedType
    <3> HIDE DEF moved
    <3>3. segment' \in Seq(Unit) /\ n' = n /\ \A k \in 1 .. n : segment'[k][2] <= L
      BY <3>2, <3>4 DEF n
    <3> QED
      BY <1>1, <1>3, <1>8, <2>8, <3>3 DEF MoveUnit, search, CombineOK
  <2>9. CASE SkipEmpty
    BY <1>1, <1>3, <1>9, <2>9 DEF SkipEmpty, CombineOK
  <2>10. CASE EndPack
    <3> DEFINE unit == [segment[idx] EXCEPT ![2] = 0]
               emptied == [segment EXCEPT ![idx] = unit]
    <3>1. idx \in 1 .. n => unit \in Unit /\ unit[2] <= L
      BY <1>2, <1>3, EmptiedType
    <3>2. emptied = [segment EXCEPT ![idx][2] = 0]
      OBVIOUS
    <3> HIDE DEF unit
    <3>3. emptied \in Seq(Unit) /\ Len(emptied) = n /\ \A k \in 1 .. n : emptied[k][2] <= L
      BY <1>1, <1>2, <1>3, <3>1, ReplacedType DEF CombineOK
    <3>4. segment' = emptied
      BY <2>10, <3>2 DEF EndPack
    <3> HIDE DEF emptied
    <3>5. segment' \in Seq(Unit) /\ n' = n /\ \A k \in 1 .. n : segment'[k][2] <= L
      BY <3>3, <3>4 DEF n
    <3> QED
      BY <1>1, <1>3, <1>8, <2>10, <3>5 DEF EndPack, search, CombineOK
  <2>11. CASE AppendLexicon
    <3> DEFINE k == Len(out) + 1
               word == Chars(segment[k][1], segment[k][2])
    <3>1. /\ out \in Seq(Word) /\ Len(out) \in Nat /\ Len(out) < n /\ k \in 1 .. n
          /\ segment[k][1] < segment[k][2] /\ out' = Append(out, word)
      BY <1>1, <1>3, <2>11 DEF AppendLexicon, CombineOK
    <3>2. word \in Word
      <4>1. segment[k][1] \in Nat /\ segment[k][2] \in Nat /\ segment[k][2] <= L
        BY <1>3, <3>1 DEF Unit
      <4> QED
        BY <1>1, <4>1, CharsIs DEF CombineOK
    <3>3. segment' = segment /\ phase' = "lexicon" /\ UNCHANGED << i, search >>
      BY <2>11 DEF AppendLexicon
    <3> HIDE DEF word, k
    <3>4. /\ out' \in Seq(Word) /\ Len(out') = Len(out) + 1
          /\ \A l \in 1 .. Len(out) : out'[l] = out[l]
          /\ out'[Len(out) + 1] = word
      BY <3>1, <3>2
    <3>5. ASSUME NEW l \in 1 .. Len(out')
          PROVE  segment[l][1] < segment[l][2] /\ out'[l] = Chars(segment[l][1], segment[l][2])
      <4>1. l \in 1 .. Len(out) \/ l = Len(out) + 1
        BY <3>1, <3>4
      <4> QED
        BY <1>1, <3>1, <3>4, <4>1 DEF CombineOK, k, word
    <3>6. Len(out') <= n
      BY <1>3, <3>1, <3>4
    <3> QED
      BY <1>1, <1>4, <1>7, <3>3, <3>4, <3>5, <3>6 DEF CombineOK, search, n
  <2>12. CASE EndLexicon
    BY <1>1, <1>4, <1>7, <2>12 DEF EndLexicon, CombineOK, search, n
  <2> QED
    BY <2>1, <2>2, <2>3, <2>4, <2>5, <2>6, <2>7, <2>8, <2>9, <2>10, <2>11, <2>12 DEF CombineFirst, Next
<1>11. metas' = << >> /\ words' = << >> /\ cand' = 0 /\ pos' = << >> /\ index' = 1
  BY <1>1, <1>6 DEF tagVars
<1>12. ListsOK'
  <2>1. Listed' = Listed
    BY <1>7 DEF Listed
  <2>2. /\ metas' \in Seq(Meta) /\ Len(metas') = 0 /\ words' \in Seq(Listed)
    BY <1>11
  <2> QED
    BY <1>5, <1>7, <1>11, <2>1, <2>2 DEF ListsOK
<1>13. TagsOK' /\ TagsAllowed'
  <2>1. results' \in Nat /\ 0 \in 0 .. results'
    BY <1>5, <1>7 DEF IInv, TagsOK
  <2> QED
    BY <1>11, <2>1 DEF TagsOK, TagsAllowed
<1> QED
  BY <1>10, <1>12, <1>13 DEF IInv
-----------------------------------------------------------------------------
(* Listing the words of a result. *)

LEMMA Concat ==
  ASSUME NEW X, NEW a \in Seq(X), NEW b \in Seq(X)
  PROVE  /\ a \o b \in Seq(X) /\ Len(a \o b) = Len(a) + Len(b)
         /\ \A q \in 1 .. Len(a) : (a \o b)[q] = a[q]
         /\ \A q \in 1 .. Len(b) : (a \o b)[Len(a) + q] = b[q]
OBVIOUS

(* The string of a unit, and what is listed of it. *)
LEMMA LabelledIs ==
  ASSUME CombineOK, NEW r \in 1 .. results
  PROVE  /\ Strings(r) \in Seq(Word) /\ Labelled(r) \in Seq(Listed)
         /\ Len(Labelled(r)) = Len(Strings(r))
         /\ \A k \in 1 .. Len(Strings(r)) :
              /\ Labelled(r)[k] = [word |-> Strings(r)[k], cand |-> r, unit |-> k]
              /\ unitsOf(r)[k] \in Unit /\ unitsOf(r)[k][1] < unitsOf(r)[k][2]
              /\ unitsOf(r)[k][2] <= Len(text.chars)
              /\ Strings(r)[k] = Chars(unitsOf(r)[k][1], unitsOf(r)[k][2])
<1>1. /\ others \in Seq(Range(others)) /\ results = 1 + Len(others) /\ results \in Nat
      /\ text \in Texts /\ others \in Others[text]
  BY ResultsType DEF CombineOK
<1>2. /\ Strings(r) \in Seq(Word)
      /\ \A k \in 1 .. Len(Strings(r)) :
           /\ unitsOf(r)[k] \in Unit /\ unitsOf(r)[k][1] < unitsOf(r)[k][2]
           /\ unitsOf(r)[k][2] <= Len(text.chars)
           /\ Strings(r)[k] = Chars(unitsOf(r)[k][1], unitsOf(r)[k][2])
  <2>1. CASE r = 1
    <3>1. Strings(r) = out /\ unitsOf(r) = segment
      BY <2>1 DEF Strings, unitsOf
    <3>2. out \in Seq(Word) /\ Len(out) \in Nat /\ Len(out) <= n /\ n \in Nat /\ segment \in Seq(Unit)
      BY DEF CombineOK, n
    <3>3. \A k \in 1 .. Len(out) : k \in 1 .. n
      BY <3>2
    <3>4. \A k \in 1 .. n : segment[k] \in Unit
      BY <3>2 DEF n
    <3> QED
      BY <3>1, <3>2, <3>3, <3>4 DEF CombineOK
  <2>2. CASE r # 1
    <3> DEFINE cuts == others[r - 1]
               string(k) == Chars(cuts[k][1], cuts[k][2])
    <3>1. unitsOf(r) = cuts /\ Strings(r) = [k \in 1 .. Len(cuts) |-> string(k)]
      BY <2>2 DEF Strings, unitsOf
    <3>2. IsText(text.chars, cuts)
      <4>1. r - 1 \in 1 .. Len(others)
        BY <1>1, <2>2
      <4> QED
        BY <1>1, <4>1, OthersAssumption
    <3> HIDE DEF cuts
    <3>4. cuts \in Seq(Unit)
      BY <3>2 DEF IsText, Unit
    <3>5. ASSUME NEW k \in 1 .. Len(cuts)
          PROVE  /\ cuts[k] \in Unit /\ cuts[k][1] < cuts[k][2]
                 /\ cuts[k][2] <= Len(text.chars) /\ string(k) \in Word
      <4>1. /\ cuts[k] \in Unit /\ cuts[k][1] < cuts[k][2]
            /\ cuts[k][2] \in 1 .. Len(text.chars)
        BY <3>2, <3>4 DEF IsText
      <4>2. cuts[k][1] \in Nat /\ cuts[k][2] \in Nat /\ cuts[k][2] <= Len(text.chars)
        BY <4>1 DEF Unit
      <4> QED
        BY <1>1, <4>1, <4>2, CharsIs
    <3>6. Len(cuts) \in Nat
      BY <3>4
    <3> HIDE DEF string
    <3>7. Strings(r) \in Seq(Word) /\ Len(Strings(r)) = Len(cuts) /\ \A k \in 1 .. Len(cuts) : Strings(r)[k] = string(k)
      BY <3>1, <3>5, <3>6
    <3> QED
      BY <3>1, <3>5, <3>7 DEF string
  <2> QED
    BY <2>1, <2>2
<1>3. /\ Labelled(r) \in Seq(Listed) /\ Len(Labelled(r)) = Len(Strings(r))
      /\ \A k \in 1 .. Len(Strings(r)) : Labelled(r)[k] = [word |-> Strings(r)[k], cand |-> r, unit |-> k]
  <2> DEFINE label(k) == [word |-> Strings(r)[k], cand |-> r, unit |-> k]
             m == Len(Strings(r))
  <2>1. m \in Nat /\ \A k \in 1 .. m : label(k) \in Listed
    BY <1>1, <1>2 DEF Listed
  <2>2. Labelled(r) = [k \in 1 .. m |-> label(k)]
    BY DEF Labelled
  <2> HIDE DEF label, m
  <2>3. Labelled(r) \in Seq(Listed) /\ Len(Labelled(r)) = m /\ \A k \in 1 .. m : Labelled(r)[k] = label(k)
    BY <2>1, <2>2
  <2> QED
    BY <2>3 DEF label, m
<1> QED
  BY <1>2, <1>3

LEMMA ListStep == IInv /\ ListWords => IInv'
<1> SUFFICES ASSUME IInv, ListWords PROVE IInv'
  OBVIOUS
<1>0. PICK r : r = Len(metas) + 1
  OBVIOUS
<1> DEFINE meta == [seg |-> Len(words), pos |-> 0]
<1>1. /\ CombineOK /\ results \in Nat /\ Len(metas) \in Nat /\ r \in 1 .. results /\ r = Len(metas) + 1
      /\ metas \in Seq(Meta) /\ words \in Seq(Listed) /\ Len(words) \in Nat
  <2>1. CombineOK /\ metas \in Seq(Meta) /\ words \in Seq(Listed) /\ Len(metas) < results
    BY DEF IInv, ListsOK, ListWords
  <2>2. results \in Nat
    BY <2>1, ResultsType DEF CombineOK
  <2> QED
    BY <1>0, <2>1, <2>2
<1>2. /\ words' = words \o Labelled(r) /\ metas' = Append(metas, meta) /\ phase = "done"
      /\ UNCHANGED << vars, others, cand, index, pos, asked >>
  BY <1>0 DEF ListWords
<1>3. UNCHANGED << dict, text, phase, segment, i, continueSch, begin, lastWordEnd, node, idx, validIdx, out >>
  BY <1>2 DEF vars, search
<1>4. /\ Word' = Word /\ Listed' = Listed /\ results' = results
      /\ \A q : Strings(q)' = Strings(q) /\ Labelled(q)' = Labelled(q)
  <2>1. Word' = Word /\ results' = results
    BY <1>2, <1>3 DEF Word, results
  <2>2. Listed' = Listed
    BY <1>2, <2>1 DEF Listed
  <2>3. \A q : unitsOf(q)' = unitsOf(q)
    BY <1>2, <1>3 DEF unitsOf
  <2>4. \A q : Strings(q)' = Strings(q)
    BY <1>3, <2>3 DEF Strings, Chars
  <2> QED
    BY <2>1, <2>2, <2>4 DEF Labelled
<1>5. CombineOK'
  BY <1>1, <1>2, <1>3, <1>4 DEF CombineOK, Chars, n
<1>6. /\ Labelled(r) \in Seq(Listed) /\ Len(Labelled(r)) = Len(Strings(r)) /\ Strings(r) \in Seq(Word)
  BY <1>1, LabelledIs
<1>7. Len(Strings(r)) \in Nat
  BY <1>6
<1>8. meta \in Meta
  BY <1>1 DEF Meta
<1> HIDE DEF meta
<1>9. /\ metas' \in Seq(Meta) /\ Len(metas') = r /\ metas'[r] = meta
      /\ \A q \in 1 .. Len(metas) : metas'[q] = metas[q]
  BY <1>1, <1>2, <1>8
<1>10. /\ words' \in Seq(Listed) /\ Len(words') = Len(words) + Len(Strings(r))
       /\ \A k \in 1 .. Len(words) : words'[k] = words[k]
       /\ \A k \in 1 .. Len(Strings(r)) : words'[Len(words) + k] = Labelled(r)[k]
  <2> DEFINE b == Labelled(r)
  <2>1. b \in Seq(Listed) /\ words' = words \o b /\ Len(b) = Len(Strings(r))
    BY <1>2, <1>6
  <2> HIDE DEF b
  <2> DEFINE c == words \o b
  <2>2. /\ c \in Seq(Listed) /\ Len(c) = Len(words) + Len(b)
        /\ \A k \in 1 .. Len(words) : c[k] = words[k]
        /\ \A k \in 1 .. Len(b) : c[Len(words) + k] = b[k]
    <3>1. \A x \in Seq(Listed) : \A y \in Seq(Listed) :
             /\ x \o y \in Seq(Listed) /\ Len(x \o y) = Len(x) + Len(y)
             /\ \A k \in 1 .. Len(x) : (x \o y)[k] = x[k]
             /\ \A k \in 1 .. Len(y) : (x \o y)[Len(x) + k] = y[k]
      BY Concat
    <3>2. words \in Seq(Listed) /\ b \in Seq(Listed)
      BY <1>1, <2>1
    <3> QED
      BY <3>1, <3>2, Zenon
  <2>3. words' = c
    BY <2>1
  <2> HIDE DEF c
  <2> QED
    BY <2>1, <2>2, <2>3 DEF b
<1>11. meta.seg = Len(words) /\ meta.pos = 0
  BY DEF meta
<1>12. ASSUME NEW q \in 1 .. Len(metas)
       PROVE  Count(q)' = Count(q)
  <2>1. CASE q = Len(metas)
    <3>1. Count(q) = Len(words) - metas[q].seg
      BY <2>1 DEF Count
    <3>2. q # Len(metas') /\ q + 1 = r
      BY <1>1, <1>9, <2>1
    <3>3. Count(q)' = metas'[q + 1].seg - metas'[q].seg
      BY <3>2 DEF Count
    <3> QED
      BY <1>9, <1>11, <3>1, <3>2, <3>3
  <2>2. CASE q # Len(metas)
    <3>1. q + 1 \in 1 .. Len(metas) /\ q # Len(metas')
      BY <1>1, <1>9, <2>2
    <3>2. metas'[q + 1] = metas[q + 1] /\ metas'[q] = metas[q]
      BY <1>9, <3>1
    <3> QED
      BY <2>2, <3>1, <3>2 DEF Count
  <2> QED
    BY <2>1, <2>2
<1>13. Count(r)' = Len(Strings(r))
  <2>1. Count(r)' = Len(words') - metas'[r].seg
    BY <1>9 DEF Count
  <2> QED
    BY <1>1, <1>7, <1>9, <1>10, <1>11, <2>1
<1>14. ASSUME NEW q \in 1 .. r
       PROVE  /\ Count(q)' = Len(Strings(q))
              /\ \A k \in 1 .. Count(q)' :
                   metas'[q].seg + k \in 1 .. Len(words') /\ words'[metas'[q].seg + k] = Labelled(q)[k]
  <2>1. CASE q = r
    <3>1. \A k \in 1 .. Len(Strings(r)) : Len(words) + k \in 1 .. Len(words')
      BY <1>1, <1>7, <1>10
    <3>2. metas'[r].seg = Len(words)
      BY <1>9, <1>11
    <3>3. \A k \in 1 .. Len(Strings(r)) :
            /\ metas'[r].seg + k \in 1 .. Len(words')
            /\ words'[metas'[r].seg + k] = Labelled(r)[k]
      BY <1>10, <3>1, <3>2
    <3> QED
      BY <1>13, <2>1, <3>3
  <2>2. CASE q # r
    <3>1. q \in 1 .. Len(metas)
      BY <1>1, <2>2
    <3>2. /\ Count(q) = Len(Strings(q))
          /\ \A k \in 1 .. Count(q) :
               metas[q].seg + k \in 1 .. Len(words) /\ words[metas[q].seg + k] = Labelled(q)[k]
      BY <3>1 DEF IInv, ListsOK
    <3>3. Count(q)' = Count(q) /\ metas'[q] = metas[q]
      BY <1>9, <1>12, <3>1
    <3>4. \A k \in 1 .. Len(words) : k \in 1 .. Len(words')
      BY <1>1, <1>7, <1>10
    <3> QED
      BY <1>10, <3>2, <3>3, <3>4
  <2> QED
    BY <2>1, <2>2
<1>15. metas'[1].seg = 0
  <2>1. CASE metas = << >>
    <3>1. r = 1 /\ words = << >>
      BY <1>1, <2>1 DEF IInv, ListsOK
    <3> QED
      BY <1>9, <1>11, <3>1
  <2>2. CASE metas # << >>
    <3>1. 1 \in 1 .. Len(metas) /\ metas[1].seg = 0
      BY <1>1, <2>2 DEF IInv, ListsOK
    <3> QED
      BY <1>9, <3>1
  <2> QED
    BY <2>1, <2>2
<1>16. ListsOK'
  <2>1. metas' # << >> /\ Len(metas') <= results
    BY <1>1, <1>9
  <2> QED
    BY <1>2, <1>3, <1>4, <1>9, <1>10, <1>14, <1>15, <2>1 DEF ListsOK
<1>17. cand = 0 /\ pos = << >> /\ index = 1
  <2>1. Len(metas) # results
    BY <1>1
  <2>2. cand = 0
    BY <1>1, <2>1 DEF IInv, TagsOK
  <2> QED
    BY <2>2 DEF IInv, TagsOK
<1>18. TagsOK' /\ TagsAllowed'
  <2>1. cand' = 0 /\ pos' = << >> /\ index' = 1 /\ results' = results /\ 0 \in 0 .. results
    BY <1>1, <1>2, <1>4, <1>17
  <2>2. << >> \in Seq([tag : TagName, cand : Nat, unit : Nat])' /\ Len(<< >>) = 0
    OBVIOUS
  <2> QED
    BY <2>1, <2>2 DEF TagsOK, TagsAllowed
<1> QED
  BY <1>5, <1>16, <1>18 DEF IInv

(* What is listed at the place of a unit, once all results are. *)
LEMMA ListedIs ==
  ASSUME IInv, NEW r \in 1 .. Len(metas), NEW k \in 1 .. Count(r)
  PROVE  /\ metas[r].seg + k \in 1 .. Len(words)
         /\ words[metas[r].seg + k].cand = r /\ words[metas[r].seg + k].unit = k
         /\ words[metas[r].seg + k].word = Chars(unitsOf(r)[k][1], unitsOf(r)[k][2])
         /\ unitsOf(r)[k][1] \in Nat /\ unitsOf(r)[k][2] \in Nat
         /\ unitsOf(r)[k][1] < unitsOf(r)[k][2] /\ unitsOf(r)[k][2] <= Len(text.chars)
<1>1. CombineOK /\ Len(metas) \in Nat /\ results \in Nat /\ Len(metas) <= results
  <2>1. CombineOK /\ metas \in Seq(Meta) /\ Len(metas) <= results
    BY DEF IInv, ListsOK
  <2> QED
    BY <2>1, ResultsType DEF CombineOK
<1>2. r \in 1 .. results
  BY <1>1
<1>3. /\ k \in 1 .. Len(Strings(r))
      /\ metas[r].seg + k \in 1 .. Len(words) /\ words[metas[r].seg + k] = Labelled(r)[k]
  BY DEF IInv, ListsOK
<1>4. /\ Labelled(r)[k] = [word |-> Strings(r)[k], cand |-> r, unit |-> k]
      /\ unitsOf(r)[k] \in Unit /\ unitsOf(r)[k][1] < unitsOf(r)[k][2]
      /\ unitsOf(r)[k][2] <= Len(text.chars)
      /\ Strings(r)[k] = Chars(unitsOf(r)[k][1], unitsOf(r)[k][2])
  BY <1>1, <1>2, <1>3, LabelledIs
<1>5. unitsOf(r)[k][1] \in Nat /\ unitsOf(r)[k][2] \in Nat
  BY <1>4 DEF Unit
<1> QED
  BY <1>3, <1>4, <1>5
-----------------------------------------------------------------------------
(* Going on to the next result: its tags begin where its words do.         *)

LEMMA NextStep == IInv /\ NextResult => IInv'
<1> SUFFICES ASSUME IInv, NextResult PROVE IInv'
  OBVIOUS
<1>0. PICK r : r = cand + 1
  OBVIOUS
<1>1. /\ CombineOK /\ results \in Nat /\ Len(metas) = results /\ cand \in 0 .. results /\ cand < results
      /\ metas \in Seq(Meta) /\ r \in 1 .. results /\ r = cand + 1 /\ Len(pos) \in Nat /\ index = Len(pos) + 1
  <2>1. /\ CombineOK /\ metas \in Seq(Meta) /\ Len(metas) = results /\ cand \in 0 .. results /\ cand < results
        /\ pos \in Seq([tag : TagName, cand : Nat, unit : Nat]) /\ index = Len(pos) + 1
    BY DEF IInv, ListsOK, TagsOK, NextResult, Between
  <2>2. results \in Nat
    BY <2>1, ResultsType DEF CombineOK
  <2> QED
    BY <1>0, <2>1, <2>2
<1>2. /\ metas' = [metas EXCEPT ![r].pos = Len(pos)]
      /\ cand' = r /\ index' = metas[r].seg + 1
      /\ UNCHANGED << others, words, pos, asked >>
      /\ UNCHANGED << dict, text, phase, segment, i, continueSch, begin, lastWordEnd, node, idx, validIdx, out >>
  BY <1>1 DEF NextResult, vars, search
<1>3. /\ Word' = Word /\ Listed' = Listed /\ results' = results /\ TagName' = TagName
      /\ \A q : Strings(q)' = Strings(q) /\ Labelled(q)' = Labelled(q)
  BY <1>2 DEF Word, Listed, results, Strings, Labelled, unitsOf, Chars, TagName
<1>4. CombineOK'
  BY <1>1, <1>2, <1>3 DEF IInv, CombineOK, Chars, n
<1>5. \A q \in 1 .. results : metas[q] \in Meta
  BY <1>1
<1>6. /\ metas' \in Seq(Meta) /\ Len(metas') = results
      /\ \A q \in 1 .. results : metas'[q].seg = metas[q].seg /\ (q # r => metas'[q] = metas[q])
      /\ metas'[r].pos = Len(pos)
  <2> DEFINE meta == [metas[r] EXCEPT !.pos = Len(pos)]
  <2>1. meta \in Meta /\ meta.seg = metas[r].seg /\ meta.pos = Len(pos)
    BY <1>1, <1>5 DEF Meta
  <2>2. metas' = [metas EXCEPT ![r] = meta]
    BY <1>2
  <2> HIDE DEF meta
  <2> QED
    BY <1>1, <2>1, <2>2
<1>7. ASSUME NEW q \in 1 .. results
      PROVE  Count(q)' = Count(q)
  <2>1. CASE q = results
    BY <1>1, <1>2, <1>6, <2>1 DEF Count
  <2>2. CASE q # results
    <3>1. q + 1 \in 1 .. results
      BY <1>1, <2>2
    <3> QED
      BY <1>1, <1>2, <1>6, <2>2, <3>1 DEF Count
  <2> QED
    BY <2>1, <2>2
<1>8. /\ \A q \in 1 .. results :
           /\ Count(q) = Len(Strings(q))
           /\ \A k \in 1 .. Count(q) :
                metas[q].seg + k \in 1 .. Len(words) /\ words[metas[q].seg + k] = Labelled(q)[k]
      /\ words \in Seq(Listed) /\ phase = "done" /\ metas[1].seg = 0
  BY <1>1 DEF IInv, ListsOK
<1>9. ListsOK'
  <2>1. metas' # << >> /\ metas'[1].seg = 0 /\ Len(metas') <= results
    BY <1>1, <1>6, <1>8
  <2>2. ASSUME NEW q \in 1 .. results
        PROVE  /\ Count(q)' = Len(Strings(q))
               /\ \A k \in 1 .. Count(q)' :
                    metas'[q].seg + k \in 1 .. Len(words) /\ words[metas'[q].seg + k] = Labelled(q)[k]
    <3>1. metas'[q].seg = metas[q].seg /\ Count(q)' = Count(q)
      BY <1>6, <1>7
    <3> QED
      BY <1>8, <3>1
  <2> QED
    BY <1>2, <1>3, <1>6, <1>8, <2>1, <2>2 DEF ListsOK
<1>10. metas[r].seg = Len(pos)
  <2>1. CASE cand = 0
    BY <1>1, <1>8, <2>1 DEF IInv, TagsOK
  <2>2. CASE cand # 0
    <3>1. index = metas[cand].seg + Count(cand) + 1
      BY <2>2 DEF NextResult, Between, WordEnd, WordBegin
    <3>2. Count(cand) = metas[r].seg - metas[cand].seg
      BY <1>1, <2>2 DEF Count
    <3>3. metas[r].seg \in Nat /\ metas[cand].seg \in Nat
      BY <1>1, <1>5, <2>2 DEF Meta
    <3> QED
      BY <1>1, <3>1, <3>2, <3>3
  <2> QED
    BY <2>1, <2>2
<1>11. TagsOK'
  <2>1. cand' \in 0 .. results' /\ Len(metas') = results'
    BY <1>1, <1>2, <1>3, <1>6
  <2>2. index' \in WordBegin' + 1 .. WordEnd' + 1
    <3>1. Count(r) \in Nat
      <4>1. Strings(r) \in Seq(Word) /\ Count(r) = Len(Strings(r))
        BY <1>1, <1>8, LabelledIs
      <4> QED
        BY <4>1
    <3>2. Count(r)' = Count(r)
      BY <1>1, <1>7
    <3>3. WordBegin' = Len(pos) /\ WordEnd' = Len(pos) + Count(r)
      BY <1>1, <1>2, <1>6, <1>10, <3>2 DEF WordBegin, WordEnd
    <3> QED
      BY <1>1, <1>2, <1>10, <3>1, <3>3
  <2>3. ASSUME NEW q \in 1 .. cand'
        PROVE  metas'[q].pos = metas'[q].seg
    <3>1. CASE q = r
      BY <1>1, <1>6, <1>10, <3>1
    <3>2. CASE q # r
      <4>1. q \in 1 .. cand /\ q \in 1 .. results
        BY <1>1, <1>2, <3>2
      <4> QED
        BY <1>6, <3>2, <4>1 DEF IInv, TagsOK
    <3> QED
      BY <3>1, <3>2
  <2>4. index' = Len(pos') + 1
    BY <1>1, <1>2, <1>10
  <2>5. cand' # 0
    BY <1>1, <1>2
  <2> QED
    BY <1>2, <1>3, <2>1, <2>2, <2>3, <2>4, <2>5 DEF IInv, TagsOK
<1>12. TagsAllowed'
  BY <1>2 DEF IInv, TagsAllowed
<1> QED
  BY <1>4, <1>9, <1>11, <1>12 DEF IInv
-----------------------------------------------------------------------------
(* Tagging a word. *)

(* The order of the natural numbers, as the library's theorems want it. *)
Less == { p \in Nat \X Nat : p[1] < p[2] }

LEMMA LeastElement ==
  ASSUME NEW S \in SUBSET Nat, S # {}
  PROVE  \E l \in S : \A m \in S : l <= m
<1>1. IsWellFoundedOn(Less, Nat)
  BY NatLessThanWellFounded DEF OpToRel, Less
<1>2. PICK l \in S : \A m \in S : ~(<< m, l >> \in Less)
  BY <1>1, WFMin
<1>3. \A k \in Nat, m \in Nat : k < m => << k, m >> \in Less
  BY DEF Less
<1>4. ASSUME NEW m \in S PROVE l <= m
  <2>1. ~(m < l)
    BY <1>2, <1>3
  <2> QED
    BY <2>1
<1> QED
  BY <1>4

(* The first character that is no digit, wherever the word is. *)
LEMMA ShiftedMin ==
  ASSUME NEW b \in Nat, NEW S \in SUBSET Nat, S # {}, NEW T, T = { b + k : k \in S }
  PROVE  Min(S) \in S /\ Min(T) = b + Min(S)
<1>1. PICK m \in S : \A k \in S : m <= k
  BY LeastElement
<1>2. Min(S) = m
  <2>1. \A l \in S : (\A k \in S : l <= k) => l = m
    BY <1>1
  <2> QED
    BY <1>1, <2>1 DEF Min
<1>3. b + m \in T /\ \A k \in T : b + m <= k
  BY <1>1
<1>4. Min(T) = b + m
  <2>1. \A l \in T : (\A k \in T : l <= k) => l = b + m
    BY <1>1, <1>3
  <2> QED
    BY <1>3, <2>1 DEF Min
<1> QED
  BY <1>1, <1>2, <1>4

(* The type is that of the word's own characters. *)
LEMMA TypeIs ==
  ASSUME text \in Texts, NEW b \in Nat, NEW e \in Nat, b < e, e <= Len(text.chars)
  PROVE  /\ WordType(b, e) = CharToWordType[TypeOfString(Chars(b, e))]
         /\ WordType(b, e) \in Range(CharToWordType)
<1> DEFINE w == Chars(b, e)
           type(c) == TypeOf[text.chars[c]]
           own(k) == TypeOf[w[k]]
           T == { c \in b + 1 .. e : type(c) # "digit" }
           S == { k \in 1 .. Len(w) : own(k) # "digit" }
<1>1. Len(w) = e - b /\ \A k \in 1 .. e - b : w[k] = text.chars[b + k]
  BY CharsIs
<1>2. \A k \in 1 .. e - b : own(k) = type(b + k)
  BY <1>1
<1>3. S \in SUBSET Nat /\ T = { b + k : k \in S }
  <2>1. S \in SUBSET Nat
    BY <1>1
  <2>2. ASSUME NEW c \in T
        PROVE  c \in { b + k : k \in S }
    <3>1. c - b \in 1 .. e - b /\ c = b + (c - b)
      BY <2>2
    <3>2. c - b \in S
      BY <1>1, <1>2, <3>1
    <3> QED
      BY <3>1, <3>2
  <2>3. ASSUME NEW k \in S
        PROVE  b + k \in T
    BY <1>1, <1>2
  <2> QED
    BY <2>1, <2>2, <2>3
<1>4. own(Len(w)) = type(e)
  BY <1>1, <1>2
<1>5. S = {} <=> T = {}
  BY <1>3
<1>6. S # {} => Min(S) \in S /\ Min(T) = b + Min(S)
  <2> HIDE DEF S, T
  <2> QED
    BY <1>3, ShiftedMin
<1>7. S # {} => own(Min(S)) = type(Min(T)) /\ Min(T) \in b + 1 .. e
  <2> SUFFICES ASSUME S # {} PROVE own(Min(S)) = type(Min(T)) /\ Min(T) \in b + 1 .. e
    OBVIOUS
  <2>1. Min(S) \in 1 .. e - b /\ Min(T) = b + Min(S)
    BY <1>1, <1>6
  <2> HIDE DEF S, T
  <2> QED
    BY <1>2, <2>1
<1>8. ASSUME NEW c \in b + 1 .. e
      PROVE  type(c) \in DOMAIN CharToWordType
  <2>1. text.chars \in Seq(Range(text.chars))
    BY TextsAssumption DEF IsText
  <2>2. c \in 1 .. Len(text.chars)
    BY <2>1
  <2>3. text.chars[c] \in Range(text.chars)
    BY <2>1, <2>2
  <2> QED
    BY <2>3, TypesAssumption
<1> DEFINE t == IF type(e) = "digit" /\ T # {} THEN type(Min(T)) ELSE type(e)
<1>9. WordType(b, e) = CharToWordType[t]
  BY DEF WordType
<1>10. TypeOfString(w) = IF own(Len(w)) = "digit" /\ S # {} THEN own(Min(S)) ELSE own(Len(w))
  BY DEF TypeOfString
<1>11. TypeOfString(w) = t
  <2> HIDE DEF S, T, own, type, w
  <2> QED
    BY <1>4, <1>5, <1>7, <1>10
<1>12. t \in DOMAIN CharToWordType
  <2>1. e \in b + 1 .. e
    OBVIOUS
  <2> HIDE DEF S, T, type
  <2> QED
    BY <1>5, <1>7, <1>8, <2>1
<1>13. CharToWordType[t] \in Range(CharToWordType)
  BY <1>12 DEF Range
<1> QED
  BY <1>9, <1>11, <1>13

(* The tags a word may have. *)
Allowed(w) ==
  LET type == CharToWordType[TypeOfString(w)]
  IN IF type # "other" THEN { type }
     ELSE IF w \notin dict.words THEN { "default" }
     ELSE Range(TagsOf[w]) \cup { "default" }

LEMMA AllowedIs == TagsAllowed <=> \A k \in 1 .. Len(pos) : pos[k].tag \in Allowed(words[k].word)
BY DEF TagsAllowed, Allowed

(* The word that is tagged is the one listed at index. *)
LEMMA TaggedIs ==
  ASSUME IInv, Tagging
  PROVE  /\ cand \in 1 .. results /\ Len(metas) = results /\ results \in Nat
         /\ WordBegin \in Nat /\ Count(cand) \in Nat /\ index - WordBegin \in 1 .. Count(cand)
         /\ index \in 1 .. Len(words) /\ words[index].cand = cand /\ words[index].unit = index - WordBegin
         /\ words[index].word \in Word
         /\ TypeOfWord = CharToWordType[TypeOfString(words[index].word)]
         /\ TypeOfWord \in Range(CharToWordType)
<1>1. /\ CombineOK /\ metas \in Seq(Meta) /\ cand \in 1 .. results /\ Len(metas) = results /\ results \in Nat
      /\ index \in WordBegin + 1 .. WordEnd /\ words \in Seq(Listed)
  <2>1. /\ CombineOK /\ metas \in Seq(Meta) /\ cand \in 0 .. results /\ cand > 0 /\ Len(metas) = results
        /\ words \in Seq(Listed)
    BY DEF IInv, ListsOK, TagsOK, Tagging
  <2>2. results \in Nat
    BY <2>1, ResultsType DEF CombineOK
  <2> QED
    BY <2>1, <2>2 DEF Tagging
<1>2. WordBegin \in Nat /\ Count(cand) \in Nat
  <2>1. WordBegin \in Nat
    <3>1. metas[cand] \in Meta
      BY <1>1
    <3> QED
      BY <3>1 DEF WordBegin, Meta
  <2>2. Count(cand) = Len(Strings(cand))
    BY <1>1 DEF IInv, ListsOK
  <2>3. Strings(cand) \in Seq(Word)
    BY <1>1, LabelledIs
  <2> QED
    BY <2>1, <2>2, <2>3
<1>3. PICK k : k = index - WordBegin
  OBVIOUS
<1>4. k \in 1 .. Count(cand) /\ index = WordBegin + k
  BY <1>1, <1>2, <1>3 DEF WordEnd
<1>5. /\ index \in 1 .. Len(words) /\ words[index].cand = cand /\ words[index].unit = k
      /\ words[index].word = Chars(TaggedUnit[1], TaggedUnit[2])
      /\ TaggedUnit[1] \in Nat /\ TaggedUnit[2] \in Nat
      /\ TaggedUnit[1] < TaggedUnit[2] /\ TaggedUnit[2] <= Len(text.chars)
  <2>1. TaggedUnit = unitsOf(cand)[k] /\ index = metas[cand].seg + k
    BY <1>3, <1>4 DEF TaggedUnit, WordBegin
  <2> QED
    BY <1>1, <1>4, <2>1, ListedIs
<1>6. /\ TypeOfWord = CharToWordType[TypeOfString(words[index].word)]
      /\ TypeOfWord \in Range(CharToWordType)
  BY <1>1, <1>5, TypeIs DEF TypeOfWord, CombineOK
<1>7. words[index].word \in Word
  <2>1. words[index] \in Listed
    BY <1>1, <1>5
  <2> QED
    BY <2>1 DEF Listed
<1> QED
  BY <1>1, <1>2, <1>3, <1>4, <1>5, <1>6, <1>7

LEMMA PushStep ==
  ASSUME IInv, Tagging, NEW tag \in TagName, tag \in Allowed(words[index].word), Push(tag)
  PROVE  IInv'
<1> DEFINE entry == [tag |-> tag, cand |-> cand, unit |-> index - WordBegin]
           Entry == [tag : TagName, cand : Nat, unit : Nat]
<1>1. /\ cand \in 1 .. results /\ Len(metas) = results /\ results \in Nat
      /\ WordBegin \in Nat /\ Count(cand) \in Nat /\ index - WordBegin \in 1 .. Count(cand)
      /\ index \in 1 .. Len(words) /\ words[index].cand = cand /\ words[index].unit = index - WordBegin
  BY TaggedIs
<1>2. /\ pos \in Seq(Entry) /\ Len(pos) \in Nat /\ index = Len(pos) + 1
      /\ index \in WordBegin + 1 .. WordEnd
  BY DEF IInv, TagsOK, Tagging
<1>3. /\ pos' = Append(pos, entry) /\ index' = index + 1
      /\ UNCHANGED << others, words, metas, cand >>
      /\ UNCHANGED << dict, text, phase, segment, i, continueSch, begin, lastWordEnd, node, idx, validIdx, out >>
  BY DEF Push, vars, search
<1>4. /\ Word' = Word /\ Listed' = Listed /\ results' = results /\ TagName' = TagName
      /\ WordBegin' = WordBegin /\ WordEnd' = WordEnd
      /\ \A q : Strings(q)' = Strings(q) /\ Labelled(q)' = Labelled(q) /\ Count(q)' = Count(q)
      /\ \A w : Allowed(w)' = Allowed(w)
  BY <1>3 DEF Word, Listed, results, Strings, Labelled, unitsOf, Chars, TagName, WordBegin, WordEnd, Count, Allowed
<1>5. CombineOK' /\ ListsOK'
  <2>1. CombineOK'
    BY <1>3, <1>4 DEF IInv, CombineOK, Chars, n
  <2>2. ListsOK'
    BY <1>3, <1>4 DEF IInv, ListsOK
  <2> QED
    BY <2>1, <2>2
<1>6. entry \in Entry /\ entry.tag = tag /\ entry.cand = cand /\ entry.unit = index - WordBegin
  BY <1>1
<1>7. /\ pos' \in Seq(Entry) /\ Len(pos') = Len(pos) + 1 /\ pos'[index] = entry
      /\ \A k \in 1 .. Len(pos) : pos'[k] = pos[k]
  <2> HIDE DEF entry, Entry
  <2> QED
    BY <1>2, <1>3, <1>6
<1>8. ASSUME NEW k \in 1 .. Len(pos')
      PROVE  /\ pos'[k].cand = words[k].cand /\ pos'[k].unit = words[k].unit
             /\ pos'[k].tag \in Allowed(words[k].word)
  <2>1. CASE k = index
    BY <1>1, <1>6, <1>7, <2>1
  <2>2. CASE k # index
    <3>1. k \in 1 .. Len(pos)
      BY <1>2, <1>7, <2>2
    <3> QED
      BY <1>7, <3>1, AllowedIs DEF IInv, TagsOK
  <2> QED
    BY <2>1, <2>2
<1>9. TagsOK'
  <2>1. index' = Len(pos') + 1 /\ index' \in WordBegin + 1 .. WordEnd + 1
    <3>1. Count(cand) \in Int /\ WordEnd \in Int
      BY <1>1 DEF WordEnd
    <3> HIDE DEF entry
    <3> QED
      BY <1>1, <1>2, <1>3, <1>7, <3>1
  <2>2. cand' # 0 /\ cand' \in 0 .. results /\ Len(metas') = results
    BY <1>1, <1>3
  <2>3. \A q \in 1 .. cand : metas[q].pos = metas[q].seg
    BY DEF IInv, TagsOK
  <2> HIDE DEF entry
  <2> QED
    BY <1>3, <1>4, <1>7, <1>8, <2>1, <2>2, <2>3 DEF TagsOK
<1>10. TagsAllowed'
  <2>1. \A k \in 1 .. Len(pos') : pos'[k].tag \in Allowed(words'[k].word)
    BY <1>3, <1>8
  <2> QED
    BY <1>3, <2>1 DEF TagsAllowed, Allowed
<1> QED
  BY <1>5, <1>9, <1>10 DEF IInv

(* Each of the four ways to tag a word gives it a tag it may have. *)
LEMMA TagStep ==
  ASSUME IInv, TagByType \/ TagUnknown \/ TagOnlyOne \/ TagByModel
  PROVE  IInv' /\ Tagging /\ \E tag : Push(tag)
<1> DEFINE w == words[index].word
<1>1. Tagging
  BY DEF TagByType, TagUnknown, TagOnlyOne, TagByModel
<1>2. TypeOfWord = CharToWordType[TypeOfString(w)] /\ TypeOfWord \in Range(CharToWordType)
  BY <1>1, TaggedIs
<1>3. posSet # << >> => w \in dict.words /\ posSet = TagsOf[w]
  BY DEF posSet
<1>4. "default" \in TagName
  BY DEF TagName
<1>5. posSet # << >> => posSet \in Seq(Range(posSet)) /\ Range(posSet) \subseteq TagName
  <2> SUFFICES ASSUME posSet # << >>
               PROVE  posSet \in Seq(Range(posSet)) /\ Range(posSet) \subseteq TagName
    OBVIOUS
  <2>1. dict \in Dicts /\ w \in dict.words /\ posSet = TagsOf[w]
    BY <1>3 DEF IInv, CombineOK
  <2>2. Range(TagsOf[w]) \subseteq TagName
    BY <2>1 DEF TagName
  <2> QED
    BY <2>1, <2>2, TagsAssumption
<1>6. ASSUME TypeOfWord = "other"
      PROVE  /\ w \notin dict.words => "default" \in Allowed(w)
             /\ w \in dict.words => Range(TagsOf[w]) \cup { "default" } \subseteq Allowed(w)
  BY <1>2, <1>6 DEF Allowed
<1>7. ASSUME NEW k \in Nat, k > 0, Len(posSet) >= k, posSet # << >>, TypeOfWord = "other"
      PROVE  posSet[k] \in TagName /\ posSet[k] \in Allowed(w)
  <2> DEFINE ps == posSet
  <2>1. ps \in Seq(Range(ps))
    BY <1>5, <1>7
  <2>2. k \in DOMAIN ps
    <3> HIDE DEF ps
    <3>1. Len(ps) \in Nat /\ DOMAIN ps = 1 .. Len(ps)
      BY <2>1
    <3> QED
      BY <1>7, <3>1 DEF ps
  <2>3. posSet[k] \in Range(posSet)
    BY <2>2 DEF Range
  <2> QED
    BY <1>3, <1>5, <1>6, <1>7, <2>3
<1>8. ASSUME NEW tag \in TagName, tag \in Allowed(w), Push(tag)
      PROVE  IInv' /\ Tagging /\ \E t : Push(t)
  BY <1>1, <1>8, PushStep
<1>9. CASE TagByType
  <2>1. TypeOfWord \in TagName /\ TypeOfWord \in Allowed(w) /\ Push(TypeOfWord)
    BY <1>2, <1>9 DEF TagByType, TagName, Allowed
  <2> QED
    BY <1>8, <2>1
<1>10. CASE TagUnknown
  <2>1. "default" \in Allowed(w) /\ Push("default")
    BY <1>6, <1>10 DEF TagUnknown
  <2> QED
    BY <1>4, <1>8, <2>1
<1>11. CASE TagOnlyOne
  <2>1. Len(posSet) = 1 /\ TypeOfWord = "other" /\ Push(posSet[1])
    BY <1>11 DEF TagOnlyOne
  <2>2. posSet # << >>
    BY <2>1
  <2>3. posSet[1] \in TagName /\ posSet[1] \in Allowed(w)
    BY <1>7, <2>1, <2>2
  <2> QED
    BY <1>8, <2>1, <2>3
<1>12. CASE TagByModel
  <2>1. /\ Len(posSet) > 1 /\ TypeOfWord = "other"
        /\ Push("default") \/ Push(posSet[2])
    BY <1>12 DEF TagByModel
  <2>2. posSet # << >>
    BY <2>1
  <2>3. Len(posSet) >= 2
    <3> DEFINE ps == posSet
    <3>1. ps \in Seq(Range(ps))
      BY <1>5, <2>2
    <3> HIDE DEF ps
    <3>2. Len(ps) \in Nat
      BY <3>1
    <3> QED
      BY <2>1, <3>2 DEF ps
  <2>4. posSet[2] \in TagName /\ posSet[2] \in Allowed(w)
    BY <1>7, <2>1, <2>2, <2>3
  <2>5. "default" \in Allowed(w)
    BY <1>6, <2>1
  <2> QED
    BY <1>4, <1>8, <2>1, <2>4, <2>5
<1> QED
  BY <1>9, <1>10, <1>11, <1>12

LEMMA StepIInv == IInv /\ [TagNext]_allVars => IInv'
<1> SUFFICES ASSUME IInv, [TagNext]_allVars PROVE IInv'
  OBVIOUS
<1>1. CASE CombineFirst
  BY <1>1, CombineStep
<1>2. CASE ListWords
  BY <1>2, ListStep
<1>3. CASE NextResult
  BY <1>3, NextStep
<1>4. CASE TagByType \/ TagUnknown \/ TagOnlyOne \/ TagByModel
  BY <1>4, TagStep
<1>5. CASE UNCHANGED allVars
  <2>1. /\ UNCHANGED << dict, text, phase, segment, i, continueSch, begin, lastWordEnd, node, idx, validIdx, out >>
        /\ UNCHANGED << others, words, metas, cand, index, pos, asked >>
    BY <1>5 DEF allVars, vars, search, tagVars
  <2>2. /\ Word' = Word /\ Listed' = Listed /\ results' = results /\ TagName' = TagName
        /\ WordBegin' = WordBegin /\ WordEnd' = WordEnd
        /\ \A q : Strings(q)' = Strings(q) /\ Labelled(q)' = Labelled(q) /\ Count(q)' = Count(q)
    BY <2>1 DEF Word, Listed, results, Strings, Labelled, unitsOf, Chars, TagName, WordBegin, WordEnd, Count
  <2>3. CombineOK'
    BY <2>1, <2>2 DEF IInv, CombineOK, Chars, n
  <2>4. ListsOK'
    BY <2>1, <2>2 DEF IInv, ListsOK
  <2>5. TagsOK'
    BY <2>1, <2>2 DEF IInv, TagsOK
  <2>6. TagsAllowed'
    <3>1. \A k \in 1 .. Len(pos') : pos'[k].tag \in Allowed(words'[k].word)
      BY <2>1, AllowedIs DEF IInv
    <3> QED
      BY <2>1, <3>1 DEF TagsAllowed, Allowed
  <2> QED
    BY <2>3, <2>4, <2>5, <2>6 DEF IInv
<1> QED
  BY <1>1, <1>2, <1>3, <1>4, <1>5 DEF TagNext

LEMMA AlwaysIInv == TagSpec => []IInv
BY InitIInv, StepIInv, PTL DEF TagSpec
-----------------------------------------------------------------------------
(***************************************************************************)
(* A tag is one the word may have, in every state: also for a word whose   *)
(* entry was disabled, and whichever way it was tagged.                    *)
(***************************************************************************)
THEOREM TagsAlwaysAllowed == TagSpec => []TagsAllowed
<1>1. IInv => TagsAllowed
  BY DEF IInv
<1> QED
  BY <1>1, AlwaysIInv, PTL

(***************************************************************************)
(* When all results are tagged, each word stands at the place of its unit, *)
(* and its tag at the same place of the tags.                              *)
(***************************************************************************)
THEOREM TagsAlwaysInStep == TagSpec => []TagsInStep
<1>1. IInv => TagsInStep
  <2> SUFFICES ASSUME IInv, Tagged PROVE TagsInStep
    BY DEF TagsInStep
  <2>1. /\ CombineOK /\ cand = results /\ index = WordEnd + 1 /\ index = Len(pos) + 1
        /\ metas \in Seq(Meta) /\ Len(metas) <= results /\ words \in Seq(Listed)
        /\ pos \in Seq([tag : TagName, cand : Nat, unit : Nat])
    BY DEF IInv, ListsOK, TagsOK, Tagged
  <2>2. results \in Nat \ { 0 } /\ Len(metas) = results
    <3>1. results \in Nat \ { 0 }
      BY <2>1, ResultsType DEF CombineOK
    <3> QED
      BY <2>1, <3>1 DEF IInv, TagsOK
  <2>3. results \in 1 .. results
    BY <2>2
  <2>4. metas[results] \in Meta
    BY <2>1, <2>2, <2>3
  <2>5. Len(pos) = Len(words)
    <3>1. WordEnd = metas[results].seg + Count(results) /\ Count(results) = Len(words) - metas[results].seg
      BY <2>1, <2>2 DEF WordEnd, WordBegin, Count
    <3>2. metas[results].seg \in Nat /\ Len(words) \in Nat /\ Len(pos) \in Nat
      BY <2>1, <2>4 DEF Meta
    <3> QED
      BY <2>1, <3>1, <3>2
  <2>6. ASSUME NEW r \in 1 .. results, NEW k \in 1 .. Count(r)
        PROVE  /\ words[metas[r].seg + k].cand = r /\ words[metas[r].seg + k].unit = k
               /\ pos[metas[r].pos + k].cand = r /\ pos[metas[r].pos + k].unit = k
    <3>1. /\ metas[r].seg + k \in 1 .. Len(pos)
          /\ words[metas[r].seg + k].cand = r /\ words[metas[r].seg + k].unit = k
      BY <2>2, <2>5, ListedIs
    <3>2. metas[r].pos = metas[r].seg
      BY <2>1 DEF IInv, TagsOK
    <3> QED
      BY <3>1, <3>2 DEF IInv, TagsOK
  <2> QED
    BY <2>5, <2>6 DEF TagsInStep
<1> QED
  BY <1>1, AlwaysIInv, PTL

(***************************************************************************)
(* The model is asked about a word with the tags of the words before it in *)
(* its own result, never with those of the result before.                  *)
(***************************************************************************)
HistoryStep ==
  asked' # asked =>
    LET IsTagOf(t, u) == IF u < 1 THEN t = Boundary ELSE t.cand = cand /\ t.unit = u
        unit == index - WordBegin
    IN /\ IsTagOf(asked'.tag_1, unit - 1)
       /\ IsTagOf(asked'.tag_2, unit - 2)
       /\ asked'.right.cand \in { 0, cand }

(* A tag before the word is that of the unit before it, if there is one. *)
LEMMA BeforeIs ==
  ASSUME IInv, Tagging, NEW d \in { 1, 2 }
  PROVE  IF index - WordBegin - d < 1 THEN TagBefore(d) = Boundary
         ELSE TagBefore(d).cand = cand /\ TagBefore(d).unit = index - WordBegin - d
<1>1. /\ cand \in 1 .. results /\ Len(metas) = results /\ results \in Nat
      /\ WordBegin \in Nat /\ Count(cand) \in Nat /\ index - WordBegin \in 1 .. Count(cand)
  BY TaggedIs
<1>2. index = Len(pos) + 1 /\ Len(pos) \in Nat
  BY DEF IInv, TagsOK
<1>3. CASE index - WordBegin - d < 1
  <2>1. ~(index > WordBegin + d)
    BY <1>1, <1>2, <1>3
  <2> QED
    BY <1>3, <2>1 DEF TagBefore
<1>4. CASE ~(index - WordBegin - d < 1)
  <2>1. PICK u : u = index - WordBegin - d
    OBVIOUS
  <2>2. u \in 1 .. Count(cand) /\ index - d = WordBegin + u /\ index > WordBegin + d /\ index - d \in 1 .. Len(pos)
    <3>1. PICK b, c, l : b = WordBegin /\ c = Count(cand) /\ l = Len(pos)
      OBVIOUS
    <3>2. b \in Nat /\ c \in Nat /\ l \in Nat /\ index = l + 1 /\ index - b \in 1 .. c /\ u = index - b - d /\ ~(u < 1)
      BY <1>1, <1>2, <1>4, <2>1, <3>1
    <3>3. u \in 1 .. c /\ index - d = b + u /\ index > b + d /\ index - d \in 1 .. l
      BY <3>2
    <3> QED
      BY <3>1, <3>3
  <2>3. words[WordBegin + u].cand = cand /\ words[WordBegin + u].unit = u
    BY <1>1, <2>2, ListedIs DEF WordBegin
  <2>4. pos[index - d].cand = words[index - d].cand /\ pos[index - d].unit = words[index - d].unit
    BY <2>2 DEF IInv, TagsOK
  <2> QED
    BY <1>4, <2>1, <2>2, <2>3, <2>4 DEF TagBefore
<1> QED
  BY <1>3, <1>4

LEMMA AskedStep == IInv /\ TagByModel => HistoryStep
<1> SUFFICES ASSUME IInv, TagByModel PROVE HistoryStep
  OBVIOUS
<1>1. Tagging
  BY DEF TagByModel
<1>2. /\ asked'.tag_1 = TagBefore(1) /\ asked'.tag_2 = TagBefore(2) /\ asked'.right = RightWord
  BY DEF TagByModel
<1>3. RightWord.cand \in { 0, cand }
  <2>1. CASE index < WordEnd
    <3>1. /\ cand \in 1 .. Len(metas) /\ WordBegin \in Nat /\ Count(cand) \in Nat
          /\ index - WordBegin \in 1 .. Count(cand) /\ index \in Int
      BY <1>1, TaggedIs DEF Tagging
    <3>2. PICK u : u = index + 1 - WordBegin
      OBVIOUS
    <3>3. u \in 1 .. Count(cand) /\ index + 1 = WordBegin + u
      BY <2>1, <3>1, <3>2 DEF WordEnd
    <3>4. words[WordBegin + u].cand = cand
      BY <3>1, <3>3, ListedIs DEF WordBegin
    <3> QED
      BY <2>1, <3>3, <3>4 DEF RightWord
  <2>2. CASE ~(index < WordEnd)
    BY <2>2 DEF RightWord, Boundary
  <2> QED
    BY <2>1, <2>2
<1>4. /\ IF index - WordBegin - 1 < 1 THEN TagBefore(1) = Boundary
         ELSE TagBefore(1).cand = cand /\ TagBefore(1).unit = index - WordBegin - 1
      /\ IF index - WordBegin - 2 < 1 THEN TagBefore(2) = Boundary
         ELSE TagBefore(2).cand = cand /\ TagBefore(2).unit = index - WordBegin - 2
  BY <1>1, BeforeIs
<1> QED
  BY <1>2, <1>3, <1>4 DEF HistoryStep

THEOREM AsksWithinResult == TagSpec => HistoryOfResult
<1>1. IInv /\ [TagNext]_allVars => [HistoryStep]_asked
  <2> SUFFICES ASSUME IInv, [TagNext]_allVars PROVE HistoryStep \/ UNCHANGED asked
    OBVIOUS
  <2>1. CASE TagByModel
    BY <2>1, AskedStep
  <2>2. CASE CombineFirst \/ ListWords \/ NextResult \/ TagByType \/ TagUnknown \/ TagOnlyOne \/ UNCHANGED allVars
    BY <2>2 DEF CombineFirst, ListWords, NextResult, TagByType, TagUnknown, TagOnlyOne, allVars, tagVars
  <2> QED
    BY <2>1, <2>2 DEF TagNext
<1>2. TagSpec => [][HistoryStep]_asked
  BY <1>1, AlwaysIInv, PTL DEF TagSpec
<1> QED
  BY <1>2 DEF HistoryOfResult, HistoryStep

-----------------------------------------------------------------------------
(***************************************************************************)
(* The longest match.  What is expected of a text and a dictionary, with   *)
(* both as parameters.                                                     *)
(***************************************************************************)
WordsBeginVisibly == \A d \in Dicts : \A w \in d.words \cup d.hidden : w # << >> => w[1] # Space

CharsOf(t, b, e) == SubSeq(t.chars, b + 1, e)
CutOf(t, k) == CharsOf(t, t.cuts[k][1], t.cuts[k][2])
SpanOf(t, k, m) == CharsOf(t, t.cuts[k][1], t.cuts[m][2])
MoreIn(d, p) == \E w \in d.words \cup d.hidden : IsStrictPrefix(p, w)
TextStrings(t) == Seq(Range(t.chars))

JoinedOf(t, k, m) ==
  LET upTo[x \in k .. Len(t.cuts)] == IF x = k THEN CutOf(t, x) ELSE upTo[x - 1] \o CutOf(t, x)
  IN upTo[m]

ExtendedIn(d, p) == p \in d.words /\ MoreIn(d, p)

LongestOf(t, d, k) ==
  Max({ k } \cup { m \in k + 1 .. Len(t.cuts) : ExtendedIn(d, JoinedOf(t, k, m)) })

(* What is expected from word k on. *)
ExpectedFrom(t, d, b) ==
  LET from[k \in 1 .. Len(t.cuts) + 1] ==
        IF k = Len(t.cuts) + 1 THEN << >>
        ELSE IF CutOf(t, k) = << Space >> /\ LongestOf(t, d, k) = k THEN from[k + 1]
        ELSE << SpanOf(t, k, LongestOf(t, d, k)) >> \o from[LongestOf(t, d, k) + 1]
  IN from[b]

LEMMA CharsAre == \A b, e : Chars(b, e) = CharsOf(text, b, e)
BY DEF Chars, CharsOf

LEMMA MoreIs == \A p : MoreLong(p) <=> MoreIn(dict, p)
BY DEF MoreLong, MoreIn

LEMMA ExpectedIs == Expected = ExpectedFrom(text, dict, 1)
BY DEF Expected, ExpectedFrom, Longest, LongestOf, Joined, JoinedOf, Cut, CutOf, Span, SpanOf,
       ExtendedWord, ExtendedIn, LastCut, MoreLong, MoreIn, Chars, CharsOf

(* The words of a text. *)
LEMMA CutIs ==
  ASSUME NEW t \in Texts
  PROVE  /\ t.cuts \in Seq(Nat \X Nat) /\ Len(t.cuts) \in Nat
         /\ \A k \in 1 .. Len(t.cuts) :
              /\ t.cuts[k] \in Nat \X Nat /\ t.cuts[k][1] \in Nat /\ t.cuts[k][2] \in Nat
              /\ t.cuts[k][1] < t.cuts[k][2] /\ t.cuts[k][2] <= Len(t.chars)
         /\ Len(t.chars) \in Nat
         /\ \A k \in 2 .. Len(t.cuts) : t.cuts[k - 1][2] <= t.cuts[k][1]
<1>1. IsText(t.chars, t.cuts)
  BY TextsAssumption
<1> QED
  BY <1>1 DEF IsText

LEMMA CharsOfIs ==
  ASSUME NEW t \in Texts, NEW b \in Nat, NEW e \in Nat, e <= Len(t.chars), b < e
  PROVE  /\ CharsOf(t, b, e) \in TextStrings(t) /\ Len(CharsOf(t, b, e)) = e - b
         /\ \A k \in 1 .. e - b : CharsOf(t, b, e)[k] = t.chars[b + k]
<1> PICK chars, X : chars = t.chars /\ X = Range(t.chars)
  OBVIOUS
<1>1. chars \in Seq(X)
  BY TextsAssumption DEF IsText
<1>2. Len(chars) \in Nat /\ e <= Len(chars) /\ b + 1 \in 1 .. Len(chars) /\ e \in 1 .. Len(chars)
  BY <1>1
<1>3. /\ SubSeq(chars, b + 1, e) \in Seq(X) /\ Len(SubSeq(chars, b + 1, e)) = e - b
      /\ \A k \in 1 .. e - b : SubSeq(chars, b + 1, e)[k] = chars[b + k]
  BY <1>1, <1>2
<1> QED
  BY <1>3 DEF CharsOf, TextStrings

LEMMA SameSeq ==
  ASSUME NEW X, NEW a \in Seq(X), NEW b \in Seq(X), Len(a) = Len(b), \A k \in 1 .. Len(a) : a[k] = b[k]
  PROVE  a = b
OBVIOUS

(* Two stretches of text, one after the other. *)
LEMMA CharsConcat ==
  ASSUME NEW t \in Texts, NEW b \in Nat, NEW m \in Nat, NEW e \in Nat, e <= Len(t.chars), b < m, m < e
  PROVE  CharsOf(t, b, e) = CharsOf(t, b, m) \o CharsOf(t, m, e)
<1> PICK x, y, z : x = CharsOf(t, b, m) /\ y = CharsOf(t, m, e) /\ z = CharsOf(t, b, e)
  OBVIOUS
<1> PICK X : X = Range(t.chars)
  OBVIOUS
<1>0. m <= Len(t.chars) /\ b < e
  <2>1. Len(t.chars) \in Nat
    BY CutIs
  <2> QED
    BY <2>1
<1>1. \A l, r \in Nat : l < r /\ r <= Len(t.chars) =>
        /\ CharsOf(t, l, r) \in Seq(X) /\ Len(CharsOf(t, l, r)) = r - l
        /\ \A k \in 1 .. r - l : CharsOf(t, l, r)[k] = t.chars[l + k]
  BY CharsOfIs, Zenon DEF TextStrings
<1>2. /\ x \in Seq(X) /\ Len(x) = m - b /\ \A k \in 1 .. m - b : x[k] = t.chars[b + k]
      /\ y \in Seq(X) /\ Len(y) = e - m /\ \A k \in 1 .. e - m : y[k] = t.chars[m + k]
      /\ z \in Seq(X) /\ Len(z) = e - b /\ \A k \in 1 .. e - b : z[k] = t.chars[b + k]
  BY <1>0, <1>1
<1>3. /\ x \o y \in Seq(X) /\ Len(x \o y) = Len(x) + Len(y)
      /\ \A q \in 1 .. Len(x) : (x \o y)[q] = x[q]
      /\ \A q \in 1 .. Len(y) : (x \o y)[Len(x) + q] = y[q]
  <2>1. x \in Seq(X) /\ y \in Seq(X)
    BY <1>2
  <2>2. \A u, v \in Seq(X) :
          /\ u \o v \in Seq(X) /\ Len(u \o v) = Len(u) + Len(v)
          /\ \A q \in 1 .. Len(u) : (u \o v)[q] = u[q]
          /\ \A q \in 1 .. Len(v) : (u \o v)[Len(u) + q] = v[q]
    OBVIOUS
  <2> QED
    BY <2>1, <2>2
<1>4. x \o y \in Seq(X) /\ Len(x \o y) = Len(z)
  <2>1. (m - b) + (e - m) = e - b
    OBVIOUS
  <2> QED
    BY <1>2, <1>3, <2>1
<1>5. ASSUME NEW k \in 1 .. Len(z) PROVE z[k] = (x \o y)[k]
  <2>1. CASE k \in 1 .. m - b
    BY <1>2, <1>3, <2>1
  <2>2. CASE k - (m - b) \in 1 .. e - m
    <3>1. (x \o y)[k] = y[k - (m - b)]
      <4>1. PICK q : q = k - (m - b)
        OBVIOUS
      <4>2. q \in 1 .. Len(y) /\ k = Len(x) + q
        BY <1>2, <2>2, <4>1
      <4> QED
        BY <1>3, <4>1, <4>2
    <3>2. y[k - (m - b)] = t.chars[m + (k - (m - b))] /\ m + (k - (m - b)) = b + k
      BY <1>2, <2>2
    <3>3. z[k] = t.chars[b + k]
      BY <1>2
    <3> QED
      BY <3>1, <3>2, <3>3
  <2>3. k \in 1 .. m - b \/ k - (m - b) \in 1 .. e - m
    BY <1>2
  <2> QED
    BY <2>1, <2>2, <2>3
<1> QED
  <2>1. z = x \o y
    BY <1>2, <1>4, <1>5, SameSeq
  <2> QED
    BY <2>1

(* Only beginnings of beginnings of words are such. *)
LEMMA MoreBefore ==
  ASSUME NEW d \in Dicts, NEW X, NEW p \in Seq(X), NEW q \in Seq(X), MoreIn(d, p \o q)
  PROVE  MoreIn(d, p)
<1>1. PICK w \in d.words \cup d.hidden : IsStrictPrefix(p \o q, w)
  BY DEF MoreIn
<1> PICK Y : Y = Range(w)
  OBVIOUS
<1>2. w \in Seq(Y) /\ Len(w) \in Nat
  <2>1. w \in Seq(Range(w))
    BY DictsAssumption
  <2> QED
    BY <2>1
<1> PICK r, l : r = p \o q /\ l = Len(p)
  OBVIOUS
<1>3. r \in Seq(X) /\ l \in Nat /\ Len(r) \in Nat /\ l <= Len(r) /\ \A k \in 1 .. l : r[k] = p[k]
  OBVIOUS
<1>4. Len(r) <= Len(w) /\ SubSeq(r, 1, Len(r)) = SubSeq(w, 1, Len(r)) /\ r # w
  BY <1>1 DEF IsStrictPrefix, IsPrefix
<1>5. \A k \in 1 .. Len(r) : r[k] = w[k]
  <2>1. \A k \in 1 .. Len(r) : SubSeq(r, 1, Len(r))[k] = r[k] /\ SubSeq(w, 1, Len(r))[k] = w[k]
    BY <1>2, <1>3, <1>4
  <2> QED
    BY <1>4, <2>1
<1>6. \A k \in 1 .. l : p[k] = w[k]
  BY <1>3, <1>5
<1>7. SubSeq(p, 1, l) = SubSeq(w, 1, l)
  <2>1. SubSeq(p, 1, l) \in Seq(X) /\ Len(SubSeq(p, 1, l)) = l /\ \A k \in 1 .. l : SubSeq(p, 1, l)[k] = p[k]
    BY <1>3
  <2>2. SubSeq(w, 1, l) \in Seq(Y) /\ Len(SubSeq(w, 1, l)) = l /\ \A k \in 1 .. l : SubSeq(w, 1, l)[k] = w[k]
    BY <1>2, <1>3, <1>4
  <2> QED
    BY <1>6, <2>1, <2>2
<1>8. p # w
  <2> SUFFICES ASSUME p = w PROVE FALSE
    OBVIOUS
  <2>1. Len(r) = l
    BY <1>3, <1>4
  <2>2. Len(q) = 0
    BY <2>1
  <2>3. r = p
    BY <2>2
  <2> QED
    BY <1>4, <2>3
<1> QED
  BY <1>2, <1>3, <1>4, <1>7, <1>8 DEF MoreIn, IsStrictPrefix, IsPrefix

(* No word begins with a space. *)
LEMMA SpaceIsNoWord ==
  ASSUME WordsBeginVisibly, NEW d \in Dicts
  PROVE  ~MoreIn(d, << Space >>) /\ << Space >> \notin d.words
<1>1. << Space >> \notin d.words
  BY DEF WordsBeginVisibly
<1>2. ASSUME NEW w \in d.words \cup d.hidden, IsStrictPrefix(<< Space >>, w) PROVE FALSE
  <2>1. w \in Seq(Range(w))
    BY DictsAssumption
  <2>2. Len(w) \in Nat /\ 1 <= Len(w) /\ SubSeq(<< Space >>, 1, 1) = SubSeq(w, 1, 1)
    BY <1>2, <2>1 DEF IsStrictPrefix, IsPrefix
  <2>3. SubSeq(<< Space >>, 1, 1)[1] = Space /\ SubSeq(w, 1, 1)[1] = w[1]
    BY <2>1, <2>2
  <2> QED
    BY <2>1, <2>2, <2>3 DEF WordsBeginVisibly
<1> QED
  BY <1>1, <1>2 DEF MoreIn

-----------------------------------------------------------------------------
(* What is joined: the strings of the words k to m, one after the other. *)
JoinsUpTo(f, c, k, l) == f = [x \in k .. k + l |-> IF x = k THEN c[x] ELSE f[x - 1] \o c[x]]

LEMMA JoinsExist ==
  ASSUME NEW c, NEW k \in Nat, NEW l \in Nat
  PROVE  \E f : JoinsUpTo(f, c, k, l)
<1> DEFINE Bad == { j \in Nat : ~\E f : JoinsUpTo(f, c, k, j) }
<1>1. ASSUME Bad # {} PROVE FALSE
  <2>1. PICK j \in Bad : \A m \in Bad : j <= m
    <3>1. Bad \in SUBSET Nat
      OBVIOUS
    <3> HIDE DEF Bad
    <3> QED
      BY <1>1, <3>1, LeastElement
  <2>2. j \in Nat /\ ~\E f : JoinsUpTo(f, c, k, j)
    BY <2>1
  <2>3. j # 0
    <3>1. PICK f : f = [x \in k .. k + 0 |-> c[x]]
      OBVIOUS
    <3>2. [x \in k .. k + 0 |-> IF x = k THEN c[x] ELSE f[x - 1] \o c[x]] = f
      BY <3>1
    <3> QED
      BY <2>2, <3>2 DEF JoinsUpTo
  <2>4. j - 1 \in Nat /\ j - 1 \notin Bad
    BY <2>1, <2>2, <2>3
  <2>5. PICK f : JoinsUpTo(f, c, k, j - 1)
    BY <2>4
  <2>6. PICK g : g = [x \in k .. k + j |-> IF x = k + j THEN f[x - 1] \o c[x] ELSE f[x]]
    OBVIOUS
  <2>7. \A x \in k .. k + (j - 1) : f[x] = IF x = k THEN c[x] ELSE f[x - 1] \o c[x]
    BY <2>5 DEF JoinsUpTo
  <2>8. ASSUME NEW x \in k .. k + j PROVE g[x] = IF x = k THEN c[x] ELSE g[x - 1] \o c[x]
    <3>1. CASE x = k + j
      <4>1. x # k /\ x - 1 \in k .. k + j /\ x - 1 # k + j
        BY <2>2, <2>3, <3>1
      <4>2. g[x - 1] = f[x - 1] /\ g[x] = f[x - 1] \o c[x]
        BY <2>6, <3>1, <4>1
      <4> QED
        BY <4>1, <4>2
    <3>2. CASE x # k + j
      <4>1. x \in k .. k + (j - 1) /\ g[x] = f[x]
        BY <2>2, <2>6, <3>2
      <4>2. ASSUME x # k PROVE g[x - 1] = f[x - 1]
        <5>1. x - 1 \in k .. k + j /\ x - 1 # k + j
          BY <2>2, <4>2
        <5> QED
          BY <2>6, <5>1
      <4> QED
        BY <2>7, <4>1, <4>2
    <3> QED
      BY <3>1, <3>2
  <2>9. g = [x \in k .. k + j |-> IF x = k THEN c[x] ELSE g[x - 1] \o c[x]]
    <3>1. PICK h : h = [x \in k .. k + j |-> IF x = k THEN c[x] ELSE g[x - 1] \o c[x]]
      OBVIOUS
    <3>2. \A x \in k .. k + j : h[x] = g[x]
      BY <2>8, <3>1
    <3>3. g = [x \in k .. k + j |-> g[x]] /\ h = [x \in k .. k + j |-> h[x]]
      BY <2>6, <3>1
    <3> QED
      BY <3>1, <3>2, <3>3
  <2> QED
    BY <2>2, <2>9 DEF JoinsUpTo
<1> QED
  BY <1>1

LEMMA CutString ==
  ASSUME NEW t \in Texts, NEW k \in 1 .. Len(t.cuts)
  PROVE  /\ CutOf(t, k) \in TextStrings(t) /\ Len(CutOf(t, k)) = t.cuts[k][2] - t.cuts[k][1]
         /\ \A q \in 1 .. t.cuts[k][2] - t.cuts[k][1] : CutOf(t, k)[q] = t.chars[t.cuts[k][1] + q]
<1>1. PICK b, e : b = t.cuts[k][1] /\ e = t.cuts[k][2]
  OBVIOUS
<1>2. b \in Nat /\ e \in Nat /\ b < e /\ e <= Len(t.chars)
  BY <1>1, CutIs
<1>3. /\ CharsOf(t, b, e) \in TextStrings(t) /\ Len(CharsOf(t, b, e)) = e - b
      /\ \A q \in 1 .. e - b : CharsOf(t, b, e)[q] = t.chars[b + q]
  BY <1>2, CharsOfIs
<1> QED
  BY <1>1, <1>3 DEF CutOf

LEMMA JoinedIs ==
  ASSUME NEW t \in Texts, NEW k \in 1 .. Len(t.cuts)
  PROVE  /\ JoinedOf(t, k, k) = CutOf(t, k)
         /\ \A m \in k .. Len(t.cuts) - 1 : JoinedOf(t, k, m + 1) = JoinedOf(t, k, m) \o CutOf(t, m + 1)
<1>0. PICK L : L = Len(t.cuts)
  OBVIOUS
<1>1. L \in Nat /\ k \in 1 .. L
  BY <1>0, CutIs
<1>2. PICK c : c = [x \in k .. L |-> CutOf(t, x)]
  OBVIOUS
<1>3. L - k \in Nat /\ k + (L - k) = L /\ k \in Nat
  BY <1>1
<1>4. \E f : f = [x \in k .. L |-> IF x = k THEN CutOf(t, x) ELSE f[x - 1] \o CutOf(t, x)]
  <2>1. PICK f : JoinsUpTo(f, c, k, L - k)
    BY <1>3, JoinsExist
  <2>2. f = [x \in k .. L |-> IF x = k THEN c[x] ELSE f[x - 1] \o c[x]]
    BY <2>1, <1>3 DEF JoinsUpTo
  <2>3. \A x \in k .. L : c[x] = CutOf(t, x)
    BY <1>2
  <2>4. [x \in k .. L |-> IF x = k THEN c[x] ELSE f[x - 1] \o c[x]]
          = [x \in k .. L |-> IF x = k THEN CutOf(t, x) ELSE f[x - 1] \o CutOf(t, x)]
    BY <2>3
  <2> QED
    BY <2>2, <2>4
<1>5. PICK u : u = CHOOSE f : f = [x \in k .. L |-> IF x = k THEN CutOf(t, x) ELSE f[x - 1] \o CutOf(t, x)]
  OBVIOUS
<1>6. u = [x \in k .. L |-> IF x = k THEN CutOf(t, x) ELSE u[x - 1] \o CutOf(t, x)]
  BY <1>4, <1>5
<1>7. \A m : JoinedOf(t, k, m) = u[m]
  BY <1>0, <1>5 DEF JoinedOf
<1>8. u[k] = CutOf(t, k)
  BY <1>1, <1>6
<1>9. \A m \in k .. L - 1 : u[m + 1] = u[m] \o CutOf(t, m + 1)
  <2> TAKE m \in k .. L - 1
  <2>1. PICK x : x = m + 1
    OBVIOUS
  <2>2. x \in k .. L /\ x # k /\ x - 1 = m
    BY <1>1, <2>1
  <2>3. u[x] = u[x - 1] \o CutOf(t, x)
    BY <1>6, <2>2
  <2> QED
    BY <2>1, <2>2, <2>3
<1> QED
  BY <1>0, <1>7, <1>8, <1>9

LEMMA JoinedString ==
  ASSUME NEW t \in Texts, NEW k \in 1 .. Len(t.cuts), NEW m \in k .. Len(t.cuts)
  PROVE  JoinedOf(t, k, m) \in TextStrings(t)
<1> DEFINE Bad == { j \in Nat : k + j <= Len(t.cuts) /\ JoinedOf(t, k, k + j) \notin TextStrings(t) }
<1>1. Len(t.cuts) \in Nat /\ k \in Nat
  BY CutIs
<1>2. ASSUME Bad # {} PROVE FALSE
  <2>1. PICK j \in Bad : \A l \in Bad : j <= l
    <3>1. Bad \in SUBSET Nat
      OBVIOUS
    <3> HIDE DEF Bad
    <3> QED
      BY <1>2, <3>1, LeastElement
  <2>2. j \in Nat /\ k + j <= Len(t.cuts) /\ JoinedOf(t, k, k + j) \notin TextStrings(t)
    BY <2>1
  <2>3. j # 0
    <3>1. CutOf(t, k) \in TextStrings(t) /\ JoinedOf(t, k, k) = CutOf(t, k) /\ k + 0 = k
      BY <1>1, CutString, JoinedIs
    <3> QED
      BY <2>2, <3>1
  <2>4. j - 1 \in Nat /\ j - 1 \notin Bad
    BY <2>1, <2>2, <2>3
  <2>5. PICK x : x = k + (j - 1)
    OBVIOUS
  <2>6. x \in k .. Len(t.cuts) - 1 /\ x + 1 = k + j /\ x + 1 \in 1 .. Len(t.cuts)
    BY <1>1, <2>2, <2>3, <2>5
  <2>7. JoinedOf(t, k, x) \in TextStrings(t)
    BY <2>4, <2>5, <2>6, <1>1
  <2>8. JoinedOf(t, k, x + 1) = JoinedOf(t, k, x) \o CutOf(t, x + 1)
    BY <2>6, JoinedIs
  <2>9. CutOf(t, x + 1) \in TextStrings(t)
    BY <2>6, CutString
  <2>10. JoinedOf(t, k, x + 1) \in TextStrings(t)
    BY <2>7, <2>8, <2>9, Concat DEF TextStrings
  <2> QED
    BY <2>2, <2>6, <2>10
<1>3. m - k \in Nat /\ k + (m - k) = m /\ m <= Len(t.cuts)
  BY <1>1
<1> QED
  BY <1>2, <1>3

-----------------------------------------------------------------------------
(* What joins more words is extended less. *)
LEMMA MoreJoined ==
  ASSUME NEW t \in Texts, NEW d \in Dicts, NEW k \in 1 .. Len(t.cuts), NEW l \in k .. Len(t.cuts),
         NEW m \in l .. Len(t.cuts), MoreIn(d, JoinedOf(t, k, m))
  PROVE  MoreIn(d, JoinedOf(t, k, l))
<1> DEFINE Bad == { j \in Nat : l + j <= m /\ MoreIn(d, JoinedOf(t, k, l + j)) }
<1>1. Len(t.cuts) \in Nat /\ k \in Nat /\ l \in Nat /\ m \in Nat
  BY CutIs
<1>2. Bad # {}
  <2>1. m - l \in Nat /\ l + (m - l) = m
    BY <1>1
  <2>2. m - l \in Bad
    BY <2>1
  <2> QED
    BY <2>2
<1>3. PICK j \in Bad : \A q \in Bad : j <= q
  <2>1. Bad \in SUBSET Nat
    OBVIOUS
  <2> HIDE DEF Bad
  <2> QED
    BY <1>2, <2>1, LeastElement
<1>4. j \in Nat /\ l + j <= m /\ MoreIn(d, JoinedOf(t, k, l + j))
  BY <1>3
<1>5. j = 0
  <2> SUFFICES ASSUME j # 0 PROVE FALSE
    OBVIOUS
  <2>1. j - 1 \in Nat /\ j - 1 \notin Bad
    BY <1>3, <1>4
  <2>2. PICK x : x = l + (j - 1)
    OBVIOUS
  <2>3. x \in k .. Len(t.cuts) - 1 /\ x + 1 = l + j /\ x + 1 \in 1 .. Len(t.cuts) /\ x \in k .. Len(t.cuts) /\ x <= m
    BY <1>1, <1>4, <2>2
  <2>4. JoinedOf(t, k, x + 1) = JoinedOf(t, k, x) \o CutOf(t, x + 1)
    BY <2>3, JoinedIs
  <2>5. JoinedOf(t, k, x) \in TextStrings(t) /\ CutOf(t, x + 1) \in TextStrings(t)
    BY <2>3, CutString, JoinedString
  <2>6. MoreIn(d, JoinedOf(t, k, x) \o CutOf(t, x + 1))
    BY <1>4, <2>3, <2>4
  <2>7. MoreIn(d, JoinedOf(t, k, x))
    BY <2>5, <2>6, MoreBefore DEF TextStrings
  <2> QED
    BY <2>1, <2>2, <2>3, <2>7
<1>6. l + 0 = l
  BY <1>1
<1> QED
  BY <1>4, <1>5, <1>6

(* The longest match, and that there is one. *)
LEMMA LongestIs ==
  ASSUME NEW t \in Texts, NEW d \in Dicts, NEW k \in 1 .. Len(t.cuts), NEW l \in k .. Len(t.cuts),
         l = k \/ ExtendedIn(d, JoinedOf(t, k, l)),
         \A m \in l + 1 .. Len(t.cuts) : ~ExtendedIn(d, JoinedOf(t, k, m))
  PROVE  LongestOf(t, d, k) = l
<1>0. PICK L : L = Len(t.cuts)
  OBVIOUS
<1>1. L \in Nat /\ k \in Nat /\ l \in Nat /\ k <= l /\ l <= L
  BY <1>0, CutIs
<1>2. PICK S : S = { k } \cup { m \in k + 1 .. L : ExtendedIn(d, JoinedOf(t, k, m)) }
  OBVIOUS
<1>3. l \in S
  BY <1>0, <1>1, <1>2
<1>4. \A m \in S : m \in Nat /\ m <= l
  BY <1>0, <1>1, <1>2
<1>5. \A x \in S : (\A m \in S : x >= m) => x = l
  BY <1>1, <1>3, <1>4
<1>6. Max(S) = l
  BY <1>1, <1>3, <1>4, <1>5 DEF Max
<1> QED
  BY <1>0, <1>2, <1>6 DEF LongestOf

LEMMA LongestInside ==
  ASSUME NEW t \in Texts, NEW d \in Dicts, NEW k \in 1 .. Len(t.cuts)
  PROVE  LongestOf(t, d, k) \in k .. Len(t.cuts)
<1>0. PICK L : L = Len(t.cuts)
  OBVIOUS
<1>1. L \in Nat /\ k \in Nat /\ k <= L
  BY <1>0, CutIs
<1> DEFINE Ends(l) == l = k \/ ExtendedIn(d, JoinedOf(t, k, l))
           Back == { j \in Nat : L - j \in k .. L /\ Ends(L - j) }
<1>2. Back # {}
  <2>1. L - k \in Nat /\ L - (L - k) = k
    BY <1>1
  <2>2. L - k \in Back
    BY <1>1, <2>1
  <2> QED
    BY <2>2
<1>3. PICK j \in Back : \A q \in Back : j <= q
  <2>1. Back \in SUBSET Nat
    OBVIOUS
  <2> HIDE DEF Back
  <2> QED
    BY <1>2, <2>1, LeastElement
<1>4. PICK l : l = L - j
  OBVIOUS
<1>5. j \in Nat /\ l \in k .. L /\ Ends(l)
  BY <1>3, <1>4
<1>6. ASSUME NEW m \in l + 1 .. L, ExtendedIn(d, JoinedOf(t, k, m)) PROVE FALSE
  <2>1. L - m \in Nat /\ L - (L - m) = m /\ L - m < j /\ m \in k .. L
    BY <1>1, <1>4, <1>5
  <2>2. L - m \in Back
    BY <1>6, <2>1
  <2> QED
    BY <1>3, <1>5, <2>1, <2>2
<1>7. LongestOf(t, d, k) = l
  BY <1>0, <1>5, <1>6, LongestIs
<1> QED
  BY <1>0, <1>5, <1>7

-----------------------------------------------------------------------------
(* What is expected from word k on follows from what is from a later one. *)
Follows(f, a, L, dropped, str, next) ==
  f = [k \in a .. L + 1 |-> IF k = L + 1 THEN << >>
                            ELSE IF k \in dropped THEN f[k + 1] ELSE << str[k] >> \o f[next[k]]]

LEMMA FollowsExist ==
  ASSUME NEW L \in Nat, NEW dropped, NEW str, NEW next, \A k \in 1 .. L : next[k] \in k + 1 .. L + 1
  PROVE  \E f : Follows(f, 1, L, dropped, str, next)
<1> DEFINE Bad == { j \in Nat : j <= L /\ ~\E f : Follows(f, L + 1 - j, L, dropped, str, next) }
<1>1. ASSUME Bad # {} PROVE FALSE
  <2>1. PICK j \in Bad : \A m \in Bad : j <= m
    <3>1. Bad \in SUBSET Nat
      OBVIOUS
    <3> HIDE DEF Bad
    <3> QED
      BY <1>1, <3>1, LeastElement
  <2>2. j \in Nat /\ j <= L /\ ~\E f : Follows(f, L + 1 - j, L, dropped, str, next)
    BY <2>1
  <2>3. PICK a : a = L + 1 - j
    OBVIOUS
  <2>4. a \in 1 .. L + 1
    BY <2>2, <2>3
  <2>5. a # L + 1
    <3> SUFFICES ASSUME a = L + 1 PROVE FALSE
      OBVIOUS
    <3>1. PICK f : f = [k \in L + 1 .. L + 1 |-> << >>]
      OBVIOUS
    <3>2. [k \in L + 1 .. L + 1 |-> IF k = L + 1 THEN << >>
                            ELSE IF k \in dropped THEN f[k + 1] ELSE << str[k] >> \o f[next[k]]] = f
      BY <3>1
    <3> QED
      BY <2>2, <2>3, <3>2 DEF Follows
  <2>6. j - 1 \in Nat /\ j - 1 <= L /\ j - 1 \notin Bad /\ L + 1 - (j - 1) = a + 1
    BY <2>1, <2>2, <2>3, <2>5
  <2>7. PICK f : Follows(f, a + 1, L, dropped, str, next)
    BY <2>6
  <2>8. PICK v : v = IF a \in dropped THEN f[a + 1] ELSE << str[a] >> \o f[next[a]]
    OBVIOUS
  <2>9. PICK g : g = [k \in a .. L + 1 |-> IF k = a THEN v ELSE f[k]]
    OBVIOUS
  <2>10. \A k \in a + 1 .. L + 1 : g[k] = f[k] /\
           f[k] = IF k = L + 1 THEN << >> ELSE IF k \in dropped THEN f[k + 1] ELSE << str[k] >> \o f[next[k]]
    <3>1. \A k \in a + 1 .. L + 1 :
            f[k] = IF k = L + 1 THEN << >> ELSE IF k \in dropped THEN f[k + 1] ELSE << str[k] >> \o f[next[k]]
      BY <2>7 DEF Follows
    <3>2. \A k \in a + 1 .. L + 1 : k \in a .. L + 1 /\ k # a
      BY <2>4
    <3>3. \A k \in a + 1 .. L + 1 : g[k] = f[k]
      BY <2>9, <3>2
    <3> QED
      BY <3>1, <3>3
  <2>11. ASSUME NEW k \in a .. L + 1
         PROVE  g[k] = IF k = L + 1 THEN << >> ELSE IF k \in dropped THEN g[k + 1] ELSE << str[k] >> \o g[next[k]]
    <3>1. k # L + 1 => k + 1 \in a + 1 .. L + 1 /\ k \in 1 .. L /\ next[k] \in a + 1 .. L + 1
      <4> SUFFICES ASSUME k # L + 1 PROVE k + 1 \in a + 1 .. L + 1 /\ k \in 1 .. L /\ next[k] \in a + 1 .. L + 1
        OBVIOUS
      <4>1. k + 1 \in a + 1 .. L + 1 /\ k \in 1 .. L
        BY <2>4
      <4>2. next[k] \in k + 1 .. L + 1
        BY <4>1
      <4>3. next[k] \in a + 1 .. L + 1
        BY <2>4, <4>2
      <4> QED
        BY <4>1, <4>3
    <3>2. k # L + 1 => g[k + 1] = f[k + 1] /\ g[next[k]] = f[next[k]]
      BY <2>10, <3>1
    <3>3. CASE k = a
      <4>1. g[k] = v
        BY <2>9, <3>3
      <4> QED
        BY <2>5, <2>8, <3>2, <3>3, <4>1
    <3>4. CASE k # a
      <4>1. k \in a + 1 .. L + 1
        BY <2>4, <3>4
      <4> QED
        BY <2>10, <3>2, <4>1
    <3> QED
      BY <3>3, <3>4
  <2>12. g = [k \in a .. L + 1 |-> IF k = L + 1 THEN << >>
                            ELSE IF k \in dropped THEN g[k + 1] ELSE << str[k] >> \o g[next[k]]]
    <3>1. PICK h : h = [k \in a .. L + 1 |-> IF k = L + 1 THEN << >>
                            ELSE IF k \in dropped THEN g[k + 1] ELSE << str[k] >> \o g[next[k]]]
      OBVIOUS
    <3>2. \A k \in a .. L + 1 : h[k] = g[k]
      BY <2>11, <3>1
    <3>3. g = [k \in a .. L + 1 |-> g[k]] /\ h = [k \in a .. L + 1 |-> h[k]]
      BY <2>9, <3>1
    <3> QED
      BY <3>1, <3>2, <3>3
  <2> QED
    BY <2>2, <2>3, <2>12 DEF Follows
<1>2. L \in Nat /\ L + 1 - L = 1
  OBVIOUS
<1> QED
  BY <1>1, <1>2

(* A word of nothing but a space that joins no other. *)
Blank(t, d, k) == CutOf(t, k) = << Space >> /\ LongestOf(t, d, k) = k

LEMMA ExpectedRec ==
  ASSUME NEW t \in Texts, NEW d \in Dicts
  PROVE  /\ ExpectedFrom(t, d, Len(t.cuts) + 1) = << >>
         /\ \A k \in 1 .. Len(t.cuts) :
              ExpectedFrom(t, d, k) =
                IF Blank(t, d, k) THEN ExpectedFrom(t, d, k + 1)
                ELSE << SpanOf(t, k, LongestOf(t, d, k)) >> \o ExpectedFrom(t, d, LongestOf(t, d, k) + 1)
<1>0. PICK L : L = Len(t.cuts)
  OBVIOUS
<1>1. L \in Nat /\ \A k \in 1 .. L : LongestOf(t, d, k) + 1 \in k + 1 .. L + 1
  <2>1. L \in Nat /\ \A k \in 1 .. L : LongestOf(t, d, k) \in k .. L
    BY <1>0, CutIs, LongestInside
  <2> QED
    BY <2>1
<1>2. PICK dropped, str, next : /\ dropped = { k \in 1 .. L : Blank(t, d, k) }
                                /\ str = [k \in 1 .. L |-> SpanOf(t, k, LongestOf(t, d, k))]
                                /\ next = [k \in 1 .. L |-> LongestOf(t, d, k) + 1]
  OBVIOUS
<1>3. \A k \in 1 .. L : /\ k \in dropped <=> Blank(t, d, k)
                        /\ str[k] = SpanOf(t, k, LongestOf(t, d, k))
                        /\ next[k] = LongestOf(t, d, k) + 1
  BY <1>2
<1> DEFINE Body(f) == [k \in 1 .. L + 1 |->
        IF k = L + 1 THEN << >>
        ELSE IF CutOf(t, k) = << Space >> /\ LongestOf(t, d, k) = k THEN f[k + 1]
        ELSE << SpanOf(t, k, LongestOf(t, d, k)) >> \o f[LongestOf(t, d, k) + 1]]
<1>4. \E f : f = Body(f)
  <2>1. PICK f : Follows(f, 1, L, dropped, str, next)
    BY <1>1, <1>3, FollowsExist
  <2>2. f = [k \in 1 .. L + 1 |-> IF k = L + 1 THEN << >>
                            ELSE IF k \in dropped THEN f[k + 1] ELSE << str[k] >> \o f[next[k]]]
    BY <2>1 DEF Follows
  <2>3. ASSUME NEW k \in 1 .. L + 1
        PROVE  (IF k = L + 1 THEN << >> ELSE IF k \in dropped THEN f[k + 1] ELSE << str[k] >> \o f[next[k]])
                 = IF k = L + 1 THEN << >>
                   ELSE IF CutOf(t, k) = << Space >> /\ LongestOf(t, d, k) = k THEN f[k + 1]
                   ELSE << SpanOf(t, k, LongestOf(t, d, k)) >> \o f[LongestOf(t, d, k) + 1]
    <3>1. k # L + 1 => k \in 1 .. L
      BY <1>1
    <3> QED
      BY <1>3, <3>1 DEF Blank
  <2>4. PICK h : h = Body(f)
    OBVIOUS
  <2>5. h = [k \in 1 .. L + 1 |-> h[k]] /\ f = [k \in 1 .. L + 1 |-> f[k]]
    BY <2>2, <2>4
  <2>6. \A k \in 1 .. L + 1 : f[k] = h[k]
    BY <2>2, <2>3, <2>4
  <2> QED
    BY <2>4, <2>5, <2>6
<1>5. PICK u : u = CHOOSE f : f = Body(f)
  OBVIOUS
<1>6. u = Body(u)
  BY <1>4, <1>5
<1>7. \A k : ExpectedFrom(t, d, k) = u[k]
  BY <1>0, <1>5 DEF ExpectedFrom
<1>8. u[L + 1] = << >>
  BY <1>1, <1>6
<1>9. ASSUME NEW k \in 1 .. L
      PROVE  u[k] = IF Blank(t, d, k) THEN u[k + 1] ELSE << SpanOf(t, k, LongestOf(t, d, k)) >> \o u[LongestOf(t, d, k) + 1]
  <2>1. k \in 1 .. L + 1 /\ k # L + 1
    BY <1>1
  <2>2. u[k] = Body(u)[k]
    BY <1>6
  <2> QED
    BY <2>1, <2>2 DEF Blank
<1> QED
  BY <1>0, <1>7, <1>8, <1>9

LEMMA CutsOrdered ==
  ASSUME NEW t \in Texts, NEW k \in 1 .. Len(t.cuts), NEW m \in k .. Len(t.cuts)
  PROVE  t.cuts[k][1] < t.cuts[m][2]
<1> DEFINE Bad == { j \in Nat : k + j <= Len(t.cuts) /\ ~(t.cuts[k][1] < t.cuts[k + j][2]) }
<1>0. PICK L : L = Len(t.cuts)
  OBVIOUS
<1>1. L \in Nat /\ k \in Nat
  BY <1>0, CutIs
<1>2. ASSUME Bad # {} PROVE FALSE
  <2>1. PICK j \in Bad : \A l \in Bad : j <= l
    <3>1. Bad \in SUBSET Nat
      OBVIOUS
    <3> HIDE DEF Bad
    <3> QED
      BY <1>2, <3>1, LeastElement
  <2>2. j \in Nat /\ k + j <= L /\ ~(t.cuts[k][1] < t.cuts[k + j][2])
    BY <1>0, <2>1
  <2>3. j # 0
    <3>1. t.cuts[k][1] < t.cuts[k][2] /\ k + 0 = k
      BY <1>1, CutIs
    <3> QED
      BY <2>2, <3>1
  <2>4. j - 1 \in Nat /\ j - 1 \notin Bad
    BY <2>1, <2>2, <2>3
  <2>5. PICK x : x = k + j
    OBVIOUS
  <2>6. x \in 2 .. L /\ x - 1 = k + (j - 1) /\ x - 1 \in 1 .. L /\ x \in 1 .. L
    BY <1>0, <1>1, <2>2, <2>3, <2>5
  <2>7. t.cuts[k][1] < t.cuts[x - 1][2]
    BY <1>0, <2>4, <2>6
  <2>8. t.cuts[x - 1][2] <= t.cuts[x][1] /\ t.cuts[x][1] < t.cuts[x][2]
    BY <1>0, <2>6, CutIs
  <2>9. /\ t.cuts[k][1] \in Nat /\ t.cuts[x - 1][2] \in Nat
        /\ t.cuts[x][1] \in Nat /\ t.cuts[x][2] \in Nat
    BY <1>0, <2>6, CutIs
  <2>10. PICK p, q, r, u : p = t.cuts[k][1] /\ q = t.cuts[x - 1][2] /\ r = t.cuts[x][1] /\ u = t.cuts[x][2]
    OBVIOUS
  <2>11. p \in Nat /\ q \in Nat /\ r \in Nat /\ u \in Nat /\ p < q /\ q <= r /\ r < u
    BY <2>7, <2>8, <2>9, <2>10
  <2>12. p < u
    BY <2>11
  <2> QED
    BY <2>2, <2>5, <2>10, <2>12
<1>3. m - k \in Nat /\ k + (m - k) = m /\ m <= L
  BY <1>0, <1>1
<1>4. m - k \notin Bad
  BY <1>2
<1> QED
  BY <1>0, <1>3, <1>4

LEMMA SpanString ==
  ASSUME NEW t \in Texts, NEW k \in 1 .. Len(t.cuts), NEW m \in k .. Len(t.cuts)
  PROVE  SpanOf(t, k, m) \in TextStrings(t)
<1>1. m \in 1 .. Len(t.cuts)
  <2>1. Len(t.cuts) \in Nat
    BY CutIs
  <2> QED
    BY <2>1
<1>2. PICK b, e : b = t.cuts[k][1] /\ e = t.cuts[m][2]
  OBVIOUS
<1>3. b \in Nat /\ e \in Nat /\ b < e /\ e <= Len(t.chars)
  BY <1>1, <1>2, CutIs, CutsOrdered
<1>4. CharsOf(t, b, e) \in TextStrings(t)
  BY <1>3, CharsOfIs
<1> QED
  BY <1>2, <1>4 DEF SpanOf

LEMMA ExpectedStrings ==
  ASSUME NEW t \in Texts, NEW d \in Dicts, NEW k \in 1 .. Len(t.cuts) + 1
  PROVE  ExpectedFrom(t, d, k) \in Seq(TextStrings(t))
<1>0. PICK L : L = Len(t.cuts)
  OBVIOUS
<1>1. L \in Nat
  BY <1>0, CutIs
<1> DEFINE Bad == { j \in Nat : L + 1 - j \in 1 .. L + 1 /\ ExpectedFrom(t, d, L + 1 - j) \notin Seq(TextStrings(t)) }
<1>2. ASSUME Bad # {} PROVE FALSE
  <2>1. PICK j \in Bad : \A l \in Bad : j <= l
    <3>1. Bad \in SUBSET Nat
      OBVIOUS
    <3> HIDE DEF Bad
    <3> QED
      BY <1>2, <3>1, LeastElement
  <2>2. PICK x : x = L + 1 - j
    OBVIOUS
  <2>3. j \in Nat /\ x \in 1 .. L + 1 /\ ExpectedFrom(t, d, x) \notin Seq(TextStrings(t))
    BY <2>1, <2>2
  <2>4. ASSUME NEW y \in x + 1 .. L + 1 PROVE ExpectedFrom(t, d, y) \in Seq(TextStrings(t))
    <3>1. L + 1 - y \in Nat /\ L + 1 - y < j /\ L + 1 - (L + 1 - y) = y /\ y \in 1 .. L + 1
      BY <1>1, <2>2, <2>3
    <3>2. L + 1 - y \notin Bad
      BY <2>1, <2>3, <3>1
    <3> QED
      BY <3>1, <3>2
  <2>5. x # L + 1
    <3>1. ExpectedFrom(t, d, L + 1) = << >> /\ << >> \in Seq(TextStrings(t))
      BY <1>0, ExpectedRec
    <3> QED
      BY <2>3, <3>1
  <2>6. x \in 1 .. L
    BY <1>1, <2>3, <2>5
  <2>7. PICK l : l = LongestOf(t, d, x)
    OBVIOUS
  <2>8. l \in x .. L
    BY <1>0, <2>6, <2>7, LongestInside
  <2>9. l + 1 \in x + 1 .. L + 1 /\ x + 1 \in x + 1 .. L + 1
    BY <1>1, <2>6, <2>8
  <2>10. ExpectedFrom(t, d, x) = IF Blank(t, d, x) THEN ExpectedFrom(t, d, x + 1)
                                 ELSE << SpanOf(t, x, l) >> \o ExpectedFrom(t, d, l + 1)
    BY <1>0, <2>6, <2>7, ExpectedRec
  <2>11. SpanOf(t, x, l) \in TextStrings(t)
    BY <1>0, <2>6, <2>8, SpanString
  <2>12. ExpectedFrom(t, d, l + 1) \in Seq(TextStrings(t)) /\ ExpectedFrom(t, d, x + 1) \in Seq(TextStrings(t))
    BY <2>4, <2>9
  <2>13. << SpanOf(t, x, l) >> \in Seq(TextStrings(t))
    BY <2>11
  <2>14. << SpanOf(t, x, l) >> \o ExpectedFrom(t, d, l + 1) \in Seq(TextStrings(t))
    BY <2>12, <2>13, Concat
  <2> QED
    BY <2>3, <2>10, <2>12, <2>14
<1>3. L + 1 - k \in Nat /\ L + 1 - (L + 1 - k) = k
  BY <1>0, <1>1
<1>4. L + 1 - k \notin Bad
  BY <1>2
<1> QED
  BY <1>0, <1>3, <1>4
-----------------------------------------------------------------------------
(***************************************************************************)
(* The strings of the units b to e - 1 of s that are not empty, followed   *)
(* by y, are x.                                                            *)
(***************************************************************************)
StrOf(t, u) == CharsOf(t, u[1], u[2])

Chain(t, s, g, b, e) ==
  /\ \A k \in b .. e : g[k] \in Seq(TextStrings(t))
  /\ \A k \in b .. e - 1 : g[k] = IF s[k][2] = 0 THEN g[k + 1] ELSE << StrOf(t, s[k]) >> \o g[k + 1]

Links(t, s, b, e, x, y) == \E g : Chain(t, s, g, b, e) /\ g[b] = x /\ g[e] = y

LEMMA LinksSame ==
  ASSUME NEW t, NEW s, NEW r, NEW b \in Nat, NEW e \in Nat, NEW x, NEW y, Links(t, s, b, e, x, y),
         \A k \in b .. e - 1 : r[k] = s[k]
  PROVE  Links(t, r, b, e, x, y)
BY DEF Links, Chain

LEMMA LinksZeros ==
  ASSUME NEW t, NEW s, NEW b \in Nat, NEW e \in Nat, b <= e, NEW x \in Seq(TextStrings(t)),
         \A k \in b .. e - 1 : s[k][2] = 0
  PROVE  Links(t, s, b, e, x, x)
<1>1. PICK g : g = [k \in b .. e |-> x]
  OBVIOUS
<1>2. \A k \in b .. e - 1 : k \in b .. e /\ k + 1 \in b .. e
  OBVIOUS
<1>3. \A k \in b .. e : g[k] = x
  BY <1>1
<1>4. b \in b .. e /\ e \in b .. e
  OBVIOUS
<1>5. Chain(t, s, g, b, e)
  BY <1>2, <1>3 DEF Chain
<1> QED
  BY <1>3, <1>4, <1>5 DEF Links

LEMMA LinksEnds ==
  ASSUME NEW t, NEW s, NEW b \in Nat, NEW e \in Nat, b <= e, NEW x, NEW y, Links(t, s, b, e, x, y)
  PROVE  /\ x \in Seq(TextStrings(t)) /\ y \in Seq(TextStrings(t))
         /\ b = e => x = y
<1>1. PICK g : Chain(t, s, g, b, e) /\ g[b] = x /\ g[e] = y
  BY DEF Links
<1>2. b \in b .. e /\ e \in b .. e
  OBVIOUS
<1> QED
  BY <1>1, <1>2 DEF Chain

LEMMA LinksConcat ==
  ASSUME NEW t, NEW s, NEW b \in Nat, NEW m \in Nat, NEW e \in Nat, b <= m, m <= e, NEW x, NEW y, NEW z,
         Links(t, s, b, m, x, y), Links(t, s, m, e, y, z)
  PROVE  Links(t, s, b, e, x, z)
<1>1. PICK g : Chain(t, s, g, b, m) /\ g[b] = x /\ g[m] = y
  BY DEF Links
<1>2. PICK h : Chain(t, s, h, m, e) /\ h[m] = y /\ h[e] = z
  BY DEF Links
<1>3. PICK u : u = [k \in b .. e |-> IF k < m THEN g[k] ELSE h[k]]
  OBVIOUS
<1>4. \A k \in b .. m : u[k] = g[k]
  <2> TAKE k \in b .. m
  <2>1. k \in b .. e
    OBVIOUS
  <2>2. CASE k < m
    BY <1>3, <2>1, <2>2
  <2>3. CASE k = m
    BY <1>1, <1>2, <1>3, <2>1, <2>3
  <2> QED
    BY <2>2, <2>3
<1>5. \A k \in m .. e : u[k] = h[k]
  <2> TAKE k \in m .. e
  <2>1. k \in b .. e /\ ~(k < m)
    OBVIOUS
  <2> QED
    BY <1>3, <2>1
<1>6. ASSUME NEW k \in b .. e PROVE u[k] \in Seq(TextStrings(t))
  <2>1. k \in b .. m \/ k \in m .. e
    OBVIOUS
  <2> QED
    BY <1>1, <1>2, <1>4, <1>5, <2>1 DEF Chain
<1>7. ASSUME NEW k \in b .. e - 1
      PROVE  u[k] = IF s[k][2] = 0 THEN u[k + 1] ELSE << StrOf(t, s[k]) >> \o u[k + 1]
  <2>1. CASE k < m
    <3>1. k \in b .. m - 1 /\ k \in b .. m /\ k + 1 \in b .. m
      BY <2>1
    <3>2. u[k] = g[k] /\ u[k + 1] = g[k + 1]
      BY <1>4, <3>1
    <3> QED
      BY <1>1, <3>1, <3>2 DEF Chain
  <2>2. CASE ~(k < m)
    <3>1. k \in m .. e - 1 /\ k \in m .. e /\ k + 1 \in m .. e
      BY <2>2
    <3>2. u[k] = h[k] /\ u[k + 1] = h[k + 1]
      BY <1>5, <3>1
    <3> QED
      BY <1>2, <3>1, <3>2 DEF Chain
  <2> QED
    BY <2>1, <2>2
<1>8. b \in b .. m /\ e \in m .. e
  OBVIOUS
<1>9. u[b] = x /\ u[e] = z
  BY <1>1, <1>2, <1>4, <1>5, <1>8
<1>10. Chain(t, s, u, b, e)
  BY <1>6, <1>7 DEF Chain
<1> QED
  BY <1>9, <1>10 DEF Links

LEMMA LinksSplit ==
  ASSUME NEW t, NEW s, NEW b \in Nat, NEW m \in Nat, NEW e \in Nat, b <= m, m <= e, NEW x, NEW z,
         Links(t, s, b, e, x, z)
  PROVE  \E y : Links(t, s, b, m, x, y) /\ Links(t, s, m, e, y, z)
<1>1. PICK g : Chain(t, s, g, b, e) /\ g[b] = x /\ g[e] = z
  BY DEF Links
<1>2. (\A k \in b .. m : k \in b .. e) /\ (\A k \in b .. m - 1 : k \in b .. e - 1)
  OBVIOUS
<1>3. (\A k \in m .. e : k \in b .. e) /\ (\A k \in m .. e - 1 : k \in b .. e - 1)
  OBVIOUS
<1>4. Chain(t, s, g, b, m) /\ Chain(t, s, g, m, e)
  BY <1>1, <1>2, <1>3 DEF Chain
<1>5. Links(t, s, b, m, x, g[m]) /\ Links(t, s, m, e, g[m], z)
  BY <1>1, <1>4 DEF Links
<1> QED
  BY <1>5

LEMMA LinksOne ==
  ASSUME NEW t, NEW s, NEW k \in Nat, NEW y \in Seq(TextStrings(t)), s[k][2] # 0, StrOf(t, s[k]) \in TextStrings(t)
  PROVE  Links(t, s, k, k + 1, << StrOf(t, s[k]) >> \o y, y)
<1>0. PICK w : w = << StrOf(t, s[k]) >> \o y
  OBVIOUS
<1>1. PICK g : g = [q \in k .. k + 1 |-> IF q = k THEN w ELSE y]
  OBVIOUS
<1>2. k \in k .. k + 1 /\ k + 1 \in k .. k + 1 /\ k + 1 # k
  OBVIOUS
<1>3. g[k] = w /\ g[k + 1] = y
  BY <1>1, <1>2
<1>4. w \in Seq(TextStrings(t))
  <2>1. << StrOf(t, s[k]) >> \in Seq(TextStrings(t))
    OBVIOUS
  <2> QED
    BY <1>0, <2>1, Concat
<1>5. \A q \in k .. k + 1 : g[q] \in Seq(TextStrings(t))
  BY <1>1, <1>4
<1>6. \A q \in k .. k + 1 - 1 : q = k
  OBVIOUS
<1>7. Chain(t, s, g, k, k + 1)
  BY <1>0, <1>3, <1>5, <1>6 DEF Chain
<1> QED
  BY <1>0, <1>3, <1>7 DEF Links

LEMMA ChainRest ==
  ASSUME NEW t, NEW s, NEW g, NEW b \in Nat, NEW e \in Nat, b < e, Chain(t, s, g, b, e)
  PROVE  Chain(t, s, g, b + 1, e)
<1>1. (\A k \in b + 1 .. e : k \in b .. e) /\ (\A k \in b + 1 .. e - 1 : k \in b .. e - 1)
  OBVIOUS
<1> QED
  BY <1>1 DEF Chain

LEMMA LinksFirstEmpty ==
  \A t, s, x, y : \A b, e \in Nat :
    b < e /\ Links(t, s, b, e, x, y) /\ s[b][2] = 0 => Links(t, s, b + 1, e, x, y)
<1> SUFFICES ASSUME NEW t, NEW s, NEW x, NEW y, NEW b \in Nat, NEW e \in Nat,
                    b < e, Links(t, s, b, e, x, y), s[b][2] = 0
             PROVE  Links(t, s, b + 1, e, x, y)
  OBVIOUS
<1>1. PICK g : Chain(t, s, g, b, e) /\ g[b] = x /\ g[e] = y
  BY DEF Links
<1>2. Chain(t, s, g, b + 1, e)
  BY <1>1, ChainRest
<1>3. g[b] = IF s[b][2] = 0 THEN g[b + 1] ELSE << StrOf(t, s[b]) >> \o g[b + 1]
  <2>1. b \in b .. e - 1
    OBVIOUS
  <2> QED
    BY <1>1, <2>1 DEF Chain
<1>4. g[b + 1] = x
  BY <1>1, <1>3
<1> QED
  BY <1>1, <1>2, <1>4 DEF Links

(* A string put before the strings of a result. *)
Before(w, z) == << w >> \o z

Puts(t, s, b, e, x, y) == \E z : Links(t, s, b + 1, e, z, y) /\ x = Before(StrOf(t, s[b]), z)

LEMMA LinksFirstUnit ==
  \A t, s, x, y : \A b, e \in Nat :
    b < e /\ Links(t, s, b, e, x, y) /\ s[b][2] # 0 => Puts(t, s, b, e, x, y)
<1> SUFFICES ASSUME NEW t, NEW s, NEW x, NEW y, NEW b \in Nat, NEW e \in Nat,
                    b < e, Links(t, s, b, e, x, y), s[b][2] # 0
             PROVE  Puts(t, s, b, e, x, y)
  OBVIOUS
<1>1. PICK g : Chain(t, s, g, b, e) /\ g[b] = x /\ g[e] = y
  BY DEF Links
<1>2. Chain(t, s, g, b + 1, e)
  BY <1>1, ChainRest
<1>3. g[b] = IF s[b][2] = 0 THEN g[b + 1] ELSE << StrOf(t, s[b]) >> \o g[b + 1]
  <2>1. b \in b .. e - 1
    OBVIOUS
  <2> QED
    BY <1>1, <2>1 DEF Chain
<1>4. x = Before(StrOf(t, s[b]), g[b + 1])
  BY <1>1, <1>3 DEF Before
<1>5. Links(t, s, b + 1, e, g[b + 1], y)
  BY <1>1, <1>2 DEF Links
<1> QED
  BY <1>4, <1>5 DEF Puts

-----------------------------------------------------------------------------
(* Reading a word. *)
LEMMA Associates ==
  ASSUME NEW X, NEW a \in Seq(X), NEW b \in Seq(X), NEW c \in Seq(X)
  PROVE  (a \o b) \o c = a \o (b \o c)
<1>1. \A u, v \in Seq(X) :
        /\ u \o v \in Seq(X) /\ Len(u \o v) = Len(u) + Len(v)
        /\ \A q \in 1 .. Len(u) : (u \o v)[q] = u[q]
        /\ \A q \in 1 .. Len(v) : (u \o v)[Len(u) + q] = v[q]
  OBVIOUS
<1>2. PICK ab, bc : ab = a \o b /\ bc = b \o c
  OBVIOUS
<1>3. PICK l, r : l = ab \o c /\ r = a \o bc
  OBVIOUS
<1>4. Len(a) \in Nat /\ Len(b) \in Nat /\ Len(c) \in Nat
  OBVIOUS
<1>5. /\ ab \in Seq(X) /\ Len(ab) = Len(a) + Len(b) /\ bc \in Seq(X) /\ Len(bc) = Len(b) + Len(c)
      /\ \A q \in 1 .. Len(a) : ab[q] = a[q]
      /\ \A q \in 1 .. Len(b) : ab[Len(a) + q] = b[q]
      /\ \A q \in 1 .. Len(b) : bc[q] = b[q]
      /\ \A q \in 1 .. Len(c) : bc[Len(b) + q] = c[q]
  BY <1>1, <1>2
<1>6. /\ l \in Seq(X) /\ Len(l) = Len(ab) + Len(c) /\ r \in Seq(X) /\ Len(r) = Len(a) + Len(bc)
      /\ \A q \in 1 .. Len(ab) : l[q] = ab[q]
      /\ \A q \in 1 .. Len(c) : l[Len(ab) + q] = c[q]
      /\ \A q \in 1 .. Len(a) : r[q] = a[q]
      /\ \A q \in 1 .. Len(bc) : r[Len(a) + q] = bc[q]
  <2>1. ab \in Seq(X) /\ bc \in Seq(X) /\ a \in Seq(X) /\ c \in Seq(X)
    BY <1>5
  <2>2. /\ ab \o c \in Seq(X) /\ Len(ab \o c) = Len(ab) + Len(c)
        /\ \A q \in 1 .. Len(ab) : (ab \o c)[q] = ab[q]
        /\ \A q \in 1 .. Len(c) : (ab \o c)[Len(ab) + q] = c[q]
    BY <1>1, <2>1
  <2>3. /\ a \o bc \in Seq(X) /\ Len(a \o bc) = Len(a) + Len(bc)
        /\ \A q \in 1 .. Len(a) : (a \o bc)[q] = a[q]
        /\ \A q \in 1 .. Len(bc) : (a \o bc)[Len(a) + q] = bc[q]
    BY <1>1, <2>1
  <2> QED
    BY <1>3, <2>2, <2>3
<1>7. ASSUME NEW k \in 1 .. Len(l) PROVE l[k] = r[k]
  <2>1. CASE k \in 1 .. Len(a)
    <3>1. k \in 1 .. Len(ab)
      BY <1>4, <1>5, <2>1
    <3> QED
      BY <1>5, <1>6, <2>1, <3>1
  <2>2. CASE k - Len(a) \in 1 .. Len(b)
    <3>1. PICK q : q = k - Len(a)
      OBVIOUS
    <3>2. q \in 1 .. Len(b) /\ k = Len(a) + q /\ k \in 1 .. Len(ab) /\ q \in 1 .. Len(bc)
      BY <1>4, <1>5, <2>2, <3>1
    <3>3. l[k] = b[q] /\ r[k] = b[q]
      BY <1>5, <1>6, <3>2
    <3> QED
      BY <3>3
  <2>3. CASE k - Len(a) - Len(b) \in 1 .. Len(c)
    <3>1. PICK q : q = k - Len(a) - Len(b)
      OBVIOUS
    <3>2. /\ q \in 1 .. Len(c) /\ k = Len(ab) + q /\ k = Len(a) + (Len(b) + q)
          /\ Len(b) + q \in 1 .. Len(bc)
      BY <1>4, <1>5, <2>3, <3>1
    <3>3. l[k] = c[q] /\ r[k] = c[q]
      BY <1>5, <1>6, <3>2
    <3> QED
      BY <3>3
  <2>4. k \in 1 .. Len(a) + Len(b) + Len(c)
    BY <1>4, <1>5, <1>6
  <2>5. k \in 1 .. Len(a) \/ k - Len(a) \in 1 .. Len(b) \/ k - Len(a) - Len(b) \in 1 .. Len(c)
    BY <1>4, <2>4
  <2> QED
    BY <2>1, <2>2, <2>3, <2>5
<1>8. l = r
  <2>1. l \in Seq(X) /\ r \in Seq(X)
    BY <1>6
  <2>2. Len(l) = Len(a) + Len(b) + Len(c) /\ Len(r) = Len(l)
    BY <1>4, <1>5, <1>6
  <2>3. \A k \in 1 .. Len(l) : l[k] = r[k]
    BY <1>7, <2>2
  <2> QED
    BY <2>1, <2>2, <2>3, SameSeq
<1> QED
  BY <1>2, <1>3, <1>8

LEMMA MaxIs ==
  ASSUME NEW b \in Int, NEW e \in Int, b <= e
  PROVE  Max(b .. e) = e
<1>1. e \in b .. e /\ \A m \in b .. e : e >= m
  OBVIOUS
<1>2. \A x \in b .. e : (\A m \in b .. e : x >= m) => x = e
  OBVIOUS
<1> QED
  BY <1>1, <1>2 DEF Max

LEMMA MaxOne ==
  ASSUME NEW b \in Int
  PROVE  Max({ b }) = b
<1>1. b .. b = { b }
  OBVIOUS
<1>2. Max(b .. b) = b
  <2>1. b <= b
    OBVIOUS
  <2> QED
    BY <2>1, MaxIs
<1> QED
  BY <1>1, <1>2

(* Before there was a search, the reading begins anew. *)
Sofar == IF continueSch THEN node ELSE << >>

LEMMA ReadIs ==
  ASSUME text \in Texts, dict \in Dicts, i \in 1 .. Len(text.cuts), segment[i] = text.cuts[i],
         Sofar \in TextStrings(text)
  PROVE  /\ Extensible <=> MoreIn(dict, Sofar \o CutOf(text, i))
         /\ Extensible => ReadPath = Sofar \o CutOf(text, i)
         /\ Misses \subseteq FirstChar + 1 .. segment[i][2]
<1>1. PICK b, e, q : b = segment[i][1] /\ e = segment[i][2] /\ q = Sofar
  OBVIOUS
<1>2. b \in Nat /\ e \in Nat /\ b < e /\ e <= Len(text.chars) /\ q \in TextStrings(text)
  <2>1. b = text.cuts[i][1] /\ e = text.cuts[i][2]
    BY <1>1
  <2> QED
    BY <1>1, <2>1, CutIs
<1> DEFINE P(x) == q \o CharsOf(text, b, x)
<1>3. FirstChar = b /\ \A x : Path(x) = P(x)
  BY <1>1, CharsAre DEF FirstChar, Path, Sofar
<1>4. P(e) = Sofar \o CutOf(text, i)
  BY <1>1 DEF CutOf
<1>5. ASSUME NEW x \in b + 1 .. e, MoreIn(dict, P(e)) PROVE MoreIn(dict, P(x))
  <2>1. CASE x = e
    BY <1>5, <2>1
  <2>2. CASE x # e
    <3>1. x \in Nat /\ b < x /\ x < e /\ x <= Len(text.chars)
      <4>1. Len(text.chars) \in Nat
        BY CutIs
      <4> QED
        BY <1>2, <2>2, <4>1
    <3>2. PICK l, r : l = CharsOf(text, b, x) /\ r = CharsOf(text, x, e)
      OBVIOUS
    <3>3. l \in TextStrings(text) /\ r \in TextStrings(text)
      BY <1>2, <3>1, <3>2, CharsOfIs
    <3>4. CharsOf(text, b, e) = l \o r
      BY <1>2, <3>1, <3>2, CharsConcat
    <3>5. PICK X : X = Range(text.chars)
      OBVIOUS
    <3>6. q \in Seq(X) /\ l \in Seq(X) /\ r \in Seq(X)
      BY <1>2, <3>3, <3>5 DEF TextStrings
    <3>7. P(e) = (q \o l) \o r
      <4>1. (q \o l) \o r = q \o (l \o r)
        BY <3>6, Associates
      <4> QED
        BY <3>4, <4>1
    <3>8. q \o l \in Seq(X)
      BY <3>6
    <3>9. MoreIn(dict, q \o l)
      BY <1>5, <3>6, <3>7, <3>8, MoreBefore
    <3> QED
      BY <3>2, <3>9
  <2> QED
    BY <2>1, <2>2
<1>6. MoreLong(Path(b + 1)) <=> MoreIn(dict, P(b + 1))
  BY <1>3, MoreIs
<1>7. CASE MoreIn(dict, P(b + 1))
  <2>1. Read = b + 1 .. e
    <3>1. Read = { b + 1 } \cup (b + 2 .. e)
      BY <1>1, <1>3, <1>6, <1>7 DEF Read
    <3>2. { b + 1 } \cup (b + 2 .. e) = b + 1 .. e
      BY <1>2
    <3> QED
      BY <3>1, <3>2
  <2>2. Max(Read) = e
    BY <1>2, <2>1, MaxIs
  <2>3. ReadPath = P(e)
    BY <1>3, <2>2 DEF ReadPath
  <2>4. Misses \subseteq b + 1 .. e
    BY <2>1 DEF Misses
  <2>5. MoreIn(dict, P(e)) => Misses = {}
    <3>1. \A x \in b + 1 .. e : MoreIn(dict, P(e)) => Hit(Path(x))
      BY <1>3, <1>5, MoreIs DEF Hit
    <3> QED
      BY <2>1, <3>1 DEF Misses
  <2>6. Extensible <=> MoreIn(dict, P(e))
    BY <2>3, <2>5, MoreIs DEF Extensible
  <2> QED
    BY <1>1, <1>3, <1>4, <2>3, <2>4, <2>6
<1>8. CASE ~MoreIn(dict, P(b + 1))
  <2>1. Read = { b + 1 }
    BY <1>3, <1>6, <1>8 DEF Read
  <2>2. Max(Read) = b + 1
    BY <1>2, <2>1, MaxOne
  <2>3. ReadPath = P(b + 1)
    BY <1>3, <2>2 DEF ReadPath
  <2>4. ~Extensible
    BY <1>8, <2>3, MoreIs DEF Extensible
  <2>5. ~MoreIn(dict, P(e))
    <3>1. b + 1 \in b + 1 .. e
      BY <1>2
    <3> QED
      BY <1>5, <1>8, <3>1
  <2>6. Misses \subseteq b + 1 .. e
    BY <1>2, <2>1 DEF Misses
  <2> QED
    BY <1>1, <1>3, <1>4, <2>4, <2>5, <2>6
<1> QED
  BY <1>7, <1>8

(* Words with more than one character have no space. *)
SpaceFree(t) == \A k \in 1 .. Len(t.cuts) : Len(CutOf(t, k)) > 1 => Space \notin Range(CutOf(t, k))

(* A search for a space stops at it, and a search that stops at a space    *)
(* read nothing else.                                                      *)
LEMMA SpaceRead ==
  ASSUME WordsBeginVisibly, text \in Texts, dict \in Dicts, i \in 1 .. Len(text.cuts), segment[i] = text.cuts[i],
         ~continueSch, SpaceFree(text)
  PROVE  CutOf(text, i) = << Space >> <=> Misses # {} /\ text.chars[Min(Misses)] = Space
<1>1. PICK b, e : b = segment[i][1] /\ e = segment[i][2]
  OBVIOUS
<1>2. b \in Nat /\ e \in Nat /\ b < e /\ e <= Len(text.chars) /\ Len(text.chars) \in Nat
  <2>1. b = text.cuts[i][1] /\ e = text.cuts[i][2]
    BY <1>1
  <2> QED
    BY <1>1, <2>1, CutIs
<1>3. PICK w : w = CutOf(text, i)
  OBVIOUS
<1>4. w \in TextStrings(text) /\ Len(w) = e - b /\ \A k \in 1 .. e - b : w[k] = text.chars[b + k]
  <2>1. b = text.cuts[i][1] /\ e = text.cuts[i][2]
    BY <1>1
  <2> QED
    BY <1>3, <2>1, CutString
<1>5. Sofar = << >> /\ Sofar \in TextStrings(text)
  BY DEF Sofar, TextStrings
<1>6. FirstChar = b /\ Misses \subseteq b + 1 .. e
  BY <1>1, <1>5, ReadIs DEF FirstChar
<1>7. ASSUME w = << Space >> PROVE Misses # {} /\ text.chars[Min(Misses)] = Space
  <2>1. e = b + 1
    <3>1. Len(w) = 1 /\ Len(w) = e - b
      BY <1>4, <1>7
    <3>2. e - b = 1
      BY <3>1
    <3> QED
      BY <1>2, <3>2
  <2>2. text.chars[b + 1] = Space
    <3>1. w[1] = text.chars[b + 1]
      BY <1>2, <1>4, <2>1
    <3> QED
      BY <1>7, <3>1
  <2>3. Path(b + 1) = << Space >>
    <3>1. Path(b + 1) = << >> \o CharsOf(text, b, e)
      BY <1>6, <2>1, CharsAre DEF Path
    <3>2. CharsOf(text, b, e) = w
      BY <1>1, <1>3 DEF CutOf
    <3> QED
      BY <1>7, <3>1, <3>2
  <2>4. b + 1 \in Misses
    <3>1. ~MoreIn(dict, << Space >>) /\ << Space >> \notin dict.words
      BY SpaceIsNoWord
    <3>2. ~Hit(Path(b + 1))
      BY <2>3, <3>1, MoreIs DEF Hit
    <3> QED
      BY <1>6, <3>2 DEF Misses, Read
  <2>5. Misses = { b + 1 }
    <3>1. b + 1 .. e = { b + 1 }
      BY <1>2, <2>1
    <3> QED
      BY <1>6, <2>4, <3>1
  <2>6. Min(Misses) = b + 1
    BY <2>5 DEF Min
  <2> QED
    BY <2>2, <2>4, <2>6
<1>8. ASSUME Misses # {}, text.chars[Min(Misses)] = Space PROVE w = << Space >>
  <2>1. Misses \in SUBSET Nat
    BY <1>2, <1>6
  <2>2. PICK m \in Misses : \A k \in Misses : m <= k
    BY <1>8, <2>1, LeastElement
  <2>3. Min(Misses) = m
    <3>1. \A k \in Misses : (\A l \in Misses : k <= l) => k = m
      BY <2>1, <2>2
    <3> QED
      BY <2>2, <3>1 DEF Min
  <2>4. m - b \in 1 .. e - b /\ b + (m - b) = m
    BY <1>2, <1>6, <2>2
  <2>5. w[m - b] = Space
    BY <1>4, <1>8, <2>3, <2>4
  <2>6. Space \in Range(w)
    <3>1. DOMAIN w = 1 .. Len(w)
      BY <1>4 DEF TextStrings
    <3>2. m - b \in DOMAIN w
      BY <1>4, <2>4, <3>1
    <3> QED
      BY <2>5, <3>2 DEF Range
  <2>7. Len(w) = 1
    <3>1. ~(Len(w) > 1)
      BY <1>3, <2>6 DEF SpaceFree
    <3>2. Len(w) = e - b
      BY <1>4
    <3>3. e - b \in Nat \ { 0 } /\ ~(e - b > 1)
      BY <1>2, <3>1, <3>2
    <3>4. e - b = 1
      BY <3>3
    <3> QED
      BY <3>2, <3>4
  <2>8. m - b = 1
    <3>1. e - b = 1
      BY <1>4, <2>7
    <3> QED
      BY <1>2, <2>4, <3>1
  <2>9. w = << w[1] >>
    <3>1. PICK X : X = Range(text.chars)
      OBVIOUS
    <3>2. w \in Seq(X)
      BY <1>4, <3>1 DEF TextStrings
    <3> QED
      BY <2>7, <3>2
  <2> QED
    BY <2>5, <2>8, <2>9
<1> QED
  BY <1>3, <1>7, <1>8

-----------------------------------------------------------------------------
(***************************************************************************)
(* The invariant of the combining.  The words before Settled are joined or *)
(* dropped as expected, and from there on they are as the tagger cut them. *)
(* A search has read the words from begin to i - 1, which some entry goes  *)
(* on after, and remembers the last of them that ended a word.             *)
(***************************************************************************)
Settled == IF continueSch THEN begin ELSE i

SearchOK ==
  /\ begin < i
  /\ node = JoinedOf(text, begin, i - 1)
  /\ MoreIn(dict, node)
  /\ lastWordEnd \in begin .. i - 1
  /\ lastWordEnd = begin \/ ExtendedIn(dict, JoinedOf(text, begin, lastWordEnd))
  /\ \A m \in lastWordEnd + 1 .. i - 1 : ~ExtendedIn(dict, JoinedOf(text, begin, m))

UnitsOK ==
  /\ n = Len(text.cuts)
  /\ \A k \in 1 .. n : segment[k][2] = 0 \/ segment[k][1] < segment[k][2]

CombineMatch ==
  phase = "combine" =>
    /\ i \in 1 .. n + 1 /\ Settled \in 1 .. n + 1 /\ validIdx = 1 /\ out = << >>
    /\ Links(text, segment, 1, Settled, ExpectedFrom(text, dict, 1), ExpectedFrom(text, dict, Settled))
    /\ \A k \in Settled .. n : segment[k] = text.cuts[k]
    /\ continueSch => SearchOK

(* The words moved and those still to be moved are what is expected. *)
PackMatch ==
  phase = "pack" =>
    /\ out = << >>
    /\ validIdx = 1 => Links(text, segment, 1, n + 1, ExpectedFrom(text, dict, 1), << >>)
    /\ validIdx # 1 =>
         /\ validIdx \in 2 .. n + 1 /\ idx \in 1 .. validIdx - 1
         /\ \A k \in 1 .. idx - 1 : segment[k][2] # 0
         /\ \E y : /\ Links(text, segment, 1, idx, ExpectedFrom(text, dict, 1), y)
                   /\ Links(text, segment, validIdx, n + 1, y, << >>)

(* The strings and the words up to the first hole are what is expected. *)
LexiconMatch ==
  phase = "lexicon" =>
    \E l \in 1 .. n + 1 :
      /\ l = n + 1 \/ segment[l][2] = 0
      /\ \A k \in 1 .. l - 1 : segment[k][2] # 0
      /\ Len(out) < l /\ out \in Seq(TextStrings(text))
      /\ \E y : /\ Links(text, segment, Len(out) + 1, l, y, << >>)
                /\ ExpectedFrom(text, dict, 1) = out \o y

MatchOK ==
  SpaceFree(text) =>
    /\ UnitsOK /\ CombineMatch /\ PackMatch /\ LexiconMatch
    /\ phase = "done" => out = ExpectedFrom(text, dict, 1)

LEMMA UnitString ==
  ASSUME CombineOK, UnitsOK, NEW k \in 1 .. n, segment[k][2] # 0
  PROVE  StrOf(text, segment[k]) \in TextStrings(text)
<1>1. PICK b, e : b = segment[k][1] /\ e = segment[k][2]
  OBVIOUS
<1>2. segment[k] \in Unit
  BY DEF CombineOK, n
<1>3. b \in Nat /\ e \in Nat /\ b < e /\ e <= Len(text.chars)
  BY <1>1, <1>2 DEF CombineOK, UnitsOK, Unit
<1>4. CharsOf(text, b, e) \in TextStrings(text)
  BY <1>3, CharsOfIs DEF CombineOK
<1> QED
  BY <1>1, <1>4 DEF StrOf

(* Nothing that begins with a word no entry goes on after is joined. *)
LEMMA LongestAlone ==
  ASSUME NEW t \in Texts, NEW d \in Dicts, NEW k \in 1 .. Len(t.cuts), ~MoreIn(d, CutOf(t, k))
  PROVE  LongestOf(t, d, k) = k /\ SpanOf(t, k, k) = CutOf(t, k)
<1>1. Len(t.cuts) \in Nat /\ k \in k .. Len(t.cuts)
  BY CutIs
<1>2. ASSUME NEW m \in k + 1 .. Len(t.cuts), ExtendedIn(d, JoinedOf(t, k, m)) PROVE FALSE
  <2>1. m \in k .. Len(t.cuts) /\ MoreIn(d, JoinedOf(t, k, m))
    BY <1>1, <1>2 DEF ExtendedIn
  <2>2. MoreIn(d, JoinedOf(t, k, k))
    BY <1>1, <2>1, MoreJoined
  <2> QED
    BY <2>2, JoinedIs
<1>3. LongestOf(t, d, k) = k
  BY <1>1, <1>2, LongestIs
<1> QED
  BY <1>3 DEF SpanOf, CutOf

(* A word that is settled alone. *)
LEMMA SettleOne ==
  ASSUME CombineOK, UnitsOK, CombineMatch, phase = "combine", i <= n, ~continueSch, ~MoreIn(dict, CutOf(text, i)),
         NEW r, \A k \in 1 .. i - 1 : r[k] = segment[k],
         IF CutOf(text, i) = << Space >> THEN r[i][2] = 0 ELSE r[i] = segment[i]
  PROVE  Links(text, r, 1, i + 1, ExpectedFrom(text, dict, 1), ExpectedFrom(text, dict, i + 1))
<1>1. text \in Texts /\ dict \in Dicts /\ i \in 1 .. n /\ n = Len(text.cuts) /\ n \in Nat
  <2>1. text \in Texts /\ dict \in Dicts /\ i \in 1 .. n + 1 /\ n = Len(text.cuts)
    BY DEF CombineOK, UnitsOK, CombineMatch
  <2>2. n \in Nat
    BY <2>1, CutIs
  <2> QED
    BY <2>1, <2>2
<1>2. PICK t, d, x, y, z : /\ t = text /\ d = dict /\ x = ExpectedFrom(text, dict, 1)
                           /\ y = ExpectedFrom(text, dict, i) /\ z = ExpectedFrom(text, dict, i + 1)
  OBVIOUS
<1>3. Links(t, segment, 1, i, x, y) /\ segment[i] = t.cuts[i]
  <2>1. Settled = i /\ i \in i .. n
    BY <1>1 DEF Settled
  <2> QED
    BY <1>2, <2>1 DEF CombineMatch
<1>4. Links(t, r, 1, i, x, y)
  BY <1>1, <1>3, LinksSame
<1>5. LongestOf(t, d, i) = i /\ SpanOf(t, i, i) = CutOf(t, i)
  BY <1>1, <1>2, LongestAlone
<1>6. z \in Seq(TextStrings(t))
  <2>1. i + 1 \in 1 .. Len(text.cuts) + 1
    BY <1>1
  <2> QED
    BY <1>1, <1>2, <2>1, ExpectedStrings
<1>7. y = IF CutOf(t, i) = << Space >> THEN z ELSE << CutOf(t, i) >> \o z
  BY <1>1, <1>2, <1>5, ExpectedRec DEF Blank
<1>8. Links(t, r, i, i + 1, y, z)
  <2>1. CASE CutOf(t, i) = << Space >>
    <3>1. \A k \in i .. i + 1 - 1 : k = i
      BY <1>1
    <3>2. \A k \in i .. i + 1 - 1 : r[k][2] = 0
      BY <1>2, <2>1, <3>1
    <3>3. i \in Nat /\ i + 1 \in Nat /\ i <= i + 1
      BY <1>1
    <3>4. Links(t, r, i, i + 1, z, z)
      BY <1>6, <3>2, <3>3, LinksZeros
    <3> QED
      BY <1>7, <2>1, <3>4
  <2>2. CASE CutOf(t, i) # << Space >>
    <3>1. r[i] = t.cuts[i]
      BY <1>2, <1>3, <2>2
    <3>2. StrOf(t, r[i]) = CutOf(t, i) /\ StrOf(t, r[i]) \in TextStrings(t)
      <4>1. CutOf(t, i) \in TextStrings(t)
        BY <1>1, <1>2, CutString
      <4> QED
        BY <3>1, <4>1 DEF StrOf, CutOf
    <3>3. r[i][2] # 0
      <4>1. t.cuts[i][1] \in Nat /\ t.cuts[i][2] \in Nat /\ t.cuts[i][1] < t.cuts[i][2]
        BY <1>1, <1>2, CutIs
      <4>2. t.cuts[i][2] # 0
        BY <4>1
      <4> QED
        BY <3>1, <4>2
    <3>4. i \in Nat
      BY <1>1
    <3>5. Links(t, r, i, i + 1, << StrOf(t, r[i]) >> \o z, z)
      BY <1>6, <3>2, <3>3, <3>4, LinksOne
    <3> QED
      BY <1>7, <2>2, <3>2, <3>5
  <2> QED
    BY <2>1, <2>2
<1>9. 1 \in Nat /\ i \in Nat /\ i + 1 \in Nat /\ 1 <= i /\ i <= i + 1
  BY <1>1
<1>10. Links(t, r, 1, i + 1, x, z)
  BY <1>4, <1>8, <1>9, LinksConcat
<1> QED
  BY <1>2, <1>10

(* What a search joins is the longest match. *)
LEMMA SettleSearch ==
  ASSUME WordsBeginVisibly, CombineOK, UnitsOK, CombineMatch, phase = "combine", continueSch,
         \A m \in i .. n : ~ExtendedIn(dict, JoinedOf(text, begin, m)),
         NEW r, r = toCombine(begin, lastWordEnd)
  PROVE  /\ Links(text, r, 1, lastWordEnd + 1, ExpectedFrom(text, dict, 1), ExpectedFrom(text, dict, lastWordEnd + 1))
         /\ \A k \in lastWordEnd + 1 .. n : r[k] = text.cuts[k]
         /\ Len(r) = n
         /\ \A k \in 1 .. n : r[k][2] = 0 \/ r[k][1] < r[k][2]
         /\ lastWordEnd \in 1 .. n
<1>1. /\ text \in Texts /\ dict \in Dicts /\ n = Len(text.cuts) /\ n \in Nat
      /\ i \in 1 .. n + 1 /\ begin \in 1 .. n /\ lastWordEnd \in begin .. i - 1 /\ lastWordEnd \in 1 .. n
      /\ begin <= lastWordEnd
  <2>1. text \in Texts /\ dict \in Dicts /\ i \in 1 .. n + 1 /\ n = Len(text.cuts)
    BY DEF CombineOK, UnitsOK, CombineMatch
  <2>2. n \in Nat
    BY <2>1, CutIs
  <2>3. begin \in 1 .. n /\ lastWordEnd \in begin .. i - 1
    BY DEF CombineOK, CombineMatch, SearchOK
  <2> QED
    BY <2>1, <2>2, <2>3
<1>2. PICK t, d, b, l, x, y, z : /\ t = text /\ d = dict /\ b = begin /\ l = lastWordEnd
                                 /\ x = ExpectedFrom(text, dict, 1)
                                 /\ y = ExpectedFrom(text, dict, begin)
                                 /\ z = ExpectedFrom(text, dict, lastWordEnd + 1)
  OBVIOUS
<1>3. /\ Links(t, segment, 1, b, x, y)
      /\ \A k \in b .. n : segment[k] = t.cuts[k]
  <2>1. Settled = b
    BY <1>2 DEF Settled
  <2> QED
    BY <1>2, <2>1 DEF CombineMatch
<1>4. ASSUME NEW k \in 1 .. n
      PROVE  r[k] = IF k = b THEN << segment[b][1], segment[l][2] >>
                    ELSE IF k \in b .. l THEN << segment[k][1], 0 >> ELSE segment[k]
  BY <1>2 DEF toCombine
<1>5. ASSUME NEW k \in 1 .. n, k # b, k \in b .. l PROVE r[k][2] = 0
  <2>1. r[k] = << segment[k][1], 0 >>
    BY <1>4, <1>5
  <2> QED
    BY <2>1
<1>6. Len(r) = n
  BY <1>1 DEF toCombine
<1>7. b \in Nat /\ l \in Nat /\ 1 <= b /\ b <= l /\ l <= n /\ b \in 1 .. n /\ l \in 1 .. n /\ l \in b .. n
  BY <1>1, <1>2
<1>8. LongestOf(t, d, b) = l
  <2>1. l = b \/ ExtendedIn(d, JoinedOf(t, b, l))
    BY <1>2 DEF CombineMatch, SearchOK
  <2>2. ASSUME NEW m \in l + 1 .. n PROVE ~ExtendedIn(d, JoinedOf(t, b, m))
    <3>1. m \in l + 1 .. i - 1 \/ m \in i .. n
      BY <1>1, <1>7
    <3>2. CASE m \in l + 1 .. i - 1
      BY <1>2, <3>2 DEF CombineMatch, SearchOK
    <3>3. CASE m \in i .. n
      BY <1>2, <3>3
    <3> QED
      BY <3>1, <3>2, <3>3
  <2> QED
    BY <1>1, <1>2, <1>7, <2>1, <2>2, LongestIs
<1>9. CutOf(t, b) # << Space >>
  <2>1. i - 1 \in b .. Len(t.cuts) /\ b \in b .. i - 1 /\ b \in b .. Len(t.cuts) /\ i - 1 \in b .. Len(t.cuts)
    BY <1>1, <1>2
  <2>2. MoreIn(d, JoinedOf(t, b, i - 1))
    BY <1>2 DEF CombineMatch, SearchOK
  <2>3. i - 1 \in b .. Len(t.cuts) /\ b \in 1 .. Len(t.cuts) /\ t \in Texts /\ d \in Dicts
    BY <1>1, <1>2, <2>1
  <2>4. MoreIn(d, JoinedOf(t, b, b))
    BY <2>1, <2>2, <2>3, MoreJoined
  <2>5. JoinedOf(t, b, b) = CutOf(t, b)
    BY <2>3, JoinedIs
  <2> QED
    BY <2>3, <2>4, <2>5, SpaceIsNoWord
<1>10. y = << SpanOf(t, b, l) >> \o z
  <2>1. ~Blank(t, d, b)
    BY <1>9 DEF Blank
  <2> QED
    BY <1>1, <1>2, <1>7, <1>8, <2>1, ExpectedRec
<1>11. z \in Seq(TextStrings(t))
  <2>1. lastWordEnd + 1 \in 1 .. Len(text.cuts) + 1
    BY <1>1
  <2> QED
    BY <1>1, <1>2, <2>1, ExpectedStrings
<1>12. PICK c1, c2 : c1 = t.cuts[b][1] /\ c2 = t.cuts[l][2]
  OBVIOUS
<1>13. c1 \in Nat /\ c2 \in Nat /\ c1 < c2
  BY <1>1, <1>2, <1>7, <1>12, CutIs, CutsOrdered
<1>14. r[b][1] = c1 /\ r[b][2] = c2
  <2>1. segment[b] = t.cuts[b] /\ segment[l] = t.cuts[l]
    BY <1>3, <1>7
  <2>2. r[b] = << segment[b][1], segment[l][2] >>
    BY <1>4, <1>7
  <2> QED
    BY <1>12, <2>1, <2>2
<1>15. StrOf(t, r[b]) = SpanOf(t, b, l) /\ StrOf(t, r[b]) \in TextStrings(t)
  <2>1. SpanOf(t, b, l) \in TextStrings(t)
    BY <1>1, <1>2, <1>7, SpanString
  <2> QED
    BY <1>12, <1>14, <2>1 DEF StrOf, SpanOf
<1>16. r[b][2] # 0
  BY <1>13, <1>14
<1>17. Links(t, r, 1, b, x, y)
  <2>1. \A k \in 1 .. b - 1 : k \in 1 .. n /\ k # b /\ k \notin b .. l
    BY <1>1, <1>7
  <2>2. \A k \in 1 .. b - 1 : r[k] = segment[k]
    BY <1>4, <2>1
  <2>3. 1 \in Nat
    OBVIOUS
  <2> QED
    BY <1>3, <1>7, <2>2, <2>3, LinksSame
<1>18. Links(t, r, b, b + 1, y, z)
  BY <1>7, <1>10, <1>11, <1>15, <1>16, LinksOne
<1>19. Links(t, r, b + 1, l + 1, z, z)
  <2>1. PICK p, q : p = b + 1 /\ q = l + 1
    OBVIOUS
  <2>2. ASSUME NEW k \in p .. q - 1 PROVE r[k][2] = 0
    <3>1. k \in 1 .. n /\ k # b /\ k \in b .. l
      BY <1>1, <1>7, <2>1
    <3> QED
      BY <1>5, <3>1
  <2>3. p \in Nat /\ q \in Nat /\ p <= q
    BY <1>7, <2>1
  <2>4. Links(t, r, p, q, z, z)
    BY <1>11, <2>2, <2>3, LinksZeros
  <2> QED
    BY <2>1, <2>4
<1>20. Links(t, r, 1, l + 1, x, z)
  <2>1. /\ 1 \in Nat /\ b \in Nat /\ b + 1 \in Nat /\ l + 1 \in Nat
        /\ 1 <= b /\ b <= b + 1 /\ 1 <= b + 1 /\ b + 1 <= l + 1
    BY <1>7
  <2>2. Links(t, r, 1, b + 1, x, z)
    BY <1>17, <1>18, <2>1, LinksConcat
  <2> QED
    BY <1>19, <2>1, <2>2, LinksConcat
<1>21. ASSUME NEW k \in l + 1 .. n PROVE r[k] = t.cuts[k]
  <2>1. k \in 1 .. n /\ k # b /\ k \notin b .. l /\ k \in b .. n
    BY <1>1, <1>7
  <2> QED
    BY <1>3, <1>4, <2>1
<1>22. ASSUME NEW k \in 1 .. n PROVE r[k][2] = 0 \/ r[k][1] < r[k][2]
  <2>1. CASE k = b
    BY <1>13, <1>14, <2>1
  <2>2. CASE k # b /\ k \in b .. l
    BY <1>5, <2>2
  <2>3. CASE k # b /\ k \notin b .. l
    <3>1. r[k] = segment[k]
      BY <1>4, <2>3
    <3> QED
      BY <3>1 DEF UnitsOK
  <2> QED
    BY <2>1, <2>2, <2>3
<1> QED
  BY <1>1, <1>2, <1>6, <1>20, <1>21, <1>22

-----------------------------------------------------------------------------
LEMMA Typed ==
  ASSUME CombineOK, UnitsOK
  PROVE  /\ text \in Texts /\ dict \in Dicts /\ n = Len(text.cuts) /\ n \in Nat
         /\ \A k \in 1 .. n : /\ segment[k] \in Unit /\ segment[k] = << segment[k][1], segment[k][2] >>
                              /\ segment[k][1] \in Nat /\ segment[k][2] \in Nat
         /\ segment \in Seq(Unit) /\ DOMAIN segment = 1 .. n
<1>1. text \in Texts /\ dict \in Dicts /\ n = Len(text.cuts) /\ segment \in Seq(Unit)
  BY DEF CombineOK, UnitsOK
<1>2. n \in Nat
  BY <1>1, CutIs
<1>3. \A k \in 1 .. n : segment[k] \in Unit
  BY <1>1, <1>2 DEF n
<1>4. \A u \in Unit : u = << u[1], u[2] >> /\ u[1] \in Nat /\ u[2] \in Nat
  BY DEF Unit
<1>5. DOMAIN segment = 1 .. n
  BY <1>1 DEF n
<1> QED
  BY <1>1, <1>2, <1>3, <1>4, <1>5

(* What was read and the word that is read now. *)
LEMMA SofarIs ==
  ASSUME CombineOK, UnitsOK, CombineMatch, phase = "combine", i <= n
  PROVE  /\ i \in 1 .. n /\ segment[i] = text.cuts[i] /\ Sofar \in TextStrings(text)
         /\ continueSch => begin \in 1 .. n /\ Sofar \o CutOf(text, i) = JoinedOf(text, begin, i)
         /\ ~continueSch => Sofar \o CutOf(text, i) = CutOf(text, i)
<1>1. /\ text \in Texts /\ n = Len(text.cuts) /\ n \in Nat /\ i \in 1 .. n /\ Settled \in 1 .. n + 1
      /\ \A k \in Settled .. n : segment[k] = text.cuts[k]
  BY Typed DEF CombineMatch
<1>2. CASE continueSch
  <2>1. begin \in 1 .. n /\ begin < i /\ node = JoinedOf(text, begin, i - 1) /\ Settled = begin
    BY <1>2 DEF CombineOK, CombineMatch, SearchOK, Settled
  <2>2. PICK x : x = i - 1
    OBVIOUS
  <2>3. x \in begin .. Len(text.cuts) - 1 /\ x + 1 = i /\ x \in begin .. Len(text.cuts) /\ i \in Settled .. n
    BY <1>1, <2>1, <2>2
  <2>4. node \in TextStrings(text)
    BY <1>1, <2>1, <2>2, <2>3, JoinedString
  <2>5. JoinedOf(text, begin, x + 1) = JoinedOf(text, begin, x) \o CutOf(text, x + 1)
    BY <1>1, <2>1, <2>3, JoinedIs
  <2> QED
    BY <1>1, <1>2, <2>1, <2>2, <2>3, <2>4, <2>5 DEF Sofar
<1>3. CASE ~continueSch
  <2>1. Settled = i /\ i \in Settled .. n
    BY <1>1, <1>3 DEF Settled
  <2>2. Sofar = << >> /\ Sofar \in TextStrings(text)
    BY <1>3 DEF Sofar, TextStrings
  <2>3. << >> \o CutOf(text, i) = CutOf(text, i)
    <3>1. CutOf(text, i) \in TextStrings(text)
      BY <1>1, CutString
    <3> QED
      BY <3>1 DEF TextStrings
  <2> QED
    BY <1>1, <1>3, <2>1, <2>2, <2>3
<1> QED
  BY <1>2, <1>3

LEMMA SkipStep ==
  ASSUME WordsBeginVisibly, CombineOK, SpaceFree(text), UnitsOK, CombineMatch, SkipUnknown \/ SkipLeaf
  PROVE  UnitsOK' /\ CombineMatch' /\ phase' = "combine"
<1>1. /\ phase = "combine" /\ i <= n /\ ~continueSch /\ i' = i + 1
      /\ phase' = phase /\ continueSch' = continueSch /\ text' = text /\ dict' = dict
      /\ validIdx' = validIdx /\ out' = out
  BY DEF SkipUnknown, SkipLeaf, search
<1>2. /\ text \in Texts /\ dict \in Dicts /\ n = Len(text.cuts) /\ n \in Nat /\ i \in 1 .. n
      /\ segment[i] = text.cuts[i] /\ Sofar \in TextStrings(text) /\ Sofar \o CutOf(text, i) = CutOf(text, i)
      /\ segment \in Seq(Unit) /\ DOMAIN segment = 1 .. n
  BY <1>1, Typed, SofarIs
<1>3. PICK r : r = segment'
  OBVIOUS
<1>4. CutOf(text, i) = << Space >> <=> Misses # {} /\ text.chars[Min(Misses)] = Space
  BY <1>1, <1>2, SpaceRead
<1>5. r = IF CutOf(text, i) = << Space >> THEN [segment EXCEPT ![i][2] = 0] ELSE segment
  BY <1>3, <1>4 DEF SkipUnknown, SkipLeaf
<1>6. ~MoreIn(dict, CutOf(text, i))
  <2>1. ~Extensible
    BY DEF SkipUnknown, SkipLeaf, Extensible
  <2> QED
    BY <1>2, <2>1, ReadIs
<1>7. /\ Len(r) = n
      /\ \A k \in 1 .. n : k # i => r[k] = segment[k]
      /\ IF CutOf(text, i) = << Space >> THEN r[i][2] = 0 ELSE r[i] = segment[i]
  <2>1. CASE CutOf(text, i) = << Space >>
    <3>1. PICK u : u = [segment[i] EXCEPT ![2] = 0]
      OBVIOUS
    <3>2. r = [segment EXCEPT ![i] = u]
      BY <1>5, <2>1, <3>1
    <3>3. u[2] = 0
      <4>1. segment[i] = << segment[i][1], segment[i][2] >>
        BY <1>2, Typed
      <4> QED
        BY <3>1, <4>1
    <3>4. Len(r) = n /\ r[i] = u /\ \A k \in 1 .. n : k # i => r[k] = segment[k]
      BY <1>2, <3>2 DEF n
    <3> QED
      BY <2>1, <3>3, <3>4
  <2>2. CASE CutOf(text, i) # << Space >>
    BY <1>5, <2>2 DEF n
  <2> QED
    BY <2>1, <2>2
<1>8. Links(text, r, 1, i + 1, ExpectedFrom(text, dict, 1), ExpectedFrom(text, dict, i + 1))
  <2>1. \A k \in 1 .. i - 1 : r[k] = segment[k]
    BY <1>2, <1>7
  <2> QED
    BY <1>1, <1>6, <1>7, <2>1, SettleOne
<1>9. UnitsOK'
  <2>1. \A k \in 1 .. n : r[k][2] = 0 \/ r[k][1] < r[k][2]
    BY <1>7 DEF UnitsOK
  <2> QED
    BY <1>1, <1>2, <1>3, <1>7, <2>1 DEF UnitsOK, n
<1>10. \A k \in i + 1 .. n : r[k] = text.cuts[k]
  <2> TAKE k \in i + 1 .. n
  <2>1. k \in Settled .. n /\ k \in 1 .. n /\ k # i
    BY <1>1, <1>2 DEF Settled
  <2> QED
    BY <1>1, <1>7, <2>1 DEF CombineMatch
<1>11. CombineMatch'
  <2>1. Settled' = i + 1 /\ n' = n /\ i' \in 1 .. n + 1
    BY <1>1, <1>2, <1>3, <1>7 DEF Settled, n
  <2>2. validIdx' = 1 /\ out' = << >>
    BY <1>1 DEF CombineMatch
  <2> QED
    BY <1>1, <1>3, <1>8, <1>10, <2>1, <2>2 DEF CombineMatch
<1> QED
  BY <1>1, <1>9, <1>11

LEMMA StartStep ==
  ASSUME WordsBeginVisibly, CombineOK, UnitsOK, CombineMatch, StartSearch
  PROVE  UnitsOK' /\ CombineMatch' /\ phase' = "combine"
<1>1. /\ phase = "combine" /\ i <= n /\ ~continueSch /\ i' = i + 1 /\ continueSch' = TRUE /\ begin' = i
      /\ lastWordEnd' = i /\ node' = ReadPath /\ Extensible
      /\ phase' = phase /\ text' = text /\ dict' = dict /\ segment' = segment
      /\ validIdx' = validIdx /\ out' = out
  BY DEF StartSearch
<1>2. /\ text \in Texts /\ dict \in Dicts /\ n = Len(text.cuts) /\ n \in Nat /\ i \in 1 .. n
      /\ segment[i] = text.cuts[i] /\ Sofar \in TextStrings(text) /\ Sofar \o CutOf(text, i) = CutOf(text, i)
  BY <1>1, Typed, SofarIs
<1>3. ReadPath = CutOf(text, i) /\ MoreIn(dict, CutOf(text, i))
  BY <1>1, <1>2, ReadIs
<1>4. JoinedOf(text, i, i) = CutOf(text, i)
  BY <1>2, JoinedIs
<1>5. i + 1 - 1 = i /\ i \in i .. i + 1 - 1 /\ i < i + 1 /\ i + 1 \in 1 .. n + 1 /\ i \in 1 .. n + 1
  BY <1>2
<1>6. SearchOK'
  <2>1. \A m \in i + 1 .. i + 1 - 1 : FALSE
    BY <1>2
  <2> QED
    BY <1>1, <1>3, <1>4, <1>5, <2>1 DEF SearchOK
<1>7. n' = n /\ Settled' = i /\ Settled = i
  BY <1>1 DEF n, Settled
<1>8. CombineMatch'
  BY <1>1, <1>5, <1>6, <1>7 DEF CombineMatch
<1>9. UnitsOK'
  BY <1>1, <1>7 DEF UnitsOK
<1> QED
  BY <1>1, <1>8, <1>9

LEMMA ExtendStep ==
  ASSUME WordsBeginVisibly, CombineOK, UnitsOK, CombineMatch, ExtendSearch
  PROVE  UnitsOK' /\ CombineMatch' /\ phase' = "combine"
<1>1. /\ phase = "combine" /\ i <= n /\ continueSch /\ i' = i + 1 /\ continueSch' = continueSch /\ begin' = begin
      /\ lastWordEnd' = (IF ReadPath \in dict.words THEN i ELSE lastWordEnd)
      /\ node' = ReadPath /\ Extensible
      /\ phase' = phase /\ text' = text /\ dict' = dict /\ segment' = segment
      /\ validIdx' = validIdx /\ out' = out
  BY DEF ExtendSearch
<1>2. /\ text \in Texts /\ dict \in Dicts /\ n = Len(text.cuts) /\ n \in Nat /\ i \in 1 .. n
      /\ segment[i] = text.cuts[i] /\ Sofar \in TextStrings(text)
      /\ begin \in 1 .. n /\ Sofar \o CutOf(text, i) = JoinedOf(text, begin, i)
  BY <1>1, Typed, SofarIs
<1>3. PICK w : w = JoinedOf(text, begin, i)
  OBVIOUS
<1>4. ReadPath = w /\ MoreIn(dict, w)
  BY <1>1, <1>2, <1>3, ReadIs
<1>5. SearchOK
  BY <1>1 DEF CombineMatch
<1>6. /\ i + 1 - 1 = i /\ begin < i + 1 /\ i + 1 \in 1 .. n + 1
      /\ i \in begin .. i /\ lastWordEnd \in begin .. i /\ lastWordEnd \in begin .. i - 1
  BY <1>2, <1>5 DEF SearchOK
<1>7. SearchOK'
  <2>1. CASE w \in dict.words
    <3>1. lastWordEnd' = i /\ ExtendedIn(dict, w)
      BY <1>1, <1>4, <2>1 DEF ExtendedIn
    <3>2. \A m \in i + 1 .. i + 1 - 1 : FALSE
      BY <1>2
    <3> QED
      BY <1>1, <1>3, <1>4, <1>6, <3>1, <3>2 DEF SearchOK
  <2>2. CASE w \notin dict.words
    <3>1. lastWordEnd' = lastWordEnd /\ ~ExtendedIn(dict, w)
      BY <1>1, <1>4, <2>2 DEF ExtendedIn
    <3>2. ASSUME NEW m \in lastWordEnd + 1 .. i + 1 - 1 PROVE ~ExtendedIn(dict, JoinedOf(text, begin, m))
      <4>1. m \in lastWordEnd + 1 .. i - 1 \/ m = i
        BY <1>2, <1>6
      <4> QED
        BY <1>3, <1>5, <3>1, <4>1 DEF SearchOK
    <3>3. lastWordEnd = begin \/ ExtendedIn(dict, JoinedOf(text, begin, lastWordEnd))
      BY <1>5 DEF SearchOK
    <3> QED
      BY <1>1, <1>3, <1>4, <1>6, <3>1, <3>2, <3>3 DEF SearchOK
  <2> QED
    BY <2>1, <2>2
<1>8. n' = n /\ Settled' = Settled
  BY <1>1 DEF n, Settled
<1>9. CombineMatch'
  BY <1>1, <1>6, <1>7, <1>8 DEF CombineMatch
<1>10. UnitsOK'
  BY <1>1, <1>8 DEF UnitsOK
<1> QED
  BY <1>1, <1>9, <1>10

(* A search that stops, by a word or by the end of the text. *)
LEMMA StopStep ==
  ASSUME WordsBeginVisibly, CombineOK, UnitsOK, CombineMatch, StopSearch \/ GoBack
  PROVE  UnitsOK' /\ CombineMatch' /\ phase' = "combine"
<1>1. /\ phase = "combine" /\ continueSch /\ i' = lastWordEnd + 1 /\ continueSch' = FALSE
      /\ segment' = toCombine(begin, lastWordEnd)
      /\ phase' = phase /\ text' = text /\ dict' = dict
      /\ validIdx' = validIdx /\ out' = out
  BY DEF StopSearch, GoBack, EndSearch
<1>2. /\ text \in Texts /\ dict \in Dicts /\ n = Len(text.cuts) /\ n \in Nat
  BY Typed
<1>3. ASSUME NEW m \in i .. n PROVE ~ExtendedIn(dict, JoinedOf(text, begin, m))
  <2>1. i \in 1 .. n + 1 /\ i <= n
    BY <1>1, <1>2 DEF CombineMatch
  <2>2. StopSearch
    BY <2>1, <1>2 DEF GoBack
  <2>3. /\ i \in 1 .. n /\ segment[i] = text.cuts[i] /\ Sofar \in TextStrings(text)
        /\ begin \in 1 .. n /\ Sofar \o CutOf(text, i) = JoinedOf(text, begin, i)
    BY <1>1, <2>1, SofarIs
  <2>4. ~MoreIn(dict, JoinedOf(text, begin, i))
    <3>1. ~Extensible
      BY <2>2 DEF StopSearch
    <3> QED
      BY <1>2, <2>3, <3>1, ReadIs
  <2>5. begin < i
    BY <1>1 DEF CombineMatch, SearchOK
  <2>6. i \in begin .. Len(text.cuts) /\ m \in i .. Len(text.cuts)
    BY <1>2, <2>3, <2>5
  <2>7. ~MoreIn(dict, JoinedOf(text, begin, m))
    BY <1>2, <2>3, <2>4, <2>6, MoreJoined
  <2> QED
    BY <2>7 DEF ExtendedIn
<1>4. PICK r : r = segment' /\ r = toCombine(begin, lastWordEnd)
  BY <1>1
<1>5. /\ Links(text, r, 1, lastWordEnd + 1, ExpectedFrom(text, dict, 1), ExpectedFrom(text, dict, lastWordEnd + 1))
      /\ \A k \in lastWordEnd + 1 .. n : r[k] = text.cuts[k]
      /\ Len(r) = n
      /\ \A k \in 1 .. n : r[k][2] = 0 \/ r[k][1] < r[k][2]
      /\ lastWordEnd \in 1 .. n
  BY <1>1, <1>3, <1>4, SettleSearch
<1>6. n' = n /\ Settled' = lastWordEnd + 1 /\ lastWordEnd + 1 \in 1 .. n + 1
  BY <1>1, <1>2, <1>4, <1>5 DEF n, Settled
<1>7. UnitsOK'
  BY <1>1, <1>2, <1>4, <1>5, <1>6 DEF UnitsOK
<1>8. validIdx' = 1 /\ out' = << >>
  BY <1>1 DEF CombineMatch
<1>9. CombineMatch'
  BY <1>1, <1>4, <1>5, <1>6, <1>8 DEF CombineMatch
<1> QED
  BY <1>1, <1>7, <1>9

LEMMA EndCombineStep ==
  ASSUME WordsBeginVisibly, CombineOK, UnitsOK, CombineMatch, EndCombine
  PROVE  UnitsOK' /\ PackMatch' /\ phase' = "pack"
<1>1. /\ phase = "combine" /\ i = n + 1 /\ (~continueSch \/ lastWordEnd = n)
      /\ segment' = (IF continueSch THEN toCombine(begin, n) ELSE segment)
      /\ phase' = "pack" /\ text' = text /\ dict' = dict
      /\ validIdx' = validIdx /\ out' = out
  BY DEF EndCombine
<1>2. /\ text \in Texts /\ dict \in Dicts /\ n = Len(text.cuts) /\ n \in Nat
  BY Typed
<1>3. ExpectedFrom(text, dict, n + 1) = << >>
  BY <1>2, ExpectedRec
<1>4. PICK r : r = segment'
  OBVIOUS
<1>5. /\ Links(text, r, 1, n + 1, ExpectedFrom(text, dict, 1), << >>)
      /\ Len(r) = n
      /\ \A k \in 1 .. n : r[k][2] = 0 \/ r[k][1] < r[k][2]
  <2>1. CASE continueSch
    <3>1. lastWordEnd = n /\ r = toCombine(begin, lastWordEnd)
      BY <1>1, <1>4, <2>1
    <3>2. \A m \in i .. n : ~ExtendedIn(dict, JoinedOf(text, begin, m))
      BY <1>1, <1>2
    <3>3. /\ Links(text, r, 1, lastWordEnd + 1, ExpectedFrom(text, dict, 1), ExpectedFrom(text, dict, lastWordEnd + 1))
          /\ Len(r) = n
          /\ \A k \in 1 .. n : r[k][2] = 0 \/ r[k][1] < r[k][2]
      BY <1>1, <2>1, <3>1, <3>2, SettleSearch
    <3> QED
      BY <1>3, <3>1, <3>3
  <2>2. CASE ~continueSch
    <3>1. Settled = n + 1 /\ r = segment
      BY <1>1, <1>4, <2>2 DEF Settled
    <3> QED
      BY <1>1, <1>3, <3>1 DEF CombineMatch, UnitsOK, n
  <2> QED
    BY <2>1, <2>2
<1>6. n' = n
  BY <1>4, <1>5 DEF n
<1>7. UnitsOK'
  BY <1>1, <1>2, <1>4, <1>5, <1>6 DEF UnitsOK
<1>8. validIdx' = 1 /\ out' = << >>
  BY <1>1 DEF CombineMatch
<1>9. PackMatch'
  BY <1>1, <1>4, <1>5, <1>6, <1>8 DEF PackMatch
<1> QED
  BY <1>1, <1>7, <1>9

-----------------------------------------------------------------------------
(* Closing the holes. *)
LEMMA FindStep ==
  ASSUME CombineOK, UnitsOK, PackMatch, FindEmpty
  PROVE  UnitsOK' /\ PackMatch' /\ LexiconMatch' /\ phase' # "combine" /\ phase' # "done"
<1>1. /\ phase = "pack" /\ validIdx = 1 /\ text' = text /\ dict' = dict /\ segment' = segment /\ out' = out
  BY DEF FindEmpty
<1>2. /\ n \in Nat /\ n' = n /\ out = << >> /\ UnitsOK'
      /\ Links(text, segment, 1, n + 1, ExpectedFrom(text, dict, 1), << >>)
  <2>1. n' = n
    BY <1>1 DEF n
  <2> QED
    BY <1>1, <2>1, Typed DEF PackMatch, UnitsOK
<1>3. CASE \E k \in 1 .. n : IsEmpty(k)
  <2>1. /\ idx' = Min({ k \in 1 .. n : IsEmpty(k) }) /\ validIdx' = idx' + 1 /\ phase' = phase
    BY <1>3 DEF FindEmpty
  <2>2. PICK S : S = { k \in 1 .. n : IsEmpty(k) }
    OBVIOUS
  <2>3. S \in SUBSET Nat /\ S # {}
    BY <1>2, <1>3, <2>2
  <2>4. PICK m \in S : \A k \in S : m <= k
    BY <2>3, LeastElement
  <2>5. Min(S) = m
    <3>1. \A k \in S : (\A l \in S : k <= l) => k = m
      BY <2>3, <2>4
    <3> QED
      BY <2>4, <3>1 DEF Min
  <2>6. m \in 1 .. n /\ segment[m][2] = 0
    BY <2>2, <2>4 DEF IsEmpty
  <2>7. \A k \in 1 .. m - 1 : segment[k][2] # 0
    <3> TAKE k \in 1 .. m - 1
    <3>1. k \in 1 .. n /\ ~(m <= k)
      BY <1>2, <2>6
    <3> QED
      BY <2>2, <2>4, <3>1 DEF IsEmpty
  <2>8. /\ m \in Nat /\ n + 1 \in Nat /\ 1 \in Nat /\ 1 <= m /\ m <= n + 1 /\ m < n + 1
    BY <1>2, <2>6
  <2>9. PICK y : /\ Links(text, segment, 1, m, ExpectedFrom(text, dict, 1), y)
                 /\ Links(text, segment, m, n + 1, y, << >>)
    BY <1>2, <2>8, LinksSplit
  <2>10. Links(text, segment, m + 1, n + 1, y, << >>)
    <3>1. PICK e : e = n + 1
      OBVIOUS
    <3>2. m \in Nat /\ e \in Nat /\ m < e /\ Links(text, segment, m, e, y, << >>)
      BY <2>8, <2>9, <3>1
    <3> QED
      BY <2>6, <3>1, <3>2, LinksFirstEmpty, Zenon
  <2>11. idx' = m /\ validIdx' = m + 1 /\ validIdx' # 1 /\ validIdx' \in 2 .. n + 1 /\ idx' \in 1 .. validIdx' - 1
    BY <1>2, <2>1, <2>2, <2>5, <2>6
  <2>12. PackMatch'
    BY <1>1, <1>2, <2>7, <2>9, <2>10, <2>11 DEF PackMatch
  <2> QED
    BY <1>1, <1>2, <2>1, <2>12 DEF LexiconMatch
<1>4. CASE ~\E k \in 1 .. n : IsEmpty(k)
  <2>1. phase' = "lexicon" /\ \A k \in 1 .. n : segment[k][2] # 0
    BY <1>4 DEF FindEmpty, IsEmpty
  <2>2. LexiconMatch'
    <3>1. PICK x : x = ExpectedFrom(text, dict, 1)
      OBVIOUS
    <3>2. x \in Seq(TextStrings(text))
      <4>1. 1 \in Nat /\ n + 1 \in Nat /\ 1 <= n + 1
        BY <1>2
      <4> QED
        BY <1>2, <3>1, <4>1, LinksEnds
    <3>3. x = << >> \o x /\ << >> \in Seq(TextStrings(text)) /\ Len(<< >>) + 1 = 1 /\ Len(<< >>) < n + 1
      BY <1>2, <3>2
    <3>4. n + 1 \in 1 .. n + 1 /\ n + 1 - 1 = n
      BY <1>2
    <3> QED
      BY <1>1, <1>2, <2>1, <3>1, <3>3, <3>4 DEF LexiconMatch
  <2> QED
    BY <1>2, <2>1, <2>2 DEF PackMatch
<1> QED
  BY <1>3, <1>4

LEMMA MoveStep ==
  ASSUME CombineOK, UnitsOK, PackMatch, MoveUnit
  PROVE  UnitsOK' /\ PackMatch' /\ phase' = "pack"
<1>1. /\ phase = "pack" /\ validIdx \in 2 .. n /\ text' = text /\ dict' = dict /\ out' = out /\ phase' = phase
      /\ segment' = [segment EXCEPT ![idx] = segment[validIdx]]
      /\ idx' = idx + 1 /\ validIdx' = validIdx + 1 /\ segment[validIdx][2] # 0
  BY DEF MoveUnit, IsEmpty
<1>2. PICK r, v, p, x : r = segment' /\ v = validIdx /\ p = idx /\ x = ExpectedFrom(text, dict, 1)
  OBVIOUS
<1>3. n \in Nat /\ DOMAIN segment = 1 .. n /\ text \in Texts /\ segment \in Seq(Unit)
  BY Typed
<1>4. v \in 2 .. n /\ p \in 1 .. v - 1 /\ p \in 1 .. n /\ v \in 1 .. n
  <2>1. validIdx # 1
    BY <1>1, <1>3
  <2>2. idx \in 1 .. validIdx - 1
    BY <1>1, <2>1 DEF PackMatch
  <2> QED
    BY <1>1, <1>2, <1>3, <2>2
<1>5. PICK y : Links(text, segment, 1, p, x, y) /\ Links(text, segment, v, n + 1, y, << >>)
  <2>1. validIdx # 1
    BY <1>2, <1>4
  <2> QED
    BY <1>1, <1>2, <2>1 DEF PackMatch
<1>6. /\ Len(r) = n /\ r[p] = segment[v] /\ \A k \in 1 .. n : k # p => r[k] = segment[k]
  BY <1>1, <1>2, <1>3, <1>4 DEF n
<1>7. PICK z : /\ Links(text, segment, v + 1, n + 1, z, << >>)
               /\ y = << StrOf(text, segment[v]) >> \o z
  <2>1. PICK e : e = n + 1
    OBVIOUS
  <2>2. v \in Nat /\ e \in Nat /\ v < e /\ Links(text, segment, v, e, y, << >>)
    BY <1>3, <1>4, <1>5, <2>1
  <2>3. segment[v][2] # 0
    BY <1>1, <1>2
  <2>4. Puts(text, segment, v, e, y, << >>)
    BY <2>2, <2>3, LinksFirstUnit, Zenon
  <2> QED
    BY <2>1, <2>4 DEF Puts, Before
<1>8. y = << StrOf(text, r[p]) >> \o z /\ r[p][2] # 0 /\ StrOf(text, r[p]) \in TextStrings(text)
  BY <1>1, <1>2, <1>4, <1>6, <1>7, UnitString
<1>9. z \in Seq(TextStrings(text))
  <2>1. PICK a, b : a = v + 1 /\ b = n + 1
    OBVIOUS
  <2>2. a \in Nat /\ b \in Nat /\ a <= b
    BY <1>3, <1>4, <2>1
  <2>3. Links(text, segment, a, b, z, << >>)
    BY <1>7, <2>1
  <2> QED
    BY <2>2, <2>3, LinksEnds
<1>10. Links(text, r, p, p + 1, y, z)
  <2>1. p \in Nat
    BY <1>4
  <2> QED
    BY <1>8, <1>9, <2>1, LinksOne
<1>11. Links(text, r, 1, p, x, y)
  <2>1. \A k \in 1 .. p - 1 : k \in 1 .. n /\ k # p
    BY <1>3, <1>4
  <2>2. \A k \in 1 .. p - 1 : r[k] = segment[k]
    BY <1>6, <2>1
  <2>3. 1 \in Nat /\ p \in Nat
    BY <1>4
  <2> QED
    BY <1>5, <2>2, <2>3, LinksSame
<1>12. Links(text, r, 1, p + 1, x, z)
  <2>1. 1 \in Nat /\ p \in Nat /\ p + 1 \in Nat /\ 1 <= p /\ p <= p + 1
    BY <1>4
  <2> QED
    BY <1>10, <1>11, <2>1, LinksConcat
<1>13. Links(text, r, v + 1, n + 1, z, << >>)
  <2>1. PICK a, b : a = v + 1 /\ b = n + 1
    OBVIOUS
  <2>2. a \in Nat /\ b \in Nat
    BY <1>3, <1>4, <2>1
  <2>3. ASSUME NEW k \in a .. b - 1 PROVE r[k] = segment[k]
    <3>1. k \in 1 .. n /\ k # p
      BY <1>3, <1>4, <2>1
    <3> QED
      BY <1>6, <3>1
  <2>4. Links(text, segment, a, b, z, << >>)
    BY <1>7, <2>1
  <2>5. Links(text, r, a, b, z, << >>)
    BY <2>2, <2>3, <2>4, LinksSame
  <2> QED
    BY <2>1, <2>5
<1>14. n' = n /\ out' = << >>
  BY <1>1, <1>2, <1>6 DEF n, PackMatch
<1>15. UnitsOK'
  <2>1. ASSUME NEW k \in 1 .. n PROVE r[k][2] = 0 \/ r[k][1] < r[k][2]
    <3>1. r[k] = segment[k] \/ r[k] = segment[v]
      BY <1>6
    <3> QED
      BY <1>4, <3>1 DEF UnitsOK
  <2> QED
    BY <1>1, <1>2, <1>14, <2>1 DEF UnitsOK
<1>16. ASSUME NEW k \in 1 .. p + 1 - 1 PROVE r[k][2] # 0
  <2>1. CASE k = p
    BY <1>8, <2>1
  <2>2. CASE k # p
    <3>1. k \in 1 .. p - 1 /\ k \in 1 .. n
      BY <1>3, <1>4, <2>2
    <3>2. segment[k][2] # 0
      <4>1. validIdx # 1
        BY <1>2, <1>4
      <4> QED
        BY <1>1, <1>2, <3>1, <4>1 DEF PackMatch
    <3> QED
      BY <1>6, <2>2, <3>1, <3>2
  <2> QED
    BY <2>1, <2>2
<1>17. v + 1 # 1 /\ v + 1 \in 2 .. n + 1 /\ p + 1 \in 1 .. v + 1 - 1
  BY <1>3, <1>4
<1>18. PackMatch'
  <2>1. /\ validIdx' = v + 1 /\ idx' = p + 1 /\ segment' = r /\ n' = n /\ out' = << >>
        /\ ExpectedFrom(text', dict', 1) = x /\ text' = text
    BY <1>1, <1>2, <1>14
  <2>2. /\ validIdx' # 1 /\ validIdx' \in 2 .. n' + 1 /\ idx' \in 1 .. validIdx' - 1
    <3>1. PICK a, b, c : a = v + 1 /\ b = p + 1 /\ c = n
      OBVIOUS
    <3>2. a # 1 /\ a \in 2 .. c + 1 /\ b \in 1 .. a - 1
      BY <1>3, <1>4, <3>1
    <3>3. validIdx' = a /\ idx' = b /\ n' = c
      BY <2>1, <3>1
    <3> QED
      BY <3>2, <3>3
  <2>3. \A k \in 1 .. idx' - 1 : segment'[k][2] # 0
    <3>1. PICK a : a = p + 1
      OBVIOUS
    <3>2. ASSUME NEW k \in 1 .. a - 1 PROVE r[k][2] # 0
      <4>1. k \in 1 .. p + 1 - 1
        BY <1>4, <3>1
      <4> QED
        BY <1>16, <4>1
    <3>3. idx' = a /\ segment' = r
      BY <2>1, <3>1
    <3> QED
      BY <3>2, <3>3
  <2>4. Links(text', segment', 1, idx', ExpectedFrom(text', dict', 1), z)
    <3>1. PICK t, a : t = text /\ a = p + 1
      OBVIOUS
    <3>2. Links(t, r, 1, a, x, z)
      BY <1>12, <3>1
    <3>3. /\ text' = t /\ segment' = r /\ idx' = a /\ ExpectedFrom(text', dict', 1) = x
      BY <2>1, <3>1
    <3> QED
      BY <3>2, <3>3
  <2>5. Links(text', segment', validIdx', n' + 1, z, << >>)
    <3>1. PICK t, a, b : t = text /\ a = v + 1 /\ b = n + 1
      OBVIOUS
    <3>2. Links(t, r, a, b, z, << >>)
      BY <1>13, <3>1
    <3>3. text' = t /\ segment' = r /\ validIdx' = a /\ n' + 1 = b
      BY <2>1, <3>1
    <3> QED
      BY <3>2, <3>3
  <2> QED
    BY <2>1, <2>2, <2>3, <2>4, <2>5 DEF PackMatch
<1> QED
  BY <1>1, <1>15, <1>18

LEMMA SkipEmptyStep ==
  ASSUME CombineOK, UnitsOK, PackMatch, SkipEmpty
  PROVE  UnitsOK' /\ PackMatch' /\ phase' = "pack"
<1>1. /\ phase = "pack" /\ validIdx \in 2 .. n /\ text' = text /\ dict' = dict /\ out' = out /\ phase' = phase
      /\ segment' = segment /\ idx' = idx /\ validIdx' = validIdx + 1 /\ segment[validIdx][2] = 0
  BY DEF SkipEmpty, IsEmpty
<1>2. PICK v, x : v = validIdx /\ x = ExpectedFrom(text, dict, 1)
  OBVIOUS
<1>3. n \in Nat /\ n' = n
  BY <1>1, Typed DEF n
<1>4. v \in 2 .. n /\ v # 1
  BY <1>1, <1>2, <1>3
<1>5. PICK y : Links(text, segment, 1, idx, x, y) /\ Links(text, segment, v, n + 1, y, << >>)
  BY <1>1, <1>2, <1>4 DEF PackMatch
<1>6. Links(text, segment, v + 1, n + 1, y, << >>)
  <2>1. PICK e : e = n + 1
    OBVIOUS
  <2>2. v \in Nat /\ e \in Nat /\ v < e /\ Links(text, segment, v, e, y, << >>)
    BY <1>3, <1>4, <1>5, <2>1
  <2> QED
    BY <1>1, <1>2, <2>1, <2>2, LinksFirstEmpty, Zenon
<1>7. /\ idx \in 1 .. v - 1 /\ out = << >> /\ \A k \in 1 .. idx - 1 : segment[k][2] # 0
  BY <1>1, <1>2, <1>4 DEF PackMatch
<1>8. v + 1 # 1 /\ v + 1 \in 2 .. n + 1 /\ idx \in 1 .. v + 1 - 1
  BY <1>3, <1>4, <1>7
<1>9. PackMatch'
  BY <1>1, <1>2, <1>3, <1>5, <1>6, <1>7, <1>8 DEF PackMatch
<1>10. UnitsOK'
  BY <1>1, <1>3 DEF UnitsOK
<1> QED
  BY <1>1, <1>9, <1>10

LEMMA EndPackStep ==
  ASSUME CombineOK, UnitsOK, PackMatch, EndPack
  PROVE  UnitsOK' /\ LexiconMatch' /\ phase' = "lexicon"
<1>1. /\ phase = "pack" /\ validIdx = n + 1 /\ n > 0 /\ text' = text /\ dict' = dict /\ out' = out
      /\ phase' = "lexicon" /\ segment' = [segment EXCEPT ![idx][2] = 0]
  BY DEF EndPack
<1>2. PICK r, p, x : r = segment' /\ p = idx /\ x = ExpectedFrom(text, dict, 1)
  OBVIOUS
<1>3. n \in Nat /\ DOMAIN segment = 1 .. n /\ segment \in Seq(Unit)
  BY Typed
<1>4. validIdx # 1 /\ p \in 1 .. n
  <2>1. validIdx # 1
    BY <1>1, <1>3
  <2>2. idx \in 1 .. validIdx - 1
    BY <1>1, <2>1 DEF PackMatch
  <2> QED
    BY <1>1, <1>2, <1>3, <2>1, <2>2
<1>5. PICK y : Links(text, segment, 1, p, x, y) /\ Links(text, segment, n + 1, n + 1, y, << >>)
  BY <1>1, <1>2, <1>4 DEF PackMatch
<1>6. y = << >>
  <2>1. n + 1 \in Nat /\ n + 1 <= n + 1
    BY <1>3
  <2> QED
    BY <1>5, <2>1, LinksEnds
<1>7. /\ Len(r) = n /\ r[p][2] = 0 /\ \A k \in 1 .. n : k # p => r[k] = segment[k]
  <2>1. PICK u : u = [segment[p] EXCEPT ![2] = 0]
    OBVIOUS
  <2>2. r = [segment EXCEPT ![p] = u]
    BY <1>1, <1>2, <2>1
  <2>3. u[2] = 0
    <3>1. segment[p] = << segment[p][1], segment[p][2] >>
      BY <1>4, Typed
    <3> QED
      BY <2>1, <3>1
  <2>4. Len(r) = n /\ r[p] = u /\ \A k \in 1 .. n : k # p => r[k] = segment[k]
    BY <1>3, <1>4, <2>2 DEF n
  <2> QED
    BY <2>3, <2>4
<1>8. \A k \in 1 .. p - 1 : k \in 1 .. n /\ k # p
  BY <1>3, <1>4
<1>9. \A k \in 1 .. p - 1 : r[k] = segment[k] /\ segment[k][2] # 0
  BY <1>1, <1>2, <1>4, <1>7, <1>8 DEF PackMatch
<1>10. Links(text, r, 1, p, x, << >>)
  <2>1. 1 \in Nat /\ p \in Nat
    BY <1>4
  <2> QED
    BY <1>5, <1>6, <1>9, <2>1, LinksSame
<1>11. x \in Seq(TextStrings(text))
  <2>1. 1 \in Nat /\ p \in Nat /\ 1 <= p
    BY <1>4
  <2> QED
    BY <1>10, <2>1, LinksEnds
<1>12. /\ n' = n /\ out' = << >> /\ x = << >> \o x /\ << >> \in Seq(TextStrings(text))
       /\ Len(<< >>) + 1 = 1 /\ Len(<< >>) < p /\ p \in 1 .. n + 1
  BY <1>1, <1>2, <1>3, <1>4, <1>7, <1>11 DEF n, PackMatch
<1>13. LexiconMatch'
  <2>1. \A k \in 1 .. p - 1 : r[k][2] # 0
    BY <1>9
  <2> QED
    BY <1>1, <1>2, <1>7, <1>10, <1>12, <2>1 DEF LexiconMatch
<1>14. UnitsOK'
  <2>1. ASSUME NEW k \in 1 .. n PROVE r[k][2] = 0 \/ r[k][1] < r[k][2]
    BY <1>7 DEF UnitsOK
  <2> QED
    BY <1>1, <1>2, <1>12, <2>1 DEF UnitsOK
<1> QED
  BY <1>1, <1>13, <1>14
-----------------------------------------------------------------------------
(* The strings. *)
LEMMA AppendStep ==
  ASSUME CombineOK, UnitsOK, LexiconMatch, AppendLexicon
  PROVE  UnitsOK' /\ LexiconMatch' /\ phase' = "lexicon"
<1>1. PICK q : q = Len(out) + 1
  OBVIOUS
<1>2. /\ phase = "lexicon" /\ Len(out) < n /\ segment[q][1] < segment[q][2]
      /\ out' = Append(out, StrOf(text, segment[q]))
      /\ text' = text /\ dict' = dict /\ segment' = segment /\ phase' = phase
  BY <1>1, CharsAre DEF AppendLexicon, StrOf
<1>3. n \in Nat /\ n' = n
  BY <1>2, Typed DEF n
<1>4. PICK l \in 1 .. n + 1 :
        /\ l = n + 1 \/ segment[l][2] = 0
        /\ \A k \in 1 .. l - 1 : segment[k][2] # 0
        /\ Len(out) < l /\ out \in Seq(TextStrings(text))
        /\ \E y : /\ Links(text, segment, Len(out) + 1, l, y, << >>)
                  /\ ExpectedFrom(text, dict, 1) = out \o y
  BY <1>2 DEF LexiconMatch
<1>5. PICK y : Links(text, segment, q, l, y, << >>) /\ ExpectedFrom(text, dict, 1) = out \o y
  BY <1>1, <1>4
<1>6. q \in 1 .. n /\ q < l /\ l \in Nat
  <2>1. Len(out) \in Nat /\ q \in 1 .. n
    BY <1>1, <1>2, <1>3, <1>4
  <2>2. segment[q][1] \in Nat /\ segment[q][2] \in Nat
    BY <2>1, Typed
  <2>3. segment[q][2] # 0
    BY <1>2, <2>2
  <2>4. q # l
    BY <1>3, <1>4, <2>1, <2>3
  <2> QED
    BY <1>1, <1>3, <1>4, <2>1, <2>4
<1>7. segment[q][2] # 0
  BY <1>4, <1>6
<1>8. PICK w : w = StrOf(text, segment[q])
  OBVIOUS
<1>9. w \in TextStrings(text)
  BY <1>6, <1>7, <1>8, UnitString
<1>10. PICK z : Links(text, segment, q + 1, l, z, << >>) /\ y = << w >> \o z
  <2>1. q \in Nat /\ l \in Nat /\ q < l
    BY <1>6
  <2>2. Puts(text, segment, q, l, y, << >>)
    BY <1>5, <1>7, <2>1, LinksFirstUnit, Zenon
  <2> QED
    BY <1>8, <2>2 DEF Puts, Before
<1>11. z \in Seq(TextStrings(text))
  <2>1. q + 1 \in Nat /\ l \in Nat /\ q + 1 <= l
    BY <1>6
  <2> QED
    BY <1>10, <2>1, LinksEnds
<1>12. PICK W : W = TextStrings(text)
  OBVIOUS
<1>13. /\ Append(out, w) \in Seq(W) /\ Len(Append(out, w)) = q
       /\ Append(out, w) = out \o << w >> /\ << w >> \in Seq(W) /\ out \in Seq(W) /\ z \in Seq(W)
  BY <1>1, <1>4, <1>9, <1>11, <1>12
<1>14. out \o y = Append(out, w) \o z
  BY <1>10, <1>13, Associates
<1>15. LexiconMatch'
  BY <1>1, <1>2, <1>3, <1>4, <1>5, <1>6, <1>8, <1>10, <1>12, <1>13, <1>14 DEF LexiconMatch
<1>16. UnitsOK'
  BY <1>2, <1>3 DEF UnitsOK
<1> QED
  BY <1>2, <1>15, <1>16

LEMMA EndLexiconStep ==
  ASSUME CombineOK, UnitsOK, LexiconMatch, EndLexicon
  PROVE  UnitsOK' /\ phase' = "done" /\ out' = ExpectedFrom(text', dict', 1)
<1>1. PICK q : q = Len(out) + 1
  OBVIOUS
<1>2. /\ phase = "lexicon" /\ (Len(out) < n => ~(segment[q][1] < segment[q][2]))
      /\ out' = out /\ text' = text /\ dict' = dict /\ segment' = segment /\ phase' = "done"
  <2>1. /\ phase = "lexicon" /\ (Len(out) < n => segment[q][1] >= segment[q][2])
        /\ out' = out /\ text' = text /\ dict' = dict /\ segment' = segment /\ phase' = "done"
    BY <1>1 DEF EndLexicon
  <2>2. ASSUME Len(out) < n PROVE ~(segment[q][1] < segment[q][2])
    <3>1. out \in Seq(Word) /\ n \in Nat
      BY Typed DEF CombineOK
    <3>2. q \in 1 .. n
      BY <1>1, <2>2, <3>1
    <3>3. segment[q][1] \in Nat /\ segment[q][2] \in Nat
      BY <3>2, Typed
    <3> QED
      BY <2>1, <2>2, <3>3
  <2> QED
    BY <2>1, <2>2
<1>3. n \in Nat /\ n' = n
  BY <1>2, Typed DEF n
<1>4. PICK l \in 1 .. n + 1 :
        /\ l = n + 1 \/ segment[l][2] = 0
        /\ \A k \in 1 .. l - 1 : segment[k][2] # 0
        /\ Len(out) < l /\ out \in Seq(TextStrings(text))
        /\ \E y : /\ Links(text, segment, Len(out) + 1, l, y, << >>)
                  /\ ExpectedFrom(text, dict, 1) = out \o y
  BY <1>2 DEF LexiconMatch
<1>5. PICK y : Links(text, segment, q, l, y, << >>) /\ ExpectedFrom(text, dict, 1) = out \o y
  BY <1>1, <1>4
<1>6. q = l
  <2>1. Len(out) \in Nat /\ q \in 1 .. l
    BY <1>1, <1>3, <1>4
  <2> SUFFICES ASSUME q # l PROVE FALSE
    OBVIOUS
  <2>2. q \in 1 .. l - 1 /\ q \in 1 .. n /\ Len(out) < n
    BY <1>1, <1>3, <1>4, <2>1
  <2>3. segment[q][2] # 0
    BY <1>4, <2>2
  <2> QED
    BY <1>2, <2>2, <2>3 DEF UnitsOK
<1>7. y = << >>
  <2>1. q \in Nat /\ l \in Nat /\ q <= l
    BY <1>3, <1>4, <1>6
  <2> QED
    BY <1>5, <1>6, <2>1, LinksEnds
<1>8. out \o << >> = out
  BY <1>4
<1>9. UnitsOK'
  BY <1>2, <1>3 DEF UnitsOK
<1> QED
  BY <1>2, <1>5, <1>7, <1>8, <1>9

-----------------------------------------------------------------------------
LEMMA InitMatch == TagInit => MatchOK
<1> SUFFICES ASSUME TagInit PROVE MatchOK
  OBVIOUS
<1>1. /\ phase = "combine" /\ segment = text.cuts /\ i = 1 /\ ~continueSch /\ validIdx = 1 /\ out = << >>
      /\ text \in Texts /\ dict \in Dicts
  BY DEF TagInit, Init
<1>2. n = Len(text.cuts) /\ n \in Nat /\ Settled = 1
  <2>1. n = Len(text.cuts) /\ Settled = 1
    BY <1>1 DEF n, Settled
  <2> QED
    BY <1>1, <2>1, CutIs
<1>3. PICK x : x = ExpectedFrom(text, dict, 1)
  OBVIOUS
<1>4. x \in Seq(TextStrings(text))
  <2>1. 1 \in 1 .. Len(text.cuts) + 1
    BY <1>2
  <2> QED
    BY <1>1, <1>3, <2>1, ExpectedStrings
<1>5. Links(text, segment, 1, 1, x, x)
  <2>1. \A k \in 1 .. 1 - 1 : segment[k][2] = 0
    OBVIOUS
  <2>2. 1 \in Nat /\ 1 <= 1
    OBVIOUS
  <2> QED
    BY <1>4, <2>1, <2>2, LinksZeros
<1>6. UnitsOK
  <2>1. \A k \in 1 .. n : segment[k][1] < segment[k][2]
    BY <1>1, <1>2, CutIs
  <2> QED
    BY <1>2, <2>1 DEF UnitsOK
<1>7. CombineMatch
  <2>1. 1 \in 1 .. n + 1
    BY <1>2
  <2> QED
    BY <1>1, <1>2, <1>3, <1>5, <2>1 DEF CombineMatch
<1> QED
  BY <1>1, <1>6, <1>7 DEF MatchOK, PackMatch, LexiconMatch

LEMMA MatchStep ==
  ASSUME WordsBeginVisibly, CombineOK, MatchOK, Next
  PROVE  MatchOK'
<1>1. text' = text
  BY DEF Next, SkipUnknown, SkipLeaf, StartSearch, ExtendSearch, StopSearch, GoBack, EndSearch, EndCombine,
         FindEmpty, MoveUnit, SkipEmpty, EndPack, AppendLexicon, EndLexicon
<1> SUFFICES ASSUME SpaceFree(text)
             PROVE  /\ UnitsOK' /\ CombineMatch' /\ PackMatch' /\ LexiconMatch'
                    /\ phase' = "done" => out' = ExpectedFrom(text', dict', 1)
  BY <1>1 DEF MatchOK
<1>2. UnitsOK /\ CombineMatch /\ PackMatch /\ LexiconMatch
  BY DEF MatchOK
<1>3. CASE SkipUnknown \/ SkipLeaf
  BY <1>2, <1>3, SkipStep DEF PackMatch, LexiconMatch
<1>4. CASE StartSearch
  BY <1>2, <1>4, StartStep DEF PackMatch, LexiconMatch
<1>5. CASE ExtendSearch
  BY <1>2, <1>5, ExtendStep DEF PackMatch, LexiconMatch
<1>6. CASE StopSearch \/ GoBack
  BY <1>2, <1>6, StopStep DEF PackMatch, LexiconMatch
<1>7. CASE EndCombine
  BY <1>2, <1>7, EndCombineStep DEF CombineMatch, LexiconMatch
<1>8. CASE FindEmpty
  BY <1>2, <1>8, FindStep DEF CombineMatch
<1>9. CASE MoveUnit
  BY <1>2, <1>9, MoveStep DEF CombineMatch, LexiconMatch
<1>10. CASE SkipEmpty
  BY <1>2, <1>10, SkipEmptyStep DEF CombineMatch, LexiconMatch
<1>11. CASE EndPack
  BY <1>2, <1>11, EndPackStep DEF CombineMatch, PackMatch
<1>12. CASE AppendLexicon
  BY <1>2, <1>12, AppendStep DEF CombineMatch, PackMatch
<1>13. CASE EndLexicon
  BY <1>2, <1>13, EndLexiconStep DEF CombineMatch, PackMatch, LexiconMatch
<1> QED
  BY <1>3, <1>4, <1>5, <1>6, <1>7, <1>8, <1>9, <1>10, <1>11, <1>12, <1>13 DEF Next

(* Listing and tagging leave the first result alone. *)
LEMMA MatchKept ==
  ASSUME MatchOK, UNCHANGED vars
  PROVE  MatchOK'
<1>1. UNCHANGED << dict, text, phase, segment, i, continueSch, begin, lastWordEnd, node, idx, validIdx, out >>
  BY DEF vars, search
<1>2. n' = n /\ Settled' = Settled
  BY <1>1 DEF n, Settled
<1>3. UnitsOK' = UnitsOK
  BY <1>1, <1>2 DEF UnitsOK
<1>4. SearchOK' = SearchOK
  BY <1>1 DEF SearchOK
<1>5. CombineMatch' = CombineMatch
  BY <1>1, <1>2, <1>4 DEF CombineMatch
<1>6. PackMatch' = PackMatch
  BY <1>1, <1>2 DEF PackMatch
<1>7. LexiconMatch' = LexiconMatch
  BY <1>1, <1>2 DEF LexiconMatch
<1> QED
  BY <1>1, <1>3, <1>5, <1>6, <1>7 DEF MatchOK

(***************************************************************************)
(* The strings are the longest matches of the dictionary over the words    *)
(* the tagger cut, for every dictionary whose words do not begin with a    *)
(* space: one pass with steps back finds them, and closing the holes it    *)
(* leaves loses none.                                                      *)
(***************************************************************************)
THEOREM AlwaysLongestMatch ==
  ASSUME WordsBeginVisibly
  PROVE  TagSpec => []LongestMatch
<1>1. IInv /\ MatchOK /\ [TagNext]_allVars => MatchOK'
  <2> SUFFICES ASSUME IInv, MatchOK, [TagNext]_allVars PROVE MatchOK'
    OBVIOUS
  <2>1. CASE CombineFirst
    BY <2>1, MatchStep DEF CombineFirst, IInv
  <2>2. CASE ListWords \/ NextResult \/ TagByType \/ TagUnknown \/ TagOnlyOne \/ TagByModel \/ UNCHANGED allVars
    <3>1. UNCHANGED vars
      BY <2>2 DEF ListWords, NextResult, TagByType, TagUnknown, TagOnlyOne, TagByModel, Push, allVars
    <3> QED
      BY <3>1, MatchKept
  <2> QED
    BY <2>1, <2>2 DEF TagNext
<1>2. TagSpec => []MatchOK
  BY <1>1, InitMatch, AlwaysIInv, PTL DEF TagSpec
<1>3. MatchOK => LongestMatch
  <2> SUFFICES ASSUME MatchOK, phase = "done", ~SpaceInside PROVE out = Expected
    BY DEF LongestMatch
  <2>1. \A k : Cut(k) = CutOf(text, k)
    BY CharsAre DEF Cut, CutOf
  <2>2. SpaceFree(text)
    BY <2>1 DEF SpaceInside, SpaceFree, LastCut
  <2> QED
    BY <2>2, ExpectedIs DEF MatchOK
<1> QED
  BY <1>2, <1>3, PTL
==============================================================================
