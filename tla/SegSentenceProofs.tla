--------------------------- MODULE SegSentenceProofs ---------------------------
(***************************************************************************)
(* Proofs about SegSentence, for all sentences, dictionaries, models and   *)
(* numbers of hypotheses.                                                  *)
(*                                                                         *)
(* The list of candidates is module NBest's, and so are the facts about    *)
(* it (P).  The rest is about the rows: every one of them agrees with the  *)
(* words preProcess found, and from the character being tagged on is as    *)
(* preProcess left it, although h0 and h1 share two arrays.                *)
(***************************************************************************)
EXTENDS SegSentence, FiniteSetTheorems, TLAPS

P == INSTANCE NBestProofs WITH Unit <- Candidate, AnyUnit <- AnyCandidate

LEMMA ListAssumptions ==
  /\ N \in Nat \ {0}
  /\ AnyCandidate \in Candidate
  /\ \A u \in Candidate : u.score \in Int
BY SizeAssumption DEF Candidate, AnyCandidate, Tag

LEMMA MinOf ==
  ASSUME NEW S \in SUBSET Nat, S # {}
  PROVE  Min(S) \in S /\ \A m \in S : Min(S) <= m
<1>1. \E n \in S : \A m \in S : n <= m
  BY ListAssumptions, P!LeastElement
<1> QED
  BY <1>1 DEF Min
-----------------------------------------------------------------------------
(* combinePOCToWord. *)

(* The first character tagged B behind b, or the end. *)
WordEnd(tags, b) == Min({ p \in b + 1 .. sentence.len : p = sentence.len \/ tags[p] = "B" })

(* The words from b on, when f[c] are those from a later c on. *)
WordsFrom(f, tags, b) ==
  IF b = sentence.len THEN << >>
  ELSE << << b, WordEnd(tags, b) >> >> \o f[SkipSpaces(WordEnd(tags, b))]

LEMMA WordEndIs ==
  ASSUME IsSentence(sentence), NEW tags, NEW b \in 0 .. sentence.len - 1
  PROVE  LET e == WordEnd(tags, b) IN
         /\ e \in b + 1 .. sentence.len
         /\ e = sentence.len \/ tags[e] = "B"
         /\ \A p \in b + 1 .. sentence.len : p = sentence.len \/ tags[p] = "B" => e <= p
<1> DEFINE S == { p \in b + 1 .. sentence.len : p = sentence.len \/ tags[p] = "B" }
<1>1. sentence.len \in Nat /\ S \in SUBSET Nat
  BY DEF IsSentence
<1>2. sentence.len \in S
  BY <1>1
<1>3. Min(S) \in S /\ \A p \in S : Min(S) <= p
  BY <1>1, <1>2, MinOf
<1> QED
  BY <1>1, <1>3 DEF WordEnd

LEMMA SkipSpacesIs ==
  ASSUME IsSentence(sentence), NEW c \in 0 .. sentence.len
  PROVE  LET e == SkipSpaces(c) IN
         /\ e \in c .. sentence.len
         /\ e = sentence.len \/ ~sentence.space[e]
         /\ \A p \in c .. sentence.len - 1 : p < e => sentence.space[p]
<1> DEFINE S == { p \in c .. sentence.len : p = sentence.len \/ ~sentence.space[p] }
<1>1. sentence.len \in Nat /\ S \in SUBSET Nat
  BY DEF IsSentence
<1>2. sentence.len \in S
  BY <1>1
<1>3. Min(S) \in S /\ \A p \in S : Min(S) <= p
  BY <1>1, <1>2, MinOf
<1>4. \A p \in c .. sentence.len - 1 : p < Min(S) => p \notin S
  BY <1>1, <1>3
<1>5. \A p \in c .. sentence.len - 1 : p \notin S => sentence.space[p]
  BY <1>1
<1>6. Min(S) \in c .. sentence.len /\ (Min(S) = sentence.len \/ ~sentence.space[Min(S)])
  BY <1>3
<1> QED
  BY <1>4, <1>5, <1>6 DEF SkipSpaces

(* The recursion of combinePOCToWord has a solution. *)
LEMMA WordsExist ==
  ASSUME IsSentence(sentence), NEW tags
  PROVE  \E f : f = [b \in 0 .. sentence.len |-> WordsFrom(f, tags, b)]
<1> DEFINE L == sentence.len
           Solves(f, d) == f = [b \in L - d .. L |-> WordsFrom(f, tags, b)]
           Bad == { d \in 0 .. L : ~\E f : Solves(f, d) }
<1>1. L \in Nat
  BY DEF IsSentence
<1>2. ASSUME Bad # {} PROVE FALSE
  <2>0. Bad \in SUBSET Nat
    BY <1>1
  <2>1. PICK d \in Bad : \A m \in Bad : d <= m
    <3> HIDE DEF Bad
    <3> QED
      BY <1>2, <2>0, ListAssumptions, P!LeastElement
  <2>2. d \in 0 .. L /\ d \in Int
    BY <1>1, <2>1
  <2>3. CASE d = 0
    <3>1. Solves([b \in L - 0 .. L |-> << >>], 0)
      BY <1>1 DEF WordsFrom
    <3> QED
      BY <2>1, <2>3, <3>1
  <2>4. CASE d > 0
    <3>1. d - 1 \in 0 .. L /\ d - 1 \notin Bad
      BY <1>1, <2>1, <2>2, <2>4
    <3>2. PICK f : Solves(f, d - 1)
      BY <3>1
    <3> DEFINE g == [b \in L - d .. L |-> IF b = L - d THEN WordsFrom(f, tags, b) ELSE f[b]]
    <3>3. ASSUME NEW b \in L - d .. L PROVE g[b] = WordsFrom(g, tags, b)
      <4>1. WordsFrom(g, tags, b) = WordsFrom(f, tags, b)
        <5>1. CASE b = L
          BY <5>1 DEF WordsFrom
        <5>2. CASE b # L
          <6>1. b \in 0 .. L - 1
            BY <1>1, <2>2, <5>2
          <6>2. WordEnd(tags, b) \in b + 1 .. L
            BY <6>1, WordEndIs
          <6>3. SkipSpaces(WordEnd(tags, b)) \in b + 1 .. L
            BY <1>1, <6>1, <6>2, SkipSpacesIs
          <6>4. \A e \in b + 1 .. L : g[e] = f[e]
            BY <1>1, <2>2, <6>1
          <6>5. g[SkipSpaces(WordEnd(tags, b))] = f[SkipSpaces(WordEnd(tags, b))]
            BY <6>3, <6>4
          <6> HIDE DEF g
          <6> QED
            BY <6>5 DEF WordsFrom
        <5> QED
          BY <5>1, <5>2
      <4>2. CASE b = L - d
        BY <4>1, <4>2
      <4>3. CASE b # L - d
        <5>1. b \in L - (d - 1) .. L
          BY <1>1, <2>2, <4>3
        <5>2. f[b] = WordsFrom(f, tags, b)
          BY <3>2, <5>1
        <5> QED
          BY <4>1, <4>3, <5>2
      <4> QED
        BY <4>2, <4>3
    <3>4. Solves(g, d)
      BY <3>3
    <3> QED
      BY <2>1, <3>4
  <2> QED
    BY <2>2, <2>3, <2>4
<1>3. L \in 0 .. L /\ L - L = 0
  BY <1>1
<1>4. \E f : Solves(f, L)
  BY <1>2, <1>3
<1> QED
  BY <1>3, <1>4

(***************************************************************************)
(* What is asked of the words W from b on, if b is no space: they cut the  *)
(* rest without loss, and a word whose tags are in the row is among them.  *)
(***************************************************************************)
IsWordIn(tags, x, y) ==
  /\ tags[x] = "B" /\ ~sentence.space[x]
  /\ y = sentence.len \/ tags[y] = "B"
  /\ \A c \in x + 1 .. y - 1 : tags[c] # "B"

GoodWords(W, tags, b) ==
  /\ W \in Seq(Int \X Int)
  /\ \A s \in 1 .. Len(W) : /\ W[s][1] \in b .. sentence.len - 1 /\ W[s][2] \in b .. sentence.len
                            /\ W[s][1] < W[s][2] /\ ~sentence.space[W[s][1]]
                            /\ s > 1 => W[s - 1][2] <= W[s][1]
  /\ \A c \in b .. sentence.len - 1 :
       sentence.space[c] \/ \E s \in 1 .. Len(W) : c \in W[s][1] .. W[s][2] - 1
  /\ \A x \in b .. sentence.len - 1 : \A y \in x + 1 .. sentence.len :
       IsWordIn(tags, x, y) => \E s \in 1 .. Len(W) : W[s] = << x, y >>

(* One more word in front, then spaces. *)
LEMMA OneMoreWord ==
  ASSUME IsSentence(sentence), NEW tags, NEW b \in 0 .. sentence.len - 1, ~sentence.space[b],
         NEW W, GoodWords(W, tags, SkipSpaces(WordEnd(tags, b)))
  PROVE  GoodWords(<< << b, WordEnd(tags, b) >> >> \o W, tags, b)
<1> DEFINE L == sentence.len
           e == WordEnd(tags, b)
           r == SkipSpaces(e)
           V == << << b, e >> >> \o W
<1>1. L \in Nat /\ b \in Int /\ b >= 0
  BY DEF IsSentence
<1>2. /\ e \in b + 1 .. L
      /\ e = L \/ tags[e] = "B"
      /\ \A p \in b + 1 .. L : p = L \/ tags[p] = "B" => e <= p
  BY WordEndIs
<1>3. e \in 0 .. L
  BY <1>1, <1>2
<1>4. /\ r \in e .. L
      /\ \A p \in e .. L - 1 : p < r => sentence.space[p]
  BY <1>3, SkipSpacesIs
<1>5. /\ W \in Seq(Int \X Int)
      /\ \A s \in 1 .. Len(W) : /\ W[s][1] \in r .. L - 1 /\ W[s][2] \in r .. L
                                /\ W[s][1] < W[s][2] /\ ~sentence.space[W[s][1]]
                                /\ s > 1 => W[s - 1][2] <= W[s][1]
      /\ \A c \in r .. L - 1 : sentence.space[c] \/ \E s \in 1 .. Len(W) : c \in W[s][1] .. W[s][2] - 1
      /\ \A x \in r .. L - 1 : \A y \in x + 1 .. L :
           IsWordIn(tags, x, y) => \E s \in 1 .. Len(W) : W[s] = << x, y >>
  BY DEF GoodWords
<1> HIDE DEF L, e, r
<1>6. << << b, e >> >> \in Seq(Int \X Int) /\ Len(<< << b, e >> >>) = 1 /\ Len(W) \in Nat
  BY <1>1, <1>2, <1>5
<1>7. /\ V \in Seq(Int \X Int) /\ Len(V) = Len(W) + 1 /\ V[1] = << b, e >>
      /\ \A s \in 1 .. Len(W) : V[s + 1] = W[s]
  BY <1>5, <1>6
<1> HIDE DEF V
<1>8. \A s \in 2 .. Len(V) : s - 1 \in 1 .. Len(W) /\ V[s] = W[s - 1]
  <2> SUFFICES ASSUME NEW s \in 2 .. Len(V) PROVE s - 1 \in 1 .. Len(W) /\ V[s] = W[s - 1]
    OBVIOUS
  <2>1. s - 1 \in 1 .. Len(W) /\ (s - 1) + 1 = s
    BY <1>6, <1>7
  <2> QED
    BY <1>7, <2>1
<1>12. \A s \in 1 .. Len(W) : s + 1 \in 1 .. Len(V) /\ V[s + 1] = W[s]
  <2>1. \A s \in 1 .. Len(W) : s + 1 \in 1 .. Len(V)
    BY <1>6, <1>7
  <2> QED
    BY <1>7, <2>1
<1>9. ASSUME NEW s \in 1 .. Len(V)
      PROVE  /\ V[s][1] \in b .. L - 1 /\ V[s][2] \in b .. L
             /\ V[s][1] < V[s][2] /\ ~sentence.space[V[s][1]]
             /\ s > 1 => V[s - 1][2] <= V[s][1]
  <2>1. CASE s = 1
    BY <1>1, <1>2, <1>7, <2>1 DEF L
  <2>2. CASE s # 1
    <3>1. s \in 2 .. Len(V)
      BY <1>6, <1>7, <2>2
    <3>2. s - 1 \in 1 .. Len(W) /\ V[s] = W[s - 1]
      BY <1>8, <3>1
    <3>3. V[s][1] \in r .. L - 1 /\ V[s][2] \in r .. L /\ V[s][1] < V[s][2] /\ ~sentence.space[V[s][1]]
      BY <1>5, <3>2
    <3>4. V[s - 1][2] <= V[s][1]
      <4>1. CASE s = 2
        BY <1>1, <1>2, <1>4, <1>7, <3>3, <4>1
      <4>2. CASE s # 2
        <5>1. s - 1 \in 2 .. Len(V) /\ s - 1 > 1
          BY <3>1, <4>2
        <5>2. V[s - 1] = W[(s - 1) - 1]
          BY <1>8, <5>1
        <5> QED
          BY <1>5, <3>2, <5>1, <5>2
      <4> QED
        BY <4>1, <4>2
    <3> QED
      BY <1>1, <1>2, <1>4, <3>3, <3>4
  <2> QED
    BY <2>1, <2>2
<1>10. ASSUME NEW c \in b .. L - 1
       PROVE  sentence.space[c] \/ \E s \in 1 .. Len(V) : c \in V[s][1] .. V[s][2] - 1
  <2>1. CASE c < e
    <3>1. 1 \in 1 .. Len(V) /\ c \in V[1][1] .. V[1][2] - 1
      BY <1>1, <1>2, <1>6, <1>7, <2>1
    <3> QED
      BY <3>1
  <2>2. CASE c >= e /\ c < r
    BY <1>1, <1>2, <1>4, <2>2
  <2>3. CASE c >= r
    <3>1. c \in r .. L - 1
      BY <1>1, <1>2, <1>4, <2>3
    <3>2. CASE \E s \in 1 .. Len(W) : c \in W[s][1] .. W[s][2] - 1
      <4>1. PICK s \in 1 .. Len(W) : c \in W[s][1] .. W[s][2] - 1
        BY <3>2
      <4>2. s + 1 \in 1 .. Len(V) /\ V[s + 1] = W[s]
        BY <1>12
      <4>3. c \in V[s + 1][1] .. V[s + 1][2] - 1
        BY <4>1, <4>2
      <4> QED
        BY <4>2, <4>3
    <3> QED
      BY <1>5, <3>1, <3>2
  <2> QED
    BY <1>1, <1>2, <1>4, <2>1, <2>2, <2>3
<1>11. ASSUME NEW x \in b .. L - 1, NEW y \in x + 1 .. L, IsWordIn(tags, x, y)
       PROVE  \E s \in 1 .. Len(V) : V[s] = << x, y >>
  <2>1. /\ tags[x] = "B" /\ ~sentence.space[x] /\ (y = L \/ tags[y] = "B")
        /\ \A c \in x + 1 .. y - 1 : tags[c] # "B"
    BY <1>11 DEF IsWordIn, L
  <2>2. CASE x = b
    <3>1. e <= y
      BY <1>1, <1>2, <2>1, <2>2
    <3>2. ~(e < y)
      <4> SUFFICES ASSUME e < y PROVE FALSE
        OBVIOUS
      <4>1. e \in x + 1 .. y - 1 /\ e # L
        BY <1>1, <1>2, <2>2
      <4> QED
        BY <1>2, <2>1, <4>1
    <3>3. e = y
      BY <1>1, <1>2, <3>1, <3>2
    <3> QED
      BY <1>6, <1>7, <2>2, <3>3
  <2>3. CASE x # b
    <3>1. x \in b + 1 .. L
      BY <1>1, <2>3
    <3>2. e <= x
      BY <1>2, <2>1, <3>1
    <3>3. ~(x < r)
      BY <1>1, <1>2, <1>4, <2>1, <3>1, <3>2
    <3>4. x \in r .. L - 1
      BY <1>1, <1>4, <3>1, <3>3
    <3>5. PICK s \in 1 .. Len(W) : W[s] = << x, y >>
      BY <1>5, <1>11, <3>4
    <3>6. s + 1 \in 1 .. Len(V) /\ V[s + 1] = W[s]
      BY <1>12
    <3> QED
      BY <3>5, <3>6
  <2> QED
    BY <2>2, <2>3
<1> QED
  BY <1>7, <1>9, <1>10, <1>11 DEF GoodWords, L, V, e

(* combinePOCToWord cuts the whole sentence. *)
LEMMA CombineIsGood ==
  ASSUME IsSentence(sentence), NEW tags
  PROVE  GoodWords(combinePOCToWord(tags), tags, 0)
<1> DEFINE L == sentence.len
           from == CHOOSE f : f = [b \in 0 .. L |-> WordsFrom(f, tags, b)]
           Bad == { d \in 0 .. L : /\ L - d = L \/ ~sentence.space[L - d]
                                   /\ ~GoodWords(from[L - d], tags, L - d) }
<1>1. L \in Nat /\ 0 \in 0 .. L
  BY DEF IsSentence
<1>2. combinePOCToWord(tags) = from[SkipSpaces(0)]
  BY DEF combinePOCToWord, WordsFrom, WordEnd
<1>3. from = [b \in 0 .. L |-> WordsFrom(from, tags, b)]
  BY WordsExist
<1> HIDE DEF from
<1>4. \A b \in 0 .. L : from[b] = WordsFrom(from, tags, b)
  BY <1>3
<1>5. ASSUME Bad # {} PROVE FALSE
  <2>1. Bad \in SUBSET Nat
    BY <1>1
  <2>2. PICK d \in Bad : \A m \in Bad : d <= m
    <3> HIDE DEF Bad
    <3> QED
      BY <1>5, <2>1, ListAssumptions, P!LeastElement
  <2> DEFINE b == L - d
  <2>3. /\ d \in 0 .. L /\ d \in Int /\ b \in 0 .. L
        /\ b = L \/ ~sentence.space[b]
        /\ ~GoodWords(from[b], tags, b)
    <3>1. d \in Bad
      BY <2>2
    <3> QED
      BY <1>1, <3>1
  <2>4. CASE b = L
    <3>1. from[b] = << >>
      BY <1>4, <2>3, <2>4 DEF WordsFrom
    <3>2. \A c : c \notin b .. L - 1
      BY <1>1, <2>4
    <3>3. GoodWords(<< >>, tags, b)
      <4>1. 1 .. Len(<< >>) = {} /\ << >> \in Seq(Int \X Int)
        OBVIOUS
      <4> QED
        BY <3>2, <4>1 DEF GoodWords
    <3> QED
      BY <2>3, <3>1, <3>3
  <2>5. CASE b # L
    <3> DEFINE r == SkipSpaces(WordEnd(tags, b))
    <3>1. b \in 0 .. L - 1 /\ ~sentence.space[b]
      BY <1>1, <2>3, <2>5
    <3>2. WordEnd(tags, b) \in b + 1 .. L
      BY <3>1, WordEndIs
    <3>3. WordEnd(tags, b) \in 0 .. L
      BY <1>1, <3>1, <3>2
    <3>4. r \in WordEnd(tags, b) .. L /\ (r = L \/ ~sentence.space[r])
      BY <3>3, SkipSpacesIs
    <3>5. L - r \in 0 .. L /\ L - r < d /\ L - (L - r) = r
      BY <1>1, <2>3, <3>1, <3>2, <3>4
    <3>6. L - r \notin Bad
      BY <2>2, <3>5, <2>3
    <3>7. GoodWords(from[r], tags, r)
      <4> HIDE DEF r
      <4> QED
        BY <3>4, <3>5, <3>6
    <3>8. GoodWords(<< << b, WordEnd(tags, b) >> >> \o from[r], tags, b)
      BY <3>1, <3>7, OneMoreWord
    <3>9. from[b] = << << b, WordEnd(tags, b) >> >> \o from[r]
      <4> HIDE DEF b
      <4> QED
        BY <1>4, <2>3, <2>5 DEF WordsFrom
    <3> QED
      BY <2>3, <3>8, <3>9
  <2> QED
    BY <2>4, <2>5
<1> DEFINE b == SkipSpaces(0)
<1>6. /\ b \in 0 .. L /\ (b = L \/ ~sentence.space[b])
      /\ \A p \in 0 .. L - 1 : p < b => sentence.space[p]
  BY <1>1, SkipSpacesIs
<1>7. GoodWords(from[b], tags, b)
  <2>1. L - b \in 0 .. L /\ L - (L - b) = b
    BY <1>1, <1>6
  <2>2. L - b \notin Bad
    BY <1>5
  <2> HIDE DEF b
  <2> QED
    BY <1>6, <2>1, <2>2
<1> DEFINE W == from[b]
<1>8. GoodWords(W, tags, 0)
  <2>1. b \in Int /\ b >= 0
    BY <1>1, <1>6
  <2> HIDE DEF b, W
  <2>2. W \in Seq(Int \X Int)
    BY <1>7 DEF GoodWords, W
  <2>3. ASSUME NEW s \in 1 .. Len(W)
        PROVE  /\ W[s][1] \in 0 .. L - 1 /\ W[s][2] \in 0 .. L
               /\ W[s][1] < W[s][2] /\ ~sentence.space[W[s][1]]
               /\ s > 1 => W[s - 1][2] <= W[s][1]
    <3>1. /\ W[s][1] \in b .. L - 1 /\ W[s][2] \in b .. L
          /\ W[s][1] < W[s][2] /\ ~sentence.space[W[s][1]]
          /\ s > 1 => W[s - 1][2] <= W[s][1]
      BY <1>7 DEF GoodWords, W
    <3> QED
      BY <1>1, <2>1, <3>1
  <2>4. ASSUME NEW c \in 0 .. L - 1
        PROVE  sentence.space[c] \/ \E s \in 1 .. Len(W) : c \in W[s][1] .. W[s][2] - 1
    <3>1. CASE c < b
      BY <1>6, <3>1
    <3>2. CASE ~(c < b)
      <4>1. c \in b .. L - 1
        BY <1>1, <2>1, <3>2
      <4> QED
        BY <1>7, <4>1 DEF GoodWords, W
    <3> QED
      BY <3>1, <3>2
  <2>5. ASSUME NEW x \in 0 .. L - 1, NEW y \in x + 1 .. L, IsWordIn(tags, x, y)
        PROVE  \E s \in 1 .. Len(W) : W[s] = << x, y >>
    <3>1. ~sentence.space[x]
      BY <2>5 DEF IsWordIn
    <3>2. ~(x < b)
      BY <1>6, <3>1
    <3>3. x \in b .. L - 1
      BY <1>1, <2>1, <3>2
    <3> QED
      BY <1>7, <2>5, <3>3 DEF GoodWords, W
  <2> QED
    BY <2>2, <2>3, <2>4, <2>5 DEF GoodWords
<1> QED
  BY <1>2, <1>8
-----------------------------------------------------------------------------
(* The inductive invariant. *)

(* The words found are apart and behind what preProcess still has to read. *)
FoundApart ==
  /\ sentence \in Sentences
  /\ \A w \in found : /\ w \in Chars \X (0 .. sentence.len)
                      /\ w[1] + 1 < w[2] /\ w[2] <= start
                      /\ sentence.match[w[1]] = w[2]
  /\ \A v, w \in found : v = w \/ v[2] <= w[1] \/ w[2] <= v[1]

(* What preProcess leaves at a character. *)
Base(c) == IF PreTagged(c) THEN PreTag(c) ELSE "INIT"

(* Every row keeps the tags of preProcess, and waits from i on. *)
RowsAgree ==
  /\ phase = "pre" => i = 0 /\ \A c \in Chars : rows[1][0][c] = Base(c)
  /\ phase # "pre" => \A a \in {1, 2}, k \in Rows, c \in Chars :
       /\ PreTagged(c) => rows[a][k][c] = PreTag(c)
       /\ c >= i => rows[a][k][c] = Base(c)

(***************************************************************************)
(* While a character is tagged, which preProcess left, the list is one     *)
(* that insertions made.                                                   *)
(***************************************************************************)
ListMade ==
  /\ phase = "tag" => /\ P!IInv
                      /\ ~PreTagged(i)
                      /\ i < sentence.len /\ outcomes \subseteq DOMAIN sentence.weight[i]
  /\ phase # "tag" => ~walking

(* The words of result k are those of row k - 1. *)
SegmentsMade ==
  /\ phase \notin { "combine", "done" } => segment = << >>
  /\ segment \in Seq(Seq(Int \X Int))
  /\ Len(segment) <= h0Size
  /\ \A k \in 1 .. Len(segment) : segment[k] = combinePOCToWord(rows[h0][k - 1])

IInv == TypeOK /\ FoundApart /\ RowsAgree /\ ListMade /\ SegmentsMade
-----------------------------------------------------------------------------
LEMMA Sizes ==
  ASSUME IsSentence(sentence)
  PROVE  /\ N \in Nat /\ N >= 1 /\ 0 \in Rows
         /\ sentence.len \in Nat /\ sentence.len >= 1 /\ 0 \in Chars
BY SizeAssumption DEF IsSentence, Rows, Chars

LEMMA ListTypes == (List!TypeOK <=> P!TypeOK) /\ (List!TypeOK' <=> P!TypeOK')
BY DEF List!TypeOK, P!TypeOK, List!Slots, P!Slots

LEMMA InitIInv == Init => IInv
<1> SUFFICES ASSUME Init PROVE IInv
  OBVIOUS
<1>1. IsSentence(sentence)
  BY SentencesAssumption DEF Init
<1>2. /\ N \in Nat /\ N >= 1 /\ 0 \in Rows
      /\ sentence.len \in Nat /\ sentence.len >= 1 /\ 0 \in Chars
  BY <1>1, Sizes
<1>3. TypeOK
  <2>1. rows \in [{1, 2} -> [Rows -> [Chars -> Tag \cup { "INIT" }]]]
    BY DEF Init, Tag
  <2>2. List!TypeOK
    <3>1. /\ unit = [k \in 0 .. N - 1 |-> AnyCandidate] /\ previous = [k \in 0 .. N - 1 |-> -1]
          /\ lastIndex = -1 /\ canSize = 0 /\ walking = FALSE /\ given = AnyCandidate
          /\ lIndex = -1 /\ cIndex = -1
      BY DEF Init, List!Init, List!NoSearch, List!Slots
    <3>2. unit \in [0 .. N - 1 -> Candidate] /\ previous \in [0 .. N - 1 -> 0 .. N - 1 \cup { -1 }]
      BY <3>1, ListAssumptions
    <3>3. canSize \in 0 .. N
      BY <1>2, <3>1
    <3>4. walking \in BOOLEAN
      BY <3>1, Zenon
    <3>5. given \in Candidate
      BY <3>1, ListAssumptions, Zenon
    <3> QED
      BY <3>1, <3>2, <3>3, <3>4, <3>5, Zenon DEF List!TypeOK, List!Slots
  <2> QED
    BY <1>1, <1>2, <2>1, <2>2 DEF Init, TypeOK, Tag
<1>4. FoundApart
  BY DEF Init, FoundApart
<1>5. RowsAgree
  <2>1. \A c \in Chars : rows[1][0][c] = IF c = 0 THEN "B" ELSE "INIT"
    BY <1>2 DEF Init
  <2>2. \A c : Base(c) = IF c = 0 THEN "B" ELSE "INIT"
    BY DEF Init, Base, PreTagged, PreTag
  <2> QED
    BY <2>1, <2>2 DEF Init, RowsAgree
<1>6. ListMade
  BY DEF Init, ListMade, List!Init, List!NoSearch
<1>7. SegmentsMade
  BY DEF Init, SegmentsMade
<1> QED
  BY <1>3, <1>4, <1>5, <1>6, <1>7 DEF IInv

(* A step behind preProcess that leaves the rows alone. *)
LEMMA SameRows ==
  ASSUME IInv, UNCHANGED << sentence, preVars, rows >>, phase # "pre", phase' # "pre",
         i' \in Nat, i' >= i
  PROVE  FoundApart' /\ RowsAgree'
<1>1. i \in Nat /\ Chars \subseteq Nat
  BY DEF IInv, TypeOK, Chars
<1>2. Chars' = Chars /\ \A c : PreTagged(c)' = PreTagged(c) /\ PreTag(c)' = PreTag(c)
  BY DEF Chars, PreTagged, PreTag, preVars
<1>3. \A c : Base(c)' = Base(c)
  BY <1>2 DEF Base
<1>4. FoundApart'
  BY <1>2 DEF IInv, FoundApart, preVars
<1>5. RowsAgree'
  BY <1>1, <1>2, <1>3 DEF IInv, RowsAgree
<1> QED
  BY <1>4, <1>5

(* No result is cut before all characters are tagged. *)
LEMMA NoSegments ==
  ASSUME IInv, phase \notin { "combine", "done" }, UNCHANGED << sentence, segment >>, h0Size' \in Nat
  PROVE  SegmentsMade'
BY DEF IInv, SegmentsMade

(* A step of preProcess. *)
LEMMA PreStep ==
  ASSUME IInv, preProcess
  PROVE  IInv'
<1>1. /\ phase = "pre" /\ start < sentence.len
      /\ IF LongWord(start)
           THEN /\ rows' = [rows EXCEPT ![1][0] = PreTags(start, sentence.match[start])]
                /\ start' = sentence.match[start]
                /\ found' = found \cup { << start, sentence.match[start] >> }
                /\ past' = (past \/ sentence.match[start] = sentence.len)
           ELSE start' = start + 1 /\ UNCHANGED << rows, found, past >>
      /\ UNCHANGED << sentence, phase, h0, scores, h0Size, i, j, outcomes, segment, listVars >>
  BY DEF preProcess
<1>2. /\ TypeOK /\ FoundApart /\ RowsAgree /\ ListMade /\ SegmentsMade
      /\ IsSentence(sentence)
  BY DEF IInv, TypeOK
<1>3. /\ N \in Nat /\ N >= 1 /\ 0 \in Rows
      /\ sentence.len \in Nat /\ sentence.len >= 1 /\ 0 \in Chars
      /\ start \in Nat /\ Chars' = Chars /\ start \in Chars
  BY <1>1, <1>2, Sizes DEF TypeOK, Chars
<1>4. List!TypeOK' /\ ListMade'
  BY <1>1, <1>2 DEF TypeOK, ListMade, listVars, List!TypeOK
<1>5. SegmentsMade'
  BY <1>1, NoSegments DEF IInv, TypeOK
<1>6. CASE ~LongWord(start)
  <2>1. start' \in 0 .. sentence.len /\ start' >= start
    BY <1>1, <1>3, <1>6
  <2>2. UNCHANGED << rows, found, past >>
    BY <1>1, <1>6
  <2>3. TypeOK'
    BY <1>1, <1>2, <1>3, <1>4, <2>1, <2>2 DEF TypeOK
  <2>4. FoundApart'
    <3> SUFFICES ASSUME NEW w \in found PROVE w[2] <= start'
      BY <1>1, <1>2, <1>3, <2>2 DEF FoundApart
    <3>1. w[2] \in 0 .. sentence.len /\ w[2] <= start
      BY <1>2 DEF FoundApart
    <3> QED
      BY <1>3, <2>1, <3>1
  <2>5. RowsAgree'
    BY <1>1, <1>2, <1>3, <2>2 DEF RowsAgree, Base, PreTagged, PreTag
  <2> QED
    BY <1>4, <1>5, <2>3, <2>4, <2>5 DEF IInv
<1>7. CASE LongWord(start)
  <2> DEFINE e == sentence.match[start]
             word == << start, e >>
  <2>1. e \in 0 .. sentence.len /\ e - start >= 2 /\ e >= start + 2
    <3>1. sentence.match[start] \in 0 .. sentence.len
      BY <1>2, <1>3 DEF IsSentence, Chars
    <3>2. sentence.match[start] - start >= MinPreWordLen /\ MinPreWordLen >= 2 /\ MinPreWordLen \in Nat
      BY <1>7, SizeAssumption DEF LongWord
    <3> QED
      BY <1>3, <3>1, <3>2
  <2> HIDE DEF e
  <2>2. /\ rows' = [rows EXCEPT ![1][0] = PreTags(start, e)]
        /\ start' = e /\ found' = found \cup { word }
        /\ past' = (past \/ e = sentence.len)
    BY <1>1, <1>7 DEF e
  <2>3. \A w \in found : w \in Chars \X (0 .. sentence.len) /\ w[1] + 1 < w[2] /\ w[2] <= start
    BY <1>2 DEF FoundApart
  <2>4. FoundApart'
    <3>1. word \in Chars \X (0 .. sentence.len) /\ word[1] + 1 < word[2] /\ word[2] <= start'
          /\ sentence.match[word[1]] = word[2]
      BY <1>3, <2>1, <2>2 DEF e
    <3>2. \A w \in found : w[2] \in Int /\ w[2] <= start' /\ w[2] <= word[1]
      BY <1>3, <2>1, <2>2, <2>3
    <3> HIDE DEF word
    <3>3. ASSUME NEW w \in found'
          PROVE  /\ w \in Chars \X (0 .. sentence.len) /\ w[1] + 1 < w[2] /\ w[2] <= start'
                 /\ sentence.match[w[1]] = w[2]
      BY <1>2, <2>2, <3>1, <3>2 DEF FoundApart
    <3>4. ASSUME NEW v \in found', NEW w \in found'
          PROVE  v = w \/ v[2] <= w[1] \/ w[2] <= v[1]
      BY <1>2, <2>2, <3>2 DEF FoundApart
    <3> QED
      BY <1>1, <1>2, <1>3, <3>3, <3>4 DEF FoundApart
  <2>5. PreTags(start, e) \in [Chars -> Tag \cup { "INIT" }]
    <3>1. rows[1][0] \in [Chars -> Tag \cup { "INIT" }]
      BY <1>2, <1>3 DEF TypeOK
    <3> QED
      BY <3>1 DEF PreTags, Tag
  <2>6. rows' \in [{1, 2} -> [Rows -> [Chars -> Tag \cup { "INIT" }]]]
        /\ rows'[1][0] = PreTags(start, e)
    BY <1>2, <1>3, <2>2, <2>5 DEF TypeOK
  <2>7. TypeOK'
    <3>1. past' = (\E w \in found' : w[2] = sentence'.len)
      <4>1. past = (\E w \in found : w[2] = sentence.len) /\ word[2] = e /\ sentence' = sentence
        BY <1>1, <1>2 DEF TypeOK
      <4> HIDE DEF word
      <4> QED
        BY <2>2, <4>1, Zenon
    <3> QED
      BY <1>1, <1>2, <1>3, <1>4, <2>1, <2>2, <2>6, <3>1 DEF TypeOK
  <2>8. ASSUME NEW c \in Chars PROVE PreTags(start, e)[c] = Base(c)'
    <3>1. c \in Nat /\ rows[1][0][c] = Base(c)
      BY <1>1, <1>2 DEF Chars, RowsAgree
    <3>0. word[1] = start /\ word[2] = e
      OBVIOUS
    <3> HIDE DEF word
    <3>2. PreTagged(c)' <=> PreTagged(c) \/ c \in start .. e
      <4>1. PreTagged(c)' <=> c = 0 \/ \E w \in found \cup { word } : c \in w[1] .. w[2]
        BY <2>2 DEF PreTagged
      <4> QED
        BY <3>0, <4>1 DEF PreTagged
    <3>3. PreTag(c)' = IF c = 0 \/ c \in { start, e } \/ \E w \in found : c \in { w[1], w[2] }
                       THEN "B" ELSE "E"
      <4>1. PreTag(c)' = IF c = 0 \/ \E w \in found \cup { word } : c \in { w[1], w[2] }
                         THEN "B" ELSE "E"
        BY <2>2 DEF PreTag
      <4> QED
        BY <3>0, <4>1
    <3>4. PreTags(start, e)[c] = IF c \in { start, e } THEN "B"
                                 ELSE IF c \in start .. e - 1 THEN "E" ELSE Base(c)
      BY <3>1 DEF PreTags
    <3>5. CASE c \in { start, e }
      <4>1. c \in start .. e
        BY <1>3, <2>1, <3>5
      <4> QED
        BY <3>2, <3>3, <3>4, <3>5, <4>1 DEF Base
    <3>6. CASE c \notin { start, e } /\ c \in start .. e - 1
      <4>1. c > start /\ c # 0 /\ c \in start .. e
        BY <1>3, <2>1, <3>1, <3>6
      <4>2. \A w \in found : c \notin { w[1], w[2] }
        <5> SUFFICES ASSUME NEW w \in found PROVE c # w[1] /\ c # w[2]
          OBVIOUS
        <5>1. w[1] \in Int /\ w[2] \in Int /\ w[1] + 1 < w[2] /\ w[2] <= start
          BY <2>3 DEF Chars
        <5> QED
          BY <1>3, <3>1, <4>1, <5>1
      <4> QED
        BY <3>2, <3>3, <3>4, <3>6, <4>1, <4>2 DEF Base
    <3>7. CASE c \notin { start, e } /\ c \notin start .. e - 1
      <4>1. c \notin start .. e
        BY <1>3, <2>1, <3>1, <3>7
      <4>2. PreTag(c)' = PreTag(c)
        BY <3>3, <3>7 DEF PreTag
      <4> QED
        BY <3>2, <3>4, <3>7, <4>1, <4>2 DEF Base
    <3> QED
      BY <3>5, <3>6, <3>7
  <2>9. RowsAgree'
    BY <1>1, <1>2, <1>3, <2>6, <2>8 DEF RowsAgree
  <2> QED
    BY <1>4, <1>5, <2>4, <2>7, <2>9 DEF IInv
<1> QED
  BY <1>6, <1>7

(* Every row gets the tags of preProcess. *)
LEMMA CopyStep ==
  ASSUME IInv, CopyRows
  PROVE  IInv'
<1>1. /\ phase = "pre" /\ phase' = "char"
      /\ rows' = [a \in {1, 2} |-> [k \in Rows |-> rows[1][0]]]
      /\ UNCHANGED << sentence, preVars, h0, scores, h0Size, i, j, outcomes, segment, listVars >>
  BY DEF CopyRows
<1>2. /\ TypeOK /\ FoundApart /\ RowsAgree /\ ListMade /\ IsSentence(sentence)
  BY DEF IInv, TypeOK
<1>3. /\ 0 \in Rows /\ Chars' = Chars
  BY <1>1, <1>2, Sizes DEF Chars
<1>4. List!TypeOK' /\ ListMade'
  BY <1>1, <1>2 DEF TypeOK, ListMade, listVars, List!TypeOK
<1>5. TypeOK'
  BY <1>1, <1>2, <1>3, <1>4 DEF TypeOK, preVars
<1>6. \A c : PreTagged(c)' = PreTagged(c) /\ PreTag(c)' = PreTag(c) /\ Base(c)' = Base(c)
  BY <1>1 DEF PreTagged, PreTag, Base, preVars
<1>7. \A c \in Chars : rows[1][0][c] = Base(c)
  BY <1>1, <1>2 DEF RowsAgree
<1>8. RowsAgree'
  BY <1>1, <1>3, <1>6, <1>7 DEF RowsAgree, Base
<1>9. FoundApart'
  BY <1>1, <1>2, <1>3 DEF FoundApart, preVars
<1> QED
  BY <1>1, <1>4, <1>5, <1>8, <1>9, NoSegments DEF IInv, TypeOK

LEMMA SkipStep ==
  ASSUME IInv, SkipChar
  PROVE  IInv'
<1>1. /\ phase = "char" /\ i < sentence.len /\ i' = i + 1
      /\ UNCHANGED << sentence, phase, preVars, hypVars, j, outcomes, segment, listVars >>
  BY DEF SkipChar
<1>2. TypeOK /\ ListMade /\ sentence.len \in Nat /\ i \in Nat
  BY DEF IInv, TypeOK, IsSentence
<1>3. TypeOK'
  <2>1. List!TypeOK'
    BY <1>1, <1>2 DEF TypeOK, listVars, List!TypeOK
  <2> QED
    BY <1>1, <1>2, <2>1 DEF TypeOK, preVars, hypVars, Chars
<1>4. FoundApart' /\ RowsAgree'
  BY <1>1, <1>2, SameRows DEF hypVars
<1>5. ListMade'
  BY <1>1, <1>2 DEF ListMade, listVars
<1> QED
  BY <1>1, <1>2, <1>3, <1>4, <1>5, NoSegments DEF IInv, TypeOK, hypVars

(* The list is emptied: what it was does not matter. *)
LEMMA StartCharStep ==
  ASSUME IInv, StartChar
  PROVE  IInv'
<1>1. /\ phase = "char" /\ phase' = "tag" /\ i < sentence.len /\ List!Reset
      /\ j' = 0 /\ outcomes' = DOMAIN sentence.weight[i]
      /\ UNCHANGED << sentence, preVars, hypVars, i, segment >>
  BY DEF StartChar
<1>2. /\ TypeOK /\ IsSentence(sentence) /\ i \in Nat
      /\ i \in 0 .. sentence.len - 1 /\ 0 \in Rows
  BY <1>1, Sizes DEF IInv, TypeOK
<1>3. P!IInv'
  <2>1. P!TypeOK
    BY <1>2, ListTypes DEF TypeOK
  <2>2. P!Reset
    BY <1>1 DEF List!Reset, P!Reset, List!array, P!array, List!search, P!search
  <2> QED
    BY <2>1, <2>2, ListAssumptions, P!ResetIInv
<1>4. List!TypeOK'
  BY <1>3, ListTypes DEF P!IInv
<1>5. outcomes' \subseteq Tag
  BY <1>1, <1>2 DEF IsSentence
<1>6. TypeOK'
  BY <1>1, <1>2, <1>4, <1>5 DEF TypeOK, preVars, hypVars, Chars
<1>7. FoundApart' /\ RowsAgree'
  BY <1>1, <1>2, SameRows DEF hypVars
<1>8. ListMade'
  <2>1. rows[1][0][i] = "INIT" /\ rows[1][0][i] = Base(i) /\ PreTag(i) # "INIT"
    BY <1>1, <1>2 DEF StartChar, IInv, RowsAgree, Chars, PreTag
  <2>2. ~PreTagged(i)'
    BY <1>1, <2>1 DEF Base, PreTagged, preVars
  <2> QED
    BY <1>1, <1>3, <2>2 DEF ListMade
<1> QED
  BY <1>1, <1>2, <1>6, <1>7, <1>8, NoSegments DEF IInv, TypeOK, hypVars

(* A step of the insertion of a candidate, or none. *)
LEMMA ListStep ==
  ASSUME IInv, phase = "tag", phase' = "tag", P!Next \/ UNCHANGED listVars,
         outcomes' \subseteq DOMAIN sentence.weight[i], j' \in Rows,
         UNCHANGED << sentence, preVars, hypVars, i, segment >>
  PROVE  IInv'
<1>0. /\ TypeOK /\ ListMade /\ IsSentence(sentence) /\ i \in 0 .. sentence.len /\ i < sentence.len
  BY DEF IInv, TypeOK, ListMade
<1>1. i \in 0 .. sentence.len - 1 /\ i \in Nat
  BY <1>0 DEF IsSentence
<1>2. P!IInv'
  <2>1. [P!Next]_(P!vars)
    BY DEF P!vars, P!array, P!search, listVars
  <2> QED
    BY <1>0, <2>1, ListAssumptions, P!NextIInv DEF ListMade
<1>3. List!TypeOK'
  BY <1>2, ListTypes DEF P!IInv
<1>4. outcomes' \subseteq Tag
  BY <1>0, <1>1 DEF IsSentence
<1>5. TypeOK'
  BY <1>0, <1>3, <1>4 DEF TypeOK, preVars, hypVars, Chars
<1>6. FoundApart' /\ RowsAgree'
  BY <1>0, <1>1, SameRows DEF hypVars
<1>7. ListMade'
  BY <1>0, <1>2 DEF ListMade, PreTagged, preVars
<1> QED
  BY <1>0, <1>5, <1>6, <1>7, NoSegments DEF IInv, TypeOK, hypVars

LEMMA TagStep ==
  ASSUME IInv, tag_word \/ Insertion \/ NextHypothesis
  PROVE  IInv'
<1>1. CASE tag_word
  <2>1. PICK t \in outcomes : /\ outcomes' = outcomes \ { t }
                              /\ UNCHANGED listVars \/ List!insertCandidate(Extend(t))
    BY <1>1 DEF tag_word
  <2>2. /\ phase = "tag" /\ phase' = "tag"
        /\ UNCHANGED << sentence, preVars, hypVars, i, j, segment >>
    BY <1>1 DEF tag_word
  <2>3. Extend(t) \in Candidate
    <3>0. /\ IsSentence(sentence) /\ i \in 0 .. sentence.len /\ i < sentence.len
          /\ t \in DOMAIN sentence.weight[i] /\ scores \in [0 .. N - 1 -> Nat] /\ j \in 0 .. N - 1
      BY <2>2 DEF IInv, TypeOK, ListMade, Rows
    <3>1. i \in 0 .. sentence.len - 1 /\ scores[j] \in Nat
      BY <3>0 DEF IsSentence
    <3>2. sentence.weight[i][t] \in Nat /\ t \in Tag
      BY <3>0, <3>1 DEF IsSentence
    <3>3. sentence.weight[i][t] * scores[j] \in Nat
      BY <3>1, <3>2
    <3> QED
      BY <3>0, <3>2, <3>3 DEF Extend, Candidate
  <2>4. List!insertCandidate(Extend(t)) => P!Next
    <3> SUFFICES ASSUME List!insertCandidate(Extend(t)) PROVE P!insertCandidate(Extend(t))
      BY <2>3 DEF P!Next
    <3> QED
      BY DEF List!insertCandidate, P!insertCandidate, List!Full, P!Full, List!InsertHead,
             P!InsertHead, List!InsertLast, P!InsertLast, List!StartWalk, P!StartWalk,
             List!IsHead, P!IsHead, List!Put, P!Put, List!search, P!search, List!array, P!array
  <2> QED
    BY <2>1, <2>2, <2>4, ListStep DEF IInv, ListMade, TypeOK
<1>2. CASE Insertion
  <2>1. List!Walk => P!Walk
    BY DEF List!Walk, P!Walk, List!Worse, P!Worse, List!array, P!array
  <2>2. List!Place => P!Place
    BY DEF List!Place, P!Place, List!Worse, P!Worse, List!Slots, P!Slots
  <2>3. P!Next
    BY <1>2, <2>1, <2>2 DEF Insertion, P!Next
  <2> QED
    BY <1>2, <2>3, ListStep DEF Insertion, IInv, ListMade, TypeOK
<1>3. CASE NextHypothesis
  <2>1. j' \in Rows
    BY <1>3, Sizes DEF NextHypothesis, IInv, TypeOK, Rows
  <2> QED
    BY <1>3, <2>1, ListStep DEF NextHypothesis, Tagged
<1> QED
  BY <1>1, <1>2, <1>3

(* The candidates become the rows of the other array. *)
LEMMA GenerateStep ==
  ASSUME IInv, GenerateNBest
  PROVE  IInv'
<1>1. /\ phase = "tag" /\ phase' = "char" /\ ~walking
      /\ rows' = [rows EXCEPT ![h1] = [k \in Rows |-> IF k < canSize THEN NewRow(k) ELSE @[k]]]
      /\ scores' = [k \in Rows |-> IF k < canSize THEN Chosen(k).score ELSE scores[k]]
      /\ h0' = h1 /\ h0Size' = canSize /\ lastIndex' = -1 /\ i' = i + 1
      /\ UNCHANGED << sentence, preVars, j, outcomes, segment,
                      unit, previous, canSize, walking, given, lIndex, cIndex >>
  BY DEF GenerateNBest, Tagged
<1>2. /\ TypeOK /\ FoundApart /\ RowsAgree /\ ListMade /\ IsSentence(sentence)
      /\ P!IInv /\ ~PreTagged(i) /\ i \in Nat /\ i < sentence.len /\ Chars' = Chars /\ Chars \subseteq Nat
  BY <1>1 DEF IInv, TypeOK, ListMade, Chars
<1>3. h0 \in {1, 2} /\ h1 \in {1, 2} /\ h1 # h0 /\ i' \in 0 .. sentence.len
  BY <1>1, <1>2 DEF TypeOK, h1, IsSentence
<1>4. ASSUME NEW k \in Rows, k < canSize
      PROVE  Chosen(k) \in Candidate
  <2>1. k \in Int /\ canSize \in Nat /\ k + 1 \in 1 .. canSize
    BY <1>2, <1>4, SizeAssumption DEF Rows, TypeOK, List!TypeOK
  <2>2. P!chain[k + 1] \in P!Slots
    BY <1>2, <2>1, ListAssumptions, P!Places
  <2>3. List!chain = P!chain
    BY DEF List!chain, P!chain
  <2>4. unit \in [P!Slots -> Candidate]
    BY <1>2 DEF P!IInv, P!TypeOK
  <2> QED
    BY <2>2, <2>3, <2>4 DEF Chosen
<1>5. ASSUME NEW k \in Rows, k < canSize
      PROVE  /\ Chosen(k).score \in Nat /\ Chosen(k).index \in Rows /\ Chosen(k).pocCode \in Tag
             /\ NewRow(k) = [c \in Chars |-> IF c < i THEN rows[h0][Chosen(k).index][c]
                                             ELSE IF c = i THEN Chosen(k).pocCode ELSE rows[h1][k][c]]
  BY <1>4, <1>5 DEF Candidate, Rows, NewRow
<1>6. rows \in [{1, 2} -> [Rows -> [Chars -> Tag \cup { "INIT" }]]]
  BY <1>2 DEF TypeOK
<1>7. ASSUME NEW a \in {1, 2}, NEW k \in Rows
      PROVE  rows'[a][k] = IF a = h1 /\ k < canSize THEN NewRow(k) ELSE rows[a][k]
  BY <1>1, <1>3, <1>6
<1>8. ASSUME NEW k \in Rows, k < canSize
      PROVE  NewRow(k) \in [Chars -> Tag \cup { "INIT" }]
  <2> SUFFICES ASSUME NEW c \in Chars
               PROVE  (IF c < i THEN rows[h0][Chosen(k).index][c]
                       ELSE IF c = i THEN Chosen(k).pocCode ELSE rows[h1][k][c]) \in Tag \cup { "INIT" }
    BY <1>5, <1>8
  <2> QED
    BY <1>3, <1>5, <1>6, <1>8
<1>9. rows' \in [{1, 2} -> [Rows -> [Chars -> Tag \cup { "INIT" }]]]
  <2>1. [k \in Rows |-> IF k < canSize THEN NewRow(k) ELSE rows[h1][k]]
          \in [Rows -> [Chars -> Tag \cup { "INIT" }]]
    BY <1>3, <1>6, <1>8
  <2> QED
    BY <1>1, <1>3, <1>6, <2>1
<1>10. scores' \in [Rows -> Nat]
  BY <1>1, <1>2, <1>5 DEF TypeOK
<1>11. List!TypeOK'
  BY <1>1, <1>2 DEF TypeOK, List!TypeOK, List!Slots
<1>12. TypeOK'
  BY <1>1, <1>2, <1>3, <1>9, <1>10, <1>11 DEF TypeOK, preVars, List!TypeOK
<1>13. \A c : PreTagged(c)' = PreTagged(c) /\ PreTag(c)' = PreTag(c) /\ Base(c)' = Base(c)
  BY <1>1 DEF PreTagged, PreTag, Base, preVars
<1>14. FoundApart'
  BY <1>1, <1>2 DEF FoundApart, preVars
<1>15. ASSUME NEW a \in {1, 2}, NEW k \in Rows, NEW c \in Chars
       PROVE  /\ PreTagged(c) => rows'[a][k][c] = PreTag(c)
              /\ c >= i + 1 => rows'[a][k][c] = Base(c)
  <2>1. \A b \in {1, 2}, m \in Rows : /\ PreTagged(c) => rows[b][m][c] = PreTag(c)
                                      /\ c >= i => rows[b][m][c] = Base(c)
    BY <1>1, <1>2 DEF RowsAgree
  <2>2. c \in Nat
    BY <1>2
  <2>3. CASE ~(a = h1 /\ k < canSize)
    BY <1>2, <1>7, <2>1, <2>2, <2>3
  <2>4. CASE a = h1 /\ k < canSize
    <3>1. rows'[a][k][c] = IF c < i THEN rows[h0][Chosen(k).index][c]
                           ELSE IF c = i THEN Chosen(k).pocCode ELSE rows[h1][k][c]
      BY <1>5, <1>7, <2>4
    <3>2. Chosen(k).index \in Rows
      BY <1>5, <2>4
    <3> QED
      BY <1>2, <1>3, <2>1, <2>2, <3>1, <3>2
  <2> QED
    BY <2>3, <2>4
<1>16. RowsAgree'
  BY <1>1, <1>2, <1>13, <1>15 DEF RowsAgree
<1>17. ListMade'
  BY <1>1 DEF ListMade
<1>18. SegmentsMade'
  BY <1>1, <1>2, NoSegments DEF TypeOK, List!TypeOK
<1> QED
  BY <1>12, <1>14, <1>16, <1>17, <1>18 DEF IInv

LEMMA SameCombine ==
  ASSUME UNCHANGED << sentence, rows, h0 >>
  PROVE  \A k : combinePOCToWord(rows[h0][k])' = combinePOCToWord(rows[h0][k])
BY DEF combinePOCToWord, SkipSpaces

(* The results are cut out of rows that stay as they are. *)
LEMMA CombineStep ==
  ASSUME IInv, CombineRow
  PROVE  IInv'
<1>1. /\ phase = "combine" /\ Len(segment) < h0Size
      /\ segment' = Append(segment, combinePOCToWord(rows[h0][Len(segment)]))
      /\ UNCHANGED << sentence, phase, preVars, hypVars, i, j, outcomes, listVars >>
  BY DEF CombineRow
<1>2. /\ TypeOK /\ SegmentsMade /\ ListMade /\ IsSentence(sentence)
      /\ segment \in Seq(Seq(Int \X Int)) /\ Len(segment) \in Nat /\ i \in Nat
  BY DEF IInv, TypeOK, SegmentsMade
<1> DEFINE words == combinePOCToWord(rows[h0][Len(segment)])
<1>3. words \in Seq(Int \X Int)
  BY <1>2, CombineIsGood DEF GoodWords
<1>4. TypeOK'
  <2>1. List!TypeOK'
    BY <1>1, <1>2 DEF TypeOK, listVars, List!TypeOK
  <2> QED
    BY <1>1, <1>2, <2>1 DEF TypeOK, preVars, hypVars, Chars
<1>5. FoundApart' /\ RowsAgree'
  BY <1>1, <1>2, SameRows DEF hypVars
<1>6. ListMade'
  BY <1>1, <1>2 DEF ListMade, listVars
<1>7. SegmentsMade'
  <2> HIDE DEF words
  <2>1. /\ segment' = Append(segment, words) /\ segment' \in Seq(Seq(Int \X Int))
        /\ Len(segment') = Len(segment) + 1
    BY <1>1, <1>2, <1>3 DEF words
  <2>2. Len(segment') <= h0Size'
    BY <1>1, <1>2, <2>1 DEF hypVars, TypeOK
  <2>3. ASSUME NEW k \in 1 .. Len(segment')
        PROVE  segment'[k] = combinePOCToWord(rows[h0][k - 1])
    <3>1. CASE k = Len(segment')
      <4>1. segment'[k] = words /\ k - 1 = Len(segment)
        BY <1>2, <2>1, <3>1
      <4> QED
        BY <4>1 DEF words
    <3>2. CASE k # Len(segment')
      <4>1. k \in 1 .. Len(segment) /\ segment'[k] = segment[k]
        BY <1>2, <2>1, <3>2
      <4> QED
        BY <1>2, <4>1 DEF SegmentsMade
    <3> QED
      BY <3>1, <3>2
  <2>4. \A k : combinePOCToWord(rows[h0][k])' = combinePOCToWord(rows[h0][k])
    BY <1>1, SameCombine DEF hypVars
  <2> QED
    BY <1>1, <2>1, <2>2, <2>3, <2>4 DEF SegmentsMade
<1> QED
  BY <1>4, <1>5, <1>6, <1>7 DEF IInv

LEMMA EndStep ==
  ASSUME IInv, EndTagging \/ Return \/ UNCHANGED vars
  PROVE  IInv'
<1>1. /\ TypeOK /\ ListMade /\ SegmentsMade /\ IsSentence(sentence) /\ i \in Nat
  BY DEF IInv, TypeOK
<1>2. /\ UNCHANGED << sentence, preVars, rows, h0, scores, i, j, outcomes, segment, listVars >>
      /\ \/ phase = "char" /\ phase' = "combine" /\ h0Size' = Results
         \/ phase = "combine" /\ phase' = "done" /\ UNCHANGED h0Size
         \/ UNCHANGED << phase, h0Size >>
  BY DEF EndTagging, Return, vars, preVars, hypVars
<1>3. h0Size' \in 0 .. N
  BY <1>1, <1>2, SizeAssumption DEF Results, TypeOK
<1>4. TypeOK'
  <2>1. List!TypeOK'
    BY <1>1, <1>2 DEF TypeOK, listVars, List!TypeOK
  <2> QED
    BY <1>1, <1>2, <1>3, <2>1 DEF TypeOK, preVars, Chars
<1>5. FoundApart' /\ RowsAgree'
  <2>1. CASE phase # "pre"
    BY <1>1, <1>2, <2>1, SameRows
  <2>2. CASE phase = "pre"
    BY <1>2, <2>2 DEF IInv, FoundApart, RowsAgree, Base, PreTagged, PreTag, Chars, preVars
  <2> QED
    BY <2>1, <2>2
<1>6. ListMade'
  <2>1. CASE phase = "tag"
    <3>1. P!IInv'
      <4>1. [P!Next]_(P!vars)
        BY <1>2 DEF P!vars, P!array, P!search, listVars
      <4> QED
        BY <1>1, <2>1, <4>1, ListAssumptions, P!NextIInv DEF ListMade
    <3> QED
      BY <1>1, <1>2, <2>1, <3>1 DEF ListMade, PreTagged, preVars
  <2>2. CASE phase # "tag"
    BY <1>1, <1>2, <2>2 DEF ListMade, listVars
  <2> QED
    BY <2>1, <2>2
<1>7. SegmentsMade'
  <2>1. \A k : combinePOCToWord(rows[h0][k])' = combinePOCToWord(rows[h0][k])
    BY <1>2, SameCombine
  <2>2. CASE phase = "char" /\ phase' = "combine"
    BY <1>1, <1>2, <1>3, <2>2 DEF SegmentsMade
  <2>3. CASE UNCHANGED h0Size
    BY <1>1, <1>2, <2>1, <2>3 DEF SegmentsMade
  <2> QED
    BY <1>2, <2>2, <2>3
<1> QED
  BY <1>4, <1>5, <1>6, <1>7 DEF IInv

(* IInv holds in every state. *)
LEMMA Invariance == Spec => []IInv
<1>1. IInv /\ [Next]_vars => IInv'
  BY PreStep, CopyStep, SkipStep, StartCharStep, TagStep, GenerateStep, CombineStep, EndStep DEF Next
<1> QED
  BY <1>1, InitIInv, PTL DEF Spec
-----------------------------------------------------------------------------
(***************************************************************************)
(* Every index into candidates, the two arrays, the scores and the         *)
(* sentence lies within them: seg_sentence checks none.                    *)
(***************************************************************************)
THEOREM TypeCorrect == Spec => []TypeOK
<1>1. IInv => TypeOK
  BY DEF IInv
<1> QED
  BY <1>1, Invariance, PTL

(***************************************************************************)
(* Whatever tags the model and the dictionary give, each result cuts the   *)
(* sentence without loss: combinePOCToWord leaves out spaces only.         *)
(***************************************************************************)
THEOREM ResultsCover == Spec => []SegmentsCover
<1>1. ASSUME IInv PROVE SegmentsCover
  <2> SUFFICES ASSUME NEW k \in 1 .. Len(segment)
      PROVE  LET words == segment[k] IN
             /\ \A s \in 1 .. Len(words) : /\ words[s][1] < words[s][2]
                                           /\ ~sentence.space[words[s][1]]
                                           /\ s > 1 => words[s - 1][2] <= words[s][1]
             /\ \A c \in Chars : \/ sentence.space[c]
                                 \/ \E s \in 1 .. Len(words) : c \in words[s][1] .. words[s][2] - 1
    BY DEF SegmentsCover
  <2>1. GoodWords(segment[k], rows[h0][k - 1], 0)
    BY <1>1, CombineIsGood DEF IInv, TypeOK, SegmentsMade
  <2> QED
    BY <2>1 DEF GoodWords, Chars
<1> QED
  BY <1>1, Invariance, PTL

(***************************************************************************)
(* The words of the dictionary begin with no space: their lines are cut at *)
(* spaces.                                                                 *)
(***************************************************************************)
WordsBeginVisibly ==
  \A s \in Sentences : \A c \in 0 .. s.len - 1 : s.match[c] # 0 => ~s.space[c]

(***************************************************************************)
(* A word preProcess found is one word of every result.  The tags it wrote *)
(* before the analysis survive every copy between the two arrays.          *)
(***************************************************************************)
THEOREM FoundWordsStayWhole ==
  ASSUME WordsBeginVisibly
  PROVE  Spec => []WordsStayWhole
<1>1. ASSUME IInv PROVE WordsStayWhole
  <2>1. /\ TypeOK /\ FoundApart /\ RowsAgree /\ SegmentsMade /\ IsSentence(sentence)
        /\ sentence.len \in Nat /\ N \in Nat
    BY <1>1, Sizes DEF IInv, TypeOK
  <2> SUFFICES ASSUME phase = "done", NEW k \in 1 .. Len(segment), NEW w \in found
               PROVE  \E s \in 1 .. Len(segment[k]) : segment[k][s] = w
    BY DEF WordsStayWhole
  <2>2. /\ w = << w[1], w[2] >> /\ w[1] \in Chars /\ w[2] \in 0 .. sentence.len
        /\ w[1] + 1 < w[2] /\ sentence.match[w[1]] = w[2]
    BY <2>1 DEF FoundApart
  <2>3. w[1] \in 0 .. sentence.len - 1 /\ w[2] \in w[1] + 1 .. sentence.len /\ w[1] \in Nat /\ w[2] \in Nat
    BY <2>1, <2>2 DEF Chars
  <2> DEFINE tags == rows[h0][k - 1]
  <2>4. \A c \in Chars : PreTagged(c) => tags[c] = PreTag(c)
    <3>1. k - 1 \in Rows /\ h0 \in {1, 2}
      BY <2>1 DEF TypeOK, SegmentsMade, Rows
    <3> QED
      BY <2>1, <3>1 DEF RowsAgree
  <2>5. ASSUME NEW c \in Chars, c \in { w[1], w[2] } PROVE tags[c] = "B"
    <3>1. c \in w[1] .. w[2]
      BY <2>3, <2>5
    <3> QED
      BY <2>4, <2>5, <3>1 DEF PreTagged, PreTag
  <2>6. ASSUME NEW c \in w[1] + 1 .. w[2] - 1 PROVE tags[c] # "B"
    <3>1. c \in Chars /\ c \in w[1] .. w[2] /\ c # 0 /\ c \in Int
      BY <2>1, <2>3, <2>6 DEF Chars
    <3>2. \A v \in found : c \notin { v[1], v[2] }
      <4> SUFFICES ASSUME NEW v \in found PROVE c # v[1] /\ c # v[2]
        OBVIOUS
      <4>1. v[1] \in Int /\ v[2] \in Int /\ v[1] < v[2]
            /\ (v = w \/ v[2] <= w[1] \/ w[2] <= v[1])
        BY <2>1 DEF FoundApart, Chars
      <4> QED
        BY <2>3, <2>6, <3>1, <4>1
    <3>3. PreTag(c) = "E"
      BY <3>1, <3>2 DEF PreTag
    <3>4. PreTagged(c)
      BY <3>1 DEF PreTagged
    <3> QED
      BY <2>4, <3>1, <3>3, <3>4
  <2>7. IsWordIn(tags, w[1], w[2])
    <3>1. ~sentence.space[w[1]]
      BY <2>1, <2>2, <2>3 DEF WordsBeginVisibly, FoundApart
    <3>2. w[2] = sentence.len \/ w[2] \in Chars
      BY <2>1, <2>3 DEF Chars
    <3> QED
      BY <2>2, <2>5, <2>6, <3>1, <3>2 DEF IsWordIn
  <2>8. GoodWords(segment[k], tags, 0)
    BY <2>1, CombineIsGood DEF SegmentsMade
  <2> QED
    BY <2>2, <2>3, <2>7, <2>8 DEF GoodWords
<1> QED
  BY <1>1, Invariance, PTL
-----------------------------------------------------------------------------
(***************************************************************************)
(* The beam is exact.  NBestExact speaks of the end only; what every       *)
(* character keeps is that the hypotheses are the N best, or all, of the   *)
(* ways to tag the characters before it.                                   *)
(***************************************************************************)

(* What the character c multiplies a score by when it is tagged x. *)
Factor(c, x) == IF PreTagged(c) THEN 1 ELSE sentence.weight[c][x]

(* Probability is the last of these products. *)
UpTo(t) ==
  LET upTo[c \in -1 .. sentence.len - 1] ==
        IF c = -1 THEN 1
        ELSE upTo[c - 1] * (IF PreTagged(c) THEN 1 ELSE sentence.weight[c][t[c]])
  IN upTo

Allowed(c, x) == IF PreTagged(c) THEN x = PreTag(c) ELSE x \in DOMAIN sentence.weight[c]

SameBefore(t, r, p) == \A c \in 0 .. p - 1 : t[c] = r[c]

(* The rows R[0], ..., R[n - 1] with scores S are the best up to p.        *)
BeamAt(R, S, n, p) ==
  /\ n \in 1 .. N
  /\ \A k \in 0 .. n - 1, c \in 0 .. p - 1 : Allowed(c, R[k][c])
  /\ \A k \in 0 .. n - 1 : S[k] = UpTo(R[k])[p - 1]
  /\ \A k, l \in 0 .. n - 1 : k # l => ~SameBefore(R[k], R[l], p)
  /\ \A k, l \in 0 .. n - 1 : k <= l => S[k] >= S[l]
  /\ \A t \in Taggings : \/ \E k \in 0 .. n - 1 : SameBefore(t, R[k], p)
                         \/ n = N /\ \A k \in 0 .. n - 1 : UpTo(t)[p - 1] <= S[k]

(* Only EndTagging cuts the number of hypotheses, to what is wanted. *)
Beam ==
  /\ phase = "pre" => i = 0 /\ h0Size = 1 /\ scores[0] = 1
  /\ phase \in { "char", "tag" } => BeamAt(rows[h0], scores, h0Size, i)
  /\ phase \in { "combine", "done" } =>
       \E n \in 1 .. N : /\ BeamAt(rows[h0], scores, n, sentence.len)
                         /\ h0Size = IF RetSize < n THEN RetSize ELSE n

(* What hypothesis k becomes with tag t, and which of these were offered. *)
Extension(S, p, k, t) == [score |-> sentence.weight[p][t] * S[k], index |-> k, pocCode |-> t]

Offered ==
  { x \in Candidate :
      \E k \in 0 .. h0Size - 1, t \in DOMAIN sentence.weight[i] :
        /\ x = Extension(scores, i, k, t)
        /\ k < j \/ (k = j /\ t \notin outcomes) }

(* The list holds the best of them; the one being inserted is still apart. *)
ListBest ==
  phase = "tag" => /\ j < h0Size
                   /\ walking => given \in Offered
                   /\ P!BestOf(IF walking THEN Offered \ { given } ELSE Offered)

BeamInv == Beam /\ ListBest
-----------------------------------------------------------------------------
(* Products along a row. *)

(* The recursion of Probability has a solution. *)
LEMMA ProductsExist ==
  ASSUME IsSentence(sentence), NEW t
  PROVE  \E f : f = [c \in -1 .. sentence.len - 1 |-> IF c = -1 THEN 1 ELSE f[c - 1] * Factor(c, t[c])]
<1> DEFINE L == sentence.len
           Step(f, c) == IF c = -1 THEN 1 ELSE f[c - 1] * Factor(c, t[c])
           Solves(f, d) == f = [c \in -1 .. d - 1 |-> Step(f, c)]
           Bad == { d \in 0 .. L : ~\E f : Solves(f, d) }
<1>1. L \in Nat
  BY DEF IsSentence
<1>2. ASSUME Bad # {} PROVE FALSE
  <2>0. Bad \in SUBSET Nat
    BY <1>1
  <2>1. PICK d \in Bad : \A m \in Bad : d <= m
    <3> HIDE DEF Bad
    <3> QED
      BY <1>2, <2>0, ListAssumptions, P!LeastElement
  <2>2. d \in 0 .. L /\ d \in Int
    BY <1>1, <2>1
  <2>3. CASE d = 0
    <3>1. \A c \in -1 .. 0 - 1 : c = -1
      OBVIOUS
    <3>2. Solves([c \in -1 .. 0 - 1 |-> 1], 0)
      BY <3>1
    <3> QED
      BY <2>1, <2>3, <3>2
  <2>4. CASE d > 0
    <3>0. d - 1 \in 0 .. L /\ ~(d <= d - 1)
      BY <1>1, <2>2, <2>4
    <3>1. d - 1 \notin Bad
      <4> HIDE DEF Bad
      <4> QED
        BY <2>1, <3>0
    <3>2. PICK f : Solves(f, d - 1)
      BY <3>0, <3>1
    <3> DEFINE g == [c \in -1 .. d - 1 |-> IF c = d - 1 THEN Step(f, c) ELSE f[c]]
    <3>3. ASSUME NEW c \in -1 .. d - 1 PROVE g[c] = Step(g, c)
      <4>1. Step(g, c) = Step(f, c)
        <5>1. CASE c = -1
          BY <5>1
        <5>2. CASE c # -1
          <6>1. c - 1 \in -1 .. d - 1 /\ c - 1 # d - 1
            BY <2>2, <5>2
          <6>2. g[c - 1] = f[c - 1]
            BY <6>1
          <6> HIDE DEF g
          <6> QED
            BY <5>2, <6>2
        <5> QED
          BY <5>1, <5>2
      <4>2. CASE c = d - 1
        BY <4>1, <4>2
      <4>3. CASE c # d - 1
        <5>1. c \in -1 .. (d - 1) - 1
          BY <2>2, <4>3
        <5>2. f[c] = Step(f, c)
          BY <3>2, <5>1
        <5> QED
          BY <4>1, <4>3, <5>2
      <4> QED
        BY <4>2, <4>3
    <3>4. Solves(g, d)
      BY <3>3
    <3> QED
      BY <2>1, <3>4
  <2> QED
    BY <2>2, <2>3, <2>4
<1>3. L \in 0 .. L
  BY <1>1
<1>4. \E f : Solves(f, L)
  BY <1>2, <1>3
<1> QED
  BY <1>4

LEMMA UpToIs ==
  ASSUME IsSentence(sentence), NEW t
  PROVE  /\ UpTo(t)[-1] = 1
         /\ \A c \in 0 .. sentence.len - 1 : UpTo(t)[c] = UpTo(t)[c - 1] * Factor(c, t[c])
<1>1. UpTo(t) = CHOOSE f : f = [c \in -1 .. sentence.len - 1 |->
                                  IF c = -1 THEN 1 ELSE f[c - 1] * Factor(c, t[c])]
  BY DEF UpTo, Factor
<1>2. PICK u : u = UpTo(t)
  OBVIOUS
<1>3. u = [c \in -1 .. sentence.len - 1 |-> IF c = -1 THEN 1 ELSE u[c - 1] * Factor(c, t[c])]
  BY <1>1, <1>2, ProductsExist
<1>4. sentence.len \in Nat /\ sentence.len >= 1
  BY Sizes
<1>5. \A c \in -1 .. sentence.len - 1 : u[c] = IF c = -1 THEN 1 ELSE u[c - 1] * Factor(c, t[c])
  BY <1>3
<1>6. \A c \in 0 .. sentence.len - 1 : c \in -1 .. sentence.len - 1 /\ c # -1
  BY <1>4
<1> QED
  BY <1>2, <1>4, <1>5, <1>6

LEMMA ProbabilityIs == \A t : Probability(t) = UpTo(t)[sentence.len - 1]
BY DEF Probability, UpTo

(* Only the tags before p count. *)
LEMMA UpToSame ==
  ASSUME IsSentence(sentence), NEW t, NEW r, NEW p \in 0 .. sentence.len, SameBefore(t, r, p)
  PROVE  UpTo(t)[p - 1] = UpTo(r)[p - 1]
<1> DEFINE Bad == { q \in 0 .. p : UpTo(t)[q - 1] # UpTo(r)[q - 1] }
<1>1. sentence.len \in Nat /\ p \in Nat /\ p <= sentence.len
  BY DEF IsSentence
<1>2. ASSUME Bad # {} PROVE FALSE
  <2>0. Bad \in SUBSET Nat
    BY <1>1
  <2>1. PICK q \in Bad : \A m \in Bad : q <= m
    <3> HIDE DEF Bad
    <3> QED
      BY <1>2, <2>0, ListAssumptions, P!LeastElement
  <2>2. q \in 0 .. p /\ q \in Int /\ UpTo(t)[q - 1] # UpTo(r)[q - 1]
    BY <2>1
  <2>3. q # 0
    <3>1. UpTo(t)[-1] = UpTo(r)[-1]
      BY UpToIs
    <3> QED
      BY <2>2, <3>1
  <2>4. q - 1 \in 0 .. p /\ q - 1 \notin Bad /\ q - 1 \in 0 .. sentence.len - 1 /\ q - 1 \in 0 .. p - 1
    BY <1>1, <2>1, <2>2, <2>3
  <2>5. UpTo(t)[(q - 1) - 1] = UpTo(r)[(q - 1) - 1]
    BY <2>4
  <2>6. t[q - 1] = r[q - 1]
    BY <2>4 DEF SameBefore
  <2>7. \A s : UpTo(s)[q - 1] = UpTo(s)[(q - 1) - 1] * Factor(q - 1, s[q - 1])
    BY <2>4, UpToIs
  <2> QED
    BY <2>2, <2>5, <2>6, <2>7
<1>3. p \in 0 .. p
  BY <1>1
<1> QED
  BY <1>2, <1>3

LEMMA FactorType ==
  ASSUME IsSentence(sentence), NEW c \in 0 .. sentence.len - 1, NEW x, Allowed(c, x)
  PROVE  Factor(c, x) \in Nat
BY DEF IsSentence, Factor, Allowed

LEMMA UpToType ==
  ASSUME IsSentence(sentence), NEW t, NEW p \in 0 .. sentence.len,
         \A c \in 0 .. p - 1 : Allowed(c, t[c])
  PROVE  UpTo(t)[p - 1] \in Nat
<1> DEFINE Bad == { q \in 0 .. p : UpTo(t)[q - 1] \notin Nat }
<1>1. sentence.len \in Nat /\ p \in Nat /\ p <= sentence.len
  BY DEF IsSentence
<1>2. ASSUME Bad # {} PROVE FALSE
  <2>0. Bad \in SUBSET Nat
    BY <1>1
  <2>1. PICK q \in Bad : \A m \in Bad : q <= m
    <3> HIDE DEF Bad
    <3> QED
      BY <1>2, <2>0, ListAssumptions, P!LeastElement
  <2>2. q \in 0 .. p /\ q \in Int /\ UpTo(t)[q - 1] \notin Nat
    BY <2>1
  <2>3. q # 0
    BY <2>2, UpToIs
  <2>4. q - 1 \in 0 .. p /\ q - 1 \notin Bad /\ q - 1 \in 0 .. sentence.len - 1 /\ q - 1 \in 0 .. p - 1
    BY <1>1, <2>1, <2>2, <2>3
  <2>5. UpTo(t)[(q - 1) - 1] \in Nat
    BY <2>4
  <2>6. Factor(q - 1, t[q - 1]) \in Nat
    BY <2>4, FactorType
  <2>7. UpTo(t)[q - 1] = UpTo(t)[(q - 1) - 1] * Factor(q - 1, t[q - 1])
    BY <2>4, UpToIs
  <2> QED
    BY <2>2, <2>5, <2>6, <2>7
<1>3. p \in 0 .. p
  BY <1>1
<1> QED
  BY <1>2, <1>3

LEMMA TimesMonotone ==
  ASSUME NEW a \in Nat, NEW b \in Nat, NEW w \in Nat, a <= b
  PROVE  a * w <= b * w
BY Z3

(* Neither the words nor the model change behind preProcess. *)
LEMMA SameBeamAt ==
  ASSUME UNCHANGED << sentence, found >>, NEW R, NEW S, NEW n, NEW p
  PROVE  BeamAt(R, S, n, p)' <=> BeamAt(R, S, n, p)
<1>1. \A c, x : Allowed(c, x)' <=> Allowed(c, x)
  BY DEF Allowed, PreTagged, PreTag
<1>2. \A t : UpTo(t)' = UpTo(t)
  BY DEF UpTo, PreTagged
<1>3. Taggings' = Taggings
  BY DEF Taggings, Chars, PreTagged, PreTag
<1> QED
  BY <1>1, <1>2, <1>3 DEF BeamAt, SameBefore
-----------------------------------------------------------------------------
(* One more character, with the candidates of its list. *)

OneToOne(f, n, m) == f \in [0 .. n - 1 -> 1 .. m] /\ \A k, l \in 0 .. n - 1 : k # l => f[k] # f[l]
Onto(f, n, m) == \A q \in 1 .. m : \E k \in 0 .. n - 1 : f[k] = q

LEMMA Pigeons ==
  ASSUME NEW n \in Nat, NEW m \in Nat, m <= n, NEW f, OneToOne(f, n, m)
  PROVE  m = n /\ Onto(f, n, m)
<1>1. IsFiniteSet(1 .. m) /\ Cardinality(1 .. m) = m
  BY FS_Interval
<1>2. Cardinality(0 .. n - 1) = n
  BY FS_Interval
<1>3. f \in Injection(0 .. n - 1, 1 .. m)
  BY DEF OneToOne, Injection, IsInjective
<1>4. /\ Cardinality(0 .. n - 1) <= Cardinality(1 .. m)
      /\ Cardinality(0 .. n - 1) = Cardinality(1 .. m) => f \in Surjection(0 .. n - 1, 1 .. m)
  BY <1>1, <1>3, FS_Injection
<1>5. m = n /\ f \in Surjection(0 .. n - 1, 1 .. m)
  BY <1>1, <1>2, <1>4
<1> QED
  BY <1>5 DEF Surjection, Onto

LEMMA ExtensionIs ==
  ASSUME NEW S, NEW p, NEW k, NEW t
  PROVE  /\ Extension(S, p, k, t).score = sentence.weight[p][t] * S[k]
         /\ Extension(S, p, k, t).index = k
         /\ Extension(S, p, k, t).pocCode = t
BY DEF Extension

(* The score of an extended row. *)
LEMMA ExtendedScore ==
  ASSUME IsSentence(sentence), NEW p \in 0 .. sentence.len - 1, ~PreTagged(p),
         NEW r, NEW s, SameBefore(s, r, p), \A c \in 0 .. p - 1 : Allowed(c, r[c]),
         s[p] \in DOMAIN sentence.weight[p]
  PROVE  /\ UpTo(s)[p] = sentence.weight[p][s[p]] * UpTo(r)[p - 1]
         /\ UpTo(r)[p - 1] \in Nat /\ sentence.weight[p][s[p]] \in Nat
<1>1. sentence.len \in Nat /\ p \in 0 .. sentence.len
  BY DEF IsSentence
<1>2. UpTo(s)[p - 1] = UpTo(r)[p - 1]
  BY <1>1, UpToSame
<1>3. UpTo(r)[p - 1] \in Nat
  BY <1>1, UpToType
<1>4. UpTo(s)[p] = UpTo(s)[p - 1] * Factor(p, s[p])
  BY UpToIs
<1>5. Factor(p, s[p]) = sentence.weight[p][s[p]]
  BY DEF Factor
<1>6. sentence.weight[p][s[p]] \in Nat
  BY DEF IsSentence
<1>7. \A a, b \in Nat : a * b = b * a
  BY Z3
<1> QED
  BY <1>2, <1>3, <1>4, <1>5, <1>6, <1>7

(* Hypotheses V with scores T come from R with S and the m candidates K.   *)
Extended(R, S, n, p, m, K, V, T) ==
  /\ p \in 0 .. sentence.len - 1 /\ ~PreTagged(p)
  /\ BeamAt(R, S, n, p)
  /\ m \in 0 .. N
  /\ \E Off : /\ \A x : x \in Off <=> \E k \in 0 .. n - 1, t \in DOMAIN sentence.weight[p] :
                                        x = Extension(S, p, k, t)
              /\ P!BestIn(K, m, Off)
  /\ \A k, l \in 1 .. m : k <= l => K[k].score >= K[l].score
  /\ \A k \in 0 .. m - 1 : /\ T[k] = K[k + 1].score
                           /\ SameBefore(V[k], R[K[k + 1].index], p)
                           /\ V[k][p] = K[k + 1].pocCode

LEMMA ExtendBeam ==
  ASSUME IsSentence(sentence), NEW R, NEW S, NEW n, NEW p, NEW m, NEW K, NEW V, NEW T,
         Extended(R, S, n, p, m, K, V, T)
  PROVE  BeamAt(V, T, m, p + 1)
<1>0. /\ p \in 0 .. sentence.len - 1 /\ ~PreTagged(p) /\ BeamAt(R, S, n, p) /\ m \in 0 .. N
      /\ \A k, l \in 1 .. m : k <= l => K[k].score >= K[l].score
      /\ \A k \in 0 .. m - 1 : T[k] = K[k + 1].score
      /\ \A k \in 0 .. m - 1 : SameBefore(V[k], R[K[k + 1].index], p)
      /\ \A k \in 0 .. m - 1 : V[k][p] = K[k + 1].pocCode
  BY DEF Extended
<1>a. PICK Off : /\ \A x : x \in Off <=> \E k \in 0 .. n - 1, t \in DOMAIN sentence.weight[p] :
                                           x = Extension(S, p, k, t)
                 /\ P!BestIn(K, m, Off)
  BY DEF Extended
<1> USE <1>0, <1>a
<1>1. /\ sentence.len \in Nat /\ N \in Nat /\ N >= 1 /\ p \in Nat /\ m \in Nat /\ m <= N
      /\ n \in 1 .. N /\ n \in Nat
  BY Sizes DEF BeamAt
<1>2. \A k \in 0 .. n - 1, c \in 0 .. p - 1 : Allowed(c, R[k][c])
  BY DEF BeamAt
<1>3. \A k \in 0 .. n - 1 : S[k] = UpTo(R[k])[p - 1]
  BY DEF BeamAt
<1>4. \A k, l \in 0 .. n - 1 : k # l => ~SameBefore(R[k], R[l], p)
  BY DEF BeamAt
<1>5. \A t \in Taggings : \/ \E k \in 0 .. n - 1 : SameBefore(t, R[k], p)
                          \/ n = N /\ \A k \in 0 .. n - 1 : UpTo(t)[p - 1] <= S[k]
  BY DEF BeamAt
<1>6. /\ \A k \in 1 .. m : K[k] \in Off
      /\ \A k, l \in 1 .. m : k # l => K[k] # K[l]
      /\ \A x \in Off : \/ \E k \in 1 .. m : K[k] = x
                        \/ m = N /\ \A k \in 1 .. m : x.score <= K[k].score
  BY DEF P!BestIn
<1>7. \A k \in 0 .. n - 1 : S[k] \in Nat
  <2>1. p \in 0 .. sentence.len
    BY <1>1
  <2> QED
    BY <1>2, <1>3, <2>1, UpToType
<1>8. \A t \in DOMAIN sentence.weight[p] : sentence.weight[p][t] \in Nat /\ t \in Tag
  BY DEF IsSentence
(* What the candidates are. *)
<1>9. ASSUME NEW k \in 0 .. m - 1
      PROVE  /\ k + 1 \in 1 .. m
             /\ K[k + 1].index \in 0 .. n - 1
             /\ K[k + 1].pocCode \in DOMAIN sentence.weight[p]
             /\ K[k + 1] = Extension(S, p, K[k + 1].index, K[k + 1].pocCode)
             /\ K[k + 1].score = sentence.weight[p][K[k + 1].pocCode] * S[K[k + 1].index]
             /\ K[k + 1].score \in Nat
  <2>1. k + 1 \in 1 .. m
    BY <1>1
  <2>2. PICK a \in 0 .. n - 1, t \in DOMAIN sentence.weight[p] : K[k + 1] = Extension(S, p, a, t)
    BY <1>6, <2>1
  <2>3. K[k + 1].index = a /\ K[k + 1].pocCode = t /\ K[k + 1].score = sentence.weight[p][t] * S[a]
    BY <2>2, ExtensionIs
  <2>4. sentence.weight[p][t] * S[a] \in Nat
    BY <1>7, <1>8
  <2> QED
    BY <2>1, <2>2, <2>3, <2>4
<1>10. m \in 1 .. N
  <2>1. PICK t : t \in DOMAIN sentence.weight[p]
    BY DEF IsSentence
  <2>2. 0 \in 0 .. n - 1
    BY <1>1
  <2>3. Extension(S, p, 0, t) \in Off
    BY <2>1, <2>2
  <2>4. m # 0
    BY <1>1, <1>6, <2>3
  <2> QED
    BY <1>1, <2>4
<1>11. \A c \in 0 .. (p + 1) - 1 : c \in 0 .. p - 1 \/ c = p
  BY <1>1
<1>12. ASSUME NEW k \in 0 .. m - 1, NEW c \in 0 .. (p + 1) - 1
       PROVE  Allowed(c, V[k][c])
  <2>1. CASE c \in 0 .. p - 1
    <3>1. V[k][c] = R[K[k + 1].index][c]
      BY <2>1 DEF SameBefore
    <3> QED
      BY <1>2, <1>9, <2>1, <3>1
  <2>2. CASE c = p
    BY <1>9, <2>2 DEF Allowed
  <2> QED
    BY <1>11, <2>1, <2>2
<1>13. ASSUME NEW k \in 0 .. m - 1
       PROVE  T[k] = UpTo(V[k])[(p + 1) - 1]
  <2>1. PICK a : a = K[k + 1].index
    OBVIOUS
  <2>2. a \in 0 .. n - 1 /\ SameBefore(V[k], R[a], p) /\ V[k][p] \in DOMAIN sentence.weight[p]
        /\ T[k] = sentence.weight[p][V[k][p]] * S[a]
    BY <1>9, <2>1
  <2>3. UpTo(V[k])[p] = sentence.weight[p][V[k][p]] * UpTo(R[a])[p - 1]
    BY <1>2, <2>2, ExtendedScore
  <2>4. (p + 1) - 1 = p
    BY <1>1
  <2> QED
    BY <1>3, <2>2, <2>3, <2>4
<1>14. ASSUME NEW k \in 0 .. m - 1, NEW l \in 0 .. m - 1, k # l, SameBefore(V[k], V[l], p + 1)
       PROVE  FALSE
  <2>1. PICK a, b : a = K[k + 1].index /\ b = K[l + 1].index
    OBVIOUS
  <2>2. /\ a \in 0 .. n - 1 /\ b \in 0 .. n - 1
        /\ SameBefore(V[k], R[a], p) /\ SameBefore(V[l], R[b], p)
    BY <1>9, <2>1
  <2>3. \A c \in 0 .. p - 1 : c \in 0 .. (p + 1) - 1
    BY <1>1
  <2>4. SameBefore(R[a], R[b], p)
    BY <1>14, <2>2, <2>3 DEF SameBefore
  <2>5. a = b
    BY <1>4, <2>2, <2>4
  <2>6. p \in 0 .. (p + 1) - 1
    BY <1>1
  <2>7. K[k + 1].pocCode = K[l + 1].pocCode
    BY <1>14, <2>6 DEF SameBefore
  <2>8. K[k + 1] = K[l + 1]
    <3>1. K[k + 1] = Extension(S, p, a, K[k + 1].pocCode) /\ K[l + 1] = Extension(S, p, b, K[l + 1].pocCode)
      BY <1>9, <2>1
    <3> QED
      BY <2>5, <2>7, <3>1, Zenon
  <2>9. k + 1 # l + 1
    BY <1>1, <1>14
  <2> QED
    BY <1>6, <1>9, <2>8, <2>9
<1>15. ASSUME NEW k \in 0 .. m - 1, NEW l \in 0 .. m - 1, k <= l
       PROVE  T[k] >= T[l]
  <2>1. k + 1 \in 1 .. m /\ l + 1 \in 1 .. m /\ k + 1 <= l + 1
    BY <1>1, <1>15
  <2> QED
    BY <2>1
(* No tagging is lost that could come among the best. *)
<1>16. ASSUME NEW t \in Taggings
       PROVE  \/ \E k \in 0 .. m - 1 : SameBefore(t, V[k], p + 1)
              \/ m = N /\ \A k \in 0 .. m - 1 : UpTo(t)[(p + 1) - 1] <= T[k]
  <2>1. /\ p \in Chars /\ (\A c \in 0 .. p - 1 : c \in Chars) /\ (p + 1) - 1 = p
        /\ \A k \in 1 .. m : k - 1 \in 0 .. m - 1 /\ (k - 1) + 1 = k
    BY <1>1 DEF Chars
  <2>2. t[p] \in DOMAIN sentence.weight[p]
    BY <2>1 DEF Taggings
  <2>3. \A c \in 0 .. p - 1 : Allowed(c, t[c])
    BY <2>1 DEF Taggings, Allowed
  <2>4. PICK w : w = sentence.weight[p][t[p]]
    OBVIOUS
  <2>5. w \in Nat
    BY <1>8, <2>2, <2>4
  <2>6. UpTo(t)[p] = w * UpTo(t)[p - 1] /\ UpTo(t)[p - 1] \in Nat
    <3>1. SameBefore(t, t, p)
      BY DEF SameBefore
    <3> QED
      BY <2>2, <2>3, <2>4, <3>1, ExtendedScore
  <2>7. \A k \in 0 .. n - 1 : /\ Extension(S, p, k, t[p]) \in Off
                              /\ Extension(S, p, k, t[p]).score = w * S[k]
    BY <2>2, <2>4, ExtensionIs
  <2>8. CASE \E a \in 0 .. n - 1 : SameBefore(t, R[a], p)
    <3>1. PICK a \in 0 .. n - 1 : SameBefore(t, R[a], p)
      BY <2>8
    <3>2. w * S[a] = UpTo(t)[p]
      BY <1>2, <1>3, <2>2, <2>4, <3>1, ExtendedScore
    <3>3. CASE \E q \in 1 .. m : K[q] = Extension(S, p, a, t[p])
      <4>1. PICK q \in 1 .. m : K[q] = Extension(S, p, a, t[p])
        BY <3>3
      <4>2. PICK k : k = q - 1
        OBVIOUS
      <4>3. k \in 0 .. m - 1 /\ k + 1 = q
        BY <2>1, <4>2
      <4>4. K[k + 1].index = a /\ K[k + 1].pocCode = t[p]
        BY <4>1, <4>3, ExtensionIs
      <4>5. V[k][p] = t[p] /\ SameBefore(V[k], R[a], p)
        BY <4>3, <4>4
      <4>6. SameBefore(t, V[k], p + 1)
        BY <1>11, <3>1, <4>5 DEF SameBefore
      <4> QED
        BY <4>3, <4>6
    <3>4. CASE m = N /\ \A q \in 1 .. m : Extension(S, p, a, t[p]).score <= K[q].score
      <4>1. ASSUME NEW k \in 0 .. m - 1 PROVE UpTo(t)[p] <= T[k]
        BY <1>9, <2>7, <3>2, <3>4
      <4> QED
        BY <2>1, <3>4, <4>1
    <3> QED
      BY <1>6, <2>7, <3>3, <3>4
  <2>9. CASE n = N /\ \A k \in 0 .. n - 1 : UpTo(t)[p - 1] <= S[k]
    <3>1. \A k \in 0 .. n - 1 : UpTo(t)[p] <= w * S[k] /\ w * S[k] \in Nat
      <4> SUFFICES ASSUME NEW k \in 0 .. n - 1 PROVE UpTo(t)[p] <= w * S[k] /\ w * S[k] \in Nat
        OBVIOUS
      <4>1. PICK a, b : a = UpTo(t)[p - 1] /\ b = S[k]
        OBVIOUS
      <4>2. a \in Nat /\ b \in Nat /\ a <= b
        BY <1>7, <2>6, <2>9, <4>1
      <4>3. a * w <= b * w
        BY <2>5, <4>2, TimesMonotone
      <4>4. a * w = w * a /\ b * w = w * b /\ w * b \in Nat
        BY <2>5, <4>2, Z3
      <4> QED
        BY <2>6, <4>1, <4>3, <4>4
    <3>2. CASE \E k \in 0 .. n - 1 : ~\E q \in 1 .. m : K[q] = Extension(S, p, k, t[p])
      <4>1. PICK a \in 0 .. n - 1 : ~\E q \in 1 .. m : K[q] = Extension(S, p, a, t[p])
        BY <3>2
      <4>2. m = N /\ \A q \in 1 .. m : Extension(S, p, a, t[p]).score <= K[q].score
        BY <1>6, <2>7, <4>1
      <4>3. ASSUME NEW k \in 0 .. m - 1 PROVE UpTo(t)[p] <= T[k]
        <5>1. w * S[a] <= K[k + 1].score /\ K[k + 1].score \in Nat /\ T[k] = K[k + 1].score
          BY <1>9, <2>7, <4>2
        <5>2. UpTo(t)[p] <= w * S[a] /\ w * S[a] \in Nat /\ UpTo(t)[p] \in Nat
          BY <2>5, <2>6, <3>1
        <5> QED
          BY <5>1, <5>2
      <4> QED
        BY <2>1, <4>2, <4>3
    <3>3. CASE \A k \in 0 .. n - 1 : \E q \in 1 .. m : K[q] = Extension(S, p, k, t[p])
      <4> DEFINE f == [k \in 0 .. n - 1 |-> CHOOSE q \in 1 .. m : K[q] = Extension(S, p, k, t[p])]
      <4>1. \A k \in 0 .. n - 1 : f[k] \in 1 .. m /\ K[f[k]] = Extension(S, p, k, t[p])
        BY <3>3
      <4>2. f \in [0 .. n - 1 -> 1 .. m]
        BY <3>3
      <4> HIDE DEF f
      <4>3. \A k, l \in 0 .. n - 1 : k # l => f[k] # f[l]
        <5> SUFFICES ASSUME NEW k \in 0 .. n - 1, NEW l \in 0 .. n - 1, f[k] = f[l] PROVE k = l
          OBVIOUS
        <5>1. K[f[k]].index = k /\ K[f[l]].index = l
          BY <4>1, ExtensionIs
        <5> QED
          BY <5>1
      <4>4. m = n /\ Onto(f, n, m)
        <5>1. m \in Nat /\ n \in Nat /\ m <= n
          BY <1>1, <2>9
        <5>2. OneToOne(f, n, m)
          BY <4>2, <4>3 DEF OneToOne
        <5> QED
          BY <5>1, <5>2, Pigeons
      <4>5. ASSUME NEW k \in 0 .. m - 1 PROVE UpTo(t)[p] <= T[k]
        <5>1. k + 1 \in 1 .. m
          BY <1>9
        <5>2. PICK a \in 0 .. n - 1 : f[a] = k + 1
          BY <4>4, <5>1 DEF Onto
        <5>3. K[k + 1] = Extension(S, p, a, t[p])
          BY <4>1, <5>2
        <5>4. T[k] = w * S[a]
          BY <2>7, <5>3
        <5> QED
          BY <3>1, <5>4
      <4> QED
        BY <2>1, <2>9, <4>4, <4>5
    <3> QED
      BY <3>2, <3>3
  <2> QED
    BY <1>5, <2>8, <2>9
<1> QED
  BY <1>10, <1>12, <1>13, <1>14, <1>15, <1>16 DEF BeamAt
-----------------------------------------------------------------------------
(* The steps of the analysis. *)

(* Before any character there is one way to tag none. *)
LEMMA OneHypothesis ==
  ASSUME IsSentence(sentence), NEW R, NEW S, S[0] = 1
  PROVE  BeamAt(R, S, 1, 0)
<1>1. 1 \in 1 .. N /\ (\A k \in 0 .. 1 - 1 : k = 0) /\ 0 \in 0 .. 1 - 1 /\ (\A c : c \notin 0 .. 0 - 1)
  BY Sizes
<1>2. 0 - 1 = -1 /\ \A r : UpTo(r)[-1] = 1
  BY UpToIs
<1>3. \A r, s : SameBefore(r, s, 0)
  BY <1>1 DEF SameBefore
<1>4. \A k \in 0 .. 1 - 1 : S[k] = UpTo(R[k])[0 - 1]
  BY <1>1, <1>2
<1>5. \A k, l \in 0 .. 1 - 1 : k = l /\ S[k] >= S[l]
  BY <1>1
<1> QED
  BY <1>1, <1>3, <1>4, <1>5 DEF BeamAt

(* A character that preProcess tagged leaves every score as it is. *)
LEMMA SkipBeamAt ==
  ASSUME IsSentence(sentence), NEW R, NEW S, NEW n, NEW p \in 0 .. sentence.len - 1,
         BeamAt(R, S, n, p), PreTagged(p), \A k \in 0 .. n - 1 : R[k][p] = PreTag(p)
  PROVE  BeamAt(R, S, n, p + 1)
<1>1. /\ sentence.len \in Nat /\ p \in Nat /\ (p + 1) - 1 = p /\ p \in 0 .. (p + 1) - 1
      /\ \A c \in 0 .. (p + 1) - 1 : c \in 0 .. p - 1 \/ c = p
      /\ \A c \in 0 .. p - 1 : c \in 0 .. (p + 1) - 1 /\ c \in Chars
      /\ p \in Chars /\ p \in 0 .. sentence.len
  BY DEF IsSentence, Chars
<1>2. ASSUME NEW r, \A c \in 0 .. p - 1 : Allowed(c, r[c])
      PROVE  UpTo(r)[p] = UpTo(r)[p - 1]
  <2>1. UpTo(r)[p - 1] \in Nat
    BY <1>1, <1>2, UpToType
  <2>2. UpTo(r)[p] = UpTo(r)[p - 1] * Factor(p, r[p]) /\ Factor(p, r[p]) = 1
    BY UpToIs DEF Factor
  <2> QED
    BY <2>1, <2>2
<1>3. ASSUME NEW k \in 0 .. n - 1, NEW c \in 0 .. (p + 1) - 1 PROVE Allowed(c, R[k][c])
  <2>1. CASE c = p
    BY <2>1 DEF Allowed
  <2>2. CASE c \in 0 .. p - 1
    BY <2>2 DEF BeamAt
  <2> QED
    BY <1>1, <2>1, <2>2
<1>4. ASSUME NEW k \in 0 .. n - 1 PROVE S[k] = UpTo(R[k])[(p + 1) - 1]
  <2>1. \A c \in 0 .. p - 1 : Allowed(c, R[k][c])
    BY <1>1, <1>3
  <2> QED
    BY <1>1, <1>2, <2>1 DEF BeamAt
<1>5. ASSUME NEW k \in 0 .. n - 1, NEW l \in 0 .. n - 1, k # l PROVE ~SameBefore(R[k], R[l], p + 1)
  <2>1. ~SameBefore(R[k], R[l], p)
    BY <1>5 DEF BeamAt
  <2> QED
    BY <1>1, <2>1 DEF SameBefore
<1>6. ASSUME NEW t \in Taggings
      PROVE  \/ \E k \in 0 .. n - 1 : SameBefore(t, R[k], p + 1)
             \/ n = N /\ \A k \in 0 .. n - 1 : UpTo(t)[(p + 1) - 1] <= S[k]
  <2>1. t[p] = PreTag(p) /\ \A c \in 0 .. p - 1 : Allowed(c, t[c])
    BY <1>1 DEF Taggings, Allowed
  <2>2. UpTo(t)[p] = UpTo(t)[p - 1]
    BY <1>2, <2>1
  <2>3. \A k \in 0 .. n - 1 : SameBefore(t, R[k], p) => SameBefore(t, R[k], p + 1)
    BY <1>1, <2>1 DEF SameBefore
  <2>4. \/ \E k \in 0 .. n - 1 : SameBefore(t, R[k], p)
        \/ n = N /\ \A k \in 0 .. n - 1 : UpTo(t)[p - 1] <= S[k]
    BY DEF BeamAt
  <2> QED
    BY <1>1, <2>2, <2>3, <2>4
<1>7. n \in 1 .. N /\ \A k, l \in 0 .. n - 1 : k <= l => S[k] >= S[l]
  BY DEF BeamAt
<1> QED
  BY <1>3, <1>4, <1>5, <1>6, <1>7 DEF BeamAt

LEMMA BeamNext ==
  ASSUME UNCHANGED << sentence, found >>,
         NEW R, R = rows'[h0'], NEW S, S = scores', NEW n, n = h0Size', NEW p, p = i',
         BeamAt(R, S, n, p)
  PROVE  BeamAt(rows[h0], scores, h0Size, i)'
<1>1. BeamAt(R, S, n, p)'
  BY SameBeamAt
<1> QED
  BY <1>1

LEMMA SameBeam ==
  ASSUME UNCHANGED << sentence, found, rows, h0, scores, h0Size, i >>,
         BeamAt(rows[h0], scores, h0Size, i)
  PROVE  BeamAt(rows[h0], scores, h0Size, i)'
<1>1. PICK R, S, n, p : R = rows[h0] /\ S = scores /\ n = h0Size /\ p = i
  OBVIOUS
<1>2. BeamAt(R, S, n, p)
  BY <1>1
<1> QED
  BY <1>1, <1>2, BeamNext

LEMMA InitBeam == Init => BeamInv
<1> SUFFICES ASSUME Init PROVE BeamInv
  OBVIOUS
<1>1. scores[0] = 1
  BY Sizes, SentencesAssumption DEF Init
<1> QED
  BY <1>1 DEF Init, BeamInv, Beam, ListBest

LEMMA PreBeam ==
  ASSUME IInv, BeamInv, preProcess
  PROVE  BeamInv'
BY DEF preProcess, BeamInv, Beam, ListBest

LEMMA CopyBeam ==
  ASSUME IInv, BeamInv, CopyRows
  PROVE  BeamInv'
<1>1. /\ phase = "pre" /\ phase' = "char"
      /\ UNCHANGED << sentence, found, h0, scores, h0Size, i >>
      /\ i = 0 /\ h0Size = 1 /\ scores[0] = 1 /\ IsSentence(sentence)
  BY DEF CopyRows, preVars, IInv, TypeOK, BeamInv, Beam
<1>2. PICK R, S, n, p : R = rows'[h0'] /\ S = scores' /\ n = h0Size' /\ p = i'
  OBVIOUS
<1>3. BeamAt(R, S, n, p)
  BY <1>1, <1>2, OneHypothesis
<1>4. BeamAt(rows[h0], scores, h0Size, i)'
  BY <1>1, <1>2, <1>3, BeamNext
<1> QED
  BY <1>1, <1>4 DEF BeamInv, Beam, ListBest

LEMMA SkipBeam ==
  ASSUME IInv, BeamInv, SkipChar
  PROVE  BeamInv'
<1>1. /\ phase = "char" /\ phase' = "char" /\ i < sentence.len /\ i' = i + 1 /\ rows[1][0][i] # "INIT"
      /\ UNCHANGED << sentence, found, rows, h0, scores, h0Size >>
  BY DEF SkipChar, preVars, hypVars
<1>2. /\ IsSentence(sentence) /\ i \in 0 .. sentence.len - 1 /\ i \in Chars /\ i \in Nat
      /\ h0 \in {1, 2} /\ 0 \in Rows /\ N \in Nat
  BY <1>1, Sizes DEF IInv, TypeOK, Chars
<1>3. PICK R, S, n, p : R = rows[h0] /\ S = scores /\ n = h0Size /\ p = i
  OBVIOUS
<1>4. BeamAt(R, S, n, p)
  BY <1>1, <1>3 DEF BeamInv, Beam
<1>5. \A a \in {1, 2}, k \in Rows : /\ PreTagged(i) => rows[a][k][i] = PreTag(i)
                                    /\ i >= i => rows[a][k][i] = Base(i)
  BY <1>1, <1>2 DEF IInv, RowsAgree
<1>6. PreTagged(i)
  BY <1>1, <1>2, <1>5 DEF Base
<1>7. ASSUME NEW k \in 0 .. n - 1 PROVE R[k][p] = PreTag(p)
  <2>1. k \in Rows
    <3>1. n \in 1 .. N
      BY <1>4 DEF BeamAt
    <3> QED
      BY <1>2, <3>1 DEF Rows
  <2> QED
    BY <1>2, <1>3, <1>5, <1>6, <2>1
<1>8. BeamAt(R, S, n, p + 1)
  <2>1. PreTagged(p) /\ p \in 0 .. sentence.len - 1
    BY <1>2, <1>3, <1>6
  <2> QED
    BY <1>2, <1>4, <1>7, <2>1, SkipBeamAt
<1>9. BeamAt(rows[h0], scores, h0Size, i)'
  <2>1. PICK q : q = p + 1
    OBVIOUS
  <2>2. R = rows'[h0'] /\ S = scores' /\ n = h0Size' /\ q = i' /\ BeamAt(R, S, n, q)
    BY <1>1, <1>3, <1>8, <2>1
  <2> QED
    BY <1>1, <2>2, BeamNext
<1> QED
  BY <1>1, <1>9 DEF BeamInv, Beam, ListBest

LEMMA ListNext ==
  ASSUME NEW Off, P!BestOf(Off)', Off = IF walking' THEN Offered' \ { given' } ELSE Offered'
  PROVE  P!BestOf(IF walking THEN Offered \ { given } ELSE Offered)'
OBVIOUS

LEMMA StartCharBeam ==
  ASSUME IInv, BeamInv, StartChar
  PROVE  BeamInv'
<1>1. /\ phase = "char" /\ phase' = "tag" /\ List!Reset /\ j' = 0
      /\ outcomes' = DOMAIN sentence.weight[i]
      /\ UNCHANGED << sentence, found, rows, h0, scores, h0Size, i >>
  BY DEF StartChar, preVars, hypVars
<1>2. BeamAt(rows[h0], scores, h0Size, i)'
  BY <1>1, SameBeam DEF BeamInv, Beam
<1>3. h0Size \in 1 .. N
  BY <1>1 DEF BeamInv, Beam, BeamAt
<1>4. ~walking'
  BY <1>1 DEF List!Reset, List!search
<1>5. Offered' = {}
  BY <1>1, <1>3 DEF Offered
<1>6. P!Reset
  BY <1>1 DEF List!Reset, P!Reset, List!array, P!array, List!search, P!search
<1>7. P!BestOf({})'
  BY <1>6, ListAssumptions, P!ResetBest
<1>8. P!BestOf(IF walking THEN Offered \ { given } ELSE Offered)'
  BY <1>4, <1>5, <1>7, ListNext
<1> QED
  BY <1>1, <1>2, <1>3, <1>4, <1>8, Sizes DEF BeamInv, Beam, ListBest, IInv, TypeOK

(* The units offered are candidates. *)
LEMMA ExtensionType ==
  ASSUME IInv, phase = "tag", NEW k \in 0 .. h0Size - 1, NEW t \in DOMAIN sentence.weight[i]
  PROVE  Extension(scores, i, k, t) \in Candidate
<1>1. /\ IsSentence(sentence) /\ sentence.len \in Nat /\ i \in 0 .. sentence.len - 1
      /\ scores \in [0 .. N - 1 -> Nat] /\ h0Size \in 0 .. N /\ N \in Nat
  BY Sizes DEF IInv, TypeOK, ListMade, Rows
<1>2. k \in 0 .. N - 1 /\ scores[k] \in Nat
  BY <1>1
<1>3. sentence.weight[i][t] \in Nat /\ t \in Tag
  BY <1>1 DEF IsSentence
<1>4. sentence.weight[i][t] * scores[k] \in Nat
  BY <1>2, <1>3
<1> QED
  BY <1>2, <1>3, <1>4 DEF Extension, Candidate

LEMMA TagBeam ==
  ASSUME IInv, BeamInv, tag_word
  PROVE  BeamInv'
<1>1. PICK t \in outcomes : /\ outcomes' = outcomes \ { t }
                            /\ IF List!Full(Extend(t)) THEN UNCHANGED listVars
                               ELSE List!insertCandidate(Extend(t))
  BY DEF tag_word
<1>2. /\ phase = "tag" /\ phase' = "tag" /\ ~walking
      /\ UNCHANGED << sentence, found, rows, h0, scores, h0Size, i, j >>
  BY DEF tag_word, preVars, hypVars
<1>3. BeamAt(rows[h0], scores, h0Size, i)'
  BY <1>2, SameBeam DEF BeamInv, Beam
<1>4. /\ P!IInv /\ outcomes \subseteq DOMAIN sentence.weight[i]
      /\ j < h0Size /\ P!BestOf(Offered) /\ j \in Nat /\ h0Size \in Nat
  BY <1>2 DEF IInv, TypeOK, ListMade, BeamInv, ListBest, Rows
<1>5. PICK u, Off : u = Extend(t) /\ Off = Offered
  OBVIOUS
<1>6. u = Extension(scores, i, j, t) /\ u \in Candidate
  <2>1. u = Extension(scores, i, j, t)
    BY <1>5 DEF Extend, Extension
  <2>2. j \in 0 .. h0Size - 1 /\ t \in DOMAIN sentence.weight[i]
    BY <1>1, <1>4
  <2> QED
    BY <1>2, <2>1, <2>2, ExtensionType
<1>7. u \notin Off
  <2> SUFFICES ASSUME u \in Off PROVE FALSE
    OBVIOUS
  <2>1. PICK k \in 0 .. h0Size - 1, s \in DOMAIN sentence.weight[i] :
          /\ u = Extension(scores, i, k, s)
          /\ k < j \/ (k = j /\ s \notin outcomes)
    BY <1>5 DEF Offered
  <2>2. k = j /\ s = t
    <3>1. u.index = j /\ u.pocCode = t
      BY <1>6, ExtensionIs
    <3>2. u.index = k /\ u.pocCode = s
      BY <2>1, ExtensionIs
    <3> QED
      BY <3>1, <3>2
  <2> QED
    BY <1>1, <1>4, <2>1, <2>2
<1>8. Offered' = Off \cup { u }
  <2>1. ASSUME NEW x
        PROVE  x \in Offered' <=> x \in Off \cup { u }
    <3>1. x \in Offered' <=>
            /\ x \in Candidate
            /\ \E k \in 0 .. h0Size - 1, s \in DOMAIN sentence.weight[i] :
                 /\ x = Extension(scores, i, k, s)
                 /\ k < j \/ (k = j /\ s \notin outcomes \ { t })
      BY <1>1, <1>2 DEF Offered, Extension
    <3>2. x \in Off <=>
            /\ x \in Candidate
            /\ \E k \in 0 .. h0Size - 1, s \in DOMAIN sentence.weight[i] :
                 /\ x = Extension(scores, i, k, s)
                 /\ k < j \/ (k = j /\ s \notin outcomes)
      BY <1>5 DEF Offered
    <3>3. j \in 0 .. h0Size - 1 /\ t \in DOMAIN sentence.weight[i]
      BY <1>1, <1>4
    <3>4. x = u => x \in Offered'
      BY <1>6, <3>1, <3>3
    <3>5. x \in Offered' /\ x # u => x \in Off
      BY <1>6, <3>1, <3>2
    <3>6. x \in Off => x \in Offered'
      BY <3>1, <3>2
    <3> QED
      BY <3>4, <3>5, <3>6
  <2> QED
    BY <2>1
<1>9. Off \in SUBSET Candidate
  BY <1>5 DEF Offered
<1>10. \/ walking' /\ given' = u /\ P!BestOf(Off)'
       \/ ~walking' /\ P!BestOf(Off \cup { u })'
  <2>1. P!BestOf(Off)
    BY <1>4, <1>5
  <2>2. CASE List!Full(u)
    <3>1. UNCHANGED listVars
      BY <1>1, <1>5, <2>2
    <3>2. P!Full(u) /\ UNCHANGED << P!array, lastIndex, canSize >>
      BY <2>2, <3>1 DEF List!Full, P!Full, listVars, P!array
    <3>3. P!BestOf(Off \cup { u })'
      BY <1>4, <1>6, <2>1, <3>2, ListAssumptions, P!FullBest
    <3> QED
      BY <1>2, <3>1, <3>3 DEF listVars
  <2>3. CASE ~List!Full(u)
    <3>1. List!insertCandidate(u)
      BY <1>1, <1>5, <2>3
    <3>2. P!insertCandidate(u)
      BY <3>1
      DEF List!insertCandidate, P!insertCandidate, List!Full, P!Full, List!InsertHead,
          P!InsertHead, List!InsertLast, P!InsertLast, List!StartWalk, P!StartWalk,
          List!IsHead, P!IsHead, List!Put, P!Put, List!search, P!search, List!array, P!array
    <3> QED
      BY <1>4, <1>6, <1>7, <1>9, <2>1, <3>2, ListAssumptions, P!InsertBest
  <2> QED
    BY <2>2, <2>3
<1>11. /\ walking' => given' \in Offered'
       /\ P!BestOf(IF walking THEN Offered \ { given } ELSE Offered)'
  <2>1. CASE walking' /\ given' = u /\ P!BestOf(Off)'
    <3>1. Off = Offered' \ { given' }
      BY <1>7, <1>8, <2>1
    <3> QED
      BY <1>8, <2>1, <3>1, ListNext
  <2>2. CASE ~walking' /\ P!BestOf(Off \cup { u })'
    <3>1. PICK More : More = Off \cup { u }
      OBVIOUS
    <3>2. P!BestOf(More)' /\ More = Offered'
      BY <1>8, <2>2, <3>1
    <3> QED
      BY <2>2, <3>2, ListNext
  <2> QED
    BY <1>10, <2>1, <2>2
<1> QED
  BY <1>2, <1>3, <1>4, <1>11 DEF BeamInv, Beam, ListBest

LEMMA InsertionBeam ==
  ASSUME IInv, BeamInv, Insertion
  PROVE  BeamInv'
<1>1. /\ phase = "tag" /\ phase' = "tag" /\ (List!Walk \/ List!Place)
      /\ UNCHANGED << sentence, found, rows, h0, scores, h0Size, i, j, outcomes >>
  BY DEF Insertion, preVars, hypVars
<1>2. BeamAt(rows[h0], scores, h0Size, i)'
  BY <1>1, SameBeam DEF BeamInv, Beam
<1>3. walking /\ given \in Offered /\ P!BestOf(Offered \ { given }) /\ P!IInv /\ j < h0Size
  <2>1. walking
    BY <1>1 DEF List!Walk, List!Place
  <2> QED
    BY <1>1, <2>1 DEF IInv, ListMade, BeamInv, ListBest
<1>4. Offered' = Offered
  BY <1>1 DEF Offered, Extension
<1>5. PICK u, Off : u = given /\ Off = Offered \ { given }
  OBVIOUS
<1>6. u \notin Off /\ Off \in SUBSET Candidate /\ P!BestOf(Off) /\ Off \cup { u } = Offered
  BY <1>3, <1>5 DEF Offered
<1>7. /\ walking' => given' \in Offered'
      /\ P!BestOf(IF walking THEN Offered \ { given } ELSE Offered)'
  <2>1. CASE List!Walk
    <3>1. walking' /\ given' = given /\ UNCHANGED << P!array, lastIndex, canSize >>
      BY <1>3, <2>1 DEF List!Walk, List!array, P!array
    <3>2. P!BestOf(Off)'
      BY <1>6, <3>1, ListAssumptions, P!WalkBest
    <3>3. Off = Offered' \ { given' }
      BY <1>4, <1>5, <3>1
    <3> QED
      BY <1>3, <1>4, <3>1, <3>2, <3>3, ListNext
  <2>2. CASE List!Place
    <3>1. P!Place
      BY <2>2 DEF List!Place, P!Place, List!Worse, P!Worse, List!Slots, P!Slots
    <3>2. ~walking' /\ P!BestOf(Off \cup { u })'
      BY <1>3, <1>5, <1>6, <3>1, ListAssumptions, P!PlaceBest
    <3>3. PICK More : More = Off \cup { u }
      OBVIOUS
    <3>4. P!BestOf(More)' /\ More = Offered'
      BY <1>4, <1>6, <3>2, <3>3
    <3> QED
      BY <3>2, <3>4, ListNext
  <2> QED
    BY <1>1, <2>1, <2>2
<1> QED
  BY <1>1, <1>2, <1>3, <1>7 DEF BeamInv, Beam, ListBest

LEMMA NextHypothesisBeam ==
  ASSUME IInv, BeamInv, NextHypothesis
  PROVE  BeamInv'
<1>1. /\ phase = "tag" /\ phase' = "tag" /\ outcomes = {} /\ ~walking /\ j + 1 < h0Size
      /\ j' = j + 1 /\ outcomes' = DOMAIN sentence.weight[i]
      /\ UNCHANGED << sentence, found, rows, h0, scores, h0Size, i, listVars >>
  BY DEF NextHypothesis, Tagged, preVars, hypVars
<1>2. BeamAt(rows[h0], scores, h0Size, i)'
  BY <1>1, SameBeam DEF BeamInv, Beam
<1>3. P!BestOf(Offered) /\ j \in Nat /\ h0Size \in Nat
  BY <1>1 DEF IInv, TypeOK, Rows, BeamInv, ListBest
<1>4. Offered' = Offered
  <2>1. \A k \in 0 .. h0Size - 1 : k < j + 1 <=> k < j \/ k = j
    BY <1>3
  <2> QED
    BY <1>1, <2>1 DEF Offered, Extension
<1>5. PICK Off : Off = Offered
  OBVIOUS
<1>6. P!BestOf(Off)'
  <2>1. P!BestOf(Off) /\ UNCHANGED << P!array, lastIndex, canSize >>
    BY <1>1, <1>3, <1>5 DEF listVars, P!array
  <2> QED
    BY <2>1, ListAssumptions, P!WalkBest
<1>7. ~walking' /\ Off = Offered'
  BY <1>1, <1>4, <1>5 DEF listVars
<1>8. P!BestOf(IF walking THEN Offered \ { given } ELSE Offered)'
  BY <1>6, <1>7, ListNext
<1> QED
  BY <1>1, <1>2, <1>7, <1>8 DEF BeamInv, Beam, ListBest

LEMMA GenerateBeam ==
  ASSUME IInv, BeamInv, GenerateNBest
  PROVE  BeamInv'
<1>1. /\ phase = "tag" /\ phase' = "char" /\ outcomes = {} /\ ~walking /\ j + 1 >= h0Size
      /\ rows' = [rows EXCEPT ![h1] = [k \in Rows |-> IF k < canSize THEN NewRow(k) ELSE @[k]]]
      /\ scores' = [k \in Rows |-> IF k < canSize THEN Chosen(k).score ELSE scores[k]]
      /\ h0' = h1 /\ h0Size' = canSize /\ i' = i + 1
      /\ UNCHANGED << sentence, found >>
  BY DEF GenerateNBest, Tagged, preVars
<1>2. /\ IsSentence(sentence) /\ P!IInv /\ ~PreTagged(i) /\ i \in 0 .. sentence.len - 1
      /\ h0 \in {1, 2} /\ h1 \in {1, 2} /\ N \in Nat /\ h0Size \in Nat /\ j \in Nat /\ i \in Chars
      /\ Chars \subseteq Int
      /\ rows \in [{1, 2} -> [Rows -> [Chars -> Tag \cup { "INIT" }]]]
  BY <1>1, Sizes DEF IInv, TypeOK, ListMade, Rows, h1, Chars
<1>3. j < h0Size /\ P!BestOf(Offered) /\ BeamAt(rows[h0], scores, h0Size, i)
  BY <1>1 DEF BeamInv, Beam, ListBest
<1>4. /\ canSize \in 0 .. N
      /\ \A k \in 1 .. canSize : P!kept[k] = unit[P!chain[k]] /\ P!kept[k] \in Candidate
      /\ \A k, l \in 1 .. canSize : k <= l => P!kept[k].score >= P!kept[l].score
  BY <1>2, ListAssumptions, P!KeptSorted
<1>5. PICK R, S, n, p, Off, m, K, V, T :
        /\ R = rows[h0] /\ S = scores /\ n = h0Size /\ p = i /\ Off = Offered
        /\ m = canSize /\ K = P!kept /\ V = rows'[h0'] /\ T = scores'
  OBVIOUS
<1>6. ASSUME NEW x
      PROVE  x \in Off <=> \E k \in 0 .. n - 1, t \in DOMAIN sentence.weight[p] : x = Extension(S, p, k, t)
  <2>1. x \in Off => \E k \in 0 .. n - 1, t \in DOMAIN sentence.weight[p] : x = Extension(S, p, k, t)
    BY <1>5 DEF Offered
  <2>2. ASSUME NEW k \in 0 .. h0Size - 1, NEW t \in DOMAIN sentence.weight[i], x = Extension(scores, i, k, t)
        PROVE  x \in Off
    <3>1. x \in Candidate
      BY <1>1, <2>2, ExtensionType
    <3>2. k < j \/ (k = j /\ t \notin outcomes)
      BY <1>1, <1>2, <1>3
    <3> QED
      BY <1>5, <2>2, <3>1, <3>2 DEF Offered
  <2> QED
    BY <1>5, <2>1, <2>2
<1>7. P!BestIn(K, m, Off)
  BY <1>3, <1>5 DEF P!BestOf
<1>8. ASSUME NEW k \in 0 .. m - 1
      PROVE  /\ T[k] = K[k + 1].score
             /\ SameBefore(V[k], R[K[k + 1].index], p)
             /\ V[k][p] = K[k + 1].pocCode
  <2>1. k \in Rows /\ k < canSize /\ k + 1 \in 1 .. canSize
    BY <1>2, <1>4, <1>5 DEF Rows
  <2>2. Chosen(k) = K[k + 1]
    <3>1. List!chain = P!chain
      BY DEF List!chain, P!chain
    <3> QED
      BY <1>4, <1>5, <2>1, <3>1 DEF Chosen
  <2>3. T[k] = K[k + 1].score
    BY <1>1, <1>5, <2>1, <2>2
  <2>4. V[k] = NewRow(k)
    BY <1>1, <1>2, <1>5, <2>1
  <2>5. \A c \in Chars : V[k][c] = IF c < i THEN rows[h0][K[k + 1].index][c]
                                   ELSE IF c = i THEN K[k + 1].pocCode ELSE rows[h1][k][c]
    BY <2>2, <2>4 DEF NewRow
  <2>6. \A c \in 0 .. p - 1 : c \in Chars /\ c < i
    BY <1>2, <1>5 DEF Chars, IsSentence
  <2>7. SameBefore(V[k], R[K[k + 1].index], p)
    BY <1>5, <2>5, <2>6 DEF SameBefore
  <2>8. V[k][p] = K[k + 1].pocCode
    BY <1>2, <1>5, <2>5
  <2> QED
    BY <2>3, <2>7, <2>8
<1>9. BeamAt(V, T, m, p + 1)
  <2>1. p \in 0 .. sentence.len - 1 /\ ~PreTagged(p) /\ m \in 0 .. N
    BY <1>2, <1>4, <1>5
  <2>2. BeamAt(R, S, n, p)
    BY <1>3, <1>5
  <2>3. \A k, l \in 1 .. m : k <= l => K[k].score >= K[l].score
    BY <1>4, <1>5
  <2>4. Extended(R, S, n, p, m, K, V, T)
    BY <1>6, <1>7, <1>8, <2>1, <2>2, <2>3 DEF Extended
  <2> QED
    BY <1>2, <2>4, ExtendBeam
<1>10. BeamAt(rows[h0], scores, h0Size, i)'
  <2>1. PICK q : q = p + 1
    OBVIOUS
  <2>2. V = rows'[h0'] /\ T = scores' /\ m = h0Size' /\ q = i' /\ BeamAt(V, T, m, q)
    BY <1>1, <1>5, <1>9, <2>1
  <2> QED
    BY <1>1, <2>2, BeamNext
<1> QED
  BY <1>1, <1>10 DEF BeamInv, Beam, ListBest

(* From then on the hypotheses stay as they are. *)
LEMMA EndBeam ==
  ASSUME IInv, BeamInv, EndTagging \/ CombineRow \/ Return
  PROVE  BeamInv'
<1>1. /\ UNCHANGED << sentence, found, rows, h0, scores >>
      /\ phase' \in { "combine", "done" }
      /\ \/ phase = "char" /\ i = sentence.len /\ h0Size' = Results
         \/ phase = "combine" /\ UNCHANGED h0Size
  BY DEF EndTagging, CombineRow, Return, preVars, hypVars
<1>2. \E n \in 1 .. N : /\ BeamAt(rows[h0], scores, n, sentence.len)
                        /\ h0Size' = IF RetSize < n THEN RetSize ELSE n
  <2>1. CASE phase = "char" /\ i = sentence.len /\ h0Size' = Results
    BY <2>1 DEF BeamInv, Beam, BeamAt, Results
  <2>2. CASE phase = "combine" /\ UNCHANGED h0Size
    BY <2>2 DEF BeamInv, Beam
  <2> QED
    BY <1>1, <2>1, <2>2
<1>3. PICK n \in 1 .. N : /\ BeamAt(rows[h0], scores, n, sentence.len)
                          /\ h0Size' = IF RetSize < n THEN RetSize ELSE n
  BY <1>2
<1>4. PICK R, S, p : R = rows[h0] /\ S = scores /\ p = sentence.len
  OBVIOUS
<1>5. BeamAt(R, S, n, p)'
  BY <1>1, <1>3, <1>4, SameBeamAt
<1>6. R = rows'[h0'] /\ S = scores' /\ p = sentence'.len
  BY <1>1, <1>4
<1>7. BeamAt(rows[h0], scores, n, sentence.len)'
  BY <1>5, <1>6
<1> QED
  BY <1>1, <1>3, <1>7 DEF BeamInv, Beam, ListBest

LEMMA StutterBeam ==
  ASSUME BeamInv, UNCHANGED vars
  PROVE  BeamInv'
<1>1. UNCHANGED << sentence, phase, found, rows, h0, scores, h0Size, i, j, outcomes, listVars >>
  BY DEF vars, preVars, hypVars
<1>2. \A R, S, n, p : BeamAt(R, S, n, p)' <=> BeamAt(R, S, n, p)
  BY <1>1, SameBeamAt
<1>3. CASE phase = "pre"
  BY <1>1, <1>3 DEF BeamInv, Beam, ListBest
<1>4. CASE phase = "char"
  BY <1>1, <1>4, SameBeam DEF BeamInv, Beam, ListBest
<1>5. CASE phase = "tag"
  <2>1. BeamAt(rows[h0], scores, h0Size, i)'
    BY <1>1, <1>5, SameBeam DEF BeamInv, Beam
  <2>2. Offered' = Offered
    BY <1>1 DEF Offered, Extension
  <2>3. PICK Off : Off = IF walking THEN Offered \ { given } ELSE Offered
    OBVIOUS
  <2>4. P!BestOf(Off)'
    <3>1. P!BestOf(Off) /\ UNCHANGED << P!array, lastIndex, canSize >>
      BY <1>1, <1>5, <2>3 DEF listVars, P!array, BeamInv, ListBest
    <3> QED
      BY <3>1, ListAssumptions, P!WalkBest
  <2>5. Off = IF walking' THEN Offered' \ { given' } ELSE Offered'
    BY <1>1, <2>2, <2>3 DEF listVars
  <2>6. P!BestOf(IF walking THEN Offered \ { given } ELSE Offered)'
    BY <2>4, <2>5, ListNext
  <2> QED
    BY <1>1, <1>5, <2>1, <2>2, <2>6 DEF BeamInv, Beam, ListBest, listVars
<1>6. CASE phase \in { "combine", "done" }
  <2>1. PICK n \in 1 .. N : /\ BeamAt(rows[h0], scores, n, sentence.len)
                            /\ h0Size = IF RetSize < n THEN RetSize ELSE n
    BY <1>6 DEF BeamInv, Beam
  <2>2. PICK R, S, p : R = rows[h0] /\ S = scores /\ p = sentence.len
    OBVIOUS
  <2>3. BeamAt(R, S, n, p)'
    BY <1>2, <2>1, <2>2
  <2>4. R = rows'[h0'] /\ S = scores' /\ p = sentence'.len
    BY <1>1, <2>2
  <2>5. BeamAt(rows[h0], scores, n, sentence.len)'
    BY <2>3, <2>4
  <2> QED
    BY <1>1, <1>6, <2>1, <2>5 DEF BeamInv, Beam, ListBest
<1>7. CASE phase \notin { "pre", "char", "tag", "combine", "done" }
  BY <1>1, <1>7 DEF BeamInv, Beam, ListBest
<1> QED
  BY <1>3, <1>4, <1>5, <1>6, <1>7

LEMMA BeamInvariance == Spec => []BeamInv
<1>1. IInv /\ BeamInv /\ [Next]_vars => BeamInv'
  BY PreBeam, CopyBeam, SkipBeam, StartCharBeam, TagBeam, InsertionBeam, NextHypothesisBeam,
     GenerateBeam, EndBeam, StutterBeam DEF Next
<1> QED
  BY <1>1, InitBeam, Invariance, PTL DEF Spec
-----------------------------------------------------------------------------
(* What the beam is worth when all characters are tagged. *)

LEMMA TaggingsFinite ==
  ASSUME IsSentence(sentence)
  PROVE  IsFiniteSet(Taggings)
<1>1. IsFiniteSet(Chars)
  BY Sizes, FS_Interval DEF Chars
<1>2. IsFiniteSet(SUBSET Chars)
  BY <1>1, FS_SUBSET
<1> DEFINE begins == [t \in Taggings |-> { c \in Chars : t[c] = "B" }]
<1>3. begins \in [Taggings -> SUBSET Chars]
  OBVIOUS
<1>4. ASSUME NEW t \in Taggings, NEW r \in Taggings, begins[t] = begins[r] PROVE t = r
  <2>1. t \in [Chars -> Tag] /\ r \in [Chars -> Tag]
    BY DEF Taggings
  <2>2. ASSUME NEW c \in Chars PROVE t[c] = r[c]
    <3>1. t[c] = "B" <=> r[c] = "B"
      <4>1. c \in begins[t] <=> c \in begins[r]
        BY <1>4
      <4> QED
        BY <4>1
    <3>2. t[c] \in { "B", "E" } /\ r[c] \in { "B", "E" }
      BY <2>1 DEF Tag
    <3> QED
      BY <3>1, <3>2
  <2> QED
    BY <2>1, <2>2
<1>5. begins \in Injection(Taggings, SUBSET Chars)
  <2> HIDE DEF begins
  <2> QED
    BY <1>3, <1>4 DEF Injection, IsInjective
<1> QED
  BY <1>2, <1>5, FS_Injection

(* The first m of n different rows are m taggings; all n are all there are, *)
(* unless n = N.                                                            *)
LEMMA WholeRows ==
  ASSUME IsSentence(sentence), NEW R \in [Rows -> [Chars -> Tag \cup { "INIT" }]], NEW S, NEW n,
         BeamAt(R, S, n, sentence.len)
  PROVE  /\ \A k \in 0 .. n - 1 : R[k] \in Taggings /\ S[k] = Probability(R[k]) /\ S[k] \in Nat
         /\ \A k, l \in 0 .. n - 1 : k # l => R[k] # R[l]
         /\ \A t \in Taggings : \/ \E k \in 0 .. n - 1 : t = R[k]
                                \/ n = N /\ \A k \in 0 .. n - 1 : Probability(t) <= S[k]
<1>1. /\ Chars = 0 .. sentence.len - 1 /\ sentence.len \in 0 .. sentence.len
      /\ n \in 1 .. N /\ N \in Nat
  BY Sizes DEF BeamAt, Chars
<1>2. \A k \in 0 .. n - 1 : k \in Rows
  BY <1>1 DEF Rows
<1>3. ASSUME NEW k \in 0 .. n - 1
      PROVE  R[k] \in Taggings /\ S[k] = Probability(R[k]) /\ S[k] \in Nat
  <2>1. \A c \in Chars : Allowed(c, R[k][c])
    BY <1>1 DEF BeamAt
  <2>2. ASSUME NEW c \in Chars PROVE R[k][c] \in Tag
    <3>1. Allowed(c, R[k][c])
      BY <2>1
    <3>2. CASE PreTagged(c)
      BY <3>1, <3>2 DEF Allowed, PreTag, Tag
    <3>3. CASE ~PreTagged(c)
      BY <1>1, <3>1, <3>3 DEF Allowed, IsSentence
    <3> QED
      BY <3>2, <3>3
  <2>3. R[k] \in [Chars -> Tag]
    <3>1. R[k] \in [Chars -> Tag \cup { "INIT" }]
      BY <1>2
    <3> QED
      BY <2>2, <3>1
  <2>4. R[k] \in Taggings
    BY <2>1, <2>3 DEF Taggings, Allowed
  <2>5. S[k] = Probability(R[k])
    BY ProbabilityIs DEF BeamAt
  <2>6. UpTo(R[k])[sentence.len - 1] \in Nat
    BY <1>1, <2>1, UpToType
  <2> QED
    BY <2>4, <2>5, <2>6, ProbabilityIs
<1>4. ASSUME NEW k \in 0 .. n - 1, NEW l \in 0 .. n - 1, k # l PROVE R[k] # R[l]
  <2>1. ~SameBefore(R[k], R[l], sentence.len)
    BY <1>4 DEF BeamAt
  <2> QED
    BY <2>1 DEF SameBefore
<1>5. ASSUME NEW t \in Taggings
      PROVE  \/ \E k \in 0 .. n - 1 : t = R[k]
             \/ n = N /\ \A k \in 0 .. n - 1 : Probability(t) <= S[k]
  <2>1. CASE \E k \in 0 .. n - 1 : SameBefore(t, R[k], sentence.len)
    <3>1. PICK k \in 0 .. n - 1 : SameBefore(t, R[k], sentence.len)
      BY <2>1
    <3>2. t \in [Chars -> Tag] /\ R[k] \in [Chars -> Tag]
      BY <1>3 DEF Taggings
    <3>3. \A c \in Chars : t[c] = R[k][c]
      BY <1>1, <3>1 DEF SameBefore
    <3> QED
      BY <3>2, <3>3
  <2>2. CASE n = N /\ \A k \in 0 .. n - 1 : UpTo(t)[sentence.len - 1] <= S[k]
    BY <2>2, ProbabilityIs
  <2> QED
    BY <2>1, <2>2 DEF BeamAt
<1> QED
  BY <1>3, <1>4, <1>5

(* How many different rows there are. *)
LEMMA RowsCount ==
  ASSUME NEW R, NEW n \in Nat, \A k, l \in 0 .. n - 1 : k # l => R[k] # R[l],
         NEW T, T = { R[k] : k \in 0 .. n - 1 }
  PROVE  IsFiniteSet(T) /\ Cardinality(T) = n
<1> DEFINE f == [k \in 0 .. n - 1 |-> R[k]]
<1>1. IsFiniteSet(0 .. n - 1) /\ Cardinality(0 .. n - 1) = n
  BY FS_Interval
<1>2. f \in [0 .. n - 1 -> T] /\ (\A x \in T : \E k \in 0 .. n - 1 : f[k] = x)
      /\ \A k, l \in 0 .. n - 1 : k # l => f[k] # f[l]
  OBVIOUS
<1> HIDE DEF f
<1>3. f \in Surjection(0 .. n - 1, T)
  BY <1>2 DEF Surjection
<1>4. f \in Injection(0 .. n - 1, T)
  BY <1>2 DEF Injection, IsInjective
<1> QED
  BY <1>1, <1>3, <1>4, FS_Surjection

LEMMA MinOfThree ==
  ASSUME NEW a \in Nat, NEW b \in Nat, NEW c \in Nat, NEW x \in { a, b, c },
         x <= a, x <= b, x <= c
  PROVE  Min({ a, b, c }) = x
<1>1. { a, b, c } \in SUBSET Nat /\ { a, b, c } # {}
  OBVIOUS
<1>2. Min({ a, b, c }) \in { a, b, c } /\ \A m \in { a, b, c } : Min({ a, b, c }) <= m
  BY <1>1, MinOf
<1>3. PICK y : y = Min({ a, b, c })
  OBVIOUS
<1>4. (y = a \/ y = b \/ y = c) /\ y <= a /\ y <= b /\ y <= c
  BY <1>2, <1>3
<1>5. x = a \/ x = b \/ x = c
  OBVIOUS
<1>6. y = x
  BY <1>4, <1>5
<1> QED
  BY <1>3, <1>6

(***************************************************************************)
(* Keeping N prefixes at each character loses none of the N best taggings  *)
(* of the sentence: an outcome's probability depends on the position       *)
(* alone, so a prefix with N better ones beside it can never overtake.     *)
(***************************************************************************)
THEOREM AlwaysNBestExact == Spec => []NBestExact
<1>1. ASSUME IInv, BeamInv PROVE NBestExact
  <2> SUFFICES ASSUME phase = "combine"
               PROVE  LET result == [k \in 0 .. h0Size - 1 |-> rows[h0][k]]
                          chosen == { result[k] : k \in DOMAIN result }
                          wanted == Min({ N, RetSize, Cardinality(Taggings) })
                      IN /\ h0Size = wanted
                         /\ Cardinality(chosen) = h0Size
                         /\ chosen \subseteq Taggings
                         /\ \A k \in DOMAIN result : scores[k] = Probability(result[k])
                         /\ \A k \in DOMAIN result : k > 0 => scores[k - 1] >= scores[k]
                         /\ h0Size > 0 => \A t \in Taggings \ chosen : Probability(t) <= scores[h0Size - 1]
    BY DEF NBestExact
  <2>1. /\ IsSentence(sentence) /\ rows[h0] \in [Rows -> [Chars -> Tag \cup { "INIT" }]]
        /\ N \in Nat /\ RetSize \in Nat
    BY <1>1, SizeAssumption DEF IInv, TypeOK
  <2>2. PICK n \in 1 .. N : /\ BeamAt(rows[h0], scores, n, sentence.len)
                            /\ h0Size = IF RetSize < n THEN RetSize ELSE n
    BY <1>1 DEF BeamInv, Beam
  <2>3. PICK R, S, m : R = rows[h0] /\ S = scores /\ m = h0Size
    OBVIOUS
  <2>4. n \in Nat /\ m \in Nat /\ m <= n /\ m <= RetSize /\ (m = RetSize \/ m = n)
    BY <2>1, <2>2, <2>3
  <2>5. /\ \A k \in 0 .. n - 1 : R[k] \in Taggings /\ S[k] = Probability(R[k]) /\ S[k] \in Nat
        /\ \A k, l \in 0 .. n - 1 : k # l => R[k] # R[l]
        /\ \A t \in Taggings : \/ \E k \in 0 .. n - 1 : t = R[k]
                               \/ n = N /\ \A k \in 0 .. n - 1 : Probability(t) <= S[k]
    BY <2>1, <2>2, <2>3, WholeRows
  <2>6. \A k, l \in 0 .. n - 1 : k <= l => S[k] >= S[l]
    BY <2>2, <2>3 DEF BeamAt
  <2>7. \A k \in 0 .. m - 1 : k \in 0 .. n - 1
    BY <2>4
  <2>8. m = Min({ N, RetSize, Cardinality(Taggings) })
    <3>1. PICK All : All = { R[k] : k \in 0 .. n - 1 }
      OBVIOUS
    <3>2. IsFiniteSet(All) /\ Cardinality(All) = n
      BY <2>4, <2>5, <3>1, RowsCount
    <3>3. IsFiniteSet(Taggings) /\ Cardinality(Taggings) \in Nat
      BY <2>1, TaggingsFinite, FS_CardinalityType
    <3>4. n <= Cardinality(Taggings)
      <4>1. All \in SUBSET Taggings
        BY <2>5, <3>1
      <4> QED
        BY <3>2, <3>3, <4>1, FS_Subset
    <3>5. n # N => Cardinality(Taggings) = n
      BY <2>5, <3>1, <3>2
    <3>6. PICK c : c = Cardinality(Taggings)
      OBVIOUS
    <3>7. c \in Nat /\ n <= c /\ n <= N
      BY <2>1, <2>2, <3>3, <3>4, <3>6
    <3>8. m <= c /\ m <= N
      BY <2>1, <2>4, <3>7
    <3>9. m = N \/ m = RetSize \/ m = c
      BY <2>4, <3>5, <3>6
    <3> QED
      BY <2>1, <2>4, <3>6, <3>7, <3>8, <3>9, MinOfThree
  <2> DEFINE result == [k \in 0 .. m - 1 |-> R[k]]
             chosen == { result[k] : k \in DOMAIN result }
  <2>9. DOMAIN result = 0 .. m - 1 /\ \A k \in 0 .. m - 1 : result[k] = R[k]
    OBVIOUS
  <2>10. chosen = { R[k] : k \in 0 .. m - 1 }
    OBVIOUS
  <2>11. Cardinality(chosen) = m
    <3> HIDE DEF chosen
    <3>1. \A k, l \in 0 .. m - 1 : k # l => R[k] # R[l]
      BY <2>5, <2>7
    <3> QED
      BY <2>4, <2>10, <3>1, RowsCount
  <2>12. chosen \subseteq Taggings
    BY <2>5, <2>7, <2>10
  <2>13. \A k \in 0 .. m - 1 : S[k] = Probability(result[k])
    BY <2>5, <2>7, <2>9
  <2>14. \A k \in 0 .. m - 1 : k > 0 => S[k - 1] >= S[k]
    <3> SUFFICES ASSUME NEW k \in 0 .. m - 1, k > 0 PROVE S[k - 1] >= S[k]
      OBVIOUS
    <3>1. k - 1 \in 0 .. n - 1 /\ k \in 0 .. n - 1 /\ k - 1 <= k
      BY <2>4
    <3> QED
      BY <2>6, <3>1
  <2>15. ASSUME m > 0, NEW t \in Taggings \ chosen PROVE Probability(t) <= S[m - 1]
    <3>1. m - 1 \in 0 .. n - 1
      BY <2>4, <2>15
    <3>2. CASE \E k \in 0 .. n - 1 : t = R[k]
      <4>1. PICK k \in 0 .. n - 1 : t = R[k]
        BY <3>2
      <4>2. k \notin 0 .. m - 1
        BY <2>10, <2>15, <4>1
      <4>3. m - 1 <= k
        BY <2>4, <4>2
      <4>4. S[m - 1] >= S[k]
        BY <2>6, <3>1, <4>3
      <4>5. Probability(t) = S[k] /\ S[k] \in Nat /\ S[m - 1] \in Nat
        BY <2>5, <3>1, <4>1
      <4> QED
        BY <4>4, <4>5
    <3>3. CASE n = N /\ \A k \in 0 .. n - 1 : Probability(t) <= S[k]
      BY <3>1, <3>3
    <3> QED
      BY <2>5, <2>15, <3>2, <3>3
  <2> HIDE DEF chosen, result
  <2>16. /\ m = Min({ N, RetSize, Cardinality(Taggings) })
         /\ Cardinality(chosen) = m
         /\ chosen \subseteq Taggings
         /\ \A k \in DOMAIN result : S[k] = Probability(result[k])
         /\ \A k \in DOMAIN result : k > 0 => S[k - 1] >= S[k]
         /\ m > 0 => \A t \in Taggings \ chosen : Probability(t) <= S[m - 1]
    BY <2>8, <2>9, <2>11, <2>12, <2>13, <2>14, <2>15
  <2> QED
    BY <2>3, <2>16 DEF chosen, result
<1> QED
  BY <1>1, Invariance, BeamInvariance, PTL

(* The tag of each character that seg_sentence_best_with_me takes.          *)
LEMMA BestTagIs ==
  ASSUME IsSentence(sentence), NEW c \in Chars
  PROVE  /\ BestTag(c) \in DOMAIN sentence.weight[c]
         /\ \A t \in DOMAIN sentence.weight[c] : sentence.weight[c][t] <= sentence.weight[c][BestTag(c)]
<1>1. /\ DOMAIN sentence.weight[c] \subseteq { "B", "E" }
      /\ DOMAIN sentence.weight[c] # {}
      /\ \A t \in DOMAIN sentence.weight[c] : sentence.weight[c][t] \in Nat
  BY DEF IsSentence, Chars, Tag
<1>2. PICK w : w = sentence.weight[c]
  OBVIOUS
<1>3. BestTag(c) = IF "E" \in DOMAIN w /\ \A t \in DOMAIN w \ { "E" } : w["E"] > w[t] THEN "E" ELSE "B"
  BY <1>2 DEF BestTag
<1>4. /\ DOMAIN w \subseteq { "B", "E" } /\ DOMAIN w # {}
      /\ \A t \in DOMAIN w : w[t] \in Nat
  BY <1>1, <1>2
<1>5. CASE "E" \in DOMAIN w /\ \A t \in DOMAIN w \ { "E" } : w["E"] > w[t]
  <2>1. BestTag(c) = "E"
    BY <1>3, <1>5
  <2>2. \A t \in DOMAIN w : w[t] <= w["E"]
    BY <1>4, <1>5
  <2> QED
    BY <1>2, <1>5, <2>1, <2>2
<1>6. CASE ~("E" \in DOMAIN w /\ \A t \in DOMAIN w \ { "E" } : w["E"] > w[t])
  <2>1. BestTag(c) = "B"
    BY <1>3, <1>6
  <2>2. "B" \in DOMAIN w
    BY <1>4, <1>6
  <2>3. \A t \in DOMAIN w : w[t] <= w["B"]
    BY <1>4, <1>6, <2>2
  <2> QED
    BY <1>2, <2>1, <2>2, <2>3
<1> QED
  BY <1>5, <1>6

LEMMA BothMonotone ==
  ASSUME NEW a \in Nat, NEW b \in Nat, NEW v \in Nat, NEW w \in Nat, a <= b, v <= w
  PROVE  a * v <= b * w
<1>1. a * v <= b * v
  BY TimesMonotone
<1>2. v * b <= w * b
  BY TimesMonotone
<1>3. v * b = b * v /\ w * b = b * w /\ a * v \in Nat /\ b * v \in Nat /\ b * w \in Nat
  BY Z3
<1> QED
  BY <1>1, <1>2, <1>3

(* A row with the best tag everywhere has the best product. *)
LEMMA BestProduct ==
  ASSUME IsSentence(sentence), NEW t \in Taggings, NEW r \in Taggings,
         \A c \in Chars : ~PreTagged(c) => sentence.weight[c][t[c]] <= sentence.weight[c][r[c]]
  PROVE  Probability(t) <= Probability(r)
<1> DEFINE L == sentence.len
           Bad == { q \in 0 .. L : ~(UpTo(t)[q - 1] <= UpTo(r)[q - 1]) }
<1>1. L \in Nat /\ Chars = 0 .. L - 1
  BY DEF IsSentence, Chars
<1>2. \A c \in Chars : Allowed(c, t[c]) /\ Allowed(c, r[c])
  BY DEF Taggings, Allowed
<1>3. ASSUME Bad # {} PROVE FALSE
  <2>0. Bad \in SUBSET Nat
    BY <1>1
  <2>1. PICK q \in Bad : \A m \in Bad : q <= m
    <3> HIDE DEF Bad
    <3> QED
      BY <1>3, <2>0, ListAssumptions, P!LeastElement
  <2>2. q \in 0 .. L /\ q \in Int /\ ~(UpTo(t)[q - 1] <= UpTo(r)[q - 1])
    BY <2>1
  <2>3. q # 0
    BY <2>2, UpToIs
  <2>4. q - 1 \in 0 .. L /\ q - 1 \notin Bad /\ q - 1 \in Chars
    BY <1>1, <2>1, <2>2, <2>3
  <2>5. PICK a, b, v, w : /\ a = UpTo(t)[(q - 1) - 1] /\ b = UpTo(r)[(q - 1) - 1]
                          /\ v = Factor(q - 1, t[q - 1]) /\ w = Factor(q - 1, r[q - 1])
    OBVIOUS
  <2>6. a <= b
    BY <2>4, <2>5
  <2>7. a \in Nat /\ b \in Nat
    <3>1. \A c \in 0 .. (q - 1) - 1 : c \in Chars
      BY <1>1, <2>2
    <3> QED
      BY <1>2, <2>4, <2>5, <3>1, UpToType
  <2>8. v \in Nat /\ w \in Nat
    BY <1>1, <1>2, <2>4, <2>5, FactorType
  <2>9. v <= w
    BY <2>4, <2>5, <2>8 DEF Factor
  <2>10. UpTo(t)[q - 1] = a * v /\ UpTo(r)[q - 1] = b * w
    BY <1>1, <2>4, <2>5, UpToIs
  <2>11. a * v <= b * w
    BY <2>6, <2>7, <2>8, <2>9, BothMonotone
  <2> QED
    BY <2>2, <2>10, <2>11
<1>4. L \in 0 .. L
  BY <1>1
<1>5. UpTo(t)[L - 1] <= UpTo(r)[L - 1]
  BY <1>3, <1>4
<1> QED
  BY <1>5, ProbabilityIs

(***************************************************************************)
(* Where the dictionary fixed nothing, the first of several results is as  *)
(* probable as the one seg_sentence_best_with_me takes tag by tag.         *)
(***************************************************************************)
THEOREM OneResultAlwaysBest == Spec => []OneResultIsBest
<1>1. ASSUME IInv, BeamInv PROVE OneResultIsBest
  <2> DEFINE best == [c \in Chars |-> IF c = 0 THEN "B" ELSE seg_sentence_best_with_me[c]]
  <2> SUFFICES ASSUME phase = "done", found = {} PROVE scores[0] = Probability(best)
    BY DEF OneResultIsBest
  <2>1. /\ IsSentence(sentence) /\ rows[h0] \in [Rows -> [Chars -> Tag \cup { "INIT" }]]
        /\ N \in Nat
    BY <1>1, Sizes DEF IInv, TypeOK
  <2>2. PICK n \in 1 .. N : BeamAt(rows[h0], scores, n, sentence.len)
    BY <1>1 DEF BeamInv, Beam
  <2>3. PICK R, S : R = rows[h0] /\ S = scores
    OBVIOUS
  <2>4. /\ \A k \in 0 .. n - 1 : R[k] \in Taggings /\ S[k] = Probability(R[k]) /\ S[k] \in Nat
        /\ \A t \in Taggings : \/ \E k \in 0 .. n - 1 : t = R[k]
                               \/ n = N /\ \A k \in 0 .. n - 1 : Probability(t) <= S[k]
    BY <2>1, <2>2, <2>3, WholeRows
  <2>5. \A c : PreTagged(c) <=> c = 0
    BY DEF PreTagged
  <2>6. \A c \in Chars : c # 0 => best[c] = BestTag(c)
    BY DEF seg_sentence_best_with_me
  <2>7. best \in Taggings
    <3>1. ASSUME NEW c \in Chars
          PROVE  best[c] \in Tag /\ IF PreTagged(c) THEN best[c] = PreTag(c)
                                    ELSE best[c] \in DOMAIN sentence.weight[c]
      <4>1. CASE c = 0
        BY <2>5, <4>1 DEF PreTag, Tag
      <4>2. CASE c # 0
        <5>1. best[c] \in DOMAIN sentence.weight[c]
          BY <2>1, <2>6, <4>2, BestTagIs
        <5>2. DOMAIN sentence.weight[c] \subseteq Tag
          BY <2>1 DEF IsSentence, Chars
        <5> QED
          BY <2>5, <4>2, <5>1, <5>2
      <4> QED
        BY <4>1, <4>2
    <3>2. best \in [Chars -> Tag]
      BY <3>1
    <3> HIDE DEF best
    <3> QED
      BY <3>1, <3>2 DEF Taggings
  <2> HIDE DEF best
  <2>8. 0 \in 0 .. n - 1
    BY <2>1
  <2>9. S[0] <= Probability(best)
    <3>1. ASSUME NEW c \in Chars, ~PreTagged(c)
          PROVE  sentence.weight[c][R[0][c]] <= sentence.weight[c][best[c]]
      <4>1. R[0][c] \in DOMAIN sentence.weight[c]
        BY <2>4, <2>8, <3>1 DEF Taggings
      <4> QED
        BY <2>1, <2>5, <2>6, <3>1, <4>1, BestTagIs
    <3>2. Probability(R[0]) <= Probability(best)
      BY <2>1, <2>4, <2>7, <2>8, <3>1, BestProduct
    <3> QED
      BY <2>4, <2>8, <3>2
  <2>10. Probability(best) <= S[0]
    <3>1. CASE \E k \in 0 .. n - 1 : best = R[k]
      <4>1. PICK k \in 0 .. n - 1 : best = R[k]
        BY <3>1
      <4>2. S[0] >= S[k]
        <5>1. 0 <= k
          OBVIOUS
        <5> QED
          BY <2>2, <2>3, <2>8, <5>1 DEF BeamAt
      <4> QED
        BY <2>4, <2>8, <4>1, <4>2
    <3>2. CASE n = N /\ \A k \in 0 .. n - 1 : Probability(best) <= S[k]
      BY <2>8, <3>2
    <3> QED
      BY <2>4, <2>7, <3>1, <3>2
  <2>11. Probability(best) \in Nat
    <3>1. /\ sentence.len \in 0 .. sentence.len /\ Chars = 0 .. sentence.len - 1
      BY <2>1, Sizes DEF Chars
    <3>2. \A c \in 0 .. sentence.len - 1 : Allowed(c, best[c])
      BY <2>7, <3>1 DEF Taggings, Allowed
    <3> QED
      BY <2>1, <3>1, <3>2, UpToType, ProbabilityIs
  <2>12. S[0] \in Nat
    BY <2>4, <2>8
  <2> QED
    BY <2>3, <2>9, <2>10, <2>11, <2>12
<1> QED
  BY <1>1, Invariance, BeamInvariance, PTL
==============================================================================
