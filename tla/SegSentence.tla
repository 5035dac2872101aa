----------------------------- MODULE SegSentence -----------------------------
(***************************************************************************)
(* SegTagger::seg_sentence: the N most probable ways to cut a sentence     *)
(* into words.  Source: source/src/me/CMAPOCTagger.cc.                     *)
(*                                                                         *)
(* preProcess tags the long words of the dictionary, B for the first       *)
(* character of a word and E for the others; every character that is left  *)
(* is tagged by the maximum entropy model, extending each of the at most N *)
(* hypotheses kept so far with each outcome; and combinePOCToWord turns a  *)
(* row of tags into word offsets.                                          *)
(*                                                                         *)
(* The model's context is made of characters and types, never of tags, so  *)
(* an outcome's probability depends on the position alone.  It is a        *)
(* positive integer here, so that products are exact.  Positions count     *)
(* from 0, as in the code.                                                 *)
(***************************************************************************)
EXTENDS Integers, Sequences, FiniteSets, FiniteSetsExt

CONSTANTS
  N,              (* How many hypotheses are kept.                         *)
  RetSize,        (* How many results are wanted.                          *)
  MinPreWordLen,  (* MIN_PRE_WORD_LEN.                                     *)
  Sentences       (* The sentences that may be analysed, see below.        *)

Tag == { "B", "E" }

(***************************************************************************)
(* What the analysis sees of a sentence:                                   *)
(*   match[s]   where the longest dictionary word that begins at s ends    *)
(*              (the first position after it), 0 when there is none;       *)
(*   other[s]   that word is of WORD_TYPE_OTHER: no number, date or the    *)
(*              like;                                                      *)
(*   space[i]   character i is CHAR_TYPE_SPACE;                            *)
(*   weight[i]  the probability of each outcome of eval_all.               *)
(***************************************************************************)
IsSentence(s) ==
  /\ s.len \in Nat \ {0}
  /\ s.match \in [0 .. s.len - 1 -> 0 .. s.len]
  /\ s.other \in [0 .. s.len - 1 -> BOOLEAN]
  /\ s.space \in [0 .. s.len - 1 -> BOOLEAN]
  /\ DOMAIN s.weight = 0 .. s.len - 1
  /\ \A i \in 0 .. s.len - 1 : /\ DOMAIN s.weight[i] \subseteq Tag
                               /\ DOMAIN s.weight[i] # {}
                               /\ \A t \in DOMAIN s.weight[i] : s.weight[i][t] \in Nat \ {0}

ASSUME SizeAssumption == N \in Nat \ {0} /\ RetSize \in Nat /\ MinPreWordLen \in Nat \ {0, 1}
ASSUME SentencesAssumption == \A s \in Sentences : IsSentence(s)

VARIABLES
  sentence,  (* words and types.                                           *)
  phase,     (* "pre", "char", "tag", "combine" or "done".                 *)
  start,     (* preProcess: where the next word may begin.                 *)
  found,     (* History: the words preProcess tagged.                      *)
  past,      (* preProcess wrote to the place past the end of _array1[0].  *)
  rows,      (* rows[a][k]: _array1[k] (a = 1) and _array2[k] (a = 2).     *)
  h0,        (* Which of the two holds the hypotheses; h1 is the other.    *)
  scores,    (* scores[k]: the score of hypothesis k.                      *)
  h0Size,    (* How many hypotheses there are.                             *)
  i,         (* The character being tagged.                                *)
  j,         (* The hypothesis being extended.                             *)
  outcomes,  (* The outcomes tag_word has yet to offer.                    *)
  segment,   (* The word offsets of each result.                           *)
  unit, previous, lastIndex, canSize, walking, given, lIndex, cIndex

listVars == << unit, previous, lastIndex, canSize, walking, given, lIndex, cIndex >>
preVars == << start, found, past >>
hypVars == << rows, h0, scores, h0Size >>
vars == << sentence, phase, preVars, hypVars, i, j, outcomes, segment, listVars >>

Candidate == [score : Nat, index : 0 .. N - 1, pocCode : Tag]
AnyCandidate == [score |-> 0, index |-> 0, pocCode |-> "B"]

(* candidates, lastIndex and canSize, with insertCandidate. *)
List == INSTANCE NBest WITH Unit <- Candidate, AnyUnit <- AnyCandidate

Chars == 0 .. sentence.len - 1
Rows == 0 .. N - 1
h1 == 3 - h0

Init ==
  /\ sentence \in Sentences
  /\ phase = "pre"
  /\ start = 0
  /\ found = {}
  /\ past = FALSE
  /\ rows = [a \in {1, 2} |-> [k \in Rows |-> [c \in Chars |->
                IF c = 0 THEN "B" ELSE "INIT"]]]
  /\ h0 = 1
  /\ scores = [k \in Rows |-> 1]
  /\ h0Size = 1
  /\ i = 0
  /\ j = 0
  /\ outcomes = {}
  /\ segment = << >>
  /\ List!Init
-----------------------------------------------------------------------------
(* The first row is tagged, then copied to all the others (CopyRows).      *)

LongWord(s) == sentence.match[s] - s >= MinPreWordLen /\ sentence.other[s]

(* Mutant: the character after a word is left to the model. *)
MutPreTags(s, e) ==
  [c \in Chars |-> IF c = s THEN "B" ELSE IF c \in s .. e - 1 THEN "E" ELSE rows[1][0][c]]

(***************************************************************************)
(* The tags of a word from s to e - 1; the character after it begins one.  *)
(* That tag is also written when e is the length of the sentence, one      *)
(* place past the row: past.                                               *)
(***************************************************************************)
PreTags(s, e) ==
  [c \in Chars |-> IF c \in { s, e } THEN "B"
                   ELSE IF c \in s .. e - 1 THEN "E" ELSE rows[1][0][c]]

preProcess ==
  /\ phase = "pre"
  /\ start < sentence.len
  /\ IF LongWord(start)
       THEN /\ rows' = [rows EXCEPT ![1][0] = PreTags(start, sentence.match[start])]
            /\ start' = sentence.match[start]
            /\ found' = found \cup { << start, sentence.match[start] >> }
            /\ past' = (past \/ sentence.match[start] = sentence.len)
       ELSE /\ start' = start + 1
            /\ UNCHANGED << rows, found, past >>
  /\ UNCHANGED << sentence, phase, h0, scores, h0Size, i, j, outcomes, segment, listVars >>

CopyRows ==
  /\ phase = "pre"
  /\ start >= sentence.len
  /\ rows' = [a \in {1, 2} |-> [k \in Rows |-> rows[1][0]]]
  /\ phase' = "char"
  /\ UNCHANGED << sentence, preVars, h0, scores, h0Size, i, j, outcomes, segment, listVars >>
-----------------------------------------------------------------------------
(* Only _array1[0] is asked which characters are tagged already. *)
(* Mutant: a tagged character is not passed over. *)
MutSkipChar ==
  /\ phase = "char"
  /\ i < sentence.len
  /\ rows[1][0][i] # "INIT"
  /\ UNCHANGED vars

SkipChar ==
  /\ phase = "char"
  /\ i < sentence.len
  /\ rows[1][0][i] # "INIT"
  /\ i' = i + 1
  /\ UNCHANGED << sentence, phase, preVars, hypVars, j, outcomes, segment, listVars >>

StartChar ==
  /\ phase = "char"
  /\ i < sentence.len
  /\ rows[1][0][i] = "INIT"
  /\ List!Reset
  /\ phase' = "tag"
  /\ j' = 0
  /\ outcomes' = DOMAIN sentence.weight[i]
  /\ UNCHANGED << sentence, preVars, hypVars, i, segment >>

(* Mutant: every hypothesis is extended as if it were the best one. *)
MutExtend(t) == [score |-> sentence.weight[i][t] * scores[0], index |-> j, pocCode |-> t]

Extend(t) == [score |-> sentence.weight[i][t] * scores[j], index |-> j, pocCode |-> t]

(* Mutant: a full list is offered every outcome. *)
Mut_tag_word ==
  /\ phase = "tag"
  /\ ~walking
  /\ \E t \in outcomes :
       /\ outcomes' = outcomes \ { t }
       /\ List!InsertHead(Extend(t)) \/ List!InsertLast(Extend(t)) \/ List!StartWalk(Extend(t))
  /\ UNCHANGED << sentence, phase, preVars, hypVars, i, j, segment >>

(***************************************************************************)
(* tag_word offers its outcomes one by one.  Which comes first is left     *)
(* open: eval_all is called without sorting.                               *)
(***************************************************************************)
tag_word ==
  /\ phase = "tag"
  /\ ~walking
  /\ \E t \in outcomes :
       /\ outcomes' = outcomes \ { t }
       /\ IF List!Full(Extend(t)) THEN UNCHANGED listVars
          ELSE List!insertCandidate(Extend(t))
  /\ UNCHANGED << sentence, phase, preVars, hypVars, i, j, segment >>

Insertion ==
  /\ phase = "tag"
  /\ List!Walk \/ List!Place
  /\ UNCHANGED << sentence, phase, preVars, hypVars, i, j, outcomes, segment >>

Tagged == phase = "tag" /\ outcomes = {} /\ ~walking

NextHypothesis ==
  /\ Tagged
  /\ j + 1 < h0Size
  /\ j' = j + 1
  /\ outcomes' = DOMAIN sentence.weight[i]
  /\ UNCHANGED << sentence, phase, preVars, hypVars, i, segment, listVars >>

(* The candidate that becomes hypothesis k. *)
Chosen(k) == unit[List!chain[k + 1]]

(* Mutant: the tags before i are taken from the hypothesis with the        *)
(* candidate's own rank instead of the one it extends.                     *)
MutNewRow(k) == [c \in Chars |-> IF c < i THEN rows[h0][k][c]
                                 ELSE IF c = i THEN Chosen(k).pocCode ELSE rows[h1][k][c]]

NewRow(k) == [c \in Chars |-> IF c < i THEN rows[h0][Chosen(k).index][c]
                              ELSE IF c = i THEN Chosen(k).pocCode ELSE rows[h1][k][c]]

(* The N best become the hypotheses: h1 is filled and swapped with h0. *)
GenerateNBest ==
  /\ Tagged
  /\ j + 1 >= h0Size
  /\ rows' = [rows EXCEPT ![h1] = [k \in Rows |-> IF k < canSize THEN NewRow(k) ELSE @[k]]]
  /\ scores' = [k \in Rows |-> IF k < canSize THEN Chosen(k).score ELSE scores[k]]
  /\ h0' = h1
  /\ h0Size' = canSize
  /\ lastIndex' = -1
  /\ i' = i + 1
  /\ phase' = "char"
  /\ UNCHANGED << sentence, preVars, j, outcomes, segment,
                  unit, previous, canSize, walking, given, lIndex, cIndex >>
-----------------------------------------------------------------------------
(* The first position at or after c that is not a space, or the length.    *)
SkipSpaces(c) == Min({ p \in c .. sentence.len : p = sentence.len \/ ~sentence.space[p] })

(* Mutant: one character is lost after each word. *)
MutCombine(tags) ==
  LET WordEnd(b) == Min({ p \in b + 1 .. sentence.len : p = sentence.len \/ tags[p] = "B" })
      from[b \in 0 .. sentence.len] ==
        IF b = sentence.len THEN << >>
        ELSE << << b, WordEnd(b) >> >> \o from[SkipSpaces(Min({ sentence.len, WordEnd(b) + 1 }))]
  IN from[SkipSpaces(0)]

(***************************************************************************)
(* combinePOCToWord: a word goes from a character that is not a space to   *)
(* the next character tagged B; then spaces are skipped.                   *)
(***************************************************************************)
combinePOCToWord(tags) ==
  LET WordEnd(b) == Min({ p \in b + 1 .. sentence.len : p = sentence.len \/ tags[p] = "B" })
      from[b \in 0 .. sentence.len] ==
        IF b = sentence.len THEN << >>
        ELSE << << b, WordEnd(b) >> >> \o from[SkipSpaces(WordEnd(b))]
  IN from[SkipSpaces(0)]

(* Mutant: the first outcome is taken for E's, whichever it is. *)
MutBestTag(c) ==
  LET weight == sentence.weight[c]
      first == CHOOSE t \in DOMAIN weight : TRUE
  IN IF \A t \in DOMAIN weight \ { first } : weight[first] > weight[t] THEN "E" ELSE "B"

(* E when its probability is above one half. *)
BestTag(c) ==
  LET weight == sentence.weight[c]
  IN IF "E" \in DOMAIN weight /\ \A t \in DOMAIN weight \ { "E" } : weight["E"] > weight[t]
     THEN "E" ELSE "B"

(* Used instead of seg_sentence when one result is wanted. *)
seg_sentence_best_with_me == [c \in Chars |-> BestTag(c)]

Results == IF RetSize < h0Size THEN RetSize ELSE h0Size

EndTagging ==
  /\ phase = "char"
  /\ i = sentence.len
  /\ h0Size' = Results
  /\ phase' = "combine"
  /\ UNCHANGED << sentence, preVars, rows, h0, scores, i, j, outcomes, segment, listVars >>

CombineRow ==
  /\ phase = "combine"
  /\ Len(segment) < h0Size
  /\ segment' = Append(segment, combinePOCToWord(rows[h0][Len(segment)]))
  /\ UNCHANGED << sentence, phase, preVars, hypVars, i, j, outcomes, listVars >>

Return ==
  /\ phase = "combine"
  /\ Len(segment) = h0Size
  /\ phase' = "done"
  /\ UNCHANGED << sentence, preVars, hypVars, i, j, outcomes, segment, listVars >>

Next ==
  \/ preProcess \/ CopyRows
  \/ SkipChar \/ StartChar
  \/ tag_word \/ Insertion \/ NextHypothesis \/ GenerateNBest
  \/ EndTagging \/ CombineRow \/ Return

Spec == Init /\ [][Next]_vars /\ WF_vars(Next)
-----------------------------------------------------------------------------
(***************************************************************************)
(* Types; every index into scores and candidates lies within them, and     *)
(* every index into rows but one: preProcess writes past the end of the    *)
(* first row when, and only when, the sentence ends in a word it found.    *)
(***************************************************************************)
TypeOK ==
  /\ IsSentence(sentence)
  /\ phase \in { "pre", "char", "tag", "combine", "done" }
  /\ start \in 0 .. sentence.len
  /\ past = (\E w \in found : w[2] = sentence.len)
  /\ rows \in [{1, 2} -> [Rows -> [Chars -> Tag \cup { "INIT" }]]]
  /\ h0 \in {1, 2}
  /\ scores \in [Rows -> Nat]
  /\ h0Size \in 0 .. N
  /\ i \in 0 .. sentence.len
  /\ j \in Rows
  /\ outcomes \subseteq Tag
  /\ List!TypeOK

(* The taggings that agree with the words preProcess found, and how        *)
(* probable each one is.                                                   *)
PreTagged(c) == c = 0 \/ \E w \in found : c \in w[1] .. w[2]
PreTag(c) == IF c = 0 \/ \E w \in found : c \in { w[1], w[2] } THEN "B" ELSE "E"

Taggings ==
  { t \in [Chars -> Tag] :
      \A c \in Chars : IF PreTagged(c) THEN t[c] = PreTag(c)
                       ELSE t[c] \in DOMAIN sentence.weight[c] }

Probability(t) ==
  LET upTo[c \in -1 .. sentence.len - 1] ==
        IF c = -1 THEN 1
        ELSE upTo[c - 1] * (IF PreTagged(c) THEN 1 ELSE sentence.weight[c][t[c]])
  IN upTo[sentence.len - 1]

(***************************************************************************)
(* The beam is exact.  The hypotheses returned are different taggings, in  *)
(* order, each with its own probability as its score; there are as many as *)
(* asked for, or as exist; and no tagging left out is more probable.       *)
(* Although only N prefixes are kept at each character, h0 and h1 share    *)
(* the two arrays and only part of a row is copied.                        *)
(***************************************************************************)
NBestExact ==
  phase = "combine" =>
    LET result == [k \in 0 .. h0Size - 1 |-> rows[h0][k]]
        chosen == { result[k] : k \in DOMAIN result }
        wanted == Min({ N, RetSize, Cardinality(Taggings) })
    IN /\ h0Size = wanted
       /\ Cardinality(chosen) = h0Size
       /\ chosen \subseteq Taggings
       /\ \A k \in DOMAIN result : scores[k] = Probability(result[k])
       /\ \A k \in DOMAIN result : k > 0 => scores[k - 1] >= scores[k]
       /\ h0Size > 0 => \A t \in Taggings \ chosen : Probability(t) <= scores[h0Size - 1]

(***************************************************************************)
(* A dictionary word found by preProcess is one word of every result: no   *)
(* later word, tag or row copy cuts or lengthens it.                       *)
(***************************************************************************)
WordsStayWhole ==
  phase = "done" =>
    \A k \in 1 .. Len(segment) : \A w \in found :
      \E s \in 1 .. Len(segment[k]) : segment[k][s] = w

(***************************************************************************)
(* Each result cuts the sentence without loss: its words are not empty,    *)
(* begin with a character that is no space, do not overlap, and hold every *)
(* character but spaces between words.                                     *)
(***************************************************************************)
SegmentsCover ==
  \A k \in 1 .. Len(segment) :
    LET words == segment[k] IN
    /\ \A s \in 1 .. Len(words) : /\ words[s][1] < words[s][2]
                                  /\ ~sentence.space[words[s][1]]
                                  /\ s > 1 => words[s - 1][2] <= words[s][1]
    /\ \A c \in Chars : \/ sentence.space[c]
                        \/ \E s \in 1 .. Len(words) : c \in words[s][1] .. words[s][2] - 1

(***************************************************************************)
(* Asking for one result and asking for several go through different       *)
(* functions.  Where the dictionary fixed nothing they agree: the first of *)
(* several results is as probable as the only one.                         *)
(***************************************************************************)
OneResultIsBest ==
  (phase = "done" /\ found = {}) =>
    scores[0] = Probability([c \in Chars |-> IF c = 0 THEN "B" ELSE seg_sentence_best_with_me[c]])

(* The analysis of a sentence ends: no insertion and no loop runs on. *)
Terminates == <>(phase = "done")
=============================================================================
