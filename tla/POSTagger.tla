------------------------------ MODULE POSTagger ------------------------------
(***************************************************************************)
(* The rest of analysis_mmmodel, source/src/me/CMA_ME_Analyzer.cc: the     *)
(* first of the tagger's results is combined (module Combine), the words   *)
(* of all results become strings, and POSTagger::tag_sentence_best of      *)
(* source/src/me/CMAPOSTagger.cc tags one result after the other.          *)
(*                                                                         *)
(* The strings and the tags of all results are in two lists; a result is   *)
(* known by the places where it begins in them.  tag_sentence_best indexes *)
(* both with one number, so the lists must stay in step.  Each entry is    *)
(* labelled here with the result and the unit it is for.                   *)
(***************************************************************************)
EXTENDS Combine

CONSTANTS
  Others,   (* The other results that may come with a text: sequences of   *)
            (* cuts, none or more.                                         *)
  TypeOf,   (* The type of each character.                                 *)
  TagsOf    (* posVec_: the tags of each word of the dictionaries.         *)

ASSUME OthersAssumption ==
  \A t \in Texts : \A r \in Others[t] :
    /\ r \in Seq(Range(r))
    /\ \A k \in 1 .. Len(r) : IsText(t.chars, r[k])
ASSUME TagsAssumption == \A d \in Dicts : \A w \in d.words : TagsOf[w] \in Seq(Range(TagsOf[w]))

VARIABLES
  others,   (* The cuts of the results after the first.                    *)
  words,    (* ret.segment_: the strings, [word, cand, unit].              *)
  metas,    (* ret.candMetas_: where each result begins, [seg, pos], as    *)
            (* far as its words are listed.                                *)
  cand,     (* The result that is tagged, 0 before the first.              *)
  index,    (* The word that is tagged.                                    *)
  pos,      (* ret.pos_: the tags, [tag, cand, unit].                      *)
  asked     (* What the model was asked last: the tags and the neighbours  *)
            (* in the context, and the best of the word's tags; or None.   *)

tagVars == << others, words, metas, cand, index, pos, asked >>
allVars == << vars, tagVars >>

None == [best |-> << >>]
Boundary == [tag |-> "BoUnD", cand |-> 0, unit |-> 0]

TagInit ==
  /\ Init
  /\ others \in Others[text]
  /\ words = << >>
  /\ metas = << >>
  /\ cand = 0
  /\ index = 1
  /\ pos = << >>
  /\ asked = None

results == 1 + Len(others)
unitsOf(r) == IF r = 1 THEN segment ELSE others[r - 1]

CombineFirst == Next /\ UNCHANGED tagVars
-----------------------------------------------------------------------------
(* Only the first result, which may have become shorter, is not as cut.    *)
Strings(r) ==
  IF r = 1 THEN out ELSE [k \in 1 .. Len(unitsOf(r)) |-> Chars(unitsOf(r)[k][1], unitsOf(r)[k][2])]

Labelled(r) == [k \in 1 .. Len(Strings(r)) |-> [word |-> Strings(r)[k], cand |-> r, unit |-> k]]

ListWords ==
  /\ phase = "done"
  /\ Len(metas) < results
  /\ words' = words \o Labelled(Len(metas) + 1)
  /\ metas' = Append(metas, [seg |-> Len(words), pos |-> 0])
  /\ UNCHANGED << vars, others, cand, index, pos, asked >>

Count(r) == (IF r = Len(metas) THEN Len(words) ELSE metas[r + 1].seg) - metas[r].seg

WordBegin == metas[cand].seg
WordEnd == WordBegin + Count(cand)

Between == Len(metas) = results /\ IF cand = 0 THEN TRUE ELSE index = WordEnd + 1

(* Mutant: the tags of every result are said to begin the list. *)
MutNextResult ==
  /\ Between /\ cand < results
  /\ cand' = cand + 1
  /\ index' = metas[cand + 1].seg + 1
  /\ UNCHANGED << vars, others, words, metas, pos, asked >>

NextResult ==
  /\ Between /\ cand < results
  /\ cand' = cand + 1
  /\ metas' = [metas EXCEPT ![cand + 1].pos = Len(pos)]
  /\ index' = metas[cand + 1].seg + 1
  /\ UNCHANGED << vars, others, words, pos, asked >>
-----------------------------------------------------------------------------
(* CTYPE_2_WTYPE. *)
CharToWordType ==
  [other |-> "other", digit |-> "number", chardigit |-> "number", punc |-> "punc",
   space |-> "punc", date |-> "date", letter |-> "letter"]

ASSUME TypesAssumption == \A t \in Texts : \A c \in Range(t.chars) : TypeOf[c] \in DOMAIN CharToWordType

(***************************************************************************)
(* getWordType over the characters of a word: the last one's type, or if   *)
(* it is a digit the first type that is none.                              *)
(***************************************************************************)
WordType(b, e) ==
  LET type(c) == TypeOf[text.chars[c]]
      notDigit == { c \in b + 1 .. e : type(c) # "digit" }
  IN CharToWordType[IF type(e) = "digit" /\ notDigit # {} THEN type(Min(notDigit)) ELSE type(e)]

TaggedUnit == unitsOf(cand)[index - WordBegin]

Tagging ==
  /\ cand > 0
  /\ index \in WordBegin + 1 .. WordEnd
  /\ TaggedUnit[1] < TaggedUnit[2]

TypeOfWord == WordType(TaggedUnit[1], TaggedUnit[2])

(* Mutant: what only was a word of the dictionary keeps its tags. *)
MutposSet == IF words[index].word \in dict.words \cup dict.hidden THEN TagsOf[words[index].word] ELSE << >>

(* A word that is absent has data 0, whose place in posVec_ is empty, and  *)
(* a disabled one has data < 0.                                            *)
posSet == IF words[index].word \in dict.words THEN TagsOf[words[index].word] ELSE << >>

Push(tag) ==
  /\ pos' = Append(pos, [tag |-> tag, cand |-> cand, unit |-> index - WordBegin])
  /\ index' = index + 1
  /\ UNCHANGED << vars, others, words, metas, cand >>

TagByType ==
  /\ Tagging /\ TypeOfWord # "other"
  /\ Push(TypeOfWord)
  /\ UNCHANGED asked

TagUnknown ==
  /\ Tagging /\ TypeOfWord = "other"
  /\ posSet = << >>
  /\ Push("default")
  /\ UNCHANGED asked

TagOnlyOne ==
  /\ Tagging /\ TypeOfWord = "other"
  /\ Len(posSet) = 1
  /\ Push(posSet[1])
  /\ UNCHANGED asked

(* Mutant: the boundary is that of the list, not of the result. *)
MutTagBefore(d) == IF index > d THEN pos[index - d] ELSE Boundary

(* tag_1 and tag_2. *)
TagBefore(d) == IF index > WordBegin + d THEN pos[index - d] ELSE Boundary

(* The context's words: to the left the list's, to the right the result's. *)
LeftWord == IF index > 1 THEN words[index - 1] ELSE Boundary
RightWord == IF index < WordEnd THEN words[index + 1] ELSE Boundary

(***************************************************************************)
(* The model's outcomes that are tags of the word, best first, are any     *)
(* selection of them; of a selection only its best one matters.  The code  *)
(* means to keep that, but indexes the tags with the value of a comparison *)
(* that holds, 1: the second tag.                                          *)
(***************************************************************************)
TagByModel ==
  /\ Tagging /\ TypeOfWord = "other"
  /\ Len(posSet) > 1
  /\ \E best \in Range(posSet) \cup { "default" } :
       /\ asked' = [best |-> << best >>, tag_1 |-> TagBefore(1), tag_2 |-> TagBefore(2),
                    left |-> LeftWord, right |-> RightWord]
       /\ Push(IF best = "default" THEN best ELSE posSet[2])

TagNext ==
  \/ CombineFirst \/ ListWords \/ NextResult
  \/ TagByType \/ TagUnknown \/ TagOnlyOne \/ TagByModel

TagSpec == TagInit /\ [][TagNext]_allVars /\ WF_allVars(TagNext)
-----------------------------------------------------------------------------
Tagged == cand = results /\ index = WordEnd + 1

(***************************************************************************)
(* Each result has as many tags as words, which begin at the places kept   *)
(* for it, and the tag of a word is there for that word: what getLexicon   *)
(* and getStrPOS pair belongs together, although a result is combined or   *)
(* shortened and another is not.                                           *)
(***************************************************************************)
TagsInStep ==
  Tagged =>
    /\ Len(pos) = Len(words)
    /\ \A r \in 1 .. results : \A k \in 1 .. Count(r) :
         /\ words[metas[r].seg + k].cand = r /\ words[metas[r].seg + k].unit = k
         /\ pos[metas[r].pos + k].cand = r /\ pos[metas[r].pos + k].unit = k

(***************************************************************************)
(* A tag is one the word may have: the type's of its own characters, or    *)
(* one of its entry in the dictionary, or the default one.  A disabled     *)
(* word does not have the tags of its entry.                               *)
(***************************************************************************)
TypeOfString(w) ==
  LET type(k) == TypeOf[w[k]]
      notDigit == { k \in 1 .. Len(w) : type(k) # "digit" }
  IN IF type(Len(w)) = "digit" /\ notDigit # {} THEN type(Min(notDigit)) ELSE type(Len(w))

TagsAllowed ==
  \A k \in 1 .. Len(pos) :
    LET w == words[k].word
        type == CharToWordType[TypeOfString(w)]
    IN pos[k].tag \in IF type # "other" THEN { type }
                      ELSE IF w \notin dict.words THEN { "default" }
                      ELSE Range(TagsOf[w]) \cup { "default" }

(***************************************************************************)
(* The model judges a word by the tags of the two words before it in the   *)
(* same result, the boundary standing for those before the first, and by   *)
(* no word of the next result.                                             *)
(***************************************************************************)
HistoryOfResult ==
  [][ asked' # asked =>
        LET IsTagOf(t, u) == IF u < 1 THEN t = Boundary ELSE t.cand = cand /\ t.unit = u
            unit == index - WordBegin
        IN /\ IsTagOf(asked'.tag_1, unit - 1)
           /\ IsTagOf(asked'.tag_2, unit - 2)
           /\ asked'.right.cand \in { 0, cand } ]_asked

(***************************************************************************)
(* "Only return the best result": of a word's tags the one the model finds *)
(* most probable.  Does not hold: it is always the second.                 *)
(***************************************************************************)
BestTag == [][asked' # asked => pos'[Len(pos')].tag = asked'.best[1]]_asked

(* Combining and tagging end. *)
AllTagged == <>Tagged
=============================================================================
