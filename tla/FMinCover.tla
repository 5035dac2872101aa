------------------------------ MODULE FMinCover ------------------------------
(***************************************************************************)
(* The dictionary approach of the analysis types 2 to 5: setOption and     *)
(* setAnalOption choose it, parseFMinCoverString cuts a text into runs of  *)
(* characters of one kind and each run into units, and createWordOffset    *)
(* numbers the units by where they begin.                                  *)
(* Source: source/src/fmincover/analysis_fmincover.cpp and                 *)
(* source/src/me/CMA_ME_Analyzer.cc.                                       *)
(*                                                                         *)
(* A unit is a pair << first, last + 1 >> of positions, counted from 0 as  *)
(* in the code.  Units may overlap: the result is meant for an index.      *)
(***************************************************************************)
EXTENDS Integers, Sequences, FiniteSets, FiniteSetsExt, SequencesExt

CONSTANTS
  Dicts,  (* The dictionaries, sets of words.                              *)
  Texts   (* The texts, sequences of characters.                           *)

CharType == { "OTHER", "DIGIT", "LETTER", "DATE", "CHARDIGIT", "PUNC", "SPACE" }

(***************************************************************************)
(* A character with the type that getCharType gives it where it stands:    *)
(* whether it is a space is asked first and of the character alone.  wide  *)
(* tells the two expanded types of digits and of letters apart; bytes is   *)
(* the character's length in its encoding.                                 *)
(***************************************************************************)
IsText(t) ==
  /\ t \in Seq(Range(t)) \ { << >> }
  /\ \A k \in 1 .. Len(t) : t[k].type \in CharType /\ t[k].wide \in BOOLEAN /\ t[k].bytes \in 1 .. 4
  /\ \A j, k \in 1 .. Len(t) :
       t[j].char = t[k].char => (t[j].type = "SPACE" <=> t[k].type = "SPACE")

ASSUME TextsAssumption == \A t \in Texts : IsText(t)

VARIABLES
  analysis,    (* "mmmodel", "pure_mmmodel", "fmincover" or "maxprefix".   *)
  analOption,  (* The flags; useMaxOffset is reserved and never set.       *)
  phase,       (* "options", "parse", "offset" or "done".                  *)
  dict,        (* The trie.                                                *)
  text,        (* words and types.                                         *)
  curIdx,      (* The character that is read,                              *)
  fsIdx,       (* and where the run began.                                 *)
  out,         (* The units.                                               *)
  wordOffset   (* Their offsets.                                           *)

vars == << analysis, analOption, phase, dict, text, curIdx, fsIdx, out, wordOffset >>

Init ==
  /\ analysis = "mmmodel"
  /\ analOption = [isMaxMatch |-> FALSE, doUnigram |-> FALSE,
                   noOverlap |-> FALSE, mergeAlphaDigit |-> FALSE]
  /\ phase = "options"
  /\ dict \in Dicts
  /\ text \in Texts
  /\ curIdx = 1
  /\ fsIdx = 0
  /\ out = << >>
  /\ wordOffset = << >>
-----------------------------------------------------------------------------
(* 1 is one of the many values that are not named. *)
AnalysisTypes == { 1, 2, 3, 4, 5, 77, 100 }

(* OPTION_ANALYSIS_TYPE sets flags and never takes one back. *)
setOption(nValue) ==
  /\ phase = "options"
  /\ analysis' = CASE nValue \in 2 .. 5 -> "fmincover"
                   [] nValue = 77 -> "pure_mmmodel"
                   [] nValue = 100 -> "maxprefix"
                   [] OTHER -> "mmmodel"
  /\ analOption' = [analOption EXCEPT !.isMaxMatch = @ \/ nValue = 2,
                                      !.noOverlap = @ \/ nValue \in { 2, 5 },
                                      !.doUnigram = @ \/ nValue = 4]
  /\ UNCHANGED << phase, dict, text, curIdx, fsIdx, out, wordOffset >>

(* ANAL_OPTION_MERGE_ALPHA_DIGIT. *)
setAnalOption(bValue) ==
  /\ phase = "options"
  /\ analOption' = [analOption EXCEPT !.mergeAlphaDigit = bValue]
  /\ UNCHANGED << analysis, phase, dict, text, curIdx, fsIdx, out, wordOffset >>

StartParse ==
  /\ phase = "options"
  /\ analysis = "fmincover"
  /\ phase' = "parse"
  /\ UNCHANGED << analysis, analOption, dict, text, curIdx, fsIdx, out, wordOffset >>
-----------------------------------------------------------------------------
(* Characters of CHAR_TYPE_OTHER: divideNormalString.                      *)

Ch(p) == text[p + 1]
Word(b, e) == [k \in 1 .. e - b |-> Ch(b + k - 1).char]

(* Where the words of two characters and more end that begin at p. *)
WordEnds(p, e) == { m \in p + 2 .. e : Word(p, m) \in dict }

dictLen(p, e) ==
  IF WordEnds(p, e) = {} THEN 1
  ELSE (IF analOption.isMaxMatch THEN Max(WordEnds(p, e)) ELSE Min(WordEnds(p, e))) - p

(* dLEndIdx: the end of the words that begin at p or inside one another.   *)
ClusterEnd(p, e) ==
  Min({ E \in p + 1 .. e : \A q \in p .. E - 1 : q + dictLen(q, e) <= E })

(* Mutant: a word inside the first one does not count. *)
MutHaveCross(p, e) == ClusterEnd(p, e) > p + dictLen(p, e)

haveCross(p, e) == \E q \in p + 1 .. ClusterEnd(p, e) - 1 : dictLen(q, e) > 1

(* Pieces from b to e: after the one at p goes on that at end[p].          *)
Pieces(b, e, piece, end) ==
  LET from[p \in b .. e] == IF p = e THEN << >> ELSE piece[p] \o from[end[p]]
  IN from[b]

(* One unit after another, none overlapping the one before. *)
Chain(b, E, e) ==
  Pieces(b, E, [q \in b .. E - 1 |-> << << q, q + dictLen(q, e) >> >>],
               [q \in b .. E - 1 |-> q + dictLen(q, e)])

Unigrams(b, e) == [k \in 1 .. e - b |-> << b + k - 1, b + k >>]

(* Each character, followed by the word that begins there. *)
Overlapping(b, E, e) ==
  Pieces(b, E, [q \in b .. E - 1 |-> IF dictLen(q, e) = 1 THEN << << q, q + 1 >> >>
                                     ELSE << << q, q + 1 >>, << q, q + dictLen(q, e) >> >>],
               [q \in b .. E - 1 |-> q + 1])

Cluster(p, e) ==
  LET E == ClusterEnd(p, e) IN
  IF haveCross(p, e)
    THEN IF analOption.noOverlap THEN Chain(p, E, e) ELSE Overlapping(p, E, e)
    ELSE IF analOption.doUnigram /\ E > p + 1 THEN Overlapping(p, E, e) ELSE << << p, E >> >>

divideNormalString(b, e) ==
  Pieces(b, e, [p \in b .. e - 1 |-> Cluster(p, e)], [p \in b .. e - 1 |-> ClusterEnd(p, e)])
-----------------------------------------------------------------------------
(* Digits and letters: divideDigitLetterString.                            *)

(* Digits and letters have two expanded types each, all others share one.  *)
ExpandedType(p) ==
  IF Ch(p).type \in { "DIGIT", "LETTER" } THEN << Ch(p).type, Ch(p).wide >> ELSE << "OTHER", FALSE >>

SameTypeEnd(p, e) == Min({ q \in p + 1 .. e : q = e \/ ExpandedType(q) # ExpandedType(p) })

(* One part, whole unless it is all of the string, and its characters.     *)
Part(b, p, e) ==
  LET q == SameTypeEnd(p, e) IN
  (IF p = b /\ q = e /\ ~analOption.noOverlap THEN << >> ELSE << << p, q >> >>)
    \o (IF analOption.doUnigram /\ p + 1 < q /\ ExpandedType(p)[2] THEN Unigrams(p, q) ELSE << >>)

Parts(b, e) ==
  Pieces(b, e, [p \in b .. e - 1 |-> Part(b, p, e)], [p \in b .. e - 1 |-> SameTypeEnd(p, e)])

(* Mutant: the whole string is kept as well when nothing may overlap. *)
Mut_divideDigitLetterString(b, e) ==
  << << b, e >> >> \o (IF analOption.mergeAlphaDigit THEN << >> ELSE Parts(b, e))

divideDigitLetterString(b, e) ==
  IF analOption.noOverlap
    THEN IF analOption.mergeAlphaDigit THEN << << b, e >> >> ELSE Parts(b, e)
    ELSE << << b, e >> >> \o Parts(b, e)

(* Mutant: the date's last character is given before the digits. *)
MutDateString(b, e) ==
  << << b, e >> >> \o
    (IF e - 1 > b /\ ~analOption.noOverlap
       THEN << << e - 1, e >> >> \o divideDigitLetterString(b, e - 1) ELSE << >>)

(* A run that ends with a date character: digits, then that character. *)
DateString(b, e) ==
  << << b, e >> >> \o
    (IF e - 1 > b /\ ~analOption.noOverlap
       THEN divideDigitLetterString(b, e - 1) \o << << e - 1, e >> >> ELSE << >>)

CharDigitString(b, e) ==
  << << b, e >> >> \o (IF analOption.doUnigram /\ e - 1 > b THEN Unigrams(b, e) ELSE << >>)

(* The type of a run's last character decides. *)
addFMinCString(b, e) ==
  CASE Ch(e - 1).type = "OTHER" -> divideNormalString(b, e)
    [] Ch(e - 1).type \in { "DIGIT", "LETTER" } -> divideDigitLetterString(b, e)
    [] Ch(e - 1).type = "DATE" -> DateString(b, e)
    [] Ch(e - 1).type = "CHARDIGIT" -> CharDigitString(b, e)
    [] Ch(e - 1).type = "PUNC" -> << << b, e >> >>
    [] Ch(e - 1).type = "SPACE" -> << >>
-----------------------------------------------------------------------------
(* Whether a run ends before position p. *)
Boundary(p) ==
  LET t_1 == Ch(p - 1).type
      t0 == Ch(p).type
  IN CASE t_1 = "PUNC" -> ~(Ch(p).char = Ch(p - 1).char /\ Ch(p).char = ".")
       [] t_1 = "DATE" -> TRUE
       [] t_1 \in { "DIGIT", "LETTER" } -> t0 \notin { "DATE", "DIGIT", "LETTER" }
       [] OTHER -> t0 # t_1


NextChar ==
  /\ phase = "parse"
  /\ curIdx < Len(text)
  /\ IF Boundary(curIdx)
       THEN /\ out' = out \o addFMinCString(fsIdx, curIdx)
            /\ fsIdx' = curIdx
       ELSE UNCHANGED << out, fsIdx >>
  /\ curIdx' = curIdx + 1
  /\ UNCHANGED << analysis, analOption, phase, dict, text, wordOffset >>

(* Mutant: a last run of one character is forgotten. *)
MutEndParse ==
  /\ phase = "parse"
  /\ curIdx >= Len(text)
  /\ out' = IF fsIdx < curIdx - 1 THEN out \o addFMinCString(fsIdx, curIdx) ELSE out
  /\ phase' = "offset"
  /\ UNCHANGED << analysis, analOption, dict, text, curIdx, fsIdx, wordOffset >>

EndParse ==
  /\ phase = "parse"
  /\ curIdx >= Len(text)
  /\ out' = IF fsIdx < curIdx THEN out \o addFMinCString(fsIdx, curIdx) ELSE out
  /\ phase' = "offset"
  /\ UNCHANGED << analysis, analOption, dict, text, curIdx, fsIdx, wordOffset >>

(* lastIdx is the largest beginning so far. *)
LastIdx(k) == Max({ out[m][1] : m \in 1 .. k })

createWordOffset ==
  /\ phase = "offset"
  /\ Len(wordOffset) < Len(out)
  /\ LET k == Len(wordOffset) + 1 IN
       wordOffset' = Append(wordOffset,
         IF k = 1 THEN 0
         ELSE IF out[k][1] > LastIdx(k - 1) THEN wordOffset[k - 1] + 1 ELSE wordOffset[k - 1])
  /\ UNCHANGED << analysis, analOption, phase, dict, text, curIdx, fsIdx, out >>

Return ==
  /\ phase = "offset"
  /\ Len(wordOffset) = Len(out)
  /\ phase' = "done"
  /\ UNCHANGED << analysis, analOption, dict, text, curIdx, fsIdx, out, wordOffset >>

Next ==
  \/ \E nValue \in AnalysisTypes : setOption(nValue)
  \/ \E bValue \in BOOLEAN : setAnalOption(bValue)
  \/ StartParse \/ NextChar \/ EndParse \/ createWordOffset \/ Return

Spec == Init /\ [][Next]_vars
-----------------------------------------------------------------------------
Parsed == phase \in { "offset", "done" }
Units == { out[k] : k \in 1 .. Len(out) }

(* Every character but spaces is in a unit, no space is in one, and no     *)
(* unit is given twice, however the flags are combined.                    *)
Covered ==
  Parsed =>
    /\ UNION { u[1] .. u[2] - 1 : u \in Units } = { p \in 0 .. Len(text) - 1 : Ch(p).type # "SPACE" }
    /\ Cardinality(Units) = Len(out)

(***************************************************************************)
(* The dictionary words that may be expected: the run of a character of    *)
(* CHAR_TYPE_OTHER ends at the next one of another type, and the shortest  *)
(* (with isMaxMatch the longest) word that begins there is the one looked  *)
(* for.                                                                    *)
(***************************************************************************)
RunEnd(p) == Min({ Len(text) } \cup { q \in p .. Len(text) - 1 : Ch(q).type # "OTHER" })

WordsAt(p) == { << p, e >> : e \in { m \in p + 2 .. RunEnd(p) : Word(p, m) \in dict } }

Preferred(p) ==
  { w \in WordsAt(p) : \A v \in WordsAt(p) :
      IF analOption.isMaxMatch THEN v[2] <= w[2] ELSE w[2] <= v[2] }

OtherUnits == { u \in Units : Ch(u[1]).type = "OTHER" /\ u[2] > u[1] + 1 }

(***************************************************************************)
(* When units may overlap, the words given are exactly these, one from     *)
(* every character where there is one: following only clusters of words    *)
(* that touch, and going on behind a cluster, misses none.                 *)
(***************************************************************************)
EveryWordFound ==
  Parsed /\ ~analOption.noOverlap =>
    OtherUnits = UNION { Preferred(p) : p \in { q \in 0 .. Len(text) - 1 : Ch(q).type = "OTHER" } }

(***************************************************************************)
(* With noOverlap, and without doUnigram, the units cut the text: each     *)
(* begins where the one before ended, spaces aside.  In a run of           *)
(* CHAR_TYPE_OTHER each is the preferred word of its first character.      *)
(***************************************************************************)
CutWithoutOverlap ==
  Parsed /\ analOption.noOverlap /\ ~analOption.doUnigram =>
    /\ \A k \in 2 .. Len(out) :
         /\ out[k - 1][2] <= out[k][1]
         /\ \A p \in out[k - 1][2] .. out[k][1] - 1 : Ch(p).type = "SPACE"
    /\ \A u \in Units : Ch(u[1]).type = "OTHER" =>
         u \in IF WordsAt(u[1]) = {} THEN { << u[1], u[1] + 1 >> } ELSE Preferred(u[1])

(* Units have the same offset exactly when they begin at the same          *)
(* character, and offsets grow along the text.                             *)
OffsetsFollowText ==
  phase = "done" =>
    \A k, m \in 1 .. Len(out) : wordOffset[k] < wordOffset[m] <=> out[k][1] < out[m][1]

(***************************************************************************)
(* What CMA_ME_Analyzer.h says of the flag: "without any overlap".  Does   *)
(* not hold: when analysis type 4 was set before type 5, doUnigram stays   *)
(* set, and a word is given together with its characters.                  *)
(***************************************************************************)
WithoutAnyOverlap ==
  Parsed /\ analOption.noOverlap => \A u, v \in Units : u # v => u[2] <= v[1] \/ v[2] <= u[1]
=============================================================================
