------------------------------- MODULE Combine -------------------------------
(***************************************************************************)
(* From word offsets to words: combineRetWithTrie, toCombine and           *)
(* rmEmptyUnits of meanainner, then createStringLexicon.                   *)
(* Source: source/src/me/CMA_ME_Analyzer.cc.                               *)
(*                                                                         *)
(* The tagger cuts a sentence into words.  One pass over them, following   *)
(* the dictionary's trie, joins neighbours that together are a word of the *)
(* dictionary.  The words are kept as offsets, an end of 0 marks one that  *)
(* was joined to another or dropped; such holes are closed, and the words  *)
(* up to the first that is still empty become strings.                     *)
(*                                                                         *)
(* segment, two numbers a word in the code, is a sequence of pairs, so     *)
(* that "+ 2" there is "+ 1" here and endIdx is Len(segment) + 1.          *)
(* Offsets into the text count from 0, as in the code.                     *)
(***************************************************************************)
EXTENDS Integers, Sequences, FiniteSets, FiniteSetsExt, SequencesExt

CONSTANTS
  Space,   (* A character that is CHAR_TYPE_SPACE.                         *)
  Dicts,   (* The dictionaries: [words, hidden], two sets of words.        *)
  Texts    (* The texts: [chars, cuts], characters and word offsets.       *)

(* The words of a text are not empty, in order, and miss only spaces. *)
IsText(chars, cuts) ==
  /\ chars \in Seq(Range(chars))
  /\ cuts \in Seq(Nat \X Nat)
  /\ \A k \in 1 .. Len(cuts) :
       /\ cuts[k][1] < cuts[k][2]
       /\ cuts[k][2] \in 1 .. Len(chars)
       /\ cuts[k][1] >= IF k = 1 THEN 0 ELSE cuts[k - 1][2]
  /\ \A c \in 1 .. Len(chars) :
       chars[c] # Space => \E k \in 1 .. Len(cuts) : c - 1 \in cuts[k][1] .. cuts[k][2] - 1

ASSUME TextsAssumption == \A t \in Texts : IsText(t.chars, t.cuts)
ASSUME DictsAssumption ==
  \A d \in Dicts :
    /\ d.words \cap d.hidden = {} /\ << >> \notin d.words
    /\ \A w \in d.words \cup d.hidden : w \in Seq(Range(w))

VARIABLES
  dict,         (* The trie: words have data > 0, disabled ones data < 0.  *)
  text,         (* words and types, and the offsets the tagger found.      *)
  phase,        (* "combine", "pack", "lexicon" or "done".                 *)
  segment,      (* The offsets.                                            *)
  i,            (* The word that is read.                                  *)
  continueSch,  (* The search continues that of the word before.           *)
  begin,        (* The first word of the search,                           *)
  lastWordEnd,  (* and the last one that ended a dictionary word.          *)
  node,         (* The characters read since begin.                        *)
  idx,          (* rmEmptyUnits: where the next word goes,                 *)
  validIdx,     (* and where it comes from.                                *)
  out           (* The strings.                                            *)

search == << continueSch, begin, lastWordEnd, node >>
vars == << dict, text, phase, segment, i, search, idx, validIdx, out >>

n == Len(segment)

Init ==
  /\ dict \in Dicts
  /\ text \in Texts
  /\ phase = "combine"
  /\ segment = text.cuts
  /\ i = 1
  /\ continueSch = FALSE
  /\ begin = 1
  /\ lastWordEnd = 1
  /\ node = << >>
  /\ idx = 1
  /\ validIdx = 1
  /\ out = << >>
-----------------------------------------------------------------------------
(* The trie.  A disabled word still leads to the words that extend it.     *)
MoreLong(p) == \E w \in dict.words \cup dict.hidden : IsStrictPrefix(p, w)
Hit(p) == p \in dict.words \/ MoreLong(p)

(* The characters from b up to and without e. *)
Chars(b, e) == SubSeq(text.chars, b + 1, e)

(***************************************************************************)
(* Reading word i: its first character, then the others unless no word of  *)
(* the dictionary goes on after the first.                                 *)
(***************************************************************************)
FirstChar == segment[i][1]
Path(e) == (IF continueSch THEN node ELSE << >>) \o Chars(FirstChar, e)
Read == { FirstChar + 1 } \cup
          IF MoreLong(Path(FirstChar + 1)) THEN FirstChar + 2 .. segment[i][2] ELSE {}
Misses == { e \in Read : ~Hit(Path(e)) }
ReadPath == Path(Max(Read))
Extensible == Misses = {} /\ MoreLong(ReadPath)

toCombine(b, last) ==
  [k \in 1 .. n |-> IF k = b THEN << segment[b][1], segment[last][2] >>
                    ELSE IF k \in b .. last THEN << segment[k][1], 0 >> ELSE segment[k]]

(* No word of the dictionary begins so.  The type asked is that of the     *)
(* character the search stopped at, which need not be the word's first.    *)
SkipUnknown ==
  /\ phase = "combine" /\ i <= n /\ ~continueSch
  /\ Misses # {}
  /\ segment' = IF text.chars[Min(Misses)] = Space
                  THEN [segment EXCEPT ![i][2] = 0] ELSE segment
  /\ i' = i + 1
  /\ UNCHANGED << dict, text, phase, search, idx, validIdx, out >>

(* The word ends a branch of the trie. *)
SkipLeaf ==
  /\ phase = "combine" /\ i <= n /\ ~continueSch
  /\ Misses = {} /\ ~MoreLong(ReadPath)
  /\ i' = i + 1
  /\ UNCHANGED << dict, text, phase, segment, search, idx, validIdx, out >>

StartSearch ==
  /\ phase = "combine" /\ i <= n /\ ~continueSch
  /\ Extensible
  /\ continueSch' = TRUE
  /\ begin' = i
  /\ lastWordEnd' = i
  /\ node' = ReadPath
  /\ i' = i + 1
  /\ UNCHANGED << dict, text, phase, segment, idx, validIdx, out >>

(* Mutant: the last word is not remembered. *)
MutExtendSearch ==
  /\ phase = "combine" /\ i <= n /\ continueSch
  /\ Extensible
  /\ lastWordEnd' = IF ReadPath \in dict.words THEN i ELSE begin
  /\ node' = ReadPath
  /\ i' = i + 1
  /\ UNCHANGED << dict, text, phase, segment, continueSch, begin, idx, validIdx, out >>

ExtendSearch ==
  /\ phase = "combine" /\ i <= n /\ continueSch
  /\ Extensible
  /\ lastWordEnd' = IF ReadPath \in dict.words THEN i ELSE lastWordEnd
  /\ node' = ReadPath
  /\ i' = i + 1
  /\ UNCHANGED << dict, text, phase, segment, continueSch, begin, idx, validIdx, out >>

(* Mutant: the next search begins where this one did. *)
MutEndSearch ==
  /\ segment' = toCombine(begin, lastWordEnd)
  /\ continueSch' = FALSE
  /\ i' = begin
  /\ UNCHANGED << dict, text, phase, begin, lastWordEnd, node, idx, validIdx, out >>

(* What was found is joined, and the next search begins right after it.    *)
EndSearch ==
  /\ segment' = toCombine(begin, lastWordEnd)
  /\ continueSch' = FALSE
  /\ i' = lastWordEnd + 1
  /\ UNCHANGED << dict, text, phase, begin, lastWordEnd, node, idx, validIdx, out >>

(* A word that ends a branch ends the search too, and is not joined. *)
StopSearch ==
  /\ phase = "combine" /\ i <= n /\ continueSch
  /\ ~Extensible
  /\ EndSearch

(* The words ran out while the trie goes on. *)
GoBack ==
  /\ phase = "combine" /\ i = n + 1
  /\ continueSch /\ lastWordEnd < n
  /\ EndSearch

EndCombine ==
  /\ phase = "combine" /\ i = n + 1
  /\ ~continueSch \/ lastWordEnd = n
  /\ segment' = IF continueSch THEN toCombine(begin, n) ELSE segment
  /\ phase' = "pack"
  /\ UNCHANGED << dict, text, i, search, idx, validIdx, out >>
-----------------------------------------------------------------------------
(* rmEmptyUnits. *)
IsEmpty(k) == segment[k][2] = 0

FindEmpty ==
  /\ phase = "pack" /\ validIdx = 1
  /\ IF \E k \in 1 .. n : IsEmpty(k)
       THEN /\ idx' = Min({ k \in 1 .. n : IsEmpty(k) })
            /\ validIdx' = idx' + 1
            /\ UNCHANGED phase
       ELSE /\ phase' = "lexicon"
            /\ UNCHANGED << idx, validIdx >>
  /\ UNCHANGED << dict, text, segment, i, search, out >>


MoveUnit ==
  /\ phase = "pack" /\ validIdx \in 2 .. n
  /\ ~IsEmpty(validIdx)
  /\ segment' = [segment EXCEPT ![idx] = segment[validIdx]]
  /\ idx' = idx + 1
  /\ validIdx' = validIdx + 1
  /\ UNCHANGED << dict, text, phase, i, search, out >>

SkipEmpty ==
  /\ phase = "pack" /\ validIdx \in 2 .. n
  /\ IsEmpty(validIdx)
  /\ validIdx' = validIdx + 1
  /\ UNCHANGED << dict, text, phase, segment, i, search, idx, out >>

(* What is left behind idx is not emptied, only its first word is. *)
EndPack ==
  /\ phase = "pack" /\ validIdx = n + 1
  /\ n > 0
  /\ segment' = [segment EXCEPT ![idx][2] = 0]
  /\ phase' = "lexicon"
  /\ UNCHANGED << dict, text, i, search, idx, validIdx, out >>

(* createStringLexicon writes one string, or meets the first empty word. *)
AppendLexicon ==
  /\ phase = "lexicon"
  /\ Len(out) < n
  /\ LET s == segment[Len(out) + 1] IN
       /\ s[1] < s[2]
       /\ out' = Append(out, Chars(s[1], s[2]))
  /\ UNCHANGED << dict, text, phase, segment, i, search, idx, validIdx >>

EndLexicon ==
  /\ phase = "lexicon"
  /\ Len(out) < n => segment[Len(out) + 1][1] >= segment[Len(out) + 1][2]
  /\ phase' = "done"
  /\ UNCHANGED << dict, text, segment, i, search, idx, validIdx, out >>

Next ==
  \/ SkipUnknown \/ SkipLeaf \/ StartSearch \/ ExtendSearch
  \/ StopSearch \/ GoBack \/ EndCombine
  \/ FindEmpty \/ MoveUnit \/ SkipEmpty \/ EndPack
  \/ AppendLexicon \/ EndLexicon

Spec == Init /\ [][Next]_vars /\ WF_vars(Next)
-----------------------------------------------------------------------------
(***************************************************************************)
(* The words that may be expected, read off the dictionary: from the left, *)
(* each word takes as many of its neighbours as make up a dictionary word  *)
(* that another one extends, and a word of spaces is left out.             *)
(***************************************************************************)
LastCut == Len(text.cuts)

Cut(k) == Chars(text.cuts[k][1], text.cuts[k][2])
Span(k, m) == Chars(text.cuts[k][1], text.cuts[m][2])

Joined(k, m) ==
  LET upTo[x \in k .. LastCut] == IF x = k THEN Cut(x) ELSE upTo[x - 1] \o Cut(x)
  IN upTo[m]

ExtendedWord(p) == p \in dict.words /\ MoreLong(p)

Longest(k) == Max({ k } \cup { m \in k + 1 .. LastCut : ExtendedWord(Joined(k, m)) })

Expected ==
  LET from[k \in 1 .. LastCut + 1] ==
        IF k = LastCut + 1 THEN << >>
        ELSE IF Cut(k) = << Space >> /\ Longest(k) = k THEN from[k + 1]
        ELSE << Span(k, Longest(k)) >> \o from[Longest(k) + 1]
  IN from[1]

SpaceInside == \E k \in 1 .. LastCut : Len(Cut(k)) > 1 /\ Space \in Range(Cut(k))

(***************************************************************************)
(* One pass with one step back finds the longest match at every place, and *)
(* closing the holes keeps the words in order: the strings are those of    *)
(* the definition above.  Said of texts whose words hold no space: a word  *)
(* with one inside may be dropped with all its characters.                 *)
(***************************************************************************)
LongestMatch == phase = "done" /\ ~SpaceInside => out = Expected
=============================================================================
