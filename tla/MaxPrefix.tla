------------------------------ MODULE MaxPrefix ------------------------------
(***************************************************************************)
(* Analysis type 100: analysis_maxprefix, lines 1116 to 1289 of            *)
(* source/src/me/CMA_ME_Analyzer.cc, next to the dictionary approach of    *)
(* module FMinCover, from which setOption chooses.                         *)
(*                                                                         *)
(* One pass takes the longest dictionary word at each place, where there   *)
(* is one; these words are the first result.  A second pass cuts what is   *)
(* left between them: runs of digits and letters, and all pairs of         *)
(* neighbours in a run of Chinese characters; this is the second result.   *)
(* The second pass counts bytes to tell characters apart.                  *)
(***************************************************************************)
EXTENDS FMinCover

CONSTANTS
  Hidden      (* The disabled words of all dictionaries.                   *)

ASSUME HiddenAssumption == \A d \in Dicts : d \cap Hidden = {}

VARIABLES
  begin,      (* Where the next unit may begin.                            *)
  segs,       (* bestSegSeq.                                               *)
  dicSegNum,  (* dic_segnum: how many of them are dictionary words,        *)
  gap         (* and after which of these the second pass is.              *)

prefixVars == << begin, segs, dicSegNum, gap >>
parseVars == << analysis, analOption, dict, text, curIdx, fsIdx, out, wordOffset >>
allVars == << vars, prefixVars >>

PrefixInit ==
  /\ Init
  /\ begin = 0
  /\ segs = << >>
  /\ dicSegNum = 0
  /\ gap = 0

n == Len(text)

Dictionary == Next /\ UNCHANGED prefixVars

StartPrefix ==
  /\ phase = "options"
  /\ analysis = "maxprefix"
  /\ phase' = "words"
  /\ UNCHANGED << parseVars, prefixVars >>
-----------------------------------------------------------------------------
(***************************************************************************)
(* The first pass.  find returns whether a node has data, so that a        *)
(* disabled word, whose data is negative, counts as one.                   *)
(***************************************************************************)
Entries == dict \cup Hidden
IsPath(p) == \E w \in Entries : IsPrefix(p, w)

(* How far the trie can be followed. *)
LongestPath(b) ==
  Max({ b } \cup { e \in b + 1 .. n : IsPath(Word(b, e)) /\ \A p \in b .. e - 1 : Ch(p).type # "SPACE" })

(* Mutant: the path is taken for a word. *)
MutWordEndsAt(b) == b + 1 .. LongestPath(b)

WordEndsAt(b) == { e \in b + 1 .. LongestPath(b) : Word(b, e) \in Entries }

FindWord ==
  /\ phase = "words" /\ begin < n
  /\ WordEndsAt(begin) # {}
  /\ segs' = Append(segs, << begin, Max(WordEndsAt(begin)) >>)
  /\ begin' = Max(WordEndsAt(begin))
  /\ dicSegNum' = dicSegNum + 1
  /\ UNCHANGED << parseVars, phase, gap >>

FindNoWord ==
  /\ phase = "words" /\ begin < n
  /\ WordEndsAt(begin) = {}
  /\ begin' = begin + 1
  /\ UNCHANGED << parseVars, phase, segs, dicSegNum, gap >>

EndWords ==
  /\ phase = "words" /\ begin = n
  /\ phase' = "rest"
  /\ begin' = 0
  /\ UNCHANGED << parseVars, segs, dicSegNum, gap >>
-----------------------------------------------------------------------------
(* The second pass. *)
Type(p) == Ch(p).type
IsPossibleChineseWord(p) == Type(p) \in { "OTHER", "CHARDIGIT" }

Bytes(p) == Ch(p).bytes

BytesFrom(b, p) ==
  LET bytes[q \in b .. p] == IF q = b THEN 0 ELSE bytes[q - 1] + Bytes(q - 1)
  IN bytes[p]

(* Mutant: the gap after the last word ends with that word. *)
MutSegEnd == IF gap = dicSegNum /\ gap = 0 THEN n ELSE segs[Min({ gap + 1, dicSegNum })][1]

SegEnd == IF gap = dicSegNum THEN n ELSE segs[gap + 1][1]

(***************************************************************************)
(* Whether the unit from b, not empty or seg.empty() by where p stands,    *)
(* ends before character p, or with it as a pair.                          *)
(***************************************************************************)
EndsBefore(b, p) ==
  CASE IsPossibleChineseWord(p) -> p > b /\ ~IsPossibleChineseWord(p - 1)
    [] Type(p) \in { "DIGIT", "LETTER" } -> p > b /\ IsPossibleChineseWord(p - 1)
    [] OTHER -> \/ Type(p) = "SPACE"
                \/ Type(p) = "PUNC" /\ BytesFrom(b, p) > 2
                \/ p = b
                \/ Bytes(p) > 2

PairedAt(b, p) == ~EndsBefore(b, p) /\ IsPossibleChineseWord(p) /\ BytesFrom(b, p) >= 3

(* The character the inner loop stops at, or the end of the gap. *)
Stop(b) == Min({ SegEnd } \cup { p \in b .. SegEnd - 1 : EndsBefore(b, p) \/ PairedAt(b, p) })

Pairs(b) == Stop(b) < SegEnd /\ PairedAt(b, Stop(b))

(* Mutant: pairs do not overlap. *)
MutPairEnd(p) == p + 1

(* Mutant: a pair goes on from its first character. *)
MutPairStuck(p) == p - 1

(* A pair goes on from its second character, which may begin another one,  *)
(* unless no Chinese character follows.  The type behind a gap's last      *)
(* character is not read.                                                  *)
PairEnd(p) == IF p + 1 = SegEnd THEN p + 1
              ELSE IF ~IsPossibleChineseWord(p + 1) THEN p + 1 ELSE p

InGap == phase = "rest" /\ begin < SegEnd

TakePair ==
  /\ InGap /\ Pairs(begin)
  /\ segs' = Append(segs, << begin, begin + 2 >>)
  /\ begin' = PairEnd(Stop(begin))
  /\ UNCHANGED << parseVars, phase, dicSegNum, gap >>

TakeRun ==
  /\ InGap /\ ~Pairs(begin) /\ Stop(begin) > begin
  /\ segs' = Append(segs, << begin, Stop(begin) >>)
  /\ begin' = Stop(begin)
  /\ UNCHANGED << parseVars, phase, dicSegNum, gap >>

(* Spaces, and marks and date characters that follow nothing, are left     *)
(* out.                                                                    *)
DropChar ==
  /\ InGap /\ Stop(begin) = begin
  /\ begin' = begin + 1
  /\ UNCHANGED << parseVars, phase, segs, dicSegNum, gap >>

NextGap ==
  /\ phase = "rest" /\ begin >= SegEnd
  /\ gap < dicSegNum
  /\ begin' = segs[gap + 1][2]
  /\ gap' = gap + 1
  /\ UNCHANGED << parseVars, phase, segs, dicSegNum >>

EndPrefix ==
  /\ phase = "rest" /\ begin >= SegEnd
  /\ gap = dicSegNum
  /\ phase' = "found"
  /\ UNCHANGED << parseVars, prefixVars >>

PrefixNext ==
  \/ Dictionary \/ StartPrefix
  \/ FindWord \/ FindNoWord \/ EndWords
  \/ TakePair \/ TakeRun \/ DropChar \/ NextGap \/ EndPrefix

PrefixSpec == PrefixInit /\ [][PrefixNext]_allVars
-----------------------------------------------------------------------------
PrefixDone == phase = "found"

DictUnits == { segs[k] : k \in 1 .. dicSegNum }
RestUnits == { segs[k] : k \in dicSegNum + 1 .. Len(segs) }
In(p, units) == \E u \in units : p \in u[1] .. u[2] - 1

(***************************************************************************)
(* Leftmost longest match: the units of the first result are entries of    *)
(* the trie, in order; none is the beginning of a longer entry found in    *)
(* the text; and no entry begins between them.  A disabled word is an      *)
(* entry: this analysis finds it like any other, although disableWords     *)
(* "disables the specific words in the dictionary" (knowledge.h:151).      *)
(***************************************************************************)
EntriesAt(p) == { e \in p + 1 .. n : Word(p, e) \in Entries /\ \A q \in p .. e - 1 : Type(q) # "SPACE" }

LongestEntriesFirst ==
  PrefixDone =>
    /\ \A k \in 2 .. dicSegNum : segs[k - 1][2] <= segs[k][1]
    /\ \A u \in DictUnits : u[2] \in EntriesAt(u[1]) /\ \A e \in EntriesAt(u[1]) : e <= u[2]
    /\ \A p \in 0 .. n - 1 : In(p, DictUnits) \/ EntriesAt(p) = {}

(* A Chinese character of less than the three bytes that the second pass   *)
(* counts with (line 1227), outside the dictionary words.                  *)
Left(p) == p \in 0 .. n - 1 /\ IsPossibleChineseWord(p) /\ ~In(p, DictUnits)
NarrowIn(b, e) == \E p \in b .. e : Left(p) /\ Bytes(p) < 3

(***************************************************************************)
(* The second result has no character of the first one, no space, and is   *)
(* all of the text's Chinese characters, digits and letters that are left, *)
(* whatever their bytes: only a Chinese character in the second or third   *)
(* place behind one of less than three bytes may be lost, and is where     *)
(* three of two bytes stand alone.                                         *)
(***************************************************************************)
RestIsRest ==
  PrefixDone =>
    \A p \in 0 .. n - 1 :
      /\ In(p, RestUnits) => ~In(p, DictUnits) /\ Type(p) # "SPACE"
      /\ Type(p) \in { "DIGIT", "LETTER" } => In(p, DictUnits \cup RestUnits)
      /\ IsPossibleChineseWord(p) => In(p, DictUnits \cup RestUnits) \/ NarrowIn(p - 3, p - 2)

(***************************************************************************)
(* "Chinese to bigram": two Chinese characters outside the dictionary      *)
(* words that are neighbours are a unit, and no other unit has two, but    *)
(* where one of less than three bytes is before the second one.            *)
(***************************************************************************)
Bigrams == { << p, p + 2 >> : p \in { q \in 0 .. n - 2 : Left(q) /\ Left(q + 1) } }

ChineseToBigram ==
  PrefixDone =>
    /\ \A p \in 0 .. n - 2 : << p, p + 2 >> \in Bigrams \ RestUnits => NarrowIn(p - 2, p)
    /\ \A u \in RestUnits \ Bigrams :
         \/ Cardinality({ p \in u[1] .. u[2] - 1 : IsPossibleChineseWord(p) }) <= 1
         \/ NarrowIn(u[1], u[1])

(***************************************************************************)
(* The passes end: each step moves on in the text, although the second     *)
(* pass goes back to a pair's second character, and after the last gap     *)
(* nothing is read.                                                        *)
(***************************************************************************)
PassesAdvance ==
  [][ (phase \in { "words", "rest" } /\ phase' = phase)
        => \/ begin' \in begin + 1 .. n
           \/ gap' = gap + 1 /\ begin' \in begin .. n ]_allVars
=============================================================================
