------------------------------ MODULE WordBound ------------------------------
(***************************************************************************)
(* WordBound::trainModel and its counterpart isPossibleWord of the test    *)
(* program t_wordbound: every word of some dictionaries is analysed as if  *)
(* the dictionary did not hold it, and what the analysis shows at its      *)
(* bounds is counted.  Source: source/src/word_bound.cc,                   *)
(* source/binsrc/t_wordbound.cc.                                           *)
(*                                                                         *)
(* Both drive the Knowledge they share with the analyzer: a word is        *)
(* disabled in it before its analysis and enabled again before the next.   *)
(* The knowledge is the one of module Knowledge, step by step.             *)
(***************************************************************************)
EXTENDS Knowledge, FiniteSets

CONSTANTS
  DictLists,   (* The lists of dictionaries trainModel may be given: a     *)
               (* dictionary is a sequence of words, NoWord for an empty   *)
               (* line and Blank for one that begins with a space, or      *)
               (* NoFile.                                                  *)
  NoWord, Blank, NoFile,
  Names(_, _), (* Names(w, S): the names construtWBNames makes of the      *)
               (* analysis of w with the words S enabled; {} when w is cut *)
               (* into fewer than 2 or more than 8 words, as Blank is.     *)
  TooLong(_, _), (* The latter of the two.                                 *)
  MinCount,    (* A name must be counted more often: 5 in the code.        *)
  MinScore     (* minScore_.                                               *)

ASSUME CountAssumption == MinCount \in Nat /\ MinScore \in Nat
ASSUME DictListsAssumption ==
  DictLists \subseteq Seq(Seq(Words \cup { NoWord, Blank }) \cup { NoFile })
ASSUME NoWordAssumption == NoWord \notin Words \cup { Blank } /\ Blank \notin Words
ASSUME BlankAssumption == \A S \in SUBSET Words : Names(Blank, S) = {}

VARIABLES
  phase,         (* "load", "open", "read", "disable", "analyse", "done",  *)
                 (* then "ask".                                            *)
  dicts,         (* The dictionaries not opened yet.                       *)
  lines,         (* The lines not read yet of the one that is open.        *)
  line,          (* The word being trained, or Blank.                      *)
  disabledWords, (* disabledWords: what the next step has to enable.       *)
  count,         (* wbData.                                                *)
  model,         (* The names written to the model file.                   *)
  errors,        (* The value trainModel returns.                          *)
  given,         (* History: the dictionaries given.                       *)
  loaded,        (* History: the trie when loadModel returned.             *)
  verdict        (* What isPossibleWord returned last.                     *)

knowledge == << trie, posVec, posT, segT, blackWords, reading, pending, ret, loads, early >>
work == << dicts, lines, line, disabledWords >>
result == << count, model, errors, verdict >>
history == << given, loaded >>
allVars == << knowledge, phase, work, result, history >>

Enabled == { w \in Words : isExistWord(w) }

(* Every name that may be counted. *)
AllNames == UNION { Names(w, S) : w \in Words, S \in SUBSET Words }

TrainInit ==
  /\ Init
  /\ phase = "load"
  /\ given \in DictLists
  /\ dicts = given
  /\ lines = << >>
  /\ line = NoWord
  /\ disabledWords = {}
  /\ count = [n \in AllNames |-> 0]
  /\ model = {}
  /\ errors = 0
  /\ loaded = trie
  /\ verdict = TRUE

(* knowledge->loadModel, which reads the system dictionary to its end. *)
Load ==
  /\ phase = "load"
  /\ \/ \E hasPOS \in BOOLEAN, black \in BlackLists, chain \in Chains :
          LoadModel(TRUE, hasPOS, black, chain)
     \/ ReadStep
  /\ phase' = IF reading /\ ~reading' THEN "open" ELSE "load"
  /\ loaded' = trie'
  /\ UNCHANGED << work, result, given >>

(* Mutant: a dictionary that cannot be opened stops the training. *)
MutOpenDict ==
  /\ phase = "open" /\ dicts # << >>
  /\ Head(dicts) # NoFile
  /\ dicts' = Tail(dicts)
  /\ phase' = "read"
  /\ lines' = Head(dicts)
  /\ UNCHANGED << knowledge, line, disabledWords, result, history >>

(* A dictionary that cannot be opened is counted and left out. *)
OpenDict ==
  /\ phase = "open" /\ dicts # << >>
  /\ dicts' = Tail(dicts)
  /\ IF Head(dicts) = NoFile
       THEN errors' = errors + 1 /\ UNCHANGED << phase, lines >>
       ELSE phase' = "read" /\ lines' = Head(dicts) /\ UNCHANGED errors
  /\ UNCHANGED << knowledge, line, disabledWords, count, model, verdict, history >>

CloseDict ==
  /\ phase = "read" /\ lines = << >>
  /\ phase' = "open"
  /\ UNCHANGED << knowledge, work, result, history >>

SkipEmptyLine ==
  /\ phase = "read" /\ lines # << >> /\ Head(lines) = NoWord
  /\ lines' = Tail(lines)
  /\ UNCHANGED << knowledge, phase, dicts, line, disabledWords, result, history >>

(* Mutant: the word before is not enabled again. *)
MutEnablePrevious ==
  /\ phase = "read" /\ lines # << >> /\ Head(lines) # NoWord
  /\ UNCHANGED knowledge
  /\ line' = Head(lines)
  /\ lines' = Tail(lines)
  /\ phase' = "disable"
  /\ UNCHANGED << dicts, disabledWords, result, history >>

(* The word before is enabled again.  Of a line that begins with a space *)
(* an empty word is left, which is trained like any other.               *)
EnablePrevious ==
  /\ phase = "read" /\ lines # << >> /\ Head(lines) # NoWord
  /\ IF disabledWords # {} THEN EnableWords(disabledWords) ELSE UNCHANGED knowledge
  /\ disabledWords' = {}
  /\ line' = Head(lines)
  /\ lines' = Tail(lines)
  /\ phase' = "disable"
  /\ UNCHANGED << dicts, result, history >>

DisableLine ==
  /\ phase = "disable"
  /\ disabledWords' = disabledWords \union { line }
  /\ DisableWords(disabledWords')
  /\ phase' = "analyse"
  /\ UNCHANGED << dicts, lines, line, result, history >>

(* runWithSentence and trainWord. *)
TrainLine ==
  /\ phase = "analyse"
  /\ count' = [n \in AllNames |-> IF n \in Names(line, Enabled) THEN count[n] + 1
                                  ELSE count[n]]
  /\ phase' = "read"
  /\ UNCHANGED << knowledge, work, model, errors, verdict, history >>

(* Mutant: a name seen exactly MinCount times is written too. *)
MutSaveModel ==
  /\ phase = "open" /\ dicts = << >>
  /\ model' = { n \in AllNames : count[n] >= MinCount }
  /\ phase' = "done"
  /\ UNCHANGED << knowledge, work, count, errors, verdict, history >>

(* The names counted often enough go to the model file. *)
SaveModel ==
  /\ phase = "open" /\ dicts = << >>
  /\ model' = { n \in AllNames : count[n] > MinCount }
  /\ phase' = "done"
  /\ UNCHANGED << knowledge, work, count, errors, verdict, history >>

TrainNext ==
  \/ Load \/ OpenDict \/ CloseDict \/ SkipEmptyLine
  \/ EnablePrevious \/ DisableLine \/ TrainLine \/ SaveModel

(***************************************************************************)
(* WordBound::isPossibeWord: a word with enough known names is possible.   *)
(* One that has no names is, unless it was cut into too many words.        *)
(***************************************************************************)
isPossibeWord(w, S) ==
  IF Names(w, S) = {} THEN ~TooLong(w, S)
  ELSE Cardinality(Names(w, S) \cap model) >= MinScore

(* t_wordbound, a process of its own, loads the models: nothing is disabled. *)
StartAsking ==
  /\ phase = "done"
  /\ phase' = "ask"
  /\ trie' = loaded
  /\ disabledWords' = {}
  /\ line' = NoWord
  /\ UNCHANGED << posVec, posT, segT, blackWords, reading, pending, ret, loads, early,
                  dicts, lines, result, history >>

(***************************************************************************)
(* isPossibleWord of t_wordbound, which asks about one word after another. *)
(* It enables the disabled words when there are none, which does nothing.  *)
(***************************************************************************)
isPossibleWord(w) ==
  LET toDisable == disabledWords \union { w } IN
  /\ phase = "ask"
  /\ DisableWords(toDisable)
  /\ disabledWords' = toDisable
  /\ line' = w
  /\ verdict' = isPossibeWord(w, { v \in Words : trie'[v] > 0 })
  /\ UNCHANGED << phase, dicts, lines, count, model, errors, history >>

Ask == StartAsking \/ \E w \in Words : isPossibleWord(w)

(* trainModel is a loop of one thread. *)
TrainSpec == TrainInit /\ [][TrainNext \/ Ask]_allVars /\ WF_allVars(TrainNext)
-----------------------------------------------------------------------------
(***************************************************************************)
(* While a word is analysed, the dictionary is the one that was loaded     *)
(* without that word: no other word is missing, and no tags changed.  It   *)
(* takes the enabling before one analysis, the disabling after it, and     *)
(* both ignoring words that are not in the dictionary.  While a word is    *)
(* asked about it is missing too, with all those asked about before: what  *)
(* isPossibleWord does; trainModel takes them back (word_bound.cc:133).    *)
(***************************************************************************)
OnlyTheWordIsHidden ==
  LET Present == { w \in Words : loaded[w] > 0 } IN
  /\ phase = "analyse" => Enabled = Present \ { line }
  /\ phase = "ask" => Enabled = Present \ disabledWords /\ line \notin Enabled
  /\ phase \in { "analyse", "ask" } => \A w \in Words : Abs(trie[w]) = Abs(loaded[w])

(***************************************************************************)
(* What is trained depends on the words and on the dictionary only, not on *)
(* the order of the words: a name is in the model when more than MinCount  *)
(* of all the lines show it, each analysed with the loaded dictionary less *)
(* its own word.                                                           *)
(***************************************************************************)
Trained ==
  UNION { { << d, l >> : l \in { k \in DOMAIN given[d] : given[d][k] # NoWord } } :
          d \in { k \in DOMAIN given : given[k] # NoFile } }

Occurrences(n) ==
  { p \in Trained : LET w == given[p[1]][p[2]] IN
                   n \in Names(w, { v \in Words : loaded[v] > 0 } \ { w }) }

ModelIsExact ==
  phase = "done" =>
    /\ model = { n \in AllNames : Cardinality(Occurrences(n)) > MinCount }
    /\ errors = Cardinality({ d \in DOMAIN given : given[d] = NoFile })

TrainingEnds == <>(phase = "done")
=============================================================================
