------------------------------ MODULE Knowledge ------------------------------
(***************************************************************************)
(* CMA_ME_Knowledge: the dictionary and the model flags that the analyzers *)
(* read.  Source: source/src/me/CMA_ME_Knowledge.cc.                       *)
(*                                                                         *)
(* The trie maps a word to an int (VTrieNode::data).  0: no such word.     *)
(* d > 0: the word exists and its tags are posVec_[d].  d < 0: the word is *)
(* disabled, -d is its slot.                                               *)
(*                                                                         *)
(* The models and the dictionaries are loaded by calls of their own, in    *)
(* any order.  A word that is read without a POS tagger has data 1, which  *)
(* becomes an index of posVec_ when a POS model is loaded later.           *)
(*                                                                         *)
(* A dictionary is read line by line; the calls of this class are not      *)
(* meant to overlap, so nothing else happens while one is read.  What a    *)
(* slot holds is abstracted to a set: StringArray keeps the tags in the    *)
(* order of the lines, and the order matters to no property here.          *)
(***************************************************************************)
EXTENDS Integers, Sequences

CONSTANTS
  Words,     (* The words of the dictionaries.                             *)
  Tags,      (* The part-of-speech tags.                                   *)
  Chains,    (* The dictionaries that can be loaded: a chain is the        *)
             (* sequence of the files name, name.1, name.2, ... that       *)
             (* exist, a file a sequence of lines, a line a word and tags. *)
  BlackLists,(* The contents a "blackwords" file may have.                 *)
  MaxLoads   (* Bound on the dictionaries loaded.                          *)

Line == [word : Words, pos : SUBSET Tags]

ASSUME ChainsAssumption == Chains \subseteq Seq(Seq(Line))
ASSUME BlackListsAssumption == BlackLists \subseteq SUBSET Words
ASSUME MaxLoadsAssumption == MaxLoads \in Nat

VARIABLES
  trie,       (* trie[w]: VTrieNode::data of w, 0 when w is not found.     *)
  posVec,     (* posVec_[1], posVec_[2], ...; slot 0 is never a word's.    *)
  posT,       (* posT_ # NULL: a POS model was loaded.                     *)
  segT,       (* segT_ # NULL: a segmentation model was loaded.            *)
  blackWords, (* blackWords_.                                              *)
  reading,    (* A dictionary is being read.                               *)
  pending,    (* The files that call has not read yet.                     *)
  ret,        (* The value that call returns.                              *)
  loads,      (* How many dictionaries were loaded (bounded).              *)
  early       (* History: the words that were there before the POS model.  *)

dict == << trie, posVec, posT >>
models == << segT, blackWords, early >>
reader == << reading, pending, ret, loads >>
vars == << trie, posVec, posT, segT, blackWords, reading, pending, ret, loads, early >>

Abs(d) == IF d < 0 THEN -d ELSE d

Init ==
  /\ trie = [w \in Words |-> 0]
  /\ posVec = << >>
  /\ posT = FALSE
  /\ segT = FALSE
  /\ blackWords = {}
  /\ reading = FALSE
  /\ pending = << >>
  /\ ret = 0
  /\ loads = 0
  /\ early = {}

Known == { w \in Words : trie[w] # 0 }

(* loadStatModel; the model itself is left out when load is FALSE. *)
LoadStatModel(load, black) ==
  /\ ~reading
  /\ load => ~segT                \* assert(!segT_)
  /\ segT' = (segT \/ load)
  /\ blackWords' = blackWords \union black
  /\ UNCHANGED << dict, reader, early >>

(* loadPOSModel makes the tagger, whose posVec_ has slot 0 only. *)
LoadPOSModel ==
  /\ ~reading
  /\ ~posT                        \* assert(!posT_)
  /\ posT' = TRUE
  /\ posVec' = << >>
  /\ early' = Known
  /\ UNCHANGED << trie, segT, blackWords, reader >>

StartReading(chain) ==
  /\ loads < MaxLoads
  /\ loads' = loads + 1
  /\ reading' = TRUE
  /\ pending' = chain
  /\ ret' = 0

(* Text lines, and encoded ones: what a line does is the same. *)
LoadUserDict(chain) ==
  /\ ~reading
  /\ StartReading(chain)
  /\ UNCHANGED << dict, models >>

LoadSystemDict(chain) == LoadUserDict(chain)

(***************************************************************************)
(* loadModel: loadStatModel, loadPOSModel when the directory has a POS     *)
(* model, then loadUserDict of the system dictionary, in one call.         *)
(***************************************************************************)
LoadModel(load, hasPOS, black, chain) ==
  /\ ~reading
  /\ load => ~segT
  /\ hasPOS => ~posT
  /\ segT' = (segT \/ load)
  /\ blackWords' = blackWords \union black
  /\ posT' = (posT \/ hasPOS)
  /\ posVec' = IF hasPOS THEN << >> ELSE posVec
  /\ early' = IF hasPOS THEN Known ELSE early
  /\ StartReading(chain)
  /\ UNCHANGED trie

(***************************************************************************)
(* One line of the file being read: appendWordPOS.  A word that is not     *)
(* found, and also one that is found disabled, gets a new slot; without a  *)
(* tagger it gets data 1.                                                  *)
(***************************************************************************)
(* Mutant: the size is read after the push_back. *)
MutNewSlotAfterPush == Len(posVec) + 2

NewSlot == Len(posVec) + 1

(***************************************************************************)
(* The line's tags go to the word's slot.  The index is not checked: when  *)
(* there is no such slot the code writes to the memory behind posVec_.     *)
(* The next push_back makes its slot there; what was written is lost, or   *)
(* the program stops.                                                      *)
(***************************************************************************)
AddTags(slot, ts) ==
  posVec' = IF slot \in DOMAIN posVec THEN [posVec EXCEPT ![slot] = @ \union ts] ELSE posVec

(* Mutants: every new word gets data 1, tagger or not; the word stays in *)
(* front of its tags (no removeHead).                                    *)
MutAppendOneSlot(one) ==
  /\ trie' = [trie EXCEPT ![one.word] = 1]
  /\ posVec' = IF posT THEN Append(posVec, one.pos) ELSE posVec

MutAppendKeepsHead(one) ==
  /\ trie' = [trie EXCEPT ![one.word] = IF posT THEN NewSlot ELSE 1]
  /\ posVec' = IF posT THEN Append(posVec, one.pos \union { one.word }) ELSE posVec

AppendWordPOS(one) ==
  LET w == one.word IN
  IF trie[w] > 0
    THEN /\ IF posT THEN AddTags(trie[w], one.pos) ELSE UNCHANGED posVec
         /\ UNCHANGED trie
    ELSE /\ trie' = [trie EXCEPT ![w] = IF posT THEN NewSlot ELSE 1]
         /\ posVec' = IF posT THEN Append(posVec, one.pos) ELSE posVec

ReadLine ==
  /\ reading /\ pending # << >> /\ Head(pending) # << >>
  /\ AppendWordPOS(Head(Head(pending)))
  /\ pending' = [pending EXCEPT ![1] = Tail(@)]
  /\ UNCHANGED << posT, models, reading, ret, loads >>

(* The end of a file: the next one in the chain is tried. *)
NextFile ==
  /\ reading /\ pending # << >> /\ Head(pending) = << >>
  /\ pending' = Tail(pending)
  /\ ret' = ret + 1
  /\ UNCHANGED << dict, models, reading, loads >>

(* No next file in the chain: loadUserDict returns the number it read. *)
EndLoad ==
  /\ reading /\ pending = << >>
  /\ reading' = FALSE
  /\ UNCHANGED << dict, models, pending, ret, loads >>

(* Mutant: the check "already be disabled" is dropped. *)
MutDisableToggles(ws) ==
  /\ ~reading
  /\ trie' = [w \in Words |-> IF w \in ws THEN -trie[w] ELSE trie[w]]
  /\ UNCHANGED << posVec, posT, models, reader >>

(* disableWords and enableWords; words not in the dictionary are ignored. *)
DisableWords(ws) ==
  /\ ~reading
  /\ trie' = [w \in Words |-> IF w \in ws /\ trie[w] > 0 THEN -trie[w] ELSE trie[w]]
  /\ UNCHANGED << posVec, posT, models, reader >>

EnableWords(ws) ==
  /\ ~reading
  /\ trie' = [w \in Words |-> IF w \in ws /\ trie[w] < 0 THEN -trie[w] ELSE trie[w]]
  /\ UNCHANGED << posVec, posT, models, reader >>

isExistWord(w) == trie[w] > 0

ReadStep == ReadLine \/ NextFile \/ EndLoad

Next ==
  \/ \E load \in BOOLEAN, black \in BlackLists : LoadStatModel(load, black)
  \/ LoadPOSModel
  \/ \E chain \in Chains : LoadUserDict(chain) \/ LoadSystemDict(chain)
  \/ \E load, hasPOS \in BOOLEAN, black \in BlackLists, chain \in Chains :
       LoadModel(load, hasPOS, black, chain)
  \/ ReadStep
  \/ \E ws \in SUBSET Words : DisableWords(ws) \/ EnableWords(ws)

Spec == Init /\ [][Next]_vars

-----------------------------------------------------------------------------
(* Types.  posVec stays a sequence of sets of tags: the word in front of a *)
(* line's tags is taken off before they are stored.                        *)
TypeOK ==
  /\ trie \in [Words -> Int]
  /\ posVec \in Seq(SUBSET Tags)
  /\ posT \in BOOLEAN
  /\ segT \in BOOLEAN
  /\ blackWords \in SUBSET Words
  /\ reading \in BOOLEAN
  /\ pending \in Seq(Seq(Line))
  /\ ret \in Nat
  /\ loads \in 0 .. MaxLoads
  /\ early \in SUBSET Words

(***************************************************************************)
(* The int a word carries, enabled or disabled, can be used as an index of *)
(* posVec_ (appendWordPOS and POSTagger index it unchecked); without a POS *)
(* tagger it is the constant 1.  Only a word that was loaded before the    *)
(* POS model has no slot, and only until the first new word makes slot 1.  *)
(***************************************************************************)
SlotsInRange ==
  \A w \in Known :
    IF posT THEN \/ Abs(trie[w]) \in 1 .. Len(posVec)
                 \/ w \in early /\ posVec = << >> /\ Abs(trie[w]) = 1
            ELSE Abs(trie[w]) = 1

(***************************************************************************)
(* Two words never share a slot, whatever was disabled, enabled or loaded  *)
(* again in between, unless one of them was loaded before the POS model:   *)
(* else a line of one word would give tags to the other.                   *)
(***************************************************************************)
SlotsDistinct ==
  posT => \A v, w \in Known :
            v # w /\ Abs(trie[v]) = Abs(trie[w]) =>
              Abs(trie[v]) = 1 /\ (v \in early \/ w \in early)

-----------------------------------------------------------------------------
(* The dictionary as its users see it. *)
Slot(w) == Abs(trie[w])

statusBar == [w \in Words |-> IF trie[w] = 0 THEN "absent"
                              ELSE IF isExistWord(w) THEN "enabled" ELSE "disabled"]
tagsBar == [w \in Words |-> IF posT /\ Slot(w) \in DOMAIN posVec THEN posVec[Slot(w)] ELSE {}]
taggingBar == IF ~posT THEN "off" ELSE IF posVec = << >> THEN "empty" ELSE "on"
jointBar == IF posT THEN { w \in Words : Slot(w) = 1 } ELSE {}

Lex == INSTANCE Lexicon WITH status <- statusBar, tags <- tagsBar,
                             tagging <- taggingBar, joint <- jointBar

(***************************************************************************)
(* The trie with its slots implements the map from words to sets of tags:  *)
(* a line changes the tags of its own word, and of no other but the words  *)
(* joined with it because they came before the POS model; disabling and    *)
(* enabling change no tags.                                                *)
(***************************************************************************)
ImplementsLexicon == Lex!Spec
=============================================================================
