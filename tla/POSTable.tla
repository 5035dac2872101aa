------------------------------- MODULE POSTable -------------------------------
(***************************************************************************)
(* The table of part-of-speech tags of a Knowledge, which all its          *)
(* analyzers share: source/src/pos_table.cpp,                              *)
(* source/include/icma/pos_table.h, and the trie of two characters that    *)
(* finds a tag in it, source/src/util/DCTrie.cpp.                          *)
(*                                                                         *)
(* A question for the code of a tag adds the tag, so the table grows while *)
(* texts are analysed.  A tag is a sequence of characters.  Codes count    *)
(* from 0, as in the code.                                                 *)
(***************************************************************************)
EXTENDS Integers, Sequences, SequencesExt

CONSTANTS
  Tags,           (* The tags that are asked for, the empty string too.    *)
  TagFiles,       (* The files loadPOSModel may read: lines, trimmed.      *)
  Lists,          (* The lists given to setIndexPOSList.                   *)
  Letter(_),      (* DCTRIE_CODE: a letter in either case, or 0.           *)
  Reserved,       (* The flags reserved: 45.                               *)
  MaxSize         (* Bound: questions are asked while fewer are in use.    *)

AllTags == Tags \cup UNION { ToSet(s) : s \in TagFiles \cup Lists }

ASSUME ReservedAssumption == Reserved \in Nat \ {0}
ASSUME TagsAssumption == TagFiles \cup Lists \subseteq Seq(AllTags)

VARIABLES
  table,   (* posMap_ (cells), posTable_ (names), indexedFlags_ and the    *)
           (* size_ of its memory.                                         *)
  loaded,  (* The model was loaded: posT_ is set.                          *)
  loop,    (* The loop that runs: "load" of loadPOSModel, "list" of        *)
           (* setIndexPOSList, or "none".                                  *)
  rest,    (* The lines or tags it has still to take.                      *)
  given,   (* History: the code each tag got when it was first asked for.  *)
  asked    (* History of the flags: the value of the last reset, the size  *)
           (* of the table then, and the cells listed since.               *)

vars == << table, loaded, loop, rest, given, asked >>

Unknown == << "N", "/", "A" >>

(* The cell of a tag other than the empty string. *)
Cell(t) == << Letter(t[1]), IF Len(t) > 1 THEN Letter(t[2]) ELSE 0 >>

Cells == { Cell(t) : t \in AllTags \ { << >> } }

Init ==
  /\ table = [cells |-> [c \in Cells |-> 0], names |-> << Unknown >>, flags |-> << TRUE >>,
              size_ |-> Reserved]
  /\ loaded = FALSE
  /\ loop = "none" /\ rest = << >>
  /\ given = << >>
  /\ asked = [default |-> TRUE, size |-> 1, on |-> {}]
-----------------------------------------------------------------------------
(* DCTrie::search; 0 says that there is none. *)
search(p, t) == IF t = << >> THEN 0 ELSE p.cells[Cell(t)]

(* A full array grows by half and one more. *)
Room(p) == IF Len(p.flags) = p.size_ THEN (p.size_ * 3) \div 2 + 1 ELSE p.size_

(* DCTrie::insert forgets the empty string. *)
Insert(cells, t, code) == IF t = << >> THEN cells ELSE [cells EXCEPT ![Cell(t)] = code]

(* Mutant: the entry is counted before the code is taken. *)
MutAddPOS(p, t) ==
  IF search(p, t) > 0 THEN p
  ELSE [cells |-> Insert(p.cells, t, Len(p.flags) + 1), names |-> Append(p.names, t),
        flags |-> Append(p.flags, TRUE), size_ |-> Room(p)]

(* Mutant: a tag is added whether it is there or not. *)
MutAddAgain(p, t) ==
  [cells |-> Insert(p.cells, t, Len(p.flags)), names |-> Append(p.names, t),
   flags |-> Append(p.flags, TRUE), size_ |-> Room(p)]

addPOS(p, t) ==
  IF search(p, t) > 0 THEN p
  ELSE [cells |-> Insert(p.cells, t, Len(p.flags)), names |-> Append(p.names, t),
        flags |-> Append(p.flags, TRUE), size_ |-> Room(p)]

(* What getCodeFromStr answers. *)
Code(p, t) == IF search(p, t) > 0 THEN search(p, t) ELSE Len(p.flags)

getStrFromCode(p, code) == IF code \in 0 .. Len(p.flags) - 1 THEN p.names[code + 1] ELSE << >>
isIndexPOS(p, code) == p.flags[code + 1]

(* Mutant: the flag of the last tag of the table is set. *)
MutSetIndex(p, t) == [addPOS(p, t) EXCEPT !.flags[Len(addPOS(p, t).flags)] = TRUE]
SetIndex(p, t) == [addPOS(p, t) EXCEPT !.flags[Code(p, t) + 1] = TRUE]
-----------------------------------------------------------------------------
(* A second loadModel stops at an assertion. *)
loadPOSModel(lines) ==
  /\ loop = "none" /\ ~loaded
  /\ loop' = "load"
  /\ rest' = lines
  /\ UNCHANGED << table, loaded, given, asked >>

(* Empty lines are skipped. *)
LoadLine ==
  /\ loop = "load" /\ rest # << >>
  /\ table' = IF Head(rest) = << >> THEN table ELSE addPOS(table, Head(rest))
  /\ rest' = Tail(rest)
  /\ UNCHANGED << loaded, loop, given, asked >>

EndLoad ==
  /\ loop = "load" /\ rest = << >>
  /\ loaded' = TRUE
  /\ loop' = "none"
  /\ UNCHANGED << table, rest, given, asked >>

(* Also for every unit of a tagged sentence, by runWithSentence. *)
getCodeFromStr(t) ==
  /\ loop = "none"
  /\ Len(table.flags) < MaxSize
  /\ table' = addPOS(table, t)
  /\ given' = IF t \in DOMAIN given THEN given
              ELSE [d \in DOMAIN given \cup {t} |-> IF d = t THEN Code(table, t) ELSE given[d]]
  /\ UNCHANGED << loaded, loop, rest, asked >>

setIndexPOSList(list) ==
  /\ loop = "none"
  /\ Len(table.flags) < MaxSize
  /\ loop' = "list"
  /\ rest' = list
  /\ UNCHANGED << table, loaded, given, asked >>

ListTag ==
  /\ loop = "list" /\ rest # << >>
  /\ table' = SetIndex(table, Head(rest))
  /\ asked' = IF Head(rest) = << >> THEN asked
              ELSE [asked EXCEPT !.on = @ \cup { Cell(Head(rest)) }]
  /\ rest' = Tail(rest)
  /\ UNCHANGED << loaded, loop, given >>

EndList ==
  /\ loop = "list" /\ rest = << >>
  /\ loop' = "none"
  /\ UNCHANGED << table, loaded, rest, given, asked >>

resetIndexPOSList(defVal) ==
  /\ loop = "none"
  /\ table' = [table EXCEPT !.flags = [k \in DOMAIN @ |-> defVal]]
  /\ asked' = [default |-> defVal, size |-> Len(table.flags), on |-> {}]
  /\ UNCHANGED << loaded, loop, rest, given >>

Next ==
  \/ \E lines \in TagFiles : loadPOSModel(lines)
  \/ LoadLine \/ EndLoad
  \/ \E t \in Tags : getCodeFromStr(t)
  \/ \E list \in Lists : setIndexPOSList(list)
  \/ ListTag \/ EndList
  \/ \E defVal \in BOOLEAN : resetIndexPOSList(defVal)

Spec == Init /\ [][Next]_vars
-----------------------------------------------------------------------------
(***************************************************************************)
(* Types.  Names and flags are in step, every cell points to an entry, and *)
(* the flags in use fit into their memory.                                 *)
(***************************************************************************)
TypeOK ==
  /\ Len(table.names) = Len(table.flags)
  /\ table.cells \in [Cells -> 0 .. Len(table.flags) - 1]
  /\ table.flags \in Seq(BOOLEAN)
  /\ Len(table.flags) <= table.size_
  /\ loaded \in BOOLEAN

(***************************************************************************)
(* A code that was given to a client stays the code of its tag, whatever   *)
(* is loaded or asked for later ("if the POS string has been added before, *)
(* its index code previously added is returned", pos_table.h:54).  Two     *)
(* tags have one code exactly if they share a cell: if they agree in their *)
(* first two letters, whatever the case.  The string of a code is          *)
(* therefore that tag or another one of its cell, although the header has  *)
(* a map of whole strings that are equal but for their case                *)
(* (pos_table.h:41, 164), and a tag nobody added has a code too, although  *)
(* it has "-1 for non POS available" (pos_table.h:63).                     *)
(***************************************************************************)
CodesKept ==
  \A t \in DOMAIN given \ { << >> } :
    /\ Code(table, t) = given[t]
    /\ Cell(getStrFromCode(table, given[t])) = Cell(t)
    /\ \A u \in DOMAIN given \ { << >> } : given[u] = given[t] <=> Cell(u) = Cell(t)

(***************************************************************************)
(* What became of the flags since the last reset.  A tag that the table    *)
(* had then has the value of the reset unless a list named it since, in    *)
(* any case.  One that the table got later is indexed, even after a reset  *)
(* to FALSE and though no list named it (pos_table.cpp:62): the reset is   *)
(* of "all the pos index Information" (pos_table.h:133) that there is,     *)
(* and no default for what follows.                                        *)
(***************************************************************************)
FlagsSinceReset ==
  \A t \in DOMAIN given \ { << >> } :
    isIndexPOS(table, given[t]) =
      IF given[t] < asked.size THEN asked.default \/ Cell(t) \in asked.on ELSE TRUE
=============================================================================
