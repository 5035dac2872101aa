------------------------------- MODULE WordMap -------------------------------
(***************************************************************************)
(* What the trie of source/vsynonym/VTrie.h promises: a map from words to  *)
(* numbers, where 0 stands for no entry, that also tells whether a longer  *)
(* word goes on from a word.  Module VTrie implements it (its property     *)
(* ImplementsMap).                                                         *)
(***************************************************************************)
EXTENDS Integers, Sequences, SequencesExt

CONSTANTS
  Keys,   (* The words, sequences of characters.         *)
  Values  (* The numbers an insertion may store, not 0.  *)

VARIABLES
  value,  (* value[k]: the number of word k.                       *)
  more    (* What the last insertion said: a longer word is known. *)

mapVars == << value, more >>

MoreLong(map, k) == \E l \in Keys : IsStrictPrefix(k, l) /\ map[l] # 0

Init ==
  /\ value = [k \in Keys |-> 0]
  /\ more = FALSE

(* The number of k, and only that, becomes n, whether k was known or not. *)
insert(k, n) ==
  /\ value' = [value EXCEPT ![k] = n]
  /\ more' = MoreLong(value, k)

Next == \E k \in Keys, n \in Values : insert(k, n)

Spec == Init /\ [][Next]_mapVars
=============================================================================
