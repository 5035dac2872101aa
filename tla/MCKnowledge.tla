---------------------------- MODULE MCKnowledge ----------------------------
(* Small dictionaries for Knowledge: two or three words and two tags. *)
EXTENDS Knowledge

CONSTANTS w1, w2, w3, noun, verb

L(w, ts) == [word |-> w, pos |-> ts]

(* A missing file, a file with a repeated word, a chain of two files, a *)
(* file whose word has no tags.                                         *)
MCChains ==
  { << >>,
    << << L(w1, {noun}), L(w2, {verb}), L(w1, {verb}) >> >>,
    << << L(w3, {}), L(w2, {noun}) >>, << L(w1, {verb}) >> >>,
    << << L(w3, {verb}) >> >> }

MCBlackLists == { {}, {w2} }
=============================================================================
