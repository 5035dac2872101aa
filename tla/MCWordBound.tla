----------------------------- MODULE MCWordBound -----------------------------
(* Three words, of which the system dictionary holds one, two or all; all  *)
(* dictionaries of four lines, or of three with blank ones, and lists of   *)
(* dictionaries that are empty or cannot be opened.                        *)
EXTENDS WordBound

CONSTANTS w1, w2, w3, noun

L(w) == [word |-> w, pos |-> { noun }]

MCChains ==
  { << << L(w1) >> >>, << << L(w1), L(w2) >> >>, << << L(w3), L(w1), L(w2) >> >> }

(* A word the analysis does not know is cut up, and what is next to the    *)
(* cut shows which other words are known.                                  *)
MCNames(w, S) ==
  IF w \in S \cup { Blank } THEN {} ELSE { << v, v \in S >> : v \in Words \ { w } }

MCTooLong(w, S) == w \notin S /\ S = {}

MCDictLists ==
  { << d >> : d \in [1 .. 4 -> Words \cup { NoWord }] } \cup
  { << d >> : d \in [1 .. 3 -> Words \cup { Blank }] } \cup
  { << << w2, NoWord, w2 >>, NoFile, << w3, w1, w2, w2 >> >>,
    << << >>, << w3, w2 >>, << NoWord >>, << w1, w3, w3 >> >>,
    << NoFile, NoFile >> }
=============================================================================
