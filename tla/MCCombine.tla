------------------------------ MODULE MCCombine ------------------------------
(* Instances of Combine: all small dictionaries over two characters, and   *)
(* texts of up to five characters cut in every way.                        *)
EXTENDS Combine

CONSTANTS a, b

Entries == { << a >>, << a, b >>, << a, b, a >>, << a, b, a, b >>, << b, a >>, << b >> }

SmallDicts ==
  { [words |-> w, hidden |-> h] : w \in UNION { kSubset(k, Entries) : k \in 0 .. 3 },
                                  h \in { {} } \cup { { e } : e \in Entries } }
MCDicts == { d \in SmallDicts : d.words \cap d.hidden = {} }

(* Every way to cut chars whose cuts are the given boundaries. *)
CutAt(len, at) ==
  LET bounds == SetToSortSeq(at \cup { 0, len }, <)
  IN [k \in 1 .. Len(bounds) - 1 |-> << bounds[k], bounds[k + 1] >>]

AllCuts(chars) ==
  { [chars |-> chars, cuts |-> CutAt(Len(chars), at)] : at \in SUBSET (1 .. Len(chars) - 1) }

(* One word a character, as analysis_fmm cuts. *)
OneEach(chars) ==
  [chars |-> chars, cuts |-> [k \in 1 .. Len(chars) |-> << k - 1, k >>]]

(* The tagger leaves out a space between words. *)
Spaced == { [chars |-> << a, Space, b, a, b >>, cuts |-> << << 0, 1 >>, << 2, 3 >>, << 3, 4 >>, << 4, 5 >> >>],
            [chars |-> << a, b, Space, a >>, cuts |-> << << 0, 1 >>, << 1, 2 >>, << 3, 4 >> >>] }

MCTexts == AllCuts(<< a, b, a, b >>) \cup AllCuts(<< b, a, a, b >>) \cup Spaced
             \cup { OneEach(<< a, b, Space, a, b >>), OneEach(<< a, a, b, a, a >>) }
=============================================================================
