------------------------------- MODULE MCVTrie -------------------------------
(* An instance of VTrie: six codes, of which four are used, and words that *)
(* are prefixes of each other and that part at the first, a middle and the *)
(* last character.                                                         *)
EXTENDS VTrie

MCKeys ==
  { << >>, << 1 >>, << 1, 2, 1 >>, << 1, 2, 2 >>, << 1, 1 >>, << 1, 5 >>, << 1, 3, 2 >>, << 2, 5 >> }
=============================================================================
