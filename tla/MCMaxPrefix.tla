----------------------------- MODULE MCMaxPrefix -----------------------------
(* Instances of MaxPrefix: the dictionaries and texts of MCFMinCover, one  *)
(* disabled word, wide marks, and Chinese characters of different bytes.   *)
EXTENDS MaxPrefix, MCFMinCover

MCHidden == { << "b", "b", "a" >> }

WideMarks ==
  { t \in [1 .. 3 -> { A, C("1", "DIGIT", FALSE), C("p", "PUNC", TRUE), C(".", "PUNC", FALSE) }] :
      \E k \in 1 .. 3 : t[k].wide }

(* Those of two bytes are the rule in GB2312, those of one are unknown.    *)
Widths ==
  UNION { [1 .. l -> { CB("a", "OTHER", FALSE, 2), B, CB("c", "OTHER", FALSE, 1) }] : l \in 4 .. 5 }

PrefixTexts == MCTexts \cup WideMarks \cup Widths
=============================================================================
