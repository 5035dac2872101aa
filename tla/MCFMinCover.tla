----------------------------- MODULE MCFMinCover -----------------------------
(* Instances of FMinCover. *)
EXTENDS FMinCover

(* A character with its bytes; ideographs and wide forms have three.       *)
CB(c, t, w, b) == [char |-> c, type |-> t, wide |-> w, bytes |-> b]
C(c, t, w) == CB(c, t, w, IF w \/ t \in { "OTHER", "DATE", "CHARDIGIT" } THEN 3 ELSE 1)

A == C("a", "OTHER", FALSE)
B == C("b", "OTHER", FALSE)

(* Words that touch, overlap and contain one another. *)
MCDicts == { {}, { << "a", "b" >>, << "b", "a" >> },
             { << "a", "b", "a" >>, << "b", "b" >>, << "a", "b" >> },
             { << "a", "a", "b" >>, << "a", "b", "b", "a" >>, << "b", "a" >>, << "a" >> } }

Plain == UNION { [1 .. n -> { A, B }] : n \in 5 .. 6 }

(* One character of each kind, two of those kinds where it matters. *)
Kinds == { A, C("b", "OTHER", FALSE), C("1", "DIGIT", FALSE), C("W", "DIGIT", TRUE),
           C("x", "LETTER", FALSE), C("D", "DATE", FALSE), C("n", "CHARDIGIT", FALSE),
           C(".", "PUNC", FALSE), C(",", "PUNC", FALSE), C(" ", "SPACE", FALSE) }

Digits == { C("1", "DIGIT", FALSE), C("W", "DIGIT", TRUE), C("X", "LETTER", TRUE),
            C("D", "DATE", FALSE) }

MixedTexts == UNION { [1 .. n -> Kinds] : n \in 1 .. 3 } \cup [1 .. 4 -> Digits]

MCTexts == Plain \cup MixedTexts
=============================================================================
