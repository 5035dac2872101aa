---------------------------- MODULE MCSegSentence ----------------------------
(* Families of sentences for SegSentence. *)
EXTENDS SegSentence

CONSTANT Weights  (* The probabilities an outcome can have. *)

Even == [t \in Tag |-> 1]

(* Four characters, three of them left to the model, with every            *)
(* combination of probabilities: ties, and prefixes that *)
(* fall behind and could come back.  No space, no word of the dictionary.  *)
Plain ==
  { [len |-> 4,
     match |-> [s \in 0 .. 3 |-> 0],
     other |-> [s \in 0 .. 3 |-> TRUE],
     space |-> [c \in 0 .. 3 |-> FALSE],
     weight |-> [c \in 0 .. 3 |-> IF c = 0 THEN Even ELSE w[c]]] :
     w \in [1 .. 3 -> [Tag -> Weights]] }

(* Nine characters with a dictionary word from 2 to 5: the model tags 1,   *)
(* skips the word and the character after it, and tags 7 and 8.            *)
Skipping ==
  { [len |-> 9,
     match |-> [s \in 0 .. 8 |-> IF s = 2 THEN 6 ELSE 0],
     other |-> [s \in 0 .. 8 |-> TRUE],
     space |-> [c \in 0 .. 8 |-> c = 6],
     weight |-> [c \in 0 .. 8 |-> IF c \in DOMAIN w THEN w[c] ELSE Even]] :
     w \in [{ 1, 7, 8 } -> [Tag -> Weights]] }

Beamed == Plain \cup Skipping

(* Seven characters with dictionary words of the least length that counts, *)
(* one less and two more, that may overlap or touch, and at most two       *)
(* spaces outside the words.  The word at 1 is a number.  The model always *)
(* prefers E.                                                              *)
MatchEnd(s, n) == IF n = 0 \/ s + n > 7 THEN 0 ELSE s + n
MatchEnds == { [s \in 0 .. 6 |-> IF s > 3 THEN 0 ELSE MatchEnd(s, n[s])] :
                 n \in [0 .. 3 -> { 0, 3, 4, 6 }] }
Inside(f) == { c \in 0 .. 6 : \E s \in 0 .. 6 : c \in s .. f[s] - 1 }

Matched ==
  UNION { { [len |-> 7,
             match |-> f,
             other |-> [s \in 0 .. 6 |-> s # 1],
             space |-> [c \in 0 .. 6 |-> c \in sp],
             weight |-> [c \in 0 .. 6 |-> [t \in { "E" } |-> 1]]] :
             sp \in { S \in SUBSET (0 .. 6 \ Inside(f)) : Cardinality(S) <= 2 } } :
          f \in MatchEnds }

MatchedOrBeamed == Matched \cup Beamed
=============================================================================
