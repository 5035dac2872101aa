------------------------------- MODULE MCNBest -------------------------------
(* Units that differ in score and, for each score, in the hypothesis they  *)
(* extend: a list that mixes up units with equal scores is told apart.     *)
EXTENDS NBest

MCUnit == [score : 1 .. 3, index : 0 .. 1]
MCAnyUnit == [score |-> 1, index |-> 0]
=============================================================================
