------------------------------ MODULE MCSession ------------------------------
(* An instance of Session: a text with several results, one whose results  *)
(* are shorter, and one without characters, in every place of a file.      *)
EXTENDS Session

Long == [mm |-> << 2, 3 >>, dict |-> << 3 >>, prefix |-> << 1, 2 >>]
Short == [mm |-> << 1 >>, dict |-> << 2 >>, prefix |-> << 0, 2 >>]
Mark == [mm |-> << >>, dict |-> << >>, prefix |-> << >>]

MCTexts == { Long, Short, Mark }
MCFiles == { << Long, Short, NoText >>, << Mark, Short, Long >>, << NoText, Long >>, << Short, NoText, Long, NoText >>,
             << Long, Mark, Short >>, << Short, NoText, Mark, Mark >> }
=============================================================================
