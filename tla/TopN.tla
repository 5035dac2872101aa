-------------------------------- MODULE TopN --------------------------------
(***************************************************************************)
(* What an N-best list promises: of all the units offered since the last   *)
(* reset it keeps the N with the highest scores, best first, and of units  *)
(* with equal scores the one offered earlier first.                        *)
(*                                                                         *)
(* Module NBest implements this specification.                             *)
(***************************************************************************)
EXTENDS Integers, Sequences, FiniteSets

CONSTANTS
  N,     (* How many units are kept.           *)
  Unit   (* The units, records with a score.   *)

VARIABLE kept  (* The units kept, best first. *)

Init == kept = << >>

Reset == kept' = << >>

(* The place of a unit: behind every unit kept that is at least as good. *)
Rank(u) == 1 + Cardinality({ k \in DOMAIN kept : kept[k].score >= u.score })

Offer(u) ==
  LET size == IF Len(kept) < N THEN Len(kept) + 1 ELSE N IN
  kept' = [k \in 1 .. size |-> IF k < Rank(u) THEN kept[k]
                               ELSE IF k = Rank(u) THEN u ELSE kept[k - 1]]

Next == Reset \/ \E u \in Unit : Offer(u)

Spec == Init /\ [][Next]_kept
=============================================================================
