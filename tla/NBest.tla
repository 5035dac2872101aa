-------------------------------- MODULE NBest --------------------------------
(***************************************************************************)
(* The N-best list of SegTagger: POCTagUnit candidates[N], linked from the *)
(* worst unit (lastIndex) to the best one through `previous`, and the      *)
(* function insertCandidate that keeps it sorted.                          *)
(* Source: source/src/me/CMAPOCTagger.cc.  POSTagger has a copy of it.     *)
(*                                                                         *)
(* The walk along the links is one step per link.  Scores are integers:    *)
(* the list only compares them.                                            *)
(***************************************************************************)
EXTENDS Integers

CONSTANTS
  N,       (* The length of candidates.                      *)
  Unit,    (* What is inserted: records with a score.        *)
  AnyUnit  (* Stands for what a place holds before it is used. *)

ASSUME NAssumption == N \in Nat \ {0}
ASSUME UnitAssumption == AnyUnit \in Unit /\ \A u \in Unit : u.score \in Int

VARIABLES
  unit,       (* unit[i]: score, index and pocCode of candidates[i].       *)
  previous,   (* previous[i]: the next better candidate, -1 for the best.  *)
  lastIndex,  (* The worst candidate, -1 before the first is inserted.     *)
  canSize,    (* How many candidates are in use.                           *)
  walking,    (* An insertion is looking for its place.                    *)
  given,      (* The unit it inserts.                                      *)
  lIndex,     (* The candidate it compared last.                           *)
  cIndex      (* The candidate it compares next.                           *)

array == << unit, previous >>
search == << walking, given, lIndex, cIndex >>
vars == << array, lastIndex, canSize, search >>

Slots == 0 .. N - 1

NoSearch ==
  /\ walking = FALSE
  /\ given = AnyUnit
  /\ lIndex = -1
  /\ cIndex = -1

(* `new POCTagUnit[N]` leaves its elements to be written before use. *)
Init ==
  /\ unit = [i \in Slots |-> AnyUnit]
  /\ previous = [i \in Slots |-> -1]
  /\ lastIndex = -1
  /\ canSize = 0
  /\ NoSearch

(* seg_sentence, before each character. *)
Reset ==
  /\ ~walking
  /\ lastIndex' = -1
  /\ canSize' = 0
  /\ UNCHANGED << array, search >>

(* tag_word: a full list does not take a unit that is no better. *)
Full(u) == canSize >= N /\ u.score <= unit[lastIndex].score

(* candidates[i] = u, and candidates[p] is the next better one. *)
Put(i, u, p) ==
  /\ unit' = [unit EXCEPT ![i] = u]
  /\ previous' = [previous EXCEPT ![i] = p]

(***************************************************************************)
(* The three branches of insertCandidate.  The first unit, or a better one *)
(* when only one is kept, becomes the whole list.                          *)
(***************************************************************************)
IsHead(u) ==
  \/ canSize = 0
  \/ canSize > 0 /\ N = 1 /\ u.score > unit[lastIndex].score

InsertHead(u) ==
  /\ IsHead(u)
  /\ Put(0, u, -1)
  /\ lastIndex' = 0
  /\ canSize' = 1
  /\ UNCHANGED search

(* A unit no better than the worst goes to the end. *)
InsertLast(u) ==
  /\ ~IsHead(u)
  /\ u.score <= unit[lastIndex].score
  /\ Put(canSize, u, lastIndex)
  /\ lastIndex' = canSize
  /\ canSize' = canSize + 1
  /\ UNCHANGED search

(* Otherwise its place is looked for from the worst candidate on. *)
StartWalk(u) ==
  /\ ~IsHead(u)
  /\ u.score > unit[lastIndex].score
  /\ walking' = TRUE
  /\ given' = u
  /\ lIndex' = lastIndex
  /\ cIndex' = previous[lastIndex]
  /\ UNCHANGED << array, lastIndex, canSize >>

insertCandidate(u) ==
  /\ ~walking
  /\ ~Full(u)
  /\ InsertHead(u) \/ InsertLast(u) \/ StartWalk(u)

(* Mutant: a unit also passes the candidates with its own score. *)
MutPassEquals(c) == c >= 0 /\ unit[c].score <= given.score

Worse(c) == c >= 0 /\ unit[c].score < given.score

Walk ==
  /\ walking
  /\ Worse(cIndex)
  /\ lIndex' = cIndex
  /\ cIndex' = previous[cIndex]
  /\ UNCHANGED << array, lastIndex, canSize, walking, given >>

(* Mutant: replacing the worst unit leaves lastIndex at its place. *)
MutPlaceKeepsLast ==
  LET dest == IF canSize = N THEN lastIndex ELSE canSize IN
  /\ walking
  /\ ~Worse(cIndex)
  /\ lastIndex' = lastIndex
  /\ canSize' = IF canSize = N THEN N ELSE canSize + 1
  /\ unit' = [unit EXCEPT ![dest] = given]
  /\ previous' = [i \in Slots |-> IF i = dest THEN cIndex
                                  ELSE IF i = lIndex THEN dest ELSE previous[i]]
  /\ walking' = FALSE /\ given' = AnyUnit /\ lIndex' = -1 /\ cIndex' = -1

(***************************************************************************)
(* The unit goes between candidates lIndex and cIndex.  A full list gives  *)
(* it the worst candidate's place, and the next better one becomes the     *)
(* last, unless the worst is the one it stands next to.                    *)
(***************************************************************************)
Place ==
  LET dest == IF canSize = N THEN lastIndex ELSE canSize IN
  /\ walking
  /\ ~Worse(cIndex)
  /\ lastIndex' = IF canSize = N /\ lIndex # lastIndex THEN previous[lastIndex]
                  ELSE lastIndex
  /\ canSize' = IF canSize = N THEN N ELSE canSize + 1
  /\ unit' = [unit EXCEPT ![dest] = given]
  /\ previous' = [i \in Slots |-> IF i = dest THEN cIndex
                                  ELSE IF i = lIndex THEN dest ELSE previous[i]]
  /\ walking' = FALSE /\ given' = AnyUnit /\ lIndex' = -1 /\ cIndex' = -1

Next ==
  \/ Reset
  \/ \E u \in Unit : insertCandidate(u)
  \/ Walk
  \/ Place

Spec == Init /\ [][Next]_vars
-----------------------------------------------------------------------------
(***************************************************************************)
(* Types.  canSize never passes N and every index written lies in the      *)
(* array: the assertion of insertCandidate, "assert(canSize < N)".         *)
(***************************************************************************)
TypeOK ==
  /\ unit \in [Slots -> Unit]
  /\ previous \in [Slots -> Slots \cup {-1}]
  /\ lastIndex \in Slots \cup {-1}
  /\ canSize \in 0 .. N
  /\ walking \in BOOLEAN
  /\ given \in Unit
  /\ lIndex \in Slots \cup {-1}
  /\ cIndex \in Slots \cup {-1}

(***************************************************************************)
(* seg_sentence takes the list apart from the worst candidate on: position *)
(* k, from canSize down to 1, is read from candidates[chain[k]].           *)
(***************************************************************************)
chain[k \in 1 .. canSize] == IF k = canSize THEN lastIndex ELSE previous[chain[k + 1]]

(***************************************************************************)
(* The links thread all the candidates in use, each once, and end at the   *)
(* best: no unit is lost and the loop of seg_sentence reads no index -1.   *)
(***************************************************************************)
ChainComplete ==
  canSize > 0 => /\ { chain[k] : k \in 1 .. canSize } = 0 .. canSize - 1
                 /\ previous[chain[1]] = -1

(***************************************************************************)
(* insertCandidate keeps the N best of the units it is given, sorted, the  *)
(* earlier of two equal ones first, whatever places of the array they got. *)
(***************************************************************************)
Best == INSTANCE TopN WITH kept <- [k \in 1 .. canSize |-> unit[chain[k]]]
KeepsTheBest == Best!Spec
=============================================================================
