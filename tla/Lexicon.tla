------------------------------- MODULE Lexicon -------------------------------
(***************************************************************************)
(* What the dictionary of CMA_ME_Knowledge gives its users, without the    *)
(* trie and without POS slots: a word is absent, enabled or disabled, and  *)
(* carries the set of part-of-speech tags its dictionary lines gave it.    *)
(*                                                                         *)
(* Tags are kept from the moment the POS model is loaded.  Words that are  *)
(* there already have none of their own: they are joined, the first word   *)
(* added afterwards joins them, and from then on a line of one of them     *)
(* gives its tags to all.  When the POS model comes first nothing is       *)
(* joined, and each word has its own tags.                                 *)
(*                                                                         *)
(* Module Knowledge implements this specification (its property            *)
(* ImplementsLexicon).                                                     *)
(***************************************************************************)
CONSTANTS
  Words,  (* The words the dictionaries may hold. *)
  Tags    (* The part-of-speech tags.             *)

VARIABLES
  status,  (* status[w]: whether w is absent, enabled or disabled.         *)
  tags,    (* tags[w]: the tags a tagger may choose from for w.            *)
  tagging, (* "off": no tags are kept; "empty": none were given yet; "on". *)
  joint    (* The words that have their tags in common.                    *)

lexVars == << status, tags, tagging, joint >>

Status == { "absent", "enabled", "disabled" }

Init ==
  /\ status  = [w \in Words |-> "absent"]
  /\ tags    = [w \in Words |-> {}]
  /\ tagging = "off"
  /\ joint   = {}

StartTagging ==
  /\ tagging = "off"
  /\ tagging' = "empty"
  /\ joint' = { w \in Words : status[w] # "absent" }
  /\ UNCHANGED << status, tags >>

(* A line of a word that is enabled: nothing was there to take its tags *)
(* before the first new word.                                           *)
AddToKnown(w, ts) ==
  /\ status[w] = "enabled"
  /\ tags' = [v \in Words |-> IF tagging = "on" /\ (v = w \/ { v, w } \subseteq joint)
                                THEN tags[v] \union ts ELSE tags[v]]
  /\ UNCHANGED << status, tagging, joint >>

(***************************************************************************)
(* A word that is absent, or disabled, becomes enabled with the tags of    *)
(* this line only: what a disabled word had before is forgotten.           *)
(***************************************************************************)
AddNew(w, ts) ==
  /\ status[w] # "enabled"
  /\ status' = [status EXCEPT ![w] = "enabled"]
  /\ tagging' = IF tagging = "off" THEN "off" ELSE "on"
  /\ joint' = IF tagging = "empty" THEN joint \union { w } ELSE joint \ { w }
  /\ tags' = [v \in Words |-> IF tagging # "off" /\ (v = w \/ (tagging = "empty" /\ v \in joint))
                                THEN ts ELSE tags[v]]

Disable(ws) ==
  /\ status' = [w \in Words |-> IF w \in ws /\ status[w] = "enabled"
                                  THEN "disabled" ELSE status[w]]
  /\ UNCHANGED << tags, tagging, joint >>

Enable(ws) ==
  /\ status' = [w \in Words |-> IF w \in ws /\ status[w] = "disabled"
                                  THEN "enabled" ELSE status[w]]
  /\ UNCHANGED << tags, tagging, joint >>

Next ==
  \/ StartTagging
  \/ \E w \in Words, ts \in SUBSET Tags : AddToKnown(w, ts) \/ AddNew(w, ts)
  \/ \E ws \in SUBSET Words : Disable(ws) \/ Enable(ws)

Spec == Init /\ [][Next]_lexVars
=============================================================================
