----------------------------- MODULE MCPOSTagger -----------------------------
(* Instances of POSTagger: the dictionaries and texts of MCCombine, whose  *)
(* second character is a digit.  Further results cut the text into its     *)
(* characters, or not at all.                                              *)
EXTENDS POSTagger, MCCombine

MCTypeOf == [c \in { a, b, Space } |-> CASE c = a -> "other" [] c = b -> "digit" [] c = Space -> "space"]

MCTagsOf ==
  [w \in Entries |->
     CASE w = << a >>          -> << "n", "v" >>
       [] w = << a, b >>       -> << "v", "n", "q" >>
       [] w = << a, b, a >>    -> << "n" >>
       [] w = << a, b, a, b >> -> << >>
       [] w = << b, a >>       -> << "t", "n" >>
       [] w = << b >>          -> << "m", "q" >>]

Whole(chars) == << << 0, Len(chars) >> >>

(* One text has further results in each of its cuts; the others differ     *)
(* only in what is combined.                                               *)
MCOthers ==
  [t \in Texts |->
     IF t.chars = << a, b, a, b >>
       THEN { << OneEach(t.chars).cuts >>, << Whole(t.chars), OneEach(t.chars).cuts >> }
       ELSE { << >> }]
=============================================================================
