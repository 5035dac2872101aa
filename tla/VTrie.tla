-------------------------------- MODULE VTrie --------------------------------
(***************************************************************************)
(* The dictionary's storage: source/vsynonym/VTrie.h.                      *)
(*                                                                         *)
(* A radix tree in one block of bytes that only grows at its end.  A node  *)
(* is a path of entries, a character with the number of the word that ends *)
(* there, and, unless it is a leaf, an array of pointers to its children,  *)
(* as long as the smallest modulus under which the codes of their first    *)
(* characters differ.  A node that has to grow is written again at the end *)
(* and its old bytes are counted as wasted; when too many are, optimize    *)
(* copies what is left into a block that is smaller by just that count.    *)
(*                                                                         *)
(* The block is a function from the offsets where nodes begin to the       *)
(* nodes; bytes nothing points to are left out.  The root, whose array has *)
(* a place for every code, is the node at offset 0 with an empty path, and *)
(* a pointer of 0 is none.  A character is its code in VTRIE_CODE, which   *)
(* gives each one its own.                                                 *)
(***************************************************************************)
EXTENDS Integers, Sequences, FiniteSets, FiniteSetsExt, SequencesExt, Functions

CONSTANTS
  VTKEY_NUM,   (* The number of codes, 256 in the code.                    *)
  MIN_REMAIN,  (* Bytes kept free for the next insertion, 3072.            *)
  INCRE_SIZE,  (* Bytes added when the block grows, 204800.                *)
  Tenths,      (* Wasted share of the block that calls for optimize, 3.    *)
  Keys,        (* The words.                                               *)
  MaxKeyLen,   (* No word is longer, 255 in the code: a path's length is   *)
               (* kept in a byte.                                          *)
  MaxInserts   (* Bound: the insertions of a run.                          *)

(* Sizes in bytes. *)
VALUE_L == 4
VTPTR_L == 4
VTENTRY_L == 5
VTCHILDS_L == 1
VTSAMEPS_L == 1
Header == VALUE_L + VTCHILDS_L + VTKEY_NUM * VTPTR_L

ASSUME CodesAssumption == VTKEY_NUM \in Nat /\ VTKEY_NUM > 1
ASSUME NatAssumption ==
  /\ MaxKeyLen \in Nat /\ MIN_REMAIN \in Nat /\ INCRE_SIZE \in Nat /\ MaxInserts \in Nat
ASSUME KeysAssumption == \A k \in Keys : k \in Seq(0 .. VTKEY_NUM - 1) /\ Len(k) <= MaxKeyLen
(* What makes MIN_REMAIN and INCRE_SIZE large enough. *)
ASSUME SizesAssumption ==
  /\ MIN_REMAIN + 1 >= 2 * (VTSAMEPS_L + VTCHILDS_L) + VTENTRY_L * (MaxKeyLen + VTKEY_NUM)
  /\ INCRE_SIZE > Header + MIN_REMAIN

VARIABLES
  trie,   (* nodes, the root's value and flag more, end, wasted, size.     *)
  more,   (* moreLong of the node the last insert gave back.               *)
  found,  (* What looking up each of the words gives.                      *)
  count   (* The insertions so far; also the number the next one stores.   *)

vars == << trie, more, found, count >>

Clear == [nodes |-> << >>, value |-> 0, more |-> FALSE, end |-> 0, wasted |-> 0, size |-> 0]

Init ==
  /\ trie = Clear
  /\ more = FALSE
  /\ found = [k \in Keys |-> 0]
  /\ count = 0
-----------------------------------------------------------------------------
(* Nodes. *)

Entries(chars, d) ==
  [k \in 1 .. Len(chars) |-> [ch |-> chars[k], data |-> IF k = Len(chars) THEN d ELSE 0]]

Leaf(chars, d) == [path |-> Entries(chars, d), mod |-> 0, child |-> << >>]

Inner(path, mod, child) == [path |-> path, mod |-> mod, child |-> child]

Root == [path |-> << >>, mod |-> VTKEY_NUM, child |-> [s \in 0 .. VTKEY_NUM - 1 |-> 0]]

PathBytes(path) == VTSAMEPS_L + VTENTRY_L * Len(path)
NodeBytes(node) == PathBytes(node.path) + VTCHILDS_L + VTPTR_L * node.mod
Bytes(t, a) == IF a = 0 THEN Header ELSE NodeBytes(t.nodes[a])

Child(t, a, c) == LET node == t.nodes[a] IN IF node.mod = 0 THEN 0 ELSE node.child[c % node.mod]

FirstChar(t, a) == t.nodes[a].path[1].ch

(* How many characters of key the path agrees with. *)
Agree(path, key) ==
  LET most == Min({ Len(path), Len(key) })
      parts(k) == k > most \/ path[k].ch # key[k]
  IN (CHOOSE k \in 1 .. most + 1 : parts(k) /\ \A j \in 1 .. k - 1 : ~parts(j)) - 1

Rest(key, n) == SubSeq(key, n + 1, Len(key))

(***************************************************************************)
(* The walk of insert: the node where it stops, the pointer that led       *)
(* there, how much of the key was used before that node, and how much of   *)
(* the rest the node's path agrees with.                                   *)
(***************************************************************************)
Walk(t, key) ==
  LET places == (DOMAIN t.nodes) \X (0 .. VTKEY_NUM - 1)
      walk[w \in [at : DOMAIN t.nodes, used : 0 .. Len(key), from : places]] ==
        LET node == t.nodes[w.at]
            rest == Rest(key, w.used)
            agree == Agree(node.path, rest)
            next == Child(t, w.at, rest[agree + 1])
        IN IF /\ agree = Len(node.path)
              /\ agree < Len(rest)
              /\ next # 0
              /\ FirstChar(t, next) = rest[agree + 1]
             THEN walk[[at |-> next, used |-> w.used + agree, from |-> << w.at, rest[agree + 1] % node.mod >>]]
             ELSE [at |-> w.at, from |-> w.from, agree |-> agree, rest |-> rest]
  IN walk[[at |-> 0, used |-> 0, from |-> << 0, 0 >>]]

Point(nodes, pointer, a) == [nodes EXCEPT ![pointer[1]].child[pointer[2]] = a]

Without(nodes, a) == [x \in DOMAIN nodes \ { a } |-> nodes[x]]

Plus(nodes, a, node) == [x \in DOMAIN nodes \cup { a } |-> IF x = a THEN node ELSE nodes[x]]

(* The smallest array in which the codes do not collide. *)
getModMinSize(codes) ==
  LET max == Max(codes) + 1
      apart(m) == \A c, d \in codes : c # d => c % m # d % m
      fits == { m \in Cardinality(codes) .. max - 1 : apart(m) }
  IN IF fits = {} THEN max ELSE Min(fits)
-----------------------------------------------------------------------------
(* Looking up a word: search, all at once, and find, character by          *)
(* character, which is what the users call.                                *)

Absent == [data |-> 0, moreLong |-> FALSE]

search(t, key) ==
  LET w == Walk(t, key)
      node == t.nodes[w.at]
  IN IF t.size = 0 THEN Absent
     ELSE IF key = << >> THEN [data |-> t.value, moreLong |-> t.more]
     ELSE IF w.agree < Len(w.rest) THEN Absent
     ELSE [data |-> node.path[w.agree].data, moreLong |-> w.agree < Len(node.path) \/ node.mod # 0]

(* A node of the iteration: where it stands, and the entries ahead. *)
Begin == [data |-> 0, moreLong |-> TRUE, at |-> 0, state |-> 0]
Lost(n) == [n EXCEPT !.data = 0, !.moreLong = FALSE]

(* Whether entries of the path, or children, come after one. *)
MutGoesOn(t, a, state) == state > 0
GoesOn(t, a, state) == state > 0 \/ t.nodes[a].mod # 0

find(t, ch, n) ==
  LET next == IF n.state = 0 THEN Child(t, n.at, ch) ELSE n.at
      path == t.nodes[next].path
      state == IF n.state = 0 THEN Len(path) ELSE n.state
      entry == path[Len(path) - state + 1]
  IN IF ~n.moreLong \/ next = 0 THEN Lost(n)
     ELSE IF entry.ch # ch THEN Lost(n)
     ELSE [data |-> entry.data, at |-> next, state |-> state - 1,
           moreLong |-> GoesOn(t, next, state - 1)]

FindAll(t, key) == FoldLeft(LAMBDA n, ch : find(t, ch, n), Begin, key)
-----------------------------------------------------------------------------
(* Making room. *)

Children(node) == { s \in DOMAIN node.child : node.child[s] # 0 }

(* The bytes of the tree from each node on, without gaps. *)
Compact(t) ==
  LET bytes[a \in DOMAIN t.nodes] ==
        LET node == t.nodes[a]
        IN Bytes(t, a) + SumFunction([s \in Children(node) |-> bytes[node.child[s]]])
  IN bytes

(* Where each node goes, a node before its children. *)
NewPlace(t) ==
  LET bytes == Compact(t)
      place[a \in DOMAIN t.nodes] ==
        IF a = 0 THEN 0
        ELSE LET p == CHOOSE b \in DOMAIN t.nodes : a \in Range(t.nodes[b].child)
                 parent == t.nodes[p]
                 before == { s \in Children(parent) : s < CHOOSE r \in DOMAIN parent.child : parent.child[r] = a }
             IN place[p] + Bytes(t, p) + SumFunction([s \in before |-> bytes[parent.child[s]]])
  IN place

optimize(t) ==
  LET place == NewPlace(t)
      moved(node) == [node EXCEPT !.child = [s \in DOMAIN @ |-> IF @[s] = 0 THEN 0 ELSE place[@[s]]]]
      old(b) == CHOOSE a \in DOMAIN t.nodes : place[a] = b
  IN IF t.wasted = 0 THEN t
     ELSE [t EXCEPT !.size = @ - t.wasted,
                    !.wasted = 0,
                    !.end = Compact(t)[0],
                    !.nodes = [b \in Range(place) |-> moved(t.nodes[old(b)])]]

(* Grows a block only when it is full. *)
MutEnsureDataLength(t0) ==
  LET t == IF 10 * t0.wasted > Tenths * t0.size THEN optimize(t0) ELSE t0
      size == (t.size * 3) \div 2 + INCRE_SIZE
  IN IF t.size > t.end THEN t
     ELSE IF t.end = 0 THEN [t EXCEPT !.size = size, !.end = Header, !.nodes = [a \in { 0 } |-> Root]]
     ELSE [t EXCEPT !.size = size]

(* The length of the key plays no part. *)
ensureDataLength(t0) ==
  LET t == IF 10 * t0.wasted > Tenths * t0.size THEN optimize(t0) ELSE t0
      size == (t.size * 3) \div 2 + INCRE_SIZE
  IN IF t.size - t.end > MIN_REMAIN THEN t
     ELSE IF t.end = 0 THEN [t EXCEPT !.size = size, !.end = Header, !.nodes = [a \in { 0 } |-> Root]]
     ELSE [t EXCEPT !.size = size]
-----------------------------------------------------------------------------
(* One action for each way an insertion ends. *)

Data == count + 1

Store(t, m) ==
  /\ count < MaxInserts
  /\ trie' = t
  /\ more' = m
  /\ found' = [k \in Keys |-> search(t, k).data]
  /\ count' = count + 1

InsertEmpty(t) == Store([t EXCEPT !.value = Data], t.more)

(* Any other key marks the root. *)
StoreBelow(t, m) == Store([t EXCEPT !.more = TRUE], m)

(* Mutant: a word that has a number keeps it. *)
MutSetValue(t, w) ==
  LET node == t.nodes[w.at]
  IN /\ w.agree = Len(w.rest)
     /\ StoreBelow([t EXCEPT !.nodes[w.at].path[w.agree].data = IF @ = 0 THEN Data ELSE @],
                   w.agree < Len(node.path) \/ node.mod # 0)

(* The key ends inside a path. *)
SetValue(t, w) ==
  LET node == t.nodes[w.at]
  IN /\ w.agree = Len(w.rest)
     /\ StoreBelow([t EXCEPT !.nodes[w.at].path[w.agree].data = Data],
                   w.agree < Len(node.path) \/ node.mod # 0)

(* A place of the children's array is free. *)
NewChild(t, w) ==
  LET node == t.nodes[w.at]
      rest == Rest(w.rest, w.agree)
      leaf == Leaf(rest, Data)
  IN /\ w.agree < Len(w.rest)
     /\ w.agree = Len(node.path)
     /\ node.mod # 0
     /\ Child(t, w.at, rest[1]) = 0
     /\ StoreBelow([t EXCEPT !.nodes = Plus(Point(@, << w.at, rest[1] % node.mod >>, t.end), t.end, leaf),
                                 !.end = @ + NodeBytes(leaf)],
                   FALSE)

(***************************************************************************)
(* The key leaves the path in its middle.  The common beginning is copied  *)
(* to the end, with two children; the rest of the path stays where it is,  *)
(* as a node whose length byte takes the place of the last copied byte.    *)
(***************************************************************************)
MutTailAt(w, top) == w.at + PathBytes(top)
TailAt(w, top) == w.at + PathBytes(top) - 1

Split(t, w, d) ==
  LET node == t.nodes[w.at]
      rest == Rest(w.rest, w.agree)
      other == node.path[w.agree + 1].ch
      top == SubSeq(node.path, 1, w.agree)
      minMod == getModMinSize({ rest[1], other })
      leaf == Leaf(rest, d)
      leafAt == t.end + PathBytes(top) + VTCHILDS_L + VTPTR_L * minMod
      child == [s \in 0 .. minMod - 1 |-> CASE s = rest[1] % minMod -> leafAt
                                            [] s = other % minMod -> TailAt(w, top)
                                            [] OTHER -> 0]
      tail == [node EXCEPT !.path = Rest(@, w.agree)]
      others == Point(Without(t.nodes, w.at), w.from, t.end)
  IN [t EXCEPT !.nodes = Plus(Plus(Plus(others, TailAt(w, top), tail), t.end, Inner(top, minMod, child)),
                              leafAt, leaf),
               !.wasted = @ + PathBytes(top) - 1,
               !.end = leafAt + NodeBytes(leaf)]

SplitPath(t, w) ==
  /\ w.agree < Len(w.rest)
  /\ w.agree < Len(t.nodes[w.at].path)
  /\ StoreBelow(Split(t, w, Data), FALSE)

(***************************************************************************)
(* resolveConfilct: the place of the new child is taken, so the node is    *)
(* written again with a longer array.  The array gets the bytes of so many *)
(* entries, not pointers, and as much is counted for the one given up.     *)
(***************************************************************************)
MutArrayBytes(mod) == mod * VTPTR_L
ArrayBytes(mod) == mod * VTENTRY_L

resolveConfilct(t, w, d) ==
  LET node == t.nodes[w.at]
      rest == Rest(w.rest, w.agree)
      kept == { node.child[s] : s \in Children(node) }
      nMinMod == getModMinSize({ FirstChar(t, a) : a \in kept } \cup { rest[1] })
      leafAt == t.end + PathBytes(node.path) + VTCHILDS_L + ArrayBytes(nMinMod)
      owners(s) == { a \in kept : FirstChar(t, a) % nMinMod = s }
      child == [s \in 0 .. nMinMod - 1 |-> CASE s = rest[1] % nMinMod -> leafAt
                                             [] owners(s) # {} -> CHOOSE a \in owners(s) : TRUE
                                             [] OTHER -> 0]
      leaf == Leaf(rest, d)
      others == Point(Without(t.nodes, w.at), w.from, t.end)
  IN [t EXCEPT !.nodes = Plus(Plus(others, t.end, Inner(node.path, nMinMod, child)), leafAt, leaf),
               !.wasted = @ + PathBytes(node.path) + VTCHILDS_L + node.mod * VTENTRY_L,
               !.end = leafAt + NodeBytes(leaf)]

Rebuild(t, w) ==
  LET node == t.nodes[w.at]
      c == w.rest[w.agree + 1]
  IN /\ w.agree < Len(w.rest)
     /\ w.agree = Len(node.path)
     /\ Child(t, w.at, c) # 0
     /\ FirstChar(t, Child(t, w.at, c)) # c
     /\ StoreBelow(resolveConfilct(t, w, Data), FALSE)

(* A leaf whose bytes are the last ones grows where it is. *)
AtEnd(t, a) == a + NodeBytes(t.nodes[a]) = t.end

Grown(node, chars, d) == [node EXCEPT !.path = @ \o Entries(chars, d)]

GrowLeaf(t, w) ==
  LET leaf == t.nodes[w.at]
      grown == Grown(leaf, Rest(w.rest, w.agree), Data)
  IN /\ w.agree < Len(w.rest)
     /\ w.agree = Len(leaf.path)
     /\ leaf.mod = 0
     /\ AtEnd(t, w.at)
     /\ StoreBelow([t EXCEPT !.nodes[w.at] = grown, !.end = w.at + NodeBytes(grown)], FALSE)

(* Any other leaf is copied to the end. *)
MoveLeaf(t, w) ==
  LET leaf == t.nodes[w.at]
      grown == Grown(leaf, Rest(w.rest, w.agree), Data)
  IN /\ w.agree < Len(w.rest)
     /\ w.agree = Len(leaf.path)
     /\ leaf.mod = 0
     /\ ~AtEnd(t, w.at)
     /\ StoreBelow([t EXCEPT !.nodes = Plus(Point(Without(@, w.at), w.from, t.end), t.end, grown),
                                 !.wasted = @ + NodeBytes(leaf),
                                 !.end = @ + NodeBytes(grown)], FALSE)

(* Room is made first, also for a key that then needs none. *)
insert(key) ==
  \E t \in { ensureDataLength(trie) } :
    \/ key = << >> /\ InsertEmpty(t)
    \/ key # << >> /\ \E w \in { Walk(t, key) } :
         \/ SetValue(t, w) \/ NewChild(t, w) \/ SplitPath(t, w)
         \/ Rebuild(t, w) \/ GrowLeaf(t, w) \/ MoveLeaf(t, w)

Next == \E key \in Keys : insert(key)

Spec == Init /\ [][Next]_vars
-----------------------------------------------------------------------------
(***************************************************************************)
(* Type invariant: the parts of the trie, and a block that is at least as  *)
(* long as what is used of it: ensureDataLength leaves room for any key    *)
(* without asking for its length.                                          *)
(***************************************************************************)
IsNode(a, node) ==
  /\ DOMAIN node.child = 0 .. node.mod - 1
  /\ \A k \in 1 .. Len(node.path) : node.path[k].ch \in 0 .. VTKEY_NUM - 1
  /\ node.mod # 1
  /\ node.path = << >> <=> a = 0

TypeOK ==
  /\ \A a \in DOMAIN trie.nodes : IsNode(a, trie.nodes[a])
  /\ trie.end \in 0 .. trie.size
  /\ trie.wasted \in 0 .. trie.end
  /\ count \in 0 .. MaxInserts

(***************************************************************************)
(* The nodes form a tree, and no two of them, nor the root, share a byte,  *)
(* although the rest of a split path is used where it was and arrays are   *)
(* written with two different sizes.                                       *)
(***************************************************************************)
NodesApart ==
  LET nodes == trie.nodes
      pointers(a) == { p \in (DOMAIN nodes) \X (0 .. VTKEY_NUM - 1) :
                         p[2] \in DOMAIN nodes[p[1]].child /\ nodes[p[1]].child[p[2]] = a }
  IN \A a \in DOMAIN nodes :
       /\ a + Bytes(trie, a) <= trie.end
       /\ Range(nodes[a].child) \ { 0 } \subseteq DOMAIN nodes
       /\ a # 0 => Cardinality(pointers(a)) = 1
       /\ \A b \in DOMAIN nodes : a < b => a + Bytes(trie, a) <= b

(***************************************************************************)
(* What optimize relies on: the bytes counted as wasted are no more than   *)
(* the copy saves, so the smaller block holds it.  Counting the pointers   *)
(* of a rebuilt node as entries is right only because the array is written *)
(* as long as that when it is rebuilt, and is longer than the one before.  *)
(***************************************************************************)
WasteSound == trie.size > 0 => Compact(trie)[0] + trie.wasted <= trie.end

(***************************************************************************)
(* Searching a word at once and finding it character by character give the *)
(* same answer, and moreLong is right: some word with a number goes on     *)
(* from here.  The analysis skips and joins words by that answer.          *)
(***************************************************************************)
Probes == UNION { Prefixes(k) : k \in Keys } \cup { k \o k : k \in Keys }

SearchExact ==
  \A p \in Probes \ { << >> } :
    LET s == search(trie, p)
        f == FindAll(trie, p)
    IN trie.size > 0 =>
         /\ f.data = s.data /\ f.moreLong = s.moreLong
         /\ s.moreLong <=> \E k \in Keys : IsStrictPrefix(p, k) /\ search(trie, k).data # 0

(***************************************************************************)
(* VTrie implements WordMap, call by call: an insertion of a key stores    *)
(* the number it was given under that key, also in place of another one,   *)
(* changes no other word's, and answers whether a longer word is known,    *)
(* wherever it moves the nodes.                                            *)
(***************************************************************************)
Map == INSTANCE WordMap WITH value <- found, Values <- 1 .. MaxInserts

ImplementsMap ==
  /\ Map!Spec
  /\ [][\A key \in Keys : insert(key) => Map!insert(key, Data)]_vars
=============================================================================
