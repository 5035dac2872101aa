----------------------------- MODULE VTrieProofs -----------------------------
(***************************************************************************)
(* Proofs about VTrie, for all words, codes and sizes the assumptions      *)
(* allow: what a word inserted, a block that grows and optimize leave      *)
(* behind.                                                                 *)
(*                                                                         *)
(* The inductive invariant is IInv: the trie is not made yet (Unborn), or  *)
(* there are characters that lead to each of its nodes (pre) with which it *)
(* is Sound: the nodes form a tree whose slots are the right ones, no two  *)
(* of them overlap, and what is not theirs is what is counted as wasted.   *)
(* The characters are what bounds a path, and with it a node's size, by    *)
(* the longest word: without them no insertion is known to fit in what     *)
(* ensureDataLength kept free.                                             *)
(*                                                                         *)
(* Every insertion replaces at most one node by one to three others, a     *)
(* graft.  What a graft must have is said once (Graft), that it keeps the  *)
(* trie sound is shown once (GraftSound), and every way to insert is shown *)
(* to be such a graft.                                                     *)
(***************************************************************************)
EXTENDS VTrie, FiniteSetTheorems, TLAPS
-----------------------------------------------------------------------------
(***************************************************************************)
(* Sums.  A sum of naturals is counted: it is the number of cells below    *)
(* the graph of the function, so that what is known of finite sets does    *)
(* for sums.                                                               *)
(***************************************************************************)
Cells(f, S) == { c \in S \X Nat : c[2] < f[c[1]] }

Total(f, S) == Cardinality(Cells(f, S))

Less == { p \in Nat \X Nat : p[1] < p[2] }

(* A set of natural numbers has a least element. *)
LEMMA LeastElement ==
  ASSUME NEW S \in SUBSET Nat, S # {}
  PROVE  \E n \in S : \A m \in S : n <= m
<1>1. IsWellFoundedOn(Less, Nat)
  BY NatLessThanWellFounded DEF OpToRel, Less
<1>2. PICK n \in S : \A m \in S : ~(<< m, n >> \in Less)
  BY <1>1, WFMin
<1>3. \A i \in Nat, j \in Nat : i < j => << i, j >> \in Less
  BY DEF Less
<1>4. ASSUME NEW m \in S PROVE n <= m
  <2>1. ~(m < n)
    BY <1>2, <1>3
  <2> QED
    BY <2>1
<1> QED
  BY <1>4

(* One column of cells. *)
LEMMA ColumnCells ==
  ASSUME NEW x, NEW n \in Nat
  PROVE  IsFiniteSet({ x } \X (0 .. n - 1)) /\ Cardinality({ x } \X (0 .. n - 1)) = n
<1>1. IsFiniteSet({ x }) /\ Cardinality({ x }) = 1
  BY FS_Singleton
<1>2. IsFiniteSet(0 .. n - 1) /\ Cardinality(0 .. n - 1) = n
  BY FS_Interval
<1>3. Cardinality({ x } \X (0 .. n - 1)) = Cardinality({ x }) * Cardinality(0 .. n - 1)
  BY <1>1, <1>2, FS_Product
<1> QED
  BY <1>1, <1>2, <1>3, FS_Product

(* There are finitely many cells below a function of naturals. *)
LEMMA CellsFinite ==
  ASSUME NEW S, IsFiniteSet(S), NEW f, \A x \in S : f[x] \in Nat
  PROVE  IsFiniteSet(Cells(f, S)) /\ Total(f, S) \in Nat
<1> DEFINE column == [x \in S |-> { x } \X (0 .. f[x] - 1)]
           C == { column[x] : x \in S }
<1>1. IsFiniteSet(C)
  <2>1. column \in Surjection(S, C)
    BY DEF Surjection
  <2> QED
    BY <2>1, FS_Surjection
<1>2. ASSUME NEW c \in C PROVE IsFiniteSet(c)
  <2>1. PICK x \in S : c = { x } \X (0 .. f[x] - 1)
    OBVIOUS
  <2> QED
    BY <2>1, ColumnCells
<1>3. IsFiniteSet(UNION C)
  BY <1>1, <1>2, FS_UNION
<1>4. Cells(f, S) \subseteq UNION C
  <2> SUFFICES ASSUME NEW c \in Cells(f, S) PROVE \E x \in S : c \in column[x]
    OBVIOUS
  <2>1. c[1] \in S /\ c[2] \in Nat /\ c[2] < f[c[1]] /\ c = << c[1], c[2] >>
    BY DEF Cells
  <2>2. c[2] \in 0 .. f[c[1]] - 1
    BY <2>1
  <2> QED
    BY <2>1, <2>2
<1>5. IsFiniteSet(Cells(f, S))
  BY <1>3, <1>4, FS_Subset
<1> QED
  BY <1>5, FS_CardinalityType DEF Total

(* A sum over nothing is 0. *)
LEMMA TotalEmpty == \A f : Total(f, {}) = 0
<1> SUFFICES ASSUME NEW f PROVE Total(f, {}) = 0
  OBVIOUS
<1>1. Cells(f, {}) = {}
  BY DEF Cells
<1> QED
  BY <1>1, FS_EmptySet DEF Total

(* A set of arguments can be split. *)
LEMMA TotalSplit ==
  ASSUME NEW S, NEW T, IsFiniteSet(S), IsFiniteSet(T), S \cap T = {},
         NEW f, \A x \in S \cup T : f[x] \in Nat
  PROVE  Total(f, S \cup T) = Total(f, S) + Total(f, T)
<1>1. IsFiniteSet(Cells(f, S)) /\ IsFiniteSet(Cells(f, T))
  BY CellsFinite
<1>2. Cells(f, S \cup T) = Cells(f, S) \cup Cells(f, T) /\ Cells(f, S) \cap Cells(f, T) = {}
  BY DEF Cells
<1>3. Total(f, S) \in Nat /\ Total(f, T) \in Nat /\ Cardinality({}) = 0
  BY CellsFinite, FS_EmptySet
<1>5. Cardinality(Cells(f, S) \cap Cells(f, T)) = 0
  BY <1>2, <1>3
<1>6. Total(f, S \cup T) = Cardinality(Cells(f, S) \cup Cells(f, T))
  BY <1>2, Zenon DEF Total
<1>4. Cardinality(Cells(f, S) \cup Cells(f, T)) =
        Cardinality(Cells(f, S)) + Cardinality(Cells(f, T)) - Cardinality(Cells(f, S) \cap Cells(f, T))
  BY <1>1, FS_Union
<1> QED
  BY <1>3, <1>4, <1>5, <1>6 DEF Total

(* A sum over one element is its value. *)
LEMMA TotalOne ==
  ASSUME NEW x, NEW f, f[x] \in Nat
  PROVE  Total(f, { x }) = f[x]
<1>1. Cells(f, { x }) = { x } \X (0 .. f[x] - 1)
  <2>1. ASSUME NEW c \in { x } \X Nat PROVE c[2] < f[c[1]] <=> c \in { x } \X (0 .. f[x] - 1)
    OBVIOUS
  <2> QED
    BY <2>1 DEF Cells
<1> QED
  BY <1>1, ColumnCells DEF Total

(* One element more adds its value. *)
LEMMA TotalAdd ==
  ASSUME NEW S, IsFiniteSet(S), NEW x, x \notin S, NEW f, \A y \in S \cup { x } : f[y] \in Nat
  PROVE  Total(f, S \cup { x }) = Total(f, S) + f[x]
<1>1. IsFiniteSet({ x }) /\ S \cap { x } = {}
  BY FS_Singleton
<1>2. Total(f, S \cup { x }) = Total(f, S) + Total(f, { x })
  BY <1>1, TotalSplit
<1> QED
  BY <1>2, TotalOne

(* Only the values that are summed matter. *)
LEMMA TotalSame ==
  ASSUME NEW S, NEW f, NEW g, \A x \in S : f[x] = g[x]
  PROVE  Total(f, S) = Total(g, S)
<1>1. Cells(f, S) = Cells(g, S)
  BY DEF Cells
<1> QED
  BY <1>1 DEF Total

(* A sum over fewer elements is no larger. *)
LEMMA TotalMonotone ==
  ASSUME NEW S, IsFiniteSet(S), NEW T \in SUBSET S, NEW f, \A x \in S : f[x] \in Nat
  PROVE  Total(f, T) <= Total(f, S)
<1>1. Cells(f, T) \subseteq Cells(f, S)
  BY DEF Cells
<1> QED
  BY <1>1, CellsFinite, FS_Subset DEF Total

(* The sum of the community modules is this sum. *)
LEMMA SumIsTotal ==
  ASSUME NEW f, IsFiniteSet(DOMAIN f), \A x \in DOMAIN f : f[x] \in Nat
  PROVE  SumFunction(f) = Total(f, DOMAIN f)
<1> DEFINE D == DOMAIN f
           first(s) == CHOOSE y \in s : TRUE
           Step(g, s) == IF s = {} THEN 0 ELSE f[first(s)] + g[s \ { first(s) }]
<1>1. SumFunction(f) = (CHOOSE g : g = [s \in SUBSET D |-> Step(g, s)])[D]
  BY DEF SumFunction, SumFunctionOnSet, FoldFunctionOnSet, MapThenFoldSet
<1>2. ASSUME NEW s \in SUBSET D, s # {}
      PROVE  /\ first(s) \in s /\ s \ { first(s) } \in SUBSET D
             /\ Total(f, s) = f[first(s)] + Total(f, s \ { first(s) })
  <2>1. PICK y : y = first(s) /\ y \in s
    BY <1>2
  <2>2. (s \ { y }) \cup { y } = s /\ s \ { y } \in SUBSET D
    BY <2>1
  <2>5. IsFiniteSet(s \ { y })
    BY <2>2, FS_Subset
  <2>3. Total(f, s) = Total(f, s \ { y }) + f[y]
    <3>1. \A z \in (s \ { y }) \cup { y } : f[z] \in Nat
      BY <2>1
    <3>2. Total(f, (s \ { y }) \cup { y }) = Total(f, s \ { y }) + f[y]
      BY <2>5, <3>1, TotalAdd
    <3> QED
      BY <2>2, <3>2, Zenon
  <2>4. Total(f, s \ { y }) \in Nat /\ f[y] \in Nat
    <3>1. \A z \in s \ { y } : f[z] \in Nat
      OBVIOUS
    <3> QED
      BY <2>1, <2>5, <3>1, CellsFinite
  <2> QED
    BY <2>1, <2>2, <2>3, <2>4
<1> DEFINE t == [s \in SUBSET D |-> Total(f, s)]
<1>3. t = [s \in SUBSET D |-> Step(t, s)]
  <2>1. ASSUME NEW s \in SUBSET D PROVE t[s] = Step(t, s)
    <3>1. CASE s = {}
      BY <3>1, TotalEmpty
    <3>2. CASE s # {}
      <4>1. t[s \ { first(s) }] = Total(f, s \ { first(s) })
        BY <1>2, <3>2
      <4> QED
        BY <1>2, <3>2, <4>1
    <3> QED
      BY <3>1, <3>2
  <2> QED
    BY <2>1
<1>4. \E g : g = [s \in SUBSET D |-> Step(g, s)]
  BY <1>3
<1>5. PICK u : u = CHOOSE g : g = [s \in SUBSET D |-> Step(g, s)]
  OBVIOUS
<1>6. u = [s \in SUBSET D |-> Step(u, s)]
  BY <1>4, <1>5
<1>7. \A s \in SUBSET D : u[s] = Step(u, s)
  BY <1>6
<1> DEFINE Bad == { n \in Nat : \E s \in SUBSET D : Cardinality(s) = n /\ u[s] # Total(f, s) }
<1>8. ASSUME Bad # {} PROVE FALSE
  <2>1. PICK n \in Bad : \A m \in Bad : n <= m
    <3>1. Bad \in SUBSET Nat
      OBVIOUS
    <3> HIDE DEF Bad
    <3> QED
      BY <1>8, <3>1, LeastElement
  <2>2. PICK s \in SUBSET D : Cardinality(s) = n /\ u[s] # Total(f, s)
    BY <2>1
  <2>3. s # {}
    BY <1>7, <2>2, TotalEmpty
  <2>4. PICK y : y = first(s) /\ y \in s
    BY <1>2, <2>3
  <2>5. IsFiniteSet(s)
    BY FS_Subset
  <2>6. Cardinality(s \ { y }) = n - 1 /\ Cardinality(s \ { y }) \in Nat
    BY <2>2, <2>4, <2>5, FS_RemoveElement, FS_CardinalityType
  <2>7. n - 1 \notin Bad
    <3>1. ~(n <= n - 1)
      BY <2>1
    <3> HIDE DEF Bad
    <3> QED
      BY <2>1, <3>1
  <2>8. u[s \ { y }] = Total(f, s \ { y })
    BY <2>6, <2>7
  <2>9. u[s] = f[y] + u[s \ { y }]
    BY <1>7, <2>3, <2>4
  <2> QED
    BY <1>2, <2>2, <2>3, <2>4, <2>8, <2>9
<1>9. IsFiniteSet(D) /\ Cardinality(D) \in Nat
  BY FS_CardinalityType
<1>10. u[D] = Total(f, D)
  BY <1>8, <1>9
<1> QED
  BY <1>1, <1>5, <1>10
-----------------------------------------------------------------------------
(***************************************************************************)
(* What a trie looks like.                                                 *)
(***************************************************************************)
Char == 0 .. VTKEY_NUM - 1
Entry == [ch : Char, data : Nat]
Node == [path : Seq(Entry), mod : 0 .. VTKEY_NUM, child : UNION { [0 .. m - 1 -> Nat] : m \in 0 .. VTKEY_NUM }]

Typed(N) ==
  /\ IsFiniteSet(DOMAIN N) /\ DOMAIN N \subseteq Nat /\ 0 \in DOMAIN N
  /\ \A a \in DOMAIN N :
       /\ N[a] \in Node
       /\ N[a].child \in [0 .. N[a].mod - 1 -> Nat]
       /\ N[a].mod # 1
       /\ N[a].path = << >> <=> a = 0
  /\ N[0].mod = VTKEY_NUM

First(N, a) == N[a].path[1].ch

(* Every child is a node, and is where its first character belongs. *)
Placed(N) ==
  \A a \in DOMAIN N : \A s \in Children(N[a]) :
    /\ N[a].child[s] \in DOMAIN N \ { 0 }
    /\ First(N, N[a].child[s]) % N[a].mod = s

(* Every node but the root has one pointer to it. *)
Once(N) ==
  /\ \A a, b \in DOMAIN N : \A s \in Children(N[a]), r \in Children(N[b]) :
       N[a].child[s] = N[b].child[r] => a = b /\ s = r
  /\ \A b \in DOMAIN N \ { 0 } : \E a \in DOMAIN N : \E s \in Children(N[a]) : N[a].child[s] = b

(* No node is below itself: levels grow from a node to its children. *)
Levels(N, h) ==
  /\ h \in [DOMAIN N -> 0 .. MaxKeyLen + 1]
  /\ \A a \in DOMAIN N : \A s \in Children(N[a]) : h[a] < h[N[a].child[s]]

Tree(N, h) == Typed(N) /\ Placed(N) /\ Once(N) /\ Levels(N, h)

Closed(N, S) == \A x \in S : \A s \in Children(N[x]) : N[x].child[s] \in S

(* The nodes from a on. *)
Sub(N, a) == { x \in DOMAIN N : \A S \in SUBSET DOMAIN N : a \in S /\ Closed(N, S) => x \in S }

(* The subtree of a node is the smallest closed set that holds it. *)
LEMMA SubClosed ==
  ASSUME NEW N, NEW h, Tree(N, h), NEW a \in DOMAIN N
  PROVE  /\ a \in Sub(N, a) /\ Sub(N, a) \in SUBSET DOMAIN N /\ Closed(N, Sub(N, a))
         /\ \A S \in SUBSET DOMAIN N : a \in S /\ Closed(N, S) => Sub(N, a) \subseteq S
<1>1. Closed(N, Sub(N, a))
  <2> SUFFICES ASSUME NEW x \in Sub(N, a), NEW s \in Children(N[x])
               PROVE  N[x].child[s] \in Sub(N, a)
    BY DEF Closed
  <2>1. x \in DOMAIN N /\ N[x].child[s] \in DOMAIN N
    BY DEF Sub, Tree, Placed
  <2>2. ASSUME NEW S \in SUBSET DOMAIN N, a \in S, Closed(N, S) PROVE N[x].child[s] \in S
    <3>1. x \in S
      BY <2>2 DEF Sub
    <3> QED
      BY <2>2, <3>1 DEF Closed
  <2> QED
    BY <2>1, <2>2 DEF Sub
<1> QED
  BY <1>1 DEF Sub

(* A node from a on is a or from a child of a on. *)
LEMMA SubChildren ==
  ASSUME NEW N, NEW h, Tree(N, h), NEW a \in DOMAIN N
  PROVE  /\ \A s \in Children(N[a]) : Sub(N, N[a].child[s]) \subseteq Sub(N, a)
         /\ \A x \in Sub(N, a) : x # a => \E s \in Children(N[a]) : x \in Sub(N, N[a].child[s])
<1>0. \A s \in Children(N[a]) : N[a].child[s] \in DOMAIN N
  BY DEF Tree, Placed
<1>1. ASSUME NEW s \in Children(N[a]) PROVE Sub(N, N[a].child[s]) \subseteq Sub(N, a)
  <2>1. N[a].child[s] \in Sub(N, a) /\ Sub(N, a) \in SUBSET DOMAIN N /\ Closed(N, Sub(N, a))
    BY SubClosed DEF Closed
  <2> QED
    BY <1>0, <2>1, SubClosed
<1> DEFINE S == { x \in DOMAIN N : x = a \/ \E s \in Children(N[a]) : x \in Sub(N, N[a].child[s]) }
<1>2. Closed(N, S)
  <2> SUFFICES ASSUME NEW x \in S, NEW r \in Children(N[x]) PROVE N[x].child[r] \in S
    BY DEF Closed
  <2>1. N[x].child[r] \in DOMAIN N
    BY DEF Tree, Placed
  <2>2. CASE x = a
    BY <1>0, <2>1, <2>2, SubClosed
  <2>3. ASSUME NEW s \in Children(N[a]), x \in Sub(N, N[a].child[s]) PROVE N[x].child[r] \in S
    <3>1. N[x].child[r] \in Sub(N, N[a].child[s])
      BY <1>0, <2>3, SubClosed DEF Closed
    <3> QED
      BY <2>1, <3>1
  <2> QED
    BY <2>2, <2>3
<1>3. Sub(N, a) \subseteq S
  BY <1>2, SubClosed
<1> QED
  BY <1>1, <1>3

(* Nodes from a on are deeper than a. *)
LEMMA SubDeeper ==
  ASSUME NEW N, NEW h, Tree(N, h), NEW a \in DOMAIN N, NEW x \in Sub(N, a)
  PROVE  x \in DOMAIN N /\ h[a] <= h[x] /\ (x # a => h[a] < h[x])
<1> DEFINE S == { y \in DOMAIN N : y = a \/ h[a] < h[y] }
<1>1. Closed(N, S)
  <2> SUFFICES ASSUME NEW y \in S, NEW r \in Children(N[y]) PROVE N[y].child[r] \in S
    BY DEF Closed
  <2>1. N[y].child[r] \in DOMAIN N /\ h[y] < h[N[y].child[r]]
    BY DEF Tree, Placed, Levels
  <2>2. h[a] \in Nat /\ h[y] \in Nat /\ h[N[y].child[r]] \in Nat
    BY <2>1 DEF Tree, Levels
  <2> QED
    BY <2>1, <2>2
<1>2. x \in S
  BY <1>1, SubClosed
<1>3. h[a] \in Nat /\ h[x] \in Nat
  BY <1>2 DEF Tree, Levels
<1> QED
  BY <1>2, <1>3

(* With a node the one that points to it is from a on. *)
LEMMA SubParent ==
  ASSUME NEW N, NEW h, Tree(N, h), NEW a \in DOMAIN N,
         NEW p \in DOMAIN N, NEW s \in Children(N[p]), N[p].child[s] \in Sub(N, a), N[p].child[s] # a
  PROVE  p \in Sub(N, a)
<1> DEFINE x == N[p].child[s]
           S == Sub(N, a) \ { x }
<1> SUFFICES ASSUME p \notin Sub(N, a) PROVE FALSE
  OBVIOUS
<1>1. Closed(N, S)
  <2> SUFFICES ASSUME NEW y \in S, NEW r \in Children(N[y]) PROVE N[y].child[r] \in S
    BY DEF Closed
  <2>1. y \in DOMAIN N /\ y # p /\ N[y].child[r] \in Sub(N, a)
    BY SubClosed DEF Closed
  <2>2. N[y].child[r] # x
    BY <2>1 DEF Tree, Once
  <2> QED
    BY <2>1, <2>2
<1>2. S \in SUBSET DOMAIN N /\ a \in S
  BY SubClosed
<1> QED
  BY <1>1, <1>2, SubClosed

(* Everything is from the root on. *)
LEMMA SubRoot ==
  ASSUME NEW N, NEW h, Tree(N, h)
  PROVE  Sub(N, 0) = DOMAIN N
<1> DEFINE Bad == { n \in Nat : \E x \in DOMAIN N \ Sub(N, 0) : h[x] = n }
<1>0. 0 \in DOMAIN N
  BY DEF Tree, Typed
<1>1. ASSUME Bad # {} PROVE FALSE
  <2>1. PICK n \in Bad : \A m \in Bad : n <= m
    <3>1. Bad \in SUBSET Nat
      OBVIOUS
    <3> HIDE DEF Bad
    <3> QED
      BY <1>1, <3>1, LeastElement
  <2>2. PICK x \in DOMAIN N \ Sub(N, 0) : h[x] = n
    BY <2>1
  <2>3. x # 0
    BY <1>0, <2>2, SubClosed
  <2>4. PICK p \in DOMAIN N : \E s \in Children(N[p]) : N[p].child[s] = x
    BY <2>2, <2>3 DEF Tree, Once
  <2>5. h[p] < h[x] /\ h[p] \in Nat /\ h[x] \in Nat
    BY <2>2, <2>4 DEF Tree, Levels
  <2>6. h[p] \notin Bad
    <3> HIDE DEF Bad
    <3> QED
      BY <2>1, <2>2, <2>5
  <2>7. p \in Sub(N, 0)
    BY <2>5, <2>6
  <2> QED
    BY <1>0, <2>2, <2>4, <2>7, SubClosed DEF Closed
<1>2. \A x \in DOMAIN N : h[x] \in Nat
  BY DEF Tree, Levels
<1>3. \A x \in DOMAIN N : x \in Sub(N, 0)
  BY <1>1, <1>2
<1> QED
  BY <1>0, <1>3, SubClosed

(* Two children of a node have nothing in common. *)
LEMMA SubApart ==
  ASSUME NEW N, NEW h, Tree(N, h), NEW a \in DOMAIN N,
         NEW s \in Children(N[a]), NEW r \in Children(N[a]), s # r
  PROVE  Sub(N, N[a].child[s]) \cap Sub(N, N[a].child[r]) = {}
<1> DEFINE c == N[a].child[s]
           d == N[a].child[r]
           Both == Sub(N, c) \cap Sub(N, d)
           Bad == { n \in Nat : \E x \in Both : h[x] = n }
<1>0. c \in DOMAIN N \ { 0 } /\ d \in DOMAIN N \ { 0 } /\ c # d
  BY DEF Tree, Placed, Once
<1>1. h[a] < h[c] /\ h[a] < h[d] /\ h[a] \in Nat /\ h[c] \in Nat /\ h[d] \in Nat
  BY <1>0 DEF Tree, Levels
<1>2. a \notin Sub(N, c) /\ a \notin Sub(N, d)
  BY <1>0, <1>1, SubDeeper
<1>3. c \notin Sub(N, d) /\ d \notin Sub(N, c)
  BY <1>0, <1>2, SubParent
<1>4. ASSUME Bad # {} PROVE FALSE
  <2>1. PICK n \in Bad : \A m \in Bad : n <= m
    <3>1. Bad \in SUBSET Nat
      OBVIOUS
    <3> HIDE DEF Bad
    <3> QED
      BY <1>4, <3>1, LeastElement
  <2>2. PICK x \in Both : h[x] = n
    BY <2>1
  <2>3. x \in DOMAIN N \ { 0 } /\ x # c /\ x # d
    <3>1. x # c /\ x # d /\ x \in DOMAIN N
      BY <1>0, <1>3, <2>2, SubClosed
    <3>2. h[x] >= h[c] /\ h[x] \in Nat
      BY <1>0, <2>2, <3>1, SubDeeper DEF Tree, Levels
    <3>3. x # 0
      <4>1. ASSUME x = 0 PROVE FALSE
        <5>1. c \in Sub(N, x)
          BY <1>0, <4>1, SubRoot
        <5> QED
          BY <1>0, <1>1, <3>1, <3>2, <5>1, SubDeeper
      <4> QED
        BY <4>1
    <3> QED
      BY <3>1, <3>3
  <2>4. PICK p \in DOMAIN N : \E q \in Children(N[p]) : N[p].child[q] = x
    BY <2>3 DEF Tree, Once
  <2>5. p \in Both
    BY <1>0, <2>2, <2>3, <2>4, SubParent
  <2>6. h[p] < h[x] /\ h[p] \in Nat /\ h[x] \in Nat
    BY <2>3, <2>4 DEF Tree, Levels
  <2>7. h[p] \in Bad
    BY <2>5, <2>6
  <2> HIDE DEF Bad
  <2> QED
    BY <2>1, <2>2, <2>6, <2>7
<1>5. \A x \in Both : h[x] \in Nat
  BY <1>0, SubClosed DEF Tree, Levels
<1> QED
  BY <1>4, <1>5
-----------------------------------------------------------------------------
(* Sums over the nodes from a node on. *)

(* The sum over disjoint sets is the sum of their sums. *)
LEMMA TotalUnion ==
  ASSUME NEW I, IsFiniteSet(I), NEW A, NEW f,
         \A i \in I : IsFiniteSet(A[i]) /\ \A x \in A[i] : f[x] \in Nat,
         \A i, j \in I : i # j => A[i] \cap A[j] = {}
  PROVE  /\ IsFiniteSet(UNION { A[i] : i \in I })
         /\ Total(f, UNION { A[i] : i \in I }) = Total([i \in I |-> Total(f, A[i])], I)
<1> DEFINE U(J) == UNION { A[i] : i \in J }
           g == [i \in I |-> Total(f, A[i])]
           Good(J) == IsFiniteSet(U(J)) /\ Total(f, U(J)) = Total(g, J)
           Bad == { n \in Nat : \E J \in SUBSET I : Cardinality(J) = n /\ ~Good(J) }
<1>1. \A i \in I : g[i] \in Nat
  BY CellsFinite
<1>2. ASSUME Bad # {} PROVE FALSE
  <2>1. PICK n \in Bad : \A m \in Bad : n <= m
    <3>1. Bad \in SUBSET Nat
      OBVIOUS
    <3> HIDE DEF Bad
    <3> QED
      BY <1>2, <3>1, LeastElement
  <2>2. PICK J \in SUBSET I : Cardinality(J) = n /\ ~Good(J)
    BY <2>1
  <2>3. IsFiniteSet(J)
    BY FS_Subset
  <2>4. CASE J = {}
    <3>1. U(J) = {}
      BY <2>4
    <3>2. Good(J)
      BY <2>4, <3>1, TotalEmpty, FS_EmptySet
    <3> QED
      BY <2>2, <3>2
  <2>5. CASE J # {}
    <3>1. PICK i \in J : TRUE
      BY <2>5
    <3> DEFINE K == J \ { i }
    <3>2. K \in SUBSET I /\ i \notin K /\ J = K \cup { i } /\ IsFiniteSet(K)
      BY <2>3, <3>1, FS_Subset
    <3>3. Cardinality(K) = n - 1 /\ Cardinality(K) \in Nat
      BY <2>2, <2>3, <3>1, <3>2, FS_RemoveElement, FS_CardinalityType
    <3>4. n - 1 \notin Bad
      <4>1. ~(n <= n - 1)
        BY <2>1
      <4> HIDE DEF Bad
      <4> QED
        BY <2>1, <4>1
    <3>5. IsFiniteSet(U(K)) /\ Total(f, U(K)) = Total(g, K)
      BY <3>2, <3>3, <3>4
    <3>6. U(J) = U(K) \cup A[i] /\ U(K) \cap A[i] = {}
      BY <3>2
    <3>7. IsFiniteSet(A[i]) /\ \A x \in U(K) \cup A[i] : f[x] \in Nat
      BY <3>2
    <3>8. IsFiniteSet(U(K) \cup A[i]) /\ Total(f, U(K) \cup A[i]) = Total(f, U(K)) + Total(f, A[i])
      <4> HIDE DEF U
      <4> QED
        BY <3>5, <3>6, <3>7, TotalSplit, FS_Union
    <3>9. \A y \in K \cup { i } : g[y] \in Nat
      BY <1>1, <3>2
    <3>10. Total(g, K \cup { i }) = Total(g, K) + g[i]
      <4> HIDE DEF g, K
      <4> QED
        BY <3>2, <3>9, TotalAdd
    <3>11. Total(g, J) = Total(g, K \cup { i }) /\ g[i] = Total(f, A[i])
      BY <3>2, Zenon
    <3>12. U(J) = U(K) \cup A[i]
      BY <3>6
    <3>13. Total(f, U(J)) = Total(f, U(K) \cup A[i]) /\ IsFiniteSet(U(J))
      BY <3>8, <3>12, Zenon
    <3>14. Total(f, U(J)) = Total(g, J)
      <4> HIDE DEF U, g, K
      <4> QED
        BY <3>5, <3>8, <3>10, <3>11, <3>13
    <3> QED
      BY <2>2, <3>13, <3>14
  <2> QED
    BY <2>4, <2>5
<1>3. Cardinality(I) \in Nat
  BY FS_CardinalityType
<1>4. Good(I)
  <2> HIDE DEF Good
  <2> QED
    BY <1>2, <1>3
<1> QED
  BY <1>4

SizeOf(t) == [a \in DOMAIN t.nodes |-> Bytes(t, a)]

(* SizeOf gives each node its size in bytes, and none has size 0. *)
LEMMA Sizes ==
  ASSUME NEW t, Typed(t.nodes), NEW a \in DOMAIN t.nodes
  PROVE  /\ SizeOf(t)[a] = Bytes(t, a) /\ SizeOf(t)[a] \in Nat /\ Bytes(t, a) > 0
         /\ Header \in Nat /\ Header > 0
<1>1. Header \in Nat /\ Header > 0
  BY CodesAssumption DEF Header, VALUE_L, VTCHILDS_L, VTPTR_L
<1>2. t.nodes[a] \in Node
  BY DEF Typed
<1>3. Len(t.nodes[a].path) \in Nat /\ t.nodes[a].mod \in Nat
  BY <1>2, CodesAssumption DEF Node
<1>4. NodeBytes(t.nodes[a]) \in Nat /\ NodeBytes(t.nodes[a]) > 0
  <2>1. PICK l \in Nat, m \in Nat : l = Len(t.nodes[a].path) /\ m = t.nodes[a].mod
    BY <1>3
  <2>2. NodeBytes(t.nodes[a]) = 1 + 5 * l + 1 + 4 * m
    BY <2>1 DEF NodeBytes, PathBytes, VTSAMEPS_L, VTENTRY_L, VTCHILDS_L, VTPTR_L
  <2>3. 1 + 5 * l + 1 + 4 * m \in Nat /\ 1 + 5 * l + 1 + 4 * m > 0
    OBVIOUS
  <2> QED
    BY <2>2, <2>3
<1> QED
  BY <1>1, <1>4 DEF SizeOf, Bytes

(* The slots of a node that are taken are finitely many. *)
LEMMA ChildrenFinite ==
  ASSUME NEW N, Typed(N), NEW a \in DOMAIN N
  PROVE  /\ IsFiniteSet(Children(N[a])) /\ Children(N[a]) \subseteq 0 .. N[a].mod - 1
         /\ N[a].mod \in 0 .. VTKEY_NUM
         /\ \A s \in 0 .. N[a].mod - 1 : s \in Children(N[a]) <=> N[a].child[s] # 0
<1>1. N[a].mod \in 0 .. VTKEY_NUM /\ N[a].child \in [0 .. N[a].mod - 1 -> Nat]
  BY DEF Typed, Node
<1>2. Children(N[a]) \subseteq 0 .. N[a].mod - 1
  BY <1>1 DEF Children
<1>3. IsFiniteSet(0 .. N[a].mod - 1)
  BY <1>1, CodesAssumption, FS_Interval
<1> QED
  BY <1>1, <1>2, <1>3, FS_Subset DEF Children

(* The bytes from a node on are its own and those from its children on. *)
LEMMA SubTotal ==
  ASSUME NEW t, NEW h, Tree(t.nodes, h), NEW a \in DOMAIN t.nodes
  PROVE  Total(SizeOf(t), Sub(t.nodes, a)) =
           Bytes(t, a) + SumFunction([s \in Children(t.nodes[a]) |->
                                        Total(SizeOf(t), Sub(t.nodes, t.nodes[a].child[s]))])
<1> DEFINE N == t.nodes
           I == Children(N[a])
           A == [s \in I |-> Sub(N, N[a].child[s])]
           f == SizeOf(t)
           U == UNION { A[s] : s \in I }
           g == [s \in I |-> Total(f, A[s])]
<1>0. Typed(N) /\ \A x \in DOMAIN N : f[x] \in Nat
  BY Sizes DEF Tree
<1>1. IsFiniteSet(I)
  BY <1>0, ChildrenFinite
<1>2. ASSUME NEW s \in I PROVE N[a].child[s] \in DOMAIN N \ { 0 } /\ a \notin A[s] /\ A[s] \in SUBSET DOMAIN N
  <2>1. N[a].child[s] \in DOMAIN N \ { 0 }
    BY DEF Tree, Placed
  <2>2. h[a] < h[N[a].child[s]] /\ h[a] \in Nat /\ h[N[a].child[s]] \in Nat
    BY <2>1 DEF Tree, Levels
  <2>3. a \notin A[s]
    BY <2>1, <2>2, SubDeeper
  <2>4. Sub(N, N[a].child[s]) \in SUBSET DOMAIN N
    BY <2>1, SubClosed
  <2> QED
    BY <2>1, <2>3, <2>4
<1>3. \A s \in I : IsFiniteSet(A[s]) /\ \A x \in A[s] : f[x] \in Nat
  <2> SUFFICES ASSUME NEW s \in I PROVE IsFiniteSet(A[s]) /\ \A x \in A[s] : f[x] \in Nat
    OBVIOUS
  <2>1. IsFiniteSet(DOMAIN N)
    BY <1>0 DEF Typed
  <2> HIDE DEF A
  <2> QED
    BY <1>0, <1>2, <2>1, FS_Subset
<1>4. \A s, r \in I : s # r => A[s] \cap A[r] = {}
  BY SubApart
<1>5. IsFiniteSet(U) /\ Total(f, U) = Total(g, I)
  <2> HIDE DEF A, I
  <2> QED
    BY <1>1, <1>3, <1>4, TotalUnion
<1>6. Sub(N, a) = U \cup { a } /\ a \notin U
  <2>1. \A x \in Sub(N, a) : x # a => x \in U
    BY SubChildren
  <2>2. U \subseteq Sub(N, a) /\ a \in Sub(N, a)
    BY SubChildren, SubClosed
  <2> QED
    BY <1>2, <2>1, <2>2
<1>7. \A x \in U \cup { a } : f[x] \in Nat
  BY <1>0, <1>2
<1>8. Total(f, U \cup { a }) = Total(f, U) + f[a]
  <2> HIDE DEF U, f
  <2> QED
    BY <1>5, <1>6, <1>7, TotalAdd
<1>9. SumFunction(g) = Total(g, I)
  <2>1. DOMAIN g = I /\ \A s \in I : g[s] \in Nat
    <3> HIDE DEF A, I, f
    <3> QED
      BY <1>3, CellsFinite
  <2> HIDE DEF g, I
  <2> QED
    BY <1>1, <2>1, SumIsTotal
<1>10. Total(f, Sub(N, a)) = Total(f, U \cup { a })
  BY <1>6, Zenon
<1>11. g = [s \in I |-> Total(f, Sub(N, N[a].child[s]))]
  OBVIOUS
<1>12. SumFunction(g) = SumFunction([s \in I |-> Total(f, Sub(N, N[a].child[s]))])
  BY <1>11, Zenon
<1>13. f[a] = Bytes(t, a) /\ f[a] \in Nat /\ Total(f, U) \in Nat
  <2>1. Total(f, U) \in Nat
    <3> HIDE DEF U, f
    <3> QED
      BY <1>5, <1>7, CellsFinite
  <2> QED
    BY <1>0, <2>1, Sizes
<1>14. Total(f, Sub(N, a)) = f[a] + SumFunction(g)
  <2> HIDE DEF U, g, f, I
  <2> QED
    BY <1>5, <1>8, <1>9, <1>10, <1>13
<1> QED
  BY <1>12, <1>13, <1>14, Zenon

(* Compact counts them. *)
LEMMA CompactIs ==
  ASSUME NEW t, NEW h, Tree(t.nodes, h)
  PROVE  \A a \in DOMAIN t.nodes : Compact(t)[a] = Total(SizeOf(t), Sub(t.nodes, a))
<1> DEFINE N == t.nodes
           D == DOMAIN t.nodes
           Step(g, a) == Bytes(t, a) + SumFunction([s \in Children(N[a]) |-> g[N[a].child[s]]])
           v == [a \in D |-> Total(SizeOf(t), Sub(N, a))]
<1>1. Compact(t) = CHOOSE g : g = [a \in D |-> Step(g, a)]
  BY DEF Compact
<1>2. \A a \in D : \A s \in Children(N[a]) : N[a].child[s] \in D
  BY DEF Tree, Placed
<1>3. ASSUME NEW a \in D PROVE v[a] = Step(v, a)
  <2>1. [s \in Children(N[a]) |-> Total(SizeOf(t), Sub(N, N[a].child[s]))] =
        [s \in Children(N[a]) |-> v[N[a].child[s]]]
    BY <1>2
  <2>2. SumFunction([s \in Children(N[a]) |-> Total(SizeOf(t), Sub(N, N[a].child[s]))]) =
        SumFunction([s \in Children(N[a]) |-> v[N[a].child[s]]])
    BY <2>1, Zenon
  <2>3. v[a] = Total(SizeOf(t), Sub(N, a))
    OBVIOUS
  <2> HIDE DEF v
  <2> QED
    BY <2>2, <2>3, SubTotal
<1>4. v = [a \in D |-> Step(v, a)]
  BY <1>3
<1>5. PICK u : u = Compact(t)
  OBVIOUS
<1>6. u = [a \in D |-> Step(u, a)]
  <2> HIDE DEF Step, v
  <2> QED
    BY <1>1, <1>4, <1>5
<1>7. \A a \in D : u[a] = Step(u, a)
  <2> HIDE DEF Step
  <2> QED
    BY <1>6
<1> DEFINE Bad == { n \in Nat : \E a \in D : MaxKeyLen + 1 - h[a] = n /\ u[a] # v[a] }
<1>8. ASSUME Bad # {} PROVE FALSE
  <2>1. PICK n \in Bad : \A m \in Bad : n <= m
    <3>1. Bad \in SUBSET Nat
      OBVIOUS
    <3> HIDE DEF Bad
    <3> QED
      BY <1>8, <3>1, LeastElement
  <2>2. PICK a \in D : MaxKeyLen + 1 - h[a] = n /\ u[a] # v[a]
    BY <2>1
  <2>3. ASSUME NEW s \in Children(N[a]) PROVE u[N[a].child[s]] = v[N[a].child[s]]
    <3> DEFINE c == N[a].child[s]
    <3>1. c \in D /\ h[a] < h[c] /\ h[a] \in 0 .. MaxKeyLen + 1 /\ h[c] \in 0 .. MaxKeyLen + 1
      BY <1>2 DEF Tree, Levels
    <3>2. MaxKeyLen + 1 - h[c] \in Nat /\ ~(n <= MaxKeyLen + 1 - h[c])
      BY <2>2, <3>1, NatAssumption
    <3>3. MaxKeyLen + 1 - h[c] \notin Bad
      <4> HIDE DEF Bad
      <4> QED
        BY <2>1, <3>2
    <3> HIDE DEF v
    <3> QED
      BY <3>1, <3>2, <3>3
  <2>4. [s \in Children(N[a]) |-> u[N[a].child[s]]] = [s \in Children(N[a]) |-> v[N[a].child[s]]]
    <3> HIDE DEF v
    <3> QED
      BY <2>3
  <2>5. SumFunction([s \in Children(N[a]) |-> u[N[a].child[s]]]) =
        SumFunction([s \in Children(N[a]) |-> v[N[a].child[s]]])
    BY <2>4, Zenon
  <2>6. u[a] = v[a]
    <3> HIDE DEF v
    <3> QED
      BY <1>3, <1>7, <2>5
  <2> QED
    BY <2>2, <2>6
<1>9. \A a \in D : MaxKeyLen + 1 - h[a] \in Nat
  BY NatAssumption DEF Tree, Levels
<1>10. \A a \in D : u[a] = v[a]
  <2> HIDE DEF v
  <2> QED
    BY <1>8, <1>9
<1> QED
  BY <1>5, <1>10
-----------------------------------------------------------------------------
(* Where optimize puts the nodes. *)

Parent(t, a) == CHOOSE b \in DOMAIN t.nodes : a \in Range(t.nodes[b].child)
Slot(t, a) == CHOOSE r \in DOMAIN t.nodes[Parent(t, a)].child : t.nodes[Parent(t, a)].child[r] = a
EarlierOf(t, p, r) == { s \in Children(t.nodes[p]) : s < r }
BytesFrom(t, a) == Total(SizeOf(t), Sub(t.nodes, a))
Offset(t, a) ==
  IF a = 0 THEN 0
  ELSE Bytes(t, Parent(t, a)) + SumFunction([s \in EarlierOf(t, Parent(t, a), Slot(t, a)) |->
                                              Compact(t)[t.nodes[Parent(t, a)].child[s]]])

(* A child's parent and slot are those it hangs from. *)
LEMMA ParentIs ==
  ASSUME NEW t, NEW h, Tree(t.nodes, h), NEW p \in DOMAIN t.nodes, NEW s \in Children(t.nodes[p])
  PROVE  LET a == t.nodes[p].child[s] IN a \in DOMAIN t.nodes \ { 0 } /\ Parent(t, a) = p /\ Slot(t, a) = s
<1> DEFINE N == t.nodes
           a == N[p].child[s]
<1>1. a \in DOMAIN N \ { 0 } /\ s \in DOMAIN N[p].child
  BY DEF Tree, Placed, Children
<1>2. a \in Range(N[p].child)
  BY <1>1 DEF Range
<1>3. ASSUME NEW b \in DOMAIN N, NEW r \in DOMAIN N[b].child, N[b].child[r] = a PROVE b = p /\ r = s
  <2>1. r \in Children(N[b])
    BY <1>1, <1>3 DEF Children
  <2> QED
    BY <1>3, <2>1 DEF Tree, Once
<1>4. \A b \in DOMAIN N : a \in Range(N[b].child) => b = p
  BY <1>3 DEF Range
<1>5. Parent(t, a) = p
  BY <1>2, <1>4 DEF Parent
<1>6. Slot(t, a) = s
  BY <1>1, <1>3, <1>5 DEF Slot
<1> QED
  BY <1>1, <1>5, <1>6

(* Every node but the root hangs from the slot Slot of its Parent. *)
LEMMA HasParent ==
  ASSUME NEW t, NEW h, Tree(t.nodes, h), NEW a \in DOMAIN t.nodes \ { 0 }
  PROVE  /\ Parent(t, a) \in DOMAIN t.nodes /\ Slot(t, a) \in Children(t.nodes[Parent(t, a)])
         /\ t.nodes[Parent(t, a)].child[Slot(t, a)] = a
<1>1. PICK p \in DOMAIN t.nodes : \E s \in Children(t.nodes[p]) : t.nodes[p].child[s] = a
  BY DEF Tree, Once
<1>2. PICK s \in Children(t.nodes[p]) : t.nodes[p].child[s] = a
  BY <1>1
<1> QED
  BY <1>2, ParentIs

(* Sums of the bytes from some children of a node on. *)
LEMMA EarlierSum ==
  ASSUME NEW t, NEW h, Tree(t.nodes, h), NEW p \in DOMAIN t.nodes, NEW S \in SUBSET Children(t.nodes[p])
  PROVE  LET below == [r \in Children(t.nodes[p]) |-> BytesFrom(t, t.nodes[p].child[r])]
         IN  /\ SumFunction([r \in S |-> Compact(t)[t.nodes[p].child[r]]]) = Total(below, S)
             /\ \A r \in Children(t.nodes[p]) : below[r] \in Nat
             /\ IsFiniteSet(S) /\ Total(below, S) \in Nat
<1> DEFINE N == t.nodes
           below == [r \in Children(N[p]) |-> BytesFrom(t, N[p].child[r])]
           g == [r \in S |-> Compact(t)[N[p].child[r]]]
<1>1. ASSUME NEW r \in Children(N[p])
      PROVE  N[p].child[r] \in DOMAIN N /\ below[r] \in Nat /\ below[r] = Compact(t)[N[p].child[r]]
  <2>1. N[p].child[r] \in DOMAIN N
    BY DEF Tree, Placed
  <2>2. Sub(N, N[p].child[r]) \in SUBSET DOMAIN N /\ IsFiniteSet(DOMAIN N) /\ Typed(N)
    BY <2>1, SubClosed DEF Tree, Typed
  <2>3. IsFiniteSet(Sub(N, N[p].child[r])) /\ \A x \in Sub(N, N[p].child[r]) : SizeOf(t)[x] \in Nat
    BY <2>2, FS_Subset, Sizes
  <2>4. BytesFrom(t, N[p].child[r]) \in Nat
    BY <2>3, CellsFinite DEF BytesFrom
  <2>5. BytesFrom(t, N[p].child[r]) = Compact(t)[N[p].child[r]]
    BY <2>1, CompactIs DEF BytesFrom
  <2> QED
    BY <2>1, <2>4, <2>5
<1>2. IsFiniteSet(S)
  <2>1. IsFiniteSet(Children(N[p]))
    BY ChildrenFinite DEF Tree
  <2> QED
    BY <2>1, FS_Subset
<1>3. DOMAIN g = S /\ \A r \in S : g[r] = below[r] /\ g[r] \in Nat /\ below[r] \in Nat
  BY <1>1
<1>4. SumFunction(g) = Total(g, S) /\ Total(g, S) = Total(below, S) /\ Total(below, S) \in Nat
  <2> HIDE DEF g, below
  <2> QED
    BY <1>2, <1>3, SumIsTotal, TotalSame, CellsFinite
<1> QED
  BY <1>1, <1>2, <1>4

(* The subtrees of the earlier siblings have a size. *)
LEMMA EarlierNat ==
  ASSUME NEW t, NEW h, Tree(t.nodes, h), NEW p \in DOMAIN t.nodes, NEW s
  PROVE  SumFunction([r \in EarlierOf(t, p, s) |-> Compact(t)[t.nodes[p].child[r]]]) \in Nat
<1> DEFINE below == [r \in Children(t.nodes[p]) |-> BytesFrom(t, t.nodes[p].child[r])]
<1>1. EarlierOf(t, p, s) \in SUBSET Children(t.nodes[p])
  BY DEF EarlierOf
<1>2. /\ SumFunction([r \in EarlierOf(t, p, s) |-> Compact(t)[t.nodes[p].child[r]]])
             = Total(below, EarlierOf(t, p, s))
      /\ Total(below, EarlierOf(t, p, s)) \in Nat
  BY <1>1, EarlierSum, Zenon
<1> QED
  BY <1>2, Zenon

(* A node starts at a natural number of bytes from its parent. *)
LEMMA OffsetNat ==
  ASSUME NEW t, NEW h, Tree(t.nodes, h), NEW a \in DOMAIN t.nodes
  PROVE  Offset(t, a) \in Nat
<1>1. CASE a = 0
  BY <1>1 DEF Offset
<1>2. CASE a # 0
  <2>1. PICK p, s : /\ p = Parent(t, a) /\ s = Slot(t, a) /\ p \in DOMAIN t.nodes
    BY <1>2, HasParent
  <2>3. SumFunction([r \in EarlierOf(t, p, s) |-> Compact(t)[t.nodes[p].child[r]]]) \in Nat
    BY <2>1, EarlierNat, Zenon
  <2>4. Bytes(t, p) \in Nat
    BY <2>1, Sizes DEF Tree
  <2> QED
    BY <1>2, <2>1, <2>3, <2>4 DEF Offset
<1> QED
  BY <1>1, <1>2

(* The recursion of NewPlace has a solution, the sum of the offsets on the way. *)
LEMMA PlaceIs ==
  ASSUME NEW t, NEW h, Tree(t.nodes, h)
  PROVE  /\ NewPlace(t) \in [DOMAIN t.nodes -> Nat]
         /\ NewPlace(t)[0] = 0
         /\ \A a \in DOMAIN t.nodes \ { 0 } : NewPlace(t)[a] = NewPlace(t)[Parent(t, a)] + Offset(t, a)
<1> DEFINE N == t.nodes
           D == DOMAIN t.nodes
           Step(g, a) == IF a = 0 THEN 0
                         ELSE g[Parent(t, a)] + Bytes(t, Parent(t, a))
                                + SumFunction([s \in EarlierOf(t, Parent(t, a), Slot(t, a)) |->
                                                 Compact(t)[N[Parent(t, a)].child[s]]])
           Above(a) == { b \in D : a \in Sub(N, b) }
           f == [a \in D |-> Offset(t, a)]
           v == [a \in D |-> Total(f, Above(a))]
<1>1. NewPlace(t) = CHOOSE g : g = [a \in D |-> Step(g, a)]
  BY DEF NewPlace, Parent, Slot, EarlierOf
<1>2. 0 \in D /\ IsFiniteSet(D)
  BY DEF Tree, Typed
<1>3. \A a \in D : f[a] = Offset(t, a) /\ f[a] \in Nat
  BY OffsetNat
<1>4. ASSUME NEW a \in D
      PROVE  /\ Above(a) \in SUBSET D /\ IsFiniteSet(Above(a)) /\ v[a] = Total(f, Above(a)) /\ v[a] \in Nat
  <2>1. Above(a) \in SUBSET D /\ IsFiniteSet(Above(a))
    BY <1>2, FS_Subset
  <2>2. v[a] = Total(f, Above(a))
    OBVIOUS
  <2>3. Total(f, Above(a)) \in Nat
    <3> HIDE DEF f, Above
    <3> QED
      BY <1>3, <2>1, CellsFinite
  <2> QED
    BY <2>1, <2>2, <2>3, Zenon
<1>5. v[0] = 0
  <2>1. Above(0) = { 0 }
    <3>1. 0 \in Above(0)
      BY <1>2, SubClosed
    <3>2. ASSUME NEW b \in Above(0), b # 0 PROVE FALSE
      <4>1. b \in Sub(N, 0) /\ 0 \in Sub(N, b)
        BY SubRoot
      <4>2. h[0] < h[b] /\ h[b] <= h[0] /\ h[0] \in Nat /\ h[b] \in Nat
        BY <1>2, <3>2, <4>1, SubDeeper DEF Tree, Levels
      <4> QED
        BY <4>2
    <3> QED
      BY <3>1, <3>2
  <2>2. f[0] = 0
    BY <1>2, <1>3 DEF Offset
  <2>3. Total(f, { 0 }) = f[0]
    <3> HIDE DEF f
    <3> QED
      BY <2>2, TotalOne
  <2>4. Total(f, Above(0)) = Total(f, { 0 })
    BY <2>1, Zenon
  <2> HIDE DEF v, f, Above
  <2> QED
    BY <1>2, <1>4, <2>2, <2>3, <2>4
<1>6. ASSUME NEW a \in D \ { 0 }
      PROVE  /\ Parent(t, a) \in D /\ v[a] = v[Parent(t, a)] + Offset(t, a) /\ v[a] = Step(v, a)
             /\ h[Parent(t, a)] < h[a]
  <2>1. PICK p, s : /\ p = Parent(t, a) /\ s = Slot(t, a) /\ p \in D /\ s \in Children(N[p]) /\ N[p].child[s] = a
    BY HasParent
  <2>2. h[p] < h[a] /\ h[p] \in Nat /\ h[a] \in Nat
    BY <2>1 DEF Tree, Levels
  <2>3. a \notin Above(p)
    BY <2>1, <2>2, SubDeeper
  <2>4. Above(a) = Above(p) \cup { a }
    <3>1. \A b \in D : b # a /\ a \in Sub(N, b) => p \in Sub(N, b)
      BY <2>1, SubParent
    <3>2. \A b \in D : p \in Sub(N, b) => a \in Sub(N, b)
      BY <2>1, SubClosed DEF Closed
    <3>3. a \in Sub(N, a)
      BY SubClosed
    <3> QED
      BY <3>1, <3>2, <3>3
  <2>5. Total(f, Above(p) \cup { a }) = Total(f, Above(p)) + f[a]
    <3>1. \A x \in Above(p) \cup { a } : f[x] \in Nat
      BY <1>3, <2>1
    <3>2. IsFiniteSet(Above(p))
      BY <1>4, <2>1
    <3> HIDE DEF f, Above
    <3> QED
      BY <2>3, <3>1, <3>2, TotalAdd
  <2>6. Total(f, Above(a)) = Total(f, Above(p) \cup { a })
    BY <2>4, Zenon
  <2>7. v[a] = v[p] + f[a]
    <3> HIDE DEF f, v, Above
    <3> QED
      BY <1>4, <2>1, <2>5, <2>6
  <2>8. v[a] = v[p] + Offset(t, a)
    <3> HIDE DEF f, v
    <3> QED
      BY <1>3, <2>7
  <2>9. v[a] = Step(v, a)
    <3>1. SumFunction([r \in EarlierOf(t, p, s) |-> Compact(t)[N[p].child[r]]]) \in Nat
      BY <2>1, EarlierNat, Zenon
    <3>2. Bytes(t, p) \in Nat /\ v[p] \in Nat
      <4> HIDE DEF v
      <4> QED
        BY <1>4, <2>1, Sizes DEF Tree
    <3> HIDE DEF v
    <3> QED
      BY <2>1, <2>8, <3>1, <3>2 DEF Offset
  <2> HIDE DEF v, Step
  <2> QED
    BY <2>1, <2>2, <2>8, <2>9
<1>7. v = [a \in D |-> Step(v, a)]
  <2>1. ASSUME NEW a \in D PROVE v[a] = Step(v, a)
    <3>1. CASE a = 0
      <4> HIDE DEF v
      <4> QED
        BY <1>5, <3>1
    <3>2. CASE a # 0
      <4> HIDE DEF v, Step
      <4> QED
        BY <1>6, <3>2
    <3> QED
      BY <3>1, <3>2
  <2> HIDE DEF Step
  <2> QED
    BY <2>1
<1>8. PICK u : u = NewPlace(t)
  OBVIOUS
<1>9. u = [a \in D |-> Step(u, a)]
  <2> HIDE DEF Step, v
  <2> QED
    BY <1>1, <1>7, <1>8
<1>10. \A a \in D : u[a] = Step(u, a)
  <2> HIDE DEF Step
  <2> QED
    BY <1>9
<1> DEFINE Bad == { n \in Nat : \E a \in D : h[a] = n /\ u[a] # v[a] }
<1>11. ASSUME Bad # {} PROVE FALSE
  <2>1. PICK n \in Bad : \A m \in Bad : n <= m
    <3>1. Bad \in SUBSET Nat
      OBVIOUS
    <3> HIDE DEF Bad
    <3> QED
      BY <1>11, <3>1, LeastElement
  <2>2. PICK a \in D : h[a] = n /\ u[a] # v[a]
    BY <2>1
  <2>3. a # 0
    <3> HIDE DEF v
    <3> QED
      BY <1>2, <1>5, <1>10, <2>2
  <2>4. PICK p : p = Parent(t, a) /\ p \in D /\ h[p] < h[a]
    <3> HIDE DEF v, Step
    <3> QED
      BY <1>6, <2>3
  <2>5. h[p] \in Nat /\ h[a] \in Nat
    BY <2>4 DEF Tree, Levels
  <2>6. h[p] \notin Bad
    <3> HIDE DEF Bad
    <3> QED
      BY <2>1, <2>2, <2>4, <2>5
  <2>7. u[p] = v[p]
    <3> HIDE DEF v
    <3> QED
      BY <2>4, <2>5, <2>6
  <2>8. u[a] = v[a]
    <3>1. v[a] = Step(v, a)
      <4> HIDE DEF v, Step
      <4> QED
        BY <1>6, <2>3
    <3>2. u[a] = Step(u, a)
      BY <1>10
    <3>3. Step(u, a) = Step(v, a)
      <4> HIDE DEF v
      <4> QED
        BY <2>3, <2>4, <2>7, Zenon
    <3> HIDE DEF v, Step
    <3> QED
      BY <3>1, <3>2, <3>3
  <2> QED
    BY <2>2, <2>8
<1>12. \A a \in D : h[a] \in Nat
  BY DEF Tree, Levels
<1>13. \A a \in D : u[a] = v[a]
  <2> HIDE DEF v
  <2> QED
    BY <1>11, <1>12
<1>14. u = v
  <2>1. DOMAIN u = D
    <3> HIDE DEF Step
    <3> QED
      BY <1>9
  <2>2. u = [a \in D |-> u[a]]
    <3> HIDE DEF Step
    <3> QED
      BY <1>9
  <2>3. u = [a \in D |-> v[a]]
    <3> HIDE DEF v
    <3> QED
      BY <1>13, <2>2
  <2> QED
    BY <2>3
<1> HIDE DEF v, Step
<1>15. u \in [D -> Nat]
  <2>1. u = [a \in D |-> u[a]]
    BY <1>9
  <2> QED
    BY <1>4, <1>14, <2>1
<1> QED
  BY <1>5, <1>6, <1>8, <1>14, <1>15
(* A subtree takes the bytes of its root and of the subtrees below. *)
LEMMA BytesFromIs ==
  ASSUME NEW t, NEW h, Tree(t.nodes, h), NEW p \in DOMAIN t.nodes
  PROVE  LET below == [r \in Children(t.nodes[p]) |-> BytesFrom(t, t.nodes[p].child[r])]
         IN  /\ BytesFrom(t, p) = Bytes(t, p) + Total(below, Children(t.nodes[p]))
             /\ BytesFrom(t, p) \in Nat /\ Bytes(t, p) \in Nat /\ Bytes(t, p) > 0
             /\ BytesFrom(t, p) = Compact(t)[p]
<1> DEFINE I == Children(t.nodes[p])
           below == [r \in I |-> BytesFrom(t, t.nodes[p].child[r])]
<1>1. DOMAIN below = I /\ IsFiniteSet(I) /\ \A r \in I : below[r] \in Nat
  <2>1. I \in SUBSET Children(t.nodes[p])
    OBVIOUS
  <2> QED
    BY <2>1, EarlierSum
<1>2. SumFunction(below) = Total(below, I) /\ Total(below, I) \in Nat
  <2> HIDE DEF below, I
  <2> QED
    BY <1>1, SumIsTotal, CellsFinite
<1>3. BytesFrom(t, p) = Bytes(t, p) + SumFunction(below)
  BY SubTotal, Zenon DEF BytesFrom
<1>4. Bytes(t, p) \in Nat /\ Bytes(t, p) > 0
  BY Sizes DEF Tree
<1>5. BytesFrom(t, p) = Compact(t)[p]
  BY CompactIs DEF BytesFrom
<1> QED
  BY <1>2, <1>3, <1>4, <1>5

(* A child lies behind its node and its earlier siblings. *)
LEMMA ChildPlace ==
  ASSUME NEW t, NEW h, Tree(t.nodes, h), NEW p \in DOMAIN t.nodes, NEW s \in Children(t.nodes[p])
  PROVE  LET c == t.nodes[p].child[s] IN
         /\ c \in DOMAIN t.nodes
         /\ NewPlace(t)[p] + Bytes(t, p) <= NewPlace(t)[c]
         /\ NewPlace(t)[c] + BytesFrom(t, c) <= NewPlace(t)[p] + BytesFrom(t, p)
         /\ \A r \in Children(t.nodes[p]) :
              r < s => NewPlace(t)[t.nodes[p].child[r]] + BytesFrom(t, t.nodes[p].child[r]) <= NewPlace(t)[c]
<1> DEFINE N == t.nodes
           I == Children(N[p])
           below == [r \in I |-> BytesFrom(t, N[p].child[r])]
           P == NewPlace(t)
           E(r) == EarlierOf(t, p, r)
<1>1. ASSUME NEW r \in I
      PROVE  /\ N[p].child[r] \in DOMAIN N
             /\ P[N[p].child[r]] = P[p] + (Bytes(t, p) + Total(below, E(r)))
             /\ Total(below, E(r)) \in Nat
             /\ E(r) \in SUBSET I
  <2>1. /\ N[p].child[r] \in DOMAIN N \ { 0 } /\ Parent(t, N[p].child[r]) = p /\ Slot(t, N[p].child[r]) = r
    BY ParentIs, Zenon
  <2>2. E(r) \in SUBSET I
    BY DEF EarlierOf
  <2>3. /\ SumFunction([q \in E(r) |-> Compact(t)[N[p].child[q]]]) = Total(below, E(r))
        /\ Total(below, E(r)) \in Nat
    BY <2>2, EarlierSum, Zenon
  <2>4. Offset(t, N[p].child[r]) = Bytes(t, p) + SumFunction([q \in E(r) |-> Compact(t)[N[p].child[q]]])
    BY <2>1 DEF Offset
  <2>5. P[N[p].child[r]] = P[p] + Offset(t, N[p].child[r])
    BY <2>1, PlaceIs
  <2>6. Offset(t, N[p].child[r]) = Bytes(t, p) + Total(below, E(r))
    BY <2>3, <2>4, Zenon
  <2> HIDE DEF P, E, below
  <2> QED
    BY <2>1, <2>2, <2>3, <2>5, <2>6
<1>2. /\ IsFiniteSet(I) /\ Total(below, I) \in Nat
      /\ \A r \in I : below[r] \in Nat /\ below[r] = BytesFrom(t, N[p].child[r])
  <2>1. I \in SUBSET Children(N[p])
    OBVIOUS
  <2>2. \A r \in I : below[r] = BytesFrom(t, N[p].child[r])
    OBVIOUS
  <2>3. IsFiniteSet(I) /\ Total(below, I) \in Nat /\ \A r \in I : below[r] \in Nat
    BY <2>1, EarlierSum, Zenon
  <2> QED
    BY <2>2, <2>3
<1>3. BytesFrom(t, p) = Bytes(t, p) + Total(below, I) /\ Bytes(t, p) \in Nat
  BY BytesFromIs, Zenon
<1>4. P[p] \in Nat
  BY PlaceIs
<1>5. I \subseteq Nat
  <2>1. I \subseteq 0 .. N[p].mod - 1
    BY ChildrenFinite DEF Tree
  <2> QED
    BY <2>1
<1>6. ASSUME NEW r \in I
      PROVE  Total(below, E(r) \cup { r }) = Total(below, E(r)) + below[r]
  <2>1. r \notin E(r) /\ IsFiniteSet(E(r)) /\ \A q \in E(r) \cup { r } : below[q] \in Nat
    <3>1. r \notin E(r)
      BY <1>5 DEF EarlierOf
    <3>2. IsFiniteSet(E(r))
      BY <1>1, <1>2, FS_Subset
    <3> HIDE DEF below, E
    <3> QED
      BY <1>1, <1>2, <3>1, <3>2
  <2> HIDE DEF below, E
  <2> QED
    BY <2>1, TotalAdd
<1>7. Total(below, E(s) \cup { s }) <= Total(below, I)
  <2>1. E(s) \cup { s } \in SUBSET I
    BY <1>1
  <2> HIDE DEF below, E, I
  <2> QED
    BY <1>2, <2>1, TotalMonotone
<1>8. ASSUME NEW r \in I, r < s
      PROVE  Total(below, E(r) \cup { r }) <= Total(below, E(s))
  <2>1. E(r) \cup { r } \in SUBSET E(s)
    BY <1>5, <1>8 DEF EarlierOf
  <2>2. IsFiniteSet(E(s)) /\ \A q \in E(s) : below[q] \in Nat
    <3>1. IsFiniteSet(E(s))
      BY <1>1, <1>2, FS_Subset
    <3> HIDE DEF below, E
    <3> QED
      BY <1>1, <1>2, <3>1
  <2> HIDE DEF below, E
  <2> QED
    BY <2>1, <2>2, TotalMonotone
<1>12. s \in I
  OBVIOUS
<1> HIDE DEF P, E, below, I
<1>9. P[p] + Bytes(t, p) <= P[N[p].child[s]]
  BY <1>1, <1>3, <1>4, <1>12
<1>10. P[N[p].child[s]] + BytesFrom(t, N[p].child[s]) <= P[p] + BytesFrom(t, p)
  <2> DEFINE c == N[p].child[s]
  <2>1. P[c] = P[p] + (Bytes(t, p) + Total(below, E(s))) /\ Total(below, E(s)) \in Nat
    BY <1>1, <1>12
  <2>2. Total(below, E(s)) + below[s] <= Total(below, I) /\ below[s] \in Nat /\ below[s] = BytesFrom(t, c)
    BY <1>2, <1>6, <1>7, <1>12
  <2> HIDE DEF c
  <2> QED
    BY <1>2, <1>3, <1>4, <2>1, <2>2 DEF c
<1>11. ASSUME NEW r \in I, r < s
       PROVE  P[N[p].child[r]] + BytesFrom(t, N[p].child[r]) <= P[N[p].child[s]]
  <2> DEFINE c == N[p].child[s]
             d == N[p].child[r]
  <2>1. P[c] = P[p] + (Bytes(t, p) + Total(below, E(s))) /\ Total(below, E(s)) \in Nat
    BY <1>1, <1>12
  <2>2. P[d] = P[p] + (Bytes(t, p) + Total(below, E(r))) /\ Total(below, E(r)) \in Nat
    BY <1>1, <1>11
  <2>3. Total(below, E(r)) + below[r] <= Total(below, E(s)) /\ below[r] \in Nat /\ below[r] = BytesFrom(t, d)
    BY <1>2, <1>6, <1>8, <1>11
  <2> HIDE DEF c, d
  <2> QED
    BY <1>3, <1>4, <2>1, <2>2, <2>3 DEF c, d
<1> QED
  BY <1>1, <1>9, <1>10, <1>11 DEF P, I

(* The nodes from a on lie in its share of the new block, apart. *)
LayOut(t, a) ==
  /\ \A x \in Sub(t.nodes, a) :
       /\ NewPlace(t)[a] <= NewPlace(t)[x]
       /\ NewPlace(t)[x] + Bytes(t, x) <= NewPlace(t)[a] + BytesFrom(t, a)
       /\ x # a => NewPlace(t)[a] + Bytes(t, a) <= NewPlace(t)[x]
  /\ \A x, y \in Sub(t.nodes, a) :
       x # y => \/ NewPlace(t)[x] + Bytes(t, x) <= NewPlace(t)[y]
                \/ NewPlace(t)[y] + Bytes(t, y) <= NewPlace(t)[x]

(* Where the children are laid out apart, so is their parent. *)
LEMMA LayOutStep ==
  ASSUME NEW t, NEW h, Tree(t.nodes, h), NEW a \in DOMAIN t.nodes,
         \A s \in Children(t.nodes[a]) : LayOut(t, t.nodes[a].child[s])
  PROVE  LayOut(t, a)
<1> DEFINE N == t.nodes
           P == NewPlace(t)
<1>1. \A x \in DOMAIN N : P[x] \in Nat /\ Bytes(t, x) \in Nat /\ Bytes(t, x) > 0 /\ BytesFrom(t, x) \in Nat
  BY PlaceIs, BytesFromIs, Zenon
<1>2. Bytes(t, a) <= BytesFrom(t, a)
  <2> DEFINE below == [r \in Children(N[a]) |-> BytesFrom(t, N[a].child[r])]
  <2>1. BytesFrom(t, a) = Bytes(t, a) + Total(below, Children(N[a]))
    BY BytesFromIs, Zenon
  <2>2. Total(below, Children(N[a])) \in Nat
    <3>1. Children(N[a]) \in SUBSET Children(N[a])
      OBVIOUS
    <3> QED
      BY <3>1, EarlierSum, Zenon
  <2> HIDE DEF below
  <2> QED
    BY <1>1, <2>1, <2>2
<1>3. Sub(N, a) \in SUBSET DOMAIN N
  BY SubClosed
<1>4. ASSUME NEW x \in Sub(N, a), x # a
      PROVE  \E s \in Children(N[a]) : x \in Sub(N, N[a].child[s])
  BY <1>4, SubChildren
<1>5. ASSUME NEW s \in Children(N[a]), NEW x \in Sub(N, N[a].child[s])
      PROVE  /\ P[a] + Bytes(t, a) <= P[x]
             /\ P[x] + Bytes(t, x) <= P[a] + BytesFrom(t, a)
             /\ P[N[a].child[s]] <= P[x]
             /\ P[x] + Bytes(t, x) <= P[N[a].child[s]] + BytesFrom(t, N[a].child[s])
             /\ x \in DOMAIN N /\ N[a].child[s] \in DOMAIN N
  <2> DEFINE c == N[a].child[s]
  <2>1. /\ c \in DOMAIN N /\ P[a] + Bytes(t, a) <= P[c]
        /\ P[c] + BytesFrom(t, c) <= P[a] + BytesFrom(t, a)
    BY ChildPlace
  <2>2. P[c] <= P[x] /\ P[x] + Bytes(t, x) <= P[c] + BytesFrom(t, c)
    BY <1>5 DEF LayOut
  <2>3. x \in DOMAIN N
    BY <2>1, SubClosed
  <2> HIDE DEF P, N, c
  <2>4. /\ P[a] + Bytes(t, a) <= P[x]
        /\ P[x] + Bytes(t, x) <= P[a] + BytesFrom(t, a)
    BY <1>1, <2>1, <2>2, <2>3 DEF N
  <2> QED
    BY <2>1, <2>2, <2>3, <2>4 DEF c
<1>6. ASSUME NEW x \in Sub(N, a)
      PROVE  /\ P[a] <= P[x]
             /\ P[x] + Bytes(t, x) <= P[a] + BytesFrom(t, a)
             /\ x # a => P[a] + Bytes(t, a) <= P[x]
  <2>1. CASE x = a
    BY <1>1, <1>2, <2>1
  <2>2. CASE x # a
    <3>1. PICK s \in Children(N[a]) : x \in Sub(N, N[a].child[s])
      BY <1>4, <2>2
    <3> HIDE DEF P, N
    <3> QED
      BY <1>1, <1>5, <3>1 DEF N
  <2> QED
    BY <2>1, <2>2
<1>7. ASSUME NEW x \in Sub(N, a), NEW y \in Sub(N, a), x # y
      PROVE  P[x] + Bytes(t, x) <= P[y] \/ P[y] + Bytes(t, y) <= P[x]
  <2>1. CASE x = a \/ y = a
    BY <1>6, <1>7, <2>1
  <2>2. CASE x # a /\ y # a
    <3>1. PICK s \in Children(N[a]) : x \in Sub(N, N[a].child[s])
      BY <1>4, <2>2
    <3>2. PICK r \in Children(N[a]) : y \in Sub(N, N[a].child[r])
      BY <1>4, <2>2
    <3>3. CASE s = r
      BY <1>7, <3>1, <3>2, <3>3 DEF LayOut
    <3>4. CASE s < r
      <4>1. P[N[a].child[s]] + BytesFrom(t, N[a].child[s]) <= P[N[a].child[r]]
        BY <3>4, ChildPlace
      <4> HIDE DEF P, N
      <4> QED
        BY <1>1, <1>5, <3>1, <3>2, <4>1
    <3>5. CASE r < s
      <4>1. P[N[a].child[r]] + BytesFrom(t, N[a].child[r]) <= P[N[a].child[s]]
        BY <3>5, ChildPlace
      <4> HIDE DEF P, N
      <4> QED
        BY <1>1, <1>5, <3>1, <3>2, <4>1
    <3>6. s \in Int /\ r \in Int
      <4>1. Children(N[a]) \subseteq 0 .. N[a].mod - 1
        BY ChildrenFinite DEF Tree
      <4> QED
        BY <4>1
    <3> QED
      BY <3>3, <3>4, <3>5, <3>6
  <2> QED
    BY <2>1, <2>2
<1> QED
  BY <1>6, <1>7 DEF LayOut

(* Every subtree is laid out apart, from the leaves upwards. *)
LEMMA LayOutAll ==
  ASSUME NEW t, NEW h, Tree(t.nodes, h)
  PROVE  \A a \in DOMAIN t.nodes : LayOut(t, a)
<1> DEFINE N == t.nodes
           D == DOMAIN t.nodes
           Bad == { n \in Nat : \E a \in D : MaxKeyLen + 1 - h[a] = n /\ ~LayOut(t, a) }
<1>1. ASSUME Bad # {} PROVE FALSE
  <2>1. PICK n \in Bad : \A m \in Bad : n <= m
    <3>1. Bad \in SUBSET Nat
      OBVIOUS
    <3> HIDE DEF Bad
    <3> QED
      BY <1>1, <3>1, LeastElement
  <2>2. PICK a \in D : MaxKeyLen + 1 - h[a] = n /\ ~LayOut(t, a)
    BY <2>1
  <2>3. ASSUME NEW s \in Children(N[a]) PROVE LayOut(t, N[a].child[s])
    <3> DEFINE c == N[a].child[s]
    <3>1. c \in D /\ h[a] < h[c] /\ h[a] \in 0 .. MaxKeyLen + 1 /\ h[c] \in 0 .. MaxKeyLen + 1
      BY DEF Tree, Levels, Placed
    <3>2. MaxKeyLen + 1 - h[c] \in Nat /\ ~(n <= MaxKeyLen + 1 - h[c])
      BY <2>2, <3>1, NatAssumption
    <3>3. MaxKeyLen + 1 - h[c] \notin Bad
      <4> HIDE DEF Bad
      <4> QED
        BY <2>1, <3>2
    <3> QED
      BY <3>1, <3>2, <3>3
  <2> QED
    BY <2>2, <2>3, LayOutStep
<1>2. \A a \in D : MaxKeyLen + 1 - h[a] \in Nat
  BY NatAssumption DEF Tree, Levels
<1> QED
  BY <1>1, <1>2
-----------------------------------------------------------------------------
(***************************************************************************)
(* The invariant of a trie that was begun, with the characters pre[a] that *)
(* lead to a node a.                                                       *)
(***************************************************************************)
Follows(p, path, q) ==
  /\ Len(q) = Len(p) + Len(path)
  /\ \A i \in 1 .. Len(p) : q[i] = p[i]
  /\ \A i \in 1 .. Len(path) : q[Len(p) + i] = path[i].ch

Spells(N, pre) ==
  /\ pre \in [DOMAIN N -> Seq(Char)]
  /\ pre[0] = << >>
  /\ \A a \in DOMAIN N : Len(pre[a]) + Len(N[a].path) <= MaxKeyLen
  /\ \A a \in DOMAIN N : \A s \in Children(N[a]) : Follows(pre[a], N[a].path, pre[N[a].child[s]])

(* Under no smaller modulus do the children of a node have places of their own. *)
Clash(N, a, m) ==
  \E s, r \in Children(N[a]) : s # r /\ First(N, N[a].child[s]) % m = First(N, N[a].child[r]) % m
Tight(N) == \A a \in DOMAIN N \ { 0 } : \A m \in 1 .. N[a].mod - 1 : Clash(N, a, m)

Apart(t) ==
  /\ \A a \in DOMAIN t.nodes : a + Bytes(t, a) <= t.end
  /\ \A a, b \in DOMAIN t.nodes : a < b => a + Bytes(t, a) <= b

Weight(t) == Total(SizeOf(t), DOMAIN t.nodes)

IsTrie(t) ==
  /\ t = [nodes |-> t.nodes, value |-> t.value, more |-> t.more,
          end |-> t.end, wasted |-> t.wasted, size |-> t.size]
  /\ t.end \in Nat /\ t.wasted \in Nat /\ t.size \in Nat

Fits(t) == Apart(t) /\ Weight(t) + t.wasted <= t.end /\ t.end <= t.size

Sound(t, pre) ==
  /\ IsTrie(t)
  /\ Typed(t.nodes) /\ Placed(t.nodes) /\ Once(t.nodes) /\ Spells(t.nodes, pre) /\ Tight(t.nodes)
  /\ Fits(t)

LevelsOf(pre) == [a \in DOMAIN pre |-> IF a = 0 THEN 0 ELSE Len(pre[a]) + 1]

(***************************************************************************)
(* A sound trie is a tree: the characters that lead to a node tell its     *)
(* level.                                                                  *)
(***************************************************************************)
LEMMA SoundTree ==
  ASSUME NEW t, NEW pre, Sound(t, pre)
  PROVE  Tree(t.nodes, LevelsOf(pre))
<1> DEFINE N == t.nodes
           h == LevelsOf(pre)
<1>1. DOMAIN pre = DOMAIN N /\ \A a \in DOMAIN N : pre[a] \in Seq(Char) /\ N[a].path \in Seq(Entry)
  BY DEF Sound, Spells, Typed, Node
<1>2. \A a \in DOMAIN N : Len(pre[a]) \in Nat /\ Len(N[a].path) \in Nat
  BY <1>1
<1>3. \A a \in DOMAIN N : h[a] = IF a = 0 THEN 0 ELSE Len(pre[a]) + 1
  BY <1>1 DEF LevelsOf
<1>4. \A a \in DOMAIN N : h[a] \in 0 .. MaxKeyLen + 1
  <2> SUFFICES ASSUME NEW a \in DOMAIN N PROVE h[a] \in 0 .. MaxKeyLen + 1
    OBVIOUS
  <2>1. PICK m \in Nat, n \in Nat : m = Len(pre[a]) /\ n = Len(N[a].path)
    BY <1>2
  <2>2. m + n <= MaxKeyLen
    BY <2>1 DEF Sound, Spells
  <2>3. h[a] = IF a = 0 THEN 0 ELSE m + 1
    BY <1>3, <2>1
  <2>4. CASE a = 0
    BY <2>3, <2>4, NatAssumption
  <2>5. CASE a # 0
    BY <2>2, <2>3, <2>5, NatAssumption
  <2> QED
    BY <2>4, <2>5
<1>5. h \in [DOMAIN N -> 0 .. MaxKeyLen + 1]
  <2>1. h = [a \in DOMAIN N |-> h[a]]
    BY <1>1 DEF LevelsOf
  <2> HIDE DEF h
  <2> QED
    BY <1>4, <2>1
<1>6. ASSUME NEW a \in DOMAIN N, NEW s \in Children(N[a]) PROVE h[a] < h[N[a].child[s]]
  <2> DEFINE c == N[a].child[s]
  <2>1. c \in DOMAIN N \ { 0 }
    BY DEF Sound, Placed
  <2>2. Len(pre[c]) = Len(pre[a]) + Len(N[a].path)
    BY DEF Sound, Spells, Follows
  <2>3. a # 0 => Len(N[a].path) > 0
    <3>1. a # 0 => N[a].path # << >>
      BY DEF Sound, Typed
    <3> QED
      BY <1>1, <3>1
  <2>4. h[c] = Len(pre[c]) + 1 /\ Len(pre[a]) \in Nat /\ Len(N[a].path) \in Nat
    BY <1>2, <1>3, <2>1
  <2>5. h[a] = IF a = 0 THEN 0 ELSE Len(pre[a]) + 1
    BY <1>3
  <2>6. h[a] < h[c]
    <3> HIDE DEF c, h, N
    <3>1. PICK m \in Nat, n \in Nat : m = Len(pre[a]) /\ n = Len(N[a].path)
      BY <2>4
    <3>2. h[c] = (m + n) + 1 /\ (a # 0 => n > 0) /\ h[a] = IF a = 0 THEN 0 ELSE m + 1
      BY <2>2, <2>3, <2>4, <2>5, <3>1
    <3>3. CASE a = 0
      BY <3>2, <3>3
    <3>4. CASE a # 0
      BY <3>2, <3>4
    <3> QED
      BY <3>3, <3>4
  <2> QED
    BY <2>6
<1> QED
  BY <1>5, <1>6 DEF Tree, Levels, Sound

(* A sum is the same under other names. *)
LEMMA TotalImage ==
  ASSUME NEW S, IsFiniteSet(S), NEW P, NEW f, NEW g,
         \A x, y \in S : P[x] = P[y] => x = y,
         \A x \in S : f[x] \in Nat /\ g[P[x]] = f[x]
  PROVE  Total(g, { P[x] : x \in S }) = Total(f, S)
<1> DEFINE T == { P[x] : x \in S }
           b == [c \in Cells(f, S) |-> << P[c[1]], c[2] >>]
<1>1. ASSUME NEW c \in Cells(f, S)
      PROVE  c[1] \in S /\ c[2] \in Nat /\ c[2] < f[c[1]] /\ c = << c[1], c[2] >>
  BY DEF Cells
<1>2. ASSUME NEW c \in Cells(f, S) PROVE b[c] \in Cells(g, T)
  BY <1>1 DEF Cells
<1>3. ASSUME NEW c \in Cells(f, S), NEW d \in Cells(f, S), b[c] = b[d] PROVE c = d
  <2>1. b[c] = << P[c[1]], c[2] >> /\ b[d] = << P[d[1]], d[2] >>
    OBVIOUS
  <2>2. P[c[1]] = P[d[1]] /\ c[2] = d[2]
    <3>1. << P[c[1]], c[2] >> = << P[d[1]], d[2] >>
      <4> HIDE DEF b
      <4> QED
        BY <1>3, <2>1, Zenon
    <3> QED
      BY <3>1
  <2> QED
    BY <1>1, <2>2
<1>4. ASSUME NEW e \in Cells(g, T) PROVE \E c \in Cells(f, S) : b[c] = e
  <2>1. e[1] \in T /\ e[2] \in Nat /\ e[2] < g[e[1]] /\ e = << e[1], e[2] >>
    BY DEF Cells
  <2>2. PICK x \in S : P[x] = e[1]
    BY <2>1
  <2>3. << x, e[2] >> \in Cells(f, S)
    BY <2>1, <2>2 DEF Cells
  <2> QED
    BY <2>1, <2>2, <2>3
<1>5. b \in Bijection(Cells(f, S), Cells(g, T))
  <2>1. b \in [Cells(f, S) -> Cells(g, T)]
    BY <1>2
  <2> HIDE DEF b
  <2> QED
    BY <1>3, <1>4, <2>1 DEF Bijection, Injection, Surjection, IsInjective
<1>6. ExistsBijection(Cells(f, S), Cells(g, T))
  BY <1>5 DEF ExistsBijection
<1>7. IsFiniteSet(Cells(f, S))
  BY CellsFinite
<1> QED
  BY <1>6, <1>7, FS_Bijection DEF Total

(* The same nodes, at other places. *)
Moved(N, pre, M, pre2, P) ==
  /\ P \in [DOMAIN N -> DOMAIN M]
  /\ \A b \in DOMAIN M : \E a \in DOMAIN N : P[a] = b
  /\ \A a \in DOMAIN N : M[P[a]].path = N[a].path /\ M[P[a]].mod = N[a].mod /\ pre2[P[a]] = pre[a]

(* The places are different, and the root's is 0. *)
LEMMA PlacesApart ==
  ASSUME NEW t, NEW pre, Sound(t, pre)
  PROVE  /\ NewPlace(t) \in [DOMAIN t.nodes -> Nat] /\ NewPlace(t)[0] = 0
         /\ \A x, y \in DOMAIN t.nodes :
              x # y => \/ NewPlace(t)[x] + Bytes(t, x) <= NewPlace(t)[y]
                       \/ NewPlace(t)[y] + Bytes(t, y) <= NewPlace(t)[x]
         /\ \A x, y \in DOMAIN t.nodes : NewPlace(t)[x] = NewPlace(t)[y] => x = y
         /\ \A x \in DOMAIN t.nodes \ { 0 } : NewPlace(t)[x] # 0
         /\ \A x \in DOMAIN t.nodes : NewPlace(t)[x] + Bytes(t, x) <= Weight(t)
         /\ Compact(t)[0] = Weight(t) /\ Weight(t) \in Nat
<1> DEFINE N == t.nodes
           P == NewPlace(t)
<1>1. Tree(N, LevelsOf(pre))
  BY SoundTree
<1>2. 0 \in DOMAIN N /\ Sub(N, 0) = DOMAIN N
  BY <1>1, SubRoot DEF Tree, Typed
<1>3. P \in [DOMAIN N -> Nat] /\ P[0] = 0
  BY <1>1, PlaceIs
<1>4. LayOut(t, 0)
  BY <1>1, <1>2, LayOutAll
<1>5. BytesFrom(t, 0) = Weight(t) /\ BytesFrom(t, 0) \in Nat /\ BytesFrom(t, 0) = Compact(t)[0]
  <2>1. BytesFrom(t, 0) = Weight(t)
    BY <1>2, Zenon DEF BytesFrom, Weight
  <2>2. BytesFrom(t, 0) \in Nat /\ BytesFrom(t, 0) = Compact(t)[0]
    BY <1>1, <1>2, BytesFromIs, Zenon
  <2> QED
    BY <2>1, <2>2
<1>6. \A x \in DOMAIN N : Bytes(t, x) \in Nat /\ Bytes(t, x) > 0
  BY <1>1, BytesFromIs, Zenon
<1>7. \A x, y \in DOMAIN N : x # y => P[x] + Bytes(t, x) <= P[y] \/ P[y] + Bytes(t, y) <= P[x]
  BY <1>2, <1>4 DEF LayOut
<1>8. \A x \in DOMAIN N : P[x] + Bytes(t, x) <= Weight(t)
  <2>1. \A x \in Sub(N, 0) : P[x] + Bytes(t, x) <= P[0] + BytesFrom(t, 0)
    BY <1>4 DEF LayOut
  <2> HIDE DEF P, N
  <2> QED
    BY <1>2, <1>3, <1>5, <2>1
<1> HIDE DEF P, N
<1>9. \A x, y \in DOMAIN N : P[x] = P[y] => x = y
  BY <1>3, <1>6, <1>7
<1>10. \A x \in DOMAIN N \ { 0 } : P[x] # 0
  BY <1>2, <1>3, <1>9
<1> QED
  BY <1>3, <1>5, <1>7, <1>8, <1>9, <1>10 DEF P, N

(* What optimize returns, field by field. *)
LEMMA OptimizeIs ==
  ASSUME NEW t, NEW pre, Sound(t, pre), t.wasted # 0
  PROVE  LET P == NewPlace(t)
             u == optimize(t)
         IN  /\ u = [nodes |-> u.nodes, value |-> t.value, more |-> t.more,
                     end |-> Weight(t), wasted |-> 0, size |-> t.size - t.wasted]
             /\ DOMAIN u.nodes = { P[a] : a \in DOMAIN t.nodes }
             /\ \A a \in DOMAIN t.nodes :
                  u.nodes[P[a]] = [path |-> t.nodes[a].path, mod |-> t.nodes[a].mod,
                                   child |-> [s \in 0 .. t.nodes[a].mod - 1 |->
                                                IF t.nodes[a].child[s] = 0 THEN 0
                                                ELSE P[t.nodes[a].child[s]]]]
<1> DEFINE N == t.nodes
           P == NewPlace(t)
           moved(node) == [node EXCEPT !.child = [s \in DOMAIN @ |-> IF @[s] = 0 THEN 0 ELSE P[@[s]]]]
           old(b) == CHOOSE a \in DOMAIN N : P[a] = b
           M == [b \in Range(P) |-> moved(N[old(b)])]
           u == optimize(t)
<1>1. u = [t EXCEPT !.size = @ - t.wasted, !.wasted = 0, !.end = Compact(t)[0], !.nodes = M]
  BY DEF optimize
<1>2. u = [nodes |-> M, value |-> t.value, more |-> t.more,
           end |-> Compact(t)[0], wasted |-> 0, size |-> t.size - t.wasted]
  <2>1. t = [nodes |-> t.nodes, value |-> t.value, more |-> t.more,
             end |-> t.end, wasted |-> t.wasted, size |-> t.size]
    BY DEF Sound, IsTrie
  <2> HIDE DEF M, u
  <2> QED
    BY <1>1, <2>1, Zenon
<1>3. /\ P \in [DOMAIN N -> Nat] /\ \A x, y \in DOMAIN N : P[x] = P[y] => x = y
      /\ Compact(t)[0] = Weight(t)
  BY PlacesApart
<1>4. Range(P) = { P[a] : a \in DOMAIN N }
  <2> HIDE DEF P
  <2> QED
    BY <1>3 DEF Range
<1>5. ASSUME NEW a \in DOMAIN N
      PROVE  M[P[a]] = [path |-> N[a].path, mod |-> N[a].mod,
                        child |-> [s \in 0 .. N[a].mod - 1 |->
                                     IF N[a].child[s] = 0 THEN 0 ELSE P[N[a].child[s]]]]
  <2>1. P[a] \in Range(P) /\ old(P[a]) = a
    <3> HIDE DEF P
    <3> QED
      BY <1>3, <1>4
  <2>2. M[P[a]] = moved(N[a])
    <3> HIDE DEF P
    <3> QED
      BY <2>1, Zenon
  <2>3. N[a] \in Node /\ DOMAIN N[a].child = 0 .. N[a].mod - 1
    BY DEF Sound, Typed
  <2>4. moved(N[a]) = [path |-> N[a].path, mod |-> N[a].mod,
                       child |-> [s \in DOMAIN N[a].child |->
                                    IF N[a].child[s] = 0 THEN 0 ELSE P[N[a].child[s]]]]
    <3>1. N[a] = [path |-> N[a].path, mod |-> N[a].mod, child |-> N[a].child]
      BY <2>3 DEF Node
    <3>2. PICK p, m, c : N[a] = [path |-> p, mod |-> m, child |-> c]
      BY <3>1
    <3> HIDE DEF P, N
    <3> QED
      BY <3>2
  <2> HIDE DEF moved, M, P
  <2> QED
    BY <2>2, <2>3, <2>4
<1>6. u.nodes = M /\ DOMAIN M = Range(P)
  <2>1. u.nodes = M
    <3> HIDE DEF M, u
    <3> QED
      BY <1>2
  <2> QED
    BY <2>1
<1> HIDE DEF P, M, u, moved, old
<1>7. \A a \in DOMAIN N : u.nodes[P[a]] = [path |-> N[a].path, mod |-> N[a].mod,
                        child |-> [s \in 0 .. N[a].mod - 1 |->
                                     IF N[a].child[s] = 0 THEN 0 ELSE P[N[a].child[s]]]]
  BY <1>5, <1>6
<1>8. DOMAIN u.nodes = { P[a] : a \in DOMAIN N }
  BY <1>4, <1>6, Zenon
<1>9. u = [nodes |-> u.nodes, value |-> t.value, more |-> t.more,
                     end |-> Weight(t), wasted |-> 0, size |-> t.size - t.wasted]
  BY <1>2, <1>3, <1>6, Zenon
<1> QED
  BY <1>7, <1>8, <1>9 DEF P, u

(* optimize: the block that is left is a sound trie with the same words. *)
LEMMA OptimizeSound ==
  ASSUME NEW t, NEW pre, Sound(t, pre)
  PROVE  \E pre2, P : /\ Sound(optimize(t), pre2)
                      /\ Moved(t.nodes, pre, optimize(t).nodes, pre2, P)
                      /\ optimize(t).more = t.more /\ optimize(t).value = t.value
                      /\ (optimize(t).end = 0 <=> t.end = 0)
<1>1. CASE t.wasted = 0
  <2>1. optimize(t) = t
    BY <1>1 DEF optimize
  <2> DEFINE P == [a \in DOMAIN t.nodes |-> a]
  <2>2. Moved(t.nodes, pre, t.nodes, pre, P)
    BY DEF Moved
  <2> QED
    BY <2>1, <2>2
<1>2. CASE t.wasted # 0
  <2> DEFINE N == t.nodes
             D == DOMAIN t.nodes
  <2>1. PICK P : P = NewPlace(t)
    OBVIOUS
  <2>2. PICK u : u = optimize(t)
    OBVIOUS
  <2>3. PICK M : M = u.nodes
    OBVIOUS
  <2>4. /\ u = [nodes |-> u.nodes, value |-> t.value, more |-> t.more,
                end |-> Weight(t), wasted |-> 0, size |-> t.size - t.wasted]
        /\ DOMAIN M = { P[a] : a \in D }
        /\ \A a \in D : M[P[a]] = [path |-> N[a].path, mod |-> N[a].mod,
                                   child |-> [s \in 0 .. N[a].mod - 1 |->
                                                IF N[a].child[s] = 0 THEN 0 ELSE P[N[a].child[s]]]]
    <3>1. /\ u = [nodes |-> u.nodes, value |-> t.value, more |-> t.more,
                   end |-> Weight(t), wasted |-> 0, size |-> t.size - t.wasted]
          /\ DOMAIN u.nodes = { P[a] : a \in D }
          /\ \A a \in D : u.nodes[P[a]] = [path |-> N[a].path, mod |-> N[a].mod,
                                           child |-> [s \in 0 .. N[a].mod - 1 |->
                                                        IF N[a].child[s] = 0 THEN 0 ELSE P[N[a].child[s]]]]
      BY <1>2, <2>1, <2>2, OptimizeIs
    <3> HIDE DEF N, D
    <3> QED
      BY <2>3, <3>1, Zenon
  <2>5. /\ P \in [D -> Nat] /\ P[0] = 0
        /\ \A x, y \in D : x # y => P[x] + Bytes(t, x) <= P[y] \/ P[y] + Bytes(t, y) <= P[x]
        /\ \A x, y \in D : P[x] = P[y] => x = y
        /\ \A x \in D \ { 0 } : P[x] # 0
        /\ \A x \in D : P[x] + Bytes(t, x) <= Weight(t)
        /\ Weight(t) \in Nat
    BY <2>1, PlacesApart, Zenon
  <2>6. Typed(N) /\ Placed(N) /\ Once(N) /\ Spells(N, pre) /\ Tight(N) /\ Fits(t) /\ IsTrie(t)
    BY DEF Sound
  <2>7. 0 \in D /\ IsFiniteSet(D)
    BY <2>6 DEF Typed
  <2>8. ASSUME NEW a \in D
        PROVE  /\ P[a] \in DOMAIN M
               /\ M[P[a]].path = N[a].path /\ M[P[a]].mod = N[a].mod
               /\ M[P[a]].child = [s \in 0 .. N[a].mod - 1 |->
                                     IF N[a].child[s] = 0 THEN 0 ELSE P[N[a].child[s]]]
               /\ Children(M[P[a]]) = Children(N[a])
               /\ \A s \in Children(N[a]) : N[a].child[s] \in D \ { 0 } /\ M[P[a]].child[s] = P[N[a].child[s]]
    <3>1. /\ P[a] \in DOMAIN M
          /\ M[P[a]].path = N[a].path /\ M[P[a]].mod = N[a].mod
          /\ M[P[a]].child = [s \in 0 .. N[a].mod - 1 |->
                                IF N[a].child[s] = 0 THEN 0 ELSE P[N[a].child[s]]]
      <4>1. P[a] \in DOMAIN M
        BY <2>4
      <4>2. PICK c : c = [s \in 0 .. N[a].mod - 1 |-> IF N[a].child[s] = 0 THEN 0 ELSE P[N[a].child[s]]]
        OBVIOUS
      <4>3. M[P[a]] = [path |-> N[a].path, mod |-> N[a].mod, child |-> c]
        BY <2>4, <4>2, Zenon
      <4>4. M[P[a]].path = N[a].path /\ M[P[a]].mod = N[a].mod /\ M[P[a]].child = c
        <5> HIDE DEF N
        <5> QED
          BY <4>3
      <4> QED
        BY <4>1, <4>2, <4>4, Zenon
    <3>2. DOMAIN N[a].child = 0 .. N[a].mod - 1
      BY <2>6 DEF Typed
    <3>3. ASSUME NEW s \in 0 .. N[a].mod - 1, N[a].child[s] # 0
          PROVE  N[a].child[s] \in D \ { 0 } /\ P[N[a].child[s]] # 0 /\ M[P[a]].child[s] = P[N[a].child[s]]
      <4>1. s \in Children(N[a])
        BY <3>2, <3>3 DEF Children
      <4>2. N[a].child[s] \in D \ { 0 }
        BY <2>6, <4>1 DEF Placed
      <4> QED
        BY <2>5, <3>1, <3>3, <4>2
    <3>4. Children(M[P[a]]) = Children(N[a])
      <4>1. DOMAIN M[P[a]].child = 0 .. N[a].mod - 1
        BY <3>1
      <4>2. \A s \in 0 .. N[a].mod - 1 : M[P[a]].child[s] # 0 <=> N[a].child[s] # 0
        BY <3>1, <3>3
      <4> HIDE DEF N
      <4> QED
        BY <3>2, <4>1, <4>2 DEF Children
    <3>5. Children(N[a]) \subseteq 0 .. N[a].mod - 1 /\ \A s \in Children(N[a]) : N[a].child[s] # 0
      BY <3>2 DEF Children
    <3> HIDE DEF N
    <3> QED
      BY <3>1, <3>3, <3>4, <3>5
  <2>9. \A b \in DOMAIN M : \E a \in D : P[a] = b
    BY <2>4
  <2>10. Typed(M)
    <3>1. IsFiniteSet(DOMAIN M) /\ DOMAIN M \subseteq Nat /\ 0 \in DOMAIN M
      <4>1. P \in Surjection(D, DOMAIN M)
        <5>1. P \in [D -> DOMAIN M]
          BY <2>5, <2>8
        <5> QED
          BY <2>9, <5>1 DEF Surjection
      <4>2. IsFiniteSet(DOMAIN M)
        BY <2>7, <4>1, FS_Surjection
      <4>3. \A a \in D : P[a] \in DOMAIN M /\ P[a] \in Nat
        BY <2>5, <2>8
      <4> QED
        BY <2>5, <2>7, <2>9, <4>2, <4>3
    <3>2. ASSUME NEW b \in DOMAIN M
          PROVE  /\ M[b] \in Node /\ M[b].child \in [0 .. M[b].mod - 1 -> Nat] /\ M[b].mod # 1
                 /\ (M[b].path = << >> <=> b = 0)
      <4>1. PICK a \in D : P[a] = b
        BY <2>9
      <4>2. N[a] \in Node /\ N[a].mod # 1 /\ (N[a].path = << >> <=> a = 0) /\ N[a].child \in [0 .. N[a].mod - 1 -> Nat]
        BY <2>6 DEF Typed
      <4>3. N[a].path \in Seq(Entry) /\ N[a].mod \in 0 .. VTKEY_NUM
        BY <4>2 DEF Node
      <4>4. \A s \in 0 .. N[a].mod - 1 : N[a].child[s] # 0 => P[N[a].child[s]] \in Nat
        <5>1. \A s \in 0 .. N[a].mod - 1 : N[a].child[s] # 0 => s \in Children(N[a])
          BY <4>2 DEF Children
        <5> QED
          BY <2>5, <2>8, <5>1
      <4>5. M[b].child \in [0 .. N[a].mod - 1 -> Nat]
        <5>1. M[b].child = [s \in 0 .. N[a].mod - 1 |-> IF N[a].child[s] = 0 THEN 0 ELSE P[N[a].child[s]]]
          BY <2>8, <4>1
        <5> HIDE DEF N, D
        <5> QED
          BY <4>4, <5>1
      <4>6. M[b] = [path |-> N[a].path, mod |-> N[a].mod, child |-> M[b].child]
        <5>1. M[b] = [path |-> N[a].path, mod |-> N[a].mod,
                      child |-> [s \in 0 .. N[a].mod - 1 |-> IF N[a].child[s] = 0 THEN 0 ELSE P[N[a].child[s]]]]
          BY <2>4, <4>1
        <5>2. M[b].child = [s \in 0 .. N[a].mod - 1 |-> IF N[a].child[s] = 0 THEN 0 ELSE P[N[a].child[s]]]
          BY <2>8, <4>1
        <5> QED
          BY <5>1, <5>2, Zenon
      <4>7. M[b] \in Node
        <5>1. M[b].child \in UNION { [0 .. m - 1 -> Nat] : m \in 0 .. VTKEY_NUM }
          BY <4>3, <4>5
        <5> QED
          BY <4>3, <4>6, <5>1 DEF Node
      <4>8. b = 0 <=> a = 0
        BY <2>5, <2>7, <4>1
      <4> QED
        BY <2>8, <4>1, <4>2, <4>5, <4>7, <4>8
    <3>3. M[0].mod = VTKEY_NUM
      BY <2>5, <2>6, <2>7, <2>8 DEF Typed
    <3> QED
      BY <3>1, <3>2, <3>3 DEF Typed
  <2>11. Placed(M)
    <3> SUFFICES ASSUME NEW b \in DOMAIN M, NEW s \in Children(M[b])
                 PROVE  M[b].child[s] \in DOMAIN M \ { 0 } /\ First(M, M[b].child[s]) % M[b].mod = s
      BY DEF Placed
    <3>1. PICK a \in D : P[a] = b
      BY <2>9
    <3>2. s \in Children(N[a]) /\ N[a].child[s] \in D \ { 0 } /\ M[b].child[s] = P[N[a].child[s]]
      BY <2>8, <3>1
    <3>3. First(N, N[a].child[s]) % N[a].mod = s
      BY <2>6, <3>2 DEF Placed
    <3>4. First(M, M[b].child[s]) = First(N, N[a].child[s])
      <4>1. PICK c : c = N[a].child[s]
        OBVIOUS
      <4>2. M[b].child[s] = P[c] /\ c \in D
        BY <3>2, <4>1
      <4>3. M[P[c]].path = N[c].path
        BY <2>8, <4>2
      <4> QED
        BY <4>1, <4>2, <4>3 DEF First
    <3>5. M[b].mod = N[a].mod /\ M[b].child[s] \in DOMAIN M
      BY <2>8, <3>1, <3>2
    <3>6. M[b].child[s] # 0
      BY <2>5, <3>2
    <3> QED
      BY <3>3, <3>4, <3>5, <3>6
  <2>12. Once(M)
    <3>1. ASSUME NEW b \in DOMAIN M, NEW c \in DOMAIN M, NEW s \in Children(M[b]), NEW r \in Children(M[c]),
                 M[b].child[s] = M[c].child[r]
          PROVE  b = c /\ s = r
      <4>1. PICK x \in D : P[x] = b
        BY <2>9
      <4>2. PICK y \in D : P[y] = c
        BY <2>9
      <4>3. /\ s \in Children(N[x]) /\ N[x].child[s] \in D /\ M[b].child[s] = P[N[x].child[s]]
            /\ r \in Children(N[y]) /\ N[y].child[r] \in D /\ M[c].child[r] = P[N[y].child[r]]
        BY <2>8, <4>1, <4>2
      <4>4. N[x].child[s] = N[y].child[r]
        BY <2>5, <3>1, <4>3
      <4> QED
        BY <2>6, <4>1, <4>2, <4>3, <4>4 DEF Once
    <3>2. ASSUME NEW b \in DOMAIN M \ { 0 }
          PROVE  \E c \in DOMAIN M : \E s \in Children(M[c]) : M[c].child[s] = b
      <4>1. PICK x \in D : P[x] = b
        BY <2>9
      <4>2. x # 0
        BY <2>5, <4>1
      <4>3. PICK a \in D : \E s \in Children(N[a]) : N[a].child[s] = x
        BY <2>6, <4>2 DEF Once
      <4>4. PICK s \in Children(N[a]) : N[a].child[s] = x
        BY <4>3
      <4>5. P[a] \in DOMAIN M /\ s \in Children(M[P[a]]) /\ M[P[a]].child[s] = P[N[a].child[s]]
        BY <2>8, <4>4
      <4> QED
        BY <4>1, <4>4, <4>5
    <3> QED
      BY <3>1, <3>2 DEF Once
  <2>13. PICK pre2 : pre2 = [b \in DOMAIN M |-> pre[CHOOSE a \in D : P[a] = b]]
    OBVIOUS
  <2>14. DOMAIN pre2 = DOMAIN M /\ \A a \in D : pre2[P[a]] = pre[a]
    <3>1. ASSUME NEW a \in D PROVE pre2[P[a]] = pre[a]
      <4>1. (CHOOSE x \in D : P[x] = P[a]) = a
        BY <2>5
      <4> QED
        BY <2>8, <2>13, <4>1
    <3> QED
      BY <2>13, <3>1
  <2>15. Spells(M, pre2)
    <3>1. pre2 \in [DOMAIN M -> Seq(Char)]
      <4>1. \A b \in DOMAIN M : pre2[b] \in Seq(Char)
        BY <2>6, <2>9, <2>14 DEF Spells
      <4> QED
        BY <2>13, <4>1
    <3>2. pre2[0] = << >>
      <4>1. pre2[P[0]] = pre[0] /\ pre[0] = << >>
        BY <2>6, <2>7, <2>14 DEF Spells
      <4> QED
        BY <2>5, <4>1
    <3>3. ASSUME NEW b \in DOMAIN M PROVE Len(pre2[b]) + Len(M[b].path) <= MaxKeyLen
      <4>1. PICK a \in D : P[a] = b
        BY <2>9
      <4>2. Len(pre[a]) + Len(N[a].path) <= MaxKeyLen
        BY <2>6 DEF Spells
      <4>3. pre2[b] = pre[a] /\ M[b].path = N[a].path
        BY <2>8, <2>14, <4>1
      <4> QED
        BY <4>2, <4>3
    <3>4. ASSUME NEW b \in DOMAIN M, NEW s \in Children(M[b])
          PROVE  Follows(pre2[b], M[b].path, pre2[M[b].child[s]])
      <4>1. PICK a \in D : P[a] = b
        BY <2>9
      <4>2. s \in Children(N[a]) /\ N[a].child[s] \in D \ { 0 } /\ M[b].child[s] = P[N[a].child[s]]
        BY <2>8, <4>1
      <4>3. Follows(pre[a], N[a].path, pre[N[a].child[s]])
        BY <2>6, <4>2 DEF Spells
      <4>4. pre2[b] = pre[a] /\ M[b].path = N[a].path /\ pre2[M[b].child[s]] = pre[N[a].child[s]]
        BY <2>8, <2>14, <4>1, <4>2
      <4> QED
        BY <4>3, <4>4
    <3> QED
      BY <3>1, <3>2, <3>3, <3>4 DEF Spells
  <2>16. Tight(M)
    <3> SUFFICES ASSUME NEW b \in DOMAIN M \ { 0 }, NEW m \in 1 .. M[b].mod - 1 PROVE Clash(M, b, m)
      BY DEF Tight
    <3>1. PICK a \in D : P[a] = b
      BY <2>9
    <3>2. a # 0 /\ M[b].mod = N[a].mod
      BY <2>5, <2>8, <3>1
    <3>3. Clash(N, a, m)
      BY <2>6, <3>2 DEF Tight
    <3>4. PICK s \in Children(N[a]), r \in Children(N[a]) :
            s # r /\ First(N, N[a].child[s]) % m = First(N, N[a].child[r]) % m
      BY <3>3 DEF Clash
    <3>5. ASSUME NEW q \in Children(N[a]) PROVE First(M, M[b].child[q]) = First(N, N[a].child[q])
      <4>1. PICK c : c = N[a].child[q]
        OBVIOUS
      <4>2. M[b].child[q] = P[c] /\ c \in D
        BY <2>8, <3>1, <4>1
      <4>3. M[P[c]].path = N[c].path
        BY <2>8, <4>2
      <4> QED
        BY <4>1, <4>2, <4>3 DEF First
    <3>6. s \in Children(M[b]) /\ r \in Children(M[b])
      BY <2>8, <3>1
    <3> QED
      BY <3>4, <3>5, <3>6 DEF Clash
  <2>17. \A a \in D : Bytes(u, P[a]) = Bytes(t, a) /\ Bytes(t, a) \in Nat
    <3> SUFFICES ASSUME NEW a \in D PROVE Bytes(u, P[a]) = Bytes(t, a) /\ Bytes(t, a) \in Nat
      OBVIOUS
    <3>1. NodeBytes(u.nodes[P[a]]) = NodeBytes(t.nodes[a])
      BY <2>3, <2>8 DEF NodeBytes
    <3>2. P[a] = 0 <=> a = 0
      BY <2>5, <2>7
    <3>3. Bytes(t, a) \in Nat
      BY <2>6, Sizes
    <3> QED
      BY <3>1, <3>2, <3>3 DEF Bytes
  <2>18. Weight(u) = Weight(t)
    <3>1. \A a \in D : SizeOf(t)[a] \in Nat /\ SizeOf(u)[P[a]] = SizeOf(t)[a]
      BY <2>3, <2>8, <2>17 DEF SizeOf
    <3>2. Total(SizeOf(u), { P[a] : a \in D }) = Total(SizeOf(t), D)
      BY <2>5, <2>7, <3>1, TotalImage
    <3> QED
      BY <2>3, <2>4, <3>2, Zenon DEF Weight
  <2>19. u.end = Weight(t) /\ u.wasted = 0 /\ u.size = t.size - t.wasted /\ u.more = t.more /\ u.value = t.value
    BY <2>4
  <2>20. Apart(u)
    <3>1. ASSUME NEW b \in DOMAIN M PROVE b + Bytes(u, b) <= Weight(t)
      BY <2>5, <2>9, <2>17
    <3>2. ASSUME NEW b \in DOMAIN M, NEW c \in DOMAIN M, b < c PROVE b + Bytes(u, b) <= c
      <4>1. PICK x \in D : P[x] = b
        BY <2>9
      <4>2. PICK y \in D : P[y] = c
        BY <2>9
      <4>3. x # y /\ b \in Nat /\ c \in Nat
        BY <2>5, <3>2, <4>1, <4>2
      <4>4. b + Bytes(t, x) <= c \/ c + Bytes(t, y) <= b
        BY <2>5, <4>1, <4>2, <4>3
      <4>5. Bytes(u, b) = Bytes(t, x) /\ Bytes(t, y) \in Nat /\ Bytes(t, x) \in Nat
        BY <2>17, <4>1, <4>2
      <4> QED
        BY <3>2, <4>3, <4>4, <4>5
    <3> QED
      BY <2>3, <2>19, <3>1, <3>2 DEF Apart
  <2>21. Weight(t) + t.wasted <= t.end /\ t.end <= t.size /\ t.end \in Nat /\ t.wasted \in Nat /\ t.size \in Nat
    BY <2>6 DEF Fits, IsTrie
  <2>22. Fits(u)
    BY <2>5, <2>18, <2>19, <2>20, <2>21 DEF Fits
  <2>23. IsTrie(u)
    BY <2>4, <2>5, <2>19, <2>21 DEF IsTrie
  <2>24. Sound(u, pre2)
    BY <2>3, <2>10, <2>11, <2>12, <2>15, <2>16, <2>22, <2>23 DEF Sound
  <2>25. Moved(N, pre, M, pre2, P)
    <3>1. P \in [D -> DOMAIN M]
      BY <2>5, <2>8
    <3> QED
      BY <2>8, <2>9, <2>14, <3>1 DEF Moved
  <2>26. u.end # 0 /\ t.end # 0
    <3>1. Bytes(t, 0) > 0 /\ Bytes(t, 0) \in Nat
      BY <2>6, <2>7, Sizes
    <3>2. Bytes(t, 0) <= Weight(t)
      <4>1. P[0] + Bytes(t, 0) <= Weight(t) /\ P[0] = 0
        BY <2>5, <2>7
      <4> QED
        BY <2>5, <3>1, <4>1
    <3> QED
      BY <2>5, <2>19, <2>21, <3>1, <3>2
  <2> QED
    BY <2>2, <2>3, <2>19, <2>24, <2>25, <2>26
<1> QED
  BY <1>1, <1>2
-----------------------------------------------------------------------------
(***************************************************************************)
(* Every insertion replaces one node, at, by one or more new ones, the     *)
(* first of which, e, takes its place in the tree: graft maps the new      *)
(* addresses to nodes, and q gives the characters that lead to them.  The  *)
(* pointers of the other nodes to at become pointers to e.                 *)
(***************************************************************************)
Redirect(node, at, e) ==
  [path |-> node.path, mod |-> node.mod,
   child |-> [s \in 0 .. node.mod - 1 |-> IF node.child[s] = at THEN e ELSE node.child[s]]]

(* M is N with graft in the place of at. *)
Grafted(N, M, at, e, graft) ==
  /\ DOMAIN M = (DOMAIN N \ { at }) \cup DOMAIN graft
  /\ \A n \in DOMAIN graft : M[n] = graft[n]
  /\ \A x \in DOMAIN N \ { at } : M[x] = Redirect(N[x], at, e)

Led(N, pre, at, graft, q) ==
  [x \in (DOMAIN N \ { at }) \cup DOMAIN graft |-> IF x \in DOMAIN graft THEN q[x] ELSE pre[x]]

Kids(N, at) == { N[at].child[s] : s \in Children(N[at]) }

FirstOf(N, graft, c) == IF c \in DOMAIN graft THEN First(graft, c) ELSE First(N, c)

GraftTyped(N, at, e, graft) ==
  /\ IsFiniteSet(DOMAIN graft) /\ DOMAIN graft \subseteq Nat
  /\ DOMAIN graft \cap (DOMAIN N \ { at }) = {}
  /\ e \in DOMAIN graft
  /\ \A n \in DOMAIN graft :
       /\ n = 0 <=> n = e /\ at = 0
       /\ graft[n] \in Node
       /\ graft[n].child \in [0 .. graft[n].mod - 1 -> Nat]
       /\ graft[n].mod # 1
       /\ graft[n].path = << >> <=> n = 0
  /\ at = 0 => graft[e].mod = VTKEY_NUM
  /\ at # 0 => First(graft, e) = First(N, at)

GraftLinked(N, pre, at, e, graft, q) ==
  /\ \A n \in DOMAIN graft : \A s \in Children(graft[n]) :
       LET c == graft[n].child[s] IN
       \/ /\ c \in DOMAIN graft \ { e }
          /\ First(graft, c) % graft[n].mod = s /\ Follows(q[n], graft[n].path, q[c])
       \/ /\ c \in Kids(N, at)
          /\ First(N, c) % graft[n].mod = s /\ Follows(q[n], graft[n].path, pre[c])
  /\ \A n, m \in DOMAIN graft : \A s \in Children(graft[n]), r \in Children(graft[m]) :
       graft[n].child[s] = graft[m].child[r] => n = m /\ s = r
  /\ \A c \in (DOMAIN graft \ { e }) \cup Kids(N, at) :
       \E n \in DOMAIN graft : \E s \in Children(graft[n]) : graft[n].child[s] = c

GraftSpells(pre, at, e, graft, q) ==
  /\ q \in [DOMAIN graft -> Seq(Char)]
  /\ q[e] = pre[at]
  /\ \A n \in DOMAIN graft : Len(q[n]) + Len(graft[n].path) <= MaxKeyLen

GraftTight(N, graft) ==
  \A n \in DOMAIN graft \ { 0 } : \A m \in 1 .. graft[n].mod - 1 :
    \E s, r \in Children(graft[n]) :
      s # r /\ FirstOf(N, graft, graft[n].child[s]) % m = FirstOf(N, graft, graft[n].child[r]) % m

Graft(N, pre, at, e, graft, q) ==
  /\ at \in DOMAIN N
  /\ GraftTyped(N, at, e, graft)
  /\ GraftLinked(N, pre, at, e, graft, q)
  /\ GraftSpells(pre, at, e, graft, q)
  /\ GraftTight(N, graft)

Shaped(N, pre) == Typed(N) /\ Placed(N) /\ Once(N) /\ Spells(N, pre) /\ Tight(N)

(* A node is not its own child. *)
LEMMA NotItsChild ==
  ASSUME NEW N, NEW pre, Shaped(N, pre), NEW a \in DOMAIN N
  PROVE  a \notin Kids(N, a) /\ 0 \notin Kids(N, a) /\ Kids(N, a) \subseteq DOMAIN N \ { a }
<1>1. ASSUME NEW s \in Children(N[a]) PROVE N[a].child[s] \in DOMAIN N \ { 0 } /\ N[a].child[s] # a
  <2>1. N[a].child[s] \in DOMAIN N \ { 0 }
    BY DEF Shaped, Placed
  <2>2. CASE a = 0
    BY <2>1, <2>2
  <2>3. CASE a # 0
    <3>1. N[a].path \in Seq(Entry) /\ N[a].path # << >> /\ pre[a] \in Seq(Char)
      BY <2>3 DEF Shaped, Typed, Node, Spells
    <3>2. Len(N[a].path) \in Nat /\ Len(N[a].path) # 0 /\ Len(pre[a]) \in Nat
      BY <3>1
    <3>3. Len(pre[N[a].child[s]]) = Len(pre[a]) + Len(N[a].path)
      BY DEF Shaped, Spells, Follows
    <3>4. ASSUME N[a].child[s] = a PROVE FALSE
      <4>1. PICK m \in Nat, n \in Nat : m = Len(pre[a]) /\ n = Len(N[a].path)
        BY <3>2
      <4>2. Len(pre[N[a].child[s]]) = m + n
        BY <3>3, <4>1
      <4>3. Len(pre[N[a].child[s]]) = m
        BY <3>4, <4>1
      <4>4. n # 0
        BY <3>2, <4>1
      <4> QED
        BY <4>2, <4>3, <4>4
    <3> QED
      BY <2>1, <3>4
  <2> QED
    BY <2>2, <2>3
<1> QED
  BY <1>1 DEF Kids

(* Redirect changes where slots point and nothing else of a node. *)
LEMMA RedirectIs ==
  ASSUME NEW N, Typed(N), NEW at \in DOMAIN N, NEW e \in Nat, e = 0 <=> at = 0, NEW x \in DOMAIN N
  PROVE  LET node == Redirect(N[x], at, e) IN
         /\ node \in Node /\ node.path = N[x].path /\ node.mod = N[x].mod
         /\ node.child \in [0 .. node.mod - 1 -> Nat]
         /\ Children(node) = Children(N[x])
         /\ \A s \in Children(N[x]) : node.child[s] = IF N[x].child[s] = at THEN e ELSE N[x].child[s]
<1>1. N[x] \in Node /\ N[x].child \in [0 .. N[x].mod - 1 -> Nat]
  BY DEF Typed
<1>2. PICK c : c = [s \in 0 .. N[x].mod - 1 |-> IF N[x].child[s] = at THEN e ELSE N[x].child[s]]
  OBVIOUS
<1>3. PICK node : node = Redirect(N[x], at, e)
  OBVIOUS
<1>4. node = [path |-> N[x].path, mod |-> N[x].mod, child |-> c]
  BY <1>2, <1>3, Zenon DEF Redirect
<1>5. node.path = N[x].path /\ node.mod = N[x].mod /\ node.child = c
  BY <1>4
<1>6. N[x].path \in Seq(Entry) /\ N[x].mod \in 0 .. VTKEY_NUM
  BY <1>1 DEF Node
<1>7. c \in [0 .. N[x].mod - 1 -> Nat]
  BY <1>1, <1>2
<1>8. c \in UNION { [0 .. m - 1 -> Nat] : m \in 0 .. VTKEY_NUM }
  BY <1>6, <1>7
<1>9. node \in Node
  BY <1>4, <1>6, <1>8 DEF Node
<1>10. Children(node) = Children(N[x])
  <2>1. DOMAIN node.child = 0 .. N[x].mod - 1 /\ DOMAIN N[x].child = 0 .. N[x].mod - 1
    BY <1>1, <1>5, <1>7
  <2>2. \A s \in 0 .. N[x].mod - 1 : node.child[s] # 0 <=> N[x].child[s] # 0
    BY <1>2, <1>5
  <2> QED
    BY <2>1, <2>2 DEF Children
<1>11. \A s \in Children(N[x]) : node.child[s] = IF N[x].child[s] = at THEN e ELSE N[x].child[s]
  BY <1>1, <1>2, <1>5 DEF Children
<1> QED
  BY <1>3, <1>5, <1>7, <1>9, <1>10, <1>11

(* What a child of a node is after the graft. *)
Became(N, M, at, e, graft) ==
  /\ e \in Nat /\ (e = 0 <=> at = 0) /\ at \in DOMAIN N
  /\ DOMAIN M = (DOMAIN N \ { at }) \cup DOMAIN graft
  /\ \A n \in DOMAIN graft : M[n] = graft[n] /\ n \notin DOMAIN N \ { at }
  /\ \A x \in DOMAIN N \ { at } :
       /\ x \notin DOMAIN graft
       /\ M[x] = Redirect(N[x], at, e)
       /\ M[x].path = N[x].path /\ M[x].mod = N[x].mod /\ Children(M[x]) = Children(N[x])
       /\ \A s \in Children(N[x]) :
            \/ N[x].child[s] = at /\ M[x].child[s] = e /\ at # 0
            \/ /\ N[x].child[s] \in DOMAIN N \ { at } /\ M[x].child[s] = N[x].child[s]
               /\ N[x].child[s] \notin Kids(N, at)

(***************************************************************************)
(* What became of each node: the grafted are new, the others point to the  *)
(* entry.                                                                  *)
(***************************************************************************)
LEMMA GraftedNode ==
  ASSUME NEW N, NEW pre, Shaped(N, pre), NEW at, NEW e, NEW graft, NEW q, Graft(N, pre, at, e, graft, q),
         NEW M, Grafted(N, M, at, e, graft)
  PROVE  Became(N, M, at, e, graft)
<1>1. e \in Nat /\ (e = 0 <=> at = 0) /\ at \in DOMAIN N
  BY DEF Graft, GraftTyped
<1>2. DOMAIN M = (DOMAIN N \ { at }) \cup DOMAIN graft
  BY DEF Grafted
<1>3. \A n \in DOMAIN graft : M[n] = graft[n] /\ n \notin DOMAIN N \ { at }
  BY DEF Grafted, Graft, GraftTyped
<1>4. ASSUME NEW x \in DOMAIN N \ { at }
      PROVE  /\ x \notin DOMAIN graft
             /\ M[x] = Redirect(N[x], at, e)
             /\ M[x].path = N[x].path /\ M[x].mod = N[x].mod /\ Children(M[x]) = Children(N[x])
             /\ \A s \in Children(N[x]) :
                   \/ N[x].child[s] = at /\ M[x].child[s] = e /\ at # 0
                   \/ /\ N[x].child[s] \in DOMAIN N \ { at } /\ M[x].child[s] = N[x].child[s]
                      /\ N[x].child[s] \notin Kids(N, at)
  <2>1. x \notin DOMAIN graft
    BY <1>3
  <2>2. M[x] = Redirect(N[x], at, e)
    BY <2>1 DEF Grafted
  <2>3. /\ M[x].path = N[x].path /\ M[x].mod = N[x].mod /\ Children(M[x]) = Children(N[x])
        /\ \A s \in Children(N[x]) : M[x].child[s] = IF N[x].child[s] = at THEN e ELSE N[x].child[s]
    BY <1>1, <2>2, RedirectIs DEF Shaped
  <2>4. ASSUME NEW s \in Children(N[x])
        PROVE  /\ N[x].child[s] \in DOMAIN N \ { 0 }
               /\ N[x].child[s] \notin Kids(N, at)
    BY <1>1 DEF Shaped, Placed, Once, Kids
  <2> QED
    BY <2>1, <2>2, <2>3, <2>4
<1> QED
  BY <1>1, <1>2, <1>3, <1>4 DEF Became

(* The nodes of the new tree are nodes, and their children where they belong. *)
LEMMA GraftTypedPlaced ==
  ASSUME NEW N, NEW pre, Shaped(N, pre), NEW at, NEW e, NEW graft, NEW q, Graft(N, pre, at, e, graft, q),
         NEW M, Grafted(N, M, at, e, graft)
  PROVE  Typed(M) /\ Placed(M)
<1>2. Became(N, M, at, e, graft)
  BY GraftedNode
<1> USE DEF Became
<1>3. e \in DOMAIN graft /\ IsFiniteSet(DOMAIN graft) /\ DOMAIN graft \subseteq Nat
  BY DEF Graft, GraftTyped
<1>4. Typed(N) /\ Placed(N)
  BY DEF Shaped
<1>5. Typed(M)
  <2>1. IsFiniteSet(DOMAIN M) /\ DOMAIN M \subseteq Nat
    <3>1. IsFiniteSet(DOMAIN N \ { at }) /\ DOMAIN N \subseteq Nat
      BY <1>4, FS_Difference DEF Typed
    <3>2. IsFiniteSet((DOMAIN N \ { at }) \cup DOMAIN graft)
      BY <1>3, <3>1, FS_Union
    <3> QED
      BY <1>2, <1>3, <3>1, <3>2
  <2>2. 0 \in DOMAIN M /\ M[0].mod = VTKEY_NUM
    <3>1. 0 \in DOMAIN N /\ N[0].mod = VTKEY_NUM
      BY <1>4 DEF Typed
    <3>2. CASE at = 0
      BY <1>2, <1>3, <3>2 DEF Graft, GraftTyped
    <3>3. CASE at # 0
      BY <1>2, <3>1, <3>3
    <3> QED
      BY <3>2, <3>3
  <2>3. ASSUME NEW x \in DOMAIN M
        PROVE  /\ M[x] \in Node /\ M[x].child \in [0 .. M[x].mod - 1 -> Nat]
               /\ M[x].mod # 1 /\ (M[x].path = << >> <=> x = 0)
    <3>1. CASE x \in DOMAIN graft
      <4>1. x = 0 <=> x = e /\ at = 0
        BY <3>1 DEF Graft, GraftTyped
      <4> QED
        BY <1>2, <3>1, <4>1 DEF Graft, GraftTyped
    <3>2. CASE x \in DOMAIN N \ { at }
      <4>1. N[x].mod # 1 /\ (N[x].path = << >> <=> x = 0)
        BY <1>4, <3>2 DEF Typed
      <4>2. M[x] \in Node /\ M[x].child \in [0 .. M[x].mod - 1 -> Nat]
        BY <1>2, <1>4, <3>2, RedirectIs
      <4> QED
        BY <1>2, <3>2, <4>1, <4>2
    <3> QED
      BY <1>2, <3>1, <3>2
  <2> QED
    BY <2>1, <2>2, <2>3 DEF Typed
<1>6. \A c \in DOMAIN graft : First(M, c) = First(graft, c)
  BY <1>2 DEF First
<1>7. \A c \in DOMAIN N \ { at } : First(M, c) = First(N, c)
  BY <1>2 DEF First
<1>8. Placed(M)
  <2> SUFFICES ASSUME NEW x \in DOMAIN M, NEW s \in Children(M[x])
               PROVE  M[x].child[s] \in DOMAIN M \ { 0 } /\ First(M, M[x].child[s]) % M[x].mod = s
    BY DEF Placed
  <2>1. CASE x \in DOMAIN graft
    <3>1. M[x] = graft[x]
      BY <1>2, <2>1
    <3> DEFINE c == graft[x].child[s]
    <3>2. \/ c \in DOMAIN graft \ { e } /\ First(graft, c) % graft[x].mod = s
          \/ c \in Kids(N, at) /\ First(N, c) % graft[x].mod = s
      BY <2>1, <3>1 DEF Graft, GraftLinked
    <3>3. CASE c \in DOMAIN graft \ { e } /\ First(graft, c) % graft[x].mod = s
      <4>1. c # 0
        BY <3>3 DEF Graft, GraftTyped
      <4> QED
        BY <1>2, <1>6, <3>1, <3>3, <4>1
    <3>4. CASE c \in Kids(N, at) /\ First(N, c) % graft[x].mod = s
      <4>1. c \in DOMAIN N \ { at } /\ c # 0
        BY <1>2, <3>4, NotItsChild
      <4> QED
        BY <1>2, <1>7, <3>1, <3>4, <4>1
    <3> QED
      BY <3>2, <3>3, <3>4
  <2>2. CASE x \in DOMAIN N \ { at }
    <3>1. s \in Children(N[x]) /\ M[x].mod = N[x].mod
      BY <1>2, <2>2
    <3>2. First(N, N[x].child[s]) % N[x].mod = s /\ N[x].child[s] \in DOMAIN N \ { 0 }
      BY <1>4, <2>2, <3>1 DEF Placed
    <3>3. CASE N[x].child[s] = at /\ M[x].child[s] = e /\ at # 0
      <4>1. First(M, e) = First(N, at)
        BY <1>3, <1>6, <3>3 DEF Graft, GraftTyped
      <4> QED
        BY <1>2, <1>3, <3>1, <3>2, <3>3, <4>1
    <3>4. CASE N[x].child[s] \in DOMAIN N \ { at } /\ M[x].child[s] = N[x].child[s]
      BY <1>2, <1>7, <3>1, <3>2, <3>4
    <3> QED
      BY <1>2, <2>2, <3>1, <3>3, <3>4
  <2> QED
    BY <1>2, <2>1, <2>2
<1> QED
  BY <1>5, <1>8

(* Every node but the root still has one pointer to it. *)
LEMMA GraftOnce ==
  ASSUME NEW N, NEW pre, Shaped(N, pre), NEW at, NEW e, NEW graft, NEW q, Graft(N, pre, at, e, graft, q),
         NEW M, Grafted(N, M, at, e, graft)
  PROVE  Once(M)
<1>2. Became(N, M, at, e, graft)
  BY GraftedNode
<1> USE DEF Became
<1>3. e \in DOMAIN graft /\ Kids(N, at) \subseteq DOMAIN N \ { at }
  BY <1>2, NotItsChild DEF Graft, GraftTyped
<1>4. ASSUME NEW x \in DOMAIN graft, NEW s \in Children(M[x])
      PROVE  /\ s \in Children(graft[x]) /\ M[x].child[s] = graft[x].child[s]
             /\ M[x].child[s] \in (DOMAIN graft \ { e }) \cup Kids(N, at)
  BY <1>2 DEF Graft, GraftLinked
<1>5. ASSUME NEW x \in DOMAIN M, NEW y \in DOMAIN M, NEW s \in Children(M[x]), NEW r \in Children(M[y]),
             M[x].child[s] = M[y].child[r]
      PROVE  x = y /\ s = r
  <2>1. CASE x \in DOMAIN graft /\ y \in DOMAIN graft
    BY <1>4, <1>5, <2>1 DEF Graft, GraftLinked
  <2>2. CASE x \in DOMAIN graft /\ y \in DOMAIN N \ { at }
    <3>1. M[x].child[s] \in (DOMAIN graft \ { e }) \cup Kids(N, at)
      BY <1>4, <2>2
    <3>2. M[y].child[r] = e \/ M[y].child[r] \in (DOMAIN N \ { at }) \ Kids(N, at)
      BY <1>2, <2>2
    <3> QED
      BY <1>2, <1>3, <1>5, <3>1, <3>2
  <2>3. CASE y \in DOMAIN graft /\ x \in DOMAIN N \ { at }
    <3>1. M[y].child[r] \in (DOMAIN graft \ { e }) \cup Kids(N, at)
      BY <1>4, <2>3
    <3>2. M[x].child[s] = e \/ M[x].child[s] \in (DOMAIN N \ { at }) \ Kids(N, at)
      BY <1>2, <2>3
    <3> QED
      BY <1>2, <1>3, <1>5, <3>1, <3>2
  <2>4. CASE x \in DOMAIN N \ { at } /\ y \in DOMAIN N \ { at }
    <3>1. s \in Children(N[x]) /\ r \in Children(N[y])
      BY <1>2, <2>4
    <3>2. N[x].child[s] = N[y].child[r]
      <4>1. \/ N[x].child[s] = at /\ M[x].child[s] = e
            \/ N[x].child[s] \in DOMAIN N \ { at } /\ M[x].child[s] = N[x].child[s]
        BY <1>2, <2>4, <3>1
      <4>2. \/ N[y].child[r] = at /\ M[y].child[r] = e
            \/ N[y].child[r] \in DOMAIN N \ { at } /\ M[y].child[r] = N[y].child[r]
        BY <1>2, <2>4, <3>1
      <4>3. e \notin DOMAIN N \ { at }
        BY <1>2, <1>3
      <4> QED
        BY <1>5, <4>1, <4>2, <4>3
    <3> QED
      BY <2>4, <3>1, <3>2 DEF Shaped, Once
  <2> QED
    BY <1>2, <2>1, <2>2, <2>3, <2>4
<1>6. ASSUME NEW b \in DOMAIN M \ { 0 }
      PROVE  \E x \in DOMAIN M : \E s \in Children(M[x]) : M[x].child[s] = b
  <2>1. CASE b \in (DOMAIN graft \ { e }) \cup Kids(N, at)
    <3>1. PICK n \in DOMAIN graft : \E s \in Children(graft[n]) : graft[n].child[s] = b
      BY <2>1 DEF Graft, GraftLinked
    <3> QED
      BY <1>2, <3>1
  <2>2. CASE b = e
    <3>1. at # 0
      BY <1>2, <2>2
    <3>2. PICK x \in DOMAIN N : \E s \in Children(N[x]) : N[x].child[s] = at
      BY <1>2, <3>1 DEF Shaped, Once
    <3>3. PICK s \in Children(N[x]) : N[x].child[s] = at
      BY <3>2
    <3>4. x # at
      <4>1. N[x].child[s] \in Kids(N, x)
        BY DEF Kids
      <4> QED
        BY <3>3, <4>1, NotItsChild
    <3> QED
      BY <1>2, <2>2, <3>3, <3>4
  <2>3. CASE b \in (DOMAIN N \ { at }) \ Kids(N, at)
    <3>1. PICK x \in DOMAIN N : \E s \in Children(N[x]) : N[x].child[s] = b
      BY <2>3 DEF Shaped, Once
    <3>2. PICK s \in Children(N[x]) : N[x].child[s] = b
      BY <3>1
    <3>3. x # at
      BY <2>3, <3>2 DEF Kids
    <3> QED
      BY <1>2, <2>3, <3>2, <3>3
  <2> QED
    BY <1>2, <2>1, <2>2, <2>3
<1> QED
  BY <1>5, <1>6 DEF Once

(* The characters that lead to a node lead there, and no array is longer than it must be. *)
LEMMA GraftSpelled ==
  ASSUME NEW N, NEW pre, Shaped(N, pre), NEW at, NEW e, NEW graft, NEW q, Graft(N, pre, at, e, graft, q),
         NEW M, Grafted(N, M, at, e, graft)
  PROVE  Spells(M, Led(N, pre, at, graft, q)) /\ Tight(M)
<1>1. PICK p : p = Led(N, pre, at, graft, q)
  OBVIOUS
<1>2. Became(N, M, at, e, graft)
  BY GraftedNode
<1> USE DEF Became
<1>3. e \in DOMAIN graft /\ Kids(N, at) \subseteq DOMAIN N \ { at }
  BY <1>2, NotItsChild DEF Graft, GraftTyped
<1>4. /\ DOMAIN p = DOMAIN M
      /\ \A n \in DOMAIN graft : p[n] = q[n]
      /\ \A x \in DOMAIN N \ { at } : p[x] = pre[x]
  BY <1>1, <1>2 DEF Led
<1>5. Spells(N, pre) /\ Tight(N)
  BY DEF Shaped
<1>6. p \in [DOMAIN M -> Seq(Char)]
  <2>1. \A x \in DOMAIN M : p[x] \in Seq(Char)
    BY <1>2, <1>4, <1>5 DEF Spells, Graft, GraftSpells
  <2>2. p = [x \in DOMAIN M |-> p[x]]
    BY <1>1, <1>2 DEF Led
  <2> QED
    BY <2>1, <2>2
<1>7. p[0] = << >>
  <2>1. pre[0] = << >>
    BY <1>5 DEF Spells
  <2>2. CASE at = 0
    BY <1>2, <1>3, <1>4, <2>1, <2>2 DEF Graft, GraftSpells
  <2>3. CASE at # 0
    <3>1. 0 \in DOMAIN N
      BY DEF Shaped, Typed
    <3> QED
      BY <1>4, <2>1, <2>3, <3>1
  <2> QED
    BY <2>2, <2>3
<1>8. ASSUME NEW x \in DOMAIN M PROVE Len(p[x]) + Len(M[x].path) <= MaxKeyLen
  <2>1. CASE x \in DOMAIN graft
    BY <1>2, <1>4, <2>1 DEF Graft, GraftSpells
  <2>2. CASE x \in DOMAIN N \ { at }
    BY <1>2, <1>4, <1>5, <2>2 DEF Spells
  <2> QED
    BY <1>2, <2>1, <2>2
<1>9. ASSUME NEW x \in DOMAIN M, NEW s \in Children(M[x])
      PROVE  Follows(p[x], M[x].path, p[M[x].child[s]])
  <2>1. CASE x \in DOMAIN graft
    <3>1. M[x] = graft[x] /\ p[x] = q[x]
      BY <1>2, <1>4, <2>1
    <3>2. PICK c : c = graft[x].child[s]
      OBVIOUS
    <3>3. \/ c \in DOMAIN graft /\ Follows(q[x], graft[x].path, q[c])
          \/ c \in Kids(N, at) /\ Follows(q[x], graft[x].path, pre[c])
      BY <2>1, <3>1, <3>2 DEF Graft, GraftLinked
    <3>4. c \in DOMAIN graft => p[c] = q[c]
      BY <1>4
    <3>5. c \in Kids(N, at) => p[c] = pre[c]
      BY <1>3, <1>4
    <3> QED
      BY <3>1, <3>2, <3>3, <3>4, <3>5
  <2>2. CASE x \in DOMAIN N \ { at }
    <3>1. s \in Children(N[x]) /\ p[x] = pre[x] /\ M[x].path = N[x].path
      BY <1>2, <1>4, <2>2
    <3>2. Follows(pre[x], N[x].path, pre[N[x].child[s]])
      BY <1>5, <2>2, <3>1 DEF Spells
    <3>3. CASE N[x].child[s] = at /\ M[x].child[s] = e
      <4>1. p[e] = q[e] /\ q[e] = pre[at]
        BY <1>3, <1>4 DEF Graft, GraftSpells
      <4> QED
        BY <3>1, <3>2, <3>3, <4>1
    <3>4. CASE N[x].child[s] \in DOMAIN N \ { at } /\ M[x].child[s] = N[x].child[s]
      BY <1>4, <3>1, <3>2, <3>4
    <3> QED
      BY <1>2, <2>2, <3>1, <3>3, <3>4
  <2> QED
    BY <1>2, <2>1, <2>2
<1>10. \A c \in DOMAIN graft : First(M, c) = First(graft, c)
  BY <1>2 DEF First
<1>11. \A c \in DOMAIN N \ { at } : First(M, c) = First(N, c)
  BY <1>2 DEF First
<1>12. ASSUME NEW x \in DOMAIN M \ { 0 }, NEW m \in 1 .. M[x].mod - 1 PROVE Clash(M, x, m)
  <2>1. CASE x \in DOMAIN graft
    <3>1. M[x] = graft[x]
      BY <1>2, <2>1
    <3>2. PICK s \in Children(graft[x]), r \in Children(graft[x]) :
            s # r /\ FirstOf(N, graft, graft[x].child[s]) % m = FirstOf(N, graft, graft[x].child[r]) % m
      BY <2>1, <3>1 DEF Graft, GraftTight
    <3>3. ASSUME NEW k \in Children(graft[x])
          PROVE  FirstOf(N, graft, graft[x].child[k]) = First(M, graft[x].child[k])
      <4>1. graft[x].child[k] \in DOMAIN graft \/ graft[x].child[k] \in Kids(N, at)
        BY <2>1 DEF Graft, GraftLinked
      <4> QED
        BY <1>2, <1>3, <1>10, <1>11, <4>1 DEF FirstOf
    <3> QED
      BY <3>1, <3>2, <3>3 DEF Clash
  <2>2. CASE x \in DOMAIN N \ { at }
    <3>1. M[x].mod = N[x].mod /\ Children(M[x]) = Children(N[x])
      BY <1>2, <2>2
    <3>2. PICK s \in Children(N[x]), r \in Children(N[x]) :
            s # r /\ First(N, N[x].child[s]) % m = First(N, N[x].child[r]) % m
      BY <1>5, <2>2, <3>1 DEF Tight, Clash
    <3>3. ASSUME NEW k \in Children(N[x])
          PROVE  First(M, M[x].child[k]) = First(N, N[x].child[k])
      <4>1. CASE N[x].child[k] = at /\ M[x].child[k] = e /\ at # 0
        BY <1>3, <1>10, <4>1 DEF Graft, GraftTyped
      <4>2. CASE N[x].child[k] \in DOMAIN N \ { at } /\ M[x].child[k] = N[x].child[k]
        BY <1>11, <4>2
      <4> QED
        BY <1>2, <2>2, <4>1, <4>2
    <3> QED
      BY <3>1, <3>2, <3>3 DEF Clash
  <2> QED
    BY <1>2, <2>1, <2>2
<1> QED
  BY <1>1, <1>6, <1>7, <1>8, <1>9, <1>12 DEF Spells, Tight

(* A graft keeps the shape of the trie. *)
LEMMA GraftShaped ==
  ASSUME NEW N, NEW pre, Shaped(N, pre), NEW at, NEW e, NEW graft, NEW q, Graft(N, pre, at, e, graft, q),
         NEW M, Grafted(N, M, at, e, graft)
  PROVE  Shaped(M, Led(N, pre, at, graft, q))
BY GraftTypedPlaced, GraftOnce, GraftSpelled DEF Shaped

(***************************************************************************)
(* The bytes the new nodes take: those the node had, those behind the      *)
(* last one, or, when the node is the last one, from its beginning on.     *)
(***************************************************************************)
New(graft) == [nodes |-> graft]

Room(t, at, graft, end, wasted) ==
  LET B(n) == Bytes(New(graft), n) IN
  /\ \A n \in DOMAIN graft :
       \/ at <= n /\ n + B(n) <= at + Bytes(t, at)
       \/ t.end <= n /\ n + B(n) <= end
       \/ at + Bytes(t, at) = t.end /\ at <= n /\ n + B(n) <= end
  /\ \A n, m \in DOMAIN graft : n < m => n + B(n) <= m
  /\ t.end <= end
  /\ Total(SizeOf(New(graft)), DOMAIN graft) + wasted <= Bytes(t, at) + t.wasted + (end - t.end)

(* The new nodes have their bytes, the others theirs. *)
KeepsBytes(t, u, at, graft) ==
  /\ \A n \in DOMAIN graft :
       /\ Bytes(u, n) = Bytes(New(graft), n) /\ Bytes(u, n) \in Nat /\ Bytes(u, n) > 0
       /\ SizeOf(New(graft))[n] = Bytes(u, n) /\ SizeOf(u)[n] = Bytes(u, n)
  /\ \A x \in DOMAIN t.nodes \ { at } :
       Bytes(u, x) = Bytes(t, x) /\ SizeOf(u)[x] = Bytes(t, x) /\ SizeOf(t)[x] = Bytes(t, x)
  /\ \A x \in DOMAIN t.nodes : Bytes(t, x) \in Nat /\ Bytes(t, x) > 0

(* A graft changes the sizes of no other node. *)
LEMMA GraftBytes ==
  ASSUME NEW t, NEW pre, Sound(t, pre), NEW at, NEW e, NEW graft, NEW q, Graft(t.nodes, pre, at, e, graft, q),
         NEW u, Grafted(t.nodes, u.nodes, at, e, graft)
  PROVE  KeepsBytes(t, u, at, graft)
<1>1. Shaped(t.nodes, pre)
  BY DEF Sound, Shaped
<1>2. Became(t.nodes, u.nodes, at, e, graft)
  BY <1>1, GraftedNode
<1>3. Typed(t.nodes) /\ Typed(u.nodes)
  BY <1>1, GraftShaped DEF Shaped
<1>4. ASSUME NEW n \in DOMAIN graft
      PROVE  /\ Bytes(u, n) = Bytes(New(graft), n) /\ Bytes(u, n) \in Nat /\ Bytes(u, n) > 0
             /\ SizeOf(New(graft))[n] = Bytes(u, n) /\ SizeOf(u)[n] = Bytes(u, n)
  <2>1. n \in DOMAIN u.nodes /\ u.nodes[n] = graft[n]
    BY <1>2 DEF Became
  <2>2. New(graft).nodes = graft
    BY DEF New
  <2>3. Bytes(u, n) \in Nat /\ Bytes(u, n) > 0
    BY <1>3, <2>1, Sizes
  <2>4. Bytes(u, n) = Bytes(New(graft), n)
    BY <2>1, <2>2 DEF Bytes
  <2> QED
    BY <2>1, <2>2, <2>3, <2>4 DEF SizeOf
<1>5. ASSUME NEW x \in DOMAIN t.nodes \ { at }
      PROVE  Bytes(u, x) = Bytes(t, x) /\ SizeOf(u)[x] = Bytes(t, x) /\ SizeOf(t)[x] = Bytes(t, x)
  <2>1. x \in DOMAIN u.nodes /\ u.nodes[x].path = t.nodes[x].path /\ u.nodes[x].mod = t.nodes[x].mod
    BY <1>2 DEF Became
  <2>2. Bytes(u, x) = Bytes(t, x)
    BY <2>1 DEF Bytes, NodeBytes
  <2> QED
    BY <2>1, <2>2 DEF SizeOf
<1>6. \A x \in DOMAIN t.nodes : Bytes(t, x) \in Nat /\ Bytes(t, x) > 0
  BY <1>3, Sizes
<1> QED
  BY <1>4, <1>5, <1>6 DEF KeepsBytes

(* With room for its nodes, a graft leaves the nodes apart. *)
LEMMA GraftApart ==
  ASSUME NEW t, NEW pre, Sound(t, pre), NEW at, NEW e, NEW graft, NEW q, Graft(t.nodes, pre, at, e, graft, q),
         NEW u, Grafted(t.nodes, u.nodes, at, e, graft), u.end \in Nat, u.wasted \in Nat,
         Room(t, at, graft, u.end, u.wasted)
  PROVE  Apart(u)
<1>1. Became(t.nodes, u.nodes, at, e, graft)
  BY GraftedNode DEF Sound, Shaped
<1>2. /\ DOMAIN u.nodes = (DOMAIN t.nodes \ { at }) \cup DOMAIN graft /\ at \in DOMAIN t.nodes
      /\ DOMAIN graft \subseteq Nat /\ DOMAIN t.nodes \subseteq Nat
  BY <1>1 DEF Became, Sound, Typed, Graft, GraftTyped
<1>3. /\ \A n \in DOMAIN graft : Bytes(u, n) = Bytes(New(graft), n) /\ Bytes(u, n) \in Nat /\ Bytes(u, n) > 0
      /\ \A x \in DOMAIN t.nodes \ { at } : Bytes(u, x) = Bytes(t, x)
      /\ \A x \in DOMAIN t.nodes : Bytes(t, x) \in Nat /\ Bytes(t, x) > 0
  <2>1. KeepsBytes(t, u, at, graft)
    BY GraftBytes
  <2> QED
    BY <2>1 DEF KeepsBytes
<1>4. Apart(t) /\ t.end \in Nat /\ t.end <= u.end
  BY DEF Sound, Fits, IsTrie, Room
<1>5. ASSUME NEW n \in DOMAIN graft
      PROVE  \/ at <= n /\ n + Bytes(u, n) <= at + Bytes(t, at)
             \/ t.end <= n /\ n + Bytes(u, n) <= u.end
             \/ at + Bytes(t, at) = t.end /\ at <= n /\ n + Bytes(u, n) <= u.end
  BY <1>3 DEF Room
<1>6. ASSUME NEW x \in DOMAIN u.nodes PROVE x + Bytes(u, x) <= u.end
  <2>1. CASE x \in DOMAIN graft
    <3>1. at + Bytes(t, at) <= t.end
      BY <1>2, <1>4 DEF Apart
    <3> QED
      BY <1>2, <1>3, <1>4, <1>5, <2>1, <3>1
  <2>2. CASE x \in DOMAIN t.nodes \ { at }
    <3>1. x + Bytes(t, x) <= t.end
      BY <1>4, <2>2 DEF Apart
    <3> QED
      BY <1>2, <1>3, <1>4, <2>2, <3>1
  <2> QED
    BY <1>2, <2>1, <2>2
<1>7. ASSUME NEW x \in DOMAIN t.nodes \ { at }, NEW n \in DOMAIN graft
      PROVE  x + Bytes(u, x) <= n \/ n + Bytes(u, n) <= x
  <2>1. PICK b, d, l : b = Bytes(t, x) /\ d = Bytes(t, at) /\ l = Bytes(u, n)
    OBVIOUS
  <2>2. Bytes(u, x) = b /\ b \in Nat /\ d \in Nat /\ l \in Nat /\ b > 0 /\ d > 0 /\ l > 0
    BY <1>2, <1>3, <2>1
  <2>3. x \in Nat /\ at \in Nat /\ n \in Nat /\ x # at
    BY <1>2
  <2>4. x + b <= t.end /\ at + d <= t.end /\ (x < at => x + b <= at) /\ (at < x => at + d <= x)
    BY <1>2, <1>4, <2>1 DEF Apart
  <2>5. \/ at <= n /\ n + l <= at + d
        \/ t.end <= n /\ n + l <= u.end
        \/ at + d = t.end /\ at <= n /\ n + l <= u.end
    BY <1>5, <2>1
  <2>6. x + b <= n \/ n + l <= x
    BY <1>4, <2>2, <2>3, <2>4, <2>5
  <2> QED
    BY <2>1, <2>2, <2>6
<1>8. ASSUME NEW x \in DOMAIN u.nodes, NEW y \in DOMAIN u.nodes, x < y PROVE x + Bytes(u, x) <= y
  <2>0. x \in Nat /\ y \in Nat /\ Bytes(u, x) \in Nat /\ Bytes(u, y) \in Nat
    BY <1>2, <1>3
  <2>1. CASE x \in DOMAIN graft /\ y \in DOMAIN graft
    BY <1>3, <1>8, <2>1 DEF Room
  <2>2. CASE x \in DOMAIN graft /\ y \in DOMAIN t.nodes \ { at }
    BY <1>7, <1>8, <2>0, <2>2
  <2>3. CASE x \in DOMAIN t.nodes \ { at } /\ y \in DOMAIN graft
    BY <1>7, <1>8, <2>0, <2>3
  <2>4. CASE x \in DOMAIN t.nodes \ { at } /\ y \in DOMAIN t.nodes \ { at }
    BY <1>3, <1>4, <1>8, <2>4 DEF Apart
  <2> QED
    BY <1>2, <2>1, <2>2, <2>3, <2>4
<1> QED
  BY <1>6, <1>8 DEF Apart

(* With room for its nodes, a graft leaves the waste sound. *)
LEMMA GraftWeight ==
  ASSUME NEW t, NEW pre, Sound(t, pre), NEW at, NEW e, NEW graft, NEW q, Graft(t.nodes, pre, at, e, graft, q),
         NEW u, Grafted(t.nodes, u.nodes, at, e, graft), u.end \in Nat, u.wasted \in Nat,
         Room(t, at, graft, u.end, u.wasted)
  PROVE  Weight(u) + u.wasted <= u.end
<1>1. Became(t.nodes, u.nodes, at, e, graft)
  BY GraftedNode DEF Sound, Shaped
<1> DEFINE G == DOMAIN graft
           O == DOMAIN t.nodes \ { at }
           new == SizeOf(New(graft))
           old == SizeOf(t)
           now == SizeOf(u)
<1>2. DOMAIN u.nodes = O \cup G /\ O \cap G = {} /\ at \in DOMAIN t.nodes /\ O \cup { at } = DOMAIN t.nodes /\ at \notin O
  BY <1>1 DEF Became
<1>3. IsFiniteSet(O) /\ IsFiniteSet(G)
  BY FS_Difference DEF Sound, Typed, Graft, GraftTyped
<1>13. KeepsBytes(t, u, at, graft)
  BY GraftBytes
<1>4. \A n \in G : now[n] = new[n] /\ now[n] \in Nat
  BY <1>13 DEF KeepsBytes
<1>5. \A x \in O : now[x] = old[x] /\ old[x] \in Nat
  BY <1>13 DEF KeepsBytes
<1>6. old[at] = Bytes(t, at) /\ old[at] \in Nat
  BY <1>2, Sizes DEF Sound
<1>7. Weight(t) = Total(old, O) + old[at]
  <2> HIDE DEF old, O
  <2>1. Total(old, O \cup { at }) = Total(old, O) + old[at]
    BY <1>2, <1>3, <1>5, <1>6, TotalAdd
  <2>2. Weight(t) = Total(old, O \cup { at })
    BY <1>2, Zenon DEF Weight, old
  <2> QED
    BY <2>1, <2>2
<1>8. Weight(u) = Total(now, O) + Total(now, G)
  <2> HIDE DEF now, O, G
  <2>1. Total(now, O \cup G) = Total(now, O) + Total(now, G)
    BY <1>2, <1>3, <1>4, <1>5, TotalSplit
  <2>2. Weight(u) = Total(now, O \cup G)
    BY <1>2, Zenon DEF Weight, now
  <2> QED
    BY <2>1, <2>2
<1>9. Total(now, O) = Total(old, O) /\ Total(now, G) = Total(new, G)
  <2> HIDE DEF now, old, new, O, G
  <2> QED
    BY <1>4, <1>5, TotalSame
<1>10. Total(now, O) \in Nat /\ Total(now, G) \in Nat
  <2> HIDE DEF now, O, G
  <2> QED
    BY <1>3, <1>4, <1>5, CellsFinite
<1>11. Total(new, G) + u.wasted <= Bytes(t, at) + t.wasted + (u.end - t.end)
  BY DEF Room
<1>12. Weight(t) + t.wasted <= t.end /\ t.end \in Nat /\ t.wasted \in Nat
  BY DEF Sound, Fits, IsTrie
<1> HIDE DEF now, old, new, O, G
<1> QED
  BY <1>6, <1>7, <1>8, <1>9, <1>10, <1>11, <1>12

(* What an insertion has to show. *)
LEMMA GraftSound ==
  ASSUME NEW t, NEW pre, Sound(t, pre), NEW at, NEW e, NEW graft, NEW q, Graft(t.nodes, pre, at, e, graft, q),
         NEW u, Grafted(t.nodes, u.nodes, at, e, graft), IsTrie(u),
         Room(t, at, graft, u.end, u.wasted), u.end <= u.size
  PROVE  Sound(u, Led(t.nodes, pre, at, graft, q)) /\ u.end > 0
<1>1. Shaped(u.nodes, Led(t.nodes, pre, at, graft, q))
  BY GraftShaped DEF Sound, Shaped
<1>2. u.end \in Nat /\ u.wasted \in Nat
  BY DEF IsTrie
<1>3. Apart(u)
  BY <1>2, GraftApart
<1>4. Weight(u) + u.wasted <= u.end
  BY <1>2, GraftWeight
<1>5. u.end > 0
  <2>1. 0 \in DOMAIN u.nodes /\ Typed(u.nodes)
    BY <1>1 DEF Shaped, Typed
  <2>2. Bytes(u, 0) > 0 /\ Bytes(u, 0) \in Nat
    BY <2>1, Sizes
  <2>3. 0 + Bytes(u, 0) <= u.end
    BY <1>3, <2>1 DEF Apart
  <2> QED
    BY <1>2, <2>2, <2>3
<1> QED
  BY <1>1, <1>3, <1>4, <1>5 DEF Sound, Shaped, Fits
-----------------------------------------------------------------------------
(* Making room. *)

Ready(t) == t.end > 0 /\ t.size - t.end > MIN_REMAIN

Unborn(t) == t = [nodes |-> << >>, value |-> t.value, more |-> FALSE, end |-> 0, wasted |-> 0, size |-> 0]

(* The sizes, with the constants of the node's layout put in. *)
LEMMA SizesAre ==
  /\ Header \in Nat /\ Header > 0 /\ INCRE_SIZE > Header + MIN_REMAIN
  /\ MIN_REMAIN + 1 >= 4 + 5 * (MaxKeyLen + VTKEY_NUM)
  /\ INCRE_SIZE \in Nat /\ MIN_REMAIN \in Nat
<1>1. Header \in Nat /\ Header > 0
  BY CodesAssumption DEF Header, VALUE_L, VTCHILDS_L, VTPTR_L
<1>2. MIN_REMAIN + 1 >= 4 + 5 * (MaxKeyLen + VTKEY_NUM)
  BY SizesAssumption DEF VTSAMEPS_L, VTCHILDS_L, VTENTRY_L
<1> QED
  BY <1>1, <1>2, SizesAssumption, NatAssumption

(* A trie that was begun is a root with nothing below. *)
LEMMA BornSound ==
  ASSUME NEW t, t.nodes = [a \in { 0 } |-> Root], t.end = Header, t.wasted = 0, t.size \in Nat, t.size >= Header,
         t = [nodes |-> t.nodes, value |-> t.value, more |-> t.more,
              end |-> t.end, wasted |-> t.wasted, size |-> t.size]
  PROVE  Sound(t, [a \in { 0 } |-> << >>])
<1>1. PICK N, pre : N = t.nodes /\ pre = [a \in { 0 } |-> << >>]
  OBVIOUS
<1>2. DOMAIN N = { 0 } /\ N[0] = Root /\ DOMAIN pre = { 0 } /\ pre[0] = << >>
  BY <1>1
<1>3. /\ Root.path = << >> /\ Root.mod = VTKEY_NUM /\ Root.child = [s \in 0 .. VTKEY_NUM - 1 |-> 0]
      /\ Root = [path |-> << >>, mod |-> VTKEY_NUM, child |-> Root.child]
  BY DEF Root
<1>4. Children(Root) = {}
  BY <1>3 DEF Children
<1>5. Root.child \in [0 .. VTKEY_NUM - 1 -> Nat] /\ VTKEY_NUM \in 0 .. VTKEY_NUM /\ VTKEY_NUM # 1
  BY <1>3, CodesAssumption
<1>6. Root \in Node
  <2>1. << >> \in Seq(Entry)
    OBVIOUS
  <2>2. Root.child \in UNION { [0 .. m - 1 -> Nat] : m \in 0 .. VTKEY_NUM }
    BY <1>5
  <2> QED
    BY <1>3, <1>5, <2>1, <2>2 DEF Node
<1>7. Typed(N)
  <2>1. IsFiniteSet({ 0 })
    BY FS_Singleton
  <2> QED
    BY <1>2, <1>3, <1>5, <1>6, <2>1 DEF Typed
<1>8. Placed(N) /\ Once(N) /\ Tight(N)
  BY <1>2, <1>4 DEF Placed, Once, Tight
<1>9. Spells(N, pre)
  <2>1. pre \in [DOMAIN N -> Seq(Char)]
    BY <1>1, <1>2
  <2>2. Len(pre[0]) + Len(N[0].path) <= MaxKeyLen
    BY <1>2, <1>3, NatAssumption
  <2> QED
    BY <1>2, <1>4, <2>1, <2>2 DEF Spells
<1>10. Apart(t) /\ SizeOf(t)[0] = Header
  <2>1. Bytes(t, 0) = Header
    BY DEF Bytes
  <2> QED
    BY <1>1, <1>2, <2>1, SizesAre DEF Apart, SizeOf
<1>11. Weight(t) = Header
  <2>1. Total(SizeOf(t), { 0 }) = SizeOf(t)[0]
    BY <1>10, SizesAre, TotalOne
  <2> QED
    BY <1>1, <1>2, <1>10, <2>1, Zenon DEF Weight
<1>12. Fits(t)
  BY <1>10, <1>11, SizesAre DEF Fits
<1>13. IsTrie(t)
  BY SizesAre DEF IsTrie
<1> QED
  BY <1>1, <1>7, <1>8, <1>9, <1>12, <1>13 DEF Sound

(* The first call of ensureDataLength makes a sound trie, with room. *)
LEMMA EnsureBorn ==
  ASSUME NEW t, Unborn(t)
  PROVE  LET u == ensureDataLength(t) IN
         /\ Sound(u, [a \in { 0 } |-> << >>]) /\ Ready(u) /\ u.value = t.value /\ ~u.more
<1>1. t.wasted = 0 /\ t.end = 0 /\ t.size = 0 /\ t.nodes = << >> /\ ~t.more
  BY DEF Unborn
<1>2. optimize(t) = t
  BY <1>1 DEF optimize
<1>3. PICK u : u = ensureDataLength(t)
  OBVIOUS
<1>4. ~(t.size - t.end > MIN_REMAIN)
  BY <1>1, SizesAre
<1>5. (t.size * 3) \div 2 + INCRE_SIZE = INCRE_SIZE
  BY <1>1, SizesAre
<1>6. u = [t EXCEPT !.size = (t.size * 3) \div 2 + INCRE_SIZE, !.end = Header, !.nodes = [a \in { 0 } |-> Root]]
  BY <1>1, <1>2, <1>3, <1>4 DEF ensureDataLength
<1>7. u = [nodes |-> [a \in { 0 } |-> Root], value |-> t.value, more |-> FALSE, end |-> Header,
           wasted |-> 0, size |-> INCRE_SIZE]
  <2>1. PICK v, r : v = t.value /\ r = [a \in { 0 } |-> Root]
    OBVIOUS
  <2>2. t = [nodes |-> << >>, value |-> v, more |-> FALSE, end |-> 0, wasted |-> 0, size |-> 0]
    BY <2>1 DEF Unborn
  <2>3. u = [t EXCEPT !.size = INCRE_SIZE, !.end = Header, !.nodes = r]
    BY <1>5, <1>6, <2>1, Zenon
  <2>4. u = [nodes |-> r, value |-> v, more |-> FALSE, end |-> Header, wasted |-> 0, size |-> INCRE_SIZE]
    BY <2>2, <2>3
  <2> QED
    BY <2>1, <2>4, Zenon
<1>8. Sound(u, [a \in { 0 } |-> << >>])
  <2>1. u.nodes = [a \in { 0 } |-> Root] /\ u.end = Header /\ u.wasted = 0 /\ u.size = INCRE_SIZE
    BY <1>7
  <2>2. INCRE_SIZE \in Nat /\ INCRE_SIZE >= Header
    BY SizesAre
  <2> QED
    BY <1>7, <2>1, <2>2, BornSound
<1>9. Ready(u)
  BY <1>7, SizesAre DEF Ready
<1> QED
  BY <1>3, <1>7, <1>8, <1>9

(* A trie that stays as it is has moved, trivially. *)
LEMMA MovedSelf ==
  ASSUME NEW N, NEW pre
  PROVE  \E P : Moved(N, pre, N, pre, P)
<1>1. Moved(N, pre, N, pre, [a \in DOMAIN N |-> a])
  BY DEF Moved
<1> QED
  BY <1>1

(***************************************************************************)
(* ensureDataLength keeps the trie sound and makes room, whether it        *)
(* compacts the block, lets it grow or does neither.                       *)
(***************************************************************************)
LEMMA EnsureSound ==
  ASSUME NEW t0, NEW pre, Sound(t0, pre), t0.end > 0
  PROVE  \E pre2, P : LET u == ensureDataLength(t0) IN
           /\ Sound(u, pre2) /\ Ready(u) /\ u.value = t0.value /\ u.more = t0.more
           /\ Moved(t0.nodes, pre, u.nodes, pre2, P)
<1>1. PICK t : t = IF 10 * t0.wasted > Tenths * t0.size THEN optimize(t0) ELSE t0
  OBVIOUS
<1>2. PICK pre2, P : /\ Sound(t, pre2) /\ t.end # 0 /\ t.value = t0.value /\ t.more = t0.more
                     /\ Moved(t0.nodes, pre, t.nodes, pre2, P)
  <2>1. CASE t = optimize(t0)
    BY <2>1, OptimizeSound
  <2>2. CASE t = t0
    BY <2>2, MovedSelf
  <2> QED
    BY <1>1, <2>1, <2>2
<1>3. PICK u : u = ensureDataLength(t0)
  OBVIOUS
<1>4. u = IF t.size - t.end > MIN_REMAIN THEN t ELSE [t EXCEPT !.size = (t.size * 3) \div 2 + INCRE_SIZE]
  BY <1>1, <1>2, <1>3, Zenon DEF ensureDataLength
<1>5. IsTrie(t) /\ t.end \in Nat /\ t.size \in Nat /\ t.end <= t.size
  BY <1>2 DEF Sound, IsTrie, Fits
<1>6. CASE t.size - t.end > MIN_REMAIN
  <2>1. u = t /\ Ready(t)
    BY <1>2, <1>4, <1>5, <1>6 DEF Ready
  <2> QED
    BY <1>2, <1>3, <2>1
<1>7. CASE ~(t.size - t.end > MIN_REMAIN)
  <2>1. PICK n : n = (t.size * 3) \div 2 + INCRE_SIZE
    OBVIOUS
  <2>2. n \in Nat /\ n >= t.size + INCRE_SIZE
    BY <1>5, <2>1, SizesAre
  <2>3. u = [t EXCEPT !.size = n]
    BY <1>4, <1>7, <2>1
  <2>4. /\ u.nodes = t.nodes /\ u.value = t.value /\ u.more = t.more /\ u.end = t.end /\ u.wasted = t.wasted
        /\ u.size = n /\ IsTrie(u)
    BY <1>5, <2>2, <2>3 DEF IsTrie
  <2>5. Ready(u)
    BY <1>2, <1>5, <2>2, <2>4, SizesAre DEF Ready
  <2>6. \A a \in DOMAIN t.nodes : Bytes(u, a) = Bytes(t, a)
    BY <2>4 DEF Bytes
  <2>7. Fits(u)
    <3>1. SizeOf(u) = SizeOf(t)
      BY <2>4, <2>6 DEF SizeOf
    <3>2. Weight(u) = Weight(t)
      BY <2>4, <3>1 DEF Weight
    <3>3. Apart(u)
      BY <1>2, <2>4, <2>6 DEF Sound, Fits, Apart
    <3>4. Weight(t) + t.wasted <= t.end
      BY <1>2 DEF Sound, Fits
    <3> QED
      BY <1>5, <2>2, <2>4, <3>2, <3>3, <3>4, SizesAre DEF Fits
  <2>8. Sound(u, pre2)
    BY <1>2, <2>4, <2>7 DEF Sound
  <2> QED
    BY <1>2, <1>3, <2>4, <2>5, <2>8
<1> QED
  BY <1>6, <1>7
-----------------------------------------------------------------------------
(* Under the smallest modulus the codes are apart, and under no smaller one. *)

(* What the proofs use of remainders. *)
LEMMA Remainder ==
  /\ \A c \in Nat, n \in Nat : n > 0 => c % n \in 0 .. n - 1
  /\ \A c \in Nat, n \in Nat : c < n => c % n = c
  /\ \A c \in Nat : c % 1 = 0
<1>1. ASSUME NEW c \in Nat, NEW n \in Nat, n > 0 PROVE c % n \in 0 .. n - 1
  BY <1>1
<1>2. ASSUME NEW c \in Nat, NEW n \in Nat, c < n PROVE c % n = c
  BY <1>2
<1>3. ASSUME NEW c \in Nat PROVE c % 1 = 0
  OBVIOUS
<1> QED
  BY <1>1, <1>2, <1>3

(* A set of codes that is not empty has a largest one. *)
LEMMA MaxOfChars ==
  ASSUME NEW codes, codes \subseteq Char, codes # {}
  PROVE  Max(codes) \in codes /\ \A c \in codes : c <= Max(codes)
<1> DEFINE S == { VTKEY_NUM - c : c \in codes }
<1>0. ASSUME NEW c \in codes PROVE c \in Nat /\ VTKEY_NUM - c \in Nat
  <2>1. c \in Char
    OBVIOUS
  <2> QED
    BY <2>1, CodesAssumption DEF Char
<1>1. S \in SUBSET Nat /\ S # {}
  BY <1>0
<1>2. PICK n \in S : \A m \in S : n <= m
  <2> HIDE DEF S
  <2> QED
    BY <1>1, LeastElement
<1>3. PICK b \in codes : n = VTKEY_NUM - b
  BY <1>2
<1>4. ASSUME NEW c \in codes PROVE b >= c
  <2>1. n <= VTKEY_NUM - c
    BY <1>2
  <2>2. b \in Nat /\ c \in Nat
    BY <1>0
  <2> QED
    BY <1>3, <2>1, <2>2, CodesAssumption
<1>5. Max(codes) \in codes /\ \A c \in codes : Max(codes) >= c
  BY <1>4 DEF Max
<1> QED
  BY <1>0, <1>5

(* A set of codes is finite. *)
LEMMA CharsFinite ==
  ASSUME NEW codes, codes \subseteq Char
  PROVE  IsFiniteSet(codes) /\ Cardinality(codes) \in Nat
<1>1. IsFiniteSet(Char)
  BY CodesAssumption, FS_Interval DEF Char
<1> QED
  BY <1>1, FS_Subset, FS_CardinalityType

(* Codes that outnumber the slots share one. *)
LEMMA TooFew ==
  ASSUME NEW codes, codes \subseteq Char, NEW m \in Nat, m > 0, m < Cardinality(codes)
  PROVE  \E c, d \in codes : c # d /\ c % m = d % m
<1> DEFINE T == 0 .. m - 1
           f == [c \in codes |-> c % m]
<1>1. IsFiniteSet(codes)
  BY CharsFinite
<1>2. IsFiniteSet(T) /\ Cardinality(T) = m
  BY FS_Interval
<1>3. f \in [codes -> T]
  BY Remainder DEF Char
<1>4. \E c, d \in codes : c # d /\ f[c] = f[d]
  <2> HIDE DEF T, f
  <2> QED
    BY <1>1, <1>2, <1>3, FS_PigeonHole
<1> QED
  BY <1>4

(* getModMinSize returns the least modulus that tells the codes apart. *)
LEMMA ModMinSize ==
  ASSUME NEW codes, codes \subseteq Char, NEW c0 \in codes, NEW d0 \in codes, c0 # d0
  PROVE  LET m == getModMinSize(codes) IN
         /\ m \in 2 .. VTKEY_NUM
         /\ \A c, d \in codes : c # d => c % m # d % m
         /\ \A k \in 1 .. m - 1 : \E c, d \in codes : c # d /\ c % k = d % k
<1> DEFINE apart(k) == \A c, d \in codes : c # d => c % k # d % k
<1>1. PICK max : max = Max(codes) + 1
  OBVIOUS
<1>2. PICK n : n = Cardinality(codes)
  OBVIOUS
<1>3. PICK fits : fits = { k \in n .. max - 1 : apart(k) }
  OBVIOUS
<1>4. PICK m : m = getModMinSize(codes)
  OBVIOUS
<1>5. m = IF fits = {} THEN max ELSE Min(fits)
  BY <1>1, <1>2, <1>3, <1>4 DEF getModMinSize
<1>6. max \in 2 .. VTKEY_NUM /\ \A c \in codes : c < max
  <2>1. PICK x : x = Max(codes)
    OBVIOUS
  <2>2. x \in codes /\ \A c \in codes : c <= x
    BY <2>1, MaxOfChars
  <2>3. \A c \in codes : c \in 0 .. VTKEY_NUM - 1
    BY DEF Char
  <2>4. x \in 0 .. VTKEY_NUM - 1
    BY <2>2, <2>3
  <2>5. x # 0
    <3>1. c0 <= x /\ d0 <= x /\ c0 \in 0 .. VTKEY_NUM - 1 /\ d0 \in 0 .. VTKEY_NUM - 1
      BY <2>2, <2>3
    <3> QED
      BY <3>1, CodesAssumption
  <2>6. max \in 2 .. VTKEY_NUM
    BY <1>1, <2>1, <2>4, <2>5, CodesAssumption
  <2>7. \A c \in codes : c < x + 1
    BY <2>2, <2>3, <2>4, CodesAssumption
  <2> QED
    BY <1>1, <2>1, <2>6, <2>7
<1>7. n \in Nat /\ n > 0
  BY <1>2, CharsFinite, FS_EmptySet
<1>8. \A c \in codes : c \in Nat
  BY CodesAssumption DEF Char
<1>9. apart(max)
  BY <1>6, <1>8, Remainder
<1>10. ~apart(1)
  BY <1>8, Remainder
<1>11. /\ m \in Nat /\ m > 0 /\ m <= max /\ apart(m)
       /\ \A k \in n .. m - 1 : ~apart(k)
  <2>1. CASE fits = {}
    <3>1. m = max
      BY <1>5, <2>1
    <3>2. \A k \in n .. m - 1 : ~apart(k)
      BY <1>3, <2>1, <3>1
    <3> QED
      BY <1>6, <1>9, <3>1, <3>2
  <2>2. CASE fits # {}
    <3>1. fits \in SUBSET Nat
      BY <1>3, <1>6, <1>7
    <3>2. \E x \in fits : \A y \in fits : x <= y
      BY <2>2, <3>1, LeastElement
    <3>3. m \in fits /\ \A y \in fits : m <= y
      BY <1>5, <2>2, <3>2 DEF Min
    <3>4. m \in n .. max - 1 /\ apart(m)
      BY <1>3, <3>3
    <3>5. ASSUME NEW k \in n .. m - 1, apart(k) PROVE FALSE
      <4>1. k \in n .. max - 1
        BY <1>6, <1>7, <3>4
      <4>2. k \in fits
        BY <1>3, <3>5, <4>1
      <4> QED
        BY <1>7, <3>3, <3>4, <4>2
    <3> HIDE DEF apart
    <3> QED
      BY <1>6, <1>7, <3>4, <3>5
  <2> HIDE DEF apart
  <2> QED
    BY <2>1, <2>2
<1>12. m # 1
  BY <1>10, <1>11
<1>13. m \in 2 .. VTKEY_NUM
  BY <1>6, <1>11, <1>12, CodesAssumption
<1>14. ASSUME NEW k \in 1 .. m - 1 PROVE \E c, d \in codes : c # d /\ c % k = d % k
  <2>1. CASE k < n
    BY <1>2, <1>11, <2>1, TooFew
  <2>2. CASE ~(k < n)
    <3>1. k \in n .. m - 1
      BY <1>7, <1>11, <2>2
    <3> QED
      BY <1>11, <3>1
  <2> QED
    BY <2>1, <2>2
<1> QED
  BY <1>4, <1>11, <1>13, <1>14
-----------------------------------------------------------------------------
(***************************************************************************)
(* The walk of insert.  It repeats a step while the key goes on, so what   *)
(* it gives is what the place gives where the steps end.                   *)
(***************************************************************************)
Solvable(X, G, S, O) == \E g : g = [x \in X |-> IF x \in G THEN g[S[x]] ELSE O[x]]

(* A tail recursion that descends has a solution, and it is the only one. *)
LEMMA TailRecursion ==
  ASSUME NEW X, NEW G \in SUBSET X, NEW S \in [G -> X], NEW O
  PROVE  Solvable(X, G, S, O)
<1> DEFINE ClosedIn(Y) == \A y \in Y : y \in G => S[y] \in Y
           Reach(x) == { y \in X : \A Y \in SUBSET X : x \in Y /\ ClosedIn(Y) => y \in Y }
           Ends(x) == Reach(x) \ G
           g == [x \in X |-> O[CHOOSE y : y \in Ends(x)]]
<1>1. ASSUME NEW x \in X PROVE x \in Reach(x) /\ Reach(x) \in SUBSET X /\ ClosedIn(Reach(x))
  OBVIOUS
<1>2. ASSUME NEW x \in X, NEW Y \in SUBSET X, x \in Y, ClosedIn(Y) PROVE Reach(x) \subseteq Y
  BY <1>2
<1>3. ASSUME NEW x \in X, x \notin G PROVE (CHOOSE y : y \in Ends(x)) = x
  <2>1. ClosedIn({ x }) /\ { x } \in SUBSET X
    BY <1>3
  <2>2. Reach(x) \subseteq { x }
    <3> HIDE DEF Reach, ClosedIn
    <3> QED
      BY <1>2, <2>1
  <2>3. Ends(x) = { x }
    <3> HIDE DEF Reach, ClosedIn
    <3> QED
      BY <1>1, <1>3, <2>2
  <2> HIDE DEF Ends
  <2> QED
    BY <2>3
<1>4. ASSUME NEW x \in G PROVE Ends(x) = Ends(S[x])
  <2>1. S[x] \in X /\ x \in X
    OBVIOUS
  <2>2. Reach(S[x]) \subseteq Reach(x)
    BY <2>1
  <2> DEFINE Y == { x } \cup Reach(S[x])
  <2>3. Y \in SUBSET X /\ x \in Y /\ ClosedIn(Y)
    BY <1>1, <2>1
  <2>4. Reach(x) \subseteq Y
    <3> HIDE DEF Reach, ClosedIn, Y
    <3> QED
      BY <1>2, <2>1, <2>3
  <2> HIDE DEF Reach, ClosedIn
  <2> QED
    BY <2>2, <2>4
<1>5. ASSUME NEW x \in X PROVE g[x] = IF x \in G THEN g[S[x]] ELSE O[x]
  <2> HIDE DEF Ends
  <2> DEFINE end(y) == CHOOSE z : z \in Ends(y)
  <2>0. \A y \in X : g[y] = O[end(y)]
    OBVIOUS
  <2>1. CASE x \in G
    <3>1. Ends(x) = Ends(S[x]) /\ S[x] \in X
      BY <1>4, <2>1
    <3>2. end(x) = end(S[x])
      BY <3>1, Zenon
    <3> HIDE DEF g, end
    <3> QED
      BY <2>0, <2>1, <3>1, <3>2
  <2>2. CASE x \notin G
    <3>1. end(x) = x
      BY <1>3, <2>2
    <3> HIDE DEF g, end
    <3> QED
      BY <2>0, <2>2, <3>1
  <2> QED
    BY <2>1, <2>2
<1>6. DOMAIN g = X /\ g = [x \in X |-> g[x]]
  OBVIOUS
<1> HIDE DEF g
<1>7. g = [x \in X |-> IF x \in G THEN g[S[x]] ELSE O[x]]
  BY <1>5, <1>6
<1> QED
  BY <1>7 DEF Solvable

(* What is left of a word. *)
LEMMA RestIs ==
  ASSUME NEW key \in Seq(Char), NEW n \in 0 .. Len(key)
  PROVE  /\ Rest(key, n) \in Seq(Char) /\ Len(Rest(key, n)) = Len(key) - n
         /\ \A i \in 1 .. Len(key) - n : Rest(key, n)[i] = key[n + i]
BY DEF Rest

AgreesTo(path, key, k) ==
  /\ k \in 0 .. Len(path) /\ k \in 0 .. Len(key)
  /\ \A i \in 1 .. k : path[i].ch = key[i]
  /\ k < Len(path) /\ k < Len(key) => path[k + 1].ch # key[k + 1]

(* Agree is the number of characters that a path and a word share. *)
LEMMA AgreeIs ==
  ASSUME NEW path \in Seq(Entry), NEW key \in Seq(Char)
  PROVE  AgreesTo(path, key, Agree(path, key))
<1>0. PICK k : k = Agree(path, key)
  OBVIOUS
<1>1. PICK m \in Nat, n \in Nat : m = Len(path) /\ n = Len(key)
  OBVIOUS
<1>2. PICK most : most = Min({ m, n })
  OBVIOUS
<1>3. most \in Nat /\ most <= m /\ most <= n /\ (most = m \/ most = n)
  <2>1. \E x \in { m, n } : \A y \in { m, n } : x <= y
    OBVIOUS
  <2>2. most \in { m, n } /\ \A y \in { m, n } : most <= y
    BY <1>2, <2>1 DEF Min
  <2> QED
    BY <2>2
<1> DEFINE parts(j) == j > most \/ path[j].ch # key[j]
           Q(j) == parts(j) /\ \A i \in 1 .. j - 1 : ~parts(i)
           S == { j \in 1 .. most + 1 : parts(j) }
<1>4. \E j \in 1 .. most + 1 : Q(j)
  <2>1. S \in SUBSET Nat /\ S # {}
    <3>1. most + 1 \in S
      BY <1>3
    <3> QED
      BY <3>1
  <2>2. PICK l \in S : \A j \in S : l <= j
    <3> HIDE DEF S
    <3> QED
      BY <2>1, LeastElement
  <2>3. l \in 1 .. most + 1 /\ parts(l)
    BY <2>2
  <2>4. ASSUME NEW j \in 1 .. l - 1 PROVE ~parts(j)
    <3>1. j \in 1 .. most + 1 /\ ~(l <= j)
      BY <1>3, <2>3
    <3>2. j \notin S
      <4> HIDE DEF S
      <4> QED
        BY <2>2, <3>1
    <3> HIDE DEF parts
    <3> QED
      BY <3>1, <3>2
  <2> QED
    BY <2>3, <2>4
<1>5. PICK l : l = CHOOSE j \in 1 .. most + 1 : Q(j)
  OBVIOUS
<1>6. l \in 1 .. most + 1 /\ Q(l)
  <2> HIDE DEF Q
  <2> QED
    BY <1>4, <1>5
<1>7. k = l - 1
  BY <1>0, <1>1, <1>2, <1>5 DEF Agree
<1>8. \A i \in 1 .. l - 1 : path[i].ch = key[i]
  BY <1>3, <1>6
<1>9. l - 1 < m /\ l - 1 < n => path[l].ch # key[l]
  BY <1>3, <1>6
<1>10. l - 1 \in 0 .. m /\ l - 1 \in 0 .. n /\ (l - 1) + 1 = l
  BY <1>3, <1>6
<1> QED
  BY <1>0, <1>1, <1>7, <1>8, <1>9, <1>10 DEF AgreesTo

WalkPlaces(t, key) ==
  [at : DOMAIN t.nodes, used : 0 .. Len(key), from : (DOMAIN t.nodes) \X (0 .. VTKEY_NUM - 1)]
Ahead(key, w) == Rest(key, w.used)
AgreeAt(t, key, w) == Agree(t.nodes[w.at].path, Ahead(key, w))
NextChar(t, key, w) == Ahead(key, w)[AgreeAt(t, key, w) + 1]
NextAt(t, key, w) == Child(t, w.at, NextChar(t, key, w))

Goes(t, key, w) ==
  /\ AgreeAt(t, key, w) = Len(t.nodes[w.at].path)
  /\ AgreeAt(t, key, w) < Len(Ahead(key, w))
  /\ NextAt(t, key, w) # 0
  /\ FirstChar(t, NextAt(t, key, w)) = NextChar(t, key, w)

Onward(t, key, w) ==
  [at |-> NextAt(t, key, w), used |-> w.used + AgreeAt(t, key, w),
   from |-> << w.at, NextChar(t, key, w) % t.nodes[w.at].mod >>]
Halt(t, key, w) == [at |-> w.at, from |-> w.from, agree |-> AgreeAt(t, key, w), rest |-> Ahead(key, w)]
Outset == [at |-> 0, used |-> 0, from |-> << 0, 0 >>]

(* Walk as a function of where the search stands. *)
LEMMA WalkUnfold ==
  ASSUME NEW t, NEW key
  PROVE  Walk(t, key) =
           (CHOOSE g : g = [w \in WalkPlaces(t, key) |->
                              IF Goes(t, key, w) THEN g[Onward(t, key, w)] ELSE Halt(t, key, w)])[Outset]
BY DEF Walk, WalkPlaces, Goes, Onward, Halt, Outset, AgreeAt, NextAt, NextChar, Ahead

(* Steps of the walk still possible. *)
Left(key, w) == (Len(key) - w.used) + (IF w.at = 0 THEN 1 ELSE 0)

StepIs(t, key, w) ==
  LET node == t.nodes[w.at]
      c == NextChar(t, key, w)
      v == Onward(t, key, w) IN
  /\ v \in WalkPlaces(t, key) /\ Left(key, v) < Left(key, w)
  /\ c \in Char /\ node.mod # 0 /\ c % node.mod \in Children(node)
  /\ v.at = node.child[c % node.mod] /\ v.at # 0 /\ First(t.nodes, v.at) = c
  /\ v.used = w.used + Len(node.path) /\ v.used < Len(key) /\ c = key[v.used + 1]
  /\ \A i \in 1 .. Len(node.path) : node.path[i].ch = key[w.used + i]

(* A step down leads to a child whose characters start the rest of the word. *)
LEMMA OnwardIs ==
  ASSUME NEW t, NEW pre, Shaped(t.nodes, pre), NEW key \in Seq(Char),
         NEW w \in WalkPlaces(t, key), Goes(t, key, w)
  PROVE  StepIs(t, key, w)
<1>1. PICK N, node, c, v, k, rest :
         /\ N = t.nodes /\ node = t.nodes[w.at] /\ c = NextChar(t, key, w) /\ v = Onward(t, key, w)
         /\ k = AgreeAt(t, key, w) /\ rest = Ahead(key, w)
  OBVIOUS
<1>2. /\ w.at \in DOMAIN N /\ w.used \in 0 .. Len(key) /\ Len(key) \in Nat
      /\ w.from \in (DOMAIN N) \X (0 .. VTKEY_NUM - 1)
  BY <1>1 DEF WalkPlaces
<1>3. Typed(N) /\ Placed(N)
  BY <1>1 DEF Shaped
<1>4. /\ node \in Node /\ node.child \in [0 .. node.mod - 1 -> Nat] /\ node.mod # 1
      /\ (node.path = << >> <=> w.at = 0)
  BY <1>1, <1>2, <1>3 DEF Typed
<1>5. node.path \in Seq(Entry) /\ node.mod \in 0 .. VTKEY_NUM
  BY <1>4 DEF Node
<1>6. /\ rest \in Seq(Char) /\ Len(rest) = Len(key) - w.used
      /\ \A i \in 1 .. Len(key) - w.used : rest[i] = key[w.used + i]
  BY <1>1, <1>2, RestIs DEF Ahead
<1>7. k = Agree(node.path, rest)
  BY <1>1 DEF AgreeAt
<1>8. k = Len(node.path) /\ k \in Nat /\ k < Len(rest) /\ \A i \in 1 .. k : node.path[i].ch = rest[i]
  <2>1. k = Len(node.path) /\ k < Len(rest)
    BY <1>1 DEF Goes
  <2>2. AgreesTo(node.path, rest, k)
    BY <1>5, <1>6, <1>7, AgreeIs
  <2> QED
    BY <1>5, <2>1, <2>2 DEF AgreesTo
<1>9. c = rest[k + 1] /\ c \in Char /\ c \in Nat
  <2>1. c = rest[k + 1]
    BY <1>1 DEF NextChar
  <2>2. k + 1 \in 1 .. Len(rest)
    BY <1>6, <1>8
  <2>3. c \in Char
    BY <1>6, <2>1, <2>2
  <2> QED
    BY <2>1, <2>3, CodesAssumption DEF Char
<1>10. /\ node.mod # 0 /\ c % node.mod \in Children(node) /\ v.at = node.child[c % node.mod] /\ v.at # 0
       /\ First(N, v.at) = c
  <2>1. NextAt(t, key, w) = IF node.mod = 0 THEN 0 ELSE node.child[c % node.mod]
    BY <1>1 DEF NextAt, Child
  <2>2. v.at = NextAt(t, key, w)
    BY <1>1 DEF Onward
  <2>3. v.at # 0 /\ node.mod # 0 /\ v.at = node.child[c % node.mod]
    BY <2>1, <2>2 DEF Goes
  <2>4. c % node.mod \in 0 .. node.mod - 1
    BY <1>5, <1>9, <2>3, CodesAssumption, Remainder
  <2>5. c % node.mod \in Children(node)
    BY <1>4, <2>3, <2>4 DEF Children
  <2>6. First(N, v.at) = c
    BY <1>1, <2>2 DEF Goes, FirstChar, First
  <2> QED
    BY <2>3, <2>5, <2>6
<1>11. v.at \in DOMAIN N \ { 0 }
  BY <1>1, <1>2, <1>3, <1>10 DEF Placed
<1>12. v.used = w.used + k /\ v.used < Len(key) /\ v.used \in Nat /\ c = key[v.used + 1]
  <2>1. v.used = w.used + k
    BY <1>1 DEF Onward
  <2>2. w.used \in Nat /\ k + 1 \in 1 .. Len(key) - w.used
    BY <1>2, <1>6, <1>8
  <2>3. w.used + (k + 1) = (w.used + k) + 1 /\ w.used + k \in Nat /\ w.used + k < Len(key)
    <3>1. PICK l \in Nat, m \in Nat : l = Len(key) /\ m = w.used
      BY <1>2
    <3>2. k + 1 \in 1 .. l - m
      BY <2>2, <3>1
    <3>3. m + (k + 1) = (m + k) + 1 /\ m + k \in Nat /\ m + k < l
      BY <1>8, <3>2
    <3> QED
      BY <3>1, <3>3
  <2> QED
    BY <1>6, <1>9, <2>1, <2>2, <2>3
<1>13. \A i \in 1 .. Len(node.path) : node.path[i].ch = key[w.used + i]
  <2> SUFFICES ASSUME NEW i \in 1 .. Len(node.path) PROVE node.path[i].ch = key[w.used + i]
    OBVIOUS
  <2>1. i \in 1 .. k /\ i \in 1 .. Len(key) - w.used
    BY <1>2, <1>6, <1>8
  <2> QED
    BY <1>6, <1>8, <2>1
<1>14. v \in WalkPlaces(t, key)
  <2>1. PICK f : f = << w.at, c % node.mod >>
    OBVIOUS
  <2>2. c % node.mod \in 0 .. VTKEY_NUM - 1
    <3>1. c % node.mod \in 0 .. node.mod - 1
      BY <1>5, <1>9, <1>10, CodesAssumption, Remainder
    <3> QED
      BY <1>5, <3>1, CodesAssumption
  <2>3. f \in (DOMAIN N) \X (0 .. VTKEY_NUM - 1)
    BY <1>2, <2>1, <2>2
  <2>4. v = [at |-> v.at, used |-> v.used, from |-> f]
    BY <1>1, <2>1 DEF Onward
  <2>5. v.used \in 0 .. Len(key)
    BY <1>2, <1>12
  <2> QED
    BY <1>1, <1>11, <2>3, <2>4, <2>5 DEF WalkPlaces
<1>15. Left(key, v) < Left(key, w)
  <2>1. PICK l \in Nat, m \in Nat : l = Len(key) /\ m = w.used
    BY <1>2
  <2>2. Left(key, v) = (l - (m + k)) + 0
    BY <1>11, <1>12, <2>1 DEF Left
  <2>3. CASE w.at = 0
    <3>1. Left(key, w) = (l - m) + 1
      BY <2>1, <2>3 DEF Left
    <3> QED
      BY <1>8, <2>1, <2>2, <3>1
  <2>4. CASE w.at # 0
    <3>1. Left(key, w) = (l - m) + 0
      BY <2>1, <2>4 DEF Left
    <3>2. k # 0
      BY <1>4, <1>5, <1>8, <2>4
    <3> QED
      BY <1>8, <2>1, <2>2, <3>1, <3>2
  <2> QED
    BY <2>3, <2>4
<1> QED
  BY <1>1, <1>8, <1>9, <1>10, <1>12, <1>13, <1>14, <1>15, Zenon DEF StepIs

(* The characters that lead to a begin the key, and from is the pointer that led there. *)
Arrived(N, pre, key, a, from) ==
  /\ a \in DOMAIN N /\ Len(pre[a]) <= Len(key)
  /\ \A i \in 1 .. Len(pre[a]) : key[i] = pre[a][i]
  /\ a # 0 => /\ from[1] \in DOMAIN N /\ from[2] \in Children(N[from[1]]) /\ N[from[1]].child[from[2]] = a
              /\ Len(pre[a]) < Len(key) /\ First(N, a) = key[Len(pre[a]) + 1]

Stops(t, pre, key, w) ==
  /\ Arrived(t.nodes, pre, key, w.at, w.from)
  /\ w.rest = Rest(key, Len(pre[w.at]))
  /\ w.agree = Agree(t.nodes[w.at].path, w.rest)
  /\ ~ /\ w.agree = Len(t.nodes[w.at].path)
       /\ w.agree < Len(w.rest)
       /\ Child(t, w.at, w.rest[w.agree + 1]) # 0
       /\ FirstChar(t, Child(t, w.at, w.rest[w.agree + 1])) = w.rest[w.agree + 1]

(* The next place is led to by the characters used. *)
LEMMA OnwardArrives ==
  ASSUME NEW t, NEW pre, Shaped(t.nodes, pre), NEW key \in Seq(Char),
         NEW w \in WalkPlaces(t, key), Goes(t, key, w),
         w.used = Len(pre[w.at]), Arrived(t.nodes, pre, key, w.at, w.from)
  PROVE  LET v == Onward(t, key, w) IN v.used = Len(pre[v.at]) /\ Arrived(t.nodes, pre, key, v.at, v.from)
<1>1. PICK N, node, c, v : N = t.nodes /\ node = t.nodes[w.at] /\ c = NextChar(t, key, w) /\ v = Onward(t, key, w)
  BY Zenon
<1>2. /\ v \in WalkPlaces(t, key)
      /\ c \in Char /\ node.mod # 0 /\ c % node.mod \in Children(node)
      /\ v.at = node.child[c % node.mod] /\ v.at # 0 /\ First(N, v.at) = c
      /\ v.used = w.used + Len(node.path) /\ v.used < Len(key) /\ c = key[v.used + 1]
      /\ \A i \in 1 .. Len(node.path) : node.path[i].ch = key[w.used + i]
  <2>1. StepIs(t, key, w)
    BY OnwardIs, Zenon
  <2> QED
    BY <1>1, <2>1, Zenon DEF StepIs
<1>3. w.at \in DOMAIN N /\ Spells(N, pre) /\ Typed(N)
  BY <1>1 DEF Arrived, Shaped
<1>4. PICK p, q : p = pre[w.at] /\ q = pre[v.at]
  OBVIOUS
<1>5. Follows(p, node.path, q)
  BY <1>1, <1>2, <1>3, <1>4, Zenon DEF Spells
<1>6. v.at \in DOMAIN N
  BY <1>1, <1>2, Zenon DEF WalkPlaces
<1>7. PICK m \in Nat, n \in Nat : m = Len(p) /\ n = Len(node.path)
  BY <1>1, <1>3, <1>4 DEF Spells, Typed, Node
<1>8. v.used = Len(q) /\ Len(q) = m + n /\ w.used = m
  BY <1>2, <1>4, <1>5, <1>7, Zenon DEF Follows
<1>9. ASSUME NEW i \in 1 .. Len(q) PROVE key[i] = q[i]
  <2>1. CASE i <= m
    <3>1. i \in 1 .. m
      BY <1>7, <1>8, <2>1
    <3>2. q[i] = p[i]
      BY <1>5, <1>7, <3>1 DEF Follows
    <3>3. key[i] = p[i]
      BY <1>4, <1>7, <3>1 DEF Arrived
    <3> QED
      BY <3>2, <3>3
  <2>2. CASE ~(i <= m)
    <3>1. PICK j \in 1 .. n : i = m + j
      <4>1. i - m \in 1 .. n /\ i = m + (i - m)
        BY <1>7, <1>8, <2>2
      <4> QED
        BY <4>1
    <3>2. q[m + j] = node.path[j].ch
      BY <1>5, <1>7 DEF Follows
    <3>3. node.path[j].ch = key[m + j]
      BY <1>2, <1>7, <1>8
    <3> QED
      BY <3>1, <3>2, <3>3
  <2> QED
    BY <2>1, <2>2
<1>10. v.from = << w.at, c % node.mod >>
  BY <1>1 DEF Onward
<1>11. v.from[1] = w.at /\ v.from[2] = c % node.mod
  BY <1>10
<1>12. Len(q) <= Len(key) /\ Len(q) < Len(key) /\ First(N, v.at) = key[Len(q) + 1]
  <2>1. Len(key) \in Nat /\ Len(q) \in Nat
    BY <1>7, <1>8
  <2> QED
    BY <1>2, <1>8, <2>1
<1>13. Arrived(N, pre, key, v.at, v.from)
  BY <1>1, <1>2, <1>3, <1>4, <1>6, <1>9, <1>11, <1>12, Zenon DEF Arrived
<1> QED
  BY <1>1, <1>4, <1>8, <1>13

(***************************************************************************)
(* The search stops where it cannot go on, at a node that the word's first *)
(* characters lead to.                                                     *)
(***************************************************************************)
LEMMA WalkStops ==
  ASSUME NEW t, NEW pre, Shaped(t.nodes, pre), NEW key \in Seq(Char)
  PROVE  Stops(t, pre, key, Walk(t, key))
<1> DEFINE X == WalkPlaces(t, key)
           G == { w \in X : Goes(t, key, w) }
           S == [w \in G |-> Onward(t, key, w)]
           O == [w \in X |-> Halt(t, key, w)]
           Body(g, w) == IF Goes(t, key, w) THEN g[Onward(t, key, w)] ELSE Halt(t, key, w)
<1>1. Solvable(X, G, S, O)
  <2>1. G \in SUBSET X /\ S \in [G -> X]
    <3>1. ASSUME NEW w \in G PROVE Onward(t, key, w) \in X
      BY OnwardIs DEF StepIs
    <3> QED
      BY <3>1
  <2> HIDE DEF X, G, S, O
  <2> QED
    BY <2>1, TailRecursion
<1>2. ASSUME NEW g PROVE [w \in X |-> IF w \in G THEN g[S[w]] ELSE O[w]] = [w \in X |-> Body(g, w)]
  <2>1. ASSUME NEW w \in X PROVE (IF w \in G THEN g[S[w]] ELSE O[w]) = Body(g, w)
    <3> HIDE DEF X
    <3>1. CASE Goes(t, key, w)
      BY <3>1
    <3>2. CASE ~Goes(t, key, w)
      BY <3>2
    <3> QED
      BY <3>1, <3>2
  <2> HIDE DEF X, G, S, O, Body
  <2> QED
    BY <2>1
<1>3. \E g : g = [w \in X |-> Body(g, w)]
  <2> HIDE DEF X, G, S, O, Body
  <2>1. PICK g : g = [w \in X |-> IF w \in G THEN g[S[w]] ELSE O[w]]
    BY <1>1 DEF Solvable
  <2> QED
    BY <1>2, <2>1
<1>4. PICK u : u = CHOOSE g : g = [w \in X |-> Body(g, w)]
  OBVIOUS
<1>5. u = [w \in X |-> Body(u, w)]
  <2> HIDE DEF X, Body
  <2> QED
    BY <1>3, <1>4
<1>6. Walk(t, key) = u[Outset]
  BY <1>4, WalkUnfold
<1>7. \A w \in X : u[w] = Body(u, w)
  <2> HIDE DEF X, Body
  <2> QED
    BY <1>5
<1> DEFINE Ok(w) == w.used = Len(pre[w.at]) /\ Arrived(t.nodes, pre, key, w.at, w.from)
           Bad == { n \in Nat : \E w \in X : Left(key, w) = n /\ Ok(w) /\ ~Stops(t, pre, key, u[w]) }
<1>8. ASSUME NEW w \in X PROVE Left(key, w) \in Nat
  <2>1. w.used \in 0 .. Len(key) /\ Len(key) \in Nat
    BY DEF WalkPlaces
  <2> QED
    BY <2>1 DEF Left
<1>9. ASSUME Bad # {} PROVE FALSE
  <2>1. PICK n \in Bad : \A m \in Bad : n <= m
    <3>1. Bad \in SUBSET Nat
      OBVIOUS
    <3> HIDE DEF Bad
    <3> QED
      BY <1>9, <3>1, LeastElement
  <2>2. PICK w \in X : Left(key, w) = n /\ Ok(w) /\ ~Stops(t, pre, key, u[w])
    BY <2>1
  <2>3. CASE Goes(t, key, w)
    <3>1. PICK v : v = Onward(t, key, w)
      OBVIOUS
    <3>2. v \in X /\ Left(key, v) < Left(key, w)
      BY <2>2, <2>3, <3>1, OnwardIs DEF StepIs
    <3>3. Ok(v)
      BY <2>2, <2>3, <3>1, OnwardArrives
    <3>4. Left(key, v) \in Nat /\ Left(key, w) \in Nat
      BY <1>8, <3>2
    <3>5. Left(key, v) \notin Bad
      <4>1. ~(n <= Left(key, v))
        BY <2>2, <3>2, <3>4
      <4> HIDE DEF Bad
      <4> QED
        BY <2>1, <4>1
    <3>6. Stops(t, pre, key, u[v])
      <4> HIDE DEF Ok, X
      <4> QED
        BY <3>2, <3>3, <3>4, <3>5
    <3>7. u[w] = u[v]
      BY <1>7, <2>3, <3>1
    <3> QED
      BY <2>2, <3>6, <3>7
  <2>4. CASE ~Goes(t, key, w)
    <3>1. u[w] = Halt(t, key, w)
      BY <1>7, <2>4
    <3>2. /\ u[w].at = w.at /\ u[w].from = w.from /\ u[w].agree = AgreeAt(t, key, w)
          /\ u[w].rest = Ahead(key, w)
      BY <3>1 DEF Halt
    <3>3. u[w].rest = Rest(key, Len(pre[w.at]))
      BY <2>2, <3>2 DEF Ahead
    <3>4. u[w].agree = Agree(t.nodes[w.at].path, u[w].rest)
      BY <3>2 DEF AgreeAt
    <3>5. ~ /\ u[w].agree = Len(t.nodes[w.at].path)
            /\ u[w].agree < Len(u[w].rest)
            /\ Child(t, w.at, u[w].rest[u[w].agree + 1]) # 0
            /\ FirstChar(t, Child(t, w.at, u[w].rest[u[w].agree + 1])) = u[w].rest[u[w].agree + 1]
      BY <2>4, <3>2 DEF Goes, NextAt, NextChar
    <3> QED
      BY <2>2, <3>2, <3>3, <3>4, <3>5 DEF Stops
  <2> QED
    BY <2>3, <2>4
<1>10. Outset \in X /\ Ok(Outset)
  <2>1. Outset.at = 0 /\ Outset.used = 0 /\ Outset.from = << 0, 0 >>
    BY DEF Outset
  <2>2. 0 \in DOMAIN t.nodes /\ pre[0] = << >>
    BY DEF Shaped, Typed, Spells
  <2>3. Len(key) \in Nat
    OBVIOUS
  <2>4. Outset \in X
    BY <2>2, <2>3, CodesAssumption DEF Outset, WalkPlaces
  <2>5. Arrived(t.nodes, pre, key, 0, << 0, 0 >>)
    BY <2>2, <2>3 DEF Arrived
  <2>6. Len(pre[0]) = 0
    BY <2>2
  <2> QED
    BY <2>1, <2>4, <2>5, <2>6
<1>11. Left(key, Outset) \in Nat
  BY <1>8, <1>10
<1> HIDE DEF Ok, X
<1> QED
  BY <1>6, <1>9, <1>10, <1>11
-----------------------------------------------------------------------------
(* Changing the pointer that leads to a node. *)

(* A node is the record of its parts. *)
LEMMA NodeRecord ==
  ASSUME NEW N, Typed(N), NEW x \in DOMAIN N
  PROVE  /\ N[x] = [path |-> N[x].path, mod |-> N[x].mod, child |-> N[x].child]
         /\ N[x].child \in [0 .. N[x].mod - 1 -> Nat] /\ N[x].mod \in 0 .. VTKEY_NUM
         /\ N[x].path \in Seq(Entry)
BY DEF Typed, Node

(* Redirecting a node to itself changes nothing. *)
LEMMA RedirectSelf ==
  ASSUME NEW N, Typed(N), NEW x \in DOMAIN N, NEW at
  PROVE  Redirect(N[x], at, at) = N[x]
<1>1. PICK node : node = N[x]
  OBVIOUS
<1>2. node = [path |-> node.path, mod |-> node.mod, child |-> node.child] /\ node.child \in [0 .. node.mod - 1 -> Nat]
  BY <1>1, NodeRecord
<1>3. PICK c : c = [s \in 0 .. node.mod - 1 |-> IF node.child[s] = at THEN at ELSE node.child[s]]
  OBVIOUS
<1>4. c = node.child
  <2>1. \A s \in 0 .. node.mod - 1 : c[s] = node.child[s]
    BY <1>3
  <2> QED
    BY <1>2, <1>3, <2>1
<1>5. Redirect(node, at, at) = [path |-> node.path, mod |-> node.mod, child |-> c]
  BY <1>3, Zenon DEF Redirect
<1> QED
  BY <1>1, <1>2, <1>4, <1>5

Pointed(N, at, from, e) ==
  LET M == Point(Without(N, at), from, e) IN
  DOMAIN M = DOMAIN N \ { at } /\ \A x \in DOMAIN N \ { at } : M[x] = Redirect(N[x], at, e)

(* Point redirects the one slot from which the node hangs. *)
LEMMA PointIs ==
  ASSUME NEW N, NEW pre, Shaped(N, pre), NEW at \in DOMAIN N \ { 0 }, NEW from,
         from[1] \in DOMAIN N, from[2] \in Children(N[from[1]]), N[from[1]].child[from[2]] = at, NEW e
  PROVE  Pointed(N, at, from, e)
<1>1. PICK p, s : p = from[1] /\ s = from[2]
  OBVIOUS
<1>2. PICK W : W = Without(N, at)
  OBVIOUS
<1>3. DOMAIN W = DOMAIN N \ { at } /\ \A x \in DOMAIN N \ { at } : W[x] = N[x]
  BY <1>2 DEF Without
<1>4. PICK M : M = Point(W, from, e)
  OBVIOUS
<1>5. M = [W EXCEPT ![p].child[s] = e]
  BY <1>1, <1>4 DEF Point
<1>6. DOMAIN M = DOMAIN N \ { at }
  BY <1>3, <1>5
<1>7. p \in DOMAIN N \ { at }
  <2>1. at \in Kids(N, p)
    BY <1>1 DEF Kids
  <2> QED
    BY <1>1, <2>1, NotItsChild
<1>8. Typed(N) /\ Once(N)
  BY DEF Shaped
<1>9. ASSUME NEW x \in DOMAIN N \ { at } PROVE M[x] = Redirect(N[x], at, e)
  <2>1. PICK node : node = N[x]
    OBVIOUS
  <2>2. node = [path |-> node.path, mod |-> node.mod, child |-> node.child] /\ node.child \in [0 .. node.mod - 1 -> Nat]
    BY <1>8, <2>1, NodeRecord
  <2>3. PICK c : c = [r \in 0 .. node.mod - 1 |-> IF node.child[r] = at THEN e ELSE node.child[r]]
    OBVIOUS
  <2>4. Redirect(node, at, e) = [path |-> node.path, mod |-> node.mod, child |-> c]
    BY <2>3, Zenon DEF Redirect
  <2>5. ASSUME NEW r \in 0 .. node.mod - 1, node.child[r] = at PROVE x = p /\ r = s
    <3>1. r \in Children(N[x])
      BY <2>1, <2>2, <2>5 DEF Children
    <3>2. N[x].child[r] = at /\ x \in DOMAIN N
      BY <2>1, <2>5
    <3>3. p \in DOMAIN N /\ s \in Children(N[p]) /\ N[p].child[s] = at
      BY <1>1
    <3>4. \A a, b \in DOMAIN N : \A u \in Children(N[a]), v \in Children(N[b]) :
            N[a].child[u] = N[b].child[v] => a = b /\ u = v
      BY <1>8, Zenon DEF Once
    <3> QED
      <4>1. N[x].child[r] = N[p].child[s]
        BY <3>2, <3>3
      <4>2. x \in DOMAIN N /\ p \in DOMAIN N /\ r \in Children(N[x]) /\ s \in Children(N[p])
        BY <3>1, <3>2, <3>3
      <4> QED
        BY <3>4, <4>1, <4>2, Zenon
  <2>6. CASE x = p
    <3>1. M[x] = [W[p] EXCEPT !.child = [@ EXCEPT ![s] = e]]
      BY <1>3, <1>5, <1>7, <2>6
    <3>2. W[p] = node
      BY <1>3, <1>7, <2>1, <2>6
    <3>3. PICK d : d = [node.child EXCEPT ![s] = e]
      OBVIOUS
    <3>4. M[x] = [node EXCEPT !.child = d]
      BY <3>1, <3>2, <3>3
    <3>5. M[x] = [path |-> node.path, mod |-> node.mod, child |-> d]
      BY <2>2, <3>4
    <3>6. d = c
      <4>1. s \in 0 .. node.mod - 1 /\ node.child[s] = at
        BY <1>1, <2>1, <2>2, <2>6 DEF Children
      <4>2. \A r \in 0 .. node.mod - 1 : d[r] = c[r]
        BY <2>2, <2>3, <2>5, <3>3, <4>1
      <4> QED
        BY <2>2, <2>3, <3>3, <4>2
    <3> QED
      BY <2>1, <2>4, <3>5, <3>6
  <2>7. CASE x # p
    <3>1. M[x] = node
      BY <1>3, <1>5, <2>1, <2>7
    <3>2. c = node.child
      <4>1. \A r \in 0 .. node.mod - 1 : c[r] = node.child[r]
        BY <2>3, <2>5, <2>7
      <4> QED
        BY <2>2, <2>3, <4>1
    <3> QED
      BY <2>1, <2>2, <2>4, <3>1, <3>2
  <2> QED
    BY <2>6, <2>7
<1> QED
  BY <1>2, <1>4, <1>6, <1>9 DEF Pointed

(* Plus adds one node. *)
LEMMA PlusIs ==
  ASSUME NEW N, NEW a, NEW node
  PROVE  /\ DOMAIN Plus(N, a, node) = DOMAIN N \cup { a }
         /\ Plus(N, a, node)[a] = node
         /\ \A x \in DOMAIN N : x # a => Plus(N, a, node)[x] = N[x]
BY DEF Plus
-----------------------------------------------------------------------------
(* What an insertion meets where the walk stops. *)

Meets(t, pre, key, w) ==
  LET N == t.nodes
      path == t.nodes[w.at].path
      p == pre[w.at] IN
  /\ w.at \in DOMAIN N /\ p \in Seq(Char) /\ w.rest \in Seq(Char) /\ key \in Seq(Char)
  /\ Len(w.rest) > 0 /\ Len(key) = Len(p) + Len(w.rest) /\ Len(key) <= MaxKeyLen
  /\ \A i \in 1 .. Len(p) : key[i] = p[i]
  /\ \A i \in 1 .. Len(w.rest) : key[Len(p) + i] = w.rest[i]
  /\ AgreesTo(path, w.rest, w.agree)
  /\ w.at = 0 => w.agree = 0
  /\ w.at # 0 => /\ w.agree > 0
                 /\ w.from[1] \in DOMAIN N /\ w.from[2] \in Children(N[w.from[1]])
                 /\ N[w.from[1]].child[w.from[2]] = w.at

(* What an insertion needs to know of where the search stopped. *)
LEMMA StopsMeets ==
  ASSUME NEW t, NEW pre, Shaped(t.nodes, pre),
         NEW key \in Seq(Char), key # << >>, Len(key) <= MaxKeyLen, NEW w, Stops(t, pre, key, w)
  PROVE  Meets(t, pre, key, w)
<1>1. PICK N, path, p, rest, k :
        N = t.nodes /\ path = t.nodes[w.at].path /\ p = pre[w.at] /\ rest = w.rest /\ k = w.agree
  OBVIOUS
<1>2. Arrived(N, pre, key, w.at, w.from) /\ rest = Rest(key, Len(p)) /\ k = Agree(path, rest)
  BY <1>1 DEF Stops
<1>3. w.at \in DOMAIN N /\ p \in Seq(Char) /\ path \in Seq(Entry) /\ (path = << >> <=> w.at = 0)
  <2>1. w.at \in DOMAIN N
    BY <1>2 DEF Arrived
  <2> QED
    BY <1>1, <2>1, NodeRecord DEF Shaped, Spells, Typed
<1>4. Len(p) \in 0 .. Len(key) /\ Len(key) \in Nat
  BY <1>1, <1>2, <1>3 DEF Arrived
<1>5. /\ rest \in Seq(Char) /\ Len(rest) = Len(key) - Len(p)
      /\ \A i \in 1 .. Len(key) - Len(p) : rest[i] = key[Len(p) + i]
  BY <1>2, <1>4, RestIs
<1>6. Len(key) = Len(p) + Len(rest)
  BY <1>4, <1>5
<1>7. AgreesTo(path, rest, k)
  BY <1>2, <1>3, <1>5, AgreeIs
<1>8. Len(rest) > 0
  <2>1. CASE w.at = 0
    <3>1. p = << >>
      BY <1>1, <2>1 DEF Shaped, Spells
    <3>2. Len(p) = 0 /\ Len(key) > 0
      BY <3>1
    <3> QED
      BY <1>4, <1>5, <3>2
  <2>2. CASE w.at # 0
    <3>1. Len(p) < Len(key)
      BY <1>1, <1>2, <2>2 DEF Arrived
    <3>2. PICK m, n, l : m \in Nat /\ n \in Nat /\ m = Len(p) /\ n = Len(key) /\ l = Len(rest)
      <4>1. Len(p) \in Nat /\ Len(key) \in Nat
        BY <1>4
      <4> QED
        BY <4>1
    <3>3. l = n - m /\ m < n
      BY <1>5, <3>1, <3>2
    <3>4. l > 0
      BY <3>2, <3>3
    <3> QED
      BY <3>2, <3>4
  <2> QED
    BY <2>1, <2>2
<1>9. w.at = 0 => k = 0
  <2>1. w.at = 0 => Len(path) = 0
    BY <1>3
  <2> QED
    BY <1>7, <2>1 DEF AgreesTo
<1>10. ASSUME w.at # 0 PROVE k > 0
  <2>1. First(N, w.at) = key[Len(p) + 1]
    BY <1>1, <1>2, <1>10 DEF Arrived
  <2>2. First(N, w.at) = path[1].ch
    BY <1>1 DEF First
  <2>3. rest[1] = key[Len(p) + 1]
    BY <1>4, <1>5, <1>8
  <2>4. Len(path) > 0 /\ Len(path) \in Nat
    BY <1>3, <1>10
  <2>5. k = 0 => path[1].ch # rest[1]
    BY <1>7, <1>8, <2>4 DEF AgreesTo
  <2>6. k \in 0 .. Len(path)
    BY <1>7 DEF AgreesTo
  <2>7. path[1].ch = rest[1]
    BY <2>1, <2>2, <2>3, Zenon
  <2>8. k # 0
    BY <2>5, <2>7
  <2> QED
    BY <2>4, <2>6, <2>8
<1>11. \A i \in 1 .. Len(rest) : key[Len(p) + i] = rest[i]
  BY <1>5
<1>12. /\ \A i \in 1 .. Len(p) : key[i] = p[i]
       /\ w.at # 0 => /\ w.from[1] \in DOMAIN N /\ w.from[2] \in Children(N[w.from[1]])
                      /\ N[w.from[1]].child[w.from[2]] = w.at
  BY <1>1, <1>2 DEF Arrived
<1>13. rest \in Seq(Char)
  BY <1>5
<1> QED
  BY <1>1, <1>3, <1>6, <1>7, <1>8, <1>9, <1>10, <1>11, <1>12, <1>13 DEF Meets

(* The entries of a leaf: its characters, the data at the last. *)
LEMMA EntriesAre ==
  ASSUME NEW chars \in Seq(Char), NEW d \in Nat
  PROVE  /\ Entries(chars, d) \in Seq(Entry) /\ Len(Entries(chars, d)) = Len(chars)
         /\ \A i \in 1 .. Len(chars) : /\ Entries(chars, d)[i].ch = chars[i]
                                       /\ Entries(chars, d)[i].data = IF i = Len(chars) THEN d ELSE 0
<1>1. PICK e : e = Entries(chars, d)
  OBVIOUS
<1>2. e = [k \in 1 .. Len(chars) |-> [ch |-> chars[k], data |-> IF k = Len(chars) THEN d ELSE 0]]
  BY <1>1 DEF Entries
<1>3. Len(chars) \in Nat
  OBVIOUS
<1>4. \A i \in 1 .. Len(chars) : e[i] \in Entry
  BY <1>2 DEF Entry
<1>5. e \in [1 .. Len(chars) -> Entry]
  BY <1>2, <1>4
<1>6. e \in Seq(Entry) /\ Len(e) = Len(chars)
  BY <1>3, <1>5
<1> QED
  BY <1>1, <1>2, <1>6

(* What a new leaf is. *)
LEMMA LeafIs ==
  ASSUME NEW chars \in Seq(Char), chars # << >>, NEW d \in Nat
  PROVE  LET leaf == Leaf(chars, d) IN
         /\ leaf \in Node /\ leaf.child \in [0 .. leaf.mod - 1 -> Nat] /\ leaf.mod = 0
         /\ leaf.path = Entries(chars, d) /\ leaf.path # << >> /\ Children(leaf) = {}
         /\ NodeBytes(leaf) = 2 + 5 * Len(chars)
<1>1. PICK leaf, path : leaf = Leaf(chars, d) /\ path = Entries(chars, d)
  OBVIOUS
<1>2. leaf = [path |-> path, mod |-> 0, child |-> << >>]
  BY <1>1 DEF Leaf
<1>3. path \in Seq(Entry) /\ Len(path) = Len(chars) /\ Len(chars) \in Nat /\ Len(chars) > 0
  BY <1>1, EntriesAre
<1>4. << >> \in [0 .. 0 - 1 -> Nat]
  <2>1. << >> = [x \in {} |-> 0]
    OBVIOUS
  <2>2. 0 .. 0 - 1 = {}
    OBVIOUS
  <2> QED
    BY <2>1, <2>2
<1>5. leaf \in Node
  <2>1. << >> \in UNION { [0 .. m - 1 -> Nat] : m \in 0 .. VTKEY_NUM }
    BY <1>4, CodesAssumption
  <2>2. PICK f : f = << >>
    OBVIOUS
  <2>3. 0 \in 0 .. VTKEY_NUM /\ leaf = [path |-> path, mod |-> 0, child |-> f]
    BY <1>2, <2>2, CodesAssumption
  <2>4. f \in UNION { [0 .. m - 1 -> Nat] : m \in 0 .. VTKEY_NUM }
    BY <2>1, <2>2, Zenon
  <2> QED
    BY <1>3, <2>3, <2>4 DEF Node
<1>6. Children(leaf) = {}
  BY <1>2 DEF Children
<1>7. NodeBytes(leaf) = 2 + 5 * Len(chars)
  BY <1>2, <1>3 DEF NodeBytes, PathBytes, VTSAMEPS_L, VTENTRY_L, VTCHILDS_L, VTPTR_L
<1> QED
  BY <1>1, <1>2, <1>3, <1>4, <1>5, <1>6, <1>7
-----------------------------------------------------------------------------
(***************************************************************************)
(* Each way an insertion ends is a graft.                                  *)
(***************************************************************************)
Insertion(t, pre, at, e, graft, q, u) ==
  /\ Graft(t.nodes, pre, at, e, graft, q)
  /\ Grafted(t.nodes, u.nodes, at, e, graft)
  /\ Room(t, at, graft, u.end, u.wasted)
  /\ u.end - t.end <= MIN_REMAIN + 1 /\ u.end \in Nat /\ u.wasted \in Nat

One(a, x) == [n \in { a } |-> x]

(* The bytes of the one node of a graft. *)
LEMMA OneBytes ==
  ASSUME NEW a, NEW node, a # 0 => NodeBytes(node) \in Nat
  PROVE  /\ DOMAIN One(a, node) = { a } /\ One(a, node)[a] = node
         /\ Bytes(New(One(a, node)), a) = IF a = 0 THEN Header ELSE NodeBytes(node)
         /\ Total(SizeOf(New(One(a, node))), DOMAIN One(a, node)) = Bytes(New(One(a, node)), a)
<1>1. PICK g : g = One(a, node)
  OBVIOUS
<1>2. DOMAIN g = { a } /\ g[a] = node /\ New(g).nodes = g
  BY <1>1 DEF One, New
<1>3. Bytes(New(g), a) = IF a = 0 THEN Header ELSE NodeBytes(node)
  BY <1>2 DEF Bytes
<1>4. SizeOf(New(g))[a] = Bytes(New(g), a)
  BY <1>2 DEF SizeOf
<1>5. Bytes(New(g), a) \in Nat
  BY <1>3, SizesAre
<1>6. Total(SizeOf(New(g)), { a }) = SizeOf(New(g))[a]
  BY <1>4, <1>5, TotalOne
<1> QED
  BY <1>1, <1>2, <1>3, <1>4, <1>6

Marked(node, k, d) == [node EXCEPT !.path[k].data = d]

(* A node whose data was set at one of its characters. *)
LEMMA MarkedIs ==
  ASSUME NEW node \in Node, NEW k \in 1 .. Len(node.path), NEW d \in Nat
  PROVE  LET n == Marked(node, k, d) IN
         /\ n \in Node /\ n.mod = node.mod /\ n.child = node.child /\ NodeBytes(n) = NodeBytes(node)
         /\ n.path \in Seq(Entry) /\ Len(n.path) = Len(node.path)
         /\ \A i \in 1 .. Len(node.path) : /\ n.path[i].ch = node.path[i].ch
                                           /\ n.path[i].data = IF i = k THEN d ELSE node.path[i].data
<1>1. PICK path, mod, child : path = node.path /\ mod = node.mod /\ child = node.child
  OBVIOUS
<1>2. node = [path |-> path, mod |-> mod, child |-> child] /\ path \in Seq(Entry)
  BY <1>1 DEF Node
<1>3. PICK p2 : p2 = [path EXCEPT ![k].data = d]
  OBVIOUS
<1>4. PICK n : n = Marked(node, k, d)
  OBVIOUS
<1>5. n = [node EXCEPT !.path = p2]
  BY <1>1, <1>2, <1>3, <1>4 DEF Marked
<1>6. n = [path |-> p2, mod |-> mod, child |-> child]
  BY <1>2, <1>5
<1>7. \A i \in 1 .. Len(path) : path[i] \in Entry
  BY <1>2
<1>8. /\ DOMAIN p2 = 1 .. Len(path)
      /\ \A i \in 1 .. Len(path) : p2[i] = IF i = k THEN [path[k] EXCEPT !.data = d] ELSE path[i]
  BY <1>1, <1>2, <1>3
<1>9. [path[k] EXCEPT !.data = d] \in Entry /\ [path[k] EXCEPT !.data = d].ch = path[k].ch
      /\ [path[k] EXCEPT !.data = d].data = d
  BY <1>1, <1>7 DEF Entry
<1>10. \A i \in 1 .. Len(path) : p2[i] \in Entry /\ p2[i].ch = path[i].ch /\ p2[i].data = IF i = k THEN d ELSE path[i].data
  BY <1>7, <1>8, <1>9
<1>11. p2 \in Seq(Entry) /\ Len(p2) = Len(path)
  BY <1>2, <1>3, <1>8, <1>10
<1>12. n \in Node
  BY <1>1, <1>6, <1>11 DEF Node
<1>13. NodeBytes(n) = NodeBytes(node)
  BY <1>1, <1>6, <1>11 DEF NodeBytes, PathBytes
<1> QED
  BY <1>1, <1>4, <1>6, <1>10, <1>11, <1>12, <1>13

(* A node whose characters and children are those of another can take its place. *)
LEMMA FollowsSame ==
  ASSUME NEW p, NEW r, NEW path, NEW path2, Len(path2) = Len(path),
         \A i \in 1 .. Len(path) : path2[i].ch = path[i].ch, Follows(p, path, r)
  PROVE  Follows(p, path2, r)
BY DEF Follows

KidAt(N, pre, a, s, c) ==
  /\ c \in Kids(N, a) /\ First(N, c) % N[a].mod = s /\ Follows(pre[a], N[a].path, pre[c])
  /\ \A r \in Children(N[a]) : c = N[a].child[r] => s = r

(* What is known of the child in a slot. *)
LEMMA KidsAre ==
  ASSUME NEW N, NEW pre, Shaped(N, pre), NEW a \in DOMAIN N, NEW s \in Children(N[a])
  PROVE  /\ N[a].child[s] \in Kids(N, a) /\ N[a].child[s] \in DOMAIN N \ { 0 }
         /\ First(N, N[a].child[s]) % N[a].mod = s
         /\ Follows(pre[a], N[a].path, pre[N[a].child[s]])
         /\ \A r \in Children(N[a]) : N[a].child[s] = N[a].child[r] => s = r
BY DEF Shaped, Placed, Spells, Kids, Once

(* The same of a child that has a name. *)
LEMMA KidStands ==
  ASSUME NEW N, NEW pre, Shaped(N, pre), NEW a \in DOMAIN N, NEW s \in Children(N[a]), NEW c, c = N[a].child[s]
  PROVE  KidAt(N, pre, a, s, c)
BY KidsAre DEF KidAt

SetGraft(t, w, d) == One(w.at, Marked(t.nodes[w.at], w.agree, d))

NodeFacts(N, pre, at) ==
  LET node == N[at] IN
  /\ node \in Node /\ node.child \in [0 .. node.mod - 1 -> Nat] /\ node.mod # 1
  /\ (node.path = << >> <=> at = 0) /\ DOMAIN N \subseteq Nat /\ (at = 0 => node.mod = VTKEY_NUM)
  /\ node.path \in Seq(Entry) /\ pre[at] \in Seq(Char) /\ Len(pre[at]) + Len(node.path) <= MaxKeyLen

(* What is known of any node of a trie. *)
LEMMA ShapedNode ==
  ASSUME NEW N, NEW pre, Shaped(N, pre), NEW at \in DOMAIN N
  PROVE  NodeFacts(N, pre, at)
<1>1. PICK node : node = N[at]
  OBVIOUS
<1>2. /\ node \in Node /\ node.child \in [0 .. node.mod - 1 -> Nat] /\ node.mod # 1
      /\ (node.path = << >> <=> at = 0) /\ DOMAIN N \subseteq Nat /\ (at = 0 => node.mod = VTKEY_NUM)
  BY <1>1 DEF Shaped, Typed
<1>3. pre[at] \in Seq(Char) /\ Len(pre[at]) + Len(node.path) <= MaxKeyLen
  BY <1>1 DEF Shaped, Spells
<1>4. node.path \in Seq(Entry)
  BY <1>2 DEF Node
<1> QED
  BY <1>1, <1>2, <1>3, <1>4 DEF NodeFacts

(***************************************************************************)
(* setValue for a word that ends in a node: the node is grafted in its own *)
(* place.                                                                  *)
(***************************************************************************)
LEMMA SetInsertion ==
  ASSUME NEW t, NEW pre, Sound(t, pre), NEW key, NEW w, Meets(t, pre, key, w), w.agree = Len(w.rest),
         NEW d \in Nat, NEW u, u.nodes = [t.nodes EXCEPT ![w.at].path[w.agree].data = d],
         u.end = t.end, u.wasted = t.wasted
  PROVE  Insertion(t, pre, w.at, w.at, SetGraft(t, w, d), One(w.at, pre[w.at]), u)
<1>1. PICK N, at, k, node, p : N = t.nodes /\ at = w.at /\ k = w.agree /\ node = t.nodes[w.at] /\ p = pre[w.at]
  OBVIOUS
<1>2. Shaped(N, pre) /\ at \in DOMAIN N /\ N[at] = node
  BY <1>1 DEF Sound, Shaped, Meets
<1>3. /\ node \in Node /\ node.child \in [0 .. node.mod - 1 -> Nat] /\ node.mod # 1
      /\ (node.path = << >> <=> at = 0) /\ DOMAIN N \subseteq Nat /\ (at = 0 => node.mod = VTKEY_NUM)
      /\ node.path \in Seq(Entry) /\ p \in Seq(Char) /\ Len(p) + Len(node.path) <= MaxKeyLen
  <2>1. NodeFacts(N, pre, at)
    BY <1>2, ShapedNode
  <2> QED
    BY <1>1, <2>1 DEF NodeFacts
<1>4. k \in 1 .. Len(node.path) /\ at # 0
  <2>1. k \in 0 .. Len(node.path) /\ k > 0
    BY <1>1 DEF Meets, AgreesTo
  <2>2. at # 0
    BY <1>1, <2>1 DEF Meets
  <2> QED
    BY <2>1, <2>2
<1>5. PICK n : n = Marked(node, k, d)
  OBVIOUS
<1>6. /\ n \in Node /\ n.mod = node.mod /\ n.child = node.child /\ NodeBytes(n) = NodeBytes(node)
      /\ n.path \in Seq(Entry) /\ Len(n.path) = Len(node.path)
      /\ \A i \in 1 .. Len(node.path) : n.path[i].ch = node.path[i].ch
  BY <1>3, <1>4, <1>5, MarkedIs
<1>7. PICK graft, q : graft = SetGraft(t, w, d) /\ q = One(at, p)
  OBVIOUS
<1>8. DOMAIN graft = { at } /\ graft[at] = n /\ DOMAIN q = { at } /\ q[at] = p /\ graft = One(at, n)
  BY <1>1, <1>5, <1>7 DEF SetGraft, One
<1>9. Children(n) = Children(node)
  BY <1>6 DEF Children
<1>10. GraftTyped(N, at, at, graft)
  <2>1. IsFiniteSet({ at })
    BY FS_Singleton
  <2>2. n.path # << >> /\ First(graft, at) = First(N, at)
    <3>1. Len(node.path) > 0
      BY <1>3, <1>4
    <3>2. n.path[1].ch = node.path[1].ch
      BY <1>3, <1>6, <3>1
    <3> QED
      BY <1>2, <1>6, <1>8, <3>1, <3>2 DEF First
  <2> QED
    BY <1>2, <1>3, <1>4, <1>6, <1>8, <2>1, <2>2 DEF GraftTyped
<1>11. GraftLinked(N, pre, at, at, graft, q)
  <2>1. ASSUME NEW s \in Children(n)
        PROVE  LET c == n.child[s] IN
               /\ c \in Kids(N, at) /\ First(N, c) % n.mod = s /\ Follows(p, n.path, pre[c])
               /\ \A r \in Children(n) : n.child[s] = n.child[r] => s = r
    <3>1. PICK c : c = n.child[s]
      OBVIOUS
    <3>2. s \in Children(N[at]) /\ c = N[at].child[s]
      BY <1>2, <1>6, <1>9, <3>1
    <3>3. /\ c \in Kids(N, at) /\ First(N, c) % node.mod = s /\ Follows(p, node.path, pre[c])
          /\ \A r \in Children(N[at]) : N[at].child[s] = N[at].child[r] => s = r
      <4>1. KidAt(N, pre, at, s, c)
        BY <1>2, <3>2, KidStands
      <4>2. p = pre[at] /\ node = N[at] /\ c = N[at].child[s]
        BY <1>1, <1>2, <3>2
      <4> QED
        BY <4>1, <4>2 DEF KidAt
    <3>4. Follows(p, n.path, pre[c])
      BY <1>6, <3>3, FollowsSame
    <3> QED
      BY <1>2, <1>6, <1>9, <3>1, <3>3, <3>4
  <2>2. \A c \in Kids(N, at) : \E s \in Children(n) : n.child[s] = c
    BY <1>2, <1>6, <1>9 DEF Kids
  <2> QED
    BY <1>8, <2>1, <2>2 DEF GraftLinked
<1>12. GraftSpells(pre, at, at, graft, q)
  <2>1. q \in [DOMAIN graft -> Seq(Char)]
    BY <1>3, <1>7, <1>8 DEF One
  <2> QED
    BY <1>1, <1>3, <1>6, <1>8, <2>1 DEF GraftSpells
<1>13. GraftTight(N, graft)
  <2> SUFFICES ASSUME NEW m \in 1 .. n.mod - 1
               PROVE  \E s, r \in Children(n) :
                        s # r /\ FirstOf(N, graft, n.child[s]) % m = FirstOf(N, graft, n.child[r]) % m
    BY <1>8 DEF GraftTight
  <2>1. PICK s \in Children(node), r \in Children(node) :
          s # r /\ First(N, node.child[s]) % m = First(N, node.child[r]) % m
    BY <1>2, <1>4, <1>6 DEF Shaped, Tight, Clash
  <2>2. ASSUME NEW x \in Children(node) PROVE FirstOf(N, graft, n.child[x]) = First(N, node.child[x])
    <3>1. node.child[x] \in Kids(N, at)
      BY <1>2 DEF Kids
    <3>2. node.child[x] # at
      BY <1>2, <3>1, NotItsChild
    <3> QED
      BY <1>6, <1>8, <3>2 DEF FirstOf
  <2> QED
    BY <1>9, <2>1, <2>2
<1>14. Graft(N, pre, at, at, graft, q)
  BY <1>2, <1>10, <1>11, <1>12, <1>13 DEF Graft
<1>15. Grafted(N, u.nodes, at, at, graft)
  <2>1. u.nodes = [N EXCEPT ![at] = n]
    BY <1>1, <1>5 DEF Marked
  <2>2. DOMAIN u.nodes = DOMAIN N /\ u.nodes[at] = n /\ \A x \in DOMAIN N \ { at } : u.nodes[x] = N[x]
    <3>1. PICK M : M = u.nodes
      OBVIOUS
    <3>2. M = [N EXCEPT ![at] = n]
      BY <2>1, <3>1
    <3>3. DOMAIN M = DOMAIN N /\ M[at] = n /\ \A x \in DOMAIN N \ { at } : M[x] = N[x]
      BY <1>2, <3>2
    <3> QED
      BY <3>1, <3>3, Zenon
  <2>3. ASSUME NEW x \in DOMAIN N \ { at } PROVE u.nodes[x] = Redirect(N[x], at, at)
    <3>1. Redirect(N[x], at, at) = N[x]
      BY <1>2, RedirectSelf DEF Shaped
    <3> QED
      BY <2>2, <3>1, Zenon
  <2> QED
    <3>1. PICK M : M = u.nodes
      OBVIOUS
    <3>2. DOMAIN M = DOMAIN N /\ M[at] = n /\ \A x \in DOMAIN N \ { at } : M[x] = Redirect(N[x], at, at)
      BY <2>2, <2>3, <3>1
    <3>3. DOMAIN M = (DOMAIN N \ { at }) \cup DOMAIN graft
      BY <1>2, <1>8, <3>2
    <3>4. \A x \in DOMAIN graft : M[x] = graft[x]
      BY <1>8, <3>2
    <3>5. Grafted(N, M, at, at, graft)
      BY <3>2, <3>3, <3>4, Zenon DEF Grafted
    <3> QED
      BY <3>1, <3>5, Zenon
<1>16. Room(t, at, graft, u.end, u.wasted)
  <2>1. Bytes(t, at) = NodeBytes(node) /\ Bytes(t, at) \in Nat
    <3>1. Bytes(t, at) \in Nat
      BY <1>1, <1>2, Sizes DEF Shaped
    <3> QED
      BY <1>1, <1>2, <1>4, <3>1 DEF Bytes
  <2>2. /\ Bytes(New(graft), at) = NodeBytes(node)
        /\ Total(SizeOf(New(graft)), DOMAIN graft) = NodeBytes(node)
    <3>1. NodeBytes(n) \in Nat
      BY <1>6, <2>1
    <3>2. /\ Bytes(New(graft), at) = IF at = 0 THEN Header ELSE NodeBytes(n)
          /\ Total(SizeOf(New(graft)), DOMAIN graft) = Bytes(New(graft), at)
      BY <1>8, <3>1, OneBytes
    <3> QED
      BY <1>4, <1>6, <3>2
  <2>3. t.end \in Nat /\ t.wasted \in Nat /\ at \in Nat
    BY <1>2, <1>3 DEF Sound, IsTrie
  <2>4. \A x, y \in DOMAIN graft : ~(x < y)
    BY <1>8, <2>3
  <2> QED
    BY <1>8, <2>1, <2>2, <2>3, <2>4 DEF Room
<1>17. u.end - t.end <= MIN_REMAIN + 1
  BY SizesAre DEF Sound, IsTrie
<1>90. u.end \in Nat /\ u.wasted \in Nat
  BY DEF Sound, IsTrie
<1> QED
  BY <1>1, <1>7, <1>14, <1>15, <1>16, <1>17, <1>90 DEF Insertion

(* Behind the last byte no node begins. *)
LEMMA EndFree ==
  ASSUME NEW t, NEW pre, Sound(t, pre)
  PROVE  /\ t.end \in Nat /\ t.end > 0 /\ t.wasted \in Nat /\ DOMAIN t.nodes \subseteq Nat
         /\ \A a \in DOMAIN t.nodes : /\ a + Bytes(t, a) <= t.end /\ Bytes(t, a) \in Nat /\ Bytes(t, a) > 0
                                      /\ a < t.end
<1>1. t.end \in Nat /\ t.wasted \in Nat /\ DOMAIN t.nodes \subseteq Nat /\ 0 \in DOMAIN t.nodes
  BY DEF Sound, IsTrie, Typed
<1>2. \A a \in DOMAIN t.nodes : Bytes(t, a) \in Nat /\ Bytes(t, a) > 0
  BY Sizes DEF Sound
<1>3. ASSUME NEW a \in DOMAIN t.nodes
      PROVE  a + Bytes(t, a) <= t.end /\ Bytes(t, a) \in Nat /\ Bytes(t, a) > 0 /\ a < t.end
  <2>1. a + Bytes(t, a) <= t.end
    BY DEF Sound, Fits, Apart
  <2>2. a \in Nat
    BY <1>1
  <2> QED
    BY <1>1, <1>2, <2>1, <2>2
<1>4. t.end > 0
  BY <1>1, <1>3
<1> QED
  BY <1>1, <1>3, <1>4

MetSizes(t, pre, w) ==
  LET node == t.nodes[w.at]
      rest == Rest(w.rest, w.agree) IN
  /\ node \in Node /\ node.child \in [0 .. node.mod - 1 -> Nat] /\ node.mod # 1 /\ node.mod \in 0 .. VTKEY_NUM
  /\ (node.path = << >> <=> w.at = 0) /\ (w.at = 0 => node.mod = VTKEY_NUM)
  /\ w.at \in DOMAIN t.nodes /\ w.at \in Nat
  /\ node.path \in Seq(Entry) /\ pre[w.at] \in Seq(Char)
  /\ Len(pre[w.at]) + Len(node.path) <= MaxKeyLen
  /\ Len(node.path) \in Nat /\ Len(pre[w.at]) \in Nat
  /\ w.agree \in 0 .. Len(node.path) /\ w.agree \in 0 .. Len(w.rest)
  /\ rest \in Seq(Char) /\ Len(rest) = Len(w.rest) - w.agree /\ Len(w.rest) \in Nat
  /\ Len(pre[w.at]) + Len(w.rest) <= MaxKeyLen
  /\ \A i \in 1 .. Len(rest) : rest[i] = w.rest[w.agree + i]
  /\ w.agree < Len(w.rest) => rest # << >> /\ rest[1] \in Char /\ rest[1] = w.rest[w.agree + 1]

(* Sizes of what the walk met. *)
LEMMA MeetsSizes ==
  ASSUME NEW t, NEW pre, Shaped(t.nodes, pre), NEW key, NEW w, Meets(t, pre, key, w)
  PROVE  MetSizes(t, pre, w)
<1>1. PICK N, node, p, rest : N = t.nodes /\ node = t.nodes[w.at] /\ p = pre[w.at] /\ rest = Rest(w.rest, w.agree)
  OBVIOUS
<1>2. w.at \in DOMAIN N
  BY <1>1 DEF Meets
<1>3. /\ node \in Node /\ node.child \in [0 .. node.mod - 1 -> Nat] /\ node.mod # 1 /\ node.mod \in 0 .. VTKEY_NUM
      /\ (node.path = << >> <=> w.at = 0) /\ (w.at = 0 => node.mod = VTKEY_NUM)
      /\ w.at \in Nat /\ node.path \in Seq(Entry) /\ p \in Seq(Char) /\ Len(p) + Len(node.path) <= MaxKeyLen
  BY <1>1, <1>2 DEF Shaped, Typed, Node, Spells
<1>4. w.agree \in 0 .. Len(node.path) /\ w.agree \in 0 .. Len(w.rest) /\ w.rest \in Seq(Char)
  BY <1>1 DEF Meets, AgreesTo
<1>5. /\ rest \in Seq(Char) /\ Len(rest) = Len(w.rest) - w.agree
      /\ \A i \in 1 .. Len(w.rest) - w.agree : rest[i] = w.rest[w.agree + i]
  BY <1>1, <1>4, RestIs
<1>6. Len(p) + Len(w.rest) <= MaxKeyLen
  BY <1>1 DEF Meets
<1>7. Len(w.rest) \in Nat /\ Len(node.path) \in Nat /\ Len(p) \in Nat
  BY <1>3, <1>4
<1>8. \A i \in 1 .. Len(rest) : rest[i] = w.rest[w.agree + i]
  BY <1>5
<1>9. ASSUME w.agree < Len(w.rest) PROVE rest # << >> /\ rest[1] \in Char /\ rest[1] = w.rest[w.agree + 1]
  <2>1. 1 \in 1 .. Len(w.rest) - w.agree
    BY <1>4, <1>7, <1>9
  <2>2. Len(rest) > 0 /\ 1 \in 1 .. Len(rest)
    BY <1>5, <2>1
  <2> QED
    BY <1>5, <2>1, <2>2
<1>10. Len(rest) = Len(w.rest) - w.agree /\ rest \in Seq(Char)
  BY <1>5
<1> QED
  BY <1>1, <1>2, <1>3, <1>4, <1>6, <1>7, <1>8, <1>9, <1>10 DEF MetSizes

GrownOk(node, chars, d) ==
  LET n == Grown(node, chars, d) IN
  /\ n \in Node /\ n.mod = node.mod /\ n.child = node.child
  /\ n.path \in Seq(Entry) /\ Len(n.path) = Len(node.path) + Len(chars)
  /\ NodeBytes(n) = NodeBytes(node) + 5 * Len(chars)
  /\ \A i \in 1 .. Len(node.path) : n.path[i] = node.path[i]
  /\ \A i \in 1 .. Len(chars) : n.path[Len(node.path) + i] = Entries(chars, d)[i]

(* A leaf with more characters. *)
LEMMA GrownIs ==
  ASSUME NEW node \in Node, NEW chars \in Seq(Char), NEW d \in Nat
  PROVE  GrownOk(node, chars, d)
<1>1. PICK path, mod, child : path = node.path /\ mod = node.mod /\ child = node.child
  OBVIOUS
<1>2. node = [path |-> path, mod |-> mod, child |-> child] /\ path \in Seq(Entry) /\ mod \in 0 .. VTKEY_NUM
  BY <1>1 DEF Node
<1>3. PICK e : e = Entries(chars, d)
  OBVIOUS
<1>4. e \in Seq(Entry) /\ Len(e) = Len(chars)
  BY <1>3, EntriesAre
<1>5. PICK p2 : p2 = path \o e
  OBVIOUS
<1>6. /\ p2 \in Seq(Entry) /\ Len(p2) = Len(path) + Len(chars)
      /\ \A i \in 1 .. Len(path) : p2[i] = path[i]
      /\ \A i \in 1 .. Len(chars) : p2[Len(path) + i] = e[i]
  <2>1. p2 \in Seq(Entry)
    BY <1>2, <1>4, <1>5
  <2>2. Len(p2) = Len(path) + Len(e)
    BY <1>2, <1>4, <1>5
  <2>3. PICK l \in Nat, m \in Nat : l = Len(path) /\ m = Len(e)
    BY <1>2, <1>4
  <2>4. ASSUME NEW i \in 1 .. l PROVE p2[i] = path[i]
    BY <1>2, <1>4, <1>5, <2>3
  <2>5. ASSUME NEW i \in 1 .. m PROVE p2[l + i] = e[i]
    <3>1. l + i \in 1 .. l + m /\ ~(l + i <= l) /\ (l + i) - l = i
      BY <2>3
    <3> QED
      BY <1>2, <1>4, <1>5, <2>3, <3>1
  <2> QED
    BY <1>4, <2>1, <2>2, <2>3, <2>4, <2>5
<1>7. PICK n : n = Grown(node, chars, d)
  OBVIOUS
<1>8. n = [path |-> p2, mod |-> mod, child |-> child]
  BY <1>1, <1>2, <1>3, <1>5, <1>7 DEF Grown
<1>9. n \in Node
  BY <1>1, <1>6, <1>8 DEF Node
<1>10. NodeBytes(n) = NodeBytes(node) + 5 * Len(chars)
  <2>1. PICK l \in Nat, m \in Nat, c \in Nat : l = Len(path) /\ m = mod /\ c = Len(chars)
    BY <1>2, CodesAssumption
  <2>2. NodeBytes(n) = 1 + 5 * (l + c) + 1 + 4 * m /\ NodeBytes(node) = 1 + 5 * l + 1 + 4 * m
    BY <1>1, <1>6, <1>8, <2>1 DEF NodeBytes, PathBytes, VTSAMEPS_L, VTENTRY_L, VTCHILDS_L, VTPTR_L
  <2> QED
    BY <2>1, <2>2
<1> QED
  BY <1>1, <1>3, <1>6, <1>7, <1>8, <1>9, <1>10 DEF GrownOk

(* A graft of one node. *)
LEMMA RoomOne ==
  ASSUME NEW t, NEW at \in Nat, NEW e \in Nat, e # 0, NEW n, NEW b \in Nat, b = NodeBytes(n),
         NEW end, NEW wasted, NEW c \in Nat, c = Bytes(t, at),
         \/ t.end <= e /\ e + b <= end
         \/ at + c = t.end /\ at <= e /\ e + b <= end,
         t.end <= end, b + wasted <= c + t.wasted + (end - t.end)
  PROVE  Room(t, at, One(e, n), end, wasted)
<1>1. PICK graft : graft = One(e, n)
  OBVIOUS
<1>2. DOMAIN graft = { e } /\ Bytes(New(graft), e) = b /\ Total(SizeOf(New(graft)), DOMAIN graft) = b
  <2>1. /\ DOMAIN graft = { e }
        /\ Bytes(New(graft), e) = IF e = 0 THEN Header ELSE NodeBytes(n)
        /\ Total(SizeOf(New(graft)), DOMAIN graft) = Bytes(New(graft), e)
    BY <1>1, OneBytes
  <2> QED
    BY <2>1
<1>3. \A x, y \in DOMAIN graft : ~(x < y)
  BY <1>2
<1>4. Room(t, at, graft, end, wasted)
  BY <1>2, <1>3 DEF Room
<1> QED
  BY <1>1, <1>4

(* A leaf with more characters, at its place or another. *)
GrownNode(t, w, d) == Grown(t.nodes[w.at], Rest(w.rest, w.agree), d)

(* A leaf with more characters is a graft, wherever it is put. *)
LEMMA GrownGraft ==
  ASSUME NEW t, NEW pre, Sound(t, pre), NEW key, NEW w, Meets(t, pre, key, w), NEW d \in Nat,
         w.agree < Len(w.rest), w.agree = Len(t.nodes[w.at].path), t.nodes[w.at].mod = 0,
         NEW e \in Nat, e # 0, e \notin DOMAIN t.nodes \ { w.at }
  PROVE  /\ Graft(t.nodes, pre, w.at, e, One(e, GrownNode(t, w, d)), One(e, pre[w.at]))
         /\ w.at # 0 /\ NodeBytes(GrownNode(t, w, d)) \in Nat
         /\ NodeBytes(GrownNode(t, w, d)) >= NodeBytes(t.nodes[w.at])
         /\ NodeBytes(GrownNode(t, w, d)) <= 2 + 5 * MaxKeyLen
<1>1. PICK N, at, node, p, rest, n :
        /\ N = t.nodes /\ at = w.at /\ node = t.nodes[w.at] /\ p = pre[w.at] /\ rest = Rest(w.rest, w.agree)
        /\ n = Grown(node, rest, d)
  OBVIOUS
<1>2. Shaped(N, pre) /\ n = GrownNode(t, w, d)
  BY <1>1 DEF Sound, Shaped, GrownNode
<1>3. /\ node \in Node /\ node.child \in [0 .. node.mod - 1 -> Nat]
      /\ (node.path = << >> <=> at = 0) /\ (at = 0 => node.mod = VTKEY_NUM)
      /\ at \in DOMAIN N /\ node.path \in Seq(Entry) /\ p \in Seq(Char)
      /\ Len(node.path) \in Nat /\ Len(p) \in Nat
      /\ rest \in Seq(Char) /\ Len(rest) = Len(w.rest) - w.agree /\ Len(w.rest) \in Nat
      /\ Len(p) + Len(w.rest) <= MaxKeyLen
  <2>1. MetSizes(t, pre, w)
    BY <1>1, <1>2, MeetsSizes
  <2> QED
    BY <1>1, <2>1 DEF MetSizes
<1>4. at # 0 /\ node.mod = 0 /\ Len(node.path) = w.agree /\ node.path # << >>
  BY <1>1, <1>3, CodesAssumption
<1>5. /\ n \in Node /\ n.mod = 0 /\ n.child = node.child
      /\ n.path \in Seq(Entry) /\ Len(n.path) = Len(node.path) + Len(rest)
      /\ NodeBytes(n) = NodeBytes(node) + 5 * Len(rest)
      /\ \A i \in 1 .. Len(node.path) : n.path[i] = node.path[i]
  <2>1. GrownOk(node, rest, d)
    BY <1>3, GrownIs
  <2> QED
    BY <1>1, <1>4, <2>1, Zenon DEF GrownOk
<1>6. Children(n) = {} /\ Children(node) = {}
  BY <1>3, <1>4, <1>5 DEF Children
<1>7. Kids(N, at) = {}
  BY <1>1, <1>6 DEF Kids
<1>8. PICK graft, q : graft = One(e, n) /\ q = One(e, p)
  OBVIOUS
<1>9. DOMAIN graft = { e } /\ graft[e] = n /\ DOMAIN q = { e } /\ q[e] = p
  BY <1>8 DEF One
<1>10. Len(n.path) = Len(w.rest) /\ Len(node.path) > 0 /\ Len(n.path) > 0
  <2>1. PICK l \in Nat, m \in Nat : l = Len(w.rest) /\ m = Len(node.path)
    BY <1>3
  <2>2. Len(rest) = l - m
    BY <1>3, <1>4, <2>1
  <2>3. m + (l - m) = l
    BY <2>1
  <2>4. Len(node.path) # 0
    BY <1>3, <1>4
  <2>5. Len(n.path) = m + (l - m)
    BY <1>5, <2>1, <2>2
  <2>6. Len(n.path) = l
    BY <2>3, <2>5
  <2>7. Len(node.path) > 0 /\ m > 0
    BY <2>1, <2>4
  <2>8. l > 0
    BY <1>3, <1>4, <2>1
  <2> QED
    BY <2>1, <2>6, <2>7, <2>8
<1>11. GraftTyped(N, at, e, graft)
  <2>1. IsFiniteSet({ e })
    BY FS_Singleton
  <2>2. n.path # << >>
    BY <1>10
  <2>3. First(graft, e) = First(N, at)
    <3>1. n.path[1] = node.path[1]
      BY <1>3, <1>5, <1>10
    <3> QED
      BY <1>1, <1>9, <3>1 DEF First
  <2>4. n.child \in [0 .. n.mod - 1 -> Nat]
    BY <1>3, <1>4, <1>5
  <2>5. DOMAIN graft \cap (DOMAIN N \ { at }) = {} /\ DOMAIN graft \subseteq Nat
    BY <1>1, <1>9
  <2>6. n.mod # 1 /\ n \in Node
    BY <1>5
  <2>7. ASSUME NEW x \in DOMAIN graft
        PROVE  /\ x = 0 <=> x = e /\ at = 0
               /\ graft[x] \in Node
               /\ graft[x].child \in [0 .. graft[x].mod - 1 -> Nat]
               /\ graft[x].mod # 1
               /\ graft[x].path = << >> <=> x = 0
    <3>1. x = e /\ graft[x] = n
      BY <1>9
    <3> QED
      BY <1>4, <2>2, <2>4, <2>6, <3>1
  <2>8. e \in DOMAIN graft /\ IsFiniteSet(DOMAIN graft)
    BY <1>9, <2>1
  <2> QED
    BY <1>4, <2>3, <2>5, <2>7, <2>8, Zenon DEF GraftTyped
<1>12. GraftLinked(N, pre, at, e, graft, q)
  BY <1>6, <1>7, <1>9 DEF GraftLinked
<1>13. GraftSpells(pre, at, e, graft, q)
  <2>1. q \in [DOMAIN graft -> Seq(Char)]
    BY <1>3, <1>8, <1>9 DEF One
  <2> QED
    BY <1>1, <1>3, <1>9, <1>10, <2>1 DEF GraftSpells
<1>14. GraftTight(N, graft)
  BY <1>5, <1>9 DEF GraftTight
<1>15. Graft(N, pre, at, e, graft, q)
  BY <1>3, <1>11, <1>12, <1>13, <1>14 DEF Graft
<1>16. NodeBytes(n) \in Nat /\ NodeBytes(n) >= NodeBytes(node) /\ NodeBytes(n) <= 2 + 5 * MaxKeyLen
  <2>1. PICK l \in Nat, m \in Nat, k \in Nat : l = Len(w.rest) /\ m = Len(node.path) /\ k = Len(p)
    BY <1>3
  <2>2. Len(rest) = l - m /\ m < l /\ k + l <= MaxKeyLen
    BY <1>1, <1>3, <1>4, <2>1
  <2>3. NodeBytes(node) = 1 + 5 * m + 1 + 4 * 0
    BY <1>4, <2>1 DEF NodeBytes, PathBytes, VTSAMEPS_L, VTENTRY_L, VTCHILDS_L, VTPTR_L
  <2>4. PICK b : b = NodeBytes(n)
    OBVIOUS
  <2>5. b = (1 + 5 * m + 1 + 4 * 0) + 5 * (l - m) /\ MaxKeyLen \in Nat
    BY <1>5, <2>2, <2>3, <2>4, NatAssumption
  <2>6. m < l /\ k + l <= MaxKeyLen
    BY <2>2
  <2>7. b = 2 + 5 * l
    BY <2>5
  <2>8. b \in Nat /\ b >= 1 + 5 * m + 1 + 4 * 0 /\ b <= 2 + 5 * MaxKeyLen
    BY <2>6, <2>7, NatAssumption
  <2> QED
    BY <2>3, <2>4, <2>8
<1> QED
  BY <1>1, <1>2, <1>4, <1>8, <1>15, <1>16

(* The last leaf of the block grows where it is. *)
LEMMA GrowInsertion ==
  ASSUME NEW t, NEW pre, Sound(t, pre), NEW key, NEW w, Meets(t, pre, key, w), NEW d \in Nat,
         w.agree < Len(w.rest), w.agree = Len(t.nodes[w.at].path), t.nodes[w.at].mod = 0, AtEnd(t, w.at),
         NEW u, u.nodes = [t.nodes EXCEPT ![w.at] = GrownNode(t, w, d)],
         u.end = w.at + NodeBytes(GrownNode(t, w, d)), u.wasted = t.wasted
  PROVE  Insertion(t, pre, w.at, w.at, One(w.at, GrownNode(t, w, d)), One(w.at, pre[w.at]), u)
<1>1. PICK N, at, n, graft, q :
        N = t.nodes /\ at = w.at /\ n = GrownNode(t, w, d) /\ graft = One(w.at, n) /\ q = One(w.at, pre[w.at])
  OBVIOUS
<1>2. Shaped(N, pre) /\ at \in DOMAIN N
  BY <1>1 DEF Sound, Shaped, Meets
<1>3. /\ t.end \in Nat /\ t.wasted \in Nat /\ DOMAIN N \subseteq Nat
      /\ at + Bytes(t, at) <= t.end /\ Bytes(t, at) \in Nat
  BY <1>1, <1>2, EndFree
<1>4. at # 0 /\ at \in Nat
  <2>1. MetSizes(t, pre, w)
    BY <1>1, <1>2, MeetsSizes
  <2> QED
    BY <1>1, <2>1, CodesAssumption DEF MetSizes
<1>5. /\ Graft(N, pre, at, at, graft, q)
      /\ NodeBytes(n) \in Nat /\ NodeBytes(n) >= NodeBytes(N[at]) /\ NodeBytes(n) <= 2 + 5 * MaxKeyLen
  BY <1>1, <1>4, GrownGraft
<1>6. DOMAIN graft = { at } /\ graft[at] = n
  BY <1>1 DEF One
<1>7. Grafted(N, u.nodes, at, at, graft)
  <2>1. DOMAIN u.nodes = DOMAIN N /\ u.nodes[at] = n /\ \A x \in DOMAIN N \ { at } : u.nodes[x] = N[x]
    BY <1>1, <1>2
  <2>2. ASSUME NEW x \in DOMAIN N \ { at } PROVE u.nodes[x] = Redirect(N[x], at, at)
    <3>1. Redirect(N[x], at, at) = N[x]
      BY <1>2, RedirectSelf DEF Shaped
    <3> QED
      BY <2>1, <3>1
  <2> QED
    BY <1>2, <1>6, <2>1, <2>2 DEF Grafted
<1>8. Bytes(t, at) = NodeBytes(N[at]) /\ at + Bytes(t, at) = t.end /\ u.end = at + NodeBytes(n) /\ u.wasted = t.wasted
  BY <1>1, <1>4 DEF Bytes, AtEnd
<1>10. Room(t, at, graft, u.end, u.wasted)
  <2>1. PICK b \in Nat, c \in Nat, o \in Nat : b = NodeBytes(n) /\ c = Bytes(t, at) /\ o = t.wasted
    BY <1>3, <1>5
  <2>2. b >= c /\ t.end = at + c /\ u.end = at + b
    BY <1>5, <1>8, <2>1
  <2>3. b + o <= c + o + (u.end - t.end) /\ t.end <= u.end /\ at + c = t.end /\ at + b <= u.end
    <3>1. PICK i, j, k : i = u.end /\ j = t.end /\ k = at
      OBVIOUS
    <3>4. k \in Nat
      BY <1>4, <3>1
    <3>2. b >= c /\ j = k + c /\ i = k + b
      BY <2>2, <3>1
    <3>3. b + o <= c + o + (i - j) /\ j <= i /\ k + c = j /\ k + b <= i
      BY <3>2, <3>4
    <3> QED
      BY <3>1, <3>3
  <2>4. u.wasted = o /\ t.wasted = o
    BY <1>8, <2>1
  <2> QED
    <3>1. PICK end, wasted : end = u.end /\ wasted = u.wasted
      OBVIOUS
    <3>2. /\ b + wasted <= c + t.wasted + (end - t.end) /\ t.end <= end /\ at + c = t.end /\ at + b <= end
          /\ graft = One(at, n) /\ at # 0 /\ at \in Nat /\ b = NodeBytes(n) /\ c = Bytes(t, at)
      BY <1>1, <1>4, <2>1, <2>3, <2>4, <3>1
    <3>3. Room(t, at, graft, end, wasted)
      BY <3>2, RoomOne
    <3> QED
      BY <3>1, <3>3, Zenon
<1>11. u.end - t.end <= MIN_REMAIN + 1
  <2>1. PICK b \in Nat, c \in Nat : b = NodeBytes(n) /\ c = Bytes(t, at)
    BY <1>3, <1>5
  <2>2. u.end = at + b /\ t.end = at + c /\ b <= 2 + 5 * MaxKeyLen
    BY <1>5, <1>8, <2>1
  <2> QED
    <3>1. PICK a \in Nat, m \in Nat, k \in Nat, v \in Nat : a = at /\ m = MIN_REMAIN /\ k = MaxKeyLen /\ v = VTKEY_NUM
      BY <1>4, NatAssumption, CodesAssumption
    <3>2. m + 1 >= 4 + 5 * (k + v)
      BY <3>1, SizesAre
    <3>3. (a + b) - (a + c) <= m + 1
      BY <2>2, <3>1, <3>2
    <3> QED
      BY <2>2, <3>1, <3>3
<1>90. u.end \in Nat /\ u.wasted \in Nat
  <2>1. PICK b \in Nat, a \in Nat : b = NodeBytes(n) /\ a = at
    BY <1>4, <1>5
  <2>2. u.end = a + b /\ u.wasted = t.wasted /\ t.wasted \in Nat
    BY <1>3, <1>8, <2>1
  <2> QED
    BY <2>2
<1> QED
  BY <1>1, <1>5, <1>7, <1>10, <1>11, <1>90 DEF Insertion

(***************************************************************************)
(* Any other leaf grows at the end of the block, and its old place is      *)
(* wasted.                                                                 *)
(***************************************************************************)
LEMMA MoveInsertion ==
  ASSUME NEW t, NEW pre, Sound(t, pre), NEW key, NEW w, Meets(t, pre, key, w), NEW d \in Nat,
         w.agree < Len(w.rest), w.agree = Len(t.nodes[w.at].path), t.nodes[w.at].mod = 0,
         NEW u, u.nodes = Plus(Point(Without(t.nodes, w.at), w.from, t.end), t.end, GrownNode(t, w, d)),
         u.end = t.end + NodeBytes(GrownNode(t, w, d)), u.wasted = t.wasted + NodeBytes(t.nodes[w.at])
  PROVE  Insertion(t, pre, w.at, t.end, One(t.end, GrownNode(t, w, d)), One(t.end, pre[w.at]), u)
<1>1. PICK N, at, e, n, graft, q :
        /\ N = t.nodes /\ at = w.at /\ e = t.end /\ n = GrownNode(t, w, d)
        /\ graft = One(e, n) /\ q = One(e, pre[w.at])
  OBVIOUS
<1>2. Shaped(N, pre) /\ at \in DOMAIN N
  BY <1>1 DEF Sound, Shaped, Meets
<1>3. /\ e \in Nat /\ e > 0 /\ t.wasted \in Nat /\ DOMAIN N \subseteq Nat
      /\ Bytes(t, at) \in Nat /\ \A a \in DOMAIN N : a < e
  BY <1>1, <1>2, EndFree
<1>4. e \notin DOMAIN N
  BY <1>3
<1>5. /\ Graft(N, pre, at, e, graft, q) /\ at # 0
      /\ NodeBytes(n) \in Nat /\ NodeBytes(n) <= 2 + 5 * MaxKeyLen
  BY <1>1, <1>3, <1>4, GrownGraft
<1>6. DOMAIN graft = { e } /\ graft[e] = n
  BY <1>1 DEF One
<1>7. Grafted(N, u.nodes, at, e, graft)
  <2>1. PICK M : M = Point(Without(N, at), w.from, e)
    OBVIOUS
  <2>2. DOMAIN M = DOMAIN N \ { at } /\ \A x \in DOMAIN N \ { at } : M[x] = Redirect(N[x], at, e)
    <3>1. w.from[1] \in DOMAIN N /\ w.from[2] \in Children(N[w.from[1]]) /\ N[w.from[1]].child[w.from[2]] = at
      BY <1>1, <1>5 DEF Meets
    <3>2. at \in DOMAIN N \ { 0 }
      BY <1>2, <1>5
    <3>3. PICK from : from = w.from
      OBVIOUS
    <3>4. Pointed(N, at, from, e)
      BY <1>2, <3>1, <3>2, <3>3, PointIs
    <3> QED
      BY <2>1, <3>3, <3>4 DEF Pointed
  <2>3. u.nodes = Plus(M, e, n)
    BY <1>1, <2>1
  <2>4. DOMAIN Plus(M, e, n) = DOMAIN M \cup { e } /\ Plus(M, e, n)[e] = n
        /\ \A x \in DOMAIN M : x # e => Plus(M, e, n)[x] = M[x]
    BY DEF Plus
  <2>5. \A x \in DOMAIN N \ { at } : u.nodes[x] = Redirect(N[x], at, e)
    BY <1>4, <2>2, <2>3, <2>4
  <2> QED
    BY <1>6, <2>2, <2>3, <2>4, <2>5 DEF Grafted
<1>8. Bytes(t, at) = NodeBytes(N[at]) /\ u.end = e + NodeBytes(n) /\ u.wasted = t.wasted + Bytes(t, at) /\ t.end = e
  BY <1>1, <1>5 DEF Bytes
<1>10. Room(t, at, graft, u.end, u.wasted)
  <2>2. PICK b \in Nat, c \in Nat : b = NodeBytes(n) /\ c = Bytes(t, at)
    BY <1>3, <1>5
  <2>3. b + (t.wasted + c) <= c + t.wasted + ((e + b) - e) /\ e <= e + b
    BY <1>3, <2>2
  <2>4. u.wasted = t.wasted + c /\ u.end = e + b
    BY <1>8, <2>2
  <2>5. /\ t.end <= e /\ e + b <= u.end /\ t.end <= u.end
        /\ b + u.wasted <= c + t.wasted + (u.end - t.end)
    BY <1>3, <1>8, <2>2, <2>3, <2>4
  <2>6. at \in Nat /\ e # 0 /\ e \in Nat
    BY <1>2, <1>3
  <2>7. graft = One(e, n)
    BY <1>1
  <2> QED
    BY <2>2, <2>5, <2>6, <2>7, RoomOne
<1>11. u.end - t.end <= MIN_REMAIN + 1
  <2>1. PICK b \in Nat : b = NodeBytes(n)
    BY <1>5
  <2>2. u.end = e + b /\ t.end = e /\ b <= 2 + 5 * MaxKeyLen
    BY <1>5, <1>8, <2>1
  <2> QED
    <3>1. PICK a \in Nat, m \in Nat, k \in Nat, v \in Nat : a = e /\ m = MIN_REMAIN /\ k = MaxKeyLen /\ v = VTKEY_NUM
      BY <1>3, NatAssumption, CodesAssumption
    <3>2. m + 1 >= 4 + 5 * (k + v)
      BY <3>1, SizesAre
    <3>3. (a + b) - a <= m + 1
      BY <2>2, <3>1, <3>2
    <3> QED
      BY <2>2, <3>1, <3>3
<1>90. u.end \in Nat /\ u.wasted \in Nat
  <2>1. PICK b \in Nat, c \in Nat, a \in Nat, o \in Nat : b = NodeBytes(n) /\ c = Bytes(t, at) /\ a = e /\ o = t.wasted
    BY <1>3, <1>5
  <2>2. u.end = a + b /\ u.wasted = o + c
    BY <1>8, <2>1
  <2> QED
    BY <2>2
<1> QED
  BY <1>1, <1>5, <1>7, <1>10, <1>11, <1>90 DEF Insertion
-----------------------------------------------------------------------------
(* The characters that lead past a path. *)
Onto(p, path) == [i \in 1 .. Len(p) + Len(path) |-> IF i <= Len(p) THEN p[i] ELSE path[i - Len(p)].ch]

(* The characters of a path after those that lead to it. *)
LEMMA OntoIs ==
  ASSUME NEW p \in Seq(Char), NEW path \in Seq(Entry)
  PROVE  /\ Onto(p, path) \in Seq(Char) /\ Len(Onto(p, path)) = Len(p) + Len(path)
         /\ Follows(p, path, Onto(p, path))
<1>0. PICK l \in Nat, m \in Nat : l = Len(p) /\ m = Len(path)
  OBVIOUS
<1>1. PICK r : l = Len(p) /\ m = Len(path) /\ r = Onto(p, path)
  BY <1>0
<1>2. r = [i \in 1 .. l + m |-> IF i <= l THEN p[i] ELSE path[i - l].ch]
  BY <1>1 DEF Onto
<1>3. \A i \in 1 .. l : p[i] \in Char
  BY <1>1
<1>4. \A i \in 1 .. m : path[i].ch \in Char
  <2>1. \A i \in 1 .. m : path[i] \in Entry
    BY <1>1
  <2> QED
    BY <2>1 DEF Entry
<1>5. ASSUME NEW i \in 1 .. l + m PROVE r[i] \in Char
  <2>1. CASE i <= l
    BY <1>2, <1>3, <2>1
  <2>2. CASE ~(i <= l)
    <3>1. i - l \in 1 .. m
      BY <2>2
    <3> QED
      BY <1>2, <1>4, <2>2, <3>1
  <2> QED
    BY <2>1, <2>2
<1>6. r \in [1 .. l + m -> Char]
  BY <1>2, <1>5
<1>7. r \in Seq(Char) /\ Len(r) = l + m
  BY <1>6
<1>8. \A i \in 1 .. l : r[i] = p[i]
  BY <1>2
<1>9. ASSUME NEW i \in 1 .. m PROVE r[l + i] = path[i].ch
  <2>1. l + i \in 1 .. l + m /\ ~(l + i <= l) /\ (l + i) - l = i
    OBVIOUS
  <2> QED
    BY <1>2, <2>1
<1> QED
  BY <1>1, <1>7, <1>8, <1>9 DEF Follows

(* Graft of a node and a new leaf below it. *)
Pair(e, n, f, leaf) == [x \in { e, f } |-> IF x = e THEN n ELSE leaf]

(* The codes below a node that gets a child for code. *)
CodesWith(N, at, code) == { First(N, c) : c \in Kids(N, at) } \cup { code }

ChildOk(N, at, n, f, code) ==
  /\ n \in Node /\ n.path = N[at].path /\ n.child \in [0 .. n.mod - 1 -> Nat] /\ n.mod # 1
  /\ at = 0 => n.mod = VTKEY_NUM
  /\ \A s \in Children(n) : \/ n.child[s] = f /\ code % n.mod = s
                            \/ n.child[s] \in Kids(N, at) /\ First(N, n.child[s]) % n.mod = s
  /\ \A c \in Kids(N, at) \cup { f } : \E s \in Children(n) : n.child[s] = c
  /\ at # 0 => \A m \in 1 .. n.mod - 1 : \E c, d \in CodesWith(N, at, code) : c # d /\ c % m = d % m

LeafOk(leaf) ==
  /\ leaf \in Node /\ leaf.child \in [0 .. leaf.mod - 1 -> Nat] /\ leaf.mod = 0
  /\ leaf.path # << >> /\ Children(leaf) = {}

(* A node with one more child is a graft of two. *)
LEMMA PairGraft ==
  ASSUME NEW N, NEW pre, Shaped(N, pre), NEW at \in DOMAIN N,
         NEW e \in Nat, NEW f \in Nat, f # 0, e # f, e \notin DOMAIN N \ { at }, f \notin DOMAIN N,
         e = 0 <=> at = 0, NEW n, NEW leaf, ChildOk(N, at, n, f, leaf.path[1].ch), LeafOk(leaf),
         Len(pre[at]) + Len(N[at].path) + Len(leaf.path) <= MaxKeyLen
  PROVE  Graft(N, pre, at, e, Pair(e, n, f, leaf), Pair(e, pre[at], f, Onto(pre[at], N[at].path)))
<1>1. PICK graft, p, r, q, node, code :
        /\ graft = Pair(e, n, f, leaf) /\ p = pre[at] /\ r = Onto(p, N[at].path) /\ q = Pair(e, p, f, r)
        /\ node = N[at] /\ code = leaf.path[1].ch
  OBVIOUS
<1>2. DOMAIN graft = { e, f } /\ graft[e] = n /\ graft[f] = leaf /\ DOMAIN q = { e, f } /\ q[e] = p /\ q[f] = r
  BY <1>1 DEF Pair
<1>3. /\ n \in Node /\ n.path = node.path /\ n.child \in [0 .. n.mod - 1 -> Nat] /\ n.mod # 1
      /\ at = 0 => n.mod = VTKEY_NUM
      /\ \A s \in Children(n) : \/ n.child[s] = f /\ code % n.mod = s
                                \/ n.child[s] \in Kids(N, at) /\ First(N, n.child[s]) % n.mod = s
      /\ \A c \in Kids(N, at) \cup { f } : \E s \in Children(n) : n.child[s] = c
      /\ at # 0 => \A m \in 1 .. n.mod - 1 : \E c, d \in CodesWith(N, at, code) : c # d /\ c % m = d % m
  BY <1>1 DEF ChildOk
<1>4. /\ leaf \in Node /\ leaf.child \in [0 .. leaf.mod - 1 -> Nat] /\ leaf.mod = 0
      /\ leaf.path # << >> /\ Children(leaf) = {}
  BY DEF LeafOk
<1>5. /\ node.path \in Seq(Entry) /\ p \in Seq(Char) /\ (node.path = << >> <=> at = 0)
      /\ Len(p) + Len(node.path) <= MaxKeyLen
  BY <1>1 DEF Shaped, Typed, Node, Spells
<1>6. r \in Seq(Char) /\ Len(r) = Len(p) + Len(node.path) /\ Follows(p, node.path, r)
  BY <1>1, <1>5, OntoIs
<1>7. Kids(N, at) \subseteq DOMAIN N \ { at } /\ f \notin Kids(N, at) /\ e \notin Kids(N, at)
  BY NotItsChild
<1>8. First(graft, f) = code /\ First(graft, e) = First(N, at)
  BY <1>1, <1>2, <1>3 DEF First
<1>9. GraftTyped(N, at, e, graft)
  <2>1. IsFiniteSet({ e, f })
    <3>1. IsFiniteSet({ e }) /\ { e, f } = { e } \cup { f }
      BY FS_Singleton
    <3>2. IsFiniteSet({ e } \cup { f })
      BY <3>1, FS_AddElement
    <3> QED
      BY <3>1, <3>2, Zenon
  <2>2. DOMAIN graft \cap (DOMAIN N \ { at }) = {} /\ DOMAIN graft \subseteq Nat /\ e \in DOMAIN graft
    BY <1>2
  <2>3. ASSUME NEW x \in DOMAIN graft
        PROVE  /\ x = 0 <=> x = e /\ at = 0
               /\ graft[x] \in Node
               /\ graft[x].child \in [0 .. graft[x].mod - 1 -> Nat]
               /\ graft[x].mod # 1
               /\ graft[x].path = << >> <=> x = 0
    <3>1. CASE x = e
      BY <1>2, <1>3, <1>5, <3>1
    <3>2. CASE x = f
      BY <1>2, <1>4, <3>2
    <3> QED
      BY <1>2, <3>1, <3>2
  <2>4. at = 0 => graft[e].mod = VTKEY_NUM
    BY <1>2, <1>3
  <2> QED
    BY <1>2, <1>8, <2>1, <2>2, <2>3, <2>4, Zenon DEF GraftTyped
<1>10. ASSUME NEW c \in Kids(N, at) PROVE Follows(p, node.path, pre[c])
  <2>1. PICK s \in Children(N[at]) : c = N[at].child[s]
    BY DEF Kids
  <2> QED
    BY <1>1, <2>1, KidsAre
<1>11. GraftLinked(N, pre, at, e, graft, q)
  <2>1. ASSUME NEW x \in DOMAIN graft, NEW s \in Children(graft[x]) PROVE x = e /\ s \in Children(n)
    BY <1>2, <1>4, <2>1
  <2>2. ASSUME NEW s \in Children(n)
        PROVE  LET c == n.child[s] IN
               \/ /\ c \in DOMAIN graft \ { e }
                  /\ First(graft, c) % n.mod = s /\ Follows(p, n.path, q[c])
               \/ /\ c \in Kids(N, at)
                  /\ First(N, c) % n.mod = s /\ Follows(p, n.path, pre[c])
    <3>1. PICK c : c = n.child[s]
      OBVIOUS
    <3>2. CASE c = f /\ code % n.mod = s
      BY <1>2, <1>3, <1>6, <1>8, <3>1, <3>2
    <3>3. CASE c \in Kids(N, at) /\ First(N, c) % n.mod = s
      BY <1>3, <1>10, <3>1, <3>3
    <3> QED
      BY <1>3, <3>1, <3>2, <3>3
  <2>3. ASSUME NEW s \in Children(n), NEW u \in Children(n), n.child[s] = n.child[u] PROVE s = u
    BY <1>3, <1>7, <2>3
  <2>4. \A c \in (DOMAIN graft \ { e }) \cup Kids(N, at) : \E s \in Children(n) : n.child[s] = c
    BY <1>2, <1>3
  <2>5. ASSUME NEW x \in DOMAIN graft, NEW s \in Children(graft[x])
        PROVE  LET c == graft[x].child[s] IN
               \/ /\ c \in DOMAIN graft \ { e }
                  /\ First(graft, c) % graft[x].mod = s /\ Follows(q[x], graft[x].path, q[c])
               \/ /\ c \in Kids(N, at)
                  /\ First(N, c) % graft[x].mod = s /\ Follows(q[x], graft[x].path, pre[c])
    BY <1>2, <2>1, <2>2
  <2>6. ASSUME NEW x \in DOMAIN graft, NEW y \in DOMAIN graft, NEW s \in Children(graft[x]),
               NEW u \in Children(graft[y]), graft[x].child[s] = graft[y].child[u]
        PROVE  x = y /\ s = u
    <3>1. x = e /\ y = e /\ s \in Children(n) /\ u \in Children(n)
      BY <2>1
    <3> QED
      BY <1>2, <2>3, <2>6, <3>1
  <2>7. \A c \in (DOMAIN graft \ { e }) \cup Kids(N, at) :
          \E x \in DOMAIN graft : \E s \in Children(graft[x]) : graft[x].child[s] = c
    BY <1>2, <2>4
  <2> QED
    BY <2>5, <2>6, <2>7 DEF GraftLinked
<1>12. GraftSpells(pre, at, e, graft, q)
  <2>1. q \in [DOMAIN graft -> Seq(Char)]
    <3>1. q = [x \in { e, f } |-> IF x = e THEN p ELSE r]
      BY <1>1 DEF Pair
    <3> QED
      BY <1>2, <1>5, <1>6, <3>1
  <2>2. Len(r) + Len(leaf.path) <= MaxKeyLen
    BY <1>1, <1>6
  <2>3. \A x \in DOMAIN graft : Len(q[x]) + Len(graft[x].path) <= MaxKeyLen
    BY <1>2, <1>3, <1>5, <2>2
  <2> QED
    BY <1>1, <1>2, <2>1, <2>3 DEF GraftSpells
<1>13. GraftTight(N, graft)
  <2>1. ASSUME NEW k \in CodesWith(N, at, code)
        PROVE  \E s \in Children(n) : FirstOf(N, graft, n.child[s]) = k
    <3>1. CASE k = code
      <4>1. PICK s \in Children(n) : n.child[s] = f
        BY <1>3
      <4> QED
        BY <1>2, <1>8, <3>1, <4>1 DEF FirstOf
    <3>2. ASSUME NEW c \in Kids(N, at), k = First(N, c) PROVE \E s \in Children(n) : FirstOf(N, graft, n.child[s]) = k
      <4>1. PICK s \in Children(n) : n.child[s] = c
        BY <1>3
      <4>2. c \notin DOMAIN graft
        BY <1>2, <1>7
      <4> QED
        BY <3>2, <4>1, <4>2 DEF FirstOf
    <3> QED
      BY <3>1, <3>2 DEF CodesWith
  <2>2. ASSUME NEW x \in DOMAIN graft \ { 0 }, NEW m \in 1 .. graft[x].mod - 1
        PROVE  \E s, u \in Children(graft[x]) :
                 s # u /\ FirstOf(N, graft, graft[x].child[s]) % m = FirstOf(N, graft, graft[x].child[u]) % m
    <3>1. x = e
      BY <1>2, <1>4
    <3>2. at # 0 /\ graft[x] = n
      BY <1>2, <3>1
    <3>3. PICK c \in CodesWith(N, at, code), d \in CodesWith(N, at, code) : c # d /\ c % m = d % m
      BY <1>3, <3>2
    <3>4. PICK s \in Children(n) : FirstOf(N, graft, n.child[s]) = c
      BY <2>1
    <3>5. PICK u \in Children(n) : FirstOf(N, graft, n.child[u]) = d
      BY <2>1
    <3>6. s # u
      BY <3>3, <3>4, <3>5
    <3> QED
      BY <3>2, <3>3, <3>4, <3>5, <3>6
  <2> QED
    BY <2>2 DEF GraftTight
<1>14. Graft(N, pre, at, e, graft, q)
  BY <1>9, <1>11, <1>12, <1>13 DEF Graft
<1> QED
  BY <1>1, <1>14

(* The bytes of grafts of two nodes and of three. *)
NodeRoom(t, at, end, x, b) ==
  \/ at <= x /\ x + b <= at + Bytes(t, at)
  \/ t.end <= x /\ x + b <= end
  \/ at + Bytes(t, at) = t.end /\ at <= x /\ x + b <= end

(* A sum over two elements. *)
LEMMA TotalPair ==
  ASSUME NEW x, NEW y, x # y, NEW h, h[x] \in Nat, h[y] \in Nat
  PROVE  IsFiniteSet({ x, y }) /\ Total(h, { x, y }) = h[x] + h[y]
<1>1. IsFiniteSet({ x })
  BY FS_Singleton
<1>2. { x, y } = { x } \cup { y } /\ y \notin { x }
  OBVIOUS
<1>3. \A z \in { x } \cup { y } : h[z] \in Nat
  OBVIOUS
<1>4. Total(h, { x } \cup { y }) = Total(h, { x }) + h[y]
  BY <1>1, <1>2, <1>3, TotalAdd
<1>5. Total(h, { x }) = h[x]
  BY TotalOne
<1>6. IsFiniteSet({ x } \cup { y })
  BY <1>1, FS_AddElement
<1> QED
  BY <1>2, <1>4, <1>5, <1>6

SumOfThree(h, S, x, y, z) == Total(h, S) = h[x] + h[y] + h[z]

(* A sum over three elements. *)
LEMMA TotalTriple ==
  ASSUME NEW x, NEW y, NEW z, x # y, x # z, y # z, NEW S, S = { x, y, z },
         NEW h, \A u \in S : h[u] \in Nat
  PROVE  SumOfThree(h, S, x, y, z)
<1>1. IsFiniteSet({ x, y }) /\ Total(h, { x, y }) = h[x] + h[y]
  BY TotalPair
<1>2. { x, y, z } = { x, y } \cup { z } /\ z \notin { x, y }
  OBVIOUS
<1>3. \A u \in { x, y } \cup { z } : h[u] \in Nat
  OBVIOUS
<1>4. Total(h, { x, y } \cup { z }) = Total(h, { x, y }) + h[z]
  BY <1>1, <1>2, <1>3, TotalAdd
<1> QED
  BY <1>1, <1>2, <1>4 DEF SumOfThree

(* Room for a graft of two nodes. *)
LEMMA RoomTwo ==
  ASSUME NEW t, NEW at, NEW graft, NEW e \in Nat, NEW f \in Nat, e < f, DOMAIN graft = { e, f },
         NEW b \in Nat, NEW c \in Nat, b = Bytes(New(graft), e), c = Bytes(New(graft), f),
         NEW end, NEW wasted, NodeRoom(t, at, end, e, b), NodeRoom(t, at, end, f, c), e + b <= f,
         t.end <= end, b + c + wasted <= Bytes(t, at) + t.wasted + (end - t.end)
  PROVE  Room(t, at, graft, end, wasted)
<1>1. New(graft).nodes = graft
  BY DEF New
<1>2. SizeOf(New(graft))[e] = b /\ SizeOf(New(graft))[f] = c
  BY <1>1 DEF SizeOf
<1>3. Total(SizeOf(New(graft)), { e, f }) = b + c
  <2>1. PICK h : h = SizeOf(New(graft))
    OBVIOUS
  <2>2. h[e] = b /\ h[f] = c /\ e # f
    BY <1>2, <2>1
  <2>3. Total(h, { e, f }) = h[e] + h[f]
    BY <2>2, TotalPair
  <2> QED
    BY <2>1, <2>2, <2>3
<1>4. \A x \in DOMAIN graft : NodeRoom(t, at, end, x, Bytes(New(graft), x))
  OBVIOUS
<1>5. \A x, y \in DOMAIN graft : x < y => x + Bytes(New(graft), x) <= y
  <2>1. ASSUME NEW x \in DOMAIN graft, NEW y \in DOMAIN graft, x < y PROVE x = e /\ y = f
    BY <2>1
  <2> QED
    BY <2>1
<1> QED
  BY <1>3, <1>4, <1>5 DEF Room, NodeRoom

(* The weight of a graft of three nodes. *)
LEMMA WeightThree ==
  ASSUME NEW graft, NEW x, NEW y, NEW z, x # y, x # z, y # z, DOMAIN graft = { x, y, z },
         Bytes(New(graft), x) \in Nat, Bytes(New(graft), y) \in Nat, Bytes(New(graft), z) \in Nat
  PROVE  Total(SizeOf(New(graft)), DOMAIN graft) = Bytes(New(graft), x) + Bytes(New(graft), y) + Bytes(New(graft), z)
<1>1. New(graft).nodes = graft
  BY DEF New
<1>2. PICK h : h = SizeOf(New(graft))
  OBVIOUS
<1>3. h[x] = Bytes(New(graft), x) /\ h[y] = Bytes(New(graft), y) /\ h[z] = Bytes(New(graft), z)
  BY <1>1, <1>2 DEF SizeOf
<1>4. PICK S : S = DOMAIN graft
  OBVIOUS
<1>5. \A u \in S : h[u] \in Nat
  BY <1>3, <1>4
<1>6. SumOfThree(h, S, x, y, z)
  BY <1>4, <1>5, TotalTriple
<1> QED
  BY <1>2, <1>3, <1>4, <1>6 DEF SumOfThree

(* Room for a graft of three nodes. *)
LEMMA RoomThree ==
  ASSUME NEW t, NEW at, NEW graft, NEW g \in Nat, NEW e \in Nat, NEW f \in Nat, g < e, e < f, DOMAIN graft = { g, e, f },
         NEW a \in Nat, NEW b \in Nat, NEW c \in Nat,
         a = Bytes(New(graft), g), b = Bytes(New(graft), e), c = Bytes(New(graft), f),
         NEW end, NEW wasted, NodeRoom(t, at, end, g, a), NodeRoom(t, at, end, e, b), NodeRoom(t, at, end, f, c),
         g + a <= e, e + b <= f,
         t.end <= end, a + b + c + wasted <= Bytes(t, at) + t.wasted + (end - t.end)
  PROVE  Room(t, at, graft, end, wasted)
<1>1. g # e /\ g # f /\ e # f
  OBVIOUS
<1>2. Bytes(New(graft), g) \in Nat /\ Bytes(New(graft), e) \in Nat /\ Bytes(New(graft), f) \in Nat
  OBVIOUS
<1>3. Total(SizeOf(New(graft)), DOMAIN graft) = a + b + c
  BY <1>1, <1>2, WeightThree
<1>4. \A x \in DOMAIN graft : NodeRoom(t, at, end, x, Bytes(New(graft), x))
  OBVIOUS
<1>5. \A x, y \in DOMAIN graft : x < y => x + Bytes(New(graft), x) <= y
  <2>1. ASSUME NEW x \in DOMAIN graft, NEW y \in DOMAIN graft, x < y PROVE x + Bytes(New(graft), x) <= y
    <3>1. CASE x = g /\ y = e
      BY <3>1
    <3>2. CASE x = e /\ y = f
      BY <3>2
    <3>3. CASE x = g /\ y = f
      BY <3>3
    <3> QED
      BY <2>1, <3>1, <3>2, <3>3
  <2> QED
    BY <2>1
<1> QED
  BY <1>3, <1>4, <1>5 DEF Room, NodeRoom

(* The bytes of a node, by the length of its path. *)
LEMMA BytesOf ==
  ASSUME NEW n, n.path \in Seq(Entry), n.mod \in Nat
  PROVE  NodeBytes(n) = 2 + 5 * Len(n.path) + 4 * n.mod /\ NodeBytes(n) \in Nat
         /\ PathBytes(n.path) = 1 + 5 * Len(n.path) /\ Len(n.path) \in Nat
BY DEF NodeBytes, PathBytes, VTSAMEPS_L, VTENTRY_L, VTCHILDS_L, VTPTR_L

LeafFor(rest, d) ==
  LET leaf == Leaf(rest, d) IN
  /\ LeafOk(leaf) /\ leaf.path[1].ch = rest[1] /\ Len(leaf.path) = Len(rest)
  /\ NodeBytes(leaf) = 2 + 5 * Len(rest) /\ NodeBytes(leaf) \in Nat

(* What a new leaf is and how many bytes it takes. *)
LEMMA LeafFits ==
  ASSUME NEW rest \in Seq(Char), rest # << >>, NEW d \in Nat
  PROVE  LeafFor(rest, d)
<1>1. PICK leaf : leaf = Leaf(rest, d)
  OBVIOUS
<1>2. /\ leaf \in Node /\ leaf.child \in [0 .. leaf.mod - 1 -> Nat] /\ leaf.mod = 0
      /\ leaf.path = Entries(rest, d) /\ leaf.path # << >> /\ Children(leaf) = {}
      /\ NodeBytes(leaf) = 2 + 5 * Len(rest)
  BY <1>1, LeafIs
<1>3. Len(Entries(rest, d)) = Len(rest) /\ \A i \in 1 .. Len(rest) : Entries(rest, d)[i].ch = rest[i]
  BY EntriesAre
<1>4. Len(rest) \in Nat /\ Len(rest) > 0
  OBVIOUS
<1>5. leaf.path[1].ch = rest[1] /\ Len(leaf.path) = Len(rest)
  BY <1>2, <1>3, <1>4
<1>6. NodeBytes(leaf) \in Nat
  BY <1>2, <1>4
<1> QED
  BY <1>1, <1>2, <1>5, <1>6 DEF LeafFor, LeafOk

(* A child for which the array has a place. *)
LEMMA ChildAdded ==
  ASSUME NEW N, NEW pre, Shaped(N, pre), NEW at \in DOMAIN N, N[at].mod # 0, NEW code \in Char,
         NEW s, s = code % N[at].mod, N[at].child[s] = 0, NEW f \in Nat, f # 0, f \notin DOMAIN N
  PROVE  ChildOk(N, at, Inner(N[at].path, N[at].mod, [N[at].child EXCEPT ![s] = f]), f, code)
<1>1. PICK node, mod, child : node = N[at] /\ mod = N[at].mod /\ child = N[at].child
  OBVIOUS
<1>2. /\ node \in Node /\ child \in [0 .. mod - 1 -> Nat] /\ mod \in 0 .. VTKEY_NUM /\ mod # 0 /\ mod # 1
      /\ node.path \in Seq(Entry) /\ (at = 0 => mod = VTKEY_NUM)
  BY <1>1 DEF Shaped, Typed, Node
<1>3. s \in 0 .. mod - 1
  <2>1. code \in Nat /\ mod \in Nat /\ mod > 0
    BY <1>2, CodesAssumption DEF Char
  <2> QED
    BY <1>1, <2>1, Remainder
<1>4. PICK c2 : c2 = [child EXCEPT ![s] = f]
  OBVIOUS
<1>5. c2 \in [0 .. mod - 1 -> Nat] /\ c2[s] = f /\ \A r \in 0 .. mod - 1 : r # s => c2[r] = child[r]
  BY <1>2, <1>3, <1>4
<1>6. PICK n : n = Inner(node.path, mod, c2)
  OBVIOUS
<1>7. n = [path |-> node.path, mod |-> mod, child |-> c2] /\ n.path = node.path /\ n.mod = mod /\ n.child = c2
  BY <1>6 DEF Inner
<1>8. n \in Node
  <2>1. c2 \in UNION { [0 .. m - 1 -> Nat] : m \in 0 .. VTKEY_NUM }
    BY <1>2, <1>5
  <2> QED
    BY <1>2, <1>7, <2>1 DEF Node
<1>9. Children(node) = { r \in 0 .. mod - 1 : child[r] # 0 } /\ Children(n) = { r \in 0 .. mod - 1 : c2[r] # 0 }
  BY <1>1, <1>2, <1>5, <1>7 DEF Children
<1>10. Children(n) = Children(node) \cup { s } /\ s \notin Children(node)
  BY <1>1, <1>3, <1>5, <1>9
<1>11. ASSUME NEW r \in Children(n)
       PROVE  \/ n.child[r] = f /\ code % n.mod = r
              \/ n.child[r] \in Kids(N, at) /\ First(N, n.child[r]) % n.mod = r
  <2>1. CASE r = s
    BY <1>1, <1>5, <1>7, <2>1
  <2>2. CASE r # s
    <3>1. r \in Children(node) /\ n.child[r] = node.child[r]
      BY <1>1, <1>5, <1>7, <1>9, <1>10, <2>2
    <3> QED
      BY <1>1, <1>7, <3>1, KidsAre
  <2> QED
    BY <2>1, <2>2
<1>12. ASSUME NEW c \in Kids(N, at) \cup { f } PROVE \E r \in Children(n) : n.child[r] = c
  <2>1. CASE c = f
    BY <1>5, <1>7, <1>10, <2>1
  <2>2. CASE c \in Kids(N, at)
    <3>1. PICK r \in Children(node) : c = node.child[r]
      BY <1>1, <2>2 DEF Kids
    <3>2. r \in Children(n) /\ r # s
      BY <1>10
    <3> QED
      BY <1>1, <1>5, <1>7, <1>9, <3>1, <3>2
  <2> QED
    BY <2>1, <2>2
<1>13. ASSUME at # 0, NEW m \in 1 .. n.mod - 1
       PROVE  \E c, d \in CodesWith(N, at, code) : c # d /\ c % m = d % m
  <2>1. PICK r \in Children(node), u \in Children(node) :
          r # u /\ First(N, node.child[r]) % m = First(N, node.child[u]) % m
    BY <1>1, <1>7, <1>13 DEF Shaped, Tight, Clash
  <2>2. /\ First(N, node.child[r]) % mod = r /\ First(N, node.child[u]) % mod = u
        /\ node.child[r] \in Kids(N, at) /\ node.child[u] \in Kids(N, at)
    BY <1>1, KidsAre
  <2>3. First(N, node.child[r]) # First(N, node.child[u])
    BY <2>1, <2>2
  <2> QED
    BY <2>1, <2>2, <2>3 DEF CodesWith
<1>14. ChildOk(N, at, n, f, code)
  <2>1. n.mod # 1 /\ (at = 0 => n.mod = VTKEY_NUM)
    BY <1>2, <1>7
  <2>2. n.path = N[at].path /\ n.child \in [0 .. n.mod - 1 -> Nat]
    BY <1>1, <1>5, <1>7
  <2>3. at # 0 => \A m \in 1 .. n.mod - 1 : \E c, d \in CodesWith(N, at, code) : c # d /\ c % m = d % m
    BY <1>13
  <2> QED
    BY <1>8, <1>11, <1>12, <2>1, <2>2, <2>3 DEF ChildOk
<1> QED
  BY <1>1, <1>4, <1>6, <1>14

ChildGraft(t, w, d) ==
  LET node == t.nodes[w.at]
      rest == Rest(w.rest, w.agree) IN
  Pair(w.at, Inner(node.path, node.mod, [node.child EXCEPT ![rest[1] % node.mod] = t.end]), t.end, Leaf(rest, d))

(* A leaf in a free slot of a node. *)
LEMMA ChildInsertion ==
  ASSUME NEW t, NEW pre, Sound(t, pre), NEW key, NEW w, Meets(t, pre, key, w), NEW d \in Nat,
         w.agree < Len(w.rest), w.agree = Len(t.nodes[w.at].path), t.nodes[w.at].mod # 0,
         NEW rest, rest = Rest(w.rest, w.agree), Child(t, w.at, rest[1]) = 0,
         NEW u, u.nodes = Plus(Point(t.nodes, << w.at, rest[1] % t.nodes[w.at].mod >>, t.end), t.end, Leaf(rest, d)),
         u.end = t.end + NodeBytes(Leaf(rest, d)), u.wasted = t.wasted
  PROVE  Insertion(t, pre, w.at, w.at, ChildGraft(t, w, d),
                   Pair(w.at, pre[w.at], t.end, Onto(pre[w.at], t.nodes[w.at].path)), u)
<1>1. PICK N, at, f, node, s, leaf, n :
        /\ N = t.nodes /\ at = w.at /\ f = t.end /\ node = t.nodes[w.at] /\ s = rest[1] % node.mod
        /\ leaf = Leaf(rest, d) /\ n = Inner(node.path, node.mod, [node.child EXCEPT ![s] = f])
  BY Zenon
<1>2. Shaped(N, pre) /\ at \in DOMAIN N /\ Typed(N)
  BY <1>1, Zenon DEF Sound, Shaped, Meets
<1>3. /\ f \in Nat /\ f > 0 /\ t.wasted \in Nat /\ DOMAIN N \subseteq Nat
      /\ Bytes(t, at) \in Nat /\ at + Bytes(t, at) <= f /\ \A a \in DOMAIN N : a < f
  BY <1>1, <1>2, EndFree, Zenon
<1>4. f \notin DOMAIN N /\ at \in Nat /\ at < f /\ f # 0 /\ at # f
  BY <1>2, <1>3
<1>5. /\ node \in Node /\ node.child \in [0 .. node.mod - 1 -> Nat] /\ node.mod \in 0 .. VTKEY_NUM
      /\ node.path \in Seq(Entry) /\ Len(node.path) \in Nat /\ Len(pre[at]) \in Nat /\ Len(w.rest) \in Nat
      /\ rest \in Seq(Char) /\ Len(rest) = Len(w.rest) - w.agree /\ rest # << >> /\ rest[1] \in Char
      /\ Len(pre[at]) + Len(w.rest) <= MaxKeyLen
  <2>1. MetSizes(t, pre, w)
    BY <1>1, <1>2, MeetsSizes
  <2> QED
    BY <1>1, <2>1, Zenon DEF MetSizes
<1>6. /\ LeafOk(leaf) /\ leaf.path[1].ch = rest[1] /\ Len(leaf.path) = Len(rest)
      /\ NodeBytes(leaf) = 2 + 5 * Len(rest) /\ NodeBytes(leaf) \in Nat
  <2>1. LeafFor(rest, d)
    BY <1>5, LeafFits
  <2> QED
    BY <1>1, <2>1, Zenon DEF LeafFor
<1>7. s \in 0 .. node.mod - 1 /\ node.child[s] = 0
  <2>1. rest[1] \in Nat /\ node.mod \in Nat /\ node.mod > 0
    <3>1. rest[1] \in Char /\ node.mod \in 0 .. VTKEY_NUM
      BY <1>5
    <3>2. node.mod # 0
      BY <1>1, Zenon
    <3>3. \A x \in Char : x \in Nat
      BY CodesAssumption DEF Char
    <3>4. \A x \in 0 .. VTKEY_NUM : x # 0 => x \in Nat /\ x > 0
      BY CodesAssumption
    <3> QED
      BY <3>1, <3>2, <3>3, <3>4
  <2>2. PICK code \in Nat, mod \in Nat : code = rest[1] /\ mod = node.mod /\ mod > 0
    BY <2>1
  <2>3. code % mod \in 0 .. mod - 1
    BY <2>2, Remainder
  <2>4. s = code % mod
    BY <1>1, <2>2, Zenon
  <2>5. Child(t, w.at, rest[1]) = node.child[s]
    BY <1>1, Zenon DEF Child
  <2> QED
    BY <2>2, <2>3, <2>4, <2>5
<1>8. ChildOk(N, at, n, f, leaf.path[1].ch)
  <2>1. PICK code : code = rest[1]
    OBVIOUS
  <2>5. s = code % N[at].mod
    BY <1>1, <2>1, Zenon
  <2>6. code \in Char /\ N[at].mod # 0
    BY <1>1, <1>5, <2>1, Zenon
  <2>7. N[at].child[s] = 0
    BY <1>1, <1>7, Zenon
  <2>2. code \in Char /\ N[at].mod # 0 /\ s = code % N[at].mod /\ N[at].child[s] = 0
    BY <2>5, <2>6, <2>7
  <2>3. ChildOk(N, at, Inner(N[at].path, N[at].mod, [N[at].child EXCEPT ![s] = f]), f, code)
    BY <1>2, <1>3, <1>4, <2>2, ChildAdded
  <2>4. n = Inner(N[at].path, N[at].mod, [N[at].child EXCEPT ![s] = f]) /\ leaf.path[1].ch = code
    BY <1>1, <1>6, <2>1, Zenon
  <2> QED
    BY <2>3, <2>4, Zenon
<1>9. PICK graft, q : graft = Pair(at, n, f, leaf) /\ q = Pair(at, pre[at], f, Onto(pre[at], N[at].path))
  OBVIOUS
<1>10. DOMAIN graft = { at, f } /\ graft[at] = n /\ graft[f] = leaf
  BY <1>4, <1>9 DEF Pair
<1>11. Graft(N, pre, at, at, graft, q)
  <2>1. Len(pre[at]) + Len(N[at].path) + Len(leaf.path) <= MaxKeyLen
    <3>1. PICK k \in Nat, l \in Nat, m \in Nat : k = Len(pre[at]) /\ l = Len(w.rest) /\ m = Len(node.path)
      BY <1>5
    <3>2. Len(rest) = l - m /\ k + l <= MaxKeyLen
      BY <1>1, <1>5, <3>1, Zenon
    <3>3. k + m + (l - m) <= MaxKeyLen
      BY <3>2, NatAssumption
    <3> QED
      BY <1>1, <1>6, <3>1, <3>2, <3>3, Zenon
  <2>2. at = 0 <=> at = 0
    OBVIOUS
  <2>3. f \in Nat /\ at \in Nat /\ at \notin DOMAIN N \ { at }
    BY <1>3, <1>4
  <2>4. LeafOk(leaf)
    BY <1>6
  <2>5. Graft(N, pre, at, at, Pair(at, n, f, leaf), Pair(at, pre[at], f, Onto(pre[at], N[at].path)))
    BY <1>2, <1>4, <1>8, <2>1, <2>2, <2>3, <2>4, PairGraft, Zenon
  <2> QED
    BY <1>9, <2>5, Zenon
<1>12. Grafted(N, u.nodes, at, at, graft)
  <2>1. PICK M : M = Point(N, << at, s >>, f)
    OBVIOUS
  <2>2. M = [N EXCEPT ![at].child[s] = f]
    BY <2>1 DEF Point
  <2>3. DOMAIN M = DOMAIN N /\ \A x \in DOMAIN N \ { at } : M[x] = N[x]
    BY <1>2, <2>2
  <2>4. M[at] = n
    <3>1. PICK c2 : c2 = [node.child EXCEPT ![s] = f]
      OBVIOUS
    <3>2. node = [path |-> node.path, mod |-> node.mod, child |-> node.child]
      BY <1>5 DEF Node
    <3>3. M[at] = [N[at] EXCEPT !.child = [@ EXCEPT ![s] = f]]
      BY <1>2, <2>2
    <3>4. M[at] = [node EXCEPT !.child = c2]
      BY <1>1, <3>1, <3>3, Zenon
    <3>5. M[at] = [path |-> node.path, mod |-> node.mod, child |-> c2]
      BY <3>2, <3>4
    <3> QED
      BY <1>1, <3>1, <3>5, Zenon DEF Inner
  <2>5. u.nodes = Plus(M, f, leaf)
    BY <1>1, <2>1, Zenon
  <2>6. DOMAIN u.nodes = DOMAIN N \cup { f } /\ u.nodes[f] = leaf /\ \A x \in DOMAIN N : x # f => u.nodes[x] = M[x]
    BY <2>3, <2>5, Zenon DEF Plus
  <2>7. ASSUME NEW x \in DOMAIN N \ { at } PROVE u.nodes[x] = Redirect(N[x], at, at)
    <3>1. Redirect(N[x], at, at) = N[x]
      BY <1>2, RedirectSelf
    <3> QED
      BY <1>4, <2>3, <2>6, <3>1, Zenon
  <2>8. u.nodes[at] = n
    BY <1>2, <1>4, <2>4, <2>6, Zenon
  <2>9. DOMAIN u.nodes = (DOMAIN N \ { at }) \cup DOMAIN graft
    BY <1>2, <1>10, <2>6, Zenon
  <2> QED
    BY <1>10, <2>6, <2>7, <2>8, <2>9, Zenon DEF Grafted
<1>13. Bytes(New(graft), at) = Bytes(t, at) /\ Bytes(New(graft), f) = NodeBytes(leaf)
  <2>1. New(graft).nodes = graft
    BY DEF New
  <2>2. n.path = node.path /\ n.mod = node.mod
    BY <1>1, Zenon DEF Inner
  <2>3. NodeBytes(n) = NodeBytes(node)
    BY <2>2 DEF NodeBytes
  <2> QED
    BY <1>1, <1>4, <1>10, <2>1, <2>3, Zenon DEF Bytes
<1>14. PICK b \in Nat, c \in Nat : b = Bytes(t, at) /\ c = NodeBytes(leaf)
  BY <1>3, <1>6
<1>15. u.end = f + c /\ u.wasted = t.wasted /\ t.end = f
  BY <1>1, <1>14, Zenon
<1>16. Room(t, at, graft, u.end, u.wasted)
  <2>1. NodeRoom(t, at, u.end, at, b)
    BY <1>3, <1>4, <1>14 DEF NodeRoom
  <2>2. NodeRoom(t, at, u.end, f, c)
    BY <1>3, <1>14, <1>15 DEF NodeRoom
  <2>3. t.end <= u.end /\ b + c + u.wasted <= Bytes(t, at) + t.wasted + (u.end - t.end)
    BY <1>3, <1>14, <1>15
  <2>4. at + b <= f
    BY <1>3, <1>14
  <2> QED
    BY <1>3, <1>4, <1>10, <1>13, <1>14, <2>1, <2>2, <2>3, <2>4, RoomTwo
<1>17. u.end - t.end <= MIN_REMAIN + 1
  <2>1. PICK l \in Nat, m \in Nat, k \in Nat : l = Len(w.rest) /\ m = Len(node.path) /\ k = Len(pre[at])
    BY <1>5
  <2>2. Len(rest) = l - m /\ k + l <= MaxKeyLen
    BY <1>1, <1>5, <2>1, Zenon
  <2>3. c = 2 + 5 * (l - m)
    BY <1>6, <1>14, <2>2
  <2>4. u.end - t.end = c
    BY <1>3, <1>15
  <2>5. k + l <= MaxKeyLen /\ MIN_REMAIN + 1 >= 4 + 5 * (MaxKeyLen + VTKEY_NUM) /\ MIN_REMAIN \in Nat
    BY <2>2, SizesAre
  <2>6. c <= MIN_REMAIN + 1
    BY <2>3, <2>5, NatAssumption, CodesAssumption
  <2> QED
    BY <2>4, <2>6
<1>18. graft = ChildGraft(t, w, d)
  BY <1>1, <1>9, Zenon DEF ChildGraft
<1>90. u.end \in Nat /\ u.wasted \in Nat
  BY <1>3, <1>14, <1>15
<1> QED
  BY <1>1, <1>9, <1>11, <1>12, <1>16, <1>17, <1>18, <1>90, Zenon DEF Insertion

(* The array of a node that is written again for one more child. *)
Owners(N, at, m, s) == { a \in Kids(N, at) : First(N, a) % m = s }

Rebuilt(N, at, m, f, code) ==
  [s \in 0 .. m - 1 |-> CASE s = code % m -> f
                          [] Owners(N, at, m, s) # {} -> CHOOSE a \in Owners(N, at, m, s) : TRUE
                          [] OTHER -> 0]

RebuiltOk(N, at, m, f, code) ==
  /\ at # 0 /\ m \in 2 .. VTKEY_NUM /\ N[at].mod <= m
  /\ ChildOk(N, at, Inner(N[at].path, m, Rebuilt(N, at, m, f, code)), f, code)

(* A child is in the slot of its first character. *)
LEMMA KidFirst ==
  ASSUME NEW N, NEW pre, Shaped(N, pre), NEW at \in DOMAIN N, NEW c \in Kids(N, at)
  PROVE  First(N, c) \in Char /\ c \in DOMAIN N \ { 0 } /\ c \in Nat
         /\ N[at].child[First(N, c) % N[at].mod] = c
<1>1. PICK s \in Children(N[at]) : c = N[at].child[s]
  BY DEF Kids
<1>2. c \in DOMAIN N \ { 0 } /\ First(N, c) % N[at].mod = s
  BY <1>1, KidsAre
<1>3. c \in Nat /\ N[c].path \in Seq(Entry) /\ N[c].path # << >>
  BY <1>2 DEF Shaped, Typed, Node
<1>4. N[c].path[1] \in Entry
  BY <1>3
<1>5. First(N, c) \in Char
  BY <1>4 DEF First, Entry
<1> QED
  BY <1>1, <1>2, <1>3, <1>5

(* A node whose children were put into slots of a new modulus. *)
LEMMA RebuiltIs ==
  ASSUME NEW N, NEW pre, Shaped(N, pre), NEW at \in DOMAIN N, NEW code \in Char, N[at].mod # 0,
         NEW c0, c0 = N[at].child[code % N[at].mod], c0 # 0, First(N, c0) # code,
         NEW f \in Nat, f # 0, f \notin DOMAIN N, NEW m, m = getModMinSize(CodesWith(N, at, code))
  PROVE  RebuiltOk(N, at, m, f, code)
<1>1. PICK node, mod, child : node = N[at] /\ mod = N[at].mod /\ child = N[at].child
  OBVIOUS
<1>2. /\ node \in Node /\ child \in [0 .. mod - 1 -> Nat] /\ mod \in 0 .. VTKEY_NUM /\ mod # 0 /\ mod # 1
      /\ node.path \in Seq(Entry) /\ (at = 0 => mod = VTKEY_NUM)
  BY <1>1 DEF Shaped, Typed, Node
<1>3. PICK K : K = CodesWith(N, at, code)
  OBVIOUS
<1>4. \A c \in Kids(N, at) : First(N, c) \in Char /\ c \in DOMAIN N \ { 0 } /\ c \in Nat /\ child[First(N, c) % mod] = c
  BY <1>1, KidFirst
<1>5. K \subseteq Char
  BY <1>3, <1>4 DEF CodesWith
<1>6. c0 \in Kids(N, at)
  <2>1. PICK s : s = code % mod
    OBVIOUS
  <2>2. s \in 0 .. mod - 1
    <3>1. PICK x \in Nat, y \in Nat : x = code /\ y = mod /\ y > 0
      BY <1>2, CodesAssumption DEF Char
    <3>2. x % y \in 0 .. y - 1
      BY <3>1, Remainder
    <3> QED
      BY <2>1, <3>1, <3>2
  <2>3. child[s] = c0
    BY <1>1, <2>1, Zenon
  <2>4. s \in Children(node)
    BY <1>1, <1>2, <2>2, <2>3 DEF Children
  <2> QED
    BY <1>1, <2>3, <2>4 DEF Kids
<1>7. \A c \in Kids(N, at) : First(N, c) # code
  <2>1. ASSUME NEW c \in Kids(N, at), First(N, c) = code PROVE FALSE
    <3>1. c = child[code % mod]
      BY <1>4, <2>1
    <3>2. c = c0
      BY <1>1, <3>1, Zenon
    <3> QED
      BY <2>1, <3>2
  <2> QED
    BY <2>1
<1>8. /\ m \in 2 .. VTKEY_NUM
      /\ \A c, d \in K : c # d => c % m # d % m
      /\ \A k \in 1 .. m - 1 : \E c, d \in K : c # d /\ c % k = d % k
  <2>1. First(N, c0) \in K /\ code \in K
    BY <1>3, <1>6 DEF CodesWith
  <2>2. m = getModMinSize(K)
    BY <1>3
  <2> QED
    BY <1>5, <2>1, <2>2, ModMinSize
<1>9. at # 0
  <2>1. ASSUME at = 0 PROVE FALSE
    <3>1. mod = VTKEY_NUM
      BY <1>2, <2>1
    <3>2. PICK x \in Nat, y \in Nat, z \in Nat :
            x = code /\ y = First(N, c0) /\ z = mod /\ x < z /\ y < z
      BY <1>4, <1>6, <3>1, CodesAssumption DEF Char
    <3>3. x % z = x /\ y % z = y
      BY <3>2, Remainder
    <3>4. PICK r \in Children(node) : c0 = node.child[r]
      BY <1>1, <1>6 DEF Kids
    <3>5. child[y] = c0 /\ child[x] = c0
      <4>1. child[First(N, c0) % mod] = c0 /\ child[code % mod] = c0
        BY <1>1, <1>4, <1>6, Zenon
      <4> QED
        BY <3>2, <3>3, <4>1
    <3>6. x \in 0 .. mod - 1 /\ y \in 0 .. mod - 1
      BY <3>2
    <3>7. x \in Children(node) /\ y \in Children(node)
      BY <1>1, <1>2, <3>5, <3>6 DEF Children
    <3>8. x = y
      BY <1>1, <3>5, <3>7, KidsAre
    <3> QED
      BY <3>2, <3>8, Zenon
  <2> QED
    BY <2>1
<1>10. mod <= m
  <2>1. ASSUME m < mod PROVE FALSE
    <3>1. m \in 1 .. mod - 1
      BY <1>2, <1>8, <2>1, CodesAssumption
    <3>2. Clash(N, at, m)
      BY <1>1, <1>9, <3>1 DEF Shaped, Tight
    <3>3. PICK r \in Children(node), u \in Children(node) :
            r # u /\ First(N, node.child[r]) % m = First(N, node.child[u]) % m
      BY <1>1, <3>2 DEF Clash
    <3>4. /\ First(N, node.child[r]) % mod = r /\ First(N, node.child[u]) % mod = u
          /\ node.child[r] \in Kids(N, at) /\ node.child[u] \in Kids(N, at)
      BY <1>1, KidsAre
    <3>5. First(N, node.child[r]) # First(N, node.child[u])
      BY <3>3, <3>4
    <3>6. First(N, node.child[r]) \in K /\ First(N, node.child[u]) \in K
      BY <1>3, <3>4 DEF CodesWith
    <3> QED
      BY <1>8, <3>3, <3>5, <3>6
  <2>2. m \in Nat /\ mod \in Nat
    BY <1>2, <1>8, CodesAssumption
  <2> QED
    BY <2>1, <2>2
<1>11. PICK c2 : c2 = Rebuilt(N, at, m, f, code)
  OBVIOUS
<1>12. \A c \in K : c % m \in 0 .. m - 1
  <2>1. ASSUME NEW c \in K PROVE c % m \in 0 .. m - 1
    <3>0. c \in Nat /\ m \in Nat /\ m > 0
      <4>1. \A x \in Char : x \in Nat
        BY CodesAssumption DEF Char
      <4>2. \A x \in 2 .. VTKEY_NUM : x \in Nat /\ x > 0
        BY CodesAssumption
      <4> QED
        BY <1>5, <1>8, <4>1, <4>2
    <3>1. PICK x \in Nat, y \in Nat : x = c /\ y = m /\ y > 0
      BY <3>0
    <3>2. x % y \in 0 .. y - 1
      BY <3>1, Remainder
    <3> QED
      BY <3>1, <3>2
  <2> QED
    BY <2>1
<1>13. code \in K /\ \A c \in Kids(N, at) : First(N, c) \in K
  BY <1>3 DEF CodesWith
<1>14. DOMAIN c2 = 0 .. m - 1 /\ c2[code % m] = f
  <2>1. code % m \in 0 .. m - 1
    BY <1>12, <1>13
  <2>2. c2 = [s \in 0 .. m - 1 |-> CASE s = code % m -> f
                          [] Owners(N, at, m, s) # {} -> CHOOSE a \in Owners(N, at, m, s) : TRUE
                          [] OTHER -> 0]
    BY <1>11 DEF Rebuilt
  <2>3. Owners(N, at, m, code % m) = {}
    <3>1. \A c \in Kids(N, at) : First(N, c) % m # code % m
      BY <1>7, <1>8, <1>13
    <3> QED
      BY <3>1 DEF Owners
  <2>4. DOMAIN c2 = 0 .. m - 1
    BY <2>2
  <2>5. c2[code % m] = f
    BY <2>1, <2>2, <2>3
  <2> QED
    BY <2>4, <2>5
<1>15. ASSUME NEW c \in Kids(N, at) PROVE c2[First(N, c) % m] = c
  <2>1. PICK s : s = First(N, c) % m
    OBVIOUS
  <2>2. s \in 0 .. m - 1
    BY <1>12, <1>13, <2>1
  <2>3. s # code % m
    BY <1>7, <1>8, <1>13, <2>1
  <2>4. Owners(N, at, m, s) = { c }
    <3>1. ASSUME NEW a \in Kids(N, at), First(N, a) % m = s PROVE a = c
      <4>1. First(N, a) = First(N, c)
        BY <1>8, <1>13, <2>1, <3>1
      <4>2. a = child[First(N, a) % mod] /\ c = child[First(N, c) % mod]
        BY <1>4
      <4> QED
        BY <4>1, <4>2
    <3> QED
      BY <2>1, <3>1 DEF Owners
  <2>5. (CHOOSE a \in Owners(N, at, m, s) : TRUE) = c
    BY <2>4
  <2>6. c2[s] = CASE s = code % m -> f
                  [] Owners(N, at, m, s) # {} -> CHOOSE a \in Owners(N, at, m, s) : TRUE
                  [] OTHER -> 0
    BY <1>11, <2>2, Zenon DEF Rebuilt
  <2>7. c2[s] = c
    BY <2>3, <2>4, <2>5, <2>6
  <2> QED
    BY <2>1, <2>7
<1>16. ASSUME NEW s \in 0 .. m - 1
       PROVE  \/ s = code % m /\ c2[s] = f
              \/ \E c \in Kids(N, at) : First(N, c) % m = s /\ c2[s] = c
              \/ c2[s] = 0
  <2>1. CASE s = code % m
    BY <1>14, <2>1
  <2>2. CASE s # code % m
    <3>1. CASE Owners(N, at, m, s) # {}
      <4>1. PICK c \in Kids(N, at) : First(N, c) % m = s
        BY <3>1 DEF Owners
      <4>2. c2[s] = c
        BY <1>15, <4>1
      <4> QED
        BY <4>1, <4>2
    <3>2. CASE Owners(N, at, m, s) = {}
      <4>1. c2[s] = CASE s = code % m -> f
                      [] Owners(N, at, m, s) # {} -> CHOOSE a \in Owners(N, at, m, s) : TRUE
                      [] OTHER -> 0
        BY <1>11, Zenon DEF Rebuilt
      <4> QED
        BY <2>2, <3>2, <4>1
    <3> QED
      BY <3>1, <3>2
  <2> QED
    BY <2>1, <2>2
<1>17. c2 \in [0 .. m - 1 -> Nat]
  <2>1. \A s \in 0 .. m - 1 : c2[s] \in Nat
    BY <1>4, <1>16
  <2>2. c2 = [s \in 0 .. m - 1 |-> c2[s]]
    BY <1>11 DEF Rebuilt
  <2> QED
    BY <2>1, <2>2
<1>18. PICK n : n = Inner(node.path, m, c2)
  OBVIOUS
<1>19. n = [path |-> node.path, mod |-> m, child |-> c2] /\ n.path = node.path /\ n.mod = m /\ n.child = c2
  BY <1>18 DEF Inner
<1>20. n \in Node
  <2>1. m \in 0 .. VTKEY_NUM
    BY <1>8, CodesAssumption
  <2>2. c2 \in UNION { [0 .. k - 1 -> Nat] : k \in 0 .. VTKEY_NUM }
    BY <1>17, <2>1
  <2> QED
    BY <1>2, <1>19, <2>1, <2>2 DEF Node
<1>21. Children(n) = { s \in 0 .. m - 1 : c2[s] # 0 }
  BY <1>17, <1>19 DEF Children
<1>22. ChildOk(N, at, n, f, code)
  <2>1. ASSUME NEW s \in Children(n)
        PROVE  \/ n.child[s] = f /\ code % n.mod = s
               \/ n.child[s] \in Kids(N, at) /\ First(N, n.child[s]) % n.mod = s
    <3>1. s \in 0 .. m - 1 /\ c2[s] # 0
      BY <1>21
    <3>2. CASE s = code % m /\ c2[s] = f
      BY <1>19, <3>2
    <3>3. CASE \E c \in Kids(N, at) : First(N, c) % m = s /\ c2[s] = c
      BY <1>19, <3>3
    <3> QED
      BY <1>16, <3>1, <3>2, <3>3
  <2>2. ASSUME NEW c \in Kids(N, at) \cup { f } PROVE \E s \in Children(n) : n.child[s] = c
    <3>1. CASE c = f
      <4>1. code % m \in 0 .. m - 1
        BY <1>12, <1>13
      <4> QED
        BY <1>14, <1>19, <1>21, <3>1, <4>1
    <3>2. CASE c \in Kids(N, at)
      <4>1. PICK s : s = First(N, c) % m
        OBVIOUS
      <4>2. s \in 0 .. m - 1 /\ c2[s] = c /\ c # 0
        BY <1>4, <1>12, <1>13, <1>15, <3>2, <4>1
      <4> QED
        BY <1>19, <1>21, <4>2
    <3> QED
      BY <3>1, <3>2
  <2>3. \A k \in 1 .. n.mod - 1 : \E c, d \in CodesWith(N, at, code) : c # d /\ c % k = d % k
    BY <1>3, <1>8, <1>19
  <2>4. n.mod # 1 /\ n.path = N[at].path /\ n.child \in [0 .. n.mod - 1 -> Nat]
    BY <1>1, <1>8, <1>17, <1>19
  <2> QED
    BY <1>9, <1>20, <2>1, <2>2, <2>3, <2>4 DEF ChildOk
<1>23. n = Inner(N[at].path, m, Rebuilt(N, at, m, f, code))
  BY <1>1, <1>11, <1>18, Zenon
<1>24. N[at].mod <= m
  BY <1>1, <1>10
<1> QED
  BY <1>8, <1>9, <1>22, <1>23, <1>24, Zenon DEF RebuiltOk

(* What resolveConfilct does to the trie. *)
NewMod(t, w) == getModMinSize(CodesWith(t.nodes, w.at, Rest(w.rest, w.agree)[1]))

NewLeafAt(t, w) == t.end + PathBytes(t.nodes[w.at].path) + VTCHILDS_L + ArrayBytes(NewMod(t, w))

Rewritten(t, w) ==
  Inner(t.nodes[w.at].path, NewMod(t, w),
        Rebuilt(t.nodes, w.at, NewMod(t, w), NewLeafAt(t, w), Rest(w.rest, w.agree)[1]))

ResolveIs(t, w, d) ==
  LET r == resolveConfilct(t, w, d)
      leaf == Leaf(Rest(w.rest, w.agree), d) IN
  /\ r.nodes = Plus(Plus(Point(Without(t.nodes, w.at), w.from, t.end), t.end, Rewritten(t, w)), NewLeafAt(t, w), leaf)
  /\ r.wasted = t.wasted + PathBytes(t.nodes[w.at].path) + VTCHILDS_L + t.nodes[w.at].mod * VTENTRY_L
  /\ r.end = NewLeafAt(t, w) + NodeBytes(leaf)
  /\ r.value = t.value /\ r.more = t.more /\ r.size = t.size
  /\ r = [nodes |-> r.nodes, value |-> r.value, more |-> r.more, end |-> r.end, wasted |-> r.wasted, size |-> r.size]

(* What resolveConfilct makes of the trie, field by field. *)
LEMMA Resolved ==
  ASSUME NEW t, IsTrie(t), NEW w, NEW d
  PROVE  ResolveIs(t, w, d)
<1> DEFINE node == t.nodes[w.at]
           rest == Rest(w.rest, w.agree)
           kept == { node.child[s] : s \in Children(node) }
           m == getModMinSize({ FirstChar(t, a) : a \in kept } \cup { rest[1] })
           f == t.end + PathBytes(node.path) + VTCHILDS_L + ArrayBytes(m)
           owners(s) == { a \in kept : FirstChar(t, a) % m = s }
           child == [s \in 0 .. m - 1 |-> CASE s = rest[1] % m -> f
                                            [] owners(s) # {} -> CHOOSE a \in owners(s) : TRUE
                                            [] OTHER -> 0]
           leaf == Leaf(rest, d)
           others == Point(Without(t.nodes, w.at), w.from, t.end)
           X == Plus(Plus(others, t.end, Inner(node.path, m, child)), f, leaf)
           z == t.wasted + PathBytes(node.path) + VTCHILDS_L + node.mod * VTENTRY_L
           y == f + NodeBytes(leaf)
           r == resolveConfilct(t, w, d)
<1>1. r = [t EXCEPT !.nodes = X,
                    !.wasted = @ + PathBytes(node.path) + VTCHILDS_L + node.mod * VTENTRY_L,
                    !.end = y]
  BY Zenon DEF resolveConfilct
<1>2. kept = Kids(t.nodes, w.at)
  BY DEF Kids
<1>3. { FirstChar(t, a) : a \in kept } \cup { rest[1] } = CodesWith(t.nodes, w.at, rest[1])
  <2> HIDE DEF kept, rest
  <2> QED
    BY <1>2 DEF CodesWith, FirstChar, First
<1>4. m = NewMod(t, w)
  BY <1>3, Zenon DEF NewMod
<1>5. f = NewLeafAt(t, w)
  BY <1>4, Zenon DEF NewLeafAt
<1>6. \A s : owners(s) = Owners(t.nodes, w.at, m, s)
  <2> HIDE DEF kept, m
  <2> QED
    BY <1>2 DEF Owners, FirstChar, First
<1>7. child = Rebuilt(t.nodes, w.at, m, f, rest[1])
  <2> HIDE DEF m, f, owners, rest
  <2> QED
    BY <1>6 DEF Rebuilt, child
<1>8. Inner(node.path, m, child) = Rewritten(t, w)
  <2> HIDE DEF m, f, child
  <2> QED
    BY <1>4, <1>5, <1>7, Zenon DEF Rewritten
<1>9. X = Plus(Plus(Point(Without(t.nodes, w.at), w.from, t.end), t.end, Rewritten(t, w)), NewLeafAt(t, w),
               Leaf(Rest(w.rest, w.agree), d))
  <2> HIDE DEF m, f, child
  <2> QED
    BY <1>5, <1>8, Zenon
<1>10. y = NewLeafAt(t, w) + NodeBytes(Leaf(Rest(w.rest, w.agree), d))
  <2> HIDE DEF f
  <2> QED
    BY <1>5, Zenon
<1>11. t = [nodes |-> t.nodes, value |-> t.value, more |-> t.more,
            end |-> t.end, wasted |-> t.wasted, size |-> t.size]
  BY DEF IsTrie
<1> HIDE DEF X, y
<1>12. r = [t EXCEPT !.nodes = X, !.wasted = z, !.end = y]
  <2> HIDE DEF r
  <2> QED
    BY <1>1
<1> HIDE DEF z, r
<1>13. r = [nodes |-> X, value |-> t.value, more |-> t.more, end |-> y, wasted |-> z, size |-> t.size]
  BY <1>11, <1>12
<1>14. /\ r.nodes = X /\ r.wasted = z /\ r.end = y /\ r.value = t.value /\ r.more = t.more /\ r.size = t.size
       /\ r = [nodes |-> r.nodes, value |-> r.value, more |-> r.more, end |-> r.end, wasted |-> r.wasted, size |-> r.size]
  BY <1>13
<1>15. z = t.wasted + PathBytes(t.nodes[w.at].path) + VTCHILDS_L + t.nodes[w.at].mod * VTENTRY_L
  BY DEF z
<1> QED
  BY <1>9, <1>10, <1>14, <1>15, Zenon DEF ResolveIs, r

RebuildGraft(t, w, d) == Pair(t.end, Rewritten(t, w), NewLeafAt(t, w), Leaf(Rest(w.rest, w.agree), d))

(* A node whose slot is taken is built again with a larger modulus. *)
LEMMA RebuildInsertion ==
  ASSUME NEW t, NEW pre, Sound(t, pre), NEW key, NEW w, Meets(t, pre, key, w), NEW d \in Nat,
         w.agree < Len(w.rest), w.agree = Len(t.nodes[w.at].path),
         NEW rest, rest = Rest(w.rest, w.agree), NEW c0, c0 = Child(t, w.at, rest[1]), c0 # 0,
         FirstChar(t, c0) # rest[1],
         NEW u, u.nodes = resolveConfilct(t, w, d).nodes,
         u.end = resolveConfilct(t, w, d).end, u.wasted = resolveConfilct(t, w, d).wasted
  PROVE  Insertion(t, pre, w.at, t.end, RebuildGraft(t, w, d),
                   Pair(t.end, pre[w.at], NewLeafAt(t, w), Onto(pre[w.at], t.nodes[w.at].path)), u)
<1>1. PICK N, at, e, f, node, code, leaf, n, m :
        /\ N = t.nodes /\ at = w.at /\ e = t.end /\ node = t.nodes[w.at] /\ code = rest[1]
        /\ leaf = Leaf(rest, d) /\ m = NewMod(t, w) /\ f = NewLeafAt(t, w) /\ n = Rewritten(t, w)
  OBVIOUS
<1>2. Shaped(N, pre) /\ at \in DOMAIN N /\ Typed(N) /\ IsTrie(t)
  BY <1>1 DEF Sound, Shaped, Meets
<1>3. /\ e \in Nat /\ e > 0 /\ t.wasted \in Nat /\ DOMAIN N \subseteq Nat
      /\ Bytes(t, at) \in Nat /\ at + Bytes(t, at) <= e /\ \A a \in DOMAIN N : a < e
  BY <1>1, <1>2, EndFree
<1>4. /\ node \in Node /\ node.child \in [0 .. node.mod - 1 -> Nat] /\ node.mod \in 0 .. VTKEY_NUM
      /\ node.path \in Seq(Entry) /\ Len(node.path) \in Nat /\ Len(pre[at]) \in Nat /\ Len(w.rest) \in Nat
      /\ rest \in Seq(Char) /\ Len(rest) = Len(w.rest) - w.agree /\ rest # << >> /\ code \in Char
      /\ Len(pre[at]) + Len(w.rest) <= MaxKeyLen
  <2>1. MetSizes(t, pre, w)
    BY <1>1, <1>2, MeetsSizes
  <2> QED
    BY <1>1, <2>1, Zenon DEF MetSizes
<1>5. /\ LeafOk(leaf) /\ leaf.path[1].ch = code /\ Len(leaf.path) = Len(rest)
      /\ NodeBytes(leaf) = 2 + 5 * Len(rest) /\ NodeBytes(leaf) \in Nat
  <2>1. LeafFor(rest, d)
    BY <1>4, LeafFits
  <2> QED
    BY <1>1, <2>1 DEF LeafFor
<1>6. node.mod # 0 /\ c0 = N[at].child[code % N[at].mod] /\ First(N, c0) # code
  <2>1. node.mod # 0
    BY <1>1, Zenon DEF Child
  <2>2. c0 = N[at].child[code % N[at].mod]
    BY <1>1, <2>1, Zenon DEF Child
  <2> QED
    BY <1>1, <2>1, <2>2, Zenon DEF First, FirstChar
<1>7. m = getModMinSize(CodesWith(N, at, code))
  BY <1>1, Zenon DEF NewMod
<1>8. PICK l \in Nat, k \in Nat, h \in Nat : l = Len(w.rest) /\ k = Len(node.path) /\ h = Len(pre[at])
  BY <1>4
<1>9. Len(rest) = l - k /\ k < l /\ h + l <= MaxKeyLen
  BY <1>1, <1>4, <1>8
<1>10. m \in Nat => f \in Nat /\ f = e + (1 + 5 * k + 1 + m * 5)
  <2>1. PathBytes(node.path) = 1 + 5 * k
    BY <1>8 DEF PathBytes, VTSAMEPS_L, VTENTRY_L
  <2>2. f = e + PathBytes(node.path) + 1 + m * 5
    BY <1>1, Zenon DEF NewLeafAt, VTCHILDS_L, ArrayBytes, VTENTRY_L
  <2>3. ASSUME m \in Nat PROVE f \in Nat /\ f = e + (1 + 5 * k + 1 + m * 5)
    BY <1>3, <2>1, <2>2, <2>3
  <2> QED
    BY <2>3
<1>11. m \in 2 .. VTKEY_NUM
  <2>1. \A c \in Kids(N, at) : First(N, c) \in Char
    BY <1>2, KidFirst
  <2>2. CodesWith(N, at, code) \subseteq Char
    BY <1>4, <2>1 DEF CodesWith
  <2>3. c0 \in Kids(N, at)
    <3>1. code % node.mod \in 0 .. node.mod - 1
      <4>1. \A x \in Char : x \in Nat
        BY CodesAssumption DEF Char
      <4>2. \A x \in 0 .. VTKEY_NUM : x # 0 => x \in Nat /\ x > 0
        BY CodesAssumption
      <4>3. PICK x \in Nat, y \in Nat : x = code /\ y = node.mod /\ y > 0
        BY <1>4, <1>6, <4>1, <4>2
      <4>4. x % y \in 0 .. y - 1
        BY <4>3, Remainder
      <4> QED
        BY <4>3, <4>4
    <3>2. PICK s : s = code % node.mod
      OBVIOUS
    <3>3. node.child[s] = c0
      BY <1>1, <1>6, <3>2, Zenon
    <3>4. s \in Children(node)
      BY <1>4, <3>1, <3>2, <3>3 DEF Children
    <3> QED
      BY <1>1, <3>3, <3>4 DEF Kids
  <2>4. PICK c1 : c1 = First(N, c0)
    OBVIOUS
  <2>5. c1 \in CodesWith(N, at, code) /\ code \in CodesWith(N, at, code) /\ c1 # code
    BY <1>6, <2>3, <2>4 DEF CodesWith
  <2> QED
    BY <1>7, <2>2, <2>5, ModMinSize
<1>12. f \in Nat /\ f = e + (1 + 5 * k + 1 + m * 5) /\ m \in Nat
  BY <1>10, <1>11, CodesAssumption
<1>13. f > e /\ f # 0 /\ f \notin DOMAIN N /\ e \notin DOMAIN N /\ e # f /\ at \in Nat /\ e # 0
  BY <1>2, <1>3, <1>12
<1>14. RebuiltOk(N, at, m, f, code)
  <2>1. N[at].mod # 0
    BY <1>1, <1>6, Zenon
  <2>2. code \in Char /\ f \in Nat /\ f # 0 /\ f \notin DOMAIN N
    BY <1>4, <1>12, <1>13
  <2>3. c0 = N[at].child[code % N[at].mod] /\ First(N, c0) # code
    BY <1>6
  <2> QED
    BY <1>2, <1>7, <2>1, <2>2, <2>3, RebuiltIs, Zenon
<1>15. at # 0 /\ node.mod <= m /\ ChildOk(N, at, n, f, leaf.path[1].ch)
  <2>1. n = Inner(N[at].path, m, Rebuilt(N, at, m, f, code))
    BY <1>1, Zenon DEF Rewritten
  <2> QED
    BY <1>1, <1>5, <1>14, <2>1, Zenon DEF RebuiltOk
<1>16. n.path = node.path /\ n.mod = m
  BY <1>1 DEF Rewritten, Inner
<1>17. PICK graft, q : graft = Pair(e, n, f, leaf) /\ q = Pair(e, pre[at], f, Onto(pre[at], N[at].path))
  OBVIOUS
<1>18. DOMAIN graft = { e, f } /\ graft[e] = n /\ graft[f] = leaf
  BY <1>13, <1>17 DEF Pair
<1>19. Graft(N, pre, at, e, graft, q)
  <2>1. Len(pre[at]) + Len(N[at].path) + Len(leaf.path) <= MaxKeyLen
    <3>1. h + k + (l - k) <= MaxKeyLen
      BY <1>9, NatAssumption
    <3> QED
      BY <1>1, <1>5, <1>8, <1>9, <3>1
  <2>2. e = 0 <=> at = 0
    BY <1>13, <1>15
  <2>3. e \notin DOMAIN N \ { at } /\ LeafOk(leaf) /\ ChildOk(N, at, n, f, leaf.path[1].ch)
    BY <1>5, <1>13, <1>15
  <2>4. Graft(N, pre, at, e, Pair(e, n, f, leaf), Pair(e, pre[at], f, Onto(pre[at], N[at].path)))
    BY <1>2, <1>3, <1>12, <1>13, <2>1, <2>2, <2>3, PairGraft
  <2> QED
    BY <1>17, <2>4, Zenon
<1>20. /\ u.nodes = Plus(Plus(Point(Without(N, at), w.from, e), e, n), f, leaf)
       /\ u.wasted = t.wasted + PathBytes(node.path) + VTCHILDS_L + node.mod * VTENTRY_L
       /\ u.end = f + NodeBytes(leaf)
  <2>1. ResolveIs(t, w, d)
    BY <1>2, Resolved
  <2> QED
    BY <1>1, <2>1, Zenon DEF ResolveIs
<1>21. Grafted(N, u.nodes, at, e, graft)
  <2>1. PICK M : M = Point(Without(N, at), w.from, e)
    OBVIOUS
  <2>2. DOMAIN M = DOMAIN N \ { at } /\ \A x \in DOMAIN N \ { at } : M[x] = Redirect(N[x], at, e)
    <3>1. w.from[1] \in DOMAIN N /\ w.from[2] \in Children(N[w.from[1]]) /\ N[w.from[1]].child[w.from[2]] = at
      BY <1>1, <1>15, Zenon DEF Meets
    <3>2. at \in DOMAIN N \ { 0 }
      BY <1>2, <1>15
    <3>3. PICK from : from = w.from
      OBVIOUS
    <3>4. Pointed(N, at, from, e)
      BY <1>2, <3>1, <3>2, <3>3, PointIs
    <3> QED
      BY <2>1, <3>3, <3>4 DEF Pointed
  <2>3. PICK M2 : M2 = Plus(M, e, n)
    OBVIOUS
  <2>4. DOMAIN M2 = DOMAIN M \cup { e } /\ M2[e] = n /\ \A x \in DOMAIN M : x # e => M2[x] = M[x]
    BY <2>3 DEF Plus
  <2>5. u.nodes = Plus(M2, f, leaf)
    BY <1>20, <2>1, <2>3
  <2>6. DOMAIN u.nodes = DOMAIN M2 \cup { f } /\ u.nodes[f] = leaf /\ \A x \in DOMAIN M2 : x # f => u.nodes[x] = M2[x]
    BY <2>5 DEF Plus
  <2>7. \A x \in DOMAIN N \ { at } : u.nodes[x] = Redirect(N[x], at, e)
    BY <1>13, <2>2, <2>4, <2>6
  <2>8. u.nodes[e] = n
    BY <1>13, <2>4, <2>6
  <2>9. DOMAIN u.nodes = (DOMAIN N \ { at }) \cup DOMAIN graft
    BY <1>18, <2>2, <2>4, <2>6
  <2> QED
    BY <1>18, <2>6, <2>7, <2>8, <2>9 DEF Grafted
<1>22. PICK b \in Nat, c \in Nat, o \in Nat, m0 \in Nat :
         /\ b = 2 + 5 * k + 4 * m /\ c = 2 + 5 * (l - k) /\ o = t.wasted /\ m0 = node.mod /\ m0 <= m
  <2>1. node.mod \in Nat /\ node.mod <= m /\ t.wasted \in Nat
    BY <1>3, <1>4, <1>15, CodesAssumption
  <2>2. 2 + 5 * k + 4 * m \in Nat
    BY <1>12
  <2>3. k < l
    BY <1>9
  <2>4. 2 + 5 * (l - k) \in Nat
    BY <2>3
  <2> QED
    BY <2>1, <2>2, <2>4
<1>28. b = 2 + 5 * k + 4 * m /\ c = 2 + 5 * (l - k) /\ m0 <= m
  BY <1>22
<1>29. f = e + (1 + 5 * k + 1 + m * 5) /\ m \in Nat /\ f \in Nat /\ e \in Nat
  BY <1>3, <1>12
<1>23. /\ Bytes(New(graft), e) = b /\ Bytes(New(graft), f) = c /\ NodeBytes(leaf) = c
       /\ Bytes(t, at) = 2 + 5 * k + 4 * m0
  <2>1. New(graft).nodes = graft
    BY DEF New
  <2>2. NodeBytes(n) = b
    BY <1>4, <1>8, <1>12, <1>16, <1>22, BytesOf
  <2>3. NodeBytes(leaf) = c
    BY <1>5, <1>9, <1>22
  <2>4. NodeBytes(node) = 2 + 5 * k + 4 * m0
    BY <1>4, <1>8, <1>22, BytesOf
  <2> QED
    BY <1>1, <1>13, <1>15, <1>18, <2>1, <2>2, <2>3, <2>4, Zenon DEF Bytes
<1>24. u.end = f + c /\ u.wasted = o + (1 + 5 * k + 1 + m0 * 5) /\ t.end = e /\ t.wasted = o
  <2>1. PathBytes(node.path) = 1 + 5 * k
    BY <1>8 DEF PathBytes, VTSAMEPS_L, VTENTRY_L
  <2>2. u.wasted = o + PathBytes(node.path) + 1 + m0 * 5
    BY <1>20, <1>22 DEF VTCHILDS_L, VTENTRY_L
  <2>3. u.wasted = o + (1 + 5 * k + 1 + m0 * 5)
    BY <2>1, <2>2
  <2> QED
    BY <1>1, <1>20, <1>22, <1>23, <2>3
<1>25. Room(t, at, graft, u.end, u.wasted)
  <2>1. e + b <= f /\ e + b <= u.end
    <3>1. e + b <= f /\ f <= f + c
      BY <1>28, <1>29
    <3> QED
      BY <1>24, <1>29, <3>1
  <2>2. NodeRoom(t, at, u.end, e, b)
    BY <1>3, <1>24, <2>1 DEF NodeRoom
  <2>3. NodeRoom(t, at, u.end, f, c)
    BY <1>3, <1>12, <1>13, <1>24 DEF NodeRoom
  <2>4. t.end <= u.end
    BY <1>3, <1>12, <1>24
  <2>5. b + c + u.wasted <= Bytes(t, at) + t.wasted + (u.end - t.end)
    <3>1. PICK i, j : i \in Nat /\ i = u.end /\ j = u.wasted
      BY <1>12, <1>24
    <3>2. i = e + (1 + 5 * k + 1 + m * 5) + c /\ j = o + (1 + 5 * k + 1 + m0 * 5)
      BY <1>12, <1>24, <3>1
    <3>3. b + c + j <= (2 + 5 * k + 4 * m0) + o + (i - e)
      BY <1>28, <1>29, <3>2
    <3> QED
      BY <1>23, <1>24, <3>1, <3>3
  <2>6. Bytes(New(graft), e) = b /\ Bytes(New(graft), f) = c /\ e < f
    BY <1>3, <1>12, <1>13, <1>23
  <2> QED
    BY <1>3, <1>12, <1>18, <2>1, <2>2, <2>3, <2>4, <2>5, <2>6, RoomTwo
<1>26. u.end - t.end <= MIN_REMAIN + 1
  <2>1. m <= VTKEY_NUM /\ MIN_REMAIN + 1 >= 4 + 5 * (MaxKeyLen + VTKEY_NUM) /\ MIN_REMAIN \in Nat
    BY <1>11, SizesAre
  <2>2. u.end - t.end = (1 + 5 * k + 1 + m * 5) + (2 + 5 * (l - k))
    BY <1>3, <1>12, <1>22, <1>24
  <2>3. (1 + 5 * k + 1 + m * 5) + (2 + 5 * (l - k)) = 4 + 5 * (l + m)
    BY <1>12
  <2>4. 4 + 5 * (l + m) <= MIN_REMAIN + 1
    BY <1>9, <1>12, <2>1, NatAssumption, CodesAssumption
  <2> QED
    BY <2>2, <2>3, <2>4
<1>27. graft = RebuildGraft(t, w, d)
  BY <1>1, <1>17 DEF RebuildGraft
<1>90. u.end \in Nat /\ u.wasted \in Nat
  <2>1. u.end \in Nat
    BY <1>24, <1>29
  <2>2. u.wasted \in Nat
    BY <1>24
  <2> QED
    BY <2>1, <2>2
<1> QED
  BY <1>1, <1>17, <1>19, <1>21, <1>25, <1>26, <1>27, <1>90 DEF Insertion
-----------------------------------------------------------------------------
(* A path that is split. *)

(* The first characters of a path. *)
LEMMA FrontIs ==
  ASSUME NEW S, NEW path \in Seq(S), NEW k \in 0 .. Len(path)
  PROVE  /\ SubSeq(path, 1, k) \in Seq(S) /\ Len(SubSeq(path, 1, k)) = k
         /\ \A i \in 1 .. k : SubSeq(path, 1, k)[i] = path[i]
OBVIOUS

(* What is left of a path. *)
LEMMA BackIs ==
  ASSUME NEW S, NEW path \in Seq(S), NEW k \in 0 .. Len(path)
  PROVE  /\ Rest(path, k) \in Seq(S) /\ Len(Rest(path, k)) = Len(path) - k
         /\ \A i \in 1 .. Len(path) - k : Rest(path, k)[i] = path[k + i]
<1>1. PICK n \in Nat : n = Len(path)
  OBVIOUS
<1>2. PICK r : r = SubSeq(path, k + 1, n)
  OBVIOUS
<1>3. r \in Seq(S) /\ Len(r) = n - k
  BY <1>1, <1>2
<1>4. ASSUME NEW i \in 1 .. n - k PROVE r[i] = path[k + i]
  <2>1. r[i] = path[(k + 1) + i - 1] /\ (k + 1) + i - 1 = k + i
    BY <1>1, <1>2
  <2> QED
    BY <2>1
<1>5. r = Rest(path, k)
  BY <1>1, <1>2 DEF Rest
<1> QED
  BY <1>1, <1>3, <1>4, <1>5

(***************************************************************************)
(* What follows a path follows what is left of it after its first          *)
(* characters.                                                             *)
(***************************************************************************)
LEMMA FollowsTail ==
  ASSUME NEW p \in Seq(Char), NEW path \in Seq(Entry), NEW k \in 0 .. Len(path), NEW r, NEW z,
         Follows(p, SubSeq(path, 1, k), r), Follows(p, path, z)
  PROVE  Follows(r, Rest(path, k), z)
<1>1. PICK m \in Nat, n \in Nat : m = Len(p) /\ n = Len(path)
  OBVIOUS
<1>2. /\ Len(SubSeq(path, 1, k)) = k /\ \A i \in 1 .. k : SubSeq(path, 1, k)[i] = path[i]
      /\ Len(Rest(path, k)) = n - k /\ \A i \in 1 .. n - k : Rest(path, k)[i] = path[k + i]
  BY <1>1, FrontIs, BackIs
<1>3. /\ Len(r) = m + k /\ \A i \in 1 .. m : r[i] = p[i]
      /\ \A i \in 1 .. k : r[m + i] = path[i].ch
  BY <1>1, <1>2 DEF Follows
<1>4. /\ Len(z) = m + n /\ \A i \in 1 .. m : z[i] = p[i]
      /\ \A i \in 1 .. n : z[m + i] = path[i].ch
  BY <1>1 DEF Follows
<1>5. ASSUME NEW i \in 1 .. m + k PROVE z[i] = r[i]
  <2>1. CASE i <= m
    <3>1. i \in 1 .. m
      BY <2>1
    <3> QED
      BY <1>3, <1>4, <3>1
  <2>2. CASE i > m
    <3>1. PICK j \in 1 .. k : i = m + j
      <4>1. i - m \in 1 .. k /\ i = m + (i - m)
        BY <2>2
      <4> QED
        BY <4>1
    <3>2. j \in 1 .. n
      BY <1>1
    <3> QED
      BY <1>3, <1>4, <3>1, <3>2
  <2> QED
    BY <2>1, <2>2
<1>6. ASSUME NEW i \in 1 .. n - k PROVE z[(m + k) + i] = Rest(path, k)[i].ch
  <2>1. k + i \in 1 .. n /\ (m + k) + i = m + (k + i)
    BY <1>1
  <2>2. z[m + (k + i)] = path[k + i].ch
    BY <1>4, <2>1
  <2> QED
    BY <1>2, <2>1, <2>2
<1>7. (m + k) + (n - k) = m + n
  BY <1>1
<1> QED
  BY <1>2, <1>3, <1>4, <1>5, <1>6, <1>7 DEF Follows

(* The three nodes: the rest of the old one, its beginning and the leaf. *)
Triple(g, tail, e, n, f, leaf) == [x \in { g, e, f } |-> IF x = g THEN tail ELSE IF x = e THEN n ELSE leaf]

(* The beginning, with the two others below it. *)
TopOk(n, top, f, c, g, b) ==
  /\ n \in Node /\ n.path = top /\ n.child \in [0 .. n.mod - 1 -> Nat] /\ n.mod # 1
  /\ c % n.mod # b % n.mod /\ Children(n) = { c % n.mod, b % n.mod }
  /\ n.child[c % n.mod] = f /\ n.child[b % n.mod] = g
  /\ \A m \in 1 .. n.mod - 1 : c % m = b % m

TailOk(tail, node, k) ==
  /\ tail \in Node /\ tail.path = Rest(node.path, k) /\ tail.mod = node.mod /\ tail.child = node.child

(* A path cut in two with a new leaf beside the tail is a graft of three. *)
LEMMA TripleGraft ==
  ASSUME NEW N, NEW pre, Shaped(N, pre), NEW at \in DOMAIN N, at # 0,
         NEW k, k \in 1 .. Len(N[at].path) - 1,
         NEW g \in Nat, NEW e \in Nat, NEW f \in Nat, g # 0, e # 0, f # 0, g # e, g # f, e # f,
         g \notin DOMAIN N, e \notin DOMAIN N, f \notin DOMAIN N, NEW n, NEW tail, NEW leaf,
         TopOk(n, SubSeq(N[at].path, 1, k), f, leaf.path[1].ch, g, N[at].path[k + 1].ch),
         TailOk(tail, N[at], k), LeafOk(leaf), Len(pre[at]) + k + Len(leaf.path) <= MaxKeyLen,
         NEW r, r = Onto(pre[at], SubSeq(N[at].path, 1, k))
  PROVE  Graft(N, pre, at, e, Triple(g, tail, e, n, f, leaf), Triple(g, r, e, pre[at], f, r))
<1>1. PICK graft, p, q, node, top, c, b :
        /\ graft = Triple(g, tail, e, n, f, leaf) /\ p = pre[at] /\ q = Triple(g, r, e, p, f, r)
        /\ node = N[at] /\ top = SubSeq(node.path, 1, k) /\ c = leaf.path[1].ch /\ b = node.path[k + 1].ch
  OBVIOUS
<1>2. /\ DOMAIN graft = { g, e, f } /\ graft[g] = tail /\ graft[e] = n /\ graft[f] = leaf
      /\ DOMAIN q = { g, e, f } /\ q[g] = r /\ q[e] = p /\ q[f] = r
  BY <1>1 DEF Triple
<1>3. /\ n \in Node /\ n.path = top /\ n.child \in [0 .. n.mod - 1 -> Nat] /\ n.mod # 1
      /\ c % n.mod # b % n.mod /\ Children(n) = { c % n.mod, b % n.mod }
      /\ n.child[c % n.mod] = f /\ n.child[b % n.mod] = g
      /\ \A m \in 1 .. n.mod - 1 : c % m = b % m
  BY <1>1 DEF TopOk
<1>4. tail \in Node /\ tail.path = Rest(node.path, k) /\ tail.mod = node.mod /\ tail.child = node.child
  BY <1>1 DEF TailOk
<1>5. /\ leaf \in Node /\ leaf.child \in [0 .. leaf.mod - 1 -> Nat] /\ leaf.mod = 0
      /\ leaf.path # << >> /\ Children(leaf) = {}
  BY DEF LeafOk
<1>6. /\ node.path \in Seq(Entry) /\ p \in Seq(Char) /\ Len(p) + Len(node.path) <= MaxKeyLen
      /\ node.child \in [0 .. node.mod - 1 -> Nat] /\ node.mod # 1
  BY <1>1 DEF Shaped, Typed, Node, Spells
<1>7. k \in 0 .. Len(node.path) /\ k \in Nat /\ k >= 1 /\ k + 1 <= Len(node.path) /\ Len(node.path) \in Nat
  <2>1. PICK l \in Nat : l = Len(node.path)
    BY <1>6
  <2>2. k \in 1 .. l - 1
    BY <1>1, <2>1
  <2> QED
    BY <2>1, <2>2
<1>8. top \in Seq(Entry) /\ Len(top) = k /\ \A i \in 1 .. k : top[i] = node.path[i]
  BY <1>1, <1>6, <1>7, FrontIs, Zenon
<1>9. /\ tail.path \in Seq(Entry) /\ Len(tail.path) = Len(node.path) - k
      /\ \A i \in 1 .. Len(node.path) - k : tail.path[i] = node.path[k + i]
  <2>1. PICK path : path = node.path
    OBVIOUS
  <2>2. path \in Seq(Entry) /\ k \in 0 .. Len(path)
    BY <1>6, <1>7, <2>1
  <2>3. /\ Rest(path, k) \in Seq(Entry) /\ Len(Rest(path, k)) = Len(path) - k
        /\ \A i \in 1 .. Len(path) - k : Rest(path, k)[i] = path[k + i]
    BY <2>2, BackIs
  <2>4. tail.path = Rest(path, k)
    BY <1>4, <2>1
  <2> QED
    BY <2>1, <2>3, <2>4, Zenon
<1>10. top # << >> /\ tail.path # << >> /\ top[1] = node.path[1] /\ tail.path[1] = node.path[k + 1]
  <2>1. PICK l \in Nat : l = Len(node.path)
    BY <1>6
  <2>2. 1 \in 1 .. k /\ 1 \in 1 .. l - k /\ l - k # 0 /\ k # 0
    BY <1>7, <2>1
  <2>3. top[1] = node.path[1] /\ Len(top) # 0
    BY <1>8, <2>2
  <2>4. Len(tail.path) = l - k /\ tail.path[1] = node.path[k + 1]
    BY <1>9, <2>1, <2>2
  <2>5. tail.path # << >>
    BY <2>2, <2>4
  <2>6. top # << >>
    BY <2>3
  <2> QED
    BY <2>3, <2>4, <2>5, <2>6
<1>11. r \in Seq(Char) /\ Len(r) = Len(p) + k /\ Follows(p, top, r)
  BY <1>1, <1>6, <1>8, OntoIs
<1>12. Kids(N, at) \subseteq DOMAIN N \ { at }
  BY NotItsChild
<1>13. First(graft, f) = c /\ First(graft, g) = b /\ First(graft, e) = First(N, at)
  BY <1>1, <1>2, <1>3, <1>10 DEF First
<1>14. Children(tail) = Children(node)
  BY <1>4 DEF Children
<1>15. GraftTyped(N, at, e, graft)
  <2>1. IsFiniteSet({ g, e, f })
    <3>1. IsFiniteSet({ g }) /\ { g, e, f } = ({ g } \cup { e }) \cup { f }
      BY FS_Singleton
    <3>2. IsFiniteSet({ g } \cup { e })
      BY <3>1, FS_AddElement
    <3>3. IsFiniteSet(({ g } \cup { e }) \cup { f })
      BY <3>2, FS_AddElement
    <3> QED
      BY <3>1, <3>3
  <2>2. DOMAIN graft \cap (DOMAIN N \ { at }) = {} /\ DOMAIN graft \subseteq Nat /\ e \in DOMAIN graft
    BY <1>2
  <2>3. ASSUME NEW x \in DOMAIN graft
        PROVE  /\ x = 0 <=> x = e /\ at = 0
               /\ graft[x] \in Node
               /\ graft[x].child \in [0 .. graft[x].mod - 1 -> Nat]
               /\ graft[x].mod # 1
               /\ graft[x].path = << >> <=> x = 0
    <3>1. CASE x = g
      BY <1>2, <1>4, <1>6, <1>10, <3>1
    <3>2. CASE x = e
      BY <1>2, <1>3, <1>10, <3>2
    <3>3. CASE x = f
      BY <1>2, <1>5, <3>3
    <3> QED
      BY <1>2, <3>1, <3>2, <3>3
  <2> QED
    BY <1>2, <1>13, <2>1, <2>2, <2>3, Zenon DEF GraftTyped
<1>16. ASSUME NEW s \in Children(node)
       PROVE  /\ node.child[s] \in Kids(N, at) /\ First(N, node.child[s]) % tail.mod = s
              /\ Follows(r, tail.path, pre[node.child[s]])
              /\ \A u \in Children(node) : node.child[s] = node.child[u] => s = u
  <2>1. /\ node.child[s] \in Kids(N, at) /\ First(N, node.child[s]) % node.mod = s
        /\ Follows(p, node.path, pre[node.child[s]])
        /\ \A u \in Children(node) : node.child[s] = node.child[u] => s = u
    BY <1>1, KidsAre
  <2>2. PICK z : z = pre[node.child[s]]
    OBVIOUS
  <2>3. Follows(r, Rest(node.path, k), z)
    BY <1>1, <1>6, <1>7, <1>11, <2>1, <2>2, FollowsTail
  <2> QED
    BY <1>4, <2>1, <2>2, <2>3
<1>17. GraftLinked(N, pre, at, e, graft, q)
  <2>1. ASSUME NEW x \in DOMAIN graft, NEW s \in Children(graft[x])
        PROVE  \/ x = e /\ s = c % n.mod /\ graft[x].child[s] = f
               \/ x = e /\ s = b % n.mod /\ graft[x].child[s] = g
               \/ x = g /\ s \in Children(node) /\ graft[x].child[s] = node.child[s] /\ node.child[s] \in Kids(N, at)
    <3>1. CASE x = e
      BY <1>2, <1>3, <3>1
    <3>2. CASE x = g
      BY <1>2, <1>4, <1>14, <1>16, <3>2
    <3>3. CASE x = f
      BY <1>2, <1>5, <3>3
    <3> QED
      BY <1>2, <3>1, <3>2, <3>3
  <2>2. ASSUME NEW x \in DOMAIN graft, NEW s \in Children(graft[x])
        PROVE  LET y == graft[x].child[s] IN
               \/ /\ y \in DOMAIN graft \ { e }
                  /\ First(graft, y) % graft[x].mod = s /\ Follows(q[x], graft[x].path, q[y])
               \/ /\ y \in Kids(N, at)
                  /\ First(N, y) % graft[x].mod = s /\ Follows(q[x], graft[x].path, pre[y])
    <3>1. CASE x = e /\ s = c % n.mod /\ graft[x].child[s] = f
      BY <1>2, <1>3, <1>11, <1>13, <3>1
    <3>2. CASE x = e /\ s = b % n.mod /\ graft[x].child[s] = g
      BY <1>2, <1>3, <1>11, <1>13, <3>2
    <3>3. CASE x = g /\ s \in Children(node) /\ graft[x].child[s] = node.child[s] /\ node.child[s] \in Kids(N, at)
      BY <1>2, <1>4, <1>16, <3>3
    <3> QED
      BY <2>1, <3>1, <3>2, <3>3
  <2>3. ASSUME NEW x \in DOMAIN graft, NEW y \in DOMAIN graft, NEW s \in Children(graft[x]),
               NEW u \in Children(graft[y]), graft[x].child[s] = graft[y].child[u]
        PROVE  x = y /\ s = u
    <3>1. f \notin Kids(N, at) /\ g \notin Kids(N, at)
      BY <1>12
    <3>2. \/ x = e /\ s = c % n.mod /\ graft[x].child[s] = f
          \/ x = e /\ s = b % n.mod /\ graft[x].child[s] = g
          \/ x = g /\ s \in Children(node) /\ graft[x].child[s] = node.child[s] /\ node.child[s] \in Kids(N, at)
      BY <2>1
    <3>3. \/ y = e /\ u = c % n.mod /\ graft[y].child[u] = f
          \/ y = e /\ u = b % n.mod /\ graft[y].child[u] = g
          \/ y = g /\ u \in Children(node) /\ graft[y].child[u] = node.child[u] /\ node.child[u] \in Kids(N, at)
      BY <2>1
    <3> QED
      BY <1>16, <2>3, <3>1, <3>2, <3>3
  <2>4. ASSUME NEW y \in (DOMAIN graft \ { e }) \cup Kids(N, at)
        PROVE  \E x \in DOMAIN graft : \E s \in Children(graft[x]) : graft[x].child[s] = y
    <3>1. CASE y = f
      BY <1>2, <1>3, <3>1
    <3>2. CASE y = g
      BY <1>2, <1>3, <3>2
    <3>3. CASE y \in Kids(N, at)
      <4>1. PICK s \in Children(node) : y = node.child[s]
        BY <1>1, <3>3 DEF Kids
      <4> QED
        BY <1>2, <1>4, <1>14, <4>1
    <3> QED
      BY <1>2, <3>1, <3>2, <3>3
  <2> QED
    BY <2>2, <2>3, <2>4 DEF GraftLinked
<1>18. GraftSpells(pre, at, e, graft, q)
  <2>1. q \in [DOMAIN graft -> Seq(Char)]
    <3>1. q = [x \in { g, e, f } |-> IF x = g THEN r ELSE IF x = e THEN p ELSE r]
      BY <1>1 DEF Triple
    <3> QED
      BY <1>2, <1>6, <1>11, <3>1
  <2>2. PICK h \in Nat, l \in Nat : h = Len(p) /\ l = Len(node.path)
    BY <1>6
  <2>3. Len(q[e]) + Len(n.path) <= MaxKeyLen
    <3>1. h + l <= MaxKeyLen /\ k <= l
      BY <1>6, <1>7, <2>2
    <3>2. h + k <= MaxKeyLen
      BY <1>7, <3>1, NatAssumption
    <3> QED
      BY <1>2, <1>3, <1>8, <2>2, <3>2
  <2>4. Len(q[g]) + Len(tail.path) <= MaxKeyLen
    <3>1. Len(q[g]) = h + k /\ Len(tail.path) = l - k /\ h + l <= MaxKeyLen
      BY <1>2, <1>6, <1>9, <1>11, <2>2
    <3>2. (h + k) + (l - k) = h + l
      BY <1>7
    <3> QED
      BY <3>1, <3>2
  <2>5. Len(q[f]) + Len(leaf.path) <= MaxKeyLen
    BY <1>1, <1>2, <1>11
  <2>6. \A x \in DOMAIN graft : Len(q[x]) + Len(graft[x].path) <= MaxKeyLen
    BY <1>2, <2>3, <2>4, <2>5
  <2> QED
    BY <1>1, <1>2, <2>1, <2>6 DEF GraftSpells
<1>19. GraftTight(N, graft)
  <2> SUFFICES ASSUME NEW x \in DOMAIN graft \ { 0 }, NEW m \in 1 .. graft[x].mod - 1
               PROVE  \E s, u \in Children(graft[x]) :
                 s # u /\ FirstOf(N, graft, graft[x].child[s]) % m = FirstOf(N, graft, graft[x].child[u]) % m
    BY DEF GraftTight
  <2>1. CASE x = e
    <3>1. FirstOf(N, graft, f) = c /\ FirstOf(N, graft, g) = b
      BY <1>2, <1>13 DEF FirstOf
    <3>2. c % m = b % m
      BY <1>2, <1>3, <2>1
    <3>3. graft[x] = n /\ c % n.mod \in Children(n) /\ b % n.mod \in Children(n)
      BY <1>2, <1>3, <2>1
    <3> QED
      BY <1>3, <3>1, <3>2, <3>3
  <2>2. CASE x = g
    <3>1. m \in 1 .. node.mod - 1
      BY <1>2, <1>4, <2>2
    <3>2. Clash(N, at, m)
      BY <1>1, <3>1 DEF Shaped, Tight
    <3>3. PICK s \in Children(node), u \in Children(node) :
            s # u /\ First(N, node.child[s]) % m = First(N, node.child[u]) % m
      BY <1>1, <3>2 DEF Clash
    <3>4. ASSUME NEW v \in Children(node) PROVE FirstOf(N, graft, graft[x].child[v]) = First(N, node.child[v])
      <4>1. node.child[v] \notin DOMAIN graft
        BY <1>2, <1>12, <1>16
      <4> QED
        BY <1>2, <1>4, <2>2, <4>1 DEF FirstOf
    <3>5. Children(graft[x]) = Children(node)
      BY <1>2, <1>14, <2>2
    <3> QED
      BY <3>3, <3>4, <3>5
  <2>3. CASE x = f
    <3>1. FALSE
      BY <1>2, <1>5, <2>3
    <3> QED
      BY <3>1
  <2> QED
    BY <1>2, <2>1, <2>2, <2>3
<1>20. Graft(N, pre, at, e, graft, q)
  BY <1>15, <1>17, <1>18, <1>19 DEF Graft
<1> QED
  BY <1>1, <1>20

OtherChar(t, w) == t.nodes[w.at].path[w.agree + 1].ch
NextKeyChar(w) == Rest(w.rest, w.agree)[1]
TopPath(t, w) == SubSeq(t.nodes[w.at].path, 1, w.agree)
SplitMod(t, w) == getModMinSize({ NextKeyChar(w), OtherChar(t, w) })
SplitLeafAt(t, w) == t.end + PathBytes(TopPath(t, w)) + VTCHILDS_L + VTPTR_L * SplitMod(t, w)

TwoAt(m, i, f, j, g) == [s \in 0 .. m - 1 |-> CASE s = i -> f [] s = j -> g [] OTHER -> 0]

TwoPlaces(m, c, f, b, g) == TwoAt(m, c % m, f, b % m, g)

SplitTop(t, w) ==
  Inner(TopPath(t, w), SplitMod(t, w),
        TwoPlaces(SplitMod(t, w), NextKeyChar(w), SplitLeafAt(t, w), OtherChar(t, w), TailAt(w, TopPath(t, w))))

SplitTail(t, w) == [t.nodes[w.at] EXCEPT !.path = Rest(@, w.agree)]

SplitIs(t, w, d) ==
  LET r == Split(t, w, d)
      leaf == Leaf(Rest(w.rest, w.agree), d) IN
  /\ r.nodes = Plus(Plus(Plus(Point(Without(t.nodes, w.at), w.from, t.end),
                              TailAt(w, TopPath(t, w)), SplitTail(t, w)), t.end, SplitTop(t, w)),
                    SplitLeafAt(t, w), leaf)
  /\ r.wasted = t.wasted + PathBytes(TopPath(t, w)) - 1
  /\ r.end = SplitLeafAt(t, w) + NodeBytes(leaf)
  /\ r.value = t.value /\ r.more = t.more /\ r.size = t.size
  /\ r = [nodes |-> r.nodes, value |-> r.value, more |-> r.more, end |-> r.end, wasted |-> r.wasted, size |-> r.size]

(* What a split makes of the trie, field by field. *)
LEMMA SplitDone ==
  ASSUME NEW t, IsTrie(t), NEW w, NEW d
  PROVE  SplitIs(t, w, d)
<1> DEFINE node == t.nodes[w.at]
           rest == Rest(w.rest, w.agree)
           other == node.path[w.agree + 1].ch
           top == SubSeq(node.path, 1, w.agree)
           m == getModMinSize({ rest[1], other })
           leaf == Leaf(rest, d)
           f == t.end + PathBytes(top) + VTCHILDS_L + VTPTR_L * m
           child == [s \in 0 .. m - 1 |-> CASE s = rest[1] % m -> f
                                            [] s = other % m -> TailAt(w, top)
                                            [] OTHER -> 0]
           tail == [node EXCEPT !.path = Rest(@, w.agree)]
           others == Point(Without(t.nodes, w.at), w.from, t.end)
           X == Plus(Plus(Plus(others, TailAt(w, top), tail), t.end, Inner(top, m, child)), f, leaf)
           z == t.wasted + PathBytes(top) - 1
           y == f + NodeBytes(leaf)
           r == Split(t, w, d)
<1>1. r = [t EXCEPT !.nodes = X, !.wasted = @ + PathBytes(top) - 1, !.end = y]
  BY Zenon DEF Split
<1>2. /\ other = OtherChar(t, w) /\ rest[1] = NextKeyChar(w) /\ top = TopPath(t, w) /\ tail = SplitTail(t, w)
      /\ m = SplitMod(t, w) /\ f = SplitLeafAt(t, w)
  BY Zenon DEF OtherChar, NextKeyChar, TopPath, SplitTail, SplitMod, SplitLeafAt
<1>3. child = TwoPlaces(m, rest[1], f, other, TailAt(w, top))
  <2> HIDE DEF m, f, rest, other, top
  <2> QED
    BY Zenon DEF TwoPlaces, TwoAt, child
<1>4. Inner(top, m, child) = SplitTop(t, w)
  <2> HIDE DEF m, f, child, other, top, rest
  <2> QED
    BY <1>2, <1>3, Zenon DEF SplitTop
<1>5. X = Plus(Plus(Plus(Point(Without(t.nodes, w.at), w.from, t.end),
                              TailAt(w, TopPath(t, w)), SplitTail(t, w)), t.end, SplitTop(t, w)),
                    SplitLeafAt(t, w), Leaf(Rest(w.rest, w.agree), d))
  <2> HIDE DEF m, f, child, other, top, tail
  <2> QED
    BY <1>2, <1>4, Zenon
<1>6. y = SplitLeafAt(t, w) + NodeBytes(Leaf(Rest(w.rest, w.agree), d))
  <2> HIDE DEF f
  <2> QED
    BY <1>2, Zenon
<1>7. t = [nodes |-> t.nodes, value |-> t.value, more |-> t.more,
            end |-> t.end, wasted |-> t.wasted, size |-> t.size]
  BY DEF IsTrie
<1>8. z = t.wasted + PathBytes(TopPath(t, w)) - 1
  <2> HIDE DEF top
  <2> QED
    BY <1>2, Zenon
<1> HIDE DEF X, y
<1>9. r = [t EXCEPT !.nodes = X, !.wasted = z, !.end = y]
  <2> HIDE DEF r
  <2> QED
    BY <1>1
<1> HIDE DEF z, r
<1>10. r = [nodes |-> X, value |-> t.value, more |-> t.more, end |-> y, wasted |-> z, size |-> t.size]
  BY <1>7, <1>9
<1>11. /\ r.nodes = X /\ r.wasted = z /\ r.end = y /\ r.value = t.value /\ r.more = t.more /\ r.size = t.size
       /\ r = [nodes |-> r.nodes, value |-> r.value, more |-> r.more, end |-> r.end, wasted |-> r.wasted, size |-> r.size]
  BY <1>10
<1> QED
  BY <1>5, <1>6, <1>8, <1>11, Zenon DEF SplitIs, r

(* The node that a split makes of the common characters. *)
LEMMA TopIs ==
  ASSUME NEW top \in Seq(Entry), NEW c \in Char, NEW b \in Char, c # b,
         NEW f \in Nat, NEW g \in Nat, f # 0, g # 0, NEW m, m = getModMinSize({ c, b })
  PROVE  TopOk(Inner(top, m, TwoPlaces(m, c, f, b, g)), top, f, c, g, b) /\ m \in 2 .. VTKEY_NUM
<1>1. PICK K : K = { c, b }
  OBVIOUS
<1>2. K \subseteq Char /\ c \in K /\ b \in K /\ m = getModMinSize(K)
  BY <1>1
<1>3. /\ m \in 2 .. VTKEY_NUM
      /\ \A x, y \in K : x # y => x % m # y % m
      /\ \A k \in 1 .. m - 1 : \E x, y \in K : x # y /\ x % k = y % k
  <2>1. PICK k2 : k2 = getModMinSize(K)
    OBVIOUS
  <2>2. /\ k2 \in 2 .. VTKEY_NUM
        /\ \A x, y \in K : x # y => x % k2 # y % k2
        /\ \A k \in 1 .. k2 - 1 : \E x, y \in K : x # y /\ x % k = y % k
    BY <1>2, <2>1, ModMinSize
  <2>3. k2 = m
    BY <1>2, <2>1, Zenon
  <2> QED
    BY <2>2, <2>3, Zenon
<1>4. \A x \in K : x % m \in 0 .. m - 1
  <2>1. ASSUME NEW x \in K PROVE x % m \in 0 .. m - 1
    <3>1. \A z \in Char : z \in Nat
      BY CodesAssumption DEF Char
    <3>2. \A z \in 2 .. VTKEY_NUM : z \in Nat /\ z > 0
      BY CodesAssumption
    <3>3. x \in Nat /\ m \in Nat /\ m > 0
      BY <1>2, <1>3, <3>1, <3>2
    <3>4. PICK z \in Nat, y \in Nat : z = x /\ y = m /\ y > 0
      BY <3>3
    <3>5. z % y \in 0 .. y - 1
      BY <3>4, Remainder
    <3> QED
      BY <3>4, <3>5
  <2> QED
    BY <2>1
<1>5. PICK i, j : i = c % m /\ j = b % m
  OBVIOUS
<1>6. i \in 0 .. m - 1 /\ j \in 0 .. m - 1 /\ i # j
  BY <1>2, <1>3, <1>4, <1>5
<1>7. PICK h : h = TwoPlaces(m, c, f, b, g)
  OBVIOUS
<1>8. h = [s \in 0 .. m - 1 |-> CASE s = i -> f [] s = j -> g [] OTHER -> 0]
  <2>1. h = TwoAt(m, i, f, j, g)
    BY <1>5, <1>7, Zenon DEF TwoPlaces
  <2> QED
    BY <2>1 DEF TwoAt
<1>9. h \in [0 .. m - 1 -> Nat] /\ h[i] = f /\ h[j] = g /\ \A s \in 0 .. m - 1 : s # i /\ s # j => h[s] = 0
  BY <1>6, <1>8
<1>10. PICK n : n = Inner(top, m, h)
  OBVIOUS
<1>11. n = [path |-> top, mod |-> m, child |-> h] /\ n.path = top /\ n.mod = m /\ n.child = h
  BY <1>10 DEF Inner
<1>12. n \in Node
  <2>1. m \in 0 .. VTKEY_NUM
    BY <1>3, CodesAssumption
  <2>2. h \in UNION { [0 .. k - 1 -> Nat] : k \in 0 .. VTKEY_NUM }
    BY <1>9, <2>1
  <2> QED
    BY <1>11, <2>1, <2>2 DEF Node
<1>13. Children(n) = { i, j }
  <2>1. Children(n) = { s \in 0 .. m - 1 : h[s] # 0 }
    BY <1>9, <1>11 DEF Children
  <2> QED
    BY <1>6, <1>9, <2>1
<1>14. \A k \in 1 .. n.mod - 1 : c % k = b % k
  <2>1. ASSUME NEW k \in 1 .. m - 1 PROVE c % k = b % k
    <3>1. PICK x \in K, y \in K : x # y /\ x % k = y % k
      BY <1>3
    <3>2. (x = c /\ y = b) \/ (x = b /\ y = c)
      BY <1>1, <3>1
    <3> QED
      BY <3>1, <3>2
  <2> QED
    BY <1>11, <2>1
<1>15. n.mod # 1
  BY <1>3, <1>11, CodesAssumption
<1>16. TopOk(n, top, f, c, g, b)
  BY <1>5, <1>6, <1>9, <1>11, <1>12, <1>13, <1>14, <1>15 DEF TopOk
<1>17. n = Inner(top, m, TwoPlaces(m, c, f, b, g))
  BY <1>7, <1>10, Zenon
<1> QED
  BY <1>3, <1>16, <1>17, Zenon

(* The node that a split leaves of the rest of the path. *)
LEMMA TailIs ==
  ASSUME NEW node \in Node, node.child \in [0 .. node.mod - 1 -> Nat], NEW k \in 0 .. Len(node.path)
  PROVE  TailOk([node EXCEPT !.path = Rest(@, k)], node, k)
<1>1. PICK r : r = Rest(node.path, k)
  OBVIOUS
<1>2. r \in Seq(Entry)
  <2>1. node.path \in Seq(Entry)
    BY DEF Node
  <2> QED
    BY <1>1, <2>1, BackIs
<1>3. PICK n : n = [node EXCEPT !.path = r]
  OBVIOUS
<1>4. n \in Node /\ n.path = r /\ n.mod = node.mod /\ n.child = node.child
  BY <1>2, <1>3 DEF Node
<1>5. n = [node EXCEPT !.path = Rest(@, k)]
  BY <1>1, <1>3
<1> QED
  BY <1>1, <1>4, <1>5 DEF TailOk

SplitGraft(t, w, d) ==
  Triple(TailAt(w, TopPath(t, w)), SplitTail(t, w), t.end, SplitTop(t, w),
         SplitLeafAt(t, w), Leaf(Rest(w.rest, w.agree), d))
SplitPre(t, pre, w) ==
  LET r == Onto(pre[w.at], TopPath(t, w))
  IN Triple(TailAt(w, TopPath(t, w)), r, t.end, pre[w.at], SplitLeafAt(t, w), r)

(***************************************************************************)
(* A path that differs from the word is split, into the place it had and   *)
(* at the end of the block.                                                *)
(***************************************************************************)
LEMMA SplitInsertion ==
  ASSUME NEW t, NEW pre, Sound(t, pre), NEW key, NEW w, Meets(t, pre, key, w), NEW d \in Nat,
         w.agree < Len(w.rest), w.agree < Len(t.nodes[w.at].path),
         NEW u, u.nodes = Split(t, w, d).nodes, u.end = Split(t, w, d).end, u.wasted = Split(t, w, d).wasted
  PROVE  Insertion(t, pre, w.at, t.end, SplitGraft(t, w, d), SplitPre(t, pre, w), u)
<1>1. PICK N, at, e, f, node, rest, leaf, n, m, top, tail :
        /\ N = t.nodes /\ at = w.at /\ e = t.end /\ node = t.nodes[w.at] /\ rest = Rest(w.rest, w.agree)
        /\ leaf = Leaf(rest, d) /\ m = SplitMod(t, w) /\ f = SplitLeafAt(t, w) /\ n = SplitTop(t, w)
        /\ top = TopPath(t, w) /\ tail = SplitTail(t, w)
  OBVIOUS
<1>2. Shaped(N, pre) /\ at \in DOMAIN N /\ Typed(N) /\ IsTrie(t)
  BY <1>1 DEF Sound, Shaped, Meets
<1>3. /\ e \in Nat /\ e > 0 /\ t.wasted \in Nat /\ DOMAIN N \subseteq Nat
      /\ Bytes(t, at) \in Nat /\ at + Bytes(t, at) <= e /\ \A a \in DOMAIN N : a < e
  BY <1>1, <1>2, EndFree
<1>4. /\ node \in Node /\ node.child \in [0 .. node.mod - 1 -> Nat] /\ node.mod \in 0 .. VTKEY_NUM
      /\ node.path \in Seq(Entry) /\ Len(node.path) \in Nat /\ Len(pre[at]) \in Nat /\ Len(w.rest) \in Nat
      /\ rest \in Seq(Char) /\ Len(rest) = Len(w.rest) - w.agree /\ rest # << >>
      /\ Len(pre[at]) + Len(w.rest) <= MaxKeyLen /\ w.agree \in 0 .. Len(node.path)
      /\ (node.path = << >> <=> at = 0) /\ \A i \in 1 .. Len(rest) : rest[i] = w.rest[w.agree + i]
  <2>1. MetSizes(t, pre, w)
    BY <1>1, <1>2, MeetsSizes
  <2> QED
    BY <1>1, <2>1 DEF MetSizes
<1>5. /\ LeafOk(leaf) /\ leaf.path[1].ch = rest[1] /\ Len(leaf.path) = Len(rest)
      /\ NodeBytes(leaf) = 2 + 5 * Len(rest) /\ NodeBytes(leaf) \in Nat
  <2>1. LeafFor(rest, d)
    BY <1>4, LeafFits
  <2> QED
    BY <1>1, <2>1 DEF LeafFor
<1>6. PICK l \in Nat, k \in Nat, h \in Nat, L \in Nat :
        l = Len(w.rest) /\ k = w.agree /\ h = Len(pre[at]) /\ L = Len(node.path)
  <2>1. w.agree \in Nat
    BY <1>4
  <2> QED
    BY <1>4, <2>1
<1>7. Len(rest) = l - k /\ k < l /\ k < L /\ h + l <= MaxKeyLen
  BY <1>1, <1>4, <1>6
<1>8. at # 0 /\ k > 0
  <2>1. at # 0
    BY <1>4, <1>6, <1>7
  <2> QED
    BY <1>1, <1>6, <2>1 DEF Meets
<1>9. PICK c, b : c = NextKeyChar(w) /\ b = OtherChar(t, w)
  OBVIOUS
<1>10. c = rest[1] /\ b = node.path[k + 1].ch /\ c \in Char /\ b \in Char /\ c # b
  <2>1. c = rest[1] /\ b = node.path[k + 1].ch
    BY <1>1, <1>6, <1>9 DEF NextKeyChar, OtherChar
  <2>2. c \in Char
    BY <1>4, <2>1
  <2>3. k + 1 \in 1 .. L
    BY <1>7
  <2>4. node.path[k + 1] \in Entry
    BY <1>4, <1>6, <2>3
  <2>5. b \in Char
    BY <2>1, <2>4 DEF Entry
  <2>6. AgreesTo(node.path, w.rest, k)
    BY <1>1, <1>6 DEF Meets
  <2>7. node.path[k + 1].ch # w.rest[k + 1]
    BY <1>6, <1>7, <2>6 DEF AgreesTo
  <2>8. rest[1] = w.rest[k + 1]
    BY <1>4, <1>6, <1>7
  <2> QED
    BY <2>1, <2>2, <2>5, <2>7, <2>8
<1>11. top = SubSeq(N[at].path, 1, k) /\ top \in Seq(Entry) /\ Len(top) = k
  <2>1. top = SubSeq(node.path, 1, k)
    BY <1>1, <1>6 DEF TopPath
  <2>2. top \in Seq(Entry) /\ Len(top) = k
    BY <1>4, <1>6, <2>1, FrontIs
  <2> QED
    BY <1>1, <2>1, <2>2
<1>12. PathBytes(top) = 1 + 5 * k
  BY <1>6, <1>11 DEF PathBytes, VTSAMEPS_L, VTENTRY_L
<1>13. PICK g : g = TailAt(w, top)
  OBVIOUS
<1>14. g \in Nat /\ g = at + 5 * k /\ at \in Nat
  <2>1. g = at + PathBytes(top) - 1
    BY <1>1, <1>13 DEF TailAt
  <2>2. at \in Nat
    BY <1>2, <1>3
  <2> QED
    BY <1>12, <2>1, <2>2
<1>15. m \in 2 .. VTKEY_NUM /\ m \in Nat
  <2>1. m = getModMinSize({ c, b })
    BY <1>1, <1>9 DEF SplitMod
  <2>2. TopOk(Inner(top, m, TwoPlaces(m, c, 1, b, 1)), top, 1, c, 1, b) /\ m \in 2 .. VTKEY_NUM
    <3>1. PICK i \in Nat : i = 1
      OBVIOUS
    <3>2. i # 0
      BY <3>1
    <3>3. TopOk(Inner(top, m, TwoPlaces(m, c, i, b, i)), top, i, c, i, b) /\ m \in 2 .. VTKEY_NUM
      BY <1>10, <1>11, <2>1, <3>2, TopIs
    <3> QED
      BY <3>1, <3>3, Zenon
  <2> QED
    BY <2>2, CodesAssumption
<1>16. f = e + (1 + 5 * k + 1 + 4 * m) /\ f \in Nat
  <2>1. f = e + PathBytes(top) + 1 + 4 * m
    BY <1>1, Zenon DEF SplitLeafAt, VTCHILDS_L, VTPTR_L
  <2> QED
    BY <1>3, <1>12, <1>15, <2>1
<1>17. PICK a \in Nat, x \in Nat, y \in Nat, o \in Nat, m0 \in Nat :
         /\ a = 2 + 5 * (L - k) + 4 * m0 /\ x = 2 + 5 * k + 4 * m /\ y = 2 + 5 * (l - k)
         /\ o = t.wasted /\ m0 = node.mod
  <2>1. node.mod \in Nat /\ t.wasted \in Nat
    BY <1>3, <1>4, CodesAssumption
  <2>2. 2 + 5 * k + 4 * m \in Nat
    BY <1>15
  <2>3. 2 + 5 * (L - k) + 4 * node.mod \in Nat
    BY <1>7, <2>1
  <2>4. 2 + 5 * (l - k) \in Nat
    BY <1>7
  <2> QED
    BY <2>1, <2>2, <2>3, <2>4
<1>18. a = 2 + 5 * (L - k) + 4 * m0 /\ x = 2 + 5 * k + 4 * m /\ y = 2 + 5 * (l - k)
  BY <1>17
<1>36. m \in Nat
  BY <1>15
<1>37. a + 5 * k = 2 + 5 * L + 4 * m0
  BY <1>18
<1>39. a > 0
  <2>1. a = 2 + 5 * (L - k) + 4 * m0
    BY <1>18
  <2>2. PICK j \in Nat : j = L - k
    BY <1>7
  <2>3. a = 2 + 5 * j + 4 * m0
    BY <2>1, <2>2
  <2> QED
    BY <2>3
<1>38. x + y = 4 + 5 * l + 4 * m
  BY <1>18, <1>36
<1>19. Bytes(t, at) = 2 + 5 * L + 4 * m0
  <2>1. NodeBytes(node) = 2 + 5 * L + 4 * m0
    BY <1>4, <1>6, <1>17, BytesOf
  <2> QED
    BY <1>1, <1>8, <2>1 DEF Bytes
<1>20. g + a = at + Bytes(t, at) /\ at < g /\ g < e /\ e < f /\ g + a <= e /\ at <= g
  <2>1. g + a = at + (2 + 5 * L + 4 * m0)
    BY <1>14, <1>37
  <2>2. at < g
    BY <1>8, <1>14
  <2>3. a > 0
    BY <1>39
  <2>4. e < f
    BY <1>3, <1>15, <1>16
  <2>5. g + a = at + Bytes(t, at)
    BY <1>19, <2>1
  <2>6. g + a <= e
    BY <1>3, <2>5
  <2>7. g < e
    BY <1>3, <1>14, <2>3, <2>6
  <2> QED
    BY <1>14, <2>2, <2>4, <2>5, <2>6, <2>7
<1>21. /\ g # 0 /\ e # 0 /\ f # 0 /\ g # e /\ g # f /\ e # f
       /\ g \notin DOMAIN N /\ e \notin DOMAIN N /\ f \notin DOMAIN N
  <2>1. g # 0 /\ e # 0 /\ f # 0 /\ g # e /\ g # f /\ e # f
    BY <1>3, <1>14, <1>16, <1>20
  <2>2. e \notin DOMAIN N
    BY <1>3
  <2>3. f \notin DOMAIN N
    BY <1>3, <1>16, <1>20
  <2>4. ASSUME g \in DOMAIN N PROVE FALSE
    <3>1. at + Bytes(t, at) <= g
      BY <1>1, <1>2, <1>20, <2>4 DEF Sound, Fits, Apart
    <3>2. g + a <= g
      BY <1>20, <3>1
    <3>3. a > 0
      BY <1>39
    <3> QED
      BY <1>14, <3>2, <3>3
  <2> QED
    BY <2>1, <2>2, <2>3, <2>4
<1>22. TopOk(n, top, f, c, g, b)
  <2>1. m = getModMinSize({ c, b })
    BY <1>1, <1>9 DEF SplitMod
  <2>2. TopOk(Inner(top, m, TwoPlaces(m, c, f, b, g)), top, f, c, g, b)
    BY <1>10, <1>11, <1>14, <1>16, <1>21, <2>1, TopIs
  <2>3. n = Inner(top, m, TwoPlaces(m, c, f, b, g))
    BY <1>1, <1>9, <1>13, Zenon DEF SplitTop
  <2> QED
    BY <2>2, <2>3
<1>23. TailOk(tail, N[at], k)
  <2>1. TailOk([node EXCEPT !.path = Rest(@, k)], node, k)
    BY <1>4, <1>6, TailIs
  <2>2. tail = [node EXCEPT !.path = Rest(@, k)]
    BY <1>1, <1>6 DEF SplitTail
  <2> QED
    BY <1>1, <2>1, <2>2
<1>24. PICK r : r = Onto(pre[at], SubSeq(N[at].path, 1, k))
  OBVIOUS
<1>25. PICK graft, q : graft = Triple(g, tail, e, n, f, leaf) /\ q = Triple(g, r, e, pre[at], f, r)
  OBVIOUS
<1>26. DOMAIN graft = { g, e, f } /\ graft[g] = tail /\ graft[e] = n /\ graft[f] = leaf
  BY <1>21, <1>25 DEF Triple
<1>27. Graft(N, pre, at, e, graft, q)
  <2>1. Len(pre[at]) + k + Len(leaf.path) <= MaxKeyLen
    <3>1. h + k + (l - k) <= MaxKeyLen
      BY <1>7, NatAssumption
    <3> QED
      BY <1>5, <1>6, <1>7, <3>1
  <2>2. k \in 1 .. Len(N[at].path) - 1
    <3>1. k \in 1 .. L - 1
      BY <1>7, <1>8
    <3>2. L = Len(N[at].path)
      BY <1>1, <1>6
    <3> QED
      BY <3>1, <3>2, Zenon
  <2>3. TopOk(n, SubSeq(N[at].path, 1, k), f, leaf.path[1].ch, g, N[at].path[k + 1].ch)
    BY <1>1, <1>5, <1>10, <1>11, <1>22, Zenon
  <2>4. Graft(N, pre, at, e, Triple(g, tail, e, n, f, leaf), Triple(g, r, e, pre[at], f, r))
    <3>1. Shaped(N, pre) /\ at \in DOMAIN N /\ at # 0 /\ LeafOk(leaf) /\ g \in Nat /\ e \in Nat /\ f \in Nat
      BY <1>2, <1>3, <1>5, <1>8, <1>14, <1>16
    <3> QED
      BY <1>21, <1>23, <1>24, <2>1, <2>2, <2>3, <3>1, TripleGraft, Zenon
  <2> QED
    BY <1>25, <2>4, Zenon
<1>28. /\ u.nodes = Plus(Plus(Plus(Point(Without(N, at), w.from, e), g, tail), e, n), f, leaf)
       /\ u.wasted = t.wasted + PathBytes(top) - 1
       /\ u.end = f + NodeBytes(leaf)
  <2>1. SplitIs(t, w, d)
    BY <1>2, SplitDone
  <2> QED
    BY <1>1, <1>13, <2>1, Zenon DEF SplitIs
<1>29. Grafted(N, u.nodes, at, e, graft)
  <2>1. PICK M : M = Point(Without(N, at), w.from, e)
    OBVIOUS
  <2>2. DOMAIN M = DOMAIN N \ { at } /\ \A z \in DOMAIN N \ { at } : M[z] = Redirect(N[z], at, e)
    <3>1. w.from[1] \in DOMAIN N /\ w.from[2] \in Children(N[w.from[1]]) /\ N[w.from[1]].child[w.from[2]] = at
      BY <1>1, <1>8 DEF Meets
    <3>2. at \in DOMAIN N \ { 0 }
      BY <1>2, <1>8
    <3>3. PICK from : from = w.from
      OBVIOUS
    <3>4. Pointed(N, at, from, e)
      BY <1>2, <3>1, <3>2, <3>3, PointIs
    <3> QED
      BY <2>1, <3>3, <3>4 DEF Pointed
  <2>3. PICK M1, M2 : M1 = Plus(M, g, tail) /\ M2 = Plus(M1, e, n)
    OBVIOUS
  <2>4. DOMAIN M1 = DOMAIN M \cup { g } /\ M1[g] = tail /\ \A z \in DOMAIN M : z # g => M1[z] = M[z]
    BY <2>3 DEF Plus
  <2>5. DOMAIN M2 = DOMAIN M1 \cup { e } /\ M2[e] = n /\ \A z \in DOMAIN M1 : z # e => M2[z] = M1[z]
    BY <2>3 DEF Plus
  <2>6. u.nodes = Plus(M2, f, leaf)
    BY <1>28, <2>1, <2>3
  <2>7. DOMAIN u.nodes = DOMAIN M2 \cup { f } /\ u.nodes[f] = leaf /\ \A z \in DOMAIN M2 : z # f => u.nodes[z] = M2[z]
    BY <2>6 DEF Plus
  <2>8. \A z \in DOMAIN N \ { at } : u.nodes[z] = Redirect(N[z], at, e)
    BY <1>21, <2>2, <2>4, <2>5, <2>7
  <2>9. u.nodes[e] = n /\ u.nodes[g] = tail
    BY <1>21, <2>4, <2>5, <2>7
  <2>10. DOMAIN u.nodes = (DOMAIN N \ { at }) \cup DOMAIN graft
    BY <1>26, <2>2, <2>4, <2>5, <2>7
  <2> QED
    BY <1>26, <2>7, <2>8, <2>9, <2>10 DEF Grafted
<1>30. /\ Bytes(New(graft), g) = a /\ Bytes(New(graft), e) = x /\ Bytes(New(graft), f) = y /\ NodeBytes(leaf) = y
  <2>1. New(graft).nodes = graft
    BY DEF New
  <2>2. NodeBytes(n) = x
    <3>1. n.path = top /\ n.mod = m
      BY <1>1, Zenon DEF SplitTop, Inner
    <3> QED
      BY <1>6, <1>11, <1>15, <1>18, <3>1, BytesOf
  <2>3. NodeBytes(leaf) = y
    BY <1>5, <1>7, <1>18
  <2>4. NodeBytes(tail) = a
    <3>1. tail.path = Rest(node.path, k) /\ tail.mod = node.mod
      BY <1>1, <1>23 DEF TailOk
    <3>2. tail.path \in Seq(Entry) /\ Len(tail.path) = L - k
      <4>1. PICK path : path = node.path
        OBVIOUS
      <4>2. path \in Seq(Entry) /\ k \in 0 .. Len(path) /\ L = Len(path)
        BY <1>4, <1>6, <4>1
      <4>3. Rest(path, k) \in Seq(Entry) /\ Len(Rest(path, k)) = L - k
        BY <4>2, BackIs
      <4> QED
        BY <3>1, <4>1, <4>3
    <3> QED
      BY <1>17, <3>1, <3>2, BytesOf
  <2> QED
    BY <1>21, <1>26, <2>1, <2>2, <2>3, <2>4 DEF Bytes
<1>31. u.end = f + y /\ u.wasted = o + 5 * k /\ t.end = e /\ t.wasted = o
  <2>1. u.wasted = o + (1 + 5 * k) - 1
    BY <1>12, <1>17, <1>28
  <2>2. u.wasted = o + 5 * k
    BY <2>1
  <2> QED
    BY <1>1, <1>17, <1>28, <1>30, <2>2
<1>32. e + x = f
  BY <1>3, <1>15, <1>16, <1>18
<1>33. Room(t, at, graft, u.end, u.wasted)
  <2>1. e + x <= f /\ e + x <= u.end /\ f + y <= u.end /\ e <= f /\ e <= u.end
    <3>1. PICK i \in Nat : i = f
      BY <1>16
    <3>2. e + x = i /\ u.end = i + y /\ e \in Nat
      BY <1>3, <1>31, <1>32, <3>1
    <3>3. e + x <= i /\ e + x <= i + y /\ i + y <= i + y /\ e <= i /\ e <= i + y
      BY <3>2
    <3> QED
      BY <3>1, <3>2, <3>3
  <2>2. NodeRoom(t, at, u.end, e, x)
    BY <1>3, <1>31, <2>1 DEF NodeRoom
  <2>3. NodeRoom(t, at, u.end, f, y)
    BY <1>31, <2>1 DEF NodeRoom
  <2>4. NodeRoom(t, at, u.end, g, a)
    <3>1. g + a <= at + Bytes(t, at)
      BY <1>14, <1>20
    <3> QED
      BY <1>20, <3>1 DEF NodeRoom
  <2>5. a + x + y + u.wasted <= Bytes(t, at) + t.wasted + (u.end - t.end)
    <3>1. PICK i, j : i \in Nat /\ i = u.end /\ j = u.wasted
      BY <1>16, <1>31
    <3>2. i = e + x + y /\ j = o + 5 * k
      BY <1>31, <1>32, <3>1
    <3>3. a + x + y + j <= (2 + 5 * L + 4 * m0) + o + (i - e)
      BY <1>3, <1>37, <3>2
    <3> QED
      BY <1>19, <1>31, <3>1, <3>3
  <2>6. t.end <= u.end
    BY <1>31, <2>1
  <2>7. g < e /\ e < f /\ g + a <= e
    BY <1>20
  <2>8. PICK end, wasted : end = u.end /\ wasted = u.wasted
    OBVIOUS
  <2>9. /\ NodeRoom(t, at, end, g, a) /\ NodeRoom(t, at, end, e, x) /\ NodeRoom(t, at, end, f, y)
        /\ t.end <= end /\ a + x + y + wasted <= Bytes(t, at) + t.wasted + (end - t.end)
    BY <2>2, <2>3, <2>4, <2>5, <2>6, <2>8, Zenon
  <2>10. /\ g \in Nat /\ e \in Nat /\ f \in Nat /\ DOMAIN graft = { g, e, f }
         /\ a = Bytes(New(graft), g) /\ x = Bytes(New(graft), e) /\ y = Bytes(New(graft), f) /\ e + x <= f
    BY <1>3, <1>14, <1>16, <1>26, <1>30, <2>1
  <2>11. Room(t, at, graft, end, wasted)
    BY <2>7, <2>9, <2>10, RoomThree
  <2> QED
    BY <2>8, <2>11, Zenon
<1>34. u.end - t.end <= MIN_REMAIN + 1
  <2>1. m <= VTKEY_NUM /\ MIN_REMAIN + 1 >= 4 + 5 * (MaxKeyLen + VTKEY_NUM) /\ MIN_REMAIN \in Nat
    BY <1>15, SizesAre
  <2>2. u.end - t.end = x + y
    BY <1>3, <1>31, <1>32
  <2>3. x + y = 4 + 5 * l + 4 * m
    BY <1>38
  <2>4. 4 + 5 * l + 4 * m <= MIN_REMAIN + 1
    BY <1>7, <1>15, <2>1, NatAssumption, CodesAssumption
  <2> QED
    BY <2>2, <2>3, <2>4
<1>35. graft = SplitGraft(t, w, d) /\ q = SplitPre(t, pre, w)
  <2>1. graft = SplitGraft(t, w, d)
    BY <1>1, <1>13, <1>25, Zenon DEF SplitGraft
  <2>2. SubSeq(N[at].path, 1, k) = TopPath(t, w)
    BY <1>1, <1>11
  <2>3. q = SplitPre(t, pre, w)
    BY <1>1, <1>13, <1>24, <1>25, <2>2, Zenon DEF SplitPre
  <2> QED
    BY <2>1, <2>3
<1>90. u.end \in Nat /\ u.wasted \in Nat
  BY <1>16, <1>31
<1> QED
  BY <1>1, <1>27, <1>29, <1>33, <1>34, <1>35, <1>90, Zenon DEF Insertion
-----------------------------------------------------------------------------
(* A step of the trie. *)

Parts(t) ==
  t = [nodes |-> t.nodes, value |-> t.value, more |-> t.more,
       end |-> t.end, wasted |-> t.wasted, size |-> t.size]

(* The bytes that were free before are enough for any insertion. *)
LEMMA Advance ==
  ASSUME NEW t, NEW pre, Sound(t, pre), Ready(t), NEW at, NEW e, NEW graft, NEW q, NEW u,
         Insertion(t, pre, at, e, graft, q, u), Parts(u), u.size = t.size
  PROVE  Sound(u, Led(t.nodes, pre, at, graft, q)) /\ u.end > 0
<1>1. t.end \in Nat /\ t.size \in Nat /\ t.size - t.end > MIN_REMAIN
  BY DEF Sound, IsTrie, Ready
<1>2. u.end \in Nat /\ u.wasted \in Nat /\ u.end - t.end <= MIN_REMAIN + 1
  BY DEF Insertion
<1>3. u.end <= u.size
  BY <1>1, <1>2, NatAssumption
<1>4. IsTrie(u)
  BY <1>1, <1>2 DEF IsTrie, Parts
<1>5. /\ Graft(t.nodes, pre, at, e, graft, q) /\ Grafted(t.nodes, u.nodes, at, e, graft)
      /\ Room(t, at, graft, u.end, u.wasted)
  BY DEF Insertion
<1> QED
  BY <1>3, <1>4, <1>5, GraftSound

(* Marking the root changes nothing else. *)
Flagged(t, u) ==
  /\ Parts(u) /\ u.more = TRUE /\ u.nodes = t.nodes /\ u.value = t.value
  /\ u.end = t.end /\ u.wasted = t.wasted /\ u.size = t.size

(* Setting the root's flag more changes nothing else. *)
LEMMA FlagIs ==
  ASSUME NEW t, Parts(t)
  PROVE  Flagged(t, [t EXCEPT !.more = TRUE])
<1>1. PICK nodes, value, more0, end, wasted, size :
        t = [nodes |-> nodes, value |-> value, more |-> more0, end |-> end, wasted |-> wasted, size |-> size]
  BY DEF Parts
<1>2. PICK yes : yes = TRUE
  OBVIOUS
<1>3. PICK u : u = [t EXCEPT !.more = yes]
  OBVIOUS
<1>4. u = [nodes |-> nodes, value |-> value, more |-> yes, end |-> end, wasted |-> wasted, size |-> size]
  BY <1>1, <1>3
<1>5. /\ u.nodes = nodes /\ u.value = value /\ u.more = yes /\ u.end = end /\ u.wasted = wasted /\ u.size = size
  BY <1>4
<1>6. /\ t.nodes = nodes /\ t.value = value /\ t.end = end /\ t.wasted = wasted /\ t.size = size
  BY <1>1
<1>7. Parts(u)
  BY <1>4, <1>5 DEF Parts
<1>8. u = [t EXCEPT !.more = TRUE] /\ u.more = TRUE
  BY <1>2, <1>3, <1>5, Zenon
<1>9. Flagged(t, u)
  BY <1>5, <1>6, <1>7, <1>8, Zenon DEF Flagged
<1> QED
  BY <1>8, <1>9, Zenon

(* What is stored at last is what was made, but for the root's flag. *)
LEMMA Below ==
  ASSUME NEW u, NEW m, StoreBelow(u, m), Parts(u)
  PROVE  Flagged(u, trie') /\ count' = count + 1 /\ count < MaxInserts /\ more' = m
<1>1. PICK x : x = [u EXCEPT !.more = TRUE]
  OBVIOUS
<1>2. trie' = x /\ count' = count + 1 /\ count < MaxInserts /\ more' = m
  BY <1>1, Zenon DEF StoreBelow, Store
<1>3. Flagged(u, x)
  BY <1>1, FlagIs
<1> QED
  BY <1>2, <1>3

Advanced(t, pre) ==
  /\ count' = count + 1 /\ count < MaxInserts /\ Parts(trie') /\ trie'.size = t.size
  /\ \E at, e, graft, q : Insertion(t, pre, at, e, graft, q, trie')

(* The insertion of a word that ends in a node. *)
LEMMA SetValueStep ==
  ASSUME NEW t, NEW pre, Sound(t, pre), NEW key, NEW w, Meets(t, pre, key, w), count \in Nat, SetValue(t, w)
  PROVE  Advanced(t, pre)
<1>1. PICK u, m : /\ w.agree = Len(w.rest) /\ StoreBelow(u, m)
                  /\ u = [t EXCEPT !.nodes[w.at].path[w.agree].data = Data]
  BY Zenon DEF SetValue
<1>2. PICK X : X = [t.nodes EXCEPT ![w.at].path[w.agree].data = Data]
  OBVIOUS
<1>3. u = [t EXCEPT !.nodes = X]
  BY <1>1, <1>2
<1>4. /\ Parts(u) /\ u.nodes = X /\ u.end = t.end /\ u.wasted = t.wasted /\ u.size = t.size
  BY <1>3 DEF Sound, IsTrie, Parts
<1>5. Flagged(u, trie') /\ count' = count + 1 /\ count < MaxInserts
  BY <1>1, <1>4, Below
<1>6. PICK d \in Nat : d = Data
  BY DEF Data
<1>7. PICK v : v = trie'
  OBVIOUS
<1>8. v.nodes = [t.nodes EXCEPT ![w.at].path[w.agree].data = d] /\ v.end = t.end /\ v.wasted = t.wasted /\ v.size = t.size
  BY <1>2, <1>4, <1>5, <1>6, <1>7 DEF Flagged
<1>9. Insertion(t, pre, w.at, w.at, SetGraft(t, w, d), One(w.at, pre[w.at]), v)
  BY <1>1, <1>8, SetInsertion, Zenon
<1> QED
  BY <1>5, <1>7, <1>8, <1>9 DEF Advanced, Flagged

(* The insertion that adds a leaf below a node. *)
LEMMA NewChildStep ==
  ASSUME NEW t, NEW pre, Sound(t, pre), NEW key, NEW w, Meets(t, pre, key, w), count \in Nat, NewChild(t, w)
  PROVE  Advanced(t, pre)
<1>0. PICK d \in Nat : d = Data
  BY DEF Data
<1>100. PICK rest, leaf, u :
        /\ rest = Rest(w.rest, w.agree) /\ leaf = Leaf(rest, d)
        /\ u = [t EXCEPT !.nodes = Plus(Point(@, << w.at, rest[1] % t.nodes[w.at].mod >>, t.end), t.end, leaf),
                         !.end = @ + NodeBytes(leaf)]
  BY Zenon
<1>101. /\ w.agree < Len(w.rest) /\ w.agree = Len(t.nodes[w.at].path) /\ t.nodes[w.at].mod # 0
      /\ Child(t, w.at, rest[1]) = 0 /\ StoreBelow(u, FALSE)
  BY <1>0, <1>100, Zenon DEF NewChild
<1>1. /\ d = Data /\ rest = Rest(w.rest, w.agree) /\ leaf = Leaf(rest, d) /\ StoreBelow(u, FALSE)
      /\ w.agree < Len(w.rest) /\ w.agree = Len(t.nodes[w.at].path) /\ t.nodes[w.at].mod # 0
      /\ Child(t, w.at, rest[1]) = 0
      /\ u = [t EXCEPT !.nodes = Plus(Point(@, << w.at, rest[1] % t.nodes[w.at].mod >>, t.end), t.end, leaf),
                       !.end = @ + NodeBytes(leaf)]
  BY <1>0, <1>100, <1>101, Zenon
<1>2. PICK X, y : /\ X = Plus(Point(t.nodes, << w.at, rest[1] % t.nodes[w.at].mod >>, t.end), t.end, leaf)
                  /\ y = t.end + NodeBytes(leaf)
  OBVIOUS
<1>3. u = [t EXCEPT !.nodes = X, !.end = y]
  BY <1>1, <1>2, Zenon
<1>4. /\ Parts(u) /\ u.nodes = X /\ u.end = y /\ u.wasted = t.wasted /\ u.size = t.size
  BY <1>3 DEF Sound, IsTrie, Parts
<1>5. Flagged(u, trie') /\ count' = count + 1 /\ count < MaxInserts
  BY <1>1, <1>4, Below
<1>6. PICK v : v = trie'
  OBVIOUS
<1>7. v.nodes = X /\ v.end = y /\ v.wasted = t.wasted /\ v.size = t.size
  BY <1>4, <1>5, <1>6 DEF Flagged
<1>8. /\ v.nodes = Plus(Point(t.nodes, << w.at, rest[1] % t.nodes[w.at].mod >>, t.end), t.end, Leaf(rest, d))
      /\ v.end = t.end + NodeBytes(Leaf(rest, d))
  BY <1>1, <1>2, <1>7, Zenon
<1>9. Insertion(t, pre, w.at, w.at, ChildGraft(t, w, d),
                Pair(w.at, pre[w.at], t.end, Onto(pre[w.at], t.nodes[w.at].path)), v)
  BY <1>1, <1>7, <1>8, ChildInsertion, Zenon
<1> QED
  BY <1>5, <1>6, <1>7, <1>9 DEF Advanced, Flagged

(* The insertion that splits a path. *)
LEMMA SplitPathStep ==
  ASSUME NEW t, NEW pre, Sound(t, pre), NEW key, NEW w, Meets(t, pre, key, w), count \in Nat, SplitPath(t, w)
  PROVE  Advanced(t, pre)
<1>0. PICK d \in Nat : d = Data
  BY DEF Data
<1>100. PICK u : u = Split(t, w, d)
  OBVIOUS
<1>1. /\ d = Data /\ u = Split(t, w, d) /\ StoreBelow(u, FALSE)
      /\ w.agree < Len(w.rest) /\ w.agree < Len(t.nodes[w.at].path)
  BY <1>0, <1>100, Zenon DEF SplitPath
<1>2. SplitIs(t, w, d)
  BY SplitDone DEF Sound
<1>3. Parts(u) /\ u.size = t.size
  BY <1>1, <1>2 DEF SplitIs, Parts
<1>4. Flagged(u, trie') /\ count' = count + 1 /\ count < MaxInserts
  BY <1>1, <1>3, Below
<1>5. PICK v : v = trie'
  OBVIOUS
<1>6. v.nodes = u.nodes /\ v.end = u.end /\ v.wasted = u.wasted /\ v.size = t.size
  BY <1>3, <1>4, <1>5 DEF Flagged
<1>7. Insertion(t, pre, w.at, t.end, SplitGraft(t, w, d), SplitPre(t, pre, w), v)
  BY <1>1, <1>6, SplitInsertion
<1> QED
  BY <1>4, <1>5, <1>6, <1>7 DEF Advanced, Flagged

(* The insertion that builds a node again. *)
LEMMA RebuildStep ==
  ASSUME NEW t, NEW pre, Sound(t, pre), NEW key, NEW w, Meets(t, pre, key, w), count \in Nat, Rebuild(t, w)
  PROVE  Advanced(t, pre)
<1>0. PICK d \in Nat : d = Data
  BY DEF Data
<1>100. PICK u, c : u = resolveConfilct(t, w, d) /\ c = w.rest[w.agree + 1]
  OBVIOUS
<1>1. /\ d = Data /\ u = resolveConfilct(t, w, d) /\ StoreBelow(u, FALSE)
      /\ w.agree < Len(w.rest) /\ w.agree = Len(t.nodes[w.at].path)
      /\ c = w.rest[w.agree + 1] /\ Child(t, w.at, c) # 0 /\ FirstChar(t, Child(t, w.at, c)) # c
  BY <1>0, <1>100, Zenon DEF Rebuild
<1>2. PICK rest, c0 : rest = Rest(w.rest, w.agree) /\ c0 = Child(t, w.at, c)
  OBVIOUS
<1>3. rest[1] = c
  <2>1. MetSizes(t, pre, w)
    BY MeetsSizes DEF Sound, Shaped
  <2>2. /\ Len(rest) = Len(w.rest) - w.agree /\ Len(w.rest) \in Nat /\ w.agree \in Nat
        /\ \A i \in 1 .. Len(rest) : rest[i] = w.rest[w.agree + i]
    BY <1>2, <2>1 DEF MetSizes
  <2> QED
    BY <1>1, <2>2
<1>4. ResolveIs(t, w, d)
  BY Resolved DEF Sound
<1>5. Parts(u) /\ u.size = t.size
  BY <1>1, <1>4 DEF ResolveIs, Parts
<1>6. Flagged(u, trie') /\ count' = count + 1 /\ count < MaxInserts
  BY <1>1, <1>5, Below
<1>7. PICK v : v = trie'
  OBVIOUS
<1>8. v.nodes = u.nodes /\ v.end = u.end /\ v.wasted = u.wasted /\ v.size = t.size
  BY <1>5, <1>6, <1>7 DEF Flagged
<1>9. Insertion(t, pre, w.at, t.end, RebuildGraft(t, w, d),
                Pair(t.end, pre[w.at], NewLeafAt(t, w), Onto(pre[w.at], t.nodes[w.at].path)), v)
  <2>1. /\ v.nodes = resolveConfilct(t, w, d).nodes /\ v.end = resolveConfilct(t, w, d).end
        /\ v.wasted = resolveConfilct(t, w, d).wasted
    BY <1>1, <1>8, Zenon
  <2>2. c0 = Child(t, w.at, rest[1]) /\ c0 # 0 /\ FirstChar(t, c0) # rest[1]
    BY <1>1, <1>2, <1>3, Zenon
  <2> QED
    BY <1>1, <1>2, <2>1, <2>2, RebuildInsertion
<1> QED
  BY <1>6, <1>7, <1>8, <1>9 DEF Advanced, Flagged

(* The insertion that lets the last leaf grow. *)
LEMMA GrowLeafStep ==
  ASSUME NEW t, NEW pre, Sound(t, pre), NEW key, NEW w, Meets(t, pre, key, w), count \in Nat, GrowLeaf(t, w)
  PROVE  Advanced(t, pre)
<1>0. PICK d \in Nat : d = Data
  BY DEF Data
<1>100. PICK n, u : /\ n = Grown(t.nodes[w.at], Rest(w.rest, w.agree), d)
                  /\ u = [t EXCEPT !.nodes[w.at] = n, !.end = w.at + NodeBytes(n)]
  BY Zenon
<1>101. /\ w.agree < Len(w.rest) /\ w.agree = Len(t.nodes[w.at].path) /\ t.nodes[w.at].mod = 0 /\ AtEnd(t, w.at)
      /\ StoreBelow(u, FALSE)
  BY <1>0, <1>100, Zenon DEF GrowLeaf
<1>1. /\ d = Data /\ n = Grown(t.nodes[w.at], Rest(w.rest, w.agree), d) /\ StoreBelow(u, FALSE)
      /\ w.agree < Len(w.rest) /\ w.agree = Len(t.nodes[w.at].path) /\ t.nodes[w.at].mod = 0 /\ AtEnd(t, w.at)
      /\ u = [t EXCEPT !.nodes[w.at] = n, !.end = w.at + NodeBytes(n)]
  BY <1>0, <1>100, <1>101, Zenon
<1>2. n = GrownNode(t, w, d)
  BY <1>1 DEF GrownNode
<1>3. PICK X, y : X = [t.nodes EXCEPT ![w.at] = n] /\ y = w.at + NodeBytes(n)
  OBVIOUS
<1>4. u = [t EXCEPT !.nodes = X, !.end = y]
  BY <1>1, <1>3
<1>5. /\ Parts(u) /\ u.nodes = X /\ u.end = y /\ u.wasted = t.wasted /\ u.size = t.size
  BY <1>4 DEF Sound, IsTrie, Parts
<1>6. Flagged(u, trie') /\ count' = count + 1 /\ count < MaxInserts
  BY <1>1, <1>5, Below
<1>7. PICK v : v = trie'
  OBVIOUS
<1>8. v.nodes = X /\ v.end = y /\ v.wasted = t.wasted /\ v.size = t.size
  BY <1>5, <1>6, <1>7 DEF Flagged
<1>9. Insertion(t, pre, w.at, w.at, One(w.at, GrownNode(t, w, d)), One(w.at, pre[w.at]), v)
  <2>1. v.nodes = [t.nodes EXCEPT ![w.at] = GrownNode(t, w, d)] /\ v.end = w.at + NodeBytes(GrownNode(t, w, d))
    BY <1>2, <1>3, <1>8
  <2> QED
    BY <1>1, <1>8, <2>1, GrowInsertion
<1> QED
  BY <1>6, <1>7, <1>8, <1>9 DEF Advanced, Flagged

(* The insertion that moves a leaf to the end. *)
LEMMA MoveLeafStep ==
  ASSUME NEW t, NEW pre, Sound(t, pre), NEW key, NEW w, Meets(t, pre, key, w), count \in Nat, MoveLeaf(t, w)
  PROVE  Advanced(t, pre)
<1>0. PICK d \in Nat : d = Data
  BY DEF Data
<1>100. PICK n, u :
        /\ n = Grown(t.nodes[w.at], Rest(w.rest, w.agree), d)
        /\ u = [t EXCEPT !.nodes = Plus(Point(Without(@, w.at), w.from, t.end), t.end, n),
                         !.wasted = @ + NodeBytes(t.nodes[w.at]),
                         !.end = @ + NodeBytes(n)]
  BY Zenon
<1>101. /\ w.agree < Len(w.rest) /\ w.agree = Len(t.nodes[w.at].path) /\ t.nodes[w.at].mod = 0
      /\ StoreBelow(u, FALSE)
  BY <1>0, <1>100, Zenon DEF MoveLeaf
<1>1. /\ d = Data /\ n = Grown(t.nodes[w.at], Rest(w.rest, w.agree), d) /\ StoreBelow(u, FALSE)
      /\ w.agree < Len(w.rest) /\ w.agree = Len(t.nodes[w.at].path) /\ t.nodes[w.at].mod = 0
      /\ u = [t EXCEPT !.nodes = Plus(Point(Without(@, w.at), w.from, t.end), t.end, n),
                       !.wasted = @ + NodeBytes(t.nodes[w.at]),
                       !.end = @ + NodeBytes(n)]
  BY <1>0, <1>100, <1>101, Zenon
<1>2. n = GrownNode(t, w, d)
  BY <1>1 DEF GrownNode
<1>3. PICK X, y, z : /\ X = Plus(Point(Without(t.nodes, w.at), w.from, t.end), t.end, n)
                     /\ y = t.end + NodeBytes(n) /\ z = t.wasted + NodeBytes(t.nodes[w.at])
  OBVIOUS
<1>4. u = [t EXCEPT !.nodes = X, !.wasted = z, !.end = y]
  BY <1>1, <1>3
<1>5. /\ Parts(u) /\ u.nodes = X /\ u.end = y /\ u.wasted = z /\ u.size = t.size
  BY <1>4 DEF Sound, IsTrie, Parts
<1>6. Flagged(u, trie') /\ count' = count + 1 /\ count < MaxInserts
  BY <1>1, <1>5, Below
<1>7. PICK v : v = trie'
  OBVIOUS
<1>8. v.nodes = X /\ v.end = y /\ v.wasted = z /\ v.size = t.size
  BY <1>5, <1>6, <1>7 DEF Flagged
<1>9. Insertion(t, pre, w.at, t.end, One(t.end, GrownNode(t, w, d)), One(t.end, pre[w.at]), v)
  <2>1. /\ v.nodes = Plus(Point(Without(t.nodes, w.at), w.from, t.end), t.end, GrownNode(t, w, d))
        /\ v.end = t.end + NodeBytes(GrownNode(t, w, d)) /\ v.wasted = t.wasted + NodeBytes(t.nodes[w.at])
    BY <1>2, <1>3, <1>8, Zenon
  <2> QED
    BY <1>1, <2>1, MoveInsertion
<1> QED
  BY <1>6, <1>7, <1>8, <1>9 DEF Advanced, Flagged
-----------------------------------------------------------------------------
(* The inductive invariant. *)

Held(t, pre) == Sound(t, pre) /\ t.end > 0

IInv ==
  /\ count \in 0 .. MaxInserts
  /\ Unborn(trie) \/ \E pre : Held(trie, pre)

(* Only nodes and sizes matter for soundness. *)
LEMMA SoundSame ==
  ASSUME NEW t, NEW pre, Sound(t, pre), NEW u, Parts(u), u.nodes = t.nodes,
         u.end = t.end, u.wasted = t.wasted, u.size = t.size
  PROVE  Sound(u, pre)
<1>1. \A a : Bytes(u, a) = Bytes(t, a)
  BY DEF Bytes
<1>2. Weight(u) = Weight(t)
  <2>1. SizeOf(u) = SizeOf(t)
    BY <1>1 DEF SizeOf
  <2> QED
    BY <2>1 DEF Weight
<1>3. IsTrie(u)
  BY DEF Sound, IsTrie, Parts
<1>4. Apart(u)
  BY <1>1 DEF Sound, Fits, Apart
<1>5. Fits(u)
  BY <1>2, <1>4 DEF Sound, Fits
<1> QED
  BY <1>3, <1>5 DEF Sound

(* After ensureDataLength the trie is sound and has room. *)
LEMMA RoomIsMade ==
  ASSUME IInv
  PROVE  \E pre : Sound(ensureDataLength(trie), pre) /\ Ready(ensureDataLength(trie))
<1>1. PICK t : t = ensureDataLength(trie)
  OBVIOUS
<1>2. CASE Unborn(trie)
  <2>1. Sound(t, [a \in { 0 } |-> << >>]) /\ Ready(t)
    BY <1>1, <1>2, EnsureBorn
  <2> QED
    BY <1>1, <2>1
<1>3. CASE \E pre : Held(trie, pre)
  <2>1. PICK pre : Sound(trie, pre) /\ trie.end > 0
    BY <1>3 DEF Held
  <2>2. PICK pre2 : Sound(t, pre2) /\ Ready(t)
    BY <1>1, <2>1, EnsureSound
  <2> QED
    BY <1>1, <2>2
<1> QED
  BY <1>2, <1>3 DEF IInv

(* Every insertion preserves the inductive invariant. *)
LEMMA InsertKeeps ==
  ASSUME IInv, NEW key \in Keys, insert(key)
  PROVE  IInv'
<1>1. PICK t : t = ensureDataLength(trie)
  OBVIOUS
<1>2. PICK pre : Sound(t, pre) /\ Ready(t)
  BY <1>1, RoomIsMade
<1>3. \/ key = << >> /\ InsertEmpty(t)
      \/ key # << >> /\ \E w \in { Walk(t, key) } :
           SetValue(t, w) \/ NewChild(t, w) \/ SplitPath(t, w) \/ Rebuild(t, w) \/ GrowLeaf(t, w) \/ MoveLeaf(t, w)
  BY <1>1, Zenon DEF insert
<1>4. count \in Nat /\ key \in Seq(Char) /\ Len(key) <= MaxKeyLen
  BY KeysAssumption DEF IInv, Char
<1>5. CASE key = << >> /\ InsertEmpty(t)
  <2>1. PICK d : d = Data
    OBVIOUS
  <2>2. PICK u : u = [t EXCEPT !.value = d]
    OBVIOUS
  <2>3. trie' = u /\ count' = count + 1 /\ count < MaxInserts
    BY <1>5, <2>1, <2>2, Zenon DEF InsertEmpty, Store
  <2>4. Parts(u) /\ u.nodes = t.nodes /\ u.end = t.end /\ u.wasted = t.wasted /\ u.size = t.size
    BY <1>2, <2>2 DEF Sound, IsTrie, Parts
  <2>5. Held(u, pre)
    BY <1>2, <2>4, SoundSame DEF Held, Ready
  <2>6. Held(trie', pre)
    BY <2>3, <2>5
  <2>7. count' \in 0 .. MaxInserts
    BY <1>4, <2>3, NatAssumption
  <2> QED
    BY <2>6, <2>7 DEF IInv
<1>6. CASE key # << >> /\ \E w \in { Walk(t, key) } :
             SetValue(t, w) \/ NewChild(t, w) \/ SplitPath(t, w) \/ Rebuild(t, w) \/ GrowLeaf(t, w) \/ MoveLeaf(t, w)
  <2>1. PICK w : /\ w = Walk(t, key)
                 /\ \/ SetValue(t, w) \/ NewChild(t, w) \/ SplitPath(t, w)
                    \/ Rebuild(t, w) \/ GrowLeaf(t, w) \/ MoveLeaf(t, w)
    BY <1>6
  <2>2. Shaped(t.nodes, pre)
    BY <1>2 DEF Sound, Shaped
  <2>3. Meets(t, pre, key, w)
    <3>1. Stops(t, pre, key, w)
      BY <1>4, <2>1, <2>2, WalkStops
    <3> QED
      BY <1>4, <1>6, <2>2, <3>1, StopsMeets
  <2>4. Advanced(t, pre)
    BY <1>2, <1>4, <2>1, <2>3, SetValueStep, NewChildStep, SplitPathStep, RebuildStep, GrowLeafStep, MoveLeafStep
  <2>5. PICK v : v = trie'
    OBVIOUS
  <2>6. PICK at, e, graft, q : Insertion(t, pre, at, e, graft, q, v) /\ Parts(v) /\ v.size = t.size
    BY <2>4, <2>5 DEF Advanced
  <2>7. Held(v, Led(t.nodes, pre, at, graft, q))
    BY <1>2, <2>6, Advance DEF Held
  <2>8. count' \in 0 .. MaxInserts
    BY <1>4, <2>4, NatAssumption DEF Advanced
  <2>9. \E pre2 : Held(trie', pre2)
    BY <2>5, <2>7
  <2> QED
    BY <2>8, <2>9 DEF IInv
<1> QED
  BY <1>3, <1>5, <1>6

(* Init satisfies the inductive invariant. *)
LEMMA InitIInv == Init => IInv
<1> SUFFICES ASSUME Init PROVE IInv
  OBVIOUS
<1>1. trie = [nodes |-> << >>, value |-> 0, more |-> FALSE, end |-> 0, wasted |-> 0, size |-> 0] /\ count = 0
  BY DEF Init, Clear
<1>2. trie.value = 0
  BY <1>1
<1>3. Unborn(trie)
  BY <1>1, <1>2, Zenon DEF Unborn
<1> QED
  BY <1>1, <1>3, NatAssumption DEF IInv

(* Every step preserves it. *)
LEMMA NextIInv == IInv /\ [Next]_vars => IInv'
<1> SUFFICES ASSUME IInv, [Next]_vars PROVE IInv'
  OBVIOUS
<1>1. CASE Next
  BY <1>1, InsertKeeps DEF Next
<1>2. CASE UNCHANGED vars
  <2>1. trie' = trie /\ count' = count
    BY <1>2 DEF vars
  <2> QED
    BY <2>1 DEF IInv
<1> QED
  BY <1>1, <1>2

(* So it holds of every behaviour. *)
LEMMA IInvHolds == Spec => []IInv
BY InitIInv, NextIInv, PTL DEF Spec

(* A trie that is not made has no node. *)
LEMMA UnbornParts ==
  ASSUME Unborn(trie)
  PROVE  DOMAIN trie.nodes = {} /\ trie.end = 0 /\ trie.wasted = 0 /\ trie.size = 0
<1>1. PICK x, y : trie = [nodes |-> << >>, value |-> x, more |-> y, end |-> 0, wasted |-> 0, size |-> 0]
  BY DEF Unborn
<1>2. trie.nodes = << >> /\ trie.end = 0 /\ trie.wasted = 0 /\ trie.size = 0
  BY <1>1
<1> QED
  BY <1>2

(***************************************************************************)
(* The parts of the trie keep their types, and the block is always at      *)
(* least as long as what is used of it: the room ensureDataLength makes    *)
(* before it knows the key is enough for whatever the key then needs.      *)
(***************************************************************************)
THEOREM TypeCorrect == Spec => []TypeOK
<1>1. IInv => TypeOK
  <2> SUFFICES ASSUME IInv PROVE TypeOK
    OBVIOUS
  <2>1. CASE Unborn(trie)
    BY <2>1, UnbornParts DEF IInv, TypeOK
  <2>2. ASSUME NEW pre, Held(trie, pre) PROVE TypeOK
    <3>1. Sound(trie, pre)
      BY <2>2 DEF Held
    <3>2. ASSUME NEW a \in DOMAIN trie.nodes PROVE IsNode(a, trie.nodes[a])
      <4>1. PICK n : n = trie.nodes[a]
        OBVIOUS
      <4>2. n \in Node /\ n.child \in [0 .. n.mod - 1 -> Nat] /\ n.mod # 1 /\ (n.path = << >> <=> a = 0)
        BY <3>1, <4>1 DEF Sound, Typed
      <4>3. \A k \in 1 .. Len(n.path) : n.path[k].ch \in 0 .. VTKEY_NUM - 1
        <5>1. n.path \in Seq(Entry)
          BY <4>2 DEF Node
        <5>2. \A k \in 1 .. Len(n.path) : n.path[k] \in Entry
          BY <5>1
        <5> QED
          BY <5>2 DEF Entry, Char
      <4>4. DOMAIN n.child = 0 .. n.mod - 1
        BY <4>2
      <4> QED
        BY <4>1, <4>2, <4>3, <4>4, Zenon DEF IsNode
    <3>3. trie.end \in Nat /\ trie.size \in Nat /\ trie.wasted \in Nat /\ trie.end <= trie.size
      BY <3>1 DEF Sound, IsTrie, Fits
    <3>4. Weight(trie) \in Nat /\ Weight(trie) + trie.wasted <= trie.end
      BY <3>1, PlacesApart DEF Sound, Fits
    <3>5. trie.wasted <= trie.end
      BY <3>3, <3>4
    <3> QED
      BY <3>2, <3>3, <3>5 DEF IInv, TypeOK
  <2> QED
    BY <2>1, <2>2 DEF IInv
<1> QED
  BY <1>1, IInvHolds, PTL

(* Once says of the slots what NodesApart counts. *)
LEMMA OnePointer ==
  ASSUME NEW N, Typed(N), Placed(N), Once(N), NEW a \in DOMAIN N, a # 0
  PROVE  Cardinality({ p \in (DOMAIN N) \X (0 .. VTKEY_NUM - 1) :
                         p[2] \in DOMAIN N[p[1]].child /\ N[p[1]].child[p[2]] = a }) = 1
<1>1. PICK S : S = { p \in (DOMAIN N) \X (0 .. VTKEY_NUM - 1) :
                       p[2] \in DOMAIN N[p[1]].child /\ N[p[1]].child[p[2]] = a }
  OBVIOUS
<1>2. PICK b \in DOMAIN N : \E s \in Children(N[b]) : N[b].child[s] = a
  BY DEF Once
<1>8. PICK s \in Children(N[b]) : N[b].child[s] = a
  BY <1>2
<1>3. s \in 0 .. VTKEY_NUM - 1 /\ s \in DOMAIN N[b].child
  <2>1. N[b].mod \in 0 .. VTKEY_NUM /\ N[b].child \in [0 .. N[b].mod - 1 -> Nat]
    BY DEF Typed, Node
  <2> QED
    BY <1>8, <2>1, CodesAssumption DEF Children
<1>4. << b, s >> \in S
  BY <1>1, <1>8, <1>3
<1>5. ASSUME NEW p \in S PROVE p = << b, s >>
  <2>1. PICK c \in DOMAIN N, r \in 0 .. VTKEY_NUM - 1 : p = << c, r >> /\ r \in DOMAIN N[c].child /\ N[c].child[r] = a
    BY <1>1, <1>5
  <2>2. r \in Children(N[c])
    BY <2>1 DEF Children
  <2>3. c = b /\ r = s
    BY <1>8, <2>1, <2>2 DEF Once
  <2> QED
    BY <2>1, <2>3
<1>6. S = { << b, s >> }
  BY <1>4, <1>5
<1>7. Cardinality(S) = 1
  BY <1>6, FS_Singleton
<1> QED
  BY <1>1, <1>7, Zenon

(***************************************************************************)
(* The nodes are a tree whose bytes never overlap, through every way an    *)
(* insertion writes a node again, splits it or grows it where it is, and   *)
(* through every copy optimize makes.                                      *)
(***************************************************************************)
THEOREM NodesStayApart == Spec => []NodesApart
<1>1. IInv => NodesApart
  <2> SUFFICES ASSUME IInv PROVE NodesApart
    OBVIOUS
  <2>1. CASE Unborn(trie)
    BY <2>1, UnbornParts DEF NodesApart
  <2>2. ASSUME NEW pre, Held(trie, pre) PROVE NodesApart
    <3>1. PICK N : N = trie.nodes
      OBVIOUS
    <3>2. Typed(N) /\ Placed(N) /\ Once(N) /\ Apart(trie)
      BY <2>2, <3>1 DEF Held, Sound, Fits
    <3>3. ASSUME NEW a \in DOMAIN N PROVE Range(N[a].child) \ { 0 } \subseteq DOMAIN N
      BY <3>2 DEF Range, Placed, Children
    <3>4. ASSUME NEW a \in DOMAIN N, a # 0
          PROVE  Cardinality({ p \in (DOMAIN N) \X (0 .. VTKEY_NUM - 1) :
                                 p[2] \in DOMAIN N[p[1]].child /\ N[p[1]].child[p[2]] = a }) = 1
      BY <3>2, <3>4, OnePointer
    <3>5. ASSUME NEW a \in DOMAIN N
          PROVE  a + Bytes(trie, a) <= trie.end /\ \A b \in DOMAIN N : a < b => a + Bytes(trie, a) <= b
      BY <3>1, <3>2 DEF Apart
    <3> QED
      <4> DEFINE pointers(a) == { p \in (DOMAIN trie.nodes) \X (0 .. VTKEY_NUM - 1) :
                                    /\ p[2] \in DOMAIN trie.nodes[p[1]].child
                                    /\ trie.nodes[p[1]].child[p[2]] = a }
      <4>1. \A a \in DOMAIN trie.nodes : a # 0 => Cardinality(pointers(a)) = 1
        BY <3>1, <3>4, Zenon
      <4> HIDE DEF pointers
      <4>2. \A a \in DOMAIN trie.nodes :
              /\ a + Bytes(trie, a) <= trie.end
              /\ Range(trie.nodes[a].child) \ { 0 } \subseteq DOMAIN trie.nodes
              /\ a # 0 => Cardinality(pointers(a)) = 1
              /\ \A b \in DOMAIN trie.nodes : a < b => a + Bytes(trie, a) <= b
        BY <3>1, <3>3, <3>5, <4>1
      <4> QED
        BY <4>2, Zenon DEF NodesApart, pointers
  <2> QED
    BY <2>1, <2>2 DEF IInv
<1> QED
  BY <1>1, IInvHolds, PTL

(***************************************************************************)
(* What is in use and what is counted as wasted fit in the block together, *)
(* so the smaller block optimize allocates always holds the copy.          *)
(***************************************************************************)
THEOREM WasteAlwaysSound == Spec => []WasteSound
<1>1. IInv => WasteSound
  <2> SUFFICES ASSUME IInv PROVE WasteSound
    OBVIOUS
  <2>1. CASE Unborn(trie)
    BY <2>1, UnbornParts DEF WasteSound
  <2>2. ASSUME NEW pre, Held(trie, pre) PROVE WasteSound
    BY <2>2, PlacesApart DEF Held, Sound, Fits, WasteSound
  <2> QED
    BY <2>1, <2>2 DEF IInv
<1> QED
  BY <1>1, IInvHolds, PTL
=============================================================================
