---------------------------- MODULE POSTableProofs ----------------------------
(***************************************************************************)
(* Proofs about POSTable, for all tags, files and lists.                   *)
(*                                                                         *)
(* CodesKept and FlagsSinceReset speak of the tags that were asked for.     *)
(* They hold because of facts about all cells: a cell in use points to an  *)
(* entry of its own (NamesAgree), entries never move, and the flag of the  *)
(* entry is right whoever added it (FlagsAgree).                           *)
(***************************************************************************)
EXTENDS POSTable, SequenceTheorems, TLAPS

(* What the table is made of; TypeOK says how the parts fit. *)
Tables == [cells : [Cells -> Nat], names : Seq(AllTags \cup {Unknown}), flags : Seq(BOOLEAN),
           size_ : Nat]

Fits(p) ==
  /\ Len(p.names) = Len(p.flags)
  /\ Len(p.flags) \in 1 .. p.size_
  /\ \A c \in Cells : p.cells[c] < Len(p.flags)

(* The entry a cell points to has a tag of that cell. *)
NamesAgree(p) ==
  \A c \in Cells : p.cells[c] > 0 => Cell(p.names[p.cells[c] + 1]) = c

(* The flag of the entry of a cell is what was asked for. *)
Wanted(code, c, a) == a.default \/ code >= a.size \/ c \in a.on

FlagsAgree(p, a) ==
  \A c \in Cells : p.cells[c] > 0 => p.flags[p.cells[c] + 1] = Wanted(p.cells[c], c, a)

AskedOK ==
  /\ asked \in [default : BOOLEAN, size : Nat, on : SUBSET Cells]
  /\ asked.size <= Len(table.flags)

GivenOK ==
  /\ DOMAIN given \subseteq Tags
  /\ \A t \in DOMAIN given \ { << >> } : given[t] > 0 /\ table.cells[Cell(t)] = given[t]

IInv ==
  /\ table \in Tables
  /\ loaded \in BOOLEAN /\ rest \in Seq(AllTags)
  /\ Fits(table)
  /\ NamesAgree(table)
  /\ FlagsAgree(table, asked)
  /\ AskedOK
  /\ GivenOK

(* A tag that is not empty has a cell. *)
LEMMA CellOfTag ==
  ASSUME NEW t \in AllTags, t # << >>
  PROVE  Cell(t) \in Cells
BY DEF Cells

(* Names and cells stay apart: no two cells point to one entry.            *)
LEMMA CellsApart ==
  ASSUME NEW p, NamesAgree(p), NEW c \in Cells, NEW d \in Cells,
         p.cells[c] > 0, p.cells[d] > 0, p.cells[c] = p.cells[d]
  PROVE  c = d
BY DEF NamesAgree

LEMMA Types ==
  ASSUME NEW p \in Tables
  PROVE  /\ p.cells \in [Cells -> Nat] /\ p.names \in Seq(AllTags \cup {Unknown})
         /\ p.flags \in Seq(BOOLEAN) /\ p.size_ \in Nat
         /\ Len(p.names) \in Nat /\ Len(p.flags) \in Nat
BY DEF Tables

LEMMA AppendFlag ==
  ASSUME NEW s \in Seq(BOOLEAN), NEW b \in BOOLEAN
  PROVE  /\ Append(s, b) \in Seq(BOOLEAN)
         /\ Len(Append(s, b)) = Len(s) + 1
         /\ \A i \in 1 .. Len(s) : Append(s, b)[i] = s[i]
         /\ Append(s, b)[Len(s) + 1] = b
<1>1. /\ Append(s, b) \in Seq(BOOLEAN)
      /\ Len(Append(s, b)) = Len(s) + 1
  BY AppendProperties
<1>2. ASSUME NEW i \in 1 .. Len(s) PROVE Append(s, b)[i] = s[i]
  BY AppendProperties
<1>3. Append(s, b)[Len(s) + 1] = b
  BY AppendProperties, Zenon
<1> QED
  BY <1>1, <1>2, <1>3

(***************************************************************************)
(* addPOS: the entry added is the last, TRUE, and only its cell changes.   *)
(***************************************************************************)
LEMMA AddKeeps ==
  ASSUME NEW p \in Tables, NEW t \in AllTags, NEW a, Fits(p), NamesAgree(p), FlagsAgree(p, a),
         a.size \in Nat, a.size <= Len(p.flags)
  PROVE  /\ addPOS(p, t) \in Tables /\ Fits(addPOS(p, t)) /\ NamesAgree(addPOS(p, t))
         /\ FlagsAgree(addPOS(p, t), a)
         /\ Len(addPOS(p, t).flags) >= Len(p.flags)
         /\ \A c \in Cells : p.cells[c] > 0 => addPOS(p, t).cells[c] = p.cells[c]
         /\ t # << >> => addPOS(p, t).cells[Cell(t)] = Code(p, t)
         /\ Code(p, t) \in 1 .. Len(addPOS(p, t).flags) - 1
<1>0. /\ p.cells \in [Cells -> Nat] /\ p.names \in Seq(AllTags \cup {Unknown})
      /\ p.flags \in Seq(BOOLEAN) /\ p.size_ \in Nat
      /\ Len(p.names) = Len(p.flags) /\ Len(p.flags) \in Nat /\ Len(p.flags) > 0
      /\ Len(p.flags) <= p.size_ /\ \A c \in Cells : p.cells[c] < Len(p.flags)
  BY Types DEF Fits
<1>1. CASE search(p, t) > 0
  <2>1. addPOS(p, t) = p /\ Code(p, t) = search(p, t)
    BY <1>1 DEF addPOS, Code
  <2>2. t # << >> /\ search(p, t) = p.cells[Cell(t)] /\ Cell(t) \in Cells
    BY <1>1, CellOfTag DEF search
  <2> QED
    BY <1>0, <1>1, <2>1, <2>2
<1>2. CASE ~(search(p, t) > 0)
  <2> DEFINE n == Len(p.flags)
             q == addPOS(p, t)
  <2>1. /\ q = [cells |-> Insert(p.cells, t, n), names |-> Append(p.names, t),
               flags |-> Append(p.flags, TRUE), size_ |-> Room(p)]
        /\ Code(p, t) = n
    BY <1>2 DEF addPOS, Code
  <2> HIDE DEF q
  <2>2. /\ q.cells = Insert(p.cells, t, n) /\ q.names = Append(p.names, t)
        /\ q.flags = Append(p.flags, TRUE) /\ q.size_ = Room(p)
    BY <2>1
  <2>3. t # << >> => Cell(t) \in Cells /\ p.cells[Cell(t)] = 0
    BY <1>0, <1>2, CellOfTag DEF search
  <2>4. \A c \in Cells : q.cells[c] = IF t # << >> /\ c = Cell(t) THEN n ELSE p.cells[c]
    BY <1>0, <2>2, <2>3 DEF Insert
  <2>5. q.cells \in [Cells -> Nat]
    BY <1>0, <2>2, <2>3 DEF Insert
  <2>6. /\ q.names \in Seq(AllTags \cup {Unknown}) /\ Len(q.names) = n + 1
        /\ q.names[n + 1] = t /\ \A k \in 1 .. n : q.names[k] = p.names[k]
    BY <1>0, <2>2
  <2>7. /\ q.flags \in Seq(BOOLEAN) /\ Len(q.flags) = n + 1
        /\ q.flags[n + 1] = TRUE /\ \A k \in 1 .. n : q.flags[k] = p.flags[k]
    <3>1. q.flags = Append(p.flags, TRUE) /\ TRUE \in BOOLEAN
      BY <2>2
    <3>2. p.flags \in Seq(BOOLEAN) /\ Len(p.flags) = n
      BY <1>0
    <3>3. /\ Append(p.flags, TRUE) \in Seq(BOOLEAN)
          /\ Len(Append(p.flags, TRUE)) = Len(p.flags) + 1
          /\ \A i \in 1 .. Len(p.flags) : Append(p.flags, TRUE)[i] = p.flags[i]
          /\ Append(p.flags, TRUE)[Len(p.flags) + 1] = TRUE
      BY <3>2, AppendFlag
    <3> QED
      BY <3>1, <3>2, <3>3, Zenon
  <2>8. q.size_ \in Nat /\ q.size_ >= n + 1
    <3>1. \A k \in Nat : (k * 3) \div 2 \in Nat /\ (k * 3) \div 2 >= k
      OBVIOUS
    <3>2. CASE n = p.size_
      <4>1. q.size_ = (n * 3) \div 2 + 1 /\ n \in Nat
        BY <1>0, <2>2, <3>2 DEF Room
      <4>2. PICK h : h = (n * 3) \div 2
        OBVIOUS
      <4>3. h \in Nat /\ h >= n
        BY <3>1, <4>1, <4>2
      <4>4. q.size_ = h + 1
        BY <4>1, <4>2
      <4>5. n \in Nat
        BY <1>0
      <4> QED
        BY <4>3, <4>4, <4>5
    <3>3. CASE n # p.size_
      <4>1. q.size_ = p.size_ /\ p.size_ \in Nat /\ n <= p.size_ /\ n \in Nat
        BY <1>0, <2>2, <3>3 DEF Room
      <4> QED
        BY <3>3, <4>1
    <3> QED
      BY <3>2, <3>3
  <2>9. q \in Tables
    BY <2>1, <2>2, <2>5, <2>6, <2>7, <2>8 DEF Tables
  <2>10. Fits(q)
    <3>1. \A c \in Cells : q.cells[c] < n + 1
      BY <1>0, <2>4
    <3> QED
      BY <1>0, <2>6, <2>7, <2>8, <3>1 DEF Fits
  <2>11. NamesAgree(q)
    <3> SUFFICES ASSUME NEW c \in Cells, q.cells[c] > 0
                 PROVE  Cell(q.names[q.cells[c] + 1]) = c
      BY DEF NamesAgree
    <3>1. CASE t # << >> /\ c = Cell(t)
      BY <2>4, <2>6, <3>1
    <3>2. CASE ~(t # << >> /\ c = Cell(t))
      <4>1. q.cells[c] = p.cells[c] /\ p.cells[c] + 1 \in 1 .. n
        BY <1>0, <2>4, <3>2
      <4> QED
        BY <2>6, <4>1 DEF NamesAgree
    <3> QED
      BY <3>1, <3>2
  <2>12. FlagsAgree(q, a)
    <3> SUFFICES ASSUME NEW c \in Cells, q.cells[c] > 0
                 PROVE  q.flags[q.cells[c] + 1] = Wanted(q.cells[c], c, a)
      BY DEF FlagsAgree
    <3>1. CASE t # << >> /\ c = Cell(t)
      <4>1. q.cells[c] = n /\ q.flags[n + 1] = TRUE /\ n >= a.size
        BY <2>4, <2>7, <3>1
      <4> QED
        BY <4>1 DEF Wanted
    <3>2. CASE ~(t # << >> /\ c = Cell(t))
      <4>1. q.cells[c] = p.cells[c] /\ p.cells[c] + 1 \in 1 .. n
        BY <1>0, <2>4, <3>2
      <4>2. q.flags[q.cells[c] + 1] = p.flags[p.cells[c] + 1]
        BY <2>7, <4>1
      <4> QED
        BY <4>1, <4>2 DEF FlagsAgree
    <3> QED
      BY <3>1, <3>2
  <2>13. \A c \in Cells : p.cells[c] > 0 => q.cells[c] = p.cells[c]
    BY <2>3, <2>4
  <2>14. t # << >> => q.cells[Cell(t)] = Code(p, t)
    BY <2>1, <2>3, <2>4
  <2>15. Code(p, t) \in 1 .. Len(q.flags) - 1 /\ Len(q.flags) >= n
    BY <1>0, <2>1, <2>7
  <2> QED
    BY <2>9, <2>10, <2>11, <2>12, <2>13, <2>14, <2>15 DEF q
<1> QED
  BY <1>1, <1>2

(* SetIndex: the flag of the entry of t becomes TRUE, and no other.        *)
Noted(a, t) == IF t = << >> THEN a ELSE [a EXCEPT !.on = @ \cup { Cell(t) }]

LEMMA SetKeeps ==
  ASSUME NEW p \in Tables, NEW t \in AllTags, Fits(p), NamesAgree(p),
         NEW a \in [default : BOOLEAN, size : Nat, on : SUBSET Cells], FlagsAgree(p, a),
         a.size <= Len(p.flags)
  PROVE  /\ SetIndex(p, t) \in Tables /\ Fits(SetIndex(p, t)) /\ NamesAgree(SetIndex(p, t))
         /\ FlagsAgree(SetIndex(p, t), Noted(a, t))
         /\ Len(SetIndex(p, t).flags) >= Len(p.flags)
         /\ \A c \in Cells : p.cells[c] > 0 => SetIndex(p, t).cells[c] = p.cells[c]
<1> DEFINE q == addPOS(p, t)
           r == SetIndex(p, t)
           k == Code(p, t) + 1
<1>1. /\ q \in Tables /\ Fits(q) /\ NamesAgree(q) /\ FlagsAgree(q, a)
      /\ Len(q.flags) >= Len(p.flags)
      /\ \A c \in Cells : p.cells[c] > 0 => q.cells[c] = p.cells[c]
      /\ t # << >> => q.cells[Cell(t)] = Code(p, t)
      /\ Code(p, t) \in 1 .. Len(q.flags) - 1
  BY AddKeeps
<1>2. t = << >> => q.cells = p.cells /\ Code(p, t) = Len(p.flags)
  BY DEF addPOS, search, Insert, Code
<1>3. r = [q EXCEPT !.flags[k] = TRUE]
  BY DEF SetIndex
<1> HIDE DEF q, r
<1>4. /\ q.cells \in [Cells -> Nat] /\ q.names \in Seq(AllTags \cup {Unknown})
      /\ q.flags \in Seq(BOOLEAN) /\ q.size_ \in Nat /\ Len(q.flags) \in Nat
      /\ k \in 1 .. Len(q.flags)
      /\ q = [cells |-> q.cells, names |-> q.names, flags |-> q.flags, size_ |-> q.size_]
  <2>1. q = [cells |-> q.cells, names |-> q.names, flags |-> q.flags, size_ |-> q.size_]
    BY <1>1 DEF Tables
  <2> QED
    BY <1>1, <2>1, Types
<1>5. r = [cells |-> q.cells, names |-> q.names, flags |-> [q.flags EXCEPT ![k] = TRUE],
           size_ |-> q.size_]
  BY <1>3, <1>4
<1>6. /\ r.cells = q.cells /\ r.names = q.names /\ r.size_ = q.size_
      /\ r.flags = [q.flags EXCEPT ![k] = TRUE]
  BY <1>5
<1>7. /\ r.flags \in Seq(BOOLEAN) /\ Len(r.flags) = Len(q.flags)
      /\ r.flags[k] = TRUE
      /\ \A j \in 1 .. Len(q.flags) : j # k => r.flags[j] = q.flags[j]
  BY <1>4, <1>6
<1>8. r \in Tables
  BY <1>4, <1>5, <1>6, <1>7 DEF Tables
<1>9. Fits(r) /\ NamesAgree(r)
  BY <1>1, <1>6, <1>7 DEF Fits, NamesAgree
<1>10. FlagsAgree(r, Noted(a, t))
  <2> SUFFICES ASSUME NEW c \in Cells, r.cells[c] > 0
               PROVE  r.flags[r.cells[c] + 1] = Wanted(r.cells[c], c, Noted(a, t))
    BY DEF FlagsAgree
  <2>0. q.cells[c] > 0 /\ q.cells[c] \in Nat /\ q.cells[c] + 1 \in 1 .. Len(q.flags)
    BY <1>1, <1>4, <1>6 DEF Fits
  <2>1. CASE t # << >> /\ c = Cell(t)
    <3>1. r.cells[c] + 1 = k
      BY <1>1, <1>6, <2>1
    <3>2. c \in Noted(a, t).on
      BY <2>1 DEF Noted
    <3> QED
      BY <1>7, <3>1, <3>2 DEF Wanted
  <2>2. CASE ~(t # << >> /\ c = Cell(t))
    <3>1. q.cells[c] + 1 # k
      <4>1. CASE t = << >>
        <5>1. q.cells[c] = p.cells[c] /\ p.cells[c] < Len(p.flags) /\ Code(p, t) = Len(p.flags)
          BY <1>2, <4>1 DEF Fits
        <5> QED
          BY <2>0, <5>1
      <4>2. CASE t # << >>
        <5>1. Cell(t) \in Cells /\ q.cells[Cell(t)] = Code(p, t) /\ Code(p, t) > 0
          BY <1>1, <4>2, CellOfTag
        <5>2. q.cells[c] # Code(p, t)
          BY <1>1, <2>0, <2>2, <4>2, <5>1, CellsApart
        <5> QED
          BY <1>1, <1>4, <2>0, <5>2
      <4> QED
        BY <4>1, <4>2
    <3>2. r.flags[r.cells[c] + 1] = q.flags[q.cells[c] + 1]
      BY <1>6, <1>7, <2>0, <3>1
    <3>3. q.flags[q.cells[c] + 1] = Wanted(q.cells[c], c, a)
      BY <1>1, <2>0 DEF FlagsAgree
    <3>4. Wanted(q.cells[c], c, a) = Wanted(q.cells[c], c, Noted(a, t))
      BY <2>2 DEF Wanted, Noted
    <3> QED
      BY <1>6, <3>2, <3>3, <3>4
  <2> QED
    BY <2>1, <2>2
<1> QED
  BY <1>1, <1>6, <1>7, <1>8, <1>9, <1>10 DEF r
-------------------------------------------------------------------------------
(* The invariant is inductive.                                             *)

LEMMA RestTags ==
  ASSUME IInv, rest # << >>
  PROVE  Head(rest) \in AllTags /\ Tail(rest) \in Seq(AllTags)
BY DEF IInv

LEMMA InitIInv == Init => IInv
<1> SUFFICES ASSUME Init PROVE IInv
  OBVIOUS
<1>1. /\ table = [cells |-> [c \in Cells |-> 0], names |-> << Unknown >>,
                  flags |-> << TRUE >>, size_ |-> Reserved]
      /\ loaded = FALSE /\ rest = << >> /\ given = << >>
      /\ asked = [default |-> TRUE, size |-> 1, on |-> {}]
  BY DEF Init
<1>2. << Unknown >> \in Seq(AllTags \cup {Unknown}) /\ << TRUE >> \in Seq(BOOLEAN)
      /\ Len(<< Unknown >>) = 1 /\ Len(<< TRUE >>) = 1
  OBVIOUS
<1>3. table \in Tables /\ \A c \in Cells : table.cells[c] = 0
  BY <1>1, <1>2, ReservedAssumption DEF Tables
<1>4. Fits(table)
  BY <1>1, <1>2, ReservedAssumption DEF Fits
<1>5. NamesAgree(table) /\ FlagsAgree(table, asked)
  BY <1>3 DEF NamesAgree, FlagsAgree
<1>6. AskedOK
  BY <1>1, <1>2 DEF AskedOK
<1>7. GivenOK
  BY <1>1 DEF GivenOK
<1>8. loaded \in BOOLEAN /\ rest \in Seq(AllTags)
  <2>1. loaded \in BOOLEAN
    BY <1>1
  <2>2. << >> \in Seq(AllTags)
    OBVIOUS
  <2> QED
    BY <1>1, <2>1, <2>2
<1> QED
  BY <1>3, <1>4, <1>5, <1>6, <1>7, <1>8 DEF IInv

(* A tag added by a line of the model.                                     *)
LEMMA LoadLineIInv ==
  ASSUME IInv, LoadLine
  PROVE  IInv'
<1> DEFINE t == Head(rest)
<1>1. /\ rest # << >> /\ table' = IF t = << >> THEN table ELSE addPOS(table, t)
      /\ rest' = Tail(rest) /\ UNCHANGED << loaded, given, asked >>
  BY DEF LoadLine
<1>2. t \in AllTags /\ rest' \in Seq(AllTags)
  BY <1>1, RestTags
<1>3. /\ table \in Tables /\ Fits(table) /\ NamesAgree(table) /\ FlagsAgree(table, asked)
      /\ asked.size \in Nat /\ asked.size <= Len(table.flags)
  BY DEF IInv, AskedOK
<1>4. /\ table' \in Tables /\ Fits(table') /\ NamesAgree(table') /\ FlagsAgree(table', asked)
      /\ Len(table'.flags) >= Len(table.flags)
      /\ \A c \in Cells : table.cells[c] > 0 => table'.cells[c] = table.cells[c]
  <2>1. CASE t = << >>
    BY <1>1, <1>3, <2>1, Types
  <2>2. CASE t # << >>
    BY <1>1, <1>2, <1>3, <2>2, AddKeeps
  <2> QED
    BY <2>1, <2>2
<1>5. AskedOK'
  BY <1>1, <1>3, <1>4, Types DEF IInv, AskedOK
<1>6. GivenOK'
  <2>1. \A d \in DOMAIN given \ { << >> } : d \in AllTags
    BY DEF IInv, GivenOK, AllTags
  <2> QED
    BY <1>1, <1>4, <2>1, CellOfTag DEF IInv, GivenOK
<1> QED
  BY <1>1, <1>2, <1>4, <1>5, <1>6 DEF IInv

(* A tag asked for gets the code of its cell, and keeps the one it has.    *)
LEMMA GetCodeIInv ==
  ASSUME IInv, NEW t \in Tags, getCodeFromStr(t)
  PROVE  IInv'
<1>1. /\ table' = addPOS(table, t) /\ UNCHANGED << loaded, rest, asked >>
      /\ given' = IF t \in DOMAIN given THEN given
                  ELSE [d \in DOMAIN given \cup {t} |-> IF d = t THEN Code(table, t) ELSE given[d]]
  BY DEF getCodeFromStr
<1>2. t \in AllTags
  BY DEF AllTags
<1>3. /\ table \in Tables /\ Fits(table) /\ NamesAgree(table) /\ FlagsAgree(table, asked)
      /\ asked.size \in Nat /\ asked.size <= Len(table.flags)
  BY DEF IInv, AskedOK
<1>4. /\ table' \in Tables /\ Fits(table') /\ NamesAgree(table') /\ FlagsAgree(table', asked)
      /\ Len(table'.flags) >= Len(table.flags)
      /\ \A c \in Cells : table.cells[c] > 0 => table'.cells[c] = table.cells[c]
      /\ t # << >> => table'.cells[Cell(t)] = Code(table, t)
      /\ Code(table, t) > 0
  BY <1>1, <1>2, <1>3, AddKeeps
<1>5. AskedOK'
  BY <1>1, <1>3, <1>4, Types DEF IInv, AskedOK
<1>6. GivenOK'
  <2>1. DOMAIN given' \subseteq Tags
    BY <1>1 DEF IInv, GivenOK
  <2>2. ASSUME NEW d \in DOMAIN given' \ { << >> }
        PROVE  given'[d] > 0 /\ table'.cells[Cell(d)] = given'[d]
    <3>1. CASE d \in DOMAIN given
      <4>1. given'[d] = given[d] /\ given[d] > 0 /\ table.cells[Cell(d)] = given[d]
        BY <1>1, <3>1 DEF IInv, GivenOK
      <4>2. Cell(d) \in Cells
        BY <2>1, CellOfTag DEF AllTags
      <4> QED
        BY <1>4, <4>1, <4>2
    <3>2. CASE ~(d \in DOMAIN given)
      <4>1. d = t /\ given'[d] = Code(table, t)
        BY <1>1, <3>2
      <4> QED
        BY <1>4, <4>1
    <3> QED
      BY <3>1, <3>2
  <2> QED
    BY <2>1, <2>2 DEF GivenOK
<1> QED
  BY <1>1, <1>4, <1>5, <1>6 DEF IInv

(* A tag of a list.                                                        *)
LEMMA ListTagIInv ==
  ASSUME IInv, ListTag
  PROVE  IInv'
<1> DEFINE t == Head(rest)
<1>1. /\ rest # << >> /\ table' = SetIndex(table, t) /\ asked' = Noted(asked, t)
      /\ rest' = Tail(rest) /\ UNCHANGED << loaded, given >>
  BY DEF ListTag, Noted
<1>2. t \in AllTags /\ rest' \in Seq(AllTags)
  BY <1>1, RestTags
<1>3. /\ table \in Tables /\ Fits(table) /\ NamesAgree(table) /\ FlagsAgree(table, asked)
      /\ asked \in [default : BOOLEAN, size : Nat, on : SUBSET Cells]
      /\ asked.size <= Len(table.flags)
  BY DEF IInv, AskedOK
<1>4. /\ table' \in Tables /\ Fits(table') /\ NamesAgree(table') /\ FlagsAgree(table', asked')
      /\ Len(table'.flags) >= Len(table.flags)
      /\ \A c \in Cells : table.cells[c] > 0 => table'.cells[c] = table.cells[c]
  BY <1>1, <1>2, <1>3, SetKeeps
<1>5. AskedOK'
  <2>1. asked' \in [default : BOOLEAN, size : Nat, on : SUBSET Cells] /\ asked'.size = asked.size
    BY <1>1, <1>2, <1>3, CellOfTag DEF Noted
  <2> QED
    BY <1>3, <1>4, <2>1, Types DEF AskedOK
<1>6. GivenOK'
  <2>1. \A d \in DOMAIN given \ { << >> } : d \in AllTags
    BY DEF IInv, GivenOK, AllTags
  <2> QED
    BY <1>1, <1>4, <2>1, CellOfTag DEF IInv, GivenOK
<1> QED
  BY <1>1, <1>2, <1>4, <1>5, <1>6 DEF IInv

(* All flags are set anew: those of the entries there are.                 *)
LEMMA ResetIInv ==
  ASSUME IInv, NEW defVal \in BOOLEAN, resetIndexPOSList(defVal)
  PROVE  IInv'
<1>1. /\ table' = [table EXCEPT !.flags = [k \in DOMAIN @ |-> defVal]]
      /\ asked' = [default |-> defVal, size |-> Len(table.flags), on |-> {}]
      /\ UNCHANGED << loaded, rest, given >>
  BY DEF resetIndexPOSList
<1>2. /\ table \in Tables /\ Fits(table) /\ NamesAgree(table)
      /\ table.cells \in [Cells -> Nat] /\ table.names \in Seq(AllTags \cup {Unknown})
      /\ table.flags \in Seq(BOOLEAN) /\ table.size_ \in Nat /\ Len(table.flags) \in Nat
  BY Types DEF IInv
<1> DEFINE new == [k \in DOMAIN table.flags |-> defVal]
<1>3. new \in Seq(BOOLEAN) /\ Len(new) = Len(table.flags)
      /\ \A k \in 1 .. Len(table.flags) : new[k] = defVal
  BY <1>2
<1> HIDE DEF new
<1>4. table' = [cells |-> table.cells, names |-> table.names, flags |-> new, size_ |-> table.size_]
  BY <1>1, <1>2 DEF Tables, new
<1>5. /\ table'.cells = table.cells /\ table'.names = table.names
      /\ table'.flags = new /\ table'.size_ = table.size_
  BY <1>4
<1>6. table' \in Tables
  BY <1>2, <1>3, <1>4 DEF Tables
<1>7. Fits(table') /\ NamesAgree(table')
  BY <1>2, <1>3, <1>5 DEF Fits, NamesAgree
<1>8. FlagsAgree(table', asked')
  <2> SUFFICES ASSUME NEW c \in Cells, table'.cells[c] > 0
               PROVE  table'.flags[table'.cells[c] + 1] = Wanted(table'.cells[c], c, asked')
    BY DEF FlagsAgree
  <2>1. table.cells[c] \in Nat /\ table.cells[c] < Len(table.flags)
    BY <1>2 DEF Fits
  <2>2. table'.flags[table'.cells[c] + 1] = defVal
    BY <1>3, <1>5, <2>1
  <2>3. Wanted(table'.cells[c], c, asked') = defVal
    BY <1>1, <1>2, <1>5, <2>1 DEF Wanted
  <2> QED
    BY <2>2, <2>3
<1>9. AskedOK'
  BY <1>1, <1>2, <1>3, <1>5 DEF AskedOK
<1>10. GivenOK'
  BY <1>1, <1>5 DEF IInv, GivenOK
<1> QED
  BY <1>1, <1>6, <1>7, <1>8, <1>9, <1>10 DEF IInv

LEMMA NextIInv == IInv /\ [Next]_vars => IInv'
<1> SUFFICES ASSUME IInv, [Next]_vars PROVE IInv'
  OBVIOUS
<1>0. ASSUME UNCHANGED << table, given, asked >>, loaded' \in BOOLEAN, rest' \in Seq(AllTags)
      PROVE  IInv'
  BY <1>0 DEF IInv, AskedOK, GivenOK
<1>1. ASSUME NEW lines \in TagFiles, loadPOSModel(lines) PROVE IInv'
  BY <1>0, <1>1, TagsAssumption DEF loadPOSModel, IInv
<1>2. CASE LoadLine
  BY <1>2, LoadLineIInv
<1>3. CASE EndLoad
  BY <1>0, <1>3 DEF EndLoad, IInv
<1>4. ASSUME NEW t \in Tags, getCodeFromStr(t) PROVE IInv'
  BY <1>4, GetCodeIInv
<1>5. ASSUME NEW list \in Lists, setIndexPOSList(list) PROVE IInv'
  BY <1>0, <1>5, TagsAssumption DEF setIndexPOSList, IInv
<1>6. CASE ListTag
  BY <1>6, ListTagIInv
<1>7. CASE EndList
  BY <1>0, <1>7 DEF EndList, IInv
<1>8. ASSUME NEW defVal \in BOOLEAN, resetIndexPOSList(defVal) PROVE IInv'
  BY <1>8, ResetIInv
<1>9. CASE UNCHANGED vars
  BY <1>0, <1>9 DEF vars, IInv
<1> QED
  BY <1>1, <1>2, <1>3, <1>4, <1>5, <1>6, <1>7, <1>8, <1>9 DEF Next

LEMMA Invariance == Spec => []IInv
BY InitIInv, NextIInv, PTL DEF Spec
-------------------------------------------------------------------------------
(***************************************************************************)
(* Names and flags are in step, every cell points to an entry and the      *)
(* flags fit into their memory, which grows when it is full.               *)
(***************************************************************************)
THEOREM TypeCorrect == Spec => []TypeOK
<1>1. IInv => TypeOK
  <2> SUFFICES ASSUME IInv PROVE TypeOK
    OBVIOUS
  <2>1. table.cells \in [Cells -> Nat] /\ table.flags \in Seq(BOOLEAN) /\ Len(table.flags) \in Nat
    BY Types DEF IInv
  <2>2. table.cells \in [Cells -> 0 .. Len(table.flags) - 1]
    BY <2>1 DEF IInv, Fits
  <2> QED
    BY <2>1, <2>2 DEF IInv, Fits, TypeOK
<1> QED
  BY <1>1, Invariance, PTL

(***************************************************************************)
(* A code getCodeFromStr gave to a client stays the code of its tag,       *)
(* whatever is loaded, listed or asked for later, and getStrFromCode       *)
(* answers it with a tag of the same cell.                                 *)
(***************************************************************************)
THEOREM CodesAlwaysKept == Spec => []CodesKept
<1>1. IInv => CodesKept
  <2> SUFFICES ASSUME IInv, NEW t \in DOMAIN given \ { << >> }
               PROVE  /\ Code(table, t) = given[t]
                      /\ Cell(getStrFromCode(table, given[t])) = Cell(t)
                      /\ \A u \in DOMAIN given \ { << >> } : given[u] = given[t] <=> Cell(u) = Cell(t)
    BY DEF CodesKept
  <2>1. given[t] > 0 /\ table.cells[Cell(t)] = given[t]
    BY DEF IInv, GivenOK
  <2>2. Cell(t) \in Cells
    BY CellOfTag DEF IInv, GivenOK, AllTags
  <2>3. Code(table, t) = given[t]
    BY <2>1 DEF Code, search
  <2>4. given[t] \in 0 .. Len(table.flags) - 1
    BY <2>1, <2>2, Types DEF IInv, Fits
  <2>5. Cell(getStrFromCode(table, given[t])) = Cell(t)
    BY <2>1, <2>2, <2>4 DEF getStrFromCode, IInv, NamesAgree
  <2>6. ASSUME NEW u \in DOMAIN given \ { << >> }
        PROVE  given[u] = given[t] <=> Cell(u) = Cell(t)
    <3>1. given[u] > 0 /\ table.cells[Cell(u)] = given[u] /\ Cell(u) \in Cells
      BY CellOfTag DEF IInv, GivenOK, AllTags
    <3>2. Cell(u) = Cell(t) => given[u] = given[t]
      BY <2>1, <3>1
    <3>3. Cell(table.names[given[u] + 1]) = Cell(u) /\ Cell(table.names[given[t] + 1]) = Cell(t)
      BY <2>1, <2>2, <3>1 DEF IInv, NamesAgree
    <3> QED
      BY <3>2, <3>3
  <2> QED
    BY <2>3, <2>5, <2>6
<1> QED
  BY <1>1, Invariance, PTL

(***************************************************************************)
(* The flag isIndexPOS answers with, after any calls: of a tag the table   *)
(* had at the last reset, the value of the reset or TRUE if a list given   *)
(* to setIndexPOSList named it since; of a tag added after it, TRUE        *)
(* whatever the value of the reset.                                        *)
(***************************************************************************)
THEOREM FlagsAlwaysSinceReset == Spec => []FlagsSinceReset
<1>1. IInv => FlagsSinceReset
  <2> SUFFICES ASSUME IInv, NEW t \in DOMAIN given \ { << >> }
               PROVE  isIndexPOS(table, given[t]) =
                        IF given[t] < asked.size THEN asked.default \/ Cell(t) \in asked.on ELSE TRUE
    BY DEF FlagsSinceReset
  <2>1. given[t] > 0 /\ table.cells[Cell(t)] = given[t]
    BY DEF IInv, GivenOK
  <2>2. Cell(t) \in Cells
    BY CellOfTag DEF IInv, GivenOK, AllTags
  <2>3. table.flags[given[t] + 1] = Wanted(given[t], Cell(t), asked)
    BY <2>1, <2>2 DEF IInv, FlagsAgree
  <2>4. given[t] \in Nat /\ asked.size \in Nat /\ asked.default \in BOOLEAN
    BY <2>1, <2>2, Types DEF IInv, AskedOK
  <2>5. Wanted(given[t], Cell(t), asked) =
          IF given[t] < asked.size THEN asked.default \/ Cell(t) \in asked.on ELSE TRUE
    <3>1. given[t] < asked.size <=> ~(given[t] >= asked.size)
      BY <2>4
    <3> QED
      BY <3>1, Zenon DEF Wanted
  <2> QED
    BY <2>3, <2>5 DEF isIndexPOS
<1> QED
  BY <1>1, Invariance, PTL
===============================================================================
