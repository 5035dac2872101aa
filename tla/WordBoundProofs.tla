--------------------------- MODULE WordBoundProofs ---------------------------
(***************************************************************************)
(* Proofs about WordBound, for all words, dictionaries and analyses, and   *)
(* about Knowledge, which it extends.                                      *)
(*                                                                         *)
(* OnlyTheWordIsHidden speaks of the moments of an analysis; Hidden says   *)
(* at every moment how the trie differs from the one that was loaded, and  *)
(* Progress which lines were trained, so that each count can be compared   *)
(* with the set of the lines it counts (Counts).                           *)
(***************************************************************************)
EXTENDS WordBound, FiniteSetTheorems, TLAPS
-----------------------------------------------------------------------------
(***************************************************************************)
(* The dictionary: theorems about Spec, the specification of Knowledge,    *)
(* whose models and dictionaries are loaded in any order.                  *)
(*                                                                         *)
(* The inductive invariant is DictInv: SlotsInRange and SlotsDistinct need *)
(* TypeOK (Append and EXCEPT say nothing of a posVec that is no sequence)  *)
(* and each other: what a word that was there before the POS model shares  *)
(* is slot 1, because all such words carry 1.                              *)
(***************************************************************************)
DictInv == TypeOK /\ SlotsInRange /\ SlotsDistinct

(* What is next in the file being read is a line. *)
LEMMA HeadIsLine ==
  ASSUME TypeOK, pending # << >>, Head(pending) # << >>
  PROVE  /\ Head(Head(pending)) \in Line
         /\ [pending EXCEPT ![1] = Tail(@)] \in Seq(Seq(Line))
<1>1. pending \in Seq(Seq(Line)) /\ Head(pending) = pending[1] /\ pending[1] \in Seq(Line)
  BY DEF TypeOK
<1>2. Head(Head(pending)) \in Line /\ Tail(pending[1]) \in Seq(Line)
  BY <1>1
<1>3. [pending EXCEPT ![1] = Tail(@)] \in Seq(Seq(Line))
  BY <1>1, <1>2
<1> QED
  BY <1>2, <1>3

(* Init satisfies the inductive invariant. *)
LEMMA InitDictInv == Init => DictInv
<1> SUFFICES ASSUME Init PROVE DictInv
  OBVIOUS
<1>1. << >> \in Seq(Seq(Line)) /\ << >> \in Seq(SUBSET Tags)
  OBVIOUS
<1>2. TypeOK
  <2>0. trie \in [Words -> Int]
    BY DEF Init
  <2>1. posT \in BOOLEAN /\ segT \in BOOLEAN /\ reading \in BOOLEAN
    BY DEF Init
  <2>2. posVec \in Seq(SUBSET Tags) /\ pending \in Seq(Seq(Line))
    BY <1>1 DEF Init
  <2>3. blackWords \in SUBSET Words /\ ret \in Nat /\ loads \in 0 .. MaxLoads
        /\ early \in SUBSET Words
    BY MaxLoadsAssumption DEF Init
  <2> QED
    BY <2>0, <2>1, <2>2, <2>3 DEF TypeOK
<1>3. SlotsInRange /\ SlotsDistinct
  BY DEF Init, SlotsInRange, SlotsDistinct, Known
<1> QED
  BY <1>2, <1>3 DEF DictInv

(* Tags that are added make no slot, also at an index that is none. *)
LEMMA WidenSlot ==
  ASSUME NEW s \in Seq(SUBSET Tags), NEW k \in 1 .. Len(s), NEW ts \in SUBSET Tags
  PROVE  /\ [s EXCEPT ![k] = @ \union ts] \in Seq(SUBSET Tags)
         /\ Len([s EXCEPT ![k] = @ \union ts]) = Len(s)
         /\ \A i \in 1 .. Len(s) : [s EXCEPT ![k] = @ \union ts][i]
                                     = IF i = k THEN s[i] \union ts ELSE s[i]
<1> DEFINE t == [s EXCEPT ![k] = @ \union ts]
<1>1. s[k] \union ts \in SUBSET Tags
  OBVIOUS
<1>2. t \in Seq(SUBSET Tags)
  BY <1>1
<1>3. Len(s) \in Nat /\ DOMAIN t = 1 .. Len(s)
  OBVIOUS
<1>4. Len(t) = Len(s)
  <2>1. t \in Seq(SUBSET Tags) /\ DOMAIN t = 1 .. Len(s) /\ Len(s) \in Nat
    BY <1>2, <1>3
  <2>2. Len(t) \in Nat /\ DOMAIN t = 1 .. Len(t)
    BY <1>2
  <2> HIDE DEF t
  <2>3. \A i \in Int : i \in 1 .. Len(t) <=> i \in 1 .. Len(s)
    BY <2>1, <2>2
  <2> QED
    BY <2>1, <2>2, <2>3
<1>5. ASSUME NEW i \in 1 .. Len(s)
      PROVE  t[i] = IF i = k THEN s[i] \union ts ELSE s[i]
  <2>1. CASE i = k
    BY <2>1
  <2>2. CASE i # k
    BY <2>2
  <2> QED
    BY <2>1, <2>2
<1> QED
  BY <1>2, <1>4, <1>5

LEMMA AddTagsKeepsSlots ==
  ASSUME posVec \in Seq(SUBSET Tags), NEW k \in Int, NEW ts \in SUBSET Tags, AddTags(k, ts)
  PROVE  /\ posVec' \in Seq(SUBSET Tags) /\ Len(posVec') = Len(posVec)
         /\ \A i \in 1 .. Len(posVec) :
              posVec'[i] = IF i = k THEN posVec[i] \union ts ELSE posVec[i]
<1>0. DOMAIN posVec = 1 .. Len(posVec)
  OBVIOUS
<1>1. CASE k \in 1 .. Len(posVec)
  <2>1. posVec' = [posVec EXCEPT ![k] = @ \union ts]
    BY <1>0, <1>1 DEF AddTags
  <2>2. \A i \in 1 .. Len(posVec) : [posVec EXCEPT ![k] = @ \union ts][i]
                                     = IF i = k THEN posVec[i] \union ts ELSE posVec[i]
    BY <1>1, WidenSlot
  <2>3. /\ [posVec EXCEPT ![k] = @ \union ts] \in Seq(SUBSET Tags)
        /\ Len([posVec EXCEPT ![k] = @ \union ts]) = Len(posVec)
    BY <1>1, WidenSlot
  <2> HIDE DEF AddTags
  <2> QED
    BY <2>1, <2>2, <2>3, Zenon
<1>2. CASE k \notin 1 .. Len(posVec)
  <2>1. posVec' = posVec
    BY <1>0, <1>2 DEF AddTags
  <2> QED
    BY <1>2, <2>1
<1> QED
  BY <1>1, <1>2

(* No slots: the sequence of no length. *)
LEMMA NoSlots ==
  ASSUME NEW s \in Seq(SUBSET Tags)
  PROVE  s = << >> <=> Len(s) = 0
  OBVIOUS

(***************************************************************************)
(* One dictionary line keeps the slots in range and distinct: a new slot   *)
(* is larger than every slot there is, and the first one is the slot of    *)
(* the words that were there before the POS model.                         *)
(***************************************************************************)
LEMMA AppendKeepsSlots ==
  ASSUME DictInv, NEW one \in Line, AppendWordPOS(one), UNCHANGED << posT, early >>
  PROVE  /\ trie' \in [Words -> Int]
         /\ posVec' \in Seq(SUBSET Tags)
         /\ SlotsInRange'
         /\ SlotsDistinct'
<1> DEFINE w == one.word
<1>0. w \in Words /\ one.pos \in SUBSET Tags
  BY DEF Line
<1>1. /\ trie \in [Words -> Int] /\ posVec \in Seq(SUBSET Tags) /\ posT \in BOOLEAN
      /\ posT' = posT /\ early' = early
  BY DEF DictInv, TypeOK
<1>2. CASE trie[w] > 0
  <2>1. UNCHANGED trie /\ posVec' \in Seq(SUBSET Tags) /\ Len(posVec') = Len(posVec)
    <3>1. CASE posT
      <4>1. AddTags(trie[w], one.pos) /\ UNCHANGED trie
        BY <1>2, <3>1 DEF AppendWordPOS
      <4> QED
        BY <1>0, <1>1, <4>1, AddTagsKeepsSlots
    <3>2. CASE ~posT
      BY <1>1, <1>2, <3>2 DEF AppendWordPOS
    <3> QED
      BY <3>1, <3>2
  <2>2. posVec' = << >> <=> posVec = << >>
    BY <1>1, <2>1, NoSlots
  <2> QED
    BY <1>1, <2>1, <2>2 DEF DictInv, SlotsInRange, SlotsDistinct, Known
<1>3. CASE ~(trie[w] > 0)
  <2>1. trie' = [trie EXCEPT ![w] = IF posT THEN NewSlot ELSE 1]
    BY <1>3 DEF AppendWordPOS
  <2>2. posVec' = IF posT THEN Append(posVec, one.pos) ELSE posVec
    BY <1>3 DEF AppendWordPOS
  <2>3. NewSlot \in Nat /\ NewSlot = Len(posVec) + 1 /\ Len(posVec) \in Nat
    BY <1>1 DEF NewSlot
  <2>4. trie' \in [Words -> Int] /\ posVec' \in Seq(SUBSET Tags)
    BY <1>0, <1>1, <2>1, <2>2, <2>3
  <2>5. CASE ~posT
    <3>1. \A v \in Words : trie'[v] # 0 => Abs(trie'[v]) = 1
      <4> SUFFICES ASSUME NEW v \in Words, trie'[v] # 0 PROVE Abs(trie'[v]) = 1
        OBVIOUS
      <4>1. CASE v = w
        BY <1>0, <1>1, <2>1, <2>5, <4>1 DEF Abs
      <4>2. CASE v # w
        <5>1. trie'[v] = trie[v]
          BY <1>0, <1>1, <2>1, <4>2
        <5> QED
          BY <2>5, <5>1 DEF DictInv, SlotsInRange, Known
      <4> QED
        BY <4>1, <4>2
    <3> QED
      BY <1>1, <2>4, <2>5, <3>1 DEF SlotsInRange, SlotsDistinct, Known
  <2>6. CASE posT
    <3>1. Len(posVec') = Len(posVec) + 1
      BY <1>0, <1>1, <2>2, <2>6
    <3>2. trie'[w] = Len(posVec) + 1 /\ Abs(trie'[w]) = Len(posVec) + 1
      BY <1>0, <1>1, <2>1, <2>3, <2>6 DEF Abs
    <3>3. ASSUME NEW v \in Words, v # w, trie'[v] # 0
          PROVE  /\ trie'[v] = trie[v] /\ v \in Known
                 /\ \/ Abs(trie[v]) \in 1 .. Len(posVec)
                    \/ v \in early /\ Len(posVec) = 0 /\ Abs(trie[v]) = 1
      <4>1. trie'[v] = trie[v] /\ v \in Known
        BY <1>0, <1>1, <2>1, <3>3 DEF Known
      <4> QED
        BY <1>1, <2>6, <4>1, NoSlots DEF DictInv, SlotsInRange
    <3>4. SlotsInRange'
      <4> SUFFICES ASSUME NEW v \in Words, trie'[v] # 0
                   PROVE  Abs(trie'[v]) \in 1 .. Len(posVec')
        BY <1>1, <2>6 DEF SlotsInRange, Known
      <4>1. CASE v = w
        BY <2>3, <3>1, <3>2, <4>1
      <4>2. CASE v # w
        BY <2>3, <3>1, <3>3, <4>2
      <4> QED
        BY <4>1, <4>2
    <3>5. ASSUME NEW v \in Words, v # w, trie'[v] # 0, Abs(trie'[v]) = Len(posVec) + 1
          PROVE  Abs(trie'[v]) = 1 /\ v \in early
      BY <2>3, <3>3, <3>5
    <3>6. SlotsDistinct'
      <4> SUFFICES ASSUME NEW u \in Words, NEW v \in Words, u # v, trie'[u] # 0, trie'[v] # 0,
                          Abs(trie'[u]) = Abs(trie'[v])
                   PROVE  Abs(trie'[u]) = 1 /\ (u \in early \/ v \in early)
        BY <1>1 DEF SlotsDistinct, Known
      <4>1. CASE u = w
        BY <3>2, <3>5, <4>1
      <4>2. CASE v = w
        BY <3>2, <3>5, <4>2
      <4>3. CASE u # w /\ v # w
        BY <2>6, <3>3, <4>3 DEF DictInv, SlotsDistinct
      <4> QED
        BY <4>1, <4>2, <4>3
    <3> QED
      BY <2>4, <3>4, <3>6
  <2> QED
    BY <1>1, <2>5, <2>6
<1> QED
  BY <1>2, <1>3

(* Disabling and enabling change the sign of a slot, never the slot. *)
LEMMA SignKeepsSlots ==
  ASSUME DictInv, trie' \in [Words -> Int], UNCHANGED << posVec, posT, early >>,
         \A w \in Words : Abs(trie'[w]) = Abs(trie[w])
  PROVE  SlotsInRange' /\ SlotsDistinct'
<1>1. \A w \in Words : trie[w] \in Int /\ trie'[w] \in Int
  BY DEF DictInv, TypeOK
<1>2. Known' = Known
  BY <1>1 DEF Abs, Known
<1>3. \A w \in Known : w \in Words
  BY DEF Known
<1> QED
  BY <1>2, <1>3 DEF DictInv, SlotsInRange, SlotsDistinct

LEMMA DisableOrEnable ==
  ASSUME TypeOK, NEW ws \in SUBSET Words, DisableWords(ws) \/ EnableWords(ws)
  PROVE  /\ trie' \in [Words -> Int]
         /\ \A w \in Words : Abs(trie'[w]) = Abs(trie[w])
<1>1. \A w \in Words : trie[w] \in Int
  BY DEF TypeOK
<1>2. CASE DisableWords(ws)
  BY <1>1, <1>2 DEF DisableWords, Abs
<1>3. CASE EnableWords(ws)
  BY <1>1, <1>3 DEF EnableWords, Abs
<1> QED
  BY <1>2, <1>3

(***************************************************************************)
(* The POS model finds the words that were loaded before it with slot 1,   *)
(* which posVec_ does not have yet.                                        *)
(***************************************************************************)
LEMMA TaggerKeepsSlots ==
  ASSUME DictInv, ~posT, posT', posVec' = << >>, UNCHANGED trie, early' = Known
  PROVE  SlotsInRange' /\ SlotsDistinct'
<1>1. Known' = Known /\ \A w \in Known : Abs(trie'[w]) = 1
  BY DEF DictInv, SlotsInRange, Known
<1> QED
  BY <1>1 DEF SlotsInRange, SlotsDistinct

(* Every step preserves the inductive invariant. *)
LEMMA NextDictInv == DictInv /\ [Next]_vars => DictInv'
<1> SUFFICES ASSUME DictInv, [Next]_vars
             PROVE  DictInv'
  OBVIOUS
<1> USE ChainsAssumption, BlackListsAssumption, MaxLoadsAssumption
<1>0. << >> \in Seq(SUBSET Tags) /\ Known \in SUBSET Words
  BY DEF Known
<1>1. ASSUME NEW load \in BOOLEAN, NEW hasPOS \in BOOLEAN, NEW black \in BlackLists,
             NEW chain \in Chains, LoadModel(load, hasPOS, black, chain)
      PROVE  DictInv'
  <2>1. TypeOK'
    <3>1. trie' = trie /\ posT' \in BOOLEAN /\ segT' \in BOOLEAN /\ reading' \in BOOLEAN
      BY <1>1 DEF LoadModel, StartReading
    <3>2. pending' = chain /\ pending' \in Seq(Seq(Line)) /\ ret' = 0
          /\ blackWords' \in SUBSET Words
      BY <1>1 DEF LoadModel, StartReading, DictInv, TypeOK
    <3>3. loads' \in 0 .. MaxLoads
      BY <1>1 DEF LoadModel, StartReading, DictInv, TypeOK
    <3>4. posVec' \in Seq(SUBSET Tags) /\ early' \in SUBSET Words
      BY <1>0, <1>1 DEF LoadModel, DictInv, TypeOK
    <3> QED
      BY <3>1, <3>2, <3>3, <3>4 DEF DictInv, TypeOK
  <2>2. CASE hasPOS
    <3>1. ~posT /\ posT' /\ posVec' = << >> /\ trie' = trie /\ early' = Known
      BY <1>1, <2>2 DEF LoadModel
    <3> QED
      BY <2>1, <3>1, TaggerKeepsSlots DEF DictInv
  <2>3. CASE ~hasPOS
    <3>1. UNCHANGED << trie, posVec, posT, early >>
      BY <1>1, <2>3 DEF LoadModel, DictInv, TypeOK
    <3> QED
      BY <2>1, <3>1 DEF DictInv, SlotsInRange, SlotsDistinct, Known
  <2> QED
    BY <2>2, <2>3
<1>2. ASSUME NEW chain \in Chains, LoadUserDict(chain) \/ LoadSystemDict(chain)
      PROVE  DictInv'
  <2>1. /\ UNCHANGED << trie, posVec, posT, segT, blackWords, early >>
        /\ reading' = TRUE /\ pending' = chain /\ ret' = 0 /\ loads < MaxLoads /\ loads' = loads + 1
    BY <1>2 DEF LoadUserDict, LoadSystemDict, StartReading, dict, models
  <2>2. TypeOK'
    BY <2>1 DEF DictInv, TypeOK
  <2> QED
    BY <2>1, <2>2 DEF DictInv, SlotsInRange, SlotsDistinct, Known
<1>3. CASE ReadLine
  <2>1. Head(Head(pending)) \in Line /\ pending' \in Seq(Seq(Line))
    BY <1>3, HeadIsLine DEF ReadLine, DictInv
  <2>2. /\ AppendWordPOS(Head(Head(pending)))
        /\ UNCHANGED << posT, segT, blackWords, early, reading, ret, loads >>
    BY <1>3 DEF ReadLine, models
  <2>3. trie' \in [Words -> Int] /\ posVec' \in Seq(SUBSET Tags)
        /\ SlotsInRange' /\ SlotsDistinct'
    BY <2>1, <2>2, AppendKeepsSlots
  <2>4. TypeOK'
    BY <2>1, <2>2, <2>3 DEF DictInv, TypeOK
  <2> QED
    BY <2>3, <2>4 DEF DictInv
<1>4. CASE NextFile \/ EndLoad
  <2>1. /\ UNCHANGED << trie, posVec, posT, segT, blackWords, early, loads >>
        /\ reading' \in BOOLEAN /\ pending' \in Seq(Seq(Line)) /\ ret' \in Nat
    <3>1. pending \in Seq(Seq(Line)) /\ ret \in Nat /\ reading \in BOOLEAN
      BY DEF DictInv, TypeOK
    <3>2. CASE NextFile
      <4>1. pending # << >> /\ pending' = Tail(pending) /\ ret' = ret + 1
        BY <3>2 DEF NextFile
      <4> QED
        BY <3>1, <3>2, <4>1 DEF NextFile, dict, models
    <3>3. CASE EndLoad
      BY <3>1, <3>3 DEF EndLoad, dict, models
    <3> QED
      BY <1>4, <3>2, <3>3
  <2>2. TypeOK'
    BY <2>1 DEF DictInv, TypeOK
  <2> QED
    BY <2>1, <2>2 DEF DictInv, SlotsInRange, SlotsDistinct, Known
<1>5. ASSUME NEW load \in BOOLEAN, NEW black \in BlackLists, LoadStatModel(load, black)
      PROVE  DictInv'
  <2>1. /\ UNCHANGED << trie, posVec, posT, early, reading, pending, ret, loads >>
        /\ segT' \in BOOLEAN /\ blackWords' \in SUBSET Words
    BY <1>5 DEF LoadStatModel, dict, reader, DictInv, TypeOK
  <2>2. TypeOK'
    BY <2>1 DEF DictInv, TypeOK
  <2> QED
    BY <2>1, <2>2 DEF DictInv, SlotsInRange, SlotsDistinct, Known
<1>6. ASSUME NEW ws \in SUBSET Words, DisableWords(ws) \/ EnableWords(ws)
      PROVE  DictInv'
  <2>1. trie' \in [Words -> Int] /\ \A w \in Words : Abs(trie'[w]) = Abs(trie[w])
    BY <1>6, DisableOrEnable DEF DictInv
  <2>2. UNCHANGED << posVec, posT, segT, blackWords, early, reading, pending, ret, loads >>
    BY <1>6 DEF DisableWords, EnableWords, models, reader
  <2>3. SlotsInRange' /\ SlotsDistinct'
    BY <2>1, <2>2, SignKeepsSlots
  <2>4. TypeOK'
    BY <2>1, <2>2 DEF DictInv, TypeOK
  <2> QED
    BY <2>3, <2>4 DEF DictInv
<1>7. CASE LoadPOSModel
  <2>1. /\ ~posT /\ posT' = TRUE /\ posVec' = << >> /\ early' = Known
        /\ UNCHANGED << trie, segT, blackWords, reading, pending, ret, loads >>
    BY <1>7 DEF LoadPOSModel, reader
  <2>2. TypeOK'
    BY <1>0, <2>1 DEF DictInv, TypeOK
  <2> QED
    BY <2>1, <2>2, TaggerKeepsSlots DEF DictInv
<1>8. CASE UNCHANGED vars
  BY <1>8 DEF vars, DictInv, TypeOK, SlotsInRange, SlotsDistinct, Known
<1> QED
  BY <1>1, <1>2, <1>3, <1>4, <1>5, <1>6, <1>7, <1>8 DEF Next, ReadStep

(* The inductive invariant holds of every behaviour. *)
THEOREM DictInvHolds == Spec => []DictInv
  BY InitDictInv, NextDictInv, PTL DEF Spec

(* Every variable of the dictionary keeps its type. *)
THEOREM DictionaryTypes == Spec => []TypeOK
<1>1. DictInv => TypeOK
  BY DEF DictInv
<1> QED
  BY <1>1, DictInvHolds, PTL

(***************************************************************************)
(* In every order of loading, the data of a word is an index of posVec_,   *)
(* whether the word is disabled or not, but for one case: a word that was  *)
(* loaded before the POS model, while no other was added since             *)
(* (CMA_ME_Knowledge.cc:493 and :503-508).                                 *)
(***************************************************************************)
THEOREM SlotsSafe == Spec => []SlotsInRange
<1>1. DictInv => SlotsInRange
  BY DEF DictInv
<1> QED
  BY <1>1, DictInvHolds, PTL

(***************************************************************************)
(* In every order of loading, two words share a slot only if one of them   *)
(* was loaded before the POS model, and then it is slot 1: tags appended   *)
(* to any other word by a later line are its own                           *)
(* (CMA_ME_Knowledge.cc:493-508).                                          *)
(***************************************************************************)
THEOREM SlotsNeverShared == Spec => []SlotsDistinct
<1>1. DictInv => SlotsDistinct
  BY DEF DictInv
<1> QED
  BY <1>1, DictInvHolds, PTL
-----------------------------------------------------------------------------
(***************************************************************************)
(* The refinement: Knowledge implements Lexicon.                           *)
(***************************************************************************)

(* A step that leaves the trie, the slots and posT_ alone is a stutter. *)
LEMMA DictUnchanged ==
  ASSUME UNCHANGED dict
  PROVE  UNCHANGED Lex!lexVars
  BY DEF dict, Lex!lexVars, statusBar, tagsBar, taggingBar, jointBar, isExistWord, Slot

(* What the abstract dictionary is, word by word. *)
Bars ==
  /\ posVec \in Seq(SUBSET Tags)
  /\ \A w \in Words : /\ trie[w] \in Int /\ Slot(w) \in Nat
                      /\ trie[w] > 0 => Slot(w) = trie[w]
                      /\ trie[w] = 0 <=> Slot(w) = 0
  /\ \A w \in Words : statusBar[w] = IF trie[w] = 0 THEN "absent"
                        ELSE IF trie[w] > 0 THEN "enabled" ELSE "disabled"
  /\ \A w \in Words : tagsBar[w] = IF posT /\ Slot(w) \in 1 .. Len(posVec)
                                     THEN posVec[Slot(w)] ELSE {}
  /\ posT => (taggingBar = "empty" <=> Len(posVec) = 0)
  /\ posT => (taggingBar = "on" <=> Len(posVec) # 0)

LEMMA BarsHold == TypeOK => Bars
<1> SUFFICES ASSUME TypeOK PROVE Bars
  OBVIOUS
<1>1. posVec \in Seq(SUBSET Tags) /\ trie \in [Words -> Int]
  BY DEF TypeOK
<1>2. \A w \in Words : /\ trie[w] \in Int /\ Slot(w) \in Nat
                       /\ trie[w] > 0 => Slot(w) = trie[w]
                       /\ trie[w] = 0 <=> Slot(w) = 0
  BY <1>1 DEF Slot, Abs
<1>3. DOMAIN posVec = 1 .. Len(posVec)
  BY <1>1
<1>4. \A w \in Words : tagsBar[w] = IF posT /\ Slot(w) \in 1 .. Len(posVec)
                                      THEN posVec[Slot(w)] ELSE {}
  BY <1>3 DEF tagsBar
<1>5. /\ posT => (taggingBar = "empty" <=> Len(posVec) = 0)
      /\ posT => (taggingBar = "on" <=> Len(posVec) # 0)
  BY <1>1, NoSlots DEF taggingBar
<1> QED
  BY <1>1, <1>2, <1>4, <1>5 DEF Bars, statusBar, isExistWord

LEMMA BarsHoldNext == TypeOK' => Bars'
  BY BarsHold, PTL

(* A line of a word that is enabled changes the tags of its slot. *)
LEMMA KnownRefines ==
  ASSUME DictInv, DictInv', NEW one \in Line, AppendWordPOS(one), UNCHANGED << posT, early >>,
         trie[one.word] > 0
  PROVE  Lex!AddToKnown(one.word, one.pos)
<1> DEFINE w == one.word
<1>0. w \in Words /\ one.pos \in SUBSET Tags /\ posT \in BOOLEAN /\ posT' = posT
  BY DEF Line, DictInv, TypeOK
<1>1. trie' = trie /\ (~posT => posVec' = posVec) /\ (posT => AddTags(trie[w], one.pos))
  BY DEF AppendWordPOS
<1>2. TypeOK /\ TypeOK'
  BY DEF DictInv
<1>3. statusBar' = statusBar /\ statusBar[w] = "enabled"
  BY <1>0, <1>1, <1>2, BarsHold, BarsHoldNext DEF Bars, statusBar, isExistWord
<1>4. jointBar' = jointBar /\ \A v \in Words : Slot(v)' = Slot(v)
  BY <1>0, <1>1 DEF jointBar, Slot
<1>5. CASE ~posT
  <2>1. taggingBar = "off" /\ taggingBar' = "off" /\ tagsBar' = tagsBar
    BY <1>0, <1>1, <1>5 DEF taggingBar, tagsBar
  <2>2. tagsBar = [v \in Words |-> tagsBar[v]]
    BY DEF tagsBar
  <2> QED
    BY <1>3, <1>4, <2>1, <2>2 DEF Lex!AddToKnown
<1>6. CASE posT
  <2>1. /\ Len(posVec') = Len(posVec) /\ Len(posVec) \in Nat
        /\ \A i \in 1 .. Len(posVec) :
             posVec'[i] = IF i = trie[w] THEN posVec[i] \union one.pos ELSE posVec[i]
    <3>1. posVec \in Seq(SUBSET Tags) /\ trie[w] \in Int /\ AddTags(trie[w], one.pos)
      BY <1>0, <1>1, <1>2, <1>6 DEF TypeOK
    <3>2. Len(posVec) \in Nat
      BY <3>1
    <3> HIDE DEF w
    <3>3. Len(posVec') = Len(posVec)
      BY <1>0, <3>1, AddTagsKeepsSlots
    <3>4. \A i \in 1 .. Len(posVec) :
            posVec'[i] = IF i = trie[w] THEN posVec[i] \union one.pos ELSE posVec[i]
      BY <1>0, <3>1, AddTagsKeepsSlots
    <3> QED
      BY <3>2, <3>3, <3>4
  <2>2. taggingBar' = taggingBar
    BY <1>0, <1>2, <1>6, <2>1, NoSlots DEF taggingBar, TypeOK
  <2>3. \A v \in Words : tagsBar'[v] = IF Slot(v) \in 1 .. Len(posVec) THEN posVec'[Slot(v)] ELSE {}
    <3>1. \A v \in Words : tagsBar'[v] = IF posT' /\ Slot(v)' \in 1 .. Len(posVec')
                                           THEN posVec'[Slot(v)'] ELSE {}
      BY <1>2, BarsHold, BarsHoldNext DEF Bars
    <3> QED
      BY <1>0, <1>4, <1>6, <2>1, <3>1
  <2>4. \A v \in Words : tagsBar[v] = IF Slot(v) \in 1 .. Len(posVec) THEN posVec[Slot(v)] ELSE {}
    BY <1>2, <1>6, BarsHold, BarsHoldNext DEF Bars
  <2>5. Slot(w) = trie[w]
    BY <1>0, <1>2, BarsHold, BarsHoldNext DEF Bars
  <2>6. ASSUME NEW v \in Words
        PROVE  tagsBar'[v] = IF taggingBar = "on" /\ (v = w \/ { v, w } \subseteq jointBar)
                               THEN tagsBar[v] \union one.pos ELSE tagsBar[v]
    <3>1. CASE Len(posVec) = 0
      <4>1. taggingBar # "on"
        BY <1>2, <1>6, <3>1, BarsHold, BarsHoldNext DEF Bars
      <4>2. Slot(v) \notin 1 .. Len(posVec)
        BY <3>1
      <4> QED
        BY <2>3, <2>4, <4>1, <4>2
    <3>2. CASE Len(posVec) # 0
      <4>1. taggingBar = "on"
        BY <1>2, <1>6, <3>2, BarsHold, BarsHoldNext DEF Bars
      <4>2. ASSUME NEW x \in Words, trie[x] # 0
            PROVE  Slot(x) \in 1 .. Len(posVec)
        BY <1>2, <1>6, <3>2, <4>2, NoSlots DEF DictInv, SlotsInRange, Known, Slot, TypeOK
      <4>3. Slot(w) \in 1 .. Len(posVec)
        BY <1>0, <4>2
      <4>4. v # w => (Slot(v) = Slot(w) <=> { v, w } \subseteq jointBar)
        <5>1. ASSUME v # w, Slot(v) = Slot(w) PROVE Slot(v) = 1
          <6>1. trie[v] # 0
            BY <1>0, <1>2, <5>1, BarsHold, BarsHoldNext DEF Bars
          <6>2. v \in Known /\ w \in Known
            BY <1>0, <6>1 DEF Known
          <6> QED
            BY <1>6, <5>1, <6>2 DEF DictInv, SlotsDistinct, Slot
        <5> QED
          BY <1>0, <1>6, <5>1 DEF jointBar
      <4>5. CASE Slot(v) = Slot(w)
        BY <2>1, <2>3, <2>4, <2>5, <4>1, <4>3, <4>4, <4>5
      <4>6. CASE Slot(v) # Slot(w)
        BY <2>1, <2>3, <2>4, <2>5, <4>4, <4>6
      <4> QED
        BY <4>5, <4>6
    <3> QED
      BY <3>1, <3>2
  <2>7. tagsBar' = [v \in Words |-> tagsBar'[v]]
    BY DEF tagsBar
  <2>8. tagsBar' = [v \in Words |-> IF taggingBar = "on" /\ (v = w \/ { v, w } \subseteq jointBar)
                                      THEN tagsBar[v] \union one.pos ELSE tagsBar[v]]
    BY <2>6, <2>7, Zenon
  <2> QED
    BY <1>3, <1>4, <2>2, <2>8 DEF Lex!AddToKnown
<1> QED
  BY <1>0, <1>5, <1>6

(* A line of any other word makes a slot of its own, if the words that  *)
(* were there before the POS model do not have it already.              *)
LEMMA NewRefines ==
  ASSUME DictInv, DictInv', NEW one \in Line, AppendWordPOS(one), UNCHANGED << posT, early >>,
         ~(trie[one.word] > 0)
  PROVE  Lex!AddNew(one.word, one.pos)
<1> DEFINE w == one.word
<1>0. w \in Words /\ one.pos \in SUBSET Tags /\ posT \in BOOLEAN /\ posT' = posT
  BY DEF Line, DictInv, TypeOK
<1>1. /\ trie' = [trie EXCEPT ![w] = IF posT THEN NewSlot ELSE 1]
      /\ posVec' = IF posT THEN Append(posVec, one.pos) ELSE posVec
  BY DEF AppendWordPOS
<1>2. TypeOK /\ TypeOK'
  BY DEF DictInv
<1>3. NewSlot = Len(posVec) + 1 /\ Len(posVec) \in Nat
  BY <1>2, BarsHold, BarsHoldNext DEF Bars, NewSlot
<1>4. trie'[w] > 0 /\ \A v \in Words : v # w => trie'[v] = trie[v] /\ Slot(v)' = Slot(v)
  BY <1>0, <1>1, <1>2, <1>3 DEF TypeOK, Slot
<1>5. statusBar[w] # "enabled"
  BY <1>0 DEF statusBar, isExistWord
<1>6. statusBar' = [statusBar EXCEPT ![w] = "enabled"]
  <2>1. statusBar'[w] = "enabled"
    BY <1>0, <1>2, <1>4, BarsHold, BarsHoldNext DEF Bars, statusBar, isExistWord, TypeOK
  <2>2. \A v \in Words : v # w => statusBar'[v] = statusBar[v]
    BY <1>4 DEF statusBar, isExistWord
  <2>3. statusBar' = [v \in Words |-> statusBar'[v]] /\ statusBar = [v \in Words |-> statusBar[v]]
    BY DEF statusBar
  <2> HIDE DEF w
  <2> QED
    BY <1>0, <2>1, <2>2, <2>3
<1>7. CASE ~posT
  <2>1. /\ taggingBar = "off" /\ taggingBar' = "off" /\ tagsBar' = tagsBar
        /\ jointBar = {} /\ jointBar' = {}
    BY <1>0, <1>7 DEF taggingBar, tagsBar, jointBar
  <2>2. tagsBar = [v \in Words |-> tagsBar[v]]
    BY DEF tagsBar
  <2> QED
    BY <1>5, <1>6, <2>1, <2>2 DEF Lex!AddNew
<1>8. CASE posT
  <2>1. /\ Len(posVec') = Len(posVec) + 1
        /\ posVec'[Len(posVec) + 1] = one.pos
        /\ \A i \in 1 .. Len(posVec) : posVec'[i] = posVec[i]
    BY <1>0, <1>1, <1>2, <1>8 DEF TypeOK
  <2>2. Slot(w)' = Len(posVec) + 1
    <3>1. trie'[w] = Len(posVec) + 1
      BY <1>0, <1>1, <1>2, <1>3, <1>8 DEF TypeOK
    <3> QED
      BY <1>3, <3>1 DEF Slot, Abs
  <2>3. taggingBar' = "on" /\ taggingBar # "off"
    BY <1>0, <1>2, <1>3, <1>8, <2>1, BarsHold, BarsHoldNext DEF Bars, taggingBar
  <2>4. \A v \in Words : tagsBar'[v] = IF Slot(v)' \in 1 .. Len(posVec) + 1
                                         THEN posVec'[Slot(v)'] ELSE {}
    <3>1. \A v \in Words : tagsBar'[v] = IF posT' /\ Slot(v)' \in 1 .. Len(posVec')
                                           THEN posVec'[Slot(v)'] ELSE {}
      BY <1>2, BarsHold, BarsHoldNext DEF Bars
    <3> QED
      BY <1>0, <1>8, <2>1, <3>1
  <2>5. \A v \in Words : tagsBar[v] = IF Slot(v) \in 1 .. Len(posVec) THEN posVec[Slot(v)] ELSE {}
    BY <1>2, <1>8, BarsHold, BarsHoldNext DEF Bars
  <2>6. ASSUME NEW v \in Words, v # w
        PROVE  /\ Slot(v) \in Nat /\ Slot(v)' = Slot(v)
               /\ Slot(v) = 0 \/ Slot(v) \in 1 .. Len(posVec) \/ (Len(posVec) = 0 /\ Slot(v) = 1)
    <3>1. Slot(v) \in Nat /\ Slot(v)' = Slot(v)
      BY <1>2, <1>4, <2>6, BarsHold, BarsHoldNext DEF Bars
    <3>2. CASE trie[v] = 0
      BY <1>2, <3>1, <3>2, BarsHold, BarsHoldNext DEF Bars
    <3>3. CASE trie[v] # 0
      BY <1>2, <1>8, <3>1, <3>3, NoSlots DEF DictInv, SlotsInRange, Known, Slot, TypeOK
    <3> QED
      BY <3>2, <3>3
  <2>7. jointBar = { v \in Words : Slot(v) = 1 } /\ jointBar' = { v \in Words : Slot(v)' = 1 }
    BY <1>0, <1>8 DEF jointBar
  <2>8. ASSUME NEW v \in Words
        PROVE  tagsBar'[v] = IF v = w \/ (taggingBar = "empty" /\ v \in jointBar)
                               THEN one.pos ELSE tagsBar[v]
    <3>1. CASE v = w
      BY <1>3, <2>1, <2>2, <2>4, <3>1
    <3>2. CASE v # w /\ taggingBar = "empty" /\ v \in jointBar
      <4>1. Len(posVec) = 0 /\ Slot(v)' = 1
        BY <1>2, <1>8, <2>6, <2>7, <3>2, BarsHold, BarsHoldNext DEF Bars
      <4> QED
        BY <2>1, <2>4, <3>2, <4>1
    <3>3. CASE v # w /\ ~(taggingBar = "empty" /\ v \in jointBar)
      <4>1. Slot(v) \in 1 .. Len(posVec) \/ Slot(v) = 0
        BY <1>2, <1>8, <2>6, <2>7, <3>3, BarsHold, BarsHoldNext DEF Bars
      <4>2. CASE Slot(v) = 0
        BY <2>4, <2>5, <2>6, <3>3, <4>2
      <4>3. CASE Slot(v) \in 1 .. Len(posVec)
        BY <1>3, <2>1, <2>4, <2>5, <2>6, <3>3, <4>3
      <4> QED
        BY <4>1, <4>2, <4>3
    <3> QED
      BY <3>1, <3>2, <3>3
  <2>9. tagsBar' = [v \in Words |-> tagsBar'[v]]
    BY DEF tagsBar
  <2>10. tagsBar' = [v \in Words |-> IF taggingBar # "off" /\ (v = w \/ (taggingBar = "empty" /\ v \in jointBar))
                                       THEN one.pos ELSE tagsBar[v]]
    BY <2>3, <2>8, <2>9, Zenon
  <2>11. jointBar' = IF taggingBar = "empty" THEN jointBar \union { w } ELSE jointBar \ { w }
    <3>1. ASSUME NEW v \in Words, v # w PROVE v \in jointBar' <=> v \in jointBar
      BY <2>6, <2>7, <3>1
    <3>2. w \in jointBar' <=> taggingBar = "empty"
      BY <1>0, <1>2, <1>3, <1>8, <2>2, <2>7, BarsHold, BarsHoldNext DEF Bars
    <3>3. jointBar \in SUBSET Words /\ jointBar' \in SUBSET Words
      BY <2>7
    <3> HIDE DEF w
    <3> QED
      BY <1>0, <3>1, <3>2, <3>3
  <2> QED
    BY <1>5, <1>6, <2>3, <2>10, <2>11 DEF Lex!AddNew
<1> QED
  BY <1>0, <1>7, <1>8

(* disableWords and enableWords change the status of their words only. *)
LEMMA DisableRefines ==
  ASSUME DictInv, NEW ws \in SUBSET Words, DisableWords(ws)
  PROVE  Lex!Disable(ws)
<1>1. trie' \in [Words -> Int] /\ \A w \in Words : Slot(w)' = Slot(w)
  BY DisableOrEnable DEF DictInv, Slot
<1>2. trie \in [Words -> Int] /\ posVec' = posVec /\ posT' = posT
  BY DEF DictInv, TypeOK, DisableWords
<1>3. \A w \in Words : trie'[w] = IF w \in ws /\ trie[w] > 0 THEN -trie[w] ELSE trie[w]
  BY DEF DisableWords
<1>4. statusBar' = [w \in Words |-> IF w \in ws /\ statusBar[w] = "enabled"
                                      THEN "disabled" ELSE statusBar[w]]
  BY <1>1, <1>2, <1>3 DEF statusBar, isExistWord
<1>5. tagsBar' = tagsBar /\ taggingBar' = taggingBar /\ jointBar' = jointBar
  BY <1>1, <1>2 DEF tagsBar, taggingBar, jointBar
<1> QED
  BY <1>4, <1>5 DEF Lex!Disable

LEMMA EnableRefines ==
  ASSUME DictInv, NEW ws \in SUBSET Words, EnableWords(ws)
  PROVE  Lex!Enable(ws)
<1>1. trie' \in [Words -> Int] /\ \A w \in Words : Slot(w)' = Slot(w)
  BY DisableOrEnable DEF DictInv, Slot
<1>2. trie \in [Words -> Int] /\ posVec' = posVec /\ posT' = posT
  BY DEF DictInv, TypeOK, EnableWords
<1>3. \A w \in Words : trie'[w] = IF w \in ws /\ trie[w] < 0 THEN -trie[w] ELSE trie[w]
  BY DEF EnableWords
<1>4. statusBar' = [w \in Words |-> IF w \in ws /\ statusBar[w] = "disabled"
                                      THEN "enabled" ELSE statusBar[w]]
  BY <1>1, <1>2, <1>3 DEF statusBar, isExistWord
<1>5. tagsBar' = tagsBar /\ taggingBar' = taggingBar /\ jointBar' = jointBar
  BY <1>1, <1>2 DEF tagsBar, taggingBar, jointBar
<1> QED
  BY <1>4, <1>5 DEF Lex!Enable

(* The words that are there when the POS model comes are joined. *)
LEMMA TaggerRefines ==
  ASSUME DictInv, ~posT, posT', posVec' = << >>, UNCHANGED trie
  PROVE  Lex!StartTagging
<1>1. taggingBar = "off" /\ taggingBar' = "empty"
  BY DEF taggingBar
<1>2. statusBar' = statusBar
  BY DEF statusBar, isExistWord
<1>3. tagsBar' = tagsBar
  <2>1. DOMAIN posVec' = {}
    OBVIOUS
  <2> QED
    BY <2>1 DEF tagsBar
<1>4. jointBar' = { w \in Words : statusBar[w] # "absent" }
  <2>1. TypeOK
    BY DEF DictInv
  <2>2. \A w \in Words : Slot(w)' = Slot(w) /\ (statusBar[w] # "absent" <=> trie[w] # 0)
    BY DEF Slot, statusBar, isExistWord
  <2>3. \A w \in Words : trie[w] # 0 <=> Slot(w) = 1
    BY <2>1, BarsHold DEF Bars, DictInv, SlotsInRange, Known, Slot
  <2> QED
    BY <2>2, <2>3 DEF jointBar
<1> QED
  BY <1>1, <1>2, <1>3, <1>4 DEF Lex!StartTagging

(***************************************************************************)
(* Knowledge implements Lexicon in every order of loading: a dictionary    *)
(* line changes the tags of its own word, and of others only if they came  *)
(* before the POS model; a word that is disabled and enabled again has the *)
(* tags it had before.                                                     *)
(***************************************************************************)
THEOREM KnowledgeImplementsLexicon == Spec => ImplementsLexicon
<1>1. Init => Lex!Init
  BY DEF Init, Lex!Init, statusBar, tagsBar, taggingBar, jointBar
<1>2. DictInv /\ DictInv' /\ [Next]_vars => [Lex!Next]_(Lex!lexVars)
  <2> SUFFICES ASSUME DictInv, DictInv', [Next]_vars
               PROVE  Lex!Next \/ UNCHANGED Lex!lexVars
    OBVIOUS
  <2>1. ASSUME NEW load \in BOOLEAN, NEW hasPOS \in BOOLEAN, NEW black \in BlackLists,
               NEW chain \in Chains, LoadModel(load, hasPOS, black, chain)
        PROVE  Lex!Next \/ UNCHANGED Lex!lexVars
    <3>1. CASE hasPOS
      <4>1. ~posT /\ posT' /\ posVec' = << >> /\ trie' = trie
        BY <2>1, <3>1 DEF LoadModel
      <4> QED
        BY <4>1, TaggerRefines DEF Lex!Next
    <3>2. CASE ~hasPOS
      <4>1. UNCHANGED dict
        BY <2>1, <3>2 DEF LoadModel, dict, DictInv, TypeOK
      <4> QED
        BY <4>1, DictUnchanged
    <3> QED
      BY <3>1, <3>2
  <2>2. ASSUME NEW chain \in Chains, LoadUserDict(chain) \/ LoadSystemDict(chain)
        PROVE  UNCHANGED Lex!lexVars
    BY <2>2, DictUnchanged DEF LoadUserDict, LoadSystemDict
  <2>3. CASE ReadLine
    <3>1. Head(Head(pending)) \in Line
      BY <2>3, HeadIsLine DEF ReadLine, DictInv
    <3>2. AppendWordPOS(Head(Head(pending))) /\ UNCHANGED << posT, early >>
      BY <2>3 DEF ReadLine, models
    <3>3. \/ Lex!AddToKnown(Head(Head(pending)).word, Head(Head(pending)).pos)
          \/ Lex!AddNew(Head(Head(pending)).word, Head(Head(pending)).pos)
      BY <3>1, <3>2, KnownRefines, NewRefines
    <3> QED
      BY <3>1, <3>3 DEF Lex!Next, Line
  <2>4. CASE NextFile \/ EndLoad
    BY <2>4, DictUnchanged DEF NextFile, EndLoad
  <2>5. ASSUME NEW load \in BOOLEAN, NEW black \in BlackLists, LoadStatModel(load, black)
        PROVE  UNCHANGED Lex!lexVars
    BY <2>5, DictUnchanged DEF LoadStatModel
  <2>6. ASSUME NEW ws \in SUBSET Words, DisableWords(ws) \/ EnableWords(ws)
        PROVE  Lex!Next
    BY <2>6, DisableRefines, EnableRefines DEF Lex!Next
  <2>7. CASE LoadPOSModel
    BY <2>7, TaggerRefines DEF LoadPOSModel, Lex!Next
  <2>8. CASE UNCHANGED vars
    BY <2>8, DictUnchanged DEF vars, dict
  <2> QED
    BY <2>1, <2>2, <2>3, <2>4, <2>5, <2>6, <2>7, <2>8 DEF Next, ReadStep
<1> QED
  BY <1>1, <1>2, DictInvHolds, PTL DEF Spec, ImplementsLexicon, Lex!Spec

-----------------------------------------------------------------------------
(***************************************************************************)
(* The training: theorems about TrainSpec.                                 *)
(***************************************************************************)
Dict == Seq(Words \cup { NoWord, Blank })

(* The part of the knowledge that matters: the trie and what is read. *)
Types ==
  /\ trie \in [Words -> Int]
  /\ posVec \in Seq(SUBSET Tags)
  /\ pending \in Seq(Seq(Line))

(* The words to be enabled again are all that differ. *)
Hidden ==
  /\ loaded \in [Words -> Nat]
  /\ \A w \in Words : trie[w] = IF w \in disabledWords THEN -loaded[w] ELSE loaded[w]
  /\ phase \in { "load", "disable" } => disabledWords = {}
  /\ phase = "analyse" => disabledWords = { line }
  /\ phase = "ask" => line \in disabledWords \cup { NoWord }

(* How many dictionaries were opened and how many lines of the last read. *)
opened == Len(given) - Len(dicts)
read == Len(given[opened]) - Len(lines)

Inside == phase \in { "read", "disable", "analyse" }

Progress ==
  /\ given \in Seq(Dict \cup { NoFile })
  /\ dicts \in Seq(Dict \cup { NoFile })
  /\ Len(dicts) <= Len(given)
  /\ \A i \in 1 .. Len(dicts) : dicts[i] = given[opened + i]
  /\ phase = "load" => opened = 0
  /\ phase = "done" => dicts = << >>
  /\ Inside =>
       /\ opened >= 1 /\ given[opened] # NoFile /\ given[opened] \in Dict
       /\ lines \in Dict /\ Len(lines) <= Len(given[opened])
       /\ \A i \in 1 .. Len(lines) : lines[i] = given[opened][read + i]
  /\ phase \in { "disable", "analyse" } =>
       read >= 1 /\ line = given[opened][read] /\ line # NoWord

(* The lines that were trained, and those of them a count should hold. *)
Taken(p) ==
  \/ p[1] < opened
  \/ p[1] = opened /\ (Inside => p[2] <= IF phase = "read" THEN read ELSE read - 1)

Counted(n) == { p \in Occurrences(n) : Taken(p) }
Missing == { d \in 1 .. opened : given[d] = NoFile }

Counts ==
  /\ count \in [AllNames -> Nat]
  /\ \A n \in AllNames : IsFiniteSet(Counted(n)) /\ count[n] = Cardinality(Counted(n))
  /\ IsFiniteSet(Missing) /\ errors = Cardinality(Missing)

Final == phase = "done" => model = { n \in AllNames : Cardinality(Occurrences(n)) > MinCount }

IInv == Types /\ Hidden /\ Progress /\ Counts /\ Final
-----------------------------------------------------------------------------
LEMMA InitIInv == TrainInit => IInv
<1> SUFFICES ASSUME TrainInit PROVE IInv
  OBVIOUS
<1>1. /\ trie = [w \in Words |-> 0] /\ posVec = << >> /\ pending = << >> /\ loaded = trie
      /\ phase = "load" /\ given \in DictLists /\ dicts = given /\ disabledWords = {}
      /\ count = [n \in AllNames |-> 0] /\ errors = 0
  BY DEF TrainInit, Init
<1>2. << >> \in Seq(SUBSET Tags) /\ << >> \in Seq(Seq(Line))
  OBVIOUS
<1>3. Types
  BY <1>1, <1>2 DEF Types
<1>4. Hidden
  BY <1>1 DEF Hidden
<1>5. given \in Seq(Dict \cup { NoFile }) /\ Len(given) \in Nat
  BY <1>1, DictListsAssumption DEF Dict
<1>6. opened = 0
  BY <1>1, <1>5 DEF opened
<1>7. Progress
  BY <1>1, <1>5, <1>6 DEF Progress, Inside
<1>8. \A n \in AllNames : Counted(n) = {}
  <2> SUFFICES ASSUME NEW n \in AllNames, NEW p \in Occurrences(n) PROVE ~Taken(p)
    BY DEF Counted
  <2>1. p[1] \in DOMAIN given
    BY DEF Occurrences, Trained
  <2>2. p[1] \in Int /\ p[1] >= 1
    BY <1>5, <2>1
  <2> QED
    BY <1>6, <2>2 DEF Taken
<1>9. Missing = {}
  BY <1>6 DEF Missing
<1>10. Counts
  BY <1>1, <1>8, <1>9, FS_EmptySet DEF Counts
<1> QED
  BY <1>1, <1>3, <1>4, <1>7, <1>10 DEF IInv, Final
-----------------------------------------------------------------------------
(* The trie, as loadModel fills it and as words are hidden in it.          *)

LEMMA AppendTypes ==
  ASSUME Types, NEW l \in Line, AppendWordPOS(l)
  PROVE  /\ posVec' \in Seq(SUBSET Tags)
         /\ trie' \in [Words -> Int]
         /\ \A w \in Words : trie'[w] >= 0 \/ trie'[w] = trie[w]
<1>1. l.word \in Words /\ l.pos \in SUBSET Tags
  BY DEF Line
<1>2. trie \in [Words -> Int] /\ posVec \in Seq(SUBSET Tags) /\ Len(posVec) \in Nat
  BY DEF Types
<1>3. CASE trie[l.word] > 0
  <2>1. trie' = trie /\ (AddTags(trie[l.word], l.pos) \/ posVec' = posVec)
    BY <1>3 DEF AppendWordPOS
  <2> QED
    BY <1>1, <1>2, <2>1, AddTagsKeepsSlots
<1>4. CASE ~(trie[l.word] > 0)
  <2>1. /\ trie' = [trie EXCEPT ![l.word] = IF posT THEN Len(posVec) + 1 ELSE 1]
        /\ posVec' = IF posT THEN Append(posVec, l.pos) ELSE posVec
    BY <1>4 DEF AppendWordPOS, NewSlot
  <2> QED
    BY <1>1, <1>2, <2>1
<1> QED
  BY <1>3, <1>4

LEMMA LoadTypes ==
  ASSUME Types, Hidden, Load
  PROVE  Types' /\ loaded' = trie' /\ \A w \in Words : trie'[w] >= 0
<1>0. phase = "load" /\ loaded' = trie' /\ \A w \in Words : trie[w] \in Nat
  BY DEF Load, Hidden
<1>1. ASSUME NEW hasPOS \in BOOLEAN, NEW black \in BlackLists, NEW chain \in Chains,
             LoadModel(TRUE, hasPOS, black, chain)
      PROVE  Types' /\ UNCHANGED trie
  <2>1. chain \in Seq(Seq(Line)) /\ << >> \in Seq(SUBSET Tags)
    BY ChainsAssumption
  <2>2. trie' = trie /\ pending' = chain /\ (posVec' = << >> \/ posVec' = posVec)
    BY <1>1 DEF LoadModel, StartReading
  <2> QED
    BY <2>1, <2>2 DEF Types
<1>2. CASE ReadLine
  <2>1. /\ reading /\ pending # << >> /\ Head(pending) # << >>
        /\ AppendWordPOS(Head(Head(pending)))
        /\ pending' = [pending EXCEPT ![1] = Tail(@)]
    BY <1>2 DEF ReadLine
  <2>2. pending \in Seq(Seq(Line)) /\ Head(pending) = pending[1] /\ pending[1] \in Seq(Line)
    BY <2>1 DEF Types
  <2>3. Head(Head(pending)) \in Line /\ Tail(pending[1]) \in Seq(Line)
    BY <2>1, <2>2
  <2>4. pending' \in Seq(Seq(Line))
    BY <2>1, <2>2, <2>3
  <2> QED
    BY <1>0, <2>1, <2>3, <2>4, AppendTypes DEF Types
<1>3. CASE NextFile
  <2>1. pending \in Seq(Seq(Line)) /\ pending # << >> /\ pending' = Tail(pending)
        /\ UNCHANGED << trie, posVec >>
    BY <1>3 DEF NextFile, dict, Types
  <2>2. pending' \in Seq(Seq(Line))
    BY <2>1
  <2> QED
    BY <1>0, <2>1, <2>2 DEF Types
<1>4. CASE EndLoad
  <2>1. UNCHANGED << trie, posVec, pending >>
    BY <1>4 DEF EndLoad, dict
  <2> QED
    BY <1>0, <2>1 DEF Types
<1>5. CASE \E hasPOS \in BOOLEAN, black \in BlackLists, chain \in Chains :
             LoadModel(TRUE, hasPOS, black, chain)
  <2>1. Types' /\ UNCHANGED trie
    BY <1>1, <1>5, Zenon
  <2> QED
    BY <1>0, <2>1
<1>6. CASE ReadStep
  BY <1>2, <1>3, <1>4, <1>6 DEF ReadStep
<1> QED
  BY <1>5, <1>6, Zenon DEF Load

LEMMA EnableRestores ==
  ASSUME Types, Hidden, EnableWords(disabledWords)
  PROVE  Types' /\ \A w \in Words : trie'[w] = loaded[w]
<1>1. /\ trie' = [w \in Words |-> IF w \in disabledWords /\ trie[w] < 0 THEN -trie[w] ELSE trie[w]]
      /\ UNCHANGED << posVec, pending >>
  BY DEF EnableWords, reader
<1> QED
  BY <1>1 DEF Types, Hidden

LEMMA DisableHides ==
  ASSUME Types, Hidden, NEW ws, disabledWords \subseteq ws, DisableWords(ws)
  PROVE  Types' /\ \A w \in Words : trie'[w] = IF w \in ws THEN -loaded[w] ELSE loaded[w]
<1>1. /\ trie' = [w \in Words |-> IF w \in ws /\ trie[w] > 0 THEN -trie[w] ELSE trie[w]]
      /\ UNCHANGED << posVec, pending >>
  BY DEF DisableWords, reader
<1>2. Types'
  BY <1>1 DEF Types
<1>3. ASSUME NEW w \in Words PROVE trie'[w] = IF w \in ws THEN -loaded[w] ELSE loaded[w]
  <2>1. /\ trie[w] = IF w \in disabledWords THEN -loaded[w] ELSE loaded[w]
        /\ loaded[w] \in Nat
        /\ trie'[w] = IF w \in ws /\ trie[w] > 0 THEN -trie[w] ELSE trie[w]
    BY <1>1 DEF Hidden
  <2> QED
    BY <2>1
<1> QED
  BY <1>2, <1>3

(* What is hidden, after every step. *)
LEMMA HiddenStep ==
  ASSUME Types, Hidden, [TrainNext \/ Ask]_allVars
  PROVE  Types' /\ Hidden'
<1> USE DEF Hidden
<1>1. CASE Load
  <2>1. UNCHANGED disabledWords /\ phase = "load" /\ phase' \in { "open", "load" }
    BY <1>1 DEF Load, work
  <2>2. Types' /\ loaded' = trie' /\ \A w \in Words : trie'[w] >= 0
    BY <1>1, LoadTypes
  <2> QED
    BY <2>1, <2>2 DEF Types
<1>2. CASE OpenDict
  BY <1>2 DEF OpenDict, knowledge, history, Types
<1>3. CASE CloseDict
  BY <1>3 DEF CloseDict, knowledge, history, work, Types
<1>4. CASE SkipEmptyLine
  BY <1>4 DEF SkipEmptyLine, knowledge, history, Types
<1>5. CASE EnablePrevious
  <2>1. phase' = "disable" /\ disabledWords' = {} /\ UNCHANGED loaded
    BY <1>5 DEF EnablePrevious, history
  <2>2. Types' /\ \A w \in Words : trie'[w] = loaded[w]
    <3>1. CASE disabledWords = {}
      BY <1>5, <3>1 DEF EnablePrevious, knowledge, Types
    <3>2. CASE disabledWords # {}
      BY <1>5, <3>2, EnableRestores DEF EnablePrevious
    <3> QED
      BY <3>1, <3>2
  <2> QED
    BY <2>1, <2>2
<1>6. CASE DisableLine
  <2>1. /\ phase = "disable" /\ phase' = "analyse" /\ disabledWords' = disabledWords \union { line }
        /\ DisableWords(disabledWords') /\ UNCHANGED << loaded, line >>
    BY <1>6 DEF DisableLine, history
  <2>2. Types' /\ \A w \in Words : trie'[w] = IF w \in disabledWords' THEN -loaded[w] ELSE loaded[w]
    BY <2>1, DisableHides
  <2> QED
    BY <2>1, <2>2
<1>7. CASE TrainLine
  BY <1>7 DEF TrainLine, knowledge, history, work, Types
<1>8. CASE SaveModel
  BY <1>8 DEF SaveModel, knowledge, history, work, Types
<1>9. CASE StartAsking
  BY <1>9 DEF StartAsking, history, Types
<1>10. ASSUME NEW w \in Words, isPossibleWord(w) PROVE Types' /\ Hidden'
  <2>1. /\ phase = "ask" /\ phase' = "ask" /\ disabledWords' = disabledWords \union { w }
        /\ DisableWords(disabledWords') /\ line' = w /\ UNCHANGED loaded
    BY <1>10 DEF isPossibleWord, history
  <2>2. Types' /\ \A v \in Words : trie'[v] = IF v \in disabledWords' THEN -loaded[v] ELSE loaded[v]
    BY <2>1, DisableHides
  <2> QED
    BY <2>1, <2>2
<1>11. CASE UNCHANGED allVars
  BY <1>11 DEF allVars, knowledge, history, work, Types
<1> QED
  BY <1>1, <1>2, <1>3, <1>4, <1>5, <1>6, <1>7, <1>8, <1>9, <1>10, <1>11 DEF TrainNext, Ask
-----------------------------------------------------------------------------
(* What was read, after every step. *)

(* A step that reads nothing. *)
LEMMA SameRead ==
  ASSUME UNCHANGED << given, dicts, lines >>
  PROVE  opened' = opened /\ read' = read
BY DEF opened, read

(* A step that takes one line. *)
LEMMA NextLine ==
  ASSUME Progress, phase = "read", lines # << >>, lines' = Tail(lines), UNCHANGED << given, dicts >>
  PROVE  /\ opened' = opened /\ read' = read + 1 /\ read' \in 1 .. Len(given[opened])
         /\ Head(lines) = given[opened][read'] /\ Head(lines) \in Words \cup { NoWord, Blank }
         /\ lines' \in Dict /\ Len(lines') <= Len(given[opened])
         /\ \A i \in 1 .. Len(lines') : lines'[i] = given[opened][read' + i]
<1>1. /\ lines \in Dict /\ given[opened] \in Dict /\ Len(lines) <= Len(given[opened])
      /\ \A i \in 1 .. Len(lines) : lines[i] = given[opened][read + i]
  BY DEF Progress, Inside
<1>2. opened' = opened
  BY DEF opened
<1>3. /\ Len(lines) \in Nat /\ Len(lines) > 0 /\ Len(lines') = Len(lines) - 1
      /\ lines' \in Dict /\ Head(lines) = lines[1] /\ lines[1] \in Words \cup { NoWord, Blank }
      /\ Len(given[opened]) \in Nat
      /\ \A i \in 1 .. Len(lines') : lines'[i] = lines[i + 1]
  BY <1>1 DEF Dict
<1>4. read = Len(given[opened]) - Len(lines) /\ read' = Len(given[opened]) - Len(lines')
  BY <1>2 DEF read
<1>5. read \in Int /\ read' = read + 1 /\ read' \in 1 .. Len(given[opened])
  BY <1>1, <1>3, <1>4
<1>6. \A i \in 1 .. Len(lines') : lines'[i] = given[opened][read' + i]
  <2> SUFFICES ASSUME NEW i \in 1 .. Len(lines') PROVE lines'[i] = given[opened][read' + i]
    OBVIOUS
  <2>1. i \in Int /\ i + 1 \in 1 .. Len(lines)
    BY <1>3
  <2>2. read + (i + 1) = read' + i
    BY <1>5, <2>1
  <2> QED
    BY <1>1, <1>3, <2>1, <2>2
<1>7. Head(lines) = given[opened][read']
  <2>1. 1 \in 1 .. Len(lines)
    BY <1>3
  <2> QED
    BY <1>1, <1>3, <1>5, <2>1
<1> QED
  BY <1>1, <1>2, <1>3, <1>5, <1>6, <1>7

LEMMA OpenStep ==
  ASSUME Progress, OpenDict
  PROVE  /\ Progress' /\ opened \in Nat /\ opened' = opened + 1 /\ opened' <= Len(given)
         /\ Head(dicts) = given[opened']
         /\ Head(dicts) # NoFile => phase' = "read" /\ read' = 0
<1>1. /\ phase = "open" /\ dicts # << >> /\ dicts' = Tail(dicts) /\ UNCHANGED << given, line >>
      /\ IF Head(dicts) = NoFile THEN phase' = "open"
                                 ELSE phase' = "read" /\ lines' = Head(dicts)
  BY DEF OpenDict, history
<1>2. /\ Len(dicts) \in Nat /\ Len(dicts) > 0 /\ Len(dicts') = Len(dicts) - 1
      /\ dicts' \in Seq(Dict \cup { NoFile }) /\ Head(dicts) = dicts[1]
      /\ dicts[1] \in Dict \cup { NoFile }
      /\ \A i \in 1 .. Len(dicts') : dicts'[i] = dicts[i + 1]
      /\ Len(given) \in Nat /\ Len(dicts) <= Len(given)
  BY <1>1 DEF Progress
<1>3. opened = Len(given) - Len(dicts) /\ opened' = Len(given) - Len(dicts')
  BY <1>1 DEF opened
<1>4. opened \in Nat /\ opened' = opened + 1 /\ opened' <= Len(given) /\ opened' >= 1
  BY <1>2, <1>3
<1>5. Head(dicts) = given[opened']
  <2>1. 1 \in 1 .. Len(dicts)
    BY <1>2
  <2> QED
    BY <1>2, <1>4, <2>1 DEF Progress
<1>6. \A i \in 1 .. Len(dicts') : dicts'[i] = given[opened' + i]
  <2> SUFFICES ASSUME NEW i \in 1 .. Len(dicts') PROVE dicts'[i] = given[opened' + i]
    OBVIOUS
  <2>1. i + 1 \in 1 .. Len(dicts) /\ opened + (i + 1) = opened' + i
    BY <1>2, <1>4
  <2> QED
    BY <1>2, <2>1 DEF Progress
<1>7. given \in Seq(Dict \cup { NoFile }) /\ Len(dicts') <= Len(given)
  BY <1>2 DEF Progress
<1>8. CASE Head(dicts) = NoFile
  BY <1>1, <1>2, <1>4, <1>5, <1>6, <1>7, <1>8 DEF Progress, Inside
<1>9. CASE Head(dicts) # NoFile
  <2>1. phase' = "read" /\ lines' = given[opened'] /\ given[opened'] \in Dict
    BY <1>1, <1>2, <1>5, <1>9
  <2>2. given'[opened'] = given[opened'] /\ Len(given[opened']) \in Nat
    BY <1>1, <2>1 DEF Dict
  <2>3. read' = 0
    BY <2>1, <2>2 DEF read
  <2>4. Len(lines') <= Len(given[opened'])
        /\ \A i \in 1 .. Len(lines') : lines'[i] = given[opened'][read' + i]
    BY <2>1, <2>2, <2>3
  <2> QED
    BY <1>1, <1>2, <1>4, <1>5, <1>6, <1>7, <1>9, <2>1, <2>2, <2>3, <2>4 DEF Progress, Inside
<1> QED
  BY <1>8, <1>9

LEMMA ProgressStep ==
  ASSUME Progress, [TrainNext \/ Ask]_allVars
  PROVE  Progress'
<1> USE DEF Progress, Inside
<1>1. CASE Load
  BY <1>1, SameRead DEF Load, work
<1>2. CASE OpenDict
  BY <1>2, OpenStep
<1>3. CASE CloseDict
  BY <1>3, SameRead DEF CloseDict, history, work
<1>4. CASE SkipEmptyLine
  <2>1. phase = "read" /\ phase' = "read" /\ UNCHANGED << given, dicts, line >>
        /\ lines # << >> /\ lines' = Tail(lines)
    BY <1>4 DEF SkipEmptyLine, history
  <2>2. /\ opened' = opened /\ read' = read + 1 /\ read' \in 1 .. Len(given[opened])
        /\ Head(lines) = given[opened][read'] /\ Head(lines) \in Words \cup { NoWord, Blank }
        /\ lines' \in Dict /\ Len(lines') <= Len(given[opened])
        /\ \A i \in 1 .. Len(lines') : lines'[i] = given[opened][read' + i]
    <3> HIDE DEF Progress
    <3> QED
      BY <2>1, NextLine
  <2> QED
    BY <2>1, <2>2
<1>5. CASE EnablePrevious
  <2>1. phase = "read" /\ phase' = "disable" /\ UNCHANGED << given, dicts >>
        /\ lines # << >> /\ lines' = Tail(lines) /\ line' = Head(lines) /\ Head(lines) # NoWord
    BY <1>5 DEF EnablePrevious, history
  <2>2. /\ opened' = opened /\ read' = read + 1 /\ read' \in 1 .. Len(given[opened])
        /\ Head(lines) = given[opened][read'] /\ Head(lines) \in Words \cup { NoWord, Blank }
        /\ lines' \in Dict /\ Len(lines') <= Len(given[opened])
        /\ \A i \in 1 .. Len(lines') : lines'[i] = given[opened][read' + i]
    <3> HIDE DEF Progress
    <3> QED
      BY <2>1, NextLine
  <2> QED
    BY <2>1, <2>2
<1>6. CASE DisableLine
  BY <1>6, SameRead DEF DisableLine, history
<1>7. CASE TrainLine
  BY <1>7, SameRead DEF TrainLine, history, work
<1>8. CASE SaveModel
  BY <1>8, SameRead DEF SaveModel, history, work
<1>9. CASE StartAsking
  BY <1>9, SameRead DEF StartAsking, history
<1>10. ASSUME NEW w \in Words, isPossibleWord(w) PROVE Progress'
  BY <1>10, SameRead DEF isPossibleWord, history
<1>11. CASE UNCHANGED allVars
  BY <1>11, SameRead DEF allVars, history, work
<1> QED
  BY <1>1, <1>2, <1>3, <1>4, <1>5, <1>6, <1>7, <1>8, <1>9, <1>10, <1>11 DEF TrainNext, Ask
-----------------------------------------------------------------------------
(* What was counted, after every step. *)

(* The places of the lines are those of the dictionaries given. *)
LEMMA TrainedPlaces ==
  ASSUME Progress
  PROVE  \A p \in Trained :
           /\ p = << p[1], p[2] >> /\ p[1] \in 1 .. Len(given) /\ given[p[1]] # NoFile
           /\ p[2] \in 1 .. Len(given[p[1]]) /\ given[p[1]][p[2]] # NoWord
<1> SUFFICES ASSUME NEW p \in Trained
             PROVE  /\ p = << p[1], p[2] >> /\ p[1] \in 1 .. Len(given) /\ given[p[1]] # NoFile
                    /\ p[2] \in 1 .. Len(given[p[1]]) /\ given[p[1]][p[2]] # NoWord
  OBVIOUS
<1>1. PICK d \in { k \in DOMAIN given : given[k] # NoFile } :
             p \in { << d, l >> : l \in { k \in DOMAIN given[d] : given[d][k] # NoWord } }
  BY DEF Trained
<1>2. PICK l \in DOMAIN given[d] : p = << d, l >> /\ given[d][l] # NoWord
  BY <1>1
<1>3. given \in Seq(Dict \cup { NoFile }) /\ d \in DOMAIN given /\ given[d] \in Dict
  BY <1>1 DEF Progress
<1> QED
  BY <1>1, <1>2, <1>3 DEF Dict

(* A step after the loading that changes neither given nor loaded. *)
LEMMA SameOccurrences ==
  ASSUME UNCHANGED << given, loaded >>
  PROVE  Trained' = Trained /\ \A n : Occurrences(n)' = Occurrences(n)
BY DEF Trained, Occurrences

(* A step that trains no line and meets no dictionary it cannot open. *)
LEMMA SameCounts ==
  ASSUME Counts, UNCHANGED << given, loaded, count, errors >>, Missing' = Missing,
         \A p \in Trained : Taken(p)' <=> Taken(p)
  PROVE  Counts'
<1>1. \A n : Counted(n)' = Counted(n)
  BY SameOccurrences DEF Counted, Occurrences
<1> QED
  BY <1>1 DEF Counts

(* The words enabled are those loaded less the hidden ones. *)
LEMMA EnabledWords ==
  ASSUME Types, Hidden
  PROVE  Enabled = { w \in Words : loaded[w] > 0 } \ disabledWords
<1>1. ASSUME NEW w \in Words PROVE isExistWord(w) <=> loaded[w] > 0 /\ w \notin disabledWords
  <2>1. /\ trie[w] = IF w \in disabledWords THEN -loaded[w] ELSE loaded[w]
        /\ loaded[w] \in Nat
    BY DEF Hidden
  <2> QED
    BY <2>1 DEF isExistWord
<1> QED
  BY <1>1 DEF Enabled

LEMMA LoadCounts ==
  ASSUME Progress, Progress', Counts, Load
  PROVE  Counts'
<1>1. phase = "load" /\ UNCHANGED << given, dicts, lines, count, errors >>
  BY DEF Load, work, result
<1>2. opened = 0 /\ opened' = 0 /\ given' = given
  BY <1>1, SameRead DEF Progress
<1>3. \A n : Counted(n) = {}
  BY <1>2, TrainedPlaces DEF Counted, Taken, Occurrences
<1>4. \A n : Counted(n)' = {}
  <2>1. Trained' = Trained
    BY <1>2 DEF Trained
  <2>2. \A p \in Trained : ~Taken(p)'
    BY <1>2, TrainedPlaces DEF Taken
  <2> QED
    BY <2>1, <2>2 DEF Counted, Occurrences
<1>5. Missing' = Missing
  BY <1>2 DEF Missing
<1> QED
  BY <1>1, <1>3, <1>4, <1>5 DEF Counts

LEMMA OpenCounts ==
  ASSUME Progress, Counts, OpenDict
  PROVE  Counts'
<1>1. /\ phase = "open" /\ UNCHANGED << given, loaded, count >>
      /\ IF Head(dicts) = NoFile THEN phase' = "open" /\ errors' = errors + 1
                                 ELSE phase' = "read" /\ UNCHANGED errors
  BY DEF OpenDict, history
<1>2. /\ opened \in Nat /\ opened' = opened + 1 /\ Head(dicts) = given[opened']
      /\ Head(dicts) # NoFile => read' = 0
  BY OpenStep
<1>3. ASSUME NEW p \in Trained PROVE Taken(p)' <=> Taken(p)
  <2>1. p[1] \in 1 .. Len(given) /\ given[p[1]] # NoFile /\ p[2] \in 1 .. Len(given[p[1]])
    BY TrainedPlaces
  <2>2. p[1] \in Nat /\ p[2] \in Nat /\ p[2] >= 1
    BY <2>1
  <2>3. Taken(p) <=> p[1] <= opened
    BY <1>1, <1>2, <2>2 DEF Taken, Inside
  <2>4. Taken(p)' <=> p[1] < opened'
    <3>1. CASE p[1] = opened'
      <4>1. phase' = "read" /\ read' = 0
        BY <1>1, <1>2, <2>1, <3>1
      <4> QED
        BY <1>2, <2>2, <3>1, <4>1 DEF Taken, Inside
    <3>2. CASE p[1] # opened'
      BY <3>2 DEF Taken
    <3> QED
      BY <3>1, <3>2
  <2> QED
    BY <1>2, <2>2, <2>3, <2>4
<1>4. CASE Head(dicts) # NoFile
  <2>1. Missing' = Missing
    BY <1>1, <1>2, <1>4 DEF Missing
  <2> QED
    BY <1>1, <1>3, <1>4, <2>1, SameCounts
<1>5. CASE Head(dicts) = NoFile
  <2>1. Missing' = Missing \cup { opened' } /\ opened' \notin Missing
    BY <1>1, <1>2, <1>5 DEF Missing
  <2>2. IsFiniteSet(Missing) /\ errors = Cardinality(Missing)
    BY DEF Counts
  <2>3. IsFiniteSet(Missing') /\ errors' = Cardinality(Missing')
    BY <1>1, <1>5, <2>1, <2>2, FS_AddElement
  <2>4. \A n : Counted(n)' = Counted(n)
    BY <1>1, <1>3, SameOccurrences DEF Counted, Occurrences
  <2> QED
    BY <1>1, <2>3, <2>4 DEF Counts
<1> QED
  BY <1>4, <1>5

LEMMA CloseCounts ==
  ASSUME Progress, Counts, CloseDict
  PROVE  Counts'
<1>1. /\ phase = "read" /\ phase' = "open" /\ lines = << >>
      /\ UNCHANGED << given, loaded, count, errors, dicts, lines >>
  BY DEF CloseDict, history, work, result
<1>2. opened' = opened /\ read' = read /\ Missing' = Missing
  BY <1>1, SameRead DEF Missing
<1>3. read = Len(given[opened]) /\ Len(given[opened]) \in Nat
  BY <1>1 DEF read, Progress, Inside, Dict
<1>4. ASSUME NEW p \in Trained PROVE Taken(p)' <=> Taken(p)
  <2>1. p[2] \in 1 .. Len(given[p[1]])
    BY TrainedPlaces
  <2> QED
    BY <1>1, <1>2, <1>3, <2>1 DEF Taken, Inside
<1> QED
  BY <1>1, <1>2, <1>4, SameCounts

(* A line is read: it is empty or has still to be trained. *)
LEMMA LineCounts ==
  ASSUME Progress, Counts, phase = "read", lines # << >>, lines' = Tail(lines),
         UNCHANGED << given, dicts, loaded, count, errors >>,
         phase' = "disable" \/ (phase' = "read" /\ Head(lines) = NoWord)
  PROVE  Counts'
<1>1. /\ opened' = opened /\ read' = read + 1 /\ read' \in 1 .. Len(given[opened])
      /\ Head(lines) = given[opened][read']
  BY NextLine
<1>2. Missing' = Missing /\ read \in Int
  BY <1>1 DEF Missing, read, Progress, Inside, Dict
<1>3. ASSUME NEW p \in Trained PROVE Taken(p)' <=> Taken(p)
  <2>1. p[2] \in 1 .. Len(given[p[1]]) /\ p[2] \in Int /\ given[p[1]][p[2]] # NoWord
    BY TrainedPlaces
  <2>2. CASE p[1] # opened
    BY <1>1, <2>2 DEF Taken
  <2>3. CASE p[1] = opened
    <3>1. Taken(p) <=> p[2] <= read
      BY <1>1, <2>3, TrainedPlaces DEF Taken, Inside, Progress
    <3>2. CASE phase' = "disable"
      <4>1. Taken(p)' <=> p[2] <= read' - 1
        BY <1>1, <2>3, <3>2, TrainedPlaces DEF Taken, Inside, Progress
      <4> QED
        BY <1>1, <1>2, <2>1, <3>1, <4>1
    <3>3. CASE phase' = "read" /\ Head(lines) = NoWord
      <4>1. Taken(p)' <=> p[2] <= read'
        BY <1>1, <2>3, <3>3, TrainedPlaces DEF Taken, Inside, Progress
      <4>2. p[2] # read'
        BY <1>1, <2>1, <2>3, <3>3
      <4> QED
        BY <1>1, <1>2, <2>1, <3>1, <4>1, <4>2
    <3> QED
      BY <3>2, <3>3
  <2> QED
    BY <2>2, <2>3
<1> QED
  BY <1>2, <1>3, SameCounts

(* The line analysed is counted for each of its names. *)
LEMMA TrainCounts ==
  ASSUME Types, Hidden, Progress, Counts, TrainLine
  PROVE  Counts'
<1>1. /\ phase = "analyse" /\ phase' = "read"
      /\ count' = [n \in AllNames |-> IF n \in Names(line, Enabled) THEN count[n] + 1 ELSE count[n]]
      /\ UNCHANGED << given, loaded, errors, dicts, lines >>
  BY DEF TrainLine, history, work
<1>2. opened' = opened /\ read' = read /\ Missing' = Missing
  BY <1>1, SameRead DEF Missing
<1> DEFINE p0 == << opened, read >>
<1>3. /\ given \in Seq(Dict \cup { NoFile }) /\ Len(given) \in Nat /\ Len(dicts) \in Nat
      /\ opened >= 1 /\ given[opened] # NoFile /\ given[opened] \in Dict
      /\ lines \in Dict /\ read >= 1 /\ line = given[opened][read] /\ line # NoWord
  BY <1>1 DEF Progress, Inside
<1>4. opened \in DOMAIN given /\ read \in DOMAIN given[opened] /\ read \in Int /\ opened \in Int
  <2>1. Len(lines) \in Nat /\ Len(given[opened]) \in Nat
    BY <1>3 DEF Dict
  <2>2. opened = Len(given) - Len(dicts) /\ read = Len(given[opened]) - Len(lines)
    BY DEF opened, read
  <2> QED
    BY <1>3, <2>1, <2>2 DEF Dict
<1>5. p0 \in Trained
  BY <1>3, <1>4 DEF Trained
<1>6. ASSUME NEW p \in Trained PROVE /\ Taken(p)' <=> Taken(p) \/ p = p0
                                     /\ ~Taken(p0)
  <2>1. p = << p[1], p[2] >> /\ p[1] \in Int /\ p[2] \in Int
    BY TrainedPlaces
  <2>2. Taken(p) <=> p[1] < opened \/ (p[1] = opened /\ p[2] <= read - 1)
    BY <1>1 DEF Taken, Inside
  <2>3. Taken(p)' <=> p[1] < opened \/ (p[1] = opened /\ p[2] <= read)
    BY <1>1, <1>2 DEF Taken, Inside
  <2>4. ~Taken(p0)
    BY <1>1, <1>4 DEF Taken, Inside
  <2>5. p = p0 <=> p[1] = opened /\ p[2] = read
    BY <2>1
  <2> QED
    BY <1>4, <2>1, <2>2, <2>3, <2>4, <2>5
<1>7. Enabled = { v \in Words : loaded[v] > 0 } \ { given[opened][read] }
  BY <1>1, <1>3, EnabledWords DEF Hidden
<1>8. \A n : p0 \in Occurrences(n) <=> n \in Names(line, Enabled)
  BY <1>3, <1>5, <1>7 DEF Occurrences
<1>9. ASSUME NEW n PROVE Counted(n)' = IF n \in Names(line, Enabled) THEN Counted(n) \cup { p0 }
                                      ELSE Counted(n)
  <2>1. Occurrences(n)' = Occurrences(n) /\ Occurrences(n) \subseteq Trained
    BY <1>1, SameOccurrences DEF Occurrences
  <2> HIDE DEF p0
  <2> QED
    BY <1>6, <1>8, <2>1 DEF Counted
<1>10. ASSUME NEW n \in AllNames
       PROVE  IsFiniteSet(Counted(n)') /\ count'[n] = Cardinality(Counted(n)')
  <2>1. IsFiniteSet(Counted(n)) /\ count[n] = Cardinality(Counted(n)) /\ p0 \notin Counted(n)
    BY <1>5, <1>6 DEF Counts, Counted
  <2>2. CASE n \in Names(line, Enabled)
    <3>1. Counted(n)' = Counted(n) \cup { p0 } /\ count'[n] = count[n] + 1
      BY <1>1, <1>9, <2>2
    <3> QED
      BY <2>1, <3>1, FS_AddElement
  <2>3. CASE n \notin Names(line, Enabled)
    BY <1>1, <1>9, <2>1, <2>3
  <2> QED
    BY <2>2, <2>3
<1>11. count' \in [AllNames -> Nat]
  BY <1>1 DEF Counts
<1> QED
  BY <1>1, <1>2, <1>10, <1>11 DEF Counts

(* Every line of every dictionary is trained when there is none left. *)
LEMMA AllTaken ==
  ASSUME Progress, dicts = << >>, phase \in { "open", "done" }
  PROVE  opened = Len(given) /\ \A n : Counted(n) = Occurrences(n)
<1>1. opened = Len(given) /\ Len(given) \in Nat
  BY DEF opened, Progress
<1>2. \A p \in Trained : Taken(p)
  BY <1>1, TrainedPlaces DEF Taken, Inside
<1> QED
  BY <1>1, <1>2 DEF Counted, Occurrences

LEMMA CountsStep ==
  ASSUME IInv, Types', Hidden', Progress', [TrainNext \/ Ask]_allVars
  PROVE  Counts'
<1> USE DEF IInv
<1>1. CASE Load
  BY <1>1, LoadCounts
<1>2. CASE OpenDict
  BY <1>2, OpenCounts
<1>3. CASE CloseDict
  BY <1>3, CloseCounts
<1>4. CASE SkipEmptyLine
  BY <1>4, LineCounts DEF SkipEmptyLine, history, result
<1>5. CASE EnablePrevious
  BY <1>5, LineCounts DEF EnablePrevious, history, result
<1>6. CASE DisableLine
  <2>1. /\ phase = "disable" /\ phase' = "analyse"
        /\ UNCHANGED << given, dicts, lines, loaded, count, errors >>
    BY <1>6 DEF DisableLine, history, result
  <2>2. opened' = opened /\ read' = read
    BY <2>1, SameRead
  <2> QED
    BY <2>1, <2>2, SameCounts DEF Taken, Inside, Missing
<1>7. CASE TrainLine
  BY <1>7, TrainCounts
<1>8. ASSUME UNCHANGED << given, dicts, lines, loaded, count, errors >>,
             ~Inside, ~Inside'
      PROVE  Counts'
  <2>1. opened' = opened
    BY <1>8, SameRead
  <2> QED
    BY <1>8, <2>1, SameCounts DEF Taken, Missing
<1>9. CASE SaveModel
  BY <1>8, <1>9 DEF SaveModel, Inside, history, work
<1>10. CASE StartAsking
  BY <1>8, <1>10 DEF StartAsking, Inside, history, result
<1>11. ASSUME NEW w \in Words, isPossibleWord(w) PROVE Counts'
  BY <1>8, <1>11 DEF isPossibleWord, Inside, history
<1>12. CASE UNCHANGED allVars
  <2>1. UNCHANGED << given, dicts, lines, loaded, count, errors, phase >>
    BY <1>12 DEF allVars, history, work, result
  <2>2. opened' = opened /\ read' = read
    BY <2>1, SameRead
  <2> QED
    BY <2>1, <2>2, SameCounts DEF Taken, Inside, Missing
<1> QED
  BY <1>1, <1>2, <1>3, <1>4, <1>5, <1>6, <1>7, <1>9, <1>10, <1>11, <1>12 DEF TrainNext, Ask

LEMMA FinalStep ==
  ASSUME IInv, [TrainNext \/ Ask]_allVars
  PROVE  Final'
<1>1. CASE SaveModel
  <2>1. /\ phase = "open" /\ dicts = << >> /\ UNCHANGED << given, loaded >>
        /\ model' = { n \in AllNames : count[n] > MinCount }
    BY <1>1 DEF SaveModel, history
  <2>2. \A n \in AllNames : count[n] = Cardinality(Occurrences(n))
    BY <2>1, AllTaken DEF IInv, Counts
  <2>3. \A n : Occurrences(n)' = Occurrences(n)
    BY <2>1, SameOccurrences
  <2> QED
    BY <2>1, <2>2, <2>3 DEF Final
<1>2. CASE UNCHANGED allVars
  <2>1. UNCHANGED << given, loaded, model, phase >>
    BY <1>2 DEF allVars, history, result
  <2>2. \A n : Occurrences(n)' = Occurrences(n)
    BY <2>1, SameOccurrences
  <2> QED
    BY <2>1, <2>2 DEF IInv, Final
<1>3. CASE ~SaveModel /\ ~UNCHANGED allVars
  <2>1. phase' # "done"
    BY <1>3 DEF TrainNext, Ask, Load, OpenDict, CloseDict, SkipEmptyLine, EnablePrevious, DisableLine,
                TrainLine, StartAsking, isPossibleWord
  <2> QED
    BY <2>1 DEF Final
<1> QED
  BY <1>1, <1>2, <1>3

(* IInv holds in every state. *)
LEMMA Invariance == TrainSpec => []IInv
<1>1. IInv /\ [TrainNext \/ Ask]_allVars => IInv'
  <2> SUFFICES ASSUME IInv, [TrainNext \/ Ask]_allVars PROVE IInv'
    OBVIOUS
  <2>1. Types' /\ Hidden'
    BY HiddenStep DEF IInv
  <2>2. Progress'
    BY ProgressStep DEF IInv
  <2> QED
    BY <2>1, <2>2, CountsStep, FinalStep DEF IInv
<1> QED
  BY <1>1, InitIInv, PTL DEF TrainSpec
-----------------------------------------------------------------------------
(***************************************************************************)
(* A word is always analysed with the dictionary that was loaded, less     *)
(* that word alone, and asked about with those hidden before it too:       *)
(* enableWords and disableWords undo each other over all the lines         *)
(* trainModel reads, also words that are in no dictionary.                 *)
(***************************************************************************)
THEOREM HidesTheWordOnly == TrainSpec => []OnlyTheWordIsHidden
<1>1. ASSUME IInv PROVE OnlyTheWordIsHidden
  <2>1. Enabled = { w \in Words : loaded[w] > 0 } \ disabledWords
    BY <1>1, EnabledWords DEF IInv
  <2>2. phase = "analyse" => disabledWords = { line }
    BY <1>1 DEF IInv, Hidden
  <2>3. phase = "ask" => line \notin Enabled
    BY <1>1, <2>1, NoWordAssumption DEF IInv, Hidden
  <2>4. ASSUME NEW w \in Words PROVE Abs(trie[w]) = Abs(loaded[w])
    <3>1. /\ trie[w] = IF w \in disabledWords THEN -loaded[w] ELSE loaded[w]
          /\ loaded[w] \in Nat
      BY <1>1 DEF IInv, Hidden
    <3> QED
      BY <3>1 DEF Abs
  <2> QED
    BY <2>1, <2>2, <2>3, <2>4 DEF OnlyTheWordIsHidden
<1> QED
  BY <1>1, Invariance, PTL

(***************************************************************************)
(* The model trainModel writes depends on the words and the dictionary     *)
(* only: the counts it is made from are those of all the lines, whatever   *)
(* their order, and the value returned counts the dictionaries that could  *)
(* not be opened.                                                          *)
(***************************************************************************)
THEOREM TrainsExactly == TrainSpec => []ModelIsExact
<1>1. ASSUME IInv PROVE ModelIsExact
  <2> SUFFICES ASSUME phase = "done" PROVE ModelIsExact
    BY DEF ModelIsExact
  <2>1. model = { n \in AllNames : Cardinality(Occurrences(n)) > MinCount }
    BY <1>1 DEF IInv, Final
  <2>2. opened = Len(given) /\ given \in Seq(Dict \cup { NoFile })
    BY <1>1, AllTaken DEF IInv, Progress
  <2>3. Missing = { d \in DOMAIN given : given[d] = NoFile }
    BY <2>2 DEF Missing
  <2> QED
    BY <1>1, <2>1, <2>3 DEF ModelIsExact, IInv, Counts
<1> QED
  BY <1>1, Invariance, PTL
==============================================================================
