---------------------------- MODULE PagingProofs -----------------------------
(***************************************************************************)
(* The memory of the simulator for every set of processes, pages and       *)
(* frames.  First the flat page tables of Paging: the inductive invariant  *)
(* is TypeOK, FramesMatchTables and TLBCoherent; the last needs the first  *)
(* two, since the eviction of a page removes the TLB entries with that     *)
(* page's number only.  Then the trees of PageTree, for every way to split *)
(* a page number over one to three levels: they answer as the flat page    *)
(* table does, and hold no table too many or too few.                      *)
(***************************************************************************)
EXTENDS PageTree, SequenceTheorems, FiniteSetTheorems, TLAPS

PageTables == [Procs -> [Pages -> Frames \cup {NoFrame}]]

(* Every change the operations make keeps the types. *)
LEMMA TypeStep == TypeOK /\ [Next]_pagingVars => TypeOK'
<1> SUFFICES ASSUME TypeOK, [Next]_pagingVars PROVE TypeOK'
  OBVIOUS
<1> USE DEF TypeOK
<1>1. ASSUME NEW p \in Procs, Switch(p) PROVE TypeOK'
  BY <1>1 DEF Switch
<1>2. ASSUME NEW p \in Procs, Exit(p) PROVE TypeOK'
  BY <1>2 DEF Exit
<1>3. ASSUME NEW v \in Pages, Fill(v) PROVE TypeOK'
  <2>1. owner \in Procs
    OBVIOUS
  <2>2. pageTable[owner][v] \in Frames
    BY <1>3, <2>1 DEF Fill
  <2>3. PICK kept \in {tlb} \cup {tlb \ {e} : e \in tlb} :
          tlb' = kept \cup {<<v, pageTable[owner][v]>>}
    BY <1>3 DEF Fill
  <2>4. kept \subseteq tlb
    BY <2>3
  <2>5. tlb' \subseteq Pages \X Frames
    BY <2>2, <2>3, <2>4
  <2> QED
    BY <1>3, <2>5 DEF Fill
<1>4. ASSUME NEW p \in Procs, NEW v \in Pages, NEW f \in Frames, Load(p, v, f)
      PROVE  TypeOK'
  <2>1. TablesWithout(f) \in PageTables
    BY DEF TablesWithout, PageTables
  <2>2. pageTable' \in PageTables
    BY <1>4, <2>1 DEF Load, PageTables
  <2>3. frames' \in [Frames -> (Procs \X Pages) \cup {Free}]
    BY <1>4 DEF Load
  <2>4. tlb' \subseteq tlb
    BY <1>4 DEF Load, TlbWithout
  <2> QED
    BY <1>4, <2>2, <2>3, <2>4 DEF Load, PageTables
<1>5. CASE UNCHANGED pagingVars
  BY <1>5 DEF pagingVars
<1> QED
  BY <1>1, <1>2, <1>3, <1>4, <1>5 DEF Next

(* What Load leaves in the tables of a live process.                        *)
LEMMA LoadedTables ==
  ASSUME TypeOK, NEW p \in Procs, NEW v \in Pages, NEW f \in Frames, Load(p, v, f),
         NEW q \in live, NEW w \in Pages
  PROVE  pageTable'[q][w] =
           IF q = p /\ w = v THEN f
           ELSE IF frames[f] = <<q, w>> THEN NoFrame ELSE pageTable[q][w]
<1>1. q \in Procs
  BY DEF TypeOK
<1>2. TablesWithout(f)[q][w] = IF frames[f] = <<q, w>> THEN NoFrame ELSE pageTable[q][w]
  BY <1>1 DEF TablesWithout
<1>3. TablesWithout(f) \in [Procs -> [Pages -> Frames \cup {NoFrame}]]
  BY DEF TablesWithout, TypeOK
<1>4. pageTable' = [TablesWithout(f) EXCEPT ![p][v] = f]
  BY DEF Load
<1> QED
  BY <1>1, <1>2, <1>3, <1>4

(* Loading, evicting and freeing keep tables and frames inverse to each other. *)
LEMMA MatchStep ==
  TypeOK /\ FramesMatchTables /\ [Next]_pagingVars => FramesMatchTables'
<1> SUFFICES ASSUME TypeOK, FramesMatchTables, [Next]_pagingVars
             PROVE  FramesMatchTables'
  OBVIOUS
<1>1. ASSUME NEW p \in Procs, Switch(p) PROVE FramesMatchTables'
  BY <1>1 DEF Switch, FramesMatchTables
<1>2. ASSUME NEW p \in Procs, Exit(p) PROVE FramesMatchTables'
  BY <1>2 DEF Exit, FramesMatchTables, TypeOK
<1>3. ASSUME NEW v \in Pages, Fill(v) PROVE FramesMatchTables'
  BY <1>3 DEF Fill, FramesMatchTables
<1>4. ASSUME NEW p \in Procs, NEW v \in Pages, NEW f \in Frames, Load(p, v, f)
      PROVE  FramesMatchTables'
  <2> SUFFICES ASSUME NEW q \in live', NEW w \in Pages, NEW g \in Frames
               PROVE  (pageTable'[q][w] = g <=> frames'[g] = <<q, w>>)
    BY DEF FramesMatchTables
  <2>1. q \in live /\ q \in Procs
    BY <1>4 DEF Load, TypeOK
  <2>2. pageTable'[q][w] =
          IF q = p /\ w = v THEN f
          ELSE IF frames[f] = <<q, w>> THEN NoFrame ELSE pageTable[q][w]
    BY <1>4, <2>1, LoadedTables
  <2>3. frames'[g] = IF g = f THEN <<p, v>> ELSE frames[g]
    BY <1>4 DEF Load, TypeOK
  <2>4. pageTable[q][w] = g <=> frames[g] = <<q, w>>
    BY <2>1 DEF FramesMatchTables
  <2>5. pageTable[q][w] = f <=> frames[f] = <<q, w>>
    BY <2>1 DEF FramesMatchTables
  <2>6. g # NoFrame
    BY PagingAssumption
  <2>7. CASE q = p /\ w = v
    <3>1. pageTable[q][w] = NoFrame
      BY <1>4, <2>7 DEF Load
    <3> QED
      BY <2>2, <2>3, <2>4, <2>6, <2>7, <3>1
  <2>8. CASE ~(q = p /\ w = v)
    BY <2>2, <2>3, <2>4, <2>5, <2>6, <2>8
  <2> QED
    BY <2>7, <2>8
<1>5. CASE UNCHANGED pagingVars
  BY <1>5 DEF pagingVars, FramesMatchTables
<1> QED
  BY <1>1, <1>2, <1>3, <1>4, <1>5 DEF Next

(* A Load removes from the TLB whatever translation it makes wrong.         *)
LEMMA CoherenceStep ==
  TypeOK /\ FramesMatchTables /\ TLBCoherent /\ [Next]_pagingVars => TLBCoherent'
<1> SUFFICES ASSUME TypeOK, FramesMatchTables, TLBCoherent, [Next]_pagingVars
             PROVE  TLBCoherent'
  OBVIOUS
<1>1. ASSUME NEW p \in Procs, Switch(p) PROVE TLBCoherent'
  BY <1>1 DEF Switch, TLBCoherent
<1>2. ASSUME NEW p \in Procs, Exit(p) PROVE TLBCoherent'
  BY <1>2 DEF Exit, TLBCoherent, TypeOK
<1>3. ASSUME NEW v \in Pages, Fill(v) PROVE TLBCoherent'
  <2>1. PICK kept \in {tlb} \cup {tlb \ {e} : e \in tlb} :
          tlb' = kept \cup {<<v, pageTable[owner][v]>>}
    BY <1>3 DEF Fill
  <2>2. kept \subseteq tlb
    BY <2>1
  <2>3. \A e \in kept : e[1] # v /\ pageTable[owner][e[1]] = e[2]
    BY <1>3, <2>2 DEF Fill, TLBCoherent
  <2>4. \A e \in tlb' : pageTable[owner][e[1]] = e[2]
    BY <2>1, <2>3
  <2>5. \A d, e \in tlb' : d[1] = e[1] => d = e
    BY <2>1, <2>2, <2>3 DEF TLBCoherent
  <2> QED
    BY <1>3, <2>4, <2>5 DEF Fill, TLBCoherent
<1>4. ASSUME NEW p \in Procs, NEW v \in Pages, NEW f \in Frames, Load(p, v, f)
      PROVE  TLBCoherent'
  <2>1. tlb' \subseteq tlb /\ UNCHANGED <<owner, live>>
    BY <1>4 DEF Load, TlbWithout
  <2>2. \A d, e \in tlb' : d[1] = e[1] => d = e
    BY <2>1 DEF TLBCoherent
  <2>3. ASSUME owner \in live, NEW e \in tlb' PROVE pageTable'[owner][e[1]] = e[2]
    <3>1. e \in Pages \X Frames /\ e \in tlb /\ owner \in Procs
      BY <2>1 DEF TypeOK
    <3>2. e[1] \in Pages /\ e[2] \in Frames
      BY <3>1
    <3>3. pageTable[owner][e[1]] = e[2]
      BY <2>3, <3>1 DEF TLBCoherent
    <3>4. pageTable'[owner][e[1]] =
            IF owner = p /\ e[1] = v THEN f
            ELSE IF frames[f] = <<owner, e[1]>> THEN NoFrame ELSE pageTable[owner][e[1]]
      BY <1>4, <2>3, <3>2, LoadedTables
    <3>5. ~(owner = p /\ e[1] = v)
      BY <1>4, <3>2, <3>3, PagingAssumption DEF Load
    <3>6. frames[f] # <<owner, e[1]>>
      <4>1. frames[f] = Free \/ e[1] # frames[f][2]
        BY <1>4, <2>3 DEF Load, TlbWithout
      <4>2. Free # <<owner, e[1]>>
        BY <3>1, <3>2, PagingAssumption
      <4> QED
        BY <4>1, <4>2
    <3> QED
      BY <3>3, <3>4, <3>5, <3>6
  <2> QED
    BY <2>1, <2>2, <2>3 DEF TLBCoherent
<1>5. CASE UNCHANGED pagingVars
  BY <1>5 DEF pagingVars, TLBCoherent
<1> QED
  BY <1>1, <1>2, <1>3, <1>4, <1>5 DEF Next

Consistent == TypeOK /\ FramesMatchTables /\ TLBCoherent

(* An empty memory is consistent. *)
LEMMA ConsistentInit == Init => Consistent
<1> SUFFICES ASSUME Init PROVE Consistent
  OBVIOUS
<1>1. TypeOK
  BY DEF Init, TypeOK
<1>2. FramesMatchTables
  BY <1>1, PagingAssumption DEF Init, FramesMatchTables, TypeOK
<1>3. TLBCoherent
  BY DEF Init, TLBCoherent
<1> QED
  BY <1>1, <1>2, <1>3 DEF Consistent

(* The memory is consistent throughout. *)
LEMMA ConsistentInductive == Spec => []Consistent
<1>1. Consistent /\ [Next]_pagingVars => Consistent'
  BY TypeStep, MatchStep, CoherenceStep DEF Consistent
<1> QED
  BY ConsistentInit, <1>1, PTL DEF Spec

(* The memory keeps its types: DRAM frames hold pages of processes, page    *)
(* tables map to frames (init, DRAMadd, addPTE, TLBadd, cleanUpProcess).     *)
THEOREM MemoryTypes == Spec => []TypeOK
<1>1. Consistent => TypeOK
  BY DEF Consistent
<1> QED
  BY <1>1, ConsistentInductive, PTL

(* No two pages of live processes share a frame and every eviction takes    *)
(* the entry out of the table it came from (DRAMadd, addPTE, deletePTE).     *)
THEOREM TablesInverse == Spec => []FramesMatchTables
<1>1. Consistent => FramesMatchTables
  BY DEF Consistent
<1> QED
  BY <1>1, ConsistentInductive, PTL

(* A TLB hit of readPage translates as the page table would, although       *)
(* evictions of other processes' pages only look at the page number.         *)
THEOREM TLBAlwaysCoherent == Spec => []TLBCoherent
<1>1. Consistent => TLBCoherent
  BY DEF Consistent
<1> QED
  BY <1>1, ConsistentInductive, PTL

-----------------------------------------------------------------------------
(* The paths of two pages differ.  The indices that Path takes of a page    *)
(* number:                                                                 *)
Second == 2 ^ sysParam.N2_in_bits
Third == 2 ^ sysParam.N3_in_bits
FirstIndex(v) == v \div (Second * Third)
Rest(v) == v - FirstIndex(v) * (Second * Third)
SecondIndex(v) == Rest(v) \div Third
ThirdIndex(v) == Rest(v) - SecondIndex(v) * Third

(* Tables have a size. *)
LEMMA PowersOfTwo == \A n \in Nat : 2 ^ n \in Nat \ {0}
<1> TAKE n \in Nat
<1> DEFINE S == 1 .. n
<1>1. IsFiniteSet(S) /\ Cardinality(S) = n
  BY FS_Interval
<1>2. IsFiniteSet(SUBSET S) /\ Cardinality(SUBSET S) = 2 ^ n
  BY <1>1, FS_SUBSET
<1>3. Cardinality(SUBSET S) \in Nat
  BY <1>2, FS_CardinalityType
<1>4. Cardinality(SUBSET S) # 0
  <2>1. SUBSET S # {}
    OBVIOUS
  <2> QED
    BY <1>2, <2>1, FS_EmptySet
<1> QED
  BY <1>2, <1>3, <1>4

(* The three indices are a sequence, cut by Path to the levels used. *)
LEMMA TripleOfInts ==
  ASSUME NEW i \in Int, NEW j \in Int, NEW k \in Int
  PROVE  <<i, j, k>> \in Seq(Int) /\ Len(<<i, j, k>>) = 3
OBVIOUS

(* A path is a sequence of as many indices as there are levels. *)
LEMMA PathShape ==
  ASSUME sysParam \in Shapes, NEW v \in Pages
  PROVE  /\ sysParam.levels \in 1 .. 3
         /\ Second \in Nat \ {0} /\ Third \in Nat \ {0}
         /\ sysParam.levels < 3 => Third = 1
         /\ sysParam.levels < 2 => Second = 1
         /\ Path(v) = SubSeq(<<FirstIndex(v), SecondIndex(v), ThirdIndex(v)>>, 1, sysParam.levels)
         /\ v \in Int /\ FirstIndex(v) \in Int /\ SecondIndex(v) \in Int /\ ThirdIndex(v) \in Int
         /\ Second * Third \in Nat \ {0}
<1>1. sysParam.levels \in 1 .. 3 /\ v \in Nat
  BY TreeAssumption
<1>2. Second \in Nat \ {0} /\ Third \in Nat \ {0}
  BY TreeAssumption, PowersOfTwo DEF Second, Third
<1>3. (sysParam.levels < 3 => Third = 1) /\ (sysParam.levels < 2 => Second = 1)
  <2>1. 2 ^ 0 = 1
    OBVIOUS
  <2> QED
    BY <2>1, TreeAssumption DEF Second, Third
<1>4. Path(v) = SubSeq(<<FirstIndex(v), SecondIndex(v), ThirdIndex(v)>>, 1, sysParam.levels)
  BY DEF Path, FirstIndex, SecondIndex, ThirdIndex, Rest, Second, Third
<1>5. Second * Third \in Nat \ {0}
  BY <1>2
<1> DEFINE size == Second * Third
<1> HIDE DEF size
<1>6. FirstIndex(v) \in Int
  <2>1. v \div size \in Int
    BY <1>1, <1>5 DEF size
  <2> QED
    BY <2>1 DEF FirstIndex, size
<1>7. Rest(v) \in Int
  <2> DEFINE i == FirstIndex(v)
  <2>1. i \in Int /\ size \in Int
    BY <1>5, <1>6 DEF size
  <2> HIDE DEF i
  <2>2. v - i * size \in Int
    BY <1>1, <2>1
  <2> QED
    BY <2>2 DEF Rest, size, i
<1>8. SecondIndex(v) \in Int
  <2> DEFINE r == Rest(v)
             s == Third
  <2>1. r \in Int /\ s \in Nat \ {0}
    BY <1>2, <1>7
  <2> HIDE DEF r, s
  <2>2. r \div s \in Int
    BY <2>1
  <2> QED
    BY <2>2 DEF SecondIndex, r, s
<1>9. ThirdIndex(v) \in Int
  BY <1>2, <1>7, <1>8 DEF ThirdIndex
<1> QED
  BY <1>1, <1>2, <1>3, <1>4, <1>5, <1>6, <1>8, <1>9

(* Different pages have different paths: the shifts lose no bit. *)
LEMMA PathsDiffer ==
  ASSUME sysParam \in Shapes, NEW v \in Pages, NEW w \in Pages, Path(v) = Path(w)
  PROVE  v = w
<1> DEFINE n == sysParam.levels
           a == <<FirstIndex(v), SecondIndex(v), ThirdIndex(v)>>
           b == <<FirstIndex(w), SecondIndex(w), ThirdIndex(w)>>
<1>1. /\ n \in 1 .. 3 /\ (n < 3 => Third = 1) /\ (n < 2 => Second = 1)
      /\ Second \in Nat \ {0} /\ Third \in Nat \ {0} /\ Second * Third \in Nat \ {0}
      /\ v \in Int /\ w \in Int
      /\ SubSeq(a, 1, n) = SubSeq(b, 1, n)
  BY PathShape
<1>2. \A i \in 1 .. n : a[i] = b[i]
  <2>1. a \in Seq(Int) /\ b \in Seq(Int) /\ Len(a) = 3 /\ Len(b) = 3
    BY PathShape, TripleOfInts
  <2> HIDE DEF a, b, n
  <2>2. \A i \in 1 .. n : SubSeq(a, 1, n)[i] = a[i] /\ SubSeq(b, 1, n)[i] = b[i]
    BY <1>1, <2>1
  <2> QED
    BY <1>1, <2>2
<1>3. FirstIndex(v) = FirstIndex(w)
  <2>1. 1 \in 1 .. n
    BY <1>1
  <2> QED
    BY <1>2, <2>1
<1>4. CASE n = 1
  <2>1. Second * Third = 1
    BY <1>1, <1>4
  <2>2. v \div 1 = v /\ w \div 1 = w
    BY <1>1
  <2> QED
    BY <1>3, <2>1, <2>2 DEF FirstIndex
<1>5. ASSUME n # 1 PROVE SecondIndex(v) = SecondIndex(w)
  <2>1. 2 \in 1 .. n
    BY <1>1, <1>5
  <2> QED
    BY <1>2, <2>1
<1>6. ASSUME Rest(v) = Rest(w) PROVE v = w
  <2> DEFINE i == FirstIndex(v) * (Second * Third)
  <2>1. i \in Int
    BY <1>1, PathShape
  <2>2. Rest(v) = v - i /\ Rest(w) = w - i
    BY <1>3 DEF Rest
  <2>3. v \in Int /\ w \in Int
    BY <1>1
  <2>4. v - i = w - i
    BY <1>6, <2>2
  <2> HIDE DEF i
  <2> QED
    BY ONLY <2>1, <2>3, <2>4
<1>7. Rest(v) \in Int /\ Rest(w) \in Int
  <2> DEFINE i == FirstIndex(v) * (Second * Third)
  <2>1. i \in Int
    BY <1>1, PathShape
  <2>2. Rest(v) = v - i /\ Rest(w) = w - i
    BY <1>3 DEF Rest
  <2> HIDE DEF i
  <2> QED
    BY <1>1, <2>1, <2>2
<1>8. CASE n = 2
  <2>1. SecondIndex(v) = Rest(v) \div 1 /\ SecondIndex(w) = Rest(w) \div 1
    BY <1>1, <1>8 DEF SecondIndex
  <2>2. Rest(v) \div 1 = Rest(v) /\ Rest(w) \div 1 = Rest(w)
    BY <1>7
  <2> QED
    BY <1>5, <1>6, <1>8, <2>1, <2>2
<1>9. CASE n = 3
  <2> DEFINE j == SecondIndex(v) * Third
             k == ThirdIndex(v)
  <2>1. 3 \in 1 .. n
    BY <1>9
  <2>2. ThirdIndex(v) = ThirdIndex(w)
    BY <1>2, <2>1
  <2>3. j \in Int /\ k \in Int
    BY <1>1, PathShape
  <2>4. k = Rest(v) - j /\ k = Rest(w) - j
    BY <1>5, <1>9, <2>2 DEF ThirdIndex
  <2> HIDE DEF j, k
  <2>5. Rest(v) = Rest(w)
    BY <1>7, <2>3, <2>4
  <2> QED
    BY <1>6, <2>5
<1> QED
  BY <1>1, <1>4, <1>8, <1>9

-----------------------------------------------------------------------------
(* The paths of all pages, and the tables and the entry on them: Node(v, 0) *)
(* is the top-level table, Node(v, levels) the entry of page v.             *)
Levels == sysParam.levels
Node(v, n) == SubSeq(Path(v), 1, n)

(* A path has an index for each level. *)
LEMMA PathIsSequence ==
  ASSUME sysParam \in Shapes, NEW v \in Pages
  PROVE  Levels \in 1 .. 3 /\ Path(v) \in Seq(Int) /\ Len(Path(v)) = Levels
<1> DEFINE a == <<FirstIndex(v), SecondIndex(v), ThirdIndex(v)>>
<1>1. Levels \in 1 .. 3 /\ Path(v) = SubSeq(a, 1, Levels)
  BY PathShape DEF Levels
<1>2. a \in Seq(Int) /\ Len(a) = 3
  BY PathShape, TripleOfInts
<1> HIDE DEF a
<1>3. \A i \in 1 .. Levels : a[i] \in Int
  BY <1>1, <1>2
<1>4. SubSeq(a, 1, Levels) \in Seq(Int) /\ Len(SubSeq(a, 1, Levels)) = Levels
  BY <1>1, <1>3, SubSeqProperties
<1> QED
  BY <1>1, <1>4

(* The nodes on one path. *)
LEMMA NodesOfPath ==
  ASSUME sysParam \in Shapes, NEW v \in Pages
  PROVE  /\ Node(v, 0) = <<>>
         /\ Node(v, Levels) = Path(v)
         /\ \A n \in 0 .. Levels : Node(v, n) \in Seq(Int) /\ Len(Node(v, n)) = n
         /\ \A n \in 0 .. Levels, k \in 0 .. 3 :
              k <= n => SubSeq(Node(v, n), 1, k) = Node(v, k)
<1>1. Levels \in 1 .. 3 /\ Path(v) \in Seq(Int) /\ Len(Path(v)) = Levels
  BY PathIsSequence
<1>2. Node(v, 0) = <<>>
  BY SubSeqEmpty DEF Node
<1>3. Node(v, Levels) = Path(v)
  BY <1>1, SubSeqFull DEF Node
<1>4. ASSUME NEW n \in 0 .. Levels
      PROVE  Node(v, n) \in Seq(Int) /\ Len(Node(v, n)) = n
  <2>1. \A i \in 1 .. n : Path(v)[i] \in Int
    BY <1>1
  <2> QED
    BY <1>1, <2>1, SubSeqProperties DEF Node
<1>5. ASSUME NEW n \in 0 .. Levels, NEW k \in 0 .. 3, k <= n
      PROVE  SubSeq(Node(v, n), 1, k) = Node(v, k)
  <2>1. CASE k = 0
    BY <2>1, SubSeqEmpty DEF Node
  <2>2. CASE k > 0
    <3>1. /\ 1 \in 1 .. Len(Path(v)) /\ n \in 1 .. Len(Path(v))
          /\ 1 \in 1 .. n - 1 + 1 /\ k \in 1 .. n - 1 + 1
      BY <1>1, <1>5, <2>2
    <3>2. SubSeq(SubSeq(Path(v), 1, n), 1, k) = SubSeq(Path(v), 1 + 1 - 1, 1 + k - 1)
      BY <1>1, <3>1, SubSeqOfSubSeq
    <3>3. 1 + 1 - 1 = 1 /\ 1 + k - 1 = k
      OBVIOUS
    <3> QED
      BY <3>2, <3>3 DEF Node
  <2> QED
    BY <2>1, <2>2
<1> QED
  BY <1>2, <1>3, <1>4, <1>5

(* Where the nodes of two paths meet. *)
LEMMA NodesMeet ==
  ASSUME sysParam \in Shapes, NEW v \in Pages, NEW w \in Pages,
         NEW n \in 0 .. Levels, NEW k \in 0 .. Levels
  PROVE  /\ Below(Node(v, n), Node(w, k)) <=> n < k /\ Node(v, n) = Node(w, n)
         /\ Node(v, n) = Node(w, k) => n = k
         /\ Node(v, n) = Node(w, n) /\ k <= n => Node(v, k) = Node(w, k)
         /\ Node(v, Levels) = Node(w, Levels) => v = w
<1>1. Levels \in 1 .. 3
  BY PathIsSequence
<1>2. /\ Node(v, n) \in Seq(Int) /\ Len(Node(v, n)) = n
      /\ Node(w, k) \in Seq(Int) /\ Len(Node(w, k)) = k
  BY NodesOfPath
<1>3. SubSeq(Node(v, n), 1, n) = Node(v, n)
  BY <1>2, SubSeqFull
<1>4. n \in 0 .. 3 /\ k \in 0 .. 3
  BY <1>1
<1>5. \A i \in 0 .. Levels, j \in 0 .. 3 :
        j <= i => SubSeq(Node(v, i), 1, j) = Node(v, j)
  BY NodesOfPath
<1>6. \A i \in 0 .. Levels, j \in 0 .. 3 :
        j <= i => SubSeq(Node(w, i), 1, j) = Node(w, j)
  BY NodesOfPath
<1>7. n <= k => SubSeq(Node(w, k), 1, n) = Node(w, n)
  BY <1>4, <1>6
<1>8. Below(Node(v, n), Node(w, k))
        <=> /\ Len(Node(v, n)) <= Len(Node(w, k))
            /\ SubSeq(Node(v, n), 1, Len(Node(v, n))) = SubSeq(Node(w, k), 1, Len(Node(v, n)))
            /\ Node(v, n) # Node(w, k)
  BY DEF Below, IsStrictPrefix, IsPrefix
<1>9. Below(Node(v, n), Node(w, k))
        <=> n <= k /\ Node(v, n) = Node(w, n) /\ Node(v, n) # Node(w, k)
  BY <1>2, <1>3, <1>7, <1>8
<1>10. Node(v, n) = Node(w, k) => n = k
  BY <1>2
<1>11. k <= n => SubSeq(Node(v, n), 1, k) = Node(v, k) /\ SubSeq(Node(w, n), 1, k) = Node(w, k)
  BY <1>4, <1>5, <1>6
<1>12. Node(v, Levels) = Node(w, Levels) => v = w
  BY NodesOfPath, PathsDiffer
<1> QED
  BY <1>1, <1>9, <1>10, <1>11, <1>12

(* Tables and entry of a page, by its nodes. *)
LEMMA TablesAreNodes ==
  ASSUME sysParam \in Shapes, NEW v \in Pages
  PROVE  Tables(Path(v)) = {Node(v, n) : n \in 0 .. Levels - 1}
BY DEF Tables, Node, Levels

-----------------------------------------------------------------------------
Mapped(m) == {v \in Pages : m[v] # NoFrame}

(* Every table and every entry of a mapped page is there. *)
Complete(t, m) ==
  /\ t = [tables |-> t.tables, entries |-> t.entries]
  /\ DOMAIN t.entries = {Node(v, Levels) : v \in Mapped(m)}
  /\ \A v \in Mapped(m) : t.entries[Node(v, Levels)] = m[v]
  /\ \A v \in Mapped(m), n \in 0 .. Levels - 1 : Node(v, n) \in t.tables

(* Table s is the top-level one or on the way to a mapped page. *)
InUse(s, m) ==
  s = <<>> \/ \E v \in Mapped(m), n \in 1 .. Levels - 1 : s = Node(v, n)

(* The tree t holds the page table m, and no table for nothing. *)
Represents(t, m) == Complete(t, m) /\ \A s \in t.tables : InUse(s, m)

(* As Represents, but for tables on the path of v, down to depth k. *)
Almost(t, m, v, k) ==
  /\ Complete(t, m)
  /\ \A s \in t.tables : InUse(s, m) \/ \E n \in 1 .. Levels - 1 : n <= k /\ s = Node(v, n)

(* A process without a page in memory may have no tree at all. *)
LEMMA NoTreeRepresents ==
  ASSUME NEW m, Mapped(m) = {}
  PROVE  Represents(NoTree, m)
<1>1. NoTree.tables = {} /\ DOMAIN NoTree.entries = {}
  BY DEF NoTree
<1>2. NoTree = [tables |-> NoTree.tables, entries |-> NoTree.entries]
  BY DEF NoTree
<1> QED
  BY <1>1, <1>2 DEF Represents, Complete

(* findPTE answers for a tree what the page table it represents says. *)
LEMMA FindsEntry ==
  ASSUME sysParam \in Shapes, NEW t, NEW m, Complete(t, m), NEW v \in Pages
  PROVE  findPTE(t, v) = m[v]
<1>1. Path(v) = Node(v, Levels)
  BY NodesOfPath
<1>2. Levels \in 1 .. 3
  BY PathIsSequence
<1>3. CASE v \in Mapped(m)
  <2>1. Tables(Path(v)) \subseteq t.tables
    BY <1>3, TablesAreNodes DEF Complete
  <2>2. Path(v) \in DOMAIN t.entries /\ t.entries[Path(v)] = m[v]
    BY <1>1, <1>3 DEF Complete
  <2> QED
    BY <2>1, <2>2 DEF findPTE
<1>4. CASE v \notin Mapped(m)
  <2>1. m[v] = NoFrame
    BY <1>4 DEF Mapped
  <2>2. ASSUME Path(v) \in DOMAIN t.entries PROVE FALSE
    <3>1. PICK w \in Mapped(m) : Node(v, Levels) = Node(w, Levels)
      BY <1>1, <2>2 DEF Complete
    <3>2. w \in Pages /\ Levels \in 0 .. Levels
      BY <1>2, <3>1 DEF Mapped
    <3>3. v = w
      BY <3>1, <3>2, NodesMeet
    <3> QED
      BY <1>4, <3>1, <3>3
  <2> QED
    BY <2>1, <2>2 DEF findPTE
<1> QED
  BY <1>3, <1>4

(* A table below which nothing mapped lies can only be the top-level one.  *)
LEMMA AddRepresents ==
  ASSUME sysParam \in Shapes, NEW t, NEW m, NEW v \in Pages, NEW f,
         m \in [Pages -> Frames \cup {NoFrame}], f \in Frames,
         Represents(t, m), m[v] = NoFrame
  PROVE  Represents(addPTE(t, v, f), [m EXCEPT ![v] = f])
<1> DEFINE path == Path(v)
           new == Tables(path) \ t.tables
           kept == {e \in DOMAIN t.entries : \A table \in new : ~Below(table, e)}
           left == {table \in t.tables : \A n \in new : ~Below(n, table)}
           after == addPTE(t, v, f)
           m2 == [m EXCEPT ![v] = f]
<1>1. /\ after.tables = left \cup new
      /\ after.entries = [e \in kept \cup {path} |-> IF e = path THEN f ELSE t.entries[e]]
      /\ after = [tables |-> after.tables, entries |-> after.entries]
  BY DEF addPTE
<1>2. /\ Levels \in 1 .. 3 /\ path = Node(v, Levels) /\ Node(v, 0) = <<>>
      /\ Tables(path) = {Node(v, n) : n \in 0 .. Levels - 1}
  BY PathIsSequence, NodesOfPath, TablesAreNodes
<1>3. Mapped(m2) = Mapped(m) \cup {v} /\ v \notin Mapped(m)
  BY PagingAssumption DEF Mapped
<1>4. \A w \in Mapped(m) : w \in Pages /\ m2[w] = m[w]
  BY <1>3 DEF Mapped
<1>5. m2[v] = f
  OBVIOUS
(* A new table is above nothing: it would be on the way to a mapped page.  *)
<1>6. ASSUME NEW table \in new, NEW w \in Mapped(m), NEW k \in 0 .. Levels
      PROVE  ~Below(table, Node(w, k))
  <2>1. PICK n \in 0 .. Levels - 1 : table = Node(v, n)
    BY <1>2
  <2>2. n \in 0 .. Levels /\ w \in Pages
    BY <1>2, <1>4
  <2>3. Node(v, n) # Node(w, n)
    BY <2>1 DEF Represents, Complete
  <2> QED
    BY <2>1, <2>2, <2>3, NodesMeet
<1>7. kept = DOMAIN t.entries
  <2>1. ASSUME NEW e \in DOMAIN t.entries, NEW table \in new PROVE ~Below(table, e)
    <3>1. PICK w \in Mapped(m) : e = Node(w, Levels)
      BY DEF Represents, Complete
    <3>2. Levels \in 0 .. Levels
      BY <1>2
    <3> QED
      BY <1>6, <3>1, <3>2
  <2> QED
    BY <2>1
<1>8. left = t.tables
  <2>1. ASSUME NEW s \in t.tables, NEW table \in new PROVE ~Below(table, s)
    <3>1. CASE s = <<>>
      <4>1. PICK n \in 0 .. Levels - 1 : table = Node(v, n)
        BY <1>2
      <4>2. n \in 0 .. Levels /\ 0 \in 0 .. Levels /\ ~(n < 0)
        BY <1>2
      <4> QED
        BY <1>2, <3>1, <4>1, <4>2, NodesMeet
    <3>2. CASE \E w \in Mapped(m), k \in 1 .. Levels - 1 : s = Node(w, k)
      <4>1. PICK w \in Mapped(m), k \in 1 .. Levels - 1 : s = Node(w, k)
        BY <3>2
      <4>2. k \in 0 .. Levels
        BY <1>2
      <4> QED
        BY <1>6, <4>1, <4>2
    <3> QED
      BY <3>1, <3>2 DEF Represents, InUse
  <2> QED
    BY <2>1
<1> HIDE DEF after, kept, left, new, path, m2
<1>9. DOMAIN after.entries = {Node(w, Levels) : w \in Mapped(m2)}
  BY <1>1, <1>2, <1>3, <1>7 DEF Represents, Complete
<1>10. ASSUME NEW w \in Mapped(m2) PROVE after.entries[Node(w, Levels)] = m2[w]
  <2>1. CASE w = v
    BY <1>1, <1>2, <1>5, <2>1
  <2>2. CASE w # v
    <3>1. w \in Mapped(m) /\ Levels \in 0 .. Levels
      BY <1>2, <1>3, <2>2
    <3>2. Node(w, Levels) \in DOMAIN t.entries /\ t.entries[Node(w, Levels)] = m[w]
      BY <3>1 DEF Represents, Complete
    <3>3. Node(w, Levels) # path
      BY <1>2, <1>4, <2>2, <3>1, NodesMeet
    <3> QED
      BY <1>1, <1>4, <1>7, <3>1, <3>2, <3>3
  <2> QED
    BY <2>1, <2>2
<1>11. after.tables = t.tables \cup Tables(path)
  BY <1>1, <1>8 DEF new
<1>12. ASSUME NEW w \in Mapped(m2), NEW n \in 0 .. Levels - 1
       PROVE  Node(w, n) \in after.tables
  BY <1>2, <1>3, <1>11 DEF Represents, Complete
<1>13. ASSUME NEW s \in after.tables PROVE InUse(s, m2)
  <2>1. CASE s \in t.tables
    BY <1>3, <2>1 DEF Represents, InUse
  <2>2. CASE s \in Tables(path)
    <3>1. PICK n \in 0 .. Levels - 1 : s = Node(v, n)
      BY <1>2, <2>2
    <3>2. n = 0 \/ n \in 1 .. Levels - 1
      BY <1>2
    <3> QED
      BY <1>2, <1>3, <3>1, <3>2 DEF InUse
  <2> QED
    BY <1>11, <2>1, <2>2
<1>14. Represents(after, m2)
  BY <1>1, <1>9, <1>10, <1>12, <1>13 DEF Represents, Complete
<1> QED
  BY <1>14 DEF after, m2

-----------------------------------------------------------------------------
(* Taking out an entry leaves the tables on its way. *)
LEMMA TakeOut ==
  ASSUME sysParam \in Shapes, NEW t, NEW m, NEW v \in Pages,
         m \in [Pages -> Frames \cup {NoFrame}], Represents(t, m), m[v] # NoFrame
  PROVE  Almost([t EXCEPT !.entries = Restrict(@, DOMAIN @ \ {Path(v)})],
                [m EXCEPT ![v] = NoFrame], v, 2)
<1> DEFINE left == DOMAIN t.entries \ {Path(v)}
           after == [t EXCEPT !.entries = Restrict(@, DOMAIN @ \ {Path(v)})]
           m2 == [m EXCEPT ![v] = NoFrame]
<1>1. t = [tables |-> t.tables, entries |-> t.entries]
  BY DEF Represents, Complete
<1>2. /\ after.tables = t.tables
      /\ after.entries = [e \in left |-> t.entries[e]]
      /\ after = [tables |-> after.tables, entries |-> after.entries]
  BY <1>1 DEF Restrict
<1>3. Levels \in 1 .. 3 /\ Path(v) = Node(v, Levels) /\ Levels \in 0 .. Levels
  BY PathIsSequence, NodesOfPath
<1>4. Mapped(m2) = Mapped(m) \ {v} /\ v \in Mapped(m)
  BY DEF Mapped
<1>5. \A w \in Mapped(m2) : w \in Mapped(m) /\ w \in Pages /\ w # v /\ m2[w] = m[w]
  BY <1>4 DEF Mapped
<1> HIDE DEF after, m2
<1>6. \A w \in Mapped(m2) : Node(w, Levels) # Path(v)
  BY <1>3, <1>5, NodesMeet
<1>7. left = {Node(w, Levels) : w \in Mapped(m2)}
  <2>1. DOMAIN t.entries = {Node(w, Levels) : w \in Mapped(m)}
    BY DEF Represents, Complete
  <2>2. ASSUME NEW e \in left PROVE \E w \in Mapped(m2) : e = Node(w, Levels)
    <3>1. PICK w \in Mapped(m) : e = Node(w, Levels)
      BY <2>1
    <3>2. w # v
      BY <1>3, <3>1
    <3> QED
      BY <1>4, <3>1, <3>2
  <2>3. \A w \in Mapped(m2) : Node(w, Levels) \in left
    BY <1>5, <1>6, <2>1
  <2> QED
    BY <2>2, <2>3
<1>8. \A w \in Mapped(m2) : after.entries[Node(w, Levels)] = m2[w]
  <2>1. ASSUME NEW w \in Mapped(m2) PROVE after.entries[Node(w, Levels)] = m2[w]
    <3>1. Node(w, Levels) \in left
      BY <1>7
    <3>2. t.entries[Node(w, Levels)] = m[w] /\ m2[w] = m[w]
      BY <1>5 DEF Represents, Complete
    <3> QED
      BY <1>2, <3>1, <3>2
  <2> QED
    BY <2>1
<1>9. Complete(after, m2)
  BY <1>2, <1>5, <1>7, <1>8 DEF Represents, Complete
<1>10. ASSUME NEW s \in after.tables
       PROVE  InUse(s, m2) \/ \E n \in 1 .. Levels - 1 : n <= 2 /\ s = Node(v, n)
  <2>1. CASE s = <<>>
    BY <2>1 DEF InUse
  <2>2. CASE \E w \in Mapped(m), n \in 1 .. Levels - 1 : s = Node(w, n)
    <3>1. PICK w \in Mapped(m), n \in 1 .. Levels - 1 : s = Node(w, n)
      BY <2>2
    <3>2. n <= 2
      BY <1>3
    <3> QED
      BY <1>4, <3>1, <3>2 DEF InUse
  <2> QED
    BY <1>2, <2>1, <2>2 DEF Represents, InUse
<1>11. Almost(after, m2, v, 2)
  BY <1>9, <1>10 DEF Almost
<1> QED
  BY <1>11 DEF after, m2

(* One call of FreeLevel settles the table at its depth: freed when it is  *)
(* empty, and in use when it is not.                                       *)
LEMMA FreeOneLevel ==
  ASSUME sysParam \in Shapes, NEW t, NEW m, NEW v \in Pages, NEW n \in 1 .. 2,
         Almost(t, m, v, n)
  PROVE  Almost(FreeLevel(t, Path(v), n), m, v, n - 1)
<1>1. Levels \in 1 .. 3
  BY PathIsSequence
<1>2. \A w \in Mapped(m) : w \in Pages
  BY DEF Mapped
<1>3. CASE Levels <= n
  <2>1. FreeLevel(t, Path(v), n) = t
    BY <1>1, <1>3 DEF FreeLevel, Levels
  <2>2. \A k \in 1 .. Levels - 1 : k <= n - 1
    BY <1>1, <1>3
  <2> QED
    BY <2>1, <2>2 DEF Almost
<1>4. CASE Levels > n
  <2>1. n \in 1 .. Levels - 1 /\ n \in 0 .. Levels /\ Levels \in 0 .. Levels /\ 0 \in 0 .. Levels
    BY <1>1, <1>4
  <2>2. FreeLevel(t, Path(v), n) = FreeEmpty(t, Node(v, n))
    BY <1>4 DEF FreeLevel, Levels, Node
  <2>3. CASE Empty(t, Node(v, n))
    <3> DEFINE after == [t EXCEPT !.tables = @ \ {Node(v, n)}]
    <3>1. FreeLevel(t, Path(v), n) = after
      BY <2>2, <2>3 DEF FreeEmpty
    <3>2. t = [tables |-> t.tables, entries |-> t.entries]
      BY DEF Almost, Complete
    <3>3. /\ after.tables = t.tables \ {Node(v, n)} /\ after.entries = t.entries
          /\ after = [tables |-> after.tables, entries |-> after.entries]
      BY <3>2
    <3> HIDE DEF after
    <3>4. ASSUME NEW w \in Mapped(m), NEW k \in 0 .. Levels - 1 PROVE Node(w, k) # Node(v, n)
      <4>1. SUFFICES ASSUME Node(v, n) = Node(w, k) PROVE FALSE
        OBVIOUS
      <4>2. k \in 0 .. Levels
        BY <1>1
      <4>3. n = k
        BY <1>2, <2>1, <4>1, <4>2, NodesMeet
      <4>4. Below(Node(v, n), Node(w, Levels))
        BY <1>2, <1>4, <2>1, <4>1, <4>3, NodesMeet
      <4>5. Node(w, Levels) \in DOMAIN t.entries
        BY DEF Almost, Complete
      <4> QED
        BY <2>3, <4>4, <4>5 DEF Empty
    <3>5. Complete(after, m)
      BY <3>3, <3>4 DEF Almost, Complete
    <3>6. ASSUME NEW s \in after.tables, ~InUse(s, m)
          PROVE  \E k \in 1 .. Levels - 1 : k <= n - 1 /\ s = Node(v, k)
      <4>1. PICK k \in 1 .. Levels - 1 : k <= n /\ s = Node(v, k)
        BY <3>3, <3>6 DEF Almost
      <4>2. k # n
        BY <3>3, <4>1
      <4> QED
        BY <1>1, <4>1, <4>2
    <3> QED
      BY <3>1, <3>5, <3>6 DEF Almost
  <2>4. CASE ~Empty(t, Node(v, n))
    <3>1. FreeLevel(t, Path(v), n) = t
      BY <2>2, <2>4 DEF FreeEmpty
    <3>2. PICK child \in t.tables \cup DOMAIN t.entries : Below(Node(v, n), child)
      BY <2>4 DEF Empty
    <3>3. child # <<>>
      <4>1. Node(v, 0) = <<>> /\ ~(n < 0)
        BY NodesOfPath
      <4> QED
        BY <2>1, <3>2, <4>1, NodesMeet
    <3>4. ASSUME NEW k \in 1 .. Levels - 1, k <= n PROVE child # Node(v, k)
      <4>1. k \in 0 .. Levels /\ ~(n < k)
        BY <1>1, <3>4
      <4> QED
        BY <2>1, <3>2, <4>1, NodesMeet
    <3>5. \E w \in Mapped(m), k \in 0 .. Levels : child = Node(w, k)
      <4>1. CASE child \in DOMAIN t.entries
        BY <2>1, <4>1 DEF Almost, Complete
      <4>2. CASE child \in t.tables
        <5>1. InUse(child, m)
          BY <3>4, <4>2 DEF Almost
        <5>2. PICK w \in Mapped(m), k \in 1 .. Levels - 1 : child = Node(w, k)
          BY <3>3, <5>1 DEF InUse
        <5>3. k \in 0 .. Levels
          BY <1>1
        <5> QED
          BY <5>2, <5>3
      <4> QED
        BY <3>2, <4>1, <4>2
    <3>6. PICK w \in Mapped(m), k \in 0 .. Levels : child = Node(w, k)
      BY <3>5
    <3>7. Node(v, n) = Node(w, n)
      BY <1>2, <2>1, <3>2, <3>6, NodesMeet
    <3>8. InUse(Node(v, n), m)
      BY <2>1, <3>6, <3>7 DEF InUse
    <3>9. ASSUME NEW s \in t.tables, ~InUse(s, m)
          PROVE  \E i \in 1 .. Levels - 1 : i <= n - 1 /\ s = Node(v, i)
      <4>1. PICK i \in 1 .. Levels - 1 : i <= n /\ s = Node(v, i)
        BY <3>9 DEF Almost
      <4>2. i # n
        BY <3>8, <3>9, <4>1
      <4> QED
        BY <1>1, <4>1, <4>2
    <3> QED
      BY <3>1, <3>9 DEF Almost
  <2> QED
    BY <2>3, <2>4
<1> QED
  BY <1>1, <1>3, <1>4

(* Down to depth 0 there is no table but the top-level one. *)
LEMMA NothingAlmost ==
  ASSUME sysParam \in Shapes, NEW t, NEW m, NEW v, Almost(t, m, v, 0)
  PROVE  Represents(t, m)
<1>1. \A n \in 1 .. Levels - 1 : ~(n <= 0)
  OBVIOUS
<1> QED
  BY <1>1 DEF Almost, Represents

(* deletePTE takes the entry of v out, and every table that only v used.    *)
LEMMA DeleteRepresents ==
  ASSUME sysParam \in Shapes, NEW t, NEW m, NEW v \in Pages,
         m \in [Pages -> Frames \cup {NoFrame}], Represents(t, m), m[v] # NoFrame
  PROVE  Represents(deletePTE(t, v), [m EXCEPT ![v] = NoFrame])
<1> DEFINE m2 == [m EXCEPT ![v] = NoFrame]
           t2 == [t EXCEPT !.entries = Restrict(@, DOMAIN @ \ {Path(v)})]
           t1 == FreeLevel(t2, Path(v), 2)
           t0 == FreeLevel(t1, Path(v), 1)
<1>1. findPTE(t, v) # NoFrame
  BY FindsEntry DEF Represents
<1>2. deletePTE(t, v) = t0
  BY <1>1 DEF deletePTE
<1>3. Almost(t2, m2, v, 2)
  BY TakeOut
<1> HIDE DEF t2, m2
<1>4. Almost(t1, m2, v, 1)
  <2>1. 2 \in 1 .. 2 /\ 2 - 1 = 1
    OBVIOUS
  <2> QED
    BY <1>3, <2>1, FreeOneLevel
<1> HIDE DEF t1
<1>5. Almost(t0, m2, v, 0)
  <2>1. 1 \in 1 .. 2 /\ 1 - 1 = 0
    OBVIOUS
  <2> QED
    BY <1>4, <2>1, FreeOneLevel
<1> HIDE DEF t0
<1>6. Represents(t0, m2)
  BY <1>5, NothingAlmost
<1> QED
  BY <1>2, <1>6 DEF m2

(* cleanUpProcess reaches, and frees, every table and every entry. *)
LEMMA FreesAll ==
  ASSUME sysParam \in Shapes, NEW t, NEW m, Represents(t, m)
  PROVE  FreeTree(t) = NoTree
<1>1. Levels \in 1 .. 3 \/ Mapped(m) = {}
  BY PathIsSequence DEF Mapped
<1>2. \A w \in Mapped(m) : w \in Pages
  BY DEF Mapped
<1>3. ASSUME NEW e \in DOMAIN t.entries PROVE Tables(e) \subseteq t.tables
  <2>1. PICK w \in Mapped(m) : e = Node(w, Levels)
    BY DEF Represents, Complete
  <2>2. e = Path(w)
    BY <1>2, <2>1, NodesOfPath
  <2> QED
    BY <1>2, <2>1, <2>2, TablesAreNodes DEF Represents, Complete
<1>4. ASSUME NEW s \in t.tables, NEW k \in 0 .. Len(s)
      PROVE  SubSeq(s, 1, k) \in t.tables
  <2>1. CASE s = <<>>
    <3>1. k = 0
      BY <2>1
    <3>2. SubSeq(s, 1, 0) = <<>>
      BY SubSeqEmpty
    <3> QED
      BY <2>1, <3>1, <3>2
  <2>2. CASE \E w \in Mapped(m), n \in 1 .. Levels - 1 : s = Node(w, n)
    <3>1. PICK w \in Mapped(m), n \in 1 .. Levels - 1 : s = Node(w, n)
      BY <2>2
    <3>2. Levels \in 1 .. 3 /\ n \in 0 .. Levels
      BY <1>1, <3>1
    <3>3. Len(s) = n
      BY <1>2, <3>1, <3>2, NodesOfPath
    <3>4. k \in 0 .. 3 /\ k <= n /\ k \in 0 .. Levels - 1
      BY <3>2, <3>3
    <3>5. SubSeq(s, 1, k) = Node(w, k)
      BY <1>2, <3>1, <3>2, <3>4, NodesOfPath
    <3> QED
      BY <3>4, <3>5 DEF Represents, Complete
  <2> QED
    BY <2>1, <2>2 DEF Represents, InUse
<1>5. {s \in t.tables : ~(\A n \in 0 .. Len(s) : SubSeq(s, 1, n) \in t.tables)} = {}
  BY <1>4
<1>6. DOMAIN t.entries \ {e \in DOMAIN t.entries : Tables(e) \subseteq t.tables} = {}
  BY <1>3
<1>7. Restrict(t.entries, {}) = [e \in {} |-> NoFrame]
  BY DEF Restrict
<1> QED
  BY <1>5, <1>6, <1>7 DEF FreeTree, NoTree

-----------------------------------------------------------------------------
(* The inductive invariant: the tree of every process is its page table,   *)
(* and that of a process which has finished is gone.                       *)
TreeInv ==
  /\ TypeOK
  /\ FramesMatchTables
  /\ sysParam \in Shapes
  /\ tree = [p \in Procs |-> tree[p]]
  /\ \A p \in Procs : Represents(tree[p], pageTable[p])
  /\ \A p \in Procs \ live : tree[p] = NoTree /\ Mapped(pageTable[p]) = {}

(* The shape of the trees never changes. *)
LEMMA SameShape ==
  ASSUME sysParam' = sysParam
  PROVE  \A p \in Procs : Represents(tree'[p], pageTable'[p]) => Represents(tree[p], pageTable[p])'
<1>1. Levels' = Levels
  BY DEF Levels
<1>2. \A v \in Pages : Path(v)' = Path(v)
  BY DEF Path
<1>3. \A v \in Pages : \A n : Node(v, n)' = Node(v, n)
  BY <1>2 DEF Node
<1> SUFFICES ASSUME NEW p \in Procs, Represents(tree'[p], pageTable'[p])
             PROVE  Represents(tree[p], pageTable[p])'
  OBVIOUS
<1> DEFINE t == tree[p]
           m == pageTable[p]
<1>4. Complete(t, m)'
  BY <1>1, <1>3 DEF Represents, Complete, Mapped
<1>5. \A s \in t'.tables : InUse(s, m)'
  BY <1>1, <1>3 DEF Represents, InUse, Mapped
<1> QED
  BY <1>4, <1>5 DEF Represents

(* A page table that does not change keeps its tree. *)
LEMMA TreeInvKept ==
  ASSUME TreeInv, UNCHANGED <<sysParam, tree>>, pageTable' = pageTable, live' = live,
         [Next]_pagingVars
  PROVE  TreeInv'
<1>1. TypeOK' /\ FramesMatchTables'
  BY TypeStep, MatchStep DEF TreeInv
<1>2. \A p \in Procs : Represents(tree'[p], pageTable'[p])
  BY DEF TreeInv
<1>3. \A p \in Procs : Represents(tree[p], pageTable[p])'
  BY <1>2, SameShape
<1> QED
  BY <1>1, <1>3 DEF TreeInv, Mapped

(* At the start nothing is mapped and nothing allocated. *)
LEMMA InitTrees == TreeInit => TreeInv
<1> SUFFICES ASSUME TreeInit PROVE TreeInv
  OBVIOUS
<1>1. TypeOK /\ FramesMatchTables
  BY ConsistentInit DEF TreeInit, Consistent
<1>2. \A p \in Procs : tree[p] = NoTree /\ Mapped(pageTable[p]) = {}
  BY DEF TreeInit, Init, Mapped
<1>3. \A p \in Procs : Represents(tree[p], pageTable[p])
  BY <1>2, NoTreeRepresents
<1> QED
  BY <1>1, <1>2, <1>3 DEF TreeInit, TreeInv

(* The page that leaves frame f leaves the tree of its process.            *)
LEMMA EvictedRepresents ==
  ASSUME TreeInv, NEW f \in Frames
  PROVE  /\ Evicted(f) = [p \in Procs |-> Evicted(f)[p]]
         /\ \A p \in Procs : Represents(Evicted(f)[p], TablesWithout(f)[p])
         /\ \A p \in Procs \ live : Evicted(f)[p] = NoTree /\ TablesWithout(f)[p] = pageTable[p]
<1>1. /\ sysParam \in Shapes /\ tree = [p \in Procs |-> tree[p]]
      /\ \A p \in Procs : Represents(tree[p], pageTable[p])
      /\ \A p \in Procs \ live : tree[p] = NoTree /\ Mapped(pageTable[p]) = {}
  BY DEF TreeInv
<1>2. pageTable \in PageTables /\ frames[f] \in (Procs \X Pages) \cup {Free} /\ live \subseteq Procs
  BY DEF TreeInv, TypeOK, PageTables
<1>3. ASSUME NEW p \in Procs, p \notin live \/ \A v \in Pages : frames[f] # <<p, v>>
      PROVE  TablesWithout(f)[p] = pageTable[p]
  <2>1. TablesWithout(f)[p] = [v \in Pages |-> pageTable[p][v]]
    BY <1>3 DEF TablesWithout
  <2>2. pageTable[p] \in [Pages -> Frames \cup {NoFrame}]
    BY <1>2 DEF PageTables
  <2> QED
    BY <2>1, <2>2
<1>4. CASE frames[f] = Free
  <2>1. Evicted(f) = tree
    BY <1>4 DEF Evicted
  <2>2. \A p \in Procs, v \in Pages : frames[f] # <<p, v>>
    BY <1>4, PagingAssumption
  <2> QED
    BY <1>1, <1>3, <2>1, <2>2
<1>5. CASE frames[f] # Free
  <2>1. PICK q \in Procs, w \in Pages : frames[f] = <<q, w>>
    BY <1>2, <1>5
  <2>2. Evicted(f) = [tree EXCEPT ![q] = deletePTE(@, w)]
    BY <1>5, <2>1 DEF Evicted
  <2>3. Evicted(f) = [p \in Procs |-> IF p = q THEN deletePTE(tree[q], w) ELSE tree[p]]
    BY <1>1, <2>2
  <2>4. \A p \in Procs : p # q => TablesWithout(f)[p] = pageTable[p]
    BY <1>3, <2>1
  <2>5. CASE q \in live
    <3>1. pageTable[q][w] = f /\ f # NoFrame
      BY <2>1, <2>5, PagingAssumption DEF TreeInv, FramesMatchTables
    <3>2. pageTable[q] \in [Pages -> Frames \cup {NoFrame}]
      BY <1>2 DEF PageTables
    <3>3. Represents(deletePTE(tree[q], w), [pageTable[q] EXCEPT ![w] = NoFrame])
      BY <1>1, <3>1, <3>2, DeleteRepresents
    <3>4. TablesWithout(f)[q] = [pageTable[q] EXCEPT ![w] = NoFrame]
      <4>1. TablesWithout(f)[q] = [v \in Pages |-> IF v = w THEN NoFrame ELSE pageTable[q][v]]
        BY <2>1, <2>5 DEF TablesWithout
      <4> QED
        BY <3>2, <4>1
    <3> QED
      BY <1>1, <2>3, <2>4, <2>5, <3>3, <3>4
  <2>6. CASE q \notin live
    <3>1. Represents(tree[q], pageTable[q]) /\ Mapped(pageTable[q]) = {}
      BY <1>1, <2>6
    <3>2. pageTable[q][w] = NoFrame
      BY <3>1 DEF Mapped
    <3>3. findPTE(tree[q], w) = NoFrame
      BY <1>1, <3>1, <3>2, FindsEntry DEF Represents
    <3>4. deletePTE(tree[q], w) = tree[q]
      BY <3>3 DEF deletePTE
    <3>5. Evicted(f) = tree
      BY <1>1, <2>3, <3>4
    <3>6. \A p \in Procs : TablesWithout(f)[p] = pageTable[p]
      BY <1>3, <2>4, <2>6
    <3> QED
      BY <1>1, <3>5, <3>6
  <2> QED
    BY <2>5, <2>6
<1> QED
  BY <1>4, <1>5

(* diskToMemory: an eviction from one tree, then an entry in another or in the same. *)
LEMMA LoadTrees ==
  ASSUME TreeInv, NEW p \in Procs, NEW v \in Pages, NEW f \in Frames, TreeLoad(p, v, f)
  PROVE  TreeInv'
<1>1. TypeOK' /\ FramesMatchTables'
  <2>1. Load(p, v, f)
    BY DEF TreeLoad
  <2>2. [Next]_pagingVars
    BY <2>1 DEF Next
  <2> QED
    BY <2>2, TypeStep, MatchStep DEF TreeInv
<1>2. /\ sysParam' = sysParam /\ live' = live /\ p \in live /\ pageTable[p][v] = NoFrame
      /\ pageTable' = [TablesWithout(f) EXCEPT ![p][v] = f]
      /\ tree' = [Evicted(f) EXCEPT ![p] = addPTE(@, v, f)]
  BY DEF TreeLoad, Load
<1>3. /\ Evicted(f) = [q \in Procs |-> Evicted(f)[q]]
      /\ \A q \in Procs : Represents(Evicted(f)[q], TablesWithout(f)[q])
      /\ \A q \in Procs \ live : Evicted(f)[q] = NoTree /\ TablesWithout(f)[q] = pageTable[q]
  BY EvictedRepresents
<1>4. sysParam \in Shapes /\ pageTable \in PageTables
  BY DEF TreeInv, TypeOK, PageTables
<1>5. TablesWithout(f) \in PageTables /\ TablesWithout(f)[p][v] = NoFrame
  BY <1>2, <1>4 DEF TablesWithout, PageTables
<1> DEFINE before == Evicted(f)
           without == TablesWithout(f)
<1> HIDE DEF before, without
<1>6. tree' = [q \in Procs |-> IF q = p THEN addPTE(before[p], v, f) ELSE before[q]]
  BY <1>2, <1>3 DEF before
<1>7. pageTable' = [q \in Procs |-> IF q = p THEN [without[p] EXCEPT ![v] = f] ELSE without[q]]
  BY <1>2, <1>5 DEF without, PageTables
<1>8. Represents(addPTE(before[p], v, f), [without[p] EXCEPT ![v] = f])
  <2>1. without[p] \in [Pages -> Frames \cup {NoFrame}]
    BY <1>5 DEF without, PageTables
  <2> QED
    BY <1>3, <1>4, <1>5, <2>1, AddRepresents DEF before, without
<1>9. \A q \in Procs : Represents(tree'[q], pageTable'[q])
  BY <1>3, <1>6, <1>7, <1>8 DEF before, without
<1>10. \A q \in Procs : Represents(tree[q], pageTable[q])'
  BY <1>2, <1>9, SameShape
<1>11. \A q \in Procs \ live : tree'[q] = NoTree /\ pageTable'[q] = pageTable[q]
  BY <1>2, <1>3, <1>6, <1>7 DEF before, without
<1>12. \A q \in Procs \ live' : tree'[q] = NoTree /\ Mapped(pageTable'[q]) = {}
  BY <1>2, <1>11 DEF TreeInv
<1>13. tree' = [q \in Procs |-> tree'[q]]
  BY <1>6
<1> QED
  BY <1>1, <1>2, <1>4, <1>10, <1>12, <1>13 DEF TreeInv, Mapped

(* cleanUpProcess leaves nothing of the tree. *)
LEMMA ExitTrees ==
  ASSUME TreeInv, NEW p \in Procs, TreeExit(p)
  PROVE  TreeInv'
<1>1. TypeOK' /\ FramesMatchTables'
  <2>1. Exit(p)
    BY DEF TreeExit
  <2>2. [Next]_pagingVars
    BY <2>1 DEF Next
  <2> QED
    BY <2>2, TypeStep, MatchStep DEF TreeInv
<1>2. /\ sysParam' = sysParam /\ live' = live \ {p}
      /\ pageTable' = [pageTable EXCEPT ![p] = [v \in Pages |-> NoFrame]]
      /\ tree' = [tree EXCEPT ![p] = FreeTree(@)]
  BY DEF TreeExit, Exit
<1>3. /\ sysParam \in Shapes /\ pageTable \in PageTables /\ tree = [q \in Procs |-> tree[q]]
      /\ \A q \in Procs : Represents(tree[q], pageTable[q])
  BY DEF TreeInv, TypeOK, PageTables
<1>4. FreeTree(tree[p]) = NoTree
  BY <1>3, FreesAll
<1>5. tree' = [q \in Procs |-> IF q = p THEN NoTree ELSE tree[q]]
  BY <1>2, <1>3, <1>4
<1>6. pageTable' = [q \in Procs |-> IF q = p THEN [v \in Pages |-> NoFrame] ELSE pageTable[q]]
  BY <1>2, <1>3 DEF PageTables
<1>7. tree'[p] = NoTree /\ Mapped(pageTable'[p]) = {}
  BY <1>5, <1>6 DEF Mapped
<1>8. \A q \in Procs : Represents(tree'[q], pageTable'[q])
  BY <1>3, <1>5, <1>6, <1>7, NoTreeRepresents
<1>9. \A q \in Procs : Represents(tree[q], pageTable[q])'
  BY <1>2, <1>8, SameShape
<1>10. \A q \in Procs \ live' : tree'[q] = NoTree /\ Mapped(pageTable'[q]) = {}
  BY <1>2, <1>5, <1>6, <1>7 DEF TreeInv
<1>11. tree' = [q \in Procs |-> tree'[q]]
  BY <1>5
<1> QED
  BY <1>1, <1>2, <1>3, <1>9, <1>10, <1>11 DEF TreeInv, Mapped

(* Every step keeps the trees in agreement with the page tables. *)
LEMMA TreesInductive == TreeSpec => []TreeInv
<1>1. TreeInv /\ [TreeNext]_treeVars => TreeInv'
  <2> SUFFICES ASSUME TreeInv, [TreeNext]_treeVars PROVE TreeInv'
    OBVIOUS
  <2>1. ASSUME NEW p \in Procs, TreeSwitch(p) PROVE TreeInv'
    <3>1. Switch(p) /\ UNCHANGED <<sysParam, tree, pageTable, live>>
      BY <2>1 DEF TreeSwitch, Switch
    <3>2. [Next]_pagingVars
      BY <3>1 DEF Next
    <3> QED
      BY <3>1, <3>2, TreeInvKept
  <2>2. ASSUME NEW v \in Pages, TreeFill(v) PROVE TreeInv'
    <3>1. Fill(v) /\ UNCHANGED <<sysParam, tree, pageTable, live>>
      BY <2>2 DEF TreeFill, Fill
    <3>2. [Next]_pagingVars
      BY <3>1 DEF Next
    <3> QED
      BY <3>1, <3>2, TreeInvKept
  <2>3. ASSUME UNCHANGED treeVars PROVE TreeInv'
    <3>1. UNCHANGED <<sysParam, tree, pageTable, live>> /\ UNCHANGED pagingVars
      BY <2>3 DEF treeVars, pagingVars
    <3> QED
      BY <3>1, TreeInvKept
  <2> QED
    BY <2>1, <2>2, <2>3, LoadTrees, ExitTrees DEF TreeNext
<1> QED
  BY InitTrees, <1>1, PTL DEF TreeSpec

(* Whatever pages were loaded and evicted and however the bits of a page    *)
(* number are split over one to three levels, findPTE finds the frame of    *)
(* every page that is in memory, and none for any other page.               *)
THEOREM TreesTranslate == TreeSpec => []Translates
<1>1. TreeInv => Translates
  BY FindsEntry DEF TreeInv, Represents, Translates
<1> QED
  BY <1>1, TreesInductive, PTL

(* addPTE, deletePTE and cleanUpProcess keep exactly the tables that the    *)
(* pages in memory need: no table is lost, none is kept for nothing, none   *)
(* is freed while an entry is in it.                                        *)
THEOREM TreesLeakNothing == TreeSpec => []NothingLeaks
<1>1. TreeInv => NothingLeaks
  <2> SUFFICES ASSUME TreeInv, NEW p \in Procs
               PROVE  /\ \A table \in tree[p].tables :
                           /\ table # <<>> => ~Empty(tree[p], table)
                                              /\ Front(table) \in tree[p].tables
                      /\ \A e \in DOMAIN tree[p].entries : Tables(e) \subseteq tree[p].tables
                      /\ p \notin live => tree[p] = NoTree
    BY DEF NothingLeaks
  <2> DEFINE t == tree[p]
             m == pageTable[p]
  <2>1. sysParam \in Shapes /\ Represents(t, m) /\ (p \notin live => t = NoTree)
    BY DEF TreeInv
  <2> HIDE DEF t, m
  <2>2. \A w \in Mapped(m) : w \in Pages
    BY DEF Mapped
  <2>3. ASSUME NEW table \in t.tables, table # <<>>
        PROVE  ~Empty(t, table) /\ Front(table) \in t.tables
    <3>1. PICK w \in Mapped(m), n \in 1 .. Levels - 1 : table = Node(w, n)
      BY <2>1, <2>3 DEF Represents, InUse
    <3>2. /\ Levels \in 1 .. 3 /\ n \in 0 .. Levels /\ Levels \in 0 .. Levels /\ n < Levels
          /\ n - 1 \in 0 .. 3 /\ n - 1 <= n /\ n - 1 \in 0 .. Levels - 1
      BY <2>1, <2>2, PathIsSequence
    <3>3. Below(table, Node(w, Levels))
      BY <2>1, <2>2, <3>1, <3>2, NodesMeet
    <3>4. Node(w, Levels) \in DOMAIN t.entries
      BY <2>1 DEF Represents, Complete
    <3>5. Front(table) = Node(w, n - 1)
      BY <2>1, <2>2, <3>1, <3>2, NodesOfPath DEF Front
    <3> QED
      BY <2>1, <3>2, <3>3, <3>4, <3>5 DEF Empty, Represents, Complete
  <2>4. ASSUME NEW e \in DOMAIN t.entries PROVE Tables(e) \subseteq t.tables
    <3>1. PICK w \in Mapped(m) : e = Node(w, Levels)
      BY <2>1 DEF Represents, Complete
    <3>2. e = Path(w)
      BY <2>1, <2>2, <3>1, NodesOfPath
    <3> QED
      BY <2>1, <2>2, <3>1, <3>2, TablesAreNodes DEF Represents, Complete
  <2> QED
    BY <2>1, <2>3, <2>4 DEF t
<1> QED
  BY <1>1, TreesInductive, PTL

(* The trees are page tables as Paging has them: every step of the trees is *)
(* a step of Paging, whose invariants hold of them.                          *)
THEOREM TreesArePaging == TreeSpec => Spec
<1>1. TreeInit => Init
  BY DEF TreeInit
<1>2. [TreeNext]_treeVars => [Next]_pagingVars
  BY DEF TreeNext, TreeSwitch, TreeFill, TreeLoad, TreeExit, Next, treeVars, pagingVars
<1> QED
  BY <1>1, <1>2, PTL DEF TreeSpec, Spec
=============================================================================
