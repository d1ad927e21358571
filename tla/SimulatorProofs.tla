--------------------------- MODULE SimulatorProofs ---------------------------
(***************************************************************************)
(* The simulator for every number of processes, every trace, every size of *)
(* TLB and DRAM, every page replacement and every choice of the latencies. *)
(*                                                                         *)
(* IInv is inductive.  The types alone are not: that an instruction of the *)
(* trace is read within the trace needs Control (a process runs in the     *)
(* phase "run"), that a process is in one list needs Lists (all lists are  *)
(* disjoint and free of repetitions), and that one which left them has     *)
(* used up its trace needs Control again (why it stopped).  The refinement *)
(* of Paging needs that a finished process has no page table (Finished).   *)
(***************************************************************************)
EXTENDS Simulator, FiniteSetTheorems, SetInduction, TLAPS

(* The phases of simulate(). *)
Phases == Procedures \cup DOMAIN AfterDisk

(* What a process's block, an entry of the TLB and a frame of DRAM hold. *)
Process == [next : Nat, fracLeft : Times, blockOccur : Times, user_time : Int]
Entry == [valid : BOOLEAN, time : Times, vpn : Pages \cup {-1}, ppn : Frames \cup {NoFrame}]
Frame == [time : Times, process : Procs \cup {NoProc}, vpn : Pages]

(* Times are words, and next is in the trace or one past its end. *)
Clock ==
  /\ current_time \in Times /\ nextQuanta \in Times
  /\ stopTime \in Times /\ lastStop \in Times
  /\ pcb \in [Procs -> Process]
  /\ \A p \in Procs : pcb[p].next \in 1 .. Len(Program(p)) + 1

(* Valid TLB entries and page tables name frames. *)
MemoryTyped ==
  /\ TLB \in [Entries -> Entry]
  /\ \A i \in Entries : TLB[i].valid => TLB[i].vpn \in Pages /\ TLB[i].ppn \in Frames
  /\ DRAM \in [Frames -> Frame]
  /\ clockHand \in Frames
  /\ pageTable \in [Procs -> [Pages -> Frames \cup {NoFrame}]]

(* No element of a list is in it twice. *)
Once(s) == \A i, j \in 1 .. Len(s) : s[i] = s[j] => i = j

(* A process is in one of the lists, or runs, and only once. *)
Lists ==
  /\ processList \in Seq(Procs) /\ readyProcess \in Seq(Procs) /\ blockedProcess \in Seq(Procs)
  /\ runningProcess \in Procs \cup {NoProc}
  /\ Once(processList) /\ Once(readyProcess) /\ Once(blockedProcess)
  /\ ToSet(processList) \cap ToSet(readyProcess) = {}
  /\ ToSet(processList) \cap ToSet(blockedProcess) = {}
  /\ ToSet(readyProcess) \cap ToSet(blockedProcess) = {}
  /\ runningProcess \notin ToSet(processList) \cup ToSet(readyProcess) \cup ToSet(blockedProcess)

(* In each phase of simulate(), who runs and why it stopped; the TLB is that *)
(* of lastRun.                                                             *)
Control ==
  /\ workload \in Workloads /\ page_replacement_policy \in {"LRU", "clock"}
  /\ pc \in Phases /\ simPause \in {-1, 0, 1, 2, 4}
  /\ lastRun \in Procs /\ (runningProcess # NoProc => lastRun = runningProcess)
  /\ pc = "run" => runningProcess # NoProc /\ simPause \in {1, 4}
  /\ pc \in {"arrivals", "disk", "settle"} =>
       /\ simPause \in {-1, 1, 4} <=> runningProcess # NoProc
       /\ simPause = -1 => pcb[runningProcess].next = Len(Program(runningProcess)) + 1
  /\ pc = "schedule" => runningProcess = NoProc

(* A process no longer in the lists has ended its trace and was cleaned up. *)
Finished ==
  \A p \in Procs \ Live :
    pcb[p].next = Len(Program(p)) + 1 /\ pageTable[p] = EmptyTable

IInv == Clock /\ MemoryTyped /\ Lists /\ Control /\ Finished

-----------------------------------------------------------------------------
(* Lists *)

(* The elements of a list are its entries. *)
LEMMA SetOfList ==
  ASSUME NEW S, NEW s \in Seq(S)
  PROVE  ToSet(s) = {s[i] : i \in 1 .. Len(s)} /\ ToSet(s) \subseteq S
  BY DEF ToSet

(* gll_pushBack adds an element at the end. *)
LEMMA PushBack ==
  ASSUME NEW S, NEW s \in Seq(S), NEW x \in S
  PROVE  /\ Append(s, x) \in Seq(S)
         /\ ToSet(Append(s, x)) = ToSet(s) \cup {x}
         /\ Once(s) /\ x \notin ToSet(s) => Once(Append(s, x))
<1>1. Append(s, x) \in Seq(S) /\ Len(Append(s, x)) = Len(s) + 1
  OBVIOUS
<1>2. \A i \in 1 .. Len(s) + 1 : Append(s, x)[i] = IF i <= Len(s) THEN s[i] ELSE x
  OBVIOUS
<1>3. Len(s) \in Nat
  OBVIOUS
<1>4. ToSet(Append(s, x)) = {Append(s, x)[i] : i \in 1 .. Len(s) + 1}
  BY <1>1, SetOfList
<1>5. ToSet(s) = {s[i] : i \in 1 .. Len(s)}
  BY SetOfList
<1>6. ToSet(Append(s, x)) = ToSet(s) \cup {x}
  <2>1. Append(s, x)[Len(s) + 1] = x /\ Len(s) + 1 \in 1 .. Len(s) + 1
    BY <1>2, <1>3
  <2>2. \A i \in 1 .. Len(s) : i \in 1 .. Len(s) + 1 /\ Append(s, x)[i] = s[i]
    BY <1>2, <1>3
  <2>3. \A i \in 1 .. Len(s) + 1 : i \in 1 .. Len(s) \/ Append(s, x)[i] = x
    BY <1>2, <1>3
  <2> QED
    BY <1>4, <1>5, <2>1, <2>2, <2>3
<1>7. ASSUME Once(s), x \notin ToSet(s) PROVE Once(Append(s, x))
  BY <1>1, <1>2, <1>3, <1>5, <1>7 DEF Once
<1> QED
  BY <1>1, <1>6, <1>7

(* gll_first is the head; gll_pop drops it. *)
LEMMA FirstAndPop ==
  ASSUME NEW S, NEW s \in Seq(S), s # <<>>
  PROVE  /\ Head(s) \in S /\ Tail(s) \in Seq(S)
         /\ ToSet(s) = {Head(s)} \cup ToSet(Tail(s))
         /\ Once(s) => Once(Tail(s)) /\ Head(s) \notin ToSet(Tail(s))
<1>1. Tail(s) \in Seq(S) /\ Len(Tail(s)) = Len(s) - 1 /\ Head(s) = s[1] /\ Head(s) \in S
  OBVIOUS
<1>2. Len(s) \in Nat /\ Len(s) > 0
  OBVIOUS
<1>3. \A i \in 1 .. Len(s) - 1 : Tail(s)[i] = s[i + 1]
  OBVIOUS
<1>4. ToSet(Tail(s)) = {Tail(s)[i] : i \in 1 .. Len(s) - 1}
  BY <1>1, SetOfList
<1>5. ToSet(s) = {s[i] : i \in 1 .. Len(s)}
  BY SetOfList
<1>6. ToSet(s) = {Head(s)} \cup ToSet(Tail(s))
  <2>1. \A i \in 1 .. Len(s) - 1 : i + 1 \in 1 .. Len(s)
    BY <1>2
  <2>2. \A i \in 1 .. Len(s) : i = 1 \/ (i - 1 \in 1 .. Len(s) - 1 /\ Tail(s)[i - 1] = s[i])
    BY <1>2, <1>3
  <2>3. 1 \in 1 .. Len(s)
    BY <1>2
  <2>4. ToSet(s) \subseteq {Head(s)} \cup ToSet(Tail(s))
    BY <1>1, <1>4, <1>5, <2>2
  <2>5. ToSet(Tail(s)) \subseteq ToSet(s)
    BY <1>3, <1>4, <1>5, <2>1
  <2>6. Head(s) \in ToSet(s)
    BY <1>1, <1>5, <2>3
  <2> QED
    BY <2>4, <2>5, <2>6
<1>7. ASSUME Once(s) PROVE Once(Tail(s)) /\ Head(s) \notin ToSet(Tail(s))
  BY <1>1, <1>2, <1>3, <1>4, <1>7 DEF Once
<1> QED
  BY <1>1, <1>6, <1>7

(* Two lists put together. *)
LEMMA Joined ==
  ASSUME NEW S, NEW s \in Seq(S), NEW t \in Seq(S)
  PROVE  /\ s \o t \in Seq(S)
         /\ ToSet(s \o t) = ToSet(s) \cup ToSet(t)
         /\ Once(s) /\ Once(t) /\ ToSet(s) \cap ToSet(t) = {} => Once(s \o t)
<1>1. s \o t \in Seq(S) /\ Len(s \o t) = Len(s) + Len(t)
  OBVIOUS
<1>2. Len(s) \in Nat /\ Len(t) \in Nat
  OBVIOUS
<1>3. \A i \in 1 .. Len(s) + Len(t) : (s \o t)[i] = IF i <= Len(s) THEN s[i] ELSE t[i - Len(s)]
  OBVIOUS
<1>4. /\ ToSet(s \o t) = {(s \o t)[i] : i \in 1 .. Len(s) + Len(t)}
      /\ ToSet(s) = {s[i] : i \in 1 .. Len(s)}
      /\ ToSet(t) = {t[i] : i \in 1 .. Len(t)}
  BY <1>1, SetOfList
<1>5. ToSet(s \o t) = ToSet(s) \cup ToSet(t)
  <2>1. \A i \in 1 .. Len(s) : i \in 1 .. Len(s) + Len(t) /\ (s \o t)[i] = s[i]
    BY <1>2, <1>3
  <2>2. \A i \in 1 .. Len(t) : i + Len(s) \in 1 .. Len(s) + Len(t) /\ (s \o t)[i + Len(s)] = t[i]
    BY <1>2, <1>3
  <2>3. \A i \in 1 .. Len(s) + Len(t) :
          \/ i \in 1 .. Len(s) /\ (s \o t)[i] = s[i]
          \/ i - Len(s) \in 1 .. Len(t) /\ (s \o t)[i] = t[i - Len(s)]
    BY <1>2, <1>3
  <2> QED
    BY <1>4, <2>1, <2>2, <2>3
<1>6. ASSUME Once(s), Once(t), ToSet(s) \cap ToSet(t) = {} PROVE Once(s \o t)
  <2> SUFFICES ASSUME NEW i \in 1 .. Len(s) + Len(t), NEW j \in 1 .. Len(s) + Len(t),
                      (s \o t)[i] = (s \o t)[j]
               PROVE  i = j
    BY <1>1 DEF Once
  <2>1. \A m \in 1 .. Len(s), n \in 1 .. Len(t) : s[m] # t[n]
    BY <1>4, <1>6
  <2> QED
    BY <1>2, <1>3, <1>6, <2>1 DEF Once
<1> QED
  BY <1>1, <1>5, <1>6

(* A list cut in two. *)
LEMMA Cut ==
  ASSUME NEW S, NEW s \in Seq(S), NEW n \in 0 .. Len(s)
  PROVE  LET a == SubSeq(s, 1, n)  b == SubSeq(s, n + 1, Len(s)) IN
         /\ a \in Seq(S) /\ b \in Seq(S)
         /\ ToSet(a) \cup ToSet(b) = ToSet(s)
         /\ Once(s) => Once(a) /\ Once(b) /\ ToSet(a) \cap ToSet(b) = {}
<1> DEFINE a == SubSeq(s, 1, n)
           b == SubSeq(s, n + 1, Len(s))
<1>1. Len(s) \in Nat /\ n \in Nat /\ n <= Len(s)
  OBVIOUS
<1>2. a \in Seq(S) /\ Len(a) = n /\ \A i \in 1 .. n : a[i] = s[i]
  BY <1>1
<1>3. b \in Seq(S) /\ Len(b) = Len(s) - n /\ \A i \in 1 .. Len(s) - n : b[i] = s[i + n]
  BY <1>1
<1> HIDE DEF a, b
<1>4. /\ ToSet(a) = {a[i] : i \in 1 .. n}
      /\ ToSet(b) = {b[i] : i \in 1 .. Len(s) - n}
      /\ ToSet(s) = {s[i] : i \in 1 .. Len(s)}
  BY <1>2, <1>3, SetOfList
<1>5. ToSet(a) \cup ToSet(b) = ToSet(s)
  <2>1. \A i \in 1 .. n : i \in 1 .. Len(s)
    BY <1>1
  <2>2. \A i \in 1 .. Len(s) - n : i + n \in 1 .. Len(s)
    BY <1>1
  <2>3. \A i \in 1 .. Len(s) : i \in 1 .. n \/ (i - n \in 1 .. Len(s) - n /\ b[i - n] = s[i])
    BY <1>1, <1>3
  <2>4. ToSet(a) \subseteq ToSet(s)
    BY <1>2, <1>4, <2>1
  <2>5. ToSet(b) \subseteq ToSet(s)
    BY <1>3, <1>4, <2>2
  <2>6. ToSet(s) \subseteq ToSet(a) \cup ToSet(b)
    BY <1>2, <1>4, <2>3
  <2> QED
    BY <2>4, <2>5, <2>6
<1>6. ASSUME Once(s) PROVE Once(a) /\ Once(b) /\ ToSet(a) \cap ToSet(b) = {}
  <2>1. Once(a)
    BY <1>1, <1>2, <1>6 DEF Once
  <2>2. Once(b)
    <3>1. \A i \in 1 .. Len(s) - n : i + n \in 1 .. Len(s) /\ b[i] = s[i + n]
      BY <1>1, <1>3
    <3>2. \A i, j \in 1 .. Len(s) - n : b[i] = b[j] => i + n = j + n
      BY <1>6, <3>1 DEF Once
    <3> QED
      BY <1>1, <1>3, <3>2 DEF Once
  <2>3. ASSUME NEW i \in 1 .. n, NEW j \in 1 .. Len(s) - n PROVE a[i] # b[j]
    BY <1>1, <1>2, <1>3, <1>6 DEF Once
  <2> QED
    BY <1>4, <2>1, <2>2, <2>3
<1> QED
  BY <1>2, <1>3, <1>5, <1>6 DEF a, b

(* A list without repetitions has as many elements as its length. *)
LEMMA CountOnce ==
  ASSUME NEW S, NEW s \in Seq(S), Once(s)
  PROVE  IsFiniteSet(ToSet(s)) /\ Cardinality(ToSet(s)) = Len(s)
<1>1. s \in [1 .. Len(s) -> ToSet(s)] /\ Len(s) \in Nat
  BY DEF ToSet
<1>2. s \in Bijection(1 .. Len(s), ToSet(s))
  BY <1>1, SetOfList DEF Once, Bijection, Injection, Surjection, IsInjective
<1>3. ExistsBijection(1 .. Len(s), ToSet(s))
  BY <1>2 DEF ExistsBijection
<1>4. IsFiniteSet(1 .. Len(s)) /\ Cardinality(1 .. Len(s)) = Len(s)
  <2>1. ASSUME NEW n \in Nat PROVE IsFiniteSet(1 .. n) /\ Cardinality(1 .. n) = n
    <3>1. IsFiniteSet(1 .. n) /\ Cardinality(1 .. n) = IF 1 > n THEN 0 ELSE n - 1 + 1
      BY FS_Interval
    <3> QED
      BY <3>1
  <2> QED
    BY <1>1, <2>1
<1> QED
  BY <1>3, <1>4, FS_Bijection

-----------------------------------------------------------------------------
(* The choices of the model *)

(* The processes that have arrived are counted. *)
LEMMA ArrivedCount ==
  ASSUME NEW list \in Seq(Procs), NEW now \in Int, workload \in Workloads
  PROVE  /\ NumArrived(list, now) \in 0 .. Len(list)
         /\ NumArrived(list, now) = 0 /\ list # <<>> => Start(list[1]) > now
<1> DEFINE S == {n \in 0 .. Len(list) : n < Len(list) => Start(list[n + 1]) > now}
<1>1. Len(list) \in Nat /\ Len(list) \in S
  OBVIOUS
<1>2. S # {} /\ S \in SUBSET Nat
  BY <1>1
<1>3. PICK n \in S : \A m \in S : n <= m
  BY <1>2, LeastNatural
<1>4. \A p \in Procs : Start(p) \in Int
  BY SimulatorAssumption DEF Start, Times
<1>5. ASSUME NEW i \in 1 .. n PROVE Start(list[i]) <= now
  <2>1. i - 1 \in 0 .. Len(list) /\ i - 1 < Len(list) /\ i - 1 \notin S
    <3>1. n \in Nat /\ n <= Len(list) /\ Len(list) \in Nat
      BY <1>1, <1>3
    <3>2. i - 1 \notin S
      <4> HIDE DEF S
      <4> QED
        BY <1>3, <3>1
    <3> QED
      BY <3>1, <3>2
  <2>2. ~(Start(list[(i - 1) + 1]) > now)
    BY <2>1
  <2>3. list[i] \in Procs
    BY <1>1, <1>3
  <2> QED
    BY <1>4, <2>2, <2>3
<1> DEFINE Right(k) == /\ \A i \in 1 .. k : Start(list[i]) <= now
                       /\ k < Len(list) => Start(list[k + 1]) > now
<1>6. n \in 0 .. Len(list) /\ Right(n)
  BY <1>3, <1>5
<1>7. NumArrived(list, now) \in 0 .. Len(list) /\ Right(NumArrived(list, now))
  <2>1. NumArrived(list, now) = CHOOSE k \in 0 .. Len(list) : Right(k)
    BY DEF NumArrived
  <2> HIDE DEF Right
  <2> QED
    BY <1>6, <2>1
<1>8. ASSUME NumArrived(list, now) = 0, list # <<>> PROVE Start(list[1]) > now
  <2>1. Right(0) /\ 0 < Len(list)
    BY <1>7, <1>8
  <2> QED
    BY <2>1
<1> QED
  BY <1>7, <1>8

(* Among some entries one was used least recently, the first of them. *)
LEMMA LeastRecentExists ==
  ASSUME NEW set \in SUBSET Nat, set # {}, NEW timeOf, \A i \in set : timeOf[i] \in Nat
  PROVE  LeastRecent(set, timeOf) \in set
<1> DEFINE Times1 == {timeOf[i] : i \in set}
<1>1. Times1 \in SUBSET Nat /\ Times1 # {}
  OBVIOUS
<1>2. PICK t \in Times1 : \A u \in Times1 : t <= u
  BY <1>1, LeastNatural
<1> DEFINE First == {i \in set : timeOf[i] = t}
<1>3. First \in SUBSET Nat /\ First # {}
  BY <1>2
<1>4. PICK i \in First : \A j \in First : i <= j
  BY <1>3, LeastNatural
<1>5. ASSUME NEW j \in set PROVE timeOf[i] < timeOf[j] \/ (timeOf[i] = timeOf[j] /\ i <= j)
  <2>1. timeOf[j] \in Times1 /\ timeOf[i] = t
    BY <1>4
  <2>2. t <= timeOf[j] /\ t \in Nat /\ timeOf[j] \in Nat
    BY <1>2, <2>1, <1>1
  <2>3. CASE timeOf[j] = t
    BY <2>1, <2>3, <1>4
  <2>4. CASE timeOf[j] # t
    BY <2>1, <2>2, <2>4
  <2> QED
    BY <2>3, <2>4
<1> QED
  BY <1>4, <1>5 DEF LeastRecent

(* The victim of a replacement is a frame. *)
LEMMA VictimIsFrame == MemoryTyped => Victim \in Frames
<1> SUFFICES ASSUME MemoryTyped PROVE Victim \in Frames
  OBVIOUS
<1>1. Frames \in SUBSET Nat /\ 0 \in Frames
  BY SimulatorAssumption DEF Frames
<1>2. \A f \in Frames : DRAM[f].time \in Nat
  BY DEF MemoryTyped, Frame, Times
<1>3. LeastRecent(Frames, [f \in Frames |-> DRAM[f].time]) \in Frames
  BY <1>1, <1>2, LeastRecentExists
<1>4. ClockVictim \in Frames
  <2> DEFINE clear == {f \in Frames : DRAM[f].time = 0}
             Far == {Behind(f) : f \in clear}
  <2>1. CASE clear = {}
    BY <2>1 DEF ClockVictim, MemoryTyped
  <2>2. CASE clear # {}
    <3>1. \A f \in Frames : Behind(f) \in Nat
      BY SimulatorAssumption DEF MemoryTyped, Frames, Behind
    <3>2. Far \in SUBSET Nat /\ Far # {}
      BY <2>2, <3>1
    <3>3. PICK b \in Far : \A c \in Far : b <= c
      BY <3>2, LeastNatural
    <3>4. PICK f \in clear : Behind(f) = b
      BY <3>3
    <3>5. \A g \in clear : Behind(f) <= Behind(g)
      BY <3>3, <3>4
    <3>6. ClockVictim = CHOOSE h \in clear : \A g \in clear : Behind(h) <= Behind(g)
      BY <2>2 DEF ClockVictim
    <3>7. (CHOOSE h \in clear : \A g \in clear : Behind(h) <= Behind(g)) \in clear
      BY <3>5
    <3> QED
      BY <3>6, <3>7
  <2> QED
    BY <2>1, <2>2
<1> QED
  BY <1>3, <1>4 DEF Victim

(* The index TLBadd writes to. *)
AddAt ==
  LET free == {i \in Entries : ~TLB[i].valid}
  IN  IF free # {} THEN CHOOSE j \in free : \A k \in free : j <= k
      ELSE LeastRecent(Entries, [j \in Entries |-> TLB[j].time])

(* TLBadd writes one entry, a free one if there is any. *)
LEMMA AddsOneEntry ==
  ASSUME MemoryTyped, NEW vpn, NEW ppn, NEW now
  PROVE  /\ AddAt \in Entries
         /\ TLBadd(vpn, ppn, now) =
              [TLB EXCEPT ![AddAt] = [valid |-> TRUE, time |-> now, vpn |-> vpn, ppn |-> ppn]]
         /\ (\E i \in Entries : ~TLB[i].valid) => ~TLB[AddAt].valid
<1> DEFINE free == {i \in Entries : ~TLB[i].valid}
<1>1. Entries \in SUBSET Nat /\ 1 \in Entries
  BY SimulatorAssumption DEF Entries
<1>2. TLBadd(vpn, ppn, now) =
        [TLB EXCEPT ![AddAt] = [valid |-> TRUE, time |-> now, vpn |-> vpn, ppn |-> ppn]]
  BY DEF TLBadd, AddAt
<1>3. CASE free = {}
  <2>1. \A i \in Entries : TLB[i].time \in Nat
    BY DEF MemoryTyped, Entry, Times
  <2>2. LeastRecent(Entries, [j \in Entries |-> TLB[j].time]) \in Entries
    BY <1>1, <2>1, LeastRecentExists
  <2> QED
    BY <1>2, <1>3, <2>2 DEF AddAt
<1>4. CASE free # {}
  <2>1. free \in SUBSET Nat
    BY <1>1
  <2>2. PICK j \in free : \A k \in free : j <= k
    BY <1>4, <2>1, LeastNatural
  <2>3. (CHOOSE i \in free : \A k \in free : i <= k) \in free
    BY <2>2
  <2>4. AddAt \in free
    BY <1>4, <2>3 DEF AddAt
  <2> QED
    BY <1>2, <2>4
<1> QED
  BY <1>3, <1>4

-----------------------------------------------------------------------------
(* The inductive steps *)

(* Sums and differences of times are words. *)
LEMMA Words ==
  /\ Word \in Nat \ {0} /\ quantum \in Times /\ 0 \in Times /\ 1 \in Times
  /\ \A t \in Times : t \in Nat /\ t \in Int /\ t < Word
  /\ \A n \in Int : W(n) \in Times
  /\ \A a, b \in Int : Minus(a, b) \in Times
<1>1. Word \in Nat \ {0} /\ quantum \in 1 .. Word - 1
  BY SimulatorAssumption
<1>2. \A n \in Int : n % Word \in 0 .. Word - 1
  BY <1>1
<1> QED
  BY <1>1, <1>2 DEF W, Minus, Times

(* The parameters of the input file are numbers. *)
LEMMA Parameters ==
  /\ non_mem_inst_length \in Times /\ TLB_latency \in 0 .. 1 /\ DRAM_latency \in Times
  /\ Swap_latency \in Times /\ Page_fault_trap_handling_time \in Times
  /\ Swap_interrupt_handling_time \in Times /\ contextSwitchTime \in Times
  /\ NoProc \notin Procs
  BY SimulatorAssumption

(* Processes have traces and arrival times. *)
LEMMA Traces ==
  ASSUME Control, NEW p \in Procs
  PROVE  Len(Program(p)) \in Nat /\ Start(p) \in Times
  BY SimulatorAssumption DEF Control, Program, Start

(* The quanta go on in words. *)
LEMMA NextQuanta ==
  ASSUME Clock, NEW now \in Int
  PROVE  QuantaFrom(now) \in Times
<1>1. nextQuanta \in Int /\ quantum \in Int /\ quantum > 0
  BY SimulatorAssumption, Words DEF Clock
<1>2. (now - nextQuanta + quantum - 1) \div quantum \in Int
  BY <1>1
<1>3. nextQuanta + quantum * ((now - nextQuanta + quantum - 1) \div quantum) \in Int
  BY <1>1, <1>2
<1> QED
  BY <1>3, Words DEF QuantaFrom, Clock

(* The times and the numbers of a process's block. *)
LEMMA Numbers ==
  ASSUME Clock
  PROVE  /\ current_time \in Nat /\ nextQuanta \in Nat /\ stopTime \in Nat /\ lastStop \in Nat
         /\ current_time < Word /\ nextQuanta < Word /\ stopTime < Word /\ lastStop < Word
         /\ \A p \in Procs :
              /\ pcb[p] \in Process /\ pcb[p].next \in Nat /\ pcb[p].user_time \in Int
              /\ pcb[p].fracLeft \in Nat /\ pcb[p].blockOccur \in Nat
              /\ pcb[p].fracLeft < Word /\ pcb[p].blockOccur < Word
<1>1. \A p \in Procs : pcb[p] \in Process
  BY DEF Clock
<1>2. \A p \in Procs : /\ pcb[p].next \in Nat /\ pcb[p].user_time \in Int
                       /\ pcb[p].fracLeft \in Times /\ pcb[p].blockOccur \in Times
  BY <1>1 DEF Process
<1> QED
  BY <1>1, <1>2, Words DEF Clock

(* Steps that leave the times and the processes' blocks alone. *)
LEMMA ClockKept ==
  Clock /\ UNCHANGED <<workload, time, pcb>> => Clock'
  BY DEF Clock, time, Program

(* One process's block changes, the times stay words. *)
LEMMA ClockOne ==
  ASSUME Clock, workload' = workload, NEW q \in Procs, NEW r \in Process,
         r.next \in 1 .. Len(Program(q)) + 1, pcb' = [pcb EXCEPT ![q] = r],
         current_time' \in Times, nextQuanta' \in Times, stopTime' \in Times, lastStop' \in Times
  PROVE  Clock'
<1>1. pcb' \in [Procs -> Process]
  BY DEF Clock
<1>2. \A p \in Procs : pcb'[p] = IF p = q THEN r ELSE pcb[p]
  BY DEF Clock
<1>3. \A p \in Procs : pcb'[p].next \in 1 .. Len(workload'.program[p]) + 1
  BY <1>2 DEF Clock, Program
<1> QED
  BY <1>1, <1>3 DEF Clock, Program

(* What the slice of a running process finds. *)
LEMMA RunningNow ==
  ASSUME Clock, Lists, Control, Executing
  PROVE  /\ runningProcess \in Procs /\ Running \in Process
         /\ current_time < stopTime /\ stopTime < Word
         /\ Looked \in Times /\ current_time <= Looked /\ Looked <= stopTime
         /\ (~AtEnd => Running.next \in 1 .. Len(Program(runningProcess)))
<1>1. runningProcess \in Procs
  BY DEF Lists, Control, Executing
<1>2. Running \in Process /\ Running.next \in 1 .. Len(Program(runningProcess)) + 1
  BY <1>1 DEF Clock, Running
<1>3. current_time \in Nat /\ stopTime \in Nat /\ current_time < stopTime /\ stopTime < Word
  BY Words DEF Executing, Clock, Times
<1>4. Looked \in Times /\ current_time <= Looked /\ Looked <= stopTime
  BY <1>3, Words, Parameters DEF Looked, Times
<1>5. Len(Program(runningProcess)) \in Nat
  BY <1>1, Traces
<1> QED
  BY <1>1, <1>2, <1>3, <1>4, <1>5 DEF AtEnd

(* The running process advances to a time not after the stop time. *)
LEMMA ClockAdvances ==
  ASSUME Clock, Lists, Control, Executing, ~AtEnd, UNCHANGED <<workload, nextQuanta, stopTime, lastStop>>,
         NEW then \in Int, current_time <= then, then <= stopTime, NEW n \in 0 .. 1, Advance(then, n)
  PROVE  Clock'
<1>1. /\ runningProcess \in Procs /\ Running \in Process
      /\ Running.next \in 1 .. Len(Program(runningProcess)) /\ stopTime < Word
  BY RunningNow
<1>2. current_time' = then /\ then \in Times /\ current_time \in Int
  BY <1>1, Words DEF Advance, Times, Clock
<1> DEFINE r == [Running EXCEPT !.user_time = @ + then - current_time, !.next = @ + n]
<1>3. pcb' = [pcb EXCEPT ![runningProcess] = r]
  BY <1>1 DEF Advance, Running, Clock
<1>4. r \in Process /\ r.next = Running.next + n
  <2>1. Running.user_time + then - current_time \in Int /\ Running.next + n \in Nat
    BY <1>1, <1>2 DEF Process
  <2> QED
    BY <1>1, <2>1 DEF Process
<1>5. Len(Program(runningProcess)) \in Nat
  BY <1>1, Traces
<1>6. r.next \in 1 .. Len(Program(runningProcess)) + 1
  BY <1>1, <1>4, <1>5
<1> HIDE DEF r
<1> QED
  BY <1>1, <1>2, <1>3, <1>4, <1>6, ClockOne DEF Clock

(* Whether the access fits or is cut short, it ends by the stop time. *)
LEMMA ClockAccess ==
  ASSUME Clock, Lists, Control, Executing, ~AtEnd, UNCHANGED <<workload, nextQuanta, stopTime, lastStop>>,
         NEW ppn, NEW now \in Int, Looked <= now, now <= stopTime, Access(ppn, now)
  PROVE  Clock'
<1>1. current_time \in Int /\ stopTime \in Int /\ current_time <= now /\ current_time <= stopTime
  <2>1. current_time \in Int /\ stopTime \in Int /\ Looked \in Int /\ current_time <= Looked
    BY RunningNow, Numbers, Words
  <2> QED
    BY <2>1
<1>2. CASE stopTime - now >= DRAM_latency /\ Advance(now + DRAM_latency, 1)
  <2>1. now + DRAM_latency \in Int /\ current_time <= now + DRAM_latency
                /\ now + DRAM_latency <= stopTime
    BY <1>1, <1>2, Parameters DEF Times
  <2> QED
    BY <1>2, <2>1, ClockAdvances
<1>3. CASE Advance(stopTime, 0)
  BY <1>1, <1>3, ClockAdvances
<1> QED
  BY <1>2, <1>3 DEF Access

(* Every step keeps the times in range and the running process in its trace. *)
LEMMA ClockStep ==
  Clock /\ Lists /\ Control /\ [Next]_vars => Clock'
<1> SUFFICES ASSUME Clock, Lists, Control, [Next]_vars PROVE Clock'
  OBVIOUS
<1> USE DEF memory, constant
<1>1. CASE StartSlice
  <2>1. stopTime' \in Times
    <3>1. blockedProcess # <<>> => Due \in Times
      <4> SUFFICES ASSUME blockedProcess # <<>> PROVE Due \in Times
        OBVIOUS
      <4>1. Head(blockedProcess) \in Procs
        BY FirstAndPop DEF Lists
      <4>2. current_time + pcb[Head(blockedProcess)].fracLeft \in Int
        BY <4>1, Numbers
      <4> QED
        BY <4>2, Words DEF Due
    <3> QED
      BY <1>1, <3>1 DEF StartSlice, Clock
  <2> QED
    BY <1>1, <2>1 DEF StartSlice, Clock, Program
<1>2. CASE ReadNonMem
  <2> DEFINE needed == IF Running.fracLeft > 0 THEN Running.fracLeft ELSE non_mem_inst_length
             used == IF Available < needed THEN Available ELSE needed
             done == used = needed
             r == [Running EXCEPT !.user_time = @ + used, !.fracLeft = needed - used,
                                  !.next = IF done THEN @ + 1 ELSE @]
  <2>1. /\ runningProcess \in Procs /\ Running \in Process
        /\ Running.next \in 1 .. Len(Program(runningProcess))
        /\ current_time < stopTime /\ stopTime < Word
    BY <1>2, RunningNow DEF ReadNonMem
  <2>2. needed \in Times
    BY <2>1, Parameters DEF Process
  <2>3. used \in Nat /\ used <= needed /\ used <= stopTime - current_time
    <3>1. needed \in Nat
      BY <2>2, Words
    <3>2. stopTime - current_time \in Nat
      BY <2>1, Numbers
    <3> HIDE DEF needed
    <3> QED
      BY <3>1, <3>2 DEF Available
  <2>4. current_time' = current_time + used
    BY <1>2 DEF ReadNonMem
  <2>5. pcb' = [pcb EXCEPT ![runningProcess] = r]
    BY <1>2, <2>1 DEF ReadNonMem, Running, Clock
  <2> HIDE DEF needed, used
  <2>6. current_time' \in Times /\ needed - used \in Times
    <3>1. needed \in Nat /\ needed < Word
      BY <2>2, Words
    <3>2. needed - used \in Times
      BY <2>3, <3>1, Words DEF Times
    <3>3. current_time \in Nat /\ stopTime \in Nat /\ stopTime < Word
      BY Numbers
    <3> QED
      BY <2>3, <2>4, <3>2, <3>3, Words DEF Times
  <2>7. r \in Process /\ r.next = IF done THEN Running.next + 1 ELSE Running.next
    <3>1. Running.user_time + used \in Int /\ Running.next + 1 \in Nat
      BY <2>1, <2>3 DEF Process
    <3> QED
      BY <2>1, <2>6, <3>1 DEF Process
  <2>8. Len(Program(runningProcess)) \in Nat
    BY <2>1, Traces
  <2>9. r.next \in 1 .. Len(Program(runningProcess)) + 1
    BY <2>1, <2>7, <2>8
  <2> HIDE DEF r
  <2> QED
    BY <1>2, <2>1, <2>5, <2>6, <2>7, <2>9, ClockOne DEF ReadNonMem, Clock
<1>3. ASSUME NEW vpn \in Pages, TLBHit(vpn) PROVE Clock'
  <2>1. Executing /\ ~AtEnd /\ UNCHANGED <<workload, nextQuanta, stopTime, lastStop>>
    BY <1>3 DEF TLBHit, ExecutingMem
  <2>2. PICK i \in Hits(vpn) : Access(TLB[i].ppn, Looked)
    BY <1>3 DEF TLBHit
  <2>3. Looked \in Int /\ Looked <= stopTime
    BY <2>1, RunningNow, Words
  <2> QED
    BY <2>1, <2>2, <2>3, ClockAccess
<1>4. ASSUME NEW vpn \in Pages, TLBMissCutShort(vpn) PROVE Clock'
  <2>1. Executing /\ ~AtEnd /\ UNCHANGED <<workload, nextQuanta, stopTime, lastStop>>
    BY <1>4 DEF TLBMissCutShort, ExecutingMem
  <2>2. current_time \in Int /\ stopTime \in Int /\ current_time <= stopTime
    BY <2>1, Words DEF Executing, Clock, Times
  <2>3. Advance(stopTime, 0)
    BY <1>4 DEF TLBMissCutShort
  <2> QED
    BY <2>1, <2>2, <2>3, ClockAdvances
<1>5. ASSUME NEW vpn \in Pages, PageHit(vpn) PROVE Clock'
  <2>1. Executing /\ ~AtEnd /\ UNCHANGED <<workload, nextQuanta, stopTime, lastStop>>
    BY <1>5 DEF PageHit, ExecutingMem
  <2> DEFINE ppn == pageTable[runningProcess][vpn]
             now == Looked + DRAM_latency
  <2>2. Access(ppn, now)
    BY <1>5 DEF PageHit
  <2>3. now \in Int /\ Looked <= now /\ now <= stopTime
    <3>1. stopTime - Looked >= DRAM_latency /\ Looked \in Nat /\ stopTime \in Nat /\ DRAM_latency \in Nat
      BY <1>5, <2>1, RunningNow, Words, Numbers, Parameters DEF PageHit, TimeForTable
    <3> QED
      BY <3>1
  <2> HIDE DEF now, ppn
  <2> QED
    BY <2>1, <2>2, <2>3, ClockAccess
<1>6. ASSUME NEW vpn \in Pages, PageFault(vpn) PROVE Clock'
  <2> DEFINE now == W(Looked + DRAM_latency + Page_fault_trap_handling_time)
             r == [Running EXCEPT !.user_time = @ + TLB_latency + DRAM_latency,
                                  !.fracLeft = Swap_latency, !.blockOccur = now]
  <2>1. /\ runningProcess \in Procs /\ Running \in Process /\ Looked \in Times
        /\ Running.next \in 1 .. Len(Program(runningProcess))
    BY <1>6, RunningNow DEF PageFault, ExecutingMem
  <2>2. now \in Times
    BY <2>1, Words, Parameters
  <2>3. pcb' = [pcb EXCEPT ![runningProcess] = r] /\ current_time' = now
    BY <1>6, <2>1 DEF PageFault, Running, Clock
  <2> HIDE DEF now
  <2>4. r \in Process /\ r.next = Running.next
    <3>1. Running.user_time + TLB_latency + DRAM_latency \in Int
      BY <2>1, Words, Parameters DEF Process
    <3> QED
      BY <2>1, <2>2, <3>1, Parameters DEF Process
  <2>5. r.next \in 1 .. Len(Program(runningProcess)) + 1
    BY <2>1, <2>4, Traces
  <2>6. UNCHANGED <<workload, nextQuanta, stopTime, lastStop>>
    BY <1>6 DEF PageFault
  <2> HIDE DEF r
  <2> QED
    BY <2>1, <2>2, <2>3, <2>4, <2>5, <2>6, ClockOne DEF Clock
<1>7. CASE Arrivals
  <2>1. QuantaFrom(current_time + 1) \in Times
    BY NextQuanta, Numbers
  <2> QED
    BY <1>7, <2>1 DEF Arrivals, Clock, Program
<1>8. ASSUME DiskToMemory, blockedProcess # <<>>, UNCHANGED <<workload, nextQuanta, stopTime>>,
             current_time' \in Times, lastStop' \in Times,
             NEW left \in Times, pcb' = [pcb EXCEPT ![Blocked].fracLeft = left]
      PROVE  Clock'
  <2> DEFINE r == [pcb[Blocked] EXCEPT !.fracLeft = left]
  <2>1. Blocked \in Procs
    BY <1>8, FirstAndPop DEF Lists, Blocked
  <2>2. r \in Process /\ r.next \in 1 .. Len(Program(Blocked)) + 1
    BY <2>1 DEF Clock, Process
  <2>3. pcb' = [pcb EXCEPT ![Blocked] = r]
    BY <1>8, <2>1 DEF Clock
  <2> HIDE DEF r
  <2> QED
    BY <1>8, <2>1, <2>2, <2>3, ClockOne DEF Clock
<1>9. ASSUME NEW vpn \in Pages, PagePresent(vpn) PROVE Clock'
  BY <1>8, <1>9, Words DEF PagePresent, time, Clock
<1>10. ASSUME NEW vpn \in Pages, TransferGoesOn(vpn) PROVE Clock'
  <2>1. Left \in Times
    <3>1. Blocked \in Procs
      BY <1>10, FirstAndPop DEF Lists, Blocked, TransferGoesOn
    <3>2. pcb[Blocked].fracLeft \in Int /\ pcb[Blocked].blockOccur \in Int
            /\ current_time \in Int /\ lastStop \in Int
      BY <3>1, Numbers
    <3>3. RunTime \in Int
      BY <3>2, Words DEF RunTime
    <3> QED
      BY <3>2, <3>3, Words DEF Left
  <2>2. lastStop' \in Times /\ current_time' \in Times
    BY <1>10 DEF TransferGoesOn, Clock
  <2>3. pcb' = [pcb EXCEPT ![Blocked].fracLeft = Left]
    BY <1>10 DEF TransferGoesOn
  <2> QED
    BY <1>8, <1>10, <2>1, <2>2, <2>3 DEF TransferGoesOn
<1>11. ASSUME NEW vpn \in Pages, TransferDone(vpn) PROVE Clock'
  <2>1. lastStop' \in Times /\ current_time' \in Times
    <3>1. current_time + Swap_interrupt_handling_time \in Int
      BY Words, Numbers, Parameters
    <3> QED
      BY <1>11, <3>1, Words DEF TransferDone, Clock
  <2> QED
    BY <1>8, <1>11, <2>1, Words DEF TransferDone
<1>12. CASE Requeue
  <2>1. nextQuanta' \in Times
    BY <1>12, Words DEF Requeue, Clock
  <2> QED
    BY <1>12, <2>1 DEF Requeue, Clock, Program
<1>13. CASE schedulingRR
  <2>1. current_time + contextSwitchTime \in Int
    BY Words, Numbers, Parameters
  <2>2. current_time' \in Times
    BY <1>13, <2>1, Words DEF schedulingRR, Clock
  <2> QED
    BY <1>13, <2>2 DEF schedulingRR, Clock, Program
<1>14. CASE WaitForDisk
  <2>1. Due \in Times
    <3>1. Head(blockedProcess) \in Procs
      BY <1>14, FirstAndPop DEF Lists, WaitForDisk, DiskIsNext
    <3>2. current_time + pcb[Head(blockedProcess)].fracLeft \in Int
      BY <3>1, Numbers
    <3> QED
      BY <3>2, Words DEF Due
  <2>2. QuantaFrom(Due) \in Times
    BY <2>1, NextQuanta, Words
  <2> QED
    BY <1>14, <2>1, <2>2 DEF WaitForDisk, Clock, Program
<1>15. CASE WaitForArrival
  <2>1. Start(Head(processList)) \in Times
    BY <1>15, FirstAndPop, Traces DEF Lists, WaitForArrival
  <2>2. QuantaFrom(Start(Head(processList))) \in Times
    BY <2>1, NextQuanta, Words
  <2> QED
    BY <1>15, <2>1, <2>2 DEF WaitForArrival, Clock, Program
<1>16. CASE NothingRuns \/ EndSlice \/ TraceEnds \/ NothingBlocked \/ CleanUp \/ NothingToSettle
            \/ NotIdle \/ AllDone \/ UNCHANGED vars
  <2>1. UNCHANGED <<workload, time, pcb>>
    BY <1>16 DEF NothingRuns, EndSlice, TraceEnds, NothingBlocked, CleanUp, NothingToSettle,
                 NotIdle, AllDone, vars
  <2> QED
    BY <2>1, ClockKept
<1> QED
  BY <1>1, <1>2, <1>3, <1>4, <1>5, <1>6, <1>7, <1>9, <1>10, <1>11, <1>12, <1>13, <1>14, <1>15, <1>16
     DEF Next

(* Steps that leave TLB, DRAM and page tables alone. *)
LEMMA MemoryKept ==
  MemoryTyped /\ UNCHANGED <<TLB, DRAM, clockHand, pageTable>> => MemoryTyped'
  BY DEF MemoryTyped

(* An access stamps one frame. *)
LEMMA AccessStamps ==
  ASSUME Clock, MemoryTyped, Lists, Control, Executing, NEW ppn, NEW now \in Int,
         Looked <= now, now <= stopTime, Access(ppn, now)
  PROVE  DRAM' \in [Frames -> Frame]
<1>1. CASE UNCHANGED DRAM
  BY <1>1 DEF MemoryTyped
<1>2. CASE /\ stopTime - now >= DRAM_latency
           /\ DRAM' = [DRAM EXCEPT ![ppn].time =
                         IF page_replacement_policy = "LRU" THEN now + DRAM_latency ELSE 1]
  <2>1. Looked \in Nat /\ DRAM_latency \in Nat /\ stopTime \in Nat /\ stopTime < Word
    BY RunningNow, Words, Parameters, Numbers
  <2>2. now + DRAM_latency \in Times
    BY <1>2, <2>1, Words DEF Times
  <2>3. (IF page_replacement_policy = "LRU" THEN now + DRAM_latency ELSE 1) \in Times
    BY <2>2, Words
  <2> QED
    BY <1>2, <2>3 DEF MemoryTyped, Frame
<1> QED
  BY <1>1, <1>2 DEF Access

(* Every step keeps the frame numbers in TLB and page tables in DRAM.       *)
LEMMA MemoryStep ==
  Clock /\ MemoryTyped /\ Lists /\ Control /\ [Next]_vars => MemoryTyped'
<1> SUFFICES ASSUME Clock, MemoryTyped, Lists, Control, [Next]_vars PROVE MemoryTyped'
  OBVIOUS
<1>1. ASSUME NEW vpn \in Pages, TLBHit(vpn) PROVE MemoryTyped'
  <2>1. PICK i \in Hits(vpn) : /\ TLB' = [TLB EXCEPT ![i].time = Looked]
                               /\ Access(TLB[i].ppn, Looked)
    BY <1>1 DEF TLBHit
  <2>2. Executing
    BY <1>1 DEF TLBHit, ExecutingMem
  <2>3. Looked \in Times /\ Looked \in Int /\ Looked <= stopTime
    BY <2>2, RunningNow, Words
  <2>4. DRAM' \in [Frames -> Frame]
    BY <2>1, <2>2, <2>3, AccessStamps
  <2>5. TLB' \in [Entries -> Entry]
    BY <2>1, <2>3 DEF MemoryTyped, Entry
  <2>6. \A j \in Entries : TLB'[j].valid = TLB[j].valid /\ TLB'[j].vpn = TLB[j].vpn
                             /\ TLB'[j].ppn = TLB[j].ppn
    BY <2>1 DEF MemoryTyped, Entry
  <2>7. UNCHANGED <<clockHand, pageTable>>
    BY <1>1 DEF TLBHit
  <2> QED
    BY <2>4, <2>5, <2>6, <2>7 DEF MemoryTyped
<1>2. ASSUME NEW vpn \in Pages, PageHit(vpn) PROVE MemoryTyped'
  <2> DEFINE ppn == pageTable[runningProcess][vpn]
             now == Looked + DRAM_latency
  <2>1. ppn # NoFrame /\ TLB' = TLBadd(vpn, ppn, now) /\ Access(ppn, now)
    BY <1>2 DEF PageHit
  <2>2. Executing /\ TimeForTable /\ UNCHANGED <<clockHand, pageTable>>
    BY <1>2 DEF PageHit, ExecutingMem
  <2>3. runningProcess \in Procs
    BY <2>2, RunningNow
  <2>4. ppn \in Frames
    BY <2>1, <2>3 DEF MemoryTyped
  <2>5. now \in Nat /\ now <= stopTime /\ Looked <= now /\ now \in Times
    <3>1. Looked \in Nat /\ DRAM_latency \in Nat /\ stopTime \in Nat /\ stopTime < Word
            /\ stopTime - Looked >= DRAM_latency
      BY <2>2, RunningNow, Words, Parameters, Numbers DEF TimeForTable
    <3> QED
      BY <3>1, Words DEF Times
  <2> HIDE DEF now, ppn
  <2>6. DRAM' \in [Frames -> Frame]
    BY <2>1, <2>2, <2>5, AccessStamps
  <2> DEFINE e == [valid |-> TRUE, time |-> now, vpn |-> vpn, ppn |-> ppn]
  <2>7. AddAt \in Entries /\ TLB' = [TLB EXCEPT ![AddAt] = e]
    BY <2>1, AddsOneEntry
  <2>8. e \in Entry /\ e.vpn \in Pages /\ e.ppn \in Frames
    BY <2>4, <2>5 DEF Entry
  <2> HIDE DEF e
  <2>9. TLB' \in [Entries -> Entry] /\ \A j \in Entries : TLB'[j] = IF j = AddAt THEN e ELSE TLB[j]
    BY <2>7, <2>8 DEF MemoryTyped
  <2> QED
    BY <2>2, <2>6, <2>8, <2>9 DEF MemoryTyped
<1>3. ASSUME NEW vpn \in Pages, TransferDone(vpn) PROVE MemoryTyped'
  <2> DEFINE f == Victim
             old == DRAM[f]
  <2>1. f \in Frames /\ old \in Frame
    BY VictimIsFrame DEF MemoryTyped
  <2>2. Blocked \in Procs
    BY <1>3, FirstAndPop DEF Lists, Blocked, TransferDone
  <2>3. PlacePage(Blocked, vpn)
    BY <1>3 DEF TransferDone
  <2>4. pageTable' \in [Procs -> [Pages -> Frames \cup {NoFrame}]]
    <3> DEFINE left == IF old.process = NoProc THEN pageTable
                       ELSE [pageTable EXCEPT ![old.process][old.vpn] = NoFrame]
    <3>1. left \in [Procs -> [Pages -> Frames \cup {NoFrame}]]
      BY DEF MemoryTyped
    <3>2. pageTable' = [left EXCEPT ![Blocked][vpn] = f]
      BY <2>3 DEF PlacePage
    <3> HIDE DEF left
    <3> QED
      BY <2>1, <3>1, <3>2
  <2>5. /\ TLB' \in [Entries -> Entry]
        /\ \A i \in Entries : TLB'[i].valid => TLB'[i].vpn \in Pages /\ TLB'[i].ppn \in Frames
    <3>1. NoEntry \in Entry /\ ~NoEntry.valid
      BY Words DEF NoEntry, Entry
    <3>2. TLBdelete(old.vpn) \in [Entries -> Entry]
      BY <3>1 DEF TLBdelete, MemoryTyped
    <3>3. \A i \in Entries : TLBdelete(old.vpn)[i] = NoEntry \/ TLBdelete(old.vpn)[i] = TLB[i]
      BY DEF TLBdelete
    <3>4. TLB' = TLB \/ TLB' = TLBdelete(old.vpn)
      BY <2>3 DEF PlacePage
    <3> QED
      BY <3>1, <3>2, <3>3, <3>4 DEF MemoryTyped
  <2>6. DRAM' \in [Frames -> Frame] /\ clockHand' \in Frames
    <3>1. CASE /\ DRAM' = [DRAM EXCEPT ![f] = [time |-> current_time, process |-> Blocked, vpn |-> vpn]]
               /\ UNCHANGED clockHand
      <4>1. [time |-> current_time, process |-> Blocked, vpn |-> vpn] \in Frame
        BY <2>2 DEF Frame, Clock
      <4> QED
        BY <3>1, <4>1 DEF MemoryTyped
    <3>2. CASE /\ DRAM' = [g \in Frames |->
                     IF g = f THEN [time |-> 1, process |-> Blocked, vpn |-> vpn]
                     ELSE [DRAM[g] EXCEPT !.time = IF Spared(g) THEN @ ELSE 0]]
               /\ clockHand' = f
      <4>1. [time |-> 1, process |-> Blocked, vpn |-> vpn] \in Frame
        BY <2>2, Words DEF Frame
      <4>2. \A g \in Frames : [DRAM[g] EXCEPT !.time = IF Spared(g) THEN @ ELSE 0] \in Frame
        BY Words DEF Frame, MemoryTyped
      <4> QED
        BY <2>1, <3>2, <4>1, <4>2
    <3> QED
      BY <2>3, <3>1, <3>2 DEF PlacePage
  <2> QED
    BY <2>4, <2>5, <2>6 DEF MemoryTyped
<1>4. CASE CleanUp
  <2>1. EmptyTable \in [Pages -> Frames \cup {NoFrame}]
    BY DEF EmptyTable
  <2>2. pageTable' = [pageTable EXCEPT ![runningProcess] = EmptyTable] /\ UNCHANGED <<TLB, DRAM, clockHand>>
    BY <1>4 DEF CleanUp
  <2> QED
    BY <2>1, <2>2 DEF MemoryTyped
<1>5. CASE schedulingRR
  <2>1. EmptyTLB \in [Entries -> Entry] /\ \A i \in Entries : ~EmptyTLB[i].valid
    BY Words DEF EmptyTLB, NoEntry, Entry
  <2>2. TLB' \in {TLB, EmptyTLB} /\ UNCHANGED <<pageTable, DRAM, clockHand>>
    BY <1>5 DEF schedulingRR
  <2> QED
    BY <2>1, <2>2 DEF MemoryTyped
<1>6. ASSUME UNCHANGED <<TLB, DRAM, clockHand, pageTable>> PROVE MemoryTyped'
  BY <1>6, MemoryKept
<1>7. CASE NothingRuns \/ StartSlice \/ EndSlice \/ TraceEnds \/ ReadNonMem
  BY <1>6, <1>7 DEF NothingRuns, StartSlice, EndSlice, TraceEnds, ReadNonMem, memory
<1>8. ASSUME NEW vpn \in Pages,
             TLBMissCutShort(vpn) \/ PageFault(vpn) \/ PagePresent(vpn) \/ TransferGoesOn(vpn)
      PROVE  MemoryTyped'
  BY <1>6, <1>8 DEF TLBMissCutShort, PageFault, PagePresent, TransferGoesOn
<1>9. CASE Arrivals \/ NothingBlocked \/ Requeue \/ NothingToSettle
  BY <1>6, <1>9 DEF Arrivals, NothingBlocked, Requeue, NothingToSettle, memory
<1>10. CASE NotIdle \/ AllDone \/ WaitForDisk \/ WaitForArrival \/ UNCHANGED vars
  BY <1>6, <1>10 DEF NotIdle, AllDone, WaitForDisk, WaitForArrival, memory, vars
<1> QED
  BY <1>1, <1>2, <1>3, <1>4, <1>5, <1>7, <1>8, <1>9, <1>10 DEF Next

(* A step that keeps the lists apart and every process in them. *)
Moved == Lists' /\ Live' = Live

(* Steps that leave the lists alone. *)
LEMMA ListsKept == Lists /\ UNCHANGED lists => Moved
  BY DEF Lists, lists, Moved, Live, InLists

(* The first blocked process becomes ready. *)
LEMMA UnblockMoves ==
  ASSUME Lists, blockedProcess # <<>>, Unblock
  PROVE  Moved
<1>1. /\ Blocked \in Procs /\ Tail(blockedProcess) \in Seq(Procs) /\ Once(Tail(blockedProcess))
      /\ ToSet(blockedProcess) = {Blocked} \cup ToSet(Tail(blockedProcess))
      /\ Blocked \notin ToSet(Tail(blockedProcess))
  BY FirstAndPop DEF Lists, Blocked
<1>2. Blocked \notin ToSet(readyProcess)
  BY <1>1 DEF Lists
<1>3. /\ readyProcess' \in Seq(Procs) /\ Once(readyProcess')
      /\ ToSet(readyProcess') = ToSet(readyProcess) \cup {Blocked}
  BY <1>1, <1>2, PushBack DEF Lists, Unblock
<1>4. blockedProcess' = Tail(blockedProcess) /\ UNCHANGED <<processList, runningProcess>>
  BY DEF Unblock
<1>5. Lists'
  BY <1>1, <1>2, <1>3, <1>4 DEF Lists
<1>6. Live' = Live
  BY <1>1, <1>3, <1>4 DEF Live, InLists
<1> QED
  BY <1>5, <1>6 DEF Moved

(* Whoever is moved is taken from one list and put into another. *)
LEMMA ListsMove ==
  ASSUME Clock, Lists, Control, [Next]_vars, ~CleanUp
  PROVE  Moved
<1>1. ASSUME NEW vpn \in Pages, PageFault(vpn) PROVE Moved
  <2>1. runningProcess \in Procs
    BY <1>1, RunningNow DEF PageFault, ExecutingMem
  <2>2. runningProcess \notin ToSet(blockedProcess)
    BY DEF Lists
  <2>3. /\ blockedProcess' \in Seq(Procs) /\ Once(blockedProcess')
        /\ ToSet(blockedProcess') = ToSet(blockedProcess) \cup {runningProcess}
    BY <1>1, <2>1, <2>2, PushBack DEF Lists, PageFault
  <2>4. runningProcess' = NoProc /\ UNCHANGED <<processList, readyProcess>>
    BY <1>1 DEF PageFault
  <2>5. /\ ToSet(processList) \subseteq Procs /\ ToSet(readyProcess) \subseteq Procs
        /\ ToSet(blockedProcess) \subseteq Procs /\ NoProc \notin Procs
    BY SetOfList, Parameters DEF Lists
  <2>6. Lists'
    BY <2>1, <2>3, <2>4, <2>5 DEF Lists
  <2>7. Live' = Live
    BY <2>3, <2>4, <2>5 DEF Live, InLists
  <2> QED
    BY <2>6, <2>7 DEF Moved
<1>2. CASE Arrivals
  <2> DEFINE n == NumArrived(processList, current_time)
             a == SubSeq(processList, 1, n)
             b == SubSeq(processList, n + 1, Len(processList))
  <2>1. readyProcess' = readyProcess \o a /\ processList' = b
    BY <1>2 DEF Arrivals, Arrived, NotArrived
  <2>2. UNCHANGED <<runningProcess, blockedProcess>>
    BY <1>2 DEF Arrivals
  <2>3. n \in 0 .. Len(processList)
    BY ArrivedCount, Numbers DEF Lists, Control
  <2> HIDE DEF n
  <2>4. /\ a \in Seq(Procs) /\ b \in Seq(Procs) /\ ToSet(a) \cup ToSet(b) = ToSet(processList)
        /\ Once(a) /\ Once(b) /\ ToSet(a) \cap ToSet(b) = {}
    BY <2>3, Cut DEF Lists
  <2> HIDE DEF a, b
  <2>5. ToSet(readyProcess) \cap ToSet(a) = {}
    BY <2>4 DEF Lists
  <2>6. /\ readyProcess' \in Seq(Procs) /\ Once(readyProcess')
        /\ ToSet(readyProcess') = ToSet(readyProcess) \cup ToSet(a)
    BY <2>1, <2>4, <2>5, Joined DEF Lists
  <2>7. Lists'
    BY <2>1, <2>2, <2>4, <2>5, <2>6 DEF Lists
  <2>8. Live' = Live
    BY <2>1, <2>2, <2>4, <2>6 DEF Live, InLists
  <2> QED
    BY <2>7, <2>8 DEF Moved
<1>3. ASSUME NEW vpn \in Pages, PagePresent(vpn) \/ TransferDone(vpn) PROVE Moved
  BY <1>3, UnblockMoves DEF PagePresent, TransferDone
<1>4. CASE Requeue
  <2>1. runningProcess \in Procs /\ runningProcess \notin ToSet(readyProcess)
    BY <1>4 DEF Requeue, Control, Lists
  <2>2. /\ readyProcess' \in Seq(Procs) /\ Once(readyProcess')
        /\ ToSet(readyProcess') = ToSet(readyProcess) \cup {runningProcess}
    BY <1>4, <2>1, PushBack DEF Lists, Requeue
  <2>3. runningProcess' = NoProc /\ UNCHANGED <<processList, blockedProcess>>
    BY <1>4 DEF Requeue
  <2>4. /\ ToSet(processList) \subseteq Procs /\ ToSet(readyProcess) \subseteq Procs
        /\ ToSet(blockedProcess) \subseteq Procs /\ NoProc \notin Procs
    BY SetOfList, Parameters DEF Lists
  <2>5. Lists'
    BY <2>1, <2>2, <2>3, <2>4 DEF Lists
  <2>6. Live' = Live
    BY <2>2, <2>3, <2>4 DEF Live, InLists
  <2> QED
    BY <2>5, <2>6 DEF Moved
<1>5. CASE schedulingRR
  <2>1. CASE readyProcess = <<>>
    BY <1>5, <2>1, ListsKept DEF schedulingRR
  <2>2. CASE readyProcess # <<>>
    <3>1. /\ Head(readyProcess) \in Procs /\ Tail(readyProcess) \in Seq(Procs)
          /\ ToSet(readyProcess) = {Head(readyProcess)} \cup ToSet(Tail(readyProcess))
          /\ Once(Tail(readyProcess)) /\ Head(readyProcess) \notin ToSet(Tail(readyProcess))
      BY <2>2, FirstAndPop DEF Lists
    <3>2. /\ runningProcess' = Head(readyProcess) /\ readyProcess' = Tail(readyProcess)
          /\ UNCHANGED <<processList, blockedProcess>>
      BY <1>5, <2>2 DEF schedulingRR
    <3>3. runningProcess = NoProc /\ NoProc \notin Procs
      BY <1>5, Parameters DEF schedulingRR, Control
    <3>4. Lists'
      BY <3>1, <3>2 DEF Lists
    <3>5. Live' = Live
      BY <3>1, <3>2, <3>3 DEF Live, InLists
    <3> QED
      BY <3>4, <3>5 DEF Moved
  <2> QED
    BY <2>1, <2>2
<1>6. CASE WaitForArrival
  <2> DEFINE p == Head(processList)
  <2>1. /\ p \in Procs /\ Tail(processList) \in Seq(Procs) /\ Once(Tail(processList))
        /\ ToSet(processList) = {p} \cup ToSet(Tail(processList)) /\ p \notin ToSet(Tail(processList))
    BY <1>6, FirstAndPop DEF Lists, WaitForArrival
  <2>2. readyProcess' = Append(readyProcess, p) /\ processList' = Tail(processList)
          /\ UNCHANGED <<runningProcess, blockedProcess>>
    BY <1>6 DEF WaitForArrival
  <2> HIDE DEF p
  <2>3. p \notin ToSet(readyProcess)
    BY <2>1 DEF Lists
  <2>4. /\ readyProcess' \in Seq(Procs) /\ Once(readyProcess')
        /\ ToSet(readyProcess') = ToSet(readyProcess) \cup {p}
    BY <2>1, <2>2, <2>3, PushBack DEF Lists
  <2>5. Lists'
    BY <2>1, <2>2, <2>3, <2>4 DEF Lists
  <2>6. Live' = Live
    BY <2>1, <2>2, <2>4 DEF Live, InLists
  <2> QED
    BY <2>5, <2>6 DEF Moved
<1>7. ASSUME UNCHANGED lists PROVE Moved
  BY <1>7, ListsKept
<1>8. CASE NothingRuns \/ StartSlice \/ EndSlice \/ TraceEnds \/ ReadNonMem
  BY <1>7, <1>8 DEF NothingRuns, StartSlice, EndSlice, TraceEnds, ReadNonMem
<1>9. ASSUME NEW vpn \in Pages,
              TLBHit(vpn) \/ TLBMissCutShort(vpn) \/ PageHit(vpn) \/ TransferGoesOn(vpn)
       PROVE  Moved
  BY <1>7, <1>9 DEF TLBHit, TLBMissCutShort, PageHit, TransferGoesOn
<1>10. CASE NothingBlocked \/ NothingToSettle \/ NotIdle \/ AllDone \/ WaitForDisk \/ UNCHANGED vars
  BY <1>7, <1>10 DEF NothingBlocked, NothingToSettle, NotIdle, AllDone, WaitForDisk, vars
<1> QED
  BY <1>1, <1>2, <1>3, <1>4, <1>5, <1>6, <1>8, <1>9, <1>10 DEF Next

(* No process is in two lists, and only one whose trace has ended leaves them. *)
LEMMA ListsStep ==
  ASSUME Clock, Lists, Control, [Next]_vars
  PROVE  /\ Lists'
         /\ Live' = Live \/ (CleanUp /\ runningProcess \in Live /\ Live' = Live \ {runningProcess})
<1>1. CASE CleanUp
  <2>1. runningProcess' = NoProc /\ UNCHANGED <<processList, readyProcess, blockedProcess>>
    BY <1>1 DEF CleanUp
  <2>2. runningProcess \in Procs
    BY <1>1 DEF CleanUp, Control, Lists
  <2>3. /\ ToSet(processList) \subseteq Procs /\ ToSet(readyProcess) \subseteq Procs
        /\ ToSet(blockedProcess) \subseteq Procs
    BY SetOfList DEF Lists
  <2>4. NoProc \notin Procs
    BY Parameters
  <2>5. Lists'
    BY <2>1, <2>3, <2>4 DEF Lists
  <2>6. Live' = Live \ {runningProcess} /\ runningProcess \in Live
    BY <2>1, <2>2, <2>3, <2>4 DEF Live, InLists, Lists
  <2> QED
    BY <1>1, <2>5, <2>6
<1>2. CASE ~CleanUp
  BY <1>2, ListsMove DEF Moved
<1> QED
  BY <1>1, <1>2

(* The phases of the loop agree with who runs and why it stopped. *)
LEMMA ControlStep ==
  Clock /\ Lists /\ Control /\ [Next]_vars => Control'
<1> SUFFICES ASSUME Clock, Lists, Control, [Next]_vars PROVE Control'
  OBVIOUS
<1> USE DEF Control, constant, lists, Program
<1>0. NoProc \notin Procs
  BY Parameters
<1> DEFINE P == {"slice", "run", "arrivals", "settle", "schedule", "idle", "done",
                 "disk", "diskAgain", "diskIdle"}
<1>1. /\ Phases = P /\ DOMAIN AfterDisk = {"disk", "diskAgain", "diskIdle"}
      /\ AfterDisk["disk"] = "settle" /\ AfterDisk["diskAgain"] = "idle" /\ AfterDisk["diskIdle"] = "slice"
  BY DEF Phases, Procedures, AfterDisk
<1>2. CASE NothingRuns \/ StartSlice \/ EndSlice
  BY <1>1, <1>2 DEF NothingRuns, StartSlice, EndSlice
<1>3. CASE TraceEnds
  <2>1. runningProcess \in Procs /\ pc = "run"
    BY <1>3 DEF TraceEnds, Executing, Lists
  <2>2. Running.next = Len(Program(runningProcess)) + 1
    BY <1>3, <2>1, Traces DEF TraceEnds, AtEnd, Running, Clock
  <2> QED
    BY <1>1, <1>3, <2>1, <2>2 DEF TraceEnds, Running
<1>4. CASE ReadNonMem
  <2> DEFINE needed == IF Running.fracLeft > 0 THEN Running.fracLeft ELSE non_mem_inst_length
             used == IF Available < needed THEN Available ELSE needed
             done == used = needed
  <2>1. runningProcess \in Procs /\ pc = "run" /\ Running \in Process
    BY <1>4, RunningNow DEF ReadNonMem, Executing
  <2>2. pcb' = [pcb EXCEPT ![runningProcess].user_time = @ + used,
                           ![runningProcess].fracLeft = needed - used,
                           ![runningProcess].next = IF done THEN @ + 1 ELSE @]
    BY <1>4 DEF ReadNonMem
  <2>3. IF done /\ Running.next = Len(Program(runningProcess))
        THEN simPause' = -1 /\ pc' = "arrivals" ELSE UNCHANGED <<simPause, pc>>
    BY <1>4 DEF ReadNonMem
  <2>4. UNCHANGED <<workload, page_replacement_policy, runningProcess, lastRun>>
    BY <1>4 DEF ReadNonMem
  <2> HIDE DEF needed, used, done
  <2>5. done => pcb'[runningProcess].next = Running.next + 1
    BY <2>1, <2>2 DEF Clock, Process, Running
  <2> QED
    BY <1>1, <2>1, <2>3, <2>4, <2>5
<1>5. ASSUME NEW vpn \in Pages, TLBHit(vpn) \/ TLBMissCutShort(vpn) \/ PageHit(vpn)
      PROVE  Control'
  <2>1. pc = "run" /\ UNCHANGED <<workload, page_replacement_policy, pc, simPause, runningProcess, lastRun>>
    BY <1>5 DEF TLBHit, TLBMissCutShort, PageHit, ExecutingMem, Executing
  <2> QED
    BY <1>1, <2>1
<1>6. ASSUME NEW vpn \in Pages, PageFault(vpn) PROVE Control'
  BY <1>0, <1>1, <1>6 DEF PageFault
<1>7. CASE Arrivals
  BY <1>1, <1>7 DEF Arrivals
<1>8. CASE NothingBlocked
  BY <1>1, <1>8 DEF NothingBlocked, DiskToMemory
<1>9. ASSUME NEW vpn \in Pages, PagePresent(vpn) \/ TransferGoesOn(vpn) \/ TransferDone(vpn)
      PROVE  Control'
  <2>1. /\ UNCHANGED <<workload, page_replacement_policy, simPause, runningProcess, lastRun>>
        /\ pc \in {"disk", "diskAgain", "diskIdle"} /\ pc' \in {pc, AfterDisk[pc]}
    BY <1>1, <1>9 DEF PagePresent, TransferGoesOn, TransferDone, Unblock, DiskToMemory
  <2>2. Blocked \in Procs /\ (runningProcess # NoProc => Blocked # runningProcess)
    BY <1>9, FirstAndPop DEF PagePresent, TransferGoesOn, TransferDone, Lists, Blocked
  <2>3. runningProcess \in Procs => pcb'[runningProcess] = pcb[runningProcess]
    BY <1>0, <1>9, <2>2 DEF PagePresent, TransferGoesOn, TransferDone, Clock
  <2> QED
    BY <1>1, <2>1, <2>3 DEF Lists
<1>10. CASE CleanUp \/ Requeue \/ NothingToSettle
  BY <1>0, <1>1, <1>10 DEF CleanUp, Requeue, NothingToSettle
<1>11. CASE schedulingRR
  <2>1. readyProcess # <<>> => Head(readyProcess) \in Procs
    BY FirstAndPop DEF Lists
  <2> QED
    BY <1>1, <1>11, <2>1 DEF schedulingRR
<1>12. CASE NotIdle \/ AllDone \/ WaitForDisk \/ WaitForArrival
  BY <1>1, <1>12 DEF NotIdle, AllDone, WaitForDisk, WaitForArrival, Idle
<1>13. CASE UNCHANGED vars
  BY <1>13 DEF vars
<1> QED
  BY <1>2, <1>3, <1>4, <1>5, <1>6, <1>7, <1>8, <1>9, <1>10, <1>11, <1>12, <1>13 DEF Next

(* Steps that leave the blocks of finished processes and their page tables alone. *)
LEMMA FinishedKept ==
  ASSUME Finished, workload' = workload, Live' = Live,
         \A p \in Procs \ Live : pcb'[p].next = pcb[p].next /\ pageTable'[p] = pageTable[p]
  PROVE  Finished'
  BY DEF Finished, Program

(* A process is gone only when its trace is used up, and leaves no page table. *)
LEMMA FinishedStep ==
  Clock /\ MemoryTyped /\ Lists /\ Control /\ Finished /\ [Next]_vars => Finished'
<1> SUFFICES ASSUME Clock, MemoryTyped, Lists, Control, Finished, [Next]_vars PROVE Finished'
  OBVIOUS
<1> USE DEF constant, memory
<1>1. CASE CleanUp
  <2>1. Live' = Live \ {runningProcess} \/ Live' = Live
    BY ListsStep
  <2>2. runningProcess \in Procs /\ pcb[runningProcess].next = Len(Program(runningProcess)) + 1
    BY <1>1 DEF CleanUp, Control, Lists
  <2>3. pageTable' = [pageTable EXCEPT ![runningProcess] = EmptyTable] /\ UNCHANGED <<workload, pcb>>
    BY <1>1 DEF CleanUp
  <2>4. \A p \in Procs : pageTable'[p] = IF p = runningProcess THEN EmptyTable ELSE pageTable[p]
    BY <2>3 DEF MemoryTyped
  <2> QED
    BY <2>1, <2>2, <2>3, <2>4 DEF Finished, Program
<1>2. CASE ~CleanUp
  <2>1. Live' = Live
    BY <1>2, ListsStep
  <2>2. runningProcess \in Procs => runningProcess \in Live
    BY DEF Live, InLists
  <2>3. blockedProcess # <<>> => Blocked \in Live
    BY FirstAndPop DEF Live, InLists, Lists, Blocked
  <2>4. ASSUME NEW p \in Procs \ Live
        PROVE  pcb'[p] = pcb[p] /\ pageTable'[p] = pageTable[p]
    <3>1. p # runningProcess /\ (blockedProcess # <<>> => p # Blocked)
      BY <2>2, <2>3
    <3>3. CASE ReadNonMem
      BY <3>1, <3>3 DEF ReadNonMem, Clock
    <3>4. ASSUME NEW vpn \in Pages, TLBHit(vpn) \/ TLBMissCutShort(vpn) \/ PageHit(vpn)
          PROVE  pcb'[p] = pcb[p] /\ pageTable'[p] = pageTable[p]
      <4>1. \E then, n : Advance(then, n)
        BY <3>4 DEF TLBHit, TLBMissCutShort, PageHit, Access
      <4>2. UNCHANGED pageTable
        BY <3>4 DEF TLBHit, TLBMissCutShort, PageHit
      <4> QED
        BY <3>1, <4>1, <4>2 DEF Advance, Clock
    <3>5. ASSUME NEW vpn \in Pages, PageFault(vpn)
          PROVE  pcb'[p] = pcb[p] /\ pageTable'[p] = pageTable[p]
      BY <3>1, <3>5 DEF PageFault, Clock
    <3>6. ASSUME NEW vpn \in Pages, PagePresent(vpn) \/ TransferGoesOn(vpn)
          PROVE  pcb'[p] = pcb[p] /\ pageTable'[p] = pageTable[p]
      BY <3>1, <3>6 DEF PagePresent, TransferGoesOn, Clock
    <3>7. ASSUME NEW vpn \in Pages, TransferDone(vpn)
          PROVE  pcb'[p] = pcb[p] /\ pageTable'[p] = pageTable[p]
      <4>1. pcb'[p] = pcb[p] /\ PlacePage(Blocked, vpn)
        BY <3>1, <3>7 DEF TransferDone, Clock
      <4> DEFINE old == DRAM[Victim]
                 left == IF old.process = NoProc THEN pageTable
                         ELSE [pageTable EXCEPT ![old.process][old.vpn] = NoFrame]
      <4>2. pageTable' = [left EXCEPT ![Blocked][vpn] = Victim]
        BY <4>1 DEF PlacePage
      <4>3. left[p] = pageTable[p] /\ DOMAIN left = Procs
        <5>1. pageTable[p] = EmptyTable
          BY DEF Finished
        <5>2. [EmptyTable EXCEPT ![old.vpn] = NoFrame] = EmptyTable
          BY DEF EmptyTable
        <5> QED
          BY <5>1, <5>2 DEF MemoryTyped
      <4> HIDE DEF left
      <4>4. Blocked # p
        BY <3>1, <3>7 DEF TransferDone
      <4> QED
        BY <4>1, <4>2, <4>3, <4>4
    <3>8. ASSUME UNCHANGED <<pcb, pageTable>>
          PROVE  pcb'[p] = pcb[p] /\ pageTable'[p] = pageTable[p]
      BY <3>8
    <3>9. CASE NothingRuns \/ StartSlice \/ EndSlice \/ TraceEnds \/ Arrivals \/ NothingBlocked
      BY <3>8, <3>9 DEF NothingRuns, StartSlice, EndSlice, TraceEnds, Arrivals, NothingBlocked
    <3>10. CASE Requeue \/ NothingToSettle \/ schedulingRR \/ NotIdle \/ AllDone
      BY <3>8, <3>10 DEF Requeue, NothingToSettle, schedulingRR, NotIdle, AllDone
    <3>11. CASE WaitForDisk \/ WaitForArrival \/ UNCHANGED vars
      BY <3>8, <3>11 DEF WaitForDisk, WaitForArrival, vars
    <3> QED
      BY <1>2, <3>3, <3>4, <3>5, <3>6, <3>7, <3>9, <3>10, <3>11 DEF Next
  <2>5. workload' = workload
    BY DEF Next, vars, NothingRuns, StartSlice, EndSlice, TraceEnds, ReadNonMem, TLBHit,
           TLBMissCutShort, PageHit, PageFault, PagePresent, TransferGoesOn, TransferDone, Arrivals,
           NothingBlocked, CleanUp, Requeue, NothingToSettle, schedulingRR, NotIdle, AllDone,
           WaitForDisk, WaitForArrival
  <2> QED
    BY <2>1, <2>4, <2>5, FinishedKept
<1> QED
  BY <1>1, <1>2

(* The first processes have arrived, and the first of them runs. *)
LEMMA InitInvariant == Init => IInv /\ Live = Procs
<1> SUFFICES ASSUME Init PROVE IInv /\ Live = Procs
  OBVIOUS
<1> DEFINE all == [p \in Procs |-> p]
           n == NumArrived(all, 0)
           ready == SubSeq(all, 1, n)
           later == SubSeq(all, n + 1, Len(all))
<1>1. /\ workload \in Workloads /\ page_replacement_policy \in {"LRU", "clock"} /\ pc = "slice"
      /\ runningProcess = Head(ready) /\ readyProcess = Tail(ready) /\ lastRun = Head(ready)
      /\ processList = later /\ blockedProcess = <<>> /\ simPause = 0
  BY DEF Init, Arrived, NotArrived
<1>2. PICK N \in Nat \ {0} : Procs = 1 .. N
  BY SimulatorAssumption, FS_CardinalityType, FS_EmptySet
<1>3. all \in Seq(Procs) /\ Len(all) = N /\ Once(all) /\ ToSet(all) = Procs /\ all[1] = 1
  <2>1. all \in Seq(Procs) /\ Len(all) = N /\ \A p \in 1 .. N : all[p] = p
    BY <1>2
  <2>2. Once(all)
    BY <2>1 DEF Once
  <2>3. ToSet(all) = {all[i] : i \in 1 .. N}
    BY <2>1, SetOfList
  <2>4. {all[i] : i \in 1 .. N} = 1 .. N
    BY <2>1
  <2> HIDE DEF all
  <2> QED
    BY <1>2, <2>1, <2>2, <2>3, <2>4
<1>4. n \in 0 .. N /\ (n = 0 /\ all # <<>> => Start(all[1]) > 0)
  <2>1. NumArrived(all, 0) \in 0 .. Len(all)
    BY <1>1, <1>3, ArrivedCount
  <2> HIDE DEF all
  <2>2. NumArrived(all, 0) = 0 /\ all # <<>> => Start(all[1]) > 0
    BY <1>1, <1>3, ArrivedCount
  <2> QED
    BY <1>3, <2>1, <2>2
<1>5. n # 0
  <2>1. Start(all[1]) = 0 /\ all # <<>>
    BY <1>1, <1>2, <1>3, SimulatorAssumption DEF Start
  <2> HIDE DEF all, n
  <2> QED
    BY <1>4, <2>1
<1> HIDE DEF n
<1>6. /\ ready \in Seq(Procs) /\ later \in Seq(Procs) /\ ToSet(ready) \cup ToSet(later) = Procs
      /\ Once(ready) /\ Once(later) /\ ToSet(ready) \cap ToSet(later) = {}
  BY <1>3, <1>4, Cut
<1>7. ready # <<>>
  <2>1. Len(ready) = n
    BY <1>2, <1>3, <1>4
  <2> QED
    BY <1>4, <1>5, <2>1
<1> HIDE DEF ready, later, all
<1>8. /\ Head(ready) \in Procs /\ Tail(ready) \in Seq(Procs)
      /\ ToSet(ready) = {Head(ready)} \cup ToSet(Tail(ready))
      /\ Once(Tail(ready)) /\ Head(ready) \notin ToSet(Tail(ready))
  BY <1>6, <1>7, FirstAndPop
<1>9. /\ blockedProcess \in Seq(Procs) /\ Once(blockedProcess) /\ ToSet(blockedProcess) = {}
  BY <1>1 DEF Once, ToSet
<1>10. Lists
  BY <1>1, <1>6, <1>8, <1>9 DEF Lists
<1>11. Live = Procs
  BY <1>1, <1>6, <1>8, <1>9 DEF Live, InLists
<1>12. Control
  BY <1>1, <1>8 DEF Control, Phases, Procedures
<1>13. Finished
  BY <1>11 DEF Finished
<1>14. Clock
  <2> DEFINE r == [next |-> 1, fracLeft |-> 0, blockOccur |-> 0, user_time |-> 0]
  <2>1. r \in Process /\ r.next = 1
    BY Words DEF Process
  <2>2. pcb = [p \in Procs |-> r]
    BY DEF Init
  <2>3. current_time = 0 /\ nextQuanta = quantum /\ stopTime = 0 /\ lastStop = 0
    BY DEF Init
  <2>4. \A p \in Procs : Len(Program(p)) \in Nat
    BY <1>12, Traces
  <2> HIDE DEF r
  <2>5. pcb \in [Procs -> Process] /\ \A p \in Procs : pcb[p].next \in 1 .. Len(Program(p)) + 1
    BY <2>1, <2>2, <2>4
  <2> QED
    BY <2>3, <2>5, Words DEF Clock
<1>15. MemoryTyped
  <2>1. NoEntry \in Entry /\ ~NoEntry.valid
    BY Words DEF NoEntry, Entry
  <2>2. TLB \in [Entries -> Entry] /\ \A i \in Entries : ~TLB[i].valid
    BY <2>1 DEF Init, EmptyTLB
  <2>3. 0 \in Pages
    <3>1. ASSUME NEW a \in Nat, NEW b \in 1 .. a PROVE a \div b >= 1 /\ a \div b \in Int
      <4>1. a \div b \in Int /\ a = b * (a \div b) + (a % b) /\ a % b < b
        OBVIOUS
      <4>2. a \div b < 1 => b * (a \div b) <= 0
        BY <4>1
      <4> QED
        BY <4>1, <4>2
    <3> QED
      BY <3>1, SimulatorAssumption DEF Pages
  <2>4. [time |-> 0, process |-> NoProc, vpn |-> 0] \in Frame
    BY <2>3, Words DEF Frame
  <2>5. DRAM \in [Frames -> Frame]
    BY <2>4 DEF Init
  <2>6. clockHand \in Frames
    BY SimulatorAssumption DEF Init, Frames
  <2>7. pageTable \in [Procs -> [Pages -> Frames \cup {NoFrame}]]
    BY DEF Init, EmptyTable
  <2> QED
    BY <2>2, <2>5, <2>6, <2>7 DEF MemoryTyped
<1> QED
  BY <1>10, <1>11, <1>12, <1>13, <1>14, <1>15 DEF IInv

(* IInv holds at first and is kept by every step. *)
LEMMA IInvInductive == Spec => []IInv
<1>1. Init => IInv
  BY InitInvariant
<1>2. IInv /\ [Next]_vars => IInv'
  BY ClockStep, MemoryStep, ListsStep, ControlStep, FinishedStep DEF IInv
<1> QED
  BY <1>1, <1>2, PTL DEF Spec

(* TypeOK: simulate() never reads past a trace, never uses a frame number    *)
(* outside DRAM, and stays in the phases of its loop, in every simulation. *)
THEOREM SimulatorTypes == Spec => []TypeOK
<1>1. IInv => TypeOK
  <2> SUFFICES ASSUME IInv PROVE TypeOK
    OBVIOUS
  <2>1. \A p \in Procs : pcb[p].fracLeft \in Times
    BY DEF IInv, Clock, Process
  <2> QED
    BY <2>1 DEF IInv, Clock, MemoryTyped, Lists, Control, TypeOK, Phases
<1> QED
  BY <1>1, IInvInductive, PTL

(* NoProcessLost: between readPage's fault, diskToMemory, the quanta and    *)
(* schedulingRR no process is dropped before its trace ends or queued      *)
(* twice; cleanUpProcess alone takes a process out, when it has ended.     *)
THEOREM NoneLost == Spec => []NoProcessLost
<1>1. IInv => NoProcessLost
  <2> SUFFICES ASSUME IInv PROVE NoProcessLost
    OBVIOUS
  <2> DEFINE A == ToSet(processList)
             B == ToSet(readyProcess)
             C == ToSet(blockedProcess)
             R == Procs \cap {runningProcess}
  <2>1. /\ IsFiniteSet(A) /\ Cardinality(A) = Len(processList)
        /\ IsFiniteSet(B) /\ Cardinality(B) = Len(readyProcess)
        /\ IsFiniteSet(C) /\ Cardinality(C) = Len(blockedProcess)
    BY CountOnce DEF IInv, Lists
  <2>2. IsFiniteSet(R) /\ Cardinality(R) = IF runningProcess = NoProc THEN 0 ELSE 1
    <3>1. CASE runningProcess = NoProc
      <4>1. R = {}
        BY <3>1, Parameters
      <4> QED
        BY <3>1, <4>1, FS_EmptySet
    <3>2. CASE runningProcess # NoProc
      <4>1. R = {runningProcess}
        BY <3>2 DEF IInv, Lists
      <4> QED
        BY <3>2, <4>1, FS_Singleton
    <3> QED
      BY <3>1, <3>2
  <2>3. A \cap B = {} /\ (A \cup B) \cap C = {} /\ (A \cup B \cup C) \cap R = {}
    BY DEF IInv, Lists
  <2>4. Live = A \cup B \cup C \cup R
    BY SetOfList DEF Live, InLists, IInv, Lists
  <2> HIDE DEF A, B, C, R
  <2>5. ASSUME NEW X, NEW Y, IsFiniteSet(X), IsFiniteSet(Y), X \cap Y = {}
        PROVE  IsFiniteSet(X \cup Y) /\ Cardinality(X \cup Y) = Cardinality(X) + Cardinality(Y)
    <3>1. /\ IsFiniteSet(X \cup Y)
          /\ Cardinality(X \cup Y) = Cardinality(X) + Cardinality(Y) - Cardinality(X \cap Y)
      BY <2>5, FS_Union
    <3>2. Cardinality(X \cap Y) = 0
      BY <2>5, FS_EmptySet
    <3>3. Cardinality(X) \in Nat /\ Cardinality(Y) \in Nat
      BY <2>5, FS_CardinalityType
    <3> QED
      BY <3>1, <3>2, <3>3
  <2>6. IsFiniteSet(A \cup B) /\ Cardinality(A \cup B) = Cardinality(A) + Cardinality(B)
    BY <2>1, <2>3, <2>5
  <2>7. /\ IsFiniteSet(A \cup B \cup C)
        /\ Cardinality(A \cup B \cup C) = Cardinality(A) + Cardinality(B) + Cardinality(C)
    BY <2>1, <2>3, <2>5, <2>6
  <2>8. Cardinality(Live) = Cardinality(A) + Cardinality(B) + Cardinality(C) + Cardinality(R)
    BY <2>2, <2>3, <2>4, <2>5, <2>7
  <2> QED
    BY <2>1, <2>2, <2>8 DEF NoProcessLost, IInv, Finished
<1> QED
  BY <1>1, IInvInductive, PTL

-----------------------------------------------------------------------------
(* Paging is implemented *)

(* Timestamps are no part of what the TLB and DRAM hold. *)
LEMMA SameMemory ==
  ASSUME \A i \in Entries : /\ TLB'[i].valid = TLB[i].valid /\ TLB'[i].vpn = TLB[i].vpn
                            /\ TLB'[i].ppn = TLB[i].ppn,
         \A f \in Frames : DRAM'[f].process = DRAM[f].process /\ DRAM'[f].vpn = DRAM[f].vpn
  PROVE  Cached' = Cached /\ Held' = Held
<1>1. Cached' = Cached
  BY DEF Cached
<1>2. Held' = Held
  BY DEF Held, Holds
<1> QED
  BY <1>1, <1>2

(* An access changes timestamps only. *)
LEMMA AccessKeepsHeld ==
  ASSUME MemoryTyped, NEW ppn, NEW now, Access(ppn, now)
  PROVE  \A f \in Frames : DRAM'[f].process = DRAM[f].process /\ DRAM'[f].vpn = DRAM[f].vpn
  BY DEF Access, MemoryTyped, Frame

(* TLBadd caches the translation, possibly in the place of another. *)
LEMMA AddFills ==
  ASSUME MemoryTyped, NEW vpn, NEW ppn, NEW now, TLB' = TLBadd(vpn, ppn, now)
  PROVE  \E kept \in {Cached} \cup {Cached \ {e} : e \in Cached} :
           Cached' = kept \cup {<<vpn, ppn>>}
<1> DEFINE i == AddAt
           e == <<TLB[i].vpn, TLB[i].ppn>>
           new == [valid |-> TRUE, time |-> now, vpn |-> vpn, ppn |-> ppn]
           others == {<<TLB[j].vpn, TLB[j].ppn>> : j \in {k \in Entries : TLB[k].valid /\ k # i}}
<1>1. i \in Entries /\ TLB' = [TLB EXCEPT ![i] = new]
  BY AddsOneEntry
<1>2. \A j \in Entries : TLB'[j] = IF j = i THEN new ELSE TLB[j]
  BY <1>1 DEF MemoryTyped
<1>3. Cached' = others \cup {<<vpn, ppn>>}
  BY <1>1, <1>2 DEF Cached
<1>4. Cached = IF TLB[i].valid THEN others \cup {e} ELSE others
  BY <1>1 DEF Cached
<1> HIDE DEF others, e
<1>5. others = Cached \/ (e \in Cached /\ others = Cached \ {e})
  BY <1>4
<1> QED
  BY <1>3, <1>5

(* DRAMadd, TLBdelete and the two page tables together are Paging's Load. *)
LEMMA PlacedIsLoad ==
  ASSUME MemoryTyped, Lists, Finished, NEW p \in Live, NEW vpn \in Pages,
         pageTable[p][vpn] = NoFrame, PlacePage(p, vpn), UNCHANGED <<lastRun, Live>>
  PROVE  Memory!Load(p, vpn, Victim)
<1> DEFINE f == Victim
           old == DRAM[f]
<1>1. f \in Frames /\ old \in Frame /\ p \in Procs
  BY VictimIsFrame DEF MemoryTyped, Live
<1>2. NoProc \notin Procs
  BY Parameters
<1>3. Held[f] = IF old.process = NoProc THEN NoProc ELSE <<old.process, old.vpn>>
  BY <1>1 DEF Held, Holds
<1>4. old.process \in Procs \cup {NoProc} /\ old.vpn \in Pages
  BY <1>1 DEF Frame
<1>5. Held' = [Held EXCEPT ![f] = <<p, vpn>>]
  <2>1. \A g \in Frames : /\ g # f => DRAM'[g].process = DRAM[g].process /\ DRAM'[g].vpn = DRAM[g].vpn
                          /\ DRAM'[f].process = p /\ DRAM'[f].vpn = vpn
    BY <1>1 DEF PlacePage, MemoryTyped, Frame
  <2>2. \A g \in Frames : Holds(g)' = IF g = f THEN <<p, vpn>> ELSE Holds(g)
    BY <1>1, <1>2, <2>1 DEF Holds
  <2> QED
    BY <2>2 DEF Held
<1>6. Cached' = Memory!TlbWithout(f)
  <2>1. CASE old.process = NoProc
    <3>1. TLB' = TLB
      BY <2>1 DEF PlacePage
    <3>2. Cached' = Cached
      BY <3>1 DEF Cached
    <3> QED
      BY <1>3, <2>1, <3>2 DEF Memory!TlbWithout
  <2>2. CASE old.process # NoProc
    <3>1. TLB' = TLBdelete(old.vpn)
      BY <2>2 DEF PlacePage
    <3>2. \A i \in Entries : TLB'[i] = IF TLB[i].vpn = old.vpn THEN NoEntry ELSE TLB[i]
      BY <3>1 DEF TLBdelete
    <3>3. Cached' = {<<TLB[i].vpn, TLB[i].ppn>> :
                       i \in {j \in Entries : TLB[j].valid /\ TLB[j].vpn # old.vpn}}
      BY <3>2 DEF Cached, NoEntry
    <3>4. Held[f] # NoProc /\ Held[f][2] = old.vpn
      BY <1>2, <1>3, <1>4, <2>2, SimulatorAssumption
    <3>5. Memory!TlbWithout(f) = {e \in Cached : e[1] # old.vpn}
      BY <3>4 DEF Memory!TlbWithout
    <3>6. {e \in Cached : e[1] # old.vpn}
            = {<<TLB[i].vpn, TLB[i].ppn>> : i \in {j \in Entries : TLB[j].valid /\ TLB[j].vpn # old.vpn}}
      BY DEF Cached
    <3> QED
      BY <3>3, <3>5, <3>6
  <2> QED
    BY <2>1, <2>2
<1>7. pageTable' = [Memory!TablesWithout(f) EXCEPT ![p][vpn] = f]
  <2> DEFINE left == IF old.process = NoProc THEN pageTable
                     ELSE [pageTable EXCEPT ![old.process][old.vpn] = NoFrame]
  <2>1. pageTable' = [left EXCEPT ![p][vpn] = f]
    BY DEF PlacePage
  <2>2. \A q \in Procs, w \in Pages : Held[f] = <<q, w>> <=> old.process = q /\ old.vpn = w
    BY <1>2, <1>3, <1>4, SimulatorAssumption
  <2>3. \A q \in Procs \ Live, w \in Pages : pageTable[q][w] = NoFrame
    BY DEF Finished, EmptyTable
  <2>4. left \in [Procs -> [Pages -> Frames \cup {NoFrame}]]
    BY DEF MemoryTyped
  <2>5. ASSUME NEW q \in Procs, NEW w \in Pages
        PROVE  left[q][w] = Memory!TablesWithout(f)[q][w]
    <3>1. left[q][w] = IF old.process = q /\ old.vpn = w THEN NoFrame ELSE pageTable[q][w]
      BY <1>2, <1>4 DEF MemoryTyped
    <3>2. Memory!TablesWithout(f)[q][w] =
            IF Held[f] = <<q, w>> /\ q \in Live THEN NoFrame ELSE pageTable[q][w]
      BY DEF Memory!TablesWithout
    <3> QED
      BY <2>2, <2>3, <3>1, <3>2
  <2>6. Memory!TablesWithout(f) \in [Procs -> [Pages -> Frames \cup {NoFrame}]]
    BY DEF Memory!TablesWithout, MemoryTyped
  <2> HIDE DEF left
  <2>7. left = Memory!TablesWithout(f)
    <3>1. \A q \in Procs : left[q] = Memory!TablesWithout(f)[q]
      BY <2>4, <2>5, <2>6
    <3> QED
      BY <2>4, <2>6, <3>1
  <2> QED
    BY <2>1, <2>7
<1> QED
  BY <1>5, <1>6, <1>7 DEF Memory!Load

(* Every step of the simulator is a step of Paging or none. *)
LEMMA PagingStep ==
  IInv /\ [Next]_vars => [Memory!Next]_Memory!pagingVars
<1> SUFFICES ASSUME IInv, [Next]_vars PROVE [Memory!Next]_Memory!pagingVars
  OBVIOUS
<1> DEFINE Goal == [Memory!Next]_Memory!pagingVars
<1> SUFFICES Goal
  OBVIOUS
<1> USE DEF IInv, memory, constant
<1>1. Live' = Live \/ (CleanUp /\ runningProcess \in Live /\ Live' = Live \ {runningProcess})
  BY ListsStep
<1>2. ASSUME UNCHANGED <<lastRun, Live, Cached, pageTable, Held>> PROVE Goal
  BY <1>2 DEF Memory!pagingVars
<1>3. ASSUME UNCHANGED <<lastRun, Live, TLB, pageTable, DRAM>> PROVE Goal
  BY <1>2, <1>3, SameMemory
<1> HIDE DEF Goal
<1>4. ASSUME NEW vpn \in Pages, TLBHit(vpn) PROVE Goal
  <2>1. PICK i \in Hits(vpn) : /\ TLB' = [TLB EXCEPT ![i].time = Looked]
                               /\ Access(TLB[i].ppn, Looked)
    BY <1>4 DEF TLBHit
  <2>2. \A j \in Entries : /\ TLB'[j].valid = TLB[j].valid /\ TLB'[j].vpn = TLB[j].vpn
                           /\ TLB'[j].ppn = TLB[j].ppn
    BY <2>1 DEF MemoryTyped, Entry
  <2>3. \A f \in Frames : DRAM'[f].process = DRAM[f].process /\ DRAM'[f].vpn = DRAM[f].vpn
    BY <2>1, AccessKeepsHeld
  <2>4. UNCHANGED <<lastRun, pageTable>> /\ pc = "run"
    BY <1>4 DEF TLBHit, ExecutingMem, Executing
  <2>5. Live' = Live
    BY <1>1, <2>4 DEF CleanUp
  <2> QED
    BY <1>2, <2>2, <2>3, <2>4, <2>5, SameMemory
<1>5. ASSUME NEW vpn \in Pages, PageHit(vpn) PROVE Goal
  <2> DEFINE ppn == pageTable[runningProcess][vpn]
             now == Looked + DRAM_latency
  <2>1. ppn # NoFrame /\ TLB' = TLBadd(vpn, ppn, now) /\ Access(ppn, now) /\ Hits(vpn) = {}
    BY <1>5 DEF PageHit
  <2>2. UNCHANGED <<lastRun, pageTable>> /\ pc = "run"
    BY <1>5 DEF PageHit, ExecutingMem, Executing
  <2>3. lastRun = runningProcess /\ lastRun \in Live
    BY <2>2 DEF Control, Live, InLists
  <2>4. Live' = Live
    BY <1>1, <2>2 DEF CleanUp
  <2>5. \E kept \in {Cached} \cup {Cached \ {e} : e \in Cached} : Cached' = kept \cup {<<vpn, ppn>>}
    BY <2>1, AddFills
  <2>6. \A e \in Cached : e[1] # vpn
    BY <2>1 DEF Cached, Hits
  <2>7. \A f \in Frames : DRAM'[f].process = DRAM[f].process /\ DRAM'[f].vpn = DRAM[f].vpn
    BY <2>1, AccessKeepsHeld
  <2>8. Held' = Held
    BY <2>7 DEF Held, Holds
  <2>9. Memory!Fill(vpn)
    BY <2>1, <2>2, <2>3, <2>4, <2>5, <2>6, <2>8 DEF Memory!Fill
  <2> QED
    BY <2>9 DEF Goal, Memory!Next
<1>6. ASSUME NEW vpn \in Pages, TransferDone(vpn) PROVE Goal
  <2>1. Blocked \in Live
    BY <1>6, FirstAndPop DEF TransferDone, Live, InLists, Lists, Blocked
  <2>2. PlacePage(Blocked, vpn) /\ pageTable[Blocked][vpn] = NoFrame /\ UNCHANGED lastRun
    BY <1>6 DEF TransferDone
  <2>3. Live' = Live
    BY <1>1, <1>6 DEF CleanUp, TransferDone, DiskToMemory, AfterDisk
  <2>4. Memory!Load(Blocked, vpn, Victim)
    BY <2>1, <2>2, <2>3, PlacedIsLoad
  <2>5. Victim \in Frames /\ Blocked \in Procs
    BY <2>1, VictimIsFrame DEF Live
  <2> QED
    BY <2>4, <2>5 DEF Goal, Memory!Next
<1>7. CASE CleanUp
  <2>1. runningProcess \in Procs
    BY <1>7 DEF CleanUp, Control, Lists
  <2>2. UNCHANGED <<lastRun, TLB, DRAM>> /\ pageTable' = [pageTable EXCEPT ![runningProcess] = EmptyTable]
    BY <1>7 DEF CleanUp
  <2>3. Cached' = Cached /\ Held' = Held
    BY <2>2, SameMemory
  <2>4. CASE Live' = Live \ {runningProcess} /\ runningProcess \in Live
    <3>1. Memory!Exit(runningProcess)
      BY <2>2, <2>3, <2>4 DEF Memory!Exit, EmptyTable
    <3> QED
      BY <2>1, <3>1 DEF Goal, Memory!Next
  <2>5. runningProcess \in Live /\ runningProcess \notin Live'
    <3>1. runningProcess \in Live
      BY <2>1 DEF Live, InLists
    <3>2. runningProcess' = NoProc /\ UNCHANGED <<processList, readyProcess, blockedProcess>>
      BY <1>7 DEF CleanUp
    <3> QED
      BY <2>1, <3>1, <3>2, Parameters DEF Live, InLists, Lists
  <2> QED
    BY <1>1, <2>4, <2>5
<1>8. CASE schedulingRR
  <2>1. Live' = Live
    BY <1>1, <1>8 DEF CleanUp, schedulingRR
  <2>2. CASE readyProcess = <<>> \/ lastRun = Head(readyProcess)
    <3>1. UNCHANGED <<lastRun, TLB, pageTable, DRAM>>
      BY <1>8, <2>2 DEF schedulingRR
    <3> QED
      BY <1>3, <2>1, <3>1
  <2>3. CASE readyProcess # <<>> /\ lastRun # Head(readyProcess)
    <3> DEFINE p == Head(readyProcess)
    <3>1. p \in Live /\ p \in Procs
      BY <2>3, FirstAndPop DEF Live, InLists, Lists
    <3>2. lastRun' = p /\ TLB' = EmptyTLB /\ UNCHANGED <<pageTable, DRAM>>
      BY <1>8, <2>3 DEF schedulingRR
    <3>3. Cached' = {}
      BY <3>2 DEF Cached, EmptyTLB, NoEntry
    <3>4. Held' = Held
      BY <3>2 DEF Held, Holds
    <3> HIDE DEF p
    <3>5. Memory!Switch(p)
      BY <2>1, <3>1, <3>2, <3>3, <3>4 DEF Memory!Switch
    <3> QED
      BY <3>1, <3>5 DEF Goal, Memory!Next
  <2> QED
    BY <2>2, <2>3
<1>9. ASSUME ~CleanUp, UNCHANGED <<lastRun, TLB, pageTable, DRAM>> PROVE Goal
  BY <1>1, <1>3, <1>9
<1>10. CASE NothingRuns \/ StartSlice \/ EndSlice \/ TraceEnds \/ ReadNonMem
  BY <1>9, <1>10 DEF NothingRuns, StartSlice, EndSlice, TraceEnds, ReadNonMem, Executing, CleanUp
<1>11. ASSUME NEW vpn \in Pages,
             TLBMissCutShort(vpn) \/ PageFault(vpn) \/ PagePresent(vpn) \/ TransferGoesOn(vpn)
      PROVE  Goal
  BY <1>9, <1>11 DEF TLBMissCutShort, PageFault, PagePresent, TransferGoesOn, ExecutingMem,
     Executing, DiskToMemory, AfterDisk, CleanUp
<1>12. CASE Arrivals \/ NothingBlocked \/ Requeue \/ NothingToSettle
  BY <1>9, <1>12 DEF Arrivals, NothingBlocked, Requeue, NothingToSettle, DiskToMemory, AfterDisk, CleanUp
<1>13. CASE NotIdle \/ AllDone \/ WaitForDisk \/ WaitForArrival
  BY <1>9, <1>13 DEF NotIdle, AllDone, WaitForDisk, WaitForArrival, Idle, CleanUp
<1>14. CASE UNCHANGED vars
  <2>1. UNCHANGED <<lastRun, Live, TLB, pageTable, DRAM>>
    BY <1>14 DEF vars, lists, Live, InLists
  <2> QED
    BY <1>3, <2>1
<1> QED
  BY <1>4, <1>5, <1>6, <1>7, <1>8, <1>10, <1>11, <1>12, <1>13, <1>14 DEF Next

(* ImplementsPaging: readPage, diskToMemory with DRAMadd, TLBadd and         *)
(* TLBdelete, schedulingRR's flush and cleanUpProcess do to the TLB, DRAM   *)
(* and page tables what Paging allows, through every phase of the loop.    *)
THEOREM PagingImplemented == Spec => ImplementsPaging
<1>1. Init => Memory!Init
  <2> SUFFICES ASSUME Init PROVE Memory!Init
    OBVIOUS
  <2>1. IInv /\ Live = Procs
    BY InitInvariant
  <2>2. Cached = {}
    BY DEF Init, Cached, EmptyTLB, NoEntry
  <2>3. Held = [f \in Frames |-> NoProc]
    BY DEF Init, Held, Holds
  <2>4. lastRun \in Procs /\ pageTable = [p \in Procs |-> [v \in Pages |-> NoFrame]]
    BY <2>1 DEF IInv, Control, Init, EmptyTable
  <2> QED
    BY <2>1, <2>2, <2>3, <2>4 DEF Memory!Init
<1>2. IInv /\ [Next]_vars => [Memory!Next]_Memory!pagingVars
  BY PagingStep
<1> QED
  BY <1>1, <1>2, IInvInductive, PTL DEF Spec, ImplementsPaging, Memory!Spec

(* The memory of the simulator, as PagingProofs knows it; its page tables are *)
(* the flat ones, so the trees have no shape and are left out.               *)
MemoryProofs == INSTANCE PagingProofs WITH
  owner <- lastRun, live <- Live, Free <- NoProc, tlb <- Cached, frames <- Held,
  Shapes <- {}, sysParam <- {}, tree <- {}

(* What Paging promises holds of the simulator's TLB, DRAM and page tables: *)
(* readPage never translates with a stale entry, and no two pages of        *)
(* processes that still run share a frame.                                  *)
THEOREM SimulatedMemoryConsistent ==
  Spec => [](Memory!FramesMatchTables /\ Memory!TLBCoherent)
<1>1. Memory!Spec => MemoryProofs!Spec
  <2>1. Memory!Init => MemoryProofs!Init
    BY DEF Memory!Init, MemoryProofs!Init
  <2>2. Memory!Next <=> MemoryProofs!Next
    BY DEF Memory!Next, Memory!Switch, Memory!Exit, Memory!Fill, Memory!Load, Memory!TablesWithout,
           Memory!TlbWithout, MemoryProofs!Next, MemoryProofs!Switch, MemoryProofs!Exit,
           MemoryProofs!Fill, MemoryProofs!Load, MemoryProofs!TablesWithout, MemoryProofs!TlbWithout
  <2>3. UNCHANGED Memory!pagingVars <=> UNCHANGED MemoryProofs!pagingVars
    BY DEF Memory!pagingVars, MemoryProofs!pagingVars
  <2> QED
    BY <2>1, <2>2, <2>3, PTL DEF Memory!Spec, MemoryProofs!Spec
<1>2. MemoryProofs!Spec => []MemoryProofs!FramesMatchTables /\ []MemoryProofs!TLBCoherent
  <2>1. /\ NoFrame \notin Frames /\ NoProc \notin Procs \X Pages /\ Pages \subseteq Nat
        /\ \A s \in {} : /\ s.levels \in 1 .. 3 /\ s.N2_in_bits \in Nat /\ s.N3_in_bits \in Nat
                         /\ s.levels < 2 => s.N2_in_bits = 0
                         /\ s.levels < 3 => s.N3_in_bits = 0
    BY SimulatorAssumption DEF Pages
  <2> QED
    BY <2>1, MemoryProofs!TablesInverse, MemoryProofs!TLBAlwaysCoherent, PTL
<1>3. MemoryProofs!FramesMatchTables => Memory!FramesMatchTables
  BY DEF Memory!FramesMatchTables, MemoryProofs!FramesMatchTables
<1>4. MemoryProofs!TLBCoherent => Memory!TLBCoherent
  BY DEF Memory!TLBCoherent, MemoryProofs!TLBCoherent
<1> QED
  BY <1>1, <1>2, <1>3, <1>4, PagingImplemented, PTL DEF ImplementsPaging

-----------------------------------------------------------------------------
(* Times *)

(* The user time a process gains in a step, from now on, ends by the stop time. *)
Gains(p) ==
  pcb'[p].user_time # pcb[p].user_time =>
    current_time + pcb'[p].user_time - pcb[p].user_time <= stopTime

(* Whoever advances to a time not after the stop time gains no more. *)
LEMMA AdvanceGains ==
  ASSUME IInv, NEW then \in Int, then <= stopTime, NEW n, Advance(then, n), NEW p \in Procs
  PROVE  Gains(p)
<1>1. current_time \in Int /\ stopTime \in Int /\ pcb[p].user_time \in Int
  BY Numbers DEF IInv
<1>2. pcb'[p].user_time = IF p = runningProcess THEN pcb[p].user_time + then - current_time
                          ELSE pcb[p].user_time
  BY DEF Advance, IInv, Clock, Process
<1> QED
  BY <1>1, <1>2 DEF Gains

(* UserTimeWithinSlice: readPage never computes past the time that           *)
(* processSimulator gave it, whatever combination of accesses it needs.    *)
THEOREM UserTimeBounded == Spec => UserTimeWithinSlice
<1> DEFINE A == \A p \in Procs : pcb'[p].user_time # pcb[p].user_time =>
                  current_time + pcb'[p].user_time - pcb[p].user_time <= stopTime
<1>1. IInv /\ [Next]_vars => [A]_vars
  <2> SUFFICES ASSUME IInv, Next, NEW p \in Procs PROVE Gains(p)
    BY DEF Gains
  <2> USE DEF IInv
  <2>1. current_time \in Int /\ stopTime \in Int /\ pcb[p].user_time \in Int /\ pcb[p] \in Process
    BY Numbers
  <2>2. CASE ReadNonMem
    <3> DEFINE needed == IF Running.fracLeft > 0 THEN Running.fracLeft ELSE non_mem_inst_length
               used == IF Available < needed THEN Available ELSE needed
               done == used = needed
    <3>1. runningProcess \in Procs /\ Running \in Process
      BY <2>2, RunningNow DEF ReadNonMem
    <3>2. needed \in Int
      BY <3>1, Parameters, Words DEF Process
    <3>3. used \in Int /\ used <= stopTime - current_time
      <4> HIDE DEF needed
      <4> QED
        BY <2>1, <3>2 DEF Available
    <3>4. pcb' = [pcb EXCEPT ![runningProcess].user_time = @ + used,
                             ![runningProcess].fracLeft = needed - used,
                             ![runningProcess].next = IF done THEN @ + 1 ELSE @]
      BY <2>2 DEF ReadNonMem
    <3> HIDE DEF needed, used, done
    <3>5. pcb'[p].user_time = IF p = runningProcess THEN pcb[p].user_time + used
                              ELSE pcb[p].user_time
      BY <3>4 DEF Clock, Process
    <3> QED
      BY <2>1, <3>3, <3>5 DEF Gains
  <2>3. ASSUME Executing, NEW ppn, NEW now \in Int, now <= stopTime, Access(ppn, now)
        PROVE  Gains(p)
    <3>1. CASE stopTime - now >= DRAM_latency /\ Advance(now + DRAM_latency, 1)
      <4>1. DRAM_latency \in Int
        BY Parameters, Words
      <4>2. now + DRAM_latency \in Int /\ now + DRAM_latency <= stopTime
        BY <2>1, <3>1, <4>1
      <4> QED
        BY <3>1, <4>2, AdvanceGains
    <3>2. CASE Advance(stopTime, 0)
      BY <2>1, <3>2, AdvanceGains
    <3> QED
      BY <2>3, <3>1, <3>2 DEF Access
  <2>4. ASSUME NEW vpn \in Pages, TLBHit(vpn) PROVE Gains(p)
    <3>1. Executing /\ \E ppn : Access(ppn, Looked)
      BY <2>4 DEF TLBHit, ExecutingMem
    <3>2. Looked \in Int /\ Looked <= stopTime
      BY <3>1, RunningNow, Words
    <3> QED
      BY <2>3, <3>1, <3>2
  <2>5. ASSUME NEW vpn \in Pages, TLBMissCutShort(vpn) PROVE Gains(p)
    BY <2>1, <2>5, AdvanceGains DEF TLBMissCutShort
  <2>6. ASSUME Executing, TimeForTable
        PROVE  /\ Looked + DRAM_latency \in Int /\ Looked + DRAM_latency <= stopTime
               /\ Looked = current_time + TLB_latency
    <3>1. Looked \in Int /\ DRAM_latency \in Int
      BY <2>6, RunningNow, Parameters, Words
    <3> QED
      BY <2>1, <2>6, <3>1 DEF TimeForTable, Looked
  <2>7. ASSUME NEW vpn \in Pages, PageHit(vpn) PROVE Gains(p)
    <3>1. Executing /\ TimeForTable /\ \E ppn : Access(ppn, Looked + DRAM_latency)
      BY <2>7 DEF PageHit, ExecutingMem
    <3> QED
      BY <2>3, <2>6, <3>1
  <2>8. ASSUME NEW vpn \in Pages, PageFault(vpn) PROVE Gains(p)
    <3>1. Executing /\ TimeForTable
      BY <2>8 DEF PageFault, ExecutingMem
    <3>2. pcb'[p].user_time = IF p = runningProcess THEN pcb[p].user_time + TLB_latency + DRAM_latency
                              ELSE pcb[p].user_time
      BY <2>8 DEF PageFault, Clock, Process
    <3>3. TLB_latency \in Int /\ DRAM_latency \in Int
      BY Parameters, Words
    <3> QED
      BY <2>1, <2>6, <3>1, <3>2, <3>3 DEF Gains
  <2>9. ASSUME pcb'[p].user_time = pcb[p].user_time PROVE Gains(p)
    BY <2>9 DEF Gains
  <2>10. ASSUME NEW vpn \in Pages, PagePresent(vpn) \/ TransferGoesOn(vpn) \/ TransferDone(vpn)
         PROVE  Gains(p)
    <3>1. \E left : pcb' = [pcb EXCEPT ![Blocked].fracLeft = left]
      BY <2>10 DEF PagePresent, TransferGoesOn, TransferDone
    <3>2. pcb'[p].user_time = pcb[p].user_time
      BY <3>1 DEF Clock, Process
    <3> QED
      BY <2>9, <3>2
  <2>11. CASE UNCHANGED pcb
    BY <2>9, <2>11
  <2>12. CASE NothingRuns \/ StartSlice \/ EndSlice \/ TraceEnds \/ Arrivals \/ NothingBlocked
              \/ CleanUp \/ Requeue \/ NothingToSettle
    BY <2>11, <2>12 DEF NothingRuns, StartSlice, EndSlice, TraceEnds, Arrivals, NothingBlocked,
                        CleanUp, Requeue, NothingToSettle
  <2>13. CASE schedulingRR \/ NotIdle \/ AllDone \/ WaitForDisk \/ WaitForArrival
    BY <2>11, <2>13 DEF schedulingRR, NotIdle, AllDone, WaitForDisk, WaitForArrival
  <2> QED
    BY <2>2, <2>4, <2>5, <2>7, <2>8, <2>10, <2>12, <2>13 DEF Next
<1> QED
  BY <1>1, IInvInductive, PTL DEF Spec, UserTimeWithinSlice
(* What is left of a transfer, an unsigned number, read as a signed one. *)
Signed(n) == IF 2 * n < Word THEN n ELSE n - Word

(* A number is its word and so many times the range of the words. *)
LEMMA WordOf ==
  ASSUME NEW n \in Int, NEW q \in -2 .. 1, q * Word <= n, n < q * Word + Word
  PROVE  W(n) = n - q * Word
<1> DEFINE d == n \div Word
           r == n % Word
<1>1. Word \in Int /\ Word > 0
  BY Words
<1>2. d \in Int /\ r \in 0 .. Word - 1 /\ n = Word * d + r
  BY <1>1
<1> HIDE DEF d, r
<1>3. Word * d = d * Word
  BY <1>1, <1>2
<1>4. d = q
  <2>1. ASSUME d <= q - 1 PROVE FALSE
    <3>1. (q - 1 - d) \in Nat /\ Word \in Nat
      BY <1>1, <1>2, <2>1
    <3>2. (q - 1 - d) * Word >= 0
      BY <3>1
    <3>3. (q - 1 - d) * Word = q * Word - Word - d * Word
      BY <1>1, <1>2
    <3> DEFINE u == (q - 1 - d) * Word  v == q * Word  w == d * Word
    <3>4. u \in Int /\ v \in Int /\ w \in Int /\ u >= 0 /\ u = v - Word - w /\ v <= n /\ n = w + r
      BY <1>1, <1>2, <1>3, <3>2, <3>3
    <3> HIDE DEF u, v, w
    <3> QED
      BY <1>1, <1>2, <3>4
  <2>2. ASSUME d >= q + 1 PROVE FALSE
    <3>1. (d - q - 1) \in Nat /\ Word \in Nat
      BY <1>1, <1>2, <2>2
    <3>2. (d - q - 1) * Word >= 0
      BY <3>1
    <3>3. (d - q - 1) * Word = d * Word - q * Word - Word
      BY <1>1, <1>2
    <3> DEFINE u == (d - q - 1) * Word  v == q * Word  w == d * Word
    <3>4. u \in Int /\ v \in Int /\ w \in Int /\ u >= 0 /\ u = w - v - Word /\ n < v + Word /\ n = w + r
      BY <1>1, <1>2, <1>3, <3>2, <3>3
    <3> HIDE DEF u, v, w
    <3> QED
      BY <1>1, <1>2, <3>4
  <2> QED
    BY <1>2, <2>1, <2>2
<1>5. W(n) = r
  BY DEF W, r
<1>6. n = q * Word + r
  BY <1>2, <1>3, <1>4
<1>7. q * Word \in Int
  BY <1>1
<1> QED
  BY <1>2, <1>5, <1>6, <1>7

(* Small numbers survive unsigned arithmetic. *)
LEMMA SignedWord ==
  ASSUME NEW s \in Int, NEW k \in -1 .. 1, - Word < 2 * s, 2 * s < Word
  PROVE  Signed(W(s + k * Word)) = s /\ (W(s + k * Word) = 0 => s = 0)
<1>1. Word \in Int /\ Word > 0
  BY Words
<1>2. CASE s >= 0
  <2>1. W(s + k * Word) = s + k * Word - k * Word
    BY <1>1, <1>2, WordOf
  <2> QED
    BY <1>1, <1>2, <2>1 DEF Signed
<1>3. CASE s < 0
  <2>1. (k - 1) * Word = k * Word - Word
    BY <1>1
  <2>2. W(s + k * Word) = s + k * Word - (k - 1) * Word
    BY <1>1, <1>3, <2>1, WordOf
  <2>3. W(s + k * Word) = s + Word
    BY <1>1, <1>3, <2>1, <2>2
  <2> QED
    BY <1>1, <1>3, <2>3 DEF Signed
<1> QED
  BY <1>2, <1>3
(* The times stay far from the end of the range of unsigned numbers, and so *)
(* does what is left of the transfer the disk works on.                     *)
NoOverflow ==
  /\ 4 * Swap_latency < Word /\ 4 * current_time < Word
  /\ blockedProcess # <<>> => 4 * Signed(pcb[Blocked].fracLeft) < Word

(* Since when the run time of the transfer for a process's block is counted. *)
Since(b, stop) == IF stop < b.blockOccur THEN b.blockOccur ELSE stop

(* Only the first blocked process's transfer has begun, and what is left of *)
(* it ends no earlier than Swap_latency after the process blocked.          *)
TransferDue ==
  /\ 4 * lastStop < Word
  /\ \A i \in 1 .. Len(blockedProcess) :
       /\ 4 * pcb[blockedProcess[i]].blockOccur < Word
       /\ i > 1 => pcb[blockedProcess[i]].fracLeft = Swap_latency
  /\ blockedProcess # <<>> =>
       Signed(pcb[Blocked].fracLeft) + Since(pcb[Blocked], lastStop) >= Swap_latency + pcb[Blocked].blockOccur

(* A transfer that has not begun is due Swap_latency after the fault. *)
LEMMA NotBegun ==
  ASSUME 4 * Swap_latency < Word, NEW b \in Process, b.fracLeft = Swap_latency, NEW stop \in Times
  PROVE  Signed(b.fracLeft) + Since(b, stop) >= Swap_latency + b.blockOccur
<1>1. Swap_latency \in Nat /\ Word \in Nat
  BY Words, Parameters
<1>2. Signed(b.fracLeft) = Swap_latency
  BY <1>1 DEF Signed
<1>3. stop \in Nat /\ b.blockOccur \in Nat
  BY Words DEF Process
<1>4. Since(b, stop) \in Nat /\ Since(b, stop) >= b.blockOccur
  BY <1>3 DEF Since
<1> QED
  BY <1>1, <1>2, <1>3, <1>4

(* The first blocked process is at the head of the list. *)
LEMMA BlockedFirst ==
  ASSUME Lists, blockedProcess # <<>>
  PROVE  /\ Blocked \in Procs /\ Len(blockedProcess) \in Nat /\ Len(blockedProcess) > 0
         /\ blockedProcess[1] = Blocked
         /\ \A i \in 1 .. Len(blockedProcess) : blockedProcess[i] \in Procs
  BY DEF Lists, Blocked

(* diskToMemory takes the time since its last call from what is left of the *)
(* transfer; read as signed numbers, nothing is lost.                       *)
LEMMA TimeTaken ==
  ASSUME Clock, Lists, NoOverflow, TransferDue, blockedProcess # <<>>
  PROVE  /\ Signed(Left) = Signed(pcb[Blocked].fracLeft) + Since(pcb[Blocked], lastStop) - current_time
         /\ Left = 0 => Signed(pcb[Blocked].fracLeft) + Since(pcb[Blocked], lastStop) = current_time
<1> DEFINE x == Signed(pcb[Blocked].fracLeft)
           m == Since(pcb[Blocked], lastStop)
<1>1. Word \in Nat /\ Word > 0 /\ Swap_latency \in Nat
  BY Words, Parameters
<1>2. Blocked \in Procs /\ 1 \in 1 .. Len(blockedProcess) /\ blockedProcess[1] = Blocked
  BY BlockedFirst
<1>3. /\ current_time \in Nat /\ lastStop \in Nat
      /\ pcb[Blocked].fracLeft \in Nat /\ pcb[Blocked].blockOccur \in Nat
  BY <1>2, Numbers
<1>4. 4 * lastStop < Word /\ 4 * pcb[Blocked].blockOccur < Word /\ 4 * current_time < Word
  BY <1>2 DEF TransferDue, NoOverflow
<1>5. m \in Nat /\ 4 * m < Word /\ m <= lastStop + pcb[Blocked].blockOccur
  BY <1>1, <1>3, <1>4 DEF Since
<1>6. PICK j \in 0 .. 1 : pcb[Blocked].fracLeft = x + j * Word
  <2>1. CASE x = pcb[Blocked].fracLeft
    <3>1. pcb[Blocked].fracLeft = x + 0 * Word
      BY <1>1, <1>3, <2>1
    <3> QED
      BY <3>1
  <2>2. CASE x = pcb[Blocked].fracLeft - Word
    <3>1. pcb[Blocked].fracLeft = x + 1 * Word
      BY <1>1, <1>3, <2>2
    <3> QED
      BY <3>1
  <2> QED
    BY <2>1, <2>2 DEF Signed
<1>7. x \in Int /\ 4 * x < Word /\ x + m >= Swap_latency + pcb[Blocked].blockOccur
  BY <1>1, <1>3 DEF Signed, NoOverflow, TransferDue
<1> HIDE DEF x, m
<1>8. PICK k \in 0 .. 1 : RunTime = current_time - m + k * Word
  <2>1. RunTime = W(current_time - m)
    BY DEF RunTime, Since, Minus, m
  <2>2. CASE current_time >= m
    <3>1. W(current_time - m) = current_time - m - 0 * Word
      BY <1>1, <1>3, <1>4, <1>5, <2>2, WordOf
    <3>2. RunTime = current_time - m + 0 * Word
      BY <1>1, <1>3, <1>5, <2>1, <3>1
    <3> QED
      BY <3>2
  <2>3. CASE current_time < m
    <3>1. W(current_time - m) = current_time - m - (-1) * Word
      BY <1>1, <1>3, <1>4, <1>5, <2>3, WordOf
    <3>2. RunTime = current_time - m + 1 * Word
      BY <1>1, <1>3, <1>5, <2>1, <3>1
    <3> QED
      BY <3>2
  <2> QED
    BY <1>3, <1>5, <2>2, <2>3
<1> DEFINE s == x + m - current_time
<1>9. s \in Int /\ - Word < 2 * s /\ 2 * s < Word
  BY <1>1, <1>3, <1>4, <1>5, <1>7
<1>10. pcb[Blocked].fracLeft - RunTime = s + (j - k) * Word /\ j - k \in -1 .. 1
  <2>1. (j - k) * Word = j * Word - k * Word
    BY <1>1
  <2> DEFINE u == j * Word  v == k * Word
  <2>2. u \in Int /\ v \in Int
    BY <1>1
  <2>3. pcb[Blocked].fracLeft = x + u /\ RunTime = current_time - m + v
    BY <1>6, <1>8
  <2> HIDE DEF u, v
  <2>4. pcb[Blocked].fracLeft - RunTime = s + (u - v)
    BY <1>3, <1>5, <1>7, <2>2, <2>3
  <2>5. pcb[Blocked].fracLeft - RunTime = s + (j - k) * Word
    BY <2>1, <2>4 DEF u, v
  <2> QED
    BY <2>5
<1>11. Left = W(s + (j - k) * Word)
  BY <1>10 DEF Left, Minus
<1> HIDE DEF s
<1>12. Signed(Left) = s /\ (Left = 0 => s = 0)
  BY <1>9, <1>10, <1>11, SignedWord
<1>13. ASSUME s = 0 PROVE x + m = current_time
  <2>1. x \in Int /\ m \in Int /\ current_time \in Int
    BY <1>3, <1>5, <1>7
  <2> QED
    BY <1>13, <2>1 DEF s
<1> QED
  BY <1>12, <1>13 DEF s, x, m

(* Steps that leave the disk and the blocked processes alone. *)
LEMMA TransferKept ==
  ASSUME Lists, TransferDue, UNCHANGED <<lastStop, blockedProcess>>,
         \A p \in ToSet(blockedProcess) : pcb'[p] = pcb[p]
  PROVE  TransferDue'
<1>1. \A i \in 1 .. Len(blockedProcess) : pcb'[blockedProcess[i]] = pcb[blockedProcess[i]]
  BY DEF ToSet
<1>2. blockedProcess # <<>> => pcb'[Blocked] = pcb[Blocked]
  <2> SUFFICES ASSUME blockedProcess # <<>> PROVE pcb'[Blocked] = pcb[Blocked]
    OBVIOUS
  <2> QED
    BY <1>1, BlockedFirst
<1> QED
  BY <1>1, <1>2 DEF TransferDue, Blocked

(* A process leaves the list: the transfer of the next one has not begun.   *)
LEMMA NextTransfer ==
  ASSUME Clock', Lists, NoOverflow', TransferDue, blockedProcess # <<>>,
         blockedProcess' = Tail(blockedProcess), 4 * lastStop' < Word,
         \A p \in Procs \ {Blocked} : pcb'[p] = pcb[p]
  PROVE  TransferDue'
<1> DEFINE t == Tail(blockedProcess)
<1>1. /\ t \in Seq(Procs) /\ Len(t) = Len(blockedProcess) - 1 /\ Len(blockedProcess) \in Nat
      /\ \A i \in 1 .. Len(t) : t[i] = blockedProcess[i + 1]
  BY DEF Lists
<1>2. ASSUME NEW i \in 1 .. Len(t)
      PROVE  /\ t[i] \in Procs
             /\ 4 * pcb'[t[i]].blockOccur < Word
             /\ pcb'[t[i]].fracLeft = Swap_latency
  <2>1. i + 1 \in 1 .. Len(blockedProcess) /\ 1 \in 1 .. Len(blockedProcess) /\ i + 1 > 1
    BY <1>1
  <2>2. blockedProcess[i + 1] # blockedProcess[1]
    <3>1. i + 1 # 1
      BY <2>1
    <3> QED
      BY <2>1, <3>1 DEF Lists, Once
  <2>3. t[i] = blockedProcess[i + 1] /\ t[i] \in Procs /\ blockedProcess[1] = Blocked
    BY <1>1, <2>1, BlockedFirst
  <2>4. pcb'[t[i]] = pcb[blockedProcess[i + 1]]
    BY <2>2, <2>3
  <2> QED
    BY <2>1, <2>3, <2>4 DEF TransferDue
<1>3. ASSUME NEW h, h = Head(t), t # <<>>
      PROVE  Signed(pcb'[h].fracLeft) + Since(pcb'[h], lastStop') >= Swap_latency + pcb'[h].blockOccur
  <2>1. h = t[1] /\ 1 \in 1 .. Len(t)
    BY <1>1, <1>3
  <2>2. h \in Procs /\ pcb'[h].fracLeft = Swap_latency
    BY <1>2, <2>1
  <2>3. lastStop' \in Times /\ pcb'[h] \in Process
    BY <2>2 DEF Clock
  <2>4. 4 * Swap_latency < Word
    BY DEF NoOverflow
  <2> QED
    BY <2>2, <2>3, <2>4, NotBegun
<1>4. \A i \in 1 .. Len(blockedProcess') :
        /\ 4 * pcb'[blockedProcess'[i]].blockOccur < Word
        /\ i > 1 => pcb'[blockedProcess'[i]].fracLeft = Swap_latency
  BY <1>2
<1>5. blockedProcess' # <<>> =>
        Signed(pcb'[Head(blockedProcess')].fracLeft) + Since(pcb'[Head(blockedProcess')], lastStop')
          >= Swap_latency + pcb'[Head(blockedProcess')].blockOccur
  BY <1>3
<1> QED
  BY <1>4, <1>5 DEF TransferDue, Blocked

(* The running process is not blocked. *)
LEMMA RunningApart ==
  ASSUME Lists, TransferDue, UNCHANGED <<lastStop, blockedProcess>>,
         \A p \in Procs \ {runningProcess} : pcb'[p] = pcb[p]
  PROVE  TransferDue'
<1>1. ToSet(blockedProcess) \subseteq Procs \ {runningProcess}
  BY SetOfList DEF Lists
<1> QED
  BY <1>1, TransferKept

(* No step brings the end of a transfer forward. *)
LEMMA TransferStep ==
  IInv /\ IInv' /\ NoOverflow /\ NoOverflow' /\ TransferDue /\ [Next]_vars => TransferDue'
<1> SUFFICES ASSUME IInv, IInv', NoOverflow, NoOverflow', TransferDue, [Next]_vars PROVE TransferDue'
  OBVIOUS
<1> USE DEF IInv, time, lists
<1>1. ASSUME UNCHANGED <<lastStop, blockedProcess, pcb>> PROVE TransferDue'
  BY <1>1, TransferKept
<1>2. ASSUME NEW then, NEW n, Advance(then, n), UNCHANGED <<lastStop, blockedProcess>> PROVE TransferDue'
  <2>1. \A p \in Procs \ {runningProcess} : pcb'[p] = pcb[p]
    BY <1>2 DEF Advance, Clock
  <2> QED
    BY <1>2, <2>1, RunningApart
<1>3. ASSUME NEW ppn, NEW now, Access(ppn, now), UNCHANGED <<lastStop, blockedProcess>> PROVE TransferDue'
  BY <1>2, <1>3 DEF Access
<1>4. CASE ReadNonMem
  <2>1. \A p \in Procs \ {runningProcess} : pcb'[p] = pcb[p]
    BY <1>4 DEF ReadNonMem, Clock
  <2> QED
    BY <1>4, <2>1, RunningApart DEF ReadNonMem
<1>5. ASSUME NEW vpn \in Pages, TLBHit(vpn) PROVE TransferDue'
  BY <1>3, <1>5 DEF TLBHit
<1>6. ASSUME NEW vpn \in Pages, TLBMissCutShort(vpn) PROVE TransferDue'
  BY <1>2, <1>6 DEF TLBMissCutShort
<1>7. ASSUME NEW vpn \in Pages, PageHit(vpn) PROVE TransferDue'
  BY <1>3, <1>7 DEF PageHit
<1>8. ASSUME NEW vpn \in Pages, PageFault(vpn) PROVE TransferDue'
  <2> DEFINE p == runningProcess
  <2>1. p \in Procs /\ Executing
    BY <1>8, RunningNow DEF PageFault, ExecutingMem
  <2>2. /\ blockedProcess' = Append(blockedProcess, p) /\ lastStop' = lastStop
        /\ \A q \in Procs \ {p} : pcb'[q] = pcb[q]
    BY <1>8 DEF PageFault, Clock
  <2>3. pcb'[p].fracLeft = Swap_latency /\ pcb'[p].blockOccur = current_time'
    <3> HIDE DEF IInv
    <3>1. pcb[p] \in Process
      BY <2>1, Numbers DEF IInv
    <3> QED
      BY <1>8, <2>1, <3>1 DEF PageFault, Clock, IInv, Process
  <2>4. 4 * pcb'[p].blockOccur < Word
    BY <2>3 DEF NoOverflow
  <2> DEFINE s == blockedProcess  t == blockedProcess'
  <2>5. /\ Len(t) = Len(s) + 1 /\ Len(s) \in Nat
        /\ \A i \in 1 .. Len(t) : t[i] = IF i <= Len(s) THEN s[i] ELSE p
    BY <2>1, <2>2 DEF Lists
  <2>6. \A i \in 1 .. Len(s) : s[i] \in Procs \ {p} /\ pcb'[s[i]] = pcb[s[i]]
    <3>1. ToSet(s) = {s[i] : i \in 1 .. Len(s)} /\ ToSet(s) \subseteq Procs
      BY SetOfList DEF Lists
    <3> QED
      BY <2>2, <3>1 DEF Lists
  <2>7. ASSUME NEW i \in 1 .. Len(t)
        PROVE  4 * pcb'[t[i]].blockOccur < Word /\ (i > 1 => pcb'[t[i]].fracLeft = Swap_latency)
    <3>1. CASE i <= Len(s)
      <4>1. i \in 1 .. Len(s) /\ t[i] = s[i]
        BY <2>5, <3>1
      <4> QED
        BY <2>6, <4>1 DEF TransferDue
    <3>2. CASE ~(i <= Len(s))
      BY <2>3, <2>4, <2>5, <3>2
    <3> QED
      BY <3>1, <3>2
  <2>8. ASSUME NEW h, h = Head(t)
        PROVE  Signed(pcb'[h].fracLeft) + Since(pcb'[h], lastStop') >= Swap_latency + pcb'[h].blockOccur
    <3>1. CASE s = <<>>
      <4>1. h = p
        BY <2>2, <2>8, <3>1
      <4>2. pcb'[p] \in Process /\ lastStop' \in Times
        BY <2>1 DEF Clock
      <4>3. 4 * Swap_latency < Word
        BY DEF NoOverflow
      <4> QED
        BY <2>3, <4>1, <4>2, <4>3, NotBegun
    <3>2. CASE s # <<>>
      <4>1. 1 \in 1 .. Len(s) /\ 1 \in 1 .. Len(t) /\ s[1] = Blocked
        BY <2>5, <3>2, BlockedFirst
      <4>2. Head(t) = t[1]
        BY <2>1, <2>2 DEF Lists
      <4>3. h = Blocked /\ pcb'[h] = pcb[h]
        BY <2>5, <2>6, <2>8, <4>1, <4>2
      <4> QED
        BY <2>2, <3>2, <4>3 DEF TransferDue
    <3> QED
      BY <3>1, <3>2
  <2>9. Signed(pcb'[Head(t)].fracLeft) + Since(pcb'[Head(t)], lastStop') >= Swap_latency + pcb'[Head(t)].blockOccur
    BY <2>8
  <2>10. 4 * lastStop' < Word
    BY <2>2 DEF TransferDue
  <2> QED
    BY <2>7, <2>9, <2>10 DEF TransferDue, Blocked
<1>9. ASSUME NEW vpn \in Pages, PagePresent(vpn) PROVE TransferDue'
  <2>1. \A p \in Procs \ {Blocked} : pcb'[p] = pcb[p]
    BY <1>9 DEF PagePresent, Clock
  <2>2. 4 * lastStop' < Word
    BY <1>9 DEF PagePresent, TransferDue
  <2> QED
    BY <1>9, <2>1, <2>2, NextTransfer DEF PagePresent, Unblock
<1>10. ASSUME NEW vpn \in Pages, TransferDone(vpn) PROVE TransferDue'
  <2>1. \A p \in Procs \ {Blocked} : pcb'[p] = pcb[p]
    BY <1>10 DEF TransferDone, Clock
  <2>2. 4 * lastStop' < Word
    BY <1>10 DEF TransferDone, NoOverflow
  <2> QED
    BY <1>10, <2>1, <2>2, NextTransfer DEF TransferDone, Unblock
<1>11. ASSUME NEW vpn \in Pages, TransferGoesOn(vpn) PROVE TransferDue'
  <2>1. /\ blockedProcess # <<>> /\ UNCHANGED <<blockedProcess, current_time>>
        /\ lastStop' = current_time /\ pcb' = [pcb EXCEPT ![Blocked].fracLeft = Left]
    BY <1>11 DEF TransferGoesOn
  <2>2. Blocked \in Procs /\ pcb[Blocked] \in Process
    BY <2>1, BlockedFirst, Numbers
  <2>3. /\ \A p \in Procs : pcb'[p].blockOccur = pcb[p].blockOccur
        /\ \A p \in Procs \ {Blocked} : pcb'[p] = pcb[p]
        /\ pcb'[Blocked].fracLeft = Left
    <3>1. pcb \in [Procs -> Process]
      BY DEF Clock
    <3> HIDE DEF IInv
    <3> QED
      BY <2>1, <2>2, <3>1 DEF Process
  <2>4. ASSUME NEW i \in 1 .. Len(blockedProcess)
        PROVE  /\ 4 * pcb'[blockedProcess[i]].blockOccur < Word
               /\ i > 1 => pcb'[blockedProcess[i]].fracLeft = Swap_latency
    <3>1. blockedProcess[i] \in Procs
      BY DEF Lists
    <3>2. i > 1 => blockedProcess[i] # Blocked
      <4>1. blockedProcess[1] = Blocked /\ 1 \in 1 .. Len(blockedProcess)
        BY <2>1, BlockedFirst
      <4> QED
        BY <4>1 DEF Lists, Once
    <3> QED
      BY <2>3, <3>1, <3>2 DEF TransferDue
  <2>5. Signed(Left) + Since(pcb'[Blocked], lastStop') >= Swap_latency + pcb[Blocked].blockOccur
    <3> DEFINE x == Signed(pcb[Blocked].fracLeft)
               m == Since(pcb[Blocked], lastStop)
               n == Since(pcb'[Blocked], lastStop')
    <3>1. lastStop \in Int /\ pcb[Blocked].blockOccur \in Int /\ pcb[Blocked].fracLeft \in Int
            /\ current_time \in Int
      BY <2>2, Numbers
    <3>7. Swap_latency \in Int /\ Word \in Int
      BY Words, Parameters
    <3>2. x \in Int /\ m \in Int
      BY <3>1, <3>7 DEF Signed, Since
    <3>3. n >= current_time /\ n \in Int
      BY <2>1, <2>2, <2>3, <3>1 DEF Since
    <3>4. Signed(Left) = x + m - current_time
      BY <2>1, TimeTaken
    <3>5. x + m >= Swap_latency + pcb[Blocked].blockOccur
      BY <2>1 DEF TransferDue
    <3> HIDE DEF x, m, n
    <3>6. Signed(Left) + n >= Swap_latency + pcb[Blocked].blockOccur
      BY <3>1, <3>2, <3>3, <3>4, <3>5, <3>7
    <3> QED
      BY <3>6 DEF n
  <2>6. 4 * lastStop' < Word
    BY <2>1 DEF NoOverflow
  <2> QED
    BY <2>1, <2>2, <2>3, <2>4, <2>5, <2>6 DEF TransferDue, Blocked
<1>12. CASE NothingRuns \/ StartSlice \/ EndSlice \/ TraceEnds \/ Arrivals \/ NothingBlocked
            \/ CleanUp \/ Requeue \/ NothingToSettle \/ schedulingRR
            \/ NotIdle \/ AllDone \/ WaitForDisk \/ WaitForArrival \/ UNCHANGED vars
  <2>1. UNCHANGED <<lastStop, blockedProcess, pcb>>
    BY <1>12 DEF NothingRuns, StartSlice, EndSlice, TraceEnds, Arrivals, NothingBlocked, CleanUp,
                 Requeue, NothingToSettle, schedulingRR, NotIdle, AllDone, WaitForDisk,
                 WaitForArrival, vars
  <2> QED
    BY <1>1, <2>1
<1> QED
  BY <1>4, <1>5, <1>6, <1>7, <1>8, <1>9, <1>10, <1>11, <1>12 DEF Next

(* A page comes into memory only when its transfer ends, and no earlier     *)
(* than Swap_latency after the process blocked.                             *)
LEMMA LoadsInTime ==
  ASSUME IInv, NoOverflow, TransferDue, [Next]_vars, NEW p \in Procs, Loaded(p)
  PROVE  current_time - pcb[p].blockOccur >= Swap_latency
<1> USE DEF IInv
<1>1. PICK v \in Pages : pageTable[p][v] = NoFrame /\ pageTable'[p][v] # NoFrame
  BY DEF Loaded
<1>2. PICK vpn \in Pages : TransferDone(vpn)
  <2>1. ~ UNCHANGED pageTable
    BY <1>1
  <2>2. CASE CleanUp
    <3>1. pageTable' = [pageTable EXCEPT ![runningProcess] = EmptyTable]
      BY <2>2 DEF CleanUp
    <3>2. pageTable'[p] = pageTable[p] \/ pageTable'[p] = EmptyTable
      BY <3>1 DEF MemoryTyped
    <3> QED
      BY <1>1, <3>2 DEF EmptyTable
  <2> QED
    BY <2>1, <2>2
       DEF Next, NothingRuns, StartSlice, EndSlice, TraceEnds, ReadNonMem, TLBHit, TLBMissCutShort,
           PageHit, PageFault, PagePresent, TransferGoesOn, Arrivals, NothingBlocked,
           Requeue, NothingToSettle, schedulingRR, NotIdle, AllDone, WaitForDisk, WaitForArrival,
           vars, memory
<1>3. /\ blockedProcess # <<>> /\ Left = 0 /\ PlacePage(Blocked, vpn)
      /\ Blocked \in Procs
  BY <1>2, BlockedFirst DEF TransferDone
<1>4. p = Blocked
  <2> DEFINE old == DRAM[Victim]
             left == IF old.process = NoProc THEN pageTable
                     ELSE [pageTable EXCEPT ![old.process][old.vpn] = NoFrame]
  <2>1. pageTable' = [left EXCEPT ![Blocked][vpn] = Victim]
    BY <1>3 DEF PlacePage
  <2>2. pageTable \in [Procs -> [Pages -> Frames \cup {NoFrame}]]
    BY DEF MemoryTyped
  <2>3. left \in [Procs -> [Pages -> Frames \cup {NoFrame}]]
    BY <2>2
  <2>4. left[p][v] = NoFrame
    BY <1>1, <2>2
  <2> HIDE DEF left
  <2>5. p # Blocked => pageTable'[p] = left[p]
    BY <2>1, <2>3
  <2> QED
    BY <1>1, <2>4, <2>5
<1>5. Signed(pcb[Blocked].fracLeft) + Since(pcb[Blocked], lastStop) = current_time
  BY <1>3, TimeTaken
<1>6. current_time >= Swap_latency + pcb[Blocked].blockOccur
  BY <1>3, <1>5 DEF TransferDue
<1>7. current_time \in Int /\ pcb[Blocked].blockOccur \in Int /\ Swap_latency \in Int
  <2>1. current_time \in Int /\ pcb[Blocked].blockOccur \in Int
    BY <1>3, Numbers
  <2>2. Swap_latency \in Int
    BY Words, Parameters
  <2> QED
    BY <2>1, <2>2
<1> QED
  BY <1>4, <1>6, <1>7

(* DiskTakesItsTime: as long as the times stay in range, no page is in      *)
(* memory before the disk has worked for it Swap_latency long, although     *)
(* diskToMemory counts the work in unsigned differences over three calls    *)
(* that may see time go back.                                               *)
THEOREM TransfersTakeTheirTime == Spec /\ []NoOverflow => DiskTakesItsTime
<1>1. Init => TransferDue
  <2> SUFFICES ASSUME Init PROVE TransferDue
    OBVIOUS
  <2>1. lastStop = 0 /\ blockedProcess = <<>> /\ Len(blockedProcess) = 0
    BY DEF Init
  <2>2. 4 * lastStop < Word
    BY <2>1, Words
  <2> QED
    BY <2>1, <2>2 DEF TransferDue
<1>2. IInv /\ NoOverflow /\ TransferDue /\ [Next]_vars =>
        [\A p \in Procs : Loaded(p) => current_time - pcb[p].blockOccur >= Swap_latency]_vars
  BY LoadsInTime
<1> QED
  BY <1>1, <1>2, TransferStep, InitInvariant, IInvInductive, PTL DEF Spec, DiskTakesItsTime
=============================================================================
