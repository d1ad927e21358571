------------------------------ MODULE Simulator ------------------------------
(***************************************************************************)
(* Project 3's simulator of an operating system: round-robin scheduling    *)
(* with time quanta, demand paging from a disk that serves one page fault  *)
(* after the other, a TLB and a DRAM with LRU or clock replacement.        *)
(*                                                                         *)
(* simulate() is a loop; its phases are the values of pc, and each         *)
(* instruction of a trace is a step.  The program is deterministic but for *)
(* getVPN, which may read past its buffer; the model ranges over traces,   *)
(* arrival times and replacement policies.  Times are unsigned words.      *)
(* Statistics other than the user time are left out.                       *)
(***************************************************************************)
EXTENDS Integers, Sequences, SequencesExt, FiniteSets

CONSTANTS
  Procs,            (* the processes of the input file, numbered in its order *)
  Workloads,        (* [program, start]: the traces and the arrival times    *)
  NonMem,           (* the instruction NONMEM; the others are addresses      *)
  PageBytes, AddressSpace, Radix,  (* 2^P_in_bits, 2^32 and 16 in getVPN     *)
  NumFrames, TLBSize,              (* frames of DRAM, entries of the TLB     *)
  Word,             (* 2^64, the range of the times                          *)
  non_mem_inst_length, TLB_latency, DRAM_latency, Swap_latency,
  Page_fault_trap_handling_time, Swap_interrupt_handling_time,
  contextSwitchTime, quantum,
  NoProc, NoFrame,
  MaxTime,          (* bound: no slice starts after this time                *)
  MaxMisreads       (* bound on the stray digits getVPN reads                *)

Frames == 0 .. NumFrames - 1
Entries == 1 .. TLBSize
Pages == 0 .. (AddressSpace \div PageBytes) - 1

Times == 0 .. Word - 1

(* The processes, traces and arrival times of an input file, and its       *)
(* parameters, are unsigned numbers.                                       *)
ASSUME SimulatorAssumption ==
  /\ IsFiniteSet(Procs) /\ Procs # {} /\ Procs = 1 .. Cardinality(Procs)
  /\ NoProc \notin Procs /\ NoProc \notin Procs \X Pages
  /\ AddressSpace \in Nat /\ PageBytes \in 1 .. AddressSpace
  /\ NumFrames \in Nat \ {0} /\ TLBSize \in Nat \ {0} /\ NoFrame \notin Frames
  /\ Word \in Nat \ {0} /\ quantum \in 1 .. Word - 1 /\ MaxMisreads \in Nat
  /\ {non_mem_inst_length, DRAM_latency, Swap_latency, Page_fault_trap_handling_time,
      Swap_interrupt_handling_time, contextSwitchTime} \subseteq Times
  /\ TLB_latency \in 0..1  (* readPage subtracts it from a positive time unchecked *)
  /\ \A w \in Workloads :
       /\ \A p \in Procs : w.program[p] \in Seq((0 .. AddressSpace - 1) \cup {NonMem})
       /\ w.start \in [Procs -> Times]
       /\ w.start[1] = 0  (* simulate takes it for granted *)

VARIABLES
  workload,         (* the traces and arrival times                          *)
  page_replacement_policy,
  pc,               (* the phase of simulate()                               *)
  simPause,         (* why the running process stopped                       *)
  current_time, nextQuanta, stopTime, lastStop,
  processList, readyProcess, runningProcess, blockedProcess,
  pcb,              (* pcb[p]: next instruction, fracLeft, blockOccur, user_time *)
  lastRun,          (* the last of resultStats.executionOrder                *)
  TLB, DRAM, clockHand, pageTable,
  misreads          (* stray digits read so far                              *)

time == <<current_time, nextQuanta, stopTime, lastStop>>
lists == <<processList, readyProcess, runningProcess, blockedProcess>>
memory == <<TLB, DRAM, clockHand, pageTable, misreads>>
constant == <<workload, page_replacement_policy>>
vars == <<constant, pc, simPause, time, lists, pcb, lastRun, memory>>

W(n) == n % Word
Program(p) == workload.program[p]
Start(p) == workload.start[p]

(* Mutant: the difference of two times is a signed number. *)
MinusSigned(a, b) == a - b

Minus(a, b) == W(a - b)

NoEntry == [valid |-> FALSE, time |-> 0, vpn |-> -1, ppn |-> NoFrame]
EmptyTLB == [i \in Entries |-> NoEntry]
EmptyTable == [v \in Pages |-> NoFrame]

(* The processes at the front of list that have arrived at time now.        *)
NumArrived(list, now) ==
  CHOOSE n \in 0 .. Len(list) :
    /\ \A i \in 1..n : Start(list[i]) <= now
    /\ n < Len(list) => Start(list[n + 1]) > now
Arrived(list, now) == SubSeq(list, 1, NumArrived(list, now))
NotArrived(list, now) == SubSeq(list, NumArrived(list, now) + 1, Len(list))

Init ==
  /\ workload \in Workloads
  /\ page_replacement_policy \in {"LRU", "clock"}
  /\ pc = "slice"
  /\ simPause = 0
  /\ current_time = 0
  /\ nextQuanta = quantum
  /\ stopTime = 0
  /\ lastStop = 0
  /\ LET all == [p \in Procs |-> p]
         ready == Arrived(all, 0) IN
       /\ processList = NotArrived(all, 0)
       /\ runningProcess = Head(ready)
       /\ readyProcess = Tail(ready)
       /\ lastRun = Head(ready)
  /\ blockedProcess = <<>>
  /\ pcb = [p \in Procs |->
       [next |-> 1, fracLeft |-> 0, blockOccur |-> 0, user_time |-> 0]]
  /\ TLB = EmptyTLB
  /\ DRAM = [f \in Frames |-> [time |-> 0, process |-> NoProc, vpn |-> 0]]
  /\ clockHand = 0
  /\ pageTable = [p \in Procs |-> EmptyTable]
  /\ misreads = 0

-----------------------------------------------------------------------------
(* Translation *)

(* getVPN copies eight hexadecimal digits without a terminator: strtol     *)
(* goes on into whatever follows them, and one more digit shifts the       *)
(* address.  n is the number of stray digits read.                         *)
VPNs(address, n) ==
  IF n = 0 THEN {address \div PageBytes}
  ELSE {((address * Radix + d) % AddressSpace) \div PageBytes : d \in 0 .. Radix - 1}

(* A call of getVPN that may return vpn. *)
GetVPN(address, vpn) ==
  \E n \in 0 .. 1 :
    /\ misreads + n <= MaxMisreads
    /\ vpn \in VPNs(address, n)
    /\ misreads' = misreads + n

(* The first entry, or frame, of a set that was used least recently. *)
LeastRecent(set, timeOf) ==
  CHOOSE i \in set : \A j \in set :
    timeOf[i] < timeOf[j] \/ (timeOf[i] = timeOf[j] /\ i <= j)

Hits(vpn) == {i \in Entries : TLB[i].valid /\ TLB[i].vpn = vpn}

(* A free entry is taken, or the one used least recently replaced. *)
TLBadd(vpn, ppn, now) ==
  LET free == {i \in Entries : ~TLB[i].valid}
      i == IF free # {} THEN CHOOSE j \in free : \A k \in free : j <= k
           ELSE LeastRecent(Entries, [j \in Entries |-> TLB[j].time])
  IN  [TLB EXCEPT ![i] = [valid |-> TRUE, time |-> now, vpn |-> vpn, ppn |-> ppn]]

TLBdelete(vpn) == [i \in Entries |-> IF TLB[i].vpn = vpn THEN NoEntry ELSE TLB[i]]

(* DRAMadd.  LRU takes the first frame with timestamp 0 (never used), else *)
(* the least recent one.  The clock hand clears reference bits until it    *)
(* finds a clear one, at the latest the one it started at.                 *)
Behind(f) == (f - clockHand) % NumFrames
ClockVictim ==
  LET clear == {f \in Frames : DRAM[f].time = 0}
  IN  IF clear = {} THEN clockHand
      ELSE CHOOSE f \in clear : \A g \in clear : Behind(f) <= Behind(g)
Victim ==
  IF page_replacement_policy = "LRU"
  THEN LeastRecent(Frames, [f \in Frames |-> DRAM[f].time])
  ELSE ClockVictim
Spared(f) == \E g \in Frames : DRAM[g].time = 0 /\ Behind(f) >= Behind(g)

(* DRAMadd, with deletePTE and TLBdelete of the page evicted, and addPTE.  *)
(* A process that has finished has no page table left to delete from.      *)
(* LRU skips the deletions for a frame with timestamp 0, which holds no     *)
(* page: NoFutureTimestamp.                                                 *)
PlacePage(p, vpn) ==
  LET f == Victim
      old == DRAM[f]
      left == IF old.process = NoProc THEN pageTable
              ELSE [pageTable EXCEPT ![old.process][old.vpn] = NoFrame]
  IN  /\ pageTable' = [left EXCEPT ![p][vpn] = f]
      /\ TLB' = IF old.process = NoProc THEN TLB ELSE TLBdelete(old.vpn)
      /\ \/ /\ page_replacement_policy = "LRU"
            /\ DRAM' = [DRAM EXCEPT ![f] = [time |-> current_time, process |-> p, vpn |-> vpn]]
            /\ UNCHANGED clockHand
         \/ /\ page_replacement_policy = "clock"
            /\ DRAM' = [g \in Frames |->
                 IF g = f THEN [time |-> 1, process |-> p, vpn |-> vpn]
                 ELSE [DRAM[g] EXCEPT !.time = IF Spared(g) THEN @ ELSE 0]]
            /\ clockHand' = f

-----------------------------------------------------------------------------
(* processSimulator and readPage *)

NothingRuns ==
  /\ pc = "slice" /\ current_time < MaxTime
  /\ runningProcess = NoProc
  /\ simPause' = 2
  /\ pc' = "arrivals"
  /\ UNCHANGED <<constant, time, lists, pcb, lastRun, memory>>

(* The time the first blocked process's page is in memory. *)
Due == W(current_time + pcb[Head(blockedProcess)].fracLeft)

StartSlice ==
  /\ pc = "slice" /\ current_time < MaxTime
  /\ runningProcess # NoProc
  /\ IF blockedProcess # <<>> /\ nextQuanta > Due
     THEN stopTime' = Due /\ simPause' = 4
     ELSE stopTime' = nextQuanta /\ simPause' = 1
  /\ pc' = "run"
  /\ UNCHANGED <<constant, current_time, nextQuanta, lastStop, lists, pcb, lastRun, memory>>

EndSlice ==
  /\ pc = "run"
  /\ current_time >= stopTime
  /\ pc' = "arrivals"
  /\ UNCHANGED <<constant, simPause, time, lists, pcb, lastRun, memory>>

Executing == pc = "run" /\ current_time < stopTime
Running == pcb[runningProcess]
AtEnd == Running.next > Len(Program(runningProcess))
Instruction == Program(runningProcess)[Running.next]
Available == stopTime - current_time

(* The last instruction was a memory access, or the trace is empty. *)
TraceEnds ==
  /\ Executing
  /\ AtEnd
  /\ simPause' = -1
  /\ pc' = "arrivals"
  /\ UNCHANGED <<constant, time, lists, pcb, lastRun, memory>>

(* Mutant: an interrupted NONMEM instruction starts again. *)
ReadNonMemAnew ==
  /\ Executing /\ ~AtEnd
  /\ Instruction = NonMem
  /\ LET needed == non_mem_inst_length
         used == IF Available < needed THEN Available ELSE needed
         done == used = needed IN
       /\ current_time' = current_time + used
       /\ pcb' = [pcb EXCEPT ![runningProcess].user_time = @ + used,
                             ![runningProcess].fracLeft = needed - used,
                             ![runningProcess].next = IF done THEN @ + 1 ELSE @]
       /\ IF done /\ Running.next = Len(Program(runningProcess))
          THEN simPause' = -1 /\ pc' = "arrivals"
          ELSE UNCHANGED <<simPause, pc>>
  /\ UNCHANGED <<constant, nextQuanta, stopTime, lastStop, lists, lastRun, memory>>

(* An instruction cut short by the stop time goes on where it was.         *)
ReadNonMem ==
  /\ Executing /\ ~AtEnd
  /\ Instruction = NonMem
  /\ LET needed == IF Running.fracLeft > 0 THEN Running.fracLeft ELSE non_mem_inst_length
         used == IF Available < needed THEN Available ELSE needed
         done == used = needed IN
       /\ current_time' = current_time + used
       /\ pcb' = [pcb EXCEPT ![runningProcess].user_time = @ + used,
                             ![runningProcess].fracLeft = needed - used,
                             ![runningProcess].next = IF done THEN @ + 1 ELSE @]
       /\ IF done /\ Running.next = Len(Program(runningProcess))
          THEN simPause' = -1 /\ pc' = "arrivals"
          ELSE UNCHANGED <<simPause, pc>>
  /\ UNCHANGED <<constant, nextQuanta, stopTime, lastStop, lists, lastRun, memory>>

(* The running process goes on to time then and has used the CPU until it. *)
Advance(then, instructions) ==
  /\ current_time' = then
  /\ pcb' = [pcb EXCEPT ![runningProcess].user_time = @ + then - current_time,
                        ![runningProcess].next = @ + instructions]

(* Mutant: the access is not compared with the time left. *)
AccessUnchecked(ppn, now) ==
  /\ Advance(now + DRAM_latency, 1)
  /\ DRAM' = [DRAM EXCEPT ![ppn].time =
       IF page_replacement_policy = "LRU" THEN now + DRAM_latency ELSE 1]

(* Mutant: the frame counts as used although the access was cut short. *)
AccessStamped(ppn, now) ==
  /\ DRAM' = [DRAM EXCEPT ![ppn].time =
       IF page_replacement_policy = "LRU" THEN now + DRAM_latency ELSE 1]
  /\ IF stopTime - now >= DRAM_latency
     THEN Advance(now + DRAM_latency, 1) ELSE Advance(stopTime, 0)

(* At time now the translation is known: access the frame if time allows,  *)
(* otherwise the instruction is executed again in a later slice.           *)
Access(ppn, now) ==
  \/ /\ stopTime - now >= DRAM_latency
     /\ Advance(now + DRAM_latency, 1)
     /\ DRAM' = [DRAM EXCEPT ![ppn].time =
          IF page_replacement_policy = "LRU" THEN now + DRAM_latency ELSE 1]
  \/ /\ stopTime - now < DRAM_latency
     /\ Advance(stopTime, 0)
     /\ UNCHANGED DRAM

Looked == current_time + TLB_latency
TimeForTable == stopTime - Looked >= DRAM_latency
ExecutingMem(vpn) ==
  /\ Executing /\ ~AtEnd
  /\ Instruction # NonMem
  /\ GetVPN(Instruction, vpn)

TLBHit(vpn) ==
  /\ ExecutingMem(vpn)
  /\ \E i \in Hits(vpn) :
       /\ \A j \in Hits(vpn) : i <= j
       /\ TLB' = [TLB EXCEPT ![i].time = Looked]
       /\ Access(TLB[i].ppn, Looked)
  /\ UNCHANGED <<constant, pc, simPause, nextQuanta, stopTime, lastStop, lists, lastRun, clockHand, pageTable>>

TLBMissCutShort(vpn) ==
  /\ ExecutingMem(vpn)
  /\ Hits(vpn) = {} /\ ~TimeForTable
  /\ Advance(stopTime, 0)
  /\ UNCHANGED <<constant, pc, simPause, nextQuanta, stopTime, lastStop, lists, lastRun, TLB, DRAM, clockHand, pageTable>>

(* findPTE finds the page. *)
PageHit(vpn) ==
  /\ ExecutingMem(vpn)
  /\ Hits(vpn) = {} /\ TimeForTable
  /\ LET ppn == pageTable[runningProcess][vpn]
         now == Looked + DRAM_latency IN
       /\ ppn # NoFrame
       /\ TLB' = TLBadd(vpn, ppn, now)
       /\ Access(ppn, now)
  /\ UNCHANGED <<constant, pc, simPause, nextQuanta, stopTime, lastStop, lists, lastRun, clockHand, pageTable>>

PageFault(vpn) ==
  /\ ExecutingMem(vpn)
  /\ Hits(vpn) = {} /\ TimeForTable
  /\ pageTable[runningProcess][vpn] = NoFrame
  /\ LET now == W(Looked + DRAM_latency + Page_fault_trap_handling_time) IN
       /\ current_time' = now
       /\ pcb' = [pcb EXCEPT ![runningProcess].user_time = @ + TLB_latency + DRAM_latency,
                             ![runningProcess].fracLeft = Swap_latency,
                             ![runningProcess].blockOccur = now]
  /\ blockedProcess' = Append(blockedProcess, runningProcess)
  /\ runningProcess' = NoProc
  /\ simPause' = 0
  /\ pc' = "arrivals"
  /\ UNCHANGED <<constant, nextQuanta, stopTime, lastStop, processList, readyProcess, lastRun,
                 TLB, DRAM, clockHand, pageTable>>

-----------------------------------------------------------------------------
(* The rest of simulate()'s loop *)

(* nextQuanta, moved on by whole quanta until it is not before now (MaxTime *)
(* keeps the sums far from Word).                                          *)
QuantaFrom(now) ==
  IF nextQuanta >= now THEN nextQuanta
  ELSE W(nextQuanta + quantum * ((now - nextQuanta + quantum - 1) \div quantum))

Arrivals ==
  /\ pc = "arrivals"
  /\ nextQuanta' = QuantaFrom(current_time + 1)
  /\ readyProcess' = readyProcess \o Arrived(processList, current_time)
  /\ processList' = NotArrived(processList, current_time)
  /\ pc' = "disk"
  /\ UNCHANGED <<constant, simPause, current_time, stopTime, lastStop, runningProcess, blockedProcess,
                 pcb, lastRun, memory>>

(* diskToMemory is called from three places. *)
AfterDisk == [disk |-> "settle", diskAgain |-> "idle", diskIdle |-> "slice"]
DiskToMemory == pc \in DOMAIN AfterDisk
Blocked == Head(blockedProcess)
BlockedAt(vpn) == GetVPN(Program(Blocked)[pcb[Blocked].next], vpn)

(* Mutant: the process stays in the blocked list. *)
UnblockCopy ==
  /\ readyProcess' = Append(readyProcess, Blocked)
  /\ UNCHANGED <<processList, runningProcess, blockedProcess>>

Unblock ==
  /\ blockedProcess' = Tail(blockedProcess)
  /\ readyProcess' = Append(readyProcess, Blocked)
  /\ UNCHANGED <<processList, runningProcess>>

NothingBlocked ==
  /\ DiskToMemory
  /\ blockedProcess = <<>>
  /\ pc' = AfterDisk[pc]
  /\ UNCHANGED <<constant, simPause, time, lists, pcb, lastRun, memory>>

(* One turn of the loop that skips requests whose page is present. *)
PagePresent(vpn) ==
  /\ DiskToMemory
  /\ blockedProcess # <<>>
  /\ BlockedAt(vpn)
  /\ pageTable[Blocked][vpn] # NoFrame
  /\ pcb' = [pcb EXCEPT ![Blocked].fracLeft = 0]
  /\ Unblock
  /\ UNCHANGED <<constant, pc, simPause, time, lastRun, TLB, DRAM, clockHand, pageTable>>

(* Mutant: the transfer is taken to have run since the process blocked. *)
RunTimeSinceBlocked == Minus(current_time, pcb[Blocked].blockOccur)

(* The time the disk has worked for the first request since the last call. *)
RunTime ==
  IF lastStop < pcb[Blocked].blockOccur
  THEN Minus(current_time, pcb[Blocked].blockOccur)
  ELSE Minus(current_time, lastStop)
Left == Minus(pcb[Blocked].fracLeft, RunTime)

TransferGoesOn(vpn) ==
  /\ DiskToMemory
  /\ blockedProcess # <<>>
  /\ BlockedAt(vpn)
  /\ pageTable[Blocked][vpn] = NoFrame
  /\ Left # 0
  /\ pcb' = [pcb EXCEPT ![Blocked].fracLeft = Left]
  /\ lastStop' = current_time
  /\ pc' = AfterDisk[pc]
  /\ UNCHANGED <<constant, simPause, current_time, nextQuanta, stopTime, lists, lastRun,
                 TLB, DRAM, clockHand, pageTable>>

TransferDone(vpn) ==
  /\ DiskToMemory
  /\ blockedProcess # <<>>
  /\ BlockedAt(vpn)
  /\ pageTable[Blocked][vpn] = NoFrame
  /\ Left = 0
  /\ PlacePage(Blocked, vpn)
  /\ Unblock
  /\ pcb' = [pcb EXCEPT ![Blocked].fracLeft = 0]
  /\ lastStop' = current_time
  /\ current_time' = W(current_time + Swap_interrupt_handling_time)
  /\ pc' = AfterDisk[pc]
  /\ UNCHANGED <<constant, simPause, nextQuanta, stopTime, lastRun>>

(* The process that stopped is cleaned up, or goes to the ready list.      *)
CleanUp ==
  /\ pc = "settle"
  /\ simPause = -1
  /\ pageTable' = [pageTable EXCEPT ![runningProcess] = EmptyTable]
  /\ runningProcess' = NoProc
  /\ pc' = "schedule"
  /\ UNCHANGED <<constant, simPause, time, processList, readyProcess, blockedProcess, pcb, lastRun,
                 TLB, DRAM, clockHand, misreads>>

Requeue ==
  /\ pc = "settle"
  /\ simPause \in {1, 4}
  /\ readyProcess' = Append(readyProcess, runningProcess)
  /\ runningProcess' = NoProc
  /\ nextQuanta' = IF simPause = 1 THEN W(current_time + quantum) ELSE nextQuanta
  /\ pc' = "schedule"
  /\ UNCHANGED <<constant, simPause, current_time, stopTime, lastStop, processList, blockedProcess,
                 pcb, lastRun, memory>>

NothingToSettle ==
  /\ pc = "settle"
  /\ simPause \in {0, 2}
  /\ pc' = "schedule"
  /\ UNCHANGED <<constant, simPause, time, lists, pcb, lastRun, memory>>

(* Mutant: the TLB is not flushed. *)
SchedulingRRNoFlush ==
  /\ pc = "schedule"
  /\ pc' = "diskAgain"
  /\ \/ /\ readyProcess = <<>>
        /\ UNCHANGED <<current_time, lists, lastRun, TLB>>
     \/ /\ readyProcess # <<>>
        /\ runningProcess' = Head(readyProcess)
        /\ readyProcess' = Tail(readyProcess)
        /\ current_time' = W(current_time + contextSwitchTime)
        /\ lastRun' = Head(readyProcess)
        /\ UNCHANGED <<processList, blockedProcess, TLB>>
  /\ UNCHANGED <<constant, simPause, nextQuanta, stopTime, lastStop, pcb, DRAM, clockHand, pageTable, misreads>>

schedulingRR ==
  /\ pc = "schedule"
  /\ pc' = "diskAgain"
  /\ \/ /\ readyProcess = <<>>
        /\ UNCHANGED <<current_time, lists, lastRun, TLB>>
     \/ /\ readyProcess # <<>>
        /\ runningProcess' = Head(readyProcess)
        /\ readyProcess' = Tail(readyProcess)
        /\ current_time' = W(current_time + contextSwitchTime)
        /\ lastRun' = Head(readyProcess)
        /\ TLB' = IF lastRun = Head(readyProcess) THEN TLB ELSE EmptyTLB
        /\ UNCHANGED <<processList, blockedProcess>>
  /\ UNCHANGED <<constant, simPause, nextQuanta, stopTime, lastStop, pcb, DRAM, clockHand, pageTable, misreads>>

Idle == pc = "idle" /\ runningProcess = NoProc /\ readyProcess = <<>>

NotIdle ==
  /\ pc = "idle"
  /\ runningProcess # NoProc \/ readyProcess # <<>>
  /\ pc' = "slice"
  /\ UNCHANGED <<constant, simPause, time, lists, pcb, lastRun, memory>>

AllDone ==
  /\ Idle
  /\ blockedProcess = <<>> /\ processList = <<>>
  /\ pc' = "done"
  /\ UNCHANGED <<constant, simPause, time, lists, pcb, lastRun, memory>>

DiskIsNext ==
  /\ blockedProcess # <<>>
  /\ processList # <<>> => Start(Head(processList)) >= Due

(* Mutant: time does not move on to the end of the transfer. *)
WaitForDiskNoTime ==
  /\ Idle
  /\ DiskIsNext
  /\ pc' = "diskIdle"
  /\ UNCHANGED <<constant, simPause, time, lists, pcb, lastRun, memory>>

WaitForDisk ==
  /\ Idle
  /\ DiskIsNext
  /\ current_time' = Due
  /\ nextQuanta' = QuantaFrom(Due)
  /\ pc' = "diskIdle"
  /\ UNCHANGED <<constant, simPause, stopTime, lastStop, lists, pcb, lastRun, memory>>

WaitForArrival ==
  /\ Idle
  /\ processList # <<>> /\ ~DiskIsNext
  /\ current_time' = Start(Head(processList))
  /\ nextQuanta' = QuantaFrom(Start(Head(processList)))
  /\ readyProcess' = Append(readyProcess, Head(processList))
  /\ processList' = Tail(processList)
  /\ pc' = "slice"
  /\ UNCHANGED <<constant, simPause, stopTime, lastStop, runningProcess, blockedProcess, pcb, lastRun, memory>>

Next ==
  \/ NothingRuns \/ StartSlice \/ EndSlice \/ TraceEnds \/ ReadNonMem
  \/ \E vpn \in Pages :
       \/ TLBHit(vpn) \/ TLBMissCutShort(vpn) \/ PageHit(vpn) \/ PageFault(vpn)
       \/ PagePresent(vpn) \/ TransferGoesOn(vpn) \/ TransferDone(vpn)
  \/ Arrivals \/ NothingBlocked
  \/ CleanUp \/ Requeue \/ NothingToSettle
  \/ schedulingRR
  \/ NotIdle \/ AllDone \/ WaitForDisk \/ WaitForArrival

(* One thread, which never stops by itself. *)
Spec == Init /\ [][Next]_vars /\ WF_vars(Next)

-----------------------------------------------------------------------------
(* Properties *)

Procedures == {"slice", "run", "arrivals", "settle", "schedule", "idle", "done"}
TypeOK ==
  /\ pc \in Procedures \cup DOMAIN AfterDisk
  /\ simPause \in {-1, 0, 1, 2, 4}
  /\ {current_time, nextQuanta, stopTime, lastStop} \subseteq Times
  /\ runningProcess \in Procs \cup {NoProc}
  /\ \A p \in Procs :
       /\ pcb[p].next \in 1 .. Len(Program(p)) + 1
       /\ pcb[p].fracLeft \in Times
  /\ \A i \in Entries : TLB[i].valid => TLB[i].vpn \in Pages /\ TLB[i].ppn \in Frames
  /\ clockHand \in Frames
  /\ pageTable \in [Procs -> [Pages -> Frames \cup {NoFrame}]]

InLists == ToSet(processList) \cup ToSet(readyProcess) \cup ToSet(blockedProcess) \cup {runningProcess}
Live == Procs \cap InLists

(* A process is in one list, once, until its trace is used up: none is     *)
(* dropped between fault, transfer, quantum and context switch, and none   *)
(* is scheduled twice.                                                     *)
NoProcessLost ==
  /\ Len(processList) + Len(readyProcess) + Len(blockedProcess)
       + (IF runningProcess = NoProc THEN 0 ELSE 1) = Cardinality(Live)
  /\ \A p \in Procs \ Live : pcb[p].next = Len(Program(p)) + 1

(* Programs compute only until the time they must stop at, whatever        *)
(* combination of TLB, page table and memory accesses an instruction needs *)
(* (a page fault adds the operating system's time on top).                 *)
UserTimeWithinSlice ==
  [][\A p \in Procs : pcb'[p].user_time # pcb[p].user_time =>
       current_time + pcb'[p].user_time - pcb[p].user_time <= stopTime]_vars

(* No page is in memory before the disk has worked for it long enough.     *)
Loaded(p) == \E v \in Pages : pageTable[p][v] = NoFrame /\ pageTable'[p][v] # NoFrame
DiskTakesItsTime ==
  [][\A p \in Procs : Loaded(p) => current_time - pcb[p].blockOccur >= Swap_latency]_vars

(* A finished process has used at least the time of its instructions, and  *)
(* exactly that when it needs no memory, however its slices were cut.      *)
Work(p) ==
  FoldLeft(LAMBDA t, i : t + (IF i = NonMem THEN non_mem_inst_length ELSE TLB_latency + DRAM_latency),
           0, Program(p))
WorkDone ==
  \A p \in Procs \ Live :
    /\ pcb[p].user_time >= Work(p)
    /\ (\A i \in DOMAIN Program(p) : Program(p)[i] = NonMem) => pcb[p].user_time = Work(p)

(* LRU looks for a timestamp that is not in the future: with none, the     *)
(* index of the victim would stay -1 (TLBadd, DRAMadd).  And a page stamped *)
(* 0 would be taken for no page: its frame would be given away with its     *)
(* entry left in the page table.                                            *)
NoFutureTimestamp ==
  /\ page_replacement_policy = "LRU" =>
       \A f \in Frames :
         DRAM[f].time <= current_time /\ (DRAM[f].process # NoProc => DRAM[f].time > 0)
  /\ \A i \in Entries : TLB[i].time <= current_time

(* The TLB, the page tables and DRAM are those of Paging, so what            *)
(* PagingProofs proves of Paging holds of the simulator: frames and tables   *)
(* agree and no TLB entry is stale, whatever is evicted, switched or freed.  *)
Holds(f) == IF DRAM[f].process = NoProc THEN NoProc ELSE <<DRAM[f].process, DRAM[f].vpn>>
Held == [f \in Frames |-> Holds(f)]
Cached == {<<TLB[i].vpn, TLB[i].ppn>> : i \in {j \in Entries : TLB[j].valid}}
Memory == INSTANCE Paging WITH
  owner <- lastRun, live <- Live, Free <- NoProc, tlb <- Cached, frames <- Held
ImplementsPaging == Memory!Spec

(* The time left for the first page to arrive, an unsigned number, is never *)
(* taken below zero: the time at which diskToMemory is called never passes  *)
(* the time the page is due.                                               *)
NeverOvershot == \A p \in ToSet(blockedProcess) : pcb[p].fracLeft <= Swap_latency

(* The simulation ends; what can keep it from ending is a page whose due   *)
(* time was passed.                                                        *)
EndsUnlessOvershot == <>(pc = "done" \/ ~NeverOvershot)
=============================================================================
