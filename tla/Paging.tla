------------------------------- MODULE Paging --------------------------------
(***************************************************************************)
(* What the memory hardware of project 3's simulator promises, whatever    *)
(* the replacement policies: page tables that map the pages of a process   *)
(* to frames of DRAM, and a TLB that caches translations of the process    *)
(* scheduled last.  Timestamps, the clock hand and the choice of a victim  *)
(* are left open.  Simulator implements this specification; PagingProofs   *)
(* proves its invariants for every number of processes, pages and frames.  *)
(***************************************************************************)
EXTENDS Integers, FiniteSets

CONSTANTS
  Procs,      (* the processes                                             *)
  Pages,      (* the virtual page numbers                                  *)
  Frames,     (* the physical page numbers                                 *)
  NoFrame,    (* no valid page table entry                                 *)
  Free        (* a frame that holds no page                                *)

ASSUME PagingAssumption ==
  /\ NoFrame \notin Frames
  /\ Free \notin Procs \X Pages

VARIABLES
  owner,      (* the process the TLB was flushed for                       *)
  live,       (* the processes that have not finished                      *)
  tlb,        (* the valid entries: pairs of a page and a frame            *)
  pageTable,  (* pageTable[p][v]: the frame of page v of process p         *)
  frames      (* frames[f]: the page that frame f holds                    *)

pagingVars == <<owner, live, tlb, pageTable, frames>>

Init ==
  /\ owner \in Procs
  /\ live = Procs
  /\ tlb = {}
  /\ pageTable = [p \in Procs |-> [v \in Pages |-> NoFrame]]
  /\ frames = [f \in Frames |-> Free]

(* schedulingRR: the TLB is flushed for a process other than the last one. *)
Switch(p) ==
  /\ p \in live
  /\ owner' = p
  /\ tlb' = {}
  /\ UNCHANGED <<live, pageTable, frames>>

(* TLBadd, after a miss whose page table entry was found: a free entry is  *)
(* used, or one of another page replaced.                                  *)
Fill(v) ==
  /\ owner \in live
  /\ pageTable[owner][v] # NoFrame
  /\ \A e \in tlb : e[1] # v
  /\ \E kept \in {tlb} \cup {tlb \ {e} : e \in tlb} :
       tlb' = kept \cup {<<v, pageTable[owner][v]>>}
  /\ UNCHANGED <<owner, live, pageTable, frames>>

(* Mutant: the page evicted stays in its page table. *)
TablesKept(f) == pageTable

(* Mutant: the page evicted stays in the TLB. *)
TlbKept(f) == tlb

(* Page tables and TLB without the page that frame f holds. *)
TablesWithout(f) ==
  [p \in Procs |-> [v \in Pages |->
     IF frames[f] = <<p, v>> /\ p \in live THEN NoFrame ELSE pageTable[p][v]]]
TlbWithout(f) ==
  {e \in tlb : frames[f] = Free \/ e[1] # frames[f][2]}

(* DRAMadd and addPTE: page v of p is put into frame f; the page that was  *)
(* there loses its page table entry, and its number leaves the TLB.        *)
Load(p, v, f) ==
  /\ p \in live
  /\ pageTable[p][v] = NoFrame
  /\ frames' = [frames EXCEPT ![f] = <<p, v>>]
  /\ pageTable' = [TablesWithout(f) EXCEPT ![p][v] = f]
  /\ tlb' = TlbWithout(f)
  /\ UNCHANGED <<owner, live>>

(* cleanUpProcess: the page table is freed, frames and TLB stay.           *)
Exit(p) ==
  /\ p \in live
  /\ live' = live \ {p}
  /\ pageTable' = [pageTable EXCEPT ![p] = [v \in Pages |-> NoFrame]]
  /\ UNCHANGED <<owner, tlb, frames>>

Next ==
  \/ \E p \in Procs : Switch(p) \/ Exit(p)
  \/ \E v \in Pages : Fill(v)
  \/ \E p \in Procs, v \in Pages, f \in Frames : Load(p, v, f)

Spec == Init /\ [][Next]_pagingVars

-----------------------------------------------------------------------------
TypeOK ==
  /\ owner \in Procs
  /\ live \subseteq Procs
  /\ tlb \subseteq Pages \X Frames
  /\ pageTable \in [Procs -> [Pages -> Frames \cup {NoFrame}]]
  /\ frames \in [Frames -> (Procs \X Pages) \cup {Free}]

(* A page of a live process is mapped to a frame exactly when the frame    *)
(* holds that page: no frame is shared, none is lost by an eviction, also  *)
(* when it takes the frame of a process that has finished.                 *)
FramesMatchTables ==
  \A p \in live, v \in Pages, f \in Frames :
    pageTable[p][v] = f <=> frames[f] = <<p, v>>

(* A valid TLB entry is the translation in the page table of the process   *)
(* that runs: evictions and process switches never leave a stale one.      *)
TLBCoherent ==
  /\ owner \in live => \A e \in tlb : pageTable[owner][e[1]] = e[2]
  /\ \A d, e \in tlb : d[1] = e[1] => d = e
=============================================================================
