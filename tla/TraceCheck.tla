------------------------------ MODULE TraceCheck ------------------------------
(***************************************************************************)
(* mdriver.c's check of an allocator (eval_mm_valid, run twice over a      *)
(* trace) and its timing (fsec).  The allocator under test is the          *)
(* environment: it may return any address and may garble a block that it   *)
(* moves; faults records what it did wrong.  The driver notices through    *)
(* the range list and through the data it fills every block with.          *)
(*                                                                         *)
(* A trace is any sequence of requests that frees all it allocates, as     *)
(* every trace of the repository does.  An index of the trace is known by  *)
(* the address of its block: trace->blocks is the identity here, and an    *)
(* index without a block is NULL.  What tree_find_nearest answers is a     *)
(* parameter, near: TraceDriver has the tree that finds it.                *)
(***************************************************************************)
EXTENDS RangeSet, KBest, FiniteSets

CONSTANTS
  ALIGNMENT, HeapLo, HeapHi,
  MAXFILL,        (* units filled at either end of a block                 *)
  Junk,           (* a unit no block's random data was written to last      *)
  DebugModes      (* subset of {"DBG_CHEAP", "DBG_EXPENSIVE"}                *)

ASSUME CheckAssumption ==
  /\ ALIGNMENT \in Nat \ {0} /\ HeapLo \in Nat /\ HeapHi \in Nat
  /\ MAXFILL \in Nat \ {0} /\ IsFiniteSet(Addresses)
  /\ Junk \notin Addresses \cup {NULL}

VARIABLES
  debug_mode,
  pass,           (* calls of eval_mm_valid begun                          *)
  verdict,        (* "running", "valid" or "invalid"                       *)
  block_sizes,    (* trace->block_sizes, 0 where no block of the trace is   *)
  moving,         (* the realloc between remove_range and add_range        *)
  memory,         (* memory[c]: whose data was last written to c            *)
  faults          (* what the allocator has done wrong                     *)

traceVars == <<pass, verdict, block_sizes, moving, memory, faults>>
checkVars == <<debug_mode, traceVars, rangeVars, sampleVars>>

blocks == {a \in Addresses : block_sizes[a] > 0}

StandsStill == [busy |-> FALSE, from |-> NULL, to |-> NULL, size |-> 0]

CheckInit ==
  /\ debug_mode \in DebugModes
  /\ pass = 0
  /\ verdict = "running"
  /\ block_sizes = [a \in Addresses |-> 0]
  /\ moving = StandsStill
  /\ memory = [c \in HeapLo..HeapHi |-> Junk]
  /\ faults = {}
  /\ RangeInit
  /\ SamplerInit

-----------------------------------------------------------------------------
(* The data a block is filled with: both ends, and of a short block all.   *)

Units(lo, size) == IF size = 0 THEN {} ELSE lo .. lo + size - 1
Filled(lo, size) ==
  IF size <= 2 * MAXFILL THEN Units(lo, size)
  ELSE Units(lo, MAXFILL) \cup Units(lo + size - MAXFILL, MAXFILL)
FirstFilled(lo, size) == Units(lo, IF size <= MAXFILL THEN size ELSE MAXFILL)

(* Every filling takes a new random base: what was written before is junk. *)
Forgotten(mem, a) == [c \in DOMAIN mem |-> IF mem[c] = a THEN Junk ELSE mem[c]]
Randomized(mem, a, size) ==
  [c \in DOMAIN mem |-> IF c \in Filled(a, size) THEN a ELSE Forgotten(mem, a)[c]]

(* check_index *)
SizeOf(a) == IF a = NULL THEN 0 ELSE block_sizes[a]
Intact(a) == \A c \in Filled(a, SizeOf(a)) : memory[c] = a

-----------------------------------------------------------------------------
(* What the allocator may do wrong. *)

(* It places a block of the given size at p beside the others. *)
FaultsOf(p, size, others) ==
  IF p = NULL \/ p % ALIGNMENT # 0 \/ p < HeapLo \/ p + size - 1 > HeapHi THEN {"bad"}
  ELSE {IF Filled(p, size) \cap Filled(b, block_sizes[b]) # {} THEN "overlap" ELSE "hidden" :
          b \in {b \in others : Units(p, size) \cap Units(b, block_sizes[b]) # {}}}

(* One wrong answer in a trace is the bound: misbehaves is what it does now. *)
Answers(misbehaves) ==
  /\ faults # {} => misbehaves = {}
  /\ faults' = faults \cup misbehaves

(* The first n units of block a copied to p, all but those of lost. *)
Copied(a, p, n, lost) ==
  LET old(c) == memory[a + c - p] IN
  [c \in DOMAIN memory |->
     IF c \notin Units(p, n) THEN Forgotten(memory, a)[c]
     ELSE IF c \in lost \/ old(c) # a THEN Junk ELSE a]

-----------------------------------------------------------------------------
(* add_range and remove_range *)

Placeable(p, size) ==
  /\ p # NULL
  /\ p % ALIGNMENT = 0
  /\ p >= HeapLo /\ p + size - 1 <= HeapHi

Accepts(p, size, near) == Placeable(p, size) /\ ~Overlaps(p, size, near)

(* NULL, what a realloc to size 0 leaves, is in no range. *)
Forget(p) == IF p \in live THEN RemoveRange(p) ELSE UNCHANGED rangeVars

-----------------------------------------------------------------------------
(* eval_mm_valid *)

(* DBG_EXPENSIVE: before every request the data of all blocks on the list,  *)
(* whose n-th record is Walked[n].                                          *)
Walked[n \in Nat] == IF n = 0 THEN list ELSE Successor(Walked[n - 1])
WalkFails ==
  \E n \in 0 .. Cardinality(live) : Walked[n] # NULL /\ ~Intact(Walked[n])

Ready ==
  /\ verdict = "running" /\ pass > 0 /\ ~moving.busy
  /\ debug_mode = "DBG_EXPENSIVE" => ~WalkFails

(* eval_mm_valid returns false; run_tests frees the trace, the ranges and   *)
(* the heap.                                                                *)
Invalid ==
  /\ verdict' = "invalid"
  /\ block_sizes' = [a \in Addresses |-> 0]
  /\ moving' = StandsStill
  /\ memory' = [c \in HeapLo..HeapHi |-> Junk]
  /\ FreeRangeSet
  /\ UNCHANGED <<debug_mode, pass, sampleVars>>

(* The heap is reset and mm_init called; the list is not cleared. *)
StartPass ==
  /\ verdict = "running" /\ pass < 2 /\ ~moving.busy /\ blocks = {}
  /\ \/ Answers({"bad"}) /\ Invalid
     \/ /\ pass' = pass + 1
        /\ UNCHANGED <<debug_mode, verdict, block_sizes, moving, memory, faults,
                       rangeVars, sampleVars>>

HeapCheckFails ==
  /\ verdict = "running" /\ pass > 0 /\ ~moving.busy /\ debug_mode = "DBG_EXPENSIVE"
  /\ Invalid
  /\ \/ WalkFails /\ UNCHANGED faults
     \/ Answers({"bad"})

Alloc(size, p, near) ==
  /\ Ready
  /\ Answers(FaultsOf(p, size, blocks))
  /\ \/ ~Accepts(p, size, near) /\ Invalid
     \/ /\ Accepts(p, size, near)
        /\ AddRange(p, size, near)
        /\ block_sizes' = [block_sizes EXCEPT ![p] = size]
        /\ memory' = Randomized(memory, p, size)
        /\ UNCHANGED <<debug_mode, pass, verdict, moving, sampleVars>>

Least(m, n) == IF m < n THEN m ELSE n

(* REALLOC of block a (or of an index without one) up to remove_range: the  *)
(* old data is checked, then mm_realloc copies what fits of it.             *)
ReallocFrom(a, size) ==
  /\ Ready
  /\ \/ ~Intact(a) /\ Invalid /\ UNCHANGED faults
     \/ Intact(a) /\ \E p \in Addresses \cup {NULL} :
          \/ (p = NULL) # (size = 0) /\ Answers({"bad"}) /\ Invalid
          \/ LET n == Least(size, SizeOf(a)) IN
             /\ (p = NULL) = (size = 0)
             /\ Forget(a)
             /\ moving' = [busy |-> TRUE, from |-> a, to |-> p, size |-> size]
             /\ \E lost \in {{}} \cup {{p + k} : k \in 0 .. n - 1} :
                  /\ memory' = Copied(a, p, n, lost)
                  /\ Answers(IF lost = {} THEN {}
                             ELSE IF lost \subseteq FirstFilled(p, n) THEN {"garbled"}
                             ELSE {"hidden"})
             /\ UNCHANGED <<debug_mode, pass, verdict, block_sizes, sampleVars>>

(* ... and from add_range on: the copied data is checked at its beginning.  *)
ReallocTo(near) ==
  LET a == moving.from
      p == moving.to
      size == moving.size
      copied == \A c \in FirstFilled(p, Least(size, SizeOf(a))) : memory[c] = a
  IN
  /\ verdict = "running" /\ moving.busy
  /\ \/ /\ size = 0
        /\ block_sizes' = Store(block_sizes, a, 0)
        /\ memory' = Forgotten(memory, a)
        /\ moving' = StandsStill
        /\ UNCHANGED <<debug_mode, pass, verdict, faults, rangeVars, sampleVars>>
     \/ /\ size > 0
        /\ Answers(FaultsOf(p, size, blocks \ {a}))
        /\ \/ ~(Accepts(p, size, near) /\ copied) /\ Invalid
           \/ /\ Accepts(p, size, near) /\ copied
              /\ AddRange(p, size, near)
              /\ block_sizes' = Store(Store(block_sizes, a, 0), p, size)
              /\ memory' = Randomized(Forgotten(memory, a), p, size)
              /\ moving' = StandsStill
              /\ UNCHANGED <<debug_mode, pass, verdict, sampleVars>>

(* Mutant: the data is not looked at when a block is freed. *)
FreeUnchecked(a) ==
  /\ Ready
  /\ Forget(a)
  /\ block_sizes' = Store(block_sizes, a, 0)
  /\ memory' = Forgotten(memory, a)
  /\ UNCHANGED <<debug_mode, pass, verdict, moving, faults, sampleVars>>

(* FREE, of index -1 too. *)
Free(a) ==
  /\ Ready
  /\ \/ ~Intact(a) /\ Invalid /\ UNCHANGED faults
     \/ /\ Intact(a)
        /\ Forget(a)
        /\ block_sizes' = Store(block_sizes, a, 0)
        /\ memory' = Forgotten(memory, a)
        /\ UNCHANGED <<debug_mode, pass, verdict, moving, faults, sampleVars>>

EndTrace ==
  /\ verdict = "running" /\ pass = 2 /\ ~moving.busy /\ blocks = {}
  /\ verdict' = "valid"
  /\ UNCHANGED <<debug_mode, pass, block_sizes, moving, memory, faults,
                 rangeVars, sampleVars>>

(* fsec(eval_mm_speed) of a valid allocator *)
Measure ==
  /\ verdict = "valid"
  /\ Sample
  /\ UNCHANGED <<debug_mode, traceVars, rangeVars>>

(* What the tree finds for the address p. *)
Finds(near, p) == p # NULL => IsNearest(near, p)

CheckNext ==
  \/ StartPass \/ HeapCheckFails \/ EndTrace \/ Measure
  \/ \E near \in live \cup {NULL} : Finds(near, moving.to) /\ ReallocTo(near)
  \/ \E size \in Sizes, p \in Addresses \cup {NULL}, near \in live \cup {NULL} :
       Finds(near, p) /\ Alloc(size, p, near)
  \/ \E a \in blocks \cup {NULL} :
       Free(a) \/ \E size \in Sizes \cup {0} : ReallocFrom(a, size)

CheckSpec == CheckInit /\ [][CheckNext]_checkVars

-----------------------------------------------------------------------------
(* The records are those of the blocks the trace holds.                     *)
RangesOfBlocks ==
  verdict = "running" =>
    /\ live = blocks \ {moving.from}
    /\ \A a \in live : hi[a] = a + block_sizes[a] - 1

(* An allocator is never refused without having done something wrong, and  *)
(* none passes both runs that lost the checked data of a block or let two  *)
(* blocks share a unit that both fill: what the range list misses, the     *)
(* data shows by the end of the trace.                                     *)
VerdictRight ==
  /\ verdict = "invalid" => faults # {}
  /\ verdict = "valid" => faults \subseteq {"hidden"}

(* mdriver.c:1084-1085: a new block "must not overlap any currently         *)
(* allocated block".  Broken: add_range asks only the record that follows  *)
(* the predecessor on its chain.                                           *)
BlocksDisjoint ==
  verdict = "running" => \A a, b \in blocks \ {moving.from} :
    a # b => Units(a, block_sizes[a]) \cap Units(b, block_sizes[b]) = {}
=============================================================================
