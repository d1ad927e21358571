------------------------------ MODULE Allocator ------------------------------
(***************************************************************************)
(* Project 2's memory allocator: blocks with boundary tags, segregated     *)
(* doubly linked free lists with best fit, immediate coalescing, and slabs *)
(* with bitmaps for the requests of 16 and of 32 bytes.                    *)
(*                                                                         *)
(* The heap is an array of 8-byte words and the allocator reads its tags,  *)
(* links and bitmaps back from it, as the code does.  Word 1 is the last   *)
(* word of slabs32, which mm_init leaves zero: free() takes it for the     *)
(* footer of a free block of no size.  Sizes are in words.                  *)
(*                                                                         *)
(* The operations are functions from a heap to a heap.  The actions are    *)
(* those of mdriver's eval_mm_valid, which fills every block it gets and   *)
(* looks whether the bytes are still there.                                *)
(***************************************************************************)
EXTENDS Integers, FiniteSets, FiniteSetsExt

CONSTANTS
  Ids,        (* the block ids of a trace                                  *)
  Sizes,      (* the sizes a trace asks for, in words of 8 bytes           *)
  NumLists,   (* 36 segregated lists                                       *)
  NumSlabs,   (* NumSlabs[2] is 10, NumSlabs[4] is 14                      *)
  NumMaps,    (* bitmaps of a slab, 8 (32 for the indices above 8)         *)
  Slots,      (* 64 slots of a bitmap                                      *)
  MaxHeap     (* bound: words of the heap                                  *)

NULL == 0
Kinds == {2, 4}
SlabPayload(kind) == NumMaps * Slots * kind + NumMaps

(* getIndex: the ceiling of the logarithm of the size in bytes, minus 5.   *)
HasIndex(size, i) ==
  /\ size <= 4 * 2 ^ i
  /\ i > 0 => size > 2 * 2 ^ i
getIndex(size) == CHOOSE i \in 0 .. NumLists - 1 : HasIndex(size, i)

(* 16 bytes of alignment, and 16 for header and footer. *)
BlockSize(size) == 2 * ((size + 1) \div 2) + 2

ASSUME AllocatorAssumption ==
  /\ NULL \notin Ids
  /\ Sizes \subseteq Nat \ {0}
  /\ NumLists \in Nat /\ Slots \in Nat \ {0} /\ NumSlabs \in [Kinds -> Nat] /\ MaxHeap \in Nat \ {0}
  /\ NumMaps \in Nat \ {0} /\ NumMaps % 2 = 0
  /\ \A kind \in Kinds : SlabPayload(kind) > 4  (* a slab does not fit in a slab *)
  (* every size of a block has a list *)
  /\ \A size \in 1 .. MaxHeap \cup {BlockSize(n) : n \in Sizes \cup {SlabPayload(k) : k \in Kinds}} :
       \E i \in 0 .. NumLists - 1 : HasIndex(size, i)

VARIABLES
  heap,       (* [mem, brk, lists, slabs]; brk is the first word behind it  *)
  blocks,     (* blocks[id]: [ptr, size] of trace.blocks, ptr NULL if none *)
  check       (* the reallocation whose bytes the driver is to compare     *)

vars == <<heap, blocks, check>>

Tag(valid, size) == <<"tag", valid, size>>
Link(block) == <<"link", block>>
Bitmap(used) == <<"map", used>>
Data(id) == <<"data", id>>
Unset == <<"unset">>

(* Slab number i of each kind, <<kind, i>>. *)
Slabs == UNION {{kind} \X (0 .. NumSlabs[kind] - 1) : kind \in Kinds}

Valid(h, b) == h.mem[b][2]
SizeOf(h, b) == h.mem[b][3]

(* getBlockInfo reads the links of free blocks that have room for them.    *)
Linked(h, b) == Valid(h, b) = 0 /\ SizeOf(h, b) > 2
pred(h, b) == IF Linked(h, b) THEN h.mem[b + 1][2] ELSE NULL
succ(h, b) == IF Linked(h, b) THEN h.mem[b + 2][2] ELSE NULL

-----------------------------------------------------------------------------
(* Tags and lists *)

Write(h, words) ==
  [h EXCEPT !.mem = [a \in DOMAIN h.mem |-> IF a \in DOMAIN words THEN words[a] ELSE h.mem[a]]]

(* mem_memcpy of n words, perhaps from an earlier state of the heap. *)
Copy(h, to, from, n, source) ==
  Write(h, [a \in to .. to + n - 1 |-> source.mem[from + a - to]])

addTags(h, b, valid, size) ==
  LET tags == {b, b + size - 1}
      links == IF size > 2 THEN {b + 1, b + 2} ELSE {}
  IN  Write(h, [a \in tags \cup links |-> IF a \in tags THEN Tag(valid, size) ELSE Link(NULL)])

SetPred(h, b, to) == IF b = NULL THEN h ELSE [h EXCEPT !.mem[b + 1] = Link(to)]
SetSucc(h, b, to) == IF b = NULL THEN h ELSE [h EXCEPT !.mem[b + 2] = Link(to)]

listDelete(h, before, after, index) ==
  IF before = NULL THEN SetPred([h EXCEPT !.lists[index] = after], after, NULL)
  ELSE SetPred(SetSucc(h, before, after), after, before)

listAdd(h, b, index) ==
  [SetPred(SetSucc(h, b, h.lists[index]), h.lists[index], b) EXCEPT !.lists[index] = b]

(* A block becomes free; one of 16 bytes has no room for links and stays   *)
(* outside the lists until a neighbour is freed.                           *)
AddFree(h, b, size) ==
  IF size > 2 THEN listAdd(addTags(h, b, 0, size), b, getIndex(size))
  ELSE addTags(h, b, 0, size)

Unlink(h, b, size) ==
  IF size > 2 THEN listDelete(h, pred(h, b), succ(h, b), getIndex(size)) ELSE h

(* The blocks of a list, in the order of the links; NULL behind the last.   *)
Following(h, b) == IF b = NULL THEN NULL ELSE succ(h, b)
Chain(h, i) ==
  LET block[n \in Nat] == IF n = 0 THEN h.lists[i] ELSE Following(h, block[n - 1])
  IN  block
(* A block in a list has four words at least. *)
Places(h) == 0 .. h.brk \div 4

-----------------------------------------------------------------------------
(* Blocks *)

(* The block is cut to the needed size and the rest becomes a free block.  *)
FreeRest(h, b, size) == IF size > 0 THEN AddFree(h, b, size) ELSE h
Split(h, b, size, needed) ==
  FreeRest(addTags(h, b, 1, needed), b + needed, size - needed)

mem_sbrk(h, n) ==
  [h EXCEPT !.brk = h.brk + n,
            !.mem = [a \in 1 .. h.brk + n - 1 |-> IF a < h.brk THEN h.mem[a] ELSE Unset]]
Extend(h, needed) == addTags(mem_sbrk(h, needed), h.brk, 1, needed)

(* malloc of more than a slab block: the best fit of the first list that   *)
(* has one, or new memory.  [heap, ptr], ptr one word behind the header.   *)
Fits(h, i, needed) ==
  {n \in Places(h) :
     LET b == Chain(h, i)[n] IN b # NULL /\ Valid(h, b) = 0 /\ SizeOf(h, b) >= needed}
Best(h, i, fits) ==
  LET size(n) == SizeOf(h, Chain(h, i)[n])
  IN  Chain(h, i)[CHOOSE n \in fits : \A m \in fits :
                    size(n) < size(m) \/ (size(n) = size(m) /\ n <= m)]
Take(h, i, b, needed) ==
  [heap |-> Split(listDelete(h, pred(h, b), succ(h, b), i), b, SizeOf(h, b), needed),
   ptr |-> b + 1]
TakeBest(h, i, needed) == Take(h, i, Best(h, i, Fits(h, i, needed)), needed)
FirstFit(h, lists, needed) ==
  IF lists = {} THEN [heap |-> Extend(h, needed), ptr |-> h.brk + 1]
  ELSE TakeBest(h, Min(lists), needed)
BlockMalloc(h, size) ==
  FirstFit(h, {i \in getIndex(BlockSize(size)) .. NumLists - 1 : Fits(h, i, BlockSize(size)) # {}},
           BlockSize(size))

(* The sizes of the free blocks before and after b, 0 if there is none.    *)
PreSize(h, b) == IF Valid(h, b - 1) = 0 THEN SizeOf(h, b - 1) ELSE 0
After(h, b) == b + SizeOf(h, b)
PostSize(h, b) ==
  IF After(h, b) < h.brk /\ Valid(h, After(h, b)) = 0 THEN SizeOf(h, After(h, b)) ELSE 0

(* Mutant: the links of the block before are not read again. *)
BlockFreeStale(h, b) ==
  LET before == b - PreSize(h, b)
      noPost == Unlink(h, After(h, b), PostSize(h, b))
      alone == IF PreSize(h, b) > 2
               THEN listDelete(noPost, pred(h, before), succ(h, before), getIndex(PreSize(h, b)))
               ELSE noPost
  IN  AddFree(alone, before, PreSize(h, b) + SizeOf(h, b) + PostSize(h, b))

(* Mutant: the block after is not looked at. *)
BlockFreeForward(h, b) ==
  AddFree(Unlink(h, b - PreSize(h, b), PreSize(h, b)),
          b - PreSize(h, b), PreSize(h, b) + SizeOf(h, b))

(* free of the block b: it is joined with a free block after it and one    *)
(* before it.  Taking the one after out of its list may change the links   *)
(* of the one before, which are read after it.                              *)
BlockFree(h, b) ==
  IF Valid(h, b) # 1 THEN h
  ELSE AddFree(Unlink(Unlink(h, After(h, b), PostSize(h, b)), b - PreSize(h, b), PreSize(h, b)),
               b - PreSize(h, b), PreSize(h, b) + SizeOf(h, b) + PostSize(h, b))

-----------------------------------------------------------------------------
(* Slabs *)

FirstSlot(slab) == slab + 2 * ((NumMaps + 1) \div 2)

(* Mutant: the slots of both slabs are 16 bytes apart. *)
SlotPtrNarrow(slab, kind, j, slot) == FirstSlot(slab) + (j * Slots + slot) * 2

SlotPtr(slab, kind, j, slot) == FirstSlot(slab) + (j * Slots + slot) * kind
Used(h, slab, j) == h.mem[slab + j][2]
InSlab(h, ptr, kind, i) ==
  /\ h.slabs[kind, i] # NULL
  /\ ptr > h.slabs[kind, i] /\ ptr < h.slabs[kind, i] + SlabPayload(kind)

FreeSlots(h, slab, j) == (0 .. Slots - 1) \ Used(h, slab, j)
FreeMaps(h, slab) == {j \in 0 .. NumMaps - 1 : FreeSlots(h, slab, j) # {}}

(* Mutant: the bitmap is not written back. *)
UseSlotUnmarked(h, kind, slab, j, slot) ==
  [heap |-> h, ptr |-> SlotPtr(slab, kind, j, slot)]

UseSlot(h, kind, slab, j, slot) ==
  [heap |-> [h EXCEPT !.mem[slab + j] = Bitmap(Used(h, slab, j) \cup {slot})],
   ptr |-> SlotPtr(slab, kind, j, slot)]
UseMap(h, kind, slab, j) == UseSlot(h, kind, slab, j, Min(FreeSlots(h, slab, j)))
UseSlab(h, kind, slab) == UseMap(h, kind, slab, Min(FreeMaps(h, slab)))

(* The block new becomes slab i, with its first slot in use.                *)
NewSlab(new, kind, i) ==
  [heap |-> Write([new.heap EXCEPT !.slabs[<<kind, i>>] = new.ptr],
                  [a \in new.ptr .. new.ptr + NumMaps - 1 |->
                     Bitmap(IF a = new.ptr THEN {0} ELSE {})]),
   ptr |-> FirstSlot(new.ptr)]

(* slabAdd: a slot of the last slab that has one, or of a new slab.  The   *)
(* pointer is NULL when every slab is full.                                 *)
slabAdd(h, kind) ==
  LET numbers == 0 .. NumSlabs[kind] - 1
      withRoom == {i \in numbers :
                     h.slabs[kind, i] # NULL /\ FreeMaps(h, h.slabs[kind, i]) # {}}
      unused == {i \in numbers : h.slabs[kind, i] = NULL}
  IN  IF withRoom # {} THEN UseSlab(h, kind, h.slabs[kind, Max(withRoom)])
      ELSE IF unused # {} THEN NewSlab(BlockMalloc(h, SlabPayload(kind)), kind, Min(unused))
      ELSE [heap |-> h, ptr |-> NULL]

(* Mutant: an empty slab is kept. *)
FreeEmptySlabKept(h, kind, i) == h

(* slabDelete: an empty slab is given back to the heap. *)
FreeEmptySlab(h, kind, i) ==
  IF \A j \in 0 .. NumMaps - 1 : Used(h, h.slabs[kind, i], j) = {}
  THEN [BlockFree(h, h.slabs[kind, i] - 1) EXCEPT !.slabs[<<kind, i>>] = NULL]
  ELSE h
ClearSlot(h, slab, n) ==
  [h EXCEPT !.mem[slab + (n \div Slots)] =
     Bitmap(Used(h, slab, n \div Slots) \ {n % Slots})]
slabDelete(h, ptr, kind, i) ==
  LET slab == h.slabs[kind, i]
  IN  FreeEmptySlab(ClearSlot(h, slab, (ptr - FirstSlot(slab)) \div kind), kind, i)

-----------------------------------------------------------------------------
(* The interface *)

malloc(h, size) ==
  LET slot == slabAdd(h, IF size <= 2 THEN 2 ELSE 4)
  IN  IF size <= 4 /\ slot.ptr # NULL THEN slot ELSE BlockMalloc(h, size)

SlabsOf(h, ptr) == {s \in Slabs : InSlab(h, ptr, s[1], s[2])}

FreeIn(h, ptr, slabs) ==
  IF slabs = {} THEN BlockFree(h, ptr - 1)
  ELSE LET s == CHOOSE t \in slabs : TRUE IN slabDelete(h, ptr, s[1], s[2])
free(h, ptr) == FreeIn(h, ptr, SlabsOf(h, ptr))

(* The result r of malloc with n words copied into it from ptr.            *)
WithCopy(r, ptr, n, source) == [r EXCEPT !.heap = Copy(r.heap, r.ptr, ptr, n, source)]
WithLateCopy(r, ptr, n) == WithCopy(r, ptr, n, r.heap)

(* From a slab: the slot is freed, memory for the new size allocated, and  *)
(* only then the bytes are copied out of the old slot.                     *)
SlabRealloc(h, ptr, size, kind, i) ==
  IF size <= kind /\ (kind = 4 => size > 2) THEN [heap |-> h, ptr |-> ptr]
  ELSE WithLateCopy(malloc(slabDelete(h, ptr, kind, i), size), ptr,
                    IF kind = 2 \/ size <= 2 THEN 2 ELSE 4)

(* Both parts of a block cut in two are in use. *)
Cut(h, b, old, new) == addTags(addTags(h, b, 1, new), b + new, 1, old - new)

(* Mutant: a rest of 16 bytes stays allocated. *)
ShrinkLoses(h, ptr, old, new, size) ==
  LET cut == Cut(h, ptr - 1, old, new)
  IN  Copy(IF old - new > 2 THEN free(cut, ptr + new) ELSE cut, ptr, ptr, size, h)

(* The end is cut off and freed.  Writing the tags clears the first words  *)
(* of the block, which are put back from a copy.                            *)
Shrink(h, ptr, old, new, size) ==
  Copy(free(Cut(h, ptr - 1, old, new), ptr + new), ptr, ptr, size, h)

(* Mutant: no copy is made before the block is freed. *)
GrowInPlace(h, ptr, old, size) == WithLateCopy(malloc(free(h, ptr), size), ptr, old - 2)

Grow(h, ptr, old, size) == WithCopy(malloc(free(h, ptr), size), ptr, old - 2, h)

BlockRealloc(h, ptr, old, new, size) ==
  IF old = new THEN [heap |-> h, ptr |-> ptr]
  ELSE IF old > new THEN [heap |-> Shrink(h, ptr, old, new, size), ptr |-> ptr]
  ELSE Grow(h, ptr, old, size)

ReallocIn(h, ptr, size, slabs) ==
  IF slabs = {} THEN BlockRealloc(h, ptr, SizeOf(h, ptr - 1), BlockSize(size), size)
  ELSE LET s == CHOOSE t \in slabs : TRUE IN SlabRealloc(h, ptr, size, s[1], s[2])
realloc(h, ptr, size) == ReallocIn(h, ptr, size, SlabsOf(h, ptr))

-----------------------------------------------------------------------------
(* mdriver *)

None == [ptr |-> NULL, size |-> 0]
NoCheck == [id |-> NULL, words |-> 0, slab |-> FALSE]
Live == {id \in Ids : blocks[id] # None}
Fill(h, id, ptr, size) == Write(h, [a \in ptr .. ptr + size - 1 |-> Data(id)])

(* The blocks from the first to the last, found by their sizes. *)
NextHead(h, b) == IF b < h.brk THEN After(h, b) ELSE b
Heads(h) ==
  LET head[n \in Nat] == IF n = 0 THEN 2 ELSE NextHead(h, head[n - 1])
  IN  {b \in {head[n] : n \in 0 .. h.brk \div 2} : b < h.brk}

Listed(h, i) == {Chain(h, i)[n] : n \in Places(h)} \ {NULL}

(* Every payload is aligned, no two neighbours are free, and a free block  *)
(* that has room for links is in the list of its size; the lists hold only  *)
(* free blocks.                                                             *)
mm_checkheap(h) ==
  /\ \A b \in Heads(h) :
       /\ (b + 1) % 2 = 1
       /\ After(h, b) < h.brk => Valid(h, b) = 1 \/ Valid(h, After(h, b)) = 1
       /\ Linked(h, b) => b \in Listed(h, getIndex(SizeOf(h, b)))
  /\ \A i \in 0 .. NumLists - 1 : \A b \in Listed(h, i) : Valid(h, b) = 0

(* The slabs there are. *)
SlabPtrs(h) == {h.slabs[s] : s \in Slabs} \ {NULL}

(* Nothing is read between operations but tags, the links of free blocks,  *)
(* bitmaps and the bytes of blocks in use; the other words are forgotten.   *)
Meaningful(h, bs) ==
  LET heads == Heads(h)
      linked == {b \in heads : Linked(h, b)}
  IN  {1} \cup heads \cup {b + SizeOf(h, b) - 1 : b \in heads}
        \cup {b + 1 : b \in linked} \cup {b + 2 : b \in linked}
        \cup (UNION {s .. s + NumMaps - 1 : s \in SlabPtrs(h)})
        \cup (UNION {bs[id].ptr .. bs[id].ptr + bs[id].size - 1 : id \in Ids})
Forget(h, bs) ==
  LET kept == Meaningful(h, bs)
  IN  [h EXCEPT !.mem = [a \in DOMAIN @ |-> IF a \in kept THEN @[a] ELSE Unset]]

Init ==
  /\ heap = [mem |-> [a \in {1} |-> Tag(0, 0)], brk |-> 2,
             lists |-> [i \in 0 .. NumLists - 1 |-> NULL],
             slabs |-> [s \in Slabs |-> NULL]]
  /\ blocks = [id \in Ids |-> None]
  /\ check = NoCheck

(* The driver keeps the pointer r.ptr it got, and the heap is r.heap.      *)
Keep(id, size, r) ==
  /\ r.heap.brk <= MaxHeap + 1
  /\ blocks' = [blocks EXCEPT ![id] = [ptr |-> r.ptr, size |-> size]]

Alloc(id, size) ==
  /\ check = NoCheck
  /\ id \notin Live
  /\ \E r \in {malloc(heap, size)} :
       /\ Keep(id, size, r)
       /\ heap' = Forget(Fill(r.heap, id, r.ptr, size), blocks')
  /\ UNCHANGED check

Free(id) ==
  /\ check = NoCheck
  /\ id \in Live
  /\ blocks' = [blocks EXCEPT ![id] = None]
  /\ heap' = Forget(free(heap, blocks[id].ptr), blocks')
  /\ UNCHANGED check

Realloc(id, size) ==
  /\ check = NoCheck
  /\ id \in Live
  /\ \E r \in {realloc(heap, blocks[id].ptr, size)} :
       /\ Keep(id, size, r)
       /\ heap' = Forget(r.heap, blocks')
  /\ check' = [id |-> id, words |-> Min({size, blocks[id].size}),
               slab |-> SlabsOf(heap, blocks[id].ptr) # {}]

(* The driver has compared the bytes and fills the block anew. *)
Checked ==
  /\ check # NoCheck
  /\ heap' = Fill(heap, check.id, blocks[check.id].ptr, blocks[check.id].size)
  /\ check' = NoCheck
  /\ UNCHANGED blocks

Next ==
  \/ \E id \in Ids, size \in Sizes : Alloc(id, size) \/ Realloc(id, size)
  \/ \E id \in Ids : Free(id)
  \/ Checked

Spec == Init /\ [][Next]_vars

-----------------------------------------------------------------------------
(* Properties *)

Payload(id) == blocks[id].ptr .. blocks[id].ptr + blocks[id].size - 1

(* add_range of mdriver: what malloc and realloc return is aligned, inside  *)
(* the heap and apart from every other block.                              *)
BlocksApart ==
  \A id \in Live :
    /\ blocks[id].ptr % 2 = 1
    /\ Payload(id) \subseteq DOMAIN heap.mem
    /\ \A other \in Live \ {id} : Payload(id) \cap Payload(other) = {}

(* check_index of mdriver: no tag, link, bitmap or copy is ever written     *)
(* over the bytes of a block in use.                                        *)
BytesKept ==
  \A id \in Live \ {check.id} : \A a \in Payload(id) : heap.mem[a] = Data(id)

(* realloc keeps the bytes up to the smaller size.                          *)
ReallocKeepsBytes ==
  check # NoCheck =>
    \A a \in blocks[check.id].ptr .. blocks[check.id].ptr + check.words - 1 :
      heap.mem[a] = Data(check.id)

(* The same of the blocks that do not come from a slab. *)
ReallocKeepsBlockBytes == check.slab \/ ReallocKeepsBytes

(* Coalescing and the lists are right after every operation.  mm_checkheap  *)
(* says so of the real heap, but what it reads is only meaningful if each    *)
(* footer repeats its header and the last block ends at the break, and it    *)
(* misses a block in the list of another size, a block listed twice and a    *)
(* link to the predecessor that is stale.                                    *)
HeapSound ==
  LET linked == {b \in Heads(heap) : Linked(heap, b)} IN
  /\ mm_checkheap(heap)
  /\ \A b \in Heads(heap) :
       LET end == After(heap, b) IN
         /\ end \in Heads(heap) \cup {heap.brk}
         /\ heap.mem[end - 1] = heap.mem[b]
  /\ \A i \in 0 .. NumLists - 1 :
       LET c == Chain(heap, i) IN
         /\ Listed(heap, i) = {b \in linked : getIndex(SizeOf(heap, b)) = i}
         /\ \A n, m \in Places(heap) : c[n] # NULL /\ c[n] = c[m] => n = m
         /\ \A n \in Places(heap) :
              c[n] # NULL => pred(heap, c[n]) = IF n = 0 THEN NULL ELSE c[n - 1]

(* Every allocated block belongs to a trace id or is a slab, every slot in  *)
(* use belongs to an id, and every slab has a slot in use: nothing is lost  *)
(* by splitting, shrinking, moving or freeing, and a slab is given back     *)
(* with its last slot.                                                      *)
Held == {blocks[id].ptr : id \in Live}
NothingLost ==
  LET made == {s \in Slabs : heap.slabs[s] # NULL}
      inUse(s) == UNION {
        {SlotPtr(heap.slabs[s], s[1], j, slot) : slot \in Used(heap, heap.slabs[s], j)}
          : j \in 0 .. NumMaps - 1}
      allocated == {b + 1 : b \in {n \in Heads(heap) : Valid(heap, n) = 1}}
  IN  /\ SlabPtrs(heap) \subseteq allocated
      /\ Held = (allocated \ SlabPtrs(heap)) \cup UNION {inUse(s) : s \in made}
      /\ \A s \in made : inUse(s) # {}
=============================================================================
