# Formal models of the Operating-Sys projects

The repository holds four independent operating-systems projects in C. This
directory holds TLA+ modules translated from their source, TLC configurations
that check them on small instances, and TLAPS proofs of their main invariants.
Paths below are relative to the four project directories; line numbers are in
`PROJECT.json`, whose `map` leads from every definition to the code it stands for.

| project | what it is | main files |
|---|---|---|
| 1 | exercises on the stack, the heap and system calls | `prog*/*.c` |
| 2 | a memory allocator and its trace driver | `mm.c`, `mdriver.c`, `memlib.c` |
| 3 | a simulator of scheduling and virtual memory | `simulator.c`, `gll.c`, `fileIO.c` |
| 4 | a blocking channel between threads, and a word count on it | `que.c`, `buffer.c`, `helper.c`, `driver.c` |

## 1. Inventory

### Project 4, the channel

* **Byte FIFO and framing** (`que.c`, `buffer.c`). State: a ring of bytes
  (`buffer`, `head`, `tail`, `size`) and a second account of the same space,
  `avilSize`. Operations: `fifo_init`, `fifo_read`, `fifo_write`, `buffer_add_Q`,
  `buffer_remove_Q`, `buffer_top_message`. A message is its length (an int) and
  its bytes. Hard: the frame and even its length wrap around the end of the ring;
  two accounts of one quantity; `buffer_top_message` consumes and restores.
  Correct when it is a bounded FIFO of whole messages.
* **Blocking channel** (`helper.c`). State: the FIFO, `isopen`, the mutex
  `chmutex`, the condition variables `chconrec` (where senders wait) and
  `chconsend` (where receivers wait). Operations: `buffer_create`, `buffer_send`,
  `buffer_receive`, `buffer_close`, `buffer_destroy`, called by any number of
  threads. Hard: every wake-up is one `pthread_cond_signal`, sent after the mutex
  is released; close signals once and relies on each woken caller to pass it on;
  the conditions can change between wake-up and relock; messages differ in
  length. Correct when every call takes effect atomically on a bounded FIFO, no
  caller sleeps that could go on, and close releases everybody.
* **Tests and word count** (`driver.c`). Threads that call the channel, with
  joins and semaphores; mapper threads that divide a text and one reducer.
  Correct when the tests' assertions hold in every schedule, the counts are those
  of the text, and everything ends.

### Project 3, the simulator

* **Simulation loop and scheduler** (`simulate`, `processSimulator`, `readPage`,
  `schedulingRR`, `cleanUpProcess`). State: the clock, the end of the quantum,
  the lists of waiting, ready, running and blocked processes, and per process
  its trace, the rest of an instruction or of a disk transfer (`fracLeft`) and its
  times. Hard: instructions cut short by the quantum or a disk interrupt and
  continued or repeated; processes moving between lists inside loops; the time of
  the operating system passing between a decision and its use; unsigned times.
* **Demand paging** (`diskToMemory`, `getVPN`, `DRAMadd`, `TLBadd`, `TLBdelete`,
  `TLBflush`). State: frames with timestamp and page, TLB entries, page tables,
  clock hand. The loop calls it at three places. Correct when tables, frames and
  TLB agree after every eviction, switch and exit.
* **Multi-level page tables** (`findPTE`, `addPTE`, `deletePTE`, the freeing loop
  of `cleanUpProcess`). Trees of one to three levels, allocated when needed and
  freed when empty. Correct when they answer like a map and leave nothing behind.
* **Lists, parsing, statistics** (`gll.c`, `fileIO.c`, printing).

### Project 2, the allocator

* **Blocks** (`malloc`, `free`, `realloc`, `addTags`, `getBlockInfo`, `listAdd`,
  `listDelete`). State: the heap of words with boundary tags and links, and 36
  segregated lists. Hard: all state is in the memory the callers also write to;
  long sequences of calls; a rest of 16 bytes that no list can hold; links read
  before a neighbour changes them.
* **Slabs** (`slabAdd`, `slabDelete`). Bitmaps of slots for requests of 16 and 32
  bytes, in memory from `malloc` and given back with `free`.
* **Trace driver** (`mdriver.c`, `stree.c`, on `memlib.c`). State: the blocks of the
  trace, what every block was filled with, and one record for each block, kept in
  a splay tree by address and chained to its neighbours. Operations:
  `eval_mm_valid` twice, with `add_range`, `remove_range`, `randomize_block` and
  `check_index`. Hard: one record in three structures; rotations and removals that
  move links nobody follows until later; two checks (ranges and data) of which
  each sees only a part; what the first of two runs leaves to the second. Correct
  when a good allocator is never refused and a bad one never passes.
* **Timing** (`fcyc.c`). The K shortest of a number of samples. Correct when the
  result is the shortest time and the K are the K shortest.

Interaction: none between projects. In project 4 `driver.c` calls `helper.c`,
which calls `buffer.c` under the mutex, which calls `que.c`. In project 3 one
thread calls everything. In project 2 `mdriver.c` calls `mm.c`, which calls
itself (slabs are allocated and freed with `malloc` and `free`) and `memlib.c`.

## 2. Modules

```
MessageFifo  <-- FifoRing <- FifoRingProofs                   project 4
Channel      <-- BufferChannel <- ChannelDriver
                 BufferChannel <- BufferChannelProofs
WordCount     <- WordCountProofs     (on the atomic channel)
Paging       <-- Simulator                                   project 3
Paging        <- PageTree <- PagingProofs
Simulator     <- SimulatorProofs (an instance of PagingProofs in it)
Allocator     <- AllocatorProofs                             project 2
RangeSet      <- TraceCheck,  KBest <- TraceCheck
RangeSet      <- RangeTree
TraceCheck   <-- TraceDriver (extends TraceCheck and RangeTree)
TraceDriver   <- TraceDriverProofs (also of RangeSet, RangeTree, TraceCheck, KBest)
```
`<--` is a refinement checked by a run, `<-` is EXTENDS. The `MC*` modules give
the constants for TLC.

**FifoRing** has one action for each operation of `buffer.c`, which calls the
byte-by-byte loops of `que.c` as operators: `FifoWrite` and `FifoRead` stop at a
full or empty ring as the loops do, and `AsLength` decodes the length int from
the bytes that are really there. **MessageFifo** is a sequence of messages with a
byte bound; `ImplementsMessageFifo` refines to it by reading the frames off the
ring without consuming them (`FrameStart`, where each begins; `MessageAt`, what it holds).

**BufferChannel** takes the queue as a sequence of messages with `avilSize` and
models the threads. `pc` says where a thread is in `helper.c`: taking the mutex
(`Lock`, `Relock`), the critical section up to the release or the wait (`Send`,
`SendRecheck`, `Receive`, `ReceiveRecheck`, `Close`, `Destroy`), and each signal
after the release (`SignalReceiver`, `SignalSender`, `ClosedSignal...`). A section
under the mutex is one step, since nothing it touches is touched without the
mutex; the release and the signal that follows it are two. Wake-ups nobody
signalled, which POSIX allows, are `SpuriousWakeup`. **Channel** is what
`buffer.h` promises, one atomic action per call; the refinement lets a call take
effect in its critical section. **ChannelDriver** runs the nine channel
tests of `driver.c` as programs of `BufferChannel`: `pthread_create`, `pthread_join`
and `sem_wait` are the call `await`, and `TestsPass` holds what the tests assert, at
their end and on the way. **WordCount** has the mappers, the reducer and the main
thread's joins on the atomic channel, and the text functions as operators.

**Simulator** turns the loop of `simulate` into phases (`pc`): the slice, the
instructions in it (`ReadNonMem`, `TLBHit`, `TLBMissCutShort`, `PageHit`,
`PageFault`, `TraceEnds`), arrivals, `diskToMemory` at its three call sites,
settling, scheduling and idling. The clock is the program's clock, so an action
adds the latencies the code adds. `PlacePage` is `DRAMadd` with both replacement
policies and `addPTE`; that LRU evicts nothing from a frame with timestamp 0 is the
free frame of the model, since no page is ever stamped 0 (`NoFutureTimestamp`). The list of running processes holds at most one process
and is modelled as that process. **Paging** keeps only what the memory holds (page
tables, frames, valid TLB entries) and leaves timing and the choice of victims
open; `ImplementsPaging` shows that Simulator implements it. **PageTree** runs
Paging's operations on the trees of tables beside the flat table.

**Allocator** keeps the heap as words, and its operators (`addTags`, `listDelete`,
`BlockMalloc`, `slabAdd`, `BlockFree`, `Shrink`, ...) read and write the words as the C
functions do. The actions are the driver's (`Alloc`, `Free`, `Realloc`, and `Checked`
after it looked at the bytes). Words nothing reads again (the inside of freed
blocks) are forgotten after each operation to keep the state space finite;
`realloc`, which does read freed words, runs before they are forgotten.
`mm_checkheap` is the walk of the heap and the lists that `mdriver.c` asks for;
`HeapSound` demands it and what it takes for granted.

**TraceCheck** is the other side: `eval_mm_valid`, twice, with an allocator that
may return any address of the heap and beyond, or lose bytes when it moves a
block; `faults` records what it did wrong. A trace is any sequence of requests
that frees what it allocates. `memory` says for each unit which block's data was
last written there, since the driver gives every block new random data. A realloc
is two steps, `ReallocFrom` up to `remove_range` and `ReallocTo` from `add_range`
on; everything else is one. **RangeSet** has the records and their links. In both
the answer of `tree_find_nearest` is a parameter, `near`, and the specification asks
only that it is the nearest record (`Finds`). **RangeTree** is `stree.c`, link by link,
a tree being a record of its root and three functions from keys to keys (a `while` loop
is `Rounds` of the operator that is one round of it), and
**TraceDriver** is TraceCheck with that tree: it asks the tree, inserts and removes.
`ImplementsTraceCheck` says that whatever the splay tree answers is what TraceCheck
asks for, so all that is proved of TraceCheck holds of the driver with its tree.
**KBest** is the sampler of `fcyc.c` and the loop around it, run when the verdict is
"valid".

## 3. Runs

| run | instance | shows |
|---|---|---|
| `fifo_ring` | 26 bytes, frames of 8, 10, 11 | the ring is a bounded FIFO of messages |
| `channel_uniform` | programs of 3 threads with two calls each, one length, and the tests of `driver.c` with up to 4 workers; one spurious wake-up | nobody is forgotten, close releases all (liveness), the tests pass and end in every schedule |
| `channel_mixed` | 3 threads, two calls each, two lengths | atomicity, space, close wakes every waiter |
| `channel_forgotten` | one program, two lengths | **violation**, finding 1 |
| `word_count` | all short texts, 1 to 3 mappers; serial texts that fit the channel or do not, with and without "splmsg" | counts are right, nothing lost, it ends unless `serialize` has too much input or no "splmsg", and then it does not |
| `simulator` | 2 processes, traces of 3 and 2 instructions, 2 frames, TLB of 1, both policies | lists, times, memory, termination, refinement of Paging |
| `simulator_overshot` | the same without misreads | **violation**, finding 2 |
| `page_tree` | 5 of 8 pages, 3 frames, 2 processes, all depths | trees answer like maps and are freed; tables, frames and TLB agree |
| `allocator` | 3 ids, sizes 16, 32, 48 and 88 bytes, heap of 30 words | blocks, bytes, tags, lists, slabs |
| `allocator_realloc` | the same | **violation**, finding 3 |
| `trace_driver` | 4 block addresses, one misaligned and one behind the heap, sizes 1 and 5 on 10 units, `maxfill` 1, both debug modes; K = 3 of 5 samples | tree and list are sound, the verdict is right, the tree finds what TraceCheck asks for, the samples are the best |
| `trace_list` | the same with a fifth aligned address | **violation**, finding 4 |

The bounds, and why the interesting cases happen within them:

* *FifoRing*: frames of 8, 10 and 11 bytes in 26 wrap at every offset, and
  8 + 8 + 10 meets the capacity exactly, the boundary of the test `<`.
* *BufferChannel*: three threads are the fewest for which a signal can go to the
  wrong one of two waiters while a third acts, and two calls each let a thread
  return to the channel after another's signal. `Programs` holds every assignment
  of calls up to renaming of threads. `MaxSpurious` is 1: a second stray wake-up
  finds the same situations. The liveness run has no symmetry.
* *ChannelDriver*: the tests' ten and more workers become three or four. The
  assertions count the calls that beat the close, of which there are two in each
  test, or need as many served calls as workers; more workers repeat their steps.
  `usleep` is left out: the tests must not depend on it.
* *WordCount*: texts of five and six characters over a letter, a capital, a full
  stop and a space contain all the ways a word can meet the end of a part. The serial
  texts fit the 30 bytes of the channel, meet them exactly (which is one too many), or
  lack "splmsg"; the last two block `serialize` for ever, as PipelineEnds states.
* *Simulator*: a quantum of 8 cuts NONMEM instructions of 5 and memory accesses
  of 3 to 5, after a switch of 2; a transfer takes 30, so it spans several slices.
  Start times 0 and 25 make the second process arrive during the first one's
  transfer or with it. Two frames and two pages of two processes force evictions,
  of one's own pages, of the other's and of a finished process's. Times are
  modulo 2^16; `MaxTime` bounds the clock behind an overshot transfer, which
  otherwise counts down from 2^16. Addresses are 3 bits on pages of two bytes and
  `Radix` is 2, so a stray digit is a stray bit; `MaxMisreads` is 1.
* *PageTree*: pages 0, 1, 2, 4, 7 share a last-level table, a second-level table
  or nothing, in every split of 3 bits.
* *Allocator*: slabs are two bitmaps of one slot, one slab for each size, so full
  slabs, new slabs and emptied ones all occur with three blocks; block sizes of
  4, 6, 8 and 14 words leave rests of 2 words (no room for links) and more, in 6
  lists. `MaxHeap` = 30 words ends traces that would need more memory.
* *TraceDriver*: up to four records at a time (the run has four aligned addresses in
  the heap) make every case of `splay`, and of `tree_remove` those in which the successor of
  the removed node is its child or a leaf below it; a deeper successor with a subtree
  of its own, beside a left child, needs five records and is left to the proof (`TreeHolds`). Blocks of 1 and 5 units overlap from below, from above and wholly; with
  `maxfill` 1 a block of 5 has an unfilled middle. `Answers` bounds the allocator to one
  wrong answer in a trace: with two, a second one can restore what the first
  destroyed, and the driver rightly sees nothing. Traces free all they allocate,
  as every trace of the repository does, and `DBG_NONE`, with which the driver
  checks nothing, is left out.

**Fairness.** `BufferChannel` assumes weak fairness of every thread's next step: a
thread that can run is run. Nothing more is asked of the mutex, since pthreads
promise no thread its turn, and spurious wake-ups are not fair. `WordCount` and
`Simulator` assume weak fairness of the whole next-state relation or of each
thread in the same sense; the simulator is one thread that only has to keep
running. No liveness is claimed from an environment that must act.

Runs with `CHECK_DEADLOCK FALSE` are those whose system really ends (programs
run out, the simulation is done) or may stop at a bound.

## 4. Findings

1. **A sender can be forgotten** (`helper.c:87`, run `channel_forgotten`). A receive
   signals one sender. If that one's message still does not fit it waits again
   without passing the signal on, and another sender whose shorter message would
   fit sleeps for ever. `buffer.h:41` promises that a send waits till there is
   space. With frames of one length the property holds (`channel_uniform`).
2. **A transfer can be overshot** (`simulator.c:1044`, run `simulator_overshot`). The
   due time of a transfer is a stop time only while a program runs; the trap of
   another page fault or a context switch moves the clock past it, the unsigned
   `fracLeft` wraps, and the page does not arrive. With the parameters of
   the run nothing else keeps the simulation from ending (`EndsUnlessOvershot`).
3. **realloc of a slab slot can lose its bytes** (`mm.c:823`, run
   `allocator_realloc`). The slot is freed and new memory allocated before the
   bytes are copied; freeing the last slot of a slab frees the slab, and tags,
   links or a bitmap are written over the bytes. On the real program, `malloc(16)`
   and `realloc` to 48 bytes on a fresh heap gives zeros. Blocks outside slabs keep
   their bytes (`ReallocKeepsBlockBytes`).
4. **The range list loses records** (`mdriver.c:710`, run `trace_list`). `add_range` takes
   the successor of a new record from its predecessor. A block below all others
   has none: it is compared with nothing, starts a chain of its own and becomes
   the head, and the list reaches the other records no more. An allocator that
   lets this block reach into the next one is not refused there, and the walk
   over "all our allocated blocks" (1063) skips the records that fell out.
   `VerdictRight` shows that the data catches the overlap by the end of the trace,
   if both blocks are filled where they meet; `LinksSound` that no link ever leads
   to a freed record.

Two remarks that no run of its own shows. `getVPN` (`simulator.c:468`) converts an
8-byte buffer without terminator, so two calls for one address may differ and a
process is unblocked although its page is not there; it faults again, and no
process is lost (`NoProcessLost` holds with `MaxMisreads` = 1). `eval_mm_valid` says
that it frees the records of the range list (`mdriver.c:1039`) and does not: a trace
that leaves blocks would have them taken for overlaps in its second run.

## 5. Proofs

The proofs hold for every value of the constants under the named assumptions of
the modules (`ChannelAssumption`, `PagingAssumption`, `TreeAssumption`, `SimulatorAssumption`,
`AllocatorAssumption`, `RangeAssumption`, `CheckAssumption`).

**BufferChannelProofs**
* `TypeCorrect`: `Spec => []TypeOK`. TypeOK is not inductive: a receive gives
  `queue' = Tail(queue)`, which is only defined when the queue is not empty,
  while the code looks at `avilSize`. The invariant `TypeInv` adds `CallInv` (a thread
  inside a call is running it) and `Accounted` (there is a function that goes from
  `avilSize` to `Size` adding one frame per message), which says what
  `SpaceAccounted` says without a recursive sum.
* `LockDisciplineHolds`: `Spec => []LockDiscipline`, inductive with TypeOK.
* `CloseWakesAllHolds`: `Spec => []CloseWakesAll`, inductive with TypeOK; the
  interesting step is a woken caller, which inherits the duty to signal.

  Then why one `pthread_cond_signal` per call is enough:
* `NoReceiverForgottenHolds`: `Spec => []NoReceiverForgotten`. Inductive with `TypeInv`:
  a receiver only starts to wait when everything is free, and `AllFreeIsEmpty` shows
  from `Accounted` that the queue is empty then.
* `EmptyQueueWakesSenderHolds`: under `FramesFit` (every frame is smaller than the
  buffer), `Spec => []EmptyQueueWakesSender`. Without it a sender waits for ever
  on an empty channel, which no caller does.
* `BlockedSenderHasNoSpaceHolds`: where all frames have one length,
  `Spec => []BlockedSenderHasNoSpace`, by the invariant `SpokenFor`: while a sender waits,
  the free bytes are at most one frame more than the senders coming will use.
  Finding 1 (run `channel_forgotten`) shows that the assumption is needed.

  And that the channel is what `buffer.h` promises:
* `SpaceAccountedHolds`: `Spec => []SpaceAccounted`. `UsedBytesIs` goes from `Accounted` to
  the recursive function `UsedUpTo` of Channel: the account is a solution of its
  equation, and `SameGrowth` shows that there is only one.
* `ImplementsChannelHolds`: `Spec => ImplementsChannel`, the refinement of the atomic
  channel, for all threads, programs and frames. `StepSeen` maps every step: the body
  of a critical section to a call of Channel (`SendOrWaitSeen`, `ReceiveOrWaitSeen`,
  `RefuseSeen`), everything else to a stutter (`ReturnedSame`). It needs `PlaceInv`: a
  thread's place belongs to the call it makes, and only a closed channel is freed.

  And that nobody is left in the channel when its memory goes:
* `NoUseAfterDestroyHolds`: under `JoinsBeforeDestroy`, `Spec => []NoUseAfterDestroy`.
  `buffer_destroy` looks at `isopen` only, so its callers have to do something for it:
  it is called where no thread can have closed the channel yet (and is refused), or after
  the calls of the others were awaited. ChannelDriver assumes this of its programs, and TLC
  evaluates the assumption in the three channel runs. The invariant `EndInv` says that a
  closed channel was closed by a call, a freed one by a last call, and that what was
  awaited has happened. `AwaitedAll`: an await whose count is that of the threads able
  to make so many calls has seen every one of them make them.

**FifoRingProofs**, for every capacity, every size of an int, all messages and
every history:
* `RingTypes`, `SpaceAgreed` (`Spec => []CountersAgree`) and `MessagesInOrder`
  (`Spec => ImplementsMessageFifo`). The inductive invariant `RingInv` says that there are
  messages whose frames fill the ring from tail to head, one behind the other, and that
  avilSize is what they leave (`Encodes`). CountersAgree alone is not inductive: a remove
  reads as many bytes as the ring says, so the lengths stored must be known to be those of
  the messages behind them.
* `WriteAppends` and `ReadTakes` say what the byte loops do around the end of the buffer,
  by the remainders of SetInduction; `AddEncodes`, `RemoveEncodes` and `PeekedIs` lift that
  to frames; `Holds` shows that reading the frames off the ring yields the messages, so
  that `AddRing`, `RemoveRing` and `TopRing` are the steps of MessageFifo. That
  `buffer_top_message` leaves the ring as it was is `PutBack`: it counts exactly the bytes
  it moved, which again needs whole frames.

**SetInduction** states induction over the natural numbers of a set instead of a
predicate, derived from the well-foundedness of `<`, and recursion of a function given by
its step (`NatRecursion`, by which `Peeked`, `FrameStart` and the like have the values of
their equations); then facts on remainders (`RemainderInSum`). `AllFreeIsEmpty`,
`SameGrowth`, FifoRingProofs and AllocatorProofs use it.

**PagingProofs**, first of the flat page tables
* `MemoryTypes`, `TablesInverse`, `TLBAlwaysCoherent`. The inductive invariant is the
  conjunction `Consistent`. With the refinement proved in SimulatorProofs they hold
  of the simulator's own TLB, tables and DRAM. `TLBCoherent` needs `FramesMatchTables`: `TLBdelete` looks
  only at the page number, so it must be known that a load changes no other entry
  of the running process's table; `FramesMatchTables` needs the liveness set, as
  frames of finished processes keep their pages until they are taken.

and then of the trees, for every split of the page number over one to three levels
(`TreeAssumption`: a level that is not used has no bits)
* `TreesTranslate` and `TreesLeakNothing`: `TreeSpec => []Translates` and `[]NothingLeaks`.
  Neither is inductive: that findPTE answers rightly now says nothing of the tables an
  eviction may free. The invariant `TreeInv` says for every process that its tree
  represents its page table (`Represents`): the entries are those of the mapped pages, every
  table on the way to one is there (`Complete`), and no other but the top-level one
  (`InUse`); a finished process has no tree. It needs TypeOK and FramesMatchTables,
  since DRAMadd deletes the entry that the frame names.
* `PathsDiffer`: the shifts and subtractions of Path lose no bit, so two pages never share
  an entry. `NodesMeet` is what the rest needs of sequences: where the paths of two pages
  meet. `AddRepresents` is addPTE: a table that was missing is above nothing mapped.
  `DeleteRepresents` is deletePTE in three steps, from `TakeOut`, where the tables of the page
  may be left over (`Almost`), over two calls of `FreeOneLevel`, each of which frees the
  table at its depth or finds it in use. `FreesAll` is cleanUpProcess.
* `TreesArePaging`: `TreeSpec => Spec` of Paging.

**WordCountProofs**, for every text, number of mappers and capacity of the channel
* `NoWordLostHolds`: `Spec => []NoWordLost`. At the beginning it says that `dividefile` loses no
  word (`DivideKeepsWords`): a part ends at a separator or where the text ends (`PartEndIs`),
  words read on both sides of a space are the words of the whole (`WordsJoined`), and so,
  part by part, the sum over the parts is the whole text. Functions by recursion over
  the positions (what is read, where parts end, the sum) exist by `RecursionUpTo`. Then one
  step moves one key: `ChangeOfSum` takes it out of a mapper's part, `OccurrencesAppend` and
  `OccurrencesTail` put it into the channel and out of it.
* `CountsCorrectHolds`: `Spec => []CountsCorrect`. The invariant `WordInv` adds to the
  conservation (`Conserved`) the order of the messages (`Ordered`): in the parallel form
  splmsg is last, behind idle mappers; in the serial form the text is what was counted,
  then the channel, then what is still to be sent. With conservation the counts
  follow: `CountsInParallel` because nothing else is left, `CountsInSerial` because what is
  left is the text behind splmsg. The one assumption beyond the types is
  `NoSpecialInTexts`: the input of the parallel form does not hold the word splmsg, as
  `input.txt` does not; with it the Reducer stops while mappers still send.

**SimulatorProofs**
* `SimulatorTypes` and `NoneLost`: `Spec => []TypeOK` and `[]NoProcessLost`, for every number
  of processes, traces and arrival times, every DRAM and TLB, both replacement
  policies. The inductive invariant `IInv` has five parts. `Clock`: times are words
  and the next instruction is in the trace or one past it. `MemoryTyped`: valid TLB
  entries and tables name frames. `Lists`: the lists of processes are disjoint and
  free of repetitions, and the running process is in none. `Control`: in each phase of
  `simulate`, who runs and why it stopped. `Finished`: a process in no list has ended its
  trace and has an empty page table. TypeOK alone is not inductive: a trace is read
  at `next` because a process runs in the phase "run", which is Control; that
  process is not blocked or ready as well, which is Lists.
* `PagingImplemented`: `Spec => ImplementsPaging`, step by step (`PagingStep`): `PlacedIsLoad` takes
  `DRAMadd`, `TLBdelete` and the two changes of page tables to one Load, `AddFills` the
  TLB's replacement to one Fill, and a stamp is no step (`AccessKeepsHeld`).
  `SimulatedMemoryConsistent` then instantiates PagingProofs: frames and tables agree
  and no TLB entry is stale, in the simulator.
* `UserTimeBounded`: `Spec => UserTimeWithinSlice`.
* `TransfersTakeTheirTime`: `Spec /\ []NoOverflow => DiskTakesItsTime`. `NoOverflow` says that the
  times, and what is left of the transfer read as a signed number, stay below a
  quarter of the range of the words (2^62); past that the unsigned differences of
  `diskToMemory` mean something else. The invariant is `TransferDue`: what is left for the first
  blocked process, counted from the last stop of the disk or from the fault, ends no earlier
  than `Swap_latency` after the fault, and no other transfer has begun. `TimeTaken` shows
  that the words lose nothing, although time may go back in the idle loop.

**AllocatorProofs**, for every number and size of slabs, every set of requested sizes and
every trace (`AllocatorAssumption`: a slab is larger than what it serves, as the requests for
a slab must not end in one; its bitmaps are an even number of words; and every size of a
block has a list, as 36 lists have for 2^40 bytes. `MaxHeap` may be any number)
* `BlocksApartHolds`, `BytesKeptHolds`, `ReallocKeepsHolds`, `HeapSoundHolds`, `NothingLostHolds`:
  the five properties of the run, all from one invariant, `Inv` (`InvHolds`), in layers as in
  the code. None of the five is inductive: that blocks are apart says nothing of the block
  that the next `malloc` takes from a list.
* Blocks. `Whole`: there are a set B of heads and sizes s that fill the heap one behind the
  other (`Shape`), a set A of blocks in use, tags that say so (`Tagged`), no two free
  neighbours, and the free blocks with room for links are in the lists of their
  sizes (`Lists`). The functions break this halfway, so most lemmas are about `Loose`, a heap
  in which some blocks X are in the making: neither in use nor in a list, with tags nobody
  vouches for. `Unlisted`, `Joined`, `Parted`, `TaggedUsed`, `TaggedFree`, `Extended` are the moves
  between such heaps; `BlockFreeIs` (coalescing), `TakeIs`, `ExtendIs`, `BlockMallocIs`, `CutIs` put
  them together. The word before the first block, which `free` takes for a footer, is
  part of `Loose`.
* Lists. `Linking` says locally what a doubly linked list is; a rank that falls along
  the links keeps it from being a ring. `LinkingWithout` and `LinkingWith` take a block out and put one
  in front, `UnlinkLinks` and `AddLinks` that `listDelete` and `listAdd` do so. `OrdersIs`: a chain that is
  followed from the head passes every block of the list once, and `InOrderIs` that it ends
  within `Places`; so the best fit of `malloc` is the best (`BestIs`).
* Slabs and cells. A slab is in a block of its own with a slot in use (`SlabSound`). `Cells` are what
  the program is given: the payload of blocks and the slots in use. `Holds` (a heap in
  order with these cells) is all that remains to be known above; `CellsApart` says that cells do not
  meet. `FreeIs`, `MallocIs` and `ReallocIs` are contracts: one cell less, one more of
  the size asked for, one exchanged for another with the bytes of the first, if
  that was a block; the words of the other cells are untouched and the heap is in order again.
  For a slot `ReallocIs` says nothing of the bytes: finding 3.
* The driver. `Matched`: the cells are those of the ids, one for each, large enough; `Bytes`: they hold
  the data of their id. `ForgetKeeps` shows that the words the model forgets matter to none
  of this.

**TraceDriverProofs**, first of the range list
* `LinksSoundHolds` and `NoFalseOverlapHolds`: `RangeSpec => []LinksSound` and
  `[]NoFalseOverlap`, for every heap, every set of sizes and every order of additions
  and removals. The invariant is `RangeInv`: the types, `CoversItself` (a record ends
  no earlier than it begins) and LinksSound itself. Adding has two cases, as in
  the code (`LinkFirst`, a chain of its own, and `LinkBehind`), removing one
  (`Unlink`); `StoreLink` and `TwoStores` say what stores through two pointers that may
  be equal or NULL leave in a field.

and then of the verdict, for every heap, trace, size of blocks and `maxfill`, every allocator
with at most one wrong answer in a trace, and both debug modes
* `VerdictIsRight`: `CheckSpec => []VerdictRight`. That the verdict is right when it falls
  depends on all that happened before: the invariant `CheckInv` says for a running
  trace that the records are the blocks (`Bookkeeping`), that a fault the driver has to
  find is still to be seen (`Evidence`: an overlap in the data of a block that will be
  freed or moved, a garbled copy in the units that `check_index` looks at next), and
  that without a fault all data is there (`Innocence`). An overlap becomes a fault only
  when `add_range` looks at the new block, but `mm_realloc` has then already copied into
  it; `Innocence` excepts the blocks that the copy meets.
* The steps: `FilledBeside` (an accepted block either shares no filled unit with the others or
  destroys data of one), `CopyOther` and `CopiedCells` (what `mm_realloc` leaves of the
  data), `FirstFilledMoved` (the units looked at after a copy were filled before it),
  `RefusedIsFault` (from NoFalseOverlap: `add_range` refuses no good block),
  `WalkInside` (the walk along the list meets live records only) and `EndTraceStep`
  (a trace that holds no block any more has nothing left to hide).
* `RangesAreBlocks`: `CheckSpec => []RangesOfBlocks`. `CheckKeepsRanges`: `CheckSpec => RangeSpec`,
  so that the two theorems about the range list hold of the driver's list.

of the sampler
* `BestSamplesHeld`: `CheckSpec => []BestSamples` for every K, limit of samples and clock: what
  is kept are the shortest times measured so far, in order, and when `fsec` stops.
  The invariant `SamplerInv` names for each kept value the sample it is.

and of the splay tree, for every heap and every order of requests
* `TreeHolds`: `Spec => []TreeHoldsRanges`, `TreeImplements`: `Spec => ImplementsTraceCheck`, and
  `DriverVerdict`: `Spec => []VerdictRight`, the verdict of the driver with its tree. The invariant
  is `TreeInv`: CheckInv, RangeInv and `HasIntervals`, which gives every node of the tree
  an interval `low[z]..high[z]` holding the keys below it. What a parent and a child
  know of each other is `Search` (the child's interval is the part of the parent's
  on its side of the parent's key; where a child is missing that part has no key, `Gap`).
  A statement about paths would need induction over the shape of the tree; intervals
  are local, so a rotation changes those of two nodes (`RightRotateKeeps`,
  `LeftRotateKeeps`), and `LiftKeeps`, `RoundKeeps`, `SplayKeeps` follow.
* `SubtreeIs`, `SearchTree`: intervals imply that the whole is a search tree of exactly
  the records (`IsTreeOf`), by induction on the length of an interval.
* The loops: `Rounds` allows as many rounds as there are addresses. `RoundsLead` and
  `LoopEnds` show that this is enough for any loop whose rounds shrink a finite
  set, and `LiftLess` and `InnerSmaller` that those of `stree.c` do.
* `FindsNearest`: the descent and the step back along the list find the nearest record.
  `InsertKeeps` (`LeafKeeps`), `RemoveKeeps` (`RemoveRootIs`, with `RightChildUp`, `LeftChildUp` and
  `MinimumUp` for its three cases): the tree holds the keys it should afterwards.

Only model-checked: all liveness (the prover has neither ENABLED nor fairness),
and `TestsPass`, which holds because of the programs. Of Simulator, `WorkDone` is a sum
over a trace (induction over data), and `NoFutureTimestamp` was left to TLC because no
invariant was found for it: WaitForDisk may set the clock back to a time that is due, and
that no stamp lies beyond that depends on how long the slices since the fault were.

## 6. Not modelled

* Project 1: separate exercises without a state of their own.
* In project 2 `calloc` (malloc and memset, called by nobody), clocks and scoring, the
  choice of repetitions in `fcyc.c`, and in `mdriver.c` trace parsing, the
  utilisation and libc evaluations, the timeout (off by default; its `longjmp` may
  leave the range list half linked, which is then freed) and printing; failure of
  `mem_sbrk`, which `malloc` does not look at;
  `realloc(p, 0)`, which returns a pointer where `mdriver.c:1109` wants NULL and
  can make a first block of 16 bytes with `getIndex(16) = 255`: no trace does it.
* In project 3 parsing (`fileIO.c`, whose result is the constant `Workloads`),
  statistics, reports and `gll.c`'s nodes. Notes from reading: `readPage` adds to
  `numberOfContextSwitch` where the comment says disk interrupts (line 244); the
  idle loop skips time that `OSTime` does not count (1193-1197); a TLB latency
  above 1 could wrap `timeAvailable` (181); the first process must arrive at 0
  (1076); frames of finished processes are not freed but taken over later;
  `schedulingRR` pushes a node without a process when nothing is ready, which
  `gll_first` then reports as an empty list.
* In project 4 the CPU-time measurements, `test_initialization` (a look at the state
  after `buffer_create`), the buffer all receivers of one test share, messages
  whose frame is larger than the buffer (no caller has one), words of punctuation only, which are counted as key "1" with value -1,
  words of more than the 61 letters `wordKV` has room for (driver.c:845), and
  `buffer_top_message` beside concurrent calls (only tests at rest call it).

## 7. Plan

1. Done: FIFO, channel and its tests, word count, simulator, paging, page trees,
   allocator, trace driver with its range list, splay tree and sampler, and the
   proofs above.
2. Model next: `gll.c` at the level of nodes as a sequence; an abstract heap (a map
   from ids to bytes) that Allocator implements; a Simulator run with a TLB of two
   entries and three processes.
3. Prove next: of Simulator that no stamp lies in the future; of ChannelDriver that the
   tests pass with other buffer sizes.
