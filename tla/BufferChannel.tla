---------------------------- MODULE BufferChannel ----------------------------
(***************************************************************************)
(* The blocking channel of helper.c: a mutex (chmutex), a FIFO of messages *)
(* bounded in bytes, and two condition variables.  Senders that find no    *)
(* room wait on chconrec, receivers that find no message wait on chconsend; *)
(* every wake-up is a single pthread_cond_signal, sent after the mutex is  *)
(* released.  Threads make the calls of a program chosen initially.        *)
(*                                                                         *)
(* The critical sections are two steps, taking the mutex and the body that *)
(* ends by releasing it or waiting; the signals are steps of their own.    *)
(* The FIFO is held as a sequence of messages and its avilSize, which      *)
(* FifoRing shows the byte ring to implement.                              *)
(***************************************************************************)
EXTENDS Integers, Sequences, FiniteSets

CONSTANTS
  Threads,        (* the calling threads                                   *)
  Payload,        (* the messages                                          *)
  FrameLen,       (* FrameLen[m] = get_msg_size(m)                          *)
  Size,           (* buffer_create's capacity in bytes                     *)
  SpecialMessage, (* the string "splmsg"                                   *)
  Programs,       (* the calls the threads may make, in order              *)
  NoThread,       (* nobody holds chmutex                                  *)
  MaxSpurious     (* bound on wake-ups nobody signalled                    *)

(* Every call a program may contain: the functions of buffer.h, and the    *)
(* callers' own pthread_create, pthread_join and sem_wait: an await until  *)
(* count of the threads of have returned from their first calls calls.     *)
Call ==
  [op : {"send"}, msg : Payload] \cup [op : {"receive", "close", "destroy"}]
    \cup [op : {"await"}, of : SUBSET Threads, calls : Nat, count : Nat]

ASSUME ChannelAssumption ==
  /\ IsFiniteSet(Threads)
  /\ NoThread \notin Threads
  /\ Size \in Nat
  /\ FrameLen \in [Payload -> Nat \ {0}]
  /\ Programs \subseteq [Threads -> Seq(Call)]
  /\ MaxSpurious \in Nat

VARIABLES
  program,        (* program[t]: the calls thread t makes                  *)
  isopen,         (* state_t.isopen                                        *)
  queue,          (* the messages held by fifoQ                            *)
  avilSize,       (* fifoQ->avilSize                                       *)
  freed,          (* buffer_destroy has released the memory                *)
  mutex,          (* the holder of chmutex                                 *)
  pc,             (* where each thread is                                  *)
  pending,        (* pending[t]: the status t returns after its signals    *)
  results,        (* results[t]: what the calls of t returned so far       *)
  spurious        (* wake-ups nobody signalled so far                      *)

vars == <<program, isopen, queue, avilSize, freed, mutex, pc, pending,
          results, spurious>>

Statuses == {"SUCCESS", "CLOSED_ERROR", "DESTROY_ERROR", "SPECIAL_MESSAGE"}
Result(status, msg) == [status |-> status, msg |-> msg]
Status(status) == Result(status, "none")
Results == [status : Statuses, msg : Payload \cup {"none"}]

(* Waiting: blocked in pthread_cond_wait.  Woken: out of the condition     *)
(* variable's queue, still to take the mutex again.  Critical: holding it. *)
SenderWaiting == {t \in Threads : pc[t] = "sendWait"}
ReceiverWaiting == {t \in Threads : pc[t] = "receiveWait"}
Woken == {"sendWoken", "receiveWoken"}
Critical == {"send", "sendRecheck", "receive", "receiveRecheck", "close", "destroy"}
Signals == {"signalReceiver", "signalSender", "closedSignalSender", "closedSignalReceiver"}
PC == {"idle", "sendWait", "receiveWait", "freeing"} \cup Woken \cup Critical \cup Signals

Running(t) == Len(results[t]) < Len(program[t])
CallOf(t) == program[t][Len(results[t]) + 1]
Return(t, result) ==
  /\ pc' = [pc EXCEPT ![t] = "idle"]
  /\ results' = [results EXCEPT ![t] = Append(@, result)]
Goto(t, label) == pc' = [pc EXCEPT ![t] = label]

Received(m) ==
  Result(IF m = SpecialMessage THEN "SPECIAL_MESSAGE" ELSE "SUCCESS", m)

Init ==
  /\ program \in Programs
  /\ isopen = TRUE
  /\ queue = <<>>
  /\ avilSize = Size
  /\ freed = FALSE
  /\ mutex = NoThread
  /\ pc = [t \in Threads |-> "idle"]
  /\ pending = [t \in Threads |-> Status("SUCCESS")]
  /\ results = [t \in Threads |-> <<>>]
  /\ spurious = 0

-----------------------------------------------------------------------------
(* pthread mutex and condition variables *)

Acquire(t, label) ==
  /\ mutex = NoThread
  /\ mutex' = t
  /\ Goto(t, label)

Release == mutex' = NoThread

(* pthread_cond_signal by t, which then goes on at label: any one waiter   *)
(* leaves the condition variable's queue; without a waiter nothing happens. *)
Signal(t, waiters, woken, label) ==
  \/ /\ waiters = {}
     /\ Goto(t, label)
  \/ \E u \in waiters : pc' = [pc EXCEPT ![t] = label, ![u] = woken]

(* The call of t takes the mutex. *)
Lock(t) ==
  /\ pc[t] = "idle"
  /\ Running(t)
  /\ CallOf(t).op # "await"
  /\ Acquire(t, CallOf(t).op)
  /\ UNCHANGED <<program, isopen, queue, avilSize, freed, pending, results, spurious>>

(* A woken waiter takes the mutex again inside pthread_cond_wait. *)
Relock(t) ==
  /\ \/ pc[t] = "sendWoken" /\ Acquire(t, "sendRecheck")
     \/ pc[t] = "receiveWoken" /\ Acquire(t, "receiveRecheck")
  /\ UNCHANGED <<program, isopen, queue, avilSize, freed, pending, results, spurious>>

SpuriousWakeup(t) ==
  /\ spurious < MaxSpurious
  /\ spurious' = spurious + 1
  /\ \/ pc[t] = "sendWait" /\ Goto(t, "sendWoken")
     \/ pc[t] = "receiveWait" /\ Goto(t, "receiveWoken")
  /\ UNCHANGED <<program, isopen, queue, avilSize, freed, mutex, pending, results>>

-----------------------------------------------------------------------------
(* buffer_send *)

(* Mutant: the test counts strlen alone, not the length int and the NUL. *)
NoRoomForText(m) == avilSize <= FrameLen[m] - 5

NoRoom(m) == avilSize <= FrameLen[m]

(* The body of the while loop: add the message and release, or wait. *)
SendOrWait(t) ==
  LET m == CallOf(t).msg IN
  /\ Release
  /\ \/ /\ NoRoom(m)
        /\ Goto(t, "sendWait")
        /\ UNCHANGED <<queue, avilSize, pending>>
     \/ /\ ~NoRoom(m)
        /\ queue' = Append(queue, m)
        /\ avilSize' = avilSize - FrameLen[m]
        /\ pending' = [pending EXCEPT ![t] = Status("SUCCESS")]
        /\ Goto(t, "signalReceiver")
  /\ UNCHANGED results

Send(t) ==
  /\ pc[t] = "send"
  /\ \/ /\ ~isopen
        /\ Release
        /\ Return(t, Status("CLOSED_ERROR"))
        /\ UNCHANGED <<queue, avilSize, pending>>
     \/ isopen /\ SendOrWait(t)
  /\ UNCHANGED <<program, isopen, freed, spurious>>

(* Mutant: it returns without a signal, as the check at the entry does. *)
LeaveClosedSilently(t) ==
  /\ ~isopen
  /\ Release
  /\ Return(t, Status("CLOSED_ERROR"))
  /\ UNCHANGED <<queue, avilSize, pending>>

(* Mutant: it returns with the mutex held. *)
LeaveClosedLocked(t) ==
  /\ ~isopen
  /\ pending' = [pending EXCEPT ![t] = Status("CLOSED_ERROR")]
  /\ Goto(t, "closedSignalSender")
  /\ UNCHANGED <<mutex, queue, avilSize, results>>

(* A waiter that finds the channel closed passes the wake-up on to both    *)
(* condition variables before it returns.                                  *)
LeaveClosed(t) ==
  /\ ~isopen
  /\ Release
  /\ pending' = [pending EXCEPT ![t] = Status("CLOSED_ERROR")]
  /\ Goto(t, "closedSignalSender")
  /\ UNCHANGED <<queue, avilSize, results>>

(* Mutant: a woken sender only looks at the room. *)
SendRecheckUnchecked(t) ==
  /\ pc[t] = "sendRecheck"
  /\ SendOrWait(t)
  /\ UNCHANGED <<program, isopen, freed, spurious>>

SendRecheck(t) ==
  /\ pc[t] = "sendRecheck"
  /\ LeaveClosed(t) \/ (isopen /\ SendOrWait(t))
  /\ UNCHANGED <<program, isopen, freed, spurious>>

(* Mutant: a signal only for the first message of an empty queue. *)
SignalFirstOnly(t) ==
  /\ pc[t] = "signalReceiver"
  /\ IF Len(queue) = 1 THEN Signal(t, ReceiverWaiting, "receiveWoken", "idle")
                       ELSE Goto(t, "idle")
  /\ results' = [results EXCEPT ![t] = Append(@, pending[t])]
  /\ UNCHANGED <<program, isopen, queue, avilSize, freed, mutex, pending, spurious>>

SignalReceiver(t) ==
  /\ pc[t] = "signalReceiver"
  /\ Signal(t, ReceiverWaiting, "receiveWoken", "idle")
  /\ results' = [results EXCEPT ![t] = Append(@, pending[t])]
  /\ UNCHANGED <<program, isopen, queue, avilSize, freed, mutex, pending, spurious>>

-----------------------------------------------------------------------------
(* buffer_receive *)

(* Mutant: the length int is read but its bytes are not given back. *)
ReceiveDataOnly(t) ==
  /\ Release
  /\ \/ /\ avilSize >= Size
        /\ Goto(t, "receiveWait")
        /\ UNCHANGED <<queue, avilSize, pending>>
     \/ /\ avilSize < Size
        /\ queue' = Tail(queue)
        /\ avilSize' = avilSize + FrameLen[Head(queue)] - 4
        /\ pending' = [pending EXCEPT ![t] = Received(Head(queue))]
        /\ Goto(t, "signalSender")
  /\ UNCHANGED results

ReceiveOrWait(t) ==
  /\ Release
  /\ \/ /\ avilSize >= Size
        /\ Goto(t, "receiveWait")
        /\ UNCHANGED <<queue, avilSize, pending>>
     \/ /\ avilSize < Size
        /\ queue' = Tail(queue)
        /\ avilSize' = avilSize + FrameLen[Head(queue)]
        /\ pending' = [pending EXCEPT ![t] = Received(Head(queue))]
        /\ Goto(t, "signalSender")
  /\ UNCHANGED results

Receive(t) ==
  /\ pc[t] = "receive"
  /\ \/ /\ ~isopen
        /\ Release
        /\ Return(t, Status("CLOSED_ERROR"))
        /\ UNCHANGED <<queue, avilSize, pending>>
     \/ isopen /\ ReceiveOrWait(t)
  /\ UNCHANGED <<program, isopen, freed, spurious>>

ReceiveRecheck(t) ==
  /\ pc[t] = "receiveRecheck"
  /\ LeaveClosed(t) \/ (isopen /\ ReceiveOrWait(t))
  /\ UNCHANGED <<program, isopen, freed, spurious>>

(* Mutant: a receiver signals the condition variable it waits on. *)
SignalOwnSide(t) ==
  /\ pc[t] = "signalSender"
  /\ Signal(t, ReceiverWaiting, "receiveWoken", "idle")
  /\ results' = [results EXCEPT ![t] = Append(@, pending[t])]
  /\ UNCHANGED <<program, isopen, queue, avilSize, freed, mutex, pending, spurious>>

SignalSender(t) ==
  /\ pc[t] = "signalSender"
  /\ Signal(t, SenderWaiting, "sendWoken", "idle")
  /\ results' = [results EXCEPT ![t] = Append(@, pending[t])]
  /\ UNCHANGED <<program, isopen, queue, avilSize, freed, mutex, pending, spurious>>

-----------------------------------------------------------------------------
(* buffer_close, and the two signals that end it and a closed wait *)

(* Mutant: buffer_close does not look at isopen. *)
CloseUnchecked(t) ==
  /\ pc[t] = "close"
  /\ isopen' = FALSE
  /\ pending' = [pending EXCEPT ![t] = Status("SUCCESS")]
  /\ Release
  /\ Goto(t, "closedSignalSender")
  /\ UNCHANGED <<program, queue, avilSize, freed, results, spurious>>

Close(t) ==
  /\ pc[t] = "close"
  /\ isopen' = FALSE
  /\ pending' = [pending EXCEPT ![t] = Status(IF isopen THEN "SUCCESS" ELSE "CLOSED_ERROR")]
  /\ Release
  /\ Goto(t, "closedSignalSender")
  /\ UNCHANGED <<program, queue, avilSize, freed, results, spurious>>

ClosedSignalSender(t) ==
  /\ pc[t] = "closedSignalSender"
  /\ Signal(t, SenderWaiting, "sendWoken", "closedSignalReceiver")
  /\ UNCHANGED <<program, isopen, queue, avilSize, freed, mutex, pending, results, spurious>>

ClosedSignalReceiver(t) ==
  /\ pc[t] = "closedSignalReceiver"
  /\ Signal(t, ReceiverWaiting, "receiveWoken", "idle")
  /\ results' = [results EXCEPT ![t] = Append(@, pending[t])]
  /\ UNCHANGED <<program, isopen, queue, avilSize, freed, mutex, pending, spurious>>

-----------------------------------------------------------------------------
(* buffer_destroy *)

(* Mutant: buffer_destroy does not look at isopen. *)
DestroyOpen(t) ==
  /\ pc[t] = "destroy"
  /\ Release
  /\ Goto(t, "freeing")
  /\ UNCHANGED <<program, isopen, queue, avilSize, freed, pending, results, spurious>>

Destroy(t) ==
  /\ pc[t] = "destroy"
  /\ Release
  /\ \/ isopen /\ Return(t, Status("DESTROY_ERROR"))
     \/ ~isopen /\ Goto(t, "freeing") /\ UNCHANGED results
  /\ UNCHANGED <<program, isopen, queue, avilSize, freed, pending, spurious>>

Free(t) ==
  /\ pc[t] = "freeing"
  /\ freed' = TRUE
  /\ Return(t, Status("SUCCESS"))
  /\ UNCHANGED <<program, isopen, queue, avilSize, mutex, pending, spurious>>

(* The callers' synchronisation: pthread_create and pthread_join, or        *)
(* sem_wait on a semaphore the threads post when their call has returned.   *)
Reached(call) ==
  Cardinality({u \in call.of : Len(results[u]) >= call.calls}) >= call.count

Await(t) ==
  /\ pc[t] = "idle"
  /\ Running(t)
  /\ CallOf(t).op = "await"
  /\ Reached(CallOf(t))
  /\ Return(t, Status("SUCCESS"))
  /\ UNCHANGED <<program, isopen, queue, avilSize, freed, mutex, pending, spurious>>

-----------------------------------------------------------------------------
Step(t) ==
  \/ Lock(t) \/ Relock(t)
  \/ Send(t) \/ SendRecheck(t) \/ SignalReceiver(t)
  \/ Receive(t) \/ ReceiveRecheck(t) \/ SignalSender(t)
  \/ Close(t) \/ ClosedSignalSender(t) \/ ClosedSignalReceiver(t)
  \/ Destroy(t) \/ Free(t) \/ Await(t)

Next == \E t \in Threads : Step(t) \/ SpuriousWakeup(t)

(* A thread that can run is eventually run.  Nothing more is asked of the  *)
(* mutex: no thread is promised its turn while others keep taking it.      *)
Fairness == \A t \in Threads : WF_vars(Step(t))

Spec == Init /\ [][Next]_vars
FairSpec == Spec /\ Fairness

-----------------------------------------------------------------------------
(* Properties *)

TypeOK ==
  /\ program \in [Threads -> Seq(Call)]
  /\ isopen \in BOOLEAN
  /\ queue \in Seq(Payload)
  /\ avilSize \in Nat
  /\ freed \in BOOLEAN
  /\ mutex \in Threads \cup {NoThread}
  /\ pc \in [Threads -> PC]
  /\ pending \in [Threads -> Results]
  /\ results \in [Threads -> Seq(Results)]
  /\ spurious \in 0..MaxSpurious

(* Every path through helper.c that takes chmutex gives it back, early     *)
(* returns and waits included, and no two threads are between the two.     *)
LockDiscipline == \A t \in Threads : mutex = t <=> pc[t] \in Critical

(* Once the channel is closed, no waiter is left behind: while a sender    *)
(* (a receiver) still waits, some thread has yet to signal chconrec        *)
(* (chconsend), or a woken thread will find the channel closed and signal  *)
(* both.  The close itself signals each condition variable only once.      *)
WillSignalClosedSender == {"closedSignalSender"} \cup Woken \cup {"sendRecheck", "receiveRecheck"}
WillSignalClosedReceiver == WillSignalClosedSender \cup {"closedSignalReceiver"}
CloseWakesAll ==
  ~isopen =>
    /\ SenderWaiting # {} => \E t \in Threads : pc[t] \in WillSignalClosedSender
    /\ ReceiverWaiting # {} => \E t \in Threads : pc[t] \in WillSignalClosedReceiver

(* While a receiver waits, every message still held has a receiver on its  *)
(* way to it: one that was woken, or a sender about to signal chconsend.   *)
(* The one signal per send is enough because a receiver only starts to     *)
(* wait on an empty queue.                                                 *)
ReceiversComing == {t \in Threads : pc[t] \in {"receiveWoken", "receiveRecheck", "signalReceiver"}}
NoReceiverForgotten ==
  isopen /\ ReceiverWaiting # {} => Cardinality(ReceiversComing) >= Len(queue)

(* A sender never sleeps beside an empty queue without somebody on the way *)
(* who will send, or signal chconrec: senders cannot all be left behind.   *)
SendersComing == {t \in Threads : pc[t] \in {"sendWoken", "sendRecheck", "signalSender"}}
EmptyQueueWakesSender ==
  isopen /\ SenderWaiting # {} /\ queue = <<>> => SendersComing # {}

(* When nothing can move any more, a sender that still waits has no space  *)
(* for its message.  True when all frames have one length; buffer.h states *)
(* it for every message.                                                   *)
CanMove(t) ==
  \/ pc[t] \notin {"idle", "sendWait", "receiveWait"}
  \/ /\ pc[t] = "idle"
     /\ Running(t)
     /\ CallOf(t).op = "await" => Reached(CallOf(t))
BlockedSenderHasNoSpace ==
  (\A t \in Threads : ~CanMove(t)) =>
    \A t \in SenderWaiting : isopen /\ NoRoom(CallOf(t).msg)

(* No thread is inside the channel, or about to enter it, when its memory  *)
(* has been released.                                                      *)
NoUseAfterDestroy ==
  freed => \A t \in Threads : pc[t] = "idle" /\ (Running(t) => CallOf(t).op = "await")

(* What the callers must do for it, as every test of driver.c does:        *)
(* buffer_destroy is called on a channel that nobody can have closed yet,  *)
(* or as the last call, when all the others' calls have been awaited.      *)
OnlyAwaits(p, t, k) == \A j \in k + 1 .. Len(p[t]) : p[t][j].op = "await"
AwaitsAll(p, c, u) ==
  /\ c.op = "await"
  /\ LET able == {v \in c.of : Len(p[v]) >= c.calls} IN
     u \in able /\ c.count >= Cardinality(able)
  /\ OnlyAwaits(p, u, c.calls)
IsLast(p, t, i) ==
  /\ OnlyAwaits(p, t, i)
  /\ \A u \in Threads \ {t} :
       OnlyAwaits(p, u, 0) \/ \E j \in 1 .. i - 1 : AwaitsAll(p, p[t][j], u)
NotClosedBefore(p, t, i) ==
  \A u \in Threads : \A j \in DOMAIN p[u] : p[u][j].op = "close" => u = t /\ j > i
JoinsBeforeDestroy ==
  \A p \in Programs, t \in Threads : \A i \in DOMAIN p[t] :
    p[t][i].op = "destroy" => IsLast(p, t, i) \/ NotClosedBefore(p, t, i)

(* Every call takes effect at one instant, in the order a bounded FIFO     *)
(* allows: the body of its critical section, before the signals.           *)
Returned == [t \in Threads |->
  IF pc[t] \in Signals THEN Append(results[t], pending[t]) ELSE results[t]]
Atomic == INSTANCE Channel WITH results <- Returned
ImplementsChannel == Atomic!Spec

(* The bytes counted free are those of the capacity not held by messages. *)
SpaceAccounted == avilSize = Size - Atomic!UsedBytes

(* Closing releases every blocked call: whoever waits when the channel is  *)
(* closed returns.                                                         *)
CloseReleasesAll == \A t \in Threads :
  (~isopen /\ pc[t] \in {"sendWait", "receiveWait"}) ~> pc[t] = "idle"
=============================================================================
