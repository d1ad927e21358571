------------------------- MODULE BufferChannelProofs -------------------------
(***************************************************************************)
(* Proofs about BufferChannel for every number of threads, every program   *)
(* and every length of frame: its invariants, why one signal per call is   *)
(* enough, and that it implements Channel.                                 *)
(***************************************************************************)
EXTENDS BufferChannel, TLAPS, SequenceTheorems, SetInduction, FiniteSetTheorems

(* A thread inside a call is running the call its place belongs to. *)
CallInv ==
  \A t \in Threads :
    /\ pc[t] # "idle" => Running(t)
    /\ pc[t] \in {"send", "sendWait", "sendWoken", "sendRecheck"} => CallOf(t).op = "send"

(* The free bytes, message by message: free[i] is what would be free once   *)
(* the first i messages were received.  It says what SpaceAccounted says    *)
(* without a sum over the queue.                                           *)
Accounted(q, avil) ==
  \E free \in [0 .. Len(q) -> Int] :
    /\ free[0] = avil
    /\ free[Len(q)] = Size
    /\ \A i \in 1..Len(q) : free[i] = free[i - 1] + FrameLen[q[i]]

TypeInv == TypeOK /\ CallInv /\ Accounted(queue, avilSize)

(* A thread about to send has a message of Payload. *)
LEMMA SendMessage ==
  ASSUME NEW c \in Call, c.op = "send"
  PROVE  c.msg \in Payload
BY DEF Call

(* The call a running thread is at is one of Call. *)
LEMMA CallOfRunning ==
  ASSUME TypeOK, NEW t \in Threads, Running(t)
  PROVE  CallOf(t) \in Call
BY DEF TypeOK, Running, CallOf

(* Adding a message and taking its frame off avilSize keeps the account. *)
LEMMA AccountedAdd ==
  ASSUME ChannelAssumption, NEW q \in Seq(Payload), NEW avil \in Nat, NEW m \in Payload,
         Accounted(q, avil), avil > FrameLen[m]
  PROVE  Accounted(Append(q, m), avil - FrameLen[m])
PROOF
  <1>1. PICK free \in [0 .. Len(q) -> Int] :
          /\ free[0] = avil
          /\ free[Len(q)] = Size
          /\ \A i \in 1..Len(q) : free[i] = free[i - 1] + FrameLen[q[i]]
    BY DEF Accounted
  <1>2. FrameLen[m] \in Nat /\ Size \in Nat /\ Len(q) \in Nat
    BY DEF ChannelAssumption
  <1> DEFINE longer == Append(q, m)
             less == [i \in 0 .. Len(longer) |->
                        IF i <= Len(q) THEN free[i] - FrameLen[m] ELSE Size]
  <1>3. Len(longer) = Len(q) + 1 /\ less \in [0 .. Len(longer) -> Int]
    BY <1>2
  <1>4. less[0] = avil - FrameLen[m] /\ less[Len(longer)] = Size
    BY <1>1, <1>2, <1>3
  <1>5. ASSUME NEW i \in 1 .. Len(longer)
        PROVE  less[i] = less[i - 1] + FrameLen[longer[i]]
    <2>1. CASE i <= Len(q)
      <3>1. longer[i] = q[i] /\ i \in 1 .. Len(q)
        BY <1>2, <1>3, <2>1
      <3>2. q[i] \in Payload
        BY <3>1
      <3>3. FrameLen[q[i]] \in Nat
        BY <3>2 DEF ChannelAssumption
      <3>4. less[i] = free[i] - FrameLen[m] /\ less[i - 1] = free[i - 1] - FrameLen[m]
        BY <1>2, <1>3, <2>1
      <3>5. free[i] = free[i - 1] + FrameLen[q[i]] /\ free[i - 1] \in Int
        BY <1>1, <1>2, <3>1
      <3> QED
        BY <1>2, <3>1, <3>3, <3>4, <3>5
    <2>2. CASE i = Len(q) + 1
      <3>1. longer[i] = m /\ less[i] = Size /\ less[i - 1] = Size - FrameLen[m]
        BY <1>1, <1>2, <1>3, <2>2
      <3> QED
        BY <3>1, <1>2
    <2>3. i <= Len(q) \/ i = Len(q) + 1
      <3>1. Len(longer) = Len(q) + 1 /\ i \in 1 .. Len(longer)
        BY <1>3
      <3> HIDE DEF longer
      <3> QED
        BY <3>1, <1>2
    <2> HIDE DEF longer, less
    <2> QED
      BY <2>1, <2>2, <2>3
  <1> QED
    BY <1>3, <1>4, <1>5 DEF Accounted

(* With less than Size free there is a message, and removing it and giving
   its frame back keeps the account. *)
LEMMA AccountedRemove ==
  ASSUME ChannelAssumption, NEW q \in Seq(Payload), NEW avil \in Nat,
         Accounted(q, avil), avil < Size
  PROVE  /\ q # <<>>
         /\ Head(q) \in Payload
         /\ Tail(q) \in Seq(Payload)
         /\ avil + FrameLen[Head(q)] \in Nat
         /\ Accounted(Tail(q), avil + FrameLen[Head(q)])
PROOF
  <1>1. PICK free \in [0 .. Len(q) -> Int] :
          /\ free[0] = avil
          /\ free[Len(q)] = Size
          /\ \A i \in 1..Len(q) : free[i] = free[i - 1] + FrameLen[q[i]]
    BY DEF Accounted
  <1>2. q # <<>>
    BY <1>1 DEF ChannelAssumption
  <1>3. /\ Head(q) \in Payload /\ Head(q) = q[1] /\ Tail(q) \in Seq(Payload)
        /\ Len(q) \in Nat \ {0} /\ Len(Tail(q)) = Len(q) - 1
        /\ \A i \in 1 .. Len(q) - 1 : Tail(q)[i] = q[i + 1]
    BY <1>2
  <1>4. FrameLen[Head(q)] \in Nat
    BY <1>3 DEF ChannelAssumption
  <1> DEFINE more == [i \in 0 .. Len(Tail(q)) |-> free[i + 1]]
  <1>5. more \in [0 .. Len(Tail(q)) -> Int]
    BY <1>3
  <1>6. more[0] = avil + FrameLen[Head(q)] /\ more[Len(Tail(q))] = Size
    BY <1>1, <1>3
  <1>7. ASSUME NEW i \in 1 .. Len(Tail(q))
        PROVE  more[i] = more[i - 1] + FrameLen[Tail(q)[i]]
    BY <1>1, <1>3
  <1>8. Accounted(Tail(q), avil + FrameLen[Head(q)])
    <2> HIDE DEF more
    <2> QED
      BY <1>5, <1>6, <1>7 DEF Accounted
  <1> QED
    BY <1>2, <1>3, <1>4, <1>8

-----------------------------------------------------------------------------
(* Type correctness *)

(* A status is a result. *)
LEMMA StatusType ==
  ASSUME NEW status \in Statuses
  PROVE  Status(status) \in Results
BY DEF Status, Result, Results

(* A message received is a result. *)
LEMMA ReceivedType ==
  ASSUME NEW m \in Payload
  PROVE  Received(m) \in Results
BY DEF Received, Result, Results, Statuses

(* The invariant holds initially. *)
LEMMA TypeInvInit ==
  ASSUME ChannelAssumption, Init
  PROVE  TypeInv
PROOF
  <1>1. TypeOK
    <2>1. program \in [Threads -> Seq(Call)] /\ avilSize \in Nat /\ spurious \in 0..MaxSpurious
      BY DEF ChannelAssumption, Init
    <2>2. Status("SUCCESS") \in Results
      BY StatusType DEF Statuses
    <2>3. pc \in [Threads -> PC] /\ pending \in [Threads -> Results]
          /\ results \in [Threads -> Seq(Results)]
      BY <2>2 DEF Init, PC
    <2>4. queue \in Seq(Payload) /\ mutex \in Threads \cup {NoThread}
      BY DEF Init
    <2>5. isopen \in BOOLEAN /\ freed \in BOOLEAN
      BY Zenon DEF Init
    <2> QED
      BY <2>1, <2>3, <2>4, <2>5 DEF TypeOK
  <1>2. CallInv
    BY DEF Init, CallInv
  <1>3. Accounted(queue, avilSize)
    <2> DEFINE free == [i \in 0 .. Len(queue) |-> Size]
    <2>1. queue = <<>> /\ avilSize = Size /\ Size \in Nat /\ Len(queue) = 0
      BY DEF Init, ChannelAssumption
    <2>2. free \in [0 .. Len(queue) -> Int] /\ free[0] = avilSize /\ free[Len(queue)] = Size
      BY <2>1
    <2>3. 1 .. Len(queue) = {}
      BY <2>1
    <2> HIDE DEF free
    <2> QED
      BY <2>2, <2>3 DEF Accounted
  <1> QED
    BY <1>1, <1>2, <1>3 DEF TypeInv

(* A step that changes neither queue nor avilSize keeps the accounting. *)
LEMMA AccountedSame ==
  ASSUME Accounted(queue, avilSize), UNCHANGED <<queue, avilSize>>
  PROVE  Accounted(queue, avilSize)'
BY DEF Accounted

(* Lock preserves the invariant. *)
LEMMA LockType ==
  ASSUME TypeInv, NEW t \in Threads, Lock(t)
  PROVE  TypeInv'
PROOF
  <1> USE DEF TypeInv
  <1>1. CallOf(t) \in Call /\ CallOf(t).op \in {"send", "receive", "close", "destroy"}
    BY CallOfRunning DEF Lock, Call
  <1>2. TypeOK'
    BY <1>1 DEF TypeOK, Lock, Acquire, Goto, PC, Critical
  <1>3. CallInv'
    BY <1>1 DEF CallInv, TypeOK, Lock, Acquire, Goto, Running, CallOf
  <1>4. Accounted(queue, avilSize)'
    BY AccountedSame DEF Lock
  <1> QED
    BY <1>2, <1>3, <1>4

(* Relock preserves the invariant. *)
LEMMA RelockType ==
  ASSUME TypeInv, NEW t \in Threads, Relock(t)
  PROVE  TypeInv'
PROOF
  <1> USE DEF TypeInv
  <1>1. TypeOK'
    BY DEF TypeOK, Relock, Acquire, Goto, PC, Critical
  <1>2. CallInv'
    BY DEF CallInv, TypeOK, Relock, Acquire, Goto, Running, CallOf
  <1>3. Accounted(queue, avilSize)'
    BY AccountedSame DEF Relock
  <1> QED
    BY <1>1, <1>2, <1>3

(* A spurious wake-up preserves the invariant. *)
LEMMA SpuriousType ==
  ASSUME ChannelAssumption, TypeInv, NEW t \in Threads, SpuriousWakeup(t)
  PROVE  TypeInv'
PROOF
  <1> USE DEF TypeInv
  <1>1. TypeOK'
    <2>1. pc' \in [Threads -> PC]
      BY DEF TypeOK, SpuriousWakeup, Goto, PC, Woken
    <2>2. spurious' \in 0..MaxSpurious
      BY DEF ChannelAssumption, TypeOK, SpuriousWakeup
    <2> QED
      BY <2>1, <2>2 DEF TypeOK, SpuriousWakeup
  <1>2. CallInv'
    BY DEF CallInv, TypeOK, SpuriousWakeup, Goto, Running, CallOf
  <1>3. Accounted(queue, avilSize)'
    BY AccountedSame DEF SpuriousWakeup
  <1> QED
    BY <1>1, <1>2, <1>3

(* A body that returns, or moves on, leaves the other threads where they    *)
(* were and t in a place that asks nothing of its call.                     *)
LEMMA LeaveCall ==
  ASSUME TypeInv, NEW t \in Threads, UNCHANGED program,
         \/ pc' = [pc EXCEPT ![t] = "idle"]
            /\ \E r \in Results : results' = [results EXCEPT ![t] = Append(@, r)]
         \/ \E l \in Signals \cup {"freeing", "receiveWait"} :
              pc' = [pc EXCEPT ![t] = l] /\ UNCHANGED results /\ pc[t] # "idle"
  PROVE  CallInv' /\ pc' \in [Threads -> PC] /\ results' \in [Threads -> Seq(Results)]
PROOF
  <1> USE DEF TypeInv
  <1>1. pc' \in [Threads -> PC]
    BY DEF TypeOK, PC
  <1>2. results' \in [Threads -> Seq(Results)]
    <2>1. CASE UNCHANGED results
      BY <2>1 DEF TypeOK
    <2>2. ASSUME NEW r \in Results, results' = [results EXCEPT ![t] = Append(@, r)]
          PROVE  results' \in [Threads -> Seq(Results)]
      <3>1. Append(results[t], r) \in Seq(Results)
        BY DEF TypeOK
      <3> QED
        BY <3>1, <2>2 DEF TypeOK
    <2> QED
      BY <2>1, <2>2
  <1>3. CallInv'
    BY DEF CallInv, TypeOK, Running, CallOf, Signals
  <1> QED
    BY <1>1, <1>2, <1>3

(* The loop body of buffer_send preserves the invariant. *)
LEMMA SendOrWaitType ==
  ASSUME ChannelAssumption, TypeInv, NEW t \in Threads, pc[t] \in {"send", "sendRecheck"},
         SendOrWait(t), UNCHANGED <<program, isopen, freed, spurious>>
  PROVE  TypeInv'
PROOF
  <1> USE DEF TypeInv
  <1>1. CallOf(t).msg \in Payload /\ CallOf(t).op = "send" /\ Running(t)
    BY CallOfRunning, SendMessage DEF CallInv
  <1>2. FrameLen[CallOf(t).msg] \in Nat
    BY <1>1 DEF ChannelAssumption
  <1>3. CASE /\ Goto(t, "sendWait") /\ UNCHANGED <<queue, avilSize, pending, results>>
             /\ mutex' = NoThread
    <2>1. TypeOK'
      BY <1>3 DEF TypeOK, Goto, PC
    <2>2. CallInv'
      BY <1>1, <1>3 DEF TypeOK, CallInv, Goto, Running, CallOf
    <2> QED
      BY <1>3, <2>1, <2>2, AccountedSame
  <1>4. CASE /\ ~NoRoom(CallOf(t).msg)
             /\ queue' = Append(queue, CallOf(t).msg)
             /\ avilSize' = avilSize - FrameLen[CallOf(t).msg]
             /\ pending' = [pending EXCEPT ![t] = Status("SUCCESS")]
             /\ Goto(t, "signalReceiver") /\ UNCHANGED results /\ mutex' = NoThread
    <2>1. Accounted(queue, avilSize)'
      <3>1. Accounted(Append(queue, CallOf(t).msg), avilSize - FrameLen[CallOf(t).msg])
        BY <1>1, <1>2, <1>4, AccountedAdd DEF NoRoom, TypeOK
      <3> QED
        BY <3>1, <1>4 DEF Accounted
    <2>2. avilSize' \in Nat /\ queue' \in Seq(Payload)
      BY <1>1, <1>2, <1>4 DEF NoRoom, TypeOK
    <2>3. pending' \in [Threads -> Results]
      BY <1>4, StatusType DEF TypeOK, Statuses
    <2>4. CallInv' /\ pc' \in [Threads -> PC] /\ results' \in [Threads -> Seq(Results)]
      BY <1>4, LeaveCall DEF Goto, Signals
    <2>5. TypeOK'
      BY <1>4, <2>2, <2>3, <2>4 DEF TypeOK
    <2> QED
      BY <2>1, <2>4, <2>5
  <1> QED
    BY <1>3, <1>4 DEF SendOrWait, Release

(* Leaving a closed channel preserves the invariant. *)
LEMMA LeaveClosedType ==
  ASSUME TypeInv, NEW t \in Threads, LeaveClosed(t), pc[t] # "idle",
         UNCHANGED <<program, isopen, freed, spurious>>
  PROVE  TypeInv'
PROOF
  <1> USE DEF TypeInv
  <1>1. CallInv' /\ pc' \in [Threads -> PC] /\ results' \in [Threads -> Seq(Results)]
    BY LeaveCall DEF LeaveClosed, Goto, Signals
  <1>2. pending' \in [Threads -> Results]
    BY StatusType DEF TypeOK, Statuses, LeaveClosed
  <1>3. TypeOK'
    BY <1>1, <1>2 DEF TypeOK, LeaveClosed, Release
  <1> QED
    BY <1>1, <1>3, AccountedSame DEF LeaveClosed

(* An early return with the status of a closed, or an open, channel. *)
LEMMA EarlyReturnType ==
  ASSUME TypeInv, NEW t \in Threads, NEW status \in Statuses, Release,
         Return(t, Status(status)),
         UNCHANGED <<program, isopen, freed, spurious, queue, avilSize, pending>>
  PROVE  TypeInv'
PROOF
  <1> USE DEF TypeInv
  <1>1. CallInv' /\ pc' \in [Threads -> PC] /\ results' \in [Threads -> Seq(Results)]
    BY LeaveCall, StatusType DEF Return
  <1>2. TypeOK'
    BY <1>1 DEF TypeOK, Release
  <1> QED
    BY <1>1, <1>2, AccountedSame

(* Send preserves the invariant. *)
LEMMA SendType ==
  ASSUME ChannelAssumption, TypeInv, NEW t \in Threads, Send(t) \/ SendRecheck(t)
  PROVE  TypeInv'
PROOF
  <1>1. CASE pc[t] = "send" /\ isopen /\ Send(t)
    BY <1>1, SendOrWaitType DEF Send
  <1>2. CASE ~isopen /\ Send(t)
    BY <1>2, EarlyReturnType DEF Send, Statuses
  <1>3. CASE isopen /\ SendRecheck(t)
    BY <1>3, SendOrWaitType DEF SendRecheck, LeaveClosed
  <1>4. CASE ~isopen /\ SendRecheck(t)
    BY <1>4, LeaveClosedType DEF SendRecheck
  <1> QED
    BY <1>1, <1>2, <1>3, <1>4 DEF Send

(* The loop body of buffer_receive preserves the invariant. *)
LEMMA ReceiveOrWaitType ==
  ASSUME ChannelAssumption, TypeInv, NEW t \in Threads, pc[t] \in {"receive", "receiveRecheck"},
         ReceiveOrWait(t), UNCHANGED <<program, isopen, freed, spurious>>
  PROVE  TypeInv'
PROOF
  <1> USE DEF TypeInv
  <1>1. CASE /\ Goto(t, "receiveWait") /\ UNCHANGED <<queue, avilSize, pending, results>>
             /\ mutex' = NoThread
    <2>1. CallInv' /\ pc' \in [Threads -> PC] /\ results' \in [Threads -> Seq(Results)]
      BY <1>1, LeaveCall DEF Goto
    <2>2. TypeOK'
      BY <1>1, <2>1 DEF TypeOK
    <2> QED
      BY <1>1, <2>1, <2>2, AccountedSame
  <1>2. CASE /\ avilSize < Size
             /\ queue' = Tail(queue)
             /\ avilSize' = avilSize + FrameLen[Head(queue)]
             /\ pending' = [pending EXCEPT ![t] = Received(Head(queue))]
             /\ Goto(t, "signalSender") /\ UNCHANGED results /\ mutex' = NoThread
    <2>1. /\ Head(queue) \in Payload
          /\ queue' \in Seq(Payload)
          /\ avilSize' \in Nat
          /\ Accounted(Tail(queue), avilSize + FrameLen[Head(queue)])
      BY <1>2, AccountedRemove DEF TypeOK
    <2>2. Accounted(queue, avilSize)'
      BY <1>2, <2>1 DEF Accounted
    <2>3. pending' \in [Threads -> Results]
      BY <1>2, <2>1, ReceivedType DEF TypeOK
    <2>4. CallInv' /\ pc' \in [Threads -> PC] /\ results' \in [Threads -> Seq(Results)]
      BY <1>2, LeaveCall DEF Goto, Signals
    <2>5. TypeOK'
      BY <1>2, <2>1, <2>3, <2>4 DEF TypeOK
    <2> QED
      BY <2>2, <2>4, <2>5
  <1> QED
    BY <1>1, <1>2 DEF ReceiveOrWait, Release

(* Receive preserves the invariant. *)
LEMMA ReceiveType ==
  ASSUME ChannelAssumption, TypeInv, NEW t \in Threads, Receive(t) \/ ReceiveRecheck(t)
  PROVE  TypeInv'
PROOF
  <1>1. CASE isopen /\ Receive(t)
    BY <1>1, ReceiveOrWaitType DEF Receive
  <1>2. CASE ~isopen /\ Receive(t)
    BY <1>2, EarlyReturnType DEF Receive, Statuses
  <1>3. CASE isopen /\ ReceiveRecheck(t)
    BY <1>3, ReceiveOrWaitType DEF ReceiveRecheck, LeaveClosed
  <1>4. CASE ~isopen /\ ReceiveRecheck(t)
    BY <1>4, LeaveClosedType DEF ReceiveRecheck
  <1> QED
    BY <1>1, <1>2, <1>3, <1>4

(* A signal moves t on and at most one waiter into Woken. *)
LEMMA SignalType ==
  ASSUME TypeInv, NEW t \in Threads, pc[t] \in Signals, UNCHANGED program,
         \/ Signal(t, SenderWaiting, "sendWoken", "closedSignalReceiver") /\ UNCHANGED results
         \/ /\ \/ Signal(t, SenderWaiting, "sendWoken", "idle")
               \/ Signal(t, ReceiverWaiting, "receiveWoken", "idle")
            /\ results' = [results EXCEPT ![t] = Append(@, pending[t])],
         UNCHANGED <<isopen, queue, avilSize, freed, mutex, pending, spurious>>
  PROVE  TypeInv'
PROOF
  <1> USE DEF TypeInv
  <1>1. pc' \in [Threads -> PC]
    BY DEF Signal, Goto, SenderWaiting, ReceiverWaiting, TypeOK, PC, Woken, Signals
  <1>2. results' \in [Threads -> Seq(Results)]
    <2>1. CASE UNCHANGED results
      BY <2>1 DEF TypeOK
    <2>2. CASE results' = [results EXCEPT ![t] = Append(@, pending[t])]
      <3>1. Append(results[t], pending[t]) \in Seq(Results)
        BY DEF TypeOK
      <3> QED
        BY <3>1, <2>2 DEF TypeOK
    <2> QED
      BY <2>1, <2>2
  <1>3. TypeOK'
    BY <1>1, <1>2 DEF TypeOK
  <1>4. CallInv'
    <2>1. \A u \in Threads \ {t} : /\ results'[u] = results[u]
                                 /\ \/ pc'[u] = pc[u]
                                    \/ pc[u] = "sendWait" /\ pc'[u] = "sendWoken"
                                    \/ pc[u] = "receiveWait" /\ pc'[u] = "receiveWoken"
      BY DEF Signal, Goto, SenderWaiting, ReceiverWaiting, TypeOK
    <2>2. \/ pc'[t] = "idle"
          \/ pc'[t] = "closedSignalReceiver" /\ UNCHANGED results
      BY DEF Signal, Goto, SenderWaiting, ReceiverWaiting, TypeOK, Signals
    <2>3. pc[t] # "idle"
      BY DEF Signals
    <2> QED
      BY <2>1, <2>2, <2>3 DEF CallInv, Running, CallOf
  <1> QED
    BY <1>3, <1>4, AccountedSame

(* buffer_close preserves the invariant. *)
LEMMA CloseType ==
  ASSUME TypeInv, NEW t \in Threads, Close(t)
  PROVE  TypeInv'
PROOF
  <1> USE DEF TypeInv
  <1>1. CallInv' /\ pc' \in [Threads -> PC] /\ results' \in [Threads -> Seq(Results)]
    BY LeaveCall DEF Close, Goto, Signals
  <1>2. pending' \in [Threads -> Results]
    BY StatusType DEF TypeOK, Statuses, Close
  <1>3. TypeOK'
    BY <1>1, <1>2 DEF TypeOK, Close, Release
  <1> QED
    BY <1>1, <1>3, AccountedSame DEF Close

(* buffer_destroy preserves the invariant. *)
LEMMA DestroyType ==
  ASSUME TypeInv, NEW t \in Threads, Destroy(t) \/ Free(t) \/ Await(t)
  PROVE  TypeInv'
PROOF
  <1> USE DEF TypeInv
  <1>1. CallInv' /\ pc' \in [Threads -> PC] /\ results' \in [Threads -> Seq(Results)]
    <2>1. CASE Destroy(t) /\ isopen
      BY <2>1, LeaveCall, StatusType DEF Destroy, Return, Statuses, Goto
    <2>2. CASE Destroy(t) /\ ~isopen
      BY <2>2, LeaveCall DEF Destroy, Goto
    <2>3. CASE Free(t)
      BY <2>3, LeaveCall, StatusType DEF Free, Return, Statuses
    <2>4. CASE Await(t)
      BY <2>4, LeaveCall, StatusType DEF Await, Return, Statuses
    <2> QED
      BY <2>1, <2>2, <2>3, <2>4
  <1>2. TypeOK'
    BY <1>1 DEF TypeOK, Destroy, Free, Await, Release
  <1> QED
    BY <1>1, <1>2, AccountedSame DEF Destroy, Free, Await

(* Every step preserves the invariant. *)
LEMMA TypeInvNext ==
  ASSUME ChannelAssumption, TypeInv, [Next]_vars
  PROVE  TypeInv'
PROOF
  <1>1. ASSUME NEW t \in Threads, SignalReceiver(t) \/ SignalSender(t)
                 \/ ClosedSignalSender(t) \/ ClosedSignalReceiver(t)
        PROVE  TypeInv'
    BY <1>1, SignalType
    DEF SignalReceiver, SignalSender, ClosedSignalSender, ClosedSignalReceiver, Signals
  <1>2. ASSUME NEW t \in Threads, Step(t) \/ SpuriousWakeup(t)
        PROVE  TypeInv'
    BY <1>1, <1>2, LockType, RelockType, SpuriousType, SendType, ReceiveType, CloseType,
       DestroyType
    DEF Step
  <1>3. CASE UNCHANGED vars
    BY <1>3 DEF vars, TypeInv, TypeOK, CallInv, Accounted, Running, CallOf
  <1> QED
    BY <1>2, <1>3 DEF Next

(* The type, the calls in progress and the account of the free bytes are    *)
(* right in every state.                                                    *)
LEMMA TypeInvHolds == Spec => []TypeInv
PROOF
  <1>1. Init => TypeInv
    BY TypeInvInit, ChannelAssumption
  <1>2. TypeInv /\ [Next]_vars => TypeInv'
    BY TypeInvNext, ChannelAssumption
  <1> QED
    BY <1>1, <1>2, PTL DEF Spec

(* The type invariant of BufferChannel.  That a receiver only ever removes  *)
(* a message that is there, and that the free bytes never go below zero,    *)
(* needs the accounting of the free bytes in TypeInv.                      *)
THEOREM TypeCorrect == Spec => []TypeOK
PROOF
  <1>1. TypeInv => TypeOK
    BY DEF TypeInv
  <1> QED
    BY <1>1, TypeInvHolds, PTL

-----------------------------------------------------------------------------
(* The mutex *)

(* At every moment chmutex is held by exactly the thread that is between    *)
(* taking it and giving it back (helper.c): every return and every wait     *)
(* releases it, and two threads are never inside.                          *)
THEOREM LockDisciplineHolds == Spec => []LockDiscipline
PROOF
  <1>1. Init => LockDiscipline
    BY ChannelAssumption DEF ChannelAssumption, Init, LockDiscipline, Critical
  <1>2. TypeOK /\ LockDiscipline /\ [Next]_vars => LockDiscipline'
    <2> SUFFICES ASSUME TypeOK, LockDiscipline, [Next]_vars
                 PROVE  LockDiscipline'
      OBVIOUS
    <2> USE ChannelAssumption DEF ChannelAssumption, TypeOK, LockDiscipline, Critical, Goto
    <2>1. ASSUME NEW t \in Threads, Lock(t)
          PROVE  LockDiscipline'
      <3>1. CallOf(t).op \in Critical
        <4>1. CallOf(t) \in Call
          BY <2>1, CallOfRunning DEF Lock
        <4> QED
          BY <4>1, <2>1 DEF Lock, Call
      <3> QED
        BY <2>1, <3>1 DEF Lock, Acquire
    <2>2. ASSUME NEW t \in Threads, Relock(t)
          PROVE  LockDiscipline'
      BY <2>2 DEF Relock, Acquire
    <2>3. ASSUME NEW t \in Threads, SpuriousWakeup(t)
          PROVE  LockDiscipline'
      BY <2>3 DEF SpuriousWakeup
    <2>4. ASSUME NEW t \in Threads,
                 Send(t) \/ SendRecheck(t) \/ Receive(t) \/ ReceiveRecheck(t)
          PROVE  LockDiscipline'
      BY <2>4 DEF Send, SendRecheck, Receive, ReceiveRecheck, SendOrWait, ReceiveOrWait,
                  LeaveClosed, Release, Return
    <2>5. ASSUME NEW t \in Threads, Close(t) \/ Destroy(t)
          PROVE  LockDiscipline'
      BY <2>5 DEF Close, Destroy, Release, Return
    <2>6. ASSUME NEW t \in Threads, SignalReceiver(t) \/ SignalSender(t)
                   \/ ClosedSignalSender(t) \/ ClosedSignalReceiver(t)
          PROVE  LockDiscipline'
      BY <2>6 DEF SignalReceiver, SignalSender, ClosedSignalSender, ClosedSignalReceiver,
                  Signal, SenderWaiting, ReceiverWaiting
    <2>7. ASSUME NEW t \in Threads, Free(t) \/ Await(t)
          PROVE  LockDiscipline'
      BY <2>7 DEF Free, Await, Return
    <2>8. CASE UNCHANGED vars
      BY <2>8 DEF vars
    <2> QED
      BY <2>1, <2>2, <2>3, <2>4, <2>5, <2>6, <2>7, <2>8 DEF Next, Step
  <1> QED
    BY <1>1, <1>2, TypeCorrect, PTL DEF Spec

-----------------------------------------------------------------------------
(* Closing *)

(* Once the channel is closed, a thread still waiting on either condition   *)
(* variable has a thread on its way that will signal it: buffer_close       *)
(* signals each only once, and the woken waiters pass the signals on.       *)
THEOREM CloseWakesAllHolds == Spec => []CloseWakesAll
PROOF
  <1>1. Init => CloseWakesAll
    BY DEF Init, CloseWakesAll
  <1>2. TypeOK /\ CloseWakesAll /\ [Next]_vars => CloseWakesAll'
    <2> SUFFICES ASSUME TypeOK, CloseWakesAll, [Next]_vars, ~isopen'
                 PROVE  /\ SenderWaiting' # {} =>
                             \E t \in Threads : pc'[t] \in WillSignalClosedSender
                        /\ ReceiverWaiting' # {} =>
                             \E t \in Threads : pc'[t] \in WillSignalClosedReceiver
      BY DEF CloseWakesAll, WillSignalClosedSender, WillSignalClosedReceiver, Woken
    <2> DEFINE Safe ==
          /\ SenderWaiting' # {} => \E t \in Threads : pc'[t] \in WillSignalClosedSender
          /\ ReceiverWaiting' # {} => \E t \in Threads : pc'[t] \in WillSignalClosedReceiver
    <2> USE DEF TypeOK, SenderWaiting, ReceiverWaiting,
                WillSignalClosedSender, WillSignalClosedReceiver, Woken, Goto
    <2>1. ASSUME NEW t \in Threads, Lock(t)
          PROVE  Safe
      <3>1. CallOf(t).op \notin {"sendWait", "receiveWait"}
        <4>1. CallOf(t) \in Call
          BY <2>1, CallOfRunning DEF Lock
        <4> QED
          BY <4>1, <2>1 DEF Lock, Call
      <3>2. pc[t] = "idle" /\ ~isopen /\ pc' = [pc EXCEPT ![t] = CallOf(t).op]
        BY <2>1 DEF Lock, Acquire
      <3> QED
        BY <3>1, <3>2 DEF CloseWakesAll
    <2>2. ASSUME NEW t \in Threads, Relock(t)
          PROVE  Safe
      BY <2>2 DEF Relock, Acquire, CloseWakesAll
    <2>3. ASSUME NEW t \in Threads, SpuriousWakeup(t)
          PROVE  Safe
      BY <2>3 DEF SpuriousWakeup, CloseWakesAll
    <2>4. ASSUME NEW t \in Threads, Send(t) \/ Receive(t)
          PROVE  Safe
      <3>1. ~isopen /\ pc[t] \in {"send", "receive"} /\ pc' = [pc EXCEPT ![t] = "idle"]
        BY <2>4 DEF Send, Receive, Return
      <3> QED
        BY <3>1 DEF CloseWakesAll
    <2>5. ASSUME NEW t \in Threads, SendRecheck(t) \/ ReceiveRecheck(t) \/ Close(t)
          PROVE  Safe
      <3>1. pc' = [pc EXCEPT ![t] = "closedSignalSender"]
        BY <2>5 DEF SendRecheck, ReceiveRecheck, Close, LeaveClosed
      <3> QED
        BY <3>1
    <2>6. ASSUME NEW t \in Threads, SignalReceiver(t) \/ SignalSender(t)
          PROVE  Safe
      <3>1. ~isopen /\ pc[t] \in {"signalReceiver", "signalSender"}
        BY <2>6 DEF SignalReceiver, SignalSender
      <3>2. \/ pc' = [pc EXCEPT ![t] = "idle"]
            \/ \E u \in Threads : pc' = [pc EXCEPT ![t] = "idle", ![u] = "sendWoken"]
                                /\ pc[u] = "sendWait"
            \/ \E u \in Threads : pc' = [pc EXCEPT ![t] = "idle", ![u] = "receiveWoken"]
                                /\ pc[u] = "receiveWait"
        BY <2>6 DEF SignalReceiver, SignalSender, Signal
      <3> QED
        BY <3>1, <3>2 DEF CloseWakesAll
    <2>7. ASSUME NEW t \in Threads, ClosedSignalSender(t)
          PROVE  Safe
      <3>1. ReceiverWaiting' # {} => \E u \in Threads : pc'[u] \in WillSignalClosedReceiver
        <4>1. pc'[t] = "closedSignalReceiver"
          BY <2>7 DEF ClosedSignalSender, Signal
        <4> QED
          BY <4>1
      <3>2. SenderWaiting' # {} => \E u \in Threads : pc'[u] \in WillSignalClosedSender
        BY <2>7 DEF ClosedSignalSender, Signal
      <3> QED
        BY <3>1, <3>2
    <2>8. ASSUME NEW t \in Threads, ClosedSignalReceiver(t)
          PROVE  Safe
      <3>1. ~isopen /\ pc[t] = "closedSignalReceiver"
        BY <2>8 DEF ClosedSignalReceiver
      <3>2. CASE ReceiverWaiting = {}
        BY <2>8, <3>1, <3>2 DEF ClosedSignalReceiver, Signal, CloseWakesAll
      <3>3. CASE \E u \in ReceiverWaiting : pc' = [pc EXCEPT ![t] = "idle", ![u] = "receiveWoken"]
        BY <3>1, <3>3
      <3> QED
        BY <2>8, <3>2, <3>3 DEF ClosedSignalReceiver, Signal
    <2>9. ASSUME NEW t \in Threads, Destroy(t) \/ Free(t) \/ Await(t)
          PROVE  Safe
      <3>1. /\ ~isopen /\ pc[t] \in {"destroy", "freeing", "idle"}
            /\ pc' = [pc EXCEPT ![t] = "idle"] \/ pc' = [pc EXCEPT ![t] = "freeing"]
        BY <2>9 DEF Destroy, Free, Await, Return
      <3>2. /\ pc'[t] \in {"idle", "freeing"}
            /\ \A u \in Threads \ {t} : pc'[u] = pc[u]
        BY <3>1
      <3>3. ASSUME NEW u \in Threads, pc[u] \in WillSignalClosedReceiver
            PROVE  pc'[u] = pc[u]
        BY <3>1, <3>2, <3>3
      <3>4. SenderWaiting' \subseteq SenderWaiting /\ ReceiverWaiting' \subseteq ReceiverWaiting
        BY <3>2
      <3> QED
        BY <3>1, <3>3, <3>4 DEF CloseWakesAll
    <2>10. ASSUME UNCHANGED vars
           PROVE  Safe
      BY <2>10 DEF vars, CloseWakesAll
    <2> HIDE DEF Safe
    <2>11. Safe
      BY <2>1, <2>2, <2>3, <2>4, <2>5, <2>6, <2>7, <2>8, <2>9, <2>10 DEF Next, Step
    <2> QED
      BY <2>11 DEF Safe
  <1> QED
    BY <1>1, <1>2, TypeCorrect, PTL DEF Spec

-----------------------------------------------------------------------------
(* Wakeups: one pthread_cond_signal for each message sent and each one     *)
(* received is enough, for every number of threads and every program: no   *)
(* receiver is ever forgotten, and no sender where the frames have one     *)
(* length.  Receivers first, senders after them.                           *)

(* With everything free the queue is empty: a frame is never empty. *)
LEMMA AllFreeIsEmpty ==
  ASSUME ChannelAssumption, NEW q \in Seq(Payload), NEW avil \in Nat,
         Accounted(q, avil), avil >= Size
  PROVE  q = <<>>
PROOF
  <1>1. PICK free \in [0 .. Len(q) -> Int] :
          /\ free[0] = avil
          /\ free[Len(q)] = Size
          /\ \A i \in 1..Len(q) : free[i] = free[i - 1] + FrameLen[q[i]]
    BY DEF Accounted
  <1> DEFINE Rising == {n \in Nat : n <= Len(q) => free[n] >= avil + n}
  <1>2. 0 \in Rising
    BY <1>1
  <1>3. ASSUME NEW n \in Rising
        PROVE  n + 1 \in Rising
    <2>1. CASE n + 1 <= Len(q)
      <3>1. n + 1 \in 1 .. Len(q) /\ n \in 0 .. Len(q)
        BY <2>1
      <3>2. FrameLen[q[n + 1]] \in Nat \ {0}
        BY <3>1 DEF ChannelAssumption
      <3>3. free[n + 1] = free[n] + FrameLen[q[n + 1]]
        BY <1>1, <3>1
      <3> QED
        BY <3>1, <3>2, <3>3
    <2> QED
      BY <2>1
  <1>4. Rising = Nat
    <2> HIDE DEF Rising
    <2> QED
      BY <1>2, <1>3, NatBySet
  <1>5. Len(q) \in Nat /\ free[Len(q)] >= avil + Len(q)
    BY <1>4
  <1>6. Len(q) = 0
    BY <1>1, <1>5 DEF ChannelAssumption
  <1> QED
    BY <1>6
-----------------------------------------------------------------------------
(* The receivers that are coming are finitely many. *)
LEMMA ComingFinite ==
  ASSUME ChannelAssumption
  PROVE  /\ IsFiniteSet(ReceiversComing) /\ Cardinality(ReceiversComing) \in Nat
         /\ IsFiniteSet(ReceiversComing') /\ Cardinality(ReceiversComing') \in Nat
PROOF
  <1>1. ReceiversComing \in SUBSET Threads /\ ReceiversComing' \in SUBSET Threads
    BY DEF ReceiversComing
  <1> QED
    BY <1>1, FS_Subset, FS_CardinalityType DEF ChannelAssumption

(* Steps after which at least the same receivers are coming. *)
LEMMA ComingKept ==
  ASSUME ChannelAssumption, NoReceiverForgotten, isopen, UNCHANGED queue,
         ReceiverWaiting # {}, ReceiversComing \subseteq ReceiversComing',
         queue \in Seq(Payload)
  PROVE  Cardinality(ReceiversComing') >= Len(queue')
PROOF
  <1>1. Cardinality(ReceiversComing) <= Cardinality(ReceiversComing')
    BY ComingFinite, FS_Subset
  <1> QED
    BY <1>1, ComingFinite DEF NoReceiverForgotten

(* While a receiver waits and the channel is open, a receiver is coming for *)
(* every message in it: buffer_send's one pthread_cond_signal after the     *)
(* release is enough (helper.c:52), whatever comes between, because         *)
(* buffer_receive only waits when nothing is left.                         *)
THEOREM NoReceiverForgottenHolds == Spec => []NoReceiverForgotten
PROOF
  <1>1. Init => NoReceiverForgotten
    BY DEF Init, NoReceiverForgotten, ReceiverWaiting
  <1>2. TypeInv /\ NoReceiverForgotten /\ [Next]_vars => NoReceiverForgotten'
    <2> SUFFICES ASSUME TypeInv, NoReceiverForgotten, [Next]_vars, isopen', ReceiverWaiting' # {}
                 PROVE  Cardinality(ReceiversComing') >= Len(queue')
      BY DEF NoReceiverForgotten
    <2> DEFINE Enough == Cardinality(ReceiversComing') >= Len(queue')
    <2> USE ChannelAssumption
    <2>0. TypeOK /\ queue \in Seq(Payload) /\ avilSize \in Nat
      BY DEF TypeInv, TypeOK
    <2>1. ASSUME NEW t \in Threads, Lock(t)
          PROVE  Enough
      <3>1. CallOf(t).op \in {"send", "receive", "close", "destroy"}
        BY <2>0, <2>1, CallOfRunning DEF Lock, Call
      <3>2. isopen /\ UNCHANGED queue /\ pc[t] = "idle" /\ pc' = [pc EXCEPT ![t] = CallOf(t).op]
        BY <2>1 DEF Lock, Acquire, Goto
      <3>3. ReceiversComing \subseteq ReceiversComing' /\ ReceiverWaiting # {}
        BY <3>1, <3>2, <2>0 DEF ReceiversComing, ReceiverWaiting, TypeOK
      <3> QED
        BY <2>0, <3>2, <3>3, ComingKept
    <2>2. ASSUME NEW t \in Threads, Relock(t) \/ SpuriousWakeup(t)
          PROVE  Enough
      <3>1. ReceiversComing \subseteq ReceiversComing' /\ ReceiverWaiting # {}
        BY <2>0, <2>2 DEF ReceiversComing, ReceiverWaiting, TypeOK, Relock, SpuriousWakeup,
                          Acquire, Goto
      <3>2. isopen /\ UNCHANGED queue
        BY <2>2 DEF Relock, SpuriousWakeup
      <3> QED
        BY <2>0, <3>1, <3>2, ComingKept
    <2>3. ASSUME NEW t \in Threads,
                 SignalSender(t) \/ ClosedSignalSender(t) \/ ClosedSignalReceiver(t)
          PROVE  Enough
      <3>1. ReceiversComing \subseteq ReceiversComing' /\ ReceiverWaiting # {}
        BY <2>0, <2>3 DEF ReceiversComing, ReceiverWaiting, SenderWaiting, TypeOK, SignalSender,
                          ClosedSignalSender, ClosedSignalReceiver, Signal, Goto
      <3>2. isopen /\ UNCHANGED queue
        BY <2>3 DEF SignalSender, ClosedSignalSender, ClosedSignalReceiver
      <3> QED
        BY <2>0, <3>1, <3>2, ComingKept
    <2>4. ASSUME NEW t \in Threads, Destroy(t) \/ Free(t) \/ Await(t)
          PROVE  Enough
      <3>1. ReceiversComing \subseteq ReceiversComing' /\ ReceiverWaiting # {}
        BY <2>0, <2>4 DEF ReceiversComing, ReceiverWaiting, TypeOK, Destroy, Free, Await,
                          Return, Goto
      <3>2. isopen /\ UNCHANGED queue
        BY <2>4 DEF Destroy, Free, Await
      <3> QED
        BY <2>0, <3>1, <3>2, ComingKept
    <2>5. ASSUME NEW t \in Threads, Send(t) \/ SendRecheck(t)
          PROVE  Enough
      <3>1. isopen /\ SendOrWait(t) /\ pc[t] \in {"send", "sendRecheck"}
        BY <2>5 DEF Send, SendRecheck, LeaveClosed
      <3>2. CASE pc' = [pc EXCEPT ![t] = "sendWait"] /\ UNCHANGED queue
        <4>1. ReceiversComing \subseteq ReceiversComing' /\ ReceiverWaiting # {}
          BY <2>0, <3>1, <3>2 DEF ReceiversComing, ReceiverWaiting, TypeOK
        <4> QED
          BY <2>0, <3>1, <3>2, <4>1, ComingKept
      <3>3. CASE /\ pc' = [pc EXCEPT ![t] = "signalReceiver"]
                 /\ queue' = Append(queue, CallOf(t).msg)
        <4>1. /\ ReceiversComing' = ReceiversComing \cup {t} /\ t \notin ReceiversComing
              /\ ReceiverWaiting # {}
          BY <2>0, <3>1, <3>3 DEF ReceiversComing, ReceiverWaiting, TypeOK
        <4>2. Cardinality(ReceiversComing') = Cardinality(ReceiversComing) + 1
          BY <4>1, ComingFinite, FS_AddElement
        <4>3. Len(queue') = Len(queue) + 1
          BY <2>0, <3>3, CallOfRunning, SendMessage, <3>1 DEF TypeInv, CallInv
        <4> QED
          BY <2>0, <3>1, <4>1, <4>2, <4>3, ComingFinite DEF NoReceiverForgotten
      <3> QED
        BY <3>1, <3>2, <3>3 DEF SendOrWait, Goto
    <2>6. ASSUME NEW t \in Threads, Receive(t) \/ ReceiveRecheck(t)
          PROVE  Enough
      <3>1. isopen /\ ReceiveOrWait(t) /\ pc[t] \in {"receive", "receiveRecheck"}
        BY <2>6 DEF Receive, ReceiveRecheck, LeaveClosed
      <3>2. CASE avilSize >= Size /\ UNCHANGED queue
        <4>1. queue = <<>>
          BY <2>0, <3>2, AllFreeIsEmpty DEF TypeInv
        <4> QED
          BY <3>2, <4>1, ComingFinite
      <3>3. CASE /\ avilSize < Size /\ queue' = Tail(queue)
                 /\ pc' = [pc EXCEPT ![t] = "signalSender"]
        <4>1. ReceiversComing' = ReceiversComing \ {t} /\ ReceiverWaiting # {}
          BY <2>0, <3>1, <3>3 DEF ReceiversComing, ReceiverWaiting, TypeOK
        <4>2. Cardinality(ReceiversComing') >= Cardinality(ReceiversComing) - 1
          BY <4>1, ComingFinite, FS_RemoveElement
        <4>3. queue # <<>>
          BY <2>0, <3>3, AccountedRemove DEF TypeInv
        <4>4. Len(queue') = Len(queue) - 1 /\ Len(queue) \in Nat
          BY <2>0, <3>3, <4>3
        <4> QED
          BY <3>1, <4>1, <4>2, <4>4, ComingFinite DEF NoReceiverForgotten
      <3> QED
        BY <3>1, <3>2, <3>3 DEF ReceiveOrWait, Goto
    <2>7. ASSUME NEW t \in Threads, SignalReceiver(t)
          PROVE  Enough
      <3>1. isopen /\ UNCHANGED queue /\ pc[t] = "signalReceiver"
        BY <2>7 DEF SignalReceiver
      <3>2. PICK u \in ReceiverWaiting : pc' = [pc EXCEPT ![t] = "idle", ![u] = "receiveWoken"]
        BY <2>0, <2>7 DEF SignalReceiver, Signal, Goto, ReceiverWaiting, TypeOK
      <3>3. /\ u \in Threads /\ t \in ReceiversComing /\ u \notin ReceiversComing
            /\ ReceiversComing' = (ReceiversComing \ {t}) \cup {u}
        BY <2>0, <3>1, <3>2 DEF ReceiversComing, ReceiverWaiting, TypeOK
      <3>4. /\ IsFiniteSet(ReceiversComing \ {t})
            /\ Cardinality(ReceiversComing \ {t}) = Cardinality(ReceiversComing) - 1
        BY <3>3, ComingFinite, FS_RemoveElement
      <3>5. Cardinality(ReceiversComing') = Cardinality(ReceiversComing \ {t}) + 1
        BY <3>3, <3>4, FS_AddElement
      <3> QED
        BY <2>0, <3>1, <3>2, <3>4, <3>5, ComingFinite DEF NoReceiverForgotten
    <2>8. ASSUME NEW t \in Threads, Close(t)
          PROVE  Enough
      BY <2>8 DEF Close
    <2>9. ASSUME UNCHANGED vars
          PROVE  Enough
      <3>1. isopen /\ UNCHANGED queue /\ UNCHANGED pc
        BY <2>9 DEF vars
      <3>2. ReceiversComing \subseteq ReceiversComing' /\ ReceiverWaiting # {}
        BY <3>1 DEF ReceiversComing, ReceiverWaiting
      <3> QED
        BY <2>0, <3>1, <3>2, ComingKept
    <2> HIDE DEF Enough
    <2>10. Enough
      BY <2>1, <2>2, <2>3, <2>4, <2>5, <2>6, <2>7, <2>8, <2>9 DEF Next, Step
    <2> QED
      BY <2>10 DEF Enough
  <1> QED
    BY <1>1, <1>2, TypeInvHolds, PTL DEF Spec
-----------------------------------------------------------------------------
(* Senders beside an empty queue *)

(* With an empty queue everything is free. *)
LEMMA EmptyIsAllFree ==
  ASSUME NEW avil, Accounted(<<>>, avil)
  PROVE  avil = Size
BY DEF Accounted

(* Every frame is smaller than the buffer. *)
FramesFit == \A m \in Payload : FrameLen[m] < Size

(* A body of buffer_send that starts to wait leaves a message in the queue. *)
LEMMA WaitsBesideMessage ==
  ASSUME ChannelAssumption, FramesFit, TypeInv, NEW t \in Threads,
         pc[t] \in {"send", "sendRecheck"}, SendOrWait(t)
  PROVE  queue' # <<>>
PROOF
  <1>1. CallOf(t).msg \in Payload
    BY CallOfRunning, SendMessage DEF TypeInv, CallInv
  <1>2. CASE NoRoom(CallOf(t).msg) /\ UNCHANGED queue
    <2>1. FrameLen[CallOf(t).msg] \in Nat /\ FrameLen[CallOf(t).msg] < Size
      BY <1>1 DEF ChannelAssumption, FramesFit
    <2>2. avilSize # Size
      BY <1>2, <2>1 DEF NoRoom, TypeInv, TypeOK, ChannelAssumption
    <2> QED
      BY <1>2, <2>2, EmptyIsAllFree DEF TypeInv
  <1>3. CASE queue' = Append(queue, CallOf(t).msg)
    <2>1. queue \in Seq(Payload) /\ queue' = Append(queue, CallOf(t).msg)
      BY <1>3 DEF TypeInv, TypeOK
    <2>2. Len(queue') = Len(queue) + 1 /\ Len(queue) \in Nat
      BY <1>1, <2>1
    <2> QED
      BY <2>2
  <1> QED
    BY <1>2, <1>3 DEF SendOrWait

(* Where every frame is smaller than the buffer, a sender never sleeps      *)
(* beside an empty queue unless a sender is coming: the receiver that took  *)
(* the last message signals chconrec after the release (helper.c:87), and   *)
(* a woken sender adds its message or finds another one there.              *)
THEOREM EmptyQueueWakesSenderHolds ==
  ASSUME FramesFit
  PROVE  Spec => []EmptyQueueWakesSender
PROOF
  <1>1. Init => EmptyQueueWakesSender
    BY DEF Init, EmptyQueueWakesSender, SenderWaiting
  <1>2. TypeInv /\ EmptyQueueWakesSender /\ [Next]_vars => EmptyQueueWakesSender'
    <2> SUFFICES ASSUME TypeInv, EmptyQueueWakesSender, [Next]_vars,
                        isopen', SenderWaiting' # {}, queue' = <<>>
                 PROVE  SendersComing' # {}
      BY DEF EmptyQueueWakesSender
    <2> DEFINE Coming == SendersComing' # {}
    <2> USE ChannelAssumption
    <2>0. TypeOK /\ pc \in [Threads -> PC]
      BY DEF TypeInv, TypeOK
    (* Steps that keep the channel, the waiting senders and those coming. *)
    <2>1. ASSUME isopen, UNCHANGED queue, SenderWaiting # {},
                 SendersComing \subseteq SendersComing'
          PROVE  Coming
      BY <2>1 DEF EmptyQueueWakesSender
    <2>2. ASSUME NEW t \in Threads, Lock(t)
          PROVE  Coming
      <3>1. CallOf(t).op \in {"send", "receive", "close", "destroy"}
        BY <2>0, <2>2, CallOfRunning DEF Lock, Call
      <3>2. isopen /\ UNCHANGED queue /\ pc[t] = "idle" /\ pc' = [pc EXCEPT ![t] = CallOf(t).op]
        BY <2>2 DEF Lock, Acquire, Goto
      <3>3. SendersComing \subseteq SendersComing' /\ SenderWaiting # {}
        BY <2>0, <3>1, <3>2 DEF SendersComing, SenderWaiting
      <3> QED
        BY <2>1, <3>2, <3>3
    <2>3. ASSUME NEW t \in Threads,
                 \/ Relock(t) \/ SpuriousWakeup(t) \/ SignalReceiver(t)
                 \/ Destroy(t) \/ Free(t) \/ Await(t)
          PROVE  Coming
      <3>1. SendersComing \subseteq SendersComing' /\ SenderWaiting # {}
        BY <2>0, <2>3 DEF SendersComing, SenderWaiting, ReceiverWaiting, Relock, SpuriousWakeup,
                          SignalReceiver, Signal, Acquire, Goto, Destroy, Free, Await, Return
      <3>2. isopen /\ UNCHANGED queue
        BY <2>3 DEF Relock, SpuriousWakeup, SignalReceiver, Destroy, Free, Await
      <3> QED
        BY <2>1, <3>1, <3>2
    <2>4. ASSUME NEW t \in Threads, Send(t) \/ SendRecheck(t)
          PROVE  Coming
      <3>1. SendOrWait(t) /\ pc[t] \in {"send", "sendRecheck"}
        BY <2>4 DEF Send, SendRecheck, LeaveClosed
      <3> QED
        BY <3>1, WaitsBesideMessage
    <2>5. ASSUME NEW t \in Threads, Receive(t) \/ ReceiveRecheck(t)
          PROVE  Coming
      <3>1. isopen /\ ReceiveOrWait(t) /\ pc[t] \in {"receive", "receiveRecheck"}
        BY <2>5 DEF Receive, ReceiveRecheck, LeaveClosed
      <3>2. CASE pc' = [pc EXCEPT ![t] = "receiveWait"] /\ UNCHANGED queue
        <4>1. SendersComing \subseteq SendersComing' /\ SenderWaiting # {}
          BY <2>0, <3>1, <3>2 DEF SendersComing, SenderWaiting
        <4> QED
          BY <2>1, <3>1, <3>2, <4>1
      <3>3. CASE pc' = [pc EXCEPT ![t] = "signalSender"]
        <4>1. t \in SendersComing'
          BY <2>0, <3>3 DEF SendersComing
        <4> QED
          BY <4>1
      <3> QED
        BY <3>1, <3>2, <3>3 DEF ReceiveOrWait, Goto
    <2>6. ASSUME NEW t \in Threads, SignalSender(t)
          PROVE  Coming
      <3>1. pc[t] = "signalSender"
        BY <2>6 DEF SignalSender
      <3>2. PICK u \in SenderWaiting : pc' = [pc EXCEPT ![t] = "idle", ![u] = "sendWoken"]
        BY <2>0, <2>6 DEF SignalSender, Signal, Goto, SenderWaiting
      <3>3. u \in SendersComing'
        BY <2>0, <3>1, <3>2 DEF SendersComing, SenderWaiting
      <3> QED
        BY <3>3
    <2>7. ASSUME NEW t \in Threads, ClosedSignalSender(t) \/ ClosedSignalReceiver(t)
          PROVE  Coming
      <3>1. SendersComing \subseteq SendersComing' /\ SenderWaiting # {}
        BY <2>0, <2>7 DEF SendersComing, SenderWaiting, ReceiverWaiting, ClosedSignalSender,
                          ClosedSignalReceiver, Signal, Goto
      <3>2. isopen /\ UNCHANGED queue
        BY <2>7 DEF ClosedSignalSender, ClosedSignalReceiver
      <3> QED
        BY <2>1, <3>1, <3>2
    <2>8. ASSUME NEW t \in Threads, Close(t)
          PROVE  Coming
      BY <2>8 DEF Close
    <2>9. ASSUME UNCHANGED vars
          PROVE  Coming
      <3>1. isopen /\ UNCHANGED queue /\ UNCHANGED pc
        BY <2>9 DEF vars
      <3> QED
        BY <2>1, <3>1 DEF SendersComing, SenderWaiting
    <2> HIDE DEF Coming
    <2>10. Coming
      BY <2>2, <2>3, <2>4, <2>5, <2>6, <2>7, <2>8, <2>9 DEF Next, Step
    <2> QED
      BY <2>10 DEF Coming
  <1> QED
    BY <1>1, <1>2, TypeInvHolds, PTL DEF Spec
-----------------------------------------------------------------------------
(* Senders with frames of one length *)

(* Frames of one length, which is what the driver's tests send.            *)
Uniform(length) == length \in Nat /\ \A m \in Payload : FrameLen[m] = length

(* While a sender waits, the free bytes are spoken for: one frame for each   *)
(* sender coming, and at most one more, in which no further frame fits.      *)
SpokenFor(length) ==
  isopen /\ SenderWaiting # {} =>
    avilSize <= length + length * Cardinality(SendersComing)

(* The senders that are coming are finitely many. *)
LEMMA SendersComingFinite ==
  ASSUME ChannelAssumption
  PROVE  /\ IsFiniteSet(SendersComing) /\ Cardinality(SendersComing) \in Nat
         /\ IsFiniteSet(SendersComing') /\ Cardinality(SendersComing') \in Nat
PROOF
  <1>1. SendersComing \in SUBSET Threads /\ SendersComing' \in SUBSET Threads
    BY DEF SendersComing
  <1> QED
    BY <1>1, FS_Subset, FS_CardinalityType DEF ChannelAssumption

(* More frames take no fewer bytes. *)
LEMMA MoreFrames ==
  ASSUME NEW length \in Nat, NEW a \in Nat, NEW b \in Nat, a <= b
  PROVE  length * a <= length * b
OBVIOUS

(* One frame more takes its length. *)
LEMMA OneFrameMore ==
  ASSUME NEW length \in Nat, NEW a \in Nat
  PROVE  length * (a + 1) = length * a + length
OBVIOUS

(* Steps after which at least the same senders are coming, for no more bytes. *)
LEMMA SpokenForKept ==
  ASSUME ChannelAssumption, NEW length \in Nat, SpokenFor(length), isopen, SenderWaiting # {},
         UNCHANGED avilSize, avilSize \in Nat, SendersComing \subseteq SendersComing'
  PROVE  avilSize' <= length + length * Cardinality(SendersComing')
PROOF
  <1>1. Cardinality(SendersComing) <= Cardinality(SendersComing')
    BY SendersComingFinite, FS_Subset
  <1>2. length * Cardinality(SendersComing) <= length * Cardinality(SendersComing')
    BY <1>1, SendersComingFinite, MoreFrames
  <1>3. /\ length * Cardinality(SendersComing) \in Nat
        /\ length * Cardinality(SendersComing') \in Nat
    BY SendersComingFinite
  <1>4. avilSize <= length + length * Cardinality(SendersComing)
    BY DEF SpokenFor
  <1> QED
    BY <1>2, <1>3, <1>4

(* Every step leaves the free bytes spoken for. *)
LEMMA SpokenForNext ==
  ASSUME ChannelAssumption, NEW length \in Nat, Uniform(length), TypeInv, SpokenFor(length),
         [Next]_vars
  PROVE  SpokenFor(length)'
PROOF
  <1> SUFFICES ASSUME isopen', SenderWaiting' # {}
               PROVE  avilSize' <= length + length * Cardinality(SendersComing')
    BY DEF SpokenFor
  <1> DEFINE Spoken == avilSize' <= length + length * Cardinality(SendersComing')
  <1>0. TypeOK /\ pc \in [Threads -> PC] /\ avilSize \in Nat
    BY DEF TypeInv, TypeOK
  <1>1. ASSUME NEW t \in Threads, Lock(t)
        PROVE  Spoken
    <2>1. CallOf(t).op \in {"send", "receive", "close", "destroy"}
      BY <1>0, <1>1, CallOfRunning DEF Lock, Call
    <2>2. /\ isopen /\ UNCHANGED avilSize /\ pc[t] = "idle"
          /\ pc' = [pc EXCEPT ![t] = CallOf(t).op]
      BY <1>1 DEF Lock, Acquire, Goto
    <2>3. SendersComing \subseteq SendersComing' /\ SenderWaiting # {}
      BY <1>0, <2>1, <2>2 DEF SendersComing, SenderWaiting
    <2> QED
      BY <1>0, <2>2, <2>3, SpokenForKept
  <1>2. ASSUME NEW t \in Threads,
               \/ Relock(t) \/ SpuriousWakeup(t) \/ SignalReceiver(t)
               \/ Destroy(t) \/ Free(t) \/ Await(t)
        PROVE  Spoken
    <2>1. SendersComing \subseteq SendersComing' /\ SenderWaiting # {}
      BY <1>0, <1>2 DEF SendersComing, SenderWaiting, ReceiverWaiting, Relock, SpuriousWakeup,
                        SignalReceiver, Signal, Acquire, Goto, Destroy, Free, Await, Return
    <2>2. isopen /\ UNCHANGED avilSize
      BY <1>2 DEF Relock, SpuriousWakeup, SignalReceiver, Destroy, Free, Await
    <2> QED
      BY <1>0, <2>1, <2>2, SpokenForKept
  <1>3. ASSUME NEW t \in Threads, ClosedSignalSender(t) \/ ClosedSignalReceiver(t)
        PROVE  Spoken
    <2>1. SendersComing \subseteq SendersComing' /\ SenderWaiting # {}
      BY <1>0, <1>3 DEF SendersComing, SenderWaiting, ReceiverWaiting, ClosedSignalSender,
                        ClosedSignalReceiver, Signal, Goto
    <2>2. isopen /\ UNCHANGED avilSize
      BY <1>3 DEF ClosedSignalSender, ClosedSignalReceiver
    <2> QED
      BY <1>0, <2>1, <2>2, SpokenForKept
  <1>4. ASSUME NEW t \in Threads, Send(t) \/ SendRecheck(t)
        PROVE  Spoken
    <2>1. isopen /\ SendOrWait(t) /\ pc[t] \in {"send", "sendRecheck"}
      BY <1>4 DEF Send, SendRecheck, LeaveClosed
    <2>2. CallOf(t).msg \in Payload
      BY <1>0, <2>1, CallOfRunning, SendMessage DEF TypeInv, CallInv
    <2>3. CASE NoRoom(CallOf(t).msg) /\ UNCHANGED avilSize
      <3>1. avilSize <= length
        BY <2>2, <2>3 DEF NoRoom, Uniform
      <3>2. length * Cardinality(SendersComing') \in Nat
        BY SendersComingFinite
      <3> QED
        BY <1>0, <2>3, <3>1, <3>2
    <2>4. CASE /\ avilSize' = avilSize - FrameLen[CallOf(t).msg]
               /\ pc' = [pc EXCEPT ![t] = "signalReceiver"]
      <3>1. SendersComing' = SendersComing \ {t} /\ SenderWaiting # {}
        BY <1>0, <2>1, <2>4 DEF SendersComing, SenderWaiting
      <3>2. Cardinality(SendersComing) <= Cardinality(SendersComing') + 1
        <4>1. Cardinality(SendersComing') \in
                {Cardinality(SendersComing), Cardinality(SendersComing) - 1}
          BY <3>1, SendersComingFinite, FS_RemoveElement
        <4> QED
          BY <4>1, SendersComingFinite
      <3>3. length * Cardinality(SendersComing) <= length * Cardinality(SendersComing') + length
        <4>1. length * Cardinality(SendersComing) <= length * (Cardinality(SendersComing') + 1)
          BY <3>2, SendersComingFinite, MoreFrames
        <4> QED
          BY <4>1, SendersComingFinite, OneFrameMore
      <3>4. avilSize <= length + length * Cardinality(SendersComing)
        BY <2>1, <3>1 DEF SpokenFor
      <3>5. avilSize' = avilSize - length
        BY <2>2, <2>4 DEF Uniform
      <3>6. /\ length * Cardinality(SendersComing) \in Nat
            /\ length * Cardinality(SendersComing') \in Nat
        BY SendersComingFinite
      <3> QED
        BY <1>0, <3>3, <3>4, <3>5, <3>6
    <2> QED
      BY <2>1, <2>3, <2>4 DEF SendOrWait, Goto
  <1>5. ASSUME NEW t \in Threads, Receive(t) \/ ReceiveRecheck(t)
        PROVE  Spoken
    <2>1. isopen /\ ReceiveOrWait(t) /\ pc[t] \in {"receive", "receiveRecheck"}
      BY <1>5 DEF Receive, ReceiveRecheck, LeaveClosed
    <2>2. CASE pc' = [pc EXCEPT ![t] = "receiveWait"] /\ UNCHANGED avilSize
      <3>1. SendersComing \subseteq SendersComing' /\ SenderWaiting # {}
        BY <1>0, <2>1, <2>2 DEF SendersComing, SenderWaiting
      <3> QED
        BY <1>0, <2>1, <2>2, <3>1, SpokenForKept
    <2>3. CASE /\ avilSize < Size /\ avilSize' = avilSize + FrameLen[Head(queue)]
               /\ pc' = [pc EXCEPT ![t] = "signalSender"]
      <3>1. /\ SendersComing' = SendersComing \cup {t} /\ t \notin SendersComing
            /\ SenderWaiting # {}
        BY <1>0, <2>1, <2>3 DEF SendersComing, SenderWaiting
      <3>2. Cardinality(SendersComing') = Cardinality(SendersComing) + 1
        BY <3>1, SendersComingFinite, FS_AddElement
      <3>3. length * Cardinality(SendersComing') = length * Cardinality(SendersComing) + length
        BY <3>2, SendersComingFinite, OneFrameMore
      <3>4. avilSize <= length + length * Cardinality(SendersComing)
        BY <2>1, <3>1 DEF SpokenFor
      <3>5. avilSize' = avilSize + length
        <4>1. Head(queue) \in Payload
          BY <2>3, AccountedRemove DEF TypeInv, TypeOK
        <4> QED
          BY <2>3, <4>1 DEF Uniform
      <3>6. length * Cardinality(SendersComing) \in Nat
        BY SendersComingFinite
      <3> QED
        BY <1>0, <3>3, <3>4, <3>5, <3>6
    <2> QED
      BY <2>1, <2>2, <2>3 DEF ReceiveOrWait, Goto
  <1>6. ASSUME NEW t \in Threads, SignalSender(t)
        PROVE  Spoken
    <2>1. isopen /\ UNCHANGED avilSize /\ pc[t] = "signalSender"
      BY <1>6 DEF SignalSender
    <2>2. PICK u \in SenderWaiting : pc' = [pc EXCEPT ![t] = "idle", ![u] = "sendWoken"]
      BY <1>0, <1>6 DEF SignalSender, Signal, Goto, SenderWaiting
    <2>3. /\ t \in SendersComing /\ u \notin SendersComing
          /\ SendersComing' = (SendersComing \ {t}) \cup {u}
      BY <1>0, <2>1, <2>2 DEF SendersComing, SenderWaiting
    <2>4. /\ IsFiniteSet(SendersComing \ {t})
          /\ Cardinality(SendersComing \ {t}) = Cardinality(SendersComing) - 1
      BY <2>3, SendersComingFinite, FS_RemoveElement
    <2>5. Cardinality(SendersComing') = Cardinality(SendersComing \ {t}) + 1
      BY <2>3, <2>4, FS_AddElement
    <2>6. Cardinality(SendersComing') = Cardinality(SendersComing)
      BY <2>4, <2>5, SendersComingFinite
    <2> QED
      BY <2>1, <2>2, <2>6 DEF SpokenFor
  <1>7. ASSUME NEW t \in Threads, Close(t)
        PROVE  Spoken
    BY <1>7 DEF Close
  <1>8. ASSUME UNCHANGED vars
        PROVE  Spoken
    <2>1. isopen /\ UNCHANGED avilSize /\ UNCHANGED pc
      BY <1>8 DEF vars
    <2> QED
      BY <1>0, <2>1, SpokenForKept DEF SendersComing, SenderWaiting
  <1> HIDE DEF Spoken
  <1>9. Spoken
    BY <1>1, <1>2, <1>3, <1>4, <1>5, <1>6, <1>7, <1>8 DEF Next, Step
  <1> QED
    BY <1>9 DEF Spoken

(* Where every frame has one length, senders are never left behind: when no *)
(* thread can move, the channel is open and has no room for whoever waits.  *)
(* With frames of two lengths this fails (run channel_forgotten).           *)
THEOREM BlockedSenderHasNoSpaceHolds ==
  ASSUME NEW length \in Nat, Uniform(length)
  PROVE  Spec => []BlockedSenderHasNoSpace
PROOF
  <1>1. Init => SpokenFor(length)
    BY DEF Init, SpokenFor, SenderWaiting
  <1>2. TypeInv /\ SpokenFor(length) /\ [Next]_vars => SpokenFor(length)'
    BY ChannelAssumption, SpokenForNext
  <1>3. TypeInv /\ SpokenFor(length) /\ CloseWakesAll => BlockedSenderHasNoSpace
    <2> SUFFICES ASSUME TypeInv, SpokenFor(length), CloseWakesAll,
                        \A t \in Threads : ~CanMove(t), NEW s \in SenderWaiting
                 PROVE  isopen /\ NoRoom(CallOf(s).msg)
      BY DEF BlockedSenderHasNoSpace
    <2>1. \A t \in Threads : pc[t] \in {"idle", "sendWait", "receiveWait"}
      BY DEF CanMove
    <2>2. isopen
      BY <2>1 DEF CloseWakesAll, WillSignalClosedSender, Woken, SenderWaiting
    <2>3. Cardinality(SendersComing) = 0
      <3>1. SendersComing = {}
        BY <2>1 DEF SendersComing
      <3> QED
        BY <3>1, FS_EmptySet
    <2>4. avilSize <= length
      BY <2>2, <2>3 DEF SpokenFor, TypeInv, TypeOK
    <2>5. CallOf(s).msg \in Payload
      BY CallOfRunning, SendMessage DEF TypeInv, CallInv, SenderWaiting
    <2> QED
      BY <2>2, <2>4, <2>5 DEF NoRoom, Uniform
  <1> QED
    BY <1>1, <1>2, <1>3, TypeInvHolds, CloseWakesAllHolds, PTL DEF Spec

-----------------------------------------------------------------------------
(* The free bytes *)

(* f grows by the values of d, for n steps. *)
Grows(f, d, n) == \A i \in 1..n : f[i] = f[i - 1] + d[i]

(* Two functions that start alike and grow alike end alike. *)
LEMMA SameGrowth ==
  ASSUME NEW n \in Nat, NEW f, NEW g, NEW d,
         f[0] = g[0], Grows(f, d, n), Grows(g, d, n)
  PROVE  f[n] = g[n]
PROOF
  <1> USE DEF Grows
  <1> DEFINE Alike == {k \in Nat : k <= n => f[k] = g[k]}
  <1>1. 0 \in Alike /\ Alike \in SUBSET Nat
    OBVIOUS
  <1>2. ASSUME NEW k \in Alike
        PROVE  k + 1 \in Alike
    <2>1. CASE k + 1 <= n
      <3>1. k + 1 \in 1..n /\ (k + 1) - 1 = k /\ f[k] = g[k]
        BY <2>1
      <3> QED
        BY <3>1
    <2> QED
      BY <2>1
  <1>3. Alike = Nat
    <2> HIDE DEF Alike
    <2> QED
      BY <1>1, <1>2, NatBySet
  <1> QED
    BY <1>3

(* The account of BufferChannelProofs says what Channel's recursive sum of   *)
(* the frames says.                                                         *)
LEMMA UsedBytesIs ==
  ASSUME ChannelAssumption, TypeOK, Accounted(queue, avilSize)
  PROVE  Atomic!UsedBytes = Size - avilSize
PROOF
  <1>1. PICK free \in [0 .. Len(queue) -> Int] :
          /\ free[0] = avilSize
          /\ free[Len(queue)] = Size
          /\ \A i \in 1..Len(queue) : free[i] = free[i - 1] + FrameLen[queue[i]]
    BY DEF Accounted
  <1>2. Len(queue) \in Nat /\ avilSize \in Nat /\ Size \in Nat
    BY DEF TypeOK, ChannelAssumption
  <1>3. \A i \in 1 .. Len(queue) : FrameLen[queue[i]] \in Nat
    BY DEF TypeOK, ChannelAssumption
  <1> DEFINE held == [i \in 0 .. Len(queue) |-> free[i] - avilSize]
             IsUsed(f) == f = [i \in 0 .. Len(queue) |->
                                 IF i = 0 THEN 0 ELSE f[i - 1] + FrameLen[queue[i]]]
             frames == [i \in 1 .. Len(queue) |-> FrameLen[queue[i]]]
  <1>4. held[0] = 0
    BY <1>1, <1>2
  <1>5. ASSUME NEW i \in 1 .. Len(queue)
        PROVE  held[i] = held[i - 1] + frames[i]
    <2>1. free[i] = free[i - 1] + FrameLen[queue[i]] /\ free[i - 1] \in Int
      BY <1>1, <1>2
    <2>2. held[i] = free[i] - avilSize /\ held[i - 1] = free[i - 1] - avilSize
      BY <1>2
    <2> HIDE DEF held
    <2> QED
      BY <1>2, <1>3, <2>1, <2>2
  <1>6. IsUsed(held)
    <2>1. ASSUME NEW i \in 0 .. Len(queue)
          PROVE  held[i] = IF i = 0 THEN 0 ELSE held[i - 1] + FrameLen[queue[i]]
      <3>1. i = 0 \/ i \in 1 .. Len(queue)
        BY <1>2
      <3> HIDE DEF held
      <3> QED
        BY <3>1, <1>4, <1>5
    <2> QED
      BY <2>1
  <1>7. Atomic!UsedUpTo = CHOOSE f : IsUsed(f)
    BY DEF Atomic!UsedUpTo
  <1>8. PICK u : u = Atomic!UsedUpTo /\ IsUsed(u)
    <2> HIDE DEF IsUsed, held
    <2> QED
      BY <1>6, <1>7
  <1>9. u[0] = 0 /\ \A i \in 1 .. Len(queue) : u[i] = u[i - 1] + frames[i]
    <2>1. u[0] = 0
      BY <1>2, <1>8
    <2>2. ASSUME NEW i \in 1 .. Len(queue)
          PROVE  u[i] = u[i - 1] + frames[i]
      BY <1>2, <1>8
    <2> QED
      BY <2>1, <2>2
  <1>10. u[Len(queue)] = held[Len(queue)]
    <2>1. u[0] = held[0] /\ Grows(held, frames, Len(queue)) /\ Grows(u, frames, Len(queue))
      BY <1>4, <1>5, <1>9 DEF Grows
    <2> HIDE DEF held, frames
    <2> QED
      BY <1>2, <2>1, SameGrowth
  <1>11. held[Len(queue)] = Size - avilSize
    BY <1>1, <1>2
  <1> QED
    BY <1>8, <1>10, <1>11 DEF Atomic!UsedBytes

(* The bytes that buffer_send and buffer_receive count free are at all times *)
(* those of the capacity that the frames of the messages held leave.         *)
THEOREM SpaceAccountedHolds == Spec => []SpaceAccounted
PROOF
  <1>1. TypeInv => SpaceAccounted
    <2> SUFFICES ASSUME TypeInv
                 PROVE  avilSize = Size - Atomic!UsedBytes
      BY DEF SpaceAccounted
    <2>1. Atomic!UsedBytes = Size - avilSize
      BY ChannelAssumption, UsedBytesIs DEF TypeInv
    <2> QED
      BY <2>1, ChannelAssumption DEF ChannelAssumption, TypeInv, TypeOK
  <1> QED
    BY <1>1, TypeInvHolds, PTL
-----------------------------------------------------------------------------
(* Places *)

(* Where a thread is belongs to the call it makes, and only a closed        *)
(* channel is being freed.                                                  *)
PlaceInv ==
  \A t \in Threads :
    /\ pc[t] \in {"receive", "receiveWait", "receiveWoken", "receiveRecheck"} =>
         CallOf(t).op = "receive"
    /\ pc[t] = "close" => CallOf(t).op = "close"
    /\ pc[t] \in {"destroy", "freeing"} => CallOf(t).op = "destroy"
    /\ pc[t] = "freeing" => ~isopen

(* A step that moves t to a place that asks nothing, and leaves the others. *)
LEMMA PlaceLeft ==
  ASSUME TypeOK, PlaceInv, NEW t \in Threads, UNCHANGED program, isopen' => isopen,
         \/ pc' = [pc EXCEPT ![t] = "idle"]
            /\ \E r \in Results : results' = [results EXCEPT ![t] = Append(@, r)]
         \/ \E l \in Signals \cup {"sendWait"} : pc' = [pc EXCEPT ![t] = l] /\ UNCHANGED results
  PROVE  PlaceInv'
BY DEF PlaceInv, TypeOK, CallOf, Signals

(* A signal moves a waiter to another place of the same call. *)
LEMMA PlaceSignalled ==
  ASSUME TypeOK, PlaceInv, NEW t \in Threads, UNCHANGED <<program, isopen>>, pc[t] \in Signals,
         \/ Signal(t, SenderWaiting, "sendWoken", "closedSignalReceiver") /\ UNCHANGED results
         \/ /\ \/ Signal(t, SenderWaiting, "sendWoken", "idle")
               \/ Signal(t, ReceiverWaiting, "receiveWoken", "idle")
            /\ results' = [results EXCEPT ![t] = Append(@, pending[t])]
  PROVE  PlaceInv'
PROOF
  <1>1. \A u \in Threads \ {t} : /\ results'[u] = results[u]
                               /\ \/ pc'[u] = pc[u]
                                  \/ pc[u] = "sendWait" /\ pc'[u] = "sendWoken"
                                  \/ pc[u] = "receiveWait" /\ pc'[u] = "receiveWoken"
    BY DEF Signal, Goto, SenderWaiting, ReceiverWaiting, TypeOK
  <1>2. pc'[t] \in {"idle", "closedSignalReceiver"}
    BY DEF Signal, Goto, SenderWaiting, ReceiverWaiting, TypeOK, Signals
  <1> QED
    BY <1>1, <1>2 DEF PlaceInv, CallOf

(* Every step keeps the places. *)
LEMMA PlaceNext ==
  ASSUME ChannelAssumption, TypeInv, PlaceInv, [Next]_vars
  PROVE  PlaceInv'
PROOF
  <1>0. TypeOK /\ CallInv
    BY DEF TypeInv
  <1>1. ASSUME NEW t \in Threads, Lock(t)
        PROVE  PlaceInv'
    <2>1. CallOf(t).op \in {"send", "receive", "close", "destroy"}
      BY <1>0, <1>1, CallOfRunning DEF Lock, Call
    <2>2. pc' = [pc EXCEPT ![t] = CallOf(t).op] /\ UNCHANGED <<program, results, isopen>>
      BY <1>1 DEF Lock, Acquire, Goto
    <2> QED
      BY <1>0, <2>1, <2>2 DEF PlaceInv, TypeOK, CallOf
  <1>2. ASSUME NEW t \in Threads, Relock(t) \/ SpuriousWakeup(t)
        PROVE  PlaceInv'
    BY <1>0, <1>2 DEF PlaceInv, TypeOK, Relock, SpuriousWakeup, Acquire, Goto, CallOf
  <1>3. ASSUME NEW t \in Threads, Send(t) \/ SendRecheck(t) \/ Close(t) \/ Free(t) \/ Await(t)
        PROVE  PlaceInv'
    <2>1. /\ UNCHANGED program /\ (isopen' => isopen)
          /\ \/ pc' = [pc EXCEPT ![t] = "idle"]
                /\ \E status \in Statuses : results' = [results EXCEPT ![t] = Append(@, Status(status))]
             \/ \E l \in Signals \cup {"sendWait"} : pc' = [pc EXCEPT ![t] = l] /\ UNCHANGED results
      BY <1>3 DEF Send, SendRecheck, SendOrWait, LeaveClosed, Close, Free, Await, Return, Goto,
                  Signals, Statuses
    <2> QED
      BY <1>0, <2>1, PlaceLeft, StatusType
  <1>4. ASSUME NEW t \in Threads, Receive(t) \/ ReceiveRecheck(t)
        PROVE  PlaceInv'
    <2>1. CASE pc' = [pc EXCEPT ![t] = "receiveWait"] /\ UNCHANGED results
      BY <1>0, <1>4, <2>1 DEF PlaceInv, TypeOK, Receive, ReceiveRecheck, CallOf
    <2>2. CASE ~(pc' = [pc EXCEPT ![t] = "receiveWait"] /\ UNCHANGED results)
      <3>1. /\ UNCHANGED program /\ UNCHANGED isopen
            /\ \/ pc' = [pc EXCEPT ![t] = "idle"]
                  /\ results' = [results EXCEPT ![t] = Append(@, Status("CLOSED_ERROR"))]
               \/ \E l \in Signals : pc' = [pc EXCEPT ![t] = l] /\ UNCHANGED results
        BY <1>4, <2>2 DEF Receive, ReceiveRecheck, ReceiveOrWait, LeaveClosed, Return, Goto,
                          Signals
      <3> QED
        BY <1>0, <3>1, PlaceLeft, StatusType DEF Statuses
    <2> QED
      BY <2>1, <2>2
  <1>5. ASSUME NEW t \in Threads, SignalReceiver(t) \/ SignalSender(t)
                 \/ ClosedSignalSender(t) \/ ClosedSignalReceiver(t)
        PROVE  PlaceInv'
    BY <1>0, <1>5, PlaceSignalled
    DEF SignalReceiver, SignalSender, ClosedSignalSender, ClosedSignalReceiver, Signals
  <1>6. ASSUME NEW t \in Threads, Destroy(t)
        PROVE  PlaceInv'
    <2>1. CASE isopen
      BY <1>0, <1>6, <2>1, PlaceLeft, StatusType DEF Destroy, Return, Statuses
    <2>2. CASE ~isopen
      BY <1>0, <1>6, <2>2 DEF PlaceInv, TypeOK, Destroy, Goto, CallOf
    <2> QED
      BY <2>1, <2>2
  <1>7. CASE UNCHANGED vars
    BY <1>7 DEF vars, PlaceInv, CallOf
  <1> QED
    BY <1>1, <1>2, <1>3, <1>4, <1>5, <1>6, <1>7 DEF Next, Step

(* Both parts of the invariant hold in every state. *)
LEMMA PlaceInvHolds == Spec => [](TypeInv /\ PlaceInv)
PROOF
  <1>1. Init => PlaceInv
    BY DEF Init, PlaceInv
  <1>2. TypeInv /\ PlaceInv /\ [Next]_vars => PlaceInv'
    BY ChannelAssumption, PlaceNext
  <1> QED
    BY <1>1, <1>2, TypeInvHolds, PTL DEF Spec
-----------------------------------------------------------------------------
(* The calls seen from outside *)

(* A step that adds to the results of no thread: a signal in between changes *)
(* nothing, and the return after the last signal was seen before.            *)
LEMMA ReturnedSame ==
  ASSUME \A u \in Threads :
           \/ pc[u] \notin Signals /\ pc'[u] \notin Signals /\ results'[u] = results[u]
           \/ pc[u] \in Signals /\ pc'[u] \in Signals /\ results'[u] = results[u]
                /\ pending'[u] = pending[u]
           \/ pc[u] \in Signals /\ pc'[u] \notin Signals
                /\ results'[u] = Append(results[u], pending[u])
  PROVE  UNCHANGED Returned
BY DEF Returned

(* One result of t is added, at its return or to what it will return. *)
LEMMA ReturnedAppend ==
  ASSUME TypeOK, NEW t \in Threads, NEW r, pc[t] \notin Signals,
         \/ /\ pc' = [pc EXCEPT ![t] = "idle"]
            /\ results' = [results EXCEPT ![t] = Append(@, r)] /\ UNCHANGED pending
         \/ /\ \E l \in Signals : pc' = [pc EXCEPT ![t] = l]
            /\ pending' = [pending EXCEPT ![t] = r] /\ UNCHANGED results
  PROVE  Returned' = [Returned EXCEPT ![t] = Append(@, r)] /\ Returned[t] = results[t]
PROOF
  <1>1. Returned[t] = results[t]
    BY DEF Returned
  <1>2. \A u \in Threads : Returned'[u] = IF u = t THEN Append(results[t], r) ELSE Returned[u]
    BY DEF Returned, TypeOK, Signals
  <1>3. Returned' = [u \in Threads |-> Returned'[u]] /\ Returned = [u \in Threads |-> Returned[u]]
    BY DEF Returned
  <1>4. [Returned EXCEPT ![t] = Append(@, r)] =
          [u \in Threads |-> IF u = t THEN Append(Returned[t], r) ELSE Returned[u]]
    BY <1>3
  <1> QED
    BY <1>1, <1>2, <1>3, <1>4

(* A thread inside a call is, seen from outside, about to make it. *)
LEMMA CallSeen ==
  ASSUME NEW t \in Threads, pc[t] \notin Signals, Running(t)
  PROVE  Atomic!Calls(t, CallOf(t).op) /\ Atomic!CallOf(t) = CallOf(t)
BY DEF Returned, Running, CallOf, Atomic!Calls, Atomic!Running, Atomic!CallOf

(* Both modules build the same results. *)
LEMMA StatusSeen ==
  /\ \A status : Atomic!Status(status) = Status(status)
  /\ \A m : Atomic!Received(m) = Received(m)
BY DEF Status, Result, Received, Atomic!Status, Atomic!Result, Atomic!Received

(* Whoever finds the channel closed is refused. *)
LEMMA RefuseSeen ==
  ASSUME TypeOK, NEW t \in Threads, pc[t] \notin Signals, Running(t), ~isopen,
         CallOf(t).op \in {"send", "receive", "close"},
         Returned' = [Returned EXCEPT ![t] = Append(@, Status("CLOSED_ERROR"))],
         UNCHANGED <<program, isopen, queue, freed>>
  PROVE  Atomic!Next
BY CallSeen, StatusSeen DEF Atomic!Refuse, Atomic!Return, Atomic!Next

(* The loop body of buffer_send waits unseen, or takes effect as a send. *)
LEMMA SendOrWaitSeen ==
  ASSUME ChannelAssumption, TypeInv, NEW t \in Threads, pc[t] \in {"send", "sendRecheck"},
         isopen, SendOrWait(t), UNCHANGED <<program, isopen, freed>>
  PROVE  [Atomic!Next]_(Atomic!vars)
PROOF
  <1>0. TypeOK /\ CallInv /\ pc[t] \notin Signals /\ Running(t) /\ CallOf(t).op = "send"
    BY DEF TypeInv, CallInv, Signals
  <1>1. CASE Goto(t, "sendWait") /\ UNCHANGED <<queue, pending, results>>
    <2>1. UNCHANGED Returned
      <3>1. pc' = [pc EXCEPT ![t] = "sendWait"] /\ pc \in [Threads -> PC]
        BY <1>0, <1>1 DEF Goto, TypeOK
      <3> QED
        BY <1>0, <1>1, <3>1, ReturnedSame DEF Signals
    <2> QED
      BY <1>1, <2>1 DEF Atomic!vars
  <1>2. CASE /\ ~NoRoom(CallOf(t).msg) /\ queue' = Append(queue, CallOf(t).msg)
             /\ pending' = [pending EXCEPT ![t] = Status("SUCCESS")]
             /\ Goto(t, "signalReceiver") /\ UNCHANGED results
    <2>1. Returned' = [Returned EXCEPT ![t] = Append(@, Status("SUCCESS"))]
      BY <1>0, <1>2, ReturnedAppend DEF Goto, Signals
    <2>2. Atomic!Calls(t, "send") /\ Atomic!CallOf(t) = CallOf(t)
      BY <1>0, CallSeen
    <2>3. Atomic!Fits(CallOf(t).msg)
      <3>1. CallOf(t).msg \in Payload
        BY <1>0, CallOfRunning, SendMessage
      <3>2. FrameLen[CallOf(t).msg] \in Nat
        BY <3>1 DEF ChannelAssumption
      <3>3. Atomic!UsedBytes = Size - avilSize
        BY <1>0, UsedBytesIs DEF TypeInv
      <3>4. avilSize \in Nat /\ Size \in Nat /\ avilSize > FrameLen[CallOf(t).msg]
        BY <1>0, <1>2, <3>2 DEF TypeOK, ChannelAssumption, NoRoom
      <3> QED
        BY <3>2, <3>3, <3>4 DEF Atomic!Fits
    <2>4. Atomic!Send(t)
      BY <1>2, <2>1, <2>2, <2>3, StatusSeen DEF Atomic!Send, Atomic!Return
    <2> QED
      BY <2>4 DEF Atomic!Next
  <1> QED
    BY <1>1, <1>2 DEF SendOrWait

(* The loop body of buffer_receive waits unseen, or takes the oldest message. *)
LEMMA ReceiveOrWaitSeen ==
  ASSUME ChannelAssumption, TypeInv, PlaceInv, NEW t \in Threads,
         pc[t] \in {"receive", "receiveRecheck"},
         isopen, ReceiveOrWait(t), UNCHANGED <<program, isopen, freed>>
  PROVE  [Atomic!Next]_(Atomic!vars)
PROOF
  <1>0. TypeOK /\ pc[t] \notin Signals /\ Running(t) /\ CallOf(t).op = "receive"
    BY DEF TypeInv, CallInv, PlaceInv, Signals
  <1>1. CASE Goto(t, "receiveWait") /\ UNCHANGED <<queue, pending, results>>
    <2>1. UNCHANGED Returned
      <3>1. pc' = [pc EXCEPT ![t] = "receiveWait"] /\ pc \in [Threads -> PC]
        BY <1>0, <1>1 DEF Goto, TypeOK
      <3> QED
        BY <1>0, <1>1, <3>1, ReturnedSame DEF Signals
    <2> QED
      BY <1>1, <2>1 DEF Atomic!vars
  <1>2. CASE /\ avilSize < Size /\ queue' = Tail(queue)
             /\ pending' = [pending EXCEPT ![t] = Received(Head(queue))]
             /\ Goto(t, "signalSender") /\ UNCHANGED results
    <2>1. Returned' = [Returned EXCEPT ![t] = Append(@, Received(Head(queue)))]
      BY <1>0, <1>2, ReturnedAppend DEF Goto, Signals
    <2>2. Atomic!Calls(t, "receive")
      BY <1>0, CallSeen
    <2>3. queue # <<>>
      BY <1>0, <1>2, AccountedRemove DEF TypeInv, TypeOK
    <2>4. Atomic!Receive(t)
      BY <1>2, <2>1, <2>2, <2>3, StatusSeen DEF Atomic!Receive, Atomic!Return
    <2> QED
      BY <2>4 DEF Atomic!Next
  <1> QED
    BY <1>1, <1>2 DEF ReceiveOrWait

(* Channel counts with its own copy of Cardinality. *)
LEMMA CardinalitySeen == \A S : Atomic!Cardinality(S) = Cardinality(S)
BY DEF Atomic!Cardinality, Cardinality

(* The caller's wait is over above when it is over below. *)
LEMMA ReachedSeen ==
  ASSUME ChannelAssumption, TypeOK, NEW c \in Call, c.op = "await", Reached(c)
  PROVE  Atomic!Reached(c)
PROOF
  <1> DEFINE below == {u \in c.of : Len(results[u]) >= c.calls}
             above == {u \in c.of : Len(Returned[u]) >= c.calls}
  <1>1. c.of \in SUBSET Threads /\ c.calls \in Nat /\ c.count \in Nat
    BY DEF Call
  <1>2. IsFiniteSet(above)
    BY <1>1, FS_Subset DEF ChannelAssumption
  <1>3. below \subseteq above
    <2>1. ASSUME NEW u \in Threads
          PROVE  Len(Returned[u]) >= Len(results[u]) /\ Len(Returned[u]) \in Nat
                 /\ Len(results[u]) \in Nat
      <3>1. results[u] \in Seq(Results) /\ pending[u] \in Results
        BY DEF TypeOK
      <3>2. Returned[u] = IF pc[u] \in Signals THEN Append(results[u], pending[u]) ELSE results[u]
        BY DEF Returned
      <3> QED
        BY <3>1, <3>2
    <2> QED
      BY <1>1, <2>1
  <1>4. /\ Cardinality(below) <= Cardinality(above)
        /\ Cardinality(below) \in Nat /\ Cardinality(above) \in Nat
    <2> HIDE DEF below, above
    <2> QED
      BY <1>2, <1>3, FS_Subset, FS_CardinalityType
  <1> QED
    BY <1>1, <1>4, CardinalitySeen DEF Reached, Atomic!Reached

(* Every step of the threads is a step of Channel, or unseen. *)
LEMMA StepSeen ==
  ASSUME ChannelAssumption, TypeInv, PlaceInv, [Next]_vars
  PROVE  [Atomic!Next]_(Atomic!vars)
PROOF
  <1>0. TypeOK /\ CallInv /\ pc \in [Threads -> PC] /\ results \in [Threads -> Seq(Results)]
    BY DEF TypeInv, TypeOK
  <1>1. ASSUME NEW t \in Threads, Lock(t)
        PROVE  UNCHANGED Atomic!vars
    <2>1. CallOf(t).op \in {"send", "receive", "close", "destroy"}
      BY <1>0, <1>1, CallOfRunning DEF Lock, Call
    <2>2. UNCHANGED Returned
      BY <1>0, <1>1, <2>1, ReturnedSame DEF Lock, Acquire, Goto, Signals
    <2> QED
      BY <1>1, <2>2 DEF Lock, Atomic!vars
  <1>2. ASSUME NEW t \in Threads, Relock(t) \/ SpuriousWakeup(t)
        PROVE  UNCHANGED Atomic!vars
    <2>1. UNCHANGED Returned
      BY <1>0, <1>2, ReturnedSame DEF Relock, SpuriousWakeup, Acquire, Goto, Signals
    <2> QED
      BY <1>2, <2>1 DEF Relock, SpuriousWakeup, Atomic!vars
  <1>3. ASSUME NEW t \in Threads, SignalReceiver(t) \/ SignalSender(t)
                 \/ ClosedSignalSender(t) \/ ClosedSignalReceiver(t)
        PROVE  UNCHANGED Atomic!vars
    <2>1. UNCHANGED Returned
      BY <1>0, <1>3, ReturnedSame
      DEF SignalReceiver, SignalSender, ClosedSignalSender, ClosedSignalReceiver, Signal, Goto,
          Signals, SenderWaiting, ReceiverWaiting
    <2> QED
      BY <1>3, <2>1
      DEF SignalReceiver, SignalSender, ClosedSignalSender, ClosedSignalReceiver, Atomic!vars
  <1>4. ASSUME NEW t \in Threads, Send(t) \/ SendRecheck(t), isopen
        PROVE  [Atomic!Next]_(Atomic!vars)
    BY <1>4, SendOrWaitSeen DEF Send, SendRecheck, LeaveClosed
  <1>5. ASSUME NEW t \in Threads, Receive(t) \/ ReceiveRecheck(t), isopen
        PROVE  [Atomic!Next]_(Atomic!vars)
    BY <1>5, ReceiveOrWaitSeen DEF Receive, ReceiveRecheck, LeaveClosed
  <1>6. ASSUME NEW t \in Threads, Send(t) \/ SendRecheck(t) \/ Receive(t) \/ ReceiveRecheck(t),
               ~isopen
        PROVE  Atomic!Next
    <2>1. pc[t] \in {"send", "sendRecheck", "receive", "receiveRecheck"}
      BY <1>6 DEF Send, SendRecheck, Receive, ReceiveRecheck
    <2>2. Running(t) /\ CallOf(t).op \in {"send", "receive"} /\ pc[t] \notin Signals
      BY <1>0, <2>1 DEF CallInv, PlaceInv, Signals
    <2>3. Returned' = [Returned EXCEPT ![t] = Append(@, Status("CLOSED_ERROR"))]
      BY <1>0, <1>6, <2>2, ReturnedAppend
      DEF Send, SendRecheck, Receive, ReceiveRecheck, LeaveClosed, Return, Goto, Signals
    <2>4. UNCHANGED <<program, isopen, queue, freed>>
      BY <1>6 DEF Send, SendRecheck, Receive, ReceiveRecheck, LeaveClosed
    <2> QED
      BY <1>0, <1>6, <2>2, <2>3, <2>4, RefuseSeen
  <1>7. ASSUME NEW t \in Threads, Close(t)
        PROVE  Atomic!Next
    <2>1. Running(t) /\ CallOf(t).op = "close" /\ pc[t] \notin Signals
      BY <1>0, <1>7 DEF CallInv, PlaceInv, Signals, Close
    <2>2. Returned' = [Returned EXCEPT ![t] =
            Append(@, Status(IF isopen THEN "SUCCESS" ELSE "CLOSED_ERROR"))]
      BY <1>0, <1>7, <2>1, ReturnedAppend DEF Close, Goto, Signals
    <2>3. CASE isopen
      <3>1. Atomic!Close(t)
        BY <1>7, <2>1, <2>2, <2>3, CallSeen, StatusSeen DEF Close, Atomic!Close, Atomic!Return
      <3> QED
        BY <3>1 DEF Atomic!Next
    <2>4. CASE ~isopen
      <3>1. UNCHANGED <<program, isopen, queue, freed>>
        BY <1>0, <1>7, <2>4 DEF Close, TypeOK
      <3> QED
        BY <1>0, <2>1, <2>2, <2>4, <3>1, RefuseSeen
    <2> QED
      BY <2>3, <2>4
  <1>8. ASSUME NEW t \in Threads, Destroy(t)
        PROVE  [Atomic!Next]_(Atomic!vars)
    <2>1. Running(t) /\ CallOf(t).op = "destroy" /\ pc[t] \notin Signals
      BY <1>0, <1>8 DEF CallInv, PlaceInv, Signals, Destroy
    <2>2. CASE isopen
      <3>1. Returned' = [Returned EXCEPT ![t] = Append(@, Status("DESTROY_ERROR"))]
        BY <1>0, <1>8, <2>1, <2>2, ReturnedAppend DEF Destroy, Return
      <3>2. Atomic!Destroy(t)
        BY <1>8, <2>1, <2>2, <3>1, CallSeen, StatusSeen DEF Destroy, Atomic!Destroy, Atomic!Return
      <3> QED
        BY <3>2 DEF Atomic!Next
    <2>3. CASE ~isopen
      <3>1. UNCHANGED Returned
        BY <1>0, <1>8, <2>1, <2>3, ReturnedSame DEF Destroy, Goto, Signals
      <3> QED
        BY <1>8, <3>1 DEF Destroy, Atomic!vars
    <2> QED
      BY <2>2, <2>3
  <1>9. ASSUME NEW t \in Threads, Free(t)
        PROVE  Atomic!Next
    <2>1. /\ Running(t) /\ CallOf(t).op = "destroy" /\ pc[t] \notin Signals /\ ~isopen
      BY <1>0, <1>9 DEF CallInv, PlaceInv, Signals, Free
    <2>2. Returned' = [Returned EXCEPT ![t] = Append(@, Status("SUCCESS"))]
      BY <1>0, <1>9, <2>1, ReturnedAppend DEF Free, Return
    <2>3. Atomic!Destroy(t)
      BY <1>9, <2>1, <2>2, CallSeen, StatusSeen DEF Free, Atomic!Destroy, Atomic!Return
    <2> QED
      BY <2>3 DEF Atomic!Next
  <1>10. ASSUME NEW t \in Threads, Await(t)
         PROVE  Atomic!Next
    <2>1. Running(t) /\ CallOf(t).op = "await" /\ pc[t] \notin Signals /\ CallOf(t) \in Call
      BY <1>0, <1>10, CallOfRunning DEF Signals, Await
    <2>2. Returned' = [Returned EXCEPT ![t] = Append(@, Status("SUCCESS"))]
      BY <1>0, <1>10, <2>1, ReturnedAppend DEF Await, Return
    <2>3. Atomic!Reached(CallOf(t))
      BY <1>0, <1>10, <2>1, ReachedSeen DEF Await
    <2>4. Atomic!Await(t)
      BY <1>10, <2>1, <2>2, <2>3, CallSeen, StatusSeen DEF Await, Atomic!Await, Atomic!Return
    <2> QED
      BY <2>4 DEF Atomic!Next
  <1>11. ASSUME UNCHANGED vars
         PROVE  UNCHANGED Atomic!vars
    BY <1>11 DEF vars, Atomic!vars, Returned
  <1> QED
    BY <1>1, <1>2, <1>3, <1>4, <1>5, <1>6, <1>7, <1>8, <1>9, <1>10, <1>11 DEF Next, Step

(* Whatever the threads, the programs and the frames, the calls of the      *)
(* channel take effect one at a time as Channel allows: each at its         *)
(* critical section, whose result its caller sees after the signals.        *)
THEOREM ImplementsChannelHolds == Spec => ImplementsChannel
PROOF
  <1>1. Init => Atomic!Init
    BY DEF Init, Atomic!Init, Returned, Signals
  <1>2. TypeInv /\ PlaceInv /\ [Next]_vars => [Atomic!Next]_(Atomic!vars)
    BY ChannelAssumption, StepSeen
  <1> QED
    BY <1>1, <1>2, PlaceInvHolds, PTL DEF Spec, ImplementsChannel, Atomic!Spec
-----------------------------------------------------------------------------
(* The end of the channel *)

(* What a step does to a thread: it stays where it was in its call, begins *)
(* a call of the channel, returns from one, or has awaited others.         *)
ThreadStep(u) ==
  \/ /\ results'[u] = results[u]
     /\ pc'[u] # "idle" => pc[u] # "idle" \/ CallOf(u).op # "await"
  \/ /\ \E r \in Results : results'[u] = Append(results[u], r)
     /\ pc'[u] = "idle"
     /\ Running(u)
     /\ pc[u] # "idle" \/ Reached(CallOf(u))

(* In a step of the system every thread takes a step of its own or none. *)
LEMMA ThreadSteps ==
  ASSUME ChannelAssumption, TypeInv, [Next]_vars
  PROVE  program' = program /\ \A u \in Threads : ThreadStep(u)
PROOF
  <1>0. TypeOK /\ CallInv
    BY DEF TypeInv
  <1>1. ASSUME NEW t \in Threads, Lock(t)
        PROVE  \A u \in Threads : ThreadStep(u)
    BY <1>0, <1>1 DEF Lock, Acquire, Goto, ThreadStep, TypeOK
  <1>2. ASSUME NEW t \in Threads, Relock(t) \/ SpuriousWakeup(t)
        PROVE  \A u \in Threads : ThreadStep(u)
    BY <1>0, <1>2 DEF Relock, SpuriousWakeup, Acquire, Goto, ThreadStep, TypeOK
  <1>3. ASSUME NEW t \in Threads, pc[t] # "idle", UNCHANGED results,
               \E l \in PC : pc' = [pc EXCEPT ![t] = l]
        PROVE  \A u \in Threads : ThreadStep(u)
    BY <1>0, <1>3 DEF ThreadStep, TypeOK
  <1>4. ASSUME NEW t \in Threads, Running(t), pc[t] # "idle" \/ Reached(CallOf(t)),
               NEW r \in Results, Return(t, r)
        PROVE  \A u \in Threads : ThreadStep(u)
    BY <1>0, <1>4 DEF Return, ThreadStep, TypeOK
  <1>5. ASSUME NEW t \in Threads, Send(t) \/ SendRecheck(t) \/ Receive(t) \/ ReceiveRecheck(t)
                 \/ Close(t) \/ Destroy(t) \/ Free(t) \/ Await(t)
        PROVE  \A u \in Threads : ThreadStep(u)
    <2>1. pc[t] # "idle" \/ Await(t)
      BY <1>5 DEF Send, SendRecheck, Receive, ReceiveRecheck, Close, Destroy, Free
    <2>2. Running(t) /\ (pc[t] # "idle" \/ Reached(CallOf(t)))
      BY <1>0, <2>1 DEF CallInv, Await
    <2>3. \/ UNCHANGED results /\ pc[t] # "idle" /\ \E l \in PC : pc' = [pc EXCEPT ![t] = l]
          \/ \E status \in Statuses : Return(t, Status(status))
      BY <1>5 DEF Send, SendRecheck, Receive, ReceiveRecheck, Close, Destroy, Free, Await,
                  SendOrWait, ReceiveOrWait, LeaveClosed, Goto, PC, Signals, Statuses
    <2> QED
      BY <1>3, <1>4, <2>2, <2>3, StatusType
  <1>6. ASSUME NEW t \in Threads, SignalReceiver(t) \/ SignalSender(t)
                 \/ ClosedSignalSender(t) \/ ClosedSignalReceiver(t)
        PROVE  \A u \in Threads : ThreadStep(u)
    <2>1. pc[t] # "idle" /\ Running(t) /\ pc[t] \in Signals
      BY <1>0, <1>6 DEF SignalReceiver, SignalSender, ClosedSignalSender, ClosedSignalReceiver,
                        CallInv, Signals
    <2>2. \/ Signal(t, SenderWaiting, "sendWoken", "closedSignalReceiver") /\ UNCHANGED results
          \/ /\ \/ Signal(t, SenderWaiting, "sendWoken", "idle")
                \/ Signal(t, ReceiverWaiting, "receiveWoken", "idle")
             /\ results' = [results EXCEPT ![t] = Append(@, pending[t])]
      BY <1>6 DEF SignalReceiver, SignalSender, ClosedSignalSender, ClosedSignalReceiver
    <2>3. \A u \in Threads \ {t} :
            results'[u] = results[u] /\ (pc'[u] = pc[u] \/ pc[u] # "idle")
      BY <1>0, <2>1, <2>2 DEF Signal, Goto, SenderWaiting, ReceiverWaiting, TypeOK
    <2>4. \/ results'[t] = results[t]
          \/ pc'[t] = "idle" /\ results'[t] = Append(results[t], pending[t])
      BY <1>0, <2>1, <2>2 DEF Signal, Goto, SenderWaiting, ReceiverWaiting, TypeOK, Signals
    <2>5. pending[t] \in Results
      BY <1>0 DEF TypeOK
    <2> QED
      BY <2>1, <2>3, <2>4, <2>5 DEF ThreadStep
  <1>7. CASE UNCHANGED vars
    BY <1>7 DEF vars, ThreadStep
  <1>8. program' = program
    BY DEF Next, Step, vars, Lock, Relock, SpuriousWakeup, Send, SendRecheck, Receive,
           ReceiveRecheck, SignalReceiver, SignalSender, Close, ClosedSignalSender,
           ClosedSignalReceiver, Destroy, Free, Await
  <1> QED
    BY <1>1, <1>2, <1>5, <1>6, <1>7, <1>8 DEF Next, Step

(* Awaited calls have been made; a closed channel was closed by a call, and *)
(* a freed one by a destroy that was the last call of all.                  *)
EndInv ==
  /\ program \in Programs
  /\ \A t \in Threads :
       /\ Len(results[t]) <= Len(program[t])
       /\ pc[t] # "idle" => CallOf(t).op # "await"
       /\ \A j \in 1 .. Len(results[t]) : program[t][j].op = "await" => Reached(program[t][j])
  /\ ~isopen => \E t \in Threads : \E j \in DOMAIN program[t] :
                  j <= Len(results[t]) + 1 /\ program[t][j].op = "close"
  /\ freed => \E t \in Threads : \E i \in 1 .. Len(results[t]) : IsLast(program, t, i)

(* The fields of a call that waits. *)
LEMMA AwaitFields ==
  ASSUME NEW c \in Call, c.op = "await"
  PROVE  c.of \in SUBSET Threads /\ c.calls \in Nat /\ c.count \in Nat
BY DEF Call

(* What was reached stays reached, as threads only return from more calls. *)
LEMMA ReachedKept ==
  ASSUME ChannelAssumption, NEW c \in Call, c.op = "await", Reached(c),
         \A u \in Threads : Len(results[u]) \in Nat /\ Len(results'[u]) \in Nat
                              /\ Len(results[u]) <= Len(results'[u])
  PROVE  Reached(c)'
PROOF
  <1> DEFINE before == {u \in c.of : Len(results[u]) >= c.calls}
             after == {u \in c.of : Len(results'[u]) >= c.calls}
  <1>1. c.of \in SUBSET Threads /\ c.calls \in Nat /\ c.count \in Nat
    BY AwaitFields
  <1>2. IsFiniteSet(after)
    BY <1>1, FS_Subset DEF ChannelAssumption
  <1>3. before \in SUBSET after
    BY <1>1
  <1> HIDE DEF before, after
  <1>4. IsFiniteSet(before) /\ Cardinality(before) <= Cardinality(after)
    BY <1>2, <1>3, FS_Subset
  <1>5. Cardinality(before) \in Nat /\ Cardinality(after) \in Nat
    BY <1>2, <1>4, FS_CardinalityType
  <1>6. Cardinality(before) >= c.count
    BY DEF Reached, before
  <1>7. Cardinality(after) >= c.count
    BY <1>1, <1>4, <1>5, <1>6
  <1> QED
    BY <1>7 DEF Reached, after

(* Every step keeps what is known of awaited, closing and destroying calls. *)
LEMMA EndNext ==
  ASSUME ChannelAssumption, JoinsBeforeDestroy, TypeInv, PlaceInv, EndInv, [Next]_vars
  PROVE  EndInv'
PROOF
  <1>0. /\ program \in [Threads -> Seq(Call)] /\ results \in [Threads -> Seq(Results)]
        /\ results' \in [Threads -> Seq(Results)] /\ isopen \in BOOLEAN
    <2>1. TypeInv'
      BY TypeInvNext
    <2> QED
      BY <2>1 DEF TypeInv, TypeOK
  <1>1. program' = program /\ \A u \in Threads : ThreadStep(u)
    BY ThreadSteps
  <1>2. \A u \in Threads :
          /\ Len(results[u]) \in Nat /\ Len(results'[u]) \in Nat
          /\ Len(results[u]) <= Len(results'[u])
    <2> SUFFICES ASSUME NEW u \in Threads
                 PROVE  /\ Len(results[u]) \in Nat /\ Len(results'[u]) \in Nat
                        /\ Len(results[u]) <= Len(results'[u])
      OBVIOUS
    <2>1. results[u] \in Seq(Results) /\ results'[u] \in Seq(Results)
      BY <1>0
    <2>2. results'[u] = results[u] \/ \E r \in Results : results'[u] = Append(results[u], r)
      BY <1>1 DEF ThreadStep
    <2> QED
      BY <2>1, <2>2
  <1>3. ASSUME NEW t \in Threads
        PROVE  /\ Len(results'[t]) <= Len(program[t])
               /\ pc'[t] # "idle" => CallOf(t)'.op # "await"
               /\ \A j \in 1 .. Len(results'[t]) :
                    program[t][j].op = "await" => Reached(program[t][j])'
    <2>1. \/ /\ results'[t] = results[t]
             /\ pc'[t] # "idle" => CallOf(t).op # "await"
          \/ /\ \E r \in Results : results'[t] = Append(results[t], r)
             /\ pc'[t] = "idle" /\ Running(t)
             /\ CallOf(t).op = "await" => Reached(CallOf(t))
      BY <1>1 DEF ThreadStep, EndInv
    <2>2. Len(results'[t]) <= Len(program[t])
      BY <1>0, <2>1 DEF EndInv, Running
    <2>3. pc'[t] # "idle" => CallOf(t)'.op # "await"
      BY <1>1, <2>1 DEF CallOf
    <2>4. ASSUME NEW j \in 1 .. Len(results'[t]), program[t][j].op = "await"
          PROVE  Reached(program[t][j])'
      <3>1. program[t][j] \in Call
        BY <1>0, <1>2, <2>2
      <3>2. Reached(program[t][j])
        <4>1. CASE j <= Len(results[t])
          BY <1>2, <2>4, <4>1 DEF EndInv
        <4>2. CASE ~(j <= Len(results[t]))
          <5>1. j = Len(results[t]) + 1 /\ (CallOf(t).op = "await" => Reached(CallOf(t)))
            BY <1>0, <1>2, <2>1, <4>2
          <5> QED
            BY <2>4, <5>1 DEF CallOf
        <4> QED
          BY <4>1, <4>2
      <3> DEFINE c == program[t][j]
      <3>3. c' = c
        BY <1>1
      <3>4. c \in Call /\ c.op = "await" /\ Reached(c)
        BY <2>4, <3>1, <3>2
      <3> QED
        BY <1>2, <3>4, <1>1, ReachedKept DEF Reached
    <2> QED
      BY <2>2, <2>3, <2>4
  <1>4. ASSUME ~isopen'
        PROVE  \E t \in Threads : \E j \in DOMAIN program[t] :
                 j <= Len(results'[t]) + 1 /\ program[t][j].op = "close"
    <2>1. CASE ~isopen
      <3>0. PICK t \in Threads : \E j \in DOMAIN program[t] :
              j <= Len(results[t]) + 1 /\ program[t][j].op = "close"
        BY <2>1 DEF EndInv
      <3>1. PICK j \in DOMAIN program[t] :
              j <= Len(results[t]) + 1 /\ program[t][j].op = "close"
        BY <3>0
      <3>2. j <= Len(results'[t]) + 1
        BY <1>0, <1>2, <3>1
      <3> QED
        BY <3>1, <3>2
    <2>2. CASE isopen
      <3>1. PICK t \in Threads : Close(t)
        BY <1>4, <2>2
        DEF Next, Step, vars, Lock, Relock, SpuriousWakeup, Send, SendRecheck, Receive,
            ReceiveRecheck, SignalReceiver, SignalSender, ClosedSignalSender,
            ClosedSignalReceiver, Destroy, Free, Await
      <3>2. Running(t) /\ CallOf(t).op = "close"
        BY <3>1 DEF Close, TypeInv, CallInv, PlaceInv
      <3>3. Len(results[t]) + 1 \in DOMAIN program[t]
        BY <1>0, <3>2 DEF Running
      <3> QED
        BY <1>2, <3>2, <3>3 DEF CallOf
    <2> QED
      BY <2>1, <2>2
  <1>5. ASSUME freed'
        PROVE  \E t \in Threads : \E i \in 1 .. Len(results'[t]) : IsLast(program, t, i)
    <2>1. CASE freed
      <3>0. PICK t \in Threads : \E i \in 1 .. Len(results[t]) : IsLast(program, t, i)
        BY <2>1 DEF EndInv
      <3>1. PICK i \in 1 .. Len(results[t]) : IsLast(program, t, i)
        BY <3>0
      <3>2. i \in 1 .. Len(results'[t])
        BY <1>2
      <3> QED
        BY <3>1, <3>2
    <2>2. CASE ~freed
      <3>1. PICK t \in Threads : Free(t)
        BY <1>5, <2>2
        DEF Next, Step, vars, Lock, Relock, SpuriousWakeup, Send, SendRecheck, Receive,
            ReceiveRecheck, SignalReceiver, SignalSender, Close, ClosedSignalSender,
            ClosedSignalReceiver, Destroy, Await
      <3>2. Running(t) /\ CallOf(t).op = "destroy" /\ ~isopen
        BY <3>1 DEF Free, TypeInv, CallInv, PlaceInv
      <3> DEFINE i == Len(results[t]) + 1
      <3>3. i \in DOMAIN program[t] /\ program[t][i].op = "destroy"
        BY <1>0, <3>2 DEF Running, CallOf
      <3>4. ~NotClosedBefore(program, t, i)
        <4>0. PICK u \in Threads : \E j \in DOMAIN program[u] :
                j <= Len(results[u]) + 1 /\ program[u][j].op = "close"
          BY <3>2 DEF EndInv
        <4>1. PICK j \in DOMAIN program[u] :
                j <= Len(results[u]) + 1 /\ program[u][j].op = "close"
          BY <4>0
        <4>2. j \in Int
          BY <1>0
        <4> QED
          BY <1>2, <4>1, <4>2 DEF NotClosedBefore
      <3>5. IsLast(program, t, i)
        <4> HIDE DEF i
        <4> QED
          BY <3>3, <3>4 DEF JoinsBeforeDestroy, EndInv
      <3>6. i \in 1 .. Len(results'[t])
        BY <1>0, <3>1 DEF Free, Return
      <3> QED
        BY <3>5, <3>6
    <2> QED
      BY <2>1, <2>2
  <1> QED
    BY <1>1, <1>3, <1>4, <1>5 DEF EndInv

(* A thread that is idle and has made its first k calls, those after which *)
(* only await, uses the channel no more.                                   *)
LEMMA UsesNoMore ==
  ASSUME TypeInv, EndInv, NEW t \in Threads, NEW k \in Nat, OnlyAwaits(program, t, k),
         Len(results[t]) >= k
  PROVE  pc[t] = "idle" /\ (Running(t) => CallOf(t).op = "await")
PROOF
  <1>1. Len(results[t]) \in Nat /\ Len(program[t]) \in Nat
    BY DEF TypeInv, TypeOK
  <1>2. Running(t) => CallOf(t).op = "await"
    BY <1>1 DEF Running, CallOf, OnlyAwaits
  <1>3. pc[t] # "idle" => Running(t) /\ CallOf(t).op # "await"
    BY DEF TypeInv, CallInv, EndInv
  <1> QED
    BY <1>2, <1>3

(* An await that names all the threads able to make so many calls has seen *)
(* every one of them make them.                                            *)
LEMMA AwaitedAll ==
  ASSUME ChannelAssumption, TypeInv, EndInv, NEW t \in Threads, NEW j \in 1 .. Len(results[t]),
         NEW u \in Threads, AwaitsAll(program, program[t][j], u)
  PROVE  pc[u] = "idle" /\ (Running(u) => CallOf(u).op = "await")
PROOF
  <1>1. /\ \A v \in Threads : Len(results[v]) \in Nat /\ Len(program[v]) \in Nat
                                /\ Len(results[v]) <= Len(program[v])
        /\ program[t] \in Seq(Call)
    BY DEF TypeInv, TypeOK, EndInv
  <1>2. PICK c \in Call : c = program[t][j] /\ c.op = "await" /\ Reached(c)
    <2>1. program[t][j] \in Call
      BY <1>1
    <2> QED
      BY <2>1 DEF AwaitsAll, EndInv
  <1>3. c.of \in SUBSET Threads /\ c.calls \in Nat /\ c.count \in Nat
    BY <1>2, AwaitFields
  <1> DEFINE able == {v \in c.of : Len(program[v]) >= c.calls}
             done == {v \in c.of : Len(results[v]) >= c.calls}
  <1>4. u \in able /\ c.count >= Cardinality(able) /\ OnlyAwaits(program, u, c.calls)
    BY <1>2 DEF AwaitsAll
  <1>5. Cardinality(done) >= c.count
    BY <1>2 DEF Reached
  <1>6. IsFiniteSet(able)
    BY <1>3, FS_Subset DEF ChannelAssumption
  <1>7. done \in SUBSET able
    BY <1>1, <1>3
  <1>8. u \in done
    <2> HIDE DEF done, able
    <2>1. IsFiniteSet(done) /\ Cardinality(done) <= Cardinality(able)
          /\ (Cardinality(able) = Cardinality(done) => able = done)
      BY <1>6, <1>7, FS_Subset
    <2>2. Cardinality(done) \in Nat /\ Cardinality(able) \in Nat
      BY <1>6, <2>1, FS_CardinalityType
    <2> QED
      BY <1>3, <1>4, <1>5, <2>1, <2>2
  <1> QED
    BY <1>3, <1>4, <1>8, UsesNoMore

(* For any threads, messages and programs that call buffer_destroy only on *)
(* a channel nobody can have closed, or when all the calls of the others   *)
(* have been awaited: no thread is inside the channel, or will enter it,   *)
(* once its memory is freed.  TLC evaluates the condition for the programs *)
(* of driver.c.                                                             *)
THEOREM NoUseAfterDestroyHolds ==
  ASSUME JoinsBeforeDestroy
  PROVE  Spec => []NoUseAfterDestroy
PROOF
  <1>1. Init => EndInv
    BY DEF Init, EndInv, ChannelAssumption
  <1>2. TypeInv /\ PlaceInv /\ EndInv /\ [Next]_vars => EndInv'
    BY ChannelAssumption, EndNext
  <1>3. TypeInv /\ EndInv => NoUseAfterDestroy
    <2> SUFFICES ASSUME TypeInv, EndInv, freed, NEW u \in Threads
                 PROVE  pc[u] = "idle" /\ (Running(u) => CallOf(u).op = "await")
      BY DEF NoUseAfterDestroy
    <2>0. PICK t \in Threads : \E i \in 1 .. Len(results[t]) : IsLast(program, t, i)
      BY DEF EndInv
    <2>1. PICK i \in 1 .. Len(results[t]) : IsLast(program, t, i)
      BY <2>0
    <2>2. Len(results[t]) \in Nat /\ Len(results[u]) \in Nat
      BY DEF TypeInv, TypeOK
    <2>3. CASE u = t
      BY <2>1, <2>2, <2>3, UsesNoMore DEF IsLast
    <2>4. CASE u # t /\ OnlyAwaits(program, u, 0)
      BY <2>2, <2>4, UsesNoMore
    <2>5. CASE u # t /\ ~OnlyAwaits(program, u, 0)
      <3>1. PICK j \in 1 .. i - 1 : AwaitsAll(program, program[t][j], u)
        BY <2>1, <2>5 DEF IsLast
      <3>2. j \in 1 .. Len(results[t])
        BY <2>2
      <3> QED
        BY <3>1, <3>2, ChannelAssumption, AwaitedAll
    <2> QED
      BY <2>3, <2>4, <2>5
  <1> QED
    BY <1>1, <1>2, <1>3, PlaceInvHolds, PTL DEF Spec
=============================================================================
