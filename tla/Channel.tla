------------------------------- MODULE Channel -------------------------------
(***************************************************************************)
(* What buffer.h promises of the blocking channel: every call takes effect *)
(* at one instant.  A send appends to a FIFO of messages bounded in bytes, *)
(* a receive takes the oldest message, and once the channel is closed both *)
(* only return CLOSED_ERROR.  A call whose guard is false is still blocked. *)
(* BufferChannel, with its mutex and condition variables, implements this. *)
(***************************************************************************)
EXTENDS Integers, Sequences, FiniteSets

CONSTANTS
  Threads,        (* the calling threads                                   *)
  Payload,        (* the messages                                          *)
  FrameLen,       (* FrameLen[m] = get_msg_size(m)                          *)
  Size,           (* capacity in bytes                                     *)
  SpecialMessage, (* the string "splmsg"                                   *)
  Programs        (* the sets of calls the threads may make, in order      *)

VARIABLES
  program,        (* program[t]: the calls thread t makes                  *)
  isopen,         (* state_t.isopen                                        *)
  queue,          (* the messages held                                     *)
  freed,          (* the channel has been destroyed                        *)
  results         (* results[t]: what the calls of t returned so far       *)

vars == <<program, isopen, queue, freed, results>>

Result(status, msg) == [status |-> status, msg |-> msg]
Status(status) == Result(status, "none")

(* Every call a program may contain. *)
Call ==
  [op : {"send"}, msg : Payload] \cup [op : {"receive", "close", "destroy"}]
    \cup [op : {"await"}, of : SUBSET Threads, calls : Nat, count : Nat]

Running(t) == Len(results[t]) < Len(program[t])
CallOf(t) == program[t][Len(results[t]) + 1]
Calls(t, op) == Running(t) /\ CallOf(t).op = op
Return(t, result) == results' = [results EXCEPT ![t] = Append(@, result)]

Received(m) ==
  Result(IF m = SpecialMessage THEN "SPECIAL_MESSAGE" ELSE "SUCCESS", m)

(* The bytes of the first i messages held. *)
UsedUpTo[i \in 0..Len(queue)] ==
  IF i = 0 THEN 0 ELSE UsedUpTo[i - 1] + FrameLen[queue[i]]
UsedBytes == UsedUpTo[Len(queue)]
Fits(m) == UsedBytes + FrameLen[m] < Size

Init ==
  /\ program \in Programs
  /\ isopen = TRUE
  /\ queue = <<>>
  /\ freed = FALSE
  /\ results = [t \in Threads |-> <<>>]

Send(t) ==
  /\ Calls(t, "send")
  /\ isopen
  /\ Fits(CallOf(t).msg)
  /\ queue' = Append(queue, CallOf(t).msg)
  /\ Return(t, Status("SUCCESS"))
  /\ UNCHANGED <<program, isopen, freed>>

Receive(t) ==
  /\ Calls(t, "receive")
  /\ isopen
  /\ queue # <<>>
  /\ queue' = Tail(queue)
  /\ Return(t, Received(Head(queue)))
  /\ UNCHANGED <<program, isopen, freed>>

Refuse(t) ==
  /\ Calls(t, "send") \/ Calls(t, "receive") \/ Calls(t, "close")
  /\ ~isopen
  /\ Return(t, Status("CLOSED_ERROR"))
  /\ UNCHANGED <<program, isopen, queue, freed>>

Close(t) ==
  /\ Calls(t, "close")
  /\ isopen
  /\ isopen' = FALSE
  /\ Return(t, Status("SUCCESS"))
  /\ UNCHANGED <<program, queue, freed>>

Destroy(t) ==
  /\ Calls(t, "destroy")
  /\ \/ isopen /\ Return(t, Status("DESTROY_ERROR")) /\ UNCHANGED freed
     \/ ~isopen /\ Return(t, Status("SUCCESS")) /\ freed' = TRUE
  /\ UNCHANGED <<program, isopen, queue>>

(* The caller's own synchronisation: pthread_create and pthread_join, or *)
(* sem_wait on a semaphore that threads post when they are done.         *)
Reached(call) ==
  Cardinality({u \in call.of : Len(results[u]) >= call.calls}) >= call.count

Await(t) ==
  /\ Calls(t, "await")
  /\ Reached(CallOf(t))
  /\ Return(t, Status("SUCCESS"))
  /\ UNCHANGED <<program, isopen, queue, freed>>

Next == \E t \in Threads :
  Send(t) \/ Receive(t) \/ Refuse(t) \/ Close(t) \/ Destroy(t) \/ Await(t)

Spec == Init /\ [][Next]_vars
=============================================================================
