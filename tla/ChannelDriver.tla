---------------------------- MODULE ChannelDriver ----------------------------
(***************************************************************************)
(* The channel under the programs of driver.c's own tests, with fewer      *)
(* worker threads.  pthread_create, pthread_join, and sem_wait on the      *)
(* semaphore that direct_send and direct_receive post, are the call await: *)
(* a thread created in the middle of a test first waits for the calls its  *)
(* creator makes before.  usleep is no synchronisation and is left out, as *)
(* are the measurements of CPU time.  Every test has a channel of its own; *)
(* here all are of 25 bytes and the messages are chosen so that as many    *)
(* fit as in the test, as far as the test depends on it.                   *)
(***************************************************************************)
EXTENDS BufferChannel

CONSTANTS
  Main,       (* the thread that runs the test                             *)
  Worker      (* Worker[i]: the i-th thread it creates                      *)

Workers == {Worker[i] : i \in DOMAIN Worker}

ASSUME DriverAssumption ==
  /\ Threads = {Main} \cup Workers
  /\ Main \notin Workers

(* The strings and get_msg_size of each. *)
DriverFrameLen ==
  [Message |-> 12, PSU |-> 8, CMPSC |-> 10, MoNdAy |-> 11, five |-> 9]

SendOf(m) == [op |-> "send", msg |-> m]
ReceiveCall == [op |-> "receive"]
CloseCall == [op |-> "close"]
DestroyCall == [op |-> "destroy"]
AwaitCalls(S, calls, n) == [op |-> "await", of |-> S, calls |-> calls, count |-> n]

(* A worker's thread is created after the first k calls of Main. *)
Created(k) == AwaitCalls({Main}, k, 1)
(* Main waits until n workers, each one call after its creation, are done. *)
SemWait(n) == AwaitCalls(Workers, 2, n)
All == Cardinality(Workers)

Times(n, call) == [i \in 1..n |-> call]

(* The first n workers, created after k calls of Main, make one call each.  *)
FirstWorkers(n) == {Worker[i] : i \in 1..n}
Test(main, n, k, call) == [t \in Threads |->
  IF t = Main THEN main ELSE IF t \in FirstWorkers(n) THEN <<Created(k), call>> ELSE <<>>]

(* The tests whose workers all block do with three of them.                 *)
Few == 3

(* test_channel_close_with_receive: two messages for more receivers.       *)
CloseWithReceive ==
  Test(<<SendOf("Message"), SendOf("Message"), SemWait(2), CloseCall,
         SemWait(All), ReceiveCall, CloseCall, DestroyCall>>, All, 2, ReceiveCall)

(* test_channel_close_with_send: room for two messages of more senders.    *)
CloseWithSend ==
  Test(<<SemWait(2), CloseCall, SemWait(All), SendOf("Message"), CloseCall, DestroyCall>>,
       All, 0, SendOf("Message"))

(* test_cpu_utilization_send: the channel is filled, every worker blocks,  *)
(* and Main receives one message for each worker.                          *)
DrainBlockedSenders ==
  Test(<<SendOf("Message"), SendOf("Message")>> \o Times(Few, ReceiveCall)
         \o <<SemWait(Few), CloseCall, DestroyCall>>, Few, 2, SendOf("Message"))

(* test_cpu_utilization_receive: a message for each blocked receiver.      *)
FeedReceivers ==
  Test(Times(Few, SendOf("Message"))
         \o <<SemWait(Few), CloseCall, DestroyCall>>, Few, 0, ReceiveCall)

(* test_for_too_many_wakeups: the next message only after the receiver of  *)
(* the last one has returned.                                              *)
OneWakeupEach ==
  Test([i \in 1 .. 2 * Few |->
          IF i % 2 = 1 THEN SendOf("CMPSC") ELSE SemWait(i \div 2)]
         \o <<SemWait(Few), CloseCall, DestroyCall>>, Few, 0, ReceiveCall)

(* test_overall_send_receive: as many receivers as senders.                *)
OverallSendReceive == [t \in Threads |->
  IF t = Main THEN <<SemWait(All), CloseCall, DestroyCall>>
  ELSE <<Created(0), IF t \in {Worker[1], Worker[2]} THEN ReceiveCall ELSE SendOf("Message")>>]

(* test_send_correctness: the third message has to wait for room.          *)
SendCorrectness == [t \in Threads |->
  CASE t = Main -> <<SemWait(1), SemWait(2), ReceiveCall, SemWait(3),
                     ReceiveCall, ReceiveCall, CloseCall, DestroyCall>>
    [] t = Worker[1] -> <<Created(0), SendOf("PSU")>>
    [] t = Worker[2] -> <<Created(1), SendOf("CMPSC")>>
    [] t = Worker[3] -> <<Created(2), SendOf("MoNdAy")>>
    [] OTHER -> <<>>]

(* test_receive_correctness: two receivers wait on an empty channel.       *)
ReceiveCorrectness == [t \in Threads |->
  CASE t = Main -> <<SendOf("five"), SendOf("PSU"), ReceiveCall, ReceiveCall,
                     SendOf("five"), SemWait(1), SendOf("PSU"), SemWait(2),
                     CloseCall, DestroyCall>>
    [] t \in {Worker[1], Worker[2]} -> <<Created(4), ReceiveCall>>
    [] OTHER -> <<>>]

(* test_Free *)
FreeTest == [t \in Threads |->
  IF t = Main THEN <<DestroyCall, CloseCall, DestroyCall>> ELSE <<>>]

DriverPrograms ==
  {CloseWithReceive, CloseWithSend, DrainBlockedSenders, FeedReceivers, OneWakeupEach,
   OverallSendReceive, SendCorrectness, ReceiveCorrectness, FreeTest}

(* Each of them destroys its channel open or after its last use; TLC       *)
(* evaluates the condition for the Programs of every configuration.        *)
ASSUME TestsJoin == JoinsBeforeDestroy

-----------------------------------------------------------------------------
AllReturned == \A t \in Threads : ~Running(t)

(* What the call of a worker returned. *)
Done == {t \in Workers : Len(results[t]) = 2}
Closed == {t \in Done : results[t][2] = Status("CLOSED_ERROR")}
Succeeded == {t \in Done : results[t][2].status = "SUCCESS"}

MainStatuses == [i \in DOMAIN results[Main] |-> results[Main][i].status]
MainReceived == SelectSeq([i \in DOMAIN results[Main] |-> results[Main][i].msg],
                          LAMBDA m : m # "none")
MainSucceeds == \A i \in DOMAIN results[Main] : results[Main][i].status = "SUCCESS"

(* What the tests assert at their end, in every schedule of their threads: *)
(* exactly two of the blocked calls beat the close and all the others      *)
(* return CLOSED_ERROR (driver.c:347, 401), messages arrive in the order   *)
(* sent, every blocked call is served, late calls are refused, and destroy *)
(* refuses an open channel.                                                *)
OutcomeOf ==
  CASE program \in {CloseWithReceive, CloseWithSend} ->
         /\ Cardinality(Closed) = Cardinality(Workers) - 2
         /\ MainStatuses = IF program = CloseWithReceive
              THEN <<"SUCCESS", "SUCCESS", "SUCCESS", "SUCCESS", "SUCCESS",
                     "CLOSED_ERROR", "CLOSED_ERROR", "SUCCESS">>
              ELSE <<"SUCCESS", "SUCCESS", "SUCCESS",
                     "CLOSED_ERROR", "CLOSED_ERROR", "SUCCESS">>
    [] program = SendCorrectness ->
         MainReceived = <<"PSU", "CMPSC", "MoNdAy">> /\ MainSucceeds
    [] program = ReceiveCorrectness ->
         /\ MainReceived = <<"five", "PSU">> /\ MainSucceeds
         /\ {results[t][2].msg : t \in Done} = {"five", "PSU"}
    [] program = FreeTest -> MainStatuses = <<"DESTROY_ERROR", "SUCCESS", "SUCCESS">>
    [] OTHER -> MainSucceeds /\ Closed = {}

(* What they assert on the way, Main being between two of its calls: the   *)
(* third send is still blocked behind the first two messages               *)
(* (driver.c:160-166), receivers of an empty channel have not returned     *)
(* (driver.c:212-214), and one message lets exactly one of them return     *)
(* (driver.c:220-221).                                                     *)
Between(k) == Len(results[Main]) = k /\ pc[Main] = "idle"
AssertedMidway ==
  /\ program = SendCorrectness /\ Between(2) =>
       queue = <<"PSU", "CMPSC">> /\ Worker[3] \notin Done
  /\ program = ReceiveCorrectness /\ Between(4) => queue = <<>> /\ Done = {}
  /\ program = ReceiveCorrectness /\ Between(6) => Cardinality(Succeeded) = 1

TestsPass ==
  program \in DriverPrograms => AssertedMidway /\ (AllReturned => OutcomeOf)

(* Every test comes to its end: no join waits for ever (driver.c:334-335,  *)
(* "All calls should immediately after close").                            *)
EveryTestEnds == program \in DriverPrograms => <>AllReturned
=============================================================================
