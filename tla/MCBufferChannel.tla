--------------------------- MODULE MCBufferChannel ---------------------------
(* BufferChannel under every program of two calls for three threads, under  *)
(* the one schedule that forgets a sender, and under the tests of driver.c  *)
(* with four workers.  Threads are numbers, so that programs that only      *)
(* rename the threads are left out.                                         *)
EXTENDS ChannelDriver, TLC

CONSTANTS Short, Long   (* messages *)

FourWorkers == <<2, 3, 4, 5>>
TwoWorkers == <<2, 3>>

(* The frames of the driver's strings, all the other messages being one of  *)
(* 12 bytes.                                                                *)
UniformLen == [m \in {Short, Long} |-> 12] @@ DriverFrameLen
(* Frames of the driver's "PSU" and "MoNdAy". *)
MixedLen == [m \in {Short, Long} |-> IF m = Short THEN 8 ELSE 11]

(* All programs of threads 1 to 3 over the given calls, one for each         *)
(* renaming of the threads.                                                  *)
AllPrograms(calls) ==
  LET n == Len(calls)
      pair(i) == <<calls[(i \div n) + 1], calls[(i % n) + 1]>>
      ranks == {r \in [1..3 -> 0 .. n * n - 1] : r[1] <= r[2] /\ r[2] <= r[3]}
  IN  {[t \in Threads |-> IF t \in 1..3 THEN pair(r[t]) ELSE <<>>] : r \in ranks}

UniformPrograms ==
  DriverPrograms \cup AllPrograms(<<SendOf(Short), ReceiveCall, CloseCall>>)
MixedPrograms == AllPrograms(<<SendOf(Short), SendOf(Long), ReceiveCall, CloseCall>>)

(* Two short messages leave no room for a third sender, short or long; one  *)
(* receive makes room for the short one only.                               *)
ForgottenPrograms ==
  {<< <<SendOf(Short), SendOf(Short), ReceiveCall>>, <<SendOf(Long)>>, <<SendOf(Short)>> >>}
=============================================================================
