----------------------------- MODULE MessageFifo -----------------------------
(***************************************************************************)
(* What the byte FIFO of project 4 promises to the channel built on it: a  *)
(* first-in first-out queue of whole messages, bounded by a number of      *)
(* bytes.  A message is accepted exactly when the bytes in use plus its    *)
(* own frame stay strictly below the capacity.  FifoRing (que.c, buffer.c) *)
(* is shown to implement this specification.                               *)
(***************************************************************************)
EXTENDS Integers, Sequences

CONSTANTS
  Payload,   (* the messages that callers may add                          *)
  DataLen,   (* DataLen[m] = strlen(m) + 1                                  *)
  IntBytes,  (* sizeof(int), the bytes of the length that precedes the data *)
  Size       (* the capacity given to buffer_create, in bytes               *)

VARIABLES
  queue,     (* the messages held, oldest first                             *)
  out        (* status and data of the last operation                       *)

FrameLen(m) == IntBytes + DataLen[m]

(* The bytes that a sequence of messages takes. *)
BytesOf(messages) ==
  LET upTo[i \in 0..Len(messages)] ==
        IF i = 0 THEN 0 ELSE upTo[i - 1] + FrameLen(messages[i])
  IN  upTo[Len(messages)]
UsedBytes == BytesOf(queue)

(* The data of message m as the bytes a reader is handed. *)
DataBytes(m) == [i \in 1..DataLen[m] |-> <<m, i>>]

Success(data) == [status |-> "SUCCESS", data |-> data]
Failure == [status |-> "ERROR", data |-> <<>>]

Init == queue = <<>> /\ out = Success(<<>>)

Accept(m) ==
  /\ UsedBytes + FrameLen(m) < Size
  /\ queue' = Append(queue, m)
  /\ out' = Success(<<>>)

Deliver ==
  /\ queue # <<>>
  /\ out' = Success(DataBytes(Head(queue)))
  /\ queue' = Tail(queue)

(* Looking at the index-th message hands out its data and changes nothing. *)
Show(index) ==
  /\ index \in 1..Len(queue)
  /\ out' = Success(DataBytes(queue[index]))
  /\ UNCHANGED queue

Refuse ==
  /\ \/ queue = <<>>
     \/ \E m \in Payload : UsedBytes + FrameLen(m) >= Size
  /\ out' = Failure
  /\ UNCHANGED queue

Next ==
  \/ \E m \in Payload : Accept(m)
  \/ Deliver
  \/ \E index \in 1..Len(queue) : Show(index)
  \/ Refuse

Spec == Init /\ [][Next]_<<queue, out>>
=============================================================================
