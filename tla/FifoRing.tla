------------------------------ MODULE FifoRing ------------------------------
(***************************************************************************)
(* The byte ring of que.c and the message framing of buffer.c: a message   *)
(* is stored as its length (an int) followed by its bytes.  Two counters   *)
(* describe the same space: head and tail, which fifo_read and fifo_write  *)
(* trust, and avilSize, which buffer_add_Q and buffer_remove_Q trust.      *)
(*                                                                         *)
(* Every operation here runs under the channel's mutex, so each is one     *)
(* action.  The ring keeps one cell empty to tell full from empty.         *)
(***************************************************************************)
EXTENDS Integers, Sequences

CONSTANTS
  Payload,   (* the messages that callers may add                          *)
  DataLen,   (* DataLen[m] = strlen(m) + 1                                  *)
  IntBytes,  (* sizeof(int)                                                 *)
  Size       (* fifo_t.size, the capacity in bytes                          *)

ASSUME FifoAssumption ==
  /\ Size \in Nat \ {0}
  /\ IntBytes \in Nat \ {0}
  /\ DataLen \in [Payload -> Nat \ {0}]

VARIABLES
  fifo,      (* [buf, head, tail, avilSize]: fifo_t                         *)
  out        (* status and data of the last operation                       *)

vars == <<fifo, out>>

Cells == 0 .. Size - 1
Unset == <<"unset">>

(* The bytes of a message: its length as an int, then its data. *)
LengthBytes(n) == [i \in 1..IntBytes |-> <<"length", n, i>>]
DataBytes(m) == [i \in 1..DataLen[m] |-> <<m, i>>]
FrameLen(m) == IntBytes + DataLen[m]

Lengths == {DataLen[m] : m \in Payload}

(* The int that four bytes spell; bytes that are not a length spell 0. *)
AsLength(bytes) ==
  IF \E n \in Lengths : bytes = LengthBytes(n)
  THEN CHOOSE n \in Lengths : bytes = LengthBytes(n)
  ELSE 0

-----------------------------------------------------------------------------
(* que.c *)

UsedCells(f) == (f.head - f.tail) % Size
FreeCells(f) == (f.tail - f.head - 1) % Size

(* Bytes are taken one by one until nbytes are read or the ring is empty; *)
(* avilSize is only adjusted when all of them were there.                  *)
FifoRead(f, nbytes) ==
  LET n == IF nbytes <= UsedCells(f) THEN nbytes ELSE UsedCells(f)
  IN  [bytes |-> [i \in 1..n |-> f.buf[(f.tail + i - 1) % Size]],
       fifo  |-> [f EXCEPT !.tail = (@ + n) % Size,
                           !.avilSize = IF n = nbytes THEN @ + n ELSE @]]

(* Mutant: the head is not wrapped at the end of the buffer. *)
FifoWriteUnwrapped(f, bytes) ==
  [f EXCEPT !.buf = [c \in Cells |-> IF c >= f.head /\ c - f.head < Len(bytes)
                                    THEN bytes[c - f.head + 1] ELSE @[c]],
            !.head = @ + Len(bytes),
            !.avilSize = @ - Len(bytes)]

(* Bytes are put one by one until all are written or the head is about to *)
(* run into the tail; avilSize is only adjusted when all of them fitted.   *)
FifoWrite(f, bytes) ==
  LET n == IF Len(bytes) <= FreeCells(f) THEN Len(bytes) ELSE FreeCells(f)
      offset(c) == (c - f.head) % Size
  IN  [f EXCEPT
        !.buf = [c \in Cells |-> IF offset(c) < n THEN bytes[offset(c) + 1] ELSE @[c]],
        !.head = (@ + n) % Size,
        !.avilSize = IF n = Len(bytes) THEN @ - n ELSE @]

-----------------------------------------------------------------------------
(* buffer.c *)

Init ==
  /\ fifo = [buf |-> [c \in Cells |-> Unset], head |-> 0, tail |-> 0,
             avilSize |-> Size]
  /\ out = [status |-> "SUCCESS", data |-> <<>>]

(* Mutant: the test of buffer_add_Q with >= for >. *)
RoomAtEqual(m) == fifo.avilSize >= FrameLen(m)

HasRoom(m) == fifo.avilSize > FrameLen(m)

AddQ(m) ==
  \/ /\ HasRoom(m)
     /\ fifo' = FifoWrite(FifoWrite(fifo, LengthBytes(DataLen[m])), DataBytes(m))
     /\ out' = [status |-> "SUCCESS", data |-> <<>>]
  \/ /\ ~HasRoom(m)
     /\ out' = [status |-> "ERROR", data |-> <<>>]
     /\ UNCHANGED fifo

ReadFrame(f) ==
  LET length == FifoRead(f, IntBytes)
  IN  FifoRead(length.fifo, AsLength(length.bytes))

RemoveQ ==
  \/ /\ fifo.avilSize < Size
     /\ LET frame == ReadFrame(fifo) IN
          /\ fifo' = frame.fifo
          /\ out' = [status |-> "SUCCESS", data |-> frame.bytes]
  \/ /\ fifo.avilSize >= Size
     /\ out' = [status |-> "ERROR", data |-> <<>>]
     /\ UNCHANGED fifo

(* buffer_top_message reads index messages destructively, counts the bytes *)
(* that moved, and then puts avilSize, tail and head back.                 *)
Peeked[index \in Nat] ==
  IF index = 0 THEN [bytes |-> <<>>, fifo |-> fifo, moved |-> 0]
  ELSE LET before == Peeked[index - 1]
           length == FifoRead(before.fifo, IntBytes)
           data   == FifoRead(length.fifo, AsLength(length.bytes))
       IN  [bytes |-> data.bytes, fifo |-> data.fifo,
            moved |-> before.moved + Len(length.bytes) + Len(data.bytes)]

(* Mutant: the tail stays behind the messages looked at. *)
TopMessageConsumes(index) ==
  LET seen == Peeked[index] IN
    /\ fifo' = seen.fifo
    /\ out' = [status |-> "SUCCESS", data |-> seen.bytes]

TopMessage(index) ==
  LET seen == Peeked[index] IN
    /\ fifo' = [seen.fifo EXCEPT !.avilSize = @ - seen.moved,
                                 !.tail = fifo.tail, !.head = fifo.head]
    /\ out' = [status |-> "SUCCESS", data |-> seen.bytes]

-----------------------------------------------------------------------------
(* The frames in a ring, read off without consuming them: where each one    *)
(* begins, counted from the tail, and the message it holds.                *)
ByteAt(f, offset) == f.buf[(f.tail + offset) % Size]
LengthAt(f, offset) == AsLength([i \in 1..IntBytes |-> ByteAt(f, offset + i - 1)])
MessageAt(f, offset) ==
  LET length == LengthAt(f, offset) IN
  CHOOSE m \in Payload :
    /\ DataLen[m] = length
    /\ \A i \in 1..DataLen[m] : ByteAt(f, offset + IntBytes + i - 1) = <<m, i>>
FrameAfter(f) == [offset \in Nat |-> offset + IntBytes + LengthAt(f, offset)]
FrameStart(f) ==
  LET start[n \in Nat] == IF n = 0 THEN 0 ELSE FrameAfter(f)[start[n - 1]]
  IN  start
NumFrames(f) ==
  CHOOSE n \in 0..Size :
    FrameStart(f)[n] <= UsedCells(f) /\ UsedCells(f) < FrameStart(f)[n + 1]
FramesIn(f) == [n \in 1..NumFrames(f) |-> MessageAt(f, FrameStart(f)[n - 1])]

Held == FramesIn(fifo)

Next ==
  \/ \E m \in Payload : AddQ(m)
  \/ RemoveQ
  \/ \E index \in 1..Len(Held) : TopMessage(index)

Spec == Init /\ [][Next]_vars

-----------------------------------------------------------------------------
TypeOK ==
  /\ DOMAIN fifo.buf = Cells
  /\ fifo.head \in Cells
  /\ fifo.tail \in Cells
  /\ fifo.avilSize \in 0..Size
  /\ out.status \in {"SUCCESS", "ERROR"}

(* The two descriptions of the space in use agree: the ring never stops a  *)
(* write that buffer_add_Q's test on avilSize let through (a truncated     *)
(* write would move head and leave avilSize, que.c:54-57), and a read      *)
(* never finds fewer bytes than the length announced (que.c:34-35).        *)
CountersAgree == Size - fifo.avilSize = UsedCells(fifo)

(* The ring with its framing is a bounded FIFO of whole messages: no       *)
(* message is cut, merged, reordered or lost at the wrap-around, a refused *)
(* message leaves no trace, and buffer_top_message leaves none either.     *)
Abstract == INSTANCE MessageFifo WITH queue <- Held
ImplementsMessageFifo == Abstract!Spec
=============================================================================
