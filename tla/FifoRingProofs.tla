-------------------------- MODULE FifoRingProofs ---------------------------
(***************************************************************************)
(* The byte ring of que.c and the framing of buffer.c for every capacity,  *)
(* every size of an int, all messages and every history.                   *)
(*                                                                         *)
(* The argument: at every moment there are messages q whose frames fill    *)
(* the ring from tail to head, one behind the other, and avilSize is what  *)
(* they leave (Encodes, RingInv).  From it follow the agreement of the two *)
(* counters, that no read or write is cut short, and that the messages     *)
(* read off the ring are q, so that each operation on bytes is the         *)
(* operation of MessageFifo on q.                                          *)
(***************************************************************************)
EXTENDS FifoRing, SetInduction, TLAPS

(* What a cell holds: nothing yet, a byte of a length or a byte of a message. *)
Byte ==
  {Unset} \cup {<<"length", n, i>> : n \in Nat, i \in Nat} \cup {<<m, i>> : m \in Payload, i \in Nat}

(* fifo_t with every field in its range. *)
Ring == [buf : [Cells -> Byte], head : Cells, tail : Cells, avilSize : 0 .. Size]

(* A ring in use up to byte u: both descriptions of the space say so. *)
Using(f, u) ==
  /\ f \in Ring /\ u \in 0 .. Size - 1
  /\ f.head = (f.tail + u) % Size
  /\ f.avilSize = Size - u

(* The frame of message m is at an offset from the tail. *)
FrameAt(f, offset, m) ==
  /\ \A i \in 1 .. IntBytes : ByteAt(f, offset + i - 1) = <<"length", DataLen[m], i>>
  /\ \A i \in 1 .. DataLen[m] : ByteAt(f, offset + IntBytes + i - 1) = <<m, i>>

(* Where the frames of messages q begin when they follow each other. *)
Layout(q, start) ==
  /\ q \in Seq(Payload) /\ start \in [0 .. Len(q) -> Nat]
  /\ start[0] = 0
  /\ \A i \in 1 .. Len(q) : start[i] = start[i - 1] + FrameLen(q[i])

(* The ring holds the frames of messages q, and nothing else. *)
Encodes(f, q, start) ==
  /\ Layout(q, start)
  /\ Using(f, start[Len(q)])
  /\ \A i \in 1 .. Len(q) : FrameAt(f, start[i - 1], q[i])

(* The ring without its first bytes, as fifo_read leaves it. *)
Without(f, n) == [f EXCEPT !.tail = (@ + n) % Size, !.avilSize = @ + n]

-----------------------------------------------------------------------------
(* que.c *)

(* The parameters are numbers. *)
LEMMA Constants ==
  /\ Size \in Nat \ {0} /\ IntBytes \in Nat \ {0}
  /\ \A m \in Payload : DataLen[m] \in Nat \ {0} /\ FrameLen(m) \in Nat /\ FrameLen(m) >= 2
<1>1. /\ Size \in Nat \ {0} /\ IntBytes \in Nat \ {0}
      /\ \A m \in Payload : DataLen[m] \in Nat \ {0}
  BY FifoAssumption
<1> QED
  BY <1>1 DEF FrameLen

(* Cells counted on from a cell, and back from a number to it. *)
LEMMA Around ==
  ASSUME NEW t \in Int, NEW u \in Int, NEW k \in Int
  PROVE  /\ (t + u) % Size \in Cells /\ (t + u) % Size \in Int
         /\ (((t + u) % Size) + k) % Size = (t + (u + k)) % Size
         /\ (k - ((t + u) % Size)) % Size = (k - t - u) % Size
<1> DEFINE n == t + u
<1>1. n \in Int /\ n + k = t + (u + k) /\ k - n = k - t - u /\ Size \in Nat \ {0}
  BY Constants
<1> HIDE DEF n
<1>2. n % Size \in 0 .. Size - 1
  BY <1>1
<1>3. ((n % Size) + k) % Size = (n + k) % Size /\ (k - (n % Size)) % Size = (k - n) % Size
  BY <1>1, RemainderInSum
<1>4. n % Size \in Int
  BY <1>1, <1>2
<1> QED
  BY <1>1, <1>2, <1>3, <1>4 DEF n, Cells

(* A number of cells, counted around the ring. *)
LEMMA InRing ==
  ASSUME NEW n \in Int
  PROVE  /\ n \in 0 .. Size - 1 => n % Size = n
         /\ n + Size \in 0 .. Size - 1 => n % Size = n + Size
<1>1. ASSUME n \in 0 .. Size - 1 PROVE n % Size = n
  <2>1. (n + 0 * Size) % Size = n
    BY <1>1, Constants, RemainderIs
  <2> QED
    BY <2>1, Constants
<1>2. ASSUME n + Size \in 0 .. Size - 1 PROVE n % Size = n + Size
  <2>1. (n + Size + (-1) * Size) % Size = n + Size
    BY <1>2, Constants, RemainderIs
  <2>2. n + Size + (-1) * Size = n
    BY Constants
  <2> QED
    BY <2>1, <2>2
<1> QED
  BY <1>1, <1>2

(* How far apart two cells are. *)
LEMMA Apart ==
  ASSUME NEW t \in Int, NEW o \in 0 .. Size - 1, NEW u \in 0 .. Size - 1
  PROVE  (((t + o) % Size) - ((t + u) % Size)) % Size = IF u <= o THEN o - u ELSE o - u + Size
<1> DEFINE c == (t + o) % Size
           k == - t - u
<1>1. Size \in Nat /\ o \in Int /\ u \in Int /\ k \in Int
  BY Constants
<1>2. c \in Int
  BY <1>1, Around
<1>3. (c - ((t + u) % Size)) % Size = (c - t - u) % Size
  <2> HIDE DEF c
  <2> QED
    BY <1>1, <1>2, Around
<1>4. (c - t - u) % Size = (o - u) % Size
  <2>1. (c + k) % Size = (t + (o + k)) % Size
    <3> HIDE DEF k
    <3> QED
      BY <1>1, Around
  <2> HIDE DEF c
  <2>2. c + k = c - t - u /\ t + (o + k) = o - u
    BY <1>1, <1>2
  <2> QED
    BY <2>1, <2>2
<1> HIDE DEF c
<1>5. (o - u) % Size = IF u <= o THEN o - u ELSE o - u + Size
  <2>1. CASE u <= o
    BY <1>1, <2>1, InRing
  <2>2. CASE ~(u <= o)
    <3> DEFINE d == o - u
    <3>1. d \in Int /\ d + Size \in 0 .. Size - 1
      BY <1>1, <2>2
    <3> HIDE DEF d
    <3>2. d % Size = d + Size
      BY <3>1, InRing
    <3> QED
      BY <2>2, <3>2 DEF d
  <2> QED
    BY <2>1, <2>2
<1> QED
  BY <1>3, <1>4, <1>5 DEF c

(* head and tail describe the same space as avilSize. *)
LEMMA UsedAndFree ==
  ASSUME NEW f, NEW u, Using(f, u)
  PROVE  UsedCells(f) = u /\ FreeCells(f) = Size - 1 - u
<1> DEFINE t == f.tail
<1>1. t \in Int /\ u \in Int /\ Size \in Nat \ {0} /\ f.head = (t + u) % Size /\ u \in 0 .. Size - 1
  BY Constants DEF Using, Ring, Cells
<1> DEFINE h == (t + u) % Size
<1>2. h \in Int
  BY <1>1, Around
<1>3. (h - t) % Size = u
  <2> DEFINE k == - t
  <2>1. k \in Int
    BY <1>1
  <2>2. (h + k) % Size = (t + (u + k)) % Size
    <3> HIDE DEF t, k
    <3>1. \A a, b, c \in Int : (((a + b) % Size) + c) % Size = (a + (b + c)) % Size
      BY Around
    <3> QED
      BY <1>1, <2>1, <3>1
  <2> HIDE DEF t, h
  <2>3. h + k = h - t /\ t + (u + k) = u
    BY <1>1, <1>2
  <2> QED
    BY <1>1, <2>2, <2>3, InRing
<1>4. (t - h - 1) % Size = Size - 1 - u
  <2> DEFINE k == t - 1
             b == - 1 - u
  <2>1. k \in Int /\ b \in Int /\ b + Size \in 0 .. Size - 1 /\ b + Size = Size - 1 - u
    BY <1>1
  <2>2. (k - h) % Size = (k - t - u) % Size
    <3> HIDE DEF t, k
    <3> QED
      BY <1>1, <2>1, Around
  <2> HIDE DEF t, h
  <2>3. k - h = t - h - 1 /\ k - t - u = b
    BY <1>1, <1>2
  <2> HIDE DEF b
  <2>4. b % Size = Size - 1 - u
    BY <2>1, InRing
  <2> QED
    BY <2>2, <2>3, <2>4
<1> HIDE DEF h
<1> QED
  BY <1>1, <1>3, <1>4 DEF UsedCells, FreeCells, h

(* Cells of the ring hold bytes. *)
LEMMA BytesInRing ==
  ASSUME NEW f \in Ring, NEW offset \in Int
  PROVE  f.tail + offset \in Int /\ ByteAt(f, offset) \in Byte
<1>1. f.tail \in Int /\ f.buf \in [Cells -> Byte]
  BY Constants DEF Ring, Cells
<1> DEFINE t == f.tail
<1>2. (t + offset) % Size \in Cells
  <2> HIDE DEF t
  <2> QED
    BY <1>1, Around DEF t
<1> QED
  BY <1>1, <1>2 DEF ByteAt

(* fifo_read of bytes that are there takes them from the front. *)
LEMMA ReadTakes ==
  ASSUME NEW f, NEW u, Using(f, u), NEW n \in 0 .. u
  PROVE  /\ FifoRead(f, n) = [bytes |-> [i \in 1 .. n |-> ByteAt(f, i - 1)], fifo |-> Without(f, n)]
         /\ Using(Without(f, n), u - n)
         /\ \A offset \in Int : ByteAt(Without(f, n), offset) = ByteAt(f, n + offset)
<1>1. /\ f \in Ring /\ f.tail \in Int /\ u \in Int /\ n \in Int /\ n <= u /\ Size \in Nat
      /\ u - n \in 0 .. Size - 1 /\ f.avilSize \in Int /\ f.avilSize = Size - u
      /\ f.head = (f.tail + u) % Size
  BY Constants DEF Using, Ring, Cells
<1>2. FifoRead(f, n) = [bytes |-> [i \in 1 .. n |-> f.buf[(f.tail + i - 1) % Size]], fifo |-> Without(f, n)]
  BY <1>1, UsedAndFree DEF FifoRead, Without
<1>3. \A i \in 1 .. n : f.tail + i - 1 = f.tail + (i - 1)
  BY <1>1
<1>4. [i \in 1 .. n |-> f.buf[(f.tail + i - 1) % Size]] = [i \in 1 .. n |-> ByteAt(f, i - 1)]
  BY <1>3 DEF ByteAt
<1>5. /\ Without(f, n).tail = (f.tail + n) % Size /\ Without(f, n).head = f.head
      /\ Without(f, n).buf = f.buf /\ Without(f, n).avilSize = Size - (u - n)
      /\ (f.tail + n) % Size \in Cells
      /\ Without(f, n) \in Ring
  <2>1. (f.tail + n) % Size \in Cells
    <3> DEFINE t == f.tail
    <3> HIDE DEF t
    <3>1. (t + n) % Size \in Cells
      BY <1>1, Around DEF t
    <3> QED
      BY <3>1 DEF t
  <2>2. f.avilSize + n = Size - (u - n) /\ f.avilSize + n \in 0 .. Size
    BY <1>1
  <2> QED
    BY <1>1, <2>1, <2>2 DEF Without, Ring
<1>6. \A k \in Int : (((f.tail + n) % Size) + k) % Size = (f.tail + (n + k)) % Size
  <2> DEFINE t == f.tail
  <2> HIDE DEF t
  <2>1. \A k \in Int : (((t + n) % Size) + k) % Size = (t + (n + k)) % Size
    BY <1>1, Around DEF t
  <2> QED
    BY <2>1 DEF t
<1>7. Without(f, n).head = (Without(f, n).tail + (u - n)) % Size
  <2>1. f.tail + (n + (u - n)) = f.tail + u
    BY <1>1
  <2> QED
    BY <1>1, <1>5, <1>6, <2>1
<1>8. \A k \in Int : ByteAt(Without(f, n), k) = ByteAt(f, n + k)
  BY <1>5, <1>6 DEF ByteAt
<1> QED
  BY <1>1, <1>2, <1>4, <1>5, <1>7, <1>8 DEF Using

(* fifo_write of bytes that fit puts them behind those in use. *)
LEMMA WriteAppends ==
  ASSUME NEW f, NEW u, Using(f, u), NEW n \in Nat, NEW bytes \in [1 .. n -> Byte], n <= Size - 1 - u
  PROVE  LET g == FifoWrite(f, bytes) IN
         /\ Using(g, u + n)
         /\ \A o \in 0 .. u - 1 : ByteAt(g, o) = ByteAt(f, o)
         /\ \A i \in 1 .. n : ByteAt(g, u + i - 1) = bytes[i]
<1> DEFINE t == f.tail
           h == f.head
           offset(c) == (c - h) % Size
           buf == [c \in Cells |-> IF offset(c) < n THEN bytes[offset(c) + 1] ELSE f.buf[c]]
           g == [f EXCEPT !.buf = buf, !.head = (h + n) % Size, !.avilSize = @ - n]
<1>1. /\ f \in Ring /\ t \in Int /\ t \in Cells /\ h \in Int /\ u \in Int /\ u \in 0 .. Size - 1 /\ n \in Int
      /\ Size \in Nat /\ u + n \in 0 .. Size - 1 /\ f.avilSize \in Int /\ f.avilSize = Size - u
      /\ h = (t + u) % Size /\ f.buf \in [Cells -> Byte] /\ Cells = 0 .. Size - 1
  BY Constants DEF Using, Ring, Cells
<1>2. FifoWrite(f, bytes) = g
  <2>1. Len(bytes) = n
    OBVIOUS
  <2> QED
    BY <1>1, <2>1, UsedAndFree DEF FifoWrite
<1>3. ASSUME NEW c \in Cells PROVE offset(c) \in 0 .. Size - 1
  <2> DEFINE d == c - h
  <2>1. d \in Int
    BY <1>1 DEF Cells
  <2> HIDE DEF d
  <2>2. d % Size \in 0 .. Size - 1
    BY <2>1, Constants
  <2> QED
    BY <2>2 DEF d
<1>4. ASSUME NEW o \in 0 .. Size - 1
      PROVE  /\ (t + o) % Size \in Cells
             /\ offset((t + o) % Size) = IF u <= o THEN o - u ELSE o - u + Size
  <2> HIDE DEF t, h
  <2>0. o \in Int /\ t \in Int
    BY <1>1
  <2>1. (t + o) % Size \in Cells
    BY <2>0, Around
  <2>2. (((t + o) % Size) - ((t + u) % Size)) % Size = IF u <= o THEN o - u ELSE o - u + Size
    <3>1. \A a \in Int, b \in 0 .. Size - 1, c \in 0 .. Size - 1 :
            (((a + b) % Size) - ((a + c) % Size)) % Size = IF c <= b THEN b - c ELSE b - c + Size
      BY Apart
    <3>2. t \in Int /\ u \in 0 .. Size - 1
      BY <1>1
    <3> QED
      BY <3>1, <3>2, Zenon
  <2> QED
    BY <1>1, <2>1, <2>2
<1>5. buf \in [Cells -> Byte]
  <2>1. ASSUME NEW c \in Cells, offset(c) < n PROVE offset(c) + 1 \in 1 .. n
    <3>1. offset(c) \in 0 .. Size - 1
      BY <1>3
    <3> DEFINE k == offset(c)
    <3>2. k \in Int /\ 0 <= k /\ k < n
      <4> HIDE DEF offset
      <4> QED
        BY <1>1, <2>1, <3>1
    <3> HIDE DEF k
    <3>3. k + 1 \in 1 .. n
      BY <1>1, <3>2
    <3> QED
      BY <3>3 DEF k
  <2> HIDE DEF offset
  <2> QED
    BY <1>1, <2>1
<1>6. (h + n) % Size = (t + (u + n)) % Size /\ (t + (u + n)) % Size \in Cells
  <2>1. (((t + u) % Size) + n) % Size = (t + (u + n)) % Size
    <3> HIDE DEF t, h
    <3>1. t \in Int /\ u \in Int /\ n \in Int
      BY <1>1
    <3>2. \A a, b, k \in Int : (((a + b) % Size) + k) % Size = (a + (b + k)) % Size
      BY Around
    <3> QED
      BY <3>1, <3>2, Zenon
  <2>2. (t + (u + n)) % Size \in Cells
    <3> DEFINE k == u + n
    <3>1. k \in Int
      BY <1>1
    <3> HIDE DEF t, k
    <3>2. (t + k) % Size \in Cells
      BY <1>1, <3>1, Around
    <3> QED
      BY <3>2 DEF k
  <2> QED
    BY <1>1, <2>1, <2>2
<1>7. f.avilSize - n = Size - (u + n) /\ f.avilSize - n \in 0 .. Size
  BY <1>1, SMTT(30)
<1> HIDE DEF buf
<1>8. /\ g \in Ring /\ g.buf = buf /\ g.tail = f.tail /\ g.head = (h + n) % Size
      /\ g.avilSize = Size - (u + n)
  BY <1>1, <1>5, <1>6, <1>7 DEF Ring
<1> HIDE DEF g
<1>9. Using(g, u + n)
  BY <1>1, <1>6, <1>8 DEF Using
<1>10. ASSUME NEW o \in 0 .. u - 1 PROVE ByteAt(g, o) = ByteAt(f, o)
  <2> DEFINE c == (t + o) % Size
  <2>1. o \in 0 .. Size - 1 /\ ~(u <= o) /\ o - u + Size >= n
    BY <1>1
  <2>2. c \in Cells /\ offset(c) = o - u + Size
    BY <1>4, <2>1
  <2> HIDE DEF c, offset
  <2>3. ~(offset(c) < n)
    BY <1>1, <2>1, <2>2
  <2>4. g.buf[c] = f.buf[c]
    BY <1>8, <2>2, <2>3 DEF buf
  <2> QED
    BY <1>8, <2>4 DEF ByteAt, c, t
<1>11. ASSUME NEW i \in 1 .. n PROVE ByteAt(g, u + i - 1) = bytes[i]
  <2> DEFINE o == u + i - 1
             c == (t + o) % Size
  <2>1. o \in 0 .. Size - 1 /\ u <= o /\ o - u = i - 1 /\ i - 1 < n /\ (i - 1) + 1 = i
    BY <1>1
  <2> HIDE DEF o
  <2>2. c \in Cells /\ offset(c) = i - 1
    BY <1>4, <2>1
  <2> HIDE DEF c, offset
  <2>3. g.buf[c] = bytes[i]
    BY <1>8, <2>1, <2>2 DEF buf
  <2> QED
    BY <1>8, <2>3 DEF ByteAt, c, t, o
<1> QED
  BY <1>2, <1>9, <1>10, <1>11

-----------------------------------------------------------------------------
(* Frames *)

(* The length int is what was stored; whatever the bytes, it is a number. *)
LEMMA LengthRead ==
  ASSUME NEW f, NEW o \in Int
  PROVE  /\ LengthAt(f, o) \in Nat
         /\ \A m \in Payload : FrameAt(f, o, m) => LengthAt(f, o) = DataLen[m]
<1> DEFINE bytes == [i \in 1 .. IntBytes |-> ByteAt(f, o + i - 1)]
<1>1. AsLength(bytes) \in Nat
  BY Constants DEF AsLength, Lengths
<1>2. ASSUME NEW m \in Payload, FrameAt(f, o, m) PROVE AsLength(bytes) = DataLen[m]
  <2>1. bytes = LengthBytes(DataLen[m]) /\ DataLen[m] \in Lengths
    BY <1>2 DEF FrameAt, LengthBytes, Lengths
  <2>2. ASSUME NEW n \in Lengths, LengthBytes(n) = LengthBytes(DataLen[m]) PROVE n = DataLen[m]
    <3>1. 1 \in 1 .. IntBytes
      BY Constants
    <3>2. LengthBytes(n)[1] = LengthBytes(DataLen[m])[1]
      BY <2>2
    <3>3. <<"length", n, 1>> = <<"length", DataLen[m], 1>>
      BY <3>1, <3>2 DEF LengthBytes
    <3> QED
      BY <3>3
  <2> HIDE DEF bytes
  <2> QED
    BY <2>1, <2>2 DEF AsLength
<1> QED
  BY <1>1, <1>2 DEF LengthAt

(* The message read off a frame is the one that was stored. *)
LEMMA MessageRead ==
  ASSUME NEW f, NEW o \in Int, NEW m \in Payload, FrameAt(f, o, m)
  PROVE  MessageAt(f, o) = m
<1>1. LengthAt(f, o) = DataLen[m]
  BY LengthRead
<1>2. \A i \in 1 .. DataLen[m] : ByteAt(f, o + IntBytes + i - 1) = <<m, i>>
  BY DEF FrameAt
<1>3. ASSUME NEW p \in Payload, DataLen[p] = LengthAt(f, o),
             \A i \in 1 .. DataLen[p] : ByteAt(f, o + IntBytes + i - 1) = <<p, i>>
      PROVE  p = m
  <2>1. 1 \in 1 .. DataLen[m]
    BY Constants
  <2>2. <<p, 1>> = <<m, 1>>
    BY <1>1, <1>2, <1>3, <2>1
  <2> QED
    BY <2>2
<1> QED
  BY <1>1, <1>2, <1>3 DEF MessageAt

(* Two reads take a frame off the front of the ring. *)
LEMMA FrameTaken ==
  ASSUME NEW f, NEW u, Using(f, u), NEW m \in Payload, FrameAt(f, 0, m), FrameLen(m) <= u
  PROVE  LET length == FifoRead(f, IntBytes)
             data == FifoRead(length.fifo, AsLength(length.bytes))
         IN  /\ Len(length.bytes) = IntBytes /\ Len(data.bytes) = DataLen[m]
             /\ data.bytes = DataBytes(m)
             /\ data.fifo = Without(Without(f, IntBytes), DataLen[m])
<1> DEFINE length == FifoRead(f, IntBytes)
           data == FifoRead(length.fifo, AsLength(length.bytes))
           g == Without(f, IntBytes)
           n == DataLen[m]
<1>1. /\ IntBytes \in Nat /\ n \in Nat /\ u \in Int /\ IntBytes \in 0 .. u /\ n \in 0 .. u - IntBytes
      /\ IntBytes + n <= u
  BY Constants DEF FrameLen, Using
<1>2. /\ length = [bytes |-> [i \in 1 .. IntBytes |-> ByteAt(f, i - 1)], fifo |-> g]
      /\ Using(g, u - IntBytes)
      /\ \A o \in Int : ByteAt(g, o) = ByteAt(f, IntBytes + o)
  BY <1>1, ReadTakes
<1>3. AsLength(length.bytes) = n
  <2>1. LengthAt(f, 0) = n
    BY LengthRead
  <2>2. \A i \in 1 .. IntBytes : 0 + i - 1 = i - 1
    BY <1>1
  <2>3. length.bytes = [i \in 1 .. IntBytes |-> ByteAt(f, 0 + i - 1)]
    BY <1>2, <2>2
  <2> HIDE DEF length
  <2> QED
    BY <2>1, <2>3 DEF LengthAt
<1> HIDE DEF g, length, n
<1>4. data = [bytes |-> [i \in 1 .. n |-> ByteAt(g, i - 1)], fifo |-> Without(g, n)]
  BY <1>1, <1>2, <1>3, ReadTakes
<1>5. data.bytes = DataBytes(m)
  <2>1. ASSUME NEW i \in 1 .. n PROVE ByteAt(g, i - 1) = <<m, i>>
    <3>1. i - 1 \in Int /\ IntBytes + (i - 1) = 0 + IntBytes + i - 1
      BY <1>1
    <3>2. ByteAt(f, 0 + IntBytes + i - 1) = <<m, i>>
      BY DEF FrameAt, n
    <3> QED
      BY <1>2, <3>1, <3>2
  <2> QED
    BY <1>4, <2>1 DEF DataBytes, n
<1>6. Len(length.bytes) = IntBytes /\ Len(data.bytes) = n
  <2>1. length.bytes = [i \in 1 .. IntBytes |-> ByteAt(f, i - 1)]
    BY <1>2
  <2>2. data.bytes = [i \in 1 .. n |-> ByteAt(g, i - 1)]
    BY <1>4
  <2> QED
    BY <1>1, <2>1, <2>2
<1>7. data.fifo = Without(g, n)
  BY <1>4
<1> QED
  BY <1>5, <1>6, <1>7 DEF g, n, length

(* Frames follow each other up to the bytes in use. *)
LEMMA LayoutGrows ==
  ASSUME NEW q, NEW start, Layout(q, start)
  PROVE  /\ Len(q) \in Nat /\ start[Len(q)] \in Nat
         /\ \A i \in 0 .. Len(q) : start[i] \in Nat /\ start[i] <= start[Len(q)]
         /\ \A i \in 1 .. Len(q) :
              /\ q[i] \in Payload /\ FrameLen(q[i]) \in Nat /\ FrameLen(q[i]) >= 2
              /\ start[i - 1] \in Nat /\ start[i] = start[i - 1] + FrameLen(q[i])
<1>1. Len(q) \in Nat /\ \A i \in 0 .. Len(q) : start[i] \in Nat
  <2>1. q \in Seq(Payload) /\ start \in [0 .. Len(q) -> Nat]
    BY DEF Layout
  <2> QED
    BY <2>1
<1>2. ASSUME NEW i \in 1 .. Len(q)
      PROVE  /\ q[i] \in Payload /\ FrameLen(q[i]) \in Nat /\ FrameLen(q[i]) >= 2
             /\ start[i - 1] \in Nat /\ start[i] = start[i - 1] + FrameLen(q[i])
  <2>1. i - 1 \in 0 .. Len(q) /\ q[i] \in Payload
    BY <1>1 DEF Layout
  <2> QED
    BY <1>1, <2>1, Constants DEF Layout
<1> DEFINE n == Len(q)
           Below == {k \in Nat : k <= n => start[n - k] <= start[n]}
<1>3. 0 \in Below
  BY <1>1
<1>4. ASSUME NEW k \in Below PROVE k + 1 \in Below
  <2>1. k \in Nat
    OBVIOUS
  <2>2. ASSUME k + 1 <= n PROVE start[n - (k + 1)] <= start[n]
    <3> DEFINE i == n - k
    <3>1. i \in 1 .. n /\ n - (k + 1) = i - 1 /\ start[i] <= start[n] /\ i \in 0 .. n /\ n \in 0 .. n
      BY <1>1, <2>1, <2>2
    <3> HIDE DEF i
    <3>2. start[i - 1] \in Nat /\ FrameLen(q[i]) \in Nat /\ start[i] = start[i - 1] + FrameLen(q[i])
          /\ start[n] \in Nat
      BY <1>1, <1>2, <3>1
    <3> QED
      BY <3>1, <3>2
  <2> QED
    BY <2>1, <2>2
<1> HIDE DEF Below
<1>5. Below = Nat
  <2>1. Below \in SUBSET Nat
    BY DEF Below
  <2> QED
    BY <1>3, <1>4, <2>1, NatBySet
<1>6. ASSUME NEW i \in 0 .. n PROVE start[i] <= start[n]
  <2>1. n - i \in Nat /\ n - i <= n /\ n - (n - i) = i
    BY <1>1
  <2>2. n - i \in Below
    BY <1>5, <2>1
  <2> QED
    BY <2>1, <2>2 DEF Below
<1> QED
  BY <1>1, <1>2, <1>6

(* A frame whose bytes are found elsewhere is found there. *)
LEMMA FrameMoved ==
  ASSUME NEW f, NEW g, NEW o \in Int, NEW r \in Int, NEW m \in Payload, FrameAt(f, o, m),
         \A p \in 0 .. FrameLen(m) - 1 : ByteAt(g, r + p) = ByteAt(f, o + p)
  PROVE  FrameAt(g, r, m)
<1>1. IntBytes \in Nat /\ DataLen[m] \in Nat /\ FrameLen(m) = IntBytes + DataLen[m]
  BY Constants DEF FrameLen
<1>2. ASSUME NEW i \in 1 .. IntBytes PROVE ByteAt(g, r + i - 1) = <<"length", DataLen[m], i>>
  <2>1. i - 1 \in 0 .. FrameLen(m) - 1 /\ r + (i - 1) = r + i - 1 /\ o + (i - 1) = o + i - 1
    BY <1>1
  <2>2. ByteAt(g, r + (i - 1)) = ByteAt(f, o + (i - 1))
    BY <2>1
  <2> QED
    BY <2>1, <2>2 DEF FrameAt
<1>3. ASSUME NEW i \in 1 .. DataLen[m] PROVE ByteAt(g, r + IntBytes + i - 1) = <<m, i>>
  <2> DEFINE p == IntBytes + i - 1
  <2>1. p \in 0 .. FrameLen(m) - 1 /\ r + p = r + IntBytes + i - 1 /\ o + p = o + IntBytes + i - 1
    BY <1>1
  <2> HIDE DEF p
  <2>2. ByteAt(g, r + p) = ByteAt(f, o + p)
    BY <2>1
  <2> QED
    BY <2>1, <2>2 DEF FrameAt
<1> QED
  BY <1>2, <1>3 DEF FrameAt

-----------------------------------------------------------------------------
(* Adding, removing and looking at messages *)

(* The layout of one more message. *)
Longer(q, start, m) ==
  [i \in 0 .. Len(q) + 1 |-> IF i <= Len(q) THEN start[i] ELSE start[Len(q)] + FrameLen(m)]

(* The layout of the messages behind the first. *)
Shorter(q, start) == [i \in 0 .. Len(q) - 1 |-> start[i + 1] - start[1]]

(* buffer_add_Q with room for the frame stores it behind the others. *)
LEMMA AddEncodes ==
  ASSUME NEW f, NEW q, NEW start, Encodes(f, q, start), NEW m \in Payload, f.avilSize > FrameLen(m)
  PROVE  Encodes(FifoWrite(FifoWrite(f, LengthBytes(DataLen[m])), DataBytes(m)),
                 Append(q, m), Longer(q, start, m))
<1> DEFINE n == Len(q)
           u == start[n]
           g == FifoWrite(f, LengthBytes(DataLen[m]))
           h == FifoWrite(g, DataBytes(m))
           d == DataLen[m]
           k == u + IntBytes
           long == Longer(q, start, m)
<1>1. /\ n \in Nat /\ u \in Nat /\ d \in Nat /\ IntBytes \in Nat /\ Size \in Nat /\ k \in Nat
      /\ FrameLen(m) = IntBytes + d /\ f.avilSize = Size - u /\ Using(f, u)
      /\ IntBytes <= Size - 1 - u /\ d <= Size - 1 - k /\ k + d = u + FrameLen(m)
      /\ FrameLen(m) \in Nat
  <2>1. Layout(q, start) /\ Using(f, u)
    BY DEF Encodes
  <2>2. n \in Nat /\ u \in Nat
    BY <2>1, LayoutGrows
  <2>3. d \in Nat /\ IntBytes \in Nat /\ Size \in Nat /\ FrameLen(m) = IntBytes + d
    BY Constants DEF FrameLen
  <2>4. f.avilSize = Size - u
    BY <2>1 DEF Using
  <2> HIDE DEF u, n, d
  <2> QED
    BY <2>1, <2>2, <2>3, <2>4
<1>2. LengthBytes(d) \in [1 .. IntBytes -> Byte] /\ DataBytes(m) \in [1 .. d -> Byte]
  <2>1. \A i \in 1 .. IntBytes : <<"length", d, i>> \in Byte
    BY <1>1 DEF Byte
  <2>2. \A i \in 1 .. d : <<m, i>> \in Byte
    BY <1>1 DEF Byte
  <2> QED
    BY <2>1, <2>2 DEF LengthBytes, DataBytes
<1> HIDE DEF u, n, d, k
<1>3. /\ Using(g, k)
      /\ \A o \in 0 .. u - 1 : ByteAt(g, o) = ByteAt(f, o)
      /\ \A i \in 1 .. IntBytes : ByteAt(g, u + i - 1) = LengthBytes(d)[i]
  <2> DEFINE bytes == LengthBytes(d)
  <2>1. bytes \in [1 .. IntBytes -> Byte]
    BY <1>2
  <2> HIDE DEF bytes
  <2>2. LET w == FifoWrite(f, bytes) IN
        /\ Using(w, u + IntBytes)
        /\ \A o \in 0 .. u - 1 : ByteAt(w, o) = ByteAt(f, o)
        /\ \A i \in 1 .. IntBytes : ByteAt(w, u + i - 1) = bytes[i]
    BY <1>1, <2>1, WriteAppends, SMTT(30)
  <2> QED
    BY <2>2 DEF k, d, bytes
<1> HIDE DEF g
<1>4. /\ Using(h, k + d)
      /\ \A o \in 0 .. k - 1 : ByteAt(h, o) = ByteAt(g, o)
      /\ \A i \in 1 .. d : ByteAt(h, k + i - 1) = DataBytes(m)[i]
  <2> DEFINE bytes == DataBytes(m)
  <2>1. bytes \in [1 .. d -> Byte]
    BY <1>2
  <2> HIDE DEF bytes
  <2>2. LET w == FifoWrite(g, bytes) IN
        /\ Using(w, k + d)
        /\ \A o \in 0 .. k - 1 : ByteAt(w, o) = ByteAt(g, o)
        /\ \A i \in 1 .. d : ByteAt(w, k + i - 1) = bytes[i]
    BY <1>1, <1>3, <2>1, WriteAppends, SMTT(30)
  <2> QED
    BY <2>2 DEF bytes
<1> HIDE DEF h
<1>5. FrameAt(h, u, m)
  <2>1. ASSUME NEW i \in 1 .. IntBytes PROVE ByteAt(h, u + i - 1) = <<"length", d, i>>
    <3>1. u + i - 1 \in 0 .. k - 1
      BY <1>1 DEF k
    <3> QED
      BY <1>3, <1>4, <3>1 DEF LengthBytes
  <2>2. ASSUME NEW i \in 1 .. d PROVE ByteAt(h, u + IntBytes + i - 1) = <<m, i>>
    <3>1. ByteAt(h, k + i - 1) = <<m, i>>
      BY <1>4 DEF DataBytes, d
    <3> QED
      BY <3>1 DEF k
  <2> QED
    BY <2>1, <2>2 DEF FrameAt, d
<1>6. ASSUME NEW i \in 1 .. n PROVE FrameAt(h, start[i - 1], q[i])
  <2> DEFINE o == start[i - 1]
             p == q[i]
  <2>1. /\ o \in Nat /\ p \in Payload /\ FrameLen(p) \in Nat /\ o + FrameLen(p) <= u
        /\ FrameAt(f, o, p)
    <3>1. Layout(q, start) /\ FrameAt(f, o, p)
      BY DEF Encodes, n
    <3>2. o \in Nat /\ p \in Payload /\ FrameLen(p) \in Nat /\ start[i] = o + FrameLen(p)
      BY <3>1, LayoutGrows DEF n
    <3>3. i \in 0 .. Len(q)
      BY <1>1 DEF n
    <3>4. start[i] <= start[Len(q)]
      BY <3>1, <3>3, LayoutGrows
    <3> QED
      BY <3>1, <3>2, <3>4 DEF u, n
  <2> HIDE DEF o, p
  <2>2. ASSUME NEW b \in 0 .. FrameLen(p) - 1 PROVE ByteAt(h, o + b) = ByteAt(f, o + b)
    <3>1. o + b \in 0 .. u - 1 /\ o + b \in 0 .. k - 1
      BY <1>1, <2>1 DEF k
    <3> QED
      BY <1>3, <1>4, <3>1
  <2>3. FrameAt(h, o, p)
    BY <2>1, <2>2, FrameMoved
  <2> QED
    BY <2>3 DEF o, p
<1>7. q \in Seq(Payload) /\ start \in [0 .. n -> Nat] /\ start[0] = 0
      /\ \A i \in 1 .. n : start[i] = start[i - 1] + FrameLen(q[i])
  BY DEF Encodes, Layout, n
<1>8. /\ Append(q, m) \in Seq(Payload) /\ Len(Append(q, m)) = n + 1
      /\ \A i \in 1 .. n : Append(q, m)[i] = q[i]
      /\ Append(q, m)[n + 1] = m
  BY <1>7 DEF n
<1>9. /\ long \in [0 .. n + 1 -> Nat]
      /\ \A i \in 0 .. n : long[i] = start[i]
      /\ long[n + 1] = u + FrameLen(m)
  <2>1. long = [i \in 0 .. n + 1 |-> IF i <= n THEN start[i] ELSE u + FrameLen(m)]
    BY DEF Longer, n, u
  <2>2. \A i \in 0 .. n + 1 : i <= n => i \in 0 .. n /\ start[i] \in Nat
    BY <1>1, <1>7
  <2> HIDE DEF long
  <2> QED
    BY <1>1, <2>1, <2>2
<1> HIDE DEF long
<1> DEFINE r == Append(q, m)
<1> HIDE DEF r
<1>10. r \in Seq(Payload) /\ Len(r) = n + 1 /\ (\A i \in 1 .. n : r[i] = q[i]) /\ r[n + 1] = m
  BY <1>8 DEF r
<1>11. ASSUME NEW i \in 1 .. n + 1
       PROVE  long[i] = long[i - 1] + FrameLen(r[i]) /\ FrameAt(h, long[i - 1], r[i])
  <2>1. CASE i \in 1 .. n
    <3>1. i \in 0 .. n /\ i - 1 \in 0 .. n
      BY <1>1, <2>1
    <3> QED
      BY <1>6, <1>7, <1>9, <1>10, <2>1, <3>1
  <2>2. CASE i = n + 1
    <3>1. i - 1 = n /\ n \in 0 .. n
      BY <1>1, <2>2
    <3> QED
      BY <1>5, <1>9, <1>10, <2>2, <3>1 DEF u
  <2> QED
    BY <1>1, <2>1, <2>2
<1>12. Layout(r, long)
  <2>1. 0 \in 0 .. n
    BY <1>1
  <2> QED
    BY <1>7, <1>9, <1>10, <1>11, <2>1 DEF Layout
<1>13. Encodes(h, r, long)
  BY <1>1, <1>4, <1>9, <1>10, <1>11, <1>12 DEF Encodes
<1> QED
  BY <1>13 DEF h, g, r, long, d

(* Skipping no bytes changes nothing; skipping twice is skipping the sum. *)
LEMMA Skip ==
  ASSUME NEW f, NEW u, Using(f, u)
  PROVE  /\ Without(f, 0) = f
         /\ \A a, b \in Int : Without(Without(f, a), b) = Without(f, a + b)
<1>1. /\ f \in Ring /\ f.tail \in Int /\ f.tail \in 0 .. Size - 1 /\ f.avilSize \in Int
  BY Constants DEF Using, Ring, Cells
<1>2. (f.tail + 0) % Size = f.tail /\ f.avilSize + 0 = f.avilSize
  <2>1. f.tail % Size = f.tail
    BY <1>1, InRing
  <2> QED
    BY <1>1, <2>1
<1>3. Without(f, 0) = f
  BY <1>1, <1>2 DEF Without, Ring
<1>4. ASSUME NEW a \in Int, NEW b \in Int
      PROVE  /\ (((f.tail + a) % Size) + b) % Size = (f.tail + (a + b)) % Size
             /\ (f.avilSize + a) + b = f.avilSize + (a + b)
  <2>1. \A c, d, e \in Int : (((c + d) % Size) + e) % Size = (c + (d + e)) % Size
    BY Around
  <2>2. (((f.tail + a) % Size) + b) % Size = (f.tail + (a + b)) % Size
    BY <1>1, <2>1, Zenon, SMTT(30)
  <2> QED
    BY <1>1, <2>2
<1>5. ASSUME NEW a \in Int, NEW b \in Int
      PROVE  Without(Without(f, a), b) = Without(f, a + b)
  BY <1>1, <1>4 DEF Without, Ring
<1> QED
  BY <1>3, <1>5

(* Once the first i messages are taken, the others are still there, and     *)
(* reading a frame hands out the next one and takes it too.                 *)
LEMMA AfterSome ==
  ASSUME NEW f, NEW q, NEW start, Encodes(f, q, start), NEW i \in 0 .. Len(q)
  PROVE  LET g == Without(f, start[i])
             length == FifoRead(g, IntBytes)
             data == FifoRead(length.fifo, AsLength(length.bytes))
         IN  /\ Using(g, start[Len(q)] - start[i])
             /\ \A j \in i + 1 .. Len(q) : FrameAt(g, start[j - 1] - start[i], q[j])
             /\ i < Len(q) => /\ data.bytes = DataBytes(q[i + 1])
                              /\ data.fifo = Without(f, start[i + 1])
                              /\ start[i] + Len(length.bytes) + Len(data.bytes) = start[i + 1]
<1> DEFINE n == Len(q)
           u == start[n]
           s == start[i]
           g == Without(f, s)
           length == FifoRead(g, IntBytes)
           data == FifoRead(length.fifo, AsLength(length.bytes))
<1>1. Layout(q, start) /\ Using(f, u)
  BY DEF Encodes
<1>2. n \in Nat /\ u \in Nat /\ s \in Nat /\ s <= u /\ s \in 0 .. u
  <2>1. n \in Nat /\ u \in Nat /\ s \in Nat /\ s <= u
    BY <1>1, LayoutGrows
  <2> HIDE DEF s, u
  <2> QED
    BY <2>1
<1>3. Using(g, u - s) /\ \A o \in Int : ByteAt(g, o) = ByteAt(f, s + o)
  <2> HIDE DEF u, s
  <2> QED
    BY <1>1, <1>2, ReadTakes
<1> HIDE DEF g
<1>4. ASSUME NEW j \in i + 1 .. n PROVE FrameAt(g, start[j - 1] - s, q[j])
  <2> DEFINE o == start[j - 1]
             m == q[j]
             r == o - s
  <2>1. j \in 1 .. n
    BY <1>2
  <2>2. o \in Int /\ m \in Payload /\ FrameLen(m) \in Nat
    BY <1>1, <2>1, LayoutGrows
  <2>3. FrameAt(f, o, m)
    BY <2>1 DEF Encodes
  <2> HIDE DEF o, m, s
  <2>4. r \in Int /\ \A p \in Int : s + (r + p) = o + p
    BY <1>2, <2>2
  <2> HIDE DEF r
  <2>5. ASSUME NEW p \in 0 .. FrameLen(m) - 1 PROVE ByteAt(g, r + p) = ByteAt(f, o + p)
    <3>1. p \in Int /\ r + p \in Int
      BY <2>2, <2>4
    <3>2. ByteAt(g, r + p) = ByteAt(f, s + (r + p))
      BY <1>3, <3>1
    <3> QED
      BY <2>4, <3>1, <3>2
  <2>6. FrameAt(g, r, m)
    BY <2>2, <2>3, <2>4, <2>5, FrameMoved
  <2> QED
    BY <2>6 DEF r, m, o
<1>5. ASSUME i < n
      PROVE  /\ data.bytes = DataBytes(q[i + 1])
             /\ data.fifo = Without(f, start[i + 1])
             /\ s + Len(length.bytes) + Len(data.bytes) = start[i + 1]
  <2> DEFINE j == i + 1
             m == q[j]
             next == start[j]
             rest == u - s
  <2>1. j \in 1 .. n /\ j - 1 = i /\ j \in i + 1 .. n /\ j \in 0 .. n
    BY <1>2, <1>5
  <2>2. /\ m \in Payload /\ FrameLen(m) \in Nat /\ next = s + FrameLen(m)
        /\ IntBytes \in Nat /\ DataLen[m] \in Nat /\ FrameLen(m) = IntBytes + DataLen[m]
    <3>1. m \in Payload /\ FrameLen(m) \in Nat /\ next = start[j - 1] + FrameLen(m)
      BY <1>1, <2>1, LayoutGrows
    <3>2. start[j - 1] = s
      BY <2>1
    <3> HIDE DEF j, m, next, s
    <3> QED
      BY <3>1, <3>2, Constants DEF FrameLen
  <2>3. next <= u
    BY <1>1, <2>1, LayoutGrows
  <2>4. FrameAt(g, 0, m)
    <3>1. FrameAt(g, start[j - 1] - s, q[j]) /\ start[j - 1] - s = 0
      BY <1>2, <1>4, <2>1
    <3> QED
      BY <3>1
  <2> HIDE DEF j, m, next, u, s
  <2>5. FrameLen(m) <= rest /\ Using(g, rest)
    <3>1. FrameLen(m) <= rest
      BY <1>2, <2>2, <2>3
    <3> QED
      BY <1>3, <3>1
  <2> HIDE DEF rest
  <2>6. /\ Len(length.bytes) = IntBytes /\ Len(data.bytes) = DataLen[m]
        /\ data.bytes = DataBytes(m)
        /\ data.fifo = Without(Without(g, IntBytes), DataLen[m])
    BY <2>2, <2>4, <2>5, FrameTaken
  <2> HIDE DEF length, data
  <2>7. Without(Without(g, IntBytes), DataLen[m]) = Without(g, FrameLen(m))
    <3>1. \A a, b \in Int : Without(Without(g, a), b) = Without(g, a + b)
      BY <2>5, Skip
    <3>2. IntBytes \in Int /\ DataLen[m] \in Int
      BY <2>2
    <3>3. Without(Without(g, IntBytes), DataLen[m]) = Without(g, IntBytes + DataLen[m])
      BY <3>1, <3>2
    <3> QED
      BY <2>2, <3>3
  <2>8. Without(g, FrameLen(m)) = Without(f, next)
    <3>1. \A a, b \in Int : Without(Without(f, a), b) = Without(f, a + b)
      BY <1>1, Skip
    <3>2. s \in Int /\ FrameLen(m) \in Int
      BY <1>2, <2>2
    <3>3. Without(Without(f, s), FrameLen(m)) = Without(f, s + FrameLen(m))
      BY <3>1, <3>2
    <3> QED
      BY <2>2, <3>3 DEF g
  <2> QED
    BY <1>2, <2>2, <2>6, <2>7, <2>8 DEF m, j, next
<1> QED
  BY <1>3, <1>4, <1>5 DEF g

(* buffer_remove_Q takes the first message and leaves the others. *)
LEMMA RemoveEncodes ==
  ASSUME NEW f, NEW q, NEW start, Encodes(f, q, start), q # <<>>
  PROVE  /\ ReadFrame(f).bytes = DataBytes(Head(q))
         /\ Encodes(ReadFrame(f).fifo, Tail(q), Shorter(q, start))
<1> DEFINE n == Len(q)
           u == start[n]
           s == start[1]
           g == Without(f, s)
           short == Shorter(q, start)
           rest == Tail(q)
<1>1. /\ Layout(q, start) /\ Using(f, u) /\ q \in Seq(Payload) /\ start \in [0 .. n -> Nat]
      /\ start[0] = 0
  BY DEF Encodes, Layout
<1>2. /\ n \in Nat /\ n >= 1 /\ Head(q) = q[1] /\ rest \in Seq(Payload) /\ Len(rest) = n - 1
      /\ \A i \in 1 .. n - 1 : rest[i] = q[i + 1]
  BY <1>1
<1>3. 0 \in 0 .. n /\ 1 \in 0 .. n /\ 0 < n /\ 0 + 1 = 1
  BY <1>2
<1>4. ReadFrame(f).bytes = DataBytes(q[1]) /\ ReadFrame(f).fifo = g
  <2>1. Without(f, start[0]) = f
    BY <1>1, Skip
  <2> QED
    BY <1>3, <2>1, AfterSome DEF ReadFrame
<1>5. Using(g, u - s) /\ \A j \in 1 + 1 .. n : FrameAt(g, start[j - 1] - s, q[j])
  BY <1>3, AfterSome
<1> HIDE DEF g, rest
<1>6. \A i \in 0 .. n : start[i] \in Nat
  BY <1>1
<1>7. \A i \in 1 .. n : FrameLen(q[i]) \in Nat /\ start[i] = start[i - 1] + FrameLen(q[i])
  BY <1>1, LayoutGrows
<1>8. /\ \A i \in 0 .. n - 1 : short[i] = start[i + 1] - s
      /\ short = [i \in 0 .. n - 1 |-> start[i + 1] - s]
  BY DEF Shorter
<1>9. short[0] = 0
  <2>1. s \in Nat /\ 0 \in 0 .. n - 1
    BY <1>2, <1>3, <1>6
  <2> QED
    BY <1>8, <2>1
<1> HIDE DEF short
<1>10. \A i \in 1 .. n - 1 : short[i] = short[i - 1] + FrameLen(rest[i])
  <2> TAKE i \in 1 .. n - 1
  <2>1. i + 1 \in 1 .. n /\ i \in 0 .. n - 1 /\ i - 1 \in 0 .. n - 1 /\ (i - 1) + 1 = i /\ (i + 1) - 1 = i
        /\ i \in 0 .. n
    BY <1>2
  <2>2. /\ short[i] = start[i + 1] - s /\ short[i - 1] = start[i] - s
        /\ start[i + 1] = start[i] + FrameLen(q[i + 1]) /\ start[i] \in Nat /\ s \in Nat
        /\ FrameLen(q[i + 1]) \in Nat /\ rest[i] = q[i + 1]
    BY <1>2, <1>3, <1>6, <1>7, <1>8, <2>1
  <2> HIDE DEF s
  <2> QED
    BY <2>2
<1>11. short \in [0 .. n - 1 -> Nat]
  <2>1. \A i \in 0 .. n - 1 : start[i + 1] - s \in Int
    <3> TAKE i \in 0 .. n - 1
    <3>1. i + 1 \in 0 .. n /\ s \in Nat
      BY <1>2, <1>3, <1>6
    <3> QED
      BY <1>6, <3>1
  <2> DEFINE Positive == {i \in Nat : i <= n - 1 => short[i] \in Nat}
  <2>2. 0 \in Positive
    BY <1>9
  <2>3. ASSUME NEW i \in Positive PROVE i + 1 \in Positive
    <3>1. i \in Nat
      OBVIOUS
    <3>2. ASSUME i + 1 <= n - 1 PROVE short[i + 1] \in Nat
      <4>1. i + 1 \in 1 .. n - 1 /\ (i + 1) - 1 = i /\ i <= n - 1 /\ (i + 1) + 1 \in 1 .. n
        BY <1>2, <3>1, <3>2
      <4>2. short[i + 1] = short[i] + FrameLen(rest[i + 1]) /\ rest[i + 1] = q[(i + 1) + 1]
        BY <1>2, <1>10, <4>1
      <4> QED
        BY <1>7, <4>1, <4>2
    <3> QED
      BY <3>1, <3>2
  <2> HIDE DEF Positive
  <2>4. Positive = Nat
    <3>1. Positive \in SUBSET Nat
      BY DEF Positive
    <3> QED
      BY <2>2, <2>3, <3>1, NatBySet
  <2>5. ASSUME NEW i \in 0 .. n - 1 PROVE short[i] \in Nat
    <3>1. i \in Nat /\ i <= n - 1
      BY <1>2
    <3> QED
      BY <2>4, <3>1 DEF Positive
  <2> QED
    BY <1>8, <2>5
<1>12. \A i \in 1 .. n - 1 : FrameAt(g, short[i - 1], rest[i])
  <2> TAKE i \in 1 .. n - 1
  <2>1. i + 1 \in 1 + 1 .. n /\ i - 1 \in 0 .. n - 1 /\ (i - 1) + 1 = i /\ (i + 1) - 1 = i
    BY <1>2
  <2>2. FrameAt(g, start[i] - s, q[i + 1])
    BY <1>5, <2>1
  <2>3. short[i - 1] = start[i] - s /\ rest[i] = q[i + 1]
    BY <1>2, <1>8, <2>1
  <2> QED
    BY <2>2, <2>3
<1>13. short[n - 1] = u - s
  <2>1. n - 1 \in 0 .. n - 1 /\ (n - 1) + 1 = n
    BY <1>2
  <2> QED
    BY <1>8, <2>1
<1>14. Encodes(g, rest, short)
  BY <1>2, <1>5, <1>9, <1>10, <1>11, <1>12, <1>13 DEF Encodes, Layout
<1> QED
  BY <1>2, <1>4, <1>14 DEF rest, short

-----------------------------------------------------------------------------
(* What the ring holds *)

(* A growing function on the natural numbers keeps their order and is never *)
(* below its argument.                                                      *)
LEMMA Growing ==
  ASSUME NEW g \in [Nat -> Nat], \A n \in Nat : g[n] < g[n + 1]
  PROVE  \A m \in Nat : m <= g[m] /\ \A k \in Nat : g[m] <= g[m + k]
<1>1. ASSUME NEW m \in Nat PROVE \A k \in Nat : g[m] <= g[m + k]
  <2> DEFINE Above == {k \in Nat : g[m] <= g[m + k]}
  <2>1. 0 \in Above
    <3>1. m + 0 = m /\ g[m] \in Nat
      OBVIOUS
    <3> QED
      BY <3>1
  <2>2. ASSUME NEW k \in Above PROVE k + 1 \in Above
    <3>1. k \in Nat /\ m + k \in Nat /\ (m + k) + 1 = m + (k + 1) /\ g[m] <= g[m + k]
      OBVIOUS
    <3>2. g[m + k] < g[(m + k) + 1] /\ g[m] \in Nat /\ g[m + k] \in Nat /\ g[(m + k) + 1] \in Nat
      BY <3>1
    <3>3. g[m] <= g[(m + k) + 1]
      BY <3>1, <3>2
    <3> QED
      BY <3>1, <3>3
  <2> HIDE DEF Above
  <2>3. Above = Nat
    <3>1. Above \in SUBSET Nat
      BY DEF Above
    <3> QED
      BY <2>1, <2>2, <3>1, NatBySet
  <2> QED
    BY <2>3 DEF Above
<1>2. \A m \in Nat : m <= g[m]
  <2> DEFINE Over == {m \in Nat : m <= g[m]}
  <2>1. 0 \in Over
    OBVIOUS
  <2>2. ASSUME NEW m \in Over PROVE m + 1 \in Over
    <3>1. m \in Nat /\ m + 1 \in Nat /\ m <= g[m] /\ g[m] < g[m + 1] /\ g[m] \in Nat /\ g[m + 1] \in Nat
      OBVIOUS
    <3>2. m + 1 <= g[m + 1]
      BY <3>1
    <3> QED
      BY <3>1, <3>2
  <2> HIDE DEF Over
  <2>3. Over = Nat
    <3>1. Over \in SUBSET Nat
      BY DEF Over
    <3> QED
      BY <2>1, <2>2, <3>1, NatBySet
  <2> QED
    BY <2>3 DEF Over
<1> QED
  BY <1>1, <1>2

(* The beginnings of the frames follow each other for ever. *)
LEMMA FrameStarts ==
  ASSUME NEW f
  PROVE  /\ FrameStart(f) \in [Nat -> Nat] /\ FrameStart(f)[0] = 0
         /\ \A n \in Nat : FrameStart(f)[n + 1] = FrameStart(f)[n] + IntBytes + LengthAt(f, FrameStart(f)[n])
<1> DEFINE step == FrameAfter(f)
           Starts(g) == g = [n \in Nat |-> IF n = 0 THEN 0 ELSE step[g[n - 1]]]
<1>1. step \in [Nat -> Nat]
  BY Constants, LengthRead DEF FrameAfter
<1>2. \A o \in Nat : step[o] = o + IntBytes + LengthAt(f, o)
  BY DEF FrameAfter
<1> HIDE DEF step
<1>3. PICK g \in [Nat -> Nat] : g[0] = 0 /\ \A n \in Nat : g[n + 1] = step[g[n]]
  <2> DEFINE S == Nat
             s == 0
  <2>1. step \in [S -> S] /\ s \in S
    BY <1>1
  <2> HIDE DEF S, s
  <2>2. \E g \in [Nat -> S] : g[0] = s /\ \A n \in Nat : g[n + 1] = step[g[n]]
    BY <2>1, NatRecursion
  <2> QED
    BY <2>2 DEF S, s
<1>4. Starts(g)
  <2>1. ASSUME NEW n \in Nat PROVE g[n] = IF n = 0 THEN 0 ELSE step[g[n - 1]]
    <3>1. CASE n = 0
      BY <1>3, <3>1
    <3>2. CASE n # 0
      <4>1. n - 1 \in Nat /\ (n - 1) + 1 = n
        BY <3>2
      <4> QED
        BY <1>3, <3>2, <4>1
    <3> QED
      BY <3>1, <3>2
  <2> QED
    BY <2>1
<1>5. FrameStart(f) = CHOOSE h : Starts(h)
  BY DEF FrameStart, step
<1> HIDE DEF Starts
<1>6. Starts(FrameStart(f))
  BY <1>4, <1>5
<1> DEFINE h == FrameStart(f)
<1> HIDE DEF h
<1>7. h = [n \in Nat |-> IF n = 0 THEN 0 ELSE step[h[n - 1]]]
  BY <1>6 DEF Starts, h
<1>8. h[0] = 0
  BY <1>7
<1>9. ASSUME NEW n \in Nat PROVE h[n + 1] = step[h[n]]
  <2>1. n + 1 \in Nat /\ n + 1 # 0 /\ (n + 1) - 1 = n
    OBVIOUS
  <2> QED
    BY <1>7, <2>1
<1>10. h \in [Nat -> Nat]
  <2> DEFINE Typed == {n \in Nat : h[n] \in Nat}
  <2>1. 0 \in Typed
    BY <1>8
  <2>2. ASSUME NEW n \in Typed PROVE n + 1 \in Typed
    BY <1>1, <1>9
  <2> HIDE DEF Typed
  <2>3. Typed = Nat
    <3>1. Typed \in SUBSET Nat
      BY DEF Typed
    <3> QED
      BY <2>1, <2>2, <3>1, NatBySet
  <2>4. \A n \in Nat : h[n] \in Nat
    BY <2>3 DEF Typed
  <2>5. h = [n \in Nat |-> h[n]]
    BY <1>7
  <2> QED
    BY <2>4, <2>5
<1>11. ASSUME NEW n \in Nat PROVE h[n + 1] = h[n] + IntBytes + LengthAt(f, h[n])
  BY <1>2, <1>9, <1>10
<1> QED
  BY <1>8, <1>10, <1>11 DEF h

(* Reading off a ring that holds the frames of q yields q. *)
LEMMA Holds ==
  ASSUME NEW f, NEW q, NEW start, Encodes(f, q, start)
  PROVE  FramesIn(f) = q
<1> DEFINE n == Len(q)
           u == start[n]
           g == FrameStart(f)
<1>1. /\ Layout(q, start) /\ Using(f, u) /\ UsedCells(f) = u /\ n \in Nat /\ u \in Nat /\ u < Size
      /\ q \in Seq(Payload) /\ start[0] = 0 /\ Size \in Nat /\ IntBytes \in Nat /\ IntBytes >= 1
  <2>1. Layout(q, start) /\ Using(f, u)
    BY DEF Encodes
  <2>2. q \in Seq(Payload) /\ start[0] = 0 /\ u \in 0 .. Size - 1
    BY <2>1 DEF Layout, Using
  <2> HIDE DEF u
  <2> QED
    BY <2>1, <2>2, Constants, UsedAndFree
<1> HIDE DEF g
<1>2. /\ g \in [Nat -> Nat] /\ g[0] = 0
      /\ \A i \in Nat : g[i + 1] = g[i] + IntBytes + LengthAt(f, g[i])
  BY FrameStarts DEF g
<1>3. \A i \in Nat : g[i] < g[i + 1]
  <2> TAKE i \in Nat
  <2> DEFINE a == g[i]
             length == LengthAt(f, a)
  <2>1. a \in Nat
    BY <1>2
  <2>2. length \in Nat
    <3> HIDE DEF a
    <3> QED
      BY <2>1, LengthRead
  <2>3. g[i + 1] = a + IntBytes + length
    BY <1>2
  <2> HIDE DEF a, length
  <2>4. a < a + IntBytes + length
    BY <1>1, <2>1, <2>2
  <2> QED
    BY <2>3, <2>4 DEF a
<1>4. \A i \in 0 .. n : g[i] = start[i]
  <2> DEFINE Same == {i \in Nat : i <= n => g[i] = start[i]}
  <2>1. 0 \in Same
    BY <1>1, <1>2
  <2>2. ASSUME NEW i \in Same PROVE i + 1 \in Same
    <3>1. i \in Nat
      OBVIOUS
    <3>2. ASSUME i + 1 <= n PROVE g[i + 1] = start[i + 1]
      <4> DEFINE j == i + 1
                 m == q[j]
                 o == start[i]
      <4>1. j \in 1 .. n /\ j - 1 = i /\ i <= n
        BY <1>1, <3>1, <3>2
      <4>2. g[i] = o
        BY <4>1
      <4>3. m \in Payload /\ start[j - 1] \in Nat /\ start[j] = start[j - 1] + FrameLen(m)
            /\ FrameAt(f, start[j - 1], m)
        BY <1>1, <4>1, LayoutGrows DEF Encodes
      <4>4. o \in Nat /\ start[j] = o + FrameLen(m) /\ FrameAt(f, o, m)
        BY <4>1, <4>3
      <4> HIDE DEF m, o
      <4>5. LengthAt(f, o) = DataLen[m]
        BY <4>3, <4>4, LengthRead
      <4>6. g[i + 1] = o + IntBytes + DataLen[m]
        BY <1>2, <3>1, <4>2, <4>5
      <4> QED
        BY <1>1, <4>3, <4>4, <4>6, Constants DEF FrameLen
    <3> QED
      BY <3>1, <3>2
  <2> HIDE DEF Same
  <2>3. Same = Nat
    <3>1. Same \in SUBSET Nat
      BY DEF Same
    <3> QED
      BY <2>1, <2>2, <3>1, NatBySet
  <2> TAKE i \in 0 .. n
  <2>4. i \in Same /\ i <= n
    BY <1>1, <2>3
  <2> QED
    BY <2>4 DEF Same
<1> DEFINE Last(k) == g[k] <= u /\ u < g[k + 1]
<1>5. n \in 0 .. Size /\ Last(n)
  <2>1. n \in 0 .. n
    BY <1>1
  <2>2. g[n] = u
    BY <1>4, <2>1
  <2>3. n <= g[n] /\ g[n] < g[n + 1]
    BY <1>1, <1>2, <1>3, Growing
  <2> HIDE DEF u
  <2> QED
    BY <1>1, <2>2, <2>3
<1>6. ASSUME NEW k \in 0 .. Size, Last(k) PROVE k = n
  <2> HIDE DEF u
  <2>1. /\ k \in Nat /\ n \in Nat /\ g[k] \in Nat /\ g[n] \in Nat /\ g[k + 1] \in Nat /\ g[n + 1] \in Nat
        /\ u \in Nat
    <3>1. k \in Nat /\ k + 1 \in Nat /\ n + 1 \in Nat
      BY <1>1
    <3> QED
      BY <1>1, <1>2, <3>1
  <2>2. ASSUME k < n PROVE FALSE
    <3>1. k + 1 \in Nat /\ n - (k + 1) \in Nat /\ (k + 1) + (n - (k + 1)) = n
      BY <2>1, <2>2
    <3>2. \A b \in Nat : g[k + 1] <= g[(k + 1) + b]
      BY <1>2, <1>3, <3>1, Growing
    <3>3. g[k + 1] <= g[n]
      BY <3>1, <3>2
    <3> QED
      BY <1>5, <1>6, <2>1, <3>3
  <2>3. ASSUME n < k PROVE FALSE
    <3>1. n + 1 \in Nat /\ k - (n + 1) \in Nat /\ (n + 1) + (k - (n + 1)) = k
      BY <2>1, <2>3
    <3>2. \A b \in Nat : g[n + 1] <= g[(n + 1) + b]
      BY <1>2, <1>3, <3>1, Growing
    <3>3. g[n + 1] <= g[k]
      BY <3>1, <3>2
    <3> QED
      BY <1>5, <1>6, <2>1, <3>3
  <2> QED
    BY <2>1, <2>2, <2>3
<1>7. NumFrames(f) = n
  <2>1. NumFrames(f) = CHOOSE k \in 0 .. Size : Last(k)
    BY <1>1 DEF NumFrames, g
  <2> HIDE DEF Last
  <2> QED
    BY <1>5, <1>6, <2>1
<1>8. \A i \in 1 .. n : MessageAt(f, g[i - 1]) = q[i]
  <2> TAKE i \in 1 .. n
  <2>1. i - 1 \in 0 .. n
    BY <1>1
  <2>2. g[i - 1] = start[i - 1]
    BY <1>4, <2>1
  <2>3. start[i - 1] \in Nat /\ q[i] \in Payload /\ FrameAt(f, start[i - 1], q[i])
    BY <1>1, LayoutGrows DEF Encodes
  <2>4. MessageAt(f, start[i - 1]) = q[i]
    BY <2>3, MessageRead
  <2> QED
    BY <2>2, <2>4
<1>9. FramesIn(f) = [i \in 1 .. n |-> q[i]]
  BY <1>7, <1>8 DEF FramesIn, g
<1> QED
  BY <1>1, <1>9

(* The bytes in use are those of the messages held. *)
LEMMA BytesHeld ==
  ASSUME NEW q, NEW start, Layout(q, start)
  PROVE  Abstract!BytesOf(q) = start[Len(q)]
<1> DEFINE n == Len(q)
           Sums(g) == g = [i \in 0 .. n |-> IF i = 0 THEN 0 ELSE g[i - 1] + Abstract!FrameLen(q[i])]
<1>1. /\ n \in Nat /\ start \in [0 .. n -> Nat] /\ start[0] = 0
      /\ \A i \in 1 .. n : start[i] = start[i - 1] + Abstract!FrameLen(q[i])
  <2>1. n \in Nat
    BY LayoutGrows
  <2>2. \A m : Abstract!FrameLen(m) = FrameLen(m)
    BY DEF FrameLen, Abstract!FrameLen
  <2> QED
    BY <2>1, <2>2 DEF Layout
<1>2. Sums(start)
  <2>1. ASSUME NEW i \in 0 .. n
        PROVE  start[i] = IF i = 0 THEN 0 ELSE start[i - 1] + Abstract!FrameLen(q[i])
    <3>1. CASE i = 0
      BY <1>1, <3>1
    <3>2. CASE i # 0
      <4>1. i \in 1 .. n
        BY <1>1, <3>2
      <4> QED
        BY <1>1, <3>2, <4>1
    <3> QED
      BY <3>1, <3>2
  <2> QED
    BY <1>1, <2>1
<1> DEFINE h == CHOOSE g : Sums(g)
<1>3. Sums(h)
  <2> HIDE DEF Sums
  <2> QED
    BY <1>2
<1>4. Abstract!BytesOf(q) = h[n]
  BY DEF Abstract!BytesOf
<1> HIDE DEF h
<1>5. h[0] = 0 /\ \A i \in 1 .. n : h[i] = h[i - 1] + Abstract!FrameLen(q[i])
  <2>1. h = [i \in 0 .. n |-> IF i = 0 THEN 0 ELSE h[i - 1] + Abstract!FrameLen(q[i])]
    BY <1>3
  <2>2. 0 \in 0 .. n /\ \A i \in 1 .. n : i \in 0 .. n /\ i # 0
    BY <1>1
  <2> QED
    BY <2>1, <2>2
<1> HIDE DEF Sums
<1>6. n \in {i \in Nat : i <= n => h[i] = start[i]}
  <2> DEFINE Same == {i \in Nat : i <= n => h[i] = start[i]}
  <2>1. 0 \in Same
    BY <1>1, <1>5
  <2>2. ASSUME NEW i \in Same PROVE i + 1 \in Same
    <3>1. i \in Nat
      OBVIOUS
    <3>2. ASSUME i + 1 <= n PROVE h[i + 1] = start[i + 1]
      <4>1. i + 1 \in 1 .. n /\ (i + 1) - 1 = i /\ i <= n
        BY <1>1, <3>1, <3>2
      <4> QED
        BY <1>1, <1>5, <4>1
    <3> QED
      BY <3>1, <3>2
  <2> HIDE DEF Same
  <2>3. Same = Nat
    <3>1. Same \in SUBSET Nat
      BY DEF Same
    <3> QED
      BY <2>1, <2>2, <3>1, NatBySet
  <2> QED
    BY <1>1, <2>3 DEF Same
<1> QED
  BY <1>1, <1>4, <1>6

-----------------------------------------------------------------------------
(* Looking at a message *)

(* What buffer_top_message has in hand while it walks: the ring as read so  *)
(* far (its avilSize only known to be a number), and the bytes moved.       *)
Walked == [buf : [Cells -> Byte], head : Cells, tail : Cells, avilSize : Int]
Walk == [bytes : Seq(Byte), fifo : Walked, moved : Int]

(* One message further. *)
StepOver(w) ==
  LET length == FifoRead(w.fifo, IntBytes)
      data   == FifoRead(length.fifo, AsLength(length.bytes))
  IN  [bytes |-> data.bytes, fifo |-> data.fifo,
       moved |-> w.moved + Len(length.bytes) + Len(data.bytes)]

(* fifo_read leaves a ring and hands out bytes, whatever the ring. *)
LEMMA ReadTyped ==
  ASSUME NEW f \in Walked, NEW n \in Nat
  PROVE  FifoRead(f, n).fifo \in Walked /\ FifoRead(f, n).bytes \in Seq(Byte)
<1> DEFINE t == f.tail
           used == UsedCells(f)
           k == IF n <= used THEN n ELSE used
<1>1. /\ t \in Int /\ f.head \in Int /\ f.buf \in [Cells -> Byte] /\ f.avilSize \in Int
      /\ Size \in Nat \ {0} /\ f.head \in Cells
  BY Constants DEF Walked, Cells
<1>2. used \in Nat
  <2> DEFINE d == f.head - t
  <2>1. d \in Int
    BY <1>1
  <2> HIDE DEF d
  <2>2. d % Size \in 0 .. Size - 1
    BY <1>1, <2>1
  <2> QED
    BY <2>2 DEF UsedCells, d
<1> HIDE DEF used
<1>3. k \in Nat
  BY <1>2
<1>4. FifoRead(f, n) = [bytes |-> [i \in 1 .. k |-> f.buf[(t + i - 1) % Size]],
                        fifo |-> [f EXCEPT !.tail = (t + k) % Size,
                                           !.avilSize = IF k = n THEN @ + k ELSE @]]
  BY DEF FifoRead, used
<1> HIDE DEF k
<1> HIDE DEF t
<1>5. \A a, b \in Int : (a + b) % Size \in Cells
  BY Around
<1>6. (t + k) % Size \in Cells
  BY <1>1, <1>3, <1>5
<1>7. ASSUME NEW i \in 1 .. k PROVE f.buf[(t + i - 1) % Size] \in Byte
  <2> DEFINE b == i - 1
  <2>1. b \in Int /\ t + i - 1 = t + b
    BY <1>1
  <2> HIDE DEF b
  <2>2. (t + b) % Size \in Cells
    BY <1>1, <1>5, <2>1
  <2> QED
    BY <1>1, <2>1, <2>2
<1>8. [i \in 1 .. k |-> f.buf[(t + i - 1) % Size]] \in Seq(Byte)
  BY <1>3, <1>7
<1>9. FifoRead(f, n).fifo = [f EXCEPT !.tail = (t + k) % Size, !.avilSize = IF k = n THEN @ + k ELSE @]
      /\ FifoRead(f, n).bytes \in Seq(Byte)
  BY <1>4, <1>8
<1>10. [f EXCEPT !.tail = (t + k) % Size, !.avilSize = IF k = n THEN @ + k ELSE @] \in Walked
  <2> DEFINE v == IF k = n THEN f.avilSize + k ELSE f.avilSize
             c == (t + k) % Size
  <2>1. v \in Int /\ c \in Cells
    BY <1>1, <1>3, <1>6
  <2> HIDE DEF v, c
  <2>2. [f EXCEPT !.tail = c, !.avilSize = v] \in Walked
    BY <2>1 DEF Walked
  <2> QED
    BY <2>2 DEF v, c
<1> QED
  BY <1>9, <1>10

(* A walk starts with the ring and goes on message by message. *)
Walks(f, g) ==
  g = [n \in Nat |-> IF n = 0 THEN [bytes |-> <<>>, fifo |-> f, moved |-> 0] ELSE StepOver(g[n - 1])]

(* There is a walk from every ring. *)
LEMMA WalkExists ==
  ASSUME NEW f \in Ring
  PROVE  \E g : Walks(f, g)
<1> DEFINE none == [bytes |-> <<>>, fifo |-> f, moved |-> 0]
           step == [w \in Walk |-> StepOver(w)]
           S == Walk
<1>1. none \in Walk
  <2>1. f \in Walked
    BY Constants DEF Ring, Walked
  <2> QED
    BY <2>1 DEF Walk
<1>2. ASSUME NEW w \in Walk PROVE StepOver(w) \in Walk
  <2> DEFINE length == FifoRead(w.fifo, IntBytes)
             n == AsLength(length.bytes)
             data == FifoRead(length.fifo, n)
  <2>1. w.fifo \in Walked /\ w.moved \in Int /\ IntBytes \in Nat
    BY Constants DEF Walk
  <2>2. length.fifo \in Walked /\ length.bytes \in Seq(Byte)
    BY <2>1, ReadTyped
  <2>3. n \in Nat
    <3> HIDE DEF length
    <3> QED
      BY Constants DEF AsLength, Lengths
  <2> HIDE DEF length
  <2>4. data.fifo \in Walked /\ data.bytes \in Seq(Byte)
    <3> HIDE DEF n
    <3> QED
      BY <2>2, <2>3, ReadTyped
  <2>5. Len(length.bytes) \in Nat /\ Len(data.bytes) \in Nat
    <3> HIDE DEF data
    <3> QED
      BY <2>2, <2>4
  <2>6. StepOver(w) = [bytes |-> data.bytes, fifo |-> data.fifo,
                       moved |-> w.moved + Len(length.bytes) + Len(data.bytes)]
    BY DEF StepOver, length
  <2> HIDE DEF data
  <2> QED
    BY <2>1, <2>4, <2>5, <2>6 DEF Walk
<1>3. step \in [S -> S] /\ none \in S /\ \A w \in S : step[w] = StepOver(w)
  BY <1>1, <1>2
<1> HIDE DEF none, step, S
<1>4. PICK g \in [Nat -> S] : g[0] = none /\ \A n \in Nat : g[n + 1] = step[g[n]]
  <2>1. \A T : \A r \in T : \A p \in [T -> T] :
          \E g \in [Nat -> T] : g[0] = r /\ \A n \in Nat : g[n + 1] = p[g[n]]
    BY NatRecursion, Zenon
  <2>2. \A r \in S : \A p \in [S -> S] :
          \E g \in [Nat -> S] : g[0] = r /\ \A n \in Nat : g[n + 1] = p[g[n]]
    BY <2>1, SMTT(30)
  <2> QED
    BY <1>3, <2>2, Zenon
<1>5. Walks(f, g)
  <2>1. ASSUME NEW n \in Nat PROVE g[n] = IF n = 0 THEN none ELSE StepOver(g[n - 1])
    <3>1. CASE n = 0
      BY <1>4, <3>1
    <3>2. CASE n # 0
      <4>1. n - 1 \in Nat /\ (n - 1) + 1 = n
        BY <3>2
      <4> QED
        BY <1>3, <1>4, <3>2, <4>1
    <3> QED
      BY <3>1, <3>2
  <2> QED
    BY <2>1 DEF Walks, none
<1> QED
  BY <1>5

(* Peeked is the walk from the ring. *)
LEMMA PeekedSteps ==
  ASSUME fifo \in Ring
  PROVE  /\ Peeked[0] = [bytes |-> <<>>, fifo |-> fifo, moved |-> 0]
         /\ \A n \in Nat : Peeked[n + 1] = StepOver(Peeked[n])
<1> DEFINE none == [bytes |-> <<>>, fifo |-> fifo, moved |-> 0]
<1>6. Peeked = CHOOSE g : Walks(fifo, g)
  BY DEF Peeked, StepOver, Walks
<1>7. Walks(fifo, Peeked)
  BY <1>6, WalkExists
<1> DEFINE h == Peeked
<1> HIDE DEF h, none
<1>8. h = [n \in Nat |-> IF n = 0 THEN none ELSE StepOver(h[n - 1])]
  BY <1>7 DEF Walks, h, none
<1>9. h[0] = none
  BY <1>8
<1>10. ASSUME NEW n \in Nat PROVE h[n + 1] = StepOver(h[n])
  <2>1. n + 1 \in Nat /\ n + 1 # 0 /\ (n + 1) - 1 = n
    OBVIOUS
  <2> QED
    BY <1>8, <2>1
<1> QED
  BY <1>9, <1>10 DEF h, none

(* Looking at the index-th message reads the messages up to it. *)
LEMMA PeekedIs ==
  ASSUME NEW q, NEW start, Encodes(fifo, q, start), NEW index \in 1 .. Len(q)
  PROVE  /\ Peeked[index].bytes = DataBytes(q[index])
         /\ Peeked[index].fifo = Without(fifo, start[index])
         /\ Peeked[index].moved = start[index]
<1> DEFINE n == Len(q)
           Is(i) == Peeked[i].fifo = Without(fifo, start[i]) /\ Peeked[i].moved = start[i]
           Done == {i \in Nat : i <= n => Is(i)}
<1>1. /\ Layout(q, start) /\ Using(fifo, start[n]) /\ n \in Nat /\ start[0] = 0 /\ fifo \in Ring
  <2>1. Layout(q, start) /\ Using(fifo, start[n])
    BY DEF Encodes
  <2> QED
    BY <2>1, LayoutGrows DEF Layout, Using
<1>2. /\ Peeked[0] = [bytes |-> <<>>, fifo |-> fifo, moved |-> 0]
      /\ \A i \in Nat : Peeked[i + 1] = StepOver(Peeked[i])
  BY <1>1, PeekedSteps
<1>3. 0 \in Done
  <2>1. Without(fifo, 0) = fifo
    BY <1>1, Skip
  <2>2. Peeked[0].fifo = fifo /\ Peeked[0].moved = 0
    BY <1>2
  <2>3. Is(0)
    BY <1>1, <2>1, <2>2
  <2> HIDE DEF Is
  <2> QED
    BY <2>3
<1>4. ASSUME NEW i \in Nat, Is(i), i < n
      PROVE  Is(i + 1) /\ Peeked[i + 1].bytes = DataBytes(q[i + 1])
  <2> DEFINE g == Without(fifo, start[i])
             length == FifoRead(g, IntBytes)
             data == FifoRead(length.fifo, AsLength(length.bytes))
  <2>1. i \in 0 .. n
    BY <1>1, <1>4
  <2>2. /\ data.bytes = DataBytes(q[i + 1])
        /\ data.fifo = Without(fifo, start[i + 1])
        /\ start[i] + Len(length.bytes) + Len(data.bytes) = start[i + 1]
    BY <1>4, <2>1, AfterSome
  <2>3. Peeked[i + 1] = [bytes |-> data.bytes, fifo |-> data.fifo,
                         moved |-> start[i] + Len(length.bytes) + Len(data.bytes)]
    BY <1>2, <1>4 DEF StepOver
  <2> HIDE DEF data, length
  <2> QED
    BY <2>2, <2>3
<1>5. ASSUME NEW i \in Done PROVE i + 1 \in Done
  <2>1. i \in Nat
    OBVIOUS
  <2>2. ASSUME i + 1 <= n PROVE Is(i + 1)
    <3>1. i < n /\ i <= n
      BY <1>1, <2>1, <2>2
    <3>2. Is(i)
      BY <2>1, <3>1
    <3> HIDE DEF Is
    <3> QED
      BY <1>4, <2>1, <3>1, <3>2
  <2> HIDE DEF Is
  <2> QED
    BY <2>1, <2>2
<1> HIDE DEF Done
<1>6. Done = Nat
  <2>1. Done \in SUBSET Nat
    BY DEF Done
  <2> QED
    BY <1>3, <1>5, <2>1, NatBySet
<1>7. index - 1 \in Nat /\ index - 1 < n /\ index - 1 <= n /\ (index - 1) + 1 = index
  BY <1>1
<1>8. Is(index - 1)
  <2> HIDE DEF Is
  <2> QED
    BY <1>6, <1>7 DEF Done
<1>9. Is((index - 1) + 1) /\ Peeked[(index - 1) + 1].bytes = DataBytes(q[(index - 1) + 1])
  <2> HIDE DEF Is
  <2> QED
    BY <1>4, <1>7, <1>8
<1> QED
  BY <1>7, <1>9

(* Putting avilSize, tail and head back leaves the ring as it was. *)
LEMMA PutBack ==
  ASSUME NEW f, NEW u, Using(f, u), NEW s \in Int
  PROVE  [Without(f, s) EXCEPT !.avilSize = @ - s, !.tail = f.tail, !.head = f.head] = f
<1>1. f \in Ring /\ f.avilSize \in Int
  BY Constants DEF Using, Ring
<1>2. (f.avilSize + s) - s = f.avilSize
  BY <1>1
<1> QED
  BY <1>1, <1>2 DEF Without, Ring

-----------------------------------------------------------------------------
(* The specification *)

(* The inductive invariant: the ring holds the frames of some messages from *)
(* tail to head and avilSize counts what they leave.  CountersAgree alone   *)
(* is not inductive: that a remove reads whole frames needs the lengths in  *)
(* the ring to be those of the messages behind them.                        *)
RingInv ==
  /\ \E q, start : Encodes(fifo, q, start)
  /\ out.status \in {"SUCCESS", "ERROR"}

(* What the invariant says of the messages held. *)
LEMMA Reading ==
  ASSUME RingInv
  PROVE  /\ \E start : Encodes(fifo, Held, start)
         /\ Held \in Seq(Payload)
         /\ fifo.avilSize = Size - Abstract!UsedBytes
         /\ fifo.avilSize < Size <=> Held # <<>>
         /\ Abstract!UsedBytes \in Nat
<1>1. PICK q, start : Encodes(fifo, q, start)
  BY DEF RingInv
<1>2. Held = q
  BY <1>1, Holds DEF Held
<1> DEFINE n == Len(q)
           u == start[n]
<1>3. Layout(q, start) /\ Using(fifo, u) /\ q \in Seq(Payload) /\ start[0] = 0
  BY <1>1 DEF Encodes, Layout
<1>4. fifo.avilSize = Size - u /\ Abstract!BytesOf(q) = u /\ u \in Nat /\ n \in Nat
  BY <1>3, BytesHeld, LayoutGrows DEF Using
<1>5. Abstract!UsedBytes = u
  BY <1>2, <1>4 DEF Abstract!UsedBytes
<1>6. CASE q = <<>>
  <2>1. n = 0
    BY <1>6
  <2>2. u = 0
    BY <1>3, <2>1
  <2> HIDE DEF u
  <2> QED
    BY <1>1, <1>2, <1>3, <1>4, <1>5, <1>6, <2>2, Constants
<1>7. CASE q # <<>>
  <2>1. n \in 1 .. n
    BY <1>3, <1>4, <1>7
  <2>2. start[n - 1] \in Nat /\ FrameLen(q[n]) \in Nat /\ FrameLen(q[n]) >= 2
        /\ u = start[n - 1] + FrameLen(q[n])
    BY <1>3, <2>1, LayoutGrows
  <2>3. u >= 2
    <3> HIDE DEF n, u
    <3> QED
      BY <2>2
  <2> HIDE DEF u
  <2> QED
    BY <1>1, <1>2, <1>3, <1>4, <1>5, <1>7, <2>3, Constants
<1> QED
  BY <1>6, <1>7

(* The ring starts empty. *)
LEMMA InitRing == Init => RingInv /\ Held = <<>>
<1> SUFFICES ASSUME Init PROVE RingInv /\ Held = <<>>
  OBVIOUS
<1> DEFINE start == [i \in 0 .. 0 |-> 0]
<1>1. fifo.head = 0 /\ fifo.tail = 0 /\ fifo.avilSize = Size /\ fifo \in Ring
  BY Constants DEF Init, Ring, Byte, Cells
<1>2. Layout(<<>>, start) /\ start[Len(<<>>)] = 0
  BY DEF Layout
<1>3. Using(fifo, 0)
  <2>1. 0 \in 0 .. Size - 1 /\ 0 + 0 = 0 /\ Size - 0 = Size
    BY Constants
  <2>2. 0 % Size = 0
    BY <2>1, InRing
  <2> QED
    BY <1>1, <2>1, <2>2 DEF Using
<1>4. Encodes(fifo, <<>>, start)
  <2> HIDE DEF start
  <2> QED
    BY <1>2, <1>3 DEF Encodes
<1>5. Held = <<>>
  BY <1>4, Holds DEF Held
<1> QED
  BY <1>4, <1>5 DEF RingInv, Init

(* A message stored: the frames of one message more. *)
LEMMA AddRing ==
  ASSUME RingInv, NEW m \in Payload, AddQ(m)
  PROVE  /\ RingInv'
         /\ \/ HasRoom(m) /\ Held' = Append(Held, m) /\ out' = [status |-> "SUCCESS", data |-> <<>>]
            \/ ~HasRoom(m) /\ UNCHANGED fifo /\ out' = [status |-> "ERROR", data |-> <<>>]
<1>1. PICK start : Encodes(fifo, Held, start)
  BY Reading
<1>2. CASE HasRoom(m)
  <2>1. /\ fifo' = FifoWrite(FifoWrite(fifo, LengthBytes(DataLen[m])), DataBytes(m))
        /\ out' = [status |-> "SUCCESS", data |-> <<>>]
    BY <1>2 DEF AddQ
  <2>2. Encodes(fifo', Append(Held, m), Longer(Held, start, m))
    BY <1>1, <1>2, <2>1, AddEncodes DEF HasRoom
  <2>3. FramesIn(fifo') = Append(Held, m)
    BY <2>2, Holds
  <2> QED
    BY <1>2, <2>1, <2>2, <2>3 DEF RingInv, Held
<1>3. CASE ~HasRoom(m)
  BY <1>3 DEF AddQ, RingInv
<1> QED
  BY <1>2, <1>3

(* A message taken: the frames of the others. *)
LEMMA RemoveRing ==
  ASSUME RingInv, RemoveQ
  PROVE  /\ RingInv'
         /\ \/ /\ Held # <<>> /\ Held' = Tail(Held)
               /\ out' = [status |-> "SUCCESS", data |-> DataBytes(Head(Held))]
            \/ Held = <<>> /\ UNCHANGED fifo /\ out' = [status |-> "ERROR", data |-> <<>>]
<1>1. PICK start : Encodes(fifo, Held, start)
  BY Reading
<1>2. /\ fifo.avilSize < Size <=> Held # <<>>
      /\ fifo.avilSize \in Int /\ Size \in Int
  <2>1. fifo.avilSize < Size <=> Held # <<>>
    BY Reading
  <2>2. fifo \in Ring
    BY <1>1 DEF Encodes, Using
  <2> QED
    BY <2>1, <2>2, Constants DEF Ring
<1>3. CASE Held # <<>>
  <2>1. fifo' = ReadFrame(fifo).fifo /\ out' = [status |-> "SUCCESS", data |-> ReadFrame(fifo).bytes]
    BY <1>2, <1>3 DEF RemoveQ
  <2>2. ReadFrame(fifo).bytes = DataBytes(Head(Held))
        /\ Encodes(fifo', Tail(Held), Shorter(Held, start))
    BY <1>1, <1>3, <2>1, RemoveEncodes
  <2>3. FramesIn(fifo') = Tail(Held)
    BY <2>2, Holds
  <2> QED
    BY <1>3, <2>1, <2>2, <2>3 DEF RingInv, Held
<1>4. CASE Held = <<>>
  BY <1>2, <1>4 DEF RemoveQ, RingInv
<1> QED
  BY <1>3, <1>4

(* A message looked at: the ring as it was. *)
LEMMA TopRing ==
  ASSUME RingInv, NEW index \in 1 .. Len(Held), TopMessage(index)
  PROVE  /\ RingInv'
         /\ UNCHANGED fifo
         /\ out' = [status |-> "SUCCESS", data |-> DataBytes(Held[index])]
<1>1. PICK start : Encodes(fifo, Held, start)
  BY Reading
<1>2. /\ Peeked[index].bytes = DataBytes(Held[index])
      /\ Peeked[index].fifo = Without(fifo, start[index])
      /\ Peeked[index].moved = start[index]
  BY <1>1, PeekedIs
<1>3. Using(fifo, start[Len(Held)]) /\ start[index] \in Int
  <2>1. Layout(Held, start) /\ Using(fifo, start[Len(Held)])
    BY <1>1 DEF Encodes
  <2>2. Len(Held) \in Nat /\ \A i \in 0 .. Len(Held) : start[i] \in Nat
    BY <2>1, LayoutGrows
  <2>3. index \in 0 .. Len(Held)
    BY <2>2
  <2>4. start[index] \in Nat
    BY <2>2, <2>3
  <2> QED
    BY <2>1, <2>4
<1>4. fifo' = fifo
  BY <1>2, <1>3, PutBack DEF TopMessage
<1>5. out' = [status |-> "SUCCESS", data |-> DataBytes(Held[index])]
  BY <1>2 DEF TopMessage
<1> QED
  BY <1>4, <1>5 DEF RingInv

(* The invariant is inductive. *)
LEMMA RingInvariant == Spec => []RingInv
<1>1. Init => RingInv
  BY InitRing
<1>2. ASSUME RingInv, [Next]_vars PROVE RingInv'
  <2>1. ASSUME NEW m \in Payload, AddQ(m) PROVE RingInv'
    BY <1>2, <2>1, AddRing
  <2>2. CASE RemoveQ
    BY <1>2, <2>2, RemoveRing
  <2>3. ASSUME NEW index \in 1 .. Len(Held), TopMessage(index) PROVE RingInv'
    BY <1>2, <2>3, TopRing
  <2>4. CASE UNCHANGED vars
    BY <1>2, <2>4 DEF RingInv, vars
  <2> QED
    BY <1>2, <2>1, <2>2, <2>3, <2>4 DEF Next
<1> QED
  BY <1>1, <1>2, PTL DEF Spec

(* The type invariant of the ring: every field keeps to its range, for all  *)
(* capacities, message lengths and histories.                               *)
THEOREM RingTypes == Spec => []TypeOK
<1>1. ASSUME RingInv PROVE TypeOK
  <2>1. PICK q, start : Encodes(fifo, q, start)
    BY <1>1 DEF RingInv
  <2>2. fifo \in Ring
    BY <2>1 DEF Encodes, Using
  <2> QED
    BY <1>1, <2>2 DEF TypeOK, Ring, RingInv
<1> QED
  BY <1>1, RingInvariant, PTL

(* head and tail, which fifo_read and fifo_write trust, and avilSize, which *)
(* buffer_add_Q and buffer_remove_Q trust, never disagree about the space.  *)
THEOREM SpaceAgreed == Spec => []CountersAgree
<1>1. ASSUME RingInv PROVE CountersAgree
  <2>1. PICK q, start : Encodes(fifo, q, start)
    BY <1>1 DEF RingInv
  <2> DEFINE u == start[Len(q)]
  <2>2. Using(fifo, u) /\ u \in 0 .. Size - 1
    BY <2>1 DEF Encodes, Using
  <2> HIDE DEF u
  <2>3. UsedCells(fifo) = u /\ fifo.avilSize = Size - u
    BY <2>2, UsedAndFree DEF Using
  <2> QED
    BY <2>2, <2>3, Constants DEF CountersAgree
<1> QED
  BY <1>1, RingInvariant, PTL

(* The ring with its framing implements the bounded FIFO of whole messages: *)
(* whatever the capacity and the lengths, no message is cut, merged,        *)
(* reordered or lost at the wrap-around, and neither a refused add nor      *)
(* buffer_top_message leaves a trace.                                       *)
THEOREM MessagesInOrder == Spec => ImplementsMessageFifo
<1>1. Init => Abstract!Init
  BY InitRing DEF Init, Abstract!Init, Abstract!Success
<1>2. ASSUME RingInv, [Next]_vars PROVE [Abstract!Next]_<<Held, out>>
  <2> USE <1>2
  <2>1. /\ fifo.avilSize = Size - Abstract!UsedBytes /\ Abstract!UsedBytes \in Nat
        /\ Size \in Nat /\ \A m \in Payload : Abstract!FrameLen(m) = FrameLen(m) /\ FrameLen(m) \in Nat
    BY Reading, Constants DEF FrameLen, Abstract!FrameLen
  <2>2. \A m : Abstract!DataBytes(m) = DataBytes(m)
    BY DEF DataBytes, Abstract!DataBytes
  <2>3. UNCHANGED fifo => UNCHANGED Held
    BY DEF Held
  <2>4. ASSUME NEW m \in Payload, AddQ(m) PROVE Abstract!Next
    <3>1. CASE HasRoom(m) /\ Held' = Append(Held, m) /\ out' = [status |-> "SUCCESS", data |-> <<>>]
      <4>1. Abstract!UsedBytes + Abstract!FrameLen(m) < Size
        BY <2>1, <3>1 DEF HasRoom
      <4>2. Abstract!Accept(m)
        BY <3>1, <4>1 DEF Abstract!Accept, Abstract!Success
      <4> QED
        BY <4>2 DEF Abstract!Next
    <3>2. CASE ~HasRoom(m) /\ UNCHANGED fifo /\ out' = [status |-> "ERROR", data |-> <<>>]
      <4>1. Abstract!UsedBytes + Abstract!FrameLen(m) >= Size
        BY <2>1, <3>2 DEF HasRoom
      <4>2. Abstract!Refuse
        BY <2>3, <3>2, <4>1 DEF Abstract!Refuse, Abstract!Failure
      <4> QED
        BY <4>2 DEF Abstract!Next
    <3> QED
      BY <2>4, <3>1, <3>2, AddRing
  <2>5. CASE RemoveQ
    <3>1. CASE /\ Held # <<>> /\ Held' = Tail(Held)
               /\ out' = [status |-> "SUCCESS", data |-> DataBytes(Head(Held))]
      <4>1. Abstract!Deliver
        BY <2>2, <3>1 DEF Abstract!Deliver, Abstract!Success
      <4> QED
        BY <4>1 DEF Abstract!Next
    <3>2. CASE Held = <<>> /\ UNCHANGED fifo /\ out' = [status |-> "ERROR", data |-> <<>>]
      <4>1. Abstract!Refuse
        BY <2>3, <3>2 DEF Abstract!Refuse, Abstract!Failure
      <4> QED
        BY <4>1 DEF Abstract!Next
    <3> QED
      BY <2>5, <3>1, <3>2, RemoveRing
  <2>6. ASSUME NEW index \in 1 .. Len(Held), TopMessage(index) PROVE Abstract!Next
    <3>1. UNCHANGED fifo /\ out' = [status |-> "SUCCESS", data |-> DataBytes(Held[index])]
      BY <2>6, TopRing
    <3>2. Abstract!Show(index)
      BY <2>2, <2>3, <3>1 DEF Abstract!Show, Abstract!Success
    <3> QED
      BY <3>2 DEF Abstract!Next
  <2>7. CASE UNCHANGED vars
    BY <2>3, <2>7 DEF vars
  <2> QED
    BY <2>4, <2>5, <2>6, <2>7 DEF Next
<1> QED
  BY <1>1, <1>2, RingInvariant, PTL DEF Spec, ImplementsMessageFifo, Abstract!Spec
=============================================================================
