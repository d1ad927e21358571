--------------------------- MODULE AllocatorProofs ---------------------------
(***************************************************************************)
(* mm.c for every number and size of slabs, every size of request and      *)
(* every trace.  In this order: the heap as a chain of blocks B with sizes *)
(* s; the lists of the free ones, doubly linked and ranked; what free and  *)
(* malloc do to blocks; the slabs inside of blocks; the cells, which are   *)
(* what the program is given, and what free, malloc and realloc do to them;*)
(* the driver, whose ids own the cells.                                    *)
(***************************************************************************)
EXTENDS Allocator, SetInduction, FiniteSetTheorems, TLAPS

(* What a word of the heap may hold. *)
Word == {Tag(v, n) : v \in {0, 1}, n \in Nat} \cup {Link(b) : b \in Nat}
          \cup {Bitmap(u) : u \in SUBSET (0 .. Slots - 1)}
          \cup {Data(id) : id \in Ids} \cup {Unset}
(* A heap: its words, the break, the free lists and the slabs. *)
Heap == [mem : UNION {[1 .. n - 1 -> Word] : n \in Nat}, brk : Nat,
         lists : [0 .. NumLists - 1 -> Nat], slabs : [Slabs -> Nat]]
Typed(h) == h \in Heap /\ h.mem \in [1 .. h.brk - 1 -> Word]

(* Words are told apart by their kind and give back what was put into them. *)
LEMMA Words ==
  /\ \A v, n : Tag(v, n)[2] = v /\ Tag(v, n)[3] = n
  /\ \A b : Link(b)[2] = b
  /\ \A u : Bitmap(u)[2] = u
  /\ \A v \in {0, 1}, n \in Nat : Tag(v, n) \in Word
  /\ \A b \in Nat : Link(b) \in Word
  /\ \A u \in SUBSET (0 .. Slots - 1) : Bitmap(u) \in Word
  /\ \A id \in Ids : Data(id) \in Word
  /\ Unset \in Word
<1>1. \A v, n : Tag(v, n)[2] = v /\ Tag(v, n)[3] = n
  BY DEF Tag
<1>2. \A b : Link(b)[2] = b
  BY DEF Link
<1>3. \A u : Bitmap(u)[2] = u
  BY DEF Bitmap
<1>4. \A v \in {0, 1}, n \in Nat : Tag(v, n) \in Word
  BY DEF Word
<1>5. (\A b \in Nat : Link(b) \in Word) /\ Unset \in Word
  BY DEF Word
<1>6. \A u \in SUBSET (0 .. Slots - 1) : Bitmap(u) \in Word
  BY DEF Word
<1>7. \A id \in Ids : Data(id) \in Word
  BY DEF Word
<1> QED
  BY <1>1, <1>2, <1>3, <1>4, <1>5, <1>6, <1>7

(* The parts of a heap have their types. *)
LEMMA TypedIs ==
  ASSUME NEW h, Typed(h)
  PROVE  /\ h.brk \in Nat /\ h.lists \in [0 .. NumLists - 1 -> Nat] /\ h.slabs \in [Slabs -> Nat]
         /\ h.mem \in [1 .. h.brk - 1 -> Word] /\ DOMAIN h.mem = 1 .. h.brk - 1
BY DEF Typed, Heap

(* Writing into words that exist. *)
LEMMA WriteIs ==
  ASSUME NEW h, Typed(h), NEW words, \A a \in DOMAIN words : words[a] \in Word
  PROVE  /\ Typed(Write(h, words))
         /\ \A a \in 1 .. h.brk - 1 :
              Write(h, words).mem[a] = IF a \in DOMAIN words THEN words[a] ELSE h.mem[a]
         /\ Write(h, words).brk = h.brk /\ Write(h, words).lists = h.lists
         /\ Write(h, words).slabs = h.slabs
<1> DEFINE m == [a \in DOMAIN h.mem |-> IF a \in DOMAIN words THEN words[a] ELSE h.mem[a]]
<1>1. m \in [1 .. h.brk - 1 -> Word]
      /\ \A a \in 1 .. h.brk - 1 : m[a] = IF a \in DOMAIN words THEN words[a] ELSE h.mem[a]
  BY TypedIs
<1>2. Write(h, words) = [h EXCEPT !.mem = m]
  BY DEF Write
<1> HIDE DEF m
<1>3. m \in UNION {[1 .. n - 1 -> Word] : n \in Nat}
  BY <1>1 DEF Typed, Heap
<1> QED
  BY <1>1, <1>2, <1>3 DEF Typed, Heap

(* g is h with the tags of a block of n words at b. *)
HasTags(g, h, b, v, n) ==
  /\ Typed(g) /\ g.brk = h.brk /\ g.lists = h.lists /\ g.slabs = h.slabs
  /\ \A a \in 1 .. h.brk - 1 :
       g.mem[a] = IF a = b \/ a = b + n - 1 THEN Tag(v, n)
                  ELSE IF n > 2 /\ (a = b + 1 \/ a = b + 2) THEN Link(NULL)
                  ELSE h.mem[a]

(* addTags writes header, footer and empty links. *)
LEMMA AddTagsIs ==
  ASSUME NEW h, Typed(h), NEW b \in Nat, NEW v \in {0, 1}, NEW n \in Nat
  PROVE  HasTags(addTags(h, b, v, n), h, b, v, n)
<1> DEFINE tags == {b, b + n - 1}
           links == IF n > 2 THEN {b + 1, b + 2} ELSE {}
           words == [a \in tags \cup links |-> IF a \in tags THEN Tag(v, n) ELSE Link(NULL)]
<1>1. DOMAIN words = tags \cup links /\ NULL \in Nat
  BY DEF NULL
<1>2. \A a \in DOMAIN words : words[a] = IF a \in tags THEN Tag(v, n) ELSE Link(NULL)
  OBVIOUS
<1>3. \A a : a \in DOMAIN words <=> a = b \/ a = b + n - 1 \/ (n > 2 /\ (a = b + 1 \/ a = b + 2))
  BY <1>1
<1>4. addTags(h, b, v, n) = Write(h, words)
  BY DEF addTags
<1> HIDE DEF words
<1>5. \A a \in DOMAIN words : words[a] \in Word
  BY <1>1, <1>2, Words
<1> QED
  BY <1>2, <1>3, <1>4, <1>5, WriteIs DEF HasTags

(* One word is written. *)
LEMMA PutIs ==
  ASSUME NEW h, Typed(h), NEW a \in 1 .. h.brk - 1, NEW w \in Word
  PROVE  LET g == [h EXCEPT !.mem[a] = w] IN
         /\ Typed(g) /\ g.brk = h.brk /\ g.lists = h.lists /\ g.slabs = h.slabs
         /\ \A c \in 1 .. h.brk - 1 : g.mem[c] = IF c = a THEN w ELSE h.mem[c]
<1> DEFINE m == [h.mem EXCEPT ![a] = w]
<1>1. m \in [1 .. h.brk - 1 -> Word] /\ \A c \in 1 .. h.brk - 1 : m[c] = IF c = a THEN w ELSE h.mem[c]
  BY TypedIs
<1>2. [h EXCEPT !.mem[a] = w] = [h EXCEPT !.mem = m]
  OBVIOUS
<1> HIDE DEF m
<1>3. m \in UNION {[1 .. n - 1 -> Word] : n \in Nat}
  BY <1>1 DEF Typed, Heap
<1> QED
  BY <1>1, <1>2, <1>3 DEF Typed, Heap

(* Every size of a block has a list. *)
LEMMA IndexIs ==
  ASSUME NEW n \in 1 .. MaxHeap
  PROVE  getIndex(n) \in 0 .. NumLists - 1
BY AllocatorAssumption DEF getIndex

-----------------------------------------------------------------------------
(* The blocks.  B is the set of the heads, s their sizes: they fill the     *)
(* heap from word 2 to the break, one behind the other.                     *)
Shape(B, s, brk) ==
  /\ brk \in Nat /\ brk >= 2 /\ brk % 2 = 0
  /\ B \subseteq 2 .. brk - 1 /\ s \in [Nat -> Nat]
  /\ 2 \in B \cup {brk}
  /\ \A b \in B : /\ b % 2 = 0 /\ s[b] >= 2 /\ s[b] % 2 = 0
                  /\ b + s[b] \in B \cup {brk}
                  /\ b = 2 \/ \E a \in B : a + s[a] = b
  /\ \A b, c \in B : b < c => b + s[b] <= c

(* A is the set of the blocks in use, X that of the blocks whose tags are   *)
(* being rewritten.                                                         *)
Status(A, b) == IF b \in A THEN 1 ELSE 0
Tagged(h, B, s, A, X) ==
  \A b \in B \ X : /\ h.mem[b] = Tag(Status(A, b), s[b])
                   /\ h.mem[b + s[b] - 1] = Tag(Status(A, b), s[b])

(* The blocks lie inside the heap and do not overlap. *)
LEMMA ShapeIs ==
  ASSUME NEW B, NEW s, NEW brk, Shape(B, s, brk)
  PROVE  /\ brk \in Nat /\ s \in [Nat -> Nat]
         /\ \A b \in B : /\ b \in Nat /\ b >= 2 /\ s[b] \in Nat /\ s[b] >= 2 /\ b + s[b] <= brk
                         /\ b # NULL /\ b \in 1 .. brk - 1 /\ b + s[b] - 1 \in 1 .. brk - 1
                         /\ b % 2 = 0 /\ s[b] % 2 = 0
         /\ \A b, c \in B : b # c => b + s[b] <= c \/ c + s[c] <= b
<1>1. \A b \in B : /\ b \in Nat /\ b >= 2 /\ s[b] \in Nat /\ s[b] >= 2 /\ b + s[b] <= brk
                  /\ b % 2 = 0 /\ s[b] % 2 = 0
  <2> SUFFICES ASSUME NEW b \in B
               PROVE  /\ b \in Nat /\ b >= 2 /\ s[b] \in Nat /\ s[b] >= 2 /\ b + s[b] <= brk
                      /\ b % 2 = 0 /\ s[b] % 2 = 0
    OBVIOUS
  <2>1. b \in 2 .. brk - 1 /\ s \in [Nat -> Nat] /\ brk \in Nat
    BY DEF Shape
  <2>2. b % 2 = 0 /\ s[b] >= 2 /\ s[b] % 2 = 0 /\ (b + s[b] = brk \/ b + s[b] \in 2 .. brk - 1)
    BY DEF Shape
  <2> QED
    BY <2>1, <2>2
<1> QED
  BY <1>1 DEF Shape, NULL

(* A block is added at the break. *)
LEMMA ShapeExtended ==
  ASSUME NEW B, NEW s, NEW brk, Shape(B, s, brk),
         NEW n \in Nat, n >= 2, n % 2 = 0
  PROVE  Shape(B \cup {brk}, [s EXCEPT ![brk] = n], brk + n)
<1> DEFINE r == [s EXCEPT ![brk] = n]
<1>1. /\ r \in [Nat -> Nat] /\ r[brk] = n /\ brk \notin B
      /\ \A b \in B : b \in Nat /\ r[b] = s[b] /\ b < brk /\ b + s[b] <= brk
  BY ShapeIs DEF Shape
<1> HIDE DEF r
<1>2. brk + n \in Nat /\ brk + n >= 2 /\ (brk + n) % 2 = 0 /\ brk \in Nat /\ brk >= 2 /\ brk % 2 = 0
  BY DEF Shape
<1>3. B \cup {brk} \subseteq 2 .. brk + n - 1 /\ 2 \in B \cup {brk}
  BY <1>2 DEF Shape
<1>4. brk = 2 \/ \E a \in B : a + s[a] = brk
  <2> SUFFICES ASSUME brk # 2 PROVE \E a \in B : a + s[a] = brk
    OBVIOUS
  <2> DEFINE left == {brk - b : b \in B}
  <2>1. 2 \in B
    BY DEF Shape
  <2>2. left \subseteq Nat /\ left # {}
    BY <2>1 DEF Shape
  <2>3. PICK d \in left : \A e \in left : d <= e
    BY <2>2, LeastNatural
  <2>4. PICK a \in B : d = brk - a
    BY <2>3
  <2>5. ASSUME NEW b \in B PROVE b <= a
    <3>1. brk - b \in left /\ brk \in Nat /\ a \in Nat /\ b \in Nat
      BY ShapeIs
    <3> HIDE DEF left
    <3> QED
      BY <2>3, <2>4, <3>1
  <2>6. a + s[a] \in B \cup {brk} /\ a + s[a] > a
    BY <2>4, ShapeIs DEF Shape
  <2> QED
    BY <2>4, <2>5, <2>6, ShapeIs
<1>5. ASSUME NEW b \in B \cup {brk}
      PROVE  /\ b % 2 = 0 /\ r[b] >= 2 /\ r[b] % 2 = 0
             /\ b + r[b] \in (B \cup {brk}) \cup {brk + n}
             /\ b = 2 \/ \E a \in B \cup {brk} : a + r[a] = b
  BY <1>1, <1>2, <1>4 DEF Shape
<1>6. ASSUME NEW b \in B \cup {brk}, NEW c \in B \cup {brk}, b < c PROVE b + r[b] <= c
  <2>1. b \in B
    <3>1. c <= brk
      BY <1>1, <1>2
    <3>2. b # brk
      BY <1>1, <1>2, <1>6, <3>1
    <3> QED
      BY <3>2
  <2>2. CASE c = brk
    BY <1>1, <2>1, <2>2
  <2>3. CASE c \in B
    BY <1>1, <1>6, <2>1, <2>3 DEF Shape
  <2> QED
    BY <2>2, <2>3
<1> QED
  BY <1>1, <1>2, <1>3, <1>5, <1>6 DEF Shape

(* The sizes when b is cut behind n words. *)
Parts(s, b, n) == [s EXCEPT ![b] = n, ![b + n] = s[b] - n]

(* A block is cut in two. *)
LEMMA ShapeSplit ==
  ASSUME NEW B, NEW s, NEW brk, Shape(B, s, brk), NEW b \in B,
         NEW n \in Nat, n >= 2, n % 2 = 0, n < s[b]
  PROVE  Shape(B \cup {b + n}, Parts(s, b, n), brk)
<1> DEFINE m == s[b] - n
           r == [s EXCEPT ![b] = n, ![b + n] = m]
<1>1. /\ b \in Nat /\ b >= 2 /\ s[b] \in Nat /\ b + s[b] <= brk /\ b % 2 = 0 /\ s[b] % 2 = 0
      /\ brk \in Nat /\ s \in [Nat -> Nat] /\ brk >= 2 /\ brk % 2 = 0 /\ B \subseteq 2 .. brk - 1
      /\ b + s[b] \in B \cup {brk}
  <2>1. /\ brk \in Nat /\ s \in [Nat -> Nat] /\ brk >= 2 /\ brk % 2 = 0 /\ B \subseteq 2 .. brk - 1
        /\ b + s[b] \in B \cup {brk}
    BY DEF Shape
  <2> QED
    BY <2>1, ShapeIs
<1>2. m \in Nat /\ m >= 2 /\ m % 2 = 0 /\ b + n + m = b + s[b] /\ (b + n) % 2 = 0
  BY <1>1
<1>3. b + n \notin B
  BY <1>1, <1>2 DEF Shape
<1>4. r \in [Nat -> Nat] /\ r[b] = n /\ r[b + n] = m /\ \A c \in B \ {b} : r[c] = s[c]
  BY <1>1, <1>2, <1>3
<1> HIDE DEF r
<1>5. B \cup {b + n} \subseteq 2 .. brk - 1 /\ 2 \in (B \cup {b + n}) \cup {brk}
  BY <1>1, <1>2 DEF Shape
<1>6. ASSUME NEW c \in B \cup {b + n}
      PROVE  /\ c % 2 = 0 /\ r[c] >= 2 /\ r[c] % 2 = 0
             /\ c + r[c] \in (B \cup {b + n}) \cup {brk}
             /\ c = 2 \/ \E a \in B \cup {b + n} : a + r[a] = c
  <2>1. CASE c = b + n
    BY <1>1, <1>2, <1>4, <2>1 DEF Shape
  <2>2. CASE c = b
    <3>1. ASSUME NEW a \in B, a + s[a] = b PROVE r[a] = s[a]
      BY <1>1, <1>4, <3>1
    <3> QED
      BY <1>1, <1>2, <1>4, <2>2, <3>1 DEF Shape
  <2>3. CASE c \in B \ {b}
    <3>1. c % 2 = 0 /\ r[c] >= 2 /\ r[c] % 2 = 0 /\ c + r[c] \in (B \cup {b + n}) \cup {brk}
      BY <1>4, <2>3 DEF Shape
    <3>2. ASSUME NEW a \in B, a + s[a] = c PROVE \E e \in B \cup {b + n} : e + r[e] = c
      <4>1. CASE a = b
        BY <1>2, <1>4, <3>2, <4>1
      <4>2. CASE a # b
        BY <1>4, <3>2, <4>2
      <4> QED
        BY <4>1, <4>2
    <3> QED
      BY <2>3, <3>1, <3>2 DEF Shape
  <2> QED
    BY <2>1, <2>2, <2>3
<1>7. ASSUME NEW c \in B \cup {b + n}, NEW d \in B \cup {b + n}, c < d PROVE c + r[c] <= d
  <2>1. \A e \in B \ {b} : e \in Nat /\ s[e] \in Nat /\ (e + s[e] <= b \/ b + s[b] <= e)
    BY ShapeIs
  <2>2. CASE c \in B \ {b} /\ d \in B \ {b}
    BY <1>4, <1>7, <2>2 DEF Shape
  <2>3. CASE c \in B \ {b} /\ d \in {b, b + n}
    BY <1>1, <1>2, <1>4, <1>7, <2>1, <2>3
  <2>4. CASE c \in {b, b + n} /\ d \in B \ {b}
    <3>1. b + s[b] <= d
      BY <1>1, <1>2, <1>7, <2>1, <2>4, ShapeIs
    <3> QED
      BY <1>1, <1>2, <1>4, <2>1, <2>4, <3>1
  <2>5. CASE c \in {b, b + n} /\ d \in {b, b + n}
    BY <1>1, <1>2, <1>4, <1>7, <2>5
  <2> QED
    BY <2>2, <2>3, <2>4, <2>5
<1>8. Shape(B \cup {b + n}, r, brk)
  BY <1>1, <1>4, <1>5, <1>6, <1>7 DEF Shape
<1> QED
  BY <1>8 DEF r, Parts

(* A block and the one behind it become one. *)
LEMMA ShapeJoined ==
  ASSUME NEW B, NEW s, NEW brk, Shape(B, s, brk), NEW b \in B, b + s[b] \in B
  PROVE  Shape(B \ {b + s[b]}, [s EXCEPT ![b] = s[b] + s[b + s[b]]], brk)
<1> DEFINE c == b + s[b]
           n == s[b] + s[c]
           r == [s EXCEPT ![b] = n]
<1>1. /\ b \in Nat /\ b >= 2 /\ s[b] \in Nat /\ s[b] >= 2 /\ b % 2 = 0 /\ s[b] % 2 = 0
      /\ c \in B /\ c \in Nat /\ s[c] \in Nat /\ s[c] >= 2 /\ s[c] % 2 = 0 /\ c # b
      /\ brk \in Nat /\ s \in [Nat -> Nat] /\ brk >= 2 /\ brk % 2 = 0 /\ B \subseteq 2 .. brk - 1
      /\ b + n = c + s[c] /\ c + s[c] \in B \cup {brk} /\ c + s[c] # c
  BY ShapeIs DEF Shape
<1>2. n \in Nat /\ n >= 2 /\ n % 2 = 0
  BY <1>1
<1>3. r \in [Nat -> Nat] /\ r[b] = n /\ \A e \in B \ {b} : r[e] = s[e]
  BY <1>1, <1>2
<1>4. \A e \in B \ {b, c} : /\ e \in Nat /\ s[e] \in Nat /\ s[e] >= 2
                            /\ e + s[e] <= b \/ b + n <= e
  <2> SUFFICES ASSUME NEW e \in B \ {b, c} PROVE e \in Nat /\ s[e] \in Nat /\ s[e] >= 2 /\ (e + s[e] <= b \/ b + n <= e)
    OBVIOUS
  <2>1. (e + s[e] <= b \/ c <= e) /\ (e + s[e] <= c \/ c + s[c] <= e) /\ e \in Nat /\ s[e] \in Nat /\ s[e] >= 2
    BY <1>1, ShapeIs
  <2> QED
    BY <1>1, <2>1
<1> HIDE DEF r, n
<1>5. B \ {c} \subseteq 2 .. brk - 1 /\ 2 \in (B \ {c}) \cup {brk}
  <2>1. c # 2 /\ 2 \in B \cup {brk}
    BY <1>1 DEF Shape
  <2> HIDE DEF c
  <2> QED
    BY <1>1, <2>1
<1>6. ASSUME NEW e \in B \ {c}
      PROVE  /\ e % 2 = 0 /\ r[e] >= 2 /\ r[e] % 2 = 0
             /\ e + r[e] \in (B \ {c}) \cup {brk}
             /\ e = 2 \/ \E a \in B \ {c} : a + r[a] = e
  <2>1. ASSUME e # 2 PROVE \E a \in B \ {c} : a + r[a] = e
    <3>1. PICK a \in B : a + s[a] = e
      BY <2>1 DEF Shape
    <3>2. CASE a = c
      BY <1>1, <1>3, <3>1, <3>2
    <3>3. CASE a # c
      <4>1. a # b
        BY <3>1, <3>3
      <4> QED
        BY <1>3, <3>1, <3>3, <4>1
    <3> QED
      BY <3>2, <3>3
  <2>2. CASE e = b
    BY <1>1, <1>2, <1>3, <2>1, <2>2
  <2>3. CASE e # b
    <3>1. e + s[e] # c
      BY <1>1, <1>4, <2>3
    <3> QED
      BY <1>3, <2>1, <2>3, <3>1 DEF Shape
  <2> QED
    BY <2>2, <2>3
<1>7. ASSUME NEW e \in B \ {c}, NEW d \in B \ {c}, e < d PROVE e + r[e] <= d
  <2>1. CASE e = b
    BY <1>1, <1>3, <1>4, <1>7, <2>1
  <2>2. CASE e # b
    BY <1>3, <1>7, <2>2 DEF Shape
  <2> QED
    BY <2>1, <2>2
<1>8. Shape(B \ {c}, r, brk)
  BY <1>1, <1>3, <1>5, <1>6, <1>7 DEF Shape
<1> QED
  BY <1>8 DEF r, n

(* The tags of the block b are written, and those of X are yet to be.       *)
Retags(g, h, B, s, A, X, b) ==
  /\ Typed(g) /\ g.brk = h.brk /\ g.lists = h.lists /\ g.slabs = h.slabs
  /\ Tagged(g, B, s, A, X)
  /\ \A a \in 1 .. h.brk - 1 : (a < b \/ b + s[b] <= a) => g.mem[a] = h.mem[a]
  /\ \A c \in B \ {b} : \A a \in c .. c + s[c] - 1 : g.mem[a] = h.mem[a]
  /\ s[b] > 2 => g.mem[b + 1] = Link(NULL) /\ g.mem[b + 2] = Link(NULL)

(* addTags leaves the tags of all other blocks as they are. *)
LEMMA Retagged ==
  ASSUME NEW h, Typed(h), NEW B, NEW s, Shape(B, s, h.brk), NEW A, NEW X, Tagged(h, B, s, A, X),
         NEW b \in B, NEW v, NEW A2, v = Status(A2, b), \A c \in B \ {b} : c \in A2 <=> c \in A
  PROVE  Retags(addTags(h, b, v, s[b]), h, B, s, A2, X \ {b}, b)
<1> DEFINE g == addTags(h, b, v, s[b])
<1>1. /\ b \in Nat /\ b >= 2 /\ s[b] \in Nat /\ s[b] >= 2 /\ b + s[b] <= h.brk /\ s[b] % 2 = 0
      /\ h.brk \in Nat /\ s \in [Nat -> Nat] /\ B \subseteq 1 .. h.brk - 1
  BY ShapeIs
<1>2. v \in {0, 1}
  BY DEF Status
<1>3. /\ Typed(g) /\ g.brk = h.brk /\ g.lists = h.lists /\ g.slabs = h.slabs
      /\ \A a \in 1 .. h.brk - 1 :
           g.mem[a] = IF a = b \/ a = b + s[b] - 1 THEN Tag(v, s[b])
                      ELSE IF s[b] > 2 /\ (a = b + 1 \/ a = b + 2) THEN Link(NULL)
                      ELSE h.mem[a]
  <2> DEFINE n == s[b]
  <2>1. b \in Nat /\ n \in Nat
    BY <1>1
  <2> HIDE DEF n
  <2>2. HasTags(addTags(h, b, v, n), h, b, v, n)
    BY <1>2, <2>1, AddTagsIs
  <2> QED
    BY <2>2 DEF HasTags, n
<1> HIDE DEF g
<1>4. ASSUME NEW a \in 1 .. h.brk - 1, a < b \/ b + s[b] <= a PROVE g.mem[a] = h.mem[a]
  <2>1. a # b /\ a # b + s[b] - 1 /\ (s[b] > 2 => a # b + 1 /\ a # b + 2)
    BY <1>1, <1>4
  <2> QED
    BY <1>3, <2>1
<1>5. ASSUME NEW c \in B \ {b}
      PROVE  /\ c \in Nat /\ s[c] \in Nat /\ s[c] >= 2 /\ c >= 2
             /\ \A a \in c .. c + s[c] - 1 : g.mem[a] = h.mem[a]
  <2>1. /\ c \in Nat /\ c >= 2 /\ s[c] \in Nat /\ s[c] >= 2 /\ c + s[c] <= h.brk
        /\ c + s[c] <= b \/ b + s[b] <= c
    BY ShapeIs
  <2>2. \A a \in c .. c + s[c] - 1 : a \in 1 .. h.brk - 1 /\ (a < b \/ b + s[b] <= a)
    BY <1>1, <2>1
  <2> QED
    BY <1>4, <2>1, <2>2
<1>6. ASSUME NEW c \in B \ (X \ {b})
      PROVE  g.mem[c] = Tag(Status(A2, c), s[c]) /\ g.mem[c + s[c] - 1] = Tag(Status(A2, c), s[c])
  <2>1. CASE c = b
    <3>1. b \in 1 .. h.brk - 1 /\ b + s[b] - 1 \in 1 .. h.brk - 1
      BY <1>1
    <3> QED
      BY <1>3, <2>1, <3>1
  <2>2. CASE c # b
    <3>1. c \in c .. c + s[c] - 1 /\ c + s[c] - 1 \in c .. c + s[c] - 1
      BY <1>5, <2>2
    <3>2. Status(A2, c) = Status(A, c)
      BY <2>2 DEF Status
    <3> QED
      BY <1>5, <2>2, <3>1, <3>2 DEF Tagged
  <2> QED
    BY <2>1, <2>2
<1>7. s[b] > 2 => g.mem[b + 1] = Link(NULL) /\ g.mem[b + 2] = Link(NULL)
  <2> SUFFICES ASSUME s[b] > 2 PROVE g.mem[b + 1] = Link(NULL) /\ g.mem[b + 2] = Link(NULL)
    OBVIOUS
  <2>1. s[b] >= 4
    BY <1>1
  <2>2. /\ b + 1 \in 1 .. h.brk - 1 /\ b + 1 # b /\ b + 1 # b + s[b] - 1
        /\ b + 2 \in 1 .. h.brk - 1 /\ b + 2 # b /\ b + 2 # b + s[b] - 1
    BY <1>1, <2>1
  <2> QED
    BY <1>3, <2>2
<1>8. Tagged(g, B, s, A2, X \ {b})
  BY <1>6 DEF Tagged
<1> QED
  BY <1>3, <1>4, <1>5, <1>7, <1>8 DEF g, Retags

-----------------------------------------------------------------------------
(* The lists.  F is the set of the blocks in them, ix their lists, hd the   *)
(* first block of each, pr and su the links.  Along the links the rank rk   *)
(* falls, from rk[NULL] on, so that no chain is closed.                      *)
Linking(F, ix, hd, pr, su, rk) ==
  /\ F \subseteq Nat /\ NULL \notin F
  /\ ix \in [Nat -> Nat] /\ pr \in [Nat -> Nat] /\ su \in [Nat -> Nat] /\ rk \in [Nat -> Nat]
  /\ hd \in [0 .. NumLists - 1 -> F \cup {NULL}]
  /\ \A i \in 0 .. NumLists - 1 : hd[i] # NULL => ix[hd[i]] = i /\ pr[hd[i]] = NULL
  /\ \A b \in F :
       /\ ix[b] \in 0 .. NumLists - 1 /\ pr[b] \in F \cup {NULL} /\ su[b] \in F \cup {NULL}
       /\ rk[b] < rk[pr[b]] /\ rk[b] < rk[NULL]
       /\ pr[b] = NULL => hd[ix[b]] = b
       /\ pr[b] # NULL => ix[pr[b]] = ix[b] /\ su[pr[b]] = b
       /\ su[b] # NULL => ix[su[b]] = ix[b] /\ pr[su[b]] = b

(* The link x is set to y, unless it is NULL. *)
Set(f, x, y) == IF x = NULL THEN f ELSE [f EXCEPT ![x] = y]

(* A function of numbers with one value changed. *)
LEMMA ExceptIs ==
  ASSUME NEW f \in [Nat -> Nat], NEW x \in Nat, NEW y \in Nat
  PROVE  /\ [f EXCEPT ![x] = y] \in [Nat -> Nat]
         /\ \A n \in Nat : [f EXCEPT ![x] = y][n] = IF n = x THEN y ELSE f[n]
OBVIOUS

(* The same with Set. *)
LEMMA SetIs ==
  ASSUME NEW f \in [Nat -> Nat], NEW x \in Nat, NEW y \in Nat
  PROVE  /\ Set(f, x, y) \in [Nat -> Nat]
         /\ \A n \in Nat : Set(f, x, y)[n] = IF n = x /\ x # NULL THEN y ELSE f[n]
BY DEF Set

(* Taking a block out of a doubly linked list leaves one. *)
LEMMA LinkingWithout ==
  ASSUME NEW F, NEW ix, NEW hd, NEW pr, NEW su, NEW rk, Linking(F, ix, hd, pr, su, rk), NEW b \in F
  PROVE  Linking(F \ {b}, ix, IF pr[b] = NULL THEN [hd EXCEPT ![ix[b]] = su[b]] ELSE hd,
                 Set(pr, su[b], pr[b]), Set(su, pr[b], su[b]), rk)
<1> DEFINE p == pr[b]
           n == su[b]
           hd2 == IF p = NULL THEN [hd EXCEPT ![ix[b]] = n] ELSE hd
           pr2 == Set(pr, n, p)
           su2 == Set(su, p, n)
<1>1. /\ b \in Nat /\ b # NULL /\ p \in F \cup {NULL} /\ n \in F \cup {NULL} /\ ix[b] \in 0 .. NumLists - 1
      /\ p # NULL => ix[p] = ix[b] /\ su[p] = b
      /\ n # NULL => ix[n] = ix[b] /\ pr[n] = b
      /\ p = NULL => hd[ix[b]] = b
  BY DEF Linking
<1>2. NULL \in Nat /\ p \in Nat /\ n \in Nat /\ F \subseteq Nat /\ NULL \notin F /\ rk \in [Nat -> Nat]
  BY <1>1 DEF Linking, NULL
<1>3. p # b /\ n # b /\ (n # NULL => rk[n] < rk[p])
  <2>1. rk[b] < rk[p] /\ (n # NULL => rk[n] < rk[pr[n]])
    BY <1>1 DEF Linking
  <2>2. rk[b] \in Nat /\ rk[p] \in Nat /\ rk[n] \in Nat
    BY <1>1, <1>2
  <2> QED
    BY <1>1, <2>1, <2>2
<1>4. /\ pr2 \in [Nat -> Nat] /\ su2 \in [Nat -> Nat]
      /\ \A c \in Nat : pr2[c] = IF c = n /\ n # NULL THEN p ELSE pr[c]
      /\ \A c \in Nat : su2[c] = IF c = p /\ p # NULL THEN n ELSE su[c]
  <2>1. pr \in [Nat -> Nat] /\ su \in [Nat -> Nat] /\ p \in Nat /\ n \in Nat
    BY <1>2 DEF Linking
  <2> HIDE DEF p, n
  <2> QED
    BY <2>1, SetIs
<1>5. /\ hd2 \in [0 .. NumLists - 1 -> F \cup {NULL}]
      /\ \A i \in 0 .. NumLists - 1 : hd2[i] = IF p = NULL /\ i = ix[b] THEN n ELSE hd[i]
  BY <1>1 DEF Linking
<1>6. /\ n \in (F \ {b}) \cup {NULL} /\ p \in (F \ {b}) \cup {NULL}
  BY <1>1, <1>3
<1> HIDE DEF p, n, hd2, pr2, su2
<1>7. ASSUME NEW i \in 0 .. NumLists - 1
      PROVE  hd2[i] \in (F \ {b}) \cup {NULL} /\ (hd2[i] # NULL => ix[hd2[i]] = i /\ pr2[hd2[i]] = NULL)
  <2>1. CASE p = NULL /\ i = ix[b]
    BY <1>1, <1>2, <1>4, <1>5, <1>6, <2>1
  <2>2. CASE ~(p = NULL /\ i = ix[b])
    <3>1. hd2[i] = hd[i] /\ hd[i] \in F \cup {NULL} /\ (hd[i] # NULL => ix[hd[i]] = i /\ pr[hd[i]] = NULL)
      BY <1>5, <2>2 DEF Linking
    <3>2. hd[i] # b
      BY <1>1, <2>2, <3>1 DEF p
    <3>3. hd[i] # NULL => hd[i] # n
      BY <1>1, <3>1
    <3> QED
      BY <1>2, <1>4, <3>1, <3>2, <3>3
  <2> QED
    BY <2>1, <2>2
<1>8. ASSUME NEW c \in F \ {b}
      PROVE  /\ ix[c] \in 0 .. NumLists - 1
             /\ pr2[c] \in (F \ {b}) \cup {NULL} /\ su2[c] \in (F \ {b}) \cup {NULL}
             /\ rk[c] < rk[pr2[c]] /\ rk[c] < rk[NULL]
             /\ pr2[c] = NULL => hd2[ix[c]] = c
             /\ pr2[c] # NULL => ix[pr2[c]] = ix[c] /\ su2[pr2[c]] = c
             /\ su2[c] # NULL => ix[su2[c]] = ix[c] /\ pr2[su2[c]] = c
  <2>1. /\ ix[c] \in 0 .. NumLists - 1 /\ pr[c] \in F \cup {NULL} /\ su[c] \in F \cup {NULL}
        /\ rk[c] < rk[pr[c]] /\ rk[c] < rk[NULL]
        /\ pr[c] = NULL => hd[ix[c]] = c
        /\ pr[c] # NULL => ix[pr[c]] = ix[c] /\ su[pr[c]] = c
        /\ su[c] # NULL => ix[su[c]] = ix[c] /\ pr[su[c]] = c
        /\ c \in Nat /\ c # NULL
    BY DEF Linking
  <2>2. pr[c] = b => c = n
    BY <1>1, <2>1 DEF n
  <2>3. su[c] = b => c = p
    BY <1>1, <2>1 DEF p
  <2>4. pr2[c] \in (F \ {b}) \cup {NULL} /\ su2[c] \in (F \ {b}) \cup {NULL}
    BY <1>4, <1>6, <2>1, <2>2, <2>3
  <2>5. rk[c] < rk[pr2[c]]
    BY <1>3, <1>4, <2>1
  <2>6. ASSUME pr2[c] = NULL PROVE hd2[ix[c]] = c
    <3>1. CASE c = n
      BY <1>1, <1>4, <1>5, <2>1, <2>6, <3>1
    <3>2. CASE c # n
      <4>1. pr[c] = NULL /\ hd[ix[c]] = c
        BY <1>4, <2>1, <2>6, <3>2
      <4>2. ~(p = NULL /\ ix[c] = ix[b])
        BY <1>1, <4>1
      <4> QED
        BY <1>5, <2>1, <4>1, <4>2
    <3> QED
      BY <3>1, <3>2
  <2>7. ASSUME pr2[c] # NULL PROVE ix[pr2[c]] = ix[c] /\ su2[pr2[c]] = c
    <3>1. CASE c = n
      BY <1>1, <1>2, <1>4, <2>1, <2>7, <3>1
    <3>2. CASE c # n
      <4>1. pr2[c] = pr[c] /\ ix[pr[c]] = ix[c] /\ su[pr[c]] = c /\ pr[c] \in Nat
        BY <1>2, <1>4, <2>1, <2>7, <3>2
      <4>2. pr[c] # p
        BY <1>1, <2>1, <2>7, <4>1
      <4> QED
        BY <1>4, <4>1, <4>2
    <3> QED
      BY <3>1, <3>2
  <2>8. ASSUME su2[c] # NULL PROVE ix[su2[c]] = ix[c] /\ pr2[su2[c]] = c
    <3>1. CASE c = p
      BY <1>1, <1>2, <1>4, <2>1, <2>8, <3>1
    <3>2. CASE c # p
      <4>1. su2[c] = su[c] /\ ix[su[c]] = ix[c] /\ pr[su[c]] = c /\ su[c] \in Nat
        BY <1>2, <1>4, <2>1, <2>8, <3>2
      <4>2. su[c] # n
        BY <1>1, <2>1, <2>8, <4>1
      <4> QED
        BY <1>4, <4>1, <4>2
    <3> QED
      BY <3>1, <3>2
  <2> QED
    BY <2>1, <2>4, <2>5, <2>6, <2>7, <2>8
<1>9. hd2 \in [0 .. NumLists - 1 -> (F \ {b}) \cup {NULL}]
  BY <1>5, <1>7
<1>10. Linking(F \ {b}, ix, hd2, pr2, su2, rk)
  BY <1>2, <1>4, <1>7, <1>8, <1>9 DEF Linking
<1> QED
  BY <1>10 DEF p, n, hd2, pr2, su2

(* Putting a block in front of a doubly linked list leaves one. *)
LEMMA LinkingWith ==
  ASSUME NEW F, NEW ix, NEW hd, NEW pr, NEW su, NEW rk, Linking(F, ix, hd, pr, su, rk),
         NEW b \in Nat \ F, b # NULL, NEW i \in 0 .. NumLists - 1
  PROVE  Linking(F \cup {b}, [ix EXCEPT ![b] = i], [hd EXCEPT ![i] = b],
                 [Set(pr, hd[i], b) EXCEPT ![b] = NULL], [su EXCEPT ![b] = hd[i]],
                 [rk EXCEPT ![b] = rk[NULL], ![NULL] = rk[NULL] + 1])
<1> DEFINE n == hd[i]
           ix2 == [ix EXCEPT ![b] = i]
           hd2 == [hd EXCEPT ![i] = b]
           pr2 == [Set(pr, n, b) EXCEPT ![b] = NULL]
           su2 == [su EXCEPT ![b] = n]
           rk2 == [rk EXCEPT ![b] = rk[NULL], ![NULL] = rk[NULL] + 1]
<1>1. /\ F \subseteq Nat /\ NULL \notin F /\ NULL \in Nat /\ n \in F \cup {NULL} /\ n # b
      /\ n # NULL => ix[n] = i /\ pr[n] = NULL
      /\ ix \in [Nat -> Nat] /\ pr \in [Nat -> Nat] /\ su \in [Nat -> Nat] /\ rk \in [Nat -> Nat]
      /\ hd \in [0 .. NumLists - 1 -> F \cup {NULL}]
  <2>1. /\ F \subseteq Nat /\ NULL \notin F /\ hd \in [0 .. NumLists - 1 -> F \cup {NULL}]
        /\ ix \in [Nat -> Nat] /\ pr \in [Nat -> Nat] /\ su \in [Nat -> Nat] /\ rk \in [Nat -> Nat]
        /\ hd[i] # NULL => ix[hd[i]] = i /\ pr[hd[i]] = NULL
    BY DEF Linking
  <2>2. NULL \in Nat
    BY DEF NULL
  <2>3. hd[i] \in F \cup {NULL}
    BY <2>1
  <2> QED
    BY <2>1, <2>2, <2>3
<1> b \in Nat /\ i \in Nat
  OBVIOUS
<1>a. n \in Nat
  BY <1>1
<1>2. /\ ix2 \in [Nat -> Nat] /\ su2 \in [Nat -> Nat] /\ hd2 \in [0 .. NumLists - 1 -> (F \cup {b}) \cup {NULL}]
      /\ \A c \in Nat : ix2[c] = IF c = b THEN i ELSE ix[c]
      /\ \A c \in Nat : su2[c] = IF c = b THEN n ELSE su[c]
      /\ \A k \in 0 .. NumLists - 1 : hd2[k] = IF k = i THEN b ELSE hd[k]
  <2>1. b \in (F \cup {b}) \cup {NULL} /\ hd \in [0 .. NumLists - 1 -> (F \cup {b}) \cup {NULL}]
    BY <1>1
  <2> DEFINE T == (F \cup {b}) \cup {NULL}
  <2>2. hd2 \in [0 .. NumLists - 1 -> T] /\ \A k \in 0 .. NumLists - 1 : hd2[k] = IF k = i THEN b ELSE hd[k]
    <3> HIDE DEF T
    <3> QED
      BY <2>1 DEF T
  <2> HIDE DEF n
  <2>3. ix2 \in [Nat -> Nat] /\ \A c \in Nat : ix2[c] = IF c = b THEN i ELSE ix[c]
    BY <1>1
  <2>4. su2 \in [Nat -> Nat] /\ \A c \in Nat : su2[c] = IF c = b THEN n ELSE su[c]
    BY <1>1, <1>a
  <2> QED
    BY <2>2, <2>3, <2>4
<1>3. /\ pr2 \in [Nat -> Nat]
      /\ \A c \in Nat : pr2[c] = IF c = b THEN NULL ELSE IF c = n /\ n # NULL THEN b ELSE pr[c]
  <2> DEFINE m == Set(pr, n, b)
  <2>1. m \in [Nat -> Nat] /\ \A c \in Nat : m[c] = IF c = n /\ n # NULL THEN b ELSE pr[c]
    <3> HIDE DEF n
    <3> QED
      BY <1>1, <1>a DEF Set
  <2>2. NULL \in Nat
    BY DEF NULL
  <2> HIDE DEF m, n
  <2>3. [m EXCEPT ![b] = NULL] \in [Nat -> Nat] /\ \A c \in Nat : [m EXCEPT ![b] = NULL][c] = IF c = b THEN NULL ELSE m[c]
    BY <2>1, <2>2
  <2> QED
    BY <2>1, <2>3 DEF m
<1>4. /\ rk2 \in [Nat -> Nat]
      /\ \A c \in Nat : rk2[c] = IF c = NULL THEN rk[NULL] + 1 ELSE IF c = b THEN rk[NULL] ELSE rk[c]
  <2> DEFINE m == [rk EXCEPT ![b] = rk[NULL]]
             q == rk[NULL]
  <2>1. NULL \in Nat /\ rk \in [Nat -> Nat]
    BY <1>1
  <2>2. q \in Nat /\ q + 1 \in Nat
    BY <2>1
  <2>3. m \in [Nat -> Nat] /\ \A c \in Nat : m[c] = IF c = b THEN q ELSE rk[c]
    BY <2>1, <2>2
  <2>4. rk2 = [m EXCEPT ![NULL] = q + 1]
    OBVIOUS
  <2> HIDE DEF m, rk2, q
  <2>5. rk2 \in [Nat -> Nat] /\ \A c \in Nat : rk2[c] = IF c = NULL THEN q + 1 ELSE m[c]
    BY <2>1, <2>2, <2>3, <2>4
  <2> QED
    BY <2>1, <2>3, <2>5 DEF q
<1> HIDE DEF n, ix2, hd2, pr2, su2, rk2
<1>5. ASSUME NEW k \in 0 .. NumLists - 1, hd2[k] # NULL
      PROVE  ix2[hd2[k]] = k /\ pr2[hd2[k]] = NULL
  <2>1. CASE k = i
    BY <1>2, <1>3, <2>1
  <2>2. CASE k # i
    <3>1. hd2[k] = hd[k] /\ hd[k] \in F /\ ix[hd[k]] = k /\ pr[hd[k]] = NULL
      <4>1. hd2[k] = hd[k] /\ hd[k] # NULL /\ hd[k] \in F \cup {NULL}
        BY <1>1, <1>2, <1>5, <2>2
      <4> QED
        BY <4>1 DEF Linking
    <3> QED
      BY <1>1, <1>2, <1>3, <2>2, <3>1
  <2> QED
    BY <2>1, <2>2
<1>6. ASSUME NEW c \in F \cup {b}
      PROVE  /\ ix2[c] \in 0 .. NumLists - 1
             /\ pr2[c] \in (F \cup {b}) \cup {NULL} /\ su2[c] \in (F \cup {b}) \cup {NULL}
             /\ rk2[c] < rk2[pr2[c]] /\ rk2[c] < rk2[NULL]
             /\ pr2[c] = NULL => hd2[ix2[c]] = c
             /\ pr2[c] # NULL => ix2[pr2[c]] = ix2[c] /\ su2[pr2[c]] = c
             /\ su2[c] # NULL => ix2[su2[c]] = ix2[c] /\ pr2[su2[c]] = c
  <2>1. CASE c = b
    <3>1. /\ ix2[c] = i /\ pr2[c] = NULL /\ su2[c] = n /\ hd2[i] = b /\ c \in Nat
          /\ rk2[c] = rk[NULL] /\ rk2[NULL] = rk[NULL] + 1 /\ rk[NULL] \in Nat
      BY <1>1, <1>2, <1>3, <1>4, <2>1
    <3>2. n # NULL => ix2[n] = i /\ pr2[n] = b
      BY <1>1, <1>2, <1>3
    <3> QED
      BY <1>1, <2>1, <3>1, <3>2
  <2>2. CASE c \in F
    <3>1. /\ ix[c] \in 0 .. NumLists - 1 /\ pr[c] \in F \cup {NULL} /\ su[c] \in F \cup {NULL}
          /\ rk[c] < rk[pr[c]] /\ rk[c] < rk[NULL]
          /\ pr[c] = NULL => hd[ix[c]] = c
          /\ pr[c] # NULL => ix[pr[c]] = ix[c] /\ su[pr[c]] = c
          /\ su[c] # NULL => ix[su[c]] = ix[c] /\ pr[su[c]] = c
          /\ c \in Nat /\ c # NULL /\ c # b
      BY <1>1, <2>2 DEF Linking
    <3>2. ix2[c] = ix[c] /\ su2[c] = su[c] /\ rk2[c] = rk[c] /\ su[c] # b /\ pr[c] # b
      BY <1>1, <1>2, <1>4, <3>1
    <3>3. pr2[c] = IF c = n THEN b ELSE pr[c]
      BY <1>3, <3>1
    <3>4. rk2[c] < rk2[pr2[c]]
      <4>1. CASE c = n
        BY <1>1, <1>4, <3>1, <3>2, <3>3, <4>1
      <4>2. CASE c # n
        <5>1. pr2[c] = pr[c] /\ pr[c] \in Nat /\ rk[pr[c]] \in Nat /\ rk[c] \in Nat
          BY <1>1, <3>1, <3>3, <4>2
        <5>2. pr[c] # NULL => rk2[pr[c]] = rk[pr[c]]
          BY <1>4, <3>2, <5>1
        <5>3. pr[c] = NULL => rk2[pr[c]] = rk[pr[c]] + 1
          BY <1>4, <5>1
        <5> QED
          BY <3>1, <3>2, <5>1, <5>2, <5>3
      <4> QED
        BY <4>1, <4>2
    <3>a. rk2[c] < rk2[NULL]
      <4>1. rk[c] \in Nat /\ rk[NULL] \in Nat /\ rk2[NULL] = rk[NULL] + 1
        BY <1>1, <1>4, <3>1
      <4> QED
        BY <3>1, <3>2, <4>1
    <3>5. ASSUME pr2[c] = NULL PROVE hd2[ix2[c]] = c
      <4>1. pr[c] = NULL /\ c # n /\ hd[ix[c]] = c
        BY <3>1, <3>3, <3>5
      <4>2. ix[c] # i
        BY <4>1 DEF n
      <4> QED
        BY <1>2, <3>1, <3>2, <4>1, <4>2
    <3>6. ASSUME pr2[c] # NULL PROVE ix2[pr2[c]] = ix2[c] /\ su2[pr2[c]] = c
      <4>1. CASE c = n
        BY <1>1, <1>2, <3>1, <3>2, <3>3, <4>1
      <4>2. CASE c # n
        <5>1. pr2[c] = pr[c] /\ pr[c] \in F /\ pr[c] \in Nat /\ pr[c] # b
          BY <1>1, <3>1, <3>2, <3>3, <3>6, <4>2
        <5>2. ix2[pr[c]] = ix[pr[c]] /\ su2[pr[c]] = su[pr[c]]
          BY <1>2, <5>1
        <5> QED
          BY <3>1, <3>2, <3>6, <5>1, <5>2
      <4> QED
        BY <4>1, <4>2
    <3>7. ASSUME su2[c] # NULL PROVE ix2[su2[c]] = ix2[c] /\ pr2[su2[c]] = c
      <4>1. su[c] \in F /\ ix[su[c]] = ix[c] /\ pr[su[c]] = c
        BY <3>1, <3>2, <3>7
      <4>2. su[c] # n
        BY <1>1, <3>1, <4>1
      <4> QED
        BY <1>1, <1>2, <1>3, <3>2, <4>1, <4>2
    <3> QED
      BY <2>2, <3>1, <3>2, <3>3, <3>4, <3>a, <3>5, <3>6, <3>7
  <2> QED
    BY <2>1, <2>2
<1>7. Linking(F \cup {b}, ix2, hd2, pr2, su2, rk2)
  BY <1>1, <1>2, <1>3, <1>4, <1>5, <1>6 DEF Linking
<1> QED
  BY <1>7 DEF n, ix2, hd2, pr2, su2, rk2

(* The words of the links of F. *)
LinkWords(F) == {f + 1 : f \in F} \cup {f + 2 : f \in F}

(* g differs from h in the lists and in the links of F. *)
Relinked(g, h, F) ==
  /\ Typed(g) /\ g.brk = h.brk /\ g.slabs = h.slabs
  /\ \A a \in 1 .. h.brk - 1 : a \notin LinkWords(F) => g.mem[a] = h.mem[a]

(* g is h with one link of the block b replaced, if there is a block. *)
OneLink(g, h, b, word, to) ==
  /\ Typed(g) /\ g.brk = h.brk /\ g.slabs = h.slabs /\ g.lists = h.lists
  /\ \A a \in 1 .. h.brk - 1 : g.mem[a] = IF b # NULL /\ a = b + word THEN Link(to) ELSE h.mem[a]

(* SetPred and SetSucc write one link, none if the block is NULL. *)
LEMMA SetLinkIs ==
  ASSUME NEW h, Typed(h), NEW b \in Nat, b # NULL => b + 2 \in 1 .. h.brk - 1, NEW to \in Nat
  PROVE  OneLink(SetPred(h, b, to), h, b, 1, to) /\ OneLink(SetSucc(h, b, to), h, b, 2, to)
<1>1. CASE b = NULL
  BY <1>1 DEF SetPred, SetSucc, OneLink
<1>2. CASE b # NULL
  <2> DEFINE w == Link(to)
  <2>1. b + 1 \in 1 .. h.brk - 1 /\ b + 2 \in 1 .. h.brk - 1 /\ w \in Word
    <3>1. h.brk \in Nat
      BY TypedIs
    <3> QED
      BY <1>2, <3>1, Words DEF NULL
  <2> HIDE DEF w
  <2>2. SetPred(h, b, to) = [h EXCEPT !.mem[b + 1] = w] /\ SetSucc(h, b, to) = [h EXCEPT !.mem[b + 2] = w]
    BY <1>2 DEF SetPred, SetSucc, w
  <2> DEFINE c == b + 1
             d == b + 2
  <2>3. c \in 1 .. h.brk - 1 /\ d \in 1 .. h.brk - 1
    BY <2>1
  <2> HIDE DEF c, d
  <2>4. LET g == [h EXCEPT !.mem[c] = w] IN
         /\ Typed(g) /\ g.brk = h.brk /\ g.lists = h.lists /\ g.slabs = h.slabs
         /\ \A e \in 1 .. h.brk - 1 : g.mem[e] = IF e = c THEN w ELSE h.mem[e]
    BY <2>1, <2>3, PutIs
  <2>5. LET g == [h EXCEPT !.mem[d] = w] IN
         /\ Typed(g) /\ g.brk = h.brk /\ g.lists = h.lists /\ g.slabs = h.slabs
         /\ \A e \in 1 .. h.brk - 1 : g.mem[e] = IF e = d THEN w ELSE h.mem[e]
    BY <2>1, <2>3, PutIs
  <2>6. SetPred(h, b, to) = [h EXCEPT !.mem[c] = w] /\ SetSucc(h, b, to) = [h EXCEPT !.mem[d] = w]
    BY <2>2 DEF c, d
  <2> QED
    BY <1>2, <2>4, <2>5, <2>6 DEF c, d, w, OneLink
<1> QED
  BY <1>1, <1>2

(* The head of a list is written. *)
LEMMA SetListIs ==
  ASSUME NEW h, Typed(h), NEW i \in 0 .. NumLists - 1, NEW b \in Nat
  PROVE  LET g == [h EXCEPT !.lists[i] = b] IN
         /\ Typed(g) /\ g.brk = h.brk /\ g.slabs = h.slabs /\ g.mem = h.mem
         /\ g.lists = [h.lists EXCEPT ![i] = b]
<1> DEFINE m == [h.lists EXCEPT ![i] = b]
<1>1. m \in [0 .. NumLists - 1 -> Nat]
  BY TypedIs
<1>2. [h EXCEPT !.lists[i] = b] = [h EXCEPT !.lists = m]
  OBVIOUS
<1> HIDE DEF m
<1>3. h \in Heap
  BY DEF Typed
<1> QED
  BY <1>1, <1>2, <1>3 DEF Typed, Heap, m

(* F is in the heap, and its links are pr and su. *)
Room(h, F) == \A f \in F : f \in Nat /\ f # NULL /\ f % 2 = 0 /\ f + 2 \in 1 .. h.brk - 1
LinksAre(h, F, pr, su) ==
  \A f \in F : h.mem[f + 1] = Link(pr[f]) /\ h.mem[f + 2] = Link(su[f])

(* The links of two blocks are in different words. *)
LEMMA ApartLinks ==
  ASSUME NEW h, Typed(h), NEW F, Room(h, F), NEW f \in F, NEW e \in F
  PROVE  /\ f + 1 \in 1 .. h.brk - 1 /\ f + 2 \in 1 .. h.brk - 1
         /\ f + 1 # e + 2
         /\ f + 1 = e + 1 <=> f = e
         /\ f + 2 = e + 2 <=> f = e
<1>1. f \in Nat /\ e \in Nat /\ f % 2 = 0 /\ e % 2 = 0 /\ f + 2 \in 1 .. h.brk - 1 /\ h.brk \in Nat
  BY TypedIs DEF Room
<1> QED
  BY <1>1

(* listDelete takes a block out of its list. *)
LEMMA UnlinkLinks ==
  ASSUME NEW h, Typed(h), NEW F, Room(h, F),
         NEW ix, NEW pr, NEW su, NEW rk, Linking(F, ix, h.lists, pr, su, rk), LinksAre(h, F, pr, su),
         NEW b \in F
  PROVE  LET g == listDelete(h, pr[b], su[b], ix[b]) IN
         /\ Relinked(g, h, F)
         /\ Linking(F \ {b}, ix, g.lists, Set(pr, su[b], pr[b]), Set(su, pr[b], su[b]), rk)
         /\ LinksAre(g, F \ {b}, Set(pr, su[b], pr[b]), Set(su, pr[b], su[b]))
<1> DEFINE p == pr[b]
           n == su[b]
           i == ix[b]
           g == listDelete(h, p, n, i)
           pr2 == Set(pr, n, p)
           su2 == Set(su, p, n)
<1>1. /\ p \in F \cup {NULL} /\ n \in F \cup {NULL} /\ i \in 0 .. NumLists - 1
      /\ F \subseteq Nat /\ NULL \notin F /\ NULL \in Nat
      /\ pr \in [Nat -> Nat] /\ su \in [Nat -> Nat]
  BY DEF Linking, NULL
<1>2. p \in Nat /\ n \in Nat /\ (p # NULL => p + 2 \in 1 .. h.brk - 1) /\ (n # NULL => n + 2 \in 1 .. h.brk - 1)
  BY <1>1 DEF Room
<1>3. Linking(F \ {b}, ix, IF p = NULL THEN [h.lists EXCEPT ![i] = n] ELSE h.lists, pr2, su2, rk)
  BY LinkingWithout
<1>4. /\ \A c \in Nat : pr2[c] = IF c = n /\ n # NULL THEN p ELSE pr[c]
      /\ \A c \in Nat : su2[c] = IF c = p /\ p # NULL THEN n ELSE su[c]
  <2> HIDE DEF p, n
  <2> QED
    BY <1>1, <1>2 DEF Set
<1> HIDE DEF p, n, i, pr2, su2
<1> DEFINE k == IF p = NULL THEN [h EXCEPT !.lists[i] = n] ELSE SetSucc(h, p, n)
<1>5. g = SetPred(k, n, p)
  BY DEF listDelete
<1>6. /\ Typed(k) /\ k.brk = h.brk /\ k.slabs = h.slabs
      /\ k.lists = IF p = NULL THEN [h.lists EXCEPT ![i] = n] ELSE h.lists
      /\ \A a \in 1 .. h.brk - 1 : k.mem[a] = IF p # NULL /\ a = p + 2 THEN Link(n) ELSE h.mem[a]
  <2>1. CASE p = NULL
    BY <1>1, <1>2, <2>1, SetListIs
  <2>2. CASE p # NULL
    <3>1. k = SetSucc(h, p, n) /\ OneLink(SetSucc(h, p, n), h, p, 2, n)
      BY <1>1, <1>2, <2>2, SetLinkIs
    <3> HIDE DEF k
    <3> QED
      BY <2>2, <3>1 DEF OneLink
  <2> QED
    BY <2>1, <2>2
<1> HIDE DEF k
<1>7. /\ Typed(g) /\ g.brk = h.brk /\ g.slabs = h.slabs /\ g.lists = k.lists
      /\ \A a \in 1 .. h.brk - 1 : g.mem[a] = IF n # NULL /\ a = n + 1 THEN Link(p) ELSE k.mem[a]
  <2>1. OneLink(SetPred(k, n, p), k, n, 1, p)
    BY <1>2, <1>6, SetLinkIs
  <2> QED
    BY <1>5, <1>6, <2>1 DEF OneLink
<1> HIDE DEF g
<1>8. ASSUME NEW f \in F
      PROVE  g.mem[f + 1] = Link(pr2[f]) /\ g.mem[f + 2] = Link(su2[f])
  <2>1. /\ f \in Nat /\ f # NULL /\ h.mem[f + 1] = Link(pr[f]) /\ h.mem[f + 2] = Link(su[f])
        /\ f + 1 \in 1 .. h.brk - 1 /\ f + 2 \in 1 .. h.brk - 1
    BY <1>1, ApartLinks DEF LinksAre
  <2>2. p # NULL => f + 1 # p + 2 /\ (f + 2 = p + 2 <=> f = p)
    BY <1>1, ApartLinks
  <2>3. n # NULL => f + 2 # n + 1 /\ (f + 1 = n + 1 <=> f = n)
    BY <1>1, ApartLinks
  <2>4. g.mem[f + 1] = IF n # NULL /\ f = n THEN Link(p) ELSE Link(pr[f])
    <3>1. k.mem[f + 1] = h.mem[f + 1]
      BY <1>6, <2>1, <2>2
    <3> QED
      BY <1>7, <2>1, <2>3, <3>1
  <2>5. g.mem[f + 2] = IF p # NULL /\ f = p THEN Link(n) ELSE Link(su[f])
    <3>1. k.mem[f + 2] = IF p # NULL /\ f = p THEN Link(n) ELSE h.mem[f + 2]
      BY <1>6, <2>1, <2>2
    <3> QED
      BY <1>7, <2>1, <2>3, <3>1
  <2> QED
    BY <1>4, <2>1, <2>4, <2>5
<1>9. ASSUME NEW a \in 1 .. h.brk - 1, a \notin LinkWords(F) PROVE g.mem[a] = h.mem[a]
  <2>1. (p # NULL => a # p + 2) /\ (n # NULL => a # n + 1)
    BY <1>1, <1>9 DEF LinkWords
  <2> QED
    BY <1>6, <1>7, <2>1
<1> QED
  BY <1>3, <1>6, <1>7, <1>8, <1>9 DEF p, n, i, g, pr2, su2, Relinked, LinksAre

(* The block b has been put in front of list i. *)
PutFirst(g, h, F, ix, b, i) ==
  /\ Relinked(g, h, F \cup {b})
  /\ \E ix2, pr2, su2, rk2 :
       /\ Linking(F \cup {b}, ix2, g.lists, pr2, su2, rk2) /\ LinksAre(g, F \cup {b}, pr2, su2)
       /\ ix2[b] = i /\ \A f \in F : ix2[f] = ix[f]

(* A block whose link to the one before is NULL is put in front. *)
LEMMA AddLinks ==
  ASSUME NEW h, Typed(h), NEW F, NEW b \in Nat \ F, Room(h, F \cup {b}),
         NEW ix, NEW pr, NEW su, NEW rk, Linking(F, ix, h.lists, pr, su, rk), LinksAre(h, F, pr, su),
         NEW i \in 0 .. NumLists - 1, h.mem[b + 1] = Link(NULL)
  PROVE  PutFirst(listAdd(h, b, i), h, F, ix, b, i)
<1> DEFINE n == h.lists[i]
           k == SetSucc(h, b, n)
           j == SetPred(k, n, b)
           g == listAdd(h, b, i)
           ix2 == [ix EXCEPT ![b] = i]
           pr2 == [Set(pr, n, b) EXCEPT ![b] = NULL]
           su2 == [su EXCEPT ![b] = n]
           rk2 == [rk EXCEPT ![b] = rk[NULL], ![NULL] = rk[NULL] + 1]
<1>1. /\ n \in F \cup {NULL} /\ F \subseteq Nat /\ NULL \notin F /\ NULL \in Nat
      /\ pr \in [Nat -> Nat] /\ su \in [Nat -> Nat] /\ ix \in [Nat -> Nat]
  BY DEF Linking, NULL
<1>2. /\ b \in Nat /\ b # NULL /\ b + 2 \in 1 .. h.brk - 1 /\ n \in Nat /\ n # b
      /\ n # NULL => n + 2 \in 1 .. h.brk - 1
  BY <1>1 DEF Room
<1>3. Linking(F \cup {b}, ix2, [h.lists EXCEPT ![i] = b], pr2, su2, rk2)
  BY <1>2, LinkingWith
<1>4. /\ \A c \in Nat : pr2[c] = IF c = b THEN NULL ELSE IF c = n /\ n # NULL THEN b ELSE pr[c]
      /\ \A c \in Nat : su2[c] = IF c = b THEN n ELSE su[c]
      /\ \A c \in Nat : ix2[c] = IF c = b THEN i ELSE ix[c]
  <2> DEFINE m == Set(pr, n, b)
  <2>1. m \in [Nat -> Nat] /\ \A c \in Nat : m[c] = IF c = n /\ n # NULL THEN b ELSE pr[c]
    <3> HIDE DEF n
    <3> QED
      BY <1>1, <1>2 DEF Set
  <2> HIDE DEF n, m
  <2>2. \A c \in Nat : [m EXCEPT ![b] = NULL][c] = IF c = b THEN NULL ELSE m[c]
    BY <1>1, <1>2, <2>1
  <2>3. /\ \A c \in Nat : su2[c] = IF c = b THEN n ELSE su[c]
        /\ \A c \in Nat : ix2[c] = IF c = b THEN i ELSE ix[c]
    BY <1>1, <1>2
  <2> QED
    BY <2>1, <2>2, <2>3 DEF m
<1> HIDE DEF n, ix2, pr2, su2, rk2
<1>5. /\ Typed(k) /\ k.brk = h.brk /\ k.slabs = h.slabs /\ k.lists = h.lists
      /\ \A a \in 1 .. h.brk - 1 : k.mem[a] = IF a = b + 2 THEN Link(n) ELSE h.mem[a]
  <2>1. OneLink(k, h, b, 2, n)
    BY <1>2, SetLinkIs
  <2> HIDE DEF k
  <2> QED
    BY <1>2, <2>1 DEF OneLink
<1> HIDE DEF k
<1>6. /\ Typed(j) /\ j.brk = h.brk /\ j.slabs = h.slabs /\ j.lists = h.lists
      /\ \A a \in 1 .. h.brk - 1 : j.mem[a] = IF n # NULL /\ a = n + 1 THEN Link(b) ELSE k.mem[a]
  <2>1. OneLink(j, k, n, 1, b)
    BY <1>2, <1>5, SetLinkIs
  <2> HIDE DEF j
  <2> QED
    BY <1>5, <2>1 DEF OneLink
<1>7. g = [j EXCEPT !.lists[i] = b]
  BY DEF listAdd, n, k
<1> HIDE DEF j, g
<1>8. Typed(g) /\ g.brk = h.brk /\ g.slabs = h.slabs /\ g.mem = j.mem /\ g.lists = [h.lists EXCEPT ![i] = b]
  BY <1>2, <1>6, <1>7, SetListIs
<1>9. ASSUME NEW f \in F \cup {b}
      PROVE  g.mem[f + 1] = Link(pr2[f]) /\ g.mem[f + 2] = Link(su2[f])
  <2>1. /\ f \in Nat /\ f + 1 \in 1 .. h.brk - 1 /\ f + 2 \in 1 .. h.brk - 1
        /\ f # b => h.mem[f + 1] = Link(pr[f]) /\ h.mem[f + 2] = Link(su[f])
    BY <1>1, ApartLinks DEF LinksAre
  <2> DEFINE G == F \cup {b}
  <2>a. f \in G /\ b \in G /\ Room(h, G) /\ (n # NULL => n \in G)
    BY <1>1
  <2> HIDE DEF G
  <2>2. f + 1 # b + 2 /\ (f + 2 = b + 2 <=> f = b)
    BY <2>a, ApartLinks
  <2>3. n # NULL => f + 2 # n + 1 /\ (f + 1 = n + 1 <=> f = n)
    BY <2>a, ApartLinks
  <2>4. g.mem[f + 1] = Link(pr2[f])
    <3>1. k.mem[f + 1] = h.mem[f + 1]
      BY <1>5, <2>1, <2>2
    <3> QED
      BY <1>2, <1>4, <1>6, <1>8, <2>1, <2>3, <3>1
  <2>5. g.mem[f + 2] = Link(su2[f])
    <3>1. k.mem[f + 2] = IF f = b THEN Link(n) ELSE h.mem[f + 2]
      BY <1>5, <2>1, <2>2
    <3> QED
      BY <1>4, <1>6, <1>8, <2>1, <2>3, <3>1
  <2> QED
    BY <2>4, <2>5
<1>10. ASSUME NEW a \in 1 .. h.brk - 1, a \notin LinkWords(F \cup {b}) PROVE g.mem[a] = h.mem[a]
  <2>1. a # b + 2 /\ (n # NULL => a # n + 1)
    BY <1>1, <1>10 DEF LinkWords
  <2> QED
    BY <1>5, <1>6, <1>8, <2>1
<1>11. ix2[b] = i /\ \A f \in F : ix2[f] = ix[f]
  BY <1>1, <1>2, <1>4
<1>12. Linking(F \cup {b}, ix2, g.lists, pr2, su2, rk2) /\ LinksAre(g, F \cup {b}, pr2, su2)
  BY <1>3, <1>8, <1>9 DEF LinksAre
<1>13. Relinked(g, h, F \cup {b})
  BY <1>8, <1>10 DEF Relinked
<1> QED
  BY <1>11, <1>12, <1>13 DEF g, PutFirst

-----------------------------------------------------------------------------
(* The heap with some blocks in the making. *)

(* The blocks F are in the lists of their sizes. *)
Lists(h, F, s) ==
  \E ix, pr, su, rk :
    /\ Linking(F, ix, h.lists, pr, su, rk) /\ LinksAre(h, F, pr, su)
    /\ \A f \in F : ix[f] = getIndex(s[f])

(* The free blocks with room for links, but for those in U. *)
Spare(B, s, U) == {f \in B \ U : s[f] > 2}

(* All is in order but the tags and the links of the blocks X, which are   *)
(* neither in use nor in a list.                                            *)
Loose(h, B, s, A, X) ==
  /\ Typed(h) /\ Shape(B, s, h.brk) /\ h.mem[1] = Tag(0, 0)
  /\ A \subseteq B /\ X \subseteq B /\ A \cap X = {}
  /\ Tagged(h, B, s, A, X)
  /\ Lists(h, Spare(B, s, A \cup X), s)

(* From h to g nothing is lost: the slabs, the heap and the blocks A are    *)
(* what they were, their tags included.                                      *)
Kept(g, h, A) ==
  /\ Typed(g) /\ g.slabs = h.slabs /\ h.brk <= g.brk
  /\ \A c \in A : \A a \in c .. c + SizeOf(h, c) - 1 : g.mem[a] = h.mem[a]

(* g comes from h without a change of the blocks U or of the break. *)
Becomes(g, h, B, s, A, X, U) == Loose(g, B, s, A, X) /\ Kept(g, h, U) /\ g.brk = h.brk

(* The tags of a block in use tell its size. *)
LEMMA UsedIs ==
  ASSUME NEW h, NEW B, NEW s, NEW A, NEW X, Loose(h, B, s, A, X), NEW b \in A
  PROVE  /\ b \in B /\ b \in Nat /\ b >= 2 /\ b % 2 = 0 /\ s[b] \in Nat /\ s[b] >= 2 /\ s[b] % 2 = 0
         /\ b + s[b] <= h.brk
         /\ h.mem[b] = Tag(1, s[b]) /\ h.mem[b + s[b] - 1] = Tag(1, s[b])
         /\ Valid(h, b) = 1 /\ SizeOf(h, b) = s[b]
<1>1. b \in B \ X /\ Shape(B, s, h.brk) /\ Tagged(h, B, s, A, X)
  BY DEF Loose
<1>2. h.mem[b] = Tag(1, s[b]) /\ h.mem[b + s[b] - 1] = Tag(1, s[b])
  BY <1>1 DEF Tagged, Status
<1>3. Valid(h, b) = 1 /\ SizeOf(h, b) = s[b]
  BY <1>2, Words DEF Valid, SizeOf
<1> QED
  BY <1>1, <1>2, <1>3, ShapeIs

(* What is untouched by two steps is untouched by both. *)
LEMMA KeptTransitive ==
  ASSUME NEW h, NEW g, NEW k, NEW A, Typed(h), Typed(g), Kept(g, h, A), Kept(k, g, A),
         \A c \in A : c \in Nat /\ SizeOf(h, c) \in Nat /\ SizeOf(h, c) >= 1
  PROVE  Kept(k, h, A)
<1>1. k.slabs = h.slabs /\ h.brk <= k.brk /\ Typed(k)
  BY TypedIs DEF Kept
<1>2. ASSUME NEW c \in A, NEW a \in c .. c + SizeOf(h, c) - 1 PROVE k.mem[a] = h.mem[a]
  <2>1. c \in c .. c + SizeOf(h, c) - 1
    OBVIOUS
  <2>2. g.mem[c] = h.mem[c] /\ g.mem[a] = h.mem[a]
    BY <2>1 DEF Kept
  <2>3. SizeOf(g, c) = SizeOf(h, c)
    BY <2>2 DEF SizeOf
  <2>4. k.mem[a] = g.mem[a]
    BY <2>3 DEF Kept
  <2> QED
    BY <2>2, <2>4
<1> QED
  BY <1>1, <1>2 DEF Kept

(* The links of free blocks lie between their tags. *)
LEMMA SpareIs ==
  ASSUME NEW h, Typed(h), NEW B, NEW s, Shape(B, s, h.brk), NEW F, F \subseteq Spare(B, s, {})
  PROVE  /\ Room(h, F)
         /\ 1 \notin LinkWords(F)
         /\ \A b \in B : b \notin LinkWords(F) /\ b + s[b] - 1 \notin LinkWords(F)
         /\ \A b \in B \ F : \A a \in b .. b + s[b] - 1 : a \notin LinkWords(F)
<1>1. ASSUME NEW f \in F
      PROVE  /\ f \in B /\ f \in Nat /\ f >= 2 /\ f # NULL /\ f % 2 = 0 /\ f + 2 \in 1 .. h.brk - 1
             /\ s[f] \in Nat /\ s[f] >= 4 /\ f + s[f] <= h.brk
  <2>1. f \in B /\ s[f] > 2
    BY DEF Spare
  <2>2. /\ f \in Nat /\ f >= 2 /\ s[f] \in Nat /\ s[f] % 2 = 0 /\ f % 2 = 0 /\ f + s[f] <= h.brk
        /\ h.brk \in Nat
    BY <2>1, ShapeIs
  <2> QED
    BY <2>1, <2>2 DEF NULL
<1>2. Room(h, F)
  BY <1>1 DEF Room
<1>3. 1 \notin LinkWords(F)
  BY <1>1 DEF LinkWords
<1>4. ASSUME NEW b \in B PROVE b \notin LinkWords(F) /\ b + s[b] - 1 \notin LinkWords(F)
  <2> SUFFICES ASSUME NEW f \in F
               PROVE  b # f + 1 /\ b # f + 2 /\ b + s[b] - 1 # f + 1 /\ b + s[b] - 1 # f + 2
    BY DEF LinkWords
  <2>1. b \in Nat /\ s[b] \in Nat /\ s[b] >= 2 /\ (b = f \/ b + s[b] <= f \/ f + s[f] <= b)
    BY <1>1, ShapeIs
  <2> QED
    BY <1>1, <2>1
<1>5. ASSUME NEW b \in B \ F, NEW a \in b .. b + s[b] - 1 PROVE a \notin LinkWords(F)
  <2> SUFFICES ASSUME NEW f \in F PROVE a # f + 1 /\ a # f + 2
    BY DEF LinkWords
  <2>1. b \in Nat /\ s[b] \in Nat /\ (b + s[b] <= f \/ f + s[f] <= b)
    BY <1>1, ShapeIs
  <2> QED
    BY <1>1, <2>1
<1> QED
  BY <1>2, <1>3, <1>4, <1>5

(* Writing links disturbs no tag and no block in use. *)
LEMMA RelinkedKeeps ==
  ASSUME NEW h, NEW B, NEW s, NEW A, NEW X, Loose(h, B, s, A, X), NEW F, F \subseteq Spare(B, s, A),
         NEW g, Relinked(g, h, F)
  PROVE  /\ Typed(g) /\ Shape(B, s, g.brk) /\ g.mem[1] = Tag(0, 0) /\ Tagged(g, B, s, A, X)
         /\ Kept(g, h, A)
<1>1. /\ Typed(h) /\ Shape(B, s, h.brk) /\ h.mem[1] = Tag(0, 0) /\ A \subseteq B /\ Tagged(h, B, s, A, X)
      /\ Typed(g) /\ g.brk = h.brk /\ g.slabs = h.slabs /\ h.brk \in Nat /\ h.brk >= 2
  BY DEF Loose, Relinked, Shape
<1>2. F \subseteq Spare(B, s, {}) /\ A \cap F = {}
  BY DEF Spare
<1>3. \A a \in 1 .. h.brk - 1 : a \notin LinkWords(F) => g.mem[a] = h.mem[a]
  BY DEF Relinked
<1>4. 1 \notin LinkWords(F) /\ 1 \in 1 .. h.brk - 1
  BY <1>1, <1>2, SpareIs
<1>5. g.mem[1] = Tag(0, 0)
  BY <1>1, <1>3, <1>4
<1>6. ASSUME NEW b \in B \ X
      PROVE  g.mem[b] = Tag(Status(A, b), s[b]) /\ g.mem[b + s[b] - 1] = Tag(Status(A, b), s[b])
  <2>1. b \in 1 .. h.brk - 1 /\ b + s[b] - 1 \in 1 .. h.brk - 1
    BY <1>1, ShapeIs
  <2>2. b \notin LinkWords(F) /\ b + s[b] - 1 \notin LinkWords(F)
    BY <1>1, <1>2, SpareIs
  <2> QED
    BY <1>1, <1>3, <2>1, <2>2 DEF Tagged
<1>7. ASSUME NEW c \in A, NEW a \in c .. c + SizeOf(h, c) - 1 PROVE g.mem[a] = h.mem[a]
  <2>1. c \in B \ F /\ SizeOf(h, c) = s[c] /\ c \in Nat /\ c >= 2 /\ s[c] \in Nat /\ c + s[c] <= h.brk
    BY <1>2, UsedIs
  <2>2. a \notin LinkWords(F)
    BY <1>1, <1>2, <2>1, SpareIs
  <2>3. a \in 1 .. h.brk - 1
    BY <1>1, <2>1
  <2> QED
    BY <1>3, <2>2, <2>3
<1>8. Tagged(g, B, s, A, X)
  BY <1>6 DEF Tagged
<1>9. Kept(g, h, A)
  BY <1>1, <1>7 DEF Kept
<1> QED
  BY <1>1, <1>5, <1>8, <1>9

(* A block in use is given up. *)
LEMMA Released ==
  ASSUME NEW h, NEW B, NEW s, NEW A, NEW X, Loose(h, B, s, A, X), NEW b \in A
  PROVE  Loose(h, B, s, A \ {b}, X \cup {b})
<1>1. A \cup X = (A \ {b}) \cup (X \cup {b}) /\ b \in B
  BY DEF Loose
<1>2. Tagged(h, B, s, A \ {b}, X \cup {b})
  BY DEF Loose, Tagged, Status
<1> QED
  BY <1>1, <1>2 DEF Loose

(* What pred and succ read from a block in a list. *)
LEMMA LinksRead ==
  ASSUME NEW h, NEW B, NEW s, NEW A, NEW X, Loose(h, B, s, A, X), NEW b \in Spare(B, s, A \cup X),
         NEW pr, NEW su, LinksAre(h, Spare(B, s, A \cup X), pr, su)
  PROVE  pred(h, b) = pr[b] /\ succ(h, b) = su[b] /\ SizeOf(h, b) = s[b] /\ Valid(h, b) = 0
<1>1. h.mem[b] = Tag(0, s[b]) /\ s[b] > 2
  BY DEF Loose, Spare, Tagged, Status
<1>2. Valid(h, b) = 0 /\ SizeOf(h, b) = s[b] /\ Linked(h, b)
  BY <1>1, Words DEF Valid, SizeOf, Linked
<1>3. h.mem[b + 1] = Link(pr[b]) /\ h.mem[b + 2] = Link(su[b])
  BY DEF LinksAre
<1> QED
  BY <1>2, <1>3, Words DEF pred, succ

(* A free block leaves its list. *)
LEMMA Unlisted ==
  ASSUME NEW h, NEW B, NEW s, NEW A, NEW X, Loose(h, B, s, A, X), NEW b \in B \ (A \cup X)
  PROVE  /\ s[b] > 2 => Becomes(listDelete(h, pred(h, b), succ(h, b), getIndex(s[b])),
                                h, B, s, A, X \cup {b}, A)
         /\ Becomes(Unlink(h, b, s[b]), h, B, s, A, X \cup {b}, A)
<1> DEFINE F == Spare(B, s, A \cup X)
           g == listDelete(h, pred(h, b), succ(h, b), getIndex(s[b]))
<1>1. /\ Typed(h) /\ Shape(B, s, h.brk) /\ h.mem[1] = Tag(0, 0) /\ A \subseteq B /\ X \subseteq B
      /\ A \cap X = {} /\ Tagged(h, B, s, A, X) /\ Lists(h, F, s)
  BY DEF Loose
<1>2. A \cap (X \cup {b}) = {} /\ X \cup {b} \subseteq B
  BY <1>1
<1>3. ASSUME s[b] > 2
      PROVE  Loose(g, B, s, A, X \cup {b}) /\ Kept(g, h, A) /\ g.brk = h.brk
  <2>1. b \in F
    BY <1>3 DEF Spare
  <2>2. PICK ix, pr, su, rk :
           /\ Linking(F, ix, h.lists, pr, su, rk) /\ LinksAre(h, F, pr, su)
           /\ \A f \in F : ix[f] = getIndex(s[f])
    BY <1>1 DEF Lists
  <2>3. g = listDelete(h, pr[b], su[b], ix[b])
    BY <2>1, <2>2, LinksRead
  <2>4. Room(h, F) /\ F \subseteq Spare(B, s, A)
    <3>1. F \subseteq Spare(B, s, {}) /\ F \subseteq Spare(B, s, A)
      BY DEF Spare
    <3> QED
      BY <1>1, <3>1, SpareIs
  <2> DEFINE pr2 == Set(pr, su[b], pr[b])
             su2 == Set(su, pr[b], su[b])
  <2> HIDE DEF F, g
  <2>5. Relinked(g, h, F) /\ Linking(F \ {b}, ix, g.lists, pr2, su2, rk) /\ LinksAre(g, F \ {b}, pr2, su2)
    BY <1>1, <2>1, <2>2, <2>3, <2>4, UnlinkLinks
  <2> HIDE DEF pr2, su2
  <2>6. Lists(g, F \ {b}, s)
    BY <2>2, <2>5 DEF Lists
  <2>7. F \ {b} = Spare(B, s, A \cup (X \cup {b}))
    BY DEF F, Spare
  <2>8. /\ Typed(g) /\ Shape(B, s, g.brk) /\ g.mem[1] = Tag(0, 0) /\ Tagged(g, B, s, A, X) /\ Kept(g, h, A)
    BY <2>4, <2>5, RelinkedKeeps
  <2>9. Tagged(g, B, s, A, X \cup {b})
    BY <2>8 DEF Tagged
  <2> QED
    BY <1>1, <1>2, <2>5, <2>6, <2>7, <2>8, <2>9 DEF Loose, Relinked
<1> HIDE DEF g
<1>4. ASSUME ~(s[b] > 2)
      PROVE  Loose(h, B, s, A, X \cup {b}) /\ Kept(h, h, A)
  <2>1. F = Spare(B, s, A \cup (X \cup {b}))
    BY <1>4 DEF Spare
  <2>2. Tagged(h, B, s, A, X \cup {b})
    BY <1>1 DEF Tagged
  <2>3. Kept(h, h, A)
    BY <1>1, TypedIs DEF Kept
  <2> HIDE DEF F
  <2> QED
    BY <1>1, <1>2, <2>1, <2>2, <2>3 DEF Loose
<1>5. Unlink(h, b, s[b]) = IF s[b] > 2 THEN g ELSE h
  BY DEF Unlink, g
<1> QED
  BY <1>3, <1>4, <1>5 DEF g, Becomes

(* Two neighbours in the making become one. *)
LEMMA Joined ==
  ASSUME NEW h, NEW B, NEW s, NEW A, NEW X, Loose(h, B, s, A, X), NEW b \in X, b + s[b] \in X
  PROVE  Loose(h, B \ {b + s[b]}, [s EXCEPT ![b] = s[b] + s[b + s[b]]], A, X \ {b + s[b]})
<1> DEFINE c == b + s[b]
           r == [s EXCEPT ![b] = s[b] + s[c]]
<1>1. /\ Typed(h) /\ Shape(B, s, h.brk) /\ h.mem[1] = Tag(0, 0) /\ A \subseteq B /\ X \subseteq B
      /\ A \cap X = {} /\ Tagged(h, B, s, A, X) /\ Lists(h, Spare(B, s, A \cup X), s) /\ b \in B /\ c \in B
  BY DEF Loose
<1>2. Shape(B \ {c}, r, h.brk)
  BY <1>1, ShapeJoined
<1>3. \A e \in B \ {b} : r[e] = s[e]
  BY <1>1 DEF Shape
<1>a. c # b /\ b \in Nat
  BY <1>1, ShapeIs
<1> HIDE DEF r, c
<1>4. Tagged(h, B \ {c}, r, A, X \ {c})
  BY <1>1, <1>3 DEF Tagged
<1>5. Spare(B \ {c}, r, A \cup (X \ {c})) = Spare(B, s, A \cup X)
  BY <1>1, <1>3, <1>a DEF c, Spare
<1>6. Lists(h, Spare(B, s, A \cup X), r)
  <2>1. \A f \in Spare(B, s, A \cup X) : r[f] = s[f]
    BY <1>3 DEF Spare
  <2> QED
    BY <1>1, <2>1 DEF Lists
<1>7. Loose(h, B \ {c}, r, A, X \ {c})
  BY <1>1, <1>2, <1>4, <1>5, <1>6 DEF Loose, c
<1> QED
  BY <1>7 DEF r, c

(* A block in the making becomes two. *)
LEMMA Parted ==
  ASSUME NEW h, NEW B, NEW s, NEW A, NEW X, Loose(h, B, s, A, X), NEW b \in X,
         NEW n \in Nat, n >= 2, n % 2 = 0, n < s[b]
  PROVE  Loose(h, B \cup {b + n}, Parts(s, b, n), A, X \cup {b + n})
<1> DEFINE c == b + n
           r == Parts(s, b, n)
<1>1. /\ Typed(h) /\ Shape(B, s, h.brk) /\ h.mem[1] = Tag(0, 0) /\ A \subseteq B /\ X \subseteq B
      /\ A \cap X = {} /\ Tagged(h, B, s, A, X) /\ Lists(h, Spare(B, s, A \cup X), s) /\ b \in B
  BY DEF Loose
<1>2. Shape(B \cup {c}, r, h.brk)
  BY <1>1, ShapeSplit
<1>3. b \in Nat /\ s[b] \in Nat /\ s \in [Nat -> Nat] /\ b + s[b] <= h.brk
  BY <1>1, ShapeIs
<1>4. c \notin B
  <2> SUFFICES ASSUME c \in B PROVE FALSE
    OBVIOUS
  <2>1. c # b /\ c \in Nat
    BY <1>3
  <2>2. s[c] \in Nat /\ s[c] >= 2 /\ (b + s[b] <= c \/ c + s[c] <= b)
    BY <1>1, <2>1, ShapeIs
  <2> QED
    BY <1>3, <2>1, <2>2
<1>5. \A e \in B \ {b} : r[e] = s[e]
  <2>1. \A e \in B \ {b} : e # c /\ e \in Nat
    BY <1>1, <1>4, ShapeIs
  <2> QED
    BY <1>3, <2>1 DEF Parts
<1> HIDE DEF r, c
<1>6. Tagged(h, B \cup {c}, r, A, X \cup {c})
  BY <1>1, <1>5 DEF Tagged
<1>7. Spare(B \cup {c}, r, A \cup (X \cup {c})) = Spare(B, s, A \cup X)
  BY <1>1, <1>4, <1>5 DEF Spare
<1>8. Lists(h, Spare(B, s, A \cup X), r)
  <2>1. \A f \in Spare(B, s, A \cup X) : r[f] = s[f]
    BY <1>5 DEF Spare
  <2> QED
    BY <1>1, <2>1 DEF Lists
<1>9. X \cup {c} \subseteq B \cup {c} /\ A \cap (X \cup {c}) = {} /\ A \subseteq B \cup {c}
  BY <1>1, <1>4
<1>10. Loose(h, B \cup {c}, r, A, X \cup {c})
  BY <1>1, <1>2, <1>6, <1>7, <1>8, <1>9 DEF Loose
<1> QED
  BY <1>10 DEF r, c

(* The links of the blocks F are read from the same words. *)
LEMMA ListsKept ==
  ASSUME NEW h, NEW g, NEW F, NEW s, NEW r, Lists(h, F, s), g.lists = h.lists,
         \A f \in F : r[f] = s[f] /\ g.mem[f + 1] = h.mem[f + 1] /\ g.mem[f + 2] = h.mem[f + 2]
  PROVE  Lists(g, F, r)
BY DEF Lists, LinksAre

(* mem_sbrk keeps the words there are. *)
LEMMA SbrkIs ==
  ASSUME NEW h, Typed(h), h.brk >= 1, NEW n \in Nat
  PROVE  LET g == mem_sbrk(h, n) IN
         /\ Typed(g) /\ g.brk = h.brk + n /\ g.lists = h.lists /\ g.slabs = h.slabs
         /\ \A a \in 1 .. h.brk - 1 : g.mem[a] = h.mem[a]
<1> DEFINE k == h.brk + n
           m == [a \in 1 .. h.brk + n - 1 |-> IF a < h.brk THEN h.mem[a] ELSE Unset]
<1>1. h.brk \in Nat /\ k \in Nat /\ h \in Heap /\ h.mem \in [1 .. h.brk - 1 -> Word]
  BY TypedIs DEF Typed
<1>2. m \in [1 .. k - 1 -> Word] /\ \A a \in 1 .. h.brk - 1 : m[a] = h.mem[a]
  <2>1. \A a \in 1 .. k - 1 : (IF a < h.brk THEN h.mem[a] ELSE Unset) \in Word
    BY <1>1, Words
  <2> QED
    BY <1>1, <2>1
<1>3. mem_sbrk(h, n) = [h EXCEPT !.brk = k, !.mem = m]
  BY DEF mem_sbrk
<1> HIDE DEF m, k
<1>4. m \in UNION {[1 .. j - 1 -> Word] : j \in Nat}
  BY <1>1, <1>2
<1> QED
  BY <1>1, <1>2, <1>3, <1>4 DEF Typed, Heap, k

(* The heap grows by a block in the making. *)
Grown(g, h, B, s, A, X) == Loose(g, B, s, A, X) /\ Kept(g, h, A)
(* mem_sbrk makes room for a block behind the last one. *)
LEMMA Extended ==
  ASSUME NEW h, NEW B, NEW s, NEW A, NEW X, Loose(h, B, s, A, X), NEW n \in Nat, n >= 2, n % 2 = 0
  PROVE  Grown(mem_sbrk(h, n), h, B \cup {h.brk}, [s EXCEPT ![h.brk] = n], A, X \cup {h.brk})
<1> DEFINE g == mem_sbrk(h, n)
           c == h.brk
           r == [s EXCEPT ![c] = n]
<1>1. /\ Typed(h) /\ Shape(B, s, c) /\ h.mem[1] = Tag(0, 0) /\ A \subseteq B /\ X \subseteq B
      /\ A \cap X = {} /\ Tagged(h, B, s, A, X) /\ Lists(h, Spare(B, s, A \cup X), s)
      /\ c \in Nat /\ c >= 2 /\ s \in [Nat -> Nat]
  BY DEF Loose, Shape
<1>2. /\ Typed(g) /\ g.brk = c + n /\ g.lists = h.lists /\ g.slabs = h.slabs
      /\ \A a \in 1 .. c - 1 : g.mem[a] = h.mem[a]
  BY <1>1, SbrkIs
<1>3. Shape(B \cup {c}, r, c + n)
  BY <1>1, ShapeExtended
<1>4. \A b \in B : /\ b \in Nat /\ b >= 2 /\ s[b] \in Nat /\ s[b] >= 2 /\ b + s[b] <= c
                  /\ b # c /\ r[b] = s[b]
  <2>1. \A b \in B : b \in Nat /\ b >= 2 /\ s[b] \in Nat /\ s[b] >= 2 /\ b + s[b] <= c /\ b # c
    BY <1>1, ShapeIs
  <2> QED
    BY <1>1, <2>1
<1>5. c \notin B
  BY <1>4
<1> HIDE DEF g, r
<1>6. ASSUME NEW b \in B, NEW a \in b .. b + s[b] - 1 PROVE g.mem[a] = h.mem[a]
  <2>1. a \in 1 .. c - 1
    BY <1>1, <1>4
  <2> QED
    BY <1>2, <2>1
<1>7. Tagged(g, B \cup {c}, r, A, X \cup {c})
  <2> SUFFICES ASSUME NEW b \in (B \cup {c}) \ (X \cup {c})
               PROVE  g.mem[b] = Tag(Status(A, b), r[b]) /\ g.mem[b + r[b] - 1] = Tag(Status(A, b), r[b])
    BY DEF Tagged
  <2>1. b \in B \ X /\ r[b] = s[b] /\ b \in b .. b + s[b] - 1 /\ b + s[b] - 1 \in b .. b + s[b] - 1
    BY <1>4
  <2>2. g.mem[b] = h.mem[b] /\ g.mem[b + s[b] - 1] = h.mem[b + s[b] - 1]
    BY <1>6, <2>1
  <2> QED
    BY <1>1, <2>1, <2>2 DEF Tagged
<1>8. Lists(g, Spare(B, s, A \cup X), r)
  <2> DEFINE F == Spare(B, s, A \cup X)
  <2>1. ASSUME NEW f \in F PROVE r[f] = s[f] /\ g.mem[f + 1] = h.mem[f + 1] /\ g.mem[f + 2] = h.mem[f + 2]
    <3>1. f \in B /\ s[f] > 2
      BY DEF Spare
    <3>2. f + 1 \in f .. f + s[f] - 1 /\ f + 2 \in f .. f + s[f] - 1
      BY <1>4, <3>1
    <3> QED
      BY <1>4, <1>6, <3>1, <3>2
  <2>2. Lists(h, F, s)
    BY <1>1
  <2> HIDE DEF F
  <2>3. Lists(g, F, r)
    BY <1>2, <2>1, <2>2, ListsKept
  <2> QED
    BY <2>3 DEF F
<1>9. Spare(B \cup {c}, r, A \cup (X \cup {c})) = Spare(B, s, A \cup X)
  BY <1>4, <1>5 DEF Spare
<1>10. Kept(g, h, A)
  <2>1. ASSUME NEW b \in A, NEW a \in b .. b + SizeOf(h, b) - 1 PROVE g.mem[a] = h.mem[a]
    <3>1. SizeOf(h, b) = s[b] /\ b \in B
      BY UsedIs
    <3> QED
      BY <1>6, <3>1
  <2> QED
    BY <1>1, <1>2, <2>1 DEF Kept
<1>11. g.mem[1] = Tag(0, 0) /\ A \subseteq B \cup {c} /\ X \cup {c} \subseteq B \cup {c} /\ A \cap (X \cup {c}) = {}
  BY <1>1, <1>2, <1>5
<1>12. Loose(g, B \cup {c}, r, A, X \cup {c})
  BY <1>2, <1>3, <1>7, <1>8, <1>9, <1>11 DEF Loose
<1> QED
  BY <1>10, <1>12 DEF g, r, Grown

(* The tags of a block in the making are written, for one in use ...        *)
LEMMA TaggedUsed ==
  ASSUME NEW h, NEW B, NEW s, NEW A, NEW X, Loose(h, B, s, A, X), NEW b \in X
  PROVE  Becomes(addTags(h, b, 1, s[b]), h, B, s, A \cup {b}, X \ {b}, A)
<1> DEFINE g == addTags(h, b, 1, s[b])
           U == A \cup {b}
           F == Spare(B, s, A \cup X)
<1>1. /\ Typed(h) /\ Shape(B, s, h.brk) /\ h.mem[1] = Tag(0, 0) /\ A \subseteq B /\ X \subseteq B
      /\ A \cap X = {} /\ Tagged(h, B, s, A, X) /\ Lists(h, F, s) /\ b \in B /\ b \notin A
  BY DEF Loose
<1>2. Status(U, b) = 1 /\ \A c \in B \ {b} : c \in U <=> c \in A
  BY DEF Status
<1> HIDE DEF U
<1>3. /\ Typed(g) /\ g.brk = h.brk /\ g.lists = h.lists /\ g.slabs = h.slabs
      /\ Tagged(g, B, s, U, X \ {b})
      /\ \A a \in 1 .. h.brk - 1 : (a < b \/ b + s[b] <= a) => g.mem[a] = h.mem[a]
      /\ \A c \in B \ {b} : \A a \in c .. c + s[c] - 1 : g.mem[a] = h.mem[a]
  <2>1. Retags(g, h, B, s, U, X \ {b}, b)
    BY <1>1, <1>2, Retagged
  <2> HIDE DEF g
  <2> QED
    BY <2>1 DEF Retags
<1> HIDE DEF g
<1>4. /\ h.brk \in Nat /\ h.brk >= 2 /\ b >= 2 /\ b \in Nat
      /\ \A f \in B : f \in Nat /\ s[f] \in Nat
  BY <1>1, ShapeIs DEF Shape
<1>5. g.mem[1] = Tag(0, 0)
  BY <1>1, <1>3, <1>4
<1>6. Lists(g, F, s)
  <2>1. ASSUME NEW f \in F PROVE g.mem[f + 1] = h.mem[f + 1] /\ g.mem[f + 2] = h.mem[f + 2]
    <3>1. f \in B \ {b} /\ s[f] > 2
      BY DEF Spare
    <3>2. f + 1 \in f .. f + s[f] - 1 /\ f + 2 \in f .. f + s[f] - 1
      BY <1>4, <3>1
    <3> QED
      BY <1>3, <3>1, <3>2
  <2>2. Lists(h, F, s)
    BY <1>1
  <2> HIDE DEF F
  <2> QED
    BY <1>3, <2>1, <2>2, ListsKept
<1>7. F = Spare(B, s, U \cup (X \ {b}))
  BY DEF U, Spare
<1>8. Kept(g, h, A)
  <2>1. ASSUME NEW c \in A, NEW a \in c .. c + SizeOf(h, c) - 1 PROVE g.mem[a] = h.mem[a]
    <3>1. SizeOf(h, c) = s[c] /\ c \in B \ {b}
      BY <1>1, UsedIs
    <3> QED
      BY <1>3, <3>1
  <2> QED
    BY <1>3, <1>4, <2>1 DEF Kept
<1>9. U \subseteq B /\ X \ {b} \subseteq B /\ U \cap (X \ {b}) = {}
  BY <1>1 DEF U
<1> HIDE DEF F
<1>10. Loose(g, B, s, U, X \ {b})
  BY <1>1, <1>3, <1>5, <1>6, <1>7, <1>9 DEF Loose
<1> QED
  BY <1>3, <1>8, <1>10 DEF g, U, Becomes

(* ... and for a free one, which enters its list.                           *)
LEMMA TaggedFree ==
  ASSUME NEW h, NEW B, NEW s, NEW A, NEW X, Loose(h, B, s, A, X), NEW b \in X,
         h.brk <= MaxHeap + 1
  PROVE  Becomes(AddFree(h, b, s[b]), h, B, s, A, X \ {b}, A)
<1> DEFINE k == addTags(h, b, 0, s[b])
           i == getIndex(s[b])
           g == AddFree(h, b, s[b])
           F == Spare(B, s, A \cup X)
<1>1. /\ Typed(h) /\ Shape(B, s, h.brk) /\ h.mem[1] = Tag(0, 0) /\ A \subseteq B /\ X \subseteq B
      /\ A \cap X = {} /\ Tagged(h, B, s, A, X) /\ Lists(h, F, s) /\ b \in B /\ b \notin A
  BY DEF Loose
<1>2. Status(A, b) = 0
  BY <1>1 DEF Status
<1>3. /\ Typed(k) /\ k.brk = h.brk /\ k.lists = h.lists /\ k.slabs = h.slabs
      /\ Tagged(k, B, s, A, X \ {b})
      /\ \A a \in 1 .. h.brk - 1 : (a < b \/ b + s[b] <= a) => k.mem[a] = h.mem[a]
      /\ \A c \in B \ {b} : \A a \in c .. c + s[c] - 1 : k.mem[a] = h.mem[a]
      /\ s[b] > 2 => k.mem[b + 1] = Link(NULL)
  <2>1. Retags(k, h, B, s, A, X \ {b}, b)
    BY <1>1, <1>2, Retagged
  <2> HIDE DEF k
  <2> QED
    BY <2>1 DEF Retags
<1>4. g = IF s[b] > 2 THEN listAdd(k, b, i) ELSE k
  BY DEF AddFree
<1> HIDE DEF g, k, i
<1>5. /\ h.brk \in Nat /\ h.brk >= 2 /\ b >= 2 /\ b \in Nat /\ s[b] >= 2 /\ b + s[b] <= h.brk
      /\ \A f \in B : f \in Nat /\ s[f] \in Nat
  BY <1>1, ShapeIs DEF Shape
<1>6. k.mem[1] = Tag(0, 0)
  BY <1>1, <1>3, <1>5
<1>7. Lists(k, F, s)
  <2>1. ASSUME NEW f \in F PROVE k.mem[f + 1] = h.mem[f + 1] /\ k.mem[f + 2] = h.mem[f + 2]
    <3>1. f \in B \ {b} /\ s[f] > 2
      BY DEF Spare
    <3>2. f + 1 \in f .. f + s[f] - 1 /\ f + 2 \in f .. f + s[f] - 1
      BY <1>5, <3>1
    <3> QED
      BY <1>3, <3>1, <3>2
  <2>2. Lists(h, F, s)
    BY <1>1
  <2> HIDE DEF F
  <2> QED
    BY <1>3, <2>1, <2>2, ListsKept
<1>8. Kept(k, h, A)
  <2>1. ASSUME NEW c \in A, NEW a \in c .. c + SizeOf(h, c) - 1 PROVE k.mem[a] = h.mem[a]
    <3>1. SizeOf(h, c) = s[c] /\ c \in B \ {b}
      BY <1>1, UsedIs
    <3> QED
      BY <1>3, <3>1
  <2> QED
    BY <1>3, <1>5, <2>1 DEF Kept
<1>9. X \ {b} \subseteq B /\ A \cap (X \ {b}) = {}
  BY <1>1
<1>10. CASE ~(s[b] > 2)
  <2>1. F = Spare(B, s, A \cup (X \ {b})) /\ g = k
    BY <1>4, <1>10 DEF Spare
  <2> HIDE DEF F
  <2> QED
    BY <1>1, <1>3, <1>6, <1>7, <1>8, <1>9, <2>1 DEF Loose, g, Becomes
<1>11. CASE s[b] > 2
  <2> DEFINE G == F \cup {b}
  <2>1. G = Spare(B, s, A \cup (X \ {b})) /\ b \notin F /\ G \subseteq Spare(B, s, A) /\ G \subseteq Spare(B, s, {})
    BY <1>1, <1>11 DEF Spare
  <2>2. i \in 0 .. NumLists - 1
    <3>1. MaxHeap \in Nat
      BY AllocatorAssumption
    <3> DEFINE n == s[b]
    <3>2. n \in 1 .. MaxHeap
      BY <1>1, <1>5, <3>1
    <3> HIDE DEF n
    <3> QED
      BY <3>2, IndexIs DEF i, n
  <2> HIDE DEF F
  <2>3. PICK ix, pr, su, rk :
           /\ Linking(F, ix, k.lists, pr, su, rk) /\ LinksAre(k, F, pr, su)
           /\ \A f \in F : ix[f] = getIndex(s[f])
    BY <1>7 DEF Lists
  <2> HIDE DEF G
  <2>4. Room(k, G)
    BY <1>1, <1>3, <2>1, SpareIs
  <2>5. k.mem[b + 1] = Link(NULL) /\ b \in Nat \ F
    BY <1>3, <1>5, <1>11, <2>1
  <2>6. /\ Relinked(g, k, G)
        /\ \E ix2, pr2, su2, rk2 :
              /\ Linking(G, ix2, g.lists, pr2, su2, rk2) /\ LinksAre(g, G, pr2, su2)
              /\ ix2[b] = i /\ \A f \in F : ix2[f] = ix[f]
    <3>1. Room(k, F \cup {b})
      BY <2>4 DEF G
    <3>2. PutFirst(listAdd(k, b, i), k, F, ix, b, i)
      BY <1>3, <2>2, <2>3, <2>5, <3>1, AddLinks
    <3> QED
      BY <1>4, <1>11, <3>2 DEF G, PutFirst
  <2>7. Lists(g, G, s)
    <3>1. PICK ix2, pr2, su2, rk2 :
              /\ Linking(G, ix2, g.lists, pr2, su2, rk2) /\ LinksAre(g, G, pr2, su2)
              /\ ix2[b] = i /\ \A f \in F : ix2[f] = ix[f]
      BY <2>6
    <3>2. \A f \in G : ix2[f] = getIndex(s[f])
      BY <2>3, <3>1 DEF G, i
    <3> QED
      BY <3>1, <3>2 DEF Lists
  <2>8. Loose(k, B, s, A, X)
    <3>1. Tagged(k, B, s, A, X)
      BY <1>3 DEF Tagged
    <3> QED
      BY <1>1, <1>3, <1>6, <1>7, <3>1 DEF Loose, F
  <2>9. /\ Typed(g) /\ Shape(B, s, g.brk) /\ g.mem[1] = Tag(0, 0) /\ Kept(g, k, A) /\ g.brk = h.brk
    <3>1. g.brk = h.brk
      BY <1>3, <2>6 DEF Relinked
    <3> QED
      BY <2>1, <2>6, <2>8, <3>1, RelinkedKeeps
  <2>10. Tagged(g, B, s, A, X \ {b})
    <3> SUFFICES ASSUME NEW c \in B \ (X \ {b})
                 PROVE  g.mem[c] = Tag(Status(A, c), s[c]) /\ g.mem[c + s[c] - 1] = Tag(Status(A, c), s[c])
      BY DEF Tagged
    <3>1. c \in B /\ c \in 1 .. h.brk - 1 /\ c + s[c] - 1 \in 1 .. h.brk - 1
      BY <1>1, ShapeIs
    <3>2. c \notin LinkWords(G) /\ c + s[c] - 1 \notin LinkWords(G)
      BY <1>1, <2>1, <3>1, SpareIs
    <3>3. g.mem[c] = k.mem[c] /\ g.mem[c + s[c] - 1] = k.mem[c + s[c] - 1]
      BY <1>3, <2>6, <3>1, <3>2 DEF Relinked
    <3> QED
      BY <1>3, <3>1, <3>3 DEF Tagged
  <2>11. Kept(g, h, A)
    <3>1. \A c \in A : c \in Nat /\ SizeOf(h, c) \in Nat /\ SizeOf(h, c) >= 1
      <4> SUFFICES ASSUME NEW c \in A PROVE c \in Nat /\ SizeOf(h, c) \in Nat /\ SizeOf(h, c) >= 1
        OBVIOUS
      <4>1. c \in Nat /\ s[c] \in Nat /\ s[c] >= 2 /\ SizeOf(h, c) = s[c]
        BY UsedIs
      <4> QED
        BY <4>1
    <3> QED
      BY <1>1, <1>3, <1>8, <2>9, <3>1, KeptTransitive
  <2> QED
    BY <1>1, <1>9, <2>1, <2>7, <2>9, <2>10, <2>11 DEF Loose, g, Becomes
<1> QED
  BY <1>10, <1>11

-----------------------------------------------------------------------------
(* free of a block *)

(* Two free neighbours there are at b only. *)
Lone(B, s, A, b) ==
  \A d \in B : d + s[d] \in B => d \in A \/ d + s[d] \in A \/ d = b \/ d + s[d] = b
NoTwoFree(B, s, A) == \A d \in B : d + s[d] \in B => d \in A \/ d + s[d] \in A

(* A heap with no block in the making, where free neighbours are joined. *)
Whole(h, B, s, A) == Loose(h, B, s, A, {}) /\ NoTwoFree(B, s, A)

(* With the block behind it joined, b has no free block behind it. *)
LEMMA JoinedAfter ==
  ASSUME NEW B, NEW s, NEW brk, Shape(B, s, brk), NEW A, NEW b \in B \ A, b + s[b] \in B \ A,
         Lone(B, s, A, b)
  PROVE  LET r == [s EXCEPT ![b] = s[b] + s[b + s[b]]] IN
         /\ Lone(B \ {b + s[b]}, r, A, b)
         /\ b + r[b] \in B => b + r[b] \in A
         /\ r[b] = s[b] + s[b + s[b]]
         /\ \A d \in B \ {b} : r[d] = s[d]
<1> DEFINE c == b + s[b]
           r == [s EXCEPT ![b] = s[b] + s[c]]
<1>1. /\ b \in Nat /\ s[b] \in Nat /\ s[b] >= 2 /\ c \in B /\ c \in Nat /\ s[c] \in Nat /\ s[c] >= 2
      /\ s \in [Nat -> Nat] /\ c # b
  BY ShapeIs
<1>2. r[b] = s[b] + s[c] /\ b + r[b] = c + s[c] /\ \A d \in B \ {b} : r[d] = s[d]
  BY <1>1
<1> HIDE DEF r
<1>3. c + s[c] # b /\ c + s[c] # c
  BY <1>1
<1> HIDE DEF c
<1>4. b + r[b] \in B => b + r[b] \in A
  BY <1>1, <1>2, <1>3 DEF Lone, c
<1>5. Lone(B \ {c}, r, A, b)
  <2> SUFFICES ASSUME NEW d \in B \ {c}, d + r[d] \in B \ {c}, d # b, d + r[d] # b
               PROVE  d \in A \/ d + r[d] \in A
    BY DEF Lone
  <2> QED
    BY <1>2 DEF Lone
<1> QED
  BY <1>2, <1>4, <1>5 DEF r, c

(* With the block before it joined as well, no free neighbours are left. *)
LEMMA JoinedBefore ==
  ASSUME NEW B, NEW s, NEW brk, Shape(B, s, brk), NEW A, NEW a \in B \ A, NEW b \in B \ A, a + s[a] = b,
         Lone(B, s, A, b), b + s[b] \in B => b + s[b] \in A
  PROVE  LET r == [s EXCEPT ![a] = s[a] + s[b]] IN
         NoTwoFree(B \ {b}, r, A) /\ r[a] = s[a] + s[b]
<1> DEFINE r == [s EXCEPT ![a] = s[a] + s[b]]
<1>1. /\ a \in Nat /\ b \in Nat /\ s[b] \in Nat /\ s[b] >= 2 /\ s[a] \in Nat /\ s[a] >= 2
      /\ s \in [Nat -> Nat] /\ a # b
  BY ShapeIs
<1>2. r[a] = s[a] + s[b] /\ a + r[a] = b + s[b] /\ \A d \in B \ {a} : r[d] = s[d]
  BY <1>1
<1> HIDE DEF r
<1>3. NoTwoFree(B \ {b}, r, A)
  <2> SUFFICES ASSUME NEW d \in B \ {b}, d + r[d] \in B \ {b}
               PROVE  d \in A \/ d + r[d] \in A
    BY DEF NoTwoFree
  <2> QED
    BY <1>2 DEF Lone
<1> QED
  BY <1>2, <1>3 DEF r

(* What the boundary tags tell of the neighbours of a block in use. *)
LEMMA NeighboursAre ==
  ASSUME NEW h, NEW B, NEW s, NEW A, Whole(h, B, s, A), NEW b \in A
  PROVE  /\ After(h, b) = b + s[b]
         /\ \/ b + s[b] \in B \ A /\ PostSize(h, b) = s[b + s[b]]
            \/ b + s[b] \notin B \ A /\ PostSize(h, b) = 0
         /\ \/ \E a \in B \ A : a + s[a] = b /\ PreSize(h, b) = s[a]
            \/ (\A a \in B : a + s[a] = b => a \in A) /\ PreSize(h, b) = 0
<1>1. /\ Loose(h, B, s, A, {}) /\ Shape(B, s, h.brk) /\ A \subseteq B /\ h.mem[1] = Tag(0, 0)
      /\ \A c \in B : h.mem[c] = Tag(Status(A, c), s[c]) /\ h.mem[c + s[c] - 1] = Tag(Status(A, c), s[c])
  BY DEF Whole, Loose, Tagged
<1>2. \A c \in B : /\ Valid(h, c) = Status(A, c) /\ SizeOf(h, c) = s[c]
                  /\ Valid(h, c + s[c] - 1) = Status(A, c) /\ SizeOf(h, c + s[c] - 1) = s[c]
  BY <1>1, Words DEF Valid, SizeOf
<1>3. After(h, b) = b + s[b]
  BY <1>1, <1>2 DEF After
<1>4. \/ b + s[b] \in B \ A /\ PostSize(h, b) = s[b + s[b]]
      \/ b + s[b] \notin B \ A /\ PostSize(h, b) = 0
  <2>1. b + s[b] \in B \/ b + s[b] = h.brk
    BY <1>1 DEF Shape
  <2>2. h.brk \notin B /\ \A c \in B : c < h.brk
    BY <1>1 DEF Shape
  <2> DEFINE c == b + s[b]
  <2>3. After(h, b) = c /\ (c \in B => c < h.brk /\ Valid(h, c) = Status(A, c) /\ SizeOf(h, c) = s[c])
        /\ (c \in B \/ c = h.brk) /\ h.brk \notin B /\ ~(h.brk < h.brk)
    <3>1. h.brk \in Nat
      BY <1>1 DEF Shape
    <3> QED
      BY <1>2, <1>3, <2>1, <2>2, <3>1
  <2> HIDE DEF c
  <2>4. (c \in B \ A /\ PostSize(h, b) = s[c]) \/ (c \notin B \ A /\ PostSize(h, b) = 0)
    <3>1. CASE c \in B
      BY <2>3, <3>1 DEF PostSize, Status
    <3>2. CASE c \notin B
      BY <2>3, <3>2 DEF PostSize
    <3> QED
      BY <3>1, <3>2
  <2> QED
    BY <2>4 DEF c
<1>5. \/ \E a \in B \ A : a + s[a] = b /\ PreSize(h, b) = s[a]
      \/ (\A a \in B : a + s[a] = b => a \in A) /\ PreSize(h, b) = 0
  <2>1. \A a \in B : a \in Nat /\ s[a] \in Nat /\ a >= 2 /\ s[a] >= 2
    BY <1>1, ShapeIs
  <2>2. CASE b = 2
    <3>1. Valid(h, b - 1) = 0 /\ SizeOf(h, b - 1) = 0
      BY <1>1, <2>2, Words DEF Valid, SizeOf
    <3> QED
      BY <2>1, <2>2, <3>1 DEF PreSize
  <2>3. CASE b # 2
    <3>1. PICK a \in B : a + s[a] = b
      BY <1>1, <2>3 DEF Shape
    <3>2. Valid(h, b - 1) = Status(A, a) /\ SizeOf(h, b - 1) = s[a]
      <4>1. a + s[a] - 1 = b - 1
        BY <2>1, <3>1
      <4>2. Valid(h, a + s[a] - 1) = Status(A, a) /\ SizeOf(h, a + s[a] - 1) = s[a]
        BY <1>2
      <4> QED
        BY <4>1, <4>2
    <3>3. ASSUME NEW e \in B, e + s[e] = b PROVE e = a
      <4>1. e = a \/ e + s[e] <= a \/ a + s[a] <= e
        BY <1>1, ShapeIs
      <4> QED
        BY <2>1, <3>1, <3>3, <4>1
    <3> QED
      BY <3>1, <3>2, <3>3 DEF PreSize, Status
  <2> QED
    BY <2>2, <2>3
<1> QED
  BY <1>3, <1>4, <1>5

(* There is nothing to unlink where no neighbour is free. *)
LEMMA UnlinkNothing ==
  ASSUME NEW h, NEW b
  PROVE  Unlink(h, b, 0) = h
BY DEF Unlink

(* Nothing is changed by no step. *)
LEMMA KeptSelf ==
  ASSUME NEW h, Typed(h), NEW A
  PROVE  Kept(h, h, A)
BY TypedIs DEF Kept

(* A heap in which the sizes of the blocks A can be read, so that what is   *)
(* kept over two steps is kept over both.                                    *)
LEMMA KeptBoth ==
  ASSUME NEW h, NEW B, NEW s, NEW A, NEW X, Loose(h, B, s, A, X), NEW U, U \subseteq A,
         NEW g, NEW k, Kept(g, h, U), Kept(k, g, U)
  PROVE  Kept(k, h, U)
<1>1. \A c \in U : c \in Nat /\ SizeOf(h, c) \in Nat /\ SizeOf(h, c) >= 1
  <2> SUFFICES ASSUME NEW c \in U PROVE c \in Nat /\ SizeOf(h, c) \in Nat /\ SizeOf(h, c) >= 1
    OBVIOUS
  <2>1. c \in A /\ c \in Nat /\ s[c] \in Nat /\ s[c] >= 2 /\ SizeOf(h, c) = s[c]
    BY UsedIs
  <2> QED
    BY <2>1
<1>2. Typed(h) /\ Typed(g)
  BY DEF Loose, Kept
<1> QED
  BY <1>1, <1>2, KeptTransitive

(* A heap whose blocks in use are A. *)
Sound(h, A) == \E B, s : Whole(h, B, s, A)

(* g comes from h, the blocks A are now in use and U untouched. *)
Turns(g, h, A, U) == Sound(g, A) /\ Kept(g, h, U)
SameBreak(g, h) == g.brk = h.brk

(* The block after b, if it was free, is a part of b. *)
AheadJoined(g, h, B, s, A, b, post) ==
  /\ Kept(g, h, A) /\ g.brk = h.brk
  /\ \E B2, s2 : /\ Loose(g, B2, s2, A, {b}) /\ Lone(B2, s2, A, b)
                 /\ b \in B2 /\ s2[b] = s[b] + post
                 /\ b + s2[b] \in B2 => b + s2[b] \in A
                 /\ \A a \in B : a + s[a] = b => a \in B2 /\ s2[a] = s[a]
                 /\ \A a \in B2 : a + s2[a] = b => a \in B /\ s2[a] = s[a]

(* The first half of coalescing: the block behind. *)
LEMMA FreedAhead ==
  ASSUME NEW h, NEW B, NEW s, NEW A, NEW b \in B, Loose(h, B, s, A, {b}),
         Lone(B, s, A, b), NEW post,
         \/ b + s[b] \in B \ A /\ post = s[b + s[b]]
         \/ b + s[b] \notin B \ A /\ post = 0
  PROVE  AheadJoined(Unlink(h, b + s[b], post), h, B, s, A, b, post)
<1> DEFINE c == b + s[b]
           g == Unlink(h, c, post)
<1>1. /\ Typed(h) /\ Shape(B, s, h.brk) /\ b \in B \ A /\ b \in Nat /\ s[b] \in Nat /\ s[b] >= 2
      /\ \A a \in B : a \in Nat /\ s[a] \in Nat /\ s[a] >= 2
  BY ShapeIs DEF Loose
<1>2. CASE c \notin B \ A /\ post = 0
  <2>1. g = h
    BY <1>2, UnlinkNothing
  <2>2. Kept(h, h, A)
    BY <1>1, KeptSelf
  <2>3. s[b] = s[b] + post /\ (b + s[b] \in B => b + s[b] \in A)
    BY <1>1, <1>2
  <2> QED
    BY <2>1, <2>2, <2>3 DEF AheadJoined
<1>3. CASE c \in B \ A /\ post = s[c]
  <2> DEFINE r == [s EXCEPT ![b] = s[b] + s[c]]
  <2>1. /\ Lone(B \ {c}, r, A, b)
        /\ b + r[b] \in B => b + r[b] \in A
        /\ r[b] = s[b] + s[c]
        /\ \A d \in B \ {b} : r[d] = s[d]
    BY <1>1, <1>3, JoinedAfter
  <2>2. c # b /\ c \in Nat /\ s[c] >= 2 /\ s[c] \in Nat
    BY <1>1, <1>3
  <2>3. Loose(g, B, s, A, {b} \cup {c}) /\ Kept(g, h, A) /\ g.brk = h.brk
    <3> HIDE DEF c
    <3>1. c \in B \ (A \cup {b})
      BY <1>3, <2>2
    <3>2. Becomes(Unlink(h, c, s[c]), h, B, s, A, {b} \cup {c}, A)
      BY <3>1, Unlisted
    <3> QED
      BY <1>3, <3>2 DEF Becomes
  <2>4. Loose(g, B \ {c}, r, A, {b})
    <3> DEFINE X == {b} \cup {c}
    <3>1. b \in X /\ b + s[b] \in X /\ X \ {c} = {b}
      BY <2>2
    <3> HIDE DEF g, X
    <3>2. Loose(g, B \ {c}, r, A, X \ {c})
      BY <2>3, <3>1, Joined DEF X
    <3> QED
      BY <3>1, <3>2
  <2> HIDE DEF g, r
  <2>5. /\ b \in B \ {c} /\ r[b] = s[b] + post
        /\ b + r[b] \in B \ {c} => b + r[b] \in A
    BY <1>3, <2>1, <2>2
  <2>6. \A a \in B : a + s[a] = b => a \in B \ {c} /\ r[a] = s[a]
    <3> SUFFICES ASSUME NEW a \in B, a + s[a] = b PROVE a # c /\ a # b
      BY <2>1
    <3> QED
      BY <1>1, <2>2
  <2>7. \A a \in B \ {c} : a + r[a] = b => a \in B /\ r[a] = s[a]
    <3> SUFFICES ASSUME NEW a \in B \ {c}, a + r[a] = b PROVE a # b
      BY <2>1
    <3> QED
      BY <1>1, <2>1, <2>2
  <2> QED
    BY <2>1, <2>3, <2>4, <2>5, <2>6, <2>7 DEF AheadJoined, g
<1> QED
  BY <1>2, <1>3

(* free of a block: it is not in use any more, all others are untouched, *)
(* and free neighbours are joined on both sides.                         *)
LEMMA BlockFreeIs ==
  ASSUME NEW h, NEW A, Sound(h, A), NEW b \in A, h.brk <= MaxHeap + 1
  PROVE  Turns(BlockFree(h, b), h, A \ {b}, A \ {b}) /\ SameBreak(BlockFree(h, b), h)
<1> DEFINE pre == PreSize(h, b)
           post == PostSize(h, b)
           U == A \ {b}
           g1 == Unlink(h, After(h, b), post)
           g2 == Unlink(g1, b - pre, pre)
           g3 == BlockFree(h, b)
<1>1. PICK B, s : Whole(h, B, s, A)
  BY DEF Sound
<1>2. /\ Loose(h, B, s, A, {}) /\ Shape(B, s, h.brk) /\ A \subseteq B /\ Valid(h, b) = 1 /\ SizeOf(h, b) = s[b]
      /\ NoTwoFree(B, s, A) /\ b \in B /\ Typed(h)
  <2>1. /\ Loose(h, B, s, A, {}) /\ Shape(B, s, h.brk) /\ A \subseteq B /\ NoTwoFree(B, s, A) /\ Typed(h)
    BY <1>1 DEF Whole, Loose
  <2> QED
    BY <2>1, UsedIs
<1>3. /\ After(h, b) = b + s[b]
      /\ \/ b + s[b] \in B \ A /\ post = s[b + s[b]]
         \/ b + s[b] \notin B \ A /\ post = 0
      /\ \/ \E a \in B \ A : a + s[a] = b /\ pre = s[a]
         \/ (\A a \in B : a + s[a] = b => a \in A) /\ pre = 0
  BY <1>1, NeighboursAre
<1>4. g3 = AddFree(g2, b - pre, pre + s[b] + post)
  BY <1>2 DEF BlockFree
<1>5. \A a \in B : a \in Nat /\ s[a] \in Nat /\ a >= 2 /\ s[a] >= 2
  BY <1>2, ShapeIs
<1>6. pre \in Nat /\ post \in Nat
  BY <1>3, <1>5
<1> HIDE DEF pre, post, g3
<1>7. Loose(h, B, s, U, {b}) /\ Lone(B, s, U, b)
  <2>1. {} \cup {b} = {b}
    OBVIOUS
  <2>2. Loose(h, B, s, U, {b})
    BY <1>2, <2>1, Released
  <2> QED
    BY <1>2, <2>2 DEF NoTwoFree, Lone
<1>8. AheadJoined(g1, h, B, s, U, b, post)
  <2>1. \/ b + s[b] \in B \ U /\ post = s[b + s[b]]
        \/ b + s[b] \notin B \ U /\ post = 0
    BY <1>3, <1>5
  <2> QED
    BY <1>2, <1>3, <1>7, <2>1, FreedAhead
<1> HIDE DEF g1
<1>9. PICK B1, s1 : /\ Loose(g1, B1, s1, U, {b}) /\ Lone(B1, s1, U, b)
                    /\ b \in B1 /\ s1[b] = s[b] + post
                    /\ b + s1[b] \in B1 => b + s1[b] \in U
                    /\ \A a \in B : a + s[a] = b => a \in B1 /\ s1[a] = s[a]
                    /\ \A a \in B1 : a + s1[a] = b => a \in B /\ s1[a] = s[a]
  BY <1>8 DEF AheadJoined
<1>10. Kept(g1, h, U) /\ g1.brk = h.brk /\ Shape(B1, s1, g1.brk) /\ b \notin U
  BY <1>8, <1>9 DEF AheadJoined, Loose
<1>11. \E B2, s2 : \E a \in B2 :
         /\ Loose(g2, B2, s2, U, {a}) /\ NoTwoFree(B2, s2, U) /\ Kept(g2, g1, U) /\ g2.brk = h.brk
         /\ a = b - pre /\ s2[a] = pre + s[b] + post
  <2>1. CASE (\A a \in B : a + s[a] = b => a \in A) /\ pre = 0
    <3>1. g2 = g1 /\ Kept(g1, g1, U)
      <4>1. Typed(g1)
        BY <1>10 DEF Kept
      <4> QED
        BY <2>1, <4>1, UnlinkNothing, KeptSelf
    <3>2. NoTwoFree(B1, s1, U)
      <4> SUFFICES ASSUME NEW d \in B1, d + s1[d] \in B1 PROVE d \in U \/ d + s1[d] \in U
        BY DEF NoTwoFree
      <4>1. d + s1[d] = b => d \in A /\ d # b
        BY <1>5, <1>9, <2>1
      <4> QED
        BY <1>9, <4>1 DEF Lone
    <3>3. b = b - pre /\ s1[b] = pre + s[b] + post
      BY <1>2, <1>5, <1>6, <1>9, <2>1
    <3> QED
      <4> HIDE DEF g2, U
      <4>1. Loose(g2, B1, s1, U, {b}) /\ Kept(g2, g1, U) /\ g2.brk = h.brk
        BY <1>9, <1>10, <3>1
      <4> QED
        BY <1>9, <3>2, <3>3, <4>1
  <2>2. CASE \E a \in B \ A : a + s[a] = b /\ pre = s[a]
    <3>1. PICK a \in B \ A : a + s[a] = b /\ pre = s[a]
      BY <2>2
    <3>2. a = b - pre /\ a \in B1 \ U /\ s1[a] = pre /\ a # b /\ a + s1[a] = b
      BY <1>2, <1>5, <1>9, <3>1
    <3> DEFINE X == {b} \cup {a}
               r == [s1 EXCEPT ![a] = s1[a] + s1[b]]
    <3>3. Loose(g2, B1, s1, U, X) /\ Kept(g2, g1, U) /\ g2.brk = g1.brk
      <4>1. a \in B1 \ (U \cup {b})
        BY <3>2
      <4> HIDE DEF U
      <4>2. Becomes(Unlink(g1, a, s1[a]), g1, B1, s1, U, {b} \cup {a}, U)
        BY <1>9, <4>1, Unlisted
      <4>3. g2 = Unlink(g1, a, s1[a])
        BY <3>2
      <4> QED
        BY <4>2, <4>3 DEF Becomes
    <3>4. NoTwoFree(B1 \ {b}, r, U) /\ r[a] = s1[a] + s1[b]
      BY <1>9, <1>10, <3>2, JoinedBefore
    <3>5. a \in X /\ a + s1[a] \in X /\ X \ {b} = {a}
      BY <3>2
    <3> HIDE DEF X, g2
    <3>6. Loose(g2, B1 \ {b}, r, U, {a})
      <4>1. Loose(g2, B1 \ {a + s1[a]}, [s1 EXCEPT ![a] = s1[a] + s1[a + s1[a]]], U, X \ {a + s1[a]})
        BY <3>3, <3>5, Joined
      <4> QED
        BY <3>2, <3>5, <4>1
    <3> HIDE DEF r
    <3>7. r[a] = pre + s[b] + post
      BY <1>2, <1>5, <1>6, <1>9, <3>2, <3>4
    <3> QED
      BY <1>10, <3>2, <3>3, <3>4, <3>6, <3>7
  <2> QED
    BY <1>3, <2>1, <2>2
<1> HIDE DEF g2
<1>12. PICK B2, s2 : \E a \in B2 :
         /\ Loose(g2, B2, s2, U, {a}) /\ NoTwoFree(B2, s2, U) /\ Kept(g2, g1, U) /\ g2.brk = h.brk
         /\ a = b - pre /\ s2[a] = pre + s[b] + post
  BY <1>11
<1>13. PICK a \in B2 :
         /\ Loose(g2, B2, s2, U, {a}) /\ NoTwoFree(B2, s2, U) /\ Kept(g2, g1, U) /\ g2.brk = h.brk
         /\ a = b - pre /\ s2[a] = pre + s[b] + post
  BY <1>12
<1>14. Loose(g3, B2, s2, U, {}) /\ Kept(g3, g2, U) /\ g3.brk = h.brk
  <2>1. g3 = AddFree(g2, a, s2[a]) /\ a \in {a} /\ {a} \ {a} = {}
    BY <1>4, <1>13
  <2>2. Loose(g3, B2, s2, U, {a} \ {a}) /\ Kept(g3, g2, U) /\ g3.brk = g2.brk
    <3> HIDE DEF U
    <3>1. Becomes(AddFree(g2, a, s2[a]), g2, B2, s2, U, {a} \ {a}, U)
      BY <1>13, <2>1, TaggedFree
    <3> QED
      BY <2>1, <3>1 DEF Becomes
  <2> QED
    BY <1>13, <2>1, <2>2
<1>15. Sound(g3, U)
  BY <1>13, <1>14 DEF Sound, Whole
<1>16. Kept(g3, h, U)
  <2>1. U \subseteq A
    OBVIOUS
  <2> HIDE DEF U
  <2>2. Kept(g2, h, U)
    BY <1>2, <1>10, <1>13, <2>1, KeptBoth
  <2> QED
    BY <1>2, <1>14, <2>1, <2>2, KeptBoth
<1> QED
  BY <1>14, <1>15, <1>16 DEF g3, Turns, SameBreak

-----------------------------------------------------------------------------
(* A block is cut in two. *)

(* The second part of a block begins where no other block begins or ends. *)
LEMMA PartedApart ==
  ASSUME NEW B, NEW s, NEW brk, Shape(B, s, brk), NEW b \in B, NEW n \in Nat, n >= 2, n < s[b],
         NEW d \in B, d # b
  PROVE  d + s[d] # b + n /\ d # b + n
<1>1. /\ b \in Nat /\ d \in Nat /\ s[b] \in Nat /\ s[d] \in Nat /\ s[d] >= 2
      /\ b + s[b] <= d \/ d + s[d] <= b
  BY ShapeIs
<1> QED
  BY <1>1

(* The sizes after the cut. *)
LEMMA PartedSizes ==
  ASSUME NEW B, NEW s, NEW brk, Shape(B, s, brk), NEW b \in B, NEW n \in Nat, n >= 2, n < s[b]
  PROVE  /\ Parts(s, b, n)[b] = n /\ Parts(s, b, n)[b + n] = s[b] - n
         /\ \A d \in B \ {b} : Parts(s, b, n)[d] = s[d]
<1> DEFINE c == b + n
           m == s[b] - n
           r == Parts(s, b, n)
<1>1. b \in Nat /\ s[b] \in Nat /\ s \in [Nat -> Nat] /\ m \in Nat /\ c \in Nat /\ c # b
  BY ShapeIs
<1>2. \A d \in B \ {b} : d \in Nat /\ d # c
  <2> SUFFICES ASSUME NEW d \in B \ {b} PROVE d \in Nat /\ d # c
    OBVIOUS
  <2>1. d # b
    OBVIOUS
  <2> QED
    BY <2>1, PartedApart, ShapeIs
<1>a. r = [s EXCEPT ![b] = n, ![c] = m]
  BY DEF Parts
<1> HIDE DEF c, m, r
<1>3. r[b] = n /\ r[c] = m /\ \A d \in B \ {b} : r[d] = s[d]
  BY <1>1, <1>2, <1>a
<1> QED
  BY <1>3 DEF c, m, r

(* The cut of a block in use (realloc) makes two blocks in use. *)
LEMMA CutIs ==
  ASSUME NEW h, NEW A, Sound(h, A), NEW b \in A, NEW new \in Nat, new >= 2, new % 2 = 0,
         new < SizeOf(h, b)
  PROVE  LET g == Cut(h, b, SizeOf(h, b), new) IN
         /\ Turns(g, h, A \cup {b + new}, A \ {b}) /\ SameBreak(g, h)
         /\ b + new \notin A /\ SizeOf(g, b) = new /\ SizeOf(g, b + new) = SizeOf(h, b) - new
<1> DEFINE U == A \ {b}
           c == b + new
           g == Cut(h, b, SizeOf(h, b), new)
           g1 == addTags(h, b, 1, new)
<1>1. PICK B, s : Whole(h, B, s, A)
  BY DEF Sound
<1>2. /\ Loose(h, B, s, A, {}) /\ Shape(B, s, h.brk) /\ A \subseteq B
      /\ NoTwoFree(B, s, A) /\ Typed(h)
  BY <1>1 DEF Whole, Loose
<1>3. SizeOf(h, b) = s[b] /\ b \in B /\ b \in Nat /\ s[b] \in Nat /\ new < s[b]
  BY <1>2, UsedIs
<1> DEFINE r == Parts(s, b, new)
<1>4. r[b] = new /\ r[c] = s[b] - new /\ \A d \in B \ {b} : r[d] = s[d]
  BY <1>2, <1>3, PartedSizes
<1>5. g = addTags(g1, c, 1, r[c]) /\ g1 = addTags(h, b, 1, r[b])
  <2>1. s[b] - new = r[c] /\ new = r[b]
    BY <1>4
  <2> HIDE DEF r
  <2> QED
    BY <1>3, <2>1 DEF Cut
<1>6. Loose(h, B \cup {c}, r, U, {b, c})
  <2>1. Loose(h, B, s, U, {} \cup {b})
    BY <1>2, Released
  <2>2. {} \cup {b} = {b} /\ {b} \cup {c} = {b, c}
    OBVIOUS
  <2>3. Loose(h, B, s, U, {b})
    BY <2>1, <2>2
  <2>4. b \in {b}
    OBVIOUS
  <2> HIDE DEF U
  <2>5. Loose(h, B \cup {c}, r, U, {b} \cup {c})
    BY <1>3, <2>3, <2>4, Parted
  <2> QED
    BY <2>2, <2>5
<1>7. c # b /\ c \notin A
  <2>1. \A d \in B : d # b => d # c
    BY <1>2, <1>3, PartedApart
  <2> QED
    BY <1>2, <1>3, <2>1
<1> HIDE DEF r, U, g, g1
<1>8. Becomes(g1, h, B \cup {c}, r, U \cup {b}, {b, c} \ {b}, U)
  BY <1>5, <1>6, TaggedUsed
<1>9. {b, c} \ {b} = {c} /\ U \cup {b} = A /\ {c} \ {c} = {}
  BY <1>7 DEF U
<1>10. Loose(g1, B \cup {c}, r, A, {c}) /\ Kept(g1, h, U) /\ g1.brk = h.brk
  BY <1>8, <1>9 DEF Becomes
<1>11. Becomes(g, g1, B \cup {c}, r, A \cup {c}, {c} \ {c}, A)
  BY <1>5, <1>10, TaggedUsed
<1>12. Loose(g, B \cup {c}, r, A \cup {c}, {}) /\ Kept(g, g1, A) /\ g.brk = h.brk
  BY <1>9, <1>10, <1>11 DEF Becomes
<1>13. NoTwoFree(B \cup {c}, r, A \cup {c})
  <2> SUFFICES ASSUME NEW d \in B \cup {c}, d + r[d] \in B \cup {c}
               PROVE  d \in A \cup {c} \/ d + r[d] \in A \cup {c}
    BY DEF NoTwoFree
  <2>1. CASE d = b \/ d = c \/ d + r[d] = c
    BY <2>1
  <2>2. CASE d \in B /\ d # b /\ d + r[d] # c
    <3>1. r[d] = s[d] /\ d + s[d] \in B
      BY <1>4, <2>2
    <3> QED
      BY <1>2, <2>2, <3>1 DEF NoTwoFree
  <2> QED
    BY <2>1, <2>2
<1>14. Sound(g, A \cup {c})
  BY <1>12, <1>13 DEF Sound, Whole
<1>15. SizeOf(g, b) = new /\ SizeOf(g, c) = s[b] - new
  BY <1>4, <1>12, UsedIs
<1>16. Kept(g, h, U)
  <2>1. Kept(g, g1, U) /\ U \subseteq A
    BY <1>12 DEF Kept, U
  <2> QED
    BY <1>2, <1>10, <2>1, KeptBoth
<1> QED
  BY <1>3, <1>7, <1>12, <1>14, <1>15, <1>16 DEF g, U, Turns, SameBreak

-----------------------------------------------------------------------------
(* malloc of a block *)

(* r is a block of n words that was not in use, in a heap that comes from h. *)
Gives(r, h, A, n) ==
  \E b \in Nat : /\ b \notin A /\ r.ptr = b + 1
                 /\ Turns(r.heap, h, A \cup {b}, A) /\ SizeOf(r.heap, b) = n

(* A block in the making of m words is enough for one of n. *)
Enough(h, B, s, A, b, m, n) ==
  /\ Loose(h, B, s, A, {b}) /\ NoTwoFree(B, s, A) /\ h.brk <= MaxHeap + 1
  /\ b \in B /\ m = s[b] /\ n \in Nat /\ n >= 2 /\ n % 2 = 0 /\ n <= m
(* The split of a free block (malloc): the rest, if there is one, is free. *)
LEMMA SplitIs ==
  ASSUME NEW h, NEW B, NEW s, NEW A, NEW b, NEW m, NEW n, Enough(h, B, s, A, b, m, n)
  PROVE  Turns(Split(h, b, m, n), h, A \cup {b}, A) /\ SizeOf(Split(h, b, m, n), b) = n
<1> SUFFICES Turns(Split(h, b, s[b], n), h, A \cup {b}, A) /\ SizeOf(Split(h, b, s[b], n), b) = n
  BY DEF Enough
<1>0. /\ Loose(h, B, s, A, {b}) /\ NoTwoFree(B, s, A) /\ h.brk <= MaxHeap + 1
      /\ b \in B /\ n \in Nat /\ n >= 2 /\ n % 2 = 0 /\ n <= s[b]
  BY DEF Enough
<1> USE <1>0
<1> DEFINE g == Split(h, b, s[b], n)
           g1 == addTags(h, b, 1, n)
           U == A \cup {b}
<1>1. /\ Shape(B, s, h.brk) /\ A \subseteq B /\ b \notin A /\ Typed(h)
      /\ b \in Nat /\ s[b] \in Nat
  BY ShapeIs DEF Loose
<1>2. CASE n = s[b]
  <2>1. g = g1 /\ g1 = addTags(h, b, 1, s[b])
    BY <1>1, <1>2 DEF Split, FreeRest
  <2>2. b \in {b} /\ {b} \ {b} = {} /\ b \in U
    OBVIOUS
  <2> HIDE DEF g, g1
  <2>3. Becomes(g, h, B, s, U, {b} \ {b}, A)
    BY <2>1, <2>2, TaggedUsed
  <2>4. Loose(g, B, s, U, {}) /\ Kept(g, h, A)
    BY <2>2, <2>3 DEF Becomes
  <2>5. NoTwoFree(B, s, U)
    BY DEF NoTwoFree
  <2>6. SizeOf(g, b) = s[b]
    BY <2>2, <2>4, UsedIs
  <2> QED
    BY <1>2, <2>4, <2>5, <2>6 DEF Turns, Sound, Whole, g
<1>3. CASE n # s[b]
  <2> DEFINE c == b + n
             r == Parts(s, b, n)
             C == B \cup {c}
  <2>1. n < s[b]
    BY <1>1, <1>3
  <2>2. r[b] = n /\ r[c] = s[b] - n /\ \A d \in B \ {b} : r[d] = s[d]
    BY <1>1, <2>1, PartedSizes
  <2>3. c # b /\ \A d \in B : d # b => d # c /\ d + s[d] # c
    BY <1>1, <2>1, PartedApart
  <2>4. c + r[c] = b + s[b]
    BY <1>1, <2>2
  <2>5. g = AddFree(g1, c, r[c]) /\ g1 = addTags(h, b, 1, r[b])
    <3>1. s[b] - n = r[c] /\ n = r[b] /\ s[b] - n > 0
      BY <1>1, <2>1, <2>2
    <3> HIDE DEF r
    <3> QED
      BY <3>1 DEF Split, FreeRest
  <2>6. {b} \cup {c} = {b, c} /\ {b, c} \ {b} = {c} /\ {c} \ {c} = {} /\ b \in {b} /\ b \in {b, c} /\ c \in {c} /\ b \in U
    BY <2>3
  <2>7. Loose(h, C, r, A, {b, c})
    <3>1. Loose(h, C, r, A, {b} \cup {c})
      BY <1>1, <2>1, <2>6, Parted
    <3> QED
      BY <2>6, <3>1
  <2> HIDE DEF r, c, C, g, g1, U
  <2>8. Becomes(g1, h, C, r, A \cup {b}, {b, c} \ {b}, A)
    BY <2>5, <2>6, <2>7, TaggedUsed
  <2>9. Loose(g1, C, r, U, {c}) /\ Kept(g1, h, A) /\ g1.brk = h.brk
    BY <2>6, <2>8 DEF Becomes, U
  <2>10. Becomes(g, g1, C, r, U, {c} \ {c}, U)
    BY <2>5, <2>6, <2>9, TaggedFree
  <2>11. Loose(g, C, r, U, {}) /\ Kept(g, g1, U)
    BY <2>6, <2>10 DEF Becomes
  <2>12. NoTwoFree(C, r, U)
    <3> SUFFICES ASSUME NEW d \in C, d + r[d] \in C, d \notin U PROVE d + r[d] \in U
      BY DEF NoTwoFree
    <3>1. CASE d = c
      <4>1. b + s[b] \in B /\ b + s[b] \notin {b}
        <5>1. b + s[b] # c /\ b + s[b] # b
          BY <1>1, <1>3, <2>4 DEF c
        <5> QED
          BY <2>4, <3>1, <5>1 DEF C
      <4> QED
        BY <1>1, <2>4, <3>1, <4>1 DEF NoTwoFree, U
    <3>2. CASE d # c
      <4>1. d \in B /\ d # b /\ r[d] = s[d] /\ d + s[d] # c
        BY <2>2, <2>3, <3>2 DEF C, U
      <4>2. d + s[d] \in B
        BY <4>1 DEF C
      <4> QED
        BY <4>1, <4>2 DEF NoTwoFree, U
    <3> QED
      BY <3>1, <3>2
  <2>13. SizeOf(g, b) = n
    BY <2>2, <2>6, <2>11, UsedIs
  <2>14. Kept(g, h, A)
    <3>1. Kept(g, g1, A) /\ A \subseteq A
      BY <2>11 DEF Kept, U
    <3> QED
      BY <2>9, <3>1, KeptBoth
  <2> QED
    BY <2>11, <2>12, <2>13, <2>14 DEF Turns, Sound, Whole, g, U
<1> QED
  BY <1>2, <1>3

(* The block b of list i is taken out of it and cut. *)
LEMMA TakeIs ==
  ASSUME NEW h, NEW B, NEW s, NEW A, Whole(h, B, s, A), NEW b \in Spare(B, s, A),
         h.brk <= MaxHeap + 1, NEW n \in Nat, n >= 2, n % 2 = 0, n <= s[b]
  PROVE  Gives(Take(h, getIndex(s[b]), b, n), h, A, n)
<1> DEFINE g1 == listDelete(h, pred(h, b), succ(h, b), getIndex(s[b]))
           g == Split(g1, b, s[b], n)
<1>1. /\ Loose(h, B, s, A, {}) /\ NoTwoFree(B, s, A) /\ Shape(B, s, h.brk) /\ b \in B \ (A \cup {}) /\ s[b] > 2
      /\ {} \cup {b} = {b} /\ h.mem[b] = Tag(0, s[b]) /\ b \notin A
  BY DEF Whole, Loose, Spare, Tagged, Status
<1>2. b \in Nat /\ SizeOf(h, b) = s[b]
  BY <1>1, ShapeIs, Words DEF SizeOf
<1>3. Becomes(g1, h, B, s, A, {} \cup {b}, A)
  BY <1>1, Unlisted
<1>4. Loose(g1, B, s, A, {b}) /\ Kept(g1, h, A) /\ g1.brk = h.brk
  BY <1>1, <1>3 DEF Becomes
<1>5. Take(h, getIndex(s[b]), b, n).heap = g /\ Take(h, getIndex(s[b]), b, n).ptr = b + 1
  BY <1>2 DEF Take
<1> HIDE DEF g1
<1>6. Turns(g, g1, A \cup {b}, A) /\ SizeOf(g, b) = n
  <2>1. Enough(g1, B, s, A, b, s[b], n)
    BY <1>1, <1>4 DEF Enough
  <2> QED
    BY <2>1, SplitIs
<1> HIDE DEF g
<1>7. Kept(g, h, A)
  <2>1. Kept(g, g1, A) /\ A \subseteq A
    BY <1>6 DEF Turns
  <2> QED
    BY <1>1, <1>4, <2>1, KeptBoth
<1>8. Turns(g, h, A \cup {b}, A)
  BY <1>6, <1>7 DEF Turns
<1> QED
  BY <1>1, <1>2, <1>5, <1>6, <1>8 DEF Gives

(* A block at the end of the heap comes into use. *)
LEMMA ExtendIs ==
  ASSUME NEW h, NEW A, Sound(h, A), NEW n \in Nat, n >= 2, n % 2 = 0
  PROVE  Gives([heap |-> Extend(h, n), ptr |-> h.brk + 1], h, A, n)
<1> DEFINE c == h.brk
           g1 == mem_sbrk(h, n)
           g == addTags(g1, c, 1, n)
           U == A \cup {c}
<1>1. PICK B, s : Whole(h, B, s, A)
  BY DEF Sound
<1>2. /\ Loose(h, B, s, A, {}) /\ NoTwoFree(B, s, A) /\ Shape(B, s, c) /\ A \subseteq B /\ c \in Nat
      /\ s \in [Nat -> Nat]
  BY <1>1 DEF Whole, Loose, Shape
<1> DEFINE r == [s EXCEPT ![c] = n]
           C == B \cup {c}
<1>3. c \notin B /\ r[c] = n /\ \A d \in B : r[d] = s[d]
  <2>1. c \notin B
    BY <1>2, ShapeIs
  <2> QED
    BY <1>2, <2>1
<1>4. Grown(g1, h, C, r, A, {} \cup {c})
  BY <1>2, Extended
<1>5. Extend(h, n) = g /\ {} \cup {c} = {c} /\ {c} \ {c} = {} /\ c \in {c} /\ c \in U
  BY DEF Extend
<1> HIDE DEF r, c, C, g1
<1>6. Loose(g1, C, r, A, {c}) /\ Kept(g1, h, A)
  BY <1>4, <1>5 DEF Grown
<1>7. g = addTags(g1, c, 1, r[c])
  BY <1>3
<1> HIDE DEF g
<1>8. Becomes(g, g1, C, r, A \cup {c}, {c} \ {c}, A)
  BY <1>5, <1>6, <1>7, TaggedUsed
<1>9. Loose(g, C, r, U, {}) /\ Kept(g, g1, A)
  BY <1>5, <1>8 DEF Becomes
<1>10. NoTwoFree(C, r, U)
  BY <1>2, <1>3 DEF NoTwoFree, C, U
<1>11. SizeOf(g, c) = n
  BY <1>3, <1>5, <1>9, UsedIs
<1>12. Kept(g, h, A)
  <2>1. A \subseteq A
    OBVIOUS
  <2> QED
    BY <1>2, <1>6, <1>9, <2>1, KeptBoth
<1>13. Turns(g, h, A \cup {c}, A)
  BY <1>9, <1>10, <1>12 DEF Turns, Sound, Whole, U
<1> DEFINE p == [heap |-> Extend(h, n), ptr |-> h.brk + 1]
<1>14. p.heap = g /\ p.ptr = c + 1
  BY <1>5 DEF c
<1> HIDE DEF p
<1>15. Gives(p, h, A, n)
  BY <1>2, <1>3, <1>11, <1>13, <1>14 DEF Gives
<1> QED
  BY <1>15 DEF p

-----------------------------------------------------------------------------
(* The chains of the links *)

(* f repeats step from s on. *)
LEMMA Repeated ==
  ASSUME NEW S, NEW s \in S, NEW step \in [S -> S]
  PROVE  \E g \in [Nat -> S] : g = [n \in Nat |-> IF n = 0 THEN s ELSE step[g[n - 1]]]
<1>1. PICK g \in [Nat -> S] : g[0] = s /\ \A n \in Nat : g[n + 1] = step[g[n]]
  <2>1. \A T : \A t \in T : \A f \in [T -> T] :
          \E g \in [Nat -> T] : g[0] = t /\ \A k \in Nat : g[k + 1] = f[g[k]]
    BY NatRecursion, Zenon
  <2> QED
    BY <2>1
<1>2. ASSUME NEW n \in Nat PROVE g[n] = IF n = 0 THEN s ELSE step[g[n - 1]]
  <2>1. CASE n = 0
    BY <1>1, <2>1
  <2>2. CASE n # 0
    <3>1. n - 1 \in Nat /\ (n - 1) + 1 = n
      BY <2>2
    <3> QED
      BY <1>1, <2>2, <3>1
  <2> QED
    BY <2>1, <2>2
<1> QED
  BY <1>1, <1>2

(* The chain of list i follows the links su. *)
Follows(c, h, F, su, i) ==
  /\ c[0] = h.lists[i]
  /\ \A n \in Nat : /\ c[n] \in F \cup {NULL}
                    /\ c[n + 1] = IF c[n] = NULL THEN NULL ELSE su[c[n]]

(* Chain follows the links to the end. *)
LEMMA FollowsIs ==
  ASSUME NEW h, NEW F, NEW su, NEW i, NULL \notin F, h.lists[i] \in F \cup {NULL},
         \A f \in F : su[f] \in F \cup {NULL} /\ succ(h, f) = su[f]
  PROVE  Follows(Chain(h, i), h, F, su, i)
<1> DEFINE S == F \cup {NULL}
           s == h.lists[i]
           step == [b \in S |-> Following(h, b)]
           Walks(g) == g = [n \in Nat |-> IF n = 0 THEN s ELSE Following(h, g[n - 1])]
           c == Chain(h, i)
<1>1. \A b \in S : Following(h, b) = IF b = NULL THEN NULL ELSE su[b]
  BY DEF Following
<1>2. s \in S /\ step \in [S -> S] /\ \A b \in S : step[b] = Following(h, b)
  BY <1>1
<1> HIDE DEF S, step, s
<1>3. PICK g \in [Nat -> S] : g = [n \in Nat |-> IF n = 0 THEN s ELSE step[g[n - 1]]]
  BY <1>2, Repeated
<1>4. Walks(g)
  <2>1. ASSUME NEW n \in Nat
        PROVE  (IF n = 0 THEN s ELSE step[g[n - 1]]) = (IF n = 0 THEN s ELSE Following(h, g[n - 1]))
    <3>1. n # 0 => g[n - 1] \in S
      BY <1>3
    <3> QED
      BY <1>2, <3>1
  <2> QED
    BY <1>3, <2>1
<1>5. c = CHOOSE f : Walks(f)
  BY Zenon DEF Chain, s
<1>6. Walks(c)
  <2> HIDE DEF Walks, c
  <2> QED
    BY <1>4, <1>5
<1> HIDE DEF c
<1>7. c[0] = s /\ \A n \in Nat : c[n + 1] = Following(h, c[n])
  <2>1. \A n \in Nat : c[n] = IF n = 0 THEN s ELSE Following(h, c[n - 1])
    BY <1>6
  <2> HIDE DEF Walks
  <2>2. ASSUME NEW n \in Nat PROVE c[n + 1] = Following(h, c[n])
    <3>1. n + 1 \in Nat /\ n + 1 # 0 /\ (n + 1) - 1 = n
      OBVIOUS
    <3> QED
      BY <2>1, <3>1
  <2> QED
    BY <2>1, <2>2
<1> HIDE DEF Walks
<1> DEFINE In == {n \in Nat : c[n] \in S}
<1>8. In = Nat
  <2>1. In \in SUBSET Nat /\ 0 \in In
    BY <1>2, <1>7
  <2>2. \A n \in In : n + 1 \in In
    BY <1>2, <1>7
  <2> HIDE DEF In
  <2> QED
    BY <2>1, <2>2, NatBySet
<1>9. \A n \in Nat : c[n] \in S
  BY <1>8
<1> QED
  BY <1>1, <1>7, <1>9 DEF Follows, c, s, S

(* The chain c has the blocks of list i, each once and behind the one that   *)
(* its link names.                                                           *)
Orders(c, F, ix, pr, i) ==
  /\ \A n \in Nat : c[n] # NULL =>
       /\ c[n] \in F /\ ix[c[n]] = i
       /\ n = 0 => pr[c[n]] = NULL
       /\ n # 0 => c[n - 1] # NULL /\ pr[c[n]] = c[n - 1]
  /\ \A n, m \in Nat : c[n] # NULL /\ c[n] = c[m] => n = m
  /\ \A f \in F : ix[f] = i => \E n \in Nat : c[n] = f

(* Along a chain come all blocks of the list, each once. *)
LEMMA OrdersIs ==
  ASSUME NEW h, NEW F, NEW ix, NEW pr, NEW su, NEW rk, Linking(F, ix, h.lists, pr, su, rk),
         NEW i \in 0 .. NumLists - 1, NEW c, Follows(c, h, F, su, i)
  PROVE  Orders(c, F, ix, pr, i)
<1>1. ASSUME NEW n \in Nat, c[n] # NULL
      PROVE  c[n] \in F /\ (n = 0 => pr[c[n]] = NULL) /\ (n # 0 => c[n - 1] # NULL /\ pr[c[n]] = c[n - 1])
  <2>1. c[n] \in F
    BY <1>1 DEF Follows
  <2>2. ASSUME n = 0 PROVE pr[c[n]] = NULL
    <3>1. c[n] = h.lists[i]
      BY <2>2 DEF Follows
    <3>2. h.lists[i] # NULL => pr[h.lists[i]] = NULL
      BY DEF Linking
    <3> QED
      BY <1>1, <3>1, <3>2
  <2>3. ASSUME n # 0 PROVE c[n - 1] # NULL /\ pr[c[n]] = c[n - 1]
    <3>1. n - 1 \in Nat /\ (n - 1) + 1 = n
      BY <2>3
    <3>2. c[n - 1] \in F \cup {NULL} /\ c[n] = IF c[n - 1] = NULL THEN NULL ELSE su[c[n - 1]]
      BY <3>1 DEF Follows
    <3> QED
      BY <1>1, <3>2 DEF Linking
  <2> QED
    BY <2>1, <2>2, <2>3
<1>2. ASSUME NEW n \in Nat, c[n] # NULL PROVE ix[c[n]] = i
  <2> DEFINE In == {m \in Nat : c[m] # NULL => ix[c[m]] = i}
  <2>1. In \in SUBSET Nat /\ 0 \in In
    BY DEF Follows, Linking
  <2>2. ASSUME NEW m \in In PROVE m + 1 \in In
    <3>1. m \in Nat /\ m + 1 \in Nat
      OBVIOUS
    <3>2. c[m] \in F \cup {NULL} /\ c[m + 1] = IF c[m] = NULL THEN NULL ELSE su[c[m]]
      BY <3>1 DEF Follows
    <3> QED
      BY <3>1, <3>2 DEF Linking
  <2> HIDE DEF In
  <2>3. In = Nat
    BY <2>1, <2>2, NatBySet
  <2> QED
    BY <1>2, <2>3 DEF In
<1>3. ASSUME NEW n \in Nat, NEW m \in Nat, c[n] # NULL, c[n] = c[m] PROVE n = m
  <2> DEFINE In == {k \in Nat : \A j \in Nat : c[k] # NULL /\ c[k] = c[j] => k = j}
  <2>1. In \in SUBSET Nat
    OBVIOUS
  <2>2. 0 \in In
    BY <1>1
  <2>3. ASSUME NEW k \in In PROVE k + 1 \in In
    <3>1. k \in Nat /\ k + 1 \in Nat /\ k + 1 # 0 /\ (k + 1) - 1 = k
      OBVIOUS
    <3>2. ASSUME NEW j \in Nat, c[k + 1] # NULL, c[k + 1] = c[j] PROVE k + 1 = j
      <4>1. c[k] # NULL /\ pr[c[k + 1]] = c[k]
        BY <1>1, <3>1, <3>2
      <4>2. j # 0 /\ j - 1 \in Nat /\ c[j - 1] = c[k]
        BY <1>1, <3>2, <4>1
      <4>3. k = j - 1
        BY <4>1, <4>2
      <4> QED
        BY <3>1, <4>3
    <3> QED
      BY <3>1, <3>2
  <2> HIDE DEF In
  <2>4. In = Nat
    BY <2>1, <2>2, <2>3, NatBySet
  <2> QED
    BY <1>3, <2>4 DEF In
<1>4. ASSUME NEW e \in F, ix[e] = i, \A n \in Nat : c[n] # e PROVE FALSE
  <2> DEFINE Lost == {f \in F : ix[f] = i /\ \A n \in Nat : c[n] # f}
             Depth == {rk[NULL] - rk[f] : f \in Lost}
  <2>1. \A f \in F : rk[f] \in Nat /\ rk[NULL] \in Nat /\ rk[f] < rk[NULL]
    BY DEF Linking, NULL
  <2>2. Depth \in SUBSET Nat /\ Depth # {}
    BY <1>4, <2>1
  <2> HIDE DEF Depth
  <2>3. PICK d \in Depth : \A k \in Depth : d <= k
    BY <2>2, LeastNatural
  <2>4. PICK f \in Lost : d = rk[NULL] - rk[f]
    BY <2>3 DEF Depth
  <2>5. \A k \in Lost : rk[k] <= rk[f]
    <3>1. \A k \in Lost : d <= rk[NULL] - rk[k]
      BY <2>3 DEF Depth
    <3> QED
      BY <2>1, <2>4, <3>1
  <2>6. CASE pr[f] = NULL
    <3>1. h.lists[i] = f
      BY <2>6 DEF Linking
    <3> QED
      BY <3>1 DEF Follows
  <2>7. CASE pr[f] # NULL
    <3>1. pr[f] \in F /\ ix[pr[f]] = i /\ su[pr[f]] = f /\ rk[f] < rk[pr[f]]
      BY <2>7 DEF Linking
    <3>2. pr[f] \notin Lost
      <4>1. pr[f] \in Lost => rk[pr[f]] <= rk[f]
        BY <2>5
      <4> QED
        BY <2>1, <3>1, <4>1
    <3>3. PICK n \in Nat : c[n] = pr[f]
      BY <3>1, <3>2
    <3>4. c[n + 1] = f
      BY <2>7, <3>1, <3>3 DEF Follows
    <3> QED
      BY <3>4
  <2> QED
    BY <2>6, <2>7
<1> QED
  BY <1>1, <1>2, <1>3, <1>4 DEF Orders

(* No more blocks of four words and more than fit into the heap. *)
LEMMA PlacesIs ==
  ASSUME NEW B, NEW s, NEW brk, Shape(B, s, brk), NEW F, F \subseteq Spare(B, s, {}), NEW n \in Nat,
         NEW c, \A m \in 0 .. n : c[m] \in F, \A m, k \in 0 .. n : c[m] = c[k] => m = k
  PROVE  n \in 0 .. brk \div 4
<1> DEFINE D == 0 .. n
           R == 0 .. brk \div 4
           e == [m \in D |-> c[m] \div 4]
<1>1. brk \in Nat
  BY ShapeIs
<1>2. \A f \in F : f \in Nat /\ f < brk
  BY ShapeIs DEF Spare
<1>3. \A f, g \in F : f < g => f + 4 <= g
  <2> SUFFICES ASSUME NEW f \in F, NEW g \in F, f < g PROVE f + 4 <= g
    OBVIOUS
  <2>1. f \in B /\ g \in B /\ s[f] > 2
    BY DEF Spare
  <2>2. f + s[f] <= g /\ s[f] % 2 = 0 /\ s[f] \in Nat /\ f \in Nat /\ g \in Nat
    BY <2>1, ShapeIs DEF Shape
  <2> QED
    BY <2>1, <2>2
<1>4. \A f, g \in F : f \div 4 = g \div 4 => f = g
  <2> SUFFICES ASSUME NEW f \in F, NEW g \in F, f \div 4 = g \div 4 PROVE f = g
    OBVIOUS
  <2>1. f \in Nat /\ g \in Nat /\ (f < g => f + 4 <= g) /\ (g < f => g + 4 <= f)
    BY <1>2, <1>3
  <2> QED
    BY <2>1
<1>5. \A m \in D : c[m] \div 4 \in R
  <2> SUFFICES ASSUME NEW m \in D PROVE c[m] \div 4 \in R
    OBVIOUS
  <2>1. c[m] \in Nat /\ c[m] < brk
    BY <1>2
  <2> QED
    BY <1>1, <2>1
<1>6. \A m, k \in D : e[m] = e[k] => m = k
  BY <1>4
<1>7. e \in [D -> R]
  BY <1>5
<1>8. e \in Injection(D, R)
  <2> HIDE DEF e, D, R
  <2> QED
    BY <1>6, <1>7 DEF Injection, IsInjective
<1>9. IsFiniteSet(R) /\ Cardinality(R) = brk \div 4 + 1 /\ Cardinality(D) = n + 1
  <2>1. brk \div 4 \in Nat
    BY <1>1
  <2> QED
    BY <2>1, FS_Interval
<1>10. Cardinality(D) <= Cardinality(R)
  <2> HIDE DEF e, D, R
  <2> QED
    BY <1>8, <1>9, FS_Injection
<1> QED
  BY <1>1, <1>9, <1>10

(* List i of the heap is in order: F are the free blocks with room for links. *)
InOrder(h, F, s, i) ==
  /\ \A n \in Nat : Chain(h, i)[n] # NULL =>
       /\ n \in Places(h) /\ Chain(h, i)[n] \in F /\ getIndex(s[Chain(h, i)[n]]) = i
       /\ pred(h, Chain(h, i)[n]) = IF n = 0 THEN NULL ELSE Chain(h, i)[n - 1]
  /\ \A n, m \in Nat : Chain(h, i)[n] # NULL /\ Chain(h, i)[n] = Chain(h, i)[m] => n = m
  /\ \A f \in F : getIndex(s[f]) = i => \E n \in Places(h) : Chain(h, i)[n] = f

(* Each list of a heap without blocks in the making is in order. *)
LEMMA InOrderIs ==
  ASSUME NEW h, NEW B, NEW s, NEW A, Whole(h, B, s, A), NEW i \in 0 .. NumLists - 1
  PROVE  InOrder(h, Spare(B, s, A), s, i)
<1> DEFINE F == Spare(B, s, A)
           c == Chain(h, i)
<1>1. /\ Loose(h, B, s, A, {}) /\ Shape(B, s, h.brk) /\ A \cup {} = A
      /\ Lists(h, F, s)
  BY DEF Whole, Loose
<1>2. PICK ix, pr, su, rk : /\ Linking(F, ix, h.lists, pr, su, rk) /\ LinksAre(h, F, pr, su)
                            /\ \A f \in F : ix[f] = getIndex(s[f])
  BY <1>1 DEF Lists
<1>3. \A f \in F : pred(h, f) = pr[f] /\ succ(h, f) = su[f]
  <2>1. F = Spare(B, s, A \cup {})
    BY <1>1
  <2> HIDE DEF F
  <2> QED
    BY <1>1, <1>2, <2>1, LinksRead
<1> HIDE DEF F
<1>4. Follows(c, h, F, su, i)
  <2>1. NULL \notin F /\ h.lists[i] \in F \cup {NULL} /\ \A f \in F : su[f] \in F \cup {NULL}
    BY <1>2 DEF Linking
  <2> QED
    BY <1>3, <2>1, FollowsIs
<1> HIDE DEF c
<1>5. Orders(c, F, ix, pr, i)
  BY <1>2, <1>4, OrdersIs
<1> DEFINE Through == {n \in Nat : c[n] # NULL => \A m \in 0 .. n : c[m] # NULL}
<1>6. Through = Nat
  <2>1. Through \in SUBSET Nat /\ 0 \in Through
    OBVIOUS
  <2>2. ASSUME NEW n \in Through PROVE n + 1 \in Through
    <3>1. n \in Nat /\ n + 1 \in Nat /\ n + 1 # 0 /\ (n + 1) - 1 = n
      OBVIOUS
    <3>2. c[n + 1] # NULL => c[n] # NULL
      BY <1>5, <3>1 DEF Orders
    <3>3. \A m \in 0 .. n + 1 : m \in 0 .. n \/ m = n + 1
      BY <3>1
    <3> QED
      BY <3>1, <3>2, <3>3
  <2> HIDE DEF Through
  <2> QED
    BY <2>1, <2>2, NatBySet
<1>7. ASSUME NEW n \in Nat, c[n] # NULL PROVE n \in 0 .. h.brk \div 4
  <2>1. F \subseteq Spare(B, s, {})
    BY DEF F, Spare
  <2>2. \A m \in 0 .. n : c[m] # NULL
    BY <1>6, <1>7
  <2>3. \A m \in 0 .. n : m \in Nat /\ c[m] \in F
    BY <1>5, <2>2 DEF Orders
  <2>4. \A m, k \in 0 .. n : c[m] = c[k] => m = k
    BY <1>5, <2>2, <2>3 DEF Orders
  <2> QED
    BY <1>1, <2>1, <2>3, <2>4, PlacesIs
<1>8. ASSUME NEW n \in Nat, c[n] # NULL
      PROVE  /\ n \in Places(h) /\ c[n] \in F /\ getIndex(s[c[n]]) = i
             /\ pred(h, c[n]) = IF n = 0 THEN NULL ELSE c[n - 1]
  <2>1. c[n] \in F /\ ix[c[n]] = i /\ pr[c[n]] = IF n = 0 THEN NULL ELSE c[n - 1]
    BY <1>5, <1>8 DEF Orders
  <2> QED
    BY <1>2, <1>3, <1>7, <1>8, <2>1 DEF Places
<1>9. \A n, m \in Nat : c[n] # NULL /\ c[n] = c[m] => n = m
  BY <1>5 DEF Orders
<1>10. ASSUME NEW f \in F, getIndex(s[f]) = i PROVE \E n \in Places(h) : c[n] = f
  <2>1. PICK n \in Nat : c[n] = f
    BY <1>2, <1>5, <1>10 DEF Orders
  <2>2. f # NULL
    BY <1>2 DEF Linking
  <2> QED
    BY <1>8, <2>1, <2>2
<1>11. InOrder(h, F, s, i)
  BY <1>8, <1>9, <1>10 DEF InOrder, c
<1> QED
  BY <1>11 DEF F

(* Going from size to size one finds all blocks. *)
LEMMA HeadsIs ==
  ASSUME NEW h, NEW B, NEW s, NEW A, Loose(h, B, s, A, {})
  PROVE  Heads(h) = B
<1> DEFINE S == B \cup {h.brk}
           step == [b \in S |-> NextHead(h, b)]
           Walks(g) == g = [n \in Nat |-> IF n = 0 THEN 2 ELSE NextHead(h, g[n - 1])]
           hd == CHOOSE g : Walks(g)
<1>1. /\ Shape(B, s, h.brk) /\ h.brk \in Nat /\ 2 \in S
      /\ \A b \in B : b \in Nat /\ b >= 2 /\ b < h.brk /\ s[b] \in Nat /\ s[b] >= 2 /\ b + s[b] \in S
      /\ \A b \in B : b = 2 \/ \E a \in B : a + s[a] = b
  <2>1. Shape(B, s, h.brk)
    BY DEF Loose
  <2> QED
    BY <2>1, ShapeIs DEF Shape
<1>2. \A b \in B : NextHead(h, b) = b + s[b]
  <2> SUFFICES ASSUME NEW b \in B PROVE NextHead(h, b) = b + s[b]
    OBVIOUS
  <2>1. SizeOf(h, b) = s[b]
    BY Words DEF Loose, Tagged, SizeOf
  <2> QED
    BY <1>1, <2>1 DEF NextHead, After
<1>3. NextHead(h, h.brk) = h.brk
  BY <1>1 DEF NextHead
<1>4. step \in [S -> S] /\ \A b \in S : step[b] = NextHead(h, b)
  BY <1>1, <1>2, <1>3
<1> HIDE DEF S, step
<1>5. PICK g \in [Nat -> S] : g = [n \in Nat |-> IF n = 0 THEN 2 ELSE step[g[n - 1]]]
  BY <1>1, <1>4, Repeated
<1>6. Walks(g)
  <2>1. ASSUME NEW n \in Nat
        PROVE  (IF n = 0 THEN 2 ELSE step[g[n - 1]]) = (IF n = 0 THEN 2 ELSE NextHead(h, g[n - 1]))
    <3>1. n # 0 => g[n - 1] \in S
      BY <1>5
    <3> QED
      BY <1>4, <3>1
  <2> QED
    BY <1>5, <2>1
<1>7. Heads(h) = {b \in {hd[n] : n \in 0 .. h.brk \div 2} : b < h.brk}
  BY Zenon DEF Heads
<1>8. Walks(hd)
  <2> HIDE DEF Walks
  <2> QED
    BY <1>6
<1> HIDE DEF hd
<1>9. hd[0] = 2 /\ \A n \in Nat : hd[n + 1] = NextHead(h, hd[n])
  <2>1. \A n \in Nat : hd[n] = IF n = 0 THEN 2 ELSE NextHead(h, hd[n - 1])
    BY <1>8
  <2> HIDE DEF Walks
  <2>2. ASSUME NEW n \in Nat PROVE hd[n + 1] = NextHead(h, hd[n])
    <3>1. n + 1 \in Nat /\ n + 1 # 0 /\ (n + 1) - 1 = n
      OBVIOUS
    <3> QED
      BY <2>1, <3>1
  <2> QED
    BY <2>1, <2>2
<1> HIDE DEF Walks
<1> DEFINE In == {n \in Nat : hd[n] \in S /\ (hd[n] \in B => hd[n] >= 2 * n + 2)}
<1>10. In = Nat
  <2>1. In \in SUBSET Nat /\ 0 \in In
    BY <1>1, <1>9
  <2>2. ASSUME NEW n \in In PROVE n + 1 \in In
    <3>1. n \in Nat /\ hd[n] \in S /\ (hd[n] \in B => hd[n] >= 2 * n + 2) /\ hd[n + 1] = NextHead(h, hd[n])
      BY <1>9
    <3>2. CASE hd[n] \in B
      <4>1. hd[n + 1] = hd[n] + s[hd[n]] /\ hd[n + 1] \in S
        BY <1>1, <1>2, <3>1, <3>2
      <4>2. hd[n + 1] >= 2 * (n + 1) + 2
        BY <1>1, <3>1, <3>2, <4>1
      <4> QED
        BY <3>1, <4>1, <4>2
    <3>3. CASE hd[n] \notin B
      <4>1. hd[n + 1] = h.brk /\ h.brk \notin B /\ h.brk \in S
        BY <1>1, <1>3, <3>1, <3>3 DEF S
      <4> QED
        BY <3>1, <4>1
    <3> QED
      BY <3>2, <3>3
  <2> HIDE DEF In
  <2> QED
    BY <2>1, <2>2, NatBySet
<1>11. ASSUME NEW b \in Heads(h) PROVE b \in B
  <2>1. PICK n \in 0 .. h.brk \div 2 : b = hd[n] /\ b < h.brk
    BY <1>7
  <2>2. n \in Nat
    BY <1>1
  <2> QED
    BY <1>1, <1>10, <2>1, <2>2 DEF S
<1>12. \A b \in B : \E n \in Nat : hd[n] = b
  <2> DEFINE Lost == {b \in B : \A n \in Nat : hd[n] # b}
  <2> SUFFICES ASSUME Lost # {} PROVE FALSE
    OBVIOUS
  <2>1. Lost \in SUBSET Nat
    BY <1>1
  <2>2. PICK b \in Lost : \A c \in Lost : b <= c
    <3> HIDE DEF Lost
    <3> QED
      BY <2>1, LeastNatural
  <2>3. b # 2
    BY <1>9
  <2>4. PICK a \in B : a + s[a] = b
    BY <1>1, <2>3
  <2>5. a < b
    BY <1>1, <2>4
  <2>6. PICK n \in Nat : hd[n] = a
    BY <1>1, <2>2, <2>5
  <2>7. hd[n + 1] = b
    BY <1>2, <1>9, <2>4, <2>6
  <2> QED
    BY <2>7
<1>13. ASSUME NEW b \in B PROVE b \in Heads(h)
  <2>1. PICK n \in Nat : hd[n] = b
    BY <1>12
  <2>2. b >= 2 * n + 2 /\ b < h.brk /\ b \in Nat
    BY <1>1, <1>10, <2>1
  <2>3. n \in 0 .. h.brk \div 2
    BY <1>1, <2>2
  <2> QED
    BY <1>7, <2>1, <2>2, <2>3
<1> QED
  BY <1>11, <1>13

(* Of a set of places there is a first one among those with the least size. *)
LEMMA LeastPlace ==
  ASSUME NEW P \in SUBSET Nat, P # {}, NEW size, \A n \in P : size[n] \in Nat
  PROVE  \E n \in P : \A m \in P : size[n] < size[m] \/ (size[n] = size[m] /\ n <= m)
<1> DEFINE V == {size[n] : n \in P}
<1>1. V \in SUBSET Nat /\ V # {}
  OBVIOUS
<1>2. PICK v \in V : \A w \in V : v <= w
  <2> HIDE DEF V
  <2> QED
    BY <1>1, LeastNatural
<1> DEFINE Q == {n \in P : size[n] = v}
<1>3. Q \in SUBSET Nat /\ Q # {}
  OBVIOUS
<1>4. PICK n \in Q : \A m \in Q : n <= m
  <2> HIDE DEF Q
  <2> QED
    BY <1>3, LeastNatural
<1>5. ASSUME NEW m \in P PROVE size[n] < size[m] \/ (size[n] = size[m] /\ n <= m)
  <2>1. v <= size[m] /\ size[n] = v /\ v \in Nat /\ size[m] \in Nat
    BY <1>1, <1>2
  <2>2. size[m] = v => n <= m
    BY <1>4
  <2> QED
    BY <2>1, <2>2
<1> QED
  BY <1>4, <1>5

(* The best fit is a free block of the list that is large enough. *)
LEMMA BestIs ==
  ASSUME NEW h, NEW B, NEW s, NEW A, Whole(h, B, s, A), NEW i \in 0 .. NumLists - 1, NEW n,
         Fits(h, i, n) # {}
  PROVE  LET b == Best(h, i, Fits(h, i, n)) IN
         b \in Spare(B, s, A) /\ getIndex(s[b]) = i /\ n <= s[b]
<1> DEFINE F == Spare(B, s, A)
           P == Fits(h, i, n)
           c == Chain(h, i)
           size == [k \in P |-> SizeOf(h, c[k])]
           First(k) == \A m \in P : size[k] < size[m] \/ (size[k] = size[m] /\ k <= m)
           k == CHOOSE k \in P : \A m \in P :
                  SizeOf(h, c[k]) < SizeOf(h, c[m]) \/ (SizeOf(h, c[k]) = SizeOf(h, c[m]) /\ k <= m)
<1>1. Loose(h, B, s, A, {}) /\ Shape(B, s, h.brk) /\ h.brk \in Nat
  BY ShapeIs DEF Whole, Loose
<1>2. \A f \in F : f \in B /\ SizeOf(h, f) = s[f] /\ s[f] \in Nat
  <2> SUFFICES ASSUME NEW f \in F PROVE f \in B /\ SizeOf(h, f) = s[f] /\ s[f] \in Nat
    OBVIOUS
  <2>1. f \in B
    BY DEF Spare
  <2>2. h.mem[f] = Tag(Status(A, f), s[f])
    BY <1>1, <2>1 DEF Loose, Tagged
  <2> QED
    BY <1>1, <2>1, <2>2, ShapeIs, Words DEF SizeOf
<1>3. InOrder(h, F, s, i)
  BY InOrderIs
<1> HIDE DEF F
<1>4. ASSUME NEW m \in P
      PROVE  m \in Nat /\ c[m] \in F /\ getIndex(s[c[m]]) = i /\ SizeOf(h, c[m]) >= n
  <2>1. m \in Places(h) /\ c[m] # NULL /\ SizeOf(h, c[m]) >= n
    BY DEF Fits
  <2>2. m \in Nat
    BY <1>1, <2>1 DEF Places
  <2> QED
    BY <1>3, <2>1, <2>2 DEF InOrder
<1>5. Best(h, i, P) = c[k]
  BY Zenon DEF Best
<1>6. k \in P
  <2>1. P \in SUBSET Nat /\ P # {} /\ \A m \in P : size[m] \in Nat
    BY <1>2, <1>4
  <2>2. PICK m \in P : First(m)
    <3> HIDE DEF P, size, c
    <3> QED
      BY <2>1, LeastPlace
  <2>3. \A j \in P : SizeOf(h, c[m]) < SizeOf(h, c[j]) \/ (SizeOf(h, c[m]) = SizeOf(h, c[j]) /\ m <= j)
    BY <2>2
  <2> HIDE DEF P, c
  <2> QED
    BY <2>3
<1> HIDE DEF P, c, k
<1> QED
  BY <1>2, <1>4, <1>5, <1>6 DEF P, F

(* What malloc is asked for: a size of the trace, or that of a slab. *)
Requests == Sizes \cup {SlabPayload(k) : k \in Kinds}

(* The size of a slab: its bitmaps and the slots they stand for. *)
LEMMA PayloadIs ==
  ASSUME NEW k \in Kinds
  PROVE  /\ SlabPayload(k) \in Nat /\ SlabPayload(k) > 4
         /\ NumMaps \in Nat \ {0} /\ Slots \in Nat \ {0}
         /\ NumMaps * Slots \in Nat /\ SlabPayload(k) = (NumMaps * Slots) * k + NumMaps
<1>1. NumMaps \in Nat \ {0} /\ Slots \in Nat \ {0} /\ SlabPayload(k) > 4 /\ k \in {2, 4}
  BY AllocatorAssumption DEF Kinds
<1>2. NumMaps * Slots \in Nat
  BY <1>1
<1>3. SlabPayload(k) = (NumMaps * Slots) * k + NumMaps
  BY DEF SlabPayload
<1> DEFINE p == NumMaps * Slots
<1> HIDE DEF p
<1>4. p * k + NumMaps \in Nat
  BY <1>1, <1>2 DEF p
<1> QED
  BY <1>1, <1>2, <1>3, <1>4 DEF p

(* The block for a request has room for the tags and the links. *)
LEMMA RequestIs ==
  ASSUME NEW n \in Requests
  PROVE  /\ n \in Nat /\ n >= 1
         /\ BlockSize(n) \in Nat /\ BlockSize(n) >= 4 /\ BlockSize(n) % 2 = 0 /\ BlockSize(n) >= n + 2
         /\ getIndex(BlockSize(n)) \in 0 .. NumLists - 1
<1>1. n \in Nat /\ n >= 1
  <2>1. CASE n \in Sizes
    BY <2>1, AllocatorAssumption
  <2>2. CASE n \in {SlabPayload(k) : k \in Kinds}
    <3>1. PICK k \in Kinds : n = SlabPayload(k)
      BY <2>2
    <3> QED
      BY <3>1, PayloadIs
  <2> QED
    BY <2>1, <2>2 DEF Requests
<1>2. /\ BlockSize(n) \in Nat /\ BlockSize(n) >= 4 /\ BlockSize(n) % 2 = 0 /\ BlockSize(n) >= n + 2
  BY <1>1 DEF BlockSize
<1>3. \E i \in 0 .. NumLists - 1 : HasIndex(BlockSize(n), i)
  <2>1. BlockSize(n) \in {BlockSize(m) : m \in Requests}
    OBVIOUS
  <2> DEFINE b == BlockSize(n)
             T == {BlockSize(m) : m \in Requests}
  <2>2. \A size \in T : \E i \in 0 .. NumLists - 1 : HasIndex(size, i)
    BY AllocatorAssumption, Zenon DEF Requests
  <2> QED
    BY <2>2
<1>4. getIndex(BlockSize(n)) \in 0 .. NumLists - 1
  BY <1>3 DEF getIndex
<1> QED
  BY <1>1, <1>2, <1>4

(* malloc of a block: from a list or from the end of the heap. *)
LEMMA BlockMallocIs ==
  ASSUME NEW h, NEW A, Sound(h, A), h.brk <= MaxHeap + 1, NEW size \in Requests
  PROVE  Gives(BlockMalloc(h, size), h, A, BlockSize(size))
<1> DEFINE n == BlockSize(size)
           L == {i \in getIndex(n) .. NumLists - 1 : Fits(h, i, n) # {}}
<1>1. n \in Nat /\ n >= 2 /\ n % 2 = 0 /\ getIndex(n) \in 0 .. NumLists - 1
  BY RequestIs
<1>2. BlockMalloc(h, size) = FirstFit(h, L, n)
  BY DEF BlockMalloc
<1> HIDE DEF n
<1>3. CASE L = {}
  <2> DEFINE r == [heap |-> Extend(h, n), ptr |-> h.brk + 1]
  <2>1. BlockMalloc(h, size) = r
    BY <1>2, <1>3 DEF FirstFit
  <2>2. Gives(r, h, A, n)
    BY <1>1, ExtendIs
  <2> QED
    BY <2>1, <2>2 DEF n
<1>4. CASE L # {}
  <2> DEFINE i == Min(L)
             b == Best(h, i, Fits(h, i, n))
  <2>1. L \in SUBSET Nat /\ \A j \in L : j \in 0 .. NumLists - 1 /\ Fits(h, j, n) # {}
    BY <1>1
  <2>2. i \in L
    <3>1. \E j \in L : \A k \in L : j <= k
      <4> HIDE DEF L
      <4> QED
        BY <1>4, <2>1, LeastNatural
    <3> HIDE DEF L
    <3> QED
      BY <3>1 DEF Min
  <2>3. FirstFit(h, L, n) = Take(h, i, b, n)
    BY <1>4 DEF FirstFit, TakeBest
  <2>4. PICK B, s : Whole(h, B, s, A)
    BY DEF Sound
  <2>5. i \in 0 .. NumLists - 1 /\ Fits(h, i, n) # {}
    BY <2>1, <2>2
  <2> HIDE DEF L, i
  <2>6. b \in Spare(B, s, A) /\ getIndex(s[b]) = i /\ n <= s[b]
    BY <2>4, <2>5, BestIs
  <2> HIDE DEF b
  <2>7. Gives(Take(h, getIndex(s[b]), b, n), h, A, n)
    BY <1>1, <2>4, <2>6, TakeIs
  <2> QED
    BY <1>2, <2>3, <2>6, <2>7 DEF n, L
<1> QED
  BY <1>3, <1>4

-----------------------------------------------------------------------------
(* The slots of a slab, numbered through its bitmaps. *)

(* The number of a slot, from its bitmap and its place in it. *)
LEMMA SlotNumbers ==
  ASSUME NEW j \in 0 .. NumMaps - 1, NEW k \in 0 .. Slots - 1
  PROVE  /\ j * Slots + k \in 0 .. NumMaps * Slots - 1
         /\ (j * Slots + k) \div Slots = j /\ (j * Slots + k) % Slots = k
<1>1. NumMaps \in Nat \ {0} /\ Slots \in Nat \ {0} /\ j \in Nat /\ k \in Nat
  BY AllocatorAssumption
<1>2. (k + j * Slots) % Slots = k /\ (k + j * Slots) \div Slots = j
  BY <1>1, RemainderIs
<1> DEFINE p == j * Slots
           q == NumMaps * Slots
<1>3. p \in Nat /\ q \in Nat /\ p + Slots <= q
  <2> DEFINE u == (NumMaps - 1 - j) * Slots
  <2>1. NumMaps - 1 - j \in Nat
    BY <1>1
  <2>2. u \in Nat /\ p \in Nat /\ q \in Nat
    BY <1>1, <2>1
  <2>3. u = q - Slots - p
    BY <1>1
  <2> HIDE DEF u, p, q
  <2> QED
    BY <1>1, <2>2, <2>3
<1> HIDE DEF p, q
<1>4. p + k \in 0 .. q - 1 /\ k + p = p + k
  BY <1>1, <1>3
<1> QED
  BY <1>2, <1>4 DEF p, q

(* A bitmap and a place in it, from the number of the slot. *)
LEMMA NumberedSlots ==
  ASSUME NEW n \in 0 .. NumMaps * Slots - 1
  PROVE  /\ n \div Slots \in 0 .. NumMaps - 1 /\ n % Slots \in 0 .. Slots - 1
         /\ (n \div Slots) * Slots + (n % Slots) = n
<1>1. NumMaps \in Nat \ {0} /\ Slots \in Nat \ {0} /\ NumMaps * Slots \in Nat /\ n \in Nat
  <2>1. NumMaps \in Nat \ {0} /\ Slots \in Nat \ {0}
    BY AllocatorAssumption
  <2> QED
    BY <2>1
<1> DEFINE d == n \div Slots
           m == n % Slots
           p == d * Slots
           q == NumMaps * Slots
<1>2. d \in Int /\ m \in 0 .. Slots - 1 /\ n = p + m
  BY <1>1
<1>3. p \in Int /\ q \in Nat /\ n < q
  BY <1>1, <1>2
<1> HIDE DEF d, m
<1>4. d < NumMaps
  <2> SUFFICES ASSUME d >= NumMaps PROVE FALSE
    BY <1>1, <1>2
  <2> DEFINE u == (d - NumMaps) * Slots
  <2>1. d - NumMaps \in Nat
    BY <1>1, <1>2
  <2>2. u \in Nat
    BY <1>1, <2>1
  <2>3. u = p - q
    BY <1>1, <1>2
  <2> HIDE DEF u, p, q
  <2> QED
    BY <1>2, <1>3, <2>2, <2>3
<1>5. d >= 0
  <2> SUFFICES ASSUME d <= -1 PROVE FALSE
    BY <1>1, <1>2
  <2> DEFINE u == (-1 - d) * Slots
  <2>1. -1 - d \in Nat
    BY <1>1, <1>2
  <2>2. u \in Nat
    BY <1>1, <2>1
  <2>3. u = - Slots - p
    BY <1>1, <1>2
  <2> HIDE DEF u, p, q
  <2> QED
    BY <1>1, <1>2, <1>3, <2>2, <2>3
<1> QED
  BY <1>1, <1>2, <1>4, <1>5 DEF d, m

(* A heap with the same tags and the same links is as sound. *)
LEMMA SameWhole ==
  ASSUME NEW h, NEW B, NEW s, NEW A, Whole(h, B, s, A), NEW g, Typed(g), g.brk = h.brk,
         g.lists = h.lists, g.mem[1] = h.mem[1],
         \A b \in B : g.mem[b] = h.mem[b] /\ g.mem[b + s[b] - 1] = h.mem[b + s[b] - 1],
         \A f \in Spare(B, s, A) : g.mem[f + 1] = h.mem[f + 1] /\ g.mem[f + 2] = h.mem[f + 2]
  PROVE  Whole(g, B, s, A)
<1>1. Loose(h, B, s, A, {}) /\ A \cup {} = A /\ NoTwoFree(B, s, A)
  BY DEF Whole
<1>2. Lists(g, Spare(B, s, A), s)
  <2>1. Lists(h, Spare(B, s, A), s)
    BY <1>1 DEF Loose
  <2> DEFINE F == Spare(B, s, A)
  <2>2. \A f \in F : s[f] = s[f] /\ g.mem[f + 1] = h.mem[f + 1] /\ g.mem[f + 2] = h.mem[f + 2]
    OBVIOUS
  <2> HIDE DEF F
  <2>3. Lists(h, F, s)
    BY <2>1 DEF F
  <2>4. Lists(g, F, s)
    BY <2>2, <2>3, ListsKept
  <2> QED
    BY <2>4 DEF F
<1>3. Tagged(g, B, s, A, {})
  BY <1>1 DEF Loose, Tagged
<1> QED
  BY <1>1, <1>2, <1>3 DEF Whole, Loose

(* g differs from h inside of the block b, behind its header and before its  *)
(* footer.                                                                  *)
Inside(g, h, b) ==
  /\ Typed(g) /\ g.brk = h.brk /\ g.lists = h.lists
  /\ \A a \in 1 .. h.brk - 1 : a <= b \/ a >= b + SizeOf(h, b) - 1 => g.mem[a] = h.mem[a]
(* The blocks are the same, and but for b so are their words. *)
Touched(g, h, A, b) ==
  /\ Sound(g, A) /\ Typed(g) /\ g.brk = h.brk
  /\ \A c \in A : SizeOf(g, c) = SizeOf(h, c)
  /\ \A c \in A \ {b} : \A a \in c .. c + SizeOf(h, c) - 1 : g.mem[a] = h.mem[a]

(* A step inside of a block in use leaves all blocks what they were. *)
LEMMA TouchedIs ==
  ASSUME NEW h, NEW A, Sound(h, A), NEW b \in A, NEW g, Inside(g, h, b)
  PROVE  Touched(g, h, A, b)
<1>1. PICK B, s : Whole(h, B, s, A)
  BY DEF Sound
<1>2. Loose(h, B, s, A, {}) /\ Shape(B, s, h.brk) /\ A \subseteq B /\ A \cup {} = A
  BY <1>1 DEF Whole, Loose
<1>3. SizeOf(h, b) = s[b] /\ b \in B /\ b \in Nat /\ s[b] \in Nat /\ s[b] >= 2 /\ b >= 2
  BY <1>2, UsedIs
<1>4. \A c \in B : c # b => \A a \in c .. c + s[c] - 1 : g.mem[a] = h.mem[a]
  <2> SUFFICES ASSUME NEW c \in B, c # b, NEW a \in c .. c + s[c] - 1 PROVE g.mem[a] = h.mem[a]
    OBVIOUS
  <2>1. /\ c \in Nat /\ s[c] \in Nat /\ c >= 2 /\ c + s[c] <= h.brk /\ h.brk \in Nat
        /\ c + s[c] <= b \/ b + s[b] <= c
    BY <1>2, <1>3, ShapeIs
  <2>2. a \in 1 .. h.brk - 1 /\ (a <= b \/ a >= b + s[b] - 1)
    BY <1>3, <2>1
  <2> QED
    BY <1>3, <2>2 DEF Inside
<1>5. /\ g.mem[1] = h.mem[1]
      /\ \A c \in B : g.mem[c] = h.mem[c] /\ g.mem[c + s[c] - 1] = h.mem[c + s[c] - 1]
  <2>1. /\ h.brk \in Nat /\ b \in 1 .. h.brk - 1 /\ 1 \in 1 .. h.brk - 1 /\ 1 <= b
        /\ b + s[b] - 1 \in 1 .. h.brk - 1 /\ b <= b /\ b + s[b] - 1 >= b + s[b] - 1
    BY <1>2, <1>3, ShapeIs
  <2>2. g.mem[1] = h.mem[1] /\ g.mem[b] = h.mem[b] /\ g.mem[b + s[b] - 1] = h.mem[b + s[b] - 1]
    BY <1>3, <2>1 DEF Inside
  <2>3. ASSUME NEW c \in B, c # b
        PROVE  g.mem[c] = h.mem[c] /\ g.mem[c + s[c] - 1] = h.mem[c + s[c] - 1]
    <3>1. c \in c .. c + s[c] - 1 /\ c + s[c] - 1 \in c .. c + s[c] - 1
      BY <1>2, ShapeIs
    <3> QED
      BY <1>4, <2>3, <3>1
  <2> QED
    BY <2>2, <2>3
<1>6. \A f \in Spare(B, s, A) : g.mem[f + 1] = h.mem[f + 1] /\ g.mem[f + 2] = h.mem[f + 2]
  <2> SUFFICES ASSUME NEW f \in Spare(B, s, A)
               PROVE  g.mem[f + 1] = h.mem[f + 1] /\ g.mem[f + 2] = h.mem[f + 2]
    OBVIOUS
  <2>1. f \in B /\ f # b /\ s[f] > 2
    BY DEF Spare
  <2>2. f + 1 \in f .. f + s[f] - 1 /\ f + 2 \in f .. f + s[f] - 1
    BY <1>2, <2>1, ShapeIs
  <2> QED
    BY <1>4, <2>1, <2>2
<1>7. Typed(g) /\ g.brk = h.brk /\ g.lists = h.lists
  BY DEF Inside
<1>8. Whole(g, B, s, A)
  BY <1>1, <1>5, <1>6, <1>7, SameWhole
<1>9. Loose(g, B, s, A, {})
  BY <1>8 DEF Whole
<1>10. \A c \in A : SizeOf(h, c) = s[c] /\ SizeOf(g, c) = s[c]
  BY <1>2, <1>9, UsedIs
<1>11. \A c \in A \ {b} : \A a \in c .. c + SizeOf(h, c) - 1 : g.mem[a] = h.mem[a]
  BY <1>2, <1>4, <1>10
<1> QED
  BY <1>7, <1>8, <1>10, <1>11 DEF Touched, Sound

(* The blocks in use are in the heap and apart. *)
LEMMA UsedBlocks ==
  ASSUME NEW h, NEW A, Sound(h, A)
  PROVE  /\ Typed(h) /\ h.brk \in Nat /\ h.slabs \in [Slabs -> Nat]
         /\ \A b \in A : /\ b \in Nat /\ b >= 2 /\ b % 2 = 0 /\ Valid(h, b) = 1
                         /\ SizeOf(h, b) \in Nat /\ SizeOf(h, b) >= 2 /\ b + SizeOf(h, b) <= h.brk
         /\ \A b, c \in A : b # c => b + SizeOf(h, b) <= c \/ c + SizeOf(h, c) <= b
<1>1. PICK B, s : Whole(h, B, s, A)
  BY DEF Sound
<1>2. Loose(h, B, s, A, {}) /\ Shape(B, s, h.brk) /\ A \subseteq B /\ Typed(h)
  BY <1>1 DEF Whole, Loose
<1>3. h.brk \in Nat /\ h.slabs \in [Slabs -> Nat]
  BY <1>2, TypedIs
<1>4. \A b \in A : /\ b \in Nat /\ b >= 2 /\ b % 2 = 0 /\ Valid(h, b) = 1
                   /\ s[b] \in Nat /\ s[b] >= 2 /\ b + s[b] <= h.brk /\ SizeOf(h, b) = s[b]
  BY <1>2, UsedIs
<1>5. \A b, c \in A : b # c => b + s[b] <= c \/ c + s[c] <= b
  BY <1>2, ShapeIs
<1>6. \A b, c \in A : b # c => b + SizeOf(h, b) <= c \/ c + SizeOf(h, c) <= b
  BY <1>4, <1>5
<1> QED
  BY <1>2, <1>3, <1>4, <1>6

-----------------------------------------------------------------------------
(* Slabs *)

(* Slot n of a slab; all of them have a number. *)
SlotAt(slab, kind, n) == FirstSlot(slab) + n * kind
Numbers == 0 .. NumMaps * Slots - 1
(* The numbers of the slots in use. *)
Taken(h, slab) == {n \in Numbers : n % Slots \in Used(h, slab, n \div Slots)}

(* The slots lie behind the bitmaps, inside the slab, and apart. *)
LEMMA SlotAtIs ==
  ASSUME NEW kind \in Kinds, NEW slab \in Nat
  PROVE  /\ kind \in Nat /\ FirstSlot(slab) = slab + NumMaps
         /\ \A n \in Numbers :
              /\ n \in Nat /\ SlotAt(slab, kind, n) \in Nat /\ slab + NumMaps <= SlotAt(slab, kind, n)
              /\ SlotAt(slab, kind, n) + kind <= slab + SlabPayload(kind)
              /\ (SlotAt(slab, kind, n) - FirstSlot(slab)) \div kind = n
              /\ slab % 2 = 1 => SlotAt(slab, kind, n) % 2 = 1
         /\ \A n, m \in Numbers :
              n # m => \/ SlotAt(slab, kind, n) + kind <= SlotAt(slab, kind, m)
                       \/ SlotAt(slab, kind, m) + kind <= SlotAt(slab, kind, n)
<1> DEFINE p == NumMaps * Slots
<1>1. NumMaps \in Nat \ {0} /\ NumMaps % 2 = 0 /\ p \in Nat /\ SlabPayload(kind) = p * kind + NumMaps
  BY AllocatorAssumption, PayloadIs
<1>2. kind = 2 \/ kind = 4
  BY DEF Kinds
<1>3. FirstSlot(slab) = slab + NumMaps
  BY <1>1 DEF FirstSlot
<1>4. Numbers = 0 .. p - 1
  BY DEF Numbers
<1>5. \A n : SlotAt(slab, kind, n) = slab + NumMaps + n * kind
  BY <1>3 DEF SlotAt
<1> HIDE DEF p
<1>6. ASSUME NEW n \in Numbers
      PROVE  /\ n \in Nat /\ SlotAt(slab, kind, n) \in Nat /\ slab + NumMaps <= SlotAt(slab, kind, n)
             /\ SlotAt(slab, kind, n) + kind <= slab + SlabPayload(kind)
             /\ SlotAt(slab, kind, n) - FirstSlot(slab) = n * kind
  <2>1. n \in Nat /\ n <= p - 1
    BY <1>1, <1>4
  <2>2. CASE kind = 2
    BY <1>1, <1>3, <1>5, <2>1, <2>2
  <2>3. CASE kind = 4
    BY <1>1, <1>3, <1>5, <2>1, <2>3
  <2> QED
    BY <1>2, <2>2, <2>3
<1>7. ASSUME NEW n \in Numbers
      PROVE  /\ (SlotAt(slab, kind, n) - FirstSlot(slab)) \div kind = n
             /\ slab % 2 = 1 => SlotAt(slab, kind, n) % 2 = 1
  <2>1. n \in Nat /\ SlotAt(slab, kind, n) - FirstSlot(slab) = n * kind
    BY <1>6
  <2>2. CASE kind = 2
    BY <1>1, <1>5, <2>1, <2>2
  <2>3. CASE kind = 4
    BY <1>1, <1>5, <2>1, <2>3
  <2> QED
    BY <1>2, <2>2, <2>3
<1>8. ASSUME NEW n \in Numbers, NEW m \in Numbers, n # m
      PROVE  \/ SlotAt(slab, kind, n) + kind <= SlotAt(slab, kind, m)
             \/ SlotAt(slab, kind, m) + kind <= SlotAt(slab, kind, n)
  <2>1. n \in Nat /\ m \in Nat /\ (n < m \/ m < n)
    BY <1>6, <1>8
  <2>2. CASE kind = 2
    BY <1>1, <1>5, <2>1, <2>2
  <2>3. CASE kind = 4
    BY <1>1, <1>5, <2>1, <2>3
  <2> QED
    BY <1>2, <2>2, <2>3
<1>9. kind \in Nat
  BY <1>2
<1> QED
  BY <1>3, <1>6, <1>7, <1>8, <1>9

(* A slab begins with its bitmaps. *)
Bitmapped(h, slab) ==
  \A j \in 0 .. NumMaps - 1 : \E u \in SUBSET (0 .. Slots - 1) : h.mem[slab + j] = Bitmap(u)
(* A slab is in a block of its own, and not empty. *)
SlabSound(h, A, kind, slab) ==
  /\ slab - 1 \in A /\ SizeOf(h, slab - 1) >= SlabPayload(kind) + 2
  /\ Bitmapped(h, slab) /\ Taken(h, slab) # {}
SlabsSound(h, A) ==
  /\ \A s \in Slabs : h.slabs[s] # NULL => SlabSound(h, A, s[1], h.slabs[s])
  /\ \A s, t \in Slabs : h.slabs[s] # NULL /\ h.slabs[s] = h.slabs[t] => s = t
Memory(h, A) == Sound(h, A) /\ SlabsSound(h, A)

(* What is handed out, <<pointer, words>>: the blocks that are no slabs, and *)
(* the slots in use.                                                         *)
BlockCells(h, A) == {<<b + 1, SizeOf(h, b) - 2>> : b \in {a \in A : a + 1 \notin SlabPtrs(h)}}
SlotCells(h, kind, slab) == {<<SlotAt(slab, kind, n), kind>> : n \in Taken(h, slab)}
Cells(h, A) ==
  BlockCells(h, A) \cup
    UNION {SlotCells(h, s[1], h.slabs[s]) : s \in {t \in Slabs : h.slabs[t] # NULL}}

(* A cell is the payload of a block or a slot in use of a slab. *)
LEMMA CellIs ==
  ASSUME NEW h, NEW A, NEW c
  PROVE  c \in Cells(h, A) <=>
           \/ \E b \in A : b + 1 \notin SlabPtrs(h) /\ c = <<b + 1, SizeOf(h, b) - 2>>
           \/ \E s \in Slabs : h.slabs[s] # NULL
                /\ \E n \in Taken(h, h.slabs[s]) : c = <<SlotAt(h.slabs[s], s[1], n), s[1]>>
<1> DEFINE T == {t \in Slabs : h.slabs[t] # NULL}
           S == UNION {SlotCells(h, s[1], h.slabs[s]) : s \in T}
<1>1. c \in BlockCells(h, A) <=>
        \E b \in A : b + 1 \notin SlabPtrs(h) /\ c = <<b + 1, SizeOf(h, b) - 2>>
  BY DEF BlockCells
<1>2. \A kind, slab : c \in SlotCells(h, kind, slab) <=>
        \E n \in Taken(h, slab) : c = <<SlotAt(slab, kind, n), kind>>
  BY DEF SlotCells
<1>3. c \in S <=> \E s \in T : c \in SlotCells(h, s[1], h.slabs[s])
  OBVIOUS
<1>4. c \in S <=> \E s \in Slabs : h.slabs[s] # NULL
                    /\ \E n \in Taken(h, h.slabs[s]) : c = <<SlotAt(h.slabs[s], s[1], n), s[1]>>
  <2>1. \A s : s \in T <=> s \in Slabs /\ h.slabs[s] # NULL
    OBVIOUS
  <2> HIDE DEF S, T
  <2> QED
    BY <1>2, <1>3, <2>1
<1>5. Cells(h, A) = BlockCells(h, A) \cup S
  BY DEF Cells
<1> QED
  BY <1>1, <1>4, <1>5

(* The addresses of the slabs. *)
LEMMA SlabPtrIs ==
  ASSUME NEW h, NEW p
  PROVE  p \in SlabPtrs(h) <=> p # NULL /\ \E s \in Slabs : h.slabs[s] = p
BY DEF SlabPtrs

(* A slab is named by its kind and its place. *)
LEMMA SlabIs ==
  ASSUME NEW s \in Slabs
  PROVE  s[1] \in Kinds /\ s = <<s[1], s[2]>> /\ s[2] \in 0 .. NumSlabs[s[1]] - 1
BY DEF Slabs

(* The block of a slab. *)
LEMMA SlabBlockIs ==
  ASSUME NEW h, NEW A, Memory(h, A), NEW s \in Slabs, h.slabs[s] # NULL
  PROVE  LET slab == h.slabs[s]
             b == slab - 1
         IN  /\ slab \in Nat /\ slab % 2 = 1 /\ b \in A /\ b \in Nat /\ b + 1 = slab
             /\ SizeOf(h, b) \in Nat /\ SizeOf(h, b) >= SlabPayload(s[1]) + 2
             /\ b + SizeOf(h, b) <= h.brk /\ slab \in SlabPtrs(h)
<1>1. Sound(h, A) /\ SlabSound(h, A, s[1], h.slabs[s])
  BY DEF Memory, SlabsSound
<1> DEFINE slab == h.slabs[s]
           b == slab - 1
<1>2. slab \in Nat
  BY <1>1, UsedBlocks
<1>3. b \in A /\ SizeOf(h, b) >= SlabPayload(s[1]) + 2
  BY <1>1 DEF SlabSound
<1> HIDE DEF b
<1>4. b \in Nat /\ b % 2 = 0 /\ SizeOf(h, b) \in Nat /\ b + SizeOf(h, b) <= h.brk
  BY <1>1, <1>3, UsedBlocks
<1>5. b + 1 = slab /\ slab % 2 = 1
  <2>1. b = slab - 1
    BY DEF b
  <2> HIDE DEF slab
  <2> QED
    BY <1>2, <1>4, <2>1
<1>6. slab \in SlabPtrs(h)
  BY DEF SlabPtrs
<1> QED
  BY <1>2, <1>3, <1>4, <1>5, <1>6 DEF b

(* The cell c is a part of the payload of the block b. *)
Within(h, b, c) ==
  /\ c[1] \in Nat /\ c[2] \in Nat /\ c[1] % 2 = 1
  /\ b \in Nat /\ SizeOf(h, b) \in Nat
  /\ b + 1 <= c[1] /\ c[1] + c[2] + 1 <= b + SizeOf(h, b) /\ b + SizeOf(h, b) <= h.brk

(* The payload of a block is in that block. *)
LEMMA BlockWithin ==
  ASSUME NEW h, NEW A, Sound(h, A), NEW b \in A
  PROVE  Within(h, b, <<b + 1, SizeOf(h, b) - 2>>)
BY UsedBlocks DEF Within

(* A slot is in the block of its slab, behind the bitmaps. *)
LEMMA SlotWithin ==
  ASSUME NEW h, NEW A, Memory(h, A), NEW s \in Slabs, h.slabs[s] # NULL, NEW n \in Numbers
  PROVE  /\ Within(h, h.slabs[s] - 1, <<SlotAt(h.slabs[s], s[1], n), s[1]>>)
         /\ h.slabs[s] + NumMaps <= SlotAt(h.slabs[s], s[1], n)
<1> DEFINE slab == h.slabs[s]
           b == slab - 1
           kind == s[1]
           p == SlotAt(slab, kind, n)
<1>1. /\ slab \in Nat /\ slab % 2 = 1 /\ b \in A /\ b \in Nat /\ b + 1 = slab
      /\ SizeOf(h, b) \in Nat /\ SizeOf(h, b) >= SlabPayload(kind) + 2 /\ b + SizeOf(h, b) <= h.brk
  BY SlabBlockIs
<1>2. kind \in Kinds /\ SlabPayload(kind) \in Nat /\ NumMaps \in Nat /\ h.brk \in Nat
  BY SlabIs, PayloadIs, UsedBlocks DEF Memory
<1> HIDE DEF slab, b, kind
<1>3. /\ kind \in Nat /\ p \in Nat /\ slab + NumMaps <= p /\ p + kind <= slab + SlabPayload(kind) /\ p % 2 = 1
  BY <1>1, <1>2, SlotAtIs
<1> HIDE DEF p
<1>4. Within(h, b, <<p, kind>>)
  BY <1>1, <1>2, <1>3 DEF Within
<1> QED
  BY <1>3, <1>4 DEF p, b, slab, kind

(* The block that a cell is in: it is the cell's own, or a slab.             *)
InBlock(h, A, c, b) ==
  /\ b \in A /\ Within(h, b, c)
  /\ \/ b + 1 \notin SlabPtrs(h) /\ c = <<b + 1, SizeOf(h, b) - 2>>
     \/ \E s \in Slabs : /\ h.slabs[s] # NULL /\ b = h.slabs[s] - 1
                         /\ \E n \in Taken(h, h.slabs[s]) : c = <<SlotAt(h.slabs[s], s[1], n), s[1]>>

(* Every cell is in one block in use. *)
LEMMA CellIn ==
  ASSUME NEW h, NEW A, Memory(h, A), NEW c \in Cells(h, A)
  PROVE  \E b \in A : InBlock(h, A, c, b)
<1>1. CASE \E b \in A : b + 1 \notin SlabPtrs(h) /\ c = <<b + 1, SizeOf(h, b) - 2>>
  <2>1. PICK b \in A : b + 1 \notin SlabPtrs(h) /\ c = <<b + 1, SizeOf(h, b) - 2>>
    BY <1>1
  <2>2. Within(h, b, <<b + 1, SizeOf(h, b) - 2>>)
    BY BlockWithin DEF Memory
  <2> QED
    BY <2>1, <2>2 DEF InBlock
<1>2. CASE \E s \in Slabs : h.slabs[s] # NULL
              /\ \E n \in Taken(h, h.slabs[s]) : c = <<SlotAt(h.slabs[s], s[1], n), s[1]>>
  <2>1. PICK s \in Slabs : h.slabs[s] # NULL
              /\ \E n \in Taken(h, h.slabs[s]) : c = <<SlotAt(h.slabs[s], s[1], n), s[1]>>
    BY <1>2
  <2>2. PICK n \in Taken(h, h.slabs[s]) : c = <<SlotAt(h.slabs[s], s[1], n), s[1]>>
    BY <2>1
  <2>3. n \in Numbers
    BY DEF Taken
  <2>4. Within(h, h.slabs[s] - 1, <<SlotAt(h.slabs[s], s[1], n), s[1]>>)
    BY <2>1, <2>3, SlotWithin
  <2>5. h.slabs[s] - 1 \in A
    BY <2>1, SlabBlockIs
  <2>6. Within(h, h.slabs[s] - 1, c)
    BY <2>2, <2>4
  <2> DEFINE b == h.slabs[s] - 1
  <2>7. InBlock(h, A, c, b)
    BY <2>1, <2>5, <2>6 DEF InBlock
  <2> QED
    BY <2>5, <2>7
<1> QED
  BY <1>1, <1>2, CellIs

(* No two cells overlap. *)
Apart(c, d) == c[1] # d[1] /\ (c[1] + c[2] <= d[1] \/ d[1] + d[2] <= c[1])

(* No two cells overlap: blocks are apart, slots are, and slabs are in *)
(* blocks of their own.                                                *)
LEMMA CellsApart ==
  ASSUME NEW h, NEW A, Memory(h, A), NEW c \in Cells(h, A), NEW d \in Cells(h, A), c # d
  PROVE  Apart(c, d)
<1>1. PICK b \in A : InBlock(h, A, c, b)
  BY CellIn
<1>2. PICK e \in A : InBlock(h, A, d, e)
  BY CellIn
<1>3. Within(h, b, c) /\ Within(h, e, d)
  BY <1>1, <1>2 DEF InBlock
<1>4. CASE b # e
  <2>1. b + SizeOf(h, b) <= e \/ e + SizeOf(h, e) <= b
    BY <1>4, UsedBlocks DEF Memory
  <2>2. /\ c[1] \in Nat /\ c[2] \in Nat /\ d[1] \in Nat /\ d[2] \in Nat /\ b \in Nat /\ e \in Nat
        /\ SizeOf(h, b) \in Nat /\ SizeOf(h, e) \in Nat
        /\ b + 1 <= c[1] /\ c[1] + c[2] + 1 <= b + SizeOf(h, b)
        /\ e + 1 <= d[1] /\ d[1] + d[2] + 1 <= e + SizeOf(h, e)
    BY <1>3 DEF Within
  <2> QED
    BY <2>1, <2>2 DEF Apart
<1>5. CASE b = e
  <2>1. b \in Nat
    BY <1>3 DEF Within
  <2>2. CASE b + 1 \notin SlabPtrs(h)
    <3>1. \A s \in Slabs : h.slabs[s] # NULL => b # h.slabs[s] - 1
      <4> SUFFICES ASSUME NEW s \in Slabs, h.slabs[s] # NULL, b = h.slabs[s] - 1 PROVE FALSE
        OBVIOUS
      <4>1. h.slabs[s] - 1 + 1 = h.slabs[s] /\ h.slabs[s] \in SlabPtrs(h)
        BY SlabBlockIs
      <4> QED
        BY <2>2, <4>1
    <3> QED
      BY <1>1, <1>2, <1>5, <3>1 DEF InBlock
  <2>3. CASE b + 1 \in SlabPtrs(h)
    <3>1. PICK s \in Slabs : /\ h.slabs[s] # NULL /\ b = h.slabs[s] - 1
                             /\ \E n \in Taken(h, h.slabs[s]) : c = <<SlotAt(h.slabs[s], s[1], n), s[1]>>
      BY <1>1, <2>3 DEF InBlock
    <3>2. PICK t \in Slabs : /\ h.slabs[t] # NULL /\ b = h.slabs[t] - 1
                             /\ \E n \in Taken(h, h.slabs[t]) : d = <<SlotAt(h.slabs[t], t[1], n), t[1]>>
      BY <1>2, <1>5, <2>3 DEF InBlock
    <3>3. h.slabs[s] = b + 1 /\ h.slabs[t] = b + 1
      BY <3>1, <3>2, SlabBlockIs
    <3>4. s = t
      BY <3>1, <3>3 DEF Memory, SlabsSound
    <3>5. PICK n \in Taken(h, h.slabs[s]) : c = <<SlotAt(h.slabs[s], s[1], n), s[1]>>
      BY <3>1
    <3>6. PICK m \in Taken(h, h.slabs[s]) : d = <<SlotAt(h.slabs[s], s[1], m), s[1]>>
      BY <3>2, <3>4
    <3> DEFINE slab == h.slabs[s]
               kind == s[1]
    <3>7. n # m /\ n \in Numbers /\ m \in Numbers /\ kind \in Kinds /\ slab \in Nat
      BY <2>1, <3>3, <3>5, <3>6, SlabIs DEF Taken
    <3>8. /\ c[1] = SlotAt(slab, kind, n) /\ c[2] = kind /\ d[1] = SlotAt(slab, kind, m) /\ d[2] = kind
      BY <3>5, <3>6
    <3> HIDE DEF slab, kind
    <3>9. /\ SlotAt(slab, kind, n) \in Nat /\ SlotAt(slab, kind, m) \in Nat /\ kind \in Nat /\ kind > 0
          /\ \/ SlotAt(slab, kind, n) + kind <= SlotAt(slab, kind, m)
             \/ SlotAt(slab, kind, m) + kind <= SlotAt(slab, kind, n)
      <4>1. kind > 0
        BY <3>7 DEF Kinds
      <4> QED
        BY <3>7, <4>1, SlotAtIs
    <3> QED
      BY <3>8, <3>9 DEF Apart
  <2> QED
    BY <2>2, <2>3
<1> QED
  BY <1>4, <1>5

(* The words of the block b are the same. *)
Same(g, h, b) == \A a \in b .. b + SizeOf(h, b) - 1 : g.mem[a] = h.mem[a]

(* A slab whose words are the same has the same slots in use. *)
LEMMA SlabKept ==
  ASSUME NEW h, NEW A, Memory(h, A), NEW s \in Slabs, h.slabs[s] # NULL, NEW g, NEW V,
         h.slabs[s] - 1 \in V, Same(g, h, h.slabs[s] - 1)
  PROVE  SlabSound(g, V, s[1], h.slabs[s]) /\ Taken(g, h.slabs[s]) = Taken(h, h.slabs[s])
<1> DEFINE slab == h.slabs[s]
           b == slab - 1
           kind == s[1]
<1>1. /\ slab \in Nat /\ b \in A /\ b \in Nat /\ b + 1 = slab
      /\ SizeOf(h, b) \in Nat /\ SizeOf(h, b) >= SlabPayload(kind) + 2
  BY SlabBlockIs
<1>2. SlabSound(h, A, kind, slab) /\ kind \in Kinds
  BY SlabIs DEF Memory, SlabsSound
<1>3. SlabPayload(kind) \in Nat /\ SlabPayload(kind) >= NumMaps /\ NumMaps \in Nat
  <2>1. kind \in {2, 4} /\ NumMaps \in Nat /\ NumMaps * Slots \in Nat
        /\ SlabPayload(kind) = (NumMaps * Slots) * kind + NumMaps
    BY <1>2, PayloadIs DEF Kinds
  <2> DEFINE p == NumMaps * Slots
  <2> HIDE DEF p, kind
  <2> QED
    BY <2>1 DEF p
<1>4. Same(g, h, b) /\ b \in V
  OBVIOUS
<1> HIDE DEF slab, b, kind
<1>5. SizeOf(g, b) = SizeOf(h, b)
  <2>1. b \in b .. b + SizeOf(h, b) - 1
    BY <1>1, <1>3
  <2>2. g.mem[b] = h.mem[b]
    BY <1>4, <2>1 DEF Same
  <2> QED
    BY <2>2 DEF SizeOf
<1>6. \A j \in 0 .. NumMaps - 1 : g.mem[slab + j] = h.mem[slab + j]
  <2> SUFFICES ASSUME NEW j \in 0 .. NumMaps - 1 PROVE g.mem[slab + j] = h.mem[slab + j]
    OBVIOUS
  <2>1. slab + j \in b .. b + SizeOf(h, b) - 1
    BY <1>1, <1>3
  <2> QED
    BY <1>4, <2>1 DEF Same
<1>7. Bitmapped(g, slab)
  BY <1>2, <1>6 DEF SlabSound, Bitmapped
<1>8. Taken(g, slab) = Taken(h, slab)
  <2>1. \A n \in Numbers : Used(g, slab, n \div Slots) = Used(h, slab, n \div Slots)
    <3> SUFFICES ASSUME NEW n \in Numbers
                 PROVE  Used(g, slab, n \div Slots) = Used(h, slab, n \div Slots)
      OBVIOUS
    <3>1. n \div Slots \in 0 .. NumMaps - 1
      BY NumberedSlots DEF Numbers
    <3> QED
      BY <1>6, <3>1 DEF Used
  <2> QED
    BY <2>1 DEF Taken
<1>9. SlabSound(g, V, kind, slab)
  <2>1. slab - 1 = b
    BY DEF b
  <2> QED
    BY <1>2, <1>4, <1>5, <1>7, <1>8, <2>1 DEF SlabSound
<1> QED
  BY <1>8, <1>9 DEF slab, kind

(* The words of the cells C are the same. *)
Unmoved(g, h, C) == \A c \in C : \A a \in c[1] .. c[1] + c[2] - 1 : g.mem[a] = h.mem[a]

(* The cells that are blocks of their own are not among those of U, which    *)
(* has the blocks of all slabs.                                              *)
OwnCells(h, U) == {<<b + 1, SizeOf(h, b) - 2>> : b \in U}
LEMMA OwnApart ==
  ASSUME NEW h, NEW A, Memory(h, A), NEW U, U \subseteq A,
         \A s \in Slabs : h.slabs[s] # NULL => h.slabs[s] - 1 \in U
  PROVE  Cells(h, U) \cap OwnCells(h, A \ U) = {}
<1> SUFFICES ASSUME NEW b \in A \ U, NEW c \in Cells(h, U), c = <<b + 1, SizeOf(h, b) - 2>>
             PROVE  FALSE
  BY DEF OwnCells
<1>1. b \in Nat /\ c[1] = b + 1
  BY UsedBlocks DEF Memory
<1>2. CASE \E d \in U : d + 1 \notin SlabPtrs(h) /\ c = <<d + 1, SizeOf(h, d) - 2>>
  <2>1. PICK d \in U : c = <<d + 1, SizeOf(h, d) - 2>>
    BY <1>2
  <2>2. d \in Nat /\ d + 1 = b + 1
    BY <1>1, <2>1, UsedBlocks DEF Memory
  <2> QED
    BY <1>1, <2>2
<1>3. CASE \E s \in Slabs : h.slabs[s] # NULL
             /\ \E n \in Taken(h, h.slabs[s]) : c = <<SlotAt(h.slabs[s], s[1], n), s[1]>>
  <2>1. PICK s \in Slabs : h.slabs[s] # NULL
             /\ \E n \in Taken(h, h.slabs[s]) : c = <<SlotAt(h.slabs[s], s[1], n), s[1]>>
    BY <1>3
  <2>2. PICK n \in Numbers : c = <<SlotAt(h.slabs[s], s[1], n), s[1]>>
    BY <2>1 DEF Taken
  <2> DEFINE e == h.slabs[s] - 1
  <2>3. Within(h, e, <<SlotAt(h.slabs[s], s[1], n), s[1]>>) /\ h.slabs[s] + NumMaps <= SlotAt(h.slabs[s], s[1], n)
    BY <2>1, SlotWithin
  <2>4. e \in Nat /\ e + 1 = h.slabs[s] /\ NumMaps \in Nat /\ NumMaps > 0
    BY <2>1, SlabBlockIs, AllocatorAssumption
  <2>5. Within(h, e, c) /\ e + 1 + NumMaps <= c[1] /\ e \in U
    BY <2>1, <2>2, <2>3, <2>4
  <2> HIDE DEF e
  <2>6. c[1] \in Nat /\ c[2] \in Nat /\ SizeOf(h, e) \in Nat /\ c[1] + c[2] + 1 <= e + SizeOf(h, e)
    BY <2>5 DEF Within
  <2>7. e < b /\ b < e + SizeOf(h, e)
    BY <1>1, <2>4, <2>5, <2>6
  <2>8. b \in A /\ e \in A /\ e # b /\ SizeOf(h, b) \in Nat /\ SizeOf(h, b) >= 2
    BY <2>5, UsedBlocks DEF Memory
  <2>9. b + SizeOf(h, b) <= e \/ e + SizeOf(h, e) <= b
    BY <2>8, UsedBlocks DEF Memory
  <2> QED
    BY <1>1, <2>4, <2>6, <2>7, <2>8, <2>9
<1> QED
  BY <1>2, <1>3, CellIs

(* From h to g the blocks U and all slabs are kept, and V are now in use.   *)
Renews(g, h, A, V, U) ==
  /\ Memory(g, V) /\ g.slabs = h.slabs /\ h.brk <= g.brk
  /\ Cells(g, V) = Cells(h, U) \cup OwnCells(g, V \ U)
  /\ Cells(h, A) = Cells(h, U) \cup OwnCells(h, A \ U)
  /\ Cells(h, U) \cap OwnCells(g, V \ U) = {} /\ Cells(h, U) \cap OwnCells(h, A \ U) = {}
  /\ Unmoved(g, h, Cells(h, U))

(* A step that touches neither the blocks U nor any slab keeps their cells. *)
LEMMA RenewsIs ==
  ASSUME NEW h, NEW A, Memory(h, A), NEW g, NEW V, NEW U, Sound(g, V), Kept(g, h, U),
         U \subseteq A, U \subseteq V, \A s \in Slabs : h.slabs[s] # NULL => h.slabs[s] - 1 \in U
  PROVE  Renews(g, h, A, V, U)
<1>1. g.slabs = h.slabs /\ h.brk <= g.brk /\ \A b \in U : Same(g, h, b)
  BY DEF Kept, Same
<1>2. \A b \in U : SizeOf(g, b) = SizeOf(h, b)
  <2> SUFFICES ASSUME NEW b \in U PROVE SizeOf(g, b) = SizeOf(h, b)
    OBVIOUS
  <2>1. b \in b .. b + SizeOf(h, b) - 1
    BY UsedBlocks DEF Memory
  <2> QED
    BY <1>1, <2>1 DEF Same, SizeOf
<1>3. \A s \in Slabs : h.slabs[s] # NULL =>
        SlabSound(g, V, s[1], h.slabs[s]) /\ Taken(g, h.slabs[s]) = Taken(h, h.slabs[s])
  <2> SUFFICES ASSUME NEW s \in Slabs, h.slabs[s] # NULL
               PROVE  SlabSound(g, V, s[1], h.slabs[s]) /\ Taken(g, h.slabs[s]) = Taken(h, h.slabs[s])
    OBVIOUS
  <2>1. h.slabs[s] - 1 \in V /\ Same(g, h, h.slabs[s] - 1)
    BY <1>1
  <2> QED
    BY <2>1, SlabKept
<1>4. Memory(g, V)
  BY <1>1, <1>3 DEF Memory, SlabsSound
<1>5. SlabPtrs(g) = SlabPtrs(h)
  BY <1>1 DEF SlabPtrs
<1>6. ASSUME NEW b, b + 1 \in SlabPtrs(h), b \in A \/ b \in V PROVE b \in U
  <2>1. PICK s \in Slabs : h.slabs[s] = b + 1 /\ h.slabs[s] # NULL
    BY <1>6, SlabPtrIs
  <2>2. b \in Nat
    BY <1>4, <1>6, UsedBlocks DEF Memory
  <2>3. h.slabs[s] - 1 = b
    BY <2>1, <2>2
  <2> QED
    BY <2>1, <2>3
<1>7. ASSUME NEW c
      PROVE  c \in Cells(g, V) <=> c \in Cells(h, U) \cup OwnCells(g, V \ U)
  <2>1. (\E b \in V : b + 1 \notin SlabPtrs(g) /\ c = <<b + 1, SizeOf(g, b) - 2>>)
          <=> \/ \E b \in U : b + 1 \notin SlabPtrs(h) /\ c = <<b + 1, SizeOf(h, b) - 2>>
              \/ \E b \in V \ U : c = <<b + 1, SizeOf(g, b) - 2>>
    BY <1>2, <1>5, <1>6
  <2>2. (\E s \in Slabs : g.slabs[s] # NULL
           /\ \E n \in Taken(g, g.slabs[s]) : c = <<SlotAt(g.slabs[s], s[1], n), s[1]>>)
          <=> (\E s \in Slabs : h.slabs[s] # NULL
                 /\ \E n \in Taken(h, h.slabs[s]) : c = <<SlotAt(h.slabs[s], s[1], n), s[1]>>)
    BY <1>1, <1>3
  <2>3. c \in Cells(g, V) <=>
          \/ \E b \in V : b + 1 \notin SlabPtrs(g) /\ c = <<b + 1, SizeOf(g, b) - 2>>
          \/ \E s \in Slabs : g.slabs[s] # NULL
               /\ \E n \in Taken(g, g.slabs[s]) : c = <<SlotAt(g.slabs[s], s[1], n), s[1]>>
    BY CellIs
  <2>4. c \in Cells(h, U) <=>
          \/ \E b \in U : b + 1 \notin SlabPtrs(h) /\ c = <<b + 1, SizeOf(h, b) - 2>>
          \/ \E s \in Slabs : h.slabs[s] # NULL
               /\ \E n \in Taken(h, h.slabs[s]) : c = <<SlotAt(h.slabs[s], s[1], n), s[1]>>
    BY CellIs
  <2>5. c \in OwnCells(g, V \ U) <=> \E b \in V \ U : c = <<b + 1, SizeOf(g, b) - 2>>
    BY DEF OwnCells
  <2> QED
    BY <2>1, <2>2, <2>3, <2>4, <2>5
<1>8. ASSUME NEW c
      PROVE  c \in Cells(h, A) <=> c \in Cells(h, U) \cup OwnCells(h, A \ U)
  <2>1. (\E b \in A : b + 1 \notin SlabPtrs(h) /\ c = <<b + 1, SizeOf(h, b) - 2>>)
          <=> \/ \E b \in U : b + 1 \notin SlabPtrs(h) /\ c = <<b + 1, SizeOf(h, b) - 2>>
              \/ \E b \in A \ U : c = <<b + 1, SizeOf(h, b) - 2>>
    BY <1>6
  <2> QED
    BY <2>1, CellIs DEF OwnCells
<1>9. Unmoved(g, h, Cells(h, U))
  <2> SUFFICES ASSUME NEW c \in Cells(h, U), NEW a \in c[1] .. c[1] + c[2] - 1
               PROVE  g.mem[a] = h.mem[a]
    BY DEF Unmoved
  <2>1. \E b \in U : Within(h, b, c)
    <3>1. CASE \E b \in U : b + 1 \notin SlabPtrs(h) /\ c = <<b + 1, SizeOf(h, b) - 2>>
      BY <3>1, BlockWithin DEF Memory
    <3>2. CASE \E s \in Slabs : h.slabs[s] # NULL
                 /\ \E n \in Taken(h, h.slabs[s]) : c = <<SlotAt(h.slabs[s], s[1], n), s[1]>>
      <4>1. PICK s \in Slabs : h.slabs[s] # NULL
                 /\ \E n \in Taken(h, h.slabs[s]) : c = <<SlotAt(h.slabs[s], s[1], n), s[1]>>
        BY <3>2
      <4>2. PICK n \in Numbers : c = <<SlotAt(h.slabs[s], s[1], n), s[1]>>
        BY <4>1 DEF Taken
      <4>3. Within(h, h.slabs[s] - 1, <<SlotAt(h.slabs[s], s[1], n), s[1]>>)
        BY <4>1, SlotWithin
      <4>4. Within(h, h.slabs[s] - 1, c)
        BY <4>2, <4>3
      <4> QED
        BY <4>1, <4>4
    <3> QED
      BY <3>1, <3>2, CellIs
  <2>2. PICK b \in U : Within(h, b, c)
    BY <2>1
  <2>3. a \in b .. b + SizeOf(h, b) - 1
    BY <2>2 DEF Within
  <2> QED
    BY <1>1, <2>3 DEF Same
<1>10. Cells(g, U) = Cells(h, U)
  <2> SUFFICES ASSUME NEW c PROVE c \in Cells(g, U) <=> c \in Cells(h, U)
    OBVIOUS
  <2>1. (\E b \in U : b + 1 \notin SlabPtrs(g) /\ c = <<b + 1, SizeOf(g, b) - 2>>)
          <=> \E b \in U : b + 1 \notin SlabPtrs(h) /\ c = <<b + 1, SizeOf(h, b) - 2>>
    BY <1>2, <1>5
  <2>2. (\E s \in Slabs : g.slabs[s] # NULL
           /\ \E n \in Taken(g, g.slabs[s]) : c = <<SlotAt(g.slabs[s], s[1], n), s[1]>>)
          <=> (\E s \in Slabs : h.slabs[s] # NULL
                 /\ \E n \in Taken(h, h.slabs[s]) : c = <<SlotAt(h.slabs[s], s[1], n), s[1]>>)
    BY <1>1, <1>3
  <2>3. c \in Cells(g, U) <=>
          \/ \E b \in U : b + 1 \notin SlabPtrs(g) /\ c = <<b + 1, SizeOf(g, b) - 2>>
          \/ \E s \in Slabs : g.slabs[s] # NULL
               /\ \E n \in Taken(g, g.slabs[s]) : c = <<SlotAt(g.slabs[s], s[1], n), s[1]>>
    BY CellIs
  <2>4. c \in Cells(h, U) <=>
          \/ \E b \in U : b + 1 \notin SlabPtrs(h) /\ c = <<b + 1, SizeOf(h, b) - 2>>
          \/ \E s \in Slabs : h.slabs[s] # NULL
               /\ \E n \in Taken(h, h.slabs[s]) : c = <<SlotAt(h.slabs[s], s[1], n), s[1]>>
    BY CellIs
  <2> QED
    BY <2>1, <2>2, <2>3, <2>4
<1>11. Cells(h, U) \cap OwnCells(g, V \ U) = {} /\ Cells(h, U) \cap OwnCells(h, A \ U) = {}
  <2>1. Cells(g, U) \cap OwnCells(g, V \ U) = {}
    BY <1>1, <1>4, OwnApart
  <2> QED
    BY <1>10, <2>1, OwnApart
<1> QED
  BY <1>1, <1>4, <1>7, <1>8, <1>9, <1>11 DEF Renews

(* The cells of a heap in order. *)
Holds(h, C) == \E A : Memory(h, A) /\ C = Cells(h, A)
(* The cell c is given up, or one of n words at least is new; the others     *)
(* keep their words.                                                         *)
Frees(g, h, C, c) == Holds(g, C \ {c}) /\ Unmoved(g, h, C \ {c}) /\ g.brk = h.brk
Allocates(r, h, C, n) ==
  \E c : /\ c \notin C /\ c[1] = r.ptr /\ c[2] \in Nat /\ c[2] >= n
         /\ Holds(r.heap, C \cup {c}) /\ Unmoved(r.heap, h, C) /\ h.brk <= r.heap.brk

(* free of a block gives up one cell. *)
LEMMA BlockFrees ==
  ASSUME NEW h, NEW A, Memory(h, A), NEW b \in A, b + 1 \notin SlabPtrs(h), h.brk <= MaxHeap + 1
  PROVE  Frees(BlockFree(h, b), h, Cells(h, A), <<b + 1, SizeOf(h, b) - 2>>)
<1> DEFINE g == BlockFree(h, b)
           c == <<b + 1, SizeOf(h, b) - 2>>
           U == A \ {b}
<1>1. Turns(g, h, U, U) /\ SameBreak(g, h)
  BY BlockFreeIs DEF Memory
<1> HIDE DEF g
<1>2. Sound(g, U) /\ Kept(g, h, U) /\ g.brk = h.brk
  BY <1>1 DEF Turns, SameBreak
<1>3. U \subseteq A /\ U \subseteq U /\ \A s \in Slabs : h.slabs[s] # NULL => h.slabs[s] - 1 \in U
  <2> SUFFICES ASSUME NEW s \in Slabs, h.slabs[s] # NULL PROVE h.slabs[s] - 1 \in U
    OBVIOUS
  <2>1. h.slabs[s] - 1 \in A /\ h.slabs[s] - 1 + 1 = h.slabs[s] /\ h.slabs[s] \in SlabPtrs(h)
    BY SlabBlockIs
  <2> QED
    BY <2>1
<1>4. U \ U = {} /\ A \ U = {b} /\ OwnCells(g, {}) = {} /\ OwnCells(h, {b}) = {c}
  BY DEF OwnCells
<1> HIDE DEF U, c
<1>5. Renews(g, h, A, U, U)
  BY <1>2, <1>3, RenewsIs
<1>6. /\ Memory(g, U) /\ Cells(g, U) = Cells(h, U) /\ Cells(h, A) = Cells(h, U) \cup {c}
      /\ c \notin Cells(h, U) /\ Unmoved(g, h, Cells(h, U))
  BY <1>4, <1>5 DEF Renews
<1>7. Cells(h, A) \ {c} = Cells(h, U)
  BY <1>6
<1>8. Frees(g, h, Cells(h, A), c)
  BY <1>2, <1>6, <1>7 DEF Frees, Holds
<1> QED
  BY <1>8 DEF g, c

(* malloc of a block: the block that it gives is a cell of its own. *)
BlockGiven(r, h, A, b, n) ==
  /\ b \in Nat /\ b \notin A /\ r.ptr = b + 1 /\ SizeOf(r.heap, b) = n
  /\ Renews(r.heap, h, A, A \cup {b}, A)

(* What malloc of a block gives was not in use. *)
LEMMA BlockMallocGives ==
  ASSUME NEW h, NEW A, Memory(h, A), NEW r, NEW n, Gives(r, h, A, n)
  PROVE  \E b : BlockGiven(r, h, A, b, n)
<1>1. PICK b \in Nat : /\ b \notin A /\ r.ptr = b + 1
                       /\ Turns(r.heap, h, A \cup {b}, A) /\ SizeOf(r.heap, b) = n
  BY DEF Gives
<1> DEFINE V == A \cup {b}
           g == r.heap
<1>2. Sound(g, V) /\ Kept(g, h, A)
  BY <1>1 DEF Turns
<1>3. A \subseteq A /\ A \subseteq V /\ \A s \in Slabs : h.slabs[s] # NULL => h.slabs[s] - 1 \in A
  <2> SUFFICES ASSUME NEW s \in Slabs, h.slabs[s] # NULL PROVE h.slabs[s] - 1 \in A
    OBVIOUS
  <2> QED
    BY SlabBlockIs
<1> HIDE DEF V, g
<1>4. Renews(g, h, A, V, A)
  BY <1>2, <1>3, RenewsIs
<1> QED
  BY <1>1, <1>4 DEF BlockGiven, V, g

(* malloc of a block gives one more cell. *)
LEMMA BlockAllocates ==
  ASSUME NEW h, NEW A, Memory(h, A), h.brk <= MaxHeap + 1, NEW size \in Requests
  PROVE  Allocates(BlockMalloc(h, size), h, Cells(h, A), BlockSize(size) - 2)
<1> DEFINE r == BlockMalloc(h, size)
           n == BlockSize(size)
<1>1. Gives(r, h, A, n)
  BY BlockMallocIs DEF Memory
<1>2. n \in Nat /\ n >= 4
  BY RequestIs
<1> HIDE DEF r, n
<1>3. PICK b : BlockGiven(r, h, A, b, n)
  BY <1>1, BlockMallocGives
<1> DEFINE c == <<b + 1, SizeOf(r.heap, b) - 2>>
<1>4. (A \cup {b}) \ A = {b} /\ OwnCells(r.heap, {b}) = {c} /\ c[1] = r.ptr /\ c[2] = n - 2
  BY <1>3 DEF BlockGiven, OwnCells
<1> HIDE DEF c
<1>5. /\ Memory(r.heap, A \cup {b}) /\ Cells(r.heap, A \cup {b}) = Cells(h, A) \cup {c}
      /\ c \notin Cells(h, A) /\ Unmoved(r.heap, h, Cells(h, A)) /\ h.brk <= r.heap.brk
  BY <1>3, <1>4 DEF BlockGiven, Renews
<1>6. Allocates(r, h, Cells(h, A), n - 2)
  <2>1. c[2] \in Nat /\ c[2] >= n - 2
    BY <1>2, <1>4
  <2> QED
    BY <1>4, <1>5, <2>1 DEF Allocates, Holds
<1> QED
  BY <1>6 DEF r, n

-----------------------------------------------------------------------------
(* The cells in one block, and those in the others. *)

(* The cell c is the block b itself, or a slot of the slab s. *)
FromBlock(h, b, c) == b + 1 \notin SlabPtrs(h) /\ c = <<b + 1, SizeOf(h, b) - 2>>
FromSlab(h, s, c) ==
  h.slabs[s] # NULL /\ \E n \in Taken(h, h.slabs[s]) : c = <<SlotAt(h.slabs[s], s[1], n), s[1]>>
OfBlock(h, b) ==
  {c \in Cells(h, {b}) : FromBlock(h, b, c) \/ \E s \in Slabs : h.slabs[s] = b + 1 /\ FromSlab(h, s, c)}
Others(h, A, b) ==
  {c \in Cells(h, A) : \/ \E d \in A \ {b} : FromBlock(h, d, c)
                       \/ \E s \in Slabs : h.slabs[s] # b + 1 /\ FromSlab(h, s, c)}

(* The cells in the block b. *)
LEMMA OfBlockIs ==
  ASSUME NEW h, NEW b, NEW c
  PROVE  c \in OfBlock(h, b) <=>
           FromBlock(h, b, c) \/ \E s \in Slabs : h.slabs[s] = b + 1 /\ FromSlab(h, s, c)
<1>1. c \in Cells(h, {b}) <=>
           \/ \E e \in {b} : e + 1 \notin SlabPtrs(h) /\ c = <<e + 1, SizeOf(h, e) - 2>>
           \/ \E s \in Slabs : h.slabs[s] # NULL
                /\ \E n \in Taken(h, h.slabs[s]) : c = <<SlotAt(h.slabs[s], s[1], n), s[1]>>
  BY CellIs
<1> QED
  BY <1>1 DEF OfBlock, FromBlock, FromSlab

(* The cells in other blocks. *)
LEMMA OthersAre ==
  ASSUME NEW h, NEW A, NEW b, NEW c
  PROVE  c \in Others(h, A, b) <=>
           \/ \E d \in A \ {b} : FromBlock(h, d, c)
           \/ \E s \in Slabs : h.slabs[s] # b + 1 /\ FromSlab(h, s, c)
<1>1. c \in Cells(h, A) <=>
           \/ \E e \in A : e + 1 \notin SlabPtrs(h) /\ c = <<e + 1, SizeOf(h, e) - 2>>
           \/ \E s \in Slabs : h.slabs[s] # NULL
                /\ \E n \in Taken(h, h.slabs[s]) : c = <<SlotAt(h.slabs[s], s[1], n), s[1]>>
  BY CellIs
<1> QED
  BY <1>1 DEF Others, FromBlock, FromSlab

(* Where a cell lies. *)
LEMMA FromWithin ==
  ASSUME NEW h, NEW A, Memory(h, A), NEW c
  PROVE  /\ \A d \in A : FromBlock(h, d, c) => Within(h, d, c)
         /\ \A s \in Slabs : FromSlab(h, s, c) =>
              h.slabs[s] - 1 \in A /\ h.slabs[s] - 1 + 1 = h.slabs[s] /\ Within(h, h.slabs[s] - 1, c)
<1>1. ASSUME NEW d \in A, FromBlock(h, d, c) PROVE Within(h, d, c)
  <2>1. Within(h, d, <<d + 1, SizeOf(h, d) - 2>>)
    BY BlockWithin DEF Memory
  <2> QED
    BY <1>1, <2>1 DEF FromBlock
<1>2. ASSUME NEW s \in Slabs, FromSlab(h, s, c)
      PROVE  h.slabs[s] - 1 \in A /\ h.slabs[s] - 1 + 1 = h.slabs[s] /\ Within(h, h.slabs[s] - 1, c)
  <2>1. h.slabs[s] # NULL
    BY <1>2 DEF FromSlab
  <2>2. PICK n \in Numbers : c = <<SlotAt(h.slabs[s], s[1], n), s[1]>>
    BY <1>2 DEF FromSlab, Taken
  <2>3. Within(h, h.slabs[s] - 1, <<SlotAt(h.slabs[s], s[1], n), s[1]>>)
    BY <2>1, SlotWithin
  <2>4. h.slabs[s] - 1 \in A /\ h.slabs[s] - 1 + 1 = h.slabs[s]
    BY <2>1, SlabBlockIs
  <2>5. Within(h, h.slabs[s] - 1, c)
    BY <2>2, <2>3
  <2> QED
    BY <2>4, <2>5
<1> QED
  BY <1>1, <1>2

(* No cell lies within two blocks. *)
LEMMA WithinOne ==
  ASSUME NEW h, NEW A, Sound(h, A), NEW b \in A, NEW d \in A, NEW c, Within(h, b, c), Within(h, d, c)
  PROVE  b = d
<1> SUFFICES ASSUME b # d PROVE FALSE
  OBVIOUS
<1>1. b + SizeOf(h, b) <= d \/ d + SizeOf(h, d) <= b
  BY UsedBlocks
<1> QED
  BY <1>1 DEF Within

(* The cells are those in the block b and those in others. *)
LEMMA CellsSplit ==
  ASSUME NEW h, NEW A, Memory(h, A), NEW b \in A
  PROVE  /\ Cells(h, A) = Others(h, A, b) \cup OfBlock(h, b)
         /\ Others(h, A, b) \cap OfBlock(h, b) = {}
         /\ \A c \in Others(h, A, b) : \E d \in A \ {b} : Within(h, d, c)
<1>1. Sound(h, A)
  BY DEF Memory
<1>2. ASSUME NEW c
      PROVE  c \in Cells(h, A) <=> c \in Others(h, A, b) \/ c \in OfBlock(h, b)
  <2>1. c \in Cells(h, A) <=>
           (\E e \in A : FromBlock(h, e, c)) \/ (\E s \in Slabs : FromSlab(h, s, c))
    <3>1. c \in Cells(h, A) <=>
             \/ \E e \in A : e + 1 \notin SlabPtrs(h) /\ c = <<e + 1, SizeOf(h, e) - 2>>
             \/ \E s \in Slabs : h.slabs[s] # NULL
                  /\ \E n \in Taken(h, h.slabs[s]) : c = <<SlotAt(h.slabs[s], s[1], n), s[1]>>
      BY CellIs
    <3> QED
      BY <3>1 DEF FromBlock, FromSlab
  <2> QED
    BY <2>1, OthersAre, OfBlockIs
<1>3. ASSUME NEW c \in Others(h, A, b) PROVE \E d \in A \ {b} : Within(h, d, c)
  <2>1. CASE \E d \in A \ {b} : FromBlock(h, d, c)
    BY <2>1, FromWithin
  <2>2. CASE \E s \in Slabs : h.slabs[s] # b + 1 /\ FromSlab(h, s, c)
    <3>1. PICK s \in Slabs : h.slabs[s] # b + 1 /\ FromSlab(h, s, c)
      BY <2>2
    <3> DEFINE d == h.slabs[s] - 1
    <3>2. d \in A /\ d + 1 = h.slabs[s] /\ Within(h, d, c)
      BY <3>1, FromWithin
    <3> HIDE DEF d
    <3> QED
      BY <3>1, <3>2
  <2> QED
    BY <2>1, <2>2, OthersAre
<1>4. ASSUME NEW c \in OfBlock(h, b) PROVE Within(h, b, c)
  <2>1. CASE FromBlock(h, b, c)
    BY <2>1, FromWithin
  <2>2. CASE \E s \in Slabs : h.slabs[s] = b + 1 /\ FromSlab(h, s, c)
    <3>1. PICK s \in Slabs : h.slabs[s] = b + 1 /\ FromSlab(h, s, c)
      BY <2>2
    <3>2. Within(h, h.slabs[s] - 1, c) /\ b \in Nat
      BY <1>1, <3>1, FromWithin, UsedBlocks
    <3>3. h.slabs[s] - 1 = b
      BY <3>1, <3>2
    <3> QED
      BY <3>2, <3>3
  <2> QED
    BY <2>1, <2>2, OfBlockIs
<1>5. Others(h, A, b) \cap OfBlock(h, b) = {}
  <2> SUFFICES ASSUME NEW c \in Others(h, A, b), c \in OfBlock(h, b) PROVE FALSE
    OBVIOUS
  <2>1. PICK d \in A \ {b} : Within(h, d, c)
    BY <1>3
  <2> QED
    BY <1>1, <1>4, <2>1, WithinOne
<1> QED
  BY <1>2, <1>3, <1>5

(* Only the block b and its use as a slab are changed. *)
Reused(g, h, A, b) ==
  /\ Touched(g, h, A, b)
  /\ \A t \in Slabs : \/ g.slabs[t] = h.slabs[t]
                      \/ g.slabs[t] \in {NULL, b + 1} /\ h.slabs[t] \in {NULL, b + 1}
  /\ \A t \in Slabs : g.slabs[t] = b + 1 => SlabSound(g, A, t[1], b + 1)
  /\ \A s, t \in Slabs : g.slabs[s] = b + 1 /\ g.slabs[t] = b + 1 => s = t
OthersKept(g, h, A, b) ==
  /\ Memory(g, A) /\ Others(g, A, b) = Others(h, A, b)
  /\ Unmoved(g, h, Others(h, A, b)) /\ g.brk = h.brk

(* A change inside of one block keeps the cells in all others. *)
LEMMA ReusedIs ==
  ASSUME NEW h, NEW A, Memory(h, A), NEW b \in A, NEW g, Reused(g, h, A, b)
  PROVE  OthersKept(g, h, A, b)
<1>1. Sound(h, A) /\ Sound(g, A) /\ g.brk = h.brk /\ b \in Nat /\ b >= 2 /\ b + 1 # NULL
  BY UsedBlocks DEF Memory, Reused, Touched, NULL
<1>2. \A d \in A \ {b} : Same(g, h, d)
  BY DEF Reused, Touched, Same
<1>3. \A d \in A : SizeOf(g, d) = SizeOf(h, d)
  BY DEF Reused, Touched
<1>4. ASSUME NEW t \in Slabs, g.slabs[t] # NULL, g.slabs[t] # b + 1
      PROVE  /\ h.slabs[t] = g.slabs[t]
             /\ SlabSound(g, A, t[1], g.slabs[t]) /\ Taken(g, g.slabs[t]) = Taken(h, h.slabs[t])
  <2>1. h.slabs[t] = g.slabs[t]
    BY <1>4 DEF Reused
  <2>2. h.slabs[t] - 1 \in A /\ h.slabs[t] - 1 + 1 = h.slabs[t]
    BY <1>4, <2>1, SlabBlockIs
  <2>3. h.slabs[t] - 1 # b
    BY <1>4, <2>1, <2>2
  <2>4. Same(g, h, h.slabs[t] - 1)
    BY <1>2, <2>2, <2>3
  <2> QED
    BY <1>4, <2>1, <2>2, <2>4, SlabKept
<1>5. ASSUME NEW t \in Slabs, h.slabs[t] # NULL, h.slabs[t] # b + 1
      PROVE  g.slabs[t] = h.slabs[t]
  BY <1>5 DEF Reused
<1>6. Memory(g, A)
  <2>1. \A t \in Slabs : g.slabs[t] # NULL => SlabSound(g, A, t[1], g.slabs[t])
    <3> SUFFICES ASSUME NEW t \in Slabs, g.slabs[t] # NULL PROVE SlabSound(g, A, t[1], g.slabs[t])
      OBVIOUS
    <3>1. CASE g.slabs[t] = b + 1
      BY <3>1 DEF Reused
    <3>2. CASE g.slabs[t] # b + 1
      BY <1>4, <3>2
    <3> QED
      BY <3>1, <3>2
  <2>2. ASSUME NEW s \in Slabs, NEW t \in Slabs, g.slabs[s] # NULL, g.slabs[s] = g.slabs[t]
        PROVE  s = t
    <3>1. CASE g.slabs[s] = b + 1
      BY <2>2, <3>1 DEF Reused
    <3>2. CASE g.slabs[s] # b + 1
      <4>1. h.slabs[s] = g.slabs[s] /\ h.slabs[t] = g.slabs[t]
        BY <1>4, <2>2, <3>2
      <4> QED
        BY <2>2, <4>1 DEF Memory, SlabsSound
    <3> QED
      BY <3>1, <3>2
  <2> QED
    BY <1>1, <2>1, <2>2 DEF Memory, SlabsSound
<1>7. ASSUME NEW d \in A \ {b} PROVE d + 1 \in SlabPtrs(g) <=> d + 1 \in SlabPtrs(h)
  <2>1. d \in Nat /\ d + 1 # b + 1 /\ d + 1 # NULL
    BY <1>1, UsedBlocks DEF NULL
  <2>2. \A t \in Slabs : g.slabs[t] = d + 1 <=> h.slabs[t] = d + 1
    BY <1>4, <1>5, <2>1
  <2> QED
    BY <2>2, SlabPtrIs
<1>8. ASSUME NEW c PROVE c \in Others(g, A, b) <=> c \in Others(h, A, b)
  <2>1. \A d \in A \ {b} : FromBlock(g, d, c) <=> FromBlock(h, d, c)
    BY <1>3, <1>7 DEF FromBlock
  <2>2. \A s \in Slabs : g.slabs[s] # b + 1 /\ FromSlab(g, s, c) <=> h.slabs[s] # b + 1 /\ FromSlab(h, s, c)
    <3> SUFFICES ASSUME NEW s \in Slabs
                 PROVE  g.slabs[s] # b + 1 /\ FromSlab(g, s, c) <=> h.slabs[s] # b + 1 /\ FromSlab(h, s, c)
      OBVIOUS
    <3>1. CASE g.slabs[s] # NULL /\ g.slabs[s] # b + 1
      BY <1>4, <3>1 DEF FromSlab
    <3>2. CASE ~(g.slabs[s] # NULL /\ g.slabs[s] # b + 1)
      <4>1. ~(h.slabs[s] # NULL /\ h.slabs[s] # b + 1)
        BY <1>5, <3>2
      <4> QED
        BY <3>2, <4>1 DEF FromSlab
    <3> QED
      BY <3>1, <3>2
  <2>3. c \in Others(g, A, b) <=>
           \/ \E d \in A \ {b} : FromBlock(g, d, c)
           \/ \E s \in Slabs : g.slabs[s] # b + 1 /\ FromSlab(g, s, c)
    BY OthersAre
  <2>4. c \in Others(h, A, b) <=>
           \/ \E d \in A \ {b} : FromBlock(h, d, c)
           \/ \E s \in Slabs : h.slabs[s] # b + 1 /\ FromSlab(h, s, c)
    BY OthersAre
  <2> QED
    BY <2>1, <2>2, <2>3, <2>4
<1>9. Unmoved(g, h, Others(h, A, b))
  <2> SUFFICES ASSUME NEW c \in Others(h, A, b), NEW a \in c[1] .. c[1] + c[2] - 1
               PROVE  g.mem[a] = h.mem[a]
    BY DEF Unmoved
  <2>1. PICK d \in A \ {b} : Within(h, d, c)
    BY CellsSplit
  <2>2. a \in d .. d + SizeOf(h, d) - 1
    BY <2>1 DEF Within
  <2> QED
    BY <1>2, <2>2 DEF Same
<1> QED
  BY <1>1, <1>6, <1>8, <1>9 DEF OthersKept

-----------------------------------------------------------------------------
(* Slots are taken and given back. *)

(* Bitmap j of the slab has become u. *)
BitmapPut(g, h, slab, j, u) ==
  /\ Inside(g, h, slab - 1) /\ g.slabs = h.slabs /\ Bitmapped(g, slab)
  /\ \A i \in 0 .. NumMaps - 1 : Used(g, slab, i) = IF i = j THEN u ELSE Used(h, slab, i)

(* The bitmaps fit into the slab. *)
LEMMA MapsFit ==
  ASSUME NEW kind \in Kinds
  PROVE  NumMaps \in Nat /\ NumMaps > 0 /\ SlabPayload(kind) \in Nat /\ SlabPayload(kind) > NumMaps
<1>1. /\ NumMaps \in Nat \ {0} /\ Slots \in Nat \ {0} /\ NumMaps * Slots \in Nat
      /\ SlabPayload(kind) = (NumMaps * Slots) * kind + NumMaps
  BY PayloadIs
<1> DEFINE p == NumMaps * Slots
<1>2. p > 0
  <2> DEFINE u == (NumMaps - 1) * Slots
  <2>1. u \in Nat /\ u = p - Slots
    BY <1>1
  <2> HIDE DEF u, p
  <2> QED
    BY <1>1, <2>1 DEF p
<1>3. kind = 2 \/ kind = 4
  BY DEF Kinds
<1> HIDE DEF p
<1> QED
  BY <1>1, <1>2, <1>3 DEF p

(* A bitmap tells the slots in use. *)
LEMMA UsedSlots ==
  ASSUME NEW h, NEW slab, Bitmapped(h, slab), NEW j \in 0 .. NumMaps - 1
  PROVE  Used(h, slab, j) \in SUBSET (0 .. Slots - 1) /\ h.mem[slab + j] = Bitmap(Used(h, slab, j))
<1>1. PICK u \in SUBSET (0 .. Slots - 1) : h.mem[slab + j] = Bitmap(u)
  BY DEF Bitmapped
<1>2. Used(h, slab, j) = u
  BY <1>1, Words DEF Used
<1> QED
  BY <1>1, <1>2

(* The write of one bitmap. *)
LEMMA BitmapPutIs ==
  ASSUME NEW h, NEW A, Memory(h, A), NEW s \in Slabs, h.slabs[s] # NULL,
         NEW j \in 0 .. NumMaps - 1, NEW u \in SUBSET (0 .. Slots - 1)
  PROVE  BitmapPut([h EXCEPT !.mem[h.slabs[s] + j] = Bitmap(u)], h, h.slabs[s], j, u)
<1> DEFINE slab == h.slabs[s]
           b == slab - 1
           kind == s[1]
           g == [h EXCEPT !.mem[slab + j] = Bitmap(u)]
<1>1. /\ slab \in Nat /\ b \in A /\ b \in Nat /\ b + 1 = slab /\ SizeOf(h, b) \in Nat
      /\ SizeOf(h, b) >= SlabPayload(kind) + 2 /\ b + SizeOf(h, b) <= h.brk
      /\ h.brk \in Nat /\ Typed(h) /\ b = slab - 1
  BY SlabBlockIs, UsedBlocks DEF Memory
<1>2. Bitmapped(h, slab)
  BY DEF Memory, SlabsSound, SlabSound
<1>3. NumMaps \in Nat /\ NumMaps > 0 /\ SlabPayload(kind) \in Nat /\ SlabPayload(kind) > NumMaps
  BY SlabIs, MapsFit
<1>4. j \in Nat /\ j < NumMaps
  BY <1>3
<1> HIDE DEF slab, b, kind
<1>5. slab + j \in 1 .. h.brk - 1 /\ Bitmap(u) \in Word
  BY <1>1, <1>3, <1>4, Words
<1> DEFINE a == slab + j
           w == Bitmap(u)
<1>6. a \in 1 .. h.brk - 1 /\ w \in Word /\ g = [h EXCEPT !.mem[a] = w]
  BY <1>5
<1> HIDE DEF a, w, g
<1>7. /\ Typed(g) /\ g.brk = h.brk /\ g.lists = h.lists /\ g.slabs = h.slabs
      /\ \A c \in 1 .. h.brk - 1 : g.mem[c] = IF c = a THEN w ELSE h.mem[c]
  BY <1>1, <1>6, PutIs
<1>8. a > b /\ a < b + SizeOf(h, b) - 1 /\ a \in Nat
  BY <1>1, <1>3, <1>4 DEF a
<1>9. Inside(g, h, b)
  BY <1>1, <1>7, <1>8 DEF Inside
<1>10. \A i \in 0 .. NumMaps - 1 : g.mem[slab + i] = IF i = j THEN Bitmap(u) ELSE h.mem[slab + i]
  <2> SUFFICES ASSUME NEW i \in 0 .. NumMaps - 1
               PROVE  g.mem[slab + i] = IF i = j THEN Bitmap(u) ELSE h.mem[slab + i]
    OBVIOUS
  <2>1. slab + i \in 1 .. h.brk - 1 /\ (slab + i = a <=> i = j)
    BY <1>1, <1>3, <1>4 DEF a
  <2>2. w = Bitmap(u)
    BY DEF w
  <2> QED
    BY <1>7, <2>1, <2>2
<1>11. Bitmapped(g, slab)
  BY <1>2, <1>10 DEF Bitmapped
<1>12. \A i \in 0 .. NumMaps - 1 : Used(g, slab, i) = IF i = j THEN u ELSE Used(h, slab, i)
  BY <1>10, Words DEF Used
<1>13. BitmapPut(g, h, slab, j, u)
  BY <1>1, <1>7, <1>9, <1>11, <1>12 DEF BitmapPut
<1> QED
  BY <1>13 DEF g, slab

(* The slots in use after the write of one bitmap. *)
LEMMA TakenPut ==
  ASSUME NEW g, NEW h, NEW slab, NEW j, NEW u, BitmapPut(g, h, slab, j, u)
  PROVE  \A n \in Numbers :
           n \in Taken(g, slab) <=> IF n \div Slots = j THEN n % Slots \in u ELSE n \in Taken(h, slab)
<1> SUFFICES ASSUME NEW n \in Numbers
             PROVE  n \in Taken(g, slab) <=> IF n \div Slots = j THEN n % Slots \in u ELSE n \in Taken(h, slab)
  OBVIOUS
<1>1. n \div Slots \in 0 .. NumMaps - 1
  BY NumberedSlots DEF Numbers
<1> DEFINE i == n \div Slots
           k == n % Slots
<1>2. (n \in Taken(g, slab) <=> k \in Used(g, slab, i)) /\ (n \in Taken(h, slab) <=> k \in Used(h, slab, i))
  BY DEF Taken
<1>3. i \in 0 .. NumMaps - 1
  BY <1>1
<1> HIDE DEF i, k
<1>4. Used(g, slab, i) = IF i = j THEN u ELSE Used(h, slab, i)
  BY <1>3 DEF BitmapPut
<1>5. n \in Taken(g, slab) <=> IF i = j THEN k \in u ELSE n \in Taken(h, slab)
  BY <1>2, <1>4
<1> QED
  BY <1>5 DEF i, k

(* The cells in the block of a slab are its slots in use. *)
LEMMA OfSlab ==
  ASSUME NEW h, NEW A, Memory(h, A), NEW s \in Slabs, h.slabs[s] # NULL
  PROVE  OfBlock(h, h.slabs[s] - 1) = SlotCells(h, s[1], h.slabs[s])
<1> DEFINE b == h.slabs[s] - 1
<1>1. b + 1 = h.slabs[s] /\ b + 1 \in SlabPtrs(h)
  BY SlabBlockIs
<1> HIDE DEF b
<1>2. \A t \in Slabs : h.slabs[t] = b + 1 <=> t = s
  BY <1>1 DEF Memory, SlabsSound
<1>3. ASSUME NEW c PROVE c \in OfBlock(h, b) <=> c \in SlotCells(h, s[1], h.slabs[s])
  <2>1. c \in OfBlock(h, b) <=> FromSlab(h, s, c)
    BY <1>1, <1>2, OfBlockIs DEF FromBlock
  <2> QED
    BY <2>1 DEF FromSlab, SlotCells
<1> QED
  BY <1>3 DEF b

(* The write of a bitmap changes the cells of that slab only. *)
LEMMA PutReuses ==
  ASSUME NEW h, NEW A, Memory(h, A), NEW s \in Slabs, h.slabs[s] # NULL, NEW j, NEW u,
         NEW g, BitmapPut(g, h, h.slabs[s], j, u), Taken(g, h.slabs[s]) # {}
  PROVE  OthersKept(g, h, A, h.slabs[s] - 1)
<1> DEFINE slab == h.slabs[s]
           b == slab - 1
<1>1. slab \in Nat /\ b \in A /\ b \in Nat /\ b + 1 = slab /\ SizeOf(h, b) >= SlabPayload(s[1]) + 2
  BY SlabBlockIs
<1>2. Inside(g, h, b) /\ g.slabs = h.slabs /\ Bitmapped(g, slab)
  BY DEF BitmapPut
<1>3. Touched(g, h, A, b)
  BY <1>1, <1>2, TouchedIs DEF Memory
<1>4. \A t \in Slabs : h.slabs[t] = b + 1 <=> t = s
  BY <1>1 DEF Memory, SlabsSound
<1>5. SlabSound(g, A, s[1], slab)
  BY <1>1, <1>2, <1>3 DEF SlabSound, Touched
<1> HIDE DEF slab, b
<1>6. Reused(g, h, A, b)
  BY <1>1, <1>2, <1>3, <1>4, <1>5 DEF Reused
<1>7. OthersKept(g, h, A, b)
  BY <1>1, <1>6, ReusedIs
<1> QED
  BY <1>7 DEF b, slab

(* Taking a free slot gives one more cell. *)
LEMMA UseSlotIs ==
  ASSUME NEW h, NEW A, Memory(h, A), NEW s \in Slabs, h.slabs[s] # NULL,
         NEW j \in 0 .. NumMaps - 1, NEW k \in FreeSlots(h, h.slabs[s], j)
  PROVE  Allocates(UseSlot(h, s[1], h.slabs[s], j, k), h, Cells(h, A), s[1])
<1> DEFINE slab == h.slabs[s]
           kind == s[1]
           b == slab - 1
           u == Used(h, slab, j) \cup {k}
           q == j * Slots + k
           g == [h EXCEPT !.mem[slab + j] = Bitmap(u)]
           c == <<SlotAt(slab, kind, q), kind>>
           r == UseSlot(h, kind, slab, j, k)
<1>1. k \in 0 .. Slots - 1 /\ k \notin Used(h, slab, j) /\ u \in SUBSET (0 .. Slots - 1)
  <2>1. k \in 0 .. Slots - 1 /\ k \notin Used(h, slab, j)
    BY DEF FreeSlots
  <2>2. Bitmapped(h, slab)
    BY DEF Memory, SlabsSound, SlabSound
  <2> HIDE DEF slab
  <2>3. Used(h, slab, j) \in SUBSET (0 .. Slots - 1)
    BY <2>2, UsedSlots
  <2> QED
    BY <2>1, <2>3
<1>2. q \in Numbers /\ q \div Slots = j /\ q % Slots = k
  BY <1>1, SlotNumbers DEF Numbers
<1>3. r.heap = g /\ r.ptr = c[1] /\ c[2] = kind
  BY DEF UseSlot, SlotPtr, SlotAt
<1>4. kind \in Kinds /\ kind \in Nat /\ kind >= kind
  <2>1. kind \in Kinds
    BY SlabIs
  <2> QED
    BY <2>1 DEF Kinds
<1>5. slab \in Nat /\ b \in A
  BY SlabBlockIs
<1>6. BitmapPut(g, h, slab, j, u)
  BY <1>1, BitmapPutIs
<1> HIDE DEF g, u, r, q
<1>7. \A n \in Numbers : n \in Taken(g, slab) <=> n = q \/ n \in Taken(h, slab)
  <2> SUFFICES ASSUME NEW n \in Numbers PROVE n \in Taken(g, slab) <=> n = q \/ n \in Taken(h, slab)
    OBVIOUS
  <2>1. n \in Taken(g, slab) <=> IF n \div Slots = j THEN n % Slots \in u ELSE n \in Taken(h, slab)
    BY <1>6, TakenPut
  <2>2. n \in Taken(h, slab) <=> n % Slots \in Used(h, slab, n \div Slots)
    BY DEF Taken
  <2>3. CASE n \div Slots = j
    <3>1. n % Slots = k => n = q
      <4>1. (n \div Slots) * Slots + (n % Slots) = n
        BY NumberedSlots DEF Numbers
      <4> QED
        BY <2>3, <4>1 DEF q
    <3>2. n \in Taken(g, slab) <=> n % Slots = k \/ n % Slots \in Used(h, slab, j)
      BY <2>1, <2>3 DEF u
    <3> QED
      BY <1>2, <2>2, <2>3, <3>1, <3>2
  <2>4. CASE n \div Slots # j
    BY <1>2, <2>1, <2>4
  <2> QED
    BY <2>3, <2>4
<1>8. Taken(g, slab) = Taken(h, slab) \cup {q} /\ q \notin Taken(h, slab)
  <2>1. \A n : n \in Taken(g, slab) => n \in Numbers
    BY DEF Taken
  <2>2. \A n : n \in Taken(h, slab) => n \in Numbers
    BY DEF Taken
  <2>3. q \notin Taken(h, slab)
    BY <1>1, <1>2 DEF Taken
  <2> QED
    BY <1>2, <1>7, <2>1, <2>2, <2>3
<1>9. OthersKept(g, h, A, b)
  BY <1>6, <1>8, PutReuses
<1>10. /\ Memory(g, A) /\ Others(g, A, b) = Others(h, A, b) /\ Unmoved(g, h, Others(h, A, b))
       /\ h.brk <= g.brk
  <2>1. h.brk \in Nat
    BY UsedBlocks DEF Memory
  <2> QED
    BY <1>9, <2>1 DEF OthersKept
<1>11. OfBlock(h, b) = SlotCells(h, kind, slab) /\ OfBlock(g, b) = SlotCells(g, kind, slab)
  <2>1. OfBlock(h, b) = SlotCells(h, kind, slab)
    BY OfSlab
  <2>2. g.slabs[s] = slab
    BY <1>6 DEF BitmapPut
  <2>3. g.slabs[s] # NULL
    BY <2>2
  <2> HIDE DEF kind, slab
  <2>4. OfBlock(g, g.slabs[s] - 1) = SlotCells(g, s[1], g.slabs[s])
    BY <1>10, <2>3, OfSlab
  <2> QED
    BY <2>1, <2>2, <2>4 DEF b, kind
<1> HIDE DEF slab, kind, b
<1>12. SlotCells(g, kind, slab) = SlotCells(h, kind, slab) \cup {c}
  BY <1>8 DEF SlotCells
<1>13. c \notin SlotCells(h, kind, slab)
  <2> SUFFICES ASSUME NEW n \in Taken(h, slab), c = <<SlotAt(slab, kind, n), kind>> PROVE FALSE
    BY DEF SlotCells
  <2>1. n \in Numbers /\ n # q
    BY <1>8 DEF Taken
  <2>2. SlotAt(slab, kind, n) = SlotAt(slab, kind, q)
    OBVIOUS
  <2>3. (SlotAt(slab, kind, n) - FirstSlot(slab)) \div kind = n /\ (SlotAt(slab, kind, q) - FirstSlot(slab)) \div kind = q
    BY <1>2, <1>4, <1>5, <2>1, SlotAtIs
  <2> QED
    BY <2>1, <2>2, <2>3
<1>14. /\ Cells(h, A) = Others(h, A, b) \cup OfBlock(h, b)
       /\ Cells(g, A) = Others(g, A, b) \cup OfBlock(g, b)
       /\ Others(g, A, b) \cap OfBlock(g, b) = {}
  BY <1>5, <1>10, CellsSplit
<1> HIDE DEF c
<1>15. Cells(g, A) = Cells(h, A) \cup {c} /\ c \notin Cells(h, A)
  BY <1>10, <1>11, <1>12, <1>13, <1>14
<1>16. Unmoved(g, h, Cells(h, A))
  <2>1. Unmoved(g, h, SlotCells(h, kind, slab))
    <3> SUFFICES ASSUME NEW n \in Taken(h, slab),
                        NEW a \in SlotAt(slab, kind, n) .. SlotAt(slab, kind, n) + kind - 1
                 PROVE  g.mem[a] = h.mem[a]
      BY DEF Unmoved, SlotCells
    <3>1. n \in Numbers
      BY DEF Taken
    <3>2. slab + NumMaps <= SlotAt(slab, kind, n) /\ SlotAt(slab, kind, n) \in Nat
      BY <1>4, <1>5, <3>1, SlotAtIs
    <3>3. NumMaps \in Nat
      BY <1>4, MapsFit
    <3>4. g.mem[a] = h.mem[a]
      <4>1. a # slab + j
        BY <1>4, <1>5, <3>2, <3>3
      <4>2. g.mem = [h.mem EXCEPT ![slab + j] = Bitmap(u)]
        BY UsedBlocks DEF g, Memory, Typed, Heap
      <4>3. DOMAIN h.mem = 1 .. h.brk - 1
        BY UsedBlocks, TypedIs DEF Memory
      <4> QED
        BY <4>1, <4>2
    <3> QED
      BY <3>4
  <2> QED
    BY <1>10, <1>11, <1>14, <2>1 DEF Unmoved
<1>17. Allocates(r, h, Cells(h, A), kind)
  BY <1>3, <1>4, <1>10, <1>15, <1>16 DEF Allocates, Holds
<1> QED
  BY <1>17 DEF r, slab, kind

(* A slab with a free slot gives one more cell. *)
LEMMA UseSlabIs ==
  ASSUME NEW h, NEW A, Memory(h, A), NEW s \in Slabs, h.slabs[s] # NULL, FreeMaps(h, h.slabs[s]) # {}
  PROVE  Allocates(UseSlab(h, s[1], h.slabs[s]), h, Cells(h, A), s[1])
<1> DEFINE slab == h.slabs[s]
           M == FreeMaps(h, slab)
           j == Min(M)
           K == FreeSlots(h, slab, j)
           k == Min(K)
<1>1. NumMaps \in Nat /\ Slots \in Nat
  BY AllocatorAssumption
<1>2. M \in SUBSET Nat /\ M # {} /\ \A i \in M : i \in 0 .. NumMaps - 1 /\ FreeSlots(h, slab, i) # {}
  BY <1>1 DEF FreeMaps
<1> HIDE DEF M
<1>3. j \in M
  <2>1. \E i \in M : \A m \in M : i <= m
    BY <1>2, LeastNatural
  <2> QED
    BY <2>1 DEF Min
<1> HIDE DEF j
<1>4. K \in SUBSET Nat /\ K # {}
  BY <1>1, <1>2, <1>3 DEF FreeSlots
<1> HIDE DEF K
<1>5. k \in K
  <2>1. \E i \in K : \A m \in K : i <= m
    BY <1>4, LeastNatural
  <2> QED
    BY <2>1 DEF Min
<1> HIDE DEF k
<1>6. UseSlab(h, s[1], slab) = UseSlot(h, s[1], slab, j, k)
  BY DEF UseSlab, UseMap, k, K, j, M
<1>7. j \in 0 .. NumMaps - 1 /\ k \in FreeSlots(h, slab, j)
  BY <1>2, <1>3, <1>5 DEF K
<1> QED
  BY <1>6, <1>7, UseSlotIs

(* A block that is no slab is one cell. *)
LEMMA OfOwn ==
  ASSUME NEW h, NEW b \in Nat, b + 1 \notin SlabPtrs(h)
  PROVE  OfBlock(h, b) = {<<b + 1, SizeOf(h, b) - 2>>}
<1>1. \A s \in Slabs : h.slabs[s] # b + 1
  BY SlabPtrIs DEF NULL
<1>2. ASSUME NEW c PROVE c \in OfBlock(h, b) <=> c = <<b + 1, SizeOf(h, b) - 2>>
  BY <1>1, OfBlockIs DEF FromBlock
<1> QED
  BY <1>2

(* A new slab s at the pointer p: its bitmaps are written. *)
SlabMade(g, h, s, b) ==
  /\ Inside(g, h, b) /\ g.slabs = [h.slabs EXCEPT ![s] = b + 1]
  /\ Bitmapped(g, b + 1) /\ Taken(g, b + 1) = {0}

(* A new slab: its bitmaps are written and its first slot is taken. *)
LEMMA SlabMadeIs ==
  ASSUME NEW h, Typed(h), NEW s \in Slabs, NEW b \in Nat,
         SizeOf(h, b) \in Nat, SizeOf(h, b) >= SlabPayload(s[1]) + 2, b + SizeOf(h, b) <= h.brk,
         NEW r, r.heap = h, r.ptr = b + 1
  PROVE  /\ SlabMade(NewSlab(r, s[1], s[2]).heap, h, s, b)
         /\ NewSlab(r, s[1], s[2]).ptr = SlotAt(b + 1, s[1], 0)
<1> DEFINE p == b + 1
           k == [h EXCEPT !.slabs[s] = p]
           words == [a \in p .. p + NumMaps - 1 |-> Bitmap(IF a = p THEN {0} ELSE {})]
           g == Write(k, words)
<1>1. NewSlab(r, s[1], s[2]).heap = g /\ NewSlab(r, s[1], s[2]).ptr = FirstSlot(p) /\ s[1] \in Kinds
  BY SlabIs DEF NewSlab
<1>2. /\ NumMaps \in Nat /\ NumMaps > 0 /\ SlabPayload(s[1]) \in Nat /\ SlabPayload(s[1]) > NumMaps
      /\ Slots \in Nat \ {0} /\ h.brk \in Nat /\ p \in Nat
  BY <1>1, MapsFit, AllocatorAssumption, TypedIs
<1>3. Typed(k) /\ k.brk = h.brk /\ k.lists = h.lists /\ k.mem = h.mem /\ k.slabs = [h.slabs EXCEPT ![s] = p]
  <2>1. [h.slabs EXCEPT ![s] = p] \in [Slabs -> Nat]
    BY <1>2, TypedIs
  <2> QED
    BY <1>2, <2>1 DEF Typed, Heap
<1>4. \A a \in DOMAIN words : words[a] \in Word
  <2>1. \A a \in p .. p + NumMaps - 1 : Bitmap(IF a = p THEN {0} ELSE {}) \in Word
    <3>1. {0} \in SUBSET (0 .. Slots - 1) /\ {} \in SUBSET (0 .. Slots - 1)
      BY <1>2
    <3> QED
      BY <3>1, Words
  <2> QED
    BY <2>1
<1>5. DOMAIN words = p .. p + NumMaps - 1
  OBVIOUS
<1> HIDE DEF k, words, g
<1>6. /\ Typed(g) /\ g.brk = h.brk /\ g.lists = h.lists /\ g.slabs = k.slabs
      /\ \A a \in 1 .. h.brk - 1 : g.mem[a] = IF a \in p .. p + NumMaps - 1 THEN words[a] ELSE h.mem[a]
  <2>1. /\ Typed(g)
        /\ \A a \in 1 .. k.brk - 1 : g.mem[a] = IF a \in DOMAIN words THEN words[a] ELSE k.mem[a]
        /\ g.brk = k.brk /\ g.lists = k.lists /\ g.slabs = k.slabs
    BY <1>3, <1>4, WriteIs DEF g
  <2> QED
    BY <1>3, <1>5, <2>1
<1>7. Inside(g, h, b)
  <2> SUFFICES ASSUME NEW a \in 1 .. h.brk - 1, a <= b \/ a >= b + SizeOf(h, b) - 1 PROVE g.mem[a] = h.mem[a]
    BY <1>6 DEF Inside
  <2>1. a \notin p .. p + NumMaps - 1
    BY <1>2
  <2> QED
    BY <1>6, <2>1
<1>8. \A j \in 0 .. NumMaps - 1 : g.mem[p + j] = Bitmap(IF j = 0 THEN {0} ELSE {})
  <2> SUFFICES ASSUME NEW j \in 0 .. NumMaps - 1 PROVE g.mem[p + j] = Bitmap(IF j = 0 THEN {0} ELSE {})
    OBVIOUS
  <2>1. p + j \in p .. p + NumMaps - 1 /\ p + j \in 1 .. h.brk - 1 /\ (p + j = p <=> j = 0)
    BY <1>2
  <2>2. words[p + j] = Bitmap(IF p + j = p THEN {0} ELSE {})
    BY <2>1 DEF words
  <2> QED
    BY <1>6, <2>1, <2>2
<1>9. Bitmapped(g, p)
  <2>1. {0} \in SUBSET (0 .. Slots - 1) /\ {} \in SUBSET (0 .. Slots - 1)
    BY <1>2
  <2> QED
    BY <1>8, <2>1 DEF Bitmapped
<1>10. Taken(g, p) = {0}
  <2>1. \A j \in 0 .. NumMaps - 1 : Used(g, p, j) = IF j = 0 THEN {0} ELSE {}
    BY <1>8, Words DEF Used
  <2>2. ASSUME NEW n \in Numbers PROVE n % Slots \in Used(g, p, n \div Slots) <=> n = 0
    <3>1. /\ n \div Slots \in 0 .. NumMaps - 1 /\ n % Slots \in 0 .. Slots - 1
          /\ (n \div Slots) * Slots + (n % Slots) = n
      BY NumberedSlots DEF Numbers
    <3>2. n % Slots \in Used(g, p, n \div Slots) <=> n \div Slots = 0 /\ n % Slots = 0
      BY <2>1, <3>1
    <3>3. ASSUME n \div Slots = 0, n % Slots = 0 PROVE n = 0
      BY <1>2, <3>1, <3>3
    <3>4. ASSUME n = 0 PROVE n \div Slots = 0 /\ n % Slots = 0
      <4>1. 0 \in 0 .. NumMaps - 1 /\ 0 \in 0 .. Slots - 1 /\ 0 * Slots + 0 = 0
        BY <1>2
      <4> QED
        BY <3>4, <4>1, SlotNumbers
    <3> QED
      BY <3>2, <3>3, <3>4
  <2>3. 0 \in Numbers
    <3>1. 0 \in 0 .. NumMaps - 1 /\ 0 \in 0 .. Slots - 1 /\ 0 * Slots + 0 = 0
      BY <1>2
    <3> QED
      BY <3>1, SlotNumbers DEF Numbers
  <2> QED
    BY <2>2, <2>3 DEF Taken
<1>11. SlotAt(p, s[1], 0) = FirstSlot(p)
  <2>1. s[1] \in Nat /\ FirstSlot(p) = p + NumMaps
    BY <1>1, <1>2, SlotAtIs
  <2> QED
    BY <1>2, <2>1 DEF SlotAt
<1>12. SlabMade(g, h, s, b)
  BY <1>3, <1>6, <1>7, <1>9, <1>10 DEF SlabMade
<1> QED
  BY <1>1, <1>11, <1>12

(* malloc from a new slab gives one more cell. *)
LEMMA NewSlabIs ==
  ASSUME NEW h, NEW A, Memory(h, A), h.brk <= MaxHeap + 1, NEW s \in Slabs, h.slabs[s] = NULL
  PROVE  Allocates(NewSlab(BlockMalloc(h, SlabPayload(s[1])), s[1], s[2]), h, Cells(h, A), s[1])
<1> DEFINE kind == s[1]
           size == SlabPayload(kind)
           n == BlockSize(size)
           r == BlockMalloc(h, size)
           k == r.heap
           new == NewSlab(r, kind, s[2])
           g == new.heap
<1>1. kind \in Kinds /\ size \in Requests
  BY SlabIs DEF Requests
<1>2. Gives(r, h, A, n)
  BY <1>1, BlockMallocIs DEF Memory
<1>3. n \in Nat /\ n >= size + 2 /\ size \in Nat /\ kind \in Nat /\ kind >= kind
  <2>1. kind \in Nat
    BY <1>1 DEF Kinds
  <2> QED
    BY <1>1, <2>1, RequestIs
<1> HIDE DEF r, n
<1>4. PICK b : BlockGiven(r, h, A, b, n)
  BY <1>2, BlockMallocGives
<1> DEFINE V == A \cup {b}
           c == <<SlotAt(b + 1, kind, 0), kind>>
<1>5. b \in Nat /\ b \notin A /\ r.ptr = b + 1 /\ SizeOf(k, b) = n /\ Renews(k, h, A, V, A)
  BY <1>4 DEF BlockGiven
<1>6. V \ A = {b} /\ b \in V /\ OwnCells(k, {b}) = {<<b + 1, SizeOf(k, b) - 2>>}
  BY <1>5 DEF OwnCells
<1> DEFINE own == <<b + 1, SizeOf(k, b) - 2>>
<1> HIDE DEF V, own
<1>7. /\ Memory(k, V) /\ k.slabs = h.slabs /\ Cells(k, V) = Cells(h, A) \cup {own}
      /\ own \notin Cells(h, A) /\ Unmoved(k, h, Cells(h, A)) /\ h.brk <= k.brk
  BY <1>5, <1>6 DEF Renews, own
<1>8. b + 1 \notin SlabPtrs(k)
  <2> SUFFICES ASSUME NEW t \in Slabs, h.slabs[t] = b + 1, h.slabs[t] # NULL PROVE FALSE
    BY <1>7, SlabPtrIs
  <2>1. h.slabs[t] - 1 \in A
    BY SlabBlockIs
  <2> QED
    BY <1>5, <2>1
<1>9. OfBlock(k, b) = {own}
  BY <1>5, <1>8, OfOwn DEF own
<1>10. Cells(k, V) = Others(k, V, b) \cup OfBlock(k, b) /\ Others(k, V, b) \cap OfBlock(k, b) = {}
  BY <1>6, <1>7, CellsSplit
<1>11. Others(k, V, b) = Cells(h, A)
  BY <1>7, <1>9, <1>10
<1>12. SlabMade(g, k, s, b) /\ new.ptr = c[1] /\ c[2] = kind
  <2>1. /\ Typed(k) /\ SizeOf(k, b) \in Nat /\ SizeOf(k, b) >= SlabPayload(s[1]) + 2 /\ b + SizeOf(k, b) <= k.brk
        /\ r.heap = k
    BY <1>3, <1>5, <1>6, <1>7, UsedBlocks DEF Memory
  <2> HIDE DEF k
  <2>2. /\ SlabMade(NewSlab(r, s[1], s[2]).heap, k, s, b)
        /\ NewSlab(r, s[1], s[2]).ptr = SlotAt(b + 1, s[1], 0)
    BY <1>5, <2>1, SlabMadeIs
  <2> QED
    BY <2>2
<1> HIDE DEF k, g, new
<1>13. Touched(g, k, V, b)
  BY <1>6, <1>7, <1>12, TouchedIs DEF Memory, SlabMade
<1>14. g.slabs = [h.slabs EXCEPT ![s] = b + 1] /\ h.slabs \in [Slabs -> Nat]
  BY <1>7, <1>12, UsedBlocks DEF SlabMade, Memory
<1>15. \A t \in Slabs : h.slabs[t] # b + 1
  BY <1>7, <1>8, <1>5, SlabPtrIs DEF NULL
<1>16. SlabSound(g, V, kind, b + 1)
  <2>1. b + 1 - 1 = b /\ SizeOf(g, b) >= size + 2
    BY <1>3, <1>5, <1>6, <1>13 DEF Touched
  <2>2. Bitmapped(g, b + 1) /\ Taken(g, b + 1) # {}
    BY <1>12 DEF SlabMade
  <2> DEFINE p == b + 1
  <2>3. p - 1 = b /\ SizeOf(g, b) >= size + 2 /\ Bitmapped(g, p) /\ Taken(g, p) # {} /\ b \in V
    <3>1. b \in V /\ b \in Nat
      BY <1>5, <1>6
    <3> QED
      BY <2>1, <2>2, <3>1
  <2> HIDE DEF p
  <2>4. SlabSound(g, V, kind, p)
    BY <2>3 DEF SlabSound
  <2> QED
    BY <2>4 DEF p
<1>17. Reused(g, k, V, b)
  <2>1. \A t \in Slabs : g.slabs[t] = k.slabs[t] \/ (t = s /\ g.slabs[t] = b + 1 /\ k.slabs[t] = NULL)
    BY <1>7, <1>14
  <2>2. \A t \in Slabs : g.slabs[t] = b + 1 => t = s
    BY <1>14, <1>15
  <2> QED
    BY <1>13, <1>16, <2>1, <2>2 DEF Reused
<1>18. /\ Memory(g, V) /\ Others(g, V, b) = Cells(h, A) /\ Unmoved(g, k, Cells(h, A))
       /\ h.brk <= g.brk
  <2>1. OthersKept(g, k, V, b)
    BY <1>6, <1>7, <1>17, ReusedIs
  <2> QED
    BY <1>7, <1>11, <2>1 DEF OthersKept
<1>19. OfBlock(g, b) = {c}
  <2>1. g.slabs[s] = b + 1 /\ g.slabs[s] # NULL
    BY <1>5, <1>14 DEF NULL
  <2>2. OfBlock(g, g.slabs[s] - 1) = SlotCells(g, s[1], g.slabs[s])
    BY <1>18, <2>1, OfSlab
  <2>3. g.slabs[s] - 1 = b
    BY <1>5, <2>1
  <2>4. SlotCells(g, s[1], b + 1) = {c}
    BY <1>12 DEF SlotCells, SlabMade
  <2> QED
    BY <2>1, <2>2, <2>3, <2>4
<1>20. Cells(g, V) = Others(g, V, b) \cup OfBlock(g, b) /\ Others(g, V, b) \cap OfBlock(g, b) = {}
  BY <1>6, <1>18, CellsSplit
<1> HIDE DEF c, kind
<1>21. Cells(g, V) = Cells(h, A) \cup {c} /\ c \notin Cells(h, A)
  BY <1>18, <1>19, <1>20
<1>22. Unmoved(g, h, Cells(h, A))
  BY <1>7, <1>18 DEF Unmoved
<1>23. Allocates(new, h, Cells(h, A), kind)
  BY <1>3, <1>12, <1>18, <1>21, <1>22 DEF Allocates, Holds, g
<1> QED
  BY <1>23 DEF new, kind, r

(* Min and Max of a bounded set of numbers are in it. *)
LEMMA ExtremesAre ==
  ASSUME NEW N \in Nat, NEW S, S \subseteq 0 .. N - 1, S # {}
  PROVE  Min(S) \in S /\ Max(S) \in S
<1>1. S \in SUBSET Nat /\ \A j \in S : j \in Nat /\ j <= N
  OBVIOUS
<1>2. \E j \in S : \A k \in S : j <= k
  BY <1>1, LeastNatural
<1> DEFINE D == {N - j : j \in S}
<1>3. D \in SUBSET Nat /\ D # {}
  <2>1. \A j \in S : N - j \in Nat
    BY <1>1
  <2> QED
    BY <2>1
<1>4. PICK d \in D : \A e \in D : d <= e
  <2> HIDE DEF D
  <2> QED
    BY <1>3, LeastNatural
<1>5. PICK m \in S : d = N - m
  BY <1>4
<1>6. \A j \in S : m >= j
  <2> SUFFICES ASSUME NEW j \in S PROVE m >= j
    OBVIOUS
  <2>1. N - j \in D
    OBVIOUS
  <2>2. d <= N - j /\ j \in Nat /\ m \in Nat
    BY <1>1, <1>4, <2>1
  <2> HIDE DEF D
  <2> QED
    BY <1>5, <2>2
<1> QED
  BY <1>2, <1>6 DEF Min, Max

(* slabAdd, from a slab in place or a new one, gives one more cell. *)
LEMMA SlabAddIs ==
  ASSUME NEW h, NEW A, Memory(h, A), h.brk <= MaxHeap + 1, NEW kind \in Kinds,
         slabAdd(h, kind).ptr # NULL
  PROVE  Allocates(slabAdd(h, kind), h, Cells(h, A), kind)
<1> DEFINE numbers == 0 .. NumSlabs[kind] - 1
           withRoom == {i \in numbers :
                          h.slabs[kind, i] # NULL /\ FreeMaps(h, h.slabs[kind, i]) # {}}
           unused == {i \in numbers : h.slabs[kind, i] = NULL}
           r == slabAdd(h, kind)
<1>1. NumSlabs[kind] \in Nat
  BY AllocatorAssumption
<1>2. \A i \in numbers : <<kind, i>> \in Slabs /\ <<kind, i>>[1] = kind /\ <<kind, i>>[2] = i
  BY DEF Slabs
<1>3. r = IF withRoom # {} THEN UseSlab(h, kind, h.slabs[kind, Max(withRoom)])
          ELSE IF unused # {} THEN NewSlab(BlockMalloc(h, SlabPayload(kind)), kind, Min(unused))
          ELSE [heap |-> h, ptr |-> NULL]
  BY DEF slabAdd
<1> HIDE DEF r
<1>4. CASE withRoom # {}
  <2> DEFINE i == Max(withRoom)
             s == <<kind, i>>
  <2>1. i \in withRoom
    <3>1. withRoom \subseteq 0 .. NumSlabs[kind] - 1
      BY Zenon
    <3> HIDE DEF withRoom
    <3> QED
      BY <1>1, <1>4, <3>1, ExtremesAre
  <2>2. i \in numbers /\ h.slabs[s] # NULL /\ FreeMaps(h, h.slabs[s]) # {}
    BY <2>1
  <2>3. r = UseSlab(h, kind, h.slabs[s])
    BY <1>3, <1>4
  <2> HIDE DEF i, s, withRoom, unused
  <2>4. s \in Slabs /\ s[1] = kind
    BY <1>2, <2>2 DEF s
  <2>5. Allocates(UseSlab(h, s[1], h.slabs[s]), h, Cells(h, A), s[1])
    BY <2>2, <2>4, UseSlabIs
  <2> QED
    BY <2>3, <2>4, <2>5 DEF r
<1>5. CASE withRoom = {} /\ unused # {}
  <2> DEFINE i == Min(unused)
             s == <<kind, i>>
  <2>1. i \in unused
    <3>1. unused \subseteq 0 .. NumSlabs[kind] - 1
      BY Zenon
    <3> HIDE DEF unused
    <3> QED
      BY <1>1, <1>5, <3>1, ExtremesAre
  <2>2. i \in numbers /\ h.slabs[s] = NULL
    BY <2>1
  <2>3. r = NewSlab(BlockMalloc(h, SlabPayload(kind)), kind, i)
    BY <1>3, <1>5
  <2> HIDE DEF i, withRoom, unused
  <2>4. s \in Slabs /\ s[1] = kind /\ s[2] = i
    BY <1>2, <2>2
  <2> HIDE DEF s
  <2>5. Allocates(NewSlab(BlockMalloc(h, SlabPayload(s[1])), s[1], s[2]), h, Cells(h, A), s[1])
    BY <2>2, <2>4, NewSlabIs
  <2> QED
    BY <2>3, <2>4, <2>5 DEF r
<1>6. CASE withRoom = {} /\ unused = {}
  <2>1. r.ptr = NULL
    BY <1>3, <1>6
  <2> QED
    BY <2>1 DEF r
<1> QED
  BY <1>4, <1>5, <1>6

(* What malloc does: one more cell, large enough, all others untouched. *)
LEMMA MallocIs ==
  ASSUME NEW h, NEW C, Holds(h, C), h.brk <= MaxHeap + 1, NEW size \in Sizes
  PROVE  Allocates(malloc(h, size), h, C, BlockSize(size) - 2)
<1>1. PICK A : Memory(h, A) /\ C = Cells(h, A)
  BY DEF Holds
<1>2. size \in Requests /\ size \in Nat /\ size >= 1
  BY RequestIs DEF Requests
<1> DEFINE kind == IF size <= 2 THEN 2 ELSE 4
           slot == slabAdd(h, kind)
<1>3. kind \in Kinds
  BY DEF Kinds
<1>4. malloc(h, size) = IF size <= 4 /\ slot.ptr # NULL THEN slot ELSE BlockMalloc(h, size)
  BY DEF malloc
<1>5. CASE size <= 4 /\ slot.ptr # NULL
  <2>1. BlockSize(size) - 2 <= kind /\ BlockSize(size) - 2 \in Nat /\ kind \in Nat
    BY <1>2, <1>5 DEF BlockSize
  <2> HIDE DEF kind
  <2>2. Allocates(slot, h, Cells(h, A), kind)
    BY <1>1, <1>3, <1>5, SlabAddIs
  <2> HIDE DEF slot
  <2>3. PICK c : /\ c \notin C /\ c[1] = slot.ptr /\ c[2] \in Nat /\ c[2] >= kind
                 /\ Holds(slot.heap, C \cup {c}) /\ Unmoved(slot.heap, h, C) /\ h.brk <= slot.heap.brk
    BY <1>1, <2>2 DEF Allocates
  <2>4. c[2] >= BlockSize(size) - 2
    BY <2>1, <2>3
  <2>5. Allocates(slot, h, C, BlockSize(size) - 2)
    BY <2>3, <2>4 DEF Allocates
  <2> QED
    BY <1>4, <1>5, <2>5
<1>6. CASE ~(size <= 4 /\ slot.ptr # NULL)
  BY <1>1, <1>2, <1>4, <1>6, BlockAllocates
<1> QED
  BY <1>5, <1>6

(* The slab s is no longer one. *)
LEMMA SlabDropped ==
  ASSUME NEW h, Typed(h), NEW s \in Slabs
  PROVE  LET g == [h EXCEPT !.slabs[s] = NULL] IN
         /\ Typed(g) /\ g.brk = h.brk /\ g.lists = h.lists /\ g.mem = h.mem
         /\ g.slabs = [h.slabs EXCEPT ![s] = NULL]
         /\ \A A : Sound(h, A) => Sound(g, A)
<1> DEFINE g == [h EXCEPT !.slabs[s] = NULL]
<1>1. Typed(g) /\ g.brk = h.brk /\ g.lists = h.lists /\ g.mem = h.mem /\ g.slabs = [h.slabs EXCEPT ![s] = NULL]
  <2>1. [h.slabs EXCEPT ![s] = NULL] \in [Slabs -> Nat]
    BY TypedIs DEF NULL
  <2> QED
    BY <2>1 DEF Typed, Heap
<1> HIDE DEF g
<1>2. ASSUME NEW A, Sound(h, A) PROVE Sound(g, A)
  <2>1. PICK B, r : Whole(h, B, r, A)
    BY <1>2 DEF Sound
  <2>2. Whole(g, B, r, A)
    BY <1>1, <2>1, SameWhole
  <2> QED
    BY <2>2 DEF Sound
<1> QED
  BY <1>1, <1>2 DEF g

(* The slot n of the slab has been cleared. *)
LEMMA ClearedIs ==
  ASSUME NEW h, NEW A, Memory(h, A), NEW s \in Slabs, h.slabs[s] # NULL, NEW n \in Taken(h, h.slabs[s])
  PROVE  LET g == ClearSlot(h, h.slabs[s], n) IN
         /\ \E j, u : BitmapPut(g, h, h.slabs[s], j, u)
         /\ Taken(g, h.slabs[s]) = Taken(h, h.slabs[s]) \ {n}
         /\ \A a \in Nat : a >= h.slabs[s] + NumMaps => g.mem[a] = h.mem[a]
<1> DEFINE slab == h.slabs[s]
           j == n \div Slots
           k == n % Slots
           u == Used(h, slab, j) \ {k}
           g == ClearSlot(h, slab, n)
<1>1. n \in Numbers
  BY DEF Taken
<1>2. j \in 0 .. NumMaps - 1 /\ k \in 0 .. Slots - 1 /\ j * Slots + k = n
  BY <1>1, NumberedSlots DEF Numbers
<1>3. u \in SUBSET (0 .. Slots - 1)
  <2>1. Bitmapped(h, slab)
    BY DEF Memory, SlabsSound, SlabSound
  <2> HIDE DEF slab, j
  <2>2. Used(h, slab, j) \in SUBSET (0 .. Slots - 1)
    BY <1>2, <2>1, UsedSlots
  <2> QED
    BY <2>2
<1>4. g = [h EXCEPT !.mem[slab + j] = Bitmap(u)]
  BY DEF ClearSlot
<1> HIDE DEF u, j, k, g
<1>5. BitmapPut(g, h, slab, j, u)
  BY <1>2, <1>3, <1>4, BitmapPutIs
<1>8. slab \in Nat /\ NumMaps \in Nat /\ Typed(h)
  BY SlabBlockIs, UsedBlocks, AllocatorAssumption DEF Memory
<1> HIDE DEF slab
<1>9. \A a \in Nat : a >= slab + NumMaps => g.mem[a] = h.mem[a]
  <2> SUFFICES ASSUME NEW a \in Nat, a >= slab + NumMaps PROVE g.mem[a] = h.mem[a]
    OBVIOUS
  <2>1. a # slab + j
    BY <1>2, <1>8
  <2>2. g.mem = [h.mem EXCEPT ![slab + j] = Bitmap(u)]
    BY <1>4, <1>8 DEF Typed, Heap
  <2> QED
    BY <2>1, <2>2, <1>8, TypedIs
<1>6. \A m \in Numbers : m \in Taken(g, slab) <=> m # n /\ m \in Taken(h, slab)
  <2> SUFFICES ASSUME NEW m \in Numbers PROVE m \in Taken(g, slab) <=> m # n /\ m \in Taken(h, slab)
    OBVIOUS
  <2>1. m \in Taken(g, slab) <=> IF m \div Slots = j THEN m % Slots \in u ELSE m \in Taken(h, slab)
    BY <1>5, TakenPut
  <2>2. m \in Taken(h, slab) <=> m % Slots \in Used(h, slab, m \div Slots)
    BY DEF Taken
  <2>3. CASE m \div Slots = j
    <3>1. m % Slots = k => m = n
      <4>1. (m \div Slots) * Slots + (m % Slots) = m
        BY NumberedSlots DEF Numbers
      <4> QED
        BY <1>2, <2>3, <4>1
    <3>2. m = n => m % Slots = k
      BY DEF k
    <3>3. m \in Taken(g, slab) <=> m % Slots # k /\ m % Slots \in Used(h, slab, j)
      BY <2>1, <2>3 DEF u
    <3> QED
      BY <2>2, <2>3, <3>1, <3>2, <3>3
  <2>4. CASE m \div Slots # j
    <3>1. m # n
      BY <2>4 DEF j
    <3> QED
      BY <2>1, <2>4, <3>1
  <2> QED
    BY <2>3, <2>4
<1>7. Taken(g, slab) = Taken(h, slab) \ {n}
  <2>1. \A m : m \in Taken(g, slab) => m \in Numbers
    BY DEF Taken
  <2>2. \A m : m \in Taken(h, slab) => m \in Numbers
    BY DEF Taken
  <2> QED
    BY <1>6, <2>1, <2>2
<1> QED
  BY <1>5, <1>7, <1>9 DEF g, slab

(* A slab is empty when all of its bitmaps are. *)
LEMMA EmptyIs ==
  ASSUME NEW h, NEW slab, Bitmapped(h, slab)
  PROVE  (\A j \in 0 .. NumMaps - 1 : Used(h, slab, j) = {}) <=> Taken(h, slab) = {}
<1>1. ASSUME \A j \in 0 .. NumMaps - 1 : Used(h, slab, j) = {}, NEW n \in Taken(h, slab) PROVE FALSE
  <2>1. n \in Numbers /\ n % Slots \in Used(h, slab, n \div Slots)
    BY DEF Taken
  <2>2. n \div Slots \in 0 .. NumMaps - 1
    BY <2>1, NumberedSlots DEF Numbers
  <2> QED
    BY <1>1, <2>1, <2>2
<1>2. ASSUME NEW j \in 0 .. NumMaps - 1, Used(h, slab, j) # {} PROVE Taken(h, slab) # {}
  <2>1. PICK k : k \in Used(h, slab, j)
    BY <1>2
  <2>2. k \in 0 .. Slots - 1
    BY <2>1, UsedSlots
  <2> DEFINE n == j * Slots + k
  <2>3. n \in Numbers /\ n \div Slots = j /\ n % Slots = k
    BY <2>2, SlotNumbers DEF Numbers
  <2> HIDE DEF n
  <2>4. n \in Taken(h, slab)
    BY <2>1, <2>3 DEF Taken
  <2> QED
    BY <2>4
<1> QED
  BY <1>1, <1>2

(* A slot is given back, and others of its slab are in use. *)
LEMMA SlotFreed ==
  ASSUME NEW h, NEW A, Memory(h, A), NEW s \in Slabs, h.slabs[s] # NULL, NEW n \in Taken(h, h.slabs[s]),
         NEW g, NEW j, NEW u, BitmapPut(g, h, h.slabs[s], j, u),
         Taken(g, h.slabs[s]) = Taken(h, h.slabs[s]) \ {n}, Taken(g, h.slabs[s]) # {},
         \A a \in Nat : a >= h.slabs[s] + NumMaps => g.mem[a] = h.mem[a]
  PROVE  Frees(g, h, Cells(h, A), <<SlotAt(h.slabs[s], s[1], n), s[1]>>)
<1> DEFINE slab == h.slabs[s]
           kind == s[1]
           b == slab - 1
           c == <<SlotAt(slab, kind, n), kind>>
<1>1. slab \in Nat /\ b \in A /\ kind \in Kinds
  BY SlabBlockIs, SlabIs
<1>2. Memory(g, A) /\ Others(g, A, b) = Others(h, A, b) /\ Unmoved(g, h, Others(h, A, b)) /\ g.brk = h.brk
  <2>1. OthersKept(g, h, A, b)
    BY PutReuses
  <2> QED
    BY <2>1 DEF OthersKept
<1>3. OfBlock(h, b) = SlotCells(h, kind, slab) /\ OfBlock(g, b) = SlotCells(g, kind, slab)
  <2>1. OfBlock(h, b) = SlotCells(h, kind, slab)
    BY OfSlab
  <2>2. g.slabs[s] = slab /\ g.slabs[s] # NULL
    BY DEF BitmapPut
  <2> HIDE DEF kind, slab
  <2>3. OfBlock(g, g.slabs[s] - 1) = SlotCells(g, s[1], g.slabs[s])
    BY <1>2, <2>2, OfSlab
  <2> QED
    BY <2>1, <2>2, <2>3 DEF b, kind
<1>4. Taken(g, slab) = Taken(h, slab) \ {n} /\ n \in Taken(h, slab)
  OBVIOUS
<1>5. \A a \in Nat : a >= slab + NumMaps => g.mem[a] = h.mem[a]
  OBVIOUS
<1> HIDE DEF slab, kind, b
<1>6. SlotCells(g, kind, slab) = SlotCells(h, kind, slab) \ {c} /\ c \in SlotCells(h, kind, slab)
  <2>1. ASSUME NEW m \in Taken(h, slab), m # n PROVE <<SlotAt(slab, kind, m), kind>> # c
    <3>1. m \in Numbers /\ n \in Numbers
      BY <1>4 DEF Taken
    <3>2. (SlotAt(slab, kind, m) - FirstSlot(slab)) \div kind = m /\ (SlotAt(slab, kind, n) - FirstSlot(slab)) \div kind = n
      BY <1>1, <3>1, SlotAtIs
    <3>3. SlotAt(slab, kind, m) # SlotAt(slab, kind, n)
      BY <2>1, <3>2
    <3> QED
      BY <3>3
  <2> QED
    BY <1>4, <2>1 DEF SlotCells
<1>7. /\ Cells(h, A) = Others(h, A, b) \cup OfBlock(h, b) /\ Others(h, A, b) \cap OfBlock(h, b) = {}
      /\ Cells(g, A) = Others(g, A, b) \cup OfBlock(g, b)
  BY <1>1, <1>2, CellsSplit
<1> HIDE DEF c
<1>8. Cells(g, A) = Cells(h, A) \ {c}
  BY <1>2, <1>3, <1>6, <1>7
<1>9. Unmoved(g, h, SlotCells(h, kind, slab))
  <2> SUFFICES ASSUME NEW m \in Taken(h, slab),
                      NEW a \in SlotAt(slab, kind, m) .. SlotAt(slab, kind, m) + kind - 1
               PROVE  g.mem[a] = h.mem[a]
    BY DEF Unmoved, SlotCells
  <2>1. m \in Numbers
    BY DEF Taken
  <2>2. slab + NumMaps <= SlotAt(slab, kind, m) /\ SlotAt(slab, kind, m) \in Nat /\ kind \in Nat /\ NumMaps \in Nat
    BY <1>1, <2>1, SlotAtIs, MapsFit
  <2>3. a \in Nat /\ a >= slab + NumMaps
    BY <1>1, <2>2
  <2> QED
    BY <1>5, <2>3
<1>10. Unmoved(g, h, Cells(h, A) \ {c})
  BY <1>2, <1>3, <1>7, <1>9 DEF Unmoved
<1>11. Frees(g, h, Cells(h, A), c)
  BY <1>2, <1>8, <1>10 DEF Frees, Holds
<1> QED
  BY <1>11 DEF c, slab, kind

(* The last slot in use is given back, and the slab with it. *)
LEMMA SlabFreed ==
  ASSUME NEW h, NEW A, Memory(h, A), h.brk <= MaxHeap + 1, NEW s \in Slabs, h.slabs[s] # NULL,
         NEW n, Taken(h, h.slabs[s]) = {n}, NEW g1, NEW j, NEW u, BitmapPut(g1, h, h.slabs[s], j, u)
  PROVE  Frees([BlockFree(g1, h.slabs[s] - 1) EXCEPT !.slabs[s] = NULL], h, Cells(h, A),
               <<SlotAt(h.slabs[s], s[1], n), s[1]>>)
<1> DEFINE slab == h.slabs[s]
           kind == s[1]
           b == slab - 1
           c == <<SlotAt(slab, kind, n), kind>>
           h0 == [g1 EXCEPT !.slabs[s] = NULL]
           g2 == BlockFree(g1, b)
           g == [g2 EXCEPT !.slabs[s] = NULL]
           U == A \ {b}
<1>1. slab \in Nat /\ b \in A /\ kind \in Kinds /\ b \in Nat /\ b + 1 = slab
  BY SlabBlockIs, SlabIs
<1>2. Inside(g1, h, b) /\ g1.slabs = h.slabs /\ Sound(h, A)
  BY DEF BitmapPut, Memory
<1>3. OfBlock(h, b) = {c}
  <2>1. OfBlock(h, b) = SlotCells(h, kind, slab)
    BY OfSlab
  <2> QED
    BY <2>1 DEF SlotCells
<1>4. \A t \in Slabs : h.slabs[t] = b + 1 <=> t = s
  BY <1>1 DEF Memory, SlabsSound
<1> HIDE DEF slab, kind, b
<1>5. Typed(g1) /\ Sound(g1, A) /\ g1.brk = h.brk
  <2>1. Touched(g1, h, A, b)
    BY <1>1, <1>2, TouchedIs
  <2> QED
    BY <2>1 DEF Touched
<1>6. /\ Typed(h0) /\ h0.brk = g1.brk /\ h0.lists = g1.lists /\ h0.mem = g1.mem
      /\ h0.slabs = [g1.slabs EXCEPT ![s] = NULL] /\ h.slabs \in [Slabs -> Nat]
  BY <1>2, <1>5, SlabDropped, UsedBlocks
<1> HIDE DEF h0
<1>7. OthersKept(h0, h, A, b)
  <2>1. Inside(h0, h, b)
    BY <1>2, <1>6 DEF Inside
  <2>2. Touched(h0, h, A, b)
    BY <1>1, <1>2, <2>1, TouchedIs
  <2>3. \A t \in Slabs : h0.slabs[t] = IF t = s THEN NULL ELSE h.slabs[t]
    BY <1>2, <1>6
  <2>4. b + 1 # NULL
    BY <1>1 DEF NULL
  <2>5. Reused(h0, h, A, b)
    BY <1>4, <2>2, <2>3, <2>4 DEF Reused
  <2> QED
    BY <1>1, <2>5, ReusedIs
<1>8. Memory(h0, A) /\ Others(h0, A, b) = Others(h, A, b) /\ Unmoved(h0, h, Others(h, A, b))
  BY <1>7 DEF OthersKept
<1>9. b + 1 \notin SlabPtrs(h0)
  <2>1. \A t \in Slabs : h0.slabs[t] = IF t = s THEN NULL ELSE h.slabs[t]
    BY <1>2, <1>6
  <2> QED
    BY <1>4, <2>1, SlabPtrIs
<1> DEFINE own == <<b + 1, SizeOf(h0, b) - 2>>
<1>10. OfBlock(h0, b) = {own}
  BY <1>1, <1>9, OfOwn
<1>11. Turns(g2, g1, U, U) /\ SameBreak(g2, g1)
  BY <1>1, <1>5, BlockFreeIs
<1> HIDE DEF g2
<1>12. Sound(g2, U) /\ Kept(g2, g1, U) /\ g2.brk = g1.brk /\ Typed(g2) /\ g2.slabs = g1.slabs
  BY <1>11 DEF Turns, SameBreak, Kept
<1>13. /\ Typed(g) /\ g.brk = g2.brk /\ g.mem = g2.mem /\ g.slabs = [g2.slabs EXCEPT ![s] = NULL]
       /\ Sound(g, U)
  BY <1>12, SlabDropped
<1> HIDE DEF g
<1>14. Kept(g, h0, U)
  <2>1. \A x \in U : SizeOf(h0, x) = SizeOf(g1, x)
    BY <1>6 DEF SizeOf
  <2>2. g1.brk \in Nat
    BY <1>5, TypedIs
  <2> QED
    BY <1>6, <1>12, <1>13, <2>1, <2>2 DEF Kept
<1>15. U \subseteq A /\ U \subseteq U /\ \A t \in Slabs : h0.slabs[t] # NULL => h0.slabs[t] - 1 \in U
  <2> SUFFICES ASSUME NEW t \in Slabs, h0.slabs[t] # NULL PROVE h0.slabs[t] - 1 \in U
    OBVIOUS
  <2>1. h0.slabs[t] - 1 \in A /\ h0.slabs[t] - 1 + 1 = h0.slabs[t] /\ h0.slabs[t] \in SlabPtrs(h0)
    BY <1>8, SlabBlockIs
  <2> QED
    BY <1>9, <2>1
<1>16. U \ U = {} /\ A \ U = {b} /\ OwnCells(g, {}) = {} /\ OwnCells(h0, {b}) = {own}
  BY <1>1 DEF OwnCells
<1> HIDE DEF U, own, c
<1>17. Renews(g, h0, A, U, U)
  BY <1>8, <1>13, <1>14, <1>15, RenewsIs
<1>18. /\ Memory(g, U) /\ Cells(g, U) = Cells(h0, U) /\ Cells(h0, A) = Cells(h0, U) \cup {own}
       /\ own \notin Cells(h0, U) /\ Unmoved(g, h0, Cells(h0, U))
  BY <1>16, <1>17 DEF Renews
<1>19. /\ Cells(h0, A) = Others(h0, A, b) \cup OfBlock(h0, b) /\ Others(h0, A, b) \cap OfBlock(h0, b) = {}
       /\ Cells(h, A) = Others(h, A, b) \cup OfBlock(h, b) /\ Others(h, A, b) \cap OfBlock(h, b) = {}
  BY <1>1, <1>8, CellsSplit
<1>20. Cells(g, U) = Cells(h, A) \ {c} /\ Cells(h0, U) = Others(h, A, b)
  BY <1>3, <1>8, <1>10, <1>18, <1>19
<1>21. Unmoved(g, h, Cells(h, A) \ {c})
  <2>1. Unmoved(g, h, Others(h, A, b))
    BY <1>8, <1>18, <1>20 DEF Unmoved
  <2> QED
    BY <1>18, <1>20, <2>1
<1>22. Frees(g, h, Cells(h, A), c)
  BY <1>5, <1>12, <1>13, <1>18, <1>20, <1>21 DEF Frees, Holds
<1> QED
  BY <1>22 DEF g, g2, c, slab, kind, b

(* slabDelete gives up one cell. *)
LEMMA SlabDeleteIs ==
  ASSUME NEW h, NEW A, Memory(h, A), h.brk <= MaxHeap + 1, NEW s \in Slabs, h.slabs[s] # NULL,
         NEW n \in Taken(h, h.slabs[s])
  PROVE  Frees(slabDelete(h, SlotAt(h.slabs[s], s[1], n), s[1], s[2]), h, Cells(h, A),
               <<SlotAt(h.slabs[s], s[1], n), s[1]>>)
<1> DEFINE slab == h.slabs[s]
           p == SlotAt(slab, s[1], n)
           g == ClearSlot(h, slab, n)
           c == <<p, s[1]>>
           last == \A j \in 0 .. NumMaps - 1 : Used(g, slab, j) = {}
           end == [BlockFree(g, slab - 1) EXCEPT !.slabs[s] = NULL]
<1>1. s = <<s[1], s[2]>> /\ s[1] \in Kinds /\ slab \in Nat /\ n \in Numbers
  BY SlabIs, SlabBlockIs DEF Taken
<1>2. (p - FirstSlot(slab)) \div s[1] = n
  BY <1>1, SlotAtIs
<1>3. /\ \E j, u : BitmapPut(g, h, slab, j, u)
      /\ Taken(g, slab) = Taken(h, slab) \ {n}
      /\ \A a \in Nat : a >= slab + NumMaps => g.mem[a] = h.mem[a]
  BY ClearedIs
<1>4. PICK j, u : BitmapPut(g, h, slab, j, u)
  BY <1>3
<1>5. Bitmapped(g, slab) /\ g.slabs = h.slabs
  BY <1>4 DEF BitmapPut
<1>6. slabDelete(h, p, s[1], s[2]) = IF last THEN end ELSE g
  <2>1. h.slabs[s[1], s[2]] = slab /\ <<s[1], s[2]>> = s /\ g.slabs[s[1], s[2]] = slab
    BY <1>1, <1>5
  <2>2. slabDelete(h, p, s[1], s[2]) = FreeEmptySlab(g, s[1], s[2])
    BY <1>2, <2>1 DEF slabDelete
  <2> HIDE DEF g, slab
  <2> QED
    BY <2>1, <2>2 DEF FreeEmptySlab
<1>7. last <=> Taken(g, slab) = {}
  BY <1>5, EmptyIs
<1> HIDE DEF last
<1>8. CASE Taken(g, slab) = {}
  <2>1. Taken(h, slab) = {n}
    BY <1>3, <1>8
  <2> HIDE DEF g
  <2>2. Frees(end, h, Cells(h, A), c)
    BY <1>4, <2>1, SlabFreed
  <2> QED
    BY <1>6, <1>7, <1>8, <2>2
<1>9. CASE Taken(g, slab) # {}
  <2> HIDE DEF g
  <2>1. Frees(g, h, Cells(h, A), c)
    BY <1>3, <1>4, <1>9, SlotFreed
  <2> QED
    BY <1>6, <1>7, <1>9, <2>1
<1> QED
  BY <1>8, <1>9

(* A pointer in the range of a slab is in its block. *)
LEMMA InSlabIs ==
  ASSUME NEW h, NEW A, Memory(h, A), NEW c, NEW b \in A, Within(h, b, c), NEW s \in SlabsOf(h, c[1])
  PROVE  s \in Slabs /\ h.slabs[s] # NULL /\ b + 1 = h.slabs[s]
<1> DEFINE slab == h.slabs[s]
           e == slab - 1
           q == SlabPayload(s[1])
           p == c[1]
<1>1. s \in Slabs /\ s = <<s[1], s[2]>> /\ s[1] \in Kinds /\ InSlab(h, p, s[1], s[2])
  BY SlabIs DEF SlabsOf
<1>2. slab # NULL /\ p > slab /\ p < slab + q
  <2>1. h.slabs[s[1], s[2]] = slab
    BY <1>1
  <2> HIDE DEF slab, p, q
  <2> QED
    BY <1>1, <2>1 DEF InSlab, q
<1>3. /\ slab \in Nat /\ e \in A /\ e \in Nat /\ e + 1 = slab
      /\ SizeOf(h, e) \in Nat /\ SizeOf(h, e) >= q + 2
  BY <1>1, <1>2, SlabBlockIs
<1>4. q \in Nat
  BY <1>1, MapsFit
<1>5. p \in Nat /\ c[2] \in Nat /\ b \in Nat /\ SizeOf(h, b) \in Nat /\ b + 1 <= p /\ p + c[2] + 1 <= b + SizeOf(h, b)
  BY DEF Within
<1> HIDE DEF slab, e, q, p
<1>6. b = e
  <2> SUFFICES ASSUME b # e PROVE FALSE
    OBVIOUS
  <2>1. b + SizeOf(h, b) <= e \/ e + SizeOf(h, e) <= b
    BY <1>3, UsedBlocks DEF Memory
  <2> QED
    BY <1>2, <1>3, <1>4, <1>5, <2>1
<1>7. s \in Slabs /\ slab # NULL /\ b + 1 = slab
  BY <1>1, <1>2, <1>3, <1>6
<1> QED
  BY <1>7 DEF slab

(* free and realloc find the slab of a slot, and none for a block. *)
LEMMA SlabsOfIs ==
  ASSUME NEW h, NEW A, Memory(h, A), NEW c
  PROVE  /\ \A b \in A : FromBlock(h, b, c) => SlabsOf(h, c[1]) = {}
         /\ \A s \in Slabs : FromSlab(h, s, c) => SlabsOf(h, c[1]) = {s}
<1>1. ASSUME NEW b \in A, FromBlock(h, b, c) PROVE SlabsOf(h, c[1]) = {}
  <2> SUFFICES ASSUME NEW s \in SlabsOf(h, c[1]) PROVE FALSE
    OBVIOUS
  <2>1. Within(h, b, c)
    BY <1>1, FromWithin
  <2>2. s \in Slabs /\ h.slabs[s] # NULL /\ b + 1 = h.slabs[s]
    BY <2>1, InSlabIs
  <2>3. b + 1 \in SlabPtrs(h)
    BY <2>2, SlabPtrIs
  <2> QED
    BY <1>1, <2>3 DEF FromBlock
<1>2. ASSUME NEW s \in Slabs, FromSlab(h, s, c) PROVE SlabsOf(h, c[1]) = {s}
  <2> DEFINE b == h.slabs[s] - 1
  <2>1. b \in A /\ b + 1 = h.slabs[s] /\ Within(h, b, c)
    BY <1>2, FromWithin
  <2> HIDE DEF b
  <2>2. ASSUME NEW t \in SlabsOf(h, c[1]) PROVE t = s
    <3>1. t \in Slabs /\ h.slabs[t] # NULL /\ b + 1 = h.slabs[t]
      BY <2>1, InSlabIs
    <3> QED
      BY <2>1, <3>1 DEF Memory, SlabsSound
  <2>3. s \in SlabsOf(h, c[1])
    <3>1. h.slabs[s] # NULL
      BY <1>2 DEF FromSlab
    <3>2. PICK n \in Numbers : c = <<SlotAt(h.slabs[s], s[1], n), s[1]>>
      BY <1>2 DEF FromSlab, Taken
    <3>3. s[1] \in Kinds /\ s = <<s[1], s[2]>> /\ h.slabs[s] \in Nat
      BY <3>1, SlabIs, SlabBlockIs
    <3> DEFINE slab == h.slabs[s]
               p == SlotAt(slab, s[1], n)
    <3>4. h.slabs[s[1], s[2]] = slab /\ c[1] = p
      BY <3>2, <3>3
    <3>5. slab \in Nat /\ slab # NULL
      BY <3>1, <3>3
    <3> HIDE DEF slab
    <3>6. p \in Nat /\ slab + NumMaps <= p /\ p + s[1] <= slab + SlabPayload(s[1]) /\ s[1] \in Nat /\ s[1] > 0
      <4>1. s[1] > 0
        BY <3>3 DEF Kinds
      <4> QED
        BY <3>3, <3>5, <4>1, SlotAtIs
    <3>7. NumMaps \in Nat /\ NumMaps > 0 /\ SlabPayload(s[1]) \in Nat
      BY <3>3, MapsFit
    <3> HIDE DEF p
    <3>8. p > slab /\ p < slab + SlabPayload(s[1])
      BY <3>5, <3>6, <3>7
    <3> QED
      BY <3>4, <3>5, <3>8 DEF SlabsOf, InSlab
  <2> QED
    BY <2>2, <2>3
<1> QED
  BY <1>1, <1>2

(* free of any cell. *)
LEMMA FreeIs ==
  ASSUME NEW h, NEW C, Holds(h, C), h.brk <= MaxHeap + 1, NEW c \in C
  PROVE  Frees(free(h, c[1]), h, C, c)
<1>1. PICK A : Memory(h, A) /\ C = Cells(h, A)
  BY DEF Holds
<1>2. (\E b \in A : FromBlock(h, b, c)) \/ (\E s \in Slabs : FromSlab(h, s, c))
  BY <1>1, CellIs DEF FromBlock, FromSlab
<1>3. CASE \E b \in A : FromBlock(h, b, c)
  <2>1. PICK b \in A : FromBlock(h, b, c)
    BY <1>3
  <2>2. b \in Nat /\ c[1] = b + 1 /\ b + 1 \notin SlabPtrs(h) /\ c = <<b + 1, SizeOf(h, b) - 2>>
    BY <1>1, <2>1, UsedBlocks DEF FromBlock, Memory
  <2>3. SlabsOf(h, c[1]) = {} /\ c[1] - 1 = b
    BY <1>1, <2>1, <2>2, SlabsOfIs
  <2>4. free(h, c[1]) = BlockFree(h, b)
    BY <2>3 DEF free, FreeIn
  <2>5. Frees(BlockFree(h, b), h, C, <<b + 1, SizeOf(h, b) - 2>>)
    BY <1>1, <2>2, BlockFrees
  <2> QED
    BY <2>2, <2>4, <2>5
<1>4. CASE \E s \in Slabs : FromSlab(h, s, c)
  <2>1. PICK s \in Slabs : FromSlab(h, s, c)
    BY <1>4
  <2>2. PICK n \in Taken(h, h.slabs[s]) : c = <<SlotAt(h.slabs[s], s[1], n), s[1]>>
    BY <2>1 DEF FromSlab
  <2>3. SlabsOf(h, c[1]) = {s} /\ h.slabs[s] # NULL
    BY <1>1, <2>1, SlabsOfIs DEF FromSlab
  <2>4. free(h, c[1]) = slabDelete(h, c[1], s[1], s[2])
    BY <2>3 DEF free, FreeIn
  <2>5. c[1] = SlotAt(h.slabs[s], s[1], n)
    BY <2>2
  <2>6. Frees(slabDelete(h, SlotAt(h.slabs[s], s[1], n), s[1], s[2]), h, Cells(h, A),
               <<SlotAt(h.slabs[s], s[1], n), s[1]>>)
    BY <1>1, <2>3, SlabDeleteIs
  <2> QED
    BY <1>1, <2>2, <2>4, <2>5, <2>6
<1> QED
  BY <1>2, <1>3, <1>4

-----------------------------------------------------------------------------
(* Words are written behind the allocator's back. *)

(* The bitmaps of all slabs are the same. *)
SameBitmaps(g, h) ==
  \A s \in Slabs : h.slabs[s] # NULL =>
    \A j \in 0 .. NumMaps - 1 : g.mem[h.slabs[s] + j] = h.mem[h.slabs[s] + j]

(* Where tags and bitmaps are the same, the cells are. *)
LEMMA CellsSame ==
  ASSUME NEW h, NEW A, Memory(h, A), NEW g, Sound(g, A), \A b \in A : SizeOf(g, b) = SizeOf(h, b),
         g.slabs = h.slabs, SameBitmaps(g, h)
  PROVE  Memory(g, A) /\ Cells(g, A) = Cells(h, A)
<1>1. ASSUME NEW s \in Slabs, h.slabs[s] # NULL
      PROVE  SlabSound(g, A, s[1], h.slabs[s]) /\ Taken(g, h.slabs[s]) = Taken(h, h.slabs[s])
  <2> DEFINE slab == h.slabs[s]
  <2>1. SlabSound(h, A, s[1], slab) /\ \A j \in 0 .. NumMaps - 1 : g.mem[slab + j] = h.mem[slab + j]
    BY <1>1 DEF Memory, SlabsSound, SameBitmaps
  <2> HIDE DEF slab
  <2>2. \A n \in Numbers : Used(g, slab, n \div Slots) = Used(h, slab, n \div Slots)
    <3> SUFFICES ASSUME NEW n \in Numbers PROVE Used(g, slab, n \div Slots) = Used(h, slab, n \div Slots)
      OBVIOUS
    <3>1. n \div Slots \in 0 .. NumMaps - 1
      BY NumberedSlots DEF Numbers
    <3> QED
      BY <2>1, <3>1 DEF Used
  <2>3. Taken(g, slab) = Taken(h, slab)
    BY <2>2 DEF Taken
  <2>4. Bitmapped(g, slab)
    BY <2>1 DEF SlabSound, Bitmapped
  <2>5. SlabSound(g, A, s[1], slab)
    BY <2>1, <2>3, <2>4 DEF SlabSound
  <2> QED
    BY <2>3, <2>5 DEF slab
<1>2. Memory(g, A)
  BY <1>1 DEF Memory, SlabsSound
<1>3. SlabPtrs(g) = SlabPtrs(h)
  BY DEF SlabPtrs
<1>4. ASSUME NEW c PROVE c \in Cells(g, A) <=> c \in Cells(h, A)
  <2>1. (\E b \in A : b + 1 \notin SlabPtrs(g) /\ c = <<b + 1, SizeOf(g, b) - 2>>)
          <=> \E b \in A : b + 1 \notin SlabPtrs(h) /\ c = <<b + 1, SizeOf(h, b) - 2>>
    BY <1>3
  <2>2. (\E s \in Slabs : g.slabs[s] # NULL
           /\ \E n \in Taken(g, g.slabs[s]) : c = <<SlotAt(g.slabs[s], s[1], n), s[1]>>)
          <=> (\E s \in Slabs : h.slabs[s] # NULL
                 /\ \E n \in Taken(h, h.slabs[s]) : c = <<SlotAt(h.slabs[s], s[1], n), s[1]>>)
    BY <1>1
  <2>3. c \in Cells(g, A) <=>
          \/ \E b \in A : b + 1 \notin SlabPtrs(g) /\ c = <<b + 1, SizeOf(g, b) - 2>>
          \/ \E s \in Slabs : g.slabs[s] # NULL
               /\ \E n \in Taken(g, g.slabs[s]) : c = <<SlotAt(g.slabs[s], s[1], n), s[1]>>
    BY ONLY CellIs
  <2>4. c \in Cells(h, A) <=>
          \/ \E b \in A : b + 1 \notin SlabPtrs(h) /\ c = <<b + 1, SizeOf(h, b) - 2>>
          \/ \E s \in Slabs : h.slabs[s] # NULL
               /\ \E n \in Taken(h, h.slabs[s]) : c = <<SlotAt(h.slabs[s], s[1], n), s[1]>>
    BY CellIs
  <2> QED
    BY <2>1, <2>2, <2>3, <2>4
<1> QED
  BY <1>2, <1>4

(* g differs from h in the cell c only. *)
Written(g, h, c) ==
  /\ Typed(g) /\ g.brk = h.brk /\ g.lists = h.lists /\ g.slabs = h.slabs
  /\ \A a \in 1 .. h.brk - 1 : a < c[1] \/ a >= c[1] + c[2] => g.mem[a] = h.mem[a]
(* The heap is as good as before. *)
Filled(g, h, C, c) == Holds(g, C) /\ Unmoved(g, h, C \ {c}) /\ g.brk = h.brk

(* A write inside of a cell leaves a heap with the same cells, the others *)
(* untouched.                                                             *)
LEMMA FilledIs ==
  ASSUME NEW h, NEW C, Holds(h, C), NEW c \in C, NEW g, Written(g, h, c)
  PROVE  Filled(g, h, C, c)
<1>1. PICK A : Memory(h, A) /\ C = Cells(h, A)
  BY DEF Holds
<1>2. PICK b \in A : InBlock(h, A, c, b)
  BY <1>1, CellIn
<1>3. /\ b \in Nat /\ b >= 2 /\ SizeOf(h, b) \in Nat /\ b + SizeOf(h, b) <= h.brk
      /\ h.brk \in Nat /\ Sound(h, A)
  BY <1>1, UsedBlocks DEF Memory
<1>4. c[1] \in Nat /\ c[2] \in Nat /\ b + 1 <= c[1] /\ c[1] + c[2] + 1 <= b + SizeOf(h, b)
  BY <1>2 DEF InBlock, Within
<1>5. Inside(g, h, b)
  <2> SUFFICES ASSUME NEW a \in 1 .. h.brk - 1, a <= b \/ a >= b + SizeOf(h, b) - 1
               PROVE  g.mem[a] = h.mem[a]
    BY DEF Inside, Written
  <2>1. a < c[1] \/ a >= c[1] + c[2]
    BY <1>3, <1>4
  <2> QED
    BY <2>1 DEF Written
<1>6. Touched(g, h, A, b)
  BY <1>3, <1>5, TouchedIs
<1>7. SameBitmaps(g, h)
  <2> SUFFICES ASSUME NEW s \in Slabs, h.slabs[s] # NULL, NEW j \in 0 .. NumMaps - 1
               PROVE  g.mem[h.slabs[s] + j] = h.mem[h.slabs[s] + j]
    BY DEF SameBitmaps
  <2> DEFINE slab == h.slabs[s]
             e == slab - 1
  <2>1. /\ slab \in Nat /\ e \in A /\ e \in Nat /\ e + 1 = slab /\ SizeOf(h, e) \in Nat
        /\ SizeOf(h, e) >= SlabPayload(s[1]) + 2 /\ e + SizeOf(h, e) <= h.brk /\ slab \in SlabPtrs(h)
    BY <1>1, SlabBlockIs
  <2>2. NumMaps \in Nat /\ NumMaps > 0 /\ SlabPayload(s[1]) \in Nat /\ SlabPayload(s[1]) > NumMaps
    BY SlabIs, MapsFit
  <2>3. CASE e # b
    <3>1. slab + j \in e .. e + SizeOf(h, e) - 1
      BY <2>1, <2>2
    <3> HIDE DEF slab, e
    <3>2. \A x \in A \ {b} : \A a \in x .. x + SizeOf(h, x) - 1 : g.mem[a] = h.mem[a]
      BY <1>6 DEF Touched
    <3>3. g.mem[slab + j] = h.mem[slab + j]
      BY <2>1, <2>3, <3>1, <3>2
    <3> QED
      BY <3>3 DEF slab
  <2>4. CASE e = b
    <3>1. PICK t \in Slabs : /\ h.slabs[t] # NULL /\ b = h.slabs[t] - 1
                             /\ \E n \in Taken(h, h.slabs[t]) : c = <<SlotAt(h.slabs[t], t[1], n), t[1]>>
      BY <1>2, <2>1, <2>4 DEF InBlock
    <3>2. h.slabs[t] - 1 + 1 = h.slabs[t]
      BY <1>1, <3>1, SlabBlockIs
    <3>3. h.slabs[t] = slab
      BY <2>1, <2>4, <3>1, <3>2
    <3>4. PICK n \in Numbers : c = <<SlotAt(h.slabs[t], t[1], n), t[1]>>
      BY <3>1 DEF Taken
    <3>5. slab + NumMaps <= c[1]
      BY <1>1, <3>1, <3>3, <3>4, SlotWithin
    <3> HIDE DEF slab, e
    <3>6. slab + j \in 1 .. h.brk - 1 /\ slab + j < c[1]
      BY <1>3, <1>4, <2>1, <2>2, <3>5
    <3>7. g.mem[slab + j] = h.mem[slab + j]
      BY <3>6 DEF Written
    <3> QED
      BY <3>7 DEF slab
  <2> QED
    BY <2>3, <2>4
<1>8. Memory(g, A) /\ Cells(g, A) = C
  <2>1. Sound(g, A) /\ (\A x \in A : SizeOf(g, x) = SizeOf(h, x)) /\ g.slabs = h.slabs
    BY <1>6 DEF Touched, Written
  <2> QED
    BY <1>1, <1>7, <2>1, CellsSame
<1>9. Unmoved(g, h, C \ {c})
  <2> SUFFICES ASSUME NEW d \in C, d # c, NEW a \in d[1] .. d[1] + d[2] - 1 PROVE g.mem[a] = h.mem[a]
    BY DEF Unmoved
  <2>1. Apart(c, d)
    BY <1>1, CellsApart
  <2>2. PICK e \in A : InBlock(h, A, d, e)
    BY <1>1, CellIn
  <2>3. /\ d[1] \in Nat /\ d[2] \in Nat /\ e \in Nat /\ SizeOf(h, e) \in Nat
        /\ e + 1 <= d[1] /\ d[1] + d[2] + 1 <= e + SizeOf(h, e) /\ e + SizeOf(h, e) <= h.brk
    BY <2>2 DEF InBlock, Within
  <2>4. a \in 1 .. h.brk - 1 /\ (a < c[1] \/ a >= c[1] + c[2])
    BY <1>3, <1>4, <2>1, <2>3 DEF Apart
  <2> QED
    BY <2>4 DEF Written
<1> QED
  BY <1>8, <1>9 DEF Filled, Holds, Written

(* The cells are in the heap, aligned, and apart. *)
LEMMA HoldsIs ==
  ASSUME NEW h, NEW C, Holds(h, C)
  PROVE  /\ Typed(h) /\ h.brk \in Nat
         /\ \A c \in C : c[1] \in Nat /\ c[2] \in Nat /\ c[1] > 0 /\ c[1] % 2 = 1 /\ c[1] + c[2] <= h.brk
         /\ \A c, d \in C : c # d => Apart(c, d)
<1>1. PICK A : Memory(h, A) /\ C = Cells(h, A)
  BY DEF Holds
<1>2. Typed(h) /\ h.brk \in Nat
  BY <1>1, UsedBlocks DEF Memory
<1>3. ASSUME NEW c \in C
      PROVE  c[1] \in Nat /\ c[2] \in Nat /\ c[1] > 0 /\ c[1] % 2 = 1 /\ c[1] + c[2] <= h.brk
  <2>1. PICK b \in A : InBlock(h, A, c, b)
    BY <1>1, CellIn
  <2>2. Within(h, b, c)
    BY <2>1 DEF InBlock
  <2> QED
    BY <1>2, <2>2 DEF Within
<1>4. \A c, d \in C : c # d => Apart(c, d)
  BY <1>1, CellsApart
<1> QED
  BY <1>2, <1>3, <1>4

(* Write inside of a cell. *)
LEMMA WriteFills ==
  ASSUME NEW h, NEW C, Holds(h, C), NEW c \in C, NEW words,
         DOMAIN words \subseteq c[1] .. c[1] + c[2] - 1, \A a \in DOMAIN words : words[a] \in Word
  PROVE  /\ Filled(Write(h, words), h, C, c)
         /\ \A a \in DOMAIN words : Write(h, words).mem[a] = words[a]
<1> DEFINE g == Write(h, words)
<1>1. Typed(h) /\ h.brk \in Nat /\ c[1] \in Nat /\ c[2] \in Nat /\ c[1] > 0 /\ c[1] + c[2] <= h.brk
  BY HoldsIs
<1>2. /\ Typed(g) /\ g.brk = h.brk /\ g.lists = h.lists /\ g.slabs = h.slabs
      /\ \A a \in 1 .. h.brk - 1 : g.mem[a] = IF a \in DOMAIN words THEN words[a] ELSE h.mem[a]
  BY <1>1, WriteIs
<1> HIDE DEF g
<1>3. Written(g, h, c)
  <2> SUFFICES ASSUME NEW a \in 1 .. h.brk - 1, a < c[1] \/ a >= c[1] + c[2] PROVE g.mem[a] = h.mem[a]
    BY <1>2 DEF Written
  <2>1. a \notin DOMAIN words
    BY <1>1
  <2> QED
    BY <1>2, <2>1
<1>4. \A a \in DOMAIN words : g.mem[a] = words[a]
  <2> SUFFICES ASSUME NEW a \in DOMAIN words PROVE g.mem[a] = words[a]
    OBVIOUS
  <2>1. a \in 1 .. h.brk - 1
    BY <1>1
  <2> QED
    BY <1>2, <2>1
<1> QED
  BY <1>3, <1>4, FilledIs DEF g

(* n words are copied into the cell c. *)
Copied(g, h, C, c, n, from, k) ==
  Filled(g, h, C, c) /\ \A i \in 0 .. n - 1 : g.mem[c[1] + i] = k.mem[from + i]
(* Copy into a cell. *)
LEMMA CopyIs ==
  ASSUME NEW h, NEW C, Holds(h, C), NEW c \in C, NEW n \in Nat, n <= c[2], NEW from \in Nat, from > 0,
         NEW k, Typed(k), from + n <= k.brk
  PROVE  Copied(Copy(h, c[1], from, n, k), h, C, c, n, from, k)
<1> DEFINE to == c[1]
           words == [a \in to .. to + n - 1 |-> k.mem[from + a - to]]
           g == Copy(h, to, from, n, k)
<1>1. to \in Nat /\ c[2] \in Nat /\ k.brk \in Nat /\ k.mem \in [1 .. k.brk - 1 -> Word]
  BY HoldsIs, TypedIs
<1>2. DOMAIN words \subseteq c[1] .. c[1] + c[2] - 1
  BY <1>1
<1>3. \A a \in DOMAIN words : words[a] \in Word
  <2> SUFFICES ASSUME NEW a \in to .. to + n - 1 PROVE k.mem[from + a - to] \in Word
    OBVIOUS
  <2>1. from + a - to \in 1 .. k.brk - 1
    BY <1>1
  <2> QED
    BY <1>1, <2>1
<1>4. g = Write(h, words)
  BY DEF Copy
<1>5. ASSUME NEW i \in 0 .. n - 1 PROVE to + i \in DOMAIN words /\ words[to + i] = k.mem[from + i]
  <2>1. to + i \in to .. to + n - 1 /\ from + (to + i) - to = from + i
    BY <1>1
  <2> QED
    BY <2>1
<1> HIDE DEF g, words
<1>6. Filled(g, h, C, c) /\ \A a \in DOMAIN words : g.mem[a] = words[a]
  BY <1>2, <1>3, <1>4, WriteFills
<1>7. \A i \in 0 .. n - 1 : g.mem[to + i] = k.mem[from + i]
  BY <1>5, <1>6
<1>8. Copied(g, h, C, c, n, from, k)
  BY <1>6, <1>7 DEF Copied
<1> QED
  BY <1>8 DEF g

(* The cell c is cut in two. *)
CutIn(g, h, C, c, kept, end) ==
  LET rest == C \ {c}
  IN  /\ Holds(g, rest \cup {kept, end}) /\ kept \notin rest /\ end \notin rest /\ kept # end
      /\ Unmoved(g, h, rest) /\ g.brk = h.brk
(* The cut of a block in use cuts its cell. *)
LEMMA CutCells ==
  ASSUME NEW h, NEW A, Memory(h, A), NEW b \in A, b + 1 \notin SlabPtrs(h),
         NEW new \in Nat, new >= 2, new % 2 = 0, new < SizeOf(h, b)
  PROVE  CutIn(Cut(h, b, SizeOf(h, b), new), h, Cells(h, A), <<b + 1, SizeOf(h, b) - 2>>,
               <<b + 1, new - 2>>, <<b + new + 1, SizeOf(h, b) - new - 2>>)
<1> DEFINE g == Cut(h, b, SizeOf(h, b), new)
           c == <<b + 1, SizeOf(h, b) - 2>>
           kept == <<b + 1, new - 2>>
           d == b + new
           end == <<d + 1, SizeOf(h, b) - new - 2>>
           U == A \ {b}
           V == A \cup {d}
<1>1. b \in Nat /\ SizeOf(h, b) \in Nat /\ h.brk \in Nat
  BY UsedBlocks DEF Memory
<1>2. /\ Turns(g, h, V, U) /\ SameBreak(g, h) /\ d \notin A
      /\ SizeOf(g, b) = new /\ SizeOf(g, d) = SizeOf(h, b) - new
  <2>1. Sound(h, A)
    BY DEF Memory
  <2> QED
    BY <2>1, CutIs
<1>3. d \in Nat /\ d # b /\ kept # end
  BY <1>1
<1>4. b + 1 \in Nat
  BY <1>1
<1> HIDE DEF g, d
<1>5. Sound(g, V) /\ Kept(g, h, U) /\ g.brk = h.brk
  BY <1>2 DEF Turns, SameBreak
<1>6. U \subseteq A /\ U \subseteq V /\ \A s \in Slabs : h.slabs[s] # NULL => h.slabs[s] - 1 \in U
  <2> SUFFICES ASSUME NEW s \in Slabs, h.slabs[s] # NULL PROVE h.slabs[s] - 1 \in U
    OBVIOUS
  <2>1. h.slabs[s] - 1 \in A /\ h.slabs[s] - 1 + 1 = h.slabs[s] /\ h.slabs[s] \in SlabPtrs(h)
    BY SlabBlockIs
  <2> QED
    BY <2>1
<1>7. V \ U = {b, d} /\ A \ U = {b}
  BY <1>2
<1>8. OwnCells(g, {b, d}) = {kept, end} /\ OwnCells(h, {b}) = {c}
  BY <1>2 DEF OwnCells
<1> HIDE DEF U, V, c, kept, end
<1>9. Renews(g, h, A, V, U)
  BY <1>5, <1>6, RenewsIs
<1>10. /\ Memory(g, V) /\ Cells(g, V) = Cells(h, U) \cup {kept, end} /\ Cells(h, A) = Cells(h, U) \cup {c}
       /\ Cells(h, U) \cap {kept, end} = {} /\ Cells(h, U) \cap {c} = {} /\ Unmoved(g, h, Cells(h, U))
  BY <1>7, <1>8, <1>9 DEF Renews
<1>11. Cells(h, A) \ {c} = Cells(h, U)
  BY <1>10
<1>12. CutIn(g, h, Cells(h, A), c, kept, end)
  BY <1>3, <1>5, <1>10, <1>11 DEF CutIn, Holds
<1> QED
  BY <1>12 DEF g, c, kept, end, d

-----------------------------------------------------------------------------
(* realloc *)

(* The cell c becomes a cell of size words at least, which begins with the   *)
(* words of c if c was a block; the others are untouched.                    *)
Reallocates(r, h, C, c, size) ==
  \E d : /\ d \notin C \ {c} /\ d[1] = r.ptr /\ d[2] \in Nat /\ d[2] >= size
         /\ Holds(r.heap, (C \ {c}) \cup {d}) /\ Unmoved(r.heap, h, C \ {c})
         /\ SlabsOf(h, c[1]) = {} =>
              \A i \in Nat : i < size /\ i < c[2] => r.heap.mem[r.ptr + i] = h.mem[c[1] + i]

(* A cell that is large enough stays where it is. *)
LEMMA SamePtr ==
  ASSUME NEW h, NEW C, Holds(h, C), NEW c \in C, NEW size \in Nat, c[2] >= size
  PROVE  Reallocates([heap |-> h, ptr |-> c[1]], h, C, c, size)
<1> DEFINE r == [heap |-> h, ptr |-> c[1]]
<1>1. r.heap = h /\ r.ptr = c[1] /\ (C \ {c}) \cup {c} = C /\ c[2] \in Nat
  BY HoldsIs
<1> HIDE DEF r
<1>2. Reallocates(r, h, C, c, size)
  BY <1>1 DEF Reallocates, Unmoved
<1> QED
  BY <1>2 DEF r

(* malloc after free, and n words copied from k. *)
Moves(r, h, C, c, size, n, k) ==
  \E d : /\ d \notin C \ {c} /\ d[1] = r.ptr /\ d[2] \in Nat /\ d[2] >= size
         /\ Holds(r.heap, (C \ {c}) \cup {d}) /\ Unmoved(r.heap, h, C \ {c})
         /\ \A i \in 0 .. n - 1 : r.heap.mem[r.ptr + i] = k.mem[c[1] + i]
(* free, malloc, copy: the cell moves, with what the copy brought along. *)
LEMMA MovedIs ==
  ASSUME NEW h, NEW C, Holds(h, C), h.brk <= MaxHeap + 1, NEW c \in C, NEW size \in Sizes,
         NEW g, Frees(g, h, C, c), NEW n \in Nat, n <= BlockSize(size) - 2, n <= c[2],
         NEW k, Typed(k), h.brk <= k.brk
  PROVE  Moves(WithCopy(malloc(g, size), c[1], n, k), h, C, c, size, n, k)
<1> DEFINE m == malloc(g, size)
           r == WithCopy(m, c[1], n, k)
           D == C \ {c}
           room == BlockSize(size) - 2
<1>1. Holds(g, D) /\ Unmoved(g, h, D) /\ g.brk = h.brk
  BY DEF Frees
<1>2. room \in Nat /\ room >= size /\ size \in Nat
  BY RequestIs DEF Requests
<1> HIDE DEF D, room
<1>3. Allocates(m, g, D, room)
  BY <1>1, MallocIs DEF room
<1>4. r = [m EXCEPT !.heap = Copy(m.heap, m.ptr, c[1], n, k)]
  BY DEF WithCopy
<1>10. n <= room
  BY DEF room
<1>5. c[1] \in Nat /\ c[1] > 0 /\ c[2] \in Nat /\ c[1] + c[2] <= h.brk /\ h.brk \in Nat
  BY HoldsIs
<1> HIDE DEF m, r
<1>6. PICK d : /\ d \notin D /\ d[1] = m.ptr /\ d[2] \in Nat /\ d[2] >= room
               /\ Holds(m.heap, D \cup {d}) /\ Unmoved(m.heap, g, D)
  BY <1>3 DEF Allocates
<1>7. r.heap = Copy(m.heap, m.ptr, c[1], n, k) /\ r.ptr = m.ptr
  BY <1>4
<1> DEFINE f == Copy(m.heap, d[1], c[1], n, k)
<1>8. Copied(f, m.heap, D \cup {d}, d, n, c[1], k)
  <2>1. k.brk \in Nat
    BY TypedIs
  <2>2. n <= d[2] /\ c[1] + n <= k.brk
    BY <1>2, <1>5, <1>6, <1>10, <2>1
  <2>3. d \in D \cup {d}
    OBVIOUS
  <2> QED
    BY <1>5, <1>6, <2>2, <2>3, CopyIs
<1>9. r.heap = f /\ r.ptr = d[1]
  BY <1>6, <1>7
<1> HIDE DEF f
<1>11. Holds(f, D \cup {d}) /\ Unmoved(f, m.heap, D)
  <2>1. (D \cup {d}) \ {d} = D
    BY <1>6
  <2> QED
    BY <1>8, <2>1 DEF Copied, Filled
<1>12. Unmoved(f, h, D)
  BY <1>1, <1>6, <1>11 DEF Unmoved
<1>13. d[2] >= size
  BY <1>2, <1>6
<1>14. \A i \in 0 .. n - 1 : f.mem[d[1] + i] = k.mem[c[1] + i]
  BY <1>8 DEF Copied
<1>15. Moves(r, h, C, c, size, n, k)
  BY <1>6, <1>9, <1>11, <1>12, <1>13, <1>14 DEF Moves, D
<1> QED
  BY <1>15 DEF r, m

(* realloc of a block to a larger one. *)
LEMMA GrowIs ==
  ASSUME NEW h, NEW C, Holds(h, C), h.brk <= MaxHeap + 1, NEW c \in C, NEW size \in Sizes,
         c[2] <= BlockSize(size) - 2
  PROVE  Reallocates(Grow(h, c[1], c[2] + 2, size), h, C, c, size)
<1> DEFINE g == free(h, c[1])
           n == c[2]
           r == WithCopy(malloc(g, size), c[1], n, h)
<1>1. n \in Nat /\ n <= BlockSize(size) - 2 /\ n <= c[2] /\ Typed(h) /\ h.brk <= h.brk
  BY HoldsIs
<1>2. Grow(h, c[1], c[2] + 2, size) = r
  <2> DEFINE old == c[2] + 2
  <2>1. old - 2 = n
    BY <1>1
  <2> HIDE DEF old, n
  <2>2. Grow(h, c[1], old, size) = WithCopy(malloc(g, size), c[1], old - 2, h)
    BY DEF Grow
  <2> QED
    BY <2>1, <2>2 DEF old
<1>3. Frees(g, h, C, c)
  BY FreeIs
<1> HIDE DEF g, n
<1>4. Moves(r, h, C, c, size, n, h)
  BY <1>1, <1>3, MovedIs
<1> HIDE DEF r
<1>5. PICK d : /\ d \notin C \ {c} /\ d[1] = r.ptr /\ d[2] \in Nat /\ d[2] >= size
               /\ Holds(r.heap, (C \ {c}) \cup {d}) /\ Unmoved(r.heap, h, C \ {c})
               /\ \A i \in 0 .. n - 1 : r.heap.mem[r.ptr + i] = h.mem[c[1] + i]
  BY <1>4 DEF Moves
<1>6. \A i \in Nat : i < size /\ i < c[2] => r.heap.mem[r.ptr + i] = h.mem[c[1] + i]
  <2>1. \A i \in Nat : i < c[2] => i \in 0 .. n - 1
    BY <1>1 DEF n
  <2> QED
    BY <1>5, <2>1
<1>7. Reallocates(r, h, C, c, size)
  BY <1>5, <1>6 DEF Reallocates
<1> QED
  BY <1>2, <1>7

(* realloc of a slot. *)
LEMMA SlabReallocIs ==
  ASSUME NEW h, NEW C, NEW A, Memory(h, A), C = Cells(h, A), h.brk <= MaxHeap + 1, NEW s \in Slabs,
         NEW n \in Taken(h, h.slabs[s]), h.slabs[s] # NULL, NEW c \in C,
         c = <<SlotAt(h.slabs[s], s[1], n), s[1]>>, SlabsOf(h, c[1]) # {}, NEW size \in Sizes
  PROVE  Reallocates(SlabRealloc(h, c[1], size, s[1], s[2]), h, C, c, size)
<1> DEFINE kind == s[1]
           n2 == IF kind = 2 \/ size <= 2 THEN 2 ELSE 4
           g == slabDelete(h, c[1], kind, s[2])
           m == malloc(g, size)
           k == m.heap
           r == WithCopy(m, c[1], n2, k)
           here == size <= kind /\ (kind = 4 => size > 2)
<1>1. /\ kind \in {2, 4} /\ c[2] = kind /\ c[1] = SlotAt(h.slabs[s], kind, n) /\ Holds(h, C)
      /\ size \in Nat /\ size >= 1
  BY SlabIs, RequestIs DEF Kinds, Holds, Requests
<1>2. SlabRealloc(h, c[1], size, kind, s[2]) = IF here THEN [heap |-> h, ptr |-> c[1]] ELSE r
  BY DEF SlabRealloc, WithLateCopy
<1>3. CASE here
  <2>1. c[2] >= size
    BY <1>1, <1>3
  <2> HIDE DEF here, r, kind
  <2> QED
    BY <1>1, <1>2, <1>3, <2>1, SamePtr DEF kind
<1>4. CASE ~here
  <2>1. Frees(g, h, C, c)
    BY <1>1, SlabDeleteIs
  <2>2. n2 \in Nat /\ n2 <= BlockSize(size) - 2 /\ n2 <= c[2]
    BY <1>1 DEF BlockSize
  <2> HIDE DEF n2, g, kind
  <2>3. Holds(g, C \ {c}) /\ g.brk = h.brk
    BY <2>1 DEF Frees
  <2>4. Allocates(m, g, C \ {c}, BlockSize(size) - 2)
    BY <2>3, MallocIs
  <2>5. Typed(k) /\ h.brk <= k.brk
    <3>1. PICK d : Holds(k, (C \ {c}) \cup {d}) /\ g.brk <= k.brk
      BY <2>4 DEF Allocates
    <3> QED
      BY <2>3, <3>1, HoldsIs
  <2> HIDE DEF k
  <2>6. Moves(r, h, C, c, size, n2, k)
    BY <1>1, <2>1, <2>2, <2>5, MovedIs
  <2> HIDE DEF r, here
  <2>7. Reallocates(r, h, C, c, size)
    BY <2>6 DEF Moves, Reallocates
  <2> QED
    BY <1>2, <1>4, <2>7 DEF kind
<1> QED
  BY <1>3, <1>4

(* realloc of a block to a smaller one, in place or moved into a slab. *)
LEMMA ShrinkIs ==
  ASSUME NEW h, NEW A, Memory(h, A), h.brk <= MaxHeap + 1, NEW b \in A, b + 1 \notin SlabPtrs(h),
         NEW size \in Sizes, BlockSize(size) < SizeOf(h, b)
  PROVE  Reallocates([heap |-> Shrink(h, b + 1, SizeOf(h, b), BlockSize(size), size), ptr |-> b + 1],
                     h, Cells(h, A), <<b + 1, SizeOf(h, b) - 2>>, size)
<1> DEFINE new == BlockSize(size)
           old == SizeOf(h, b)
           cut == Cut(h, b, old, new)
           c == <<b + 1, old - 2>>
           kept == <<b + 1, new - 2>>
           end == <<b + new + 1, old - new - 2>>
           C == Cells(h, A)
           rest == C \ {c}
           g == free(cut, b + new + 1)
           f == Copy(g, b + 1, b + 1, size, h)
           r == [heap |-> f, ptr |-> b + 1]
<1>1. new \in Nat /\ new >= 4 /\ new >= 2 /\ new % 2 = 0 /\ new >= size + 2 /\ size \in Nat /\ new < old
  BY RequestIs DEF Requests
<1>2. b \in Nat /\ old \in Nat /\ b + old <= h.brk /\ h.brk \in Nat /\ Typed(h)
  BY UsedBlocks DEF Memory
<1> HIDE DEF new
<1>15. CutIn(cut, h, C, c, kept, end)
  BY <1>1, CutCells
<1>4. Shrink(h, b + 1, old, new, size) = f
  <2> DEFINE p == b + 1
             q == b + new + 1
  <2>1. p - 1 = b /\ p + new = q
    BY <1>1, <1>2
  <2>2. f = Copy(free(Cut(h, b, old, new), q), p, p, size, h)
    OBVIOUS
  <2> HIDE DEF p, q, f, old
  <2>3. Shrink(h, p, old, new, size) = Copy(free(Cut(h, p - 1, old, new), p + new), p, p, size, h)
    BY DEF Shrink
  <2> QED
    BY <2>1, <2>2, <2>3 DEF p, old
<1>5. c[1] = b + 1 /\ c[2] = old - 2 /\ kept[1] = b + 1 /\ kept[2] = new - 2 /\ end[1] = b + new + 1
  OBVIOUS
<1> HIDE DEF cut, kept, end, c
<1>3. /\ Holds(cut, rest \cup {kept, end}) /\ kept \notin rest /\ end \notin rest /\ kept # end
      /\ Unmoved(cut, h, rest) /\ cut.brk = h.brk
  BY <1>15 DEF CutIn
<1> HIDE DEF rest
<1>6. Frees(g, cut, rest \cup {kept, end}, end)
  <2>1. end \in rest \cup {kept, end} /\ cut.brk <= MaxHeap + 1
    BY <1>3
  <2>2. Frees(free(cut, end[1]), cut, rest \cup {kept, end}, end)
    BY <1>3, <2>1, FreeIs
  <2> QED
    BY <1>5, <2>2
<1> HIDE DEF g
<1>7. Holds(g, rest \cup {kept}) /\ Unmoved(g, cut, rest \cup {kept})
  <2>1. (rest \cup {kept, end}) \ {end} = rest \cup {kept}
    BY <1>3
  <2> QED
    BY <1>6, <2>1 DEF Frees
<1>8. /\ Filled(f, g, rest \cup {kept}, kept)
      /\ \A i \in 0 .. size - 1 : f.mem[b + 1 + i] = h.mem[b + 1 + i]
  <2> DEFINE p == b + 1
  <2>1. size <= kept[2] /\ p \in Nat /\ p > 0 /\ p + size <= h.brk
    BY <1>1, <1>2, <1>5
  <2>2. kept \in rest \cup {kept} /\ kept[1] = p
    BY <1>5
  <2> HIDE DEF p
  <2>3. Copied(Copy(g, kept[1], p, size, h), g, rest \cup {kept}, kept, size, p, h)
    BY <1>1, <1>2, <1>7, <2>1, <2>2, CopyIs
  <2> QED
    BY <2>2, <2>3 DEF Copied, p
<1> HIDE DEF f
<1>9. Holds(f, rest \cup {kept}) /\ Unmoved(f, g, rest)
  <2>1. (rest \cup {kept}) \ {kept} = rest
    BY <1>3
  <2> QED
    BY <1>8, <2>1 DEF Filled
<1>10. Unmoved(f, h, rest)
  BY <1>3, <1>7, <1>9 DEF Unmoved
<1>11. \A i \in Nat : i < size /\ i < c[2] => f.mem[b + 1 + i] = h.mem[c[1] + i]
  <2>1. \A i \in Nat : i < size => i \in 0 .. size - 1
    BY <1>1
  <2> QED
    BY <1>5, <1>8, <2>1
<1>12. r.heap = f /\ r.ptr = b + 1
  OBVIOUS
<1>13. kept[2] \in Nat /\ kept[2] >= size
  BY <1>1, <1>5
<1> HIDE DEF r
<1>14. Reallocates(r, h, C, c, size)
  BY <1>3, <1>5, <1>9, <1>10, <1>11, <1>12, <1>13 DEF Reallocates, rest
<1> QED
  BY <1>4, <1>14 DEF r, c, new

(* What realloc does: the cell is large enough and keeps its words if it *)
(* was a block, all others are untouched.                                *)
LEMMA ReallocIs ==
  ASSUME NEW h, NEW C, Holds(h, C), h.brk <= MaxHeap + 1, NEW c \in C, NEW size \in Sizes
  PROVE  Reallocates(realloc(h, c[1], size), h, C, c, size)
<1>1. PICK A : Memory(h, A) /\ C = Cells(h, A)
  BY DEF Holds
<1>2. (\E b \in A : FromBlock(h, b, c)) \/ (\E s \in Slabs : FromSlab(h, s, c))
  BY <1>1, CellIs DEF FromBlock, FromSlab
<1>3. CASE \E b \in A : FromBlock(h, b, c)
  <2>1. PICK b \in A : FromBlock(h, b, c)
    BY <1>3
  <2> DEFINE old == SizeOf(h, b)
             new == BlockSize(size)
             p == b + 1
  <2>2. b \in Nat /\ old \in Nat /\ c[1] = p /\ c[2] = old - 2 /\ p \notin SlabPtrs(h) /\ c = <<p, old - 2>>
    BY <1>1, <2>1, UsedBlocks DEF FromBlock, Memory
  <2>3. new \in Nat /\ new >= size + 2 /\ size \in Nat
    BY RequestIs DEF Requests
  <2>4. SlabsOf(h, c[1]) = {} /\ p - 1 = b /\ c[2] + 2 = old
    BY <1>1, <2>1, <2>2, SlabsOfIs
  <2>5. realloc(h, p, size) = BlockRealloc(h, p, old, new, size)
    <3>1. realloc(h, p, size) = BlockRealloc(h, p, SizeOf(h, p - 1), BlockSize(size), size)
      BY <2>2, <2>4 DEF realloc, ReallocIn
    <3> QED
      BY <2>4, <3>1
  <2>6. CASE old = new
    <3>1. c[2] >= size
      BY <2>2, <2>3, <2>6
    <3>2. realloc(h, p, size) = [heap |-> h, ptr |-> p]
      BY <2>5, <2>6 DEF BlockRealloc
    <3> QED
      BY <2>2, <2>3, <3>1, <3>2, SamePtr
  <2>7. CASE old > new
    <3>1. old # new
      BY <2>2, <2>3, <2>7
    <3>2. realloc(h, p, size) = [heap |-> Shrink(h, p, old, new, size), ptr |-> p]
      BY <2>5, <2>7, <3>1 DEF BlockRealloc
    <3>3. new < old
      BY <2>2, <2>3, <2>7
    <3>4. Reallocates([heap |-> Shrink(h, p, old, new, size), ptr |-> p], h, Cells(h, A), <<p, old - 2>>, size)
      BY <1>1, <2>2, <3>3, ShrinkIs
    <3> QED
      BY <1>1, <2>2, <3>2, <3>4
  <2>8. CASE ~(old = new) /\ ~(old > new)
    <3>1. c[2] <= new - 2
      BY <2>2, <2>3, <2>8
    <3>2. realloc(h, p, size) = Grow(h, p, old, size)
      BY <2>5, <2>8 DEF BlockRealloc
    <3>3. Reallocates(Grow(h, c[1], c[2] + 2, size), h, C, c, size)
      BY <3>1, GrowIs
    <3> HIDE DEF old, p
    <3> QED
      BY <2>2, <2>4, <3>2, <3>3
  <2> QED
    BY <2>6, <2>7, <2>8
<1>4. CASE \E s \in Slabs : FromSlab(h, s, c)
  <2>1. PICK s \in Slabs : FromSlab(h, s, c)
    BY <1>4
  <2>2. PICK n \in Taken(h, h.slabs[s]) : c = <<SlotAt(h.slabs[s], s[1], n), s[1]>>
    BY <2>1 DEF FromSlab
  <2>3. SlabsOf(h, c[1]) = {s} /\ h.slabs[s] # NULL /\ SlabsOf(h, c[1]) # {}
    BY <1>1, <2>1, SlabsOfIs DEF FromSlab
  <2>4. realloc(h, c[1], size) = SlabRealloc(h, c[1], size, s[1], s[2])
    BY <2>3 DEF realloc, ReallocIn
  <2>5. Reallocates(SlabRealloc(h, c[1], size, s[1], s[2]), h, C, c, size)
    BY <1>1, <2>2, <2>3, SlabReallocIs
  <2> QED
    BY <2>4, <2>5
<1> QED
  BY <1>2, <1>3, <1>4

-----------------------------------------------------------------------------
(* The driver *)

(* What is no longer read may be forgotten. *)
Forgotten(g, h, C, bs) ==
  /\ Holds(g, C) /\ g.brk = h.brk
  /\ \A a \in 1 .. h.brk - 1 : a \in Meaningful(h, bs) => g.mem[a] = h.mem[a]

(* Tags, links, bitmaps and the bytes of the ids are meaningful. *)
LEMMA MeaningfulIs ==
  ASSUME NEW h, NEW bs
  PROVE  /\ 1 \in Meaningful(h, bs)
         /\ \A b \in Heads(h) : b \in Meaningful(h, bs) /\ b + SizeOf(h, b) - 1 \in Meaningful(h, bs)
         /\ \A b \in Heads(h) : Linked(h, b) => b + 1 \in Meaningful(h, bs) /\ b + 2 \in Meaningful(h, bs)
         /\ \A p \in SlabPtrs(h) : \A a \in p .. p + NumMaps - 1 : a \in Meaningful(h, bs)
         /\ \A id \in Ids : \A a \in bs[id].ptr .. bs[id].ptr + bs[id].size - 1 : a \in Meaningful(h, bs)
<1> DEFINE P == SlabPtrs(h)
           H == Heads(h)
           D == {b \in H : Linked(h, b)}
           W == UNION {p .. p + NumMaps - 1 : p \in P}
           Y == UNION {bs[id].ptr .. bs[id].ptr + bs[id].size - 1 : id \in Ids}
           M == {1} \cup H \cup {b + SizeOf(h, b) - 1 : b \in H}
                  \cup {b + 1 : b \in D} \cup {b + 2 : b \in D} \cup W \cup Y
<1>1. Meaningful(h, bs) = M
  BY DEF Meaningful
<1>2. \A p \in P : \A a \in p .. p + NumMaps - 1 : a \in W
  OBVIOUS
<1>3. \A id \in Ids : \A a \in bs[id].ptr .. bs[id].ptr + bs[id].size - 1 : a \in Y
  OBVIOUS
<1> HIDE DEF W, Y, P, H
<1>4. /\ 1 \in M
      /\ \A b \in H : b \in M /\ b + SizeOf(h, b) - 1 \in M
      /\ \A b \in H : Linked(h, b) => b + 1 \in M /\ b + 2 \in M
      /\ \A a : a \in W \/ a \in Y => a \in M
  OBVIOUS
<1> HIDE DEF M
<1>5. \A p \in P : \A a \in p .. p + NumMaps - 1 : a \in M
  BY <1>2, <1>4
<1>6. \A id \in Ids : \A a \in bs[id].ptr .. bs[id].ptr + bs[id].size - 1 : a \in M
  BY <1>3, <1>4
<1> QED
  BY <1>1, <1>4, <1>5, <1>6 DEF P, H

(* Forgetting the words without a meaning changes no cell. *)
LEMMA ForgetIs ==
  ASSUME NEW h, NEW C, Holds(h, C), NEW bs
  PROVE  Forgotten(Forget(h, bs), h, C, bs)
<1> DEFINE g == Forget(h, bs)
           kept == Meaningful(h, bs)
           m == [a \in DOMAIN h.mem |-> IF a \in kept THEN h.mem[a] ELSE Unset]
<1>1. PICK A : Memory(h, A) /\ C = Cells(h, A)
  BY DEF Holds
<1>2. PICK B, s : Whole(h, B, s, A)
  BY <1>1 DEF Memory, Sound
<1>3. /\ Loose(h, B, s, A, {}) /\ Shape(B, s, h.brk) /\ Typed(h) /\ Tagged(h, B, s, A, {}) /\ A \subseteq B
  BY <1>2 DEF Whole, Loose
<1>4. g = [h EXCEPT !.mem = m] /\ Typed(h) /\ DOMAIN h.mem = 1 .. h.brk - 1 /\ h.mem \in [1 .. h.brk - 1 -> Word]
  BY <1>3, TypedIs DEF Forget
<1> HIDE DEF kept, g
<1>5. m \in [1 .. h.brk - 1 -> Word] /\ \A a \in 1 .. h.brk - 1 : a \in kept => m[a] = h.mem[a]
  BY <1>4, Words
<1> HIDE DEF m
<1>6. /\ Typed(g) /\ g.brk = h.brk /\ g.lists = h.lists /\ g.slabs = h.slabs
      /\ \A a \in 1 .. h.brk - 1 : a \in kept => g.mem[a] = h.mem[a]
  <2>1. m \in UNION {[1 .. n - 1 -> Word] : n \in Nat}
    BY <1>5, <1>4, TypedIs
  <2>2. g.mem = m
    BY <1>4 DEF Typed, Heap
  <2> QED
    BY <1>4, <1>5, <2>1, <2>2 DEF Typed, Heap
<1>7. Heads(h) = B
  BY <1>3, HeadsIs
<1>8. \A b \in B : SizeOf(h, b) = s[b] /\ Valid(h, b) = Status(A, b)
  BY <1>3, Words DEF Tagged, SizeOf, Valid
<1>9. \A b \in B : g.mem[b] = h.mem[b] /\ g.mem[b + s[b] - 1] = h.mem[b + s[b] - 1]
  <2> SUFFICES ASSUME NEW b \in B PROVE g.mem[b] = h.mem[b] /\ g.mem[b + s[b] - 1] = h.mem[b + s[b] - 1]
    OBVIOUS
  <2>1. b \in 1 .. h.brk - 1 /\ b + s[b] - 1 \in 1 .. h.brk - 1
    BY <1>3, ShapeIs
  <2>2. b \in kept /\ b + s[b] - 1 \in kept
    BY <1>7, <1>8, MeaningfulIs DEF kept
  <2> QED
    BY <1>6, <2>1, <2>2
<1>10. g.mem[1] = h.mem[1]
  <2>1. 1 \in kept
    BY MeaningfulIs DEF kept
  <2>2. 1 \in 1 .. h.brk - 1
    BY <1>3 DEF Shape
  <2> QED
    BY <1>6, <2>1, <2>2
<1>11. \A f \in Spare(B, s, A) : g.mem[f + 1] = h.mem[f + 1] /\ g.mem[f + 2] = h.mem[f + 2]
  <2> SUFFICES ASSUME NEW f \in Spare(B, s, A)
               PROVE  g.mem[f + 1] = h.mem[f + 1] /\ g.mem[f + 2] = h.mem[f + 2]
    OBVIOUS
  <2>1. f \in B /\ f \notin A /\ s[f] > 2
    BY DEF Spare
  <2>2. Linked(h, f)
    BY <1>8, <2>1 DEF Linked, Status
  <2>3. f + 1 \in kept /\ f + 2 \in kept
    BY <1>7, <2>1, <2>2, MeaningfulIs DEF kept
  <2>4. f + 1 \in 1 .. h.brk - 1 /\ f + 2 \in 1 .. h.brk - 1
    BY <1>3, <2>1, ShapeIs
  <2> QED
    BY <1>6, <2>3, <2>4
<1>12. Sound(g, A)
  <2>1. Whole(g, B, s, A)
    BY <1>2, <1>6, <1>9, <1>10, <1>11, SameWhole
  <2> QED
    BY <2>1 DEF Sound
<1>13. \A b \in A : SizeOf(g, b) = SizeOf(h, b)
  BY <1>3, <1>9 DEF SizeOf
<1>14. SameBitmaps(g, h)
  <2> SUFFICES ASSUME NEW t \in Slabs, h.slabs[t] # NULL, NEW j \in 0 .. NumMaps - 1
               PROVE  g.mem[h.slabs[t] + j] = h.mem[h.slabs[t] + j]
    BY DEF SameBitmaps
  <2> DEFINE slab == h.slabs[t]
             e == slab - 1
  <2>1. /\ slab \in Nat /\ e \in Nat /\ e + 1 = slab /\ SizeOf(h, e) \in Nat
        /\ SizeOf(h, e) >= SlabPayload(t[1]) + 2 /\ e + SizeOf(h, e) <= h.brk /\ slab \in SlabPtrs(h)
    BY <1>1, SlabBlockIs
  <2>2. NumMaps \in Nat /\ NumMaps > 0 /\ SlabPayload(t[1]) \in Nat /\ SlabPayload(t[1]) > NumMaps
    BY SlabIs, MapsFit
  <2>3. h.brk \in Nat
    BY <1>3, ShapeIs
  <2> HIDE DEF slab, e
  <2>4. slab + j \in 1 .. h.brk - 1 /\ slab + j \in slab .. slab + NumMaps - 1
    BY <2>1, <2>2, <2>3
  <2>5. slab + j \in kept
    BY <2>1, <2>4, MeaningfulIs DEF kept
  <2>6. g.mem[slab + j] = h.mem[slab + j]
    BY <1>6, <2>4, <2>5
  <2> QED
    BY <2>6 DEF slab
<1>15. Memory(g, A) /\ Cells(g, A) = Cells(h, A)
  BY <1>1, <1>6, <1>12, <1>13, <1>14, CellsSame
<1>16. Forgotten(g, h, C, bs)
  BY <1>1, <1>6, <1>15 DEF Forgotten, Holds, kept
<1> QED
  BY <1>16 DEF g

(* Every cell belongs to one of the ids L, and is as large as asked for. *)
Matched(C, bs, L) ==
  /\ \A id \in L : \E c \in C : c[1] = bs[id].ptr /\ c[2] >= bs[id].size
  /\ \A c \in C : \E id \in L : bs[id].ptr = c[1]
  /\ \A id, other \in L : bs[id].ptr = bs[other].ptr => id = other
(* The words of the ids L hold their bytes. *)
Bytes(h, bs, L) ==
  \A id \in L : \A a \in bs[id].ptr .. bs[id].ptr + bs[id].size - 1 : h.mem[a] = Data(id)
Records == [Ids -> [ptr : Nat, size : Nat]]

(* An id and its cell are given up. *)
LEMMA Unmatched ==
  ASSUME NEW C, NEW bs, NEW L, Matched(C, bs, L), NEW id \in L, NEW c \in C, c[1] = bs[id].ptr,
         \A d \in C : d # c => d[1] # c[1]
  PROVE  Matched(C \ {c}, bs, L \ {id})
<1>1. ASSUME NEW k \in L \ {id}
      PROVE  \E d \in C \ {c} : d[1] = bs[k].ptr /\ d[2] >= bs[k].size
  <2>1. PICK d \in C : d[1] = bs[k].ptr /\ d[2] >= bs[k].size
    BY DEF Matched
  <2>2. d # c
    BY <2>1 DEF Matched
  <2> QED
    BY <2>1, <2>2
<1>2. ASSUME NEW d \in C \ {c} PROVE \E k \in L \ {id} : bs[k].ptr = d[1]
  <2>1. PICK k \in L : bs[k].ptr = d[1]
    BY DEF Matched
  <2>2. k # id
    BY <2>1
  <2> QED
    BY <2>1, <2>2
<1> QED
  BY <1>1, <1>2 DEF Matched

(* An id gets a cell. *)
LEMMA Rematched ==
  ASSUME NEW C, NEW bs, NEW L, Matched(C, bs, L), NEW new, NEW id, id \notin L, NEW d,
         \A k \in L : new[k] = bs[k], new[id].ptr = d[1], d[2] >= new[id].size,
         \A c \in C : c[1] # d[1]
  PROVE  Matched(C \cup {d}, new, L \cup {id})
<1>1. ASSUME NEW k \in L \cup {id}
      PROVE  \E c \in C \cup {d} : c[1] = new[k].ptr /\ c[2] >= new[k].size
  BY DEF Matched
<1>2. ASSUME NEW c \in C \cup {d} PROVE \E k \in L \cup {id} : new[k].ptr = c[1]
  BY DEF Matched
<1>3. ASSUME NEW k \in L PROVE new[k].ptr # new[id].ptr
  <2>1. PICK c \in C : c[1] = bs[k].ptr
    BY DEF Matched
  <2> QED
    BY <2>1
<1>4. \A k, other \in L \cup {id} : new[k].ptr = new[other].ptr => k = other
  BY <1>3 DEF Matched
<1> QED
  BY <1>1, <1>2, <1>4 DEF Matched

(* The bytes of the blocks that are in cells which do not move are kept. *)
LEMMA BytesUnmoved ==
  ASSUME NEW h, NEW C, Holds(h, C), NEW bs \in Records, NEW L, L \subseteq Ids,
         Matched(C, bs, L), Bytes(h, bs, L), NEW g, Unmoved(g, h, C)
  PROVE  Bytes(g, bs, L)
<1> SUFFICES ASSUME NEW id \in L, NEW a \in bs[id].ptr .. bs[id].ptr + bs[id].size - 1
             PROVE  g.mem[a] = Data(id)
  BY DEF Bytes
<1>1. PICK c \in C : c[1] = bs[id].ptr /\ c[2] >= bs[id].size
  BY DEF Matched
<1>2. c[1] \in Nat /\ c[2] \in Nat /\ bs[id].size \in Nat
  BY HoldsIs DEF Records
<1>3. a \in c[1] .. c[1] + c[2] - 1
  BY <1>1, <1>2
<1> QED
  BY <1>3 DEF Bytes, Unmoved

(* The invariant. *)
CheckInv ==
  IF check = NoCheck THEN TRUE
  ELSE /\ check.id \in Live /\ check.words \in Nat /\ check.words <= blocks[check.id].size
       /\ check.slab \/ ReallocKeepsBytes
HeapInv ==
  /\ heap.brk <= MaxHeap + 1
  /\ \E C : Holds(heap, C) /\ Matched(C, blocks, Live)
Inv ==
  /\ blocks \in Records /\ HeapInv /\ CheckInv
  /\ Bytes(heap, blocks, Live \ {check.id})

(* The bytes of the blocks are not forgotten. *)
Remembered(g, h, bs, L) ==
  \A id \in L : \A a \in bs[id].ptr .. bs[id].ptr + bs[id].size - 1 : g.mem[a] = h.mem[a]

(* Forgetting keeps the bytes of the ids. *)
LEMMA ForgetKeeps ==
  ASSUME NEW h, NEW C, Holds(h, C), NEW bs \in Records, NEW L, L \subseteq Ids, Matched(C, bs, L)
  PROVE  Holds(Forget(h, bs), C) /\ Forget(h, bs).brk = h.brk /\ Remembered(Forget(h, bs), h, bs, L)
<1> DEFINE g == Forget(h, bs)
<1>1. Forgotten(g, h, C, bs)
  BY ForgetIs
<1> HIDE DEF g
<1>2. Holds(g, C) /\ g.brk = h.brk /\ \A a \in 1 .. h.brk - 1 : a \in Meaningful(h, bs) => g.mem[a] = h.mem[a]
  BY <1>1 DEF Forgotten
<1>3. Remembered(g, h, bs, L)
  <2> SUFFICES ASSUME NEW id \in L, NEW a \in bs[id].ptr .. bs[id].ptr + bs[id].size - 1
               PROVE  g.mem[a] = h.mem[a]
    BY DEF Remembered
  <2>1. PICK c \in C : c[1] = bs[id].ptr /\ c[2] >= bs[id].size
    BY DEF Matched
  <2>2. c[1] \in Nat /\ c[2] \in Nat /\ c[1] > 0 /\ c[1] + c[2] <= h.brk /\ h.brk \in Nat /\ bs[id].size \in Nat
    BY HoldsIs DEF Records
  <2>3. a \in 1 .. h.brk - 1
    BY <2>1, <2>2
  <2>4. a \in Meaningful(h, bs)
    BY MeaningfulIs
  <2> QED
    BY <1>2, <2>3, <2>4
<1> QED
  BY <1>2, <1>3 DEF g

(* The block of id is filled. *)
Fills(g, h, C, c, id, size) ==
  Filled(g, h, C, c) /\ \A a \in c[1] .. c[1] + size - 1 : g.mem[a] = Data(id)
(* Fill writes the bytes of an id. *)
LEMMA FillIs ==
  ASSUME NEW h, NEW C, Holds(h, C), NEW c \in C, NEW id \in Ids, NEW size \in Nat, size <= c[2]
  PROVE  Fills(Fill(h, id, c[1], size), h, C, c, id, size)
<1> DEFINE p == c[1]
           words == [a \in p .. p + size - 1 |-> Data(id)]
           g == Write(h, words)
<1>1. p \in Nat /\ c[2] \in Nat
  BY HoldsIs
<1>2. DOMAIN words = p .. p + size - 1 /\ \A a \in DOMAIN words : words[a] = Data(id) /\ words[a] \in Word
  BY Words
<1>3. Fill(h, id, p, size) = g
  BY DEF Fill
<1> HIDE DEF words, g
<1>4. DOMAIN words \subseteq c[1] .. c[1] + c[2] - 1
  BY <1>1, <1>2
<1>6. \A a \in DOMAIN words : words[a] \in Word
  BY <1>2
<1>5. Filled(g, h, C, c) /\ \A a \in DOMAIN words : g.mem[a] = words[a]
  BY <1>4, <1>6, WriteFills DEF g
<1> QED
  BY <1>2, <1>3, <1>5 DEF Fills

(* With no realloc to be checked, all ids are filled. *)
LEMMA NoCheckIs ==
  ASSUME Inv, check = NoCheck
  PROVE  check.id = NULL /\ NULL \notin Ids /\ Live \subseteq Ids /\ Live \ {check.id} = Live
BY AllocatorAssumption DEF NoCheck, Live

(* malloc and the fill of what it returned keep the invariant. *)
LEMMA AllocKeeps ==
  ASSUME Inv, NEW id \in Ids, NEW size \in Sizes, Alloc(id, size)
  PROVE  Inv'
<1> DEFINE r == malloc(heap, size)
           f == Fill(r.heap, id, r.ptr, size)
<1>1. /\ check = NoCheck /\ check' = check /\ id \notin Live /\ r.heap.brk <= MaxHeap + 1
      /\ blocks' = [blocks EXCEPT ![id] = [ptr |-> r.ptr, size |-> size]]
      /\ heap' = Forget(f, blocks')
  BY DEF Alloc, Keep
<1>2. blocks \in Records /\ heap.brk <= MaxHeap + 1 /\ Bytes(heap, blocks, Live) /\ Live \subseteq Ids
  BY <1>1, NoCheckIs DEF Inv, HeapInv
<1>3. PICK C : Holds(heap, C) /\ Matched(C, blocks, Live)
  BY DEF Inv, HeapInv
<1>4. Allocates(r, heap, C, BlockSize(size) - 2)
  BY <1>2, <1>3, MallocIs
<1>5. size \in Nat /\ size >= 1 /\ BlockSize(size) \in Nat /\ BlockSize(size) - 2 >= size
  BY RequestIs DEF Requests
<1> HIDE DEF r
<1>6. PICK d : /\ d \notin C /\ d[1] = r.ptr /\ d[2] \in Nat /\ d[2] >= BlockSize(size) - 2
               /\ Holds(r.heap, C \cup {d}) /\ Unmoved(r.heap, heap, C)
  BY <1>4 DEF Allocates
<1> DEFINE D == C \cup {d}
<1>7. d \in D /\ D \ {d} = C /\ d[2] >= size
  BY <1>5, <1>6
<1> HIDE DEF D
<1>8. Holds(r.heap, D)
  BY <1>6 DEF D
<1>9. d[1] \in Nat /\ d[1] > 0 /\ \A c \in C : c[1] # d[1]
  <2>1. d[1] \in Nat /\ d[1] > 0
    BY <1>7, <1>8, HoldsIs
  <2>2. ASSUME NEW c \in C PROVE c[1] # d[1]
    <3>1. c \in D /\ c # d
      BY <1>6 DEF D
    <3>2. Apart(c, d)
      BY <1>7, <1>8, <3>1, HoldsIs
    <3> QED
      BY <3>2 DEF Apart
  <2> QED
    BY <2>1, <2>2
<1>10. /\ blocks' \in Records /\ \A k \in Live : blocks'[k] = blocks[k]
       /\ blocks'[id].ptr = d[1] /\ blocks'[id].size = size /\ Live' = Live \cup {id}
  <2>1. blocks' \in Records /\ blocks'[id] = [ptr |-> d[1], size |-> size] /\ \A k \in Ids : k # id => blocks'[k] = blocks[k]
    BY <1>1, <1>2, <1>5, <1>6, <1>9 DEF Records
  <2>2. blocks'[id] # None
    BY <1>9, <2>1 DEF None, NULL
  <2>3. Live' = Live \cup {id}
    BY <2>1, <2>2 DEF Live
  <2> QED
    BY <1>1, <1>2, <2>1, <2>3
<1>11. Fills(f, r.heap, D, d, id, size)
  <2>1. Fills(Fill(r.heap, id, d[1], size), r.heap, D, d, id, size)
    BY <1>5, <1>7, <1>8, FillIs
  <2> QED
    BY <1>6, <2>1
<1> HIDE DEF f
<1>12. /\ Holds(f, D) /\ Unmoved(f, r.heap, C) /\ f.brk = r.heap.brk
       /\ \A a \in d[1] .. d[1] + size - 1 : f.mem[a] = Data(id)
  BY <1>7, <1>11 DEF Fills, Filled
<1>13. Matched(D, blocks', Live')
  <2>1. d[2] >= blocks'[id].size
    BY <1>7, <1>10
  <2>2. Matched(C \cup {d}, blocks', Live \cup {id})
    BY <1>1, <1>3, <1>9, <1>10, <2>1, Rematched
  <2> QED
    BY <1>10, <2>2 DEF D
<1>14. Bytes(f, blocks', Live')
  <2>1. Unmoved(f, heap, C)
    BY <1>6, <1>12 DEF Unmoved
  <2>2. Bytes(f, blocks, Live)
    BY <1>2, <1>3, <2>1, BytesUnmoved
  <2> QED
    BY <1>10, <1>12, <2>2 DEF Bytes
<1>15. Live' \subseteq Ids
  BY DEF Live
<1>16. Holds(heap', D) /\ heap'.brk = f.brk /\ Remembered(heap', f, blocks', Live')
  BY <1>1, <1>10, <1>12, <1>13, <1>15, ForgetKeeps
<1>17. HeapInv'
  BY <1>1, <1>12, <1>13, <1>16 DEF HeapInv
<1>18. Bytes(heap', blocks', Live')
  BY <1>14, <1>16 DEF Bytes, Remembered
<1>19. CheckInv' /\ Live' \ {check'.id} = Live'
  BY <1>1, <1>15, AllocatorAssumption DEF CheckInv, NoCheck
<1> QED
  BY <1>10, <1>17, <1>18, <1>19 DEF Inv

(* free keeps the invariant. *)
LEMMA FreeKeeps ==
  ASSUME Inv, NEW id \in Ids, Free(id)
  PROVE  Inv'
<1> DEFINE g == free(heap, blocks[id].ptr)
           L == Live \ {id}
<1>1. /\ check = NoCheck /\ check' = check /\ id \in Live
      /\ blocks' = [blocks EXCEPT ![id] = None] /\ heap' = Forget(g, blocks')
  BY DEF Free
<1>2. blocks \in Records /\ heap.brk <= MaxHeap + 1 /\ Bytes(heap, blocks, Live) /\ Live \subseteq Ids
  BY <1>1, NoCheckIs DEF Inv, HeapInv
<1>3. PICK C : Holds(heap, C) /\ Matched(C, blocks, Live)
  BY DEF Inv, HeapInv
<1>4. PICK c \in C : c[1] = blocks[id].ptr /\ c[2] >= blocks[id].size
  BY <1>1, <1>3 DEF Matched
<1>5. Frees(g, heap, C, c)
  <2>1. Frees(free(heap, c[1]), heap, C, c)
    BY <1>2, <1>3, <1>4, FreeIs
  <2> QED
    BY <1>4, <2>1
<1> HIDE DEF g
<1> DEFINE D == C \ {c}
<1>6. Holds(g, D) /\ Unmoved(g, heap, D) /\ g.brk = heap.brk
  BY <1>5 DEF Frees
<1>7. /\ blocks' \in Records /\ \A k \in L : blocks'[k] = blocks[k]
      /\ Live' = L /\ L \subseteq Ids
  <2>1. None \in [ptr : Nat, size : Nat]
    BY DEF None, NULL
  <2>2. blocks' \in Records /\ blocks'[id] = None /\ \A k \in Ids : k # id => blocks'[k] = blocks[k]
    BY <1>1, <1>2, <2>1 DEF Records
  <2>3. Live' = L
    BY <2>2 DEF Live
  <2> QED
    BY <1>2, <2>2, <2>3
<1>8. Matched(D, blocks, L)
  <2>1. \A e \in C : e # c => e[1] # c[1]
    BY <1>3, <1>4, HoldsIs DEF Apart
  <2> QED
    BY <1>1, <1>3, <1>4, <2>1, Unmatched
<1>9. Holds(heap, C) /\ Bytes(heap, blocks, L)
  BY <1>2, <1>3 DEF Bytes
<1>10. Bytes(g, blocks, L)
  <2> SUFFICES ASSUME NEW k \in L, NEW a \in blocks[k].ptr .. blocks[k].ptr + blocks[k].size - 1
               PROVE  g.mem[a] = Data(k)
    BY DEF Bytes
  <2>1. PICK e \in D : e[1] = blocks[k].ptr /\ e[2] >= blocks[k].size
    BY <1>8 DEF Matched
  <2>2. e[1] \in Nat /\ e[2] \in Nat /\ blocks[k].size \in Nat
    BY <1>2, <1>6, <1>7, <2>1, HoldsIs DEF Records
  <2>3. a \in e[1] .. e[1] + e[2] - 1
    BY <2>1, <2>2
  <2> QED
    BY <1>6, <1>9, <2>3 DEF Bytes, Unmoved
<1> HIDE DEF D, L
<1>11. Matched(D, blocks', L) /\ Bytes(g, blocks', L)
  BY <1>7, <1>8, <1>10 DEF Matched, Bytes
<1>12. Holds(heap', D) /\ heap'.brk = g.brk /\ Remembered(heap', g, blocks', L)
  BY <1>1, <1>6, <1>7, <1>11, ForgetKeeps
<1>13. HeapInv'
  BY <1>2, <1>6, <1>7, <1>11, <1>12 DEF HeapInv
<1>14. Bytes(heap', blocks', Live')
  BY <1>7, <1>11, <1>12 DEF Bytes, Remembered
<1>15. CheckInv' /\ Live' \ {check'.id} = Live'
  BY <1>1, <1>7, AllocatorAssumption DEF CheckInv, NoCheck
<1> QED
  BY <1>7, <1>13, <1>14, <1>15 DEF Inv

(* The smaller of two numbers. *)
LEMMA MinIs ==
  ASSUME NEW n \in Nat, NEW m \in Nat
  PROVE  Min({n, m}) \in Nat /\ Min({n, m}) <= n /\ Min({n, m}) <= m
<1>1. \E i \in {n, m} : \A j \in {n, m} : i <= j
  <2>1. CASE n <= m
    BY <2>1
  <2>2. CASE ~(n <= m)
    BY <2>2
  <2> QED
    BY <2>1, <2>2
<1>2. Min({n, m}) \in {n, m} /\ \A j \in {n, m} : Min({n, m}) <= j
  BY <1>1 DEF Min
<1> QED
  BY <1>2

(* realloc keeps the invariant, before its block is filled anew. *)
LEMMA ReallocKeeps ==
  ASSUME Inv, NEW id \in Ids, NEW size \in Sizes, Realloc(id, size)
  PROVE  Inv'
<1> DEFINE ptr == blocks[id].ptr
           old == blocks[id].size
           r == realloc(heap, ptr, size)
           words == Min({size, old})
           L == Live \ {id}
<1>1. /\ check = NoCheck /\ id \in Live /\ r.heap.brk <= MaxHeap + 1
      /\ blocks' = [blocks EXCEPT ![id] = [ptr |-> r.ptr, size |-> size]]
      /\ heap' = Forget(r.heap, blocks')
      /\ check' = [id |-> id, words |-> words, slab |-> SlabsOf(heap, ptr) # {}]
  BY DEF Realloc, Keep
<1>2. blocks \in Records /\ heap.brk <= MaxHeap + 1 /\ Bytes(heap, blocks, Live) /\ Live \subseteq Ids
  BY <1>1, NoCheckIs DEF Inv, HeapInv
<1>3. PICK C : Holds(heap, C) /\ Matched(C, blocks, Live)
  BY DEF Inv, HeapInv
<1>4. PICK c \in C : c[1] = ptr /\ c[2] >= old
  BY <1>1, <1>3 DEF Matched
<1>5. size \in Nat /\ old \in Nat /\ c[1] \in Nat /\ c[2] \in Nat
  BY <1>2, <1>3, <1>4, RequestIs, HoldsIs DEF Requests, Records
<1>6. words \in Nat /\ words <= size /\ words <= old
  BY <1>5, MinIs
<1>7. Reallocates(r, heap, C, c, size)
  <2>1. Reallocates(realloc(heap, c[1], size), heap, C, c, size)
    BY <1>2, <1>3, <1>4, ReallocIs
  <2> QED
    BY <1>4, <2>1
<1> HIDE DEF r, words
<1> DEFINE E == C \ {c}
<1>8. PICK d : /\ d \notin E /\ d[1] = r.ptr /\ d[2] \in Nat /\ d[2] >= size
               /\ Holds(r.heap, E \cup {d}) /\ Unmoved(r.heap, heap, E)
               /\ SlabsOf(heap, c[1]) = {} =>
                    \A i \in Nat : i < size /\ i < c[2] => r.heap.mem[r.ptr + i] = heap.mem[c[1] + i]
  BY <1>7 DEF Reallocates
<1>9. Matched(E, blocks, L)
  <2>1. \A e \in C : e # c => e[1] # c[1]
    BY <1>3, <1>4, HoldsIs DEF Apart
  <2> QED
    BY <1>1, <1>3, <1>4, <2>1, Unmatched
<1> HIDE DEF E
<1> DEFINE D == E \cup {d}
<1>10. d[1] \in Nat /\ d[1] > 0 /\ \A e \in E : e[1] # d[1]
  <2>1. d \in E \cup {d}
    OBVIOUS
  <2>2. d[1] \in Nat /\ d[1] > 0
    BY <1>8, <2>1, HoldsIs
  <2>3. ASSUME NEW e \in E PROVE e[1] # d[1]
    <3>1. e \in E \cup {d} /\ e # d
      BY <1>8
    <3>2. Apart(e, d)
      BY <1>8, <2>1, <3>1, HoldsIs
    <3> QED
      BY <3>2 DEF Apart
  <2> QED
    BY <2>2, <2>3
<1>11. /\ blocks' \in Records /\ \A k \in L : blocks'[k] = blocks[k]
       /\ blocks'[id].ptr = d[1] /\ blocks'[id].size = size /\ Live' = L \cup {id} /\ L \subseteq Ids
  <2>1. blocks' \in Records /\ blocks'[id] = [ptr |-> d[1], size |-> size] /\ \A k \in Ids : k # id => blocks'[k] = blocks[k]
    BY <1>1, <1>2, <1>5, <1>8, <1>10 DEF Records
  <2>2. blocks'[id] # None
    BY <1>10, <2>1 DEF None, NULL
  <2>3. Live' = L \cup {id}
    BY <2>1, <2>2 DEF Live
  <2> QED
    BY <1>1, <1>2, <2>1, <2>3
<1>12. Matched(D, blocks', L \cup {id})
  <2>1. d[2] >= blocks'[id].size /\ id \notin L
    BY <1>8, <1>11
  <2> QED
    BY <1>9, <1>10, <1>11, <2>1, Rematched
<1>13. Bytes(r.heap, blocks, L)
  <2> SUFFICES ASSUME NEW k \in L, NEW a \in blocks[k].ptr .. blocks[k].ptr + blocks[k].size - 1
               PROVE  r.heap.mem[a] = Data(k)
    BY DEF Bytes
  <2>1. PICK e \in E : e[1] = blocks[k].ptr /\ e[2] >= blocks[k].size
    BY <1>9 DEF Matched
  <2>2. e[1] \in Nat /\ e[2] \in Nat /\ blocks[k].size \in Nat
    BY <1>2, <1>8, <1>11, <2>1, HoldsIs DEF Records
  <2>3. a \in e[1] .. e[1] + e[2] - 1
    BY <2>1, <2>2
  <2>4. heap.mem[a] = Data(k)
    BY <1>2 DEF Bytes
  <2> QED
    BY <1>8, <2>1, <2>3, <2>4 DEF Unmoved
<1>14. SlabsOf(heap, ptr) = {} => \A a \in d[1] .. d[1] + words - 1 : r.heap.mem[a] = Data(id)
  <2> SUFFICES ASSUME SlabsOf(heap, ptr) = {}, NEW a \in d[1] .. d[1] + words - 1
               PROVE  r.heap.mem[a] = Data(id)
    OBVIOUS
  <2> DEFINE i == a - d[1]
  <2>1. i \in Nat /\ i < size /\ i < c[2] /\ i < old /\ d[1] + i = a
    BY <1>4, <1>5, <1>6, <1>10
  <2> HIDE DEF i
  <2>2. r.heap.mem[d[1] + i] = heap.mem[c[1] + i]
    BY <1>4, <1>8, <2>1
  <2>3. c[1] + i \in ptr .. ptr + old - 1
    BY <1>4, <1>5, <2>1
  <2>4. heap.mem[c[1] + i] = Data(id)
    BY <1>1, <1>2, <2>3 DEF Bytes
  <2> QED
    BY <2>1, <2>2, <2>4
<1> HIDE DEF L, D, ptr
<1>15. Holds(heap', D) /\ heap'.brk = r.heap.brk /\ Remembered(heap', r.heap, blocks', L \cup {id})
  <2>1. Holds(r.heap, D) /\ L \cup {id} \subseteq Ids
    BY <1>8, <1>11 DEF D
  <2> QED
    BY <1>1, <1>11, <1>12, <2>1, ForgetKeeps
<1>16. HeapInv'
  BY <1>1, <1>11, <1>12, <1>15 DEF HeapInv
<1>17. check' # NoCheck /\ check'.id = id /\ check'.words = words /\ check'.slab = (SlabsOf(heap, ptr) # {})
  BY <1>1, AllocatorAssumption DEF NoCheck
<1>18. Bytes(heap', blocks', Live' \ {check'.id})
  <2>1. Live' \ {check'.id} \subseteq L
    BY <1>11, <1>17
  <2>2. \A k \in L : \A a \in blocks'[k].ptr .. blocks'[k].ptr + blocks'[k].size - 1 : heap'.mem[a] = Data(k)
    BY <1>11, <1>13, <1>15 DEF Bytes, Remembered
  <2> QED
    BY <2>1, <2>2 DEF Bytes
<1>19. CheckInv'
  <2>1. check'.id \in Live' /\ check'.words \in Nat /\ check'.words <= blocks'[check'.id].size
    BY <1>6, <1>11, <1>17
  <2>2. SlabsOf(heap, ptr) = {} => ReallocKeepsBytes'
    <3> SUFFICES ASSUME SlabsOf(heap, ptr) = {}, NEW a \in d[1] .. d[1] + words - 1
                 PROVE  heap'.mem[a] = Data(id)
      BY <1>11, <1>17 DEF ReallocKeepsBytes
    <3>1. a \in blocks'[id].ptr .. blocks'[id].ptr + blocks'[id].size - 1
      BY <1>5, <1>6, <1>10, <1>11
    <3>2. heap'.mem[a] = r.heap.mem[a]
      BY <1>15, <3>1 DEF Remembered
    <3> QED
      BY <1>14, <3>2
  <2> QED
    BY <1>17, <2>1, <2>2 DEF CheckInv
<1> QED
  BY <1>11, <1>16, <1>18, <1>19 DEF Inv

(* The fill after a realloc keeps the invariant. *)
LEMMA CheckedKeeps ==
  ASSUME Inv, Checked
  PROVE  Inv'
<1> DEFINE id == check.id
           size == blocks[id].size
           g == Fill(heap, id, blocks[id].ptr, size)
<1>1. check # NoCheck /\ heap' = g /\ check' = NoCheck /\ blocks' = blocks
  BY DEF Checked
<1>2. /\ blocks \in Records /\ heap.brk <= MaxHeap + 1 /\ Bytes(heap, blocks, Live \ {id})
      /\ id \in Live /\ Live \subseteq Ids /\ size \in Nat
  BY <1>1 DEF Inv, HeapInv, CheckInv, Live, Records
<1>3. PICK C : Holds(heap, C) /\ Matched(C, blocks, Live)
  BY DEF Inv, HeapInv
<1>4. PICK c \in C : c[1] = blocks[id].ptr /\ c[2] >= size
  BY <1>2, <1>3 DEF Matched
<1>5. Fills(g, heap, C, c, id, size)
  <2>1. id \in Ids /\ size <= c[2]
    BY <1>2, <1>3, <1>4, HoldsIs
  <2>2. Fills(Fill(heap, id, c[1], size), heap, C, c, id, size)
    BY <1>2, <1>3, <2>1, FillIs
  <2> QED
    BY <1>4, <2>2
<1> HIDE DEF g, id, size
<1>6. /\ Holds(g, C) /\ Unmoved(g, heap, C \ {c}) /\ g.brk = heap.brk
      /\ \A a \in c[1] .. c[1] + size - 1 : g.mem[a] = Data(id)
  BY <1>5 DEF Fills, Filled
<1>7. Bytes(g, blocks, Live)
  <2> SUFFICES ASSUME NEW k \in Live, NEW a \in blocks[k].ptr .. blocks[k].ptr + blocks[k].size - 1
               PROVE  g.mem[a] = Data(k)
    BY DEF Bytes
  <2>1. CASE k = id
    BY <1>4, <1>6, <2>1 DEF size
  <2>2. CASE k # id
    <3>1. PICK e \in C : e[1] = blocks[k].ptr /\ e[2] >= blocks[k].size
      BY <1>3 DEF Matched
    <3>2. e # c
      BY <1>2, <1>3, <1>4, <2>2, <3>1 DEF Matched
    <3>3. e[1] \in Nat /\ e[2] \in Nat /\ blocks[k].size \in Nat
      BY <1>2, <1>3, <3>1, HoldsIs DEF Records
    <3>4. a \in e[1] .. e[1] + e[2] - 1
      BY <3>1, <3>3
    <3>5. heap.mem[a] = Data(k)
      BY <1>2, <2>2 DEF Bytes
    <3> QED
      BY <1>6, <3>2, <3>4, <3>5 DEF Unmoved
  <2> QED
    BY <2>1, <2>2
<1>8. Live' = Live
  BY <1>1 DEF Live
<1>9. HeapInv'
  BY <1>1, <1>2, <1>3, <1>6, <1>8 DEF HeapInv
<1>10. CheckInv' /\ Live' \ {check'.id} = Live
  BY <1>1, <1>2, <1>8, AllocatorAssumption DEF CheckInv, NoCheck
<1> QED
  BY <1>1, <1>2, <1>7, <1>9, <1>10 DEF Inv

(* The invariant holds after mm_init. *)
LEMMA InitKeeps ==
  ASSUME Init
  PROVE  Inv
<1> DEFINE s == [b \in Nat |-> 0]
<1>1. /\ heap = [mem |-> [a \in {1} |-> Tag(0, 0)], brk |-> 2,
                 lists |-> [i \in 0 .. NumLists - 1 |-> NULL],
                 slabs |-> [t \in Slabs |-> NULL]]
      /\ blocks = [id \in Ids |-> None] /\ check = NoCheck
  BY DEF Init
<1>2. /\ heap.brk = 2 /\ heap.mem = [a \in {1} |-> Tag(0, 0)] /\ heap.lists = [i \in 0 .. NumLists - 1 |-> NULL]
      /\ heap.slabs = [t \in Slabs |-> NULL]
  BY <1>1
<1>3. Typed(heap) /\ heap.mem[1] = Tag(0, 0)
  <2>1. Tag(0, 0) \in Word /\ NULL \in Nat /\ 2 \in Nat
    BY Words DEF NULL
  <2>2. {1} = 1 .. 2 - 1
    OBVIOUS
  <2>3. heap.mem \in [1 .. 2 - 1 -> Word]
    BY <1>2, <2>1, <2>2
  <2>4. heap.mem \in UNION {[1 .. n - 1 -> Word] : n \in Nat}
    BY <2>1, <2>3
  <2>5. heap.lists \in [0 .. NumLists - 1 -> Nat] /\ heap.slabs \in [Slabs -> Nat]
    BY <1>2, <2>1
  <2> QED
    BY <1>1, <1>2, <2>1, <2>3, <2>4, <2>5 DEF Typed, Heap
<1>4. Shape({}, s, heap.brk)
  <2>1. s \in [Nat -> Nat]
    OBVIOUS
  <2> HIDE DEF s
  <2> QED
    BY <1>2, <2>1 DEF Shape
<1> HIDE DEF s
<1>5. Lists(heap, Spare({}, s, {} \cup {}), s)
  <2> DEFINE z == [b \in Nat |-> 0]
  <2>1. Spare({}, s, {} \cup {}) = {} /\ z \in [Nat -> Nat]
    BY DEF Spare
  <2>2. heap.lists \in [0 .. NumLists - 1 -> {} \cup {NULL}]
        /\ \A i \in 0 .. NumLists - 1 : heap.lists[i] = NULL
    BY <1>2
  <2> HIDE DEF z
  <2>3. Linking({}, z, heap.lists, z, z, z) /\ LinksAre(heap, {}, z, z)
    BY <2>1, <2>2 DEF Linking, LinksAre
  <2>4. \A f \in {} : z[f] = getIndex(s[f])
    OBVIOUS
  <2>5. Lists(heap, {}, s)
    BY <2>3, <2>4 DEF Lists
  <2> QED
    BY <2>1, <2>5
<1>6. Whole(heap, {}, s, {})
  BY <1>3, <1>4, <1>5 DEF Whole, Loose, Tagged, NoTwoFree
<1>7. \A t \in Slabs : heap.slabs[t] = NULL
  BY <1>2
<1>8. Memory(heap, {})
  BY <1>6, <1>7 DEF Memory, Sound, SlabsSound
<1>9. Cells(heap, {}) = {}
  BY <1>7, CellIs
<1>10. Live = {}
  BY <1>1 DEF Live
<1>11. HeapInv
  <2>1. Holds(heap, {}) /\ Matched({}, blocks, {})
    BY <1>8, <1>9 DEF Holds, Matched
  <2>2. 2 <= MaxHeap + 1
    BY AllocatorAssumption
  <2> QED
    BY <1>2, <1>10, <2>1, <2>2 DEF HeapInv
<1>12. blocks \in Records
  BY <1>1 DEF Records, None, NULL
<1>13. Bytes(heap, blocks, Live \ {check.id}) /\ CheckInv
  BY <1>1, <1>10 DEF Bytes, CheckInv
<1> QED
  BY <1>11, <1>12, <1>13 DEF Inv

(* Every step of the driver keeps the invariant: the heap is a chain of      *)
(* blocks whose free ones are in the lists, the slots in use are those of    *)
(* the bitmaps, each cell belongs to one id and is large enough, and the     *)
(* bytes of the ids are in place.                                           *)
THEOREM InvHolds == Spec => []Inv
<1>1. Init => Inv
  BY InitKeeps
<1>2. Inv /\ [Next]_vars => Inv'
  <2> SUFFICES ASSUME Inv, [Next]_vars PROVE Inv'
    OBVIOUS
  <2>1. CASE \E id \in Ids, size \in Sizes : Alloc(id, size) \/ Realloc(id, size)
    BY <2>1, AllocKeeps, ReallocKeeps
  <2>2. CASE \E id \in Ids : Free(id)
    BY <2>2, FreeKeeps
  <2>3. CASE Checked
    BY <2>3, CheckedKeeps
  <2>4. CASE UNCHANGED vars
    BY <2>4 DEF vars, Inv, HeapInv, CheckInv, Live, ReallocKeepsBytes, NoCheck
  <2> QED
    BY <2>1, <2>2, <2>3, <2>4 DEF Next
<1> QED
  BY <1>1, <1>2, PTL DEF Spec

(* Cells are apart, so the blocks of the ids are. *)
LEMMA ApartIs ==
  ASSUME Inv
  PROVE  BlocksApart
<1>1. blocks \in Records /\ Live \subseteq Ids
  BY DEF Inv, Live
<1>2. PICK C : Holds(heap, C) /\ Matched(C, blocks, Live)
  BY DEF Inv, HeapInv
<1>3. ASSUME NEW id \in Live
      PROVE  \E c \in C : c[1] = blocks[id].ptr /\ c[2] >= blocks[id].size
  BY <1>2 DEF Matched
<1>4. ASSUME NEW id \in Live
      PROVE  blocks[id].ptr % 2 = 1 /\ Payload(id) \subseteq DOMAIN heap.mem
  <2>1. PICK c \in C : c[1] = blocks[id].ptr /\ c[2] >= blocks[id].size
    BY <1>3
  <2>2. /\ c[1] \in Nat /\ c[2] \in Nat /\ c[1] > 0 /\ c[1] % 2 = 1 /\ c[1] + c[2] <= heap.brk
        /\ heap.brk \in Nat /\ DOMAIN heap.mem = 1 .. heap.brk - 1
    BY <1>2, HoldsIs, TypedIs
  <2>3. blocks[id].size \in Nat
    BY <1>1 DEF Records
  <2>4. ASSUME NEW a \in Payload(id) PROVE a \in DOMAIN heap.mem
    <3> DEFINE p == blocks[id].ptr
               n == blocks[id].size
    <3>2. a \in p .. p + n - 1
      BY DEF Payload
    <3>3. p \in Nat /\ n \in Nat /\ p > 0 /\ p + n <= heap.brk /\ heap.brk \in Nat
      BY <2>1, <2>2, <2>3
    <3> HIDE DEF p, n
    <3>1. a \in 1 .. heap.brk - 1
      BY <3>2, <3>3
    <3> QED
      BY <2>2, <3>1
  <2>5. blocks[id].ptr % 2 = 1
    BY <2>1, <2>2
  <2> QED
    BY <2>4, <2>5
<1>5. ASSUME NEW id \in Live, NEW other \in Live \ {id}
      PROVE  Payload(id) \cap Payload(other) = {}
  <2>1. PICK c \in C : c[1] = blocks[id].ptr /\ c[2] >= blocks[id].size
    BY <1>3
  <2>2. PICK d \in C : d[1] = blocks[other].ptr /\ d[2] >= blocks[other].size
    BY <1>3
  <2>3. c # d
    BY <1>2, <2>1, <2>2 DEF Matched
  <2>4. Apart(c, d) /\ c[1] \in Nat /\ c[2] \in Nat /\ d[1] \in Nat /\ d[2] \in Nat
    BY <1>2, <2>3, HoldsIs
  <2>5. blocks[id].size \in Nat /\ blocks[other].size \in Nat
    BY <1>1 DEF Records
  <2> QED
    BY <2>1, <2>2, <2>4, <2>5 DEF Payload, Apart
<1> QED
  BY <1>4, <1>5 DEF BlocksApart

(* What malloc and realloc return is aligned, inside the heap and apart *)
(* from all other blocks, for every trace and every number and size of  *)
(* slabs: add_range of mdriver never refuses it.                        *)
THEOREM BlocksApartHolds == Spec => []BlocksApart
BY InvHolds, ApartIs, PTL

(* The bytes the driver wrote into a block are there until it is freed,     *)
(* whatever is split, coalesced or listed around it: check_index of mdriver *)
(* never finds a byte changed.                                              *)
THEOREM BytesKeptHolds == Spec => []BytesKept
<1>1. Inv => BytesKept
  BY DEF Inv, Bytes, BytesKept, Payload
<1> QED
  BY <1>1, InvHolds, PTL

(* realloc keeps the bytes up to the smaller size of every block that is   *)
(* not in a slab, also when it shrinks the block in place, moves it to the *)
(* end of the heap or into a slab.                                         *)
THEOREM ReallocKeepsHolds == Spec => []ReallocKeepsBlockBytes
<1>1. Inv => ReallocKeepsBlockBytes
  <2>1. CASE check = NoCheck
    BY <2>1 DEF ReallocKeepsBlockBytes, ReallocKeepsBytes
  <2>2. CASE check # NoCheck
    BY <2>2 DEF Inv, CheckInv, ReallocKeepsBlockBytes
  <2> QED
    BY <2>1, <2>2
<1> QED
  BY <1>1, InvHolds, PTL

(* The heads, and what is free, are those of the blocks. *)
LEMMA BlocksAre ==
  ASSUME NEW h, NEW B, NEW s, NEW A, Whole(h, B, s, A)
  PROVE  /\ Heads(h) = B /\ Shape(B, s, h.brk) /\ A \subseteq B
         /\ \A b \in B : /\ SizeOf(h, b) = s[b] /\ After(h, b) = b + s[b]
                         /\ Valid(h, b) = IF b \in A THEN 1 ELSE 0
                         /\ h.mem[b + s[b] - 1] = h.mem[b]
                         /\ Linked(h, b) <=> b \in Spare(B, s, A)
<1>1. Loose(h, B, s, A, {}) /\ Shape(B, s, h.brk) /\ A \subseteq B /\ Tagged(h, B, s, A, {})
  BY DEF Whole, Loose
<1>2. ASSUME NEW b \in B
      PROVE  /\ SizeOf(h, b) = s[b] /\ Valid(h, b) = IF b \in A THEN 1 ELSE 0
             /\ h.mem[b + s[b] - 1] = h.mem[b]
  BY <1>1, Words DEF Tagged, Status, SizeOf, Valid
<1>3. \A b \in B : Linked(h, b) <=> b \in Spare(B, s, A)
  BY <1>2 DEF Linked, Spare
<1> QED
  BY <1>1, <1>2, <1>3, HeadsIs DEF After

(* Listed finds the free blocks of the size of the list. *)
LEMMA ListedIs ==
  ASSUME NEW h, NEW B, NEW s, NEW A, Whole(h, B, s, A), NEW i \in 0 .. NumLists - 1
  PROVE  Listed(h, i) = {f \in Spare(B, s, A) : getIndex(s[f]) = i}
<1> DEFINE F == Spare(B, s, A)
           c == Chain(h, i)
<1>1. InOrder(h, F, s, i)
  BY InOrderIs
<1>2. h.brk \in Nat /\ \A f \in F : f # NULL
  <2>1. Shape(B, s, h.brk)
    BY BlocksAre
  <2> QED
    BY <2>1, ShapeIs DEF Spare
<1>3. Places(h) \subseteq Nat
  BY <1>2 DEF Places
<1>4. \A f : f \in Listed(h, i) <=> f # NULL /\ \E n \in Places(h) : c[n] = f
  BY DEF Listed
<1> HIDE DEF F, c
<1>5. /\ \A n \in Nat : c[n] # NULL => c[n] \in F /\ getIndex(s[c[n]]) = i
      /\ \A f \in F : getIndex(s[f]) = i => \E n \in Places(h) : c[n] = f
  BY <1>1 DEF InOrder, c
<1>6. \A f : f \in Listed(h, i) <=> f \in F /\ getIndex(s[f]) = i
  BY <1>2, <1>3, <1>4, <1>5
<1> QED
  BY <1>6 DEF F

(* What HeapSound says follows from the chain of blocks and the linking of *)
(* the lists.                                                              *)
LEMMA SoundIs ==
  ASSUME Inv
  PROVE  HeapSound
<1>1. PICK C : Holds(heap, C)
  BY DEF Inv, HeapInv
<1>2. PICK A : Sound(heap, A)
  BY <1>1 DEF Holds, Memory
<1>3. PICK B, s : Whole(heap, B, s, A)
  BY <1>2 DEF Sound
<1> DEFINE F == Spare(B, s, A)
           linked == {b \in Heads(heap) : Linked(heap, b)}
<1>4. /\ Heads(heap) = B /\ Shape(B, s, heap.brk) /\ A \subseteq B
      /\ \A b \in B : /\ SizeOf(heap, b) = s[b] /\ After(heap, b) = b + s[b]
                      /\ Valid(heap, b) = IF b \in A THEN 1 ELSE 0
                      /\ heap.mem[b + s[b] - 1] = heap.mem[b]
                      /\ Linked(heap, b) <=> b \in F
  BY <1>3, BlocksAre
<1>5. linked = F
  BY <1>4 DEF Spare
<1>6. \A b \in B : /\ b \in Nat /\ s[b] \in Nat /\ b % 2 = 0 /\ s[b] >= 2 /\ b + s[b] \in B \cup {heap.brk}
                   /\ getIndex(s[b]) \in 0 .. NumLists - 1
  <2> SUFFICES ASSUME NEW b \in B
               PROVE  /\ b \in Nat /\ s[b] \in Nat /\ b % 2 = 0 /\ s[b] >= 2 /\ b + s[b] \in B \cup {heap.brk}
                      /\ getIndex(s[b]) \in 0 .. NumLists - 1
    OBVIOUS
  <2>1. /\ b \in Nat /\ s[b] \in Nat /\ b % 2 = 0 /\ s[b] >= 2 /\ b >= 2 /\ b + s[b] \in B \cup {heap.brk}
        /\ b + s[b] <= heap.brk /\ heap.brk \in Nat
    BY <1>4, ShapeIs DEF Shape
  <2>2. s[b] \in 1 .. MaxHeap
    BY <2>1, AllocatorAssumption DEF Inv, HeapInv
  <2> QED
    BY <2>1, <2>2, IndexIs
<1>7. \A i \in 0 .. NumLists - 1 : Listed(heap, i) = {f \in F : getIndex(s[f]) = i}
  BY <1>3, ListedIs
<1>8. \A i \in 0 .. NumLists - 1 : InOrder(heap, F, s, i)
  BY <1>3, InOrderIs
<1>9. NoTwoFree(B, s, A)
  BY <1>3 DEF Whole
<1> HIDE DEF F
<1>10. \A f \in F : f \in B /\ f \notin A
  BY DEF F, Spare
<1>11. mm_checkheap(heap)
  <2>1. ASSUME NEW b \in B
        PROVE  /\ (b + 1) % 2 = 1
               /\ After(heap, b) < heap.brk => Valid(heap, b) = 1 \/ Valid(heap, After(heap, b)) = 1
               /\ Linked(heap, b) => b \in Listed(heap, getIndex(SizeOf(heap, b)))
    <3>1. (b + 1) % 2 = 1
      BY <1>6
    <3>2. ASSUME After(heap, b) < heap.brk
          PROVE  Valid(heap, b) = 1 \/ Valid(heap, After(heap, b)) = 1
      <4>1. b + s[b] \in B
        BY <1>4, <1>6, <3>2
      <4>2. b \in A \/ b + s[b] \in A
        BY <1>9, <4>1 DEF NoTwoFree
      <4> QED
        BY <1>4, <4>1, <4>2
    <3>3. ASSUME Linked(heap, b) PROVE b \in Listed(heap, getIndex(SizeOf(heap, b)))
      <4>1. b \in F /\ SizeOf(heap, b) = s[b]
        BY <1>4, <3>3
      <4> QED
        BY <1>6, <1>7, <4>1
    <3> QED
      BY <3>1, <3>2, <3>3
  <2>2. \A i \in 0 .. NumLists - 1 : \A b \in Listed(heap, i) : Valid(heap, b) = 0
    BY <1>4, <1>7, <1>10
  <2> QED
    BY <1>4, <2>1, <2>2 DEF mm_checkheap
<1>12. \A b \in Heads(heap) :
         LET end == After(heap, b) IN
           /\ end \in Heads(heap) \cup {heap.brk}
           /\ heap.mem[end - 1] = heap.mem[b]
  BY <1>4, <1>6
<1>13. \A i \in 0 .. NumLists - 1 :
         LET c == Chain(heap, i) IN
           /\ Listed(heap, i) = {b \in linked : getIndex(SizeOf(heap, b)) = i}
           /\ \A n, m \in Places(heap) : c[n] # NULL /\ c[n] = c[m] => n = m
           /\ \A n \in Places(heap) :
                c[n] # NULL => pred(heap, c[n]) = IF n = 0 THEN NULL ELSE c[n - 1]
  <2> SUFFICES ASSUME NEW i \in 0 .. NumLists - 1
               PROVE  LET c == Chain(heap, i) IN
                        /\ Listed(heap, i) = {b \in linked : getIndex(SizeOf(heap, b)) = i}
                        /\ \A n, m \in Places(heap) : c[n] # NULL /\ c[n] = c[m] => n = m
                        /\ \A n \in Places(heap) :
                             c[n] # NULL => pred(heap, c[n]) = IF n = 0 THEN NULL ELSE c[n - 1]
    OBVIOUS
  <2> DEFINE c == Chain(heap, i)
  <2>1. {b \in linked : getIndex(SizeOf(heap, b)) = i} = {f \in F : getIndex(s[f]) = i}
    <3>1. \A f \in F : SizeOf(heap, f) = s[f]
      BY <1>4, <1>10
    <3> HIDE DEF linked
    <3> QED
      BY <1>5, <3>1
  <2>2. Places(heap) \subseteq Nat
    <3>1. heap.brk \in Nat
      BY <1>4 DEF Shape
    <3> QED
      BY <3>1 DEF Places
  <2> HIDE DEF c, linked
  <2>3. /\ \A n \in Nat : c[n] # NULL => pred(heap, c[n]) = IF n = 0 THEN NULL ELSE c[n - 1]
        /\ \A n, m \in Nat : c[n] # NULL /\ c[n] = c[m] => n = m
    BY <1>8 DEF InOrder, c
  <2>4. /\ Listed(heap, i) = {b \in linked : getIndex(SizeOf(heap, b)) = i}
        /\ \A n, m \in Places(heap) : c[n] # NULL /\ c[n] = c[m] => n = m
        /\ \A n \in Places(heap) :
             c[n] # NULL => pred(heap, c[n]) = IF n = 0 THEN NULL ELSE c[n - 1]
    BY <1>7, <2>1, <2>2, <2>3
  <2> QED
    BY <2>4 DEF c
<1> QED
  BY <1>11, <1>12, <1>13 DEF HeapSound

(* mm_checkheap passes after every operation, and what it cannot see is   *)
(* right as well: the footers, the end of the last block, each free block *)
(* once in the list of its size, and the links back.                      *)
THEOREM HeapSoundHolds == Spec => []HeapSound
BY InvHolds, SoundIs, PTL

(* Every block in use but the slabs, and every slot in use, is the cell of  *)
(* an id; a slab has a slot in use.                                         *)
LEMMA LostIs ==
  ASSUME Inv
  PROVE  NothingLost
<1>1. PICK C : Holds(heap, C) /\ Matched(C, blocks, Live)
  BY DEF Inv, HeapInv
<1>2. PICK A : Memory(heap, A) /\ C = Cells(heap, A)
  BY <1>1 DEF Holds
<1>3. PICK B, s : Whole(heap, B, s, A)
  BY <1>2 DEF Memory, Sound
<1> DEFINE allocated == {b + 1 : b \in {n \in Heads(heap) : Valid(heap, n) = 1}}
           slots(t) == UNION {{SlotPtr(heap.slabs[t], t[1], j, slot) : slot \in Used(heap, heap.slabs[t], j)}
                                : j \in 0 .. NumMaps - 1}
           inUse == UNION {slots(t) : t \in {n \in Slabs : heap.slabs[n] # NULL}}
           Slot(p, t) == \E n \in Taken(heap, heap.slabs[t]) : p = SlotAt(heap.slabs[t], t[1], n)
<1>4. \A p : p \in Held <=> \E c \in C : c[1] = p
  BY <1>1 DEF Held, Matched
<1>5. {n \in Heads(heap) : Valid(heap, n) = 1} = A
  BY <1>3, BlocksAre
<1>6. \A p : p \in allocated <=> \E b \in A : p = b + 1
  BY <1>5
<1>7. ASSUME NEW t \in Slabs, heap.slabs[t] # NULL, NEW p PROVE p \in slots(t) <=> Slot(p, t)
  <2> DEFINE slab == heap.slabs[t]
             kind == t[1]
  <2>1. Bitmapped(heap, slab)
    BY <1>2, <1>7 DEF Memory, SlabsSound, SlabSound
  <2>2. p \in slots(t) <=> \E j \in 0 .. NumMaps - 1 : \E k \in Used(heap, slab, j) : p = SlotPtr(slab, kind, j, k)
    OBVIOUS
  <2> HIDE DEF slots, slab, kind
  <2>3. ASSUME NEW j \in 0 .. NumMaps - 1, NEW k \in Used(heap, slab, j), p = SlotPtr(slab, kind, j, k)
        PROVE  \E n \in Taken(heap, slab) : p = SlotAt(slab, kind, n)
    <3> DEFINE n == j * Slots + k
    <3>1. k \in 0 .. Slots - 1
      BY <2>1, UsedSlots
    <3>2. n \in Numbers /\ n \div Slots = j /\ n % Slots = k
      BY <3>1, SlotNumbers DEF Numbers
    <3>3. p = SlotAt(slab, kind, n)
      BY <2>3 DEF SlotPtr, SlotAt
    <3> HIDE DEF n
    <3>4. n \in Taken(heap, slab)
      BY <3>2 DEF Taken
    <3> QED
      BY <3>3, <3>4
  <2>4. ASSUME NEW n \in Taken(heap, slab), p = SlotAt(slab, kind, n)
        PROVE  \E j \in 0 .. NumMaps - 1 : \E k \in Used(heap, slab, j) : p = SlotPtr(slab, kind, j, k)
    <3> DEFINE j == n \div Slots
               k == n % Slots
    <3>1. n \in Numbers /\ k \in Used(heap, slab, j)
      BY DEF Taken
    <3>2. j \in 0 .. NumMaps - 1 /\ j * Slots + k = n
      BY <3>1, NumberedSlots DEF Numbers
    <3> HIDE DEF j, k
    <3>3. p = SlotPtr(slab, kind, j, k)
      BY <2>4, <3>2 DEF SlotPtr, SlotAt
    <3> QED
      BY <3>1, <3>2, <3>3
  <2> QED
    BY <2>2, <2>3, <2>4 DEF slab, kind
<1> HIDE DEF slots, allocated
<1>8. \A p : p \in inUse <=> \E t \in Slabs : heap.slabs[t] # NULL /\ Slot(p, t)
  BY <1>7
<1> HIDE DEF inUse
<1>9. ASSUME NEW p
      PROVE  /\ p \in Held <=> (p \in allocated /\ p \notin SlabPtrs(heap)) \/ p \in inUse
             /\ p \in SlabPtrs(heap) => p \in allocated
  <2>1. ASSUME p \in allocated, p \notin SlabPtrs(heap) PROVE p \in Held
    <3>1. PICK b \in A : p = b + 1
      BY <1>6, <2>1
    <3> DEFINE c == <<b + 1, SizeOf(heap, b) - 2>>
    <3>2. c \in C
      BY <1>2, <2>1, <3>1, CellIs
    <3>3. c[1] = p
      BY <3>1
    <3> QED
      BY <1>4, <3>2, <3>3
  <2>2. ASSUME p \in inUse PROVE p \in Held
    <3>1. PICK t \in Slabs : heap.slabs[t] # NULL /\ Slot(p, t)
      BY <1>8, <2>2
    <3>2. PICK n \in Taken(heap, heap.slabs[t]) : p = SlotAt(heap.slabs[t], t[1], n)
      BY <3>1
    <3> DEFINE c == <<SlotAt(heap.slabs[t], t[1], n), t[1]>>
    <3>3. c \in C
      BY <1>2, <3>1, CellIs
    <3>4. c[1] = p
      BY <3>2
    <3> QED
      BY <1>4, <3>3, <3>4
  <2>3. ASSUME p \in Held PROVE (p \in allocated /\ p \notin SlabPtrs(heap)) \/ p \in inUse
    <3>1. PICK c \in C : c[1] = p
      BY <1>4, <2>3
    <3>2. CASE \E b \in A : b + 1 \notin SlabPtrs(heap) /\ c = <<b + 1, SizeOf(heap, b) - 2>>
      <4>1. p \notin SlabPtrs(heap) /\ \E b \in A : p = b + 1
        BY <3>1, <3>2
      <4> QED
        BY <1>6, <4>1
    <3>3. CASE \E t \in Slabs : heap.slabs[t] # NULL
                 /\ \E n \in Taken(heap, heap.slabs[t]) : c = <<SlotAt(heap.slabs[t], t[1], n), t[1]>>
      <4>1. \E t \in Slabs : heap.slabs[t] # NULL /\ Slot(p, t)
        BY <3>1, <3>3
      <4> QED
        BY <1>8, <4>1
    <3> QED
      BY <1>2, <3>2, <3>3, CellIs
  <2>4. ASSUME p \in SlabPtrs(heap) PROVE p \in allocated
    <3>1. PICK t \in Slabs : heap.slabs[t] = p /\ heap.slabs[t] # NULL
      BY <2>4, SlabPtrIs
    <3>2. heap.slabs[t] - 1 \in A /\ heap.slabs[t] - 1 + 1 = heap.slabs[t]
      BY <1>2, <3>1, SlabBlockIs
    <3>3. \E b \in A : p = b + 1
      BY <3>1, <3>2
    <3> QED
      BY <1>6, <3>3
  <2> QED
    BY <2>1, <2>2, <2>3, <2>4
<1>10. /\ SlabPtrs(heap) \subseteq allocated
       /\ Held = (allocated \ SlabPtrs(heap)) \cup inUse
  BY <1>9
<1>11. ASSUME NEW t \in Slabs, heap.slabs[t] # NULL PROVE slots(t) # {}
  <2>1. PICK n : n \in Taken(heap, heap.slabs[t])
    BY <1>2, <1>11 DEF Memory, SlabsSound, SlabSound
  <2>2. SlotAt(heap.slabs[t], t[1], n) \in slots(t)
    BY <1>7, <1>11, <2>1
  <2> QED
    BY <2>2
<1> QED
  BY <1>10, <1>11 DEF NothingLost, allocated, inUse, slots

(* No block in use and no slot in use is without an owner, and no slab is   *)
(* without a slot in use: free and realloc give back what they should, and  *)
(* the last slot of a slab gives back its block.                            *)
THEOREM NothingLostHolds == Spec => []NothingLost
BY InvHolds, LostIs, PTL
=============================================================================
