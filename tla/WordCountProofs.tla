-------------------------- MODULE WordCountProofs --------------------------
(***************************************************************************)
(* The word count loses no word and counts each as often as it is there,   *)
(* for every text, every number of mappers, every capacity of the channel  *)
(* and every order in which the threads run.                               *)
(***************************************************************************)
EXTENDS WordCount, SetInduction, SequenceTheorems, FiniteSetTheorems, TLAPS

Text == Seq(STRING)
Word == Seq(STRING)
Key == {Reformat(word) : word \in Word}

-----------------------------------------------------------------------------
(* Counting in sequences *)

(* A key occurs a number of times, and more than never where it is there. *)
LEMMA OccurrencesType ==
  ASSUME NEW S, NEW s \in Seq(S), NEW k
  PROVE  /\ Occurrences(s, k) \in Nat
         /\ Occurrences(s, k) > 0 <=> k \in Range(s)
<1> DEFINE at == {i \in DOMAIN s : s[i] = k}
<1>1. at \in SUBSET (1 .. Len(s)) /\ IsFiniteSet(1 .. Len(s))
  BY FS_Interval
<1>2. IsFiniteSet(at)
  BY <1>1, FS_Subset
<1>3. Cardinality(at) \in Nat
  BY <1>2, FS_CardinalityType
<1>4. Cardinality(at) = 0 <=> at = {}
  BY <1>2, FS_EmptySet
<1>5. at = {} <=> k \notin Range(s)
  BY DEF Range
<1> HIDE DEF at
<1>6. /\ Cardinality(at) \in Nat
      /\ Cardinality(at) > 0 <=> k \in Range(s)
  BY <1>3, <1>4, <1>5
<1> QED
  BY <1>6 DEF Occurrences, at

(* Behind each other, sequences hold a key as often as one by one. *)
LEMMA OccurrencesConcat ==
  ASSUME NEW S, NEW s \in Seq(S), NEW t \in Seq(S), NEW k
  PROVE  Occurrences(s \o t, k) = Occurrences(s, k) + Occurrences(t, k)
<1> DEFINE inS == {i \in DOMAIN s : s[i] = k}
           inT == {i \in DOMAIN t : t[i] = k}
           both == {i \in DOMAIN (s \o t) : (s \o t)[i] = k}
           moved == {i \in both : i > Len(s)}
           shift == [i \in inT |-> i + Len(s)]
<1>1. /\ Len(s) \in Nat /\ Len(t) \in Nat
      /\ DOMAIN s = 1 .. Len(s) /\ DOMAIN t = 1 .. Len(t)
      /\ DOMAIN (s \o t) = 1 .. Len(s) + Len(t)
      /\ \A i \in 1 .. Len(s) : (s \o t)[i] = s[i]
      /\ \A i \in Len(s) + 1 .. Len(s) + Len(t) : (s \o t)[i] = t[i - Len(s)]
  BY ConcatProperties, LenProperties
<1>2. IsFiniteSet(inS) /\ IsFiniteSet(inT)
  <2>1. inS \in SUBSET (1 .. Len(s)) /\ inT \in SUBSET (1 .. Len(t))
    BY <1>1
  <2>2. IsFiniteSet(1 .. Len(s)) /\ IsFiniteSet(1 .. Len(t))
    BY <1>1, FS_Interval
  <2> HIDE DEF inS, inT
  <2> QED
    BY <2>1, <2>2, FS_Subset
<1>3. shift \in Bijection(inT, moved)
  <2>1. shift \in [inT -> moved]
    <3>1. ASSUME NEW i \in inT PROVE i + Len(s) \in moved
      <4>1. i \in 1 .. Len(t) /\ t[i] = k
        BY <1>1
      <4>2. i + Len(s) \in Len(s) + 1 .. Len(s) + Len(t) /\ i + Len(s) - Len(s) = i
        BY <1>1, <4>1
      <4>3. (s \o t)[i + Len(s)] = k
        BY <1>1, <4>1, <4>2
      <4> QED
        BY <1>1, <4>2, <4>3
    <3> QED
      BY <3>1
  <2>2. \A i \in inT : \A j \in inT : shift[i] = shift[j] => i = j
    BY <1>1
  <2>3. ASSUME NEW j \in moved PROVE \E i \in inT : shift[i] = j
    <3>1. j \in Len(s) + 1 .. Len(s) + Len(t) /\ (s \o t)[j] = k
      BY <1>1
    <3>2. j - Len(s) \in 1 .. Len(t) /\ t[j - Len(s)] = k
      BY <1>1, <3>1
    <3>3. j - Len(s) \in inT /\ (j - Len(s)) + Len(s) = j
      BY <1>1, <3>1, <3>2
    <3> QED
      BY <3>3
  <2> HIDE DEF shift, inT, moved
  <2> QED
    BY <2>1, <2>2, <2>3 DEF Bijection, Injection, Surjection, IsInjective
<1>4. IsFiniteSet(moved) /\ Cardinality(moved) = Cardinality(inT)
  <2> HIDE DEF moved, inT, shift
  <2>1. ExistsBijection(inT, moved)
    BY <1>3 DEF ExistsBijection
  <2> QED
    BY <1>2, <2>1, FS_Bijection
<1>5. both = inS \cup moved /\ inS \cap moved = {}
  BY <1>1
<1>6. Cardinality(both) = Cardinality(inS) + Cardinality(inT)
  <2> HIDE DEF moved, inT, inS, both
  <2>1. Cardinality(inS \cup moved)
          = Cardinality(inS) + Cardinality(moved) - Cardinality(inS \cap moved)
    BY <1>2, <1>4, FS_Union
  <2>2. Cardinality(inS) \in Nat /\ Cardinality(moved) \in Nat
    BY <1>2, <1>4, FS_CardinalityType
  <2>3. Cardinality({}) = 0
    BY FS_EmptySet
  <2>4. Cardinality(inS \cap moved) = 0
    BY <1>5, <2>3, Zenon
  <2>5. Cardinality(both) = Cardinality(inS \cup moved)
    BY <1>5, Zenon
  <2> QED
    BY <1>4, <2>1, <2>2, <2>4, <2>5
<1> QED
  BY <1>6 DEF Occurrences

(* How often a key is in a sequence of one. *)
LEMMA OccurrencesOne ==
  ASSUME NEW e, NEW k
  PROVE  Occurrences(<<e>>, k) = IF e = k THEN 1 ELSE 0
<1>1. {i \in DOMAIN <<e>> : <<e>>[i] = k} = IF e = k THEN {1} ELSE {}
  OBVIOUS
<1>2. Cardinality({1}) = 1 /\ Cardinality({}) = 0
  BY FS_Singleton, FS_EmptySet
<1> QED
  BY <1>1, <1>2 DEF Occurrences

(* One element more. *)
LEMMA OccurrencesAppend ==
  ASSUME NEW S, NEW s \in Seq(S), NEW e \in S, NEW k
  PROVE  Occurrences(Append(s, e), k) = Occurrences(s, k) + (IF e = k THEN 1 ELSE 0)
<1>1. Append(s, e) = s \o <<e>> /\ <<e>> \in Seq(S)
  BY AppendIsConcat
<1>2. Occurrences(s \o <<e>>, k) = Occurrences(s, k) + Occurrences(<<e>>, k)
  BY <1>1, OccurrencesConcat
<1>3. Occurrences(<<e>>, k) = IF e = k THEN 1 ELSE 0
  BY OccurrencesOne
<1> QED
  BY <1>1, <1>2, <1>3

(* One element less. *)
LEMMA OccurrencesTail ==
  ASSUME NEW S, NEW s \in Seq(S), s # <<>>, NEW k
  PROVE  Occurrences(s, k) = Occurrences(Tail(s), k) + (IF Head(s) = k THEN 1 ELSE 0)
<1>1. s = <<Head(s)>> \o Tail(s) /\ <<Head(s)>> \in Seq(S) /\ Tail(s) \in Seq(S)
  OBVIOUS
<1>2. Occurrences(<<Head(s)>> \o Tail(s), k) = Occurrences(<<Head(s)>>, k) + Occurrences(Tail(s), k)
  BY <1>1, OccurrencesConcat
<1>3. Occurrences(Tail(s), k) \in Nat
  BY <1>1, OccurrencesType
<1>4. Occurrences(<<Head(s)>>, k) = IF Head(s) = k THEN 1 ELSE 0
  BY OccurrencesOne
<1>5. Occurrences(s, k) = Occurrences(<<Head(s)>> \o Tail(s), k)
  BY <1>1, Zenon
<1> QED
  BY <1>2, <1>3, <1>4, <1>5

(* The keys of words. *)
LEMMA KeysType ==
  ASSUME NEW ws \in Seq(Word)
  PROVE  KeysOf(ws) \in Seq(Key) /\ Len(KeysOf(ws)) = Len(ws)
<1>1. \A i \in 1 .. Len(ws) : Reformat(ws[i]) \in Key
  BY DEF Key
<1> QED
  BY <1>1 DEF KeysOf

(* The keys of two texts in a row. *)
LEMMA KeysConcat ==
  ASSUME NEW v \in Seq(Word), NEW w \in Seq(Word)
  PROVE  KeysOf(v \o w) = KeysOf(v) \o KeysOf(w)
<1>1. v \o w \in Seq(Word)
  OBVIOUS
<1>2. /\ KeysOf(v) \in Seq(Key) /\ KeysOf(w) \in Seq(Key) /\ KeysOf(v \o w) \in Seq(Key)
      /\ Len(KeysOf(v)) = Len(v) /\ Len(KeysOf(w)) = Len(w) /\ Len(KeysOf(v \o w)) = Len(v \o w)
  BY <1>1, KeysType
<1>3. /\ KeysOf(v) \o KeysOf(w) \in Seq(Key)
      /\ Len(KeysOf(v) \o KeysOf(w)) = Len(v) + Len(w)
      /\ Len(v \o w) = Len(v) + Len(w)
  BY <1>2, ConcatProperties
<1>4. ASSUME NEW i \in 1 .. Len(v) + Len(w)
      PROVE  KeysOf(v \o w)[i] = (KeysOf(v) \o KeysOf(w))[i]
  <2>1. KeysOf(v \o w)[i] = Reformat((v \o w)[i])
    BY <1>3 DEF KeysOf
  <2>2. CASE i <= Len(v)
    <3>1. (v \o w)[i] = v[i] /\ (KeysOf(v) \o KeysOf(w))[i] = KeysOf(v)[i] /\ KeysOf(v)[i] = Reformat(v[i])
      BY <1>2, <2>2 DEF KeysOf
    <3> QED
      BY <2>1, <3>1
  <2>3. CASE ~(i <= Len(v))
    <3>1. (v \o w)[i] = w[i - Len(v)] /\ i - Len(v) \in 1 .. Len(w)
      BY <2>3
    <3>2. (KeysOf(v) \o KeysOf(w))[i] = KeysOf(w)[i - Len(v)]
      BY <1>2, <2>3
    <3>3. KeysOf(w)[i - Len(v)] = Reformat(w[i - Len(v)])
      BY <3>1 DEF KeysOf
    <3> QED
      BY <2>1, <3>1, <3>2, <3>3
  <2> QED
    BY <2>2, <2>3
<1> HIDE DEF KeysOf
<1> QED
  BY <1>2, <1>3, <1>4, SeqEqual

-----------------------------------------------------------------------------
(* A function given by its first value and a step from each value to the   *)
(* next exists.                                                             *)
Steps(n, S) == [1 .. n -> [S -> S]]
Follows(g, n, S, s, step) ==
  /\ g \in [0 .. n -> S]
  /\ g[0] = s
  /\ \A i \in 1 .. n : g[i] = step[i][g[i - 1]]

(* Recursion up to a bound. *)
LEMMA RecursionUpTo ==
  ASSUME NEW n \in Nat, NEW S, NEW s \in S, NEW step \in Steps(n, S)
  PROVE  \E g : Follows(g, n, S, s, step)
<1>0. step \in [1 .. n -> [S -> S]]
  BY DEF Steps
<1> DEFINE Done == {k \in Nat : k <= n =>
             \E g \in [0 .. k -> S] : g[0] = s /\ \A i \in 1 .. k : g[i] = step[i][g[i - 1]]}
<1>1. 0 \in Done
  <2>1. [i \in 0 .. 0 |-> s] \in [0 .. 0 -> S] /\ [i \in 0 .. 0 |-> s][0] = s /\ 1 .. 0 = {}
    OBVIOUS
  <2> QED
    BY <2>1
<1>2. ASSUME NEW k \in Done PROVE k + 1 \in Done
  <2> SUFFICES ASSUME k + 1 <= n
               PROVE  \E g \in [0 .. k + 1 -> S] :
                        g[0] = s /\ \A i \in 1 .. k + 1 : g[i] = step[i][g[i - 1]]
    <3>1. k + 1 \in Nat
      OBVIOUS
    <3> QED
      BY <3>1
  <2>0. k + 1 \in 1 .. n
    OBVIOUS
  <2>1. PICK g \in [0 .. k -> S] : g[0] = s /\ \A i \in 1 .. k : g[i] = step[i][g[i - 1]]
    OBVIOUS
  <2> DEFINE h == [i \in 0 .. k + 1 |-> IF i = k + 1 THEN step[k + 1][g[k]] ELSE g[i]]
  <2>2. step[k + 1][g[k]] \in S
    BY <1>0, <2>0, <2>1
  <2>3. h \in [0 .. k + 1 -> S] /\ h[0] = s
    BY <2>1, <2>2
  <2>4. ASSUME NEW i \in 1 .. k + 1 PROVE h[i] = step[i][h[i - 1]]
    <3>1. CASE i = k + 1
      <4>1. i - 1 = k /\ k \in 0 .. k + 1 /\ k # k + 1 /\ i \in 0 .. k + 1
        BY <3>1
      <4>2. h[k] = g[k] /\ h[i] = step[k + 1][g[k]]
        BY <3>1, <4>1
      <4> QED
        BY <3>1, <4>1, <4>2
    <3>2. CASE i # k + 1
      <4>1. i \in 1 .. k /\ i \in 0 .. k + 1 /\ i - 1 \in 0 .. k + 1 /\ i - 1 # k + 1
        BY <3>2
      <4> QED
        BY <2>1, <3>2, <4>1
    <3> QED
      BY <3>1, <3>2
  <2> HIDE DEF h
  <2> QED
    BY <2>3, <2>4
<1> HIDE DEF Done
<1>3. Done = Nat
  <2>1. Done \in SUBSET Nat
    BY DEF Done
  <2> QED
    BY <1>1, <1>2, <2>1, NatBySet
<1>4. n \in Done
  BY <1>3
<1> QED
  BY <1>4 DEF Done, Follows

-----------------------------------------------------------------------------
(* Reading words *)

Reading == [words : Seq(Word), word : Word]
Nothing == [words |-> <<>>, word |-> <<>>]

(* A reader stays a reader. *)
LEMMA BegunType ==
  ASSUME NEW c, c \in STRING \/ c = Space, NEW r \in Reading
  PROVE  Begun(c, r) \in Reading
BY DEF Begun, Reading, Word

(* What has been read after each character. *)
LEMMA ReadingIs ==
  ASSUME NEW chars \in Text
  PROVE  /\ ReadingOf(chars) \in [0 .. Len(chars) -> Reading]
         /\ ReadingOf(chars)[0] = Nothing
         /\ \A i \in 1 .. Len(chars) :
              ReadingOf(chars)[i] = Begun(chars[i], ReadingOf(chars)[i - 1])
<1> DEFINE n == Len(chars)
           step == [i \in 1 .. n |-> [r \in Reading |-> Begun(chars[i], r)]]
           Reads(g) == g = [i \in 0 .. n |->
             IF i = 0 THEN [words |-> <<>>, word |-> <<>>] ELSE Begun(chars[i], g[i - 1])]
<1>1. n \in Nat /\ \A i \in 1 .. n : chars[i] \in STRING
  BY DEF Text
<1>2. Nothing \in Reading
  BY DEF Nothing, Reading, Word
<1>3. step \in [1 .. n -> [Reading -> Reading]]
  <2>1. ASSUME NEW i \in 1 .. n, NEW r \in Reading PROVE Begun(chars[i], r) \in Reading
    BY <1>1, BegunType
  <2> QED
    BY <2>1
<1>4. \A i \in 1 .. n : \A r \in Reading : step[i][r] = Begun(chars[i], r)
  OBVIOUS
<1> HIDE DEF n, step
<1>5. PICK g : /\ g \in [0 .. n -> Reading] /\ g[0] = Nothing
               /\ \A i \in 1 .. n : g[i] = step[i][g[i - 1]]
  <2>1. step \in Steps(n, Reading)
    BY <1>3 DEF Steps
  <2>2. \E g : Follows(g, n, Reading, Nothing, step)
    BY <1>1, <1>2, <2>1, RecursionUpTo
  <2> QED
    BY <2>2 DEF Follows
<1>6. ASSUME NEW i \in 1 .. n PROVE g[i] = Begun(chars[i], g[i - 1])
  <2>1. i - 1 \in 0 .. n
    BY <1>1
  <2> QED
    BY <1>4, <1>5, <2>1
<1>7. Reads(g)
  <2>1. \A i \in 0 .. n : i = 0 \/ i \in 1 .. n
    BY <1>1
  <2> QED
    BY <1>5, <1>6, <2>1 DEF Nothing
<1>8. ReadingOf(chars) = CHOOSE h : Reads(h)
  BY DEF ReadingOf, n
<1> HIDE DEF Reads
<1>9. Reads(ReadingOf(chars))
  BY <1>7, <1>8
<1> DEFINE h == ReadingOf(chars)
<1> HIDE DEF h
<1>10. h = [i \in 0 .. n |->
             IF i = 0 THEN [words |-> <<>>, word |-> <<>>] ELSE Begun(chars[i], h[i - 1])]
  BY <1>9 DEF Reads, h
<1>11. h[0] = Nothing /\ \A i \in 1 .. n : h[i] = Begun(chars[i], h[i - 1])
  BY <1>1, <1>10 DEF Nothing
<1>12. h \in [0 .. n -> Reading]
  <2> DEFINE Typed == {i \in Nat : i <= n => h[i] \in Reading}
  <2>1. 0 \in Typed
    BY <1>2, <1>11
  <2>2. ASSUME NEW i \in Typed PROVE i + 1 \in Typed
    <3>1. i \in Nat
      OBVIOUS
    <3>2. ASSUME i + 1 <= n PROVE h[i + 1] \in Reading
      <4>1. i + 1 \in 1 .. n /\ (i + 1) - 1 = i /\ h[i] \in Reading
        BY <1>1, <3>1, <3>2
      <4>2. h[i + 1] = Begun(chars[i + 1], h[i]) /\ chars[i + 1] \in STRING
        BY <1>1, <1>11, <4>1 DEF n
      <4> QED
        BY <4>1, <4>2, BegunType
    <3> QED
      BY <3>1, <3>2
  <2> HIDE DEF Typed
  <2>3. Typed = Nat
    <3>1. Typed \in SUBSET Nat
      BY DEF Typed
    <3> QED
      BY <2>1, <2>2, <3>1, NatBySet
  <2>4. \A i \in 0 .. n : h[i] \in Reading
    BY <1>1, <2>3 DEF Typed
  <2> QED
    BY <1>10, <2>4
<1> QED
  BY <1>11, <1>12 DEF h, n

(* Words are words. *)
LEMMA WordsType ==
  ASSUME NEW chars \in Text
  PROVE  WordsOf(chars) \in Seq(Word)
<1>1. ReadingOf(chars)[Len(chars)] \in Reading
  <2>1. Len(chars) \in 0 .. Len(chars)
    BY DEF Text
  <2> QED
    BY <2>1, ReadingIs
<1>2. Begun(Space, ReadingOf(chars)[Len(chars)]) \in Reading
  BY <1>1, BegunType
<1> QED
  BY <1>2 DEF WordsOf, Reading

(* What was read depends on the characters read only. *)
LEMMA ReadingOfPrefix ==
  ASSUME NEW s \in Text, NEW u \in Text, Len(s) <= Len(u), \A i \in 1 .. Len(s) : u[i] = s[i]
  PROVE  \A i \in 0 .. Len(s) : ReadingOf(u)[i] = ReadingOf(s)[i]
<1> DEFINE Same == {i \in Nat : i <= Len(s) => ReadingOf(u)[i] = ReadingOf(s)[i]}
<1>1. Len(s) \in Nat /\ Len(u) \in Nat
  BY DEF Text
<1>2. 0 \in Same
  BY ReadingIs
<1>3. ASSUME NEW i \in Same PROVE i + 1 \in Same
  <2>1. i \in Nat
    OBVIOUS
  <2>2. ASSUME i + 1 <= Len(s) PROVE ReadingOf(u)[i + 1] = ReadingOf(s)[i + 1]
    <3>1. i + 1 \in 1 .. Len(s) /\ i + 1 \in 1 .. Len(u) /\ (i + 1) - 1 = i
      BY <1>1, <2>1, <2>2
    <3>2. /\ ReadingOf(u)[i + 1] = Begun(u[i + 1], ReadingOf(u)[i])
          /\ ReadingOf(s)[i + 1] = Begun(s[i + 1], ReadingOf(s)[i])
      BY <3>1, ReadingIs
    <3>3. ReadingOf(u)[i] = ReadingOf(s)[i] /\ u[i + 1] = s[i + 1]
      BY <1>1, <2>1, <2>2, <3>1
    <3> QED
      BY <3>2, <3>3
  <2> QED
    BY <2>1, <2>2
<1> HIDE DEF Same
<1>4. Same = Nat
  <2>1. Same \in SUBSET Nat
    BY DEF Same
  <2> QED
    BY <1>2, <1>3, <2>1, NatBySet
<1> QED
  BY <1>1, <1>4 DEF Same

(* A space between two texts completes the first: what is read behind it    *)
(* is what would be read at the beginning.                                  *)
Joined(s, t, u) ==
  /\ Len(u) = Len(s) + 1 + Len(t)
  /\ \A i \in 1 .. Len(s) : u[i] = s[i]
  /\ u[Len(s) + 1] = Space
  /\ \A i \in 1 .. Len(t) : u[Len(s) + 1 + i] = t[i]

Behind(ws, r) == [words |-> ws \o r.words, word |-> r.word]

(* A character read behind the words of another text. *)
LEMMA BegunBehind ==
  ASSUME NEW c, c \in STRING \/ c = Space, NEW r \in Reading, NEW ws \in Seq(Word)
  PROVE  Begun(c, Behind(ws, r)) = Behind(ws, Begun(c, r))
<1>1. /\ r.words \in Seq(Word) /\ r.word \in Word
      /\ r = [words |-> r.words, word |-> r.word]
  BY DEF Reading
<1>2. CASE c # Space
  BY <1>1, <1>2 DEF Begun, Behind
<1>3. CASE c = Space /\ r.word = <<>>
  BY <1>1, <1>3 DEF Begun, Behind
<1>4. CASE c = Space /\ r.word # <<>>
  <2>1. Append(ws \o r.words, r.word) = ws \o Append(r.words, r.word)
    BY <1>1
  <2> QED
    BY <1>1, <1>4, <2>1 DEF Begun, Behind
<1> QED
  BY <1>2, <1>3, <1>4

(* The words of two texts with a space between them. *)
LEMMA WordsJoined ==
  ASSUME NEW s \in Text, NEW t \in Text, NEW u \in Text, Joined(s, t, u)
  PROVE  WordsOf(u) = WordsOf(s) \o WordsOf(t)
<1> DEFINE n == Len(s) + 1
           ws == WordsOf(s)
           Same == {i \in Nat : i <= Len(t) =>
                      ReadingOf(u)[n + i] = Behind(ws, ReadingOf(t)[i])}
<1>1. Len(s) \in Nat /\ Len(t) \in Nat /\ Len(u) \in Nat /\ ws \in Seq(Word)
  BY WordsType DEF Text
<1>2. ReadingOf(u)[n] = Behind(ws, Nothing)
  <2> DEFINE r == ReadingOf(s)[Len(s)]
  <2>1. ReadingOf(u)[Len(s)] = r
    <3>1. Len(s) <= Len(u) /\ (\A i \in 1 .. Len(s) : u[i] = s[i]) /\ Len(s) \in 0 .. Len(s)
      BY <1>1 DEF Joined
    <3>2. \A i \in 0 .. Len(s) : ReadingOf(u)[i] = ReadingOf(s)[i]
      BY <3>1, ReadingOfPrefix
    <3> QED
      BY <3>1, <3>2
  <2>2. n \in 1 .. Len(u) /\ n - 1 = Len(s)
    BY <1>1 DEF Joined
  <2>3. ReadingOf(u)[n] = Begun(Space, r)
    BY <2>1, <2>2, ReadingIs DEF Joined
  <2>4. r \in Reading
    BY <1>1, ReadingIs
  <2>5. ws = Begun(Space, r).words
    BY DEF WordsOf
  <2> HIDE DEF r, ws, n
  <2>6. Begun(Space, r) = [words |-> ws, word |-> <<>>]
    <3>1. r = [words |-> r.words, word |-> r.word] /\ r.words \in Seq(Word)
      BY <2>4 DEF Reading
    <3> QED
      BY <2>5, <3>1 DEF Begun
  <2>7. ws \o <<>> = ws
    BY <1>1
  <2> QED
    BY <2>3, <2>6, <2>7 DEF Behind, Nothing
<1>3. 0 \in Same
  <2>1. n + 0 = n /\ ReadingOf(t)[0] = Nothing
    BY <1>1, ReadingIs
  <2> QED
    BY <1>2, <2>1
<1>4. ASSUME NEW i \in Same PROVE i + 1 \in Same
  <2>1. i \in Nat
    OBVIOUS
  <2>2. ASSUME i + 1 <= Len(t)
        PROVE  ReadingOf(u)[n + (i + 1)] = Behind(ws, ReadingOf(t)[i + 1])
    <3>1. /\ i + 1 \in 1 .. Len(t) /\ (i + 1) - 1 = i /\ i \in 0 .. Len(t)
          /\ n + (i + 1) \in 1 .. Len(u) /\ n + (i + 1) - 1 = n + i
      BY <1>1, <2>1, <2>2 DEF Joined
    <3>2. u[n + (i + 1)] = t[i + 1] /\ t[i + 1] \in STRING
      BY <1>1, <3>1 DEF Joined, Text
    <3>3. ReadingOf(t)[i] \in Reading
      BY <3>1, ReadingIs
    <3>4. /\ ReadingOf(u)[n + (i + 1)] = Begun(t[i + 1], ReadingOf(u)[n + i])
          /\ ReadingOf(t)[i + 1] = Begun(t[i + 1], ReadingOf(t)[i])
      BY <3>1, <3>2, ReadingIs
    <3>5. ReadingOf(u)[n + i] = Behind(ws, ReadingOf(t)[i])
      BY <2>1, <3>1
    <3>6. Begun(t[i + 1], Behind(ws, ReadingOf(t)[i])) = Behind(ws, Begun(t[i + 1], ReadingOf(t)[i]))
      BY <1>1, <3>2, <3>3, BegunBehind
    <3> QED
      BY <3>4, <3>5, <3>6
  <2> QED
    BY <2>1, <2>2
<1>5. Same = Nat
  <2>1. Same \in SUBSET Nat
    OBVIOUS
  <2> HIDE DEF Same
  <2> QED
    BY <1>3, <1>4, <2>1, NatBySet
<1>6. ReadingOf(u)[Len(u)] = Behind(ws, ReadingOf(t)[Len(t)])
  <2>1. Len(t) \in Same /\ n + Len(t) = Len(u)
    BY <1>1, <1>5 DEF Joined
  <2> QED
    BY <2>1
<1>7. ReadingOf(t)[Len(t)] \in Reading
  <2>1. Len(t) \in 0 .. Len(t)
    BY <1>1
  <2> QED
    BY <2>1, ReadingIs
<1>8. Begun(Space, ReadingOf(u)[Len(u)]) = Behind(ws, Begun(Space, ReadingOf(t)[Len(t)]))
  BY <1>1, <1>6, <1>7, BegunBehind
<1> DEFINE a == Begun(Space, ReadingOf(t)[Len(t)])
<1>9. WordsOf(t) = a.words /\ WordsOf(u) = Begun(Space, ReadingOf(u)[Len(u)]).words
  BY DEF WordsOf
<1> HIDE DEF ws, a
<1>10. WordsOf(u) = Behind(ws, a).words
  BY <1>8, <1>9 DEF a
<1>11. Behind(ws, a).words = ws \o a.words
  BY DEF Behind
<1> QED
  BY <1>9, <1>10, <1>11 DEF ws

(* An empty text has no words. *)
LEMMA NoWords ==
  WordsOf(<<>>) = <<>>
<1>1. <<>> \in Text /\ Len(<<>>) = 0
  BY DEF Text
<1>2. ReadingOf(<<>>)[0] = Nothing
  BY <1>1, ReadingIs
<1> QED
  BY <1>1, <1>2 DEF WordsOf, Begun, Nothing

-----------------------------------------------------------------------------
(* dividefile *)

(* A part ends at a separator, or at the end of the text. *)
LEMMA PartEndIs ==
  ASSUME NEW chars \in Text, NEW share \in Nat, NEW from \in Nat \ {0}
  PROVE  /\ PartEnd(chars, share, from) \in 1 .. Len(chars) + 1
         /\ \/ PartEnd(chars, share, from) = Len(chars) + 1
            \/ /\ PartEnd(chars, share, from) >= from
               /\ PartEnd(chars, share, from) \in 1 .. Len(chars)
               /\ chars[PartEnd(chars, share, from)] = Space
<1> DEFINE ends == {i \in DOMAIN chars : i >= from + share /\ chars[i] = Space}
<1>1. Len(chars) \in Nat /\ DOMAIN chars = 1 .. Len(chars)
  BY DEF Text
<1>2. CASE ends = {}
  BY <1>1, <1>2 DEF PartEnd
<1>3. CASE ends # {}
  <2>1. ends \in SUBSET Nat
    BY <1>1
  <2> DEFINE e == CHOOSE i \in ends : \A j \in ends : i <= j
  <2>2. e \in ends
    <3> HIDE DEF ends
    <3> QED
      BY <1>3, <2>1, LeastNatural
  <2>3. PartEnd(chars, share, from) = e
    BY <1>3 DEF PartEnd
  <2> HIDE DEF e
  <2>4. e \in 1 .. Len(chars) /\ e >= from + share /\ chars[e] = Space
    BY <1>1, <2>2
  <2> QED
    BY <1>1, <2>3, <2>4
<1> QED
  BY <1>2, <1>3

(* The ends of the parts: each behind the last one, until the text ends. *)
EndsOfParts(chars, num, e) ==
  /\ e \in [0 .. num - 1 -> 0 .. Len(chars) + 1]
  /\ e[0] = 0
  /\ \A i \in 1 .. num - 1 :
       /\ e[i] # 0
       /\ \/ e[i] = Len(chars) + 1
          \/ e[i] > e[i - 1] /\ e[i] <= Len(chars) /\ chars[e[i]] = Space

(* The parts of the text end at spaces, in order. *)
LEMMA PartEndsAre ==
  ASSUME NEW chars \in Text, NEW num \in Nat \ {0}
  PROVE  EndsOfParts(chars, num, PartEnds(chars, num))
<1> DEFINE n == num - 1
           share == Len(chars) \div num
           S == 0 .. Len(chars) + 1
           step == [i \in 1 .. n |-> [e \in S |-> PartEnd(chars, share, e + 1)]]
           Cuts(g) == g = [i \in 0 .. n |->
             IF i = 0 THEN 0 ELSE PartEnd(chars, Len(chars) \div num, g[i - 1] + 1)]
<1>1. n \in Nat /\ share \in Nat /\ Len(chars) \in Nat /\ 0 \in S
  BY DEF Text
<1>2. \A e \in S : /\ PartEnd(chars, share, e + 1) \in S /\ PartEnd(chars, share, e + 1) # 0
                   /\ \/ PartEnd(chars, share, e + 1) = Len(chars) + 1
                      \/ /\ PartEnd(chars, share, e + 1) > e
                         /\ PartEnd(chars, share, e + 1) <= Len(chars)
                         /\ chars[PartEnd(chars, share, e + 1)] = Space
  <2> SUFFICES ASSUME NEW e \in S
               PROVE  /\ PartEnd(chars, share, e + 1) \in S /\ PartEnd(chars, share, e + 1) # 0
                      /\ \/ PartEnd(chars, share, e + 1) = Len(chars) + 1
                         \/ /\ PartEnd(chars, share, e + 1) > e
                            /\ PartEnd(chars, share, e + 1) <= Len(chars)
                            /\ chars[PartEnd(chars, share, e + 1)] = Space
    OBVIOUS
  <2>1. e + 1 \in Nat \ {0} /\ e \in Nat
    BY <1>1
  <2> HIDE DEF share
  <2> DEFINE p == PartEnd(chars, share, e + 1)
  <2>2. /\ p \in 1 .. Len(chars) + 1
        /\ p = Len(chars) + 1 \/ (p >= e + 1 /\ p \in 1 .. Len(chars) /\ chars[p] = Space)
    BY <1>1, <2>1, PartEndIs
  <2> HIDE DEF p
  <2>3. p \in 0 .. Len(chars) + 1 /\ p # 0
        /\ (p = Len(chars) + 1 \/ (p > e /\ p <= Len(chars) /\ chars[p] = Space))
    BY <1>1, <2>1, <2>2
  <2> QED
    BY <2>3 DEF p
<1>3. step \in [1 .. n -> [S -> S]]
  BY <1>2
<1>4. \A i \in 1 .. n : \A e \in S : step[i][e] = PartEnd(chars, share, e + 1)
  OBVIOUS
<1> HIDE DEF n, step, S, share
<1>5. PICK g : g \in [0 .. n -> S] /\ g[0] = 0 /\ \A i \in 1 .. n : g[i] = step[i][g[i - 1]]
  <2>1. step \in Steps(n, S)
    BY <1>3 DEF Steps
  <2>2. \E g : Follows(g, n, S, 0, step)
    BY <1>1, <2>1, RecursionUpTo
  <2> QED
    BY <2>2 DEF Follows
<1>6. ASSUME NEW i \in 1 .. n PROVE g[i] = PartEnd(chars, share, g[i - 1] + 1)
  <2>1. i - 1 \in 0 .. n
    BY <1>1
  <2> QED
    BY <1>4, <1>5, <2>1
<1>7. Cuts(g)
  <2>1. \A i \in 0 .. n : i = 0 \/ i \in 1 .. n
    BY <1>1
  <2> QED
    BY <1>5, <1>6, <2>1 DEF share
<1>8. PartEnds(chars, num) = CHOOSE h : Cuts(h)
  BY DEF PartEnds, n
<1> HIDE DEF Cuts
<1>9. Cuts(PartEnds(chars, num))
  BY <1>7, <1>8
<1> DEFINE h == PartEnds(chars, num)
<1> HIDE DEF h
<1>10. h = [i \in 0 .. n |-> IF i = 0 THEN 0 ELSE PartEnd(chars, share, h[i - 1] + 1)]
  BY <1>9 DEF Cuts, h, share
<1>11. h[0] = 0 /\ \A i \in 1 .. n : h[i] = PartEnd(chars, share, h[i - 1] + 1)
  BY <1>1, <1>10
<1>12. \A i \in 0 .. n : h[i] \in S
  <2> DEFINE Typed == {i \in Nat : i <= n => h[i] \in S}
  <2>1. 0 \in Typed
    BY <1>1, <1>11
  <2>2. ASSUME NEW i \in Typed PROVE i + 1 \in Typed
    <3>1. i \in Nat
      OBVIOUS
    <3>2. ASSUME i + 1 <= n PROVE h[i + 1] \in S
      <4>1. i + 1 \in 1 .. n /\ (i + 1) - 1 = i /\ h[i] \in S
        BY <1>1, <3>1, <3>2
      <4> QED
        BY <1>2, <1>11, <4>1
    <3> QED
      BY <3>1, <3>2
  <2> HIDE DEF Typed
  <2>3. Typed = Nat
    <3>1. Typed \in SUBSET Nat
      BY DEF Typed
    <3> QED
      BY <2>1, <2>2, <3>1, NatBySet
  <2> QED
    BY <1>1, <2>3 DEF Typed
<1>13. h \in [0 .. n -> S]
  BY <1>10, <1>12
<1>14. ASSUME NEW i \in 1 .. n
       PROVE  h[i] # 0 /\ (h[i] = Len(chars) + 1
                             \/ (h[i] > h[i - 1] /\ h[i] <= Len(chars) /\ chars[h[i]] = Space))
  <2>1. i - 1 \in 0 .. n
    BY <1>1
  <2>2. h[i - 1] \in S /\ h[i] = PartEnd(chars, share, h[i - 1] + 1)
    BY <1>11, <1>12, <2>1
  <2> QED
    BY <1>2, <2>2
<1> QED
  BY <1>11, <1>13, <1>14 DEF EndsOfParts, h, n, S

(* Cut at a space, a piece of the text has the words of its two halves. *)
LEMMA PieceOfText ==
  ASSUME NEW chars \in Text, NEW a \in Nat \ {0}, NEW b \in Int, b <= Len(chars)
  PROVE  /\ SubSeq(chars, a, b) \in Text
         /\ Len(SubSeq(chars, a, b)) = IF a <= b THEN b - a + 1 ELSE 0
         /\ \A i \in 1 .. b - a + 1 : SubSeq(chars, a, b)[i] = chars[a + i - 1]
<1>1. chars \in Seq(STRING) /\ a \in Int /\ Len(chars) \in Nat
  BY DEF Text
<1>2. \A i \in a .. b : chars[i] \in STRING
  <2>1. \A i \in a .. b : i \in 1 .. Len(chars)
    BY <1>1
  <2> QED
    BY <1>1, <2>1
<1>3. /\ SubSeq(chars, a, b) \in Seq(STRING)
      /\ Len(SubSeq(chars, a, b)) = IF a <= b THEN b - a + 1 ELSE 0
      /\ \A i \in 1 .. b - a + 1 : SubSeq(chars, a, b)[i] = chars[a + i - 1]
  BY <1>1, <1>2, SubSeqProperties
<1> QED
  BY <1>3 DEF Text

(* A text cut at a space has the words of both halves. *)
LEMMA CutAtSpace ==
  ASSUME NEW chars \in Text, NEW a \in Nat \ {0}, NEW p \in Nat, NEW b \in Nat,
         a <= p, p <= b, b <= Len(chars), chars[p] = Space
  PROVE  WordsOf(SubSeq(chars, a, b))
           = WordsOf(SubSeq(chars, a, p - 1)) \o WordsOf(SubSeq(chars, p + 1, b))
<1> DEFINE s == SubSeq(chars, a, p - 1)
           t == SubSeq(chars, p + 1, b)
           u == SubSeq(chars, a, b)
<1>0. Len(chars) \in Nat
  BY DEF Text
<1>1. s \in Text /\ Len(s) = p - a /\ \A i \in 1 .. p - a : s[i] = chars[a + i - 1]
  <2>1. p - 1 \in Int /\ p - 1 <= Len(chars) /\ (p - 1) - a + 1 = p - a
    BY <1>0
  <2>2. /\ s \in Text /\ Len(s) = IF a <= p - 1 THEN (p - 1) - a + 1 ELSE 0
        /\ \A i \in 1 .. (p - 1) - a + 1 : s[i] = chars[a + i - 1]
    BY <2>1, PieceOfText
  <2> HIDE DEF s
  <2> QED
    BY <2>1, <2>2
<1>2. t \in Text /\ Len(t) = b - p /\ \A i \in 1 .. b - p : t[i] = chars[p + i]
  <2>1. p + 1 \in Nat \ {0} /\ b - (p + 1) + 1 = b - p
    OBVIOUS
  <2>2. /\ t \in Text /\ Len(t) = IF p + 1 <= b THEN b - (p + 1) + 1 ELSE 0
        /\ \A i \in 1 .. b - (p + 1) + 1 : t[i] = chars[(p + 1) + i - 1]
    BY <2>1, PieceOfText
  <2> HIDE DEF t
  <2>3. \A i \in 1 .. b - p : (p + 1) + i - 1 = p + i
    OBVIOUS
  <2> QED
    BY <2>1, <2>2, <2>3
<1>3. u \in Text /\ Len(u) = b - a + 1 /\ \A i \in 1 .. b - a + 1 : u[i] = chars[a + i - 1]
  <2>1. /\ u \in Text /\ Len(u) = IF a <= b THEN b - a + 1 ELSE 0
        /\ \A i \in 1 .. b - a + 1 : u[i] = chars[a + i - 1]
    BY PieceOfText
  <2> HIDE DEF u
  <2> QED
    BY <2>1
<1> HIDE DEF s, t, u
<1>4. Joined(s, t, u)
  <2>1. Len(u) = Len(s) + 1 + Len(t)
    BY <1>1, <1>2, <1>3
  <2>2. \A i \in 1 .. Len(s) : u[i] = s[i]
    <3>1. \A i \in 1 .. p - a : i \in 1 .. b - a + 1
      OBVIOUS
    <3> QED
      BY <1>1, <1>3, <3>1
  <2>3. u[Len(s) + 1] = Space
    <3>1. (p - a) + 1 \in 1 .. b - a + 1 /\ a + ((p - a) + 1) - 1 = p
      OBVIOUS
    <3>2. u[(p - a) + 1] = chars[p]
      BY <1>3, <3>1
    <3> QED
      BY <1>1, <3>2
  <2>4. ASSUME NEW i \in 1 .. Len(t) PROVE u[Len(s) + 1 + i] = t[i]
    <3>1. /\ i \in 1 .. b - p /\ (p - a) + 1 + i \in 1 .. b - a + 1
          /\ a + ((p - a) + 1 + i) - 1 = p + i
      BY <1>2
    <3>2. u[(p - a) + 1 + i] = chars[p + i] /\ t[i] = chars[p + i]
      BY <1>2, <1>3, <3>1
    <3> QED
      BY <1>1, <3>2
  <2> QED
    BY <2>1, <2>2, <2>3, <2>4 DEF Joined
<1>5. WordsOf(u) = WordsOf(s) \o WordsOf(t)
  BY <1>1, <1>2, <1>3, <1>4, WordsJoined
<1> QED
  BY <1>5 DEF s, t, u

(* How often a key occurs in the words of a text. *)
OccursIn(chars, key) == Occurrences(KeysOf(WordsOf(chars)), key)

(* Occurrences are counted. *)
LEMMA OccursInType ==
  ASSUME NEW chars \in Text, NEW key
  PROVE  OccursIn(chars, key) \in Nat
<1>1. KeysOf(WordsOf(chars)) \in Seq(Key)
  BY WordsType, KeysType
<1> QED
  BY <1>1, OccurrencesType DEF OccursIn

(* There are none in an empty text. *)
LEMMA OccursInNothing ==
  ASSUME NEW key
  PROVE  OccursIn(<<>>, key) = 0
<1>1. KeysOf(<<>>) = <<>>
  BY DEF KeysOf
<1>2. {i \in DOMAIN <<>> : <<>>[i] = key} = {}
  OBVIOUS
<1> QED
  BY <1>1, <1>2, NoWords, FS_EmptySet DEF OccursIn, Occurrences

(* Those of a text cut at a space are those of both halves. *)
LEMMA OccursInHalves ==
  ASSUME NEW chars \in Text, NEW a \in Nat \ {0}, NEW p \in Nat, NEW b \in Nat,
         a <= p, p <= b, b <= Len(chars), chars[p] = Space, NEW key
  PROVE  OccursIn(SubSeq(chars, a, b), key)
           = OccursIn(SubSeq(chars, a, p - 1), key) + OccursIn(SubSeq(chars, p + 1, b), key)
<1> DEFINE v == WordsOf(SubSeq(chars, a, p - 1))
           w == WordsOf(SubSeq(chars, p + 1, b))
<1>1. SubSeq(chars, a, p - 1) \in Text /\ SubSeq(chars, p + 1, b) \in Text
  <2>1. /\ p - 1 \in Int /\ p - 1 <= Len(chars)
        /\ p + 1 \in Nat \ {0}
    BY DEF Text
  <2> QED
    BY <2>1, PieceOfText
<1>2. v \in Seq(Word) /\ w \in Seq(Word)
  BY <1>1, WordsType
<1>3. WordsOf(SubSeq(chars, a, b)) = v \o w
  BY CutAtSpace
<1> HIDE DEF v, w
<1>4. KeysOf(v \o w) = KeysOf(v) \o KeysOf(w) /\ KeysOf(v) \in Seq(Key) /\ KeysOf(w) \in Seq(Key)
  BY <1>2, KeysConcat, KeysType
<1>5. Occurrences(KeysOf(v) \o KeysOf(w), key)
        = Occurrences(KeysOf(v), key) + Occurrences(KeysOf(w), key)
  BY <1>4, OccurrencesConcat
<1> QED
  BY <1>3, <1>4, <1>5 DEF OccursIn, v, w

(* The sum over the parts. *)
LEMMA OccursUpToIs ==
  ASSUME NEW parts \in Seq(Seq(Word)), NEW key
  PROVE  /\ OccursUpTo(parts, key) \in [0 .. Len(parts) -> Nat]
         /\ OccursUpTo(parts, key)[0] = 0
         /\ \A m \in 1 .. Len(parts) :
              /\ Occurrences(KeysOf(parts[m]), key) \in Nat
              /\ OccursUpTo(parts, key)[m]
                   = OccursUpTo(parts, key)[m - 1] + Occurrences(KeysOf(parts[m]), key)
<1> DEFINE n == Len(parts)
           o(m) == Occurrences(KeysOf(parts[m]), key)
           step == [m \in 1 .. n |-> [x \in Nat |-> x + o(m)]]
           Sums(g) == g = [m \in 0 .. n |-> IF m = 0 THEN 0 ELSE g[m - 1] + o(m)]
<1>1. n \in Nat
  OBVIOUS
<1>2. \A m \in 1 .. n : o(m) \in Nat
  <2>1. \A m \in 1 .. n : parts[m] \in Seq(Word)
    OBVIOUS
  <2> QED
    BY <2>1, KeysType, OccurrencesType
<1> HIDE DEF n, o
<1>3. step \in [1 .. n -> [Nat -> Nat]] /\ \A m \in 1 .. n : \A x \in Nat : step[m][x] = x + o(m)
  BY <1>2
<1> HIDE DEF step
<1>4. PICK g : /\ g \in [0 .. n -> Nat] /\ g[0] = 0
               /\ \A m \in 1 .. n : g[m] = step[m][g[m - 1]]
  <2>1. step \in Steps(n, Nat)
    BY <1>3 DEF Steps
  <2>2. \E g : Follows(g, n, Nat, 0, step)
    BY <1>1, <2>1, RecursionUpTo
  <2> QED
    BY <2>2 DEF Follows
<1>5. Sums(g)
  <2>1. \A m \in 0 .. n : m = 0 \/ (m \in 1 .. n /\ m - 1 \in 0 .. n)
    BY <1>1
  <2> QED
    BY <1>3, <1>4, <2>1
<1>6. OccursUpTo(parts, key) = CHOOSE h : Sums(h)
  BY DEF OccursUpTo, n, o
<1> HIDE DEF Sums
<1>7. Sums(OccursUpTo(parts, key))
  BY <1>5, <1>6
<1> DEFINE h == OccursUpTo(parts, key)
<1> HIDE DEF h
<1>8. h = [m \in 0 .. n |-> IF m = 0 THEN 0 ELSE h[m - 1] + o(m)]
  BY <1>7 DEF Sums, h
<1>9. h[0] = 0 /\ \A m \in 1 .. n : h[m] = h[m - 1] + o(m)
  BY <1>1, <1>8
<1>10. \A m \in 0 .. n : h[m] \in Nat
  <2> DEFINE Typed == {m \in Nat : m <= n => h[m] \in Nat}
  <2>1. 0 \in Typed
    BY <1>9
  <2>2. ASSUME NEW m \in Typed PROVE m + 1 \in Typed
    <3>1. m \in Nat
      OBVIOUS
    <3>2. ASSUME m + 1 <= n PROVE h[m + 1] \in Nat
      <4>1. m + 1 \in 1 .. n /\ (m + 1) - 1 = m /\ h[m] \in Nat
        BY <1>1, <3>1, <3>2
      <4> QED
        BY <1>2, <1>9, <4>1
    <3> QED
      BY <3>1, <3>2
  <2> HIDE DEF Typed
  <2>3. Typed = Nat
    <3>1. Typed \in SUBSET Nat
      BY DEF Typed
    <3> QED
      BY <2>1, <2>2, <3>1, NatBySet
  <2> QED
    BY <1>1, <2>3 DEF Typed
<1>11. h \in [0 .. n -> Nat]
  BY <1>8, <1>10
<1> QED
  BY <1>2, <1>9, <1>11 DEF h, n, o

(* No word is cut, lost or read twice where the parts meet. *)
LEMMA DivideKeepsWords ==
  ASSUME NEW chars \in Text, NEW num \in Nat \ {0}, NEW key,
         NEW parts, parts = [m \in 1 .. num |-> WordsOf(Divide(chars, num)[m])]
  PROVE  /\ parts \in Seq(Seq(Word)) /\ Len(parts) = num
         /\ OccursUpTo(parts, key)[num] = OccursIn(chars, key)
<1> DEFINE e == PartEnds(chars, num)
           n == Len(chars)
           last == IF e[num - 1] = 0 THEN 1 ELSE e[num - 1]
           part(m) == IF m < num THEN SubSeq(chars, e[m - 1] + 1, e[m] - 1) ELSE SubSeq(chars, last, n)
           upTo == OccursUpTo(parts, key)
<1>1. EndsOfParts(chars, num, e)
  BY PartEndsAre
<1>2. \A m \in 1 .. num : parts[m] = WordsOf(part(m))
  BY DEF Divide
<1> HIDE DEF e, upTo
<1>3. /\ n \in Nat /\ e[0] = 0 /\ num - 1 \in 0 .. num - 1
      /\ \A m \in 0 .. num - 1 : e[m] \in 0 .. n + 1
  BY <1>1 DEF Text, EndsOfParts
<1>4. ASSUME NEW m \in 1 .. num - 1
      PROVE  /\ e[m] \in 1 .. n + 1 /\ e[m - 1] \in 0 .. n + 1
             /\ e[m - 1] = 0 => m = 1
             /\ e[m - 1] = n + 1 => e[m] = n + 1
             /\ e[m - 1] \in 1 .. n => chars[e[m - 1]] = Space /\ e[m] > e[m - 1]
  <2>1. m \in 0 .. num - 1 /\ m - 1 \in 0 .. num - 1 /\ (m - 1 = 0 \/ m - 1 \in 1 .. num - 1)
    OBVIOUS
  <2>2. e[m] # 0 /\ (e[m] = n + 1 \/ (e[m] > e[m - 1] /\ e[m] <= n))
    BY <1>1 DEF EndsOfParts
  <2>3. m - 1 = 0 \/ (e[m - 1] # 0 /\ (e[m - 1] = n + 1 \/ chars[e[m - 1]] = Space))
    BY <1>1, <2>1 DEF EndsOfParts
  <2> QED
    BY <1>3, <2>1, <2>2, <2>3
<1>5. ASSUME NEW m \in 1 .. num PROVE part(m) \in Text
  <2>1. CASE m < num
    <3>1. m \in 1 .. num - 1
      BY <2>1
    <3>2. e[m - 1] + 1 \in Nat \ {0} /\ e[m] - 1 \in Int /\ e[m] - 1 <= n
      BY <1>3, <1>4, <3>1
    <3>3. SubSeq(chars, e[m - 1] + 1, e[m] - 1) \in Text
      BY <3>2, PieceOfText
    <3> QED
      BY <2>1, <3>3
  <2>2. CASE ~(m < num)
    <3>1. last \in Nat \ {0} /\ n \in Int
      BY <1>3
    <3> HIDE DEF last
    <3>2. SubSeq(chars, last, n) \in Text
      BY <1>3, <3>1, PieceOfText
    <3> QED
      BY <2>2, <3>2
  <2> QED
    BY <2>1, <2>2
<1> HIDE DEF last
<1>6. parts \in Seq(Seq(Word)) /\ Len(parts) = num
  <2>1. \A m \in 1 .. num : WordsOf(part(m)) \in Seq(Word)
    BY <1>5, WordsType
  <2>2. parts = [m \in 1 .. num |-> parts[m]] /\ \A m \in 1 .. num : parts[m] \in Seq(Word)
    BY <1>2, <2>1
  <2> QED
    BY <2>2
<1>7. /\ upTo[0] = 0
      /\ \A m \in 0 .. num : upTo[m] \in Nat
      /\ \A m \in 1 .. num : upTo[m] = upTo[m - 1] + OccursIn(part(m), key)
  <2>1. /\ upTo \in [0 .. num -> Nat] /\ upTo[0] = 0
        /\ \A m \in 1 .. num : upTo[m] = upTo[m - 1] + Occurrences(KeysOf(parts[m]), key)
    BY <1>6, OccursUpToIs DEF upTo
  <2> HIDE DEF part
  <2> QED
    BY <1>2, <2>1 DEF OccursIn
<1> DEFINE before(m) == OccursIn(SubSeq(chars, 1, e[m] - 1), key)
<1>8. \A m \in 0 .. num - 1 : before(m) \in Nat
  <2> SUFFICES ASSUME NEW m \in 0 .. num - 1 PROVE before(m) \in Nat
    OBVIOUS
  <2>1. e[m] - 1 \in Int /\ e[m] - 1 <= n
    BY <1>3
  <2> QED
    BY <2>1, PieceOfText, OccursInType
<1>9. before(0) = 0
  <2>1. SubSeq(chars, 1, e[0] - 1) = <<>>
    BY <1>3, SubSeqEmpty
  <2> QED
    BY <2>1, OccursInNothing
<1>10. ASSUME NEW m \in 1 .. num - 1
       PROVE  before(m) = before(m - 1) + OccursIn(part(m), key)
  <2>0. /\ part(m) = SubSeq(chars, e[m - 1] + 1, e[m] - 1)
        /\ m - 1 \in 0 .. num - 1 /\ before(m) \in Nat /\ before(m - 1) \in Nat
    <3>1. m < num /\ m \in 0 .. num - 1 /\ m - 1 \in 0 .. num - 1
      OBVIOUS
    <3>2. part(m) = SubSeq(chars, e[m - 1] + 1, e[m] - 1)
      BY <3>1
    <3> HIDE DEF before, part
    <3> QED
      BY <1>8, <3>1, <3>2
  <2>1. CASE e[m - 1] = 0
    <3>1. m - 1 = 0 /\ e[m - 1] + 1 = 1
      BY <1>4, <2>1
    <3>2. before(m - 1) = 0 /\ OccursIn(part(m), key) = before(m)
      BY <1>9, <2>0, <3>1
    <3> HIDE DEF before, part
    <3> QED
      BY <2>0, <3>2
  <2>2. CASE e[m - 1] = n + 1
    <3>1. e[m] = e[m - 1]
      BY <1>4, <2>2
    <3>2. part(m) = <<>>
      BY <1>3, <2>0, <2>2, <3>1, SubSeqEmpty
    <3>3. OccursIn(part(m), key) = 0 /\ before(m) = before(m - 1)
      BY <3>1, <3>2, OccursInNothing
    <3> HIDE DEF before, part
    <3> QED
      BY <2>0, <3>3
  <2>3. CASE e[m - 1] \in 1 .. n
    <3> DEFINE q == e[m - 1]
               b == e[m] - 1
    <3>1. q \in Nat /\ b \in Nat /\ 1 <= q /\ q <= b /\ b <= n /\ chars[q] = Space
      BY <1>3, <1>4, <2>3
    <3> HIDE DEF q, b
    <3>2. OccursIn(SubSeq(chars, 1, b), key)
            = OccursIn(SubSeq(chars, 1, q - 1), key) + OccursIn(SubSeq(chars, q + 1, b), key)
      BY <3>1, OccursInHalves
    <3> QED
      BY <2>0, <3>2 DEF q, b
  <2> QED
    BY <1>4, <2>1, <2>2, <2>3
<1>11. \A m \in 0 .. num - 1 : upTo[m] = before(m)
  <2> DEFINE Kept == {m \in Nat : m <= num - 1 => upTo[m] = before(m)}
  <2>1. 0 \in Kept
    BY <1>7, <1>9
  <2>2. ASSUME NEW m \in Kept PROVE m + 1 \in Kept
    <3>1. m \in Nat
      OBVIOUS
    <3>2. ASSUME m + 1 <= num - 1 PROVE upTo[m + 1] = before(m + 1)
      <4>1. m + 1 \in 1 .. num - 1 /\ m + 1 \in 1 .. num /\ (m + 1) - 1 = m /\ upTo[m] = before(m)
        BY <3>1, <3>2
      <4> HIDE DEF before, part
      <4>2. upTo[m + 1] = upTo[m] + OccursIn(part(m + 1), key)
        BY <1>7, <4>1
      <4>3. before(m + 1) = before(m) + OccursIn(part(m + 1), key)
        BY <1>10, <4>1
      <4> QED
        BY <4>1, <4>2, <4>3
    <3> QED
      BY <3>1, <3>2
  <2> HIDE DEF Kept
  <2>3. Kept = Nat
    <3>1. Kept \in SUBSET Nat
      BY DEF Kept
    <3> QED
      BY <2>1, <2>2, <3>1, NatBySet
  <2> QED
    BY <2>3 DEF Kept
<1>12. OccursIn(chars, key) = before(num - 1) + OccursIn(part(num), key)
  <2> DEFINE l == e[num - 1]
  <2>0. /\ part(num) = SubSeq(chars, last, n) /\ l \in 0 .. n + 1 /\ before(num - 1) \in Nat
        /\ OccursIn(chars, key) \in Nat /\ SubSeq(chars, 1, n) = chars
        /\ num - 1 = 0 \/ num - 1 \in 1 .. num - 1
    <3>1. part(num) = SubSeq(chars, last, n)
      <4>1. ~(num < num)
        OBVIOUS
      <4> QED
        BY <4>1, Zenon
    <3>2. SubSeq(chars, 1, n) = chars
      BY SubSeqFull DEF Text
    <3>3. OccursIn(chars, key) \in Nat
      BY OccursInType
    <3>4. num - 1 = 0 \/ num - 1 \in 1 .. num - 1
      OBVIOUS
    <3> HIDE DEF before, part
    <3> QED
      BY <1>3, <1>8, <3>1, <3>2, <3>3, <3>4
  <2>1. CASE l = 0
    <3>1. num - 1 = 0
      BY <1>4, <2>0, <2>1
    <3>2. before(num - 1) = 0 /\ OccursIn(part(num), key) = OccursIn(chars, key)
      BY <1>9, <2>0, <2>1, <3>1 DEF last
    <3> HIDE DEF before, part
    <3> QED
      BY <2>0, <3>2
  <2>2. CASE l = n + 1
    <3>1. last = n + 1
      BY <1>3, <2>2 DEF last
    <3>2. part(num) = <<>>
      BY <1>3, <2>0, <3>1, SubSeqEmpty
    <3>3. OccursIn(part(num), key) = 0
      BY <3>2, OccursInNothing
    <3>4. before(num - 1) = OccursIn(chars, key)
      <4>1. e[num - 1] - 1 = n
        BY <1>3, <2>2
      <4> QED
        BY <2>0, <4>1
    <3> HIDE DEF before, part
    <3> QED
      BY <2>0, <3>3, <3>4
  <2>3. CASE l \in 1 .. n
    <3>1. last = l /\ chars[l] = Space
      <4>1. num - 1 \in 1 .. num - 1 /\ l # n + 1 /\ l # 0
        BY <1>3, <2>0, <2>3
      <4> QED
        BY <1>1, <4>1 DEF EndsOfParts, last
    <3>2. /\ l \in Nat \ {0} /\ l + 1 \in Nat \ {0} /\ 1 <= l /\ l <= n
      BY <1>3, <2>3
    <3> HIDE DEF l
    <3>3. OccursIn(SubSeq(chars, 1, n), key)
            = OccursIn(SubSeq(chars, 1, l - 1), key) + OccursIn(SubSeq(chars, l + 1, n), key)
      BY <1>3, <3>1, <3>2, OccursInHalves
    <3>4. OccursIn(SubSeq(chars, l, n), key)
            = OccursIn(SubSeq(chars, l, l - 1), key) + OccursIn(SubSeq(chars, l + 1, n), key)
      BY <1>3, <3>1, <3>2, OccursInHalves
    <3>5. OccursIn(SubSeq(chars, l, l - 1), key) = 0
      <4>1. SubSeq(chars, l, l - 1) = <<>>
        BY <3>2, SubSeqEmpty
      <4> QED
        BY <4>1, OccursInNothing
    <3>6. OccursIn(SubSeq(chars, l + 1, n), key) \in Nat
      BY <1>3, <3>2, PieceOfText, OccursInType
    <3>7. OccursIn(part(num), key) = OccursIn(SubSeq(chars, l + 1, n), key)
      BY <2>0, <3>1, <3>4, <3>5, <3>6
    <3> QED
      BY <2>0, <3>3, <3>7 DEF l
  <2> QED
    BY <2>0, <2>1, <2>2, <2>3
<1>13. upTo[num] = OccursIn(chars, key)
  <2>1. num \in 1 .. num
    OBVIOUS
  <2> HIDE DEF before, part
  <2> QED
    BY <1>3, <1>7, <1>11, <1>12, <2>1
<1> QED
  BY <1>6, <1>13 DEF upTo

-----------------------------------------------------------------------------
(* The invariant *)

(* In a text without bare words, the keys in the channel are keys of the    *)
(* text, as are those still to be sent and those counted, and each is       *)
(* somewhere as often as it is in the text.                                *)
TextKeys == Range(Keys)
Typed ==
  /\ text \in Text
  /\ unsent \in Seq(Seq(Word))
  /\ \A m \in 1 .. Len(unsent) : KeysOf(unsent[m]) \in Seq(TextKeys)
  /\ queue \in Seq(TextKeys \cup {SpecialKey})
  /\ counts \in [DOMAIN counts -> Nat \ {0}]
  /\ DOMAIN counts \subseteq TextKeys \ {SpecialKey}
Conserved == \A key \in TextKeys \ {SpecialKey} :
  Counted(key) + Occurrences(queue, key) + Unsent(key) = Occurrences(Keys, key)

(* Main's word that the input ends is the last message: in the parallel     *)
(* form behind everything the mappers sent, in the serial form where the    *)
(* text has it, behind exactly the keys that were counted.                 *)
Idle == \A m \in Mappers : unsent[m] = <<>>
Parallel ==
  /\ SpecialKey \notin TextKeys
  /\ main \in {"mapping", "ending", "joining", "done"}
  /\ main = "mapping" \/ Idle
  /\ main \in {"mapping", "ending"} => reducer = "reducing" /\ queue \in Seq(TextKeys)
  /\ main \in {"joining", "done"} =>
       \/ /\ reducer = "reducing" /\ main = "joining"
          /\ \E keys \in Seq(TextKeys) : queue = Append(keys, SpecialKey)
       \/ reducer = "done" /\ queue = <<>>
Reduced(keys) == IF reducer = "done" THEN Append(keys, SpecialKey) ELSE keys
Serial ==
  /\ Len(unsent) = 1
  /\ main \in {"mapping", "joining", "done"}
  /\ main = "mapping" => reducer = "waiting"
  /\ main = "done" => reducer = "done"
  /\ \E keys \in Seq(TextKeys \ {SpecialKey}) :
       Keys = (Reduced(keys) \o queue) \o KeysOf(unsent[1])
Ordered == IF serial THEN Serial ELSE Parallel
WordInv == NoBareWord => Typed /\ Conserved /\ Ordered

(* One part is what the sum counts at least. *)
LEMMA PartOfSum ==
  ASSUME NEW parts \in Seq(Seq(Word)), NEW key, NEW m \in 1 .. Len(parts)
  PROVE  Occurrences(KeysOf(parts[m]), key) <= OccursUpTo(parts, key)[Len(parts)]
<1> DEFINE n == Len(parts)
           h == OccursUpTo(parts, key)
           o == Occurrences(KeysOf(parts[m]), key)
           Above == {i \in Nat : m <= i /\ i <= n => o <= h[i]}
<1>1. /\ n \in Nat /\ o \in Nat
      /\ \A i \in 0 .. n : h[i] \in Nat
      /\ \A i \in 1 .. n : h[i] >= h[i - 1]
      /\ h[m] = h[m - 1] + o
  <2>1. /\ n \in Nat /\ o \in Nat /\ h \in [0 .. n -> Nat] /\ h[m] = h[m - 1] + o
        /\ \A i \in 1 .. n : /\ Occurrences(KeysOf(parts[i]), key) \in Nat
                            /\ h[i] = h[i - 1] + Occurrences(KeysOf(parts[i]), key)
    BY OccursUpToIs
  <2> HIDE DEF h, n, o
  <2>2. ASSUME NEW i \in 1 .. n PROVE h[i] >= h[i - 1]
    <3> DEFINE x == Occurrences(KeysOf(parts[i]), key)
    <3>1. x \in Nat /\ h[i] = h[i - 1] + x
      BY <2>1, Zenon
    <3>2. i - 1 \in 0 .. n
      BY <2>1
    <3> HIDE DEF x
    <3> QED
      BY <2>1, <3>1, <3>2
  <2> QED
    BY <2>1, <2>2
<1>2. m \in 1 .. n
  OBVIOUS
<1> HIDE DEF n, h, o
<1>3. 0 \in Above
  BY <1>1, <1>2
<1>4. ASSUME NEW i \in Above PROVE i + 1 \in Above
  <2>1. i \in Nat
    OBVIOUS
  <2>2. ASSUME m <= i + 1, i + 1 <= n PROVE o <= h[i + 1]
    <3>1. i + 1 \in 1 .. n /\ (i + 1) - 1 = i /\ i \in 0 .. n
      BY <1>1, <2>1, <2>2
    <3>2. CASE m = i + 1
      BY <1>1, <3>1, <3>2
    <3>3. CASE m # i + 1
      <4>1. m <= i /\ i <= n
        BY <1>1, <1>2, <2>1, <2>2, <3>3
      <4>2. o <= h[i]
        BY <4>1
      <4> QED
        BY <1>1, <3>1, <4>2
    <3> QED
      BY <3>2, <3>3
  <2> QED
    BY <2>1, <2>2
<1> HIDE DEF Above
<1>5. Above = Nat
  <2>1. Above \in SUBSET Nat
    BY DEF Above
  <2> QED
    BY <1>3, <1>4, <2>1, NatBySet
<1>6. o <= h[n]
  <2>1. n \in Above /\ m <= n
    BY <1>1, <1>2, <1>5
  <2> QED
    BY <1>1, <2>1 DEF Above
<1> QED
  BY <1>6 DEF o, h, n

(* When one part changes, the sum changes by as much. *)
LEMMA ChangeOfSum ==
  ASSUME NEW parts \in Seq(Seq(Word)), NEW key, NEW m \in 1 .. Len(parts), NEW ws \in Seq(Word),
         NEW d \in Int, Occurrences(KeysOf(parts[m]), key) = Occurrences(KeysOf(ws), key) + d
  PROVE  OccursUpTo(parts, key)[Len(parts)]
           = OccursUpTo([parts EXCEPT ![m] = ws], key)[Len(parts)] + d
<1> DEFINE n == Len(parts)
           new == [parts EXCEPT ![m] = ws]
           h == OccursUpTo(parts, key)
           g == OccursUpTo(new, key)
           o(i) == Occurrences(KeysOf(parts[i]), key)
           Changed == {i \in Nat : i <= n => h[i] = g[i] + (IF m <= i THEN d ELSE 0)}
<1>1. new \in Seq(Seq(Word)) /\ Len(new) = n /\ n \in Nat /\ m \in 1 .. n
      /\ \A i \in 1 .. n : new[i] = IF i = m THEN ws ELSE parts[i]
  BY ExceptSeq
<1>2. /\ h \in [0 .. n -> Nat] /\ h[0] = 0
      /\ \A i \in 1 .. n : o(i) \in Nat /\ h[i] = h[i - 1] + o(i)
  BY OccursUpToIs
<1>3. /\ g \in [0 .. n -> Nat] /\ g[0] = 0
      /\ \A i \in 1 .. n : /\ Occurrences(KeysOf(new[i]), key) \in Nat
                          /\ g[i] = g[i - 1] + Occurrences(KeysOf(new[i]), key)
  BY <1>1, OccursUpToIs
<1> HIDE DEF new, h, g, n
<1>4. \A i \in 1 .. n : Occurrences(KeysOf(new[i]), key) = IF i = m THEN o(m) - d ELSE o(i)
  <2>1. Occurrences(KeysOf(ws), key) = o(m) - d
    <3>1. Occurrences(KeysOf(ws), key) \in Nat
      BY KeysType, OccurrencesType
    <3> QED
      BY <1>1, <1>2, <3>1
  <2> QED
    BY <1>1, <2>1
<1> HIDE DEF o
<1>5. 0 \in Changed
  BY <1>1, <1>2, <1>3
<1>6. ASSUME NEW i \in Changed PROVE i + 1 \in Changed
  <2>1. i \in Nat
    OBVIOUS
  <2>2. ASSUME i + 1 <= n PROVE h[i + 1] = g[i + 1] + (IF m <= i + 1 THEN d ELSE 0)
    <3>1. i + 1 \in 1 .. n /\ (i + 1) - 1 = i /\ i \in 0 .. n /\ i + 1 \in 0 .. n
      BY <1>1, <2>1, <2>2
    <3>2. h[i] = g[i] + (IF m <= i THEN d ELSE 0)
      BY <2>1, <3>1
    <3>3. h[i + 1] = h[i] + o(i + 1) /\ h[i] \in Nat /\ o(i + 1) \in Nat
      BY <1>2, <3>1
    <3>4. g[i + 1] = g[i] + (IF i + 1 = m THEN o(m) - d ELSE o(i + 1)) /\ g[i] \in Nat
      BY <1>3, <1>4, <3>1
    <3>5. CASE i + 1 = m
      BY <1>1, <2>1, <3>2, <3>3, <3>4, <3>5
    <3>6. CASE i + 1 # m
      BY <1>1, <2>1, <3>2, <3>3, <3>4, <3>6
    <3> QED
      BY <3>5, <3>6
  <2> QED
    BY <2>1, <2>2
<1> HIDE DEF Changed
<1>7. Changed = Nat
  <2>1. Changed \in SUBSET Nat
    BY DEF Changed
  <2> QED
    BY <1>5, <1>6, <2>1, NatBySet
<1>8. h[n] = g[n] + d
  BY <1>1, <1>7 DEF Changed
<1> QED
  BY <1>8 DEF h, g, new, n

(* There are none in an empty sequence. *)
LEMMA OccurrencesNone ==
  ASSUME NEW key
  PROVE  Occurrences(<<>>, key) = 0
<1>1. {i \in DOMAIN <<>> : <<>>[i] = key} = {}
  OBVIOUS
<1> QED
  BY <1>1, FS_EmptySet DEF Occurrences

(* The beginning is where dividefile matters. *)
LEMMA TextsAreTexts ==
  ASSUME Init
  PROVE  /\ text \in Text
         /\ \E num \in Nat \ {0} : unsent = [m \in 1 .. num |-> WordsOf(Divide(text, num)[m])]
BY TextAssumption DEF Init, Text

(* Nothing has been sent or counted at first. *)
LEMMA ConservedInit ==
  ASSUME Init, NoBareWord
  PROVE  Typed /\ Conserved
<1>1. text \in Text
  BY TextsAreTexts
<1>2. PICK num \in Nat \ {0} : unsent = [m \in 1 .. num |-> WordsOf(Divide(text, num)[m])]
  BY TextsAreTexts
<1>3. unsent \in Seq(Seq(Word)) /\ Len(unsent) = num /\ \A key : Unsent(key) = OccursIn(text, key)
  BY <1>1, <1>2, DivideKeepsWords DEF Unsent
<1>4. \A key : OccursIn(text, key) = Occurrences(Keys, key)
  BY DEF OccursIn, Keys
<1>5. Keys \in Seq(Key)
  BY <1>1, WordsType, KeysType DEF Keys
<1>6. ASSUME NEW m \in 1 .. Len(unsent)
      PROVE  KeysOf(unsent[m]) \in Seq(TextKeys)
  <2> DEFINE ks == KeysOf(unsent[m])
  <2>1. ks \in Seq(Key)
    BY <1>3, KeysType
  <2>2. ASSUME NEW i \in 1 .. Len(ks) PROVE ks[i] \in TextKeys
    <3> DEFINE k == ks[i]
    <3>1. k \in Range(ks)
      BY <2>1 DEF Range
    <3>2. Occurrences(ks, k) \in Nat /\ Occurrences(ks, k) > 0
      BY <2>1, <3>1, OccurrencesType
    <3>3. Occurrences(ks, k) <= Unsent(k)
      BY <1>3, PartOfSum DEF Unsent
    <3>4. Unsent(k) = Occurrences(Keys, k) /\ Occurrences(Keys, k) \in Nat
      BY <1>3, <1>4, <1>5, OccurrencesType
    <3> HIDE DEF k, ks
    <3>5. Occurrences(Keys, k) > 0
      BY <3>2, <3>3, <3>4
    <3>6. k \in Range(Keys)
      BY <1>5, <3>5, OccurrencesType
    <3> QED
      BY <3>6 DEF k, TextKeys
  <2> HIDE DEF ks
  <2>3. ks = [i \in 1 .. Len(ks) |-> ks[i]] /\ Len(ks) \in Nat
    BY <2>1
  <2>4. ks \in Seq(TextKeys)
    BY <2>2, <2>3
  <2> QED
    BY <2>4 DEF ks
<1>7. queue = <<>> /\ counts = <<>>
  BY DEF Init
<1>8. Typed
  <2>1. counts \in [DOMAIN counts -> Nat \ {0}] /\ DOMAIN counts \subseteq TextKeys \ {SpecialKey}
    BY <1>7
  <2>2. queue \in Seq(TextKeys \cup {SpecialKey})
    BY <1>7
  <2> QED
    BY <1>1, <1>3, <1>6, <2>1, <2>2 DEF Typed
<1>9. ASSUME NEW key
      PROVE  Counted(key) + Occurrences(queue, key) + Unsent(key) = Occurrences(Keys, key)
  <2>1. Counted(key) = 0 /\ Occurrences(queue, key) = 0
    BY <1>7, OccurrencesNone DEF Counted
  <2>2. Unsent(key) = Occurrences(Keys, key) /\ Occurrences(Keys, key) \in Nat
    BY <1>3, <1>4, <1>5, OccurrencesType
  <2> QED
    BY <2>1, <2>2
<1> QED
  BY <1>8, <1>9 DEF Conserved

(* The keys of the words but the first. *)
LEMMA KeysOfTail ==
  ASSUME NEW ws \in Seq(Word), ws # <<>>
  PROVE  /\ KeysOf(ws) # <<>> /\ Head(KeysOf(ws)) = Reformat(Head(ws))
         /\ KeysOf(Tail(ws)) = Tail(KeysOf(ws))
<1>1. /\ Len(ws) \in Nat \ {0} /\ Tail(ws) \in Seq(Word) /\ Len(Tail(ws)) = Len(ws) - 1
      /\ \A i \in 1 .. Len(ws) - 1 : Tail(ws)[i] = ws[i + 1]
  OBVIOUS
<1>2. /\ KeysOf(ws) \in Seq(Key) /\ Len(KeysOf(ws)) = Len(ws)
      /\ KeysOf(Tail(ws)) \in Seq(Key) /\ Len(KeysOf(Tail(ws))) = Len(ws) - 1
  BY <1>1, KeysType
<1>3. KeysOf(ws) # <<>> /\ Head(KeysOf(ws)) = KeysOf(ws)[1] /\ Head(ws) = ws[1]
  BY <1>1, <1>2
<1>4. /\ \A i \in 1 .. Len(ws) : KeysOf(ws)[i] = Reformat(ws[i])
      /\ \A i \in 1 .. Len(ws) - 1 : KeysOf(Tail(ws))[i] = Reformat(Tail(ws)[i])
  BY <1>1 DEF KeysOf
<1>5. /\ Tail(KeysOf(ws)) \in Seq(Key) /\ Len(Tail(KeysOf(ws))) = Len(ws) - 1
      /\ \A i \in 1 .. Len(ws) - 1 : Tail(KeysOf(ws))[i] = KeysOf(ws)[i + 1]
  BY <1>2, <1>3
<1>6. \A i \in 1 .. Len(ws) - 1 : i + 1 \in 1 .. Len(ws)
  BY <1>1
<1>7. \A i \in 1 .. Len(ws) - 1 : KeysOf(Tail(ws))[i] = Tail(KeysOf(ws))[i]
  BY <1>1, <1>4, <1>5, <1>6
<1>8. KeysOf(Tail(ws)) = Tail(KeysOf(ws))
  BY <1>2, <1>5, <1>7, SeqEqual
<1> QED
  BY <1>1, <1>3, <1>4, <1>8

(* One step: from the mapper to the channel, and from there to the counts. *)
LEMMA SendWordKeeps ==
  ASSUME Typed, Conserved, NEW m \in Mappers, SendWord(m)
  PROVE  Typed' /\ Conserved'
<1> DEFINE ws == unsent[m]
           q == Reformat(Head(ws))
<1>1. /\ m \in 1 .. Len(unsent) /\ ws \in Seq(Word) /\ ws # <<>>
      /\ KeysOf(ws) \in Seq(TextKeys) /\ Tail(ws) \in Seq(Word)
  BY DEF Typed, Mappers, SendWord
<1>2. /\ text' = text /\ counts' = counts /\ queue' = Append(queue, q)
      /\ unsent' = [unsent EXCEPT ![m] = Tail(ws)]
  BY DEF SendWord, MessageFor
<1>3. KeysOf(ws) # <<>> /\ Head(KeysOf(ws)) = q /\ KeysOf(Tail(ws)) = Tail(KeysOf(ws))
  BY <1>1, KeysOfTail
<1>4. q \in TextKeys /\ Tail(KeysOf(ws)) \in Seq(TextKeys)
  BY <1>1, <1>3
<1>5. Keys' = Keys /\ TextKeys' = TextKeys
  BY <1>2 DEF Keys, TextKeys
<1> HIDE DEF ws, q
<1>6. /\ unsent \in Seq(Seq(Word)) /\ unsent' \in Seq(Seq(Word)) /\ Len(unsent') = Len(unsent)
      /\ \A i \in 1 .. Len(unsent) : unsent'[i] = IF i = m THEN Tail(ws) ELSE unsent[i]
  BY <1>1, <1>2, ExceptSeq DEF Typed
<1>7. Typed'
  <2>1. \A i \in 1 .. Len(unsent') : KeysOf(unsent'[i]) \in Seq(TextKeys)
    BY <1>3, <1>4, <1>6 DEF Typed
  <2>2. queue' \in Seq(TextKeys \cup {SpecialKey})
    BY <1>2, <1>4 DEF Typed
  <2> QED
    BY <1>2, <1>5, <1>6, <2>1, <2>2 DEF Typed
<1>8. ASSUME NEW key \in TextKeys \ {SpecialKey}
      PROVE  Counted(key)' + Occurrences(queue', key) + Unsent(key)' = Occurrences(Keys, key)
  <2> DEFINE d == IF q = key THEN 1 ELSE 0
  <2>1. Occurrences(queue', key) = Occurrences(queue, key) + d
    <3>1. queue \in Seq(TextKeys \cup {SpecialKey}) /\ q \in TextKeys \cup {SpecialKey}
      BY <1>4 DEF Typed
    <3>2. Occurrences(Append(queue, q), key) = Occurrences(queue, key) + (IF q = key THEN 1 ELSE 0)
      BY <3>1, OccurrencesAppend
    <3> QED
      BY <1>2, <3>2
  <2>2. Occurrences(KeysOf(ws), key) = Occurrences(KeysOf(Tail(ws)), key) + d
    BY <1>1, <1>3, OccurrencesTail
  <2>3. Unsent(key) = Unsent(key)' + d
    <3>1. d \in Int
      OBVIOUS
    <3> HIDE DEF d
    <3>2. OccursUpTo(unsent, key)[Len(unsent)]
            = OccursUpTo([unsent EXCEPT ![m] = Tail(ws)], key)[Len(unsent)] + d
      BY <1>1, <1>6, <2>2, <3>1, ChangeOfSum DEF ws
    <3> QED
      BY <1>2, <1>6, <3>2 DEF Unsent
  <2>4. Counted(key)' = Counted(key) /\ Counted(key) \in Nat
    BY <1>2 DEF Counted, Typed
  <2>5. Occurrences(queue, key) \in Nat
    BY OccurrencesType DEF Typed
  <2>6. Unsent(key)' \in Nat
    <3>1. OccursUpTo(unsent', key) \in [0 .. Len(unsent') -> Nat] /\ Len(unsent') \in 0 .. Len(unsent')
      BY <1>6, OccursUpToIs
    <3> QED
      BY <3>1 DEF Unsent
  <2>7. Counted(key) + Occurrences(queue, key) + Unsent(key) = Occurrences(Keys, key)
    BY DEF Conserved
  <2> HIDE DEF d
  <2>8. d \in Nat
    BY DEF d
  <2> QED
    BY <2>1, <2>3, <2>4, <2>5, <2>6, <2>7, <2>8
<1> QED
  BY <1>5, <1>7, <1>8 DEF Conserved

(* A key received is counted once. *)
LEMMA ReduceKeeps ==
  ASSUME NoBareWord, Typed, Conserved, Reduce
  PROVE  Typed' /\ Conserved'
<1> DEFINE q == Head(queue)
<1>1. /\ queue # <<>> /\ queue' = Tail(queue) /\ text' = text /\ unsent' = unsent
      /\ queue \in Seq(TextKeys \cup {SpecialKey})
  BY DEF Reduce, Typed
<1>2. q \in TextKeys \cup {SpecialKey} /\ Tail(queue) \in Seq(TextKeys \cup {SpecialKey})
  BY <1>1
<1>3. Keys' = Keys /\ TextKeys' = TextKeys
  BY <1>1 DEF Keys, TextKeys
<1>4. /\ counts \in [DOMAIN counts -> Nat \ {0}] /\ DOMAIN counts \subseteq TextKeys \ {SpecialKey}
  BY DEF Typed
<1>5. /\ counts' \in [DOMAIN counts' -> Nat \ {0}]
      /\ DOMAIN counts' \subseteq TextKeys \ {SpecialKey}
      /\ \A key \in TextKeys \ {SpecialKey} :
           Counted(key)' = Counted(key) + (IF q = key THEN 1 ELSE 0)
  <2>1. CASE q = SpecialKey
    <3>1. counts' = counts
      BY <2>1 DEF Reduce
    <3>2. \A key \in TextKeys : Counted(key) \in Nat /\ Counted(key)' = Counted(key)
      BY <1>4, <3>1 DEF Counted
    <3> QED
      BY <1>4, <2>1, <3>1, <3>2
  <2>2. CASE q # SpecialKey
    <3>1. q \in TextKeys \ {SpecialKey} /\ q # <<>>
      BY <1>2, <2>2 DEF NoBareWord, TextKeys
    <3>2. counts' = Add(counts, [key |-> q, value |-> 1])
      BY <2>2, <3>1 DEF Reduce, Parsed
    <3>3. CASE q \in DOMAIN counts
      <4>1. counts' = [counts EXCEPT ![q] = @ + 1]
        BY <3>2, <3>3 DEF Add
      <4> HIDE DEF q
      <4>2. DOMAIN counts' = DOMAIN counts /\ counts' \in [DOMAIN counts -> Nat \ {0}]
        BY <1>4, <3>3, <4>1
      <4>3. \A key \in TextKeys : Counted(key)' = Counted(key) + (IF q = key THEN 1 ELSE 0)
        BY <1>4, <3>3, <4>1 DEF Counted
      <4> QED
        BY <1>4, <4>2, <4>3
    <3>4. CASE q \notin DOMAIN counts
      <4>1. counts' = [k \in DOMAIN counts \cup {q} |-> IF k = q THEN 1 ELSE counts[k]]
        BY <3>2, <3>4 DEF Add
      <4> HIDE DEF q
      <4>2. counts' = [x \in {q} \cup DOMAIN counts |-> IF x = q THEN 1 ELSE counts[x]]
        BY <4>1
      <4>3. /\ DOMAIN counts' = {q} \cup DOMAIN counts
            /\ \A x \in DOMAIN counts' : counts'[x] \in Nat \ {0}
        BY <1>4, <4>2
      <4>4. \A key \in TextKeys : Counted(key)' = Counted(key) + (IF q = key THEN 1 ELSE 0)
        BY <1>4, <3>4, <4>2 DEF Counted
      <4> QED
        BY <1>4, <3>1, <4>2, <4>3, <4>4
    <3> QED
      BY <3>3, <3>4
  <2> QED
    BY <2>1, <2>2
<1> HIDE DEF q
<1>6. Typed'
  BY <1>1, <1>2, <1>3, <1>5 DEF Typed
<1>7. ASSUME NEW key \in TextKeys \ {SpecialKey}
      PROVE  Counted(key)' + Occurrences(queue', key) + Unsent(key)' = Occurrences(Keys, key)
  <2> DEFINE d == IF q = key THEN 1 ELSE 0
  <2>1. Counted(key)' = Counted(key) + d /\ Unsent(key)' = Unsent(key)
    BY <1>1, <1>5 DEF Unsent
  <2>2. Occurrences(queue, key) = Occurrences(queue', key) + d
    BY <1>1, OccurrencesTail DEF q
  <2>3. Counted(key) \in Nat
    BY <1>4 DEF Counted
  <2>4. Occurrences(queue', key) \in Nat
    BY <1>1, <1>2, OccurrencesType
  <2>5. Unsent(key) \in Nat
    <3>1. OccursUpTo(unsent, key) \in [0 .. Len(unsent) -> Nat] /\ Len(unsent) \in 0 .. Len(unsent)
      BY OccursUpToIs DEF Typed
    <3> QED
      BY <3>1 DEF Unsent
  <2>6. Counted(key) + Occurrences(queue, key) + Unsent(key) = Occurrences(Keys, key)
    BY DEF Conserved
  <2> HIDE DEF d
  <2>7. d \in Nat
    BY DEF d
  <2> QED
    BY <2>1, <2>2, <2>3, <2>4, <2>5, <2>6, <2>7
<1> QED
  BY <1>3, <1>6, <1>7 DEF Conserved

(* The message at the end is no word. *)
LEMMA SpecialKeeps ==
  ASSUME Typed, Conserved, SendSpecial
  PROVE  Typed' /\ Conserved'
<1>1. /\ unsent' = unsent /\ counts' = counts /\ queue' = Append(queue, SpecialKey)
      /\ queue \in Seq(TextKeys \cup {SpecialKey}) /\ text' = text
  BY DEF SendSpecial, Typed
<1>2. Keys' = Keys /\ TextKeys' = TextKeys
  BY <1>1 DEF Keys, TextKeys
<1>3. Typed'
  BY <1>1, <1>2 DEF Typed
<1>4. ASSUME NEW key \in TextKeys \ {SpecialKey}
      PROVE  Counted(key)' + Occurrences(queue', key) + Unsent(key)' = Occurrences(Keys, key)
  <2>1. Occurrences(queue', key) = Occurrences(queue, key) + 0
    BY <1>1, OccurrencesAppend
  <2>2. Occurrences(queue, key) \in Nat
    BY <1>1, OccurrencesType
  <2>3. Counted(key)' = Counted(key) /\ Unsent(key)' = Unsent(key)
    BY <1>1 DEF Counted, Unsent
  <2> QED
    BY <2>1, <2>2, <2>3 DEF Conserved
<1> QED
  BY <1>2, <1>3, <1>4 DEF Conserved

(* The same steps, and the order of the messages. *)
LEMMA DivideByOne ==
  ASSUME NEW chars \in Text
  PROVE  Divide(chars, 1)[1] = chars
<1>1. PartEnds(chars, 1)[0] = 0
  <2> DEFINE e == PartEnds(chars, 1)
  <2>1. EndsOfParts(chars, 1, e)
    BY PartEndsAre
  <2> QED
    BY <2>1 DEF EndsOfParts
<1>2. Divide(chars, 1)[1] = SubSeq(chars, 1, Len(chars))
  BY <1>1 DEF Divide
<1> QED
  BY <1>2 DEF Text

(* Nothing is out of order at first. *)
LEMMA OrderedInit ==
  ASSUME Init, Typed
  PROVE  Ordered
<1>1. text \in Text /\ queue = <<>> /\ main = "mapping"
  BY TextsAreTexts DEF Init
<1>2. CASE serial
  <2>1. /\ unsent = [m \in 1 .. 1 |-> WordsOf(Divide(text, 1)[m])] /\ reducer = "waiting"
    BY <1>2 DEF Init
  <2>2. unsent[1] = WordsOf(text) /\ Len(unsent) = 1
    BY <1>1, <2>1, DivideByOne
  <2>3. KeysOf(unsent[1]) = Keys
    BY <2>2 DEF Keys
  <2>4. <<>> \in Seq(TextKeys \ {SpecialKey}) /\ Reduced(<<>>) = <<>>
    BY <2>1 DEF Reduced
  <2>5. KeysOf(unsent[1]) \in Seq(TextKeys)
    BY <2>2 DEF Typed
  <2>6. Keys = (Reduced(<<>>) \o queue) \o KeysOf(unsent[1])
    BY <1>1, <2>3, <2>4, <2>5
  <2> QED
    BY <1>1, <1>2, <2>1, <2>2, <2>4, <2>6 DEF Ordered, Serial
<1>3. CASE ~serial
  <2>1. text \in Texts /\ reducer = "reducing"
    BY <1>3 DEF Init
  <2>2. SpecialKey \notin TextKeys
    BY <2>1, NoSpecialInTexts DEF TextKeys, Keys
  <2> QED
    BY <1>1, <1>3, <2>1, <2>2 DEF Ordered, Parallel
<1> QED
  BY <1>2, <1>3

(* A word is sent before the message at the end. *)
LEMMA SendWordInOrder ==
  ASSUME Typed, Ordered, NEW m \in Mappers, SendWord(m)
  PROVE  Ordered'
<1> DEFINE ws == unsent[m]
           q == Reformat(Head(ws))
<1>1. /\ m \in 1 .. Len(unsent) /\ ws \in Seq(Word) /\ ws # <<>>
      /\ KeysOf(ws) \in Seq(TextKeys)
      /\ queue \in Seq(TextKeys \cup {SpecialKey}) /\ unsent \in Seq(Seq(Word))
  BY DEF Typed, Mappers, SendWord
<1>2. /\ text' = text /\ queue' = Append(queue, q) /\ serial' = serial
      /\ reducer' = reducer /\ main' = main
      /\ unsent' = [unsent EXCEPT ![m] = Tail(ws)]
  BY DEF SendWord, MessageFor
<1>3. KeysOf(ws) # <<>> /\ Head(KeysOf(ws)) = q /\ KeysOf(Tail(ws)) = Tail(KeysOf(ws))
  BY <1>1, KeysOfTail
<1>4. q \in TextKeys /\ Tail(KeysOf(ws)) \in Seq(TextKeys) /\ KeysOf(ws) = <<q>> \o Tail(KeysOf(ws))
  BY <1>1, <1>3
<1>5. Keys' = Keys /\ TextKeys' = TextKeys
  BY <1>2 DEF Keys, TextKeys
<1> HIDE DEF q
<1>6. CASE serial
  <2>1. Serial
    BY <1>6 DEF Ordered
  <2>2. m = 1 /\ Len(unsent') = 1 /\ unsent'[1] = Tail(ws)
    BY <1>1, <1>2, <2>1 DEF Serial
  <2>3. PICK keys \in Seq(TextKeys \ {SpecialKey}) :
          Keys = (Reduced(keys) \o queue) \o KeysOf(ws)
    BY <2>1, <2>2 DEF Serial
  <2> DEFINE S == TextKeys \cup {SpecialKey}
  <2>4. /\ Reduced(keys) \in Seq(S) /\ queue \in Seq(S) /\ <<q>> \in Seq(S)
        /\ Tail(KeysOf(ws)) \in Seq(S) /\ Append(queue, q) = queue \o <<q>>
        /\ queue \o <<q>> \in Seq(S) /\ Reduced(keys) \o queue \in Seq(S)
    <3>1. keys \in Seq(S)
      BY <2>3
    <3>2. Append(keys, SpecialKey) \in Seq(S)
      BY <3>1, AppendProperties
    <3>3. Reduced(keys) \in Seq(S)
      BY <3>1, <3>2 DEF Reduced
    <3>4. queue \in Seq(S) /\ q \in S /\ Tail(KeysOf(ws)) \in Seq(S)
      BY <1>1, <1>4
    <3> HIDE DEF S
    <3> QED
      BY <3>3, <3>4
  <2> HIDE DEF S, ws
  <2>5. /\ Reduced(keys) \o (queue \o <<q>>) = (Reduced(keys) \o queue) \o <<q>>
        /\ ((Reduced(keys) \o queue) \o <<q>>) \o Tail(KeysOf(ws))
             = (Reduced(keys) \o queue) \o (<<q>> \o Tail(KeysOf(ws)))
    <3> DEFINE a == Reduced(keys)
               c == <<q>>
               d == Tail(KeysOf(ws))
    <3>1. a \in Seq(S) /\ queue \in Seq(S) /\ c \in Seq(S) /\ d \in Seq(S) /\ a \o queue \in Seq(S)
      BY <2>4
    <3> HIDE DEF a, c, d
    <3>2. (a \o queue) \o c = a \o (queue \o c)
      BY <3>1, ConcatAssociative
    <3>3. ((a \o queue) \o c) \o d = (a \o queue) \o (c \o d)
      BY <3>1, ConcatAssociative
    <3> QED
      BY <3>2, <3>3 DEF a, c, d
  <2>6. Keys = (Reduced(keys) \o queue') \o KeysOf(unsent'[1])
    BY <1>2, <1>3, <1>4, <2>2, <2>3, <2>4, <2>5
  <2>7. Serial'
    BY <1>2, <1>5, <2>1, <2>2, <2>3, <2>6 DEF Serial, Reduced
  <2> QED
    BY <1>2, <1>6, <2>7 DEF Ordered
<1>7. CASE ~serial
  <2>1. Parallel
    BY <1>7 DEF Ordered
  <2>2. main = "mapping"
    BY <1>1, <2>1 DEF Parallel, Idle
  <2>3. queue' \in Seq(TextKeys) /\ reducer = "reducing"
    BY <1>2, <1>4, <2>1, <2>2 DEF Parallel
  <2>4. Parallel'
    BY <1>2, <1>5, <2>1, <2>2, <2>3 DEF Parallel
  <2> QED
    BY <1>2, <1>7, <2>4 DEF Ordered
<1> QED
  BY <1>6, <1>7

(* The reducer receives in order. *)
LEMMA ReduceInOrder ==
  ASSUME Typed, Ordered, Reduce
  PROVE  Ordered'
<1> DEFINE q == Head(queue)
           S == TextKeys \cup {SpecialKey}
<1>1. /\ queue # <<>> /\ queue' = Tail(queue) /\ text' = text /\ unsent' = unsent
      /\ serial' = serial /\ main' = main /\ reducer = "reducing"
      /\ reducer' = IF q = SpecialKey THEN "done" ELSE "reducing"
      /\ queue \in Seq(S)
  BY DEF Reduce, Typed
<1>2. q \in S /\ Tail(queue) \in Seq(S) /\ queue = <<q>> \o Tail(queue)
  BY <1>1
<1>3. Keys' = Keys /\ TextKeys' = TextKeys
  BY <1>1 DEF Keys, TextKeys
<1> HIDE DEF q
<1>4. CASE serial
  <2>1. Serial
    BY <1>4 DEF Ordered
  <2>2. PICK keys \in Seq(TextKeys \ {SpecialKey}) :
          Keys = (keys \o queue) \o KeysOf(unsent[1])
    BY <1>1, <2>1 DEF Serial, Reduced
  <2>3. keys \in Seq(S) /\ <<q>> \in Seq(S) /\ Append(keys, q) = keys \o <<q>>
    BY <1>2, <2>2
  <2> HIDE DEF S
  <2>4. keys \o (<<q>> \o Tail(queue)) = (keys \o <<q>>) \o Tail(queue)
    BY <1>2, <2>3, ConcatAssociative
  <2>5. Keys = (Append(keys, q) \o queue') \o KeysOf(unsent'[1])
    BY <1>1, <1>2, <2>2, <2>3, <2>4
  <2>6. main # "mapping" /\ main # "done"
    BY <1>1, <2>1 DEF Serial
  <2>7. \E read \in Seq(TextKeys \ {SpecialKey}) :
          Keys = ((IF reducer' = "done" THEN Append(read, SpecialKey) ELSE read) \o queue')
                   \o KeysOf(unsent'[1])
    <3>1. CASE q = SpecialKey
      BY <1>1, <2>2, <2>5, <3>1
    <3>2. CASE q # SpecialKey
      <4>1. Append(keys, q) \in Seq(TextKeys \ {SpecialKey})
        BY <1>2, <2>2, <3>2 DEF S
      <4> QED
        BY <1>1, <2>5, <3>2, <4>1
    <3> QED
      BY <3>1, <3>2
  <2>8. Serial'
    BY <1>1, <1>3, <2>1, <2>6, <2>7 DEF Serial, Reduced
  <2> QED
    BY <1>1, <1>4, <2>8 DEF Ordered
<1>5. CASE ~serial
  <2>1. Parallel
    BY <1>5 DEF Ordered
  <2>2. CASE main \in {"mapping", "ending"}
    <3>1. queue \in Seq(TextKeys) /\ SpecialKey \notin TextKeys
      BY <2>1, <2>2 DEF Parallel
    <3>2. q # SpecialKey /\ queue' \in Seq(TextKeys)
      BY <1>1, <3>1 DEF q
    <3>3. Parallel'
      BY <1>1, <1>3, <2>1, <2>2, <3>2 DEF Parallel, Idle, Mappers
    <3> QED
      BY <1>1, <1>5, <3>3 DEF Ordered
  <2>3. CASE main \in {"joining", "done"}
    <3>1. PICK keys \in Seq(TextKeys) : queue = Append(keys, SpecialKey)
      BY <1>1, <2>1, <2>3 DEF Parallel
    <3>2. main = "joining" /\ SpecialKey \notin TextKeys
      BY <1>1, <2>1, <2>3 DEF Parallel
    <3>3. /\ q = IF keys = <<>> THEN SpecialKey ELSE Head(keys)
          /\ queue' = IF keys = <<>> THEN <<>> ELSE Append(Tail(keys), SpecialKey)
      BY <1>1, <3>1, HeadTailAppend DEF q
    <3>4. keys # <<>> => Head(keys) \in TextKeys /\ Tail(keys) \in Seq(TextKeys)
      BY <3>1
    <3>5. Parallel'
      BY <1>1, <1>3, <2>1, <3>2, <3>3, <3>4 DEF Parallel, Idle, Mappers
    <3> QED
      BY <1>1, <1>5, <3>5 DEF Ordered
  <2> QED
    BY <2>1, <2>2, <2>3 DEF Parallel
<1> QED
  BY <1>4, <1>5

(* The other steps disturb no order. *)
LEMMA OthersInOrder ==
  ASSUME Typed, Ordered, SendSpecial \/ JoinMappers \/ ReduceSerially \/ Finish \/ UNCHANGED vars
  PROVE  Ordered'
<1>1. text' = text /\ unsent' = unsent /\ serial' = serial
  BY DEF SendSpecial, JoinMappers, ReduceSerially, Finish, vars
<1>2. Keys' = Keys /\ TextKeys' = TextKeys /\ (Idle' <=> Idle)
  BY <1>1 DEF Keys, TextKeys, Idle, Mappers
<1>3. CASE serial
  <2>1. Serial
    BY <1>3 DEF Ordered
  <2>2. ~SendSpecial /\ ~JoinMappers
    BY <1>3, <2>1 DEF Serial, SendSpecial, JoinMappers
  <2>3. queue' = queue /\ (reducer' = reducer \/ (reducer # "done" /\ reducer' # "done"))
    BY <2>1, <2>2 DEF Serial, ReduceSerially, Finish, vars
  <2>4. \A keys : Reduced(keys)' = Reduced(keys)
    BY <2>3 DEF Reduced
  <2>5. /\ main' \in {"mapping", "joining", "done"}
        /\ main' = "mapping" => reducer' = "waiting"
        /\ main' = "done" => reducer' = "done"
    BY <2>1, <2>2 DEF Serial, ReduceSerially, Finish, vars
  <2>6. Serial'
    BY <1>1, <1>2, <2>1, <2>3, <2>4, <2>5 DEF Serial
  <2> QED
    BY <1>1, <1>3, <2>6 DEF Ordered
<1>4. CASE ~serial
  <2>1. Parallel
    BY <1>4 DEF Ordered
  <2>2. CASE SendSpecial
    BY <1>1, <1>2, <1>4, <2>1, <2>2 DEF SendSpecial, Parallel, Ordered
  <2>3. CASE JoinMappers
    BY <1>1, <1>2, <1>4, <2>1, <2>3 DEF JoinMappers, Parallel, Ordered, Idle
  <2>4. CASE Finish
    BY <1>1, <1>2, <1>4, <2>1, <2>4 DEF Finish, Parallel, Ordered
  <2>5. CASE UNCHANGED vars
    BY <1>1, <1>2, <1>4, <2>1, <2>5 DEF vars, Parallel, Ordered
  <2> QED
    BY <1>4, <2>2, <2>3, <2>4, <2>5 DEF ReduceSerially
<1> QED
  BY <1>3, <1>4

(* The invariant holds at first. *)
LEMMA WordInvInit ==
  Init => WordInv
BY ConservedInit, OrderedInit DEF WordInv

(* Every step keeps the invariant. *)
LEMMA WordInvNext ==
  ASSUME WordInv, [Next]_vars
  PROVE  WordInv'
<1>1. text' = text
  BY DEF Next, vars, SendWord, Reduce, JoinMappers, ReduceSerially, SendSpecial, Finish
<1>2. Keys' = Keys /\ TextKeys' = TextKeys /\ (NoBareWord' <=> NoBareWord)
  BY <1>1 DEF Keys, TextKeys, NoBareWord
<1> SUFFICES ASSUME NoBareWord, Typed, Conserved, Ordered
             PROVE  Typed' /\ Conserved' /\ Ordered'
  BY <1>2 DEF WordInv
<1>3. CASE \E m \in Mappers : SendWord(m)
  BY <1>3, SendWordKeeps, SendWordInOrder
<1>4. CASE Reduce
  BY <1>4, ReduceKeeps, ReduceInOrder
<1>5. CASE SendSpecial
  BY <1>5, SpecialKeeps, OthersInOrder
<1>6. CASE JoinMappers \/ ReduceSerially \/ Finish \/ UNCHANGED vars
  <2>1. unsent' = unsent /\ counts' = counts /\ queue' = queue
    BY <1>6 DEF JoinMappers, ReduceSerially, Finish, vars
  <2>2. Typed' /\ Conserved'
    BY <1>1, <1>2, <2>1 DEF Typed, Conserved, Counted, Unsent
  <2> QED
    BY <1>6, <2>2, OthersInOrder
<1> QED
  BY <1>3, <1>4, <1>5, <1>6 DEF Next

(* For every text, every number of mappers, every capacity of the channel  *)
(* and every order of the steps: each key is counted, in the channel or    *)
(* still to be sent as often as it is in the text.                         *)
THEOREM NoWordLostHolds ==
  Spec => []NoWordLost
<1>1. WordInv /\ [Next]_vars => WordInv'
  BY WordInvNext
<1>2. WordInv => NoWordLost
  BY DEF WordInv, Conserved, NoWordLost, TextKeys
<1> QED
  BY <1>1, <1>2, WordInvInit, PTL DEF Spec

-----------------------------------------------------------------------------
(* The output *)

(* What is counted of each key says what the tree is. *)
LEMMA CountsAre ==
  ASSUME Typed, NEW keys \in Seq(TextKeys \ {SpecialKey}),
         \A key \in TextKeys \ {SpecialKey} : Counted(key) = Occurrences(keys, key)
  PROVE  counts = [key \in Range(keys) |-> Occurrences(keys, key)]
<1>1. counts \in [DOMAIN counts -> Nat \ {0}] /\ DOMAIN counts \subseteq TextKeys \ {SpecialKey}
  BY DEF Typed
<1>2. Range(keys) \subseteq TextKeys \ {SpecialKey}
  BY DEF Range
<1>3. \A key : /\ Occurrences(keys, key) \in Nat
               /\ Occurrences(keys, key) > 0 <=> key \in Range(keys)
  BY OccurrencesType
<1>4. \A key \in TextKeys \ {SpecialKey} : key \in DOMAIN counts <=> key \in Range(keys)
  BY <1>1, <1>3 DEF Counted
<1>5. DOMAIN counts = Range(keys)
  BY <1>1, <1>2, <1>4
<1>6. \A key \in DOMAIN counts : counts[key] = Occurrences(keys, key)
  BY <1>1 DEF Counted
<1> QED
  BY <1>1, <1>5, <1>6

(* Idle mappers have sent all. *)
LEMMA NothingUnsent ==
  ASSUME Typed, Idle, NEW key
  PROVE  Unsent(key) = 0
<1> DEFINE n == Len(unsent)
           h == OccursUpTo(unsent, key)
           Zero == {i \in Nat : i <= n => h[i] = 0}
<1>1. /\ n \in Nat /\ h[0] = 0
      /\ \A i \in 1 .. n : h[i] = h[i - 1] + 0
  <2>1. \A i \in 1 .. n : KeysOf(unsent[i]) = <<>>
    BY DEF Typed, Idle, Mappers, KeysOf
  <2>2. Occurrences(<<>>, key) = 0
    BY OccurrencesNone
  <2>3. /\ unsent \in Seq(Seq(Word)) /\ n \in Nat
        /\ h[0] = 0 /\ \A i \in 1 .. n : h[i] = h[i - 1] + Occurrences(KeysOf(unsent[i]), key)
    <3>1. unsent \in Seq(Seq(Word))
      BY DEF Typed
    <3> QED
      BY <3>1, OccursUpToIs
  <2> HIDE DEF n, h
  <2> QED
    BY <2>1, <2>2, <2>3 DEF n
<1> HIDE DEF n, h
<1>2. 0 \in Zero
  BY <1>1
<1>3. ASSUME NEW i \in Zero PROVE i + 1 \in Zero
  <2>1. i \in Nat
    OBVIOUS
  <2>2. ASSUME i + 1 <= n PROVE h[i + 1] = 0
    <3>1. i + 1 \in 1 .. n /\ (i + 1) - 1 = i /\ i <= n
      BY <1>1, <2>1, <2>2
    <3>2. h[i] = 0
      BY <3>1
    <3> QED
      BY <1>1, <3>1, <3>2
  <2> QED
    BY <2>1, <2>2
<1> HIDE DEF Zero
<1>4. Zero = Nat
  <2>1. Zero \in SUBSET Nat
    BY DEF Zero
  <2> QED
    BY <1>2, <1>3, <2>1, NatBySet
<1>5. h[n] = 0
  BY <1>1, <1>4 DEF Zero
<1> QED
  BY <1>5 DEF h, n, Unsent

(* The counts of the parallel version at its end. *)
LEMMA CountsInParallel ==
  ASSUME Typed, Conserved, Parallel, main = "done"
  PROVE  counts = [key \in Range(KeysToCount) |-> Occurrences(KeysToCount, key)]
<1>1. Idle /\ queue = <<>> /\ SpecialKey \notin TextKeys
  BY DEF Parallel
<1>2. Keys \in Seq(Key)
  <2>1. KeysOf(WordsOf(text)) \in Seq(Key)
    BY WordsType, KeysType DEF Typed
  <2> QED
    BY <2>1 DEF Keys
<1>3. Keys \in Seq(TextKeys \ {SpecialKey})
  <2>1. \A i \in 1 .. Len(Keys) : Keys[i] \in TextKeys \ {SpecialKey}
    BY <1>1, <1>2 DEF TextKeys, Range
  <2>2. Keys = [i \in 1 .. Len(Keys) |-> Keys[i]] /\ Len(Keys) \in Nat
    BY <1>2
  <2> QED
    BY <2>1, <2>2
<1>4. KeysToCount = Keys
  BY <1>1, <1>2 DEF KeysToCount, TextKeys, Range
<1>5. ASSUME NEW key \in TextKeys \ {SpecialKey}
      PROVE  Counted(key) = Occurrences(Keys, key)
  <2>1. Occurrences(queue, key) = 0 /\ Unsent(key) = 0
    BY <1>1, OccurrencesNone, NothingUnsent
  <2>2. Counted(key) \in Nat
    BY DEF Counted, Typed
  <2>3. Counted(key) + Occurrences(queue, key) + Unsent(key) = Occurrences(Keys, key)
    BY DEF Conserved
  <2> QED
    BY <2>1, <2>2, <2>3
<1> QED
  BY <1>3, <1>4, <1>5, CountsAre

(* The first splmsg of the text is the one the Reducer stopped at. *)
LEMMA KeysToCountAre ==
  ASSUME NEW S, NEW keys \in Seq(S \ {SpecialKey}), NEW rest \in Seq(S), SpecialKey \in S,
         Keys = Append(keys, SpecialKey) \o rest
  PROVE  KeysToCount = keys
<1> DEFINE n == Len(keys)
           specials == {i \in DOMAIN Keys : Keys[i] = SpecialKey}
<1>1. /\ n \in Nat /\ keys \in Seq(S) /\ Append(keys, SpecialKey) \in Seq(S)
      /\ Len(Append(keys, SpecialKey)) = n + 1
      /\ \A i \in 1 .. n : Append(keys, SpecialKey)[i] = keys[i] /\ keys[i] # SpecialKey
      /\ Append(keys, SpecialKey)[n + 1] = SpecialKey
  OBVIOUS
<1>2. /\ Keys \in Seq(S) /\ Len(Keys) = n + 1 + Len(rest) /\ Len(rest) \in Nat
      /\ \A i \in 1 .. n + 1 : Keys[i] = Append(keys, SpecialKey)[i]
  <2> DEFINE first == Append(keys, SpecialKey)
  <2>1. first \in Seq(S) /\ Len(first) = n + 1
    BY <1>1
  <2> HIDE DEF first
  <2>2. /\ first \o rest \in Seq(S) /\ Len(first \o rest) = Len(first) + Len(rest)
        /\ \A i \in 1 .. Len(first) : (first \o rest)[i] = first[i]
    <3>1. rest \in Seq(S) /\ Len(rest) \in Nat
      OBVIOUS
    <3>2. /\ first \o rest \in Seq(S) /\ Len(first \o rest) = Len(first) + Len(rest)
          /\ \A i \in 1 .. Len(first) + Len(rest) :
               (first \o rest)[i] = IF i <= Len(first) THEN first[i] ELSE rest[i - Len(first)]
      BY <2>1, <3>1, ConcatProperties
    <3> QED
      BY <1>1, <2>1, <3>1, <3>2
  <2>3. Keys = first \o rest
    BY DEF first
  <2> QED
    BY <1>1, <2>1, <2>2, <2>3 DEF first
<1> HIDE DEF n
<1>3. /\ n + 1 \in specials
      /\ \A i \in specials : n + 1 <= i
  BY <1>1, <1>2
<1>4. (CHOOSE i \in specials : \A j \in specials : i <= j) = n + 1
  <2>1. \A i \in specials : i \in Nat
    BY <1>2
  <2> HIDE DEF specials
  <2> QED
    BY <1>1, <1>3, <2>1
<1>5. KeysToCount = SubSeq(Keys, 1, n)
  <2>1. KeysToCount = SubSeq(Keys, 1, (n + 1) - 1)
    BY <1>3, <1>4 DEF KeysToCount
  <2> QED
    BY <1>1, <2>1
<1>6. /\ SubSeq(Keys, 1, n) \in Seq(S) /\ Len(SubSeq(Keys, 1, n)) = n
      /\ \A i \in 1 .. n : SubSeq(Keys, 1, n)[i] = Keys[i]
  <2>1. \A i \in 1 .. n : Keys[i] \in S
    BY <1>1, <1>2
  <2>2. /\ SubSeq(Keys, 1, n) \in Seq(S)
        /\ Len(SubSeq(Keys, 1, n)) = IF 1 <= n THEN n - 1 + 1 ELSE 0
        /\ \A i \in 1 .. n - 1 + 1 : SubSeq(Keys, 1, n)[i] = Keys[1 + i - 1]
    BY <1>1, <2>1, SubSeqProperties
  <2> QED
    BY <1>1, <2>2
<1>7. \A i \in 1 .. n : SubSeq(Keys, 1, n)[i] = keys[i]
  BY <1>1, <1>2, <1>6
<1> QED
  BY <1>1, <1>5, <1>6, <1>7, SeqEqual DEF n

(* The counts of the serial version at its end. *)
LEMMA CountsInSerial ==
  ASSUME Typed, Conserved, Serial, main = "done"
  PROVE  counts = [key \in Range(KeysToCount) |-> Occurrences(KeysToCount, key)]
<1> DEFINE S == TextKeys \cup {SpecialKey}
           left == KeysOf(unsent[1])
<1>1. PICK keys \in Seq(TextKeys \ {SpecialKey}) :
        Keys = (Append(keys, SpecialKey) \o queue) \o left
  BY DEF Serial, Reduced
<1>2. keys \in Seq(S \ {SpecialKey}) /\ keys \in Seq(S) /\ SpecialKey \in S
  BY <1>1
<1>3. queue \in Seq(S) /\ left \in Seq(S) /\ unsent \in Seq(Seq(Word)) /\ Len(unsent) = 1
  BY DEF Typed, Serial
<1> HIDE DEF S, left
<1>4. Append(keys, SpecialKey) \in Seq(S) /\ queue \o left \in Seq(S)
  BY <1>2, <1>3
<1>5. Keys = Append(keys, SpecialKey) \o (queue \o left)
  <2>1. \A a, b, c \in Seq(S) : (a \o b) \o c = a \o (b \o c)
    BY ConcatAssociative
  <2> QED
    BY <1>1, <1>3, <1>4, <2>1, Zenon
<1>6. KeysToCount = keys
  BY <1>2, <1>4, <1>5, KeysToCountAre
<1>7. ASSUME NEW key \in TextKeys \ {SpecialKey}
      PROVE  Counted(key) = Occurrences(keys, key)
  <2>1. Occurrences(Keys, key) = Occurrences(Append(keys, SpecialKey), key)
                                   + (Occurrences(queue, key) + Occurrences(left, key))
    <3>1. \A s, t \in Seq(S) : Occurrences(s \o t, key) = Occurrences(s, key) + Occurrences(t, key)
      BY OccurrencesConcat
    <3> QED
      BY <1>3, <1>4, <1>5, <3>1, Zenon
  <2>2. Occurrences(Append(keys, SpecialKey), key) = Occurrences(keys, key) + 0
    BY <1>2, OccurrencesAppend
  <2>3. Unsent(key) = 0 + Occurrences(left, key)
    <3>1. /\ OccursUpTo(unsent, key)[0] = 0
          /\ OccursUpTo(unsent, key)[1] = OccursUpTo(unsent, key)[1 - 1] + Occurrences(left, key)
      <4>1. /\ OccursUpTo(unsent, key)[0] = 0
            /\ \A m \in 1 .. Len(unsent) :
                 OccursUpTo(unsent, key)[m]
                   = OccursUpTo(unsent, key)[m - 1] + Occurrences(KeysOf(unsent[m]), key)
        BY <1>3, OccursUpToIs
      <4>2. 1 \in 1 .. Len(unsent)
        BY <1>3
      <4> QED
        BY <4>1, <4>2, Zenon DEF left
    <3>2. 1 - 1 = 0
      OBVIOUS
    <3> QED
      BY <1>3, <3>1, <3>2 DEF Unsent
  <2>4. /\ Occurrences(keys, key) \in Nat /\ Occurrences(queue, key) \in Nat
        /\ Occurrences(left, key) \in Nat
    BY <1>2, <1>3, OccurrencesType
  <2>5. Counted(key) \in Nat
    BY DEF Counted, Typed
  <2>6. Counted(key) + Occurrences(queue, key) + Unsent(key) = Occurrences(Keys, key)
    BY DEF Conserved
  <2> QED
    BY <2>1, <2>2, <2>3, <2>4, <2>5, <2>6
<1> QED
  BY <1>1, <1>6, <1>7, CountsAre

(* When the program ends, the output is the word count of the text: of all  *)
(* of it in the parallel form, of what precedes splmsg in the serial form.  *)
THEOREM CountsCorrectHolds ==
  Spec => []CountsCorrect
<1>1. WordInv /\ [Next]_vars => WordInv'
  BY WordInvNext
<1>2. WordInv => CountsCorrect
  BY CountsInParallel, CountsInSerial DEF WordInv, Ordered, CountsCorrect
<1> QED
  BY <1>1, <1>2, WordInvInit, PTL DEF Spec
=============================================================================
