---------------------------- MODULE SetInduction ----------------------------
(***************************************************************************)
(* Induction and recursion over the natural numbers, stated of sets and    *)
(* functions instead of predicates and operators so that first-order       *)
(* provers can use them, and remainders of a division.                     *)
(***************************************************************************)
EXTENDS Integers, TLAPS, WellFoundedInduction

(* Every set of natural numbers that is not empty has a least element. *)
LEMMA LeastNatural ==
  ASSUME NEW S \in SUBSET Nat, S # {}
  PROVE  \E n \in S : \A m \in S : n <= m
PROOF
  <1> DEFINE R == OpToRel(<, Nat)
  <1>1. IsWellFoundedOn(R, Nat)
    BY NatLessThanWellFounded
  <1>2. PICK n \in S : \A m \in S : ~(<<m, n>> \in R)
    <2> HIDE DEF R
    <2> QED
      BY <1>1, WFMin
  <1>3. \A m \in S : ~(m < n)
    BY <1>2 DEF OpToRel
  <1> QED
    BY <1>3

(* A set of natural numbers that holds 0, and with n also n + 1, holds all. *)
LEMMA NatBySet ==
  ASSUME NEW S \in SUBSET Nat, 0 \in S, \A n \in S : n + 1 \in S
  PROVE  S = Nat
PROOF
  <1> SUFFICES ASSUME Nat \ S # {}
               PROVE  FALSE
    OBVIOUS
  <1>1. PICK n \in Nat \ S : \A m \in Nat \ S : n <= m
    BY LeastNatural
  <1>2. n # 0 /\ n - 1 \in Nat
    OBVIOUS
  <1>3. n - 1 \in S
    BY <1>1, <1>2
  <1> QED
    BY <1>1, <1>2, <1>3

(* The first values of a function that starts at s and goes on with step. *)
FirstValues(S, s, step, n) ==
  {g \in [0 .. n -> S] : g[0] = s /\ \A i \in 0 .. n - 1 : g[i + 1] = step[g[i]]}

(* A function on the natural numbers may be defined by its first value and  *)
(* the step from one value to the next.                                     *)
LEMMA NatRecursion ==
  ASSUME NEW S, NEW s \in S, NEW step \in [S -> S]
  PROVE  \E g \in [Nat -> S] : g[0] = s /\ \A n \in Nat : g[n + 1] = step[g[n]]
PROOF
  <1>1. \A n \in Nat : FirstValues(S, s, step, n) # {}
    <2> DEFINE Some == {n \in Nat : FirstValues(S, s, step, n) # {}}
    <2>1. 0 \in Some
      <3>1. [i \in 0 .. 0 |-> s] \in FirstValues(S, s, step, 0)
        BY DEF FirstValues
      <3> QED
        BY <3>1
    <2>2. ASSUME NEW n \in Some PROVE n + 1 \in Some
      <3>1. PICK g : g \in FirstValues(S, s, step, n)
        OBVIOUS
      <3> DEFINE h == [i \in 0 .. n + 1 |-> IF i = n + 1 THEN step[g[n]] ELSE g[i]]
      <3>2. n \in Nat /\ g \in [0 .. n -> S] /\ n \in 0 .. n
        BY <3>1 DEF FirstValues
      <3>3. h \in [0 .. n + 1 -> S]
        BY <3>2
      <3>4. h[0] = s
        BY <3>1, <3>2 DEF FirstValues
      <3>5. ASSUME NEW i \in 0 .. (n + 1) - 1 PROVE h[i + 1] = step[h[i]]
        <4>1. CASE i = n
          BY <3>2, <4>1
        <4>2. CASE i # n
          <5>1. i \in 0 .. n - 1 /\ i + 1 \in 0 .. n /\ i \in 0 .. n
            BY <3>2, <4>2
          <5>2. g[i + 1] = step[g[i]]
            BY <3>1, <5>1 DEF FirstValues
          <5> QED
            BY <3>2, <5>1, <5>2
        <4> QED
          BY <4>1, <4>2
      <3> HIDE DEF h
      <3>6. h \in FirstValues(S, s, step, n + 1)
        BY <3>3, <3>4, <3>5 DEF FirstValues
      <3> QED
        BY <3>2, <3>6
    <2> HIDE DEF Some
    <2>3. Some = Nat
      <3>1. Some \in SUBSET Nat
        BY DEF Some
      <3> QED
        BY <2>1, <2>2, <3>1, NatBySet
    <2> QED
      BY <2>3 DEF Some
  <1>2. ASSUME NEW n \in Nat, NEW g \in FirstValues(S, s, step, n), NEW h \in FirstValues(S, s, step, n + 1)
        PROVE  \A i \in 0 .. n : g[i] = h[i]
    <2> DEFINE Same == {i \in Nat : i <= n => g[i] = h[i]}
    <2>1. 0 \in Same
      BY DEF FirstValues
    <2>2. ASSUME NEW i \in Same PROVE i + 1 \in Same
      <3>1. i \in Nat
        OBVIOUS
      <3>2. ASSUME i + 1 <= n PROVE g[i + 1] = h[i + 1]
        <4>1. i \in 0 .. n - 1 /\ i \in 0 .. (n + 1) - 1 /\ i <= n
          BY <3>1, <3>2
        <4>2. g[i] = h[i]
          BY <4>1
        <4> QED
          BY <4>1, <4>2 DEF FirstValues
      <3> QED
        BY <3>1, <3>2
    <2> HIDE DEF Same
    <2>3. Same = Nat
      <3>1. Same \in SUBSET Nat
        BY DEF Same
      <3> QED
        BY <2>1, <2>2, <3>1, NatBySet
    <2> QED
      BY <2>3 DEF Same
  <1> DEFINE first(n) == CHOOSE g : g \in FirstValues(S, s, step, n)
             G == [n \in Nat |-> first(n)[n]]
  <1>3. ASSUME NEW n \in Nat PROVE first(n) \in FirstValues(S, s, step, n)
    BY <1>1
  <1> HIDE DEF first
  <1>4. G \in [Nat -> S]
    <2>1. ASSUME NEW n \in Nat PROVE first(n)[n] \in S
      <3>1. first(n) \in [0 .. n -> S] /\ n \in 0 .. n
        BY <1>3 DEF FirstValues
      <3> QED
        BY <3>1
    <2> QED
      BY <2>1
  <1>5. G[0] = s
    BY <1>3 DEF FirstValues
  <1>6. ASSUME NEW n \in Nat PROVE G[n + 1] = step[G[n]]
    <2>1. first(n) \in FirstValues(S, s, step, n) /\ first(n + 1) \in FirstValues(S, s, step, n + 1)
      BY <1>3
    <2>2. n \in 0 .. n /\ n \in 0 .. (n + 1) - 1 /\ n + 1 \in Nat
      OBVIOUS
    <2>3. first(n)[n] = first(n + 1)[n]
      BY <1>2, <2>1, <2>2
    <2>4. first(n + 1)[n + 1] = step[first(n + 1)[n]]
      BY <2>1, <2>2 DEF FirstValues
    <2> QED
      BY <2>2, <2>3, <2>4
  <1> HIDE DEF G
  <1> QED
    BY <1>4, <1>5, <1>6

(* A number below the divisor is what remains of it plus multiples. *)
LEMMA RemainderIs ==
  ASSUME NEW S \in Nat \ {0}, NEW r \in 0 .. S - 1, NEW k \in Int
  PROVE  (r + k * S) % S = r /\ (r + k * S) \div S = k
PROOF
  <1> DEFINE n == r + k * S
             d == n \div S
             m == n % S
             v == k * S
             w == d * S
  <1>1. v \in Int /\ n \in Int /\ n = r + v
    OBVIOUS
  <1> HIDE DEF n
  <1>2. d \in Int /\ m \in 0 .. S - 1 /\ n = S * d + m
    BY <1>1
  <1> HIDE DEF d, m
  <1>3. w \in Int /\ n = w + m
    BY <1>2
  <1>4. d = k
    <2>1. ASSUME d <= k - 1 PROVE FALSE
      <3> DEFINE u == (k - 1 - d) * S
      <3>1. k - 1 - d \in Nat
        BY <1>2, <2>1
      <3>2. u \in Nat
        BY <3>1
      <3>3. u = v - S - w
        BY <1>2
      <3> HIDE DEF u, v, w
      <3> QED
        BY <1>1, <1>2, <1>3, <3>2, <3>3
    <2>2. ASSUME d >= k + 1 PROVE FALSE
      <3> DEFINE u == (d - k - 1) * S
      <3>1. d - k - 1 \in Nat
        BY <1>2, <2>2
      <3>2. u \in Nat
        BY <3>1
      <3>3. u = w - v - S
        BY <1>2
      <3> HIDE DEF u, v, w
      <3> QED
        BY <1>1, <1>2, <1>3, <3>2, <3>3
    <2> QED
      BY <1>2, <2>1, <2>2
  <1>5. m = r
    <2>1. w = v
      BY <1>4
    <2> HIDE DEF v, w
    <2> QED
      BY <1>1, <1>2, <1>3, <2>1
  <1> QED
    BY <1>4, <1>5 DEF d, m, n

(* A multiple of the divisor makes no difference to the remainder. *)
LEMMA AddMultiple ==
  ASSUME NEW S \in Nat \ {0}, NEW n \in Int, NEW k \in Int
  PROVE  (n + k * S) % S = n % S
PROOF
  <1> DEFINE d == n \div S
             r == n % S
  <1>1. d \in Int /\ r \in 0 .. S - 1 /\ n = S * d + r
    OBVIOUS
  <1> HIDE DEF d, r
  <1>2. n + k * S = r + (d + k) * S
    <2>1. (d + k) * S = S * d + k * S /\ k * S \in Int /\ S * d \in Int
      BY <1>1
    <2> DEFINE u == (d + k) * S  v == S * d  w == k * S
    <2>2. u = v + w /\ v \in Int /\ w \in Int /\ n = v + r
      BY <1>1, <2>1
    <2> HIDE DEF u, v, w
    <2>3. n + w = r + u
      BY <1>1, <2>2
    <2> QED
      BY <2>3 DEF u, w
  <1>3. (r + (d + k) * S) % S = r
    <2> DEFINE c == d + k
    <2>1. c \in Int
      BY <1>1
    <2> HIDE DEF c
    <2>2. (r + c * S) % S = r
      BY <1>1, <2>1, RemainderIs
    <2> QED
      BY <2>2 DEF c
  <1>4. (n + k * S) % S = r
    BY <1>2, <1>3, Zenon
  <1> QED
    BY <1>4 DEF r

(* Remainders may be taken at any point of a sum. *)
LEMMA RemainderInSum ==
  ASSUME NEW S \in Nat \ {0}, NEW n \in Int, NEW m \in Int
  PROVE  /\ n % S \in 0 .. S - 1
         /\ ((n % S) + m) % S = (n + m) % S
         /\ (m - (n % S)) % S = (m - n) % S
PROOF
  <1> DEFINE d == n \div S
             r == n % S
             w == d * S
  <1>1. d \in Int /\ r \in 0 .. S - 1 /\ n = S * d + r
    OBVIOUS
  <1> HIDE DEF d, r
  <1>2. w \in Int /\ n = w + r /\ (- d) * S = - w
    BY <1>1
  <1>3. n + m = r + m + d * S
    <2> HIDE DEF w
    <2>1. n + m = r + m + w
      BY <1>1, <1>2
    <2> QED
      BY <2>1 DEF w
  <1>4. m - n = m - r + (- d) * S
    <2> HIDE DEF w
    <2>1. m - n = m - r + (- w)
      BY <1>1, <1>2
    <2> QED
      BY <1>2, <2>1
  <1>5. r + m \in Int /\ m - r \in Int /\ - d \in Int
    BY <1>1
  <1>6. (n + m) % S = (r + m) % S
    <2> DEFINE a == r + m
    <2>1. a \in Int /\ n + m = a + d * S
      BY <1>1, <1>3, <1>5
    <2> HIDE DEF a
    <2>2. (a + d * S) % S = a % S
      BY <1>1, <2>1, AddMultiple
    <2> QED
      BY <2>1, <2>2 DEF a
  <1>7. (m - n) % S = (m - r) % S
    <2> DEFINE a == m - r
               b == - d
    <2>1. a \in Int /\ b \in Int /\ m - n = a + b * S
      BY <1>1, <1>4, <1>5
    <2> HIDE DEF a, b
    <2>2. (a + b * S) % S = a % S
      BY <2>1, AddMultiple
    <2> QED
      BY <2>1, <2>2 DEF a
  <1>8. /\ r \in 0 .. S - 1
        /\ (r + m) % S = (n + m) % S
        /\ (m - r) % S = (m - n) % S
    BY <1>1, <1>6, <1>7
  <1> QED
    BY <1>8 DEF r
=============================================================================
