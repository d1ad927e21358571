------------------------- MODULE TraceDriverProofs --------------------------
(***************************************************************************)
(* mdriver.c's check of an allocator for every heap, every allocator with   *)
(* at most one fault and every trace.  In this order: the range list; the   *)
(* verdict, whatever tree finds the nearest range (an innocent allocator is *)
(* never refused, and what the range list misses the data shows before the  *)
(* trace is over); the K-best sampler; the splay tree, and the driver that  *)
(* uses it, which implements the check.                                     *)
(***************************************************************************)
EXTENDS TraceDriver, SetInduction, SequenceTheorems, FiniteSetTheorems, TLAPS

-----------------------------------------------------------------------------
(* The range list, for every heap and every sequence of additions and      *)
(* removals.  The inductive invariant adds to LinksSound that a record     *)
(* covers its own address: an address that is already recorded is          *)
(* therefore refused as overlapping itself.                                *)
CoversItself == \A a \in live : a <= hi[a]
RangeInv == RangeTypeOK /\ CoversItself /\ LinksSound

(* What a store through a pointer changes, in a link and in the field hi.  *)
LEMMA StoreLink ==
  ASSUME NEW f \in [Addresses -> Addresses \cup {NULL}], NEW x, NEW v \in Addresses \cup {NULL}
  PROVE  /\ Store(f, x, v) \in [Addresses -> Addresses \cup {NULL}]
         /\ \A a \in Addresses : Store(f, x, v)[a] = IF a = x THEN v ELSE f[a]
BY DEF Store

(* Two stores through pointers, one after the other. *)
LEMMA TwoStores ==
  ASSUME NEW f \in [Addresses -> Addresses \cup {NULL}],
         NEW x, NEW v \in Addresses \cup {NULL}, NEW y, NEW w \in Addresses \cup {NULL}
  PROVE  /\ Store(Store(f, x, v), y, w) \in [Addresses -> Addresses \cup {NULL}]
         /\ \A a \in Addresses :
              Store(Store(f, x, v), y, w)[a] = IF a = y THEN w ELSE IF a = x THEN v ELSE f[a]
<1> DEFINE g == Store(f, x, v)
<1>1. g \in [Addresses -> Addresses \cup {NULL}]
      /\ \A a \in Addresses : g[a] = IF a = x THEN v ELSE f[a]
  BY StoreLink
<1> HIDE DEF g
<1>2. Store(g, y, w) \in [Addresses -> Addresses \cup {NULL}]
      /\ \A a \in Addresses : Store(g, y, w)[a] = IF a = y THEN w ELSE g[a]
  BY <1>1, StoreLink
<1> QED BY <1>1, <1>2 DEF g

(* A store into the field hi. *)
LEMMA StoreHi ==
  ASSUME NEW f \in [Addresses -> Nat], NEW x, NEW v \in Nat
  PROVE  /\ Store(f, x, v) \in [Addresses -> Nat]
         /\ \A a \in Addresses : Store(f, x, v)[a] = IF a = x THEN v ELSE f[a]
BY DEF Store

(* The empty list is sound. *)
LEMMA InitInv == RangeInit => RangeInv
BY RangeAssumption DEF RangeInit, RangeInv, RangeTypeOK, CoversItself, LinksSound

(* The nearest record of a new address is not at the address itself, or    *)
(* add_range refuses it.                                                   *)
LEMMA NewAddress ==
  ASSUME RangeInv, NEW lo \in Addresses, NEW size \in Sizes, NEW p \in live \cup {NULL},
         IsNearest(p, lo), ~Overlaps(lo, size, p)
  PROVE  /\ lo \notin live
         /\ p # NULL => p \in live /\ p < lo /\ hi[p] < lo
BY RangeAssumption DEF RangeInv, RangeTypeOK, CoversItself, IsNearest, Overlaps

(* add_range below all records: a chain of its own.                        *)
LEMMA LinkFirst ==
  ASSUME RangeInv, NEW lo \in Addresses, NEW size \in Sizes,
         IsNearest(NULL, lo), AddRange(lo, size, NULL)
  PROVE  RangeInv'
<1> USE RangeAssumption
<1>1. lo \notin live /\ \A a \in live : lo < a
  BY NewAddress DEF AddRange, IsNearest, RangeInv, RangeTypeOK
<1>2. live \subseteq Addresses /\ lo + size - 1 \in Nat /\ lo <= lo + size - 1
  BY DEF RangeInv, RangeTypeOK
<1>3. /\ live' = live \cup {lo}
      /\ list' = lo
      /\ hi' = Store(hi, lo, lo + size - 1)
      /\ next' = Store(Store(next, NULL, lo), lo, NULL)
      /\ prev' = Store(Store(prev, NULL, lo), lo, NULL)
  BY DEF AddRange, Link, Successor
<1>4. hi' \in [Addresses -> Nat]
      /\ \A a \in Addresses : hi'[a] = IF a = lo THEN lo + size - 1 ELSE hi[a]
  BY <1>2, <1>3, StoreHi DEF RangeInv, RangeTypeOK
<1>5. /\ next' \in [Addresses -> Addresses \cup {NULL}]
      /\ prev' \in [Addresses -> Addresses \cup {NULL}]
      /\ \A a \in Addresses : next'[a] = IF a = lo THEN NULL ELSE next[a]
      /\ \A a \in Addresses : prev'[a] = IF a = lo THEN NULL ELSE prev[a]
  <2> DEFINE Links == Addresses \cup {NULL}
  <2>1. next \in [Addresses -> Links] /\ prev \in [Addresses -> Links]
    BY DEF RangeInv, RangeTypeOK
  <2> DEFINE none == NULL
  <2>2. /\ lo \in Links /\ none \in Links /\ \A a \in Addresses : a # none
        /\ next' = Store(Store(next, none, lo), lo, none)
        /\ prev' = Store(Store(prev, none, lo), lo, none)
    BY <1>3
  <2> HIDE DEF none
  <2>3. /\ next' \in [Addresses -> Links]
        /\ \A a \in Addresses : next'[a] = IF a = lo THEN none ELSE next[a]
    BY <2>1, <2>2, TwoStores
  <2>4. /\ prev' \in [Addresses -> Links]
        /\ \A a \in Addresses : prev'[a] = IF a = lo THEN none ELSE prev[a]
    BY <2>1, <2>2, TwoStores
  <2> QED BY <2>3, <2>4 DEF none
<1>6. RangeTypeOK' /\ CoversItself'
  BY <1>2, <1>3, <1>4, <1>5 DEF RangeInv, RangeTypeOK, CoversItself
<1>7. LinksSound'
  <2>1. /\ live' = live \cup {lo} /\ list' = lo
        /\ next'[lo] = NULL /\ prev'[lo] = NULL
        /\ \A a \in live : a # lo /\ next'[a] = next[a] /\ prev'[a] = prev[a] /\ hi'[a] = hi[a]
    BY <1>1, <1>2, <1>3, <1>4, <1>5
  <2>2. LinksSound
    BY DEF RangeInv
  <2>3. \A a \in live' : prev'[a] # NULL => prev'[a] \in live' /\ next'[prev'[a]] = a
    BY <2>1, <2>2 DEF LinksSound
  <2>4. ASSUME NEW a \in live', next'[a] # NULL
        PROVE  /\ next'[a] \in live' /\ prev'[next'[a]] = a /\ hi'[a] < next'[a]
               /\ \A b \in live' : b <= a \/ next'[a] <= b
    <3>1. a \in live /\ next'[a] = next[a] /\ hi'[a] = hi[a]
      BY <2>1, <2>4
    <3>2. /\ next[a] \in live /\ prev[next[a]] = a /\ hi[a] < next[a]
          /\ \A b \in live : b <= a \/ next[a] <= b
      BY <2>2, <2>4, <3>1 DEF LinksSound
    <3>3. lo <= a
      BY <1>1, <1>2, <3>1
    <3> QED BY <2>1, <3>1, <3>2, <3>3
  <2> QED BY <2>1, <2>3, <2>4 DEF LinksSound
<1> QED BY <1>6, <1>7 DEF RangeInv

(* add_range behind the record p: between p and its successor.             *)
LEMMA LinkBehind ==
  ASSUME RangeInv, NEW lo \in Addresses, NEW size \in Sizes, NEW p \in live,
         IsNearest(p, lo), AddRange(lo, size, p)
  PROVE  RangeInv'
<1> USE RangeAssumption
<1> DEFINE n == next[p]
<1>1. live \subseteq Addresses /\ p \in Addresses /\ p # NULL /\ n \in Addresses \cup {NULL}
  BY DEF RangeInv, RangeTypeOK
<1>2. lo \notin live /\ p < lo /\ hi[p] < lo /\ \A a \in live : a <= p \/ lo < a
  BY <1>1, NewAddress DEF AddRange, IsNearest
<1>3. n # NULL => n \in live /\ prev[n] = p /\ lo + size - 1 < n
                  /\ \A b \in live : b <= p \/ n <= b
  <2> SUFFICES ASSUME n # NULL
               PROVE  /\ n \in live /\ prev[n] = p /\ lo + size - 1 < n
                      /\ \A b \in live : b <= p \/ n <= b
    OBVIOUS
  <2>1. n \in live /\ prev[n] = p /\ \A b \in live : b <= p \/ n <= b
    BY DEF RangeInv, LinksSound
  <2>2. ~(lo + size - 1 >= n)
    BY <1>1 DEF AddRange, Overlaps, Successor
  <2>3. lo \in Nat /\ size \in Nat /\ n \in Nat
    BY <1>1, <2>1
  <2> QED BY <2>1, <2>2, <2>3
<1>4. lo + size - 1 \in Nat /\ lo <= lo + size - 1
  OBVIOUS
<1>5. /\ live' = live \cup {lo}
      /\ list' = list
      /\ hi' = Store(hi, lo, lo + size - 1)
      /\ next' = Store(Store(next, p, lo), lo, n)
      /\ prev' = Store(Store(prev, n, lo), lo, p)
  BY <1>1 DEF AddRange, Link, Successor
<1>6. hi' \in [Addresses -> Nat]
      /\ \A a \in Addresses : hi'[a] = IF a = lo THEN lo + size - 1 ELSE hi[a]
  BY <1>4, <1>5, StoreHi DEF RangeInv, RangeTypeOK
<1>7. /\ next' \in [Addresses -> Addresses \cup {NULL}]
      /\ prev' \in [Addresses -> Addresses \cup {NULL}]
      /\ \A a \in Addresses : next'[a] = IF a = lo THEN n ELSE IF a = p THEN lo ELSE next[a]
      /\ \A a \in Addresses : prev'[a] = IF a = lo THEN p ELSE IF a = n THEN lo ELSE prev[a]
  <2> DEFINE Links == Addresses \cup {NULL}
  <2>1. next \in [Addresses -> Links] /\ prev \in [Addresses -> Links]
    BY DEF RangeInv, RangeTypeOK
  <2>2. lo \in Links /\ p \in Links /\ n \in Links
    BY <1>1
  <2> HIDE DEF n
  <2>3. /\ next' \in [Addresses -> Links]
        /\ \A a \in Addresses : next'[a] = IF a = lo THEN n ELSE IF a = p THEN lo ELSE next[a]
    BY <1>5, <2>1, <2>2, TwoStores
  <2>4. /\ prev' \in [Addresses -> Links]
        /\ \A a \in Addresses : prev'[a] = IF a = lo THEN p ELSE IF a = n THEN lo ELSE prev[a]
    BY <1>5, <2>1, <2>2, TwoStores
  <2> QED BY <2>3, <2>4
<1> HIDE DEF n
<1>8. RangeTypeOK'
  BY <1>1, <1>5, <1>6, <1>7 DEF RangeInv, RangeTypeOK
<1>9. CoversItself'
  BY <1>1, <1>4, <1>5, <1>6 DEF RangeInv, RangeTypeOK, CoversItself
<1>10. next[p] = n
  BY DEF n
<1>11. list' # NULL => list' \in live' /\ prev'[list'] = NULL
  BY <1>1, <1>2, <1>3, <1>5, <1>7 DEF RangeInv, LinksSound
<1>12. ASSUME NEW a \in live', prev'[a] # NULL
       PROVE  prev'[a] \in live' /\ next'[prev'[a]] = a
  <2>1. CASE a = lo
    BY <1>1, <1>2, <1>5, <1>7, <2>1
  <2>2. CASE a = n
    BY <1>1, <1>2, <1>3, <1>5, <1>7, <2>2
  <2>3. CASE a # lo /\ a # n
    <3>1. a \in live /\ a \in Addresses /\ prev'[a] = prev[a]
      BY <1>1, <1>5, <1>7, <2>3
    <3>2. prev[a] \in live /\ next[prev[a]] = a
      BY <1>12, <3>1 DEF RangeInv, LinksSound
    <3>3. prev[a] # lo /\ prev[a] # p
      BY <1>2, <1>10, <2>3, <3>2
    <3> QED BY <1>1, <1>5, <1>7, <3>1, <3>2, <3>3
  <2> QED BY <2>1, <2>2, <2>3
<1>13. ASSUME NEW a \in live', next'[a] # NULL
       PROVE  /\ next'[a] \in live'
              /\ prev'[next'[a]] = a
              /\ hi'[a] < next'[a]
              /\ \A b \in live' : b <= a \/ next'[a] <= b
  <2>1. CASE a = lo
    BY <1>1, <1>2, <1>3, <1>5, <1>6, <1>7, <1>13, <2>1
  <2>2. CASE a = p
    BY <1>1, <1>2, <1>5, <1>6, <1>7, <2>2
  <2>3. CASE a # lo /\ a # p
    <3>1. a \in live /\ a \in Addresses /\ next'[a] = next[a] /\ hi'[a] = hi[a]
      BY <1>1, <1>5, <1>6, <1>7, <2>3
    <3>2. /\ next[a] \in live /\ prev[next[a]] = a /\ hi[a] < next[a]
          /\ \A b \in live : b <= a \/ next[a] <= b
      BY <1>13, <3>1 DEF RangeInv, LinksSound
    <3>3. next[a] # n /\ next[a] # lo
      BY <1>2, <1>3, <2>3, <3>2, <1>1
    <3>4. prev'[next'[a]] = a
      BY <1>1, <1>7, <3>1, <3>2, <3>3
    <3>5. lo <= a \/ next[a] <= lo
      <4>1. a \in Nat /\ p \in Nat /\ lo \in Nat /\ next[a] \in Nat
        BY <1>1, <3>1, <3>2
      <4>2. (a <= p \/ lo < a) /\ a # p /\ p < lo /\ (p <= a \/ next[a] <= p)
        BY <1>2, <2>3, <3>1, <3>2
      <4> QED BY <4>1, <4>2
    <3> QED BY <1>5, <3>1, <3>2, <3>4, <3>5
  <2> QED BY <2>1, <2>2, <2>3
<1> QED BY <1>8, <1>9, <1>11, <1>12, <1>13 DEF RangeInv, LinksSound

(* remove_range: the neighbours of the record are linked to each other.     *)
LEMMA Unlink ==
  ASSUME RangeInv, NEW lo \in Addresses, RemoveRange(lo)
  PROVE  RangeInv'
<1> USE RangeAssumption
<1> DEFINE p == prev[lo]
           n == next[lo]
<1>1. /\ live \subseteq Addresses /\ lo \in live
      /\ p \in Addresses \cup {NULL} /\ n \in Addresses \cup {NULL}
  BY DEF RangeInv, RangeTypeOK, RemoveRange
<1>2. p # NULL => p \in live /\ next[p] = lo /\ hi[p] < lo
                  /\ \A b \in live : b <= p \/ lo <= b
  BY <1>1 DEF RangeInv, LinksSound
<1>3. n # NULL => n \in live /\ prev[n] = lo /\ hi[lo] < n
                  /\ \A b \in live : b <= lo \/ n <= b
  BY <1>1 DEF RangeInv, LinksSound
<1>4. p # lo /\ n # lo
  BY <1>1, <1>2, <1>3 DEF RangeInv, RangeTypeOK, CoversItself
<1>5. /\ live' = live \ {lo}
      /\ list' = IF p = NULL THEN n ELSE list
      /\ hi' = Store(hi, lo, 0)
      /\ next' = Store(Store(next, p, n), lo, NULL)
      /\ prev' = Store(Store(prev, n, p), lo, NULL)
  BY DEF RemoveRange
<1>6. hi' \in [Addresses -> Nat]
      /\ \A a \in Addresses : hi'[a] = IF a = lo THEN 0 ELSE hi[a]
  BY <1>5, StoreHi DEF RangeInv, RangeTypeOK
<1>7. /\ next' \in [Addresses -> Addresses \cup {NULL}]
      /\ prev' \in [Addresses -> Addresses \cup {NULL}]
      /\ \A a \in Addresses : next'[a] = IF a = lo THEN NULL ELSE IF a = p THEN n ELSE next[a]
      /\ \A a \in Addresses : prev'[a] = IF a = lo THEN NULL ELSE IF a = n THEN p ELSE prev[a]
  <2> DEFINE Links == Addresses \cup {NULL}
  <2>1. next \in [Addresses -> Links] /\ prev \in [Addresses -> Links]
    BY DEF RangeInv, RangeTypeOK
  <2> DEFINE none == NULL
  <2>2. /\ none \in Links /\ p \in Links /\ n \in Links
        /\ next' = Store(Store(next, p, n), lo, none)
        /\ prev' = Store(Store(prev, n, p), lo, none)
    BY <1>1, <1>5
  <2> HIDE DEF n, p, none
  <2>3. /\ next' \in [Addresses -> Links]
        /\ \A a \in Addresses : next'[a] = IF a = lo THEN none ELSE IF a = p THEN n ELSE next[a]
    BY <2>1, <2>2, TwoStores
  <2>4. /\ prev' \in [Addresses -> Links]
        /\ \A a \in Addresses : prev'[a] = IF a = lo THEN none ELSE IF a = n THEN p ELSE prev[a]
    BY <2>1, <2>2, TwoStores
  <2> QED BY <2>3, <2>4 DEF none
<1>8. prev[lo] = p /\ next[lo] = n
  OBVIOUS
<1> HIDE DEF p, n
<1>9. RangeTypeOK'
  BY <1>1, <1>5, <1>6, <1>7 DEF RangeInv, RangeTypeOK
<1>10. CoversItself'
  BY <1>1, <1>5, <1>6 DEF RangeInv, RangeTypeOK, CoversItself
<1>11. list' # NULL => list' \in live' /\ prev'[list'] = NULL
  <2>1. CASE p = NULL
    BY <1>1, <1>3, <1>4, <1>5, <1>7, <2>1
  <2>2. CASE p # NULL
    BY <1>1, <1>3, <1>4, <1>5, <1>7, <1>8, <2>2 DEF RangeInv, LinksSound
  <2> QED BY <2>1, <2>2
<1>12. ASSUME NEW a \in live', prev'[a] # NULL
       PROVE  prev'[a] \in live' /\ next'[prev'[a]] = a
  <2>1. CASE a = n
    BY <1>1, <1>2, <1>3, <1>4, <1>5, <1>6, <1>7, <1>12, <2>1
  <2>2. CASE a # n
    <3>1. a \in live /\ a \in Addresses /\ a # lo /\ prev'[a] = prev[a]
      BY <1>1, <1>5, <1>7, <2>2
    <3>2. prev[a] \in live /\ next[prev[a]] = a
      BY <1>12, <3>1 DEF RangeInv, LinksSound
    <3>3. prev[a] # lo /\ prev[a] # p
      BY <1>2, <1>8, <2>2, <3>1, <3>2, <1>1
    <3> QED BY <1>1, <1>5, <1>6, <1>7, <3>1, <3>2, <3>3
  <2> QED BY <2>1, <2>2
<1>13. ASSUME NEW a \in live', next'[a] # NULL
       PROVE  /\ next'[a] \in live'
              /\ prev'[next'[a]] = a
              /\ hi'[a] < next'[a]
              /\ \A b \in live' : b <= a \/ next'[a] <= b
  <2>1. CASE a = p
    <3>1. next'[a] = n /\ n # NULL /\ hi'[a] = hi[p] /\ p \in live
      <4>1. a \in live /\ a \in Addresses /\ a # lo /\ p # NULL
        BY <1>1, <1>5, <2>1
      <4>2. next'[a] = n /\ hi'[a] = hi[a]
        BY <1>6, <1>7, <2>1, <4>1
      <4> QED BY <1>13, <2>1, <4>1, <4>2
    <3>2. n \in live' /\ prev'[n] = p
      BY <1>1, <1>3, <1>4, <1>5, <1>7, <3>1
    <3>3. hi[p] < lo /\ lo <= hi[lo] /\ hi[lo] < n
      BY <1>1, <1>2, <1>3, <3>1 DEF RangeInv, CoversItself
    <3>4. hi[p] \in Nat /\ hi[lo] \in Nat /\ n \in Nat /\ lo \in Nat
      BY <1>1, <3>1 DEF RangeInv, RangeTypeOK
    <3>5. \A b \in live' : b <= p \/ n <= b
      BY <1>1, <1>2, <1>3, <1>5, <3>1
    <3> QED BY <2>1, <3>1, <3>2, <3>3, <3>4, <3>5
  <2>2. CASE a # p
    <3>1. a \in live /\ a \in Addresses /\ a # lo /\ next'[a] = next[a] /\ hi'[a] = hi[a]
      BY <1>1, <1>5, <1>6, <1>7, <2>2
    <3>2. /\ next[a] \in live /\ prev[next[a]] = a /\ hi[a] < next[a]
          /\ \A b \in live : b <= a \/ next[a] <= b
      BY <1>13, <3>1 DEF RangeInv, LinksSound
    <3>3. next[a] # lo /\ next[a] # n
      BY <1>1, <1>3, <1>8, <2>2, <3>1, <3>2
    <3> QED BY <1>1, <1>5, <1>7, <3>1, <3>2, <3>3
  <2> QED BY <2>1, <2>2
<1> QED BY <1>9, <1>10, <1>11, <1>12, <1>13 DEF RangeInv, LinksSound

(* Every operation keeps the list sound. *)
LEMMA StepInv == RangeInv /\ [RangeNext]_rangeVars => RangeInv'
<1> SUFFICES ASSUME RangeInv, [RangeNext]_rangeVars PROVE RangeInv'
  OBVIOUS
<1>1. ASSUME NEW lo \in Addresses, NEW size \in Sizes, NEW p \in live \cup {NULL},
             IsNearest(p, lo), AddRange(lo, size, p)
      PROVE  RangeInv'
  BY <1>1, LinkFirst, LinkBehind
<1>2. ASSUME NEW lo \in Addresses, RemoveRange(lo) PROVE RangeInv'
  BY <1>2, Unlink
<1>3. CASE FreeRangeSet
  BY <1>3, RangeAssumption
    DEF FreeRangeSet, RangeInv, RangeTypeOK, CoversItself, LinksSound
<1>4. CASE UNCHANGED rangeVars
  BY <1>4 DEF rangeVars, RangeInv, RangeTypeOK, CoversItself, LinksSound
<1> QED BY <1>1, <1>2, <1>3, <1>4 DEF RangeNext

(* For every heap, every block size and every sequence of additions and    *)
(* removals: no link of a record, and no head of the list, leads to a      *)
(* freed record, and linked records are neighbours that do not overlap.    *)
THEOREM LinksSoundHolds == RangeSpec => []LinksSound
<1>1. RangeInv => LinksSound
  BY DEF RangeInv
<1> QED BY InitInv, StepInv, <1>1, PTL DEF RangeSpec

(* What the two neighbours say of a new block is enough to refuse it. *)
LEMMA JustRefusal == RangeInv => NoFalseOverlap
<1> SUFFICES ASSUME RangeInv, NEW lo \in Addresses, NEW size \in Sizes,
                    NEW p \in live \cup {NULL}, IsNearest(p, lo), Overlaps(lo, size, p)
             PROVE  \E b \in live : Meets(lo, size, b)
  BY DEF NoFalseOverlap
<1> USE RangeAssumption
<1>1. live \subseteq Addresses /\ hi \in [Addresses -> Nat]
  BY DEF RangeInv, RangeTypeOK
<1>2. p \in live
  BY DEF Overlaps, Successor
<1>3. CASE lo <= hi[p]
  BY <1>1, <1>2, <1>3 DEF IsNearest, Meets
<1>4. CASE ~(lo <= hi[p])
  <2>1. /\ next[p] # NULL /\ lo + size - 1 >= next[p]
    BY <1>2, <1>4 DEF Overlaps, Successor
  <2>2. next[p] \in live /\ hi[p] < next[p] /\ next[p] <= hi[next[p]]
    BY <1>2, <2>1 DEF RangeInv, LinksSound, CoversItself
  <2>3. p <= hi[p]
    BY <1>2 DEF RangeInv, CoversItself
  <2>4. next[p] <= p \/ lo < next[p]
    BY <1>1, <1>2, <2>2 DEF IsNearest
  <2>5. lo <= hi[next[p]]
    <3>1. lo \in Nat /\ p \in Nat /\ next[p] \in Nat /\ hi[p] \in Nat /\ hi[next[p]] \in Nat
      BY <1>1, <1>2, <2>2
    <3> QED BY <3>1, <2>2, <2>3, <2>4
  <2> QED BY <2>1, <2>2, <2>5 DEF Meets
<1> QED BY <1>3, <1>4

(* For every heap and every reachable list, add_range refuses no block     *)
(* that is clear of all recorded ones: what the two neighbours say is      *)
(* enough for a refusal to be just.                                        *)
THEOREM NoFalseOverlapHolds == RangeSpec => []NoFalseOverlap
BY InitInv, StepInv, JustRefusal, PTL DEF RangeSpec

-----------------------------------------------------------------------------
(* The heap and its data *)
Memory == [HeapLo..HeapHi -> Addresses \cup {Junk}]
InHeap(lo, size) == HeapLo <= lo /\ lo + size - 1 <= HeapHi

(* The data of the block of the given size at b is what it was filled with. *)
Holds(mem, b, size) == \A c \in Filled(b, size) : mem[c] = b

-----------------------------------------------------------------------------
(* Units and what is filled of them *)

(* The units of a block. *)
LEMMA UnitsAre ==
  ASSUME NEW lo \in Nat, NEW size \in Nat
  PROVE  \A c : c \in Units(lo, size) <=> c \in Int /\ lo <= c /\ c < lo + size
BY DEF Units

(* Of a block at most the first MAXFILL units are filled. *)
LEMMA FilledAre ==
  ASSUME NEW lo \in Nat, NEW size \in Nat
  PROVE  /\ Filled(lo, size) \subseteq Units(lo, size)
         /\ \A c : c \in FirstFilled(lo, size) <=>
                     c \in Int /\ lo <= c /\ c < lo + size /\ c < lo + MAXFILL
         /\ FirstFilled(lo, size) \subseteq Filled(lo, size)
<1> USE CheckAssumption
<1>1. \A c : c \in Units(lo, size) <=> c \in Int /\ lo <= c /\ c < lo + size
  BY UnitsAre
<1>2. \A c : c \in Units(lo, MAXFILL) <=> c \in Int /\ lo <= c /\ c < lo + MAXFILL
  BY UnitsAre
<1>3. CASE size <= 2 * MAXFILL
  <2>1. Filled(lo, size) = Units(lo, size)
    BY <1>3 DEF Filled
  <2> QED
    BY <1>1, <1>2, <2>1 DEF FirstFilled
<1>4. CASE ~(size <= 2 * MAXFILL)
  <2>1. Filled(lo, size) = Units(lo, MAXFILL) \cup Units(lo + size - MAXFILL, MAXFILL)
    BY <1>4 DEF Filled
  <2>2. lo + size - MAXFILL \in Nat
    BY <1>4
  <2>3. \A c : c \in Units(lo + size - MAXFILL, MAXFILL)
                 <=> c \in Int /\ lo + size - MAXFILL <= c /\ c < lo + size - MAXFILL + MAXFILL
    BY <2>2, UnitsAre
  <2>4. FirstFilled(lo, size) = Units(lo, MAXFILL)
    BY <1>4 DEF FirstFilled
  <2> QED
    BY <1>1, <1>2, <1>4, <2>1, <2>3, <2>4
<1> QED
  BY <1>3, <1>4

(* What a realloc copies to the beginning comes from what was filled. *)
LEMMA FirstFilledMoved ==
  ASSUME NEW a \in Nat, NEW p \in Nat, NEW n \in Nat, NEW size \in Nat, n <= size,
         NEW c \in FirstFilled(p, n)
  PROVE  c \in Units(p, n) /\ a + c - p \in Filled(a, size)
<1> USE CheckAssumption
<1>1. c \in Int /\ p <= c /\ c < p + n /\ c < p + MAXFILL
  BY FilledAre
<1>2. c \in Units(p, n)
  BY <1>1, UnitsAre
<1>3. a + c - p \in FirstFilled(a, size)
  <2>1. a + c - p \in Int /\ a <= a + c - p /\ a + c - p < a + size /\ a + c - p < a + MAXFILL
    BY <1>1
  <2> QED
    BY <2>1, FilledAre
<1> QED
  BY <1>2, <1>3, FilledAre

(* A block in the heap is filled inside of it. *)
LEMMA FilledInHeap ==
  ASSUME NEW lo \in Nat, NEW size \in Nat, InHeap(lo, size)
  PROVE  Units(lo, size) \subseteq HeapLo..HeapHi /\ Filled(lo, size) \subseteq HeapLo..HeapHi
BY UnitsAre, FilledAre, CheckAssumption DEF InHeap

-----------------------------------------------------------------------------
(* What the writes to memory leave of a block's data *)

(* What a fill and a forgetting leave in memory. *)
LEMMA WritesTyped ==
  ASSUME NEW mem \in Memory, NEW a
  PROVE  /\ Forgotten(mem, a) \in Memory
         /\ \A c \in HeapLo..HeapHi : Forgotten(mem, a)[c] = IF mem[c] = a THEN Junk ELSE mem[c]
         /\ \A size : a \in Addresses => Randomized(mem, a, size) \in Memory
         /\ \A size : \A c \in HeapLo..HeapHi :
              Randomized(mem, a, size)[c] =
                IF c \in Filled(a, size) THEN a ELSE IF mem[c] = a THEN Junk ELSE mem[c]
BY DEF Memory, Forgotten, Randomized

(* Filling a block breaks the data of exactly the blocks it meets. *)
LEMMA FillOther ==
  ASSUME NEW mem \in Memory, NEW p \in Addresses, NEW s \in Nat,
         NEW b \in Addresses, NEW r \in Nat, b # p, InHeap(b, r)
  PROVE  /\ Filled(p, s) \cap Filled(b, r) # {} => ~Holds(Randomized(mem, p, s), b, r)
         /\ Filled(p, s) \cap Filled(b, r) = {}
              => (Holds(Randomized(mem, p, s), b, r) <=> Holds(mem, b, r))
<1>1. Filled(b, r) \subseteq HeapLo..HeapHi
  BY FilledInHeap, RangeAssumption
<1>2. Junk # b
  BY CheckAssumption
<1> QED
  BY <1>1, <1>2, WritesTyped DEF Holds

(* A filled block holds its own data. *)
LEMMA FillOwn ==
  ASSUME NEW mem \in Memory, NEW p \in Addresses, NEW s \in Nat, InHeap(p, s)
  PROVE  Holds(Randomized(mem, p, s), p, s)
BY FilledInHeap, RangeAssumption, WritesTyped DEF Holds

(* Forgetting one block leaves the data of the others. *)
LEMMA ForgetOther ==
  ASSUME NEW mem \in Memory, NEW a, NEW b \in Addresses, NEW r \in Nat, b # a, InHeap(b, r)
  PROVE  Holds(Forgotten(mem, a), b, r) <=> Holds(mem, b, r)
<1>1. Filled(b, r) \subseteq HeapLo..HeapHi
  BY FilledInHeap, RangeAssumption
<1>2. Junk # b
  BY CheckAssumption
<1> QED
  BY <1>1, <1>2, WritesTyped DEF Holds

(* The copy of a realloc, cell by cell. *)
LEMMA CopiedCells ==
  ASSUME memory \in Memory, NEW a \in Addresses \cup {NULL}, NEW p, NEW n, NEW lost,
         a = NULL => n = 0
  PROVE  /\ Copied(a, p, n, lost) \in Memory
         /\ \A c \in HeapLo..HeapHi : c \notin Units(p, n) =>
              Copied(a, p, n, lost)[c] = IF memory[c] = a THEN Junk ELSE memory[c]
         /\ \A c \in HeapLo..HeapHi : c \in Units(p, n) =>
              /\ Copied(a, p, n, lost)[c] \in {a, Junk}
              /\ c \in lost => Copied(a, p, n, lost)[c] = Junk
              /\ c \notin lost /\ memory[a + c - p] = a => Copied(a, p, n, lost)[c] = a
<1>1. DOMAIN memory = HeapLo..HeapHi
  BY DEF Memory
<1>2. a = NULL => Units(p, n) = {}
  BY DEF Units
<1>3. \A c \in HeapLo..HeapHi :
        Copied(a, p, n, lost)[c] =
          IF c \notin Units(p, n) THEN Forgotten(memory, a)[c]
          ELSE IF c \in lost \/ memory[a + c - p] # a THEN Junk ELSE a
  BY <1>1 DEF Copied
<1>4. \A c \in HeapLo..HeapHi :
        /\ Forgotten(memory, a)[c] = IF memory[c] = a THEN Junk ELSE memory[c]
        /\ Forgotten(memory, a)[c] \in Addresses \cup {Junk}
  <2>1. \A c \in HeapLo..HeapHi : memory[c] \in Addresses \cup {Junk}
    BY DEF Memory
  <2>2. \A c \in HeapLo..HeapHi :
          Forgotten(memory, a)[c] = IF memory[c] = a THEN Junk ELSE memory[c]
    BY WritesTyped
  <2> QED
    BY <2>1, <2>2
<1>5. Copied(a, p, n, lost) = [c \in HeapLo..HeapHi |-> Copied(a, p, n, lost)[c]]
  BY <1>1 DEF Copied
<1>6. \A c \in HeapLo..HeapHi : Copied(a, p, n, lost)[c] \in Addresses \cup {Junk}
  BY <1>2, <1>3, <1>4
<1> QED
  BY <1>3, <1>4, <1>5, <1>6 DEF Memory

(* What realloc copies disturbs no block that it does not overlap. *)
LEMMA CopyOther ==
  ASSUME memory \in Memory, NEW a \in Addresses \cup {NULL}, NEW p, NEW n, NEW lost,
         a = NULL => n = 0,
         NEW b \in Addresses, NEW r \in Nat, b # a, InHeap(b, r)
  PROVE  /\ Holds(Copied(a, p, n, lost), b, r) => Holds(memory, b, r)
         /\ Units(p, n) \cap Units(b, r) = {} /\ Holds(memory, b, r)
              => Holds(Copied(a, p, n, lost), b, r)
<1>1. Filled(b, r) \subseteq HeapLo..HeapHi /\ Filled(b, r) \subseteq Units(b, r)
  BY FilledInHeap, FilledAre, RangeAssumption
<1>2. Junk # b
  BY CheckAssumption
<1> DEFINE after == Copied(a, p, n, lost)
<1>3. /\ \A c \in HeapLo..HeapHi : c \notin Units(p, n) =>
           after[c] = IF memory[c] = a THEN Junk ELSE memory[c]
      /\ \A c \in HeapLo..HeapHi : c \in Units(p, n) => after[c] \in {a, Junk}
  BY CopiedCells
<1> HIDE DEF after
<1>4. Holds(after, b, r) => Holds(memory, b, r)
  <2> SUFFICES ASSUME Holds(after, b, r), NEW c \in Filled(b, r) PROVE memory[c] = b
    BY DEF Holds
  <2>1. after[c] = b /\ c \in HeapLo..HeapHi
    BY <1>1 DEF Holds
  <2> QED
    BY <1>2, <1>3, <2>1
<1>5. Units(p, n) \cap Units(b, r) = {} /\ Holds(memory, b, r) => Holds(after, b, r)
  BY <1>1, <1>3 DEF Holds
<1> QED
  BY <1>4, <1>5 DEF after

-----------------------------------------------------------------------------
(* The invariant *)

Faults == {"bad", "overlap", "hidden", "garbled"}
Moved == Least(moving.size, SizeOf(moving.from))

TypeInv ==
  /\ verdict \in {"running", "valid", "invalid"}
  /\ block_sizes \in [Addresses -> Nat]
  /\ memory \in Memory
  /\ moving \in [busy : BOOLEAN, from : Addresses \cup {NULL}, to : Addresses \cup {NULL},
                 size : Sizes \cup {0}]
  /\ faults \subseteq Faults

(* The records are the blocks that are not on the move. *)
Bookkeeping ==
  /\ live = blocks \ {moving.from}
  /\ \A a \in live : hi[a] = a + block_sizes[a] - 1
  /\ moving.from \in blocks \cup {NULL}
  /\ ~moving.busy => moving.from = NULL
  /\ moving.busy => ((moving.to = NULL) <=> (moving.size = 0))
  /\ \A a \in blocks : InHeap(a, block_sizes[a])

(* A fault that the driver must find is still to be seen in the data.       *)
Evidence ==
  /\ "bad" \notin faults
  /\ "overlap" \in faults => \E b \in live : ~Holds(memory, b, block_sizes[b])
  /\ "garbled" \in faults =>
       /\ moving.busy /\ moving.from \in blocks /\ moving.size > 0
       /\ \E c \in FirstFilled(moving.to, Moved) : c \in HeapLo..HeapHi => memory[c] # moving.from

(* Without a fault all data is there, but for what an overlap that is about *)
(* to be a fault has overwritten.                                           *)
Innocence ==
  faults = {} =>
    /\ \A b \in live :
         \/ Holds(memory, b, block_sizes[b])
         \/ moving.busy /\ Units(moving.to, Moved) \cap Units(b, block_sizes[b]) # {}
    /\ moving.busy =>
         \A c \in FirstFilled(moving.to, Moved) : c \in HeapLo..HeapHi => memory[c] = moving.from

CheckInv ==
  /\ TypeInv
  /\ VerdictRight
  /\ verdict = "running" => Bookkeeping /\ Evidence /\ Innocence

(* check_index passes when the block holds its data. *)
LEMMA IntactHolds ==
  ASSUME TypeInv
  PROVE  /\ Intact(NULL)
         /\ \A a \in Addresses : Intact(a) <=> Holds(memory, a, block_sizes[a])
<1>1. 0 <= 2 * MAXFILL
  BY CheckAssumption
<1>2. Filled(NULL, SizeOf(NULL)) = {}
  BY <1>1 DEF Filled, SizeOf, Units
<1> QED
  BY <1>2, RangeAssumption DEF Intact, Holds, SizeOf

(* The invariants hold before the trace. *)
LEMMA InitCheck == CheckInit => CheckInv /\ RangeInv
<1> SUFFICES ASSUME CheckInit PROVE CheckInv /\ RangeInv
  OBVIOUS
<1>1. RangeInv
  BY InitInv DEF CheckInit
<1>2. TypeInv
  BY DEF CheckInit, TypeInv, Memory, StandsStill
<1>3. blocks = {} /\ live = {} /\ moving.from = NULL /\ ~moving.busy /\ faults = {}
  BY DEF CheckInit, RangeInit, StandsStill, blocks
<1>4. Bookkeeping /\ Evidence /\ Innocence
  BY <1>3 DEF Bookkeeping, Evidence, Innocence
<1>5. VerdictRight
  BY DEF CheckInit, VerdictRight
<1> QED
  BY <1>1, <1>2, <1>4, <1>5 DEF CheckInv

(* The invariant depends on these variables only. *)
LEMMA CheckInvKept ==
  ASSUME CheckInv, UNCHANGED <<verdict, block_sizes, moving, memory, faults, live, hi>>
  PROVE  CheckInv'
BY DEF CheckInv, TypeInv, VerdictRight, Bookkeeping, Evidence, Innocence, Moved, SizeOf, blocks

(* A refusal is right when the allocator has done something wrong. *)
LEMMA Refused ==
  ASSUME CheckInv, Invalid, faults' # {}, faults' \subseteq Faults
  PROVE  CheckInv'
<1>1. TypeInv'
  BY DEF CheckInv, Invalid, TypeInv, Memory, StandsStill
<1> QED
  BY <1>1 DEF CheckInv, VerdictRight, Invalid

-----------------------------------------------------------------------------
(* What the allocator's answer is worth *)

(* Each fault of an allocator, and what it is to have none. *)
LEMMA FaultsMean ==
  ASSUME NEW p \in Addresses \cup {NULL}, NEW size \in Sizes, NEW others
  PROVE  /\ FaultsOf(p, size, others) \subseteq Faults
         /\ "garbled" \notin FaultsOf(p, size, others)
         /\ "bad" \in FaultsOf(p, size, others) <=> ~Placeable(p, size)
         /\ "overlap" \in FaultsOf(p, size, others) =>
              \E b \in others : Filled(p, size) \cap Filled(b, block_sizes[b]) # {}
         /\ FaultsOf(p, size, others) = {} =>
              \A b \in others : Units(p, size) \cap Units(b, block_sizes[b]) = {}
<1> USE CheckAssumption, RangeAssumption
<1> DEFINE bad == p = NULL \/ p % ALIGNMENT # 0 \/ p < HeapLo \/ p + size - 1 > HeapHi
           met == {b \in others : Units(p, size) \cap Units(b, block_sizes[b]) # {}}
           kind(b) == IF Filled(p, size) \cap Filled(b, block_sizes[b]) # {}
                      THEN "overlap" ELSE "hidden"
<1>1. bad <=> ~Placeable(p, size)
  BY DEF Placeable
<1>2. FaultsOf(p, size, others) = IF bad THEN {"bad"} ELSE {kind(b) : b \in met}
  BY DEF FaultsOf
<1>3. \A b \in met : kind(b) \in {"overlap", "hidden"}
  OBVIOUS
<1> HIDE DEF bad
<1>4. CASE bad
  BY <1>1, <1>2, <1>4 DEF Faults
<1>5. CASE ~bad
  <2>1. FaultsOf(p, size, others) = {kind(b) : b \in met}
    BY <1>2, <1>5
  <2>2. "overlap" \in {kind(b) : b \in met} =>
          \E b \in others : Filled(p, size) \cap Filled(b, block_sizes[b]) # {}
    OBVIOUS
  <2> HIDE DEF kind
  <2>3. {kind(b) : b \in met} = {} => met = {}
    OBVIOUS
  <2>4. met = {} => \A b \in others : Units(p, size) \cap Units(b, block_sizes[b]) = {}
    OBVIOUS
  <2> HIDE DEF met
  <2> QED
    BY <1>1, <1>3, <1>5, <2>1, <2>2, <2>3, <2>4 DEF Faults
<1> QED
  BY <1>4, <1>5

(* What add_range accepts lies in the heap and is recorded nowhere. *)
LEMMA AcceptedIsNew ==
  ASSUME RangeInv, NEW p \in Addresses \cup {NULL}, NEW size \in Sizes,
         NEW near \in live \cup {NULL}, Finds(near, p), Accepts(p, size, near)
  PROVE  p \in Addresses /\ p \notin live /\ InHeap(p, size) /\ IsNearest(near, p)
         /\ ~Overlaps(p, size, near)
<1>1. p \in Addresses /\ IsNearest(near, p) /\ ~Overlaps(p, size, near)
  BY DEF Accepts, Placeable, Finds
<1>2. HeapLo <= p /\ p + size - 1 <= HeapHi
  BY <1>1, RangeAssumption, CheckAssumption DEF Accepts, Placeable
<1> QED
  BY <1>1, <1>2, NewAddress DEF InHeap

(* What it refuses is misplaced or meets a recorded block. *)
LEMMA RefusedIsFault ==
  ASSUME RangeInv, TypeInv, \A a \in live : hi[a] = a + block_sizes[a] - 1,
         NEW p \in Addresses \cup {NULL}, NEW size \in Sizes,
         NEW near \in live \cup {NULL}, Finds(near, p), ~Accepts(p, size, near)
  PROVE  FaultsOf(p, size, live) # {}
<1> USE RangeAssumption
<1>1. CASE ~Placeable(p, size)
  BY <1>1, FaultsMean
<1>2. CASE Placeable(p, size)
  <2>1. p \in Addresses /\ IsNearest(near, p) /\ Overlaps(p, size, near)
    BY <1>2 DEF Accepts, Placeable, Finds
  <2>2. PICK b \in live : Meets(p, size, b)
    BY <2>1, JustRefusal DEF NoFalseOverlap
  <2>3. b \in Addresses /\ block_sizes[b] \in Nat /\ hi[b] = b + block_sizes[b] - 1 /\ b <= hi[b]
    BY DEF RangeInv, RangeTypeOK, TypeInv, CoversItself
  <2>4. p <= b + block_sizes[b] - 1 /\ b <= p + size - 1
    BY <2>2, <2>3 DEF Meets
  <2> DEFINE c == IF p <= b THEN b ELSE p
  <2>5. c \in Int /\ p <= c /\ c < p + size /\ b <= c /\ c < b + block_sizes[b]
    BY <2>1, <2>3, <2>4
  <2> HIDE DEF c
  <2>6. c \in Units(p, size) /\ c \in Units(b, block_sizes[b])
    BY <2>1, <2>3, <2>5, UnitsAre
  <2> QED
    BY <2>6, FaultsMean
<1> QED
  BY <1>1, <1>2

-----------------------------------------------------------------------------
(* The steps *)

(* What stores through a block's index leave of the sizes. *)
LEMMA SizesStored ==
  ASSUME NEW f \in [Addresses -> Nat], NEW a, NEW v \in Nat
  PROVE  /\ Store(f, a, v) \in [Addresses -> Nat]
         /\ \A b \in Addresses : Store(f, a, v)[b] = IF b = a THEN v ELSE f[b]
BY DEF Store

(* An accepted block at p, with memory filled from mem: what was seen of    *)
(* the other blocks is still to be seen, and an overlap has left its mark.  *)
LEMMA FilledBeside ==
  ASSUME TypeInv, NEW mem \in Memory, NEW p \in Addresses, NEW size \in Sizes,
         NEW others \in SUBSET Addresses, p \notin others, InHeap(p, size),
         \A b \in others : InHeap(b, block_sizes[b])
  PROVE  /\ Holds(Randomized(mem, p, size), p, size)
         /\ "overlap" \in FaultsOf(p, size, others) =>
              \E b \in others : ~Holds(Randomized(mem, p, size), b, block_sizes[b])
         /\ FaultsOf(p, size, others) = {} =>
              \A b \in others : Holds(Randomized(mem, p, size), b, block_sizes[b])
                                  <=> Holds(mem, b, block_sizes[b])
<1> USE RangeAssumption
<1>1. size \in Nat /\ block_sizes \in [Addresses -> Nat]
  BY DEF TypeInv
<1>2. Holds(Randomized(mem, p, size), p, size)
  BY <1>1, FillOwn
<1>3. ASSUME NEW b \in others
      PROVE  /\ Filled(p, size) \cap Filled(b, block_sizes[b]) # {}
                  => ~Holds(Randomized(mem, p, size), b, block_sizes[b])
             /\ Filled(p, size) \cap Filled(b, block_sizes[b]) = {}
                  => (Holds(Randomized(mem, p, size), b, block_sizes[b])
                        <=> Holds(mem, b, block_sizes[b]))
  <2>1. b \in Addresses /\ b # p /\ block_sizes[b] \in Nat /\ InHeap(b, block_sizes[b])
    BY <1>1
  <2> QED
    BY <1>1, <2>1, FillOther
<1>4. ASSUME NEW b \in others, Units(p, size) \cap Units(b, block_sizes[b]) = {}
      PROVE  Filled(p, size) \cap Filled(b, block_sizes[b]) = {}
  <2>1. p \in Nat /\ b \in Nat /\ block_sizes[b] \in Nat
    BY <1>1
  <2>2. Filled(p, size) \subseteq Units(p, size)
        /\ Filled(b, block_sizes[b]) \subseteq Units(b, block_sizes[b])
    BY <1>1, <2>1, FilledAre
  <2> QED
    BY <1>4, <2>2
<1>5. /\ "overlap" \in FaultsOf(p, size, others) =>
           \E b \in others : Filled(p, size) \cap Filled(b, block_sizes[b]) # {}
      /\ FaultsOf(p, size, others) = {} =>
           \A b \in others : Units(p, size) \cap Units(b, block_sizes[b]) = {}
  BY FaultsMean
<1> QED
  BY <1>2, <1>3, <1>4, <1>5

(* An allocation keeps the invariant. *)
LEMMA AllocStep ==
  ASSUME CheckInv, RangeInv, NEW size \in Sizes, NEW p \in Addresses \cup {NULL},
         NEW near \in live \cup {NULL}, Finds(near, p), Alloc(size, p, near)
  PROVE  CheckInv'
<1> USE RangeAssumption
<1> DEFINE misbehaves == FaultsOf(p, size, blocks)
<1>1. /\ verdict = "running" /\ ~moving.busy
      /\ faults # {} => misbehaves = {}
      /\ faults' = faults \cup misbehaves
  BY DEF Alloc, Ready, Answers
<1>2. TypeInv /\ Bookkeeping /\ Evidence /\ Innocence /\ VerdictRight
  BY <1>1 DEF CheckInv
<1>3. moving.from = NULL /\ live = blocks /\ live \subseteq Addresses
  BY <1>1, <1>2 DEF Bookkeeping, blocks
<1>4. misbehaves \subseteq Faults /\ faults' \subseteq Faults
  BY <1>1, <1>2, FaultsMean DEF TypeInv
<1> HIDE DEF misbehaves
<1>5. CASE ~Accepts(p, size, near) /\ Invalid
  <2>1. misbehaves # {}
    BY <1>2, <1>3, <1>5, RefusedIsFault DEF misbehaves, Bookkeeping
  <2> QED
    BY <1>1, <1>4, <1>5, <2>1, Refused
<1>6. CASE Accepts(p, size, near) /\ ~Invalid
  <2> DEFINE after == Randomized(memory, p, size)
  <2>1. /\ AddRange(p, size, near)
        /\ block_sizes' = [block_sizes EXCEPT ![p] = size]
        /\ memory' = after
        /\ verdict' = verdict /\ moving' = moving
    BY <1>6 DEF Alloc
  <2>2. p \in Addresses /\ p \notin live /\ InHeap(p, size)
    BY <1>6, AcceptedIsNew
  <2>3. /\ memory \in Memory /\ block_sizes \in [Addresses -> Nat] /\ size \in Nat /\ size > 0
        /\ \A b \in live : InHeap(b, block_sizes[b])
    BY <1>2, <1>3 DEF TypeInv, Bookkeeping
  <2>4. /\ block_sizes' \in [Addresses -> Nat] /\ block_sizes'[p] = size
        /\ \A b \in Addresses : b # p => block_sizes'[b] = block_sizes[b]
    BY <2>1, <2>2, <2>3
  <2>5. blocks' = blocks \cup {p}
    BY <2>2, <2>3, <2>4 DEF blocks
  <2>6. live' = live \cup {p} /\ \A a \in live' : hi'[a] = IF a = p THEN p + size - 1 ELSE hi[a]
    <3>1. live' = live \cup {p} /\ hi' = Store(hi, p, p + size - 1)
      BY <2>1 DEF AddRange, Link
    <3>2. hi \in [Addresses -> Nat] /\ p + size - 1 \in Nat
      BY <2>2, <2>3 DEF RangeInv, RangeTypeOK
    <3> QED
      BY <1>3, <2>2, <3>1, <3>2, StoreHi
  <2>7. after \in Memory
    BY <2>2, <2>3, WritesTyped
  <2>8. /\ Holds(after, p, size)
        /\ "overlap" \in misbehaves => \E b \in live : ~Holds(after, b, block_sizes[b])
        /\ misbehaves = {} =>
             \A b \in live : Holds(after, b, block_sizes[b]) <=> Holds(memory, b, block_sizes[b])
    BY <1>2, <1>3, <2>2, <2>3, FilledBeside DEF misbehaves
  <2> HIDE DEF after
  <2>9. TypeInv'
    BY <1>2, <1>4, <2>1, <2>4, <2>7 DEF TypeInv
  <2>10. \A b \in live : b \in Addresses /\ b # p /\ b \in live' /\ block_sizes'[b] = block_sizes[b]
    BY <1>3, <2>2, <2>4, <2>6
  <2>11. Bookkeeping'
    <3>1. \A a \in live' : hi'[a] = a + block_sizes'[a] - 1
      BY <1>2, <2>4, <2>6, <2>10 DEF Bookkeeping
    <3>2. \A a \in blocks' : InHeap(a, block_sizes'[a])
      BY <1>3, <2>2, <2>3, <2>4, <2>5, <2>10
    <3>3. live' = blocks' \ {moving'.from}
      BY <1>3, <2>1, <2>2, <2>5, <2>6
    <3> QED
      BY <1>1, <1>3, <2>1, <3>1, <3>2, <3>3 DEF Bookkeeping
  <2>12. Evidence'
    <3>1. "bad" \notin misbehaves /\ "garbled" \notin misbehaves
      BY <1>6, FaultsMean DEF misbehaves, Accepts
    <3>2. "garbled" \notin faults
      BY <1>1, <1>2 DEF Evidence
    <3>3. "overlap" \in faults' => \E b \in live : ~Holds(after, b, block_sizes[b])
      BY <1>1, <1>2, <2>8 DEF Evidence
    <3>4. "overlap" \in faults' => \E b \in live' : ~Holds(memory', b, block_sizes'[b])
      BY <2>1, <2>10, <3>3
    <3> QED
      BY <1>1, <1>2, <3>1, <3>2, <3>4 DEF Evidence
  <2>13. Innocence'
    <3> SUFFICES ASSUME faults' = {} PROVE Innocence'
      BY DEF Innocence
    <3>1. faults = {} /\ misbehaves = {}
      BY <1>1
    <3>2. \A b \in live : Holds(memory, b, block_sizes[b])
      BY <1>1, <1>2, <3>1 DEF Innocence
    <3>3. \A b \in live' : Holds(memory', b, block_sizes'[b])
      BY <2>1, <2>4, <2>6, <2>8, <2>10, <3>1, <3>2
    <3> QED
      BY <1>1, <2>1, <3>3 DEF Innocence
  <2> QED
    BY <1>1, <2>1, <2>9, <2>11, <2>12, <2>13 DEF CheckInv, VerdictRight
<1> QED
  <2>1. Invalid => verdict' = "invalid"
    BY DEF Invalid
  <2> QED
    BY <1>1, <1>5, <1>6, <2>1 DEF Alloc

(* REALLOC, from add_range on. *)
LEMMA ReallocToStep ==
  ASSUME CheckInv, RangeInv, NEW near \in live \cup {NULL}, Finds(near, moving.to),
         ReallocTo(near)
  PROVE  CheckInv'
<1> USE RangeAssumption
<1>0. PICK a, p, size, n : a = moving.from /\ p = moving.to /\ size = moving.size /\ n = Moved
  OBVIOUS
<1> DEFINE misbehaves == FaultsOf(p, size, blocks \ {a})
           copied == \A c \in FirstFilled(p, n) : memory[c] = a
<1>1. verdict = "running" /\ moving.busy
  BY DEF ReallocTo
<1>2. TypeInv /\ Bookkeeping /\ Evidence /\ Innocence /\ VerdictRight
  BY <1>1 DEF CheckInv
<1>3. /\ a \in Addresses \cup {NULL} /\ p \in Addresses \cup {NULL} /\ size \in Sizes \cup {0}
      /\ block_sizes \in [Addresses -> Nat] /\ memory \in Memory
  BY <1>0, <1>2 DEF TypeInv
<1>4. /\ live = blocks \ {a} /\ live \subseteq Addresses /\ a \notin live
      /\ \A b \in live : InHeap(b, block_sizes[b])
  BY <1>0, <1>2 DEF Bookkeeping, blocks
<1>5. n \in Nat /\ n <= size /\ size \in Nat
  <2>1. size \in Nat
    BY <1>3
  <2>2. SizeOf(a) \in Nat
    BY <1>3 DEF SizeOf
  <2>3. n = Least(size, SizeOf(a))
    BY <1>0 DEF Moved
  <2> QED
    BY <2>1, <2>2, <2>3 DEF Least
<1>seen. /\ "bad" \notin faults
         /\ "overlap" \in faults => \E b \in live : ~Holds(memory, b, block_sizes[b])
         /\ "garbled" \in faults =>
              size > 0 /\ \E c \in FirstFilled(p, n) : c \in HeapLo..HeapHi => memory[c] # a
  BY <1>0, <1>2 DEF Evidence
<1>kept. faults = {} =>
           /\ \A b \in live : \/ Holds(memory, b, block_sizes[b])
                              \/ Units(p, n) \cap Units(b, block_sizes[b]) # {}
           /\ \A c \in FirstFilled(p, n) : c \in HeapLo..HeapHi => memory[c] = a
  BY <1>0, <1>1, <1>2 DEF Innocence
<1>left. \A x : x \in blocks' <=> x \in Addresses /\ block_sizes'[x] > 0
  BY DEF blocks
<1>6. /\ Store(block_sizes, a, 0) \in [Addresses -> Nat]
      /\ \A b \in Addresses : Store(block_sizes, a, 0)[b] = IF b = a THEN 0 ELSE block_sizes[b]
  BY <1>3, SizesStored
<1>7. /\ Forgotten(memory, a) \in Memory
      /\ \A b \in live : Holds(Forgotten(memory, a), b, block_sizes[b])
                           <=> Holds(memory, b, block_sizes[b])
  BY <1>3, <1>4, WritesTyped, ForgetOther
<1>8. \A x : StandsStill.from = NULL /\ ~StandsStill.busy
             /\ StandsStill \in [busy : BOOLEAN, from : Addresses \cup {NULL},
                                 to : Addresses \cup {NULL}, size : Sizes \cup {0}]
  BY DEF StandsStill
(* A realloc to size 0 has freed the block. *)
<1>9. CASE size = 0 /\ UNCHANGED <<verdict, faults, rangeVars>>
           /\ block_sizes' = Store(block_sizes, a, 0) /\ memory' = Forgotten(memory, a)
           /\ moving' = StandsStill
  <2>1. live' = live /\ hi' = hi /\ faults' = faults /\ verdict' = verdict
    BY <1>9 DEF rangeVars
  <2>2. \A b \in live : b \in Addresses /\ b # a /\ block_sizes'[b] = block_sizes[b]
    BY <1>4, <1>6, <1>9
  <2>3. blocks' = live
    <3>1. \A x : x \in live <=> x \in Addresses /\ block_sizes[x] > 0 /\ x # a
      BY <1>4 DEF blocks
    <3>2. \A x : x \in live <=> x \in Addresses /\ block_sizes'[x] > 0
      <4> SUFFICES ASSUME NEW x \in Addresses
                   PROVE  x \in live <=> block_sizes'[x] > 0
        BY <3>1
      <4>1. block_sizes'[x] = IF x = a THEN 0 ELSE block_sizes[x]
        BY <1>6, <1>9
      <4> QED
        BY <3>1, <4>1
    <3> QED
      BY <1>left, <3>2
  <2>4. TypeInv'
    BY <1>2, <1>6, <1>7, <1>8, <1>9, <2>1 DEF TypeInv
  <2>5. Bookkeeping'
    <3>1. \A b \in live' : hi'[b] = b + block_sizes'[b] - 1
      BY <1>2, <2>1, <2>2 DEF Bookkeeping
    <3>2. \A b \in blocks' : InHeap(b, block_sizes'[b])
      BY <1>4, <2>2, <2>3
    <3>3. live' = blocks' \ {moving'.from}
      BY <1>4, <1>8, <1>9, <2>1, <2>3
    <3> QED
      BY <1>8, <1>9, <3>1, <3>2, <3>3 DEF Bookkeeping
  <2>6. Evidence'
    <3>1. "garbled" \notin faults
      BY <1>seen, <1>9
    <3>2. "overlap" \in faults' => \E b \in live' : ~Holds(memory', b, block_sizes'[b])
      BY <1>seen, <1>7, <1>9, <2>1, <2>2
    <3> QED
      BY <1>2, <2>1, <3>1, <3>2 DEF Evidence
  <2>7. Innocence'
    <3> SUFFICES ASSUME faults' = {} PROVE Innocence'
      BY DEF Innocence
    <3>1. Units(p, n) = {}
      BY <1>5, <1>9 DEF Units
    <3>2. \A b \in live' : Holds(memory', b, block_sizes'[b])
      BY <1>kept, <1>7, <1>9, <2>1, <2>2, <3>1
    <3> QED
      BY <1>8, <1>9, <3>2 DEF Innocence
  <2> QED
    BY <1>1, <2>1, <2>4, <2>5, <2>6, <2>7 DEF CheckInv, VerdictRight
<1>10. ASSUME size > 0
       PROVE  /\ p \in Addresses /\ size \in Sizes
              /\ misbehaves \subseteq Faults
              /\ (~Accepts(p, size, near) => misbehaves # {})
              /\ Accepts(p, size, near) =>
                   /\ p \notin live /\ InHeap(p, size)
                   /\ FirstFilled(p, n) \subseteq HeapLo..HeapHi
  <2>1. p \in Addresses /\ size \in Sizes
    BY <1>0, <1>1, <1>2, <1>3, <1>10 DEF Bookkeeping
  <2>2. ~Accepts(p, size, near) => misbehaves # {}
    BY <1>0, <1>2, <1>4, <2>1, RefusedIsFault DEF Bookkeeping
  <2>3. ASSUME Accepts(p, size, near) PROVE p \notin live /\ InHeap(p, size)
    BY <1>0, <2>1, <2>3, AcceptedIsNew
  <2>4. ASSUME InHeap(p, size) PROVE FirstFilled(p, n) \subseteq HeapLo..HeapHi
    <3>1. InHeap(p, n)
      BY <1>5, <2>1, <2>4, CheckAssumption DEF InHeap
    <3>2. FirstFilled(p, n) \subseteq Filled(p, n)
      BY <1>5, <2>1, FilledAre
    <3> QED
      BY <1>5, <2>1, <3>1, <3>2, FilledInHeap
  <2> QED
    BY <2>1, <2>2, <2>3, <2>4, FaultsMean
<1> HIDE DEF misbehaves
(* Refused: misplaced, overlapping, or the copy is garbled. *)
<1>11. CASE size > 0 /\ faults' = faults \cup misbehaves
            /\ ~(Accepts(p, size, near) /\ copied) /\ Invalid
  <2>1. faults' \subseteq Faults
    BY <1>2, <1>10, <1>11 DEF TypeInv
  <2>2. faults' # {}
    <3> SUFFICES ASSUME faults = {}, misbehaves = {} PROVE FALSE
      BY <1>11
    <3>1. Accepts(p, size, near)
      BY <1>10, <1>11
    <3>2. copied
      BY <1>kept, <1>10, <1>11, <3>1
    <3> QED
      BY <1>11, <3>1, <3>2
  <2> QED
    BY <1>11, <2>1, <2>2, Refused
<1>12. CASE /\ size > 0 /\ (faults # {} => misbehaves = {}) /\ faults' = faults \cup misbehaves
            /\ Accepts(p, size, near) /\ copied
            /\ AddRange(p, size, near)
            /\ block_sizes' = Store(Store(block_sizes, a, 0), p, size)
            /\ memory' = Randomized(Forgotten(memory, a), p, size)
            /\ moving' = StandsStill /\ verdict' = verdict
  <2> DEFINE after == Randomized(Forgotten(memory, a), p, size)
  <2>1. p \in Addresses /\ size \in Sizes /\ p \notin live /\ InHeap(p, size) /\ size \in Nat
    BY <1>10, <1>12
  <2>2. /\ block_sizes' \in [Addresses -> Nat] /\ block_sizes'[p] = size
        /\ \A b \in Addresses : b # p =>
             block_sizes'[b] = IF b = a THEN 0 ELSE block_sizes[b]
    BY <1>6, <1>12, <2>1, SizesStored
  <2>3. \A b \in live : b \in Addresses /\ b # p /\ b # a /\ block_sizes'[b] = block_sizes[b]
    BY <1>4, <2>1, <2>2
  <2>4. live' = live \cup {p} /\ \A b \in live' : hi'[b] = IF b = p THEN p + size - 1 ELSE hi[b]
    <3>1. live' = live \cup {p} /\ hi' = Store(hi, p, p + size - 1)
      BY <1>12 DEF AddRange, Link
    <3>2. hi \in [Addresses -> Nat] /\ p + size - 1 \in Nat
      BY <1>12, <2>1 DEF RangeInv, RangeTypeOK
    <3> QED
      BY <1>4, <2>1, <3>1, <3>2, StoreHi
  <2>5. blocks' = live \cup {p}
    <3>1. \A x : x \in live <=> x \in Addresses /\ block_sizes[x] > 0 /\ x # a
      BY <1>4 DEF blocks
    <3>2. \A x : x \in live \cup {p} <=> x \in Addresses /\ block_sizes'[x] > 0
      <4> SUFFICES ASSUME NEW x \in Addresses
                   PROVE  x \in live \cup {p} <=> block_sizes'[x] > 0
        BY <2>1, <3>1
      <4>1. CASE x = p
        BY <2>1, <2>2, <4>1
      <4>2. CASE x # p
        <5>1. block_sizes'[x] = IF x = a THEN 0 ELSE block_sizes[x]
          BY <2>2, <4>2
        <5> QED
          BY <3>1, <4>2, <5>1
      <4> QED
        BY <4>1, <4>2
    <3> QED
      BY <1>left, <3>2
  <2>6. after \in Memory
    BY <1>7, <2>1, WritesTyped
  <2>7. /\ Holds(after, p, size)
        /\ "overlap" \in misbehaves => \E b \in live : ~Holds(after, b, block_sizes[b])
        /\ misbehaves = {} =>
             \A b \in live : Holds(after, b, block_sizes[b])
                               <=> Holds(Forgotten(memory, a), b, block_sizes[b])
    BY <1>2, <1>4, <1>7, <2>1, FilledBeside DEF misbehaves
  <2>8. memory' = after
    BY <1>12
  <2> HIDE DEF after
  <2>9. TypeInv'
    BY <1>2, <1>8, <1>10, <1>12, <2>2, <2>6, <2>8 DEF TypeInv
  <2>10. Bookkeeping'
    <3>1. \A b \in live' : hi'[b] = b + block_sizes'[b] - 1
      BY <1>2, <2>2, <2>3, <2>4 DEF Bookkeeping
    <3>2. \A b \in blocks' : InHeap(b, block_sizes'[b])
      BY <1>4, <2>1, <2>2, <2>3, <2>5
    <3>3. live' = blocks' \ {moving'.from}
      BY <1>4, <1>8, <1>12, <2>1, <2>4, <2>5
    <3> QED
      BY <1>8, <1>12, <3>1, <3>2, <3>3 DEF Bookkeeping
  <2>11. Evidence'
    <3>1. "bad" \notin misbehaves /\ "garbled" \notin misbehaves
      BY <1>12, <2>1, FaultsMean DEF misbehaves, Accepts
    <3>2. "garbled" \notin faults
      <4> SUFFICES ASSUME "garbled" \in faults PROVE FALSE
        OBVIOUS
      <4>1. PICK c \in FirstFilled(p, n) : c \in HeapLo..HeapHi => memory[c] # a
        BY <1>seen
      <4> QED
        BY <1>10, <1>12, <4>1
    <3>3. "overlap" \in faults' => \E b \in live : ~Holds(after, b, block_sizes[b])
      BY <1>seen, <1>7, <1>12, <2>7
    <3>4. "overlap" \in faults' => \E b \in live' : ~Holds(memory', b, block_sizes'[b])
      BY <2>3, <2>4, <2>8, <3>3
    <3> QED
      BY <1>2, <1>12, <3>1, <3>2, <3>4 DEF Evidence
  <2>12. Innocence'
    <3> SUFFICES ASSUME faults' = {} PROVE Innocence'
      BY DEF Innocence
    <3>1. faults = {} /\ misbehaves = {}
      BY <1>12
    <3>2. ASSUME NEW b \in live PROVE Units(p, n) \cap Units(b, block_sizes[b]) = {}
      <4>1. Units(p, size) \cap Units(b, block_sizes[b]) = {}
        BY <1>4, <2>1, <3>1, FaultsMean DEF misbehaves
      <4>2. Units(p, n) \subseteq Units(p, size)
        BY <1>5, <2>1, UnitsAre
      <4> QED
        BY <4>1, <4>2
    <3>3. \A b \in live : Holds(memory, b, block_sizes[b])
      BY <1>kept, <3>1, <3>2
    <3>4. \A b \in live' : Holds(memory', b, block_sizes'[b])
      BY <1>7, <2>2, <2>3, <2>4, <2>7, <2>8, <3>1, <3>3
    <3> QED
      BY <1>8, <1>12, <3>4 DEF Innocence
  <2> QED
    BY <1>1, <1>12, <2>9, <2>10, <2>11, <2>12 DEF CheckInv, VerdictRight
<1> QED
  <2>1. copied = \A c \in FirstFilled(p, Least(size, SizeOf(a))) : memory[c] = a
    BY <1>0 DEF Moved
  <2> HIDE DEF copied
  <2>2. \/ /\ size = 0
           /\ block_sizes' = Store(block_sizes, a, 0)
           /\ memory' = Forgotten(memory, a)
           /\ moving' = StandsStill
           /\ UNCHANGED <<verdict, faults, rangeVars>>
        \/ /\ size > 0
           /\ (faults # {} => misbehaves = {}) /\ faults' = faults \cup misbehaves
           /\ \/ ~(Accepts(p, size, near) /\ copied) /\ Invalid
              \/ /\ Accepts(p, size, near) /\ copied
                 /\ AddRange(p, size, near)
                 /\ block_sizes' = Store(Store(block_sizes, a, 0), p, size)
                 /\ memory' = Randomized(Forgotten(memory, a), p, size)
                 /\ moving' = StandsStill
                 /\ verdict' = verdict
    BY <1>0, <2>1 DEF ReallocTo, Answers, misbehaves
  <2> QED
    BY <1>9, <1>11, <1>12, <2>2

(* What remove_range leaves of the records. *)
LEMMA Forgets ==
  ASSUME RangeInv, NEW a \in live \cup {NULL}, Forget(a)
  PROVE  live' = live \ {a} /\ \A b \in live' : hi'[b] = hi[b]
<1> USE RangeAssumption
<1>1. live \subseteq Addresses /\ hi \in [Addresses -> Nat]
  BY DEF RangeInv, RangeTypeOK
<1>2. CASE a \in live
  <2>1. live' = live \ {a} /\ hi' = Store(hi, a, 0)
    BY <1>2 DEF Forget, RemoveRange
  <2> QED
    BY <1>1, <2>1, StoreHi
<1>3. CASE a \notin live
  BY <1>1, <1>3 DEF Forget, rangeVars
<1> QED
  BY <1>2, <1>3

(* A block whose data is gone was never an innocent allocator's. *)
LEMMA BrokenIsFault ==
  ASSUME CheckInv, Ready, NEW a \in blocks \cup {NULL}
  PROVE  /\ TypeInv /\ Bookkeeping /\ Evidence /\ Innocence /\ VerdictRight
         /\ verdict = "running" /\ ~moving.busy
         /\ live = blocks /\ live \subseteq Addresses
         /\ \A b \in live : Intact(b) <=> Holds(memory, b, block_sizes[b])
         /\ ~Intact(a) => faults # {}
<1>1. verdict = "running" /\ ~moving.busy
  BY DEF Ready
<1>2. TypeInv /\ Bookkeeping /\ Evidence /\ Innocence /\ VerdictRight
  BY <1>1 DEF CheckInv
<1>3. live = blocks /\ live \subseteq Addresses
  BY <1>1, <1>2, RangeAssumption DEF Bookkeeping, blocks
<1>4. \A b \in live : Intact(b) <=> Holds(memory, b, block_sizes[b])
  BY <1>2, <1>3, IntactHolds
<1>5. ~Intact(a) => faults # {}
  BY <1>1, <1>2, <1>3, <1>4, IntactHolds DEF Innocence
<1> QED
  BY <1>1, <1>2, <1>3, <1>4, <1>5

(* A free keeps the invariant. *)
LEMMA FreeStep ==
  ASSUME CheckInv, RangeInv, NEW a \in blocks \cup {NULL}, Free(a)
  PROVE  CheckInv'
<1> USE RangeAssumption
<1>1. Ready
  BY DEF Free
<1>2. TypeInv /\ Bookkeeping /\ Evidence /\ Innocence /\ VerdictRight
  BY <1>1, BrokenIsFault
<1>3. verdict = "running" /\ ~moving.busy /\ live = blocks /\ live \subseteq Addresses
  BY <1>1, BrokenIsFault
<1>4. CASE ~Intact(a) /\ Invalid /\ faults' = faults
  BY <1>1, <1>2, <1>4, BrokenIsFault, Refused DEF TypeInv
<1>5. CASE /\ Intact(a) /\ Forget(a)
           /\ block_sizes' = Store(block_sizes, a, 0) /\ memory' = Forgotten(memory, a)
           /\ UNCHANGED <<verdict, moving, faults>>
  <2>1. live' = live \ {a} /\ \A b \in live' : hi'[b] = hi[b]
    BY <1>3, <1>5, Forgets
  <2>2. /\ block_sizes \in [Addresses -> Nat] /\ memory \in Memory
        /\ moving.from = NULL /\ a \in Addresses \cup {NULL}
    BY <1>2, <1>3 DEF TypeInv, Bookkeeping
  <2>3. /\ block_sizes' \in [Addresses -> Nat]
        /\ \A b \in Addresses : block_sizes'[b] = IF b = a THEN 0 ELSE block_sizes[b]
    BY <1>5, <2>2, SizesStored
  <2>4. \A b \in live' : b \in live /\ b \in Addresses /\ b # a /\ block_sizes'[b] = block_sizes[b]
    BY <1>3, <2>1, <2>3
  <2>5. blocks' = live'
    <3>1. \A x : x \in blocks' <=> x \in Addresses /\ block_sizes'[x] > 0
      BY DEF blocks
    <3>2. \A x : x \in live <=> x \in Addresses /\ block_sizes[x] > 0
      BY <1>3 DEF blocks
    <3>3. ASSUME NEW x \in Addresses PROVE x \in live' <=> block_sizes'[x] > 0
      <4>1. block_sizes'[x] = IF x = a THEN 0 ELSE block_sizes[x]
        BY <2>3
      <4> QED
        BY <2>1, <3>2, <4>1
    <3>4. live' \subseteq Addresses
      BY <1>3, <2>1
    <3> QED
      BY <3>1, <3>3, <3>4
  <2>6. /\ memory' \in Memory
        /\ \A b \in live' : Holds(memory', b, block_sizes'[b]) <=> Holds(memory, b, block_sizes[b])
    <3>1. memory' \in Memory
      BY <1>5, <2>2, WritesTyped
    <3>2. ASSUME NEW b \in live'
          PROVE  Holds(memory', b, block_sizes[b]) <=> Holds(memory, b, block_sizes[b])
      <4>1. b \in Addresses /\ b # a /\ block_sizes[b] \in Nat /\ InHeap(b, block_sizes[b])
        BY <1>2, <1>3, <2>2, <2>4 DEF Bookkeeping
      <4> QED
        BY <1>5, <2>2, <4>1, ForgetOther
    <3> QED
      BY <2>4, <3>1, <3>2
  <2>7. TypeInv'
    BY <1>2, <1>5, <2>3, <2>6 DEF TypeInv
  <2>8. Bookkeeping'
    <3>1. \A b \in live' : hi'[b] = b + block_sizes'[b] - 1
      BY <1>2, <2>1, <2>4 DEF Bookkeeping
    <3>2. \A b \in blocks' : InHeap(b, block_sizes'[b])
      BY <1>2, <1>3, <2>4, <2>5 DEF Bookkeeping
    <3>3. live' = blocks' \ {moving'.from}
      BY <1>5, <2>2, <2>4, <2>5
    <3> QED
      BY <1>3, <1>5, <2>2, <3>1, <3>2, <3>3 DEF Bookkeeping
  <2>9. Evidence'
    <3>1. "overlap" \in faults => \E b \in live : ~Holds(memory, b, block_sizes[b])
      BY <1>2 DEF Evidence
    <3>2. \A b \in live : ~Holds(memory, b, block_sizes[b]) => b \in live'
      BY <1>1, <1>5, <2>1, BrokenIsFault
    <3>3. "overlap" \in faults' => \E b \in live' : ~Holds(memory', b, block_sizes'[b])
      BY <1>5, <2>6, <3>1, <3>2
    <3>4. "bad" \notin faults' /\ "garbled" \notin faults'
      BY <1>2, <1>3, <1>5 DEF Evidence
    <3> QED
      BY <3>3, <3>4 DEF Evidence
  <2>10. Innocence'
    <3>1. faults = {} => \A b \in live : Holds(memory, b, block_sizes[b])
      BY <1>2, <1>3 DEF Innocence
    <3>2. faults' = {} => \A b \in live' : Holds(memory', b, block_sizes'[b])
      BY <1>5, <2>4, <2>6, <3>1
    <3>3. ~moving'.busy
      BY <1>3, <1>5
    <3> QED
      BY <3>2, <3>3 DEF Innocence
  <2> QED
    BY <1>3, <1>5, <2>7, <2>8, <2>9, <2>10 DEF CheckInv, VerdictRight
<1> QED
  BY <1>4, <1>5 DEF Free

(* REALLOC, up to remove_range. *)
LEMMA ReallocFromStep ==
  ASSUME CheckInv, RangeInv, NEW a \in blocks \cup {NULL}, NEW size \in Sizes \cup {0},
         ReallocFrom(a, size)
  PROVE  CheckInv'
<1> USE RangeAssumption
<1>1. Ready
  BY DEF ReallocFrom
<1>2. TypeInv /\ Bookkeeping /\ Evidence /\ Innocence /\ VerdictRight
  BY <1>1, BrokenIsFault
<1>3. verdict = "running" /\ ~moving.busy /\ live = blocks /\ live \subseteq Addresses
  BY <1>1, BrokenIsFault
<1>4. CASE ~Intact(a) /\ Invalid /\ faults' = faults
  BY <1>1, <1>2, <1>4, BrokenIsFault, Refused DEF TypeInv
<1>5. CASE Answers({"bad"}) /\ Invalid
  BY <1>2, <1>5, Refused DEF Answers, TypeInv, Faults
<1> DEFINE n == Least(size, SizeOf(a))
           garbles(p, lost) == IF lost = {} THEN {}
                               ELSE IF lost \subseteq FirstFilled(p, n) THEN {"garbled"}
                               ELSE {"hidden"}
<1>6. ASSUME NEW p \in Addresses \cup {NULL},
             NEW lost \in {{}} \cup {{p + k} : k \in 0 .. n - 1},
             Intact(a), (p = NULL) = (size = 0), Forget(a),
             moving' = [busy |-> TRUE, from |-> a, to |-> p, size |-> size],
             memory' = Copied(a, p, n, lost), Answers(garbles(p, lost)),
             UNCHANGED <<verdict, block_sizes>>
      PROVE  CheckInv'
  <2>1. /\ block_sizes \in [Addresses -> Nat] /\ memory \in Memory
        /\ a \in Addresses \cup {NULL} /\ size \in Nat
    BY <1>2, <1>3 DEF TypeInv
  <2>2. SizeOf(a) \in Nat /\ (a = NULL => SizeOf(a) = 0)
    BY <2>1 DEF SizeOf
  <2>3. n \in Nat /\ n <= size /\ n <= SizeOf(a) /\ (a = NULL => n = 0)
    BY <2>1, <2>2 DEF Least
  <2>4. Moved' = n
    BY <1>6 DEF Moved, SizeOf
  <2>5. n # 0 => p \in Addresses /\ a \in Addresses /\ size > 0
    BY <1>6, <2>1, <2>3
  <2>6. lost # {} => n # 0 /\ \E k \in 0 .. n - 1 : lost = {p + k}
    BY <2>3
  <2> HIDE DEF n
  <2>7. live' = live \ {a} /\ \A b \in live' : hi'[b] = hi[b]
    BY <1>3, <1>6, Forgets
  <2>8. blocks' = blocks
    BY <1>6 DEF blocks
  <2>9. \A b \in live' : /\ b \in live /\ b \in Addresses /\ b # a /\ block_sizes[b] \in Nat
                         /\ InHeap(b, block_sizes[b])
    BY <1>2, <1>3, <2>1, <2>7 DEF Bookkeeping
  <2>10. /\ memory' \in Memory
         /\ \A c \in HeapLo..HeapHi : c \in Units(p, n) =>
              /\ c \in lost => memory'[c] = Junk
              /\ c \notin lost /\ memory[a + c - p] = a => memory'[c] = a
    BY <1>6, <2>1, <2>3, CopiedCells
  <2>11. \A b \in live' :
           /\ Holds(memory', b, block_sizes[b]) => Holds(memory, b, block_sizes[b])
           /\ Units(p, n) \cap Units(b, block_sizes[b]) = {} /\ Holds(memory, b, block_sizes[b])
                => Holds(memory', b, block_sizes[b])
    BY <1>6, <2>1, <2>3, <2>9, CopyOther
  <2>12. garbles(p, lost) \subseteq {"garbled", "hidden"} /\ (garbles(p, lost) = {} => lost = {})
         /\ ("garbled" \in garbles(p, lost) => lost # {} /\ lost \subseteq FirstFilled(p, n))
    OBVIOUS
  <2> HIDE DEF garbles
  <2>13. faults' = faults \cup garbles(p, lost) /\ faults' \subseteq Faults
    BY <1>2, <1>6, <2>12 DEF Answers, TypeInv, Faults
  <2>14. TypeInv'
    BY <1>2, <1>6, <2>1, <2>10, <2>13 DEF TypeInv
  <2>15. /\ moving'.busy /\ moving'.from = a /\ moving'.to = p /\ moving'.size = size
         /\ block_sizes' = block_sizes /\ verdict' = verdict
    BY <1>6
  <2>16. Bookkeeping'
    <3>1. \A b \in live' : hi'[b] = b + block_sizes'[b] - 1
      BY <1>2, <2>7, <2>9, <2>15 DEF Bookkeeping
    <3>2. \A b \in blocks' : InHeap(b, block_sizes'[b])
      BY <1>2, <2>8, <2>15 DEF Bookkeeping
    <3>3. live' = blocks' \ {a}
      BY <1>3, <2>7, <2>8
    <3>4. (p = NULL) <=> (size = 0)
      BY <1>6
    <3> QED
      BY <2>8, <2>15, <3>1, <3>2, <3>3, <3>4 DEF Bookkeeping
  <2>17. Evidence'
    <3>1. "overlap" \in faults' => \E b \in live' : ~Holds(memory', b, block_sizes'[b])
      <4>1. "overlap" \in faults' => \E b \in live : ~Holds(memory, b, block_sizes[b])
        BY <1>2, <2>12, <2>13 DEF Evidence
      <4>2. \A b \in live : ~Holds(memory, b, block_sizes[b]) => b \in live'
        BY <1>1, <1>6, <2>7, BrokenIsFault
      <4> QED
        BY <2>11, <2>15, <4>1, <4>2
    <3>2. ASSUME "garbled" \in faults'
          PROVE  /\ a \in blocks /\ size > 0
                 /\ \E c \in FirstFilled(p, n) : c \in HeapLo..HeapHi => memory'[c] # a
      <4>1. "garbled" \notin faults
        BY <1>2, <1>3 DEF Evidence
      <4>2. lost # {} /\ lost \subseteq FirstFilled(p, n)
        BY <2>12, <2>13, <3>2, <4>1
      <4>3. p \in Addresses /\ a \in Addresses /\ size > 0
        BY <2>5, <2>6, <4>2
      <4>4. PICK c \in lost : c \in FirstFilled(p, n)
        BY <4>2
      <4>5. c \in Units(p, n)
        BY <2>3, <4>3, <4>4, FilledAre
      <4>6. c \in HeapLo..HeapHi => memory'[c] = Junk
        BY <2>10, <4>4, <4>5
      <4> QED
        BY <4>3, <4>4, <4>6, CheckAssumption
    <3>3. "bad" \notin faults'
      BY <1>2, <2>12, <2>13 DEF Evidence
    <3> QED
      BY <2>4, <2>8, <2>15, <3>1, <3>2, <3>3 DEF Evidence
  <2>18. Innocence'
    <3> SUFFICES ASSUME faults' = {}
                 PROVE  /\ \A b \in live' : \/ Holds(memory', b, block_sizes[b])
                                            \/ Units(p, n) \cap Units(b, block_sizes[b]) # {}
                        /\ \A c \in FirstFilled(p, n) : c \in HeapLo..HeapHi => memory'[c] = a
      BY <2>4, <2>15 DEF Innocence
    <3>1. faults = {} /\ lost = {}
      BY <2>12, <2>13
    <3>2. \A b \in live : Holds(memory, b, block_sizes[b])
      BY <1>2, <1>3, <3>1 DEF Innocence
    <3>3. ASSUME NEW c \in FirstFilled(p, n), c \in HeapLo..HeapHi PROVE memory'[c] = a
      <4>1. n # 0
        <5>1. n = 0 => FirstFilled(p, n) = {}
          BY CheckAssumption DEF FirstFilled, Units
        <5> QED
          BY <5>1
      <4>2. p \in Nat /\ a \in Nat /\ n \in Nat /\ SizeOf(a) \in Nat /\ n <= SizeOf(a)
        BY <2>2, <2>3, <2>5, <4>1
      <4>3. c \in Units(p, n) /\ a + c - p \in Filled(a, SizeOf(a))
        BY <4>2, FirstFilledMoved
      <4>4. memory[a + c - p] = a
        BY <1>6, <4>3 DEF Intact
      <4> QED
        BY <2>10, <3>1, <3>3, <4>3, <4>4
    <3> QED
      BY <2>9, <2>11, <3>2, <3>3
  <2> QED
    BY <1>2, <1>3, <2>14, <2>15, <2>16, <2>17, <2>18 DEF CheckInv, VerdictRight
<1> QED
  BY <1>4, <1>5, <1>6 DEF ReallocFrom

-----------------------------------------------------------------------------
(* The walk along the list *)

(* The walk over the list stays in the list. *)
LEMMA WalkInside ==
  ASSUME RangeInv, NEW n \in Nat
  PROVE  Walked[n] \in live \cup {NULL}
<1> DEFINE Records == live \cup {NULL}
           step == [x \in Records |-> Successor(x)]
           Walks(g) == g = [k \in Nat |-> IF k = 0 THEN list ELSE Successor(g[k - 1])]
<1>1. list \in Records /\ \A x \in Records : Successor(x) \in Records
  BY DEF RangeInv, LinksSound, Successor
<1>2. step \in [Records -> Records] /\ \A x \in Records : step[x] = Successor(x)
  BY <1>1
<1> HIDE DEF Records, step
<1>3. PICK g \in [Nat -> Records] : g[0] = list /\ \A k \in Nat : g[k + 1] = step[g[k]]
  <2>1. \A S : \A s \in S : \A f \in [S -> S] :
          \E g \in [Nat -> S] : g[0] = s /\ \A k \in Nat : g[k + 1] = f[g[k]]
    BY NatRecursion, Zenon
  <2> QED
    BY <1>1, <1>2, <2>1
<1>4. ASSUME NEW k \in Nat PROVE g[k] = IF k = 0 THEN list ELSE Successor(g[k - 1])
  <2>1. CASE k = 0
    BY <1>3, <2>1
  <2>2. CASE k # 0
    <3>1. k - 1 \in Nat /\ (k - 1) + 1 = k
      BY <2>2
    <3>2. g[k] = step[g[k - 1]] /\ g[k - 1] \in Records
      BY <1>3, <3>1
    <3> QED
      BY <1>2, <2>2, <3>2
  <2> QED
    BY <2>1, <2>2
<1>5. Walks(g)
  BY <1>3, <1>4
<1>6. Walked = CHOOSE h : Walks(h)
  BY DEF Walked
<1> HIDE DEF Walks
<1>7. Walks(Walked)
  BY <1>5, <1>6
<1> DEFINE h == Walked
<1> HIDE DEF h
<1>8. h = [k \in Nat |-> IF k = 0 THEN list ELSE Successor(h[k - 1])]
  BY <1>7 DEF Walks, h
<1> DEFINE Inside == {k \in Nat : h[k] \in Records}
<1>9. 0 \in Inside
  BY <1>1, <1>8
<1>10. ASSUME NEW k \in Inside PROVE k + 1 \in Inside
  <2>1. k + 1 \in Nat /\ k + 1 # 0 /\ (k + 1) - 1 = k
    OBVIOUS
  <2>2. h[k + 1] = Successor(h[k])
    BY <1>8, <2>1
  <2> QED
    BY <1>1, <2>1, <2>2
<1>11. Inside = Nat
  <2> HIDE DEF Inside
  <2> QED
    BY <1>9, <1>10, NatBySet DEF Inside
<1> QED
  BY <1>11 DEF h, Records

(* The walk stops only at a block whose data is gone. *)
LEMMA HeapCheckStep ==
  ASSUME CheckInv, RangeInv, HeapCheckFails
  PROVE  CheckInv'
<1>1. verdict = "running" /\ ~moving.busy /\ Invalid
  BY DEF HeapCheckFails
<1>2. TypeInv /\ Bookkeeping /\ Innocence
  BY <1>1 DEF CheckInv
<1>3. CASE WalkFails /\ faults' = faults
  <2>1. Cardinality(live) \in Nat
    <3>1. live \subseteq Addresses
      BY DEF RangeInv, RangeTypeOK
    <3> QED
      BY <3>1, CheckAssumption, FS_Subset, FS_CardinalityType
  <2>2. PICK n \in Nat : Walked[n] # NULL /\ ~Intact(Walked[n])
    BY <1>3, <2>1 DEF WalkFails
  <2>3. PICK b \in live : ~Intact(b)
    BY <2>2, WalkInside
  <2>4. b \in Addresses /\ ~Holds(memory, b, block_sizes[b])
    BY <1>2, <2>3, IntactHolds DEF RangeInv, RangeTypeOK
  <2>5. faults # {}
    BY <1>1, <1>2, <2>4 DEF Innocence
  <2> QED
    BY <1>1, <1>2, <1>3, <2>5, Refused DEF TypeInv
<1>4. CASE Answers({"bad"})
  BY <1>1, <1>2, <1>4, Refused DEF Answers, TypeInv, Faults
<1> QED
  BY <1>3, <1>4 DEF HeapCheckFails

(* A new pass over the trace keeps the invariant. *)
LEMMA StartPassStep ==
  ASSUME CheckInv, StartPass
  PROVE  CheckInv'
<1>1. CASE Answers({"bad"}) /\ Invalid
  <2>1. faults \subseteq Faults
    BY DEF CheckInv, TypeInv
  <2> QED
    BY <1>1, <2>1, Refused DEF Answers, Faults
<1>2. CASE UNCHANGED <<verdict, block_sizes, moving, memory, faults, rangeVars>>
  BY <1>2, CheckInvKept DEF rangeVars
<1> QED
  BY <1>1, <1>2 DEF StartPass

(* When the trace has freed all its blocks nothing is left that could hide *)
(* an overlap or a garbled copy.                                           *)
LEMMA EndTraceStep ==
  ASSUME CheckInv, EndTrace
  PROVE  CheckInv'
<1>1. /\ verdict = "running" /\ ~moving.busy /\ blocks = {} /\ verdict' = "valid"
      /\ UNCHANGED <<block_sizes, moving, memory, faults>>
  BY DEF EndTrace
<1>2. TypeInv /\ Bookkeeping /\ Evidence
  BY <1>1 DEF CheckInv
<1>3. live = {}
  BY <1>1, <1>2 DEF Bookkeeping
<1>4. faults \subseteq {"hidden"}
  BY <1>1, <1>2, <1>3 DEF Evidence, TypeInv, Faults
<1> QED
  BY <1>1, <1>2, <1>4 DEF CheckInv, TypeInv, VerdictRight

(* Every step of the check keeps the invariant. *)
LEMMA CheckStep ==
  ASSUME CheckInv, RangeInv, [CheckNext]_checkVars
  PROVE  CheckInv'
<1>1. CASE Measure
  BY <1>1, CheckInvKept DEF Measure, traceVars, rangeVars
<1>2. ASSUME NEW near \in live \cup {NULL}, Finds(near, moving.to), ReallocTo(near)
      PROVE  CheckInv'
  BY <1>2, ReallocToStep
<1>3. ASSUME NEW size \in Sizes, NEW p \in Addresses \cup {NULL},
             NEW near \in live \cup {NULL}, Finds(near, p), Alloc(size, p, near)
      PROVE  CheckInv'
  BY <1>3, AllocStep
<1>4. ASSUME NEW a \in blocks \cup {NULL}, Free(a)
      PROVE  CheckInv'
  BY <1>4, FreeStep
<1>5. ASSUME NEW a \in blocks \cup {NULL}, NEW size \in Sizes \cup {0}, ReallocFrom(a, size)
      PROVE  CheckInv'
  BY <1>5, ReallocFromStep
<1>6. CASE UNCHANGED checkVars
  BY <1>6, CheckInvKept DEF checkVars, traceVars, rangeVars
<1> QED
  BY <1>1, <1>2, <1>3, <1>4, <1>5, <1>6, StartPassStep, HeapCheckStep, EndTraceStep
    DEF CheckNext

(* Every step of the check leaves the range list alone, frees it, or adds  *)
(* or removes one range as RangeSet does.                                   *)
LEMMA RangeStep ==
  ASSUME CheckInv, RangeInv, [CheckNext]_checkVars
  PROVE  [RangeNext]_rangeVars
<1> USE RangeAssumption
<1>1. Invalid => RangeNext
  BY DEF Invalid, RangeNext
<1>2. \A a : Forget(a) => [RangeNext]_rangeVars
  <2> SUFFICES ASSUME NEW a, Forget(a) PROVE [RangeNext]_rangeVars
    OBVIOUS
  <2>1. live \subseteq Addresses
    BY DEF RangeInv, RangeTypeOK
  <2> QED
    BY <2>1 DEF Forget, RangeNext
<1>3. ASSUME NEW near \in live \cup {NULL}, Finds(near, moving.to), ReallocTo(near)
      PROVE  [RangeNext]_rangeVars
  <2>1. CASE UNCHANGED rangeVars
    BY <2>1
  <2>2. CASE Invalid
    BY <1>1, <2>2
  <2>3. CASE /\ moving.size > 0 /\ Accepts(moving.to, moving.size, near)
             /\ AddRange(moving.to, moving.size, near) /\ verdict = "running"
    <3>1. moving.to \in Addresses /\ moving.size \in Sizes
      BY <2>3 DEF CheckInv, TypeInv, Accepts, Placeable
    <3>2. IsNearest(near, moving.to)
      BY <1>3, <3>1 DEF Finds
    <3> QED
      BY <2>3, <3>1, <3>2 DEF RangeNext
  <2> QED
    BY <1>3, <2>1, <2>2, <2>3 DEF ReallocTo
<1>4. ASSUME NEW size \in Sizes, NEW p \in Addresses \cup {NULL},
             NEW near \in live \cup {NULL}, Finds(near, p), Alloc(size, p, near)
      PROVE  [RangeNext]_rangeVars
  <2>1. CASE Invalid
    BY <1>1, <2>1
  <2>2. CASE Accepts(p, size, near) /\ AddRange(p, size, near)
    <3>1. p \in Addresses /\ IsNearest(near, p)
      BY <1>4, <2>2 DEF Accepts, Placeable, Finds
    <3> QED
      BY <2>2, <3>1 DEF RangeNext
  <2> QED
    BY <1>4, <2>1, <2>2 DEF Alloc
<1>5. ASSUME NEW a, Free(a) PROVE [RangeNext]_rangeVars
  BY <1>1, <1>2, <1>5 DEF Free
<1>6. ASSUME NEW a, NEW size, ReallocFrom(a, size) PROVE [RangeNext]_rangeVars
  BY <1>1, <1>2, <1>6 DEF ReallocFrom
<1>7. CASE StartPass \/ HeapCheckFails \/ EndTrace \/ Measure \/ UNCHANGED checkVars
  BY <1>1, <1>7 DEF StartPass, HeapCheckFails, EndTrace, Measure, checkVars
<1> QED
  BY <1>3, <1>4, <1>5, <1>6, <1>7 DEF CheckNext

(* The invariants hold throughout. *)
LEMMA CheckSafe == CheckSpec => [](CheckInv /\ RangeInv)
<1>1. CheckInv /\ RangeInv /\ [CheckNext]_checkVars => (CheckInv /\ RangeInv)'
  BY CheckStep, RangeStep, StepInv
<1> QED
  BY InitCheck, <1>1, PTL DEF CheckSpec

-----------------------------------------------------------------------------
(* For every heap, every trace, both debug modes and whatever tree finds   *)
(* the nearest range: eval_mm_valid refuses no allocator that did nothing  *)
(* wrong, and an allocator whose one fault the data can show is refused by  *)
(* the end of the trace, although add_range misses overlaps.               *)
THEOREM VerdictIsRight == CheckSpec => []VerdictRight
<1>1. CheckInv => VerdictRight
  BY DEF CheckInv
<1> QED
  BY CheckSafe, <1>1, PTL

(* The range list holds the blocks of the trace and nothing else, with     *)
(* their sizes, at every request.                                          *)
THEOREM RangesAreBlocks == CheckSpec => []RangesOfBlocks
<1>1. CheckInv => RangesOfBlocks
  BY DEF CheckInv, RangesOfBlocks, Bookkeeping
<1> QED
  BY CheckSafe, <1>1, PTL

(* Every behaviour of the check is, for the range list, one of RangeSet:   *)
(* LinksSound and NoFalseOverlap hold of it.                                *)
THEOREM CheckKeepsRanges == CheckSpec => RangeSpec
<1>1. CheckInit => RangeInit
  BY DEF CheckInit
<1>2. CheckInv /\ RangeInv /\ [CheckNext]_checkVars => [RangeNext]_rangeVars
  BY RangeStep
<1> QED
  BY CheckSafe, <1>1, <1>2, PTL DEF CheckSpec, RangeSpec

-----------------------------------------------------------------------------
(* The K-best sampler.  Beside BestSamples its invariant says that until K *)
(* samples are taken every one of them is held, and that the result, once   *)
(* there, is fixed.                                                         *)
Onto(s, place) == \A j \in DOMAIN s : j \in Range(place)
Picks(v, s, place) ==
  /\ place \in Injection(DOMAIN v, DOMAIN s)
  /\ \A i \in DOMAIN v : v[i] = s[place[i]]
  /\ \A j \in DOMAIN s \ Range(place) : \A i \in DOMAIN v : v[i] <= s[j]
Ranked(v, s) ==
  /\ v \in Seq(Nat) /\ s \in Seq(Nat)
  /\ Len(v) = IF Len(s) < K THEN Len(s) ELSE K
  /\ Sorted(v)
  /\ \E place : Picks(v, s, place) /\ (Len(s) <= K => Onto(s, place))
SamplerInv ==
  /\ Ranked(values, samples)
  /\ result # 0 => Shortest(result)

(* Where the insertion sort puts val: behind the first p - 1 values.        *)
LEMMA InsertedAt ==
  ASSUME NEW s \in Seq(Nat), Sorted(s), NEW val \in Nat
  PROVE  \E p \in 1 .. Len(s) + 1 :
           /\ Inserted(s, val) \in Seq(Nat) /\ Len(Inserted(s, val)) = Len(s) + 1
           /\ Inserted(s, val)[p] = val
           /\ \A i \in 1 .. p - 1 : Inserted(s, val)[i] = s[i] /\ s[i] <= val
           /\ \A i \in p + 1 .. Len(s) + 1 : Inserted(s, val)[i] = s[i - 1] /\ val < s[i - 1]
<1> DEFINE P(p) == p >= 1 /\ (p > Len(s) \/ val < s[p])
<1>1. PICK p \in Nat : P(p) /\ \A q \in 0 .. p - 1 : ~P(q)
  <2>1. P(Len(s) + 1) /\ Len(s) + 1 \in Nat
    OBVIOUS
  <2> DEFINE S == {q \in Nat : P(q)}
  <2>2. S \subseteq Nat /\ Len(s) + 1 \in S
    BY <2>1
  <2> HIDE DEF S
  <2>3. PICK p \in S : \A q \in S : p <= q
    BY <2>2, LeastNatural
  <2>4. \A q \in 0 .. p - 1 : q \in Nat /\ q \notin S
    BY <2>2, <2>3
  <2> QED
    BY <2>2, <2>3, <2>4 DEF S
<1> HIDE DEF P
<1>2. p \in 1 .. Len(s) + 1
  BY <1>1 DEF P
<1>3. {i \in DOMAIN s : s[i] <= val} = 1 .. p - 1
  <2>1. ASSUME NEW i \in 1 .. p - 1 PROVE i \in DOMAIN s /\ s[i] <= val
    BY <1>1, <1>2, <2>1 DEF P
  <2>2. ASSUME NEW i \in DOMAIN s, s[i] <= val PROVE i \in 1 .. p - 1
    BY <1>1, <1>2, <2>2 DEF Sorted, P
  <2> QED
    BY <2>1, <2>2
<1>4. Cardinality({i \in DOMAIN s : s[i] <= val}) = p - 1
  <2>1. Cardinality(1 .. p - 1) = p - 1
    BY <1>2, FS_Interval
  <2> QED
    BY <1>3, <2>1
<1> DEFINE a == SubSeq(s, 1, p - 1)
           b == SubSeq(s, p, Len(s))
<1>5. Inserted(s, val) = a \o <<val>> \o b
  <2> DEFINE c == Cardinality({i \in DOMAIN s : s[i] <= val})
  <2>1. c = p - 1
    BY <1>4
  <2>2. Inserted(s, val) = SubSeq(s, 1, (c + 1) - 1) \o <<val>> \o SubSeq(s, c + 1, Len(s))
    BY DEF Inserted, InsertAt
  <2> HIDE DEF c
  <2>3. (c + 1) - 1 = p - 1 /\ c + 1 = p
    BY <1>2, <2>1
  <2> QED
    BY <2>2, <2>3
<1>6. \A i \in 1 .. p - 1 : s[i] <= val
  BY <1>3
<1>7. \A i \in p .. Len(s) : val < s[i]
  BY <1>1, <1>2 DEF Sorted, P
<1>8. a \in Seq(Nat) /\ Len(a) = p - 1 /\ \A i \in 1 .. p - 1 : a[i] = s[i]
  BY <1>2
<1>9. b \in Seq(Nat) /\ Len(b) = Len(s) - p + 1
      /\ \A i \in 1 .. Len(s) - p + 1 : b[i] = s[p + i - 1]
  BY <1>2
<1> HIDE DEF a, b
<1> DEFINE m == a \o <<val>>
<1>10. m \in Seq(Nat) /\ Len(m) = p /\ m[p] = val /\ \A i \in 1 .. p - 1 : m[i] = s[i]
  <2>1. <<val>> \in Seq(Nat) /\ Len(<<val>>) = 1 /\ <<val>>[1] = val
    OBVIOUS
  <2>2. m \in Seq(Nat) /\ Len(m) = p
        /\ \A i \in 1 .. p : m[i] = IF i <= p - 1 THEN a[i] ELSE <<val>>[i - (p - 1)]
    BY <1>2, <1>8, <2>1, ConcatProperties
  <2>3. p - (p - 1) = 1 /\ p \in 1 .. p
    BY <1>2
  <2>4. m[p] = val
    BY <1>2, <2>1, <2>2, <2>3
  <2> QED
    BY <1>2, <1>8, <2>2, <2>4
<1> HIDE DEF m
<1>11. /\ m \o b \in Seq(Nat) /\ Len(m \o b) = Len(s) + 1
       /\ (m \o b)[p] = val
       /\ \A i \in 1 .. p - 1 : (m \o b)[i] = s[i]
  BY <1>2, <1>9, <1>10
<1>12. ASSUME NEW i \in p + 1 .. Len(s) + 1 PROVE (m \o b)[i] = s[i - 1]
  <2>1. i - p \in 1 .. Len(s) - p + 1 /\ p + (i - p) - 1 = i - 1
    BY <1>2
  <2>2. (m \o b)[i] = b[i - p]
    <3>1. i \in 1 .. Len(m) + Len(b) /\ ~(i <= Len(m)) /\ i - Len(m) = i - p
      BY <1>2, <1>9, <1>10
    <3> QED
      BY <1>9, <1>10, <3>1, ConcatProperties
  <2> QED
    BY <1>9, <2>1, <2>2
<1>13. \A i \in p + 1 .. Len(s) + 1 : val < s[i - 1]
  <2> SUFFICES ASSUME NEW i \in p + 1 .. Len(s) + 1 PROVE val < s[i - 1]
    OBVIOUS
  <2>1. i - 1 \in p .. Len(s)
    BY <1>2
  <2> QED
    BY <1>7, <2>1
<1>14. Inserted(s, val) = m \o b
  BY <1>5 DEF m
<1> QED
  BY <1>2, <1>6, <1>11, <1>12, <1>13, <1>14

(* The best of one sample more: the sample is inserted among values that    *)
(* are samples already, and what is not held stays behind all of them.      *)
LEMMA PicksInserted ==
  ASSUME NEW v \in Seq(Nat), Sorted(v), NEW s \in Seq(Nat), NEW val \in Nat, NEW place,
         Picks(v, s, place),
         \A j \in DOMAIN s \ Range(place) : val <= s[j]
  PROVE  LET w == Inserted(v, val) IN
         /\ w \in Seq(Nat) /\ Len(w) = Len(v) + 1 /\ Sorted(w)
         /\ \E held : /\ Picks(w, Append(s, val), held)
                      /\ Onto(s, place) => Onto(Append(s, val), held)
<1> DEFINE w == Inserted(v, val)
           t == Append(s, val)
           n == Len(s) + 1
<1>1. PICK p \in 1 .. Len(v) + 1 :
        /\ w \in Seq(Nat) /\ Len(w) = Len(v) + 1
        /\ w[p] = val
        /\ \A i \in 1 .. p - 1 : w[i] = v[i] /\ v[i] <= val
        /\ \A i \in p + 1 .. Len(v) + 1 : w[i] = v[i - 1] /\ val < v[i - 1]
  BY InsertedAt
<1>2. t \in Seq(Nat) /\ Len(t) = n /\ t[n] = val /\ \A j \in DOMAIN s : t[j] = s[j]
  OBVIOUS
<1> DEFINE held == [i \in DOMAIN w |-> IF i < p THEN place[i] ELSE IF i = p THEN n ELSE place[i - 1]]
<1> HIDE DEF w, t
<1>3. DOMAIN v = 1 .. Len(v) /\ DOMAIN s = 1 .. Len(s) /\ DOMAIN w = 1 .. Len(v) + 1
      /\ DOMAIN t = 1 .. n
  BY <1>1, <1>2
<1>4. /\ place \in [DOMAIN v -> DOMAIN s] /\ \A i \in DOMAIN v : v[i] = s[place[i]]
      /\ \A i, j \in DOMAIN v : place[i] = place[j] => i = j
      /\ \A j \in DOMAIN s \ Range(place) : \A i \in DOMAIN v : v[i] <= s[j]
  BY DEF Picks, Injection, IsInjective
<1>5. \A i \in 1 .. p - 1 : i \in DOMAIN v
  BY <1>3
<1>6. \A i \in p + 1 .. Len(v) + 1 : i - 1 \in DOMAIN v
  BY <1>3
<1>7. Sorted(w)
  <2> SUFFICES ASSUME NEW i \in 1 .. Len(v) + 1, NEW j \in 1 .. Len(v) + 1, i <= j
               PROVE  w[i] <= w[j]
    BY <1>3 DEF Sorted
  <2>1. \A k, l \in DOMAIN v : k <= l => v[k] <= v[l]
    BY DEF Sorted
  <2>2. val \in Nat /\ \A k \in DOMAIN v : v[k] \in Nat
    BY <1>3
  <2>3. CASE i < p /\ j < p
    BY <1>1, <1>5, <2>1, <2>3
  <2>4. CASE i < p /\ j = p
    <3>1. i \in 1 .. p - 1
      BY <2>4
    <3> QED
      BY <1>1, <2>4, <3>1
  <2>5. CASE i < p /\ j > p
    BY <1>1, <1>5, <1>6, <2>1, <2>5
  <2>6. CASE i = p
    BY <1>1, <1>6, <2>2, <2>6
  <2>7. CASE i > p
    BY <1>1, <1>6, <2>1, <2>7
  <2> QED
    BY <2>3, <2>4, <2>5, <2>6, <2>7
<1>18. /\ DOMAIN held = DOMAIN w
       /\ \A k \in 1 .. p - 1 : held[k] = place[k]
       /\ held[p] = n
       /\ \A k \in p + 1 .. Len(v) + 1 : held[k] = place[k - 1]
  <2>1. p \in DOMAIN w /\ p \in Int
    BY <1>3
  <2>2. ASSUME NEW k \in 1 .. p - 1 PROVE held[k] = place[k]
    <3>1. k \in DOMAIN w /\ k < p
      BY <1>3
    <3> QED
      BY <3>1
  <2>3. ASSUME NEW k \in p + 1 .. Len(v) + 1 PROVE held[k] = place[k - 1]
    <3>1. k \in DOMAIN w /\ ~(k < p) /\ k # p
      BY <1>3
    <3> QED
      BY <3>1
  <2> QED
    BY <2>1, <2>2, <2>3
<1>19. held = [i \in DOMAIN w |-> held[i]]
  BY <1>18
<1> HIDE DEF held
<1>8. \A k \in DOMAIN w : held[k] \in 1 .. n /\ t[held[k]] = w[k]
  <2> SUFFICES ASSUME NEW k \in DOMAIN w PROVE held[k] \in 1 .. n /\ t[held[k]] = w[k]
    OBVIOUS
  <2>1. CASE k < p
    <3>1. k \in 1 .. p - 1
      BY <1>3, <2>1
    <3>2. held[k] = place[k] /\ w[k] = v[k] /\ k \in DOMAIN v
      BY <1>1, <1>5, <1>18, <3>1
    <3> QED
      BY <1>2, <1>3, <1>4, <3>2
  <2>2. CASE k = p
    BY <1>1, <1>2, <1>3, <1>18, <2>2
  <2>3. CASE k > p
    <3>1. k \in p + 1 .. Len(v) + 1
      BY <1>3, <2>3
    <3>2. held[k] = place[k - 1] /\ w[k] = v[k - 1] /\ k - 1 \in DOMAIN v
      BY <1>1, <1>6, <1>18, <3>1
    <3> QED
      BY <1>2, <1>3, <1>4, <3>2
  <2> QED
    BY <1>3, <2>1, <2>2, <2>3
<1>9. held \in [DOMAIN w -> DOMAIN t] /\ \A i, j \in DOMAIN w : held[i] = held[j] => i = j
  <2>1. held \in [DOMAIN w -> DOMAIN t]
    BY <1>3, <1>8, <1>19
  <2>2. \A k \in DOMAIN w : held[k] = n <=> k = p
    <3>1. \A k \in DOMAIN v : place[k] # n
      BY <1>3, <1>4
    <3>2. \A k \in DOMAIN w : k \in 1 .. p - 1 \/ k = p \/ k \in p + 1 .. Len(v) + 1
      BY <1>3
    <3> QED
      BY <1>5, <1>6, <1>18, <3>1, <3>2
  <2>3. ASSUME NEW i \in DOMAIN w, NEW j \in DOMAIN w, held[i] = held[j], i # p, j # p
        PROVE  i = j
    <3> DEFINE old(k) == IF k < p THEN k ELSE k - 1
    <3>1. \A k \in DOMAIN w : k # p => old(k) \in DOMAIN v /\ held[k] = place[old(k)]
      BY <1>3, <1>5, <1>6, <1>18
    <3>2. old(i) = old(j)
      BY <1>4, <2>3, <3>1
    <3> QED
      BY <1>3, <2>3, <3>2
  <2> QED
    BY <2>1, <2>2, <2>3
<1>10. \A j \in Range(place) : j \in Range(held)
  <2> SUFFICES ASSUME NEW i \in DOMAIN place PROVE place[i] \in Range(held)
    BY DEF Range
  <2>1. i \in 1 .. Len(v)
    BY <1>3, <1>4
  <2>2. CASE i < p
    BY <1>3, <1>18, <2>1, <2>2 DEF Range
  <2>3. CASE i >= p
    <3>1. i + 1 \in DOMAIN w /\ held[i + 1] = place[i]
      BY <1>3, <1>18, <2>1, <2>3
    <3> QED
      BY <1>18, <3>1 DEF Range
  <2> QED
    BY <2>1, <2>2, <2>3
<1>11. n \in Range(held)
  BY <1>3, <1>18 DEF Range
<1>12. \A j \in DOMAIN t \ Range(held) :
         j \in DOMAIN s \ Range(place) /\ \A i \in DOMAIN w : w[i] <= t[j]
  <2> SUFFICES ASSUME NEW j \in DOMAIN t, j \notin Range(held)
               PROVE  j \in DOMAIN s \ Range(place) /\ \A i \in DOMAIN w : w[i] <= t[j]
    OBVIOUS
  <2>1. j \in DOMAIN s \ Range(place)
    <3>1. j # n
      BY <1>11
    <3>2. j \notin Range(place)
      BY <1>10
    <3>3. j \in 1 .. Len(s) + 1 /\ Len(s) \in Nat /\ j # Len(s) + 1
      BY <1>3, <3>1
    <3>4. j \in 1 .. Len(s)
      BY <3>3
    <3> QED
      BY <1>3, <3>2, <3>4
  <2>2. t[j] = s[j] /\ val <= s[j] /\ \A i \in DOMAIN v : v[i] <= s[j]
    BY <1>2, <1>4, <2>1
  <2>3. ASSUME NEW i \in DOMAIN w PROVE w[i] <= t[j]
    <3>1. i \in 1 .. p - 1 \/ i = p \/ i \in p + 1 .. Len(v) + 1
      BY <1>3
    <3> QED
      BY <1>1, <1>5, <1>6, <2>2, <3>1
  <2> QED
    BY <2>1, <2>3
<1>13. Picks(w, t, held)
  <2>1. \A k \in DOMAIN w : w[k] = t[held[k]]
    BY <1>8
  <2>2. \A j \in DOMAIN t \ Range(held) : \A i \in DOMAIN w : w[i] <= t[j]
    BY <1>12
  <2> QED
    BY <1>9, <2>1, <2>2 DEF Picks, Injection, IsInjective
<1>14. Onto(s, place) => Onto(t, held)
  <2> QED
    BY <1>12 DEF Onto
<1> QED
  BY <1>1, <1>7, <1>13, <1>14 DEF w, t

(* The last value is dropped: the sample it was is one of those not held.   *)
LEMMA PicksFront ==
  ASSUME NEW v \in Seq(Nat), Sorted(v), Len(v) > 0, NEW s \in Seq(Nat), NEW place,
         Picks(v, s, place)
  PROVE  /\ Front(v) \in Seq(Nat) /\ Len(Front(v)) = Len(v) - 1 /\ Sorted(Front(v))
         /\ \E held : /\ Picks(Front(v), s, held)
                      /\ \A j \in DOMAIN s \ Range(held) : v[Len(v)] <= s[j]
<1> DEFINE u == Front(v)
<1>1. /\ u \in Seq(Nat) /\ Len(u) = Len(v) - 1
      /\ \A i \in 1 .. Len(v) - 1 : u[i] = v[i]
  <2>1. Len(v) - 1 \in 0 .. Len(v)
    OBVIOUS
  <2>2. /\ SubSeq(v, 1, Len(v) - 1) \in Seq(Nat)
        /\ Len(SubSeq(v, 1, Len(v) - 1)) = Len(v) - 1
        /\ \A i \in 1 .. Len(v) - 1 : SubSeq(v, 1, Len(v) - 1)[i] = v[i]
    <3> DEFINE n == Len(v) - 1
    <3>1. n \in Nat /\ \A i \in 1 .. n : v[i] \in Nat
      OBVIOUS
    <3> HIDE DEF n
    <3>2. /\ SubSeq(v, 1, n) \in Seq(Nat)
          /\ Len(SubSeq(v, 1, n)) = IF 1 <= n THEN n - 1 + 1 ELSE 0
          /\ \A i \in 1 .. n - 1 + 1 : SubSeq(v, 1, n)[i] = v[1 + i - 1]
      BY <3>1, SubSeqProperties
    <3>3. Len(SubSeq(v, 1, n)) = n /\ \A i \in 1 .. n : SubSeq(v, 1, n)[i] = v[i]
      BY <3>1, <3>2
    <3> QED
      BY <3>2, <3>3 DEF n
  <2> QED
    BY <2>2 DEF Front
<1> HIDE DEF u
<1>2. DOMAIN u = 1 .. Len(v) - 1 /\ DOMAIN v = 1 .. Len(v) /\ Len(v) \in DOMAIN v
      /\ \A i \in DOMAIN u : i \in DOMAIN v /\ i # Len(v)
  BY <1>1
<1>3. /\ place \in [DOMAIN v -> DOMAIN s] /\ \A i \in DOMAIN v : v[i] = s[place[i]]
      /\ \A i, j \in DOMAIN v : place[i] = place[j] => i = j
      /\ \A j \in DOMAIN s \ Range(place) : \A i \in DOMAIN v : v[i] <= s[j]
  BY DEF Picks, Injection, IsInjective
<1>4. \A i \in DOMAIN v : v[i] <= v[Len(v)] /\ v[i] \in Nat
  BY <1>2 DEF Sorted
<1> DEFINE held == [i \in DOMAIN u |-> place[i]]
<1>5. Picks(u, s, held)
      /\ \A j \in DOMAIN s \ Range(held) : v[Len(v)] <= s[j]
  <2>1. held \in [DOMAIN u -> DOMAIN s] /\ \A i, j \in DOMAIN u : held[i] = held[j] => i = j
    BY <1>2, <1>3
  <2>2. \A i \in DOMAIN u : u[i] = s[held[i]]
    BY <1>1, <1>2, <1>3
  <2>3. ASSUME NEW j \in DOMAIN s, j \notin Range(held)
        PROVE  v[Len(v)] <= s[j]
    <3>1. CASE j \in Range(place)
      <4>1. PICK i \in DOMAIN v : place[i] = j
        BY <1>3, <3>1 DEF Range
      <4>2. i = Len(v)
        <5>1. i \notin DOMAIN u
          BY <2>3, <4>1 DEF Range
        <5> QED
          BY <1>2, <5>1
      <4> QED
        BY <1>2, <1>3, <1>4, <4>1, <4>2
    <3> QED
      BY <1>2, <1>3, <2>3, <3>1
  <2>4. \A j \in DOMAIN s \ Range(held) : \A i \in DOMAIN u : u[i] <= s[j]
    <3> SUFFICES ASSUME NEW j \in DOMAIN s \ Range(held), NEW i \in DOMAIN u
                 PROVE  u[i] <= s[j]
      OBVIOUS
    <3>1. v[Len(v)] <= s[j] /\ s[j] \in Nat
      BY <2>3
    <3>2. u[i] = v[i] /\ v[i] <= v[Len(v)] /\ v[i] \in Nat /\ v[Len(v)] \in Nat
      BY <1>1, <1>2, <1>4
    <3> QED
      BY <3>1, <3>2
  <2> HIDE DEF held
  <2> QED
    BY <2>1, <2>2, <2>3, <2>4 DEF Picks, Injection, IsInjective
<1>6. Sorted(u)
  <2>1. \A i, j \in DOMAIN v : i <= j => v[i] <= v[j]
    BY DEF Sorted
  <2>2. \A i \in DOMAIN u : i \in DOMAIN v /\ u[i] = v[i]
    BY <1>1, <1>2
  <2> QED
    BY <2>1, <2>2 DEF Sorted
<1> HIDE DEF held
<1> QED
  BY <1>1, <1>5, <1>6 DEF u

(* add_sample keeps the best samples in order. *)
LEMMA AddSampleStep ==
  ASSUME Ranked(values, samples), NEW val \in Nat, AddSample(val)
  PROVE  Ranked(values', samples')
<1> USE SamplerAssumption
<1> DEFINE v == values
           s == samples
<1>1. v \in Seq(Nat) /\ s \in Seq(Nat) /\ Sorted(v) /\ Len(v) = IF Len(s) < K THEN Len(s) ELSE K
  BY DEF Ranked
<1>2. PICK place : Picks(v, s, place) /\ (Len(s) <= K => Onto(s, place))
  BY DEF Ranked
<1>3. samples' = Append(s, val) /\ Append(s, val) \in Seq(Nat) /\ Len(Append(s, val)) = Len(s) + 1
  BY <1>1 DEF AddSample
<1>4. CASE Len(s) < K
  <2>1. \A j \in DOMAIN s \ Range(place) : val <= s[j]
    BY <1>2, <1>4 DEF Onto
  <2>2. values' = Inserted(v, val)
    BY <1>4 DEF AddSample, samplecount
  <2>3. PICK held : /\ values' \in Seq(Nat) /\ Len(values') = Len(v) + 1 /\ Sorted(values')
                    /\ Picks(values', samples', held)
                    /\ Onto(s, place) => Onto(samples', held)
    BY <1>1, <1>2, <1>3, <2>1, <2>2, PicksInserted
  <2> QED
    BY <1>1, <1>2, <1>3, <1>4, <2>3 DEF Ranked
<1>5. CASE Len(s) >= K /\ val < Last(v)
  <2>1. Len(v) = K /\ Len(v) > 0
    BY <1>1, <1>5
  <2>2. v[Len(v)] \in Nat /\ val < v[Len(v)]
    BY <1>1, <1>5, <2>1 DEF Last
  <2>3. PICK held : /\ Front(v) \in Seq(Nat) /\ Len(Front(v)) = K - 1 /\ Sorted(Front(v))
                    /\ Picks(Front(v), s, held)
                    /\ \A j \in DOMAIN s \ Range(held) : v[Len(v)] <= s[j]
    BY <1>1, <1>2, <2>1, PicksFront
  <2>4. \A j \in DOMAIN s \ Range(held) : val <= s[j]
    BY <1>1, <2>2, <2>3
  <2>5. values' = Inserted(Front(v), val)
    BY <1>1, <1>5 DEF AddSample, samplecount
  <2> QED
    BY <1>1, <1>3, <1>5, <2>3, <2>4, <2>5, PicksInserted DEF Ranked
<1>6. CASE Len(s) >= K /\ ~(val < Last(v))
  <2>1. Len(v) = K /\ Len(v) > 0
    BY <1>1, <1>6
  <2>2. \A i \in DOMAIN v : v[i] <= val
    <3>1. \A i \in DOMAIN v : v[i] \in Nat /\ v[i] <= v[Len(v)]
      <4>1. DOMAIN v = 1 .. Len(v) /\ Len(v) \in DOMAIN v
        BY <1>1, <2>1
      <4>2. v \in [1 .. Len(v) -> Nat]
        BY <1>1
      <4>3. \A i, j \in DOMAIN v : i <= j => v[i] <= v[j]
        BY <1>1 DEF Sorted
      <4>4. \A i \in DOMAIN v : v[i] \in Nat
        BY <4>1, <4>2
      <4>5. \A i \in 1 .. Len(v) : i <= Len(v)
        OBVIOUS
      <4> HIDE DEF v
      <4> QED
        BY <4>1, <4>3, <4>4, <4>5
    <3>2. v[Len(v)] \in Nat /\ v[Len(v)] <= val
      BY <1>1, <1>6, <2>1 DEF Last
    <3> QED
      BY <3>1, <3>2
  <2>3. values' = v
    BY <1>1, <1>6 DEF AddSample, samplecount
  <2>4. Picks(v, Append(s, val), place)
    <3> DEFINE t == Append(s, val)
    <3>1. /\ DOMAIN t = DOMAIN s \cup {Len(s) + 1} /\ t[Len(s) + 1] = val
          /\ \A j \in DOMAIN s : t[j] = s[j] /\ j # Len(s) + 1
      <4>1. s \in Seq(Nat) /\ DOMAIN s = 1 .. Len(s) /\ DOMAIN t = 1 .. Len(s) + 1
        BY <1>1
      <4> QED
        BY <4>1
    <3>2. /\ place \in [DOMAIN v -> DOMAIN s] /\ \A i \in DOMAIN v : v[i] = s[place[i]]
          /\ \A i, j \in DOMAIN v : place[i] = place[j] => i = j
          /\ \A j \in DOMAIN s \ Range(place) : \A i \in DOMAIN v : v[i] <= s[j]
      BY <1>2 DEF Picks, Injection, IsInjective
    <3> HIDE DEF t
    <3>3. place \in [DOMAIN v -> DOMAIN t] /\ \A i \in DOMAIN v : v[i] = t[place[i]]
      BY <3>1, <3>2
    <3>4. \A j \in DOMAIN t \ Range(place) : \A i \in DOMAIN v : v[i] <= t[j]
      BY <2>2, <3>1, <3>2
    <3>5. Picks(v, t, place)
      BY <3>2, <3>3, <3>4 DEF Picks, Injection, IsInjective
    <3> QED
      BY <3>5 DEF t
  <2> QED
    BY <1>1, <1>3, <1>6, <2>3, <2>4 DEF Ranked
<1> QED
  BY <1>1, <1>4, <1>5, <1>6

(* The first value is the shortest of all samples.                          *)
LEMMA FirstIsShortest ==
  ASSUME NEW v, NEW s, Ranked(v, s), Len(v) > 0
  PROVE  v[1] \in Nat /\ \A j \in DOMAIN s : v[1] <= s[j]
<1>1. v \in Seq(Nat) /\ Sorted(v) /\ DOMAIN v = 1 .. Len(v) /\ 1 \in DOMAIN v
  BY DEF Ranked
<1>2. PICK place : Picks(v, s, place)
  BY DEF Ranked
<1>3. /\ place \in [DOMAIN v -> DOMAIN s]
      /\ \A i \in DOMAIN v : v[i] = s[place[i]]
      /\ \A j \in DOMAIN s \ Range(place) : \A i \in DOMAIN v : v[i] <= s[j]
  BY <1>2 DEF Picks, Injection
<1>4. \A i \in DOMAIN v : v[1] <= v[i]
  BY <1>1 DEF Sorted
<1>5. ASSUME NEW j \in Range(place) PROVE v[1] <= s[j]
  BY <1>3, <1>4 DEF Range
<1> QED
  BY <1>1, <1>3, <1>5

(* A measurement keeps the invariant of the sampler. *)
LEMMA SampleStep ==
  ASSUME SamplerInv, Sample
  PROVE  SamplerInv'
<1> USE SamplerAssumption
<1>1. Ranked(values', samples')
  <2>1. PICK sec \in Times : (sec = 0 /\ UNCHANGED <<values, samples>>) \/ (sec > 0 /\ AddSample(sec))
    BY DEF Sample
  <2>2. CASE UNCHANGED <<values, samples>>
    BY <2>2 DEF SamplerInv
  <2>3. CASE AddSample(sec)
    BY <2>3, AddSampleStep DEF SamplerInv
  <2> QED
    BY <2>1, <2>2, <2>3
<1>2. CASE HasConverged(values', Len(samples')) \/ Len(samples') >= MAXSAMPLES
  <2>1. Len(values') > 0
    BY <1>1, <1>2 DEF Ranked, HasConverged
  <2>2. result' = values'[1]
    BY <1>2 DEF Sample
  <2>3. \A j \in DOMAIN samples' : result' <= samples'[j]
    BY <1>1, <2>1, <2>2, FirstIsShortest
  <2> QED
    BY <1>1, <2>3 DEF SamplerInv, Shortest
<1>3. CASE ~(HasConverged(values', Len(samples')) \/ Len(samples') >= MAXSAMPLES)
  <2>1. result' = 0
    BY <1>3 DEF Sample
  <2> QED
    BY <1>1, <2>1 DEF SamplerInv
<1> QED
  BY <1>2, <1>3

(* All steps keep the invariant of the sampler. *)
LEMMA SamplerKept ==
  ASSUME SamplerInv, [CheckNext]_checkVars
  PROVE  SamplerInv'
<1>1. CASE Measure
  BY <1>1, SampleStep DEF Measure
<1>2. CASE UNCHANGED sampleVars
  BY <1>2 DEF sampleVars, SamplerInv, Shortest
<1>3. Invalid => UNCHANGED sampleVars
  BY DEF Invalid
<1> QED
  BY <1>1, <1>2, <1>3
    DEF CheckNext, checkVars, StartPass, HeapCheckFails, EndTrace, ReallocTo, Alloc, Free, ReallocFrom

(* For every K and MAXSAMPLES and whatever the clock measures: the array of *)
(* add_sample is sorted and holds the K shortest samples, and fsec returns   *)
(* the shortest of all.                                                     *)
THEOREM BestSamplesHeld == CheckSpec => []BestSamples
<1>1. CheckInit => SamplerInv
  <2> SUFFICES ASSUME SamplerInit PROVE SamplerInv
    BY DEF CheckInit
  <2>1. values = <<>> /\ samples = <<>> /\ result = 0
    BY DEF SamplerInit
  <2>2. Picks(<<>>, <<>>, <<>>) /\ Onto(<<>>, <<>>)
    BY DEF Picks, Onto, Injection, IsInjective
  <2>3. Ranked(<<>>, <<>>)
    BY <2>2, SamplerAssumption DEF Ranked, Sorted
  <2> QED
    BY <2>1, <2>3 DEF SamplerInv
<1>2. SamplerInv /\ [CheckNext]_checkVars => SamplerInv'
  BY SamplerKept
<1>3. SamplerInv => BestSamples
  BY DEF SamplerInv, Ranked, BestSamples, Picks, TakesShortest, samplecount
<1> QED
  BY <1>1, <1>2, <1>3, PTL DEF CheckSpec

-----------------------------------------------------------------------------
(* The splay tree.  Every node z has an interval low[z] .. high[z] that     *)
(* holds the keys of its subtree: what is left of z for its left subtree,    *)
(* what is right of z for its right one.  Where a child is missing there is  *)
(* no key in its interval.  A rotation changes the intervals of two nodes.   *)
Gap(keys, l, h) == \A k \in keys : k <= l \/ h <= k
LeftChild(t, keys, low, high, z) ==
  IF t.left[z] = NULL THEN Gap(keys, low[z], z)
  ELSE /\ t.left[z] \in keys /\ t.parent[t.left[z]] = z
       /\ low[t.left[z]] = low[z] /\ high[t.left[z]] = z
RightChild(t, keys, low, high, z) ==
  IF t.right[z] = NULL THEN Gap(keys, z, high[z])
  ELSE /\ t.right[z] \in keys /\ t.parent[t.right[z]] = z
       /\ low[t.right[z]] = z /\ high[t.right[z]] = high[z]
Above(t, keys, z) ==
  z = t.root \/ /\ t.parent[z] \in keys
                /\ t.left[t.parent[z]] = z \/ t.right[t.parent[z]] = z
RootOf(t, keys, low, high) ==
  IF t.root = NULL THEN keys = {}
  ELSE /\ t.root \in keys /\ t.parent[t.root] = NULL
       /\ \A a \in Addresses : low[t.root] < a /\ a < high[t.root]
(* The interval of k is on one side of the interval or of the key of z.     *)
Beside(low, high, k, z) ==
  \/ high[k] <= low[z]
  \/ low[z] <= low[k] /\ high[k] <= z
  \/ z <= low[k] /\ high[k] <= high[z]
Laminar(keys, low, high) ==
  \A k, z \in keys : k # z => Beside(low, high, k, z) \/ Beside(low, high, z, k)
Search(t, keys, low, high) ==
  /\ t \in Trees /\ keys \subseteq Addresses
  /\ low \in [Addresses -> Int] /\ high \in [Addresses -> Int]
  /\ RootOf(t, keys, low, high)
  /\ \A z \in keys : low[z] < z /\ z < high[z]
  /\ Laminar(keys, low, high)
  /\ \A z \in keys : LeftChild(t, keys, low, high, z)
  /\ \A z \in keys : RightChild(t, keys, low, high, z)
  /\ \A z \in keys : Above(t, keys, z)

(* The types and the nesting of the intervals of a search tree. *)
LEMMA SearchTypes ==
  ASSUME NEW t, NEW keys, NEW low, NEW high, Search(t, keys, low, high)
  PROVE  /\ t \in Trees
         /\ keys \subseteq Addresses /\ keys \subseteq Int /\ NULL \notin keys
         /\ \A z \in keys : /\ low[z] \in Int /\ high[z] \in Int
                            /\ low[z] < z /\ z < high[z]
         /\ Laminar(keys, low, high)
<1>1. keys \subseteq Addresses /\ low \in [Addresses -> Int] /\ high \in [Addresses -> Int]
  BY DEF Search
<1>2. keys \subseteq Int /\ NULL \notin keys
  <2>1. keys \subseteq Int
    BY <1>1, RangeAssumption
  <2>2. NULL \notin keys
    BY <1>1, RangeAssumption
  <2> QED
    BY <2>1, <2>2
<1>3. \A z \in keys : low[z] \in Int /\ high[z] \in Int
  BY <1>1
<1>4. t \in Trees /\ Laminar(keys, low, high) /\ \A z \in keys : low[z] < z /\ z < high[z]
  BY DEF Search
<1> QED
  BY <1>1, <1>2, <1>3, <1>4

(* The fields of a tree have their types. *)
LEMMA TreeFields ==
  ASSUME NEW t \in Trees
  PROVE  /\ t.root \in Nodes
         /\ t.left \in [Addresses -> Nodes]
         /\ t.right \in [Addresses -> Nodes]
         /\ t.parent \in [Addresses -> Nodes]
BY DEF Trees

(* A tree is made of four fields of these types. *)
LEMMA TreeMade ==
  ASSUME NEW r \in Nodes, NEW f \in [Addresses -> Nodes], NEW g \in [Addresses -> Nodes],
         NEW h \in [Addresses -> Nodes]
  PROVE  [root |-> r, left |-> f, right |-> g, parent |-> h] \in Trees
BY DEF Trees

(* Replace puts v where u was. *)
LEMMA ReplaceIs ==
  ASSUME NEW t \in Trees, NEW u \in Addresses, NEW v \in Nodes,
         NEW p, p = t.parent[u], NEW r, r = Replace(t, u, v)
  PROVE  /\ r \in Trees
         /\ r.root = IF p = NULL THEN v ELSE t.root
         /\ \A a \in Addresses :
              /\ r.left[a] = IF a = p /\ t.left[p] = u THEN v ELSE t.left[a]
              /\ r.right[a] = IF a = p /\ t.left[p] # u THEN v ELSE t.right[a]
              /\ r.parent[a] = IF a = v THEN p ELSE t.parent[a]
<1> DEFINE root == IF p = NULL THEN v ELSE t.root
           left == IF p # NULL /\ t.left[p] = u THEN Store(t.left, p, v) ELSE t.left
           right == IF p # NULL /\ t.left[p] # u THEN Store(t.right, p, v) ELSE t.right
           parent == Store(t.parent, v, p)
<1>1. /\ t.root \in Nodes /\ t.left \in [Addresses -> Nodes]
      /\ t.right \in [Addresses -> Nodes] /\ t.parent \in [Addresses -> Nodes]
  BY TreeFields
<1>2. p \in Nodes /\ \A a \in Addresses : a # NULL
  BY <1>1, RangeAssumption
<1>3. root \in Nodes
  BY <1>1
<1>4. left \in [Addresses -> Nodes]
      /\ \A a \in Addresses : left[a] = IF a = p /\ t.left[p] = u THEN v ELSE t.left[a]
  BY <1>1, <1>2, StoreLink DEF Nodes
<1>5. right \in [Addresses -> Nodes]
      /\ \A a \in Addresses : right[a] = IF a = p /\ t.left[p] # u THEN v ELSE t.right[a]
  BY <1>1, <1>2, StoreLink DEF Nodes
<1>6. parent \in [Addresses -> Nodes]
      /\ \A a \in Addresses : parent[a] = IF a = v THEN p ELSE t.parent[a]
  BY <1>1, <1>2, StoreLink DEF Nodes
<1>7. r = [root |-> root, left |-> left, right |-> right, parent |-> parent]
  BY DEF Replace
<1> HIDE DEF root, left, right, parent
<1>8. [root |-> root, left |-> left, right |-> right, parent |-> parent] \in Trees
  BY <1>3, <1>4, <1>5, <1>6, TreeMade
<1>9. root = IF p = NULL THEN v ELSE t.root
  BY DEF root
<1> QED
  BY <1>4, <1>5, <1>6, <1>7, <1>8, <1>9

(* LeftRotate changes the links of three nodes and of the parent. *)
LEMMA LeftRotateIs ==
  ASSUME NEW t \in Trees, NEW x \in Addresses, NEW y \in Addresses, y = t.right[x],
         NEW p, p = t.parent[x], NEW b, b = t.left[y], NEW r, r = LeftRotate(t, x)
  PROVE  /\ r \in Trees
         /\ r.root = IF p = NULL THEN y ELSE t.root
         /\ \A a \in Addresses :
              /\ r.left[a] = IF a = y THEN x ELSE IF a = p /\ t.left[p] = x THEN y ELSE t.left[a]
              /\ r.right[a] = IF a = x THEN b ELSE IF a = p /\ t.left[p] # x THEN y ELSE t.right[a]
              /\ r.parent[a] = IF a = x THEN y ELSE IF a = b THEN x
                               ELSE IF a = y THEN p ELSE t.parent[a]
<1> DEFINE up == Replace(t, x, y)
           left == Store(up.left, y, x)
           right == Store(up.right, x, b)
           parent == Store(Store(up.parent, b, x), x, y)
<1>1. y \in Nodes /\ x \in Nodes /\ b \in Nodes
  BY TreeFields DEF Nodes
<1>2. /\ up \in Trees
      /\ up.root = IF p = NULL THEN y ELSE t.root
      /\ \A a \in Addresses :
           /\ up.left[a] = IF a = p /\ t.left[p] = x THEN y ELSE t.left[a]
           /\ up.right[a] = IF a = p /\ t.left[p] # x THEN y ELSE t.right[a]
           /\ up.parent[a] = IF a = y THEN p ELSE t.parent[a]
  BY <1>1, ReplaceIs
<1>3. r = [root |-> up.root, left |-> left, right |-> right, parent |-> parent]
  BY DEF LeftRotate
<1> HIDE DEF up
<1>4. /\ up.root \in Nodes /\ up.left \in [Addresses -> Nodes]
      /\ up.right \in [Addresses -> Nodes] /\ up.parent \in [Addresses -> Nodes]
  BY <1>2, TreeFields
<1>5. left \in [Addresses -> Nodes] /\ \A a \in Addresses : left[a] = IF a = y THEN x ELSE up.left[a]
  BY <1>1, <1>4, StoreLink DEF Nodes
<1>6. right \in [Addresses -> Nodes] /\ \A a \in Addresses : right[a] = IF a = x THEN b ELSE up.right[a]
  BY <1>1, <1>4, StoreLink DEF Nodes
<1>7. parent \in [Addresses -> Nodes]
      /\ \A a \in Addresses : parent[a] = IF a = x THEN y ELSE IF a = b THEN x ELSE up.parent[a]
  <2> DEFINE f == Store(up.parent, b, x)
  <2>1. f \in [Addresses -> Nodes] /\ \A a \in Addresses : f[a] = IF a = b THEN x ELSE up.parent[a]
    BY <1>1, <1>4, StoreLink DEF Nodes
  <2> HIDE DEF f
  <2>2. Store(f, x, y) \in [Addresses -> Nodes]
        /\ \A a \in Addresses : Store(f, x, y)[a] = IF a = x THEN y ELSE f[a]
    BY <1>1, <2>1, StoreLink DEF Nodes
  <2> QED
    BY <2>1, <2>2 DEF f
<1> HIDE DEF left, right, parent
<1>8. [root |-> up.root, left |-> left, right |-> right, parent |-> parent] \in Trees
  BY <1>4, <1>5, <1>6, <1>7, TreeMade
<1>9. r \in Trees /\ r.root = up.root /\ r.left = left /\ r.right = right /\ r.parent = parent
  BY <1>3, <1>8
<1> QED
  BY <1>2, <1>5, <1>6, <1>7, <1>9

(* What the rotations keep: a tree over the same keys in which only the     *)
(* intervals of x and of its child y have changed.                          *)
LEMMA LeftRotateKeeps ==
  ASSUME NEW t, NEW keys, NEW low, NEW high, Search(t, keys, low, high),
         NEW x \in keys, NEW y, y = t.right[x], y # NULL,
         NEW r, r = LeftRotate(t, x),
         NEW lo2 \in [Addresses -> Int],
         \A z \in Addresses : lo2[z] = IF z = y THEN low[x] ELSE low[z],
         NEW hi2 \in [Addresses -> Int],
         \A z \in Addresses : hi2[z] = IF z = x THEN y ELSE high[z]
  PROVE  y \in keys /\ x # y /\ Search(r, keys, lo2, hi2)
<1> USE RangeAssumption
<1>1. /\ t \in Trees /\ keys \subseteq Addresses
      /\ low \in [Addresses -> Int] /\ high \in [Addresses -> Int]
      /\ RootOf(t, keys, low, high)
      /\ \A z \in keys : low[z] < z /\ z < high[z]
      /\ \A z \in keys : LeftChild(t, keys, low, high, z)
      /\ \A z \in keys : RightChild(t, keys, low, high, z)
      /\ \A z \in keys : Above(t, keys, z)
  BY DEF Search
<1>14. keys \subseteq Addresses /\ low \in [Addresses -> Int] /\ high \in [Addresses -> Int]
  BY DEF Search
<1>0. keys \subseteq Int /\ NULL \notin keys
      /\ \A z \in keys : low[z] \in Int /\ high[z] \in Int
  <2>1. keys \subseteq Int
    BY <1>14
  <2>2. NULL \notin keys
    BY <1>14
  <2>3. \A z \in keys : low[z] \in Int /\ high[z] \in Int
    BY <1>14
  <2> QED
    BY <2>1, <2>2, <2>3
<1>2. y \in keys /\ t.parent[y] = x /\ low[y] = x /\ high[y] = high[x] /\ y # x
  BY <1>1 DEF RightChild
<1>13. PICK p, b : p = t.parent[x] /\ b = t.left[y]
  OBVIOUS
<1>3. /\ r \in Trees
      /\ r.root = IF p = NULL THEN y ELSE t.root
      /\ \A a \in Addresses :
           /\ r.left[a] = IF a = y THEN x ELSE IF a = p /\ t.left[p] = x THEN y ELSE t.left[a]
           /\ r.right[a] = IF a = x THEN b ELSE IF a = p /\ t.left[p] # x THEN y ELSE t.right[a]
           /\ r.parent[a] = IF a = x THEN y ELSE IF a = b THEN x
                            ELSE IF a = y THEN p ELSE t.parent[a]
  BY <1>0, <1>1, <1>2, <1>13, LeftRotateIs
<1>4. /\ lo2 \in [Addresses -> Int] /\ hi2 \in [Addresses -> Int]
      /\ \A z \in keys : lo2[z] = IF z = y THEN low[x] ELSE low[z]
      /\ \A z \in keys : hi2[z] = IF z = x THEN y ELSE high[z]
      /\ \A z \in Addresses : z \notin {x, y} => lo2[z] = low[z] /\ hi2[z] = high[z]
  BY <1>0, <1>1, <1>2
<1>5. IF b = NULL THEN Gap(keys, x, y)
      ELSE b \in keys /\ t.parent[b] = y /\ low[b] = x /\ high[b] = y /\ b \notin {x, y}
  <2>1. LeftChild(t, keys, low, high, y)
    BY <1>1, <1>2
  <2>2. CASE b = NULL
    BY <1>2, <1>13, <2>1, <2>2 DEF LeftChild
  <2>3. CASE b # NULL
    <3>1. b \in keys /\ t.parent[b] = y /\ low[b] = x /\ high[b] = y
      BY <1>2, <1>13, <2>1, <2>3 DEF LeftChild
    <3>2. low[b] < b /\ b < high[b]
      BY <1>1, <3>1
    <3> QED
      BY <1>0, <2>3, <3>1, <3>2
  <2> QED
    BY <2>2, <2>3
<1>6. \/ /\ p = NULL /\ x = t.root
         /\ \A a \in Addresses : low[x] < a /\ a < high[x]
      \/ /\ p \in keys /\ p \notin {x, y} /\ t.left[p] = x /\ t.right[p] # x
         /\ low[x] = low[p] /\ high[x] = p /\ x # t.root
      \/ /\ p \in keys /\ p \notin {x, y} /\ t.right[p] = x /\ t.left[p] # x
         /\ low[x] = p /\ high[x] = high[p] /\ x # t.root
  <2>1. CASE x = t.root
    BY <1>0, <1>1, <1>13, <2>1 DEF RootOf
  <2>2. CASE x # t.root
    <3>1. p \in keys /\ (t.left[p] = x \/ t.right[p] = x)
      BY <1>0, <1>1, <1>13, <2>2 DEF Above
    <3>2. t.left[p] = x => low[x] = low[p] /\ high[x] = p
      BY <1>0, <1>1, <3>1 DEF LeftChild
    <3>3. t.right[p] = x => low[x] = p /\ high[x] = high[p]
      BY <1>0, <1>1, <3>1 DEF RightChild
    <3> QED
      BY <1>0, <1>1, <1>2, <2>2, <3>1, <3>2, <3>3
  <2> QED
    BY <2>1, <2>2
<1>7. RootOf(r, keys, lo2, hi2)
  <2>1. CASE p = NULL
    BY <1>0, <1>1, <1>2, <1>3, <1>4, <1>5, <1>6, <2>1 DEF RootOf
  <2>2. CASE p # NULL
    <3>1. t.root \in keys /\ t.parent[t.root] = NULL /\ t.root # x
          /\ \A a \in Addresses : low[t.root] < a /\ a < high[t.root]
      BY <1>0, <1>1, <1>6, <2>2 DEF RootOf
    <3>2. t.root # y /\ t.root # b
      BY <1>0, <1>1, <1>2, <1>5, <3>1
    <3> QED
      BY <1>0, <1>1, <1>3, <1>4, <2>2, <3>1, <3>2 DEF RootOf
  <2> QED
    BY <2>1, <2>2
<1>8. ASSUME NEW z \in keys PROVE lo2[z] < z /\ z < hi2[z]
  <2>1. low[z] < z /\ z < high[z] /\ low[x] < x /\ x < high[x] /\ low[y] < y /\ y < high[y]
    BY <1>1, <1>2
  <2>2. lo2[z] = IF z = y THEN low[x] ELSE low[z]
    BY <1>4
  <2>3. hi2[z] = IF z = x THEN y ELSE high[z]
    BY <1>4
  <2> QED
    BY <1>0, <1>2, <2>1, <2>2, <2>3
<1>9. ASSUME NEW z \in keys PROVE LeftChild(r, keys, lo2, hi2, z)
  <2>1. CASE z = y
    BY <1>0, <1>1, <1>2, <1>3, <1>4, <2>1 DEF LeftChild
  <2>2. CASE z # y /\ z = p /\ t.left[p] = x
    BY <1>0, <1>1, <1>2, <1>3, <1>4, <1>5, <1>6, <2>2 DEF LeftChild
  <2>3. CASE z # y /\ ~(z = p /\ t.left[p] = x)
    <3>1. r.left[z] = t.left[z]
      BY <1>0, <1>1, <1>3, <2>3
    <3>2. CASE t.left[z] = NULL
      <4>1. Gap(keys, low[z], z)
        BY <1>0, <1>1, <3>2 DEF LeftChild
      <4> QED
        BY <1>4, <2>3, <3>1, <3>2, <4>1 DEF LeftChild
    <3>3. CASE t.left[z] # NULL
      <4>9. PICK c : c = t.left[z]
        OBVIOUS
      <4>1. c \in keys /\ t.parent[c] = z /\ low[c] = low[z] /\ high[c] = z
        BY <1>0, <1>1, <3>3, <4>9 DEF LeftChild
      <4>2. c # x
        BY <1>6, <2>3, <4>1, <4>9, <1>13
      <4>3. c # y
        BY <1>0, <1>1, <1>2, <4>1
      <4>4. c # b
        BY <1>0, <1>5, <2>3, <4>1
      <4> QED
        BY <1>0, <1>1, <1>3, <1>4, <2>3, <3>1, <3>3, <4>1, <4>2, <4>3, <4>4, <4>9 DEF LeftChild
    <3> QED
      BY <3>2, <3>3
  <2> QED
    BY <2>1, <2>2, <2>3
<1>10. ASSUME NEW z \in keys PROVE RightChild(r, keys, lo2, hi2, z)
  <2>1. CASE z = x
    <3>1. CASE b = NULL
      BY <1>0, <1>1, <1>2, <1>3, <1>4, <1>5, <2>1, <3>1 DEF RightChild
    <3>2. CASE b # NULL
      <4>1. r.right[z] = b /\ b \in keys /\ r.parent[b] = x
        BY <1>1, <1>3, <1>5, <2>1, <3>2
      <4>2. lo2[b] = x /\ hi2[b] = y /\ hi2[z] = y
        BY <1>4, <1>5, <2>1, <3>2
      <4> QED
        BY <2>1, <3>2, <4>1, <4>2 DEF RightChild
    <3> QED
      BY <3>1, <3>2
  <2>2. CASE z # x /\ z = p /\ t.left[p] # x
    BY <1>0, <1>1, <1>2, <1>3, <1>4, <1>5, <1>6, <2>2 DEF RightChild
  <2>3. CASE z # x /\ ~(z = p /\ t.left[p] # x)
    <3>1. r.right[z] = t.right[z]
      BY <1>0, <1>1, <1>3, <2>3
    <3>2. CASE t.right[z] = NULL
      <4>1. Gap(keys, z, high[z])
        BY <1>0, <1>1, <3>2 DEF RightChild
      <4> QED
        BY <1>4, <2>3, <3>1, <3>2, <4>1 DEF RightChild
    <3>3. CASE t.right[z] # NULL
      <4>9. PICK c : c = t.right[z]
        OBVIOUS
      <4>1. c \in keys /\ t.parent[c] = z /\ low[c] = z /\ high[c] = high[z]
        BY <1>0, <1>1, <3>3, <4>9 DEF RightChild
      <4>2. c # x
        BY <1>0, <1>6, <2>3, <4>1, <4>9, <1>13
      <4>3. c # y
        BY <1>0, <1>1, <1>2, <2>3, <4>1
      <4>4. c # b
        BY <1>0, <1>1, <1>2, <1>5, <4>1
      <4> QED
        BY <1>0, <1>1, <1>3, <1>4, <2>3, <3>1, <3>3, <4>1, <4>2, <4>3, <4>4, <4>9 DEF RightChild
    <3> QED
      BY <3>2, <3>3
  <2> QED
    BY <2>1, <2>2, <2>3
<1>11. ASSUME NEW z \in keys PROVE Above(r, keys, z)
  <2>1. CASE z = x
    BY <1>0, <1>1, <1>2, <1>3, <2>1 DEF Above
  <2>2. CASE z = b
    BY <1>0, <1>1, <1>2, <1>3, <1>5, <2>2 DEF Above
  <2>3. CASE z = y
    <3>1. CASE p = NULL
      BY <1>0, <1>1, <1>3, <2>3, <3>1 DEF Above
    <3>2. CASE p # NULL
      BY <1>0, <1>1, <1>2, <1>3, <1>5, <1>6, <2>3, <3>2 DEF Above
    <3> QED
      BY <3>1, <3>2
  <2>4. CASE z \notin {x, y, b}
    <3>1. CASE z = t.root
      <4>1. p # NULL
        BY <1>0, <1>6, <2>4, <3>1
      <4> QED
        BY <1>0, <1>1, <1>3, <3>1, <4>1 DEF Above
    <3>2. CASE z # t.root
      <4> DEFINE q == t.parent[z]
      <4>1. q \in keys /\ (t.left[q] = z \/ t.right[q] = z)
        BY <1>0, <1>1, <3>2 DEF Above
      <4>2. r.parent[z] = q
        BY <1>0, <1>1, <1>3, <2>4
      <4>3. t.left[q] = z => r.left[q] = z
        <5>1. CASE q = y
          BY <2>4, <5>1, <1>13
        <5> QED
          BY <1>0, <1>1, <1>3, <2>4, <4>1, <5>1
      <4>4. t.right[q] = z => r.right[q] = z
        <5>1. CASE q = x
          BY <2>4, <5>1, <1>13
        <5>2. CASE q = p /\ t.left[p] # x
          <6>1. t.right[p] = x
            BY <1>0, <1>6, <4>1, <5>2
          <6> QED
            BY <2>4, <5>2, <6>1
        <5> QED
          BY <1>0, <1>1, <1>3, <2>4, <4>1, <5>1, <5>2
      <4> QED
        BY <4>1, <4>2, <4>3, <4>4 DEF Above
    <3> QED
      BY <3>1, <3>2
  <2> QED
    BY <2>1, <2>2, <2>3, <2>4
<1>15. Laminar(keys, lo2, hi2)
  <2>1. \A k, z \in keys : k # z => Beside(low, high, k, z) \/ Beside(low, high, z, k)
    BY DEF Search, Laminar
  <2>2. /\ low[x] < x /\ x < high[x] /\ low[y] < y /\ y < high[y]
        /\ \A k \in {x, y} : k \in Int /\ low[k] \in Int /\ high[k] \in Int
    BY <1>0, <1>1, <1>2
  <2>3. lo2[x] = low[x] /\ hi2[x] = y /\ lo2[y] = low[x] /\ hi2[y] = high[x]
    BY <1>2, <1>4, <2>2
  <2>4. ASSUME NEW k \in keys \ {x, y}
        PROVE  /\ Beside(lo2, hi2, k, x) \/ Beside(lo2, hi2, x, k)
               /\ Beside(lo2, hi2, k, y) \/ Beside(lo2, hi2, y, k)
    <3>1. lo2[k] = low[k] /\ hi2[k] = high[k] /\ k \in Int /\ low[k] \in Int /\ high[k] \in Int
          /\ low[k] < k /\ k < high[k]
      BY <1>0, <1>1, <1>4
    <3>2. (Beside(low, high, k, x) \/ Beside(low, high, x, k))
          /\ (Beside(low, high, k, y) \/ Beside(low, high, y, k))
      BY <1>2, <2>1
    <3>3. Beside(lo2, hi2, k, x) \/ Beside(lo2, hi2, x, k)
      BY <1>2, <2>2, <2>3, <3>1, <3>2 DEF Beside
    <3>4. Beside(lo2, hi2, k, y) \/ Beside(lo2, hi2, y, k)
      BY <1>2, <2>2, <2>3, <3>1, <3>2 DEF Beside
    <3> QED
      BY <3>3, <3>4
  <2>5. Beside(lo2, hi2, x, y)
    BY <1>2, <2>2, <2>3 DEF Beside
  <2>6. ASSUME NEW k \in keys \ {x, y}, NEW z \in keys \ {x, y}, k # z
        PROVE  Beside(lo2, hi2, k, z) \/ Beside(lo2, hi2, z, k)
    <3>1. lo2[k] = low[k] /\ hi2[k] = high[k] /\ lo2[z] = low[z] /\ hi2[z] = high[z]
      BY <1>4
    <3>2. Beside(low, high, k, z) \/ Beside(low, high, z, k)
      BY <2>1, <2>6
    <3> QED
      BY <3>1, <3>2 DEF Beside
  <2> QED
    BY <2>4, <2>5, <2>6 DEF Laminar
<1>12. Search(r, keys, lo2, hi2)
  BY <1>0, <1>1, <1>3, <1>4, <1>7, <1>8, <1>9, <1>10, <1>11, <1>15 DEF Search
<1> QED
  BY <1>2, <1>12

(* RightRotate does the same on the other side. *)
LEMMA RightRotateIs ==
  ASSUME NEW t \in Trees, NEW x \in Addresses, NEW y \in Addresses, y = t.left[x],
         NEW p, p = t.parent[x], NEW b, b = t.right[y], NEW r, r = RightRotate(t, x)
  PROVE  /\ r \in Trees
         /\ r.root = IF p = NULL THEN y ELSE t.root
         /\ \A a \in Addresses :
              /\ r.right[a] = IF a = y THEN x ELSE IF a = p /\ t.left[p] # x THEN y ELSE t.right[a]
              /\ r.left[a] = IF a = x THEN b ELSE IF a = p /\ t.left[p] = x THEN y ELSE t.left[a]
              /\ r.parent[a] = IF a = x THEN y ELSE IF a = b THEN x
                               ELSE IF a = y THEN p ELSE t.parent[a]
<1> DEFINE up == Replace(t, x, y)
           right == Store(up.right, y, x)
           left == Store(up.left, x, b)
           parent == Store(Store(up.parent, b, x), x, y)
<1>1. y \in Nodes /\ x \in Nodes /\ b \in Nodes
  BY TreeFields DEF Nodes
<1>2. /\ up \in Trees
      /\ up.root = IF p = NULL THEN y ELSE t.root
      /\ \A a \in Addresses :
           /\ up.right[a] = IF a = p /\ t.left[p] # x THEN y ELSE t.right[a]
           /\ up.left[a] = IF a = p /\ t.left[p] = x THEN y ELSE t.left[a]
           /\ up.parent[a] = IF a = y THEN p ELSE t.parent[a]
  BY <1>1, ReplaceIs
<1>3. r = [root |-> up.root, right |-> right, left |-> left, parent |-> parent]
  BY DEF RightRotate
<1> HIDE DEF up
<1>4. /\ up.root \in Nodes /\ up.right \in [Addresses -> Nodes]
      /\ up.left \in [Addresses -> Nodes] /\ up.parent \in [Addresses -> Nodes]
  BY <1>2, TreeFields
<1>5. right \in [Addresses -> Nodes] /\ \A a \in Addresses : right[a] = IF a = y THEN x ELSE up.right[a]
  BY <1>1, <1>4, StoreLink DEF Nodes
<1>6. left \in [Addresses -> Nodes] /\ \A a \in Addresses : left[a] = IF a = x THEN b ELSE up.left[a]
  BY <1>1, <1>4, StoreLink DEF Nodes
<1>7. parent \in [Addresses -> Nodes]
      /\ \A a \in Addresses : parent[a] = IF a = x THEN y ELSE IF a = b THEN x ELSE up.parent[a]
  <2> DEFINE f == Store(up.parent, b, x)
  <2>1. f \in [Addresses -> Nodes] /\ \A a \in Addresses : f[a] = IF a = b THEN x ELSE up.parent[a]
    BY <1>1, <1>4, StoreLink DEF Nodes
  <2> HIDE DEF f
  <2>2. Store(f, x, y) \in [Addresses -> Nodes]
        /\ \A a \in Addresses : Store(f, x, y)[a] = IF a = x THEN y ELSE f[a]
    BY <1>1, <2>1, StoreLink DEF Nodes
  <2> QED
    BY <2>1, <2>2 DEF f
<1> HIDE DEF right, left, parent
<1>8. [root |-> up.root, right |-> right, left |-> left, parent |-> parent] \in Trees
  BY <1>4, <1>5, <1>6, <1>7, TreeMade
<1>9. r \in Trees /\ r.root = up.root /\ r.right = right /\ r.left = left /\ r.parent = parent
  BY <1>3, <1>8
<1> QED
  BY <1>2, <1>5, <1>6, <1>7, <1>9

(* A rotation to the right keeps a search tree one. *)
LEMMA RightRotateKeeps ==
  ASSUME NEW t, NEW keys, NEW low, NEW high, Search(t, keys, low, high),
         NEW x \in keys, NEW y, y = t.left[x], y # NULL,
         NEW r, r = RightRotate(t, x),
         NEW hi2 \in [Addresses -> Int],
         \A z \in Addresses : hi2[z] = IF z = y THEN high[x] ELSE high[z],
         NEW lo2 \in [Addresses -> Int],
         \A z \in Addresses : lo2[z] = IF z = x THEN y ELSE low[z]
  PROVE  y \in keys /\ x # y /\ Search(r, keys, lo2, hi2)
<1> USE RangeAssumption
<1>1. /\ t \in Trees /\ keys \subseteq Addresses
      /\ high \in [Addresses -> Int] /\ low \in [Addresses -> Int]
      /\ RootOf(t, keys, low, high)
      /\ \A z \in keys : low[z] < z /\ z < high[z]
      /\ \A z \in keys : RightChild(t, keys, low, high, z)
      /\ \A z \in keys : LeftChild(t, keys, low, high, z)
      /\ \A z \in keys : Above(t, keys, z)
  BY DEF Search
<1>14. keys \subseteq Addresses /\ high \in [Addresses -> Int] /\ low \in [Addresses -> Int]
  BY DEF Search
<1>0. keys \subseteq Int /\ NULL \notin keys
      /\ \A z \in keys : high[z] \in Int /\ low[z] \in Int
  <2>1. keys \subseteq Int
    BY <1>14
  <2>2. NULL \notin keys
    BY <1>14
  <2>3. \A z \in keys : high[z] \in Int /\ low[z] \in Int
    BY <1>14
  <2> QED
    BY <2>1, <2>2, <2>3
<1>2. y \in keys /\ t.parent[y] = x /\ high[y] = x /\ low[y] = low[x] /\ y # x
  <2>1. y \in keys /\ t.parent[y] = x /\ high[y] = x /\ low[y] = low[x]
    BY <1>1 DEF LeftChild
  <2>2. y < high[y]
    BY <1>1, <2>1
  <2> QED
    BY <1>0, <2>1, <2>2
<1>13. PICK p, b : p = t.parent[x] /\ b = t.right[y]
  OBVIOUS
<1>3. /\ r \in Trees
      /\ r.root = IF p = NULL THEN y ELSE t.root
      /\ \A a \in Addresses :
           /\ r.right[a] = IF a = y THEN x ELSE IF a = p /\ t.left[p] # x THEN y ELSE t.right[a]
           /\ r.left[a] = IF a = x THEN b ELSE IF a = p /\ t.left[p] = x THEN y ELSE t.left[a]
           /\ r.parent[a] = IF a = x THEN y ELSE IF a = b THEN x
                            ELSE IF a = y THEN p ELSE t.parent[a]
  BY <1>0, <1>1, <1>2, <1>13, RightRotateIs
<1>4. /\ hi2 \in [Addresses -> Int] /\ lo2 \in [Addresses -> Int]
      /\ \A z \in keys : hi2[z] = IF z = y THEN high[x] ELSE high[z]
      /\ \A z \in keys : lo2[z] = IF z = x THEN y ELSE low[z]
      /\ \A z \in Addresses : z \notin {x, y} => hi2[z] = high[z] /\ lo2[z] = low[z]
  BY <1>0, <1>1, <1>2
<1>5. IF b = NULL THEN Gap(keys, y, x)
      ELSE b \in keys /\ t.parent[b] = y /\ high[b] = x /\ low[b] = y /\ b \notin {x, y}
  <2>1. RightChild(t, keys, low, high, y)
    BY <1>1, <1>2
  <2>2. CASE b = NULL
    BY <1>2, <1>13, <2>1, <2>2 DEF RightChild
  <2>3. CASE b # NULL
    <3>1. b \in keys /\ t.parent[b] = y /\ high[b] = x /\ low[b] = y
      BY <1>2, <1>13, <2>1, <2>3 DEF RightChild
    <3>2. low[b] < b /\ b < high[b]
      BY <1>1, <3>1
    <3> QED
      BY <1>0, <2>3, <3>1, <3>2
  <2> QED
    BY <2>2, <2>3
<1>6. \/ /\ p = NULL /\ x = t.root
         /\ \A a \in Addresses : low[x] < a /\ a < high[x]
      \/ /\ p \in keys /\ p \notin {x, y} /\ t.right[p] = x /\ t.left[p] # x
         /\ high[x] = high[p] /\ low[x] = p /\ x # t.root
      \/ /\ p \in keys /\ p \notin {x, y} /\ t.left[p] = x /\ t.right[p] # x
         /\ high[x] = p /\ low[x] = low[p] /\ x # t.root
  <2>1. CASE x = t.root
    BY <1>0, <1>1, <1>13, <2>1 DEF RootOf
  <2>2. CASE x # t.root
    <3>1. p \in keys /\ (t.right[p] = x \/ t.left[p] = x)
      BY <1>0, <1>1, <1>13, <2>2 DEF Above
    <3>2. t.right[p] = x => high[x] = high[p] /\ low[x] = p
      BY <1>0, <1>1, <3>1 DEF RightChild
    <3>3. t.left[p] = x => high[x] = p /\ low[x] = low[p]
      BY <1>0, <1>1, <3>1 DEF LeftChild
    <3> QED
      BY <1>0, <1>1, <1>2, <2>2, <3>1, <3>2, <3>3
  <2> QED
    BY <2>1, <2>2
<1>7. RootOf(r, keys, lo2, hi2)
  <2>1. CASE p = NULL
    BY <1>0, <1>1, <1>2, <1>3, <1>4, <1>5, <1>6, <2>1 DEF RootOf
  <2>2. CASE p # NULL
    <3>1. t.root \in keys /\ t.parent[t.root] = NULL /\ t.root # x
          /\ \A a \in Addresses : low[t.root] < a /\ a < high[t.root]
      BY <1>0, <1>1, <1>6, <2>2 DEF RootOf
    <3>2. t.root # y /\ t.root # b
      BY <1>0, <1>1, <1>2, <1>5, <3>1
    <3> QED
      BY <1>0, <1>1, <1>3, <1>4, <2>2, <3>1, <3>2 DEF RootOf
  <2> QED
    BY <2>1, <2>2
<1>8. ASSUME NEW z \in keys PROVE lo2[z] < z /\ z < hi2[z]
  <2>1. low[z] < z /\ z < high[z] /\ low[x] < x /\ x < high[x] /\ low[y] < y /\ y < high[y]
    BY <1>1, <1>2
  <2>2. hi2[z] = IF z = y THEN high[x] ELSE high[z]
    BY <1>4
  <2>3. lo2[z] = IF z = x THEN y ELSE low[z]
    BY <1>4
  <2> QED
    BY <1>0, <1>2, <2>1, <2>2, <2>3
<1>9. ASSUME NEW z \in keys PROVE RightChild(r, keys, lo2, hi2, z)
  <2>1. CASE z = y
    BY <1>0, <1>1, <1>2, <1>3, <1>4, <2>1 DEF RightChild
  <2>2. CASE z # y /\ z = p /\ t.left[p] # x
    BY <1>0, <1>1, <1>2, <1>3, <1>4, <1>5, <1>6, <2>2 DEF RightChild
  <2>3. CASE z # y /\ ~(z = p /\ t.left[p] # x)
    <3>1. r.right[z] = t.right[z]
      BY <1>0, <1>1, <1>3, <2>3
    <3>2. CASE t.right[z] = NULL
      <4>1. Gap(keys, z, high[z])
        BY <1>0, <1>1, <3>2 DEF RightChild
      <4> QED
        BY <1>4, <2>3, <3>1, <3>2, <4>1 DEF RightChild
    <3>3. CASE t.right[z] # NULL
      <4>9. PICK c : c = t.right[z]
        OBVIOUS
      <4>1. c \in keys /\ t.parent[c] = z /\ high[c] = high[z] /\ low[c] = z
        BY <1>0, <1>1, <3>3, <4>9 DEF RightChild
      <4>2. c # x
        BY <1>0, <1>6, <2>3, <4>1, <4>9, <1>13
      <4>3. c # y
        BY <1>0, <1>1, <1>2, <4>1
      <4>4. c # b
        BY <1>0, <1>5, <2>3, <4>1
      <4> QED
        BY <1>0, <1>1, <1>3, <1>4, <2>3, <3>1, <3>3, <4>1, <4>2, <4>3, <4>4, <4>9 DEF RightChild
    <3> QED
      BY <3>2, <3>3
  <2> QED
    BY <2>1, <2>2, <2>3
<1>10. ASSUME NEW z \in keys PROVE LeftChild(r, keys, lo2, hi2, z)
  <2>1. CASE z = x
    <3>1. CASE b = NULL
      BY <1>0, <1>1, <1>2, <1>3, <1>4, <1>5, <2>1, <3>1 DEF LeftChild
    <3>2. CASE b # NULL
      <4>1. r.left[z] = b /\ b \in keys /\ r.parent[b] = x
        BY <1>1, <1>3, <1>5, <2>1, <3>2
      <4>2. hi2[b] = x /\ lo2[b] = y /\ lo2[z] = y
        BY <1>4, <1>5, <2>1, <3>2
      <4> QED
        BY <2>1, <3>2, <4>1, <4>2 DEF LeftChild
    <3> QED
      BY <3>1, <3>2
  <2>2. CASE z # x /\ z = p /\ t.left[p] = x
    BY <1>0, <1>1, <1>2, <1>3, <1>4, <1>5, <1>6, <2>2 DEF LeftChild
  <2>3. CASE z # x /\ ~(z = p /\ t.left[p] = x)
    <3>1. r.left[z] = t.left[z]
      BY <1>0, <1>1, <1>3, <2>3
    <3>2. CASE t.left[z] = NULL
      <4>1. Gap(keys, low[z], z)
        BY <1>0, <1>1, <3>2 DEF LeftChild
      <4> QED
        BY <1>4, <2>3, <3>1, <3>2, <4>1 DEF LeftChild
    <3>3. CASE t.left[z] # NULL
      <4>9. PICK c : c = t.left[z]
        OBVIOUS
      <4>1. c \in keys /\ t.parent[c] = z /\ high[c] = z /\ low[c] = low[z]
        BY <1>0, <1>1, <3>3, <4>9 DEF LeftChild
      <4>2. c # x
        BY <1>0, <1>6, <2>3, <4>1, <4>9, <1>13
      <4>3. c # y
        BY <1>0, <1>1, <1>2, <2>3, <4>1
      <4>4. c # b
        BY <1>0, <1>1, <1>2, <1>5, <4>1
      <4> QED
        BY <1>0, <1>1, <1>3, <1>4, <2>3, <3>1, <3>3, <4>1, <4>2, <4>3, <4>4, <4>9 DEF LeftChild
    <3> QED
      BY <3>2, <3>3
  <2> QED
    BY <2>1, <2>2, <2>3
<1>11. ASSUME NEW z \in keys PROVE Above(r, keys, z)
  <2>1. CASE z = x
    BY <1>0, <1>1, <1>2, <1>3, <2>1 DEF Above
  <2>2. CASE z = b
    BY <1>0, <1>1, <1>2, <1>3, <1>5, <2>2 DEF Above
  <2>3. CASE z = y
    <3>1. CASE p = NULL
      BY <1>0, <1>1, <1>3, <2>3, <3>1 DEF Above
    <3>2. CASE p # NULL
      BY <1>0, <1>1, <1>2, <1>3, <1>5, <1>6, <2>3, <3>2 DEF Above
    <3> QED
      BY <3>1, <3>2
  <2>4. CASE z \notin {x, y, b}
    <3>1. CASE z = t.root
      <4>1. p # NULL
        BY <1>0, <1>6, <2>4, <3>1
      <4> QED
        BY <1>0, <1>1, <1>3, <3>1, <4>1 DEF Above
    <3>2. CASE z # t.root
      <4> DEFINE q == t.parent[z]
      <4>1. q \in keys /\ (t.right[q] = z \/ t.left[q] = z)
        BY <1>0, <1>1, <3>2 DEF Above
      <4>2. r.parent[z] = q
        BY <1>0, <1>1, <1>3, <2>4
      <4>3. t.right[q] = z => r.right[q] = z
        <5>1. CASE q = y
          BY <2>4, <5>1, <1>13
        <5>2. CASE q = p /\ t.left[p] # x
          <6>1. t.right[p] = x
            BY <1>0, <1>6, <4>1, <5>2
          <6> QED
            BY <2>4, <5>2, <6>1
        <5> QED
          BY <1>0, <1>1, <1>3, <2>4, <4>1, <5>1, <5>2
      <4>4. t.left[q] = z => r.left[q] = z
        <5>1. CASE q = x
          BY <2>4, <5>1, <1>13
        <5>2. CASE q = p /\ t.left[p] = x
          BY <2>4, <5>2
        <5> QED
          BY <1>0, <1>1, <1>3, <2>4, <4>1, <5>1, <5>2
      <4> QED
        BY <4>1, <4>2, <4>3, <4>4 DEF Above
    <3> QED
      BY <3>1, <3>2
  <2> QED
    BY <2>1, <2>2, <2>3, <2>4
<1>15. Laminar(keys, lo2, hi2)
  <2>1. \A k, z \in keys : k # z => Beside(low, high, k, z) \/ Beside(low, high, z, k)
    BY DEF Search, Laminar
  <2>2. /\ low[x] < x /\ x < high[x] /\ low[y] < y /\ y < high[y]
        /\ \A k \in {x, y} : k \in Int /\ low[k] \in Int /\ high[k] \in Int
    BY <1>0, <1>1, <1>2
  <2>3. lo2[x] = y /\ hi2[x] = high[x] /\ lo2[y] = low[x] /\ hi2[y] = high[x]
    BY <1>2, <1>4, <2>2
  <2>4. ASSUME NEW k \in keys \ {x, y}
        PROVE  /\ Beside(lo2, hi2, k, x) \/ Beside(lo2, hi2, x, k)
               /\ Beside(lo2, hi2, k, y) \/ Beside(lo2, hi2, y, k)
    <3>1. lo2[k] = low[k] /\ hi2[k] = high[k] /\ k \in Int /\ low[k] \in Int /\ high[k] \in Int
          /\ low[k] < k /\ k < high[k]
      BY <1>0, <1>1, <1>4
    <3>2. (Beside(low, high, k, x) \/ Beside(low, high, x, k))
          /\ (Beside(low, high, k, y) \/ Beside(low, high, y, k))
      BY <1>2, <2>1
    <3>3. Beside(lo2, hi2, k, x) \/ Beside(lo2, hi2, x, k)
      BY <1>2, <2>2, <2>3, <3>1, <3>2 DEF Beside
    <3>4. Beside(lo2, hi2, k, y) \/ Beside(lo2, hi2, y, k)
      BY <1>2, <2>2, <2>3, <3>1, <3>2 DEF Beside
    <3> QED
      BY <3>3, <3>4
  <2>5. Beside(lo2, hi2, x, y)
    BY <1>2, <2>2, <2>3 DEF Beside
  <2>6. ASSUME NEW k \in keys \ {x, y}, NEW z \in keys \ {x, y}, k # z
        PROVE  Beside(lo2, hi2, k, z) \/ Beside(lo2, hi2, z, k)
    <3>1. lo2[k] = low[k] /\ hi2[k] = high[k] /\ lo2[z] = low[z] /\ hi2[z] = high[z]
      BY <1>4
    <3>2. Beside(low, high, k, z) \/ Beside(low, high, z, k)
      BY <2>1, <2>6
    <3> QED
      BY <3>1, <3>2 DEF Beside
  <2> QED
    BY <2>4, <2>5, <2>6 DEF Laminar
<1>12. Search(r, keys, lo2, hi2)
  BY <1>0, <1>1, <1>3, <1>4, <1>7, <1>8, <1>9, <1>10, <1>11, <1>15 DEF Search
<1> QED
  BY <1>2, <1>12

-----------------------------------------------------------------------------
(* The nodes whose intervals hold that of x: those above it.                *)
Outer(keys, low, high, x) == {k \in keys \ {x} : low[k] <= low[x] /\ high[x] <= high[k]}

(* A node is the root or one of the two children of its parent. *)
LEMMA ParentIs ==
  ASSUME NEW t, NEW keys, NEW low, NEW high, Search(t, keys, low, high),
         NEW x \in keys, NEW p, p = t.parent[x]
  PROVE  \/ /\ p = NULL /\ x = t.root
         \/ /\ p \in keys /\ p # NULL /\ p # x /\ x # t.root /\ p \in Outer(keys, low, high, x)
            /\ \/ t.left[p] = x /\ t.right[p] # x /\ low[x] = low[p] /\ high[x] = p
               \/ t.right[p] = x /\ t.left[p] # x /\ low[x] = p /\ high[x] = high[p]
<1>1. keys \subseteq Addresses /\ low \in [Addresses -> Int] /\ high \in [Addresses -> Int]
  BY DEF Search
<1>2. keys \subseteq Int
  BY SearchTypes
<1>3. NULL \notin keys
  BY SearchTypes
<1>4. \A z \in keys : low[z] \in Int /\ high[z] \in Int
  BY SearchTypes
<1>5. \A z \in keys : low[z] < z /\ z < high[z]
  BY SearchTypes
<1>6. CASE x = t.root
  BY <1>6 DEF Search, RootOf
<1>7. CASE x # t.root
  <2>1. p \in keys /\ (t.left[p] = x \/ t.right[p] = x)
    BY <1>7 DEF Search, Above
  <2>2. LeftChild(t, keys, low, high, p) /\ RightChild(t, keys, low, high, p)
    BY <2>1 DEF Search
  <2>3. t.left[p] = x => low[x] = low[p] /\ high[x] = p
    BY <1>3, <2>2 DEF LeftChild
  <2>4. t.right[p] = x => low[x] = p /\ high[x] = high[p]
    BY <1>3, <2>2 DEF RightChild
  <2>5. low[p] < p /\ p < high[p] /\ low[x] < x /\ x < high[x]
    BY <1>5, <2>1
  <2>6. p # NULL /\ p \in Int /\ x \in Int /\ low[p] \in Int /\ high[p] \in Int
    BY <1>2, <1>3, <1>4, <2>1
  <2>7. CASE t.left[p] = x
    BY <1>7, <2>1, <2>3, <2>4, <2>5, <2>6, <2>7 DEF Outer
  <2>8. CASE t.right[p] = x
    BY <1>7, <2>1, <2>3, <2>4, <2>5, <2>6, <2>8 DEF Outer
  <2> QED
    BY <2>1, <2>7, <2>8
<1> QED
  BY <1>6, <1>7

(* One rotation that lifts x gives it the interval of its parent. *)
LEMMA LiftKeeps ==
  ASSUME NEW t, NEW keys, NEW low, NEW high, Search(t, keys, low, high),
         NEW x \in keys, NEW p, p = t.parent[x], p # NULL
  PROVE  \E lo2, hi2 :
           /\ Search(Lift(t, x), keys, lo2, hi2)
           /\ lo2[x] = low[p] /\ hi2[x] = high[p]
           /\ \A k \in keys \ {x, p} : lo2[k] = low[k] /\ hi2[k] = high[k]
           /\ low[p] <= lo2[p] /\ hi2[p] <= high[p]
           /\ low[p] < lo2[p] \/ hi2[p] < high[p]
<1>1. keys \subseteq Addresses /\ low \in [Addresses -> Int] /\ high \in [Addresses -> Int]
  BY DEF Search
<1>2. keys \subseteq Int
  BY SearchTypes
<1>3. NULL \notin keys
  BY SearchTypes
<1>4. \A z \in keys : low[z] \in Int /\ high[z] \in Int
  BY SearchTypes
<1>5. \A z \in keys : low[z] < z /\ z < high[z]
  BY SearchTypes
<1>6. p \in keys /\ p # x
      /\ \/ t.left[p] = x /\ t.right[p] # x /\ low[x] = low[p] /\ high[x] = p
         \/ t.right[p] = x /\ t.left[p] # x /\ low[x] = p /\ high[x] = high[p]
  BY ParentIs
<1>7. CASE t.left[p] = x
  <2> DEFINE lo2 == [z \in Addresses |-> IF z = p THEN x ELSE low[z]]
             hi2 == [z \in Addresses |-> IF z = x THEN high[p] ELSE high[z]]
             r == RightRotate(t, p)
  <2>1. /\ hi2 \in [Addresses -> Int]
        /\ \A z \in Addresses : hi2[z] = IF z = x THEN high[p] ELSE high[z]
        /\ lo2 \in [Addresses -> Int]
        /\ \A z \in Addresses : lo2[z] = IF z = p THEN x ELSE low[z]
    BY <1>1, <1>2, <1>4, <1>6
  <2> HIDE DEF lo2, hi2
  <2>2. Search(r, keys, lo2, hi2)
    <3>1. p \in keys /\ x = t.left[p] /\ x # NULL
      BY <1>3, <1>6, <1>7
    <3> QED
      BY <2>1, <3>1, RightRotateKeeps
  <2>3. Lift(t, x) = r
    BY <1>7, <2>1 DEF Lift
  <2>4. lo2[x] = low[x] /\ hi2[x] = high[p] /\ lo2[p] = x /\ hi2[p] = high[p]
        /\ \A k \in keys \ {x, p} : lo2[k] = low[k] /\ hi2[k] = high[k]
    BY <1>1, <1>6, <2>1
  <2>5. low[x] < x /\ low[x] = low[p] /\ low[p] \in Int /\ high[p] \in Int /\ x \in Int
    BY <1>2, <1>4, <1>5, <1>6, <1>7
  <2>6. low[p] <= lo2[p] /\ hi2[p] <= high[p] /\ low[p] < lo2[p]
    BY <2>4, <2>5
  <2> QED
    BY <2>2, <2>3, <2>4, <2>5, <2>6
<1>8. CASE t.right[p] = x /\ t.left[p] # x
  <2> DEFINE hi2 == [z \in Addresses |-> IF z = p THEN x ELSE high[z]]
             lo2 == [z \in Addresses |-> IF z = x THEN low[p] ELSE low[z]]
             r == LeftRotate(t, p)
  <2>1. /\ lo2 \in [Addresses -> Int]
        /\ \A z \in Addresses : lo2[z] = IF z = x THEN low[p] ELSE low[z]
        /\ hi2 \in [Addresses -> Int]
        /\ \A z \in Addresses : hi2[z] = IF z = p THEN x ELSE high[z]
    BY <1>1, <1>2, <1>4, <1>6
  <2> HIDE DEF lo2, hi2
  <2>2. Search(r, keys, lo2, hi2)
    <3>1. p \in keys /\ x = t.right[p] /\ x # NULL
      BY <1>3, <1>6, <1>8
    <3> QED
      BY <2>1, <3>1, LeftRotateKeeps
  <2>3. Lift(t, x) = r
    BY <1>8, <2>1 DEF Lift
  <2>4. hi2[x] = high[x] /\ lo2[x] = low[p] /\ hi2[p] = x /\ lo2[p] = low[p]
        /\ \A k \in keys \ {x, p} : lo2[k] = low[k] /\ hi2[k] = high[k]
    BY <1>1, <1>6, <2>1
  <2>5. x < high[x] /\ high[x] = high[p] /\ low[p] \in Int /\ high[p] \in Int /\ x \in Int
    BY <1>2, <1>4, <1>5, <1>6, <1>8
  <2>6. low[p] <= lo2[p] /\ hi2[p] <= high[p] /\ hi2[p] < high[p]
    BY <2>4, <2>5
  <2> QED
    BY <2>2, <2>3, <2>4, <2>5, <2>6
<1> QED
  BY <1>6, <1>7, <1>8

(* Lifting x takes its parent from above it; lifting the parent of w puts   *)
(* nothing new above w.                                                     *)
LEMMA LiftLess ==
  ASSUME NEW t, NEW keys, NEW low, NEW high, Search(t, keys, low, high),
         NEW x \in keys, NEW p, p = t.parent[x], p # NULL
  PROVE  \E lo2, hi2 :
           /\ Search(Lift(t, x), keys, lo2, hi2)
           /\ lo2[x] = low[p] /\ hi2[x] = high[p]
           /\ Outer(keys, lo2, hi2, x) \subseteq Outer(keys, low, high, x) \ {p}
           /\ \A w \in keys \ {x, p} :
                /\ lo2[w] = low[w] /\ hi2[w] = high[w]
                /\ x \in Outer(keys, low, high, w) =>
                     Outer(keys, lo2, hi2, w) \subseteq Outer(keys, low, high, w)
<1>1. /\ keys \subseteq Int /\ NULL \notin keys
      /\ \A z \in keys : low[z] \in Int /\ high[z] \in Int
  BY SearchTypes
<1>2. /\ p \in keys /\ p # x /\ low[p] <= low[x] /\ high[x] <= high[p]
  BY ParentIs DEF Outer
<1>3. PICK lo2, hi2 :
        /\ Search(Lift(t, x), keys, lo2, hi2)
        /\ lo2[x] = low[p] /\ hi2[x] = high[p]
        /\ \A k \in keys \ {x, p} : lo2[k] = low[k] /\ hi2[k] = high[k]
        /\ low[p] <= lo2[p] /\ hi2[p] <= high[p]
        /\ low[p] < lo2[p] \/ hi2[p] < high[p]
  BY LiftKeeps
<1>4. \A z \in keys : lo2[z] \in Int /\ hi2[z] \in Int
  BY <1>3, SearchTypes
<1>5. ASSUME NEW k \in Outer(keys, lo2, hi2, x) PROVE k \in Outer(keys, low, high, x) \ {p}
  <2>1. k \in keys /\ k # x /\ lo2[k] <= low[p] /\ high[p] <= hi2[k]
    BY <1>3 DEF Outer
  <2>2. k # p
    BY <1>1, <1>2, <1>3, <1>4, <2>1
  <2>3. lo2[k] = low[k] /\ hi2[k] = high[k]
    BY <1>3, <2>1, <2>2
  <2> QED
    BY <1>1, <1>2, <2>1, <2>2, <2>3 DEF Outer
<1>6. ASSUME NEW w \in keys \ {x, p}, x \in Outer(keys, low, high, w),
             NEW k \in Outer(keys, lo2, hi2, w)
      PROVE  k \in Outer(keys, low, high, w)
  <2>1. low[x] <= low[w] /\ high[w] <= high[x]
    BY <1>6 DEF Outer
  <2>2. k \in keys /\ k # w /\ lo2[k] <= low[w] /\ high[w] <= hi2[k]
    BY <1>3 DEF Outer
  <2>3. CASE k = x
    BY <1>6, <2>3
  <2>4. CASE k = p
    BY <1>1, <1>2, <2>1, <2>4, <1>6 DEF Outer
  <2>5. CASE k # x /\ k # p
    BY <1>3, <2>2, <2>5 DEF Outer
  <2> QED
    BY <2>3, <2>4, <2>5
<1> QED
  BY <1>3, <1>5, <1>6

(* A key outside the interval of x shows that x is not the root.            *)
LEMMA NotRoot ==
  ASSUME NEW t, NEW keys, NEW low, NEW high, Search(t, keys, low, high),
         NEW x \in keys, NEW a \in Addresses, low[x] = a \/ high[x] = a
  PROVE  t.parent[x] # NULL
<1> SUFFICES ASSUME t.parent[x] = NULL PROVE FALSE
  OBVIOUS
<1>1. x = t.root /\ x # NULL
  BY ParentIs, SearchTypes
<1>2. low[x] < a /\ a < high[x]
  BY <1>1 DEF Search, RootOf
<1>3. a \in Int
  BY RangeAssumption
<1> QED
  BY <1>2, <1>3

(* A round of splay leaves x with fewer nodes above it.                     *)
LEMMA RoundKeeps ==
  ASSUME NEW t, NEW keys, NEW low, NEW high, Search(t, keys, low, high),
         NEW x \in keys, t.parent[x] # NULL
  PROVE  \E lo2, hi2 :
           /\ Search(SplayRound(t, x), keys, lo2, hi2)
           /\ Outer(keys, lo2, hi2, x) \subseteq Outer(keys, low, high, x)
           /\ Outer(keys, lo2, hi2, x) # Outer(keys, low, high, x)
<1>1. PICK p : p = t.parent[x] /\ p \in keys /\ p # NULL /\ p # x /\ p \in Outer(keys, low, high, x)
               /\ (low[x] = p \/ high[x] = p)
  BY ParentIs
<1>2. PICK g : g = t.parent[p]
  OBVIOUS
<1>3. keys \subseteq Addresses /\ NULL \notin keys
  BY SearchTypes
<1>4. CASE g = NULL
  <2>1. SplayRound(t, x) = Lift(t, x)
    BY <1>1, <1>2, <1>4 DEF SplayRound
  <2>2. PICK lo2, hi2 :
           /\ Search(Lift(t, x), keys, lo2, hi2)
           /\ Outer(keys, lo2, hi2, x) \subseteq Outer(keys, low, high, x) \ {p}
    BY <1>1, LiftLess
  <2> QED
    BY <1>1, <2>1, <2>2
<1>5. CASE g # NULL
  <2>0. g \in keys /\ g # p /\ g \in Outer(keys, low, high, p)
        /\ (low[p] = g \/ high[p] = g)
    BY <1>1, <1>2, <1>5, ParentIs
  <2>1. g # x
    <3>1. low[p] <= low[x] /\ high[x] <= high[p] /\ low[g] <= low[p] /\ high[p] <= high[g]
      BY <1>1, <2>0 DEF Outer
    <3>2. \A z \in {x, p, g} : /\ z \in Int /\ low[z] \in Int /\ high[z] \in Int
                               /\ low[z] < z /\ z < high[z]
      BY <1>1, <2>0, SearchTypes
    <3> QED
      BY <1>1, <2>0, <3>1, <3>2
  <2>2. ASSUME NEW u, NEW lo1, NEW hi1, Search(u, keys, lo1, hi1),
               lo1[x] \in Addresses \/ hi1[x] \in Addresses,
               Outer(keys, lo1, hi1, x) \subseteq Outer(keys, low, high, x),
               SplayRound(t, x) = Lift(u, x)
        PROVE  \E lo2, hi2 :
                 /\ Search(SplayRound(t, x), keys, lo2, hi2)
                 /\ Outer(keys, lo2, hi2, x) \subseteq Outer(keys, low, high, x)
                 /\ Outer(keys, lo2, hi2, x) # Outer(keys, low, high, x)
    <3>1. PICK q : q = u.parent[x]
      OBVIOUS
    <3>2. q # NULL
      BY <2>2, <3>1, NotRoot
    <3>3. q \in Outer(keys, lo1, hi1, x)
      BY <2>2, <3>1, <3>2, ParentIs
    <3>4. PICK lo2, hi2 :
             /\ Search(Lift(u, x), keys, lo2, hi2)
             /\ Outer(keys, lo2, hi2, x) \subseteq Outer(keys, lo1, hi1, x) \ {q}
      BY <2>2, <3>1, <3>2, LiftLess
    <3> QED
      BY <2>2, <3>3, <3>4
  <2>3. CASE (t.left[p] = x) = (t.left[g] = p)
    <3>1. SplayRound(t, x) = Lift(Lift(t, p), x)
      BY <1>1, <1>2, <1>5, <2>3 DEF SplayRound
    <3>2. PICK lo1, hi1 :
             /\ Search(Lift(t, p), keys, lo1, hi1)
             /\ \A w \in keys \ {p, g} :
                  /\ lo1[w] = low[w] /\ hi1[w] = high[w]
                  /\ p \in Outer(keys, low, high, w) =>
                       Outer(keys, lo1, hi1, w) \subseteq Outer(keys, low, high, w)
      BY <1>1, <1>2, <1>5, LiftLess
    <3>3. lo1[x] = low[x] /\ hi1[x] = high[x]
          /\ Outer(keys, lo1, hi1, x) \subseteq Outer(keys, low, high, x)
      BY <1>1, <2>1, <3>2
    <3> QED
      BY <1>1, <1>3, <2>2, <3>1, <3>2, <3>3
  <2>4. CASE (t.left[p] = x) # (t.left[g] = p)
    <3>1. SplayRound(t, x) = Lift(Lift(t, x), x)
      BY <1>1, <1>2, <1>5, <2>4 DEF SplayRound
    <3>2. PICK lo1, hi1 :
             /\ Search(Lift(t, x), keys, lo1, hi1)
             /\ lo1[x] = low[p] /\ hi1[x] = high[p]
             /\ Outer(keys, lo1, hi1, x) \subseteq Outer(keys, low, high, x)
      BY <1>1, LiftLess
    <3> QED
      BY <1>3, <2>0, <2>2, <3>1, <3>2
  <2> QED
    BY <2>3, <2>4
<1> QED
  BY <1>4, <1>5

-----------------------------------------------------------------------------
(* Loops of at most as many rounds as there are nodes *)

(* What a loop leaves when every round leads from Good[n] to Good[n + 1].   *)
LEMMA RoundsLead ==
  ASSUME NEW s, NEW step, NEW Good, s \in Good[0],
         \A n \in Nat : \A x \in Good[n] : step[x] \in Good[n + 1]
  PROVE  \A n \in Nat :
           (LET state[k \in Nat] == IF k = 0 THEN s ELSE step[state[k - 1]] IN state)[n] \in Good[n]
<1> DEFINE S == UNION {Good[n] : n \in Nat}
           f == [x \in S |-> step[x]]
           Is(h) == h = [k \in Nat |-> IF k = 0 THEN s ELSE step[h[k - 1]]]
<1>1. s \in S /\ \A n \in Nat : \A x \in Good[n] : x \in S
  OBVIOUS
<1>2. f \in [S -> S] /\ \A x \in S : f[x] = step[x]
  <2>1. \A x \in S : step[x] \in S
    <3> SUFFICES ASSUME NEW x \in S PROVE step[x] \in S
      OBVIOUS
    <3>1. PICK n \in Nat : x \in Good[n]
      OBVIOUS
    <3>2. step[x] \in Good[n + 1] /\ n + 1 \in Nat
      BY <3>1
    <3> QED
      BY <3>2
  <2> HIDE DEF S
  <2> QED
    BY <2>1
<1> HIDE DEF S, f
<1>3. PICK g \in [Nat -> S] : g[0] = s /\ \A k \in Nat : g[k + 1] = f[g[k]]
  <2>1. \A R : \A r \in R : \A h \in [R -> R] :
          \E g \in [Nat -> R] : g[0] = r /\ \A k \in Nat : g[k + 1] = h[g[k]]
    BY NatRecursion, Zenon
  <2>2. s \in S
    BY <1>1
  <2>3. \A r \in S : \A h \in [S -> S] :
          \E g \in [Nat -> S] : g[0] = r /\ \A k \in Nat : g[k + 1] = h[g[k]]
    BY <2>1, SMT
  <2>4. \A h \in [S -> S] :
          \E g \in [Nat -> S] : g[0] = s /\ \A k \in Nat : g[k + 1] = h[g[k]]
    BY <2>2, <2>3, Zenon
  <2>5. f \in [S -> S]
    BY <1>2
  <2> QED
    BY <2>4, <2>5, Zenon
<1>4. ASSUME NEW k \in Nat PROVE g[k] = IF k = 0 THEN s ELSE step[g[k - 1]]
  <2>1. CASE k = 0
    BY <1>3, <2>1
  <2>2. CASE k # 0
    <3>1. k - 1 \in Nat /\ (k - 1) + 1 = k
      BY <2>2
    <3>2. g[k] = f[g[k - 1]] /\ g[k - 1] \in S
      BY <1>3, <3>1
    <3> QED
      BY <1>2, <2>2, <3>2
  <2> QED
    BY <2>1, <2>2
<1>5. Is(g)
  BY <1>3, <1>4
<1> DEFINE state == CHOOSE h : Is(h)
<1> HIDE DEF Is
<1>6. Is(state)
  BY <1>5
<1> HIDE DEF state
<1>7. state = [k \in Nat |-> IF k = 0 THEN s ELSE step[state[k - 1]]]
  BY <1>6 DEF Is
<1> DEFINE Led == {k \in Nat : state[k] \in Good[k]}
<1>8. 0 \in Led
  BY <1>7
<1>9. ASSUME NEW k \in Led PROVE k + 1 \in Led
  <2>1. k + 1 \in Nat /\ k + 1 # 0 /\ (k + 1) - 1 = k
    OBVIOUS
  <2>2. state[k + 1] = step[state[k]]
    BY <1>7, <2>1
  <2> QED
    BY <2>1, <2>2
<1>10. Led = Nat
  <2> HIDE DEF Led
  <2> QED
    BY <1>8, <1>9, NatBySet DEF Led
<1>11. \A n \in Nat : state[n] \in Good[n]
  BY <1>10
<1> QED
  BY <1>11 DEF state, Is

(* What each round leads to is reached after as many rounds as there are addresses. *)
LEMMA LoopEnds ==
  ASSUME IsFiniteSet(Addresses),
         NEW s, NEW step, NEW Good, s \in Good[0],
         \A n \in Nat : \A x \in Good[n] : step[x] \in Good[n + 1]
  PROVE  Cardinality(Addresses) \in Nat /\ Rounds(s, step) \in Good[Cardinality(Addresses)]
<1>1. Cardinality(Addresses) \in Nat
  BY FS_CardinalityType
<1> DEFINE state == CHOOSE h : h = [k \in Nat |-> IF k = 0 THEN s ELSE step[h[k - 1]]]
<1>2. \A n \in Nat : state[n] \in Good[n]
  BY RoundsLead
<1>3. Rounds(s, step) = state[Cardinality(Addresses)]
  BY DEF Rounds
<1> HIDE DEF state
<1> QED
  BY <1>1, <1>2, <1>3

(* The keys are finite, and a proper subset is smaller. *)
LEMMA KeysFinite ==
  ASSUME IsFiniteSet(Addresses), NEW keys \in SUBSET Addresses
  PROVE  /\ IsFiniteSet(keys) /\ Cardinality(keys) \in Nat
         /\ Cardinality(Addresses) \in Nat /\ Cardinality(keys) <= Cardinality(Addresses)
         /\ \A A \in SUBSET keys : /\ IsFiniteSet(A) /\ Cardinality(A) \in Nat
                                  /\ Cardinality(A) <= Cardinality(keys)
         /\ \A A \in SUBSET keys : \A B \in SUBSET A :
              B # A => Cardinality(B) + 1 <= Cardinality(A)
<1>1. \A A \in SUBSET keys : /\ IsFiniteSet(A) /\ Cardinality(A) \in Nat
                             /\ Cardinality(A) <= Cardinality(keys)
  BY FS_Subset, FS_CardinalityType
<1>2. ASSUME NEW A \in SUBSET keys, NEW B \in SUBSET A, B # A
      PROVE  Cardinality(B) + 1 <= Cardinality(A)
  <2>1. IsFiniteSet(A) /\ Cardinality(A) \in Nat /\ Cardinality(B) \in Nat /\ Cardinality(B) <= Cardinality(A)
    BY <1>1, FS_Subset
  <2>2. Cardinality(B) # Cardinality(A)
    BY <1>2, <2>1, FS_Subset
  <2> QED
    BY <2>1, <2>2
<1> QED
  BY <1>1, <1>2, FS_Subset, FS_CardinalityType

(* splay brings x to the root of a tree over the same keys.                 *)
LEMMA SplayKeeps ==
  ASSUME IsFiniteSet(Addresses), NEW t, NEW keys, NEW low, NEW high,
         Search(t, keys, low, high), NEW x \in keys
  PROVE  /\ Splay(t, x).root = x
         /\ \E lo2, hi2 : Search(Splay(t, x), keys, lo2, hi2)
<1> DEFINE N == Cardinality(keys)
           Found(s) == \E lo2, hi2 : Search(s, keys, lo2, hi2)
           Nearer(s, n) == \E lo2, hi2 : /\ Search(s, keys, lo2, hi2)
                                        /\ Cardinality(Outer(keys, lo2, hi2, x)) + n <= N
           Good == [n \in Nat |-> {s \in Trees : (s.parent[x] = NULL /\ Found(s)) \/ Nearer(s, n)}]
           step == [s \in Trees |-> SplayRound(s, x)]
<1>1. keys \subseteq Addresses /\ t \in Trees /\ NULL \notin keys
  BY SearchTypes
<1>2. \A lo2, hi2 : Outer(keys, lo2, hi2, x) \in SUBSET keys
  BY DEF Outer
<1>3. t \in Good[0]
  <2>1. Cardinality(Outer(keys, low, high, x)) + 0 <= N
    <3>1. Cardinality(Outer(keys, low, high, x)) \in Nat /\ Cardinality(Outer(keys, low, high, x)) <= N
      BY <1>1, <1>2, KeysFinite
    <3> QED
      BY <3>1
  <2>2. Nearer(t, 0)
    BY <2>1
  <2> QED
    BY <1>1, <2>2
<1>4. ASSUME NEW n \in Nat, NEW s \in Good[n] PROVE step[s] \in Good[n + 1]
  <2>1. s \in Trees /\ step[s] = SplayRound(s, x) /\ n + 1 \in Nat
    OBVIOUS
  <2>2. CASE s.parent[x] = NULL
    <3>1. SplayRound(s, x) = s
      BY <2>2 DEF SplayRound
    <3>2. Found(s)
      OBVIOUS
    <3> HIDE DEF Found
    <3> QED
      BY <2>1, <2>2, <3>1, <3>2
  <2>3. CASE s.parent[x] # NULL
    <3>1. PICK lo1, hi1 : /\ Search(s, keys, lo1, hi1)
                          /\ Cardinality(Outer(keys, lo1, hi1, x)) + n <= N
      BY <2>3
    <3>2. PICK lo2, hi2 :
             /\ Search(SplayRound(s, x), keys, lo2, hi2)
             /\ Outer(keys, lo2, hi2, x) \subseteq Outer(keys, lo1, hi1, x)
             /\ Outer(keys, lo2, hi2, x) # Outer(keys, lo1, hi1, x)
      BY <2>3, <3>1, RoundKeeps
    <3>3. /\ Cardinality(Outer(keys, lo2, hi2, x)) + 1 <= Cardinality(Outer(keys, lo1, hi1, x))
          /\ Cardinality(Outer(keys, lo2, hi2, x)) \in Nat
          /\ Cardinality(Outer(keys, lo1, hi1, x)) \in Nat /\ N \in Nat
      BY <1>1, <1>2, <3>2, KeysFinite
    <3>4. Cardinality(Outer(keys, lo2, hi2, x)) + (n + 1) <= N
      <4> DEFINE c1 == Cardinality(Outer(keys, lo1, hi1, x))
                 c2 == Cardinality(Outer(keys, lo2, hi2, x))
      <4> HIDE DEF c1, c2, N
      <4>1. c1 + n <= N /\ c2 + 1 <= c1 /\ c1 \in Nat /\ c2 \in Nat /\ N \in Nat
        BY <3>1, <3>3 DEF c1, c2
      <4>2. c2 + (n + 1) <= N
        BY <4>1
      <4> QED
        BY <4>2 DEF c2
    <3>5. Nearer(SplayRound(s, x), n + 1)
      BY <3>2, <3>4
    <3>6. SplayRound(s, x) \in Trees
      BY <3>2, SearchTypes
    <3> HIDE DEF Nearer
    <3> QED
      BY <2>1, <3>5, <3>6
  <2> QED
    BY <2>2, <2>3
<1> HIDE DEF Good
<1>5. Cardinality(Addresses) \in Nat /\ Rounds(t, step) \in Good[Cardinality(Addresses)]
  BY <1>3, <1>4, LoopEnds
<1>6. PICK u : u = Splay(t, x)
  OBVIOUS
<1>7. u \in Good[Cardinality(Addresses)]
  BY <1>5, <1>6 DEF Splay
<1>8. Found(u) /\ u.parent[x] = NULL
  <2>1. CASE u.parent[x] = NULL
    BY <1>5, <1>7, <2>1 DEF Good
  <2>2. CASE u.parent[x] # NULL
    <3>1. PICK lo2, hi2 : /\ Search(u, keys, lo2, hi2)
                          /\ Cardinality(Outer(keys, lo2, hi2, x)) + Cardinality(Addresses) <= N
      BY <1>5, <1>7, <2>2 DEF Good
    <3>2. u.parent[x] \in Outer(keys, lo2, hi2, x)
      BY <2>2, <3>1, ParentIs
    <3>3. IsFiniteSet(Outer(keys, lo2, hi2, x)) /\ Cardinality(Outer(keys, lo2, hi2, x)) \in Nat
          /\ N \in Nat /\ N <= Cardinality(Addresses)
      BY <1>1, <1>2, KeysFinite
    <3>4. Cardinality(Outer(keys, lo2, hi2, x)) # 0
      BY <3>2, <3>3, FS_EmptySet
    <3> HIDE DEF N
    <3> QED
      BY <1>5, <3>1, <3>3, <3>4
  <2> QED
    BY <2>1, <2>2
<1>9. u.root = x
  BY <1>1, <1>8, ParentIs
<1> QED
  BY <1>6, <1>8, <1>9

-----------------------------------------------------------------------------
(* The way down *)

(* The keys in the interval of z. *)
Inner(keys, low, high, z) == {k \in keys : low[z] < k /\ k < high[z]}

(* A child has fewer nodes below it than its parent. *)
LEMMA InnerSmaller ==
  ASSUME NEW t, NEW keys, NEW low, NEW high, Search(t, keys, low, high),
         NEW z \in keys, NEW c \in keys,
         \/ low[c] = low[z] /\ high[c] = z
         \/ low[c] = z /\ high[c] = high[z]
  PROVE  /\ Inner(keys, low, high, c) \subseteq Inner(keys, low, high, z)
         /\ Inner(keys, low, high, c) # Inner(keys, low, high, z)
<1>1. \A k \in keys : k \in Int /\ low[k] \in Int /\ high[k] \in Int /\ low[k] < k /\ k < high[k]
  BY SearchTypes
<1>2. z \in Inner(keys, low, high, z) /\ z \notin Inner(keys, low, high, c)
  BY <1>1 DEF Inner
<1>3. ASSUME NEW k \in Inner(keys, low, high, c) PROVE k \in Inner(keys, low, high, z)
  BY <1>1, <1>3 DEF Inner
<1> QED
  BY <1>2, <1>3

(* The interval of z on the side of key, and the child that has it.         *)
LEMMA ChildIs ==
  ASSUME NEW t, NEW keys, NEW low, NEW high, Search(t, keys, low, high),
         NEW z \in keys, NEW key \in Addresses, key # z, low[z] < key, key < high[z],
         NEW c, c = Child(t, z, key),
         NEW l, l = IF key > z THEN z ELSE low[z],
         NEW h, h = IF key > z THEN high[z] ELSE z
  PROVE  /\ l \in Int /\ h \in Int /\ l < key /\ key < h
         /\ c = NULL => Gap(keys, l, h)
         /\ c # NULL => /\ c \in keys /\ low[c] = l /\ high[c] = h
                        /\ Inner(keys, low, high, c) \subseteq Inner(keys, low, high, z)
                        /\ Inner(keys, low, high, c) # Inner(keys, low, high, z)
<1>1. z \in Int /\ key \in Int /\ low[z] \in Int /\ high[z] \in Int
  BY SearchTypes, RangeAssumption
<1>2. LeftChild(t, keys, low, high, z) /\ RightChild(t, keys, low, high, z)
  BY DEF Search
<1>3. l \in Int /\ h \in Int /\ l < key /\ key < h
  BY <1>1
<1>4. c = NULL => Gap(keys, l, h)
  BY <1>1, <1>2 DEF Child, LeftChild, RightChild
<1>5. c # NULL => c \in keys /\ low[c] = l /\ high[c] = h
  BY <1>1, <1>2 DEF Child, LeftChild, RightChild
<1>6. (l = low[z] /\ h = z) \/ (l = z /\ h = high[z])
  OBVIOUS
<1> QED
  BY <1>3, <1>4, <1>5, <1>6, InnerSmaller

(* Descend ends at key, or at the node below which key is missing.          *)
LEMMA DescendIs ==
  ASSUME IsFiniteSet(Addresses), NEW t, NEW keys, NEW low, NEW high,
         Search(t, keys, low, high), NEW key \in Addresses,
         NEW p, p = Descend(t, key)
  PROVE  \/ p = key /\ key \in keys
         \/ p = NULL /\ keys = {} /\ t.root = NULL
         \/ /\ p \in keys /\ p # NULL /\ p # key /\ key \notin keys
            /\ low[p] < key /\ key < high[p] /\ Child(t, p, key) = NULL
<1> DEFINE N == Cardinality(keys)
           Pairs == [at : Nodes, last : Nodes]
           Misses(a) == /\ a \in keys /\ a # key /\ key \notin keys
                        /\ low[a] < key /\ key < high[a] /\ Child(t, a, key) = NULL
           Onway(a, n) == /\ a \in keys /\ a # key /\ low[a] < key /\ key < high[a]
                          /\ Cardinality(Inner(keys, low, high, a)) + n <= N
           Ended(w) == /\ w.at = NULL
                       /\ (w.last = NULL /\ keys = {} /\ t.root = NULL) \/ Misses(w.last)
           Good == [n \in Nat |-> {w \in Pairs : \/ w.at = key /\ key \in keys
                                                 \/ Onway(w.at, n)
                                                 \/ Ended(w)}]
           step == [w \in Pairs |-> IF w.at \in {NULL, key} THEN w
                                    ELSE [at |-> Child(t, w.at, key), last |-> w.at]]
           s == [at |-> t.root, last |-> NULL]
<1>1. keys \subseteq Addresses /\ t \in Trees /\ NULL \notin keys /\ key # NULL
      /\ key \in Int /\ keys \subseteq Nodes /\ NULL \in Nodes
      /\ t.root \in Nodes
  <2>1. keys \subseteq Addresses /\ t \in Trees /\ NULL \notin keys
    BY SearchTypes
  <2>2. key # NULL /\ key \in Int
    BY RangeAssumption
  <2>3. t.root \in Nodes
    BY <2>1, TreeFields
  <2> QED
    BY <2>1, <2>2, <2>3 DEF Nodes
<1>2. \A a : Inner(keys, low, high, a) \in SUBSET keys
  BY DEF Inner
<1>3. N \in Nat /\ \A a : /\ IsFiniteSet(Inner(keys, low, high, a))
                          /\ Cardinality(Inner(keys, low, high, a)) \in Nat
                          /\ Cardinality(Inner(keys, low, high, a)) <= N
  BY <1>1, <1>2, KeysFinite
<1>4. s \in Good[0]
  <2>1. s \in Pairs /\ s.at = t.root /\ s.last = NULL
    BY <1>1
  <2>2. RootOf(t, keys, low, high)
    BY DEF Search
  <2>3. CASE t.root = NULL
    BY <2>1, <2>2, <2>3 DEF RootOf
  <2>4. CASE t.root # NULL
    <3>1. t.root \in keys /\ low[t.root] < key /\ key < high[t.root]
      BY <2>2, <2>4 DEF RootOf
    <3>2. Cardinality(Inner(keys, low, high, t.root)) + 0 <= N
      <4> DEFINE c == Cardinality(Inner(keys, low, high, t.root))
      <4>1. c \in Nat /\ c <= N
        BY <1>3
      <4> HIDE DEF c
      <4>2. c + 0 <= N
        BY <4>1
      <4> QED
        BY <4>2 DEF c
    <3>3. CASE t.root = key
      BY <2>1, <3>1, <3>3
    <3>4. CASE t.root # key
      <4>1. Onway(t.root, 0)
        BY <3>1, <3>2, <3>4
      <4> HIDE DEF Onway
      <4> QED
        BY <2>1, <4>1
    <3> QED
      BY <3>3, <3>4
  <2> QED
    BY <2>3, <2>4
<1>5. ASSUME NEW n \in Nat, NEW w \in Good[n] PROVE step[w] \in Good[n + 1]
  <2>1. w \in Pairs /\ n + 1 \in Nat
        /\ step[w] = IF w.at \in {NULL, key} THEN w
                     ELSE [at |-> Child(t, w.at, key), last |-> w.at]
    OBVIOUS
  <2>2. CASE w.at \in {NULL, key}
    <3>1. (w.at = key /\ key \in keys) \/ Ended(w)
      BY <1>1, <2>2
    <3> HIDE DEF Ended
    <3> QED
      BY <2>1, <2>2, <3>1
  <2>3. CASE w.at \notin {NULL, key}
    <3>1. PICK a : a = w.at
      OBVIOUS
    <3>2. /\ a \in keys /\ a # key /\ low[a] < key /\ key < high[a]
          /\ Cardinality(Inner(keys, low, high, a)) + n <= N
      BY <2>3, <3>1
    <3>3. PICK c : c = Child(t, a, key)
      OBVIOUS
    <3>4. PICK v : v = step[w]
      OBVIOUS
    <3>5. v = [at |-> c, last |-> a]
      BY <2>1, <2>3, <3>1, <3>3, <3>4
    <3>6. c \in Nodes
      BY <1>1, <3>2, <3>3, TreeFields DEF Child
    <3>7. v \in Pairs /\ v.at = c /\ v.last = a
      BY <1>1, <3>2, <3>5, <3>6
    <3>8. CASE c = NULL
      <4>0. PICK l, h : l = (IF key > a THEN a ELSE low[a]) /\ h = (IF key > a THEN high[a] ELSE a)
        OBVIOUS
      <4>3. l \in Int /\ h \in Int /\ l < key /\ key < h /\ (c = NULL => Gap(keys, l, h))
        BY <3>2, <3>3, <4>0, ChildIs
      <4>1. l \in Int /\ h \in Int /\ l < key /\ key < h /\ Gap(keys, l, h)
        BY <3>8, <4>3
      <4>2. key \notin keys
        BY <1>1, <4>1 DEF Gap
      <4>4. Misses(a)
        BY <3>2, <3>3, <3>8, <4>2
      <4>5. Ended(v)
        BY <3>7, <3>8, <4>4
      <4> HIDE DEF Ended
      <4> QED
        BY <2>1, <3>4, <3>7, <4>5
    <3>9. CASE c # NULL
      <4>1. /\ c \in keys /\ low[c] < key /\ key < high[c]
            /\ Inner(keys, low, high, c) \subseteq Inner(keys, low, high, a)
            /\ Inner(keys, low, high, c) # Inner(keys, low, high, a)
        BY <3>2, <3>3, <3>9, ChildIs
      <4>2. CASE c = key
        BY <2>1, <3>4, <3>7, <4>1, <4>2
      <4>3. CASE c # key
        <5>1. Cardinality(Inner(keys, low, high, c)) + (n + 1) <= N
          <6> DEFINE i == Cardinality(Inner(keys, low, high, c))
                     j == Cardinality(Inner(keys, low, high, a))
          <6>1. i + 1 <= j /\ i \in Nat /\ j \in Nat /\ N \in Nat /\ j + n <= N
            BY <1>1, <1>2, <1>3, <3>2, <4>1, KeysFinite
          <6> HIDE DEF i, j, N
          <6>2. i + (n + 1) <= N
            BY <6>1
          <6> QED
            BY <6>2 DEF i
        <5>2. Onway(c, n + 1)
          BY <4>1, <4>3, <5>1
        <5> HIDE DEF Onway
        <5> QED
          BY <2>1, <3>4, <3>7, <5>2
      <4> QED
        BY <4>2, <4>3
    <3> QED
      BY <3>8, <3>9
  <2> QED
    BY <2>2, <2>3
<1> HIDE DEF Good
<1>6. Cardinality(Addresses) \in Nat /\ Rounds(s, step) \in Good[Cardinality(Addresses)]
  BY <1>4, <1>5, LoopEnds
<1>7. PICK end : end = Rounds(s, step)
  OBVIOUS
<1>8. p = IF end.at = NULL THEN end.last ELSE end.at
  BY <1>7 DEF Descend
<1>9. (end.at = key /\ key \in keys) \/ Ended(end)
  <2>1. (end.at = key /\ key \in keys) \/ Onway(end.at, Cardinality(Addresses)) \/ Ended(end)
    BY <1>6, <1>7 DEF Good
  <2>2. ~Onway(end.at, Cardinality(Addresses))
    <3> SUFFICES ASSUME Onway(end.at, Cardinality(Addresses)) PROVE FALSE
      OBVIOUS
    <3> DEFINE c == Cardinality(Inner(keys, low, high, end.at))
    <3>1. end.at \in Inner(keys, low, high, end.at)
      BY SearchTypes DEF Inner
    <3>2. c # 0
      BY <1>3, <3>1, FS_EmptySet
    <3>3. c \in Nat /\ c + Cardinality(Addresses) <= N /\ N \in Nat /\ N <= Cardinality(Addresses)
      BY <1>1, <1>3, KeysFinite
    <3> HIDE DEF c, N
    <3> QED
      BY <1>6, <3>2, <3>3
  <2> HIDE DEF Onway, Ended
  <2> QED
    BY <2>1, <2>2
<1> QED
  BY <1>1, <1>8, <1>9

(* The answer of tree_find_nearest. *)
Nearest(keys, p, key) ==
  \/ p = NULL /\ \A a \in keys : key < a
  \/ p \in keys /\ p <= key /\ \A a \in keys : a <= p \/ key < a

(* On the way down best is what bounds the interval of the node from below. *)
LEMMA FindsNearest ==
  ASSUME IsFiniteSet(Addresses), NEW t, NEW keys, NEW low, NEW high,
         Search(t, keys, low, high), NEW key \in Addresses,
         NEW p, p = TreeFindNearest(t, key)
  PROVE  Nearest(keys, p, key)
<1> DEFINE N == Cardinality(keys)
           Pairs == [at : Nodes, best : Nodes]
           Bounds(b, l) == (b = NULL /\ \A k \in keys : l < k) \/ (b \in keys /\ b = l)
           Onway(a, b, n) == /\ a \in keys /\ a # key /\ low[a] < key /\ key < high[a]
                             /\ Bounds(b, low[a])
                             /\ Cardinality(Inner(keys, low, high, a)) + n <= N
           Ended(w) == w.at = NULL /\ Nearest(keys, w.best, key)
           Good == [n \in Nat |-> {w \in Pairs : \/ w.at = key /\ key \in keys
                                                 \/ Onway(w.at, w.best, n)
                                                 \/ Ended(w)}]
           step == [w \in Pairs |-> IF w.at \in {NULL, key} THEN w
                                    ELSE [at |-> Child(t, w.at, key),
                                          best |-> IF key > w.at /\ (w.best = NULL \/ w.best < w.at)
                                                   THEN w.at ELSE w.best]]
           s == [at |-> t.root, best |-> NULL]
<1>1. keys \subseteq Addresses /\ t \in Trees /\ NULL \notin keys /\ key # NULL
      /\ key \in Int /\ keys \subseteq Nodes /\ NULL \in Nodes
      /\ t.root \in Nodes
  <2>1. keys \subseteq Addresses /\ t \in Trees /\ NULL \notin keys
    BY SearchTypes
  <2>2. key # NULL /\ key \in Int
    BY RangeAssumption
  <2>3. t.root \in Nodes
    BY <2>1, TreeFields
  <2> QED
    BY <2>1, <2>2, <2>3 DEF Nodes
<1>2. \A a : Inner(keys, low, high, a) \in SUBSET keys
  BY DEF Inner
<1>3. N \in Nat /\ \A a : /\ IsFiniteSet(Inner(keys, low, high, a))
                          /\ Cardinality(Inner(keys, low, high, a)) \in Nat
                          /\ Cardinality(Inner(keys, low, high, a)) <= N
  BY <1>1, <1>2, KeysFinite
<1>4. s \in Good[0]
  <2>1. s \in Pairs /\ s.at = t.root /\ s.best = NULL
    BY <1>1
  <2>2. RootOf(t, keys, low, high)
    BY DEF Search
  <2>3. CASE t.root = NULL
    <3>1. keys = {}
      BY <2>2, <2>3 DEF RootOf
    <3>2. Ended(s)
      BY <2>1, <2>3, <3>1 DEF Nearest
    <3> HIDE DEF Ended
    <3> QED
      BY <2>1, <3>2
  <2>4. CASE t.root # NULL
    <3>1. t.root \in keys /\ \A a \in Addresses : low[t.root] < a /\ a < high[t.root]
      BY <2>2, <2>4 DEF RootOf
    <3>2. Cardinality(Inner(keys, low, high, t.root)) + 0 <= N
      <4> DEFINE c == Cardinality(Inner(keys, low, high, t.root))
      <4>1. c \in Nat /\ c <= N
        BY <1>3
      <4> HIDE DEF c
      <4>2. c + 0 <= N
        BY <4>1
      <4> QED
        BY <4>2 DEF c
    <3>3. CASE t.root = key
      BY <2>1, <3>1, <3>3
    <3>4. CASE t.root # key
      <4>0. Bounds(NULL, low[t.root])
        BY <1>1, <3>1
      <4>1. Onway(t.root, NULL, 0)
        BY <3>1, <3>2, <3>4, <4>0
      <4> HIDE DEF Onway
      <4> QED
        BY <2>1, <4>1
    <3> QED
      BY <3>3, <3>4
  <2> QED
    BY <2>3, <2>4
<1>5. ASSUME NEW n \in Nat, NEW w \in Good[n] PROVE step[w] \in Good[n + 1]
  <2>1. w \in Pairs /\ n + 1 \in Nat
        /\ step[w] = IF w.at \in {NULL, key} THEN w
                     ELSE [at |-> Child(t, w.at, key),
                           best |-> IF key > w.at /\ (w.best = NULL \/ w.best < w.at)
                                    THEN w.at ELSE w.best]
    OBVIOUS
  <2>2. CASE w.at \in {NULL, key}
    <3>1. (w.at = key /\ key \in keys) \/ Ended(w)
      BY <1>1, <2>2
    <3> HIDE DEF Ended
    <3> QED
      BY <2>1, <2>2, <3>1
  <2>3. CASE w.at \notin {NULL, key}
    <3>1. PICK a, b : a = w.at /\ b = w.best
      OBVIOUS
    <3>2. /\ a \in keys /\ a # key /\ low[a] < key /\ key < high[a] /\ Bounds(b, low[a])
          /\ Cardinality(Inner(keys, low, high, a)) + n <= N
      BY <2>3, <3>1
    <3>3. PICK c, l, h : /\ c = Child(t, a, key)
                         /\ l = (IF key > a THEN a ELSE low[a])
                         /\ h = (IF key > a THEN high[a] ELSE a)
      OBVIOUS
    <3>4. PICK v : v = step[w]
      OBVIOUS
    <3>10. a \in Int /\ low[a] \in Int /\ low[a] < a /\ a # NULL
      BY <3>2, SearchTypes
    <3>5. PICK d : d = IF key > a THEN a ELSE b
      OBVIOUS
    <3>11. v = [at |-> c, best |-> d]
      <4>1. b = NULL \/ b < a
        BY <3>2, <3>10
      <4> QED
        BY <2>1, <2>3, <3>1, <3>3, <3>4, <3>5, <4>1
    <3>12. Bounds(d, l)
      <4>1. CASE key > a
        BY <3>2, <3>3, <3>5, <4>1
      <4>2. CASE ~(key > a)
        BY <3>2, <3>3, <3>5, <4>2
      <4> QED
        BY <4>1, <4>2
    <3>6. c \in Nodes
      BY <1>1, <3>2, <3>3, TreeFields DEF Child
    <3>7. v \in Pairs /\ v.at = c /\ v.best = d
      BY <1>1, <3>6, <3>11, <3>12
    <3>13. l \in Int /\ h \in Int /\ l < key /\ key < h /\ (c = NULL => Gap(keys, l, h))
      BY <3>2, <3>3, ChildIs
    <3>8. CASE c = NULL
      <4>1. \A k \in keys : k \in Int /\ (k <= l \/ h <= k)
        BY <3>8, <3>13, SearchTypes DEF Gap
      <4>2. Nearest(keys, d, key)
        BY <1>1, <3>12, <3>13, <4>1 DEF Nearest
      <4>4. Ended(v)
        BY <3>7, <3>8, <4>2
      <4> HIDE DEF Ended
      <4> QED
        BY <2>1, <3>4, <3>7, <4>4
    <3>9. CASE c # NULL
      <4>1. /\ c \in keys /\ low[c] = l /\ high[c] = h
            /\ Inner(keys, low, high, c) \subseteq Inner(keys, low, high, a)
            /\ Inner(keys, low, high, c) # Inner(keys, low, high, a)
        BY <3>2, <3>3, <3>9, ChildIs
      <4>2. CASE c = key
        BY <2>1, <3>4, <3>7, <4>1, <4>2
      <4>3. CASE c # key
        <5>1. Cardinality(Inner(keys, low, high, c)) + (n + 1) <= N
          <6> DEFINE i == Cardinality(Inner(keys, low, high, c))
                     j == Cardinality(Inner(keys, low, high, a))
          <6>1. i + 1 <= j /\ i \in Nat /\ j \in Nat /\ N \in Nat /\ j + n <= N
            BY <1>1, <1>2, <1>3, <3>2, <4>1, KeysFinite
          <6> HIDE DEF i, j, N
          <6>2. i + (n + 1) <= N
            BY <6>1
          <6> QED
            BY <6>2 DEF i
        <5>2. Onway(c, d, n + 1)
          BY <3>12, <3>13, <4>1, <4>3, <5>1
        <5> HIDE DEF Onway
        <5> QED
          BY <2>1, <3>4, <3>7, <5>2
      <4> QED
        BY <4>2, <4>3
    <3> QED
      BY <3>8, <3>9
  <2> QED
    BY <2>2, <2>3
<1> HIDE DEF Good
<1>6. Cardinality(Addresses) \in Nat /\ Rounds(s, step) \in Good[Cardinality(Addresses)]
  BY <1>4, <1>5, LoopEnds
<1>7. PICK end : end = Rounds(s, step)
  OBVIOUS
<1>8. p = IF end.at = NULL THEN end.best ELSE end.at
  BY <1>7 DEF TreeFindNearest
<1>9. (end.at = key /\ key \in keys) \/ Ended(end)
  <2>1. (end.at = key /\ key \in keys) \/ Onway(end.at, end.best, Cardinality(Addresses)) \/ Ended(end)
    BY <1>6, <1>7 DEF Good
  <2>2. ~Onway(end.at, end.best, Cardinality(Addresses))
    <3> SUFFICES ASSUME Onway(end.at, end.best, Cardinality(Addresses)) PROVE FALSE
      OBVIOUS
    <3> DEFINE c == Cardinality(Inner(keys, low, high, end.at))
    <3>1. end.at \in Inner(keys, low, high, end.at)
      BY SearchTypes DEF Inner
    <3>2. c # 0
      BY <1>3, <3>1, FS_EmptySet
    <3>3. c \in Nat /\ c + Cardinality(Addresses) <= N /\ N \in Nat /\ N <= Cardinality(Addresses)
      BY <1>1, <1>3, KeysFinite
    <3> HIDE DEF c, N
    <3> QED
      BY <1>6, <3>2, <3>3
  <2> HIDE DEF Onway, Ended
  <2> QED
    BY <2>1, <2>2
<1>10. CASE end.at = key /\ key \in keys
  <2>1. p = key /\ \A a \in keys : a \in Int
    BY <1>1, <1>8, <1>10, SearchTypes
  <2> QED
    BY <1>1, <1>10, <2>1 DEF Nearest
<1>11. CASE Ended(end)
  BY <1>8, <1>11
<1> QED
  BY <1>9, <1>10, <1>11

-----------------------------------------------------------------------------
(* Insertion *)

(* There is an address above all others. *)
LEMMA AddressesBounded ==
  ASSUME IsFiniteSet(Addresses)
  PROVE  \E b \in Nat : \A a \in Addresses : a < b
<1> DEFINE Bounded(A) == \E b \in Nat : \A a \in A : a < b
           Open == {n \in Nat : \E A \in SUBSET Addresses : Cardinality(A) = n /\ ~Bounded(A)}
<1>1. \A A \in SUBSET Addresses : IsFiniteSet(A) /\ Cardinality(A) \in Nat
  BY FS_Subset, FS_CardinalityType
<1>2. SUFFICES ASSUME Open # {} PROVE FALSE
  BY <1>1
<1>3. PICK n \in Open : \A m \in Open : n <= m
  BY <1>2, LeastNatural
<1>4. PICK A \in SUBSET Addresses : Cardinality(A) = n /\ ~Bounded(A)
  BY <1>3
<1>5. A # {}
  <2>1. 0 \in Nat /\ \A a \in {} : a < 0
    OBVIOUS
  <2> QED
    BY <1>4, <2>1
<1>6. PICK x : x \in A
  BY <1>5
<1>7. PICK B : B = A \ {x}
  OBVIOUS
<1>8. B \in SUBSET Addresses /\ Cardinality(B) = n - 1 /\ n - 1 \in Nat
  <2>1. Cardinality(B) \in Nat /\ Cardinality(A) \in Nat
    BY <1>1, <1>7
  <2>2. Cardinality(A) = Cardinality(B) + 1
    <3>1. Cardinality(A \ {x}) = Cardinality(A) - 1
      BY <1>1, <1>6, FS_RemoveElement
    <3> QED
      BY <1>7, <2>1, <3>1
  <2> QED
    BY <1>4, <1>7, <2>1, <2>2
<1>9. Bounded(B)
  <2>1. n - 1 \notin Open
    BY <1>3
  <2> QED
    BY <1>8, <2>1
<1>10. PICK b \in Nat : \A a \in B : a < b
  BY <1>9
<1>11. x \in Nat /\ A \subseteq Nat
  BY <1>6, RangeAssumption
<1>12. PICK c : c = IF b > x THEN b ELSE x + 1
  OBVIOUS
<1>13. c \in Nat /\ \A a \in A : a < c
  BY <1>7, <1>10, <1>11, <1>12
<1> QED
  BY <1>4, <1>13

(* A single node is a search tree. *)
LEMMA FirstKey ==
  ASSUME IsFiniteSet(Addresses), NEW key \in Addresses, NEW r \in Trees,
         r.root = key, r.left[key] = NULL, r.right[key] = NULL, r.parent[key] = NULL
  PROVE  \E lo2, hi2 : Search(r, {key}, lo2, hi2)
<1>1. PICK b \in Nat : \A a \in Addresses : a < b
  BY AddressesBounded
<1>2. PICK lo2 \in [Addresses -> Int] : \A a \in Addresses : lo2[a] = -1
  <2>1. [a \in Addresses |-> -1] \in [Addresses -> Int]
    OBVIOUS
  <2> QED
    BY <2>1
<1>3. PICK hi2 \in [Addresses -> Int] : \A a \in Addresses : hi2[a] = b
  <2>1. [a \in Addresses |-> b] \in [Addresses -> Int]
    OBVIOUS
  <2> QED
    BY <2>1
<1>4. key \in Int /\ key # NULL /\ \A a \in Addresses : -1 < a /\ a < b
  BY <1>1, RangeAssumption
<1>5. RootOf(r, {key}, lo2, hi2)
  BY <1>2, <1>3, <1>4 DEF RootOf
<1>6. LeftChild(r, {key}, lo2, hi2, key) /\ RightChild(r, {key}, lo2, hi2, key)
  BY <1>4 DEF LeftChild, RightChild, Gap
<1>7. Laminar({key}, lo2, hi2) /\ Above(r, {key}, key)
  BY DEF Laminar, Above
<1>8. \A z \in {key} : lo2[z] < z /\ z < hi2[z]
  BY <1>2, <1>3, <1>4
<1> QED
  BY <1>2, <1>3, <1>5, <1>6, <1>7, <1>8 DEF Search

(* A gap between the keys lies below one node only.                         *)
LEMMA OneGap ==
  ASSUME NEW t, NEW keys, NEW low, NEW high, Search(t, keys, low, high),
         NEW p \in keys, NEW key \in Addresses, key # p, low[p] < key, key < high[p],
         NEW l, l = IF key > p THEN p ELSE low[p],
         NEW h, h = IF key > p THEN high[p] ELSE p,
         Gap(keys, l, h), NEW z \in keys \ {p}
  PROVE  /\ Gap(keys, low[z], z) => key <= low[z] \/ z <= key
         /\ Gap(keys, z, high[z]) => key <= z \/ high[z] <= key
         /\ \/ h <= low[z]
            \/ low[z] <= l /\ h <= z
            \/ z <= l /\ h <= high[z]
            \/ high[z] <= l
<1>1. \A k \in {p, z} : k \in Int /\ low[k] \in Int /\ high[k] \in Int /\ low[k] < k /\ k < high[k]
  BY SearchTypes
<1>2. key \in Int /\ p # z
  BY RangeAssumption
<1>3. Beside(low, high, p, z) \/ Beside(low, high, z, p)
  BY <1>2, SearchTypes DEF Laminar
<1>4. z <= l \/ h <= z
  BY DEF Gap
<1>10. /\ p \in Int /\ low[p] \in Int /\ high[p] \in Int /\ low[p] < p /\ p < high[p]
       /\ z \in Int /\ low[z] \in Int /\ high[z] \in Int /\ low[z] < z /\ z < high[z]
  BY <1>1
<1>5. low[p] <= l /\ h <= high[p] /\ l < key /\ key < h /\ l \in Int /\ h \in Int
  <2>1. CASE key > p
    BY <1>2, <1>10, <2>1
  <2>2. CASE ~(key > p)
    BY <1>2, <1>10, <2>2
  <2> QED
    BY <2>1, <2>2
<1>6. \/ high[z] <= low[p]
      \/ low[p] <= low[z] /\ high[z] <= p /\ l = p
      \/ p <= low[z] /\ high[z] <= high[p] /\ h = p
      \/ high[p] <= low[z]
      \/ low[z] <= low[p] /\ high[p] <= z
      \/ z <= low[p] /\ high[p] <= high[z]
  <2>1. CASE key > p
    BY <1>2, <1>3, <1>4, <1>10, <2>1 DEF Beside
  <2>2. CASE ~(key > p)
    BY <1>2, <1>3, <1>4, <1>10, <2>2 DEF Beside
  <2> QED
    BY <2>1, <2>2
<1>7. Gap(keys, low[z], z) => key <= low[z] \/ z <= key
  <2>1. SUFFICES ASSUME Gap(keys, low[z], z), low[z] < key, key < z PROVE FALSE
    BY <1>1, <1>2
  <2>2. p <= low[z] \/ z <= p
    BY <2>1 DEF Gap
  <2> QED
    BY <1>1, <1>2, <1>5, <1>6, <2>1, <2>2
<1>8. Gap(keys, z, high[z]) => key <= z \/ high[z] <= key
  <2>1. SUFFICES ASSUME Gap(keys, z, high[z]), z < key, key < high[z] PROVE FALSE
    BY <1>1, <1>2
  <2>2. p <= z \/ high[z] <= p
    BY <2>1 DEF Gap
  <2> QED
    BY <1>1, <1>2, <1>5, <1>6, <2>1, <2>2
<1>9. \/ h <= low[z]
      \/ low[z] <= l /\ h <= z
      \/ z <= l /\ h <= high[z]
      \/ high[z] <= l
  BY <1>1, <1>2, <1>5, <1>6
<1> QED
  BY <1>7, <1>8, <1>9

Leaf(t, r, p, key) ==
  /\ r.root = t.root
  /\ \A a \in Addresses :
       /\ r.left[a] = IF a = key THEN NULL ELSE IF a = p /\ p > key THEN key ELSE t.left[a]
       /\ r.right[a] = IF a = key THEN NULL ELSE IF a = p /\ p < key THEN key ELSE t.right[a]
       /\ r.parent[a] = IF a = key THEN p ELSE t.parent[a]

(* A new leaf below p fills the gap it is in.                               *)
LEMMA LeafKeeps ==
  ASSUME NEW t, NEW keys, NEW low, NEW high, Search(t, keys, low, high),
         NEW p \in keys, NEW key \in Addresses, key \notin keys, low[p] < key, key < high[p],
         Child(t, p, key) = NULL,
         NEW r \in Trees, Leaf(t, r, p, key)
  PROVE  \E lo2, hi2 : Search(r, keys \cup {key}, lo2, hi2)
<1>17. /\ r.root = t.root
       /\ \A a \in Addresses :
            /\ r.left[a] = IF a = key THEN NULL ELSE IF a = p /\ p > key THEN key ELSE t.left[a]
            /\ r.right[a] = IF a = key THEN NULL ELSE IF a = p /\ p < key THEN key ELSE t.right[a]
            /\ r.parent[a] = IF a = key THEN p ELSE t.parent[a]
  BY DEF Leaf
<1>1. PICK l, h : l = (IF key > p THEN p ELSE low[p]) /\ h = (IF key > p THEN high[p] ELSE p)
  OBVIOUS
<1>2. PICK ks : ks = keys \cup {key}
  OBVIOUS
<1>3. keys \subseteq Addresses /\ ks \subseteq Addresses /\ NULL \notin keys /\ key # NULL /\ key # p
      /\ key \in Int /\ p \in Int
  BY <1>2, SearchTypes, RangeAssumption
<1>4. \A z \in keys : z \in Int /\ low[z] \in Int /\ high[z] \in Int /\ low[z] < z /\ z < high[z]
  BY SearchTypes
<1>5. l \in Int /\ h \in Int /\ l < key /\ key < h /\ Gap(keys, l, h)
      /\ low[p] <= l /\ h <= high[p]
  <2>1. l \in Int /\ h \in Int /\ l < key /\ key < h
        /\ (Child(t, p, key) = NULL => Gap(keys, l, h))
    BY <1>1, <1>3, ChildIs
  <2>2. low[p] <= l /\ h <= high[p]
    BY <1>1, <1>3, <1>4
  <2> QED
    BY <2>1, <2>2
<1>6. low \in [Addresses -> Int] /\ high \in [Addresses -> Int]
  BY DEF Search
<1>7. PICK lo2 \in [Addresses -> Int] :
        lo2[key] = l /\ \A z \in keys : lo2[z] = low[z]
  <2> DEFINE f == [a \in Addresses |-> IF a = key THEN l ELSE low[a]]
  <2>1. f \in [Addresses -> Int]
    BY <1>5, <1>6
  <2> QED
    BY <1>3, <2>1
<1>8. PICK hi2 \in [Addresses -> Int] :
        hi2[key] = h /\ \A z \in keys : hi2[z] = high[z]
  <2> DEFINE f == [a \in Addresses |-> IF a = key THEN h ELSE high[a]]
  <2>1. f \in [Addresses -> Int]
    BY <1>5, <1>6
  <2> QED
    BY <1>3, <2>1
<1>9. ASSUME NEW z \in keys \ {p}
      PROVE  /\ Gap(keys, low[z], z) => key <= low[z] \/ z <= key
             /\ Gap(keys, z, high[z]) => key <= z \/ high[z] <= key
             /\ \/ h <= low[z]
                \/ low[z] <= l /\ h <= z
                \/ z <= l /\ h <= high[z]
                \/ high[z] <= l
  BY <1>1, <1>3, <1>5, OneGap
<1>10. RootOf(r, ks, lo2, hi2)
  <2>1. t.root # NULL => t.root \in keys /\ t.parent[t.root] = NULL
                         /\ \A a \in Addresses : low[t.root] < a /\ a < high[t.root]
    BY DEF Search, RootOf
  <2>2. t.root # NULL
    BY DEF Search, RootOf
  <2>3. t.root # key /\ t.root \in Addresses
    BY <1>3, <2>1, <2>2
  <2>4. lo2[t.root] = low[t.root] /\ hi2[t.root] = high[t.root]
    BY <1>7, <1>8, <2>1, <2>2
  <2>5. r.parent[t.root] = NULL
    BY <1>17, <2>1, <2>2, <2>3
  <2> QED
    BY <1>17, <1>2, <2>1, <2>2, <2>4, <2>5 DEF RootOf
<1>11. ASSUME NEW z \in ks PROVE lo2[z] < z /\ z < hi2[z]
  BY <1>2, <1>4, <1>5, <1>7, <1>8
<1>12. Laminar(ks, lo2, hi2)
  <2>1. SUFFICES ASSUME NEW k \in ks, NEW z \in ks, k # z
                 PROVE  Beside(lo2, hi2, k, z) \/ Beside(lo2, hi2, z, k)
    BY DEF Laminar
  <2>2. CASE k # key /\ z # key
    <3>1. Beside(low, high, k, z) \/ Beside(low, high, z, k)
      BY <1>2, <2>1, <2>2, SearchTypes DEF Laminar
    <3> QED
      BY <1>2, <1>7, <1>8, <2>1, <2>2, <3>1 DEF Beside
  <2>3. ASSUME NEW u \in keys PROVE Beside(lo2, hi2, key, u) \/ Beside(lo2, hi2, u, key)
    <3>0. /\ lo2[key] = l /\ hi2[key] = h /\ lo2[u] = low[u] /\ hi2[u] = high[u]
          /\ low[u] \in Int /\ high[u] \in Int /\ u \in Int
      BY <1>4, <1>7, <1>8
    <3>1. CASE u = p
      BY <1>1, <1>3, <1>4, <1>5, <3>0, <3>1 DEF Beside
    <3>2. CASE u # p
      <4>1. \/ h <= low[u]
            \/ low[u] <= l /\ h <= u
            \/ u <= l /\ h <= high[u]
            \/ high[u] <= l
        BY <1>9, <3>2
      <4> QED
        BY <3>0, <4>1 DEF Beside
    <3> QED
      BY <3>1, <3>2
  <2> QED
    BY <1>2, <2>1, <2>2, <2>3
<1>13. ASSUME NEW z \in ks PROVE LeftChild(r, ks, lo2, hi2, z)
  <2>1. CASE z = key
    <3>1. r.left[key] = NULL /\ Gap(ks, l, key)
      BY <1>17, <1>2, <1>3, <1>4, <1>5 DEF Gap
    <3> QED
      BY <1>7, <2>1, <3>1 DEF LeftChild
  <2>2. CASE z = p /\ p > key
    <3>1. r.left[z] = key /\ r.parent[key] = p /\ l = low[p] /\ h = p /\ lo2[p] = low[p]
      BY <1>17, <1>1, <1>3, <1>7, <2>2
    <3> QED
      BY <1>2, <1>3, <1>7, <1>8, <2>2, <3>1 DEF LeftChild
  <2>3. CASE z # key /\ ~(z = p /\ p > key)
    <3>1. z \in keys /\ r.left[z] = t.left[z] /\ LeftChild(t, keys, low, high, z)
      BY <1>17, <1>2, <1>3, <2>3 DEF Search
    <3>2. CASE t.left[z] = NULL
      <4>1. Gap(keys, low[z], z)
        BY <3>1, <3>2 DEF LeftChild
      <4>2. key <= low[z] \/ z <= key
        <5>1. CASE z = p
          BY <1>3, <2>3, <5>1
        <5>2. CASE z # p
          BY <1>9, <3>1, <4>1, <5>2
        <5> QED
          BY <5>1, <5>2
      <4>3. Gap(ks, lo2[z], z)
        BY <1>2, <1>7, <3>1, <4>1, <4>2 DEF Gap
      <4> QED
        BY <3>1, <3>2, <4>3 DEF LeftChild
    <3>3. CASE t.left[z] # NULL
      <4>1. PICK c : c = t.left[z]
        OBVIOUS
      <4>2. c \in keys /\ t.parent[c] = z /\ low[c] = low[z] /\ high[c] = z
        BY <3>1, <3>3, <4>1 DEF LeftChild
      <4>3. r.parent[c] = z /\ lo2[c] = lo2[z] /\ hi2[c] = z
        BY <1>17, <1>3, <1>7, <1>8, <3>1, <4>2
      <4> QED
        BY <1>2, <3>1, <3>3, <4>1, <4>2, <4>3 DEF LeftChild
    <3> QED
      BY <3>2, <3>3
  <2> QED
    BY <2>1, <2>2, <2>3
<1>14. ASSUME NEW z \in ks PROVE RightChild(r, ks, lo2, hi2, z)
  <2>1. CASE z = key
    <3>1. r.right[key] = NULL /\ Gap(ks, key, h)
      BY <1>17, <1>2, <1>3, <1>4, <1>5 DEF Gap
    <3> QED
      BY <1>8, <2>1, <3>1 DEF RightChild
  <2>2. CASE z = p /\ p < key
    <3>1. r.right[z] = key /\ r.parent[key] = p /\ l = p /\ h = high[p] /\ hi2[p] = high[p]
      BY <1>17, <1>1, <1>3, <1>8, <2>2
    <3> QED
      BY <1>2, <1>3, <1>7, <1>8, <2>2, <3>1 DEF RightChild
  <2>3. CASE z # key /\ ~(z = p /\ p < key)
    <3>1. z \in keys /\ r.right[z] = t.right[z] /\ RightChild(t, keys, low, high, z)
      BY <1>17, <1>2, <1>3, <2>3 DEF Search
    <3>2. CASE t.right[z] = NULL
      <4>1. Gap(keys, z, high[z])
        BY <3>1, <3>2 DEF RightChild
      <4>2. key <= z \/ high[z] <= key
        <5>1. CASE z = p
          BY <1>3, <2>3, <5>1
        <5>2. CASE z # p
          BY <1>9, <3>1, <4>1, <5>2
        <5> QED
          BY <5>1, <5>2
      <4>3. Gap(ks, z, hi2[z])
        BY <1>2, <1>8, <3>1, <4>1, <4>2 DEF Gap
      <4> QED
        BY <3>1, <3>2, <4>3 DEF RightChild
    <3>3. CASE t.right[z] # NULL
      <4>1. PICK c : c = t.right[z]
        OBVIOUS
      <4>2. c \in keys /\ t.parent[c] = z /\ low[c] = z /\ high[c] = high[z]
        BY <3>1, <3>3, <4>1 DEF RightChild
      <4>3. r.parent[c] = z /\ lo2[c] = z /\ hi2[c] = hi2[z]
        BY <1>17, <1>3, <1>7, <1>8, <3>1, <4>2
      <4> QED
        BY <1>2, <3>1, <3>3, <4>1, <4>2, <4>3 DEF RightChild
    <3> QED
      BY <3>2, <3>3
  <2> QED
    BY <2>1, <2>2, <2>3
<1>15. ASSUME NEW z \in ks PROVE Above(r, ks, z)
  <2>1. CASE z = key
    <3>1. r.parent[key] = p /\ (r.left[p] = key \/ r.right[p] = key)
      BY <1>17, <1>3
    <3> QED
      BY <1>2, <2>1, <3>1 DEF Above
  <2>2. CASE z # key
    <3>1. z \in keys /\ Above(t, keys, z) /\ r.parent[z] = t.parent[z]
      BY <1>17, <1>2, <1>3, <2>2 DEF Search
    <3>2. CASE z = t.root
      BY <1>17, <3>2 DEF Above
    <3>3. CASE z # t.root
      <4>1. PICK q : q = t.parent[z]
        OBVIOUS
      <4>2. q \in keys /\ (t.left[q] = z \/ t.right[q] = z)
        BY <3>1, <3>3, <4>1 DEF Above
      <4>3. q # key /\ q \in Addresses /\ z # NULL
        BY <1>3, <3>1, <4>2
      <4>4. t.left[q] = z => r.left[q] = z
        BY <1>17, <1>3, <4>3 DEF Child
      <4>5. t.right[q] = z => r.right[q] = z
        BY <1>17, <1>3, <4>3 DEF Child
      <4> QED
        BY <1>2, <3>1, <4>1, <4>2, <4>4, <4>5 DEF Above
    <3> QED
      BY <3>2, <3>3
  <2> QED
    BY <2>1, <2>2
<1>16. Search(r, ks, lo2, hi2)
  BY <1>3, <1>7, <1>8, <1>10, <1>11, <1>12, <1>13, <1>14, <1>15 DEF Search
<1> QED
  BY <1>2, <1>16

(* TreeInsert adds the key to the search tree. *)
LEMMA InsertKeeps ==
  ASSUME IsFiniteSet(Addresses), NEW t, NEW keys, NEW low, NEW high,
         Search(t, keys, low, high), NEW key \in Addresses
  PROVE  \E lo2, hi2 : Search(TreeInsert(t, key), keys \cup {key}, lo2, hi2)
<1>1. PICK p : p = Descend(t, key)
  OBVIOUS
<1>2. \/ p = key /\ key \in keys
      \/ p = NULL /\ keys = {} /\ t.root = NULL
      \/ /\ p \in keys /\ p # NULL /\ p # key /\ key \notin keys
         /\ low[p] < key /\ key < high[p] /\ Child(t, p, key) = NULL
  BY <1>1, DescendIs
<1>3. CASE p = key
  <2>1. TreeInsert(t, key) = t /\ keys \cup {key} = keys
    <3>1. key # NULL
      BY RangeAssumption
    <3> QED
      BY <1>1, <1>2, <1>3, <3>1 DEF TreeInsert
  <2> QED
    BY <2>1
<1>4. CASE p # key
  <2> DEFINE left == Store(IF p # NULL /\ p > key THEN Store(t.left, p, key) ELSE t.left, key, NULL)
             right == Store(IF p # NULL /\ p < key THEN Store(t.right, p, key) ELSE t.right, key, NULL)
             parent == Store(t.parent, key, p)
             root == IF p = NULL THEN key ELSE t.root
             r == [root |-> root, left |-> left, right |-> right, parent |-> parent]
  <2>1. /\ t.root \in Nodes /\ t.left \in [Addresses -> Nodes]
        /\ t.right \in [Addresses -> Nodes] /\ t.parent \in [Addresses -> Nodes]
    BY SearchTypes, TreeFields
  <2>2. p \in Nodes /\ key \in Nodes /\ NULL \in Nodes /\ key # NULL /\ NULL \notin Addresses
    BY <1>2, SearchTypes, RangeAssumption DEF Nodes
  <2>3. /\ left \in [Addresses -> Nodes]
        /\ \A a \in Addresses : left[a] = IF a = key THEN NULL
                                          ELSE IF a = p /\ p > key THEN key ELSE t.left[a]
    <3> DEFINE f == IF p # NULL /\ p > key THEN Store(t.left, p, key) ELSE t.left
    <3>1. f \in [Addresses -> Nodes]
          /\ \A a \in Addresses : f[a] = IF a = p /\ p > key THEN key ELSE t.left[a]
      BY <2>1, <2>2, StoreLink DEF Nodes
    <3> HIDE DEF f
    <3>2. Store(f, key, NULL) \in [Addresses -> Nodes]
          /\ \A a \in Addresses : Store(f, key, NULL)[a] = IF a = key THEN NULL ELSE f[a]
      BY <2>2, <3>1, StoreLink DEF Nodes
    <3>3. left = Store(f, key, NULL)
      BY DEF f
    <3> HIDE DEF left
    <3> QED
      BY <3>1, <3>2, <3>3
  <2>4. /\ right \in [Addresses -> Nodes]
        /\ \A a \in Addresses : right[a] = IF a = key THEN NULL
                                           ELSE IF a = p /\ p < key THEN key ELSE t.right[a]
    <3> DEFINE f == IF p # NULL /\ p < key THEN Store(t.right, p, key) ELSE t.right
    <3>1. f \in [Addresses -> Nodes]
          /\ \A a \in Addresses : f[a] = IF a = p /\ p < key THEN key ELSE t.right[a]
      BY <2>1, <2>2, StoreLink DEF Nodes
    <3> HIDE DEF f
    <3>2. Store(f, key, NULL) \in [Addresses -> Nodes]
          /\ \A a \in Addresses : Store(f, key, NULL)[a] = IF a = key THEN NULL ELSE f[a]
      BY <2>2, <3>1, StoreLink DEF Nodes
    <3>3. right = Store(f, key, NULL)
      BY DEF f
    <3> HIDE DEF right
    <3> QED
      BY <3>1, <3>2, <3>3
  <2>5. /\ parent \in [Addresses -> Nodes]
        /\ \A a \in Addresses : parent[a] = IF a = key THEN p ELSE t.parent[a]
    BY <2>1, <2>2, StoreLink DEF Nodes
  <2>6. TreeInsert(t, key) = Splay(r, key)
    BY <1>1, <1>4 DEF TreeInsert
  <2>7. root \in Nodes /\ root = IF p = NULL THEN key ELSE t.root
    BY <2>1, <2>2
  <2> HIDE DEF left, right, parent, root
  <2>8. r \in Trees
    BY <2>3, <2>4, <2>5, <2>7, TreeMade
  <2>9. PICK g \in Trees : /\ TreeInsert(t, key) = Splay(g, key)
                           /\ g.root = root /\ g.left = left /\ g.right = right /\ g.parent = parent
    BY <2>6, <2>8
  <2>10. \E lo2, hi2 : Search(g, keys \cup {key}, lo2, hi2)
    <3>1. CASE p = NULL
      <4>1. keys = {} /\ g.root = key /\ g.left[key] = NULL /\ g.right[key] = NULL /\ g.parent[key] = NULL
        BY <1>2, <1>4, <2>2, <2>3, <2>4, <2>5, <2>7, <2>9, <3>1, SearchTypes
      <4>2. \E lo2, hi2 : Search(g, {key}, lo2, hi2)
        BY <4>1, FirstKey
      <4> QED
        BY <4>1, <4>2
    <3>2. CASE p # NULL
      <4>1. /\ p \in keys /\ key \notin keys
            /\ low[p] < key /\ key < high[p] /\ Child(t, p, key) = NULL
        BY <1>2, <1>4, <3>2
      <4>2. g.root = t.root
        BY <2>7, <2>9, <3>2
      <4>3. \A a \in Addresses : g.left[a] = IF a = key THEN NULL
                                          ELSE IF a = p /\ p > key THEN key ELSE t.left[a]
        BY <2>3, <2>9
      <4>4. \A a \in Addresses : g.right[a] = IF a = key THEN NULL
                                          ELSE IF a = p /\ p < key THEN key ELSE t.right[a]
        BY <2>4, <2>9
      <4>5. \A a \in Addresses : g.parent[a] = IF a = key THEN p ELSE t.parent[a]
        BY <2>5, <2>9
      <4>6. g \in Trees
        BY <2>9
      <4>7. Leaf(t, g, p, key)
        BY <4>2, <4>3, <4>4, <4>5 DEF Leaf
      <4> QED
        BY <4>1, <4>6, <4>7, LeafKeeps
    <3> QED
      BY <3>1, <3>2
  <2>11. PICK lo1, hi1 : Search(g, keys \cup {key}, lo1, hi1)
    BY <2>10
  <2>12. key \in keys \cup {key}
    OBVIOUS
  <2>13. \E lo2, hi2 : Search(Splay(g, key), keys \cup {key}, lo2, hi2)
    BY <2>11, <2>12, SplayKeeps
  <2> QED
    BY <2>9, <2>13
<1> QED
  BY <1>3, <1>4

-----------------------------------------------------------------------------
(* Removal: splayed to the root, the node is bypassed or its successor      *)
(* takes its place.                                                         *)

(* Each interval lies on one side of the key of the root.                   *)
LEMMA RootSides ==
  ASSUME NEW t, NEW keys, NEW low, NEW high, Search(t, keys, low, high),
         NEW z \in keys, t.root = z, NEW k \in keys \ {z}
  PROVE  \/ low[z] <= low[k] /\ high[k] <= z
         \/ z <= low[k] /\ high[k] <= high[z]
<1>1. /\ z \in Int /\ low[z] \in Int /\ high[z] \in Int /\ low[z] < z /\ z < high[z]
      /\ k \in Int /\ low[k] \in Int /\ high[k] \in Int /\ low[k] < k /\ k < high[k]
  BY SearchTypes
<1>2. Beside(low, high, k, z) \/ Beside(low, high, z, k)
  BY SearchTypes DEF Laminar
<1>3. low[z] < k /\ k < high[z]
  <2>1. k \in Addresses /\ z # NULL
    BY SearchTypes
  <2> QED
    BY <2>1 DEF Search, RootOf
<1> QED
  BY <1>1, <1>2, <1>3 DEF Beside

(* The root has no parent, and its interval holds all addresses. *)
LEMMA RootFacts ==
  ASSUME NEW t, NEW keys, NEW low, NEW high, Search(t, keys, low, high),
         NEW z \in keys, t.root = z
  PROVE  /\ t.parent[z] = NULL /\ z \in Addresses /\ z # NULL
         /\ \A a \in Addresses : low[z] < a /\ a < high[z]
         /\ low[z] \in Int /\ high[z] \in Int /\ z \in Int /\ low[z] < z /\ z < high[z]
         /\ low \in [Addresses -> Int] /\ high \in [Addresses -> Int]
         /\ \A k \in keys \ {z} : k # t.root
<1>1. z \in Addresses /\ z # NULL /\ low[z] \in Int /\ high[z] \in Int /\ z \in Int
      /\ low[z] < z /\ z < high[z]
  BY SearchTypes
<1>2. t.parent[z] = NULL /\ \A a \in Addresses : low[z] < a /\ a < high[z]
  BY <1>1 DEF Search, RootOf
<1>3. low \in [Addresses -> Int] /\ high \in [Addresses -> Int]
  BY DEF Search
<1> QED
  BY <1>1, <1>2, <1>3

(* A child is neither the root nor the child of another node.               *)
LEMMA ChildOf ==
  ASSUME NEW t, NEW keys, NEW low, NEW high, Search(t, keys, low, high), NEW k \in keys
  PROVE  /\ t.left[k] # NULL =>
              t.left[k] \in keys /\ t.parent[t.left[k]] = k
              /\ low[t.left[k]] = low[k] /\ high[t.left[k]] = k
         /\ t.right[k] # NULL =>
              t.right[k] \in keys /\ t.parent[t.right[k]] = k
              /\ low[t.right[k]] = k /\ high[t.right[k]] = high[k]
         /\ t.left[k] = NULL => Gap(keys, low[k], k)
         /\ t.right[k] = NULL => Gap(keys, k, high[k])
         /\ k # t.root => /\ t.parent[k] \in keys
                          /\ t.left[t.parent[k]] = k \/ t.right[t.parent[k]] = k
<1>1. LeftChild(t, keys, low, high, k) /\ RightChild(t, keys, low, high, k) /\ Above(t, keys, k)
  BY DEF Search
<1>2. /\ t.left[k] # NULL =>
           t.left[k] \in keys /\ t.parent[t.left[k]] = k
           /\ low[t.left[k]] = low[k] /\ high[t.left[k]] = k
      /\ t.left[k] = NULL => Gap(keys, low[k], k)
  BY <1>1 DEF LeftChild
<1>3. /\ t.right[k] # NULL =>
           t.right[k] \in keys /\ t.parent[t.right[k]] = k
           /\ low[t.right[k]] = k /\ high[t.right[k]] = high[k]
      /\ t.right[k] = NULL => Gap(keys, k, high[k])
  BY <1>1 DEF RightChild
<1>4. k # t.root => /\ t.parent[k] \in keys
                    /\ t.left[t.parent[k]] = k \/ t.right[t.parent[k]] = k
  BY <1>1 DEF Above
<1> QED
  BY <1>2, <1>3, <1>4

(* The root z has at most one child, c, which takes its place.              *)
Bypassed(t, r, z, c) ==
  /\ r.root = c
  /\ \A a \in Addresses :
       /\ r.left[a] = IF a = z THEN NULL ELSE t.left[a]
       /\ r.right[a] = IF a = z THEN NULL ELSE t.right[a]
       /\ r.parent[a] = IF a \in {z, c} THEN NULL ELSE t.parent[a]

(* A root without a left child is replaced by the right one. *)
LEMMA RightChildUp ==
  ASSUME NEW t, NEW keys, NEW low, NEW high, Search(t, keys, low, high),
         NEW z \in keys, t.root = z, t.left[z] = NULL, NEW c, c = t.right[z],
         NEW r \in Trees, Bypassed(t, r, z, c)
  PROVE  \E lo2, hi2 : Search(r, keys \ {z}, lo2, hi2)
<1>1. PICK ks : ks = keys \ {z}
  OBVIOUS
<1>2. /\ t.parent[z] = NULL /\ z \in Addresses /\ z # NULL
      /\ \A a \in Addresses : low[z] < a /\ a < high[z]
      /\ low[z] \in Int /\ high[z] \in Int /\ z \in Int /\ low[z] < z /\ z < high[z]
  BY RootFacts
<1>14. low \in [Addresses -> Int] /\ high \in [Addresses -> Int]
  BY RootFacts
<1>3. \A k \in ks : /\ k \in keys /\ k # z /\ k \in Addresses /\ k # NULL /\ k # t.root
                   /\ k \in Int /\ low[k] \in Int /\ high[k] \in Int /\ low[k] < k /\ k < high[k]
  BY <1>1, SearchTypes
<1>4. Gap(keys, low[z], z) /\ (c = NULL => Gap(keys, z, high[z]))
  BY ChildOf
<1>5. \A k \in ks : z < k /\ z <= low[k] /\ high[k] <= high[z]
  <2> SUFFICES ASSUME NEW k \in ks PROVE z < k /\ z <= low[k] /\ high[k] <= high[z]
    OBVIOUS
  <2>1. /\ k \in keys /\ k # z /\ k \in Addresses /\ k \in Int /\ low[k] \in Int /\ high[k] \in Int
        /\ low[k] < k /\ k < high[k] /\ low[z] < k
    BY <1>2, <1>3
  <2>2. (low[z] <= low[k] /\ high[k] <= z) \/ (z <= low[k] /\ high[k] <= high[z])
    BY <2>1, RootSides
  <2>3. k <= low[z] \/ z <= k
    BY <1>4, <2>1 DEF Gap
  <2> QED
    BY <1>2, <2>1, <2>2, <2>3
<1>6. PICK lo2 \in [Addresses -> Int] : \A a \in Addresses : lo2[a] = IF low[a] = z THEN low[z] ELSE low[a]
  <2> DEFINE f == [a \in Addresses |-> IF low[a] = z THEN low[z] ELSE low[a]]
  <2>1. f \in [Addresses -> Int]
    BY <1>2, <1>14
  <2> QED
    BY <2>1
<1>7. \A a \in Addresses : /\ r.left[a] = IF a = z THEN NULL ELSE t.left[a]
                           /\ r.right[a] = IF a = z THEN NULL ELSE t.right[a]
                           /\ r.parent[a] = IF a \in {z, c} THEN NULL ELSE t.parent[a]
  BY DEF Bypassed
<1>8. \A k \in ks : lo2[k] = (IF low[k] = z THEN low[z] ELSE low[k]) /\ lo2[k] \in Int /\ lo2[k] <= low[k]
  BY <1>2, <1>3, <1>5, <1>6
<1>9. RootOf(r, ks, lo2, high)
  <2>1. CASE c = NULL
    <3>1. Gap(keys, z, high[z])
      BY <1>4, <2>1
    <3>2. \A k \in ks : FALSE
      <4> SUFFICES ASSUME NEW k \in ks PROVE FALSE
        OBVIOUS
      <4>1. k \in keys /\ k \in Int /\ z < k /\ k < high[z]
        BY <1>2, <1>3, <1>5
      <4>2. k <= z \/ high[z] <= k
        BY <3>1, <4>1 DEF Gap
      <4> QED
        BY <1>2, <4>1, <4>2
    <3> QED
      BY <2>1, <3>2 DEF RootOf, Bypassed
  <2>2. CASE c # NULL
    <3>1. c \in keys /\ t.parent[c] = z /\ low[c] = z /\ high[c] = high[z]
      BY <2>2, ChildOf
    <3>2. c \in ks
      BY <1>1, <1>2, <3>1
    <3>3. c \in Addresses /\ r.parent[c] = NULL /\ lo2[c] = low[z]
      BY <1>3, <1>7, <1>8, <3>1, <3>2
    <3> QED
      BY <1>2, <2>2, <3>1, <3>2, <3>3 DEF RootOf, Bypassed
  <2> QED
    BY <2>1, <2>2
<1>10. ASSUME NEW k \in ks PROVE LeftChild(r, ks, lo2, high, k)
  <2>1. r.left[k] = t.left[k] /\ k \in keys
    BY <1>3, <1>7
  <2>2. CASE t.left[k] = NULL
    <3>1. Gap(keys, low[k], k)
      BY <2>1, <2>2, ChildOf
    <3>2. ASSUME NEW j \in ks PROVE j <= lo2[k] \/ k <= j
      <4>1. j <= low[k] \/ k <= j
        BY <1>3, <3>1 DEF Gap
      <4>2. low[k] = z => k <= j
        BY <1>2, <1>3, <1>5, <4>1
      <4> QED
        BY <1>8, <4>1, <4>2
    <3> QED
      BY <2>1, <2>2, <3>2 DEF LeftChild, Gap
  <2>3. CASE t.left[k] # NULL
    <3>1. PICK d : d = t.left[k]
      OBVIOUS
    <3>2. d \in keys /\ t.parent[d] = k /\ low[d] = low[k] /\ high[d] = k
      BY <2>1, <2>3, <3>1, ChildOf
    <3>3. d # z /\ d # c
      BY <1>2, <1>3, <2>3, <3>1, <3>2, ChildOf
    <3>4. d \in ks /\ r.parent[d] = k /\ lo2[d] = lo2[k]
      BY <1>1, <1>3, <1>7, <1>8, <3>2, <3>3
    <3> QED
      BY <2>1, <2>3, <3>1, <3>2, <3>4 DEF LeftChild
  <2> QED
    BY <2>2, <2>3
<1>11. ASSUME NEW k \in ks PROVE RightChild(r, ks, lo2, high, k)
  <2>1. r.right[k] = t.right[k] /\ k \in keys
    BY <1>3, <1>7
  <2>2. CASE t.right[k] = NULL
    <3>1. Gap(keys, k, high[k])
      BY <2>1, <2>2, ChildOf
    <3> QED
      BY <1>3, <2>1, <2>2, <3>1 DEF RightChild, Gap
  <2>3. CASE t.right[k] # NULL
    <3>1. PICK d : d = t.right[k]
      OBVIOUS
    <3>2. d \in keys /\ t.parent[d] = k /\ low[d] = k /\ high[d] = high[k]
      BY <2>1, <2>3, <3>1, ChildOf
    <3>3. d # z /\ d # c
      BY <1>2, <1>3, <2>3, <3>1, <3>2, ChildOf
    <3>4. d \in ks /\ r.parent[d] = k /\ lo2[d] = k
      BY <1>1, <1>3, <1>7, <1>8, <3>2, <3>3
    <3> QED
      BY <2>1, <2>3, <3>1, <3>2, <3>4 DEF RightChild
  <2> QED
    BY <2>2, <2>3
<1>12. ASSUME NEW k \in ks PROVE Above(r, ks, k)
  <2>1. CASE k = c
    BY <2>1 DEF Above, Bypassed
  <2>2. CASE k # c
    <3>1. PICK q : q = t.parent[k]
      OBVIOUS
    <3>2. q \in keys /\ (t.left[q] = k \/ t.right[q] = k)
      BY <1>3, <3>1, ChildOf
    <3>3. q # z
      BY <1>3, <2>2, <3>2
    <3>4. q \in ks /\ r.parent[k] = q /\ r.left[q] = t.left[q] /\ r.right[q] = t.right[q]
      BY <1>1, <1>3, <1>7, <2>2, <3>1, <3>2, <3>3
    <3> QED
      BY <3>2, <3>4 DEF Above
  <2> QED
    BY <2>1, <2>2
<1>13. Laminar(ks, lo2, high)
  <2>1. SUFFICES ASSUME NEW k \in ks, NEW j \in ks, k # j,
                        Beside(low, high, k, j)
                 PROVE  Beside(lo2, high, k, j)
    BY <1>3, SearchTypes DEF Laminar
  <2>2. /\ k \in Int /\ low[k] \in Int /\ high[k] \in Int /\ low[k] < k /\ k < high[k]
        /\ j \in Int /\ low[j] \in Int /\ high[j] \in Int /\ low[j] < j /\ j < high[j]
        /\ z < k /\ z <= low[k] /\ z < j /\ z <= low[j]
    BY <1>3, <1>5
  <2>3. /\ lo2[k] = IF low[k] = z THEN low[z] ELSE low[k]
        /\ lo2[j] = IF low[j] = z THEN low[z] ELSE low[j]
    BY <1>8
  <2> QED
    BY <1>2, <2>1, <2>2, <2>3 DEF Beside
<1>15. \A k \in ks : lo2[k] < k /\ k < high[k]
  BY <1>3, <1>8
<1>16. ks \subseteq Addresses
  BY <1>3
<1>17. Search(r, ks, lo2, high)
  BY <1>6, <1>9, <1>10, <1>11, <1>12, <1>13, <1>14, <1>15, <1>16 DEF Search
<1> QED
  BY <1>1, <1>17

(* A root without a right child is replaced by the left one. *)
LEMMA LeftChildUp ==
  ASSUME NEW t, NEW keys, NEW low, NEW high, Search(t, keys, low, high),
         NEW z \in keys, t.root = z, t.right[z] = NULL, NEW c, c = t.left[z],
         NEW r \in Trees, Bypassed(t, r, z, c)
  PROVE  \E lo2, hi2 : Search(r, keys \ {z}, lo2, hi2)
<1>1. PICK ks : ks = keys \ {z}
  OBVIOUS
<1>2. /\ t.parent[z] = NULL /\ z \in Addresses /\ z # NULL
      /\ \A a \in Addresses : low[z] < a /\ a < high[z]
      /\ low[z] \in Int /\ high[z] \in Int /\ z \in Int /\ low[z] < z /\ z < high[z]
  BY RootFacts
<1>14. low \in [Addresses -> Int] /\ high \in [Addresses -> Int]
  BY RootFacts
<1>3. \A k \in ks : /\ k \in keys /\ k # z /\ k \in Addresses /\ k # NULL /\ k # t.root
                   /\ k \in Int /\ low[k] \in Int /\ high[k] \in Int /\ low[k] < k /\ k < high[k]
  BY <1>1, SearchTypes
<1>4. Gap(keys, z, high[z]) /\ (c = NULL => Gap(keys, low[z], z))
  BY ChildOf
<1>5. \A k \in ks : k < z /\ low[z] <= low[k] /\ high[k] <= z
  <2> SUFFICES ASSUME NEW k \in ks PROVE k < z /\ low[z] <= low[k] /\ high[k] <= z
    OBVIOUS
  <2>1. /\ k \in keys /\ k # z /\ k \in Addresses /\ k \in Int /\ low[k] \in Int /\ high[k] \in Int
        /\ low[k] < k /\ k < high[k] /\ k < high[z]
    BY <1>2, <1>3
  <2>2. (low[z] <= low[k] /\ high[k] <= z) \/ (z <= low[k] /\ high[k] <= high[z])
    BY <2>1, RootSides
  <2>3. k <= z \/ high[z] <= k
    BY <1>4, <2>1 DEF Gap
  <2> QED
    BY <1>2, <2>1, <2>2, <2>3
<1>6. PICK hi2 \in [Addresses -> Int] : \A a \in Addresses : hi2[a] = IF high[a] = z THEN high[z] ELSE high[a]
  <2> DEFINE f == [a \in Addresses |-> IF high[a] = z THEN high[z] ELSE high[a]]
  <2>1. f \in [Addresses -> Int]
    BY <1>2, <1>14
  <2> QED
    BY <2>1
<1>7. \A a \in Addresses : /\ r.left[a] = IF a = z THEN NULL ELSE t.left[a]
                           /\ r.right[a] = IF a = z THEN NULL ELSE t.right[a]
                           /\ r.parent[a] = IF a \in {z, c} THEN NULL ELSE t.parent[a]
  BY DEF Bypassed
<1>8. \A k \in ks : hi2[k] = (IF high[k] = z THEN high[z] ELSE high[k]) /\ hi2[k] \in Int /\ high[k] <= hi2[k]
  BY <1>2, <1>3, <1>5, <1>6
<1>9. RootOf(r, ks, low, hi2)
  <2>1. CASE c = NULL
    <3>1. Gap(keys, low[z], z)
      BY <1>4, <2>1
    <3>2. \A k \in ks : FALSE
      <4> SUFFICES ASSUME NEW k \in ks PROVE FALSE
        OBVIOUS
      <4>1. k \in keys /\ k \in Int /\ k < z /\ low[z] < k
        BY <1>2, <1>3, <1>5
      <4>2. k <= low[z] \/ z <= k
        BY <3>1, <4>1 DEF Gap
      <4> QED
        BY <1>2, <4>1, <4>2
    <3> QED
      BY <2>1, <3>2 DEF RootOf, Bypassed
  <2>2. CASE c # NULL
    <3>1. c \in keys /\ t.parent[c] = z /\ low[c] = low[z] /\ high[c] = z
      BY <2>2, ChildOf
    <3>2. c \in ks
      BY <1>1, <1>2, <3>1
    <3>3. c \in Addresses /\ r.parent[c] = NULL /\ hi2[c] = high[z]
      BY <1>3, <1>7, <1>8, <3>1, <3>2
    <3> QED
      BY <1>2, <2>2, <3>1, <3>2, <3>3 DEF RootOf, Bypassed
  <2> QED
    BY <2>1, <2>2
<1>10. ASSUME NEW k \in ks PROVE RightChild(r, ks, low, hi2, k)
  <2>1. r.right[k] = t.right[k] /\ k \in keys
    BY <1>3, <1>7
  <2>2. CASE t.right[k] = NULL
    <3>1. Gap(keys, k, high[k])
      BY <2>1, <2>2, ChildOf
    <3>2. ASSUME NEW j \in ks PROVE j <= k \/ hi2[k] <= j
      <4>1. j <= k \/ high[k] <= j
        BY <1>3, <3>1 DEF Gap
      <4>2. high[k] = z => j <= k
        BY <1>2, <1>3, <1>5, <4>1
      <4> QED
        BY <1>8, <4>1, <4>2
    <3> QED
      BY <2>1, <2>2, <3>2 DEF RightChild, Gap
  <2>3. CASE t.right[k] # NULL
    <3>1. PICK d : d = t.right[k]
      OBVIOUS
    <3>2. d \in keys /\ t.parent[d] = k /\ low[d] = k /\ high[d] = high[k]
      BY <2>1, <2>3, <3>1, ChildOf
    <3>3. d # z /\ d # c
      BY <1>2, <1>3, <2>3, <3>1, <3>2, ChildOf
    <3>4. d \in ks /\ r.parent[d] = k /\ hi2[d] = hi2[k]
      BY <1>1, <1>3, <1>7, <1>8, <3>2, <3>3
    <3> QED
      BY <2>1, <2>3, <3>1, <3>2, <3>4 DEF RightChild
  <2> QED
    BY <2>2, <2>3
<1>11. ASSUME NEW k \in ks PROVE LeftChild(r, ks, low, hi2, k)
  <2>1. r.left[k] = t.left[k] /\ k \in keys
    BY <1>3, <1>7
  <2>2. CASE t.left[k] = NULL
    <3>1. Gap(keys, low[k], k)
      BY <2>1, <2>2, ChildOf
    <3> QED
      BY <1>3, <2>1, <2>2, <3>1 DEF LeftChild, Gap
  <2>3. CASE t.left[k] # NULL
    <3>1. PICK d : d = t.left[k]
      OBVIOUS
    <3>2. d \in keys /\ t.parent[d] = k /\ low[d] = low[k] /\ high[d] = k
      BY <2>1, <2>3, <3>1, ChildOf
    <3>3. d # z /\ d # c
      BY <1>2, <1>3, <2>3, <3>1, <3>2, ChildOf
    <3>4. d \in ks /\ r.parent[d] = k /\ hi2[d] = k
      BY <1>1, <1>3, <1>7, <1>8, <3>2, <3>3
    <3> QED
      BY <2>1, <2>3, <3>1, <3>2, <3>4 DEF LeftChild
  <2> QED
    BY <2>2, <2>3
<1>12. ASSUME NEW k \in ks PROVE Above(r, ks, k)
  <2>1. CASE k = c
    BY <2>1 DEF Above, Bypassed
  <2>2. CASE k # c
    <3>1. PICK q : q = t.parent[k]
      OBVIOUS
    <3>2. q \in keys /\ (t.left[q] = k \/ t.right[q] = k)
      BY <1>3, <3>1, ChildOf
    <3>3. q # z
      BY <1>3, <2>2, <3>2
    <3>4. q \in ks /\ r.parent[k] = q /\ r.left[q] = t.left[q] /\ r.right[q] = t.right[q]
      BY <1>1, <1>3, <1>7, <2>2, <3>1, <3>2, <3>3
    <3> QED
      BY <3>2, <3>4 DEF Above
  <2> QED
    BY <2>1, <2>2
<1>13. Laminar(ks, low, hi2)
  <2>1. SUFFICES ASSUME NEW k \in ks, NEW j \in ks, k # j,
                        Beside(low, high, k, j)
                 PROVE  Beside(low, hi2, k, j)
    BY <1>3, SearchTypes DEF Laminar
  <2>2. /\ k \in Int /\ low[k] \in Int /\ high[k] \in Int /\ low[k] < k /\ k < high[k]
        /\ j \in Int /\ low[j] \in Int /\ high[j] \in Int /\ low[j] < j /\ j < high[j]
        /\ k < z /\ high[k] <= z /\ j < z /\ high[j] <= z
    BY <1>3, <1>5
  <2>3. /\ hi2[k] = IF high[k] = z THEN high[z] ELSE high[k]
        /\ hi2[j] = IF high[j] = z THEN high[z] ELSE high[j]
    BY <1>8
  <2> QED
    BY <1>2, <2>1, <2>2, <2>3 DEF Beside
<1>15. \A k \in ks : low[k] < k /\ k < hi2[k]
  BY <1>3, <1>8
<1>16. ks \subseteq Addresses
  BY <1>3
<1>17. Search(r, ks, low, hi2)
  BY <1>6, <1>9, <1>10, <1>11, <1>12, <1>13, <1>14, <1>15, <1>16 DEF Search
<1> QED
  BY <1>1, <1>17

(* The leftmost node of the right subtree of the root.                      *)
LEMMA MinimumIs ==
  ASSUME IsFiniteSet(Addresses), NEW t, NEW keys, NEW low, NEW high,
         Search(t, keys, low, high), NEW z \in keys, t.right[z] # NULL,
         NEW y, y = SubtreeMinimum(t, t.right[z])
  PROVE  y \in keys /\ t.left[y] = NULL /\ low[y] = z
<1> DEFINE N == Cardinality(keys)
           Below(w) == w \in keys /\ low[w] = z
           Good == [n \in Nat |-> {w \in keys : low[w] = z
                                     /\ \/ t.left[w] = NULL
                                        \/ Cardinality(Inner(keys, low, high, w)) + n <= N}]
           step == [w \in Addresses |-> IF t.left[w] = NULL THEN w ELSE t.left[w]]
           s == t.right[z]
<1>1. keys \subseteq Addresses /\ NULL \notin keys
  BY SearchTypes
<1>2. \A a : Inner(keys, low, high, a) \in SUBSET keys
  BY DEF Inner
<1>3. N \in Nat /\ \A a : /\ IsFiniteSet(Inner(keys, low, high, a))
                          /\ Cardinality(Inner(keys, low, high, a)) \in Nat
                          /\ Cardinality(Inner(keys, low, high, a)) <= N
  BY <1>1, <1>2, KeysFinite
<1>4. s \in Good[0]
  <2>1. s \in keys /\ low[s] = z
    BY ChildOf
  <2> DEFINE c == Cardinality(Inner(keys, low, high, s))
  <2>2. c \in Nat /\ c <= N
    BY <1>3
  <2> HIDE DEF c
  <2>3. c + 0 <= N
    BY <2>2
  <2> HIDE DEF N, s
  <2> QED
    BY <2>1, <2>3 DEF c
<1>5. ASSUME NEW n \in Nat, NEW w \in Good[n] PROVE step[w] \in Good[n + 1]
  <2>1. w \in keys /\ w \in Addresses /\ low[w] = z /\ n + 1 \in Nat
        /\ step[w] = IF t.left[w] = NULL THEN w ELSE t.left[w]
    BY <1>1
  <2>2. CASE t.left[w] = NULL
    BY <2>1, <2>2
  <2>3. CASE t.left[w] # NULL
    <3>1. PICK c : c = t.left[w]
      OBVIOUS
    <3>2. c \in keys /\ low[c] = low[w] /\ high[c] = w
      BY <2>1, <2>3, <3>1, ChildOf
    <3>3. /\ Inner(keys, low, high, c) \subseteq Inner(keys, low, high, w)
          /\ Inner(keys, low, high, c) # Inner(keys, low, high, w)
      BY <2>1, <3>2, InnerSmaller
    <3>4. Cardinality(Inner(keys, low, high, c)) + (n + 1) <= N
      <4> DEFINE i == Cardinality(Inner(keys, low, high, c))
                 j == Cardinality(Inner(keys, low, high, w))
      <4>1. i + 1 <= j /\ i \in Nat /\ j \in Nat /\ N \in Nat /\ j + n <= N
        BY <1>1, <1>2, <1>3, <2>3, <3>3, KeysFinite
      <4> HIDE DEF i, j, N
      <4>2. i + (n + 1) <= N
        BY <4>1
      <4> QED
        BY <4>2 DEF i
    <3>5. step[w] = c
      BY <2>1, <2>3, <3>1
    <3> HIDE DEF step, N
    <3> QED
      BY <2>1, <3>2, <3>4, <3>5
  <2> QED
    BY <2>2, <2>3
<1> HIDE DEF Good
<1>6. Cardinality(Addresses) \in Nat /\ Rounds(s, step) \in Good[Cardinality(Addresses)]
  BY <1>4, <1>5, LoopEnds
<1>7. y = Rounds(s, step)
  BY DEF SubtreeMinimum
<1>8. y \in keys /\ low[y] = z
      /\ (t.left[y] = NULL \/ Cardinality(Inner(keys, low, high, y)) + Cardinality(Addresses) <= N)
  BY <1>6, <1>7 DEF Good
<1>9. t.left[y] = NULL
  <2> SUFFICES ASSUME t.left[y] # NULL PROVE FALSE
    OBVIOUS
  <2> DEFINE c == Cardinality(Inner(keys, low, high, y))
  <2>1. y \in Inner(keys, low, high, y)
    BY <1>8, SearchTypes DEF Inner
  <2>2. c # 0
    BY <1>3, <2>1, FS_EmptySet
  <2>3. c \in Nat /\ c + Cardinality(Addresses) <= N /\ N \in Nat /\ N <= Cardinality(Addresses)
    BY <1>1, <1>3, <1>8, KeysFinite
  <2> HIDE DEF c, N
  <2> QED
    BY <1>6, <2>2, <2>3
<1> QED
  BY <1>8, <1>9

(* The links of a freed node are gone. *)
LEMMA FreedIs ==
  ASSUME NEW t \in Trees, NEW z \in Addresses, NEW r, r = Freed(t, z)
  PROVE  /\ r \in Trees /\ r.root = t.root
         /\ \A a \in Addresses : /\ r.left[a] = IF a = z THEN NULL ELSE t.left[a]
                                 /\ r.right[a] = IF a = z THEN NULL ELSE t.right[a]
                                 /\ r.parent[a] = IF a = z THEN NULL ELSE t.parent[a]
<1> DEFINE left == Store(t.left, z, NULL)
           right == Store(t.right, z, NULL)
           parent == Store(t.parent, z, NULL)
<1>1. /\ t.root \in Nodes /\ t.left \in [Addresses -> Nodes]
      /\ t.right \in [Addresses -> Nodes] /\ t.parent \in [Addresses -> Nodes]
  BY TreeFields
<1>2. left \in [Addresses -> Nodes] /\ \A a \in Addresses : left[a] = IF a = z THEN NULL ELSE t.left[a]
  BY <1>1, StoreLink DEF Nodes
<1>3. right \in [Addresses -> Nodes] /\ \A a \in Addresses : right[a] = IF a = z THEN NULL ELSE t.right[a]
  BY <1>1, StoreLink DEF Nodes
<1>4. parent \in [Addresses -> Nodes]
      /\ \A a \in Addresses : parent[a] = IF a = z THEN NULL ELSE t.parent[a]
  BY <1>1, StoreLink DEF Nodes
<1>5. r = [root |-> t.root, left |-> left, right |-> right, parent |-> parent]
  BY DEF Freed
<1> HIDE DEF left, right, parent
<1>6. r \in Trees
  BY <1>1, <1>2, <1>3, <1>4, <1>5, TreeMade
<1>7. r.root = t.root /\ r.left = left /\ r.right = right /\ r.parent = parent
  BY <1>5
<1> QED
  BY <1>2, <1>3, <1>4, <1>6, <1>7

(* The minimum y of the right subtree has taken the place of the root z; q   *)
(* was its parent, d its right child, a and c were the children of z.        *)
MovedUp(t, r, z, y, q, d, a, c) ==
  /\ r.root = y
  /\ \A k \in Addresses :
       /\ r.left[k] = IF k = z THEN NULL ELSE IF k = y THEN a
                      ELSE IF k = q /\ y # c THEN d ELSE t.left[k]
       /\ r.right[k] = IF k = z THEN NULL ELSE IF k = y /\ y # c THEN c ELSE t.right[k]
       /\ r.parent[k] = IF k \in {z, y} THEN NULL ELSE IF k \in {a, c} THEN y
                        ELSE IF k = d /\ y # c THEN q ELSE t.parent[k]

(* Where the minimum is. *)
LEMMA MinimumPlace ==
  ASSUME NEW t, NEW keys, NEW low, NEW high, Search(t, keys, low, high),
         NEW z \in keys, t.root = z, NEW a, a = t.left[z], a # NULL, NEW c, c = t.right[z], c # NULL,
         NEW y \in keys, t.left[y] = NULL, low[y] = z,
         NEW q, q = t.parent[y], NEW d, d = t.right[y]
  PROVE  /\ a \in keys /\ t.parent[a] = z /\ low[a] = low[z] /\ high[a] = z /\ a # z /\ a # y /\ a # c /\ a # d
         /\ c \in keys /\ t.parent[c] = z /\ low[c] = z /\ high[c] = high[z] /\ c # z /\ c # d
         /\ y # z /\ t.parent[z] = NULL /\ d # z /\ d # y
         /\ d # NULL => d \in keys /\ t.parent[d] = y /\ low[d] = y /\ high[d] = high[y]
         /\ q = z <=> y = c
         /\ y # c => /\ q \in keys /\ q \notin {z, y} /\ t.left[q] = y /\ t.right[q] # y
                     /\ low[q] = z /\ high[y] = q
<1>1. /\ t.parent[z] = NULL /\ z \in Addresses /\ z # NULL
      /\ low[z] \in Int /\ high[z] \in Int /\ z \in Int /\ low[z] < z /\ z < high[z]
      /\ \A k \in keys \ {z} : k # t.root
  BY RootFacts
<1>2. a \in keys /\ t.parent[a] = z /\ low[a] = low[z] /\ high[a] = z
  BY ChildOf
<1>3. c \in keys /\ t.parent[c] = z /\ low[c] = z /\ high[c] = high[z]
  BY ChildOf
<1>4. d # NULL => d \in keys /\ t.parent[d] = y /\ low[d] = y /\ high[d] = high[y]
  BY ChildOf
<1>5. y # z /\ y # a /\ a # c /\ a # z /\ c # z
  BY <1>1, <1>2, <1>3
<1>6. d # z /\ d # y /\ d # c /\ d # a
  <2>1. d # NULL => d # z
    BY <1>1, <1>4, SearchTypes
  <2>2. d # NULL => d # y /\ low[d] # z
    BY <1>4, <1>5, SearchTypes
  <2> QED
    BY <1>1, <1>2, <1>3, <1>4, <1>5, <2>1, <2>2, SearchTypes
<1>7. y = c => q = z
  BY <1>3
<1>8. q \in keys /\ (t.left[q] = y \/ t.right[q] = y)
  BY <1>1, <1>5, ChildOf
<1>9. y # NULL
  BY SearchTypes
<1>10. t.left[q] = y => low[q] = z /\ high[y] = q
  BY <1>8, <1>9, ChildOf
<1>11. t.right[q] = y => q = z /\ y = c
  BY <1>8, <1>9, ChildOf
<1>12. q = z => y = c
  BY <1>1, <1>8, <1>10, <1>11
<1>13. y # c => q # y
  <2>1. low[q] \in Int /\ q \in Int /\ low[q] < q /\ high[y] \in Int /\ y < high[y] /\ y \in Int
    BY <1>8, SearchTypes
  <2> QED
    BY <1>8, <1>10, <1>11, <2>1
<1> QED
  BY <1>1, <1>2, <1>3, <1>4, <1>5, <1>6, <1>7, <1>8, <1>10, <1>11, <1>12, <1>13

(* TakeMinimum takes the least node out of the right subtree. *)
LEMMA TakeMinimumIs ==
  ASSUME NEW t \in Trees, NEW z \in Addresses, NEW y \in Addresses,
         NEW q, q = t.parent[y], NEW d, d = t.right[y], NEW c \in Addresses, c = t.right[z],
         q \in Addresses, t.left[q] = y, q # z,
         NEW m, m = TakeMinimum(t, z, y)
  PROVE  /\ m \in Trees /\ m.root = t.root
         /\ \A k \in Addresses :
              /\ m.left[k] = IF k = q THEN d ELSE t.left[k]
              /\ m.right[k] = IF k = y THEN c ELSE t.right[k]
              /\ m.parent[k] = IF k = c THEN y ELSE IF k = d THEN q ELSE t.parent[k]
<1>1. d \in Nodes /\ y \in Nodes /\ c \in Nodes /\ q # NULL
  BY TreeFields, RangeAssumption DEF Nodes
<1>2. PICK out : out = Replace(t, y, d)
  OBVIOUS
<1>3. /\ out \in Trees /\ out.root = t.root
      /\ \A k \in Addresses : /\ out.left[k] = IF k = q THEN d ELSE t.left[k]
                              /\ out.right[k] = t.right[k]
                              /\ out.parent[k] = IF k = d THEN q ELSE t.parent[k]
  BY <1>1, <1>2, ReplaceIs
<1>4. /\ out.root \in Nodes /\ out.left \in [Addresses -> Nodes]
      /\ out.right \in [Addresses -> Nodes] /\ out.parent \in [Addresses -> Nodes]
  BY <1>3, TreeFields
<1>5. PICK right : right = Store(out.right, y, c)
  OBVIOUS
<1>6. right \in [Addresses -> Nodes] /\ \A k \in Addresses : right[k] = IF k = y THEN c ELSE out.right[k]
  BY <1>1, <1>4, <1>5, StoreLink DEF Nodes
<1>7. PICK parent : parent = Store(out.parent, c, y)
  OBVIOUS
<1>8. parent \in [Addresses -> Nodes]
      /\ \A k \in Addresses : parent[k] = IF k = c THEN y ELSE out.parent[k]
  BY <1>1, <1>4, <1>7, StoreLink DEF Nodes
<1>9. m = [out EXCEPT !.right = right, !.parent = parent]
  BY <1>2, <1>5, <1>7 DEF TakeMinimum
<1>10. m = [root |-> out.root, left |-> out.left, right |-> right, parent |-> parent]
  BY <1>3, <1>9 DEF Trees
<1>11. m \in Trees
  BY <1>4, <1>6, <1>8, <1>10, TreeMade
<1>12. m.root = out.root /\ m.left = out.left /\ m.right = right /\ m.parent = parent
  BY <1>10
<1> QED
  BY <1>3, <1>6, <1>8, <1>11, <1>12

(* RemoveRoot of a root with two children, as a change of links. *)
LEMMA RemoveRootIs ==
  ASSUME IsFiniteSet(Addresses), NEW t, NEW keys, NEW low, NEW high,
         Search(t, keys, low, high), NEW z \in keys, t.root = z,
         NEW a, a = t.left[z], a # NULL, NEW c, c = t.right[z], c # NULL,
         NEW y, y = SubtreeMinimum(t, c),
         NEW q, q = t.parent[y], NEW d, d = t.right[y],
         NEW r, r = Freed(RemoveRoot(t, z), z)
  PROVE  r \in Trees /\ MovedUp(t, r, z, y, q, d, a, c)
<1>1. y \in keys /\ t.left[y] = NULL /\ low[y] = z
  BY MinimumIs
<1>2. /\ a \in keys /\ t.parent[a] = z /\ a # z /\ a # y /\ a # c /\ a # d
      /\ c \in keys /\ t.parent[c] = z /\ c # z /\ c # d
      /\ y # z /\ t.parent[z] = NULL /\ d # z /\ d # y
      /\ q = z <=> y = c
      /\ y # c => q \in keys /\ q \notin {z, y} /\ t.left[q] = y
  BY <1>1, MinimumPlace
<1>3. keys \subseteq Addresses /\ t \in Trees /\ NULL \notin Addresses
  BY SearchTypes, RangeAssumption
<1>4. PICK m : m = TakeMinimum(t, z, y)
  OBVIOUS
<1>5. /\ m \in Trees /\ m.root = t.root
      /\ \A k \in Addresses :
           /\ m.left[k] = IF k = q /\ y # c THEN d ELSE t.left[k]
           /\ m.right[k] = IF k = y /\ y # c THEN c ELSE t.right[k]
           /\ m.parent[k] = IF k = c /\ y # c THEN y
                            ELSE IF k = d /\ y # c THEN q ELSE t.parent[k]
  <2>1. CASE y = c
    <3>1. m = t
      BY <1>2, <1>4, <2>1 DEF TakeMinimum
    <3> QED
      BY <1>3, <2>1, <3>1
  <2>2. CASE y # c
    <3>1. q \in Addresses /\ z \in Addresses /\ y \in Addresses /\ c \in Addresses
      BY <1>1, <1>2, <1>3, <2>2
    <3>2. /\ m \in Trees /\ m.root = t.root
          /\ \A k \in Addresses :
              /\ m.left[k] = IF k = q THEN d ELSE t.left[k]
              /\ m.right[k] = IF k = y THEN c ELSE t.right[k]
              /\ m.parent[k] = IF k = c THEN y ELSE IF k = d THEN q ELSE t.parent[k]
      BY <1>2, <1>3, <1>4, <2>2, <3>1, TakeMinimumIs
    <3> QED
      BY <2>2, <3>2
  <2> QED
    BY <2>1, <2>2
<1>6. PICK up : up = Replace(m, z, y)
  OBVIOUS
<1>7. m.parent[z] = NULL
  BY <1>2, <1>3, <1>5
<1>8. y \in Nodes /\ y \in Addresses /\ z \in Addresses /\ a \in Addresses /\ c \in Addresses /\ a \in Nodes
  BY <1>1, <1>2, <1>3 DEF Nodes
<1>9. /\ up \in Trees /\ up.root = y
      /\ \A k \in Addresses : /\ up.left[k] = m.left[k] /\ up.right[k] = m.right[k]
                              /\ up.parent[k] = IF k = y THEN NULL ELSE m.parent[k]
  BY <1>3, <1>5, <1>6, <1>7, <1>8, ReplaceIs
<1>10. /\ up.root \in Nodes /\ up.left \in [Addresses -> Nodes]
       /\ up.right \in [Addresses -> Nodes] /\ up.parent \in [Addresses -> Nodes]
  BY <1>9, TreeFields
<1>11. PICK left : left = Store(up.left, y, a)
  OBVIOUS
<1>12. left \in [Addresses -> Nodes] /\ \A k \in Addresses : left[k] = IF k = y THEN a ELSE up.left[k]
  BY <1>8, <1>10, <1>11, StoreLink DEF Nodes
<1>13. PICK parent : parent = Store(up.parent, a, y)
  OBVIOUS
<1>14. parent \in [Addresses -> Nodes]
       /\ \A k \in Addresses : parent[k] = IF k = a THEN y ELSE up.parent[k]
  BY <1>8, <1>10, <1>13, StoreLink DEF Nodes
<1>15. PICK e : e = RemoveRoot(t, z)
  OBVIOUS
<1>16. e = [up EXCEPT !.left = left, !.parent = parent]
  BY <1>4, <1>6, <1>11, <1>13, <1>15 DEF RemoveRoot
<1>17. e = [root |-> up.root, left |-> left, right |-> up.right, parent |-> parent]
  BY <1>9, <1>16 DEF Trees
<1>18. e \in Trees
  BY <1>10, <1>12, <1>14, <1>17, TreeMade
<1>19. e.root = up.root /\ e.left = left /\ e.right = up.right /\ e.parent = parent
  BY <1>17
<1>20. /\ r \in Trees /\ r.root = e.root
       /\ \A k \in Addresses : /\ r.left[k] = IF k = z THEN NULL ELSE e.left[k]
                               /\ r.right[k] = IF k = z THEN NULL ELSE e.right[k]
                               /\ r.parent[k] = IF k = z THEN NULL ELSE e.parent[k]
  <2>1. r = Freed(e, z)
    BY <1>15
  <2>2. z \in Addresses
    BY <1>8
  <2> QED
    BY <1>18, <2>1, <2>2, FreedIs
<1>21. ASSUME NEW k \in Addresses
       PROVE  /\ r.left[k] = IF k = z THEN NULL ELSE IF k = y THEN a
                             ELSE IF k = q /\ y # c THEN d ELSE t.left[k]
              /\ r.right[k] = IF k = z THEN NULL ELSE IF k = y /\ y # c THEN c ELSE t.right[k]
              /\ r.parent[k] = IF k \in {z, y} THEN NULL ELSE IF k \in {a, c} THEN y
                               ELSE IF k = d /\ y # c THEN q ELSE t.parent[k]
  <2>1. r.left[k] = IF k = z THEN NULL ELSE IF k = y THEN a
                    ELSE IF k = q /\ y # c THEN d ELSE t.left[k]
    BY <1>5, <1>9, <1>12, <1>19, <1>20
  <2>2. r.right[k] = IF k = z THEN NULL ELSE IF k = y /\ y # c THEN c ELSE t.right[k]
    BY <1>5, <1>9, <1>19, <1>20
  <2>3. r.parent[k] = IF k = z THEN NULL ELSE IF k = a THEN y ELSE IF k = y THEN NULL
                      ELSE IF k = c /\ y # c THEN y
                      ELSE IF k = d /\ y # c THEN q ELSE t.parent[k]
    BY <1>5, <1>9, <1>14, <1>19, <1>20
  <2>4. r.parent[k] = IF k \in {z, y} THEN NULL ELSE IF k \in {a, c} THEN y
                      ELSE IF k = d /\ y # c THEN q ELSE t.parent[k]
    BY <1>2, <2>3
  <2> QED
    BY <2>1, <2>2, <2>4
<1> QED
  BY <1>9, <1>19, <1>20, <1>21 DEF MovedUp

(* The least node of the right subtree replaces the root. *)
LEMMA MinimumUp ==
  ASSUME NEW t, NEW keys, NEW low, NEW high, Search(t, keys, low, high),
         NEW z \in keys, t.root = z,
         NEW a, a = t.left[z], a # NULL, NEW c, c = t.right[z], c # NULL,
         NEW y \in keys, t.left[y] = NULL, low[y] = z,
         NEW q, q = t.parent[y], NEW d, d = t.right[y],
         NEW r \in Trees, MovedUp(t, r, z, y, q, d, a, c)
  PROVE  \E lo2, hi2 : Search(r, keys \ {z}, lo2, hi2)
<1>1. PICK ks : ks = keys \ {z}
  OBVIOUS
<1>2. /\ t.parent[z] = NULL /\ z \in Addresses /\ z # NULL
      /\ \A k \in Addresses : low[z] < k /\ k < high[z]
      /\ low[z] \in Int /\ high[z] \in Int /\ z \in Int /\ low[z] < z /\ z < high[z]
  BY RootFacts
<1>3. low \in [Addresses -> Int] /\ high \in [Addresses -> Int]
  BY RootFacts
<1>4. \A k \in ks : /\ k \in keys /\ k # z /\ k \in Addresses /\ k # NULL /\ k # t.root
                   /\ k \in Int /\ low[k] \in Int /\ high[k] \in Int /\ low[k] < k /\ k < high[k]
  BY <1>1, SearchTypes
<1>5. /\ a \in keys /\ t.parent[a] = z /\ low[a] = low[z] /\ high[a] = z /\ a # z /\ a # y /\ a # c /\ a # d
      /\ c \in keys /\ t.parent[c] = z /\ low[c] = z /\ high[c] = high[z] /\ c # z /\ c # d
      /\ y # z /\ d # z /\ d # y
  BY MinimumPlace
<1>6. /\ d # NULL => d \in keys /\ t.parent[d] = y /\ low[d] = y /\ high[d] = high[y]
      /\ q = z <=> y = c
      /\ y # c => /\ q \in keys /\ q \notin {z, y} /\ t.left[q] = y /\ t.right[q] # y
                  /\ low[q] = z /\ high[y] = q
  BY MinimumPlace
<1>7. y \in ks /\ a \in ks /\ c \in ks /\ (y # c => q \in ks) /\ (d # NULL => d \in ks)
  BY <1>1, <1>5, <1>6
<1>8. r.root = y
  BY DEF MovedUp
<1>9. \A k \in ks :
        /\ r.left[k] = IF k = y THEN a ELSE IF k = q /\ y # c THEN d ELSE t.left[k]
        /\ r.right[k] = IF k = y /\ y # c THEN c ELSE t.right[k]
        /\ r.parent[k] = IF k = y THEN NULL ELSE IF k \in {a, c} THEN y
                         ELSE IF k = d /\ y # c THEN q ELSE t.parent[k]
  BY <1>4 DEF MovedUp
<1>10. y \in Int /\ z < y /\ \A k \in ks : k <= z \/ y <= k
  <2>1. y \in Int /\ z < y
    BY <1>4, <1>7
  <2>2. Gap(keys, z, y)
    BY ChildOf
  <2> QED
    BY <1>4, <2>1, <2>2 DEF Gap
(* Left of z all is below y, right of z all but y is above y. *)
<1>11. ASSUME NEW k \in ks \ {y}
       PROVE  \/ k < z /\ low[z] <= low[k] /\ low[k] # z /\ high[k] <= z
              \/ /\ y < k /\ high[k] # z /\ z <= low[k] /\ high[k] <= high[z]
                 /\ low[k] = z \/ y <= low[k]
  <2>1. k \in keys \ {z} /\ k \in Int /\ low[k] \in Int /\ high[k] \in Int /\ low[k] < k /\ k < high[k]
    BY <1>1, <1>4
  <2>2. (low[z] <= low[k] /\ high[k] <= z) \/ (z <= low[k] /\ high[k] <= high[z])
    BY <2>1, RootSides
  <2>3. k <= z \/ y <= k
    BY <1>10
  <2>4. y \in keys /\ low[y] = z /\ high[y] \in Int /\ y < high[y] /\ k # y
    BY <1>4, <1>7
  <2>5. Beside(low, high, k, y) \/ Beside(low, high, y, k)
    BY <2>1, <2>4, SearchTypes DEF Laminar
  <2>6. CASE low[z] <= low[k] /\ high[k] <= z
    BY <1>2, <2>1, <2>6
  <2>7. CASE z <= low[k] /\ high[k] <= high[z]
    <3>1. y < k /\ high[k] # z
      BY <1>2, <1>10, <2>1, <2>3, <2>4, <2>7
    <3>2. low[k] = z \/ y <= low[k]
      BY <1>2, <1>10, <2>1, <2>4, <2>5, <2>7, <3>1 DEF Beside
    <3> QED
      BY <2>7, <3>1, <3>2
  <2> QED
    BY <2>2, <2>6, <2>7
<1>12. PICK lo2 \in [Addresses -> Int] :
         \A k \in Addresses : lo2[k] = IF k = y THEN low[z] ELSE IF low[k] = z THEN y ELSE low[k]
  <2> DEFINE f == [k \in Addresses |-> IF k = y THEN low[z] ELSE IF low[k] = z THEN y ELSE low[k]]
  <2>1. f \in [Addresses -> Int]
    BY <1>2, <1>3, <1>10
  <2> QED
    BY <2>1
<1>13. PICK hi2 \in [Addresses -> Int] :
         \A k \in Addresses : hi2[k] = IF k = y THEN high[z] ELSE IF high[k] = z THEN y ELSE high[k]
  <2> DEFINE f == [k \in Addresses |-> IF k = y THEN high[z] ELSE IF high[k] = z THEN y ELSE high[k]]
  <2>1. f \in [Addresses -> Int]
    BY <1>2, <1>3, <1>10
  <2> QED
    BY <2>1
<1>14. lo2[y] = low[z] /\ hi2[y] = high[z]
  BY <1>4, <1>7, <1>12, <1>13
<1>15. \A k \in ks \ {y} : /\ lo2[k] = IF low[k] = z THEN y ELSE low[k]
                           /\ hi2[k] = IF high[k] = z THEN y ELSE high[k]
                           /\ lo2[k] \in Int /\ hi2[k] \in Int
  BY <1>4, <1>12, <1>13
<1>16. ASSUME NEW k \in ks PROVE lo2[k] < k /\ k < hi2[k]
  <2>1. CASE k = y
    BY <1>2, <1>4, <1>7, <1>14, <2>1
  <2>2. CASE k # y
    BY <1>2, <1>4, <1>10, <1>11, <1>15, <2>2
  <2> QED
    BY <2>1, <2>2
<1>17. RootOf(r, ks, lo2, hi2)
  BY <1>2, <1>4, <1>7, <1>8, <1>9, <1>14 DEF RootOf
<1>18. ASSUME NEW k \in ks PROVE LeftChild(r, ks, lo2, hi2, k)
  <2>1. CASE k = y
    <3>1. r.left[y] = a /\ r.parent[a] = y /\ a # NULL
      BY <1>5, <1>7, <1>9
    <3>2. lo2[a] = low[z] /\ hi2[a] = y
      <4>1. a \in ks \ {y} /\ low[a] = low[z] /\ high[a] = z
        BY <1>5, <1>7
      <4>2. low[z] # z
        BY <1>2
      <4>3. /\ lo2[a] = IF low[a] = z THEN y ELSE low[a]
            /\ hi2[a] = IF high[a] = z THEN y ELSE high[a]
        BY <1>15, <4>1
      <4> QED
        BY <4>1, <4>2, <4>3
    <3> QED
      BY <1>7, <1>14, <2>1, <3>1, <3>2 DEF LeftChild
  <2>2. CASE k # y /\ k = q /\ y # c
    <3>1. r.left[k] = d /\ low[k] = z /\ high[y] = k /\ lo2[k] = y
      BY <1>6, <1>7, <1>9, <1>15, <2>2
    <3>2. CASE d = NULL
      <4>1. Gap(keys, y, high[y])
        <5>1. t.right[y] = NULL => Gap(keys, y, high[y])
          BY ChildOf
        <5> QED
          BY <3>2, <5>1
      <4> QED
        BY <1>4, <3>1, <3>2, <4>1 DEF LeftChild, Gap
    <3>3. CASE d # NULL
      <4>1. d \in ks /\ d # y /\ low[d] = y /\ high[d] = k
        BY <1>5, <1>6, <1>7, <3>1, <3>3
      <4>2. r.parent[d] = k /\ lo2[d] = y /\ hi2[d] = k
        BY <1>4, <1>5, <1>9, <1>15, <2>2, <4>1
      <4> QED
        BY <3>1, <3>3, <4>1, <4>2 DEF LeftChild
    <3> QED
      BY <3>2, <3>3
  <2>3. CASE k # y /\ ~(k = q /\ y # c)
    <3>1. r.left[k] = t.left[k] /\ k \in keys /\ k # z
      BY <1>4, <1>9, <2>3
    <3>2. CASE t.left[k] = NULL
      <4>1. Gap(keys, low[k], k)
        BY <3>1, <3>2, ChildOf
      <4>2. ASSUME NEW j \in ks PROVE j <= lo2[k] \/ k <= j
        <5>1. j <= low[k] \/ k <= j
          BY <1>4, <4>1 DEF Gap
        <5>2. low[k] <= lo2[k] /\ low[k] \in Int /\ lo2[k] \in Int
          BY <1>2, <1>4, <1>10, <1>15, <2>3
        <5> QED
          BY <1>4, <5>1, <5>2
      <4> QED
        BY <3>1, <3>2, <4>2 DEF LeftChild, Gap
    <3>3. CASE t.left[k] # NULL
      <4>1. PICK e : e = t.left[k]
        OBVIOUS
      <4>2. e \in keys /\ t.parent[e] = k /\ low[e] = low[k] /\ high[e] = k
        BY <3>1, <3>3, <4>1, ChildOf
      <4>3. e \notin {z, a, c}
        BY <1>2, <1>4, <1>5, <3>1, <4>2
      <4>4. e # y
        BY <1>6, <2>3, <3>1, <4>2
      <4>5. e = d => y = c
        BY <1>6, <2>3, <3>3, <4>1, <4>2
      <4>6. e \in ks /\ r.parent[e] = k
        BY <1>1, <1>9, <4>2, <4>3, <4>4, <4>5
      <4>7. lo2[e] = lo2[k] /\ hi2[e] = k
        BY <1>4, <1>15, <2>3, <4>2, <4>4, <4>6
      <4> QED
        BY <3>1, <3>3, <4>1, <4>6, <4>7 DEF LeftChild
    <3> QED
      BY <3>2, <3>3
  <2> QED
    BY <2>1, <2>2, <2>3
<1>19. ASSUME NEW k \in ks PROVE RightChild(r, ks, lo2, hi2, k)
  <2>1. CASE k = y /\ y # c
    <3>1. r.right[y] = c /\ r.parent[c] = y /\ c # NULL
      BY <1>5, <1>7, <1>9, <2>1
    <3>2. lo2[c] = y /\ hi2[c] = high[z]
      BY <1>2, <1>5, <1>7, <1>15, <2>1
    <3> QED
      BY <1>7, <1>14, <2>1, <3>1, <3>2 DEF RightChild
  <2>2. CASE k = y /\ y = c
    <3>1. r.right[k] = d /\ hi2[k] = high[y] /\ hi2[k] = high[z]
      BY <1>5, <1>9, <1>14, <2>2
    <3>2. CASE d = NULL
      <4>1. Gap(keys, y, high[y])
        <5>1. t.right[y] = NULL => Gap(keys, y, high[y])
          BY ChildOf
        <5> QED
          BY <3>2, <5>1
      <4> QED
        BY <1>4, <2>2, <3>1, <3>2, <4>1 DEF RightChild, Gap
    <3>3. CASE d # NULL
      <4>1. d \in ks /\ d # y /\ low[d] = y /\ high[d] = high[z] /\ t.parent[d] = y
        BY <1>5, <1>6, <1>7, <3>1, <3>3
      <4>2. r.parent[d] = y /\ lo2[d] = y /\ hi2[d] = high[z]
        BY <1>2, <1>5, <1>9, <1>15, <2>2, <4>1
      <4> QED
        BY <2>2, <3>1, <3>3, <4>1, <4>2 DEF RightChild
    <3> QED
      BY <3>2, <3>3
  <2>3. CASE k # y
    <3>1. r.right[k] = t.right[k] /\ k \in keys /\ k # z
      BY <1>4, <1>9, <2>3
    <3>2. CASE t.right[k] = NULL
      <4>1. Gap(keys, k, high[k])
        BY <3>1, <3>2, ChildOf
      <4>2. ASSUME NEW j \in ks PROVE j <= k \/ hi2[k] <= j
        <5>1. j <= k \/ high[k] <= j
          BY <1>4, <4>1 DEF Gap
        <5>2. CASE high[k] = z
          <6>1. j # z /\ (j <= z \/ y <= j) /\ hi2[k] = y
            BY <1>4, <1>10, <1>15, <2>3, <5>2
          <6> QED
            BY <1>2, <1>4, <1>10, <5>1, <5>2, <6>1
        <5>3. CASE high[k] # z
          BY <1>15, <2>3, <5>1, <5>3
        <5> QED
          BY <5>2, <5>3
      <4> QED
        BY <3>1, <3>2, <4>2 DEF RightChild, Gap
    <3>3. CASE t.right[k] # NULL
      <4>1. PICK e : e = t.right[k]
        OBVIOUS
      <4>2. e \in keys /\ t.parent[e] = k /\ low[e] = k /\ high[e] = high[k]
        BY <3>1, <3>3, <4>1, ChildOf
      <4>3. e \notin {z, a, c}
        BY <1>2, <1>4, <1>5, <3>1, <4>2
      <4>4. e # y
        BY <3>1, <4>2
      <4>5. e # d
        BY <1>6, <2>3, <3>3, <4>1, <4>2
      <4>6. e \in ks /\ r.parent[e] = k
        BY <1>1, <1>9, <4>2, <4>3, <4>4, <4>5
      <4>7. lo2[e] = k /\ hi2[e] = hi2[k]
        BY <1>4, <1>15, <2>3, <4>2, <4>4, <4>6
      <4> QED
        BY <3>1, <3>3, <4>1, <4>6, <4>7 DEF RightChild
    <3> QED
      BY <3>2, <3>3
  <2> QED
    BY <2>1, <2>2, <2>3
<1>20. ASSUME NEW k \in ks PROVE Above(r, ks, k)
  <2>1. CASE k = y
    BY <1>8, <2>1 DEF Above
  <2>2. CASE k = a
    <3>1. r.parent[k] = y /\ r.left[y] = k
      BY <1>5, <1>7, <1>9, <2>2
    <3> QED
      BY <1>7, <3>1 DEF Above
  <2>3. CASE k = c /\ k # y
    <3>1. r.parent[k] = y /\ r.right[y] = k
      BY <1>5, <1>7, <1>9, <2>3
    <3> QED
      BY <1>7, <3>1 DEF Above
  <2>4. CASE k = d /\ y # c
    <3>1. r.parent[k] = q /\ r.left[q] = k
      BY <1>5, <1>6, <1>7, <1>9, <2>4
    <3> QED
      BY <1>7, <2>4, <3>1 DEF Above
  <2>5. CASE k \notin {y, a, c} /\ ~(k = d /\ y # c)
    <3>1. PICK p : p = t.parent[k]
      OBVIOUS
    <3>2. p \in keys /\ (t.left[p] = k \/ t.right[p] = k)
      BY <1>4, <3>1, ChildOf
    <3>3. p # z
      BY <2>5, <3>2
    <3>4. p \in ks /\ r.parent[k] = p
      BY <1>1, <1>9, <2>5, <3>1, <3>2, <3>3
    <3>5. t.left[p] = k => r.left[p] = k
      BY <1>4, <1>6, <1>9, <2>5, <3>4
    <3>6. t.right[p] = k => r.right[p] = k
      BY <1>4, <1>6, <1>9, <2>5, <3>4
    <3> QED
      BY <3>2, <3>4, <3>5, <3>6 DEF Above
  <2> QED
    BY <2>1, <2>2, <2>3, <2>4, <2>5
<1>21. Laminar(ks, lo2, hi2)
  <2>1. ASSUME NEW k \in ks \ {y} PROVE Beside(lo2, hi2, k, y)
    BY <1>2, <1>4, <1>10, <1>11, <1>14, <1>15 DEF Beside
  <2>2. ASSUME NEW k \in ks \ {y}, NEW j \in ks \ {y}, k # j, Beside(low, high, k, j)
        PROVE  Beside(lo2, hi2, k, j)
    <3>1. /\ k \in Int /\ low[k] \in Int /\ high[k] \in Int /\ low[k] < k /\ k < high[k]
          /\ j \in Int /\ low[j] \in Int /\ high[j] \in Int /\ low[j] < j /\ j < high[j]
      BY <1>4
    <3>2. /\ lo2[k] = IF low[k] = z THEN y ELSE low[k]
          /\ hi2[k] = IF high[k] = z THEN y ELSE high[k]
          /\ lo2[j] = IF low[j] = z THEN y ELSE low[j]
          /\ hi2[j] = IF high[j] = z THEN y ELSE high[j]
      BY <1>15
    <3>3. /\ \/ k < z /\ low[k] # z /\ high[k] <= z
             \/ y < k /\ high[k] # z /\ (low[k] = z \/ y <= low[k])
          /\ \/ j < z /\ low[j] # z /\ high[j] <= z
             \/ y < j /\ high[j] # z /\ (low[j] = z \/ y <= low[j])
      BY <1>11
    <3> QED
      BY <1>2, <1>10, <2>2, <3>1, <3>2, <3>3 DEF Beside
  <2>3. SUFFICES ASSUME NEW k \in ks, NEW j \in ks, k # j
                 PROVE  Beside(lo2, hi2, k, j) \/ Beside(lo2, hi2, j, k)
    BY DEF Laminar
  <2>4. Beside(low, high, k, j) \/ Beside(low, high, j, k)
    BY <1>4, <2>3, SearchTypes DEF Laminar
  <2>5. CASE k = y \/ j = y
    BY <2>1, <2>3, <2>5
  <2>6. CASE k # y /\ j # y
    BY <2>2, <2>3, <2>4, <2>6
  <2> QED
    BY <2>5, <2>6
<1>22. ks \subseteq Addresses
  BY <1>4
<1>23. Search(r, ks, lo2, hi2)
  BY <1>12, <1>13, <1>16, <1>17, <1>18, <1>19, <1>20, <1>21, <1>22 DEF Search
<1> QED
  BY <1>1, <1>23

(* TreeRemove takes the key out of the search tree. *)
LEMMA RemoveKeeps ==
  ASSUME IsFiniteSet(Addresses), NEW t, NEW keys, NEW low, NEW high,
         Search(t, keys, low, high), NEW z \in Addresses
  PROVE  \E lo2, hi2 : Search(TreeRemove(t, z), keys \ {z}, lo2, hi2)
<1>1. Descend(t, z) = z <=> z \in keys
  <2>1. PICK p : p = Descend(t, z)
    OBVIOUS
  <2>2. z # NULL
    BY RangeAssumption
  <2> QED
    BY <2>1, <2>2, DescendIs
<1>2. CASE z \notin keys
  <2>1. TreeRemove(t, z) = t /\ keys \ {z} = keys
    BY <1>1, <1>2 DEF TreeRemove
  <2> QED
    BY <2>1
<1>3. CASE z \in keys
  <2>1. PICK u : u = Splay(t, z)
    OBVIOUS
  <2>2. PICK lo1, hi1 : u.root = z /\ Search(u, keys, lo1, hi1)
    BY <1>3, <2>1, SplayKeeps
  <2>3. PICK r : r = Freed(RemoveRoot(u, z), z)
    OBVIOUS
  <2>4. TreeRemove(t, z) = r
    BY <1>1, <1>3, <2>1, <2>3 DEF TreeRemove
  <2>5. PICK a, c : a = u.left[z] /\ c = u.right[z]
    OBVIOUS
  <2>6. /\ u \in Trees /\ a \in Nodes /\ c \in Nodes /\ u.parent[z] = NULL /\ NULL \notin Addresses
    <3>1. u \in Trees /\ u.parent[z] = NULL
      BY <1>3, <2>2, SearchTypes, RootFacts
    <3> QED
      BY <2>5, <3>1, TreeFields, RangeAssumption
  <2>7. ASSUME NEW v \in Nodes, RemoveRoot(u, z) = Replace(u, z, v)
        PROVE  r \in Trees /\ Bypassed(u, r, z, v)
    <3>1. PICK e : e = Replace(u, z, v)
      OBVIOUS
    <3>2. /\ e \in Trees /\ e.root = v
          /\ \A k \in Addresses : /\ e.left[k] = u.left[k] /\ e.right[k] = u.right[k]
                                  /\ e.parent[k] = IF k = v THEN NULL ELSE u.parent[k]
      BY <2>6, <3>1, ReplaceIs
    <3>3. r = Freed(e, z)
      BY <2>3, <2>7, <3>1
    <3>4. /\ r \in Trees /\ r.root = e.root
          /\ \A k \in Addresses : /\ r.left[k] = IF k = z THEN NULL ELSE e.left[k]
                                  /\ r.right[k] = IF k = z THEN NULL ELSE e.right[k]
                                  /\ r.parent[k] = IF k = z THEN NULL ELSE e.parent[k]
      BY <3>2, <3>3, FreedIs
    <3> QED
      BY <3>2, <3>4 DEF Bypassed
  <2>8. CASE a = NULL
    <3>1. RemoveRoot(u, z) = Replace(u, z, c)
      BY <2>5, <2>8 DEF RemoveRoot
    <3>2. r \in Trees /\ Bypassed(u, r, z, c)
      BY <2>6, <2>7, <3>1
    <3> QED
      BY <1>3, <2>2, <2>4, <2>5, <2>8, <3>2, RightChildUp
  <2>9. CASE a # NULL /\ c = NULL
    <3>1. RemoveRoot(u, z) = Replace(u, z, a)
      BY <2>5, <2>9 DEF RemoveRoot
    <3>2. r \in Trees /\ Bypassed(u, r, z, a)
      BY <2>6, <2>7, <3>1
    <3> QED
      BY <1>3, <2>2, <2>4, <2>5, <2>9, <3>2, LeftChildUp
  <2>10. CASE a # NULL /\ c # NULL
    <3>1. PICK y : y = SubtreeMinimum(u, c)
      OBVIOUS
    <3>2. PICK q, d : q = u.parent[y] /\ d = u.right[y]
      OBVIOUS
    <3>3. y \in keys /\ u.left[y] = NULL /\ lo1[y] = z
      BY <1>3, <2>2, <2>5, <2>10, <3>1, MinimumIs
    <3>4. r \in Trees /\ MovedUp(u, r, z, y, q, d, a, c)
      BY <1>3, <2>2, <2>3, <2>5, <2>10, <3>1, <3>2, RemoveRootIs
    <3> QED
      BY <1>3, <2>2, <2>4, <2>5, <2>10, <3>2, <3>3, <3>4, MinimumUp
  <2> QED
    BY <2>8, <2>9, <2>10
<1> QED
  BY <1>2, <1>3

-----------------------------------------------------------------------------
(* The tree as IsTreeOf sees it *)

(* What is below z lies in the interval of z, and below the root is all.    *)
LEMMA SubtreeIs ==
  ASSUME IsFiniteSet(Addresses), NEW t, NEW keys, NEW low, NEW high, Search(t, keys, low, high)
  PROVE  /\ Subtree(t, NULL) = {}
         /\ \A z \in keys : Subtree(t, z) \subseteq Inner(keys, low, high, z)
         /\ t.root # NULL => Subtree(t, t.root) = keys
<1> DEFINE Lefts(S) == {t.left[a] : a \in S}
           Rights(S) == {t.right[a] : a \in S}
           Wider(S) == (S \cup Lefts(S) \cup Rights(S)) \ {NULL}
           step == [S \in SUBSET Addresses |-> Wider(S)]
           N == Cardinality(Addresses)
<1>1. keys \subseteq Addresses /\ NULL \notin keys /\ t \in Trees
  BY SearchTypes
<1>2. \A S \in SUBSET Addresses : step[S] = Wider(S)
  OBVIOUS
<1>3. \A S : \A k : k \in Wider(S) <=>
        (k # NULL /\ (k \in S \/ \E a \in S : k = t.left[a] \/ k = t.right[a]))
  OBVIOUS
<1> HIDE DEF Wider, step
<1>4. \A z : Subtree(t, z) = Rounds({z} \ {NULL}, step)
  BY DEF Subtree, step, Wider
<1>5. Subtree(t, NULL) = {}
  <2> DEFINE Good == [n \in Nat |-> {{}}]
  <2>1. {NULL} \ {NULL} \in Good[0]
    OBVIOUS
  <2>2. ASSUME NEW n \in Nat, NEW S \in Good[n] PROVE step[S] \in Good[n + 1]
    <3>1. S = {} /\ S \in SUBSET Addresses /\ n + 1 \in Nat
      OBVIOUS
    <3>2. step[S] = {}
      BY <1>2, <1>3, <3>1
    <3> QED
      BY <3>1, <3>2
  <2> HIDE DEF Good
  <2>3. N \in Nat /\ Rounds({NULL} \ {NULL}, step) \in Good[N]
    BY <2>1, <2>2, LoopEnds
  <2> QED
    BY <1>4, <2>3 DEF Good
<1>6. ASSUME NEW z \in keys PROVE Subtree(t, z) \subseteq Inner(keys, low, high, z)
  <2> DEFINE In(k) == k \in keys /\ low[z] <= low[k] /\ high[k] <= high[z]
             Good == [n \in Nat |-> {S \in SUBSET keys : \A k \in S : In(k)}]
  <2>1. {z} \ {NULL} \in Good[0]
    <3>1. low[z] \in Int /\ high[z] \in Int
      BY SearchTypes
    <3> QED
      BY <3>1
  <2>2. ASSUME NEW n \in Nat, NEW S \in Good[n] PROVE step[S] \in Good[n + 1]
    <3>1. S \in SUBSET keys /\ S \in SUBSET Addresses /\ n + 1 \in Nat /\ \A k \in S : In(k)
      BY <1>1
    <3>2. ASSUME NEW k \in step[S] PROVE In(k)
      <4>1. k # NULL /\ (k \in S \/ \E a \in S : k = t.left[a] \/ k = t.right[a])
        BY <1>2, <1>3, <3>1, <3>2
      <4>2. CASE k \in S
        BY <3>1, <4>2
      <4>3. CASE \E a \in S : k = t.left[a] \/ k = t.right[a]
        <5>1. PICK a \in S : k = t.left[a] \/ k = t.right[a]
          BY <4>3
        <5>2. a \in keys /\ low[z] <= low[a] /\ high[a] <= high[z]
          BY <3>1
        <5>3. \/ k \in keys /\ low[k] = low[a] /\ high[k] = a
              \/ k \in keys /\ low[k] = a /\ high[k] = high[a]
          BY <4>1, <5>1, <5>2, ChildOf
        <5>4. \A b \in {a, z} : b \in Int /\ low[b] \in Int /\ high[b] \in Int /\ low[b] < b /\ b < high[b]
          BY <5>2, SearchTypes
        <5> QED
          BY <5>2, <5>3, <5>4
      <4> QED
        BY <4>1, <4>2, <4>3
    <3>3. step[S] \in SUBSET keys
      BY <3>2
    <3> HIDE DEF In
    <3> QED
      BY <3>1, <3>2, <3>3
  <2> HIDE DEF Good
  <2>3. N \in Nat /\ Rounds({z} \ {NULL}, step) \in Good[N]
    BY <2>1, <2>2, LoopEnds
  <2>4. Subtree(t, z) \in SUBSET keys /\ \A k \in Subtree(t, z) : In(k)
    BY <1>4, <2>3 DEF Good
  <2>5. ASSUME NEW k \in Subtree(t, z) PROVE k \in Inner(keys, low, high, z)
    <3>1. In(k)
      BY <2>4
    <3>2. \A b \in {k, z} : b \in Int /\ low[b] \in Int /\ high[b] \in Int /\ low[b] < b /\ b < high[b]
      BY <3>1, SearchTypes
    <3> QED
      BY <3>1, <3>2 DEF Inner
  <2> QED
    BY <2>5
<1>7. ASSUME t.root # NULL PROVE keys \subseteq Subtree(t, t.root)
  <2> DEFINE Up(k) == Outer(keys, low, high, k)
             Good == [n \in Nat |-> {S \in SUBSET Addresses :
                                       /\ t.root \in S
                                       /\ \A k \in keys : Cardinality(Up(k)) <= n => k \in S}]
  <2>1. \A k \in keys : Up(k) \in SUBSET keys /\ IsFiniteSet(Up(k)) /\ Cardinality(Up(k)) \in Nat
                        /\ Cardinality(Up(k)) <= N
    <3>1. \A k \in keys : Up(k) \in SUBSET keys
      BY DEF Outer
    <3>2. /\ Cardinality(keys) \in Nat /\ N \in Nat /\ Cardinality(keys) <= N
          /\ \A A \in SUBSET keys : /\ IsFiniteSet(A) /\ Cardinality(A) \in Nat
                                    /\ Cardinality(A) <= Cardinality(keys)
      BY <1>1, KeysFinite
    <3> HIDE DEF Up, N
    <3> QED
      BY <3>1, <3>2
  <2>2. t.root \in keys
    BY <1>7 DEF Search, RootOf
  <2>3. ASSUME NEW k \in keys, k # t.root
        PROVE  \E p \in keys : /\ k = t.left[p] \/ k = t.right[p]
                               /\ Cardinality(Up(p)) + 1 <= Cardinality(Up(k))
    <3>1. PICK p : p = t.parent[k]
      OBVIOUS
    <3>2. /\ p \in keys /\ p # k /\ p \in Up(k) /\ (low[k] = p \/ high[k] = p)
          /\ (t.left[p] = k \/ t.right[p] = k)
      BY <2>3, <3>1, ParentIs
    <3>3. \A b \in {k, p} : b \in Int /\ low[b] \in Int /\ high[b] \in Int /\ low[b] < b /\ b < high[b]
      BY <3>2, SearchTypes
    <3>4. low[p] <= low[k] /\ high[k] <= high[p]
      BY <3>2 DEF Outer
    <3>5. ASSUME NEW j \in Up(p) PROVE j \in Up(k)
      <4>1. j \in keys /\ j # p /\ low[j] <= low[p] /\ high[p] <= high[j]
        BY DEF Outer
      <4>2. low[j] \in Int /\ high[j] \in Int
        BY <4>1, SearchTypes
      <4>3. j # k
        BY <3>2, <3>3, <3>4, <4>1
      <4>4. low[j] <= low[k] /\ high[k] <= high[j]
        BY <3>3, <3>4, <4>1, <4>2
      <4> QED
        BY <4>1, <4>3, <4>4 DEF Outer
    <3>6. p \notin Up(p)
      BY DEF Outer
    <3>7. Up(p) \in SUBSET Up(k) /\ Up(p) # Up(k)
      BY <3>2, <3>5, <3>6
    <3>8. \A A \in SUBSET keys : \A B \in SUBSET A : B # A => Cardinality(B) + 1 <= Cardinality(A)
      BY <1>1, KeysFinite
    <3>9. Cardinality(Up(p)) + 1 <= Cardinality(Up(k))
      BY <2>1, <3>7, <3>8
    <3> QED
      BY <3>2, <3>9
  <2> HIDE DEF Up
  <2>4. {t.root} \ {NULL} \in Good[0]
    <3>1. ASSUME NEW k \in keys, Cardinality(Up(k)) <= 0 PROVE k = t.root
      <4> SUFFICES ASSUME k # t.root PROVE FALSE
        OBVIOUS
      <4>1. PICK p \in keys : Cardinality(Up(p)) + 1 <= Cardinality(Up(k))
        BY <2>3
      <4> QED
        BY <2>1, <3>1, <4>1
    <3> QED
      BY <1>1, <1>7, <2>2, <3>1
  <2>5. ASSUME NEW n \in Nat, NEW S \in Good[n] PROVE step[S] \in Good[n + 1]
    <3>1. /\ S \in SUBSET Addresses /\ n + 1 \in Nat /\ t.root \in S
          /\ \A k \in keys : Cardinality(Up(k)) <= n => k \in S
      OBVIOUS
    <3>2. step[S] \in SUBSET Addresses
      <4> SUFFICES ASSUME NEW k \in step[S] PROVE k \in Addresses
        OBVIOUS
      <4>1. k # NULL /\ (k \in S \/ \E a \in S : k = t.left[a] \/ k = t.right[a])
        BY <1>2, <1>3, <3>1
      <4> QED
        BY <1>1, <3>1, <4>1, TreeFields DEF Nodes
    <3>3. t.root \in step[S]
      BY <1>2, <1>3, <1>7, <3>1
    <3>4. ASSUME NEW k \in keys, Cardinality(Up(k)) <= n + 1 PROVE k \in step[S]
      <4>1. CASE k = t.root
        BY <3>3, <4>1
      <4>2. CASE k # t.root
        <5>1. PICK p \in keys : /\ k = t.left[p] \/ k = t.right[p]
                                /\ Cardinality(Up(p)) + 1 <= Cardinality(Up(k))
          BY <2>3, <4>2
        <5>2. Cardinality(Up(p)) <= n
          BY <2>1, <3>4, <5>1
        <5>3. p \in S
          BY <3>1, <5>2
        <5> QED
          BY <1>1, <1>2, <1>3, <3>1, <5>1, <5>3
      <4> QED
        BY <4>1, <4>2
    <3> QED
      BY <3>1, <3>2, <3>3, <3>4
  <2> HIDE DEF Good
  <2>6. N \in Nat /\ Rounds({t.root} \ {NULL}, step) \in Good[N]
    BY <2>4, <2>5, LoopEnds
  <2>7. \A k \in keys : Cardinality(Up(k)) <= N => k \in Subtree(t, t.root)
    BY <1>4, <2>6 DEF Good
  <2> QED
    BY <2>1, <2>7
<1>8. t.root # NULL => Subtree(t, t.root) = keys
  <2>1. t.root # NULL => t.root \in keys
    BY DEF Search, RootOf
  <2>2. t.root # NULL => Subtree(t, t.root) \subseteq keys
    BY <1>6, <2>1 DEF Inner
  <2> QED
    BY <1>7, <2>2
<1> QED
  BY <1>5, <1>6, <1>8

(* A search tree with intervals is one as RangeTree says it. *)
LEMMA SearchTree ==
  ASSUME IsFiniteSet(Addresses), NEW t, NEW keys, NEW low, NEW high, Search(t, keys, low, high)
  PROVE  IsTreeOf(t, keys)
<1>1. /\ t.root = NULL <=> keys = {}
      /\ t.root # NULL => t.parent[t.root] = NULL
  BY DEF Search, RootOf
<1>2. ASSUME NEW z \in keys
      PROVE  /\ t.left[z] # NULL => t.parent[t.left[z]] = z
             /\ t.right[z] # NULL => t.parent[t.right[z]] = z
  BY ChildOf
<1>3. Subtree(t, t.root) = keys
  BY <1>1, SubtreeIs
<1>4. ASSUME NEW z \in keys, NEW a \in Subtree(t, t.left[z]) PROVE a < z
  <2>1. t.left[z] # NULL
    BY <1>4, SubtreeIs
  <2>2. t.left[z] \in keys /\ high[t.left[z]] = z
    BY <2>1, ChildOf
  <2>3. a \in Inner(keys, low, high, t.left[z])
    BY <1>4, <2>2, SubtreeIs
  <2> QED
    BY <2>2, <2>3 DEF Inner
<1>5. ASSUME NEW z \in keys, NEW a \in Subtree(t, t.right[z]) PROVE z < a
  <2>1. t.right[z] # NULL
    BY <1>5, SubtreeIs
  <2>2. t.right[z] \in keys /\ low[t.right[z]] = z
    BY <2>1, ChildOf
  <2>3. a \in Inner(keys, low, high, t.right[z])
    BY <1>5, <2>2, SubtreeIs
  <2> QED
    BY <2>2, <2>3 DEF Inner
<1> QED
  BY <1>1, <1>2, <1>3, <1>4, <1>5 DEF IsTreeOf

(* The empty tree is a search tree. *)
LEMMA NewTree == \E low, high : Search(tree_new, {}, low, high)
<1>1. PICK f \in [Addresses -> Int] : TRUE
  <2>1. [a \in Addresses |-> 0] \in [Addresses -> Int]
    OBVIOUS
  <2> QED
    BY <2>1
<1>2. NoLinks \in [Addresses -> Nodes] /\ NULL \in Nodes
  BY DEF NoLinks, Nodes
<1>3. tree_new \in Trees /\ tree_new.root = NULL
  BY <1>2, TreeMade DEF tree_new
<1>4. Search(tree_new, {}, f, f)
  BY <1>1, <1>3 DEF Search, RootOf, Laminar
<1> QED
  BY <1>4

-----------------------------------------------------------------------------
(* The tree and the check together.  The inductive invariant is that of the *)
(* check with intervals for the tree over the recorded addresses.           *)
HasIntervals(t, keys) == \E low, high : Search(t, keys, low, high)
TreeInv == CheckInv /\ RangeInv /\ HasIntervals(tree, live)

(* The operations that the driver calls, on a tree with intervals. *)
LEMMA Operations ==
  ASSUME NEW t, NEW keys, HasIntervals(t, keys), NEW a \in Addresses
  PROVE  /\ HasIntervals(TreeInsert(t, a), keys \cup {a})
         /\ HasIntervals(TreeRemove(t, a), keys \ {a})
         /\ Nearest(keys, TreeFindNearest(t, a), a)
<1>1. PICK low, high : Search(t, keys, low, high)
  BY DEF HasIntervals
<1>2. IsFiniteSet(Addresses)
  BY CheckAssumption
<1>3. HasIntervals(TreeInsert(t, a), keys \cup {a})
  BY <1>1, <1>2, InsertKeeps DEF HasIntervals
<1>4. HasIntervals(TreeRemove(t, a), keys \ {a})
  BY <1>1, <1>2, RemoveKeeps DEF HasIntervals
<1>5. Nearest(keys, TreeFindNearest(t, a), a)
  BY <1>1, <1>2, FindsNearest
<1> QED
  BY <1>3, <1>4, <1>5

(* What the tree answers is what the check asks for; for NULL it is not     *)
(* asked.                                                                  *)
LEMMA TreeAnswers ==
  ASSUME HasIntervals(tree, live), NEW p \in Addresses \cup {NULL}
  PROVE  \E near \in live \cup {NULL} :
           Finds(near, p) /\ (p # NULL => near = TreeFindNearest(tree, p))
<1>1. CASE p = NULL
  BY <1>1 DEF Finds
<1>2. CASE p # NULL
  <2>1. Nearest(live, TreeFindNearest(tree, p), p)
    BY <1>2, Operations
  <2>2. TreeFindNearest(tree, p) \in live \cup {NULL} /\ IsNearest(TreeFindNearest(tree, p), p)
    BY <2>1 DEF Nearest, IsNearest
  <2> QED
    BY <2>2 DEF Finds
<1> QED
  BY <1>1, <1>2

(* NULL is refused whatever the tree answers. *)
LEMMA NullRefused ==
  ASSUME NEW size \in Nat, NEW x, NEW near
  PROVE  /\ Alloc(size, NULL, x) => Alloc(size, NULL, near)
         /\ moving.to = NULL /\ ReallocTo(x) => ReallocTo(near)
<1>1. ~Accepts(NULL, size, x) /\ ~Accepts(NULL, size, near)
  BY DEF Accepts, Placeable
<1>2. Alloc(size, NULL, x) => Alloc(size, NULL, near)
  BY <1>1 DEF Alloc
<1>3. ASSUME moving.to = NULL, ReallocTo(x) PROVE ReallocTo(near)
  <2>1. ~Accepts(moving.to, moving.size, x) /\ ~Accepts(moving.to, moving.size, near)
    BY <1>3 DEF Accepts, Placeable
  <2> QED
    BY <1>3, <2>1 DEF ReallocTo
<1> QED
  BY <1>2, <1>3

(* A step of the driver is a step of the check.                             *)
LEMMA DriverImplements ==
  ASSUME TreeInv, [Next]_vars
  PROVE  [CheckNext]_checkVars
<1>1. HasIntervals(tree, live) /\ moving.to \in Addresses \cup {NULL}
  BY DEF TreeInv, CheckInv, TypeInv
<1>2. ASSUME TreeReallocTo PROVE CheckNext
  <2>1. ReallocTo(TreeFindNearest(tree, moving.to))
    BY <1>2 DEF TreeReallocTo
  <2>2. PICK near \in live \cup {NULL} :
          Finds(near, moving.to) /\ (moving.to # NULL => near = TreeFindNearest(tree, moving.to))
    BY <1>1, TreeAnswers
  <2>3. 0 \in Nat
    OBVIOUS
  <2>4. ReallocTo(near)
    BY <2>1, <2>2, <2>3, NullRefused
  <2> QED
    BY <2>2, <2>4 DEF CheckNext
<1>3. ASSUME NEW size \in Sizes, NEW p \in Addresses \cup {NULL}, TreeAlloc(size, p)
      PROVE  CheckNext
  <2>1. Alloc(size, p, TreeFindNearest(tree, p))
    BY <1>3 DEF TreeAlloc
  <2>2. PICK near \in live \cup {NULL} :
          Finds(near, p) /\ (p # NULL => near = TreeFindNearest(tree, p))
    BY <1>1, TreeAnswers
  <2>3. size \in Nat
    BY RangeAssumption
  <2>4. Alloc(size, p, near)
    BY <2>1, <2>2, <2>3, NullRefused
  <2> QED
    BY <2>2, <2>4 DEF CheckNext
<1>4. ASSUME NEW a \in blocks \cup {NULL}, Free(a) \/ \E size \in Sizes \cup {0} : ReallocFrom(a, size)
      PROVE  CheckNext
  BY <1>4 DEF CheckNext
<1>5. CASE StartPass \/ HeapCheckFails \/ EndTrace \/ Measure
  BY <1>5 DEF CheckNext
<1>6. CASE UNCHANGED vars
  BY <1>6 DEF vars
<1> QED
  BY <1>2, <1>3, <1>4, <1>5, <1>6 DEF Next

(* Insertions and removals keep the tree in step with the range list.       *)
LEMMA DriverKeepsTree ==
  ASSUME TreeInv, [Next]_vars
  PROVE  HasIntervals(tree, live)'
<1>1. HasIntervals(tree, live) /\ live \subseteq Addresses /\ NULL \notin live
      /\ moving.to \in Addresses \cup {NULL} /\ blocks \subseteq Addresses
  BY RangeAssumption DEF TreeInv, CheckInv, TypeInv, RangeInv, RangeTypeOK, blocks
<1>2. ASSUME NEW t, TreeIs(t), Invalid PROVE HasIntervals(tree', live')
  BY <1>2, NewTree DEF TreeIs, Invalid, FreeRangeSet, HasIntervals
<1>3. ASSUME NEW t, TreeIs(t), verdict' # "invalid", HasIntervals(t, live')
      PROVE  HasIntervals(tree', live')
  BY <1>3 DEF TreeIs
<1>4. ASSUME NEW p \in Addresses, TreeIs(TreeInsert(tree, p)), verdict' # "invalid",
             live' = live \cup {p}
      PROVE  HasIntervals(tree', live')
  BY <1>1, <1>3, <1>4, Operations
<1>5. ASSUME TreeReallocTo PROVE HasIntervals(tree', live')
  <2>1. /\ ReallocTo(TreeFindNearest(tree, moving.to))
        /\ TreeIs(IF moving.size = 0 THEN tree ELSE TreeInsert(tree, moving.to))
    BY <1>5 DEF TreeReallocTo
  <2>2. PICK x : x = TreeFindNearest(tree, moving.to)
    OBVIOUS
  <2>3. CASE moving.size = 0 /\ UNCHANGED <<verdict, rangeVars>> /\ verdict = "running"
    <3>1. TreeIs(tree) /\ live' = live /\ verdict' # "invalid"
      BY <2>1, <2>3 DEF rangeVars
    <3> QED
      BY <1>1, <1>3, <3>1
  <2>4. CASE Invalid
    BY <1>2, <2>1, <2>4
  <2>5. CASE /\ moving.size > 0 /\ Accepts(moving.to, moving.size, x)
             /\ AddRange(moving.to, moving.size, x) /\ UNCHANGED verdict /\ verdict = "running"
    <3>1. moving.size # 0 /\ moving.to \in Addresses /\ live' = live \cup {moving.to} /\ verdict' # "invalid"
      BY <1>1, <2>5 DEF Accepts, Placeable, AddRange, Link
    <3> QED
      BY <1>4, <2>1, <3>1
  <2>6. ReallocTo(x)
    BY <2>1, <2>2
  <2> QED
    BY <2>3, <2>4, <2>5, <2>6 DEF ReallocTo
<1>6. ASSUME NEW size \in Sizes, NEW p \in Addresses \cup {NULL}, TreeAlloc(size, p)
      PROVE  HasIntervals(tree', live')
  <2>1. PICK x : Alloc(size, p, x) /\ TreeIs(TreeInsert(tree, p))
    BY <1>6 DEF TreeAlloc
  <2>2. CASE Invalid
    BY <1>2, <2>1, <2>2
  <2>3. CASE Accepts(p, size, x) /\ AddRange(p, size, x) /\ UNCHANGED verdict /\ verdict = "running"
    <3>1. p \in Addresses /\ live' = live \cup {p} /\ verdict' # "invalid"
      BY <2>3 DEF Accepts, Placeable, AddRange, Link
    <3> QED
      BY <1>4, <2>1, <3>1
  <2> QED
    BY <2>1, <2>2, <2>3 DEF Alloc, Ready
<1>7. ASSUME NEW a \in blocks \cup {NULL}, TreeIs(Without(a)),
             Free(a) \/ \E size \in Sizes \cup {0} : ReallocFrom(a, size)
      PROVE  HasIntervals(tree', live')
  <2>1. CASE Invalid
    BY <1>2, <1>7, <2>1
  <2>2. CASE Forget(a) /\ UNCHANGED verdict /\ verdict = "running"
    <3>1. verdict' # "invalid"
      BY <2>2
    <3>2. live' = live \ {a}
      BY <1>1, <2>2 DEF Forget, RemoveRange, rangeVars
    <3>3. HasIntervals(Without(a), live \ {a})
      <4>1. CASE a = NULL
        <5>1. live \ {a} = live /\ Without(a) = tree
          BY <1>1, <4>1 DEF Without
        <5> QED
          BY <1>1, <5>1
      <4>2. CASE a # NULL
        <5>1. a \in Addresses /\ Without(a) = TreeRemove(tree, a)
          BY <1>1, <4>2 DEF Without
        <5>2. HasIntervals(TreeRemove(tree, a), live \ {a})
          BY <1>1, <5>1, Operations
        <5> QED
          BY <5>1, <5>2
      <4> QED
        BY <4>1, <4>2
    <3> QED
      BY <1>3, <1>7, <3>1, <3>2, <3>3
  <2>3. Free(a) => Invalid \/ (Forget(a) /\ UNCHANGED verdict /\ verdict = "running")
    BY DEF Free, Ready
  <2>4. \A size : ReallocFrom(a, size) => Invalid \/ (Forget(a) /\ UNCHANGED verdict /\ verdict = "running")
    BY DEF ReallocFrom, Ready
  <2> QED
    BY <1>7, <2>1, <2>2, <2>3, <2>4
<1>8. ASSUME StartPass \/ HeapCheckFails \/ EndTrace \/ Measure, TreeIs(tree)
      PROVE  HasIntervals(tree', live')
  <2>1. CASE Invalid
    BY <1>2, <1>8, <2>1
  <2>2. CASE verdict' # "invalid" /\ live' = live
    BY <1>1, <1>3, <1>8, <2>2
  <2>3. Invalid \/ (verdict' # "invalid" /\ live' = live)
    BY <1>8 DEF StartPass, HeapCheckFails, EndTrace, Measure, rangeVars, traceVars
  <2> QED
    BY <2>1, <2>2, <2>3
<1>9. CASE UNCHANGED vars
  BY <1>1, <1>9 DEF vars, checkVars, rangeVars
<1> QED
  BY <1>5, <1>6, <1>7, <1>8, <1>9 DEF Next


(* The invariant of the driver with its tree holds throughout. *)
LEMMA DriverSafe == Spec => []TreeInv
<1>1. Init => TreeInv
  <2>1. CheckInit /\ tree = tree_new => live = {}
    BY DEF CheckInit, RangeInit
  <2> QED
    BY <2>1, InitCheck, NewTree DEF Init, TreeInv, HasIntervals
<1>2. TreeInv /\ [Next]_vars => TreeInv'
  <2> SUFFICES ASSUME TreeInv, [Next]_vars PROVE TreeInv'
    OBVIOUS
  <2>1. [CheckNext]_checkVars
    BY DriverImplements
  <2>2. CheckInv' /\ RangeInv'
    BY <2>1, CheckStep, RangeStep, StepInv DEF TreeInv
  <2>3. HasIntervals(tree, live)'
    BY DriverKeepsTree
  <2> QED
    BY <2>2, <2>3 DEF TreeInv
<1> QED
  BY <1>1, <1>2, PTL DEF Spec

(* For every set of addresses and every trace: after any order of           *)
(* insertions and removals the splay tree of stree.c is a search tree, its  *)
(* links agree, and it holds the ranges of the trace's blocks and nothing   *)
(* else.                                                                   *)
THEOREM TreeHolds == Spec => []TreeHoldsRanges
<1>1. TreeInv => TreeHoldsRanges
  <2> SUFFICES ASSUME TreeInv PROVE TreeHoldsRanges
    OBVIOUS
  <2>1. IsTreeOf(tree, live)
    BY SearchTree, CheckAssumption DEF TreeInv, HasIntervals
  <2>2. RangesOfBlocks
    BY DEF TreeInv, CheckInv, RangesOfBlocks, Bookkeeping
  <2> QED
    BY <2>1, <2>2 DEF TreeHoldsRanges
<1> QED
  BY DriverSafe, <1>1, PTL

(* The driver with the tree implements the check with the nearest range     *)
(* left open: whatever shape the splaying gives the tree, it answers with   *)
(* the nearest range.                                                      *)
THEOREM TreeImplements == Spec => ImplementsTraceCheck
<1>1. Init => CheckInit
  BY DEF Init
<1>2. TreeInv /\ [Next]_vars => [CheckNext]_checkVars
  BY DriverImplements
<1> QED
  BY DriverSafe, <1>1, <1>2, PTL DEF Spec, ImplementsTraceCheck, CheckSpec

(* So the verdict is right for the driver as it runs. *)
THEOREM DriverVerdict == Spec => []VerdictRight
<1>1. Spec => CheckSpec
  BY TreeImplements DEF ImplementsTraceCheck
<1> QED
  BY <1>1, VerdictIsRight, PTL
=============================================================================
