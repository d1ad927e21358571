------------------------------ MODULE RangeSet ------------------------------
(***************************************************************************)
(* The range list of mdriver.c: one record per block the allocator under   *)
(* test has handed out, kept by its first address in a splay tree and      *)
(* chained to its neighbours.  Here the tree is a set whose answers are    *)
(* parameters of the operations; RangeTree has the tree itself.            *)
(*                                                                         *)
(* add_range takes the successor of a new record from its predecessor: a   *)
(* block below all the others starts a chain of its own and becomes the    *)
(* head of the list, which then no longer reaches the others.              *)
(***************************************************************************)
EXTENDS Integers

CONSTANTS
  Addresses,      (* where a block may start                               *)
  Sizes,          (* the sizes of blocks                                   *)
  NULL

ASSUME RangeAssumption ==
  /\ Addresses \subseteq Nat
  /\ Sizes \subseteq Nat \ {0}
  /\ NULL \notin Addresses

VARIABLES
  live,           (* the addresses with a record                           *)
  hi,             (* hi[lo], next[lo], prev[lo]: the fields of the record   *)
  next,
  prev,
  list            (* ranges->list                                          *)

rangeVars == <<live, hi, next, prev, list>>

RangeInit ==
  /\ live = {}
  /\ hi = [a \in Addresses |-> 0]
  /\ next = [a \in Addresses |-> NULL]
  /\ prev = [a \in Addresses |-> NULL]
  /\ list = NULL

(* f after a store through the pointer x; none when x is NULL. *)
Store(f, x, v) == [a \in DOMAIN f |-> IF a = x THEN v ELSE f[a]]

(* What tree_find_nearest answers: the record with the greatest address    *)
(* that is not above lo.                                                   *)
IsNearest(p, lo) ==
  \/ /\ p = NULL
     /\ \A a \in live : lo < a
  \/ /\ p \in live
     /\ p <= lo
     /\ \A a \in live : a <= p \/ lo < a

-----------------------------------------------------------------------------
(* add_range, with the answer p of tree_find_nearest *)

Successor(p) == IF p = NULL THEN NULL ELSE next[p]

Overlaps(lo, size, p) ==
  \/ p # NULL /\ lo <= hi[p]
  \/ Successor(p) # NULL /\ lo + size - 1 >= Successor(p)

(* Mutant: the successor's link back is left as it was. *)
LinkForward(lo, size, p) ==
  /\ live' = live \cup {lo}
  /\ hi' = Store(hi, lo, lo + size - 1)
  /\ next' = Store(Store(next, p, lo), lo, Successor(p))
  /\ prev' = Store(prev, lo, p)
  /\ list' = IF p = NULL THEN lo ELSE list

Link(lo, size, p) ==
  /\ live' = live \cup {lo}
  /\ hi' = Store(hi, lo, lo + size - 1)
  /\ next' = Store(Store(next, p, lo), lo, Successor(p))
  /\ prev' = Store(Store(prev, Successor(p), lo), lo, p)
  /\ list' = IF p = NULL THEN lo ELSE list

AddRange(lo, size, p) == ~Overlaps(lo, size, p) /\ Link(lo, size, p)

(* remove_range.  The fields of the freed record are cleared; LinksSound    *)
(* shows that nothing leads to them any more.                               *)
RemoveRange(lo) ==
  /\ lo \in live
  /\ live' = live \ {lo}
  /\ hi' = Store(hi, lo, 0)
  /\ next' = Store(Store(next, prev[lo], next[lo]), lo, NULL)
  /\ prev' = Store(Store(prev, next[lo], prev[lo]), lo, NULL)
  /\ list' = IF prev[lo] = NULL THEN next[lo] ELSE list

(* free_range_set *)
FreeRangeSet ==
  /\ live' = {}
  /\ hi' = [a \in Addresses |-> 0]
  /\ next' = [a \in Addresses |-> NULL]
  /\ prev' = [a \in Addresses |-> NULL]
  /\ list' = NULL

RangeNext ==
  \/ \E lo \in Addresses, size \in Sizes, p \in live \cup {NULL} :
       IsNearest(p, lo) /\ AddRange(lo, size, p)
  \/ \E lo \in Addresses : RemoveRange(lo)
  \/ FreeRangeSet

RangeSpec == RangeInit /\ [][RangeNext]_rangeVars

-----------------------------------------------------------------------------
RangeTypeOK ==
  /\ live \subseteq Addresses
  /\ hi \in [Addresses -> Nat]
  /\ next \in [Addresses -> Addresses \cup {NULL}]
  /\ prev \in [Addresses -> Addresses \cup {NULL}]
  /\ list \in Addresses \cup {NULL}

(* Whatever the order of additions and removals, and although add_range    *)
(* may leave records out of the list: no link and no head leads to a       *)
(* record that remove_range has freed, the two directions of the chain     *)
(* agree, and the records of a link are neighbours that do not overlap.    *)
LinksSound ==
  /\ list # NULL => list \in live /\ prev[list] = NULL
  /\ \A a \in live : prev[a] # NULL => prev[a] \in live /\ next[prev[a]] = a
  /\ \A a \in live : next[a] # NULL =>
       /\ next[a] \in live
       /\ prev[next[a]] = a
       /\ hi[a] < next[a]
       /\ \A b \in live : b <= a \/ next[a] <= b

(* A block is refused for overlapping only when it does overlap a recorded  *)
(* one: the two neighbours that add_range looks at raise no false alarm.    *)
Meets(lo, size, b) == lo <= hi[b] /\ b <= lo + size - 1
NoFalseOverlap ==
  \A lo \in Addresses, size \in Sizes, p \in live \cup {NULL} :
    IsNearest(p, lo) /\ Overlaps(lo, size, p) => \E b \in live : Meets(lo, size, b)
=============================================================================
