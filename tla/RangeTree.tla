------------------------------ MODULE RangeTree ------------------------------
(***************************************************************************)
(* The splay tree of stree.c that mdriver.c finds its ranges in.  A tree   *)
(* is a record of its root and the three links of every node; a node is    *)
(* known by its key, the address of the range.  Reading a link of NULL     *)
(* does not happen: the callers test for it as the code does.              *)
(***************************************************************************)
EXTENDS RangeSet, FiniteSets

NoLinks == [a \in Addresses |-> NULL]
tree_new == [root |-> NULL, left |-> NoLinks, right |-> NoLinks, parent |-> NoLinks]

Nodes == Addresses \cup {NULL}
Trees == LET Links == [Addresses -> Nodes] IN
         [root : Nodes, left : Links, right : Links, parent : Links]

(* What a loop leaves that starts with s and takes step[s] in every round.  *)
(* None here takes more rounds than there are nodes, and step changes       *)
(* nothing when its condition is false.                                     *)
Rounds(s, step) ==
  LET state[n \in Nat] == IF n = 0 THEN s ELSE step[state[n - 1]]
  IN  state[Cardinality(Addresses)]

(* replace: v takes the place of u below u's parent. *)
Replace(t, u, v) ==
  LET p == t.parent[u] IN
  [root |-> IF p = NULL THEN v ELSE t.root,
   left |-> IF p # NULL /\ t.left[p] = u THEN Store(t.left, p, v) ELSE t.left,
   right |-> IF p # NULL /\ t.left[p] # u THEN Store(t.right, p, v) ELSE t.right,
   parent |-> Store(t.parent, v, p)]

(* The rotations, whose callers make sure that x has the child that rises. *)
LeftRotate(t, x) ==
  LET y == t.right[x]
      up == Replace(t, x, y)
  IN  [root |-> up.root,
       left |-> Store(up.left, y, x),
       right |-> Store(up.right, x, t.left[y]),
       parent |-> Store(Store(up.parent, t.left[y], x), x, y)]

(* Mutant: the subtree that changes sides keeps its parent link. *)
RightRotateLoose(t, x) ==
  LET y == t.left[x]
      up == Replace(t, x, y)
  IN  [root |-> up.root,
       left |-> Store(up.left, x, t.right[y]),
       right |-> Store(up.right, y, x),
       parent |-> Store(up.parent, x, y)]

RightRotate(t, x) ==
  LET y == t.left[x]
      up == Replace(t, x, y)
  IN  [root |-> up.root,
       left |-> Store(up.left, x, t.right[y]),
       right |-> Store(up.right, y, x),
       parent |-> Store(Store(up.parent, t.right[y], x), x, y)]

(* The rotation that lifts x above its parent. *)
Lift(t, x) ==
  LET p == t.parent[x] IN
  IF t.left[p] = x THEN RightRotate(t, p) ELSE LeftRotate(t, p)

(* splay: x becomes the root, two levels at a time. *)
SplayRound(t, x) ==
  LET p == t.parent[x]
      g == t.parent[p]
  IN  IF p = NULL THEN t
      ELSE IF g = NULL THEN Lift(t, x)
      ELSE IF (t.left[p] = x) = (t.left[g] = p) THEN Lift(Lift(t, p), x)
      ELSE Lift(Lift(t, x), x)

Splay(t, x) == Rounds(t, [s \in Trees |-> SplayRound(s, x)])

Child(t, z, key) == IF key > z THEN t.right[z] ELSE t.left[z]

(* The last node on the way down to where key is or would be; last is the   *)
(* parent of the node the way has come to.                                  *)
Descend(t, key) ==
  LET down == [w \in [at : Nodes, last : Nodes] |->
                 IF w.at \in {NULL, key} THEN w
                 ELSE [at |-> Child(t, w.at, key), last |-> w.at]]
      end == Rounds([at |-> t.root, last |-> NULL], down)
  IN  IF end.at = NULL THEN end.last ELSE end.at

TreeInsert(t, key) ==
  LET p == Descend(t, key)
      grown == [root |-> IF p = NULL THEN key ELSE t.root,
                left |-> Store(IF p # NULL /\ p > key THEN Store(t.left, p, key) ELSE t.left,
                               key, NULL),
                right |-> Store(IF p # NULL /\ p < key THEN Store(t.right, p, key) ELSE t.right,
                                key, NULL),
                parent |-> Store(t.parent, key, p)]
  IN  IF p = key THEN t ELSE Splay(grown, key)

(* Mutant: the node the way ends at, which may lie above key. *)
TreeFindNearestLast(t, key) == Descend(t, key)

(* best is the greatest node so far from which the way went right. *)
TreeFindNearest(t, key) ==
  LET down == [w \in [at : Nodes, best : Nodes] |->
                 IF w.at \in {NULL, key} THEN w
                 ELSE [at |-> Child(t, w.at, key),
                       best |-> IF key > w.at /\ (w.best = NULL \/ w.best < w.at)
                                THEN w.at ELSE w.best]]
      end == Rounds([at |-> t.root, best |-> NULL], down)
  IN  IF end.at = NULL THEN end.best ELSE end.at

SubtreeMinimum(t, u) ==
  Rounds(u, [z \in Addresses |-> IF t.left[z] = NULL THEN z ELSE t.left[z]])

(* A node leaves the tree: freed, its links are not looked at again. *)
Freed(t, z) ==
  [root |-> t.root, left |-> Store(t.left, z, NULL),
   right |-> Store(t.right, z, NULL), parent |-> Store(t.parent, z, NULL)]

(* The minimum y of z's right subtree leaves its place and takes over that  *)
(* subtree, unless it is its root.                                          *)
TakeMinimum(t, z, y) ==
  LET out == Replace(t, y, t.right[y]) IN
  IF t.parent[y] = z THEN t
  ELSE [out EXCEPT !.right = Store(@, y, t.right[z]), !.parent = Store(@, t.right[z], y)]

RemoveRoot(t, z) ==
  IF t.left[z] = NULL THEN Replace(t, z, t.right[z])
  ELSE IF t.right[z] = NULL THEN Replace(t, z, t.left[z])
  ELSE LET y == SubtreeMinimum(t, t.right[z])
           up == Replace(TakeMinimum(t, z, y), z, y)
       IN  [up EXCEPT !.left = Store(@, y, t.left[z]), !.parent = Store(@, t.left[z], y)]

TreeRemove(t, key) ==
  IF Descend(t, key) # key THEN t
  ELSE Freed(RemoveRoot(Splay(t, key), key), key)

-----------------------------------------------------------------------------
(* The keys below z, z included. *)
Subtree(t, z) ==
  Rounds({z} \ {NULL},
         [S \in SUBSET Addresses |->
            (S \cup {t.left[a] : a \in S} \cup {t.right[a] : a \in S}) \ {NULL}])

(* t is a search tree of exactly the given keys, its links up and down      *)
(* agree, and every node is reached once.                                   *)
IsTreeOf(t, keys) ==
  /\ (t.root = NULL) = (keys = {})
  /\ t.root # NULL => t.parent[t.root] = NULL
  /\ \A z \in keys :
       /\ t.left[z] # NULL => t.parent[t.left[z]] = z
       /\ t.right[z] # NULL => t.parent[t.right[z]] = z
  /\ Subtree(t, t.root) = keys
  /\ \A z \in keys :
       /\ \A a \in Subtree(t, t.left[z]) : a < z
       /\ \A a \in Subtree(t, t.right[z]) : z < a
=============================================================================
