------------------------------ MODULE PageTree -------------------------------
(***************************************************************************)
(* The page tables of the simulator as the trees of tables they are: one,  *)
(* two or three levels, allocated by addPTE when first needed and freed by *)
(* deletePTE when empty.  The operations of Paging drive the trees, and    *)
(* findPTE must answer what Paging's page table says.                       *)
(*                                                                         *)
(* A table is named by the path of indices that leads to it; the top-level *)
(* table is <<>>.  A page table entry is named by its full path.            *)
(***************************************************************************)
EXTENDS Paging, SequencesExt

CONSTANTS
  Shapes      (* the values of sysParam: [levels, N2_in_bits, N3_in_bits]  *)

(* A level that is not used has no bits, as in the input files.            *)
ASSUME TreeAssumption ==
  /\ Pages \subseteq Nat
  /\ \A s \in Shapes :
       /\ s.levels \in 1 .. 3 /\ s.N2_in_bits \in Nat /\ s.N3_in_bits \in Nat
       /\ s.levels < 2 => s.N2_in_bits = 0
       /\ s.levels < 3 => s.N3_in_bits = 0

VARIABLES
  sysParam,
  tree        (* tree[p]: the allocated tables and the entries of process p *)

treeVars == <<pagingVars, sysParam, tree>>

NoTree == [tables |-> {}, entries |-> [e \in {} |-> NoFrame]]

(* The indices of vpn at the three levels: what is left of vpn is shifted   *)
(* right, level by level.                                                  *)
Path(vpn) ==
  LET second == 2 ^ sysParam.N2_in_bits
      third == 2 ^ sysParam.N3_in_bits
      firstLvlIndex == vpn \div (second * third)
      rest == vpn - firstLvlIndex * (second * third)
      secondLvlIndex == rest \div third
      thirdLvlIndex == rest - secondLvlIndex * third
  IN  SubSeq(<<firstLvlIndex, secondLvlIndex, thirdLvlIndex>>, 1, sysParam.levels)

Tables(path) == {SubSeq(path, 1, n) : n \in 0 .. sysParam.levels - 1}
Below(table, path) == IsStrictPrefix(table, path)

(* findPTE: no frame as soon as a table on the way is missing. *)
findPTE(t, vpn) ==
  IF Tables(Path(vpn)) \subseteq t.tables /\ Path(vpn) \in DOMAIN t.entries
  THEN t.entries[Path(vpn)] ELSE NoFrame

(* addPTE: missing tables are allocated, with every entry NULL.            *)
addPTE(t, vpn, ppn) ==
  LET new == Tables(Path(vpn)) \ t.tables
      kept == {e \in DOMAIN t.entries : \A table \in new : ~Below(table, e)}
  IN  [tables |-> {table \in t.tables : \A n \in new : ~Below(n, table)} \cup new,
       entries |-> [e \in kept \cup {Path(vpn)} |->
                      IF e = Path(vpn) THEN ppn ELSE t.entries[e]]]

Empty(t, table) ==
  \A child \in t.tables \cup DOMAIN t.entries : ~Below(table, child)

(* Mutant: a table is freed without a look at its other entries. *)
FreeEmptyAny(t, table) ==
  [t EXCEPT !.tables = @ \ {table}]

(* A table that is empty is freed and its entry in the one above cleared.  *)
FreeEmpty(t, table) ==
  IF Empty(t, table) THEN [t EXCEPT !.tables = @ \ {table}] ELSE t

(* Mutant: only the table of the last level is freed when it is empty. *)
deletePTELastLevel(t, vpn) ==
  LET path == Path(vpn)
      without == [t EXCEPT !.entries = Restrict(@, DOMAIN @ \ {path})]
  IN  IF findPTE(t, vpn) = NoFrame THEN t
      ELSE IF sysParam.levels = 1 THEN without ELSE FreeEmpty(without, Front(path))

(* The table after n indices is freed, where there is one, when it is empty. *)
FreeLevel(t, path, n) ==
  IF sysParam.levels > n THEN FreeEmpty(t, SubSeq(path, 1, n)) ELSE t

(* deletePTE: the entry is freed, then the tables it was in from the last  *)
(* level up to the second.                                                 *)
deletePTE(t, vpn) ==
  LET path == Path(vpn)
      without == [t EXCEPT !.entries = Restrict(@, DOMAIN @ \ {path})]
  IN  IF findPTE(t, vpn) = NoFrame THEN t
      ELSE FreeLevel(FreeLevel(without, path, 2), path, 1)

(* cleanUpProcess: whatever can be reached from the top-level table.       *)
FreeTree(t) ==
  LET reached == {e \in DOMAIN t.entries : Tables(e) \subseteq t.tables}
  IN  [tables |-> {s \in t.tables : ~(\A n \in 0 .. Len(s) : SubSeq(s, 1, n) \in t.tables)},
       entries |-> Restrict(t.entries, DOMAIN t.entries \ reached)]

-----------------------------------------------------------------------------
TreeInit ==
  /\ Init
  /\ sysParam \in Shapes
  /\ tree = [p \in Procs |-> NoTree]

TreeSwitch(p) == Switch(p) /\ UNCHANGED <<sysParam, tree>>

TreeFill(v) == Fill(v) /\ UNCHANGED <<sysParam, tree>>

(* DRAMadd takes the entry of the evicted page out of its tree, addPTE     *)
(* puts the new one in.                                                    *)
Evicted(f) ==
  IF frames[f] = Free THEN tree
  ELSE [tree EXCEPT ![frames[f][1]] = deletePTE(@, frames[f][2])]

TreeLoad(p, v, f) ==
  /\ Load(p, v, f)
  /\ tree' = [Evicted(f) EXCEPT ![p] = addPTE(@, v, f)]
  /\ UNCHANGED sysParam

TreeExit(p) ==
  /\ Exit(p)
  /\ tree' = [tree EXCEPT ![p] = FreeTree(@)]
  /\ UNCHANGED sysParam

TreeNext ==
  \/ \E p \in Procs : TreeSwitch(p) \/ TreeExit(p)
  \/ \E v \in Pages : TreeFill(v)
  \/ \E p \in Procs, v \in Pages, f \in Frames : TreeLoad(p, v, f)

TreeSpec == TreeInit /\ [][TreeNext]_treeVars

-----------------------------------------------------------------------------
(* findPTE finds the entry of every page that is in memory and of no other, *)
(* whatever was added and deleted before and however the bits of the page   *)
(* number are split.                                                        *)
Translates ==
  \A p \in Procs, v \in Pages : findPTE(tree[p], v) = pageTable[p][v]

(* Every table can be reached from the top-level table and, but for that    *)
(* one, holds an entry; every entry can be reached: deletePTE and           *)
(* cleanUpProcess leave no memory behind and free nothing in use.           *)
NothingLeaks ==
  \A p \in Procs :
    /\ \A table \in tree[p].tables :
         /\ table # <<>> => ~Empty(tree[p], table) /\ Front(table) \in tree[p].tables
    /\ \A e \in DOMAIN tree[p].entries : Tables(e) \subseteq tree[p].tables
    /\ p \notin live => tree[p] = NoTree
=============================================================================
