----------------------------- MODULE TreeShape -----------------------------
(***************************************************************************)
(* The vocabulary that the SCX model and its atomic specification share:   *)
(* nodes of the chromatic tree as far as LLX and SCX see them (two child   *)
(* pointers), the kinds of update that call SCX, the tables of scxrecord.h *)
(* that say how many nodes each kind freezes, replaces and allocates, and  *)
(* the subtree each kind puts in place of the one it removes.              *)
(*                                                                         *)
(* Keys, values and weights are left out: they are immutable, they decide  *)
(* only which update a thread attempts, and no step of LLX or SCX reads    *)
(* them.  BLK stands for the rebalancing steps of its shape (BLK, PUSH,    *)
(* W7 and their mirror images): a node and its two children are copied,    *)
(* and one of the children may be a leaf.                                  *)
(***************************************************************************)
EXTENDS Integers, FiniteSets

CONSTANTS
  MaxNode,     \* bound: node addresses are 1..MaxNode
  InitKids     \* the children of each node of the initial tree

NULL == 0
Root == 1
Node == 1 .. MaxNode
InitNode == DOMAIN InitKids
Side == {"L", "R"}
Other(d) == IF d = "L" THEN "R" ELSE "L"
Kids == [Side -> Node \cup {NULL}]
Pair(l, r) == [d \in Side |-> IF d = "L" THEN l ELSE r]
NoKids == Pair(NULL, NULL)

(* The initial tree occupies addresses 1..n, with the root at Root.        *)
ASSUME TreeAssumption ==
  /\ MaxNode \in Nat
  /\ InitNode \subseteq Node
  /\ Root \in InitNode
  /\ InitKids \in [InitNode -> [Side -> InitNode \cup {NULL}]]

Op == {"INS", "REPLACE", "DEL", "BLK"}

(* Positions of nodes[]: 1 is nodes[0] of the code.                        *)
Idx == 1 .. 4

NUM_INSERTED == [o \in Op |-> IF o \in {"INS", "BLK"} THEN 3 ELSE 1]
(* Mutant: a deletion does not freeze the sibling, nor BLK its last node.  *)
NUM_TO_FREEZE_Short ==
  [o \in Op |-> CASE o = "DEL" -> 2 [] o = "BLK" -> 3 [] OTHER -> 1]
NUM_TO_FREEZE ==
  [o \in Op |-> CASE o = "DEL" -> 3 [] o = "BLK" -> 4 [] OTHER -> 1]
(* Mutant: a deletion forgets the leaf that it takes out.                  *)
NUM_OF_NODES_NoLeaf ==
  [o \in Op |-> CASE o = "DEL" -> 3 [] o = "BLK" -> 4 [] OTHER -> 2]
NUM_OF_NODES == [o \in Op |-> IF o \in {"DEL", "BLK"} THEN 4 ELSE 2]

(* The node that the update CAS puts in the tree, for new nodes sp[1..3].  *)
NewRoot(o, sp) == IF o = "INS" THEN sp[3] ELSE sp[1]

NewNodes(o, sp) == {sp[i] : i \in 1 .. NUM_INSERTED[o]}

(***************************************************************************)
(* The children of each new node, where k3 and k4 are the children of      *)
(* nodes[2] and nodes[3]: an insertion builds an internal node over two    *)
(* leaves, a replacement builds a leaf, a deletion copies the sibling of   *)
(* the deleted leaf, BLK copies a node and both of its children.           *)
(***************************************************************************)
NewKids(o, sp, k3, k4) ==
  [n \in NewNodes(o, sp) |->
     CASE o = "INS" /\ n = sp[3] -> Pair(sp[1], sp[2])
       [] o = "DEL"              -> k3
       [] o = "BLK" /\ n = sp[1] -> Pair(sp[2], sp[3])
       [] o = "BLK" /\ n = sp[2] -> k3
       [] o = "BLK" /\ n = sp[3] -> k4
       [] OTHER                  -> NoKids]

(***************************************************************************)
(* nd is where update o applies in a tree whose nodes have children kd:    *)
(* an insertion or a replacement at a leaf nd[2], a deletion of leaf nd[4] *)
(* with parent nd[2] and sibling nd[3], a BLK of nd[2] with children nd[3] *)
(* and nd[4].                                                              *)
(***************************************************************************)
Applies(o, nd, kd) ==
  /\ nd[2] \in {kd[nd[1]][d] : d \in Side}
  /\ o \in {"INS", "REPLACE"} => kd[nd[2]] = NoKids
  /\ o = "DEL" => /\ nd[4] # NULL /\ kd[nd[4]] = NoKids
                  /\ \/ kd[nd[2]] = Pair(nd[3], nd[4])
                     \/ kd[nd[2]] = Pair(nd[4], nd[3])
  /\ o = "BLK" => /\ nd[3] # NULL
                  /\ kd[nd[2]] = Pair(nd[3], nd[4])

(* Nodes that update o takes out of the tree: all of nodes[] but nodes[0]. *)
Replaced(o, nd) == {nd[i] : i \in 2 .. NUM_OF_NODES[o]}
=============================================================================
