--------------------------- MODULE ChromaticTree ---------------------------
(***************************************************************************)
(* The chromatic tree as a balanced tree: what insertions, deletions and   *)
(* rebalancing steps do to keys and weights (chromatic_impl.h, insert,     *)
(* erase, fixAllToKey, updateInsert, updateErase, updateRebalancingStep).  *)
(*                                                                         *)
(* The tree is a value (see Rebalance).  Every successful update is one    *)
(* SCX, which LlxScx shows to be an atomic replacement of a subtree, so an *)
(* update is one action here and threads interleave between updates.  An   *)
(* attempt that fails changes nothing and is retried: it is no step.       *)
(*                                                                         *)
(* A search is not atomic with the SCX that follows it.  VersionTree shows *)
(* that this does not matter to where a key is inserted or deleted.  It    *)
(* does matter to rebalancing: the violations counted on the way down, and *)
(* the violation a rebalancing search stops at, may since have moved off   *)
(* the path to the thread's key.  So whether a thread goes on to           *)
(* fixAllToKey, which takes one step at most, is left open: at any time    *)
(* some thread may take a rebalancing step, or none may.  The model is     *)
(* thereby one of any number of threads, and the tree is its only          *)
(* variable.                                                               *)
(***************************************************************************)
EXTENDS Rebalance, VersionQueries, Sequences, FiniteSets, Functions

CONSTANTS
    Key,            \* the keys used
    Bound,          \* the bounds of the range queries asked: some of the keys
    N               \* the violations allowed on a search path

ASSUME KeyAssumption == Key \subseteq Nat \ {NO_KEY}
ASSUME BoundAssumption == Bound \subseteq Key
ASSUME NAssumption == N \in Nat

VARIABLE root       \* the tree, from its topmost sentinel

-----------------------------------------------------------------------------
(* Paths are sequences of booleans: TRUE goes left. *)

Child(n, left) == IF left THEN n.left ELSE n.right

RECURSIVE At(_, _)
At(n, path) ==
    IF path = <<>> THEN n ELSE At(Child(n, Head(path)), Tail(path))

(* n with the node at the end of path replaced by m: the SCX's write. *)
RECURSIVE Swing(_, _, _)
Swing(n, path, m) ==
    CASE path = <<>> -> m
      [] path # <<>> /\ Head(path) -> [n EXCEPT !.left = Swing(@, Tail(path), m)]
      [] OTHER -> [n EXCEPT !.right = Swing(@, Tail(path), m)]

RECURSIVE Toward(_, _)
Toward(n, k) ==
    IF IsLeaf(n) THEN <<>>
    ELSE <<k < n.key>> \o Toward(Child(n, k < n.key), k)

EmptyTree == IsLeaf(root.left)

(* The search path from n, a root: its left child, and, unless the tree    *)
(* has only sentinels, that one's left child and on by comparing keys.     *)
SearchFrom(n, k) ==
    IF IsLeaf(n.left) THEN <<TRUE>> ELSE <<TRUE, TRUE>> \o Toward(n.left.left, k)

Search(k) == SearchFrom(root, k)

Parent(path) == SubSeq(path, 1, Len(path) - 1)

ViolatesIn(n, path) ==
    LET l == At(n, path)
        p == At(n, Parent(path))
    IN  l.weight > 1 \/ (l.weight = 0 /\ p.weight = 0)

Violates(path) == ViolatesIn(root, path)

(* The violations on the search path to k in the tree n, topmost first.    *)
Violations(n, k) ==
    LET path == SearchFrom(n, k)
        prefixes == [i \in 1 .. Len(path) |-> SubSeq(path, 1, i)]
    IN  SelectSeq(prefixes, LAMBDA prefix : ViolatesIn(n, prefix))

-----------------------------------------------------------------------------
Leaf(k) == Node(k, 1, NULL, NULL)

Init == root = Node(NO_KEY, 1, Leaf(NO_KEY), NULL)

(* Mutant: the smaller key routes. *)
NewInternalSmallerRoutes(k, l, p) ==
    LET newWeight == IF IS_SENTINEL(l, p) THEN 1 ELSE l.weight - 1
    IN  IF l.key = NO_KEY \/ k < l.key
        THEN Node(l.key, newWeight, Leaf(k), Leaf(l.key))
        ELSE Node(l.key, newWeight, Leaf(l.key), Leaf(k))

NewInternal(k, l, p) ==
    LET newWeight == IF IS_SENTINEL(l, p) THEN 1 ELSE l.weight - 1
        newCopyOfL == Leaf(l.key)
    IN  IF l.key = NO_KEY \/ k < l.key
        THEN Node(l.key, newWeight, Leaf(k), newCopyOfL)
        ELSE Node(k, newWeight, newCopyOfL, Leaf(k))

(* An insertion of a key that is not in the tree.  Of a key that is, the   *)
(* code replaces the leaf by one of the same key and weight.               *)
UpdateInsert(k) ==
    LET path == Search(k)
        l == At(root, path)
        p == At(root, Parent(path))
    IN  /\ l.key # k
        /\ root' = Swing(root, path, NewInternal(k, l, p))

(* Mutant: the weight of p is lost with it. *)
NewSiblingOwnWeight(gp, p, s) == Copy(s, IF IS_SENTINEL(p, gp) THEN 1 ELSE s.weight)

(* The copy of the sibling s that takes the place of p. *)
NewSibling(gp, p, s) ==
    Copy(s, IF IS_SENTINEL(p, gp) THEN 1 ELSE p.weight + s.weight)

UpdateErase(k) ==
    LET path == Search(k)
        p == At(root, Parent(path))
        gp == At(root, Parent(Parent(path)))
        s == Child(p, ~path[Len(path)])
    IN  /\ ~EmptyTree
        /\ At(root, path).key = k
        /\ root' = Swing(root, Parent(path), NewSibling(gp, p, s))

RECURSIVE PathsFrom(_)
PathsFrom(n) ==
    {<<>>} \cup (IF IsLeaf(n) THEN {} ELSE
                 {<<left>> \o path : left \in {TRUE}, path \in PathsFrom(n.left)} \cup
                 {<<left>> \o path : left \in {FALSE}, path \in PathsFrom(n.right)})

(* The nodes below the sentinels, by their paths from root. *)
Paths == IF EmptyTree THEN {} ELSE {<<TRUE, TRUE>> \o path : path \in PathsFrom(root.left.left)}

(* Where a search of updateRebalancingStep can stop: at a violation.  The  *)
(* search had passed p and gp, so those are none, and the links from ggp   *)
(* to l are checked again by the LLXs that follow it.                      *)
RebalancingPoints ==
    {path \in Paths : Violates(path) /\ ~Violates(Parent(path))
                                    /\ (Len(path) > 2 => ~Violates(Parent(Parent(path))))}

(* Mutant: the search starts one node too low. *)
RebalancingStepStartsLow(path) ==
    LET d == Len(path)
    IN  IF d <= 3 THEN RETRY
        ELSE Dispatch(At(root, SubSeq(path, 1, d - 3)), At(root, SubSeq(path, 1, d - 2)),
                      At(root, SubSeq(path, 1, d - 1)), At(root, path),
                      path[d - 1], path[d])

(* The transformation picked for the violation at the end of path.  The    *)
(* search starts with ggp = gp = root, so a violation two steps below root *)
(* would fail the check that uX is a child of u.                           *)
RebalancingStep(path) ==
    LET d == Len(path)
    IN  IF d = 2 THEN RETRY
        ELSE Dispatch(At(root, SubSeq(path, 1, d - 3)), At(root, SubSeq(path, 1, d - 2)),
                      At(root, SubSeq(path, 1, d - 1)), At(root, path),
                      path[d - 1], path[d])

(* The tree after that transformation. *)
Rebalanced(path) ==
    LET step == RebalancingStep(path)
        replaced == IF step.replaces = "uX" THEN Parent(Parent(path)) ELSE Parent(path)
    IN  Swing(root, replaced, step.by)

UpdateRebalancingStep ==
    \E path \in RebalancingPoints :
        /\ RebalancingStep(path) # RETRY
        /\ root' = Rebalanced(path)

(* fixAllToKey on a quiet tree: it repeats updateRebalancingStep until it  *)
(* returns true, which it does after a transformation as well as when the  *)
(* search meets no violation.                                              *)
FixAllToKey(k) ==
    LET violations == Violations(root, k)
    IN  IF violations = <<>> THEN root ELSE Rebalanced(Head(violations))

Next ==
    \/ \E k \in Key : UpdateInsert(k) \/ UpdateErase(k)
    \/ UpdateRebalancingStep

Spec == Init /\ [][Next]_root

-----------------------------------------------------------------------------
(* What the properties speak of. *)

RECURSIVE Leaves(_)
Leaves(n) == IF IsLeaf(n) THEN <<n.key>> ELSE Leaves(n.left) \o Leaves(n.right)

Keys == Range(Leaves(root.left)) \ {NO_KEY}

(* The weights of the paths from n to its leaves. *)
RECURSIVE PathWeights(_)
PathWeights(n) ==
    IF IsLeaf(n) THEN {n.weight}
    ELSE {n.weight + w : w \in PathWeights(n.left) \cup PathWeights(n.right)}

-----------------------------------------------------------------------------
(* Type invariant: the sentinels stay where the searches expect them (a    *)
(* node two steps below root has weight one, so no violation is too close  *)
(* to root to be repaired), no weight is negative, no leaf is red, and     *)
(* only sentinels have the reserved key (the searches assert this).        *)
TypeOK ==
    /\ root.key = NO_KEY /\ root.weight = 1 /\ root.right = NULL
    /\ root.left.key = NO_KEY /\ root.left.weight = 1
    /\ ~EmptyTree => root.left.right = Leaf(NO_KEY) /\ root.left.left.weight = 1
    /\ \A path \in Paths : LET n == At(root, path)
                           IN  /\ n.key \in Key
                               /\ n.weight \in Nat
                               /\ IsLeaf(n) => n.weight > 0 /\ n.right = NULL

(* Insertions, deletions and all rotations keep the tree a search tree:    *)
(* every key in the tree is where updateInsert, updateErase and find look  *)
(* for it, although a deleted key may live on as a routing key.            *)
EveryKeyIsFound == \A k \in Keys : At(root, Search(k)).key = k

(* The weights on all paths to a leaf have the same sum, whatever order    *)
(* updates and rebalancing steps come in, and with violations left         *)
(* unrepaired.  With the violations bounded this is what bounds the height.*)
Balanced == EmptyTree \/ Cardinality(PathWeights(root.left.left)) = 1

(* updateRebalancingStep always finds a transformation for a violation it  *)
(* stops at: it never returns false on a quiet tree (fixAllToKey would     *)
(* loop for ever, since nothing changes between its attempts).             *)
StepExists == \A path \in RebalancingPoints : RebalancingStep(path) # RETRY

(* A transformation puts the same leaves, in the same order, under the     *)
(* pointer it swings: rebalancing neither loses nor duplicates a key.      *)
StepKeepsLeaves ==
    \A path \in RebalancingPoints :
        RebalancingStep(path) # RETRY => Leaves(Rebalanced(path).left) = Leaves(root.left)

(* contains and rangeQuery on the version of this tree answer as the set   *)
(* of keys does: the sums added up for whole subtrees, and the routing     *)
(* keys of deleted keys, never make a range count wrong.                   *)
QueriesAnswer ==
    LET version == VersionOf(root)
        keys == Keys
    IN  /\ \A k \in Bound : Contains(k, version) <=> k \in keys
        /\ \A lo, hi \in Bound :
              DoRangeQuery(lo, hi, version) = Cardinality({k \in keys : lo <= k /\ k <= hi})

(* No sequence of transformations, in any order and by any threads, undoes *)
(* itself: a tree that changes for ever has its leaves changed for ever.   *)
(* An operation makes one transformation at most, so many operations       *)
(* repair what one has left; this says that they get done in the end.      *)
NoEndlessRebalancing ==
    []<><<TRUE>>_root => []<><<Leaves(root'.left) # Leaves(root.left)>>_root

(* What the comment on N says (chromatic.h): a search path with more than  *)
(* N violations has everything on it fixed.                                *)
EverythingIsFixed ==
    \A k \in Key :
        Len(Violations(root, k)) > N => Violations(FixAllToKey(k), k) = <<>>
=============================================================================
