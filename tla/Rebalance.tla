----------------------------- MODULE Rebalance -----------------------------
(***************************************************************************)
(* The rebalancing transformations of the chromatic tree (chromatic_impl.h,*)
(* doBlk .. doW7Sym) and the case analysis of updateRebalancingStep that   *)
(* picks one of them.                                                      *)
(*                                                                         *)
(* A node is a value: its key, its weight and its two subtrees.  The code  *)
(* never changes a node's key or weight, and a transformation commits only *)
(* when none of the nodes it looked at has changed since its LLX, so what  *)
(* a transformation computes is a function of the subtree it replaces.     *)
(* Argument ni is the source's nodes[i].  nodes[0] is the parent whose     *)
(* child pointer the SCX swings from nodes[1] to the returned node.        *)
(* Versions are the subject of VersionTree and are left out.               *)
(***************************************************************************)
EXTENDS Integers

NULL == [null |-> TRUE]

(* The reserved key of the sentinels; below every key of the set. *)
NO_KEY == 0

Node(key, weight, left, right) ==
    [key |-> key, weight |-> weight, left |-> left, right |-> right]

IsLeaf(n) == n.left = NULL

IS_SENTINEL(node, parent) == node.key = NO_KEY \/ parent.key = NO_KEY

(* A copy of n with another weight: initializeNode with n's key, value and children. *)
Copy(n, weight) == Node(n.key, weight, n.left, n.right)

-----------------------------------------------------------------------------
(* Transformations for a violation on a left child, and BLK. *)

(* Mutant: the node below the sentinels loses its weight. *)
DoBlkNoSentinel(n0, n1, n2, n3) ==
    Node(n1.key, n1.weight - 1, Copy(n2, 1), Copy(n3, 1))

DoBlk(n0, n1, n2, n3) ==
    Node(n1.key, IF IS_SENTINEL(n1, n0) THEN 1 ELSE n1.weight - 1,
         Copy(n2, 1), Copy(n3, 1))

DoRb1(n1, n2) ==
    Node(n2.key, n1.weight, n2.left, Node(n1.key, 0, n2.right, n1.right))

(* Mutant: the two subtrees of the node that moves up are exchanged. *)
DoRb2Exchanged(n1, n2, n3) ==
    Node(n3.key, n1.weight, Node(n2.key, 0, n2.left, n3.right),
                            Node(n1.key, 0, n3.left, n1.right))

DoRb2(n1, n2, n3) ==
    Node(n3.key, n1.weight, Node(n2.key, 0, n2.left, n3.left),
                            Node(n1.key, 0, n3.right, n1.right))

DoPush(n0, n1, n2, n3) ==
    Node(n1.key, IF IS_SENTINEL(n1, n0) THEN 1 ELSE n1.weight + 1,
         Copy(n2, n2.weight - 1), Copy(n3, 0))

DoW1(n1, n2, n3, n4) ==
    Node(n3.key, n1.weight,
         Node(n1.key, 1, Copy(n2, n2.weight - 1), Copy(n4, n4.weight - 1)),
         n3.right)

DoW2(n1, n2, n3, n4) ==
    Node(n3.key, n1.weight,
         Node(n1.key, 1, Copy(n2, n2.weight - 1), Copy(n4, 0)),
         n3.right)

DoW3(n1, n2, n3, n4, n5) ==
    Node(n3.key, n1.weight,
         Node(n5.key, 0, Node(n1.key, 1, Copy(n2, n2.weight - 1), n5.left),
                         Node(n4.key, 1, n5.right, n4.right)),
         n3.right)

DoW4(n1, n2, n3, n4, n5) ==
    Node(n4.key, n1.weight,
         Node(n1.key, 1, Copy(n2, n2.weight - 1), n4.left),
         Node(n3.key, 0, Copy(n5, 1), n3.right))

DoW5(n1, n2, n3, n4) ==
    Node(n3.key, n1.weight,
         Node(n1.key, 1, Copy(n2, n2.weight - 1), n3.left),
         Copy(n4, 1))

DoW6(n1, n2, n3, n4) ==
    Node(n4.key, n1.weight,
         Node(n1.key, 1, Copy(n2, n2.weight - 1), n4.left),
         Node(n3.key, 1, n4.right, n3.right))

DoW7(n0, n1, n2, n3) ==
    Node(n1.key, IF IS_SENTINEL(n1, n0) THEN 1 ELSE n1.weight + 1,
         Copy(n2, n2.weight - 1), Copy(n3, n3.weight - 1))

-----------------------------------------------------------------------------
(* Their mirror images, which the source writes out a second time. *)

DoRb1Sym(n1, n2) ==
    Node(n2.key, n1.weight, Node(n1.key, 0, n1.left, n2.left), n2.right)

DoRb2Sym(n1, n2, n3) ==
    Node(n3.key, n1.weight, Node(n1.key, 0, n1.left, n3.left),
                            Node(n2.key, 0, n3.right, n2.right))

DoPushSym(n0, n1, n2, n3) ==
    Node(n1.key, IF IS_SENTINEL(n1, n0) THEN 1 ELSE n1.weight + 1,
         Copy(n2, 0), Copy(n3, n3.weight - 1))

DoW1Sym(n1, n2, n3, n4) ==
    Node(n2.key, n1.weight, n2.left,
         Node(n1.key, 1, Copy(n4, n4.weight - 1), Copy(n3, n3.weight - 1)))

DoW2Sym(n1, n2, n3, n4) ==
    Node(n2.key, n1.weight, n2.left,
         Node(n1.key, 1, Copy(n4, 0), Copy(n3, n3.weight - 1)))

DoW3Sym(n1, n2, n3, n4, n5) ==
    Node(n2.key, n1.weight, n2.left,
         Node(n5.key, 0, Node(n4.key, 1, n4.left, n5.left),
                         Node(n1.key, 1, n5.right, Copy(n3, n3.weight - 1))))

DoW4Sym(n1, n2, n3, n4, n5) ==
    Node(n4.key, n1.weight,
         Node(n2.key, 0, n2.left, Copy(n5, 1)),
         Node(n1.key, 1, n4.right, Copy(n3, n3.weight - 1)))

DoW5Sym(n1, n2, n3, n4) ==
    Node(n2.key, n1.weight,
         Copy(n4, 1),
         Node(n1.key, 1, n2.right, Copy(n3, n3.weight - 1)))

DoW6Sym(n1, n2, n3, n4) ==
    Node(n4.key, n1.weight,
         Node(n2.key, 1, n2.left, n4.left),
         Node(n1.key, 1, n4.right, Copy(n3, n3.weight - 1)))

DoW7Sym(n0, n1, n2, n3) ==
    Node(n1.key, IF IS_SENTINEL(n1, n0) THEN 1 ELSE n1.weight + 1,
         Copy(n2, n2.weight - 1), Copy(n3, n3.weight - 1))

-----------------------------------------------------------------------------
(***************************************************************************)
(* The case analysis.  u, uX, uXX, uXXX is the end of the search path.     *)
(* The result is the node that replaces uX (a step on u's child pointer)   *)
(* or uXX (a step on uX's), or RETRY where the code returns false.         *)
(***************************************************************************)
RETRY == [replaces |-> "nothing"]
ReplaceUX(n) == [replaces |-> "uX", by |-> n]
ReplaceUXX(n) == [replaces |-> "uXX", by |-> n]

(* uXXX is the overweight left child of uXX. *)
LeftOverweight(u, uX, uXX, uXXleft) ==
    LET uXXL == uXX.left
        uXXR == uXX.right
        uXXRL == uXXR.left
        uXXRR == uXXR.right
    IN  CASE uXXR.weight = 0 /\ uXX.weight = 0 /\ uXXleft ->
                ReplaceUX(IF uX.right.weight = 0 THEN DoBlk(u, uX, uXX, uX.right)
                                                 ELSE DoRb2(uX, uXX, uXXR))
          [] uXXR.weight = 0 /\ uXX.weight = 0 /\ ~uXXleft ->
                ReplaceUX(IF uX.left.weight = 0 THEN DoBlk(u, uX, uX.left, uXX)
                                                ELSE DoRb1Sym(uX, uXX))
          [] uXXR.weight = 0 /\ uXX.weight > 0 ->
                IF uXXRL.weight > 1 THEN ReplaceUXX(DoW1(uXX, uXXL, uXXR, uXXRL))
                ELSE IF uXXRL.weight = 0 THEN ReplaceUXX(DoRb2Sym(uXX, uXXR, uXXRL))
                ELSE IF IsLeaf(uXXRL) THEN RETRY
                ELSE ReplaceUXX(
                       IF uXXRL.right.weight = 0
                       THEN DoW4(uXX, uXXL, uXXR, uXXRL, uXXRL.right)
                       ELSE IF uXXRL.left.weight = 0
                       THEN DoW3(uXX, uXXL, uXXR, uXXRL, uXXRL.left)
                       ELSE DoW2(uXX, uXXL, uXXR, uXXRL))
          [] uXXR.weight = 1 /\ IsLeaf(uXXR) -> RETRY
          [] uXXR.weight = 1 /\ ~IsLeaf(uXXR) ->
                ReplaceUXX(IF uXXRR.weight = 0 THEN DoW5(uXX, uXXL, uXXR, uXXRR)
                           ELSE IF uXXRL.weight = 0 THEN DoW6(uXX, uXXL, uXXR, uXXRL)
                           ELSE DoPush(uX, uXX, uXXL, uXXR))
          [] OTHER -> ReplaceUXX(DoW7(uX, uXX, uXXL, uXXR))

(* uXXX is the overweight right child of uXX. *)
RightOverweight(u, uX, uXX, uXXleft) ==
    LET uXXL == uXX.left
        uXXR == uXX.right
        uXXLL == uXXL.left
        uXXLR == uXXL.right
    IN  CASE uXXL.weight = 0 /\ uXX.weight = 0 /\ ~uXXleft ->
                ReplaceUX(IF uX.left.weight = 0 THEN DoBlk(u, uX, uX.left, uXX)
                                                ELSE DoRb2Sym(uX, uXX, uXXL))
          [] uXXL.weight = 0 /\ uXX.weight = 0 /\ uXXleft ->
                ReplaceUX(IF uX.right.weight = 0 THEN DoBlk(u, uX, uXX, uX.right)
                                                 ELSE DoRb1(uX, uXX))
          [] uXXL.weight = 0 /\ uXX.weight > 0 ->
                IF uXXLR.weight > 1 THEN ReplaceUXX(DoW1Sym(uXX, uXXL, uXXR, uXXLR))
                ELSE IF uXXLR.weight = 0 THEN ReplaceUXX(DoRb2(uXX, uXXL, uXXLR))
                ELSE IF IsLeaf(uXXLR) THEN RETRY
                ELSE ReplaceUXX(
                       IF uXXLR.left.weight = 0
                       THEN DoW4Sym(uXX, uXXL, uXXR, uXXLR, uXXLR.left)
                       ELSE IF uXXLR.right.weight = 0
                       THEN DoW3Sym(uXX, uXXL, uXXR, uXXLR, uXXLR.right)
                       ELSE DoW2Sym(uXX, uXXL, uXXR, uXXLR))
          [] uXXL.weight = 1 /\ IsLeaf(uXXL) -> RETRY
          [] uXXL.weight = 1 /\ ~IsLeaf(uXXL) ->
                ReplaceUXX(IF uXXLL.weight = 0 THEN DoW5Sym(uXX, uXXL, uXXR, uXXLL)
                           ELSE IF uXXLR.weight = 0 THEN DoW6Sym(uXX, uXXL, uXXR, uXXLR)
                           ELSE DoPushSym(uX, uXX, uXXL, uXXR))
          [] OTHER -> ReplaceUXX(DoW7Sym(uX, uXX, uXXL, uXXR))

(* Mutant: a single rotation also where uXXX is an inner grandchild. *)
RedRedSingle(u, uX, uXX, uXXleft, uXXXleft) ==
    ReplaceUX(
        IF uXXleft
        THEN IF uX.right.weight = 0 THEN DoBlk(u, uX, uXX, uX.right) ELSE DoRb1(uX, uXX)
        ELSE IF uX.left.weight = 0 THEN DoBlk(u, uX, uX.left, uXX) ELSE DoRb1Sym(uX, uXX))

(* uXXX is not overweight: it and uXX are red. *)
RedRed(u, uX, uXX, uXXleft, uXXXleft) ==
    ReplaceUX(
        IF uXXleft
        THEN IF uX.right.weight = 0 THEN DoBlk(u, uX, uXX, uX.right)
             ELSE IF uXXXleft THEN DoRb1(uX, uXX)
             ELSE DoRb2(uX, uXX, uXX.right)
        ELSE IF uX.left.weight = 0 THEN DoBlk(u, uX, uX.left, uXX)
             ELSE IF ~uXXXleft THEN DoRb1Sym(uX, uXX)
             ELSE DoRb2Sym(uX, uXX, uXX.left))

Dispatch(u, uX, uXX, uXXX, uXXleft, uXXXleft) ==
    CASE uXXX.weight > 1 /\ uXXXleft -> LeftOverweight(u, uX, uXX, uXXleft)
      [] uXXX.weight > 1 /\ ~uXXXleft -> RightOverweight(u, uX, uXX, uXXleft)
      [] OTHER -> RedRed(u, uX, uXX, uXXleft, uXXXleft)
=============================================================================
