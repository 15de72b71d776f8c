--------------------------- MODULE VersionQueries ---------------------------
(***************************************************************************)
(* The queries that read one version of the tree: contains, rangeQuery     *)
(* (chromatic_impl.h).  Versions are immutable, so a query is a function   *)
(* of the version that root's version pointer held when it began.          *)
(*                                                                         *)
(* A version is a value: key, sum and the versions of the two children.    *)
(* VersionOf gives the version that refresh builds over a subtree when     *)
(* nothing changes behind it.                                              *)
(***************************************************************************)
EXTENDS Rebalance

Version(key, sum, left, right) ==
    [key |-> key, sum |-> sum, left |-> left, right |-> right]

(* A sentinel leaf counts 0 when the constructor or updateInsert made it,  *)
(* and 1 when updateErase copied it; it then is root's only leaf, and no   *)
(* query below reads its sum.                                              *)
RECURSIVE VersionOf(_)
VersionOf(n) ==
    IF n = NULL THEN NULL
    ELSE IF IsLeaf(n) THEN Version(n.key, IF n.key = NO_KEY THEN 0 ELSE 1, NULL, NULL)
    ELSE LET l == VersionOf(n.left)
             r == VersionOf(n.right)
         IN  Version(n.key, l.sum + (IF r = NULL THEN 0 ELSE r.sum), l, r)

RECURSIVE Contains(_, _)
Contains(key, l) ==
    IF l.left = NULL THEN key = l.key
    ELSE IF l.key = NO_KEY \/ key < l.key THEN Contains(key, l.left)
    ELSE Contains(key, l.right)

(* Mutant: a <= b. *)
CompareKeysInclusive(a, aIsLo, b, bIsLo) ==
    IF a = NO_KEY THEN aIsLo ELSE IF b = NO_KEY THEN ~bIsLo ELSE a <= b

(* a < b, where NO_KEY stands for an absent bound. *)
CompareKeys(a, aIsLo, b, bIsLo) ==
    IF a = NO_KEY THEN aIsLo ELSE IF b = NO_KEY THEN ~bIsLo ELSE a < b

RECURSIVE DoRangeQuery(_, _, _)
DoRangeQuery(lo, hi, curr) ==
    CASE lo = NO_KEY /\ hi = NO_KEY -> curr.sum
      [] ~(lo = NO_KEY /\ hi = NO_KEY) /\ curr.left = NULL ->
            IF /\ curr.key # NO_KEY
               /\ ~CompareKeys(curr.key, FALSE, lo, TRUE)
               /\ ~CompareKeys(hi, FALSE, curr.key, FALSE)
            THEN 1 ELSE 0
      [] OTHER ->
            IF curr.key = NO_KEY \/ CompareKeys(hi, FALSE, curr.key, FALSE)
            THEN DoRangeQuery(lo, hi, curr.left)
            ELSE IF CompareKeys(curr.key, FALSE, lo, TRUE)
            THEN DoRangeQuery(lo, hi, curr.right)
            ELSE DoRangeQuery(lo, NO_KEY, curr.left) + DoRangeQuery(NO_KEY, hi, curr.right)
=============================================================================
