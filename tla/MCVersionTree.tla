--------------------------- MODULE MCVersionTree ---------------------------
(***************************************************************************)
(* Initial trees and workloads for checking VersionTree with TLC.          *)
(***************************************************************************)
EXTENDS VersionTree

None == Pair(NULL, NULL)

(* Sentinels 1, 2 and 4 above the keys 10 and 20.                          *)
MCInitKey == <<0, 0, 20, 0, 10, 20>>
MCInitKids == <<Pair(2, NULL), Pair(3, 4), Pair(5, 6), None, None, None>>

Op(kind, k) == [kind |-> kind, key |-> k]

(* Two threads, on neighbouring keys or on the same key; the first may     *)
(* rebalance.                                                              *)
Once == <<1, 1>>
FirstFixes == {1}
MCNeighbours ==
  <<{Op("INSERT_IF_ABSENT", 15)},
    {Op("ERASE", 20), Op("INSERT", 10), Op("ERASE", 15)}>>

(* The second thread leaves nodes without versions behind.                 *)
SecondFixes == {2}
MCHelp == <<{Op("INSERT_IF_ABSENT", 15)}, {Op("INSERT_IF_ABSENT", 25)}>>

(* A tree of one key, which may become empty, and a second thread that     *)
(* performs two operations.                                                *)
MCSmallKey == <<0, 0, 10, 0>>
MCSmallKids == <<Pair(2, NULL), Pair(3, 4), None, None>>
Twice == <<1, 2>>
NoFix == {}
MCContention ==
  <<{Op("INSERT_IF_ABSENT", 20), Op("ERASE", 10)},
    {Op("INSERT", 20), Op("ERASE", 20), Op("INSERT_IF_ABSENT", 5), Op("ERASE", 10)}>>
=============================================================================
