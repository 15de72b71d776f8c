----------------------------- MODULE MCLlxScx ------------------------------
(* The LLX and SCX model on a tree with two internal nodes below the root. *)
EXTENDS LlxScx

(* 1 -> 2;  2 -> 3, leaf 4;  3 -> leaf 5, leaf 6                           *)
MCInitKids ==
  [n \in 1 .. 6 |-> CASE n = 1 -> Pair(2, NULL)
                      [] n = 2 -> Pair(3, 4)
                      [] n = 3 -> Pair(5, 6)
                      [] OTHER -> NoKids]

(* Every pair of a deletion or rebalancing step and another update, up to  *)
(* the order of the threads, and a deletion against two replacements,      *)
(* which retire the records of earlier updates.                            *)
MCPlans ==
  { << <<{"DEL"}>>, <<{"INS", "DEL", "BLK"}>> >>,
    << <<{"BLK"}>>, <<{"INS", "BLK"}>> >>,
    << <<{"DEL"}>>, <<{"REPLACE"}, {"REPLACE"}>> >> }

(* The updates that freeze the most nodes.                                 *)
MCDeepest == { << <<{"DEL", "BLK"}>>, <<{"DEL", "BLK"}>> >> }
=============================================================================
