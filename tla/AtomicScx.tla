----------------------------- MODULE AtomicScx -----------------------------
(***************************************************************************)
(* What LLX and SCX promise to the tree code: an update reads the nodes it *)
(* works on, builds the subtree that replaces them and swings one child    *)
(* pointer, and all of that happens in one step.  In particular the copies *)
(* in the new subtree carry the children that the old nodes have at that   *)
(* step, so no change made below them by another thread is lost, and a     *)
(* node that was replaced takes no part in a later update.                 *)
(***************************************************************************)
EXTENDS TreeShape

VARIABLES
  kids,       \* the children of each node that is or was in the tree
  present,    \* nodes that are or were in the tree
  removed     \* nodes that an update took out of the tree

avars == <<kids, present, removed>>

AInit ==
  /\ kids = [n \in Node |-> IF n \in InitNode THEN InitKids[n] ELSE NoKids]
  /\ present = InitNode
  /\ removed = {}

(* Update o at nd, which hangs at side d of nd[1], with the new nodes sp.  *)
Update(o, nd, d, sp) ==
  /\ Cardinality(NewNodes(o, sp)) = NUM_INSERTED[o]
  /\ Applies(o, nd, kids)
  /\ \A i \in 1 .. NUM_OF_NODES[o] : nd[i] \in present \ removed
  /\ kids' = [n \in Node |->
       IF n \in NewNodes(o, sp)
       THEN NewKids(o, sp, kids[nd[3]], kids[nd[4]])[n]
       ELSE IF n = nd[1] THEN [kids[n] EXCEPT ![d] = NewRoot(o, sp)]
                         ELSE kids[n]]
  /\ present' = present \cup NewNodes(o, sp)
  /\ removed' = removed \cup Replaced(o, nd)

(* Some thread's update at side d of u, with the nodes that the step adds. *)
ANext ==
  /\ present \subseteq present' /\ present' \subseteq Node
  /\ \E u \in present, d, e \in Side, sp \in [1 .. 3 -> present' \ present] :
       /\ kids[u][d] # NULL
       /\ LET x == kids[u][d]
              nd == <<u, x, kids[x][e], kids[x][Other(e)]>>
          IN  \E o \in Op : Update(o, nd, d, sp)

ASpec == AInit /\ [][ANext]_avars
=============================================================================
