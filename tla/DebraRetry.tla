----------------------------- MODULE DebraRetry ----------------------------
(***************************************************************************)
(* How the augmented chromatic tree uses DEBRA.  insert, insertIfAbsent    *)
(* and erase take one guard for the whole operation, but scx itself calls  *)
(* endOp: from the first SCX on, a retry of the update, the rebalancing    *)
(* steps and propagate run while the thread is announced as quiescent.     *)
(* Of these, the retry after a failed SCX is modelled.                     *)
(***************************************************************************)
EXTENDS Debra

(* The SCX of an operation is aborted; scx calls endOp and returns false.  *)
ScxFails(t) ==
  /\ pc[t] = "in" /\ unlinked[t] = {}
  /\ quiescent' = [quiescent EXCEPT ![t] = TRUE]
  /\ announced' = [announced EXCEPT ![t] = local[t]]
  /\ visible' = [visible EXCEPT ![t] = {}]
  /\ startedAt' = [startedAt EXCEPT ![t] = 0]
  /\ Goto(t, "failed")
  /\ UNCHANGED <<epoch, local, checked, opsSinceRead, bagVars, recordVars>>

(* The loop of the operation calls the update again, which walks down from *)
(* the root.                                                               *)
Retry(t) ==
  /\ pc[t] = "failed"
  /\ visible' = [visible EXCEPT ![t] = inUse]
  /\ Goto(t, "again")
  /\ UNCHANGED <<epochVars, bagVars, recordVars, startedAt>>

(* The second attempt ends, and with it the operation.                     *)
EndRetry(t) ==
  /\ pc[t] = "again"
  /\ quiescent' = [quiescent EXCEPT ![t] = TRUE]
  /\ announced' = [announced EXCEPT ![t] = local[t]]
  /\ visible' = [visible EXCEPT ![t] = {}]
  /\ Goto(t, "out")
  /\ UNCHANGED <<epoch, local, checked, opsSinceRead, bagVars, recordVars, startedAt>>

RetryNext == Next \/ \E t \in Tid : ScxFails(t) \/ Retry(t) \/ EndRetry(t)

RetrySpec == Init /\ [][RetryNext]_vars

(* The comment above llx (and those above scx and help): "you may call     *)
(* this only if node is protected by a call to recordmgr->protect".  Under *)
(* DEBRA being protected means that what the operation can reach is not    *)
(* freed under it.                                                         *)
NodesAreProtected == \A t \in Tid : visible[t] \cap free = {}
=============================================================================
