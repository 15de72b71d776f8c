---------------------------- MODULE DebraProofs ----------------------------
(***************************************************************************)
(* Proofs, for every number of threads, every set of records and every     *)
(* MIN_OPS_BEFORE_READ, that DEBRA never frees a record which an operation *)
(* under way may still reach.                                              *)
(***************************************************************************)
EXTENDS Debra, TLAPS

(* More time for a leaf than the default, which depends on the machine.    *)
USE SMTT(30), ZenonT(30)

-----------------------------------------------------------------------------
(* The inductive invariant.  The quiescent bit says where a thread is, and *)
(* checked is below NUM_PROCESSES from startOp's read of the epoch until   *)
(* the scan.                                                               *)
Phase(t) ==
  /\ quiescent[t] <=> pc[t] \in {"out", "rotate", "announce"}
  /\ local[t] = NoEpoch => pc[t] = "out"
  /\ pc[t] \in {"rotate", "announce", "scan"} => checked[t] < NUM_PROCESSES
  /\ pc[t] = "cas" => checked[t] = NUM_PROCESSES
  /\ checked[t] = NUM_PROCESSES => pc[t] = "cas" \/ local[t] < epoch

PhaseInv == \A t \in Tid : Phase(t)

(* No thread is ahead of the epoch; an operation's announcement is the     *)
(* epoch it read, which may be older than the one it announced itself in.  *)
EpochInv ==
  /\ \A t \in Tid : local[t] <= epoch
  /\ \A t \in Tid : ~quiescent[t] => /\ announced[t] = local[t]
                                     /\ local[t] <= startedAt[t]
                                     /\ startedAt[t] <= epoch
  /\ \A r \in Record : unlinkedAt[r] <= epoch

(* What a scan has established stays true: the operations of the threads   *)
(* that w has checked started in w's epoch or later.                       *)
CheckedInv ==
  \A w, i \in Tid : i < checked[w] /\ ~quiescent[i] => local[w] <= startedAt[i]

(* A record is in the tree, or free, or unlinked by one thread and not yet *)
(* retired, or in one bag of one thread.                                   *)
OwnerInv ==
  \A r \in Record :
    /\ ~ (r \in inUse /\ r \in free)
    /\ \A t \in Tid : r \in unlinked[t] =>
         /\ r \notin inUse /\ r \notin free
         /\ \A u \in Tid : r \in unlinked[u] => u = t
         /\ \A u \in Tid, b \in Bag : r \notin epochbags[u][b]
    /\ \A t \in Tid, b \in Bag : r \in epochbags[t][b] =>
         /\ r \notin inUse /\ r \notin free
         /\ \A u \in Tid, c \in Bag : r \in epochbags[u][c] => u = t /\ c = b

(* An operation can reach a record that is out of the tree only if the     *)
(* record was unlinked after the operation started.                        *)
VisibleInv ==
  \A t \in Tid : \A r \in visible[t] :
    /\ ~quiescent[t]
    /\ r \notin inUse => startedAt[t] <= unlinkedAt[r]

(* The number of rotations since bag b of thread t was the current one.    *)
Age(t, b) == IF b <= index[t] THEN index[t] - b
                              ELSE index[t] - b + NUMBER_OF_EPOCH_BAGS

(* Each rotation but the first one follows a new epoch.                    *)
BagInv ==
  \A t \in Tid, b \in Bag : \A r \in epochbags[t][b] :
    /\ pc[t] = "rotate" => unlinkedAt[r] + Age(t, b) <= local[t]
    /\ pc[t] # "rotate" /\ b # index[t] => unlinkedAt[r] + Age(t, b) - 1 <= local[t]

IInv ==
  /\ TypeOK /\ PhaseInv /\ EpochInv /\ CheckedInv /\ EpochLag
  /\ OwnerInv /\ VisibleInv /\ BagInv /\ NoUseAfterFree

-----------------------------------------------------------------------------
(* The index of the next bag, and of the bag that rotateEpochBags frees.   *)
LEMMA NextBag ==
  ASSUME NEW i \in Bag
  PROVE  /\ (i + 1) % 9 = IF i = 8 THEN 0 ELSE i + 1
         /\ (((i + 1) % 9) + 3) % 9 = IF i <= 4 THEN i + 4 ELSE i - 5
  BY DEF Bag, NUMBER_OF_EPOCH_BAGS

(* Every step is a step of one thread, or changes nothing.                 *)
LEMMA NextCases ==
  ASSUME [Next]_vars
  PROVE  \/ \E t \in Tid :
              \/ ReadEpoch(t) \/ RotateEpochBags(t) \/ Announce(t)
              \/ Scan(t) \/ AdvanceEpoch(t) \/ EndOp(t)
              \/ \E r \in Record : Link(t, r)
              \/ \E c \in Tid, r \in Record : Unlink(t, c, r)
              \/ \E r \in Record : Retire(t, r)
         \/ UNCHANGED vars
  BY DEF Next, Operation, Finish

(* The components of a thread's state, for the arithmetic below.           *)
LEMMA Types ==
  ASSUME TypeOK, NEW t \in Tid
  PROVE  /\ epoch \in Nat /\ local[t] \in Nat \cup {-1} /\ local[t] \in Int
         /\ checked[t] \in Nat /\ checked[t] <= NUM_PROCESSES
         /\ NUM_PROCESSES \in Nat /\ 0 < NUM_PROCESSES
         /\ startedAt[t] \in Nat /\ announced[t] \in Nat /\ quiescent[t] \in BOOLEAN
         /\ t \in Nat /\ t < NUM_PROCESSES
<1>1. checked[t] \in 0 .. NUM_PROCESSES
  BY DEF TypeOK
<1> QED
  BY <1>1, DebraAssumption DEF TypeOK, NoEpoch, Tid

(* Type correctness: every step of every thread keeps each variable in its *)
(* range; the bound on checked is where the scan needs PhaseInv.           *)
LEMMA TypeStep ==
  ASSUME TypeOK, PhaseInv, [Next]_vars
  PROVE  TypeOK'
<1>1. ASSUME NEW t \in Tid, ReadEpoch(t)  PROVE TypeOK'
  <2>0. local' \in [Tid -> Nat \cup {NoEpoch}]
    BY <1>1 DEF TypeOK, ReadEpoch
  <2>1. checked' \in [Tid -> 0 .. NUM_PROCESSES]
    <3>1. 0 \in 0 .. NUM_PROCESSES
      BY DebraAssumption
    <3>2. checked' = checked \/ checked' = [checked EXCEPT ![t] = 0]
      BY <1>1 DEF ReadEpoch
    <3> QED  BY <3>1, <3>2 DEF TypeOK
  <2>2. pc' \in [Tid -> {"out", "rotate", "announce", "scan", "cas", "in"}]
    BY <1>1 DEF TypeOK, ReadEpoch, Goto
  <2> QED
    BY <1>1, <2>0, <2>1, <2>2 DEF TypeOK, ReadEpoch, recordVars, bagVars, opVars
<1>2. ASSUME NEW t \in Tid, RotateEpochBags(t)  PROVE TypeOK'
  <2>1. index[t] \in Bag /\ (index[t] + 1) % 9 \in Bag
        /\ (((index[t] + 1) % 9) + 3) % 9 \in Bag
    BY NextBag DEF TypeOK, Bag, NUMBER_OF_EPOCH_BAGS
  <2>2. index' \in [Tid -> Bag]
    BY <1>2, <2>1 DEF TypeOK, RotateEpochBags, NUMBER_OF_EPOCH_BAGS
  <2>3. epochbags' \in [Tid -> [Bag -> SUBSET Record]] /\ free' \subseteq Record
    BY <1>2, <2>1 DEF TypeOK, RotateEpochBags, NUMBER_OF_EPOCH_BAGS,
         NUMBER_OF_ALWAYS_EMPTY_EPOCH_BAGS
  <2>4. pc' \in [Tid -> {"out", "rotate", "announce", "scan", "cas", "in"}]
    BY <1>2 DEF TypeOK, RotateEpochBags, Goto
  <2> QED
    BY <1>2, <2>2, <2>3, <2>4 DEF TypeOK, RotateEpochBags, epochVars, opVars
<1>3. ASSUME NEW t \in Tid, Announce(t)  PROVE TypeOK'
  <2>1. announced' \in [Tid -> Nat]
    BY <1>3 DEF TypeOK, PhaseInv, Phase, Announce, NoEpoch
  <2>2. opsSinceRead' \in [Tid -> 0 .. MIN_OPS_BEFORE_READ - 1]
    <3>1. CASE opsSinceRead[t] + 1 = MIN_OPS_BEFORE_READ
      <4>1. opsSinceRead' = [opsSinceRead EXCEPT ![t] = 0]
        BY <1>3, <3>1 DEF Announce
      <4>2. 0 \in 0 .. MIN_OPS_BEFORE_READ - 1
        BY DebraAssumption
      <4> QED  BY <4>1, <4>2 DEF TypeOK
    <3>2. CASE opsSinceRead[t] + 1 # MIN_OPS_BEFORE_READ
      <4>1. opsSinceRead' = [opsSinceRead EXCEPT ![t] = opsSinceRead[t] + 1]
        BY <1>3, <3>2 DEF Announce
      <4>2. opsSinceRead[t] + 1 \in 0 .. MIN_OPS_BEFORE_READ - 1
        <5>1. opsSinceRead[t] \in 0 .. MIN_OPS_BEFORE_READ - 1
          BY DEF TypeOK
        <5> QED  BY <5>1, <3>2, DebraAssumption
      <4> QED  BY <4>1, <4>2 DEF TypeOK
    <3> QED  BY <3>1, <3>2
  <2>3. pc' \in [Tid -> {"out", "rotate", "announce", "scan", "cas", "in"}]
    BY <1>3 DEF TypeOK, Announce, Goto
  <2> QED
    BY <1>3, <2>1, <2>2, <2>3 DEF TypeOK, Announce, recordVars, bagVars
<1>4. ASSUME NEW t \in Tid, Scan(t)  PROVE TypeOK'
  <2>1. checked' \in [Tid -> 0 .. NUM_PROCESSES]
    BY <1>4, DebraAssumption DEF TypeOK, PhaseInv, Phase, Scan
  <2>2. pc' \in [Tid -> {"out", "rotate", "announce", "scan", "cas", "in"}]
    BY <1>4 DEF TypeOK, Scan, Goto
  <2> QED
    BY <1>4, <2>1, <2>2 DEF TypeOK, Scan, recordVars, bagVars, opVars
<1>5. ASSUME NEW t \in Tid, AdvanceEpoch(t)  PROVE TypeOK'
  BY <1>5 DEF TypeOK, AdvanceEpoch, Goto, recordVars, bagVars, opVars
<1>6. ASSUME NEW t \in Tid, EndOp(t)  PROVE TypeOK'
  BY <1>6 DEF TypeOK, EndOp, Goto, recordVars, bagVars, PhaseInv, Phase, NoEpoch
<1>7. ASSUME NEW t \in Tid, NEW r \in Record, Link(t, r)  PROVE TypeOK'
  BY <1>7 DEF TypeOK, Link, epochVars, bagVars
<1>8. ASSUME NEW t \in Tid, NEW c \in Tid, NEW r \in Record, Unlink(t, c, r)  PROVE TypeOK'
  BY <1>8 DEF TypeOK, Unlink, epochVars, bagVars, opVars
<1>9. ASSUME NEW t \in Tid, NEW r \in Record, Retire(t, r)  PROVE TypeOK'
  BY <1>9 DEF TypeOK, Retire, epochVars, opVars
<1>10. CASE UNCHANGED vars
  BY <1>10 DEF TypeOK, vars, epochVars, bagVars, recordVars, opVars
<1> QED
  BY <1>1, <1>2, <1>3, <1>4, <1>5, <1>6, <1>7, <1>8, <1>9, <1>10, NextCases

-----------------------------------------------------------------------------
(* startOp resets checked exactly when the epoch has moved on, so a scan   *)
(* never looks past the last thread.                                       *)
LEMMA PhaseStep ==
  ASSUME TypeOK, TypeOK', PhaseInv, EpochInv, [Next]_vars
  PROVE  PhaseInv'
<1> SUFFICES ASSUME NEW u \in Tid  PROVE Phase(u)'
  BY DEF PhaseInv
<1>0. Phase(u) /\ local[u] <= epoch
  BY DEF PhaseInv, EpochInv
<1> USE Types DEF Phase
<1>1. ASSUME NEW t \in Tid, ReadEpoch(t)  PROVE Phase(u)'
  <2>1. CASE u = t
    <3>1. local'[t] = epoch /\ epoch' = epoch /\ quiescent' = quiescent /\ pc[t] = "out"
      BY <1>1 DEF TypeOK, ReadEpoch
    <3>2. CASE epoch # local[t]
      <4>1. checked'[t] = 0 /\ pc'[t] = "rotate"
        BY <1>1, <3>2 DEF TypeOK, ReadEpoch, Goto
      <4> QED  BY <1>0, <2>1, <3>1, <4>1 DEF NoEpoch
    <3>3. CASE epoch = local[t]
      <4>1. checked'[t] = checked[t] /\ pc'[t] = "announce"
        BY <1>1, <3>3 DEF TypeOK, ReadEpoch, Goto
      <4> QED  BY <1>0, <2>1, <3>1, <3>3, <4>1 DEF NoEpoch
    <3> QED  BY <3>2, <3>3
  <2>2. CASE u # t
    BY <1>0, <1>1, <2>2 DEF TypeOK, ReadEpoch, Goto
  <2> QED  BY <2>1, <2>2
<1>2. ASSUME NEW t \in Tid, RotateEpochBags(t)  PROVE Phase(u)'
  BY <1>0, <1>2 DEF TypeOK, RotateEpochBags, Goto, epochVars
<1>3. ASSUME NEW t \in Tid, Announce(t)  PROVE Phase(u)'
  BY <1>0, <1>3 DEF TypeOK, Announce, Goto
<1>4. ASSUME NEW t \in Tid, Scan(t)  PROVE Phase(u)'
  <2>1. CASE u = t
    <3>1. /\ pc[t] = "scan" /\ checked[t] < NUM_PROCESSES
          /\ UNCHANGED <<quiescent, local, epoch>>
      BY <1>0, <1>4, <2>1 DEF Scan
    <3>2. \/ checked' = checked /\ Goto(t, "in")
          \/ /\ checked' = [checked EXCEPT ![t] = checked[t] + 1]
             /\ Goto(t, IF checked[t] + 1 >= NUM_PROCESSES THEN "cas" ELSE "in")
      BY <1>4 DEF Scan
    <3>3. \/ checked'[t] = checked[t] /\ pc'[t] = "in"
          \/ /\ checked'[t] = checked[t] + 1
             /\ pc'[t] = IF checked[t] + 1 >= NUM_PROCESSES THEN "cas" ELSE "in"
      BY <3>2 DEF TypeOK, Goto
    <3> QED  BY <1>0, <2>1, <3>1, <3>3
  <2>2. CASE u # t
    BY <1>0, <1>4, <2>2 DEF TypeOK, Scan, Goto
  <2> QED  BY <2>1, <2>2
<1>5. ASSUME NEW t \in Tid, AdvanceEpoch(t)  PROVE Phase(u)'
  <2>1. CASE u = t
    <3>1. /\ pc[t] = "cas" /\ pc'[t] = "in"
          /\ quiescent' = quiescent /\ local' = local /\ checked' = checked
      BY <1>5 DEF TypeOK, AdvanceEpoch, Goto
    <3>2. local[u] < epoch'
      <4>1. epoch' = IF epoch = local[u] THEN epoch + 1 ELSE epoch
        BY <1>5, <2>1 DEF AdvanceEpoch
      <4>2. local[u] \in Int /\ epoch \in Int
        BY DEF TypeOK, NoEpoch
      <4> QED  BY <1>0, <4>1, <4>2
    <3> QED  BY <1>0, <2>1, <3>1, <3>2
  <2>2. CASE u # t
    BY <1>0, <1>5, <2>2 DEF TypeOK, AdvanceEpoch, Goto
  <2> QED  BY <2>1, <2>2
<1>6. ASSUME NEW t \in Tid, EndOp(t)  PROVE Phase(u)'
  BY <1>0, <1>6 DEF TypeOK, EndOp, Goto
<1>7. CASE UNCHANGED <<epochVars, pc>>
  BY <1>0, <1>7 DEF epochVars
<1> QED
  BY <1>1, <1>2, <1>3, <1>4, <1>5, <1>6, <1>7, NextCases
    DEF Link, Unlink, Retire, vars

(* No thread is ahead of the global epoch, which only grows.               *)
LEMMA EpochStep ==
  ASSUME TypeOK, TypeOK', PhaseInv, EpochInv, [Next]_vars
  PROVE  EpochInv'
<1>1. ASSUME NEW t \in Tid, ReadEpoch(t)  PROVE EpochInv'
  BY <1>1 DEF TypeOK, PhaseInv, Phase, EpochInv, ReadEpoch, recordVars, opVars
<1>2. ASSUME NEW t \in Tid, Announce(t)  PROVE EpochInv'
  BY <1>2 DEF TypeOK, EpochInv, Announce, recordVars
<1>3. ASSUME NEW t \in Tid, AdvanceEpoch(t)  PROVE EpochInv'
  <2>1. epoch <= epoch' /\ epoch' \in Nat
    BY <1>3 DEF TypeOK, AdvanceEpoch
  <2> QED
    <3>1. UNCHANGED <<announced, quiescent, local, startedAt, unlinkedAt>>
      BY <1>3 DEF AdvanceEpoch, recordVars, opVars
    <3>2. \A i \in Tid : local[i] <= epoch'
      BY <2>1, Types DEF EpochInv
    <3>3. \A i \in Tid : ~quiescent[i] => startedAt[i] <= epoch'
      BY <2>1, Types DEF EpochInv
    <3>4. \A r \in Record : unlinkedAt[r] <= epoch'
      BY <2>1 DEF EpochInv, TypeOK
    <3> QED  BY <3>1, <3>2, <3>3, <3>4 DEF EpochInv
<1>4. ASSUME NEW t \in Tid, EndOp(t)  PROVE EpochInv'
  BY <1>4 DEF TypeOK, EpochInv, EndOp, recordVars
<1>5. ASSUME NEW t \in Tid, NEW c \in Tid, NEW r \in Record, Unlink(t, c, r)  PROVE EpochInv'
  BY <1>5 DEF TypeOK, EpochInv, Unlink, epochVars, opVars
<1>6. CASE UNCHANGED <<epoch, announced, quiescent, local, startedAt, unlinkedAt>>
  BY <1>6 DEF EpochInv
<1> QED
  BY <1>1, <1>2, <1>3, <1>4, <1>5, <1>6, NextCases
    DEF RotateEpochBags, Scan, Link, Retire, vars, epochVars, recordVars, opVars

(* A thread announces itself in the present epoch, which is at least that  *)
(* of any thread that has checked it; a scan that finds it in the middle   *)
(* of an operation compares its announcement.                              *)
LEMMA CheckedStep ==
  ASSUME TypeOK, TypeOK', PhaseInv, EpochInv, CheckedInv, [Next]_vars
  PROVE  CheckedInv'
<1>1. ASSUME NEW t \in Tid, ReadEpoch(t)  PROVE CheckedInv'
  <2>1. CASE epoch # local[t]
    BY <1>1, <2>1 DEF TypeOK, CheckedInv, ReadEpoch, opVars, Tid
  <2>2. CASE epoch = local[t]
    BY <1>1, <2>2 DEF TypeOK, CheckedInv, ReadEpoch, opVars
  <2> QED  BY <2>1, <2>2
<1>2. ASSUME NEW t \in Tid, Announce(t)  PROVE CheckedInv'
  <2> SUFFICES ASSUME NEW w \in Tid, NEW i \in Tid, i < checked[w], ~quiescent'[i]
               PROVE  local[w] <= startedAt'[i]
    BY <1>2 DEF CheckedInv, Announce
  <2>1. CASE i = t
    BY <1>2, <2>1 DEF TypeOK, EpochInv, Announce
  <2>2. CASE i # t
    BY <1>2, <2>2 DEF TypeOK, CheckedInv, Announce
  <2> QED  BY <2>1, <2>2
<1>3. ASSUME NEW t \in Tid, Scan(t)  PROVE CheckedInv'
  <2>1. CASE checked' = checked
    BY <1>3, <2>1 DEF CheckedInv, Scan, opVars
  <2>2. CASE /\ checked' = [checked EXCEPT ![t] = checked[t] + 1]
             /\ announced[checked[t]] = local[t] \/ quiescent[checked[t]]
    <3> SUFFICES ASSUME NEW w \in Tid, NEW i \in Tid, i < checked'[w], ~quiescent[i]
                 PROVE  local[w] <= startedAt[i]
      BY <1>3 DEF CheckedInv, Scan, opVars
    <3>1. CASE w = t /\ i = checked[t]
      BY <2>2, <3>1 DEF EpochInv
    <3>2. CASE i < checked[w]
      BY <3>2 DEF CheckedInv
    <3>3. i < checked[w] \/ (w = t /\ i = checked[t])
      <4>1. checked'[w] = IF w = t THEN checked[t] + 1 ELSE checked[w]
        BY <2>2 DEF TypeOK
      <4> QED  BY <4>1, Types
    <3> QED  BY <3>1, <3>2, <3>3
  <2> QED  BY <1>3, <2>1, <2>2 DEF Scan
<1>4. ASSUME NEW t \in Tid, EndOp(t)  PROVE CheckedInv'
  BY <1>4 DEF TypeOK, CheckedInv, EndOp
<1>5. CASE UNCHANGED <<quiescent, local, checked, startedAt>>
  BY <1>5 DEF CheckedInv
<1> QED
  BY <1>1, <1>2, <1>3, <1>4, <1>5, NextCases
    DEF RotateEpochBags, AdvanceEpoch, Link, Unlink, Retire, vars, epochVars, opVars

(* The epoch advances only when all threads were checked in it.            *)
LEMMA LagStep ==
  ASSUME TypeOK, TypeOK', PhaseInv, EpochInv, CheckedInv, EpochLag, [Next]_vars
  PROVE  EpochLag'
<1>1. ASSUME NEW t \in Tid, Announce(t)  PROVE EpochLag'
  <2> SUFFICES ASSUME NEW i \in Tid, ~quiescent'[i]
               PROVE  epoch <= startedAt'[i] + 1
    BY <1>1 DEF EpochLag, Announce
  <2>1. CASE i = t
    BY <1>1, <2>1 DEF TypeOK, Announce
  <2>2. CASE i # t
    BY <1>1, <2>2 DEF TypeOK, EpochLag, Announce
  <2> QED  BY <2>1, <2>2
<1>2. ASSUME NEW t \in Tid, AdvanceEpoch(t)  PROVE EpochLag'
  <2>1. checked[t] = NUM_PROCESSES
    BY <1>2 DEF PhaseInv, Phase, AdvanceEpoch
  <2>2. \A i \in Tid : ~quiescent[i] => local[t] <= startedAt[i]
    BY <2>1, DebraAssumption DEF CheckedInv, Tid
  <2> QED
    BY <1>2, <2>2 DEF TypeOK, EpochLag, AdvanceEpoch, opVars
<1>3. ASSUME NEW t \in Tid, EndOp(t)  PROVE EpochLag'
  BY <1>3 DEF TypeOK, EpochLag, EndOp
<1>4. CASE UNCHANGED <<epoch, quiescent, startedAt>>
  BY <1>4 DEF EpochLag
<1> QED
  BY <1>1, <1>2, <1>3, <1>4, NextCases
    DEF ReadEpoch, RotateEpochBags, Scan, Link, Unlink, Retire, vars, epochVars, opVars

-----------------------------------------------------------------------------
(* Records move from the allocator to the tree, to the thread whose update *)
(* unlinks them, to the current bag of that thread, and back.              *)
LEMMA OwnerStep ==
  ASSUME TypeOK, TypeOK', OwnerInv, [Next]_vars
  PROVE  OwnerInv'
<1>1. ASSUME NEW t \in Tid, RotateEpochBags(t)  PROVE OwnerInv'
  <2>1. PICK f \in Bag : \E full \in SUBSET epochbags[t][f] :
                           /\ free' = free \cup full
                           /\ epochbags' = [epochbags EXCEPT ![t][f] = @ \ full]
    <3>0. index[t] \in Bag
      BY DEF TypeOK
    <3>1. (((index[t] + 1) % 9) + 3) % 9 \in Bag
      BY <3>0, NextBag DEF Bag, NUMBER_OF_EPOCH_BAGS
    <3> QED
      BY <1>1, <3>1 DEF RotateEpochBags, NUMBER_OF_EPOCH_BAGS,
           NUMBER_OF_ALWAYS_EMPTY_EPOCH_BAGS
  <2>2. PICK full \in SUBSET epochbags[t][f] :
              /\ free' = free \cup full
              /\ epochbags' = [epochbags EXCEPT ![t][f] = @ \ full]
    BY <2>1
  <2>3. \A u \in Tid, c \in Bag :
          epochbags'[u][c] = IF u = t /\ c = f THEN epochbags[t][f] \ full
                                               ELSE epochbags[u][c]
    BY <2>2 DEF TypeOK
  <2>4. inUse' = inUse /\ unlinked' = unlinked
    BY <1>1 DEF RotateEpochBags
  <2> QED
    BY <2>2, <2>3, <2>4 DEF OwnerInv
<1>2. ASSUME NEW t \in Tid, NEW q \in Record, Link(t, q)  PROVE OwnerInv'
  BY <1>2 DEF OwnerInv, Link, bagVars
<1>3. ASSUME NEW t \in Tid, NEW c \in Tid, NEW q \in Record, Unlink(t, c, q)  PROVE OwnerInv'
  <2>1. \A u \in Tid : unlinked'[u] = IF u = c THEN unlinked[c] \cup {q} ELSE unlinked[u]
    BY <1>3 DEF Unlink, TypeOK
  <2> QED
    BY <1>3, <2>1 DEF OwnerInv, Unlink, bagVars
<1>4. ASSUME NEW t \in Tid, NEW q \in Record, Retire(t, q)  PROVE OwnerInv'
  <2>1. \A u \in Tid : unlinked'[u] = IF u = t THEN unlinked[t] \ {q} ELSE unlinked[u]
    BY <1>4 DEF Retire, TypeOK
  <2>2. \A u \in Tid, c \in Bag :
          epochbags'[u][c] = IF u = t /\ c = index[t] THEN epochbags[t][c] \cup {q}
                                                     ELSE epochbags[u][c]
    BY <1>4 DEF Retire, TypeOK
  <2>3. q \in unlinked[t] /\ inUse' = inUse /\ free' = free /\ index[t] \in Bag
    BY <1>4 DEF Retire, TypeOK
  <2>4. /\ q \notin inUse /\ q \notin free
        /\ \A u \in Tid : q \notin unlinked'[u]
        /\ \A u \in Tid, c \in Bag : q \in epochbags'[u][c] <=> u = t /\ c = index[t]
    <3>1. /\ q \notin inUse /\ q \notin free
          /\ \A u \in Tid : q \in unlinked[u] => u = t
          /\ \A u \in Tid, c \in Bag : q \notin epochbags[u][c]
      BY <2>3 DEF OwnerInv
    <3>2. \A u \in Tid : q \notin unlinked'[u]
      BY <2>1, <3>1
    <3>3. \A u \in Tid, c \in Bag : q \in epochbags'[u][c] <=> u = t /\ c = index[t]
      BY <2>2, <3>1
    <3> QED  BY <3>1, <3>2, <3>3
  <2>5. \A r \in Record \ {q} :
          /\ \A u \in Tid : r \in unlinked'[u] <=> r \in unlinked[u]
          /\ \A u \in Tid, c \in Bag : r \in epochbags'[u][c] <=> r \in epochbags[u][c]
    BY <2>1, <2>2
  <2> QED
    BY <2>3, <2>4, <2>5 DEF OwnerInv
<1>5. CASE UNCHANGED <<epochbags, inUse, unlinked, free>>
  BY <1>5 DEF OwnerInv
<1> QED
  BY <1>1, <1>2, <1>3, <1>4, <1>5, NextCases
    DEF ReadEpoch, Announce, Scan, AdvanceEpoch, EndOp, vars,
        bagVars, recordVars

(* A record is unlinked in the present epoch, in or before which every     *)
(* operation under way has started.                                        *)
LEMMA VisibleStep ==
  ASSUME TypeOK, TypeOK', PhaseInv, EpochInv, VisibleInv, [Next]_vars
  PROVE  VisibleInv'
<1>1. ASSUME NEW t \in Tid, Announce(t)  PROVE VisibleInv'
  <2>1. inUse' = inUse /\ unlinkedAt' = unlinkedAt
    BY <1>1 DEF Announce, recordVars
  <2>2. visible'[t] = inUse /\ ~quiescent'[t]
    BY <1>1 DEF TypeOK, Announce
  <2>3. \A u \in Tid \ {t} : /\ visible'[u] = visible[u] /\ startedAt'[u] = startedAt[u]
                             /\ quiescent'[u] = quiescent[u]
    BY <1>1 DEF TypeOK, Announce
  <2> QED
    BY <2>1, <2>2, <2>3 DEF VisibleInv
<1>2. ASSUME NEW t \in Tid, EndOp(t)  PROVE VisibleInv'
  <2>1. inUse' = inUse /\ unlinkedAt' = unlinkedAt
    BY <1>2 DEF EndOp, recordVars
  <2>2. visible'[t] = {}
    BY <1>2 DEF TypeOK, EndOp
  <2>3. \A u \in Tid \ {t} : /\ visible'[u] = visible[u] /\ startedAt'[u] = startedAt[u]
                             /\ quiescent'[u] = quiescent[u]
    BY <1>2 DEF TypeOK, EndOp
  <2> QED
    BY <2>1, <2>2, <2>3 DEF VisibleInv
<1>3. ASSUME NEW t \in Tid, NEW q \in Record, Link(t, q)  PROVE VisibleInv'
  BY <1>3 DEF TypeOK, VisibleInv, Link, epochVars
<1>4. ASSUME NEW t \in Tid, NEW c \in Tid, NEW q \in Record, Unlink(t, c, q)  PROVE VisibleInv'
  <2>1. \A r \in Record : unlinkedAt'[r] = IF r = q THEN epoch ELSE unlinkedAt[r]
    BY <1>4 DEF TypeOK, Unlink
  <2>2. inUse' = inUse \ {q} /\ UNCHANGED <<visible, quiescent, startedAt>>
    BY <1>4 DEF Unlink, epochVars, opVars
  <2>3. \A u \in Tid : \A r \in visible[u] : r \in Record
    BY DEF TypeOK
  <2> QED
    BY <2>1, <2>2, <2>3 DEF VisibleInv, EpochInv
<1>5. CASE UNCHANGED <<quiescent, visible, startedAt, inUse, unlinkedAt>>
  BY <1>5 DEF VisibleInv
<1> QED
  BY <1>1, <1>2, <1>3, <1>4, <1>5, NextCases
    DEF ReadEpoch, RotateEpochBags, Scan, AdvanceEpoch, Retire, vars, epochVars,
        recordVars, opVars

(* The oldest bags hold the records unlinked the longest ago: between two  *)
(* rotations of a thread's bags the epoch has advanced.                    *)
LEMMA BagStep ==
  ASSUME TypeOK, TypeOK', PhaseInv, EpochInv, OwnerInv, BagInv, [Next]_vars
  PROVE  BagInv'
<1>0. \A u \in Tid, b \in Bag, r \in Record :
        /\ index[u] \in 0 .. 8 /\ b \in 0 .. 8
        /\ unlinkedAt[r] \in Nat /\ unlinkedAt[r] <= epoch
        /\ epochbags[u][b] \subseteq Record
  BY DEF TypeOK, EpochInv, Bag, NUMBER_OF_EPOCH_BAGS
<1>1. ASSUME NEW t \in Tid, ReadEpoch(t)  PROVE BagInv'
  <2>1. /\ UNCHANGED <<epochbags, index, unlinkedAt>> /\ pc[t] = "out"
        /\ local'[t] = epoch
        /\ \A u \in Tid \ {t} : local'[u] = local[u] /\ pc'[u] = pc[u]
    BY <1>1 DEF TypeOK, ReadEpoch, Goto, bagVars, recordVars
  <2> SUFFICES ASSUME NEW b \in Bag, NEW r \in epochbags[t][b]
               PROVE  /\ pc'[t] = "rotate" => unlinkedAt[r] + Age(t, b) <= epoch
                      /\ pc'[t] # "rotate" /\ b # index[t]
                           => unlinkedAt[r] + Age(t, b) - 1 <= epoch
    BY <2>1 DEF BagInv, Age
  <2>2. b # index[t] => unlinkedAt[r] + Age(t, b) - 1 <= local[t]
    BY <2>1 DEF BagInv
  <2>3. Age(t, b) \in Nat /\ (b = index[t] => Age(t, b) = 0)
    <3>0. index[t] \in Bag
      BY DEF TypeOK
    <3>1. index[t] \in Int /\ b \in Int /\ 0 <= index[t] /\ b <= 8
      BY <3>0 DEF Bag, NUMBER_OF_EPOCH_BAGS
    <3> QED  BY <3>1 DEF Age, NUMBER_OF_EPOCH_BAGS
  <2>4. local[t] \in Int /\ epoch \in Nat /\ local[t] <= epoch
    BY Types DEF EpochInv
  <2>5. CASE epoch # local[t]
    <3>0. r \in Record
      BY DEF TypeOK
    <3>1. unlinkedAt[r] \in Nat /\ unlinkedAt[r] <= epoch
      BY <3>0 DEF TypeOK, EpochInv
    <3> QED  BY <2>2, <2>3, <2>4, <2>5, <3>1
  <2>6. CASE epoch = local[t]
    <3>1. pc'[t] = "announce"
      BY <1>1, <2>6 DEF TypeOK, ReadEpoch, Goto
    <3> QED  BY <2>2, <2>6, <3>1
  <2> QED  BY <2>5, <2>6
<1>2. ASSUME NEW t \in Tid, RotateEpochBags(t)  PROVE BagInv'
  <2>1. index[t] \in Bag
    BY DEF TypeOK
  <2>2. index'[t] = IF index[t] = 8 THEN 0 ELSE index[t] + 1
    BY <1>2, <2>1, NextBag DEF TypeOK, RotateEpochBags, NUMBER_OF_EPOCH_BAGS
  <2>3. /\ UNCHANGED <<local, unlinkedAt>> /\ pc[t] = "rotate" /\ pc'[t] = "announce"
        /\ \A u \in Tid \ {t} : index'[u] = index[u] /\ pc'[u] = pc[u]
    BY <1>2 DEF TypeOK, RotateEpochBags, Goto, epochVars
  <2>4. \A u \in Tid, b \in Bag : epochbags'[u][b] \subseteq epochbags[u][b]
    BY <1>2 DEF TypeOK, RotateEpochBags
  <2> SUFFICES ASSUME NEW b \in Bag, NEW r \in epochbags[t][b], b # index'[t]
               PROVE  unlinkedAt[r] + Age(t, b)' - 1 <= local[t]
    BY <2>3, <2>4 DEF BagInv, Age
  <2>5. unlinkedAt[r] + Age(t, b) <= local[t]
    BY <2>3 DEF BagInv
  <2>6. Age(t, b)' = Age(t, b) + 1 /\ Age(t, b) \in Nat
    <3>1. /\ index[t] \in Int /\ 0 <= index[t] /\ index[t] <= 8
          /\ b \in Int /\ 0 <= b /\ b <= 8
      BY <2>1 DEF Bag, NUMBER_OF_EPOCH_BAGS
    <3> QED  BY <2>2, <3>1 DEF Age, NUMBER_OF_EPOCH_BAGS
  <2> QED
    BY <1>0, <2>5, <2>6, Types
<1>3. ASSUME NEW t \in Tid, NEW c \in Tid, NEW q \in Record, Unlink(t, c, q)  PROVE BagInv'
  <2>1. \A r \in Record \ {q} : unlinkedAt'[r] = unlinkedAt[r]
    BY <1>3 DEF TypeOK, Unlink
  <2>2. \A u \in Tid, b \in Bag : q \notin epochbags[u][b]
    BY <1>3 DEF Unlink, OwnerInv
  <2> QED
    BY <1>0, <1>3, <2>1, <2>2 DEF BagInv, Age, Unlink, epochVars, bagVars
<1>4. ASSUME NEW t \in Tid, NEW q \in Record, Retire(t, q)  PROVE BagInv'
  <2>1. \A u \in Tid, c \in Bag :
          epochbags'[u][c] = IF u = t /\ c = index[t] THEN epochbags[t][c] \cup {q}
                                                     ELSE epochbags[u][c]
    BY <1>4 DEF Retire, TypeOK
  <2>2. pc[t] = "out" /\ UNCHANGED <<local, index, unlinkedAt, pc>>
    BY <1>4 DEF Retire, epochVars
  <2> QED
    BY <2>1, <2>2 DEF BagInv, Age
<1>5. ASSUME NEW t \in Tid, pc[t] # "rotate", NEW l, Goto(t, l), l # "rotate",
             UNCHANGED <<local, bagVars, recordVars>>
      PROVE  BagInv'
  <2>1. \A u \in Tid : pc'[u] = "rotate" <=> pc[u] = "rotate"
    BY <1>5 DEF Goto, TypeOK
  <2> QED
    BY <1>5, <2>1 DEF BagInv, Age, bagVars, recordVars
<1>6. CASE UNCHANGED <<local, bagVars, unlinkedAt, pc>>
  BY <1>6 DEF BagInv, Age, bagVars
<1>7. ASSUME NEW t \in Tid, Announce(t)  PROVE BagInv'
  <2>1. Goto(t, "scan") \/ Goto(t, "in")
    BY <1>7 DEF Announce
  <2> QED  BY <1>5, <1>7, <2>1 DEF Announce
<1>8. ASSUME NEW t \in Tid, Scan(t)  PROVE BagInv'
  <2>1. Goto(t, "cas") \/ Goto(t, "in")
    BY <1>8 DEF Scan
  <2> QED  BY <1>5, <1>8, <2>1 DEF Scan
<1>9. ASSUME NEW t \in Tid, AdvanceEpoch(t) \/ EndOp(t)  PROVE BagInv'
  BY <1>5, <1>9 DEF AdvanceEpoch, EndOp
<1> QED
  BY <1>1, <1>2, <1>3, <1>4, <1>6, <1>7, <1>8, <1>9, NextCases
    DEF Link, vars, epochVars, recordVars

(* rotateEpochBags frees a bag that the thread left at least four epochs   *)
(* ago, and an operation spans at most two.                                *)
LEMMA FreeStep ==
  ASSUME TypeOK, TypeOK', PhaseInv, EpochInv, EpochLag, OwnerInv, VisibleInv, BagInv,
         NoUseAfterFree, [Next]_vars
  PROVE  NoUseAfterFree'
<1>1. ASSUME NEW t \in Tid, RotateEpochBags(t)  PROVE NoUseAfterFree'
  <2> DEFINE f == (((index[t] + 1) % 9) + 3) % 9
  <2>0. index[t] \in Bag
    BY DEF TypeOK
  <2>1. f \in Bag /\ Age(t, f) = 5
    <3>1. f = IF index[t] <= 4 THEN index[t] + 4 ELSE index[t] - 5
      BY <2>0, NextBag
    <3>2. index[t] \in Int /\ 0 <= index[t] /\ index[t] <= 8
      BY <2>0 DEF Bag, NUMBER_OF_EPOCH_BAGS
    <3> HIDE DEF f
    <3> QED  BY <3>1, <3>2 DEF Age, Bag, NUMBER_OF_EPOCH_BAGS
  <2>2. free' \subseteq free \cup epochbags[t][f] /\ visible' = visible /\ pc[t] = "rotate"
    BY <1>1 DEF RotateEpochBags, opVars, NUMBER_OF_EPOCH_BAGS,
         NUMBER_OF_ALWAYS_EMPTY_EPOCH_BAGS
  <2> HIDE DEF f
  <2>3. SUFFICES ASSUME NEW u \in Tid, NEW r \in visible[u], r \in epochbags[t][f]
                 PROVE  FALSE
    BY <2>2 DEF NoUseAfterFree
  <2>4. r \in Record
    BY DEF TypeOK
  <2>5. ~quiescent[u] /\ startedAt[u] <= unlinkedAt[r]
    BY <2>1, <2>3, <2>4 DEF VisibleInv, OwnerInv
  <2>6. unlinkedAt[r] + 5 <= local[t] /\ local[t] <= epoch /\ epoch <= startedAt[u] + 1
    BY <2>1, <2>2, <2>3, <2>5 DEF BagInv, EpochInv, EpochLag
  <2>7. unlinkedAt[r] \in Nat /\ startedAt[u] \in Nat /\ local[t] \in Int /\ epoch \in Nat
    BY <2>4, Types DEF TypeOK
  <2> QED
    BY <2>5, <2>6, <2>7
<1>2. ASSUME NEW t \in Tid, NEW q \in Record, Link(t, q)  PROVE NoUseAfterFree'
  BY <1>2 DEF TypeOK, NoUseAfterFree, Link
<1>3. ASSUME NEW t \in Tid, Announce(t)  PROVE NoUseAfterFree'
  <2>1. \A u \in Tid : visible'[u] = IF u = t THEN inUse ELSE visible[u]
    BY <1>3 DEF TypeOK, Announce
  <2>2. free' = free /\ inUse \cap free = {}
    BY <1>3 DEF TypeOK, OwnerInv, Announce, recordVars
  <2> QED  BY <2>1, <2>2 DEF NoUseAfterFree
<1>4. ASSUME NEW t \in Tid, EndOp(t)  PROVE NoUseAfterFree'
  BY <1>4 DEF TypeOK, NoUseAfterFree, EndOp, recordVars
<1>5. CASE UNCHANGED <<visible, free>>
  BY <1>5 DEF NoUseAfterFree
<1> QED
  BY <1>1, <1>2, <1>3, <1>4, <1>5, NextCases
    DEF ReadEpoch, Scan, AdvanceEpoch, Unlink, Retire, vars, recordVars, opVars

-----------------------------------------------------------------------------
(* A reclaimer that was just constructed satisfies the invariant.          *)
LEMMA InitIInv == Init => IInv
<1> SUFFICES ASSUME Init  PROVE IInv
  OBVIOUS
<1>1. TypeOK
  BY DebraAssumption DEF Init, TypeOK, Tid, Bag, NUMBER_OF_EPOCH_BAGS, NoEpoch
<1>2. PhaseInv /\ EpochInv /\ CheckedInv /\ EpochLag
  BY DebraAssumption DEF Init, PhaseInv, Phase, EpochInv, CheckedInv, EpochLag, NoEpoch, Tid
<1>3. OwnerInv /\ VisibleInv /\ BagInv /\ NoUseAfterFree
  BY DEF Init, OwnerInv, VisibleInv, BagInv, NoUseAfterFree
<1> QED  BY <1>1, <1>2, <1>3 DEF IInv

(* IInv is an inductive invariant of DEBRA.                                *)
THEOREM Invariance == Spec => []IInv
<1>1. IInv /\ [Next]_vars => IInv'
  <2> SUFFICES ASSUME IInv, [Next]_vars  PROVE IInv'
    OBVIOUS
  <2>1. TypeOK'
    BY TypeStep DEF IInv
  <2> QED
    BY <2>1, PhaseStep, EpochStep, CheckedStep, LagStep, OwnerStep, VisibleStep,
       BagStep, FreeStep DEF IInv
<1> QED
  BY <1>1, InitIInv, PTL DEF Spec

(* Every variable stays in its range; in particular checked never exceeds  *)
(* NUM_PROCESSES and opsSinceRead never reaches MIN_OPS_BEFORE_READ.       *)
THEOREM TypeCorrect == Spec => []TypeOK
<1>1. IInv => TypeOK
  BY DEF IInv
<1> QED  BY <1>1, Invariance, PTL

(* The epoch advances at most once during an operation, however stale the  *)
(* epoch is that startOp announces.                                        *)
THEOREM EpochLagHolds == Spec => []EpochLag
<1>1. IInv => EpochLag
  BY DEF IInv
<1> QED  BY <1>1, Invariance, PTL

(* startOp never reads past the announcement of the last thread.           *)
THEOREM ScanInRangeHolds == Spec => []ScanInRange
<1>1. IInv => ScanInRange
  BY DEF IInv, PhaseInv, Phase, ScanInRange
<1> QED  BY <1>1, Invariance, PTL

(* rotateEpochBags never frees a record that an operation can reach.       *)
THEOREM Safety == Spec => []NoUseAfterFree
<1>1. IInv => NoUseAfterFree
  BY DEF IInv
<1> QED  BY <1>1, Invariance, PTL
=============================================================================
