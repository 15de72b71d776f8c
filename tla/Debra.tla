------------------------------- MODULE Debra -------------------------------
(***************************************************************************)
(* The DEBRA epoch-based reclaimer (common/recordmgr/reclaimer_debra.h),   *)
(* as the trees use it: an operation calls startOp, unlinks records from   *)
(* the data structure, calls endOp and retires what its update unlinked.   *)
(* A retired record goes to the current one of nine bags of its thread;    *)
(* the bags rotate when the thread meets a new epoch, and the contents of  *)
(* one bag are freed at each rotation.                                     *)
(*                                                                         *)
(* An announcement word is an epoch and a quiescent bit; here they are two *)
(* variables, and an epoch counts by one instead of by EPOCH_INCREMENT.    *)
(***************************************************************************)
EXTENDS Integers, FiniteSets

CONSTANTS
  NUM_PROCESSES,         \* thread ids are 0..NUM_PROCESSES-1
  Record,                \* addresses of records
  MIN_OPS_BEFORE_READ,   \* operations between two looks at another thread
  MaxEpoch               \* bound: no operation starts in a later epoch

ASSUME DebraAssumption ==
  /\ NUM_PROCESSES \in Nat \ {0}
  /\ MIN_OPS_BEFORE_READ \in Nat \ {0}
  /\ MaxEpoch \in Nat

Tid == 0 .. NUM_PROCESSES - 1
NUMBER_OF_EPOCH_BAGS == 9
NUMBER_OF_ALWAYS_EMPTY_EPOCH_BAGS == 3
Bag == 0 .. NUMBER_OF_EPOCH_BAGS - 1
NoEpoch == -1      \* the announcement of a thread that never started: 0|1

VARIABLES
  epoch,             \* the global epoch
  announced,         \* announcedEpoch without its quiescent bit
  quiescent,         \* the quiescent bit
  local,             \* localvar_announcedEpoch
  epochbags, index,  \* the bags of each thread and which is the current one
  checked,           \* how many threads were seen to be in this epoch
  opsSinceRead,
  pc,
  inUse,             \* records in the data structure
  unlinked,          \* records a thread has unlinked and not yet retired
  free,              \* memory that the allocator may hand out
  visible,           \* history: what was in the data structure at some time
                     \* of the operation, so what its pointers can lead to
  startedAt,         \* history: the epoch when the operation announced itself,
                     \* 0 between operations
  unlinkedAt         \* history: the epoch when a record was unlinked

epochVars == <<epoch, announced, quiescent, local, checked, opsSinceRead>>
bagVars == <<epochbags, index>>
recordVars == <<inUse, unlinked, free, unlinkedAt>>
opVars == <<visible, startedAt>>
vars == <<epochVars, bagVars, recordVars, opVars, pc>>

Init ==
  /\ epoch = 0
  /\ announced = [t \in Tid |-> 0]
  /\ quiescent = [t \in Tid |-> TRUE]
  /\ local = [t \in Tid |-> NoEpoch]
  /\ epochbags = [t \in Tid |-> [b \in Bag |-> {}]]
  /\ index = [t \in Tid |-> 0]
  /\ checked = [t \in Tid |-> 0]
  /\ opsSinceRead = [t \in Tid |-> 0]
  /\ pc = [t \in Tid |-> "out"]
  /\ inUse = {}
  /\ unlinked = [t \in Tid |-> {}]
  /\ free = Record
  /\ visible = [t \in Tid |-> {}]
  /\ startedAt = [t \in Tid |-> 0]
  /\ unlinkedAt = [r \in Record |-> 0]

Goto(t, l) == pc' = [pc EXCEPT ![t] = l]

-----------------------------------------------------------------------------
(* Mutant: checked keeps what was seen in an earlier epoch.                *)
ReadEpochNoReset(t) ==
  /\ pc[t] = "out" /\ unlinked[t] = {}
  /\ epoch <= MaxEpoch
  /\ local' = [local EXCEPT ![t] = epoch]
  /\ Goto(t, IF epoch # local[t] THEN "rotate" ELSE "announce")
  /\ UNCHANGED <<epoch, announced, quiescent, checked, opsSinceRead, bagVars,
                 recordVars, opVars>>

(* startOp, as the guard at the start of an operation calls it: read the   *)
(* epoch.  The thread has retired what its last operation unlinked.        *)
ReadEpoch(t) ==
  /\ pc[t] = "out" /\ unlinked[t] = {}
  /\ epoch <= MaxEpoch
  /\ local' = [local EXCEPT ![t] = epoch]
  /\ IF epoch # local[t]
     THEN checked' = [checked EXCEPT ![t] = 0] /\ Goto(t, "rotate")
     ELSE UNCHANGED checked /\ Goto(t, "announce")
  /\ UNCHANGED <<epoch, announced, quiescent, opsSinceRead, bagVars, recordVars, opVars>>

(* Mutant: the bag freed is the one left two rotations ago.                *)
RotateEpochBagsEarly(t) ==
  /\ pc[t] = "rotate"
  /\ LET nextIndex == (index[t] + 1) % NUMBER_OF_EPOCH_BAGS
         freeable == (nextIndex + NUMBER_OF_EPOCH_BAGS - 2) % NUMBER_OF_EPOCH_BAGS
     IN  \E full \in SUBSET epochbags[t][freeable] :
           /\ free' = free \cup full
           /\ epochbags' = [epochbags EXCEPT ![t][freeable] = @ \ full]
           /\ index' = [index EXCEPT ![t] = nextIndex]
  /\ Goto(t, "announce")
  /\ UNCHANGED <<epochVars, inUse, unlinked, unlinkedAt, opVars>>

(* rotateEpochBags: free the full blocks of the oldest bag that may hold   *)
(* anything, and make the next bag the current one.                        *)
RotateEpochBags(t) ==
  /\ pc[t] = "rotate"
  /\ LET nextIndex == (index[t] + 1) % NUMBER_OF_EPOCH_BAGS
         freeable == (nextIndex + NUMBER_OF_ALWAYS_EMPTY_EPOCH_BAGS)
                       % NUMBER_OF_EPOCH_BAGS
     IN  \E full \in SUBSET epochbags[t][freeable] :
           /\ free' = free \cup full
           /\ epochbags' = [epochbags EXCEPT ![t][freeable] = @ \ full]
           /\ index' = [index EXCEPT ![t] = nextIndex]
  /\ Goto(t, "announce")
  /\ UNCHANGED <<epochVars, inUse, unlinked, unlinkedAt, opVars>>

(* Mutant: opsSinceRead is not reset before the scan.                      *)
AnnounceNoReset(t) ==
  /\ pc[t] = "announce"
  /\ announced' = [announced EXCEPT ![t] = local[t]]
  /\ quiescent' = [quiescent EXCEPT ![t] = FALSE]
  /\ visible' = [visible EXCEPT ![t] = inUse]
  /\ startedAt' = [startedAt EXCEPT ![t] = epoch]
  /\ opsSinceRead' = [opsSinceRead EXCEPT ![t] = @ + 1]
  /\ Goto(t, IF opsSinceRead[t] + 1 = MIN_OPS_BEFORE_READ THEN "scan" ELSE "in")
  /\ UNCHANGED <<epoch, local, checked, bagVars, recordVars>>

(* Announce the epoch that was read, however old, and leave the quiescent  *)
(* state; one operation in MIN_OPS_BEFORE_READ goes on to scan, read-only  *)
(* or not (DEBRA_DISABLE_READONLY_OPT is always defined).                  *)
Announce(t) ==
  /\ pc[t] = "announce"
  /\ announced' = [announced EXCEPT ![t] = local[t]]
  /\ quiescent' = [quiescent EXCEPT ![t] = FALSE]
  /\ visible' = [visible EXCEPT ![t] = inUse]
  /\ startedAt' = [startedAt EXCEPT ![t] = epoch]
  /\ IF opsSinceRead[t] + 1 = MIN_OPS_BEFORE_READ
     THEN opsSinceRead' = [opsSinceRead EXCEPT ![t] = 0] /\ Goto(t, "scan")
     ELSE opsSinceRead' = [opsSinceRead EXCEPT ![t] = @ + 1] /\ Goto(t, "in")
  /\ UNCHANGED <<epoch, local, checked, bagVars, recordVars>>

(* Mutant: a thread one epoch behind is taken to be in the epoch.          *)
ScanLax(t) ==
  /\ pc[t] = "scan"
  /\ LET other == checked[t]
     IN  IF announced[other] >= local[t] - 1 \/ quiescent[other]
         THEN /\ checked' = [checked EXCEPT ![t] = @ + 1]
              /\ Goto(t, IF other + 1 >= NUM_PROCESSES THEN "cas" ELSE "in")
         ELSE UNCHANGED checked /\ Goto(t, "in")
  /\ UNCHANGED <<epoch, announced, quiescent, local, opsSinceRead, bagVars,
                 recordVars, opVars>>

(* Mutant: the quiescent bit of the other thread is ignored.               *)
ScanNotQuiescent(t) ==
  /\ pc[t] = "scan"
  /\ LET other == checked[t]
     IN  IF announced[other] = local[t]
         THEN /\ checked' = [checked EXCEPT ![t] = @ + 1]
              /\ Goto(t, IF other + 1 >= NUM_PROCESSES THEN "cas" ELSE "in")
         ELSE UNCHANGED checked /\ Goto(t, "in")
  /\ UNCHANGED <<epoch, announced, quiescent, local, opsSinceRead, bagVars,
                 recordVars, opVars>>

(* Look at the announcement of one other thread.                           *)
Scan(t) ==
  /\ pc[t] = "scan"
  /\ LET other == checked[t]
     IN  IF announced[other] = local[t] \/ quiescent[other]
         THEN /\ checked' = [checked EXCEPT ![t] = @ + 1]
              /\ Goto(t, IF other + 1 >= NUM_PROCESSES THEN "cas" ELSE "in")
         ELSE UNCHANGED checked /\ Goto(t, "in")
  /\ UNCHANGED <<epoch, announced, quiescent, local, opsSinceRead, bagVars,
                 recordVars, opVars>>

(* All were seen in this epoch: the CAS on the global epoch.               *)
AdvanceEpoch(t) ==
  /\ pc[t] = "cas"
  /\ epoch' = IF epoch = local[t] THEN epoch + 1 ELSE epoch
  /\ Goto(t, "in")
  /\ UNCHANGED <<announced, quiescent, local, checked, opsSinceRead, bagVars,
                 recordVars, opVars>>

(* endOp                                                                   *)
EndOp(t) ==
  /\ pc[t] = "in"
  /\ quiescent' = [quiescent EXCEPT ![t] = TRUE]
  /\ announced' = [announced EXCEPT ![t] = local[t]]
  /\ visible' = [visible EXCEPT ![t] = {}]
  /\ startedAt' = [startedAt EXCEPT ![t] = 0]
  /\ Goto(t, "out")
  /\ UNCHANGED <<epoch, local, checked, opsSinceRead, bagVars, recordVars>>

-----------------------------------------------------------------------------
(* What operations do with records: link a new one, which every operation  *)
(* under way can then find; unlink one, perhaps on behalf of thread c,     *)
(* whose update t is helping; retire what one's own update unlinked, which *)
(* reclaimMemoryAfterSCX does after endOp.                                 *)
Link(t, r) ==
  /\ pc[t] = "in" /\ r \in free
  /\ free' = free \ {r}
  /\ inUse' = inUse \cup {r}
  /\ visible' = [u \in Tid |-> IF quiescent[u] THEN visible[u] ELSE visible[u] \cup {r}]
  /\ UNCHANGED <<epochVars, bagVars, unlinked, unlinkedAt, startedAt, pc>>

Unlink(t, c, r) ==
  /\ pc[t] = "in" /\ pc[c] = "in" /\ r \in inUse
  /\ inUse' = inUse \ {r}
  /\ unlinked' = [unlinked EXCEPT ![c] = @ \cup {r}]
  /\ unlinkedAt' = [unlinkedAt EXCEPT ![r] = epoch]
  /\ UNCHANGED <<epochVars, bagVars, free, opVars, pc>>

Retire(t, r) ==
  /\ pc[t] = "out" /\ r \in unlinked[t]
  /\ unlinked' = [unlinked EXCEPT ![t] = @ \ {r}]
  /\ epochbags' = [epochbags EXCEPT ![t][index[t]] = @ \cup {r}]
  /\ UNCHANGED <<epochVars, index, inUse, free, unlinkedAt, opVars, pc>>

-----------------------------------------------------------------------------
Finish(t) ==
  \/ RotateEpochBags(t) \/ Announce(t) \/ Scan(t) \/ AdvanceEpoch(t) \/ EndOp(t)
  \/ \E r \in Record : Retire(t, r)

Operation(t) == ReadEpoch(t) \/ Finish(t)

(* All operations are over, in the last epoch.                             *)
Finished == epoch > MaxEpoch /\ \A t \in Tid : pc[t] = "out" /\ unlinked[t] = {}

Next ==
  \/ \E t \in Tid :
       \/ Operation(t)
       \/ \E r \in Record : Link(t, r)
       \/ \E c \in Tid, r \in Record : Unlink(t, c, r)
  \/ Finished /\ UNCHANGED vars

Spec == Init /\ [][Next]_vars

(* One thread keeps executing operations; the others may stop, but not in  *)
(* the middle of an operation.                                             *)
FairSpec ==
  /\ Spec
  /\ WF_vars(Operation(0))
  /\ \A t \in Tid : WF_vars(Finish(t))

-----------------------------------------------------------------------------
(* Type invariant: the epoch, the thread data and the bags of the          *)
(* reclaimer, and where each record is.                                    *)
TypeOK ==
  /\ epoch \in Nat
  /\ announced \in [Tid -> Nat]
  /\ quiescent \in [Tid -> BOOLEAN]
  /\ local \in [Tid -> Nat \cup {NoEpoch}]
  /\ epochbags \in [Tid -> [Bag -> SUBSET Record]]
  /\ index \in [Tid -> Bag]
  /\ checked \in [Tid -> 0 .. NUM_PROCESSES]
  /\ opsSinceRead \in [Tid -> 0 .. MIN_OPS_BEFORE_READ - 1]
  /\ pc \in [Tid -> {"out", "rotate", "announce", "scan", "cas", "in"}]
  /\ inUse \subseteq Record
  /\ unlinked \in [Tid -> SUBSET Record]
  /\ free \subseteq Record
  /\ visible \in [Tid -> SUBSET Record]
  /\ startedAt \in [Tid -> Nat]
  /\ unlinkedAt \in [Record -> Nat]

(* The reclaimer's promise: rotateEpochBags never frees a record that an   *)
(* operation under way may still have a pointer to.                        *)
NoUseAfterFree == \A t \in Tid : visible[t] \cap free = {}

(* Why that is so: while an operation is under way the epoch advances at   *)
(* most once, whatever old epoch the operation announced and whoever had   *)
(* already looked at its announcement.                                     *)
EpochLag == \A t \in Tid : ~quiescent[t] => epoch <= startedAt[t] + 1

(* The scan stays within the array of announcements: after the last thread *)
(* was checked, the epoch has moved on and checked is reset.               *)
ScanInRange == \A t \in Tid : pc[t] = "scan" => checked[t] < NUM_PROCESSES

(* As long as operations start and end the epoch advances, so that what is *)
(* retired is freed in the end.                                            *)
EpochAdvances == <>(epoch > MaxEpoch)
=============================================================================
