# Verification of the augmented chromatic tree (BAT)

The repository implements *BAT*, a concurrent balanced search tree in which
every node carries a version that counts the keys below it, so that range
queries and order statistics can be answered from an immutable snapshot. This
directory holds TLA+ models of it, their TLC runs, and TLAPS proofs. Line
numbers refer to `src/ds/brown_ext_chromatic_augment_lf/chromatic_impl.h`
unless another file is named. `PROJECT.json` maps every definition to the lines
it models.

## The system and its parts

| Part | Where | Model |
|---|---|---|
| LLX/SCX: multi-node synchronisation with helping | `llx`, `scx`, `help`, `reclaimMemoryAfterSCX`, `tryRetireSCXRecord`, `scxrecord.h` | `TreeShape`, `LlxScx`, `AtomicScx` |
| Insertion, deletion and rebalancing of the chromatic tree | `updateInsert`, `updateErase`, `updateRebalancingStep`, `doBlk` ... `doW7Sym` | `Rebalance`, `ChromaticTree` |
| Versions | `refresh`, `propagate`, `initializeNode` | `VersionTree` |
| Queries | `contains`, `rangeQuery`, `doRangeQuery`, `compareKeys` | `VersionQueries`, used in `ChromaticTree` |
| DEBRA, the epoch-based reclaimer | `src/common/recordmgr/reclaimer_debra.h` | `Debra`, `DebraProofs` |
| The tree's use of DEBRA | guards in `insert`, `insertIfAbsent`, `erase`; `endOp` in `scx` | `DebraRetry` |
| BAT-Del, BAT-EagerDel: propagation with delegation | `src/ds/brown_ext_chromatic_delegate*` | not yet |
| Chromatic tree without versions; unbalanced augmented trees; imported competitors | other directories of `src/ds` | no |
| kcas, dcss, rlu, urcu, rq, other reclaimers and pools | `src/common` | no (not used by BAT) |
| Benchmark driver | `src/microbench` | no (input and output) |

An update searches the node tree, changes it with one SCX, perhaps takes one
rebalancing step (`fixAllToKey`, another SCX), and then calls `propagate`, which refreshes
the versions from its search path up to the root. Queries take the version of
the root and read nothing else; only `find` reads the node tree. What updates
remove is retired to DEBRA, which frees it when no operation can reach it.

The models build on one another. `LlxScx` shows that an SCX takes effect in
one step (it implements `AtomicScx`). `VersionTree` and `ChromaticTree` then
take an SCX as one step. `VersionTree` keeps every other memory access apart
and forgets weights; `ChromaticTree` keeps weights and keys and treats each
update as atomic. `Debra` knows records only as things that are linked,
unlinked and retired.

## The modules

**TreeShape** has nodes as LLX and SCX see them, and the tables of
`scxrecord.h` for insertion, replacement, deletion and the rebalancing steps of
the shape of `doBlk` (also PUSH and W7 and their mirror images). A deletion and
a BLK freeze three and four nodes, some of which may be leaves, which are not
frozen.

**LlxScx** has one action per access to shared memory. `Search` picks nodes
that are in the tree (which may be stale by the time they are used); the
actions `Llx...` are the reads of `llx`; `Build` is what the update reads for
the nodes it copies; `Scx` initialises the SCX record; `HelpStart` to `Commit`
are `help`, run by the owner and by helpers; `Reclaim`, `RetireRecord` and
`RetireNodes` are `reclaimMemoryAfterSCX`. The state word of an aborted record,
with its bit fields, is three variables: `state`, `flags`, `high`. Addresses
are never reused, which is what DEBRA is for. `linked` and `removed` are
history variables.

**AtomicScx** is the abstract specification: an update reads, replaces and
finalizes its nodes in one step.

**VersionTree** has the search, the SCX as one step, the rebalancing step on
the path (any step may be chosen, since weights are left out), and `propagate`
and `refresh` with one action per read of a child or a version and one for the
CAS. `refresh` calls itself for a child without a version: `frames` is its
stack of activations. A version is represented by what can be read through it:
its keys in order, its sum, and the versions it is built of. Two history
variables are for the properties: `touched` (another thread has changed the
thread's key) and `owed` (how often the membership of a key has changed in the
tree, less how often in the version of the root).

**Rebalance** has the 21 transformations on trees as values, and the case
analysis of `updateRebalancingStep`. **ChromaticTree** adds insertion, deletion
and where a rebalancing search can stop. Its only variable is the tree: any
number of threads may be at work, and any of them may take a rebalancing step
at any time. `FixAllToKey` is what one call of `fixAllToKey` makes of a quiet
tree. **VersionQueries** has the queries as recursive functions of a version.

**Debra** has `startOp` in its steps (read the epoch, rotate the bags,
announce, look at one other thread, advance the epoch), `endOp`, `retire`, and
what operations do with records in between. Read-only operations scan like the
others, as `DEBRA_DISABLE_READONLY_OPT` is always defined (line 40). A thread may unlink a record on
behalf of another, as helpers do. Which part of a bag is freed (its full
blocks) is left open. **DebraRetry** adds a retry after a failed SCX, which
runs under the guard of the operation after `scx` has called `endOp`.

The `MC...` modules give initial trees and workloads for the runs.
Definitions whose comment begins with *Mutant* are deliberately wrong
variants of the definition after them: exchanging the two must make TLC report
a violation of the property named in `PROJECT.json`.

## What the runs show

| Run | Bounds | States | Result |
|---|---|---|---|
| `llxscx_safety` | 2 threads on a tree of 6 nodes: 1 deletion or rebalancing step against 1 insertion, deletion or rebalancing step; or 1 deletion against 2 replacements | 0.9 M | SCX implements the atomic update; marked nodes never change; the code's assertions; what is removed is unreachable; nodes and records are retired once, none too early, none forgotten |
| `llxscx_live` | 2 threads, DEL and BLK | 0.2 M | a thread that runs completes, wherever the other stops |
| `llxscx_comment` | as above | | **violation**, see below |
| `debra_safety` | 2 threads, 1 record, 7 epochs, a scan every second operation | 3.5 M | no record is freed while an operation may reach it; the epoch advances at most once during an operation; the scan stays in its array |
| `debra_live` | 2 threads, 3 epochs, a scan every second operation | 0.1 M | the epoch advances |
| `debra_retry` | 2 threads, 1 record, 7 epochs | | **violation**, see below |
| `version_safety` | 2 threads, 1 operation each on neighbouring keys or on one key, one rebalancing step | 1.1 M | when an operation has returned, the root's version shows it; other keys are never disturbed; what was once shown is not taken back while the operation is still under way; versions are sorted; sums are right |
| `version_contention` | 3 operations on a tree of one key | 1.4 M | visibility, no taking back and sums where all refresh the same nodes and the tree becomes empty; no version is retired twice |
| `version_live` | 2 threads, the second leaves nodes without versions | 0.4 M | a thread that runs completes its propagation |
| `version_retire` | as `version_safety` | | **violation**, see below |
| `chromatic` | 9 keys, any number of threads | 104,116 | every violation has a transformation; the tree stays a search tree with equal path weights; no transformation loses or adds a leaf; queries answer as the set of keys does; no sequence of transformations goes round for ever |
| `chromatic_fix` | 8 keys, `N` = 4 | | **violation**, see below |

Why these bounds. In `LlxScx` two threads on a tree with two internal nodes
below the root overlap in every position of `nodes[]`, and a retry follows every
failure, so that an SCX meets frozen, aborted and finalized nodes. In `Debra` a
record retired in the first epoch is freed after six rotations, so `MaxEpoch = 6`
covers one full life of a record. In `VersionTree` both
workloads let a node be taken out of the tree before propagate refreshes it, and
that of `version_contention` lets both refresh CASes of a node lose to
another thread. In `ChromaticTree`
nine keys make every transformation happen, in each case of the case analysis
but two kinds. The cases that return false because a sibling is a leaf are
shown not to arise on a quiet tree of this size (`StepExists`). And where an
overweight node has a red parent and a red sibling, nine keys reach the
rotations but not the choice of `doBlk` (a red uncle), which needs a larger
tree; `doBlk` itself is taken in the red-red case. There are few states, about
five times as many for each further key (10 for three keys, 20,241 for eight):
the tree is the only variable, and since all paths weigh the same its shape
leaves little choice of weights. The range queries asked have
three of the keys as bounds.

### Disagreements with the code's comments and checks

* `llxscx_comment`. The comment in `help` (lines 2192-2194) says that a
  committed SCX record is retired after all nodes that point to it. It may be
  retired before: the next SCX on `nodes[0]` retires it while its owner has not
  yet retired the nodes it removed. `RetireSound` says what does hold: no node
  in the tree points to a retired record. A record freed by DEBRA is still safe, by the epochs.
* `debra_retry`. `scx` calls `endOp` (line 2134), which ends the epoch that the
  guard of the operation announced (lines 385, 416, 452); the guard is taken
  once, before the retry loop. A retry, `fixAllToKey` and `propagate` then run
  as a quiescent thread, and DEBRA may free what they read. The tree without
  versions takes a guard in each iteration instead.
* `version_retire`. The comment above `refresh` (line 1673) says that a call
  to help a node without a version passes NULL, and line 1677 makes such a call return
  when the version is there. The calls at lines 1694 and 1705 pass `toRetire`,
  so a helper that comes late replaces and retires a version which the version
  of the root already reaches; propagate's debug check (line 1821) reports it.

* `chromatic_fix`. The comment on `N` (`chromatic.h`, line 141) says that more
  than `N` violations on a search path make an operation "fix everything on
  it". `fixAllToKey` stops when `updateRebalancingStep` returns true, and a
  transformation whose SCX succeeds returns true (line 1184): one violation is
  repaired, or moved, and the rest stay. The run inserts eight keys in order,
  which makes five violations on one path; ten keys do the same to the default
  `N` = 6. `NoEndlessRebalancing` says what
  does hold: later operations on the path cannot undo one another's steps.

`VersionTree` keeps versions for ever, so its passing runs do not depend on
the second and third of these; they say what is right as long as no memory is
reused too early.

## Fairness

`LlxScx!NonBlockingSpec` and `VersionTree!NonBlockingSpec` have weak fairness
of thread 1 alone: the scheduler runs it, and the others may stop for ever at
any step. This is what non-blocking means. The number of updates is bounded, so
thread 1 cannot be overtaken for ever; lock-freedom claims no more.
`Debra!FairSpec`: one thread keeps executing operations, and no thread stops
inside an operation. The second part is needed,
as DEBRA is not fault-tolerant; stopping between operations is allowed.
`NoEndlessRebalancing` needs no fairness: it says that a tree that changes for
ever has its leaves changed for ever.

## What is proved

`DebraProofs` proves, for every number of threads, every set of records, every
`MIN_OPS_BEFORE_READ` and every `MaxEpoch` (`DebraAssumption`: the first and third are positive):

* `TypeCorrect`, `EpochLagHolds`, `ScanInRangeHolds`;
* `Safety`: `Spec => []NoUseAfterFree`.

`NoUseAfterFree` is not inductive. The argument, as the conjuncts of `IInv`:

1. What a scan has seen stays true (`CheckedInv`): an operation of a thread
   that `w` has checked started in `w`'s epoch or later. A thread that announces an old
   epoch late does not break this, because it counts from when the
   announcement was made.
2. So when the epoch is advanced, every operation under way started in the
   epoch that ends (`EpochLag`).
3. An operation reaches a record outside the tree only if the record was
   unlinked after the operation started (`VisibleInv`).
4. A record in a bag that is `a` rotations old was unlinked at least `a - 1`
   epochs ago (`BagInv`); the bag that is freed is six rotations old before the
   index moves on.
5. With 2 and 3, a record in that bag is not visible to any operation.
6. `OwnerInv` says that a record is in one place, and `PhaseInv` and `EpochInv`
   relate the program counter, the quiescent bit and the epochs.

Only model-checked: everything about `LlxScx`, `VersionTree` and
`ChromaticTree`, and all liveness. Liveness under fairness and what recursive
functions compute for every input (the queries, path weights) are beyond the
prover.

## What is left out

* Memory order. All models are sequentially consistent. The code uses relaxed
  accesses with compiler barriers and relies on x86. The one store that must be
  seen before later loads, the announcement of an epoch, is followed by a full
  fence (`record_manager.h`, line 134).
* Reuse of addresses in the tree models.
* Values, and weights in `VersionTree`; rebalancing steps with five or
  six frozen nodes in `LlxScx`.
* `recoverAnyAttemptedSCX`, which is never called under DEBRA.
* `doGetRank`, which is sequential; it takes the left child for the right one
  (line 335).
* Retiring the versions of freed nodes (`DEBRA_NODE_RETIRE`), thread exit.

## Plan

1. Delegation: `refresh` and `propagate` of BAT-Del and BAT-EagerDel, with the
   waiting of one propagation for another (no cyclic waiting, visibility when
   the delegate is done); the properties of `VersionTree` carry over.
2. An abstract ordered set for `VersionTree`, with `find` beside the queries on
   versions.
3. Nodes and versions as two record types in `Debra`, with `DEBRA_NODE_RETIRE`.
4. More shapes of rebalancing in `TreeShape`: steps that freeze five and six nodes.
5. Proofs: type correctness and the retirement invariants of `LlxScx`;
   `RetiredOnce` and `SumIsSize` of `VersionTree`; weights of paths and order of
   leaves, one lemma for each transformation of `Rebalance`.
