---------------------------- MODULE VersionTree ----------------------------
(***************************************************************************)
(* The augmentation of the chromatic tree (chromatic_impl.h): each node    *)
(* points to a version, an immutable tree of versions that mirrors the     *)
(* subtree of the node and carries its size; queries read only the version *)
(* of the root.  An update changes the tree with one SCX, may rebalance,   *)
(* and then propagates: it refreshes the versions along its search path up *)
(* to the root.                                                            *)
(*                                                                         *)
(* SCX is one step here (module LlxScx shows that it takes effect in one); *)
(* every read of a child pointer or version pointer in the search, in      *)
(* refresh and in propagate is a step, and so is every CAS.                *)
(*                                                                         *)
(* A version is represented by what it holds: the keys at its leaves from  *)
(* left to right, its sum, and the internal versions that it is built of.  *)
(* A version is identified by its node and a number, 0 meaning nil.        *)
(***************************************************************************)
EXTENDS Integers, Sequences, FiniteSets, FiniteSetsExt

CONSTANTS
  InitKey, InitKids,   \* keys and children of the nodes of the initial tree
  NumThreads,          \* thread ids are 1..NumThreads
  Work,                \* bound: the operations that each thread may start
  MaxOps,              \* bound: operations of each thread
  Fixers               \* bound: the threads that may meet violations to repair

NULL == 0
NO_KEY == 0
Root == 1
Thread == 1 .. NumThreads
Side == {"L", "R"}
Kind == {"INSERT", "INSERT_IF_ABSENT", "ERASE"}

InitNode == DOMAIN InitKey
UsedKey == ({InitKey[n] : n \in InitNode} \ {NO_KEY}) \cup
           UNION {{o.key : o \in Work[t]} : t \in Thread}
Most(f) == Max({f[t] : t \in Thread})
PerThread == Most(MaxOps) * (IF Fixers = {} THEN 3 ELSE 6)   \* nodes that a thread allocates
Node == 1 .. Cardinality(InitNode) + NumThreads * PerThread

ASSUME VersionTreeAssumption ==
  /\ InitNode = 1 .. Cardinality(InitNode) /\ Root \in InitNode
  /\ InitKey \in [InitNode -> Nat]
  /\ InitKids \in [InitNode -> [Side -> InitNode \cup {NULL}]]
  /\ NumThreads \in Nat \ {0} /\ MaxOps \in [Thread -> Nat] /\ Fixers \subseteq Thread
  /\ Work \in [Thread -> SUBSET [kind : Kind, key : Nat \ {NO_KEY}]]

VARIABLES
  key, kids, version,   \* fields of the nodes
  tree,                 \* the nodes that are in the tree
  used,                 \* how many nodes a thread has allocated
  pc, ops, op,
  stack, p, l,          \* locals of updateInsert and updateErase
  shouldRebalance,      \* an SCX of the operation was tried
  set, toRetire,        \* locals of propagate
  second,               \* propagate is at its second call of refresh
  frames,               \* activations of refresh
  retired,              \* versions passed to retire
  touched,              \* history: another thread changed the membership of
                        \* a thread's key since the thread started its
                        \* operation, or since it did so itself
  owed                  \* history: how often a key's membership has changed in
                        \* the tree, less how often in the version of the root

nodeVars == <<key, kids, tree, used>>
searchVars == <<op, stack, p, l, shouldRebalance>>
propVars == <<set, toRetire, second, frames>>
history == <<touched, owed>>
vars == <<nodeVars, version, searchVars, propVars, pc, ops, retired, history>>

Pair(a, b) == [d \in Side |-> IF d = "L" THEN a ELSE b]

Nil == [no |-> 0, keys |-> <<>>, sum |-> 0, parts |-> {}]

LeafVersion(k, sum) ==
  [no |-> 1, keys |-> IF k = NO_KEY THEN <<>> ELSE <<k>>, sum |-> sum, parts |-> {}]

(* The version that refresh builds: number no of node n, over vl and vr.   *)
NewVersion(n, no, vl, vr) ==
  [no |-> no, keys |-> vl.keys \o vr.keys, sum |-> vl.sum + vr.sum,
   parts |-> vl.parts \cup vr.parts \cup {<<n, no>>}]

InitVersion[n \in InitNode \cup {NULL}] ==
  IF n = NULL THEN Nil
  ELSE IF InitKids[n]["L"] = NULL
       THEN LeafVersion(InitKey[n], IF InitKey[n] = NO_KEY THEN 0 ELSE 1)
       ELSE NewVersion(n, 1, InitVersion[InitKids[n]["L"]], InitVersion[InitKids[n]["R"]])

Idle == [kind |-> "ERASE", key |-> NO_KEY]

Init ==
  /\ key = [n \in Node |-> IF n \in InitNode THEN InitKey[n] ELSE NO_KEY]
  /\ kids = [n \in Node |-> IF n \in InitNode THEN InitKids[n] ELSE Pair(NULL, NULL)]
  /\ version = [n \in Node |-> IF n \in InitNode THEN InitVersion[n] ELSE Nil]
  /\ tree = InitNode
  /\ used = [t \in Thread |-> 0]
  /\ pc = [t \in Thread |-> "idle"]
  /\ ops = [t \in Thread |-> 0]
  /\ op = [t \in Thread |-> Idle]
  /\ stack = [t \in Thread |-> <<>>]
  /\ p = [t \in Thread |-> Root]
  /\ l = [t \in Thread |-> Root]
  /\ shouldRebalance = [t \in Thread |-> FALSE]
  /\ set = [t \in Thread |-> {}]
  /\ toRetire = [t \in Thread |-> {}]
  /\ second = [t \in Thread |-> FALSE]
  /\ frames = [t \in Thread |-> <<>>]
  /\ retired = {}
  /\ touched = [t \in Thread |-> TRUE]
  /\ owed = [k \in UsedKey |-> 0]

Goto(t, where) == pc' = [pc EXCEPT ![t] = where]
Top(s) == s[Len(s)]
Pop(s) == SubSeq(s, 1, Len(s) - 1)
IsLeaf(n) == kids[n]["L"] = NULL
RootKeys == {version[Root].keys[i] : i \in DOMAIN version[Root].keys}

(* The child of n on the way to k.                                         *)
Toward(k, n) == kids[n][IF key[n] = NO_KEY \/ k < key[n] THEN "L" ELSE "R"]

-----------------------------------------------------------------------------
(* insert, insertIfAbsent or erase starts an attempt at its update.        *)
Attempt(t) ==
  /\ stack' = [stack EXCEPT ![t] = <<Root>>]
  /\ p' = [p EXCEPT ![t] = Root]
  /\ l' = [l EXCEPT ![t] = kids[Root]["L"]]
  /\ Goto(t, "search")

Start(t) ==
  /\ pc[t] = "idle" /\ ops[t] < MaxOps[t]
  /\ \E o \in Work[t] : op' = [op EXCEPT ![t] = o]
  /\ Attempt(t)
  /\ shouldRebalance' = [shouldRebalance EXCEPT ![t] = FALSE]
  /\ touched' = [touched EXCEPT ![t] = FALSE]
  /\ UNCHANGED <<nodeVars, version, propVars, ops, retired, owed>>

(* Mutant: the search does not stop at a leaf.                             *)
DescendPastLeaf(t) ==
  /\ pc[t] = "search"
  /\ stack' = [stack EXCEPT ![t] = IF p[t] = Root THEN @ ELSE Append(@, p[t])]
  /\ p' = [p EXCEPT ![t] = l[t]]
  /\ l' = [l EXCEPT ![t] = Toward(op[t].key, l[t])]
  /\ UNCHANGED <<nodeVars, version, propVars, op, shouldRebalance, pc, ops, retired, history>>

(* One step down the search path.  The parent of the leaf is not pushed.   *)
Descend(t) ==
  /\ pc[t] = "search" /\ ~IsLeaf(l[t])
  /\ stack' = [stack EXCEPT ![t] = IF p[t] = Root THEN @ ELSE Append(@, p[t])]
  /\ p' = [p EXCEPT ![t] = l[t]]
  /\ l' = [l EXCEPT ![t] = Toward(op[t].key, l[t])]
  /\ UNCHANGED <<nodeVars, version, propVars, op, shouldRebalance, pc, ops, retired, history>>

(* The i-th of the nodes that thread t allocates next.                     *)
Fresh(t, i) == Cardinality(InitNode) + (t - 1) * PerThread + used[t] + i

(* An SCX takes effect: the child x of u is replaced by node new[1], where *)
(* new lists the new nodes with their keys, children and versions, and the *)
(* nodes in old leave the tree.                                            *)
Scx(t, u, x, new, old) ==
  LET at(n) == n - Fresh(t, 0)
      isNew(n) == at(n) \in 1 .. Len(new)
      d == IF kids[u]["L"] = x THEN "L" ELSE "R"
  IN  /\ key' = [n \in Node |-> IF isNew(n) THEN new[at(n)].key ELSE key[n]]
      /\ kids' = [n \in Node |->
           IF isNew(n) THEN new[at(n)].kids
           ELSE IF n = u THEN [kids[n] EXCEPT ![d] = Fresh(t, 1)]
                         ELSE kids[n]]
      /\ version' = [n \in Node |-> IF isNew(n) THEN new[at(n)].version ELSE version[n]]
      /\ tree' = (tree \ old) \cup {Fresh(t, i) : i \in 1 .. Len(new)}
      /\ used' = [used EXCEPT ![t] = @ + Len(new)]

(* Mutant: the version of a leaf is left with sum 0.                       *)
InitializeNodeNoSum(k, ks) ==
  [key |-> k, kids |-> ks,
   version |-> IF ks["L"] = NULL THEN LeafVersion(k, 0) ELSE Nil]

(* initializeNode: a leaf has a version with sum 1, an internal node has   *)
(* none.                                                                   *)
InitializeNode(k, ks) ==
  [key |-> k, kids |-> ks,
   version |-> IF ks["L"] = NULL THEN LeafVersion(k, 1) ELSE Nil]

InitializeNodeWithVersion(k, ks, v) == [key |-> k, kids |-> ks, version |-> v]

(* LLX of u and of x, if any, succeeds and finds the child in place.       *)
InPlace(u, x) == u \in tree /\ \E d \in Side : kids[u][d] = x

(* t changes the membership of its key, under the other threads that have  *)
(* the same key.                                                           *)
Touch(t) ==
  /\ touched' = [u \in Thread |-> u # t /\ (touched[u] \/ op[u].key = op[t].key)]
  /\ owed' = [owed EXCEPT ![op[t].key] = @ + 1]

(* The attempt fails, perhaps at its SCX, which leaves shouldRebalance set. *)
Retry(t) ==
  /\ Attempt(t)
  /\ shouldRebalance' = [shouldRebalance EXCEPT ![t] = TRUE]
  /\ UNCHANGED <<nodeVars, version, propVars, op, ops, retired, history>>

(* The attempt succeeds.  Whether rebalancing is called depends on the     *)
(* weights met in this or in an earlier attempt, which are left out.       *)
Done(t, triedScx) ==
  /\ shouldRebalance' = [shouldRebalance EXCEPT ![t] = @ \/ triedScx]
  /\ Goto(t, IF shouldRebalance'[t] THEN "fix" ELSE "propagate")
  /\ UNCHANGED <<propVars, op, stack, p, l, ops, retired>>

(* Mutant: the copy of the sentinel leaf is counted.                       *)
NewCopyOfLCounted(leaf) ==
  InitializeNodeWithVersion(key[leaf], Pair(NULL, NULL), LeafVersion(key[leaf], 1))

(* The copy of the leaf that updateInsert puts beside the new leaf.        *)
NewCopyOfL(leaf) ==
  InitializeNodeWithVersion(key[leaf], Pair(NULL, NULL),
    LeafVersion(key[leaf], IF key[leaf] = NO_KEY THEN 0 ELSE 1))

(* Mutant: the comparison is the wrong way round.                          *)
NewLeafIsLeftSwapped(k, leaf) == key[leaf] = NO_KEY \/ key[leaf] < k

NewLeafIsLeft(k, leaf) == key[leaf] = NO_KEY \/ k < key[leaf]

(* updateInsert at leaf l with parent p.                                   *)
UpdateInsert(t) ==
  /\ pc[t] = "search" /\ IsLeaf(l[t]) /\ op[t].kind # "ERASE"
  /\ LET k == op[t].key
         leaf == l[t]
         newLeaf == InitializeNodeWithVersion(k, Pair(NULL, NULL), LeafVersion(k, 1))
         copy == NewCopyOfL(leaf)
         left == NewLeafIsLeft(k, leaf)
         a == IF left THEN newLeaf ELSE copy
         b == IF left THEN copy ELSE newLeaf
         internal == InitializeNodeWithVersion(IF left THEN key[leaf] ELSE k,
                       Pair(Fresh(t, 2), Fresh(t, 3)),
                       NewVersion(Fresh(t, 1), 1, a.version, b.version))
     IN  \/ /\ k = key[leaf] /\ op[t].kind = "INSERT_IF_ABSENT"
            /\ Done(t, FALSE)
            /\ UNCHANGED <<nodeVars, version, history>>
         \/ /\ k = key[leaf] /\ op[t].kind = "INSERT" /\ InPlace(p[t], leaf)
            /\ Scx(t, p[t], leaf, <<newLeaf>>, {leaf})
            /\ Done(t, FALSE)
            /\ UNCHANGED history
         \/ /\ k # key[leaf] /\ InPlace(p[t], leaf)
            /\ Scx(t, p[t], leaf, <<internal, a, b>>, {leaf})
            /\ Touch(t)
            /\ Done(t, TRUE)
         \/ /\ k # key[leaf] \/ op[t].kind = "INSERT"
            /\ ~InPlace(p[t], leaf)
            /\ Retry(t)

(* updateErase of leaf l with parent p and grandparent on top of the stack.*)
UpdateErase(t) ==
  /\ pc[t] = "search" /\ IsLeaf(l[t]) /\ op[t].kind = "ERASE"
  /\ LET leaf == l[t]
         par == p[t]
         gp == Top(stack[t])
         s == IF kids[par]["L"] = leaf THEN kids[par]["R"] ELSE kids[par]["L"]
     IN  \/ /\ op[t].key # key[leaf]
            /\ Done(t, FALSE)
            /\ UNCHANGED <<nodeVars, version, history>>
         \/ /\ op[t].key = key[leaf] /\ InPlace(gp, par) /\ InPlace(par, leaf)
            /\ Scx(t, gp, par, <<InitializeNode(key[s], kids[s])>>, {par, leaf, s})
            /\ Touch(t)
            /\ Done(t, TRUE)
         \/ /\ op[t].key = key[leaf] /\ ~(InPlace(gp, par) /\ InPlace(par, leaf))
            /\ Retry(t)

-----------------------------------------------------------------------------
(* fixAllToKey: one rebalancing step on the path to the key, as it leaves  *)
(* its loop after a step that succeeds, or none if it meets no violation.  *)
(* The weights that decide on a step are left out, so any step may be      *)
(* taken; doRb1, doRb1Sym and doBlk stand for the others, as they move     *)
(* subtrees to one side, to the other, and copy nodes in place.  Sentinels *)
(* are not moved.                                                          *)
PathTo(k) ==
  LET path[n \in Node] == IF IsLeaf(n) THEN {n} ELSE {n} \cup path[Toward(k, n)]
  IN  path[Root]

UpdateRebalancingStep(t) ==
  /\ pc[t] = "fix" /\ t \in Fixers
  /\ \E u \in PathTo(op[t].key) :
       LET x == Toward(op[t].key, u)
           a == kids[x]["L"]
           b == kids[x]["R"]
       IN  /\ ~IsLeaf(u) /\ ~IsLeaf(x) /\ key[x] # NO_KEY
           /\ \/ ~IsLeaf(a) /\ Scx(t, u, x,                                \* doRb1
                  <<InitializeNode(key[a], Pair(kids[a]["L"], Fresh(t, 2))),
                    InitializeNode(key[x], Pair(kids[a]["R"], b))>>, {x, a})
              \/ ~IsLeaf(b) /\ Scx(t, u, x,                                \* doRb1Sym
                  <<InitializeNode(key[b], Pair(Fresh(t, 2), kids[b]["R"])),
                    InitializeNode(key[x], Pair(a, kids[b]["L"]))>>, {x, b})
              \/ Scx(t, u, x,                                              \* doBlk
                  <<InitializeNode(key[x], Pair(Fresh(t, 2), Fresh(t, 3))),
                    InitializeNode(key[a], kids[a]),
                    InitializeNode(key[b], kids[b])>>, {x, a, b})
  /\ Goto(t, "propagate")
  /\ UNCHANGED <<searchVars, propVars, ops, retired, history>>

FixDone(t) ==
  /\ pc[t] = "fix"
  /\ Goto(t, "propagate")
  /\ UNCHANGED <<nodeVars, version, searchVars, propVars, ops, retired, history>>

-----------------------------------------------------------------------------
(* propagate: from the top of the stack go down to the key as far as the   *)
(* nodes are not yet refreshed, then take the last one.                    *)
Call(x) == [x |-> x, at |-> "old", old |-> 0, side |-> "L", child |-> NULL,
            v |-> Pair(Nil, Nil)]

(* Mutant: only the nodes that the search pushed are refreshed.            *)
PropagateStackOnly(t) ==
  /\ pc[t] = "propagate"
  /\ frames' = [frames EXCEPT ![t] = <<Call(Top(stack[t]))>>]
  /\ stack' = [stack EXCEPT ![t] = Pop(@)]
  /\ Goto(t, "refresh")
  /\ UNCHANGED <<nodeVars, version, op, p, l, shouldRebalance, set, toRetire, second, ops,
                 retired, history>>

PropagateDown(t) ==
  /\ pc[t] = "propagate"
  /\ LET c == Toward(op[t].key, Top(stack[t]))
     IN  IF ~IsLeaf(c) /\ c \notin set[t]
         THEN /\ stack' = [stack EXCEPT ![t] = Append(@, c)]
              /\ UNCHANGED <<frames, pc>>
         ELSE /\ frames' = [frames EXCEPT ![t] = <<Call(Top(stack[t]))>>]
              /\ stack' = [stack EXCEPT ![t] = Pop(@)]
              /\ Goto(t, "refresh")
  /\ UNCHANGED <<nodeVars, version, op, p, l, shouldRebalance, set, toRetire, second, ops,
                 retired, history>>

-----------------------------------------------------------------------------
(* refresh(x): read the version of x, then for either child the child, its *)
(* version (which it makes first if it is nil), and the child again.       *)
Frame(t) == Top(frames[t])

SetFrame(t, f) == frames' = [frames EXCEPT ![t] = Append(Pop(@), f)]

InRefresh(t, where) == pc[t] = "refresh" /\ Frame(t).at = where

RefreshLocals(t) ==
  UNCHANGED <<nodeVars, version, searchVars, set, toRetire, second, pc, ops, retired, history>>

ReadOld(t) ==
  /\ InRefresh(t, "old")
  /\ SetFrame(t, [Frame(t) EXCEPT !.old = version[Frame(t).x].no, !.at = "child"])
  /\ RefreshLocals(t)

ReadChild(t) ==
  /\ InRefresh(t, "child")
  /\ SetFrame(t, [Frame(t) EXCEPT !.child = kids[Frame(t).x][Frame(t).side],
                                  !.at = "version"])
  /\ RefreshLocals(t)

(* Mutant: a nil version is waited for.                                    *)
ReadVersionBlocking(t) ==
  /\ InRefresh(t, "version")
  /\ LET f == Frame(t)
         v == IF f.child = NULL THEN Nil ELSE version[f.child]
     IN  IF f.child # NULL /\ v.no = 0
         THEN SetFrame(t, [f EXCEPT !.at = "child"])
         ELSE SetFrame(t, [f EXCEPT !.v[f.side] = v, !.at = "again"])
  /\ RefreshLocals(t)

(* Mutant: a nil version is taken for that of an empty subtree.            *)
ReadVersionNilIsEmpty(t) ==
  /\ InRefresh(t, "version")
  /\ LET f == Frame(t)
         v == IF f.child = NULL THEN Nil ELSE version[f.child]
     IN  SetFrame(t, [f EXCEPT !.v[f.side] = v, !.at = "again"])
  /\ RefreshLocals(t)

ReadVersion(t) ==
  /\ InRefresh(t, "version")
  /\ LET f == Frame(t)
         v == IF f.child = NULL THEN Nil ELSE version[f.child]
     IN  IF f.child # NULL /\ v.no = 0
         THEN frames' = [frames EXCEPT ![t] = Append(@, Call(f.child))]
         ELSE SetFrame(t, [f EXCEPT !.v[f.side] = v, !.at = "again"])
  /\ RefreshLocals(t)

ReadChildAgain(t) ==
  /\ InRefresh(t, "again")
  /\ LET f == Frame(t)
     IN  SetFrame(t,
           IF kids[f.x][f.side] # f.child THEN [f EXCEPT !.at = "child"]
           ELSE IF f.side = "L" THEN [f EXCEPT !.side = "R", !.at = "child"]
                                ELSE [f EXCEPT !.at = "cas"])
  /\ RefreshLocals(t)

(* Mutant: the version is stored without comparing. *)
CasSucceedsAlways(f) == TRUE

CasSucceeds(f) == version[f.x].no = f.old

(* Mutant: the old version is retired although the CAS failed.             *)
PushOldAlways(t, f) ==
  toRetire' = [toRetire EXCEPT ![t] = IF f.old = 0 THEN @ ELSE @ \cup {<<f.x, f.old>>}]

PushOld(t, f) ==
  toRetire' = [toRetire EXCEPT ![t] =
                IF f.old = 0 \/ ~CasSucceeds(f) THEN @ ELSE @ \cup {<<f.x, f.old>>}]

(* Mutant: propagate does not call refresh again.                          *)
RefreshAgainNever(t, f) == FALSE

(* propagate calls refresh once more if it failed.                         *)
RefreshAgain(t, f) == ~CasSucceeds(f) /\ ~second[t]

(* The CAS on the version of x, and the return of refresh: to the refresh  *)
(* of the parent, or to propagate.                                         *)
VersionCas(t) ==
  /\ InRefresh(t, "cas")
  /\ LET f == Frame(t)
     IN  /\ version' = [version EXCEPT ![f.x] =
                          IF CasSucceeds(f)
                          THEN NewVersion(f.x, f.old + 1, f.v["L"], f.v["R"]) ELSE @]
         /\ PushOld(t, f)
         /\ IF Len(frames[t]) > 1
            THEN /\ frames' = [frames EXCEPT ![t] = Pop(@)]
                 /\ UNCHANGED <<set, second, pc>>
            ELSE IF RefreshAgain(t, f)
            THEN /\ frames' = [frames EXCEPT ![t] = <<Call(f.x)>>]
                 /\ second' = [second EXCEPT ![t] = TRUE]
                 /\ UNCHANGED <<set, pc>>
            ELSE /\ frames' = [frames EXCEPT ![t] = <<>>]
                 /\ second' = [second EXCEPT ![t] = FALSE]
                 /\ set' = [set EXCEPT ![t] = @ \cup {f.x}]
                 /\ Goto(t, IF f.x = Root THEN "retire" ELSE "propagate")
  /\ owed' = [k \in UsedKey |->
               IF k \in RootKeys <=> k \in RootKeys' THEN owed[k] ELSE owed[k] - 1]
  /\ UNCHANGED <<nodeVars, searchVars, ops, retired, touched>>

(* propagate retires the versions that it replaced, and the operation      *)
(* returns.                                                                *)
RetireVersions(t) ==
  /\ pc[t] = "retire"
  /\ retired' = retired \cup toRetire[t]
  /\ toRetire' = [toRetire EXCEPT ![t] = {}]
  /\ set' = [set EXCEPT ![t] = {}]
  /\ stack' = [stack EXCEPT ![t] = <<>>]
  /\ ops' = [ops EXCEPT ![t] = @ + 1]
  /\ Goto(t, "idle")
  /\ UNCHANGED <<nodeVars, version, op, p, l, shouldRebalance, second, frames, history>>

-----------------------------------------------------------------------------
Step(t) ==
  \/ Start(t) \/ Descend(t) \/ UpdateInsert(t) \/ UpdateErase(t)
  \/ UpdateRebalancingStep(t) \/ FixDone(t) \/ PropagateDown(t)
  \/ ReadOld(t) \/ ReadChild(t) \/ ReadVersion(t) \/ ReadChildAgain(t)
  \/ VersionCas(t) \/ RetireVersions(t)

Finished == \A t \in Thread : pc[t] = "idle" /\ ops[t] = MaxOps[t]

Next == (\E t \in Thread : Step(t)) \/ (Finished /\ UNCHANGED vars)

Spec == Init /\ [][Next]_vars

(* Only thread 1 is sure to be scheduled: the others may stop anywhere.    *)
NonBlockingSpec == Spec /\ WF_vars(Step(1))

-----------------------------------------------------------------------------
Version ==
  [no : Nat, keys : Seq(Nat), sum : Nat, parts : SUBSET (Node \X Nat)]

(* Type invariant: nodes, versions and the locals of the updates, of       *)
(* propagate and of the activations of refresh.                            *)
TypeOK ==
  /\ key \in [Node -> Nat]
  /\ kids \in [Node -> [Side -> Node \cup {NULL}]]
  /\ version \in [Node -> Version]
  /\ tree \subseteq Node
  /\ used \in [Thread -> 0 .. PerThread]
  /\ pc \in [Thread -> {"idle", "search", "fix", "propagate", "refresh", "retire"}]
  /\ ops \in [Thread -> Nat]
  /\ op \in [Thread -> [kind : Kind, key : Nat]]
  /\ stack \in [Thread -> Seq(Node)]
  /\ p \in [Thread -> Node] /\ l \in [Thread -> Node]
  /\ shouldRebalance \in [Thread -> BOOLEAN]
  /\ set \in [Thread -> SUBSET Node]
  /\ toRetire \in [Thread -> SUBSET (Node \X Nat)]
  /\ second \in [Thread -> BOOLEAN]
  /\ frames \in [Thread -> Seq([x : Node, old : Nat, side : Side,
                                child : Node \cup {NULL}, v : [Side -> Version],
                                at : {"old", "child", "version", "again", "cas"}])]
  /\ retired \subseteq Node \X Nat
  /\ touched \in [Thread -> BOOLEAN]
  /\ owed \in [UsedKey -> Int]

TreeKeys == {key[n] : n \in {m \in tree : IsLeaf(m)}} \ {NO_KEY}

(* When propagate returns, the version of the root shows the update, or    *)
(* what a failed insertIfAbsent or erase found, and goes on showing it     *)
(* until another thread changes that key: however many refresh CASes were  *)
(* lost to other threads, and whatever they did to the path meanwhile.     *)
UpdateIsVisible ==
  \A t \in Thread :
    pc[t] = "idle" /\ ~touched[t] => (op[t].key \in RootKeys <=> op[t].key \in TreeKeys)

(* A key that no thread works on, or worked on last, is never lost from,   *)
(* nor left behind in, the version of the root by the propagation of other *)
(* keys, not even for the moment between two refreshes.                    *)
OthersUndisturbed ==
  \A k \in RootKeys \cup TreeKeys :
    (\A t \in Thread : op[t].key # k) => (k \in RootKeys <=> k \in TreeKeys)

(* The version of the root never goes back on a key: it changes its mind   *)
(* about one no more often than the tree does.  A contains that has seen   *)
(* an insertion still under way is thus not followed by one that misses    *)
(* it, although a refresh that read older versions of the children, or     *)
(* children that were replaced since, may come to its CAS in between.      *)
NeverTakenBack == \A k \in UsedKey : owed[k] >= 0

(* Every version that queries can reach is a search tree without           *)
(* duplicates: updates, rebalancing steps and the copies of nodes without  *)
(* versions keep the children in the order in which refresh joins them.    *)
VersionsSorted ==
  \A n \in Node : \A i, j \in DOMAIN version[n].keys :
    i < j => version[n].keys[i] < version[n].keys[j]

(* The sums that range queries add up are right: that of the root's        *)
(* version is the number of keys below it.  (The empty tree is exempt: the *)
(* sentinel leaf that an erase leaves behind is copied with sum 1.)        *)
SumIsSize ==
  version[Root].keys # <<>> => version[Root].sum = Len(version[Root].keys)

(* No version is handed to the reclaimer twice: two threads whose refresh  *)
(* read the same old version do not both retire it.                        *)
RetiredOnce ==
  \A t \in Thread :
    /\ toRetire[t] \cap retired = {}
    /\ \A u \in Thread \ {t} : toRetire[t] \cap toRetire[u] = {}

(* What propagate checks in debug builds before it retires the versions it *)
(* replaced: none of them is still reachable from the version of the root. *)
RetiredUnreachable == retired \cap version[Root].parts = {}

(* Lock-freedom of propagation with respect to a finite number of other    *)
(* operations: a thread completes its own although the others stop         *)
(* anywhere, in particular between making a node without a version and     *)
(* refreshing it.                                                          *)
Completes == <>(ops[1] = MaxOps[1])
=============================================================================
