------------------------------ MODULE LlxScx -------------------------------
(***************************************************************************)
(* llx, scx, help and reclaimMemoryAfterSCX of the augmented chromatic     *)
(* tree (chromatic_impl.h), one action per access to shared memory, driven *)
(* by the updates that use them: updateInsert, updateErase and the         *)
(* rebalancing steps of the shape of doBlk.                                *)
(*                                                                         *)
(* An update finds the nodes it works on by an unsynchronised search, LLXs *)
(* them from the top down, builds replacement nodes and calls scx, which   *)
(* freezes the nodes (their scxRecord fields are made to point to one SCX  *)
(* record), marks all but the first and swings one child pointer of the    *)
(* first.  Threads that meet a frozen node help its SCX to completion.     *)
(***************************************************************************)
EXTENDS TreeShape, Sequences

CONSTANTS
  NumThreads,  \* thread ids are 1..NumThreads
  MaxRec,      \* bound: SCX records are 1..MaxRec
  Plans        \* bound: what the threads do.  A plan gives each thread the
               \* kinds of update that it attempts until one succeeds, then
               \* until a second one does ...

ASSUME BoundAssumption ==
  /\ NumThreads \in Nat /\ MaxRec \in Nat 
  /\ Plans \subseteq [1 .. NumThreads -> Seq(SUBSET Op)]
  /\ InitNode = 1 .. Cardinality(InitNode)
  /\ Cardinality(InitNode) + 3 * NumThreads <= MaxNode
  /\ NumThreads <= MaxRec

Thread == 1 .. NumThreads
Dummy == 0                          \* the record new nodes point to
Rec == 0 .. MaxRec
Leaf == -1                          \* LLX_RETURN_IS_LEAF
State == {"InProgress", "Committed", "Aborted"}

VARIABLES
  plan,                       \* one of Plans
  child, scxRecord, marked,   \* fields of the nodes
  desc,                       \* SCX records: what their creator writes once
  state, flags, high,         \* ... the state word, with the bit fields of
  allFrozen,                  \*     an aborted one, and allFrozen
  spare, spareRec,            \* allocatedNodes[tid], allocatedSCXRecord[tid]
  nextNode, nextRec,          \* the allocator: addresses in order
  retiredRec, retiredNode,    \* how often each was passed to retire
  pc,                         \* where the thread is
  upd,                        \* locals of an update
  k,                          \* loop index into nodes[]
  lx,                         \* locals of llx
  hp,                         \* locals of help, and what it returned to scx
  ops,                        \* successful updates
  linked, removed             \* history: the nodes that updates put in the
                              \* tree and took out of it

nodeVars == <<child, scxRecord, marked>>
recVars == <<desc, state, flags, high, allFrozen>>
allocVars == <<spare, spareRec, nextNode, nextRec>>
retireVars == <<retiredRec, retiredNode>>
treeVars == <<linked, removed>>
shared == <<nodeVars, recVars, allocVars, retireVars, treeVars>>
locals == <<pc, upd, k, lx, hp, ops>>
vars == <<plan, shared, locals>>

(* nodes[], llxResults[], which child of nodes[0] is nodes[1], and the     *)
(* children of nodes[2] and nodes[3] as read for the nodes that copy them. *)
NoUpd == [op |-> "INS", nd |-> [i \in Idx |-> NULL],
          seen |-> [i \in Idx |-> Leaf], side |-> "L",
          rd |-> [i \in 3 .. 4 |-> NoKids]]
NoLx == [scx1 |-> Dummy, st |-> "Aborted", lr |-> NoKids]
NoHp == [s |-> Dummy, own |-> FALSE, flags |-> {}, st |-> "Aborted", high |-> 0]
NoDesc == [type |-> "INS", nd |-> [i \in Idx |-> NULL],
           seen |-> [i \in Idx |-> Leaf], side |-> "L",
           new |-> [i \in 1 .. 3 |-> NULL]]

Init ==
  /\ child = [n \in Node |-> IF n \in InitNode THEN InitKids[n] ELSE NoKids]
  /\ scxRecord = [n \in Node |-> Dummy]
  /\ marked = [n \in Node |-> FALSE]
  /\ desc = [s \in Rec |-> NoDesc]
  /\ state = [s \in Rec |-> "Aborted"]
  /\ flags = [s \in Rec |-> {}]
  /\ high = [s \in Rec |-> 0]
  /\ allFrozen = [s \in Rec |-> FALSE]
  /\ spare = [t \in Thread |->
                [i \in 1 .. 3 |-> Cardinality(InitNode) + 3 * (t - 1) + i]]
  /\ spareRec = [t \in Thread |-> t]
  /\ nextNode = Cardinality(InitNode) + 3 * NumThreads + 1
  /\ nextRec = NumThreads + 1
  /\ retiredRec = [s \in Rec |-> 0]
  /\ retiredNode = [n \in Node |-> 0]
  /\ pc = [t \in Thread |-> "idle"]
  /\ upd = [t \in Thread |-> NoUpd]
  /\ k = [t \in Thread |-> 1]
  /\ lx = [t \in Thread |-> NoLx]
  /\ hp = [t \in Thread |-> NoHp]
  /\ ops = [t \in Thread |-> 0]
  /\ plan \in Plans
  /\ linked = InitNode
  /\ removed = {}

IsLeaf(n) == child[n]["L"] = NULL

Goto(t, l) == pc' = [pc EXCEPT ![t] = l]

(* The update is over, or failed and will be retried from a new search.    *)
Return(t) ==
  /\ Goto(t, "idle")
  /\ upd' = [upd EXCEPT ![t] = NoUpd]
  /\ k' = [k EXCEPT ![t] = 1]
  /\ lx' = [lx EXCEPT ![t] = NoLx]
  /\ hp' = [hp EXCEPT ![t] = NoHp]

-----------------------------------------------------------------------------
(* The search phase: the traversal decides on an update and ends with the  *)
(* node to change, its child and, for an erase or a rebalancing step, a    *)
(* grandchild.  They are in the tree now (see RemovedIsUnreachable) and    *)
(* may be stale when used.                                                 *)
Search(t) ==
  /\ pc[t] = "idle" /\ ops[t] < Len(plan[t])
  /\ spareRec[t] # Dummy /\ NULL \notin {spare[t][i] : i \in 1 .. 3}
  /\ \E u \in linked \ removed, d, e \in Side, o \in plan[t][ops[t] + 1] :
       LET x == child[u][d]
           y == child[x][e]
       IN  /\ x # NULL
           /\ o \in {"INS", "REPLACE"} <=> IsLeaf(x)
           /\ o = "DEL" => IsLeaf(y)
           /\ o # "DEL" => e = "L"
           /\ upd' = [upd EXCEPT ![t].op = o,
                ![t].nd = [i \in Idx |-> IF i = 1 THEN u
                                         ELSE IF i = 2 THEN x
                                         ELSE IF o = "DEL" /\ i = 4 THEN y
                                         ELSE IF o = "BLK" /\ i = 3 THEN y
                                         ELSE NULL]]
  /\ Goto(t, "llx")
  /\ UNCHANGED <<shared, k, lx, hp, ops>>

-----------------------------------------------------------------------------
(* llx(nodes[k])                                                           *)
LlxNode(t) == upd[t].nd[k[t]]

CallHelp(t, s, own) ==
  /\ hp' = [hp EXCEPT ![t].s = s, ![t].own = own]
  /\ Goto(t, "help")

LlxReadRecord(t) ==
  /\ pc[t] = "llx"
  /\ lx' = [lx EXCEPT ![t].scx1 = scxRecord[LlxNode(t)]]
  /\ Goto(t, "llxState")
  /\ UNCHANGED <<shared, upd, k, hp, ops>>

LlxReadState(t) ==
  /\ pc[t] = "llxState"
  /\ lx' = [lx EXCEPT ![t].st = state[lx[t].scx1]]
  /\ Goto(t, "llxMarked")
  /\ UNCHANGED <<shared, upd, k, hp, ops>>

(* Mutant: llx takes a finalized node for one that can be changed.         *)
LlxReadMarkedIgnored(t) ==
  /\ pc[t] = "llxMarked"
  /\ IF lx[t].st = "InProgress" THEN CallHelp(t, lx[t].scx1, FALSE)
                                ELSE Goto(t, "llxLeft") /\ UNCHANGED hp
  /\ UNCHANGED <<shared, upd, k, lx, ops>>

(* Mutant: llx fails without helping the SCX in its way.                   *)
LlxReadMarkedNoHelp(t) ==
  /\ pc[t] = "llxMarked"
  /\ IF lx[t].st = "InProgress" THEN Return(t)
     ELSE /\ Goto(t, IF lx[t].st = "Committed" /\ marked[LlxNode(t)]
                     THEN "llxThird" ELSE "llxLeft")
          /\ UNCHANGED <<upd, k, lx, hp>>
  /\ UNCHANGED <<shared, ops>>

LlxReadMarked(t) ==
  /\ pc[t] = "llxMarked"
  /\ \/ /\ \/ lx[t].st = "Aborted"
           \/ lx[t].st = "Committed" /\ ~marked[LlxNode(t)]
        /\ Goto(t, "llxLeft") /\ UNCHANGED hp
     \/ /\ lx[t].st = "InProgress"
        /\ CallHelp(t, lx[t].scx1, FALSE)
     \/ /\ lx[t].st = "Committed" /\ marked[LlxNode(t)]
        /\ Goto(t, "llxThird") /\ UNCHANGED hp
  /\ UNCHANGED <<shared, upd, k, lx, ops>>

LlxReadLeft(t) ==
  /\ pc[t] = "llxLeft"
  /\ lx' = [lx EXCEPT ![t].lr["L"] = child[LlxNode(t)]["L"]]
  /\ Goto(t, "llxRight")
  /\ UNCHANGED <<shared, upd, k, hp, ops>>

(* What the updates do with the result r and the children lr of llx: check *)
(* that the node of the search is still a child, take the remaining nodes  *)
(* from the children, go on to the next LLX or to building the new nodes.  *)
LlxReturn(t, r, lr) ==
  LET u == upd[t]
      i == k[t]
      v == [u EXCEPT !.seen[i] = r]
      next(w, l) ==
        /\ upd' = [upd EXCEPT ![t] = w]
        /\ Goto(t, l)
        /\ k' = [k EXCEPT ![t] = IF l = "llx" THEN i + 1 ELSE 1]
        /\ lx' = [lx EXCEPT ![t] = NoLx]
        /\ UNCHANGED hp
  IN  \/ /\ i = 1 /\ u.nd[2] \in {lr["L"], lr["R"]}
         /\ next([v EXCEPT !.side = IF u.nd[2] = lr["L"] THEN "L" ELSE "R"],
                 IF u.op \in {"INS", "REPLACE"} THEN "scx" ELSE "llx")
      \/ /\ i = 2 /\ u.op = "DEL" /\ u.nd[4] \in {lr["L"], lr["R"]}
         /\ next([v EXCEPT !.nd[3] = IF u.nd[4] = lr["L"] THEN lr["R"] ELSE lr["L"]],
                 "llx")
      \/ /\ i = 2 /\ u.op = "BLK" /\ u.nd[3] = lr["L"]
         /\ next([v EXCEPT !.nd[4] = lr["R"]], "llx")
      \/ /\ i = 3 /\ u.op = "DEL"
         /\ next([v EXCEPT !.rd[3] = lr], "scx")
      \/ /\ i = 3 /\ u.op = "BLK"
         /\ next(v, "llx")
      \/ /\ i = 4
         /\ next(v, "build")
      \/ /\ \/ i = 1 /\ u.nd[2] \notin {lr["L"], lr["R"]}
            \/ i = 2 /\ u.op = "DEL" /\ u.nd[4] \notin {lr["L"], lr["R"]}
            \/ i = 2 /\ u.op = "BLK" /\ u.nd[3] # lr["L"]
         /\ Return(t)

LlxReadRight(t) ==
  /\ pc[t] = "llxRight"
  /\ LET lr == [lx[t].lr EXCEPT !["R"] = child[LlxNode(t)]["R"]]
     IN  \/ /\ lr["L"] = NULL
            /\ LlxReturn(t, Leaf, lr)
         \/ /\ lr["L"] # NULL
            /\ lx' = [lx EXCEPT ![t].lr = lr]
            /\ Goto(t, "llxReread")
            /\ UNCHANGED <<upd, k, hp>>
  /\ UNCHANGED <<shared, ops>>

LlxReread(t) ==
  /\ pc[t] = "llxReread"
  /\ LET scx2 == scxRecord[LlxNode(t)]
     IN  \/ /\ scx2 = lx[t].scx1
            /\ LlxReturn(t, lx[t].scx1, lx[t].lr)
         \/ /\ scx2 # lx[t].scx1
            /\ CallHelp(t, scx2, FALSE)
            /\ UNCHANGED <<upd, k, lx>>
  /\ UNCHANGED <<shared, ops>>

LlxThird(t) ==
  /\ pc[t] = "llxThird"
  /\ CallHelp(t, scxRecord[LlxNode(t)], FALSE)
  /\ UNCHANGED <<shared, upd, k, lx, ops>>
-----------------------------------------------------------------------------
(* A rebalancing step builds its copies from children that it loads again, *)
(* after the LLXs: step k of four reads one child pointer of nodes[2] or   *)
(* nodes[3].                                                               *)
Build(t) ==
  /\ pc[t] = "build"
  /\ LET i == IF k[t] <= 2 THEN 3 ELSE 4
         d == IF k[t] \in {1, 3} THEN "L" ELSE "R"
     IN  upd' = [upd EXCEPT ![t].rd[i][d] = child[upd[t].nd[i]][d]]
  /\ IF k[t] < 4 THEN k' = [k EXCEPT ![t] = @ + 1] /\ UNCHANGED pc
                 ELSE k' = [k EXCEPT ![t] = 1] /\ Goto(t, "scx")
  /\ UNCHANGED <<shared, lx, hp, ops>>

(* scx: initialise the new nodes and the SCX record.  Both are private to  *)
(* the thread until the first freezing CAS publishes the record.           *)
Scx(t) ==
  /\ pc[t] = "scx"
  /\ LET u == upd[t]
         s == spareRec[t]
         new == NewNodes(u.op, spare[t])
     IN  /\ child' = [n \in Node |->
              IF n \in new THEN NewKids(u.op, spare[t], u.rd[3], u.rd[4])[n]
                           ELSE child[n]]
         /\ scxRecord' = [n \in Node |-> IF n \in new THEN Dummy ELSE scxRecord[n]]
         /\ marked' = [n \in Node |-> IF n \in new THEN FALSE ELSE marked[n]]
         /\ desc' = [desc EXCEPT ![s] = [type |-> u.op, nd |-> u.nd, seen |-> u.seen,
                                         side |-> u.side, new |-> spare[t]]]
         /\ state' = [state EXCEPT ![s] = "InProgress"]
         /\ allFrozen' = [allFrozen EXCEPT ![s] = FALSE]
         /\ CallHelp(t, s, TRUE)
  /\ UNCHANGED <<flags, high, allocVars, retireVars, treeVars, upd, k, lx, ops>>

-----------------------------------------------------------------------------
(* help(scx, helpingOther)                                                 *)

(* The positions i.. of nodes[] that help freezes and marks: not leaves.   *)
ToFreeze(s, i) ==
  {j \in i .. NUM_TO_FREEZE[desc[s].type] : desc[s].seen[j] # Leaf}

(* The loops over nodes[]: at the next position from i on, or past the end.*)
Loop(t, i, at, past) ==
  LET todo == ToFreeze(hp[t].s, i)
  IN  IF todo = {}
      THEN Goto(t, past) /\ k' = [k EXCEPT ![t] = 1]
      ELSE /\ Goto(t, at)
           /\ \E j \in todo : (\A m \in todo : j <= m) /\ k' = [k EXCEPT ![t] = j]

(* help returns a state word: to scx, which then reclaims memory, or to    *)
(* llx, which then fails and makes the update start over.                  *)
HelpReturn(t, st, hi) ==
  IF hp[t].own
  THEN /\ hp' = [hp EXCEPT ![t].st = st, ![t].high = hi]
       /\ Goto(t, "reclaim") /\ k' = [k EXCEPT ![t] = 1]
       /\ UNCHANGED <<upd, lx>>
  ELSE Return(t)

(* Mutant: flags starts empty, without the bit of nodes[0].                *)
HelpStartNoFlag(t) ==
  /\ pc[t] = "help"
  /\ LET s == hp[t].s
     IN  IF state[s] # "InProgress"
         THEN HelpReturn(t, state[s], high[s])
         ELSE /\ Loop(t, IF hp[t].own THEN 1 ELSE 2, "freeze", "setAllFrozen")
              /\ UNCHANGED <<upd, lx, hp>>
  /\ UNCHANGED <<shared, ops>>

HelpStart(t) ==
  /\ pc[t] = "help"
  /\ LET s == hp[t].s
     IN  IF state[s] # "InProgress"
         THEN HelpReturn(t, state[s], high[s])
         ELSE /\ hp' = [hp EXCEPT ![t].flags = {1}]
              /\ Loop(t, IF hp[t].own THEN 1 ELSE 2, "freeze", "setAllFrozen")
              /\ UNCHANGED <<upd, lx>>
  /\ UNCHANGED <<shared, ops>>

FreezeCas(t) ==
  /\ pc[t] = "freeze"
  /\ LET s == hp[t].s
         n == desc[s].nd[k[t]]
     IN  \/ /\ scxRecord[n] \in {desc[s].seen[k[t]], s}
            /\ scxRecord' = [scxRecord EXCEPT ![n] = s]
            /\ hp' = [hp EXCEPT ![t].flags = @ \cup {k[t]}]
            /\ Loop(t, k[t] + 1, "freeze", "setAllFrozen")
         \/ /\ scxRecord[n] \notin {desc[s].seen[k[t]], s}
            /\ Goto(t, "readAllFrozen")
            /\ UNCHANGED <<scxRecord, hp, k>>
  /\ UNCHANGED <<child, marked, recVars, allocVars, retireVars, treeVars, upd, lx, ops>>

(* A freezing CAS failed: with allFrozen set the SCX would be done; on the *)
(* first node nobody knows of the record and no state is written.          *)
ReadAllFrozen(t) ==
  /\ pc[t] = "readAllFrozen"
  /\ IF allFrozen[hp[t].s] THEN HelpReturn(t, "Committed", 0)
     ELSE IF k[t] = 1 THEN HelpReturn(t, "Aborted", 0)
     ELSE Goto(t, "abort") /\ UNCHANGED <<upd, k, lx, hp>>
  /\ UNCHANGED <<shared, ops>>

AbortCas(t) ==
  /\ pc[t] = "abort"
  /\ LET s == hp[t].s
     IN  IF state[s] = "InProgress"
         THEN /\ state' = [state EXCEPT ![s] = "Aborted"]
              /\ flags' = [flags EXCEPT ![s] = hp[t].flags]
              /\ high' = [high EXCEPT ![s] = k[t] - 1]
              /\ HelpReturn(t, "Aborted", k[t] - 1)
         ELSE /\ HelpReturn(t, state[s], high[s])
              /\ UNCHANGED <<state, flags, high>>
  /\ UNCHANGED <<nodeVars, desc, allFrozen, allocVars, retireVars, treeVars, ops>>

SetAllFrozen(t) ==
  /\ pc[t] = "setAllFrozen"
  /\ allFrozen' = [allFrozen EXCEPT ![hp[t].s] = TRUE]
  /\ Loop(t, 2, "mark", "update")
  /\ UNCHANGED <<nodeVars, desc, state, flags, high, allocVars, retireVars,
                 treeVars, upd, lx, hp, ops>>

Mark(t) ==
  /\ pc[t] = "mark"
  /\ marked' = [marked EXCEPT ![desc[hp[t].s].nd[k[t]]] = TRUE]
  /\ Loop(t, k[t] + 1, "mark", "update")
  /\ UNCHANGED <<child, scxRecord, recVars, allocVars, retireVars, treeVars,
                 upd, lx, hp, ops>>

UpdateCas(t) ==
  /\ pc[t] = "update"
  /\ LET d == desc[hp[t].s]
     IN  IF child[d.nd[1]][d.side] = d.nd[2]
         THEN /\ child' = [child EXCEPT ![d.nd[1]][d.side] = NewRoot(d.type, d.new)]
              /\ linked' = linked \cup NewNodes(d.type, d.new)
              /\ removed' = removed \cup Replaced(d.type, d.nd)
         ELSE UNCHANGED <<child, treeVars>>
  /\ Goto(t, "commit")
  /\ UNCHANGED <<scxRecord, marked, recVars, allocVars, retireVars, upd, k, lx, hp, ops>>

Commit(t) ==
  /\ pc[t] = "commit"
  /\ state' = [state EXCEPT ![hp[t].s] = "Committed"]
  /\ HelpReturn(t, "Committed", 0)
  /\ UNCHANGED <<nodeVars, desc, flags, high, allFrozen, allocVars, retireVars,
                 treeVars, ops>>

-----------------------------------------------------------------------------
(* reclaimMemoryAfterSCX, after scx left the epoch                         *)
HighestIndexReached(t) ==
  IF hp[t].st = "Committed" THEN NUM_TO_FREEZE[upd[t].op] ELSE hp[t].high

(* A record that was never installed is used again.  Otherwise the thread  *)
(* allocates another and, if the SCX committed, NUM_INSERTED new nodes.    *)
Reclaim(t) ==
  /\ pc[t] = "reclaim"
  /\ LET new == IF hp[t].st = "Committed" THEN NUM_INSERTED[upd[t].op] ELSE 0
         node(i) == IF nextNode + i - 1 <= MaxNode THEN nextNode + i - 1 ELSE NULL
     IN  IF HighestIndexReached(t) = 0
         THEN Return(t) /\ UNCHANGED allocVars
         ELSE /\ spareRec' = [spareRec EXCEPT ![t] =
                                IF nextRec <= MaxRec THEN nextRec ELSE Dummy]
              /\ nextRec' = nextRec + 1
              /\ spare' = [spare EXCEPT ![t] =
                             [i \in 1 .. 3 |-> IF i <= new THEN node(i) ELSE @[i]]]
              /\ nextNode' = nextNode + new
              /\ Goto(t, "retire")
              /\ UNCHANGED <<upd, k, lx, hp>>
  /\ UNCHANGED <<nodeVars, recVars, retireVars, treeVars, ops>>

(* Mutant: the first node to leave an aborted record retires it.           *)
TryRetireEagerly(r, n) ==
  IF r \in {Leaf, Dummy} THEN UNCHANGED <<flags, retiredRec>>
  ELSE /\ retiredRec' = [retiredRec EXCEPT ![r] = @ + 1]
       /\ UNCHANGED flags

(* tryRetireSCXRecord(r, n), where nodes[k] = n no longer points to r.     *)
TryRetire(r, n) ==
  LET at == {i \in 1 .. NUM_TO_FREEZE[desc[r].type] : desc[r].nd[i] = n}
      left == flags[r] \ at
  IN  IF r \in {Leaf, Dummy} THEN UNCHANGED <<flags, retiredRec>>
      ELSE IF state[r] = "Committed"
      THEN /\ retiredRec' = [retiredRec EXCEPT ![r] = @ + 1]
           /\ UNCHANGED flags
      ELSE /\ flags' = [flags EXCEPT ![r] = left]
           /\ retiredRec' = [retiredRec EXCEPT ![r] =
                               IF at # {} /\ left = {} THEN @ + 1 ELSE @]

(* Mutant: the loop runs one position too far (j <= highestIndexReached).  *)
RetireRecordTooFar(t) ==
  /\ pc[t] = "retire"
  /\ TryRetire(upd[t].seen[k[t]], upd[t].nd[k[t]])
  /\ IF k[t] <= HighestIndexReached(t)
     THEN k' = [k EXCEPT ![t] = @ + 1] /\ UNCHANGED pc
     ELSE k' = [k EXCEPT ![t] = 1] /\ Goto(t, "retireNodes")
  /\ UNCHANGED <<nodeVars, desc, state, high, allFrozen, allocVars, retiredNode,
                 treeVars, upd, lx, hp, ops>>

(* Mutant: the loop starts at nodes[1].                                    *)
RetireRecordNotFirst(t) ==
  /\ pc[t] = "retire"
  /\ IF k[t] = 1 THEN UNCHANGED <<flags, retiredRec>>
     ELSE TryRetire(upd[t].seen[k[t]], upd[t].nd[k[t]])
  /\ IF k[t] < HighestIndexReached(t)
     THEN k' = [k EXCEPT ![t] = @ + 1] /\ UNCHANGED pc
     ELSE k' = [k EXCEPT ![t] = 1] /\ Goto(t, "retireNodes")
  /\ UNCHANGED <<nodeVars, desc, state, high, allFrozen, allocVars, retiredNode,
                 treeVars, upd, lx, hp, ops>>

RetireRecord(t) ==
  /\ pc[t] = "retire"
  /\ TryRetire(upd[t].seen[k[t]], upd[t].nd[k[t]])
  /\ IF k[t] < HighestIndexReached(t)
     THEN k' = [k EXCEPT ![t] = @ + 1] /\ UNCHANGED pc
     ELSE k' = [k EXCEPT ![t] = 1] /\ Goto(t, "retireNodes")
  /\ UNCHANGED <<nodeVars, desc, state, high, allFrozen, allocVars, retiredNode,
                 treeVars, upd, lx, hp, ops>>

(* nodes[1..] of a committed SCX are retired, and the update is done.      *)
RetireNodes(t) ==
  /\ pc[t] = "retireNodes"
  /\ IF hp[t].st = "Committed"
     THEN /\ retiredNode' = [n \in Node |->
               IF n \in Replaced(upd[t].op, upd[t].nd) THEN retiredNode[n] + 1
                                                       ELSE retiredNode[n]]
          /\ ops' = [ops EXCEPT ![t] = @ + 1]
     ELSE UNCHANGED <<retiredNode, ops>>
  /\ Return(t)
  /\ UNCHANGED <<nodeVars, recVars, allocVars, retiredRec, treeVars>>

-----------------------------------------------------------------------------
Step(t) ==
  /\ UNCHANGED plan
  /\ \/ Search(t)
     \/ LlxReadRecord(t) \/ LlxReadState(t) \/ LlxReadMarked(t) \/ LlxReadLeft(t)
     \/ LlxReadRight(t) \/ LlxReread(t) \/ LlxThird(t)
     \/ Build(t) \/ Scx(t)
     \/ HelpStart(t) \/ FreezeCas(t) \/ ReadAllFrozen(t) \/ AbortCas(t)
     \/ SetAllFrozen(t) \/ Mark(t) \/ UpdateCas(t) \/ Commit(t)
     \/ Reclaim(t) \/ RetireRecord(t) \/ RetireNodes(t)

(* Every thread has done its updates.                                      *)
Finished == \A t \in Thread : pc[t] = "idle" /\ ops[t] = Len(plan[t])

Next == (\E t \in Thread : Step(t)) \/ (Finished /\ UNCHANGED vars)

Spec == Init /\ [][Next]_vars

(* Liveness is stated with fairness for one thread only: the others may be *)
(* descheduled for ever at any point.                                      *)
NonBlockingSpec == Spec /\ WF_vars(Step(1))

-----------------------------------------------------------------------------
(* Properties                                                              *)

PC == {"idle", "llx", "llxState", "llxMarked", "llxLeft", "llxRight", "llxReread",
       "llxThird", "build", "scx", "help", "freeze", "readAllFrozen", "abort",
       "setAllFrozen", "mark", "update", "commit", "reclaim", "retire", "retireNodes"}
Nodes == [Idx -> Node \cup {NULL}]
Seen == [Idx -> Rec \cup {Leaf}]

(* Type invariant: nodes, SCX records and the locals of llx, scx and help. *)
TypeOK ==
  /\ child \in [Node -> Kids]
  /\ scxRecord \in [Node -> Rec]
  /\ marked \in [Node -> BOOLEAN]
  /\ desc \in [Rec -> [type : Op, nd : Nodes, seen : Seen, side : Side,
                       new : [1 .. 3 -> Node \cup {NULL}]]]
  /\ state \in [Rec -> State]
  /\ flags \in [Rec -> SUBSET Idx]
  /\ high \in [Rec -> 0 .. 4]
  /\ allFrozen \in [Rec -> BOOLEAN]
  /\ spare \in [Thread -> [1 .. 3 -> Node \cup {NULL}]]
  /\ spareRec \in [Thread -> Rec]
  /\ nextNode \in Nat
  /\ nextRec \in Nat
  /\ retiredRec \in [Rec -> Nat]
  /\ retiredNode \in [Node -> Nat]
  /\ pc \in [Thread -> PC]
  /\ upd \in [Thread -> [op : Op, nd : Nodes, seen : Seen, side : Side,
                         rd : [3 .. 4 -> Kids]]]
  /\ k \in [Thread -> Idx]
  /\ lx \in [Thread -> [scx1 : Rec, st : State, lr : Kids]]
  /\ hp \in [Thread -> [s : Rec, own : BOOLEAN, flags : SUBSET Idx, st : State,
                        high : 0 .. 4]]
  /\ ops \in [Thread -> Nat]
  /\ plan \in Plans
  /\ linked \subseteq Node
  /\ removed \subseteq Node

(* The assertions in help, llx and tryRetireSCXRecord that later steps     *)
(* rely on: help is never asked to help the dummy; a freezing CAS that     *)
(* fails after allFrozen was set finds the SCX committed; an SCX about to  *)
(* be aborted is not committed and one about to be committed not aborted;  *)
(* a finalized node never points to an aborted record; the record that a   *)
(* freezing CAS replaced is done, and if it was aborted then the flag for  *)
(* the node that pointed to it is still on.                                *)
Assertions ==
  /\ \A t \in Thread :
       LET s == hp[t].s
           r == upd[t].seen[k[t]]
           n == upd[t].nd[k[t]]
       IN  /\ pc[t] = "help" => s # Dummy
           /\ pc[t] = "readAllFrozen" /\ allFrozen[s] => state[s] = "Committed"
           /\ pc[t] = "abort" => state[s] # "Committed"
           /\ pc[t] = "commit" => state[s] # "Aborted"
           /\ pc[t] = "retire" /\ r \notin {Leaf, Dummy} =>
                /\ state[r] # "InProgress"
                /\ state[r] = "Aborted" => \E i \in flags[r] : desc[r].nd[i] = n
  /\ \A n \in linked : marked[n] => state[scxRecord[n]] # "Aborted"

(* LLX and SCX give the tree code its updates in one step: at the update   *)
(* CAS the copies that the update built from earlier reads still agree     *)
(* with the nodes they replace, no replaced node was replaced before, and  *)
(* no helper repeats the CAS, however late it comes.                       *)
Atomic == INSTANCE AtomicScx WITH
  kids <- [n \in Node |-> IF n \in linked THEN child[n] ELSE NoKids],
  present <- linked,
  removed <- removed

AtomicUpdates == Atomic!ASpec

(* nodes[1..] of a committed SCX are exactly the nodes that the update CAS *)
(* cut off: what reclaimMemoryAfterSCX retires is out of reach, and what   *)
(* is out of reach will be retired.                                        *)
RemovedIsUnreachable ==
  LET reach[i \in 0 .. MaxNode] ==
        IF i = 0 THEN {Root}
        ELSE LET r == reach[i-1]
             IN  r \cup ({child[n][d] : n \in r, d \in Side} \ {NULL})
  IN  linked \ removed = reach[Cardinality(linked \ removed)]

(* Retirement is sound: no node and no record is retired twice, a retired  *)
(* node is out of the tree and no node in the tree points to a retired SCX *)
(* record.                                                                 *)
RetireSound ==
  /\ \A n \in Node : /\ retiredNode[n] <= 1
                     /\ retiredNode[n] = 1 => n \in removed
  /\ \A s \in Rec : /\ retiredRec[s] <= 1
                    /\ retiredRec[s] = 1 => \A n \in linked \ removed : scxRecord[n] # s

(* Retirement is complete: once no update is under way, every removed node *)
(* has been retired, and so has every record that was installed and that   *)
(* no node in the tree points to any more.                                 *)
RetireComplete ==
  (\A t \in Thread : pc[t] = "idle") =>
    /\ \A n \in removed : retiredNode[n] = 1
    /\ \A s \in (1 .. nextRec - 1) \ {spareRec[t] : t \in Thread} :
         \/ retiredRec[s] = 1
         \/ \E n \in linked \ removed : scxRecord[n] = s

(* A node that help has marked is final: no late freezing CAS, update CAS  *)
(* or re-initialisation changes it, so whoever reads it later sees what it *)
(* held when it left the tree.                                             *)
Final ==
  \A n \in linked : marked[n] =>
    /\ n \in linked' /\ marked'[n]
    /\ child'[n] = child[n] /\ scxRecord'[n] = scxRecord[n]
FinalizedForever == [][Final]_vars

(* Updates are non-blocking: a thread that keeps running completes its     *)
(* updates even if the others stop at the worst moment, because llx helps  *)
(* the SCX that is in its way.                                             *)
NonBlocking == <>(ops[1] = Len(plan[1]))

(* help's comment on reclaiming committed records: such a record "will be  *)
(* retired AFTER all nodes that point to it are retired".                  *)
RetiredAfterItsNodes ==
  \A s \in Rec : retiredRec[s] > 0 /\ state[s] = "Committed" =>
    \A n \in Node : scxRecord[n] = s => retiredNode[n] > 0
=============================================================================
