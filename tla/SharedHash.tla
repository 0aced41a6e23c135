----------------------------- MODULE SharedHash -----------------------------
(***************************************************************************)
(* One hash table of mt_shared_hash.c in shared memory, seen as what its   *)
(* callers share: the doubly linked list through the used nodes, and the   *)
(* flag bHashUseFlag under which InsertHashNode and RemoveHashNode change  *)
(* it.  Processes of the reporting API insert; the agent drains the table  *)
(* (the loop of ReadAttr) and resets it when the list looks broken.        *)
(*                                                                         *)
(* A call under the flag is the sequence of its stores to the shared       *)
(* memory, one step each: a process may die between any two of them.       *)
(***************************************************************************)
EXTENDS Integers, Sequences, FiniteSets

CONSTANTS
  Writers,         \* processes of the API, which insert
  Agent,           \* the process that drains the table
  Crashers,        \* the processes that may die inside a call
  RealNodeCount,   \* dwRealNodeCount: nodes of all rows
  ResetCount,      \* nodes that the memset of ResetHashTable covers
  MaxRead,         \* MAX_ATTR_READ_PER_EACH
  FlagTimeout,     \* seconds after which a waiter clears bHashUseFlag (2)
  MaxCount         \* bound: nobody dies while dwNodeUseCount is above it

ASSUME HashSizes ==
  /\ RealNodeCount \in Nat \ {0}
  /\ ResetCount \in Nat /\ ResetCount <= RealNodeCount
  /\ MaxRead \in Nat \ {0}
  /\ FlagTimeout \in Nat
  /\ MaxCount \in Nat

ASSUME HashProcs ==
  /\ Agent \notin Writers
  /\ Crashers \subseteq Writers \cup {Agent}

Procs == Writers \cup {Agent}
Node  == 0 .. RealNodeCount - 1
None  == RealNodeCount    \* "no node" as an index
Cell  == 0 .. RealNodeCount    \* the memory behind the last node is there, and zero
Wrap  == -1               \* dwNodeUseCount (uint32_t) one below zero
Old   == FlagTimeout + 1  \* age of a stamp that is 0 or past the time-out

VARIABLES
  tab,     \* the table: used, pre, nxt of every node, start, end, count of its head
  flag,    \* bHashUseFlag
  age,     \* seconds since dwLastUseTimeSec, saturated at Old
  claim,   \* bSyncProcess of every node is not 0
  pc, arg, script, ret,    \* per process: label, node, stores to come, label after a reset
  cur, curRev,             \* dwCurIndex, dwCurIndexRevers of the agent
  rev, acc, reads,         \* bReverse, bAccessCheck, wReadAttrCount of the agent
  wiped,   \* history: the holder's stamp was cleared by the holder before it
  taint    \* history: the ways in which exclusion or a call was broken

locals == <<pc, arg, script, ret>>
agent  == <<cur, curRev, rev, acc, reads>>
vars   == <<tab, flag, age, claim, locals, agent, wiped, taint>>

Unstamped == {"stamp", "r_stamp"}
Stamped   == {"adv", "plan", "run", "rel", "r_mem", "r_run", "r_rel"}
DrainLabels == {"d_first", "d_null", "d_firstrev", "d_node", "d_clear", "d_cur", "d_end",
                "d_acc"}
Labels == {"idle", "cas", "busy", "steal", "clr", "fail", "r_cas"} \cup DrainLabels
            \cup Unstamped \cup Stamped
Holds(p) == pc[p] \in Unstamped \cup Stamped

Taints == {"slow",        \* the flag cleared under a live holder after the time-out
           "unstamped",   \* ... under one that had not written the stamp yet
           "cleared",     \* ... under one whose stamp the holder before it cleared
           "checked",     \* ... by the agent's access check
           "resumed",     \* a removal went on after a reset had released the flag
           "doubled",     \* a node given to a second inserter
           "kept",        \* a reset left a used node behind
           "torn"}        \* a crash of a holder

Table == [used : [Cell -> BOOLEAN], pre : [Cell -> Cell], nxt : [Cell -> Cell],
          start : Cell, end : Cell, count : Int]

(* A store to a field f of the head, or of node i. *)
Store == [f : {"start", "end"}, i : {None}, v : Cell] \cup [f : {"count"}, i : {None}, v : Int]
         \cup [f : {"pre", "nxt"}, i : Cell, v : Cell] \cup [f : {"used"}, i : Cell, v : BOOLEAN]

(* What the fields of the table and the locals may hold. *)
TypeOK ==
  /\ tab \in Table
  /\ flag \in {0, 1} /\ age \in 0 .. Old
  /\ claim \in [Node -> BOOLEAN]
  /\ pc \in [Procs -> Labels] /\ arg \in [Procs -> Cell]
  /\ script \in [Procs -> Seq(Store)] /\ ret \in [Procs -> Labels]
  /\ cur \in Cell /\ curRev \in Cell
  /\ rev \in BOOLEAN /\ acc \in BOOLEAN /\ reads \in 0 .. MaxRead
  /\ wiped \in BOOLEAN
  /\ taint \subseteq Taints

(* MtReport_CreateHashTable on cleared memory. *)
Init ==
  /\ tab = [used |-> [c \in Cell |-> FALSE], pre |-> [c \in Cell |-> 0],
            nxt |-> [c \in Cell |-> 0], start |-> None, end |-> None, count |-> 0]
  /\ flag = 0 /\ age = Old
  /\ claim = [n \in Node |-> FALSE]
  /\ pc = [p \in Procs |-> "idle"] /\ arg = [p \in Procs |-> None]
  /\ script = [p \in Procs |-> <<>>] /\ ret = [p \in Procs |-> "idle"]
  /\ cur = None /\ curRev = None
  /\ rev = FALSE /\ acc = FALSE /\ reads = 0
  /\ wiped = FALSE /\ taint = {}

Goto(p, l) == pc' = [pc EXCEPT ![p] = l]

(* A call of InsertHashNode or RemoveHashNode returns. *)
Return(p) ==
  /\ Goto(p, IF p = Agent THEN "d_clear" ELSE "idle")
  /\ arg' = IF p = Agent THEN arg ELSE [arg EXCEPT ![p] = None]

(* A drain is over; its locals are dead. *)
DrainReturn ==
  /\ Goto(Agent, "idle")
  /\ arg' = [arg EXCEPT ![Agent] = None]
  /\ rev' = FALSE
  /\ reads' = 0

Set(f, v) == [f |-> f, i |-> None, v |-> v]
Put(f, i, v) == [f |-> f, i |-> i, v |-> v]
Apply(s) == IF s.f \in {"start", "end", "count"}
              THEN [tab EXCEPT ![s.f] = s.v]
              ELSE [tab EXCEPT ![s.f][s.i] = s.v]

Dec(c) == IF c = 0 THEN Wrap ELSE c - 1
-----------------------------------------------------------------------------
(***************************************************************************)
(* The flag.                                                               *)
(***************************************************************************)

(* A fault: the flag is taken without the compare. *)
CasBlind(p) ==
  /\ pc[p] = "cas"
  /\ flag' = 1
  /\ Goto(p, "stamp")
  /\ UNCHANGED <<tab, age, claim, arg, script, ret, agent, wiped, taint>>

(* What clearing the flag from outside does to the history. *)
Tainted ==
  taint \cup (IF \E q \in Procs : pc[q] \in Unstamped THEN {"unstamped"} ELSE {})
        \cup (IF \E q \in Procs : pc[q] \in Stamped
                THEN {IF wiped THEN "cleared" ELSE "slow"} ELSE {})

(* One of the ten compare-and-swaps; after a failed one the process goes on trying, or *)
(* it was the last.                                                                    *)
Cas(p) ==
  /\ pc[p] = "cas"
  /\ \/ flag = 0 /\ flag' = 1 /\ Goto(p, "stamp")
     \/ flag = 1 /\ Goto(p, "busy") /\ UNCHANGED flag
  /\ UNCHANGED <<tab, age, claim, arg, script, ret, agent, wiped, taint>>

(* dwLastUseTimeSec = time(NULL) *)
Stamp(p) ==
  /\ pc[p] = "stamp"
  /\ age' = 0
  /\ wiped' = FALSE
  /\ Goto(p, IF p = Agent THEN "adv" ELSE "plan")
  /\ UNCHANGED <<tab, flag, claim, arg, script, ret, agent, taint>>

(* Ten tries failed: is the stamp old? *)
Busy(p) ==
  /\ pc[p] = "busy"
  /\ \/ age > FlagTimeout /\ Goto(p, "steal") /\ UNCHANGED arg
     \/ age <= FlagTimeout /\ Return(p)
  /\ UNCHANGED <<tab, flag, age, claim, script, ret, agent, wiped, taint>>

(* bHashUseFlag = 0 of a process that gives its own call up (-33). *)
Steal(p) ==
  /\ pc[p] = "steal"
  /\ flag' = 0
  /\ taint' = Tainted
  /\ Return(p)
  /\ UNCHANGED <<tab, age, claim, script, ret, agent, wiped>>

(* The stores of the call, one at a time. *)
Run(p) ==
  /\ pc[p] \in {"run", "r_run"}
  /\ tab' = Apply(Head(script[p]))
  /\ script' = [script EXCEPT ![p] = Tail(@)]
  /\ IF Len(script[p]) = 1
       THEN Goto(p, IF pc[p] = "run" THEN "rel" ELSE "r_rel")
       ELSE UNCHANGED pc
  /\ UNCHANGED <<flag, age, claim, arg, ret, agent, wiped, taint>>

(* bHashUseFlag = 0, and only then ... *)
Release(p) ==
  /\ pc[p] = "rel"
  /\ flag' = 0
  /\ Goto(p, "clr")
  /\ UNCHANGED <<tab, age, claim, arg, script, ret, agent, wiped, taint>>

(* ... dwLastUseTimeSec = 0, which may be the next holder's stamp by now. *)
ClearStamp(p) ==
  /\ pc[p] = "clr"
  /\ age' = Old
  /\ wiped' = (wiped \/ \E q \in Procs : pc[q] \in Stamped)
  /\ Return(p)
  /\ UNCHANGED <<tab, flag, claim, script, ret, agent, taint>>

-----------------------------------------------------------------------------
(***************************************************************************)
(* InsertHashNode.  The caller found node n unused and has set its         *)
(* bSyncProcess, or bSyncProcess was set and ten others have counted it up.*)
(***************************************************************************)

InsertStart(p, n) ==
  /\ pc[p] = "idle" /\ p \in Writers
  /\ ~tab.used[n]
  /\ Goto(p, "cas")
  /\ arg' = [arg EXCEPT ![p] = n]
  /\ claim' = [claim EXCEPT ![n] = TRUE]
  /\ taint' = taint \cup (IF \E q \in Writers \ {p} : pc[q] # "idle" /\ arg[q] = n
                            THEN {"doubled"} ELSE {})
  /\ UNCHANGED <<tab, flag, age, script, ret, agent, wiped>>

(* A fault: the new last node is not linked from the one before it. *)
InsertStoresUnlinked(n) ==
  << Set("count", tab.count + 1), Put("pre", n, tab.end), Put("nxt", n, None),
     Set("end", n) >> \o (IF tab.count = 0 THEN <<Set("start", n)>> ELSE <<>>)
    \o << Put("used", n, TRUE) >>

(* The stores of InsertHashNode in their order. *)
InsertStores(n) ==
  ( IF tab.count # 0
      THEN << Set("count", tab.count + 1), Put("nxt", tab.end, n),
              Put("pre", n, tab.end), Put("nxt", n, None), Set("end", n) >>
      ELSE << Set("count", 1), Put("pre", n, None), Put("nxt", n, None),
              Set("end", n), Set("start", n) >> )
  \o << Put("used", n, TRUE) >>

InsertPlan(p) ==
  /\ pc[p] = "plan" /\ p \in Writers
  /\ script' = [script EXCEPT ![p] = InsertStores(arg[p])]
  /\ Goto(p, "run")
  /\ UNCHANGED <<tab, flag, age, claim, arg, ret, agent, wiped, taint>>

-----------------------------------------------------------------------------
(***************************************************************************)
(* RemoveHashNode, called by the agent.                                    *)
(***************************************************************************)

(* GetNextNode and GetNextNodeRevers on a cursor that stands on the node.  With the *)
(* access check on, an unused node on either side resets the table.                 *)
AdvanceCursor ==
  LET n == arg[Agent] IN
  /\ pc[Agent] = "adv"
  /\ cur' = IF cur = n THEN tab.nxt[n] ELSE cur
  /\ curRev' = IF curRev = n THEN tab.pre[n] ELSE curRev
  /\ LET Broken(c) == c # None /\ (~tab.used[n] \/ ~tab.used[c]) IN
       IF acc /\ ((cur = n /\ Broken(tab.nxt[n])) \/ (curRev = n /\ Broken(tab.pre[n])))
         THEN Goto(Agent, "fail") /\ ret' = [ret EXCEPT ![Agent] = "plan"]
         ELSE Goto(Agent, "plan") /\ UNCHANGED ret
  /\ UNCHANGED <<tab, flag, age, claim, arg, script, rev, acc, reads, wiped, taint>>

(* How the neighbours of n are linked without it; the last of the list is taken before *)
(* the first.                                                                          *)
UnlinkStores(n) ==
  IF Dec(tab.count) = 0 THEN << Set("start", None), Set("end", None) >>
  ELSE IF tab.nxt[n] = None
    THEN << Put("nxt", tab.pre[n], None), Set("end", tab.pre[n]) >>
  ELSE IF tab.pre[n] = None
    THEN << Put("pre", tab.nxt[n], None), Set("start", tab.nxt[n]) >>
  ELSE << Put("nxt", tab.pre[n], tab.nxt[n]), Put("pre", tab.nxt[n], tab.pre[n]) >>

(* The neighbours that must be in use for that. *)
Neighbours(n) ==
  IF Dec(tab.count) = 0 THEN {}
  ELSE IF tab.nxt[n] = None THEN {tab.pre[n]}
  ELSE IF tab.pre[n] = None THEN {tab.nxt[n]}
  ELSE {tab.pre[n], tab.nxt[n]}

RemovePlan ==
  LET n == arg[Agent] IN
  /\ pc[Agent] = "plan"
  /\ tab' = [tab EXCEPT !.count = Dec(@)]
  /\ \/ /\ \A c \in Neighbours(n) : tab.used[c]
        /\ script' = [script EXCEPT ![Agent] = UnlinkStores(n) \o
             << Put("used", n, FALSE), Put("nxt", n, None), Put("pre", n, None) >>]
        /\ Goto(Agent, "run")
        /\ UNCHANGED ret
     \/ /\ \E c \in Neighbours(n) : ~tab.used[c]
        /\ Goto(Agent, "fail")
        /\ ret' = [ret EXCEPT ![Agent] = "d_clear"]
        /\ UNCHANGED script
  /\ UNCHANGED <<flag, age, claim, arg, agent, wiped, taint>>

-----------------------------------------------------------------------------
(***************************************************************************)
(* SHARED_HASH_ACCESS_CHECK_FAILED and ResetHashTable.                     *)
(***************************************************************************)

(* bHashUseFlag = 0, whoever holds it. *)
CheckFailed ==
  /\ pc[Agent] = "fail"
  /\ flag' = 0
  /\ taint' = taint \cup (IF \E q \in Writers : Holds(q) THEN {"checked"} ELSE {})
  /\ Goto(Agent, "r_cas")
  /\ UNCHANGED <<tab, age, claim, arg, script, ret, agent, wiped>>

(* The wait for the flag; after two seconds without it the flag is cleared. *)
ResetCas ==
  /\ pc[Agent] = "r_cas"
  /\ \/ flag = 0 /\ flag' = 1 /\ Goto(Agent, "r_stamp") /\ UNCHANGED taint
     \/ flag = 1 /\ flag' = 0 /\ taint' = Tainted /\ UNCHANGED pc
  /\ UNCHANGED <<tab, age, claim, arg, script, ret, agent, wiped>>

(* The agent's process starts afresh. *)
AgentFresh == cur' = None /\ curRev' = None /\ rev' = FALSE /\ acc' = FALSE /\ reads' = 0

(* After three seconds the flag is cleared and the agent exits. *)
ResetGiveUp ==
  /\ pc[Agent] = "r_cas"
  /\ flag = 1 /\ flag' = 0
  /\ taint' = Tainted
  /\ Goto(Agent, "idle")
  /\ arg' = [arg EXCEPT ![Agent] = None]
  /\ ret' = [ret EXCEPT ![Agent] = "idle"]
  /\ AgentFresh
  /\ UNCHANGED <<tab, age, claim, script, wiped>>

ResetStamp ==
  /\ pc[Agent] = "r_stamp"
  /\ age' = 0
  /\ wiped' = FALSE
  /\ Goto(Agent, "r_mem")
  /\ UNCHANGED <<tab, flag, claim, arg, script, ret, agent, taint>>

(* memset over dwShareMemBytes: links, use and content of the nodes it covers. *)
ResetMem ==
  LET Clear(f, z) == [c \in Cell |-> IF c < ResetCount THEN z ELSE f[c]] IN
  /\ pc[Agent] = "r_mem"
  /\ tab' = [tab EXCEPT !.used = Clear(@, FALSE), !.pre = Clear(@, 0), !.nxt = Clear(@, 0)]
  /\ claim' = [n \in Node |-> n >= ResetCount /\ claim[n]]
  /\ script' = [script EXCEPT ![Agent] =
       << Set("start", None), Set("end", None), Set("count", 0) >>]
  /\ Goto(Agent, "r_run")
  /\ taint' = taint \cup (IF \E n \in Node : n >= ResetCount /\ tab.used[n]
                            THEN {"kept"} ELSE {})
  /\ UNCHANGED <<flag, age, arg, ret, agent, wiped>>

(* dwLastUseTimeSec = 0, then bHashUseFlag = 0. *)
ResetRelease ==
  /\ pc[Agent] = "r_rel"
  /\ age' = Old
  /\ flag' = 0
  /\ Goto(Agent, ret[Agent])
  /\ ret' = [ret EXCEPT ![Agent] = "idle"]
  /\ taint' = taint \cup (IF ret[Agent] = "plan" THEN {"resumed"} ELSE {})
  /\ UNCHANGED <<tab, claim, arg, script, agent, wiped>>

-----------------------------------------------------------------------------
(***************************************************************************)
(* The agent's drain of the table (ReadAttr, ReadStrAttr).  The bound on   *)
(* its turns, more than twice the number of nodes, is left out.            *)
(***************************************************************************)

(* A node to look at, or the end of the loop.  c is the cursor just set. *)
Look(c, end) ==
  \/ c = None /\ Goto(Agent, end) /\ UNCHANGED <<arg, ret>>
  \/ /\ c # None /\ acc /\ ~tab.used[c]
     /\ Goto(Agent, "fail")
     /\ ret' = [ret EXCEPT ![Agent] = end]
     /\ UNCHANGED arg
  \/ /\ c # None /\ ~(acc /\ ~tab.used[c])
     /\ Goto(Agent, "d_node")
     /\ arg' = [arg EXCEPT ![Agent] = c]
     /\ UNCHANGED ret

DrainStart ==
  /\ pc[Agent] = "idle"
  /\ Goto(Agent, "d_first")
  /\ UNCHANGED <<tab, flag, age, claim, arg, script, ret, agent, wiped, taint>>

(* A fault: the drain begins with the newest node. *)
DrainFirstFromEnd ==
  /\ pc[Agent] = "d_first"
  /\ cur' = tab.end
  /\ Look(tab.end, "d_null")
  /\ UNCHANGED <<tab, flag, age, claim, script, curRev, rev, acc, reads, wiped, taint>>

(* GetFirstNode *)
DrainFirst ==
  /\ pc[Agent] = "d_first"
  /\ cur' = tab.start
  /\ Look(tab.start, "d_null")
  /\ UNCHANGED <<tab, flag, age, claim, script, curRev, rev, acc, reads, wiped, taint>>

(* No first node, though dwNodeUseCount says there are some: go backwards. *)
DrainNull ==
  /\ pc[Agent] = "d_null"
  /\ \/ tab.count # 0 /\ rev' = TRUE /\ Goto(Agent, "d_firstrev")
     \/ tab.count = 0 /\ Goto(Agent, "d_end") /\ UNCHANGED rev
  /\ UNCHANGED <<tab, flag, age, claim, arg, script, ret, cur, curRev, acc, reads, wiped,
                 taint>>

(* GetFirstNodeRevers *)
DrainFirstRevers ==
  /\ pc[Agent] = "d_firstrev"
  /\ curRev' = tab.end
  /\ Look(tab.end, "d_end")
  /\ UNCHANGED <<tab, flag, age, claim, script, cur, rev, acc, reads, wiped, taint>>

(* A fault: the packet's limit is not tested. *)
DrainNodeNoLimit ==
  /\ pc[Agent] = "d_node"
  /\ reads' = reads + (IF claim[arg[Agent]] THEN 1 ELSE 0)
  /\ Goto(Agent, "cas")
  /\ UNCHANGED <<tab, flag, age, claim, arg, script, ret, cur, curRev, rev, acc, wiped,
                 taint>>

(* Read a node, unless the packet is full, then remove it. *)
DrainNode ==
  /\ pc[Agent] = "d_node"
  /\ \/ /\ reads < MaxRead
        /\ reads' = reads + (IF claim[arg[Agent]] THEN 1 ELSE 0)
        /\ Goto(Agent, "cas")
     \/ /\ reads = MaxRead
        /\ Goto(Agent, "d_end")
        /\ UNCHANGED reads
  /\ UNCHANGED <<tab, flag, age, claim, arg, script, ret, cur, curRev, rev, acc, wiped,
                 taint>>

(* memset of the node, whether or not RemoveHashNode succeeded. *)
DrainClear ==
  /\ pc[Agent] = "d_clear"
  /\ claim' = [claim EXCEPT ![arg[Agent]] = FALSE]
  /\ Goto(Agent, "d_cur")
  /\ UNCHANGED <<tab, flag, age, arg, script, ret, agent, wiped, taint>>

(* GetCurNode, GetCurNodeRevers *)
DrainCur ==
  LET c == IF rev THEN curRev ELSE cur IN
  /\ pc[Agent] = "d_cur"
  /\ Look(c, "d_end")
  /\ cur' = IF ~rev /\ c # None /\ acc /\ ~tab.used[c] THEN None ELSE cur
  /\ UNCHANGED <<tab, flag, age, claim, script, curRev, rev, acc, reads, wiped, taint>>

DrainEnd ==
  /\ pc[Agent] = "d_end"
  /\ \/ /\ rev /\ tab.count \in {0, 1}
        /\ Goto(Agent, "r_cas")
        /\ ret' = [ret EXCEPT ![Agent] = "d_acc"]
        /\ UNCHANGED <<arg, rev, acc, reads>>
     \/ /\ ~(rev /\ tab.count \in {0, 1})
        /\ acc' = (acc /\ (rev \/ tab.count # 0))
        /\ DrainReturn
        /\ UNCHANGED ret
  /\ UNCHANGED <<tab, flag, age, claim, script, cur, curRev, wiped, taint>>

(* bAccessCheck = 1 after the reset. *)
DrainAccess ==
  /\ pc[Agent] = "d_acc"
  /\ acc' = TRUE
  /\ DrainReturn
  /\ UNCHANGED <<tab, flag, age, claim, script, ret, cur, curRev, wiped, taint>>

-----------------------------------------------------------------------------
Tick ==
  /\ age < Old
  /\ age' = age + 1
  /\ UNCHANGED <<tab, flag, claim, locals, agent, wiped, taint>>

(* A process dies and is started again; what it stored stays. *)
Crash(p) ==
  /\ p \in Crashers
  /\ pc[p] # "idle"
  /\ tab.count \in 0 .. MaxCount
  /\ Goto(p, "idle")
  /\ arg' = [arg EXCEPT ![p] = None]
  /\ script' = [script EXCEPT ![p] = <<>>]
  /\ ret' = [ret EXCEPT ![p] = "idle"]
  /\ IF p = Agent
       THEN AgentFresh
       ELSE UNCHANGED agent
  /\ taint' = taint \cup (IF Holds(p) THEN {"torn"} ELSE {})
  /\ UNCHANGED <<tab, flag, age, claim, wiped>>

Call(p) == Cas(p) \/ Stamp(p) \/ Busy(p) \/ Steal(p) \/ Run(p) \/ Release(p)
           \/ ClearStamp(p) \/ InsertPlan(p)
Reset == CheckFailed \/ ResetCas \/ ResetGiveUp \/ ResetStamp \/ ResetMem
         \/ ResetRelease
Drain == DrainFirst \/ DrainNull \/ DrainFirstRevers \/ DrainNode \/ DrainClear
         \/ DrainCur \/ DrainEnd \/ DrainAccess \/ AdvanceCursor \/ RemovePlan \/ Reset

Next ==
  \/ Tick
  \/ DrainStart \/ Drain
  \/ \E p \in Procs : Call(p) \/ Crash(p)
  \/ \E p \in Writers, n \in Node : InsertStart(p, n)

Spec == Init /\ [][Next]_vars

(* Processes inside a call keep running and the agent's timer makes it drain again and *)
(* again.                                                                              *)
FairSpec ==
  /\ Spec
  /\ WF_vars(DrainStart \/ Drain \/ Call(Agent))
  /\ \A p \in Writers : WF_vars(Call(p))
-----------------------------------------------------------------------------
Clean == taint = {}

(* bHashUseFlag keeps calls of several processes apart: while it was never cleared     *)
(* under a live holder, one process at a time is between taking and releasing it       *)
(* (InsertHashNode, RemoveHashNode, ResetHashTable), and the flag is set meanwhile.    *)
HashMutex ==
  taint \subseteq {"torn", "doubled", "kept"} =>
    /\ \A p, q \in Procs : Holds(p) /\ Holds(q) => p = q
    /\ \A p \in Procs : Holds(p) => flag = 1

(* The used nodes of a table t in the order s form its list, forwards and backwards. *)
IsList(t, s) ==
  LET k == Len(s) IN
  /\ t.count = k
  /\ t.start = IF k = 0 THEN None ELSE s[1]
  /\ t.end = IF k = 0 THEN None ELSE s[k]
  /\ \A i \in 1 .. k :
       /\ t.nxt[s[i]] = IF i = k THEN None ELSE s[i + 1]
       /\ t.pre[s[i]] = IF i = 1 THEN None ELSE s[i - 1]
  /\ {n \in Node : t.used[n]} = {s[i] : i \in 1 .. k}

(* Every order of every set of nodes. *)
Orders == UNION {{s \in [1 .. k -> Node] : \A i, j \in 1 .. k : s[i] = s[j] => i = j} :
                 k \in 0 .. RealNodeCount}

Consistent == \E s \in Orders : IsList(tab, s)

(* Between the calls under the flag the list is what CheckHashTable tests for and more: *)
(* it runs through exactly the used nodes, the same way in both directions, and          *)
(* dwNodeUseCount is its length, whatever inserts, removals and resets interleave; and   *)
(* no call has stored behind the last node: the index dwRealNodeCount, which stands for  *)
(* "no node" in every link, is never taken for a node to link to.                        *)
ListConsistent ==
  Clean =>
    /\ (\A p \in Procs : pc[p] \notin {"run", "r_run"}) => Consistent
    /\ ~tab.used[None] /\ tab.nxt[None] = 0 /\ tab.pre[None] = 0

(* A linked node is read and unlinked by a later drain of the agent, however the inserts  *)
(* of the writers and their failed attempts at the flag interleave with it; resets, which *)
(* unlink without reading, aside.                                                         *)
Drained ==
  [](Clean /\ pc[Agent] # "r_mem") => \A n \in Node : (tab.used[n] ~> ~tab.used[n])

(* mt_shared_hash.h: bHashUseFlag supports several processes.  Read: the flag is cleared *)
(* under a live holder only when that holder really kept it longer than the time-out.    *)
HeldUnlessSlow ==
  taint \subseteq {"cleared"} => \A p, q \in Procs : Holds(p) /\ Holds(q) => p = q

(* mtreport_client.cpp: a table without a first node but with a count is "a bug".  Read: *)
(* the agent does not throw a table away whose list is whole.                            *)
ResetOnlyBroken == Clean /\ pc[Agent] = "r_mem" => ~Consistent

(* mt_shared_hash.h: dwShareMemBytes is the size of the table, all dwRealNodeCount nodes *)
(* of it; so a reset leaves no used node behind.                                         *)
ResetForgetsAll ==
  pc[Agent] = "r_rel" /\ taint \subseteq {"torn", "kept"} => \A n \in Node : ~tab.used[n]

====
