------------------------------ MODULE VmemPool ------------------------------
(***************************************************************************)
(* One pool of the variable-length shared-memory store (mt_vmem.c): an     *)
(* array of fixed-size nodes in System V shared memory, a free list        *)
(* threaded through wNextNodeIndex, a byte lock bUseFlag that is taken by  *)
(* compare-and-swap or, when its time stamp is more than two seconds old,  *)
(* taken over, and a delayed free that marks nodes without the lock.       *)
(*                                                                         *)
(* Processes of the reporting API call MtReport_SaveToVmem, the agent      *)
(* calls MtReport_GetFromVmem and MtReport_FreeVmem, and MtReport_CheckVmem*)
(* when it stops.  A step is one access to the shared pool, or a group of  *)
(* accesses that neither another process nor a crash between them can tell *)
(* apart while the lock does its work.                                     *)
(***************************************************************************)
EXTENDS Integers, Sequences, FiniteSets

CONSTANTS
  Procs,           \* processes that call the API
  Agents,          \* the subset of Procs that runs MtReport_CheckVmem
  Crashers,        \* the subset of Procs that may die inside the API
  Vals,            \* contents that may be saved
  NodeCount,       \* wNodeCount: nodes of the pool, node 0 is its header
  MaxNeed,         \* bound: most nodes one content needs
  ScanBatch,       \* nodes SCAN_FREE_NODE looks at per save (1000)
  UseFlagTimeout   \* seconds after which bUseFlag may be taken over (2)

ASSUME VmemSizes ==
  /\ NodeCount \in Nat /\ 2 <= NodeCount /\ NodeCount <= 65000
  /\ MaxNeed \in Nat /\ 1 <= MaxNeed /\ MaxNeed <= 65000
  /\ ScanBatch \in Nat \ {0}
  /\ UseFlagTimeout \in Nat

ASSUME VmemProcs ==
  /\ Agents \subseteq Procs
  /\ Crashers \subseteq Procs
  /\ \A p \in Procs : p \notin Int

Node  == 1 .. NodeCount - 1
End   == NodeCount        \* wNextNodeIndex of a last node
Mark  == NodeCount + 1    \* wNextNodeIndex of a node whose free is delayed

(* What sDataBuf holds: the i-th part of content v, or nothing (bDataLen = 0). *)
Piece(v, i) == <<v, i>>
Empty == <<>>

(* Owners of a node beside the processes and the live indexes. *)
Free   == 0     \* on the free list
Nobody == -1    \* marked for a delayed free, or lost in a crash

VARIABLES
  next,    \* wNextNodeIndex of every node
  data,    \* content of every node
  free,    \* wFreeNodeIndex
  used,    \* wNodeUsed (uint16_t)
  flag,    \* bUseFlag
  age,     \* seconds since dwUseFlagStartTime, saturated above the time-out
  scan,    \* wScanFreeIndex
  pc,      \* where each process is in the API
  cur,     \* nIdx of a free, i of MtReport_CheckVmem
  need,    \* wNeedCount of a save
  scanned, \* iScan of a save
  val,     \* pdata of a save
  chain,   \* save: the nodes taken so far, wFirstIndex the first, wFreeIndex
           \* the last; free: the nodes still to be freed
  live,    \* per node: what the index made from it stands for
  stk,     \* history: the free list, its head last
  own,     \* history: who owns each node
  taint    \* history: the ways in which exclusion was given up so far

shm    == <<next, data, free, used, flag, age, scan>>
locals == <<pc, cur, need, scanned, val, chain>>
ghosts == <<stk, own, taint>>
vars   == <<shm, locals, live, ghosts>>

W16(x) == x % 65536

NoEntry == [seq |-> <<>>, val |-> Empty]
Live(h) == live[h].seq # <<>>

(* Labels at which a process believes it holds bUseFlag. *)
Unstamped == {"s_stamp", "f_stamp", "c_link", "c_rel"}
Stamped   == {"s_check", "s_scan", "s_get", "s_count", "s_copy", "s_last", "s_rel",
              "f_node", "f_rel"}
Saving    == {"s_count", "s_copy", "s_last", "s_rel"}
Freeing   == {"f_cas", "f_tmo", "f_stamp", "f_node", "f_mark"}
Checking  == {"c_look", "c_cas", "c_link", "c_rel"}
Labels    == {"idle", "s_cas", "s_tmo", "f_cas", "f_tmo", "f_mark", "c_look", "c_cas",
              "wild"} \cup Unstamped \cup Stamped

Holds(p) == pc[p] \in Unstamped \cup Stamped

Taints == {"slow",        \* a lock whose holder was alive after the time-out
           "unstamped",   \* a lock whose holder had not written the stamp yet
           "released",    \* a lock that was free again by then
           "recycled",    \* CheckVmem linked a node that was not marked any more
           "uncounted"}   \* a crash between taking a node and counting it

ShmOK ==
  /\ next \in [Node -> 1 .. Mark]
  /\ data \in [Node -> ((Vals \cup {Empty}) \X Nat) \cup {Empty}]
  /\ free \in 1 .. Mark
  /\ used \in Nat /\ used <= 65535
  /\ flag \in {0, 1}
  /\ age \in 0 .. UseFlagTimeout + 1
  /\ scan \in 0 .. NodeCount - 1

LocalsOK ==
  /\ pc \in [Procs -> Labels]
  /\ cur \in [Procs -> 0 .. NodeCount - 1]
  /\ need \in [Procs -> 0 .. MaxNeed]
  /\ scanned \in [Procs -> 0 .. ScanBatch]
  /\ val \in [Procs -> Vals \cup {Empty}]
  /\ chain \in [Procs -> Seq(Node)]

HistoryOK ==
  /\ live \in [Node -> [seq : Seq(Node), val : Vals \cup {Empty}]]
  /\ stk \in Seq(Node)
  /\ own \in [Node -> Node \cup Procs \cup {Free, Nobody}]
  /\ taint \in SUBSET Taints

(* What every field of the pool and every local variable may hold. *)
TypeOK == ShmOK /\ LocalsOK /\ HistoryOK

(* VMEM_CREATE_INIT_SHM on memory that was cleared when it was created.  The stamp *)
(* is 0, far more than UseFlagTimeout seconds ago.                                 *)
Init ==
  /\ next = [n \in Node |-> n + 1]
  /\ data = [n \in Node |-> Empty]
  /\ free = 1
  /\ used = 1
  /\ flag = 0
  /\ age = UseFlagTimeout + 1
  /\ scan = 0
  /\ pc = [p \in Procs |-> "idle"]
  /\ cur = [p \in Procs |-> 0]
  /\ need = [p \in Procs |-> 0]
  /\ scanned = [p \in Procs |-> 0]
  /\ val = [p \in Procs |-> Empty]
  /\ chain = [p \in Procs |-> <<>>]
  /\ live = [n \in Node |-> NoEntry]
  /\ stk = [i \in 1 .. NodeCount - 1 |-> NodeCount - i]
  /\ own = [n \in Node |-> Free]
  /\ taint = {}

Goto(p, l) == pc' = [pc EXCEPT ![p] = l]

(* Back to the caller; the locals of the call are dead. *)
Return(p) ==
  /\ Goto(p, "idle")
  /\ cur' = [cur EXCEPT ![p] = 0]
  /\ need' = [need EXCEPT ![p] = 0]
  /\ scanned' = [scanned EXCEPT ![p] = 0]
  /\ val' = [val EXCEPT ![p] = Empty]
  /\ chain' = [chain EXCEPT ![p] = <<>>]

(* All nodes of owner a become nodes of owner b. *)
Reown(a, b) == [n \in Node |-> IF own[n] = a THEN b ELSE own[n]]

(* Node n becomes the head of the free list. *)
Push(n) ==
  /\ next' = [next EXCEPT ![n] = free]
  /\ free' = n
  /\ used' = W16(used - 1)
  /\ stk' = Append(stk, n)
  /\ own' = [own EXCEPT ![n] = Free]

(* VMEM_GET_FREE_NODE by process p; the caller says what becomes of next. *)
Pop(p) ==
  /\ free \in Node
  /\ free' = next[free]
  /\ chain' = [chain EXCEPT ![p] = Append(@, free)]
  /\ stk' = IF stk = <<>> THEN stk ELSE SubSeq(stk, 1, Len(stk) - 1)
  /\ own' = [own EXCEPT ![free] = p]

(* An empty free list sends the process outside the pool (pNode[wNodeCount]), where *)
(* the model does not follow it.                                                    *)
PopOutside(p) ==
  /\ free \notin Node
  /\ Goto(p, "wild")
  /\ UNCHANGED <<next, data, free, used, cur, need, scanned, val, chain, live, ghosts>>

-----------------------------------------------------------------------------
(***************************************************************************)
(* The lock: VARMEM_CAS_GET, then the time-out test, then the time stamp,  *)
(* three separate accesses.                                                *)
(***************************************************************************)

(* _MtReport_Flag_IsTimeout *)
IsTimeout == age > UseFlagTimeout

(* VARMEM_CAS_GET(&bUseFlag) of a call that goes on at ok or at fail. *)
CasGet(p, ok, fail) ==
  /\ flag' = 1
  /\ Goto(p, IF flag = 0 THEN ok ELSE fail)
  /\ UNCHANGED <<next, data, free, used, age, scan, need, scanned, val, chain, live,
                 ghosts>>

(* The compare-and-swap failed and the stamp is old: the lock is taken over.  History *)
(* records whether a live process held it, or nobody did any more.                    *)
TakeOver(p) ==
  /\ IsTimeout
  /\ taint' = taint \cup (IF flag = 0 THEN {"released"} ELSE {})
                    \cup (IF \E q \in Procs : pc[q] \in Stamped THEN {"slow"} ELSE {})
                    \cup (IF \E q \in Procs : pc[q] \in Unstamped THEN {"unstamped"} ELSE {})

(* dwUseFlagStartTime = sv_GetCurTime() *)
Stamp(p, to) ==
  /\ age' = 0
  /\ Goto(p, to)
  /\ UNCHANGED <<next, data, free, used, flag, scan, cur, need, scanned, val, chain,
                 live, ghosts>>

-----------------------------------------------------------------------------
(***************************************************************************)
(* MtReport_SaveToVmem on this pool.  A call that skips the pool returns,  *)
(* the caller goes on with the next pool.                                  *)
(***************************************************************************)

SaveStart(p, v, k) ==
  /\ pc[p] = "idle"
  /\ Goto(p, "s_cas")
  /\ val' = [val EXCEPT ![p] = v]
  /\ need' = [need EXCEPT ![p] = k]
  /\ UNCHANGED <<shm, cur, scanned, chain, live, ghosts>>

SaveCas(p) ==
  /\ pc[p] = "s_cas"
  /\ CasGet(p, "s_stamp", "s_tmo")
  /\ UNCHANGED cur

(* A fault: a save whose compare-and-swap failed tries it again, without the time-out *)
(* test.                                                                              *)
SaveTimeoutSpins(p) ==
  /\ pc[p] = "s_tmo"
  /\ Goto(p, "s_cas")
  /\ UNCHANGED <<shm, cur, need, scanned, val, chain, live, ghosts>>

SaveTimeout(p) ==
  /\ pc[p] = "s_tmo"
  /\ \/ /\ TakeOver(p)
        /\ Goto(p, "s_stamp")
        /\ UNCHANGED <<cur, need, scanned, val, chain>>
     \/ /\ ~IsTimeout
        /\ Return(p)
        /\ UNCHANGED taint
  /\ UNCHANGED <<shm, live, stk, own>>

SaveStamp(p) ==
  /\ pc[p] = "s_stamp"
  /\ Stamp(p, "s_check")

SaveCheck(p) ==
  /\ pc[p] = "s_check"
  /\ \/ /\ NodeCount < used + need[p]
        /\ flag' = 0
        /\ Return(p)
     \/ /\ NodeCount >= used + need[p]
        /\ Goto(p, "s_scan")
        /\ UNCHANGED <<flag, cur, need, scanned, val, chain>>
  /\ UNCHANGED <<next, data, free, used, age, scan, live, ghosts>>

(* wScanFreeIndex behind the node just looked at; the header is passed once only. *)
NextScanTooFar == IF scan + 1 <= NodeCount THEN scan + 1 ELSE 1
NextScan == IF scan + 1 < NodeCount THEN scan + 1 ELSE 1

(* One turn of SCAN_FREE_NODE.  Index 0 is the header, whose first field is the *)
(* node count and never the mark.                                               *)
SaveScan(p) ==
  /\ pc[p] = "s_scan"
  /\ \/ /\ scan \in Node /\ next[scan] = Mark
        /\ Push(scan)
     \/ /\ ~(scan \in Node /\ next[scan] = Mark)
        /\ UNCHANGED <<next, free, used, stk, own>>
  /\ scan' = NextScan
  /\ \/ /\ scanned[p] + 1 < ScanBatch
        /\ scanned' = [scanned EXCEPT ![p] = @ + 1]
        /\ UNCHANGED pc
     \/ /\ scanned[p] + 1 >= ScanBatch
        /\ scanned' = [scanned EXCEPT ![p] = 0]
        /\ Goto(p, "s_get")
  /\ UNCHANGED <<data, flag, age, cur, need, val, chain, live, taint>>

(* The first VMEM_GET_FREE_NODE. *)
SaveGet(p) ==
  /\ pc[p] = "s_get"
  /\ \/ /\ Pop(p)
        /\ Goto(p, "s_count")
        /\ UNCHANGED <<next, data, used, cur, need, scanned, val, live, taint>>
     \/ PopOutside(p)
  /\ UNCHANGED <<flag, age, scan>>

(* A fault: one node counted, however many are needed. *)
SaveCountOne(p) ==
  /\ pc[p] = "s_count"
  /\ used' = W16(used + 1)
  /\ Goto(p, IF need[p] > 1 THEN "s_copy" ELSE "s_last")
  /\ UNCHANGED <<next, data, free, flag, age, scan, cur, need, scanned, val, chain,
                 live, ghosts>>

(* wNodeUsed += wNeedCount *)
SaveCount(p) ==
  /\ pc[p] = "s_count"
  /\ used' = W16(used + need[p])
  /\ Goto(p, IF need[p] > 1 THEN "s_copy" ELSE "s_last")
  /\ UNCHANGED <<next, data, free, flag, age, scan, cur, need, scanned, val, chain,
                 live, ghosts>>

(* The node the process got last, and the part of its content that goes there. *)
Last(p) == chain[p][Len(chain[p])]
Part(p) == Piece(val[p], Len(chain[p]))

(* One turn of while(wNeedCount > 1): fill a node, get another, link it. *)
SaveCopy(p) ==
  /\ pc[p] = "s_copy"
  /\ \/ /\ Pop(p)
        /\ data' = [data EXCEPT ![Last(p)] = Part(p)]
        /\ next' = [next EXCEPT ![Last(p)] = free]
        /\ need' = [need EXCEPT ![p] = @ - 1]
        /\ Goto(p, IF need[p] > 2 THEN "s_copy" ELSE "s_last")
        /\ UNCHANGED <<used, cur, scanned, val, live, taint>>
     \/ PopOutside(p)
  /\ UNCHANGED <<flag, age, scan>>

(* A fault: the last node keeps its pointer into the free list. *)
SaveLastOpen(p) ==
  /\ pc[p] = "s_last"
  /\ data' = [data EXCEPT ![Last(p)] = Part(p)]
  /\ Goto(p, "s_rel")
  /\ UNCHANGED <<next, free, used, flag, age, scan, cur, need, scanned, val, chain,
                 live, ghosts>>

SaveLast(p) ==
  /\ pc[p] = "s_last"
  /\ next' = [next EXCEPT ![Last(p)] = End]
  /\ data' = [data EXCEPT ![Last(p)] = Part(p)]
  /\ Goto(p, "s_rel")
  /\ UNCHANGED <<free, used, flag, age, scan, cur, need, scanned, val, chain,
                 live, ghosts>>

(* Release the lock and return the index made from wFirstIndex. *)
SaveRelease(p) ==
  /\ pc[p] = "s_rel"
  /\ flag' = 0
  /\ LET h == chain[p][1] IN
       /\ live' = [live EXCEPT ![h] = [seq |-> chain[p], val |-> val[p]]]
       /\ own' = Reown(p, h)
  /\ Return(p)
  /\ UNCHANGED <<next, data, free, used, age, scan, stk, taint>>

-----------------------------------------------------------------------------
(***************************************************************************)
(* MtReport_FreeVmem of a live index.                                      *)
(***************************************************************************)

FreeStart(p, h) ==
  /\ pc[p] = "idle"
  /\ Live(h)
  /\ Goto(p, "f_cas")
  /\ cur' = [cur EXCEPT ![p] = h]
  /\ chain' = [chain EXCEPT ![p] = live[h].seq]
  /\ live' = [live EXCEPT ![h] = NoEntry]
  /\ own' = Reown(h, p)
  /\ UNCHANGED <<shm, need, scanned, val, stk, taint>>

FreeCas(p) ==
  /\ pc[p] = "f_cas"
  /\ CasGet(p, "f_stamp", "f_tmo")
  /\ UNCHANGED cur

FreeTimeout(p) ==
  /\ pc[p] = "f_tmo"
  /\ \/ /\ TakeOver(p)
        /\ Goto(p, "f_stamp")
     \/ /\ ~IsTimeout
        /\ Goto(p, "f_mark")
        /\ UNCHANGED taint
  /\ UNCHANGED <<shm, cur, need, scanned, val, chain, live, stk, own>>

FreeStamp(p) ==
  /\ pc[p] = "f_stamp"
  /\ Stamp(p, "f_node")

(* nIdx = iNextSave; the loop ends when it leaves the pool. *)
NextToFree(p, done) ==
  IF next[cur[p]] \in Node
    THEN /\ cur' = [cur EXCEPT ![p] = next[cur[p]]]
         /\ chain' = [chain EXCEPT ![p] = IF @ = <<>> THEN @ ELSE Tail(@)]
         /\ UNCHANGED pc
    ELSE /\ cur' = [cur EXCEPT ![p] = 0]
         /\ chain' = [chain EXCEPT ![p] = <<>>]
         /\ Goto(p, done)

(* One turn of VMEM_FREE_NODE with the lock (bUseFlagGet) ... *)
FreeNode(p) ==
  /\ pc[p] = "f_node"
  /\ data' = [data EXCEPT ![cur[p]] = Empty]
  /\ Push(cur[p])
  /\ NextToFree(p, "f_rel")
  /\ UNCHANGED <<flag, age, scan, need, scanned, val, live, taint>>

(* A fault: VARMEM_CAS_FREE without the test of bUseFlagGet. *)
FreeMarkReleases(p) ==
  /\ pc[p] = "f_mark"
  /\ data' = [data EXCEPT ![cur[p]] = Empty]
  /\ next' = [next EXCEPT ![cur[p]] = Mark]
  /\ own' = [own EXCEPT ![cur[p]] = Nobody]
  /\ NextToFree(p, "idle")
  /\ flag' = IF next[cur[p]] \in Node THEN flag ELSE 0
  /\ UNCHANGED <<free, used, age, scan, need, scanned, val, live, stk, taint>>

(* ... and without: the node is only marked, someone else will link it. *)
FreeMark(p) ==
  /\ pc[p] = "f_mark"
  /\ data' = [data EXCEPT ![cur[p]] = Empty]
  /\ next' = [next EXCEPT ![cur[p]] = Mark]
  /\ own' = [own EXCEPT ![cur[p]] = Nobody]
  /\ NextToFree(p, "idle")
  /\ UNCHANGED <<free, used, flag, age, scan, need, scanned, val, live, stk, taint>>

FreeRelease(p) ==
  /\ pc[p] = "f_rel"
  /\ flag' = 0
  /\ Return(p)
  /\ UNCHANGED <<next, data, free, used, age, scan, live, ghosts>>

-----------------------------------------------------------------------------
(***************************************************************************)
(* MtReport_CheckVmem: the agent recycles marked nodes when it stops.      *)
(***************************************************************************)

CheckStart(p) ==
  /\ pc[p] = "idle"
  /\ Goto(p, "c_look")
  /\ cur' = [cur EXCEPT ![p] = 1]
  /\ UNCHANGED <<shm, need, scanned, val, chain, live, ghosts>>

(* i++; the loop ends behind the last node. *)
NextToCheck(p) ==
  IF cur[p] + 1 < NodeCount
    THEN /\ Goto(p, "c_look")
         /\ cur' = [cur EXCEPT ![p] = @ + 1]
         /\ UNCHANGED <<need, scanned, val, chain>>
    ELSE Return(p)

(* The mark is tested before the lock is asked for. *)
CheckLook(p) ==
  /\ pc[p] = "c_look"
  /\ \/ /\ data[cur[p]] = Empty /\ next[cur[p]] = Mark
        /\ Goto(p, "c_cas")
        /\ UNCHANGED <<cur, need, scanned, val, chain>>
     \/ /\ ~(data[cur[p]] = Empty /\ next[cur[p]] = Mark)
        /\ NextToCheck(p)
  /\ UNCHANGED <<shm, live, ghosts>>

CheckCas(p) ==
  /\ pc[p] = "c_cas"
  /\ CasGet(p, "c_link", "idle")
  /\ cur' = [cur EXCEPT ![p] = IF flag = 0 THEN @ ELSE 0]

(* The node is linked without a second look at its mark. *)
CheckLink(p) ==
  /\ pc[p] = "c_link"
  /\ Push(cur[p])
  /\ taint' = taint \cup (IF next[cur[p]] = Mark THEN {} ELSE {"recycled"})
  /\ Goto(p, "c_rel")
  /\ UNCHANGED <<data, flag, age, scan, cur, need, scanned, val, chain, live>>

CheckRelease(p) ==
  /\ pc[p] = "c_rel"
  /\ flag' = 0
  /\ NextToCheck(p)
  /\ UNCHANGED <<next, data, free, used, age, scan, live, ghosts>>

-----------------------------------------------------------------------------
(* A second passes. *)
Tick ==
  /\ age <= UseFlagTimeout
  /\ age' = age + 1
  /\ UNCHANGED <<next, data, free, used, flag, scan, locals, live, ghosts>>

(* A process dies inside the API and starts again.  What it did to the pool stays, *)
(* bUseFlag too; the nodes it was working on belong to nobody.                     *)
Crash(p) ==
  /\ p \in Crashers
  /\ pc[p] # "idle"
  /\ Return(p)
  /\ own' = Reown(p, Nobody)
  /\ taint' = taint \cup (IF pc[p] = "s_count" THEN {"uncounted"} ELSE {})
  /\ UNCHANGED <<shm, live, stk>>

Save(p) == SaveCas(p) \/ SaveTimeout(p) \/ SaveStamp(p) \/ SaveCheck(p) \/ SaveScan(p)
           \/ SaveGet(p) \/ SaveCount(p) \/ SaveCopy(p) \/ SaveLast(p) \/ SaveRelease(p)
FreeVmem(p) == FreeCas(p) \/ FreeTimeout(p) \/ FreeStamp(p) \/ FreeNode(p) \/ FreeMark(p)
               \/ FreeRelease(p)
CheckVmem(p) == CheckLook(p) \/ CheckCas(p) \/ CheckLink(p) \/ CheckRelease(p)

Step(p) == Save(p) \/ FreeVmem(p) \/ CheckVmem(p)

Call(p) ==
  \/ \E v \in Vals, k \in 1 .. MaxNeed : SaveStart(p, v, k)
  \/ \E h \in Node : FreeStart(p, h)
  \/ p \in Agents /\ CheckStart(p)

Next == Tick \/ \E p \in Procs : Call(p) \/ Step(p) \/ Crash(p)

Spec == Init /\ [][Next]_vars

(* A process in the API keeps running, the clock keeps going, and the application goes *)
(* on reporting: a process that is out of the API saves again.                         *)
Reports(p) == \E v \in Vals, k \in 1 .. MaxNeed : SaveStart(p, v, k)

FairSpec ==
  /\ Spec
  /\ WF_vars(Tick)
  /\ \A p \in Procs : WF_vars(Step(p)) /\ WF_vars(Reports(p))
-----------------------------------------------------------------------------
(***************************************************************************)
(* Safety.  While exclusion was never given up the pool is consistent.     *)
(***************************************************************************)

Clean == taint = {}

(* bUseFlag is a lock: two processes are never between taking and releasing it,     *)
(* and it is set while one is (mt_vmem.c, VARMEM_CAS_GET ... VARMEM_CAS_FREE), also *)
(* after crashes of its holder, as long as it is only taken over from the dead.     *)
MutualExclusion ==
  Clean => /\ \A p, q \in Procs : Holds(p) /\ Holds(q) => p = q
           /\ \A p \in Procs : Holds(p) => flag = 1

(* The nodes the loop of MtReport_GetFromVmem visits from index h, in order. *)
Visits(h, s) ==
  /\ s # <<>>
  /\ s[1] = h
  /\ \A i \in 1 .. Len(s) - 1 : next[s[i]] = s[i + 1]
  /\ next[s[Len(s)]] \notin Node

(* What MtReport_GetFromVmem copies for a visit of s. *)
GetFromVmem(s) == [i \in 1 .. Len(s) |-> data[s[i]]]

(* An index that a save returned and nobody freed still reads back the content that *)
(* was saved, whatever other processes save, free, mark or recycle meanwhile.       *)
LiveReadsBack ==
  Clean => \A h \in Node : Live(h) =>
    /\ Visits(h, live[h].seq)
    /\ GetFromVmem(live[h].seq) = [i \in 1 .. Len(live[h].seq) |-> Piece(live[h].val, i)]

(* COMM_LIB_BUG of MtReport_FreeVmem and MtReport_CheckVmem is not reached, wNodeUsed    *)
(* never wraps, and it never exceeds the pool: no node is linked or counted twice.  So   *)
(* wNodeUsed can be relied on: a save that passed the test wNodeCount < wNodeUsed+       *)
(* wNeedCount finds a free node every time it takes one, and VMEM_GET_FREE_NODE never    *)
(* follows the end of the list out of the pool.                                          *)
UsedCovers == Clean => used \in 1 .. NodeCount /\ \A p \in Procs : pc[p] # "wild"

(* A process stopped in a save or a free only ever delays the others: the lock is   *)
(* released again, by its holder or after a takeover from a dead one, unless every  *)
(* process that holds it or may take it over dies again and again.                  *)
LockRecovered ==
  ([]Clean /\ <>[][\A p \in Procs : Holds(p) \/ IsTimeout => ~Crash(p)]_vars)
     => (flag = 1 ~> flag = 0)

(* mt_vmem.h: the interfaces support several processes and threads.  Read: a lock taken *)
(* over from a live process can only be one that was held longer than the time-out.     *)
SafeUnlessSlow ==
  taint \subseteq {"unstamped"} => \A p, q \in Procs : Holds(p) /\ Holds(q) => p = q

(* The same for MtReport_CheckVmem beside the other calls: a live index still reads back. *)
SafeBesideCheck ==
  taint \subseteq {"recycled"} => \A h \in Node : Live(h) => Visits(h, live[h].seq)

(* mt_vmem.c: a node whose free was delayed is scanned and put on the free list later. *)
DelayedFreeRecycled == []Clean => \A n \in Node : (next[n] = Mark ~> next[n] # Mark)

-----------------------------------------------------------------------------
(***************************************************************************)
(* The inductive invariant behind the safety properties.                   *)
(***************************************************************************)

Distinct(s) == \A i, j \in 1 .. Len(s) : s[i] = s[j] => i = j

(* s is a chain of next pointers that belongs to owner a. *)
ChainOf(s, a) ==
  /\ Distinct(s)
  /\ \A i \in 1 .. Len(s) : own[s[i]] = a
  /\ \A i \in 1 .. Len(s) - 1 : next[s[i]] = s[i + 1]

LockInv ==
  /\ \A p, q \in Procs : Holds(p) /\ Holds(q) => p = q
  /\ \A p \in Procs : Holds(p) => flag = 1

FreeInv ==
  /\ Distinct(stk)
  /\ free = IF Len(stk) = 0 THEN End ELSE stk[Len(stk)]
  /\ \A i \in 1 .. Len(stk) : own[stk[i]] = Free
  /\ \A i \in 1 .. Len(stk) : next[stk[i]] = IF i = 1 THEN End ELSE stk[i - 1]

MarkInv == \A n \in Node : next[n] = Mark => own[n] = Nobody

(* What the labels say of the locals, whatever happened to the pool. *)
LocalInv ==
  \A p \in Procs :
    /\ pc[p] \in Freeing \cup Checking => cur[p] \in Node
    /\ pc[p] \in Saving => Len(chain[p]) >= 1
    /\ pc[p] \in {"s_cas", "s_tmo", "s_stamp", "s_check", "s_scan", "s_get", "s_count",
                  "s_copy", "s_last"} => need[p] >= 1
    /\ pc[p] = "s_copy" => need[p] > 1

SaveInv(p) ==
  pc[p] \in Saving =>
    /\ \A i \in 1 .. Len(chain[p]) - 1 : data[chain[p][i]] = Piece(val[p], i)
    /\ pc[p] = "s_rel" => next[Last(p)] = End /\ data[Last(p)] = Part(p)

FreeingInv(p) ==
  pc[p] \in Freeing =>
    /\ Len(chain[p]) >= 1
    /\ cur[p] = chain[p][1]
    /\ next[Last(p)] = End

ChainInv ==
  \A p \in Procs :
    /\ ChainOf(chain[p], p)
    /\ SaveInv(p)
    /\ FreeingInv(p)
    /\ pc[p] \notin Saving \cup Freeing => Len(chain[p]) = 0

LiveInv ==
  \A h \in Node : Len(live[h].seq) # 0 =>
    LET s == live[h].seq IN
      /\ ChainOf(s, h)
      /\ s[1] = h
      /\ next[s[Len(s)]] = End
      /\ \A i \in 1 .. Len(s) : data[s[i]] = Piece(live[h].val, i)

(* Nodes the save in progress may still take without another test. *)
CountInv ==
  /\ used <= NodeCount
  /\ (\A p \in Procs : pc[p] # "s_count") => used + Len(stk) >= NodeCount
  /\ \A p \in Procs :
       /\ pc[p] # "wild"
       /\ pc[p] \in {"s_scan", "s_get", "s_count"} => used + need[p] <= NodeCount
       /\ pc[p] = "s_count" => used + Len(stk) >= NodeCount - 1
       /\ pc[p] = "s_copy" => used + Len(stk) >= NodeCount + need[p] - 1

====
