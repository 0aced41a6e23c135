------------------------- MODULE SharedHash_proofs -------------------------
(***************************************************************************)
(* Proofs about SharedHash, for any number of writers and nodes.           *)
(***************************************************************************)
EXTENDS SharedHash, TLAPS, SequenceTheorems, FiniteSetTheorems, FunctionTheorems

-----------------------------------------------------------------------------
LEMMA ApplyHead ==
  ASSUME tab \in Table, NEW s \in Store
  PROVE  /\ Apply(s) \in Table
         /\ s.f = "start" => Apply(s) = [tab EXCEPT !.start = s.v]
         /\ s.f = "end" => Apply(s) = [tab EXCEPT !.end = s.v]
         /\ s.f = "count" => Apply(s) = [tab EXCEPT !.count = s.v]
         /\ s.f = "pre" => Apply(s) = [tab EXCEPT !.pre[s.i] = s.v]
         /\ s.f = "nxt" => Apply(s) = [tab EXCEPT !.nxt[s.i] = s.v]
         /\ s.f = "used" => Apply(s) = [tab EXCEPT !.used[s.i] = s.v]
<1>1. CASE s.f = "start"
  BY <1>1 DEF Apply, Table, Store
<1>2. CASE s.f = "end"
  BY <1>2 DEF Apply, Table, Store
<1>3. CASE s.f = "count"
  BY <1>3 DEF Apply, Table, Store
<1>4. CASE s.f = "pre"
  BY <1>4 DEF Apply, Table, Store
<1>5. CASE s.f = "nxt"
  BY <1>5 DEF Apply, Table, Store
<1>6. CASE s.f = "used"
  BY <1>6 DEF Apply, Table, Store
<1> QED BY <1>1, <1>2, <1>3, <1>4, <1>5, <1>6 DEF Store

(* The inductive invariant. *)

AgentLabels == DrainLabels \cup {"adv", "fail", "r_cas", "r_stamp", "r_mem", "r_run", "r_rel"}
Rets == {"idle", "plan", "d_clear", "d_null", "d_end", "d_acc"}
Running == {"run", "r_run"}

(* Only the agent drains and resets; a process has stores to do exactly while it runs them. *)
LabelInv ==
  /\ \A p \in Procs : pc[p] \in AgentLabels => p = Agent
  /\ \A p \in Procs : pc[p] \in Running <=> Len(script[p]) # 0
  /\ \A p \in Procs : ret[p] \in Rets

TypeInv == TypeOK /\ LabelInv

(* Everything but pc and the locals of the calls. *)
DataOK ==
  /\ tab \in Table
  /\ flag \in {0, 1} /\ age \in 0 .. Old
  /\ claim \in [Node -> BOOLEAN]
  /\ cur \in Cell /\ curRev \in Cell
  /\ rev \in BOOLEAN /\ acc \in BOOLEAN /\ reads \in 0 .. MaxRead
  /\ wiped \in BOOLEAN
  /\ taint \subseteq Taints

CallOK ==
  /\ pc \in [Procs -> Labels] /\ arg \in [Procs -> Cell]
  /\ script \in [Procs -> Seq(Store)] /\ ret \in [Procs -> Labels]

LEMMA TypeParts == TypeOK <=> DataOK /\ CallOK
BY DEF TypeOK, DataOK, CallOK

LEMMA TypePartsNext == TypeOK' <=> DataOK' /\ CallOK'
BY DEF TypeOK, DataOK, CallOK

LEMMA AgentIn == Agent \in Procs
BY DEF Procs

LEMMA CellIn == None \in Cell /\ 0 \in Cell /\ Node \subseteq Cell /\ None \notin Node
BY HashSizes DEF None, Cell, Node

LEMMA AgesIn == 0 \in 0 .. Old /\ Old \in 0 .. Old /\ 0 \in 0 .. MaxRead
BY HashSizes DEF Old

LEMMA Same == pc \in [Procs -> Labels] => pc = [pc EXCEPT ![Agent] = pc[Agent]]
OBVIOUS

(* A step of pc, and perhaps of one local, that a process takes outside its stores. *)
LEMMA Step ==
  ASSUME TypeInv, NEW p \in Procs, NEW l \in Labels,
         l \in AgentLabels => p = Agent,
         l \notin Running, pc[p] \notin Running,
         Goto(p, l), UNCHANGED script,
         arg' \in [Procs -> Cell], ret' \in [Procs -> Labels],
         \A q \in Procs : ret'[q] \in Rets
  PROVE  CallOK' /\ LabelInv'
BY DEF TypeInv, TypeOK, LabelInv, Goto, CallOK

(* A process begins its stores. *)
LEMMA Launch ==
  ASSUME DataOK, CallOK, LabelInv, NEW p \in Procs, NEW l \in Running,
         l = "r_run" => p = Agent, NEW sc \in Seq(Store), Len(sc) # 0,
         Goto(p, l), script' = [script EXCEPT ![p] = sc], UNCHANGED <<arg, ret>>
  PROVE  CallOK' /\ LabelInv'
<1>1. CallOK'
  BY DEF CallOK, Goto, Running, Labels, Stamped
<1>2. LabelInv'
  BY DEF CallOK, LabelInv, Goto, Running, AgentLabels, DrainLabels
<1> QED BY <1>1, <1>2

LEMMA Tuples ==
  ASSUME NEW S, NEW a \in S, NEW b \in S, NEW c \in S, NEW d \in S, NEW e \in S
  PROVE  /\ <<a>> \in Seq(S) /\ Len(<<a>>) = 1
         /\ <<a, b>> \in Seq(S) /\ Len(<<a, b>>) = 2
         /\ <<a, b, c>> \in Seq(S) /\ Len(<<a, b, c>>) = 3
         /\ <<a, b, c, d, e>> \in Seq(S) /\ Len(<<a, b, c, d, e>>) = 5
OBVIOUS

(* What the calls store. *)
LEMMA StoresOK ==
  ASSUME tab \in Table, NEW n \in Cell
  PROVE  /\ InsertStores(n) \in Seq(Store) /\ Len(InsertStores(n)) = 6
         /\ LET sc == UnlinkStores(n) \o
                        << Put("used", n, FALSE), Put("nxt", n, None), Put("pre", n, None) >>
            IN  sc \in Seq(Store) /\ Len(sc) = 5
<1>1. /\ tab.end \in Cell /\ tab.start \in Cell /\ tab.count \in Int
      /\ tab.pre[n] \in Cell /\ tab.nxt[n] \in Cell /\ None \in Cell
  BY CellIn DEF Table
<1>2. \A i, v \in Cell : Put("nxt", i, v) \in Store /\ Put("pre", i, v) \in Store
  BY DEF Put, Store
<1>3. \A i \in Cell : Put("used", i, TRUE) \in Store /\ Put("used", i, FALSE) \in Store
  BY DEF Put, Store
<1>4. \A v \in Cell : Set("start", v) \in Store /\ Set("end", v) \in Store
  BY DEF Set, Store
<1>5. \A v \in Int : Set("count", v) \in Store
  BY DEF Set, Store
<1>6. InsertStores(n) \in Seq(Store) /\ Len(InsertStores(n)) = 6
  <2> DEFINE y == << Set("count", tab.count + 1), Put("nxt", tab.end, n),
                     Put("pre", n, tab.end), Put("nxt", n, None), Set("end", n) >>
             x == << Set("count", 1), Put("pre", n, None), Put("nxt", n, None),
                     Set("end", n), Set("start", n) >>
             z == << Put("used", n, TRUE) >>
  <2>1. y \in Seq(Store) /\ Len(y) = 5
    <3>1. Set("count", tab.count + 1) \in Store
      <4>1. tab.count + 1 \in Int
        BY <1>1
      <4> QED BY <4>1, <1>5
    <3>2. Put("nxt", tab.end, n) \in Store /\ Put("pre", n, tab.end) \in Store
          /\ Put("nxt", n, None) \in Store /\ Set("end", n) \in Store
      BY <1>1, <1>2, <1>4
    <3> QED BY <3>1, <3>2, Tuples
  <2>2. x \in Seq(Store) /\ Len(x) = 5
    <3>1. Set("count", 1) \in Store
      BY <1>5
    <3>2. Put("pre", n, None) \in Store /\ Put("nxt", n, None) \in Store
          /\ Set("end", n) \in Store /\ Set("start", n) \in Store
      BY <1>1, <1>2, <1>4
    <3> QED BY <3>1, <3>2, Tuples
  <2>3. z \in Seq(Store) /\ Len(z) = 1
    BY <1>3, Tuples
  <2>4. InsertStores(n) = (IF tab.count # 0 THEN y ELSE x) \o z
    BY DEF InsertStores
  <2> HIDE DEF x, y, z
  <2>5. CASE tab.count # 0
    <3>1. InsertStores(n) = y \o z
      BY <2>4, <2>5
    <3>2. y \o z \in Seq(Store) /\ Len(y \o z) = Len(y) + Len(z)
      BY <2>1, <2>3, ConcatProperties
    <3> QED BY <2>1, <2>3, <3>1, <3>2
  <2>6. CASE tab.count = 0
    <3>1. InsertStores(n) = x \o z
      BY <2>4, <2>6
    <3>2. x \o z \in Seq(Store) /\ Len(x \o z) = Len(x) + Len(z)
      BY <2>2, <2>3, ConcatProperties
    <3> QED BY <2>2, <2>3, <3>1, <3>2
  <2> QED BY <2>5, <2>6
<1>8. UnlinkStores(n) \in Seq(Store) /\ Len(UnlinkStores(n)) = 2
  BY <1>1, <1>2, <1>4, Tuples DEF UnlinkStores
<1> DEFINE u == UnlinkStores(n)
           z == << Put("used", n, FALSE), Put("nxt", n, None), Put("pre", n, None) >>
<1>9. z \in Seq(Store) /\ Len(z) = 3
  BY <1>1, <1>2, <1>3, Tuples
<1>10. u \o z \in Seq(Store) /\ Len(u \o z) = 5
  <2> HIDE DEF u, z
  <2>1. u \o z \in Seq(Store) /\ Len(u \o z) = Len(u) + Len(z)
    BY <1>8, <1>9, ConcatProperties DEF u
  <2> QED BY <1>8, <1>9, <2>1 DEF u
<1> QED BY <1>6, <1>10

LEMMA TypeNext == TypeInv /\ [Next]_vars => TypeInv'
<1> SUFFICES ASSUME TypeInv, [Next]_vars PROVE DataOK' /\ CallOK' /\ LabelInv'
  BY TypePartsNext DEF TypeInv
<1>t. DataOK /\ CallOK /\ LabelInv
  BY TypeParts DEF TypeInv
<1>a. Agent \in Procs /\ Agent \notin Writers
  BY AgentIn, HashProcs
<1>1. ASSUME NEW p \in Procs, Cas(p) PROVE DataOK' /\ CallOK' /\ LabelInv'
  <2>1. DataOK'
    BY <1>t, <1>a, <1>1, CellIn, AgesIn DEF DataOK, CallOK, Cas, agent
  <2>2. arg' \in [Procs -> Cell] /\ ret' \in [Procs -> Labels]
    BY <1>t, <1>a, <1>1, CellIn DEF DataOK, Table, CallOK, Cas, Labels, DrainLabels, Unstamped, Stamped
  <2>3. \A q \in Procs : ret'[q] \in Rets
    BY <1>t, <1>a, <1>1 DEF CallOK, LabelInv, Rets, Cas
  <2>4. PICK l \in Labels : Goto(p, l) /\ l \notin Running /\ (l \in AgentLabels => p = Agent)
    BY <1>t, <1>a, <1>1 DEF CallOK, LabelInv, Cas, Labels, DrainLabels, Unstamped, Stamped, AgentLabels, Running, Rets
  <2>5. pc[p] \notin Running /\ UNCHANGED script
    BY <1>1 DEF Cas, Running
  <2> QED BY <1>a, <2>1, <2>2, <2>3, <2>4, <2>5, Step
<1>2. ASSUME NEW p \in Procs, Stamp(p) PROVE DataOK' /\ CallOK' /\ LabelInv'
  <2>1. DataOK'
    BY <1>t, <1>a, <1>2, CellIn, AgesIn DEF DataOK, CallOK, Stamp, agent
  <2>2. arg' \in [Procs -> Cell] /\ ret' \in [Procs -> Labels]
    BY <1>t, <1>a, <1>2, CellIn DEF DataOK, Table, CallOK, Stamp, Labels, DrainLabels, Unstamped, Stamped
  <2>3. \A q \in Procs : ret'[q] \in Rets
    BY <1>t, <1>a, <1>2 DEF CallOK, LabelInv, Rets, Stamp
  <2>4. PICK l \in Labels : Goto(p, l) /\ l \notin Running /\ (l \in AgentLabels => p = Agent)
    BY <1>t, <1>a, <1>2 DEF CallOK, LabelInv, Stamp, Labels, DrainLabels, Unstamped, Stamped, AgentLabels, Running, Rets
  <2>5. pc[p] \notin Running /\ UNCHANGED script
    BY <1>2 DEF Stamp, Running
  <2> QED BY <1>a, <2>1, <2>2, <2>3, <2>4, <2>5, Step
<1>3. ASSUME NEW p \in Procs, Busy(p) PROVE DataOK' /\ CallOK' /\ LabelInv'
  <2>1. DataOK'
    BY <1>t, <1>a, <1>3, CellIn, AgesIn DEF DataOK, CallOK, Busy, agent
  <2>2. arg' \in [Procs -> Cell] /\ ret' \in [Procs -> Labels]
    BY <1>t, <1>a, <1>3, CellIn DEF DataOK, Table, CallOK, Busy, Labels, DrainLabels, Unstamped, Stamped, Return
  <2>3. \A q \in Procs : ret'[q] \in Rets
    BY <1>t, <1>a, <1>3 DEF CallOK, LabelInv, Rets, Busy, Return
  <2>4. PICK l \in Labels : Goto(p, l) /\ l \notin Running /\ (l \in AgentLabels => p = Agent)
    BY <1>t, <1>a, <1>3 DEF CallOK, LabelInv, Busy, Labels, DrainLabels, Unstamped, Stamped, AgentLabels, Running, Rets, Return
  <2>5. pc[p] \notin Running /\ UNCHANGED script
    BY <1>3 DEF Busy, Running, Return
  <2> QED BY <1>a, <2>1, <2>2, <2>3, <2>4, <2>5, Step
<1>4. ASSUME NEW p \in Procs, Steal(p) PROVE DataOK' /\ CallOK' /\ LabelInv'
  <2>1. DataOK'
    BY <1>t, <1>a, <1>4, CellIn, AgesIn DEF DataOK, CallOK, Steal, agent, Tainted, Taints
  <2>2. arg' \in [Procs -> Cell] /\ ret' \in [Procs -> Labels]
    BY <1>t, <1>a, <1>4, CellIn DEF DataOK, Table, CallOK, Steal, Labels, DrainLabels, Unstamped, Stamped, Return
  <2>3. \A q \in Procs : ret'[q] \in Rets
    BY <1>t, <1>a, <1>4 DEF CallOK, LabelInv, Rets, Steal, Return
  <2>4. PICK l \in Labels : Goto(p, l) /\ l \notin Running /\ (l \in AgentLabels => p = Agent)
    BY <1>t, <1>a, <1>4 DEF CallOK, LabelInv, Steal, Labels, DrainLabels, Unstamped, Stamped, AgentLabels, Running, Rets, Return
  <2>5. pc[p] \notin Running /\ UNCHANGED script
    BY <1>4 DEF Steal, Running, Return
  <2> QED BY <1>a, <2>1, <2>2, <2>3, <2>4, <2>5, Step
<1>5. ASSUME NEW p \in Procs, Release(p) PROVE DataOK' /\ CallOK' /\ LabelInv'
  <2>1. DataOK'
    BY <1>t, <1>a, <1>5, CellIn, AgesIn DEF DataOK, CallOK, Release, agent
  <2>2. arg' \in [Procs -> Cell] /\ ret' \in [Procs -> Labels]
    BY <1>t, <1>a, <1>5, CellIn DEF DataOK, Table, CallOK, Release, Labels, DrainLabels, Unstamped, Stamped
  <2>3. \A q \in Procs : ret'[q] \in Rets
    BY <1>t, <1>a, <1>5 DEF CallOK, LabelInv, Rets, Release
  <2>4. PICK l \in Labels : Goto(p, l) /\ l \notin Running /\ (l \in AgentLabels => p = Agent)
    BY <1>t, <1>a, <1>5 DEF CallOK, LabelInv, Release, Labels, DrainLabels, Unstamped, Stamped, AgentLabels, Running, Rets
  <2>5. pc[p] \notin Running /\ UNCHANGED script
    BY <1>5 DEF Release, Running
  <2> QED BY <1>a, <2>1, <2>2, <2>3, <2>4, <2>5, Step
<1>6. ASSUME NEW p \in Procs, ClearStamp(p) PROVE DataOK' /\ CallOK' /\ LabelInv'
  <2>1. DataOK'
    BY <1>t, <1>a, <1>6, CellIn, AgesIn DEF DataOK, CallOK, ClearStamp, agent
  <2>2. arg' \in [Procs -> Cell] /\ ret' \in [Procs -> Labels]
    BY <1>t, <1>a, <1>6, CellIn DEF DataOK, Table, CallOK, ClearStamp, Labels, DrainLabels, Unstamped, Stamped, Return
  <2>3. \A q \in Procs : ret'[q] \in Rets
    BY <1>t, <1>a, <1>6 DEF CallOK, LabelInv, Rets, ClearStamp, Return
  <2>4. PICK l \in Labels : Goto(p, l) /\ l \notin Running /\ (l \in AgentLabels => p = Agent)
    BY <1>t, <1>a, <1>6 DEF CallOK, LabelInv, ClearStamp, Labels, DrainLabels, Unstamped, Stamped, AgentLabels, Running, Rets, Return
  <2>5. pc[p] \notin Running /\ UNCHANGED script
    BY <1>6 DEF ClearStamp, Running, Return
  <2> QED BY <1>a, <2>1, <2>2, <2>3, <2>4, <2>5, Step
<1>7. ASSUME AdvanceCursor PROVE DataOK' /\ CallOK' /\ LabelInv'
  <2>1. DataOK'
    BY <1>t, <1>a, <1>7, CellIn, AgesIn DEF DataOK, CallOK, AdvanceCursor, Table, agent
  <2>2. arg' \in [Procs -> Cell] /\ ret' \in [Procs -> Labels]
    BY <1>t, <1>a, <1>7, CellIn DEF DataOK, Table, CallOK, AdvanceCursor, Labels, DrainLabels, Unstamped, Stamped
  <2>3. \A q \in Procs : ret'[q] \in Rets
    BY <1>t, <1>a, <1>7 DEF CallOK, LabelInv, Rets, AdvanceCursor
  <2>4. PICK l \in Labels : Goto(Agent, l) /\ l \notin Running /\ (l \in AgentLabels => Agent = Agent)
    BY <1>t, <1>a, <1>7 DEF CallOK, LabelInv, AdvanceCursor, Labels, DrainLabels, Unstamped, Stamped, AgentLabels, Running, Rets
  <2>5. pc[Agent] \notin Running /\ UNCHANGED script
    BY <1>7 DEF AdvanceCursor, Running
  <2> QED BY <1>a, <2>1, <2>2, <2>3, <2>4, <2>5, Step
<1>8. ASSUME CheckFailed PROVE DataOK' /\ CallOK' /\ LabelInv'
  <2>1. DataOK'
    BY <1>t, <1>a, <1>8, CellIn, AgesIn DEF DataOK, CallOK, CheckFailed, agent, Taints
  <2>2. arg' \in [Procs -> Cell] /\ ret' \in [Procs -> Labels]
    BY <1>t, <1>a, <1>8, CellIn DEF DataOK, Table, CallOK, CheckFailed, Labels, DrainLabels, Unstamped, Stamped
  <2>3. \A q \in Procs : ret'[q] \in Rets
    BY <1>t, <1>a, <1>8 DEF CallOK, LabelInv, Rets, CheckFailed
  <2>4. PICK l \in Labels : Goto(Agent, l) /\ l \notin Running /\ (l \in AgentLabels => Agent = Agent)
    BY <1>t, <1>a, <1>8 DEF CallOK, LabelInv, CheckFailed, Labels, DrainLabels, Unstamped, Stamped, AgentLabels, Running, Rets
  <2>5. pc[Agent] \notin Running /\ UNCHANGED script
    BY <1>8 DEF CheckFailed, Running
  <2> QED BY <1>a, <2>1, <2>2, <2>3, <2>4, <2>5, Step
<1>9. ASSUME ResetCas PROVE DataOK' /\ CallOK' /\ LabelInv'
  <2>1. DataOK'
    BY <1>t, <1>a, <1>9, CellIn, AgesIn DEF DataOK, CallOK, ResetCas, agent, Tainted, Taints
  <2>2. arg' \in [Procs -> Cell] /\ ret' \in [Procs -> Labels]
    BY <1>t, <1>a, <1>9, CellIn DEF DataOK, Table, CallOK, ResetCas, Labels, DrainLabels, Unstamped, Stamped
  <2>3. \A q \in Procs : ret'[q] \in Rets
    BY <1>t, <1>a, <1>9 DEF CallOK, LabelInv, Rets, ResetCas
  <2>4. PICK l \in Labels : Goto(Agent, l) /\ l \notin Running /\ (l \in AgentLabels => Agent = Agent)
    <3>1. CASE Goto(Agent, "r_stamp")
      BY <3>1 DEF Labels, Unstamped, Running
    <3>2. CASE UNCHANGED pc
      <4>1. Goto(Agent, pc[Agent]) /\ pc[Agent] = "r_cas"
        BY <1>t, <1>9, <3>2, Same DEF CallOK, ResetCas, Goto
      <4> QED BY <4>1 DEF Labels, Running
    <3> QED BY <1>9, <3>1, <3>2 DEF ResetCas
  <2>5. pc[Agent] \notin Running /\ UNCHANGED script
    BY <1>9 DEF ResetCas, Running
  <2> QED BY <1>a, <2>1, <2>2, <2>3, <2>4, <2>5, Step
<1>10. ASSUME ResetGiveUp PROVE DataOK' /\ CallOK' /\ LabelInv'
  <2>d. /\ UNCHANGED <<tab, age, claim, wiped>>
        /\ flag' = 0 /\ cur' = None /\ curRev' = None /\ rev' = FALSE /\ acc' = FALSE /\ reads' = 0
    BY <1>10 DEF ResetGiveUp, AgentFresh
  <2>e. taint' \subseteq Taints
    BY <1>t, <1>10 DEF ResetGiveUp, DataOK, Tainted, Taints
  <2>1. DataOK'
    BY <1>t, <2>d, <2>e, CellIn, AgesIn DEF DataOK
  <2>2. arg' \in [Procs -> Cell] /\ ret' \in [Procs -> Labels]
    BY <1>t, <1>a, <1>10, CellIn DEF DataOK, Table, CallOK, ResetGiveUp, Labels, DrainLabels, Unstamped, Stamped
  <2>3. \A q \in Procs : ret'[q] \in Rets
    BY <1>t, <1>a, <1>10 DEF CallOK, LabelInv, Rets, ResetGiveUp
  <2>4. PICK l \in Labels : Goto(Agent, l) /\ l \notin Running /\ (l \in AgentLabels => Agent = Agent)
    BY <1>t, <1>a, <1>10 DEF CallOK, LabelInv, ResetGiveUp, Labels, DrainLabels, Unstamped, Stamped, AgentLabels, Running, Rets
  <2>5. pc[Agent] \notin Running /\ UNCHANGED script
    BY <1>10 DEF ResetGiveUp, Running
  <2> QED BY <1>a, <2>1, <2>2, <2>3, <2>4, <2>5, Step
<1>11. ASSUME ResetStamp PROVE DataOK' /\ CallOK' /\ LabelInv'
  <2>1. DataOK'
    BY <1>t, <1>a, <1>11, CellIn, AgesIn DEF DataOK, CallOK, ResetStamp, agent
  <2>2. arg' \in [Procs -> Cell] /\ ret' \in [Procs -> Labels]
    BY <1>t, <1>a, <1>11, CellIn DEF DataOK, Table, CallOK, ResetStamp, Labels, DrainLabels, Unstamped, Stamped
  <2>3. \A q \in Procs : ret'[q] \in Rets
    BY <1>t, <1>a, <1>11 DEF CallOK, LabelInv, Rets, ResetStamp
  <2>4. PICK l \in Labels : Goto(Agent, l) /\ l \notin Running /\ (l \in AgentLabels => Agent = Agent)
    BY <1>t, <1>a, <1>11 DEF CallOK, LabelInv, ResetStamp, Labels, DrainLabels, Unstamped, Stamped, AgentLabels, Running, Rets
  <2>5. pc[Agent] \notin Running /\ UNCHANGED script
    BY <1>11 DEF ResetStamp, Running
  <2> QED BY <1>a, <2>1, <2>2, <2>3, <2>4, <2>5, Step
<1>12. ASSUME ResetRelease PROVE DataOK' /\ CallOK' /\ LabelInv'
  <2>1. DataOK'
    BY <1>t, <1>a, <1>12, CellIn, AgesIn DEF DataOK, CallOK, ResetRelease, agent, Taints
  <2>2. arg' \in [Procs -> Cell] /\ ret' \in [Procs -> Labels]
    BY <1>t, <1>a, <1>12, CellIn DEF DataOK, Table, CallOK, ResetRelease, Labels, DrainLabels, Unstamped, Stamped
  <2>3. \A q \in Procs : ret'[q] \in Rets
    BY <1>t, <1>a, <1>12 DEF CallOK, LabelInv, Rets, ResetRelease
  <2>4. PICK l \in Labels : Goto(Agent, l) /\ l \notin Running /\ (l \in AgentLabels => Agent = Agent)
    BY <1>t, <1>a, <1>12 DEF CallOK, LabelInv, ResetRelease, Labels, DrainLabels, Unstamped, Stamped, AgentLabels, Running, Rets
  <2>5. pc[Agent] \notin Running /\ UNCHANGED script
    BY <1>12 DEF ResetRelease, Running
  <2> QED BY <1>a, <2>1, <2>2, <2>3, <2>4, <2>5, Step
<1>13. ASSUME DrainStart PROVE DataOK' /\ CallOK' /\ LabelInv'
  <2>1. DataOK'
    BY <1>t, <1>a, <1>13, CellIn, AgesIn DEF DataOK, CallOK, DrainStart, agent
  <2>2. arg' \in [Procs -> Cell] /\ ret' \in [Procs -> Labels]
    BY <1>t, <1>a, <1>13, CellIn DEF DataOK, Table, CallOK, DrainStart, Labels, DrainLabels, Unstamped, Stamped
  <2>3. \A q \in Procs : ret'[q] \in Rets
    BY <1>t, <1>a, <1>13 DEF CallOK, LabelInv, Rets, DrainStart
  <2>4. PICK l \in Labels : Goto(Agent, l) /\ l \notin Running /\ (l \in AgentLabels => Agent = Agent)
    BY <1>t, <1>a, <1>13 DEF CallOK, LabelInv, DrainStart, Labels, DrainLabels, Unstamped, Stamped, AgentLabels, Running, Rets
  <2>5. pc[Agent] \notin Running /\ UNCHANGED script
    BY <1>13 DEF DrainStart, Running
  <2> QED BY <1>a, <2>1, <2>2, <2>3, <2>4, <2>5, Step
<1>14. ASSUME DrainFirst PROVE DataOK' /\ CallOK' /\ LabelInv'
  <2>1. DataOK'
    BY <1>t, <1>a, <1>14, CellIn, AgesIn DEF DataOK, CallOK, DrainFirst, Table
  <2>2. arg' \in [Procs -> Cell] /\ ret' \in [Procs -> Labels]
    BY <1>t, <1>a, <1>14, CellIn DEF DataOK, Table, CallOK, DrainFirst, Labels, DrainLabels, Unstamped, Stamped, Look
  <2>3. \A q \in Procs : ret'[q] \in Rets
    BY <1>t, <1>a, <1>14 DEF CallOK, LabelInv, Rets, DrainFirst, Look
  <2>4. PICK l \in Labels : Goto(Agent, l) /\ l \notin Running /\ (l \in AgentLabels => Agent = Agent)
    BY <1>t, <1>a, <1>14 DEF CallOK, LabelInv, DrainFirst, Labels, DrainLabels, Unstamped, Stamped, AgentLabels, Running, Rets, Look
  <2>5. pc[Agent] \notin Running /\ UNCHANGED script
    BY <1>14 DEF DrainFirst, Running, Look
  <2> QED BY <1>a, <2>1, <2>2, <2>3, <2>4, <2>5, Step
<1>15. ASSUME DrainNull PROVE DataOK' /\ CallOK' /\ LabelInv'
  <2>1. DataOK'
    BY <1>t, <1>a, <1>15, CellIn, AgesIn DEF DataOK, CallOK, DrainNull
  <2>2. arg' \in [Procs -> Cell] /\ ret' \in [Procs -> Labels]
    BY <1>t, <1>a, <1>15, CellIn DEF DataOK, Table, CallOK, DrainNull, Labels, DrainLabels, Unstamped, Stamped
  <2>3. \A q \in Procs : ret'[q] \in Rets
    BY <1>t, <1>a, <1>15 DEF CallOK, LabelInv, Rets, DrainNull
  <2>4. PICK l \in Labels : Goto(Agent, l) /\ l \notin Running /\ (l \in AgentLabels => Agent = Agent)
    BY <1>t, <1>a, <1>15 DEF CallOK, LabelInv, DrainNull, Labels, DrainLabels, Unstamped, Stamped, AgentLabels, Running, Rets
  <2>5. pc[Agent] \notin Running /\ UNCHANGED script
    BY <1>15 DEF DrainNull, Running
  <2> QED BY <1>a, <2>1, <2>2, <2>3, <2>4, <2>5, Step
<1>16. ASSUME DrainFirstRevers PROVE DataOK' /\ CallOK' /\ LabelInv'
  <2>1. DataOK'
    BY <1>t, <1>a, <1>16, CellIn, AgesIn DEF DataOK, CallOK, DrainFirstRevers, Table
  <2>2. arg' \in [Procs -> Cell] /\ ret' \in [Procs -> Labels]
    BY <1>t, <1>a, <1>16, CellIn DEF DataOK, Table, CallOK, DrainFirstRevers, Labels, DrainLabels, Unstamped, Stamped, Look
  <2>3. \A q \in Procs : ret'[q] \in Rets
    BY <1>t, <1>a, <1>16 DEF CallOK, LabelInv, Rets, DrainFirstRevers, Look
  <2>4. PICK l \in Labels : Goto(Agent, l) /\ l \notin Running /\ (l \in AgentLabels => Agent = Agent)
    BY <1>t, <1>a, <1>16 DEF CallOK, LabelInv, DrainFirstRevers, Labels, DrainLabels, Unstamped, Stamped, AgentLabels, Running, Rets, Look
  <2>5. pc[Agent] \notin Running /\ UNCHANGED script
    BY <1>16 DEF DrainFirstRevers, Running, Look
  <2> QED BY <1>a, <2>1, <2>2, <2>3, <2>4, <2>5, Step
<1>17. ASSUME DrainNode PROVE DataOK' /\ CallOK' /\ LabelInv'
  <2>1. DataOK'
    BY <1>t, <1>a, <1>17, CellIn, AgesIn, HashSizes DEF DataOK, CallOK, DrainNode
  <2>2. arg' \in [Procs -> Cell] /\ ret' \in [Procs -> Labels]
    BY <1>t, <1>a, <1>17, CellIn DEF DataOK, Table, CallOK, DrainNode, Labels, DrainLabels, Unstamped, Stamped
  <2>3. \A q \in Procs : ret'[q] \in Rets
    BY <1>t, <1>a, <1>17 DEF CallOK, LabelInv, Rets, DrainNode
  <2>4. PICK l \in Labels : Goto(Agent, l) /\ l \notin Running /\ (l \in AgentLabels => Agent = Agent)
    BY <1>t, <1>a, <1>17 DEF CallOK, LabelInv, DrainNode, Labels, DrainLabels, Unstamped, Stamped, AgentLabels, Running, Rets
  <2>5. pc[Agent] \notin Running /\ UNCHANGED script
    BY <1>17 DEF DrainNode, Running
  <2> QED BY <1>a, <2>1, <2>2, <2>3, <2>4, <2>5, Step
<1>18. ASSUME DrainClear PROVE DataOK' /\ CallOK' /\ LabelInv'
  <2>1. DataOK'
    BY <1>t, <1>a, <1>18, CellIn, AgesIn DEF DataOK, CallOK, DrainClear, agent
  <2>2. arg' \in [Procs -> Cell] /\ ret' \in [Procs -> Labels]
    BY <1>t, <1>a, <1>18, CellIn DEF DataOK, Table, CallOK, DrainClear, Labels, DrainLabels, Unstamped, Stamped
  <2>3. \A q \in Procs : ret'[q] \in Rets
    BY <1>t, <1>a, <1>18 DEF CallOK, LabelInv, Rets, DrainClear
  <2>4. PICK l \in Labels : Goto(Agent, l) /\ l \notin Running /\ (l \in AgentLabels => Agent = Agent)
    BY <1>t, <1>a, <1>18 DEF CallOK, LabelInv, DrainClear, Labels, DrainLabels, Unstamped, Stamped, AgentLabels, Running, Rets
  <2>5. pc[Agent] \notin Running /\ UNCHANGED script
    BY <1>18 DEF DrainClear, Running
  <2> QED BY <1>a, <2>1, <2>2, <2>3, <2>4, <2>5, Step
<1>19. ASSUME DrainCur PROVE DataOK' /\ CallOK' /\ LabelInv'
  <2>1. DataOK'
    BY <1>t, <1>a, <1>19, CellIn, AgesIn DEF DataOK, CallOK, DrainCur
  <2>2. arg' \in [Procs -> Cell] /\ ret' \in [Procs -> Labels]
    BY <1>t, <1>a, <1>19, CellIn DEF DataOK, Table, CallOK, DrainCur, Labels, DrainLabels, Unstamped, Stamped, Look
  <2>3. \A q \in Procs : ret'[q] \in Rets
    BY <1>t, <1>a, <1>19 DEF CallOK, LabelInv, Rets, DrainCur, Look
  <2>4. PICK l \in Labels : Goto(Agent, l) /\ l \notin Running /\ (l \in AgentLabels => Agent = Agent)
    BY <1>t, <1>a, <1>19 DEF CallOK, LabelInv, DrainCur, Labels, DrainLabels, Unstamped, Stamped, AgentLabels, Running, Rets, Look
  <2>5. pc[Agent] \notin Running /\ UNCHANGED script
    BY <1>19 DEF DrainCur, Running, Look
  <2> QED BY <1>a, <2>1, <2>2, <2>3, <2>4, <2>5, Step
<1>20. ASSUME DrainEnd PROVE DataOK' /\ CallOK' /\ LabelInv'
  <2>d. UNCHANGED <<tab, flag, age, claim, cur, curRev, wiped, taint>>
    BY <1>20 DEF DrainEnd
  <2>e. rev' \in BOOLEAN /\ acc' \in BOOLEAN
    BY <1>t, <1>20 DEF DrainEnd, DataOK, DrainReturn
  <2>f. reads' \in 0 .. MaxRead
    BY <1>t, <1>20, AgesIn DEF DrainEnd, DataOK, DrainReturn
  <2>1. DataOK'
    BY <1>t, <2>d, <2>e, <2>f DEF DataOK
  <2>2. arg' \in [Procs -> Cell] /\ ret' \in [Procs -> Labels]
    BY <1>t, <1>a, <1>20, CellIn DEF CallOK, DrainEnd, Labels, DrainLabels, Unstamped, Stamped, DrainReturn
  <2>3. \A q \in Procs : ret'[q] \in Rets
    BY <1>t, <1>a, <1>20 DEF CallOK, LabelInv, Rets, DrainEnd, DrainReturn
  <2>4. PICK l \in Labels : Goto(Agent, l) /\ l \notin Running /\ (l \in AgentLabels => Agent = Agent)
    BY <1>t, <1>a, <1>20 DEF CallOK, LabelInv, DrainEnd, Labels, DrainLabels, Unstamped, Stamped, AgentLabels, Running, Rets, DrainReturn
  <2>5. pc[Agent] \notin Running /\ UNCHANGED script
    BY <1>20 DEF DrainEnd, Running, DrainReturn
  <2> QED BY <1>a, <2>1, <2>2, <2>3, <2>4, <2>5, Step
<1>21. ASSUME DrainAccess PROVE DataOK' /\ CallOK' /\ LabelInv'
  <2>d. UNCHANGED <<tab, flag, age, claim, cur, curRev, wiped, taint>>
    BY <1>21 DEF DrainAccess
  <2>e. rev' = FALSE /\ acc' = TRUE /\ reads' = 0
    BY <1>21 DEF DrainAccess, DrainReturn
  <2>1. DataOK'
    BY <1>t, <2>d, <2>e, AgesIn DEF DataOK
  <2>2. arg' \in [Procs -> Cell] /\ ret' \in [Procs -> Labels]
    BY <1>t, <1>a, <1>21, CellIn DEF DataOK, Table, CallOK, DrainAccess, Labels, DrainLabels, Unstamped, Stamped, DrainReturn
  <2>3. \A q \in Procs : ret'[q] \in Rets
    BY <1>t, <1>a, <1>21 DEF CallOK, LabelInv, Rets, DrainAccess, DrainReturn
  <2>4. PICK l \in Labels : Goto(Agent, l) /\ l \notin Running /\ (l \in AgentLabels => Agent = Agent)
    BY <1>t, <1>a, <1>21 DEF CallOK, LabelInv, DrainAccess, Labels, DrainLabels, Unstamped, Stamped, AgentLabels, Running, Rets, DrainReturn
  <2>5. pc[Agent] \notin Running /\ UNCHANGED script
    BY <1>21 DEF DrainAccess, Running, DrainReturn
  <2> QED BY <1>a, <2>1, <2>2, <2>3, <2>4, <2>5, Step
<1>22. ASSUME NEW p \in Procs, Run(p) PROVE DataOK' /\ CallOK' /\ LabelInv'
  <2>1. Len(script[p]) # 0 /\ script[p] \in Seq(Store)
    BY <1>t, <1>22 DEF CallOK, LabelInv, Run, Running
  <2>2. Head(script[p]) \in Store /\ Tail(script[p]) \in Seq(Store)
        /\ Len(Tail(script[p])) = Len(script[p]) - 1 /\ Len(script[p]) \in Nat
    BY <2>1
  <2>3. DataOK'
    BY <1>t, <1>22, <2>2, ApplyHead DEF DataOK, Run, agent
  <2>4. UNCHANGED <<arg, ret>> /\ script' = [script EXCEPT ![p] = Tail(script[p])]
    BY <1>22 DEF Run
  <2>5. script' \in [Procs -> Seq(Store)]
    BY <1>t, <2>2, <2>4 DEF CallOK
  <2>6. CASE Len(script[p]) = 1
    <3>1. Goto(p, IF pc[p] = "run" THEN "rel" ELSE "r_rel") /\ pc[p] \in Running
      BY <1>22, <2>6 DEF Run, Running
    <3>2. PICK l \in {"rel", "r_rel"} : Goto(p, l) /\ (l = "r_rel" => pc[p] = "r_run")
      BY <3>1 DEF Running
    <3>3. pc' \in [Procs -> Labels]
      BY <1>t, <3>2 DEF CallOK, Goto, Labels, Stamped
    <3>4. \A q \in Procs : pc'[q] \in AgentLabels => q = Agent
      BY <1>t, <3>2 DEF CallOK, LabelInv, Goto, AgentLabels, DrainLabels
    <3>5. \A q \in Procs : pc'[q] \in Running <=> Len(script'[q]) # 0
      <4> SUFFICES ASSUME NEW q \in Procs PROVE pc'[q] \in Running <=> Len(script'[q]) # 0
        OBVIOUS
      <4>1. CASE q = p
        BY <1>t, <2>2, <2>4, <2>6, <3>2, <4>1 DEF CallOK, Goto, Running
      <4>2. CASE q # p
        BY <1>t, <2>4, <3>2, <4>2 DEF CallOK, LabelInv, Goto
      <4> QED BY <4>1, <4>2
    <3> QED BY <1>t, <2>3, <2>4, <2>5, <3>3, <3>4, <3>5 DEF CallOK, LabelInv
  <2>7. CASE Len(script[p]) # 1
    <3>1. UNCHANGED pc /\ pc[p] \in Running
      BY <1>22, <2>7 DEF Run, Running
    <3>2. \A q \in Procs : pc[q] \in Running <=> Len(script'[q]) # 0
      <4> SUFFICES ASSUME NEW q \in Procs PROVE pc[q] \in Running <=> Len(script'[q]) # 0
        OBVIOUS
      <4>1. CASE q = p
        BY <1>t, <2>1, <2>2, <2>4, <2>7, <3>1, <4>1 DEF CallOK
      <4>2. CASE q # p
        BY <1>t, <2>4, <4>2 DEF CallOK, LabelInv
      <4> QED BY <4>1, <4>2
    <3> QED BY <1>t, <2>3, <2>4, <2>5, <3>1, <3>2 DEF CallOK, LabelInv
  <2> QED BY <2>6, <2>7
<1>23. ASSUME NEW p \in Procs, InsertPlan(p) PROVE DataOK' /\ CallOK' /\ LabelInv'
  <2>1. DataOK'
    BY <1>t, <1>23 DEF InsertPlan, DataOK, agent
  <2>2. InsertStores(arg[p]) \in Seq(Store) /\ Len(InsertStores(arg[p])) = 6
    BY <1>t, StoresOK DEF CallOK, DataOK
  <2>3. p \in Writers /\ UNCHANGED <<arg, ret>> /\ Goto(p, "run")
        /\ script' = [script EXCEPT ![p] = InsertStores(arg[p])]
    BY <1>23 DEF InsertPlan
  <2>4. "run" \in Running /\ "run" # "r_run" /\ Len(InsertStores(arg[p])) # 0
    BY <2>2 DEF Running
  <2> QED BY <1>t, <1>a, <2>1, <2>2, <2>3, <2>4, Launch
<1>24. ASSUME RemovePlan PROVE DataOK' /\ CallOK' /\ LabelInv'
  <2> DEFINE n == arg[Agent]
             sc == UnlinkStores(n) \o << Put("used", n, FALSE), Put("nxt", n, None), Put("pre", n, None) >>
  <2>1. n \in Cell
    BY <1>t, <1>a DEF CallOK
  <2>2. DataOK'
    BY <1>t, <1>24 DEF RemovePlan, DataOK, agent, Table, Dec, Wrap
  <2>3. sc \in Seq(Store) /\ Len(sc) = 5
    BY <1>t, <2>1, StoresOK DEF DataOK
  <2>4. UNCHANGED arg /\ pc[Agent] = "plan"
    BY <1>24 DEF RemovePlan
  <2>5. CASE Goto(Agent, "run") /\ UNCHANGED ret /\ script' = [script EXCEPT ![Agent] = sc]
    <3>1. "run" \in Running /\ "run" # "r_run" /\ Len(sc) # 0
      BY <2>3 DEF Running
    <3> HIDE DEF sc, n
    <3> QED BY <1>t, <1>a, <2>2, <2>3, <2>4, <2>5, <3>1, Launch
  <2>6. CASE Goto(Agent, "fail") /\ ret' = [ret EXCEPT ![Agent] = "d_clear"] /\ UNCHANGED script
    <3>1. ret' \in [Procs -> Labels] /\ \A q \in Procs : ret'[q] \in Rets
      BY <1>t, <1>a, <2>6 DEF CallOK, LabelInv, Rets, Labels, DrainLabels
    <3>2. arg' \in [Procs -> Cell]
      BY <1>t, <2>4 DEF CallOK
    <3> QED BY <1>a, <2>2, <2>4, <2>6, <3>1, <3>2, Step DEF Labels, Running
  <2> QED BY <1>24, <2>5, <2>6 DEF RemovePlan
<1>25. ASSUME ResetMem PROVE DataOK' /\ CallOK' /\ LabelInv'
  <2> DEFINE sc == << Set("start", None), Set("end", None), Set("count", 0) >>
  <2>1. DataOK'
    <3>1. tab' \in Table
      BY <1>t, <1>25, CellIn DEF ResetMem, DataOK, Table
    <3>2. claim' \in [Node -> BOOLEAN]
      BY <1>t, <1>25 DEF ResetMem, DataOK
    <3>3. taint' \subseteq Taints
      BY <1>t, <1>25 DEF ResetMem, DataOK, Taints
    <3> QED BY <1>t, <1>25, <3>1, <3>2, <3>3 DEF ResetMem, DataOK, agent
  <2>2. sc \in Seq(Store) /\ Len(sc) = 3
    BY CellIn DEF Store, Set
  <2>3. UNCHANGED <<arg, ret>> /\ Goto(Agent, "r_run") /\ script' = [script EXCEPT ![Agent] = sc]
    BY <1>25 DEF ResetMem
  <2>4. "r_run" \in Running /\ Len(sc) # 0
    BY <2>2 DEF Running
  <2> HIDE DEF sc
  <2> QED BY <1>t, <1>a, <2>1, <2>2, <2>3, <2>4, Launch
<1>26. ASSUME Tick PROVE DataOK' /\ CallOK' /\ LabelInv'
  <2>1. age' \in 0 .. Old
    BY <1>t, <1>26, HashSizes DEF Tick, DataOK, Old
  <2> QED BY <1>t, <1>26, <2>1 DEF Tick, DataOK, CallOK, LabelInv, locals, agent
<1>27. ASSUME NEW p \in Procs, Crash(p) PROVE DataOK' /\ CallOK' /\ LabelInv'
  <2>1. /\ UNCHANGED <<tab, flag, age, claim, wiped>>
        /\ Goto(p, "idle") /\ arg' = [arg EXCEPT ![p] = None]
        /\ script' = [script EXCEPT ![p] = <<>>] /\ ret' = [ret EXCEPT ![p] = "idle"]
    BY <1>27 DEF Crash
  <2>2. cur' \in Cell /\ curRev' \in Cell /\ rev' \in BOOLEAN /\ acc' \in BOOLEAN
        /\ reads' \in 0 .. MaxRead
    BY <1>t, <1>27, CellIn, AgesIn DEF Crash, DataOK, AgentFresh, agent
  <2>3. taint' \subseteq Taints
    BY <1>t, <1>27 DEF Crash, DataOK, Taints
  <2>4. CallOK'
    BY <1>t, <2>1, CellIn DEF CallOK, Goto, Labels
  <2>5. LabelInv'
    BY <1>t, <2>1 DEF CallOK, LabelInv, Goto, AgentLabels, DrainLabels, Running, Rets
  <2> QED BY <1>t, <2>1, <2>2, <2>3, <2>4, <2>5 DEF DataOK
<1>28. ASSUME NEW p \in Writers, NEW n \in Node, InsertStart(p, n)
       PROVE  DataOK' /\ CallOK' /\ LabelInv'
  <2>1. /\ UNCHANGED <<tab, flag, age, script, ret, agent, wiped>>
        /\ Goto(p, "cas") /\ arg' = [arg EXCEPT ![p] = n] /\ claim' = [claim EXCEPT ![n] = TRUE]
        /\ pc[p] = "idle"
    BY <1>28 DEF InsertStart
  <2>2. taint' \subseteq Taints
    BY <1>t, <1>28 DEF InsertStart, DataOK, Taints
  <2>3. arg' \in [Procs -> Cell] /\ ret' \in [Procs -> Labels] /\ \A q \in Procs : ret'[q] \in Rets
    BY <1>t, <2>1, CellIn DEF CallOK, LabelInv
  <2>4. DataOK'
    BY <1>t, <2>1, <2>2 DEF DataOK, agent
  <2>5. p \in Procs
    BY DEF Procs
  <2> QED BY <2>1, <2>3, <2>4, <2>5, Step DEF Labels, AgentLabels, DrainLabels, Running
<1>29. CASE UNCHANGED vars
  BY <1>t, <1>29 DEF vars, locals, agent, DataOK, CallOK, LabelInv
<1> QED
  BY <1>1, <1>2, <1>3, <1>4, <1>5, <1>6, <1>7, <1>8, <1>9, <1>10, <1>11, <1>12, <1>13, <1>14,
     <1>15, <1>16, <1>17, <1>18, <1>19, <1>20, <1>21, <1>22, <1>23, <1>24, <1>25, <1>26, <1>27,
     <1>28, <1>29 DEF Next, Call, Drain, Reset

LEMMA TypeInvCorrect == Spec => []TypeInv
<1>1. Init => TypeInv
  <2> SUFFICES ASSUME Init PROVE DataOK /\ CallOK /\ LabelInv
    BY TypeParts DEF TypeInv
  <2>1. DataOK
    BY CellIn, AgesIn DEF Init, DataOK, Table
  <2>2. CallOK
    BY CellIn DEF Init, CallOK, Labels
  <2>3. LabelInv
    BY DEF Init, LabelInv, AgentLabels, DrainLabels, Running, Rets
  <2> QED BY <2>1, <2>2, <2>3
<1> QED BY <1>1, TypeNext, PTL DEF Spec

(* The fields of the table and the locals of every process keep their ranges, and a      *)
(* process that has stores to do is at the label that does them, whoever dies and whoever *)
(* clears the flag under whom (InsertHashNode, RemoveHashNode, ResetHashTable, ReadAttr). *)
THEOREM HashTypeCorrect == Spec => []TypeOK
<1>1. TypeInv => TypeOK
  BY DEF TypeInv
<1> QED BY <1>1, TypeInvCorrect, PTL

-----------------------------------------------------------------------------
(***************************************************************************)
(* The flag.                                                               *)
(***************************************************************************)
Kept == {"torn", "doubled", "kept"}

(* A step after which nobody holds the flag that did not before. *)
LEMMA FlagKept ==
  ASSUME HashMutex, taint \subseteq taint', UNCHANGED flag,
         \A q \in Procs : Holds(q)' => Holds(q)
  PROVE  HashMutex'
BY DEF HashMutex

(* A step after which nobody holds it. *)
LEMMA FlagFree ==
  ASSUME taint' \subseteq Kept => \A q \in Procs : ~Holds(q)'
  PROVE  HashMutex'
BY DEF HashMutex, Kept

(* A compare-and-swap that succeeds. *)
LEMMA FlagTaken ==
  ASSUME TypeInv, HashMutex, UNCHANGED taint, flag = 0, flag' = 1,
         NEW p \in Procs, NEW l \in Labels, Goto(p, l)
  PROVE  HashMutex'
<1>1. taint \subseteq Kept => \A q \in Procs : ~Holds(q)
  BY DEF HashMutex, Kept
<1>2. \A q \in Procs : q # p => (Holds(q)' <=> Holds(q))
  BY DEF Holds, Goto, TypeInv, TypeOK
<1> QED BY <1>1, <1>2 DEF HashMutex, Kept

(* The process moves on; it holds the flag only if it did before. *)
LEMMA HeldKept ==
  ASSUME TypeInv, HashMutex, taint \subseteq taint', UNCHANGED flag,
         NEW p \in Procs, NEW l, Goto(p, l), l \in Unstamped \cup Stamped => Holds(p)
  PROVE  HashMutex'
<1>1. \A q \in Procs : Holds(q)' => Holds(q)
  BY DEF Holds, Goto, TypeInv, TypeOK
<1> QED BY <1>1, FlagKept

(* The flag is cleared from outside. *)
LEMMA Cleared ==
  ASSUME taint' = Tainted, NEW q \in Procs, Holds(q)
  PROVE  ~(taint' \subseteq Kept)
BY DEF Tainted, Holds, Kept

LEMMA MutexNext == TypeInv /\ HashMutex /\ [Next]_vars => HashMutex'
<1> SUFFICES ASSUME TypeInv, HashMutex, [Next]_vars PROVE HashMutex'
  OBVIOUS
<1>a. Agent \in Procs /\ Agent \notin Writers
  BY AgentIn, HashProcs
<1>t. pc \in [Procs -> Labels] /\ CallOK /\ LabelInv
  BY TypeParts DEF TypeInv, CallOK
<1>1. ASSUME NEW p \in Procs, Stamp(p) PROVE HashMutex'
  <2>1. UNCHANGED flag /\ taint \subseteq taint'
    BY <1>1 DEF Stamp
  <2>2. PICK l : Goto(p, l) /\ (l \in Unstamped \cup Stamped => Holds(p))
    BY <1>t, <1>1 DEF Stamp, Unstamped, Stamped, Holds
  <2> QED BY <1>a, <2>1, <2>2, HeldKept
<1>2. ASSUME NEW p \in Procs, Busy(p) PROVE HashMutex'
  <2>1. UNCHANGED flag /\ taint \subseteq taint'
    BY <1>2 DEF Busy
  <2>2. PICK l : Goto(p, l) /\ (l \in Unstamped \cup Stamped => Holds(p))
    BY <1>t, <1>2 DEF Busy, Unstamped, Stamped, Holds, Return
  <2> QED BY <1>a, <2>1, <2>2, HeldKept
<1>3. ASSUME NEW p \in Procs, ClearStamp(p) PROVE HashMutex'
  <2>1. UNCHANGED flag /\ taint \subseteq taint'
    BY <1>3 DEF ClearStamp
  <2>2. PICK l : Goto(p, l) /\ (l \in Unstamped \cup Stamped => Holds(p))
    BY <1>t, <1>3 DEF ClearStamp, Unstamped, Stamped, Holds, Return
  <2> QED BY <1>a, <2>1, <2>2, HeldKept
<1>4. ASSUME NEW p \in Procs, InsertPlan(p) PROVE HashMutex'
  <2>1. UNCHANGED flag /\ taint \subseteq taint'
    BY <1>4 DEF InsertPlan
  <2>2. PICK l : Goto(p, l) /\ (l \in Unstamped \cup Stamped => Holds(p))
    BY <1>t, <1>4 DEF InsertPlan, Unstamped, Stamped, Holds
  <2> QED BY <1>a, <2>1, <2>2, HeldKept
<1>5. ASSUME NEW p \in Procs, Crash(p) PROVE HashMutex'
  <2>1. UNCHANGED flag /\ taint \subseteq taint'
    BY <1>5 DEF Crash
  <2>2. PICK l : Goto(p, l) /\ (l \in Unstamped \cup Stamped => Holds(p))
    BY <1>t, <1>5 DEF Crash, Unstamped, Stamped, Holds
  <2> QED BY <1>a, <2>1, <2>2, HeldKept
<1>6. ASSUME AdvanceCursor PROVE HashMutex'
  <2>1. UNCHANGED flag /\ taint \subseteq taint'
    BY <1>6 DEF AdvanceCursor
  <2>2. PICK l : Goto(Agent, l) /\ (l \in Unstamped \cup Stamped => Holds(Agent))
    BY <1>t, <1>6 DEF AdvanceCursor, Unstamped, Stamped, Holds
  <2> QED BY <1>a, <2>1, <2>2, HeldKept
<1>7. ASSUME RemovePlan PROVE HashMutex'
  <2>1. UNCHANGED flag /\ taint \subseteq taint'
    BY <1>7 DEF RemovePlan
  <2>2. PICK l : Goto(Agent, l) /\ (l \in Unstamped \cup Stamped => Holds(Agent))
    BY <1>t, <1>7 DEF RemovePlan, Unstamped, Stamped, Holds
  <2> QED BY <1>a, <2>1, <2>2, HeldKept
<1>8. ASSUME ResetStamp PROVE HashMutex'
  <2>1. UNCHANGED flag /\ taint \subseteq taint'
    BY <1>8 DEF ResetStamp
  <2>2. PICK l : Goto(Agent, l) /\ (l \in Unstamped \cup Stamped => Holds(Agent))
    BY <1>t, <1>8 DEF ResetStamp, Unstamped, Stamped, Holds
  <2> QED BY <1>a, <2>1, <2>2, HeldKept
<1>9. ASSUME ResetMem PROVE HashMutex'
  <2>1. UNCHANGED flag /\ taint \subseteq taint'
    BY <1>9 DEF ResetMem
  <2>2. PICK l : Goto(Agent, l) /\ (l \in Unstamped \cup Stamped => Holds(Agent))
    BY <1>t, <1>9 DEF ResetMem, Unstamped, Stamped, Holds
  <2> QED BY <1>a, <2>1, <2>2, HeldKept
<1>10. ASSUME DrainStart PROVE HashMutex'
  <2>1. UNCHANGED flag /\ taint \subseteq taint'
    BY <1>10 DEF DrainStart
  <2>2. PICK l : Goto(Agent, l) /\ (l \in Unstamped \cup Stamped => Holds(Agent))
    BY <1>t, <1>10 DEF DrainStart, Unstamped, Stamped, Holds
  <2> QED BY <1>a, <2>1, <2>2, HeldKept
<1>11. ASSUME DrainNull PROVE HashMutex'
  <2>1. UNCHANGED flag /\ taint \subseteq taint'
    BY <1>11 DEF DrainNull
  <2>2. PICK l : Goto(Agent, l) /\ (l \in Unstamped \cup Stamped => Holds(Agent))
    BY <1>t, <1>11 DEF DrainNull, Unstamped, Stamped, Holds
  <2> QED BY <1>a, <2>1, <2>2, HeldKept
<1>12. ASSUME DrainNode PROVE HashMutex'
  <2>1. UNCHANGED flag /\ taint \subseteq taint'
    BY <1>12 DEF DrainNode
  <2>2. PICK l : Goto(Agent, l) /\ (l \in Unstamped \cup Stamped => Holds(Agent))
    BY <1>t, <1>12 DEF DrainNode, Unstamped, Stamped, Holds
  <2> QED BY <1>a, <2>1, <2>2, HeldKept
<1>13. ASSUME DrainClear PROVE HashMutex'
  <2>1. UNCHANGED flag /\ taint \subseteq taint'
    BY <1>13 DEF DrainClear
  <2>2. PICK l : Goto(Agent, l) /\ (l \in Unstamped \cup Stamped => Holds(Agent))
    BY <1>t, <1>13 DEF DrainClear, Unstamped, Stamped, Holds
  <2> QED BY <1>a, <2>1, <2>2, HeldKept
<1>14. ASSUME DrainFirst PROVE HashMutex'
  <2>1. UNCHANGED flag /\ taint \subseteq taint'
    BY <1>14 DEF DrainFirst
  <2>2. PICK l : Goto(Agent, l) /\ (l \in Unstamped \cup Stamped => Holds(Agent))
    BY <1>t, <1>14 DEF DrainFirst, Unstamped, Stamped, Holds, Look
  <2> QED BY <1>a, <2>1, <2>2, HeldKept
<1>15. ASSUME DrainFirstRevers PROVE HashMutex'
  <2>1. UNCHANGED flag /\ taint \subseteq taint'
    BY <1>15 DEF DrainFirstRevers
  <2>2. PICK l : Goto(Agent, l) /\ (l \in Unstamped \cup Stamped => Holds(Agent))
    BY <1>t, <1>15 DEF DrainFirstRevers, Unstamped, Stamped, Holds, Look
  <2> QED BY <1>a, <2>1, <2>2, HeldKept
<1>16. ASSUME DrainCur PROVE HashMutex'
  <2>1. UNCHANGED flag /\ taint \subseteq taint'
    BY <1>16 DEF DrainCur
  <2>2. PICK l : Goto(Agent, l) /\ (l \in Unstamped \cup Stamped => Holds(Agent))
    BY <1>t, <1>16 DEF DrainCur, Unstamped, Stamped, Holds, Look
  <2> QED BY <1>a, <2>1, <2>2, HeldKept
<1>17. ASSUME DrainEnd PROVE HashMutex'
  <2>1. UNCHANGED flag /\ taint \subseteq taint'
    BY <1>17 DEF DrainEnd
  <2>2. PICK l : Goto(Agent, l) /\ (l \in Unstamped \cup Stamped => Holds(Agent))
    BY <1>t, <1>17 DEF DrainEnd, Unstamped, Stamped, Holds, DrainReturn
  <2> QED BY <1>a, <2>1, <2>2, HeldKept
<1>18. ASSUME DrainAccess PROVE HashMutex'
  <2>1. UNCHANGED flag /\ taint \subseteq taint'
    BY <1>18 DEF DrainAccess
  <2>2. PICK l : Goto(Agent, l) /\ (l \in Unstamped \cup Stamped => Holds(Agent))
    BY <1>t, <1>18 DEF DrainAccess, Unstamped, Stamped, Holds, DrainReturn
  <2> QED BY <1>a, <2>1, <2>2, HeldKept
<1>20. ASSUME NEW p \in Procs, Cas(p) PROVE HashMutex'
  <2>1. UNCHANGED taint /\ pc[p] = "cas"
    BY <1>20 DEF Cas
  <2>2. CASE flag = 0 /\ flag' = 1 /\ Goto(p, "stamp")
    BY <2>1, <2>2, FlagTaken DEF Labels, Unstamped
  <2>3. CASE flag = 1 /\ Goto(p, "busy") /\ UNCHANGED flag
    BY <2>1, <2>3, HeldKept DEF Unstamped, Stamped
  <2> QED BY <1>20, <2>2, <2>3 DEF Cas
<1>21. ASSUME NEW p \in Procs, Run(p) PROVE HashMutex'
  <2>1. UNCHANGED <<flag, taint>>
    BY <1>21 DEF Run
  <2>2. \A q \in Procs : Holds(q)' => Holds(q)
    BY <1>t, <1>21 DEF Run, Goto, Holds, Unstamped, Stamped
  <2> QED BY <2>1, <2>2, FlagKept
<1>22. ASSUME NEW p \in Procs, Steal(p) PROVE HashMutex'
  <2>1. taint' = Tainted /\ pc[p] = "steal"
    BY <1>22 DEF Steal
  <2>2. \A q \in Procs : Holds(q)' => Holds(q)
    BY <1>t, <1>22 DEF Steal, Return, Goto, Holds, Unstamped, Stamped
  <2> QED BY <2>1, <2>2, Cleared, FlagFree
<1>23. ASSUME NEW p \in Procs, Release(p) PROVE HashMutex'
  <2>1. UNCHANGED taint /\ Holds(p) /\ Goto(p, "clr")
    BY <1>23 DEF Release, Holds, Stamped
  <2>2. ~Holds(p)' /\ \A q \in Procs : q # p => (Holds(q)' <=> Holds(q))
    BY <1>t, <2>1 DEF Goto, Holds, Unstamped, Stamped
  <2> QED BY <2>1, <2>2, FlagFree DEF HashMutex, Kept
<1>24. ASSUME CheckFailed PROVE HashMutex'
  <2>1. pc[Agent] = "fail" /\ Goto(Agent, "r_cas")
    BY <1>24 DEF CheckFailed
  <2>2. \A q \in Procs : Holds(q)' => Holds(q) /\ q # Agent
    BY <1>t, <2>1 DEF Goto, Holds, Unstamped, Stamped
  <2>3. (\E q \in Writers : Holds(q)) => "checked" \in taint'
    BY <1>24 DEF CheckFailed
  <2> QED BY <2>2, <2>3, FlagFree DEF Procs, Kept
<1>25. ASSUME ResetCas PROVE HashMutex'
  <2>1. pc[Agent] = "r_cas"
    BY <1>25 DEF ResetCas
  <2>2. CASE flag = 0 /\ flag' = 1 /\ Goto(Agent, "r_stamp") /\ UNCHANGED taint
    BY <1>a, <2>2, FlagTaken DEF Labels, Unstamped
  <2>3. CASE taint' = Tainted /\ UNCHANGED pc
    <3>1. \A q \in Procs : Holds(q)' <=> Holds(q)
      BY <2>3 DEF Holds
    <3> QED BY <2>3, <3>1, Cleared, FlagFree
  <2> QED BY <1>25, <2>2, <2>3 DEF ResetCas
<1>26. ASSUME ResetGiveUp PROVE HashMutex'
  <2>1. taint' = Tainted /\ Goto(Agent, "idle")
    BY <1>26 DEF ResetGiveUp
  <2>2. \A q \in Procs : Holds(q)' => Holds(q)
    BY <1>t, <2>1 DEF Goto, Holds, Unstamped, Stamped
  <2> QED BY <2>1, <2>2, Cleared, FlagFree
<1>27. ASSUME ResetRelease PROVE HashMutex'
  <2>1. /\ Goto(Agent, ret[Agent]) /\ Holds(Agent)
        /\ taint' = taint \cup (IF ret[Agent] = "plan" THEN {"resumed"} ELSE {})
    BY <1>27 DEF ResetRelease, Holds, Stamped
  <2>2. CASE ret[Agent] = "plan"
    BY <2>1, <2>2, FlagFree DEF Kept
  <2>3. CASE ret[Agent] # "plan"
    <3>1. ~Holds(Agent)'
      BY <1>a, <1>t, <2>1, <2>3 DEF Goto, Holds, LabelInv, Rets, Unstamped, Stamped
    <3>2. \A q \in Procs : q # Agent => (Holds(q)' <=> Holds(q))
      BY <1>t, <2>1 DEF Goto, Holds
    <3>3. UNCHANGED taint
      BY <2>1, <2>3
    <3> QED BY <1>a, <2>1, <3>1, <3>2, <3>3, FlagFree DEF HashMutex, Kept
  <2> QED BY <2>2, <2>3
<1>28. ASSUME Tick PROVE HashMutex'
  BY <1>28 DEF Tick, locals, HashMutex, Holds
<1>29. ASSUME NEW p \in Writers, NEW n \in Node, InsertStart(p, n) PROVE HashMutex'
  <2>1. UNCHANGED flag /\ taint \subseteq taint' /\ Goto(p, "cas") /\ p \in Procs
    BY <1>29 DEF InsertStart, Procs
  <2> QED BY <2>1, HeldKept DEF Unstamped, Stamped
<1>30. CASE UNCHANGED vars
  BY <1>30 DEF vars, locals, HashMutex, Holds
<1> QED
  BY <1>1, <1>2, <1>3, <1>4, <1>5, <1>6, <1>7, <1>8, <1>9, <1>10, <1>11, <1>12, <1>13, <1>14,
     <1>15, <1>16, <1>17, <1>18, <1>20, <1>21, <1>22, <1>23, <1>24, <1>25, <1>26, <1>27,
     <1>28, <1>29, <1>30 DEF Next, Call, Drain, Reset

(* bHashUseFlag keeps the calls of any number of processes apart, through deaths of      *)
(* holders, as long as nobody clears it under a live one.                                *)
THEOREM HashMutexCorrect == Spec => []HashMutex
<1>1. Init => HashMutex
  BY DEF Init, HashMutex, Holds, Unstamped, Stamped
<1> QED BY <1>1, MutexNext, TypeInvCorrect, PTL DEF Spec

-----------------------------------------------------------------------------
(***************************************************************************)
(* Lists.                                                                  *)
(***************************************************************************)
Whole(t) == \E s \in Orders : IsList(t, s)
Linked(t, c) == c \in Node /\ t.used[c]

LEMMA OrderIs ==
  ASSUME NEW s \in Orders
  PROVE  /\ s \in Seq(Node) /\ Len(s) \in Nat
         /\ \A i, j \in 1 .. Len(s) : s[i] = s[j] => i = j
<1>1. PICK k \in 0 .. RealNodeCount : s \in [1 .. k -> Node] /\ \A i, j \in 1 .. k : s[i] = s[j] => i = j
  BY DEF Orders
<1>2. k \in Nat
  BY <1>1, HashSizes
<1>3. s \in Seq(Node) /\ Len(s) = k
  BY <1>1, <1>2
<1> QED BY <1>1, <1>2, <1>3

LEMMA OrderOf ==
  ASSUME NEW s \in Seq(Node), \A i, j \in 1 .. Len(s) : s[i] = s[j] => i = j
  PROVE  s \in Orders
<1>1. IsFiniteSet(Node) /\ Cardinality(Node) = RealNodeCount
  BY HashSizes, FS_Interval DEF Node
<1>2. IsFiniteSet(1 .. Len(s)) /\ Cardinality(1 .. Len(s)) = Len(s) /\ Len(s) \in Nat
  <2>1. Len(s) \in Nat
    OBVIOUS
  <2>2. IsFiniteSet(1 .. Len(s)) /\ Cardinality(1 .. Len(s)) = IF 1 > Len(s) THEN 0 ELSE Len(s) - 1 + 1
    BY <2>1, FS_Interval
  <2> QED BY <2>1, <2>2
<1>3. s \in Injection(1 .. Len(s), Node)
  BY DEF Injection, IsInjective
<1>4. Len(s) <= RealNodeCount
  BY <1>1, <1>2, <1>3, FS_Injection
<1>5. Len(s) \in 0 .. RealNodeCount /\ s \in [1 .. Len(s) -> Node]
  BY <1>2, <1>4, HashSizes
<1> QED BY <1>5 DEF Orders

(* What a list says, and what makes one. *)
LEMMA ListIs ==
  ASSUME NEW t \in Table, NEW s \in Orders, IsList(t, s)
  PROVE  /\ s \in Seq(Node) /\ Len(s) \in Nat /\ t.count = Len(s)
         /\ \A i, j \in 1 .. Len(s) : s[i] = s[j] => i = j
         /\ t.start = IF Len(s) = 0 THEN None ELSE s[1]
         /\ t.end = IF Len(s) = 0 THEN None ELSE s[Len(s)]
         /\ \A i \in 1 .. Len(s) :
              /\ s[i] \in Node /\ t.used[s[i]]
              /\ t.nxt[s[i]] = IF i = Len(s) THEN None ELSE s[i + 1]
              /\ t.pre[s[i]] = IF i = 1 THEN None ELSE s[i - 1]
         /\ \A n \in Node : t.used[n] => \E i \in 1 .. Len(s) : s[i] = n
<1>1. /\ s \in Seq(Node) /\ Len(s) \in Nat
      /\ \A i, j \in 1 .. Len(s) : s[i] = s[j] => i = j
  BY OrderIs
<1>2. \A i \in 1 .. Len(s) : s[i] \in Node
  BY <1>1
<1>3. {n \in Node : t.used[n]} = {s[i] : i \in 1 .. Len(s)}
  BY DEF IsList
<1>4. \A i \in 1 .. Len(s) : t.used[s[i]]
  BY <1>3
<1>5. \A n \in Node : t.used[n] => \E i \in 1 .. Len(s) : s[i] = n
  BY <1>3
<1> QED BY <1>1, <1>2, <1>4, <1>5 DEF IsList

LEMMA ListOf ==
  ASSUME NEW t \in Table, NEW s \in Seq(Node),
         \A i, j \in 1 .. Len(s) : s[i] = s[j] => i = j,
         t.count = Len(s),
         t.start = IF Len(s) = 0 THEN None ELSE s[1],
         t.end = IF Len(s) = 0 THEN None ELSE s[Len(s)],
         \A i \in 1 .. Len(s) : t.nxt[s[i]] = IF i = Len(s) THEN None ELSE s[i + 1],
         \A i \in 1 .. Len(s) : t.pre[s[i]] = IF i = 1 THEN None ELSE s[i - 1],
         \A i \in 1 .. Len(s) : t.used[s[i]],
         \A n \in Node : t.used[n] => \E i \in 1 .. Len(s) : s[i] = n
  PROVE  Whole(t)
<1>1. s \in Orders
  BY OrderOf
<1>2. \A i \in 1 .. Len(s) : s[i] \in Node
  OBVIOUS
<1>3. {n \in Node : t.used[n]} = {s[i] : i \in 1 .. Len(s)}
  BY <1>2
<1>4. IsList(t, s)
  BY <1>3 DEF IsList
<1> QED BY <1>1, <1>4 DEF Whole

(* The neighbours of a node of the list. *)
LEMMA Links ==
  ASSUME NEW t \in Table, Whole(t), NEW n \in Node, t.used[n]
  PROVE  /\ t.count \in Nat /\ t.count >= 1
         /\ t.nxt[n] = None \/ (Linked(t, t.nxt[n]) /\ t.nxt[n] # n)
         /\ t.pre[n] = None \/ (Linked(t, t.pre[n]) /\ t.pre[n] # n)
         /\ t.count = 1 => t.nxt[n] = None /\ t.pre[n] = None
         /\ t.count # 1 => t.nxt[n] # None \/ t.pre[n] # None
<1>1. PICK s \in Orders : IsList(t, s)
  BY DEF Whole
<1>2. PICK m \in 1 .. Len(s) : s[m] = n
  BY <1>1, ListIs
<1>3. Len(s) \in Nat /\ t.count = Len(s) /\ m \in Nat
  BY <1>1, ListIs
<1>4. CASE m = Len(s)
  BY <1>1, <1>2, <1>3, <1>4, ListIs, CellIn DEF Linked
<1>5. CASE m # Len(s)
  <2>1. m + 1 \in 1 .. Len(s) /\ m + 1 # m
    BY <1>3, <1>5
  <2>2. t.nxt[n] = s[m + 1]
    <3>1. t.nxt[s[m]] = s[m + 1]
      BY <1>1, <1>5, ListIs
    <3> QED BY <1>2, <3>1
  <2>3. s[m + 1] \in Node /\ t.used[s[m + 1]] /\ s[m + 1] # s[m]
    BY <1>1, <2>1, ListIs
  <2>4. CASE m = 1
    BY <1>1, <1>2, <1>3, <1>5, <2>2, <2>3, <2>4, ListIs, CellIn DEF Linked
  <2>5. CASE m # 1
    <3>1. m - 1 \in 1 .. Len(s) /\ m - 1 # m
      BY <1>3, <2>5
    <3>2. t.pre[n] = s[m - 1] /\ s[m - 1] \in Node /\ t.used[s[m - 1]] /\ s[m - 1] # s[m]
      BY <1>1, <1>2, <2>5, <3>1, ListIs
    <3> QED BY <1>2, <1>3, <1>5, <2>2, <2>3, <3>2, CellIn DEF Linked
  <2> QED BY <2>4, <2>5
<1> QED BY <1>4, <1>5

LEMMA Ends ==
  ASSUME NEW t \in Table, Whole(t)
  PROVE  /\ t.start = None \/ Linked(t, t.start)
         /\ t.end = None \/ Linked(t, t.end)
         /\ t.count \in Nat
         /\ t.count = 0 => \A n \in Node : ~t.used[n]
         /\ t.count # 0 => Linked(t, t.end)
<1>1. PICK s \in Orders : IsList(t, s)
  BY DEF Whole
<1>2. CASE Len(s) = 0
  BY <1>1, <1>2, ListIs
<1>3. CASE Len(s) # 0
  <2>1. 1 \in 1 .. Len(s) /\ Len(s) \in 1 .. Len(s)
    BY <1>1, <1>3, ListIs
  <2> QED BY <1>1, <1>3, <2>1, ListIs DEF Linked
<1> QED BY <1>2, <1>3

(* A node is appended. *)
LEMMA Appended ==
  ASSUME NEW t \in Table, NEW u \in Table, Whole(t), NEW n \in Node, ~t.used[n],
         u.count = t.count + 1, u.end = n,
         u.start = IF t.count = 0 THEN n ELSE t.start,
         \A c \in Node : u.used[c] <=> t.used[c] \/ c = n,
         u.nxt[n] = None, u.pre[n] = IF t.count = 0 THEN None ELSE t.end,
         \A c \in Node : c # n => u.pre[c] = t.pre[c],
         \A c \in Node : c # n => u.nxt[c] = IF t.count # 0 /\ c = t.end THEN n ELSE t.nxt[c]
  PROVE  Whole(u)
<1>1. PICK s \in Orders : IsList(t, s)
  BY DEF Whole
<1> DEFINE k == Len(s)
           z == Append(s, n)
<1>2. s \in Seq(Node) /\ k \in Nat /\ t.count = k
  BY <1>1, ListIs
<1>3. \A i \in 1 .. k : s[i] \in Node /\ t.used[s[i]] /\ s[i] # n
  BY <1>1, ListIs
<1>4. z \in Seq(Node) /\ Len(z) = k + 1 /\ z[k + 1] = n /\ \A i \in 1 .. k : z[i] = s[i]
  BY <1>2
<1> HIDE DEF z
<1>5. \A i \in 1 .. k + 1 : i \in 1 .. k \/ i = k + 1
  BY <1>2
<1>6. \A i, j \in 1 .. k + 1 : z[i] = z[j] => i = j
  <2>1. \A i, j \in 1 .. k : s[i] = s[j] => i = j
    BY <1>1, ListIs
  <2> QED BY <1>3, <1>4, <1>5, <2>1
<1>7. u.count = k + 1 /\ u.start = z[1] /\ u.end = z[k + 1]
  <2>1. CASE k = 0
    BY <1>2, <1>4, <2>1
  <2>2. CASE k # 0
    <3>1. 1 \in 1 .. k
      BY <1>2, <2>2
    <3>2. t.start = s[1]
      BY <1>1, <2>2, ListIs
    <3> QED BY <1>2, <1>4, <2>2, <3>1, <3>2
  <2> QED BY <2>1, <2>2
<1>8. \A i \in 1 .. k + 1 : u.nxt[z[i]] = IF i = k + 1 THEN None ELSE z[i + 1]
  <2> SUFFICES ASSUME NEW i \in 1 .. k PROVE u.nxt[s[i]] = z[i + 1]
    <3>1. \A i \in 1 .. k : i # k + 1
      BY <1>2
    <3> QED BY <1>4, <1>5, <3>1
  <2>1. t.end = s[k] /\ k # 0 /\ k \in 1 .. k
    BY <1>1, <1>2, ListIs
  <2>2. u.nxt[s[i]] = IF s[i] = s[k] THEN n ELSE t.nxt[s[i]]
    BY <1>2, <1>3, <2>1
  <2>3. CASE i = k
    BY <1>4, <2>2, <2>3
  <2>4. CASE i # k
    <3>1. s[i] # s[k]
      BY <1>1, <2>1, <2>4, ListIs
    <3>2. t.nxt[s[i]] = s[i + 1] /\ i + 1 \in 1 .. k
      <4>1. t.nxt[s[i]] = s[i + 1]
        BY <1>1, <2>4, ListIs
      <4> QED BY <1>2, <2>4, <4>1
    <3> QED BY <1>4, <2>2, <3>1, <3>2
  <2> QED BY <2>3, <2>4
<1>9. \A i \in 1 .. k + 1 : u.pre[z[i]] = IF i = 1 THEN None ELSE z[i - 1]
  <2> SUFFICES ASSUME NEW i \in 1 .. k + 1 PROVE u.pre[z[i]] = IF i = 1 THEN None ELSE z[i - 1]
    OBVIOUS
  <2>1. CASE i = k + 1
    <3>1. u.pre[z[i]] = IF k = 0 THEN None ELSE t.end
      BY <1>2, <1>4, <2>1
    <3>2. k # 0 => t.end = s[k] /\ k \in 1 .. k
      BY <1>1, <1>2, ListIs
    <3> QED BY <1>2, <1>4, <2>1, <3>1, <3>2
  <2>2. CASE i \in 1 .. k
    <3>1. u.pre[z[i]] = t.pre[s[i]]
      BY <1>3, <1>4, <2>2
    <3>2. t.pre[s[i]] = IF i = 1 THEN None ELSE s[i - 1]
      BY <1>1, <2>2, ListIs
    <3>3. i # 1 => i - 1 \in 1 .. k
      BY <1>2, <2>2
    <3> QED BY <1>4, <3>1, <3>2, <3>3
  <2> QED BY <1>5, <2>1, <2>2
<1>10. \A i \in 1 .. k + 1 : u.used[z[i]]
  BY <1>3, <1>4, <1>5
<1>11. \A c \in Node : u.used[c] => \E i \in 1 .. k + 1 : z[i] = c
  <2> SUFFICES ASSUME NEW c \in Node, u.used[c] PROVE \E i \in 1 .. k + 1 : z[i] = c
    OBVIOUS
  <2>1. CASE c = n
    <3>1. k + 1 \in 1 .. k + 1
      BY <1>2
    <3> QED BY <1>4, <2>1, <3>1
  <2>2. CASE c # n
    <3>1. PICK i \in 1 .. k : s[i] = c
      BY <1>1, <2>2, ListIs
    <3>2. i \in 1 .. k + 1
      BY <1>2
    <3> QED BY <1>4, <3>1, <3>2
  <2> QED BY <2>1, <2>2
<1>12. k + 1 # 0
  BY <1>2
<1> HIDE DEF k
<1> QED BY <1>4, <1>6, <1>7, <1>8, <1>9, <1>10, <1>11, <1>12, ListOf

(* A node is taken out. *)
LEMMA Removed ==
  ASSUME NEW t \in Table, NEW u \in Table, Whole(t), NEW n \in Node, t.used[n],
         u.count = t.count - 1,
         u.start = IF t.pre[n] = None THEN t.nxt[n] ELSE t.start,
         u.end = IF t.nxt[n] = None THEN t.pre[n] ELSE t.end,
         \A c \in Node : u.used[c] <=> t.used[c] /\ c # n,
         \A c \in Node : c # n => u.nxt[c] = IF c = t.pre[n] THEN t.nxt[n] ELSE t.nxt[c],
         \A c \in Node : c # n => u.pre[c] = IF c = t.nxt[n] THEN t.pre[n] ELSE t.pre[c]
  PROVE  Whole(u)
<1>1. PICK s \in Orders : IsList(t, s)
  BY DEF Whole
<1>k. PICK k \in Nat : Len(s) = k + 1
  <2>1. Len(s) \in Nat /\ Len(s) # 0
    BY <1>1, ListIs
  <2>2. Len(s) - 1 \in Nat /\ Len(s) = (Len(s) - 1) + 1
    BY <2>1
  <2> QED BY <2>2
<1>2. PICK m \in 1 .. k + 1 : s[m] = n
  BY <1>1, <1>k, ListIs
<1>f. /\ t.count = k + 1
      /\ \A i \in 1 .. k + 1 : t.nxt[s[i]] = IF i = k + 1 THEN None ELSE s[i + 1]
      /\ \A i \in 1 .. k + 1 : t.pre[s[i]] = IF i = 1 THEN None ELSE s[i - 1]
      /\ \A c \in Node : t.used[c] => \E i \in 1 .. k + 1 : s[i] = c
  <2>1. t.count = k + 1 /\ \A c \in Node : t.used[c] => \E i \in 1 .. k + 1 : s[i] = c
    BY <1>1, <1>k, ListIs
  <2>2. \A i \in 1 .. k + 1 : t.nxt[s[i]] = IF i = k + 1 THEN None ELSE s[i + 1]
    <3>1. \A i \in 1 .. Len(s) : t.nxt[s[i]] = IF i = Len(s) THEN None ELSE s[i + 1]
      BY <1>1, ListIs
    <3> QED BY <1>k, <3>1
  <2>3. \A i \in 1 .. k + 1 : t.pre[s[i]] = IF i = 1 THEN None ELSE s[i - 1]
    <3>1. \A i \in 1 .. Len(s) : t.pre[s[i]] = IF i = 1 THEN None ELSE s[i - 1]
      BY <1>1, ListIs
    <3> QED BY <1>k, <3>1
  <2> QED BY <2>1, <2>2, <2>3
<1>e. t.start = s[1] /\ t.end = s[k + 1]
  BY <1>1, <1>k, ListIs
<1>i. \A i, j \in 1 .. k + 1 : s[i] = s[j] => i = j
  BY <1>1, <1>k, ListIs
<1>s. \A i \in 1 .. k + 1 : s[i] \in Node /\ t.used[s[i]]
  BY <1>1, <1>k, ListIs
<1> DEFINE At(i) == IF i < m THEN i ELSE i + 1
           z == [i \in 1 .. k |-> s[At(i)]]
<1>3. m \in Nat /\ 1 <= m /\ m <= k + 1 /\ \A i \in Int : At(i) = IF i < m THEN i ELSE i + 1
  OBVIOUS
<1>z. z = [i \in 1 .. k |-> s[At(i)]]
  OBVIOUS
<1> HIDE DEF At, z
<1>4. \A i \in 1 .. k : At(i) \in 1 .. k + 1 /\ At(i) # m
  BY <1>3
<1>5. \A i, j \in 1 .. k : At(i) = At(j) => i = j
  BY <1>3
<1>6. z \in Seq(Node) /\ Len(z) = k /\ \A i \in 1 .. k : z[i] = s[At(i)] /\ z[i] \in Node /\ z[i] # n
  <2>1. \A i \in 1 .. k : s[At(i)] \in Node /\ s[At(i)] # n
    BY <1>2, <1>4, <1>i, <1>s
  <2>2. z \in [1 .. k -> Node]
    BY <1>z, <2>1
  <2> QED BY <1>z, <2>1, <2>2
<1>7. \A i, j \in 1 .. k : z[i] = z[j] => i = j
  BY <1>4, <1>5, <1>6, <1>i
<1>8. t.nxt[n] = IF m = k + 1 THEN None ELSE s[m + 1]
  BY <1>2, <1>f
<1>9. t.pre[n] = IF m = 1 THEN None ELSE s[m - 1]
  BY <1>2, <1>f
<1>n. None \notin Node
  BY CellIn
<1>10. m # 1 => m - 1 \in 1 .. k + 1
  BY <1>3
<1>11. m # k + 1 => m + 1 \in 1 .. k + 1
  BY <1>3
<1>12. u.start = IF k = 0 THEN None ELSE z[1]
  <2>1. CASE k = 0
    <3>1. m = 1 /\ m = k + 1
      BY <1>3, <2>1
    <3> QED BY <1>8, <1>9, <2>1, <3>1
  <2>2. CASE k # 0
    <3>1. 1 \in 1 .. k /\ At(1) = (IF m = 1 THEN 2 ELSE 1)
      BY <1>3, <2>2
    <3>2. z[1] = IF m = 1 THEN s[2] ELSE s[1]
      BY <1>6, <3>1
    <3>3. CASE m = 1
      <4>1. m # k + 1 /\ m + 1 = 2
        BY <1>3, <2>2, <3>3
      <4> QED BY <1>8, <1>9, <2>2, <3>2, <3>3, <4>1
    <3>4. CASE m # 1
      <4>1. t.pre[n] # None
        BY <1>9, <1>10, <1>n, <1>s, <3>4
      <4>2. t.start = s[1]
        BY <1>e
      <4> QED BY <2>2, <3>2, <3>4, <4>1, <4>2
    <3> QED BY <3>3, <3>4
  <2> QED BY <2>1, <2>2
<1>13. u.end = IF k = 0 THEN None ELSE z[k]
  <2>1. CASE k = 0
    <3>1. m = 1 /\ m = k + 1
      BY <1>3, <2>1
    <3> QED BY <1>8, <1>9, <2>1, <3>1
  <2>2. CASE k # 0
    <3>1. k \in 1 .. k /\ At(k) = (IF m = k + 1 THEN k ELSE k + 1)
      BY <1>3, <2>2
    <3>2. z[k] = IF m = k + 1 THEN s[k] ELSE s[k + 1]
      BY <1>6, <3>1
    <3>3. CASE m = k + 1
      <4>1. m # 1 /\ m - 1 = k
        BY <1>3, <2>2, <3>3
      <4> QED BY <1>8, <1>9, <2>2, <3>2, <3>3, <4>1
    <3>4. CASE m # k + 1
      <4>1. t.nxt[n] # None
        BY <1>8, <1>11, <1>n, <1>s, <3>4
      <4>2. t.end = s[k + 1]
        BY <1>e
      <4> QED BY <2>2, <3>2, <3>4, <4>1, <4>2
    <3> QED BY <3>3, <3>4
  <2> QED BY <2>1, <2>2
<1>14. \A i \in 1 .. k : u.nxt[z[i]] = IF i = k THEN None ELSE z[i + 1]
  <2> SUFFICES ASSUME NEW i \in 1 .. k PROVE u.nxt[z[i]] = IF i = k THEN None ELSE z[i + 1]
    OBVIOUS
  <2>1. z[i] = s[At(i)] /\ At(i) \in 1 .. k + 1 /\ z[i] \in Node /\ z[i] # n
    BY <1>4, <1>6
  <2>2. u.nxt[z[i]] = IF s[At(i)] = t.pre[n] THEN t.nxt[n] ELSE t.nxt[s[At(i)]]
    BY <2>1
  <2>3. t.nxt[s[At(i)]] = IF At(i) = k + 1 THEN None ELSE s[At(i) + 1]
    BY <1>f, <2>1
  <2>4. i # k => z[i + 1] = s[At(i + 1)]
    <3>1. i # k => i + 1 \in 1 .. k
      BY <1>3
    <3> QED BY <1>6, <3>1
  <2>5. CASE i = m - 1
    <3>1. At(i) = m - 1 /\ m # 1 /\ (i = k <=> m = k + 1) /\ At(i + 1) = m + 1
      BY <1>3, <2>5
    <3>2. u.nxt[z[i]] = t.nxt[n]
      BY <1>9, <2>2, <3>1
    <3> QED BY <1>8, <2>4, <3>1, <3>2
  <2>6. CASE i # m - 1
    <3>1. At(i) # m - 1 /\ (At(i) = k + 1 <=> i = k) /\ At(i + 1) = At(i) + 1
      BY <1>3, <2>6
    <3>2. s[At(i)] # t.pre[n]
      BY <1>9, <1>10, <1>i, <1>n, <1>s, <2>1, <3>1
    <3> QED BY <2>2, <2>3, <2>4, <3>1, <3>2
  <2> QED BY <2>5, <2>6
<1>15. \A i \in 1 .. k : u.pre[z[i]] = IF i = 1 THEN None ELSE z[i - 1]
  <2> SUFFICES ASSUME NEW i \in 1 .. k PROVE u.pre[z[i]] = IF i = 1 THEN None ELSE z[i - 1]
    OBVIOUS
  <2>1. z[i] = s[At(i)] /\ At(i) \in 1 .. k + 1 /\ z[i] \in Node /\ z[i] # n
    BY <1>4, <1>6
  <2>2. u.pre[z[i]] = IF s[At(i)] = t.nxt[n] THEN t.pre[n] ELSE t.pre[s[At(i)]]
    BY <2>1
  <2>3. t.pre[s[At(i)]] = IF At(i) = 1 THEN None ELSE s[At(i) - 1]
    BY <1>f, <2>1
  <2>4. i # 1 => z[i - 1] = s[At(i - 1)]
    <3>1. i # 1 => i - 1 \in 1 .. k
      BY <1>3
    <3> QED BY <1>6, <3>1
  <2>5. CASE i = m
    <3>1. At(i) = m + 1 /\ m # k + 1 /\ (i = 1 <=> m = 1) /\ At(i - 1) = m - 1
      BY <1>3, <2>5
    <3>2. u.pre[z[i]] = t.pre[n]
      BY <1>8, <2>2, <3>1
    <3> QED BY <1>9, <2>4, <3>1, <3>2
  <2>6. CASE i # m
    <3>1. At(i) # m + 1 /\ (At(i) = 1 <=> i = 1) /\ At(i - 1) = At(i) - 1
      BY <1>3, <2>6
    <3>2. s[At(i)] # t.nxt[n]
      BY <1>8, <1>11, <1>i, <1>n, <1>s, <2>1, <3>1
    <3> QED BY <2>2, <2>3, <2>4, <3>1, <3>2
  <2> QED BY <2>5, <2>6
<1>16. \A i \in 1 .. k : u.used[z[i]]
  BY <1>4, <1>6, <1>s
<1>17. \A c \in Node : u.used[c] => \E i \in 1 .. k : z[i] = c
  <2> SUFFICES ASSUME NEW c \in Node, u.used[c] PROVE \E i \in 1 .. k : z[i] = c
    OBVIOUS
  <2>1. t.used[c] /\ c # n
    OBVIOUS
  <2>2. PICK j \in 1 .. k + 1 : s[j] = c
    BY <1>f, <2>1
  <2>3. j # m
    BY <1>2, <2>1, <2>2
  <2>4. CASE j < m
    <3>1. j \in 1 .. k /\ At(j) = j
      BY <1>3, <2>4
    <3> QED BY <1>6, <2>2, <3>1
  <2>5. CASE j > m
    <3>1. j - 1 \in 1 .. k /\ At(j - 1) = j
      BY <1>3, <2>5
    <3> QED BY <1>6, <2>2, <3>1
  <2> QED BY <1>3, <2>3, <2>4, <2>5
<1>18. u.count = k
  BY <1>f
<1>19. k = Len(z) /\ z \in Seq(Node)
  BY <1>6
<1>20. u.start = (IF Len(z) = 0 THEN None ELSE z[1]) /\ u.end = (IF Len(z) = 0 THEN None ELSE z[Len(z)])
  BY <1>12, <1>13, <1>19
<1>21. \A i \in 1 .. Len(z) : u.nxt[z[i]] = IF i = Len(z) THEN None ELSE z[i + 1]
  BY <1>14, <1>19
<1>22. \A i \in 1 .. Len(z) : u.pre[z[i]] = IF i = 1 THEN None ELSE z[i - 1]
  BY <1>15, <1>19
<1> QED BY <1>7, <1>16, <1>17, <1>18, <1>19, <1>20, <1>21, <1>22, ListOf

(* No node at all. *)
LEMMA Emptied ==
  ASSUME NEW u \in Table, u.count = 0, u.start = None, u.end = None, \A c \in Node : ~u.used[c]
  PROVE  Whole(u)
<1>1. <<>> \in Seq(Node) /\ Len(<<>>) = 0
  OBVIOUS
<1>2. \A i \in 1 .. 0 : FALSE
  OBVIOUS
<1> QED BY <1>1, <1>2, ListOf

-----------------------------------------------------------------------------
(***************************************************************************)
(* The table that the stores under way lead to.                            *)
(***************************************************************************)

(* The store s is done in t. *)
Meets(t, s) ==
  /\ s.f = "start" => t.start = s.v
  /\ s.f = "end" => t.end = s.v
  /\ s.f = "count" => t.count = s.v
  /\ s.f = "pre" => t.pre[s.i] = s.v
  /\ s.f = "nxt" => t.nxt[s.i] = s.v
  /\ s.f = "used" => t.used[s.i] = s.v

(* Somebody has still to store to field f of c. *)
Due(f, c) ==
  \E p \in Procs : \E j \in 1 .. Len(script[p]) : script[p][j].f = f /\ script[p][j].i = c

(* When all stores under way are done, the table is t. *)
Toward(t) ==
  /\ \A p \in Procs : \A j \in 1 .. Len(script[p]) : Meets(t, script[p][j])
  /\ tab.start = t.start \/ Due("start", None)
  /\ tab.end = t.end \/ Due("end", None)
  /\ tab.count = t.count \/ Due("count", None)
  /\ \A c \in Cell : tab.pre[c] = t.pre[c] \/ Due("pre", c)
  /\ \A c \in Cell : tab.nxt[c] = t.nxt[c] \/ Due("nxt", c)
  /\ \A c \in Cell : tab.used[c] = t.used[c] \/ Due("used", c)

LEMMA ApplyFields ==
  ASSUME tab \in Table, NEW s \in Store, NEW u, u = Apply(s)
  PROVE  /\ u.start = IF s.f = "start" THEN s.v ELSE tab.start
         /\ u.end = IF s.f = "end" THEN s.v ELSE tab.end
         /\ u.count = IF s.f = "count" THEN s.v ELSE tab.count
         /\ \A c \in Cell : u.pre[c] = IF s.f = "pre" /\ s.i = c THEN s.v ELSE tab.pre[c]
         /\ \A c \in Cell : u.nxt[c] = IF s.f = "nxt" /\ s.i = c THEN s.v ELSE tab.nxt[c]
         /\ \A c \in Cell : u.used[c] = IF s.f = "used" /\ s.i = c THEN s.v ELSE tab.used[c]
<1>1. CASE s.f = "start"
  BY <1>1, ApplyHead DEF Table
<1>2. CASE s.f = "end"
  BY <1>2, ApplyHead DEF Table
<1>3. CASE s.f = "count"
  BY <1>3, ApplyHead DEF Table
<1>4. CASE s.f = "pre"
  BY <1>4, ApplyHead DEF Table
<1>5. CASE s.f = "nxt"
  BY <1>5, ApplyHead DEF Table
<1>6. CASE s.f = "used"
  BY <1>6, ApplyHead DEF Table
<1> QED BY <1>1, <1>2, <1>3, <1>4, <1>5, <1>6 DEF Store

(* A store brings the table nearer. *)
LEMMA Nearer ==
  ASSUME TypeInv, NEW t \in Table, Toward(t), NEW p \in Procs, Run(p)
  PROVE  Toward(t)'
<1>1. script[p] \in Seq(Store) /\ Len(script[p]) # 0 /\ script \in [Procs -> Seq(Store)]
  BY DEF TypeInv, TypeOK, LabelInv, Run, Running
<1>2. PICK h \in Store : h = script[p][1]
  BY <1>1
<1>3. /\ Head(script[p]) = h /\ Tail(script[p]) \in Seq(Store)
      /\ Len(Tail(script[p])) = Len(script[p]) - 1 /\ Len(script[p]) \in Nat
      /\ \A j \in 1 .. Len(script[p]) - 1 : Tail(script[p])[j] = script[p][j + 1]
  BY <1>1, <1>2
<1>4. tab' = Apply(h) /\ script' = [script EXCEPT ![p] = Tail(script[p])]
  BY <1>3 DEF Run
<1>5. script'[p] = Tail(script[p]) /\ \A q \in Procs : q # p => script'[q] = script[q]
  BY <1>1, <1>4
<1>6. \A f, c : Due(f, c) => Due(f, c)' \/ (h.f = f /\ h.i = c)
  <2> SUFFICES ASSUME NEW f, NEW c, Due(f, c), ~(h.f = f /\ h.i = c) PROVE Due(f, c)'
    OBVIOUS
  <2>1. PICK q \in Procs : \E j \in 1 .. Len(script[q]) : script[q][j].f = f /\ script[q][j].i = c
    BY DEF Due
  <2>2. PICK j \in 1 .. Len(script[q]) : script[q][j].f = f /\ script[q][j].i = c
    BY <2>1
  <2>3. CASE q # p
    BY <1>5, <2>2, <2>3 DEF Due
  <2>4. CASE q = p
    <3>1. j # 1
      BY <1>2, <2>2, <2>4
    <3>2. j - 1 \in 1 .. Len(script[p]) - 1 /\ (j - 1) + 1 = j
      BY <1>3, <2>4, <3>1
    <3>3. Tail(script[p])[j - 1] = script[p][j]
      BY <1>3, <3>2
    <3>4. j - 1 \in 1 .. Len(script'[p]) /\ script'[p][j - 1].f = f /\ script'[p][j - 1].i = c
      BY <1>3, <1>5, <2>2, <2>4, <3>2, <3>3
    <3> QED BY <3>4 DEF Due
  <2> QED BY <2>3, <2>4
<1>7. Meets(t, h)
  <2>1. 1 \in 1 .. Len(script[p])
    BY <1>1, <1>3
  <2> QED BY <1>2, <2>1 DEF Toward
<1>8. \A q \in Procs : \A j \in 1 .. Len(script'[q]) : Meets(t, script'[q][j])
  <2> SUFFICES ASSUME NEW q \in Procs, NEW j \in 1 .. Len(script'[q]) PROVE Meets(t, script'[q][j])
    OBVIOUS
  <2>1. CASE q # p
    BY <1>5, <2>1 DEF Toward
  <2>2. CASE q = p
    <3>0. Len(script'[q]) = Len(script[p]) - 1
      BY <1>3, <1>5, <2>2
    <3>1. j \in 1 .. Len(script[p]) - 1 /\ j + 1 \in 1 .. Len(script[p])
      <4>1. PICK k \in Nat : k = Len(script[p])
        BY <1>3
      <4>2. j \in 1 .. k - 1
        BY <3>0, <4>1
      <4>3. j + 1 \in 1 .. k
        BY <4>2
      <4> QED BY <4>1, <4>2, <4>3
    <3>2. script'[q][j] = script[p][j + 1]
      BY <1>3, <1>5, <2>2, <3>1
    <3> QED BY <3>1, <3>2 DEF Toward
  <2> QED BY <2>1, <2>2
<1>t. tab \in Table
  BY DEF TypeInv, TypeOK
<1>9. tab'.start = t.start \/ Due("start", None)'
  BY <1>t, <1>4, <1>6, <1>7, ApplyFields DEF Toward, Meets
<1>10. tab'.end = t.end \/ Due("end", None)'
  BY <1>t, <1>4, <1>6, <1>7, ApplyFields DEF Toward, Meets
<1>11. tab'.count = t.count \/ Due("count", None)'
  BY <1>t, <1>4, <1>6, <1>7, ApplyFields DEF Toward, Meets
<1>12. \A c \in Cell : tab'.pre[c] = t.pre[c] \/ Due("pre", c)'
  BY <1>t, <1>4, <1>6, <1>7, ApplyFields DEF Toward, Meets
<1>13. \A c \in Cell : tab'.nxt[c] = t.nxt[c] \/ Due("nxt", c)'
  BY <1>t, <1>4, <1>6, <1>7, ApplyFields DEF Toward, Meets
<1>14. \A c \in Cell : tab'.used[c] = t.used[c] \/ Due("used", c)'
  BY <1>t, <1>4, <1>6, <1>7, ApplyFields DEF Toward, Meets
<1> QED BY <1>8, <1>9, <1>10, <1>11, <1>12, <1>13, <1>14 DEF Toward

(* The last store is done. *)
LEMMA Arrived ==
  ASSUME tab \in Table, NEW t \in Table, Toward(t), \A p \in Procs : Len(script[p]) = 0
  PROVE  tab = t
<1>1. \A f, c : ~Due(f, c)
  BY DEF Due
<1>2. tab.start = t.start /\ tab.end = t.end /\ tab.count = t.count
  BY <1>1 DEF Toward
<1>3. tab.pre = t.pre
  BY <1>1 DEF Toward, Table
<1>4. tab.nxt = t.nxt
  BY <1>1 DEF Toward, Table
<1>5. tab.used = t.used
  BY <1>1 DEF Toward, Table
<1> QED BY <1>2, <1>3, <1>4, <1>5 DEF Table

LEMMA TowardKept ==
  ASSUME NEW t, Toward(t), UNCHANGED <<tab, script>>
  PROVE  Toward(t)'
BY DEF Toward, Due

-----------------------------------------------------------------------------
(***************************************************************************)
(* The invariant of the list.                                              *)
(***************************************************************************)
Seeking   == {"d_node", "cas", "busy", "steal", "stamp", "adv", "plan"}
InLoop    == Seeking \cup {"run", "rel", "clr", "d_clear", "d_cur"}
Resetting == {"fail", "r_cas", "r_stamp", "r_mem", "r_run", "r_rel"}
Fresh     == {"cas", "busy", "steal", "stamp", "plan"}

(* The cursor by which the drain goes on. *)
Active == IF rev THEN curRev ELSE cur

(* No store goes behind the last node; a writer takes only its own node into use, and the *)
(* agent none.                                                                            *)
StoreInv ==
  \A p \in Procs : \A j \in 1 .. Len(script[p]) :
    /\ script[p][j].f \in {"used", "pre", "nxt"} => script[p][j].i # None
    /\ script[p][j].f = "used" /\ p = Agent => script[p][j].v = FALSE
    /\ script[p][j].f = "used" /\ p # Agent => script[p][j].i = arg[p]

EndInv(t) == ~t.used[None] /\ t.nxt[None] = 0 /\ t.pre[None] = 0

(* What a drain finds at the ends of the list, without the flag, is a node of the list as *)
(* the insert under way will leave it.                                                    *)
ReadInv(t) ==
  Len(script[Agent]) = 0 =>
    /\ tab.start = None \/ Linked(t, tab.start)
    /\ tab.end = None \/ Linked(t, tab.end)

(* The agent removes only nodes of the list, its cursor stays on the list, and a reset    *)
(* comes back to no place where the cursor is used.                                       *)
AgentInv(t) ==
  /\ pc[Agent] \in Seeking => Linked(t, arg[Agent])
  /\ pc[Agent] \in InLoop => Active = None \/ Linked(t, Active)
  /\ pc[Agent] = "plan" => Active # arg[Agent]
  /\ pc[Agent] \in Resetting => ret[Agent] \in {"d_null", "d_end", "d_acc"}
  /\ pc[Agent] \in {"idle", "d_first"} => ~rev
  /\ pc[Agent] = "d_firstrev" => rev

(* A writer's node is not in the list before its insert, and no other writer's. *)
WriterInv(t) ==
  /\ \A p \in Writers : pc[p] \in Fresh => arg[p] \in Node /\ ~t.used[arg[p]]
  /\ \A p, q \in Writers : p # q /\ pc[p] # "idle" /\ pc[q] # "idle" => arg[p] # arg[q]

ListPart(t) ==
  /\ Whole(t) /\ EndInv(t) /\ Toward(t) /\ StoreInv
  /\ ReadInv(t) /\ AgentInv(t) /\ WriterInv(t)

ListInv == Clean => \E t \in Table : ListPart(t)

LEMMA TaintGrows == [Next]_vars => taint \subseteq taint'
BY DEF Next, Call, Drain, Reset, vars, Tick, DrainStart, Crash, InsertStart, Cas, Stamp, Busy, Steal,
       Run, Release, ClearStamp, InsertPlan, CheckFailed, ResetCas, ResetGiveUp, ResetStamp, ResetMem,
       ResetRelease, DrainFirst, DrainNull, DrainFirstRevers, DrainNode, DrainClear, DrainCur, DrainEnd,
       DrainAccess, AdvanceCursor, RemovePlan, Tainted

(* Who holds the flag and has no stores to do finds the table at rest. *)
LEMMA AtRest ==
  ASSUME TypeInv, HashMutex, Clean, NEW t \in Table, Toward(t),
         NEW p \in Procs, Holds(p), pc[p] \notin Running
  PROVE  tab = t /\ \A q \in Procs : Len(script[q]) = 0
<1>1. \A q \in Procs : Holds(q) => q = p
  BY DEF HashMutex, Clean
<1>2. \A q \in Procs : pc[q] \in Running => Holds(q)
  BY DEF Running, Holds, Stamped
<1>3. \A q \in Procs : Len(script[q]) = 0
  BY <1>1, <1>2 DEF TypeInv, LabelInv
<1> QED BY <1>3, Arrived DEF TypeInv, TypeOK

(* The agent takes a step that stores nothing. *)
LEMMA AgentMoved ==
  ASSUME TypeInv, NEW t \in Table, ListPart(t), UNCHANGED <<tab, script>>,
         \A q \in Writers : pc'[q] = pc[q] /\ arg'[q] = arg[q], AgentInv(t)'
  PROVE  ListPart(t)'
<1>1. Toward(t)'
  BY TowardKept DEF ListPart
<1>2. StoreInv'
  BY DEF ListPart, StoreInv, Procs
<1>3. ReadInv(t)'
  BY DEF ListPart, ReadInv
<1>4. WriterInv(t)'
  BY DEF ListPart, WriterInv
<1>5. Whole(t)' /\ EndInv(t)'
  BY DEF ListPart, Whole, EndInv, IsList
<1> QED BY <1>1, <1>2, <1>3, <1>4, <1>5 DEF ListPart

LEMMA AgentGoes ==
  ASSUME TypeInv, NEW l, Goto(Agent, l)
  PROVE  pc'[Agent] = l /\ \A q \in Writers : pc'[q] = pc[q]
BY AgentIn, HashProcs DEF TypeInv, TypeOK, Goto, Procs

(* A writer does. *)
LEMMA WriterMoved ==
  ASSUME TypeInv, NEW t \in Table, ListPart(t), UNCHANGED <<tab, script, ret, agent>>,
         NEW p \in Writers, NEW l, Goto(p, l), pc[p] \notin Running,
         \A q \in Procs : q # p => arg'[q] = arg[q],
         l # "idle" => pc[p] # "idle" /\ arg'[p] = arg[p],
         l \in Fresh => pc[p] \in Fresh
  PROVE  ListPart(t)'
<1>1. Toward(t)'
  BY TowardKept DEF ListPart
<1>p. p \in Procs /\ p # Agent /\ Agent \in Procs /\ Writers \subseteq Procs
  BY AgentIn, HashProcs DEF Procs
<1>q. pc'[p] = l /\ \A q \in Procs : q # p => pc'[q] = pc[q]
  BY <1>p DEF TypeInv, TypeOK, Goto
<1>2. StoreInv'
  <2>1. Len(script[p]) = 0
    BY <1>p DEF TypeInv, LabelInv
  <2>2. \A j \in 1 .. Len(script[p]) : FALSE
    BY <2>1
  <2> QED BY <2>2 DEF ListPart, StoreInv
<1>3. ReadInv(t)'
  BY DEF ListPart, ReadInv
<1>4. WriterInv(t)'
  <2>1. \A q \in Writers : pc'[q] \in Fresh => arg'[q] \in Node /\ ~t.used[arg'[q]]
    <3> SUFFICES ASSUME NEW q \in Writers, pc'[q] \in Fresh PROVE arg'[q] \in Node /\ ~t.used[arg'[q]]
      OBVIOUS
    <3>1. CASE q = p
      BY <1>q, <3>1 DEF ListPart, WriterInv, Fresh
    <3>2. CASE q # p
      BY <1>p, <1>q, <3>2 DEF ListPart, WriterInv
    <3> QED BY <3>1, <3>2
  <2>2. \A q \in Writers : pc'[q] # "idle" => pc[q] # "idle" /\ arg'[q] = arg[q]
    BY <1>p, <1>q
  <2>3. \A q, r \in Writers : q # r /\ pc'[q] # "idle" /\ pc'[r] # "idle" => arg'[q] # arg'[r]
    BY <2>2 DEF ListPart, WriterInv
  <2> QED BY <2>1, <2>3 DEF WriterInv
<1>5. AgentInv(t)'
  BY <1>p, <1>q DEF ListPart, AgentInv, agent, Active
<1>6. Whole(t)' /\ EndInv(t)'
  BY DEF ListPart, Whole, EndInv, IsList
<1> QED BY <1>1, <1>2, <1>3, <1>4, <1>5, <1>6 DEF ListPart

(* The steps of the agent outside its calls, and its resets. *)
LEMMA DrainKept ==
  ASSUME TypeInv, NEW t \in Table, ListPart(t),
         \/ DrainStart \/ DrainFirst \/ DrainNull \/ DrainFirstRevers \/ DrainNode \/ DrainClear
         \/ DrainCur \/ DrainEnd \/ DrainAccess
         \/ CheckFailed \/ ResetCas \/ ResetGiveUp \/ ResetStamp \/ ResetRelease
  PROVE  ListPart(t)'
<1>a. Agent \in Procs /\ Agent \notin Writers /\ Writers \subseteq Procs
  BY AgentIn, HashProcs DEF Procs
<1>t. arg \in [Procs -> Cell] /\ ret \in [Procs -> Labels] /\ tab \in Table
      /\ cur \in Cell /\ curRev \in Cell
  BY DEF TypeInv, TypeOK
<1>c. \A c \in Cell : c # None => c \in Node
  BY HashSizes DEF Cell, None, Node
<1>s. pc[Agent] \notin Running => /\ tab.start = None \/ Linked(t, tab.start)
                                  /\ tab.end = None \/ Linked(t, tab.end)
  BY <1>a DEF ListPart, ReadInv, TypeInv, LabelInv
<1>i. AgentInv(t)
  BY DEF ListPart
<1>l. /\ "d_null" \notin InLoop \cup Resetting /\ "d_end" \notin InLoop \cup Resetting
      /\ "d_acc" \notin InLoop \cup Resetting /\ "idle" \notin InLoop \cup Resetting
      /\ "d_first" \notin InLoop \cup Resetting /\ "d_firstrev" \notin InLoop \cup Resetting
      /\ "fail" \notin InLoop /\ "d_node" \in Seeking /\ "cas" \in Seeking /\ "d_node" \notin Resetting
      /\ "cas" \notin Resetting /\ Seeking \subseteq InLoop
  BY DEF InLoop, Seeking, Resetting
<1> USE DEF Running
<1>1. CASE DrainStart
  <2>1. UNCHANGED <<tab, script, arg, ret, cur, curRev, rev>> /\ Goto(Agent, "d_first") /\ pc[Agent] = "idle"
    BY <1>1 DEF DrainStart, agent
  <2>2. AgentInv(t)'
    BY <1>i, <1>l, <2>1, AgentGoes DEF AgentInv
  <2> QED BY <2>1, <2>2, AgentGoes, AgentMoved
<1>2. CASE DrainFirst
  <2>1. UNCHANGED <<tab, script, curRev, rev>> /\ cur' = tab.start /\ pc[Agent] = "d_first" /\ ~rev
    BY <1>2, <1>i DEF DrainFirst, AgentInv
  <2>2. CASE Goto(Agent, "d_null") /\ UNCHANGED <<arg, ret>>
    <3>1. AgentInv(t)'
      BY <1>l, <2>2, AgentGoes DEF AgentInv, InLoop
    <3> QED BY <2>1, <2>2, <3>1, AgentGoes, AgentMoved
  <2>3. CASE Goto(Agent, "fail") /\ ret' = [ret EXCEPT ![Agent] = "d_null"] /\ UNCHANGED arg
    <3>0. ret'[Agent] = "d_null"
      BY <1>a, <1>t, <2>3
    <3>1. AgentInv(t)'
      BY <1>l, <2>3, <3>0, AgentGoes DEF AgentInv, InLoop
    <3> QED BY <2>1, <2>3, <3>1, AgentGoes, AgentMoved
  <2>4. CASE tab.start # None /\ Goto(Agent, "d_node") /\ arg' = [arg EXCEPT ![Agent] = tab.start] /\ UNCHANGED ret
    <3>0. arg'[Agent] = tab.start /\ \A q \in Writers : arg'[q] = arg[q]
      BY <1>a, <1>t, <2>4
    <3>2. Linked(t, tab.start)
      BY <1>s, <2>1, <2>4
    <3>3. Active' = tab.start
      BY <2>1 DEF Active
    <3>4. pc'[Agent] = "d_node" /\ \A q \in Writers : pc'[q] = pc[q]
      BY <2>4, AgentGoes
    <3>1. AgentInv(t)'
      BY <1>l, <3>0, <3>2, <3>3, <3>4 DEF AgentInv, Linked
    <3> QED BY <2>1, <3>0, <3>1, <3>4, AgentMoved
  <2> QED BY <1>2, <2>2, <2>3, <2>4 DEF DrainFirst, Look
<1>3. CASE DrainNull
  <2>1. UNCHANGED <<tab, script, arg, ret>> /\ pc[Agent] = "d_null"
    BY <1>3 DEF DrainNull
  <2>2. CASE rev' = TRUE /\ Goto(Agent, "d_firstrev")
    <3>1. AgentInv(t)'
      BY <1>l, <2>2, AgentGoes DEF AgentInv, InLoop
    <3> QED BY <2>1, <2>2, <3>1, AgentGoes, AgentMoved
  <2>3. CASE Goto(Agent, "d_end")
    <3>1. AgentInv(t)'
      BY <1>l, <2>3, AgentGoes DEF AgentInv, InLoop
    <3> QED BY <2>1, <2>3, <3>1, AgentGoes, AgentMoved
  <2> QED BY <1>3, <2>2, <2>3 DEF DrainNull
<1>4. CASE DrainFirstRevers
  <2>1. UNCHANGED <<tab, script, cur, rev>> /\ curRev' = tab.end /\ pc[Agent] = "d_firstrev" /\ rev
    BY <1>4, <1>i DEF DrainFirstRevers, AgentInv
  <2>2. CASE Goto(Agent, "d_end") /\ UNCHANGED <<arg, ret>>
    <3>1. AgentInv(t)'
      BY <1>l, <2>2, AgentGoes DEF AgentInv, InLoop
    <3> QED BY <2>1, <2>2, <3>1, AgentGoes, AgentMoved
  <2>3. CASE Goto(Agent, "fail") /\ ret' = [ret EXCEPT ![Agent] = "d_end"] /\ UNCHANGED arg
    <3>0. ret'[Agent] = "d_end"
      BY <1>a, <1>t, <2>3
    <3>1. AgentInv(t)'
      BY <1>l, <2>3, <3>0, AgentGoes DEF AgentInv, InLoop
    <3> QED BY <2>1, <2>3, <3>1, AgentGoes, AgentMoved
  <2>4. CASE tab.end # None /\ Goto(Agent, "d_node") /\ arg' = [arg EXCEPT ![Agent] = tab.end] /\ UNCHANGED ret
    <3>0. arg'[Agent] = tab.end /\ \A q \in Writers : arg'[q] = arg[q]
      BY <1>a, <1>t, <2>4
    <3>2. Linked(t, tab.end)
      BY <1>s, <2>1, <2>4
    <3>3. Active' = tab.end
      BY <2>1 DEF Active
    <3>4. pc'[Agent] = "d_node" /\ \A q \in Writers : pc'[q] = pc[q]
      BY <2>4, AgentGoes
    <3>1. AgentInv(t)'
      BY <1>l, <3>0, <3>2, <3>3, <3>4 DEF AgentInv, Linked
    <3> QED BY <2>1, <3>0, <3>1, <3>4, AgentMoved
  <2> QED BY <1>4, <2>2, <2>3, <2>4 DEF DrainFirstRevers, Look
<1>5. CASE DrainNode
  <2>1. UNCHANGED <<tab, script, arg, ret, cur, curRev, rev>> /\ pc[Agent] = "d_node"
    BY <1>5 DEF DrainNode
  <2>2. CASE Goto(Agent, "cas")
    <3>0. pc'[Agent] = "cas" /\ \A q \in Writers : pc'[q] = pc[q]
      BY <2>2, AgentGoes
    <3>1. AgentInv(t)'
      BY <1>i, <1>l, <2>1, <3>0 DEF AgentInv, Active, Linked
    <3> QED BY <2>1, <3>0, <3>1, AgentMoved
  <2>3. CASE Goto(Agent, "d_end")
    <3>1. AgentInv(t)'
      BY <1>l, <2>3, AgentGoes DEF AgentInv, InLoop
    <3> QED BY <2>1, <2>3, <3>1, AgentGoes, AgentMoved
  <2> QED BY <1>5, <2>2, <2>3 DEF DrainNode
<1>6. CASE DrainClear
  <2>1. UNCHANGED <<tab, script, arg, ret, cur, curRev, rev>> /\ pc[Agent] = "d_clear" /\ Goto(Agent, "d_cur")
    BY <1>6 DEF DrainClear, agent
  <2>2. pc'[Agent] = "d_cur" /\ \A q \in Writers : pc'[q] = pc[q]
    BY <2>1, AgentGoes
  <2>3. AgentInv(t)'
    BY <1>i, <2>1, <2>2 DEF AgentInv, Active, Linked, InLoop, Seeking, Resetting
  <2> QED BY <2>1, <2>2, <2>3, AgentMoved
<1>7. CASE DrainCur
  <2>1. UNCHANGED <<tab, script, curRev, rev>> /\ pc[Agent] = "d_cur" /\ Look(Active, "d_end")
        /\ cur' = (IF ~rev /\ Active # None /\ acc /\ ~tab.used[Active] THEN None ELSE cur)
    BY <1>7 DEF DrainCur, Active
  <2>0. Active \in Cell /\ (Active = None \/ Linked(t, Active))
    BY <1>i, <1>t, <2>1 DEF AgentInv, InLoop, Active
  <2>2. CASE Goto(Agent, "d_end") /\ UNCHANGED <<arg, ret>>
    <3>1. AgentInv(t)'
      BY <1>l, <2>2, AgentGoes DEF AgentInv, InLoop
    <3> QED BY <2>1, <2>2, <3>1, AgentGoes, AgentMoved
  <2>3. CASE Goto(Agent, "fail") /\ ret' = [ret EXCEPT ![Agent] = "d_end"] /\ UNCHANGED arg
    <3>0. ret'[Agent] = "d_end"
      BY <1>a, <1>t, <2>3
    <3>1. AgentInv(t)'
      BY <1>l, <2>3, <3>0, AgentGoes DEF AgentInv, InLoop
    <3> QED BY <2>1, <2>3, <3>1, AgentGoes, AgentMoved
  <2>4. CASE Active # None /\ ~(acc /\ ~tab.used[Active]) /\ Goto(Agent, "d_node")
             /\ arg' = [arg EXCEPT ![Agent] = Active] /\ UNCHANGED ret
    <3>0. arg'[Agent] = Active /\ \A q \in Writers : arg'[q] = arg[q]
      BY <1>a, <1>t, <2>0, <2>4
    <3>2. Linked(t, Active)
      BY <2>0, <2>4
    <3>3. Active' = Active
      <4>1. cur' = cur
        BY <2>1, <2>4
      <4> QED BY <2>1, <4>1 DEF Active
    <3>4. pc'[Agent] = "d_node" /\ \A q \in Writers : pc'[q] = pc[q]
      BY <2>4, AgentGoes
    <3>1. AgentInv(t)'
      BY <1>l, <3>0, <3>2, <3>3, <3>4 DEF AgentInv, Linked
    <3> QED BY <2>1, <3>0, <3>1, <3>4, AgentMoved
  <2> QED BY <2>1, <2>2, <2>3, <2>4 DEF Look
<1>8. CASE DrainEnd
  <2>1. UNCHANGED <<tab, script>> /\ pc[Agent] = "d_end"
    BY <1>8 DEF DrainEnd
  <2>2. CASE Goto(Agent, "r_cas") /\ ret' = [ret EXCEPT ![Agent] = "d_acc"] /\ UNCHANGED arg
    <3>0. ret'[Agent] = "d_acc"
      BY <1>a, <1>t, <2>2
    <3>1. AgentInv(t)'
      BY <2>2, <3>0, AgentGoes DEF AgentInv, InLoop, Seeking
    <3> QED BY <2>1, <2>2, <3>1, AgentGoes, AgentMoved
  <2>3. CASE DrainReturn
    <3>0. Goto(Agent, "idle") /\ arg' = [arg EXCEPT ![Agent] = None] /\ rev' = FALSE
      BY <2>3 DEF DrainReturn
    <3>2. \A q \in Writers : arg'[q] = arg[q]
      BY <1>a, <1>t, <3>0
    <3>1. AgentInv(t)'
      BY <1>l, <3>0, AgentGoes DEF AgentInv, InLoop
    <3> QED BY <2>1, <3>0, <3>1, <3>2, AgentGoes, AgentMoved
  <2> QED BY <1>8, <2>2, <2>3 DEF DrainEnd
<1>9. CASE DrainAccess
  <2>1. UNCHANGED <<tab, script>>
    BY <1>9 DEF DrainAccess
  <2>2. Goto(Agent, "idle") /\ arg' = [arg EXCEPT ![Agent] = None] /\ rev' = FALSE
    BY <1>9 DEF DrainAccess, DrainReturn
  <2>3. \A q \in Writers : arg'[q] = arg[q]
    BY <1>a, <1>t, <2>2
  <2>4. AgentInv(t)'
    BY <1>l, <2>2, AgentGoes DEF AgentInv, InLoop
  <2> QED BY <2>1, <2>2, <2>3, <2>4, AgentGoes, AgentMoved
<1>10. CASE CheckFailed
  <2>1. UNCHANGED <<tab, script, arg, ret>> /\ pc[Agent] = "fail" /\ Goto(Agent, "r_cas")
    BY <1>10 DEF CheckFailed
  <2>2. AgentInv(t)'
    BY <1>i, <2>1, AgentGoes DEF AgentInv, InLoop, Seeking, Resetting
  <2> QED BY <2>1, <2>2, AgentGoes, AgentMoved
<1>11. CASE ResetCas
  <2>1. UNCHANGED <<tab, script, arg, ret, agent>> /\ pc[Agent] = "r_cas"
    BY <1>11 DEF ResetCas
  <2>2. CASE Goto(Agent, "r_stamp")
    <3>1. AgentInv(t)'
      BY <1>i, <2>1, <2>2, AgentGoes DEF AgentInv, InLoop, Seeking, Resetting
    <3> QED BY <2>1, <2>2, <3>1, AgentGoes, AgentMoved
  <2>3. CASE UNCHANGED pc
    <3>1. AgentInv(t)'
      BY <1>i, <2>1, <2>3 DEF AgentInv, agent, Active
    <3> QED BY <2>1, <2>3, <3>1, AgentMoved
  <2> QED BY <1>11, <2>2, <2>3 DEF ResetCas
<1>12. CASE ResetGiveUp
  <2>1. UNCHANGED <<tab, script>>
    BY <1>12 DEF ResetGiveUp
  <2>2. Goto(Agent, "idle") /\ arg' = [arg EXCEPT ![Agent] = None] /\ rev' = FALSE
    BY <1>12 DEF ResetGiveUp, AgentFresh
  <2>3. \A q \in Writers : arg'[q] = arg[q]
    BY <1>a, <1>t, <2>2
  <2>4. AgentInv(t)'
    BY <1>l, <2>2, AgentGoes DEF AgentInv, InLoop
  <2> QED BY <2>1, <2>2, <2>3, <2>4, AgentGoes, AgentMoved
<1>13. CASE ResetStamp
  <2>1. UNCHANGED <<tab, script, arg, ret>> /\ pc[Agent] = "r_stamp" /\ Goto(Agent, "r_mem")
    BY <1>13 DEF ResetStamp
  <2>2. AgentInv(t)'
    BY <1>i, <2>1, AgentGoes DEF AgentInv, InLoop, Seeking, Resetting
  <2> QED BY <2>1, <2>2, AgentGoes, AgentMoved
<1>14. CASE ResetRelease
  <2>1. UNCHANGED <<tab, script, arg>> /\ pc[Agent] = "r_rel" /\ Goto(Agent, ret[Agent])
    BY <1>14 DEF ResetRelease
  <2>2. ret[Agent] \in {"d_null", "d_end", "d_acc"}
    BY <1>i, <2>1 DEF AgentInv, Resetting
  <2>3. AgentInv(t)'
    BY <1>l, <2>1, <2>2, AgentGoes DEF AgentInv, InLoop
  <2> QED BY <2>1, <2>3, AgentGoes, AgentMoved
<1> QED BY <1>1, <1>2, <1>3, <1>4, <1>5, <1>6, <1>7, <1>8, <1>9, <1>10, <1>11, <1>12, <1>13, <1>14

(* The steps of a call that store nothing. *)
LEMMA CallKept ==
  ASSUME TypeInv, NEW t \in Table, ListPart(t), NEW p \in Procs,
         Cas(p) \/ Stamp(p) \/ Busy(p) \/ Steal(p) \/ Release(p) \/ ClearStamp(p)
  PROVE  ListPart(t)'
<1>a. Agent \in Procs /\ Agent \notin Writers /\ Writers \subseteq Procs
  BY AgentIn, HashProcs DEF Procs
<1>t. arg \in [Procs -> Cell]
  BY DEF TypeInv, TypeOK
<1>i. AgentInv(t)
  BY DEF ListPart
<1>0. UNCHANGED <<tab, script, ret, agent>>
  BY DEF Cas, Stamp, Busy, Steal, Release, ClearStamp
<1>1. pc[p] \in {"cas", "stamp", "busy", "steal", "rel", "clr"}
  BY DEF Cas, Stamp, Busy, Steal, Release, ClearStamp
<1>2. PICK l : Goto(p, l) /\ \/ pc[p] = "cas" /\ l \in {"stamp", "busy"} /\ UNCHANGED arg
                             \/ pc[p] = "stamp" /\ l = (IF p = Agent THEN "adv" ELSE "plan") /\ UNCHANGED arg
                             \/ pc[p] = "busy" /\ l = "steal" /\ UNCHANGED arg
                             \/ pc[p] = "rel" /\ l = "clr" /\ UNCHANGED arg
                             \/ pc[p] \in {"busy", "steal", "clr"} /\ Return(p)
                                /\ l = IF p = Agent THEN "d_clear" ELSE "idle"
  BY DEF Cas, Stamp, Busy, Steal, Release, ClearStamp, Return
<1>3. CASE p = Agent
  <2>1. UNCHANGED arg
    BY <1>2, <1>3 DEF Return
  <2>2. pc'[Agent] = l /\ \A q \in Writers : pc'[q] = pc[q]
    BY <1>2, <1>3, AgentGoes
  <2>3. /\ l \in {"stamp", "busy", "adv", "steal", "clr", "d_clear"}
        /\ l \in Seeking => pc[Agent] \in Seeking
    BY <1>2, <1>3 DEF Seeking
  <2>4. pc[Agent] \in InLoop
    BY <1>1, <1>3 DEF InLoop, Seeking
  <2>5. Active' = Active
    BY <1>0 DEF Active, agent
  <2>6. AgentInv(t)'
    BY <1>i, <2>1, <2>2, <2>3, <2>4, <2>5 DEF AgentInv, Resetting, Linked
  <2> QED BY <1>0, <2>1, <2>2, <2>6, AgentMoved
<1>4. CASE p \in Writers
  <2>1. p # Agent
    BY <1>4, <1>a
  <2>2. l # "idle" => pc[p] # "idle" /\ arg'[p] = arg[p]
    BY <1>1, <1>2, <2>1
  <2>3. l \in Fresh => pc[p] \in Fresh
    BY <1>2, <2>1 DEF Fresh
  <2>4. \A q \in Procs : q # p => arg'[q] = arg[q]
    BY <1>2, <1>t, <2>1 DEF Return
  <2>5. pc[p] \notin Running
    BY <1>1 DEF Running
  <2> QED BY <1>0, <1>2, <1>4, <2>2, <2>3, <2>4, <2>5, WriterMoved
<1> QED BY <1>3, <1>4 DEF Procs

(* The cursor leaves the node; the access check never finds anything. *)
LEMMA CursorKept ==
  ASSUME TypeInv, HashMutex, Clean, NEW t \in Table, ListPart(t), AdvanceCursor
  PROVE  ListPart(t)'
<1>a. Agent \in Procs /\ Agent \notin Writers /\ Writers \subseteq Procs
  BY AgentIn, HashProcs DEF Procs
<1> DEFINE n == arg[Agent]
<1>1. UNCHANGED <<tab, script, arg, rev>> /\ pc[Agent] = "adv"
      /\ cur' = (IF cur = n THEN tab.nxt[n] ELSE cur)
      /\ curRev' = (IF curRev = n THEN tab.pre[n] ELSE curRev)
  BY DEF AdvanceCursor
<1>2. tab = t
  BY <1>a, <1>1, AtRest DEF ListPart, Holds, Stamped, Running
<1>3. Linked(t, n) /\ (Active = None \/ Linked(t, Active))
  BY <1>1 DEF ListPart, AgentInv, Seeking, InLoop
<1>4. /\ tab.nxt[n] = None \/ (Linked(t, tab.nxt[n]) /\ tab.nxt[n] # n)
      /\ tab.pre[n] = None \/ (Linked(t, tab.pre[n]) /\ tab.pre[n] # n)
  BY <1>2, <1>3, Links DEF ListPart, Linked
<1>5. tab.used[n] /\ (tab.nxt[n] # None => tab.used[tab.nxt[n]]) /\ (tab.pre[n] # None => tab.used[tab.pre[n]])
  BY <1>2, <1>3, <1>4 DEF Linked
<1>6. Goto(Agent, "plan") /\ UNCHANGED ret
  BY <1>5 DEF AdvanceCursor
<1>7. Active' # n /\ (Active' = None \/ Linked(t, Active'))
  <2>1. None # n
    BY <1>3, CellIn DEF Linked
  <2> QED BY <1>1, <1>3, <1>4, <2>1 DEF Active
<1>8. pc'[Agent] = "plan" /\ \A q \in Writers : pc'[q] = pc[q]
  BY <1>6, AgentGoes
<1>9. AgentInv(t)'
  BY <1>1, <1>3, <1>7, <1>8 DEF AgentInv, Resetting, Linked
<1> QED BY <1>1, <1>8, <1>9, AgentMoved

(* A store. *)
LEMMA RunKept ==
  ASSUME TypeInv, TypeInv', HashMutex', Clean', NEW t \in Table, ListPart(t), NEW p \in Procs, Run(p)
  PROVE  ListPart(t)'
<1>a. Agent \in Procs /\ Agent \notin Writers /\ Writers \subseteq Procs
  BY AgentIn, HashProcs DEF Procs
<1>1. Toward(t)'
  BY Nearer DEF ListPart
<1>2. UNCHANGED <<arg, ret, agent>> /\ pc[p] \in {"run", "r_run"}
      /\ script' = [script EXCEPT ![p] = Tail(script[p])]
  BY DEF Run
<1>3. script[p] \in Seq(Store) /\ Len(script[p]) # 0 /\ script \in [Procs -> Seq(Store)] /\ pc \in [Procs -> Labels]
  BY <1>2 DEF TypeInv, TypeOK, LabelInv, Running
<1>4. script'[p] = Tail(script[p]) /\ \A q \in Procs : q # p => script'[q] = script[q]
  BY <1>2, <1>3
<1>5. /\ Len(Tail(script[p])) = Len(script[p]) - 1 /\ Len(script[p]) \in Nat
      /\ \A j \in 1 .. Len(script[p]) - 1 : Tail(script[p])[j] = script[p][j + 1]
  BY <1>3
<1>6. StoreInv'
  <2> SUFFICES ASSUME NEW q \in Procs, NEW j \in 1 .. Len(script'[q])
               PROVE  /\ script'[q][j].f \in {"used", "pre", "nxt"} => script'[q][j].i # None
                      /\ script'[q][j].f = "used" /\ q = Agent => script'[q][j].v = FALSE
                      /\ script'[q][j].f = "used" /\ q # Agent => script'[q][j].i = arg[q]
    BY <1>2 DEF StoreInv
  <2>1. PICK i \in 1 .. Len(script[q]) : script'[q][j] = script[q][i]
    <3>1. CASE q # p
      BY <1>4, <3>1
    <3>2. CASE q = p
      <4>1. PICK k \in Nat : k = Len(script[p])
        BY <1>5
      <4>2. j \in 1 .. k - 1
        BY <1>4, <1>5, <3>2, <4>1
      <4>3. j + 1 \in 1 .. k
        BY <4>2
      <4>4. script'[q][j] = script[p][j + 1]
        BY <1>4, <1>5, <3>2, <4>1, <4>2
      <4> QED BY <3>2, <4>1, <4>3, <4>4
    <3> QED BY <3>1, <3>2
  <2> QED BY <2>1 DEF ListPart, StoreInv
<1>7. \A q \in Procs : q # p => pc'[q] = pc[q]
  BY <1>3 DEF Run, Goto
<1>8. pc[p] = "run" => pc'[p] \in {"run", "rel"}
  BY <1>3 DEF Run, Goto
<1>9. pc[p] = "r_run" => pc'[p] \in {"r_run", "r_rel"}
  BY <1>3 DEF Run, Goto
<1>10. AgentInv(t)'
  <2>1. pc'[Agent] = pc[Agent] \/ (pc[Agent] = "run" /\ pc'[Agent] \in {"run", "rel"})
        \/ (pc[Agent] = "r_run" /\ pc'[Agent] \in {"r_run", "r_rel"})
    BY <1>a, <1>2, <1>7, <1>8, <1>9
  <2>2. Active' = Active /\ rev' = rev
    BY <1>2 DEF Active, agent
  <2>3. AgentInv(t)
    BY DEF ListPart
  <2>4. CASE pc'[Agent] = pc[Agent]
    BY <1>2, <2>2, <2>3, <2>4 DEF AgentInv, Linked
  <2>5. CASE pc[Agent] = "run" /\ pc'[Agent] \in {"run", "rel"}
    BY <1>2, <2>2, <2>3, <2>5 DEF AgentInv, Linked, Seeking, InLoop, Resetting
  <2>6. CASE pc[Agent] = "r_run" /\ pc'[Agent] \in {"r_run", "r_rel"}
    BY <1>2, <2>2, <2>3, <2>6 DEF AgentInv, Linked, Seeking, InLoop, Resetting
  <2> QED BY <2>1, <2>4, <2>5, <2>6
<1>11. WriterInv(t)'
  <2>1. \A q \in Writers : pc'[q] \in Fresh => pc[q] \in Fresh
    BY <1>a, <1>2, <1>7, <1>8, <1>9 DEF Fresh
  <2>2. \A q \in Writers : pc'[q] # "idle" => pc[q] # "idle"
    BY <1>a, <1>2, <1>7
  <2> QED BY <1>2, <2>1, <2>2 DEF ListPart, WriterInv
<1>12. ReadInv(t)'
  <2> SUFFICES ASSUME Len(script'[Agent]) = 0
               PROVE  (tab'.start = None \/ Linked(t, tab'.start)) /\ (tab'.end = None \/ Linked(t, tab'.end))
    BY DEF ReadInv, Linked
  <2>e. (t.start = None \/ Linked(t, t.start)) /\ (t.end = None \/ Linked(t, t.end))
    BY Ends DEF ListPart
  <2>1. CASE p = Agent
    <3>1. pc'[Agent] \in {"rel", "r_rel"}
      BY <1>a, <1>2, <1>8, <1>9, <2>1 DEF TypeInv, LabelInv, Running
    <3>2. tab' = t
      <4>1. Holds(Agent)' /\ ~(pc'[Agent] \in Running)
        BY <3>1 DEF Holds, Stamped, Running
      <4>2. \A q \in Procs : Holds(q)' => q = Agent
        BY <1>a, <4>1 DEF HashMutex, Clean
      <4>3. \A q \in Procs : pc'[q] \in Running => Holds(q)'
        BY DEF Running, Holds, Stamped
      <4>4. \A q \in Procs : Len(script'[q]) = 0
        BY <4>1, <4>2, <4>3 DEF TypeInv, LabelInv
      <4>5. tab' \in Table
        BY DEF TypeInv, TypeOK
      <4>6. \A f, c : ~Due(f, c)'
        BY <4>4 DEF Due
      <4>7. tab'.start = t.start /\ tab'.end = t.end
        BY <1>1, <4>6 DEF Toward
      <4>8. tab'.count = t.count
        BY <1>1, <4>6 DEF Toward
      <4>9. tab'.pre = t.pre
        BY <1>1, <4>5, <4>6 DEF Toward, Table
      <4>10. tab'.nxt = t.nxt
        BY <1>1, <4>5, <4>6 DEF Toward, Table
      <4>11. tab'.used = t.used
        BY <1>1, <4>5, <4>6 DEF Toward, Table
      <4> QED BY <4>5, <4>7, <4>8, <4>9, <4>10, <4>11 DEF Table
    <3> QED BY <2>e, <3>2
  <2>2. CASE p # Agent
    <3>1. (tab.start = None \/ Linked(t, tab.start)) /\ (tab.end = None \/ Linked(t, tab.end))
      BY <1>a, <1>4, <2>2 DEF ListPart, ReadInv
    <3>2. PICK h \in Store : h = script[p][1] /\ Head(script[p]) = h
      BY <1>3
    <3>3. Meets(t, h)
      <4>1. 1 \in 1 .. Len(script[p])
        BY <1>3, <1>5
      <4> QED BY <3>2, <4>1 DEF ListPart, Toward
    <3>4. tab' = Apply(h) /\ tab \in Table
      BY <3>2 DEF Run, TypeInv, TypeOK
    <3>5. (tab'.start = tab.start \/ tab'.start = t.start) /\ (tab'.end = tab.end \/ tab'.end = t.end)
      BY <3>3, <3>4, ApplyFields DEF Meets
    <3> QED BY <2>e, <3>1, <3>5
  <2> QED BY <2>1, <2>2
<1>13. Whole(t)' /\ EndInv(t)'
  BY DEF ListPart, Whole, EndInv, IsList
<1> QED BY <1>1, <1>6, <1>10, <1>11, <1>12, <1>13 DEF ListPart

LEMMA Joined ==
  ASSUME NEW a, NEW b, NEW c, NEW d, NEW e, NEW f
  PROVE  /\ \A z : z = <<a, b, c, d, e>> \o <<f>> =>
              Len(z) = 6 /\ z[1] = a /\ z[2] = b /\ z[3] = c /\ z[4] = d /\ z[5] = e /\ z[6] = f
         /\ \A z : z = <<a, b>> \o <<c, d, e>> =>
              Len(z) = 5 /\ z[1] = a /\ z[2] = b /\ z[3] = c /\ z[4] = d /\ z[5] = e
<1> DEFINE S == {a, b, c, d, e, f}
<1>0. a \in S /\ b \in S /\ c \in S /\ d \in S /\ e \in S /\ f \in S
  OBVIOUS
<1> HIDE DEF S
<1>1. ASSUME NEW z, z = <<a, b, c, d, e>> \o <<f>>
      PROVE  Len(z) = 6 /\ z[1] = a /\ z[2] = b /\ z[3] = c /\ z[4] = d /\ z[5] = e /\ z[6] = f
  <2>1. PICK x \in Seq(S) : x = <<a, b, c, d, e>>
    BY <1>0, Tuples
  <2>2. PICK y \in Seq(S) : y = <<f>>
    BY <1>0, Tuples
  <2>3. Len(x) = 5 /\ x[1] = a /\ x[2] = b /\ x[3] = c /\ x[4] = d /\ x[5] = e
    BY <2>1
  <2>4. Len(y) = 1 /\ y[1] = f
    BY <2>2
  <2>5. z = x \o y
    BY <1>1, <2>1, <2>2
  <2>6. Len(z) = 6 /\ \A i \in 1 .. 6 : z[i] = IF i <= 5 THEN x[i] ELSE y[i - 5]
    <3>1. /\ Len(x \o y) = Len(x) + Len(y)
          /\ \A i \in 1 .. Len(x) + Len(y) : (x \o y)[i] = IF i <= Len(x) THEN x[i] ELSE y[i - Len(x)]
      BY ConcatProperties
    <3>2. Len(x) + Len(y) = 6
      BY <2>3, <2>4
    <3> QED BY <2>3, <2>5, <3>1, <3>2
  <2> QED BY <2>3, <2>4, <2>6
<1>2. ASSUME NEW z, z = <<a, b>> \o <<c, d, e>>
      PROVE  Len(z) = 5 /\ z[1] = a /\ z[2] = b /\ z[3] = c /\ z[4] = d /\ z[5] = e
  <2>1. PICK x \in Seq(S) : x = <<a, b>>
    BY <1>0, Tuples
  <2>2. PICK y \in Seq(S) : y = <<c, d, e>>
    BY <1>0, Tuples
  <2>3. Len(x) = 2 /\ x[1] = a /\ x[2] = b
    BY <2>1
  <2>4. Len(y) = 3 /\ y[1] = c /\ y[2] = d /\ y[3] = e
    BY <2>2
  <2>5. z = x \o y
    BY <1>2, <2>1, <2>2
  <2>6. Len(z) = 5 /\ \A i \in 1 .. 5 : z[i] = IF i <= 2 THEN x[i] ELSE y[i - 2]
    <3>1. /\ Len(x \o y) = Len(x) + Len(y)
          /\ \A i \in 1 .. Len(x) + Len(y) : (x \o y)[i] = IF i <= Len(x) THEN x[i] ELSE y[i - Len(x)]
      BY ConcatProperties
    <3>2. Len(x) + Len(y) = 5
      BY <2>3, <2>4
    <3> QED BY <2>3, <2>5, <3>1, <3>2
  <2> QED BY <2>3, <2>4, <2>6
<1> QED BY <1>1, <1>2

(* The k stores of sc lead from the table v to u. *)
Leads(v, u, sc, k) ==
  /\ \A j \in 1 .. k : Meets(u, sc[j])
  /\ v.start = u.start \/ \E j \in 1 .. k : sc[j].f = "start" /\ sc[j].i = None
  /\ v.end = u.end \/ \E j \in 1 .. k : sc[j].f = "end" /\ sc[j].i = None
  /\ v.count = u.count \/ \E j \in 1 .. k : sc[j].f = "count" /\ sc[j].i = None
  /\ \A c \in Cell : v.pre[c] = u.pre[c] \/ \E j \in 1 .. k : sc[j].f = "pre" /\ sc[j].i = c
  /\ \A c \in Cell : v.nxt[c] = u.nxt[c] \/ \E j \in 1 .. k : sc[j].f = "nxt" /\ sc[j].i = c
  /\ \A c \in Cell : v.used[c] = u.used[c] \/ \E j \in 1 .. k : sc[j].f = "used" /\ sc[j].i = c

(* A process begins stores that lead from the table at rest to u. *)
LEMMA Begins ==
  ASSUME NEW u \in Table, NEW p \in Procs, NEW k, Len(script'[p]) = k,
         \A q \in Procs : q # p => Len(script'[q]) = 0, Leads(tab', u, script'[p], k)
  PROVE  Toward(u)'
<1>1. \A f, c : (\E j \in 1 .. k : script'[p][j].f = f /\ script'[p][j].i = c) => Due(f, c)'
  BY DEF Due
<1>2. \A q \in Procs : \A j \in 1 .. Len(script'[q]) : Meets(u, script'[q][j])
  <2>1. \A q \in Procs : q # p => \A j \in 1 .. Len(script'[q]) : FALSE
    OBVIOUS
  <2> QED BY <2>1 DEF Leads
<1> QED BY <1>1, <1>2 DEF Toward, Leads

(* An insert appends its node. *)
LEMMA InsertKept ==
  ASSUME TypeInv, TypeInv', HashMutex, Clean, NEW t \in Table, ListPart(t), NEW p \in Procs, InsertPlan(p)
  PROVE  \E u \in Table : ListPart(u)'
<1>a. p \in Writers /\ Agent \in Procs /\ p # Agent /\ Writers \subseteq Procs
  BY AgentIn, HashProcs DEF Procs, InsertPlan
<1>1. UNCHANGED <<tab, arg, ret, agent>> /\ pc[p] = "plan" /\ Goto(p, "run")
      /\ script' = [script EXCEPT ![p] = InsertStores(arg[p])]
  BY DEF InsertPlan
<1>t. tab \in Table /\ script \in [Procs -> Seq(Store)] /\ script' \in [Procs -> Seq(Store)]
  BY DEF TypeInv, TypeOK
<1>2. tab = t /\ \A q \in Procs : Len(script[q]) = 0
  BY <1>1, AtRest DEF ListPart, Holds, Stamped, Running
<1>3. PICK n \in Node : n = arg[p]
  BY <1>a, <1>1 DEF ListPart, WriterInv, Fresh
<1>4. ~t.used[n] /\ n # None /\ n \in Cell
  BY <1>a, <1>1, <1>3, CellIn DEF ListPart, WriterInv, Fresh
<1>5. t.count \in Nat /\ (t.count # 0 => Linked(t, t.end)) /\ t.end \in Cell
  BY Ends DEF ListPart, Table
<1>6. t.count # 0 => t.end # n /\ t.end # None /\ t.end \in Node
  BY <1>4, <1>5, CellIn DEF Linked
<1>7. script'[p] = InsertStores(n) /\ \A q \in Procs : q # p => script'[q] = script[q]
  BY <1>1, <1>3, <1>t
<1>8. pc'[p] = "run" /\ \A q \in Procs : q # p => pc'[q] = pc[q]
  BY <1>1 DEF Goto, TypeInv, TypeOK
<1>b. PICK yes \in BOOLEAN : yes = TRUE
  OBVIOUS
<1> DEFINE U == [used |-> [t.used EXCEPT ![n] = yes],
                 pre |-> [t.pre EXCEPT ![n] = IF t.count = 0 THEN None ELSE t.end],
                 nxt |-> [c \in Cell |-> IF c = n THEN None
                                         ELSE IF t.count # 0 /\ c = t.end THEN n ELSE t.nxt[c]],
                 start |-> IF t.count = 0 THEN n ELSE t.start,
                 end |-> n, count |-> t.count + 1]
<1>9. U \in Table
  BY <1>4, <1>5, CellIn DEF Table
<1>10. PICK u \in Table : u = U
  BY <1>9
<1>11. /\ u.count = t.count + 1 /\ u.end = n /\ u.start = (IF t.count = 0 THEN n ELSE t.start)
       /\ u.used = [t.used EXCEPT ![n] = yes]
       /\ u.pre = [t.pre EXCEPT ![n] = IF t.count = 0 THEN None ELSE t.end]
       /\ \A c \in Cell : u.nxt[c] = IF c = n THEN None ELSE IF t.count # 0 /\ c = t.end THEN n ELSE t.nxt[c]
  BY <1>10
<1> HIDE DEF U
<1>12. /\ u.used[n] = yes /\ \A c \in Cell : c # n => u.used[c] = t.used[c]
       /\ u.pre[n] = (IF t.count = 0 THEN None ELSE t.end) /\ \A c \in Cell : c # n => u.pre[c] = t.pre[c]
       /\ u.nxt[n] = None
  BY <1>4, <1>11 DEF Table
<1>13. \A c \in Node : u.used[c] <=> t.used[c] \/ c = n
  BY <1>b, <1>12, CellIn
<1>14. Whole(u)
  <2>1. Whole(t)
    BY DEF ListPart
  <2>2. \A c \in Node : c # n => u.pre[c] = t.pre[c]
    BY <1>12, CellIn
  <2>3. \A c \in Node : c # n => u.nxt[c] = IF t.count # 0 /\ c = t.end THEN n ELSE t.nxt[c]
    BY <1>11, CellIn
  <2>4. u.nxt[n] = None /\ u.pre[n] = IF t.count = 0 THEN None ELSE t.end
    BY <1>12
  <2>5. ~t.used[n]
    BY <1>4
  <2>6. u.count = t.count + 1 /\ u.end = n /\ u.start = IF t.count = 0 THEN n ELSE t.start
    BY <1>11
  <2> QED BY <1>13, <2>1, <2>2, <2>3, <2>4, <2>5, <2>6, Appended
<1>15. EndInv(u)
  <2>1. None \in Cell /\ None # n /\ (t.count # 0 => None # t.end)
    BY <1>4, <1>6, CellIn
  <2>2. EndInv(t)
    BY DEF ListPart
  <2> QED BY <1>11, <1>12, <2>1, <2>2 DEF EndInv
<1>16. Toward(u)' /\ StoreInv'
  <2>0. \A q \in Procs : q # p => Len(script'[q]) = 0
    BY <1>2, <1>7
  <2>1. CASE t.count # 0
    <3>1. PICK sc : sc = InsertStores(n) /\ script'[p] = sc
      BY <1>7
    <3>2. Len(sc) = 6 /\ sc[1] = Set("count", t.count + 1) /\ sc[2] = Put("nxt", t.end, n)
          /\ sc[3] = Put("pre", n, t.end) /\ sc[4] = Put("nxt", n, None) /\ sc[5] = Set("end", n)
          /\ sc[6] = Put("used", n, yes)
      <4>1. PICK a, b, c, d, e, f : /\ a = Set("count", t.count + 1) /\ b = Put("nxt", t.end, n)
                                    /\ c = Put("pre", n, t.end) /\ d = Put("nxt", n, None)
                                    /\ e = Set("end", n) /\ f = Put("used", n, yes)
        OBVIOUS
      <4>2. sc = <<a, b, c, d, e>> \o <<f>>
        BY <1>b, <1>2, <2>1, <3>1, <4>1 DEF InsertStores
      <4>3. Len(sc) = 6 /\ sc[1] = a /\ sc[2] = b /\ sc[3] = c /\ sc[4] = d /\ sc[5] = e /\ sc[6] = f
        BY <4>2, Joined
      <4> QED BY <4>1, <4>3
    <3>3. \A j \in 1 .. 6 : j = 1 \/ j = 2 \/ j = 3 \/ j = 4 \/ j = 5 \/ j = 6
      OBVIOUS
    <3>4. \A j \in 1 .. 6 : Meets(u, sc[j])
      <4>1. Meets(u, sc[1])
        BY <1>11, <3>2 DEF Meets, Set
      <4>2. Meets(u, sc[2])
        <5>1. u.nxt[t.end] = n
          BY <1>5, <1>6, <1>11, <2>1
        <5> QED BY <3>2, <5>1 DEF Meets, Put
      <4>3. Meets(u, sc[3])
        BY <1>12, <2>1, <3>2 DEF Meets, Put
      <4>4. Meets(u, sc[4])
        BY <1>12, <3>2 DEF Meets, Put
      <4>5. Meets(u, sc[5])
        BY <1>11, <3>2 DEF Meets, Set
      <4>6. Meets(u, sc[6])
        BY <1>12, <3>2 DEF Meets, Put
      <4> QED BY <3>3, <4>1, <4>2, <4>3, <4>4, <4>5, <4>6
    <3>5. StoreInv'
      <4>1. \A j \in 1 .. 6 : /\ sc[j].f \in {"used", "pre", "nxt"} => sc[j].i # None
                              /\ sc[j].f = "used" => sc[j].i = n
        <5>1. /\ sc[1].f = "count" /\ sc[2].f = "nxt" /\ sc[2].i # None /\ sc[3].f = "pre" /\ sc[3].i # None
              /\ sc[4].f = "nxt" /\ sc[4].i # None /\ sc[5].f = "end" /\ sc[6].f = "used" /\ sc[6].i = n
          BY <1>4, <1>6, <2>1, <3>2 DEF Set, Put
        <5> QED BY <1>4, <3>3, <5>1
      <4>2. \A q \in Procs : q # p => \A j \in 1 .. Len(script'[q]) : FALSE
        BY <2>0
      <4> QED BY <1>a, <1>1, <1>3, <3>1, <3>2, <4>1, <4>2 DEF StoreInv
    <3>6. /\ \E j \in 1 .. 6 : sc[j].f = "end" /\ sc[j].i = None
          /\ \E j \in 1 .. 6 : sc[j].f = "count" /\ sc[j].i = None
          /\ \E j \in 1 .. 6 : sc[j].f = "pre" /\ sc[j].i = n
          /\ \E j \in 1 .. 6 : sc[j].f = "nxt" /\ sc[j].i = n
          /\ \E j \in 1 .. 6 : sc[j].f = "nxt" /\ sc[j].i = t.end
          /\ \E j \in 1 .. 6 : sc[j].f = "used" /\ sc[j].i = n
      <4>1. 1 \in 1 .. 6 /\ 2 \in 1 .. 6 /\ 3 \in 1 .. 6 /\ 4 \in 1 .. 6 /\ 5 \in 1 .. 6 /\ 6 \in 1 .. 6
        OBVIOUS
      <4>2. sc[5].f = "end" /\ sc[5].i = None /\ sc[1].f = "count" /\ sc[1].i = None
            /\ sc[3].f = "pre" /\ sc[3].i = n /\ sc[4].f = "nxt" /\ sc[4].i = n
            /\ sc[2].f = "nxt" /\ sc[2].i = t.end /\ sc[6].f = "used" /\ sc[6].i = n
        BY <3>2 DEF Set, Put
      <4> QED BY <4>1, <4>2
    <3>7. tab'.start = u.start
      BY <1>1, <1>2, <1>11, <2>1
    <3>8. \A c \in Cell : tab'.nxt[c] = u.nxt[c] \/ c = n \/ c = t.end
      BY <1>1, <1>2, <1>11
    <3>9. \A c \in Cell : c # n => tab'.pre[c] = u.pre[c] /\ tab'.used[c] = u.used[c]
      BY <1>1, <1>2, <1>12
    <3>10. Toward(u)'
      <4>1. \A c \in Cell : tab'.nxt[c] = u.nxt[c] \/ \E j \in 1 .. 6 : sc[j].f = "nxt" /\ sc[j].i = c
        BY <3>6, <3>8
      <4>2. \A c \in Cell : tab'.pre[c] = u.pre[c] \/ \E j \in 1 .. 6 : sc[j].f = "pre" /\ sc[j].i = c
        BY <3>6, <3>9
      <4>3. \A c \in Cell : tab'.used[c] = u.used[c] \/ \E j \in 1 .. 6 : sc[j].f = "used" /\ sc[j].i = c
        BY <3>6, <3>9
      <4>4. script'[p] = sc /\ Len(sc) = 6
        BY <3>1, <3>2
      <4>5. tab'.start = u.start \/ \E j \in 1 .. 6 : sc[j].f = "start" /\ sc[j].i = None
        BY <3>6, <3>7
      <4>6. tab'.end = u.end \/ \E j \in 1 .. 6 : sc[j].f = "end" /\ sc[j].i = None
        BY <3>6
      <4>7. tab'.count = u.count \/ \E j \in 1 .. 6 : sc[j].f = "count" /\ sc[j].i = None
        BY <3>6
      <4>8. Leads(tab', u, sc, 6)
        BY <3>4, <4>1, <4>2, <4>3, <4>5, <4>6, <4>7 DEF Leads
      <4>9. Leads(tab', u, script'[p], 6) /\ Len(script'[p]) = 6
        BY <4>4, <4>8
      <4> QED BY <2>0, <4>9, Begins
    <3> QED BY <3>5, <3>10
  <2>2. CASE t.count = 0
    <3>1. PICK sc : sc = InsertStores(n) /\ script'[p] = sc
      BY <1>7
    <3>2. Len(sc) = 6 /\ sc[1] = Set("count", 1) /\ sc[2] = Put("pre", n, None)
          /\ sc[3] = Put("nxt", n, None) /\ sc[4] = Set("end", n) /\ sc[5] = Set("start", n)
          /\ sc[6] = Put("used", n, yes)
      <4>1. PICK a, b, c, d, e, f : /\ a = Set("count", 1) /\ b = Put("pre", n, None)
                                    /\ c = Put("nxt", n, None) /\ d = Set("end", n)
                                    /\ e = Set("start", n) /\ f = Put("used", n, yes)
        OBVIOUS
      <4>2. sc = <<a, b, c, d, e>> \o <<f>>
        BY <1>b, <1>2, <2>2, <3>1, <4>1 DEF InsertStores
      <4>3. Len(sc) = 6 /\ sc[1] = a /\ sc[2] = b /\ sc[3] = c /\ sc[4] = d /\ sc[5] = e /\ sc[6] = f
        BY <4>2, Joined
      <4> QED BY <4>1, <4>3
    <3>3. \A j \in 1 .. 6 : j = 1 \/ j = 2 \/ j = 3 \/ j = 4 \/ j = 5 \/ j = 6
      OBVIOUS
    <3>4. \A j \in 1 .. 6 : Meets(u, sc[j])
      <4>1. Meets(u, sc[1])
        <5>1. u.count = 1
          BY <1>11, <2>2
        <5> QED BY <3>2, <5>1 DEF Meets, Set
      <4>2. Meets(u, sc[2])
        BY <1>12, <2>2, <3>2 DEF Meets, Put
      <4>3. Meets(u, sc[3])
        BY <1>12, <3>2 DEF Meets, Put
      <4>4. Meets(u, sc[4])
        BY <1>11, <3>2 DEF Meets, Set
      <4>5. Meets(u, sc[5])
        BY <1>11, <2>2, <3>2 DEF Meets, Set
      <4>6. Meets(u, sc[6])
        BY <1>12, <3>2 DEF Meets, Put
      <4> QED BY <3>3, <4>1, <4>2, <4>3, <4>4, <4>5, <4>6
    <3>5. StoreInv'
      <4>1. \A j \in 1 .. 6 : /\ sc[j].f \in {"used", "pre", "nxt"} => sc[j].i # None
                              /\ sc[j].f = "used" => sc[j].i = n
        <5>1. /\ sc[1].f = "count" /\ sc[2].f = "pre" /\ sc[2].i # None /\ sc[3].f = "nxt" /\ sc[3].i # None
              /\ sc[4].f = "end" /\ sc[5].f = "start" /\ sc[6].f = "used" /\ sc[6].i = n
          BY <1>4, <3>2 DEF Set, Put
        <5> QED BY <1>4, <3>3, <5>1
      <4>2. \A q \in Procs : q # p => \A j \in 1 .. Len(script'[q]) : FALSE
        BY <2>0
      <4> QED BY <1>a, <1>1, <1>3, <3>1, <3>2, <4>1, <4>2 DEF StoreInv
    <3>6. /\ \E j \in 1 .. 6 : sc[j].f = "end" /\ sc[j].i = None
          /\ \E j \in 1 .. 6 : sc[j].f = "start" /\ sc[j].i = None
          /\ \E j \in 1 .. 6 : sc[j].f = "count" /\ sc[j].i = None
          /\ \E j \in 1 .. 6 : sc[j].f = "pre" /\ sc[j].i = n
          /\ \E j \in 1 .. 6 : sc[j].f = "nxt" /\ sc[j].i = n
          /\ \E j \in 1 .. 6 : sc[j].f = "used" /\ sc[j].i = n
      <4>1. 1 \in 1 .. 6 /\ 2 \in 1 .. 6 /\ 3 \in 1 .. 6 /\ 4 \in 1 .. 6 /\ 5 \in 1 .. 6 /\ 6 \in 1 .. 6
        OBVIOUS
      <4>2. sc[4].f = "end" /\ sc[4].i = None /\ sc[1].f = "count" /\ sc[1].i = None
            /\ sc[2].f = "pre" /\ sc[2].i = n /\ sc[3].f = "nxt" /\ sc[3].i = n
            /\ sc[5].f = "start" /\ sc[5].i = None /\ sc[6].f = "used" /\ sc[6].i = n
        BY <3>2 DEF Set, Put
      <4> QED BY <4>1, <4>2
    <3>8. \A c \in Cell : tab'.nxt[c] = u.nxt[c] \/ c = n
      BY <1>1, <1>2, <1>11, <2>2
    <3>9. \A c \in Cell : c # n => tab'.pre[c] = u.pre[c] /\ tab'.used[c] = u.used[c]
      BY <1>1, <1>2, <1>12
    <3>10. Toward(u)'
      <4>1. \A c \in Cell : tab'.nxt[c] = u.nxt[c] \/ \E j \in 1 .. 6 : sc[j].f = "nxt" /\ sc[j].i = c
        BY <3>6, <3>8
      <4>2. \A c \in Cell : tab'.pre[c] = u.pre[c] \/ \E j \in 1 .. 6 : sc[j].f = "pre" /\ sc[j].i = c
        BY <3>6, <3>9
      <4>3. \A c \in Cell : tab'.used[c] = u.used[c] \/ \E j \in 1 .. 6 : sc[j].f = "used" /\ sc[j].i = c
        BY <3>6, <3>9
      <4>4. script'[p] = sc /\ Len(sc) = 6
        BY <3>1, <3>2
      <4>5. tab'.start = u.start \/ \E j \in 1 .. 6 : sc[j].f = "start" /\ sc[j].i = None
        BY <3>6
      <4>6. tab'.end = u.end \/ \E j \in 1 .. 6 : sc[j].f = "end" /\ sc[j].i = None
        BY <3>6
      <4>7. tab'.count = u.count \/ \E j \in 1 .. 6 : sc[j].f = "count" /\ sc[j].i = None
        BY <3>6
      <4>8. Leads(tab', u, sc, 6)
        BY <3>4, <4>1, <4>2, <4>3, <4>5, <4>6, <4>7 DEF Leads
      <4>9. Leads(tab', u, script'[p], 6) /\ Len(script'[p]) = 6
        BY <4>4, <4>8
      <4> QED BY <2>0, <4>9, Begins
    <3> QED BY <3>5, <3>10
  <2> QED BY <2>1, <2>2
<1>17. \A c : Linked(t, c) => Linked(u, c)
  BY <1>13 DEF Linked
<1>18. ReadInv(u)'
  <2>1. (tab.start = None \/ Linked(t, tab.start)) /\ (tab.end = None \/ Linked(t, tab.end))
    BY <1>a, <1>2 DEF ListPart, ReadInv
  <2>2. (tab'.start = None \/ Linked(u, tab'.start)) /\ (tab'.end = None \/ Linked(u, tab'.end))
    BY <1>1, <1>17, <2>1
  <2> QED BY <2>2 DEF ReadInv, Linked
<1>19. AgentInv(u)'
  <2>1. pc'[Agent] = pc[Agent] /\ arg' = arg /\ ret' = ret /\ rev' = rev /\ Active' = Active
    BY <1>a, <1>1, <1>8 DEF agent, Active
  <2>2. AgentInv(t)
    BY DEF ListPart
  <2>3. pc[Agent] \in Seeking => Linked(u, arg[Agent])
    BY <1>17, <2>2 DEF AgentInv
  <2>4. pc[Agent] \in InLoop => Active = None \/ Linked(u, Active)
    BY <1>17, <2>2 DEF AgentInv
  <2> QED BY <2>1, <2>2, <2>3, <2>4 DEF AgentInv, Linked
<1>20. WriterInv(u)'
  <2>1. \A q \in Writers : pc'[q] \in Fresh => arg'[q] \in Node /\ ~u.used[arg'[q]]
    <3> SUFFICES ASSUME NEW q \in Writers, pc'[q] \in Fresh PROVE arg[q] \in Node /\ ~u.used[arg[q]]
      BY <1>1
    <3>1. q # p
      BY <1>8 DEF Fresh
    <3>2. pc[q] \in Fresh /\ pc[q] # "idle"
      BY <1>a, <1>8, <3>1 DEF Fresh
    <3>3. arg[q] \in Node /\ ~t.used[arg[q]] /\ arg[q] # n
      BY <1>a, <1>1, <1>3, <3>1, <3>2 DEF ListPart, WriterInv
    <3> QED BY <1>13, <3>3
  <2>2. \A q \in Writers : pc'[q] # "idle" => pc[q] # "idle"
    BY <1>a, <1>1, <1>8
  <2>3. \A q, r \in Writers : q # r /\ pc'[q] # "idle" /\ pc'[r] # "idle" => arg'[q] # arg'[r]
    BY <1>1, <2>2 DEF ListPart, WriterInv
  <2> QED BY <2>1, <2>3 DEF WriterInv
<1>21. ListPart(u)'
  <2>1. Whole(u)' /\ EndInv(u)'
    BY <1>14, <1>15 DEF Whole, EndInv, IsList
  <2> QED BY <1>16, <1>18, <1>19, <1>20, <2>1 DEF ListPart
<1> QED BY <1>21

(* A removal takes its node out. *)
LEMMA RemoveKept ==
  ASSUME TypeInv, HashMutex, Clean, NEW t \in Table, ListPart(t), RemovePlan
  PROVE  \E u \in Table : ListPart(u)'
<1>a. Agent \in Procs /\ Agent \notin Writers /\ Writers \subseteq Procs
  BY AgentIn, HashProcs DEF Procs
<1>1. UNCHANGED <<arg, agent>> /\ pc[Agent] = "plan" /\ tab' = [tab EXCEPT !.count = Dec(tab.count)]
  BY DEF RemovePlan
<1>t. tab \in Table /\ script \in [Procs -> Seq(Store)] /\ arg \in [Procs -> Cell]
  BY DEF TypeInv, TypeOK
<1>2. tab = t /\ \A q \in Procs : Len(script[q]) = 0
  BY <1>a, <1>1, AtRest DEF ListPart, Holds, Stamped, Running
<1>3. PICK n \in Node : n = arg[Agent] /\ t.used[n]
  BY <1>1 DEF ListPart, AgentInv, Linked, Seeking
<1>4. PICK N \in Cell : N = t.nxt[n]
  BY CellIn DEF Table
<1>5. PICK P \in Cell : P = t.pre[n]
  BY CellIn DEF Table
<1>6. Whole(t)
  BY DEF ListPart
<1>7. /\ t.count \in Nat /\ t.count >= 1
      /\ N = None \/ (Linked(t, N) /\ N # n)
      /\ P = None \/ (Linked(t, P) /\ P # n)
      /\ t.count = 1 => N = None /\ P = None
      /\ t.count # 1 => N # None \/ P # None
  BY <1>3, <1>4, <1>5, <1>6, Links
<1>8. n # None /\ n \in Cell /\ None \in Cell
  BY CellIn
<1>9. Dec(t.count) = t.count - 1 /\ (Dec(t.count) = 0 <=> t.count = 1)
  BY <1>7 DEF Dec
<1>10. \A c \in Neighbours(n) : tab.used[c]
  BY <1>2, <1>4, <1>5, <1>7, <1>9 DEF Neighbours, Linked
<1>11. /\ Goto(Agent, "run") /\ UNCHANGED ret
       /\ script' = [script EXCEPT ![Agent] = UnlinkStores(n) \o
             << Put("used", n, FALSE), Put("nxt", n, None), Put("pre", n, None) >>]
  BY <1>3, <1>10 DEF RemovePlan
<1>12. pc'[Agent] = "run" /\ \A q \in Writers : pc'[q] = pc[q]
  BY <1>11, AgentGoes
<1>b. PICK no \in BOOLEAN : no = FALSE
  OBVIOUS
<1> DEFINE U == [used |-> [t.used EXCEPT ![n] = no],
                 pre |-> [c \in Cell |-> IF c = n THEN None
                                         ELSE IF N # None /\ c = N THEN P ELSE t.pre[c]],
                 nxt |-> [c \in Cell |-> IF c = n THEN None
                                         ELSE IF P # None /\ c = P THEN N ELSE t.nxt[c]],
                 start |-> IF P = None THEN N ELSE t.start,
                 end |-> IF N = None THEN P ELSE t.end, count |-> t.count - 1]
<1>13. U \in Table
  <2>1. /\ t.used \in [Cell -> BOOLEAN] /\ t.pre \in [Cell -> Cell] /\ t.nxt \in [Cell -> Cell]
        /\ t.start \in Cell /\ t.end \in Cell
    BY DEF Table
  <2>2. t.count - 1 \in Int
    BY <1>7
  <2> QED BY <1>8, <2>1, <2>2 DEF Table
<1>14. PICK u \in Table : u = U
  BY <1>13
<1>15. /\ u.count = t.count - 1
       /\ u.start = (IF P = None THEN N ELSE t.start) /\ u.end = (IF N = None THEN P ELSE t.end)
       /\ u.used = [t.used EXCEPT ![n] = no]
       /\ \A c \in Cell : u.pre[c] = IF c = n THEN None ELSE IF N # None /\ c = N THEN P ELSE t.pre[c]
       /\ \A c \in Cell : u.nxt[c] = IF c = n THEN None ELSE IF P # None /\ c = P THEN N ELSE t.nxt[c]
  BY <1>14
<1> HIDE DEF U
<1>16. u.used[n] = no /\ \A c \in Cell : c # n => u.used[c] = t.used[c]
  BY <1>8, <1>15 DEF Table
<1>17. \A c \in Node : u.used[c] <=> t.used[c] /\ c # n
  BY <1>b, <1>16, CellIn
<1>18. Whole(u)
  <2>1. \A c \in Node : c # n => u.pre[c] = IF c = t.nxt[n] THEN t.pre[n] ELSE t.pre[c]
    BY <1>4, <1>5, <1>15, CellIn
  <2>2. \A c \in Node : c # n => u.nxt[c] = IF c = t.pre[n] THEN t.nxt[n] ELSE t.nxt[c]
    BY <1>4, <1>5, <1>15, CellIn
  <2>3. u.count = t.count - 1 /\ u.start = (IF t.pre[n] = None THEN t.nxt[n] ELSE t.start)
        /\ u.end = (IF t.nxt[n] = None THEN t.pre[n] ELSE t.end)
    BY <1>4, <1>5, <1>15
  <2> QED BY <1>3, <1>6, <1>17, <2>1, <2>2, <2>3, Removed
<1>19. EndInv(u)
  <2>1. EndInv(t)
    BY DEF ListPart
  <2> QED BY <1>8, <1>15, <1>16, <2>1 DEF EndInv
<1>20. PICK sc : /\ script'[Agent] = sc
                 /\ sc = UnlinkStores(n) \o << Put("used", n, no), Put("nxt", n, None), Put("pre", n, None) >>
  BY <1>a, <1>b, <1>t, <1>11
<1>21. /\ tab'.count = t.count - 1 /\ tab'.start = t.start /\ tab'.end = t.end
       /\ tab'.pre = t.pre /\ tab'.nxt = t.nxt /\ tab'.used = t.used
  BY <1>1, <1>2, <1>9 DEF Table
(* What the two stores that unlink do. *)
<1>22. PICK x, y : /\ UnlinkStores(n) = <<x, y>> /\ Meets(u, x) /\ Meets(u, y)
                   /\ x.f # "used" /\ y.f # "used"
                   /\ x.f \in {"pre", "nxt"} => x.i # None
                   /\ y.f \in {"pre", "nxt"} => y.i # None
                   /\ P = None => (x.f = "start" /\ x.i = None) \/ (y.f = "start" /\ y.i = None)
                   /\ N = None => (x.f = "end" /\ x.i = None) \/ (y.f = "end" /\ y.i = None)
                   /\ P # None => (x.f = "nxt" /\ x.i = P) \/ (y.f = "nxt" /\ y.i = P)
                   /\ N # None => (x.f = "pre" /\ x.i = N) \/ (y.f = "pre" /\ y.i = N)
  <2>1. CASE t.count = 1
    <3>1. UnlinkStores(n) = << Set("start", None), Set("end", None) >>
      BY <1>2, <1>9, <2>1 DEF UnlinkStores
    <3>2. PICK x, y : x = Set("start", None) /\ y = Set("end", None)
      OBVIOUS
    <3>3. x.f = "start" /\ x.i = None /\ x.v = None /\ y.f = "end" /\ y.i = None /\ y.v = None
      BY <3>2 DEF Set
    <3>4. Meets(u, x) /\ Meets(u, y)
      BY <1>7, <1>15, <2>1, <3>3 DEF Meets
    <3>5. P = None /\ N = None /\ UnlinkStores(n) = <<x, y>>
      BY <1>7, <2>1, <3>1, <3>2
    <3> QED BY <3>3, <3>4, <3>5
  <2>2. CASE t.count # 1 /\ N = None
    <3>0. P # None /\ P # n
      BY <1>7, <2>2
    <3>1. UnlinkStores(n) = << Put("nxt", P, None), Set("end", P) >>
      BY <1>2, <1>4, <1>5, <1>9, <2>2 DEF UnlinkStores
    <3>2. PICK x, y : x = Put("nxt", P, None) /\ y = Set("end", P)
      OBVIOUS
    <3>3. x.f = "nxt" /\ x.i = P /\ x.v = None /\ y.f = "end" /\ y.i = None /\ y.v = P
      BY <3>2 DEF Set, Put
    <3>4. Meets(u, x) /\ Meets(u, y)
      BY <1>15, <2>2, <3>0, <3>3 DEF Meets
    <3>5. UnlinkStores(n) = <<x, y>>
      BY <3>1, <3>2
    <3> QED BY <2>2, <3>0, <3>3, <3>4, <3>5
  <2>3. CASE t.count # 1 /\ N # None /\ P = None
    <3>0. N # n
      BY <1>7, <2>3
    <3>1. UnlinkStores(n) = << Put("pre", N, None), Set("start", N) >>
      BY <1>2, <1>4, <1>5, <1>9, <2>3 DEF UnlinkStores
    <3>2. PICK x, y : x = Put("pre", N, None) /\ y = Set("start", N)
      OBVIOUS
    <3>3. x.f = "pre" /\ x.i = N /\ x.v = None /\ y.f = "start" /\ y.i = None /\ y.v = N
      BY <3>2 DEF Set, Put
    <3>4. Meets(u, x) /\ Meets(u, y)
      BY <1>15, <2>3, <3>0, <3>3 DEF Meets
    <3>5. UnlinkStores(n) = <<x, y>>
      BY <3>1, <3>2
    <3> QED BY <2>3, <3>3, <3>4, <3>5
  <2>4. CASE t.count # 1 /\ N # None /\ P # None
    <3>0. N # n /\ P # n
      BY <1>7, <2>4
    <3>1. UnlinkStores(n) = << Put("nxt", P, N), Put("pre", N, P) >>
      BY <1>2, <1>4, <1>5, <1>9, <2>4 DEF UnlinkStores
    <3>2. PICK x, y : x = Put("nxt", P, N) /\ y = Put("pre", N, P)
      OBVIOUS
    <3>3. x.f = "nxt" /\ x.i = P /\ x.v = N /\ y.f = "pre" /\ y.i = N /\ y.v = P
      BY <3>2 DEF Put
    <3>4. Meets(u, x) /\ Meets(u, y)
      BY <1>15, <2>4, <3>0, <3>3 DEF Meets
    <3>5. UnlinkStores(n) = <<x, y>>
      BY <3>1, <3>2
    <3> QED BY <2>4, <3>3, <3>4, <3>5
  <2> QED BY <2>1, <2>2, <2>3, <2>4
<1>23. PICK a, b, c : a = Put("used", n, no) /\ b = Put("nxt", n, None) /\ c = Put("pre", n, None)
  OBVIOUS
<1>24. Len(sc) = 5 /\ sc[1] = x /\ sc[2] = y /\ sc[3] = a /\ sc[4] = b /\ sc[5] = c
  <2>1. sc = <<x, y>> \o <<a, b, c>>
    BY <1>20, <1>22, <1>23
  <2> QED BY <2>1, Joined
<1>25. /\ a.f = "used" /\ a.i = n /\ a.v = no /\ b.f = "nxt" /\ b.i = n /\ b.v = None
       /\ c.f = "pre" /\ c.i = n /\ c.v = None
  BY <1>23 DEF Put
<1>26. \A j \in 1 .. 5 : j = 1 \/ j = 2 \/ j = 3 \/ j = 4 \/ j = 5
  OBVIOUS
<1>27. 1 \in 1 .. 5 /\ 2 \in 1 .. 5 /\ 3 \in 1 .. 5 /\ 4 \in 1 .. 5 /\ 5 \in 1 .. 5
  OBVIOUS
<1>28. \A q \in Procs : q # Agent => Len(script'[q]) = 0
  BY <1>2, <1>11, <1>t
<1>29. Toward(u)'
  <2>1. \A j \in 1 .. 5 : Meets(u, sc[j])
    <3>1. Meets(u, a)
      BY <1>16, <1>25 DEF Meets
    <3>2. Meets(u, b)
      BY <1>8, <1>15, <1>25 DEF Meets
    <3>3. Meets(u, c)
      BY <1>8, <1>15, <1>25 DEF Meets
    <3> QED BY <1>22, <1>24, <1>26, <3>1, <3>2, <3>3
  <2>2. tab'.start = u.start \/ \E j \in 1 .. 5 : sc[j].f = "start" /\ sc[j].i = None
    BY <1>15, <1>21, <1>22, <1>24, <1>27
  <2>3. tab'.end = u.end \/ \E j \in 1 .. 5 : sc[j].f = "end" /\ sc[j].i = None
    BY <1>15, <1>21, <1>22, <1>24, <1>27
  <2>4. tab'.count = u.count
    BY <1>15, <1>21
  <2>5. \A d \in Cell : tab'.pre[d] = u.pre[d] \/ \E j \in 1 .. 5 : sc[j].f = "pre" /\ sc[j].i = d
    <3> SUFFICES ASSUME NEW d \in Cell, tab'.pre[d] # u.pre[d]
                 PROVE  \E j \in 1 .. 5 : sc[j].f = "pre" /\ sc[j].i = d
      OBVIOUS
    <3>1. d = n \/ (N # None /\ d = N)
      BY <1>15, <1>21
    <3>2. CASE d = n
      BY <1>24, <1>25, <1>27, <3>2
    <3>3. CASE N # None /\ d = N
      BY <1>22, <1>24, <1>27, <3>3
    <3> QED BY <3>1, <3>2, <3>3
  <2>6. \A d \in Cell : tab'.nxt[d] = u.nxt[d] \/ \E j \in 1 .. 5 : sc[j].f = "nxt" /\ sc[j].i = d
    <3> SUFFICES ASSUME NEW d \in Cell, tab'.nxt[d] # u.nxt[d]
                 PROVE  \E j \in 1 .. 5 : sc[j].f = "nxt" /\ sc[j].i = d
      OBVIOUS
    <3>1. d = n \/ (P # None /\ d = P)
      BY <1>15, <1>21
    <3>2. CASE d = n
      BY <1>24, <1>25, <1>27, <3>2
    <3>3. CASE P # None /\ d = P
      BY <1>22, <1>24, <1>27, <3>3
    <3> QED BY <3>1, <3>2, <3>3
  <2>7. \A d \in Cell : tab'.used[d] = u.used[d] \/ \E j \in 1 .. 5 : sc[j].f = "used" /\ sc[j].i = d
    <3>1. \E j \in 1 .. 5 : sc[j].f = "used" /\ sc[j].i = n
      BY <1>24, <1>25, <1>27
    <3> QED BY <1>16, <1>21, <3>1
  <2>8. Leads(tab', u, sc, 5)
    BY <2>1, <2>2, <2>3, <2>4, <2>5, <2>6, <2>7 DEF Leads
  <2>9. Leads(tab', u, script'[Agent], 5) /\ Len(script'[Agent]) = 5
    BY <1>20, <1>24, <2>8
  <2> QED BY <1>a, <1>28, <2>9, Begins
<1>30. StoreInv'
  <2>1. \A j \in 1 .. 5 : /\ sc[j].f \in {"used", "pre", "nxt"} => sc[j].i # None
                          /\ sc[j].f = "used" => sc[j].v = no
    BY <1>8, <1>22, <1>24, <1>25, <1>26
  <2>2. \A q \in Procs : q # Agent => \A j \in 1 .. Len(script'[q]) : FALSE
    BY <1>28
  <2>3. script'[Agent] = sc /\ Len(sc) = 5
    BY <1>20, <1>24
  <2> QED BY <1>b, <2>1, <2>2, <2>3 DEF StoreInv
<1>31. ReadInv(u)'
  BY <1>20, <1>24 DEF ReadInv
<1>32. AgentInv(u)'
  <2>1. arg' = arg /\ ret' = ret /\ rev' = rev /\ Active' = Active
    BY <1>1, <1>11 DEF agent, Active
  <2>2. (Active = None \/ Linked(t, Active)) /\ Active # n
    BY <1>1, <1>3 DEF ListPart, AgentInv, InLoop, Seeking
  <2>3. Active = None \/ Linked(u, Active)
    BY <1>17, <2>2 DEF Linked
  <2> QED BY <1>12, <2>1, <2>3 DEF AgentInv, Linked, Seeking, Resetting
<1>33. WriterInv(u)'
  <2>1. \A q \in Writers : pc'[q] = pc[q] /\ arg'[q] = arg[q]
    BY <1>1, <1>12
  <2>2. \A d \in Node : ~t.used[d] => ~u.used[d]
    BY <1>17
  <2> QED BY <2>1, <2>2 DEF ListPart, WriterInv
<1>34. ListPart(u)'
  <2>1. Whole(u)' /\ EndInv(u)'
    BY <1>18, <1>19 DEF Whole, EndInv, IsList
  <2> QED BY <1>29, <1>30, <1>31, <1>32, <1>33, <2>1 DEF ListPart
<1> QED BY <1>34

(* A reset that leaves no used node behind empties the list. *)
LEMMA ResetKept ==
  ASSUME TypeInv, TypeInv', HashMutex, Clean, Clean', NEW t \in Table, ListPart(t), ResetMem
  PROVE  \E u \in Table : ListPart(u)'
<1>a. Agent \in Procs /\ Agent \notin Writers /\ Writers \subseteq Procs
  BY AgentIn, HashProcs DEF Procs
<1>t. tab \in Table /\ tab' \in Table /\ script \in [Procs -> Seq(Store)]
  BY DEF TypeInv, TypeOK
<1>1. UNCHANGED <<arg, ret, agent>> /\ pc[Agent] = "r_mem" /\ Goto(Agent, "r_run")
  BY DEF ResetMem
<1>2. tab = t /\ \A q \in Procs : Len(script[q]) = 0
  BY <1>a, <1>1, AtRest DEF ListPart, Holds, Stamped, Running
<1>3. script' = [script EXCEPT ![Agent] = << Set("start", None), Set("end", None), Set("count", 0) >>]
  BY DEF ResetMem
<1>4. pc'[Agent] = "r_run" /\ \A q \in Writers : pc'[q] = pc[q]
  BY <1>1, AgentGoes
<1>5. \A n \in Node : n >= ResetCount => ~t.used[n]
  BY <1>2 DEF ResetMem, Clean
<1>6. EndInv(t)
  BY DEF ListPart
<1>7. tab' = [tab EXCEPT !.used = [c \in Cell |-> IF c < ResetCount THEN FALSE ELSE tab.used[c]],
                         !.pre = [c \in Cell |-> IF c < ResetCount THEN 0 ELSE tab.pre[c]],
                         !.nxt = [c \in Cell |-> IF c < ResetCount THEN 0 ELSE tab.nxt[c]]]
  BY DEF ResetMem
<1>8. /\ tab'.used = [c \in Cell |-> IF c < ResetCount THEN FALSE ELSE tab.used[c]]
      /\ tab'.pre = [c \in Cell |-> IF c < ResetCount THEN 0 ELSE tab.pre[c]]
      /\ tab'.nxt = [c \in Cell |-> IF c < ResetCount THEN 0 ELSE tab.nxt[c]]
  BY <1>t, <1>7 DEF Table
<1>9. None \in Cell /\ ~(None < ResetCount) /\ \A c \in Cell : c # None => c \in Node
  BY HashSizes DEF Cell, None, Node
<1>10. \A c \in Cell : ~tab'.used[c]
  <2> SUFFICES ASSUME NEW c \in Cell PROVE ~tab'.used[c]
    OBVIOUS
  <2>1. CASE c < ResetCount
    BY <1>8, <2>1
  <2>2. CASE ~(c < ResetCount)
    <3>1. tab'.used[c] = t.used[c]
      BY <1>2, <1>8, <2>2
    <3>2. c # None => c \in Node /\ c >= ResetCount
      BY <1>9, <2>2, HashSizes DEF Node
    <3> QED BY <1>5, <1>6, <3>1, <3>2 DEF EndInv
  <2> QED BY <2>1, <2>2
<1>11. tab'.nxt[None] = 0 /\ tab'.pre[None] = 0
  BY <1>2, <1>6, <1>8, <1>9 DEF EndInv
<1> DEFINE U == [used |-> tab'.used, pre |-> tab'.pre, nxt |-> tab'.nxt,
                 start |-> None, end |-> None, count |-> 0]
<1>12. U \in Table
  BY <1>t, <1>9 DEF Table
<1>13. PICK u \in Table : u = U
  BY <1>12
<1>14. /\ u.used = tab'.used /\ u.pre = tab'.pre /\ u.nxt = tab'.nxt
       /\ u.start = None /\ u.end = None /\ u.count = 0
  BY <1>13
<1> HIDE DEF U
<1>15. \A c \in Node : ~u.used[c]
  BY <1>10, <1>14, CellIn
<1>16. Whole(u)
  BY <1>14, <1>15, Emptied
<1>17. EndInv(u)
  BY <1>9, <1>10, <1>11, <1>14 DEF EndInv
<1>18. PICK a, b, c : a = Set("start", None) /\ b = Set("end", None) /\ c = Set("count", 0)
  OBVIOUS
<1>19. /\ a.f = "start" /\ a.i = None /\ a.v = None /\ b.f = "end" /\ b.i = None /\ b.v = None
       /\ c.f = "count" /\ c.i = None /\ c.v = 0
  BY <1>18 DEF Set
<1>20. PICK sc : script'[Agent] = sc /\ sc = <<a, b, c>>
  BY <1>a, <1>t, <1>3, <1>18
<1>21. Len(sc) = 3 /\ sc[1] = a /\ sc[2] = b /\ sc[3] = c
  BY <1>20
<1>22. \A j \in 1 .. 3 : j = 1 \/ j = 2 \/ j = 3
  OBVIOUS
<1>23. 1 \in 1 .. 3 /\ 2 \in 1 .. 3 /\ 3 \in 1 .. 3
  OBVIOUS
<1>24. \A q \in Procs : q # Agent => Len(script'[q]) = 0
  BY <1>2, <1>3, <1>t
<1>25. Toward(u)'
  <2>1. \A j \in 1 .. 3 : Meets(u, sc[j])
    <3>1. Meets(u, a) /\ Meets(u, b) /\ Meets(u, c)
      BY <1>14, <1>19 DEF Meets
    <3> QED BY <1>21, <1>22, <3>1
  <2>2. \E j \in 1 .. 3 : sc[j].f = "start" /\ sc[j].i = None
    BY <1>19, <1>21, <1>23
  <2>3. \E j \in 1 .. 3 : sc[j].f = "end" /\ sc[j].i = None
    BY <1>19, <1>21, <1>23
  <2>4. \E j \in 1 .. 3 : sc[j].f = "count" /\ sc[j].i = None
    BY <1>19, <1>21, <1>23
  <2>5. Leads(tab', u, sc, 3)
    BY <1>14, <2>1, <2>2, <2>3, <2>4 DEF Leads
  <2>6. Leads(tab', u, script'[Agent], 3) /\ Len(script'[Agent]) = 3
    BY <1>20, <1>21, <2>5
  <2> QED BY <1>a, <1>24, <2>6, Begins
<1>26. StoreInv'
  <2>1. \A j \in 1 .. 3 : sc[j].f \notin {"used", "pre", "nxt"}
    BY <1>19, <1>21, <1>22
  <2>2. \A q \in Procs : q # Agent => \A j \in 1 .. Len(script'[q]) : FALSE
    BY <1>24
  <2>3. script'[Agent] = sc /\ Len(sc) = 3
    BY <1>20, <1>21
  <2> QED BY <2>1, <2>2, <2>3 DEF StoreInv
<1>27. ReadInv(u)'
  BY <1>20, <1>21 DEF ReadInv
<1>28. AgentInv(u)'
  <2>1. ret[Agent] \in {"d_null", "d_end", "d_acc"}
    BY <1>1 DEF ListPart, AgentInv, Resetting
  <2> QED BY <1>1, <1>4, <2>1 DEF AgentInv, Seeking, InLoop
<1>29. WriterInv(u)'
  <2>1. \A q \in Writers : pc'[q] = pc[q] /\ arg'[q] = arg[q]
    BY <1>1, <1>4
  <2> QED BY <1>15, <2>1 DEF ListPart, WriterInv
<1>30. ListPart(u)'
  <2>1. Whole(u)' /\ EndInv(u)'
    BY <1>16, <1>17 DEF Whole, EndInv, IsList
  <2> QED BY <1>25, <1>26, <1>27, <1>28, <1>29, <2>1 DEF ListPart
<1> QED BY <1>30

(* A death outside the calls under the flag leaves the list alone. *)
LEMMA CrashKept ==
  ASSUME TypeInv, Clean, Clean', NEW t \in Table, ListPart(t), NEW p \in Procs, Crash(p)
  PROVE  ListPart(t)'
<1>1. ~Holds(p)
  BY DEF Crash, Clean
<1>2. /\ tab' = tab /\ Goto(p, "idle") /\ arg' = [arg EXCEPT ![p] = None]
      /\ ret' = [ret EXCEPT ![p] = "idle"] /\ script' = [script EXCEPT ![p] = <<>>]
      /\ IF p = Agent THEN AgentFresh ELSE UNCHANGED agent
  BY DEF Crash
<1>t. script \in [Procs -> Seq(Store)] /\ arg \in [Procs -> Cell]
  BY DEF TypeInv, TypeOK
<1>3. Len(script[p]) = 0 /\ pc[p] \notin Running
  BY <1>1 DEF Holds, Stamped, Running, TypeInv, LabelInv
<1>4. script[p] = <<>>
  BY <1>t, <1>3
<1>5. script' = script
  BY <1>t, <1>2, <1>4
<1>6. \A q \in Procs : q # p => arg'[q] = arg[q]
  BY <1>t, <1>2
<1>7. CASE p = Agent
  <2>1. pc'[Agent] = "idle" /\ \A q \in Writers : pc'[q] = pc[q]
    BY <1>2, <1>7, AgentGoes
  <2>2. rev' = FALSE
    BY <1>2, <1>7 DEF AgentFresh
  <2>3. AgentInv(t)'
    BY <2>1, <2>2 DEF AgentInv, Seeking, InLoop, Resetting
  <2>4. \A q \in Writers : arg'[q] = arg[q]
    BY <1>6, <1>7, HashProcs DEF Procs
  <2> QED BY <1>2, <1>5, <2>1, <2>3, <2>4, AgentMoved
<1>8. CASE p # Agent
  <2>1. p \in Writers
    BY <1>8 DEF Procs
  <2>2. AgentInv(t)'
    <3>1. pc'[Agent] = pc[Agent] /\ arg'[Agent] = arg[Agent] /\ ret'[Agent] = ret[Agent]
          /\ rev' = rev /\ Active' = Active
      BY <1>2, <1>8, AgentIn DEF TypeInv, TypeOK, Goto, agent, Active
    <3> QED BY <3>1 DEF ListPart, AgentInv, Linked
  <2>3. pc'[p] = "idle" /\ \A q \in Procs : q # p => pc'[q] = pc[q]
    BY <1>2 DEF TypeInv, TypeOK, Goto
  <2>w. Writers \subseteq Procs
    BY DEF Procs
  <2>4. WriterInv(t)'
    <3>1. \A q \in Writers : pc'[q] # "idle" => pc'[q] = pc[q] /\ arg'[q] = arg[q]
      BY <1>6, <2>3, <2>w
    <3>2. \A q \in Writers : pc'[q] \in Fresh => pc'[q] = pc[q] /\ arg'[q] = arg[q]
      BY <3>1 DEF Fresh
    <3>3. \A q \in Writers : pc'[q] \in Fresh => arg'[q] \in Node /\ ~t.used[arg'[q]]
      BY <3>2 DEF ListPart, WriterInv
    <3>4. \A q, r \in Writers : q # r /\ pc'[q] # "idle" /\ pc'[r] # "idle" => arg'[q] # arg'[r]
      BY <3>1 DEF ListPart, WriterInv
    <3> QED BY <3>3, <3>4 DEF WriterInv
  <2>5. Toward(t)'
    BY <1>2, <1>5, TowardKept DEF ListPart
  <2>6. StoreInv'
    <3>1. \A j \in 1 .. Len(script[p]) : FALSE
      BY <1>3
    <3> QED BY <1>5, <1>6, <3>1 DEF ListPart, StoreInv
  <2>7. ReadInv(t)'
    BY <1>2, <1>5 DEF ListPart, ReadInv
  <2>8. Whole(t)' /\ EndInv(t)'
    BY DEF ListPart, Whole, EndInv, IsList
  <2> QED BY <2>2, <2>4, <2>5, <2>6, <2>7, <2>8 DEF ListPart
<1> QED BY <1>7, <1>8

(* A writer chooses a node that is not in use, and that no other writer has chosen. *)
LEMMA ChooseKept ==
  ASSUME TypeInv, Clean, Clean', NEW t \in Table, ListPart(t), NEW p \in Writers, NEW n \in Node,
         InsertStart(p, n)
  PROVE  ListPart(t)'
<1>1. /\ pc[p] = "idle" /\ ~tab.used[n] /\ Goto(p, "cas") /\ arg' = [arg EXCEPT ![p] = n]
      /\ UNCHANGED <<tab, script, ret, agent>>
  BY DEF InsertStart
<1>2. \A q \in Writers : q # p /\ pc[q] # "idle" => arg[q] # n
  BY DEF InsertStart, Clean
<1>a. p \in Procs /\ p # Agent /\ Agent \in Procs /\ Writers \subseteq Procs
  BY AgentIn, HashProcs DEF Procs
<1>t. arg \in [Procs -> Cell] /\ tab \in Table
  BY DEF TypeInv, TypeOK
<1>3. arg'[p] = n /\ \A q \in Procs : q # p => arg'[q] = arg[q]
  BY <1>a, <1>t, <1>1
<1>4. pc'[p] = "cas" /\ \A q \in Procs : q # p => pc'[q] = pc[q]
  BY <1>a, <1>1 DEF TypeInv, TypeOK, Goto
<1>5. ~t.used[n]
  <2>1. n \in Cell
    BY CellIn
  <2>2. SUFFICES ASSUME Due("used", n) PROVE ~t.used[n]
    BY <1>1, <2>1 DEF ListPart, Toward
  <2>3. PICK q \in Procs : \E j \in 1 .. Len(script[q]) : script[q][j].f = "used" /\ script[q][j].i = n
    BY <2>2 DEF Due
  <2>4. PICK j \in 1 .. Len(script[q]) : script[q][j].f = "used" /\ script[q][j].i = n
    BY <2>3
  <2>5. CASE q = Agent
    <3>1. script[q][j].v = FALSE
      BY <2>4, <2>5 DEF ListPart, StoreInv
    <3>2. t.used[n] = script[q][j].v
      BY <2>4 DEF ListPart, Toward, Meets
    <3> QED BY <3>1, <3>2
  <2>6. CASE q # Agent
    <3>1. arg[q] = n
      BY <2>4, <2>6 DEF ListPart, StoreInv
    <3>2. Len(script[q]) # 0
      OBVIOUS
    <3>3. pc[q] \in Running /\ q \in Writers
      BY <2>6, <3>2 DEF TypeInv, LabelInv, Procs
    <3> QED BY <1>1, <1>2, <3>1, <3>3 DEF Running
  <2> QED BY <2>5, <2>6
<1>6. WriterInv(t)'
  <2>1. \A q \in Writers : pc'[q] \in Fresh => arg'[q] \in Node /\ ~t.used[arg'[q]]
    <3> SUFFICES ASSUME NEW q \in Writers, pc'[q] \in Fresh PROVE arg'[q] \in Node /\ ~t.used[arg'[q]]
      OBVIOUS
    <3>1. CASE q = p
      BY <1>3, <1>5, <3>1
    <3>2. CASE q # p
      BY <1>a, <1>3, <1>4, <3>2 DEF ListPart, WriterInv
    <3> QED BY <3>1, <3>2
  <2>2. \A q, r \in Writers : q # r /\ pc'[q] # "idle" /\ pc'[r] # "idle" => arg'[q] # arg'[r]
    <3> SUFFICES ASSUME NEW q \in Writers, NEW r \in Writers, q # r, pc'[q] # "idle", pc'[r] # "idle"
                 PROVE  arg'[q] # arg'[r]
      OBVIOUS
    <3>1. CASE q = p
      BY <1>a, <1>2, <1>3, <1>4, <3>1
    <3>2. CASE r = p
      BY <1>a, <1>2, <1>3, <1>4, <3>2
    <3>3. CASE q # p /\ r # p
      BY <1>a, <1>3, <1>4, <3>3 DEF ListPart, WriterInv
    <3> QED BY <3>1, <3>2, <3>3
  <2> QED BY <2>1, <2>2 DEF WriterInv
<1>7. Toward(t)'
  BY <1>1, TowardKept DEF ListPart
<1>8. StoreInv'
  <2>1. Len(script[p]) = 0
    BY <1>a, <1>1 DEF TypeInv, LabelInv, Running
  <2>2. \A j \in 1 .. Len(script[p]) : FALSE
    BY <2>1
  <2> QED BY <1>1, <1>3, <2>2 DEF ListPart, StoreInv
<1>9. ReadInv(t)'
  BY <1>1 DEF ListPart, ReadInv
<1>10. AgentInv(t)'
  BY <1>a, <1>1, <1>3, <1>4 DEF ListPart, AgentInv, agent, Active
<1>11. Whole(t)' /\ EndInv(t)'
  BY DEF ListPart, Whole, EndInv, IsList
<1> QED BY <1>6, <1>7, <1>8, <1>9, <1>10, <1>11 DEF ListPart

LEMMA ListInit == Init => ListInv
<1> SUFFICES ASSUME Init PROVE \E t \in Table : ListPart(t)
  BY DEF ListInv
<1>1. tab \in Table
  BY CellIn DEF Init, Table
<1>2. PICK t \in Table : t = tab
  BY <1>1
<1>3. /\ t.used = [c \in Cell |-> FALSE] /\ t.pre = [c \in Cell |-> 0] /\ t.nxt = [c \in Cell |-> 0]
      /\ t.start = None /\ t.end = None /\ t.count = 0
  BY <1>2 DEF Init
<1>4. \A c \in Cell : ~t.used[c]
  BY <1>3
<1>5. Whole(t)
  BY <1>3, <1>4, CellIn, Emptied
<1>6. EndInv(t)
  BY <1>3, <1>4, CellIn DEF EndInv
<1>7. \A p \in Procs : pc[p] = "idle" /\ Len(script[p]) = 0
  BY DEF Init
<1>8. \A p \in Procs : \A j \in 1 .. Len(script[p]) : FALSE
  BY <1>7
<1>9. Toward(t)
  BY <1>2, <1>8 DEF Toward
<1>10. StoreInv
  BY <1>8 DEF StoreInv
<1>11. ReadInv(t)
  BY <1>2, <1>3 DEF ReadInv
<1>12. AgentInv(t)
  BY <1>7, AgentIn DEF AgentInv, Seeking, InLoop, Resetting, Init
<1>13. WriterInv(t)
  BY <1>7 DEF WriterInv, Fresh, Procs
<1> QED BY <1>5, <1>6, <1>9, <1>10, <1>11, <1>12, <1>13 DEF ListPart

LEMMA ListNext ==
  TypeInv /\ TypeInv' /\ HashMutex /\ HashMutex' /\ ListInv /\ [Next]_vars => ListInv'
<1> SUFFICES ASSUME TypeInv, TypeInv', HashMutex, HashMutex', ListInv, [Next]_vars, Clean'
             PROVE  \E t \in Table : ListPart(t)'
  BY DEF ListInv
<1>1. Clean
  BY TaintGrows DEF Clean
<1>2. PICK t \in Table : ListPart(t)
  BY <1>1 DEF ListInv
<1>3. CASE Tick \/ UNCHANGED vars
  <2>1. UNCHANGED <<tab, script, pc, arg, ret, agent>>
    BY <1>3 DEF Tick, vars, locals
  <2>2. AgentInv(t)'
    BY <1>2, <2>1 DEF ListPart, AgentInv, agent, Active
  <2>3. \A q \in Writers : pc'[q] = pc[q] /\ arg'[q] = arg[q]
    BY <2>1
  <2>4. ListPart(t)'
    BY <1>2, <2>1, <2>2, <2>3, AgentMoved
  <2> QED BY <2>4
<1>4. CASE \/ DrainStart \/ DrainFirst \/ DrainNull \/ DrainFirstRevers \/ DrainNode \/ DrainClear
           \/ DrainCur \/ DrainEnd \/ DrainAccess
           \/ CheckFailed \/ ResetCas \/ ResetGiveUp \/ ResetStamp \/ ResetRelease
  BY <1>2, <1>4, DrainKept
<1>5. CASE AdvanceCursor
  BY <1>1, <1>2, <1>5, CursorKept
<1>6. CASE RemovePlan
  BY <1>1, <1>2, <1>6, RemoveKept
<1>7. CASE ResetMem
  BY <1>1, <1>2, <1>7, ResetKept
<1>8. ASSUME NEW p \in Procs, Cas(p) \/ Stamp(p) \/ Busy(p) \/ Steal(p) \/ Release(p) \/ ClearStamp(p)
      PROVE  \E u \in Table : ListPart(u)'
  BY <1>2, <1>8, CallKept
<1>9. ASSUME NEW p \in Procs, Run(p) PROVE \E u \in Table : ListPart(u)'
  BY <1>2, <1>9, RunKept
<1>10. ASSUME NEW p \in Procs, InsertPlan(p) PROVE \E u \in Table : ListPart(u)'
  BY <1>1, <1>2, <1>10, InsertKept
<1>11. ASSUME NEW p \in Procs, Crash(p) PROVE \E u \in Table : ListPart(u)'
  BY <1>1, <1>2, <1>11, CrashKept
<1>12. ASSUME NEW p \in Writers, NEW n \in Node, InsertStart(p, n) PROVE \E u \in Table : ListPart(u)'
  BY <1>1, <1>2, <1>12, ChooseKept
<1> QED BY <1>3, <1>4, <1>5, <1>6, <1>7, <1>8, <1>9, <1>10, <1>11, <1>12 DEF Next, Drain, Reset, Call

LEMMA ListFollows == TypeInv /\ ListInv => ListConsistent
<1> SUFFICES ASSUME TypeInv, Clean, ListInv
             PROVE  /\ (\A p \in Procs : pc[p] \notin {"run", "r_run"}) => Consistent
                    /\ ~tab.used[None] /\ tab.nxt[None] = 0 /\ tab.pre[None] = 0
  BY DEF ListConsistent
<1>1. PICK t \in Table : ListPart(t)
  BY DEF ListInv
<1>2. ASSUME \A p \in Procs : pc[p] \notin {"run", "r_run"} PROVE Consistent
  <2>1. \A p \in Procs : Len(script[p]) = 0
    BY <1>2 DEF TypeInv, LabelInv, Running
  <2>2. tab = t
    BY <1>1, <2>1, Arrived DEF ListPart, TypeInv, TypeOK
  <2> QED BY <1>1, <2>2 DEF ListPart, Whole, Consistent
<1>3. \A f \in {"used", "pre", "nxt"} : ~Due(f, None)
  BY <1>1 DEF ListPart, StoreInv, Due
<1>4. tab.used[None] = t.used[None] /\ tab.nxt[None] = t.nxt[None] /\ tab.pre[None] = t.pre[None]
  BY <1>1, <1>3, CellIn DEF ListPart, Toward
<1> QED BY <1>1, <1>2, <1>4 DEF ListPart, EndInv

(* However the inserts of the writers, the drains and removals of the agent, the resets and the *)
(* deaths outside the calls interleave, the list of mt_shared_hash.c is whole between the calls  *)
(* under bHashUseFlag, for any number of writers and nodes, and nobody stores behind the last    *)
(* node.                                                                                         *)
THEOREM ListCorrect == Spec => []ListConsistent
<1>1. Spec => []TypeInv /\ []HashMutex
  BY TypeInvCorrect, HashMutexCorrect
<1>2. Init => ListInv
  BY ListInit
<1>3. TypeInv /\ TypeInv' /\ HashMutex /\ HashMutex' /\ ListInv /\ [Next]_vars => ListInv'
  BY ListNext
<1>4. TypeInv /\ ListInv => ListConsistent
  BY ListFollows
<1> QED BY <1>1, <1>2, <1>3, <1>4, PTL DEF Spec

====
