--------------------------- MODULE VmemPool_proofs ---------------------------
(***************************************************************************)
(* Proofs about VmemPool, for any number of processes, nodes and contents. *)
(***************************************************************************)
EXTENDS VmemPool, TLAPS, SequenceTheorems, FiniteSetTheorems, FunctionTheorems

(* The labels, for the steps that only look at the control state. *)
LEMMA LabelFacts ==
  /\ Unstamped \subseteq Labels
  /\ Stamped \subseteq Labels
  /\ {"idle", "s_cas", "s_tmo", "f_cas", "f_tmo", "f_mark", "c_look", "c_cas", "wild"}
       \subseteq Labels
BY DEF Labels

(* Push and Pop as operations on the sequence that stands for the free list. *)
LEMMA AppendFacts ==
  ASSUME NEW S, NEW s \in Seq(S), NEW e \in S
  PROVE  /\ Append(s, e) \in Seq(S)
         /\ Len(Append(s, e)) = Len(s) + 1
         /\ \A i \in 1 .. Len(s) : Append(s, e)[i] = s[i]
         /\ Append(s, e)[Len(s) + 1] = e
BY AppendProperties

LEMMA FrontFacts ==
  ASSUME NEW S, NEW s \in Seq(S), Len(s) # 0
  PROVE  /\ SubSeq(s, 1, Len(s) - 1) \in Seq(S)
         /\ Len(SubSeq(s, 1, Len(s) - 1)) = Len(s) - 1
         /\ \A i \in 1 .. Len(s) - 1 : SubSeq(s, 1, Len(s) - 1)[i] = s[i]
<1>. DEFINE m == Len(s) - 1
            f == SubSeq(s, 1, m)
<1>1. /\ m \in Nat
      /\ \A i \in 1 .. m : s[i] \in S
  BY LenProperties
<1>. HIDE DEF m
<1>2. /\ f \in Seq(S)
      /\ Len(f) = IF 1 <= m THEN m - 1 + 1 ELSE 0
      /\ \A i \in 1 .. m - 1 + 1 : f[i] = s[1 + i - 1]
  BY <1>1, SubSeqProperties
<1>. HIDE DEF f
<1>3. /\ f \in Seq(S)
      /\ Len(f) = m
      /\ \A i \in 1 .. m : f[i] = s[i]
  BY <1>1, <1>2
<1>. QED BY <1>3 DEF f, m

LEMMA TailFacts ==
  ASSUME NEW S, NEW s \in Seq(S), Len(s) # 0
  PROVE  /\ Tail(s) \in Seq(S)
         /\ Len(Tail(s)) = Len(s) - 1
         /\ \A i \in 1 .. Len(s) - 1 : Tail(s)[i] = s[i + 1]
BY HeadTailProperties, EmptySeq

LEMMA EmptyFacts ==
  ASSUME NEW S, NEW s \in Seq(S)
  PROVE  /\ Len(s) \in Nat
         /\ s = <<>> <=> Len(s) = 0
         /\ \A i \in 1 .. Len(s) : s[i] \in S
BY LenProperties, EmptySeq

-----------------------------------------------------------------------------
TypeInv == TypeOK /\ LocalInv

LEMMA TypeInit == Init => TypeInv
<1>. SUFFICES ASSUME Init PROVE TypeInv
  OBVIOUS
<1>1. stk \in Seq(Node)
  <2>1. stk \in [1 .. NodeCount - 1 -> Node] /\ NodeCount - 1 \in Nat
    BY VmemSizes DEF Init, Node
  <2>. QED BY <2>1, SeqDef
<1>2. ShmOK
  BY VmemSizes DEF Init, ShmOK, Node, Mark
<1>3. LocalsOK
  BY VmemSizes, LabelFacts, EmptySeq DEF Init, LocalsOK
<1>4. HistoryOK
  BY <1>1, EmptySeq DEF Init, HistoryOK, NoEntry
<1>5. LocalInv
  BY DEF Init, LocalInv, Freeing, Checking, Saving
<1>. QED BY <1>2, <1>3, <1>4, <1>5 DEF TypeInv, TypeOK

(* A jump. *)
LEMMA GotoType ==
  ASSUME LocalsOK, NEW p \in Procs, NEW l \in Labels, Goto(p, l)
  PROVE  /\ pc' \in [Procs -> Labels]
         /\ pc'[p] = l
         /\ \A q \in Procs \ {p} : pc'[q] = pc[q]
BY DEF LocalsOK, Goto

(* Leaving a call keeps the types of the locals. *)
LEMMA ReturnType ==
  ASSUME LocalsOK, LocalInv, NEW p \in Procs, Return(p)
  PROVE  LocalsOK' /\ LocalInv'
<1>1. LocalsOK'
  BY VmemSizes, LabelFacts, EmptySeq DEF Return, Goto, LocalsOK
<1>2. LocalInv'
  BY DEF Return, Goto, LocalsOK, LocalInv, Freeing, Checking, Saving
<1>. QED BY <1>1, <1>2

(* What the labels say of the locals survives a jump of p that leaves the locals alone and *)
(* does not ask for more than p had.                                                      *)
LEMMA JumpLocal ==
  ASSUME LocalsOK, LocalInv, NEW p \in Procs, NEW l \in Labels, Goto(p, l),
         UNCHANGED <<cur, need, scanned, val, chain>>,
         l \in Freeing \cup Checking => cur[p] \in Node,
         l \in Saving => Len(chain[p]) >= 1,
         l \in {"s_cas", "s_tmo", "s_stamp", "s_check", "s_scan", "s_get", "s_count",
                "s_copy", "s_last"} => need[p] >= 1,
         l = "s_copy" => need[p] > 1
  PROVE  LocalsOK' /\ LocalInv'
<1>1. pc' \in [Procs -> Labels] /\ pc'[p] = l /\ \A q \in Procs \ {p} : pc'[q] = pc[q]
  BY GotoType
<1>2. LocalsOK'
  BY <1>1 DEF LocalsOK
<1>3. LocalInv'
  BY <1>1 DEF LocalInv
<1>. QED BY <1>2, <1>3

(* The same for a step that also changes need or chain of p: the others are not concerned. *)
LEMMA StepLocal ==
  ASSUME LocalInv, NEW p \in Procs,
         \A q \in Procs \ {p} : /\ pc'[q] = pc[q]
                                /\ cur'[q] = cur[q]
                                /\ need'[q] = need[q]
                                /\ chain'[q] = chain[q],
         pc'[p] \in Freeing \cup Checking => cur'[p] \in Node,
         pc'[p] \in Saving => Len(chain'[p]) >= 1,
         pc'[p] \in {"s_cas", "s_tmo", "s_stamp", "s_check", "s_scan", "s_get", "s_count",
                     "s_copy", "s_last"} => need'[p] >= 1,
         pc'[p] = "s_copy" => need'[p] > 1
  PROVE  LocalInv'
BY DEF LocalInv

(* Taking a node and putting one back keep the types of what they touch. *)
LEMMA PopType ==
  ASSUME TypeOK, NEW p \in Procs, Pop(p)
  PROVE  /\ free' \in 1 .. Mark
         /\ chain' \in [Procs -> Seq(Node)]
         /\ Len(chain'[p]) >= 1
         /\ \A q \in Procs \ {p} : chain'[q] = chain[q]
         /\ stk' \in Seq(Node)
         /\ own' \in [Node -> Node \cup Procs \cup {Free, Nobody}]
<1>1. free' \in 1 .. Mark
  BY DEF Pop, TypeOK, ShmOK
<1>2. /\ Append(chain[p], free) \in Seq(Node)
      /\ Len(Append(chain[p], free)) >= 1
  BY AppendFacts, EmptyFacts DEF Pop, TypeOK, LocalsOK
<1>3. /\ chain' \in [Procs -> Seq(Node)]
      /\ Len(chain'[p]) >= 1
      /\ \A q \in Procs \ {p} : chain'[q] = chain[q]
  BY <1>2 DEF Pop, TypeOK, LocalsOK
<1>4. stk' \in Seq(Node)
  BY FrontFacts, EmptyFacts DEF Pop, TypeOK, HistoryOK
<1>5. own' \in [Node -> Node \cup Procs \cup {Free, Nobody}]
  BY DEF Pop, TypeOK, HistoryOK
<1>. QED BY <1>1, <1>3, <1>4, <1>5

LEMMA PushType ==
  ASSUME TypeOK, NEW n \in Node, Push(n)
  PROVE  /\ next' \in [Node -> 1 .. Mark]
         /\ free' \in 1 .. Mark
         /\ used' \in Nat /\ used' <= 65535
         /\ stk' \in Seq(Node)
         /\ own' \in [Node -> Node \cup Procs \cup {Free, Nobody}]
<1>1. next' \in [Node -> 1 .. Mark] /\ free' \in 1 .. Mark
  BY VmemSizes DEF Push, Node, Mark, TypeOK, ShmOK
<1>2. used' \in Nat /\ used' <= 65535
  BY DEF Push, W16, TypeOK, ShmOK
<1>3. stk' \in Seq(Node)
  BY AppendFacts DEF Push, TypeOK, HistoryOK
<1>4. own' \in [Node -> Node \cup Procs \cup {Free, Nobody}]
  BY DEF Push, TypeOK, HistoryOK
<1>. QED BY <1>1, <1>2, <1>3, <1>4

LEMMA ReownType ==
  ASSUME HistoryOK, NEW a, NEW b \in Node \cup Procs \cup {Free, Nobody}
  PROVE  Reown(a, b) \in [Node -> Node \cup Procs \cup {Free, Nobody}]
BY DEF HistoryOK, Reown

-----------------------------------------------------------------------------
(* The steps of the lock, for every call. *)
LEMMA CasType ==
  ASSUME TypeInv, NEW p \in Procs, NEW ok \in {"s_stamp", "f_stamp"},
         NEW fail \in {"s_tmo", "f_tmo"},
         CasGet(p, ok, fail), UNCHANGED cur,
         {ok, fail} \subseteq Freeing => cur[p] \in Node,
         {ok, fail} \subseteq {"s_stamp", "s_tmo"} => need[p] >= 1,
         {ok, fail} \subseteq Freeing \/ {ok, fail} \subseteq {"s_stamp", "s_tmo"}
  PROVE  TypeInv'
<1>1. ShmOK'
  BY DEF TypeInv, TypeOK, ShmOK, CasGet
<1>2. HistoryOK'
  BY DEF TypeInv, TypeOK, HistoryOK, CasGet, ghosts
<1>3. PICK l \in {ok, fail} : Goto(p, l)
  BY DEF CasGet
<1>4. l \in Labels
  BY <1>3 DEF Labels, Unstamped
<1>5. LocalsOK' /\ LocalInv'
  BY <1>3, <1>4, JumpLocal DEF TypeInv, TypeOK, CasGet, Freeing, Checking, Saving
<1>. QED BY <1>1, <1>2, <1>5 DEF TypeInv, TypeOK

LEMMA StampType ==
  ASSUME TypeInv, NEW p \in Procs, NEW to \in {"s_check", "f_node"}, Stamp(p, to),
         to = "f_node" => cur[p] \in Node,
         to = "s_check" => need[p] >= 1
  PROVE  TypeInv'
<1>1. ShmOK'
  BY VmemSizes DEF TypeInv, TypeOK, ShmOK, Stamp
<1>2. HistoryOK'
  BY DEF TypeInv, TypeOK, HistoryOK, Stamp, ghosts
<1>3. to \in Labels
  BY DEF Labels, Stamped
<1>4. LocalsOK' /\ LocalInv'
  BY <1>3, JumpLocal DEF TypeInv, TypeOK, Stamp, Freeing, Checking, Saving
<1>. QED BY <1>1, <1>2, <1>4 DEF TypeInv, TypeOK

LEMMA TakeOverType ==
  ASSUME HistoryOK, NEW p \in Procs, TakeOver(p)
  PROVE  taint' \in SUBSET Taints
BY DEF HistoryOK, TakeOver, Taints

-----------------------------------------------------------------------------
(* The steps of a save. *)
LEMMA SaveType ==
  ASSUME TypeInv, NEW p \in Procs, Save(p)
  PROVE  TypeInv'
<1>. USE DEF TypeInv, TypeOK
<1>1. CASE SaveCas(p)
  BY <1>1, CasType DEF SaveCas, LocalInv, Freeing
<1>2. CASE SaveTimeout(p)
  <2>1. UNCHANGED <<shm, live, stk, own>>
    BY <1>2 DEF SaveTimeout
  <2>2. CASE TakeOver(p) /\ Goto(p, "s_stamp") /\ UNCHANGED <<cur, need, scanned, val, chain>>
    <3>1. need[p] >= 1
      BY <1>2 DEF SaveTimeout, LocalInv
    <3>2. LocalsOK' /\ LocalInv'
      BY <2>2, <3>1, LabelFacts, JumpLocal DEF Freeing, Checking, Saving, Unstamped
    <3>3. HistoryOK'
      BY <2>1, <2>2, TakeOverType DEF HistoryOK
    <3>. QED BY <2>1, <3>2, <3>3 DEF ShmOK, shm
  <2>3. CASE Return(p) /\ UNCHANGED taint
    <3>1. LocalsOK' /\ LocalInv'
      BY <2>3, ReturnType
    <3>. QED BY <2>1, <2>3, <3>1 DEF ShmOK, HistoryOK, shm
  <2>. QED BY <1>2, <2>2, <2>3 DEF SaveTimeout
<1>3. CASE SaveStamp(p)
  BY <1>3, StampType DEF SaveStamp, LocalInv
<1>4. CASE SaveCheck(p)
  <2>1. UNCHANGED <<next, data, free, used, age, scan, live, ghosts>>
    BY <1>4 DEF SaveCheck
  <2>2. HistoryOK'
    BY <2>1 DEF HistoryOK, ghosts
  <2>3. CASE flag' = 0 /\ Return(p)
    <3>1. LocalsOK' /\ LocalInv'
      BY <2>3, ReturnType
    <3>. QED BY <2>1, <2>2, <2>3, <3>1 DEF ShmOK
  <2>4. CASE Goto(p, "s_scan") /\ UNCHANGED <<flag, cur, need, scanned, val, chain>>
    <3>1. need[p] >= 1
      BY <1>4 DEF SaveCheck, LocalInv
    <3>2. LocalsOK' /\ LocalInv'
      BY <2>4, <3>1, LabelFacts, JumpLocal DEF Freeing, Checking, Saving, Stamped
    <3>. QED BY <2>1, <2>2, <2>4, <3>2 DEF ShmOK
  <2>. QED BY <1>4, <2>3, <2>4 DEF SaveCheck
<1>5. CASE SaveScan(p)
  <2>1. /\ next' \in [Node -> 1 .. Mark]
        /\ free' \in 1 .. Mark
        /\ used' \in Nat /\ used' <= 65535
        /\ stk' \in Seq(Node)
        /\ own' \in [Node -> Node \cup Procs \cup {Free, Nobody}]
    <3>1. CASE scan \in Node /\ Push(scan)
      BY <3>1, PushType
    <3>2. CASE UNCHANGED <<next, free, used, stk, own>>
      BY <3>2 DEF ShmOK, HistoryOK
    <3>. QED BY <1>5, <3>1, <3>2 DEF SaveScan
  <2>2. scan' \in 0 .. NodeCount - 1
    BY <1>5, VmemSizes DEF SaveScan, NextScan, ShmOK
  <2>3. /\ UNCHANGED <<data, flag, age, cur, need, val, chain, live, taint>>
        /\ pc[p] = "s_scan"
    BY <1>5 DEF SaveScan
  <2>4. ShmOK'
    BY <2>1, <2>2, <2>3 DEF ShmOK
  <2>5. HistoryOK'
    BY <2>1, <2>3 DEF HistoryOK
  <2>6. /\ pc' \in [Procs -> Labels]
        /\ pc'[p] \in {"s_scan", "s_get"}
        /\ \A q \in Procs \ {p} : pc'[q] = pc[q]
    BY <1>5, <2>3, LabelFacts, GotoType DEF SaveScan, LocalsOK, Stamped
  <2>7. scanned' \in [Procs -> 0 .. ScanBatch]
    <3>1. scanned[p] \in 0 .. ScanBatch
      BY DEF LocalsOK
    <3>2. PICK k \in 0 .. ScanBatch : scanned' = [scanned EXCEPT ![p] = k]
      BY <1>5, <3>1, VmemSizes DEF SaveScan
    <3>. QED BY <3>2 DEF LocalsOK
  <2>8. LocalsOK'
    BY <2>3, <2>6, <2>7 DEF LocalsOK
  <2>9. LocalInv'
    BY <2>3, <2>6, StepLocal DEF LocalInv, Freeing, Checking, Saving
  <2>. QED BY <2>4, <2>5, <2>8, <2>9
<1>6. ASSUME PopOutside(p), UNCHANGED <<flag, age, scan>> PROVE TypeInv'
  <2>1. ShmOK'
    BY <1>6 DEF PopOutside, ShmOK
  <2>2. HistoryOK'
    BY <1>6 DEF PopOutside, HistoryOK, ghosts
  <2>3. LocalsOK' /\ LocalInv'
    BY <1>6, LabelFacts, JumpLocal DEF PopOutside, Freeing, Checking, Saving
  <2>. QED BY <2>1, <2>2, <2>3
<1>7. CASE SaveGet(p)
  <2>1. CASE PopOutside(p)
    BY <1>6, <1>7, <2>1 DEF SaveGet
  <2>2. CASE /\ Pop(p) /\ Goto(p, "s_count")
             /\ UNCHANGED <<next, data, used, cur, need, scanned, val, live, taint>>
    <3>1. UNCHANGED <<flag, age, scan>> /\ pc[p] = "s_get"
      BY <1>7 DEF SaveGet
    <3>2. /\ free' \in 1 .. Mark
          /\ chain' \in [Procs -> Seq(Node)]
          /\ Len(chain'[p]) >= 1
          /\ \A q \in Procs \ {p} : chain'[q] = chain[q]
          /\ stk' \in Seq(Node)
          /\ own' \in [Node -> Node \cup Procs \cup {Free, Nobody}]
      BY <2>2, PopType
    <3>3. /\ pc' \in [Procs -> Labels]
          /\ pc'[p] = "s_count"
          /\ \A q \in Procs \ {p} : pc'[q] = pc[q]
      BY <2>2, LabelFacts, GotoType DEF Stamped
    <3>4. ShmOK' /\ HistoryOK'
      BY <2>2, <3>1, <3>2 DEF ShmOK, HistoryOK
    <3>5. LocalsOK'
      BY <2>2, <3>2, <3>3 DEF LocalsOK
    <3>6. LocalInv'
      BY <2>2, <3>1, <3>2, <3>3, StepLocal DEF LocalInv, Freeing, Checking, Saving
    <3>. QED BY <3>4, <3>5, <3>6
  <2>. QED BY <1>7, <2>1, <2>2 DEF SaveGet
<1>8. CASE SaveCount(p)
  <2>1. /\ UNCHANGED <<next, data, free, flag, age, scan, cur, need, scanned, val, chain,
                       live, ghosts>>
        /\ pc[p] = "s_count"
        /\ used' = W16(used + need[p])
    BY <1>8 DEF SaveCount
  <2>2. used' \in Nat /\ used' <= 65535
    BY <2>1 DEF W16, ShmOK, LocalsOK
  <2>3. ShmOK' /\ HistoryOK'
    BY <2>1, <2>2 DEF ShmOK, HistoryOK, ghosts
  <2>4. PICK l \in {"s_copy", "s_last"} : Goto(p, l) /\ (l = "s_copy" => need[p] > 1)
    BY <1>8 DEF SaveCount
  <2>5. LocalsOK' /\ LocalInv'
    BY <2>1, <2>4, LabelFacts, JumpLocal DEF LocalInv, Freeing, Checking, Saving, Stamped
  <2>. QED BY <2>3, <2>5
<1>9. ASSUME pc[p] \in Saving
      PROVE  /\ Last(p) \in Node
             /\ Part(p) \in (Vals \cup {Empty}) \X Nat
  <2>1. Len(chain[p]) >= 1 /\ chain[p] \in Seq(Node)
    BY <1>9 DEF LocalInv, LocalsOK
  <2>2. Len(chain[p]) \in Nat /\ chain[p][Len(chain[p])] \in Node
    BY <2>1, EmptyFacts
  <2>. QED BY <2>2 DEF Last, Part, Piece, LocalsOK
<1>10. CASE SaveCopy(p)
  <2>1. CASE PopOutside(p)
    BY <1>6, <1>10, <2>1 DEF SaveCopy
  <2>2. CASE /\ Pop(p)
             /\ data' = [data EXCEPT ![Last(p)] = Part(p)]
             /\ next' = [next EXCEPT ![Last(p)] = free]
             /\ need' = [need EXCEPT ![p] = @ - 1]
             /\ Goto(p, IF need[p] > 2 THEN "s_copy" ELSE "s_last")
             /\ UNCHANGED <<used, cur, scanned, val, live, taint>>
    <3>0. UNCHANGED <<used, cur, scanned, val, live, taint>>
      BY <2>2
    <3>1. UNCHANGED <<flag, age, scan>> /\ pc[p] = "s_copy"
      BY <1>10 DEF SaveCopy
    <3>2. /\ free' \in 1 .. Mark
          /\ chain' \in [Procs -> Seq(Node)]
          /\ Len(chain'[p]) >= 1
          /\ \A q \in Procs \ {p} : chain'[q] = chain[q]
          /\ stk' \in Seq(Node)
          /\ own' \in [Node -> Node \cup Procs \cup {Free, Nobody}]
      BY <2>2, PopType
    <3>3. Last(p) \in Node /\ Part(p) \in (Vals \cup {Empty}) \X Nat
      BY <1>9, <3>1 DEF Saving
    <3>4. /\ data' \in [Node -> ((Vals \cup {Empty}) \X Nat) \cup {Empty}]
          /\ next' \in [Node -> 1 .. Mark]
      BY <2>2, <3>3 DEF ShmOK
    <3>5. ShmOK' /\ HistoryOK'
      <4>1. ShmOK'
        BY <3>0, <3>1, <3>2, <3>4 DEF ShmOK
      <4>2. HistoryOK'
        BY <3>0, <3>2 DEF HistoryOK
      <4>. QED BY <4>1, <4>2
    <3>6. need[p] \in 2 .. MaxNeed
      BY <3>1, VmemSizes DEF LocalInv, LocalsOK
    <3>7. /\ need' \in [Procs -> 0 .. MaxNeed]
          /\ need'[p] = need[p] - 1
          /\ \A q \in Procs \ {p} : need'[q] = need[q]
      BY <2>2, <3>6, VmemSizes DEF LocalsOK
    <3>8. PICK l \in {"s_copy", "s_last"} : Goto(p, l) /\ (l = "s_copy" => need[p] > 2)
      BY <2>2
    <3>9. /\ pc' \in [Procs -> Labels]
          /\ pc'[p] = l
          /\ \A q \in Procs \ {p} : pc'[q] = pc[q]
      BY <3>8, LabelFacts, GotoType DEF Stamped
    <3>10. LocalsOK'
      BY <3>0, <3>2, <3>7, <3>9 DEF LocalsOK
    <3>11. LocalInv'
      <4>1. /\ pc'[p] \notin Freeing \cup Checking
            /\ need'[p] >= 1
            /\ pc'[p] = "s_copy" => need'[p] > 1
        BY <3>6, <3>7, <3>8, <3>9 DEF Freeing, Checking
      <4>2. \A q \in Procs \ {p} : cur'[q] = cur[q]
        BY <2>2
      <4>. QED BY <3>2, <3>7, <3>9, <4>1, <4>2, StepLocal
    <3>. QED BY <3>5, <3>10, <3>11
  <2>. QED BY <1>10, <2>1, <2>2 DEF SaveCopy
<1>11. CASE SaveLast(p)
  <2>1. Last(p) \in Node /\ Part(p) \in (Vals \cup {Empty}) \X Nat
    BY <1>9, <1>11 DEF SaveLast, Saving
  <2>2. /\ data' \in [Node -> ((Vals \cup {Empty}) \X Nat) \cup {Empty}]
        /\ next' \in [Node -> 1 .. Mark]
    BY <1>11, <2>1, VmemSizes DEF SaveLast, ShmOK, Mark, End
  <2>3. ShmOK' /\ HistoryOK'
    BY <1>11, <2>2 DEF SaveLast, ShmOK, HistoryOK, ghosts
  <2>4. LocalsOK' /\ LocalInv'
    BY <1>11, LabelFacts, JumpLocal
    DEF SaveLast, LocalInv, Freeing, Checking, Saving, Stamped
  <2>. QED BY <2>3, <2>4
<1>12. CASE SaveRelease(p)
  <2>1. chain[p][1] \in Node
    BY <1>12, EmptyFacts DEF SaveRelease, LocalInv, Saving, LocalsOK
  <2>2. /\ live' \in [Node -> [seq : Seq(Node), val : Vals \cup {Empty}]]
        /\ own' \in [Node -> Node \cup Procs \cup {Free, Nobody}]
    BY <1>12, <2>1, ReownType DEF SaveRelease, HistoryOK, LocalsOK
  <2>3. ShmOK' /\ HistoryOK'
    BY <1>12, <2>2 DEF SaveRelease, ShmOK, HistoryOK
  <2>4. LocalsOK' /\ LocalInv'
    BY <1>12, ReturnType DEF SaveRelease
  <2>. QED BY <2>3, <2>4
<1>. QED
  BY <1>1, <1>2, <1>3, <1>4, <1>5, <1>7, <1>8, <1>10, <1>11, <1>12 DEF Save

-----------------------------------------------------------------------------
(* The steps of a free. *)
LEMMA NextToFreeType ==
  ASSUME TypeInv, NEW p \in Procs, NEW l \in {"f_rel", "idle"}, pc[p] \in Freeing,
         NextToFree(p, l), UNCHANGED <<need, scanned, val>>
  PROVE  LocalsOK' /\ LocalInv'
<1>. USE DEF TypeInv, TypeOK
<1>1. CASE next[cur[p]] \in Node
  <2>1. (IF chain[p] = <<>> THEN chain[p] ELSE Tail(chain[p])) \in Seq(Node)
    BY TailFacts, EmptyFacts DEF LocalsOK
  <2>2. /\ cur' = [cur EXCEPT ![p] = next[cur[p]]]
        /\ chain' = [chain EXCEPT ![p] = IF @ = <<>> THEN @ ELSE Tail(@)]
        /\ UNCHANGED pc
    BY <1>1 DEF NextToFree
  <2>3. chain' \in [Procs -> Seq(Node)] /\ \A q \in Procs \ {p} : chain'[q] = chain[q]
    BY <2>1, <2>2 DEF LocalsOK
  <2>4. /\ cur' \in [Procs -> 0 .. NodeCount - 1]
        /\ cur'[p] \in Node
        /\ \A q \in Procs \ {p} : cur'[q] = cur[q]
    BY <1>1, <2>2 DEF LocalsOK, Node
  <2>5. LocalsOK'
    BY <2>2, <2>3, <2>4 DEF LocalsOK
  <2>6. LocalInv'
    BY <2>2, <2>3, <2>4, StepLocal DEF Freeing, Saving
  <2>. QED BY <2>5, <2>6
<1>2. CASE next[cur[p]] \notin Node
  <2>1. /\ cur' = [cur EXCEPT ![p] = 0]
        /\ chain' = [chain EXCEPT ![p] = <<>>]
        /\ Goto(p, l)
    BY <1>2 DEF NextToFree
  <2>2. /\ chain' \in [Procs -> Seq(Node)]
        /\ cur' \in [Procs -> 0 .. NodeCount - 1]
        /\ \A q \in Procs \ {p} : chain'[q] = chain[q] /\ cur'[q] = cur[q]
    BY <2>1, EmptySeq, VmemSizes DEF LocalsOK
  <2>3. /\ pc' \in [Procs -> Labels]
        /\ pc'[p] = l
        /\ \A q \in Procs \ {p} : pc'[q] = pc[q]
    BY <2>1, LabelFacts, GotoType DEF Stamped
  <2>4. LocalsOK'
    BY <2>2, <2>3 DEF LocalsOK
  <2>5. LocalInv'
    BY <2>2, <2>3, StepLocal DEF Freeing, Checking, Saving
  <2>. QED BY <2>4, <2>5
<1>. QED BY <1>1, <1>2

LEMMA FreeType ==
  ASSUME TypeInv, NEW p \in Procs, FreeVmem(p)
  PROVE  TypeInv'
<1>. USE DEF TypeInv, TypeOK
<1>1. CASE FreeCas(p)
  BY <1>1, CasType DEF FreeCas, LocalInv, Freeing
<1>2. CASE FreeTimeout(p)
  <2>1. /\ UNCHANGED <<shm, cur, need, scanned, val, chain, live, stk, own>>
        /\ cur[p] \in Node
    BY <1>2 DEF FreeTimeout, LocalInv, Freeing
  <2>2. taint' \in SUBSET Taints
    BY <1>2, TakeOverType DEF FreeTimeout, HistoryOK
  <2>3. PICK l \in {"f_stamp", "f_mark"} : Goto(p, l)
    BY <1>2 DEF FreeTimeout
  <2>4. LocalsOK' /\ LocalInv'
    BY <2>1, <2>3, LabelFacts, JumpLocal DEF Freeing, Checking, Saving, Unstamped
  <2>. QED BY <2>1, <2>2, <2>4 DEF ShmOK, HistoryOK, shm
<1>3. CASE FreeStamp(p)
  BY <1>3, StampType DEF FreeStamp, LocalInv, Freeing
<1>4. CASE FreeNode(p)
  <2>1. cur[p] \in Node
    BY <1>4 DEF FreeNode, LocalInv, Freeing
  <2>2. data' \in [Node -> ((Vals \cup {Empty}) \X Nat) \cup {Empty}]
    BY <1>4, <2>1 DEF FreeNode, ShmOK
  <2>3. /\ next' \in [Node -> 1 .. Mark]
        /\ free' \in 1 .. Mark
        /\ used' \in Nat /\ used' <= 65535
        /\ stk' \in Seq(Node)
        /\ own' \in [Node -> Node \cup Procs \cup {Free, Nobody}]
    BY <1>4, <2>1, PushType DEF FreeNode
  <2>4. UNCHANGED <<flag, age, scan, need, scanned, val, live, taint>>
    BY <1>4 DEF FreeNode
  <2>5. ShmOK' /\ HistoryOK'
    BY <2>2, <2>3, <2>4 DEF ShmOK, HistoryOK
  <2>6. LocalsOK' /\ LocalInv'
    BY <1>4, <2>4, NextToFreeType DEF FreeNode, Freeing
  <2>. QED BY <2>5, <2>6
<1>5. CASE FreeMark(p)
  <2>1. cur[p] \in Node
    BY <1>5 DEF FreeMark, LocalInv, Freeing
  <2>2. data' \in [Node -> ((Vals \cup {Empty}) \X Nat) \cup {Empty}]
    BY <1>5, <2>1 DEF FreeMark, ShmOK
  <2>3. next' \in [Node -> 1 .. Mark]
    BY <1>5, <2>1, VmemSizes DEF FreeMark, ShmOK, Mark
  <2>4. own' \in [Node -> Node \cup Procs \cup {Free, Nobody}]
    BY <1>5, <2>1 DEF FreeMark, HistoryOK
  <2>5. UNCHANGED <<free, used, flag, age, scan, need, scanned, val, live, stk, taint>>
    BY <1>5 DEF FreeMark
  <2>6. ShmOK' /\ HistoryOK'
    BY <2>2, <2>3, <2>4, <2>5 DEF ShmOK, HistoryOK
  <2>7. LocalsOK' /\ LocalInv'
    BY <1>5, <2>5, NextToFreeType DEF FreeMark, Freeing
  <2>. QED BY <2>6, <2>7
<1>6. CASE FreeRelease(p)
  <2>1. LocalsOK' /\ LocalInv'
    BY <1>6, ReturnType DEF FreeRelease
  <2>2. ShmOK' /\ HistoryOK'
    BY <1>6 DEF FreeRelease, ShmOK, HistoryOK, ghosts
  <2>. QED BY <2>1, <2>2
<1>. QED BY <1>1, <1>2, <1>3, <1>4, <1>5, <1>6 DEF FreeVmem

-----------------------------------------------------------------------------
(* The steps of MtReport_CheckVmem. *)
LEMMA NextToCheckType ==
  ASSUME TypeInv, NEW p \in Procs, NextToCheck(p)
  PROVE  LocalsOK' /\ LocalInv'
<1>. USE DEF TypeInv, TypeOK
<1>1. CASE cur[p] + 1 < NodeCount
  <2>1. /\ Goto(p, "c_look")
        /\ cur' = [cur EXCEPT ![p] = cur[p] + 1]
        /\ UNCHANGED <<need, scanned, val, chain>>
    BY <1>1 DEF NextToCheck
  <2>2. cur[p] + 1 \in Node
    BY <1>1, VmemSizes DEF LocalsOK, Node
  <2>3. /\ cur' \in [Procs -> 0 .. NodeCount - 1]
        /\ cur'[p] \in Node
        /\ \A q \in Procs \ {p} : cur'[q] = cur[q]
    BY <2>1, <2>2 DEF LocalsOK, Node
  <2>4. /\ pc' \in [Procs -> Labels]
        /\ pc'[p] = "c_look"
        /\ \A q \in Procs \ {p} : pc'[q] = pc[q]
    BY <2>1, LabelFacts, GotoType
  <2>5. LocalsOK'
    BY <2>1, <2>3, <2>4 DEF LocalsOK
  <2>6. LocalInv'
    BY <2>1, <2>3, <2>4, StepLocal DEF Saving
  <2>. QED BY <2>5, <2>6
<1>2. CASE ~(cur[p] + 1 < NodeCount)
  BY <1>2, ReturnType DEF NextToCheck
<1>. QED BY <1>1, <1>2

LEMMA CheckType ==
  ASSUME TypeInv, NEW p \in Procs, CheckVmem(p)
  PROVE  TypeInv'
<1>. USE DEF TypeInv, TypeOK
<1>1. CASE CheckLook(p)
  <2>1. UNCHANGED <<shm, live, ghosts>> /\ cur[p] \in Node
    BY <1>1 DEF CheckLook, LocalInv, Checking
  <2>2. CASE Goto(p, "c_cas") /\ UNCHANGED <<cur, need, scanned, val, chain>>
    <3>1. LocalsOK' /\ LocalInv'
      BY <2>1, <2>2, LabelFacts, JumpLocal DEF Freeing, Checking, Saving
    <3>. QED BY <2>1, <3>1 DEF ShmOK, HistoryOK, shm, ghosts
  <2>3. CASE NextToCheck(p)
    <3>1. LocalsOK' /\ LocalInv'
      BY <2>3, NextToCheckType
    <3>. QED BY <2>1, <3>1 DEF ShmOK, HistoryOK, shm, ghosts
  <2>. QED BY <1>1, <2>2, <2>3 DEF CheckLook
<1>2. CASE CheckCas(p)
  <2>1. /\ flag' = 1
        /\ UNCHANGED <<next, data, free, used, age, scan, need, scanned, val, chain, live,
                       ghosts>>
        /\ cur[p] \in Node
    BY <1>2 DEF CheckCas, CasGet, LocalInv, Checking
  <2>2. ShmOK' /\ HistoryOK'
    BY <2>1 DEF ShmOK, HistoryOK, ghosts
  <2>3. PICK l \in {"c_link", "idle"} : Goto(p, l)
    BY <1>2 DEF CheckCas, CasGet
  <2>4. /\ cur' = [cur EXCEPT ![p] = IF flag = 0 THEN @ ELSE 0]
        /\ l = "c_link" => flag = 0
    BY <1>2, <2>3 DEF CheckCas, CasGet, Goto, LocalsOK
  <2>5. /\ cur' \in [Procs -> 0 .. NodeCount - 1]
        /\ l = "c_link" => cur'[p] \in Node
        /\ \A q \in Procs \ {p} : cur'[q] = cur[q]
    BY <2>1, <2>4, VmemSizes DEF LocalsOK
  <2>6. /\ pc' \in [Procs -> Labels]
        /\ pc'[p] = l
        /\ \A q \in Procs \ {p} : pc'[q] = pc[q]
    BY <2>3, LabelFacts, GotoType DEF Unstamped
  <2>7. LocalsOK'
    BY <2>1, <2>5, <2>6 DEF LocalsOK
  <2>8. LocalInv'
    BY <2>1, <2>5, <2>6, StepLocal DEF Freeing, Checking, Saving
  <2>. QED BY <2>2, <2>7, <2>8
<1>3. CASE CheckLink(p)
  <2>1. /\ UNCHANGED <<data, flag, age, scan, cur, need, scanned, val, chain, live>>
        /\ cur[p] \in Node
        /\ Push(cur[p])
        /\ Goto(p, "c_rel")
    BY <1>3 DEF CheckLink, LocalInv, Checking
  <2>2. taint' \in SUBSET Taints
    BY <1>3 DEF CheckLink, HistoryOK, Taints
  <2>3. /\ next' \in [Node -> 1 .. Mark]
        /\ free' \in 1 .. Mark
        /\ used' \in Nat /\ used' <= 65535
        /\ stk' \in Seq(Node)
        /\ own' \in [Node -> Node \cup Procs \cup {Free, Nobody}]
    BY <2>1, PushType
  <2>4. ShmOK' /\ HistoryOK'
    BY <2>1, <2>2, <2>3 DEF ShmOK, HistoryOK
  <2>5. LocalsOK' /\ LocalInv'
    BY <2>1, LabelFacts, JumpLocal DEF Freeing, Checking, Saving, Unstamped
  <2>. QED BY <2>4, <2>5
<1>4. CASE CheckRelease(p)
  <2>1. LocalsOK' /\ LocalInv'
    BY <1>4, NextToCheckType DEF CheckRelease
  <2>2. ShmOK' /\ HistoryOK'
    BY <1>4 DEF CheckRelease, ShmOK, HistoryOK, ghosts
  <2>. QED BY <2>1, <2>2
<1>. QED BY <1>1, <1>2, <1>3, <1>4 DEF CheckVmem

-----------------------------------------------------------------------------
(* The beginning of a call, the clock and a crash. *)
LEMMA CallType ==
  ASSUME TypeInv, NEW p \in Procs, Call(p)
  PROVE  TypeInv'
<1>. USE DEF TypeInv, TypeOK
<1>1. ASSUME NEW v \in Vals, NEW k \in 1 .. MaxNeed, SaveStart(p, v, k) PROVE TypeInv'
  <2>1. /\ UNCHANGED <<shm, cur, scanned, chain, live, ghosts>>
        /\ need' = [need EXCEPT ![p] = k]
        /\ val' = [val EXCEPT ![p] = v]
        /\ Goto(p, "s_cas")
    BY <1>1 DEF SaveStart
  <2>2. /\ need' \in [Procs -> 0 .. MaxNeed]
        /\ need'[p] = k
        /\ \A q \in Procs \ {p} : need'[q] = need[q]
    BY <2>1, VmemSizes DEF LocalsOK
  <2>3. /\ pc' \in [Procs -> Labels]
        /\ pc'[p] = "s_cas"
        /\ \A q \in Procs \ {p} : pc'[q] = pc[q]
    BY <2>1, LabelFacts, GotoType
  <2>4. LocalsOK'
    BY <2>1, <2>2, <2>3 DEF LocalsOK
  <2>5. LocalInv'
    BY <2>1, <2>2, <2>3, StepLocal DEF Freeing, Checking, Saving
  <2>. QED BY <2>1, <2>4, <2>5 DEF ShmOK, HistoryOK, shm, ghosts
<1>2. ASSUME NEW h \in Node, FreeStart(p, h) PROVE TypeInv'
  <2>1. /\ UNCHANGED <<shm, need, scanned, val, stk, taint>>
        /\ cur' = [cur EXCEPT ![p] = h]
        /\ chain' = [chain EXCEPT ![p] = live[h].seq]
        /\ live' = [live EXCEPT ![h] = NoEntry]
        /\ own' = Reown(h, p)
        /\ Goto(p, "f_cas")
    BY <1>2 DEF FreeStart
  <2>2. HistoryOK'
    BY <2>1, ReownType, EmptySeq DEF HistoryOK, NoEntry
  <2>3. /\ cur' \in [Procs -> 0 .. NodeCount - 1]
        /\ cur'[p] = h
        /\ \A q \in Procs \ {p} : cur'[q] = cur[q]
    BY <2>1 DEF LocalsOK, Node
  <2>4. /\ chain' \in [Procs -> Seq(Node)]
        /\ \A q \in Procs \ {p} : chain'[q] = chain[q]
    BY <2>1 DEF LocalsOK, HistoryOK
  <2>5. /\ pc' \in [Procs -> Labels]
        /\ pc'[p] = "f_cas"
        /\ \A q \in Procs \ {p} : pc'[q] = pc[q]
    BY <2>1, LabelFacts, GotoType
  <2>6. LocalsOK'
    BY <2>1, <2>3, <2>4, <2>5 DEF LocalsOK
  <2>7. LocalInv'
    BY <2>1, <2>3, <2>4, <2>5, StepLocal DEF Saving
  <2>. QED BY <2>1, <2>2, <2>6, <2>7 DEF ShmOK, shm
<1>3. CASE CheckStart(p)
  <2>1. /\ UNCHANGED <<shm, need, scanned, val, chain, live, ghosts>>
        /\ cur' = [cur EXCEPT ![p] = 1]
        /\ Goto(p, "c_look")
    BY <1>3 DEF CheckStart
  <2>2. /\ cur' \in [Procs -> 0 .. NodeCount - 1]
        /\ cur'[p] \in Node
        /\ \A q \in Procs \ {p} : cur'[q] = cur[q]
    BY <2>1, VmemSizes DEF LocalsOK, Node
  <2>3. /\ pc' \in [Procs -> Labels]
        /\ pc'[p] = "c_look"
        /\ \A q \in Procs \ {p} : pc'[q] = pc[q]
    BY <2>1, LabelFacts, GotoType
  <2>4. LocalsOK'
    BY <2>1, <2>2, <2>3 DEF LocalsOK
  <2>5. LocalInv'
    BY <2>1, <2>2, <2>3, StepLocal DEF Saving
  <2>. QED BY <2>1, <2>4, <2>5 DEF ShmOK, HistoryOK, shm, ghosts
<1>. QED BY <1>1, <1>2, <1>3 DEF Call

(* Every step keeps the types. *)
LEMMA TypeStep == TypeInv /\ [Next]_vars => TypeInv'
<1>. SUFFICES ASSUME TypeInv, [Next]_vars PROVE TypeInv'
  OBVIOUS
<1>1. CASE Tick
  BY <1>1, VmemSizes
  DEF Tick, TypeInv, TypeOK, ShmOK, LocalsOK, HistoryOK, LocalInv, locals, ghosts
<1>2. ASSUME NEW p \in Procs, Crash(p) PROVE TypeInv'
  <2>1. taint' \in SUBSET Taints
    BY <1>2 DEF Crash, TypeInv, TypeOK, HistoryOK, Taints
  <2>2. own' \in [Node -> Node \cup Procs \cup {Free, Nobody}]
    BY <1>2, ReownType DEF Crash, TypeInv, TypeOK
  <2>3. LocalsOK' /\ LocalInv'
    BY <1>2, ReturnType DEF Crash, TypeInv, TypeOK
  <2>4. ShmOK' /\ HistoryOK'
    BY <1>2, <2>1, <2>2 DEF Crash, shm, TypeInv, TypeOK, ShmOK, HistoryOK
  <2>. QED BY <2>3, <2>4 DEF TypeInv, TypeOK
<1>3. CASE UNCHANGED vars
  BY <1>3 DEF vars, shm, locals, ghosts, TypeInv, TypeOK, ShmOK, LocalsOK, HistoryOK, LocalInv
<1>. QED
  BY <1>1, <1>2, <1>3, CallType, SaveType, FreeType, CheckType DEF Next, Step

(* The pool, the locals and the history always have their types, for any number of     *)
(* processes and nodes: wNodeUsed keeps its 16 bits, every index stays one of the pool *)
(* or one of the two marks, whatever was taken over and whoever died.                  *)
THEOREM TypeCorrect == Spec => []TypeOK
<1>1. TypeInv => TypeOK
  BY DEF TypeInv
<1>. QED BY <1>1, TypeInit, TypeStep, PTL DEF Spec

-----------------------------------------------------------------------------
(***************************************************************************)
(* Mutual exclusion.                                                       *)
(***************************************************************************)

(* History only grows. *)
LEMMA TaintGrows ==
  ASSUME TypeInv, [Next]_vars
  PROVE  taint \subseteq taint'
BY Zenon DEF Next, vars, ghosts, Tick, Call, Step, Save, FreeVmem, CheckVmem, Crash, SaveStart,
  SaveCas, SaveTimeout, SaveStamp, SaveCheck, SaveScan, SaveGet, SaveCount, SaveCopy,
  SaveLast, SaveRelease, FreeStart, FreeCas, FreeTimeout, FreeStamp, FreeNode, FreeMark,
  FreeRelease, CheckStart, CheckLook, CheckCas, CheckLink, CheckRelease, CasGet, TakeOver,
  Stamp, PopOutside

(* The four things a step of process p may do to the lock. *)
Keeps(p)    == flag' = flag /\ (pc'[p] \in Unstamped \cup Stamped => Holds(p))
Acquires(p) == flag' = 1 /\ \A q \in Procs : ~Holds(q)
Fails(p)    == flag' = 1 /\ pc'[p] \notin Unstamped \cup Stamped
Releases(p) == Holds(p) /\ pc'[p] \notin Unstamped \cup Stamped

LEMMA LockStep ==
  ASSUME LockInv, NEW p \in Procs,
         \A q \in Procs \ {p} : pc'[q] = pc[q],
         Keeps(p) \/ Acquires(p) \/ Fails(p) \/ Releases(p)
  PROVE  LockInv'
BY DEF LockInv, Keeps, Acquires, Fails, Releases, Holds

(* Only p moves in a step of p. *)
LEMMA Moves ==
  ASSUME LocalsOK, NEW p \in Procs, NEW l, Goto(p, l)
  PROVE  pc'[p] = l /\ \A q \in Procs \ {p} : pc'[q] = pc[q]
BY DEF LocalsOK, Goto

LEMMA CasLock ==
  ASSUME LocalsOK, LockInv, flag \in {0, 1}, NEW p \in Procs, NEW ok, NEW fail,
         CasGet(p, ok, fail), fail \notin Unstamped \cup Stamped
  PROVE  LockInv'
<1>1. CASE flag = 0
  <2>1. Acquires(p)
    BY <1>1 DEF CasGet, Acquires, LockInv
  <2>2. \A q \in Procs \ {p} : pc'[q] = pc[q]
    BY Moves DEF CasGet
  <2>. QED BY <2>1, <2>2, LockStep
<1>2. CASE flag # 0
  <2>1. Goto(p, fail) /\ flag' = 1
    BY <1>2 DEF CasGet
  <2>2. Fails(p) /\ \A q \in Procs \ {p} : pc'[q] = pc[q]
    BY <2>1, Moves DEF Fails
  <2>. QED BY <2>2, LockStep
<1>. QED BY <1>1, <1>2

LEMMA TakeOverLock ==
  ASSUME LocalsOK, LockInv, NEW p \in Procs, NEW l, TakeOver(p), Goto(p, l), flag' = flag,
         flag \in {0, 1}, Clean'
  PROVE  LockInv'
<1>1. flag = 1 /\ \A q \in Procs : ~Holds(q)
  BY DEF TakeOver, Clean, Holds
<1>2. Acquires(p) /\ \A q \in Procs \ {p} : pc'[q] = pc[q]
  BY <1>1, Moves DEF Acquires
<1>. QED BY <1>2, LockStep

(* A jump between two labels that hold, or do not hold, alike. *)
LEMMA JumpLock ==
  ASSUME LocalsOK, LockInv, NEW p \in Procs, NEW l, Goto(p, l), flag' = flag,
         l \in Unstamped \cup Stamped => Holds(p)
  PROVE  LockInv'
<1>1. Keeps(p) /\ \A q \in Procs \ {p} : pc'[q] = pc[q]
  BY Moves DEF Keeps
<1>. QED BY <1>1, LockStep

LEMMA ReleaseLock ==
  ASSUME LocalsOK, LockInv, NEW p \in Procs, NEW l, Goto(p, l), Holds(p),
         l \notin Unstamped \cup Stamped
  PROVE  LockInv'
<1>1. Releases(p) /\ \A q \in Procs \ {p} : pc'[q] = pc[q]
  BY Moves DEF Releases
<1>. QED BY <1>1, LockStep

LEMMA LockSave ==
  ASSUME TypeInv, LockInv, Clean', NEW p \in Procs, Save(p)
  PROVE  LockInv'
<1>0. LocalsOK /\ flag \in {0, 1}
  BY DEF TypeInv, TypeOK, ShmOK
<1>1. CASE SaveCas(p)
  BY <1>0, <1>1, CasLock DEF SaveCas, Unstamped, Stamped
<1>2. CASE SaveTimeout(p)
  <2>1. CASE TakeOver(p) /\ Goto(p, "s_stamp")
    BY <1>0, <1>2, <2>1, TakeOverLock DEF SaveTimeout, shm
  <2>2. CASE Return(p)
    BY <1>0, <1>2, <2>2, JumpLock DEF SaveTimeout, Return, shm, Unstamped, Stamped
  <2>. QED BY <1>2, <2>1, <2>2 DEF SaveTimeout
<1>3. CASE SaveStamp(p)
  BY <1>0, <1>3, JumpLock DEF SaveStamp, Stamp, Holds, Unstamped
<1>4. CASE SaveCheck(p)
  <2>1. CASE Return(p)
    BY <1>0, <1>4, <2>1, ReleaseLock DEF SaveCheck, Return, Holds, Unstamped, Stamped
  <2>2. CASE Goto(p, "s_scan") /\ flag' = flag
    BY <1>0, <1>4, <2>2, JumpLock DEF SaveCheck, Holds, Stamped
  <2>. QED BY <1>4, <2>1, <2>2 DEF SaveCheck
<1>5. CASE SaveScan(p)
  <2>1. Holds(p) /\ flag' = flag
    BY <1>5 DEF SaveScan, Holds, Stamped
  <2>2. CASE UNCHANGED pc
    BY <2>1, <2>2 DEF LockInv, Holds
  <2>3. CASE Goto(p, "s_get")
    BY <1>0, <2>1, <2>3, JumpLock
  <2>. QED BY <1>5, <2>2, <2>3 DEF SaveScan
<1>6. CASE SaveGet(p)
  BY <1>0, <1>6, JumpLock DEF SaveGet, PopOutside, Holds, Stamped
<1>7. CASE SaveCount(p)
  BY <1>0, <1>7, JumpLock DEF SaveCount, Holds, Stamped
<1>8. CASE SaveCopy(p)
  BY <1>0, <1>8, JumpLock DEF SaveCopy, PopOutside, Holds, Stamped
<1>9. CASE SaveLast(p)
  BY <1>0, <1>9, JumpLock DEF SaveLast, Holds, Stamped
<1>10. CASE SaveRelease(p)
  BY <1>0, <1>10, ReleaseLock DEF SaveRelease, Return, Holds, Unstamped, Stamped
<1>. QED
  BY <1>1, <1>2, <1>3, <1>4, <1>5, <1>6, <1>7, <1>8, <1>9, <1>10 DEF Save

LEMMA LockFree ==
  ASSUME TypeInv, LockInv, Clean', NEW p \in Procs, FreeVmem(p)
  PROVE  LockInv'
<1>0. LocalsOK /\ flag \in {0, 1}
  BY DEF TypeInv, TypeOK, ShmOK
<1>1. CASE FreeCas(p)
  BY <1>0, <1>1, CasLock DEF FreeCas, Unstamped, Stamped
<1>2. CASE FreeTimeout(p)
  <2>1. CASE TakeOver(p) /\ Goto(p, "f_stamp")
    BY <1>0, <1>2, <2>1, TakeOverLock DEF FreeTimeout, shm
  <2>2. CASE Goto(p, "f_mark")
    BY <1>0, <1>2, <2>2, JumpLock DEF FreeTimeout, shm, Unstamped, Stamped
  <2>. QED BY <1>2, <2>1, <2>2 DEF FreeTimeout
<1>3. CASE FreeStamp(p)
  BY <1>0, <1>3, JumpLock DEF FreeStamp, Stamp, Holds, Unstamped
<1>4. ASSUME NEW l, NextToFree(p, l), flag' = flag, l \in Unstamped \cup Stamped => Holds(p)
      PROVE  LockInv'
  <2>1. CASE UNCHANGED pc
    BY <1>4, <2>1 DEF LockInv, Holds
  <2>2. CASE Goto(p, l)
    BY <1>0, <1>4, <2>2, JumpLock
  <2>. QED BY <1>4, <2>1, <2>2 DEF NextToFree
<1>5. CASE FreeNode(p)
  BY <1>4, <1>5 DEF FreeNode, Holds, Stamped
<1>6. CASE FreeMark(p)
  BY <1>4, <1>6 DEF FreeMark, Unstamped, Stamped
<1>7. CASE FreeRelease(p)
  BY <1>0, <1>7, ReleaseLock DEF FreeRelease, Return, Holds, Unstamped, Stamped
<1>. QED BY <1>1, <1>2, <1>3, <1>5, <1>6, <1>7 DEF FreeVmem

LEMMA LockCheck ==
  ASSUME TypeInv, LockInv, Clean', NEW p \in Procs, CheckVmem(p)
  PROVE  LockInv'
<1>0. LocalsOK /\ flag \in {0, 1}
  BY DEF TypeInv, TypeOK, ShmOK
<1>1. NextToCheck(p) => \E l \in {"c_look", "idle"} : Goto(p, l)
  BY DEF NextToCheck, Return
<1>2. CASE CheckLook(p)
  BY <1>0, <1>1, <1>2, JumpLock DEF CheckLook, shm, Unstamped, Stamped
<1>3. CASE CheckCas(p)
  BY <1>0, <1>3, CasLock DEF CheckCas, Unstamped, Stamped
<1>4. CASE CheckLink(p)
  BY <1>0, <1>4, JumpLock DEF CheckLink, Holds, Unstamped
<1>5. CASE CheckRelease(p)
  BY <1>0, <1>1, <1>5, ReleaseLock DEF CheckRelease, Holds, Unstamped, Stamped
<1>. QED BY <1>2, <1>3, <1>4, <1>5 DEF CheckVmem

LockPart == Clean => LockInv

LEMMA LockInit == Init => LockPart
BY DEF Init, LockPart, LockInv, Holds, Unstamped, Stamped

LEMMA LockNext == TypeInv /\ LockPart /\ [Next]_vars => LockPart'
<1>. SUFFICES ASSUME TypeInv, LockPart, [Next]_vars, Clean' PROVE LockInv'
  BY DEF LockPart
<1>1. LockInv
  BY TaintGrows DEF Clean, LockPart
<1>2. LocalsOK
  BY DEF TypeInv, TypeOK
<1>3. CASE Tick
  BY <1>1, <1>3 DEF Tick, locals, LockInv, Holds
<1>4. ASSUME NEW p \in Procs, Call(p) PROVE LockInv'
  BY <1>1, <1>2, <1>4, JumpLock
  DEF Call, SaveStart, FreeStart, CheckStart, shm, Unstamped, Stamped
<1>5. ASSUME NEW p \in Procs, Crash(p) PROVE LockInv'
  BY <1>1, <1>2, <1>5, JumpLock DEF Crash, Return, shm, Unstamped, Stamped
<1>6. CASE UNCHANGED vars
  BY <1>1, <1>6 DEF vars, shm, locals, LockInv, Holds
<1>. QED
  BY <1>1, <1>3, <1>4, <1>5, <1>6, LockSave, LockFree, LockCheck DEF Next, Step

(* bUseFlag excludes: for any number of processes, calls, crashes and takeovers from   *)
(* dead holders, two processes are never both between taking and releasing the lock,   *)
(* and the flag is set while one is.                                                   *)
THEOREM MutexCorrect == Spec => []MutualExclusion
<1>1. LockPart => MutualExclusion
  BY DEF LockPart, LockInv, MutualExclusion
<1>2. Init => TypeInv /\ LockPart
  BY TypeInit, LockInit
<1>3. TypeInv /\ LockPart /\ [Next]_vars => (TypeInv /\ LockPart)'
  BY TypeStep, LockNext
<1>. QED BY <1>1, <1>2, <1>3, PTL DEF Spec

-----------------------------------------------------------------------------
(***************************************************************************)
(* The shape of the pool: every node belongs to the free list, to one      *)
(* process, to one live index, or to nobody, and a step only touches nodes *)
(* of owners that it is about.                                             *)
(***************************************************************************)

(* What ChainInv says of one process. *)
ProcInv(p) ==
  /\ ChainOf(chain[p], p)
  /\ SaveInv(p)
  /\ FreeingInv(p)
  /\ pc[p] \notin Saving \cup Freeing => Len(chain[p]) = 0

ShapeInv == FreeInv /\ MarkInv /\ ChainInv /\ LiveInv

LEMMA Owners ==
  /\ Free \notin Node /\ Nobody \notin Node /\ Free # Nobody
  /\ \A p \in Procs : p \notin Node /\ p # Free /\ p # Nobody
  /\ End \notin Node /\ Mark \notin Node /\ End # Mark
BY VmemSizes, VmemProcs DEF Free, Nobody, Node, End, Mark

(* The nodes of owner a keep their owner and their pointer. *)
LEMMA ChainKept ==
  ASSUME NEW s \in Seq(Node), NEW a, ChainOf(s, a),
         \A n \in Node : own[n] = a => own'[n] = a /\ next'[n] = next[n]
  PROVE  /\ Distinct(s)
         /\ \A i \in 1 .. Len(s) : own'[s[i]] = a
         /\ \A i \in 1 .. Len(s) - 1 : next'[s[i]] = s[i + 1]
<1>1. Len(s) \in Nat /\ \A i \in 1 .. Len(s) : s[i] \in Node
  BY EmptyFacts
<1>2. \A i \in 1 .. Len(s) : own[s[i]] = a
  BY DEF ChainOf
<1>3. \A i \in 1 .. Len(s) - 1 : i \in 1 .. Len(s) /\ next[s[i]] = s[i + 1]
  BY <1>1 DEF ChainOf
<1>. QED BY <1>1, <1>2, <1>3 DEF ChainOf

(* A process that is not concerned. *)
LEMMA OtherKept ==
  ASSUME LocalsOK, LocalInv, NEW q \in Procs, ProcInv(q),
         pc'[q] = pc[q], chain'[q] = chain[q], val'[q] = val[q], cur'[q] = cur[q],
         \A n \in Node : own[n] = q => own'[n] = q /\ next'[n] = next[n] /\ data'[n] = data[n]
  PROVE  ProcInv(q)'
<1>. DEFINE s == chain[q]
<1>1. s \in Seq(Node)
  BY DEF LocalsOK
<1>2. Len(s) \in Nat /\ \A i \in 1 .. Len(s) : s[i] \in Node /\ own[s[i]] = q
  BY <1>1, EmptyFacts DEF ProcInv, ChainOf
<1>3. ChainOf(chain[q], q)'
  BY <1>1, ChainKept DEF ProcInv, ChainOf
<1>4. \A i \in 1 .. Len(s) : next'[s[i]] = next[s[i]] /\ data'[s[i]] = data[s[i]]
  BY <1>2
<1>5. Len(s) >= 1 => Len(s) \in 1 .. Len(s)
  BY <1>2
<1>6. SaveInv(q)'
  <2>. SUFFICES ASSUME pc[q] \in Saving
                PROVE  /\ \A i \in 1 .. Len(s) - 1 : data'[s[i]] = Piece(val[q], i)
                       /\ pc[q] = "s_rel" => next'[s[Len(s)]] = End /\ data'[s[Len(s)]] = Piece(val[q], Len(s))
    BY DEF SaveInv, Last, Part
  <2>1. \A i \in 1 .. Len(s) - 1 : i \in 1 .. Len(s) /\ data[s[i]] = Piece(val[q], i)
    BY <1>2 DEF ProcInv, SaveInv
  <2>2. pc[q] = "s_rel" => next[s[Len(s)]] = End /\ data[s[Len(s)]] = Piece(val[q], Len(s))
    BY DEF ProcInv, SaveInv, Last, Part
  <2>3. Len(s) >= 1
    BY DEF LocalInv
  <2>. QED BY <1>4, <1>5, <2>1, <2>2, <2>3
<1>7. FreeingInv(q)'
  BY <1>4, <1>5 DEF ProcInv, FreeingInv, Last
<1>. QED BY <1>3, <1>6, <1>7 DEF ProcInv

(* The locals of the others, in a step of p. *)
Alone(p) ==
  \A q \in Procs \ {p} : /\ pc'[q] = pc[q] /\ chain'[q] = chain[q] /\ val'[q] = val[q]
                         /\ cur'[q] = cur[q] /\ need'[q] = need[q]

(* A step of p that is about nodes of the owners in A. *)
About(A) ==
  \A n \in Node : own[n] \notin A => own'[n] = own[n] /\ next'[n] = next[n] /\ data'[n] = data[n]

LEMMA OthersKept ==
  ASSUME TypeInv, ChainInv, NEW p \in Procs, Alone(p), NEW A, About(A),
         A \cap Procs \subseteq {p}, ProcInv(p)'
  PROVE  ChainInv'
<1>1. ASSUME NEW q \in Procs \ {p} PROVE ProcInv(q)'
  <2>1. ProcInv(q)
    BY DEF ChainInv, ProcInv
  <2>2. pc'[q] = pc[q] /\ chain'[q] = chain[q] /\ val'[q] = val[q] /\ cur'[q] = cur[q]
    BY DEF Alone
  <2>3. \A n \in Node : own[n] = q => own'[n] = q /\ next'[n] = next[n] /\ data'[n] = data[n]
    BY DEF About
  <2>. QED BY <2>1, <2>2, <2>3, OtherKept DEF TypeInv, TypeOK
<1>2. \A q \in Procs : ProcInv(q)'
  BY <1>1
<1>. QED BY <1>2 DEF ChainInv, ProcInv

(* One live index. *)
IndexInv(h) ==
  Len(live[h].seq) # 0 =>
    /\ ChainOf(live[h].seq, h)
    /\ live[h].seq[1] = h
    /\ next[live[h].seq[Len(live[h].seq)]] = End
    /\ \A i \in 1 .. Len(live[h].seq) : data[live[h].seq[i]] = Piece(live[h].val, i)

LEMMA IndexKept ==
  ASSUME HistoryOK, NEW h \in Node, IndexInv(h), live'[h] = live[h],
         \A n \in Node : own[n] = h => own'[n] = h /\ next'[n] = next[n] /\ data'[n] = data[n]
  PROVE  IndexInv(h)'
<1>. DEFINE s == live[h].seq
            v == live[h].val
<1>0. s \in Seq(Node)
  BY DEF HistoryOK
<1>. SUFFICES ASSUME Len(s) # 0
              PROVE  /\ ChainOf(s, h)'
                     /\ s[1] = h
                     /\ next'[s[Len(s)]] = End
                     /\ \A i \in 1 .. Len(s) : data'[s[i]] = Piece(v, i)
  BY DEF IndexInv
<1>1. /\ ChainOf(s, h) /\ s[1] = h /\ next[s[Len(s)]] = End
      /\ \A i \in 1 .. Len(s) : data[s[i]] = Piece(v, i)
  BY DEF IndexInv
<1>2. Len(s) \in Nat /\ \A i \in 1 .. Len(s) : s[i] \in Node /\ own[s[i]] = h
  BY <1>0, <1>1, EmptyFacts DEF ChainOf
<1>. HIDE DEF s, v
<1>3. \A i \in 1 .. Len(s) : next'[s[i]] = next[s[i]] /\ data'[s[i]] = data[s[i]]
  BY <1>2
<1>4. Len(s) \in 1 .. Len(s)
  BY <1>2
<1>5. /\ Distinct(s)
      /\ \A i \in 1 .. Len(s) : own'[s[i]] = h
      /\ \A i \in 1 .. Len(s) - 1 : next'[s[i]] = s[i + 1]
  BY <1>0, <1>1, ChainKept
<1>6. s' = s
  BY DEF s
<1>7. ChainOf(s, h)'
  BY <1>5, <1>6 DEF ChainOf, Distinct
<1>. QED BY <1>1, <1>3, <1>4, <1>7 

LEMMA LiveKept ==
  ASSUME TypeInv, LiveInv, NEW A, About(A), A \cap Node = {}, live' = live
  PROVE  LiveInv'
<1>1. ASSUME NEW h \in Node PROVE IndexInv(h)'
  <2>1. IndexInv(h)
    BY DEF LiveInv, IndexInv
  <2>2. \A n \in Node : own[n] = h => own'[n] = h /\ next'[n] = next[n] /\ data'[n] = data[n]
    BY DEF About
  <2>. QED BY <2>1, <2>2, IndexKept DEF TypeInv, TypeOK
<1>. QED BY <1>1 DEF LiveInv, IndexInv

LEMMA FreeKept ==
  ASSUME TypeInv, FreeInv, NEW A, About(A), Free \notin A, UNCHANGED <<free, stk>>
  PROVE  FreeInv'
<1>1. Len(stk) \in Nat /\ \A i \in 1 .. Len(stk) : stk[i] \in Node
  BY EmptyFacts DEF TypeInv, TypeOK, HistoryOK
<1>2. \A i \in 1 .. Len(stk) : own'[stk[i]] = own[stk[i]] /\ next'[stk[i]] = next[stk[i]]
  BY <1>1 DEF FreeInv, About
<1>. QED BY <1>2 DEF FreeInv, Distinct

(* A step that touches no node. *)
LEMMA ShapeKept ==
  ASSUME TypeInv, ShapeInv, NEW p \in Procs, Alone(p),
         UNCHANGED <<next, data, free, stk, own, live>>, ProcInv(p)'
  PROVE  ShapeInv'
<1>1. About({})
  BY DEF About
<1>2. FreeInv' /\ LiveInv'
  BY <1>1, FreeKept, LiveKept DEF ShapeInv
<1>3. ChainInv'
  BY <1>1, OthersKept DEF ShapeInv
<1>4. MarkInv'
  BY DEF ShapeInv, MarkInv
<1>. QED BY <1>2, <1>3, <1>4 DEF ShapeInv

(* The jumps of p that ask for nothing more of its chain. *)
LEMMA JumpShape ==
  ASSUME TypeInv, ShapeInv, NEW p \in Procs, Alone(p),
         UNCHANGED <<next, data, free, stk, own, live>>, chain'[p] = chain[p],
         \/ pc[p] \notin Saving \cup Freeing /\ pc'[p] \notin Saving \cup Freeing
         \/ pc[p] \in Freeing /\ pc'[p] \in Freeing /\ cur'[p] = cur[p]
         \/ pc[p] = "s_count" /\ pc'[p] \in {"s_copy", "s_last"} /\ val'[p] = val[p]
  PROVE  ShapeInv'
<1>1. ProcInv(p)
  BY DEF ShapeInv, ChainInv, ProcInv
<1>2. ChainOf(chain[p], p)'
  BY <1>1 DEF ProcInv, ChainOf, Distinct
<1>3. SaveInv(p)' /\ FreeingInv(p)' /\ (pc'[p] \notin Saving \cup Freeing => Len(chain'[p]) = 0)
  <2>1. CASE pc[p] \notin Saving \cup Freeing /\ pc'[p] \notin Saving \cup Freeing
    BY <1>1, <2>1 DEF ProcInv, SaveInv, FreeingInv
  <2>2. CASE pc[p] \in Freeing /\ pc'[p] \in Freeing /\ cur'[p] = cur[p]
    BY <1>1, <2>2 DEF ProcInv, SaveInv, FreeingInv, Last, Saving, Freeing
  <2>3. CASE pc[p] = "s_count" /\ pc'[p] \in {"s_copy", "s_last"} /\ val'[p] = val[p]
    BY <1>1, <2>3 DEF ProcInv, SaveInv, FreeingInv, Saving, Freeing
  <2>. QED BY <2>1, <2>2, <2>3
<1>4. ProcInv(p)'
  BY <1>2, <1>3 DEF ProcInv
<1>. QED BY <1>4, ShapeKept

(* A step that touches nodes of p, of the free list or of nobody. *)
LEMMA ShapeStep ==
  ASSUME TypeInv, ShapeInv, NEW p \in Procs, Alone(p), About({p, Free, Nobody}), live' = live,
         FreeInv', MarkInv', ProcInv(p)'
  PROVE  ShapeInv'
<1>1. {p, Free, Nobody} \cap Procs \subseteq {p} /\ {p, Free, Nobody} \cap Node = {}
  BY Owners
<1>2. ChainInv' /\ LiveInv'
  BY <1>1, OthersKept, LiveKept DEF ShapeInv
<1>. QED BY <1>2 DEF ShapeInv

-----------------------------------------------------------------------------
(***************************************************************************)
(* The free list.                                                          *)
(***************************************************************************)

LEMMA FreeFacts ==
  ASSUME TypeInv, FreeInv
  PROVE  /\ stk \in Seq(Node) /\ Len(stk) \in Nat
         /\ \A i \in 1 .. Len(stk) : stk[i] \in Node /\ own[stk[i]] = Free
         /\ free # Mark
         /\ Len(stk) # 0 => free \in Node /\ free = stk[Len(stk)] /\ own[free] = Free
         /\ Len(stk) = 0 => free = End
<1>1. stk \in Seq(Node)
  BY DEF TypeInv, TypeOK, HistoryOK
<1>2. Len(stk) \in Nat /\ \A i \in 1 .. Len(stk) : stk[i] \in Node /\ own[stk[i]] = Free
  BY <1>1, EmptyFacts DEF FreeInv
<1>3. Len(stk) # 0 => free = stk[Len(stk)] /\ Len(stk) \in 1 .. Len(stk)
  BY <1>2 DEF FreeInv
<1>4. Len(stk) = 0 => free = End
  BY DEF FreeInv
<1>. QED BY <1>1, <1>2, <1>3, <1>4, Owners

(* A node that is not on the free list becomes its head. *)
LEMMA PushFree ==
  ASSUME TypeInv, FreeInv, NEW n \in Node, own[n] # Free, Push(n)
  PROVE  FreeInv' /\ Len(stk') = Len(stk) + 1
<1>. DEFINE L == Len(stk)
<1>1. /\ L \in Nat /\ stk' = Append(stk, n)
      /\ \A i \in 1 .. L : stk[i] \in Node /\ own[stk[i]] = Free
  BY FreeFacts DEF Push
<1>2. /\ Len(stk') = L + 1
      /\ \A i \in 1 .. L : stk'[i] = stk[i]
      /\ stk'[L + 1] = n
  BY <1>1, FreeFacts, AppendFacts
<1>3. \A m \in Node : m # n => own'[m] = own[m] /\ next'[m] = next[m]
  BY DEF Push, TypeInv, TypeOK, ShmOK, HistoryOK
<1>4. own'[n] = Free /\ next'[n] = free /\ free' = n
  BY DEF Push, TypeInv, TypeOK, ShmOK, HistoryOK
<1>5. \A i \in 1 .. L : stk[i] # n
  BY <1>1
<1>6. /\ \A i, j \in 1 .. L : stk[i] = stk[j] => i = j
      /\ free = IF L = 0 THEN End ELSE stk[L]
      /\ \A i \in 1 .. L : next[stk[i]] = IF i = 1 THEN End ELSE stk[i - 1]
  BY DEF FreeInv, Distinct
<1>. HIDE DEF L
<1>7. \A i \in 1 .. L + 1 : i \in 1 .. L \/ i = L + 1
  BY <1>1
<1>8. Distinct(stk')
  BY <1>1, <1>2, <1>5, <1>6, <1>7 DEF Distinct
<1>9. free' = IF Len(stk') = 0 THEN End ELSE stk'[Len(stk')]
  BY <1>1, <1>2, <1>4
<1>10. \A i \in 1 .. Len(stk') : own'[stk'[i]] = Free
  BY <1>1, <1>2, <1>3, <1>4, <1>5, <1>7
<1>11. \A i \in 1 .. Len(stk') : next'[stk'[i]] = IF i = 1 THEN End ELSE stk'[i - 1]
  <2>. SUFFICES ASSUME NEW i \in 1 .. L + 1
                PROVE  next'[stk'[i]] = IF i = 1 THEN End ELSE stk'[i - 1]
    BY <1>2
  <2>1. CASE i \in 1 .. L
    <3>1. next'[stk'[i]] = next[stk[i]]
      BY <1>1, <1>2, <1>3, <1>5, <2>1
    <3>2. i # 1 => i - 1 \in 1 .. L
      BY <1>1, <2>1
    <3>. QED BY <1>2, <1>6, <2>1, <3>1, <3>2
  <2>2. CASE i = L + 1
    <3>1. next'[stk'[i]] = IF L = 0 THEN End ELSE stk[L]
      BY <1>2, <1>4, <1>6, <2>2
    <3>2. L # 0 => L \in 1 .. L
      BY <1>1
    <3>3. i - 1 = L /\ (i = 1 <=> L = 0)
      BY <1>1, <2>2
    <3>. QED BY <1>2, <3>1, <3>2, <3>3
  <2>. QED BY <1>7, <2>1, <2>2
<1>12. FreeInv'
  BY <1>8, <1>9, <1>10, <1>11 DEF FreeInv, Distinct
<1>. QED BY <1>2, <1>12 DEF L

(* The head of the free list goes to p. *)
LEMMA PopFree ==
  ASSUME TypeInv, FreeInv, Len(stk) # 0, NEW p \in Procs, Pop(p),
         \A n \in Node : own[n] = Free => next'[n] = next[n]
  PROVE  FreeInv' /\ Len(stk') = Len(stk) - 1
<1>. DEFINE L == Len(stk)
<1>1. /\ L \in Nat /\ L # 0
      /\ \A i \in 1 .. L : stk[i] \in Node /\ own[stk[i]] = Free
      /\ free = stk[L] /\ free \in Node
  BY FreeFacts
<1>2. stk' = SubSeq(stk, 1, L - 1)
  BY <1>1, FreeFacts, EmptyFacts DEF Pop
<1>3. Len(stk') = L - 1 /\ \A i \in 1 .. L - 1 : stk'[i] = stk[i]
  BY <1>1, <1>2, FreeFacts, FrontFacts
<1>4. \A m \in Node : m # free => own'[m] = own[m]
  BY DEF Pop, TypeInv, TypeOK, HistoryOK
<1>5. free' = next[stk[L]]
  BY <1>1 DEF Pop
<1>6. /\ \A i, j \in 1 .. L : stk[i] = stk[j] => i = j
      /\ \A i \in 1 .. L : next[stk[i]] = IF i = 1 THEN End ELSE stk[i - 1]
  BY DEF FreeInv, Distinct
<1>. HIDE DEF L
<1>7. \A i \in 1 .. L - 1 : i \in 1 .. L /\ stk[i] # free
  <2>1. \A i \in 1 .. L - 1 : i \in 1 .. L /\ i # L
    BY <1>1
  <2>2. L \in 1 .. L
    BY <1>1
  <2>. QED BY <1>1, <1>6, <2>1, <2>2
<1>8. Distinct(stk')
  BY <1>3, <1>6, <1>7 DEF Distinct
<1>9. free' = IF Len(stk') = 0 THEN End ELSE stk'[Len(stk')]
  <2>1. L \in 1 .. L /\ (L = 1 <=> L - 1 = 0) /\ (L # 1 => L - 1 \in 1 .. L - 1)
    BY <1>1
  <2>. QED BY <1>3, <1>5, <1>6, <2>1
<1>10. \A i \in 1 .. Len(stk') : own'[stk'[i]] = Free
  BY <1>1, <1>3, <1>4, <1>7
<1>11. \A i \in 1 .. Len(stk') : next'[stk'[i]] = IF i = 1 THEN End ELSE stk'[i - 1]
  <2>. SUFFICES ASSUME NEW i \in 1 .. L - 1
                PROVE  next'[stk'[i]] = IF i = 1 THEN End ELSE stk'[i - 1]
    BY <1>3
  <2>1. next'[stk'[i]] = next[stk[i]]
    BY <1>1, <1>3, <1>7
  <2>2. i # 1 => i - 1 \in 1 .. L - 1
    BY <1>1
  <2>. QED BY <1>3, <1>6, <1>7, <2>1, <2>2
<1>12. FreeInv'
  BY <1>8, <1>9, <1>10, <1>11 DEF FreeInv, Distinct
<1>. QED BY <1>3, <1>12 DEF L

(* The free list is no longer than the pool, and shorter when a node is elsewhere. *)
LEMMA FreeLength ==
  ASSUME TypeInv, FreeInv
  PROVE  /\ Len(stk) <= NodeCount - 1
         /\ \A n \in Node : own[n] # Free => Len(stk) <= NodeCount - 2
<1>1. /\ stk \in Seq(Node) /\ Len(stk) \in Nat
      /\ \A i \in 1 .. Len(stk) : stk[i] \in Node /\ own[stk[i]] = Free
  BY FreeFacts
<1>2. ASSUME NEW T, IsFiniteSet(T), \A i \in 1 .. Len(stk) : stk[i] \in T
      PROVE  Len(stk) <= Cardinality(T)
  <2>. DEFINE S == 1 .. Len(stk)
              f == [i \in S |-> stk[i]]
  <2>1. f \in [S -> T] /\ \A a, b \in S : f[a] = f[b] => a = b
    BY <1>2 DEF FreeInv, Distinct
  <2>2. f \in Injection(S, T)
    BY <2>1, Fun_IsInj
  <2>3. Cardinality(S) <= Cardinality(T)
    BY <1>2, <2>2, FS_Injection
  <2>4. Cardinality(S) = Len(stk)
    <3>1. Cardinality(S) = IF 1 > Len(stk) THEN 0 ELSE Len(stk) - 1 + 1
      BY <1>1, FS_Interval
    <3>. QED BY <1>1, <3>1
  <2>. QED BY <2>3, <2>4
<1>3. IsFiniteSet(Node) /\ Cardinality(Node) = NodeCount - 1 /\ NodeCount \in Nat /\ NodeCount >= 2
  <2>1. NodeCount \in Nat /\ NodeCount >= 2 /\ NodeCount - 1 \in Int
    BY VmemSizes
  <2>2. IsFiniteSet(Node) /\ Cardinality(Node) = IF 1 > NodeCount - 1 THEN 0 ELSE NodeCount - 1 - 1 + 1
    BY <2>1, FS_Interval DEF Node
  <2>. QED BY <2>1, <2>2
<1>4. Len(stk) <= NodeCount - 1
  BY <1>1, <1>2, <1>3
<1>5. ASSUME NEW n \in Node, own[n] # Free PROVE Len(stk) <= NodeCount - 2
  <2>. DEFINE T == Node \ {n}
  <2>1. IsFiniteSet(T) /\ Cardinality(T) = Cardinality(Node) - 1
    BY <1>3, FS_RemoveElement
  <2>2. \A i \in 1 .. Len(stk) : stk[i] \in T
    BY <1>1, <1>5
  <2>. HIDE DEF T
  <2>3. Len(stk) <= Cardinality(T)
    BY <1>2, <2>1, <2>2
  <2>. QED BY <1>1, <1>3, <2>1, <2>3
<1>. QED BY <1>4, <1>5

-----------------------------------------------------------------------------
(***************************************************************************)
(* The count of nodes in use.                                              *)
(***************************************************************************)

Counting == {"s_scan", "s_get", "s_count", "s_copy"}

(* What CountInv says of one process. *)
CountOf(p) ==
  /\ pc[p] # "wild"
  /\ pc[p] \in {"s_scan", "s_get", "s_count"} => used + need[p] <= NodeCount
  /\ pc[p] = "s_count" => used + Len(stk) >= NodeCount - 1
  /\ pc[p] = "s_copy" => used + Len(stk) >= NodeCount + need[p] - 1

PoolPart == ShapeInv /\ CountInv

LEMMA CountStep ==
  ASSUME CountInv, NEW p \in Procs, Alone(p), \A q \in Procs \ {p} : pc[q] \notin Counting,
         used' <= NodeCount,
         pc'[p] # "s_count" => used' + Len(stk') >= NodeCount,
         CountOf(p)'
  PROVE  CountInv'
<1>1. \A q \in Procs \ {p} : CountOf(q)'
  BY DEF CountInv, CountOf, Alone, Counting
<1>2. \A q \in Procs : CountOf(q)'
  BY <1>1
<1>3. (\A q \in Procs : pc'[q] # "s_count") => used' + Len(stk') >= NodeCount
  OBVIOUS
<1>. QED BY <1>2, <1>3 DEF CountInv, CountOf

(* Steps that take no node and count none. *)
LEMMA CountKept ==
  ASSUME CountInv, NEW p \in Procs, Alone(p), UNCHANGED <<used, stk>>, pc[p] # "s_count",
         pc'[p] \notin Counting \cup {"wild"}
  PROVE  CountInv'
<1>1. \A q \in Procs \ {p} : pc'[q] = pc[q] /\ need'[q] = need[q]
  BY DEF Alone
<1>2. (\A q \in Procs : pc'[q] # "s_count") => \A q \in Procs : pc[q] # "s_count"
  BY <1>1
<1>3. ASSUME NEW q \in Procs PROVE CountOf(q)'
  <2>1. CASE q = p
    BY <2>1 DEF CountOf, Counting
  <2>2. CASE q # p
    BY <1>1, <2>2 DEF CountOf, CountInv
  <2>. QED BY <2>1, <2>2
<1>. QED BY <1>2, <1>3 DEF CountInv, CountOf

(* The holder of the lock is alone with the count. *)
LEMMA OthersOut ==
  ASSUME LockInv, NEW p \in Procs, Holds(p)
  PROVE  \A q \in Procs \ {p} : pc[q] \notin Counting
BY DEF LockInv, Holds, Counting, Stamped

LEMMA CountLow ==
  ASSUME TypeInv, ShapeInv, CountInv
  PROVE  used \in 1 .. NodeCount
<1>1. used \in Nat /\ used <= NodeCount /\ NodeCount \in Nat /\ NodeCount >= 2 /\ Len(stk) \in Nat
  BY VmemSizes, FreeFacts DEF TypeInv, TypeOK, ShmOK, CountInv, ShapeInv
<1>2. CASE \A p \in Procs : pc[p] # "s_count"
  <2>1. used + Len(stk) >= NodeCount
    BY <1>2 DEF CountInv
  <2>2. Len(stk) <= NodeCount - 1
    BY FreeLength DEF ShapeInv
  <2>. QED BY <1>1, <2>1, <2>2
<1>3. ASSUME NEW p \in Procs, pc[p] = "s_count" PROVE used \in 1 .. NodeCount
  <2>1. used + Len(stk) >= NodeCount - 1
    BY <1>3 DEF CountInv
  <2>2. Len(chain[p]) >= 1 /\ chain[p] \in Seq(Node)
    BY <1>3 DEF TypeInv, TypeOK, LocalInv, LocalsOK, Saving
  <2>3. Len(chain[p]) \in Nat /\ chain[p][1] \in Node
    BY <2>2, EmptyFacts
  <2>4. 1 \in 1 .. Len(chain[p])
    BY <2>2, <2>3
  <2>5. own[chain[p][1]] = p
    BY <2>4 DEF ShapeInv, ChainInv, ChainOf
  <2>6. Len(stk) <= NodeCount - 2
    BY <2>3, <2>5, Owners, FreeLength DEF ShapeInv
  <2>. QED BY <1>1, <2>1, <2>6
<1>. QED BY <1>2, <1>3

LEMMA W16Small ==
  ASSUME NEW x \in Nat, x <= 65535
  PROVE  W16(x) = x
BY DEF W16

(* A node goes to the free list: one node less is in use. *)
LEMMA PushCount ==
  ASSUME TypeInv, ShapeInv, CountInv, NEW p \in Procs, pc[p] # "s_count",
         \A q \in Procs \ {p} : pc[q] \notin Counting,
         NEW n \in Node, own[n] # Free, Push(n)
  PROVE  /\ used' = used - 1
         /\ used' \in Nat
         /\ used' <= NodeCount
         /\ used' + Len(stk') >= NodeCount
<1>1. used \in Nat /\ used <= NodeCount /\ NodeCount \in Nat /\ NodeCount <= 65000 /\ Len(stk) \in Nat
  BY VmemSizes, FreeFacts DEF TypeInv, TypeOK, ShmOK, CountInv, ShapeInv
<1>2. used + Len(stk) >= NodeCount
  BY DEF CountInv, Counting
<1>3. Len(stk) <= NodeCount - 2
  BY FreeLength DEF ShapeInv
<1>4. Len(stk') = Len(stk) + 1
  BY PushFree DEF ShapeInv
<1>5. used' = W16(used - 1)
  BY DEF Push
<1>6. used - 1 \in Nat /\ used - 1 <= 65535
  <2>1. used >= 2
    BY <1>1, <1>2, <1>3
  <2>. QED BY <1>1, <2>1
<1>7. used' = used - 1
  BY <1>5, <1>6, W16Small
<1>. QED BY <1>1, <1>2, <1>4, <1>6, <1>7

-----------------------------------------------------------------------------
(***************************************************************************)
(* Steps that leave the nodes alone.                                       *)
(***************************************************************************)

LEMMA GotoAlone ==
  ASSUME TypeInv, NEW p \in Procs, NEW l, Goto(p, l), UNCHANGED <<cur, need, val, chain>>
  PROVE  Alone(p) /\ pc'[p] = l /\ chain'[p] = chain[p]
BY Moves DEF Alone, TypeInv, TypeOK

(* The end of a call in which p has no nodes. *)
LEMMA ReturnAlone ==
  ASSUME TypeInv, NEW p \in Procs, Return(p)
  PROVE  Alone(p) /\ pc'[p] = "idle" /\ chain'[p] = <<>>
BY DEF Alone, Return, Goto, TypeInv, TypeOK, LocalsOK

LEMMA NoNodes ==
  ASSUME TypeInv, ShapeInv, NEW p \in Procs, pc[p] \notin Saving \cup Freeing
  PROVE  chain[p] = <<>>
<1>1. Len(chain[p]) = 0 /\ chain[p] \in Seq(Node)
  BY DEF ShapeInv, ChainInv, TypeInv, TypeOK, LocalsOK
<1>. QED BY <1>1, EmptyFacts

Untouched == UNCHANGED <<next, data, free, stk, own, live, used>>

(* A jump that asks for nothing more of the pool. *)
LEMMA QuietPool ==
  ASSUME TypeInv, PoolPart, NEW p \in Procs, Alone(p), Untouched, chain'[p] = chain[p],
         pc'[p] \notin Counting \cup {"wild"},
         \/ pc[p] \notin Saving \cup Freeing /\ pc'[p] \notin Saving \cup Freeing
         \/ pc[p] \in Freeing /\ pc'[p] \in Freeing /\ cur'[p] = cur[p]
  PROVE  PoolPart'
<1>1. ShapeInv'
  BY JumpShape DEF PoolPart, Untouched
<1>2. pc[p] # "s_count"
  BY DEF Saving, Freeing
<1>3. CountInv'
  BY <1>2, CountKept DEF PoolPart, Untouched
<1>. QED BY <1>1, <1>3 DEF PoolPart

LEMMA QuietReturn ==
  ASSUME TypeInv, PoolPart, NEW p \in Procs, Return(p), Untouched,
         pc[p] \notin Saving \cup Freeing
  PROVE  PoolPart'
<1>1. Alone(p) /\ pc'[p] = "idle" /\ chain'[p] = chain[p]
  BY ReturnAlone, NoNodes DEF PoolPart
<1>2. pc'[p] \notin Counting \cup {"wild"} /\ pc'[p] \notin Saving \cup Freeing
  BY <1>1 DEF Counting, Saving, Freeing
<1>. QED BY <1>1, <1>2, QuietPool

LEMMA QuietGoto ==
  ASSUME TypeInv, PoolPart, NEW p \in Procs, NEW l, Goto(p, l), Untouched,
         UNCHANGED <<cur, need, val, chain>>, l \notin Counting \cup {"wild"},
         \/ pc[p] \notin Saving \cup Freeing /\ l \notin Saving \cup Freeing
         \/ pc[p] \in Freeing /\ l \in Freeing
  PROVE  PoolPart'
BY GotoAlone, QuietPool

LEMMA StartPool ==
  ASSUME TypeInv, PoolPart, NEW p \in Procs, NEW v, NEW k, SaveStart(p, v, k) \/ CheckStart(p)
  PROVE  PoolPart'
<1>1. Untouched /\ pc[p] = "idle" /\ UNCHANGED chain
  BY DEF SaveStart, CheckStart, Untouched, shm, ghosts
<1>2. Alone(p) /\ pc'[p] \in {"s_cas", "c_look"}
  BY DEF SaveStart, CheckStart, Goto, Alone, TypeInv, TypeOK, LocalsOK
<1>. QED BY <1>1, <1>2, QuietPool DEF Counting, Saving, Freeing

(* i++ of MtReport_CheckVmem. *)
LEMMA NextToCheckPool ==
  ASSUME TypeInv, PoolPart, NEW p \in Procs, NextToCheck(p), Untouched,
         pc[p] \notin Saving \cup Freeing
  PROVE  PoolPart'
<1>1. CASE Return(p)
  BY <1>1, QuietReturn
<1>2. CASE /\ Goto(p, "c_look")
           /\ cur' = [cur EXCEPT ![p] = @ + 1]
           /\ UNCHANGED <<need, scanned, val, chain>>
  <2>1. Alone(p) /\ pc'[p] = "c_look"
    BY <1>2 DEF Goto, Alone, TypeInv, TypeOK, LocalsOK
  <2>. QED BY <1>2, <2>1, QuietPool DEF Counting, Saving, Freeing
<1>. QED BY <1>1, <1>2 DEF NextToCheck

LEMMA QuietSave ==
  ASSUME TypeInv, PoolPart, NEW p \in Procs, SaveCas(p) \/ SaveTimeout(p) \/ SaveStamp(p)
  PROVE  PoolPart'
<1>1. CASE SaveCas(p)
  <2>1. PICK l \in {"s_stamp", "s_tmo"} : Goto(p, l)
    BY <1>1 DEF SaveCas, CasGet
  <2>2. Untouched /\ UNCHANGED <<cur, need, val, chain>> /\ pc[p] = "s_cas"
    BY <1>1 DEF SaveCas, CasGet, Untouched, ghosts
  <2>. QED BY <2>1, <2>2, QuietGoto DEF Counting, Saving, Freeing
<1>2. CASE SaveTimeout(p)
  <2>1. Untouched /\ pc[p] = "s_tmo"
    BY <1>2 DEF SaveTimeout, Untouched, shm
  <2>2. CASE Return(p)
    BY <2>1, <2>2, QuietReturn DEF Saving, Freeing
  <2>3. CASE Goto(p, "s_stamp") /\ UNCHANGED <<cur, need, scanned, val, chain>>
    BY <2>1, <2>3, QuietGoto DEF Counting, Saving, Freeing
  <2>. QED BY <1>2, <2>2, <2>3 DEF SaveTimeout
<1>3. CASE SaveStamp(p)
  <2>1. /\ Goto(p, "s_check") /\ Untouched /\ UNCHANGED <<cur, need, val, chain>>
        /\ pc[p] = "s_stamp"
    BY <1>3 DEF SaveStamp, Stamp, Untouched, ghosts
  <2>. QED BY <2>1, QuietGoto DEF Counting, Saving, Freeing
<1>. QED BY <1>1, <1>2, <1>3

LEMMA QuietFree ==
  ASSUME TypeInv, PoolPart, NEW p \in Procs,
         FreeCas(p) \/ FreeTimeout(p) \/ FreeStamp(p) \/ FreeRelease(p)
  PROVE  PoolPart'
<1>1. CASE FreeCas(p)
  <2>1. PICK l \in {"f_stamp", "f_tmo"} : Goto(p, l)
    BY <1>1 DEF FreeCas, CasGet
  <2>2. Untouched /\ UNCHANGED <<cur, need, val, chain>> /\ pc[p] = "f_cas"
    BY <1>1 DEF FreeCas, CasGet, Untouched, ghosts
  <2>. QED BY <2>1, <2>2, QuietGoto DEF Counting, Freeing
<1>2. CASE FreeTimeout(p)
  <2>1. Untouched /\ UNCHANGED <<cur, need, val, chain>> /\ pc[p] = "f_tmo"
    BY <1>2 DEF FreeTimeout, Untouched, shm
  <2>2. PICK l \in {"f_stamp", "f_mark"} : Goto(p, l)
    BY <1>2 DEF FreeTimeout
  <2>. QED BY <2>1, <2>2, QuietGoto DEF Counting, Freeing
<1>3. CASE FreeStamp(p)
  <2>1. /\ Goto(p, "f_node") /\ Untouched /\ UNCHANGED <<cur, need, val, chain>>
        /\ pc[p] = "f_stamp"
    BY <1>3 DEF FreeStamp, Stamp, Untouched, ghosts
  <2>. QED BY <2>1, QuietGoto DEF Counting, Freeing
<1>4. CASE FreeRelease(p)
  <2>1. Return(p) /\ Untouched /\ pc[p] = "f_rel"
    BY <1>4 DEF FreeRelease, Untouched, ghosts
  <2>. QED BY <2>1, QuietReturn DEF Saving, Freeing
<1>. QED BY <1>1, <1>2, <1>3, <1>4

LEMMA QuietCheck ==
  ASSUME TypeInv, PoolPart, NEW p \in Procs, CheckLook(p) \/ CheckCas(p) \/ CheckRelease(p)
  PROVE  PoolPart'
<1>1. CASE CheckLook(p)
  <2>1. Untouched /\ pc[p] = "c_look"
    BY <1>1 DEF CheckLook, Untouched, shm, ghosts
  <2>2. CASE Goto(p, "c_cas") /\ UNCHANGED <<cur, need, scanned, val, chain>>
    BY <2>1, <2>2, QuietGoto DEF Counting, Saving, Freeing
  <2>3. CASE NextToCheck(p)
    BY <2>1, <2>3, NextToCheckPool DEF Saving, Freeing
  <2>. QED BY <1>1, <2>2, <2>3 DEF CheckLook
<1>2. CASE CheckCas(p)
  <2>1. PICK l \in {"c_link", "idle"} : Goto(p, l)
    BY <1>2 DEF CheckCas, CasGet
  <2>2. /\ Untouched /\ UNCHANGED <<need, val, chain>> /\ pc[p] = "c_cas"
        /\ cur' = [cur EXCEPT ![p] = IF flag = 0 THEN @ ELSE 0]
    BY <1>2 DEF CheckCas, CasGet, Untouched, ghosts
  <2>3. Alone(p) /\ pc'[p] = l
    BY <2>1, <2>2 DEF Goto, Alone, TypeInv, TypeOK, LocalsOK
  <2>. QED BY <2>2, <2>3, QuietPool DEF Counting, Saving, Freeing
<1>3. CASE CheckRelease(p)
  <2>1. NextToCheck(p) /\ Untouched /\ pc[p] = "c_rel"
    BY <1>3 DEF CheckRelease, Untouched, ghosts
  <2>. QED BY <2>1, NextToCheckPool DEF Saving, Freeing
<1>. QED BY <1>1, <1>2, <1>3

(* The test of wNodeUsed, and the count. *)
LEMMA SaveCheckPool ==
  ASSUME TypeInv, LockInv, PoolPart, NEW p \in Procs, SaveCheck(p)
  PROVE  PoolPart'
<1>1. Untouched /\ pc[p] = "s_check"
  BY DEF SaveCheck, Untouched, ghosts
<1>2. CASE Return(p)
  BY <1>1, <1>2, QuietReturn DEF Saving, Freeing
<1>3. CASE /\ NodeCount >= used + need[p] /\ Goto(p, "s_scan")
           /\ UNCHANGED <<flag, cur, need, scanned, val, chain>>
  <2>1. Alone(p) /\ pc'[p] = "s_scan" /\ chain'[p] = chain[p]
    BY <1>3, GotoAlone
  <2>2. ShapeInv'
    BY <1>1, <2>1, JumpShape DEF PoolPart, Untouched, Saving, Freeing
  <2>3. \A q \in Procs \ {p} : pc[q] \notin Counting
    BY <1>1, OthersOut DEF Holds, Stamped
  <2>4. used + Len(stk) >= NodeCount /\ used <= NodeCount
    BY <1>1, <2>3 DEF PoolPart, CountInv, Counting
  <2>5. used + need[p] <= NodeCount
    BY <1>3, VmemSizes DEF TypeInv, TypeOK, ShmOK, LocalsOK
  <2>6. CountOf(p)'
    BY <1>1, <1>3, <2>1, <2>5 DEF CountOf, Untouched
  <2>7. CountInv'
    BY <1>1, <2>1, <2>3, <2>4, <2>6, CountStep DEF PoolPart, Untouched
  <2>. QED BY <2>2, <2>7 DEF PoolPart
<1>. QED BY <1>2, <1>3 DEF SaveCheck

LEMMA SaveCountPool ==
  ASSUME TypeInv, LockInv, PoolPart, NEW p \in Procs, SaveCount(p)
  PROVE  PoolPart'
<1>1. /\ UNCHANGED <<next, data, free, stk, own, live>> /\ UNCHANGED <<cur, need, val, chain>>
      /\ pc[p] = "s_count" /\ used' = W16(used + need[p])
  BY DEF SaveCount, ghosts
<1>2. PICK l \in {"s_copy", "s_last"} : Goto(p, l)
  BY DEF SaveCount
<1>3. Alone(p) /\ pc'[p] = l /\ chain'[p] = chain[p] /\ val'[p] = val[p]
  BY <1>1, <1>2, GotoAlone
<1>4. ShapeInv'
  BY <1>1, <1>3, JumpShape DEF PoolPart
<1>5. \A q \in Procs \ {p} : pc[q] \notin Counting
  BY <1>1, OthersOut DEF Holds, Stamped
<1>6. /\ used \in Nat /\ need[p] \in Nat /\ NodeCount \in Nat /\ NodeCount <= 65000
      /\ Len(stk) \in Nat /\ need[p] >= 1
      /\ used + need[p] <= NodeCount /\ used + Len(stk) >= NodeCount - 1
  BY <1>1, VmemSizes, FreeFacts
  DEF TypeInv, TypeOK, ShmOK, LocalsOK, LocalInv, PoolPart, CountInv, ShapeInv
<1>7. used' = used + need[p]
  BY <1>1, <1>6, W16Small
<1>8. used' <= NodeCount /\ used' + Len(stk') >= NodeCount + need[p] - 1
  BY <1>1, <1>6, <1>7
<1>9. used' + Len(stk') >= NodeCount
  BY <1>1, <1>6, <1>7
<1>10. CountOf(p)'
  BY <1>1, <1>2, <1>3, <1>8 DEF CountOf
<1>11. CountInv'
  BY <1>3, <1>5, <1>8, <1>9, <1>10, CountStep DEF PoolPart
<1>. QED BY <1>4, <1>11 DEF PoolPart

-----------------------------------------------------------------------------
(***************************************************************************)
(* Marked nodes go to the free list.                                       *)
(***************************************************************************)

LEMMA PushShape ==
  ASSUME TypeInv, ShapeInv, NEW p \in Procs, Alone(p), NEW n \in Node, own[n] = Nobody, Push(n),
         UNCHANGED <<data, live>>, chain'[p] = chain[p],
         pc[p] \notin Saving \cup Freeing, pc'[p] \notin Saving \cup Freeing
  PROVE  ShapeInv'
<1>1. \A m \in Node : m # n => own'[m] = own[m] /\ next'[m] = next[m]
  BY DEF Push, TypeInv, TypeOK, ShmOK, HistoryOK
<1>2. own'[n] = Free /\ next'[n] = free
  BY DEF Push, TypeInv, TypeOK, ShmOK, HistoryOK
<1>3. About({p, Free, Nobody})
  BY <1>1 DEF About
<1>4. FreeInv'
  BY Owners, PushFree DEF ShapeInv
<1>5. MarkInv'
  BY <1>1, <1>2, FreeFacts DEF ShapeInv, MarkInv
<1>6. ProcInv(p)'
  <2>1. chain'[p] = <<>>
    BY NoNodes
  <2>. QED BY <2>1 DEF ProcInv, ChainOf, Distinct, SaveInv, FreeingInv
<1>. QED BY <1>3, <1>4, <1>5, <1>6, ShapeStep

LEMMA SaveScanPool ==
  ASSUME TypeInv, LockInv, PoolPart, NEW p \in Procs, SaveScan(p)
  PROVE  PoolPart'
<1>1. UNCHANGED <<data, cur, need, val, chain, live>> /\ pc[p] = "s_scan"
  BY DEF SaveScan
<1>2. /\ pc'[p] \in {"s_scan", "s_get"}
      /\ \A q \in Procs \ {p} : pc'[q] = pc[q]
  BY <1>1, Moves DEF SaveScan, TypeInv, TypeOK
<1>3. Alone(p) /\ chain'[p] = chain[p]
  BY <1>1, <1>2 DEF Alone
<1>4. \A q \in Procs \ {p} : pc[q] \notin Counting
  BY <1>1, OthersOut DEF Holds, Stamped
<1>5. /\ used \in Nat /\ need[p] \in Nat /\ NodeCount \in Nat
      /\ used + need[p] <= NodeCount /\ used <= NodeCount
      /\ used + Len(stk) >= NodeCount
  BY <1>1, <1>4, VmemSizes DEF TypeInv, TypeOK, ShmOK, LocalsOK, PoolPart, CountInv, Counting
<1>6. ASSUME used' \in Nat, used' <= used, used' + Len(stk') >= NodeCount PROVE CountInv'
  <2>1. used' <= NodeCount /\ used' + need[p] <= NodeCount
    BY <1>5, <1>6
  <2>2. CountOf(p)'
    BY <1>1, <1>2, <2>1 DEF CountOf
  <2>. QED BY <1>3, <1>4, <1>6, <2>1, <2>2, CountStep DEF PoolPart
<1>7. CASE scan \in Node /\ next[scan] = Mark /\ Push(scan)
  <2>1. own[scan] = Nobody
    BY <1>7 DEF PoolPart, ShapeInv, MarkInv
  <2>2. ShapeInv'
    BY <1>1, <1>2, <1>3, <1>7, <2>1, PushShape DEF PoolPart, Saving, Freeing
  <2>3. used' = used - 1 /\ used' \in Nat /\ used' + Len(stk') >= NodeCount
    BY <1>1, <1>4, <1>7, <2>1, Owners, PushCount DEF PoolPart
  <2>4. used' <= used
    BY <1>5, <2>3
  <2>. QED BY <1>6, <2>2, <2>3, <2>4 DEF PoolPart
<1>8. CASE UNCHANGED <<next, free, used, stk, own>>
  <2>1. ShapeInv'
    BY <1>1, <1>2, <1>3, <1>8, JumpShape DEF PoolPart, Saving, Freeing
  <2>2. CountInv'
    BY <1>5, <1>6, <1>8
  <2>. QED BY <2>1, <2>2 DEF PoolPart
<1>. QED BY <1>7, <1>8 DEF SaveScan

LEMMA CheckLinkPool ==
  ASSUME TypeInv, LockInv, PoolPart, NEW p \in Procs, CheckLink(p), Clean'
  PROVE  PoolPart'
<1>1. /\ UNCHANGED <<data, cur, need, val, chain, live>> /\ pc[p] = "c_link"
      /\ Push(cur[p]) /\ Goto(p, "c_rel") /\ cur[p] \in Node
  BY DEF CheckLink, TypeInv, LocalInv, Checking
<1>2. next[cur[p]] = Mark
  BY DEF CheckLink, Clean
<1>3. own[cur[p]] = Nobody
  BY <1>1, <1>2 DEF PoolPart, ShapeInv, MarkInv
<1>4. Alone(p) /\ pc'[p] = "c_rel" /\ chain'[p] = chain[p]
  BY <1>1, GotoAlone
<1>5. ShapeInv'
  BY <1>1, <1>3, <1>4, PushShape DEF PoolPart, Saving, Freeing
<1>6. \A q \in Procs \ {p} : pc[q] \notin Counting
  BY <1>1, OthersOut DEF Holds, Unstamped
<1>7. used' <= NodeCount /\ used' + Len(stk') >= NodeCount
  BY <1>1, <1>3, <1>6, Owners, PushCount DEF PoolPart
<1>8. CountOf(p)'
  BY <1>4 DEF CountOf
<1>9. CountInv'
  BY <1>4, <1>6, <1>7, <1>8, CountStep DEF PoolPart
<1>. QED BY <1>5, <1>9 DEF PoolPart

-----------------------------------------------------------------------------
(***************************************************************************)
(* A save takes nodes.                                                     *)
(***************************************************************************)

LEMMA PopOwner ==
  ASSUME TypeInv, NEW p \in Procs, Pop(p)
  PROVE  /\ own'[free] = p
         /\ \A m \in Node : m # free => own'[m] = own[m]
         /\ chain'[p] = Append(chain[p], free)
         /\ \A q \in Procs \ {p} : chain'[q] = chain[q]
BY DEF Pop, TypeInv, TypeOK, HistoryOK, LocalsOK

LEMMA SaveGetPool ==
  ASSUME TypeInv, TypeInv', LockInv, PoolPart, NEW p \in Procs, SaveGet(p)
  PROVE  PoolPart'
<1>1. pc[p] = "s_get"
  BY DEF SaveGet
<1>2. \A q \in Procs \ {p} : pc[q] \notin Counting
  BY <1>1, OthersOut DEF Holds, Stamped
<1>3. FreeInv /\ MarkInv
  BY DEF PoolPart, ShapeInv
<1>4. /\ used \in Nat /\ need[p] \in Nat /\ NodeCount \in Nat /\ need[p] >= 1 /\ Len(stk) \in Nat
      /\ used + need[p] <= NodeCount /\ used <= NodeCount
      /\ used + Len(stk) >= NodeCount
  <2>1. used \in Nat /\ need[p] \in Nat /\ NodeCount \in Nat
    BY VmemSizes DEF TypeInv, TypeOK, ShmOK, LocalsOK
  <2>2. need[p] >= 1 /\ Len(stk) \in Nat
    BY <1>1, <1>3, FreeFacts DEF TypeInv, LocalInv
  <2>3. used + need[p] <= NodeCount /\ used <= NodeCount
    BY <1>1 DEF PoolPart, CountInv
  <2>4. used + Len(stk) >= NodeCount
    BY <1>1, <1>2 DEF PoolPart, CountInv, Counting
  <2>. QED BY <2>1, <2>2, <2>3, <2>4
<1>5. Len(stk) # 0
  BY <1>4
<1>6. free \in Node /\ own[free] = Free
  BY <1>3, <1>5, FreeFacts
<1>7. /\ Pop(p) /\ Goto(p, "s_count")
      /\ UNCHANGED <<next, data, used, cur, need, scanned, val, live, taint>>
  BY <1>6 DEF SaveGet, PopOutside
<1>8. /\ own'[free] = p
      /\ \A m \in Node : m # free => own'[m] = own[m]
      /\ chain'[p] = Append(chain[p], free)
      /\ \A q \in Procs \ {p} : chain'[q] = chain[q]
  BY <1>7, PopOwner
<1>9. pc'[p] = "s_count" /\ \A q \in Procs \ {p} : pc'[q] = pc[q]
  BY <1>7, Moves DEF TypeInv, TypeOK
<1>10. Alone(p)
  BY <1>7, <1>8, <1>9 DEF Alone
<1>11. FreeInv' /\ Len(stk') = Len(stk) - 1
  BY <1>3, <1>5, <1>7, PopFree
<1>12. About({p, Free, Nobody})
  BY <1>6, <1>7, <1>8 DEF About
<1>13. MarkInv'
  BY <1>3, <1>6, <1>7, <1>8, Owners DEF MarkInv
<1>14. ProcInv(p)'
  <2>1. chain[p] = <<>>
    BY <1>1, NoNodes DEF PoolPart, Saving, Freeing
  <2>2. chain'[p] = <<free>>
    BY <1>8, <2>1
  <2>3. Len(chain'[p]) = 1 /\ chain'[p][1] = free
    BY <2>2
  <2>. QED BY <1>8, <1>9, <2>3 DEF ProcInv, ChainOf, Distinct, SaveInv, FreeingInv, Saving, Freeing
<1>15. ShapeInv'
  BY <1>7, <1>10, <1>11, <1>12, <1>13, <1>14, ShapeStep DEF PoolPart
<1>16. CountOf(p)'
  <2>1. used' + need'[p] <= NodeCount /\ used' + Len(stk') >= NodeCount - 1
    BY <1>4, <1>7, <1>11
  <2>. QED BY <1>9, <2>1 DEF CountOf
<1>17. CountInv'
  BY <1>2, <1>4, <1>7, <1>9, <1>10, <1>16, CountStep DEF PoolPart
<1>. QED BY <1>15, <1>17 DEF PoolPart

(* The chain of a save grows at its end. *)
LEMMA SaveCopyPool ==
  ASSUME TypeInv, TypeInv', LockInv, PoolPart, NEW p \in Procs, SaveCopy(p)
  PROVE  PoolPart'
<1>. DEFINE s == chain[p]
            L == Len(chain[p])
<1>1. pc[p] = "s_copy"
  BY DEF SaveCopy
<1>2. \A q \in Procs \ {p} : pc[q] \notin Counting
  BY <1>1, OthersOut DEF Holds, Stamped
<1>3. FreeInv /\ MarkInv /\ ProcInv(p)
  BY DEF PoolPart, ShapeInv, ChainInv, ProcInv
<1>4. /\ used \in Nat /\ need[p] \in Nat /\ NodeCount \in Nat /\ need[p] >= 2 /\ Len(stk) \in Nat
      /\ used <= NodeCount
      /\ used + Len(stk) >= NodeCount + need[p] - 1
  <2>1. used \in Nat /\ need[p] \in Nat /\ NodeCount \in Nat
    BY VmemSizes DEF TypeInv, TypeOK, ShmOK, LocalsOK
  <2>2. need[p] > 1 /\ Len(stk) \in Nat
    BY <1>1, <1>3, FreeFacts DEF TypeInv, LocalInv
  <2>3. used <= NodeCount /\ used + Len(stk) >= NodeCount + need[p] - 1
    BY <1>1 DEF PoolPart, CountInv
  <2>. QED BY <2>1, <2>2, <2>3
<1>5. Len(stk) # 0
  BY <1>4
<1>6. free \in Node /\ own[free] = Free
  BY <1>3, <1>5, FreeFacts
<1>7. /\ Pop(p)
      /\ data' = [data EXCEPT ![Last(p)] = Part(p)]
      /\ next' = [next EXCEPT ![Last(p)] = free]
      /\ need' = [need EXCEPT ![p] = @ - 1]
      /\ Goto(p, IF need[p] > 2 THEN "s_copy" ELSE "s_last")
      /\ UNCHANGED <<used, cur, scanned, val, live, taint>>
  BY <1>6 DEF SaveCopy, PopOutside
<1>8. /\ own'[free] = p
      /\ \A m \in Node : m # free => own'[m] = own[m]
      /\ chain'[p] = Append(chain[p], free)
      /\ \A q \in Procs \ {p} : chain'[q] = chain[q]
  BY <1>7, PopOwner
<1>9. PICK l \in {"s_copy", "s_last"} : Goto(p, l) /\ (l = "s_copy" => need[p] > 2)
  BY <1>7
<1>10. pc'[p] = l /\ \A q \in Procs \ {p} : pc'[q] = pc[q]
  BY <1>9, Moves DEF TypeInv, TypeOK
<1>11. need'[p] = need[p] - 1 /\ \A q \in Procs \ {p} : need'[q] = need[q]
  BY <1>7 DEF TypeInv, TypeOK, LocalsOK
<1>12. Alone(p)
  BY <1>7, <1>8, <1>10, <1>11 DEF Alone
<1>13. /\ s \in Seq(Node) /\ L \in Nat /\ L >= 1
       /\ \A i \in 1 .. L : s[i] \in Node /\ own[s[i]] = p
       /\ \A i, j \in 1 .. L : s[i] = s[j] => i = j
       /\ \A i \in 1 .. L - 1 : next[s[i]] = s[i + 1] /\ data[s[i]] = Piece(val[p], i)
  <2>1. s \in Seq(Node) /\ L >= 1
    BY <1>1 DEF TypeInv, TypeOK, LocalsOK, LocalInv, Saving
  <2>2. L \in Nat /\ \A i \in 1 .. L : s[i] \in Node /\ own[s[i]] = p
    BY <1>3, <2>1, EmptyFacts DEF ProcInv, ChainOf
  <2>3. \A i, j \in 1 .. L : s[i] = s[j] => i = j
    BY <1>3 DEF ProcInv, ChainOf, Distinct
  <2>4. \A i \in 1 .. L - 1 : next[s[i]] = s[i + 1] /\ data[s[i]] = Piece(val[p], i)
    BY <1>1, <1>3 DEF ProcInv, ChainOf, SaveInv, Saving
  <2>. QED BY <2>1, <2>2, <2>3, <2>4
<1>14. /\ Len(chain'[p]) = L + 1
       /\ \A i \in 1 .. L : chain'[p][i] = s[i]
       /\ chain'[p][L + 1] = free
  BY <1>6, <1>8, <1>13, AppendFacts
<1>15. Last(p) = s[L] /\ Part(p) = Piece(val[p], L) /\ L \in 1 .. L
  BY <1>13 DEF Last, Part
<1>16. /\ next'[s[L]] = free /\ data'[s[L]] = Piece(val[p], L)
       /\ \A m \in Node : m # s[L] => next'[m] = next[m] /\ data'[m] = data[m]
  BY <1>7, <1>13, <1>15 DEF TypeInv, TypeOK, ShmOK
<1>. HIDE DEF s, L
<1>17. own[s[L]] = p /\ s[L] \in Node
  BY <1>13, <1>15
<1>18. s[L] # free
  BY <1>6, <1>17, Owners
<1>19. \A i \in 1 .. L - 1 : i \in 1 .. L /\ s[i] # s[L]
  <2>1. \A i \in 1 .. L - 1 : i \in 1 .. L /\ i # L
    BY <1>13
  <2>. QED BY <1>13, <1>15, <2>1
<1>20. \A i \in 1 .. L + 1 : i \in 1 .. L \/ i = L + 1
  BY <1>13
<1>21. \A i \in 1 .. L : i \in 1 .. L - 1 \/ i = L
  BY <1>13
<1>22. FreeInv' /\ Len(stk') = Len(stk) - 1
  <2>1. \A n \in Node : own[n] = Free => next'[n] = next[n]
    BY <1>16, <1>17, Owners
  <2>. QED BY <1>3, <1>5, <1>7, <2>1, PopFree
<1>23. About({p, Free, Nobody})
  BY <1>6, <1>8, <1>16, <1>17 DEF About
<1>24. MarkInv'
  BY <1>3, <1>6, <1>8, <1>16, Owners DEF MarkInv
<1>25. \A i \in 1 .. L : s[i] # free
  BY <1>6, <1>13, Owners
<1>26. ChainOf(chain[p], p)'
  <2>1. Distinct(chain'[p])
    BY <1>13, <1>14, <1>20, <1>25 DEF Distinct
  <2>2. \A i \in 1 .. L + 1 : own'[chain'[p][i]] = p
    BY <1>8, <1>13, <1>14, <1>20, <1>25
  <2>3. \A i \in 1 .. L : next'[chain'[p][i]] = chain'[p][i + 1]
    <3>. SUFFICES ASSUME NEW i \in 1 .. L PROVE next'[s[i]] = chain'[p][i + 1]
      BY <1>14
    <3>1. CASE i = L
      BY <1>14, <1>16, <3>1
    <3>2. CASE i \in 1 .. L - 1
      <4>1. i + 1 \in 1 .. L
        BY <1>13, <3>2
      <4>. QED BY <1>13, <1>14, <1>16, <1>19, <3>2, <4>1
    <3>. QED BY <1>21, <3>1, <3>2
  <2>4. Len(chain'[p]) - 1 = L
    BY <1>13, <1>14
  <2>. QED BY <1>14, <2>1, <2>2, <2>3, <2>4 DEF ChainOf, Distinct
<1>27. SaveInv(p)'
  <2>1. \A i \in 1 .. L : data'[s[i]] = Piece(val[p], i)
    BY <1>13, <1>16, <1>19, <1>21
  <2>2. Len(chain'[p]) - 1 = L
    BY <1>13, <1>14
  <2>3. \A i \in 1 .. Len(chain'[p]) - 1 : data'[chain'[p][i]] = Piece(val'[p], i)
    BY <1>7, <1>14, <2>1, <2>2
  <2>. QED BY <1>9, <1>10, <2>3 DEF SaveInv
<1>28. ProcInv(p)'
  BY <1>9, <1>10, <1>26, <1>27 DEF ProcInv, FreeingInv, Saving, Freeing
<1>29. ShapeInv'
  BY <1>7, <1>12, <1>22, <1>23, <1>24, <1>28, ShapeStep DEF PoolPart
<1>30. /\ used' <= NodeCount /\ used' + Len(stk') >= NodeCount
       /\ used' + Len(stk') >= NodeCount + need'[p] - 1
  BY <1>4, <1>7, <1>11, <1>22
<1>31. CountOf(p)'
  BY <1>9, <1>10, <1>30 DEF CountOf
<1>32. CountInv'
  BY <1>2, <1>12, <1>30, <1>31, CountStep DEF PoolPart
<1>. QED BY <1>29, <1>32 DEF PoolPart

LEMMA SaveLastPool ==
  ASSUME TypeInv, PoolPart, NEW p \in Procs, SaveLast(p)
  PROVE  PoolPart'
<1>. DEFINE s == chain[p]
            L == Len(chain[p])
<1>1. /\ pc[p] = "s_last" /\ next' = [next EXCEPT ![Last(p)] = End]
      /\ data' = [data EXCEPT ![Last(p)] = Part(p)] /\ Goto(p, "s_rel")
      /\ UNCHANGED <<free, used, cur, need, val, chain, live, stk, own>>
  BY DEF SaveLast, ghosts
<1>2. FreeInv /\ MarkInv /\ ProcInv(p)
  BY DEF PoolPart, ShapeInv, ChainInv, ProcInv
<1>3. Alone(p) /\ pc'[p] = "s_rel" /\ chain'[p] = chain[p]
  BY <1>1, GotoAlone
<1>4. /\ s \in Seq(Node) /\ L \in Nat /\ L >= 1
      /\ \A i \in 1 .. L : s[i] \in Node /\ own[s[i]] = p
      /\ \A i, j \in 1 .. L : s[i] = s[j] => i = j
      /\ \A i \in 1 .. L - 1 : next[s[i]] = s[i + 1] /\ data[s[i]] = Piece(val[p], i)
  <2>1. s \in Seq(Node) /\ L >= 1
    BY <1>1 DEF TypeInv, TypeOK, LocalsOK, LocalInv, Saving
  <2>2. L \in Nat /\ \A i \in 1 .. L : s[i] \in Node /\ own[s[i]] = p
    BY <1>2, <2>1, EmptyFacts DEF ProcInv, ChainOf
  <2>3. \A i, j \in 1 .. L : s[i] = s[j] => i = j
    BY <1>2 DEF ProcInv, ChainOf, Distinct
  <2>4. \A i \in 1 .. L - 1 : next[s[i]] = s[i + 1] /\ data[s[i]] = Piece(val[p], i)
    BY <1>1, <1>2 DEF ProcInv, ChainOf, SaveInv, Saving
  <2>. QED BY <2>1, <2>2, <2>3, <2>4
<1>5. Last(p) = s[L] /\ Part(p) = Piece(val[p], L) /\ L \in 1 .. L
  BY <1>4 DEF Last, Part
<1>6. /\ next'[s[L]] = End /\ data'[s[L]] = Piece(val[p], L)
      /\ \A m \in Node : m # s[L] => next'[m] = next[m] /\ data'[m] = data[m]
  BY <1>1, <1>4, <1>5 DEF TypeInv, TypeOK, ShmOK
<1>7. \A i \in 1 .. L - 1 : i \in 1 .. L /\ s[i] # s[L]
  <2>. HIDE DEF s, L
  <2>1. \A i \in 1 .. L - 1 : i \in 1 .. L /\ i # L
    BY <1>4
  <2>. QED BY <1>4, <1>5, <2>1
<1>8. About({p, Free, Nobody})
  BY <1>1, <1>4, <1>5, <1>6 DEF About
<1>9. FreeInv'
  <2>1. About({p})
    BY <1>1, <1>4, <1>5, <1>6 DEF About
  <2>. QED BY <1>1, <1>2, <2>1, Owners, FreeKept
<1>10. MarkInv'
  BY <1>1, <1>2, <1>6, Owners DEF MarkInv
<1>11. ProcInv(p)'
  <2>1. ChainOf(chain[p], p)'
    BY <1>1, <1>4, <1>6, <1>7 DEF ChainOf, Distinct
  <2>2. SaveInv(p)'
    <3>1. \A i \in 1 .. L - 1 : data'[s[i]] = Piece(val[p], i)
      BY <1>4, <1>6, <1>7
    <3>. QED BY <1>1, <1>3, <1>6, <3>1 DEF SaveInv, Last, Part
  <2>. QED BY <1>3, <2>1, <2>2 DEF ProcInv, FreeingInv, Saving, Freeing
<1>12. ShapeInv'
  BY <1>1, <1>3, <1>8, <1>9, <1>10, <1>11, ShapeStep DEF PoolPart
<1>13. CountInv'
  BY <1>1, <1>3, CountKept DEF PoolPart, Counting
<1>. QED BY <1>12, <1>13 DEF PoolPart

(* The owners of nodes that a is given up for b. *)
LEMMA ReownFacts ==
  ASSUME NEW a, NEW b, own' = Reown(a, b), UNCHANGED <<next, data>>
  PROVE  /\ About({a})
         /\ \A n \in Node : own[n] = a => own'[n] = b
         /\ \A n \in Node : own'[n] = own[n] \/ own[n] = a
BY DEF Reown, About

(* A process without nodes. *)
LEMMA EmptyProc ==
  ASSUME NEW p \in Procs, chain'[p] = <<>>, pc'[p] \notin Saving \cup Freeing
  PROVE  ProcInv(p)'
BY DEF ProcInv, ChainOf, Distinct, SaveInv, FreeingInv

(* The nodes of the save become the nodes of the index. *)
LEMMA SaveReleasePool ==
  ASSUME TypeInv, PoolPart, NEW p \in Procs, SaveRelease(p)
  PROVE  PoolPart'
<1>. DEFINE s == chain[p]
            L == Len(chain[p])
<1>0. PICK h \in Node : h = chain[p][1]
  BY EmptyFacts DEF SaveRelease, TypeInv, TypeOK, LocalsOK, LocalInv, Saving
<1>1. /\ pc[p] = "s_rel" /\ Return(p)
      /\ live' = [live EXCEPT ![h] = [seq |-> s, val |-> val[p]]]
      /\ own' = Reown(p, h)
      /\ UNCHANGED <<next, data, free, used, stk>>
  BY <1>0 DEF SaveRelease
<1>2. FreeInv /\ MarkInv /\ ChainInv /\ ProcInv(p)
  BY DEF PoolPart, ShapeInv, ChainInv, ProcInv
<1>3. Alone(p) /\ pc'[p] = "idle" /\ chain'[p] = <<>>
  BY <1>1, ReturnAlone
<1>4. /\ s \in Seq(Node) /\ L \in Nat /\ L >= 1
      /\ \A i \in 1 .. L : s[i] \in Node /\ own[s[i]] = p
      /\ \A i, j \in 1 .. L : s[i] = s[j] => i = j
      /\ \A i \in 1 .. L - 1 : next[s[i]] = s[i + 1] /\ data[s[i]] = Piece(val[p], i)
      /\ next[s[L]] = End /\ data[s[L]] = Piece(val[p], L)
  <2>1. s \in Seq(Node) /\ L >= 1
    BY <1>1 DEF TypeInv, TypeOK, LocalsOK, LocalInv, Saving
  <2>2. L \in Nat /\ \A i \in 1 .. L : s[i] \in Node /\ own[s[i]] = p
    BY <1>2, <2>1, EmptyFacts DEF ProcInv, ChainOf
  <2>3. \A i, j \in 1 .. L : s[i] = s[j] => i = j
    BY <1>2 DEF ProcInv, ChainOf, Distinct
  <2>4. \A i \in 1 .. L - 1 : next[s[i]] = s[i + 1] /\ data[s[i]] = Piece(val[p], i)
    BY <1>1, <1>2 DEF ProcInv, ChainOf, SaveInv, Saving
  <2>5. next[s[L]] = End /\ data[s[L]] = Piece(val[p], L)
    BY <1>1, <1>2 DEF ProcInv, SaveInv, Saving, Last, Part
  <2>. QED BY <2>1, <2>2, <2>3, <2>4, <2>5
<1>5. h \in Node /\ s[1] = h
  BY <1>0
<1>6. /\ live'[h] = [seq |-> s, val |-> val[p]]
      /\ \A g \in Node : g # h => live'[g] = live[g]
  BY <1>1, <1>5 DEF TypeInv, TypeOK, HistoryOK
<1>7. /\ About({p})
      /\ \A n \in Node : own[n] = p => own'[n] = h
      /\ \A n \in Node : own'[n] = own[n] \/ own[n] = p
  BY <1>1, ReownFacts
<1>8. FreeInv'
  BY <1>1, <1>2, <1>7, Owners, FreeKept
<1>9. MarkInv'
  BY <1>1, <1>2, <1>7, Owners DEF MarkInv
<1>10. ChainInv'
  <2>1. ProcInv(p)'
    BY <1>3, EmptyProc DEF Saving, Freeing
  <2>2. {p} \cap Procs \subseteq {p}
    OBVIOUS
  <2>. QED BY <1>2, <1>3, <1>7, <2>1, <2>2, OthersKept
<1>11. ASSUME NEW g \in Node, g # h PROVE IndexInv(g)'
  <2>1. IndexInv(g) /\ live'[g] = live[g]
    BY <1>6, <1>11 DEF PoolPart, ShapeInv, LiveInv, IndexInv
  <2>2. \A n \in Node : own[n] = g => own'[n] = g /\ next'[n] = next[n] /\ data'[n] = data[n]
    BY <1>1, <1>7, Owners
  <2>. QED BY <2>1, <2>2, IndexKept DEF TypeInv, TypeOK
<1>12. IndexInv(h)'
  <2>1. live'[h].seq = s /\ live'[h].val = val[p]
    BY <1>6
  <2>2. \A i \in 1 .. L : own'[s[i]] = h
    BY <1>4, <1>7
  <2>3. \A i \in 1 .. L - 1 : next'[s[i]] = s[i + 1]
    BY <1>1, <1>4
  <2>4. \A i \in 1 .. L : i \in 1 .. L - 1 \/ i = L
    BY <1>4
  <2>5. \A i \in 1 .. L : data'[s[i]] = Piece(val[p], i)
    BY <1>1, <1>4, <2>4
  <2>6. next'[s[L]] = End /\ s[1] = h
    BY <1>1, <1>4, <1>5
  <2>7. \A i, j \in 1 .. L : s[i] = s[j] => i = j
    BY <1>4
  <2>. QED BY <2>1, <2>2, <2>3, <2>5, <2>6, <2>7 DEF IndexInv, ChainOf, Distinct
<1>13. LiveInv'
  BY <1>11, <1>12 DEF LiveInv, IndexInv
<1>14. CountInv'
  BY <1>1, <1>3, CountKept DEF PoolPart, Counting
<1>. QED BY <1>8, <1>9, <1>10, <1>13, <1>14 DEF PoolPart, ShapeInv

-----------------------------------------------------------------------------
(***************************************************************************)
(* A free gives nodes back.                                                *)
(***************************************************************************)

(* The nodes of the index become the nodes of the free. *)
LEMMA FreeStartPool ==
  ASSUME TypeInv, PoolPart, NEW p \in Procs, NEW h \in Node, FreeStart(p, h)
  PROVE  PoolPart'
<1>. DEFINE s == live[h].seq
            L == Len(live[h].seq)
<1>1. /\ pc[p] = "idle" /\ s # <<>> /\ Goto(p, "f_cas")
      /\ cur' = [cur EXCEPT ![p] = h]
      /\ chain' = [chain EXCEPT ![p] = s]
      /\ live' = [live EXCEPT ![h] = NoEntry]
      /\ own' = Reown(h, p)
      /\ UNCHANGED <<next, data, free, used, need, val, stk>>
  BY DEF FreeStart, Live, shm
<1>2. FreeInv /\ MarkInv /\ ChainInv /\ IndexInv(h)
  BY DEF PoolPart, ShapeInv, LiveInv, IndexInv
<1>3. Alone(p) /\ pc'[p] = "f_cas" /\ chain'[p] = s /\ cur'[p] = h
  BY <1>1 DEF Goto, Alone, TypeInv, TypeOK, LocalsOK
<1>4. /\ s \in Seq(Node) /\ L \in Nat /\ L >= 1
      /\ \A i \in 1 .. L : s[i] \in Node /\ own[s[i]] = h
      /\ \A i, j \in 1 .. L : s[i] = s[j] => i = j
      /\ \A i \in 1 .. L - 1 : next[s[i]] = s[i + 1]
      /\ s[1] = h /\ next[s[L]] = End
  <2>1. s \in Seq(Node)
    BY DEF TypeInv, TypeOK, HistoryOK
  <2>2. L \in Nat /\ L # 0 /\ \A i \in 1 .. L : s[i] \in Node
    BY <1>1, <2>1, EmptyFacts
  <2>3. ChainOf(s, h) /\ s[1] = h /\ next[s[L]] = End
    BY <1>2, <2>2 DEF IndexInv
  <2>. QED BY <2>1, <2>2, <2>3 DEF ChainOf, Distinct
<1>5. /\ About({h})
      /\ \A n \in Node : own[n] = h => own'[n] = p
      /\ \A n \in Node : own'[n] = own[n] \/ own[n] = h
  BY <1>1, ReownFacts
<1>6. FreeInv'
  BY <1>1, <1>2, <1>5, Owners, FreeKept
<1>7. MarkInv'
  BY <1>1, <1>2, <1>5, Owners DEF MarkInv
<1>8. ProcInv(p)'
  <2>1. ChainOf(chain[p], p)'
    BY <1>1, <1>3, <1>4, <1>5 DEF ChainOf, Distinct
  <2>2. FreeingInv(p)'
    BY <1>1, <1>3, <1>4 DEF FreeingInv, Last
  <2>. QED BY <1>3, <2>1, <2>2 DEF ProcInv, SaveInv, Saving, Freeing
<1>9. ChainInv'
  <2>1. {h} \cap Procs \subseteq {p}
    BY Owners
  <2>. QED BY <1>2, <1>3, <1>5, <1>8, <2>1, OthersKept
<1>10. /\ live'[h] = NoEntry
       /\ \A g \in Node : g # h => live'[g] = live[g]
  BY <1>1 DEF TypeInv, TypeOK, HistoryOK
<1>11. ASSUME NEW g \in Node, g # h PROVE IndexInv(g)'
  <2>1. IndexInv(g) /\ live'[g] = live[g]
    BY <1>10, <1>11 DEF PoolPart, ShapeInv, LiveInv, IndexInv
  <2>2. \A n \in Node : own[n] = g => own'[n] = g /\ next'[n] = next[n] /\ data'[n] = data[n]
    BY <1>1, <1>5, <1>11
  <2>. QED BY <2>1, <2>2, IndexKept DEF TypeInv, TypeOK
<1>12. IndexInv(h)'
  BY <1>10 DEF IndexInv, NoEntry
<1>13. LiveInv'
  BY <1>11, <1>12 DEF LiveInv, IndexInv
<1>14. CountInv'
  BY <1>1, <1>3, CountKept DEF PoolPart, Counting
<1>. QED BY <1>6, <1>7, <1>9, <1>13, <1>14 DEF PoolPart, ShapeInv

(* nIdx = iNextSave: the free goes on with the node behind the one it has given back. *)
LEMMA NextToFreePool ==
  ASSUME TypeInv, NEW p \in Procs, ProcInv(p), pc[p] \in {"f_node", "f_mark"},
         NEW l \in {"f_rel", "idle"}, NextToFree(p, l), UNCHANGED <<need, val>>,
         \A m \in Node : m # cur[p] => own'[m] = own[m] /\ next'[m] = next[m]
  PROVE  Alone(p) /\ ProcInv(p)' /\ pc'[p] \in {pc[p], l}
<1>. DEFINE s == chain[p]
            L == Len(chain[p])
<1>1. /\ s \in Seq(Node) /\ L \in Nat /\ L >= 1
      /\ \A i \in 1 .. L : s[i] \in Node /\ own[s[i]] = p
      /\ \A i, j \in 1 .. L : s[i] = s[j] => i = j
      /\ \A i \in 1 .. L - 1 : next[s[i]] = s[i + 1]
      /\ s[1] = cur[p] /\ next[s[L]] = End
  <2>1. s \in Seq(Node)
    BY DEF TypeInv, TypeOK, LocalsOK
  <2>2. L >= 1 /\ s[1] = cur[p] /\ next[s[L]] = End
    BY DEF ProcInv, FreeingInv, Freeing, Last
  <2>3. L \in Nat /\ \A i \in 1 .. L : s[i] \in Node
    BY <2>1, EmptyFacts
  <2>. QED BY <2>1, <2>2, <2>3 DEF ProcInv, ChainOf, Distinct
<1>2. CASE next[cur[p]] \in Node
  <2>1. s # <<>>
    BY <1>1, EmptyFacts
  <2>2. /\ cur' = [cur EXCEPT ![p] = next[cur[p]]]
        /\ chain' = [chain EXCEPT ![p] = Tail(s)]
        /\ UNCHANGED pc
    BY <1>2, <2>1 DEF NextToFree
  <2>3. Alone(p) /\ pc'[p] = pc[p] /\ chain'[p] = Tail(s) /\ cur'[p] = next[cur[p]]
    BY <2>2 DEF Alone, TypeInv, TypeOK, LocalsOK
  <2>4. L # 1
    BY <1>1, <1>2, Owners
  <2>5. /\ Len(chain'[p]) = L - 1
        /\ \A i \in 1 .. L - 1 : chain'[p][i] = s[i + 1]
    <3>1. Len(s) # 0
      BY <1>1
    <3>. QED BY <1>1, <2>3, <3>1, TailFacts
  <2>. DEFINE t == chain'[p]
  <2>6. cur'[p] = t[1]
    <3>1. 1 \in 1 .. L - 1
      <4>. HIDE DEF L
      <4>. QED BY <1>1, <2>4
    <3>2. next[s[1]] = s[2] /\ t[1] = s[2]
      BY <1>1, <2>5, <3>1
    <3>. QED BY <1>1, <2>3, <3>2
  <2>. HIDE DEF s, L, t
  <2>7. \A i \in 1 .. L - 1 : i + 1 \in 1 .. L /\ s[i + 1] # cur[p]
    <3>1. \A i \in 1 .. L - 1 : i + 1 \in 1 .. L /\ i + 1 # 1 /\ 1 \in 1 .. L
      BY <1>1
    <3>. QED BY <1>1, <3>1
  <2>8. Len(t) = L - 1 /\ \A i \in 1 .. L - 1 : t[i] = s[i + 1]
    BY <2>5 DEF t
  <2>9. \A i \in 1 .. L - 1 : own'[t[i]] = p
    BY <1>1, <2>7, <2>8
  <2>10. \A i, j \in 1 .. L - 1 : t[i] = t[j] => i = j
    <3>. SUFFICES ASSUME NEW i \in 1 .. L - 1, NEW j \in 1 .. L - 1, t[i] = t[j] PROVE i = j
      OBVIOUS
    <3>1. s[i + 1] = s[j + 1] /\ i + 1 \in 1 .. L /\ j + 1 \in 1 .. L
      BY <2>7, <2>8
    <3>2. i + 1 = j + 1
      BY <1>1, <3>1
    <3>. QED BY <3>2
  <2>11. \A i \in 1 .. L - 2 : next'[t[i]] = t[i + 1]
    <3>. SUFFICES ASSUME NEW i \in 1 .. L - 2 PROVE next'[t[i]] = t[i + 1]
      OBVIOUS
    <3>1. i \in 1 .. L - 1 /\ i + 1 \in 1 .. L - 1
      BY <1>1
    <3>2. t[i] = s[i + 1] /\ t[i + 1] = s[i + 1 + 1]
      BY <2>8, <3>1
    <3>3. next'[s[i + 1]] = next[s[i + 1]]
      BY <1>1, <2>7, <3>1
    <3>. QED BY <1>1, <3>1, <3>2, <3>3
  <2>12. next'[t[L - 1]] = End
    <3>1. L - 1 \in 1 .. L - 1 /\ L - 1 + 1 = L
      BY <1>1, <2>4
    <3>2. t[L - 1] = s[L] /\ s[L] # cur[p] /\ s[L] \in Node
      BY <1>1, <2>7, <2>8, <3>1
    <3>. QED BY <1>1, <3>2
  <2>13. ChainOf(chain[p], p)'
    <3>1. L - 1 - 1 = L - 2
      BY <1>1
    <3>. QED BY <2>8, <2>9, <2>10, <2>11, <3>1 DEF ChainOf, Distinct, t
  <2>14. FreeingInv(p)'
    <3>1. Len(t) >= 1
      BY <1>1, <2>4, <2>8
    <3>. QED BY <2>6, <2>8, <2>12, <3>1 DEF FreeingInv, Last, t
  <2>. QED BY <2>3, <2>13, <2>14 DEF ProcInv, SaveInv, Saving, Freeing
<1>3. CASE next[cur[p]] \notin Node
  <2>1. /\ cur' = [cur EXCEPT ![p] = 0]
        /\ chain' = [chain EXCEPT ![p] = <<>>]
        /\ Goto(p, l)
    BY <1>3 DEF NextToFree
  <2>2. Alone(p) /\ pc'[p] = l /\ chain'[p] = <<>>
    BY <2>1 DEF Goto, Alone, TypeInv, TypeOK, LocalsOK
  <2>. QED BY <2>2, EmptyProc DEF Saving, Freeing
<1>. QED BY <1>2, <1>3

LEMMA FreeNodePool ==
  ASSUME TypeInv, LockInv, PoolPart, NEW p \in Procs, FreeNode(p)
  PROVE  PoolPart'
<1>0. PICK n \in Node : n = cur[p]
  BY DEF FreeNode, TypeInv, LocalInv, Freeing
<1>1. /\ pc[p] = "f_node" /\ data' = [data EXCEPT ![n] = Empty] /\ Push(n)
      /\ NextToFree(p, "f_rel") /\ UNCHANGED <<need, val, live>>
  BY <1>0 DEF FreeNode
<1>2. FreeInv /\ MarkInv /\ ProcInv(p)
  BY DEF PoolPart, ShapeInv, ChainInv, ProcInv
<1>3. own[n] = p
  <2>1. Len(chain[p]) >= 1 /\ cur[p] = chain[p][1]
    BY <1>1, <1>2 DEF ProcInv, FreeingInv, Freeing
  <2>2. Len(chain[p]) \in Nat
    BY EmptyFacts DEF TypeInv, TypeOK, LocalsOK
  <2>3. 1 \in 1 .. Len(chain[p])
    BY <2>1, <2>2
  <2>. QED BY <1>0, <1>2, <2>1, <2>3 DEF ProcInv, ChainOf
<1>4. /\ \A m \in Node : m # n => own'[m] = own[m] /\ next'[m] = next[m] /\ data'[m] = data[m]
      /\ own'[n] = Free /\ next'[n] = free
  BY <1>1 DEF Push, TypeInv, TypeOK, ShmOK, HistoryOK
<1>5. Alone(p) /\ ProcInv(p)' /\ pc'[p] \in {"f_node", "f_rel"}
  BY <1>0, <1>1, <1>2, <1>4, NextToFreePool
<1>6. About({p, Free, Nobody})
  BY <1>3, <1>4 DEF About
<1>7. FreeInv'
  BY <1>1, <1>2, <1>3, Owners, PushFree
<1>8. MarkInv'
  BY <1>2, <1>4, FreeFacts DEF MarkInv
<1>9. ShapeInv'
  BY <1>1, <1>5, <1>6, <1>7, <1>8, ShapeStep DEF PoolPart
<1>10. \A q \in Procs \ {p} : pc[q] \notin Counting
  BY <1>1, OthersOut DEF Holds, Stamped
<1>11. used' <= NodeCount /\ used' + Len(stk') >= NodeCount
  BY <1>1, <1>3, <1>10, Owners, PushCount DEF PoolPart
<1>12. CountOf(p)'
  BY <1>5 DEF CountOf
<1>13. CountInv'
  BY <1>5, <1>10, <1>11, <1>12, CountStep DEF PoolPart
<1>. QED BY <1>9, <1>13 DEF PoolPart

(* Without the lock: the node is marked, and belongs to nobody. *)
LEMMA FreeMarkPool ==
  ASSUME TypeInv, PoolPart, NEW p \in Procs, FreeMark(p)
  PROVE  PoolPart'
<1>0. PICK n \in Node : n = cur[p]
  BY DEF FreeMark, TypeInv, LocalInv, Freeing
<1>1. /\ pc[p] = "f_mark" /\ data' = [data EXCEPT ![n] = Empty]
      /\ next' = [next EXCEPT ![n] = Mark] /\ own' = [own EXCEPT ![n] = Nobody]
      /\ NextToFree(p, "idle") /\ UNCHANGED <<need, val, live, free, used, stk>>
  BY <1>0 DEF FreeMark
<1>2. FreeInv /\ MarkInv /\ ProcInv(p)
  BY DEF PoolPart, ShapeInv, ChainInv, ProcInv
<1>3. own[n] = p
  <2>1. Len(chain[p]) >= 1 /\ cur[p] = chain[p][1]
    BY <1>1, <1>2 DEF ProcInv, FreeingInv, Freeing
  <2>2. Len(chain[p]) \in Nat
    BY EmptyFacts DEF TypeInv, TypeOK, LocalsOK
  <2>3. 1 \in 1 .. Len(chain[p])
    BY <2>1, <2>2
  <2>. QED BY <1>0, <1>2, <2>1, <2>3 DEF ProcInv, ChainOf
<1>4. /\ \A m \in Node : m # n => own'[m] = own[m] /\ next'[m] = next[m] /\ data'[m] = data[m]
      /\ own'[n] = Nobody
  BY <1>1 DEF TypeInv, TypeOK, ShmOK, HistoryOK
<1>5. Alone(p) /\ ProcInv(p)' /\ pc'[p] \in {"f_mark", "idle"}
  BY <1>0, <1>1, <1>2, <1>4, NextToFreePool
<1>6. About({p, Free, Nobody}) /\ About({p})
  BY <1>3, <1>4 DEF About
<1>7. FreeInv'
  BY <1>1, <1>2, <1>6, Owners, FreeKept
<1>8. MarkInv'
  BY <1>2, <1>4 DEF MarkInv
<1>9. ShapeInv'
  BY <1>1, <1>5, <1>6, <1>7, <1>8, ShapeStep DEF PoolPart
<1>10. CountInv'
  BY <1>1, <1>5, CountKept DEF PoolPart, Counting
<1>. QED BY <1>9, <1>10 DEF PoolPart

(* The nodes of a process that dies belong to nobody. *)
LEMMA CrashPool ==
  ASSUME TypeInv, PoolPart, NEW p \in Procs, Crash(p), Clean'
  PROVE  PoolPart'
<1>1. /\ Return(p) /\ own' = Reown(p, Nobody)
      /\ UNCHANGED <<next, data, free, used, live, stk>>
  BY DEF Crash, shm
<1>2. pc[p] # "s_count"
  BY DEF Crash, Clean
<1>3. FreeInv /\ MarkInv /\ ChainInv /\ LiveInv
  BY DEF PoolPart, ShapeInv
<1>4. Alone(p) /\ pc'[p] = "idle" /\ chain'[p] = <<>>
  BY <1>1, ReturnAlone
<1>5. /\ About({p})
      /\ \A n \in Node : own[n] = p => own'[n] = Nobody
      /\ \A n \in Node : own'[n] = own[n] \/ own[n] = p
  BY <1>1, ReownFacts
<1>6. {p} \cap Procs \subseteq {p} /\ {p} \cap Node = {} /\ Free \notin {p}
  BY Owners
<1>7. ProcInv(p)'
  BY <1>4, EmptyProc DEF Saving, Freeing
<1>8. FreeInv' /\ ChainInv' /\ LiveInv'
  BY <1>1, <1>3, <1>4, <1>5, <1>6, <1>7, FreeKept, OthersKept, LiveKept
<1>9. MarkInv'
  BY <1>1, <1>3, <1>5 DEF MarkInv
<1>10. CountInv'
  BY <1>1, <1>2, <1>4, CountKept DEF PoolPart, Counting
<1>. QED BY <1>8, <1>9, <1>10 DEF PoolPart, ShapeInv

-----------------------------------------------------------------------------
(***************************************************************************)
(* The theorems about the pool.                                            *)
(***************************************************************************)

PoolClean == Clean => PoolPart

LEMMA PoolInit == Init => PoolClean
<1>. SUFFICES ASSUME Init PROVE PoolPart
  BY DEF PoolClean
<1>. USE DEF Init
<1>0. NodeCount \in Nat /\ NodeCount >= 2
  BY VmemSizes
<1>1. Len(stk) = NodeCount - 1 /\ \A i \in 1 .. NodeCount - 1 : stk[i] = NodeCount - i /\ stk[i] \in Node
  <2>1. NodeCount - 1 \in Nat
    BY <1>0
  <2>2. DOMAIN stk = 1 .. NodeCount - 1
    OBVIOUS
  <2>3. stk \in Seq(Node)
    BY TypeInit DEF TypeInv, TypeOK, HistoryOK
  <2>4. Len(stk) = NodeCount - 1
    BY <2>1, <2>2, <2>3, LenProperties
  <2>. QED BY <1>0, <2>4 DEF Node
<1>2. FreeInv
  <2>1. Distinct(stk)
    BY <1>0, <1>1 DEF Distinct
  <2>2. free = IF Len(stk) = 0 THEN End ELSE stk[Len(stk)]
    BY <1>0, <1>1
  <2>3. \A i \in 1 .. Len(stk) : own[stk[i]] = Free
    BY <1>1
  <2>4. \A i \in 1 .. Len(stk) : next[stk[i]] = IF i = 1 THEN End ELSE stk[i - 1]
    <3>. SUFFICES ASSUME NEW i \in 1 .. NodeCount - 1
                  PROVE  next[stk[i]] = IF i = 1 THEN End ELSE stk[i - 1]
      BY <1>1
    <3>1. next[stk[i]] = NodeCount - i + 1
      BY <1>1
    <3>2. i # 1 => i - 1 \in 1 .. NodeCount - 1 /\ NodeCount - (i - 1) = NodeCount - i + 1
      BY <1>0
    <3>3. i = 1 => NodeCount - i + 1 = NodeCount
      BY <1>0
    <3>. QED BY <1>1, <3>1, <3>2, <3>3 DEF End
  <2>. QED BY <2>1, <2>2, <2>3, <2>4 DEF FreeInv
<1>3. MarkInv
  BY <1>0 DEF MarkInv, Mark, Node
<1>4. ChainInv
  BY DEF ChainInv, ChainOf, Distinct, SaveInv, FreeingInv, Saving, Freeing
<1>5. LiveInv
  BY DEF LiveInv, NoEntry
<1>6. CountInv
  BY <1>0, <1>1 DEF CountInv
<1>. QED BY <1>2, <1>3, <1>4, <1>5, <1>6 DEF PoolPart, ShapeInv

(* Steps in which no process does anything. *)
LEMMA StillPool ==
  ASSUME PoolPart, UNCHANGED <<next, data, free, used, stk, own, live, pc, cur, need, val, chain>>
  PROVE  PoolPart'
<1>1. FreeInv' /\ MarkInv'
  BY DEF PoolPart, ShapeInv, FreeInv, MarkInv, Distinct
<1>2. ChainInv'
  BY DEF PoolPart, ShapeInv, ChainInv, ChainOf, Distinct, SaveInv, FreeingInv, Last, Part
<1>3. LiveInv'
  BY DEF PoolPart, ShapeInv, LiveInv, ChainOf, Distinct
<1>4. CountInv'
  BY DEF PoolPart, CountInv
<1>. QED BY <1>1, <1>2, <1>3, <1>4 DEF PoolPart, ShapeInv

LEMMA PoolNext == TypeInv /\ LockPart /\ PoolClean /\ [Next]_vars => PoolClean'
<1>. SUFFICES ASSUME TypeInv, LockPart, PoolClean, [Next]_vars, Clean' PROVE PoolPart'
  BY DEF PoolClean
<1>1. LockInv /\ PoolPart
  BY TaintGrows DEF Clean, LockPart, PoolClean
<1>2. TypeInv'
  BY TypeStep
<1>3. CASE Tick \/ UNCHANGED vars
  BY <1>1, <1>3, StillPool DEF Tick, vars, shm, locals, ghosts
<1>4. ASSUME NEW p \in Procs, Call(p) PROVE PoolPart'
  BY <1>1, <1>4, StartPool, FreeStartPool DEF Call
<1>5. ASSUME NEW p \in Procs, Save(p) PROVE PoolPart'
  BY <1>1, <1>2, <1>5, QuietSave, SaveCheckPool, SaveScanPool, SaveGetPool, SaveCountPool,
     SaveCopyPool, SaveLastPool, SaveReleasePool DEF Save
<1>6. ASSUME NEW p \in Procs, FreeVmem(p) PROVE PoolPart'
  BY <1>1, <1>6, QuietFree, FreeNodePool, FreeMarkPool DEF FreeVmem
<1>7. ASSUME NEW p \in Procs, CheckVmem(p) PROVE PoolPart'
  BY <1>1, <1>7, QuietCheck, CheckLinkPool DEF CheckVmem
<1>8. ASSUME NEW p \in Procs, Crash(p) PROVE PoolPart'
  BY <1>1, <1>8, CrashPool
<1>. QED BY <1>3, <1>4, <1>5, <1>6, <1>7, <1>8 DEF Next, Step

LEMMA PoolCorrect == Spec => [](TypeInv /\ PoolClean)
<1>1. Init => TypeInv /\ LockPart /\ PoolClean
  BY TypeInit, LockInit, PoolInit
<1>2. TypeInv /\ LockPart /\ PoolClean /\ [Next]_vars => (TypeInv /\ LockPart /\ PoolClean)'
  BY TypeStep, LockNext, PoolNext
<1>. QED BY <1>1, <1>2, PTL DEF Spec

(* An index that a save returned and nobody freed still reads back the content that was *)
(* saved, whatever other processes save, free, mark, recycle or leave half done when    *)
(* they die: for any number of processes and nodes, while the lock is only taken over   *)
(* from the dead (MtReport_SaveToVmem, MtReport_GetFromVmem).                           *)
THEOREM ReadsBackCorrect == Spec => []LiveReadsBack
<1>1. TypeInv /\ PoolClean => LiveReadsBack
  <2>. SUFFICES ASSUME TypeInv, PoolPart, NEW h \in Node, Live(h)
                PROVE  /\ Visits(h, live[h].seq)
                       /\ GetFromVmem(live[h].seq)
                            = [i \in 1 .. Len(live[h].seq) |-> Piece(live[h].val, i)]
    BY DEF LiveReadsBack, PoolClean
  <2>. DEFINE s == live[h].seq
  <2>1. s \in Seq(Node) /\ s # <<>>
    BY DEF TypeInv, TypeOK, HistoryOK, Live
  <2>2. Len(s) # 0
    BY <2>1, EmptyFacts
  <2>3. /\ ChainOf(s, h) /\ s[1] = h /\ next[s[Len(s)]] = End
        /\ \A i \in 1 .. Len(s) : data[s[i]] = Piece(live[h].val, i)
    BY <2>2 DEF PoolPart, ShapeInv, LiveInv
  <2>4. Visits(h, s)
    BY <2>1, <2>3, Owners DEF Visits, ChainOf
  <2>5. GetFromVmem(s) = [i \in 1 .. Len(s) |-> Piece(live[h].val, i)]
    BY <2>3 DEF GetFromVmem
  <2>. QED BY <2>4, <2>5
<1>. QED BY <1>1, PoolCorrect, PTL

(* wNodeUsed counts at least the nodes that are not on the free list and never wraps, so *)
(* COMM_LIB_BUG is not reached and a save that passed the test finds every node it needs *)
(* (SaveToVmem, VMEM_GET_FREE_NODE), for any number of processes and nodes.              *)
THEOREM UsedCorrect == Spec => []UsedCovers
<1>1. TypeInv /\ PoolClean => UsedCovers
  <2>1. TypeInv /\ PoolPart => used \in 1 .. NodeCount
    BY CountLow DEF PoolPart
  <2>2. PoolPart => \A p \in Procs : pc[p] # "wild"
    BY DEF PoolPart, CountInv
  <2>. QED BY <2>1, <2>2 DEF UsedCovers, PoolClean
<1>. QED BY <1>1, PoolCorrect, PTL

====
