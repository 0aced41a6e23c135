-------------------------- MODULE WarnQueue_proofs --------------------------
(***************************************************************************)
(* What the processes of the alarms keep for any number of alarms, nodes   *)
(* and senders.                                                            *)
(***************************************************************************)
EXTENDS WarnQueue, TLAPS

-----------------------------------------------------------------------------
(* The inductive invariant. *)

Filling == {"warn", "time", "id"}
Holding == {"send", "clear"}

(* An alarm that slog_check_warn deals with has a row. *)
CurInv == cpc \in {"find", "update"} \cup Filling => cur.alarm \in Alarms /\ cur.wid \in Wids

TypeInv == TypeOK /\ CurInv

(* No alarm grew too old, and none came into a node that was still being cleared. *)
InTime == "overdue" \notin taint /\ "wiped" \notin taint

(* As long as that is so: *)
Young  == \A n \in Nodes : node[n].id # 0 => node[n].age < Valid
Paired == \A n \in Nodes : node[n].id # 0 => node[n].warn.wid = node[n].id

(* ... the node that is filled is nobody else's, ... *)
Reserved == /\ cpc \in Filling => node[at].id = 0
            /\ cpc \in {"time", "id"} => node[at].warn = cur

(* ... a sender works on nodes of its own, ... *)
Owned == \A p \in Senders :
           /\ pc[p] # "expire"
           /\ pc[p] \in Holding => node[j[p]].id # 0 /\ node[j[p]].id % Procs = p
           /\ pc[p] = "clear" => node[j[p]].sent

(* ... and while no sender died behind an alarm it sent, sent alarms are about to be cleared. *)
Sent == \A n \in Nodes : node[n].id # 0 /\ node[n].sent =>
                           \E p \in Senders : pc[p] = "clear" /\ j[p] = n

Timely == Young /\ Paired /\ Reserved /\ Owned

QueueInv ==
  /\ InTime => Timely /\ wrong \cap {"lost", "torn"} = {}
  /\ taint = {} => Sent /\ "twice" \notin wrong

-----------------------------------------------------------------------------
(***************************************************************************)
(* Types.                                                                  *)
(***************************************************************************)
Entry == [id : Wids \cup {0}, warn : Warnings, age : 0 .. Oldest, sent : BOOLEAN]
Rows  == [wid : Wids \cup {0}, status : {"none", "do", "ok", "mask"}]

CheckerOK ==
  /\ checked \in BOOLEAN /\ list \subseteq Found
  /\ cpc \in {"idle", "next", "find", "warn", "time", "id", "update"}
  /\ at \in Nodes /\ lastIdx \in Nodes /\ cur \in Warnings
  /\ upd \in {"none", "mask", "keep", "new"}
  /\ clag \in 0 .. MaxLag

SendersOK ==
  /\ pc \in [Senders -> {"loop", "node", "expire", "send", "clear", "wipe", "dead"}]
  /\ j \in [Senders -> Nodes] /\ lag \in [Senders -> 0 .. MaxLag]
  /\ told \in [Senders -> Alarms \cup {None}]

TableOK == row \in [Alarms -> Rows] /\ node \in [Nodes -> Entry]

HistOK ==
  /\ wrong \subseteq {"lost", "twice", "torn"} /\ taint \subseteq {"overdue", "wiped", "died"}
  /\ faults \in 0 .. MaxFaults

LEMMA TypeParts == TypeOK <=> CheckerOK /\ SendersOK /\ TableOK /\ HistOK
BY DEF TypeOK, CheckerOK, SendersOK, TableOK, HistOK, Entry, Rows

LEMMA TypePartsNext == TypeOK' <=> CheckerOK' /\ SendersOK' /\ TableOK' /\ HistOK'
BY DEF TypeOK, CheckerOK, SendersOK, TableOK, HistOK, Entry, Rows

LEMMA Sizes ==
  /\ NNodes \in Nat /\ NNodes >= 1 /\ Procs \in Nat /\ Procs >= 1
  /\ Valid \in Nat /\ Valid >= 1 /\ MaxLag \in Nat /\ MaxLag >= 1 /\ MaxFaults \in Nat
  /\ Oldest = Valid + MaxLag + 1 /\ 1 \in Nodes /\ 0 \notin Wids /\ 0 \notin Alarms
  /\ 0 \in 0 .. MaxLag /\ Oldest \in 0 .. Oldest /\ 0 .. MaxLag \subseteq 0 .. Oldest
BY WarnSizes DEF Oldest, Nodes

LEMMA WrapIn ==
  ASSUME NEW n \in Nodes, NEW k \in 0 .. NNodes
  PROVE  Wrap(n + k) \in Nodes /\ Wrap(n + 1) \in Nodes
BY Sizes DEF Wrap, Nodes

LEMMA WarnIn ==
  /\ NoAlarm \in Warnings /\ Empty \in Entry
  /\ \A a \in Alarms, w \in Wids : [alarm |-> a, wid |-> w] \in Warnings
  /\ \A w \in Warnings : w.alarm \in Alarms \cup {None}
BY Sizes DEF Warnings, NoAlarm, Empty, Entry, None

LEMMA TypeInit == Init => TypeInv
<1> SUFFICES ASSUME Init PROVE TypeInv
  OBVIOUS
<1>1. CheckerOK
  BY Sizes, WarnIn DEF Init, CheckerOK
<1>4. SendersOK
  BY Sizes DEF Init, SendersOK
<1>5. HistOK
  BY Sizes DEF Init, HistOK
<1>2. TableOK
  BY WarnIn DEF Init, TableOK, Rows
<1>3. CurInv
  BY DEF Init, CurInv, Filling
<1> QED BY <1>1, <1>2, <1>3, <1>4, <1>5, TypeParts DEF TypeInv

LEMMA EndPassOK ==
  ASSUME TypeInv, EndPass, checked' \in BOOLEAN, lastIdx' \in Nodes
  PROVE  CheckerOK' /\ CurInv'
BY Sizes, WarnIn, TypeParts DEF TypeInv, EndPass, CheckerOK, CurInv, Filling

LEMMA DealWarnType ==
  ASSUME TypeInv, NEW w \in Found, DealWarn(w)
  PROVE  TypeInv'
<1>1. UNCHANGED <<node, checked, lastIdx, sender, wrong, taint>> /\ cpc = "next" /\ w \in list
  BY DEF DealWarn
<1>t. CheckerOK /\ SendersOK /\ TableOK /\ HistOK
  BY TypeParts DEF TypeInv
<1>w. w.alarm \in Alarms /\ w.mask \in BOOLEAN
  BY DEF Found
<1>2. SendersOK'
  BY <1>1, <1>t DEF SendersOK, sender
<1>r. row[w.alarm] \in Rows /\ row[w.alarm].wid \in Wids \cup {0}
  BY <1>t, <1>w DEF TableOK, Rows
<1>3. CASE OpenRow(w) /\ list' = list \ {w}
  <2>1. PICK id \in Wids : cur' = [alarm |-> w.alarm, wid |-> id]
    BY <1>3, <1>r DEF OpenRow, HasRow
  <2>2. cur' \in Warnings /\ cur'.alarm \in Alarms /\ cur'.wid \in Wids
    BY <1>w, <2>1, WarnIn
  <2>3. upd' \in {"none", "mask", "keep", "new"} /\ cpc' \in {"find", "update"}
    BY <1>3 DEF OpenRow
  <2>4. UNCHANGED <<row, at, clag, faults>>
    BY <1>3 DEF OpenRow
  <2>5. CheckerOK'
    BY <1>1, <1>3, <1>t, <2>2, <2>3, <2>4 DEF CheckerOK
  <2>6. TableOK' /\ HistOK' /\ CurInv'
    BY <1>1, <1>t, <2>2, <2>4 DEF TableOK, HistOK, CurInv
  <2> QED BY <1>2, <2>5, <2>6, TypePartsNext DEF TypeInv
<1>4. CASE NewRow(w) /\ list' = list \ {w}
  <2>1. PICK id \in Wids :
          /\ row' = [row EXCEPT ![w.alarm] = [wid |-> id, status |-> IF w.mask THEN "mask" ELSE "none"]]
          /\ cur' = [alarm |-> w.alarm, wid |-> id]
    BY <1>4 DEF NewRow
  <2>2. cur' \in Warnings /\ cur'.alarm \in Alarms /\ cur'.wid \in Wids
    BY <1>w, <2>1, WarnIn
  <2>3. upd' = "new" /\ cpc' \in {"find", "update"} /\ UNCHANGED <<at, clag>>
    BY <1>4 DEF NewRow
  <2>7. faults' \in 0 .. MaxFaults
    BY <1>4, <1>t, Sizes DEF NewRow, Fault, HistOK
  <2>4. CheckerOK'
    BY <1>1, <1>4, <1>t, <2>2, <2>3 DEF CheckerOK
  <2>5. row' \in [Alarms -> Rows]
    <3>1. [wid |-> id, status |-> IF w.mask THEN "mask" ELSE "none"] \in Rows
      BY DEF Rows
    <3> QED BY <1>t, <1>w, <2>1, <3>1 DEF TableOK
  <2>6. TableOK' /\ HistOK' /\ CurInv'
    BY <1>1, <1>t, <2>2, <2>3, <2>5, <2>7 DEF TableOK, HistOK, CurInv
  <2> QED BY <1>2, <2>4, <2>6, TypePartsNext DEF TypeInv
<1>5. CASE NewRowFails
  <2>1. Fault /\ EndPass /\ UNCHANGED row
    BY <1>5 DEF NewRowFails
  <2>2. faults' \in 0 .. MaxFaults
    BY <1>t, <2>1, Sizes DEF Fault, HistOK
  <2>3. CheckerOK' /\ CurInv'
    BY <1>1, <1>t, <2>1, EndPassOK DEF CheckerOK
  <2>4. TableOK' /\ HistOK'
    BY <1>1, <1>t, <2>1, <2>2 DEF TableOK, HistOK
  <2> QED BY <1>2, <2>3, <2>4, TypePartsNext DEF TypeInv
<1> QED BY <1>3, <1>4, <1>5 DEF DealWarn

LEMMA CheckerType ==
  ASSUME TypeInv, Checker \/ CheckerDies
  PROVE  TypeInv'
<1>t. CheckerOK /\ SendersOK /\ TableOK /\ HistOK /\ CurInv
  BY TypeParts DEF TypeInv
<1>1. ASSUME NEW S \in SUBSET Found, CheckAttrWarn(S) PROVE TypeInv'
  <2>1. UNCHANGED <<row, node, cur, upd, at, lastIdx, sender, wrong, taint, faults>>
    BY <1>1 DEF CheckAttrWarn
  <2>2. CheckerOK' /\ CurInv'
    BY <1>1, <1>t, <2>1, Sizes DEF CheckAttrWarn, CheckerOK, CurInv, Filling
  <2>3. SendersOK' /\ TableOK' /\ HistOK'
    BY <1>t, <2>1 DEF SendersOK, TableOK, HistOK, sender
  <2> QED BY <2>2, <2>3, TypePartsNext DEF TypeInv
<1>2. CASE AddSendWarnToShm
  <2>1. UNCHANGED <<row, node, checked, list, cur, upd, clag, sender, wrong, taint, faults>>
        /\ cpc = "find" /\ cpc' \in {"warn", "update"}
    BY <1>2 DEF AddSendWarnToShm
  <2>2. at' \in Nodes /\ lastIdx' \in Nodes
    <3>0. lastIdx \in Nodes /\ at \in Nodes /\ 0 .. NNodes - 1 \subseteq 0 .. NNodes /\ 0 \in 0 .. NNodes
      BY <1>t, Sizes DEF CheckerOK
    <3>1. CASE UNCHANGED <<at, lastIdx>>
      BY <3>0, <3>1
    <3>2. CASE \E k \in 0 .. NNodes - 1 : at' = Wrap(lastIdx + k) /\ lastIdx' = Wrap(Wrap(lastIdx + k) + 1)
      <4>1. PICK k \in 0 .. NNodes : at' = Wrap(lastIdx + k) /\ lastIdx' = Wrap(Wrap(lastIdx + k) + 1)
        BY <3>0, <3>2
      <4>2. Wrap(lastIdx + k) \in Nodes
        BY <3>0, WrapIn
      <4>3. Wrap(Wrap(lastIdx + k) + 1) \in Nodes
        BY <3>0, <4>2, WrapIn
      <4> QED BY <4>1, <4>2, <4>3
    <3>3. CASE \E k \in 0 .. NNodes - 1 : at' = Wrap(lastIdx + k) /\ lastIdx' = Wrap(lastIdx + 1)
      BY <3>0, <3>3, WrapIn
    <3> QED BY <1>2, <3>1, <3>2, <3>3 DEF AddSendWarnToShm
  <2>3. CheckerOK' /\ CurInv'
    BY <1>t, <2>1, <2>2 DEF CheckerOK, CurInv, Filling
  <2>4. SendersOK' /\ TableOK' /\ HistOK'
    BY <1>t, <2>1 DEF SendersOK, TableOK, HistOK, sender
  <2> QED BY <2>3, <2>4, TypePartsNext DEF TypeInv
<1>3. CASE StoreWarn \/ StoreTime \/ StoreId
  <2>1. UNCHANGED <<row, checked, list, cur, upd, at, clag, lastIdx, sender, faults>>
        /\ cpc \in Filling /\ cpc' \in {"time", "id", "update"}
    BY <1>3 DEF StoreWarn, StoreTime, StoreId, Filling
  <2>2. CheckerOK' /\ CurInv' /\ SendersOK'
    BY <1>t, <2>1 DEF CheckerOK, CurInv, Filling, SendersOK, sender
  <2>3. at \in Nodes /\ cur \in Warnings /\ cur.wid \in Wids /\ clag \in 0 .. Oldest /\ node[at] \in Entry
    BY <1>t, <2>1, Sizes DEF CheckerOK, CurInv, TableOK
  <2>4. node' \in [Nodes -> Entry]
    <3>1. CASE StoreWarn
      BY <1>t, <2>3, <3>1 DEF StoreWarn, TableOK, Entry
    <3>2. CASE StoreTime
      BY <1>t, <2>3, <3>2 DEF StoreTime, TableOK, Entry
    <3>3. CASE StoreId
      BY <1>t, <2>3, <3>3 DEF StoreId, TableOK, Entry
    <3> QED BY <1>3, <3>1, <3>2, <3>3
  <2>5. TableOK' /\ HistOK'
    BY <1>3, <1>t, <2>1, <2>4 DEF TableOK, HistOK, StoreWarn, StoreTime, StoreId, Loses
  <2> QED BY <2>2, <2>5, TypePartsNext DEF TypeInv
<1>4. CASE UpdateRow
  <2>1. UNCHANGED <<node, checked, lastIdx, sender, wrong, taint>>
    BY <1>4 DEF UpdateRow
  <2>2. CASE /\ row' = [row EXCEPT ![cur.alarm].status = IF upd \in {"keep", "new"} THEN @ ELSE upd]
             /\ cpc' = "next" /\ cur' = NoAlarm /\ upd' = "keep" /\ at' = 1
             /\ UNCHANGED <<list, clag, faults>>
    <3>1. CheckerOK' /\ CurInv'
      BY <1>t, <2>1, <2>2, Sizes, WarnIn DEF CheckerOK, CurInv, Filling
    <3>2. row' \in [Alarms -> Rows]
      BY <1>t, <2>2 DEF TableOK, CheckerOK, Rows
    <3>3. SendersOK' /\ TableOK' /\ HistOK'
      BY <1>t, <2>1, <2>2, <3>2 DEF SendersOK, TableOK, HistOK, sender
    <3> QED BY <3>1, <3>3, TypePartsNext DEF TypeInv
  <2>3. CASE Fault /\ EndPass /\ UNCHANGED row
    <3>1. CheckerOK' /\ CurInv'
      BY <1>t, <2>1, <2>3, EndPassOK DEF CheckerOK
    <3>2. faults' \in 0 .. MaxFaults
      BY <1>t, <2>3, Sizes DEF Fault, HistOK
    <3>3. SendersOK' /\ TableOK' /\ HistOK'
      BY <1>t, <2>1, <2>3, <3>2 DEF SendersOK, TableOK, HistOK, sender
    <3> QED BY <3>1, <3>3, TypePartsNext DEF TypeInv
  <2> QED BY <1>4, <2>2, <2>3 DEF UpdateRow
<1>5. CASE PassEnds
  <2>1. EndPass /\ UNCHANGED <<row, node, checked, lastIdx, sender, wrong, taint, faults>>
    BY <1>5 DEF PassEnds
  <2>2. CheckerOK' /\ CurInv'
    BY <1>t, <2>1, EndPassOK DEF CheckerOK
  <2>3. SendersOK' /\ TableOK' /\ HistOK'
    BY <1>t, <2>1 DEF SendersOK, TableOK, HistOK, sender
  <2> QED BY <2>2, <2>3, TypePartsNext DEF TypeInv
<1>6. CASE CheckerDies
  <2>1. Fault /\ EndPass /\ checked' = FALSE /\ lastIdx' = 1 /\ UNCHANGED <<row, node, sender, wrong, taint>>
    BY <1>6 DEF CheckerDies
  <2>2. CheckerOK' /\ CurInv'
    BY <2>1, Sizes, EndPassOK
  <2>3. faults' \in 0 .. MaxFaults
    BY <1>t, <2>1, Sizes DEF Fault, HistOK
  <2>4. SendersOK' /\ TableOK' /\ HistOK'
    BY <1>t, <2>1, <2>3 DEF SendersOK, TableOK, HistOK, sender
  <2> QED BY <2>2, <2>4, TypePartsNext DEF TypeInv
<1> QED BY <1>1, <1>2, <1>3, <1>4, <1>5, <1>6, DealWarnType DEF Checker

LEMMA SenderType ==
  ASSUME TypeInv, NEW p \in Senders, Sender(p) \/ Die(p)
  PROVE  TypeInv'
<1>t. CheckerOK /\ SendersOK /\ TableOK /\ HistOK /\ CurInv
  BY TypeParts DEF TypeInv
<1>1. UNCHANGED <<row, checked, checker, lastIdx, faults>>
  BY DEF Sender, ScanSendWarnShm, ScanNode, ExpireNode, SendWarn, ClearId, ClearRest, Die
<1>2. CheckerOK' /\ CurInv'
  BY <1>1, <1>t DEF CheckerOK, CurInv, checker
<1>n. j[p] \in Nodes /\ node[j[p]] \in Entry /\ node[j[p]].warn \in Warnings
  BY <1>t DEF SendersOK, TableOK, Entry
<1>3. ASSUME NextNode(p) PROVE /\ pc' \in [Senders -> {"loop", "node", "expire", "send", "clear", "wipe", "dead"}]
                               /\ j' \in [Senders -> Nodes] /\ lag' \in [Senders -> 0 .. MaxLag]
  <2>1. CASE j[p] = NNodes
    BY <1>3, <1>t, <2>1, Sizes DEF NextNode, Go, SendersOK
  <2>2. CASE j[p] # NNodes
    <3>1. j[p] + 1 \in Nodes
      BY <1>n, <2>2, Sizes DEF Nodes
    <3> QED BY <1>3, <1>t, <2>2, <3>1 DEF NextNode, Go, SendersOK
  <2> QED BY <2>1, <2>2
<1>4. CASE ScanSendWarnShm(p) \/ ScanNode(p)
  <2>1. UNCHANGED <<node, told, wrong, taint>>
    BY <1>4 DEF ScanSendWarnShm, ScanNode
  <2>2. SendersOK'
    <3>1. CASE Go(p, "node") /\ UNCHANGED <<j, lag>>
      BY <1>t, <2>1, <3>1 DEF SendersOK, Go
    <3>2. CASE Go(p, "expire") /\ UNCHANGED <<j, lag>>
      BY <1>t, <2>1, <3>2 DEF SendersOK, Go
    <3>3. CASE Go(p, "send") /\ UNCHANGED <<j, lag>>
      BY <1>t, <2>1, <3>3 DEF SendersOK, Go
    <3>4. CASE NextNode(p)
      BY <1>3, <1>t, <2>1, <3>4 DEF SendersOK
    <3> QED BY <1>4, <3>1, <3>2, <3>3, <3>4 DEF ScanSendWarnShm, ScanNode
  <2>3. TableOK' /\ HistOK'
    BY <1>1, <1>t, <2>1 DEF TableOK, HistOK
  <2> QED BY <1>2, <2>2, <2>3, TypePartsNext DEF TypeInv
<1>5. CASE ExpireNode(p)
  <2>1. NextNode(p) /\ UNCHANGED <<told, taint>> /\ Loses(node[j[p]]) /\ node' = [node EXCEPT ![j[p]].id = 0]
    BY <1>5 DEF ExpireNode
  <2>2. SendersOK'
    BY <1>3, <1>t, <2>1 DEF SendersOK
  <2>3. TableOK'
    BY <1>1, <1>n, <1>t, <2>1 DEF TableOK, Entry
  <2>4. HistOK'
    BY <1>1, <1>t, <2>1 DEF HistOK, Loses
  <2> QED BY <1>2, <2>2, <2>3, <2>4, TypePartsNext DEF TypeInv
<1>6. CASE SendWarn(p)
  <2>1. /\ UNCHANGED <<j, lag, taint>> /\ Go(p, "clear") /\ node' = [node EXCEPT ![j[p]].sent = TRUE]
        /\ told' = [told EXCEPT ![p] = node[j[p]].warn.alarm]
    BY <1>6 DEF SendWarn
  <2>2. SendersOK'
    BY <1>n, <1>t, <2>1, WarnIn DEF SendersOK, Go
  <2>3. TableOK'
    BY <1>1, <1>n, <1>t, <2>1 DEF TableOK, Entry
  <2>4. HistOK'
    BY <1>1, <1>6, <1>t, <2>1 DEF HistOK, SendWarn
  <2> QED BY <1>2, <2>2, <2>3, <2>4, TypePartsNext DEF TypeInv
<1>7. CASE ClearId(p)
  <2>1. /\ UNCHANGED <<j, lag, taint>> /\ Go(p, "wipe") /\ Loses(node[j[p]])
        /\ node' = [node EXCEPT ![j[p]].id = 0, ![j[p]].sent = FALSE]
        /\ told' = [told EXCEPT ![p] = None]
    BY <1>7 DEF ClearId
  <2>2. SendersOK'
    BY <1>t, <2>1 DEF SendersOK, Go
  <2>3. TableOK'
    BY <1>1, <1>n, <1>t, <2>1 DEF TableOK, Entry
  <2>4. HistOK'
    BY <1>1, <1>t, <2>1 DEF HistOK, Loses
  <2> QED BY <1>2, <2>2, <2>3, <2>4, TypePartsNext DEF TypeInv
<1>9. CASE ClearRest(p)
  <2>1. /\ NextNode(p) /\ UNCHANGED told /\ Loses(node[j[p]])
        /\ node' = [node EXCEPT ![j[p]].age = Oldest, ![j[p]].warn = NoAlarm]
        /\ taint' = taint \cup (IF Refilled(j[p]) THEN {"wiped"} ELSE {})
    BY <1>9 DEF ClearRest
  <2>2. SendersOK'
    BY <1>3, <1>t, <2>1 DEF SendersOK
  <2>3. TableOK'
    BY <1>1, <1>n, <1>t, <2>1, WarnIn, Sizes DEF TableOK, Entry
  <2>4. HistOK'
    BY <1>1, <1>t, <2>1 DEF HistOK, Loses
  <2> QED BY <1>2, <2>2, <2>3, <2>4, TypePartsNext DEF TypeInv
<1>8. CASE Die(p)
  <2>1. SendersOK'
    BY <1>8, <1>t, Sizes DEF Die, Go, SendersOK
  <2>2. TableOK' /\ HistOK'
    BY <1>1, <1>8, <1>t DEF Die, TableOK, HistOK
  <2> QED BY <1>2, <2>1, <2>2, TypePartsNext DEF TypeInv
<1> QED BY <1>4, <1>5, <1>6, <1>7, <1>8, <1>9 DEF Sender

LEMMA OtherType ==
  ASSUME TypeInv,
         \/ \E a \in Alarms : DealMultiWarns(a) \/ RowTooOld(a)
         \/ RestartSenders \/ Tick \/ UNCHANGED vars
  PROVE  TypeInv'
<1>t. CheckerOK /\ SendersOK /\ TableOK /\ HistOK /\ CurInv
  BY TypeParts DEF TypeInv
<1>1. ASSUME NEW a \in Alarms, DealMultiWarns(a) \/ RowTooOld(a) PROVE TypeInv'
  <2>1. UNCHANGED <<node, checked, checker, lastIdx, sender, wrong, taint, faults>>
    BY <1>1 DEF DealMultiWarns, RowTooOld
  <2>2. row' \in [Alarms -> Rows]
    BY <1>1, <1>t DEF DealMultiWarns, RowTooOld, TableOK, Rows
  <2>3. CheckerOK' /\ SendersOK' /\ CurInv'
    BY <1>t, <2>1 DEF CheckerOK, SendersOK, CurInv, checker, sender
  <2>4. TableOK' /\ HistOK'
    BY <1>t, <2>1, <2>2 DEF TableOK, HistOK
  <2> QED BY <2>3, <2>4, TypePartsNext DEF TypeInv
<1>2. CASE RestartSenders
  <2>1. UNCHANGED <<row, node, checked, checker, lastIdx, j, lag, told, wrong, taint, faults>>
        /\ pc' = [p \in Senders |-> "loop"]
    BY <1>2 DEF RestartSenders
  <2>2. CheckerOK' /\ SendersOK' /\ CurInv'
    BY <1>t, <2>1 DEF CheckerOK, SendersOK, CurInv, checker
  <2>3. TableOK' /\ HistOK'
    BY <1>t, <2>1 DEF TableOK, HistOK
  <2> QED BY <2>2, <2>3, TypePartsNext DEF TypeInv
<1>3. CASE Tick
  <2>1. UNCHANGED <<row, cpc, list, cur, upd, at, lastIdx, pc, j, told, wrong, faults>> /\ checked' = FALSE
    BY <1>3 DEF Tick
  <2>2. clag' \in 0 .. MaxLag
    BY <1>3, <1>t, Sizes DEF Tick, CheckerOK
  <2>3. CheckerOK' /\ CurInv'
    BY <1>t, <2>1, <2>2 DEF CheckerOK, CurInv
  <2>4. lag' \in [Senders -> 0 .. MaxLag]
    <3>1. \A p \in Senders : (IF Scanning(p) THEN lag[p] + 1 ELSE 0) \in 0 .. MaxLag
      BY <1>3, <1>t, Sizes DEF Tick, SendersOK
    <3>2. lag' = [p \in Senders |-> IF Scanning(p) THEN lag[p] + 1 ELSE 0]
      BY <1>3 DEF Tick
    <3> QED BY <3>1, <3>2
  <2>5. SendersOK'
    BY <1>t, <2>1, <2>4 DEF SendersOK
  <2>6. node' \in [Nodes -> Entry]
    <3>1. \A n \in Nodes : [node[n] EXCEPT !.age = IF node[n].age = Oldest THEN node[n].age ELSE node[n].age + 1]
                             \in Entry
      <4> SUFFICES ASSUME NEW n \in Nodes
                   PROVE  [node[n] EXCEPT !.age = IF node[n].age = Oldest THEN node[n].age ELSE node[n].age + 1]
                             \in Entry
        OBVIOUS
      <4>1. node[n] \in Entry /\ node[n].age \in 0 .. Oldest
        BY <1>t DEF TableOK, Entry
      <4>2. PICK a \in 0 .. Oldest : a = IF node[n].age = Oldest THEN node[n].age ELSE node[n].age + 1
        BY <4>1, Sizes
      <4>3. [node[n] EXCEPT !.age = a] \in Entry
        BY <4>1 DEF Entry
      <4> QED BY <4>2, <4>3
    <3>2. node' = [n \in Nodes |->
             [node[n] EXCEPT !.age = IF node[n].age = Oldest THEN node[n].age ELSE node[n].age + 1]]
      BY <1>3 DEF Tick
    <3> QED BY <3>1, <3>2
  <2>7. TableOK' /\ HistOK'
    BY <1>3, <1>t, <2>1, <2>6 DEF TableOK, HistOK, Tick
  <2> QED BY <2>3, <2>5, <2>7, TypePartsNext DEF TypeInv
<1>4. CASE UNCHANGED vars
  BY <1>4 DEF vars, checker, sender, TypeInv, TypeOK, CurInv
<1> QED BY <1>1, <1>2, <1>3, <1>4

LEMMA TypeNext == TypeInv /\ [Next]_vars => TypeInv'
BY CheckerType, SenderType, OtherType DEF Next

LEMMA TypeInvCorrect == Spec => []TypeInv
BY TypeInit, TypeNext, PTL DEF Spec

(* The table, the rows and the locals of slog_check_warn and of the senders keep their ranges *)
(* for any number of alarms, nodes and senders, whoever dies and whatever grows too old:      *)
(* s_iLastShmNodeIdx stays in the table (AddSendWarnToShm).                                   *)
THEOREM WarnTypeCorrect == Spec => []TypeOK
<1>1. TypeInv => TypeOK
  BY DEF TypeInv
<1> QED BY <1>1, TypeInvCorrect, PTL

-----------------------------------------------------------------------------
(***************************************************************************)
(* What is sent.                                                           *)
(***************************************************************************)
LEMMA QueueInit == Init => QueueInv
<1> SUFFICES ASSUME Init PROVE QueueInv
  OBVIOUS
<1>1. \A n \in Nodes : node[n].id = 0
  BY DEF Init, Empty
<1>2. Young /\ Paired /\ Sent
  BY <1>1 DEF Young, Paired, Sent
<1>3. Reserved /\ Owned /\ wrong = {}
  BY DEF Init, Reserved, Owned, Filling, Holding
<1> QED BY <1>2, <1>3 DEF QueueInv, InTime, Timely

(* A step that leaves the table and the senders alone and fills no node. *)
LEMMA TableKept ==
  ASSUME QueueInv, UNCHANGED <<node, pc, j, wrong, taint>>,
         cpc' \notin Filling \/ UNCHANGED <<cpc, at, cur>>
  PROVE  QueueInv'
<1>1. Reserved => Reserved'
  BY DEF Reserved, Filling
<1>2. (Young => Young') /\ (Paired => Paired') /\ (Owned => Owned') /\ (Sent => Sent')
  BY DEF Young, Paired, Owned, Sent, Holding
<1> QED BY <1>1, <1>2 DEF QueueInv, InTime, Timely

(* The node that AddSendWarnToShm finds is free: while none is too old, none has timed out. *)
LEMMA AddQueue ==
  ASSUME TypeInv, QueueInv, AddSendWarnToShm
  PROVE  QueueInv'
<1>t. CheckerOK /\ TableOK
  BY TypeParts DEF TypeInv
<1>1. UNCHANGED <<row, node, checked, list, cur, upd, clag, sender, wrong, taint, faults>>
      /\ cpc' \in {"warn", "update"}
  BY DEF AddSendWarnToShm
<1>2. (Young => Young') /\ (Paired => Paired') /\ (Owned => Owned') /\ (Sent => Sent')
  BY <1>1 DEF Young, Paired, Owned, Sent, Holding, sender
<1>3. ASSUME Young, cpc' = "warn" PROVE node[at'].id = 0
  <2>1. CASE \E k \in 0 .. NNodes - 1 : node[Wrap(lastIdx + k)].id = 0 /\ at' = Wrap(lastIdx + k)
    BY <2>1
  <2>2. CASE \E k \in 0 .. NNodes - 1 : /\ node[Wrap(lastIdx + k)].age - clag > Valid
                                        /\ node[Wrap(lastIdx + k)].id # 0
    <3>1. PICK k \in 0 .. NNodes : /\ node[Wrap(lastIdx + k)].age - clag > Valid
                                   /\ node[Wrap(lastIdx + k)].id # 0
      BY <2>2, Sizes
    <3>2. PICK n \in Nodes : n = Wrap(lastIdx + k)
      BY <1>t, WrapIn DEF CheckerOK
    <3>3. node[n].age < Valid /\ node[n].age \in 0 .. Oldest /\ clag \in 0 .. MaxLag
      BY <1>3, <1>t, <3>1, <3>2 DEF Young, TableOK, Entry, CheckerOK
    <3> QED BY <3>1, <3>2, <3>3, Sizes
  <2> QED BY <1>3, <2>1, <2>2 DEF AddSendWarnToShm
<1>4. Young => Reserved'
  BY <1>1, <1>3 DEF Reserved, Filling
<1> QED BY <1>1, <1>2, <1>4 DEF QueueInv, InTime, Timely

(* The node at hand has no id until the last of the three stores: no sender is at it. *)
LEMMA StoreWarnQueue ==
  ASSUME TypeInv, QueueInv, StoreWarn \/ StoreTime
  PROVE  QueueInv'
<1>t. CheckerOK /\ TableOK /\ SendersOK
  BY TypeParts DEF TypeInv
<1>1. UNCHANGED <<cur, at, sender, taint>> /\ at \in Nodes
  BY <1>t DEF StoreWarn, StoreTime, CheckerOK
<1>2. \A n \in Nodes : node'[n].id = node[n].id /\ node'[n].sent = node[n].sent /\ (n # at => node'[n] = node[n])
  BY <1>1, <1>t DEF StoreWarn, StoreTime, TableOK, Entry
<1>3. Sent => Sent'
  BY <1>1, <1>2 DEF Sent, sender
<1>4. ASSUME Timely PROVE Timely'
  <2>1. node[at].id = 0
    BY <1>4 DEF Timely, Reserved, Filling, StoreWarn, StoreTime
  <2>2. Young' /\ Paired'
    BY <1>2, <1>4, <2>1 DEF Timely, Young, Paired
  <2>3. Reserved'
    <3>1. CASE StoreWarn
      <4>1. cpc' = "time" /\ node'[at].warn = cur
        BY <1>1, <1>t, <3>1 DEF StoreWarn, TableOK, Entry
      <4> QED BY <1>1, <1>2, <2>1, <4>1 DEF Reserved
    <3>2. CASE StoreTime
      <4>1. cpc = "time" /\ cpc' = "id" /\ node'[at].warn = node[at].warn
        BY <1>1, <1>t, <3>2 DEF StoreTime, TableOK, Entry
      <4> QED BY <1>1, <1>2, <1>4, <2>1, <4>1 DEF Timely, Reserved
    <3> QED BY <3>1, <3>2
  <2>4. Owned'
    <3>1. \A p \in Senders : j[p] \in Nodes
      BY <1>t DEF SendersOK
    <3> QED BY <1>1, <1>2, <1>4, <3>1 DEF Timely, Owned, sender
  <2> QED BY <2>2, <2>3, <2>4 DEF Timely
<1>5. ASSUME Timely PROVE wrong' = wrong
  <2>1. node[at].id = 0
    BY <1>5 DEF Timely, Reserved, Filling, StoreWarn, StoreTime
  <2> QED BY <2>1 DEF StoreWarn, StoreTime, Loses, Pending
<1>6. ("twice" \in wrong') => ("twice" \in wrong)
  BY DEF StoreWarn, StoreTime, Loses
<1> QED BY <1>1, <1>3, <1>4, <1>5, <1>6 DEF QueueInv, InTime

LEMMA StoreIdQueue ==
  ASSUME TypeInv, QueueInv, StoreId
  PROVE  QueueInv'
<1>t. CheckerOK /\ TableOK /\ SendersOK /\ CurInv
  BY TypeParts DEF TypeInv
<1>1. UNCHANGED <<cur, at, sender, wrong>> /\ at \in Nodes /\ cpc = "id" /\ cpc' = "update"
      /\ taint' = taint \cup (IF node[at].age >= Valid THEN {"overdue"} ELSE {})
  BY <1>t DEF StoreId, CheckerOK
<1>2. \A n \in Nodes : n # at => node'[n] = node[n]
  BY <1>1, <1>t DEF StoreId, TableOK
<1>3. node'[at].id = cur.wid /\ node'[at].sent = FALSE /\ node'[at].warn = node[at].warn
      /\ node'[at].age = node[at].age
  BY <1>1, <1>t DEF StoreId, TableOK, Entry
<1>4. ASSUME Sent PROVE Sent'
  <2> SUFFICES ASSUME NEW n \in Nodes, node'[n].id # 0, node'[n].sent
               PROVE  \E p \in Senders : pc'[p] = "clear" /\ j'[p] = n
    BY DEF Sent
  <2>1. n # at
    BY <1>3
  <2>2. PICK p \in Senders : pc[p] = "clear" /\ j[p] = n
    BY <1>2, <1>4, <2>1 DEF Sent
  <2> QED BY <1>1, <2>2 DEF sender
<1>5. ASSUME Timely, "overdue" \notin taint' PROVE Timely'
  <2>1. node[at].id = 0 /\ node[at].warn = cur
    BY <1>1, <1>5 DEF Timely, Reserved, Filling
  <2>2. node[at].age < Valid
    <3>1. node[at].age \in 0 .. Oldest
      BY <1>1, <1>t DEF TableOK, Entry
    <3> QED BY <1>1, <1>5, <3>1, Sizes
  <2>3. Young' /\ Paired'
    BY <1>2, <1>3, <1>5, <2>1, <2>2 DEF Timely, Young, Paired
  <2>4. Reserved'
    BY <1>1 DEF Reserved, Filling
  <2>5. Owned'
    <3>1. \A p \in Senders : j[p] \in Nodes
      BY <1>t DEF SendersOK
    <3>2. \A p \in Senders : pc[p] \in Holding => j[p] # at
      BY <1>5, <2>1 DEF Timely, Owned
    <3>3. \A p \in Senders : pc[p] \in Holding => node'[j[p]] = node[j[p]]
      BY <1>2, <3>1, <3>2
    <3> QED BY <1>1, <1>5, <3>3 DEF Timely, Owned, sender, Holding
  <2> QED BY <2>3, <2>4, <2>5 DEF Timely
<1>6. taint \subseteq taint' /\ wrong' = wrong
  BY <1>1
<1>7. ASSUME InTime' PROVE (Timely /\ wrong \cap {"lost", "torn"} = {})'
  <2>1. InTime /\ "overdue" \notin taint'
    BY <1>6, <1>7 DEF InTime
  <2> QED BY <1>5, <1>6, <1>7, <2>1 DEF QueueInv, InTime
<1>8. ASSUME taint' = {} PROVE (Sent /\ "twice" \notin wrong)'
  <2>1. taint = {}
    BY <1>6, <1>8
  <2> QED BY <1>4, <1>6, <2>1 DEF QueueInv, InTime
<1> QED BY <1>7, <1>8 DEF QueueInv, InTime

(* A sender that is at no alarm of its own goes where it is at none, or at one it found. *)
LEMMA MoveQueue ==
  ASSUME TypeInv, QueueInv, NEW p \in Senders, pc[p] # "clear",
         UNCHANGED <<node, checker, wrong, taint>>,
         \A q \in Senders : q # p => pc'[q] = pc[q] /\ j'[q] = j[q],
         Timely => /\ pc'[p] \notin {"expire", "clear"}
                   /\ pc'[p] = "send" => node[j'[p]].id # 0 /\ node[j'[p]].id % Procs = p
  PROVE  QueueInv'
<1>1. ASSUME Sent PROVE Sent'
  <2> SUFFICES ASSUME NEW n \in Nodes, node'[n].id # 0, node'[n].sent
               PROVE  \E q \in Senders : pc'[q] = "clear" /\ j'[q] = n
    BY DEF Sent
  <2>1. PICK q \in Senders : pc[q] = "clear" /\ j[q] = n
    BY <1>1 DEF Sent
  <2> QED BY <2>1
<1>2. ASSUME Timely PROVE Timely'
  <2>1. Young' /\ Paired' /\ Reserved'
    BY <1>2 DEF Timely, Young, Paired, Reserved, checker
  <2>2. Owned'
    <3> SUFFICES ASSUME NEW q \in Senders
                 PROVE  /\ pc'[q] # "expire"
                        /\ pc'[q] \in Holding => node[j'[q]].id # 0 /\ node[j'[q]].id % Procs = q
                        /\ pc'[q] = "clear" => node[j'[q]].sent
      BY DEF Owned, Holding
    <3>1. CASE q = p
      BY <1>2, <3>1 DEF Holding
    <3>2. CASE q # p
      BY <1>2, <3>2 DEF Timely, Owned
    <3> QED BY <3>1, <3>2
  <2> QED BY <2>1, <2>2 DEF Timely
<1> QED BY <1>1, <1>2 DEF QueueInv, InTime

LEMMA NextNodeMoves ==
  ASSUME TypeInv, NEW p \in Senders, NextNode(p)
  PROVE  /\ pc'[p] \in {"loop", "node"}
         /\ \A q \in Senders : q # p => pc'[q] = pc[q] /\ j'[q] = j[q]
<1>t. SendersOK
  BY TypeParts DEF TypeInv
<1>1. CASE j[p] = NNodes
  BY <1>1, <1>t DEF NextNode, Go, SendersOK
<1>2. CASE j[p] # NNodes
  BY <1>2, <1>t DEF NextNode, Go, SendersOK
<1> QED BY <1>1, <1>2

(* No sender takes an alarm that is not too old for too old. *)
LEMMA ScanQueue ==
  ASSUME TypeInv, QueueInv, NEW p \in Senders, ScanSendWarnShm(p) \/ ScanNode(p)
  PROVE  QueueInv'
<1>t. SendersOK /\ TableOK
  BY TypeParts DEF TypeInv
<1>1. UNCHANGED <<node, checker, wrong, taint>> /\ pc[p] # "clear"
  BY DEF ScanSendWarnShm, ScanNode
<1>2. CASE Go(p, "node") /\ UNCHANGED j
  <2>1. pc'[p] = "node" /\ \A q \in Senders : q # p => pc'[q] = pc[q] /\ j'[q] = j[q]
    BY <1>2, <1>t DEF Go, SendersOK
  <2> QED BY <1>1, <2>1, MoveQueue
<1>3. CASE NextNode(p)
  BY <1>1, <1>3, NextNodeMoves, MoveQueue
<1>4. CASE Go(p, "expire") /\ UNCHANGED j /\ node[j[p]].id # 0 /\ Expired(p)
  <2>1. \A q \in Senders : q # p => pc'[q] = pc[q] /\ j'[q] = j[q]
    BY <1>4, <1>t DEF Go, SendersOK
  <2>2. ~Timely
    <3>1. PICK n \in Nodes : n = j[p]
      BY <1>t DEF SendersOK
    <3>2. node[n].age \in 0 .. Oldest /\ lag[p] \in 0 .. MaxLag
      BY <1>t DEF TableOK, Entry, SendersOK
    <3>3. node[n].age >= Valid
      BY <1>4, <3>1, <3>2, Sizes DEF Expired
    <3> QED BY <1>4, <3>1, <3>2, <3>3, Sizes DEF Timely, Young
  <2> QED BY <1>1, <2>1, <2>2, MoveQueue
<1>5. CASE Go(p, "send") /\ UNCHANGED j /\ node[j[p]].id # 0 /\ node[j[p]].id % Procs = p
  <2>1. pc'[p] = "send" /\ j'[p] = j[p] /\ \A q \in Senders : q # p => pc'[q] = pc[q] /\ j'[q] = j[q]
    BY <1>5, <1>t DEF Go, SendersOK
  <2>2. pc'[p] \notin {"expire", "clear"} /\ node[j'[p]].id # 0 /\ node[j'[p]].id % Procs = p
    BY <1>5, <2>1
  <2> QED BY <1>1, <2>1, <2>2, MoveQueue
<1> QED BY <1>2, <1>3, <1>4, <1>5 DEF ScanSendWarnShm, ScanNode

(* Two senders are never at the same alarm. *)
LEMMA OneSender ==
  ASSUME Owned, NEW p \in Senders, NEW q \in Senders,
         pc[p] \in Holding, pc[q] \in Holding, j[p] = j[q]
  PROVE  p = q
BY DEF Owned

LEMMA ExpireQueue ==
  ASSUME TypeInv, QueueInv, NEW p \in Senders, ExpireNode(p)
  PROVE  QueueInv'
<1>1. ~Timely /\ UNCHANGED taint
  BY DEF ExpireNode, Timely, Owned
<1>2. ~InTime'
  BY <1>1 DEF QueueInv, InTime
<1>3. taint' # {}
  BY <1>2 DEF InTime
<1> QED BY <1>2, <1>3 DEF QueueInv

LEMMA SendQueue ==
  ASSUME TypeInv, QueueInv, NEW p \in Senders, SendWarn(p)
  PROVE  QueueInv'
<1>t. SendersOK /\ TableOK /\ CheckerOK
  BY TypeParts DEF TypeInv
<1>1. UNCHANGED <<checker, j, taint>> /\ pc[p] = "send" /\ j[p] \in Nodes
  BY <1>t DEF SendWarn, SendersOK
<1>2. \A n \in Nodes : node'[n].id = node[n].id /\ node'[n].warn = node[n].warn /\ node'[n].age = node[n].age
                       /\ (n # j[p] => node'[n] = node[n])
  BY <1>t, <1>1 DEF SendWarn, TableOK, Entry
<1>3. node'[j[p]].sent = TRUE
  BY <1>t, <1>1 DEF SendWarn, TableOK, Entry
<1>4. pc'[p] = "clear" /\ \A q \in Senders : q # p => pc'[q] = pc[q]
  BY <1>t DEF SendWarn, Go, SendersOK
<1>5. wrong' = wrong \cup (IF node[j[p]].sent THEN {"twice"} ELSE {})
                     \cup (IF node[j[p]].id # node[j[p]].warn.wid THEN {"torn"} ELSE {})
  BY DEF SendWarn
<1>6. ASSUME Timely PROVE Timely' /\ (wrong \cap {"lost", "torn"} = {} => wrong' \cap {"lost", "torn"} = {})
  <2>1. node[j[p]].id # 0 /\ node[j[p]].id % Procs = p /\ node[j[p]].warn.wid = node[j[p]].id
    BY <1>1, <1>6 DEF Timely, Owned, Holding, Paired
  <2>2. Young' /\ Paired'
    BY <1>2, <1>6 DEF Timely, Young, Paired
  <2>3. Reserved'
    <3>1. at \in Nodes /\ UNCHANGED <<at, cpc, cur>>
      BY <1>1, <1>t DEF CheckerOK, checker
    <3> QED BY <1>2, <1>6, <3>1 DEF Timely, Reserved
  <2>4. Owned'
    <3> SUFFICES ASSUME NEW q \in Senders
                 PROVE  /\ pc'[q] # "expire"
                        /\ pc'[q] \in Holding => node'[j'[q]].id # 0 /\ node'[j'[q]].id % Procs = q
                        /\ pc'[q] = "clear" => node'[j'[q]].sent
      BY DEF Owned, Holding
    <3>1. CASE q = p
      BY <1>1, <1>2, <1>3, <1>4, <2>1, <3>1
    <3>2. CASE q # p
      <4>1. pc'[q] = pc[q] /\ j'[q] = j[q] /\ j[q] \in Nodes
        BY <1>1, <1>4, <1>t, <3>2 DEF SendersOK
      <4>2. (j[q] = j[p]) => pc[q] \notin Holding
        BY <1>1, <1>6, <3>2, OneSender DEF Timely, Holding
      <4>3. pc[q] \in Holding => node'[j[q]] = node[j[q]]
        BY <1>2, <4>1, <4>2
      <4> QED BY <1>6, <4>1, <4>3 DEF Timely, Owned, Holding
    <3> QED BY <3>1, <3>2
  <2>5. wrong' = wrong \cup (IF node[j[p]].sent THEN {"twice"} ELSE {})
    BY <1>5, <2>1
  <2> QED BY <2>2, <2>3, <2>4, <2>5 DEF Timely
<1>7. ASSUME Timely, Sent PROVE Sent' /\ ("twice" \notin wrong => "twice" \notin wrong')
  <2>1. ~node[j[p]].sent
    <3> SUFFICES ASSUME node[j[p]].sent PROVE FALSE
      OBVIOUS
    <3>1. node[j[p]].id # 0
      BY <1>1, <1>7 DEF Timely, Owned, Holding
    <3>2. PICK q \in Senders : pc[q] = "clear" /\ j[q] = j[p]
      BY <1>1, <1>7, <3>1 DEF Sent
    <3>3. q = p
      BY <1>1, <1>7, <3>2, OneSender DEF Timely, Holding
    <3> QED BY <1>1, <3>2, <3>3
  <2>2. Sent'
    <3> SUFFICES ASSUME NEW n \in Nodes, node'[n].id # 0, node'[n].sent
                 PROVE  \E q \in Senders : pc'[q] = "clear" /\ j'[q] = n
      BY DEF Sent
    <3>1. CASE n = j[p]
      BY <1>1, <1>4, <3>1
    <3>2. CASE n # j[p]
      <4>1. PICK q \in Senders : pc[q] = "clear" /\ j[q] = n
        BY <1>2, <1>7, <3>2 DEF Sent
      <4> QED BY <1>1, <1>4, <4>1
    <3> QED BY <3>1, <3>2
  <2> QED BY <1>5, <2>1, <2>2
<1>8. (taint = {}) => InTime
  BY DEF InTime
<1> QED BY <1>1, <1>6, <1>7, <1>8 DEF QueueInv, InTime

(* The id a sender clears is that of the alarm it sent. *)
LEMMA ClearIdQueue ==
  ASSUME TypeInv, QueueInv, NEW p \in Senders, ClearId(p)
  PROVE  QueueInv'
<1>t. SendersOK /\ TableOK /\ CheckerOK
  BY TypeParts DEF TypeInv
<1>1. UNCHANGED <<checker, taint>> /\ pc[p] = "clear" /\ j[p] \in Nodes /\ Loses(node[j[p]])
  BY <1>t DEF ClearId, SendersOK
<1>2. \A n \in Nodes : n # j[p] => node'[n] = node[n]
  BY <1>1, <1>t DEF ClearId, TableOK
<1>3. node'[j[p]].id = 0
  BY <1>1, <1>t DEF ClearId, TableOK, Entry
<1>4. pc'[p] = "wipe" /\ \A q \in Senders : q # p => pc'[q] = pc[q] /\ j'[q] = j[q]
  BY <1>t DEF ClearId, Go, SendersOK
<1>5. ASSUME Timely PROVE Timely' /\ wrong' = wrong
  <2>1. node[j[p]].id # 0 /\ node[j[p]].sent
    BY <1>1, <1>5 DEF Timely, Owned, Holding
  <2>2. wrong' = wrong
    BY <1>1, <2>1 DEF Loses, Pending
  <2>3. Young' /\ Paired'
    BY <1>2, <1>3, <1>5 DEF Timely, Young, Paired
  <2>4. Reserved'
    <3>1. at \in Nodes /\ UNCHANGED <<at, cpc, cur>>
      BY <1>1, <1>t DEF CheckerOK, checker
    <3>2. CASE cpc \in Filling
      <4>1. at # j[p]
        BY <1>5, <2>1, <3>2 DEF Timely, Reserved
      <4> QED BY <1>2, <1>5, <3>1, <4>1 DEF Timely, Reserved
    <3>3. CASE cpc \notin Filling
      BY <3>1, <3>3 DEF Reserved, Filling
    <3> QED BY <3>2, <3>3
  <2>5. Owned'
    <3> SUFFICES ASSUME NEW q \in Senders
                 PROVE  /\ pc'[q] # "expire"
                        /\ pc'[q] \in Holding => node'[j'[q]].id # 0 /\ node'[j'[q]].id % Procs = q
                        /\ pc'[q] = "clear" => node'[j'[q]].sent
      BY DEF Owned, Holding
    <3>1. CASE q = p
      BY <1>4, <3>1 DEF Holding
    <3>2. CASE q # p
      <4>1. pc'[q] = pc[q] /\ j'[q] = j[q] /\ j[q] \in Nodes
        BY <1>4, <1>t, <3>2 DEF SendersOK
      <4>2. (j[q] = j[p]) => pc[q] \notin Holding
        BY <1>1, <1>5, <3>2, OneSender DEF Timely, Holding
      <4>3. pc[q] \in Holding => node'[j[q]] = node[j[q]]
        BY <1>2, <4>1, <4>2
      <4> QED BY <1>5, <4>1, <4>3 DEF Timely, Owned, Holding
    <3> QED BY <3>1, <3>2
  <2> QED BY <2>2, <2>3, <2>4, <2>5 DEF Timely
<1>6. ASSUME Sent PROVE Sent'
  <2> SUFFICES ASSUME NEW n \in Nodes, node'[n].id # 0, node'[n].sent
               PROVE  \E q \in Senders : pc'[q] = "clear" /\ j'[q] = n
    BY DEF Sent
  <2>1. n # j[p]
    BY <1>3
  <2>2. PICK q \in Senders : pc[q] = "clear" /\ j[q] = n
    BY <1>2, <1>6, <2>1 DEF Sent
  <2> QED BY <1>4, <2>1, <2>2
<1>7. ("twice" \in wrong') => ("twice" \in wrong)
  BY <1>1 DEF Loses
<1> QED BY <1>1, <1>5, <1>6, <1>7 DEF QueueInv, InTime

(* What is cleared afterwards belongs to no alarm, or the alarm is wiped. *)
LEMMA ClearRestQueue ==
  ASSUME TypeInv, QueueInv, NEW p \in Senders, ClearRest(p)
  PROVE  QueueInv'
<1>t. SendersOK /\ TableOK /\ CheckerOK
  BY TypeParts DEF TypeInv
<1>1. UNCHANGED checker /\ pc[p] = "wipe" /\ j[p] \in Nodes /\ NextNode(p) /\ Loses(node[j[p]])
      /\ taint' = taint \cup (IF Refilled(j[p]) THEN {"wiped"} ELSE {})
  BY <1>t DEF ClearRest, SendersOK
<1>2. \A n \in Nodes : node'[n].id = node[n].id /\ node'[n].sent = node[n].sent /\ (n # j[p] => node'[n] = node[n])
  BY <1>1, <1>t DEF ClearRest, TableOK, Entry
<1>3. pc'[p] \in {"loop", "node"} /\ \A q \in Senders : q # p => pc'[q] = pc[q] /\ j'[q] = j[q]
  BY <1>1, NextNodeMoves
<1>4. ASSUME Timely, ~Refilled(j[p]) PROVE Timely' /\ wrong' = wrong
  <2>1. node[j[p]].id = 0 /\ ~(cpc \in {"time", "id"} /\ at = j[p])
    BY <1>4 DEF Refilled
  <2>2. wrong' = wrong
    BY <1>1, <2>1 DEF Loses, Pending
  <2>3. Young' /\ Paired'
    BY <1>2, <1>4, <2>1 DEF Timely, Young, Paired
  <2>4. Reserved'
    <3>1. at \in Nodes /\ UNCHANGED <<at, cpc, cur>>
      BY <1>1, <1>t DEF CheckerOK, checker
    <3> QED BY <1>2, <1>4, <2>1, <3>1 DEF Timely, Reserved
  <2>5. Owned'
    <3> SUFFICES ASSUME NEW q \in Senders
                 PROVE  /\ pc'[q] # "expire"
                        /\ pc'[q] \in Holding => node'[j'[q]].id # 0 /\ node'[j'[q]].id % Procs = q
                        /\ pc'[q] = "clear" => node'[j'[q]].sent
      BY DEF Owned, Holding
    <3>1. CASE q = p
      BY <1>3, <3>1 DEF Holding
    <3>2. CASE q # p
      <4>1. pc'[q] = pc[q] /\ j'[q] = j[q] /\ j[q] \in Nodes
        BY <1>3, <1>t, <3>2 DEF SendersOK
      <4>2. node'[j[q]].id = node[j[q]].id /\ node'[j[q]].sent = node[j[q]].sent
        BY <1>2, <4>1
      <4> QED BY <1>4, <4>1, <4>2 DEF Timely, Owned, Holding
    <3> QED BY <3>1, <3>2
  <2> QED BY <2>2, <2>3, <2>4, <2>5 DEF Timely
<1>5. ASSUME Sent PROVE Sent'
  <2> SUFFICES ASSUME NEW n \in Nodes, node'[n].id # 0, node'[n].sent
               PROVE  \E q \in Senders : pc'[q] = "clear" /\ j'[q] = n
    BY DEF Sent
  <2>1. PICK q \in Senders : pc[q] = "clear" /\ j[q] = n
    BY <1>2, <1>5 DEF Sent
  <2> QED BY <1>1, <1>3, <2>1
<1>6. ("twice" \in wrong') => ("twice" \in wrong)
  BY <1>1 DEF Loses
<1>7. (InTime' => InTime /\ ~Refilled(j[p])) /\ ((taint' = {}) => (taint = {}))
  BY <1>1 DEF InTime
<1> QED BY <1>4, <1>5, <1>6, <1>7 DEF QueueInv

LEMMA DieQueue ==
  ASSUME TypeInv, QueueInv, NEW p \in Senders, Die(p)
  PROVE  QueueInv'
<1>t. SendersOK
  BY TypeParts DEF TypeInv
<1>1. UNCHANGED <<node, checker, wrong>>
  BY DEF Die
<1>2. pc'[p] = "dead" /\ \A q \in Senders : q # p => pc'[q] = pc[q] /\ j'[q] = j[q]
  BY <1>t DEF Die, Go, SendersOK
<1>3. CASE pc[p] # "clear"
  <2>1. UNCHANGED taint
    BY <1>3 DEF Die
  <2> QED BY <1>1, <1>2, <1>3, <2>1, MoveQueue
<1>4. CASE pc[p] = "clear"
  <2>1. taint' = taint \cup {"died"}
    BY <1>4 DEF Die
  <2>2. ASSUME Timely PROVE Timely'
    <3>1. Young' /\ Paired' /\ Reserved'
      BY <1>1, <2>2 DEF Timely, Young, Paired, Reserved, checker
    <3>2. Owned'
      <4>1. pc'[p] # "expire" /\ pc'[p] \notin Holding
        BY <1>2 DEF Holding
      <4>2. \A q \in Senders : q = p \/ (pc'[q] = pc[q] /\ j'[q] = j[q])
        BY <1>2
      <4> QED BY <1>1, <2>2, <4>1, <4>2 DEF Timely, Owned, Holding
    <3> QED BY <3>1, <3>2 DEF Timely
  <2>3. InTime' => InTime
    BY <2>1 DEF InTime
  <2>4. taint' # {}
    BY <2>1
  <2> QED BY <1>1, <2>2, <2>3, <2>4 DEF QueueInv, InTime
<1> QED BY <1>3, <1>4

LEMMA RestartQueue ==
  ASSUME TypeInv, QueueInv, RestartSenders
  PROVE  QueueInv'
<1>1. UNCHANGED <<node, checker, wrong, taint>> /\ \A p \in Senders : pc[p] = "dead" /\ pc'[p] = "loop"
  BY DEF RestartSenders
<1>2. Sent => Sent'
  BY <1>1 DEF Sent
<1>3. (Young => Young') /\ (Paired => Paired') /\ (Reserved => Reserved')
  BY <1>1 DEF Young, Paired, Reserved, checker
<1>4. Owned'
  BY <1>1 DEF Owned, Holding
<1> QED BY <1>1, <1>2, <1>3, <1>4 DEF QueueInv, InTime, Timely

LEMMA TickQueue ==
  ASSUME TypeInv, QueueInv, Tick
  PROVE  QueueInv'
<1>t. SendersOK /\ TableOK /\ CheckerOK
  BY TypeParts DEF TypeInv
<1>1. UNCHANGED <<cpc, cur, at, pc, j, wrong>>
  BY DEF Tick
<1>2. taint' = taint \cup (IF \E n \in Nodes : node[n].id # 0 /\ node'[n].age >= Valid
                           THEN {"overdue"} ELSE {})
  BY DEF Tick
<1>3. \A n \in Nodes : node'[n].id = node[n].id /\ node'[n].warn = node[n].warn /\ node'[n].sent = node[n].sent
                       /\ node'[n].age \in Nat
  <2> SUFFICES ASSUME NEW n \in Nodes
               PROVE  node'[n].id = node[n].id /\ node'[n].warn = node[n].warn /\ node'[n].sent = node[n].sent
                      /\ node'[n].age \in Nat
    OBVIOUS
  <2>1. node[n] \in Entry /\ node[n].age \in 0 .. Oldest
    BY <1>t DEF TableOK, Entry
  <2>2. PICK a \in Nat : a = IF node[n].age = Oldest THEN node[n].age ELSE node[n].age + 1
    BY <2>1, Sizes
  <2>3. node'[n] = [node[n] EXCEPT !.age = a]
    BY <2>2 DEF Tick
  <2> QED BY <2>1, <2>3 DEF Entry
<1>4. Sent => Sent'
  BY <1>1, <1>3 DEF Sent
<1>5. ASSUME Timely, "overdue" \notin taint' PROVE Timely'
  <2>1. \A n \in Nodes : node[n].id # 0 => ~(node'[n].age >= Valid)
    BY <1>2, <1>5
  <2>2. Young' /\ Paired'
    BY <1>3, <1>5, <2>1, Sizes DEF Timely, Young, Paired
  <2>3. Reserved'
    <3>1. at \in Nodes
      BY <1>t DEF CheckerOK
    <3> QED BY <1>1, <1>3, <1>5, <3>1 DEF Timely, Reserved
  <2>4. Owned'
    <3>1. \A p \in Senders : j[p] \in Nodes
      BY <1>t DEF SendersOK
    <3> QED BY <1>1, <1>3, <1>5, <3>1 DEF Timely, Owned
  <2> QED BY <2>2, <2>3, <2>4 DEF Timely
<1>6. (InTime' => InTime /\ "overdue" \notin taint') /\ ((taint' = {}) => (taint = {}))
  BY <1>2 DEF InTime
<1> QED BY <1>1, <1>4, <1>5, <1>6 DEF QueueInv, InTime

LEMMA QueueNext == TypeInv /\ QueueInv /\ [Next]_vars => QueueInv'
<1> SUFFICES ASSUME TypeInv, QueueInv, [Next]_vars PROVE QueueInv'
  OBVIOUS
<1>1. CASE Checker \/ CheckerDies
  <2>1. ASSUME NEW S \in SUBSET Found, CheckAttrWarn(S) PROVE QueueInv'
    <3>1. UNCHANGED <<node, pc, j, wrong, taint>> /\ cpc' \notin Filling
      BY <2>1 DEF CheckAttrWarn, sender, Filling
    <3> QED BY <3>1, TableKept
  <2>2. ASSUME NEW w \in Found, DealWarn(w) PROVE QueueInv'
    <3>1. UNCHANGED <<node, pc, j, wrong, taint>>
      BY <2>2 DEF DealWarn, sender
    <3>2. cpc' \in {"find", "update", "idle"}
      BY <2>2 DEF DealWarn, OpenRow, NewRow, NewRowFails, EndPass
    <3> QED BY <3>1, <3>2, TableKept DEF Filling
  <2>3. CASE UpdateRow \/ PassEnds \/ CheckerDies
    <3>1. UNCHANGED <<node, pc, j, wrong, taint>>
      BY <2>3 DEF UpdateRow, PassEnds, CheckerDies, sender
    <3>2. cpc' \in {"next", "idle"}
      BY <2>3 DEF UpdateRow, PassEnds, CheckerDies, EndPass
    <3> QED BY <3>1, <3>2, TableKept DEF Filling
  <2> QED BY <1>1, <2>1, <2>2, <2>3, AddQueue, StoreWarnQueue, StoreIdQueue DEF Checker
<1>2. ASSUME NEW p \in Senders, Sender(p) \/ Die(p) PROVE QueueInv'
  BY <1>2, ScanQueue, ExpireQueue, SendQueue, ClearIdQueue, ClearRestQueue, DieQueue DEF Sender
<1>3. ASSUME NEW a \in Alarms, DealMultiWarns(a) \/ RowTooOld(a) PROVE QueueInv'
  <2>1. UNCHANGED <<node, pc, j, wrong, taint, cpc, at, cur>>
    BY <1>3 DEF DealMultiWarns, RowTooOld, sender, checker
  <2> QED BY <2>1, TableKept
<1>4. CASE UNCHANGED vars
  <2>1. UNCHANGED <<node, pc, j, wrong, taint, cpc, at, cur>>
    BY <1>4 DEF vars, sender, checker
  <2> QED BY <2>1, TableKept
<1> QED BY <1>1, <1>2, <1>3, <1>4, RestartQueue, TickQueue DEF Next

LEMMA QueueImplies == QueueInv => SentExactly
BY DEF QueueInv, InTime, SentExactly

(* For any number of alarms, nodes and senders, although nothing locks the table of alarms    *)
(* and whichever process dies: as long as no alarm grew too old in it and none was put into a *)
(* node that a sender was still clearing (ScanSendWarnShm), no alarm that is still to be sent *)
(* is cleared or overwritten (AddSendWarnToShm), none is sent with the id of another row, and *)
(* none twice unless its sender died before it cleared the node.                              *)
THEOREM SentCorrect == Spec => []SentExactly
<1>1. TypeInv /\ QueueInv /\ [Next]_vars => (TypeInv /\ QueueInv)'
  BY TypeNext, QueueNext
<1>2. Init => TypeInv /\ QueueInv
  BY TypeInit, QueueInit
<1> QED BY <1>1, <1>2, QueueImplies, PTL DEF Spec

====
