----------------------------- MODULE AttrReport -----------------------------
(***************************************************************************)
(* Monitoring points (mt_attr.c) between the processes that report them    *)
(* and the agent that reads them (ReadAttr of mtreport_client.cpp).        *)
(*                                                                         *)
(* A writer looks for the point in one hash table after another, adds to   *)
(* the node it finds or claims an empty one by bSyncProcess and links it;  *)
(* a point without a place goes to the special list.  The agent copies     *)
(* values out, unlinks the nodes and clears them.  None of this is under a *)
(* lock but the linking itself, which SharedHash models and which is one   *)
(* step here that may fail (-33).                                          *)
(***************************************************************************)
EXTENDS Integers, Sequences, FiniteSets, FiniteSetsExt

CONSTANTS
  Writers,       \* processes of the API
  Attrs,         \* monitoring points
  Ops,           \* the calls they make: a subset of {"add", "set"}
  Str,           \* string points: one table, searched again, and no special list
  Tables,        \* MTATTR_SHM_DEF_COUNT
  Rows,          \* STATIC_HASH_ROW_MAX: the nodes of a table one point may use
  SyncMax,       \* bSyncProcess from which a claim is overridden (10)
  TryMax,        \* bCheckCount after which a call gives up (10)
  SpecialCount,  \* MTATTR_SPECIAL_COUNT
  MaxRead,       \* MAX_ATTR_READ_PER_EACH
  Busy,          \* can the linking fail because the table's flag is taken?
  MaxCalls       \* bound: calls of one writer

ASSUME AttrSizes ==
  /\ {Tables, Rows, SyncMax, SpecialCount, MaxRead} \subseteq Nat \ {0}
  /\ {TryMax, MaxCalls} \subseteq Nat
  /\ Str \in BOOLEAN /\ Busy \in BOOLEAN
  /\ Ops \subseteq {"add", "set"}
  /\ {0, 237, 238} \cap Attrs = {} /\ MaxRead <= SpecialCount

GiveUp == 238                  \* the point that counts the calls given up
LinkBusy == 237                \* the point that counts links and unlinks refused (-33)
Points == Attrs \cup {GiveUp, LinkBusy}

(* All points fall on the same node of every row, the worst the hash can do. *)
Node == (1 .. Tables) \X (1 .. Rows)
Clear == [used |-> FALSE, id |-> 0, val |-> 0, sync |-> 0]
NoNode == <<0, 0>>

VARIABLES
  node,      \* the nodes of the tables
  spec,      \* sArrtListSpec: its entries, attr and value
  specCount, \* iAttrSpecialCount
  pc, op, attr, j, tries, at, tmp,   \* per writer: label and locals of the call
  calls,     \* calls made so far
  apc, atab, anode, aval, acopy,     \* the agent: label, table, node, value and list read
  pkt,       \* per point: the value in the packet being filled
  sent,      \* history: per point, the sum of all packets
  acked,     \* history: per point, the sum of all calls that returned 0
  taint      \* history: the ways in which a value was lost

locals == <<op, attr, j, tries, at, tmp>>
agent  == <<apc, atab, anode, aval, acopy, pkt, sent>>
vars   == <<node, spec, specCount, pc, locals, calls, agent, acked, taint>>

Taints == {"raced",    \* two writers added to a node at the same time
           "gone",     \* a writer added to a node the agent had unlinked
           "wiped",    \* the agent cleared more than it had read
           "busy",     \* linking failed
           "doubled",  \* a claim was overridden while its owner was alive
           "spec",     \* the special list changed under a writer or the agent
           "full",     \* no place for a string point
           "set"}      \* a set replaced a value

Entry == [attr : Points \cup {0}, val : Nat]
NoEntry == [attr |-> 0, val |-> 0]
Values == {[used |-> u, id |-> a, val |-> v, sync |-> s] :
             u \in BOOLEAN, a \in Attrs \cup {0},
             v \in 0 .. MaxCalls * Cardinality(Writers),
             s \in 0 .. SyncMax + Cardinality(Writers) - 1}

Labels == {"idle", "search", "load", "store", "cas", "bump", "fill", "link", "s_find",
           "s_add", "s_write"}
AgentLabels == {"idle", "spec", "spec_zero", "node", "read", "unlink", "clear"}

(* What shared memory and the locals may hold: bSyncProcess, which waiting writers count up *)
(* without a lock, exceeds the limit by less than their number.                            *)
TypeOK ==
  /\ node \in [Node -> Values]
  /\ spec \in [1 .. SpecialCount -> Entry]
  /\ specCount \in Nat
  /\ pc \in [Writers -> Labels]
  /\ op \in [Writers -> {"add", "set"}]
  /\ attr \in [Writers -> Points \cup {0}]
  /\ j \in [Writers -> 1 .. Tables + 1]
  /\ tries \in [Writers -> 0 .. TryMax + 1]
  /\ at \in [Writers -> Node \cup {NoNode}]
  /\ tmp \in [Writers -> Nat]
  /\ calls \in [Writers -> 0 .. MaxCalls]
  /\ apc \in AgentLabels /\ atab \in 1 .. Tables /\ anode \in Node \cup {NoNode} /\ aval \in Nat
  /\ acopy \in Seq(Entry) /\ Len(acopy) <= MaxRead
  /\ pkt \in [Points -> Nat] /\ sent \in [Points -> Nat] /\ acked \in [Points -> Nat]
  /\ taint \subseteq Taints

(* MtReport_InitAttr on cleared memory. *)
Init ==
  /\ node = [n \in Node |-> Clear]
  /\ spec = [i \in 1 .. SpecialCount |-> NoEntry]
  /\ specCount = 0
  /\ pc = [p \in Writers |-> "idle"] /\ op = [p \in Writers |-> "add"]
  /\ attr = [p \in Writers |-> 0] /\ j = [p \in Writers |-> 1]
  /\ tries = [p \in Writers |-> 0] /\ at = [p \in Writers |-> NoNode]
  /\ tmp = [p \in Writers |-> 0] /\ calls = [p \in Writers |-> 0]
  /\ apc = "idle" /\ atab = 1 /\ anode = NoNode /\ aval = 0 /\ acopy = <<>>
  /\ pkt = [a \in Points |-> 0] /\ sent = [a \in Points |-> 0]
  /\ acked = [a \in Points |-> 0]
  /\ taint = {}

Goto(p, l) == pc' = [pc EXCEPT ![p] = l]

(* The call ends; its locals are dead. *)
Return(p) ==
  /\ Goto(p, "idle")
  /\ op' = [op EXCEPT ![p] = "add"] /\ attr' = [attr EXCEPT ![p] = 0]
  /\ j' = [j EXCEPT ![p] = 1] /\ tries' = [tries EXCEPT ![p] = 0]
  /\ at' = [at EXCEPT ![p] = NoNode] /\ tmp' = [tmp EXCEPT ![p] = 0]

(* ... with 0: the value counts as reported.  Every call reports the value 1. *)
ReturnOk(p) ==
  /\ Return(p)
  /\ acked' = [acked EXCEPT ![attr[p]] = @ + 1]

-----------------------------------------------------------------------------
(***************************************************************************)
(* MtReport_Attr_Add, MtReport_Attr_Set and their string variants.         *)
(***************************************************************************)

CallStart(p, o, a) ==
  /\ pc[p] = "idle"
  /\ calls[p] < MaxCalls
  /\ calls' = [calls EXCEPT ![p] = @ + 1]
  /\ Goto(p, "search")
  /\ op' = [op EXCEPT ![p] = o]
  /\ attr' = [attr EXCEPT ![p] = a]
  /\ UNCHANGED <<node, spec, specCount, j, tries, at, tmp, agent, acked, taint>>

(* The entry points; Search, and what it leads to, is the rest of each of them. *)
MtReport_Attr_Add(p, a)     == ~Str /\ "add" \in Ops /\ CallStart(p, "add", a)
MtReport_Attr_Set(p, a)     == ~Str /\ "set" \in Ops /\ CallStart(p, "set", a)
MtReport_Str_Attr_Add(p, a) == Str /\ "add" \in Ops /\ CallStart(p, "add", a)
MtReport_Str_Attr_Set(p, a) == Str /\ "set" \in Ops /\ CallStart(p, "set", a)

(* HashTableSearchEx in table t: the node of point a ... *)
Found(t, a) == {n \in Node : n[1] = t /\ node[n].used /\ node[n].id = a}
(* ... or the first node that is not in use. *)
Empty(t) == {n \in Node : n[1] = t /\ ~node[n].used
                           /\ \A m \in Node : m[1] = t /\ ~node[m].used => n[2] <= m[2]}

(* One turn of the loop over the tables. *)
Search(p) ==
  /\ pc[p] = "search"
  /\ \/ /\ tries[p] > TryMax      \* MtReport_Attr_Spec(238, 1), return -2
        /\ Goto(p, "s_find")
        /\ attr' = [attr EXCEPT ![p] = GiveUp]
        /\ UNCHANGED <<op, j, tries, at, tmp, acked, taint>>
     \/ /\ tries[p] <= TryMax /\ j[p] > Tables
        /\ Goto(p, "s_find")
        /\ UNCHANGED <<locals, acked, taint>>
     \/ \E n \in Found(j[p], attr[p]) :
          /\ tries[p] <= TryMax
          /\ \A m \in Found(j[p], attr[p]) : n[2] <= m[2]
          /\ at' = [at EXCEPT ![p] = n]
          /\ Goto(p, IF op[p] = "add" THEN "load" ELSE "store")
          /\ UNCHANGED <<op, attr, j, tries, tmp, acked, taint>>
     \/ /\ tries[p] <= TryMax /\ j[p] <= Tables /\ Found(j[p], attr[p]) = {}
        /\ \/ \E n \in Empty(j[p]) :
                /\ at' = [at EXCEPT ![p] = n]
                /\ Goto(p, "cas")
                /\ UNCHANGED <<op, attr, j, tries, tmp, acked, taint>>
           \/ /\ Empty(j[p]) = {} /\ ~Str
              /\ j' = [j EXCEPT ![p] = @ + 1]
              /\ UNCHANGED <<pc, op, attr, tries, at, tmp, acked, taint>>
           \/ /\ Empty(j[p]) = {} /\ Str      \* nothing is stored, return 0
              /\ ReturnOk(p)
              /\ taint' = taint \cup {"full"}
  /\ UNCHANGED <<node, spec, specCount, calls, agent>>

(* pNode->iCurValue += iValue: the load ... *)
Load(p) ==
  /\ pc[p] = "load"
  /\ tmp' = [tmp EXCEPT ![p] = node[at[p]].val]
  /\ Goto(p, "store")
  /\ UNCHANGED <<node, spec, specCount, op, attr, j, tries, at, calls, agent, acked, taint>>

(* What a store to node n by writer p loses. *)
StoreTaint(p, n) ==
  IF ~node[n].used \/ node[n].id # attr[p] THEN {"gone"}
  ELSE IF op[p] = "set" THEN {"set"}
  ELSE IF node[n].val # tmp[p] THEN {"raced"}
  ELSE {}

(* ... and the store; or the store of a set. *)
Store(p) ==
  /\ pc[p] = "store"
  /\ node' = [node EXCEPT ![at[p]].val = tmp[p] + 1]
  /\ taint' = taint \cup StoreTaint(p, at[p])
  /\ ReturnOk(p)
  /\ UNCHANGED <<spec, specCount, calls, agent>>

(* A fault: a claim is never overridden. *)
CasNoOverride(p) ==
  LET n == at[p] IN
  /\ pc[p] = "cas"
  /\ \/ /\ node[n].sync = 0
        /\ node' = [node EXCEPT ![n].sync = 1]
        /\ Goto(p, "fill")
     \/ /\ node[n].sync >= 1
        /\ Goto(p, "bump")
        /\ UNCHANGED node
  /\ UNCHANGED <<spec, specCount, locals, calls, agent, acked, taint>>

(* VARMEM_CAS_GET(&pNode->bSyncProcess) || pNode->bSyncProcess >= 10 *)
Cas(p) ==
  LET n == at[p] IN
  /\ pc[p] = "cas"
  /\ \/ /\ node[n].sync = 0
        /\ node' = [node EXCEPT ![n].sync = 1]
        /\ Goto(p, "fill")
        /\ UNCHANGED taint
     \/ /\ node[n].sync >= SyncMax
        /\ taint' = taint \cup (IF node[n].used \/ \E q \in Writers \ {p} :
                                     at[q] = n /\ pc[q] \in {"fill", "link"}
                                  THEN {"doubled"} ELSE {})
        /\ Goto(p, "fill")
        /\ UNCHANGED node
     \/ /\ node[n].sync \in 1 .. SyncMax - 1
        /\ Goto(p, "bump")
        /\ UNCHANGED <<node, taint>>
  /\ UNCHANGED <<spec, specCount, locals, calls, agent, acked>>

(* Somebody else claims the node: count, and go on with the next table, or with the same *)
(* one for a string point.                                                               *)
Bump(p) ==
  /\ pc[p] = "bump"
  /\ node' = [node EXCEPT ![at[p]].sync = @ + 1]
  /\ tries' = [tries EXCEPT ![p] = @ + 1]
  /\ j' = [j EXCEPT ![p] = IF Str THEN @ ELSE @ + 1]
  /\ at' = [at EXCEPT ![p] = NoNode]
  /\ Goto(p, "search")
  /\ UNCHANGED <<spec, specCount, op, attr, tmp, calls, agent, acked, taint>>

(* iCurValue and iAttrID of the claimed node. *)
Fill(p) ==
  /\ pc[p] = "fill"
  /\ node' = [node EXCEPT ![at[p]].val = 1, ![at[p]].id = attr[p]]
  /\ Goto(p, "link")
  /\ UNCHANGED <<spec, specCount, locals, calls, agent, acked, taint>>

(* InsertHashNode, whose result is not looked at: the call returns 0 in either case.  A *)
(* refusal is reported by MtReport_Attr_Spec(237, 1).                                   *)
Link(p) ==
  LET n == at[p] IN
  /\ pc[p] = "link"
  /\ \/ /\ node' = [node EXCEPT ![n].used = TRUE]
        /\ taint' = taint \cup (IF node[n].val # 1 \/ node[n].id # attr[p] \/ node[n].used
                                  THEN {"wiped"} ELSE {})
        /\ ReturnOk(p)
     \/ /\ Busy
        /\ taint' = taint \cup {"busy"}
        /\ acked' = [acked EXCEPT ![attr[p]] = @ + 1]
        /\ attr' = [attr EXCEPT ![p] = LinkBusy]
        /\ Goto(p, "s_find")
        /\ UNCHANGED <<node, op, j, tries, at, tmp>>
  /\ UNCHANGED <<spec, specCount, calls, agent>>

-----------------------------------------------------------------------------
(***************************************************************************)
(* MtReport_Attr_Spec: reads, then writes.                                 *)
(***************************************************************************)

MinOf(a, b) == IF a <= b THEN a ELSE b

(* The entry of point a in the list, if it has one. *)
SpecHits(a) == {i \in 1 .. MinOf(specCount, SpecialCount) : spec[i].attr = a}

(* The scan: the entry to add to, or the count that is the index of a new one. *)
SpecFind(p) ==
  LET hits == SpecHits(attr[p]) IN
  /\ pc[p] = "s_find"
  /\ tmp' = [tmp EXCEPT ![p] = IF hits = {} THEN specCount + 1 ELSE Min(hits)]
  /\ Goto(p, IF hits = {} THEN "s_write" ELSE "s_add")
  /\ UNCHANGED <<node, spec, specCount, op, attr, j, tries, at, calls, agent, acked, taint>>

(* A fault: the value replaces the entry's. *)
SpecAddSets(p) ==
  /\ pc[p] = "s_add"
  /\ spec' = [spec EXCEPT ![tmp[p]].val = 1]
  /\ ReturnOk(p)
  /\ UNCHANGED <<node, specCount, calls, agent, taint>>

(* The entry is added to, and one of two such additions at the same time may be lost. *)
SpecAdd(p) ==
  LET i == tmp[p]
      raced == \E q \in Writers \ {p} : pc[q] = "s_add" /\ tmp[q] = i IN
  /\ pc[p] = "s_add"
  /\ \/ /\ spec' = [spec EXCEPT ![i].val = @ + 1]
        /\ taint' = taint \cup (IF i \notin SpecHits(attr[p]) \/ apc = "spec_zero"
                                  THEN {"spec"} ELSE {})
     \/ /\ raced
        /\ taint' = taint \cup {"spec"}
        /\ UNCHANGED spec
  /\ ReturnOk(p)
  /\ UNCHANGED <<node, specCount, calls, agent>>

(* An entry is made, or refused when the list is full, which counts it all the same. *)
SpecWrite(p) ==
  LET i == tmp[p] IN
  /\ pc[p] = "s_write"
  /\ specCount' = i
  /\ \/ /\ i <= SpecialCount
        /\ spec' = [spec EXCEPT ![i] = [attr |-> attr[p], val |-> 1]]
        /\ ReturnOk(p)
     \/ /\ i > SpecialCount
        /\ Return(p)
        /\ UNCHANGED <<spec, acked>>
  /\ taint' = taint \cup (IF i # specCount + 1 \/ apc = "spec_zero" THEN {"spec"} ELSE {})
  /\ UNCHANGED <<node, calls, agent>>

-----------------------------------------------------------------------------
(***************************************************************************)
(* ReadAttr of the agent.                                                  *)
(***************************************************************************)

(* A fault: wReadAttrCount is not reset after the packet was sent. *)
ReadStartKeeps ==
  /\ apc = "idle"
  /\ apc' = "spec"
  /\ UNCHANGED <<node, spec, specCount, pc, locals, calls, atab, anode, aval, acopy, pkt, sent, acked,
                 taint>>

(* The timer event: the packet of the last turn has been sent. *)
ReadStart ==
  /\ apc = "idle"
  /\ apc' = "spec"
  /\ pkt' = [a \in Points |-> 0]
  /\ UNCHANGED <<node, spec, specCount, pc, locals, calls, atab, anode, aval, acopy, sent, acked,
                 taint>>

SumOf(s, a) ==
  MapThenSumSet(LAMBDA i : IF s[i].attr = a THEN s[i].val ELSE 0, 1 .. Len(s))

(* The list is copied, all of it or the first MAX_ATTR_READ_PER_EACH entries; then its *)
(* count is set, and in the second case the rest moved down.                           *)
ReadSpec ==
  /\ apc = "spec"
  /\ acopy' = [i \in 1 .. MinOf(specCount, MaxRead) |-> spec[i]]
  /\ apc' = IF specCount = 0 THEN "node" ELSE "spec_zero"
  /\ UNCHANGED <<node, spec, specCount, pc, locals, calls, atab, anode, aval, pkt, sent, acked,
                 taint>>

(* What a read of the list adds to the packet. *)
Packed(s) == [a \in Points |-> pkt[a] + SumOf(s, a)]

ReadSpecZero ==
  LET rest == specCount - Len(acopy)
      full == specCount > MaxRead IN
  /\ apc = "spec_zero"
  /\ pkt' = Packed(acopy)
  /\ sent' = [a \in Points |-> sent[a] + SumOf(acopy, a)]
  /\ acopy' = <<>>
  /\ specCount' = IF full THEN rest ELSE 0
  /\ spec' = [i \in 1 .. SpecialCount |->
       IF full /\ i <= rest
         THEN IF i + Len(acopy) <= SpecialCount THEN spec[i + Len(acopy)] ELSE NoEntry
         ELSE spec[i]]
  /\ taint' = taint \cup (IF specCount > SpecialCount \/ \E p \in Writers : pc[p] \in {"s_add", "s_write"}
                             THEN {"spec"} ELSE {})
  /\ apc' = IF full THEN "idle" ELSE "node"
  /\ UNCHANGED <<node, pc, locals, calls, atab, anode, aval, acked>>

(* String points have packets of their own. *)
PacketFull ==
  Cardinality({a \in IF Str THEN Attrs ELSE Points : pkt[a] > 0}) >= MaxRead

(* The next linked node of the table, which may have been linked while the agent was      *)
(* reading; after the last one the next table.  A full packet ends the turn.             *)
ReadNext ==
  /\ apc = "node"
  /\ \/ \E n \in Node :
          /\ n[1] = atab /\ node[n].used /\ ~PacketFull
          /\ anode' = n
          /\ apc' = "read"
          /\ UNCHANGED atab
     \/ /\ ~PacketFull
        /\ \A n \in Node : n[1] = atab => ~node[n].used
        /\ apc' = IF atab = Tables THEN "idle" ELSE "node"
        /\ atab' = IF atab = Tables THEN 1 ELSE atab + 1
        /\ UNCHANGED anode
     \/ /\ PacketFull
        /\ apc' = "idle"
        /\ atab' = 1
        /\ UNCHANGED anode
  /\ UNCHANGED <<node, spec, specCount, pc, locals, calls, aval, acopy, pkt, sent, acked,
                 taint>>

(* A point already in the packet is added to. *)
ReadNode ==
  LET n == node[anode] IN
  /\ apc = "read"
  /\ aval' = n.val
  /\ \/ /\ n.id \in Attrs
        /\ pkt' = [pkt EXCEPT ![n.id] = @ + n.val]
        /\ sent' = [sent EXCEPT ![n.id] = @ + n.val]
     \/ n.id \notin Attrs /\ UNCHANGED <<pkt, sent>>
  /\ apc' = "unlink"
  /\ UNCHANGED <<node, spec, specCount, pc, locals, calls, atab, anode, acopy, acked, taint>>

(* RemoveHashNode, whose result is not looked at; a refusal is reported like a writer's, *)
(* by a call of MtReport_Attr_Spec, here one step.                                       *)
ReadUnlink ==
  LET hits == SpecHits(LinkBusy)
      i == IF hits = {} THEN specCount + 1 ELSE Min(hits) IN
  /\ apc = "unlink"
  /\ \/ /\ node' = [node EXCEPT ![anode].used = FALSE]
        /\ UNCHANGED <<spec, specCount, acked, taint>>
     \/ /\ Busy
        /\ spec' = IF i > SpecialCount THEN spec
                   ELSE [spec EXCEPT ![i] = [attr |-> LinkBusy,
                                              val |-> IF hits = {} THEN 1 ELSE @.val + 1]]
        /\ specCount' = IF hits = {} THEN i ELSE specCount
        /\ acked' = IF i > SpecialCount THEN acked ELSE [acked EXCEPT ![LinkBusy] = @ + 1]
        /\ taint' = taint \cup
             (IF \E p \in Writers : pc[p] \in {"s_add", "s_write"} THEN {"spec"} ELSE {})
        /\ UNCHANGED node
  /\ apc' = "clear"
  /\ UNCHANGED <<pc, locals, calls, atab, anode, aval, acopy, pkt, sent>>

(* A fault: the node is left to the next turn although its value has been read. *)
ReadClearKeeps ==
  /\ apc = "clear"
  /\ node' = [node EXCEPT ![anode].used = TRUE]
  /\ anode' = NoNode /\ aval' = 0
  /\ apc' = "idle"
  /\ UNCHANGED <<spec, specCount, pc, locals, calls, atab, acopy, pkt, sent, acked, taint>>

(* memset of the node, which somebody may have claimed, filled or linked again meanwhile. *)
ReadClear ==
  LET taken == \E p \in Writers : at[p] = anode /\ pc[p] \in {"fill", "link"}
  IN
  /\ apc = "clear"
  /\ node' = [node EXCEPT ![anode] = [Clear EXCEPT !.used = node[anode].used]]
  /\ taint' = taint \cup (IF node[anode].val # aval \/ node[anode].used \/ taken
                             THEN {"wiped"} ELSE {})
  /\ anode' = NoNode /\ aval' = 0
  /\ apc' = "node"
  /\ UNCHANGED <<spec, specCount, pc, locals, calls, atab, acopy, pkt, sent, acked>>

-----------------------------------------------------------------------------
Write(p) == Search(p) \/ Load(p) \/ Store(p) \/ Cas(p) \/ Bump(p) \/ Fill(p) \/ Link(p)
            \/ SpecFind(p) \/ SpecAdd(p) \/ SpecWrite(p)
Read == ReadSpec \/ ReadSpecZero \/ ReadNext \/ ReadNode \/ ReadUnlink \/ ReadClear

Next ==
  \/ ReadStart \/ Read
  \/ \E p \in Writers : Write(p)
  \/ \E p \in Writers, a \in Attrs :
       \/ MtReport_Attr_Add(p, a) \/ MtReport_Attr_Set(p, a)
       \/ MtReport_Str_Attr_Add(p, a) \/ MtReport_Str_Attr_Set(p, a)

Spec == Init /\ [][Next]_vars
FairSpec == Spec /\ WF_vars(ReadStart \/ Read) /\ \A p \in Writers : WF_vars(Write(p))
-----------------------------------------------------------------------------
(* The value of point a that is in shared memory and will be read. *)
Held(a) ==
  MapThenSumSet(LAMBDA n : IF node[n].used /\ node[n].id = a THEN node[n].val ELSE 0, Node)
  + MapThenSumSet(LAMBDA i : IF spec[i].attr = a THEN spec[i].val ELSE 0,
                  1 .. MinOf(specCount, SpecialCount))

Quiet == apc = "idle" /\ \A p \in Writers : pc[p] = "idle"

(* The ways to lose a value are the ones the taints name: otherwise what the agent has  *)
(* sent and what is still in the tables and the special list is what the calls that      *)
(* returned 0 have reported, whichever table each of them ended in.                       *)
Accounted ==
  Quiet /\ taint = {} => \A a \in Points : acked[a] = sent[a] + Held(a)

(* What the calls have reported is sent in the end, from the tables and from the special *)
(* list, unless it was lost in one of the ways the taints name: a full packet leaves the  *)
(* rest for the next turn of the agent's loop.                                            *)
AllSent ==
  <>[](taint = {}) => <>[](\A a \in Points : sent[a] = acked[a])

(* mt_report.h: MtReport_Attr_Add accumulates the value of a monitoring point. *)
AddsAccumulate ==
  Quiet /\ taint \subseteq {"raced"} => \A a \in Points : acked[a] = sent[a] + Held(a)

(* mt_report.h: MtReport_Attr_Set sets the value of a monitoring point: a packet reports a *)
(* value that was set.  Every set sets 1.                                                  *)
SetReportsValue ==
  Ops = {"set"} => \A a \in Attrs : pkt[a] \in {0, 1}

(* mt_log.h: iAttrSpecialCount is the number of points stored in the special list. *)
SpecCountTrue == specCount <= SpecialCount

====
