----------------------------- MODULE ConfigSync -----------------------------
(***************************************************************************)
(* How the log configuration gets from the access server                   *)
(* (slog_mtreport_server) to the table the agent keeps in shared memory.   *)
(* The agent asks with the ids and sequence numbers it has, the server     *)
(* answers with what to add, change and delete, as far as one packet goes. *)
(* Both travel by UDP: packets get lost, come twice or in another order.   *)
(* The configuration of the applications goes the same way.                *)
(***************************************************************************)
EXTENDS Integers, Sequences, FiniteSets, FiniteSetsExt, SequencesExt

CONSTANTS
  Ids,        \* configuration ids, numbers
  MaxCfg,     \* MAX_LOG_CONFIG_COUNT of the agent
  CfgLen, DelLen, RespLen,   \* room one configuration, one deletion takes; room in an answer
  LogsInfo,   \* CLIENT_LOCAL_LOG_TYPE has "info"
  Keys,       \* packet sequence numbers; one is used again when no packet carries it
  NoReq,      \* no request
  NetMax,     \* bound: packets on the way
  MaxSeq,     \* bound: changes at the server
  MaxFaults   \* bound: restarts of the agent and refused requests

ASSUME ConfigSizes ==
  /\ Ids \subseteq Nat /\ IsFiniteSet(Ids)
  /\ {MaxCfg, CfgLen, DelLen, RespLen, NetMax, MaxSeq} \subseteq Nat \ {0}
  /\ MaxFaults \in Nat /\ LogsInfo \in BOOLEAN

VARIABLES
  srv, last,   \* server: its list, the newest first; the sequence number given last
  stLogConfig, \* agent, in shared memory: ids with sequence numbers, sorted by id
  req,         \* agent: the request in the timer
  phase,       \* agent: waiting, handling an answer, crashed
  todo,        \* what is left of the answer
  pcfg,        \* the last addition or change of this answer, FALSE if there was none
  net,         \* packets on the way
  faults       \* restarts and refusals so far

agent == <<stLogConfig, req, phase, todo, pcfg>>
vars  == <<srv, last, agent, net, faults>>

(* Configurations, what a request says of them, and what an answer tells to do. *)
Entries == [id : Ids, seq : 1 .. MaxSeq]
Asked   == [id : Ids, seq : 0 .. MaxSeq]
Tlvs    == [op : {"add", "mod"}, id : Ids, seq : 1 .. MaxSeq] \cup [op : {"del"}, id : Ids, seq : {0}]

Requests == [kind : {"check"}, key : Keys, body : Seq(Asked)]
Answers  == [kind : {"answer"}, key : Keys, body : Seq(Tlvs)]

IdsOf(table) == {table[i].id : i \in DOMAIN table}

(* What the tables, the packets and the handler may hold; the agent's table does not *)
(* outgrow its array.                                                                *)
TypeOK ==
  /\ srv \in Seq(Entries) /\ last \in 0 .. MaxSeq
  /\ stLogConfig \in Seq(Entries) /\ Len(stLogConfig) <= MaxCfg
  /\ phase \in {"wait", "apply", "crash"}
  /\ req \in IF phase = "wait" THEN Requests ELSE {NoReq}
  /\ todo \in Seq(Tlvs) /\ pcfg \in BOOLEAN
  /\ net \subseteq Requests \cup Answers
  /\ faults \in 0 .. MaxFaults

(* What is left of a sequence when only the places in K stay. *)
Picked(s, K) ==
  LET pick[n \in 0 .. Len(s)] ==
        IF n = 0 THEN <<>>
        ELSE IF n \in K THEN Append(pick[n - 1], s[n]) ELSE pick[n - 1]
  IN pick[Len(s)]

-----------------------------------------------------------------------------
(***************************************************************************)
(* The server.                                                             *)
(***************************************************************************)

(* slog_config has read the table mt_log_config: a configuration is new, has another   *)
(* value, is gone.                                                                     *)
ReadTableConfigInfo(id) ==
  /\ last < MaxSeq
  /\ last' = last + 1
  /\ \/ /\ id \notin IdsOf(srv)
        /\ srv' = <<[id |-> id, seq |-> last']>> \o srv
     \/ /\ id \in IdsOf(srv)
        /\ srv' = [i \in DOMAIN srv |-> IF srv[i].id = id THEN [srv[i] EXCEPT !.seq = last']
                                                         ELSE srv[i]]
     \/ /\ id \in IdsOf(srv)
        /\ srv' = Picked(srv, {i \in DOMAIN srv : srv[i].id # id})
  /\ UNCHANGED <<agent, net, faults>>

Prefix(s, n) == SubSeq(s, 1, Min({n, Len(s)}))

(* InnerDealLogConfigCheck: what the request does not have, or has with another sequence  *)
(* number, in the order of the list.                                                      *)
Changes(cfgs) ==
  LET news == Picked(srv, {i \in DOMAIN srv : srv[i] \notin ToSet(cfgs)})
  IN [i \in DOMAIN news |->
        [op |-> IF news[i].id \in IdsOf(cfgs) THEN "mod" ELSE "add",
         id |-> news[i].id, seq |-> news[i].seq]]

Deletions(cfgs) ==
  LET gone == Picked(cfgs, {i \in DOMAIN cfgs : cfgs[i].id \notin IdsOf(srv)})
  IN [i \in DOMAIN gone |-> [op |-> "del", id |-> gone[i].id, seq |-> 0]]

(* A fault: deletions are left out. *)
SetLogConfigCheckInfoKeeps(cfgs) == Prefix(Changes(cfgs), RespLen \div CfgLen)

(* SetLogConfigCheckInfo: deletions only when all changes are in. *)
SetLogConfigCheckInfo(cfgs) ==
  LET new == Prefix(Changes(cfgs), RespLen \div CfgLen) IN
  IF Len(new) < Len(Changes(cfgs)) THEN new
  ELSE new \o Prefix(Deletions(cfgs), (RespLen - Len(new) * CfgLen) \div DelLen)

(* A packet goes on its way; one that finds no room is one that is lost. *)
Send(m) ==
  /\ net' = net \cup {m}
  /\ Cardinality(net') <= NetMax

Answer(m, tlvs) == Send([kind |-> "answer", key |-> m.key, body |-> tlvs])

DealCmdCheckLogConfig(m) ==
  /\ m.kind = "check"
  /\ Answer(m, SetLogConfigCheckInfo(m.body))
  /\ UNCHANGED <<srv, last, agent, faults>>

(* The client is not known, the signature is wrong. *)
Refuse(m) ==
  /\ m.kind = "check"
  /\ faults < MaxFaults
  /\ faults' = faults + 1
  /\ Answer(m, <<>>)
  /\ UNCHANGED <<srv, last, agent>>

(* A packet comes no more. *)
Lose(m) ==
  /\ net' = net \ {m}
  /\ UNCHANGED <<srv, last, agent, faults>>

-----------------------------------------------------------------------------
(***************************************************************************)
(* The agent.                                                              *)
(***************************************************************************)

FreeKeys == Keys \ {m.key : m \in net}

(* MakeCheckLogConfigPkg *)
Check(table, k) == [kind |-> "check", key |-> k, body |-> table]

(* ... the first of a process: with sequence numbers that no configuration has. *)
FirstCheck(table, k) == Check([i \in DOMAIN table |-> [table[i] EXCEPT !.seq = @ - 1]], k)

(* The timer expires: the packet is sent, or sent again; the timer is set again. *)
OnCmdExpire ==
  /\ phase = "wait"
  /\ Send(req)
  /\ UNCHANGED <<srv, last, agent, faults>>

(* A fault: an answer is taken that nobody waits for. *)
OnMtreportPkgAny(m) ==
  /\ phase = "wait"
  /\ m.kind = "answer"
  /\ phase' = "apply"
  /\ req' = NoReq
  /\ todo' = m.body
  /\ pcfg' = FALSE
  /\ UNCHANGED <<srv, last, stLogConfig, net, faults>>

(* OnMtreportPkg: the timer is taken out.  Without it the packet is dropped. *)
OnMtreportPkg(m) ==
  /\ phase = "wait"
  /\ m.kind = "answer" /\ m.key = req.key
  /\ phase' = "apply"
  /\ req' = NoReq
  /\ todo' = m.body
  /\ pcfg' = FALSE
  /\ UNCHANGED <<srv, last, stLogConfig, net, faults>>

(* bsearch: the place of an id in a sorted table, 0 if it is not found.  One step looks at *)
(* the middle of the part that is left and goes on with a half of it.                      *)
BsearchStep(table, id, find, lo, hi) ==
  LET mid == (lo + hi) \div 2 IN
  IF lo > hi THEN 0
  ELSE CASE table[mid].id = id -> mid
         [] table[mid].id > id -> find[<<lo, mid - 1>>]
         [] table[mid].id < id -> find[<<mid + 1, hi>>]

Bsearch(table, id) ==
  LET find[part \in (1 .. Len(table) + 1) \X (0 .. Len(table))] ==
        BsearchStep(table, id, find, part[1], part[2])
  IN find[<<1, Len(table)>>]

(* qsort: the table in the order of the ids. *)
Qsort(table) ==
  LET place == CHOOSE f \in Bijection(DOMAIN table, DOMAIN table) :
                 \A i, k \in DOMAIN table : i < k => table[f[i]].id <= table[f[k]].id
  IN [i \in DOMAIN table |-> table[place[i]]]

Entry(t) == [id |-> t.id, seq |-> t.seq]

(* A fault: no qsort. *)
AddConfigUnsorted ==
  LET t == Head(todo) IN
  /\ t.op = "add"
  /\ Len(stLogConfig) < MaxCfg
  /\ stLogConfig' = Append(stLogConfig, Entry(t))
  /\ todo' = Tail(todo)
  /\ UNCHANGED phase
  /\ pcfg' = TRUE

(* A fault: the test for a full table is off by one. *)
AddConfigOver ==
  LET t == Head(todo) IN
  /\ t.op = "add"
  /\ stLogConfig' = Qsort(Append(stLogConfig, Entry(t)))
  /\ todo' = Tail(todo)
  /\ UNCHANGED phase
  /\ pcfg' = TRUE

(* TLV_MONI_CONFIG_ADD: appended, the table sorted again.  With a full table the rest of the *)
(* answer is left.                                                                           *)
AddConfig ==
  LET t == Head(todo) IN
  /\ t.op = "add"
  /\ \/ /\ Len(stLogConfig) < MaxCfg
        /\ stLogConfig' = Qsort(Append(stLogConfig, Entry(t)))
        /\ todo' = Tail(todo)
     \/ /\ Len(stLogConfig) >= MaxCfg
        /\ todo' = <<>>
        /\ UNCHANGED stLogConfig
  /\ pcfg' = TRUE
  /\ UNCHANGED phase

ModConfig ==
  LET t == Head(todo)
      i == Bsearch(stLogConfig, t.id) IN
  /\ t.op = "mod"
  /\ i # 0
  /\ stLogConfig' = [stLogConfig EXCEPT ![i] = Entry(t)]
  /\ todo' = Tail(todo)
  /\ pcfg' = TRUE
  /\ UNCHANGED phase

(* TLV_MONI_CONFIG_DEL: the log line that follows reads the configuration of an earlier *)
(* addition or change.                                                                  *)
DelConfig ==
  LET t == Head(todo)
      i == Bsearch(stLogConfig, t.id) IN
  /\ t.op = "del"
  /\ i # 0
  /\ stLogConfig' = RemoveAt(stLogConfig, i)
  /\ IF LogsInfo /\ ~pcfg THEN phase' = "crash" /\ todo' = <<>>
                         ELSE todo' = Tail(todo) /\ UNCHANGED phase
  /\ UNCHANGED pcfg

(* The search fails.  There is no action for it: Sorted shows that it does not happen. *)
Missing == todo # <<>> /\ Head(todo).op # "add" /\ Bsearch(stLogConfig, Head(todo).id) = 0

(* The loop of DealRespCheckLogConfig. *)
DealRespCheckLogConfig ==
  /\ phase = "apply"
  /\ todo # <<>>
  /\ AddConfig \/ ModConfig \/ DelConfig
  /\ UNCHANGED <<srv, last, req, net, faults>>

(* InitCheckLogConfig, at the end of the handler: the next request. *)
InitCheckLogConfig(k) ==
  /\ phase = "apply"
  /\ todo = <<>>
  /\ req' = Check(stLogConfig, k)
  /\ phase' = "wait"
  /\ UNCHANGED <<srv, last, stLogConfig, todo, pcfg, net, faults>>

(* The agent has been started again and the server has answered its first hello. *)
Restart(k) ==
  /\ \/ phase = "crash" /\ UNCHANGED faults
     \/ phase = "wait" /\ faults < MaxFaults /\ faults' = faults + 1
  /\ req' = FirstCheck(stLogConfig, k)
  /\ phase' = "wait"
  /\ todo' = <<>> /\ pcfg' = FALSE
  /\ UNCHANGED <<srv, last, stLogConfig, net>>

Init ==
  /\ srv = <<>> /\ last = 0
  /\ stLogConfig = <<>>
  /\ req \in {FirstCheck(<<>>, k) : k \in Keys}
  /\ phase = "wait" /\ todo = <<>> /\ pcfg = FALSE
  /\ net = {} /\ faults = 0

Next ==
  \/ OnCmdExpire \/ DealRespCheckLogConfig
  \/ \E id \in Ids : ReadTableConfigInfo(id)
  \/ \E m \in net : DealCmdCheckLogConfig(m) \/ Refuse(m) \/ Lose(m) \/ OnMtreportPkg(m)
  \/ \E k \in FreeKeys : InitCheckLogConfig(k) \/ Restart(k)

Spec == Init /\ [][Next]_vars

(* The agent goes on; a packet that is sent again and again arrives in the end; packets *)
(* nobody waits for any more do not stay on the way for ever.                           *)
Fairness ==
  /\ WF_vars(OnCmdExpire)
  /\ WF_vars(DealRespCheckLogConfig)
  /\ WF_vars(\E k \in FreeKeys : InitCheckLogConfig(k))
  /\ WF_vars(\E k \in FreeKeys : phase = "crash" /\ Restart(k))
  /\ SF_vars(\E m \in net : m = req /\ DealCmdCheckLogConfig(m))
  /\ SF_vars(\E m \in net : OnMtreportPkg(m))
  /\ \A kind \in {"check", "answer"} :
       WF_vars(\E m \in net : m.kind = kind /\ (req = NoReq \/ m.key # req.key) /\ Lose(m))

LiveSpec == Spec /\ Fairness
-----------------------------------------------------------------------------
(* bsearch needs a table sorted by id, and the server compares by id: no configuration is *)
(* there twice, whichever answers come, come twice, or come late.  And what an answer     *)
(* changes or deletes is in the table: the log line of the search that fails, which reads *)
(* a configuration that need not be there, is not reached.                                *)
Sorted ==
  /\ \A i, j \in DOMAIN stLogConfig : i < j => stLogConfig[i].id < stLogConfig[j].id
  /\ ~Missing

(* A configuration of the agent never goes back to an older version. *)
NeverBack ==
  [][\A i \in DOMAIN stLogConfig, j \in DOMAIN stLogConfig' :
       stLogConfig[i].id = stLogConfig'[j].id => stLogConfig[i].seq <= stLogConfig'[j].seq]_vars

(* When the server's configuration no longer changes, and the agent's table has room for *)
(* it beside what it has, the agent gets it: all additions, changes and deletions, however*)
(* many packets it takes.                                                                 *)
Converges ==
  <>[](Cardinality(IdsOf(srv) \cup IdsOf(stLogConfig)) <= MaxCfg
         => ToSet(stLogConfig) = ToSet(srv))

(* ... also when the table has room for it only once what is to go has gone. *)
ConvergesFull == <>[](Len(srv) <= MaxCfg => ToSet(stLogConfig) = ToSet(srv))

(* The log line of a deletion reads a configuration the handler has read before. *)
NoNullConfig == phase # "crash"

====
