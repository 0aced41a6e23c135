----------------------------- MODULE WarnQueue -----------------------------
(***************************************************************************)
(* How an alarm gets from slog_check_warn, which compares the reported     *)
(* values with the limits once a minute, to the processes of               *)
(* slog_deal_warn, which send it: by a table in shared memory that no lock *)
(* protects.  A row of the database says for each alarm whether somebody   *)
(* already deals with it.  Time is counted in ages, as time passes without *)
(* end and alarms come again and again.                                    *)
(***************************************************************************)
EXTENDS Integers, FiniteSetsExt

CONSTANTS
  Alarms,     \* object, point and kind of a limit, numbers from 1
  Wids,       \* row ids; one is used again when no row and no node has it
  NNodes,     \* MAX_WARN_SEND_NODE_SHM
  Procs,      \* SLOG_PROCESS_COUNT of slog_deal_warn
  Valid,      \* iValidSendWarnTimeSec, in ticks
  MaxLag,     \* bound: ticks in one pass of slog_check_warn and in one scan of a sender
  MaxFaults   \* bound: statements the database refuses, deaths of slog_check_warn

ASSUME WarnSizes ==
  /\ Alarms \subseteq Nat \ {0} /\ Wids \subseteq Nat \ {0}
  /\ {NNodes, Procs, Valid, MaxLag} \subseteq Nat \ {0}
  /\ MaxFaults \in Nat

None    == 0
Nodes   == 1 .. NNodes
Senders == 0 .. Procs - 1     \* m_iProcessId
Oldest  == Valid + MaxLag + 1 \* an age that no lag makes young again

VARIABLES
  row,              \* mt_warn_info: the last row of an alarm
  node,             \* the table; "sent" tells whether this alarm was sent before
  checked,          \* s_iLastCheckMinIdx is this minute
  cpc, list, cur, upd, at, clag,  \* slog_check_warn: where it is, what is left, the alarm with
                    \* its row, what becomes of the row, the node, ticks since the pass began
  lastIdx,          \* s_iLastShmNodeIdx
  pc, j, lag,       \* senders: where they are, the node, ticks since dwTimeNow was read
  told,             \* senders: the alarm just sent
  wrong, taint,     \* what went wrong so far; what may be the reason
  faults

checker == <<cpc, list, cur, upd, at, clag>>
sender  == <<pc, j, lag, told>>
vars == <<row, node, checked, checker, lastIdx, sender, wrong, taint, faults>>

(* An alarm with the row it belongs to. *)
NoAlarm  == [alarm |-> None, wid |-> 0]
Warnings == [alarm : Alarms, wid : Wids] \cup {NoAlarm}

(* An alarm that was found, with the flag that it is masked, as it, or its machine, is. *)
Found == [alarm : Alarms, mask : BOOLEAN]

Empty == [id |-> 0, warn |-> NoAlarm, age |-> Oldest, sent |-> FALSE]

(* What the table, the rows and the processes may hold; the place where the search of a free
   node starts is in the table. *)
TypeOK ==
  /\ row \in [Alarms -> [wid : Wids \cup {0}, status : {"none", "do", "ok", "mask"}]]
  /\ node \in [Nodes -> [id : Wids \cup {0}, warn : Warnings, age : 0 .. Oldest, sent : BOOLEAN]]
  /\ checked \in BOOLEAN /\ list \subseteq Found
  /\ cpc \in {"idle", "next", "find", "warn", "time", "id", "update"}
  /\ at \in Nodes /\ lastIdx \in Nodes /\ cur \in Warnings
  /\ upd \in {"none", "mask", "keep", "new"}
  /\ clag \in 0 .. MaxLag
  /\ pc \in [Senders -> {"loop", "node", "expire", "send", "clear", "wipe", "dead"}]
  /\ j \in [Senders -> Nodes] /\ lag \in [Senders -> 0 .. MaxLag]
  /\ told \in [Senders -> Alarms \cup {None}]
  /\ wrong \subseteq {"lost", "twice", "torn"} /\ taint \subseteq {"overdue", "wiped", "died"}
  /\ faults \in 0 .. MaxFaults

-----------------------------------------------------------------------------
(***************************************************************************)
(* The console.                                                            *)
(***************************************************************************)

(* DealMultiWarns: somebody deals with the alarm, has dealt with it.  DealWarnsInShm does the
   same to the copy of the row that the console shows; no process here reads that copy. *)
DealMultiWarns(a) ==
  /\ row[a].wid # 0
  /\ \/ row[a].status = "none" /\ row' = [row EXCEPT ![a].status = "do"]
     \/ row[a].status = "do" /\ row' = [row EXCEPT ![a].status = "ok"]
  /\ UNCHANGED <<node, checked, checker, lastIdx, sender, wrong, taint, faults>>

(* The alarm has not come for 24 hours: its row counts no more. *)
RowTooOld(a) ==
  /\ cpc = "idle"
  /\ row[a].wid # 0 /\ row[a].status # "ok"
  /\ row' = [row EXCEPT ![a].status = "ok"]
  /\ UNCHANGED <<node, checked, checker, lastIdx, sender, wrong, taint, faults>>

-----------------------------------------------------------------------------
(***************************************************************************)
(* slog_check_warn.                                                        *)
(***************************************************************************)

(* The statement is refused, or the process dies; the first ends the pass. *)
Fault == faults < MaxFaults /\ faults' = faults + 1

EndPass ==
  /\ cpc' = "idle" /\ list' = {} /\ cur' = NoAlarm /\ upd' = "keep"
  /\ at' = 1 /\ clag' = 0

(* CheckAttrWarn, once a minute: the alarms the reported values call for. *)
CheckAttrWarn(S) ==
  /\ cpc = "idle" /\ ~checked
  /\ \A w, v \in S : w.alarm = v.alarm => w = v
  /\ checked' = TRUE
  /\ list' = S /\ cpc' = "next" /\ clag' = 0
  /\ UNCHANGED <<row, node, cur, upd, at, lastIdx, sender, wrong, taint, faults>>

(* The alarm has a row that nobody has finished. *)
HasRow(a) == row[a].wid # 0 /\ row[a].status # "ok"

UsedWids == {node[n].id : n \in Nodes} \cup {row[a].wid : a \in Alarms}

(* A fault: an alarm that has a row is not sent again. *)
OpenRowOnce(w) ==
  LET s == row[w.alarm].status IN
  /\ HasRow(w.alarm)
  /\ cur' = [alarm |-> w.alarm, wid |-> row[w.alarm].wid]
  /\ upd' = CASE w.mask = (s = "mask") -> "keep" [] w.mask -> "mask" [] OTHER -> "none"
  /\ cpc' = "update"
  /\ UNCHANGED <<row, at, clag, faults>>

(* The alarm has a row that nobody has finished.  It is sent again unless it is masked or
   somebody has begun to deal with it, not longer than iNotSendWarnAfterDealTimeCfg ago. *)
OpenRow(w) ==
  LET s == row[w.alarm].status IN
  /\ HasRow(w.alarm)
  /\ cur' = [alarm |-> w.alarm, wid |-> row[w.alarm].wid]
  /\ upd' = CASE w.mask = (s = "mask") -> "keep" [] w.mask -> "mask" [] OTHER -> "none"
  /\ \/ ~w.mask /\ s \in {"none", "do"} /\ cpc' = "find"
     \/ (w.mask \/ s # "none") /\ cpc' = "update"
  /\ UNCHANGED <<row, at, clag, faults>>

(* A new row; also beside the one that nobody has finished, if the select fails.  The last row
   is the one that is found from then on. *)
NewRow(w) ==
  /\ \/ ~HasRow(w.alarm) /\ UNCHANGED faults
     \/ HasRow(w.alarm) /\ Fault
  /\ \E id \in Wids \ UsedWids :
       /\ row' = [row EXCEPT ![w.alarm] = [wid |-> id, status |-> IF w.mask THEN "mask" ELSE "none"]]
       /\ cur' = [alarm |-> w.alarm, wid |-> id]
  /\ upd' = "new"
  /\ cpc' = IF w.mask THEN "update" ELSE "find"
  /\ UNCHANGED <<at, clag>>

(* The insert fails, as it does with the select when the connection is gone. *)
NewRowFails == Fault /\ EndPass /\ UNCHANGED row

DealWarn(w) ==
  /\ cpc = "next" /\ w \in list
  /\ \/ (OpenRow(w) \/ NewRow(w)) /\ list' = list \ {w}
     \/ NewRowFails
  /\ UNCHANGED <<node, checked, lastIdx, sender, wrong, taint>>

Wrap(n) == IF n > NNodes THEN n - NNodes ELSE n

(* An alarm that is still to be sent. *)
Pending(n) == n.id # 0 /\ ~n.sent /\ n.age < Valid

Loses(n) == wrong' = wrong \cup (IF Pending(n) THEN {"lost"} ELSE {})

(* A fault: s_iLastShmNodeIdx does not go back to the beginning. *)
AddSendWarnToShmOn ==
  LET free == {n \in lastIdx .. NNodes : node[n].id = 0} IN
  /\ cpc = "find"
  /\ \/ free # {} /\ at' = Min(free) /\ lastIdx' = at' + 1 /\ cpc' = "warn"
     \/ free = {} /\ cpc' = "update" /\ UNCHANGED <<at, lastIdx>>
  /\ UNCHANGED <<row, node, checked, list, cur, upd, clag, sender, wrong, taint, faults>>

(* A fault: any node will do when none is free. *)
AddSendWarnToShmOver ==
  LET free == {n \in Nodes : node[n].id = 0} IN
  /\ cpc = "find"
  /\ at' = IF free = {} THEN lastIdx ELSE Min(free)
  /\ lastIdx' = Wrap(at' + 1) /\ cpc' = "warn"
  /\ UNCHANGED <<row, node, checked, list, cur, upd, clag, sender, wrong, taint, faults>>

(* AddSendWarnToShm: the first free node from s_iLastShmNodeIdx on, else the first that
   timed out, else the alarm is not sent. *)
AddSendWarnToShm ==
  LET Nth(k)   == Wrap(lastIdx + k)
      free     == {k \in 0 .. NNodes - 1 : node[Nth(k)].id = 0}
      timedOut == {k \in 0 .. NNodes - 1 : node[Nth(k)].age - clag > Valid} IN
  /\ cpc = "find"
  /\ \/ \E k \in free :
          /\ \A i \in free : k <= i
          /\ at' = Nth(k) /\ lastIdx' = Wrap(Nth(k) + 1) /\ cpc' = "warn"
     \/ \E k \in timedOut :
          /\ free = {} /\ \A i \in timedOut : k <= i
          /\ at' = Nth(k) /\ lastIdx' = Wrap(lastIdx + 1) /\ cpc' = "warn"
     \/ /\ free = {} /\ timedOut = {}
        /\ cpc' = "update" /\ UNCHANGED <<at, lastIdx>>
  /\ UNCHANGED <<row, node, checked, list, cur, upd, clag, sender, wrong, taint, faults>>

StoreWarn ==
  /\ cpc = "warn"
  /\ Loses(node[at])
  /\ node' = [node EXCEPT ![at].warn = cur]
  /\ cpc' = "time"
  /\ UNCHANGED <<row, checked, list, cur, upd, at, clag, lastIdx, sender, taint, faults>>

StoreTime ==
  /\ cpc = "time"
  /\ node' = [node EXCEPT ![at].age = clag]
  /\ cpc' = "id"
  /\ UNCHANGED <<row, checked, list, cur, upd, at, clag, lastIdx, sender, wrong, taint,
                 faults>>

StoreId ==
  /\ cpc = "id"
  /\ node' = [node EXCEPT ![at].id = cur.wid, ![at].sent = FALSE]
  /\ taint' = taint \cup (IF node[at].age >= Valid THEN {"overdue"} ELSE {})
  /\ cpc' = "update"
  /\ UNCHANGED <<row, checked, list, cur, upd, at, clag, lastIdx, sender, wrong, faults>>

(* The row is brought up to date, with the status as it was read; the next alarm. *)
UpdateRow ==
  LET a == cur.alarm IN
  /\ cpc = "update"
  /\ \/ /\ row' = [row EXCEPT ![a].status = IF upd \in {"keep", "new"} THEN @ ELSE upd]
        /\ cpc' = "next" /\ cur' = NoAlarm /\ upd' = "keep" /\ at' = 1
        /\ UNCHANGED <<list, clag, faults>>
     \/ upd # "new" /\ Fault /\ EndPass /\ UNCHANGED row
  /\ UNCHANGED <<node, checked, lastIdx, sender, wrong, taint>>

PassEnds ==
  /\ cpc = "next" /\ list = {}
  /\ EndPass
  /\ UNCHANGED <<row, node, checked, lastIdx, sender, wrong, taint, faults>>

(* slog_check_warn ends, as when the connection to the database is gone and it uses it all
   the same, and is started again. *)
CheckerDies ==
  /\ cpc # "idle"
  /\ Fault /\ EndPass
  /\ checked' = FALSE /\ lastIdx' = 1
  /\ UNCHANGED <<row, node, sender, wrong, taint>>

-----------------------------------------------------------------------------
(***************************************************************************)
(* slog_deal_warn.                                                         *)
(***************************************************************************)

Go(p, where) == pc' = [pc EXCEPT ![p] = where]

(* The next node; after the last one the mails, and the next pass of the main loop. *)
NextNode(p) ==
  IF j[p] = NNodes THEN Go(p, "loop") /\ j' = [j EXCEPT ![p] = 1] /\ lag' = [lag EXCEPT ![p] = 0]
                   ELSE Go(p, "node") /\ j' = [j EXCEPT ![p] = @ + 1] /\ UNCHANGED lag

ScanSendWarnShm(p) ==
  /\ pc[p] = "loop"
  /\ Go(p, "node")
  /\ UNCHANGED <<row, node, checked, checker, lastIdx, j, lag, told, wrong, taint, faults>>

Expired(p) == node[j[p]].age - lag[p] >= Valid

ScanNode(p) ==
  LET n == node[j[p]] IN
  /\ pc[p] = "node"
  /\ \/ /\ n.id # 0 /\ Expired(p)
        /\ Go(p, "expire") /\ UNCHANGED <<j, lag>>
     \/ /\ n.id # 0 /\ ~Expired(p) /\ n.id % Procs = p
        /\ Go(p, "send") /\ UNCHANGED <<j, lag>>
     \/ /\ n.id = 0 \/ (~Expired(p) /\ n.id % Procs # p)
        /\ NextNode(p)
  /\ UNCHANGED <<row, node, checked, checker, lastIdx, told, wrong, taint, faults>>

ExpireNode(p) ==
  /\ pc[p] = "expire"
  /\ Loses(node[j[p]])
  /\ node' = [node EXCEPT ![j[p]].id = 0]
  /\ NextNode(p)
  /\ UNCHANGED <<row, checked, checker, lastIdx, told, taint, faults>>

(* OnWarn, SendWarn, SendWarnByXrkmonitor: what is in the node now. *)
SendWarn(p) ==
  LET n == node[j[p]] IN
  /\ pc[p] = "send"
  /\ told' = [told EXCEPT ![p] = n.warn.alarm]
  /\ node' = [node EXCEPT ![j[p]].sent = TRUE]
  /\ wrong' = wrong \cup (IF n.sent THEN {"twice"} ELSE {})
                    \cup (IF n.id # n.warn.wid THEN {"torn"} ELSE {})
  /\ Go(p, "clear")
  /\ UNCHANGED <<row, checked, checker, lastIdx, j, lag, taint, faults>>

(* memset, from the beginning of the node on.  First the id: slog_check_warn may take the node
   from now on. *)
ClearId(p) ==
  /\ pc[p] = "clear"
  /\ Loses(node[j[p]])
  /\ node' = [node EXCEPT ![j[p]].id = 0, ![j[p]].sent = FALSE]
  /\ told' = [told EXCEPT ![p] = None]
  /\ Go(p, "wipe")
  /\ UNCHANGED <<row, checked, checker, lastIdx, j, lag, taint, faults>>

(* The node has a new alarm, or slog_check_warn has stored a part of it. *)
Refilled(n) == node[n].id # 0 \/ (cpc \in {"time", "id"} /\ at = n)

(* Then the rest.  An alarm that came meanwhile is too old at once, or empty if its time is
   still to be stored. *)
ClearRest(p) ==
  /\ pc[p] = "wipe"
  /\ Loses(node[j[p]])
  /\ taint' = taint \cup (IF Refilled(j[p]) THEN {"wiped"} ELSE {})
  /\ node' = [node EXCEPT ![j[p]].age = Oldest, ![j[p]].warn = NoAlarm]
  /\ NextNode(p)
  /\ UNCHANGED <<row, checked, checker, lastIdx, told, faults>>

(* A sender is killed, or leaves the main loop as it has no connection to the database. *)
Die(p) ==
  /\ pc[p] # "dead"
  /\ Go(p, "dead")
  /\ j' = [j EXCEPT ![p] = 1] /\ lag' = [lag EXCEPT ![p] = 0] /\ told' = [told EXCEPT ![p] = None]
  /\ taint' = taint \cup (IF pc[p] = "clear" THEN {"died"} ELSE {})
  /\ UNCHANGED <<row, node, checked, checker, lastIdx, wrong, faults>>

(* check_proc_monitor.sh wants 1 to 8 processes of slog_deal_warn, whatever their number is
   by the configuration: it starts them when none is left. *)
RestartSenders ==
  /\ \A p \in Senders : pc[p] = "dead"
  /\ pc' = [p \in Senders |-> "loop"]
  /\ UNCHANGED <<row, node, checked, checker, lastIdx, j, lag, told, wrong, taint, faults>>

-----------------------------------------------------------------------------
Scanning(p) == pc[p] \notin {"loop", "dead"}

(* A minute. *)
Tick ==
  /\ clag < MaxLag /\ \A p \in Senders : lag[p] < MaxLag
  /\ checked' = FALSE
  /\ node' = [n \in Nodes |-> [node[n] EXCEPT !.age = IF @ = Oldest THEN @ ELSE @ + 1]]
  /\ clag' = IF cpc = "idle" THEN 0 ELSE clag + 1
  /\ lag' = [p \in Senders |-> IF Scanning(p) THEN lag[p] + 1 ELSE 0]
  /\ taint' = taint \cup (IF \E n \in Nodes : node[n].id # 0 /\ node'[n].age >= Valid
                          THEN {"overdue"} ELSE {})
  /\ UNCHANGED <<row, cpc, list, cur, upd, at, lastIdx, pc, j, told, wrong, faults>>

Init ==
  /\ row = [a \in Alarms |-> [wid |-> 0, status |-> "none"]]
  /\ node = [n \in Nodes |-> Empty]
  /\ checked = FALSE
  /\ cpc = "idle" /\ list = {} /\ cur = NoAlarm /\ upd = "keep" /\ at = 1 /\ clag = 0
  /\ lastIdx = 1
  /\ pc = [p \in Senders |-> "loop"]
  /\ j = [p \in Senders |-> 1] /\ lag = [p \in Senders |-> 0]
  /\ told = [p \in Senders |-> None]
  /\ wrong = {} /\ taint = {} /\ faults = 0

Checker ==
  \/ \E S \in SUBSET Found : CheckAttrWarn(S)
  \/ AddSendWarnToShm \/ StoreWarn \/ StoreTime \/ StoreId
  \/ UpdateRow \/ PassEnds
  \/ \E w \in Found : DealWarn(w)

Sender(p) ==
  \/ ScanSendWarnShm(p) \/ ScanNode(p) \/ ExpireNode(p) \/ SendWarn(p)
  \/ ClearId(p) \/ ClearRest(p)

Next ==
  \/ Checker \/ CheckerDies
  \/ \E p \in Senders : Sender(p) \/ Die(p)
  \/ \E a \in Alarms : DealMultiWarns(a) \/ RowTooOld(a)
  \/ RestartSenders
  \/ Tick

Spec == Init /\ [][Next]_vars

(* The processes go on, and so do the clock and the script that looks after them; an alarm
   that lasts is found again and again, and not masked.  Nothing is
   assumed of those who deal with alarms. *)
Fairness ==
  /\ \A a \in Alarms : SF_vars(\E S \in SUBSET Found :
                                   [alarm |-> a, mask |-> FALSE] \in S /\ CheckAttrWarn(S))
  /\ WF_vars(Checker) /\ WF_vars(Tick) /\ WF_vars(RestartSenders)
  /\ \A p \in Senders : WF_vars(Sender(p))

LiveSpec == Spec /\ Fairness
-----------------------------------------------------------------------------
(* As long as no alarm got too old, in the table or under the hands of a slow sender, and none
   came into a node that a sender was still clearing: no alarm that is still to be sent is
   cleared, overwritten or taken for too old by a process that looked at another one; an alarm
   is sent with the id of its row, whenever the sender reads the node; and it is sent once,
   unless the process that sent it died before it cleared the node. *)
SentExactly ==
  /\ wrong \cap {"lost", "torn"} # {} => taint \cap {"overdue", "wiped"} # {}
  /\ "twice" \in wrong => taint # {}

Alive == \A p \in Senders : pc[p] # "dead"

Due(a) == row[a].status = "none"

(* An alarm that lasts, is not masked and that nobody deals with is sent in the end, although
   statements are refused, slog_check_warn dies and the table is full; unless alarms grow too
   old in the table or are wiped there, or one of several senders is dead. *)
Notified ==
  \A a \in Alarms :
    Due(a) ~> \/ ~Due(a) \/ \E p \in Senders : told[p] = a \/ pc[p] = "dead"
              \/ taint \cap {"overdue", "wiped"} # {}

(* ... also if one of several senders died, as long as no alarm grew too old before.  Does not
   hold: nobody starts it again, and the alarms that are its own grow too old. *)
NotifiedAlways ==
  \A a \in Alarms :
    Due(a) ~> \/ ~Due(a) \/ \E p \in Senders : told[p] = a
              \/ "wiped" \in taint \/ ("overdue" \in taint /\ Alive)

(* No alarm is lost or sent empty as long as none got too old.  Does not hold: the memset of a
   node goes on after slog_check_warn took it, as its id is 0. *)
SentInTime == wrong \cap {"lost", "torn"} # {} => "overdue" \in taint

(* Nothing that was not wiped is lost, even if alarms got too old.  Does not hold: a slow sender clears what
   came after the alarm it sent. *)
NothingEverLost == "wiped" \notin taint => "lost" \notin wrong

(* A sender that reads a node in time gets one alarm.  Does not hold: a node that timed out
   gets the new alarm and its time before the new id. *)
NeverTorn == "torn" \notin wrong

(* A row that is finished is not opened again.  Does not hold: the status is written as it
   was read before. *)
Finished ==
  [][\A a \in Alarms : row[a].status = "ok" /\ row'[a].wid = row[a].wid
                                   => row'[a].status = "ok"]_vars

(* A free node with what a process that died left in it. *)
LeftOver(n) ==
  /\ node[n].id = 0 /\ node[n] # Empty
  /\ ~Refilled(n) /\ \A p \in Senders : pc[p] = "wipe" => j[p] # n

(* Bound: nothing is explored beyond the first thing that went wrong, beyond an alarm that may
   be sent twice and one that was wiped; what is left in a free node, which nobody reads, only
   in the first one; once an alarm grew too old, only the table and the senders are. *)
Explored ==
  /\ wrong = {} /\ taint \subseteq {"overdue"}
  /\ faults = 0 \/ Alive
  /\ \A n \in Nodes : LeftOver(n) => n = 1 \/ "overdue" \in taint
  /\ "overdue" \in taint => /\ faults = 0 /\ Alive
                            /\ \A a \in Alarms : row[a].wid # Max(Wids) /\ row[a].status = "none"
====
