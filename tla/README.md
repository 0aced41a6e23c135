# A TLA+ model of xrkmonitor

xrkmonitor is a distributed monitoring system. Applications report monitoring points and
logs through a small C API into shared memory; an agent on the same machine reads them out
and sends them over UDP; servers aggregate, store, show and alarm. This directory holds TLA+
modules of the parts where its correctness is decided by interleavings, crashes and lost
packets: the shared memory between API and agent, the agent's timers, the protocol between
agent and access server, the reporting interface for web pages, and behind the servers the
dispatch of log writing and the table of alarms.

Contents: [inventory](#1-the-system), [modules](#2-modules-and-code), [runs](#3-runs),
[fairness](#4-fairness), [proofs](#5-proofs), [known deviations](#6-known-deviations),
[limits](#7-what-is-not-modelled), [plan](#8-plan).

## 1. The system

    application processes          agent (2 processes)            servers
    mt_log.c  mt_attr.c            mtreport_client.cpp            slog_mtreport_server  <- slog_config <- MySQL
       |         |    \            mtreport_protoc.cpp   hello    (access: keys,
    mt_vmem.c    |   mt_shared_    sv_timer.cpp        <-------->  configuration)
       |         |   hash.c            ^                check
       v         v    v                |
    ===== shared memory =====----------+---- points ----> slog_monitor_server -> memcached, MySQL -> slog_check_warn
                                       +---- logs ------> slog_server -> shared memory -> slog_write       |
                                                                                              slog_deal_warn

| component | state | operations | interacts with | hard because | correct if |
|---|---|---|---|---|---|
| variable memory pools, `mt_vmem.c` | per pool a free list, a count, a lock with time stamp | save, get, free, mark, scan, check | all API processes and the agent, through shared memory | lock taken over after a time-out; processes die between two stores; frees without the lock | lock excludes; a live index reads back; no node is lost into or taken from outside the pool; a dead holder does not block |
| logs, `mt_log.c` and `ReadAppLog` | rings of slots, read and write index, a lock | write a log; read the ring | writers and agent | reservation and publication are two steps; a ring can be lapped; buffers of a pass can be full | order kept, nothing twice, nothing accepted is lost without the code saying so; the ring empties |
| shared hash tables, `mt_shared_hash.c` | doubly linked list of used nodes, count, a flag with time stamp | insert, remove, walk, check, reset | writers and agent | every operation is several stores; the agent reads without the flag | the list is whole between calls; the flag excludes; drains end |
| monitoring points, `mt_attr.c`, `ReadAttr`, `ReadStrAttr` | nodes with id, value and claim; the special list | add, set, read | writers and agent | values change without a lock; tables fill up | what is reported is sent |
| agent timers, `sv_timer.cpp` | a wheel of five levels | add, take out, run | all handlers of the agent | levels are dealt out in turn; handlers take time and re-arm; a limit per call | no timer early, none late, the cascade ends |
| configuration check, `mtreport_protoc.cpp`, `udp_sock.cpp` of the access server | sorted table at the agent, linked list at the server | check, answer with additions, changes and deletions | agent and server over UDP | packets are lost, repeated, reordered; answers are cut by packet size; the agent is started again | the table stays sorted, nothing goes back, the agent gets what the server has |
| session and supervision, `mtreport_client.cpp`, shell scripts | key on both sides, timers, `cIsAgentRun`, time of the last hello | first hello, hello, time-outs, monitor process, cron | agent, monitor, cron, server | late packets of earlier processes; a server that forgets; a table of timers that is full; commands that hang | the keys agree, one chain of each kind, the agent always comes back |
| plug-in installation (agent and access server) | state of a plug-in, events | download, install, start, stop, remove | server, shell scripts | retries of steps already done | not modelled yet |
| `slog_config` | lists of configurations in shared memory | read changed rows, link, unlink | servers that walk the lists | no lock | only its effect on the log configuration |
| `slog_monitor_server` | points per machine in shared memory | receive, aggregate, write to database | agents, database, CGI | quick and slow processes share the tables | not modelled yet |
| `slog_server`, `slog_client`, `slog_write` | a ring of logs per application, a flag and the time of the last writing, a slot per writing process | receive, dispatch, accept, write | each other, and all processes that log, through shared memory | slots without a lock, rings with one that is given up after 100 tries; a writer counts as alive by a time stamp; logs are published out of order; processes die with applications in their lists, and are stopped one by one | one writer per application, no log written twice by running processes, a full ring gets room again |
| `slog_check_warn`, `slog_deal_warn` | table of alarms to send, a row of the database per alarm | find, store, send, clear, deal with | each other through shared memory, people through the console, the restart script | nodes are used again after a time-out, without a lock; statements fail; processes die | no alarm lost, mixed up or sent twice; one that lasts is sent |
| reporting interface for web pages, `dmt_xrkmonitor.js` | lists of what waits, a delay timer, a periodic timer, the request under way | report points, strings and logs; send; answers | the page, plug-ins, the browser's timers, the server over HTTP | answers are lost or late, requests refused; many paths set and clear one timer | what is reported is sent once, nothing is forgotten, reporting always goes on |
| `cgi_fcgi`, `html`, `db`, language bindings | the database | forms and queries | the database | - | out of scope: I/O |
| `clearsilver`, `libsockets`, `mysqlwrapped`, protobuf, memcached, echarts, jquery, TweenMax, DWZ | - | - | - | - | out of scope: third party |

What can go wrong, each at its line, is the list `hazards` of `PROJECT.json`.

## 2. Modules and code

Every module has an `MC...` module that names its model values, and `.cfg` files with
the constants. Definitions have the names of the code where there is one; `map` in
`PROJECT.json` gives the lines. Operators whose comment begins with "A fault:" are not part
of the specification: each is a variant of the operator behind it, with an error that could
have been made there, and the property it is paired with in `PROJECT.json` fails with it.

**History and taints.** Code that takes a lock over after a time-out, or that changes a
value without a lock, does lose data on some schedules. The modules model that. A history variable
`taint` collects the ways in which exclusion was given up or a value lost; properties speak of
behaviours without taint, or with some taints only. So a property says: *these are
the only ways*. Each taint is a place in the code; the ones that contradict a comment or a header
are in section 6.

### VmemPool - `mt_vmem.c`
State: `next`, `data` (nodes), `free`, `used`, `flag`, `age` (of the stamp), `scan` of the pool;
label and locals of each process; the indexes saved and not freed (`live`). One action per store that another process can see: compare-and-swap,
time-out test, stamp, test for room, scan, pop, fill, link, count, release; the free with
and without the lock; the check by the agent at its end. `Crash` may come between any two. Time is the age
of the stamp, so no clock bound is needed. `MaxNeed` is the number of nodes of the largest content.

### AppLog - `MtReport_Log` (`mt_log.c`), `ReadAppLog` (`mtreport_client.cpp`)
State: the indexes, the lock and its stamp, the slots with time and "published"; a clock. The
writer's part begins behind the filters. The agent's pass: lock, loop over the slots (read,
step over, no room, no application), reset of an empty ring, release. A log in `Long` has a part in the variable memory. It may be that the part cannot be saved (`unsaved`);
the agent copies and frees it before it looks for room (`TakePart`), so that a pass without room leaves the log in the ring without it
(`gone`, `noroom`; section 6); `whole` are the logs that were passed on with their part. `died` notes the windows in which writers died. One of them matters: between
the advance of `iWriteIndex` and `dwLogSeq = 0` the slot still shows its log of an earlier round as published, so `DeliveredInOrder`
speaks of behaviours in which no writer died there (section 6 has the other ones).

### SharedHash - `mt_shared_hash.c`, `ReadAttr`
State: links, start, end, count and used bits of a table, flag and age of its stamp. An insert or
removal computes its stores from what it reads under the flag (`script`) and then does them one by
one, in the order of the code. The agent's drain reads start and count at two moments, without the flag,
walks, unlinks, and may check and reset the table. Index `None` is `dwRealNodeCount`, "no node". The memory that a reset clears is `ResetCount` nodes
(one row in the code, section 6); a reset that leaves a used node behind taints the history (`"kept"`).

### AttrReport - `mt_attr.c`, `ReadAttr`, `ReadStrAttr`
One level above SharedHash: linking and unlinking are one step that may fail (`Busy`). All points collide, the worst
the hash function can do. Number points (`Str = FALSE`) go from table to table and then to the special
list; string points (`Str = TRUE`) search their one table again.

### TimerWheel - `sv_timer.cpp`
Lists of a wheel of `Levels` levels (`RootSize` and `WheelSize` are 256 and 64 in the code); the clock; one action for the
placing, the cascade, the tick, the handler with the time it takes, and its re-arming. A tick that is begun again may deal a timer out to the list it came from: a single one is linked to
itself and falls out of the list (`Adrift`), two or more make the cascade endless and stop the agent (section 6).

### ConfigSync - `DealRespCheckLogConfig` and the server's answer
The server's list with sequence numbers, the agent's table, the request in the timer, the packets on the
way (at most `NetMax`; a packet more is lost). An answer is applied TLV by TLV, with the binary search as a recursive function (`Bsearch`, a step
of which is `BsearchStep`) and the sorting as a permutation that orders the ids (`Qsort`). The loops that go through a list and take some of its elements are `Picked`, also a
recursive function. A sequence number is given once here; in the code a new configuration gets `rand()`, so `NeverBack` speaks of servers whose numbers do not repeat.

### AgentSession - first hello, hello, check, monitor process, cron
Keys of agent and server, timers that carry a request, the number of data timers, age of the
last hello, packets. `Stop` is `cIsAgentRun = 2` together with the end of the process that follows at
the end of the turn of the main loop; packets of an ended process are gone with its socket, except
a first hello on its way, which still changes the server. A first hello that is refused may have changed the key at the server or not: the key is copied before
the table of machines is written. The chain "check" stands for the three checks (log, application,
system configuration). The branch of the monitor that kills a hung agent has no action, because its condition can never be
true (section 6).

### JsReport, Mailbox - `dmt_xrkmonitor.js`
A page runs one handler at a time, so one action per call of the page (`attr_add`, `attr_set`, the string
points, the logs of the page and of plug-ins), per timer that fires and per answer; each with all that
the handler calls, up to the request. State: what waits (`buf`), the delay timers that are set and the number the code keeps of one, the periodic
timer, the requests without an answer, the number of the last one, and the ages of what the code notes the time of. `_init` may
fail, may wait for `json2.js`, and may find no `XMLHttpRequest`; a request may be refused by the frequency limit or by `open` or `send`.
`Mailbox` is what the page may rely on: a box of numbers to which reports add, and from which a request takes all numbers but only one
list of logs, whole. `RefinesMailbox` says that JsReport implements it, under the mapping that counts what waits (`Waiting`), calls the box busy
while `last_req_seq` is set and watched once `req_seq` is not 0 (the first request has number 0 and is not noted).

### WriteDispatch - `slog_write.cpp`, the ring of `supper_log.cpp`, `check_proc_monitor.sh`, `stop_comm.sh`
Who logs (`Sources`): the servers, which set the flag of the application and then call `WriteAppLogToShm`, and the processes of the system with their own
log, which set it at the end of `ShmLog`. Either reserves a place, blanks it, publishes the log, tests whether the ring has a start and stores it under the lock, in which it does
not test again. `RemoteShmLog` has the same form as `ShmLog`. A source may die anywhere. The sections under `bTryGetLogIndex` have two steps, in and out; who finds the lock taken
a hundred times, a millisecond each, goes on without it, which is noted (`"unlocked"`) and not followed further.

Main process: wait for the children, walk over the applications, give one to a slot by two stores. Child: announce itself, clear its slot, accept,
pass over its list; `WriteFile` writes a record to the file, tests that the start of the ring is still there, takes the lock and moves it, each a step.

A child, the main process or a source may die anywhere, a child also by the exits of the code. The script stops all processes when one is missing, or somebody runs it (`Stop`); each process finds the signal
at the beginning of its next pass and then sets all times and all `iProcessId` to 0 on its own (`Exit`, `MainExit`), beside those that still work; one that does not is killed; when all have
ended they are started again (`StartAll`). The age of `dwLastTryWriteLogTime` replaces the clock.

`taint` notes a pass that took half the check time (`slow`), an index read before it was stored (`torn`), a child that was stopped while the main process and another child still ran (`stop`), which are over when all were started
again; and a list that was full (`full`), a start of the ring set again or back to logs that were written (`back`), a lock passed by (`unlocked`), a death between reserving a place and blanking it (`unblanked`).

### WarnQueue - `slog_check_warn.cpp`, `slog_deal_warn.cpp`
The checker: once a minute a set of alarms (any set: the comparison of values with limits is its input), for each one the row, the free or timed-out node, the three stores, the update
of the row; a refused statement ends the pass, the loss of the connection the process. The sender: node by node, with the time it read at the beginning of the scan; it sends what is
in the node when it sends, and clears the node afterwards, first the id (`ClearId`) and then the rest (`ClearRest`), as `memset` does: between the two the node counts as free, and what the checker puts there is wiped (`"wiped"`).
A select that fails counts as one that found no row, so that a second row may be inserted beside an open one. Console and restart script as they change rows and processes. Time is the age of the nodes, and the lag of each process
behind the clock. A row that is not touched for 24 hours counts as finished (`RowTooOld`). The search of a node is one step: only the checker fills nodes, and a node freed behind the
search would only be found next time.

## 3. Runs

`tlc -config <cfg> <module>`; bounds in the cfg. All passing runs are exhaustive within these bounds and the constraints named below.

| run | configuration | shows |
|---|---|---|
| `vmem` | `MCVmemPool.cfg` | lock excludes, live indexes read back, pool is never left, count never wraps; the lock of a dead process is released again |
| `log` | `MCAppLog.cfg` | lock excludes, order, no other losses, published logs leave the ring |
| `hash` | `MCSharedHash.cfg` | flag excludes, list whole, no link to "no node", every node is drained |
| `attr` | `MCAttrReport.cfg` | number points: reported = sent + held; all is sent in the end |
| `attr_str` | `MCAttrReport_str.cfg` | string points, with links that are refused; bound of the claim counter |
| `timer_wheel` | `MCTimerWheel.cfg` | every timer fires on time, neither early nor late |
| `config_sync` | `MCConfigSync.cfg` | table sorted, searches succeed, nothing goes back, and the agent gets the server's configuration while its table has room for what both have; under lost, repeated, late and refused packets and restarts |
| `session_safe` | `MCAgentSession.cfg` | one hello and one check under way, keys agree |
| `session_live` | `MCAgentSession_live.cfg` | a hello is answered, and a check is under way, again and again |
| `js_report` | `MCJsReport.cfg` | JsReport implements Mailbox; one delay timer, and its number known; points that wait are sent unless the number of a cleared timer was kept |
| `write` | `MCWriteDispatch.cfg` | one writer per application, no log written twice by running processes, a full ring gets room again; with two processes that log, through deaths, stops and starts |
| `warn` | `MCWarnQueue.cfg` | no alarm lost, mixed up or sent twice until one grows too old or comes into a node that is still being cleared; one that lasts is sent in the end |

Bounds, and why they are enough to meet the cases:
* `vmem`: two processes are enough for every pair of a live holder and a taker, one of them is the agent, and either may die; two nodes to save in and contents of
  one or two nodes give full and empty lists, chains, marks and scans; two values tell contents apart. Larger pools (three
  nodes, one value) were checked for the invariants as well.
* `log`: two slots and three logs fill and lap the ring; the first log is a long one; one writer may die. A lock is taken over when its stamp is more than 0 seconds old and two seconds pass, so that
  a lock that was stamped times out as well as one that was not. Behaviours are followed until exclusion is given up (`UntilTaint`).
* `hash`: with two nodes first and last differ, and lists of no, one and two nodes are appended to and unlinked from at either end; a node with two neighbours needs three, of which the theorems speak, not the run.
  Three processes are needed for a stamp cleared under the next holder. A reset covers one of the two nodes, as it covers one of several rows. Behaviours are followed until the flag is cleared under a live holder, a holder dies or
  a reset leaves a used node behind.
* `attr`: two writers with two calls each, two points and two tables of one row, a special list and a packet of one
  entry: collisions, full tables, full packets. Followed until a value is lost.
* `timer_wheel`: two timers, four levels of two lists (the code has five of 256 and 64), ten ticks: each level is dealt out at least once.
* `config_sync`: three configurations of which two fit into the table; one and a deletion fit into an answer; two packet numbers, three packets on the way, three changes, one restart or refusal; with `LogsInfo`, so
  that the agent also dies in the handler.
* `session_safe`: two packets of the running process and a first hello of an ended one on the way, four timers.
  `session_live`: one and one, a table of three timers that data can fill, two faults.
* `js_report`: two points of which both fit into a request, one string, two logs, a plug-in, two requests without an answer: every limit is met, answers come late and out of order.
* `write`: one application, two children, a server and a process that logs for itself, a ring of two logs, a list of one application, one death or stop by hand: either child may be the second writer, the list and the ring
  are full, and all are stopped and started again. With one application the slot always holds its index, so no slot is torn here: `MCWriteDispatch_slow` has two applications, and the theorems any number. Constraint `Explored`: what follows a taint
  is followed only for a slow pass, while no log is under way or waits and nobody died; nobody is in the middle of a log while processes are stopped or about to start; two log at a time only
  while one child has the application and nobody died.
* `warn`: one alarm whose rows have two ids, one for each sender; two nodes; alarms are valid for two ticks, a process lags one tick behind; one refused statement or death of the checker, any number
  of deaths of senders. The table fills up with rows of this one alarm, never with other alarms. Constraint `Explored`: nothing is followed beyond the first thing that went wrong, beyond an alarm that may be sent twice and one that was wiped; what a
  process that died left in a free node, which nobody reads, only in the first node.

Deadlock is checked, except in `log`, where the bounds on logs and time let every process come to rest.

## 4. Fairness

* VmemPool: a live process goes on with the call it is in, reports again, and time passes. `LockRecovered` assumes that not every process that may take the lock over dies
  again and again.
* AppLog: writers go on; the agent's pass comes again and again and finds the lock free infinitely often (it only tries once a pass: strong
  fairness of `ReadCas`); not all passes end without room (buffers are sent between passes).
* SharedHash, AttrReport: writers go on with the calls they are in and the agent with its turns; nobody has to report again.
* ConfigSync: of a request that is sent again and again some copy is answered and some answer arrives; packets nobody waits for do not stay for ever.
* AgentSession: processes, clock and cron go on; the same about packets for the first hello and the hello. Nothing is asked for the check: `ChecksAgain` holds because
  the run limit ends every process.
* JsReport: the clock and the browser's timers go on. Nothing is assumed of answers, nor that the page reports again.
* WriteDispatch: processes that log go on with their log, and applications log again to a server (weak fairness of `Reserve` by some server); the main process, the children and the clock go on; the script, which cron calls, stops all when
  a process is missing, processes that are stopped end (by the signal, or killed after three tries), and are started again. A file that is tried again and again can be written in the end (strong fairness of `WriteLogRecord`). Nothing is assumed of
  the length of a pass.
* WarnQueue: processes, clock and restart script go on; an alarm that lasts is found, unmasked, again and again (strong fairness). Nothing is assumed of the people who deal with alarms, nor that senders live.

UDP justifies no more than this: the code sends again until it is answered.

## 5. Proofs

The `..._proofs.tla` modules are checked by `tlapm`. Their theorems hold for every value of the constants: any number of processes,
nodes, slots, packets, applications and plug-ins, and any bound on deaths and calls. Each one states a property that
a run also checks on a small instance. An invariant is proved inductive action by action; where the property alone is not
inductive, the module defines what has to be added:

| module | theorems | inductive invariant, and why it is needed |
|---|---|---|
| `VmemPool_proofs` | `TypeCorrect`, `MutexCorrect`, `ReadsBackCorrect` (`LiveReadsBack`), `UsedCorrect` (`UsedCovers`) | `TypeInv` adds what each label implies for the locals that a step uses as an index. `LockInv`, under `Clean`, is kept by a takeover because taking the lock from a live holder taints. On top of it `PoolClean`: the free list is a sequence of distinct free nodes (`FreeInv`), marks only on nodes nobody owns (`MarkInv`), every call's partial chain belongs to it (`ChainInv`), live chains are whole, apart and unmarked (`LiveInv`), and the count covers what the free list lacks, with an allowance for the node that a save has popped and not yet counted (`CountInv`). Content reads back only because nodes have one owner, and they have one owner only because the list has no duplicates, so none of these goes through alone. |
| `AppLog_proofs` | `ExclusionCorrect` (`RingExclusion`), `RingTypeCorrect`, `OrderCorrect` (`DeliveredInOrder`), `NothingLostCorrect` (`NothingElseLost`) | Layers: `TypeInv`, `LockInv` (exclusion), `RingInv` (`Numbered`: the slot at distance d behind the write index holds reservation count - d; a writer owns its slot), then `OrderInv` (a published slot holds the log it was reserved for; what was passed on is older than what the read index will meet) and `LossInv` (an accepted log is in a slot ahead of the read index that no writer will touch, and has its part unless that is in `unsaved` or `noroom`: `Saved`). The range of the two indexes needs exclusion, so the type theorem comes after the lock. |
| `SharedHash_proofs` | `HashTypeCorrect`, `HashMutexCorrect`, `ListCorrect` (`ListConsistent`) | The list is whole only between the calls, so `ListInv` speaks of the table t *to which the stores under way lead* (`Toward`): t is a whole list (`Whole`), every store still to come agrees with t, and every field that differs from t is still to be stored. Beside it: stores never go behind the last node (`StoreInv`), a drain that reads the ends without the flag finds nodes of t (`ReadInv`), the agent's node and cursor are in t and differ when it unlinks (`AgentInv`), and a writer's node is not in t and nobody else's (`WriterInv`). Lemmas `Appended`, `Removed`, `Emptied` say what insert, removal and reset do to a list. |
| `AgentSession_proofs` | `SessionTypeCorrect`, `OneChainCorrect`, `KeysAgreeCorrect` | `Inv`: the timers and packets are finite and fewer than keys and sequence numbers (so that a fresh one exists), a process that ended leaves only first hellos behind, the monitor starts a process only when there is none. `KeyInv` adds that an answer to a first hello on the way means the server has the key. |
| `JsReport_proofs` | `JsTypeCorrect`, `TimerCorrect` (`TimerTracked`), `MailboxCorrect` (`RefinesMailbox`) | `Inv`: one timer whose number is kept, and only strings that are cut when stored get second entries. The refinement maps each handler to one step of `Mailbox` or to a stutter; the lemmas say what each handler does to the numbers that wait. |
| `WriteDispatch_proofs` | `DispatchTypeCorrect`, `OneWriterCorrect`, `WrittenOnceCorrect` | `TypeInv` ties slots, lists and positions to the labels, of the main process (`MainInv`) and of the children (`ChildInv`), and says that what was written was written by the living (`LiveWrote`). `WriterInv`, while no pass was slow, no slot torn and no stopped child cleared the times beside others: passes are in time (`InTime`); while the main process lives, an application that a pass has visited was tried since the pass began, others since the last one (`Tried`), so it never finds one too old that has a writer; lists have no application twice (`Unique`); an application in a slot is in no list and in no other slot (`Given`). `RingInv`, while there is no taint: the start of the ring stays at the log a child is at (`Working`); of the logs behind the start none was written by a process that runs, unless its place is just being blanked (`Fresh`), and the one at the start only by the child about to move it (`FirstLog`); no place is taken while a child moves the start (`Excl`). `StartAll` takes three of the taints back, and is where both have to hold again whatever went on before: all lists are empty and nobody lives who has written anything. |
| `WarnQueue_proofs` | `WarnTypeCorrect`, `SentCorrect` (`SentExactly`) | `TypeInv` adds that an alarm at hand has a row. `QueueInv`, while no alarm grew too old and none was wiped (`InTime`): a node with an id is young (`Young`), so no sender ever takes one for too old and no node is overwritten as timed out; its content belongs to its id (`Paired`), because the id is stored last and a node being filled has none, so that no sender is at it (`Reserved`); a sender is only at nodes whose id is its own, so no two are at one (`Owned`). While no sender died behind an alarm it sent, every sent alarm has a sender about to clear it (`Sent`). |
| `ConfigSync_proofs` | `ConfigTypeCorrect`, `SortedCorrect` (`Sorted`), `NeverBackCorrect` (`NeverBack`, an action property) | `Inv`: all packets with the number of the request the agent waits for are that request or answers that *fit* the table (`Own`, `Fits`): they add only what the table lacks, change and delete only what it has, change to no older version, and name nothing twice. Fitting lasts: the table stays as it is while the agent waits, and later changes of the server only raise numbers (`Grows`, `Known`). Each item that is applied leaves an answer that fits the new table (`AddStep`, `ModStep`, `DelStep`). Answers to older requests need not fit, and the invariant says nothing of them; they are dropped because their number is another. Below it the lemmas say, for every table, what `Picked`, `Bsearch` (`BsearchValue`: on a sorted table it finds exactly what is there), `Qsort` after an addition (`QsortValue`), `RemoveAt` and `SetLogConfigCheckInfo` (`AnswerValue`) compute. |

Induction. The library's induction theorems have an operator as parameter and cannot be used. `ConfigSync_proofs` and `JsReport_proofs` do without: `WFMin` of
`WellFoundedInduction` says that a set of numbers that is not empty has a least one, and takes the set as its parameter; from it follows `Induction` for
sets. With it the recursive functions of one argument, a number or a pair, are shown to be well defined and to compute what they should (`PicksExist`, `FindsExists`).

Assumptions on the constants, each stated where the constants are declared and evaluated by TLC in the runs: sizes are positive where the
code's arrays are not empty (a ring has two slots at least, the table of timers three entries); the agent is not one of the writers; processes that may die are processes; sets of writers, keys and
sequence numbers are finite, and there are more keys and sequence numbers than packets on the way (the code has far more of both); a page may have two requests without an answer.

Only model-checked:
* all liveness (`LockRecovered`, `PublishedRead`, `Drained`, `AllSent`, `Converges`, `Recovers`, `ChecksAgain`, `ResumesUnlessStale`, `Relieved`, `Notified`): fairness and ENABLED are out of the
  prover's reach;
* `Accounted` of AttrReport and its type invariant: the property is a sum over nodes and the special list by `MapThenSumSet`, a fold over an operator, which the
  provers cannot expand; a bound of the claim counter in its `TypeOK` counts waiting writers and needs the same kind of sum;
* `OnTime` of TimerWheel and its type invariant: powers, quotients and remainders by spans that depend on a variable level are beyond the arithmetic of the SMT solver.

## 6. Known deviations

Where the code does other than its comments say, or than one would wish. They are kept as
configurations that anybody can run with TLC, each of which ends with a counterexample; where a configuration has several
properties, `tlc -continue` reports all of them.

| configuration | property | what happens | where |
|---|---|---|---|
| `MCAppLog_skip` | `AcceptedNotSkipped` | the age test of an unpublished slot is reversed: the agent steps over young slots and waits for old ones | `mtreport_client.cpp:1211` (compare 1155) |
| `MCAgentSession_hang` | `Recovers` | the monitor tests its own copy of `bCheckHelloStart`, which only the agent process sets; a hung agent is never killed | `mtreport_client.cpp:1900` |
| `MCVmemPool_check`, `MCAppLog_skip` | `SafeUnlessSlow`, `WritersApart` | a lock is stamped after it was taken; in between, the stamp of an earlier holder makes it look timed out | `mt_vmem.c:134`, `mt_log.c:701` |
| `MCSharedHash_stamp` | `HeldUnlessSlow` | the stamp is cleared after the flag, maybe that of the next holder | `mt_shared_hash.c:730` |
| `MCVmemPool_check` | `SafeBesideCheck` | the check of the pool tests a mark before it has the lock and links a node that is live again | `mt_vmem.c:399` |
| `MCVmemPool_delayed` | `DelayedFreeRecycled` | a pool full of marked nodes is never scanned: the test for room comes first | `mt_vmem.c:137` |
| `MCAppLog_skip` | `FullIsCounted` | the log that takes the last slot makes the ring look empty; `wLogInShmFull` stays 0 | `mt_log.c:727` |
| `MCAppLog_skip` | `PassedWhole` | a pass that finds no room has already freed the customs and the long content of the log; the next pass sends it without them | `mtreport_client.cpp:1123` |
| `MCAppLog_again` | `InOrderAnyway` | a writer dies after it advanced `iWriteIndex` and before it blanked the slot; the log of an earlier round in it is passed on a second time (three slots, five logs) | `mt_log.c:731` |
| `MCSharedHash_stamp` | `ResetOnlyBroken` | start and count are read at two moments; a whole table is reset | `mtreport_client.cpp:823` |
| `MCSharedHash_stamp` | `ResetForgetsAll` | a reset clears the memory of one row only | `mt_shared_hash.c:314` |
| `MCAttrReport_add` | `AddsAccumulate` | two additions at the same time, one is lost | `mt_attr.c:177` |
| `MCAttrReport_set` | `SetReportsValue` | two sets in one turn of the agent are added up | `mtreport_client.cpp:846` |
| `MCAttrReport_add` | `SpecCountTrue` | a refused point is counted in `iAttrSpecialCount`, which grows past the array | `mt_attr.c:132` |
| `MCTimerWheel_batch` | `CascadedOnce` | a tick left after the limit of timers per call deals out the next list of level two as well; a timer on it may fall out of its list and never fire, two may stop the agent | `sv_timer.cpp:349` |
| `MCConfigSync_full` | `ConvergesFull` | a full table ends an answer before its deletions; every answer ends there | `mtreport_protoc.cpp:1629` |
| `MCConfigSync_full` | `NoNullConfig` | the log line of a deletion reads through NULL in an answer of deletions | `mtreport_protoc.cpp:1659` |
| `MCJsReport_stuck` | `Resumes` | the number of a cleared delay timer is kept; if the answer under way is lost, no timer is ever set again and reporting stops | `dmt_xrkmonitor.js:498`, `:533`, `:556` |
| `MCJsReport_limit` | `BatchFits` | points that come while a request is under way are not limited; a request holds more than `max_attrs_per_req` (comment at 726) | `dmt_xrkmonitor.js:497` |
| `MCJsReport_limit` | `OneRequest` | the first request has number 0, which stands for "none": a second is sent beside it (comment at 176) | `dmt_xrkmonitor.js:395` |
| `MCJsReport_plugin` | `PluginLogsSent` | logs of the page always come first: a page that logs all the time starves its plug-ins | `dmt_xrkmonitor.js:417` |
| `MCWriteDispatch_slow` | `OneWriterInTime` | a pass sets `dwLastTryWriteLogTime` to its beginning: two passes after each other, each in time, and the application gets a second writer (comments at `slog_write.cpp:376`, `supper_log.cpp:5498`) | `slog_write.cpp:377` |
| `MCWriteDispatch_slow` | `OneWriterUnlessSlow` | a child reads the index of its slot between the two stores and takes an application that has a writer | `slog_write.cpp:230` |
| `MCWriteDispatch_slow` | `OneWriterStopping` | a child that is stopped sets all times to 0 while another child writes; the main process, which has not yet found its signal, gives the application of that child away again | `slog_write.cpp:433` |
| `MCWriteDispatch_ring` | `OnceUnlessLate` | a log reserved first and published last sets the start back to itself; the logs behind it, written meanwhile, are written again | `supper_log.cpp:3838` |
| `MCWriteDispatch_ring` | `NoneLost` | two processes find the ring without a start, and both store theirs, as the test is not repeated under the lock; the logs before the second are not written | `supper_log.cpp:3934` |
| `MCWarnQueue_late` | `SentInTime` | `memset` clears the id first; the checker fills the node, and the rest of the `memset` wipes the new alarm | `slog_deal_warn.cpp:525` |
| `MCWarnQueue_late` | `NothingEverLost` | a slow sender, behind an alarm that timed out, clears the node after another alarm was put there | `slog_deal_warn.cpp:525`, `:495` |
| `MCWarnQueue_late` | `NeverTorn` | a timed-out node gets the new alarm and time before the new id; a sender sends it under the old id | `slog_check_warn.cpp:466` |
| `MCWarnQueue_late` | `Finished` | the status is written as it was read: an alarm finished meanwhile is open again | `slog_check_warn.cpp:715` |
| `MCWarnQueue_pair` | `NotifiedAlways` | a dead sender beside a live one is never started again; its alarms grow too old | `check_proc_monitor.sh:165` |

## 7. What is not modelled

Contents of packets, encryption and signatures (a key is right or wrong), logging, `/proc`, the shell
side of plug-ins, more than one access server, the database and the web console. A clock that is set back. Weak memory: stores
of one process are seen in program order (x86).

Most of the repository's JavaScript (echarts, jquery and its plug-ins, TweenMax, DWZ, the effects of the login page: well over nine lines in
ten) is third-party code. Of its own scripts `dmt_xrkmonitor.js` is modelled; `dmt.comm.js` draws tables, dialogs and charts of the
console and keeps no state that steps of different actors could disturb. The system itself is C and C++.

Known hazards that no property covers yet:
* the frequency limit of logs, whose counter is reset under a flag without time-out (`mt_log.c:677`), and the pointer into the table of configurations that the agent
  sorts meanwhile (`mt_log.c:664`): `LogFreq`;
* `ReadStrAttr` searches with one comparison an array sorted with another (`mtreport_client.cpp:744`): packets are functions from points to values here;
* points are cleared before the packet with them is sent, and it may be lost (`mtreport_client.cpp:1348`): by design, `sent` is what was put into packets;
* a clock set back makes the tick of the wheel very large (`sv_timer.cpp:362`);
* `slog_config` unlinks configurations that a server walks over (`slog_config.cpp:1183`): `ConfigList`; a new configuration gets a random number
  that it may have had before (`slog_config.cpp:1112`).

In WriteDispatch: what the loads and stores of two overlapping sections do once the lock of a ring was passed by; the real-time readers of a ring; the flag of the system's own application that every process sets at its start (`supper_log.cpp:3530`),
which only adds a reason to dispatch. In WarnQueue: `SKIP_SEND_WARN`, the choice of receivers, the table of mails that the console fills and `ScanShmMailInfo` empties, and an older open row of an alarm beside which a
failing select put a newer one: only the newer one, which the next select finds first, is followed.

## 8. Plan

Done: the shared memory of the API, the agent's timers and protocol, `JsReport` with its abstract specification, `WriteDispatch`, `WarnQueue`.

1. `MailTable`: mails from the console to `slog_deal_warn`, with the lock of `InitGetMailShmLock`.
2. `LogFreq` and the filters of `MtReport_Log` with the table of configurations under the agent's sort; the special buffer.
3. `ConfigList`: lists of `slog_config` in shared memory beside the walks of the servers.
4. The plug-in protocol: events of the access server and the handlers of the agent.
5. Aggregation of points in `slog_monitor_server`; the ring of `WriteDispatch` with the single loads and stores of sections that overlap, and its real-time readers.
6. Abstract specifications: an allocator that VmemPool implements, a lossy FIFO that AppLog implements, a set of deadlines that
   TimerWheel implements.
7. Proofs: `OnTime` of TimerWheel, for a fixed number of levels first, and `Accounted` of AttrReport, with the sum as a recursive function; their type invariants.
