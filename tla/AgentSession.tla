---------------------------- MODULE AgentSession ----------------------------
(***************************************************************************)
(* The session of an agent with the access server, and the processes that  *)
(* keep the agent alive.  The agent process says a first hello with a key  *)
(* it has drawn, then keeps up a hello and a configuration check, each a   *)
(* chain: the answer to one request arms the timer that sends the next.    *)
(* A monitor process starts the agent again when it has ended, and a cron  *)
(* job the monitor.  Packets are sent again, get lost, and overtake each   *)
(* other; the server may lose what it knows of the agent.                  *)
(***************************************************************************)
EXTENDS Integers, FiniteSets, FiniteSetsExt

CONSTANTS
  Keys, NoKey,   \* the keys agents draw; no agent is known
  Seqs,          \* packet sequence numbers; one is used again when nothing carries it
  Chains,        \* the chains of requests looked at: the hello, with or without the check
  TryMax,        \* TRY_MAX_TIMES_PER_SERVER
  ValidTime,     \* IsHelloValid: two minutes, in steps of the clock
  TimerMax,      \* timers that AddTimer finds room for
  Hangs,         \* the agent runs commands of plug-ins, which may never end
  NetMax,        \* bound: packets of this process on the way
  LateMax,       \* bound: first hellos of ended processes on the way
  MaxFaults      \* bound: late first hellos, refusals, losses of state, failing starts

ASSUME SessionSizes ==
  /\ {TryMax, ValidTime, NetMax, LateMax} \subseteq Nat \ {0}
  /\ TimerMax \in Nat /\ TimerMax >= 3
  /\ MaxFaults \in Nat /\ Hangs \in BOOLEAN
  /\ NoKey \notin Keys /\ {"hello"} \subseteq Chains /\ Chains \subseteq {"hello", "check"}
  /\ IsFiniteSet(Keys) /\ Cardinality(Keys) > NetMax + LateMax + 1
  /\ IsFiniteSet(Seqs) /\ Cardinality(Seqs) > NetMax + LateMax + 1

VARIABLES
  monitor,   \* the monitor process: about to fork, watching, gone
  proc,      \* the agent process: none, waiting for the first answer, running, hung
  cIsAgentRun,       \* in shared memory: 0 has not run, 1 runs, 2 is to be started again
  key,       \* the key of this process
  timers,    \* its timers that carry a request; tries counts the sends
  data,      \* number of its timers of attribute, log and plug-in packets
  age,       \* time since dwLastHelloOkTime
  bCheckHelloStart,  \* a hello of this process has been answered
  srv,       \* server: the key of the agent
  net,       \* packets on the way
  faults

agent == <<cIsAgentRun, key, timers, data, age, bCheckHelloStart>>
vars  == <<monitor, proc, agent, srv, net, faults>>

Cmds == {"first"} \cup Chains
Requests == [dir : {"req"}, cmd : Cmds, key : Keys, seq : Seqs]
Answers  == [dir : {"ans"}, cmd : Cmds, ok : BOOLEAN, seq : Seqs]
Timers   == [cmd : Cmds, seq : Seqs, tries : 0 .. TryMax]

StateOK ==
  /\ monitor \in {"fork", "watch", "gone"}
  /\ proc \in {"none", "first", "run", "hung"}
  /\ cIsAgentRun \in 0 .. 2
  /\ key \in Keys \cup {NoKey} /\ srv \in Keys \cup {NoKey}
  /\ age \in 0 .. ValidTime
  /\ bCheckHelloStart \in BOOLEAN
  /\ faults \in 0 .. MaxFaults

TableOK ==
  /\ timers \subseteq Timers
  /\ data \in 0 .. TimerMax /\ Cardinality(timers) + data <= TimerMax

(* What the processes, the timer table and the packets may hold; the table does not overflow. *)
TypeOK == StateOK /\ TableOK /\ net \subseteq Requests \cup Answers

IsHelloValid == age < ValidTime

Fault == faults < MaxFaults /\ faults' = faults + 1

(* A first hello of a process that has ended. *)
Stale(m) == m.dir = "req" /\ m.cmd = "first" /\ m.key # key

(* sendto: a packet may get lost at once. *)
Send(m) ==
  net' = IF Cardinality({n \in net : ~Stale(n)}) < NetMax THEN net \cup {m} ELSE net

(* One packet for another: the answer for the request. *)
Reply(m, a) == net' = (net \ {m}) \cup {a}

Request(cmd, k, s) == [dir |-> "req", cmd |-> cmd, key |-> k, seq |-> s]

(* A random key, the next sequence number: one that nothing carries.  An answer has the    *)
(* command of its request, so numbers of different commands need not differ.              *)
FreshKey == CHOOSE k \in Keys : k # srv /\ \A m \in net : m.dir = "req" => m.key # k
Fresh(cmd) == CHOOSE s \in Seqs : \A c \in net \cup timers : c.cmd = cmd => c.seq # s

(* AddTimer by the handler of an answer: the node of the timer that has been answered is  *)
(* still in use.  When there is no room nothing is added, and nothing else happens.       *)
Add(ts, cmd) ==
  IF Cardinality(ts) + 1 + data < TimerMax
  THEN ts \cup {[cmd |-> cmd, seq |-> Fresh(cmd), tries |-> 0]} ELSE ts

(* cIsAgentRun = 2, and the end of the process that follows.  dwLastHelloOkTime stays in  *)
(* shared memory, but the next process clears it before anybody reads it.  The socket is  *)
(* closed: no answer reaches the agent any more, and of the requests on their way only    *)
(* the first hello still makes a difference.                                              *)
Stop ==
  /\ proc' = "none"
  /\ cIsAgentRun' = 2
  /\ key' = NoKey /\ timers' = {} /\ data' = 0
  /\ age' = ValidTime /\ bCheckHelloStart' = FALSE
  /\ LET firsts == {m \in net : m.dir = "req" /\ m.cmd = "first"}
     IN \E late \in kSubset(Min({Cardinality(firsts), LateMax}), firsts) : net' = late

-----------------------------------------------------------------------------
(***************************************************************************)
(* The monitor process and the cron job.                                   *)
(***************************************************************************)

(* fork and InitHello of the new process: the first hello is sent, or not. *)
Fork ==
  /\ monitor = "fork"
  /\ monitor' = "watch"
  /\ \/ /\ proc' = "first"
        /\ cIsAgentRun' = 1
        /\ key' = FreshKey
        /\ Send(Request("first", FreshKey, Fresh("first")))
        /\ timers' = {[cmd |-> "first", seq |-> Fresh("first"), tries |-> 0]}
        /\ UNCHANGED <<data, age, bCheckHelloStart, faults>>
     \/ /\ Fault
        /\ UNCHANGED <<proc, agent, net>>
  /\ UNCHANGED srv

(* MonitorBusiProcess: the process has ended.  The branch that kills a process without    *)
(* valid hello has no action: it tests bCheckHelloStart of the monitor process, which     *)
(* only the agent process sets, in its own memory.                                        *)
MonitorBusiProcess ==
  /\ monitor = "watch"
  /\ proc = "none"
  /\ monitor' = IF cIsAgentRun # 0 THEN "fork" ELSE "gone"
  /\ UNCHANGED <<proc, agent, srv, net, faults>>

(* check_xrkmonitor_agent_client.sh *)
Cron ==
  /\ monitor = "gone"
  /\ monitor' = "fork"
  /\ UNCHANGED <<proc, agent, srv, net, faults>>

-----------------------------------------------------------------------------
(***************************************************************************)
(* The agent process: timers.                                              *)
(***************************************************************************)

Live == proc \in {"first", "run"}

(* A fault: the key is drawn again with every try. *)
HelloFirstExpireRedraws(t) ==
  /\ t.cmd = "first"
  /\ t.tries < TryMax
  /\ key' = FreshKey
  /\ Send(Request("first", FreshKey, t.seq))
  /\ timers' = (timers \ {t}) \cup {[t EXCEPT !.tries = @ + 1]}
  /\ UNCHANGED <<proc, cIsAgentRun, data, age, bCheckHelloStart>>

(* TRY_MAX_TIMES_PER_SERVER more tries, then a new process. *)
HelloFirstExpire(t) ==
  /\ t.cmd = "first"
  /\ \/ /\ t.tries < TryMax
        /\ Send(Request("first", key, t.seq))
        /\ timers' = (timers \ {t}) \cup {[t EXCEPT !.tries = @ + 1]}
        /\ UNCHANGED <<proc, cIsAgentRun, key, data, age, bCheckHelloStart>>
     \/ /\ t.tries >= TryMax
        /\ Stop

(* OnPkgExpire of a hello or a check: sent, or sent again, as often as it takes. *)
OnPkgExpire(t) ==
  /\ t.cmd # "first"
  /\ \/ /\ IsHelloValid
        /\ Send(Request(t.cmd, key, t.seq))
        /\ UNCHANGED <<proc, agent>>
     \/ /\ ~IsHelloValid
        /\ Stop

Expire(t) ==
  /\ Live
  /\ HelloFirstExpire(t) \/ OnPkgExpire(t)
  /\ UNCHANGED <<monitor, srv, faults>>

(* A fault: the table is not asked for room. *)
OnEventTimerOver ==
  /\ proc = "run"
  /\ IsHelloValid
  /\ data' = data + 1
  /\ UNCHANGED <<monitor, proc, cIsAgentRun, key, timers, age, bCheckHelloStart, srv, net, faults>>

(* OnEventTimer: a packet with attributes, log or plug-in state. *)
OnEventTimer ==
  /\ proc = "run"
  /\ IsHelloValid
  /\ Cardinality(timers) + data < TimerMax
  /\ data' = data + 1
  /\ UNCHANGED <<monitor, proc, cIsAgentRun, key, timers, age, bCheckHelloStart, srv, net, faults>>

(* ... has been answered, or given up after TRY_MAX_TIMES_PER_SERVER tries. *)
DataDone ==
  /\ proc = "run"
  /\ data > 0
  /\ data' = data - 1
  /\ UNCHANGED <<monitor, proc, cIsAgentRun, key, timers, age, bCheckHelloStart, srv, net, faults>>

-----------------------------------------------------------------------------
(***************************************************************************)
(* The agent process: answers.  One that no timer waits for is dropped.    *)
(***************************************************************************)

(* A fault: the timer stays in the table when its answer has come. *)
GetTimerKeeps(m) ==
  {t \in timers : t.cmd = m.cmd /\ t.seq = m.seq /\ t.cmd = "first"}

GetTimer(m) == {t \in timers : t.cmd = m.cmd /\ t.seq = m.seq}

(* The answer to the first hello: the chains begin. *)
RespHelloFirst(m, rest) ==
  /\ m.cmd = "first"
  /\ \/ ~m.ok /\ Stop
     \/ /\ m.ok
        /\ proc' = "run"
        /\ age' = 0
        /\ LET hello == Add(rest, "hello")
           IN timers' = IF "check" \in Chains THEN Add(hello, "check") ELSE hello
        /\ net' = net \ {m}
        /\ UNCHANGED <<cIsAgentRun, key, data, bCheckHelloStart>>

(* DealResponseHello, then MakeHelloToServer whatever the answer was. *)
RespHello(m, rest) ==
  /\ m.cmd = "hello"
  /\ IF m.ok THEN age' = 0 /\ bCheckHelloStart' = TRUE
             ELSE UNCHANGED <<age, bCheckHelloStart>>
  /\ timers' = Add(rest, "hello")
  /\ net' = net \ {m}
  /\ UNCHANGED <<proc, cIsAgentRun, key, data>>

(* The answer to a check, applied as ConfigSync says; then InitCheckLogConfig. *)
RespCheck(m, rest) ==
  /\ m.cmd = "check"
  /\ \/ ~IsHelloValid /\ Stop
     \/ /\ IsHelloValid
        /\ timers' = Add(rest, "check")
        /\ net' = net \ {m}
        /\ UNCHANGED <<proc, cIsAgentRun, key, data, age, bCheckHelloStart>>

OnMtreportPkg(m) ==
  /\ Live
  /\ m.dir = "ans"
  /\ \E t \in timers : t.cmd = m.cmd /\ t.seq = m.seq
  /\ LET rest == timers \ GetTimer(m)
     IN RespHelloFirst(m, rest) \/ RespHello(m, rest) \/ RespCheck(m, rest)
  /\ UNCHANGED <<monitor, srv, faults>>

-----------------------------------------------------------------------------
(***************************************************************************)
(* The agent process: the main loop.                                       *)
(***************************************************************************)

(* The clock; two minutes are enough. *)
Tick ==
  /\ age < ValidTime
  /\ age' = age + 1
  /\ UNCHANGED <<monitor, proc, cIsAgentRun, key, timers, data, bCheckHelloStart, srv, net, faults>>

MainLoop ==
  /\ Live
  /\ bCheckHelloStart /\ ~IsHelloValid
  /\ Stop
  /\ UNCHANGED <<monitor, srv, faults>>

(* A fault: the limit is asked for only when the hello is not valid. *)
RunLimitInvalid ==
  /\ proc = "run"
  /\ ~IsHelloValid
  /\ Stop
  /\ UNCHANGED <<monitor, srv, faults>>

(* iMaxRunMins are over; that is long after the first two minutes. *)
RunLimit ==
  /\ proc = "run"
  /\ bCheckHelloStart \/ ~IsHelloValid
  /\ Stop
  /\ UNCHANGED <<monitor, srv, faults>>

(* get_cmd_result, system: the agent waits for a command of a plug-in, without a limit. *)
Hang ==
  /\ Hangs
  /\ proc = "run"
  /\ proc' = "hung"
  /\ UNCHANGED <<monitor, agent, srv, net, faults>>

CommandEnds ==
  /\ proc = "hung"
  /\ proc' = "run"
  /\ UNCHANGED <<monitor, agent, srv, net, faults>>

-----------------------------------------------------------------------------
(***************************************************************************)
(* The server and the network.                                             *)
(***************************************************************************)

Answer(m, ok) == Reply(m, [dir |-> "ans", cmd |-> m.cmd, ok |-> ok, seq |-> m.seq])

(* A fault: an agent that is known keeps its key. *)
DealCmdHelloFirstKeeps(m) ==
  /\ m.cmd = "first"
  /\ srv' = IF srv = NoKey THEN m.key ELSE srv
  /\ Answer(m, TRUE)
  /\ UNCHANGED faults

(* DealCmdHelloFirst: the agent is registered with the key of the packet, even when the   *)
(* packet comes from a process that has ended.                                            *)
DealCmdHelloFirst(m) ==
  /\ m.cmd = "first"
  /\ \/ /\ \/ m.key = key /\ UNCHANGED faults
           \/ m.key # key /\ Fault
        /\ srv' = m.key
        /\ Answer(m, TRUE)
     \/ /\ Fault                  \* the table of agents; the database, with the key copied
        /\ srv' \in {srv, m.key}
        /\ Answer(m, FALSE)

(* DealCmdHello, DealCmdCheckLogConfig: the signature is checked with the key the server has. *)
DealCommInfo(m) ==
  /\ m.cmd # "first"
  /\ Answer(m, m.key = srv)
  /\ UNCHANGED <<srv, faults>>

OnRawData(m) ==
  /\ m.dir = "req"
  /\ DealCmdHelloFirst(m) \/ DealCommInfo(m)
  /\ UNCHANGED <<monitor, proc, agent>>

(* The shared memory of the server has been made anew. *)
ServerForget ==
  /\ Fault
  /\ srv # NoKey
  /\ srv' = NoKey
  /\ UNCHANGED <<monitor, proc, agent, net>>

Lose(m) ==
  /\ net' = net \ {m}
  /\ UNCHANGED <<monitor, proc, agent, srv, faults>>

-----------------------------------------------------------------------------
Init ==
  /\ monitor = "fork" /\ proc = "none" /\ cIsAgentRun = 0
  /\ key = NoKey /\ timers = {} /\ data = 0
  /\ age = ValidTime /\ bCheckHelloStart = FALSE
  /\ srv = NoKey /\ net = {} /\ faults = 0

Next ==
  \/ Fork \/ MonitorBusiProcess \/ Cron
  \/ OnEventTimer \/ DataDone \/ Tick \/ MainLoop \/ RunLimit \/ ServerForget
  \/ Hang \/ CommandEnds
  \/ \E t \in timers : Expire(t)
  \/ \E m \in net : OnMtreportPkg(m) \/ OnRawData(m) \/ Lose(m)

Spec == Init /\ [][Next]_vars

Waited(m) == Live /\ \E t \in timers : t.cmd = m.cmd /\ t.seq = m.seq

(* A request that is sent, and not lost at once. *)
Sent(t) == Expire(t) /\ Request(t.cmd, key, t.seq) \in net'

(* The processes go on, the clock too.  Of requests that are sent again and again some get *)
(* through, in time, and so do the answers; packets nobody waits for do not stay on the    *)
(* way.                                                                                    *)
Fairness ==
  /\ WF_vars(Fork \/ MonitorBusiProcess \/ Cron)
  /\ WF_vars(Tick) /\ WF_vars(DataDone)
  /\ WF_vars(MainLoop \/ RunLimit) /\ WF_vars(\E t \in timers : Expire(t))
  /\ \A c \in {"first", "hello"} :       \* nothing is asked of the check
       /\ SF_vars(\E t \in timers : t.cmd = c /\ Sent(t))
       /\ SF_vars(\E m \in net : m.cmd = c /\ Waited(m) /\ OnRawData(m))
       /\ SF_vars(\E m \in net : m.dir = "ans" /\ m.cmd = c /\ m.ok /\ OnMtreportPkg(m))
  /\ WF_vars(\E m \in net : ~Waited(m) /\ Lose(m))

LiveSpec == Spec /\ Fairness
-----------------------------------------------------------------------------
(* One hello and one check are under way, not two: answers that come twice, come late, or *)
(* belong to an earlier process start no second chain, and a process that waits for its   *)
(* first answer has its first hello and nothing else.                                     *)
OneChain ==
  /\ \A t, u \in timers : t.cmd = u.cmd => t = u
  /\ proc = "first" => \A t \in timers : t.cmd = "first"
  /\ proc = "first" => timers # {}
  /\ proc \in {"run", "hung"} => \A t \in timers : t.cmd # "first"

(* A running agent and the server have the same key, whichever tries of the first hello   *)
(* got through, until a fault: a first hello of an earlier process came late or was       *)
(* refused, a start failed or the server lost the agent.                                  *)
KeysAgree == proc \in {"run", "hung"} /\ faults = 0 => srv = key

(* Whatever got lost, came late or failed: again and again an agent process runs and has  *)
(* its hello answered.                                                                    *)
Recovers == []<>(proc = "run" /\ bCheckHelloStart /\ age = 0)

(* ... and has a configuration check under way, although the table of timers may be full  *)
(* when the check is to be armed.                                                         *)
ChecksAgain == []<>(\E t \in timers : t.cmd = "check")

====
