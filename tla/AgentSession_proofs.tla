------------------------ MODULE AgentSession_proofs ------------------------
(***************************************************************************)
(* Proofs about AgentSession, for any table of timers, number of tries,    *)
(* packets on the way and faults.                                          *)
(***************************************************************************)
EXTENDS AgentSession, TLAPS, FiniteSetTheorems, FunctionTheorems

(***************************************************************************)
(* The inductive invariant.                                                *)
(***************************************************************************)

Packets == Requests \cup Answers

Finite == IsFiniteSet(timers) /\ IsFiniteSet(net)

(* Without a process there is no key and no timer, and only first hellos are on the way. *)
AtRest == proc = "none" => /\ key = NoKey /\ timers = {} /\ data = 0
                           /\ \A m \in net : m.cmd = "first"

Known == proc # "none" => key \in Keys

(* The monitor starts a process only when there is none. *)
Alone == monitor # "watch" => proc = "none"

StaleIn(n, k) == {m \in n : m.dir = "req" /\ m.cmd = "first" /\ m.key # k}

(* There are fewer packets on the way than keys and sequence numbers. *)
Bounded == /\ Cardinality(StaleIn(net, key)) <= LateMax
           /\ Cardinality(net) <= NetMax + LateMax

NetInv   == net \subseteq Packets /\ Finite /\ Bounded
TableInv == TableOK /\ OneChain
Inv      == StateOK /\ TableInv /\ NetInv /\ AtRest /\ Known /\ Alone

(* Without faults an answer to a first hello means that the server has the key. *)
Agreed == faults = 0 => \A m \in net : m.dir = "ans" =>
                          proc # "none" /\ (m.cmd = "first" => srv = key)

KeyInv == Inv /\ Agreed /\ KeysAgree

-----------------------------------------------------------------------------
(***************************************************************************)
(* Finite sets.                                                            *)
(***************************************************************************)

LEMMA SizeFacts ==
  /\ TryMax \in Nat /\ ValidTime \in Nat /\ NetMax \in Nat /\ LateMax \in Nat
  /\ ValidTime > 0
  /\ TimerMax \in Nat /\ TimerMax >= 3
  /\ MaxFaults \in Nat
  /\ NoKey \notin Keys
  /\ "hello" \in Chains /\ Chains \subseteq {"hello", "check"}
  /\ "first" \in Cmds /\ "hello" \in Cmds /\ Chains \subseteq Cmds
BY SessionSizes DEF Cmds

LEMMA AddOne ==
  ASSUME NEW S, IsFiniteSet(S), NEW x
  PROVE  /\ IsFiniteSet(S \cup {x})
         /\ Cardinality(S) \in Nat
         /\ Cardinality(S \cup {x}) \in Nat
         /\ Cardinality(S \cup {x}) <= Cardinality(S) + 1
<1>1. /\ IsFiniteSet(S \cup {x})
      /\ Cardinality(S \cup {x}) = IF x \in S THEN Cardinality(S) ELSE Cardinality(S) + 1
  BY FS_AddElement
<1>2. Cardinality(S) \in Nat /\ Cardinality(S \cup {x}) \in Nat
  BY <1>1, FS_CardinalityType
<1>. QED BY <1>1, <1>2

LEMMA DropOne ==
  ASSUME NEW S, IsFiniteSet(S), NEW x \in S
  PROVE  /\ IsFiniteSet(S \ {x})
         /\ Cardinality(S) \in Nat
         /\ Cardinality(S \ {x}) = Cardinality(S) - 1
<1>1. /\ IsFiniteSet(S \ {x})
      /\ Cardinality(S \ {x}) = IF x \in S THEN Cardinality(S) - 1 ELSE Cardinality(S)
  BY FS_RemoveElement
<1>. QED BY <1>1, FS_CardinalityType

(* A set with more elements than f has arguments has one that is no value of f. *)
LEMMA FreeElement ==
  ASSUME NEW X, IsFiniteSet(X), NEW S, IsFiniteSet(S), Cardinality(X) < Cardinality(S),
         NEW f, f = [c \in X |-> f[c]]
  PROVE  \E s \in S : \A c \in X : f[c] # s
<1>. DEFINE T == {f[c] : c \in X}
<1>1. f \in [X -> T]
  OBVIOUS
<1>2. f \in Surjection(X, T)
  BY <1>1, Fun_IsSurj
<1>3. IsFiniteSet(T) /\ Cardinality(T) <= Cardinality(X)
  BY <1>2, FS_Surjection
<1>4. Cardinality(T) \in Nat /\ Cardinality(S) \in Nat /\ Cardinality(X) \in Nat
  BY <1>3, FS_CardinalityType
<1>5. S \subseteq T => Cardinality(S) <= Cardinality(T)
  BY <1>3, FS_Subset
<1>6. ~(S \subseteq T)
  <2>. HIDE DEF T
  <2>. QED BY <1>3, <1>4, <1>5
<1>. QED BY <1>6

-----------------------------------------------------------------------------
(***************************************************************************)
(* Keys and sequence numbers that nothing carries.                         *)
(***************************************************************************)

LEMMA NetSize ==
  ASSUME NetInv
  PROVE  /\ IsFiniteSet(net)
         /\ Cardinality(net) \in Nat
         /\ Cardinality(net) <= NetMax + LateMax
BY FS_CardinalityType DEF NetInv, Finite, Bounded

LEMMA FreshKeyFacts ==
  ASSUME NetInv
  PROVE  FreshKey \in Keys /\ \A m \in net : m.dir = "req" => m.key # FreshKey
<1>. DEFINE X == {m \in net : m.dir = "req"}
            S == Keys \ {srv}
            f == [c \in X |-> c.key]
<1>1. IsFiniteSet(X) /\ Cardinality(X) <= Cardinality(net) /\ Cardinality(X) \in Nat
  <2>1. X \subseteq net
    OBVIOUS
  <2>2. IsFiniteSet(X) /\ Cardinality(X) <= Cardinality(net)
    BY <2>1, NetSize, FS_Subset
  <2>. QED BY <2>2, FS_CardinalityType
<1>2. IsFiniteSet(S) /\ Cardinality(S) \in Nat /\ Cardinality(S) > NetMax + LateMax
  <2>1. IsFiniteSet(Keys) /\ Cardinality(Keys) > NetMax + LateMax + 1 /\ Cardinality(Keys) \in Nat
    BY SessionSizes, FS_CardinalityType
  <2>2. /\ IsFiniteSet(S)
        /\ Cardinality(S) = IF srv \in Keys THEN Cardinality(Keys) - 1 ELSE Cardinality(Keys)
    BY <2>1, FS_RemoveElement
  <2>. HIDE DEF S
  <2>. QED BY <2>1, <2>2, SizeFacts
<1>3. f = [c \in X |-> f[c]]
  OBVIOUS
<1>4. \E k \in S : \A c \in X : f[c] # k
  <2>. HIDE DEF X, S, f
  <2>1. Cardinality(X) < Cardinality(S)
    BY <1>1, <1>2, NetSize, SizeFacts
  <2>. QED BY <1>1, <1>2, <1>3, <2>1, FreeElement
<1>5. \E k \in Keys : k # srv /\ \A m \in net : m.dir = "req" => m.key # k
  BY <1>4
<1>. QED BY <1>5 DEF FreshKey

LEMMA FreshFacts ==
  ASSUME NetInv, OneChain, NEW cmd
  PROVE  Fresh(cmd) \in Seqs
<1>. DEFINE X == {c \in net \cup timers : c.cmd = cmd}
            f == [c \in X |-> c.seq]
<1>1. PICK u : \A t \in timers : t.cmd = cmd => t = u
  BY DEF OneChain
<1>2. X \subseteq net \cup {u}
  BY <1>1
<1>3. /\ IsFiniteSet(net \cup {u}) /\ Cardinality(net \cup {u}) \in Nat
      /\ Cardinality(net \cup {u}) <= Cardinality(net) + 1
  BY NetSize, AddOne
<1>4. IsFiniteSet(X) /\ Cardinality(X) <= Cardinality(net \cup {u})
  BY <1>2, <1>3, FS_Subset
<1>5. Cardinality(X) \in Nat
  BY <1>4, FS_CardinalityType
<1>6. IsFiniteSet(Seqs) /\ Cardinality(Seqs) > NetMax + LateMax + 1 /\ Cardinality(Seqs) \in Nat
  BY SessionSizes, FS_CardinalityType
<1>7. f = [c \in X |-> f[c]]
  OBVIOUS
<1>8. \E s \in Seqs : \A c \in X : f[c] # s
  <2>. HIDE DEF X, f
  <2>1. Cardinality(X) < Cardinality(Seqs)
    BY <1>3, <1>4, <1>5, <1>6, NetSize, SizeFacts
  <2>. QED BY <1>4, <1>6, <1>7, <2>1, FreeElement
<1>9. \E s \in Seqs : \A c \in net \cup timers : c.cmd = cmd => c.seq # s
  BY <1>8
<1>. QED BY <1>9 DEF Fresh

-----------------------------------------------------------------------------
(***************************************************************************)
(* The packets on the way.                                                 *)
(***************************************************************************)

LEMMA StaleFacts ==
  ASSUME NetInv
  PROVE  /\ IsFiniteSet(StaleIn(net, key))
         /\ Cardinality(StaleIn(net, key)) \in Nat
         /\ Cardinality(StaleIn(net, key)) <= LateMax
         /\ StaleIn(net, key) = {m \in net : Stale(m)}
<1>1. StaleIn(net, key) \subseteq net
  BY DEF StaleIn
<1>2. IsFiniteSet(StaleIn(net, key))
  BY <1>1, NetSize, FS_Subset
<1>. QED BY <1>2, FS_CardinalityType DEF NetInv, Bounded, StaleIn, Stale

(* Fewer packets are fewer stale packets. *)
LEMMA NetShrinks ==
  ASSUME NetInv, key' = key, IsFiniteSet(timers'), net' \subseteq net
  PROVE  NetInv'
<1>1. IsFiniteSet(net') /\ Cardinality(net') <= Cardinality(net)
  BY NetSize, FS_Subset
<1>2. Cardinality(net') \in Nat
  BY <1>1, FS_CardinalityType
<1>3. StaleIn(net', key') \subseteq StaleIn(net, key)
  BY DEF StaleIn
<1>4. IsFiniteSet(StaleIn(net', key')) /\ Cardinality(StaleIn(net', key')) <= Cardinality(StaleIn(net, key))
  BY <1>3, StaleFacts, FS_Subset
<1>5. Cardinality(StaleIn(net', key')) \in Nat
  BY <1>4, FS_CardinalityType
<1>6. Cardinality(net') <= NetMax + LateMax
  BY <1>1, <1>2, NetSize, SizeFacts
<1>7. Cardinality(StaleIn(net', key')) <= LateMax
  BY <1>4, <1>5, StaleFacts, SizeFacts
<1>. QED BY <1>1, <1>6, <1>7 DEF NetInv, Finite, Bounded

LEMMA NetStays ==
  ASSUME NetInv, key' = key, IsFiniteSet(timers'), net' = net
  PROVE  NetInv'
BY NetShrinks

(* sendto of a request of the present process. *)
LEMMA NetSends ==
  ASSUME NetInv, NEW m \in Requests, Send(m), m.key = key',
         \A n \in net : n.dir = "req" /\ n.cmd = "first" /\ n.key # key' => n.key # key,
         IsFiniteSet(timers')
  PROVE  NetInv'
<1>1. net' \subseteq net \cup {m}
  BY DEF Send
<1>2. net' \subseteq Packets
  BY <1>1 DEF NetInv, Packets
<1>3. /\ IsFiniteSet(net \cup {m})
      /\ Cardinality(net \cup {m}) \in Nat
      /\ Cardinality(net \cup {m}) <= Cardinality(net) + 1
  BY NetSize, AddOne
<1>4. IsFiniteSet(net')
  BY <1>1, <1>3, FS_Subset
<1>5. Cardinality(net') <= NetMax + LateMax
  <2>. DEFINE A == StaleIn(net, key)
              B == {n \in net : ~Stale(n)}
  <2>1. CASE net' = net
    BY <2>1, NetSize
  <2>2. CASE net' # net
    <3>1. Cardinality(B) < NetMax /\ net' = net \cup {m}
      BY <2>2 DEF Send
    <3>2. net = A \cup B /\ A \cap B = {} /\ B \subseteq net
      BY StaleFacts
    <3>3. IsFiniteSet(A) /\ Cardinality(A) \in Nat /\ Cardinality(A) <= LateMax
      BY StaleFacts
    <3>4. IsFiniteSet(B)
      BY <3>2, NetSize, FS_Subset
    <3>5. Cardinality(B) \in Nat
      BY <3>4, FS_CardinalityType
    <3>6. Cardinality(net) = Cardinality(A) + Cardinality(B) - Cardinality(A \cap B)
      BY <3>2, <3>3, <3>4, FS_Union
    <3>7. Cardinality(A \cap B) = 0
      BY <3>2, FS_EmptySet
    <3>. HIDE DEF A, B
    <3>. QED BY <1>3, <3>1, <3>3, <3>5, <3>6, <3>7, SizeFacts
  <2>. QED BY <2>1, <2>2
<1>6. StaleIn(net', key') \subseteq StaleIn(net, key)
  BY <1>1 DEF StaleIn
<1>7. IsFiniteSet(StaleIn(net', key')) /\ Cardinality(StaleIn(net', key')) <= Cardinality(StaleIn(net, key))
  BY <1>6, StaleFacts, FS_Subset
<1>8. Cardinality(StaleIn(net', key')) \in Nat
  BY <1>7, FS_CardinalityType
<1>9. Cardinality(StaleIn(net', key')) <= LateMax
  BY <1>7, <1>8, StaleFacts, SizeFacts
<1>. QED BY <1>2, <1>4, <1>5, <1>9 DEF NetInv, Finite, Bounded

(* The answer for the request. *)
LEMMA NetAnswers ==
  ASSUME NetInv, NEW m \in net, NEW a \in Answers, Reply(m, a), key' = key, IsFiniteSet(timers')
  PROVE  NetInv'
<1>1. net' = (net \ {m}) \cup {a}
  BY DEF Reply
<1>2. net' \subseteq Packets
  BY <1>1 DEF NetInv, Packets
<1>3. /\ IsFiniteSet(net \ {m})
      /\ Cardinality(net) \in Nat
      /\ Cardinality(net \ {m}) = Cardinality(net) - 1
  BY NetSize, DropOne
<1>4. /\ IsFiniteSet(net')
      /\ Cardinality(net \ {m}) \in Nat
      /\ Cardinality(net') \in Nat
      /\ Cardinality(net') <= Cardinality(net \ {m}) + 1
  BY <1>1, <1>3, AddOne
<1>5. Cardinality(net') <= NetMax + LateMax
  BY <1>3, <1>4, NetSize, SizeFacts
<1>6. StaleIn(net', key') \subseteq StaleIn(net, key)
  <2>1. a.dir = "ans"
    BY DEF Answers
  <2>. QED BY <1>1, <2>1 DEF StaleIn
<1>7. IsFiniteSet(StaleIn(net', key')) /\ Cardinality(StaleIn(net', key')) <= Cardinality(StaleIn(net, key))
  BY <1>6, StaleFacts, FS_Subset
<1>8. Cardinality(StaleIn(net', key')) \in Nat
  BY <1>7, FS_CardinalityType
<1>9. Cardinality(StaleIn(net', key')) <= LateMax
  BY <1>7, <1>8, StaleFacts, SizeFacts
<1>. QED BY <1>2, <1>4, <1>5, <1>9 DEF NetInv, Finite, Bounded

-----------------------------------------------------------------------------
(***************************************************************************)
(* The end of the process.                                                 *)
(***************************************************************************)

LEMMA MinFacts ==
  ASSUME NEW a \in Nat, NEW b \in Nat
  PROVE  Min({a, b}) \in {a, b} /\ Min({a, b}) <= b
<1>1. \E x \in {a, b} : \A y \in {a, b} : x =< y
  <2>1. CASE a <= b
    BY <2>1
  <2>2. CASE b <= a
    BY <2>2
  <2>. QED BY <2>1, <2>2
<1>. DEFINE m == Min({a, b})
<1>2. m \in {a, b} /\ \A y \in {a, b} : m =< y
  BY <1>1 DEF Min
<1>. HIDE DEF m
<1>3. m <= b
  BY <1>2
<1>. QED BY <1>2, <1>3 DEF m

LEMMA StopNet ==
  ASSUME NetInv, Stop
  PROVE  /\ net' \subseteq net
         /\ \A m \in net' : m.dir = "req" /\ m.cmd = "first"
         /\ Cardinality(net') <= LateMax
<1>. DEFINE firsts == {m \in net : m.dir = "req" /\ m.cmd = "first"}
<1>1. firsts \subseteq net
  OBVIOUS
<1>2. IsFiniteSet(firsts)
  BY <1>1, NetSize, FS_Subset
<1>3. Cardinality(firsts) \in Nat
  BY <1>2, FS_CardinalityType
<1>4. net' \in kSubset(Min({Cardinality(firsts), LateMax}), firsts)
  BY DEF Stop
<1>5. net' \subseteq firsts /\ Cardinality(net') = Min({Cardinality(firsts), LateMax})
  BY <1>4 DEF kSubset
<1>. QED BY <1>1, <1>3, <1>5, MinFacts, SizeFacts

LEMMA EmptyTable ==
  /\ IsFiniteSet({}) /\ Cardinality({}) = 0
BY FS_EmptySet

LEMMA StopInv ==
  ASSUME Inv, Stop, UNCHANGED <<monitor, srv, faults>>
  PROVE  Inv'
<1>1. /\ proc' = "none" /\ cIsAgentRun' = 2 /\ key' = NoKey /\ timers' = {} /\ data' = 0
      /\ age' = ValidTime /\ bCheckHelloStart' = FALSE
  BY DEF Stop
<1>2. StateOK'
  <2>1. /\ monitor' \in {"fork", "watch", "gone"} /\ srv' \in Keys \cup {NoKey}
        /\ faults' \in 0 .. MaxFaults
    BY DEF Inv, StateOK
  <2>2. cIsAgentRun' \in 0 .. 2 /\ age' \in 0 .. ValidTime
    BY <1>1, SizeFacts
  <2>. QED BY <1>1, <2>1, <2>2 DEF StateOK
<1>3. TableInv'
  BY <1>1, EmptyTable, SizeFacts DEF TableInv, TableOK, OneChain
<1>4. /\ net' \subseteq net
      /\ \A m \in net' : m.dir = "req" /\ m.cmd = "first"
      /\ Cardinality(net') <= LateMax
  BY StopNet DEF Inv
<1>5. IsFiniteSet(net') /\ Cardinality(net') <= Cardinality(net)
  BY <1>4, NetSize, FS_Subset DEF Inv
<1>6. NetInv'
  <2>1. Cardinality(net') \in Nat
    BY <1>5, FS_CardinalityType
  <2>2. Cardinality(net') <= NetMax + LateMax
    BY <1>4, <2>1, SizeFacts
  <2>3. StaleIn(net', key') \subseteq net'
    BY DEF StaleIn
  <2>4. IsFiniteSet(StaleIn(net', key')) /\ Cardinality(StaleIn(net', key')) <= Cardinality(net')
    BY <1>5, <2>3, FS_Subset
  <2>5. Cardinality(StaleIn(net', key')) \in Nat
    BY <2>4, FS_CardinalityType
  <2>6. Cardinality(StaleIn(net', key')) <= LateMax
    BY <1>4, <2>1, <2>4, <2>5, SizeFacts
  <2>7. net' \subseteq Packets
    BY <1>4 DEF Inv, NetInv
  <2>. QED BY <1>1, <1>5, <2>2, <2>6, <2>7, EmptyTable DEF NetInv, Finite, Bounded
<1>7. AtRest' /\ Known' /\ Alone'
  BY <1>1, <1>4 DEF AtRest, Known, Alone
<1>. QED BY <1>2, <1>3, <1>6, <1>7 DEF Inv

-----------------------------------------------------------------------------
(***************************************************************************)
(* The table of timers.                                                    *)
(***************************************************************************)

LEMMA TimerType ==
  ASSUME NEW cmd \in Cmds, NEW s \in Seqs
  PROVE  [cmd |-> cmd, seq |-> s, tries |-> 0] \in Timers
BY SizeFacts DEF Timers

(* AddTimer keeps to the table, and adds one timer of this command or none. *)
LEMMA AddFacts ==
  ASSUME Inv, NEW ts \in SUBSET Timers, IsFiniteSet(ts), Cardinality(ts) + data <= TimerMax,
         NEW cmd \in Cmds
  PROVE  /\ Add(ts, cmd) \in SUBSET Timers
         /\ IsFiniteSet(Add(ts, cmd))
         /\ Cardinality(Add(ts, cmd)) + data <= TimerMax
         /\ \A t \in Add(ts, cmd) : t \in ts \/ t = [cmd |-> cmd, seq |-> Fresh(cmd), tries |-> 0]
<1>. DEFINE x == [cmd |-> cmd, seq |-> Fresh(cmd), tries |-> 0]
<1>1. x \in Timers
  BY FreshFacts, TimerType DEF Inv, TableInv
<1>2. data \in Nat
  BY SizeFacts DEF Inv, TableInv, TableOK
<1>. HIDE DEF x
<1>3. /\ IsFiniteSet(ts \cup {x})
      /\ Cardinality(ts) \in Nat
      /\ Cardinality(ts \cup {x}) \in Nat
      /\ Cardinality(ts \cup {x}) <= Cardinality(ts) + 1
  BY AddOne
<1>4. Add(ts, cmd) = IF Cardinality(ts) + 1 + data < TimerMax THEN ts \cup {x} ELSE ts
  BY DEF Add, x
<1>5. CASE Cardinality(ts) + 1 + data < TimerMax
  <2>1. Add(ts, cmd) = ts \cup {x}
    BY <1>4, <1>5
  <2>2. Cardinality(ts \cup {x}) + data <= TimerMax
    BY <1>2, <1>3, <1>5, SizeFacts
  <2>. QED BY <1>1, <1>3, <2>1, <2>2 DEF x
<1>6. CASE ~(Cardinality(ts) + 1 + data < TimerMax)
  BY <1>4, <1>6
<1>. QED BY <1>5, <1>6

(* What is left when an answer has come. *)
LEMMA RestFacts ==
  ASSUME Inv, NEW m
  PROVE  /\ timers \ GetTimer(m) \in SUBSET Timers
         /\ IsFiniteSet(timers \ GetTimer(m))
         /\ Cardinality(timers \ GetTimer(m)) + data <= TimerMax
<1>. DEFINE r == timers \ GetTimer(m)
<1>1. r \subseteq timers
  OBVIOUS
<1>2. IsFiniteSet(timers) /\ timers \subseteq Timers /\ data \in Nat
      /\ Cardinality(timers) + data <= TimerMax
  BY SizeFacts DEF Inv, TableInv, TableOK, NetInv, Finite
<1>3. IsFiniteSet(r) /\ Cardinality(r) <= Cardinality(timers)
  BY <1>1, <1>2, FS_Subset
<1>4. Cardinality(r) \in Nat /\ Cardinality(timers) \in Nat
  BY <1>2, <1>3, FS_CardinalityType
<1>5. r \in SUBSET Timers
  BY <1>1, <1>2
<1>. HIDE DEF r
<1>6. Cardinality(r) + data <= TimerMax
  BY <1>2, <1>3, <1>4, SizeFacts
<1>. QED BY <1>3, <1>5, <1>6 DEF r

-----------------------------------------------------------------------------
(***************************************************************************)
(* One step per action.                                                    *)
(***************************************************************************)

LEMMA PacketFacts ==
  ASSUME NetInv, NEW m \in net
  PROVE  /\ m.dir \in {"req", "ans"} /\ m.cmd \in Cmds /\ m.seq \in Seqs
         /\ m.dir = "req" => m \in Requests /\ m.key \in Keys
         /\ m.dir = "ans" => m \in Answers
<1>1. m \in Requests \/ m \in Answers
  BY DEF NetInv, Packets
<1>2. CASE m \in Requests
  BY <1>2 DEF Requests
<1>3. CASE m \in Answers
  BY <1>3 DEF Answers
<1>. QED BY <1>1, <1>2, <1>3

LEMMA RequestType ==
  ASSUME NEW cmd \in Cmds, NEW k \in Keys, NEW s \in Seqs
  PROVE  /\ Request(cmd, k, s) \in Requests
         /\ Request(cmd, k, s).key = k /\ Request(cmd, k, s).cmd = cmd
         /\ Request(cmd, k, s).dir = "req"
BY DEF Request, Requests

LEMMA ForkInv ==
  ASSUME Inv, Fork
  PROVE  Inv'
<1>0. proc = "none"
  BY DEF Fork, Inv, Alone
<1>1. CASE proc' = "first"
  <2>1. /\ monitor' = "watch" /\ cIsAgentRun' = 1 /\ key' = FreshKey
        /\ Send(Request("first", FreshKey, Fresh("first")))
        /\ timers' = {[cmd |-> "first", seq |-> Fresh("first"), tries |-> 0]}
        /\ UNCHANGED <<data, age, bCheckHelloStart, faults, srv>>
    BY <1>0, <1>1 DEF Fork
  <2>2. FreshKey \in Keys /\ Fresh("first") \in Seqs
    BY FreshKeyFacts, FreshFacts DEF Inv, TableInv
  <2>3. key = NoKey /\ data = 0
    BY <1>0 DEF Inv, AtRest
  <2>4. StateOK'
    BY <1>1, <2>1, <2>2 DEF Inv, StateOK
  <2>5. PICK x \in Timers : timers' = {x} /\ x.cmd = "first"
    BY <2>1, <2>2, TimerType, SizeFacts
  <2>6. IsFiniteSet(timers') /\ Cardinality(timers') = 1
    BY <2>5, FS_Singleton
  <2>7. TableInv'
    <3>1. TableOK'
      BY <2>1, <2>3, <2>5, <2>6, SizeFacts DEF TableOK
    <3>2. OneChain'
      BY <1>1, <2>5 DEF OneChain
    <3>. QED BY <3>1, <3>2 DEF TableInv
  <2>8. /\ Request("first", FreshKey, Fresh("first")) \in Requests
        /\ Request("first", FreshKey, Fresh("first")).key = key'
    BY <2>1, <2>2, RequestType, SizeFacts
  <2>9. \A n \in net : n.dir = "req" => n.key # key
    BY <2>3, PacketFacts, SizeFacts DEF Inv
  <2>10. NetInv'
    BY <2>1, <2>6, <2>8, <2>9, NetSends DEF Inv
  <2>11. AtRest' /\ Known' /\ Alone'
    BY <1>1, <2>1, <2>2 DEF AtRest, Known, Alone
  <2>. QED BY <2>4, <2>7, <2>10, <2>11 DEF Inv
<1>2. CASE proc' # "first"
  <2>1. /\ monitor' = "watch" /\ faults' \in 0 .. MaxFaults
        /\ UNCHANGED <<proc, agent, net, srv>>
    BY <1>2, SizeFacts DEF Fork, Fault, Inv, StateOK
  <2>2. UNCHANGED <<proc, cIsAgentRun, key, timers, data, age, bCheckHelloStart, net, srv>>
    BY <2>1 DEF agent
  <2>3. StateOK' /\ TableInv'
    BY <2>1, <2>2 DEF Inv, StateOK, TableInv, TableOK, OneChain
  <2>4. NetInv'
    BY <2>2, NetStays DEF Inv, NetInv, Finite
  <2>5. AtRest' /\ Known' /\ Alone'
    BY <2>1, <2>2 DEF Inv, AtRest, Known, Alone
  <2>. QED BY <2>3, <2>4, <2>5 DEF Inv
<1>. QED BY <1>1, <1>2

(* Steps that touch neither the table nor the packets. *)
LEMMA QuietInv ==
  ASSUME Inv, StateOK', Alone', UNCHANGED <<timers, data, net, key>>,
         proc' = proc \/ (proc' \in {"run", "hung"} /\ proc \in {"run", "hung"})
  PROVE  Inv'
<1>1. TableInv'
  BY DEF Inv, TableInv, TableOK, OneChain
<1>2. NetInv'
  BY NetStays DEF Inv, NetInv, Finite
<1>3. AtRest' /\ Known'
  BY DEF Inv, AtRest, Known
<1>. QED BY <1>1, <1>2, <1>3 DEF Inv

LEMMA QuietSteps ==
  ASSUME Inv, MonitorBusiProcess \/ Cron \/ Tick \/ Hang \/ CommandEnds \/ ServerForget
              \/ UNCHANGED vars
  PROVE  Inv'
<1>1. UNCHANGED <<timers, data, net, key>>
  BY DEF MonitorBusiProcess, Cron, Tick, Hang, CommandEnds, ServerForget, vars, agent
<1>2. StateOK'
  <2>1. CASE MonitorBusiProcess \/ Cron
    BY <2>1 DEF MonitorBusiProcess, Cron, agent, Inv, StateOK
  <2>2. CASE Tick
    BY <2>2, SizeFacts DEF Tick, Inv, StateOK
  <2>3. CASE Hang \/ CommandEnds
    BY <2>3 DEF Hang, CommandEnds, agent, Inv, StateOK
  <2>4. CASE ServerForget
    BY <2>4, SizeFacts DEF ServerForget, Fault, agent, Inv, StateOK
  <2>5. CASE UNCHANGED vars
    BY <2>5 DEF vars, agent, Inv, StateOK
  <2>. QED BY <2>1, <2>2, <2>3, <2>4, <2>5
<1>3. proc' = proc \/ (proc' \in {"run", "hung"} /\ proc \in {"run", "hung"})
  BY DEF MonitorBusiProcess, Cron, Tick, Hang, CommandEnds, ServerForget, vars, agent
<1>4. Alone'
  <2>1. CASE MonitorBusiProcess \/ Cron
    BY <2>1 DEF MonitorBusiProcess, Cron, agent, Inv, Alone
  <2>2. CASE Hang \/ CommandEnds
    BY <2>2 DEF Hang, CommandEnds, agent, Inv, Alone
  <2>3. CASE Tick \/ ServerForget \/ UNCHANGED vars
    BY <2>3 DEF Tick, ServerForget, vars, agent, Inv, Alone
  <2>. QED BY <2>1, <2>2, <2>3
<1>. QED BY <1>1, <1>2, <1>3, <1>4, QuietInv

(* Timers with a request: a first hello again, or the end; another packet again, or the end. *)
LEMMA ResendInv ==
  ASSUME Inv, NEW t \in timers, t.cmd = "first", t.tries < TryMax,
         Send(Request("first", key, t.seq)),
         timers' = (timers \ {t}) \cup {[t EXCEPT !.tries = @ + 1]},
         UNCHANGED <<proc, cIsAgentRun, key, data, age, bCheckHelloStart, monitor, srv, faults>>,
         Live
  PROVE  Inv'
<1>. DEFINE u == [t EXCEPT !.tries = @ + 1]
<1>1. t \in Timers /\ key \in Keys
  BY DEF Inv, TableInv, TableOK, Known, Live
<1>2. u \in Timers /\ u.cmd = "first"
  BY <1>1, SizeFacts DEF Timers
<1>3. t.seq \in Seqs
  BY <1>1 DEF Timers
<1>4. timers' = (timers \ {t}) \cup {u}
  OBVIOUS
<1>. HIDE DEF u
<1>5. StateOK' /\ AtRest' /\ Known' /\ Alone'
  BY DEF Inv, StateOK, AtRest, Known, Alone, Live
<1>6. /\ IsFiniteSet(timers \ {t})
      /\ Cardinality(timers) \in Nat
      /\ Cardinality(timers \ {t}) = Cardinality(timers) - 1
  BY DropOne DEF Inv, NetInv, Finite
<1>7. /\ IsFiniteSet(timers')
      /\ Cardinality(timers') \in Nat
      /\ Cardinality(timers \ {t}) \in Nat
      /\ Cardinality(timers') <= Cardinality(timers \ {t}) + 1
  <2>. DEFINE S == timers \ {t}
  <2>1. IsFiniteSet(S) /\ timers' = S \cup {u}
    BY <1>4, <1>6
  <2>. HIDE DEF S
  <2>2. /\ IsFiniteSet(S \cup {u}) /\ Cardinality(S \cup {u}) \in Nat /\ Cardinality(S) \in Nat
        /\ Cardinality(S \cup {u}) <= Cardinality(S) + 1
    <3>1. IsFiniteSet(S)
      BY <2>1
    <3>. QED BY <3>1, AddOne
  <2>. QED BY <2>1, <2>2 DEF S
<1>8. TableOK'
  <2>1. data \in 0 .. TimerMax /\ Cardinality(timers) + data <= TimerMax /\ timers \subseteq Timers
    BY DEF Inv, TableInv, TableOK
  <2>2. Cardinality(timers') + data <= TimerMax
    BY <1>6, <1>7, <2>1, SizeFacts
  <2>3. timers' \subseteq Timers
    BY <1>2, <1>4, <2>1
  <2>. QED BY <2>1, <2>2, <2>3 DEF TableOK
<1>9. OneChain'
  <2>1. \A v \in timers : v.cmd = "first" => v = t
    BY DEF Inv, TableInv, OneChain
  <2>2. \A v \in timers' : v.cmd = "first" => v = u
    BY <1>4, <2>1
  <2>3. \A v, w \in timers' : v.cmd = w.cmd => v = w
    BY <1>2, <1>4, <2>2 DEF Inv, TableInv, OneChain
  <2>4. proc = "first"
    BY DEF Live, Inv, TableInv, OneChain
  <2>5. \A v \in timers' : v.cmd = "first"
    BY <1>2, <1>4, <2>4 DEF Inv, TableInv, OneChain
  <2>. QED BY <1>4, <2>3, <2>4, <2>5 DEF OneChain
<1>10. NetInv'
  <2>1. Request("first", key, t.seq) \in Requests /\ Request("first", key, t.seq).key = key'
    BY <1>1, <1>3, RequestType, SizeFacts
  <2>. QED BY <1>7, <2>1, NetSends DEF Inv
<1>. QED BY <1>5, <1>8, <1>9, <1>10 DEF Inv, TableInv

LEMMA ExpireInv ==
  ASSUME Inv, NEW t \in timers, Expire(t)
  PROVE  Inv'
<1>1. Live /\ UNCHANGED <<monitor, srv, faults>>
  BY DEF Expire
<1>2. CASE Stop
  BY <1>1, <1>2, StopInv
<1>3. CASE ~Stop /\ t.cmd = "first"
  <2>1. /\ t.tries < TryMax
        /\ Send(Request("first", key, t.seq))
        /\ timers' = (timers \ {t}) \cup {[t EXCEPT !.tries = @ + 1]}
        /\ UNCHANGED <<proc, cIsAgentRun, key, data, age, bCheckHelloStart>>
    BY <1>3 DEF Expire, HelloFirstExpire, OnPkgExpire
  <2>. QED BY <1>1, <1>3, <2>1, ResendInv
<1>4. CASE ~Stop /\ t.cmd # "first"
  <2>1. Send(Request(t.cmd, key, t.seq)) /\ UNCHANGED <<proc, agent>>
    BY <1>4 DEF Expire, HelloFirstExpire, OnPkgExpire
  <2>2. UNCHANGED <<proc, cIsAgentRun, key, timers, data, age, bCheckHelloStart>>
    BY <2>1 DEF agent
  <2>3. t \in Timers /\ key \in Keys
    BY <1>1 DEF Inv, TableInv, TableOK, Known, Live
  <2>4. t.cmd \in Cmds /\ t.seq \in Seqs
    BY <2>3 DEF Timers
  <2>5. Request(t.cmd, key, t.seq) \in Requests /\ Request(t.cmd, key, t.seq).key = key'
    BY <2>2, <2>3, <2>4, RequestType
  <2>6. IsFiniteSet(timers')
    BY <2>2 DEF Inv, NetInv, Finite
  <2>7. NetInv'
    BY <2>1, <2>2, <2>5, <2>6, NetSends DEF Inv
  <2>8. StateOK' /\ Known' /\ Alone' /\ AtRest'
    BY <1>1, <2>2 DEF Inv, StateOK, Known, Alone, AtRest, Live
  <2>9. TableInv'
    BY <2>2 DEF Inv, TableInv, TableOK, OneChain
  <2>. QED BY <2>7, <2>8, <2>9 DEF Inv
<1>. QED BY <1>2, <1>3, <1>4

(* Packets with attributes, log or plug-in state. *)
LEMMA DataInv ==
  ASSUME Inv, OnEventTimer \/ DataDone
  PROVE  Inv'
<1>1. UNCHANGED <<monitor, proc, cIsAgentRun, key, timers, age, bCheckHelloStart, srv, net, faults>>
  BY DEF OnEventTimer, DataDone
<1>2. proc = "run"
  BY DEF OnEventTimer, DataDone
<1>3. StateOK' /\ AtRest' /\ Known' /\ Alone'
  BY <1>1, <1>2 DEF Inv, StateOK, AtRest, Known, Alone
<1>4. IsFiniteSet(timers)
  BY DEF Inv, NetInv, Finite
<1>5. Cardinality(timers) \in Nat
  BY <1>4, FS_CardinalityType
<1>6. data \in 0 .. TimerMax /\ Cardinality(timers) + data <= TimerMax /\ timers \subseteq Timers
  BY DEF Inv, TableInv, TableOK
<1>7. data' \in 0 .. TimerMax /\ Cardinality(timers) + data' <= TimerMax
  <2>1. CASE OnEventTimer
    <3>1. Cardinality(timers) + data < TimerMax /\ data' = data + 1
      BY <2>1 DEF OnEventTimer
    <3>. QED BY <1>5, <1>6, <3>1, SizeFacts
  <2>2. CASE DataDone
    <3>1. data > 0 /\ data' = data - 1
      BY <2>2 DEF DataDone
    <3>. QED BY <1>5, <1>6, <3>1, SizeFacts
  <2>. QED BY <2>1, <2>2
<1>8. TableInv'
  BY <1>1, <1>6, <1>7 DEF Inv, TableInv, TableOK, OneChain
<1>9. NetInv'
  BY <1>1, <1>4, NetStays DEF Inv
<1>. QED BY <1>3, <1>8, <1>9 DEF Inv

-----------------------------------------------------------------------------
(***************************************************************************)
(* Answers.                                                                *)
(***************************************************************************)

(* A table without first hello, one timer of each chain, and fewer packets. *)
LEMMA AnsweredInv ==
  ASSUME Inv, Live, StateOK', UNCHANGED <<monitor, key, data>>, proc' = "run",
         net' \subseteq net, timers' \in SUBSET Timers, IsFiniteSet(timers'),
         Cardinality(timers') + data <= TimerMax,
         \A t, u \in timers' : t.cmd = u.cmd => t = u,
         \A t \in timers' : t.cmd # "first"
  PROVE  Inv'
<1>1. TableInv'
  BY DEF Inv, TableInv, TableOK, OneChain
<1>2. NetInv'
  BY NetShrinks DEF Inv
<1>3. AtRest' /\ Known' /\ Alone'
  BY DEF Live, Inv, AtRest, Known, Alone
<1>. QED BY <1>1, <1>2, <1>3 DEF Inv

(* The handler of an answer takes the timer away and adds the next of the chain. *)
LEMMA NextOfChain ==
  ASSUME Inv, NEW m, \E t \in timers : t.cmd = m.cmd /\ t.seq = m.seq,
         m.cmd \in Chains, Live, proc' = proc, StateOK',
         UNCHANGED <<monitor, key, data>>, net' \subseteq net,
         timers' = Add(timers \ GetTimer(m), m.cmd)
  PROVE  Inv'
<1>. DEFINE rest == timers \ GetTimer(m)
<1>0. m.cmd # "first" /\ m.cmd \in Cmds
  BY SizeFacts
<1>1. proc = "run"
  BY <1>0 DEF Live, Inv, TableInv, OneChain
<1>2. \A t \in rest : t \in timers /\ t.cmd # m.cmd
  BY DEF Inv, TableInv, OneChain, GetTimer
<1>3. /\ rest \in SUBSET Timers
      /\ IsFiniteSet(rest)
      /\ Cardinality(rest) + data <= TimerMax
  BY RestFacts
<1>4. timers' = Add(rest, m.cmd)
  OBVIOUS
<1>. HIDE DEF rest
<1>. DEFINE x == [cmd |-> m.cmd, seq |-> Fresh(m.cmd), tries |-> 0]
<1>5. /\ timers' \in SUBSET Timers
      /\ IsFiniteSet(timers')
      /\ Cardinality(timers') + data <= TimerMax
      /\ \A t \in timers' : t \in rest \/ t = x
  BY <1>0, <1>3, <1>4, AddFacts
<1>6. x.cmd = m.cmd
  OBVIOUS
<1>. HIDE DEF x
<1>7. \A t, u \in timers' : t.cmd = u.cmd => t = u
  BY <1>2, <1>5, <1>6 DEF Inv, TableInv, OneChain
<1>8. \A t \in timers' : t.cmd # "first"
  BY <1>0, <1>1, <1>2, <1>5, <1>6 DEF Inv, TableInv, OneChain
<1>. QED BY <1>1, <1>5, <1>7, <1>8, AnsweredInv

(* The answer to the first hello. *)
LEMMA FirstOfChains ==
  ASSUME Inv, NEW m, \E t \in timers : t.cmd = m.cmd /\ t.seq = m.seq,
         m.cmd = "first", Live, proc' = "run", StateOK',
         UNCHANGED <<monitor, key, data>>, net' \subseteq net,
         timers' = LET hello == Add(timers \ GetTimer(m), "hello")
                   IN IF "check" \in Chains THEN Add(hello, "check") ELSE hello
  PROVE  Inv'
<1>1. proc = "first"
  BY DEF Live, Inv, TableInv, OneChain
<1>2. timers \ GetTimer(m) = {}
  BY <1>1 DEF Inv, TableInv, OneChain, GetTimer
<1>3. /\ {} \in SUBSET Timers /\ IsFiniteSet({}) /\ Cardinality({}) + data <= TimerMax
  BY <1>2, RestFacts
<1>. DEFINE x == [cmd |-> "hello", seq |-> Fresh("hello"), tries |-> 0]
            y == [cmd |-> "check", seq |-> Fresh("check"), tries |-> 0]
            h == Add({}, "hello")
<1>4. /\ h \in SUBSET Timers /\ IsFiniteSet(h) /\ Cardinality(h) + data <= TimerMax
      /\ \A t \in h : t = x
  <2>1. /\ h \in SUBSET Timers /\ IsFiniteSet(h) /\ Cardinality(h) + data <= TimerMax
        /\ \A t \in h : t \in {} \/ t = x
    BY <1>3, SizeFacts, AddFacts
  <2>. QED BY <2>1
<1>5. timers' = IF "check" \in Chains THEN Add(h, "check") ELSE h
  BY <1>2
<1>6. x.cmd = "hello" /\ y.cmd = "check"
  OBVIOUS
<1>7. CASE "check" \notin Chains
  <2>1. timers' = h
    BY <1>5, <1>7
  <2>. HIDE DEF h, x, y
  <2>2. \A t, u \in timers' : t.cmd = u.cmd => t = u
    BY <1>4, <2>1
  <2>3. \A t \in timers' : t.cmd # "first"
    BY <1>4, <1>6, <2>1
  <2>. QED BY <1>4, <2>1, <2>2, <2>3, AnsweredInv
<1>8. CASE "check" \in Chains
  <2>. HIDE DEF h
  <2>1. timers' = Add(h, "check")
    BY <1>5, <1>8
  <2>2. "check" \in Cmds
    BY <1>8, SizeFacts
  <2>3. /\ timers' \in SUBSET Timers
        /\ IsFiniteSet(timers')
        /\ Cardinality(timers') + data <= TimerMax
        /\ \A t \in timers' : t \in h \/ t = y
    BY <1>4, <2>1, <2>2, AddFacts
  <2>. HIDE DEF x, y
  <2>4. \A t, u \in timers' : t.cmd = u.cmd => t = u
    BY <1>4, <1>6, <2>3
  <2>5. \A t \in timers' : t.cmd # "first"
    BY <1>4, <1>6, <2>3
  <2>. QED BY <2>3, <2>4, <2>5, AnsweredInv
<1>. QED BY <1>7, <1>8

LEMMA AnswerInv ==
  ASSUME Inv, NEW m \in net, OnMtreportPkg(m)
  PROVE  Inv'
<1>. DEFINE rest == timers \ GetTimer(m)
<1>1. /\ Live
      /\ \E t \in timers : t.cmd = m.cmd /\ t.seq = m.seq
      /\ RespHelloFirst(m, rest) \/ RespHello(m, rest) \/ RespCheck(m, rest)
      /\ UNCHANGED <<monitor, srv, faults>>
  BY DEF OnMtreportPkg
<1>2. CASE Stop
  BY <1>1, <1>2, StopInv
<1>3. CASE RespHelloFirst(m, rest) /\ ~Stop
  <2>1. /\ m.cmd = "first" /\ proc' = "run" /\ age' = 0
        /\ timers' = LET hello == Add(rest, "hello")
                     IN IF "check" \in Chains THEN Add(hello, "check") ELSE hello
        /\ net' = net \ {m}
        /\ UNCHANGED <<cIsAgentRun, key, data, bCheckHelloStart>>
    BY <1>3 DEF RespHelloFirst
  <2>2. 0 \in 0 .. ValidTime
    BY SizeFacts
  <2>3. StateOK'
    BY <1>1, <2>1, <2>2 DEF Inv, StateOK
  <2>4. net' \subseteq net
    BY <2>1
  <2>. QED BY <1>1, <2>1, <2>3, <2>4, FirstOfChains
<1>4. CASE RespHello(m, rest)
  <2>1. /\ m.cmd = "hello"
        /\ timers' = Add(rest, "hello")
        /\ net' = net \ {m}
        /\ UNCHANGED <<proc, cIsAgentRun, key, data>>
    BY <1>4 DEF RespHello
  <2>2. 0 \in 0 .. ValidTime
    BY SizeFacts
  <2>3. age' \in 0 .. ValidTime
    BY <1>4, <2>2 DEF RespHello, Inv, StateOK
  <2>4. bCheckHelloStart' \in BOOLEAN
    BY <1>4 DEF RespHello, Inv, StateOK
  <2>5. StateOK'
    BY <1>1, <2>1, <2>3, <2>4 DEF Inv, StateOK
  <2>6. net' \subseteq net
    BY <2>1
  <2>. QED BY <1>1, <2>1, <2>5, <2>6, NextOfChain, SizeFacts
<1>5. CASE RespCheck(m, rest) /\ ~Stop
  <2>1. /\ m.cmd = "check"
        /\ timers' = Add(rest, "check")
        /\ net' = net \ {m}
        /\ UNCHANGED <<proc, cIsAgentRun, key, data, age, bCheckHelloStart>>
    BY <1>5 DEF RespCheck
  <2>2. StateOK'
    BY <1>1, <2>1 DEF Inv, StateOK
  <2>3. net' \subseteq net
    BY <2>1
  <2>4. m.cmd \in Chains
    BY <2>1, PacketFacts DEF Inv, Cmds
  <2>. QED BY <1>1, <2>1, <2>2, <2>3, <2>4, NextOfChain
<1>. QED BY <1>1, <1>2, <1>3, <1>4, <1>5

-----------------------------------------------------------------------------
(***************************************************************************)
(* The server and the network.                                             *)
(***************************************************************************)

LEMMA ServerInv ==
  ASSUME Inv, NEW m \in net, OnRawData(m)
  PROVE  Inv'
<1>1. PICK ok \in BOOLEAN : Answer(m, ok)
  BY DEF OnRawData, DealCmdHelloFirst, DealCommInfo
<1>2. UNCHANGED <<monitor, proc, cIsAgentRun, key, timers, data, age, bCheckHelloStart>> /\ m.dir = "req"
  BY DEF OnRawData, agent
<1>3. m.cmd \in Cmds /\ m.seq \in Seqs /\ m.key \in Keys
  BY <1>2, PacketFacts DEF Inv
<1>. DEFINE a == [dir |-> "ans", cmd |-> m.cmd, ok |-> ok, seq |-> m.seq]
<1>4. a \in Answers /\ a.cmd = m.cmd
  BY <1>3 DEF Answers
<1>5. Reply(m, a)
  BY <1>1 DEF Answer
<1>. HIDE DEF a
<1>6. NetInv'
  BY <1>2, <1>4, <1>5, NetAnswers DEF Inv, NetInv, Finite
<1>7. StateOK'
  <2>1. srv' \in Keys \cup {NoKey}
    BY <1>3 DEF OnRawData, DealCmdHelloFirst, DealCommInfo, Inv, StateOK
  <2>2. faults' \in 0 .. MaxFaults
    <3>1. faults' = faults \/ Fault
      BY DEF OnRawData, DealCmdHelloFirst, DealCommInfo
    <3>. QED BY <3>1, SizeFacts DEF Fault, Inv, StateOK
  <2>. QED BY <1>2, <2>1, <2>2 DEF Inv, StateOK
<1>8. TableInv'
  BY <1>2 DEF Inv, TableInv, TableOK, OneChain
<1>9. AtRest' /\ Known' /\ Alone'
  BY <1>2, <1>4, <1>5 DEF Reply, Inv, AtRest, Known, Alone
<1>. QED BY <1>6, <1>7, <1>8, <1>9 DEF Inv

LEMMA LoseInv ==
  ASSUME Inv, NEW m \in net, Lose(m)
  PROVE  Inv'
<1>1. /\ UNCHANGED <<monitor, proc, cIsAgentRun, key, timers, data, age, bCheckHelloStart, srv, faults>>
      /\ net' \subseteq net
  BY DEF Lose, agent
<1>2. StateOK' /\ TableInv'
  BY <1>1 DEF Inv, StateOK, TableInv, TableOK, OneChain
<1>3. NetInv'
  BY <1>1, NetShrinks DEF Inv, NetInv, Finite
<1>4. AtRest' /\ Known' /\ Alone'
  BY <1>1 DEF Inv, AtRest, Known, Alone
<1>. QED BY <1>2, <1>3, <1>4 DEF Inv

-----------------------------------------------------------------------------
(***************************************************************************)
(* The theorems.                                                           *)
(***************************************************************************)

LEMMA InitInv == Init => Inv
<1>. SUFFICES ASSUME Init PROVE Inv
  OBVIOUS
<1>1. /\ monitor = "fork" /\ proc = "none" /\ cIsAgentRun = 0
      /\ key = NoKey /\ timers = {} /\ data = 0
      /\ age = ValidTime /\ bCheckHelloStart = FALSE
      /\ srv = NoKey /\ net = {} /\ faults = 0
  BY DEF Init
<1>2. StateOK
  <2>1. ValidTime \in 0 .. ValidTime /\ 0 \in 0 .. MaxFaults /\ 0 \in 0 .. 2
    BY SizeFacts
  <2>. QED BY <1>1, <2>1 DEF StateOK
<1>3. TableInv
  BY <1>1, EmptyTable, SizeFacts DEF TableInv, TableOK, OneChain
<1>4. NetInv
  <2>1. StaleIn(net, key) = {}
    BY <1>1 DEF StaleIn
  <2>. QED BY <1>1, <2>1, EmptyTable, SizeFacts DEF NetInv, Finite, Bounded
<1>. QED BY <1>1, <1>2, <1>3, <1>4 DEF Inv, AtRest, Known, Alone

LEMMA NextInv == Inv /\ [Next]_vars => Inv'
<1>. SUFFICES ASSUME Inv, [Next]_vars PROVE Inv'
  OBVIOUS
<1>1. CASE Fork
  BY <1>1, ForkInv
<1>2. CASE MonitorBusiProcess \/ Cron \/ Tick \/ Hang \/ CommandEnds \/ ServerForget \/ UNCHANGED vars
  BY <1>2, QuietSteps
<1>3. CASE OnEventTimer \/ DataDone
  BY <1>3, DataInv
<1>4. CASE MainLoop \/ RunLimit
  BY <1>4, StopInv DEF MainLoop, RunLimit
<1>5. ASSUME NEW t \in timers, Expire(t) PROVE Inv'
  BY <1>5, ExpireInv
<1>6. ASSUME NEW m \in net, OnMtreportPkg(m) PROVE Inv'
  BY <1>6, AnswerInv
<1>7. ASSUME NEW m \in net, OnRawData(m) PROVE Inv'
  BY <1>7, ServerInv
<1>8. ASSUME NEW m \in net, Lose(m) PROVE Inv'
  BY <1>8, LoseInv
<1>. QED BY <1>1, <1>2, <1>3, <1>4, <1>5, <1>6, <1>7, <1>8 DEF Next

(* What the processes, the timer table and the packets may hold; the table of timers does *)
(* not overflow, whatever is answered, sent again, lost or given up (CMyTimer, AddTimer). *)
THEOREM SessionTypeCorrect == Spec => []TypeOK
<1>1. Inv => TypeOK
  BY DEF Inv, TableInv, NetInv, Packets, TypeOK
<1>. QED BY <1>1, InitInv, NextInv, PTL DEF Spec

(* One hello and one check are under way, not two, in a process that runs; one first      *)
(* hello and nothing else in a process that waits for its first answer.                   *)
THEOREM OneChainCorrect == Spec => []OneChain
<1>1. Inv => OneChain
  BY DEF Inv, TableInv
<1>. QED BY <1>1, InitInv, NextInv, PTL DEF Spec

-----------------------------------------------------------------------------
(***************************************************************************)
(* The keys of agent and server.                                           *)
(***************************************************************************)

LEMMA Counted ==
  ASSUME Inv, Fault
  PROVE  faults' # 0
BY DEF Fault, Inv, StateOK

(* A process that ends leaves no answer behind. *)
LEMMA StopKeys ==
  ASSUME Inv, Stop
  PROVE  Agreed' /\ KeysAgree'
<1>1. \A m \in net' : m.dir = "req"
  BY StopNet DEF Inv
<1>2. proc' = "none"
  BY DEF Stop
<1>. QED BY <1>1, <1>2 DEF Agreed, KeysAgree

(* Steps that change no key and bring no answer. *)
LEMMA SameKeys ==
  ASSUME KeyInv, UNCHANGED <<key, srv, faults>>,
         \A m \in net' : m.dir = "ans" => m \in net,
         proc' = proc \/ (proc' \in {"run", "hung"} /\ proc \in {"run", "hung"})
  PROVE  Agreed' /\ KeysAgree'
BY DEF KeyInv, Agreed, KeysAgree

LEMMA SendKeys ==
  ASSUME NEW m, m.dir = "req", Send(m)
  PROVE  \A n \in net' : n.dir = "ans" => n \in net
BY DEF Send

LEMMA RequestDir ==
  ASSUME NEW cmd, NEW k, NEW s
  PROVE  Request(cmd, k, s).dir = "req"
BY DEF Request

LEMMA ForkKeys ==
  ASSUME KeyInv, Fork
  PROVE  Agreed' /\ KeysAgree'
<1>0. proc = "none"
  BY DEF Fork, KeyInv, Inv, Alone
<1>1. CASE proc' = "first"
  <2>1. Send(Request("first", FreshKey, Fresh("first"))) /\ faults' = faults
    BY <1>0, <1>1 DEF Fork
  <2>2. \A n \in net' : n.dir = "ans" => n \in net
    BY <2>1, RequestDir, SendKeys
  <2>. QED BY <1>0, <1>1, <2>1, <2>2 DEF KeyInv, Agreed, KeysAgree
<1>2. CASE proc' # "first"
  <2>1. Fault
    BY <1>2 DEF Fork
  <2>. QED BY <2>1, Counted DEF KeyInv, Agreed, KeysAgree
<1>. QED BY <1>1, <1>2

LEMMA ExpireKeys ==
  ASSUME KeyInv, NEW t \in timers, Expire(t)
  PROVE  Agreed' /\ KeysAgree'
<1>1. CASE Stop
  BY <1>1, StopKeys DEF KeyInv
<1>2. CASE ~Stop
  <2>1. /\ Send(Request(t.cmd, key, t.seq))
        /\ UNCHANGED <<proc, key, srv, faults>>
    BY <1>2 DEF Expire, HelloFirstExpire, OnPkgExpire, agent
  <2>2. \A n \in net' : n.dir = "ans" => n \in net
    BY <2>1, RequestDir, SendKeys
  <2>. QED BY <2>1, <2>2, SameKeys
<1>. QED BY <1>1, <1>2

(* The agent believes the answer to its first hello: the server has its key. *)
LEMMA AnswerKeys ==
  ASSUME KeyInv, NEW m \in net, OnMtreportPkg(m)
  PROVE  Agreed' /\ KeysAgree'
<1>1. CASE Stop
  BY <1>1, StopKeys DEF KeyInv
<1>2. CASE ~Stop
  <2>1. /\ UNCHANGED <<key, srv, faults>> /\ net' \subseteq net /\ m.dir = "ans"
        /\ proc' = proc \/ (proc' = "run" /\ m.cmd = "first")
    BY <1>2 DEF OnMtreportPkg, RespHelloFirst, RespHello, RespCheck
  <2>2. CASE proc' = proc
    BY <2>1, <2>2, SameKeys
  <2>3. CASE proc' = "run" /\ m.cmd = "first"
    BY <2>1, <2>3 DEF KeyInv, Agreed, KeysAgree
  <2>. QED BY <2>1, <2>2, <2>3
<1>. QED BY <1>1, <1>2

(* The server learns a key: the one of the process, or there has been a fault. *)
LEMMA ServerKeys ==
  ASSUME KeyInv, NEW m \in net, OnRawData(m)
  PROVE  Agreed' /\ KeysAgree'
<1>1. UNCHANGED <<proc, key>> /\ m.dir = "req"
  BY DEF OnRawData, agent
<1>2. CASE Fault
  BY <1>2, Counted DEF KeyInv, Agreed, KeysAgree
<1>3. CASE ~Fault
  <2>1. PICK ok \in BOOLEAN : Answer(m, ok)
    BY DEF OnRawData, DealCmdHelloFirst, DealCommInfo
  <2>2. PICK a : net' = (net \ {m}) \cup {a} /\ a.cmd = m.cmd
    <3>. DEFINE a == [dir |-> "ans", cmd |-> m.cmd, ok |-> ok, seq |-> m.seq]
    <3>1. net' = (net \ {m}) \cup {a}
      BY <2>1 DEF Answer, Reply
    <3>2. a.cmd = m.cmd
      OBVIOUS
    <3>. QED BY <3>1, <3>2
  <2>3. m.key \in Keys
    BY <1>1, PacketFacts DEF KeyInv, Inv
  <2>4. CASE m.cmd = "first"
    <3>1. m.key = key /\ srv' = m.key /\ faults' = faults
      BY <1>3, <2>4 DEF OnRawData, DealCmdHelloFirst, DealCommInfo
    <3>2. proc # "none"
      BY <2>3, <3>1, SizeFacts DEF KeyInv, Inv, AtRest
    <3>. QED BY <1>1, <3>1, <3>2 DEF Agreed, KeysAgree
  <2>5. CASE m.cmd # "first"
    <3>1. UNCHANGED <<srv, faults>>
      BY <2>5 DEF OnRawData, DealCmdHelloFirst, DealCommInfo
    <3>2. proc # "none"
      BY <2>5 DEF KeyInv, Inv, AtRest
    <3>. QED BY <1>1, <2>2, <2>5, <3>1, <3>2 DEF KeyInv, Agreed, KeysAgree
  <2>. QED BY <2>4, <2>5
<1>. QED BY <1>2, <1>3

LEMMA NextKeys == KeyInv /\ [Next]_vars => KeyInv'
<1>. SUFFICES ASSUME KeyInv, [Next]_vars PROVE Agreed' /\ KeysAgree'
  BY NextInv DEF KeyInv
<1>1. CASE Fork
  BY <1>1, ForkKeys
<1>2. CASE \/ MonitorBusiProcess \/ Cron \/ Tick \/ Hang \/ CommandEnds \/ UNCHANGED vars
           \/ OnEventTimer \/ DataDone
  <2>1. /\ UNCHANGED <<key, srv, faults, net>>
        /\ proc' = proc \/ (proc' \in {"run", "hung"} /\ proc \in {"run", "hung"})
    BY <1>2 DEF MonitorBusiProcess, Cron, Tick, Hang, CommandEnds, OnEventTimer, DataDone,
                vars, agent
  <2>. QED BY <2>1, SameKeys
<1>3. CASE ServerForget
  BY <1>3, Counted DEF ServerForget, KeyInv, Agreed, KeysAgree
<1>4. CASE MainLoop \/ RunLimit
  BY <1>4, StopKeys DEF MainLoop, RunLimit, KeyInv
<1>5. ASSUME NEW t \in timers, Expire(t) PROVE Agreed' /\ KeysAgree'
  BY <1>5, ExpireKeys
<1>6. ASSUME NEW m \in net, OnMtreportPkg(m) PROVE Agreed' /\ KeysAgree'
  BY <1>6, AnswerKeys
<1>7. ASSUME NEW m \in net, OnRawData(m) PROVE Agreed' /\ KeysAgree'
  BY <1>7, ServerKeys
<1>8. ASSUME NEW m \in net, Lose(m) PROVE Agreed' /\ KeysAgree'
  <2>1. UNCHANGED <<proc, key, srv, faults>> /\ net' \subseteq net
    BY <1>8 DEF Lose, agent
  <2>. QED BY <2>1, SameKeys
<1>. QED BY <1>1, <1>2, <1>3, <1>4, <1>5, <1>6, <1>7, <1>8 DEF Next

(* A running agent and the server have the same key, whichever tries of the first hello   *)
(* got through, until a fault: a first hello of an earlier process came late or was       *)
(* refused, a start failed or the server lost the agent (DealCmdHelloFirst,               *)
(* HelloFirstExpire).                                                                     *)
THEOREM KeysAgreeCorrect == Spec => []KeysAgree
<1>1. Init => KeyInv
  BY InitInv DEF Init, KeyInv, Agreed, KeysAgree
<1>2. KeyInv => KeysAgree
  BY DEF KeyInv
<1>. QED BY <1>1, <1>2, NextKeys, PTL DEF Spec

====
