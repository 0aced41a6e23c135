----------------------------- MODULE TimerWheel -----------------------------
(***************************************************************************)
(* The timers of the agent (sv_timer.cpp): a wheel of lists per level, a   *)
(* timer on the level that its distance needs, the lists of a higher level *)
(* dealt out to the lower ones ("cascaded") when the level below has gone  *)
(* round.  The agent is one thread: packets and timers are handled one     *)
(* after the other, but time goes on inside a handler.                     *)
(***************************************************************************)
EXTENDS Integers, FiniteSets

CONSTANTS
  Keys,       \* timer keys (packet sequence numbers)
  RootSize,   \* TVR_SIZE: lists of the first level (256)
  WheelSize,  \* TVN_SIZE: lists of the other levels (64)
  Levels,     \* number of levels (5)
  Timeouts,   \* time-outs in ticks; AddTimer and UpdateTimer raise shorter ones
  BatchMax,   \* MAX_TIMER_NODE_PER_TRY
  NoKey,      \* no timer
  MaxTime     \* bound: ticks of a run

ASSUME WheelSizes ==
  /\ {RootSize, WheelSize, BatchMax} \subseteq Nat \ {0}
  /\ WheelSize >= 2 /\ Levels \in Nat /\ Levels >= 2
  /\ MaxTime \in Nat /\ NoKey \notin Keys
  /\ Timeouts \subseteq Nat \ {0}
  /\ \A t \in Timeouts : MaxTime + t < RootSize * WheelSize ^ (Levels - 1)

Level == 1 .. Levels
Size(l) == IF l = 1 THEN RootSize ELSE WheelSize
Span(l) == IF l = 1 THEN 1 ELSE RootSize * WheelSize ^ (l - 2)   \* ticks one list stands for
Off    == <<0, 0>>   \* no timer
Adrift == <<0, 1>>   \* a timer that counts and has its key, but is in no list

VARIABLES
  now,       \* stConfig.qwCurTime, in ticks since the base time
  uiCheckTime, index,    \* the next tick to look at; of every level the next list
  loc, uiExpire,         \* per key: its list, and the tick it expires at
  phase,     \* where RunTimerList is
  cur,       \* its argument
  batch,     \* iCheckNodeCount
  handled,   \* the key whose OnExpire runs, if any
  again,     \* the tick to look at next has been begun by an earlier call
  doubled    \* history: ... of a tick that begins with a cascade

wheel == <<uiCheckTime, index>>
vars  == <<now, wheel, loc, uiExpire, phase, cur, batch, handled, again, doubled>>

Armed == {k \in Keys : loc[k] # Off}

(* What the timer's fields may hold. *)
TypeOK ==
  /\ now \in 0 .. MaxTime /\ cur \in 0 .. MaxTime
  /\ uiCheckTime \in 0 .. MaxTime + 1
  /\ \A l \in Level : index[l] \in 0 .. Size(l) - 1
  /\ \A k \in Armed : loc[k] # Adrift =>
                        loc[k][1] \in Level /\ loc[k][2] \in 0 .. Size(loc[k][1]) - 1
  /\ \A k \in Keys : uiExpire[k] \in Nat
  /\ phase \in {"idle", "loop", "slot", "handler", "stop"}
  /\ batch \in 0 .. BatchMax
  /\ handled \in Keys \cup {NoKey}
  /\ again \in BOOLEAN /\ doubled \in BOOLEAN

(* InitTimer *)
Init ==
  /\ now = 0 /\ cur = 0
  /\ uiCheckTime = 0 /\ index = [l \in Level |-> 0]
  /\ loc = [k \in Keys |-> Off] /\ uiExpire = [k \in Keys |-> 0]
  /\ phase = "idle" /\ batch = 0 /\ handled = NoKey
  /\ again = FALSE /\ doubled = FALSE

-----------------------------------------------------------------------------
(* A fault: a timer one turn of the first level away is put on the first level. *)
PlaceShort(e) ==
  LET d == e - uiCheckTime IN
  IF d < 0 THEN <<1, index[1]>>
  ELSE LET l == CHOOSE m \in Level : /\ m = Levels \/ d <= Size(m) * Span(m)
                                     /\ \A i \in 1 .. m - 1 : d > Size(i) * Span(i)
       IN <<l, (e \div Span(l)) % Size(l)>>

(* InternalAddTimer: the lowest level that reaches far enough, on it the list of the tick; *)
(* a timer that is overdue goes to the current list.                                       *)
Place(e) ==
  LET d == e - uiCheckTime IN
  IF d < 0 THEN <<1, index[1]>>
  ELSE LET l == CHOOSE m \in Level : /\ m = Levels \/ d < Size(m) * Span(m)
                                     /\ \A i \in 1 .. m - 1 : d >= Size(i) * Span(i)
       IN <<l, (e \div Span(l)) % Size(l)>>

Arm(k, t) ==
  /\ uiExpire' = [uiExpire EXCEPT ![k] = now + t]
  /\ loc' = [loc EXCEPT ![k] = Place(now + t)]

(* By a handler of a packet, or of a timer. *)
AddTimer(k, t) ==
  /\ phase \in {"idle", "handler"}
  /\ k \notin Armed /\ k # handled        \* -4 otherwise
  /\ Arm(k, t)
  /\ UNCHANGED <<now, wheel, phase, cur, batch, handled, again, doubled>>

(* The answer has come: the handler of the packet takes the timer out. *)
GetTimer(k) ==
  /\ phase = "idle"
  /\ k \in Armed
  /\ loc' = [loc EXCEPT ![k] = Off]
  /\ UNCHANGED <<now, wheel, uiExpire, phase, cur, batch, handled, again, doubled>>

SetCurTime ==
  /\ now < MaxTime
  /\ now' = now + 1
  /\ UNCHANGED <<wheel, loc, uiExpire, phase, cur, batch, handled, again, doubled>>

-----------------------------------------------------------------------------
(***************************************************************************)
(* CheckTimer and RunTimerList.                                            *)
(***************************************************************************)

CheckTimer ==
  /\ phase = "idle"
  /\ now >= uiCheckTime
  /\ cur' = now
  /\ batch' = 0
  /\ phase' = "loop"
  /\ UNCHANGED <<now, wheel, loc, uiExpire, handled, again, doubled>>

(* The levels whose next list is dealt out together: a level is reached when all levels   *)
(* between it and the first stand at their first list.                                    *)
Cascading == {n \in 2 .. Levels : \A m \in 2 .. n - 1 : index[m] = 0}

(* CascadeTimers of those levels.  A timer that is dealt to the list it comes from is linked *)
(* to itself, and the list is then made empty.  Two of them are met in turn until the loop   *)
(* is given up and the agent stopped.                                                        *)
Cascade ==
  LET Dealt == {k \in Armed : \E n \in Cascading : loc[k] = <<n, index[n]>>}
      Back  == {k \in Dealt : Place(uiExpire[k]) = loc[k]}
      Loops == \E k, m \in Back : k # m /\ loc[k] = loc[m] IN
  /\ index[1] = 0
  /\ \/ Loops /\ phase' = "stop" /\ UNCHANGED <<index, loc>>
     \/ /\ ~Loops
        /\ loc' = [k \in Keys |-> IF k \in Back THEN Adrift
                                 ELSE IF k \in Dealt THEN Place(uiExpire[k]) ELSE loc[k]]
        /\ index' = [l \in Level |->
             IF l \in Cascading THEN (index[l] + 1) % WheelSize ELSE index[l]]
        /\ phase' = "slot"
  /\ doubled' = (doubled \/ again)

(* The head of the loop. *)
Loop ==
  /\ phase = "loop"
  /\ \/ /\ cur >= uiCheckTime /\ Armed # {}
        /\ \/ Cascade
           \/ /\ index[1] # 0
              /\ phase' = "slot"
              /\ UNCHANGED <<index, loc, doubled>>
        /\ again' = FALSE
     \/ /\ ~(cur >= uiCheckTime /\ Armed # {})
        /\ phase' = "idle"
        /\ UNCHANGED <<index, loc, again, doubled>>
  /\ UNCHANGED <<now, uiCheckTime, uiExpire, cur, batch, handled>>

Due == {k \in Armed : loc[k] = <<1, index[1]>>}

(* A timer of the current list is taken out and its OnExpire called.  There is no action  *)
(* for a timer that comes too early, which would stop the agent: see OnTime.              *)
Expire(k) ==
  /\ phase = "slot"
  /\ k \in Due
  /\ loc' = [loc EXCEPT ![k] = Off]
  /\ handled' = k
  /\ batch' = batch + 1
  /\ phase' = "handler"
  /\ UNCHANGED <<now, wheel, uiExpire, cur, again, doubled>>

(* OnExpire has returned.  After MAX_TIMER_NODE_PER_TRY timers the call is left in the  *)
(* middle of the tick.                                                                  *)
Leave ==
  /\ handled' = NoKey
  /\ phase' = IF batch >= BatchMax THEN "idle" ELSE "slot"
  /\ again' = (batch >= BatchMax)
  /\ UNCHANGED <<now, wheel, cur, batch, doubled>>

(* ... with 1: the handler has armed the timer again with UpdateTimer. *)
UpdateTimer(t) ==
  /\ phase = "handler"
  /\ Arm(handled, t)
  /\ Leave

(* ... with another value: the node is cleared. *)
FreeTimer ==
  /\ phase = "handler"
  /\ UNCHANGED <<loc, uiExpire>>
  /\ Leave

(* A fault: the index of the first level is not masked. *)
AdvanceUnmasked ==
  /\ phase = "slot"
  /\ Due = {}
  /\ uiCheckTime' = uiCheckTime + 1
  /\ index' = [index EXCEPT ![1] = @ + 1]
  /\ phase' = "loop"
  /\ UNCHANGED <<now, loc, uiExpire, cur, batch, handled, again, doubled>>

(* The list is empty: the next tick. *)
Advance ==
  /\ phase = "slot"
  /\ Due = {}
  /\ uiCheckTime' = uiCheckTime + 1
  /\ index' = [index EXCEPT ![1] = (@ + 1) % RootSize]
  /\ phase' = "loop"
  /\ UNCHANGED <<now, loc, uiExpire, cur, batch, handled, again, doubled>>

(* cIsAgentRun = 2: the process ends and is started again. *)
Restart ==
  /\ phase = "stop"
  /\ now' = 0 /\ cur' = 0
  /\ uiCheckTime' = 0 /\ index' = [l \in Level |-> 0]
  /\ loc' = [k \in Keys |-> Off] /\ uiExpire' = [k \in Keys |-> 0]
  /\ phase' = "idle" /\ batch' = 0 /\ handled' = NoKey
  /\ again' = FALSE /\ doubled' = FALSE

Next ==
  \/ SetCurTime \/ CheckTimer \/ Loop \/ Advance \/ FreeTimer \/ Restart
  \/ \E k \in Keys : GetTimer(k) \/ Expire(k)
  \/ \E k \in Keys, t \in Timeouts : AddTimer(k, t)
  \/ \E t \in Timeouts : UpdateTimer(t)

Spec == Init /\ [][Next]_vars
-----------------------------------------------------------------------------
(* No timer is late, until a call has been left in the middle of a tick with a cascade:   *)
(* when RunTimerList has come to its end, every timer whose tick is over has been         *)
(* handled, on whichever level it was put and however often it was dealt down.  And no    *)
(* timer is early, not even after a second cascade: what RunTimerList finds in the list   *)
(* of the tick has expired, and CascadeTimers never deals a timer to the list it is       *)
(* dealing out.  So the test of qwExpireTime in RunTimerList, which would stop the agent, *)
(* never succeeds, the loop of CascadeTimers ends, and no timer falls out of its list.    *)
OnTime ==
  /\ ~doubled /\ phase = "idle" /\ ~again /\ cur < uiCheckTime =>
       \A k \in Armed : uiExpire[k] > cur
  /\ phase = "slot" => \A k \in Due : uiExpire[k] <= cur
  /\ ~doubled => phase # "stop" /\ \A k \in Keys : loc[k] # Adrift

(* sv_timer.cpp: CascadeTimers and RunTimerList are the ones of the Linux kernel, which   *)
(* deals a list out once in a turn of the wheel: no timer falls out of its list.          *)
CascadedOnce == phase # "stop" /\ \A k \in Keys : loc[k] # Adrift

====
