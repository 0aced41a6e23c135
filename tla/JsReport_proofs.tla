--------------------------- MODULE JsReport_proofs ---------------------------
(***************************************************************************)
(* Proofs about JsReport, for any points, strings, plugins, limits and     *)
(* times: the types, the delay timer that is never left behind, and the    *)
(* refinement of the abstract Mailbox.                                     *)
(***************************************************************************)
EXTENDS JsReport, TLAPS, FiniteSetTheorems, WellFoundedInduction

-----------------------------------------------------------------------------
(* The inductive invariant. *)

(* No second timer, and the timer there is can be cleared. *)
OneTimer == \A t \in timers : t.id = last_delay_timer_id /\ timers = {t}

(* Only a string that is cut when it is stored gets a second entry. *)
NoOthers(b) == \A s \in Strings \ Long : b.strattrs[s].others = 0

Inv == TypeOK /\ OneTimer /\ NoOthers(buf)

LEMMA Consts ==
  /\ NPlugins \in Nat /\ MaxAttrs \in Nat /\ MaxStr \in Nat /\ MaxLogs \in Nat
  /\ ShortDelay \in Nat /\ RetryDelay \in Nat /\ TryTime \in Nat /\ FreqTime \in Nat
  /\ FreqLimit \in Nat /\ ReqTimeout \in Nat /\ NXhr \in Nat
  /\ ShortDelay \in 1..TryTime /\ RetryDelay \in 1..TryTime
  /\ NXhr >= 2
BY ConstantsOK

LEMMA EmptyBufType == EmptyBuf \in Buffers /\ NoOthers(EmptyBuf)
BY DEF EmptyBuf, Buffers, NoEntry, NoOthers

LEMMA InitInv == Init => Inv
<1>. SUFFICES ASSUME Init PROVE Inv
  OBVIOUS
<1>1. /\ page \in {"failed", "json2", "ready"}
      /\ json \in BOOLEAN /\ xhrOk \in BOOLEAN
  BY Zenon DEF Init
<1>2. EnvOK
  BY <1>1, Consts DEF Init, EnvOK
<1>3. TimersOK /\ ReqOK
  BY Consts DEF Init, TimersOK, ReqOK
<1>4. OneTimer /\ buf \in Buffers /\ NoOthers(buf)
  BY EmptyBufType DEF Init, OneTimer
<1>. QED BY <1>2, <1>3, <1>4 DEF Inv, TypeOK

-----------------------------------------------------------------------------
(* _report_to_server.  Every caller leaves it no timer that could still fire. *)

(* A timer that is set when there is none: its number is free and is remembered. *)
LEMMA SetTimer ==
  ASSUME NEW does \in {"report", "nothing"}, NEW delay \in 0..TryTime,
         setTimeout({}, does, delay)
  PROVE  TimersOK' /\ OneTimer'
<1>1. FreshId({}) \in TimerIds
  BY DEF FreshId, TimerIds
<1>. QED BY <1>1 DEF setTimeout, TimersOK, OneTimer, Timers

(* Whatever timer there is, clearing it by its number leaves none. *)
LEMMA ClearTimer ==
  ASSUME OneTimer
  PROVE  /\ clearTimeout(timers, last_delay_timer_id) = {}
         /\ \A t \in timers : timers \ {t} = {}
BY DEF OneTimer, clearTimeout

LEMMA NoTimer ==
  ASSUME TimersOK, OneTimer, last_delay_timer_id = 0
  PROVE  timers = {}
BY DEF OneTimer, TimersOK, Timers, TimerIds

(* The object of a new request is not that of the last one. *)
LEMMA FreeXhrFact ==
  ASSUME ReqOK
  PROVE  FreeXhr \in Xhrs /\ FreeXhr # latest
<1>1. \E x \in Xhrs : x # latest /\ (x \notin out \/ Xhrs \ {latest} \subseteq out)
  <2>1. \E x \in Xhrs : x # latest
    <3>1. 1 \in Xhrs /\ 2 \in Xhrs
      BY Consts DEF Xhrs
    <3>. QED BY <3>1
  <2>. QED BY <2>1
<1>. QED BY <1>1 DEF FreeXhr

LEMMA LengthsResetType ==
  ASSUME NEW b \in Buffers, NoOthers(b)
  PROVE  LengthsReset(b) \in Buffers /\ NoOthers(LengthsReset(b))
BY DEF Buffers, LengthsReset, NoOthers

LEMMA TakenType ==
  ASSUME NEW b \in Buffers
  PROVE  Taken(b) \in Buffers /\ NoOthers(Taken(b))
<1>1. \A L : [b.plogs EXCEPT ![L] = 0] \in [Plugins -> Nat]
  BY DEF Buffers
<1>2. \A f \in [Plugins -> Nat] : 
         [EmptyBuf EXCEPT !.plogs = f] \in Buffers /\ NoOthers([EmptyBuf EXCEPT !.plogs = f])
  BY EmptyBufType DEF Buffers, NoOthers
<1>. QED BY <1>1, <1>2 DEF Taken, Buffers

LEMMA ReportInv ==
  ASSUME ReqOK, NEW b \in Buffers, NoOthers(b), NEW id \in {0} \cup TimerIds,
         NEW seq \in {0} \cup Xhrs, NEW delay \in 0..TryTime,
         _report_to_server(b, {}, id, seq, delay)
  PROVE  buf' \in Buffers /\ NoOthers(buf') /\ TimersOK' /\ OneTimer' /\ ReqOK'
<1>1. clearTimeout({}, id) = {}
  BY DEF clearTimeout
<1>2. CASE Deferred(b, {}, id, seq, delay)
  <2>1. ReqOK'
    BY <1>2 DEF Deferred, reqVars, ReqOK
  <2>2. CASE id = 0
    <3>1. (IF delay = NoDelay THEN ShortDelay ELSE delay) \in 0..TryTime
      BY Consts
    <3>2. TimersOK' /\ OneTimer'
      BY <1>2, <2>2, <3>1, SetTimer DEF Deferred
    <3>. QED BY <1>2, <2>1, <3>2 DEF Deferred
  <2>3. CASE id # 0
    BY <1>2, <2>1, <2>3 DEF Deferred, TimersOK, OneTimer
  <2>. QED BY <2>2, <2>3
<1>3. CASE NotSent(b, {}, id, seq, delay)
  <2>1. ReqOK'
    BY <1>3 DEF NotSent, reqVars, ReqOK
  <2>. QED BY <1>1, <1>3, <2>1, LengthsResetType DEF NotSent, TimersOK, OneTimer
<1>4. CASE Refused(b, {}, id, seq, delay)
  <2>1. ReqOK'
    BY <1>4, Consts DEF Refused, ReqOK
  <2>2. TimersOK' /\ OneTimer'
    BY <1>1, <1>4, SetTimer, Consts DEF Refused
  <2>. QED BY <1>4, <2>1, <2>2, LengthsResetType DEF Refused
<1>5. CASE Sent(b, {}, id, seq, delay)
  <2>1. latest' \in Xhrs /\ out' \subseteq Xhrs /\ last_req_seq' \in {0} \cup Xhrs
    BY <1>5, FreeXhrFact DEF Sent, ReqOK
  <2>2. freq_request_times' \in Nat
    BY <1>5 DEF Sent, ReqOK
  <2>3. req_seq' = 1 /\ requestAge' = 0 /\ freqAge' \in {0, freqAge}
    BY <1>5 DEF Sent
  <2>4. ReqOK'
    BY <2>1, <2>2, <2>3, Consts DEF ReqOK
  <2>. QED BY <1>1, <1>5, <2>4, TakenType DEF Sent, TimersOK, OneTimer
<1>. QED BY <1>2, <1>3, <1>4, <1>5 DEF _report_to_server

-----------------------------------------------------------------------------
(* What a call of the page leaves in the buffers. *)

(* report_attr_add, report_attr_set *)
WithAttr(op, a, n) ==
  [buf EXCEPT !.attrs[a] = IF op = "set" THEN n ELSE buf.attrs[a] + n]

(* report_strattr_add, report_strattr_set *)
FoundStr(s) == buf.strattrs[s].entries # 0 /\ s \notin Long

NewEntry(op, s, n) ==
  LET old == buf.strattrs[s]
  IN CASE FoundStr(s)        -> [old EXCEPT !.first = IF op = "set" THEN n ELSE @ + n]
       [] old.entries = 0    -> [entries |-> 1, first |-> n, others |-> 0]
       [] OTHER              -> [old EXCEPT !.entries = @ + 1, !.others = @ + n]

WithStr(op, s, n) ==
  [buf EXCEPT !.strattrs[s] = NewEntry(op, s, n),
              !.cur_strattrs_strlen = IF FoundStr(s) THEN @ ELSE @ + 1]

(* _report_log *)
WithLog == [buf EXCEPT !.logs = @ + 1, !.cur_logs_strlen = @ + 1]

(* a plugin *)
WithPluginLog(p) == [buf EXCEPT !.plogs[p] = @ + 1]

LEMMA WithAttrType ==
  ASSUME buf \in Buffers, NoOthers(buf), NEW op, NEW a \in Attrs, NEW n \in Nat
  PROVE  WithAttr(op, a, n) \in Buffers /\ NoOthers(WithAttr(op, a, n))
BY DEF Buffers, WithAttr, NoOthers

LEMMA NewEntryType ==
  ASSUME buf \in Buffers, NoOthers(buf), NEW op, NEW s \in Strings, NEW n \in Nat
  PROVE  /\ NewEntry(op, s, n) \in [entries : Nat, first : Nat, others : Nat]
         /\ s \notin Long => NewEntry(op, s, n).others = 0
<1>1. buf.strattrs[s] \in [entries : Nat, first : Nat, others : Nat]
  BY DEF Buffers
<1>2. s \notin Long => buf.strattrs[s].others = 0
  BY DEF NoOthers
<1>. DEFINE old == buf.strattrs[s]
            E == [entries : Nat, first : Nat, others : Nat]
<1>3. \A x \in Nat : [old EXCEPT !.first = x] \in E /\ [old EXCEPT !.first = x].others = old.others
  BY <1>1
<1>4. \A x, y \in Nat : [old EXCEPT !.entries = x, !.others = y] \in E
  BY <1>1
<1>5. /\ (IF op = "set" THEN n ELSE old.first + n) \in Nat
      /\ old.entries + 1 \in Nat /\ old.others + n \in Nat
  BY <1>1
<1>6. [entries |-> 1, first |-> n, others |-> 0] \in E
  OBVIOUS
<1>7. CASE FoundStr(s)
  BY <1>2, <1>3, <1>5, <1>7 DEF NewEntry, FoundStr
<1>8. CASE old.entries = 0
  BY <1>6, <1>8 DEF NewEntry, FoundStr
<1>9. CASE ~FoundStr(s) /\ old.entries # 0
  BY <1>4, <1>5, <1>9 DEF NewEntry, FoundStr
<1>. QED BY <1>7, <1>8, <1>9

LEMMA WithStrType ==
  ASSUME buf \in Buffers, NoOthers(buf), NEW op, NEW s \in Strings, NEW n \in Nat
  PROVE  WithStr(op, s, n) \in Buffers /\ NoOthers(WithStr(op, s, n))
<1>. DEFINE e == NewEntry(op, s, n)
            c == IF FoundStr(s) THEN buf.cur_strattrs_strlen ELSE buf.cur_strattrs_strlen + 1
<1>1. e \in [entries : Nat, first : Nat, others : Nat] /\ (s \notin Long => e.others = 0)
  BY NewEntryType
<1>2. c \in Nat
  BY DEF Buffers
<1>3. WithStr(op, s, n) = [buf EXCEPT !.strattrs[s] = e, !.cur_strattrs_strlen = c]
  BY DEF WithStr
<1>. HIDE DEF e, c
<1>. DEFINE w == [buf EXCEPT !.strattrs[s] = e, !.cur_strattrs_strlen = c]
<1>4. w \in Buffers /\ NoOthers(w)
  BY <1>1, <1>2 DEF Buffers, NoOthers
<1>. QED BY <1>3, <1>4

LEMMA WithLogType ==
  ASSUME buf \in Buffers, NoOthers(buf)
  PROVE  WithLog \in Buffers /\ NoOthers(WithLog)
<1>1. buf.logs + 1 \in Nat /\ buf.cur_logs_strlen + 1 \in Nat
  BY DEF Buffers
<1>2. \A x, y \in Nat :
        LET b == [buf EXCEPT !.logs = x, !.cur_logs_strlen = y]
        IN  b \in Buffers /\ NoOthers(b)
  BY DEF Buffers, NoOthers
<1>. QED BY <1>1, <1>2 DEF WithLog

LEMMA WithPluginLogType ==
  ASSUME buf \in Buffers, NoOthers(buf), NEW p \in Plugins
  PROVE  WithPluginLog(p) \in Buffers /\ NoOthers(WithPluginLog(p))
BY DEF Buffers, WithPluginLog, NoOthers

-----------------------------------------------------------------------------
(* Every step keeps the invariant. *)

LEMMA SameEnv ==
  ASSUME EnvOK, UNCHANGED envVars
  PROVE  EnvOK'
BY DEF envVars, EnvOK

LEMMA BufferedInv ==
  ASSUME Inv, NEW b \in Buffers, NoOthers(b), Buffered(b)
  PROVE  buf' \in Buffers /\ NoOthers(buf') /\ TimersOK' /\ OneTimer' /\ ReqOK'
BY DEF Inv, TypeOK, Buffered, reqVars, TimersOK, OneTimer, ReqOK

LEMMA ReportAttrInv ==
  ASSUME Inv, NEW op, NEW a \in Attrs, NEW n \in Nat, ReportAttr(op, a, n)
  PROVE  Inv'
<1>1. WithAttr(op, a, n) \in Buffers /\ NoOthers(WithAttr(op, a, n))
  BY WithAttrType DEF Inv, TypeOK
<1>2. \/ Buffered(WithAttr(op, a, n))
      \/ _report_to_server(WithAttr(op, a, n), clearTimeout(timers, last_delay_timer_id),
                           last_delay_timer_id, last_req_seq, NoDelay)
  BY DEF ReportAttr, WithAttr
<1>3. buf' \in Buffers /\ NoOthers(buf') /\ TimersOK' /\ OneTimer' /\ ReqOK'
  <2>1. /\ last_delay_timer_id \in {0} \cup TimerIds
        /\ last_req_seq \in {0} \cup Xhrs /\ ReqOK /\ NoDelay \in 0..TryTime
    BY Consts DEF Inv, TypeOK, TimersOK, ReqOK, NoDelay
  <2>. QED BY <1>1, <1>2, <2>1, ClearTimer, BufferedInv, ReportInv DEF Inv
<1>. QED BY <1>3, SameEnv DEF ReportAttr, Inv, TypeOK

LEMMA ReportStrAttrInv ==
  ASSUME Inv, NEW op, NEW s \in Strings, NEW n \in Nat, ReportStrAttr(op, s, n)
  PROVE  Inv'
<1>1. WithStr(op, s, n) \in Buffers /\ NoOthers(WithStr(op, s, n))
  BY WithStrType DEF Inv, TypeOK
<1>2. \/ Buffered(WithStr(op, s, n))
      \/ _report_to_server(WithStr(op, s, n), clearTimeout(timers, last_delay_timer_id),
                           last_delay_timer_id, last_req_seq, NoDelay)
  BY DEF ReportStrAttr, WithStr, NewEntry, FoundStr
<1>3. buf' \in Buffers /\ NoOthers(buf') /\ TimersOK' /\ OneTimer' /\ ReqOK'
  <2>1. /\ last_delay_timer_id \in {0} \cup TimerIds
        /\ last_req_seq \in {0} \cup Xhrs /\ ReqOK /\ NoDelay \in 0..TryTime
    BY Consts DEF Inv, TypeOK, TimersOK, ReqOK, NoDelay
  <2>. QED BY <1>1, <1>2, <2>1, ClearTimer, BufferedInv, ReportInv DEF Inv
<1>. QED BY <1>3, SameEnv DEF ReportStrAttr, Inv, TypeOK

LEMMA ReportLogInv ==
  ASSUME Inv, ReportLog
  PROVE  Inv'
<1>1. WithLog \in Buffers /\ NoOthers(WithLog) /\ buf \in Buffers /\ NoOthers(buf)
  BY WithLogType DEF Inv, TypeOK
<1>2. \/ Buffered(buf)
      \/ Buffered(WithLog)
      \/ _report_to_server(WithLog, clearTimeout(timers, last_delay_timer_id), 0,
                           last_req_seq, NoDelay)
  BY DEF ReportLog, WithLog
<1>3. buf' \in Buffers /\ NoOthers(buf') /\ TimersOK' /\ OneTimer' /\ ReqOK'
  <2>1. last_req_seq \in {0} \cup Xhrs /\ ReqOK /\ NoDelay \in 0..TryTime
    BY Consts DEF Inv, TypeOK, ReqOK, NoDelay
  <2>. QED BY <1>1, <1>2, <2>1, ClearTimer, BufferedInv, ReportInv DEF Inv
<1>. QED BY <1>3, SameEnv DEF ReportLog, Inv, TypeOK

LEMMA report_to_serverInv ==
  ASSUME Inv, NEW delay \in Nat, report_to_server(delay)
  PROVE  buf' \in Buffers /\ NoOthers(buf') /\ TimersOK' /\ OneTimer' /\ ReqOK'
<1>1. /\ buf \in Buffers /\ NoOthers(buf) /\ ReqOK
      /\ last_req_seq \in {0} \cup Xhrs /\ NoDelay \in 0..TryTime
  BY Consts DEF Inv, TypeOK, ReqOK, NoDelay
<1>2. CASE _report_to_server(buf, clearTimeout(timers, last_delay_timer_id), 0, 0, NoDelay)
  BY <1>1, <1>2, ClearTimer, ReportInv DEF Inv
<1>3. CASE Buffered(buf)
  BY <1>1, <1>3, BufferedInv
<1>. DEFINE d == CASE delay = NoDelay    -> ShortDelay
                   [] delay >= TryTime   -> TryTime
                   [] OTHER              -> delay
<1>4. CASE last_delay_timer_id = 0 /\ _report_to_server(buf, timers, 0, last_req_seq, d)
  <2>1. d \in 0..TryTime
    BY Consts DEF NoDelay
  <2>2. timers = {}
    BY <1>4, NoTimer DEF Inv, TypeOK
  <2>. HIDE DEF d
  <2>. QED BY <1>1, <1>4, <2>1, <2>2, ReportInv
<1>. QED BY <1>2, <1>3, <1>4 DEF report_to_server

LEMMA DelayFiresInv ==
  ASSUME Inv, NEW t \in timers, DelayFires(t)
  PROVE  Inv'
<1>1. /\ buf \in Buffers /\ NoOthers(buf) /\ ReqOK
      /\ last_req_seq \in {0} \cup Xhrs /\ NoDelay \in 0..TryTime
  BY Consts DEF Inv, TypeOK, ReqOK, NoDelay
<1>. DEFINE seq == IF requestAge >= ReqTimeout THEN 0 ELSE last_req_seq
<1>2. CASE _report_to_server(buf, timers \ {t}, 0, seq, NoDelay)
  <2>1. seq \in {0} \cup Xhrs
    BY <1>1
  <2>. HIDE DEF seq
  <2>2. timers \ {t} = {}
    BY ClearTimer DEF Inv
  <2>3. _report_to_server(buf, {}, 0, seq, NoDelay)
    BY <1>2, <2>2
  <2>4. buf' \in Buffers /\ NoOthers(buf') /\ TimersOK' /\ OneTimer' /\ ReqOK'
    BY <1>1, <2>1, <2>3, ReportInv
  <2>. QED BY <2>4, SameEnv DEF DelayFires, Inv, TypeOK
<1>3. CASE /\ timers' = timers \ {t}
           /\ UNCHANGED <<reqVars, buf, last_delay_timer_id, last_req_seq>>
  <2>1. timers' = {}
    BY <1>3, ClearTimer DEF Inv
  <2>2. TimersOK' /\ OneTimer'
    BY <1>3, <2>1 DEF Inv, TypeOK, TimersOK, OneTimer
  <2>3. ReqOK'
    BY <1>1, <1>3 DEF ReqOK, reqVars
  <2>. QED BY <1>1, <1>3, <2>2, <2>3, SameEnv DEF DelayFires, Inv, TypeOK
<1>. QED BY <1>2, <1>3 DEF DelayFires

LEMMA TickInv ==
  ASSUME Inv, Tick
  PROVE  Inv'
<1>1. EnvOK'
  BY Consts DEF Inv, TypeOK, EnvOK, Tick
<1>2. ReqOK'
  <2>1. requestAge' \in {-1} \cup 0..ReqTimeout
    BY Consts DEF Inv, TypeOK, ReqOK, Tick, Older
  <2>2. freqAge' \in {-1} \cup 0..(FreqTime + 1)
    BY Consts DEF Inv, TypeOK, ReqOK, Tick, Older
  <2>. QED BY <2>1, <2>2 DEF Inv, TypeOK, ReqOK, Tick
<1>3. TimersOK' /\ OneTimer'
  <2>. DEFINE f(t) == [t EXCEPT !.left = IF @ = 0 THEN 0 ELSE @ - 1]
  <2>1. \A t \in Timers : f(t) \in Timers /\ f(t).id = t.id
    BY Consts DEF Timers
  <2>2. timers' = {f(t) : t \in timers} /\ UNCHANGED last_delay_timer_id
    BY DEF Tick
  <2>. HIDE DEF f
  <2>3. timers \subseteq Timers /\ last_delay_timer_id \in {0} \cup TimerIds
    BY DEF Inv, TypeOK, TimersOK
  <2>4. TimersOK'
    BY <2>1, <2>2, <2>3 DEF TimersOK
  <2>5. ASSUME NEW u \in timers' PROVE u.id = last_delay_timer_id' /\ timers' = {u}
    <3>1. PICK t \in timers : u = f(t)
      BY <2>2
    <3>2. t.id = last_delay_timer_id /\ timers = {t}
      BY DEF Inv, OneTimer
    <3>. QED BY <2>1, <2>2, <2>3, <3>1, <3>2
  <2>. QED BY <2>4, <2>5 DEF OneTimer
<1>. QED BY <1>1, <1>2, <1>3 DEF Inv, TypeOK, Tick

LEMMA AnswerInv ==
  ASSUME Inv, NEW x \in Xhrs, _on_response(x) \/ RequestFails(x)
  PROVE  Inv'
<1>1. EnvOK'
  BY SameEnv DEF Inv, TypeOK, _on_response, RequestFails
<1>2. ReqOK'
  BY DEF Inv, TypeOK, ReqOK, _on_response, RequestFails
<1>. QED BY <1>1, <1>2 DEF Inv, TypeOK, _on_response, RequestFails, TimersOK, OneTimer

LEMMA NextInv == Inv /\ [Next]_vars => Inv'
<1>. SUFFICES ASSUME Inv, [Next]_vars PROVE Inv'
  OBVIOUS
<1>0. buf \in Buffers /\ NoOthers(buf) /\ EnvOK
  BY DEF Inv, TypeOK
<1>1. ASSUME NEW op \in {"add", "set"}, NEW n \in Amounts, NEW a \in Attrs,
             ReportAttr(op, a, n)
      PROVE  Inv'
  BY <1>1, ReportAttrInv DEF Amounts
<1>2. ASSUME NEW op \in {"add", "set"}, NEW n \in Amounts, NEW s \in Strings,
             ReportStrAttr(op, s, n)
      PROVE  Inv'
  BY <1>2, ReportStrAttrInv DEF Amounts
<1>3. CASE init_log
  <2>1. EnvOK'
    BY <1>0, <1>3 DEF init_log, EnvOK
  <2>. QED BY <1>0, <1>3, <2>1, BufferedInv DEF init_log, Inv, TypeOK
<1>4. ASSUME NEW p \in Plugins, PluginLog(p) PROVE Inv'
  <2>1. Buffered(WithPluginLog(p)) /\ UNCHANGED envVars
    BY <1>4 DEF PluginLog, WithPluginLog
  <2>. QED BY <1>0, <2>1, WithPluginLogType, BufferedInv, SameEnv DEF Inv, TypeOK
<1>5. ASSUME NEW delay \in {NoDelay, ShortDelay, TryTime + 1}, PageReports(delay) PROVE Inv'
  BY <1>0, <1>5, report_to_serverInv, SameEnv, Consts DEF PageReports, NoDelay, Inv, TypeOK
<1>6. CASE _try_report_to_server
  <2>1. EnvOK'
    BY <1>0, <1>6, Consts DEF _try_report_to_server, EnvOK
  <2>. QED BY <1>6, <2>1, report_to_serverInv DEF _try_report_to_server, NoDelay, Inv, TypeOK
<1>7. CASE Json2Loaded
  <2>1. EnvOK'
    BY <1>0, <1>7, Consts DEF Json2Loaded, EnvOK
  <2>. QED BY <1>0, <1>7, <2>1, BufferedInv DEF Json2Loaded, Inv, TypeOK
<1>8. CASE UNCHANGED vars
  BY <1>8 DEF vars, envVars, reqVars, Inv, TypeOK, EnvOK, TimersOK, ReqOK, OneTimer
<1>. QED
  BY <1>1, <1>2, <1>3, <1>4, <1>5, <1>6, <1>7, <1>8, ReportLogInv, DelayFiresInv, TickInv,
     AnswerInv
  DEF Next

(* Nothing the page, the timers, the answers and the clock do changes the shape of what    *)
(* waits or leaves a timer, a number of a request or an age outside its range: no delay    *)
(* is ever longer than try_timer_ms.                                                       *)
THEOREM JsTypeCorrect == Spec => []TypeOK
BY InitInv, NextInv, PTL DEF Spec, Inv

(* last_delay_timer_id: whatever the order of reports, limits reached, refused requests,   *)
(* answers and timers that fire, there is never a second delay timer, and the one there is *)
(* can be cleared.                                                                         *)
THEOREM TimerCorrect == Spec => []TimerTracked
<1>1. Inv => TimerTracked
  <2>. SUFFICES ASSUME Inv PROVE TimerTracked
    OBVIOUS
  <2>1. CASE timers = {}
    BY <2>1, FS_EmptySet DEF TimerTracked
  <2>2. CASE timers # {}
    <3>1. PICK t \in timers : timers = {t}
      BY <2>2 DEF Inv, OneTimer
    <3>2. Cardinality(timers) = 1
      BY <3>1, FS_Singleton
    <3>. QED BY <3>2 DEF Inv, OneTimer, TimerTracked
  <2>. QED BY <2>1, <2>2
<1>. QED BY <1>1, InitInv, NextInv, PTL DEF Spec

-----------------------------------------------------------------------------
(* The refinement of Mailbox.  What waits in the buffers b: *)

WaitingIn(b) ==
  [k \in Keys |-> CASE k[1] = "attr" -> b.attrs[k[2]]
                    [] k[1] = "str"  -> b.strattrs[k[2]].first + b.strattrs[k[2]].others
                    [] k[1] = "logs" -> b.logs
                    [] OTHER         -> b.plogs[k[2]]]

LEMMA KeyFacts ==
  /\ \A a \in Attrs : <<"attr", a>> \in Keys \ Sources
  /\ \A s \in Strings : <<"str", s>> \in Keys \ Sources
  /\ <<"logs", 0>> \in Keys \cap Sources
  /\ \A p \in Plugins : <<"plogs", p>> \in Keys \cap Sources
  /\ \A k \in Keys : \/ \E a \in Attrs : k = <<"attr", a>>
                     \/ \E s \in Strings : k = <<"str", s>>
                     \/ k = <<"logs", 0>>
                     \/ \E p \in Plugins : k = <<"plogs", p>>
BY DEF Keys, Sources

LEMMA WaitingAt ==
  ASSUME NEW b
  PROVE  /\ \A a \in Attrs : WaitingIn(b)[<<"attr", a>>] = b.attrs[a]
         /\ \A s \in Strings : WaitingIn(b)[<<"str", s>>]
                                 = b.strattrs[s].first + b.strattrs[s].others
         /\ WaitingIn(b)[<<"logs", 0>>] = b.logs
         /\ \A p \in Plugins : WaitingIn(b)[<<"plogs", p>>] = b.plogs[p]
BY KeyFacts DEF WaitingIn

(* The buffers b and c agree on the keys that are not in K. *)
Agree(b, c, K) ==
  /\ \A a \in Attrs : <<"attr", a>> \notin K => c.attrs[a] = b.attrs[a]
  /\ \A s \in Strings : <<"str", s>> \notin K => c.strattrs[s] = b.strattrs[s]
  /\ <<"logs", 0>> \notin K => c.logs = b.logs
  /\ \A p \in Plugins : <<"plogs", p>> \notin K => c.plogs[p] = b.plogs[p]

LEMMA WaitingAgree ==
  ASSUME NEW b, NEW c, NEW K, Agree(b, c, K), NEW k \in Keys \ K
  PROVE  WaitingIn(c)[k] = WaitingIn(b)[k]
<1>1. CASE \E a \in Attrs : k = <<"attr", a>>
  BY <1>1, WaitingAt DEF Agree
<1>2. CASE \E s \in Strings : k = <<"str", s>>
  <2>1. PICK s \in Strings : k = <<"str", s>>
    BY <1>2
  <2>2. c.strattrs[s] = b.strattrs[s]
    BY <2>1 DEF Agree
  <2>3. WaitingIn(c)[k] = c.strattrs[s].first + c.strattrs[s].others
    BY <2>1, WaitingAt
  <2>4. WaitingIn(b)[k] = b.strattrs[s].first + b.strattrs[s].others
    BY <2>1, WaitingAt
  <2>. QED BY <2>2, <2>3, <2>4
<1>3. CASE k = <<"logs", 0>>
  BY <1>3, WaitingAt DEF Agree
<1>4. CASE \E p \in Plugins : k = <<"plogs", p>>
  BY <1>4, WaitingAt DEF Agree
<1>. QED BY <1>1, <1>2, <1>3, <1>4, KeyFacts

LEMMA WaitingFcn ==
  ASSUME NEW b
  PROVE  WaitingIn(b) = [k \in Keys |-> WaitingIn(b)[k]]
BY DEF WaitingIn

LEMMA WaitingReset ==
  ASSUME NEW b \in Buffers
  PROVE  WaitingIn(LengthsReset(b)) = WaitingIn(b)
<1>1. /\ LengthsReset(b).attrs = b.attrs /\ LengthsReset(b).strattrs = b.strattrs
      /\ LengthsReset(b).logs = b.logs /\ LengthsReset(b).plogs = b.plogs
  BY DEF LengthsReset, Buffers
<1>2. Agree(b, LengthsReset(b), {})
  BY <1>1 DEF Agree
<1>3. \A k \in Keys : WaitingIn(LengthsReset(b))[k] = WaitingIn(b)[k]
  BY <1>2, WaitingAgree
<1>. QED BY <1>3, WaitingFcn

(* The change of one key is a Reported of the abstract box. *)
LEMMA ReportedFact ==
  ASSUME NEW b, NEW c, NEW key \in Keys, NEW n,
         \A k \in Keys \ {key} : WaitingIn(c)[k] = WaitingIn(b)[k],
         \/ WaitingIn(c)[key] = WaitingIn(b)[key] + n
         \/ WaitingIn(c)[key] = n
  PROVE  WaitingIn(c) \in Box!Reported(WaitingIn(b), key, n)
<1>. DEFINE v == WaitingIn(c)[key]
<1>1. WaitingIn(c) = [WaitingIn(b) EXCEPT ![key] = v]
  BY WaitingFcn
<1>. QED BY <1>1 DEF Box!Reported

LEMMA WaitingAttr ==
  ASSUME buf \in Buffers, NEW op, NEW a \in Attrs, NEW n \in Nat
  PROVE  WaitingIn(WithAttr(op, a, n)) \in Box!Reported(WaitingIn(buf), <<"attr", a>>, n)
<1>. DEFINE c == WithAttr(op, a, n)
            key == <<"attr", a>>
<1>1. /\ c.strattrs = buf.strattrs /\ c.logs = buf.logs /\ c.plogs = buf.plogs
      /\ \A x \in Attrs \ {a} : c.attrs[x] = buf.attrs[x]
      /\ c.attrs[a] = n \/ c.attrs[a] = buf.attrs[a] + n
  BY DEF WithAttr, Buffers
<1>. HIDE DEF c
<1>2. \A k \in Keys \ {key} : WaitingIn(c)[k] = WaitingIn(buf)[k]
  <2>1. Agree(buf, c, {key})
    BY <1>1 DEF Agree
  <2>. QED BY <2>1, WaitingAgree
<1>3. WaitingIn(c)[key] = WaitingIn(buf)[key] + n \/ WaitingIn(c)[key] = n
  BY <1>1, WaitingAt
<1>. QED BY <1>2, <1>3, KeyFacts, ReportedFact DEF c

LEMMA WaitingStr ==
  ASSUME buf \in Buffers, NoOthers(buf), NEW op, NEW s \in Strings, NEW n \in Nat
  PROVE  WaitingIn(WithStr(op, s, n)) \in Box!Reported(WaitingIn(buf), <<"str", s>>, n)
<1>. DEFINE c == WithStr(op, s, n)
            key == <<"str", s>>
            old == buf.strattrs[s]
            e == NewEntry(op, s, n)
<1>1. old \in [entries : Nat, first : Nat, others : Nat]
  BY DEF Buffers
<1>2. e.first + e.others \in {n, old.first + old.others + n}
  <2>1. CASE FoundStr(s)
    <3>1. old.others = 0
      BY <2>1 DEF FoundStr, NoOthers
    <3>2. e = [old EXCEPT !.first = IF op = "set" THEN n ELSE @ + n]
      BY <2>1 DEF NewEntry, FoundStr
    <3>3. e.others = 0 /\ e.first \in {n, old.first + n}
      BY <1>1, <3>1, <3>2
    <3>. QED BY <1>1, <3>1, <3>3
  <2>2. CASE old.entries = 0
    BY <2>2 DEF NewEntry, FoundStr
  <2>3. CASE ~FoundStr(s) /\ old.entries # 0
    <3>1. e = [old EXCEPT !.entries = @ + 1, !.others = @ + n]
      BY <2>3 DEF NewEntry
    <3>2. e.first = old.first /\ e.others = old.others + n
      BY <1>1, <3>1
    <3>. QED BY <1>1, <3>2
  <2>. QED BY <2>1, <2>2, <2>3
<1>. HIDE DEF e
<1>3. /\ c.attrs = buf.attrs /\ c.logs = buf.logs /\ c.plogs = buf.plogs
      /\ \A x \in Strings \ {s} : c.strattrs[x] = buf.strattrs[x]
      /\ c.strattrs[s] = e
  BY DEF WithStr, Buffers, e
<1>. HIDE DEF c
<1>4. \A k \in Keys \ {key} : WaitingIn(c)[k] = WaitingIn(buf)[k]
  <2>1. Agree(buf, c, {key})
    BY <1>3 DEF Agree
  <2>. QED BY <2>1, WaitingAgree
<1>5. WaitingIn(c)[key] = WaitingIn(buf)[key] + n \/ WaitingIn(c)[key] = n
  BY <1>1, <1>2, <1>3, WaitingAt
<1>. QED BY <1>4, <1>5, KeyFacts, ReportedFact DEF c

LEMMA WaitingLog ==
  ASSUME buf \in Buffers
  PROVE  WaitingIn(WithLog) \in Box!Reported(WaitingIn(buf), <<"logs", 0>>, 1)
<1>. DEFINE key == <<"logs", 0>>
<1>1. /\ WithLog.attrs = buf.attrs /\ WithLog.strattrs = buf.strattrs
      /\ WithLog.plogs = buf.plogs /\ WithLog.logs = buf.logs + 1
  BY DEF WithLog, Buffers
<1>2. \A k \in Keys \ {key} : WaitingIn(WithLog)[k] = WaitingIn(buf)[k]
  <2>1. Agree(buf, WithLog, {key})
    BY <1>1 DEF Agree
  <2>. QED BY <2>1, WaitingAgree
<1>3. WaitingIn(WithLog)[key] = WaitingIn(buf)[key] + 1
  BY <1>1, WaitingAt
<1>. QED BY <1>2, <1>3, KeyFacts, ReportedFact

LEMMA WaitingPluginLog ==
  ASSUME buf \in Buffers, NEW p \in Plugins
  PROVE  WaitingIn(WithPluginLog(p)) \in Box!Reported(WaitingIn(buf), <<"plogs", p>>, 1)
<1>. DEFINE key == <<"plogs", p>>
            c == WithPluginLog(p)
<1>1. /\ c.attrs = buf.attrs /\ c.strattrs = buf.strattrs /\ c.logs = buf.logs
      /\ \A q \in Plugins \ {p} : c.plogs[q] = buf.plogs[q]
      /\ c.plogs[p] = buf.plogs[p] + 1
  BY DEF WithPluginLog, Buffers
<1>. HIDE DEF c
<1>2. \A k \in Keys \ {key} : WaitingIn(c)[k] = WaitingIn(buf)[k]
  <2>1. Agree(buf, c, {key})
    BY <1>1 DEF Agree
  <2>. QED BY <2>1, WaitingAgree
<1>3. WaitingIn(c)[key] = WaitingIn(buf)[key] + 1
  BY <1>1, WaitingAt
<1>. QED BY <1>2, <1>3, KeyFacts, ReportedFact DEF c

(* A set of numbers has a least one: the first plugin with logs exists. *)
LEMMA LeastNat ==
  ASSUME NEW S, S \subseteq Nat, S # {}
  PROVE  \E m \in S : \A n \in S : m <= n
<1>. DEFINE R == OpToRel(<, Nat)
<1>1. \A m, n \in Nat : m < n => <<m, n>> \in R
  BY DEF OpToRel
<1>2. IsWellFoundedOn(R, Nat)
  BY NatLessThanWellFounded
<1>. HIDE DEF R
<1>3. PICK m \in S : \A n \in S : ~ (<<n, m>> \in R)
  BY <1>2, WFMin
<1>4. ASSUME NEW n \in S PROVE m <= n
  <2>1. ~(n < m)
    BY <1>1, <1>3
  <2>. QED BY <2>1
<1>. QED BY <1>4

(* What a request leaves is a Rest of the abstract box: all points and strings are taken,  *)
(* and the logs of one source, whole.                                                      *)
LEMMA WaitingTaken ==
  ASSUME NEW b \in Buffers
  PROVE  \E src \in Sources : WaitingIn(Taken(b)) = Box!Rest(WaitingIn(b), src)
<1>. DEFINE first == b.logs = 0 /\ LogPlugins(b) # {}
            src == IF first THEN <<"plogs", FirstPlugin(b)>> ELSE <<"logs", 0>>
            c == Taken(b)
<1>1. first => FirstPlugin(b) \in Plugins
  <2>. SUFFICES ASSUME LogPlugins(b) # {} PROVE FirstPlugin(b) \in LogPlugins(b)
    BY DEF LogPlugins
  <2>1. \E p \in LogPlugins(b) : \A q \in LogPlugins(b) : p <= q
    <3>1. LogPlugins(b) \subseteq Nat
      BY Consts DEF LogPlugins, Plugins
    <3>. QED BY <3>1, LeastNat
  <2>. QED BY <2>1 DEF FirstPlugin
<1>2. src \in Sources
  BY <1>1, KeyFacts
<1>3. /\ \A a \in Attrs : c.attrs[a] = 0
      /\ \A s \in Strings : c.strattrs[s].first = 0 /\ c.strattrs[s].others = 0
      /\ c.logs = 0
      /\ c.plogs = IF first THEN [b.plogs EXCEPT ![FirstPlugin(b)] = 0] ELSE b.plogs
  BY DEF Taken, EmptyBuf, NoEntry
<1>4. /\ b.plogs \in [Plugins -> Nat]
      /\ \A p \in Plugins : c.plogs[p] = IF <<"plogs", p>> = src THEN 0 ELSE b.plogs[p]
      /\ <<"logs", 0>> # src => b.logs = 0
  BY <1>3 DEF Buffers
<1>. HIDE DEF c, src
<1>5. ASSUME NEW k \in Keys
      PROVE  WaitingIn(c)[k] = IF k \in Sources \ {src} THEN WaitingIn(b)[k] ELSE 0
  <2>1. CASE \E a \in Attrs : k = <<"attr", a>>
    <3>1. PICK a \in Attrs : k = <<"attr", a>>
      BY <2>1
    <3>2. WaitingIn(c)[k] = c.attrs[a]
      BY <3>1, WaitingAt
    <3>. QED BY <1>3, <3>1, <3>2, KeyFacts
  <2>2. CASE \E s \in Strings : k = <<"str", s>>
    <3>1. PICK s \in Strings : k = <<"str", s>>
      BY <2>2
    <3>2. WaitingIn(c)[k] = c.strattrs[s].first + c.strattrs[s].others
      BY <3>1, WaitingAt
    <3>. QED BY <1>3, <3>1, <3>2, KeyFacts
  <2>3. CASE k = <<"logs", 0>>
    BY <1>3, <1>4, <2>3, WaitingAt, KeyFacts
  <2>4. CASE \E p \in Plugins : k = <<"plogs", p>>
    <3>1. PICK p \in Plugins : k = <<"plogs", p>>
      BY <2>4
    <3>2. WaitingIn(c)[k] = c.plogs[p] /\ WaitingIn(b)[k] = b.plogs[p]
      BY <3>1, WaitingAt
    <3>. QED BY <1>4, <3>1, <3>2, KeyFacts
  <2>. QED BY <2>1, <2>2, <2>3, <2>4, KeyFacts
<1>6. WaitingIn(c) = Box!Rest(WaitingIn(b), src)
  BY <1>5, WaitingFcn DEF Box!Rest
<1>. QED BY <1>2, <1>6 DEF c

(* _report_to_server as a step of the box: nothing, or a request. *)
LEMMA ReportMaps ==
  ASSUME ReqOK, NEW b \in Buffers, NEW T, NEW id, NEW seq, NEW delay,
         _report_to_server(b, T, id, seq, delay)
  PROVE  \/ /\ WaitingIn(buf') = WaitingIn(b)
            /\ last_req_seq' = seq /\ req_seq' = req_seq
         \/ /\ seq = 0
            /\ \E src \in Sources : WaitingIn(buf') = Box!Rest(WaitingIn(b), src)
            /\ (last_req_seq' # 0) <=> (req_seq # 0)
            /\ req_seq' = 1
<1>1. CASE Deferred(b, T, id, seq, delay)
  BY <1>1 DEF Deferred, reqVars
<1>2. CASE NotSent(b, T, id, seq, delay)
  BY <1>2, WaitingReset DEF NotSent, reqVars
<1>3. CASE Refused(b, T, id, seq, delay)
  BY <1>3, WaitingReset DEF Refused
<1>4. CASE Sent(b, T, id, seq, delay)
  <2>1. FreeXhr # 0
    BY FreeXhrFact, Consts DEF Xhrs
  <2>2. /\ seq = 0 /\ req_seq' = 1 /\ buf' = Taken(b)
        /\ last_req_seq' = IF req_seq = 0 THEN 0 ELSE FreeXhr
    BY <1>4 DEF Sent, Direct
  <2>. QED BY <2>1, <2>2, WaitingTaken
<1>. QED BY <1>1, <1>2, <1>3, <1>4 DEF _report_to_server

(* A request number stays what it is, or a request was sent, or one was forgotten. *)
StaysBusy == last_req_seq' = last_req_seq /\ req_seq' = req_seq
Requested == ((last_req_seq' # 0) <=> (req_seq # 0)) /\ req_seq' = 1

LEMMA WaitingBuf == Waiting = WaitingIn(buf) /\ Waiting' = WaitingIn(buf')
BY DEF Waiting, WaitingIn

LEMMA StutterMaps ==
  ASSUME WaitingIn(buf') = WaitingIn(buf), StaysBusy
  PROVE  UNCHANGED Box!boxVars
<1>1. Waiting' = Waiting
  BY WaitingBuf
<1>2. (last_req_seq # 0)' = (last_req_seq # 0) /\ (req_seq # 0)' = (req_seq # 0)
  BY DEF StaysBusy
<1>. QED BY <1>1, <1>2 DEF Box!boxVars

LEMMA PutMaps ==
  ASSUME NEW k \in Keys, NEW n \in Amounts,
         WaitingIn(buf') \in Box!Reported(WaitingIn(buf), k, n), StaysBusy
  PROVE  Box!Next
<1>1. Waiting' \in Box!Reported(Waiting, k, n)
  BY WaitingBuf
<1>2. (last_req_seq # 0)' = (last_req_seq # 0) /\ (req_seq # 0)' = (req_seq # 0)
  BY DEF StaysBusy
<1>3. Box!Put(k, n)
  BY <1>1, <1>2 DEF Box!Put
<1>. QED BY <1>3 DEF Box!Next

LEMMA RequestMaps ==
  ASSUME NEW p, NEW src, WaitingIn(buf') = Box!Rest(p, src), Requested
  PROVE  Box!Request(p, src)
<1>1. Waiting' = Box!Rest(p, src)
  BY WaitingBuf
<1>2. (last_req_seq # 0)' = (req_seq # 0) /\ (req_seq # 0)' = TRUE
  BY DEF Requested
<1>. QED BY <1>1, <1>2 DEF Box!Request

(* A call of the page that puts something into the box and finds a limit reached. *)
LEMMA PutReportMaps ==
  ASSUME ReqOK, NEW k \in Keys, NEW n \in Amounts, NEW b \in Buffers,
         WaitingIn(b) \in Box!Reported(WaitingIn(buf), k, n),
         NEW T, NEW id, _report_to_server(b, T, id, last_req_seq, NoDelay)
  PROVE  Box!Next
<1>1. CASE WaitingIn(buf') = WaitingIn(b) /\ StaysBusy
  BY <1>1, PutMaps
<1>2. CASE /\ last_req_seq = 0
           /\ \E src \in Sources : WaitingIn(buf') = Box!Rest(WaitingIn(b), src)
           /\ Requested
  <2>1. PICK src \in Sources : WaitingIn(buf') = Box!Rest(WaitingIn(b), src)
    BY <1>2
  <2>2. Box!Request(WaitingIn(b), src)
    BY <1>2, <2>1, RequestMaps
  <2>3. WaitingIn(b) \in Box!Reported(Waiting, k, n) /\ ~(last_req_seq # 0)
    BY <1>2, WaitingBuf
  <2>4. Box!PutAndTake(k, n, src)
    BY <2>2, <2>3 DEF Box!PutAndTake
  <2>. QED BY <2>4 DEF Box!Next
<1>. QED BY <1>1, <1>2, ReportMaps DEF StaysBusy, Requested

(* A report that puts nothing into the box, with the number of the last request or without *)
(* it, when that request is forgotten.                                                     *)
LEMMA TakeMaps ==
  ASSUME ReqOK, buf \in Buffers, NEW T, NEW id, NEW seq \in {0, last_req_seq}, NEW delay,
         _report_to_server(buf, T, id, seq, delay)
  PROVE  Box!Next \/ UNCHANGED Box!boxVars
<1>1. CASE WaitingIn(buf') = WaitingIn(buf) /\ StaysBusy
  BY <1>1, StutterMaps
<1>2. CASE /\ WaitingIn(buf') = WaitingIn(buf) /\ last_req_seq # 0 /\ last_req_seq' = 0
           /\ req_seq' = req_seq
  <2>1. Waiting' = Waiting
    BY <1>2, WaitingBuf
  <2>2. (last_req_seq # 0)' = FALSE /\ (req_seq # 0)' = (req_seq # 0)
    BY <1>2
  <2>3. Box!Release
    BY <1>2, <2>1, <2>2 DEF Box!Release
  <2>. QED BY <2>3 DEF Box!Next
<1>3. CASE /\ \E src \in Sources : WaitingIn(buf') = Box!Rest(WaitingIn(buf), src)
           /\ Requested
  <2>1. PICK src \in Sources : WaitingIn(buf') = Box!Rest(Waiting, src)
    BY <1>3, WaitingBuf
  <2>2. Box!Request(Waiting, src)
    BY <1>3, <2>1, RequestMaps
  <2>3. CASE last_req_seq = 0
    <3>1. Box!Take(src)
      BY <2>2, <2>3 DEF Box!Take
    <3>. QED BY <3>1 DEF Box!Next
  <2>4. CASE last_req_seq # 0
    <3>1. Box!ReleaseAndTake(src)
      BY <2>2, <2>4 DEF Box!ReleaseAndTake
    <3>. QED BY <3>1 DEF Box!Next
  <2>. QED BY <2>3, <2>4
<1>. QED BY <1>1, <1>2, <1>3, ReportMaps DEF StaysBusy, Requested

LEMMA BufferedSame ==
  ASSUME NEW b, Buffered(b)
  PROVE  StaysBusy /\ buf' = b
BY DEF Buffered, reqVars, StaysBusy

LEMMA report_to_serverMaps ==
  ASSUME ReqOK, buf \in Buffers, NEW delay, report_to_server(delay)
  PROVE  Box!Next \/ UNCHANGED Box!boxVars
<1>1. CASE _report_to_server(buf, clearTimeout(timers, last_delay_timer_id), 0, 0, NoDelay)
  BY <1>1, TakeMaps
<1>2. CASE Buffered(buf)
  BY <1>2, BufferedSame, StutterMaps
<1>. DEFINE d == CASE delay = NoDelay    -> ShortDelay
                   [] delay >= TryTime   -> TryTime
                   [] OTHER              -> delay
<1>3. CASE _report_to_server(buf, timers, 0, last_req_seq, d)
  <2>. HIDE DEF d
  <2>. QED BY <1>3, TakeMaps
<1>. QED BY <1>1, <1>2, <1>3 DEF report_to_server

LEMMA InitMaps == Init => Box!Init
<1>. SUFFICES ASSUME Init PROVE Box!Init
  OBVIOUS
<1>1. \A k \in Keys : WaitingIn(EmptyBuf)[k] = 0
  <2>1. /\ \A a \in Attrs : EmptyBuf.attrs[a] = 0
        /\ \A s \in Strings : EmptyBuf.strattrs[s] = NoEntry
        /\ EmptyBuf.logs = 0
        /\ \A p \in Plugins : EmptyBuf.plogs[p] = 0
    BY DEF EmptyBuf
  <2>2. \A s \in Strings : WaitingIn(EmptyBuf)[<<"str", s>>] = 0
    <3>. SUFFICES ASSUME NEW s \in Strings PROVE WaitingIn(EmptyBuf)[<<"str", s>>] = 0
      OBVIOUS
    <3>1. WaitingIn(EmptyBuf)[<<"str", s>>]
            = EmptyBuf.strattrs[s].first + EmptyBuf.strattrs[s].others
      BY WaitingAt
    <3>. QED BY <2>1, <3>1 DEF NoEntry
  <2>3. /\ \A a \in Attrs : WaitingIn(EmptyBuf)[<<"attr", a>>] = 0
        /\ WaitingIn(EmptyBuf)[<<"logs", 0>>] = 0
        /\ \A p \in Plugins : WaitingIn(EmptyBuf)[<<"plogs", p>>] = 0
    <3>1. /\ \A a \in Attrs : WaitingIn(EmptyBuf)[<<"attr", a>>] = EmptyBuf.attrs[a]
          /\ WaitingIn(EmptyBuf)[<<"logs", 0>>] = EmptyBuf.logs
          /\ \A p \in Plugins : WaitingIn(EmptyBuf)[<<"plogs", p>>] = EmptyBuf.plogs[p]
      BY WaitingAt
    <3>. HIDE DEF EmptyBuf
    <3>. QED BY <2>1, <3>1
  <2>. QED BY <2>2, <2>3, KeyFacts
<1>2. WaitingIn(EmptyBuf) = [k \in Keys |-> 0]
  BY <1>1, WaitingFcn
<1>3. Waiting = [k \in Keys |-> 0]
  BY <1>2, WaitingBuf DEF Init
<1>4. last_req_seq = 0
  BY DEF Init
<1>. QED BY <1>3, <1>4 DEF Box!Init

LEMMA NextMaps == Inv /\ [Next]_vars => [Box!Next]_(Box!boxVars)
<1>. SUFFICES ASSUME Inv, [Next]_vars PROVE Box!Next \/ UNCHANGED Box!boxVars
  OBVIOUS
<1>0. buf \in Buffers /\ NoOthers(buf) /\ ReqOK /\ 1 \in Amounts
  BY DEF Inv, TypeOK, Amounts
<1>1. ASSUME NEW op \in {"add", "set"}, NEW n \in Amounts, NEW a \in Attrs,
             ReportAttr(op, a, n)
      PROVE  Box!Next
  <2>1. /\ WithAttr(op, a, n) \in Buffers /\ <<"attr", a>> \in Keys
        /\ WaitingIn(WithAttr(op, a, n)) \in Box!Reported(WaitingIn(buf), <<"attr", a>>, n)
    BY <1>0, WithAttrType, WaitingAttr, KeyFacts DEF Amounts
  <2>2. CASE Buffered(WithAttr(op, a, n))
    BY <2>1, <2>2, BufferedSame, PutMaps
  <2>3. CASE _report_to_server(WithAttr(op, a, n), clearTimeout(timers, last_delay_timer_id),
                               last_delay_timer_id, last_req_seq, NoDelay)
    BY <1>0, <2>1, <2>3, PutReportMaps
  <2>. QED BY <1>1, <2>2, <2>3 DEF ReportAttr, WithAttr
<1>2. ASSUME NEW op \in {"add", "set"}, NEW n \in Amounts, NEW s \in Strings,
             ReportStrAttr(op, s, n)
      PROVE  Box!Next
  <2>1. /\ WithStr(op, s, n) \in Buffers /\ <<"str", s>> \in Keys
        /\ WaitingIn(WithStr(op, s, n)) \in Box!Reported(WaitingIn(buf), <<"str", s>>, n)
    BY <1>0, WithStrType, WaitingStr, KeyFacts DEF Amounts
  <2>2. CASE Buffered(WithStr(op, s, n))
    BY <2>1, <2>2, BufferedSame, PutMaps
  <2>3. CASE _report_to_server(WithStr(op, s, n), clearTimeout(timers, last_delay_timer_id),
                               last_delay_timer_id, last_req_seq, NoDelay)
    BY <1>0, <2>1, <2>3, PutReportMaps
  <2>. QED BY <1>2, <2>2, <2>3 DEF ReportStrAttr, WithStr, NewEntry, FoundStr
<1>3. CASE ReportLog
  <2>1. /\ WithLog \in Buffers /\ <<"logs", 0>> \in Keys
        /\ WaitingIn(WithLog) \in Box!Reported(WaitingIn(buf), <<"logs", 0>>, 1)
    BY <1>0, WithLogType, WaitingLog, KeyFacts
  <2>2. CASE Buffered(buf)
    BY <2>2, BufferedSame, StutterMaps
  <2>3. CASE Buffered(WithLog)
    BY <1>0, <2>1, <2>3, BufferedSame, PutMaps
  <2>4. CASE _report_to_server(WithLog, clearTimeout(timers, last_delay_timer_id), 0,
                               last_req_seq, NoDelay)
    BY <1>0, <2>1, <2>4, PutReportMaps
  <2>. QED BY <1>3, <2>2, <2>3, <2>4 DEF ReportLog, WithLog
<1>4. CASE init_log
  BY <1>4, BufferedSame, StutterMaps DEF init_log
<1>5. ASSUME NEW p \in Plugins, PluginLog(p) PROVE Box!Next
  <2>1. Buffered(WithPluginLog(p))
    BY <1>5 DEF PluginLog, WithPluginLog
  <2>. QED BY <1>0, <2>1, BufferedSame, WaitingPluginLog, KeyFacts, PutMaps
<1>6. ASSUME NEW delay, PageReports(delay) PROVE Box!Next \/ UNCHANGED Box!boxVars
  BY <1>0, <1>6, report_to_serverMaps DEF PageReports
<1>7. CASE _try_report_to_server
  BY <1>0, <1>7, report_to_serverMaps DEF _try_report_to_server
<1>8. ASSUME NEW t \in timers, DelayFires(t) PROVE Box!Next \/ UNCHANGED Box!boxVars
  <2>. DEFINE seq == IF requestAge >= ReqTimeout THEN 0 ELSE last_req_seq
  <2>1. CASE _report_to_server(buf, timers \ {t}, 0, seq, NoDelay)
    <3>1. seq \in {0, last_req_seq}
      OBVIOUS
    <3>. HIDE DEF seq
    <3>. QED BY <1>0, <2>1, <3>1, TakeMaps
  <2>2. CASE UNCHANGED <<reqVars, buf, last_delay_timer_id, last_req_seq>>
    <3>1. StaysBusy /\ buf' = buf
      BY <2>2 DEF reqVars, StaysBusy
    <3>. QED BY <3>1, StutterMaps
  <2>. QED BY <1>8, <2>1, <2>2 DEF DelayFires
<1>9. ASSUME NEW x \in Xhrs, _on_response(x) PROVE Box!Next \/ UNCHANGED Box!boxVars
  <2>1. buf' = buf /\ last_req_seq' = 0 /\ req_seq' = req_seq
    BY <1>9 DEF _on_response
  <2>2. CASE last_req_seq = 0
    BY <2>1, <2>2, StutterMaps DEF StaysBusy
  <2>3. CASE last_req_seq # 0
    <3>1. Waiting' = Waiting
      BY <2>1, WaitingBuf
    <3>2. (last_req_seq # 0)' = FALSE /\ (req_seq # 0)' = (req_seq # 0)
      BY <2>1
    <3>3. Box!Release
      BY <2>3, <3>1, <3>2 DEF Box!Release
    <3>. QED BY <3>3 DEF Box!Next
  <2>. QED BY <2>2, <2>3
<1>10. ASSUME NEW x \in Xhrs, RequestFails(x) PROVE UNCHANGED Box!boxVars
  BY <1>10, StutterMaps DEF RequestFails, StaysBusy
<1>11. CASE Json2Loaded
  BY <1>11, BufferedSame, StutterMaps DEF Json2Loaded
<1>12. CASE Tick
  BY <1>12, StutterMaps DEF Tick, StaysBusy
<1>13. CASE UNCHANGED vars
  BY <1>13, StutterMaps DEF vars, reqVars, StaysBusy
<1>. QED
  BY <1>1, <1>2, <1>3, <1>4, <1>5, <1>6, <1>7, <1>8, <1>9, <1>10, <1>11, <1>12, <1>13
  DEF Next

(* dmt_xrkmonitor.js implements the box: every number the page reports waits until one     *)
(* request takes it whole, whether requests are refused, put off, lost or forgotten.  This *)
(* holds for any limits, delays and number of plugins.                                     *)
THEOREM MailboxCorrect == Spec => RefinesMailbox
<1>1. Init => Box!Init
  BY InitMaps
<1>2. Inv /\ [Next]_vars => [Box!Next]_(Box!boxVars)
  BY NextMaps
<1>. QED BY <1>1, <1>2, InitInv, NextInv, PTL DEF Spec, RefinesMailbox, Box!Spec

====
