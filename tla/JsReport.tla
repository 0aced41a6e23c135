------------------------------ MODULE JsReport ------------------------------
(***************************************************************************)
(* The reporting interface for web pages, language/javascript/             *)
(* dmt_xrkmonitor.js: the object "xrk" that a page calls to report points, *)
(* string points and logs, the timers it sets and the requests it sends.   *)
(*                                                                         *)
(* A page runs one handler at a time, so that every call of the page,      *)
(* every timer and every answer is one action.  The code reads the clock   *)
(* only to compare it with a time it noted before: the model keeps the age *)
(* of what was noted, and timers keep the time they have left.  A timer    *)
(* fires when its time has come or later, as in a page that is busy or in  *)
(* the background.                                                         *)
(*                                                                         *)
(* Every stored string and every log has length 1.  A request number is    *)
(* the number of its XMLHttpRequest object: the code uses req_seq and      *)
(* last_req_seq only to tell zero from the rest.                           *)
(***************************************************************************)
EXTENDS Integers, FiniteSets

CONSTANTS
  Attrs,       \* points
  Strings,     \* a string point with its string
  Long,        \* those whose string is longer than the 50 characters that are stored
  NPlugins,    \* plugins loaded into the page
  MaxAttrs,    \* max_attrs_per_req
  MaxStr,      \* max_strattrs_strlen
  MaxLogs,     \* max_logs_strlen
  ShortDelay,  \* the delays of 50 and 100 ms
  RetryDelay,  \* the delay after a refused request, 500 ms
  TryTime,     \* try_timer_ms
  FreqTime,    \* freq_check_time
  FreqLimit,   \* freq_check_limit_times
  ReqTimeout,  \* request_timeout_ms
  NXhr,        \* bound: requests without an answer
  MaxNum,      \* bound: number waiting for a point
  MaxOther,    \* bound: number waiting for a string, logs of a plugin
  LogCap       \* bound: logs of the page that wait

ASSUME ConstantsOK ==
  /\ Long \subseteq Strings
  /\ {NPlugins, MaxAttrs, MaxStr, MaxLogs, ShortDelay, RetryDelay, TryTime, FreqTime,
      FreqLimit, ReqTimeout, NXhr, MaxNum, MaxOther, LogCap} \subseteq Nat
  /\ ShortDelay \in 1..TryTime /\ RetryDelay \in 1..TryTime
  /\ NXhr >= 2   \* a new request beside the last one

Plugins == 1..NPlugins
Sources == {<<"logs", 0>>} \cup ({"plogs"} \X Plugins)   \* lists of logs
Amounts == {1}
Xhrs == 1..NXhr
TimerIds == 1..2

VARIABLES
  page,                 \* how _init ended: "failed", "json2" (waits for the script), "ready"
  json,                 \* JSON.stringify is there
  xhrOk,                \* an XMLHttpRequest can be made
  log_config_id,        \* 0: not set
  buf,                  \* what waits to be sent, and the lengths counted so far
  timers,               \* delay timers that have not fired
  last_delay_timer_id,
  tryTimer,             \* time left of the periodic timer, -1 when there is none
  req_seq,              \* 0, or 1 for every later number
  last_req_seq,
  latest,               \* the last request that was sent, 0 when none
  out,                  \* requests whose answer may still come
  requestAge,           \* time since request_start_time, -1 when it is 0
  freqAge,              \* time since freq_send_start_time, -1 when it is 0
  freq_request_times    \* beyond FreqLimit it is not counted further

envVars == <<page, json, xhrOk, log_config_id, tryTimer>>
reqVars == <<req_seq, latest, out, requestAge, freqAge, freq_request_times>>
vars == <<envVars, reqVars, buf, timers, last_delay_timer_id, last_req_seq>>

NoDelay == 0

(* The entries stored for a string: how many, the number of the first and the sum of the
   others.  Only the first one found is ever changed. *)
NoEntry == [entries |-> 0, first |-> 0, others |-> 0]

EmptyBuf ==
  [attrs |-> [a \in Attrs |-> 0], strattrs |-> [s \in Strings |-> NoEntry],
   logs |-> 0, plogs |-> [p \in Plugins |-> 0],
   cur_logs_strlen |-> 0, cur_strattrs_strlen |-> 0]

Buffers ==
  [attrs : [Attrs -> Nat], logs : Nat,
   strattrs : [Strings -> [entries : Nat, first : Nat, others : Nat]],
   plogs : [Plugins -> Nat], cur_logs_strlen : Nat, cur_strattrs_strlen : Nat]

Timers == [id : TimerIds, does : {"report", "nothing"}, left : 0..TryTime]

EnvOK ==
  /\ page \in {"failed", "json2", "ready"}
  /\ json \in BOOLEAN /\ xhrOk \in BOOLEAN
  /\ log_config_id \in {0, 1}
  /\ tryTimer \in {-1} \cup 0..TryTime

TimersOK == timers \subseteq Timers /\ last_delay_timer_id \in {0} \cup TimerIds

ReqOK ==
  /\ req_seq \in {0, 1}
  /\ last_req_seq \in {0} \cup Xhrs
  /\ latest \in {0} \cup Xhrs
  /\ out \subseteq Xhrs
  /\ requestAge \in {-1} \cup 0..ReqTimeout
  /\ freqAge \in {-1} \cup 0..(FreqTime + 1)
  /\ freq_request_times \in Nat

(* No delay is longer than the period of the timer, try_timer_ms, and no list of what waits
   is left in another shape. *)
TypeOK == EnvOK /\ buf \in Buffers /\ TimersOK /\ ReqOK

-----------------------------------------------------------------------------
(* Timers. *)

(* clearTimeout: the timer with this number does not fire any more. *)
clearTimeout(T, id) == {t \in T : t.id # id}

(* setTimeout, called when last_delay_timer_id is 0: the new timer has a number of its own. *)
FreshId(T) == CHOOSE i \in TimerIds : \A t \in T : t.id # i

setTimeout(T, does, delay) ==
  /\ timers' = T \cup {[id |-> FreshId(T), does |-> does, left |-> delay]}
  /\ last_delay_timer_id' = FreshId(T)

-----------------------------------------------------------------------------
(* What waits. *)

PendingAttrs(b) == {a \in Attrs : b.attrs[a] # 0}

LogPlugins(b) == {p \in Plugins : b.plogs[p] # 0}

FirstPlugin(b) == CHOOSE p \in LogPlugins(b) : \A q \in LogPlugins(b) : p <= q

NeedReport(b) ==
  \/ b.logs # 0
  \/ LogPlugins(b) # {}
  \/ PendingAttrs(b) # {}
  \/ \E s \in Strings : b.strattrs[s].entries # 0

(* The lengths are reset whether or not anything is sent. *)
LengthsReset(b) == [b EXCEPT !.cur_logs_strlen = 0, !.cur_strattrs_strlen = 0]

(* A request takes all points and strings, and the page's logs or, when there are none, the
   logs of the first plugin that has some. *)
Taken(b) ==
  [EmptyBuf EXCEPT
     !.plogs = IF b.logs = 0 /\ LogPlugins(b) # {}
               THEN [b.plogs EXCEPT ![FirstPlugin(b)] = 0]
               ELSE b.plogs]

-----------------------------------------------------------------------------
(* _report_to_server(delay), called with the buffers b, the timers T, the timer number id   *)
(* and the request number seq that its caller left.                                         *)

Deferred(b, T, id, seq, delay) ==
  /\ delay # NoDelay \/ seq # 0
  /\ IF id = 0
     THEN setTimeout(T, "report", IF delay = NoDelay THEN ShortDelay ELSE delay)
     ELSE timers' = T /\ last_delay_timer_id' = id
  /\ buf' = b
  /\ last_req_seq' = seq
  /\ UNCHANGED reqVars

Direct(delay, seq) == delay = NoDelay /\ seq = 0

NotSent(b, T, id, seq, delay) ==
  /\ Direct(delay, seq)
  /\ ~NeedReport(b) \/ ~json \/ ~xhrOk
  /\ buf' = LengthsReset(b)
  /\ timers' = clearTimeout(T, id)
  /\ last_delay_timer_id' = 0
  /\ last_req_seq' = seq
  /\ UNCHANGED reqVars

(* The test for frequent requests in _to_server. *)
NewPeriod == freqAge = -1 \/ freqAge > FreqTime

TooOften == ~NewPeriod /\ freqAge < FreqTime /\ freq_request_times >= FreqLimit

(* A fault: the buffers are emptied although the request was refused. *)
RefusedEmptied(b, T, id, seq, delay) ==
  /\ Direct(delay, seq)
  /\ NeedReport(b) /\ json /\ xhrOk
  /\ TooOften
  /\ buf' = Taken(b)
  /\ setTimeout(clearTimeout(T, id), "nothing", RetryDelay)
  /\ requestAge' = 0
  /\ last_req_seq' = seq
  /\ UNCHANGED <<req_seq, latest, out, freqAge, freq_request_times>>

(* The timer set here calls a method of p_self.self_xrk, which does not exist: when it
   fires it throws and changes nothing. *)
Refused(b, T, id, seq, delay) ==
  /\ Direct(delay, seq)
  /\ NeedReport(b) /\ json /\ xhrOk
  /\ TooOften
  /\ buf' = LengthsReset(b)
  /\ setTimeout(clearTimeout(T, id), "nothing", RetryDelay)
  /\ requestAge' = 0
  /\ last_req_seq' = seq
  /\ UNCHANGED <<req_seq, latest, out, freqAge, freq_request_times>>

(* The object of a new request.  A request beyond the bound NXhr takes the place of an older
   one, which then is never answered. *)
FreeXhr ==
  CHOOSE x \in Xhrs : x # latest /\ (x \notin out \/ Xhrs \ {latest} \subseteq out)

(* _to_server: open or send may throw, which is caught; then no answer comes.  The buffers
   are emptied in both cases. *)
Sent(b, T, id, seq, delay) ==
  /\ Direct(delay, seq)
  /\ NeedReport(b) /\ json /\ xhrOk
  /\ ~TooOften
  /\ requestAge' = 0
  /\ freqAge' = IF NewPeriod THEN 0 ELSE freqAge
  /\ freq_request_times' = CASE NewPeriod -> 1
                             [] freq_request_times >= FreqLimit -> freq_request_times
                             [] OTHER -> freq_request_times + 1
  /\ LET x == FreeXhr
     IN /\ last_req_seq' = IF req_seq = 0 THEN 0 ELSE x
        /\ latest' = x
        /\ out' \in {out \ {x}, out \cup {x}}
  /\ req_seq' = 1
  /\ buf' = Taken(b)
  /\ timers' = clearTimeout(T, id)
  /\ last_delay_timer_id' = 0

_report_to_server(b, T, id, seq, delay) ==
  \/ Deferred(b, T, id, seq, delay)
  \/ NotSent(b, T, id, seq, delay)
  \/ Refused(b, T, id, seq, delay)
  \/ Sent(b, T, id, seq, delay)

-----------------------------------------------------------------------------
(* The page's calls. *)

Buffered(b) ==
  /\ buf' = b
  /\ UNCHANGED <<reqVars, timers, last_delay_timer_id, last_req_seq>>

(* report_attr_add and report_attr_set.  Only a point that was not waiting can reach the
   limit.  The timer is cleared and its number kept. *)
ReportAttr(op, a, n) ==
  LET old == buf.attrs[a]
      b == [buf EXCEPT !.attrs[a] = IF op = "set" THEN n ELSE old + n]
  IN /\ b.attrs[a] <= MaxNum
     /\ \/ /\ old # 0 \/ Cardinality(PendingAttrs(b)) < MaxAttrs
           /\ Buffered(b)
        \/ /\ old = 0 /\ Cardinality(PendingAttrs(b)) >= MaxAttrs
           /\ _report_to_server(b, clearTimeout(timers, last_delay_timer_id),
                                last_delay_timer_id, last_req_seq, NoDelay)
     /\ UNCHANGED envVars

(* report_strattr_add and report_strattr_set.  The whole string is compared with the stored
   ones, which were cut to 50 characters: a longer one is never found. *)
ReportStrAttr(op, s, n) ==
  LET old == buf.strattrs[s]
      found == old.entries # 0 /\ s \notin Long
      new == CASE found            -> [old EXCEPT !.first = IF op = "set" THEN n ELSE @ + n]
               [] old.entries = 0  -> [entries |-> 1, first |-> n, others |-> 0]
               [] OTHER            -> [old EXCEPT !.entries = @ + 1, !.others = @ + n]
      b == [buf EXCEPT !.strattrs[s] = new,
                       !.cur_strattrs_strlen = IF found THEN @ ELSE @ + 1]
  IN /\ new.first + new.others <= MaxOther
     /\ \/ /\ found \/ b.cur_strattrs_strlen < MaxStr
           /\ Buffered(b)
        \/ /\ ~found /\ b.cur_strattrs_strlen >= MaxStr
           /\ _report_to_server(b, clearTimeout(timers, last_delay_timer_id),
                                last_delay_timer_id, last_req_seq, NoDelay)
     /\ UNCHANGED envVars

(* report_error_log and the others, _report_log: here the timer's number is reset too. *)
ReportLog ==
  LET b == [buf EXCEPT !.logs = @ + 1, !.cur_logs_strlen = @ + 1]
  IN /\ b.logs <= LogCap
     /\ \/ log_config_id = 0 /\ Buffered(buf)
        \/ /\ log_config_id # 0
           /\ b.cur_logs_strlen < MaxLogs
           /\ Buffered(b)
        \/ /\ log_config_id # 0
           /\ b.cur_logs_strlen >= MaxLogs
           /\ _report_to_server(b, clearTimeout(timers, last_delay_timer_id), 0,
                                last_req_seq, NoDelay)
     /\ UNCHANGED envVars

(* init_log, open_init_report and cloud_init_report. *)
init_log ==
  /\ log_config_id = 0
  /\ log_config_id' = 1
  /\ UNCHANGED <<page, json, xhrOk, tryTimer>>
  /\ Buffered(buf)

(* External: a plugin appends a log to its own list. *)
PluginLog(p) ==
  /\ buf.plogs[p] < MaxOther
  /\ Buffered([buf EXCEPT !.plogs[p] = @ + 1])
  /\ UNCHANGED envVars

(* A fault: a long delay is not cut. *)
ReportUncut(delay) ==
  \/ /\ Direct(delay, last_req_seq)
     /\ _report_to_server(buf, clearTimeout(timers, last_delay_timer_id), 0, 0, NoDelay)
  \/ /\ ~Direct(delay, last_req_seq)
     /\ last_delay_timer_id # 0
     /\ Buffered(buf)
  \/ /\ ~Direct(delay, last_req_seq)
     /\ last_delay_timer_id = 0
     /\ _report_to_server(buf, timers, 0, last_req_seq,
                          IF delay = NoDelay THEN ShortDelay ELSE delay)

(* A fault: the number of the timer is reset, the timer is not cleared. *)
ReportUncleared(delay) ==
  \/ /\ Direct(delay, last_req_seq)
     /\ _report_to_server(buf, timers, 0, 0, NoDelay)
  \/ /\ ~Direct(delay, last_req_seq)
     /\ last_delay_timer_id # 0
     /\ Buffered(buf)
  \/ /\ ~Direct(delay, last_req_seq)
     /\ last_delay_timer_id = 0
     /\ _report_to_server(buf, timers, 0, last_req_seq,
          CASE delay = NoDelay    -> ShortDelay
            [] delay >= TryTime   -> TryTime
            [] OTHER              -> delay)

(* report_to_server(delay), by the page and by the periodic timer; report_url is set. *)
report_to_server(delay) ==
  \/ /\ Direct(delay, last_req_seq)
     /\ _report_to_server(buf, clearTimeout(timers, last_delay_timer_id), 0, 0, NoDelay)
  \/ /\ ~Direct(delay, last_req_seq)
     /\ last_delay_timer_id # 0
     /\ Buffered(buf)
  \/ /\ ~Direct(delay, last_req_seq)
     /\ last_delay_timer_id = 0
     /\ _report_to_server(buf, timers, 0, last_req_seq,
          CASE delay = NoDelay    -> ShortDelay
            [] delay >= TryTime   -> TryTime
            [] OTHER              -> delay)

PageReports(delay) == report_to_server(delay) /\ UNCHANGED envVars

-----------------------------------------------------------------------------
(* Timers that fire, answers, time. *)

(* _try_report_to_server sets its timer again after the report. *)
_try_report_to_server ==
  /\ tryTimer = 0
  /\ report_to_server(NoDelay)
  /\ tryTimer' = TryTime
  /\ UNCHANGED <<page, json, xhrOk, log_config_id>>

(* A fault: a request without an answer is never forgotten. *)
DelayFiresPatient(t) ==
  /\ t.left = 0
  /\ \/ /\ t.does = "report"
        /\ _report_to_server(buf, timers \ {t}, 0, last_req_seq, NoDelay)
     \/ /\ t.does = "nothing"
        /\ timers' = timers \ {t}
        /\ UNCHANGED <<reqVars, buf, last_delay_timer_id, last_req_seq>>
  /\ UNCHANGED envVars

(* The function that _report_to_server gave to setTimeout: a request without an answer for
   ReqTimeout is forgotten. *)
DelayFires(t) ==
  /\ t.left = 0
  /\ \/ /\ t.does = "report"
        /\ _report_to_server(buf, timers \ {t}, 0,
             IF requestAge >= ReqTimeout THEN 0 ELSE last_req_seq, NoDelay)
     \/ /\ t.does = "nothing"
        /\ timers' = timers \ {t}
        /\ UNCHANGED <<reqVars, buf, last_delay_timer_id, last_req_seq>>
  /\ UNCHANGED envVars

(* _on_response: any answer with status 200, to whichever request. *)
_on_response(x) ==
  /\ x \in out
  /\ out' = out \ {x}
  /\ last_req_seq' = 0
  /\ UNCHANGED <<envVars, req_seq, latest, requestAge, freqAge, freq_request_times, buf,
                 timers, last_delay_timer_id>>

(* The request fails, or its answer has another status or cannot be parsed. *)
RequestFails(x) ==
  /\ x \in out
  /\ out' = out \ {x}
  /\ UNCHANGED <<envVars, req_seq, latest, requestAge, freqAge, freq_request_times, buf,
                 timers, last_delay_timer_id, last_req_seq>>

(* The script with JSON has come: the periodic timer starts. *)
Json2Loaded ==
  /\ page = "json2"
  /\ page' = "ready" /\ json' = TRUE /\ tryTimer' = TryTime
  /\ UNCHANGED <<xhrOk, log_config_id>>
  /\ Buffered(buf)

Older(age, cap) == IF age = -1 \/ age = cap THEN age ELSE age + 1

Tick ==
  /\ timers' = {[t EXCEPT !.left = IF @ = 0 THEN 0 ELSE @ - 1] : t \in timers}
  /\ tryTimer' = IF tryTimer <= 0 THEN tryTimer ELSE tryTimer - 1
  /\ requestAge' = Older(requestAge, ReqTimeout)
  /\ freqAge' = Older(freqAge, FreqTime + 1)
  /\ UNCHANGED <<page, json, xhrOk, log_config_id, buf, last_delay_timer_id, req_seq,
                 last_req_seq, latest, out, freq_request_times>>

-----------------------------------------------------------------------------
(* _init: without the address of the script it returns before req_seq is incremented and
   before the timer is set; without JSON it waits for the script dmt_json2_min.js. *)
Init ==
  /\ \/ page = "failed" /\ json \in BOOLEAN /\ req_seq = 0 /\ tryTimer = -1
     \/ page = "json2" /\ json = FALSE /\ req_seq = 1 /\ tryTimer = -1
     \/ page = "ready" /\ json = TRUE /\ req_seq = 1 /\ tryTimer = TryTime
  /\ xhrOk \in BOOLEAN
  /\ log_config_id = 0
  /\ buf = EmptyBuf
  /\ timers = {}
  /\ last_delay_timer_id = 0
  /\ last_req_seq = 0
  /\ latest = 0
  /\ out = {}
  /\ requestAge = -1
  /\ freqAge = -1
  /\ freq_request_times = 0

Next ==
  \/ \E op \in {"add", "set"}, n \in Amounts :
       \/ \E a \in Attrs : ReportAttr(op, a, n)
       \/ \E s \in Strings : ReportStrAttr(op, s, n)
  \/ ReportLog
  \/ init_log
  \/ \E p \in Plugins : PluginLog(p)
  \/ \E delay \in {NoDelay, ShortDelay, TryTime + 1} : PageReports(delay)
  \/ _try_report_to_server
  \/ \E t \in timers : DelayFires(t)
  \/ \E x \in Xhrs : _on_response(x) \/ RequestFails(x)
  \/ Json2Loaded
  \/ Tick

Spec == Init /\ [][Next]_vars

(* Time goes on, and the browser runs a timer whose time has come.  Nothing is assumed of
   the page, of the network or of the server. *)
Fairness ==
  /\ WF_vars(Tick)
  /\ WF_vars(_try_report_to_server)
  /\ WF_vars(\E t \in timers : DelayFires(t))

LiveSpec == Spec /\ Fairness

-----------------------------------------------------------------------------
(* Properties. *)

(* At most one delay timer is set, and last_delay_timer_id holds its number, so that the
   next report can clear it: no path of _report_to_server, of the limits and of the refused
   request leaves a second timer behind. *)
TimerTracked ==
  /\ Cardinality(timers) <= 1
  /\ \A t \in timers : t.id = last_delay_timer_id

(* What waits, as the page sees it: a number for every point and string, and for every list
   of logs how many. *)
Keys == ({"attr"} \X Attrs) \cup ({"str"} \X Strings) \cup Sources
Waiting ==
  [k \in Keys |-> CASE k[1] = "attr" -> buf.attrs[k[2]]
                    [] k[1] = "str"  -> buf.strattrs[k[2]].first + buf.strattrs[k[2]].others
                    [] k[1] = "logs" -> buf.logs
                    [] OTHER         -> buf.plogs[k[2]]]

Box == INSTANCE Mailbox WITH
  pend <- Waiting, busy <- last_req_seq # 0, watched <- req_seq # 0

(* What the page reported waits until one request takes it: it is not lost when a request is
   refused or put off, not sent twice, and not replaced except by a set. *)
RefinesMailbox == Box!Spec

(* A number is kept of a timer that was cleared, while a request waits for its answer. *)
StaleTimer == last_req_seq # 0 /\ last_delay_timer_id # 0 /\ timers = {}

CanSend == page = "ready" /\ xhrOk

(* request_timeout_ms: a lost answer does not stop the reports; points that wait are sent,
   whatever happens to requests and answers. *)
Resumes == (CanSend /\ PendingAttrs(buf) # {}) ~> (PendingAttrs(buf) = {})

(* The same, except when the number of a cleared timer was kept. *)
ResumesUnlessStale ==
  (CanSend /\ PendingAttrs(buf) # {}) ~> (PendingAttrs(buf) = {} \/ StaleTimer)

(* max_attrs_per_req: a request holds at most that many points; the server drops the rest. *)
BatchFits ==
  [][PendingAttrs(buf') = {} => Cardinality(PendingAttrs(buf)) <= MaxAttrs]_vars

(* report_to_server uses the request number against concurrent requests: while the last
   request may still be answered in time no other is sent. *)
OneRequest ==
  [][(latest' # latest /\ latest \in out) => requestAge >= ReqTimeout]_vars

(* Logs of plugins are sent. *)
PluginLogsSent ==
  \A p \in Plugins : (CanSend /\ buf.plogs[p] # 0) ~> (buf.plogs[p] = 0 \/ StaleTimer)
====
