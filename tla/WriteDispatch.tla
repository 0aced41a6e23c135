---------------------------- MODULE WriteDispatch ----------------------------
(***************************************************************************)
(* The log writer, slog_write: the main process looks for applications     *)
(* that have logs and no writer, and gives each to one of its child        *)
(* processes through a slot in shared memory; the child accepts it, and    *)
(* from then on writes the logs of the application from their ring in      *)
(* shared memory to files, pass after pass over its applications.          *)
(*                                                                         *)
(* The ring is filled by several processes: the log servers, for the       *)
(* applications of the agents, and every process of the system, for its    *)
(* own log.  A log is reserved, filled, published and only then made the   *)
(* start of the ring, if the ring had none.  The sections under            *)
(* bTryGetLogIndex have two steps, in and out.  Who finds the lock taken   *)
(* a hundred times goes on without it; the model notes that ("unlocked")   *)
(* and does not follow the loads and stores of two sections that overlap.  *)
(*                                                                         *)
(* An application has a writer when dwLastTryWriteLogTime is young: every  *)
(* WriteFile sets it, to the time at which the pass began.  The model      *)
(* keeps its age.  A tick is long compared with the stores of the main     *)
(* process, which therefore belong to one tick; a pass of a child may take *)
(* many.  Loads (dwWriteRecordsPer) are left out: any free slot that could *)
(* win the comparison may be chosen.                                       *)
(***************************************************************************)
EXTENDS Integers, Sequences, FiniteSets, FiniteSetsExt

CONSTANTS
  NApps,       \* applications, by their index in shared memory
  NChildren,   \* m_iProcessCount - 1
  NServers,    \* log servers that fill the rings
  NLoggers,    \* processes of the system that log by ShmLog
  MaxFiles,    \* MAX_SLOG_SHM_FILE_PER_PROCESS
  CheckTime,   \* iCheckWriteProcessTime
  PerLoop,     \* iWriteRecordsPerLoop
  RingSize,    \* logs that the ring of an application holds
  MaxDeaths    \* bound: processes that die by themselves, stops by hand

ASSUME DispatchSizes ==
  /\ {NApps, NChildren, NServers, MaxFiles, CheckTime, PerLoop, RingSize} \subseteq Nat \ {0}
  /\ NLoggers \in Nat /\ MaxDeaths \in Nat

Apps == 1..NApps
Children == 1..NChildren
Servers == 1..NServers
Sources == 1..(NServers + NLoggers)
Index == 0..(RingSize - 1)
None == 0
NoLog == -1

VARIABLES
  flag,       \* per application: APPLOG_FLAG_LOG_WRITED
  age,        \* time since dwLastTryWriteLogTime, up to CheckTime
  statRead,   \* bReadLogStatInfo
  widx,       \* per ring: iWriteIndex
  start,      \* iLogStarIndex
  seq,        \* per place of the ring: dwLogSeq is set, the log is complete
  wrote,      \* history: the child, still running, that has written this log
  slot,       \* per child: [app, index, total] of TAddWriteAppLog
  ready,      \* iProcessId of the slot is set
  spc, sapp, sidx,      \* per process that logs: label, application, iIndex
  mpc, mapp, mto,       \* the main process: label, application, slot
  pc, files, pos, at, done, passAge,   \* per child: label and locals
  stopping,   \* the script is stopping all processes
  deaths,
  taint       \* history: why a log or an application may have had two writers

appVars == <<flag, age, statRead>>
ringVars == <<widx, start, seq, wrote>>
slotVars == <<slot, ready>>
sourceVars == <<spc, sapp, sidx>>
mainVars == <<mpc, mapp, mto>>
childVars == <<pc, files, pos, at, done, passAge>>
vars == <<appVars, ringVars, slotVars, sourceVars, mainVars, childVars, stopping, deaths, taint>>

Alive(c) == pc[c] # "dead"
Running(c) == pc[c] \notin {"start", "clear", "dead"}

AppsOK ==
  /\ flag \in [Apps -> BOOLEAN] /\ statRead \in [Apps -> BOOLEAN]
  /\ age \in [Apps -> 0..CheckTime]

RingOK ==
  /\ widx \in [Apps -> Index]
  /\ start \in [Apps -> {NoLog} \cup Index]
  /\ seq \in [Apps -> [Index -> BOOLEAN]]
  /\ wrote \in [Apps -> [Index -> {None} \cup Children]]

SlotsOK ==
  /\ slot \in [Children -> [app : {None} \cup Apps, index : Apps, total : 0..MaxFiles]]
  /\ ready \in [Children -> BOOLEAN]

SourcesOK ==
  /\ spc \in [Sources -> {"idle", "blank", "fill", "test", "lock", "set", "mark"}]
  /\ sapp \in [Sources -> Apps]
  /\ sidx \in [Sources -> Index]

MainOK ==
  /\ mpc \in {"wait", "scan", "index", "dead"} /\ mapp \in {None} \cup Apps
  /\ mto \in {None} \cup Children

ChildLabels ==
  {"start", "clear", "run", "file", "record", "advance", "lock", "store", "accept", "dead"}

ChildrenOK ==
  /\ pc \in [Children -> ChildLabels]
  /\ files \in [Children -> Seq(Apps)]
  /\ \A c \in Children : Len(files[c]) <= MaxFiles
  /\ pos \in [Children -> 1..(MaxFiles + 1)]
  /\ at \in [Children -> Index]
  /\ done \in [Children -> 0..PerLoop]
  /\ passAge \in [Children -> 0..CheckTime]

Taints == {"slow", "torn", "full", "stop", "back", "unlocked", "unblanked"}

(* A place in a child's list that the code can fill, and times that it compares. *)
TypeOK ==
  /\ AppsOK /\ RingOK /\ SlotsOK /\ SourcesOK /\ MainOK /\ ChildrenOK
  /\ stopping \in BOOLEAN /\ deaths \in 0..MaxDeaths
  /\ taint \subseteq Taints

-----------------------------------------------------------------------------
(* The ring of an application and its lock. *)

(* SLOG_NEXT_INDEX *)
NextIndex(i) == IF i = RingSize - 1 THEN 0 ELSE i + 1

(* The logs from i on; all of the ring when i is the next index to write. *)
Span(i, w) == IF i < w THEN i..(w - 1) ELSE Index \ (w..(i - 1))

(* The application that a child is at. *)
App(c) == files[c][pos[c]]

(* Somebody alive is between InitGetShmLogIndex and EndGetShmLogIndex. *)
LockHeld(a) ==
  \/ \E s \in Sources : spc[s] \in {"blank", "set"} /\ sapp[s] = a
  \/ \E c \in Children : pc[c] = "store" /\ App(c) = a

(* InitGetShmLogIndex: who cannot get the lock goes on without it. *)
InitGetShmLogIndex(a) == taint' = taint \cup (IF LockHeld(a) THEN {"unlocked"} ELSE {})

-----------------------------------------------------------------------------
(* A process that logs: WriteAppLogToShm of a server, ShmLog of the others. *)

SourceAt(s, l) == spc' = [spc EXCEPT ![s] = l] /\ UNCHANGED <<sapp, sidx>>

SourceIdle(s) ==
  /\ spc' = [spc EXCEPT ![s] = "idle"]
  /\ sapp' = [sapp EXCEPT ![s] = 1] /\ sidx' = [sidx EXCEPT ![s] = 0]

(* A server is done; the others still have to set the flag. *)
StartKnown(s) == IF s \in Servers THEN SourceIdle(s) ELSE SourceAt(s, "mark")

(* A fault: a server sets the flag only for a log that was stored. *)
ReserveStored(s, a) ==
  /\ spc[s] = "idle"
  /\ start[a] # widx[a]
  /\ flag' = IF s \in Servers THEN [flag EXCEPT ![a] = TRUE] ELSE flag
  /\ InitGetShmLogIndex(a)
  /\ widx' = [widx EXCEPT ![a] = NextIndex(@)]
  /\ spc' = [spc EXCEPT ![s] = "blank"]
  /\ sapp' = [sapp EXCEPT ![s] = a] /\ sidx' = [sidx EXCEPT ![s] = widx[a]]
  /\ UNCHANGED <<age, statRead, start, seq, wrote, slotVars, mainVars, childVars, stopping, deaths>>

(* The place for the log is taken, or the log dropped when the ring is full.  A server has
   set the flag before, in any case. *)
Reserve(s, a) ==
  /\ spc[s] = "idle"
  /\ flag' = IF s \in Servers THEN [flag EXCEPT ![a] = TRUE] ELSE flag
  /\ InitGetShmLogIndex(a)
  /\ \/ start[a] = widx[a] /\ UNCHANGED <<widx, sourceVars>>
     \/ /\ start[a] # widx[a]
        /\ widx' = [widx EXCEPT ![a] = NextIndex(@)]
        /\ spc' = [spc EXCEPT ![s] = "blank"]
        /\ sapp' = [sapp EXCEPT ![s] = a] /\ sidx' = [sidx EXCEPT ![s] = widx[a]]
  /\ UNCHANGED <<age, statRead, start, seq, wrote, slotVars, mainVars, childVars, stopping, deaths>>

(* The old log in that place is taken back, and the lock given up. *)
Blank(s) ==
  /\ spc[s] = "blank"
  /\ seq' = [seq EXCEPT ![sapp[s]][sidx[s]] = FALSE]
  /\ wrote' = [wrote EXCEPT ![sapp[s]][sidx[s]] = None]
  /\ SourceAt(s, "fill")
  /\ UNCHANGED <<appVars, widx, start, slotVars, mainVars, childVars, stopping, deaths, taint>>

(* The log is there, dwLogSeq says so. *)
Publish(s) ==
  /\ spc[s] = "fill"
  /\ seq' = [seq EXCEPT ![sapp[s]][sidx[s]] = TRUE]
  /\ SourceAt(s, "test")
  /\ UNCHANGED <<appVars, widx, start, wrote, slotVars, mainVars, childVars, stopping, deaths,
                 taint>>

(* ModifyLogStartIndexCmpAndSwap: nothing to do when the ring has a start ... *)
TestStart(s) ==
  /\ spc[s] = "test"
  /\ \/ start[sapp[s]] = NoLog /\ SourceAt(s, "lock")
     \/ start[sapp[s]] # NoLog /\ StartKnown(s)
  /\ UNCHANGED <<appVars, ringVars, slotVars, mainVars, childVars, stopping, deaths, taint>>

EnterSet(s) ==
  /\ spc[s] = "lock"
  /\ InitGetShmLogIndex(sapp[s])
  /\ SourceAt(s, "set")
  /\ UNCHANGED <<appVars, ringVars, slotVars, mainVars, childVars, stopping, deaths>>

(* The start is set although somebody else has set it since, or to a place from which a log
   that was written comes again. *)
SetBack(a, i) == start[a] # NoLog \/ \E j \in Span(i, widx[a]) : wrote[a][j] # None

(* ... and otherwise this log is it.  Under the lock start is not compared again. *)
SetStart(s) ==
  LET a == sapp[s] IN
  /\ spc[s] = "set"
  /\ start' = [start EXCEPT ![a] = IF @ # NoLog /\ sidx[s] = widx[a] THEN NoLog ELSE sidx[s]]
  /\ taint' = taint \cup (IF SetBack(a, sidx[s]) THEN {"back"} ELSE {})
  /\ StartKnown(s)
  /\ UNCHANGED <<appVars, widx, seq, wrote, slotVars, mainVars, childVars, stopping, deaths>>

(* The last store of ShmLog. *)
SetLogFlag(s) ==
  /\ spc[s] = "mark"
  /\ flag' = [flag EXCEPT ![sapp[s]] = TRUE]
  /\ SourceIdle(s)
  /\ UNCHANGED <<age, statRead, ringVars, slotVars, mainVars, childVars, stopping, deaths, taint>>

(* It dies, and another takes its place.  A place that it took and did not blank still holds
   an old log. *)
SourceDies(s) ==
  /\ spc[s] # "idle"
  /\ deaths < MaxDeaths /\ deaths' = deaths + 1
  /\ taint' = taint \cup (IF spc[s] = "blank" THEN {"unblanked"} ELSE {})
  /\ SourceIdle(s)
  /\ UNCHANGED <<appVars, ringVars, slotVars, mainVars, childVars, stopping>>

-----------------------------------------------------------------------------
(* The main process. *)

(* It starts to dispatch when all children have taken their slots. *)
ChildrenReady ==
  /\ mpc = "wait"
  /\ \A c \in Children : ready[c]
  /\ mpc' = "scan"
  /\ UNCHANGED <<appVars, ringVars, slotVars, sourceVars, mapp, mto, childVars, stopping, deaths,
                 taint>>

(* Nothing to write, or a writer that tried not long ago. *)
NoNeed(a) == ~flag[a] \/ age[a] < CheckTime

(* The files of the application are read once, by a CSLogServerWriteFile whose constructor
   also sets dwLastTryWriteLogTime. *)
ReadStat(a) ==
  /\ mpc = "scan"
  /\ NoNeed(a) /\ ~statRead[a]
  /\ statRead' = [statRead EXCEPT ![a] = TRUE]
  /\ age' = [age EXCEPT ![a] = 0]
  /\ UNCHANGED <<flag, ringVars, slotVars, sourceVars, mainVars, childVars, stopping, deaths, taint>>

FreeSlots == {c \in Children : slot[c].app = None}

(* The first free slot, even of a child whose list is full; or a later one with less to do
   and with room.  A child that has died keeps its slot. *)
Idlest == {c \in FreeSlots : c = Min(FreeSlots) \/ slot[c].total < MaxFiles}

(* A fault: an application is given away whether or not it has a writer. *)
TryDispatchAlways(a) ==
  /\ mpc = "scan"
  /\ flag[a]
  /\ \E c \in Idlest :
       /\ slot' = [slot EXCEPT ![c].app = a]
       /\ mto' = c
  /\ mapp' = a
  /\ mpc' = "index"
  /\ UNCHANGED <<appVars, ringVars, ready, sourceVars, childVars, stopping, deaths, taint>>

(* TryDispatchAppWrite: the number of the application is stored first ... *)
TryDispatchAppWrite(a) ==
  /\ mpc = "scan"
  /\ ~NoNeed(a)
  /\ \E c \in Idlest :
       /\ slot' = [slot EXCEPT ![c].app = a]
       /\ mto' = c
  /\ mapp' = a
  /\ mpc' = "index"
  /\ UNCHANGED <<appVars, ringVars, ready, sourceVars, childVars, stopping, deaths, taint>>

(* ... and then its index, by which the child finds it. *)
StoreIndex ==
  /\ mpc = "index"
  /\ slot' = [slot EXCEPT ![mto].index = mapp]
  /\ age' = [age EXCEPT ![mapp] = 0]
  /\ flag' = [flag EXCEPT ![mapp] = FALSE]
  /\ mpc' = "scan" /\ mapp' = None /\ mto' = None
  /\ UNCHANGED <<statRead, ringVars, ready, sourceVars, childVars, stopping, deaths, taint>>

-----------------------------------------------------------------------------
(* A child. *)

(* A child announces itself, and only then clears its slot. *)
Start(c) ==
  /\ pc[c] = "start"
  /\ ready' = [ready EXCEPT ![c] = TRUE]
  /\ pc' = [pc EXCEPT ![c] = "clear"]
  /\ UNCHANGED <<appVars, ringVars, slot, sourceVars, mainVars, files, pos, at, done, passAge,
                 stopping, deaths, taint>>

ClearSlot(c) ==
  /\ pc[c] = "clear"
  /\ slot' = [slot EXCEPT ![c].app = None, ![c].total = 0]
  /\ pc' = [pc EXCEPT ![c] = "run"]
  /\ UNCHANGED <<appVars, ringVars, ready, sourceVars, mainVars, files, pos, at, done, passAge,
                 stopping, deaths, taint>>

(* The next pass: slog.Run() reads the clock. *)
BeginPass(c) ==
  /\ pc[c] = "run"
  /\ pos' = [pos EXCEPT ![c] = 1]
  /\ passAge' = [passAge EXCEPT ![c] = 0]
  /\ pc' = [pc EXCEPT ![c] = IF files[c] = <<>> THEN "accept" ELSE "file"]
  /\ UNCHANGED <<appVars, ringVars, slotVars, sourceVars, mainVars, files, at, done, stopping,
                 deaths, taint>>

(* The end of WriteFile for one application: the next one, unless the pass has taken too
   long. *)
FileDone(c) ==
  /\ pc' = [pc EXCEPT ![c] = IF passAge[c] = CheckTime \/ pos[c] = Len(files[c])
                            THEN "accept" ELSE "file"]
  /\ pos' = [pos EXCEPT ![c] = IF pc'[c] = "accept" THEN 1 ELSE @ + 1]
  /\ at' = [at EXCEPT ![c] = 0]
  /\ done' = [done EXCEPT ![c] = 0]

(* WriteFile: the time at which the pass began is noted, and the start of the ring read. *)
WriteFile(c) ==
  /\ pc[c] = "file"
  /\ age' = [age EXCEPT ![App(c)] = passAge[c]]
  /\ \/ start[App(c)] = NoLog /\ FileDone(c)
     \/ /\ start[App(c)] # NoLog
        /\ at' = [at EXCEPT ![c] = start[App(c)]]
        /\ pc' = [pc EXCEPT ![c] = "record"]
        /\ UNCHANGED <<pos, done>>
  /\ UNCHANGED <<flag, statRead, ringVars, slotVars, sourceVars, mainVars, files, passAge, stopping,
                 deaths, taint>>

(* WriteLogRecord: the log goes to the file.  One that is not complete is passed over when
   its place was taken more than five seconds ago. *)
WriteLogRecord(c) ==
  /\ pc[c] = "record"
  /\ wrote' = IF seq[App(c)][at[c]] THEN [wrote EXCEPT ![App(c)][at[c]] = c] ELSE wrote
  /\ pc' = [pc EXCEPT ![c] = "advance"]
  /\ UNCHANGED <<appVars, widx, start, seq, slotVars, sourceVars, mainVars, files, pos, at, done,
                 passAge, stopping, deaths, taint>>

(* It returns an error: the log is not complete yet, or there is no file for it.  It stays. *)
RecordFails(c) ==
  /\ pc[c] = "record"
  /\ FileDone(c)
  /\ UNCHANGED <<appVars, ringVars, slotVars, sourceVars, mainVars, files, passAge, stopping,
                 deaths, taint>>

(* The start must still be at the log, says a test before the lock ... *)
TestMoved(c) ==
  /\ pc[c] = "advance"
  /\ IF start[App(c)] = at[c] THEN pc' = [pc EXCEPT ![c] = "lock"] /\ UNCHANGED <<pos, at, done>>
                              ELSE FileDone(c)
  /\ UNCHANGED <<appVars, ringVars, slotVars, sourceVars, mainVars, files, passAge, stopping,
                 deaths, taint>>

EnterAdvance(c) ==
  /\ pc[c] = "lock"
  /\ InitGetShmLogIndex(App(c))
  /\ pc' = [pc EXCEPT ![c] = "store"]
  /\ UNCHANGED <<appVars, ringVars, slotVars, sourceVars, mainVars, files, pos, at, done, passAge,
                 stopping, deaths>>

(* A fault: the last record of a call is left in the ring. *)
AdvanceShort(c) ==
  LET next == NextIndex(at[c]) IN
  /\ pc[c] = "store"
  /\ \/ done[c] + 1 = PerLoop /\ start' = start /\ FileDone(c)
     \/ /\ done[c] + 1 < PerLoop /\ next = widx[App(c)]
        /\ start' = [start EXCEPT ![App(c)] = NoLog]
        /\ FileDone(c)
     \/ /\ done[c] + 1 < PerLoop /\ next # widx[App(c)]
        /\ start' = [start EXCEPT ![App(c)] = next]
        /\ at' = [at EXCEPT ![c] = next]
        /\ done' = [done EXCEPT ![c] = @ + 1]
        /\ pc' = [pc EXCEPT ![c] = "record"]
        /\ UNCHANGED pos
  /\ UNCHANGED <<appVars, widx, seq, wrote, slotVars, sourceVars, mainVars, files, passAge,
                 stopping, deaths, taint>>

(* ... and under it the start moves on to the next log, unless this was the last one.  The
   call goes on with that log unless it has written as many as it may. *)
Advance(c) ==
  LET next == NextIndex(at[c])
      last == next = widx[App(c)] IN
  /\ pc[c] = "store"
  /\ start' = [start EXCEPT ![App(c)] = IF last THEN NoLog ELSE next]
  /\ \/ (last \/ done[c] + 1 = PerLoop) /\ FileDone(c)
     \/ /\ ~last /\ done[c] + 1 < PerLoop
        /\ at' = [at EXCEPT ![c] = next]
        /\ done' = [done EXCEPT ![c] = @ + 1]
        /\ pc' = [pc EXCEPT ![c] = "record"]
        /\ UNCHANGED pos
  /\ UNCHANGED <<appVars, widx, seq, wrote, slotVars, sourceVars, mainVars, files, passAge,
                 stopping, deaths, taint>>

(* A child ends: what it had in memory is gone. *)
ChildGone(c) ==
  /\ pc' = [pc EXCEPT ![c] = "dead"]
  /\ files' = [files EXCEPT ![c] = <<>>]
  /\ pos' = [pos EXCEPT ![c] = 1] /\ at' = [at EXCEPT ![c] = 0]
  /\ done' = [done EXCEPT ![c] = 0] /\ passAge' = [passAge EXCEPT ![c] = 0]
  /\ wrote' = [a \in Apps |-> [i \in Index |-> IF wrote[a][i] = c THEN None ELSE wrote[a][i]]]

(* A fault: the list is not looked at. *)
AcceptUnbounded(c) ==
  /\ pc[c] = "accept"
  /\ pc' = [pc EXCEPT ![c] = "run"]
  /\ \/ slot[c].app = None /\ UNCHANGED <<age, slot, files>>
     \/ /\ slot[c].app # None
        /\ files' = [files EXCEPT ![c] = Append(@, slot[c].index)]
        /\ age' = [age EXCEPT ![slot[c].index] = 0]
        /\ slot' = [slot EXCEPT ![c].app = None, ![c].total = @ + 1]
  /\ UNCHANGED <<flag, statRead, ringVars, ready, sourceVars, mainVars, pos, at, done, passAge,
                 stopping, deaths, taint>>

(* TryAcceptDispatchApp, at the end of a pass.  A child with a full list exits. *)
TryAcceptDispatchApp(c) ==
  /\ pc[c] = "accept"
  /\ \/ /\ slot[c].app = None
        /\ pc' = [pc EXCEPT ![c] = "run"]
        /\ UNCHANGED <<age, slot, files, pos, at, done, passAge, wrote, taint>>
     \/ /\ slot[c].app # None
        /\ Len(files[c]) >= MaxFiles
        /\ ChildGone(c)
        /\ taint' = taint \cup {"full"}
        /\ UNCHANGED <<age, slot>>
     \/ /\ slot[c].app # None
        /\ Len(files[c]) < MaxFiles
        /\ pc' = [pc EXCEPT ![c] = "run"]
        /\ files' = [files EXCEPT ![c] = Append(@, slot[c].index)]
        /\ age' = [age EXCEPT ![slot[c].index] = 0]
        /\ slot' = [slot EXCEPT ![c].app = None, ![c].total = @ + 1]
        /\ taint' = taint \cup (IF slot[c].index # slot[c].app THEN {"torn"} ELSE {})
        /\ UNCHANGED <<pos, at, done, passAge, wrote>>
  /\ UNCHANGED <<flag, statRead, widx, start, seq, ready, sourceVars, mainVars, stopping, deaths>>

-----------------------------------------------------------------------------
(* Stopping and starting: check_proc_monitor.sh and stop_comm.sh. *)

Missing == mpc = "dead" \/ \E c \in Children : ~Alive(c)

(* The script finds a process missing, or somebody runs it by hand, which is bounded like the
   deaths.  It stops the processes by a signal, which each finds in slog.Run() sooner or
   later, and if that does not help by killing them. *)
Stop ==
  /\ ~stopping
  /\ \/ Missing /\ deaths' = deaths
     \/ ~Missing /\ deaths < MaxDeaths /\ deaths' = deaths + 1
  /\ stopping' = TRUE
  /\ UNCHANGED <<appVars, ringVars, slotVars, sourceVars, mainVars, childVars, taint>>

(* What every process does at its end: all times set to 0, all iProcessId taken back. *)
CleanUp ==
  /\ age' = [a \in Apps |-> CheckTime]
  /\ ready' = [c \in Children |-> FALSE]

(* A child ends by the signal, perhaps beside others and a main process that is about to look
   for applications that nobody has tried to write. *)
Exit(c) ==
  /\ stopping /\ pc[c] = "run"
  /\ ChildGone(c)
  /\ CleanUp
  /\ taint' = taint \cup
       (IF mpc # "dead" /\ \E d \in Children \ {c} : Alive(d) THEN {"stop"} ELSE {})
  /\ UNCHANGED <<flag, statRead, widx, start, seq, slot, sourceVars, mainVars, stopping, deaths>>

MainExit ==
  /\ stopping /\ mpc = "scan"
  /\ mpc' = "dead" /\ mapp' = None /\ mto' = None
  /\ CleanUp
  /\ UNCHANGED <<flag, statRead, ringVars, slot, sourceVars, childVars, stopping, deaths, taint>>

(* The end of a process by itself, which is bounded, or by the script. *)
Killed ==
  \/ stopping /\ deaths' = deaths
  \/ deaths < MaxDeaths /\ deaths' = deaths + 1

(* A child is killed, or exits because the shared memory of an application is missing. *)
Die(c) ==
  /\ Alive(c)
  /\ Killed
  /\ ChildGone(c)
  /\ UNCHANGED <<appVars, widx, start, seq, slotVars, sourceVars, mainVars, stopping, taint>>

MainDies ==
  /\ mpc # "dead"
  /\ Killed
  /\ mpc' = "dead" /\ mapp' = None /\ mto' = None
  /\ UNCHANGED <<appVars, ringVars, slotVars, sourceVars, childVars, stopping, taint>>

(* All have ended, and are started again, with empty lists. *)
StartAll ==
  /\ stopping
  /\ mpc = "dead" /\ \A c \in Children : ~Alive(c)
  /\ stopping' = FALSE
  /\ mpc' = "wait"
  /\ pc' = [c \in Children |-> "start"]
  /\ taint' = taint \ {"slow", "torn", "stop"}
  /\ UNCHANGED <<appVars, ringVars, slotVars, sourceVars, mapp, mto, files, pos, at, done, passAge,
                 deaths>>

Older(t) == IF t = CheckTime THEN t ELSE t + 1

(* A pass that takes half of CheckTime is slow: two such passes one after the other leave
   dwLastTryWriteLogTime without change for CheckTime. *)
Tick ==
  /\ mpc # "index"
  /\ age' = [a \in Apps |-> Older(age[a])]
  /\ passAge' = [c \in Children |-> IF Running(c) THEN Older(passAge[c]) ELSE passAge[c]]
  /\ taint' = taint \cup
       (IF \E c \in Children : Running(c) /\ 2 * passAge'[c] >= CheckTime THEN {"slow"} ELSE {})
  /\ UNCHANGED <<flag, statRead, ringVars, slotVars, sourceVars, mainVars, pc, files, pos, at, done,
                 stopping, deaths>>

Init ==
  /\ flag = [a \in Apps |-> FALSE] /\ statRead = [a \in Apps |-> FALSE]
  /\ age = [a \in Apps |-> CheckTime]
  /\ widx = [a \in Apps |-> 0] /\ start = [a \in Apps |-> NoLog]
  /\ seq = [a \in Apps |-> [i \in Index |-> FALSE]]
  /\ wrote = [a \in Apps |-> [i \in Index |-> None]]
  /\ slot = [c \in Children |-> [app |-> None, index |-> 1, total |-> 0]]
  /\ ready = [c \in Children |-> FALSE]
  /\ spc = [s \in Sources |-> "idle"]
  /\ sapp = [s \in Sources |-> 1] /\ sidx = [s \in Sources |-> 0]
  /\ mpc = "wait" /\ mapp = None /\ mto = None
  /\ pc = [c \in Children |-> "start"]
  /\ files = [c \in Children |-> <<>>]
  /\ pos = [c \in Children |-> 1] /\ at = [c \in Children |-> 0]
  /\ done = [c \in Children |-> 0] /\ passAge = [c \in Children |-> 0]
  /\ stopping = FALSE /\ deaths = 0 /\ taint = {}

Source(s) ==
  Blank(s) \/ Publish(s) \/ TestStart(s) \/ EnterSet(s) \/ SetStart(s) \/ SetLogFlag(s)

Main == ChildrenReady \/ StoreIndex \/ \E a \in Apps : TryDispatchAppWrite(a) \/ ReadStat(a)

Child(c) ==
  \/ Start(c) \/ ClearSlot(c) \/ BeginPass(c) \/ TryAcceptDispatchApp(c)
  \/ WriteFile(c) \/ WriteLogRecord(c) \/ RecordFails(c)
  \/ TestMoved(c) \/ EnterAdvance(c) \/ Advance(c)

Next ==
  \/ \E s \in Sources : Source(s) \/ SourceDies(s) \/ \E a \in Apps : Reserve(s, a)
  \/ Main \/ MainExit \/ MainDies
  \/ \E c \in Children : Child(c) \/ Exit(c) \/ Die(c)
  \/ Stop \/ StartAll
  \/ Tick

Spec == Init /\ [][Next]_vars

(* The processes go on, and so do the clock, the script that looks after them and the
   applications, which log again to a server.  A file can be written sooner or later.  Nothing
   is assumed of the length of a pass. *)
Fairness ==
  /\ \A s \in Sources : WF_vars(Source(s))
  /\ \A a \in Apps : WF_vars(\E s \in Servers : Reserve(s, a))
  /\ WF_vars(ChildrenReady) /\ WF_vars(StoreIndex)
  /\ \A a \in Apps : WF_vars(TryDispatchAppWrite(a))
  /\ \A c \in Children : WF_vars(Child(c)) /\ SF_vars(WriteLogRecord(c))
  /\ WF_vars(Missing /\ Stop) /\ WF_vars(StartAll) /\ WF_vars(Tick)
  /\ WF_vars(stopping /\ MainDies)
  /\ \A c \in Children : WF_vars(stopping /\ (Exit(c) \/ Die(c)))

LiveSpec == Spec /\ Fairness
-----------------------------------------------------------------------------
Places(a) == {p \in Children \X (1..MaxFiles) :
                Alive(p[1]) /\ p[2] <= Len(files[p[1]]) /\ files[p[1]][p[2]] = a}

Single == \A a \in Apps : Cardinality(Places(a)) <= 1

(* Only one process may write the logs of an application, and it has the application only
   once: whoever dies and whenever all are stopped and started again, an application gets a
   second writer only when a pass was slow, when a child read the index of a slot before it was
   stored, or when a child that was stopped set the times to 0 beside the main process and
   others that write; and all of this is over when all have been started again. *)
OneWriter == taint \cap {"slow", "torn", "stop"} = {} => Single

(* The log that a child is about to write has been written by a process that still runs. *)
Twice(c) == pc[c] = "record" /\ wrote[App(c)][at[c]] # None

(* A log is written to the file a second time only when the process that wrote it first has
   ended: nobody comes to write a log that a process still running has written, unless the
   application had two writers, a process that logs set the start of the ring again or back
   to where logs had been written, two were inside the lock, or one died inside it. *)
WrittenOnce == taint = {} => \A c \in Children : ~Twice(c)

(* A full ring gets room again, although children die, processes that log die before their
   log is complete, and all are stopped and started again, unless something of the taints
   happened. *)
Relieved ==
  \A a \in Apps : (start[a] = widx[a]) ~> (start[a] # widx[a] \/ taint # {})

(* One writer as long as every pass that still runs is shorter than CheckTime, no slot was
   torn and nobody stopped.  Does not hold: two passes after each other count. *)
OneWriterInTime ==
  (\A c \in Children : passAge[c] < CheckTime) /\ taint \cap {"torn", "stop"} = {} => Single

(* One writer as long as no pass is slow and nobody is stopped.  Does not hold: the child may
   read the index of its slot before it is stored, and take an application that another child
   has. *)
OneWriterUnlessSlow == taint \cap {"slow", "stop"} = {} => Single

(* One writer while processes are stopped.  Does not hold: the first child that ends sets the
   times to 0, and the main process, which still runs, gives its applications away again. *)
OneWriterStopping == taint \cap {"slow", "torn"} = {} => Single

(* No log is written twice by one writer.  Does not hold: the start of the ring is set back to
   a log that was published late, and those behind it come again. *)
OnceUnlessLate == taint \subseteq {"back"} => \A c \in Children : ~Twice(c)

(* When nobody logs and nobody died, a ring without a start has no log that was not written.
   Does not hold: two that both found no start both set it, and what lies between is lost. *)
NoneLost ==
  deaths = 0 /\ ~stopping /\ (\A s \in Sources : spc[s] = "idle") =>
    \A a \in Apps, i \in Index : start[a] = NoLog /\ seq[a][i] => wrote[a][i] # None

(* Bounds: what follows a taint is not explored, except a slow pass while nobody logs, no log
   waits and nobody has died; the files of an application are read before its first log; while processes are
   stopped or about to start nobody is in the middle of a log; and two are only while one
   child has the application and the others wait, and nobody has died. *)
Busy == {s \in Sources : spc[s] # "idle"}

Settled ==
  /\ mpc = "scan" /\ deaths = 0
  /\ \E c \in Children : files[c] # <<>> /\ \A d \in Children \ {c} : pc[d] = "run"

Explored ==
  /\ taint = {} \/ (taint = {"slow"} /\ Busy = {} /\ deaths = 0 /\ \A a \in Apps : start[a] = NoLog)
  /\ Busy # {} => mpc # "wait" /\ ~stopping /\ \A a \in Apps : statRead[a]
  /\ Busy \subseteq Servers \/ Settled
====
