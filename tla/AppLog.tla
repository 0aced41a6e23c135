------------------------------- MODULE AppLog -------------------------------
(***************************************************************************)
(* One log ring in shared memory (MTLogShm): processes that call           *)
(* MtReport_Log reserve a slot under the byte lock bTryGetLogIndex, fill   *)
(* it without the lock and publish it by writing dwLogSeq; the agent's     *)
(* ReadAppLog takes published logs from the other end under the same lock. *)
(* The lock is taken over when its time stamp is more than LockTimeout     *)
(* seconds old; the agent takes it without writing the stamp.              *)
(*                                                                         *)
(* A log is the number of its reservation.  A writer that does not get     *)
(* this ring goes on with another ring or with the special buffer.         *)
(* A long log, and one with customs, keeps a part of its content in the    *)
(* variable memory (VmemPool) and the index of that part in the slot.      *)
(***************************************************************************)
EXTENDS Integers, Sequences, FiniteSets

CONSTANTS
  Writers,      \* processes that call MtReport_Log
  Crashers,     \* the subset of Writers that may die inside it
  Agent,        \* the process that runs ReadAppLog
  Size,         \* MTLOG_SHM_RECORDS_COUNT
  MaxLogs,      \* bound: logs written to this ring
  Long,         \* the logs that are too long for a slot or have customs
  LockTimeout,  \* seconds after which bTryGetLogIndex may be taken over (5)
  SkipAge,      \* seconds in the test of an unpublished slot (5)
  MaxTime       \* bound: seconds the clock runs

ASSUME AppLogConstants ==
  /\ IsFiniteSet(Writers)
  /\ Agent \notin Writers
  /\ Crashers \subseteq Writers
  /\ Size \in Nat \ {0, 1}
  /\ MaxLogs \in Nat
  /\ Long \subseteq Nat \ {0}
  /\ LockTimeout \in Nat
  /\ SkipAge \in Nat
  /\ MaxTime \in Nat

(* With two writers at the indexes iWriteIndex can pass the end of the list (it is       *)
(* incremented, not set): the indexes are numbers, Slot the ones inside the list.        *)
Procs == Writers \cup {Agent}
Slot  == 0 .. Size - 1
Log   == 1 .. MaxLogs

VARIABLES
  widx,      \* iWriteIndex
  star,      \* iLogStarIndex, -1 when the ring is empty
  lock,      \* bTryGetLogIndex
  stamp,     \* dwGetLogIndexStartTime
  slot,      \* sLogList: the log in a slot, qwLogTime, and dwLogSeq # 0
  fullcnt,   \* wLogInShmFull # 0
  gone,      \* per slot: a part of its log was not saved, or was freed (index 0)
  now,       \* the clock
  pc,        \* where each process is
  idx,       \* iIndex of each writer
  t,         \* stNow of each writer
  mine,      \* the log each writer is writing
  count,     \* history: logs reserved so far
  res,       \* history: the last log each slot was reserved for
  accepted,  \* history: logs whose MtReport_Log returned 0
  delivered, \* history: logs ReadAppLogToBuf stored, in order
  whole,     \* history: logs it stored with all their parts
  unsaved,   \* history: logs whose part did not fit into the variable memory
  noroom,    \* history: logs whose part was freed by a pass that had no room for them
  skipped,   \* history: logs the agent passed over unpublished
  noapp,     \* history: logs dropped because their application is not known
  full,      \* history: all slots waited for the agent at some time
  died,      \* history: what writers that died inside MtReport_Log left of their slot
  taint      \* history: the ways in which exclusion was given up so far

ring   == <<widx, star, lock, stamp, slot, fullcnt, gone>>
locals == <<pc, idx, t, mine>>
content == <<whole, unsaved, noroom>>
hist   == <<count, res, accepted, delivered, skipped, noapp, full, died, taint, content>>
vars   == <<ring, now, locals, hist>>

(* The index behind i. *)
Succ(i) == IF i + 1 >= Size THEN 0 ELSE i + 1

Unstamped == {"w_stamp", "a_loop", "a_end", "a_clear", "a_rel"}
Stamped   == {"w_read", "w_adv", "w_star", "w_slot", "w_rel"}
Holds(p)  == pc[p] \in Unstamped \cup Stamped
Filling   == {"w_slot", "w_rel", "w_fill", "w_pub"}
Labels    == {"idle", "w_cas", "w_tmo", "w_fill", "w_pub"} \cup Unstamped \cup Stamped

(* From the reservation up to dwLogSeq = 0: the slot still holds its previous log. *)
Torn == {"w_star", "w_slot"}

Taints == {"slow", "unstamped", "agent", "released", "shared"}

RingOK ==
  /\ widx \in Nat
  /\ star \in Nat \cup {-1}
  /\ lock \in {0, 1}
  /\ stamp \in Nat
  /\ slot \in [Slot -> [log : 0 .. MaxLogs, time : Nat, seq : BOOLEAN]]
  /\ fullcnt \in BOOLEAN
  /\ now \in Nat

LocalsOK ==
  /\ pc \in [Procs -> Labels]
  /\ idx \in [Writers -> Nat]
  /\ t \in [Writers -> Nat]
  /\ mine \in [Writers -> 0 .. MaxLogs]

HistOK ==
  /\ count \in 0 .. MaxLogs
  /\ res \in [Slot -> 0 .. MaxLogs]
  /\ accepted \in SUBSET Log
  /\ delivered \in Seq(0 .. MaxLogs)
  /\ skipped \in SUBSET (0 .. MaxLogs)
  /\ noapp \in SUBSET (0 .. MaxLogs)
  /\ full \in BOOLEAN
  /\ died \in SUBSET {"torn", "whole"}
  /\ taint \in SUBSET Taints

ContentOK ==
  /\ gone \in [Slot -> BOOLEAN]
  /\ whole \in SUBSET (0 .. MaxLogs)
  /\ unsaved \in SUBSET Log
  /\ noroom \in SUBSET Log

TypeOK ==
  /\ RingOK /\ LocalsOK /\ HistOK /\ ContentOK
  /\ taint = {} => widx \in Slot /\ star \in Slot \cup {-1}

(* Cleared shared memory with iLogStarIndex = -1 (MtReport_Init_ByKey).  The clock is *)
(* more than LockTimeout seconds after the epoch.                                     *)
Init ==
  /\ widx = 0
  /\ star = -1
  /\ lock = 0
  /\ stamp = 0
  /\ slot = [i \in Slot |-> [log |-> 0, time |-> 0, seq |-> FALSE]]
  /\ fullcnt = FALSE
  /\ gone = [i \in Slot |-> FALSE]
  /\ now = LockTimeout + 1
  /\ pc = [p \in Procs |-> "idle"]
  /\ idx = [p \in Writers |-> 0]
  /\ t = [p \in Writers |-> 0]
  /\ mine = [p \in Writers |-> 0]
  /\ count = 0
  /\ res = [i \in Slot |-> 0]
  /\ accepted = {}
  /\ delivered = <<>>
  /\ whole = {}
  /\ unsaved = {}
  /\ noroom = {}
  /\ skipped = {}
  /\ noapp = {}
  /\ full = FALSE
  /\ died = {}
  /\ taint = {}

Goto(p, l) == pc' = [pc EXCEPT ![p] = l]

(* A write behind the end of the list does not change a slot. *)
SetSlot(i, r) == slot' = [k \in Slot |-> IF k = i THEN r ELSE slot[k]]
SetGone(i, b) == gone' = [k \in Slot |-> IF k = i THEN b ELSE gone[k]]

-----------------------------------------------------------------------------
(***************************************************************************)
(* MtReport_Log, from the point where the log has passed its filters.      *)
(***************************************************************************)

(* Logs that were begun; MaxLogs bounds them. *)
Early == {"w_cas", "w_tmo", "w_stamp", "w_read", "w_adv"}
Begun == count + Cardinality({p \in Writers : pc[p] \in Early})

(* gettimeofday *)
WriteStart(p) ==
  /\ pc[p] = "idle"
  /\ Begun < MaxLogs
  /\ Goto(p, "w_cas")
  /\ t' = [t EXCEPT ![p] = now]
  /\ UNCHANGED <<ring, now, idx, mine, hist>>

WriteCas(p) ==
  /\ pc[p] = "w_cas"
  /\ lock' = 1
  /\ Goto(p, IF lock = 0 THEN "w_stamp" ELSE "w_tmo")
  /\ UNCHANGED <<widx, star, stamp, slot, fullcnt, gone, now, idx, t, mine, hist>>

(* The compare-and-swap failed: take the lock over when its stamp is old, else leave *)
(* this ring.                                                                        *)
WriteTimeout(p) ==
  /\ pc[p] = "w_tmo"
  /\ \/ /\ t[p] > stamp + LockTimeout
        /\ Goto(p, "w_stamp")
        /\ taint' = taint \cup (IF lock = 0 THEN {"released"} ELSE {})
             \cup (IF Holds(Agent) THEN {"agent"} ELSE {})
             \cup (IF \E q \in Writers : pc[q] = "w_stamp" THEN {"unstamped"} ELSE {})
             \cup (IF \E q \in Writers : pc[q] \in Stamped THEN {"slow"} ELSE {})
     \/ /\ t[p] <= stamp + LockTimeout
        /\ Goto(p, "idle")
        /\ UNCHANGED taint
  /\ UNCHANGED <<ring, now, idx, t, mine, count, res, accepted, delivered, skipped,
                 noapp, full, died, content>>

WriteStamp(p) ==
  /\ pc[p] = "w_stamp"
  /\ stamp' = t[p]
  /\ Goto(p, "w_read")
  /\ UNCHANGED <<widx, star, lock, slot, fullcnt, gone, now, idx, t, mine, hist>>

(* iIndex = iWriteIndex *)
WriteRead(p) ==
  /\ pc[p] = "w_read"
  /\ idx' = [idx EXCEPT ![p] = widx]
  /\ Goto(p, "w_adv")
  /\ UNCHANGED <<ring, now, t, mine, hist>>

(* A fault: the write index runs one behind the end of the list. *)
WriteAdvanceTooFar(p) ==
  /\ pc[p] = "w_adv"
  /\ widx' = IF idx[p] + 1 > Size THEN 0 ELSE widx + 1
  /\ count' = count + 1
  /\ mine' = [mine EXCEPT ![p] = count + 1]
  /\ res' = [i \in Slot |-> IF i = idx[p] THEN count + 1 ELSE res[i]]
  /\ Goto(p, "w_star")
  /\ UNCHANGED <<star, lock, stamp, slot, fullcnt, gone, now, idx, t, accepted, delivered,
                 skipped, noapp, full, died, taint, content>>

(* Advance iWriteIndex: this is the reservation.  History notes when the slot still has *)
(* a writer.                                                                            *)
WriteAdvance(p) ==
  /\ pc[p] = "w_adv"
  /\ widx' = IF idx[p] + 1 >= Size THEN 0 ELSE widx + 1
  /\ count' = count + 1
  /\ mine' = [mine EXCEPT ![p] = count + 1]
  /\ res' = [i \in Slot |-> IF i = idx[p] THEN count + 1 ELSE res[i]]
  /\ full' = (full \/ widx' = star)
  /\ taint' = taint \cup (IF \E q \in Writers : pc[q] \in Filling /\ idx[q] = idx[p]
                            THEN {"shared"} ELSE {})
  /\ Goto(p, "w_star")
  /\ UNCHANGED <<star, lock, stamp, slot, fullcnt, gone, now, idx, t, accepted, delivered,
                 skipped, noapp, died, content>>

(* A fault: the read index starts behind the slot instead of at it. *)
WriteStarBehind(p) ==
  /\ pc[p] = "w_star"
  /\ star' = IF star < 0 THEN widx ELSE star
  /\ fullcnt' = (fullcnt \/ star = idx[p])
  /\ Goto(p, "w_slot")
  /\ UNCHANGED <<widx, lock, stamp, slot, gone, now, idx, t, mine, hist>>

WriteStar(p) ==
  /\ pc[p] = "w_star"
  /\ star' = IF star < 0 THEN idx[p] ELSE star
  /\ fullcnt' = (fullcnt \/ star = idx[p])
  /\ Goto(p, "w_slot")
  /\ UNCHANGED <<widx, lock, stamp, slot, gone, now, idx, t, mine, hist>>

(* qwLogTime and dwLogSeq = 0 *)
WriteSlot(p) ==
  /\ pc[p] = "w_slot"
  /\ SetSlot(idx[p], [log |-> slot[idx[p]].log, time |-> t[p], seq |-> FALSE])
  /\ Goto(p, "w_rel")
  /\ UNCHANGED <<widx, star, lock, stamp, fullcnt, gone, now, idx, t, mine, hist>>

WriteRelease(p) ==
  /\ pc[p] = "w_rel"
  /\ lock' = 0
  /\ Goto(p, "w_fill")
  /\ UNCHANGED <<widx, star, stamp, slot, fullcnt, gone, now, idx, t, mine, hist>>

(* The fields of the log, its content and its customs.  When the variable memory has no  *)
(* room for a part, a remark stands in the slot for it (wLogVmemFailed), and MtReport_Log *)
(* goes on.                                                                              *)
WriteFill(p) ==
  /\ pc[p] = "w_fill"
  /\ SetSlot(idx[p], [slot[idx[p]] EXCEPT !.log = mine[p]])
  /\ \/ /\ SetGone(idx[p], FALSE)
        /\ UNCHANGED unsaved
     \/ /\ mine[p] \in Long
        /\ SetGone(idx[p], TRUE)
        /\ unsaved' = unsaved \cup {mine[p]}
  /\ Goto(p, "w_pub")
  /\ UNCHANGED <<widx, star, lock, stamp, fullcnt, now, idx, t, mine, count, res, accepted,
                 delivered, whole, noroom, skipped, noapp, full, died, taint>>

(* dwLogSeq = dwSeq, return 0 *)
WritePublish(p) ==
  /\ pc[p] = "w_pub"
  /\ SetSlot(idx[p], [slot[idx[p]] EXCEPT !.seq = TRUE])
  /\ accepted' = accepted \cup {mine[p]}
  /\ mine' = [mine EXCEPT ![p] = 0]
  /\ Goto(p, "idle")
  /\ UNCHANGED <<widx, star, lock, stamp, fullcnt, gone, now, idx, t, count, res, delivered,
                 skipped, noapp, full, died, taint, content>>

Write(p) ==
  WriteCas(p) \/ WriteTimeout(p) \/ WriteStamp(p) \/ WriteRead(p) \/ WriteAdvance(p)
  \/ WriteStar(p) \/ WriteSlot(p) \/ WriteRelease(p) \/ WriteFill(p) \/ WritePublish(p)

-----------------------------------------------------------------------------
(***************************************************************************)
(* ReadAppLog on this ring.                                                *)
(***************************************************************************)

(* A fault: the result of the compare-and-swap is not looked at. *)
ReadCasBlind ==
  /\ pc[Agent] = "idle"
  /\ lock' = 1
  /\ Goto(Agent, "a_loop")
  /\ UNCHANGED <<widx, star, stamp, slot, fullcnt, gone, now, idx, t, mine, hist>>

(* The ring is left out of this pass when the lock is taken. *)
ReadCas ==
  /\ pc[Agent] = "idle"
  /\ lock = 0
  /\ lock' = 1
  /\ Goto(Agent, "a_loop")
  /\ UNCHANGED <<widx, star, stamp, slot, fullcnt, gone, now, idx, t, mine, hist>>

(* iLogStarIndex >= 0 and not iWriteIndex.  The model does not follow the agent to a slot *)
(* behind the end of the list.                                                            *)
Unread == star >= 0 /\ star # widx

(* The slot is not published.  The agent steps over it when its log time plus SkipAge is *)
(* not before the present, and ends the loop either way.                                 *)
ReadUnpublished ==
  /\ pc[Agent] = "a_loop"
  /\ Unread /\ star \in Slot
  /\ ~slot[star].seq
  /\ \/ /\ slot[star].time + SkipAge >= now
        /\ star' = Succ(star)
        /\ skipped' = skipped \cup {res[star]}
     \/ /\ slot[star].time + SkipAge < now
        /\ UNCHANGED <<star, skipped>>
  /\ Goto(Agent, "a_end")
  /\ UNCHANGED <<widx, lock, stamp, slot, fullcnt, gone, now, idx, t, mine, count, res,
                 accepted, delivered, noapp, full, died, taint, content>>

(* A fault: the read index stays. *)
ReadLogStays ==
  /\ pc[Agent] = "a_loop"
  /\ Unread /\ star \in Slot
  /\ slot[star].seq
  /\ delivered' = Append(delivered, slot[star].log)
  /\ Goto(Agent, "a_rel")
  /\ UNCHANGED <<ring, now, idx, t, mine, count, res, accepted, skipped, noapp, full, died, taint, content>>

(* ReadAppLogToBuf copies the part of the log in the variable memory and frees it, before  *)
(* it looks for room.                                                                     *)
TakePart == SetGone(star, gone[star] \/ slot[star].log \in Long)

(* It stored the log, or dropped it because no application has its id. *)
ReadLog ==
  /\ pc[Agent] = "a_loop"
  /\ Unread /\ star \in Slot
  /\ slot[star].seq
  /\ TakePart
  /\ star' = Succ(star)
  /\ \/ /\ delivered' = Append(delivered, slot[star].log)
        /\ whole' = IF gone[star] THEN whole ELSE whole \cup {slot[star].log}
        /\ UNCHANGED noapp
     \/ /\ noapp' = noapp \cup {slot[star].log}
        /\ UNCHANGED <<delivered, whole>>
  /\ UNCHANGED <<widx, lock, stamp, slot, fullcnt, now, pc, idx, t, mine, count, res,
                 accepted, unsaved, noroom, skipped, full, died, taint>>

(* A fault: the early return keeps the lock. *)
ReadNoRoomKeepsLock ==
  /\ pc[Agent] = "a_loop"
  /\ Unread /\ star \in Slot
  /\ slot[star].seq
  /\ Goto(Agent, "idle")
  /\ UNCHANGED <<ring, now, idx, t, mine, hist>>

(* It found no room: the pass ends and the log stays, without its part. *)
ReadNoRoom ==
  /\ pc[Agent] = "a_loop"
  /\ Unread /\ star \in Slot
  /\ slot[star].seq
  /\ TakePart
  /\ noroom' = IF gone[star] THEN noroom ELSE noroom \cup ({slot[star].log} \cap Long)
  /\ Goto(Agent, "a_rel")
  /\ UNCHANGED <<widx, star, lock, stamp, slot, fullcnt, now, idx, t, mine, count, res, accepted,
                 delivered, whole, unsaved, skipped, noapp, full, died, taint>>

ReadDone ==
  /\ pc[Agent] = "a_loop"
  /\ ~Unread
  /\ Goto(Agent, "a_end")
  /\ UNCHANGED <<ring, now, idx, t, mine, hist>>

(* if(iLogStarIndex == iWriteIndex) iLogStarIndex = -1, test and assignment. *)
ReadEnd ==
  /\ pc[Agent] = "a_end"
  /\ Goto(Agent, IF star = widx THEN "a_clear" ELSE "a_rel")
  /\ UNCHANGED <<ring, now, idx, t, mine, hist>>

ReadClear ==
  /\ pc[Agent] = "a_clear"
  /\ star' = -1
  /\ Goto(Agent, "a_rel")
  /\ UNCHANGED <<widx, lock, stamp, slot, fullcnt, gone, now, idx, t, mine, count, res,
                 accepted, delivered, skipped, noapp, full, died, taint, content>>

ReadRelease ==
  /\ pc[Agent] = "a_rel"
  /\ lock' = 0
  /\ Goto(Agent, "idle")
  /\ UNCHANGED <<widx, star, stamp, slot, fullcnt, gone, now, idx, t, mine, hist>>

Read == ReadCas \/ ReadUnpublished \/ ReadLog \/ ReadNoRoom \/ ReadDone \/ ReadEnd
        \/ ReadClear \/ ReadRelease

-----------------------------------------------------------------------------
Tick ==
  /\ now < MaxTime
  /\ now' = now + 1
  /\ UNCHANGED <<ring, locals, hist>>

(* A writer dies and starts again; its lock and its unpublished slot stay behind. *)
Crash(p) ==
  /\ p \in Crashers
  /\ pc[p] # "idle"
  /\ Goto(p, "idle")
  /\ mine' = [mine EXCEPT ![p] = 0]
  /\ died' = died \cup {IF pc[p] \in Torn THEN "torn" ELSE "whole"}
  /\ UNCHANGED <<ring, now, idx, t, count, res, accepted, delivered, skipped, noapp, full, taint, content>>

Next ==
  \/ Tick
  \/ \E p \in Writers : WriteStart(p) \/ Write(p) \/ Crash(p)
  \/ Read

Spec == Init /\ [][Next]_vars

(* A writer inside MtReport_Log keeps running, the agent's timer keeps calling ReadAppLog *)
(* (it finds the lock free again and again), and the buffers of a pass are sent so that   *)
(* not every pass ends without room.                                                      *)
FairSpec ==
  /\ Spec
  /\ WF_vars(Tick)
  /\ \A p \in Writers : WF_vars(Write(p))
  /\ SF_vars(ReadCas)
  /\ WF_vars(Read)
  /\ SF_vars(ReadLog)

-----------------------------------------------------------------------------
(***************************************************************************)
(* Safety.                                                                 *)
(***************************************************************************)

Clean == taint = {}

(* bTryGetLogIndex excludes (mt_log.c, VARMEM_CAS_GET ... VARMEM_CAS_FREE; ReadAppLog's     *)
(* SYNC_CAS_GET): at most one writer or the agent is at the indexes of the ring, also after *)
(* writers died with the lock, as long as it is only taken over from the dead.              *)
RingExclusion ==
  Clean => /\ \A p, q \in Procs : Holds(p) /\ Holds(q) => p = q
           /\ \A p \in Procs : Holds(p) => lock = 1

(* The agent passes logs on in the order in which their slots were reserved and none      *)
(* twice, also when the ring was full and logs were overwritten (iLogStarIndex and        *)
(* iWriteIndex chase each other in ReadAppLog and MtReport_Log), and also after writers   *)
(* died, except between the reservation of a slot and its dwLogSeq = 0.                   *)
InOrder == \A i, j \in 1 .. Len(delivered) : i < j => delivered[i] < delivered[j]

DeliveredInOrder == Clean /\ "torn" \notin died => InOrder

(* The same whoever died: no log of the ring is passed on twice. *)
InOrderAnyway == Clean => InOrder

(* The slots from iLogStarIndex up to iWriteIndex, and the logs in them. *)
Waiting ==
  {k \in Slot : star >= 0 /\ IF star < widx THEN star <= k /\ k < widx
                                           ELSE star <= k \/ k < widx}

Pending == {slot[i].log : i \in Waiting}
Intact  == {slot[i].log : i \in {k \in Waiting : ~gone[k]}}

(* A log for which MtReport_Log returned 0 is passed on whole, or waits whole in the part   *)
(* of the ring the agent will read, while the ring is not full: the indexes lose nothing.   *)
(* The exceptions are named: the agent stepped over the log or knows no application for it, *)
(* or its part found no room in the variable memory, or was freed by a pass that then had   *)
(* no room for the log.                                                                     *)
NothingElseLost ==
  Clean /\ ~full =>
    \A l \in accepted : l \in whole \cup Intact \cup skipped \cup noapp \cup unsaved \cup noroom

(* ReadAppLogToBuf, return -1: the log stays for the next pass.  A log whose parts were     *)
(* saved is passed on with them.  Does not hold: the part is freed before the room is       *)
(* tested, and the next pass sends the log without it.                                      *)
PassedWhole ==
  Clean /\ died = {} =>
    \A i \in 1 .. Len(delivered) : delivered[i] \in whole \cup unsaved

(* mt_log.c, return codes: 0 is a log written.  Such a log is not stepped over. *)
AcceptedNotSkipped == Clean /\ ~full => accepted \cap skipped = {}

(* mt_log.h, wLogInShmFull: logs filled the shared memory because the agent is too slow. *)
(* Logs that a full ring loses are counted there.                                        *)
FullIsCounted ==
  Clean /\ skipped = {} /\ noapp = {} /\ ~fullcnt =>
    \A l \in accepted :
      l \in Pending \/ \E i \in 1 .. Len(delivered) : delivered[i] = l

(* mt_log.h, bTryGetLogIndex: supports several processes and threads.  Two writers that  *)
(* are both quick never share a slot of a ring that was not full.                        *)
WritersApart ==
  taint \subseteq {"unstamped", "shared"} /\ ~full =>
    \A p, q \in Writers : pc[p] \in Filling /\ pc[q] \in Filling /\ idx[p] = idx[q] => p = q

(* ReadAppLog empties the ring: a published log does not wait there for ever, as long as *)
(* no writer dies inside MtReport_Log.                                                   *)
PublishedRead ==
  [](Clean /\ died = {}) =>
    \A l \in Log : (l \in accepted /\ l \in Pending) ~> l \notin Pending

====
