--------------------------- MODULE AppLog_proofs ---------------------------
(***************************************************************************)
(* Proofs about AppLog, for any number of writers, slots, logs and any     *)
(* time-outs.                                                              *)
(***************************************************************************)
EXTENDS AppLog, TLAPS, SequenceTheorems, FiniteSetTheorems

(***************************************************************************)
(* Types.                                                                  *)
(***************************************************************************)

Slots == [log : 0 .. MaxLogs, time : Nat, seq : BOOLEAN]

(* Where a writer has a slot. *)
Reserved == Filling \cup {"w_star"}

Named == \A p \in Writers : pc[p] \in Reserved => mine[p] > 0

TypeInv == RingOK /\ LocalsOK /\ HistOK /\ Begun <= MaxLogs /\ Named

LEMMA ConstantFacts ==
  /\ Size \in Nat /\ Size >= 2
  /\ MaxLogs \in Nat
  /\ LockTimeout \in Nat
  /\ Agent \notin Writers
  /\ Agent \in Procs
  /\ Writers \subseteq Procs
  /\ 0 \in Slot
BY AppLogConstants DEF Procs, Slot

(* The writers that have begun and not reserved, when process p goes to label l. *)
LEMMA EarlyFinite ==
  ASSUME NEW f
  PROVE  /\ IsFiniteSet({q \in Writers : f[q] \in Early})
         /\ Cardinality({q \in Writers : f[q] \in Early}) \in Nat
<1>1. {q \in Writers : f[q] \in Early} \subseteq Writers
  OBVIOUS
<1>2. IsFiniteSet({q \in Writers : f[q] \in Early})
  BY <1>1, FS_Subset, AppLogConstants
<1>. QED BY <1>2, FS_CardinalityType

LEMMA EarlyStays ==
  ASSUME NEW f \in [Procs -> Labels], NEW p \in Procs, NEW l,
         p \notin Writers \/ l \notin Early \/ f[p] \in Early
  PROVE  Cardinality({q \in Writers : [f EXCEPT ![p] = l][q] \in Early})
           <= Cardinality({q \in Writers : f[q] \in Early})
<1>. DEFINE E == {q \in Writers : f[q] \in Early}
            D == {q \in Writers : [f EXCEPT ![p] = l][q] \in Early}
<1>1. \A q \in Writers : [f EXCEPT ![p] = l][q] = IF q = p THEN l ELSE f[q]
  BY ConstantFacts
<1>2. D \subseteq E
  BY <1>1
<1>3. IsFiniteSet(E)
  BY EarlyFinite
<1>. QED BY <1>2, <1>3, FS_Subset

LEMMA EarlyEnters ==
  ASSUME NEW f \in [Procs -> Labels], NEW p \in Writers, NEW l
  PROVE  Cardinality({q \in Writers : [f EXCEPT ![p] = l][q] \in Early})
           <= Cardinality({q \in Writers : f[q] \in Early}) + 1
<1>. DEFINE E == {q \in Writers : f[q] \in Early}
            D == {q \in Writers : [f EXCEPT ![p] = l][q] \in Early}
<1>1. \A q \in Writers : [f EXCEPT ![p] = l][q] = IF q = p THEN l ELSE f[q]
  BY ConstantFacts
<1>2. D \subseteq E \cup {p}
  BY <1>1
<1>3. IsFiniteSet(E) /\ Cardinality(E) \in Nat
  BY EarlyFinite
<1>4. /\ IsFiniteSet(E \cup {p})
      /\ Cardinality(E \cup {p}) <= Cardinality(E) + 1
  <2>1. /\ IsFiniteSet(E \cup {p})
        /\ Cardinality(E \cup {p}) = IF p \in E THEN Cardinality(E) ELSE Cardinality(E) + 1
    BY <1>3, FS_AddElement
  <2>. HIDE DEF E
  <2>. QED BY <2>1, <1>3
<1>5. IsFiniteSet(D) /\ Cardinality(D) <= Cardinality(E \cup {p})
  BY <1>2, <1>4, FS_Subset
<1>6. Cardinality(D) \in Nat /\ Cardinality(E \cup {p}) \in Nat
  BY <1>4, <1>5, FS_CardinalityType
<1>. HIDE DEF D, E
<1>7. Cardinality(D) <= Cardinality(E) + 1
  BY <1>3, <1>4, <1>5, <1>6
<1>. QED BY <1>7 DEF D, E

LEMMA EarlyLeaves ==
  ASSUME NEW f \in [Procs -> Labels], NEW p \in Writers, NEW l,
         f[p] \in Early, l \notin Early
  PROVE  Cardinality({q \in Writers : [f EXCEPT ![p] = l][q] \in Early}) + 1
           = Cardinality({q \in Writers : f[q] \in Early})
<1>. DEFINE E == {q \in Writers : f[q] \in Early}
            D == {q \in Writers : [f EXCEPT ![p] = l][q] \in Early}
<1>1. \A q \in Writers : [f EXCEPT ![p] = l][q] = IF q = p THEN l ELSE f[q]
  BY ConstantFacts
<1>2. D = E \ {p} /\ p \in E
  BY <1>1
<1>3. IsFiniteSet(E) /\ Cardinality(E) \in Nat
  BY EarlyFinite
<1>4. Cardinality(E \ {p}) = Cardinality(E) - 1
  <2>1. Cardinality(E \ {p}) = IF p \in E THEN Cardinality(E) - 1 ELSE Cardinality(E)
    BY <1>3, FS_RemoveElement
  <2>. QED BY <2>1, <1>2
<1>. HIDE DEF D, E
<1>5. Cardinality(D) + 1 = Cardinality(E)
  BY <1>2, <1>3, <1>4
<1>. QED BY <1>5 DEF D, E


(* A process moves on, and no log is begun or reserved. *)
LEMMA MoveBegun ==
  ASSUME TypeInv, NEW p \in Procs, NEW l \in Labels,
         p \notin Writers \/ l \notin Early \/ pc[p] \in Early,
         p \notin Writers \/ l \notin Reserved \/ pc[p] \in Reserved,
         Goto(p, l), count' = count, mine' = mine
  PROVE  /\ pc' \in [Procs -> Labels]
         /\ Begun' <= MaxLogs
         /\ Named'
<1>1. pc \in [Procs -> Labels] /\ pc' = [pc EXCEPT ![p] = l]
  BY DEF TypeInv, LocalsOK, Goto
<1>2. pc' \in [Procs -> Labels]
  BY <1>1
<1>. DEFINE N(f) == Cardinality({q \in Writers : f[q] \in Early})
<1>3. N(pc') <= N(pc)
  BY <1>1, EarlyStays
<1>4. N(pc') \in Nat /\ N(pc) \in Nat
  BY EarlyFinite
<1>5. count \in Nat /\ count + N(pc) <= MaxLogs
  BY ConstantFacts DEF TypeInv, HistOK, Begun
<1>6. Begun' = count + N(pc')
  BY DEF Begun
<1>. HIDE DEF N
<1>7. Begun' <= MaxLogs
  BY <1>3, <1>4, <1>5, <1>6, ConstantFacts
<1>8. Named'
  BY <1>1, ConstantFacts DEF TypeInv, Named
<1>. QED BY <1>2, <1>7, <1>8

LEMMA LabelFacts ==
  /\ Unstamped \subseteq Labels
  /\ Stamped \subseteq Labels
  /\ {"idle", "w_cas", "w_tmo", "w_fill", "w_pub"} \subseteq Labels
  /\ Early \cap Filling = {}
  /\ "idle" \notin Early /\ "w_star" \notin Early
  /\ Early \cap Reserved = {}
  /\ Filling \subseteq Reserved
  /\ "idle" \notin Reserved /\ "w_star" \in Reserved
BY DEF Labels, Early, Filling, Unstamped, Stamped, Reserved

LEMMA WriteStartTypes ==
  ASSUME TypeInv, NEW p \in Writers, WriteStart(p)
  PROVE  TypeInv'
<1>1. pc \in [Procs -> Labels] /\ pc' = [pc EXCEPT ![p] = "w_cas"]
  BY DEF TypeInv, LocalsOK, Goto, WriteStart
<1>2. pc' \in [Procs -> Labels]
  BY <1>1, LabelFacts
<1>. DEFINE N(f) == Cardinality({q \in Writers : f[q] \in Early})
<1>3. N(pc') <= N(pc) + 1
  BY <1>1, EarlyEnters
<1>4. N(pc') \in Nat /\ N(pc) \in Nat
  BY EarlyFinite
<1>5. count \in Nat /\ count + N(pc) < MaxLogs
  BY ConstantFacts DEF TypeInv, HistOK, Begun, WriteStart
<1>6. Begun' = count + N(pc')
  BY DEF Begun, WriteStart, hist
<1>. HIDE DEF N
<1>7. Begun' <= MaxLogs
  BY <1>3, <1>4, <1>5, <1>6, ConstantFacts
<1>8. RingOK' /\ HistOK'
  BY DEF TypeInv, RingOK, HistOK, WriteStart, ring, hist
<1>9. LocalsOK'
  BY <1>2 DEF TypeInv, RingOK, LocalsOK, WriteStart
<1>10. Named'
  BY <1>1, ConstantFacts DEF TypeInv, Named, WriteStart, Reserved, Filling
<1>. QED BY <1>7, <1>8, <1>9, <1>10 DEF TypeInv

LEMMA WriteCasTypes ==
  ASSUME TypeInv, NEW p \in Writers, WriteCas(p)
  PROVE  TypeInv'
<1>0. PICK l \in {"w_stamp", "w_tmo"} : Goto(p, l)
  BY DEF WriteCas
<1>1. pc' \in [Procs -> Labels] /\ Begun' <= MaxLogs /\ Named'
  BY <1>0, MoveBegun, LabelFacts, ConstantFacts DEF WriteCas, Early, hist, Unstamped
<1>2. RingOK' /\ HistOK'
  BY DEF TypeInv, RingOK, HistOK, WriteCas, hist
<1>3. LocalsOK'
  BY <1>1 DEF TypeInv, LocalsOK, WriteCas
<1>. QED BY <1>1, <1>2, <1>3 DEF TypeInv

LEMMA WriteTimeoutTypes ==
  ASSUME TypeInv, NEW p \in Writers, WriteTimeout(p)
  PROVE  TypeInv'
<1>0. PICK l \in {"w_stamp", "idle"} : Goto(p, l)
  BY DEF WriteTimeout
<1>1. pc' \in [Procs -> Labels] /\ Begun' <= MaxLogs /\ Named'
  BY <1>0, MoveBegun, LabelFacts, ConstantFacts DEF WriteTimeout, Early, Unstamped
<1>2. RingOK'
  BY DEF TypeInv, RingOK, WriteTimeout, ring
<1>3. LocalsOK'
  BY <1>1 DEF TypeInv, LocalsOK, WriteTimeout
<1>4. taint' \in SUBSET Taints
  BY DEF TypeInv, HistOK, WriteTimeout, Taints
<1>5. HistOK'
  BY <1>4 DEF TypeInv, HistOK, WriteTimeout
<1>. QED BY <1>1, <1>2, <1>3, <1>5 DEF TypeInv

LEMMA WriteStampTypes ==
  ASSUME TypeInv, NEW p \in Writers, WriteStamp(p)
  PROVE  TypeInv'
<1>1. pc' \in [Procs -> Labels] /\ Begun' <= MaxLogs /\ Named'
  BY MoveBegun, LabelFacts, ConstantFacts DEF WriteStamp, Early, hist, Stamped
<1>2. RingOK' /\ HistOK'
  BY DEF TypeInv, RingOK, LocalsOK, HistOK, WriteStamp, hist
<1>3. LocalsOK'
  BY <1>1 DEF TypeInv, LocalsOK, WriteStamp
<1>. QED BY <1>1, <1>2, <1>3 DEF TypeInv

LEMMA WriteReadTypes ==
  ASSUME TypeInv, NEW p \in Writers, WriteRead(p)
  PROVE  TypeInv'
<1>1. pc' \in [Procs -> Labels] /\ Begun' <= MaxLogs /\ Named'
  BY MoveBegun, LabelFacts, ConstantFacts DEF WriteRead, Early, hist, Stamped
<1>2. RingOK' /\ HistOK'
  BY DEF TypeInv, RingOK, HistOK, WriteRead, ring, hist
<1>3. LocalsOK'
  BY <1>1 DEF TypeInv, RingOK, LocalsOK, WriteRead
<1>. QED BY <1>1, <1>2, <1>3 DEF TypeInv

LEMMA WriteAdvanceTypes ==
  ASSUME TypeInv, NEW p \in Writers, WriteAdvance(p)
  PROVE  TypeInv'
<1>1. /\ pc \in [Procs -> Labels] /\ pc' = [pc EXCEPT ![p] = "w_star"]
      /\ pc[p] \in Early
      /\ count' = count + 1
  BY DEF TypeInv, LocalsOK, Goto, WriteAdvance, Early
<1>2. pc' \in [Procs -> Labels]
  BY <1>1, LabelFacts DEF Stamped
<1>. DEFINE N(f) == Cardinality({q \in Writers : f[q] \in Early})
<1>3. N(pc') + 1 = N(pc)
  BY <1>1, EarlyLeaves, LabelFacts
<1>4. N(pc') \in Nat /\ N(pc) \in Nat
  BY EarlyFinite
<1>5. count \in Nat /\ count + N(pc) <= MaxLogs
  BY ConstantFacts DEF TypeInv, HistOK, Begun
<1>6. Begun' = count' + N(pc')
  BY DEF Begun
<1>. HIDE DEF N
<1>7. Begun' <= MaxLogs /\ count' \in 0 .. MaxLogs /\ count + 1 \in 0 .. MaxLogs
  BY <1>1, <1>3, <1>4, <1>5, <1>6, ConstantFacts
<1>8. RingOK'
  BY ConstantFacts DEF TypeInv, RingOK, LocalsOK, WriteAdvance
<1>9. LocalsOK'
  BY <1>2, <1>7 DEF TypeInv, LocalsOK, WriteAdvance
<1>10. taint' \in SUBSET Taints
  BY DEF TypeInv, HistOK, WriteAdvance, Taints
<1>11. HistOK'
  BY <1>7, <1>10 DEF TypeInv, HistOK, WriteAdvance
<1>12. Named'
  <2>1. mine' = [mine EXCEPT ![p] = count + 1] /\ count + 1 > 0
    BY <1>5 DEF WriteAdvance
  <2>. QED BY <1>1, <2>1, ConstantFacts DEF TypeInv, LocalsOK, Named
<1>. QED BY <1>7, <1>8, <1>9, <1>11, <1>12 DEF TypeInv

LEMMA WriteStarTypes ==
  ASSUME TypeInv, NEW p \in Writers, WriteStar(p)
  PROVE  TypeInv'
<1>1. pc' \in [Procs -> Labels] /\ Begun' <= MaxLogs /\ Named'
  BY MoveBegun, LabelFacts, ConstantFacts DEF WriteStar, Filling, hist, Stamped
<1>2. star' \in Nat \cup {-1}
  BY DEF TypeInv, RingOK, LocalsOK, WriteStar
<1>3. RingOK' /\ HistOK'
  BY <1>2 DEF TypeInv, RingOK, HistOK, WriteStar, hist
<1>4. LocalsOK'
  BY <1>1 DEF TypeInv, LocalsOK, WriteStar
<1>. QED BY <1>1, <1>3, <1>4 DEF TypeInv

(* What a write to a slot makes of the list. *)
LEMMA SetSlotType ==
  ASSUME TypeInv, NEW i, NEW r, i \in Slot => r \in Slots, SetSlot(i, r)
  PROVE  slot' \in [Slot -> Slots]
BY DEF TypeInv, RingOK, SetSlot, Slots

LEMMA WriteSlotTypes ==
  ASSUME TypeInv, NEW p \in Writers, WriteSlot(p)
  PROVE  TypeInv'
<1>1. pc' \in [Procs -> Labels] /\ Begun' <= MaxLogs /\ Named'
  BY MoveBegun, LabelFacts, ConstantFacts DEF WriteSlot, Filling, hist, Stamped
<1>. DEFINE r == [log |-> slot[idx[p]].log, time |-> t[p], seq |-> FALSE]
<1>2. idx[p] \in Slot => r \in Slots
  BY DEF TypeInv, RingOK, LocalsOK, Slots
<1>3. SetSlot(idx[p], r)
  BY DEF WriteSlot
<1>. HIDE DEF r
<1>4. slot' \in [Slot -> Slots]
  BY <1>2, <1>3, SetSlotType
<1>5. RingOK' /\ HistOK'
  BY <1>4 DEF TypeInv, RingOK, HistOK, WriteSlot, hist, Slots
<1>6. LocalsOK'
  BY <1>1 DEF TypeInv, LocalsOK, WriteSlot
<1>. QED BY <1>1, <1>5, <1>6 DEF TypeInv

LEMMA WriteReleaseTypes ==
  ASSUME TypeInv, NEW p \in Writers, WriteRelease(p)
  PROVE  TypeInv'
<1>1. pc' \in [Procs -> Labels] /\ Begun' <= MaxLogs /\ Named'
  BY MoveBegun, LabelFacts, ConstantFacts DEF WriteRelease, Filling, hist
<1>2. RingOK' /\ HistOK'
  BY DEF TypeInv, RingOK, HistOK, WriteRelease, hist
<1>3. LocalsOK'
  BY <1>1 DEF TypeInv, LocalsOK, WriteRelease
<1>. QED BY <1>1, <1>2, <1>3 DEF TypeInv

LEMMA WriteFillTypes ==
  ASSUME TypeInv, NEW p \in Writers, WriteFill(p)
  PROVE  TypeInv'
<1>1. pc' \in [Procs -> Labels] /\ Begun' <= MaxLogs /\ Named'
  BY MoveBegun, LabelFacts, ConstantFacts DEF WriteFill, Filling, hist
<1>. DEFINE r == [slot[idx[p]] EXCEPT !.log = mine[p]]
<1>2. idx[p] \in Slot => r \in Slots
  BY DEF TypeInv, RingOK, LocalsOK, Slots
<1>3. SetSlot(idx[p], r)
  BY DEF WriteFill
<1>. HIDE DEF r
<1>4. slot' \in [Slot -> Slots]
  BY <1>2, <1>3, SetSlotType
<1>5. RingOK' /\ HistOK'
  BY <1>4 DEF TypeInv, RingOK, HistOK, WriteFill, hist, Slots
<1>6. LocalsOK'
  BY <1>1 DEF TypeInv, LocalsOK, WriteFill
<1>. QED BY <1>1, <1>5, <1>6 DEF TypeInv


LEMMA WritePublishTypes ==
  ASSUME TypeInv, NEW p \in Writers, WritePublish(p)
  PROVE  TypeInv'
<1>0. pc \in [Procs -> Labels] /\ pc' = [pc EXCEPT ![p] = "idle"]
  BY DEF TypeInv, LocalsOK, Goto, WritePublish
<1>. DEFINE N(f) == Cardinality({q \in Writers : f[q] \in Early})
<1>1. N(pc') <= N(pc) /\ N(pc') \in Nat /\ N(pc) \in Nat
  BY <1>0, EarlyStays, EarlyFinite, LabelFacts, ConstantFacts
<1>2. count \in Nat /\ count + N(pc) <= MaxLogs
  BY ConstantFacts DEF TypeInv, HistOK, Begun
<1>3. Begun' = count + N(pc')
  BY DEF Begun, WritePublish
<1>. HIDE DEF N
<1>4. Begun' <= MaxLogs
  BY <1>1, <1>2, <1>3, ConstantFacts
<1>. DEFINE r == [slot[idx[p]] EXCEPT !.seq = TRUE]
<1>5. idx[p] \in Slot => r \in Slots
  BY DEF TypeInv, RingOK, LocalsOK, Slots
<1>6. SetSlot(idx[p], r)
  BY DEF WritePublish
<1>. HIDE DEF r
<1>7. slot' \in [Slot -> Slots]
  BY <1>5, <1>6, SetSlotType
<1>8. RingOK'
  BY <1>7 DEF TypeInv, RingOK, WritePublish, Slots
<1>9. mine[p] \in Log
  BY ConstantFacts DEF TypeInv, Named, LocalsOK, WritePublish, Reserved, Filling, Log
<1>10. HistOK'
  BY <1>9 DEF TypeInv, HistOK, WritePublish
<1>11. LocalsOK'
  BY <1>0, LabelFacts, ConstantFacts DEF TypeInv, LocalsOK, WritePublish
<1>12. Named'
  BY <1>0, LabelFacts, ConstantFacts DEF TypeInv, LocalsOK, Named, WritePublish
<1>. QED BY <1>4, <1>8, <1>10, <1>11, <1>12 DEF TypeInv

LEMMA CrashTypes ==
  ASSUME TypeInv, NEW p \in Writers, Crash(p)
  PROVE  TypeInv'
<1>0. pc \in [Procs -> Labels] /\ pc' = [pc EXCEPT ![p] = "idle"]
  BY DEF TypeInv, LocalsOK, Goto, Crash
<1>. DEFINE N(f) == Cardinality({q \in Writers : f[q] \in Early})
<1>1. N(pc') <= N(pc) /\ N(pc') \in Nat /\ N(pc) \in Nat
  BY <1>0, EarlyStays, EarlyFinite, LabelFacts, ConstantFacts
<1>2. count \in Nat /\ count + N(pc) <= MaxLogs
  BY ConstantFacts DEF TypeInv, HistOK, Begun
<1>3. Begun' = count + N(pc')
  BY DEF Begun, Crash
<1>. HIDE DEF N
<1>4. Begun' <= MaxLogs
  BY <1>1, <1>2, <1>3, ConstantFacts
<1>5. RingOK' /\ HistOK'
  BY DEF TypeInv, RingOK, HistOK, Crash, ring
<1>6. LocalsOK'
  BY <1>0, LabelFacts, ConstantFacts DEF TypeInv, LocalsOK, Crash
<1>7. Named'
  BY <1>0, LabelFacts, ConstantFacts DEF TypeInv, LocalsOK, Named, Crash
<1>. QED BY <1>4, <1>5, <1>6, <1>7 DEF TypeInv

LEMMA SuccType ==
  ASSUME NEW i \in Slot
  PROVE  Succ(i) \in Slot
BY ConstantFacts DEF Succ, Slot

LEMMA ReadTypes ==
  ASSUME TypeInv, Read
  PROVE  TypeInv'
<1>0. Agent \in Procs /\ Agent \notin Writers
  BY ConstantFacts
<1>1. CASE ReadLog
  <2>1. /\ star \in Slot /\ star' = Succ(star)
        /\ UNCHANGED <<widx, lock, stamp, slot, fullcnt, now, pc, idx, t, mine, count, res,
                       accepted, skipped, full, died, taint>>
    BY <1>1 DEF ReadLog
  <2>2. star' \in Nat
    BY <2>1, SuccType, ConstantFacts DEF Slot
  <2>3. RingOK' /\ LocalsOK' /\ Begun' <= MaxLogs /\ Named'
    BY <2>1, <2>2 DEF TypeInv, RingOK, LocalsOK, Begun, Named
  <2>4. slot[star].log \in 0 .. MaxLogs
    BY <2>1 DEF TypeInv, RingOK
  <2>5. delivered' \in Seq(0 .. MaxLogs)
    <3>1. delivered' = Append(delivered, slot[star].log) \/ delivered' = delivered
      BY <1>1 DEF ReadLog
    <3>2. delivered \in Seq(0 .. MaxLogs)
      BY DEF TypeInv, HistOK
    <3>3. Append(delivered, slot[star].log) \in Seq(0 .. MaxLogs)
      BY <2>4, <3>2, AppendProperties
    <3>. QED BY <3>1, <3>2, <3>3
  <2>6. noapp' \in SUBSET (0 .. MaxLogs)
    BY <1>1, <2>4 DEF TypeInv, HistOK, ReadLog
  <2>7. HistOK'
    BY <2>1, <2>5, <2>6 DEF TypeInv, HistOK
  <2>. QED BY <2>3, <2>7 DEF TypeInv
<1>2. CASE ReadUnpublished
  <2>1. pc' \in [Procs -> Labels] /\ Begun' <= MaxLogs /\ Named'
    BY <1>0, <1>2, MoveBegun, LabelFacts DEF ReadUnpublished, Unstamped
  <2>2. star' \in Nat \cup {-1} /\ skipped' \in SUBSET (0 .. MaxLogs)
    <3>1. star \in Slot /\ Succ(star) \in Slot
      BY <1>2, SuccType DEF ReadUnpublished
    <3>2. star \in Nat /\ Succ(star) \in Nat /\ res[star] \in 0 .. MaxLogs
      BY <3>1, ConstantFacts DEF Slot, TypeInv, HistOK
    <3>. QED BY <1>2, <3>2 DEF ReadUnpublished, TypeInv, HistOK
  <2>3. RingOK' /\ HistOK' /\ LocalsOK'
    BY <1>2, <2>1, <2>2 DEF TypeInv, RingOK, LocalsOK, HistOK, ReadUnpublished
  <2>. QED BY <2>1, <2>3 DEF TypeInv
<1>3. CASE ReadClear
  <2>1. pc' \in [Procs -> Labels] /\ Begun' <= MaxLogs /\ Named'
    BY <1>0, <1>3, MoveBegun, LabelFacts DEF ReadClear, Unstamped
  <2>2. RingOK' /\ HistOK' /\ LocalsOK'
    BY <1>3, <2>1 DEF TypeInv, RingOK, LocalsOK, HistOK, ReadClear
  <2>. QED BY <2>1, <2>2 DEF TypeInv
<1>4. CASE ReadCas \/ ReadNoRoom \/ ReadDone \/ ReadEnd \/ ReadRelease
  <2>1. PICK l \in Unstamped \cup {"idle"} : Goto(Agent, l)
    BY <1>4 DEF ReadCas, ReadNoRoom, ReadDone, ReadEnd, ReadRelease, Unstamped
  <2>2. /\ lock' \in {0, 1}
        /\ UNCHANGED <<widx, star, stamp, slot, fullcnt, now, idx, t, mine, count, res, accepted,
                       delivered, skipped, noapp, full, died, taint>>
    BY <1>4 DEF ReadCas, ReadNoRoom, ReadDone, ReadEnd, ReadRelease, ring, hist, TypeInv, RingOK
  <2>3. pc' \in [Procs -> Labels] /\ Begun' <= MaxLogs /\ Named'
    BY <1>0, <2>1, <2>2, MoveBegun, LabelFacts
  <2>4. RingOK' /\ HistOK' /\ LocalsOK'
    BY <2>2, <2>3 DEF TypeInv, RingOK, LocalsOK, HistOK
  <2>. QED BY <2>3, <2>4 DEF TypeInv
<1>. QED BY <1>1, <1>2, <1>3, <1>4 DEF Read

LEMMA NextTypes ==
  ASSUME TypeInv, [Next]_vars
  PROVE  TypeInv'
<1>1. CASE Tick
  BY <1>1 DEF Tick, TypeInv, RingOK, LocalsOK, HistOK, Begun, Named, ring, locals, hist
<1>2. CASE UNCHANGED vars
  BY <1>2 DEF TypeInv, RingOK, LocalsOK, HistOK, Begun, Named, vars, ring, locals, hist
<1>3. ASSUME NEW p \in Writers, WriteStart(p) \/ Write(p) \/ Crash(p)
      PROVE  TypeInv'
  BY <1>3, WriteStartTypes, WriteCasTypes, WriteTimeoutTypes, WriteStampTypes,
     WriteReadTypes, WriteAdvanceTypes, WriteStarTypes, WriteSlotTypes, WriteReleaseTypes,
     WriteFillTypes, WritePublishTypes, CrashTypes DEF Write
<1>. QED BY <1>1, <1>2, <1>3, ReadTypes DEF Next

LEMMA InitTypes ==
  ASSUME Init
  PROVE  TypeInv
<1>1. RingOK
  <2>1. slot \in [Slot -> [log : 0 .. MaxLogs, time : Nat, seq : BOOLEAN]]
    BY ConstantFacts DEF Init
  <2>2. widx = 0 /\ star = -1 /\ lock = 0 /\ stamp = 0 /\ fullcnt = FALSE
    BY DEF Init
  <2>3. now \in Nat
    BY ConstantFacts DEF Init
  <2>. QED BY <2>1, <2>2, <2>3 DEF RingOK
<1>2. LocalsOK
  BY ConstantFacts, LabelFacts DEF Init, LocalsOK
<1>3. HistOK
  <2>1. delivered \in Seq(0 .. MaxLogs)
    BY EmptySeq DEF Init
  <2>2. res \in [Slot -> 0 .. MaxLogs] /\ count \in 0 .. MaxLogs
    BY ConstantFacts DEF Init
  <2>3. /\ accepted \in SUBSET Log
        /\ skipped \in SUBSET (0 .. MaxLogs) /\ noapp \in SUBSET (0 .. MaxLogs)
        /\ full \in BOOLEAN /\ died \in SUBSET {"torn", "whole"} /\ taint \in SUBSET Taints
    BY DEF Init
  <2>. QED BY <2>1, <2>2, <2>3 DEF HistOK
<1>4. {p \in Writers : pc[p] \in Early} = {}
  BY ConstantFacts, LabelFacts DEF Init
<1>5. Begun = 0
  <2>1. Cardinality({p \in Writers : pc[p] \in Early}) = 0
    BY <1>4, FS_EmptySet
  <2>. QED BY <2>1 DEF Init, Begun
<1>6. Begun <= MaxLogs
  BY <1>5, ConstantFacts
<1>7. Named
  BY ConstantFacts, LabelFacts DEF Init, Named
<1>. QED BY <1>1, <1>2, <1>3, <1>6, <1>7 DEF TypeInv


(***************************************************************************)
(* The lock.                                                               *)
(***************************************************************************)

(* A process that moves while the others stay. *)
LEMMA MoveFacts ==
  ASSUME TypeInv, NEW p \in Procs, NEW l, Goto(p, l)
  PROVE  /\ pc'[p] = l
         /\ \A q \in Procs \ {p} : pc'[q] = pc[q]
BY DEF TypeInv, LocalsOK, Goto

AgentAt == {"idle", "a_loop", "a_end", "a_clear", "a_rel"}

(* The labels of the agent and of the writers. *)
Sides == /\ pc[Agent] \in AgentAt
         /\ \A p \in Writers : pc[p] = "idle" \/ pc[p] \notin AgentAt

LockInv == TypeInv /\ Sides /\ RingExclusion

Busy == Unstamped \cup Stamped

(* A takeover that history calls clean takes the lock from nobody alive. *)
LEMMA CleanTakeover ==
  ASSUME LockInv, NEW p \in Writers, WriteTimeout(p), pc'[p] = "w_stamp", Clean'
  PROVE  Clean /\ lock = 1 /\ \A q \in Procs : ~Holds(q)
<1>1. ~Goto(p, "idle")
  BY MoveFacts, ConstantFacts DEF LockInv
<1>2. taint' = taint \cup (IF lock = 0 THEN {"released"} ELSE {})
             \cup (IF Holds(Agent) THEN {"agent"} ELSE {})
             \cup (IF \E q \in Writers : pc[q] = "w_stamp" THEN {"unstamped"} ELSE {})
             \cup (IF \E q \in Writers : pc[q] \in Stamped THEN {"slow"} ELSE {})
  BY <1>1 DEF WriteTimeout
<1>3. /\ taint = {} /\ lock # 0
      /\ ~Holds(Agent)
      /\ \A q \in Writers : pc[q] # "w_stamp" /\ pc[q] \notin Stamped
  BY <1>2 DEF Clean
<1>4. lock \in {0, 1}
  BY DEF LockInv, TypeInv, RingOK
<1>5. \A q \in Writers : ~Holds(q)
  BY <1>3 DEF LockInv, Sides, AgentAt, Holds, Unstamped, Stamped
<1>. QED BY <1>3, <1>4, <1>5 DEF Clean, Procs

(* The steps of a process p to label l that keep, take or free the lock. *)
LEMMA LockKept ==
  ASSUME LockInv, NEW p \in Procs, NEW l, Goto(p, l), Clean' => Clean,
         lock' = lock, l \in Busy => pc[p] \in Busy
  PROVE  RingExclusion'
<1>1. \A q \in Procs : Holds(q)' => Holds(q)
  BY MoveFacts DEF LockInv, Holds, Busy
<1>. QED BY <1>1 DEF LockInv, RingExclusion

LEMMA LockTaken ==
  ASSUME LockInv, NEW p \in Procs, NEW l, Goto(p, l), lock' = 1,
         Clean' => \A q \in Procs : ~Holds(q)
  PROVE  RingExclusion'
<1>1. ASSUME Clean', NEW q \in Procs, q # p
      PROVE  ~Holds(q)'
  BY <1>1, MoveFacts DEF LockInv, Holds
<1>. QED BY <1>1 DEF RingExclusion

LEMMA LockFreed ==
  ASSUME LockInv, NEW p \in Procs, NEW l, Goto(p, l), Clean' => Clean,
         Holds(p), l \notin Busy
  PROVE  RingExclusion'
<1>1. ASSUME Clean', NEW q \in Procs
      PROVE  ~Holds(q)'
  BY <1>1, MoveFacts DEF LockInv, RingExclusion, Holds, Busy
<1>. QED BY <1>1 DEF RingExclusion

LEMMA FreeMeansNobody ==
  ASSUME LockInv, lock = 0, Clean
  PROVE  \A q \in Procs : ~Holds(q)
BY DEF LockInv, RingExclusion

LEMMA WriterLock ==
  ASSUME LockInv, NEW p \in Writers, WriteStart(p) \/ Write(p) \/ Crash(p)
  PROVE  RingExclusion' /\ Sides'
<1>0. p \in Procs /\ p # Agent /\ Agent \in Procs /\ Writers \subseteq Procs
  BY ConstantFacts
<1>1. ASSUME NEW l, Goto(p, l), l = "idle" \/ l \notin AgentAt
      PROVE  Sides'
  BY <1>0, <1>1, MoveFacts DEF LockInv, Sides
<1>2. CASE WriteStart(p)
  <2>1. Goto(p, "w_cas") /\ lock' = lock /\ taint' = taint
    BY <1>2 DEF WriteStart, ring, hist
  <2>2. "w_cas" \notin Busy /\ "w_cas" \notin AgentAt
    BY DEF Busy, Unstamped, Stamped, AgentAt
  <2>. QED BY <1>0, <1>1, <2>1, <2>2, LockKept DEF Clean
<1>3. CASE WriteCas(p)
  <2>1. lock' = 1 /\ taint' = taint
    BY <1>3 DEF WriteCas, hist
  <2>2. CASE lock = 0
    <3>1. Goto(p, "w_stamp")
      BY <1>3, <2>2 DEF WriteCas
    <3>. QED BY <1>0, <1>1, <2>1, <2>2, <3>1, LockTaken, FreeMeansNobody DEF Clean, AgentAt
  <2>3. CASE lock # 0
    <3>1. Goto(p, "w_tmo")
      BY <1>3, <2>3 DEF WriteCas
    <3>2. lock = 1
      BY <2>3 DEF LockInv, TypeInv, RingOK
    <3>3. "w_tmo" \notin Busy /\ "w_tmo" \notin AgentAt
      BY DEF Busy, Unstamped, Stamped, AgentAt
    <3>. QED BY <1>0, <1>1, <2>1, <3>1, <3>2, <3>3, LockKept DEF Clean
  <2>. QED BY <2>2, <2>3
<1>4. CASE WriteTimeout(p)
  <2>1. lock' = lock
    BY <1>4 DEF WriteTimeout, ring
  <2>2. CASE Goto(p, "w_stamp")
    <3>1. pc'[p] = "w_stamp"
      BY <1>0, <2>2, MoveFacts DEF LockInv
    <3>2. CASE Clean'
      BY <1>0, <1>1, <1>4, <2>1, <2>2, <3>1, <3>2, LockTaken, CleanTakeover DEF AgentAt
    <3>3. CASE ~Clean'
      <4>1. RingExclusion'
        BY <3>3 DEF RingExclusion
      <4>. QED BY <1>1, <2>2, <4>1 DEF AgentAt
    <3>. QED BY <3>2, <3>3
  <2>3. CASE Goto(p, "idle") /\ UNCHANGED taint
    <3>1. "idle" \notin Busy
      BY DEF Busy, Unstamped, Stamped
    <3>. QED BY <1>0, <1>1, <2>1, <2>3, <3>1, LockKept DEF Clean
  <2>. QED BY <1>4, <2>2, <2>3 DEF WriteTimeout
<1>5. CASE WriteStamp(p) \/ WriteRead(p) \/ WriteAdvance(p) \/ WriteStar(p) \/ WriteSlot(p)
  <2>1. PICK l \in Stamped : Goto(p, l)
    BY <1>5 DEF WriteStamp, WriteRead, WriteAdvance, WriteStar, WriteSlot, Stamped
  <2>2. lock' = lock /\ taint \subseteq taint'
    BY <1>5 DEF WriteStamp, WriteRead, WriteAdvance, WriteStar, WriteSlot, ring, hist
  <2>3. pc[p] \in Busy
    BY <1>5 DEF WriteStamp, WriteRead, WriteAdvance, WriteStar, WriteSlot, Busy, Stamped, Unstamped
  <2>4. l \notin AgentAt
    BY <2>1 DEF Stamped, AgentAt
  <2>. QED BY <1>0, <1>1, <2>1, <2>2, <2>3, <2>4, LockKept DEF Clean
<1>6. CASE WriteRelease(p)
  <2>1. Goto(p, "w_fill") /\ taint' = taint /\ Holds(p)
    BY <1>6 DEF WriteRelease, hist, Holds, Stamped
  <2>2. "w_fill" \notin Busy /\ "w_fill" \notin AgentAt
    BY DEF Busy, Unstamped, Stamped, AgentAt
  <2>. QED BY <1>0, <1>1, <2>1, <2>2, LockFreed DEF Clean
<1>7. CASE WriteFill(p) \/ WritePublish(p) \/ Crash(p)
  <2>1. PICK l \in {"w_pub", "idle"} : Goto(p, l)
    BY <1>7 DEF WriteFill, WritePublish, Crash
  <2>2. lock' = lock /\ taint' = taint
    BY <1>7 DEF WriteFill, WritePublish, Crash, ring, hist
  <2>3. l \notin Busy /\ (l = "idle" \/ l \notin AgentAt)
    BY <2>1 DEF Busy, Unstamped, Stamped, AgentAt
  <2>. QED BY <1>0, <1>1, <2>1, <2>2, <2>3, LockKept DEF Clean
<1>. QED BY <1>2, <1>3, <1>4, <1>5, <1>6, <1>7 DEF Write

LEMMA AgentLock ==
  ASSUME LockInv, Read
  PROVE  RingExclusion' /\ Sides'
<1>0. Agent \in Procs /\ Agent \notin Writers /\ Writers \subseteq Procs
  BY ConstantFacts
<1>1. ASSUME NEW l \in AgentAt, Goto(Agent, l)
      PROVE  Sides'
  BY <1>0, <1>1, MoveFacts DEF LockInv, Sides
<1>2. CASE ReadCas
  <2>1. lock = 0 /\ lock' = 1 /\ Goto(Agent, "a_loop") /\ taint' = taint
    BY <1>2 DEF ReadCas, hist
  <2>. QED BY <1>0, <1>1, <2>1, LockTaken, FreeMeansNobody DEF Clean, AgentAt
<1>3. CASE ReadUnpublished \/ ReadNoRoom \/ ReadDone \/ ReadEnd \/ ReadClear
  <2>1. PICK l \in {"a_end", "a_clear", "a_rel"} : Goto(Agent, l)
    BY <1>3 DEF ReadUnpublished, ReadNoRoom, ReadDone, ReadEnd, ReadClear
  <2>2. lock' = lock /\ taint' = taint
    BY <1>3 DEF ReadUnpublished, ReadNoRoom, ReadDone, ReadEnd, ReadClear, ring, hist
  <2>3. pc[Agent] \in Busy
    BY <1>3 DEF ReadUnpublished, ReadNoRoom, ReadDone, ReadEnd, ReadClear, Busy, Unstamped
  <2>. QED BY <1>0, <1>1, <2>1, <2>2, <2>3, LockKept DEF Clean, AgentAt
<1>4. CASE ReadLog
  BY <1>4 DEF ReadLog, LockInv, RingExclusion, Clean, Holds, Sides
<1>5. CASE ReadRelease
  <2>1. Goto(Agent, "idle") /\ taint' = taint /\ Holds(Agent)
    BY <1>5 DEF ReadRelease, hist, Holds, Unstamped
  <2>2. "idle" \notin Busy
    BY DEF Busy, Unstamped, Stamped
  <2>. QED BY <1>0, <1>1, <2>1, <2>2, LockFreed DEF Clean, AgentAt
<1>. QED BY <1>2, <1>3, <1>4, <1>5 DEF Read

LEMMA InitLock ==
  ASSUME Init
  PROVE  LockInv
<1>1. \A p \in Procs : pc[p] = "idle"
  BY DEF Init
<1>2. RingExclusion /\ Sides
  BY <1>1, ConstantFacts DEF RingExclusion, Sides, Holds, AgentAt, Unstamped, Stamped
<1>. QED BY <1>2, InitTypes DEF LockInv

LEMMA NextLock ==
  ASSUME LockInv, [Next]_vars
  PROVE  LockInv'
<1>1. TypeInv'
  BY NextTypes DEF LockInv
<1>2. CASE Tick
  BY <1>1, <1>2 DEF Tick, LockInv, Sides, RingExclusion, Clean, Holds, ring, locals, hist
<1>3. CASE UNCHANGED vars
  BY <1>1, <1>3 DEF LockInv, Sides, RingExclusion, Clean, Holds, vars, ring, locals, hist
<1>4. CASE \E p \in Writers : WriteStart(p) \/ Write(p) \/ Crash(p)
  BY <1>1, <1>4, WriterLock DEF LockInv
<1>5. CASE Read
  BY <1>1, <1>5, AgentLock DEF LockInv
<1>. QED BY <1>2, <1>3, <1>4, <1>5 DEF Next

(* bTryGetLogIndex excludes, for any number of writers, logs, deaths and takeovers from  *)
(* dead holders (MtReport_Log, ReadAppLog).                                              *)
THEOREM ExclusionCorrect == Spec => []RingExclusion
<1>1. LockInv => RingExclusion
  BY DEF LockInv
<1>. QED BY <1>1, InitLock, NextLock, PTL DEF Spec


(***************************************************************************)
(* The indexes and the numbers of the logs, while exclusion holds.         *)
(***************************************************************************)

(* How many reservations ago slot i was reserved when the write index is w. *)
Distance(i, w) == IF i < w THEN w - i - 1 ELSE w + Size - i - 1
Behind(i) == Distance(i, widx)

InList == widx \in Slot /\ star \in Slot \cup {-1}

(* What writers inside MtReport_Log know of the indexes. *)
AtAdvance == \A p \in Writers : pc[p] = "w_adv" => idx[p] = widx
AtStar    == \A p \in Writers : pc[p] = "w_star" => widx = Succ(idx[p])
Owns      == \A p \in Writers : pc[p] \in Reserved => idx[p] \in Slot /\ mine[p] = res[idx[p]]
Blank     == \A p \in Writers : pc[p] \in {"w_rel", "w_fill", "w_pub"} => ~slot[idx[p]].seq
Filled    == \A p \in Writers : pc[p] = "w_pub" => slot[idx[p]].log = mine[p]

(* No slot has two writers. *)
Apart == \A p, q \in Writers :
           pc[p] \in Reserved /\ pc[q] \in Reserved /\ idx[p] = idx[q] => p = q

(* The last logs are in the slots behind the write index, in order. *)
Numbered == \A i \in Slot : res[i] = IF Behind(i) < count THEN count - Behind(i) ELSE 0

(* The read index is at a slot that was reserved, or at the write index. *)
Reading == star >= 0 /\ star # widx => Behind(star) < count

Writing == AtAdvance /\ AtStar /\ Owns /\ Blank /\ Filled /\ Apart
Ring    == InList /\ Writing /\ Numbered /\ Reading
RingInv == LockInv /\ (Clean => Ring)

LEMMA DistanceFacts ==
  ASSUME NEW i \in Slot, NEW w \in Slot
  PROVE  /\ Distance(i, w) \in 0 .. Size - 1
         /\ Distance(i, w) = Size - 1 <=> i = w
         /\ Distance(i, Succ(w)) = IF i = w THEN 0 ELSE Distance(i, w) + 1
         /\ i # w /\ Succ(i) # w => Distance(i, w) = Distance(Succ(i), w) + 1
         /\ i # w /\ Succ(i) = w => Distance(i, w) = 0
         /\ Succ(i) # i
BY ConstantFacts DEF Distance, Succ, Slot

LEMMA DistanceApart ==
  ASSUME NEW i \in Slot, NEW j \in Slot, NEW w \in Slot, Distance(i, w) = Distance(j, w)
  PROVE  i = j
BY ConstantFacts DEF Distance, Slot

(* A process goes to a place where it neither advances nor has a slot. *)
LEMMA WritingStays ==
  ASSUME LockInv, Ring, NEW p \in Procs, NEW l, Goto(p, l),
         l \notin Reserved, l # "w_adv",
         UNCHANGED <<widx, slot, res, idx>>,
         \A q \in Writers \ {p} : mine'[q] = mine[q]
  PROVE  Writing'
<1>1. /\ pc'[p] = l
      /\ \A q \in Procs \ {p} : pc'[q] = pc[q]
  BY MoveFacts DEF LockInv
<1>2. l # "w_star" /\ l \notin {"w_rel", "w_fill", "w_pub"}
  BY DEF Reserved, Filling
<1>3. Writers \subseteq Procs
  BY ConstantFacts
<1>4. AtAdvance' /\ AtStar'
  BY <1>1, <1>2, <1>3 DEF Ring, Writing, AtAdvance, AtStar
<1>5. Owns'
  BY <1>1, <1>3 DEF Ring, Writing, Owns
<1>6. Blank' /\ Filled'
  BY <1>1, <1>2, <1>3 DEF Ring, Writing, Blank, Filled
<1>7. Apart'
  BY <1>1, <1>3 DEF Ring, Writing, Apart
<1>. QED BY <1>4, <1>5, <1>6, <1>7 DEF Writing

LEMMA IndexesStay ==
  ASSUME LockInv, Ring, UNCHANGED <<widx, star, res, count>>
  PROVE  InList' /\ Numbered' /\ Reading'
BY DEF Ring, InList, Numbered, Reading, Behind

(* Steps of a writer that leave the ring alone. *)
LEMMA QuietWriter ==
  ASSUME LockInv, Ring, NEW p \in Writers,
         WriteStart(p) \/ WriteCas(p) \/ WriteTimeout(p) \/ WriteStamp(p) \/ Crash(p)
  PROVE  Ring'
<1>1. UNCHANGED <<widx, star, slot, res, count, idx>>
  BY DEF WriteStart, WriteCas, WriteTimeout, WriteStamp, Crash, ring, hist
<1>2. PICK l \in {"idle", "w_cas", "w_tmo", "w_stamp", "w_read"} : Goto(p, l)
  BY DEF WriteStart, WriteCas, WriteTimeout, WriteStamp, Crash
<1>3. \A q \in Writers \ {p} : mine'[q] = mine[q]
  BY DEF WriteStart, WriteCas, WriteTimeout, WriteStamp, Crash, LockInv, TypeInv, LocalsOK
<1>4. l \notin Reserved /\ l # "w_adv"
  BY <1>2 DEF Reserved, Filling
<1>5. Writing'
  BY <1>1, <1>2, <1>3, <1>4, WritingStays, ConstantFacts
<1>. QED BY <1>1, <1>5, IndexesStay DEF Ring

LEMMA QuietAgent ==
  ASSUME LockInv, Ring, ReadCas \/ ReadNoRoom \/ ReadDone \/ ReadEnd \/ ReadRelease
  PROVE  Ring'
<1>1. UNCHANGED <<widx, star, slot, res, count, idx, mine>>
  BY DEF ReadCas, ReadNoRoom, ReadDone, ReadEnd, ReadRelease, ring, hist
<1>2. PICK l \in {"idle", "a_loop", "a_end", "a_clear", "a_rel"} : Goto(Agent, l)
  BY DEF ReadCas, ReadNoRoom, ReadDone, ReadEnd, ReadRelease
<1>4. l \notin Reserved /\ l # "w_adv"
  BY <1>2 DEF Reserved, Filling
<1>5. Writing'
  BY <1>1, <1>2, <1>4, WritingStays, ConstantFacts
<1>. QED BY <1>1, <1>5, IndexesStay DEF Ring

(* The agent takes the read index one slot further, or ends. *)
LEMMA ReadIndexMoves ==
  ASSUME LockInv, Ring, star \in Slot, star # widx, star' = Succ(star),
         UNCHANGED <<widx, res, count>>
  PROVE  InList' /\ Numbered' /\ Reading'
<1>1. InList' /\ Numbered'
  BY SuccType DEF Ring, InList, Numbered, Behind
<1>2. Behind(star) < count
  BY ConstantFacts DEF Ring, Reading, Slot
<1>3. Succ(star) # widx => Behind(star) = Distance(Succ(star), widx) + 1
  BY DistanceFacts DEF Ring, InList, Behind
<1>4. Distance(Succ(star), widx) \in Nat /\ Behind(star) \in Nat /\ count \in Nat
  BY DistanceFacts, SuccType, ConstantFacts DEF Ring, InList, Behind, LockInv, TypeInv, HistOK
<1>5. Reading'
  BY <1>2, <1>3, <1>4 DEF Reading, Behind
<1>. QED BY <1>1, <1>5

LEMMA ReadRing ==
  ASSUME LockInv, Ring, Read
  PROVE  Ring'
<1>1. CASE ReadUnpublished
  <2>1. UNCHANGED <<widx, slot, res, count, idx, mine>> /\ Goto(Agent, "a_end")
    BY <1>1 DEF ReadUnpublished
  <2>2. Writing'
    BY <2>1, WritingStays, ConstantFacts DEF Reserved, Filling
  <2>3. star \in Slot /\ star # widx /\ (star' = Succ(star) \/ star' = star)
    BY <1>1 DEF ReadUnpublished, Unread
  <2>4. InList' /\ Numbered' /\ Reading'
    BY <2>1, <2>3, ReadIndexMoves, IndexesStay
  <2>. QED BY <2>2, <2>4 DEF Ring
<1>2. CASE ReadLog
  <2>1. UNCHANGED <<widx, slot, res, count, idx, mine, pc>>
    BY <1>2 DEF ReadLog
  <2>2. Writing'
    BY <2>1 DEF Ring, Writing, AtAdvance, AtStar, Owns, Blank, Filled, Apart
  <2>3. star \in Slot /\ star # widx /\ star' = Succ(star)
    BY <1>2 DEF ReadLog, Unread
  <2>4. InList' /\ Numbered' /\ Reading'
    BY <2>1, <2>3, ReadIndexMoves
  <2>. QED BY <2>2, <2>4 DEF Ring
<1>3. CASE ReadClear
  <2>1. UNCHANGED <<widx, slot, res, count, idx, mine>> /\ Goto(Agent, "a_rel") /\ star' = -1
    BY <1>3 DEF ReadClear
  <2>2. Writing'
    BY <2>1, WritingStays, ConstantFacts DEF Reserved, Filling
  <2>3. InList' /\ Numbered' /\ Reading'
    BY <2>1 DEF Ring, InList, Numbered, Behind, Reading
  <2>. QED BY <2>2, <2>3 DEF Ring
<1>. QED BY <1>1, <1>2, <1>3, QuietAgent DEF Read


(* Whoever holds the lock is alone with the indexes. *)
LEMMA Alone ==
  ASSUME LockInv, Clean, NEW p \in Procs, pc[p] \in Busy
  PROVE  \A q \in Procs \ {p} : pc[q] \notin Busy
BY DEF LockInv, RingExclusion, Holds, Busy

LEMMA WriteReadRing ==
  ASSUME LockInv, Clean, Ring, NEW p \in Writers, WriteRead(p)
  PROVE  Ring'
<1>1. /\ UNCHANGED <<widx, star, slot, res, count, mine>>
      /\ Goto(p, "w_adv") /\ pc[p] = "w_read"
      /\ idx' = [idx EXCEPT ![p] = widx]
  BY DEF WriteRead, ring, hist
<1>2. /\ pc'[p] = "w_adv"
      /\ \A q \in Writers \ {p} : pc'[q] = pc[q]
      /\ idx'[p] = widx
      /\ \A q \in Writers \ {p} : idx'[q] = idx[q]
  BY <1>1, MoveFacts, ConstantFacts DEF LockInv, TypeInv, LocalsOK
<1>3. "w_adv" \notin Reserved /\ "w_adv" # "w_star" /\ "w_adv" \notin {"w_rel", "w_fill", "w_pub"}
  BY DEF Reserved, Filling
<1>4. AtAdvance' /\ AtStar'
  BY <1>1, <1>2, <1>3 DEF Ring, Writing, AtAdvance, AtStar
<1>5. Owns'
  BY <1>1, <1>2, <1>3 DEF Ring, Writing, Owns
<1>6. Blank' /\ Filled'
  BY <1>1, <1>2, <1>3 DEF Ring, Writing, Blank, Filled
<1>7. Apart'
  BY <1>1, <1>2, <1>3 DEF Ring, Writing, Apart
<1>. QED BY <1>1, <1>4, <1>5, <1>6, <1>7, IndexesStay DEF Ring, Writing

(* The reservation. *)
LEMMA AdvanceFacts ==
  ASSUME LockInv, Clean, Clean', Ring, NEW p \in Writers, WriteAdvance(p)
  PROVE  /\ pc[p] = "w_adv" /\ idx[p] = widx /\ widx \in Slot
         /\ widx' = Succ(widx) /\ count' = count + 1
         /\ UNCHANGED <<star, slot, idx>>
         /\ pc'[p] = "w_star" /\ mine'[p] = count + 1 /\ res'[widx] = count + 1
         /\ \A q \in Writers \ {p} :
              /\ pc'[q] = pc[q] /\ mine'[q] = mine[q]
              /\ pc[q] \notin Busy
              /\ pc[q] \in Reserved => idx[q] # widx
         /\ \A i \in Slot \ {widx} : res'[i] = res[i]
<1>1. pc[p] = "w_adv" /\ idx[p] = widx /\ widx \in Slot
  BY DEF WriteAdvance, Ring, Writing, AtAdvance, InList
<1>2. widx' = Succ(widx) /\ count' = count + 1 /\ UNCHANGED <<star, slot, idx>>
  BY <1>1 DEF WriteAdvance, Succ
<1>3. pc'[p] = "w_star" /\ \A q \in Writers \ {p} : pc'[q] = pc[q]
  BY MoveFacts, ConstantFacts DEF WriteAdvance, LockInv
<1>4. mine'[p] = count + 1 /\ \A q \in Writers \ {p} : mine'[q] = mine[q]
  BY DEF WriteAdvance, LockInv, TypeInv, LocalsOK
<1>5. res'[widx] = count + 1 /\ \A i \in Slot \ {widx} : res'[i] = res[i]
  BY <1>1 DEF WriteAdvance
<1>6. \A q \in Writers \ {p} : pc[q] \notin Busy
  BY <1>1, Alone, ConstantFacts DEF Busy, Stamped
<1>7. \A q \in Writers : ~(pc[q] \in Filling /\ idx[q] = widx)
  BY <1>1 DEF WriteAdvance, Clean
<1>8. \A q \in Writers \ {p} : pc[q] \in Reserved => idx[q] # widx
  BY <1>6, <1>7 DEF Reserved, Busy, Stamped
<1>. QED BY <1>1, <1>2, <1>3, <1>4, <1>5, <1>6, <1>8

LEMMA WriteAdvanceRing ==
  ASSUME LockInv, Clean, Clean', Ring, NEW p \in Writers, WriteAdvance(p)
  PROVE  Ring'
<1>1. /\ pc[p] = "w_adv" /\ idx[p] = widx /\ widx \in Slot
      /\ widx' = Succ(widx) /\ count' = count + 1
      /\ UNCHANGED <<star, slot, idx>>
      /\ pc'[p] = "w_star" /\ mine'[p] = count + 1 /\ res'[widx] = count + 1
  BY AdvanceFacts
<1>2. \A q \in Writers \ {p} :
        /\ pc'[q] = pc[q] /\ mine'[q] = mine[q]
        /\ pc[q] \notin Busy
        /\ pc[q] \in Reserved => idx[q] # widx
  BY AdvanceFacts
<1>3. \A i \in Slot \ {widx} : res'[i] = res[i]
  BY AdvanceFacts
<1>4. widx' \in Slot /\ widx' # widx
  BY <1>1, SuccType, DistanceFacts
<1>5. InList'
  BY <1>1, <1>4 DEF Ring, InList
<1>6. AtAdvance' /\ AtStar'
  BY <1>1, <1>2 DEF AtAdvance, AtStar, Busy, Stamped
<1>7. Owns'
  BY <1>1, <1>2, <1>3 DEF Ring, Writing, Owns
<1>8. Blank' /\ Filled'
  BY <1>1, <1>2 DEF Ring, Writing, Blank, Filled
<1>9. Apart'
  BY <1>1, <1>2 DEF Ring, Writing, Apart
<1>10. count \in Nat
  BY ConstantFacts DEF LockInv, TypeInv, HistOK
<1>11. Numbered'
  <2>1. SUFFICES ASSUME NEW i \in Slot
                 PROVE  res'[i] = IF Distance(i, widx') < count' THEN count' - Distance(i, widx')
                                                               ELSE 0
    BY DEF Numbered, Behind
  <2>2. /\ Distance(i, widx) \in Nat
        /\ Distance(i, widx') = IF i = widx THEN 0 ELSE Distance(i, widx) + 1
    BY <1>1, DistanceFacts, ConstantFacts
  <2>3. res[i] = IF Distance(i, widx) < count THEN count - Distance(i, widx) ELSE 0
    BY DEF Ring, Numbered, Behind
  <2>. QED BY <1>1, <1>3, <1>10, <2>2, <2>3
<1>12. Reading'
  <2>1. SUFFICES ASSUME star >= 0
                 PROVE  Distance(star, widx') < count'
    BY <1>1 DEF Reading, Behind
  <2>2. star \in Slot
    BY <2>1 DEF Ring, InList
  <2>3. /\ Distance(star, widx) \in Nat
        /\ Distance(star, widx') = IF star = widx THEN 0 ELSE Distance(star, widx) + 1
    BY <1>1, <2>2, DistanceFacts, ConstantFacts
  <2>4. star # widx => Distance(star, widx) < count
    BY <2>1 DEF Ring, Reading, Behind
  <2>. QED BY <1>1, <1>10, <2>3, <2>4
<1>. QED BY <1>5, <1>6, <1>7, <1>8, <1>9, <1>11, <1>12 DEF Ring, Writing

LEMMA WriteStarRing ==
  ASSUME LockInv, Clean, Ring, NEW p \in Writers, WriteStar(p)
  PROVE  Ring'
<1>1. /\ UNCHANGED <<widx, slot, res, count, mine, idx>>
      /\ Goto(p, "w_slot") /\ pc[p] = "w_star"
      /\ star' = IF star < 0 THEN idx[p] ELSE star
  BY DEF WriteStar, hist
<1>2. /\ pc'[p] = "w_slot"
      /\ \A q \in Writers \ {p} : pc'[q] = pc[q]
  BY <1>1, MoveFacts, ConstantFacts DEF LockInv
<1>3. /\ "w_star" \in Reserved /\ "w_slot" # "w_adv" /\ "w_slot" # "w_star"
      /\ "w_slot" \notin {"w_rel", "w_fill", "w_pub"}
  BY DEF Reserved, Filling
<1>4. AtAdvance' /\ AtStar'
  BY <1>1, <1>2, <1>3 DEF Ring, Writing, AtAdvance, AtStar
<1>5. Owns'
  BY <1>1, <1>2, <1>3 DEF Ring, Writing, Owns
<1>6. Blank' /\ Filled'
  BY <1>1, <1>2, <1>3 DEF Ring, Writing, Blank, Filled
<1>7. Apart'
  BY <1>1, <1>2, <1>3 DEF Ring, Writing, Apart
<1>8. idx[p] \in Slot /\ widx = Succ(idx[p]) /\ mine[p] = res[idx[p]] /\ mine[p] > 0
  BY <1>1, <1>3 DEF Ring, Writing, Owns, AtStar, LockInv, TypeInv, Named
<1>9. InList' /\ Numbered'
  BY <1>1, <1>8 DEF Ring, InList, Numbered, Behind
<1>10. Reading'
  <2>1. CASE star >= 0
    <3>1. star' = star
      BY <1>1, <2>1 DEF LockInv, TypeInv, RingOK
    <3>. QED BY <1>1, <3>1 DEF Ring, Reading, Behind
  <2>2. CASE ~(star >= 0)
    <3>1. star' = idx[p]
      BY <1>1, <2>2 DEF LockInv, TypeInv, RingOK
    <3>2. widx \in Slot /\ idx[p] # widx /\ Distance(idx[p], widx) = 0
      BY <1>8, DistanceFacts DEF Ring, InList
    <3>3. res[idx[p]] = IF 0 < count THEN count - 0 ELSE 0
      BY <1>8, <3>2 DEF Ring, Numbered, Behind
    <3>4. 0 < count
      BY <1>8, <3>3
    <3>. QED BY <1>1, <3>1, <3>2, <3>4 DEF Reading, Behind
  <2>. QED BY <2>1, <2>2
<1>. QED BY <1>4, <1>5, <1>6, <1>7, <1>9, <1>10 DEF Ring, Writing

LEMMA WriteSlotRing ==
  ASSUME LockInv, Clean, Ring, NEW p \in Writers, WriteSlot(p) \/ WriteRelease(p) \/ WriteFill(p)
  PROVE  Ring'
<1>1. /\ UNCHANGED <<widx, star, res, count, mine, idx>>
      /\ pc[p] \in Filling
      /\ \A i \in Slot : i # idx[p] => slot'[i] = slot[i]
  BY DEF WriteSlot, WriteRelease, WriteFill, hist, SetSlot, Filling
<1>2. PICK l \in {"w_rel", "w_fill", "w_pub"} : Goto(p, l)
  BY DEF WriteSlot, WriteRelease, WriteFill
<1>3. /\ pc'[p] = l
      /\ \A q \in Writers \ {p} : pc'[q] = pc[q]
  BY <1>2, MoveFacts, ConstantFacts DEF LockInv
<1>4. /\ l \in Reserved /\ l # "w_adv" /\ l # "w_star" /\ pc[p] \in Reserved
      /\ \A m \in {"w_rel", "w_fill", "w_pub"} : m \in Reserved
  BY <1>1, <1>2 DEF Reserved, Filling
<1>5. AtAdvance' /\ AtStar'
  BY <1>1, <1>3, <1>4 DEF Ring, Writing, AtAdvance, AtStar
<1>6. Owns'
  BY <1>1, <1>3, <1>4 DEF Ring, Writing, Owns
<1>7. Apart'
  BY <1>1, <1>3, <1>4 DEF Ring, Writing, Apart
<1>8. idx[p] \in Slot /\ slot \in [Slot -> Slots]
  BY <1>4 DEF Ring, Writing, Owns, LockInv, TypeInv, RingOK, Slots
<1>9. \A q \in Writers \ {p} : pc[q] \in Reserved => slot'[idx[q]] = slot[idx[q]]
  BY <1>1, <1>4 DEF Ring, Writing, Owns, Apart
<1>10. ~slot'[idx[p]].seq
  <2>1. CASE WriteSlot(p)
    BY <1>8, <2>1 DEF WriteSlot, SetSlot, Slots
  <2>2. CASE WriteRelease(p) \/ WriteFill(p)
    <3>1. ~slot[idx[p]].seq
      BY <2>2 DEF WriteRelease, WriteFill, Ring, Writing, Blank
    <3>2. slot'[idx[p]].seq = slot[idx[p]].seq
      BY <1>8, <2>2 DEF WriteRelease, WriteFill, SetSlot, Slots
    <3>. QED BY <3>1, <3>2
  <2>. QED BY <2>1, <2>2
<1>11. l = "w_pub" => slot'[idx[p]].log = mine[p]
  <2>1. l = "w_pub" => WriteFill(p)
    BY <1>3, MoveFacts, ConstantFacts DEF WriteSlot, WriteRelease, LockInv
  <2>. QED BY <1>8, <2>1 DEF WriteFill, SetSlot, Slots
<1>12. Blank'
  BY <1>1, <1>3, <1>4, <1>9, <1>10 DEF Ring, Writing, Blank
<1>13. Filled'
  BY <1>1, <1>3, <1>4, <1>9, <1>11 DEF Ring, Writing, Filled
<1>. QED BY <1>1, <1>5, <1>6, <1>7, <1>12, <1>13, IndexesStay DEF Ring, Writing

LEMMA WritePublishRing ==
  ASSUME LockInv, Clean, Ring, NEW p \in Writers, WritePublish(p)
  PROVE  Ring'
<1>1. /\ UNCHANGED <<widx, star, res, count, idx>>
      /\ pc[p] = "w_pub" /\ Goto(p, "idle")
      /\ \A i \in Slot : i # idx[p] => slot'[i] = slot[i]
      /\ \A q \in Writers \ {p} : mine'[q] = mine[q]
  BY DEF WritePublish, SetSlot, LockInv, TypeInv, LocalsOK
<1>2. /\ pc'[p] = "idle"
      /\ \A q \in Writers \ {p} : pc'[q] = pc[q]
  BY <1>1, MoveFacts, ConstantFacts DEF LockInv
<1>3. /\ "idle" \notin Reserved /\ "w_pub" \in Reserved
      /\ \A m \in {"w_rel", "w_fill", "w_pub"} : m \in Reserved
  BY DEF Reserved, Filling
<1>4. AtAdvance' /\ AtStar'
  BY <1>1, <1>2 DEF Ring, Writing, AtAdvance, AtStar
<1>5. Owns'
  BY <1>1, <1>2, <1>3 DEF Ring, Writing, Owns
<1>6. Apart'
  BY <1>1, <1>2, <1>3 DEF Ring, Writing, Apart
<1>7. \A q \in Writers \ {p} : pc[q] \in Reserved => slot'[idx[q]] = slot[idx[q]]
  BY <1>1, <1>3 DEF Ring, Writing, Owns, Apart
<1>8. Blank' /\ Filled'
  BY <1>1, <1>2, <1>3, <1>7 DEF Ring, Writing, Blank, Filled
<1>. QED BY <1>1, <1>4, <1>5, <1>6, <1>8, IndexesStay DEF Ring, Writing

(* Exclusion that was given up stays given up. *)
LEMMA CleanBefore ==
  ASSUME [Next]_vars, Clean'
  PROVE  Clean
<1>1. \A p \in Writers : WriteStart(p) \/ Write(p) \/ Crash(p) => taint \subseteq taint'
  BY DEF WriteStart, Write, WriteCas, WriteTimeout, WriteStamp, WriteRead, WriteAdvance,
     WriteStar, WriteSlot, WriteRelease, WriteFill, WritePublish, Crash, hist
<1>2. Read => taint' = taint
  BY DEF Read, ReadCas, ReadUnpublished, ReadLog, ReadNoRoom, ReadDone, ReadEnd, ReadClear,
     ReadRelease, hist
<1>3. Tick \/ UNCHANGED vars => taint' = taint
  BY DEF Tick, vars, hist
<1>. QED BY <1>1, <1>2, <1>3 DEF Next, Clean

LEMMA NextRing ==
  ASSUME RingInv, [Next]_vars
  PROVE  RingInv'
<1>1. LockInv'
  BY NextLock DEF RingInv
<1>2. SUFFICES ASSUME Clean' PROVE Ring'
  BY <1>1 DEF RingInv
<1>3. Clean /\ LockInv /\ Ring
  BY <1>2, CleanBefore DEF RingInv
<1>4. CASE Tick \/ UNCHANGED vars
  <2>1. UNCHANGED <<widx, star, slot, pc, idx, mine, count, res>>
    BY <1>4 DEF Tick, vars, ring, locals, hist
  <2>2. Writing'
    BY <1>3, <2>1 DEF Ring, Writing, AtAdvance, AtStar, Owns, Blank, Filled, Apart
  <2>. QED BY <1>3, <2>1, <2>2, IndexesStay DEF Ring
<1>5. ASSUME NEW p \in Writers, WriteStart(p) \/ Write(p) \/ Crash(p)
      PROVE  Ring'
  BY <1>2, <1>3, <1>5, QuietWriter, WriteReadRing, WriteAdvanceRing, WriteStarRing,
     WriteSlotRing, WritePublishRing DEF Write
<1>6. CASE Read
  BY <1>3, <1>6, ReadRing
<1>. QED BY <1>4, <1>5, <1>6 DEF Next

LEMMA InitRing ==
  ASSUME Init
  PROVE  RingInv
<1>1. LockInv
  BY InitLock
<1>2. \A p \in Writers : pc[p] = "idle"
  BY ConstantFacts DEF Init
<1>3. Writing
  BY <1>2 DEF Writing, AtAdvance, AtStar, Owns, Blank, Filled, Apart, Reserved, Filling
<1>4. widx = 0 /\ star = -1 /\ count = 0 /\ \A i \in Slot : res[i] = 0
  BY DEF Init
<1>5. InList /\ Reading
  BY <1>4, ConstantFacts DEF InList, Reading
<1>6. Numbered
  <2>1. \A i \in Slot : Behind(i) \in Nat
    BY <1>4, DistanceFacts, ConstantFacts DEF Behind
  <2>. QED BY <1>4, <2>1 DEF Numbered
<1>. QED BY <1>1, <1>3, <1>5, <1>6 DEF RingInv, Ring

(* What is known of the parts in the variable memory. *)
LEMMA NextContent ==
  ASSUME TypeInv, ContentOK, [Next]_vars
  PROVE  ContentOK'
<1>1. CASE gone' = gone /\ content' = content
  BY <1>1 DEF ContentOK, content
<1>2. ASSUME NEW p \in Writers, WriteFill(p)
      PROVE  ContentOK'
  <2>1. mine[p] \in Log
    BY <1>2, ConstantFacts DEF TypeInv, Named, LocalsOK, WriteFill, Reserved, Filling, Log
  <2>2. gone' \in [Slot -> BOOLEAN]
    BY <1>2 DEF WriteFill, SetGone, ContentOK
  <2>. QED BY <1>2, <2>1, <2>2 DEF WriteFill, ContentOK
<1>3. CASE ReadLog \/ ReadNoRoom
  <2>1. star \in Slot /\ slot[star].log \in 0 .. MaxLogs
    BY <1>3 DEF ReadLog, ReadNoRoom, TypeInv, RingOK
  <2>2. gone' \in [Slot -> BOOLEAN]
    BY <1>3 DEF ReadLog, ReadNoRoom, TakePart, SetGone, ContentOK
  <2>3. \A l \in {slot[star].log} \cap Long : l \in Log
    BY <2>1, AppLogConstants DEF Log
  <2>4. noroom' \in SUBSET Log /\ unsaved' = unsaved
    BY <1>3, <2>3 DEF ReadLog, ReadNoRoom, ContentOK
  <2>5. whole' \in SUBSET (0 .. MaxLogs)
    BY <1>3, <2>1 DEF ReadLog, ReadNoRoom, ContentOK
  <2>. QED BY <2>2, <2>4, <2>5 DEF ContentOK
<1>4. ASSUME NEW p \in Writers, WriteStart(p) \/ Write(p) \/ Crash(p)
      PROVE  WriteFill(p) \/ (gone' = gone /\ content' = content)
  BY <1>4 DEF WriteStart, Write, WriteCas, WriteTimeout, WriteStamp, WriteRead, WriteAdvance,
     WriteStar, WriteSlot, WriteRelease, WritePublish, Crash, ring, hist
<1>5. Read => ReadLog \/ ReadNoRoom \/ (gone' = gone /\ content' = content)
  BY DEF Read, ReadCas, ReadUnpublished, ReadDone, ReadEnd, ReadClear, ReadRelease, ring, hist
<1>6. Tick \/ UNCHANGED vars => gone' = gone /\ content' = content
  BY DEF Tick, vars, ring, hist
<1>. QED BY <1>1, <1>2, <1>3, <1>4, <1>5, <1>6 DEF Next

(* Every field of the ring and every local of the calls keeps its range, and the two     *)
(* indexes stay inside the list while exclusion holds (MTLogShm).                        *)
THEOREM RingTypeCorrect == Spec => []TypeOK
<1>1. RingInv /\ ContentOK => TypeOK
  BY DEF RingInv, LockInv, TypeInv, Ring, InList, TypeOK, Clean
<1>2. Init => ContentOK
  BY DEF Init, ContentOK
<1>3. RingInv => TypeInv
  BY DEF RingInv, LockInv
<1>. QED BY <1>1, <1>2, <1>3, InitRing, NextRing, NextContent, PTL DEF Spec


(***************************************************************************)
(* The order of the logs that were passed on.                              *)
(***************************************************************************)

(* A published slot holds the log it was reserved for, unless a new writer has just *)
(* reserved it.                                                                     *)
Stored == \A i \in Slot :
            slot[i].seq => \/ slot[i].log = res[i]
                           \/ \E p \in Writers : pc[p] \in Torn /\ idx[p] = i

(* What was passed on is older than what is to come. *)
Older(n) == \A j \in 1 .. Len(delivered) : delivered[j] < n
Passed ==
  /\ Older(count + 1)
  /\ star >= 0 /\ star # widx => Older(res[star])
  /\ \A p \in Writers : pc[p] = "w_star" => Older(count)

Order    == Stored /\ InOrder /\ Passed
Whole    == Clean /\ "torn" \notin died
OrderInv == RingInv /\ (Whole => Order)

LEMMA OlderFacts ==
  ASSUME TypeInv, NEW m \in Int, NEW n \in Int, m <= n, Older(m)
  PROVE  Older(n)
<1>1. \A j \in 1 .. Len(delivered) : delivered[j] \in 0 .. MaxLogs
  BY LenProperties DEF TypeInv, HistOK
<1>2. \A j \in 1 .. Len(delivered) : delivered[j] \in Int
  BY <1>1, ConstantFacts
<1>. QED BY <1>2 DEF Older

(* A process that is not between its reservation and dwLogSeq = 0 moves on. *)
LEMMA OrderQuiet ==
  ASSUME TypeInv, Order, NEW p \in Procs, NEW l, Goto(p, l), l \notin Torn,
         pc[p] \notin Torn, UNCHANGED <<widx, star, slot, res, count, delivered>>,
         \A q \in Writers \ {p} : idx'[q] = idx[q]
  PROVE  Order'
<1>1. /\ pc'[p] = l
      /\ \A q \in Procs \ {p} : pc'[q] = pc[q]
      /\ Writers \subseteq Procs
  BY MoveFacts, ConstantFacts
<1>2. Stored'
  <2>1. SUFFICES ASSUME NEW i \in Slot, slot[i].seq, slot[i].log # res[i]
                 PROVE  \E q \in Writers : pc'[q] \in Torn /\ idx'[q] = i
    BY DEF Stored
  <2>2. PICK q \in Writers : pc[q] \in Torn /\ idx[q] = i
    BY <2>1 DEF Order, Stored
  <2>3. q # p
    BY <2>2
  <2>. QED BY <1>1, <2>2, <2>3
<1>3. InOrder'
  BY DEF Order, InOrder
<1>4. Passed'
  <2>1. l # "w_star"
    BY DEF Torn
  <2>. QED BY <1>1, <2>1 DEF Order, Passed, Older
<1>. QED BY <1>2, <1>3, <1>4 DEF Order

LEMMA OrderWriter ==
  ASSUME RingInv, Order, NEW p \in Writers, "torn" \notin died',
         \/ WriteStart(p) \/ WriteCas(p) \/ WriteTimeout(p) \/ WriteStamp(p)
         \/ WriteRead(p) \/ WriteRelease(p) \/ Crash(p)
  PROVE  Order'
<1>1. TypeInv
  BY DEF RingInv, LockInv
<1>2. /\ UNCHANGED <<widx, star, slot, res, count, delivered>>
      /\ \A q \in Writers \ {p} : idx'[q] = idx[q]
  BY <1>1 DEF WriteStart, WriteCas, WriteTimeout, WriteStamp, WriteRead, WriteRelease, Crash,
     ring, hist, TypeInv, LocalsOK
<1>3. PICK l \in {"idle", "w_cas", "w_tmo", "w_stamp", "w_read", "w_adv", "w_fill"} : Goto(p, l)
  BY DEF WriteStart, WriteCas, WriteTimeout, WriteStamp, WriteRead, WriteRelease, Crash
<1>4. l \notin Torn /\ pc[p] \notin Torn
  BY <1>3 DEF WriteStart, WriteCas, WriteTimeout, WriteStamp, WriteRead, WriteRelease, Crash, Torn
<1>. QED BY <1>1, <1>2, <1>3, <1>4, OrderQuiet, ConstantFacts

LEMMA OrderAdvance ==
  ASSUME RingInv, Clean, Clean', Order, NEW p \in Writers, WriteAdvance(p)
  PROVE  Order'
<1>0. LockInv /\ Ring /\ TypeInv /\ TypeInv'
  BY WriteAdvanceTypes DEF RingInv, LockInv
<1>1. /\ pc[p] = "w_adv" /\ idx[p] = widx /\ widx \in Slot
      /\ widx' = Succ(widx) /\ count' = count + 1
      /\ UNCHANGED <<star, slot, idx>>
      /\ pc'[p] = "w_star" /\ mine'[p] = count + 1 /\ res'[widx] = count + 1
  BY <1>0, AdvanceFacts
<1>2. \A q \in Writers \ {p} : pc'[q] = pc[q]
  BY <1>0, AdvanceFacts
<1>3. \A i \in Slot \ {widx} : res'[i] = res[i]
  BY <1>0, AdvanceFacts
<1>4. delivered' = delivered
  BY DEF WriteAdvance
<1>5. Stored'
  <2>1. SUFFICES ASSUME NEW i \in Slot, slot[i].seq, slot[i].log # res'[i]
                 PROVE  \E q \in Writers : pc'[q] \in Torn /\ idx[q] = i
    BY <1>1 DEF Stored
  <2>2. CASE i = widx
    BY <1>1, <2>2 DEF Torn
  <2>3. CASE i # widx
    <3>1. PICK q \in Writers : pc[q] \in Torn /\ idx[q] = i
      BY <1>3, <2>1, <2>3 DEF Order, Stored
    <3>2. q # p
      BY <1>1, <3>1 DEF Torn
    <3>. QED BY <1>2, <3>1, <3>2
  <2>. QED BY <2>2, <2>3
<1>6. InOrder'
  BY <1>4 DEF Order, InOrder
<1>7. count \in Int /\ Older(count + 1)
  BY <1>0, ConstantFacts DEF TypeInv, HistOK, Order, Passed
<1>8. Older(count + 2)
  BY <1>0, <1>7, OlderFacts
<1>9. star >= 0 /\ star # widx' => Older(res'[star])
  <2>1. CASE star = widx
    BY <1>1, <1>7, <2>1
  <2>2. CASE star # widx /\ star >= 0
    BY <1>0, <1>3, <2>2 DEF Order, Passed, Ring, InList
  <2>. QED BY <2>1, <2>2
<1>10. Passed'
  <2>2. Older(count + 1)'
    <3>1. count' + 1 = count + 2
      BY <1>1, <1>7
    <3>. QED BY <1>4, <1>8, <3>1 DEF Older
  <2>3. (star >= 0 /\ star # widx => Older(res[star]))'
    BY <1>1, <1>4, <1>9 DEF Older
  <2>4. Older(count)'
    BY <1>1, <1>4, <1>7 DEF Older
  <2>. QED BY <2>2, <2>3, <2>4 DEF Passed
<1>. QED BY <1>5, <1>6, <1>10 DEF Order


LEMMA OrderStar ==
  ASSUME RingInv, Clean, Order, NEW p \in Writers, WriteStar(p)
  PROVE  Order'
<1>0. LockInv /\ Ring /\ TypeInv
  BY DEF RingInv, LockInv
<1>1. /\ UNCHANGED <<widx, slot, res, count, mine, idx, delivered>>
      /\ Goto(p, "w_slot") /\ pc[p] = "w_star"
      /\ star' = IF star < 0 THEN idx[p] ELSE star
  BY DEF WriteStar, hist
<1>2. /\ pc'[p] = "w_slot"
      /\ \A q \in Writers \ {p} : pc'[q] = pc[q]
  BY <1>0, <1>1, MoveFacts, ConstantFacts
<1>3. Stored' /\ InOrder'
  <2>1. \A q \in Writers : pc[q] \in Torn => pc'[q] \in Torn
    BY <1>1, <1>2 DEF Torn
  <2>. QED BY <1>1, <2>1 DEF Order, Stored, InOrder
<1>4. idx[p] \in Slot /\ widx = Succ(idx[p]) /\ mine[p] = res[idx[p]] /\ mine[p] > 0
  BY <1>0, <1>1 DEF Ring, Writing, Owns, AtStar, TypeInv, Named, Reserved
<1>5. star' >= 0 /\ star' # widx => Older(res[star'])
  <2>1. CASE star >= 0
    <3>1. star' = star
      BY <1>0, <1>1, <2>1 DEF TypeInv, RingOK
    <3>. QED BY <3>1 DEF Order, Passed
  <2>2. CASE ~(star >= 0)
    <3>1. star' = idx[p]
      BY <1>0, <1>1, <2>2 DEF TypeInv, RingOK
    <3>2. widx \in Slot /\ idx[p] # widx /\ Distance(idx[p], widx) = 0
      BY <1>0, <1>4, DistanceFacts DEF Ring, InList
    <3>3. res[idx[p]] = IF 0 < count THEN count - 0 ELSE 0
      BY <1>0, <1>4, <3>2 DEF Ring, Numbered, Behind
    <3>4. res[idx[p]] = count
      BY <1>0, <1>4, <3>3, ConstantFacts DEF TypeInv, HistOK
    <3>. QED BY <1>1, <3>1, <3>4 DEF Order, Passed
  <2>. QED BY <2>1, <2>2
<1>6. Older(count)
  BY <1>1 DEF Order, Passed
<1>7. Passed'
  BY <1>1, <1>5, <1>6 DEF Order, Passed, Older
<1>. QED BY <1>3, <1>7 DEF Order

LEMMA OrderSlot ==
  ASSUME RingInv, Clean, Order, NEW p \in Writers,
         WriteSlot(p) \/ WriteFill(p) \/ WritePublish(p)
  PROVE  Order'
<1>0. LockInv /\ Ring /\ TypeInv
  BY DEF RingInv, LockInv
<1>1. /\ UNCHANGED <<widx, star, res, count, idx, delivered>>
      /\ pc[p] \in Reserved
      /\ \A i \in Slot : i # idx[p] => slot'[i] = slot[i]
  BY DEF WriteSlot, WriteFill, WritePublish, hist, SetSlot, Filling, Reserved
<1>2. PICK l \in {"w_rel", "w_pub", "idle"} : Goto(p, l)
  BY DEF WriteSlot, WriteFill, WritePublish
<1>3. /\ pc'[p] = l /\ l # "w_star"
      /\ \A q \in Writers \ {p} : pc'[q] = pc[q]
  BY <1>0, <1>2, MoveFacts, ConstantFacts
<1>4. idx[p] \in Slot /\ mine[p] = res[idx[p]] /\ slot \in [Slot -> Slots]
  BY <1>0, <1>1 DEF Ring, Writing, Owns, TypeInv, RingOK, Slots
<1>5. slot'[idx[p]].seq => slot'[idx[p]].log = res[idx[p]]
  <2>1. CASE WriteSlot(p)
    BY <1>4, <2>1 DEF WriteSlot, SetSlot
  <2>2. CASE WriteFill(p)
    BY <1>0, <1>4, <2>2 DEF WriteFill, SetSlot, Slots
  <2>3. CASE WritePublish(p)
    BY <1>0, <1>4, <2>3 DEF WritePublish, SetSlot, Slots, Ring, Writing, Filled
  <2>. QED BY <2>1, <2>2, <2>3
<1>6. Stored'
  <2>1. SUFFICES ASSUME NEW i \in Slot, slot'[i].seq, slot'[i].log # res[i]
                 PROVE  \E q \in Writers : pc'[q] \in Torn /\ idx[q] = i
    BY <1>1 DEF Stored
  <2>2. i # idx[p] /\ slot'[i] = slot[i]
    BY <1>1, <1>5, <2>1
  <2>3. PICK q \in Writers : pc[q] \in Torn /\ idx[q] = i
    BY <2>1, <2>2 DEF Order, Stored
  <2>. QED BY <1>3, <2>2, <2>3
<1>7. InOrder'
  BY <1>1 DEF Order, InOrder
<1>8. Passed'
  BY <1>1, <1>3 DEF Order, Passed, Older
<1>. QED BY <1>6, <1>7, <1>8 DEF Order

(* The number of the log at the next slot the agent reads. *)
LEMMA NextNumber ==
  ASSUME TypeInv, Ring, star \in Slot, star # widx
  PROVE  /\ res[star] \in 1 .. count
         /\ Succ(star) # widx => res[Succ(star)] = res[star] + 1
<1>1. widx \in Slot /\ Succ(star) \in Slot /\ count \in Nat
  BY SuccType, ConstantFacts DEF Ring, InList, TypeInv, HistOK
<1>. DEFINE d == Distance(star, widx)
            e == Distance(Succ(star), widx)
<1>2. d \in Nat /\ e \in Nat /\ (Succ(star) # widx => d = e + 1)
  BY <1>1, DistanceFacts, ConstantFacts
<1>3. d < count
  BY ConstantFacts DEF Ring, Reading, Behind, Slot
<1>4. /\ res[star] = IF d < count THEN count - d ELSE 0
      /\ res[Succ(star)] = IF e < count THEN count - e ELSE 0
  BY <1>1 DEF Ring, Numbered, Behind
<1>. HIDE DEF d, e
<1>. QED BY <1>1, <1>2, <1>3, <1>4

LEMMA OrderRead ==
  ASSUME RingInv, Clean, Order, ReadUnpublished \/ ReadLog
  PROVE  Order'
<1>0. LockInv /\ Ring /\ TypeInv
  BY DEF RingInv, LockInv
<1>1. /\ UNCHANGED <<widx, slot, res, count, idx>>
      /\ star \in Slot /\ star # widx /\ pc[Agent] = "a_loop"
      /\ \A q \in Writers : pc'[q] = pc[q]
  BY <1>0, MoveFacts, ConstantFacts DEF ReadUnpublished, ReadLog, Unread
<1>2. \A q \in Writers : pc[q] \notin Torn
  <2>1. \A q \in Writers : pc[q] \notin Busy
    BY <1>0, <1>1, Alone, ConstantFacts DEF Busy, Unstamped
  <2>. QED BY <2>1 DEF Busy, Stamped, Torn
<1>3. Stored'
  BY <1>1 DEF Order, Stored
<1>4. /\ res[star] \in 1 .. count /\ count \in Nat
      /\ Succ(star) # widx => res[Succ(star)] = res[star] + 1
  BY <1>0, <1>1, NextNumber, ConstantFacts DEF TypeInv, HistOK
<1>5. /\ Older(res[star]) /\ Older(count + 1) /\ InOrder
      /\ star >= 0
  BY <1>1, ConstantFacts DEF Order, Passed, Slot
<1>6. \A q \in Writers : pc'[q] # "w_star"
  BY <1>1, <1>2 DEF Torn
<1>7. star' = star \/ star' = Succ(star)
  BY DEF ReadUnpublished, ReadLog
<1>8. CASE delivered' = delivered
  <2>1. InOrder'
    BY <1>5, <1>8 DEF InOrder
  <2>2. Older(res[star] + 1)
    BY <1>0, <1>4, <1>5, OlderFacts
  <2>3. star' # widx => Older(res[star'])
    BY <1>4, <1>5, <1>7, <2>2
  <2>4. Passed'
    BY <1>1, <1>5, <1>6, <1>8, <2>3 DEF Passed, Older
  <2>. QED BY <1>3, <2>1, <2>4 DEF Order
<1>9. CASE delivered' # delivered
  <2>1. /\ star' = Succ(star) /\ delivered' = Append(delivered, slot[star].log)
        /\ slot[star].seq
    BY <1>9 DEF ReadUnpublished, ReadLog
  <2>2. slot[star].log = res[star]
    BY <1>1, <1>2, <2>1 DEF Order, Stored
  <2>3. delivered \in Seq(0 .. MaxLogs) /\ res[star] \in 0 .. MaxLogs
    BY <1>0, <1>1 DEF TypeInv, HistOK
  <2>4. /\ Len(delivered) \in Nat
        /\ Len(delivered') = Len(delivered) + 1
        /\ \A j \in 1 .. Len(delivered) : delivered'[j] = delivered[j]
        /\ delivered'[Len(delivered) + 1] = res[star]
    BY <2>1, <2>2, <2>3, AppendProperties, LenProperties
  <2>5. \A j \in 1 .. Len(delivered) : delivered[j] < res[star]
    BY <1>5 DEF Older
  <2>6. InOrder'
    <3>1. SUFFICES ASSUME NEW i \in 1 .. Len(delivered'), NEW j \in 1 .. Len(delivered'), i < j
                   PROVE  delivered'[i] < delivered'[j]
      BY DEF InOrder
    <3>2. i \in 1 .. Len(delivered) /\ (j \in 1 .. Len(delivered) \/ j = Len(delivered) + 1)
      BY <2>4, <3>1
    <3>. QED BY <1>5, <2>4, <2>5, <3>1, <3>2 DEF InOrder
  <2>7. \A j \in 1 .. Len(delivered') : delivered'[j] < res[star] + 1
    <3>1. SUFFICES ASSUME NEW j \in 1 .. Len(delivered')
                   PROVE  delivered'[j] < res[star] + 1
      OBVIOUS
    <3>2. j \in 1 .. Len(delivered) \/ j = Len(delivered) + 1
      BY <2>4, <3>1
    <3>3. \A k \in 1 .. Len(delivered) : delivered[k] \in Int
      BY <2>3, LenProperties, ConstantFacts
    <3>. QED BY <1>4, <2>4, <2>5, <3>2, <3>3
  <2>8. \A j \in 1 .. Len(delivered') : delivered'[j] \in Int
    <3>1. TypeInv'
      BY <1>0, ReadTypes DEF Read
    <3>. QED BY <3>1, LenProperties, ConstantFacts DEF TypeInv, HistOK
  <2>9. Older(count + 1)'
    BY <1>1, <1>4, <2>7, <2>8 DEF Older
  <2>10. (star >= 0 /\ star # widx => Older(res[star]))'
    BY <1>1, <1>4, <2>1, <2>7 DEF Older
  <2>11. Passed'
    BY <1>6, <2>9, <2>10 DEF Passed
  <2>. QED BY <1>3, <2>6, <2>11 DEF Order
<1>. QED BY <1>8, <1>9

LEMMA OrderAgent ==
  ASSUME RingInv, Clean, Order, Read
  PROVE  Order'
<1>0. TypeInv
  BY DEF RingInv, LockInv
<1>1. CASE ReadCas \/ ReadNoRoom \/ ReadDone \/ ReadEnd \/ ReadRelease
  <2>1. UNCHANGED <<widx, star, slot, res, count, delivered, idx>>
    BY <1>1 DEF ReadCas, ReadNoRoom, ReadDone, ReadEnd, ReadRelease, ring, hist
  <2>2. PICK l \in {"idle", "a_loop", "a_end", "a_clear", "a_rel"} : Goto(Agent, l)
    BY <1>1 DEF ReadCas, ReadNoRoom, ReadDone, ReadEnd, ReadRelease
  <2>3. l \notin Torn /\ pc[Agent] \notin Torn
    BY <1>1, <2>2 DEF ReadCas, ReadNoRoom, ReadDone, ReadEnd, ReadRelease, Torn
  <2>. QED BY <1>0, <2>1, <2>2, <2>3, OrderQuiet, ConstantFacts
<1>2. CASE ReadClear
  <2>1. /\ UNCHANGED <<widx, slot, res, count, delivered, idx>>
        /\ star' = -1
        /\ \A q \in Writers : pc'[q] = pc[q]
    BY <1>0, <1>2, MoveFacts, ConstantFacts DEF ReadClear
  <2>2. Stored' /\ InOrder'
    BY <2>1 DEF Order, Stored, InOrder
  <2>3. Passed'
    BY <2>1 DEF Order, Passed, Older
  <2>. QED BY <2>2, <2>3 DEF Order
<1>3. CASE ReadUnpublished \/ ReadLog
  BY <1>3, OrderRead
<1>. QED BY <1>1, <1>2, <1>3 DEF Read

LEMMA WholeBefore ==
  ASSUME [Next]_vars, Whole'
  PROVE  Whole /\ "torn" \notin died'
<1>1. \A p \in Writers : WriteStart(p) \/ Write(p) \/ Crash(p) => died \subseteq died'
  BY DEF WriteStart, Write, WriteCas, WriteTimeout, WriteStamp, WriteRead, WriteAdvance,
     WriteStar, WriteSlot, WriteRelease, WriteFill, WritePublish, Crash, hist
<1>2. Read => died' = died
  BY DEF Read, ReadCas, ReadUnpublished, ReadLog, ReadNoRoom, ReadDone, ReadEnd, ReadClear,
     ReadRelease, hist
<1>3. Tick \/ UNCHANGED vars => died' = died
  BY DEF Tick, vars, hist
<1>. QED BY <1>1, <1>2, <1>3, CleanBefore DEF Next, Whole

LEMMA NextOrder ==
  ASSUME OrderInv, [Next]_vars
  PROVE  OrderInv'
<1>1. RingInv'
  BY NextRing DEF OrderInv
<1>2. SUFFICES ASSUME Whole' PROVE Order'
  BY <1>1 DEF OrderInv
<1>3. Clean /\ Clean' /\ RingInv /\ Order /\ "torn" \notin died'
  BY <1>2, WholeBefore DEF OrderInv, Whole
<1>4. CASE Tick \/ UNCHANGED vars
  <2>1. UNCHANGED <<widx, star, slot, pc, idx, count, res, delivered>>
    BY <1>4 DEF Tick, vars, ring, locals, hist
  <2>2. Stored' /\ InOrder'
    BY <1>3, <2>1 DEF Order, Stored, InOrder
  <2>3. Passed'
    BY <1>3, <2>1 DEF Order, Passed, Older
  <2>. QED BY <2>2, <2>3 DEF Order
<1>5. ASSUME NEW p \in Writers, WriteStart(p) \/ Write(p) \/ Crash(p)
      PROVE  Order'
  BY <1>3, <1>5, OrderWriter, OrderAdvance, OrderStar, OrderSlot DEF Write
<1>6. CASE Read
  BY <1>3, <1>6, OrderAgent
<1>. QED BY <1>4, <1>5, <1>6 DEF Next

LEMMA InitOrder ==
  ASSUME Init
  PROVE  OrderInv
<1>1. RingInv
  BY InitRing
<1>2. delivered = <<>> /\ \A i \in Slot : slot[i].seq = FALSE
  BY DEF Init
<1>3. \A j \in 1 .. Len(delivered) : FALSE
  BY <1>2, EmptySeq
<1>4. Stored
  BY <1>2 DEF Stored
<1>5. InOrder /\ Passed
  BY <1>3 DEF InOrder, Passed, Older
<1>. QED BY <1>1, <1>4, <1>5 DEF OrderInv, Order

(* The agent passes logs on in the order of their reservations and none twice, however    *)
(* often the ring is filled and lapped and whoever died with a slot that was marked       *)
(* unpublished (iWriteIndex, iLogStarIndex, dwLogSeq in MtReport_Log and ReadAppLog).     *)
THEOREM OrderCorrect == Spec => []DeliveredInOrder
<1>1. OrderInv => DeliveredInOrder
  BY DEF OrderInv, Order, Whole, DeliveredInOrder
<1>. QED BY <1>1, InitOrder, NextOrder, PTL DEF Spec


(***************************************************************************)
(* Nothing accepted is lost while the ring is not full.                    *)
(***************************************************************************)

(* The slots the agent has still to read. *)
Ahead == {k \in Slot : star >= 0 /\ star # widx /\ Behind(k) <= Behind(star)}

Handled(l) == l \in whole \cup skipped \cup noapp \cup unsaved \cup noroom

(* The read index is at the write index only while the agent is about to clear it. *)
Closed == /\ star >= 0 /\ star = widx => pc[Agent] \in {"a_loop", "a_end", "a_clear"}
          /\ pc[Agent] = "a_clear" => star = widx

(* The log a writer writes was stepped over, or the agent comes to its slot. *)
Coming == \A p \in Writers : pc[p] \in Filling => mine[p] \in skipped \/ idx[p] \in Ahead

(* A part that is missing when a log is published was not saved. *)
Saved == \A p \in Writers : pc[p] = "w_pub" /\ gone[idx[p]] => mine[p] \in unsaved

(* Slot i holds log l, whole, for the agent, and no writer will change it. *)
Safe(l, i) ==
  /\ ~gone[i]
  /\ slot[i].seq /\ slot[i].log = l /\ res[i] = l
  /\ \A p \in Writers : pc[p] \in Reserved => idx[p] # i

Kept == \A l \in accepted : Handled(l) \/ \E i \in Ahead : Safe(l, i)

Loss    == Closed /\ Coming /\ Saved /\ Kept
Roomy   == Clean /\ ~full
LossInv == RingInv /\ (Roomy => Loss)

(* Steps that leave the logs alone: a process goes where it has no slot, or stays in it. *)
LEMMA KeptStays ==
  ASSUME TypeInv, Kept, NEW p \in Procs, NEW l, Goto(p, l), l \in Reserved => pc[p] \in Reserved,
         UNCHANGED <<widx, star, slot, gone, res, accepted, skipped, noapp, whole, unsaved, noroom>>,
         \A q \in Writers : pc'[q] \in Reserved => idx'[q] = idx[q]
  PROVE  Kept'
<1>1. \A q \in Writers : pc'[q] \in Reserved => pc[q] \in Reserved
  BY MoveFacts, ConstantFacts
<1>2. \A m, i : Safe(m, i) => Safe(m, i)'
  BY <1>1 DEF Safe
<1>3. Ahead' = Ahead
  BY DEF Ahead, Behind
<1>4. \A m : Handled(m) => Handled(m)'
  BY DEF Handled
<1>. QED BY <1>2, <1>3, <1>4 DEF Kept

LEMMA ComingStays ==
  ASSUME TypeInv, Coming, NEW p \in Procs, NEW l, Goto(p, l), l \in Filling => pc[p] \in Filling,
         UNCHANGED <<widx, star, skipped>>,
         \A q \in Writers : pc'[q] \in Filling => idx'[q] = idx[q] /\ mine'[q] = mine[q]
  PROVE  Coming'
<1>1. \A q \in Writers : pc'[q] \in Filling => pc[q] \in Filling
  BY MoveFacts, ConstantFacts
<1>2. Ahead' = Ahead
  BY DEF Ahead, Behind
<1>. QED BY <1>1, <1>2 DEF Coming

LEMMA SavedStays ==
  ASSUME TypeInv, Saved, NEW p \in Procs, NEW l, Goto(p, l), l # "w_pub",
         \A q \in Writers : pc[q] = "w_pub" => gone'[idx[q]] = gone[idx[q]],
         unsaved \subseteq unsaved',
         \A q \in Writers : pc'[q] = "w_pub" => idx'[q] = idx[q] /\ mine'[q] = mine[q]
  PROVE  Saved'
<1>1. \A q \in Writers : pc'[q] = "w_pub" => pc[q] = "w_pub"
  BY MoveFacts, ConstantFacts
<1>. QED BY <1>1 DEF Saved

LEMMA LossWriter ==
  ASSUME RingInv, Loss, NEW p \in Writers,
         \/ WriteStart(p) \/ WriteCas(p) \/ WriteTimeout(p) \/ WriteStamp(p)
         \/ WriteRead(p) \/ WriteRelease(p) \/ Crash(p)
  PROVE  Loss'
<1>0. TypeInv /\ p \in Procs /\ p # Agent /\ Agent \in Procs /\ Writers \subseteq Procs
  BY ConstantFacts DEF RingInv, LockInv
<1>1. /\ UNCHANGED <<widx, star, slot, gone, res, accepted, skipped, noapp, whole, unsaved, noroom>>
      /\ \A q \in Writers \ {p} : idx'[q] = idx[q] /\ mine'[q] = mine[q]
  BY <1>0 DEF WriteStart, WriteCas, WriteTimeout, WriteStamp, WriteRead, WriteRelease, Crash,
     ring, hist, content, TypeInv, LocalsOK
<1>2. PICK l \in {"idle", "w_cas", "w_tmo", "w_stamp", "w_read", "w_adv", "w_fill"} :
        /\ Goto(p, l)
        /\ l = "w_fill" => pc[p] \in Filling /\ pc[p] \in Reserved /\ UNCHANGED <<idx, mine>>
  BY DEF WriteStart, WriteCas, WriteTimeout, WriteStamp, WriteRead, WriteRelease, Crash, Filling,
     Reserved
<1>3. pc'[p] = l /\ \A q \in Procs \ {p} : pc'[q] = pc[q]
  BY <1>0, <1>2, MoveFacts
<1>4. l \in Reserved => l = "w_fill"
  BY <1>2 DEF Reserved, Filling
<1>5. l \in Filling => l = "w_fill"
  BY <1>2 DEF Filling
<1>6. \A q \in Writers : pc'[q] \in Reserved => idx'[q] = idx[q] /\ mine'[q] = mine[q]
  BY <1>1, <1>2, <1>3, <1>4
<1>7. Kept'
  BY <1>0, <1>1, <1>2, <1>4, <1>6, KeptStays DEF Loss
<1>8. Coming'
  BY <1>0, <1>1, <1>2, <1>5, <1>6, ComingStays, LabelFacts DEF Loss
<1>9. Closed'
  BY <1>0, <1>1, <1>3 DEF Loss, Closed
<1>10. Saved'
  <2>1. \A q \in Writers : pc'[q] = "w_pub" => pc'[q] \in Reserved
    BY DEF Reserved, Filling
  <2>. QED BY <1>0, <1>1, <1>2, <1>6, <2>1, SavedStays DEF Loss
<1>. QED BY <1>7, <1>8, <1>9, <1>10 DEF Loss

LEMMA LossAdvance ==
  ASSUME RingInv, Clean, Clean', ~full', Loss, NEW p \in Writers, WriteAdvance(p)
  PROVE  Loss'
<1>0. LockInv /\ Ring /\ TypeInv
  BY DEF RingInv, LockInv
<1>1. /\ pc[p] = "w_adv" /\ idx[p] = widx /\ widx \in Slot
      /\ widx' = Succ(widx)
      /\ UNCHANGED <<star, slot, idx>>
      /\ pc'[p] = "w_star"
  BY <1>0, AdvanceFacts
<1>2. \A q \in Writers \ {p} :
        /\ pc'[q] = pc[q] /\ mine'[q] = mine[q]
        /\ pc[q] \in Reserved => idx[q] # widx
  BY <1>0, AdvanceFacts
<1>3. \A i \in Slot \ {widx} : res'[i] = res[i]
  BY <1>0, AdvanceFacts
<1>4. /\ UNCHANGED <<gone, accepted, skipped, noapp, whole, unsaved, noroom>>
      /\ star # widx'
  BY <1>1 DEF WriteAdvance, content
<1>5. pc'[Agent] # "a_clear"
  <2>1. pc[Agent] \notin Busy
    BY <1>0, <1>1, Alone, ConstantFacts DEF Busy, Stamped
  <2>2. pc'[Agent] = pc[Agent]
    BY <1>0, MoveFacts, ConstantFacts DEF WriteAdvance
  <2>. QED BY <2>1, <2>2 DEF Busy, Unstamped
<1>6. \A k \in Ahead : k # widx /\ k \in Ahead'
  <2>1. SUFFICES ASSUME NEW k \in Ahead PROVE k # widx /\ k \in Ahead'
    OBVIOUS
  <2>2. k \in Slot /\ star \in Slot /\ star >= 0 /\ star # widx
        /\ Distance(k, widx) <= Distance(star, widx)
    BY <1>0, <2>1 DEF Ahead, Behind, Ring, InList
  <2>3. /\ Distance(k, widx) \in 0 .. Size - 1 /\ Distance(star, widx) \in 0 .. Size - 1
        /\ (Distance(k, widx) = Size - 1 <=> k = widx)
        /\ (Distance(star, widx) = Size - 1 <=> star = widx)
        /\ Distance(k, widx') = IF k = widx THEN 0 ELSE Distance(k, widx) + 1
        /\ Distance(star, widx') = IF star = widx THEN 0 ELSE Distance(star, widx) + 1
    BY <1>1, <2>2, DistanceFacts
  <2>4. k # widx
    BY <2>2, <2>3, ConstantFacts
  <2>5. Distance(k, widx') <= Distance(star, widx')
    BY <2>2, <2>3, <2>4, ConstantFacts
  <2>. QED BY <1>1, <1>4, <2>2, <2>4, <2>5 DEF Ahead, Behind
<1>7. Closed'
  BY <1>1, <1>4, <1>5 DEF Closed
<1>8. Coming'
  BY <1>1, <1>2, <1>4, <1>6 DEF Loss, Coming, Filling
<1>9. Kept'
  <2>1. SUFFICES ASSUME NEW l \in accepted, ~Handled(l)
                 PROVE  \E i \in Ahead' : Safe(l, i)'
    BY <1>4 DEF Kept, Handled
  <2>2. PICK i \in Ahead : Safe(l, i)
    BY <2>1 DEF Loss, Kept
  <2>3. i \in Slot /\ i # widx /\ i \in Ahead'
    BY <1>6, <2>2 DEF Ahead
  <2>4. Safe(l, i)'
    BY <1>1, <1>2, <1>3, <1>4, <2>2, <2>3 DEF Safe
  <2>. QED BY <2>3, <2>4
<1>10. Saved'
  BY <1>1, <1>2, <1>4 DEF Loss, Saved
<1>. QED BY <1>7, <1>8, <1>9, <1>10 DEF Loss

LEMMA LossStar ==
  ASSUME RingInv, Clean, Loss, NEW p \in Writers, WriteStar(p)
  PROVE  Loss'
<1>0. LockInv /\ Ring /\ TypeInv
  BY DEF RingInv, LockInv
<1>1. /\ UNCHANGED <<widx, slot, gone, res, mine, idx, accepted, skipped, noapp, whole, unsaved,
                     noroom>>
      /\ Goto(p, "w_slot") /\ pc[p] = "w_star"
      /\ star' = IF star < 0 THEN idx[p] ELSE star
  BY DEF WriteStar, hist, content
<1>2. /\ pc'[p] = "w_slot"
      /\ \A q \in Writers \ {p} : pc'[q] = pc[q]
  BY <1>0, <1>1, MoveFacts, ConstantFacts
<1>3. /\ idx[p] \in Slot /\ widx = Succ(idx[p]) /\ widx \in Slot /\ idx[p] # widx
      /\ Distance(idx[p], widx) = 0
  <2>1. idx[p] \in Slot /\ widx = Succ(idx[p]) /\ widx \in Slot
    BY <1>0, <1>1 DEF Ring, Writing, Owns, AtStar, Reserved, InList
  <2>. QED BY <2>1, DistanceFacts
<1>4. (star >= 0 => star # widx) /\ pc'[Agent] # "a_clear"
  <2>1. pc[Agent] \notin Busy
    BY <1>0, <1>1, Alone, ConstantFacts DEF Busy, Stamped
  <2>2. pc'[Agent] = pc[Agent]
    BY <1>0, <1>1, MoveFacts, ConstantFacts
  <2>. QED BY <2>1, <2>2 DEF Loss, Closed, Busy, Unstamped
<1>5. star' >= 0 /\ star' \in Slot /\ star' # widx /\ (star >= 0 => star' = star)
  BY <1>0, <1>1, <1>3, <1>4, ConstantFacts DEF Ring, InList, Slot
<1>6. idx[p] \in Ahead'
  <2>1. Distance(star', widx) >= 0
    BY <1>3, <1>5, DistanceFacts, ConstantFacts
  <2>. QED BY <1>1, <1>3, <1>5, <2>1 DEF Ahead, Behind
<1>7. Ahead \subseteq Ahead'
  BY <1>1, <1>5 DEF Ahead, Behind
<1>8. Closed'
  BY <1>1, <1>4, <1>5 DEF Closed
<1>9. Coming'
  BY <1>1, <1>2, <1>6, <1>7 DEF Loss, Coming
<1>10. Kept'
  <2>1. \A q \in Writers : pc'[q] \in Reserved => pc[q] \in Reserved
    BY <1>1, <1>2 DEF Reserved
  <2>2. \A m, i : Safe(m, i) => Safe(m, i)'
    BY <1>1, <2>1 DEF Safe
  <2>3. \A m : Handled(m) => Handled(m)'
    BY <1>1 DEF Handled
  <2>. QED BY <1>1, <1>7, <2>2, <2>3 DEF Loss, Kept
<1>11. Saved'
  BY <1>1, <1>2 DEF Loss, Saved
<1>. QED BY <1>8, <1>9, <1>10, <1>11 DEF Loss


LEMMA LossSlot ==
  ASSUME RingInv, Clean, Loss, NEW p \in Writers,
         WriteSlot(p) \/ WriteFill(p) \/ WritePublish(p)
  PROVE  Loss'
<1>0. LockInv /\ Ring /\ TypeInv
  BY DEF RingInv, LockInv
<1>1. /\ UNCHANGED <<widx, star, res, idx, skipped, noapp, whole, noroom>>
      /\ unsaved \subseteq unsaved'
      /\ \A i \in Slot : i # idx[p] => gone'[i] = gone[i]
      /\ pc[p] \in Filling /\ pc[p] \in Reserved
      /\ \A i \in Slot : i # idx[p] => slot'[i] = slot[i]
      /\ \A q \in Writers \ {p} : mine'[q] = mine[q]
  <2>1. CASE WriteSlot(p) \/ WritePublish(p)
    BY <1>0, <2>1 DEF WriteSlot, WritePublish, hist, content, SetSlot, Filling, Reserved, TypeInv,
       LocalsOK
  <2>2. CASE WriteFill(p)
    BY <2>2 DEF WriteFill, SetSlot, SetGone, Filling, Reserved
  <2>. QED BY <2>1, <2>2
<1>2. PICK l \in {"w_rel", "w_pub", "idle"} : Goto(p, l)
  BY DEF WriteSlot, WriteFill, WritePublish
<1>3. /\ pc'[p] = l
      /\ \A q \in Procs \ {p} : pc'[q] = pc[q]
      /\ Agent \in Procs \ {p} /\ Writers \subseteq Procs
  BY <1>0, <1>2, MoveFacts, ConstantFacts
<1>4. idx[p] \in Slot /\ mine[p] = res[idx[p]] /\ slot \in [Slot -> Slots]
  BY <1>0, <1>1 DEF Ring, Writing, Owns, TypeInv, RingOK, Slots
<1>5. Ahead' = Ahead
  BY <1>1 DEF Ahead, Behind
<1>6. Closed'
  BY <1>1, <1>3 DEF Loss, Closed
<1>7. Coming'
  <2>1. pc'[p] \in Filling => mine' = mine
    <3>1. WriteSlot(p) \/ WriteFill(p) => mine' = mine
      BY DEF WriteSlot, WriteFill
    <3>2. WritePublish(p) => pc'[p] = "idle"
      BY <1>0, MoveFacts, ConstantFacts DEF WritePublish
    <3>. QED BY <3>1, <3>2, LabelFacts DEF Filling
  <2>. QED BY <1>1, <1>3, <1>5, <2>1 DEF Loss, Coming
<1>8. \A m : Handled(m) => Handled(m)'
  BY <1>1 DEF Handled
<1>9. ASSUME NEW m, NEW i \in Ahead, Safe(m, i)
      PROVE  Safe(m, i)'
  <2>1. i \in Slot /\ i # idx[p]
    BY <1>1, <1>9 DEF Ahead, Safe
  <2>. QED BY <1>1, <1>3, <1>9, <2>1 DEF Safe
<1>10. accepted' = accepted => Kept'
  BY <1>5, <1>8, <1>9 DEF Loss, Kept
<1>11. ASSUME WritePublish(p)
       PROVE  Kept'
  <2>1. /\ accepted' = accepted \cup {mine[p]} /\ pc[p] = "w_pub" /\ pc'[p] = "idle"
        /\ slot'[idx[p]] = [slot[idx[p]] EXCEPT !.seq = TRUE]
    BY <1>0, <1>4, <1>11, MoveFacts, ConstantFacts DEF WritePublish, SetSlot
  <2>2. slot'[idx[p]].seq /\ slot'[idx[p]].log = mine[p]
    BY <1>0, <1>4, <2>1 DEF Slots, Ring, Writing, Filled
  <2>9. gone' = gone /\ unsaved' = unsaved /\ (gone[idx[p]] => mine[p] \in unsaved)
    BY <1>11, <2>1 DEF WritePublish, content, Loss, Saved
  <2>3. \A q \in Writers : pc'[q] \in Reserved => idx[q] # idx[p]
    <3>1. "idle" \notin Reserved
      BY LabelFacts
    <3>. QED BY <1>0, <1>1, <1>3, <2>1, <3>1 DEF Ring, Writing, Apart
  <2>4. PICK m, k : m = mine[p] /\ k = idx[p]
    OBVIOUS
  <2>5. Safe(m, k)' \/ Handled(m)'
    BY <1>1, <1>4, <2>2, <2>3, <2>4, <2>9 DEF Safe, Handled
  <2>6. m \in skipped \/ k \in Ahead
    BY <1>1, <2>4 DEF Loss, Coming
  <2>7. Handled(m)' \/ \E i \in Ahead' : Safe(m, i)'
    BY <1>1, <1>5, <2>5, <2>6 DEF Handled
  <2>8. accepted' = accepted \cup {m}
    BY <2>1, <2>4
  <2>. QED BY <1>5, <1>8, <1>9, <2>7, <2>8 DEF Loss, Kept
<1>12. Saved'
  <2>1. \A q \in Writers \ {p} : pc[q] = "w_pub" => idx[q] \in Slot /\ idx[q] # idx[p]
    BY <1>0, <1>1 DEF Ring, Writing, Owns, Apart, Reserved, Filling
  <2>2. SUFFICES ASSUME pc'[p] = "w_pub", gone'[idx[p]] PROVE mine'[p] \in unsaved'
    BY <1>1, <1>3, <2>1 DEF Loss, Saved
  <2>3. WriteFill(p)
    BY <1>0, <2>2, MoveFacts, ConstantFacts DEF WriteSlot, WritePublish
  <2>. QED BY <1>4, <2>2, <2>3 DEF WriteFill, SetGone
<1>. QED BY <1>6, <1>7, <1>10, <1>11, <1>12 DEF Loss, WriteSlot, WriteFill, hist


(* The agent takes the read index over a slot: what it leaves behind has been handled. *)
LEMMA AheadMoves ==
  ASSUME TypeInv, Ring, star \in Slot, star # widx, star' = Succ(star), widx' = widx
  PROVE  \A k \in Ahead : k = star \/ k \in Ahead'
<1>1. SUFFICES ASSUME NEW k \in Ahead, k # star
               PROVE  k \in Ahead'
  OBVIOUS
<1>2. /\ k \in Slot /\ widx \in Slot /\ Succ(star) \in Slot
      /\ Distance(k, widx) <= Distance(star, widx)
  BY <1>1, SuccType DEF Ahead, Behind, Ring, InList
<1>3. Distance(k, widx) # Distance(star, widx)
  BY <1>1, <1>2, DistanceApart
<1>4. Distance(k, widx) \in Nat /\ Distance(star, widx) \in Nat /\ Distance(Succ(star), widx) \in Nat
  BY <1>2, DistanceFacts, ConstantFacts
<1>5. Succ(star) # widx
  BY <1>2, <1>3, <1>4, DistanceFacts
<1>6. Distance(star, widx) = Distance(Succ(star), widx) + 1
  BY <1>2, <1>5, DistanceFacts
<1>7. Distance(k, widx) <= Distance(Succ(star), widx)
  BY <1>2, <1>3, <1>4, <1>6
<1>8. Succ(star) >= 0
  BY <1>2, ConstantFacts DEF Slot
<1>. QED BY <1>2, <1>5, <1>7, <1>8 DEF Ahead, Behind

LEMMA LossRead ==
  ASSUME RingInv, Clean, Loss, ReadUnpublished \/ ReadLog \/ ReadNoRoom
  PROVE  Loss'
<1>0. LockInv /\ Ring /\ TypeInv
  BY DEF RingInv, LockInv
<1>1. /\ UNCHANGED <<widx, slot, res, idx, mine, accepted>>
      /\ star \in Slot /\ star # widx /\ star >= 0
      /\ skipped \subseteq skipped' /\ noapp \subseteq noapp' /\ whole \subseteq whole'
      /\ noroom \subseteq noroom' /\ unsaved' = unsaved
      /\ \A i \in Slot \ {star} : gone'[i] = gone[i]
      /\ star' = star \/ star' = Succ(star)
      /\ pc[Agent] = "a_loop"
      /\ \A q \in Writers : pc'[q] = pc[q]
  <2>1. CASE ReadUnpublished
    BY <1>0, <2>1, MoveFacts, ConstantFacts DEF ReadUnpublished, Unread, content
  <2>2. CASE ReadLog
    BY <1>0, <2>2, MoveFacts, ConstantFacts DEF ReadLog, Unread, TakePart, SetGone
  <2>3. CASE ReadNoRoom
    BY <1>0, <2>3, MoveFacts, ConstantFacts DEF ReadNoRoom, Unread, TakePart, SetGone
  <2>. QED BY <2>1, <2>2, <2>3
<1>2. Closed'
  <2>1. pc'[Agent] \in {"a_loop", "a_end"} \/ (pc'[Agent] = "a_rel" /\ star' = star)
    BY <1>0, MoveFacts, ConstantFacts DEF ReadUnpublished, ReadLog, ReadNoRoom
  <2>. QED BY <1>1, <2>1 DEF Closed
<1>3. \A k \in Ahead : k = star \/ k \in Ahead'
  <2>1. CASE star' = star
    BY <1>1, <2>1 DEF Ahead, Behind
  <2>2. CASE star' = Succ(star)
    BY <1>0, <1>1, <2>2, AheadMoves
  <2>. QED BY <1>1, <2>1, <2>2
<1>4. star \notin Ahead' => star' # star
  <2>1. Distance(star, widx) \in Int
    BY <1>0, <1>1, DistanceFacts, ConstantFacts DEF Ring, InList
  <2>. QED BY <1>1, <2>1 DEF Ahead, Behind
<1>5. Coming'
  <2>1. SUFFICES ASSUME NEW q \in Writers, pc[q] \in Filling, mine[q] \notin skipped,
                        idx[q] = star, star' # star
                 PROVE  mine[q] \in skipped'
    BY <1>1, <1>3, <1>4 DEF Loss, Coming
  <2>2. mine[q] = res[star]
    BY <1>0, <2>1, LabelFacts DEF Ring, Writing, Owns
  <2>3. ~slot[star].seq
    <3>1. pc[q] \notin Busy
      BY <1>0, <1>1, Alone, ConstantFacts DEF Busy, Unstamped
    <3>2. pc[q] \in {"w_fill", "w_pub"}
      BY <2>1, <3>1 DEF Filling, Busy, Stamped
    <3>. QED BY <1>0, <2>1, <3>2 DEF Ring, Writing, Blank
  <2>4. skipped' = skipped \cup {res[star]}
    BY <2>1, <2>3 DEF ReadUnpublished, ReadLog, ReadNoRoom
  <2>. QED BY <2>2, <2>4
<1>6. Saved'
  <2>1. SUFFICES ASSUME NEW q \in Writers, pc[q] = "w_pub", gone'[idx[q]]
                 PROVE  mine[q] \in unsaved
    BY <1>1 DEF Saved
  <2>2. idx[q] \in Slot /\ ~slot[idx[q]].seq
    BY <1>0, <2>1 DEF Ring, Writing, Owns, Blank, Reserved, Filling
  <2>3. gone'[idx[q]] = gone[idx[q]]
    BY <1>1, <2>2 DEF ReadUnpublished, ReadLog, ReadNoRoom
  <2>. QED BY <2>1, <2>3 DEF Loss, Saved
<1>7. \A m : Handled(m) => Handled(m)'
  BY <1>1 DEF Handled
<1>8. \A m, i : i \in Ahead /\ i # star /\ Safe(m, i) => Safe(m, i)'
  BY <1>1 DEF Safe, Ahead
<1>9. ASSUME NEW m, Safe(m, star)
      PROVE  Handled(m)' \/ (star' = star /\ Safe(m, star)')
  <2>1. slot[star].seq /\ slot[star].log = m /\ ~gone[star]
    BY <1>9 DEF Safe
  <2>2. CASE ReadLog
    BY <2>1, <2>2 DEF ReadLog, Handled
  <2>3. CASE ReadNoRoom
    <3>1. m \in Long => m \in noroom'
      BY <2>1, <2>3 DEF ReadNoRoom
    <3>2. m \notin Long => ~gone'[star]
      BY <1>1, <2>1, <2>3 DEF ReadNoRoom, TakePart, SetGone
    <3>3. star' = star
      BY <2>3 DEF ReadNoRoom
    <3>. QED BY <1>1, <1>9, <3>1, <3>2, <3>3 DEF Handled, Safe
  <2>. QED BY <2>1, <2>2, <2>3 DEF ReadUnpublished
<1>10. Kept'
  <2>1. SUFFICES ASSUME NEW m \in accepted, ~Handled(m)'
                 PROVE  \E i \in Ahead' : Safe(m, i)'
    BY <1>1 DEF Kept
  <2>2. PICK i \in Ahead : Safe(m, i)
    BY <1>7, <2>1 DEF Loss, Kept
  <2>3. i = star => star' = star /\ Safe(m, i)'
    BY <1>9, <2>1, <2>2
  <2>. QED BY <1>3, <1>4, <1>8, <2>2, <2>3
<1>. QED BY <1>2, <1>5, <1>6, <1>10 DEF Loss

LEMMA LossAgent ==
  ASSUME RingInv, Clean, Loss, Read
  PROVE  Loss'
<1>0. TypeInv /\ Agent \in Procs /\ Agent \notin Writers /\ Writers \subseteq Procs
  BY ConstantFacts DEF RingInv, LockInv
<1>1. CASE ReadCas \/ ReadDone \/ ReadEnd \/ ReadRelease
  <2>1. UNCHANGED <<widx, star, slot, gone, res, idx, mine, accepted, skipped, noapp, whole, unsaved,
                   noroom>>
    BY <1>1 DEF ReadCas, ReadDone, ReadEnd, ReadRelease, ring, hist, content
  <2>2. PICK l \in AgentAt : Goto(Agent, l)
    BY <1>1 DEF ReadCas, ReadDone, ReadEnd, ReadRelease, AgentAt
  <2>3. l \notin Reserved /\ l \notin Filling
    BY <2>2 DEF Reserved, Filling, AgentAt
  <2>4. Kept'
    BY <1>0, <2>1, <2>2, <2>3, KeptStays DEF Loss
  <2>5. Coming'
    BY <1>0, <2>1, <2>2, <2>3, ComingStays DEF Loss
  <2>6. Closed'
    <3>0. pc'[Agent] = "a_clear" => star = widx
      BY <1>0, <1>1, MoveFacts DEF ReadCas, ReadDone, ReadEnd, ReadRelease
    <3>1. SUFFICES ASSUME star >= 0, star = widx
                   PROVE  pc'[Agent] \in {"a_loop", "a_end", "a_clear"}
      BY <2>1, <3>0 DEF Closed
    <3>2. pc[Agent] \in {"a_loop", "a_end", "a_clear"}
      BY <3>1 DEF Loss, Closed
    <3>3. ReadDone \/ ReadEnd
      BY <1>1, <3>1, <3>2 DEF ReadCas, ReadRelease, Unread
    <3>. QED BY <1>0, <3>1, <3>3, MoveFacts DEF ReadDone, ReadEnd
  <2>7. Saved'
    BY <1>0, <2>1, <2>2, <2>3, SavedStays DEF Loss, Filling
  <2>. QED BY <2>4, <2>5, <2>6, <2>7 DEF Loss
<1>2. CASE ReadClear
  <2>1. /\ UNCHANGED <<widx, slot, gone, res, idx, mine, accepted, skipped, noapp, whole, unsaved,
                      noroom>>
        /\ star' = -1 /\ pc'[Agent] = "a_rel"
        /\ \A q \in Writers : pc'[q] = pc[q]
    BY <1>0, <1>2, MoveFacts DEF ReadClear, content
  <2>2. Ahead = {}
    BY <1>2 DEF ReadClear, Loss, Closed, Ahead
  <2>3. Closed'
    BY <2>1 DEF Closed
  <2>4. Coming'
    BY <2>1, <2>2 DEF Loss, Coming
  <2>5. Kept'
    BY <2>1, <2>2 DEF Loss, Kept, Handled
  <2>6. Saved'
    BY <2>1 DEF Loss, Saved
  <2>. QED BY <2>3, <2>4, <2>5, <2>6 DEF Loss
<1>3. CASE ReadUnpublished \/ ReadLog \/ ReadNoRoom
  BY <1>3, LossRead
<1>. QED BY <1>1, <1>2, <1>3 DEF Read


LEMMA RoomyBefore ==
  ASSUME [Next]_vars, Roomy'
  PROVE  Roomy
<1>1. \A p \in Writers : (WriteStart(p) \/ Write(p) \/ Crash(p)) /\ full => full'
  BY DEF WriteStart, Write, WriteCas, WriteTimeout, WriteStamp, WriteRead, WriteAdvance,
     WriteStar, WriteSlot, WriteRelease, WriteFill, WritePublish, Crash, hist
<1>2. Read => full' = full
  BY DEF Read, ReadCas, ReadUnpublished, ReadLog, ReadNoRoom, ReadDone, ReadEnd, ReadClear,
     ReadRelease, hist
<1>3. Tick \/ UNCHANGED vars => full' = full
  BY DEF Tick, vars, hist
<1>. QED BY <1>1, <1>2, <1>3, CleanBefore DEF Next, Roomy

LEMMA NextLoss ==
  ASSUME LossInv, [Next]_vars
  PROVE  LossInv'
<1>1. RingInv'
  BY NextRing DEF LossInv
<1>2. SUFFICES ASSUME Roomy' PROVE Loss'
  BY <1>1 DEF LossInv
<1>3. Clean /\ Clean' /\ ~full' /\ RingInv /\ Loss
  BY <1>2, RoomyBefore DEF LossInv, Roomy
<1>4. CASE Tick \/ UNCHANGED vars
  <2>1. UNCHANGED <<widx, star, slot, gone, pc, idx, mine, res, accepted, skipped, noapp, whole,
                    unsaved, noroom>>
    BY <1>4 DEF Tick, vars, ring, locals, hist, content
  <2>2. Ahead' = Ahead
    BY <2>1 DEF Ahead, Behind
  <2>3. Closed' /\ Coming' /\ Saved'
    BY <1>3, <2>1, <2>2 DEF Loss, Closed, Coming, Saved
  <2>4. /\ \A m, i : Safe(m, i) => Safe(m, i)'
        /\ \A m : Handled(m) => Handled(m)'
    BY <2>1 DEF Safe, Handled
  <2>5. Kept'
    BY <1>3, <2>1, <2>2, <2>4 DEF Loss, Kept
  <2>. QED BY <2>3, <2>5 DEF Loss
<1>5. ASSUME NEW p \in Writers, WriteStart(p) \/ Write(p) \/ Crash(p)
      PROVE  Loss'
  BY <1>3, <1>5, LossWriter, LossAdvance, LossStar, LossSlot DEF Write
<1>6. CASE Read
  BY <1>3, <1>6, LossAgent
<1>. QED BY <1>4, <1>5, <1>6 DEF Next

LEMMA InitLoss ==
  ASSUME Init
  PROVE  LossInv
<1>1. RingInv
  BY InitRing
<1>2. star = -1 /\ accepted = {} /\ \A p \in Procs : pc[p] = "idle"
  BY DEF Init
<1>3. Closed
  BY <1>2, ConstantFacts DEF Closed
<1>4. Coming /\ Saved /\ Kept
  BY <1>2, ConstantFacts, LabelFacts DEF Coming, Saved, Kept, Filling
<1>. QED BY <1>1, <1>3, <1>4 DEF LossInv, Loss

(* A log for which MtReport_Log returned 0 is passed on whole or waits whole in the part   *)
(* of the ring the agent will read, as long as the ring was never full, or it went one of  *)
(* the named ways: stepped over, no application, its part not saved, or its part freed by  *)
(* a pass without room for it (MtReport_Log, ReadAppLog, ReadAppLogToBuf).                 *)
THEOREM NothingLostCorrect == Spec => []NothingElseLost
<1>1. LossInv => NothingElseLost
  <2>1. SUFFICES ASSUME LossInv, Clean, ~full, NEW l \in accepted, ~Handled(l)
                 PROVE  l \in Intact
    BY DEF NothingElseLost, Handled
  <2>2. PICK i \in Ahead : Safe(l, i)
    BY <2>1 DEF LossInv, Roomy, Loss, Kept
  <2>3. Ahead \subseteq Waiting
    <3>1. SUFFICES ASSUME NEW k \in Ahead PROVE k \in Waiting
      OBVIOUS
    <3>2. /\ k \in Slot /\ star \in Slot /\ widx \in Slot /\ star >= 0 /\ star # widx
          /\ Distance(k, widx) <= Distance(star, widx)
      BY <2>1, <3>1 DEF Ahead, Behind, LossInv, RingInv, Ring, InList
    <3>3. IF star < widx THEN star <= k /\ k < widx ELSE star <= k \/ k < widx
      BY <3>2, ConstantFacts DEF Distance, Slot
    <3>. QED BY <3>2, <3>3 DEF Waiting
  <2>. QED BY <2>2, <2>3 DEF Intact, Safe
<1>. QED BY <1>1, InitLoss, NextLoss, PTL DEF Spec

====
