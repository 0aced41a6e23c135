------------------------ MODULE WriteDispatch_proofs ------------------------
(***************************************************************************)
(* Proofs about WriteDispatch, for any number of applications, children,   *)
(* processes that log, places, deaths and restarts.                        *)
(***************************************************************************)
EXTENDS WriteDispatch, TLAPS, SequenceTheorems, FiniteSetTheorems

-----------------------------------------------------------------------------
(* The inductive invariant. *)

AtRecord(c) == pc[c] \in {"record", "advance", "lock", "store"}
AtFile(c) == pc[c] = "file" \/ AtRecord(c)

MainInv == mpc = "index" => mapp \in Apps /\ mto \in Children

ChildAt(c) ==
  /\ ~Running(c) => files[c] = <<>> /\ passAge[c] = 0
  /\ Running(c) => slot[c].total = Len(files[c])
  /\ AtFile(c) => pos[c] <= Len(files[c])

ChildInv == \A c \in Children : ChildAt(c)

(* A log counts as written only while its writer runs. *)
LiveWrote ==
  \A a \in Apps : \A i \in Index : \A c \in Children : wrote[a][i] = c => Running(c)

TypeInv == TypeOK /\ MainInv /\ ChildInv /\ LiveWrote

(* The pass of c has called WriteFile for the i-th application. *)
Visited(c, i) == i < pos[c] \/ (i = pos[c] /\ AtRecord(c)) \/ pc[c] \in {"accept", "run"}

(* No pass was slow. *)
InTime == \A c \in Children : Running(c) => 2 * passAge[c] < CheckTime

(* While there is a main process: an application that this pass visited was tried when the
   pass began, or later; one that it did not was tried when the last pass began. *)
Tried ==
  mpc # "dead" =>
    \A c \in Children : \A i \in 1..Len(files[c]) :
      /\ Visited(c, i) => age[files[c][i]] <= passAge[c]
      /\ 2 * age[files[c][i]] < CheckTime + 2 * passAge[c]

Unique ==
  \A c, d \in Children : \A i \in 1..Len(files[c]), j \in 1..Len(files[d]) :
    files[c][i] = files[d][j] => c = d /\ i = j

(* While there is a main process, an application in the slot of a child that runs has been
   given to it since it last looked there, in this pass or between two. *)
GivenInTime(c) ==
  /\ 2 * age[slot[c].app] < CheckTime + 2 * passAge[c]
  /\ pc[c] = "run" => age[slot[c].app] <= passAge[c]

BeingGiven(c) == mpc = "index" /\ mto = c /\ mapp = slot[c].app

(* The application in a slot is in no list and in no other slot. *)
Given ==
  \A c \in Children : Running(c) /\ slot[c].app # None =>
    /\ mpc = "dead" \/ GivenInTime(c) \/ BeingGiven(c)
    /\ \A d \in Children : \A j \in 1..Len(files[d]) : files[d][j] # slot[c].app
    /\ \A d \in Children : Running(d) /\ slot[d].app = slot[c].app => d = c

WriterInv == InTime /\ Tried /\ Unique /\ Given

WriterPart == taint \cap {"slow", "torn", "stop"} = {} => WriterInv

LEMMA Consts ==
  /\ NApps \in Nat \ {0} /\ NChildren \in Nat \ {0} /\ MaxFiles \in Nat \ {0}
  /\ CheckTime \in Nat \ {0} /\ PerLoop \in Nat \ {0} /\ RingSize \in Nat \ {0}
  /\ NServers \in Nat \ {0} /\ NLoggers \in Nat /\ MaxDeaths \in Nat
BY DispatchSizes

LEMMA NoneFacts == None \notin Apps /\ None \notin Children /\ 1 \in Apps
BY Consts DEF None, Apps, Children

LEMMA IndexFacts ==
  /\ 0 \in Index /\ NoLog \notin Index
  /\ \A i \in Index : NextIndex(i) \in Index
BY Consts DEF Index, NoLog, NextIndex

LEMMA EmptyList == <<>> \in Seq(Apps) /\ Len(<<>>) = 0
BY EmptySeq

LEMMA FilesFacts ==
  ASSUME ChildrenOK, NEW c \in Children
  PROVE  /\ files[c] \in Seq(Apps) /\ Len(files[c]) \in 0..MaxFiles
         /\ \A i \in 1..Len(files[c]) : files[c][i] \in Apps
         /\ files[c] = <<>> <=> Len(files[c]) = 0
<1>1. files[c] \in Seq(Apps) /\ Len(files[c]) <= MaxFiles
  BY DEF ChildrenOK
<1>. QED BY <1>1, Consts, LenProperties, EmptySeq

(* The application whose ring a child works on. *)
LEMMA CurrentApp ==
  ASSUME ChildrenOK, ChildInv, NEW c \in Children, AtFile(c)
  PROVE  pos[c] \in 1..Len(files[c]) /\ App(c) \in Apps
<1>1. pos[c] <= Len(files[c]) /\ pos[c] \in Nat /\ pos[c] >= 1
  BY DEF ChildInv, ChildAt, ChildrenOK
<1>. QED BY <1>1, FilesFacts DEF App

LEMMA TypeInit == Init => TypeInv
<1>. SUFFICES ASSUME Init PROVE TypeInv
  OBVIOUS
<1>1. AppsOK
  BY Consts DEF Init, AppsOK
<1>2. RingOK /\ LiveWrote
  BY IndexFacts, NoneFacts DEF Init, RingOK, LiveWrote
<1>3. SlotsOK
  BY Consts, NoneFacts DEF Init, SlotsOK
<1>4. SourcesOK
  BY IndexFacts, NoneFacts DEF Init, SourcesOK
<1>5. MainOK /\ MainInv
  BY DEF Init, MainOK, MainInv
<1>6. ChildrenOK
  BY Consts, EmptyList, IndexFacts DEF Init, ChildrenOK, ChildLabels
<1>7. ChildInv
  BY DEF Init, ChildInv, ChildAt, Running, AtFile, AtRecord
<1>8. stopping \in BOOLEAN /\ deaths \in 0..MaxDeaths /\ taint \subseteq Taints
  <2>1. stopping = FALSE /\ deaths = 0 /\ taint = {}
    BY DEF Init
  <2>2. 0 \in 0..MaxDeaths
    BY Consts
  <2>. QED BY <2>1, <2>2
<1>. QED BY <1>1, <1>2, <1>3, <1>4, <1>5, <1>6, <1>7, <1>8 DEF TypeInv, TypeOK

-----------------------------------------------------------------------------
(* The steps of the types. *)

(* A step that leaves the children and their slots alone. *)
LEMMA SameChildren ==
  ASSUME TypeInv, UNCHANGED childVars, \A c \in Children : slot'[c].total = slot[c].total
  PROVE  ChildrenOK' /\ ChildInv' /\ \A c \in Children : Running(c)' <=> Running(c)
<1>1. UNCHANGED <<pc, files, pos, at, done, passAge>>
  BY DEF childVars
<1>2. ChildrenOK'
  BY <1>1 DEF TypeInv, TypeOK, ChildrenOK
<1>3. ASSUME NEW d \in Children PROVE ChildAt(d)'
  BY <1>1 DEF TypeInv, ChildInv, ChildAt, Running, AtFile, AtRecord
<1>. QED BY <1>1, <1>2, <1>3 DEF ChildInv, Running

(* A step that leaves the rings alone. *)
LEMMA SameRing ==
  ASSUME TypeInv, UNCHANGED ringVars, \A c \in Children : Running(c) => Running(c)'
  PROVE  RingOK' /\ LiveWrote'
<1>1. UNCHANGED <<widx, start, seq, wrote>> /\ RingOK
  BY DEF ringVars, TypeInv, TypeOK
<1>2. RingOK'
  BY <1>1 DEF RingOK
<1>3. LiveWrote'
  BY <1>1 DEF TypeInv, LiveWrote
<1>. QED BY <1>2, <1>3

LEMMA SameSources ==
  ASSUME TypeInv, UNCHANGED sourceVars
  PROVE  SourcesOK'
BY DEF TypeInv, TypeOK, SourcesOK, sourceVars

LEMMA SameMain ==
  ASSUME TypeInv, UNCHANGED mainVars
  PROVE  MainOK' /\ MainInv'
BY DEF TypeInv, TypeOK, MainOK, MainInv, mainVars

LEMMA SourceMoves ==
  ASSUME TypeInv, NEW s \in Sources,
         \/ SourceIdle(s)
         \/ \E l \in {"fill", "test", "lock", "set", "mark"} : SourceAt(s, l)
  PROVE  SourcesOK'
<1>1. CASE SourceIdle(s)
  BY <1>1, IndexFacts, NoneFacts DEF TypeInv, TypeOK, SourcesOK, SourceIdle
<1>2. ASSUME NEW l \in {"fill", "test", "lock", "set", "mark"}, SourceAt(s, l) PROVE SourcesOK'
  BY <1>2 DEF TypeInv, TypeOK, SourcesOK, SourceAt
<1>. QED BY <1>1, <1>2

LEMMA KnownMoves ==
  ASSUME TypeInv, NEW s \in Sources, StartKnown(s)
  PROVE  SourcesOK'
BY SourceMoves DEF StartKnown

(* InitGetShmLogIndex and the history. *)
LEMMA LockTaint ==
  ASSUME TypeInv, NEW a, InitGetShmLogIndex(a)
  PROVE  taint' \subseteq Taints /\ taint \subseteq taint'
         /\ taint' \cap {"slow", "torn", "stop"} = taint \cap {"slow", "torn", "stop"}
BY DEF TypeInv, TypeOK, InitGetShmLogIndex, Taints

(* A step of a process that logs, by what it does to the rings, the flag and itself. *)
LEMMA SourceStep ==
  ASSUME TypeInv, UNCHANGED <<age, statRead, slotVars, mainVars, childVars, stopping>>,
         flag' \in [Apps -> BOOLEAN], SourcesOK',
         RingOK', \A a \in Apps : \A i \in Index : wrote'[a][i] \in {None, wrote[a][i]},
         deaths' \in 0..MaxDeaths, taint' \subseteq Taints
  PROVE  TypeInv'
<1>0. UNCHANGED <<slot, ready>>
  BY DEF slotVars
<1>1. ChildrenOK' /\ ChildInv' /\ \A c \in Children : Running(c)' <=> Running(c)
  BY <1>0, SameChildren
<1>2. AppsOK' /\ SlotsOK' /\ stopping' \in BOOLEAN
  BY <1>0 DEF TypeInv, TypeOK, AppsOK, SlotsOK
<1>3. LiveWrote'
  <2>. SUFFICES ASSUME NEW a \in Apps, NEW i \in Index, NEW c \in Children, wrote'[a][i] = c
                PROVE  Running(c)'
    BY DEF LiveWrote
  <2>1. wrote[a][i] = c
    BY NoneFacts
  <2>. QED BY <1>1, <2>1 DEF TypeInv, LiveWrote
<1>. QED BY <1>1, <1>2, <1>3, SameMain DEF TypeInv, TypeOK

LEMMA ReserveType ==
  ASSUME TypeInv, NEW s \in Sources, NEW a \in Apps, Reserve(s, a)
  PROVE  TypeInv'
<1>0. /\ UNCHANGED <<age, statRead, slotVars, mainVars, childVars, stopping>>
      /\ UNCHANGED <<start, seq, wrote, deaths>>
  BY DEF Reserve
<1>1. flag' \in [Apps -> BOOLEAN]
  BY DEF Reserve, TypeInv, TypeOK, AppsOK
<1>2. taint' \subseteq Taints /\ deaths' \in 0..MaxDeaths
  BY <1>0, LockTaint DEF Reserve, TypeInv, TypeOK
<1>3. widx[a] \in Index /\ RingOK /\ SourcesOK
  BY DEF TypeInv, TypeOK, RingOK
<1>4. CASE start[a] = widx[a] /\ UNCHANGED <<widx, sourceVars>>
  <2>1. RingOK' /\ SourcesOK'
    BY <1>0, <1>3, <1>4, SameSources DEF RingOK
  <2>. QED BY <1>0, <1>1, <1>2, <2>1, SourceStep
<1>5. CASE /\ start[a] # widx[a]
           /\ widx' = [widx EXCEPT ![a] = NextIndex(@)]
           /\ spc' = [spc EXCEPT ![s] = "blank"]
           /\ sapp' = [sapp EXCEPT ![s] = a] /\ sidx' = [sidx EXCEPT ![s] = widx[a]]
  <2>1. RingOK'
    BY <1>0, <1>3, <1>5, IndexFacts DEF RingOK
  <2>2. SourcesOK'
    BY <1>3, <1>5 DEF SourcesOK
  <2>. QED BY <1>0, <1>1, <1>2, <2>1, <2>2, SourceStep
<1>. QED BY <1>4, <1>5 DEF Reserve

LEMMA SourceType ==
  ASSUME TypeInv, NEW s \in Sources, Source(s) \/ SourceDies(s)
  PROVE  TypeInv'
<1>. DEFINE a == sapp[s]
            i == sidx[s]
<1>0. /\ a \in Apps /\ i \in Index /\ RingOK /\ deaths \in 0..MaxDeaths /\ taint \subseteq Taints
      /\ flag \in [Apps -> BOOLEAN]
  BY DEF TypeInv, TypeOK, SourcesOK, AppsOK
<1>1. CASE Blank(s)
  <2>1. /\ UNCHANGED <<age, statRead, slotVars, mainVars, childVars, stopping>>
        /\ UNCHANGED <<flag, widx, start, deaths, taint>>
        /\ SourceAt(s, "fill")
    BY <1>1 DEF Blank, appVars
  <2>2. seq' = [seq EXCEPT ![a][i] = FALSE] /\ wrote' = [wrote EXCEPT ![a][i] = None]
    BY <1>1 DEF Blank
  <2>3. RingOK'
    BY <1>0, <2>1, <2>2 DEF RingOK
  <2>4. \A b \in Apps : \A j \in Index : wrote'[b][j] \in {None, wrote[b][j]}
    BY <1>0, <2>2 DEF RingOK
  <2>5. SourcesOK'
    BY <2>1, SourceMoves
  <2>. QED BY <1>0, <2>1, <2>3, <2>4, <2>5, SourceStep
<1>2. CASE Publish(s)
  <2>1. /\ UNCHANGED <<age, statRead, slotVars, mainVars, childVars, stopping>>
        /\ UNCHANGED <<flag, widx, start, wrote, deaths, taint>>
        /\ SourceAt(s, "test") /\ seq' = [seq EXCEPT ![a][i] = TRUE]
    BY <1>2 DEF Publish, appVars
  <2>2. RingOK'
    BY <1>0, <2>1 DEF RingOK
  <2>3. SourcesOK'
    BY <2>1, SourceMoves
  <2>. QED BY <1>0, <2>1, <2>2, <2>3, SourceStep
<1>3. CASE TestStart(s)
  <2>1. /\ UNCHANGED <<age, statRead, slotVars, mainVars, childVars, stopping>>
        /\ UNCHANGED <<flag, ringVars, deaths, taint>>
        /\ SourceAt(s, "lock") \/ StartKnown(s)
    BY <1>3 DEF TestStart, appVars
  <2>2. RingOK' /\ UNCHANGED wrote
    BY <1>0, <2>1 DEF RingOK, ringVars
  <2>3. SourcesOK'
    BY <2>1, SourceMoves, KnownMoves
  <2>. QED BY <1>0, <2>1, <2>2, <2>3, SourceStep
<1>4. CASE EnterSet(s)
  <2>1. /\ UNCHANGED <<age, statRead, slotVars, mainVars, childVars, stopping>>
        /\ UNCHANGED <<flag, ringVars, deaths>>
        /\ SourceAt(s, "set") /\ InitGetShmLogIndex(a)
    BY <1>4 DEF EnterSet, appVars
  <2>2. RingOK' /\ UNCHANGED wrote
    BY <1>0, <2>1 DEF RingOK, ringVars
  <2>3. SourcesOK' /\ taint' \subseteq Taints
    BY <2>1, SourceMoves, LockTaint
  <2>. QED BY <1>0, <2>1, <2>2, <2>3, SourceStep
<1>5. CASE SetStart(s)
  <2>1. /\ UNCHANGED <<age, statRead, slotVars, mainVars, childVars, stopping>>
        /\ UNCHANGED <<flag, widx, seq, wrote, deaths>>
        /\ StartKnown(s)
    BY <1>5 DEF SetStart, appVars
  <2>2. RingOK'
    BY <1>0, <1>5, <2>1 DEF SetStart, RingOK
  <2>3. SourcesOK'
    BY <2>1, KnownMoves
  <2>4. taint' \subseteq Taints
    BY <1>0, <1>5 DEF SetStart, Taints
  <2>. QED BY <1>0, <2>1, <2>2, <2>3, <2>4, SourceStep
<1>6. CASE SetLogFlag(s)
  <2>1. /\ UNCHANGED <<age, statRead, slotVars, mainVars, childVars, stopping>>
        /\ UNCHANGED <<ringVars, deaths, taint>>
        /\ SourceIdle(s) /\ flag' = [flag EXCEPT ![a] = TRUE]
    BY <1>6 DEF SetLogFlag
  <2>2. RingOK' /\ UNCHANGED wrote
    BY <1>0, <2>1 DEF RingOK, ringVars
  <2>3. SourcesOK' /\ flag' \in [Apps -> BOOLEAN]
    BY <1>0, <2>1, SourceMoves
  <2>. QED BY <1>0, <2>1, <2>2, <2>3, SourceStep
<1>7. CASE SourceDies(s)
  <2>1. /\ UNCHANGED <<age, statRead, slotVars, mainVars, childVars, stopping>>
        /\ UNCHANGED <<flag, ringVars>>
        /\ SourceIdle(s)
    BY <1>7 DEF SourceDies, appVars
  <2>2. RingOK' /\ UNCHANGED wrote
    BY <1>0, <2>1 DEF RingOK, ringVars
  <2>3. SourcesOK'
    BY <2>1, SourceMoves
  <2>4. taint' \subseteq Taints /\ deaths' \in 0..MaxDeaths
    BY <1>0, <1>7, Consts DEF SourceDies, Taints
  <2>. QED BY <1>0, <2>1, <2>2, <2>3, <2>4, SourceStep
<1>. QED BY <1>1, <1>2, <1>3, <1>4, <1>5, <1>6, <1>7 DEF Source

LEMMA MainType ==
  ASSUME TypeInv, Main
  PROVE  TypeInv'
<1>0. UNCHANGED <<ringVars, ready, sourceVars, childVars, stopping, deaths, taint>>
  BY DEF Main, ChildrenReady, ReadStat, TryDispatchAppWrite, StoreIndex, slotVars
<1>1. /\ AppsOK /\ SlotsOK /\ MainOK
      /\ stopping' \in BOOLEAN /\ deaths' \in 0..MaxDeaths /\ taint' \subseteq Taints
  BY <1>0 DEF TypeInv, TypeOK
<1>2. ASSUME AppsOK', SlotsOK', MainOK', MainInv',
             \A c \in Children : slot'[c].total = slot[c].total
      PROVE  TypeInv'
  <2>1. ChildrenOK' /\ ChildInv' /\ \A c \in Children : Running(c)' <=> Running(c)
    BY <1>0, <1>2, SameChildren
  <2>2. RingOK' /\ LiveWrote'
    BY <1>0, <2>1, SameRing
  <2>3. SourcesOK'
    BY <1>0, SameSources
  <2>. QED BY <1>1, <1>2, <2>1, <2>2, <2>3 DEF TypeInv, TypeOK
<1>3. CASE ChildrenReady
  <2>1. UNCHANGED <<flag, age, statRead, slot, mapp, mto>> /\ mpc' = "scan"
    BY <1>3 DEF ChildrenReady, appVars, slotVars
  <2>2. AppsOK' /\ SlotsOK' /\ MainOK' /\ MainInv'
    BY <1>0, <1>1, <2>1 DEF AppsOK, SlotsOK, MainOK, MainInv
  <2>. QED BY <1>2, <2>1, <2>2
<1>4. ASSUME NEW a \in Apps, ReadStat(a) PROVE TypeInv'
  <2>1. UNCHANGED <<flag, slot, mpc, mapp, mto>>
    BY <1>4 DEF ReadStat, mainVars, slotVars
  <2>2. AppsOK'
    BY <1>1, <1>4, <2>1, Consts DEF ReadStat, AppsOK
  <2>3. SlotsOK' /\ MainOK' /\ MainInv'
    BY <1>0, <2>1 DEF TypeInv, TypeOK, SlotsOK, MainOK, MainInv
  <2>. QED BY <1>2, <2>1, <2>2, <2>3
<1>5. ASSUME NEW a \in Apps, TryDispatchAppWrite(a) PROVE TypeInv'
  <2>1. UNCHANGED <<flag, age, statRead>>
    BY <1>5 DEF TryDispatchAppWrite, appVars
  <2>2. PICK c \in Children : slot' = [slot EXCEPT ![c].app = a] /\ mto' = c
    BY <1>5 DEF TryDispatchAppWrite, Idlest, FreeSlots
  <2>3. SlotsOK' /\ \A d \in Children : slot'[d].total = slot[d].total
    BY <1>0, <1>1, <2>2 DEF SlotsOK
  <2>4. AppsOK'
    BY <1>1, <2>1 DEF AppsOK
  <2>5. MainOK' /\ MainInv'
    BY <1>5, <2>2 DEF TryDispatchAppWrite, MainOK, MainInv
  <2>. QED BY <1>2, <2>3, <2>4, <2>5
<1>6. CASE StoreIndex
  <2>2. mapp \in Apps /\ mto \in Children
    BY <1>6 DEF StoreIndex, TypeInv, MainInv
  <2>3. SlotsOK' /\ \A d \in Children : slot'[d].total = slot[d].total
    BY <1>0, <1>1, <1>6, <2>2 DEF StoreIndex, SlotsOK
  <2>5. AppsOK'
    BY <1>1, <1>6, <2>2, Consts DEF StoreIndex, AppsOK
  <2>6. MainOK' /\ MainInv'
    BY <1>6 DEF StoreIndex, MainOK, MainInv
  <2>. QED BY <1>2, <2>3, <2>5, <2>6
<1>. QED BY <1>3, <1>4, <1>5, <1>6 DEF Main

(* The main process ends, by itself or by the signal. *)
LEMMA MainEndType ==
  ASSUME TypeInv, MainExit \/ MainDies
  PROVE  TypeInv'
<1>0. /\ UNCHANGED <<flag, statRead, ringVars, slot, sourceVars, childVars, stopping, taint>>
      /\ mpc' = "dead" /\ mapp' = None /\ mto' = None
      /\ deaths' \in 0..MaxDeaths
  <2>1. deaths \in 0..MaxDeaths
    BY DEF TypeInv, TypeOK
  <2>2. CASE MainExit
    BY <2>1, <2>2 DEF MainExit
  <2>3. CASE MainDies
    <3>1. deaths' \in 0..MaxDeaths
      BY <2>1, <2>3, Consts DEF MainDies, Killed
    <3>. QED BY <2>3, <3>1 DEF MainDies, appVars, slotVars
  <2>. QED BY <2>2, <2>3
<1>1. age' \in [Apps -> 0..CheckTime] /\ ready' \in [Children -> BOOLEAN]
  <2>1. CASE MainExit
    BY <2>1, Consts DEF MainExit, CleanUp
  <2>2. CASE MainDies
    BY <2>2 DEF MainDies, appVars, slotVars, TypeInv, TypeOK, AppsOK, SlotsOK
  <2>. QED BY <2>1, <2>2
<1>2. AppsOK' /\ SlotsOK' /\ stopping' \in BOOLEAN /\ taint' \subseteq Taints
  BY <1>0, <1>1 DEF TypeInv, TypeOK, AppsOK, SlotsOK
<1>3. ChildrenOK' /\ ChildInv' /\ \A c \in Children : Running(c)' <=> Running(c)
  BY <1>0, SameChildren
<1>4. RingOK' /\ LiveWrote' /\ SourcesOK'
  BY <1>0, <1>3, SameRing, SameSources
<1>5. MainOK' /\ MainInv'
  BY <1>0 DEF MainOK, MainInv
<1>. QED BY <1>0, <1>2, <1>3, <1>4, <1>5 DEF TypeInv, TypeOK

LEMMA StopType ==
  ASSUME TypeInv, Stop
  PROVE  TypeInv'
<1>0. /\ UNCHANGED <<flag, age, statRead, ringVars, slot, ready, sourceVars, mainVars, childVars,
                     taint>>
      /\ stopping' = TRUE
  BY DEF Stop, appVars, slotVars
<1>1. AppsOK' /\ SlotsOK' /\ stopping' \in BOOLEAN /\ taint' \subseteq Taints
  BY <1>0 DEF TypeInv, TypeOK, AppsOK, SlotsOK
<1>2. deaths' \in 0..MaxDeaths
  BY Consts DEF Stop, TypeInv, TypeOK
<1>3. ChildrenOK' /\ ChildInv' /\ \A c \in Children : Running(c)' <=> Running(c)
  BY <1>0, SameChildren
<1>4. RingOK' /\ LiveWrote' /\ SourcesOK' /\ MainOK' /\ MainInv'
  BY <1>0, <1>3, SameRing, SameSources, SameMain
<1>. QED BY <1>1, <1>2, <1>3, <1>4 DEF TypeInv, TypeOK

LEMMA StartAllType ==
  ASSUME TypeInv, StartAll
  PROVE  TypeInv'
<1>0. /\ UNCHANGED <<flag, age, statRead, widx, start, seq, wrote, slot, ready, sourceVars, mapp,
                     mto, files, pos, at, done, passAge, deaths>>
      /\ \A c \in Children : ~Alive(c)
      /\ mpc' = "wait" /\ stopping' = FALSE /\ pc' = [c \in Children |-> "start"]
  BY DEF StartAll, appVars, ringVars, slotVars
<1>1. AppsOK' /\ RingOK' /\ SlotsOK' /\ stopping' \in BOOLEAN /\ deaths' \in 0..MaxDeaths
  BY <1>0 DEF TypeInv, TypeOK, AppsOK, RingOK, SlotsOK
<1>2. taint' \subseteq Taints
  BY DEF StartAll, TypeInv, TypeOK
<1>3. SourcesOK' /\ MainOK' /\ MainInv'
  BY <1>0, SameSources DEF MainOK, MainInv, TypeInv, TypeOK
<1>4. ChildrenOK'
  BY <1>0 DEF TypeInv, TypeOK, ChildrenOK, ChildLabels
<1>5. ASSUME NEW d \in Children PROVE ChildAt(d)'
  <2>1. files[d] = <<>> /\ passAge[d] = 0
    BY <1>0 DEF TypeInv, ChildInv, ChildAt, Running, Alive
  <2>2. pc'[d] = "start"
    BY <1>0
  <2>. QED BY <1>0, <2>1, <2>2 DEF ChildAt, Running, AtFile, AtRecord
<1>6. LiveWrote'
  BY <1>0 DEF TypeInv, LiveWrote, Running, Alive
<1>. QED BY <1>1, <1>2, <1>3, <1>4, <1>5, <1>6 DEF TypeInv, TypeOK, ChildInv

(* A slot that is emptied and its number of applications. *)
LEMMA SlotEmptied ==
  ASSUME SlotsOK, NEW c \in Children, NEW n \in 0..MaxFiles,
         slot' = [slot EXCEPT ![c].app = None, ![c].total = n]
  PROVE  /\ slot' \in [Children -> [app : {None} \cup Apps, index : Apps, total : 0..MaxFiles]]
         /\ slot'[c].app = None /\ slot'[c].total = n /\ slot'[c].index = slot[c].index
         /\ \A d \in Children \ {c} : slot'[d] = slot[d]
<1>. DEFINE S == [app : {None} \cup Apps, index : Apps, total : 0..MaxFiles]
            r == [[slot[c] EXCEPT !.app = None] EXCEPT !.total = n]
<1>1. slot \in [Children -> S] /\ slot[c] \in S
  BY DEF SlotsOK
<1>2. r \in S /\ r.app = None /\ r.total = n /\ r.index = slot[c].index
  BY <1>1
<1>3. slot' = [slot EXCEPT ![c] = r]
  BY <1>1
<1>. HIDE DEF r, S
<1>4. slot' \in [Children -> S] /\ slot'[c] = r /\ \A d \in Children \ {c} : slot'[d] = slot[d]
  BY <1>1, <1>2, <1>3
<1>. QED BY <1>2, <1>4 DEF S

(* A step of one child: the others keep their locals and their slots. *)
OthersSame(c) ==
  \A d \in Children \ {c} : /\ pc'[d] = pc[d] /\ files'[d] = files[d] /\ pos'[d] = pos[d]
                            /\ at'[d] = at[d] /\ passAge'[d] = passAge[d] /\ slot'[d] = slot[d]

LEMMA ChildStep ==
  ASSUME TypeInv, NEW c \in Children, OthersSame(c), ChildAt(c)',
         UNCHANGED <<flag, statRead, sourceVars, mainVars, stopping>>,
         AppsOK', RingOK', SlotsOK', ChildrenOK',
         \A a \in Apps : \A i \in Index : wrote'[a][i] \in {None, wrote[a][i], c},
         (Running(c)' \/ \A a \in Apps : \A i \in Index : wrote'[a][i] # c),
         deaths' \in 0..MaxDeaths, taint' \subseteq Taints
  PROVE  TypeInv'
<1>1. SourcesOK' /\ MainOK' /\ MainInv' /\ stopping' \in BOOLEAN
  BY SameSources, SameMain DEF TypeInv, TypeOK
<1>2. ASSUME NEW d \in Children PROVE ChildAt(d)'
  <2>1. CASE d # c
    BY <2>1 DEF OthersSame, TypeInv, ChildInv, ChildAt, Running, AtFile, AtRecord
  <2>. QED BY <2>1
<1>3. LiveWrote'
  <2>. SUFFICES ASSUME NEW a \in Apps, NEW i \in Index, NEW d \in Children, wrote'[a][i] = d
                PROVE  Running(d)'
    BY DEF LiveWrote
  <2>1. CASE d = c
    BY <2>1
  <2>2. CASE d # c
    <3>1. wrote[a][i] = d
      BY <2>2, NoneFacts
    <3>. QED BY <2>2, <3>1 DEF TypeInv, LiveWrote, OthersSame, Running
  <2>. QED BY <2>1, <2>2
<1>. QED BY <1>1, <1>2, <1>3 DEF TypeInv, TypeOK, ChildInv

LEMMA StartType ==
  ASSUME TypeInv, NEW c \in Children, Start(c) \/ ClearSlot(c)
  PROVE  TypeInv'
<1>0. /\ UNCHANGED <<flag, age, statRead, ringVars, sourceVars, mainVars, files, pos, at, done,
                     passAge, stopping, deaths, taint>>
      /\ ChildrenOK
  BY DEF Start, ClearSlot, appVars, TypeInv, TypeOK
<1>1. /\ pc[c] \in {"start", "clear"} /\ pc'[c] \in {"clear", "run"}
      /\ \A d \in Children \ {c} : pc'[d] = pc[d] /\ slot'[d] = slot[d]
      /\ pc'[c] = "run" => slot'[c].total = 0
  BY DEF Start, ClearSlot, TypeInv, TypeOK, ChildrenOK, SlotsOK
<1>2. SlotsOK'
  <2>1. CASE Start(c)
    BY <2>1 DEF Start, TypeInv, TypeOK, SlotsOK
  <2>2. CASE ClearSlot(c)
    <3>1. SlotsOK /\ 0 \in 0..MaxFiles /\ ready' = ready
      BY <2>2, Consts DEF ClearSlot, TypeInv, TypeOK
    <3>2. slot' = [slot EXCEPT ![c].app = None, ![c].total = 0]
      BY <2>2 DEF ClearSlot
    <3>. QED BY <3>1, <3>2, SlotEmptied DEF SlotsOK
  <2>. QED BY <2>1, <2>2
<1>3. ChildrenOK'
  BY <1>0 DEF Start, ClearSlot, ChildrenOK, ChildLabels
<1>4. AppsOK' /\ RingOK' /\ deaths' \in 0..MaxDeaths /\ taint' \subseteq Taints /\ UNCHANGED wrote
  BY <1>0 DEF TypeInv, TypeOK, AppsOK, RingOK, ringVars
<1>5. ChildAt(c)'
  BY <1>0, <1>1, EmptyList DEF TypeInv, ChildInv, ChildAt, Running, AtFile, AtRecord
<1>6. \A a \in Apps : \A i \in Index : wrote'[a][i] # c
  BY <1>1, <1>4 DEF TypeInv, LiveWrote, Running
<1>7. OthersSame(c)
  BY <1>0, <1>1 DEF OthersSame
<1>. QED BY <1>0, <1>2, <1>3, <1>4, <1>5, <1>6, <1>7, ChildStep

(* The end of WriteFile for one application keeps the types of what it changes. *)
LEMMA FileDoneType ==
  ASSUME TypeInv, NEW c \in Children, AtFile(c), FileDone(c)
  PROVE  /\ pc' \in [Children -> ChildLabels]
         /\ pos' \in [Children -> 1..(MaxFiles + 1)]
         /\ at' \in [Children -> Index]
         /\ done' \in [Children -> 0..PerLoop]
         /\ pc'[c] \in {"accept", "file"}
         /\ pc'[c] = "file" => pos'[c] = pos[c] + 1 /\ pos'[c] <= Len(files[c])
         /\ pc'[c] = "accept" => pos'[c] = 1 /\ (passAge[c] = CheckTime \/ pos[c] = Len(files[c]))
         /\ \A d \in Children \ {c} : pc'[d] = pc[d] /\ pos'[d] = pos[d] /\ at'[d] = at[d]
<1>0. ChildrenOK
  BY DEF TypeInv, TypeOK
<1>1. pos[c] \in 1..Len(files[c]) /\ Len(files[c]) \in 0..MaxFiles
  BY <1>0, CurrentApp, FilesFacts DEF TypeInv
<1>2. PICK l \in {"accept", "file"} :
        /\ l = IF passAge[c] = CheckTime \/ pos[c] = Len(files[c]) THEN "accept" ELSE "file"
        /\ pc' = [pc EXCEPT ![c] = l]
  BY DEF FileDone
<1>3. /\ pc' \in [Children -> ChildLabels]
      /\ pc'[c] = l
      /\ \A d \in Children \ {c} : pc'[d] = pc[d]
  BY <1>0, <1>2 DEF ChildrenOK, ChildLabels
<1>. DEFINE n == IF l = "accept" THEN 1 ELSE pos[c] + 1
<1>4. n \in 1..(MaxFiles + 1) /\ pos' = [pos EXCEPT ![c] = n]
  <2>1. n \in 1..(MaxFiles + 1)
    BY <1>1, Consts
  <2>2. pos' = [pos EXCEPT ![c] = n]
    BY <1>3 DEF FileDone
  <2>. QED BY <2>1, <2>2
<1>. HIDE DEF n
<1>5. /\ pos' \in [Children -> 1..(MaxFiles + 1)]
      /\ pos'[c] = n
      /\ \A d \in Children \ {c} : pos'[d] = pos[d]
  BY <1>0, <1>4 DEF ChildrenOK
<1>6. done' \in [Children -> 0..PerLoop]
  BY <1>0, Consts DEF FileDone, ChildrenOK
<1>7. at' \in [Children -> Index] /\ \A d \in Children \ {c} : at'[d] = at[d]
  BY <1>0, IndexFacts DEF FileDone, ChildrenOK
<1>. QED BY <1>1, <1>2, <1>3, <1>4, <1>5, <1>6, <1>7 DEF n

(* A step within WriteFile: on to label l, or out of it. *)
LEMMA FileStepType ==
  ASSUME TypeInv, NEW c \in Children, AtFile(c),
         UNCHANGED <<flag, statRead, slot, ready, sourceVars, mainVars, files, passAge, stopping,
                     deaths>>,
         AppsOK', RingOK', taint' \subseteq Taints,
         \A a \in Apps : \A i \in Index : wrote'[a][i] \in {None, wrote[a][i], c},
         \/ FileDone(c)
         \/ /\ \E l \in {"record", "advance", "lock", "store"} : pc' = [pc EXCEPT ![c] = l]
            /\ at' \in [Children -> Index] /\ done' \in [Children -> 0..PerLoop]
            /\ \A d \in Children \ {c} : at'[d] = at[d]
            /\ UNCHANGED pos
  PROVE  TypeInv'
<1>0. ChildrenOK /\ SlotsOK' /\ deaths' \in 0..MaxDeaths /\ ChildAt(c)
  BY DEF TypeInv, TypeOK, SlotsOK, ChildInv
<1>1. /\ ChildrenOK' /\ OthersSame(c)
      /\ pc'[c] \in {"accept", "file", "record", "advance", "lock", "store"}
      /\ pc'[c] # "accept" => pos'[c] <= Len(files[c])
  <2>1. CASE FileDone(c)
    BY <1>0, <2>1, FileDoneType DEF ChildrenOK, OthersSame
  <2>2. ASSUME NEW l \in {"record", "advance", "lock", "store"}, pc' = [pc EXCEPT ![c] = l],
               at' \in [Children -> Index], done' \in [Children -> 0..PerLoop],
               \A d \in Children \ {c} : at'[d] = at[d], UNCHANGED pos
        PROVE  /\ ChildrenOK' /\ OthersSame(c)
               /\ pc'[c] \in {"accept", "file", "record", "advance", "lock", "store"}
               /\ pc'[c] # "accept" => pos'[c] <= Len(files[c])
    <3>1. pc' \in [Children -> ChildLabels] /\ pc'[c] = l /\ \A d \in Children \ {c} : pc'[d] = pc[d]
      BY <1>0, <2>2 DEF ChildrenOK, ChildLabels
    <3>2. ChildrenOK' /\ OthersSame(c)
      BY <1>0, <2>2, <3>1 DEF ChildrenOK, OthersSame
    <3>. QED BY <1>0, <2>2, <3>1, <3>2 DEF ChildAt
  <2>. QED BY <2>1, <2>2
<1>2. ChildAt(c)' /\ Running(c)'
  BY <1>0, <1>1 DEF ChildAt, Running, AtFile, AtRecord
<1>. QED BY <1>0, <1>1, <1>2, ChildStep

LEMMA WriteFileType ==
  ASSUME TypeInv, NEW c \in Children, WriteFile(c)
  PROVE  TypeInv'
<1>0. /\ UNCHANGED <<flag, statRead, widx, start, seq, wrote, slot, ready, sourceVars, mainVars,
                     files, passAge, stopping, deaths, taint>>
      /\ ChildrenOK /\ pc[c] = "file"
  BY DEF WriteFile, ringVars, slotVars, TypeInv, TypeOK
<1>. DEFINE a == App(c)
<1>1. a \in Apps /\ AtFile(c)
  BY <1>0, CurrentApp DEF TypeInv, AtFile
<1>2. AppsOK'
  <2>1. passAge[c] \in 0..CheckTime /\ age' = [age EXCEPT ![a] = passAge[c]]
    BY <1>0 DEF ChildrenOK, WriteFile
  <2>. QED BY <1>0, <1>1, <2>1 DEF TypeInv, TypeOK, AppsOK
<1>3. RingOK' /\ taint' \subseteq Taints
  BY <1>0 DEF TypeInv, TypeOK, RingOK
<1>4. CASE FileDone(c)
  BY <1>0, <1>1, <1>2, <1>3, <1>4, FileStepType
<1>5. CASE /\ start[a] # NoLog /\ at' = [at EXCEPT ![c] = start[a]]
           /\ pc' = [pc EXCEPT ![c] = "record"] /\ UNCHANGED <<pos, done>>
  <2>1. start[a] \in Index
    BY <1>1, <1>5 DEF TypeInv, TypeOK, RingOK
  <2>2. at' \in [Children -> Index] /\ \A d \in Children \ {c} : at'[d] = at[d]
    BY <1>0, <1>5, <2>1 DEF ChildrenOK
  <2>3. done' \in [Children -> 0..PerLoop]
    BY <1>0, <1>5 DEF ChildrenOK
  <2>. QED BY <1>0, <1>1, <1>2, <1>3, <1>5, <2>2, <2>3, FileStepType
<1>. QED BY <1>4, <1>5 DEF WriteFile

(* The steps of WriteFile that change no ring. *)
LEMMA QuietStepType ==
  ASSUME TypeInv, NEW c \in Children, RecordFails(c) \/ TestMoved(c) \/ EnterAdvance(c)
  PROVE  TypeInv'
<1>0. /\ UNCHANGED <<flag, statRead, widx, start, seq, wrote, age, slot, ready, sourceVars,
                     mainVars, files, passAge, stopping, deaths>>
      /\ ChildrenOK /\ AtFile(c)
  <2>1. AtFile(c)
    BY DEF RecordFails, TestMoved, EnterAdvance, AtFile, AtRecord
  <2>. QED BY <2>1 DEF RecordFails, TestMoved, EnterAdvance, appVars, ringVars, slotVars, TypeInv,
                       TypeOK
<1>1. AppsOK' /\ RingOK'
  BY <1>0 DEF TypeInv, TypeOK, AppsOK, RingOK
<1>2. taint' \subseteq Taints
  <2>1. CASE RecordFails(c) \/ TestMoved(c)
    BY <2>1 DEF RecordFails, TestMoved, TypeInv, TypeOK
  <2>2. CASE EnterAdvance(c)
    BY <2>2, LockTaint DEF EnterAdvance
  <2>. QED BY <2>1, <2>2
<1>3. CASE FileDone(c)
  BY <1>0, <1>1, <1>2, <1>3, FileStepType
<1>4. CASE /\ pc' = [pc EXCEPT ![c] = "lock"] \/ pc' = [pc EXCEPT ![c] = "store"]
           /\ UNCHANGED <<pos, at, done>>
  <2>1. at' \in [Children -> Index] /\ done' \in [Children -> 0..PerLoop]
    BY <1>0, <1>4 DEF ChildrenOK
  <2>2. /\ \E l \in {"record", "advance", "lock", "store"} : pc' = [pc EXCEPT ![c] = l]
        /\ \A d \in Children \ {c} : at'[d] = at[d]
        /\ UNCHANGED pos
    BY <1>4
  <2>. QED BY <1>0, <1>1, <1>2, <2>1, <2>2, FileStepType
<1>. QED BY <1>3, <1>4 DEF RecordFails, TestMoved, EnterAdvance

LEMMA WriteLogRecordType ==
  ASSUME TypeInv, NEW c \in Children, WriteLogRecord(c)
  PROVE  TypeInv'
<1>0. /\ UNCHANGED <<flag, statRead, widx, start, seq, age, slot, ready, sourceVars, mainVars,
                     files, pos, at, done, passAge, stopping, deaths, taint>>
      /\ ChildrenOK /\ AtFile(c) /\ RingOK
      /\ pc' = [pc EXCEPT ![c] = "advance"]
  BY DEF WriteLogRecord, appVars, slotVars, TypeInv, TypeOK, AtFile, AtRecord
<1>1. App(c) \in Apps /\ at[c] \in Index
  BY <1>0, CurrentApp DEF TypeInv, ChildrenOK
<1>2. wrote' = wrote \/ wrote' = [wrote EXCEPT ![App(c)][at[c]] = c]
  BY DEF WriteLogRecord
<1>3. /\ wrote' \in [Apps -> [Index -> {None} \cup Children]]
      /\ \A a \in Apps : \A i \in Index : wrote'[a][i] \in {None, wrote[a][i], c}
  <2>0. wrote \in [Apps -> [Index -> {None} \cup Children]]
    BY <1>0 DEF RingOK
  <2>1. CASE wrote' = wrote
    BY <2>0, <2>1
  <2>2. ASSUME NEW b \in Apps, NEW j \in Index, wrote' = [wrote EXCEPT ![b][j] = c]
        PROVE  /\ wrote' \in [Apps -> [Index -> {None} \cup Children]]
               /\ \A a \in Apps : \A i \in Index : wrote'[a][i] \in {None, wrote[a][i], c}
    BY <2>0, <2>2
  <2>. QED BY <1>1, <1>2, <2>1, <2>2
<1>4. AppsOK' /\ RingOK' /\ taint' \subseteq Taints
  BY <1>0, <1>3 DEF TypeInv, TypeOK, AppsOK, RingOK
<1>5. at' \in [Children -> Index] /\ done' \in [Children -> 0..PerLoop]
  BY <1>0 DEF ChildrenOK
<1>. QED BY <1>0, <1>3, <1>4, <1>5, FileStepType

LEMMA AdvanceType ==
  ASSUME TypeInv, NEW c \in Children, Advance(c)
  PROVE  TypeInv'
<1>. DEFINE next == NextIndex(at[c])
            last == next = widx[App(c)]
<1>0. /\ UNCHANGED <<flag, statRead, widx, seq, wrote, age, slot, ready, sourceVars, mainVars,
                     files, passAge, stopping, deaths, taint>>
      /\ ChildrenOK /\ AtFile(c) /\ RingOK
      /\ start' = [start EXCEPT ![App(c)] = IF last THEN NoLog ELSE next]
  BY DEF Advance, appVars, slotVars, TypeInv, TypeOK, AtFile, AtRecord
<1>1. App(c) \in Apps /\ next \in Index
  BY <1>0, CurrentApp, IndexFacts DEF TypeInv, ChildrenOK
<1>2. AppsOK' /\ taint' \subseteq Taints
  BY <1>0 DEF TypeInv, TypeOK, AppsOK
<1>3. RingOK'
  BY <1>0, <1>1 DEF RingOK
<1>4. CASE FileDone(c)
  BY <1>0, <1>2, <1>3, <1>4, FileStepType
<1>5. CASE /\ done[c] + 1 < PerLoop
           /\ at' = [at EXCEPT ![c] = next] /\ done' = [done EXCEPT ![c] = @ + 1]
           /\ pc' = [pc EXCEPT ![c] = "record"] /\ UNCHANGED pos
  <2>1. at' \in [Children -> Index] /\ \A d \in Children \ {c} : at'[d] = at[d]
    BY <1>0, <1>1, <1>5 DEF ChildrenOK
  <2>2. done' \in [Children -> 0..PerLoop]
    BY <1>0, <1>5, Consts DEF ChildrenOK
  <2>. QED BY <1>0, <1>2, <1>3, <1>5, <2>1, <2>2, FileStepType
<1>. QED BY <1>4, <1>5 DEF Advance

LEMMA BeginFacts ==
  ASSUME TypeInv, NEW c \in Children, BeginPass(c)
  PROVE  /\ pc' \in [Children -> ChildLabels]
         /\ pos' \in [Children -> 1..(MaxFiles + 1)]
         /\ passAge' \in [Children -> 0..CheckTime]
         /\ pos'[c] = 1 /\ passAge'[c] = 0
         /\ pc[c] = "run" /\ pc'[c] = IF files[c] = <<>> THEN "accept" ELSE "file"
         /\ \A d \in Children \ {c} : pc'[d] = pc[d] /\ pos'[d] = pos[d] /\ passAge'[d] = passAge[d]
         /\ UNCHANGED <<flag, age, statRead, widx, start, seq, wrote, slot, ready, sourceVars, mpc,
                        mapp, mto, files, at, done, stopping, deaths, taint>>
<1>0. ChildrenOK
  BY DEF TypeInv, TypeOK
<1>1. PICK l \in {"accept", "file"} :
        /\ l = IF files[c] = <<>> THEN "accept" ELSE "file"
        /\ pc' = [pc EXCEPT ![c] = l]
  BY DEF BeginPass
<1>2. /\ pc' \in [Children -> ChildLabels]
      /\ pc'[c] = l
      /\ \A d \in Children \ {c} : pc'[d] = pc[d]
  BY <1>0, <1>1 DEF ChildrenOK, ChildLabels
<1>3. /\ pos' \in [Children -> 1..(MaxFiles + 1)] /\ pos'[c] = 1
      /\ \A d \in Children \ {c} : pos'[d] = pos[d]
  BY <1>0, Consts DEF BeginPass, ChildrenOK
<1>4. /\ passAge' \in [Children -> 0..CheckTime] /\ passAge'[c] = 0
      /\ \A d \in Children \ {c} : passAge'[d] = passAge[d]
  BY <1>0, Consts DEF BeginPass, ChildrenOK
<1>5. /\ pc[c] = "run"
      /\ UNCHANGED <<flag, age, statRead, widx, start, seq, wrote, slot, ready, sourceVars, mpc,
                     mapp, mto, files, at, done, stopping, deaths, taint>>
  BY DEF BeginPass, appVars, ringVars, slotVars, mainVars
<1>. QED BY <1>1, <1>2, <1>3, <1>4, <1>5

LEMMA BeginPassType ==
  ASSUME TypeInv, NEW c \in Children, BeginPass(c)
  PROVE  TypeInv'
<1>0. /\ UNCHANGED <<flag, age, statRead, widx, start, seq, wrote, slot, ready, sourceVars, mpc,
                     mapp, mto, files, at, done, stopping, deaths, taint>>
      /\ ChildrenOK /\ pc[c] = "run"
  BY BeginFacts DEF TypeInv, TypeOK
<1>1. /\ AppsOK' /\ RingOK' /\ SlotsOK' /\ deaths' \in 0..MaxDeaths /\ taint' \subseteq Taints
  BY <1>0 DEF TypeInv, TypeOK, AppsOK, RingOK, SlotsOK
<1>2. ChildrenOK'
  BY <1>0, BeginFacts DEF ChildrenOK
<1>3. OthersSame(c)
  BY <1>0, BeginFacts DEF OthersSame
<1>4. ChildAt(c)' /\ Running(c)'
  <2>1. ChildAt(c)
    BY DEF TypeInv, ChildInv
  <2>2. files[c] # <<>> => Len(files[c]) >= 1
    BY <1>0, FilesFacts
  <2>. QED BY <1>0, <2>1, <2>2, BeginFacts DEF ChildAt, Running, AtFile, AtRecord
<1>5. UNCHANGED mainVars
  BY <1>0 DEF mainVars
<1>. QED BY <1>0, <1>1, <1>2, <1>3, <1>4, <1>5, ChildStep

LEMMA AppendFacts ==
  ASSUME ChildrenOK, NEW c \in Children, Len(files[c]) < MaxFiles, NEW a \in Apps,
         files' = [files EXCEPT ![c] = Append(@, a)]
  PROVE  /\ files' \in [Children -> Seq(Apps)]
         /\ Len(files'[c]) = Len(files[c]) + 1 /\ Len(files'[c]) <= MaxFiles
         /\ \A i \in 1..Len(files[c]) : files'[c][i] = files[c][i]
         /\ files'[c][Len(files[c]) + 1] = a
         /\ \A d \in Children \ {c} : files'[d] = files[d]
<1>. DEFINE s == files[c]
            t == Append(s, a)
<1>1. s \in Seq(Apps) /\ Len(s) \in 0..MaxFiles
  BY FilesFacts
<1>2. /\ t \in Seq(Apps) /\ Len(t) = Len(s) + 1
      /\ \A i \in 1..Len(s) : t[i] = s[i]
      /\ t[Len(s) + 1] = a
  BY <1>1, AppendProperties
<1>. HIDE DEF t
<1>3. /\ files' \in [Children -> Seq(Apps)] /\ files'[c] = t
      /\ \A d \in Children \ {c} : files'[d] = files[d]
  BY <1>2 DEF ChildrenOK, t
<1>. QED BY <1>1, <1>2, <1>3, Consts

(* The end of a child, by itself or by a signal. *)
LEMMA GoneFacts ==
  ASSUME TypeInv, NEW c \in Children, ChildGone(c)
  PROVE  /\ ChildrenOK' /\ wrote' \in [Apps -> [Index -> {None} \cup Children]]
         /\ pc'[c] = "dead" /\ files'[c] = <<>> /\ passAge'[c] = 0
         /\ \A d \in Children \ {c} : /\ pc'[d] = pc[d] /\ files'[d] = files[d] /\ pos'[d] = pos[d]
                                      /\ at'[d] = at[d] /\ passAge'[d] = passAge[d]
         /\ \A a \in Apps : \A i \in Index : /\ wrote'[a][i] \in {None, wrote[a][i]}
                                             /\ wrote'[a][i] # c
<1>0. ChildrenOK /\ RingOK
  BY DEF TypeInv, TypeOK
<1>1. /\ ChildrenOK'
      /\ pc'[c] = "dead" /\ files'[c] = <<>> /\ passAge'[c] = 0
  BY <1>0, EmptyList, IndexFacts, Consts DEF ChildGone, ChildrenOK, ChildLabels
<1>2. \A d \in Children \ {c} : /\ pc'[d] = pc[d] /\ files'[d] = files[d] /\ pos'[d] = pos[d]
                                /\ at'[d] = at[d] /\ passAge'[d] = passAge[d]
  BY <1>0 DEF ChildGone, ChildrenOK
<1>3. /\ wrote' \in [Apps -> [Index -> {None} \cup Children]]
      /\ \A a \in Apps : \A i \in Index : /\ wrote'[a][i] \in {None, wrote[a][i]}
                                          /\ wrote'[a][i] # c
  BY <1>0, NoneFacts DEF ChildGone, RingOK
<1>. QED BY <1>1, <1>2, <1>3

LEMMA GoneType ==
  ASSUME TypeInv, NEW c \in Children, ChildGone(c), AppsOK', ready' \in [Children -> BOOLEAN],
         UNCHANGED <<flag, statRead, widx, start, seq, slot, sourceVars, mainVars, stopping>>,
         deaths' \in 0..MaxDeaths, taint' \subseteq Taints
  PROVE  TypeInv'
<1>1. RingOK' /\ SlotsOK'
  BY GoneFacts DEF TypeInv, TypeOK, RingOK, SlotsOK
<1>2. OthersSame(c)
  BY GoneFacts DEF OthersSame
<1>3. ChildAt(c)'
  BY GoneFacts DEF ChildAt, Running, AtFile, AtRecord
<1>4. /\ \A a \in Apps : \A i \in Index : wrote'[a][i] \in {None, wrote[a][i], c}
      /\ \A a \in Apps : \A i \in Index : wrote'[a][i] # c
      /\ ChildrenOK'
  BY GoneFacts
<1>. QED BY <1>1, <1>2, <1>3, <1>4, ChildStep

LEMMA DieType ==
  ASSUME TypeInv, NEW c \in Children, Die(c) \/ Exit(c)
  PROVE  TypeInv'
<1>0. /\ ChildGone(c)
      /\ UNCHANGED <<flag, statRead, widx, start, seq, slot, sourceVars, mainVars, stopping>>
  BY DEF Die, Exit, appVars, slotVars
<1>1. AppsOK' /\ ready' \in [Children -> BOOLEAN]
  <2>1. CASE Die(c)
    BY <2>1 DEF Die, appVars, slotVars, TypeInv, TypeOK, AppsOK, SlotsOK
  <2>2. CASE Exit(c)
    BY <1>0, <2>2, Consts DEF Exit, CleanUp, TypeInv, TypeOK, AppsOK
  <2>. QED BY <2>1, <2>2
<1>2. taint' \subseteq Taints
  BY DEF Die, Exit, TypeInv, TypeOK, Taints
<1>3. deaths' \in 0..MaxDeaths
  BY Consts DEF Die, Exit, Killed, TypeInv, TypeOK
<1>. QED BY <1>0, <1>1, <1>2, <1>3, GoneType

(* The three outcomes of TryAcceptDispatchApp. *)
NothingGiven(c) ==
  /\ slot[c].app = None
  /\ pc' = [pc EXCEPT ![c] = "run"]
  /\ UNCHANGED <<age, slot, files, pos, at, done, passAge, wrote, taint>>

ListFull(c) ==
  /\ ChildGone(c)
  /\ taint' = taint \cup {"full"}
  /\ UNCHANGED <<age, slot>>

Accepted(c) ==
  /\ slot[c].app # None
  /\ Len(files[c]) < MaxFiles
  /\ pc' = [pc EXCEPT ![c] = "run"]
  /\ files' = [files EXCEPT ![c] = Append(@, slot[c].index)]
  /\ age' = [age EXCEPT ![slot[c].index] = 0]
  /\ slot' = [slot EXCEPT ![c].app = None, ![c].total = @ + 1]
  /\ taint' = taint \cup (IF slot[c].index # slot[c].app THEN {"torn"} ELSE {})
  /\ UNCHANGED <<pos, at, done, passAge, wrote>>

LEMMA AcceptCases ==
  ASSUME NEW c \in Children, TryAcceptDispatchApp(c)
  PROVE  /\ pc[c] = "accept"
         /\ NothingGiven(c) \/ ListFull(c) \/ Accepted(c)
         /\ UNCHANGED <<flag, statRead, widx, start, seq, ready, sourceVars, mainVars, stopping,
                        deaths>>
BY DEF TryAcceptDispatchApp, NothingGiven, ListFull, Accepted

(* Accepting: the slot is emptied and counts the application that the list got. *)
LEMMA AcceptedFacts ==
  ASSUME TypeInv, NEW c \in Children, pc[c] = "accept", Accepted(c)
  PROVE  /\ slot[c].index \in Apps
         /\ slot' \in [Children -> [app : {None} \cup Apps, index : Apps, total : 0..MaxFiles]]
         /\ slot'[c].app = None /\ slot'[c].total = Len(files[c]) + 1
         /\ \A d \in Children \ {c} : slot'[d] = slot[d]
<1>1. SlotsOK /\ slot[c].index \in Apps
  BY DEF TypeInv, TypeOK, SlotsOK
<1>2. slot[c].total = Len(files[c])
  BY DEF TypeInv, ChildInv, ChildAt, Running
<1>3. Len(files[c]) \in 0..MaxFiles /\ Len(files[c]) < MaxFiles
  BY FilesFacts DEF TypeInv, TypeOK, Accepted
<1>. DEFINE n == slot[c].total + 1
<1>4. n \in 0..MaxFiles /\ n = Len(files[c]) + 1
  BY <1>2, <1>3, Consts
<1>5. slot' = [slot EXCEPT ![c].app = None, ![c].total = n]
  <2>1. slot \in [Children -> [app : {None} \cup Apps, index : Apps, total : 0..MaxFiles]]
    BY <1>1 DEF SlotsOK
  <2>. QED BY <2>1 DEF Accepted
<1>. HIDE DEF n
<1>. QED BY <1>1, <1>4, <1>5, SlotEmptied

LEMMA AcceptType ==
  ASSUME TypeInv, NEW c \in Children, TryAcceptDispatchApp(c)
  PROVE  TypeInv'
<1>0. /\ pc[c] = "accept" /\ ChildrenOK
      /\ UNCHANGED <<flag, statRead, widx, start, seq, ready, sourceVars, mainVars, stopping, deaths>>
  BY AcceptCases DEF TypeInv, TypeOK
<1>1. deaths' \in 0..MaxDeaths /\ ready' \in [Children -> BOOLEAN] /\ ChildAt(c)
  BY <1>0 DEF TypeInv, TypeOK, SlotsOK, ChildInv
<1>2. ASSUME UNCHANGED <<pos, at, done, passAge, wrote>>, pc' = [pc EXCEPT ![c] = "run"],
             files' \in [Children -> Seq(Apps)], \A d \in Children : Len(files'[d]) <= MaxFiles,
             \A d \in Children \ {c} : files'[d] = files[d] /\ slot'[d] = slot[d],
             SlotsOK', slot'[c].total = Len(files'[c]), AppsOK', taint' \subseteq Taints
      PROVE  TypeInv'
  <2>1. pc' \in [Children -> ChildLabels] /\ pc'[c] = "run"
        /\ \A d \in Children \ {c} : pc'[d] = pc[d]
    BY <1>0, <1>2 DEF ChildrenOK, ChildLabels
  <2>2. ChildrenOK'
    BY <1>0, <1>2, <2>1 DEF ChildrenOK
  <2>3. OthersSame(c)
    BY <1>2, <2>1 DEF OthersSame
  <2>4. ChildAt(c)' /\ Running(c)'
    BY <1>2, <2>1 DEF ChildAt, Running, AtFile, AtRecord
  <2>5. RingOK'
    BY <1>0, <1>2 DEF TypeInv, TypeOK, RingOK
  <2>. QED BY <1>0, <1>1, <1>2, <2>2, <2>3, <2>4, <2>5, ChildStep
<1>3. CASE NothingGiven(c)
  <2>0. /\ UNCHANGED <<age, slot, files, taint>> /\ UNCHANGED <<pos, at, done, passAge, wrote>>
        /\ pc' = [pc EXCEPT ![c] = "run"]
    BY <1>3 DEF NothingGiven
  <2>1. AppsOK' /\ SlotsOK' /\ taint' \subseteq Taints
    BY <1>0, <2>0 DEF TypeInv, TypeOK, AppsOK, SlotsOK
  <2>2. files' \in [Children -> Seq(Apps)] /\ \A d \in Children : Len(files'[d]) <= MaxFiles
    BY <1>0, <2>0 DEF ChildrenOK
  <2>3. slot'[c].total = Len(files'[c])
    BY <1>0, <1>1, <2>0 DEF ChildAt, Running
  <2>. QED BY <1>2, <2>0, <2>1, <2>2, <2>3
<1>4. CASE ListFull(c)
  <2>0. ChildGone(c) /\ taint' = taint \cup {"full"} /\ UNCHANGED <<age, slot>>
    BY <1>4 DEF ListFull
  <2>1. AppsOK' /\ taint' \subseteq Taints
    BY <1>0, <2>0 DEF TypeInv, TypeOK, AppsOK, Taints
  <2>. QED BY <1>0, <1>1, <2>0, <2>1, GoneType
<1>5. CASE Accepted(c)
  <2>0. /\ Len(files[c]) < MaxFiles /\ UNCHANGED <<pos, at, done, passAge, wrote>>
        /\ pc' = [pc EXCEPT ![c] = "run"]
        /\ files' = [files EXCEPT ![c] = Append(@, slot[c].index)]
        /\ age' = [age EXCEPT ![slot[c].index] = 0]
        /\ taint' \subseteq taint \cup {"torn"}
    BY <1>5 DEF Accepted
  <2>1. /\ slot[c].index \in Apps
        /\ slot' \in [Children -> [app : {None} \cup Apps, index : Apps, total : 0..MaxFiles]]
        /\ slot'[c].total = Len(files[c]) + 1
        /\ \A d \in Children \ {c} : slot'[d] = slot[d]
    BY <1>0, <1>5, AcceptedFacts
  <2>2. SlotsOK' /\ taint' \subseteq Taints
    BY <1>1, <2>0, <2>1 DEF TypeInv, TypeOK, SlotsOK, Taints
  <2>3. AppsOK'
    BY <1>0, <2>0, <2>1, Consts DEF TypeInv, TypeOK, AppsOK
  <2>4. /\ files' \in [Children -> Seq(Apps)]
        /\ Len(files'[c]) = Len(files[c]) + 1 /\ Len(files'[c]) <= MaxFiles
        /\ \A d \in Children \ {c} : files'[d] = files[d]
    BY <1>0, <2>0, <2>1, AppendFacts
  <2>5. \A d \in Children : Len(files'[d]) <= MaxFiles
    BY <1>0, <2>4 DEF ChildrenOK
  <2>6. slot'[c].total = Len(files'[c])
    BY <2>1, <2>4
  <2>. QED BY <1>2, <2>0, <2>1, <2>2, <2>3, <2>4, <2>5, <2>6
<1>. QED BY <1>3, <1>4, <1>5, AcceptCases

LEMMA OlderType ==
  ASSUME NEW t \in 0..CheckTime
  PROVE  Older(t) \in 0..CheckTime
BY Consts DEF Older

LEMMA TickType ==
  ASSUME TypeInv, Tick
  PROVE  TypeInv'
<1>0. UNCHANGED <<flag, statRead, ringVars, slot, ready, sourceVars, mainVars, pc, files, pos, at,
                  done, stopping, deaths>>
  BY DEF Tick, slotVars
<1>1. AppsOK'
  <2>1. age' \in [Apps -> 0..CheckTime]
    BY OlderType DEF Tick, TypeInv, TypeOK, AppsOK
  <2>. QED BY <1>0, <2>1 DEF TypeInv, TypeOK, AppsOK
<1>2. ChildrenOK'
  <2>1. passAge' \in [Children -> 0..CheckTime]
    BY OlderType DEF Tick, TypeInv, TypeOK, ChildrenOK
  <2>. QED BY <1>0, <2>1 DEF TypeInv, TypeOK, ChildrenOK
<1>3. SlotsOK' /\ deaths' \in 0..MaxDeaths /\ stopping' \in BOOLEAN
  BY <1>0 DEF TypeInv, TypeOK, SlotsOK
<1>4. taint' \subseteq Taints
  BY DEF Tick, TypeInv, TypeOK, Taints
<1>5. ASSUME NEW d \in Children PROVE ChildAt(d)'
  <2>1. ~Running(d) => passAge'[d] = passAge[d]
    BY DEF Tick
  <2>. QED BY <1>0, <2>1 DEF TypeInv, ChildInv, ChildAt, Running, AtFile, AtRecord
<1>6. RingOK' /\ LiveWrote' /\ SourcesOK' /\ MainOK' /\ MainInv'
  <2>1. \A c \in Children : Running(c) => Running(c)'
    BY <1>0 DEF Running
  <2>. QED BY <1>0, <2>1, SameRing, SameSources, SameMain
<1>. QED BY <1>1, <1>2, <1>3, <1>4, <1>5, <1>6 DEF TypeInv, TypeOK, ChildInv

LEMMA StutterType ==
  ASSUME TypeInv, UNCHANGED vars
  PROVE  TypeInv'
<1>0. UNCHANGED <<flag, age, statRead, ringVars, slot, ready, sourceVars, mainVars, childVars,
                  stopping, deaths, taint>>
  BY DEF vars, appVars, slotVars
<1>1. ChildrenOK' /\ ChildInv' /\ \A c \in Children : Running(c)' <=> Running(c)
  BY <1>0, SameChildren
<1>2. RingOK' /\ LiveWrote' /\ SourcesOK' /\ MainOK' /\ MainInv'
  BY <1>0, <1>1, SameRing, SameSources, SameMain
<1>3. AppsOK' /\ SlotsOK' /\ stopping' \in BOOLEAN /\ deaths' \in 0..MaxDeaths /\ taint' \subseteq Taints
  BY <1>0 DEF TypeInv, TypeOK, AppsOK, SlotsOK
<1>. QED BY <1>1, <1>2, <1>3 DEF TypeInv, TypeOK

LEMMA TypeNext == TypeInv /\ [Next]_vars => TypeInv'
<1>. SUFFICES ASSUME TypeInv, [Next]_vars PROVE TypeInv'
  OBVIOUS
<1>1. ASSUME NEW c \in Children, Child(c) PROVE TypeInv'
  BY <1>1, StartType, BeginPassType, AcceptType, WriteFileType, WriteLogRecordType, QuietStepType,
     AdvanceType
  DEF Child
<1>2. ASSUME NEW c \in Children, Child(c) \/ Exit(c) \/ Die(c) PROVE TypeInv'
  BY <1>1, <1>2, DieType
<1>3. ASSUME NEW s \in Sources, Source(s) \/ SourceDies(s) \/ \E a \in Apps : Reserve(s, a)
      PROVE  TypeInv'
  BY <1>3, SourceType, ReserveType
<1>. QED BY <1>2, <1>3, StutterType, MainType, MainEndType, StopType, StartAllType, TickType DEF Next

(* slog_write keeps the lists of its children, their slots and the rings in bounds, however  *)
(* children, processes that log and the script that stops all of them interleave: a list     *)
(* never grows past MAX_SLOG_SHM_FILE_PER_PROCESS, and no index leaves its ring, even when   *)
(* two are inside the lock.                                                                  *)
THEOREM DispatchTypeCorrect == Spec => []TypeOK
BY TypeInit, TypeNext, PTL DEF Spec, TypeInv

-----------------------------------------------------------------------------
(* One writer.  The steps of the invariant WriterInv, as long as no taint appears. *)

LEMMA Numbers ==
  ASSUME TypeInv
  PROVE  /\ CheckTime \in Nat \ {0}
         /\ \A a \in Apps : age[a] \in 0..CheckTime
         /\ \A c \in Children : passAge[c] \in 0..CheckTime
BY Consts DEF TypeInv, TypeOK, AppsOK, ChildrenOK

(* A child with a list runs. *)
LEMMA ListRuns ==
  ASSUME TypeInv, NEW c \in Children, NEW i \in 1..Len(files[c])
  PROVE  Running(c) /\ files[c][i] \in Apps
<1>1. ChildrenOK /\ ChildAt(c)
  BY DEF TypeInv, TypeOK, ChildInv
<1>2. Len(files[c]) \in Nat /\ files[c][i] \in Apps
  BY <1>1, FilesFacts, Consts
<1>3. files[c] # <<>>
  BY <1>2, EmptyList
<1>. QED BY <1>1, <1>2, <1>3 DEF ChildAt

(* An application that main finds untried for CheckTime is in nobody's list and in nobody's *)
(* slot.                                                                                   *)
LEMMA Untried ==
  ASSUME TypeInv, WriterInv, NEW a \in Apps, age[a] = CheckTime, mpc = "scan"
  PROVE  /\ \A d \in Children : \A j \in 1..Len(files[d]) : files[d][j] # a
         /\ \A d \in Children : Running(d) => slot[d].app # a
<1>1. ASSUME NEW d \in Children, NEW j \in 1..Len(files[d]), files[d][j] = a PROVE FALSE
  <2>1. Running(d)
    BY ListRuns
  <2>2. 2 * passAge[d] < CheckTime /\ 2 * age[a] < CheckTime + 2 * passAge[d]
    BY <1>1, <2>1 DEF WriterInv, InTime, Tried
  <2>. QED BY <2>2, Numbers
<1>2. ASSUME NEW d \in Children, Running(d), slot[d].app = a PROVE FALSE
  <2>1. 2 * age[a] < CheckTime + 2 * passAge[d] /\ 2 * passAge[d] < CheckTime
    BY <1>2, NoneFacts DEF WriterInv, InTime, Given, GivenInTime, BeingGiven
  <2>. QED BY <2>1, Numbers
<1>. QED BY <1>1, <1>2

(* Nobody runs: at the start, and when all have ended. *)
LEMMA WriterIdle ==
  ASSUME \A c \in Children : files[c] = <<>> /\ ~Running(c)
  PROVE  WriterInv
<1>1. \A c \in Children : Len(files[c]) = 0
  BY EmptyList
<1>2. Tried /\ Unique
  BY <1>1 DEF Tried, Unique
<1>3. InTime /\ Given
  BY DEF InTime, Given
<1>. QED BY <1>2, <1>3 DEF WriterInv

LEMMA WriterSame ==
  ASSUME WriterInv, UNCHANGED <<age, slot, mainVars, pc, files, pos, passAge>>
  PROVE  WriterInv'
<1>0. UNCHANGED <<mpc, mapp, mto>>
  BY DEF mainVars
<1>1. InTime' /\ Unique'
  BY DEF WriterInv, InTime, Unique, Running
<1>2. Tried'
  BY <1>0 DEF WriterInv, Tried, Visited, AtRecord
<1>3. Given'
  BY <1>0 DEF WriterInv, Given, GivenInTime, BeingGiven, Running
<1>. QED BY <1>1, <1>2, <1>3 DEF WriterInv

(* The main process ends: nothing is given any more, whatever happens to the times. *)
LEMMA WriterMainEnd ==
  ASSUME WriterInv, mpc' = "dead", UNCHANGED <<slot, pc, files, pos, passAge>>
  PROVE  WriterInv'
<1>1. InTime' /\ Unique' /\ Tried'
  BY DEF WriterInv, InTime, Unique, Running, Tried
<1>2. Given'
  BY DEF WriterInv, Given, Running
<1>. QED BY <1>1, <1>2 DEF WriterInv

LEMMA WriterMain ==
  ASSUME TypeInv, WriterInv, Main
  PROVE  WriterInv'
<1>1. CASE ChildrenReady
  <2>0. /\ UNCHANGED <<age, slot, mapp, mto, pc, files, pos, passAge>>
        /\ mpc = "wait" /\ mpc' = "scan"
    BY <1>1 DEF ChildrenReady, appVars, slotVars, childVars
  <2>1. InTime' /\ Unique'
    BY <2>0 DEF WriterInv, InTime, Unique, Running
  <2>2. Tried'
    BY <2>0 DEF WriterInv, Tried, Visited, AtRecord
  <2>3. Given'
    BY <2>0 DEF WriterInv, Given, GivenInTime, BeingGiven, Running
  <2>. QED BY <2>1, <2>2, <2>3 DEF WriterInv
<1>2. ASSUME NEW a \in Apps, age' = [age EXCEPT ![a] = 0], mpc # "dead",
             UNCHANGED <<pc, files, pos, passAge>>,
             \A c \in Children : slot'[c].app = slot[c].app,
             \/ UNCHANGED <<mpc, mapp, mto>>
             \/ mpc = "index" /\ a = mapp
      PROVE  WriterInv'
  <2>0. /\ \A b \in Apps : age'[b] \in Int /\ age'[b] >= 0 /\ age'[b] <= age[b]
        /\ age'[a] = 0
    BY <1>2, Numbers DEF TypeInv, TypeOK, AppsOK
  <2>1. InTime' /\ Unique'
    BY <1>2 DEF WriterInv, InTime, Unique, Running
  <2>3. Tried'
    <3>. SUFFICES ASSUME NEW c \in Children, NEW i \in 1..Len(files[c])
                  PROVE  /\ Visited(c, i) => age'[files[c][i]] <= passAge[c]
                         /\ 2 * age'[files[c][i]] < CheckTime + 2 * passAge[c]
      BY <1>2 DEF Tried, Visited, AtRecord
    <3>1. files[c][i] \in Apps
      BY ListRuns
    <3>2. /\ Visited(c, i) => age[files[c][i]] <= passAge[c]
          /\ 2 * age[files[c][i]] < CheckTime + 2 * passAge[c]
      BY <1>2 DEF WriterInv, Tried
    <3>3. /\ age[files[c][i]] \in Int /\ age'[files[c][i]] \in Int
          /\ age'[files[c][i]] <= age[files[c][i]]
          /\ passAge[c] \in Int /\ CheckTime \in Int
      BY <2>0, <3>1, Numbers
    <3>. QED BY <3>2, <3>3, SMTT(60)
  <2>4. Given'
    <3>. SUFFICES ASSUME NEW c \in Children, Running(c), slot[c].app # None
                  PROVE  /\ mpc' = "dead" \/ GivenInTime(c)' \/ BeingGiven(c)'
                         /\ \A d \in Children : \A j \in 1..Len(files[d]) : files[d][j] # slot[c].app
                         /\ \A d \in Children : Running(d) /\ slot[d].app = slot[c].app => d = c
      BY <1>2 DEF Given, Running
    <3>1. slot[c].app \in Apps /\ slot'[c].app = slot[c].app
      BY <1>2 DEF TypeInv, TypeOK, SlotsOK
    <3>2. /\ GivenInTime(c) \/ BeingGiven(c)
          /\ \A d \in Children : \A j \in 1..Len(files[d]) : files[d][j] # slot[c].app
          /\ \A d \in Children : Running(d) /\ slot[d].app = slot[c].app => d = c
      BY <1>2 DEF WriterInv, Given
    <3>3. CASE GivenInTime(c)
      <4>1. GivenInTime(c)'
        BY <1>2, <2>0, <3>1, <3>3, Numbers DEF GivenInTime
      <4>. QED BY <3>2, <4>1
    <3>4. CASE BeingGiven(c)
      <4>1. CASE UNCHANGED <<mpc, mapp, mto>>
        BY <3>1, <3>2, <3>4, <4>1 DEF BeingGiven
      <4>2. CASE a = mapp
        <5>1. age'[slot'[c].app] = 0
          BY <2>0, <3>1, <3>4, <4>2 DEF BeingGiven
        <5>2. GivenInTime(c)'
          BY <1>2, <5>1, Numbers DEF GivenInTime
        <5>. QED BY <3>2, <5>2
      <4>. QED BY <1>2, <4>1, <4>2
    <3>. QED BY <3>2, <3>3, <3>4
  <2>. QED BY <2>1, <2>3, <2>4 DEF WriterInv
<1>3. ASSUME NEW a \in Apps, ReadStat(a) PROVE WriterInv'
  BY <1>2, <1>3 DEF ReadStat, mainVars, childVars, slotVars
<1>4. CASE StoreIndex
  <2>1. mapp \in Apps /\ mto \in Children
    BY <1>4 DEF StoreIndex, TypeInv, MainInv
  <2>2. \A c \in Children : slot'[c].app = slot[c].app
    BY <1>4, <2>1 DEF StoreIndex, TypeInv, TypeOK, SlotsOK
  <2>. QED BY <1>2, <1>4, <2>1, <2>2 DEF StoreIndex, childVars
<1>5. ASSUME NEW a \in Apps, TryDispatchAppWrite(a) PROVE WriterInv'
  <2>0. UNCHANGED <<age, pc, files, pos, passAge>>
    BY <1>5 DEF TryDispatchAppWrite, appVars, childVars
  <2>1. PICK c \in Children : slot' = [slot EXCEPT ![c].app = a] /\ mto' = c
    BY <1>5 DEF TryDispatchAppWrite, Idlest, FreeSlots
  <2>2. slot'[c].app = a /\ \A d \in Children \ {c} : slot'[d].app = slot[d].app
    BY <2>1 DEF TypeInv, TypeOK, SlotsOK
  <2>3. mpc = "scan" /\ mpc' = "index" /\ mapp' = a /\ age[a] = CheckTime
    BY <1>5, Numbers DEF TryDispatchAppWrite, NoNeed
  <2>4. /\ \A d \in Children : \A j \in 1..Len(files[d]) : files[d][j] # a
        /\ \A d \in Children : Running(d) => slot[d].app # a
    BY <2>3, Untried
  <2>5. InTime' /\ Unique'
    BY <2>0 DEF WriterInv, InTime, Unique, Running
  <2>6. Tried'
    BY <2>0, <2>3 DEF WriterInv, Tried, Visited, AtRecord
  <2>7. Given'
    <3>. SUFFICES ASSUME NEW e \in Children, Running(e), slot'[e].app # None
                  PROVE  /\ GivenInTime(e)' \/ BeingGiven(e)'
                         /\ \A d \in Children : \A j \in 1..Len(files[d]) : files[d][j] # slot'[e].app
                         /\ \A d \in Children : Running(d) /\ slot'[d].app = slot'[e].app => d = e
      BY <2>0 DEF Given, Running
    <3>1. CASE e = c
      BY <2>1, <2>2, <2>3, <2>4, <3>1 DEF BeingGiven
    <3>2. CASE e # c
      <4>1. /\ slot'[e].app = slot[e].app /\ ~BeingGiven(e) /\ mpc # "dead"
        BY <2>2, <2>3, <3>2 DEF BeingGiven
      <4>2. /\ GivenInTime(e)
            /\ \A d \in Children : \A j \in 1..Len(files[d]) : files[d][j] # slot[e].app
            /\ \A d \in Children : Running(d) /\ slot[d].app = slot[e].app => d = e
        BY <4>1 DEF WriterInv, Given
      <4>3. GivenInTime(e)'
        BY <2>0, <4>1, <4>2 DEF GivenInTime
      <4>4. \A d \in Children : Running(d) /\ slot'[d].app = slot[e].app => d = e
        BY <2>2, <2>4, <3>2, <4>2
      <4>. QED BY <4>1, <4>2, <4>3, <4>4
    <3>. QED BY <3>1, <3>2
  <2>. QED BY <2>5, <2>6, <2>7 DEF WriterInv
<1>. QED BY <1>1, <1>3, <1>4, <1>5 DEF Main

(* A step of c within its pass: it may note the time of the application it is at. *)
LEMMA StepInPass ==
  ASSUME TypeInv, WriterInv, NEW c \in Children, AtFile(c),
         UNCHANGED <<slot, mpc, mapp, mto, files, passAge>>,
         pc'[c] \in {"file", "record", "advance", "lock", "store", "accept"},
         \A d \in Children \ {c} : pc'[d] = pc[d] /\ pos'[d] = pos[d],
         \A b \in Apps \ {App(c)} : age'[b] = age[b],
         age'[App(c)] = passAge[c] \/ (AtRecord(c) /\ age'[App(c)] = age[App(c)]),
         \A i \in 1..Len(files[c]) : Visited(c, i)' => Visited(c, i) \/ i = pos[c]
  PROVE  WriterInv'
<1>. DEFINE a == files[c][pos[c]]
<1>0. pos[c] \in 1..Len(files[c]) /\ a \in Apps /\ App(c) = a
  BY CurrentApp DEF TypeInv, TypeOK, App
<1>1. \A d \in Children : Running(d)' <=> Running(d)
  BY DEF Running, AtFile, AtRecord
<1>2. InTime'
  BY <1>1 DEF WriterInv, InTime
<1>3. Unique'
  BY SMTT(60) DEF WriterInv, Unique
<1>4. mpc # "dead" => age'[a] \in 0..CheckTime /\ age'[a] <= passAge[c]
  <2>1. mpc # "dead" /\ AtRecord(c) => age[a] <= passAge[c]
    BY <1>0 DEF WriterInv, Tried, Visited
  <2>. QED BY <1>0, <2>1, Numbers
<1>5. Tried'
  <2>. SUFFICES ASSUME mpc # "dead", NEW d \in Children, NEW i \in 1..Len(files[d])
                PROVE  /\ Visited(d, i)' => age'[files[d][i]] <= passAge[d]
                       /\ 2 * age'[files[d][i]] < CheckTime + 2 * passAge[d]
    BY DEF Tried
  <2>1. files[d][i] \in Apps
    BY ListRuns
  <2>2. /\ Visited(d, i) => age[files[d][i]] <= passAge[d]
        /\ 2 * age[files[d][i]] < CheckTime + 2 * passAge[d]
    BY DEF WriterInv, Tried
  <2>3. files[d][i] = a => d = c /\ i = pos[c]
    BY <1>0 DEF WriterInv, Unique
  <2>4. CASE files[d][i] = a
    BY <1>4, <2>3, <2>4, Numbers, SMTT(60)
  <2>5. CASE files[d][i] # a
    <3>1. Visited(d, i)' => Visited(d, i)
      BY <2>5 DEF Visited, AtRecord
    <3>. QED BY <1>0, <2>1, <2>2, <2>5, <3>1
  <2>. QED BY <2>4, <2>5
<1>6. Given'
  <2>. SUFFICES ASSUME NEW e \in Children, Running(e), slot[e].app # None
                PROVE  /\ mpc' = "dead" \/ GivenInTime(e)' \/ BeingGiven(e)'
                       /\ \A d \in Children : \A j \in 1..Len(files[d]) : files[d][j] # slot[e].app
                       /\ \A d \in Children : Running(d) /\ slot[d].app = slot[e].app => d = e
    BY <1>1 DEF Given
  <2>1. /\ slot[e].app \in Apps
        /\ mpc = "dead" \/ GivenInTime(e) \/ BeingGiven(e)
        /\ \A d \in Children : \A j \in 1..Len(files[d]) : files[d][j] # slot[e].app
        /\ \A d \in Children : Running(d) /\ slot[d].app = slot[e].app => d = e
    BY DEF TypeInv, TypeOK, SlotsOK, WriterInv, Given
  <2>2. age'[slot[e].app] = age[slot[e].app]
    BY <1>0, <2>1
  <2>3. GivenInTime(e) => GivenInTime(e)'
    BY <2>2 DEF GivenInTime
  <2>4. BeingGiven(e) => BeingGiven(e)'
    BY DEF BeingGiven
  <2>. QED BY <2>1, <2>3, <2>4
<1>. QED BY <1>2, <1>3, <1>5, <1>6 DEF WriterInv

(* Moving to the next application, or to the end of the pass, visits no other. *)
LEMMA NextVisited ==
  ASSUME TypeInv, WriterInv, NEW c \in Children, AtFile(c), FileDone(c)
  PROVE  \A i \in 1..Len(files[c]) : Visited(c, i)' => Visited(c, i) \/ i = pos[c]
<1>. SUFFICES ASSUME NEW i \in 1..Len(files[c]), Visited(c, i)' PROVE Visited(c, i) \/ i = pos[c]
  OBVIOUS
<1>1. /\ pc'[c] \in {"accept", "file"}
      /\ pc'[c] = "file" => pos'[c] = pos[c] + 1
      /\ pc'[c] = "accept" => passAge[c] = CheckTime \/ pos[c] = Len(files[c])
  BY FileDoneType
<1>2. pos[c] \in 1..Len(files[c])
  BY CurrentApp DEF TypeInv, TypeOK
<1>3. passAge[c] # CheckTime
  <2>1. Running(c)
    BY <1>2, ListRuns
  <2>. QED BY <2>1, Numbers DEF WriterInv, InTime
<1>4. CASE pc'[c] = "file"
  <2>1. i < pos[c] + 1
    BY <1>1, <1>4 DEF Visited, AtRecord
  <2>. QED BY <1>2, <2>1 DEF Visited
<1>5. CASE pc'[c] = "accept"
  BY <1>1, <1>2, <1>3, <1>5 DEF Visited
<1>. QED BY <1>1, <1>4, <1>5

(* The labels within WriteFile. *)
InFile(c) == WriteFile(c) \/ WriteLogRecord(c) \/ RecordFails(c) \/ TestMoved(c) \/ EnterAdvance(c)
             \/ Advance(c)

LEMMA InFileFacts ==
  ASSUME TypeInv, NEW c \in Children, InFile(c)
  PROVE  /\ AtFile(c) /\ UNCHANGED <<slot, mpc, mapp, mto, files, passAge, widx>>
         /\ \/ FileDone(c)
            \/ /\ \E l \in {"record", "advance", "lock", "store"} : pc' = [pc EXCEPT ![c] = l]
               /\ UNCHANGED pos
         /\ \/ pc[c] = "file" /\ age' = [age EXCEPT ![App(c)] = passAge[c]]
            \/ AtRecord(c) /\ UNCHANGED age
<1>1. CASE WriteFile(c)
  BY <1>1 DEF WriteFile, slotVars, mainVars, ringVars, AtFile
<1>2. CASE WriteLogRecord(c)
  BY <1>2 DEF WriteLogRecord, appVars, slotVars, mainVars, AtFile, AtRecord
<1>3. CASE RecordFails(c)
  BY <1>3 DEF RecordFails, appVars, slotVars, mainVars, ringVars, AtFile, AtRecord
<1>4. CASE TestMoved(c)
  BY <1>4 DEF TestMoved, appVars, slotVars, mainVars, ringVars, AtFile, AtRecord
<1>5. CASE EnterAdvance(c)
  BY <1>5 DEF EnterAdvance, appVars, slotVars, mainVars, ringVars, AtFile, AtRecord
<1>6. CASE Advance(c)
  <2>1. /\ UNCHANGED <<age, slot, mpc, mapp, mto, files, passAge, widx>>
        /\ pc[c] = "store"
    BY <1>6 DEF Advance, appVars, slotVars, mainVars
  <2>2. \/ FileDone(c)
        \/ pc' = [pc EXCEPT ![c] = "record"] /\ UNCHANGED pos
    BY <1>6 DEF Advance
  <2>. QED BY <2>1, <2>2 DEF AtFile, AtRecord
<1>. QED BY <1>1, <1>2, <1>3, <1>4, <1>5, <1>6 DEF InFile

(* Within WriteFile the labels and places of the others stay. *)
LEMMA InFileMoves ==
  ASSUME TypeInv, NEW c \in Children, InFile(c)
  PROVE  /\ pc'[c] \in {"file", "record", "advance", "lock", "store", "accept"}
         /\ \A d \in Children \ {c} : pc'[d] = pc[d] /\ pos'[d] = pos[d]
<1>1. CASE FileDone(c)
  BY <1>1, InFileFacts, FileDoneType
<1>2. ASSUME NEW l \in {"record", "advance", "lock", "store"}, pc' = [pc EXCEPT ![c] = l],
             UNCHANGED pos
      PROVE  /\ pc'[c] \in {"file", "record", "advance", "lock", "store", "accept"}
             /\ \A d \in Children \ {c} : pc'[d] = pc[d] /\ pos'[d] = pos[d]
  BY <1>2 DEF TypeInv, TypeOK, ChildrenOK
<1>. QED BY <1>1, <1>2, InFileFacts

LEMMA WriterInFile ==
  ASSUME TypeInv, WriterInv, NEW c \in Children, InFile(c)
  PROVE  WriterInv'
<1>0. AtFile(c) /\ UNCHANGED <<slot, mpc, mapp, mto, files, passAge>> /\ ChildrenOK
  BY InFileFacts DEF TypeInv, TypeOK
<1>1. App(c) \in Apps
  BY <1>0, CurrentApp DEF TypeInv
<1>2. /\ \A b \in Apps \ {App(c)} : age'[b] = age[b]
      /\ age'[App(c)] = passAge[c] \/ (AtRecord(c) /\ age'[App(c)] = age[App(c)])
  <2>1. CASE age' = [age EXCEPT ![App(c)] = passAge[c]]
    BY <1>1, <2>1 DEF TypeInv, TypeOK, AppsOK
  <2>2. CASE AtRecord(c) /\ UNCHANGED age
    BY <2>2
  <2>. QED BY <2>1, <2>2, InFileFacts
<1>3. \A i \in 1..Len(files[c]) : Visited(c, i)' => Visited(c, i) \/ i = pos[c]
  <2>1. CASE FileDone(c)
    BY <1>0, <2>1, NextVisited
  <2>2. ASSUME NEW l \in {"record", "advance", "lock", "store"}, pc' = [pc EXCEPT ![c] = l],
               UNCHANGED pos
        PROVE  \A i \in 1..Len(files[c]) : Visited(c, i)' => Visited(c, i) \/ i = pos[c]
    <3>1. pc'[c] = l
      BY <1>0, <2>2 DEF ChildrenOK
    <3>. QED BY <2>2, <3>1 DEF Visited
  <2>. QED BY <2>1, <2>2, InFileFacts
<1>. QED BY <1>0, <1>2, <1>3, InFileMoves, StepInPass

(* A child that begins or that ends takes nothing: its list is empty, and its slot is empty  *)
(* or it does not run.                                                                       *)
LEMMA StepOutside ==
  ASSUME TypeInv, WriterInv, NEW c \in Children,
         UNCHANGED <<mpc, mapp, mto>>, UNCHANGED age \/ mpc = "dead",
         \A d \in Children \ {c} : /\ pc'[d] = pc[d] /\ pos'[d] = pos[d] /\ files'[d] = files[d]
                                   /\ passAge'[d] = passAge[d] /\ slot'[d] = slot[d],
         Len(files'[c]) = 0, passAge'[c] = 0,
         ~Running(c)' \/ slot'[c].app = None
  PROVE  WriterInv'
<1>1. \A d \in Children \ {c} : Running(d)' <=> Running(d)
  BY DEF Running
<1>2. InTime'
  BY <1>1, Numbers DEF WriterInv, InTime
<1>3. ASSUME NEW d \in Children, NEW i \in 1..Len(files'[d])
      PROVE  d # c /\ i \in 1..Len(files[d]) /\ files'[d][i] = files[d][i]
  BY <1>3
<1>4. Unique'
  BY <1>3 DEF WriterInv, Unique
<1>5. Tried'
  <2>. SUFFICES ASSUME mpc # "dead", NEW d \in Children, NEW i \in 1..Len(files'[d])
                PROVE  /\ Visited(d, i)' => age[files[d][i]] <= passAge[d]
                       /\ 2 * age[files[d][i]] < CheckTime + 2 * passAge[d]
    BY <1>3 DEF Tried
  <2>1. d # c /\ i \in 1..Len(files[d])
    BY <1>3
  <2>. QED BY <2>1 DEF WriterInv, Tried, Visited, AtRecord
<1>6. Given'
  <2>. SUFFICES ASSUME NEW e \in Children, Running(e)', slot'[e].app # None
                PROVE  /\ mpc = "dead" \/ GivenInTime(e)' \/ BeingGiven(e)'
                       /\ \A d \in Children : \A j \in 1..Len(files'[d]) : files'[d][j] # slot'[e].app
                       /\ \A d \in Children : Running(d)' /\ slot'[d].app = slot'[e].app => d = e
    BY DEF Given
  <2>1. e # c /\ Running(e) /\ slot'[e] = slot[e] /\ passAge'[e] = passAge[e] /\ pc'[e] = pc[e]
    BY <1>1
  <2>2. /\ mpc = "dead" \/ GivenInTime(e) \/ BeingGiven(e)
        /\ \A d \in Children : \A j \in 1..Len(files[d]) : files[d][j] # slot[e].app
        /\ \A d \in Children : Running(d) /\ slot[d].app = slot[e].app => d = e
    BY <2>1 DEF WriterInv, Given
  <2>3. \A d \in Children : \A j \in 1..Len(files'[d]) : files'[d][j] # slot'[e].app
    BY <1>3, <2>1, <2>2, SMTT(60)
  <2>4. \A d \in Children : Running(d)' /\ slot'[d].app = slot'[e].app => d = e
    <3>. SUFFICES ASSUME NEW d \in Children, Running(d)', slot'[d].app = slot'[e].app PROVE d = e
      OBVIOUS
    <3>1. d # c
      BY <2>1
    <3>. QED BY <1>1, <2>1, <2>2, <3>1
  <2>5. mpc # "dead" /\ GivenInTime(e) => GivenInTime(e)'
    BY <2>1 DEF GivenInTime
  <2>6. BeingGiven(e) => BeingGiven(e)'
    BY <2>1 DEF BeingGiven
  <2>. QED BY <2>2, <2>3, <2>4, <2>5, <2>6
<1>. QED BY <1>2, <1>4, <1>5, <1>6 DEF WriterInv

LEMMA WriterStart ==
  ASSUME TypeInv, WriterInv, NEW c \in Children, Start(c) \/ ClearSlot(c)
  PROVE  WriterInv'
<1>0. /\ UNCHANGED <<age, mpc, mapp, mto, files, pos, passAge>>
      /\ pc[c] \in {"start", "clear"} /\ ChildrenOK
  BY DEF Start, ClearSlot, appVars, mainVars, TypeInv, TypeOK
<1>1. /\ \A d \in Children \ {c} : pc'[d] = pc[d] /\ slot'[d] = slot[d]
      /\ pc'[c] = "clear" \/ slot'[c].app = None
  BY DEF Start, ClearSlot, TypeInv, TypeOK, ChildrenOK, SlotsOK
<1>2. Len(files[c]) = 0 /\ passAge[c] = 0
  BY <1>0, EmptyList DEF TypeInv, ChildInv, ChildAt, Running
<1>3. ~Running(c)' \/ slot'[c].app = None
  BY <1>1 DEF Running
<1>. QED BY <1>0, <1>1, <1>2, <1>3, StepOutside

(* A child ends, while the times stay or the main process has ended before. *)
LEMMA WriterGone ==
  ASSUME TypeInv, WriterInv, NEW c \in Children, ChildGone(c), UNCHANGED <<slot, mainVars>>,
         UNCHANGED age \/ mpc = "dead"
  PROVE  WriterInv'
<1>1. Len(files'[c]) = 0 /\ passAge'[c] = 0 /\ ~Running(c)'
  BY GoneFacts, EmptyList DEF Running
<1>2. UNCHANGED <<mpc, mapp, mto>>
  BY DEF mainVars
<1>. QED BY <1>1, <1>2, GoneFacts, StepOutside

LEMMA WriterExit ==
  ASSUME TypeInv, WriterInv, NEW c \in Children, Exit(c), "stop" \notin taint'
  PROVE  WriterInv'
<1>0. ChildGone(c) /\ UNCHANGED <<slot, mainVars>>
  BY DEF Exit
<1>1. CASE mpc = "dead"
  BY <1>0, <1>1, WriterGone
<1>2. CASE \A d \in Children \ {c} : ~Alive(d)
  <2>1. \A d \in Children : files'[d] = <<>> /\ pc'[d] = "dead"
    <3>. SUFFICES ASSUME NEW d \in Children \ {c} PROVE files'[d] = <<>> /\ pc'[d] = "dead"
      BY <1>0, GoneFacts
    <3>1. files[d] = <<>> /\ pc[d] = "dead"
      BY <1>2 DEF Alive, TypeInv, ChildInv, ChildAt, Running
    <3>. QED BY <1>0, <3>1, GoneFacts
  <2>2. (\A d \in Children : files[d] = <<>> /\ ~Running(d))'
    BY <2>1 DEF Running
  <2>3. (\A d \in Children : Len(files[d]) = 0)'
    BY <2>2, EmptyList
  <2>4. Tried' /\ Unique'
    BY <2>3 DEF Tried, Unique
  <2>5. InTime' /\ Given'
    BY <2>2 DEF InTime, Given
  <2>. QED BY <2>4, <2>5 DEF WriterInv
<1>. QED BY <1>1, <1>2 DEF Exit

LEMMA WriterStartAll ==
  ASSUME TypeInv, StartAll
  PROVE  WriterInv'
<1>1. \A c \in Children : files[c] = <<>>
  BY DEF StartAll, Alive, TypeInv, ChildInv, ChildAt, Running
<1>2. (\A c \in Children : files[c] = <<>> /\ ~Running(c))'
  BY <1>1 DEF StartAll, Running
<1>3. (\A d \in Children : Len(files[d]) = 0)'
  BY <1>2, EmptyList
<1>4. Tried' /\ Unique'
  BY <1>3 DEF Tried, Unique
<1>5. InTime' /\ Given'
  BY <1>2 DEF InTime, Given
<1>. QED BY <1>4, <1>5 DEF WriterInv

LEMMA WriterBegin ==
  ASSUME TypeInv, WriterInv, NEW c \in Children, BeginPass(c)
  PROVE  WriterInv'
<1>0. /\ UNCHANGED <<age, slot, mpc, mapp, mto, files>>
      /\ pc[c] = "run" /\ pc'[c] \in {"accept", "file"} /\ pos'[c] = 1 /\ passAge'[c] = 0
      /\ pc'[c] = "accept" => files[c] = <<>>
      /\ \A d \in Children \ {c} : pc'[d] = pc[d] /\ pos'[d] = pos[d] /\ passAge'[d] = passAge[d]
  BY BeginFacts
<1>1. \A d \in Children : Running(d)' <=> Running(d)
  BY <1>0 DEF Running
<1>2. Running(c) /\ 2 * passAge[c] < CheckTime
  BY <1>0 DEF WriterInv, InTime, Running
<1>3. InTime' /\ Unique'
  BY <1>0, <1>1, Numbers DEF WriterInv, InTime, Unique
<1>4. Tried'
  <2>. SUFFICES ASSUME mpc # "dead", NEW d \in Children, NEW i \in 1..Len(files[d])
                PROVE  /\ Visited(d, i)' => age[files[d][i]] <= passAge'[d]
                       /\ 2 * age[files[d][i]] < CheckTime + 2 * passAge'[d]
    BY <1>0 DEF Tried
  <2>1. CASE d # c
    BY <1>0, <2>1 DEF WriterInv, Tried, Visited, AtRecord
  <2>2. CASE d = c
    <3>1. age[files[c][i]] <= passAge[c] /\ files[c][i] \in Apps
      BY <1>0, <2>2, ListRuns DEF WriterInv, Tried, Visited
    <3>2. 2 * age[files[c][i]] < CheckTime
      BY <1>2, <3>1, Numbers
    <3>3. pc'[c] = "file"
      BY <1>0, <2>2, EmptyList
    <3>4. ~Visited(c, i)'
      BY <1>0, <2>2, <3>3 DEF Visited, AtRecord
    <3>. QED BY <1>0, <2>2, <3>2, <3>4, Numbers
  <2>. QED BY <2>1, <2>2
<1>5. Given'
  <2>. SUFFICES ASSUME NEW e \in Children, Running(e), slot[e].app # None
                PROVE  /\ mpc = "dead" \/ GivenInTime(e)' \/ BeingGiven(e)'
                       /\ \A d \in Children : \A j \in 1..Len(files[d]) : files[d][j] # slot[e].app
                       /\ \A d \in Children : Running(d) /\ slot[d].app = slot[e].app => d = e
    BY <1>0, <1>1 DEF Given
  <2>1. /\ slot[e].app \in Apps
        /\ mpc = "dead" \/ GivenInTime(e) \/ BeingGiven(e)
        /\ \A d \in Children : \A j \in 1..Len(files[d]) : files[d][j] # slot[e].app
        /\ \A d \in Children : Running(d) /\ slot[d].app = slot[e].app => d = e
    BY DEF TypeInv, TypeOK, SlotsOK, WriterInv, Given
  <2>2. GivenInTime(e) => GivenInTime(e)'
    <3>1. CASE e # c
      BY <1>0, <3>1 DEF GivenInTime
    <3>2. CASE e = c
      <4>1. GivenInTime(c) => 2 * age[slot[c].app] < CheckTime
        BY <1>0, <1>2, <2>1, <3>2, Numbers DEF GivenInTime
      <4>. QED BY <1>0, <3>2, <4>1, <2>1, Numbers DEF GivenInTime
    <3>. QED BY <3>1, <3>2
  <2>3. BeingGiven(e) => BeingGiven(e)'
    BY <1>0 DEF BeingGiven
  <2>. QED BY <2>1, <2>2, <2>3
<1>. QED BY <1>3, <1>4, <1>5 DEF WriterInv

LEMMA WriterAccept ==
  ASSUME TypeInv, WriterInv, NEW c \in Children, TryAcceptDispatchApp(c), "torn" \notin taint'
  PROVE  WriterInv'
<1>0. /\ pc[c] = "accept" /\ ChildrenOK /\ Running(c)
      /\ UNCHANGED <<mpc, mapp, mto, mainVars>>
  BY AcceptCases DEF TypeInv, TypeOK, Running, mainVars
<1>1. ASSUME pc' = [pc EXCEPT ![c] = "run"]
      PROVE  /\ pc'[c] = "run" /\ \A d \in Children \ {c} : pc'[d] = pc[d]
             /\ \A d \in Children : Running(d)' <=> Running(d)
  BY <1>0, <1>1 DEF ChildrenOK, Running
<1>2. CASE NothingGiven(c)
  <2>0. UNCHANGED <<age, slot, files, pos, passAge>> /\ slot[c].app = None
        /\ pc' = [pc EXCEPT ![c] = "run"]
    BY <1>2 DEF NothingGiven
  <2>1. InTime' /\ Unique'
    BY <1>1, <2>0 DEF WriterInv, InTime, Unique
  <2>2. \A d \in Children : \A i \in 1..Len(files[d]) : Visited(d, i)' => Visited(d, i)
    BY <1>0, <1>1, <2>0 DEF Visited, AtRecord
  <2>3. Tried'
    BY <1>0, <2>0, <2>2 DEF WriterInv, Tried
  <2>4. Given'
    <3>. SUFFICES ASSUME NEW e \in Children, Running(e), slot[e].app # None
                  PROVE  mpc = "dead" \/ GivenInTime(e)' \/ BeingGiven(e)'
      BY <1>0, <1>1, <2>0 DEF WriterInv, Given
    <3>1. e # c /\ pc'[e] = pc[e] /\ (mpc = "dead" \/ GivenInTime(e) \/ BeingGiven(e))
      BY <1>1, <2>0 DEF WriterInv, Given
    <3>2. GivenInTime(e) => GivenInTime(e)'
      BY <2>0, <3>1 DEF GivenInTime
    <3>3. BeingGiven(e) => BeingGiven(e)'
      BY <1>0, <2>0 DEF BeingGiven
    <3>. QED BY <3>1, <3>2, <3>3
  <2>. QED BY <2>1, <2>3, <2>4 DEF WriterInv
<1>3. CASE ListFull(c)
  BY <1>0, <1>3, WriterGone DEF ListFull
<1>4. CASE Accepted(c)
  <2>. DEFINE a == slot[c].app
              n == Len(files[c]) + 1
  <2>0. /\ a # None /\ Len(files[c]) < MaxFiles /\ UNCHANGED <<pos, passAge>>
        /\ files' = [files EXCEPT ![c] = Append(@, slot[c].index)]
        /\ age' = [age EXCEPT ![slot[c].index] = 0]
        /\ slot[c].index = a
        /\ pc' = [pc EXCEPT ![c] = "run"]
    BY <1>4 DEF Accepted
  <2>1. a \in Apps /\ slot'[c].app = None /\ \A d \in Children \ {c} : slot'[d] = slot[d]
    BY <1>0, <1>4, <2>0, AcceptedFacts
  <2>2. /\ Len(files'[c]) = n /\ files'[c][n] = a
        /\ \A i \in 1..Len(files[c]) : files'[c][i] = files[c][i]
        /\ \A d \in Children \ {c} : files'[d] = files[d]
    BY <1>0, <2>0, <2>1, AppendFacts
  <2>3. /\ pc'[c] = "run" /\ \A d \in Children \ {c} : pc'[d] = pc[d]
        /\ \A d \in Children : Running(d)' <=> Running(d)
    BY <1>1, <2>0
  <2>4. age'[a] = 0 /\ \A b \in Apps \ {a} : age'[b] = age[b]
    BY <2>0, <2>1 DEF TypeInv, TypeOK, AppsOK
  <2>5. /\ \A d \in Children : \A j \in 1..Len(files[d]) : files[d][j] # a
        /\ \A d \in Children : Running(d) /\ slot[d].app = a => d = c
    BY <1>0, <2>0 DEF WriterInv, Given
  <2>7. \A d \in Children : Len(files[d]) \in Nat
    BY <1>0, FilesFacts, Consts
  (* a place of a list after the step is an old one, or the new one *)
  <2>8. ASSUME NEW d \in Children, NEW i \in 1..Len(files'[d])
        PROVE  \/ i \in 1..Len(files[d]) /\ files'[d][i] = files[d][i] /\ files[d][i] # a
               \/ d = c /\ i = n /\ files'[d][i] = a
    BY <2>2, <2>5, <2>7
  <2>9. InTime'
    BY <2>0, <2>3 DEF WriterInv, InTime
  <2>10. Unique'
    <3>. SUFFICES ASSUME NEW d \in Children, NEW e \in Children, NEW i \in 1..Len(files'[d]),
                         NEW j \in 1..Len(files'[e]), files'[d][i] = files'[e][j]
                  PROVE  d = e /\ i = j
      BY DEF Unique
    <3>1. CASE i \in 1..Len(files[d]) /\ files'[d][i] = files[d][i] /\ files[d][i] # a
      <4>1. j \in 1..Len(files[e]) /\ files'[e][j] = files[e][j]
        BY <2>8, <3>1
      <4>2. files[d][i] = files[e][j] => d = e /\ i = j
        BY <3>1, <4>1 DEF WriterInv, Unique
      <4>. QED BY <3>1, <4>1, <4>2
    <3>2. CASE d = c /\ i = n /\ files'[d][i] = a
      BY <2>8, <3>2
    <3>. QED BY <2>8, <3>1, <3>2
  <2>11. Tried'
    <3>. SUFFICES ASSUME mpc # "dead", NEW d \in Children, NEW i \in 1..Len(files'[d])
                  PROVE  /\ Visited(d, i)' => age'[files'[d][i]] <= passAge[d]
                         /\ 2 * age'[files'[d][i]] < CheckTime + 2 * passAge[d]
      BY <1>0, <2>0 DEF Tried
    <3>1. CASE d = c /\ i = n /\ files'[d][i] = a
      BY <2>4, <3>1, Numbers
    <3>2. CASE i \in 1..Len(files[d]) /\ files'[d][i] = files[d][i] /\ files[d][i] # a
      <4>0. files[d][i] \in Apps /\ age'[files'[d][i]] = age[files[d][i]]
        BY <2>4, <3>2, ListRuns
      <4>1. Visited(d, i)' => Visited(d, i)
        BY <1>0, <2>0, <2>3, <3>2 DEF Visited, AtRecord
      <4>. QED BY <3>2, <4>0, <4>1 DEF WriterInv, Tried
    <3>. QED BY <2>8, <3>1, <3>2
  <2>12. Given'
    <3>. SUFFICES ASSUME NEW e \in Children, Running(e)', slot'[e].app # None
                  PROVE  /\ mpc = "dead" \/ GivenInTime(e)' \/ BeingGiven(e)'
                         /\ \A d \in Children : \A j \in 1..Len(files'[d]) : files'[d][j] # slot'[e].app
                         /\ \A d \in Children : Running(d)' /\ slot'[d].app = slot'[e].app => d = e
      BY <1>0 DEF Given
    <3>1. /\ e # c /\ Running(e) /\ slot'[e] = slot[e]
          /\ slot[e].app # a /\ slot[e].app \in Apps
      BY <2>1, <2>3, <2>5 DEF TypeInv, TypeOK, SlotsOK
    <3>2. /\ mpc = "dead" \/ GivenInTime(e) \/ BeingGiven(e)
          /\ \A d \in Children : \A j \in 1..Len(files[d]) : files[d][j] # slot[e].app
          /\ \A d \in Children : Running(d) /\ slot[d].app = slot[e].app => d = e
      BY <3>1 DEF WriterInv, Given
    <3>3. \A d \in Children : \A j \in 1..Len(files'[d]) : files'[d][j] # slot[e].app
      BY <2>8, <3>1, <3>2
    <3>4. \A d \in Children : Running(d)' /\ slot'[d].app = slot'[e].app => d = e
      BY <2>1, <2>3, <3>1, <3>2
    <3>5. GivenInTime(e) => GivenInTime(e)'
      BY <2>0, <2>3, <2>4, <3>1 DEF GivenInTime
    <3>6. BeingGiven(e) => BeingGiven(e)'
      BY <1>0, <3>1 DEF BeingGiven
    <3>. QED BY <3>1, <3>2, <3>3, <3>4, <3>5, <3>6
  <2>. QED BY <2>9, <2>10, <2>11, <2>12 DEF WriterInv
<1>. QED BY <1>2, <1>3, <1>4, AcceptCases

LEMMA WriterTick ==
  ASSUME TypeInv, WriterInv, Tick, "slow" \notin taint'
  PROVE  WriterInv'
<1>0. UNCHANGED <<slot, mpc, mapp, mto, pc, files, pos>> /\ mpc # "index"
  BY DEF Tick, mainVars, slotVars
<1>1. \A a \in Apps : age'[a] = Older(age[a])
  BY DEF Tick
<1>2. \A c \in Children : Running(c) => /\ passAge'[c] = Older(passAge[c])
                                       /\ 2 * passAge'[c] < CheckTime
  <2>1. \A c \in Children : Running(c) => passAge'[c] = Older(passAge[c])
    BY DEF Tick
  <2>2. \A c \in Children : Running(c) => ~(2 * passAge'[c] >= CheckTime)
    BY DEF Tick
  <2>. QED BY <2>1, <2>2, Numbers, OlderType, Consts
<1>3. \A s, t \in 0..CheckTime : s <= t => Older(s) <= Older(t)
  BY Consts DEF Older
<1>4. InTime'
  BY <1>0, <1>2 DEF InTime, Running
<1>5. Unique'
  BY <1>0 DEF WriterInv, Unique
(* both times grow by one *)
<1>6. ASSUME NEW c \in Children, NEW a \in Apps, Running(c),
             2 * age[a] < CheckTime + 2 * passAge[c]
      PROVE  /\ 2 * age'[a] < CheckTime + 2 * passAge'[c]
             /\ age[a] <= passAge[c] => age'[a] <= passAge'[c]
  <2>1. 2 * passAge[c] < CheckTime
    BY <1>6 DEF WriterInv, InTime
  <2>2. passAge'[c] = passAge[c] + 1
    BY <1>2, <1>6, <2>1, Numbers DEF Older
  <2>3. age'[a] = age[a] + 1
    <3>1. age[a] # CheckTime
      BY <1>6, <2>1, Numbers
    <3>. QED BY <1>1, <3>1 DEF Older
  <2>. QED BY <1>6, <2>2, <2>3, Numbers
<1>7. Tried'
  <2>. SUFFICES ASSUME mpc # "dead", NEW c \in Children, NEW i \in 1..Len(files[c])
                PROVE  /\ Visited(c, i) => age'[files[c][i]] <= passAge'[c]
                       /\ 2 * age'[files[c][i]] < CheckTime + 2 * passAge'[c]
    BY <1>0 DEF Tried, Visited, AtRecord
  <2>1. Running(c) /\ files[c][i] \in Apps
    BY ListRuns
  <2>2. /\ Visited(c, i) => age[files[c][i]] <= passAge[c]
        /\ 2 * age[files[c][i]] < CheckTime + 2 * passAge[c]
    BY DEF WriterInv, Tried
  <2>. QED BY <1>6, <2>1, <2>2
<1>8. Given'
  <2>. SUFFICES ASSUME NEW c \in Children, Running(c), slot[c].app # None
                PROVE  /\ mpc = "dead" \/ GivenInTime(c)'
                       /\ \A d \in Children : \A j \in 1..Len(files[d]) : files[d][j] # slot[c].app
                       /\ \A d \in Children : Running(d) /\ slot[d].app = slot[c].app => d = c
    BY <1>0 DEF Given, Running
  <2>1. slot[c].app \in Apps
    BY DEF TypeInv, TypeOK, SlotsOK
  <2>2. /\ mpc = "dead" \/ GivenInTime(c)
        /\ \A d \in Children : \A j \in 1..Len(files[d]) : files[d][j] # slot[c].app
        /\ \A d \in Children : Running(d) /\ slot[d].app = slot[c].app => d = c
    BY <1>0 DEF WriterInv, Given, BeingGiven
  <2>3. GivenInTime(c) => GivenInTime(c)'
    BY <1>0, <1>6, <2>1 DEF GivenInTime
  <2>. QED BY <2>2, <2>3
<1>. QED BY <1>4, <1>5, <1>7, <1>8 DEF WriterInv

(* A taint goes away only when all are started again, and then only three of them. *)
LEMMA TaintStays ==
  ASSUME [Next]_vars, ~StartAll
  PROVE  taint \subseteq taint'
<1>1. ASSUME NEW c \in Children, Child(c) PROVE taint \subseteq taint'
  BY <1>1 DEF Child, Start, ClearSlot, BeginPass, TryAcceptDispatchApp, WriteFile, WriteLogRecord,
              RecordFails, TestMoved, EnterAdvance, Advance, InitGetShmLogIndex
<1>2. ASSUME NEW s \in Sources, Source(s) \/ SourceDies(s) \/ \E a \in Apps : Reserve(s, a)
      PROVE  taint \subseteq taint'
  BY <1>2 DEF Source, Blank, Publish, TestStart, EnterSet, SetStart, SetLogFlag, SourceDies, Reserve,
              InitGetShmLogIndex
<1>3. CASE Main
  BY <1>3 DEF Main, ChildrenReady, StoreIndex, TryDispatchAppWrite, ReadStat
<1>4. ASSUME NEW c \in Children, Exit(c) \/ Die(c) PROVE taint \subseteq taint'
  BY <1>4 DEF Exit, Die
<1>5. CASE MainExit \/ MainDies \/ Stop \/ Tick \/ UNCHANGED vars
  BY <1>5 DEF MainExit, MainDies, Stop, Tick, vars
<1>. QED BY <1>1, <1>2, <1>3, <1>4, <1>5 DEF Next

LEMMA WriterSource ==
  ASSUME WriterInv, NEW s \in Sources, Source(s) \/ SourceDies(s) \/ \E a \in Apps : Reserve(s, a)
  PROVE  WriterInv'
<1>1. UNCHANGED <<age, slotVars, mainVars, childVars>>
  BY DEF Source, Blank, Publish, TestStart, EnterSet, SetStart, SetLogFlag, SourceDies, Reserve,
         appVars
<1>2. UNCHANGED <<age, slot, mainVars, pc, files, pos, passAge>>
  BY <1>1 DEF slotVars, childVars
<1>. QED BY <1>2, WriterSame

LEMMA WriterNext == TypeInv /\ WriterPart /\ [Next]_vars => WriterPart'
<1>. SUFFICES ASSUME TypeInv, WriterPart, [Next]_vars,
                     taint' \cap {"slow", "torn", "stop"} = {}
              PROVE  WriterInv'
  BY DEF WriterPart
<1>0. CASE StartAll
  BY <1>0, WriterStartAll
<1>1. CASE ~StartAll
  <2>0. WriterInv
    BY <1>1, TaintStays DEF WriterPart
  <2>1. ASSUME NEW c \in Children, Child(c) PROVE WriterInv'
    BY <2>0, <2>1, WriterStart, WriterBegin, WriterAccept, WriterInFile DEF Child, InFile
  <2>2. ASSUME NEW c \in Children, Exit(c) \/ Die(c) PROVE WriterInv'
    <3>1. CASE Exit(c)
      BY <2>0, <3>1, WriterExit
    <3>2. CASE Die(c)
      BY <2>0, <3>2, WriterGone DEF Die, appVars, slotVars
    <3>. QED BY <2>2, <3>1, <3>2
  <2>3. ASSUME NEW s \in Sources, Source(s) \/ SourceDies(s) \/ \E a \in Apps : Reserve(s, a)
        PROVE  WriterInv'
    BY <2>0, <2>3, WriterSource
  <2>4. CASE MainExit \/ MainDies
    <3>1. mpc' = "dead" /\ UNCHANGED <<slot, pc, files, pos, passAge>>
      BY <2>4 DEF MainExit, MainDies, childVars, slotVars
    <3>. QED BY <2>0, <3>1, WriterMainEnd
  <2>5. CASE Stop \/ UNCHANGED vars
    <3>1. UNCHANGED <<age, slot, mainVars, pc, files, pos, passAge>>
      BY <2>5 DEF Stop, vars, appVars, slotVars, childVars
    <3>. QED BY <2>0, <3>1, WriterSame
  <2>6. CASE Tick
    BY <2>0, <2>6, WriterTick
  <2>7. CASE Main
    BY <2>0, <2>7, WriterMain
  <2>. QED BY <1>1, <2>1, <2>2, <2>3, <2>4, <2>5, <2>6, <2>7 DEF Next
<1>. QED BY <1>0, <1>1

LEMMA WriterInit == Init => WriterPart
<1>. SUFFICES ASSUME Init PROVE WriterInv
  BY DEF WriterPart
<1>1. \A c \in Children : files[c] = <<>> /\ ~Running(c)
  BY DEF Init, Running
<1>. QED BY <1>1, WriterIdle

(* One writer per application: for any number of applications and children, whoever dies     *)
(* and whenever all are stopped and started again, TryDispatchAppWrite gives an application  *)
(* to a second child, or twice to one, only after a pass that took half of                   *)
(* iCheckWriteProcessTime, after a child read its slot between the two stores, or after a    *)
(* child that was stopped set all times to 0 beside the main process and other children; and *)
(* no more once all have been started again.                                                 *)
THEOREM OneWriterCorrect == Spec => []OneWriter
<1>1. TypeInv /\ WriterPart => OneWriter
  <2>. SUFFICES ASSUME TypeInv, WriterInv, NEW a \in Apps PROVE Cardinality(Places(a)) <= 1
    BY DEF WriterPart, OneWriter, Single
  <2>1. \A p, q \in Places(a) : p = q
    <3>. SUFFICES ASSUME NEW p \in Places(a), NEW q \in Places(a) PROVE p = q
      OBVIOUS
    <3>1. /\ p \in Children \X (1..MaxFiles) /\ q \in Children \X (1..MaxFiles)
          /\ p[2] <= Len(files[p[1]]) /\ q[2] <= Len(files[q[1]])
          /\ files[p[1]][p[2]] = a /\ files[q[1]][q[2]] = a
      BY DEF Places
    <3>2. p[1] \in Children /\ q[1] \in Children
      BY <3>1
    <3>3. p[2] \in 1..Len(files[p[1]]) /\ q[2] \in 1..Len(files[q[1]])
      BY <3>1, <3>2, FilesFacts, Consts DEF TypeInv, TypeOK
    <3>4. p[1] = q[1] /\ p[2] = q[2]
      BY <3>1, <3>2, <3>3 DEF WriterInv, Unique
    <3>. QED BY <3>1, <3>4
  <2>2. CASE Places(a) = {}
    BY <2>2, FS_EmptySet
  <2>3. CASE Places(a) # {}
    <3>1. PICK p \in Places(a) : Places(a) = {p}
      BY <2>1, <2>3
    <3>2. Cardinality({p}) = 1
      BY FS_Singleton
    <3>. QED BY <3>1, <3>2
  <2>. QED BY <2>2, <2>3
<1>2. Init => TypeInv /\ WriterPart
  BY TypeInit, WriterInit
<1>3. TypeInv /\ WriterPart /\ [Next]_vars => (TypeInv /\ WriterPart)'
  BY TypeNext, WriterNext
<1>. QED BY <1>1, <1>2, <1>3, PTL DEF Spec

-----------------------------------------------------------------------------
(* Written once.  The invariant of the rings, as long as there is no taint at all. *)

(* A place that was taken and whose old log is about to be taken back. *)
Blanking(a, i) == \E s \in Sources : spc[s] = "blank" /\ sapp[s] = a /\ sidx[s] = i

(* The start of the ring stays at the log that a child is at. *)
Working == \A c \in Children : AtRecord(c) => start[App(c)] = at[c]

(* Of the logs after the start none was written by a process that still runs ... *)
Fresh ==
  \A a \in Apps : \A x, w \in Index : start[a] = x /\ widx[a] = w =>
    \A i \in Span(x, w) \ {x} : wrote[a][i] = None \/ Blanking(a, i)

(* ... and the one at the start only by the child that is about to move it. *)
FirstLog ==
  \A a \in Apps : \A x \in Index : \A d \in Children : start[a] = x /\ wrote[a][x] = d =>
    pc[d] \in {"advance", "lock", "store"} /\ App(d) = a

(* No place is taken while a child moves the start. *)
Excl ==
  \A s \in Sources : \A c \in Children :
    spc[s] = "blank" /\ pc[c] = "store" => sapp[s] # App(c)

RingInv == Working /\ Fresh /\ FirstLog /\ Excl

RingPart == taint = {} => RingInv

LEMMA SpanFacts ==
  ASSUME NEW x \in Index, NEW w \in Index
  PROVE  /\ Span(x, w) \subseteq Index /\ x \in Span(x, w)
         /\ x # w => Span(x, NextIndex(w)) \subseteq Span(x, w) \cup {w}
         /\ NextIndex(x) # w => /\ NextIndex(x) \in Span(x, w) \ {x}
                                /\ Span(NextIndex(x), w) \subseteq Span(x, w) \ {x}
<1>0. RingSize \in Nat \ {0} /\ x \in 0..(RingSize - 1) /\ w \in 0..(RingSize - 1)
  BY Consts DEF Index
<1>1. Span(x, w) \subseteq Index /\ x \in Span(x, w)
  BY <1>0 DEF Span, Index
<1>2. x # w => Span(x, NextIndex(w)) \subseteq Span(x, w) \cup {w}
  <2>1. CASE w = RingSize - 1
    BY <1>0, <2>1 DEF Span, Index, NextIndex
  <2>2. CASE w # RingSize - 1
    BY <1>0, <2>2 DEF Span, Index, NextIndex
  <2>. QED BY <2>1, <2>2
<1>3. ASSUME NextIndex(x) # w
      PROVE  /\ NextIndex(x) \in Span(x, w) \ {x}
             /\ Span(NextIndex(x), w) \subseteq Span(x, w) \ {x}
  <2>1. CASE x = RingSize - 1
    BY <1>0, <1>3, <2>1 DEF Span, Index, NextIndex
  <2>2. CASE x # RingSize - 1
    BY <1>0, <1>3, <2>2 DEF Span, Index, NextIndex
  <2>. QED BY <2>1, <2>2
<1>. QED BY <1>1, <1>2, <1>3

LEMMA RingTypes ==
  ASSUME TypeInv
  PROVE  /\ \A a \in Apps : widx[a] \in Index /\ start[a] \in {NoLog} \cup Index
         /\ \A a \in Apps : \A i \in Index : wrote[a][i] \in {None} \cup Children
         /\ \A s \in Sources : sapp[s] \in Apps /\ sidx[s] \in Index
         /\ \A c \in Children : at[c] \in Index
BY DEF TypeInv, TypeOK, RingOK, SourcesOK, ChildrenOK

LEMMA RingSame ==
  ASSUME RingInv, UNCHANGED <<widx, start, wrote, spc, sapp, sidx, pc, files, pos, at>>
  PROVE  RingInv'
<1>1. Working'
  BY DEF RingInv, Working, AtRecord, App
<1>2. Fresh'
  BY DEF RingInv, Fresh, Blanking
<1>3. FirstLog'
  BY DEF RingInv, FirstLog, App
<1>4. Excl'
  BY DEF RingInv, Excl, App
<1>. QED BY <1>1, <1>2, <1>3, <1>4 DEF RingInv

(* A child that is not within WriteFile after the step, and that moved no start; what it had *)
(* written is forgotten, or it had written nothing that is still in the ring.                *)
LEMMA RingOutside ==
  ASSUME TypeInv, RingInv, NEW c \in Children, UNCHANGED <<widx, start, spc, sapp, sidx>>,
         \A d \in Children \ {c} : /\ pc'[d] = pc[d] /\ files'[d] = files[d]
                                   /\ pos'[d] = pos[d] /\ at'[d] = at[d],
         ~AtRecord(c)',
         \A a \in Apps : \A i \in Index : wrote'[a][i] \in {None, wrote[a][i]},
         \/ pc[c] \notin {"advance", "lock", "store"}
         \/ \A a \in Apps : \A i \in Index : wrote'[a][i] # c
  PROVE  RingInv'
<1>0. \A d \in Children \ {c} : App(d)' = App(d)
  BY DEF App
<1>1. Working'
  <2>. SUFFICES ASSUME NEW d \in Children, AtRecord(d)' PROVE start'[App(d)'] = at'[d]
    BY DEF Working
  <2>1. d # c /\ AtRecord(d)
    BY DEF AtRecord
  <2>. QED BY <1>0, <2>1 DEF RingInv, Working
<1>2. Fresh'
  <2>. SUFFICES ASSUME NEW a \in Apps, NEW x \in Index, NEW w \in Index, start[a] = x, widx[a] = w,
                       NEW i \in Span(x, w) \ {x}
                PROVE  wrote'[a][i] = None \/ Blanking(a, i)'
    BY DEF Fresh
  <2>1. i \in Index
    BY SpanFacts
  <2>2. wrote[a][i] = None \/ Blanking(a, i)
    BY DEF RingInv, Fresh
  <2>3. Blanking(a, i)' <=> Blanking(a, i)
    BY DEF Blanking
  <2>. QED BY <2>1, <2>2, <2>3
<1>3. FirstLog'
  <2>. SUFFICES ASSUME NEW a \in Apps, NEW x \in Index, NEW d \in Children, start[a] = x,
                       wrote'[a][x] = d
                PROVE  pc'[d] \in {"advance", "lock", "store"} /\ App(d)' = a
    BY DEF FirstLog
  <2>1. wrote[a][x] = d
    BY NoneFacts
  <2>2. pc[d] \in {"advance", "lock", "store"} /\ App(d) = a
    BY <2>1 DEF RingInv, FirstLog
  <2>3. d # c
    BY <2>2
  <2>. QED BY <1>0, <2>2, <2>3
<1>4. Excl'
  <2>. SUFFICES ASSUME NEW s \in Sources, NEW d \in Children, spc[s] = "blank", pc'[d] = "store"
                PROVE  sapp[s] # App(d)'
    BY DEF Excl
  <2>1. d # c
    BY DEF AtRecord
  <2>. QED BY <1>0, <2>1 DEF RingInv, Excl
<1>. QED BY <1>1, <1>2, <1>3, <1>4 DEF RingInv

(* Steps of a process that logs other than taking a place and setting the start. *)
LEMMA RingSourceQuiet ==
  ASSUME TypeInv, RingInv, NEW s \in Sources, UNCHANGED <<widx, start, pc, files, pos, at>>,
         \A t \in Sources \ {s} : spc'[t] = spc[t] /\ sapp'[t] = sapp[t] /\ sidx'[t] = sidx[t],
         spc'[s] # "blank",
         \A a \in Apps : \A i \in Index : wrote'[a][i] \in {None, wrote[a][i]},
         spc[s] = "blank" => wrote'[sapp[s]][sidx[s]] = None
  PROVE  RingInv'
<1>1. Working'
  BY DEF RingInv, Working, AtRecord, App
<1>2. Fresh'
  <2>. SUFFICES ASSUME NEW a \in Apps, NEW x \in Index, NEW w \in Index, start[a] = x, widx[a] = w,
                       NEW i \in Span(x, w) \ {x}, wrote'[a][i] # None
                PROVE  Blanking(a, i)'
    BY DEF Fresh
  <2>1. i \in Index
    BY SpanFacts
  <2>2. wrote[a][i] # None
    BY <2>1
  <2>3. PICK t \in Sources : spc[t] = "blank" /\ sapp[t] = a /\ sidx[t] = i
    BY <2>2 DEF RingInv, Fresh, Blanking
  <2>4. t # s
    BY <2>3
  <2>. QED BY <2>3, <2>4 DEF Blanking
<1>3. FirstLog'
  <2>. SUFFICES ASSUME NEW a \in Apps, NEW x \in Index, NEW d \in Children, start[a] = x,
                       wrote'[a][x] = d
                PROVE  pc[d] \in {"advance", "lock", "store"} /\ App(d) = a
    BY DEF FirstLog, App
  <2>1. wrote[a][x] = d
    BY NoneFacts
  <2>. QED BY <2>1 DEF RingInv, FirstLog
<1>4. Excl'
  BY DEF RingInv, Excl, App
<1>. QED BY <1>1, <1>2, <1>3, <1>4 DEF RingInv

LEMMA RingReserve ==
  ASSUME TypeInv, RingInv, NEW s \in Sources, NEW a \in Apps, Reserve(s, a), taint' = {}
  PROVE  RingInv'
<1>0. UNCHANGED <<start, wrote, pc, files, pos, at>> /\ SourcesOK /\ RingOK
  BY DEF Reserve, childVars, TypeInv, TypeOK
<1>1. CASE UNCHANGED <<widx, sourceVars>>
  BY <1>0, <1>1, RingSame DEF sourceVars
<1>2. CASE /\ start[a] # widx[a]
           /\ widx' = [widx EXCEPT ![a] = NextIndex(@)]
           /\ spc' = [spc EXCEPT ![s] = "blank"]
           /\ sapp' = [sapp EXCEPT ![s] = a] /\ sidx' = [sidx EXCEPT ![s] = widx[a]]
  <2>0. spc[s] = "idle" /\ ~LockHeld(a)
    BY DEF Reserve, InitGetShmLogIndex
  <2>1. /\ spc'[s] = "blank" /\ sapp'[s] = a /\ sidx'[s] = widx[a]
        /\ \A t \in Sources \ {s} : spc'[t] = spc[t] /\ sapp'[t] = sapp[t] /\ sidx'[t] = sidx[t]
    BY <1>0, <1>2 DEF SourcesOK
  <2>2. widx'[a] = NextIndex(widx[a]) /\ \A b \in Apps \ {a} : widx'[b] = widx[b]
    BY <1>0, <1>2 DEF RingOK
  <2>3. Working'
    BY <1>0 DEF RingInv, Working, AtRecord, App
  <2>4. \A b \in Apps : \A i \in Index : Blanking(b, i) => Blanking(b, i)'
    BY <2>0, <2>1 DEF Blanking
  <2>5. Fresh'
    <3>. SUFFICES ASSUME NEW b \in Apps, NEW x \in Index, NEW w \in Index, start[b] = x,
                         widx'[b] = w, NEW i \in Span(x, w) \ {x}
                  PROVE  wrote[b][i] = None \/ Blanking(b, i)'
      BY <1>0 DEF Fresh
    <3>0. i \in Index
      BY SpanFacts
    <3>1. CASE b # a
      <4>1. wrote[b][i] = None \/ Blanking(b, i)
        BY <2>2, <3>1 DEF RingInv, Fresh
      <4>. QED BY <2>4, <3>0, <4>1
    <3>2. CASE b = a
      <4>1. PICK v \in Index : widx[a] = v /\ w = NextIndex(v)
        BY <2>2, <3>2, RingTypes
      <4>2. i \in Span(x, v) \/ i = v
        BY <1>2, <3>2, <4>1, SpanFacts
      <4>3. CASE i = v
        BY <2>1, <3>2, <4>1, <4>3 DEF Blanking
      <4>4. CASE i \in Span(x, v)
        <5>1. wrote[a][i] = None \/ Blanking(a, i)
          BY <3>2, <4>1, <4>4 DEF RingInv, Fresh
        <5>. QED BY <2>4, <3>0, <3>2, <5>1
      <4>. QED BY <4>2, <4>3, <4>4
    <3>. QED BY <3>1, <3>2
  <2>6. FirstLog'
    BY <1>0 DEF RingInv, FirstLog, App
  <2>7. Excl'
    <3>. SUFFICES ASSUME NEW t \in Sources, NEW c \in Children, spc'[t] = "blank", pc[c] = "store"
                  PROVE  sapp'[t] # App(c)
      BY <1>0 DEF Excl, App
    <3>1. CASE t = s
      BY <2>0, <2>1, <3>1 DEF LockHeld
    <3>2. CASE t # s
      BY <2>1, <3>2 DEF RingInv, Excl
    <3>. QED BY <3>1, <3>2
  <2>. QED BY <2>3, <2>5, <2>6, <2>7 DEF RingInv
<1>. QED BY <1>1, <1>2 DEF Reserve

LEMMA SourceFrame ==
  ASSUME TypeInv, NEW s \in Sources, NEW l \in {"fill", "test", "lock", "set", "mark"},
         SourceAt(s, l) \/ SourceIdle(s) \/ StartKnown(s)
  PROVE  /\ \A t \in Sources \ {s} : spc'[t] = spc[t] /\ sapp'[t] = sapp[t] /\ sidx'[t] = sidx[t]
         /\ spc'[s] # "blank"
<1>0. SourcesOK
  BY DEF TypeInv, TypeOK
<1>1. CASE SourceAt(s, l)
  BY <1>0, <1>1 DEF SourceAt, SourcesOK
<1>2. CASE SourceIdle(s)
  BY <1>0, <1>2 DEF SourceIdle, SourcesOK
<1>3. CASE SourceAt(s, "mark")
  BY <1>0, <1>3 DEF SourceAt, SourcesOK
<1>. QED BY <1>1, <1>2, <1>3 DEF StartKnown

LEMMA RingSource ==
  ASSUME TypeInv, RingInv, NEW s \in Sources, Source(s) \/ SourceDies(s), taint' = {}
  PROVE  RingInv'
<1>. DEFINE a == sapp[s]
            i == sidx[s]
<1>0. a \in Apps /\ i \in Index /\ RingOK
  BY RingTypes DEF TypeInv, TypeOK
<1>1. CASE Blank(s)
  <2>1. UNCHANGED <<widx, start, pc, files, pos, at>> /\ SourceAt(s, "fill")
    BY <1>1 DEF Blank, childVars
  <2>2. wrote' = [wrote EXCEPT ![a][i] = None]
    BY <1>1 DEF Blank
  <2>3. /\ \A b \in Apps : \A j \in Index : wrote'[b][j] \in {None, wrote[b][j]}
        /\ wrote'[a][i] = None
    BY <1>0, <2>2 DEF RingOK
  <2>. QED BY <2>1, <2>3, SourceFrame, RingSourceQuiet
<1>2. CASE Publish(s) \/ TestStart(s) \/ EnterSet(s) \/ SetLogFlag(s)
  <2>1. UNCHANGED <<widx, start, wrote, pc, files, pos, at>> /\ spc[s] # "blank"
    BY <1>2 DEF Publish, TestStart, EnterSet, SetLogFlag, childVars, ringVars
  <2>2. \/ SourceAt(s, "test") \/ SourceAt(s, "lock") \/ SourceAt(s, "set")
        \/ StartKnown(s) \/ SourceIdle(s)
    BY <1>2 DEF Publish, TestStart, EnterSet, SetLogFlag
  <2>3. /\ \A t \in Sources \ {s} : spc'[t] = spc[t] /\ sapp'[t] = sapp[t] /\ sidx'[t] = sidx[t]
        /\ spc'[s] # "blank"
    BY <2>2, SourceFrame
  <2>. QED BY <2>1, <2>3, RingSourceQuiet
<1>3. CASE SourceDies(s)
  <2>1. UNCHANGED <<widx, start, wrote, pc, files, pos, at>> /\ spc[s] # "blank" /\ SourceIdle(s)
    BY <1>3 DEF SourceDies, childVars, ringVars
  <2>. QED BY <2>1, SourceFrame, RingSourceQuiet
<1>4. CASE SetStart(s)
  <2>1. UNCHANGED <<widx, wrote, pc, files, pos, at>> /\ spc[s] = "set" /\ StartKnown(s)
    BY <1>4 DEF SetStart, childVars
  <2>2. /\ \A t \in Sources \ {s} : spc'[t] = spc[t] /\ sapp'[t] = sapp[t] /\ sidx'[t] = sidx[t]
        /\ spc'[s] # "blank"
    BY <2>1, SourceFrame
  <2>3. start[a] = NoLog /\ \A j \in Span(i, widx[a]) : wrote[a][j] = None
    <3>1. ~SetBack(a, i)
      BY <1>4 DEF SetStart
    <3>. QED BY <3>1 DEF SetBack
  <2>4. start'[a] = i /\ \A b \in Apps \ {a} : start'[b] = start[b]
    <3>1. start' = [start EXCEPT ![a] = IF @ # NoLog /\ i = widx[a] THEN NoLog ELSE i]
      BY <1>4 DEF SetStart
    <3>. QED BY <1>0, <2>3, <3>1 DEF RingOK
  <2>5. Working'
    <3>. SUFFICES ASSUME NEW c \in Children, AtRecord(c) PROVE start'[App(c)] = at[c]
      BY <2>1 DEF Working, AtRecord, App
    <3>1. App(c) \in Apps /\ start[App(c)] = at[c] /\ at[c] \in Index
      BY CurrentApp, RingTypes DEF RingInv, Working, AtFile, TypeInv, TypeOK
    <3>2. App(c) # a
      BY <2>3, <3>1, IndexFacts
    <3>. QED BY <2>4, <3>1, <3>2
  <2>6. \A b \in Apps : \A j \in Index : Blanking(b, j)' <=> Blanking(b, j)
    BY <2>1, <2>2 DEF Blanking
  <2>7. Fresh'
    <3>. SUFFICES ASSUME NEW b \in Apps, NEW x \in Index, NEW w \in Index, start'[b] = x,
                         widx[b] = w, NEW j \in Span(x, w) \ {x}
                  PROVE  wrote[b][j] = None \/ Blanking(b, j)'
      BY <2>1 DEF Fresh
    <3>1. CASE b = a
      BY <2>3, <2>4, <3>1
    <3>2. CASE b # a
      <4>1. j \in Index
        BY SpanFacts
      <4>2. wrote[b][j] = None \/ Blanking(b, j)
        BY <2>4, <3>2 DEF RingInv, Fresh
      <4>. QED BY <2>6, <4>1, <4>2
    <3>. QED BY <3>1, <3>2
  <2>8. FirstLog'
    <3>. SUFFICES ASSUME NEW b \in Apps, NEW x \in Index, NEW d \in Children, start'[b] = x,
                         wrote[b][x] = d
                  PROVE  pc[d] \in {"advance", "lock", "store"} /\ App(d) = b
      BY <2>1 DEF FirstLog, App
    <3>1. CASE b = a
      <4>1. widx[a] \in Index
        BY <1>0, RingTypes
      <4>2. wrote[a][i] = None
        BY <1>0, <2>3, <4>1, SpanFacts
      <4>. QED BY <2>4, <3>1, <4>2, NoneFacts
    <3>2. CASE b # a
      BY <2>4, <3>2 DEF RingInv, FirstLog
    <3>. QED BY <3>1, <3>2
  <2>9. Excl'
    BY <2>1, <2>2 DEF RingInv, Excl, App
  <2>. QED BY <2>5, <2>7, <2>8, <2>9 DEF RingInv
<1>. QED BY <1>1, <1>2, <1>3, <1>4 DEF Source

(* Two children within WriteFile are at different applications. *)
LEMMA AppsApart ==
  ASSUME TypeInv, WriterInv, NEW c \in Children, NEW d \in Children, AtFile(c), AtFile(d),
         App(c) = App(d)
  PROVE  c = d
<1>1. pos[c] \in 1..Len(files[c]) /\ pos[d] \in 1..Len(files[d])
  BY CurrentApp DEF TypeInv, TypeOK
<1>. QED BY <1>1 DEF App, WriterInv, Unique

(* A step of c within WriteFile that moves no start, or out of it from a place where it has  *)
(* written nothing.                                                                          *)
LEMMA RingInFile ==
  ASSUME TypeInv, WriterInv, RingInv, NEW c \in Children, AtFile(c),
         UNCHANGED <<widx, start, spc, sapp, sidx, files, pos>>,
         \A d \in Children \ {c} : pc'[d] = pc[d] /\ at'[d] = at[d],
         AtRecord(c)', at'[c] = start[App(c)],
         \/ UNCHANGED wrote
         \/ wrote' = [wrote EXCEPT ![App(c)][start[App(c)]] = c],
         pc[c] \in {"advance", "lock", "store"} \/ wrote' # wrote =>
           pc'[c] \in {"advance", "lock", "store"},
         pc'[c] = "store" => ~LockHeld(App(c))
  PROVE  RingInv'
<1>0. /\ App(c) \in Apps /\ start[App(c)] \in {NoLog} \cup Index
      /\ wrote \in [Apps -> [Index -> {None} \cup Children]]
      /\ \A d \in Children : App(d)' = App(d)
  BY CurrentApp, RingTypes DEF TypeInv, TypeOK, RingOK, App
<1>1. Working'
  <2>. SUFFICES ASSUME NEW d \in Children, AtRecord(d)' PROVE start[App(d)] = at'[d]
    BY <1>0 DEF Working
  <2>1. d # c => AtRecord(d)
    BY DEF AtRecord
  <2>. QED BY <2>1 DEF RingInv, Working
<1>2. ASSUME NEW b \in Apps, NEW j \in Index, wrote'[b][j] # wrote[b][j]
      PROVE  b = App(c) /\ j = start[App(c)] /\ wrote'[b][j] = c
  <2>1. wrote' = [wrote EXCEPT ![App(c)][start[App(c)]] = c]
    BY <1>2
  <2>. QED BY <1>0, <1>2, <2>1
<1>3. Fresh'
  <2>. SUFFICES ASSUME NEW b \in Apps, NEW x \in Index, NEW w \in Index, start[b] = x, widx[b] = w,
                       NEW j \in Span(x, w) \ {x}
                PROVE  wrote'[b][j] = None \/ Blanking(b, j)'
    BY DEF Fresh
  <2>1. j \in Index
    BY SpanFacts
  <2>2. wrote[b][j] = None \/ Blanking(b, j)
    BY DEF RingInv, Fresh
  <2>3. Blanking(b, j)' <=> Blanking(b, j)
    BY DEF Blanking
  <2>4. wrote'[b][j] = wrote[b][j]
    BY <1>2, <2>1
  <2>. QED BY <2>2, <2>3, <2>4
<1>4. FirstLog'
  <2>. SUFFICES ASSUME NEW b \in Apps, NEW x \in Index, NEW d \in Children, start[b] = x,
                       wrote'[b][x] = d
                PROVE  pc'[d] \in {"advance", "lock", "store"} /\ App(d) = b
    BY <1>0 DEF FirstLog
  <2>1. CASE wrote'[b][x] # wrote[b][x]
    <3>1. b = App(c) /\ d = c
      BY <1>2, <2>1
    <3>. QED BY <2>1, <3>1
  <2>2. CASE wrote'[b][x] = wrote[b][x]
    BY <2>2 DEF RingInv, FirstLog
  <2>. QED BY <2>1, <2>2
<1>5. Excl'
  <2>. SUFFICES ASSUME NEW s \in Sources, NEW d \in Children, spc[s] = "blank", pc'[d] = "store"
                PROVE  sapp[s] # App(d)
    BY <1>0 DEF Excl
  <2>1. CASE d = c
    BY <2>1 DEF LockHeld
  <2>2. CASE d # c
    BY <2>2 DEF RingInv, Excl
  <2>. QED BY <2>1, <2>2
<1>. QED BY <1>1, <1>3, <1>4, <1>5 DEF RingInv

(* FileDone from where the child has written nothing that is still at the start. *)
LEMMA RingFileDone ==
  ASSUME TypeInv, RingInv, NEW c \in Children, AtFile(c), FileDone(c), pc[c] \in {"file", "record"},
         UNCHANGED <<widx, start, wrote, spc, sapp, sidx, files>>
  PROVE  RingInv'
<1>1. /\ ~AtRecord(c)'
      /\ \A d \in Children \ {c} : /\ pc'[d] = pc[d] /\ files'[d] = files[d]
                                   /\ pos'[d] = pos[d] /\ at'[d] = at[d]
  BY FileDoneType DEF AtRecord
<1>. QED BY <1>1, RingOutside

LEMMA RingWriteFile ==
  ASSUME TypeInv, WriterInv, RingInv, NEW c \in Children, WriteFile(c)
  PROVE  RingInv'
<1>0. /\ UNCHANGED <<widx, start, wrote, spc, sapp, sidx, files>>
      /\ pc[c] = "file" /\ AtFile(c) /\ ChildrenOK
  BY DEF WriteFile, ringVars, sourceVars, AtFile, TypeInv, TypeOK
<1>1. CASE FileDone(c)
  BY <1>0, <1>1, RingFileDone
<1>2. CASE /\ at' = [at EXCEPT ![c] = start[App(c)]]
           /\ pc' = [pc EXCEPT ![c] = "record"] /\ UNCHANGED <<pos, done>>
  <2>1. /\ at'[c] = start[App(c)] /\ pc'[c] = "record"
        /\ \A d \in Children \ {c} : pc'[d] = pc[d] /\ at'[d] = at[d]
    BY <1>0, <1>2 DEF ChildrenOK
  <2>2. AtRecord(c)'
    BY <2>1 DEF AtRecord
  <2>. QED BY <1>0, <1>2, <2>1, <2>2, RingInFile
<1>. QED BY <1>1, <1>2 DEF WriteFile

LEMMA RingRecord ==
  ASSUME TypeInv, WriterInv, RingInv, NEW c \in Children,
         WriteLogRecord(c) \/ RecordFails(c) \/ TestMoved(c) \/ EnterAdvance(c), taint' = {}
  PROVE  RingInv'
<1>0. AtRecord(c) /\ AtFile(c) /\ ChildrenOK
  BY DEF WriteLogRecord, RecordFails, TestMoved, EnterAdvance, AtFile, AtRecord, TypeInv, TypeOK
<1>1. at[c] = start[App(c)]
  BY <1>0 DEF RingInv, Working
<1>2. CASE RecordFails(c)
  BY <1>0, <1>2, RingFileDone DEF RecordFails, ringVars, sourceVars
<1>3. CASE WriteLogRecord(c)
  <2>1. /\ UNCHANGED <<widx, start, spc, sapp, sidx, files, pos, at>> /\ pc[c] = "record"
        /\ pc' = [pc EXCEPT ![c] = "advance"]
        /\ UNCHANGED wrote \/ wrote' = [wrote EXCEPT ![App(c)][start[App(c)]] = c]
    BY <1>1, <1>3 DEF WriteLogRecord, sourceVars
  <2>2. pc'[c] = "advance" /\ \A d \in Children \ {c} : pc'[d] = pc[d]
    BY <1>0, <2>1 DEF ChildrenOK
  <2>3. AtRecord(c)'
    BY <2>2 DEF AtRecord
  <2>. QED BY <1>0, <1>1, <2>1, <2>2, <2>3, RingInFile
<1>4. CASE TestMoved(c) \/ EnterAdvance(c)
  <2>1. /\ UNCHANGED <<widx, start, wrote, spc, sapp, sidx, files, pos, at>>
        /\ pc' = [pc EXCEPT ![c] = "lock"]
           \/ (pc' = [pc EXCEPT ![c] = "store"] /\ ~LockHeld(App(c)))
    BY <1>1, <1>4 DEF TestMoved, EnterAdvance, InitGetShmLogIndex, ringVars, sourceVars
  <2>2. /\ pc'[c] \in {"lock", "store"} /\ \A d \in Children \ {c} : pc'[d] = pc[d]
        /\ pc'[c] = "store" => ~LockHeld(App(c))
    BY <1>0, <2>1 DEF ChildrenOK
  <2>3. AtRecord(c)'
    BY <2>2 DEF AtRecord
  <2>. QED BY <1>0, <1>1, <2>1, <2>2, <2>3, RingInFile
<1>. QED BY <1>2, <1>3, <1>4

(* The start moves on: the next log was not written, and nobody takes a place meanwhile. *)
LEMMA RingAdvance ==
  ASSUME TypeInv, WriterInv, RingInv, NEW c \in Children, Advance(c)
  PROVE  RingInv'
<1>. DEFINE a == App(c)
            x == at[c]
            w == widx[App(c)]
<1>0. /\ UNCHANGED <<widx, wrote, spc, sapp, sidx, files>>
      /\ pc[c] = "store" /\ AtFile(c) /\ AtRecord(c) /\ ChildrenOK /\ RingOK
  BY DEF Advance, sourceVars, AtFile, AtRecord, TypeInv, TypeOK
<1>1. a \in Apps /\ x \in Index /\ w \in Index /\ start[a] = x
  BY <1>0, CurrentApp, RingTypes DEF TypeInv, RingInv, Working
<1>2. /\ start'[a] = IF NextIndex(x) = w THEN NoLog ELSE NextIndex(x)
      /\ \A b \in Apps \ {a} : start'[b] = start[b]
  <2>1. start' = [start EXCEPT ![a] = IF NextIndex(x) = w THEN NoLog ELSE NextIndex(x)]
    BY DEF Advance
  <2>. QED BY <1>0, <1>1, <2>1 DEF RingOK
<1>3. /\ \A d \in Children \ {c} : pc'[d] = pc[d] /\ pos'[d] = pos[d] /\ at'[d] = at[d]
      /\ \/ pc'[c] \in {"accept", "file"}
         \/ /\ pc'[c] = "record" /\ pos'[c] = pos[c]
            /\ at'[c] = NextIndex(x) /\ NextIndex(x) # w
  <2>1. CASE FileDone(c)
    BY <1>0, <2>1, FileDoneType
  <2>2. CASE /\ NextIndex(x) # w
             /\ at' = [at EXCEPT ![c] = NextIndex(x)]
             /\ pc' = [pc EXCEPT ![c] = "record"] /\ UNCHANGED pos
    BY <1>0, <2>2 DEF ChildrenOK
  <2>. QED BY <2>1, <2>2 DEF Advance
<1>4. \A d \in Children \ {c} : App(d)' = App(d) /\ (AtRecord(d) => App(d) # a)
  <2>1. \A d \in Children \ {c} : App(d)' = App(d)
    BY <1>0, <1>3 DEF App
  <2>. QED BY <1>0, <2>1, AppsApart DEF AtFile
<1>5. \A i \in Index : ~Blanking(a, i)
  BY <1>0 DEF RingInv, Excl, Blanking
<1>6. \A i \in Span(x, w) \ {x} : wrote[a][i] = None
  <2>. SUFFICES ASSUME NEW i \in Span(x, w) \ {x} PROVE wrote[a][i] = None
    OBVIOUS
  <2>1. i \in Index
    BY <1>1, SpanFacts
  <2>2. wrote[a][i] = None \/ Blanking(a, i)
    BY <1>1 DEF RingInv, Fresh
  <2>. QED BY <1>5, <2>1, <2>2
<1>7. NextIndex(x) # w => /\ NextIndex(x) \in Span(x, w) \ {x}
                          /\ Span(NextIndex(x), w) \subseteq Span(x, w) \ {x}
  BY <1>1, SpanFacts
<1>8. Working'
  <2>. SUFFICES ASSUME NEW d \in Children, AtRecord(d)' PROVE start'[App(d)'] = at'[d]
    BY DEF Working
  <2>1. CASE d = c
    <3>1. pc'[c] = "record" /\ pos'[c] = pos[c] /\ at'[c] = NextIndex(x) /\ NextIndex(x) # w
      BY <1>3, <2>1 DEF AtRecord
    <3>2. App(c)' = a
      BY <1>0, <3>1 DEF App
    <3>. QED BY <1>2, <2>1, <3>1, <3>2
  <2>2. CASE d # c
    <3>1. AtRecord(d)
      BY <1>3, <2>2 DEF AtRecord
    <3>2. App(d) \in Apps /\ start[App(d)] = at[d]
      BY <1>0, <3>1, CurrentApp DEF AtFile, RingInv, Working, TypeInv
    <3>. QED BY <1>2, <1>3, <1>4, <2>2, <3>1, <3>2
  <2>. QED BY <2>1, <2>2
<1>9. Fresh'
  <2>. SUFFICES ASSUME NEW b \in Apps, NEW y \in Index, NEW v \in Index, start'[b] = y, widx[b] = v,
                       NEW i \in Span(y, v) \ {y}
                PROVE  wrote[b][i] = None \/ Blanking(b, i)'
    BY <1>0 DEF Fresh
  <2>1. CASE b = a
    <3>1. y = NextIndex(x) /\ NextIndex(x) # w /\ v = w
      BY <1>2, <2>1, IndexFacts
    <3>. QED BY <1>6, <1>7, <2>1, <3>1
  <2>2. CASE b # a
    <3>1. wrote[b][i] = None \/ Blanking(b, i)
      BY <1>2, <2>2 DEF RingInv, Fresh
    <3>2. Blanking(b, i)' <=> Blanking(b, i)
      BY <1>0 DEF Blanking
    <3>. QED BY <3>1, <3>2
  <2>. QED BY <2>1, <2>2
<1>10. FirstLog'
  <2>. SUFFICES ASSUME NEW b \in Apps, NEW y \in Index, NEW d \in Children, start'[b] = y,
                       wrote[b][y] = d
                PROVE  pc'[d] \in {"advance", "lock", "store"} /\ App(d)' = b
    BY <1>0 DEF FirstLog
  <2>1. CASE b = a
    <3>1. y = NextIndex(x) /\ NextIndex(x) # w
      BY <1>2, <2>1, IndexFacts
    <3>2. wrote[a][y] = None
      BY <1>6, <1>7, <3>1
    <3>. QED BY <2>1, <3>2, NoneFacts
  <2>2. CASE b # a
    <3>1. pc[d] \in {"advance", "lock", "store"} /\ App(d) = b
      BY <1>2, <2>2 DEF RingInv, FirstLog
    <3>2. d # c
      BY <2>2, <3>1
    <3>. QED BY <1>3, <1>4, <3>1, <3>2
  <2>. QED BY <2>1, <2>2
<1>11. Excl'
  <2>. SUFFICES ASSUME NEW s \in Sources, NEW d \in Children, spc[s] = "blank", pc'[d] = "store"
                PROVE  sapp[s] # App(d)'
    BY <1>0 DEF Excl
  <2>1. d # c
    BY <1>3
  <2>. QED BY <1>3, <1>4, <2>1 DEF RingInv, Excl
<1>. QED BY <1>8, <1>9, <1>10, <1>11 DEF RingInv

LEMMA RingGone ==
  ASSUME TypeInv, RingInv, NEW c \in Children, ChildGone(c), UNCHANGED <<widx, start, sourceVars>>
  PROVE  RingInv'
<1>1. UNCHANGED <<spc, sapp, sidx>>
  BY DEF sourceVars
<1>2. ~AtRecord(c)'
  BY GoneFacts DEF AtRecord
<1>. QED BY <1>1, <1>2, GoneFacts, RingOutside

LEMMA RingAccept ==
  ASSUME TypeInv, RingInv, NEW c \in Children, TryAcceptDispatchApp(c)
  PROVE  RingInv'
<1>0. pc[c] = "accept" /\ UNCHANGED <<widx, start, sourceVars>> /\ ChildrenOK
  BY AcceptCases DEF TypeInv, TypeOK
<1>1. CASE ListFull(c)
  BY <1>0, <1>1, RingGone DEF ListFull
<1>2. CASE NothingGiven(c) \/ Accepted(c)
  <2>1. /\ UNCHANGED <<pos, at, wrote>> /\ pc' = [pc EXCEPT ![c] = "run"]
        /\ \A d \in Children \ {c} : files'[d] = files[d]
    BY <1>0, <1>2 DEF NothingGiven, Accepted, ChildrenOK
  <2>2. pc'[c] = "run" /\ \A d \in Children \ {c} : pc'[d] = pc[d]
    BY <1>0, <2>1 DEF ChildrenOK
  <2>3. ~AtRecord(c)' /\ UNCHANGED <<spc, sapp, sidx>>
    BY <1>0, <2>2 DEF AtRecord, sourceVars
  <2>. QED BY <1>0, <2>1, <2>2, <2>3, RingOutside
<1>. QED BY <1>1, <1>2, AcceptCases

LEMMA RingBegin ==
  ASSUME TypeInv, RingInv, NEW c \in Children, Start(c) \/ ClearSlot(c) \/ BeginPass(c)
  PROVE  RingInv'
<1>0. /\ UNCHANGED <<widx, start, wrote, spc, sapp, sidx, files, at>> /\ ChildrenOK
      /\ pc[c] \in {"start", "clear", "run"}
  BY DEF Start, ClearSlot, BeginPass, ringVars, sourceVars, TypeInv, TypeOK
<1>1. /\ ~AtRecord(c)'
      /\ \A d \in Children \ {c} : pc'[d] = pc[d] /\ pos'[d] = pos[d]
  <2>1. CASE Start(c) \/ ClearSlot(c)
    BY <1>0, <2>1 DEF Start, ClearSlot, ChildrenOK, AtRecord
  <2>2. CASE BeginPass(c)
    BY <2>2, BeginFacts DEF AtRecord
  <2>. QED BY <2>1, <2>2
<1>. QED BY <1>0, <1>1, RingOutside

(* When all have ended, nothing counts as written. *)
LEMMA RingStartAll ==
  ASSUME TypeInv, StartAll
  PROVE  RingInv'
<1>1. \A a \in Apps : \A i \in Index : wrote[a][i] = None
  <2>. SUFFICES ASSUME NEW a \in Apps, NEW i \in Index, wrote[a][i] # None PROVE FALSE
    OBVIOUS
  <2>1. wrote[a][i] \in Children
    BY RingTypes
  <2>. QED BY <2>1 DEF TypeInv, LiveWrote, StartAll, Alive, Running
<1>2. wrote' = wrote /\ \A c \in Children : pc'[c] = "start"
  BY DEF StartAll, ringVars
<1>3. Working' /\ Excl'
  BY <1>2 DEF Working, AtRecord, Excl
<1>4. Fresh'
  <2>. SUFFICES ASSUME NEW a \in Apps, NEW x \in Index, NEW w \in Index, NEW i \in Span(x, w)
                PROVE  wrote'[a][i] = None
    BY DEF Fresh
  <2>. QED BY <1>1, <1>2, SpanFacts
<1>5. FirstLog'
  BY <1>1, <1>2, NoneFacts DEF FirstLog
<1>. QED BY <1>3, <1>4, <1>5 DEF RingInv

LEMMA RingNext == TypeInv /\ WriterPart /\ RingPart /\ [Next]_vars => RingPart'
<1>. SUFFICES ASSUME TypeInv, WriterPart, RingPart, [Next]_vars, taint' = {} PROVE RingInv'
  BY DEF RingPart
<1>0. CASE StartAll
  BY <1>0, RingStartAll
<1>1. CASE ~StartAll
  <2>0. WriterInv /\ RingInv
    <3>1. taint = {}
      BY <1>1, TaintStays
    <3>. QED BY <3>1 DEF WriterPart, RingPart
  <2>1. ASSUME NEW c \in Children, Child(c) PROVE RingInv'
    BY <2>0, <2>1, RingBegin, RingAccept, RingWriteFile, RingRecord, RingAdvance DEF Child
  <2>2. ASSUME NEW c \in Children, Exit(c) \/ Die(c) PROVE RingInv'
    <3>1. ChildGone(c) /\ UNCHANGED <<widx, start, sourceVars>>
      BY <2>2 DEF Exit, Die
    <3>. QED BY <2>0, <3>1, RingGone
  <2>3. ASSUME NEW s \in Sources, Source(s) \/ SourceDies(s) \/ \E a \in Apps : Reserve(s, a)
        PROVE  RingInv'
    BY <2>0, <2>3, RingSource, RingReserve
  <2>4. ASSUME UNCHANGED <<ringVars, sourceVars, pc, files, pos, at>> PROVE RingInv'
    <3>1. UNCHANGED <<widx, start, wrote, spc, sapp, sidx, pc, files, pos, at>>
      BY <2>4 DEF ringVars, sourceVars
    <3>. QED BY <2>0, <3>1, RingSame
  <2>5. CASE MainExit \/ MainDies \/ Stop \/ UNCHANGED vars
    BY <2>4, <2>5 DEF MainExit, MainDies, Stop, vars, childVars
  <2>6. CASE Tick
    BY <2>4, <2>6 DEF Tick
  <2>7. CASE Main
    <3>1. UNCHANGED <<ringVars, sourceVars, childVars>>
      BY <2>7 DEF Main, ChildrenReady, ReadStat, TryDispatchAppWrite, StoreIndex
    <3>. QED BY <2>4, <3>1 DEF childVars
  <2>. QED BY <1>1, <2>1, <2>2, <2>3, <2>5, <2>6, <2>7 DEF Next
<1>. QED BY <1>0, <1>1

LEMMA RingInit == Init => RingPart
<1>. SUFFICES ASSUME Init PROVE RingInv
  BY DEF RingPart
<1>1. Working /\ Excl
  BY DEF Init, Working, AtRecord, Excl
<1>2. Fresh /\ FirstLog
  BY IndexFacts DEF Init, Fresh, FirstLog
<1>. QED BY <1>1, <1>2 DEF RingInv

(* Nobody comes to write a log that a child still running has written: WriteLogRecord        *)
(* repeats a log only after the process that wrote it ended, however the processes that log  *)
(* take, publish and set the start in between, unless one of them sets it again or back,     *)
(* goes on without the lock or dies inside it, or the application had two writers.           *)
THEOREM WrittenOnceCorrect == Spec => []WrittenOnce
<1>1. TypeInv /\ WriterPart /\ RingPart => WrittenOnce
  <2>. SUFFICES ASSUME TypeInv, WriterInv, RingInv, NEW c \in Children, pc[c] = "record",
                       wrote[App(c)][at[c]] # None
                PROVE  FALSE
    BY DEF WriterPart, RingPart, WrittenOnce, Twice
  <2>1. AtRecord(c) /\ AtFile(c) /\ ChildrenOK
    BY DEF AtRecord, AtFile, TypeInv, TypeOK
  <2>2. App(c) \in Apps /\ at[c] \in Index /\ start[App(c)] = at[c]
    BY <2>1, CurrentApp, RingTypes DEF TypeInv, RingInv, Working
  <2>3. PICK d \in Children : wrote[App(c)][at[c]] = d
    BY <2>2, RingTypes
  <2>4. pc[d] \in {"advance", "lock", "store"} /\ App(d) = App(c)
    BY <2>2, <2>3 DEF RingInv, FirstLog
  <2>5. AtFile(d)
    BY <2>4 DEF AtFile, AtRecord
  <2>. QED BY <2>1, <2>4, <2>5, AppsApart
<1>2. Init => TypeInv /\ WriterPart /\ RingPart
  BY TypeInit, WriterInit, RingInit
<1>3. TypeInv /\ WriterPart /\ RingPart /\ [Next]_vars => (TypeInv /\ WriterPart /\ RingPart)'
  BY TypeNext, WriterNext, RingNext
<1>. QED BY <1>1, <1>2, <1>3, PTL DEF Spec

====
