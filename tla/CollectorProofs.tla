-------------------------- MODULE CollectorProofs --------------------------
(***************************************************************************)
(* Theorems about Collector for every number of hooks, set of rows, number *)
(* of output rounds and combination of failures: types and the places of   *)
(* rows; what the return code says; that nothing moves once the end files  *)
(* are complete; and that a run implements CollectionLog.                  *)
(***************************************************************************)
EXTENDS Collector, TLAPS

USE NHooksAssumption, BenchesAssumption, SwitchesAssumption, MaxRoundsAssumption DEF Hooks

(* The hooks of a run are numbered from 1.                                 *)
LEMMA HookFacts == /\ 1 \in Hooks
                   /\ \A h \in Hooks : h < NHooks => h + 1 \in Hooks
  OBVIOUS

(* TypeOK is not inductive: num stays in 0..MaxRounds because the output   *)
(* thread wakes up for at most MaxRounds rounds.                           *)
RoundsLeft == outPc \in {"lock", "data", "clear", "write", "release"}
                 => num < MaxRounds

TypeInv == TypeOK /\ RoundsLeft

(* The initial state has its types.                                        *)
LEMMA InitType == Init => TypeInv
  BY DEF Init, TypeInv, RoundsLeft, TypeOK, RowMap, NoRows, MainPcs, PollPcs, OutPcs, Codes, NoCode,
         Writers, Suffixes

(* The environment keeps the types. *)
LEMMA EnvironmentType == TypeInv /\ (Environment \/ ProcExit) => TypeInv'
<1> SUFFICES ASSUME TypeInv, Environment \/ ProcExit PROVE TypeInv'
  OBVIOUS
<1> USE DEF TypeInv, TypeOK, RoundsLeft, rowVars, benchVars, mainVars, pollVars, outVars
<1>1. ASSUME NEW h \in Hooks, NEW r \in Rows, Emit(h, r) PROVE TypeInv'
  BY <1>1 DEF Emit, RowMap
<1>2. CASE Stop
  BY <1>2 DEF Stop
<1>3. CASE ProcExit
  BY <1>3 DEF ProcExit, Codes
<1> QED
  BY <1>1, <1>2, <1>3 DEF Environment

(* Every step of the poll thread keeps the types. *)
LEMMA PollType == TypeInv /\ Poll => TypeInv'
<1> SUFFICES ASSUME TypeInv, Poll PROVE TypeInv'
  OBVIOUS
<1> USE HookFacts DEF TypeInv, TypeOK, RoundsLeft, rowVars, benchVars, mainVars,
                      outVars, PollPcs
<1>0. ASSUME pollPc \in {"hooks", "drain"}, PollNextHook
      PROVE pollPc' \in PollPcs /\ pollHook' \in Hooks /\ batch' \subseteq Rows
  BY <1>0 DEF PollNextHook, PollEnter, RowMap
<1>1. CASE PollLoop
  BY <1>1 DEF PollLoop, PollEnter, RowMap
<1>2. ASSUME NEW r \in Rows, PollCallback(r) PROVE TypeInv'
  BY <1>2 DEF PollCallback, pollVars, RowMap
<1>3. CASE PollReturn
  BY <1>0, <1>3 DEF PollReturn
<1>4. CASE PollRaise
  BY <1>0, <1>4 DEF PollRaise
<1>5. CASE PollBench
  BY <1>5 DEF PollBench
<1>6. CASE PollExit
  <2>1. proc' \in {"faux", "none", "running", "terminating", "exited"}
    BY <1>6 DEF PollExit, Kill
  <2>2. rc' \in Codes \cup {NoCode}
    BY <1>6 DEF PollExit, PollGoto, StopCode, Codes
  <2>3. /\ pollPc' \in PollPcs /\ pollHook' \in Hooks
        /\ batch' \subseteq Rows /\ due' \in RowMap
    BY <1>6 DEF PollExit, PollGoto, PollEnter, RowMap
  <2> QED
    BY <1>6, <2>1, <2>2, <2>3 DEF PollExit
<1>7. CASE PollPut
  BY <1>7 DEF PollPut, Codes
<1> QED
  BY <1>1, <1>2, <1>3, <1>4, <1>5, <1>6, <1>7 DEF Poll

(* The three operations of a pop keep the types of the rows. *)
LEMMA SnapshotType ==
  ASSUME TypeOK, NEW w \in Writers, NEW h \in Hooks, Snapshot(w, h)
  PROVE  tabs' \in [Writers -> RowMap]
  BY DEF TypeOK, Snapshot, RowMap

(* Writing a table keeps the types.                                        *)
LEMMA WriteTableType ==
  ASSUME TypeOK, NEW w \in Writers, NEW h \in Hooks, NEW s \in Suffixes,
         WriteTable(w, h, s)
  PROVE  tabs' \in [Writers -> RowMap] /\ files' \in [Suffixes -> RowMap]
  BY DEF TypeOK, WriteTable, RowMap

(* Clearing a list keeps the types.                                        *)
LEMMA ClearListType ==
  ASSUME TypeOK, NEW h \in Hooks, ClearList(h)
  PROVE  list' \in RowMap
  BY DEF TypeOK, ClearList, RowMap

(* Every step of the output thread keeps the types. *)
LEMMA OutputType == TypeInv /\ Output => TypeInv'
<1> SUFFICES ASSUME TypeInv, Output PROVE TypeInv'
  OBVIOUS
<1> USE HookFacts DEF rowVars, benchVars, mainVars, pollVars, OutPcs, OutStep,
                      OutSame, Writers, TypeInv, RoundsLeft
<1>1. CASE OutWake
  BY <1>1 DEF OutWake, TypeOK
<1>2. CASE OutAcquire
  BY <1>2 DEF OutAcquire, TypeOK
<1>3. CASE OutData
  <2>1. tabs' \in [Writers -> RowMap]
    BY <1>3, SnapshotType DEF OutData, TypeOK
  <2> QED
    BY <1>3, <2>1 DEF OutData, Snapshot, TypeOK
<1>4. CASE OutClear
  <2>1. list' \in RowMap
    BY <1>4, ClearListType DEF OutClear, TypeOK
  <2> QED
    BY <1>4, <2>1 DEF OutClear, ClearList, TypeOK
<1>5. CASE OutWrite
  <2>1. tabs' \in [Writers -> RowMap] /\ files' \in [Suffixes -> RowMap]
    BY <1>5, WriteTableType DEF OutWrite, TypeOK, Suffixes
  <2> QED
    BY <1>5, <2>1 DEF OutWrite, WriteTable, TypeOK
<1>6. CASE OutRaise
  BY <1>6 DEF OutRaise, TypeOK, RowMap, NoRows
<1>7. CASE OutRelease
  BY <1>7 DEF OutRelease, TypeOK
<1> QED
  BY <1>1, <1>2, <1>3, <1>4, <1>5, <1>6, <1>7 DEF Output

(* Every step of the main thread keeps the types. *)
LEMMA MainType == TypeInv /\ Main => TypeInv'
<1> SUFFICES ASSUME TypeInv, Main PROVE TypeInv'
  OBVIOUS
<1> USE HookFacts DEF rowVars, benchVars, mainVars, pollVars, outVars, MainPcs,
                      MainStep, MainSame, Writers, TypeInv, RoundsLeft
<1>1. CASE StartPoll
  BY <1>1 DEF StartPoll, TypeOK, PollPcs
<1>2. CASE StartOutput
  BY <1>2 DEF StartOutput, TypeOK, OutPcs
<1>3. CASE RunBenchmark
  BY <1>3 DEF RunBenchmark, TypeOK
<1>4. CASE RunRaises
  BY <1>4 DEF RunRaises, TypeOK, Codes
<1>5. CASE GetCode
  BY <1>5 DEF GetCode, TypeOK
<1>6. CASE JoinPoll
  BY <1>6 DEF JoinPoll, TypeOK
<1>7. CASE CloseHook
  BY <1>7 DEF CloseHook, TypeOK, RowMap
<1>8. CASE MainAcquire
  BY <1>8 DEF MainAcquire, TypeOK
<1>9. CASE MainData
  <2>1. tabs' \in [Writers -> RowMap]
    BY <1>9, SnapshotType DEF MainData, TypeOK
  <2> QED
    BY <1>9, <2>1 DEF MainData, Snapshot, TypeOK
<1>10. CASE MainClear
  <2>1. list' \in RowMap
    BY <1>10, ClearListType DEF MainClear, TypeOK
  <2> QED
    BY <1>10, <2>1 DEF MainClear, ClearList, TypeOK
<1>11. CASE MainWrite
  <2>1. tabs' \in [Writers -> RowMap] /\ files' \in [Suffixes -> RowMap]
    BY <1>11, WriteTableType DEF MainWrite, TypeOK, Suffixes
  <2> QED
    BY <1>11, <2>1 DEF MainWrite, WriteTable, TypeOK
<1>12. CASE MainRaise
  BY <1>12 DEF MainRaise, TypeOK
<1>13. CASE MainRelease
  BY <1>13 DEF MainRelease, TypeOK
<1>14. CASE MainReturn
  BY <1>14 DEF MainReturn, TypeOK
<1> QED
  BY <1>1, <1>2, <1>3, <1>4, <1>5, <1>6, <1>7, <1>8, <1>9, <1>10, <1>11, <1>12,
     <1>13, <1>14 DEF Main

(* So does a step of nothing.                                              *)
LEMMA StutterType == TypeInv /\ UNCHANGED vars => TypeInv'
  BY DEF TypeInv, RoundsLeft, TypeOK, vars, rowVars, benchVars, mainVars,
         pollVars, outVars

(* Every step keeps the types.                                             *)
LEMMA NextType == TypeInv /\ [Next]_vars => TypeInv'
  BY EnvironmentType, PollType, OutputType, MainType, StutterType
     DEF Next, Finished

(* The types hold throughout.                                              *)
LEMMA TypeInvariance == Spec => []TypeInv
<1>1. TypeInv /\ [Next]_vars => TypeInv'
  BY NextType
<1> QED
  BY InitType, <1>1, PTL DEF Spec

(* The variables of a collection run keep their types, however many hooks, *)
(* rows and output rounds there are and whatever fails.                    *)
THEOREM TypeCorrect == Spec => []TypeOK
<1>1. TypeInv => TypeOK
  BY DEF TypeInv
<1> QED
  BY TypeInvariance, <1>1, PTL

-----------------------------------------------------------------------------
(* Rows are in one place.                                                  *)

(* What the operations of a pop do to each table and file. *)
LEMMA SnapshotEffect ==
  ASSUME TypeOK, NEW w \in Writers, NEW h \in Hooks, Snapshot(w, h),
         NEW v \in Writers, NEW k \in Hooks
  PROVE  tabs'[v][k] = IF v = w /\ k = h THEN list[k] ELSE tabs[v][k]
  BY DEF TypeOK, RowMap, Snapshot

(* A written table is in its file and no more in memory.                   *)
LEMMA WriteTableEffect ==
  ASSUME TypeOK, NEW w \in Writers, NEW h \in Hooks, NEW s \in Suffixes,
         WriteTable(w, h, s)
  PROVE  /\ \A v \in Writers, k \in Hooks :
              tabs'[v][k] = IF v = w /\ k = h THEN {} ELSE tabs[v][k]
         /\ \A t \in Suffixes, k \in Hooks :
              files'[t][k] = IF t = s /\ k = h THEN tabs[w][k] ELSE files[t][k]
  BY DEF TypeOK, RowMap, WriteTable

(* clear() empties one list.                                               *)
LEMMA ClearListEffect ==
  ASSUME TypeOK, NEW h \in Hooks, ClearList(h), NEW k \in Hooks
  PROVE  list'[k] = IF k = h THEN {} ELSE list[k]
  BY DEF TypeOK, RowMap, ClearList

(* No row is anywhere.                                                     *)
LEMMA InitPlacement == Init => PlacementInv
<1> SUFFICES ASSUME Init PROVE PlacementInv
  OBVIOUS
<1>1. LockHeld
  BY DEF Init, LockHeld, OutHolds, MainHolds
<1>2. TablesPopped
  BY DEF Init, TablesPopped, NoRows, Writers
<1>3. RowPlacement /\ RowsOnce
  BY DEF Init, RowPlacement, BufferPlaced, TablePlaced, FilePlaced, RowsOnce, NoRows
<1> QED
  BY <1>1, <1>2, <1>3 DEF PlacementInv

(* A step that moves no row and does not touch what PlacementInv reads of  *)
(* the program counters keeps it. *)
LEMMA SamePlaces ==
  ASSUME PlacementInv, UNCHANGED rowVars,
         UNCHANGED <<lock, mainPc, mainHook, outPc, outHook>>
  PROVE  PlacementInv'
  BY DEF PlacementInv, LockHeld, OutHolds, MainHolds, TablesPopped,
         RowPlacement, BufferPlaced, TablePlaced, FilePlaced, RowsOnce,
         Popping, rowVars

(* A new row is in its ring buffer only.                                   *)
LEMMA EnvironmentPlacement ==
  ASSUME TypeInv, PlacementInv, Environment \/ ProcExit
  PROVE  PlacementInv'
<1> USE DEF outVars, mainVars
<1>1. ASSUME NEW h \in Hooks, NEW r \in Rows, Emit(h, r) PROVE PlacementInv'
  <2>1. /\ \A k \in Hooks :
             /\ captured'[k] = IF k = h THEN captured[k] \cup {r} ELSE captured[k]
             /\ ring'[k] = IF k = h THEN ring[k] \cup {r} ELSE ring[k]
        /\ r \notin captured[h]
        /\ UNCHANGED <<list, tabs, files>>
    BY <1>1 DEF Emit, TypeInv, TypeOK, RowMap
  <2>2. UNCHANGED <<lock, mainPc, mainHook, outPc, outHook>>
    BY <1>1 DEF Emit
  <2>3. ASSUME NEW k \in Hooks PROVE BufferPlaced(k)'
    BY <2>1 DEF PlacementInv, RowPlacement, BufferPlaced
  <2>4. ASSUME NEW k \in Hooks, NEW w \in Writers PROVE TablePlaced(w, k)'
    <3>1. TablePlaced(w, k) /\ BufferPlaced(k) /\ Popping(w, k)' = Popping(w, k)
      BY <2>2 DEF PlacementInv, RowPlacement, Popping
    <3> QED
      BY <2>1, <3>1 DEF BufferPlaced, TablePlaced
  <2>5. ASSUME NEW k \in Hooks, NEW s \in Suffixes PROVE FilePlaced(s, k)'
    <3>1. FilePlaced(s, k) /\ BufferPlaced(k)
      BY DEF PlacementInv, RowPlacement
    <3> QED
      BY <2>1, <3>1 DEF BufferPlaced, FilePlaced
  <2>6. RowPlacement'
    BY <2>3, <2>4, <2>5 DEF RowPlacement
  <2> QED
    BY <2>1, <2>2, <2>6 DEF PlacementInv, LockHeld, OutHolds, MainHolds,
       TablesPopped, RowsOnce
<1>2. CASE Stop
  BY <1>2, SamePlaces DEF Stop
<1>3. CASE ProcExit
  BY <1>3, SamePlaces DEF ProcExit
<1> QED
  BY <1>1, <1>2, <1>3 DEF Environment

(* The poll thread moves rows from a buffer to its list.                   *)
LEMMA PollPlacement ==
  ASSUME TypeInv, PlacementInv, Poll
  PROVE  PlacementInv'
<1> USE DEF outVars, mainVars
<1>1. ASSUME NEW r \in Rows, PollCallback(r) PROVE PlacementInv'
  <2>1. /\ \A k \in Hooks :
             /\ ring'[k] = IF k = pollHook THEN ring[k] \ {r} ELSE ring[k]
             /\ list'[k] = IF k = pollHook THEN list[k] \cup {r} ELSE list[k]
        /\ r \in ring[pollHook] /\ pollHook \in Hooks
        /\ UNCHANGED <<captured, tabs, files>>
    BY <1>1 DEF PollCallback, TypeInv, TypeOK, RowMap
  <2>2. UNCHANGED <<lock, mainPc, mainHook, outPc, outHook>>
    BY <1>1 DEF PollCallback
  <2>3. ASSUME NEW k \in Hooks PROVE BufferPlaced(k)'
    BY <2>1 DEF PlacementInv, RowPlacement, BufferPlaced
  <2>4. ASSUME NEW k \in Hooks, NEW w \in Writers PROVE TablePlaced(w, k)'
    <3>1. TablePlaced(w, k) /\ BufferPlaced(k) /\ Popping(w, k)' = Popping(w, k)
      BY <2>2 DEF PlacementInv, RowPlacement, Popping
    <3> QED
      BY <2>1, <3>1 DEF BufferPlaced, TablePlaced
  <2>5. ASSUME NEW k \in Hooks, NEW s \in Suffixes PROVE FilePlaced(s, k)'
    <3>1. FilePlaced(s, k) /\ BufferPlaced(k)
      BY DEF PlacementInv, RowPlacement
    <3> QED
      BY <2>1, <3>1 DEF BufferPlaced, FilePlaced
  <2>6. RowPlacement'
    BY <2>3, <2>4, <2>5 DEF RowPlacement
  <2> QED
    BY <2>1, <2>2, <2>6 DEF PlacementInv, LockHeld, OutHolds, MainHolds,
       TablesPopped, RowsOnce
<1>2. CASE PollLoop \/ PollReturn \/ PollRaise \/ PollBench
  BY <1>2, SamePlaces DEF PollLoop, PollReturn, PollRaise, PollBench
<1>3. CASE PollExit \/ PollPut
  BY <1>3, SamePlaces DEF PollExit, PollPut
<1> QED
  BY <1>1, <1>2, <1>3 DEF Poll

(* A step that moves no row and takes no thread into or out of the window  *)
(* between data() and clear() keeps the places of the rows. *)
LEMMA SameRows ==
  ASSUME PlacementInv, UNCHANGED rowVars,
         \A w \in Writers, h \in Hooks : Popping(w, h) => Popping(w, h)'
  PROVE  RowPlacement' /\ RowsOnce'
<1>1. RowsOnce'
  BY DEF PlacementInv, RowsOnce, rowVars
<1>2. ASSUME NEW h \in Hooks
      PROVE  BufferPlaced(h)' /\ \A s \in Suffixes : FilePlaced(s, h)'
  BY DEF PlacementInv, RowPlacement, BufferPlaced, FilePlaced, rowVars
<1>3. ASSUME NEW h \in Hooks, NEW w \in Writers PROVE TablePlaced(w, h)'
  BY DEF PlacementInv, RowPlacement, TablePlaced, rowVars
<1> QED
  BY <1>1, <1>2, <1>3 DEF RowPlacement

(* The output thread moves rows from a list to a table and a file, while   *)
(* it has the lock.                                                        *)
LEMMA OutputPlacement ==
  ASSUME TypeInv, PlacementInv, Output
  PROVE  PlacementInv'
<1> USE DEF mainVars
<1>1. CASE OutWake \/ OutAcquire \/ OutRelease
  <2>1. LockHeld' /\ TablesPopped'
    BY <1>1 DEF OutWake, OutAcquire, OutRelease, OutStep, OutSame, PlacementInv,
       LockHeld, TablesPopped, OutHolds, MainHolds, rowVars
  <2>2. RowPlacement' /\ RowsOnce'
    BY <1>1, SameRows DEF OutWake, OutAcquire, OutRelease, OutStep, OutSame,
       Popping
  <2> QED
    BY <2>1, <2>2 DEF PlacementInv
<1>2. CASE OutData
  <2> DEFINE g == outHook
  <2>1. /\ g \in Hooks /\ outPc = "data" /\ outPc' = "clear"
        /\ UNCHANGED <<captured, ring, list, files, lock, mainPc, mainHook, outHook>>
    BY <1>2 DEF OutData, OutStep, OutSame, Snapshot, TypeInv, TypeOK
  <2>2. \A w \in Writers, h \in Hooks :
          tabs'[w][h] = IF w = "output" /\ h = g THEN list[h] ELSE tabs[w][h]
    BY <1>2, <2>1, SnapshotEffect DEF OutData, Writers, TypeInv
  <2>3. LockHeld' /\ TablesPopped'
    BY <2>1, <2>2 DEF PlacementInv, LockHeld, TablesPopped, OutHolds, MainHolds,
       Writers
  <2>4. RowsOnce'
    BY <2>1 DEF PlacementInv, RowsOnce
  <2>5. ASSUME NEW h \in Hooks
        PROVE  /\ BufferPlaced(h)'
               /\ \A w \in Writers : TablePlaced(w, h)'
               /\ \A s \in Suffixes : FilePlaced(s, h)'
    <3>1. /\ BufferPlaced(h)
          /\ \A w \in Writers : TablePlaced(w, h)
          /\ \A s \in Suffixes : FilePlaced(s, h)
      BY DEF PlacementInv, RowPlacement
    <3>2. BufferPlaced(h)' /\ \A s \in Suffixes : FilePlaced(s, h)'
      BY <2>1, <2>2, <3>1 DEF BufferPlaced, FilePlaced
    <3>3. ASSUME NEW w \in Writers PROVE TablePlaced(w, h)'
      BY <2>1, <2>2, <3>1 DEF TablePlaced, BufferPlaced, Popping, Writers
    <3> QED
      BY <3>2, <3>3
  <2> QED
    BY <2>3, <2>4, <2>5 DEF PlacementInv, RowPlacement
<1>3. CASE OutClear
  <2> DEFINE g == outHook
  <2>1. /\ g \in Hooks /\ outPc = "clear" /\ outPc' \in {"data", "write"}
        /\ outPc' = "write" => outHook' = 1
        /\ UNCHANGED <<captured, ring, tabs, files, lock, mainPc, mainHook>>
    BY <1>3 DEF OutClear, OutSame, ClearList, TypeInv, TypeOK
  <2>2. \A h \in Hooks : list'[h] = IF h = g THEN {} ELSE list[h]
    BY <1>3, <2>1, ClearListEffect DEF OutClear, TypeInv
  <2>3. LockHeld' /\ TablesPopped'
    BY <2>1 DEF PlacementInv, LockHeld, TablesPopped, OutHolds, MainHolds
  <2>4. RowsOnce'
    BY <2>1 DEF PlacementInv, RowsOnce
  <2>5. ASSUME NEW h \in Hooks
        PROVE  /\ BufferPlaced(h)'
               /\ \A w \in Writers : TablePlaced(w, h)'
               /\ \A s \in Suffixes : FilePlaced(s, h)'
    <3>1. /\ BufferPlaced(h)
          /\ \A w \in Writers : TablePlaced(w, h)
          /\ \A s \in Suffixes : FilePlaced(s, h)
      BY DEF PlacementInv, RowPlacement
    <3>2. BufferPlaced(h)' /\ \A s \in Suffixes : FilePlaced(s, h)'
      BY <2>1, <2>2, <3>1 DEF BufferPlaced, FilePlaced
    <3>3. ASSUME NEW w \in Writers PROVE TablePlaced(w, h)'
      BY <2>1, <2>2, <3>1 DEF TablePlaced, BufferPlaced, Popping, Writers
    <3> QED
      BY <3>2, <3>3
  <2> QED
    BY <2>3, <2>4, <2>5 DEF PlacementInv, RowPlacement
<1>4. CASE OutWrite
  <2> DEFINE g == outHook
  <2>1. /\ g \in Hooks /\ num \in Suffixes
        /\ outPc = "write" /\ outPc' \in {"write", "release"}
        /\ outPc' = "write" => outHook' = g + 1
        /\ outPc' = "release" => g = NHooks
        /\ UNCHANGED <<captured, ring, list, lock, mainPc, mainHook>>
    BY <1>4 DEF OutWrite, OutSame, WriteTable, TypeInv, TypeOK, Suffixes
  <2>2. /\ \A w \in Writers, h \in Hooks :
             tabs'[w][h] = IF w = "output" /\ h = g THEN {} ELSE tabs[w][h]
        /\ \A t \in Suffixes, h \in Hooks :
             files'[t][h] = IF t = num /\ h = g THEN tabs["output"][h]
                                                ELSE files[t][h]
    BY <1>4, <2>1, WriteTableEffect DEF OutWrite, Writers, TypeInv
  <2>3. LockHeld'
    BY <2>1 DEF PlacementInv, LockHeld, OutHolds, MainHolds
  <2>4. TablesPopped'
    BY <2>1, <2>2 DEF PlacementInv, TablesPopped, Writers
  <2>5. \A h \in Hooks : tabs["main"][h] = {}
    BY <2>1 DEF PlacementInv, LockHeld, TablesPopped, OutHolds, MainHolds
  <2>6. ASSUME NEW h \in Hooks
        PROVE  /\ BufferPlaced(h)'
               /\ \A w \in Writers : TablePlaced(w, h)'
               /\ \A s \in Suffixes : FilePlaced(s, h)'
    <3>1. /\ BufferPlaced(h)
          /\ \A w \in Writers : TablePlaced(w, h)
          /\ \A s \in Suffixes : FilePlaced(s, h)
      BY DEF PlacementInv, RowPlacement
    <3>2. BufferPlaced(h)'
      BY <2>1, <3>1 DEF BufferPlaced
    <3>3. ASSUME NEW w \in Writers PROVE TablePlaced(w, h)'
      BY <2>1, <2>2, <3>1 DEF TablePlaced, Popping, Writers
    <3>4. ASSUME NEW s \in Suffixes PROVE FilePlaced(s, h)'
      BY <2>1, <2>2, <2>5, <3>1 DEF FilePlaced, TablePlaced, Popping, Writers
    <3> QED
      BY <3>2, <3>3, <3>4
  <2>7. RowsOnce'
    BY <2>2 DEF PlacementInv, RowsOnce, RowPlacement, FilePlaced, Writers
  <2> QED
    BY <2>3, <2>4, <2>6, <2>7 DEF PlacementInv, RowPlacement
<1>5. CASE OutRaise
  <2>1. /\ outPc \in {"data", "write"} /\ outPc' = "release"
        /\ UNCHANGED <<captured, ring, list, files, lock, mainPc, mainHook, outHook>>
    BY <1>5 DEF OutRaise, OutSame
  <2>2. \A w \in Writers, h \in Hooks :
          tabs'[w][h] = IF w = "output" THEN {} ELSE tabs[w][h]
    BY <1>5 DEF OutRaise, TypeInv, TypeOK, NoRows, Writers
  <2>3. LockHeld' /\ TablesPopped'
    BY <2>1, <2>2 DEF PlacementInv, LockHeld, TablesPopped, OutHolds, MainHolds,
       Writers
  <2>4. RowsOnce'
    BY <2>1 DEF PlacementInv, RowsOnce
  <2>5. ASSUME NEW h \in Hooks
        PROVE  /\ BufferPlaced(h)'
               /\ \A w \in Writers : TablePlaced(w, h)'
               /\ \A s \in Suffixes : FilePlaced(s, h)'
    BY <2>1, <2>2 DEF PlacementInv, RowPlacement, BufferPlaced, TablePlaced,
       FilePlaced, Popping
  <2> QED
    BY <2>3, <2>4, <2>5 DEF PlacementInv, RowPlacement
<1> QED
  BY <1>1, <1>2, <1>3, <1>4, <1>5 DEF Output

(* The main thread does the same after it has joined the others.           *)
LEMMA MainPlacement ==
  ASSUME TypeInv, PlacementInv, Main
  PROVE  PlacementInv'
<1> USE DEF outVars
<1>1. CASE StartPoll \/ StartOutput \/ RunBenchmark \/ RunRaises \/ GetCode
           \/ JoinPoll \/ MainReturn
  <2>1. /\ mainPc \notin {"data", "clear", "write", "release", "failed"}
        /\ mainPc' \notin {"data", "clear", "write", "release"}
        /\ UNCHANGED <<rowVars, lock>>
        /\ outPc \in {"data", "clear", "write", "release"}
             <=> outPc' \in {"data", "clear", "write", "release"}
        /\ outPc \in {"data", "clear", "write"} => UNCHANGED <<outPc, outHook>>
    BY <1>1 DEF StartPoll, StartOutput, RunBenchmark, RunRaises, GetCode,
       JoinPoll, MainReturn, MainStep, MainSame, PlacementInv, LockHeld
  <2>2. LockHeld'
    BY <1>1, <2>1 DEF StartPoll, StartOutput, RunBenchmark, RunRaises, GetCode,
       JoinPoll, MainReturn, MainStep, MainSame, PlacementInv, LockHeld, OutHolds, MainHolds
  <2>3. TablesPopped'
    BY <2>1 DEF PlacementInv, TablesPopped, rowVars
  <2>4. RowPlacement' /\ RowsOnce'
    BY <2>1, SameRows DEF Popping
  <2> QED
    BY <2>2, <2>3, <2>4 DEF PlacementInv
<1>2. CASE CloseHook
  <2>1. /\ mainPc = "close" /\ mainPc' \in {"close", "lock"}
        /\ \A h \in Hooks : ring'[h] \subseteq ring[h]
        /\ UNCHANGED <<captured, list, tabs, files, lock, outPc, outHook>>
    BY <1>2 DEF CloseHook, MainSame, TypeInv, TypeOK, RowMap
  <2>2. LockHeld' /\ TablesPopped' /\ RowsOnce'
    BY <2>1 DEF PlacementInv, LockHeld, OutHolds, MainHolds, TablesPopped, RowsOnce
  <2>3. RowPlacement'
    BY <2>1 DEF PlacementInv, RowPlacement, BufferPlaced, TablePlaced, FilePlaced,
       Popping
  <2> QED
    BY <2>2, <2>3 DEF PlacementInv
<1>3. CASE MainAcquire \/ MainRelease
  <2>1. LockHeld' /\ TablesPopped'
    BY <1>3 DEF MainAcquire, MainRelease, MainStep, MainSame, PlacementInv,
       LockHeld, TablesPopped, OutHolds, MainHolds, rowVars
  <2>2. RowPlacement' /\ RowsOnce'
    BY <1>3, SameRows DEF MainAcquire, MainRelease, MainStep, MainSame, Popping
  <2> QED
    BY <2>1, <2>2 DEF PlacementInv
<1>4. CASE MainData
  <2> DEFINE g == mainHook
  <2>1. /\ g \in Hooks /\ mainPc = "data" /\ mainPc' = "clear"
        /\ UNCHANGED <<captured, ring, list, files, lock, outPc, mainHook, outHook>>
    BY <1>4 DEF MainData, MainStep, MainSame, Snapshot, TypeInv, TypeOK
  <2>2. \A w \in Writers, h \in Hooks :
          tabs'[w][h] = IF w = "main" /\ h = g THEN list[h] ELSE tabs[w][h]
    BY <1>4, <2>1, SnapshotEffect DEF MainData, Writers, TypeInv
  <2>3. LockHeld' /\ TablesPopped'
    BY <2>1, <2>2 DEF PlacementInv, LockHeld, TablesPopped, OutHolds, MainHolds,
       Writers
  <2>4. RowsOnce'
    BY <2>1 DEF PlacementInv, RowsOnce
  <2>5. ASSUME NEW h \in Hooks
        PROVE  /\ BufferPlaced(h)'
               /\ \A w \in Writers : TablePlaced(w, h)'
               /\ \A s \in Suffixes : FilePlaced(s, h)'
    <3>1. /\ BufferPlaced(h)
          /\ \A w \in Writers : TablePlaced(w, h)
          /\ \A s \in Suffixes : FilePlaced(s, h)
      BY DEF PlacementInv, RowPlacement
    <3>2. BufferPlaced(h)' /\ \A s \in Suffixes : FilePlaced(s, h)'
      BY <2>1, <2>2, <3>1 DEF BufferPlaced, FilePlaced
    <3>3. ASSUME NEW w \in Writers PROVE TablePlaced(w, h)'
      BY <2>1, <2>2, <3>1 DEF TablePlaced, BufferPlaced, Popping, Writers
    <3> QED
      BY <3>2, <3>3
  <2> QED
    BY <2>3, <2>4, <2>5 DEF PlacementInv, RowPlacement
<1>5. CASE MainClear
  <2> DEFINE g == mainHook
  <2>1. /\ g \in Hooks /\ mainPc = "clear" /\ mainPc' \in {"data", "write"}
        /\ mainPc' = "write" => mainHook' = 1
        /\ UNCHANGED <<captured, ring, tabs, files, lock, outPc, outHook>>
    BY <1>5 DEF MainClear, MainSame, ClearList, TypeInv, TypeOK
  <2>2. \A h \in Hooks : list'[h] = IF h = g THEN {} ELSE list[h]
    BY <1>5, <2>1, ClearListEffect DEF MainClear, TypeInv
  <2>3. LockHeld' /\ TablesPopped'
    BY <2>1 DEF PlacementInv, LockHeld, TablesPopped, OutHolds, MainHolds
  <2>4. RowsOnce'
    BY <2>1 DEF PlacementInv, RowsOnce
  <2>5. ASSUME NEW h \in Hooks
        PROVE  /\ BufferPlaced(h)'
               /\ \A w \in Writers : TablePlaced(w, h)'
               /\ \A s \in Suffixes : FilePlaced(s, h)'
    <3>1. /\ BufferPlaced(h)
          /\ \A w \in Writers : TablePlaced(w, h)
          /\ \A s \in Suffixes : FilePlaced(s, h)
      BY DEF PlacementInv, RowPlacement
    <3>2. BufferPlaced(h)' /\ \A s \in Suffixes : FilePlaced(s, h)'
      BY <2>1, <2>2, <3>1 DEF BufferPlaced, FilePlaced
    <3>3. ASSUME NEW w \in Writers PROVE TablePlaced(w, h)'
      BY <2>1, <2>2, <3>1 DEF TablePlaced, BufferPlaced, Popping, Writers
    <3> QED
      BY <3>2, <3>3
  <2> QED
    BY <2>3, <2>4, <2>5 DEF PlacementInv, RowPlacement
<1>6. CASE MainWrite
  <2> DEFINE g == mainHook
  <2>1. /\ g \in Hooks /\ End \in Suffixes
        /\ mainPc = "write" /\ mainPc' \in {"write", "release"}
        /\ mainPc' = "write" => mainHook' = g + 1
        /\ mainPc' = "release" => g = NHooks
        /\ UNCHANGED <<captured, ring, list, lock, outPc, outHook>>
    BY <1>6 DEF MainWrite, MainSame, WriteTable, TypeInv, TypeOK, Suffixes
  <2>2. /\ \A w \in Writers, h \in Hooks :
             tabs'[w][h] = IF w = "main" /\ h = g THEN {} ELSE tabs[w][h]
        /\ \A t \in Suffixes, h \in Hooks :
             files'[t][h] = IF t = End /\ h = g THEN tabs["main"][h]
                                                ELSE files[t][h]
    BY <1>6, <2>1, WriteTableEffect DEF MainWrite, Writers, TypeInv
  <2>3. LockHeld'
    BY <2>1 DEF PlacementInv, LockHeld, OutHolds, MainHolds
  <2>4. TablesPopped'
    BY <2>1, <2>2 DEF PlacementInv, TablesPopped, Writers
  <2>5. \A h \in Hooks : tabs["output"][h] = {}
    BY <2>1 DEF PlacementInv, LockHeld, TablesPopped, OutHolds, MainHolds
  <2>6. ASSUME NEW h \in Hooks
        PROVE  /\ BufferPlaced(h)'
               /\ \A w \in Writers : TablePlaced(w, h)'
               /\ \A s \in Suffixes : FilePlaced(s, h)'
    <3>1. /\ BufferPlaced(h)
          /\ \A w \in Writers : TablePlaced(w, h)
          /\ \A s \in Suffixes : FilePlaced(s, h)
      BY DEF PlacementInv, RowPlacement
    <3>2. BufferPlaced(h)'
      BY <2>1, <3>1 DEF BufferPlaced
    <3>3. ASSUME NEW w \in Writers PROVE TablePlaced(w, h)'
      BY <2>1, <2>2, <3>1 DEF TablePlaced, Popping, Writers
    <3>4. ASSUME NEW s \in Suffixes PROVE FilePlaced(s, h)'
      BY <2>1, <2>2, <2>5, <3>1 DEF FilePlaced, TablePlaced, Popping, Writers
    <3> QED
      BY <3>2, <3>3, <3>4
  <2>7. RowsOnce'
    BY <2>2 DEF PlacementInv, RowsOnce, RowPlacement, FilePlaced, Writers
  <2> QED
    BY <2>3, <2>4, <2>6, <2>7 DEF PlacementInv, RowPlacement
<1>7. CASE MainRaise
  <2>1. LockHeld' /\ TablesPopped'
    BY <1>7 DEF MainRaise, MainSame, PlacementInv, LockHeld, TablesPopped,
       OutHolds, MainHolds, rowVars
  <2>2. RowPlacement' /\ RowsOnce'
    BY <1>7, SameRows DEF MainRaise, MainSame, Popping
  <2> QED
    BY <2>1, <2>2 DEF PlacementInv
<1> QED
  BY <1>1, <1>2, <1>3, <1>4, <1>5, <1>6, <1>7 DEF Main

(* Every step keeps every row in one place.                                *)
LEMMA NextPlacement == TypeInv /\ PlacementInv /\ [Next]_vars => PlacementInv'
<1> SUFFICES ASSUME TypeInv, PlacementInv, [Next]_vars PROVE PlacementInv'
  OBVIOUS
<1>1. CASE UNCHANGED vars
  BY <1>1, SamePlaces DEF vars, outVars, mainVars
<1>2. CASE Finished
  BY <1>2, <1>1 DEF Finished
<1> QED
  BY <1>1, <1>2, EnvironmentPlacement, PollPlacement, OutputPlacement,
     MainPlacement DEF Next

(* Every row is in one place: PlacementInv is an invariant. *)
THEOREM PlacementCorrect == Spec => []PlacementInv
  BY InitPlacement, TypeInvariance, NextPlacement, PTL DEF Spec

(* No row of a hook is ever in two parquet files, for any number of hooks, *)
(* rows and rounds, and whatever polls, writes and runs fail.              *)
THEOREM RowsFiledOnce == Spec => []RowsOnce
<1>1. PlacementInv => RowsOnce
  BY DEF PlacementInv
<1> QED
  BY PlacementCorrect, <1>1, PTL

-----------------------------------------------------------------------------
(* How a collection run ends.                                              *)

(* main from the moment it has the return code. *)
Ending == {"join", "close", "lock", "data", "clear", "write", "release",
           "post", "done"}

(* The return code reaches main through the queue, and the poll thread     *)
(* puts it after its last poll. *)
CodeOrder ==
    /\ mainPc = "spawn" <=> pollPc = "unstarted"
    /\ mainPc \in {"spawn", "start_output", "run", "get"} => mainCode = NoCode
    /\ mainPc \in Ending => mainCode # NoCode
    /\ queue # NoCode \/ mainCode # NoCode => pollPc = "done"

(* A return code of 0 means this. *)
Complete == IF Faux THEN ~runEvent ELSE proc = "exited" /\ status = 0

(* What the poll thread knows about the benchmark. *)
CodeMeaning ==
    /\ mainPc \in {"spawn", "start_output", "run"} => proc \in {"faux", "none"}
    /\ pollPc \in {"unstarted", "hooks", "bench"} => rc = NoCode
    /\ pollPc \in {"loop", "exit"} /\ rc # NoCode => proc = "exited" /\ rc = status
    /\ pollPc = "exit" /\ runEvent => rc # NoCode
    /\ pollPc \in {"drain", "put", "done"} =>
           /\ Faux \/ proc \in {"terminating", "exited"}
           /\ rc = 0 => Complete
    /\ 0 \in {queue, mainCode} => Complete

ThreadInv == CodeOrder /\ CodeMeaning

(* The hooks whose program main has closed. *)
Closed(h) == ~Loaded(h)

(* Whether main has cleared the list of hook h for the last time. *)
Cleared(h) == \/ mainPc \in {"data", "clear"} /\ h < mainHook
              \/ mainPc \in {"write", "release", "post", "done"}

(* Whether main has written the table of hook h to its "end" file. *)
Ended(h) == \/ mainPc = "write" /\ h < mainHook
            \/ mainPc \in {"release", "post", "done", "failed"}

(* Whether the output thread has written the table of hook h to its file   *)
(* of suffix s.                                                            *)
Numbered(s, h) == \/ s < num
                  \/ s = num /\ \/ outPc = "write" /\ h < outHook
                                \/ outPc = "release"

(* What main closes, clears or writes stays as main left it, and a writer  *)
(* never writes a file twice.                                              *)
ClosedInv ==
    \A h \in Hooks :
        /\ Closed(h) => ring[h] = {}
        /\ Cleared(h) => list[h] = {}
        /\ mainPc = "clear" /\ h = mainHook => tabs["main"][h] = list[h]
        /\ mainPc \in {"post", "done"} => \A w \in Writers : tabs[w][h] = {}
        /\ files[End][h] # {} => Ended(h)
        /\ \A s \in 0..MaxRounds : files[s][h] # {} => Numbered(s, h)

-----------------------------------------------------------------------------
(* The threads.                                                            *)

(* No thread has begun.                                                    *)
LEMMA InitThread == Init => ThreadInv
<1> SUFFICES ASSUME Init PROVE ThreadInv
  OBVIOUS
<1>1. CodeOrder
  BY DEF Init, CodeOrder, Ending
<1>2. proc \in {"faux", "none"}
  BY DEF Init
<1>3. CodeMeaning
  BY <1>2 DEF Init, CodeMeaning, NoCode, Complete, Faux
<1> QED
  BY <1>1, <1>3 DEF ThreadInv

(* A benchmark that satisfies Complete satisfies it for ever. *)
LEMMA CompleteStays ==
  ASSUME TypeInv, ThreadInv, [Next]_vars, Complete
  PROVE  Complete'
<1> USE DEF rowVars, benchVars, mainVars, pollVars, outVars, TypeInv, TypeOK, Complete, Faux
<1>1. CASE Environment \/ ProcExit
  BY <1>1 DEF Environment, Emit, Stop, ProcExit
<1>2. CASE Poll
  <2>1. UNCHANGED <<runEvent, status>>
    BY <1>2 DEF Poll, PollLoop, PollCallback, PollReturn, PollRaise, PollBench,
       PollExit, PollPut
  <2>2. proc' = proc \/ proc = "running"
    BY <1>2 DEF Poll, PollLoop, PollCallback, PollReturn, PollRaise, PollBench,
       PollExit, PollPut, Kill
  <2> QED
    BY <2>1, <2>2
<1>3. CASE Output
  BY <1>3 DEF Output, OutWake, OutAcquire, OutData, OutClear, OutWrite, OutRaise,
     OutRelease, OutSame
<1>4. CASE RunBenchmark \/ RunRaises
  BY <1>4 DEF RunBenchmark, RunRaises, MainStep, MainSame, ThreadInv, CodeMeaning
<1>5. CASE Main /\ ~RunBenchmark /\ ~RunRaises
  BY <1>5 DEF Main, StartPoll, StartOutput, GetCode, JoinPoll, CloseHook,
     MainAcquire, MainData, MainClear, MainWrite, MainRaise, MainRelease,
     MainReturn, MainSame
<1>6. CASE UNCHANGED vars
  BY <1>6 DEF vars
<1> QED
  BY <1>1, <1>2, <1>3, <1>4, <1>5, <1>6 DEF Next, Finished

(* A benchmark that has ended, or was told to, is not started again. *)
LEMMA EndedStays ==
  ASSUME TypeInv, ThreadInv, [Next]_vars, Faux \/ proc \in {"terminating", "exited"}
  PROVE  /\ Faux' \/ proc' \in {"terminating", "exited"}
         /\ proc = "exited" => UNCHANGED benchVars
<1> USE DEF rowVars, benchVars, mainVars, pollVars, outVars, TypeInv, TypeOK, Faux
<1>1. CASE Environment \/ ProcExit
  BY <1>1 DEF Environment, Emit, Stop, ProcExit
<1>2. CASE Poll
  BY <1>2 DEF Poll, PollLoop, PollCallback, PollReturn, PollRaise, PollBench,
     PollExit, PollPut, Kill
<1>3. CASE Output
  BY <1>3 DEF Output, OutWake, OutAcquire, OutData, OutClear, OutWrite, OutRaise,
     OutRelease, OutSame
<1>4. CASE RunBenchmark \/ RunRaises
  BY <1>4 DEF RunBenchmark, RunRaises, MainStep, MainSame, ThreadInv, CodeMeaning
<1>5. CASE Main /\ ~RunBenchmark /\ ~RunRaises
  BY <1>5 DEF Main, StartPoll, StartOutput, GetCode, JoinPoll, CloseHook,
     MainAcquire, MainData, MainClear, MainWrite, MainRaise, MainRelease,
     MainReturn, MainSame
<1>6. CASE UNCHANGED vars
  BY <1>6 DEF vars
<1> QED
  BY <1>1, <1>2, <1>3, <1>4, <1>5, <1>6 DEF Next, Finished

(* The order of the threads is kept: only the poll thread and four steps   *)
(* of main touch what it is about.                                         *)
LEMMA NextOrder == TypeInv /\ ThreadInv /\ [Next]_vars => CodeOrder'
<1> SUFFICES ASSUME TypeInv, ThreadInv, [Next]_vars PROVE CodeOrder'
  OBVIOUS
<1> USE DEF rowVars, benchVars, mainVars, pollVars, outVars, CodeOrder, ThreadInv, Ending, TypeInv,
            TypeOK
<1>1. CASE Environment \/ ProcExit
  BY <1>1 DEF Environment, Emit, Stop, ProcExit
<1>2. CASE Poll
  <2>1. UNCHANGED <<mainPc, mainCode>>
    BY <1>2 DEF Poll, PollLoop, PollCallback, PollReturn, PollRaise, PollBench,
       PollExit, PollPut
  <2>2. pollPc' # "unstarted" /\ pollPc \notin {"unstarted", "done"}
    BY <1>2 DEF Poll, PollLoop, PollCallback, PollReturn, PollRaise, PollBench,
       PollExit, PollPut, PollNextHook, PollEnter, PollGoto
  <2>3. queue' = queue \/ pollPc' = "done"
    BY <1>2 DEF Poll, PollLoop, PollCallback, PollReturn, PollRaise, PollBench,
       PollExit, PollPut
  <2> QED
    BY <2>1, <2>2, <2>3
<1>3. CASE Output
  BY <1>3 DEF Output, OutWake, OutAcquire, OutData, OutClear, OutWrite, OutRaise,
     OutRelease, OutSame
<1>4. CASE StartPoll \/ StartOutput \/ RunBenchmark \/ RunRaises \/ GetCode
  BY <1>4 DEF StartPoll, StartOutput, RunBenchmark, RunRaises, GetCode, MainStep,
     MainSame, NoCode
<1>5. CASE JoinPoll \/ CloseHook \/ MainAcquire \/ MainData \/ MainClear
  BY <1>5 DEF JoinPoll, CloseHook, MainAcquire, MainData, MainClear, MainStep, MainSame
<1>6. CASE MainWrite \/ MainRaise \/ MainRelease \/ MainReturn
  BY <1>6 DEF MainWrite, MainRaise, MainRelease, MainReturn, MainStep, MainSame
<1>7. CASE UNCHANGED vars
  BY <1>7 DEF vars
<1> QED
  BY <1>1, <1>2, <1>3, <1>4, <1>5, <1>6, <1>7 DEF Next, Finished, Main

(* What the poll thread knows stays true: the benchmark keeps its outcome, *)
(* and every step of the thread itself keeps rc in agreement with it.      *)
LEMMA NextMeaning == TypeInv /\ ThreadInv /\ [Next]_vars => CodeMeaning'
<1> SUFFICES ASSUME TypeInv, ThreadInv, [Next]_vars PROVE CodeMeaning'
  OBVIOUS
<1> USE DEF rowVars, benchVars, mainVars, pollVars, outVars, TypeInv, TypeOK, NoCode, Codes
<1>0. /\ Complete => Complete'
      /\ Faux \/ proc \in {"terminating", "exited"} =>
           /\ Faux' \/ proc' \in {"terminating", "exited"}
           /\ proc = "exited" => UNCHANGED benchVars
  BY CompleteStays, EndedStays
<1>1. CASE Environment \/ ProcExit
  BY <1>0, <1>1 DEF Environment, Emit, Stop, ProcExit, ThreadInv, CodeMeaning
<1>2. CASE PollLoop
  BY <1>0, <1>2 DEF PollLoop, PollEnter, ThreadInv, CodeMeaning
<1>3. CASE \E r \in Rows : PollCallback(r)
  BY <1>0, <1>3 DEF PollCallback, ThreadInv, CodeMeaning
<1>4. CASE PollReturn \/ PollRaise
  BY <1>0, <1>4 DEF PollReturn, PollRaise, PollNextHook, PollEnter, ThreadInv, CodeMeaning
<1>5. CASE PollBench
  BY <1>0, <1>5 DEF PollBench, ThreadInv, CodeMeaning
<1>6. CASE PollExit
  BY <1>0, <1>6 DEF PollExit, PollEnter, PollGoto, Kill, StopCode, NotRunning,
     ThreadInv, CodeMeaning, Faux, Complete
<1>7. CASE PollPut
  BY <1>0, <1>7 DEF PollPut, ThreadInv, CodeMeaning
<1>8. CASE Output
  <2>1. UNCHANGED <<runEvent, proc, status, queue, mainPc, mainCode, pollPc, rc>>
    BY <1>8 DEF Output, OutWake, OutAcquire, OutData, OutClear, OutWrite,
       OutRaise, OutRelease, OutSame
  <2> QED
    BY <1>0, <2>1 DEF ThreadInv, CodeMeaning
<1>9. CASE StartPoll \/ StartOutput \/ RunBenchmark \/ RunRaises
  BY <1>0, <1>9 DEF StartPoll, StartOutput, RunBenchmark, RunRaises, MainStep,
     MainSame, ThreadInv, CodeMeaning, CodeOrder
<1>10. CASE GetCode \/ JoinPoll
  BY <1>0, <1>10 DEF GetCode, JoinPoll, MainStep, MainSame, ThreadInv, CodeMeaning
<1>11. CASE CloseHook \/ MainAcquire \/ MainData \/ MainClear \/ MainWrite
            \/ MainRaise \/ MainRelease \/ MainReturn
  <2>1. /\ UNCHANGED <<runEvent, proc, status, queue, mainCode, pollPc, rc>>
        /\ mainPc' \notin {"spawn", "start_output", "run"}
    BY <1>11 DEF CloseHook, MainAcquire, MainData, MainClear, MainWrite,
       MainRaise, MainRelease, MainReturn, MainStep, MainSame
  <2> QED
    BY <1>0, <2>1 DEF ThreadInv, CodeMeaning
<1>12. CASE UNCHANGED vars
  BY <1>0, <1>12 DEF vars, ThreadInv, CodeMeaning
<1> QED
  BY <1>1, <1>2, <1>3, <1>4, <1>5, <1>6, <1>7, <1>8, <1>9, <1>10, <1>11, <1>12
     DEF Next, Finished, Main, Poll

(* Types and the order of the threads hold together.                       *)
LEMMA ThreadInvariance == Spec => [](TypeInv /\ ThreadInv)
<1>1. Init => TypeInv /\ ThreadInv
  BY InitType, InitThread
<1>2. TypeInv /\ ThreadInv /\ [Next]_vars => (TypeInv /\ ThreadInv)'
  BY NextType, NextOrder, NextMeaning DEF ThreadInv
<1> QED
  BY <1>1, <1>2, PTL DEF Spec

(* poll_instrumentation never polls a hook that run_collect has closed,    *)
(* for any number of hooks and rows and whatever fails.                    *)
THEOREM PollBeforeClose == Spec => []NoPollAfterClose
<1>1. TypeInv /\ ThreadInv => NoPollAfterClose
  BY DEF TypeInv, TypeOK, ThreadInv, CodeOrder, Ending, NoPollAfterClose, Loaded, MainPcs
<1> QED
  BY ThreadInvariance, <1>1, PTL

(* The hooks are closed and the "end" files written only for a benchmark   *)
(* that has ended or has been told to.                                     *)
THEOREM EndAfterBenchmark == Spec => []NoEndWhileRunning
<1>1. TypeInv /\ ThreadInv => NoEndWhileRunning
  BY DEF ThreadInv, CodeOrder, CodeMeaning, Ending, NoEndWhileRunning
<1> QED
  BY ThreadInvariance, <1>1, PTL

(* run_collect returns 0 only for a benchmark that ran to its end.         *)
THEOREM ZeroCorrect == Spec => []ZeroMeansComplete
<1>1. TypeInv /\ ThreadInv => ZeroMeansComplete
  BY DEF ThreadInv, CodeMeaning, Complete, ZeroMeansComplete
<1> QED
  BY ThreadInvariance, <1>1, PTL

-----------------------------------------------------------------------------
(* What is closed stays closed.                                            *)

(* Nothing is closed.                                                      *)
LEMMA InitClosed == Init => ClosedInv
  BY DEF Init, ClosedInv, Closed, Loaded, Cleared, NoRows, End, Suffixes

(* ClosedInv is kept by a step that moves no row and is not at the end of  *)
(* an operation of a writer. *)
LEMMA SameClosed ==
  ASSUME ClosedInv, UNCHANGED rowVars, UNCHANGED <<mainPc, mainHook, mainCode>>,
         \A s \in 0..MaxRounds, h \in Hooks : Numbered(s, h) => Numbered(s, h)'
  PROVE  ClosedInv'
  BY DEF ClosedInv, Closed, Loaded, Cleared, Ended, rowVars

(* Events and the process go into ring buffers only.                       *)
LEMMA EnvironmentClosed ==
  ASSUME TypeInv, ClosedInv, Environment \/ ProcExit
  PROVE  ClosedInv'
<1> USE DEF outVars, mainVars
<1>1. ASSUME NEW g \in Hooks, NEW r \in Rows, Emit(g, r) PROVE ClosedInv'
  <2>1. /\ \A h \in Hooks : ring'[h] = IF h = g THEN ring[h] \cup {r} ELSE ring[h]
        /\ ~Closed(g)
        /\ UNCHANGED <<list, tabs, files, num, mainVars, outVars>>
    BY <1>1 DEF Emit, Closed, TypeInv, TypeOK, RowMap
  <2> QED
    BY <2>1 DEF ClosedInv, Closed, Loaded, Cleared, Ended, Numbered
<1>2. CASE Stop
  BY <1>2, SameClosed DEF Stop, Numbered
<1>3. CASE ProcExit
  BY <1>3, SameClosed DEF ProcExit, Numbered
<1> QED
  BY <1>1, <1>2, <1>3 DEF Environment

(* While the poll thread polls, nothing is closed. *)
LEMMA NothingClosed ==
  ASSUME TypeInv, ThreadInv, pollPc # "done", NEW h \in Hooks
  PROVE  /\ ~Closed(h) /\ ~Cleared(h)
         /\ mainPc \notin Ending
  BY DEF ThreadInv, CodeOrder, Ending, Closed, Loaded, Cleared

(* The poll thread appends to lists, which no end file has.                *)
LEMMA PollClosed ==
  ASSUME TypeInv, ThreadInv, ClosedInv, Poll
  PROVE  ClosedInv'
<1> USE DEF outVars, mainVars
<1>1. ASSUME NEW r \in Rows, PollCallback(r) PROVE ClosedInv'
  <2>1. /\ \A h \in Hooks : ~Closed(h) /\ ~Cleared(h)
        /\ mainPc \notin {"clear", "post", "done"}
    BY <1>1, NothingClosed DEF PollCallback, Ending
  <2>2. UNCHANGED <<tabs, files, mainVars, outVars>>
    BY <1>1 DEF PollCallback
  <2> QED
    BY <2>1, <2>2 DEF ClosedInv, Closed, Loaded, Cleared, Ended, Numbered
<1>2. CASE PollLoop \/ PollReturn \/ PollRaise \/ PollBench
  BY <1>2, SameClosed DEF PollLoop, PollReturn, PollRaise, PollBench, Numbered
<1>3. CASE PollExit \/ PollPut
  BY <1>3, SameClosed DEF PollExit, PollPut, Numbered
<1> QED
  BY <1>1, <1>2, <1>3 DEF Poll

(* The output thread is gone when the end files are written, and a         *)
(* numbered round is written once.                                         *)
LEMMA OutputClosed ==
  ASSUME TypeInv, PlacementInv, ClosedInv, Output
  PROVE  ClosedInv'
<1> USE DEF mainVars
<1>1. CASE OutWake \/ OutAcquire \/ OutRelease
  <2>1. UNCHANGED rowVars /\ UNCHANGED <<mainPc, mainHook, mainCode>>
    BY <1>1 DEF OutWake, OutAcquire, OutRelease, OutSame
  <2>2. ASSUME NEW s \in 0..MaxRounds, NEW h \in Hooks, Numbered(s, h)
        PROVE  Numbered(s, h)'
    BY <1>1, <2>2 DEF OutWake, OutAcquire, OutRelease, OutStep, Numbered, TypeInv,
       TypeOK
  <2> QED
    BY <2>1, <2>2, SameClosed
<1>2. CASE OutData
  <2> DEFINE g == outHook
  <2>1. /\ g \in Hooks /\ outPc = "data" /\ outPc' = "clear"
        /\ UNCHANGED <<ring, list, files, mainPc, mainHook, mainCode, outHook, num>>
    BY <1>2 DEF OutData, OutStep, OutSame, Snapshot, TypeInv, TypeOK
  <2>2. \A w \in Writers, h \in Hooks :
          tabs'[w][h] = IF w = "output" /\ h = g THEN list[h] ELSE tabs[w][h]
    BY <1>2, <2>1, SnapshotEffect DEF OutData, Writers, TypeInv
  <2>3. mainPc \in {"post", "done"} => list[g] = {}
    BY <2>1 DEF ClosedInv, Cleared
  <2> QED
    BY <2>1, <2>2, <2>3 DEF ClosedInv, Closed, Loaded, Cleared, Ended, Numbered,
       Writers
<1>3. CASE OutClear
  <2> DEFINE g == outHook
  <2>1. /\ g \in Hooks /\ outPc = "clear"
        /\ \/ outPc' = "data"
           \/ outPc' = "write" /\ outHook' = 1
        /\ UNCHANGED <<ring, tabs, files, mainPc, mainHook, mainCode, num>>
        /\ mainPc # "clear"
    BY <1>3 DEF OutClear, OutSame, ClearList, TypeInv, TypeOK, PlacementInv,
       LockHeld, OutHolds, MainHolds
  <2>2. \A h \in Hooks : list'[h] = IF h = g THEN {} ELSE list[h]
    BY <1>3, <2>1, ClearListEffect DEF OutClear, TypeInv
  <2> QED
    BY <2>1, <2>2 DEF ClosedInv, Closed, Loaded, Cleared, Ended, Numbered
<1>4. CASE OutWrite
  <2> DEFINE g == outHook
  <2>1. /\ g \in Hooks /\ num \in 0..MaxRounds /\ num \in Suffixes /\ num # End
        /\ End \in Suffixes
        /\ outPc = "write"
        /\ \/ outPc' = "write" /\ outHook' = g + 1
           \/ outPc' = "release" /\ g = NHooks
        /\ UNCHANGED <<ring, list, mainPc, mainHook, mainCode, num>>
    BY <1>4 DEF OutWrite, OutSame, WriteTable, TypeInv, TypeOK, Suffixes, End
  <2>2. /\ \A w \in Writers, h \in Hooks :
             tabs'[w][h] = IF w = "output" /\ h = g THEN {} ELSE tabs[w][h]
        /\ \A t \in Suffixes, h \in Hooks :
             files'[t][h] = IF t = num /\ h = g THEN tabs["output"][h]
                                                ELSE files[t][h]
    <3>1. WriteTable("output", g, num) /\ "output" \in Writers /\ TypeOK
      BY <1>4 DEF OutWrite, Writers, TypeInv
    <3> HIDE DEF g
    <3> QED
      BY <2>1, <3>1, WriteTableEffect
  <2>3. ASSUME NEW s \in 0..MaxRounds, NEW h \in Hooks, files'[s][h] # {}
        PROVE  Numbered(s, h)'
    <3>1. CASE s = num /\ h = g
      BY <2>1, <3>1 DEF Numbered
    <3>2. CASE ~(s = num /\ h = g)
      <4>1. Numbered(s, h)
        BY <2>2, <2>3, <3>2 DEF ClosedInv, Suffixes
      <4> QED
        BY <2>1, <4>1 DEF Numbered
    <3> QED
      BY <3>1, <3>2
  <2>4. ASSUME NEW h \in Hooks
        PROVE  /\ files'[End][h] = files[End][h]
               /\ tabs'["main"][h] = tabs["main"][h]
               /\ \A w \in Writers : tabs'[w][h] \subseteq tabs[w][h]
    BY <2>1, <2>2 DEF Writers
  <2> QED
    BY <2>1, <2>3, <2>4 DEF ClosedInv, Closed, Loaded, Cleared, Ended
<1>5. CASE OutRaise
  <2>1. /\ outPc \in {"data", "write"} /\ outPc' = "release"
        /\ UNCHANGED <<ring, list, files, mainPc, mainHook, mainCode, num>>
    BY <1>5 DEF OutRaise, OutSame
  <2>2. \A w \in Writers, h \in Hooks :
          tabs'[w][h] = IF w = "output" THEN {} ELSE tabs[w][h]
    BY <1>5 DEF OutRaise, TypeInv, TypeOK, NoRows, Writers
  <2> QED
    BY <2>1, <2>2 DEF ClosedInv, Closed, Loaded, Cleared, Ended, Numbered, Writers
<1> QED
  BY <1>1, <1>2, <1>3, <1>4, <1>5 DEF Output

(* The main thread closes one hook after the other.                        *)
LEMMA MainClosed ==
  ASSUME TypeInv, PlacementInv, ThreadInv, ClosedInv, Main
  PROVE  ClosedInv'
<1> USE DEF outVars, ClosedInv, Closed, Loaded, Cleared, Ended, Numbered
<1>1. CASE StartPoll \/ StartOutput \/ RunBenchmark \/ RunRaises \/ GetCode
  <2>1. /\ mainPc \in {"spawn", "start_output", "run", "get"}
        /\ mainPc' \in {"start_output", "run", "get", "join", "failed"}
        /\ mainPc' = "failed" => mainCode' = NoCode
        /\ UNCHANGED rowVars
    BY <1>1 DEF StartPoll, StartOutput, RunBenchmark, RunRaises, GetCode, MainStep,
       ThreadInv, CodeOrder
  <2>2. \A s \in 0..MaxRounds, h \in Hooks : Numbered(s, h) => Numbered(s, h)'
    BY <1>1 DEF StartPoll, StartOutput, RunBenchmark, RunRaises, GetCode, MainStep,
       MainSame, PlacementInv, LockHeld
  <2> QED
    BY <2>1, <2>2 DEF rowVars
<1>2. CASE JoinPoll
  BY <1>2 DEF JoinPoll, MainStep, MainSame, rowVars
<1>3. CASE CloseHook
  <2>1. \A h \in Hooks : ring'[h] = IF h = mainHook THEN {} ELSE ring[h]
    BY <1>3 DEF CloseHook, TypeInv, TypeOK, RowMap
  <2> QED
    BY <1>3, <2>1 DEF CloseHook, MainSame, TypeInv, TypeOK
<1>4. CASE MainAcquire
  BY <1>4 DEF MainAcquire, MainStep, MainSame, rowVars
<1>5. CASE MainData
  <2>1. \A w \in Writers, h \in Hooks :
          tabs'[w][h] = IF w = "main" /\ h = mainHook THEN list[h] ELSE tabs[w][h]
    BY <1>5, SnapshotEffect DEF MainData, Writers, TypeInv, TypeOK
  <2> QED
    BY <1>5, <2>1 DEF MainData, MainStep, MainSame, Snapshot, Writers
<1>6. CASE MainClear
  <2>1. \A h \in Hooks : list'[h] = IF h = mainHook THEN {} ELSE list[h]
    BY <1>6, ClearListEffect DEF MainClear, TypeInv, TypeOK
  <2> QED
    BY <1>6, <2>1 DEF MainClear, MainSame, ClearList, TypeInv, TypeOK
<1>7. CASE MainWrite
  <2> DEFINE g == mainHook
  <2>1. /\ g \in Hooks /\ End \in Suffixes /\ End \notin 0..MaxRounds
        /\ 0..MaxRounds \subseteq Suffixes
        /\ mainPc = "write"
        /\ \/ mainPc' = "write" /\ mainHook' = g + 1
           \/ mainPc' = "release" /\ g = NHooks
        /\ UNCHANGED <<ring, list, mainCode, outPc, outHook, num>>
    BY <1>7 DEF MainWrite, MainSame, WriteTable, TypeInv, TypeOK, Suffixes, End
  <2>2. /\ \A w \in Writers, h \in Hooks :
             tabs'[w][h] = IF w = "main" /\ h = g THEN {} ELSE tabs[w][h]
        /\ \A t \in Suffixes, h \in Hooks :
             files'[t][h] = IF t = End /\ h = g THEN tabs["main"][h]
                                                ELSE files[t][h]
    <3>1. WriteTable("main", g, End) /\ "main" \in Writers /\ TypeOK
      BY <1>7 DEF MainWrite, Writers, TypeInv
    <3> HIDE DEF g
    <3> QED
      BY <2>1, <3>1, WriteTableEffect
  <2>3. ASSUME NEW h \in Hooks
        PROVE  /\ files'[End][h] # {} => Ended(h)'
               /\ \A s \in 0..MaxRounds : files'[s][h] = files[s][h]
    BY <2>1, <2>2
  <2> QED
    BY <2>1, <2>3
<1>8. CASE MainRaise
  BY <1>8 DEF MainRaise, MainSame, ThreadInv, CodeOrder, Ending, rowVars
<1>9. CASE MainRelease
  <2>1. mainPc = "release" /\ mainPc' = "post" /\ UNCHANGED rowVars
    BY <1>9 DEF MainRelease, MainStep
  <2>2. \A w \in Writers, h \in Hooks : tabs[w][h] = {}
    BY <2>1 DEF PlacementInv, LockHeld, TablesPopped, OutHolds, MainHolds, Writers
  <2> QED
    BY <1>9, <2>1, <2>2 DEF MainRelease, MainSame, rowVars
<1>10. CASE MainReturn
  BY <1>10 DEF MainReturn, MainStep, MainSame, rowVars
<1> QED
  BY <1>1, <1>2, <1>3, <1>4, <1>5, <1>6, <1>7, <1>8, <1>9, <1>10 DEF Main

RunInv == TypeInv /\ PlacementInv /\ ThreadInv /\ ClosedInv

(* Every step keeps the invariant of the run.                              *)
LEMMA NextRun == RunInv /\ [Next]_vars => RunInv'
<1> SUFFICES ASSUME RunInv, [Next]_vars PROVE RunInv'
  OBVIOUS
<1>1. TypeInv' /\ PlacementInv' /\ ThreadInv'
  BY NextType, NextPlacement, NextOrder, NextMeaning DEF RunInv, ThreadInv
<1>2. ASSUME UNCHANGED vars PROVE ClosedInv'
  BY <1>2, SameClosed DEF vars, RunInv, Numbered, mainVars, outVars
<1>3. ClosedInv'
  BY <1>2, EnvironmentClosed, PollClosed, OutputClosed, MainClosed
     DEF RunInv, Next, Finished
<1> QED
  BY <1>1, <1>3 DEF RunInv

(* The strengthened invariant of a run: types, places of the rows, order   *)
(* of the threads, and what has been closed.                               *)
THEOREM RunCorrect == Spec => []RunInv
<1>1. Init => RunInv
  BY InitType, InitPlacement, InitThread, InitClosed DEF RunInv
<1> QED
  BY <1>1, NextRun, PTL DEF Spec

(* What a step can do once the "end" files are complete. *)
LEMMA AfterEnd ==
  ASSUME RunInv, [Next]_vars, mainPc \in {"post", "done"}
  PROVE  /\ UNCHANGED <<captured, ring, list, tabs, files>>
         /\ mainPc' \in {"post", "done"}
<1> USE DEF RunInv
<1>0. /\ pollPc = "done"
      /\ \A h \in Hooks : /\ Closed(h) /\ list[h] = {}
                          /\ \A w \in Writers : tabs[w][h] = {}
  BY DEF ThreadInv, CodeOrder, Ending, ClosedInv, Cleared, Closed, Loaded
<1>1. CASE Environment \/ ProcExit
  BY <1>0, <1>1 DEF Environment, Emit, Stop, ProcExit, Closed, rowVars, mainVars
<1>2. CASE Poll
  BY <1>0, <1>2 DEF Poll, PollLoop, PollCallback, PollReturn, PollRaise, PollBench,
     PollExit, PollPut
<1>3. CASE OutWake \/ OutAcquire \/ OutRelease
  BY <1>3 DEF OutWake, OutAcquire, OutRelease, OutSame, rowVars, mainVars
<1>4. CASE OutData
  <2>1. outHook \in Hooks /\ "output" \in Writers
    BY DEF TypeInv, TypeOK, Writers
  <2>2. tabs' = tabs
    <3>1. tabs' = [tabs EXCEPT !["output"][outHook] = tabs["output"][outHook]]
      BY <1>0, <1>4, <2>1 DEF OutData, Snapshot
    <3> QED
      BY <2>1, <3>1 DEF TypeInv, TypeOK, RowMap
  <2> QED
    BY <1>4, <2>2 DEF OutData, Snapshot, OutSame, mainVars
<1>5. CASE OutClear
  <2>1. list' = [list EXCEPT ![outHook] = list[outHook]]
    BY <1>0, <1>5 DEF OutClear, ClearList, TypeInv, TypeOK
  <2>2. list' = list
    BY <2>1 DEF TypeInv, TypeOK, RowMap
  <2> QED
    BY <1>5, <2>2 DEF OutClear, ClearList, OutSame, mainVars
<1>6. CASE OutWrite
  <2>1. /\ outHook \in Hooks /\ "output" \in Writers
        /\ num \in 0..MaxRounds /\ num \in Suffixes
    BY DEF TypeInv, TypeOK, Writers, Suffixes
  <2>2. ~Numbered(num, outHook)
    BY <1>6, <2>1 DEF OutWrite, Numbered
  <2>3. files[num][outHook] = {}
    BY <2>1, <2>2 DEF ClosedInv
  <2>4. files' = files
    <3>1. files' = [files EXCEPT ![num][outHook] = files[num][outHook]]
      BY <1>0, <1>6, <2>1, <2>3 DEF OutWrite, WriteTable
    <3> QED
      BY <2>1, <3>1 DEF TypeInv, TypeOK, RowMap
  <2>5. tabs' = tabs
    <3>1. tabs' = [tabs EXCEPT !["output"][outHook] = tabs["output"][outHook]]
      BY <1>0, <1>6, <2>1 DEF OutWrite, WriteTable
    <3> QED
      BY <2>1, <3>1 DEF TypeInv, TypeOK, RowMap
  <2> QED
    BY <1>6, <2>4, <2>5 DEF OutWrite, WriteTable, OutSame, mainVars
<1>7. CASE OutRaise
  <2>1. tabs["output"] = NoRows
    BY <1>0 DEF TypeInv, TypeOK, RowMap, NoRows, Writers
  <2>2. tabs' = tabs
    BY <1>7, <2>1 DEF OutRaise, TypeInv, TypeOK
  <2> QED
    BY <1>7, <2>2 DEF OutRaise, OutSame, mainVars
<1>8. CASE Main
  BY <1>8 DEF Main, StartPoll, StartOutput, RunBenchmark, RunRaises, GetCode,
     JoinPoll, CloseHook, MainAcquire, MainData, MainClear, MainWrite, MainRaise,
     MainRelease, MainReturn, MainStep, rowVars
<1>9. CASE UNCHANGED vars
  BY <1>9 DEF vars, rowVars, mainVars
<1> QED
  BY <1>1, <1>2, <1>3, <1>4, <1>5, <1>6, <1>7, <1>8, <1>9 DEF Next, Finished, Output

(* No thread changes a file or a list once the "end" files are complete,   *)
(* although the output thread goes on popping and writing.                 *)
THEOREM FrozenCorrect == Spec => FrozenAfterEnd
<1>1. RunInv /\ [Next]_vars =>
        [(mainPc \in {"post", "done"}) => UNCHANGED <<files, list>>]_vars
  BY AfterEnd
<1> QED
  BY RunCorrect, <1>1, PTL DEF Spec, FrozenAfterEnd

-----------------------------------------------------------------------------
(* The run implements CollectionLog.                                       *)

Entries == Hooks \X Rows

(* The rows of hook h that are neither filed nor lost. *)
Held(h) == ring[h] \cup list[h] \cup tabs["main"][h] \cup tabs["output"][h]

(* What LogStatus says of row r of hook h. *)
RowState(h, r) == CASE r \in Filed(h) -> "stored"
                    [] r \notin captured[h] -> "absent"
                    [] r \in Held(h) -> "captured"
                    [] OTHER -> "lost"

(* The mapped status of a row, as the state says it.                       *)
LEMMA LogStatusIs ==
  /\ LogStatus = [k \in Entries |-> RowState(k[1], k[2])]
  /\ LogStatus' = [k \in Entries |-> RowState(k[1], k[2])']
  BY DEF LogStatus, RowState, Held, Entries

(* Every captured row is either held or, if it is in no file, lost; a held *)
(* one is in no file.                                                      *)
LEMMA HeldRows ==
  ASSUME PlacementInv, NEW h \in Hooks
  PROVE  /\ Held(h) \subseteq captured[h]
         /\ Filed(h) \subseteq captured[h]
         /\ Filed(h) \cap Held(h) = {}
  BY DEF PlacementInv, RowPlacement, BufferPlaced, TablePlaced, FilePlaced, Held,
     Filed, Writers

(* The same after a step. *)
LEMMA HeldRowsNext ==
  ASSUME PlacementInv', NEW h \in Hooks
  PROVE  /\ Held(h)' \subseteq captured'[h]
         /\ Filed(h)' \subseteq captured'[h]
         /\ Filed(h)' \cap Held(h)' = {}
  BY DEF PlacementInv, RowPlacement, BufferPlaced, TablePlaced, FilePlaced, Held,
     Filed, Writers

(* A step that moves the rows of the set S from one state of the log to    *)
(* another is a Move of the log.                                           *)
LEMMA RowsMove ==
  ASSUME NEW S \in SUBSET Entries, NEW from, NEW to,
         mainPc \notin {"post", "done"}, mainPc' \notin {"post", "done"},
         \A k \in S : RowState(k[1], k[2]) = from,
         \A k \in Entries : RowState(k[1], k[2])' =
                              IF k \in S THEN to ELSE RowState(k[1], k[2])
  PROVE  Log!Move(S, from, to)
<1>1. Log!Entries = Entries
  BY DEF Log!Entries, Entries
<1>2. \A k \in S : LogStatus[k] = from
  BY LogStatusIs
<1>3. LogStatus' = [k \in Entries |-> IF k \in S THEN to ELSE LogStatus[k]]
  BY LogStatusIs
<1> QED
  BY <1>1, <1>2, <1>3 DEF Log!Move

(* A step that files nothing and only drops rows loses them. *)
LEMMA RowsDropped ==
  ASSUME PlacementInv, UNCHANGED <<captured, files>>,
         mainPc \notin {"post", "done"}, mainPc' \notin {"post", "done"},
         \A h \in Hooks : Held(h)' \subseteq Held(h)
  PROVE  Log!Lose
<1> DEFINE S == {k \in Entries : /\ k[2] \in Held(k[1]) \ Held(k[1])'
                                 /\ k[2] \notin Filed(k[1])}
<1>1. ASSUME NEW k \in S PROVE RowState(k[1], k[2]) = "captured"
  <2>1. k[1] \in Hooks
    BY DEF Entries
  <2> QED
    BY <2>1, HeldRows DEF RowState
<1>2. ASSUME NEW k \in Entries
      PROVE  RowState(k[1], k[2])' = IF k \in S THEN "lost"
                                     ELSE RowState(k[1], k[2])
  <2>1. k[1] \in Hooks
    BY DEF Entries
  <2>2. Filed(k[1])' = Filed(k[1]) /\ captured'[k[1]] = captured[k[1]]
    BY DEF Filed
  <2>3. /\ Held(k[1]) \subseteq captured[k[1]] /\ Held(k[1])' \subseteq Held(k[1])
        /\ Filed(k[1]) \subseteq captured[k[1]] /\ Filed(k[1]) \cap Held(k[1]) = {}
    BY <2>1, HeldRows
  <2>4. CASE k \in S
    BY <2>2, <2>3, <2>4 DEF RowState
  <2>5. CASE k \notin S
    <3>1. CASE k[2] \in Filed(k[1])
      BY <2>2, <2>3, <2>5, <3>1 DEF RowState
    <3>2. CASE k[2] \notin Filed(k[1])
      <4>1. k[2] \in Held(k[1])' <=> k[2] \in Held(k[1])
        BY <2>3, <2>5, <3>2
      <4> QED
        BY <2>2, <2>5, <3>2, <4>1 DEF RowState
    <3> QED
      BY <3>1, <3>2
  <2> QED
    BY <2>4, <2>5
<1>3. Log!Move(S, "captured", "lost")
  <2> HIDE DEF S
  <2>1. S \in SUBSET Entries
    BY DEF S
  <2> QED
    BY <1>1, <1>2, <2>1, RowsMove
<1>4. S \in SUBSET Log!Entries
  BY DEF Log!Entries, Entries
<1> QED
  BY <1>3, <1>4 DEF Log!Lose

(* A step that moves rows only between the places of a captured row, and   *)
(* neither closes nor reopens the log, is a stuttering step of it.         *)
LEMMA RowsStay ==
  ASSUME UNCHANGED <<captured, files>>, \A h \in Hooks : Held(h)' = Held(h),
         mainPc \in {"post", "done"} <=> mainPc' \in {"post", "done"}
  PROVE  UNCHANGED <<LogStatus, mainPc \notin {"post", "done"}>>
<1>1. ASSUME NEW k \in Entries PROVE RowState(k[1], k[2])' = RowState(k[1], k[2])
  <2>1. k[1] \in Hooks /\ Filed(k[1])' = Filed(k[1])
    BY DEF Entries, Filed
  <2> QED
    BY <2>1 DEF RowState
<1>2. LogStatus' = LogStatus
  BY <1>1, LogStatusIs
<1> QED
  BY <1>2

(* The kernel submits a row: Capture. *)
LEMMA EmitCaptures ==
  ASSUME RunInv, PlacementInv', NEW h \in Hooks, NEW r \in Rows, Emit(h, r)
  PROVE  Log!Capture
<1> DEFINE e == <<h, r>>
<1>1. /\ captured' = [captured EXCEPT ![h] = @ \cup {r}]
      /\ ring' = [ring EXCEPT ![h] = @ \cup {r}]
      /\ r \notin captured[h] /\ Loaded(h)
      /\ UNCHANGED <<list, tabs, files, mainPc>>
  BY DEF Emit, mainVars
<1>2. \A g \in Hooks :
        /\ captured'[g] = IF g = h THEN captured[g] \cup {r} ELSE captured[g]
        /\ ring'[g] = IF g = h THEN ring[g] \cup {r} ELSE ring[g]
  BY <1>1 DEF RunInv, TypeInv, TypeOK, RowMap
<1>3. \A g \in Hooks :
        /\ Filed(g)' = Filed(g)
        /\ Held(g)' = IF g = h THEN Held(g) \cup {r} ELSE Held(g)
  BY <1>1, <1>2 DEF Filed, Held
<1>4. \A g \in Hooks : /\ Held(g) \subseteq captured[g] /\ Filed(g) \subseteq captured[g]
                       /\ Filed(g) \cap Held(g) = {}
  BY HeldRows DEF RunInv
<1>5. \A g \in Hooks : Filed(g)' \cap Held(g)' = {}
  BY HeldRowsNext
<1>6. \A k \in {e} : RowState(k[1], k[2]) = "absent"
  BY <1>1, <1>4 DEF RowState
<1>7. ASSUME NEW k \in Entries
      PROVE  RowState(k[1], k[2])' = IF k \in {e} THEN "captured"
                                     ELSE RowState(k[1], k[2])
  <2>1. k[1] \in Hooks /\ k = <<k[1], k[2]>>
    BY DEF Entries
  <2>2. CASE k = e
    <3>1. /\ k[1] = h /\ k[2] = r
      BY <2>2
    <3>2. r \in captured'[h] /\ r \in Held(h)' /\ r \notin Filed(h)'
      BY <1>2, <1>3, <1>5
    <3> QED
      BY <2>2, <3>1, <3>2 DEF RowState
  <2>3. CASE k # e
    <3>1. /\ Filed(k[1])' = Filed(k[1])
          /\ k[2] \in captured'[k[1]] <=> k[2] \in captured[k[1]]
          /\ k[2] \in Held(k[1])' <=> k[2] \in Held(k[1])
      <4>1. k[1] # h \/ k[2] # r
        BY <2>1, <2>3
      <4>2. /\ Filed(k[1])' = Filed(k[1])
            /\ captured'[k[1]] = IF k[1] = h THEN captured[k[1]] \cup {r}
                                             ELSE captured[k[1]]
            /\ Held(k[1])' = IF k[1] = h THEN Held(k[1]) \cup {r} ELSE Held(k[1])
        BY <1>2, <1>3, <2>1
      <4> QED
        BY <4>1, <4>2
    <3> QED
      BY <2>3, <3>1 DEF RowState
  <2> QED
    BY <2>2, <2>3
<1>8. mainPc \notin {"post", "done"} /\ mainPc' \notin {"post", "done"}
  BY <1>1 DEF Loaded
<1>9. {e} \in SUBSET Entries /\ Log!Entries = Entries
  BY DEF Entries, Log!Entries
<1> HIDE DEF e
<1>10. Log!Move({e}, "absent", "captured")
  BY <1>6, <1>7, <1>8, <1>9, RowsMove
<1> QED
  BY <1>9, <1>10 DEF Log!Capture

(* A writer writes a table to a file that did not have it: Store. *)
LEMMA WriteStores ==
  ASSUME RunInv, PlacementInv', NEW w \in Writers, NEW h \in Hooks,
         NEW s \in Suffixes, WriteTable(w, h, s), files[s][h] = {},
         mainPc \notin {"post", "done"}, mainPc' \notin {"post", "done"}
  PROVE  Log!Store
<1> DEFINE S == {k \in Entries : k[1] = h /\ k[2] \in tabs[w][h]}
<1>1. /\ \A v \in Writers, g \in Hooks :
           tabs'[v][g] = IF v = w /\ g = h THEN {} ELSE tabs[v][g]
      /\ \A t \in Suffixes, g \in Hooks :
           files'[t][g] = IF t = s /\ g = h THEN tabs[w][g] ELSE files[t][g]
      /\ UNCHANGED <<captured, ring, list>>
  <2>1. UNCHANGED <<captured, ring, list>>
    BY DEF WriteTable
  <2>2. TypeOK
    BY DEF RunInv, TypeInv
  <2> QED
    BY <2>1, <2>2, WriteTableEffect
<1>2. \A g \in Hooks : Filed(g)' = IF g = h THEN Filed(g) \cup tabs[w][g]
                                           ELSE Filed(g)
  BY <1>1 DEF Filed
<1>3. \A g \in Hooks : /\ Held(g)' \subseteq Held(g)
                       /\ g # h => Held(g) \subseteq Held(g)'
                       /\ Held(h) \subseteq Held(h)' \cup tabs[w][h]
                       /\ tabs[w][h] \subseteq Held(h)
  BY <1>1 DEF Held, Writers
<1>4. \A g \in Hooks : /\ Held(g) \subseteq captured[g] /\ Filed(g) \subseteq captured[g]
                       /\ Filed(g) \cap Held(g) = {}
  BY HeldRows DEF RunInv
<1>5. \A g \in Hooks : /\ Held(g)' \subseteq captured'[g] /\ Filed(g)' \subseteq captured'[g]
                       /\ Filed(g)' \cap Held(g)' = {}
  BY HeldRowsNext
<1>6. ASSUME NEW k \in S PROVE RowState(k[1], k[2]) = "captured"
  <2>1. k[1] = h /\ k[2] \in Held(h)
    BY <1>3
  <2> QED
    BY <1>4, <2>1 DEF RowState
<1>7. ASSUME NEW k \in Entries
      PROVE  RowState(k[1], k[2])' = IF k \in S THEN "stored"
                                     ELSE RowState(k[1], k[2])
  <2>1. k[1] \in Hooks
    BY DEF Entries
  <2>2. CASE k \in S
    <3>1. k[2] \in Filed(k[1])'
      BY <1>2, <2>2
    <3>2. k[2] \in captured'[k[1]] /\ k[2] \notin Held(k[1])'
      BY <1>5, <2>1, <3>1
    <3> QED
      BY <2>2, <3>1, <3>2 DEF RowState
  <2>3. CASE k \notin S
    <3>1. k[1] = h => k[2] \notin tabs[w][h]
      BY <2>3
    <3>2. /\ k[2] \in Filed(k[1])' <=> k[2] \in Filed(k[1])
          /\ k[2] \in captured'[k[1]] <=> k[2] \in captured[k[1]]
          /\ k[2] \in Held(k[1])' <=> k[2] \in Held(k[1])
      BY <1>1, <1>2, <1>3, <2>1, <3>1
    <3> QED
      BY <2>3, <3>2 DEF RowState
  <2> QED
    BY <2>2, <2>3
<1>8. S \in SUBSET Entries /\ Log!Entries = Entries
  BY DEF Entries, Log!Entries
<1> HIDE DEF S
<1>9. Log!Move(S, "captured", "stored")
  BY <1>6, <1>7, <1>8, RowsMove
<1> QED
  BY <1>8, <1>9 DEF Log!Store

(* main releases the lock after the last "end" file: Close. *)
LEMMA ReleaseCloses ==
  ASSUME RunInv, MainRelease
  PROVE  Log!Close
<1>1. mainPc = "release" /\ mainPc' = "post" /\ UNCHANGED rowVars
  BY DEF MainRelease, MainStep
<1>2. ASSUME NEW h \in Hooks PROVE Held(h) = {}
  <2>1. ring[h] = {} /\ list[h] = {}
    BY <1>1 DEF RunInv, ClosedInv, Closed, Loaded, Cleared
  <2>2. \A w \in Writers : tabs[w][h] = {}
    BY <1>1 DEF RunInv, PlacementInv, LockHeld, TablesPopped, OutHolds, MainHolds, Writers
  <2> QED
    BY <2>1, <2>2 DEF Held, Writers
<1>3. ASSUME NEW k \in Entries PROVE LogStatus[k] # "captured"
  <2>1. k[1] \in Hooks
    BY DEF Entries
  <2>2. k[2] \notin Held(k[1])
    BY <1>2, <2>1
  <2>3. Filed(k[1]) \subseteq captured[k[1]]
    BY <2>1, HeldRows DEF RunInv
  <2>4. RowState(k[1], k[2]) # "captured"
    BY <2>2, <2>3 DEF RowState
  <2> QED
    BY <2>4, LogStatusIs
<1>4. LogStatus' = LogStatus
  BY <1>1 DEF LogStatus, Filed, rowVars
<1> QED
  BY <1>1, <1>3, <1>4 DEF Log!Close, Log!Entries, Entries

(* Every step of a run is a step of the log or leaves it as it is. *)
LEMMA NextLog ==
  RunInv /\ [Next]_vars => [Log!LogNext]_(Log!logVars)
<1> SUFFICES ASSUME RunInv, [Next]_vars PROVE [Log!LogNext]_(Log!logVars)
  OBVIOUS
<1> DEFINE Still == /\ UNCHANGED <<captured, files>>
                    /\ \A h \in Hooks : Held(h)' = Held(h)
                    /\ mainPc \in {"post", "done"} <=> mainPc' \in {"post", "done"}
           Drops == /\ UNCHANGED <<captured, files>>
                    /\ \A h \in Hooks : Held(h)' \subseteq Held(h)
                    /\ mainPc' \notin {"post", "done"}
           Goal  == [Log!LogNext]_(Log!logVars)
<1>0. RunInv'
  BY NextRun
<1>1. ASSUME Still PROVE Goal
  BY <1>1, RowsStay DEF Log!logVars
<1>2. ASSUME Drops, mainPc \notin {"post", "done"} PROVE Goal
  BY <1>2, RowsDropped DEF Log!LogNext, RunInv
<1>3. CASE mainPc \in {"post", "done"}
  <2>1. Still
    BY <1>3, AfterEnd DEF Held
  <2> QED
    BY <1>1, <2>1
<1>4. CASE UNCHANGED rowVars /\ (mainPc \in {"post", "done"} <=> mainPc' \in {"post", "done"})
  BY <1>1, <1>4 DEF rowVars, Held
<1>5. CASE mainPc \notin {"post", "done"} /\ Next
  <2>1. CASE Environment \/ ProcExit
    <3>1. ASSUME NEW h \in Hooks, NEW r \in Rows, Emit(h, r) PROVE Goal
      BY <1>0, <3>1, EmitCaptures DEF Log!LogNext, RunInv
    <3>2. CASE Stop \/ ProcExit
      BY <1>4, <3>2 DEF Stop, ProcExit, mainVars
    <3> QED
      BY <2>1, <3>1, <3>2 DEF Environment
  <2>2. CASE Poll
    <3>1. ASSUME NEW r \in Rows, PollCallback(r) PROVE Goal
      <4>1. /\ \A h \in Hooks :
                  /\ ring'[h] = IF h = pollHook THEN ring[h] \ {r} ELSE ring[h]
                  /\ list'[h] = IF h = pollHook THEN list[h] \cup {r} ELSE list[h]
            /\ r \in ring[pollHook]
            /\ UNCHANGED <<captured, tabs, files, mainPc>>
        BY <3>1 DEF PollCallback, RunInv, TypeInv, TypeOK, RowMap, mainVars
      <4>2. \A h \in Hooks : ring'[h] \cup list'[h] = ring[h] \cup list[h]
        BY <4>1
      <4>3. \A h \in Hooks : Held(h)' = Held(h)
        BY <4>1, <4>2 DEF Held
      <4> QED
        BY <1>1, <4>1, <4>3
    <3>2. CASE PollLoop \/ PollReturn \/ PollRaise \/ PollBench \/ PollExit \/ PollPut
      BY <1>4, <3>2 DEF PollLoop, PollReturn, PollRaise, PollBench, PollExit, PollPut,
         mainVars
    <3> QED
      BY <2>2, <3>1, <3>2 DEF Poll
  <2>3. CASE Output
    <3>1. mainPc' = mainPc
      BY <2>3 DEF Output, OutWake, OutAcquire, OutData, OutClear, OutWrite, OutRaise,
         OutRelease, OutSame, mainVars
    <3>2. CASE OutWake \/ OutAcquire \/ OutRelease
      BY <1>4, <3>1, <3>2 DEF OutWake, OutAcquire, OutRelease
    <3>3. CASE OutData
      <4>1. \A w \in Writers, h \in Hooks :
              tabs'[w][h] = IF w = "output" /\ h = outHook THEN list[h] ELSE tabs[w][h]
        BY <3>3, SnapshotEffect DEF OutData, Writers, RunInv, TypeInv, TypeOK
      <4>2. UNCHANGED <<captured, ring, list, files>>
        BY <3>3 DEF OutData, Snapshot
      <4>3. \A h \in Hooks : Held(h)' \subseteq Held(h)
        BY <4>1, <4>2 DEF Held, Writers
      <4> QED
        BY <1>2, <1>5, <3>1, <4>2, <4>3
    <3>4. CASE OutClear
      <4>1. \A h \in Hooks : list'[h] \subseteq list[h]
        BY <3>4, ClearListEffect DEF OutClear, RunInv, TypeInv, TypeOK
      <4>2. UNCHANGED <<captured, ring, tabs, files>>
        BY <3>4 DEF OutClear, ClearList
      <4>3. \A h \in Hooks : Held(h)' \subseteq Held(h)
        BY <4>1, <4>2 DEF Held
      <4> QED
        BY <1>2, <1>5, <3>1, <4>2, <4>3
    <3>5. CASE OutWrite
      <4>1. /\ outHook \in Hooks /\ num \in 0..MaxRounds /\ num \in Suffixes
            /\ "output" \in Writers
        BY DEF RunInv, TypeInv, TypeOK, Suffixes, Writers
      <4>2. files[num][outHook] = {}
        <5>1. ~Numbered(num, outHook)
          BY <3>5, <4>1 DEF OutWrite, Numbered
        <5> QED
          BY <4>1, <5>1 DEF RunInv, ClosedInv
      <4>3. WriteTable("output", outHook, num)
        BY <3>5 DEF OutWrite
      <4>4. Log!Store
        BY <1>0, <1>5, <3>1, <4>1, <4>2, <4>3, WriteStores DEF RunInv
      <4> QED
        BY <4>4 DEF Log!LogNext
    <3>6. CASE OutRaise
      <4>1. \A w \in Writers, h \in Hooks : tabs'[w][h] \subseteq tabs[w][h]
        BY <3>6 DEF OutRaise, NoRows, Writers, RunInv, TypeInv, TypeOK
      <4>2. UNCHANGED <<captured, ring, list, files>>
        BY <3>6 DEF OutRaise
      <4>3. \A h \in Hooks : Held(h)' \subseteq Held(h)
        BY <4>1, <4>2 DEF Held, Writers
      <4> QED
        BY <1>2, <1>5, <3>1, <4>2, <4>3
    <3> QED
      BY <2>3, <3>2, <3>3, <3>4, <3>5, <3>6 DEF Output
  <2>4. CASE Main
    <3>1. CASE StartPoll \/ StartOutput \/ RunBenchmark \/ RunRaises \/ GetCode
               \/ JoinPoll \/ MainAcquire \/ MainRaise \/ MainReturn
      BY <1>4, <1>5, <3>1 DEF StartPoll, StartOutput, RunBenchmark, RunRaises, GetCode,
         JoinPoll, MainAcquire, MainRaise, MainReturn, MainStep
    <3>2. CASE CloseHook
      <4>1. /\ UNCHANGED <<captured, list, tabs, files>>
            /\ \A h \in Hooks : ring'[h] \subseteq ring[h]
            /\ mainPc' \in {"close", "lock"}
        BY <3>2 DEF CloseHook, RunInv, TypeInv, TypeOK, RowMap
      <4>2. \A h \in Hooks : Held(h)' \subseteq Held(h)
        BY <4>1 DEF Held
      <4> QED
        BY <1>2, <1>5, <4>1, <4>2
    <3>3. CASE MainData
      <4>1. \A w \in Writers, h \in Hooks :
              tabs'[w][h] = IF w = "main" /\ h = mainHook THEN list[h] ELSE tabs[w][h]
        BY <3>3, SnapshotEffect DEF MainData, Writers, RunInv, TypeInv, TypeOK
      <4>2. UNCHANGED <<captured, ring, list, files>> /\ mainPc' = "clear"
        BY <3>3 DEF MainData, MainStep, Snapshot
      <4>3. \A h \in Hooks : Held(h)' \subseteq Held(h)
        BY <4>1, <4>2 DEF Held, Writers
      <4> QED
        BY <1>2, <1>5, <4>2, <4>3
    <3>4. CASE MainClear
      <4>1. \A h \in Hooks : list'[h] \subseteq list[h]
        BY <3>4, ClearListEffect DEF MainClear, RunInv, TypeInv, TypeOK
      <4>2. UNCHANGED <<captured, ring, tabs, files>> /\ mainPc' \in {"data", "write"}
        BY <3>4 DEF MainClear, ClearList
      <4>3. \A h \in Hooks : Held(h)' \subseteq Held(h)
        BY <4>1, <4>2 DEF Held
      <4> QED
        BY <1>2, <1>5, <4>2, <4>3
    <3>5. CASE MainWrite
      <4>1. mainHook \in Hooks /\ End \in Suffixes /\ "main" \in Writers
        BY DEF RunInv, TypeInv, TypeOK, Suffixes, Writers
      <4>2. files[End][mainHook] = {}
        <5>1. ~Ended(mainHook)
          BY <3>5, <4>1 DEF MainWrite, Ended
        <5> QED
          BY <4>1, <5>1 DEF RunInv, ClosedInv
      <4>3. WriteTable("main", mainHook, End) /\ mainPc' \in {"write", "release"}
        BY <3>5 DEF MainWrite
      <4>4. Log!Store
        BY <1>0, <1>5, <4>1, <4>2, <4>3, WriteStores DEF RunInv
      <4> QED
        BY <4>4 DEF Log!LogNext
    <3>6. CASE MainRelease
      BY <3>6, ReleaseCloses DEF Log!LogNext
    <3> QED
      BY <2>4, <3>1, <3>2, <3>3, <3>4, <3>5, <3>6 DEF Main
  <2>5. CASE Finished
    BY <1>4, <2>5 DEF Finished, vars, mainVars
  <2> QED
    BY <1>5, <2>1, <2>2, <2>3, <2>4, <2>5 DEF Next
<1>6. CASE UNCHANGED vars
  BY <1>4, <1>6 DEF vars, mainVars
<1> QED
  BY <1>3, <1>5, <1>6

(* A run begins with an empty log.                                         *)
LEMMA InitLog == Init => Log!LogInit
<1> SUFFICES ASSUME Init PROVE Log!LogInit
  OBVIOUS
<1>1. \A h \in Hooks : Filed(h) = {} /\ captured[h] = {}
  BY DEF Init, Filed, NoRows
<1>2. ASSUME NEW k \in Entries PROVE RowState(k[1], k[2]) = "absent"
  <2>1. k[1] \in Hooks
    BY DEF Entries
  <2>2. Held(k[1]) = {}
    BY <2>1 DEF Init, Held, NoRows, Writers
  <2> QED
    BY <1>1, <2>1, <2>2 DEF RowState
<1>3. LogStatus = [k \in Entries |-> "absent"]
  BY <1>2, LogStatusIs
<1> QED
  BY <1>3 DEF Log!LogInit, Log!Entries, Entries, Init

(* A collection run implements CollectionLog: each row of a hook is filed  *)
(* at most once, what is filed or lost stays so, and main ends with no row *)
(* undecided, whatever fails and however the threads interleave.           *)
THEOREM LogCorrect == Spec => ImplementsLog
  BY InitLog, NextLog, RunCorrect, PTL DEF Spec, ImplementsLog, Log!LogSpec

-----------------------------------------------------------------------------
(* A run shorter than output_interval loses nothing.                       *)

(* No numbered round has popped anything. *)
Quiet == num = 0 /\ outPc \in {"unstarted", "sleep", "lock", "stopped"}

Drained == {"drain", "put", "done"}

(* Whether the final poll of hook h has returned. *)
PolledLast(h) == \/ pollPc = "drain" /\ h < pollHook
                 \/ pollPc \in {"put", "done"}

(* Until then the rows submitted before the final drain stay in the hands  *)
(* of the kernel, the poll thread and main, and those that the final poll  *)
(* of a hook has to deliver are in its batch. *)
DueInv ==
    ~HookFails =>
        \A h \in Hooks :
            /\ due[h] \subseteq captured[h]
            /\ Quiet /\ pollPc \notin Drained =>
                   captured[h] \subseteq ring[h] \cup list[h]
            /\ Quiet /\ pollPc \in Drained =>
                   due[h] \subseteq ring[h] \cup list[h] \cup tabs["main"][h]
                                    \cup files[End][h]
            /\ PolledLast(h) => due[h] \cap ring[h] = {}
            /\ pollPc = "drain" /\ h = pollHook => due[h] \cap ring[h] \subseteq batch
            /\ mainPc = "data" /\ h >= mainHook => tabs["main"][h] = {}
            /\ mainPc = "clear" /\ h > mainHook => tabs["main"][h] = {}

(* No row is due yet.                                                      *)
LEMMA InitDue == Init => DueInv
  BY DEF Init, DueInv, NoRows, Drained, PolledLast

(* A step that moves no row and is not one of the final drain or of a pop  *)
(* keeps DueInv. *)
LEMMA SameDue ==
  ASSUME DueInv, UNCHANGED rowVars, UNCHANGED <<pollPc, pollHook, batch, due>>,
         Quiet' => Quiet,
         \/ UNCHANGED <<mainPc, mainHook>>
         \/ mainPc' \notin {"data", "clear"}
  PROVE  DueInv'
  BY DEF DueInv, PolledLast, rowVars

(* An event during the run is due, and waits in its ring buffer.           *)
LEMMA EnvironmentDue ==
  ASSUME TypeInv, DueInv, Environment \/ ProcExit
  PROVE  DueInv'
<1> USE DEF outVars, mainVars, pollVars
<1>1. ASSUME NEW g \in Hooks, NEW r \in Rows, Emit(g, r) PROVE DueInv'
  <2>1. /\ r \notin captured[g]
        /\ \A h \in Hooks :
             /\ captured'[h] = IF h = g THEN captured[h] \cup {r} ELSE captured[h]
             /\ ring'[h] = IF h = g THEN ring[h] \cup {r} ELSE ring[h]
        /\ UNCHANGED <<list, tabs, files, mainVars, pollVars, outVars>>
    BY <1>1 DEF Emit, TypeInv, TypeOK, RowMap
  <2>2. ASSUME ~HookFails, NEW h \in Hooks
        PROVE  /\ due[h] \subseteq captured'[h]
               /\ due[h] \cap ring'[h] = due[h] \cap ring[h]
               /\ ring[h] \subseteq ring'[h]
               /\ captured[h] \subseteq ring[h] \cup list[h]
                    => captured'[h] \subseteq ring'[h] \cup list[h]
    BY <2>1, <2>2 DEF DueInv
  <2> QED
    BY <2>1, <2>2 DEF DueInv, PolledLast, Quiet
<1>2. CASE Stop
  BY <1>2, SameDue DEF Stop, Quiet
<1>3. CASE ProcExit
  BY <1>3, SameDue DEF ProcExit, Quiet
<1> QED
  BY <1>1, <1>2, <1>3 DEF Environment

(* The final drain moves the rows that are due from buffer to list, hook   *)
(* after hook.                                                             *)
LEMMA PollDue ==
  ASSUME TypeInv, DueInv, Poll
  PROVE  DueInv'
<1> USE DEF outVars, mainVars
<1>1. ASSUME NEW r \in Rows, PollCallback(r) PROVE DueInv'
  <2>1. /\ \A h \in Hooks :
             /\ ring'[h] = IF h = pollHook THEN ring[h] \ {r} ELSE ring[h]
             /\ list'[h] = IF h = pollHook THEN list[h] \cup {r} ELSE list[h]
        /\ UNCHANGED <<captured, tabs, files, mainVars, pollVars, outVars>>
    BY <1>1 DEF PollCallback, TypeInv, TypeOK, RowMap
  <2>2. \A h \in Hooks : /\ ring'[h] \subseteq ring[h]
                         /\ ring[h] \cup list[h] \subseteq ring'[h] \cup list'[h]
    BY <2>1
  <2> QED
    BY <2>1, <2>2 DEF DueInv, PolledLast, Quiet, pollVars
<1>2. CASE PollLoop \/ PollBench
  BY <1>2 DEF PollLoop, PollBench, PollEnter, DueInv, PolledLast, Quiet, Drained, rowVars
<1>3. CASE PollReturn /\ pollPc = "hooks"
  BY <1>3 DEF PollReturn, PollNextHook, PollEnter, DueInv, PolledLast, Quiet, Drained,
     rowVars
<1>4. CASE PollReturn /\ pollPc = "drain"
  <2>1. /\ batch \cap ring[pollHook] = {} /\ pollHook \in Hooks
        /\ UNCHANGED <<due, rowVars, mainVars, outVars>>
    BY <1>4 DEF PollReturn, TypeInv, TypeOK
  <2>2. \/ /\ pollPc' = "drain" /\ pollHook' = pollHook + 1 /\ batch' = ring[pollHook']
        \/ pollPc' = "put" /\ pollHook = NHooks
    BY <1>4, <2>1 DEF PollReturn, PollNextHook, PollEnter
  <2>3. ~HookFails => \A h \in Hooks : h <= pollHook => due[h] \cap ring[h] = {}
    BY <1>4, <2>1 DEF DueInv, PolledLast
  <2> QED
    BY <1>4, <2>1, <2>2, <2>3 DEF DueInv, PolledLast, Quiet, Drained, rowVars
<1>5. CASE PollRaise
  BY <1>5 DEF PollRaise, DueInv
<1>6. CASE PollExit
  <2>1. UNCHANGED <<rowVars, mainVars, outVars>> /\ pollPc = "exit"
    BY <1>6 DEF PollExit
  <2>2. CASE pollPc' = "crashed" /\ UNCHANGED due
    BY <2>1, <2>2 DEF DueInv, PolledLast, Quiet, Drained, rowVars
  <2>3. CASE pollPc' = "drain" /\ pollHook' = 1 /\ batch' = ring[1] /\ due' = captured
    BY <2>1, <2>3 DEF DueInv, PolledLast, Quiet, Drained, rowVars
  <2>4. \/ pollPc' = "crashed" /\ UNCHANGED due
        \/ /\ pollPc' = "drain" /\ pollHook' = 1 /\ batch' = ring[1]
           /\ due' = captured
    BY <1>6 DEF PollExit, PollEnter, PollGoto
  <2> QED
    BY <2>2, <2>3, <2>4
<1>7. CASE PollPut
  BY <1>7 DEF PollPut, DueInv, PolledLast, Quiet, Drained, rowVars
<1> QED
  BY <1>1, <1>2, <1>3, <1>4, <1>5, <1>6, <1>7 DEF Poll, PollReturn

(* A run in which the output thread has begun a round is not a short one.  *)
LEMMA OutputDue ==
  ASSUME TypeInv, PlacementInv, DueInv, Output
  PROVE  DueInv'
<1> USE DEF mainVars, pollVars
<1>1. CASE OutWake
  BY <1>1, SameDue DEF OutWake, OutSame, Quiet
<1>2. CASE ~OutWake
  <2>1. UNCHANGED <<captured, ring, due, pollPc, pollHook, batch, mainPc, mainHook>>
    BY <1>2 DEF Output, OutAcquire, OutData, OutClear, OutWrite, OutRaise, OutRelease,
       OutSame, rowVars, Snapshot, ClearList, WriteTable
  <2>2. ~Quiet'
    BY <1>2 DEF Output, OutAcquire, OutData, OutClear, OutWrite, OutRaise, OutRelease,
       OutStep, Quiet, TypeInv, TypeOK
  <2>3. tabs'["main"] = tabs["main"]
    BY <1>2 DEF Output, OutAcquire, OutData, OutClear, OutWrite, OutRaise, OutRelease,
       rowVars, Snapshot, ClearList, WriteTable, TypeInv, TypeOK, Writers
  <2> QED
    BY <2>1, <2>2, <2>3 DEF DueInv, PolledLast
<1> QED
  BY <1>1, <1>2

(* The main thread moves them from list to table to end file.              *)
LEMMA MainDue ==
  ASSUME RunInv, DueInv, Main
  PROVE  DueInv'
<1> USE DEF outVars, pollVars
<1>0. mainPc \in Ending => pollPc = "done"
  BY DEF RunInv, ThreadInv, CodeOrder
<1>1. CASE StartPoll
  BY <1>1 DEF StartPoll, MainStep, DueInv, PolledLast, Quiet, Drained, rowVars, RunInv,
     ThreadInv, CodeOrder
<1>2. CASE StartOutput
  <2>1. Quiet' => Quiet
    BY <1>2 DEF StartOutput, MainStep, Quiet, RunInv, PlacementInv, LockHeld
  <2> QED
    BY <1>2, <2>1, SameDue DEF StartOutput, MainStep
<1>3. CASE RunBenchmark \/ RunRaises \/ GetCode \/ JoinPoll
  BY <1>3, SameDue DEF RunBenchmark, RunRaises, GetCode, JoinPoll, MainStep, MainSame,
     Quiet
<1>4. CASE MainRaise \/ MainRelease \/ MainReturn
  BY <1>4, SameDue DEF MainRaise, MainRelease, MainReturn, MainStep, MainSame, Quiet
<1>5. CASE CloseHook
  <2>1. /\ mainPc' \notin {"data", "clear"} /\ pollPc = "done"
        /\ UNCHANGED <<captured, list, tabs, files, due, pollPc, pollHook, batch>>
        /\ Quiet' => Quiet
        /\ \A h \in Hooks : ring'[h] \subseteq ring[h]
    BY <1>0, <1>5 DEF CloseHook, MainSame, Quiet, Ending, RunInv, TypeInv, TypeOK, RowMap
  <2> QED
    BY <2>1 DEF DueInv, PolledLast, Drained
<1>6. CASE MainAcquire
  <2>1. \A h \in Hooks : tabs["main"][h] = {}
    BY <1>6 DEF MainAcquire, MainStep, RunInv, PlacementInv, TablesPopped
  <2> QED
    BY <1>6, <2>1 DEF MainAcquire, MainStep, MainSame, DueInv, PolledLast, Quiet, rowVars
<1>7. CASE MainData
  <2>1. /\ mainPc = "data" /\ mainPc' = "clear" /\ mainHook \in Hooks
        /\ UNCHANGED <<captured, ring, list, files, mainHook, due, pollPc, pollHook, batch>>
        /\ Quiet' => Quiet
    BY <1>7 DEF MainData, MainStep, MainSame, Snapshot, Quiet, RunInv, TypeInv, TypeOK
  <2>2. \A h \in Hooks :
          tabs'["main"][h] = IF h = mainHook THEN list[h] ELSE tabs["main"][h]
    BY <1>7, <2>1, SnapshotEffect DEF MainData, Writers, RunInv, TypeInv
  <2> QED
    BY <2>1, <2>2 DEF DueInv, PolledLast
<1>8. CASE MainClear
  <2>1. /\ mainPc = "clear" /\ mainHook \in Hooks /\ pollPc = "done"
        /\ mainPc' = "data" => mainHook' = mainHook + 1
        /\ mainPc' # "clear"
        /\ UNCHANGED <<captured, ring, tabs, files, due, pollPc, pollHook, batch>>
        /\ Quiet' => Quiet
    BY <1>0, <1>8 DEF MainClear, MainSame, ClearList, Quiet, RunInv, TypeInv, TypeOK, Ending
  <2>2. \A h \in Hooks : list'[h] = IF h = mainHook THEN {} ELSE list[h]
    BY <1>8, <2>1, ClearListEffect DEF MainClear, RunInv, TypeInv
  <2>3. tabs["main"][mainHook] = list[mainHook]
    BY <2>1 DEF RunInv, ClosedInv
  <2> QED
    BY <2>1, <2>2, <2>3 DEF DueInv, PolledLast, Drained
<1>9. CASE MainWrite
  <2>1. /\ mainPc = "write" /\ mainHook \in Hooks /\ End \in Suffixes
        /\ mainPc' \notin {"data", "clear"} /\ pollPc = "done"
        /\ UNCHANGED <<captured, ring, list, due, pollPc, pollHook, batch>>
        /\ Quiet' => Quiet
    BY <1>0, <1>9 DEF MainWrite, MainSame, WriteTable, Quiet, RunInv, TypeInv, TypeOK,
       Ending, Suffixes
  <2>2. \A h \in Hooks :
          /\ tabs'["main"][h] = IF h = mainHook THEN {} ELSE tabs["main"][h]
          /\ files'[End][h] = IF h = mainHook THEN tabs["main"][h] ELSE files[End][h]
    BY <1>9, <2>1, WriteTableEffect DEF MainWrite, Writers, RunInv, TypeInv
  <2>3. files[End][mainHook] = {}
    <3>1. ~Ended(mainHook)
      BY <2>1 DEF Ended
    <3> QED
      BY <2>1, <3>1 DEF RunInv, ClosedInv
  <2> QED
    BY <2>1, <2>2, <2>3 DEF DueInv, PolledLast, Drained
<1> QED
  BY <1>1, <1>2, <1>3, <1>4, <1>5, <1>6, <1>7, <1>8, <1>9 DEF Main

(* Every step keeps the due rows on their way.                             *)
LEMMA NextDue == RunInv /\ DueInv /\ [Next]_vars => DueInv'
<1> SUFFICES ASSUME RunInv, DueInv, [Next]_vars PROVE DueInv'
  OBVIOUS
<1>1. ASSUME UNCHANGED vars PROVE DueInv'
  BY <1>1, SameDue DEF vars, Quiet, mainVars, outVars, pollVars
<1> QED
  BY <1>1, EnvironmentDue, PollDue, OutputDue, MainDue DEF RunInv, Next, Finished

(* Once run_collect has returned without a numbered round, the "end" files *)
(* have every row that was due. *)
LEMMA DueAtEnd == RunInv /\ DueInv => (~HookFails => ShortRunFilesDue)
<1> SUFFICES ASSUME RunInv, DueInv, ~HookFails, num = 0,
                    outPc \in {"sleep", "lock", "stopped"}, mainPc = "done",
                    NEW h \in Hooks
             PROVE  due[h] \subseteq Filed(h)
  BY DEF ShortRunFilesDue, DueRowsFiled
<1>1. ring[h] = {} /\ list[h] = {} /\ tabs["main"][h] = {}
  BY DEF RunInv, ClosedInv, Closed, Loaded, Cleared, Writers
<1>2. due[h] \subseteq ring[h] \cup list[h] \cup tabs["main"][h] \cup files[End][h]
  BY DEF RunInv, ThreadInv, CodeOrder, Ending, DueInv, Quiet, Drained
<1>3. files[End][h] \subseteq Filed(h)
  BY DEF Filed, Suffixes
<1> QED
  BY <1>1, <1>2, <1>3

(* Unless the poll() of a hook raises, a run shorter than output_interval  *)
(* files every row that the kernel had submitted when the poll thread left *)
(* its loop.                                                               *)
THEOREM ShortRunCorrect == Spec => [](~HookFails => ShortRunFilesDue)
<1>1. Init => DueInv
  BY InitDue
<1>2. RunInv /\ DueInv /\ [Next]_vars => DueInv'
  BY NextDue
<1> QED
  BY <1>1, <1>2, DueAtEnd, RunCorrect, PTL DEF Spec
=============================================================================
