---------------------------- MODULE FStoreProofs ----------------------------
(***************************************************************************)
(* Theorems about FStore for every finite set of tasks and every set of    *)
(* names and maps, hash function, table size and set of operations: the    *)
(* counter number_maps agrees with the table and bounds it, whatever the   *)
(* callers interleave; no step releases a reference it does not own; and a *)
(* single caller neither leaks one nor uses freed memory.                  *)
(***************************************************************************)
EXTENDS FStore, FiniteSetTheorems, TLAPS

(* CountMatches and CapacityRespected are inductive together with the      *)
(* types; number is a natural number because it counts something.          *)
FStoreInv == TypeOK /\ CountMatches /\ CapacityRespected

(* Nodes and callers are finitely many.                                    *)
LEMMA FiniteParts ==
  ASSUME TypeOK
  PROVE  /\ IsFiniteSet(live) /\ Cardinality(live) \in Nat
         /\ \A S : IsFiniteSet(At(S)) /\ Cardinality(At(S)) \in Nat
<1>1. IsFiniteSet(Nodes)
  BY BoundsAssumption, FS_Interval DEF Nodes
<1>2. live \in SUBSET Nodes
  BY DEF TypeOK, OtherTypes
<1>3. IsFiniteSet(live)
  BY <1>1, <1>2, FS_Subset
<1>4. ASSUME NEW S PROVE IsFiniteSet(At(S))
  <2>1. At(S) \in SUBSET Tasks
    BY DEF At
  <2> QED
    BY <2>1, FS_Subset, TasksAssumption
<1> QED
  BY <1>3, <1>4, FS_CardinalityType

(* How a step of task t from one program counter to another changes the    *)
(* number of tasks whose program counter is in S.                          *)
LEMMA GotoCount ==
  ASSUME TypeOK, NEW t \in Tasks, NEW from, NEW to, NEW S, Goto(t, from, to)
  PROVE  Cardinality(At(S)') =
           Cardinality(At(S)) + (IF to \in S THEN 1 ELSE 0)
                              - (IF from \in S THEN 1 ELSE 0)
<1>1. /\ At(S)' = IF to \in S THEN At(S) \cup {t} ELSE At(S) \ {t}
      /\ t \in At(S) <=> from \in S
  BY DEF Goto, At, TypeOK, OtherTypes
<1>2. IsFiniteSet(At(S)) /\ Cardinality(At(S)) \in Nat
  BY FiniteParts
<1>3. Cardinality(At(S) \cup {t}) = IF t \in At(S) THEN Cardinality(At(S))
                                                   ELSE Cardinality(At(S)) + 1
  BY <1>2, FS_AddElement
<1>4. Cardinality(At(S) \ {t}) = IF t \in At(S) THEN Cardinality(At(S)) - 1
                                                ELSE Cardinality(At(S))
  BY <1>2, FS_RemoveElement
<1> QED
  BY <1>1, <1>2, <1>3, <1>4

(* Admitted tasks have a reservation. *)
LEMMA AdmittedReserved ==
  TypeOK => Cardinality(At(Admitted)) <= Cardinality(At(Reserved))
<1> SUFFICES ASSUME TypeOK
             PROVE  Cardinality(At(Admitted)) <= Cardinality(At(Reserved))
  OBVIOUS
<1>1. At(Admitted) \in SUBSET At(Reserved)
  BY DEF At, Reserved
<1> QED
  BY <1>1, FiniteParts, FS_Subset

(* Steps that leave the table, the count and the reservations alone. *)
LEMMA QuietStep ==
  ASSUME FStoreInv, UNCHANGED <<number, live>>,
         Cardinality(At(Reserved)') = Cardinality(At(Reserved)),
         Cardinality(At(Admitted)') <= Cardinality(At(Admitted)),
         Cardinality(At(Admitted)') \in Int
  PROVE  CountMatches' /\ CapacityRespected'
  BY FiniteParts, SizeAssumption DEF FStoreInv, CountMatches, CapacityRespected

(* A step of a task within its part of a registration changes no count.    *)
LEMMA QuietGoto ==
  ASSUME FStoreInv, UNCHANGED <<number, live>>,
         NEW t \in Tasks, NEW from, NEW to, Goto(t, from, to),
         from \in Reserved <=> to \in Reserved,
         to \in Admitted => from \in Admitted
  PROVE  CountMatches' /\ CapacityRespected'
<1>1. TypeOK
  BY DEF FStoreInv
<1>2. Cardinality(At(Reserved)') =
        Cardinality(At(Reserved)) + (IF to \in Reserved THEN 1 ELSE 0)
                                  - (IF from \in Reserved THEN 1 ELSE 0)
  BY <1>1, GotoCount
<1>3. Cardinality(At(Admitted)') =
        Cardinality(At(Admitted)) + (IF to \in Admitted THEN 1 ELSE 0)
                                  - (IF from \in Admitted THEN 1 ELSE 0)
  BY <1>1, GotoCount
<1>4. Cardinality(At(Reserved)') = Cardinality(At(Reserved))
  BY <1>1, <1>2, FiniteParts
<1>5. /\ Cardinality(At(Admitted)') <= Cardinality(At(Admitted))
      /\ Cardinality(At(Admitted)') \in Int
  BY <1>1, <1>3, FiniteParts
<1> QED
  BY <1>4, <1>5, QuietStep

(* A step that moves no task changes no count.                             *)
LEMMA QuietPc ==
  ASSUME FStoreInv, UNCHANGED <<number, live, pc>>
  PROVE  CountMatches' /\ CapacityRespected'
<1>1. At(Reserved)' = At(Reserved) /\ At(Admitted)' = At(Admitted)
  BY DEF At
<1> QED
  BY <1>1, QuietStep, FiniteParts DEF FStoreInv

(* Which places hold a reservation, and which were admitted.               *)
LEMMA PcSets ==
  /\ \A at \in {"head", "scan", "mapget", "alloc"} : at \in Reserved /\ at \in Admitted
  /\ \A at \in {"put_map", "uncount"} : at \in Reserved /\ at \notin Admitted
  /\ \A at \in {"idle", "copy", "check", "using"} \cup (Walking \ {"scan"}) :
         at \notin Reserved /\ at \notin Admitted
  BY DEF Reserved, Admitted, Failing, Walking

(* The steps of fstore_register. *)
LEMMA RegisterCount ==
  ASSUME FStoreInv, NEW t \in Tasks, Register(t)
  PROVE  CountMatches' /\ CapacityRespected'
<1>0. TypeOK /\ CountMatches /\ CapacityRespected
  BY DEF FStoreInv
<1> USE PcSets
<1>1. ASSUME NEW nm \in Names, NEW m \in Maps, RegisterReserve(t, nm, m)
      PROVE  CountMatches' /\ CapacityRespected'
  <2>1. PICK to : /\ to = IF number' >= FSTORE_SIZE THEN "uncount" ELSE "head"
                  /\ Goto(t, "idle", to)
    BY <1>1 DEF RegisterReserve
  <2>2. Cardinality(At(Reserved)') = Cardinality(At(Reserved)) + 1
    <3>1. Cardinality(At(Reserved)') =
            Cardinality(At(Reserved)) + (IF to \in Reserved THEN 1 ELSE 0)
                                      - (IF "idle" \in Reserved THEN 1 ELSE 0)
      BY <1>0, <2>1, GotoCount
    <3> QED
      BY <1>0, <2>1, <3>1, FiniteParts
  <2>3. Cardinality(At(Admitted)') =
          Cardinality(At(Admitted)) + (IF number' >= FSTORE_SIZE THEN 0 ELSE 1)
    <3>1. Cardinality(At(Admitted)') =
            Cardinality(At(Admitted)) + (IF to \in Admitted THEN 1 ELSE 0)
                                      - (IF "idle" \in Admitted THEN 1 ELSE 0)
      BY <1>0, <2>1, GotoCount
    <3> QED
      BY <1>0, <2>1, <3>1, FiniteParts
  <2>4. number' = number + 1 /\ live' = live
    BY <1>1 DEF RegisterReserve, table
  <2> QED
    BY <1>0, <2>2, <2>3, <2>4, FiniteParts, AdmittedReserved, SizeAssumption
       DEF CountMatches, CapacityRespected
<1>2. CASE RegisterHead(t)
  <2>1. Goto(t, "head", "scan") /\ UNCHANGED <<number, live>>
    BY <1>2 DEF RegisterHead, table
  <2> QED
    BY <2>1, QuietGoto
<1>3. CASE ScanVisit(t)
  BY <1>3, QuietPc DEF ScanVisit, table
<1>4. CASE ScanEnd(t)
  <2>1. /\ Goto(t, "scan", "uncount") \/ Goto(t, "scan", "mapget")
        /\ UNCHANGED <<number, live>>
    BY <1>4 DEF ScanEnd, table
  <2> QED
    BY <2>1, QuietGoto
<1>5. CASE RegisterMapGet(t)
  <2>1. /\ Goto(t, "mapget", "alloc") \/ Goto(t, "mapget", "uncount")
        /\ UNCHANGED <<number, live>>
    BY <1>5 DEF RegisterMapGet, table
  <2> QED
    BY <2>1, QuietGoto
<1>6. CASE RegisterAdd(t)
  <2>1. Goto(t, "alloc", "idle") /\ number' = number /\ live' = live \cup {nextNode}
    BY <1>6 DEF RegisterAdd
  <2>2. nextNode \notin live
    BY <1>0 DEF TypeOK, OtherTypes, Nodes
  <2>3. Cardinality(live') = Cardinality(live) + 1
    BY <1>0, <2>1, <2>2, FiniteParts, FS_AddElement
  <2>4. Cardinality(At(Reserved)') =
          Cardinality(At(Reserved)) + (IF "idle" \in Reserved THEN 1 ELSE 0)
                                    - (IF "alloc" \in Reserved THEN 1 ELSE 0)
    BY <1>0, <2>1, GotoCount
  <2>5. Cardinality(At(Admitted)') =
          Cardinality(At(Admitted)) + (IF "idle" \in Admitted THEN 1 ELSE 0)
                                    - (IF "alloc" \in Admitted THEN 1 ELSE 0)
    BY <1>0, <2>1, GotoCount
  <2> QED
    BY <1>0, <2>1, <2>3, <2>4, <2>5, FiniteParts, SizeAssumption
       DEF CountMatches, CapacityRespected
<1>7. CASE RegisterNoMem(t)
  <2>1. Goto(t, "alloc", "put_map") /\ UNCHANGED <<number, live>>
    BY <1>7 DEF RegisterNoMem, table
  <2> QED
    BY <2>1, QuietGoto
<1>8. CASE RegisterPutMap(t)
  <2>1. Goto(t, "put_map", "uncount") /\ UNCHANGED <<number, live>>
    BY <1>8 DEF RegisterPutMap, table
  <2> QED
    BY <2>1, QuietGoto
<1>9. CASE RegisterUncount(t)
  <2>1. Goto(t, "uncount", "idle") /\ number' = number - 1 /\ live' = live
    BY <1>9 DEF RegisterUncount, table
  <2>2. Cardinality(At(Reserved)') =
          Cardinality(At(Reserved)) + (IF "idle" \in Reserved THEN 1 ELSE 0)
                                    - (IF "uncount" \in Reserved THEN 1 ELSE 0)
    BY <1>0, <2>1, GotoCount
  <2>3. Cardinality(At(Admitted)') =
          Cardinality(At(Admitted)) + (IF "idle" \in Admitted THEN 1 ELSE 0)
                                    - (IF "uncount" \in Admitted THEN 1 ELSE 0)
    BY <1>0, <2>1, GotoCount
  <2> QED
    BY <1>0, <2>1, <2>2, <2>3, FiniteParts, SizeAssumption
       DEF CountMatches, CapacityRespected, TypeOK, OtherTypes
<1> QED
  BY <1>1, <1>2, <1>3, <1>4, <1>5, <1>6, <1>7, <1>8, <1>9 DEF Register

(* Every walk over a bucket. *)
LEMMA WalkCount ==
  ASSUME FStoreInv, NEW t \in Tasks, Unregister(t) \/ Read(t)
  PROVE  CountMatches' /\ CapacityRespected'
<1>0. TypeOK /\ CountMatches /\ CapacityRespected
  BY DEF FStoreInv
<1>1. ASSUME NEW op, NEW at \in Walking \ {"scan"}, NEW nm \in Names,
             Begin(t, op, at, nm)
      PROVE  CountMatches' /\ CapacityRespected'
  <2>1. Goto(t, "idle", at) /\ UNCHANGED <<number, live>>
    BY <1>1 DEF Begin, table
  <2>2. /\ "idle" \notin Reserved /\ at \notin Reserved
        /\ "idle" \notin Admitted /\ at \notin Admitted
    BY PcSets
  <2> QED
    BY <2>1, <2>2, QuietGoto
<1>2. ASSUME NEW at \in Walking \ {"scan"}, NEW to \in {"idle", "copy"},
             End(t, at, to)
      PROVE  CountMatches' /\ CapacityRespected'
  <2>1. Goto(t, at, to) /\ UNCHANGED <<number, live>>
    BY <1>2 DEF End, table
  <2>2. at \notin Reserved /\ to \notin Reserved /\ to \notin Admitted
    BY PcSets
  <2> QED
    BY <2>1, <2>2, QuietGoto
<1>3. ASSUME NEW nm \in Names,
             \/ UnregisterBegin(t, nm) \/ GetBegin(t, nm)
             \/ MappedBegin(t, nm) \/ PeekBegin(t, nm)
      PROVE  CountMatches' /\ CapacityRespected'
  BY <1>1, <1>3 DEF Walking, UnregisterBegin, GetBegin, MappedBegin, PeekBegin
<1>4. CASE \/ DeleteEnd(t) \/ GetEnd(t) \/ FirstNone(t) \/ PutEnd(t)
           \/ PeekEnd(t)
  BY <1>2, <1>4 DEF Walking, DeleteEnd, GetEnd, FirstNone, PutEnd, PeekEnd
<1>5. CASE DeleteVisit(t)
  <2>1. /\ node[t] \in live /\ live' = live \ {node[t]}
        /\ number' = number - 1 /\ pc' = pc
    BY <1>5 DEF DeleteVisit, Visit
  <2>2. Cardinality(live') = Cardinality(live) - 1
    BY <1>0, <2>1, FiniteParts, FS_RemoveElement
  <2>3. At(Reserved)' = At(Reserved) /\ At(Admitted)' = At(Admitted)
    BY <2>1 DEF At
  <2> QED
    BY <1>0, <2>1, <2>2, <2>3, FiniteParts, SizeAssumption
       DEF CountMatches, CapacityRespected, TypeOK, OtherTypes
<1>6. CASE GetVisit(t) \/ PutVisit(t) \/ PeekVisit(t)
  BY <1>6, QuietPc DEF GetVisit, PutVisit, PeekVisit, table
<1>7. CASE FirstVisit(t)
  <2>1. Goto(t, "first", "check") /\ UNCHANGED <<number, live>>
    BY <1>7 DEF FirstVisit, Goto, table
  <2> QED
    BY <2>1, QuietGoto, PcSets DEF Walking
<1>8. CASE CheckLimits(t)
  <2>1. /\ Goto(t, "check", "using") \/ Goto(t, "check", "idle")
        /\ UNCHANGED <<number, live>>
    BY <1>8 DEF CheckLimits, table
  <2> QED
    BY <2>1, QuietGoto, PcSets DEF Walking
<1>9. CASE PutBegin(t)
  <2>1. Goto(t, "using", "put") /\ UNCHANGED <<number, live>>
    BY <1>9 DEF PutBegin, table
  <2> QED
    BY <2>1, QuietGoto, PcSets DEF Walking
<1>10. CASE GetCopy(t)
  <2>1. Goto(t, "copy", "idle") /\ UNCHANGED <<number, live>>
    BY <1>10 DEF GetCopy, table
  <2> QED
    BY <2>1, QuietGoto, PcSets DEF Walking
<1> QED
  BY <1>3, <1>4, <1>5, <1>6, <1>7, <1>8, <1>9, <1>10 DEF Unregister, Read

(* Every step keeps the count and the limit.                               *)
LEMMA NextCount == FStoreInv /\ [Next]_vars => CountMatches' /\ CapacityRespected'
<1> SUFFICES ASSUME FStoreInv, [Next]_vars
             PROVE  CountMatches' /\ CapacityRespected'
  OBVIOUS
<1>1. ASSUME NEW t \in Tasks, Register(t) \/ Unregister(t) \/ Read(t)
      PROVE  CountMatches' /\ CapacityRespected'
  BY <1>1, RegisterCount, WalkCount
<1>2. ASSUME NEW t \in Tasks, Undefined(t)
      PROVE  CountMatches' /\ CapacityRespected'
  BY <1>2, QuietPc DEF Undefined, table, locals
<1>3. ASSUME NEW m \in Maps, CloseFd(m)
      PROVE  CountMatches' /\ CapacityRespected'
  BY <1>3, QuietPc DEF CloseFd, table, locals
<1>4. CASE Unload
  <2>1. /\ live' = {} /\ number' = number - Cardinality(live) /\ pc' = pc
    BY <1>4 DEF Unload, locals
  <2>2. At(Reserved)' = At(Reserved) /\ At(Admitted)' = At(Admitted)
    BY <2>1 DEF At
  <2> QED
    BY <2>1, <2>2, FiniteParts, FS_EmptySet, SizeAssumption
       DEF FStoreInv, CountMatches, CapacityRespected, TypeOK, OtherTypes
<1>5. CASE UNCHANGED vars
  BY <1>5, QuietPc DEF vars, table, locals
<1> QED
  BY <1>1, <1>2, <1>3, <1>4, <1>5 DEF Next

-----------------------------------------------------------------------------
(* Types.  The newest node of a bucket is a node. *)
LEMMA WalkTypes ==
  ASSUME TypeOK, NEW nm, NEW x
  PROVE  Head(nm) \in Nodes \cup {Null} /\ After(nm, x) \in Nodes \cup {Null}
<1>1. ASSUME NEW S \in SUBSET Nodes PROVE NewestOf(S) \in Nodes \cup {Null}
  <2>1. CASE \E n1 \in S : \A k \in S : k <= n1
    BY <2>1 DEF NewestOf
  <2>2. CASE S = {}
    BY <2>2 DEF NewestOf
  <2>3. ASSUME S # {} PROVE \E n1 \in S : \A k \in S : k <= n1
    <3> DEFINE Above(n) == {k \in S : k > n}
               Tails == {Above(n) : n \in S}
    <3>1. S \in SUBSET Int /\ IsFiniteSet(S)
      <4>1. Nodes \in SUBSET Int /\ IsFiniteSet(Nodes)
        BY BoundsAssumption, FS_Interval DEF Nodes
      <4> QED
        BY <1>1, <4>1, FS_Subset
    <3>2. Tails \subseteq FiniteSubsetsOf(S) /\ Tails # {}
      <4>1. \A n \in S : Above(n) \in SUBSET S
        OBVIOUS
      <4>2. FiniteSubsetsOf(S) = SUBSET S
        BY <3>1, FS_FiniteSubsetsOfFinite
      <4>3. Tails \subseteq SUBSET S
        BY <4>1
      <4>4. Tails # {}
        BY <2>3
      <4> QED
        BY <4>2, <4>3, <4>4
    <3>3. PICK T \in Tails : \A U \in Tails : <<U, T>> \notin StrictSubsetOrdering(S)
      <4>1. IsWellFoundedOn(StrictSubsetOrdering(S), FiniteSubsetsOf(S))
        BY FS_StrictSubsetOrderingWellFounded
      <4> HIDE DEF Tails
      <4> QED
        BY <3>2, <4>1, WFMin
    <3>4. PICK n1 \in S : T = Above(n1)
      BY <3>3
    <3>5. ASSUME NEW k \in S, k > n1 PROVE FALSE
      <4>1. Above(k) \in Tails /\ Above(k) \subseteq T /\ Above(k) # T
        BY <3>1, <3>4, <3>5
      <4> QED
        BY <3>3, <3>4, <4>1 DEF StrictSubsetOrdering
    <3>6. \A k \in S : k <= n1
      BY <3>1, <3>5
    <3> QED
      BY <3>6
  <2> QED
    BY <2>1, <2>2, <2>3
<1> QED
  BY <1>1 DEF Head, After, Chain, TypeOK, OtherTypes

(* A reference count stays a natural number. *)
LEMMA RefsType ==
  ASSUME TypeOK, NEW m \in Maps, MapInc(m) \/ MapPut(m)
  PROVE  refs' \in [Maps -> Nat]
  BY DEF MapInc, MapPut, TypeOK, OtherTypes

(* A task moves to a place that there is.                                  *)
LEMMA GotoType ==
  ASSUME TypeOK, NEW t \in Tasks, NEW from, NEW to \in Pcs, Goto(t, from, to)
  PROVE  pc' \in [Tasks -> Pcs]
  BY DEF Goto, TypeOK, OtherTypes

(* A walk visits live nodes.                                               *)
LEMMA VisitType ==
  ASSUME TypeOK, NEW t \in Tasks, NEW at, Visit(t, at)
  PROVE  /\ node' \in [Tasks -> Nodes \cup {Null}]
         /\ found' \in [Tasks -> BOOLEAN]
         /\ node[t] \in live /\ mapOf[node[t]] \in Maps
  BY WalkTypes DEF Visit, TypeOK, OtherTypes

(* A walk starts at the head of a bucket.                                  *)
LEMMA WalkFromType ==
  ASSUME TypeOK, NEW t \in Tasks, NEW nm, WalkFrom(t, nm)
  PROVE  /\ node' \in [Tasks -> Nodes \cup {Null}]
         /\ found' \in [Tasks -> BOOLEAN]
  BY WalkTypes DEF WalkFrom, TypeOK, OtherTypes

(* An operation begins with its types.                                     *)
LEMMA BeginType ==
  ASSUME TypeOK, NEW t \in Tasks, NEW op, NEW at \in Pcs, NEW nm \in Names,
         Begin(t, op, at, nm)
  PROVE  OtherTypes'
  BY GotoType, WalkFromType DEF Begin, TypeOK, OtherTypes, table

(* And ends with them.                                                     *)
LEMMA EndType ==
  ASSUME TypeOK, NEW t \in Tasks, NEW at, NEW to \in Pcs, End(t, at, to)
  PROVE  OtherTypes'
  BY GotoType DEF End, TypeOK, OtherTypes, table

(* The places of a task.                                                   *)
LEMMA PcTypes ==
  {"idle", "copy", "check", "using", "head", "scan", "mapget", "alloc",
   "put_map", "uncount", "delete", "get", "first", "put", "peek"} \subseteq Pcs
  BY DEF Pcs, Reserved, Admitted, Failing, Walking

(* Registration keeps the types.                                           *)
LEMMA RegisterType ==
  ASSUME TypeOK, NEW t \in Tasks, Register(t)
  PROVE  OtherTypes'
<1> USE PcTypes DEF table
<1>1. ASSUME NEW nm \in Names, NEW m \in Maps, RegisterReserve(t, nm, m)
      PROVE  OtherTypes'
  <2>1. pc' \in [Tasks -> Pcs]
    BY <1>1, GotoType DEF RegisterReserve
  <2> QED
    BY <1>1, <2>1 DEF RegisterReserve, TypeOK, OtherTypes
<1>2. CASE RegisterHead(t)
  BY <1>2, GotoType, WalkFromType DEF RegisterHead, TypeOK, OtherTypes
<1>3. CASE ScanVisit(t)
  BY <1>3, VisitType DEF ScanVisit, TypeOK, OtherTypes
<1>4. CASE ScanEnd(t)
  <2>1. pc' \in [Tasks -> Pcs]
    BY <1>4, GotoType DEF ScanEnd
  <2> QED
    BY <1>4, <2>1 DEF ScanEnd, TypeOK, OtherTypes
<1>5. CASE RegisterMapGet(t)
  <2>1. pc' \in [Tasks -> Pcs]
    BY <1>5, GotoType DEF RegisterMapGet
  <2>2. refs' \in [Maps -> Nat]
    BY <1>5, RefsType DEF RegisterMapGet, TypeOK, OtherTypes
  <2> QED
    BY <1>5, <2>1, <2>2 DEF RegisterMapGet, TypeOK, OtherTypes
<1>6. CASE RegisterAdd(t)
  <2>1. pc' \in [Tasks -> Pcs]
    BY <1>6, GotoType DEF RegisterAdd
  <2>2. /\ nextNode \in Nodes /\ nextNode' = nextNode + 1
        /\ live' = live \cup {nextNode}
    BY <1>6, BoundsAssumption DEF RegisterAdd, TypeOK, OtherTypes, Nodes
  <2>3. /\ live' \subseteq Nodes /\ nextNode' \in 1..(MaxNodes + 1)
        /\ \A n \in live' : n < nextNode'
    BY <2>2, BoundsAssumption DEF TypeOK, OtherTypes, Nodes
  <2> QED
    BY <1>6, <2>1, <2>2, <2>3 DEF RegisterAdd, TypeOK, OtherTypes
<1>7. CASE RegisterNoMem(t)
  BY <1>7, GotoType DEF RegisterNoMem, TypeOK, OtherTypes
<1>8. CASE RegisterPutMap(t)
  <2>1. refs' \in [Maps -> Nat]
    BY <1>8, RefsType DEF RegisterPutMap, TypeOK, OtherTypes
  <2> QED
    BY <1>8, <2>1, GotoType DEF RegisterPutMap, TypeOK, OtherTypes
<1>9. CASE RegisterUncount(t)
  BY <1>9, GotoType DEF RegisterUncount, TypeOK, OtherTypes
<1> QED
  BY <1>1, <1>2, <1>3, <1>4, <1>5, <1>6, <1>7, <1>8, <1>9 DEF Register

(* Deletion and reading keep the types.                                    *)
LEMMA WalkType ==
  ASSUME TypeOK, NEW t \in Tasks, Unregister(t) \/ Read(t)
  PROVE  OtherTypes'
<1> USE PcTypes DEF table
<1>1. ASSUME NEW nm \in Names,
             \/ UnregisterBegin(t, nm) \/ GetBegin(t, nm)
             \/ MappedBegin(t, nm) \/ PeekBegin(t, nm)
      PROVE  OtherTypes'
  BY <1>1, BeginType DEF UnregisterBegin, GetBegin, MappedBegin, PeekBegin
<1>2. CASE \/ DeleteEnd(t) \/ GetEnd(t) \/ FirstNone(t) \/ PutEnd(t)
           \/ PeekEnd(t)
  BY <1>2, EndType DEF DeleteEnd, GetEnd, FirstNone, PutEnd, PeekEnd
<1>3. CASE DeleteVisit(t)
  <2>1. refs' \in [Maps -> Nat]
    BY <1>3, VisitType, RefsType DEF DeleteVisit
  <2> QED
    BY <1>3, <2>1, VisitType DEF DeleteVisit, TypeOK, OtherTypes
<1>4. CASE GetVisit(t)
  <2>1. refs' \in [Maps -> Nat]
    BY <1>4, VisitType, RefsType DEF GetVisit
  <2> QED
    BY <1>4, <2>1, VisitType DEF GetVisit, TypeOK, OtherTypes
<1>5. CASE PutVisit(t)
  <2>1. refs' \in [Maps -> Nat]
    BY <1>5, VisitType, RefsType DEF PutVisit
  <2> QED
    BY <1>5, <2>1, VisitType DEF PutVisit, TypeOK, OtherTypes
<1>6. CASE PeekVisit(t)
  BY <1>6, VisitType DEF PeekVisit, TypeOK, OtherTypes
<1>7. CASE FirstVisit(t)
  <2>1. mapOf[node[t]] \in Maps
    BY <1>7 DEF FirstVisit, TypeOK, OtherTypes
  <2>2. refs' \in [Maps -> Nat]
    BY <1>7, <2>1, RefsType DEF FirstVisit
  <2> QED
    BY <1>7, <2>1, <2>2 DEF FirstVisit, TypeOK, OtherTypes
<1>8. CASE CheckLimits(t)
  <2>1. pc' \in [Tasks -> Pcs]
    BY <1>8, GotoType DEF CheckLimits
  <2> QED
    BY <1>8, <2>1 DEF CheckLimits, TypeOK, OtherTypes
<1>9. CASE PutBegin(t)
  BY <1>9, GotoType, WalkFromType DEF PutBegin, TypeOK, OtherTypes
<1>10. CASE GetCopy(t)
  <2>1. refs' \in [Maps -> Nat]
    BY <1>10, RefsType DEF GetCopy, TypeOK, OtherTypes
  <2> QED
    BY <1>10, <2>1, GotoType DEF GetCopy, TypeOK, OtherTypes
<1> QED
  BY <1>1, <1>2, <1>3, <1>4, <1>5, <1>6, <1>7, <1>8, <1>9, <1>10
     DEF Unregister, Read

(* Every step keeps them.                                                  *)
LEMMA NextType == TypeOK /\ [Next]_vars => OtherTypes'
<1> SUFFICES ASSUME TypeOK, [Next]_vars
             PROVE  OtherTypes'
  OBVIOUS
<1>1. ASSUME NEW t \in Tasks, Register(t) \/ Unregister(t) \/ Read(t)
      PROVE  OtherTypes'
  BY <1>1, RegisterType, WalkType
<1>2. ASSUME NEW t \in Tasks, Undefined(t) PROVE OtherTypes'
  BY <1>2 DEF Undefined, table, locals, TypeOK, OtherTypes
<1>3. ASSUME NEW m \in Maps, CloseFd(m) PROVE OtherTypes'
  <2>1. refs' \in [Maps -> Nat]
    BY <1>3, RefsType DEF CloseFd
  <2> QED
    BY <1>3, <2>1 DEF CloseFd, table, locals, TypeOK, OtherTypes
<1>4. CASE Unload
  <2>1. ASSUME NEW m \in Maps
        PROVE  refs[m] - Cardinality({n \in live : mapOf[n] = m}) \in Nat
    <3> DEFINE Own == {n \in live : mapOf[n] = m}
    <3>1. Own \in SUBSET live
      OBVIOUS
    <3>2. Cardinality(Own) \in Nat
      BY <3>1, FiniteParts, FS_Subset, FS_CardinalityType
    <3>3. refs[m] \in Nat /\ refs[m] >= Cardinality(Own)
      BY <1>4 DEF Unload, TypeOK, OtherTypes
    <3> QED
      BY <3>2, <3>3
  <2>2. refs' \in [Maps -> Nat]
    BY <1>4, <2>1 DEF Unload
  <2> QED
    BY <1>4, <2>2 DEF Unload, locals, TypeOK, OtherTypes
<1>5. CASE UNCHANGED vars
  BY <1>5 DEF vars, table, locals, TypeOK, OtherTypes
<1> QED
  BY <1>1, <1>2, <1>3, <1>4, <1>5 DEF Next

(* The table is empty.                                                     *)
LEMMA InitInv == Init => FStoreInv
<1> SUFFICES ASSUME Init PROVE FStoreInv
  OBVIOUS
<1>1. TypeOK
  <2>1. AnyName \in Names /\ AnyMap \in Maps
    BY DataAssumption DEF AnyName, AnyMap
  <2>2. "idle" \in Pcs
    BY PcTypes
  <2>3. number \in Nat /\ nextNode \in 1..(MaxNodes + 1) /\ live = {}
    BY BoundsAssumption DEF Init
  <2>4. /\ nameOf \in [Nodes -> Names] /\ mapOf \in [Nodes -> Maps]
        /\ refs \in [Maps -> Nat] /\ fdOpen \in [Maps -> BOOLEAN]
    BY <2>1 DEF Init
  <2>5. /\ pc \in [Tasks -> Pcs] /\ name \in [Tasks -> Names]
        /\ map \in [Tasks -> Maps] /\ found \in [Tasks -> BOOLEAN]
        /\ node \in [Tasks -> Nodes \cup {Null}]
    BY <2>1, <2>2 DEF Init
  <2>6. undef \in BOOLEAN /\ loaded \in BOOLEAN
    BY DEF Init
  <2> QED
    BY <2>3, <2>4, <2>5, <2>6 DEF TypeOK, OtherTypes
<1>2. At(Reserved) = {} /\ At(Admitted) = {}
  BY PcSets DEF Init, At
<1> QED
  BY <1>1, <1>2, FS_EmptySet, SizeAssumption
     DEF Init, FStoreInv, CountMatches, CapacityRespected

(* Types, count and limit are inductive together.                          *)
LEMMA NextInv == FStoreInv /\ [Next]_vars => FStoreInv'
<1> SUFFICES ASSUME FStoreInv, [Next]_vars PROVE FStoreInv'
  OBVIOUS
<1>1. CountMatches' /\ CapacityRespected'
  BY NextCount
<1>2. OtherTypes'
  BY NextType DEF FStoreInv
<1>3. number' \in Nat
  <2>1. live' \in SUBSET Nodes /\ At(Reserved)' \in SUBSET Tasks
    BY <1>2 DEF OtherTypes, At
  <2>2. IsFiniteSet(Nodes)
    BY BoundsAssumption, FS_Interval DEF Nodes
  <2>3. Cardinality(live') \in Nat /\ Cardinality(At(Reserved)') \in Nat
    BY <2>1, <2>2, TasksAssumption, FS_Subset, FS_CardinalityType
  <2> QED
    BY <1>1, <2>3 DEF CountMatches
<1> QED
  BY <1>1, <1>2, <1>3 DEF FStoreInv, TypeOK

(* They hold throughout.                                                   *)
LEMMA InvHolds == Spec => []FStoreInv
<1> QED
  BY InitInv, NextInv, PTL DEF Spec

(* Every variable of fstore.c and every local of its callers keeps its     *)
(* type; number_maps never goes below zero.                                *)
THEOREM TypeCorrect == Spec => []TypeOK
<1>1. FStoreInv => TypeOK
  BY DEF FStoreInv
<1> QED
  BY <1>1, InvHolds, PTL

(* number_maps is the number of nodes in the table plus the registrations  *)
(* in progress, for every interleaving of the callers of fstore.c.         *)
THEOREM CountCorrect == Spec => []CountMatches
<1>1. FStoreInv => CountMatches
  BY DEF FStoreInv
<1> QED
  BY <1>1, InvHolds, PTL

(* The limit check at the start of fstore_register (fstore.c:84) keeps the *)
(* nodes of the table and the admitted registrations below FSTORE_SIZE,    *)
(* for every interleaving.                                                 *)
THEOREM CapacityCorrect == Spec => []CapacityRespected
<1>1. FStoreInv => CapacityRespected
  BY DEF FStoreInv
<1> QED
  BY <1>1, InvHolds, PTL

-----------------------------------------------------------------------------
(* Reference counts.                                                       *)

(* One caller at a time, as when the callers are serialized *)
OneCaller == \A s, t \in Tasks : s = t

(* Only fstore_put_map_array releases references that another call took:   *)
(* without it, or with one caller, no release can be one too many.         *)
Disciplined == OneCaller \/ "mapped" \notin Ops

(* Tasks that will release map m: those that hold a reference, and a       *)
(* fstore_put_map_array that has reached a node of m.                      *)
Users(m) == Holders(m) \cup {t \in Tasks : /\ pc[t] = "put" /\ node[t] # Null
                                           /\ mapOf[node[t]] = m}

Needs(m) == (IF fdOpen[m] THEN 1 ELSE 0) + Cardinality(NodesOf(m)) + Cardinality(Users(m))

(* GET_MAPPED is called through the operation of that name only. *)
UnmappedInv ==
    "mapped" \notin Ops => \A t \in Tasks : pc[t] \notin {"first", "check", "using", "put"}

(* a references cover the b that are needed; those that a single caller    *)
(* with the right limits takes are no more than that.                      *)
Covers(a, b) == a >= b /\ (OneCaller /\ LimitsKnown => a = b)

(* Every map has the references that its users need. *)
RefsInv == \A m \in Maps : Covers(refs[m], Needs(m))

(* Node n is in the bucket of the name that task t works on. *)
InBucket(t, n) == n \in live /\ Bucket[nameOf[n]] = Bucket[name[t]]

(* What a task knows of its bucket when nobody else changes it *)
Place(t) ==
    /\ pc[t] \in Walking /\ node[t] # Null => InBucket(t, node[t]) /\ ~found[t]
    /\ pc[t] \in {"mapget", "alloc"} => \A n \in live : ~InBucket(t, n)
    /\ pc[t] = "scan" /\ node[t] = Null /\ ~found[t] => \A n \in live : ~InBucket(t, n)
    /\ pc[t] \in {"check", "using"} => InBucket(t, node[t]) /\ map[t] = mapOf[node[t]]

(* With one caller a bucket has one node at most, so every walk visits one *)
(* node at most, and nothing that a walk meets has been freed.             *)
SerialInv ==
    OneCaller => OneNodePerBucket /\ ~undef /\ \A t \in Tasks : Place(t)


-----------------------------------------------------------------------------
(* One step of one task                                                    *)

(* The locals of the other tasks do not change. *)
OnlyTask(t) == \A s \in Tasks \ {t} : /\ pc'[s] = pc[s] /\ map'[s] = map[s]
                                      /\ node'[s] = node[s] /\ found'[s] = found[s]

TaskStep(t) == Register(t) \/ Unregister(t) \/ Read(t) \/ Undefined(t)

(* A step of t is a step of its locals, and no descriptor is closed by it. *)
LEMMA TaskMoves ==
  ASSUME TypeOK, NEW t \in Tasks, TaskStep(t)
  PROVE  OnlyTask(t) /\ fdOpen' = fdOpen
<1> USE DEF TypeOK, OtherTypes, OnlyTask, Goto, WalkFrom, Visit, Begin, End
<1>1. CASE Register(t)
  BY <1>1 DEF Register, RegisterReserve, RegisterHead, ScanVisit, ScanEnd, RegisterMapGet,
     RegisterAdd, RegisterNoMem, RegisterPutMap, RegisterUncount
<1>2. CASE Unregister(t)
  BY <1>2 DEF Unregister, UnregisterBegin, DeleteVisit, DeleteEnd
<1>3. CASE Read(t)
  BY <1>3 DEF Read, GetBegin, MappedBegin, PeekBegin, GetVisit, GetEnd, GetCopy, FirstVisit,
     FirstNone, CheckLimits, PutBegin, PutVisit, PutEnd, PeekVisit, PeekEnd
<1>4. CASE Undefined(t)
  BY <1>4 DEF Undefined, locals
<1> QED
  BY <1>1, <1>2, <1>3, <1>4 DEF TaskStep

(* A caller of nothing but GET_MAPPED's operations is at their counters. *)
LEMMA UnmappedStep ==
  ASSUME TypeOK, UnmappedInv, [Next]_vars
  PROVE  UnmappedInv'
<1> SUFFICES ASSUME "mapped" \notin Ops, NEW s \in Tasks
             PROVE  pc'[s] \notin {"first", "check", "using", "put"}
  BY DEF UnmappedInv
<1>1. pc[s] \notin {"first", "check", "using", "put"}
  BY DEF UnmappedInv
<1> USE DEF TypeOK, OtherTypes
<1>2. ASSUME NEW t \in Tasks, TaskStep(t) PROVE pc'[s] \notin {"first", "check", "using", "put"}
  <2>1. CASE s # t
    BY <1>1, <1>2, <2>1, TaskMoves DEF OnlyTask
  <2>2. CASE s = t
    <3> USE <1>1, <2>2 DEF Goto, Visit, Begin, End
    <3>1. CASE Register(t)
      BY <3>1 DEF Register, RegisterReserve, RegisterHead, ScanVisit, ScanEnd, RegisterMapGet,
         RegisterAdd, RegisterNoMem, RegisterPutMap, RegisterUncount
    <3>2. CASE Unregister(t)
      BY <3>2 DEF Unregister, UnregisterBegin, DeleteVisit, DeleteEnd
    <3>3. CASE Read(t)
      BY <3>3 DEF Read, GetBegin, MappedBegin, PeekBegin, GetVisit, GetEnd, GetCopy, FirstVisit,
         FirstNone, CheckLimits, PutBegin, PutVisit, PutEnd, PeekVisit, PeekEnd
    <3>4. CASE Undefined(t)
      BY <3>4 DEF Undefined, locals
    <3> QED
      BY <1>2, <3>1, <3>2, <3>3, <3>4 DEF TaskStep
  <2> QED
    BY <2>1, <2>2
<1>3. CASE (\E m \in Maps : CloseFd(m)) \/ Unload \/ UNCHANGED vars
  BY <1>1, <1>3 DEF CloseFd, Unload, vars, locals
<1> QED
  BY <1>2, <1>3 DEF Next, TaskStep

-----------------------------------------------------------------------------
(* Buckets with one node                                                   *)

(* The newest of at most one node is that node. *)
LEMMA NewestOne ==
  ASSUME NEW S \in SUBSET Nodes, \A n, k \in S : n = k
  PROVE  /\ S = {} => NewestOf(S) = Null
         /\ S # {} => NewestOf(S) \in S
<1>1. Nodes \subseteq Int
  BY BoundsAssumption DEF Nodes
<1>2. ASSUME NEW x \in S PROVE \A k \in S : k <= x
  BY <1>1
<1> QED
  BY <1>2 DEF NewestOf

(* The head of a bucket is its only node, if it has one.                   *)
LEMMA HeadOne ==
  ASSUME TypeOK, OneNodePerBucket, NEW nm \in Names
  PROVE  \/ Head(nm) = Null /\ \A n \in live : Bucket[nameOf[n]] # Bucket[nm]
         \/ Head(nm) \in live /\ Bucket[nameOf[Head(nm)]] = Bucket[nm]
<1> DEFINE S == Chain(Bucket[nm])
<1>1. S \in SUBSET Nodes /\ \A n, k \in S : n = k
  BY DEF Chain, TypeOK, OtherTypes, OneNodePerBucket
<1>2. S = {} => NewestOf(S) = Null
  BY <1>1, NewestOne
<1>3. S # {} => NewestOf(S) \in S
  BY <1>1, NewestOne
<1> QED
  BY <1>2, <1>3 DEF Head, Chain

(* A walk of such a bucket ends after its first node. *)
LEMMA AfterOne ==
  ASSUME TypeOK, OneNodePerBucket, NEW nm \in Names, NEW n \in live,
         Bucket[nameOf[n]] = Bucket[nm]
  PROVE  After(nm, n) = Null
<1> DEFINE S == {k \in Chain(Bucket[nm]) : k < n}
<1>1. live \subseteq Int
  BY BoundsAssumption DEF Nodes, TypeOK, OtherTypes
<1>2. \A k \in Chain(Bucket[nm]) : k = n
  BY DEF Chain, OneNodePerBucket
<1>3. ~(n < n)
  BY <1>1
<1>4. S = {}
  BY <1>2, <1>3
<1> QED
  BY <1>4 DEF After, NewestOf


(* What a task and a node refer to exists.                                 *)
LEMMA NodeDefs ==
  ASSUME TypeOK
  PROVE  /\ \A t \in Tasks : name[t] \in Names /\ map[t] \in Maps
         /\ \A n \in live : n \in Nodes /\ n # Null /\ n # nextNode
                            /\ nameOf[n] \in Names /\ mapOf[n] \in Maps
  BY BoundsAssumption DEF TypeOK, OtherTypes, Nodes, Null

(* A walk that starts knows its bucket. *)
LEMMA BeginPlace ==
  ASSUME TypeOK, OneNodePerBucket, NEW t \in Tasks, NEW nm \in Names,
         WalkFrom(t, nm), name'[t] = nm, UNCHANGED <<live, nameOf>>
  PROVE  /\ node'[t] # Null => InBucket(t, node[t])'
         /\ node'[t] = Null => \A n \in live' : ~InBucket(t, n)'
         /\ ~found'[t]
<1>1. node'[t] = Head(nm) /\ ~found'[t]
  BY DEF WalkFrom, TypeOK, OtherTypes
<1>2. \/ node'[t] = Null /\ \A n \in live : Bucket[nameOf[n]] # Bucket[nm]
      \/ node'[t] \in live /\ Bucket[nameOf[node'[t]]] = Bucket[nm]
  BY <1>1, HeadOne
<1>3. \A n \in live : n # Null
  BY NodeDefs
<1> QED
  BY <1>1, <1>2, <1>3 DEF InBucket

(* The visit of a node ends the walk. *)
LEMMA VisitEnds ==
  ASSUME TypeOK, OneNodePerBucket, NEW t \in Tasks, Place(t), NEW at \in Walking, Visit(t, at)
  PROVE  /\ node'[t] = Null /\ found'[t] /\ ~found[t]
         /\ InBucket(t, node[t])
<1>1. node[t] # Null /\ node'[t] = After(name[t], node[t]) /\ found'[t] /\ pc[t] = at
  BY NodeDefs DEF Visit, TypeOK, OtherTypes
<1>2. InBucket(t, node[t]) /\ ~found[t]
  BY <1>1 DEF Place
<1>3. node'[t] = Null
  BY <1>1, <1>2, AfterOne, NodeDefs DEF InBucket
<1> QED
  BY <1>1, <1>2, <1>3

(* A finite set with a member counts at least one.                         *)
LEMMA CardOne ==
  ASSUME NEW S, IsFiniteSet(S), NEW x \in S
  PROVE  Cardinality(S) \in Nat /\ Cardinality(S) >= 1
<1>1. Cardinality(S) \in Nat /\ Cardinality(S \ {x}) \in Nat
  BY FS_RemoveElement, FS_CardinalityType
<1>2. Cardinality(S \ {x}) = Cardinality(S) - 1
  BY FS_RemoveElement
<1> QED
  BY <1>1, <1>2

(* Nodes and users of a map are finitely many.                             *)
LEMMA FiniteUsers ==
  ASSUME TypeOK
  PROVE  \A m : /\ IsFiniteSet(NodesOf(m)) /\ Cardinality(NodesOf(m)) \in Nat
                /\ IsFiniteSet(Users(m)) /\ Cardinality(Users(m)) \in Nat
                /\ IsFiniteSet(Holders(m)) /\ Cardinality(Holders(m)) <= Cardinality(Users(m))
                /\ Cardinality(Holders(m)) \in Nat
<1> SUFFICES ASSUME NEW m
             PROVE  /\ IsFiniteSet(NodesOf(m)) /\ Cardinality(NodesOf(m)) \in Nat
                    /\ IsFiniteSet(Users(m)) /\ Cardinality(Users(m)) \in Nat
                    /\ IsFiniteSet(Holders(m)) /\ Cardinality(Holders(m)) <= Cardinality(Users(m))
                    /\ Cardinality(Holders(m)) \in Nat
  OBVIOUS
<1>1. NodesOf(m) \subseteq live /\ Users(m) \subseteq Tasks /\ Holders(m) \subseteq Users(m)
  BY DEF NodesOf, Users, Holders
<1>2. IsFiniteSet(live) /\ IsFiniteSet(Tasks)
  BY FiniteParts, TasksAssumption
<1>3. IsFiniteSet(NodesOf(m)) /\ IsFiniteSet(Users(m))
  BY <1>1, <1>2, FS_Subset
<1>4. IsFiniteSet(Holders(m)) /\ Cardinality(Holders(m)) <= Cardinality(Users(m))
  BY <1>1, <1>3, FS_Subset
<1> QED
  BY <1>3, <1>4, FS_CardinalityType

(* A map that a node or a task needs has a reference. *)
LEMMA Referenced ==
  ASSUME TypeOK, RefsInv
  PROVE  /\ \A n \in live : refs[mapOf[n]] > 0
         /\ \A t \in Tasks, m \in Maps : t \in Holders(m) => refs[m] > 0
<1>1. ASSUME NEW m \in Maps
      PROVE  /\ refs[m] \in Nat
             /\ refs[m] >= Cardinality(NodesOf(m)) + Cardinality(Users(m))
  BY FiniteUsers DEF RefsInv, Covers, Needs, TypeOK, OtherTypes
<1>2. ASSUME NEW n \in live PROVE refs[mapOf[n]] > 0
  <2> DEFINE m == mapOf[n]
  <2>1. m \in Maps /\ n \in NodesOf(m)
    BY NodeDefs DEF NodesOf
  <2> HIDE DEF m
  <2>2. Cardinality(NodesOf(m)) >= 1 /\ Cardinality(NodesOf(m)) \in Nat /\ Cardinality(Users(m)) \in Nat
    BY <2>1, FiniteUsers, CardOne
  <2>3. refs[m] > 0
    BY <1>1, <2>1, <2>2
  <2> QED
    BY <2>3 DEF m
<1>3. ASSUME NEW t \in Tasks, NEW m \in Maps, t \in Holders(m) PROVE refs[m] > 0
  <2>1. t \in Users(m)
    BY <1>3 DEF Users
  <2>2. Cardinality(Users(m)) >= 1 /\ Cardinality(NodesOf(m)) \in Nat /\ Cardinality(Users(m)) \in Nat
    BY <2>1, FiniteUsers, CardOne
  <2> QED
    BY <1>1, <2>2
<1> QED
  BY <1>2, <1>3


-----------------------------------------------------------------------------
(* A single caller                                                         *)

(* Steps that leave the table alone *)
LEMMA SameTable ==
  ASSUME OneNodePerBucket, UNCHANGED <<live, nameOf>>
  PROVE  OneNodePerBucket'
  BY DEF OneNodePerBucket

(* The steps of fstore_register: a node is added to an empty bucket. *)
LEMMA SerialRegister ==
  ASSUME TypeOK, SerialInv, OneCaller, NEW t \in Tasks, Register(t)
  PROVE  OneNodePerBucket' /\ ~undef' /\ Place(t)'
<1>1. OneNodePerBucket /\ ~undef /\ Place(t)
  BY DEF SerialInv
<1> USE DEF TypeOK, OtherTypes, Goto
<1>2. CASE \E nm \in Names, m \in Maps : RegisterReserve(t, nm, m)
  BY <1>1, <1>2 DEF RegisterReserve, table, Place, InBucket, OneNodePerBucket, Walking
<1>3. CASE RegisterHead(t)
  <2>1. /\ pc'[t] = "scan" /\ ~undef' /\ WalkFrom(t, name[t]) /\ name'[t] = name[t]
        /\ UNCHANGED <<live, nameOf, mapOf>>
    BY <1>1, <1>3 DEF RegisterHead, table
  <2>2. /\ node'[t] # Null => InBucket(t, node[t])'
        /\ node'[t] = Null => \A n \in live' : ~InBucket(t, n)'
        /\ ~found'[t]
    BY <1>1, <2>1, BeginPlace
  <2> QED
    BY <1>1, <2>1, <2>2, SameTable DEF Place
<1>4. CASE ScanVisit(t)
  <2>1. node'[t] = Null /\ found'[t]
    BY <1>1, <1>4, VisitEnds DEF ScanVisit, Walking
  <2>2. pc'[t] = "scan" /\ ~undef' /\ UNCHANGED <<live, nameOf>>
    BY <1>1, <1>4 DEF ScanVisit, Visit, table
  <2> QED
    BY <1>1, <2>1, <2>2, SameTable DEF Place
<1>5. CASE ScanEnd(t)
  <2>1. /\ pc'[t] = IF found[t] THEN "uncount" ELSE "mapget"
        /\ pc[t] = "scan" /\ node[t] = Null /\ ~undef'
        /\ UNCHANGED <<live, nameOf, name>>
    BY <1>1, <1>5 DEF ScanEnd, table
  <2>2. ~found[t] => \A n \in live : ~InBucket(t, n)
    BY <1>1, <2>1 DEF Place
  <2> QED
    BY <1>1, <2>1, <2>2, SameTable DEF Place, InBucket, Walking
<1>6. CASE RegisterMapGet(t)
  <2>1. /\ pc'[t] \in {"alloc", "uncount"} /\ pc[t] = "mapget" /\ ~undef'
        /\ UNCHANGED <<live, nameOf, name>>
    BY <1>1, <1>6 DEF RegisterMapGet, table
  <2> QED
    BY <1>1, <2>1, SameTable DEF Place, InBucket, Walking
<1>7. CASE RegisterAdd(t)
  <2>1. /\ pc[t] = "alloc" /\ pc'[t] = "idle" /\ ~undef'
        /\ live' = live \cup {nextNode} /\ nextNode \in Nodes
        /\ nameOf' = [nameOf EXCEPT ![nextNode] = name[t]]
    BY <1>1, <1>7, BoundsAssumption DEF RegisterAdd, Nodes
  <2>2. \A n \in live : /\ n # nextNode /\ n \in Nodes
                        /\ Bucket[nameOf[n]] # Bucket[name[t]]
    BY <1>1, <2>1, NodeDefs DEF Place, InBucket
  <2>3. \A n \in live : nameOf'[n] = nameOf[n]
    BY <2>1, <2>2
  <2>4. nameOf'[nextNode] = name[t]
    BY <2>1
  <2>5. OneNodePerBucket'
    BY <1>1, <2>1, <2>2, <2>3, <2>4 DEF OneNodePerBucket
  <2> QED
    BY <2>1, <2>5 DEF Place, Walking
<1>8. CASE RegisterNoMem(t) \/ RegisterPutMap(t) \/ RegisterUncount(t)
  <2>1. /\ pc'[t] \in {"put_map", "uncount", "idle"} /\ ~undef'
        /\ UNCHANGED <<live, nameOf>>
    BY <1>1, <1>8 DEF RegisterNoMem, RegisterPutMap, RegisterUncount, table
  <2> QED
    BY <1>1, <2>1, SameTable DEF Place, Walking
<1> QED
  BY <1>2, <1>3, <1>4, <1>5, <1>6, <1>7, <1>8 DEF Register

(* Operations that walk a bucket: the table stays, or loses a node. *)
LEMMA SerialBegin ==
  ASSUME TypeOK, SerialInv, OneCaller, NEW t \in Tasks, NEW op,
         NEW at \in Walking \ {"scan"}, NEW nm \in Names, Begin(t, op, at, nm)
  PROVE  OneNodePerBucket' /\ ~undef' /\ Place(t)'
<1>1. OneNodePerBucket /\ ~undef
  BY DEF SerialInv
<1>2. /\ pc'[t] = at /\ ~undef' /\ WalkFrom(t, nm) /\ name'[t] = nm
      /\ UNCHANGED <<live, nameOf>>
  BY <1>1 DEF Begin, Goto, table, TypeOK, OtherTypes
<1>3. /\ node'[t] # Null => InBucket(t, node[t])'
      /\ ~found'[t]
  BY <1>1, <1>2, BeginPlace
<1> QED
  BY <1>1, <1>2, <1>3, SameTable DEF Place, Walking

(* The end of an operation frees nothing.                                  *)
LEMMA SerialEnd ==
  ASSUME TypeOK, SerialInv, OneCaller, NEW t \in Tasks, NEW at, NEW to \in {"idle", "copy"},
         End(t, at, to)
  PROVE  OneNodePerBucket' /\ ~undef' /\ Place(t)'
<1>1. OneNodePerBucket /\ ~undef
  BY DEF SerialInv
<1>2. pc'[t] = to /\ ~undef' /\ UNCHANGED <<live, nameOf>>
  BY <1>1 DEF End, Goto, table, TypeOK, OtherTypes
<1> QED
  BY <1>1, <1>2, SameTable DEF Place, Walking

(* A visit that leaves the table alone *)
LEMMA SerialVisit ==
  ASSUME TypeOK, SerialInv, OneCaller, NEW t \in Tasks, NEW at \in Walking \ {"scan"},
         Visit(t, at), UNCHANGED <<live, nameOf, pc, undef>>
  PROVE  OneNodePerBucket' /\ ~undef' /\ Place(t)'
<1>1. OneNodePerBucket /\ ~undef /\ Place(t)
  BY DEF SerialInv
<1>2. node'[t] = Null /\ pc'[t] = at
  BY <1>1, VisitEnds DEF Visit
<1> QED
  BY <1>1, <1>2, SameTable DEF Place, Walking

(* Deletion and reading leave one node in a bucket.                        *)
LEMMA SerialWalk ==
  ASSUME TypeOK, SerialInv, OneCaller, NEW t \in Tasks, Unregister(t) \/ Read(t)
  PROVE  OneNodePerBucket' /\ ~undef' /\ Place(t)'
<1>1. OneNodePerBucket /\ ~undef /\ Place(t)
  BY DEF SerialInv
<1>2. {"delete", "get", "first", "put", "peek"} = Walking \ {"scan"}
  BY DEF Walking
<1>3. CASE \E nm \in Names : \/ UnregisterBegin(t, nm) \/ GetBegin(t, nm)
                             \/ MappedBegin(t, nm) \/ PeekBegin(t, nm)
  <2>1. PICK nm \in Names : \E op, at : Begin(t, op, at, nm) /\ at \in Walking \ {"scan"}
    BY <1>2, <1>3 DEF UnregisterBegin, GetBegin, MappedBegin, PeekBegin
  <2> QED
    BY <2>1, SerialBegin
<1>4. CASE DeleteEnd(t) \/ GetEnd(t) \/ FirstNone(t) \/ PutEnd(t) \/ PeekEnd(t)
  <2>1. \E at : End(t, at, "idle") \/ End(t, at, "copy")
    BY <1>4 DEF DeleteEnd, GetEnd, FirstNone, PutEnd, PeekEnd
  <2> QED
    BY <2>1, SerialEnd
<1>5. CASE DeleteVisit(t)
  <2>1. node'[t] = Null
    BY <1>1, <1>5, VisitEnds DEF DeleteVisit, Walking
  <2>2. /\ pc'[t] = "delete" /\ ~undef' /\ live' = live \ {node[t]}
        /\ nameOf' = nameOf
    BY <1>1, <1>5 DEF DeleteVisit, Visit
  <2> QED
    BY <1>1, <2>1, <2>2 DEF Place, Walking, OneNodePerBucket
<1>6. CASE GetVisit(t) \/ PutVisit(t) \/ PeekVisit(t)
  <2>1. \E at \in Walking \ {"scan"} : Visit(t, at)
    BY <1>2, <1>6 DEF GetVisit, PutVisit, PeekVisit
  <2>2. UNCHANGED <<live, nameOf, pc, undef>>
    BY <1>6 DEF GetVisit, PutVisit, PeekVisit, table
  <2> QED
    BY <2>1, <2>2, SerialVisit
<1>7. CASE FirstVisit(t)
  <2>1. /\ pc[t] = "first" /\ node[t] \in live /\ pc'[t] = "check" /\ ~undef'
        /\ map'[t] = mapOf[node[t]]
        /\ UNCHANGED <<live, nameOf, mapOf, node, name>>
    BY <1>1, <1>7 DEF FirstVisit, table, TypeOK, OtherTypes
  <2>2. InBucket(t, node[t])
    BY <1>1, <2>1, NodeDefs DEF Place, Walking
  <2> QED
    BY <1>1, <2>1, <2>2, SameTable DEF Place, InBucket, Walking
<1>8. CASE CheckLimits(t)
  <2>1. /\ pc[t] = "check" /\ pc'[t] \in {"using", "idle"} /\ ~undef'
        /\ UNCHANGED <<live, nameOf, mapOf, node, name, map>>
    BY <1>1, <1>8 DEF CheckLimits, Goto, table, TypeOK, OtherTypes
  <2> QED
    BY <1>1, <2>1, SameTable DEF Place, InBucket, Walking
<1>9. CASE PutBegin(t)
  <2>1. /\ pc'[t] = "put" /\ ~undef' /\ WalkFrom(t, name[t]) /\ name'[t] = name[t]
        /\ UNCHANGED <<live, nameOf>>
    BY <1>1, <1>9 DEF PutBegin, Goto, table, TypeOK, OtherTypes
  <2>2. /\ node'[t] # Null => InBucket(t, node[t])'
        /\ ~found'[t]
    BY <1>1, <2>1, BeginPlace, NodeDefs
  <2> QED
    BY <1>1, <2>1, <2>2, SameTable DEF Place
<1>10. CASE GetCopy(t)
  <2>1. pc'[t] = "idle" /\ ~undef' /\ UNCHANGED <<live, nameOf>>
    BY <1>1, <1>10 DEF GetCopy, Goto, table, TypeOK, OtherTypes
  <2> QED
    BY <1>1, <2>1, SameTable DEF Place, Walking
<1> QED
  BY <1>3, <1>4, <1>5, <1>6, <1>7, <1>8, <1>9, <1>10 DEF Unregister, Read

(* A single caller never meets a freed node or a map without reference. *)
LEMMA SerialDefined ==
  ASSUME TypeOK, RefsInv, SerialInv, OneCaller, NEW t \in Tasks
  PROVE  ~Undefined(t)
<1>1. Place(t)
  BY DEF SerialInv
<1>2. pc[t] \in Walking /\ node[t] # Null => node[t] \in live
  BY <1>1 DEF Place, InBucket
<1>3. node[t] \in live => refs[mapOf[node[t]]] > 0
  BY Referenced
<1>4. pc[t] \in {"copy", "put_map"} => refs[map[t]] > 0
  BY Referenced, NodeDefs DEF Holders
<1>5. \A m \in Maps : refs[m] > 0 => refs[m] # 0
  BY DEF TypeOK, OtherTypes
<1> QED
  BY <1>2, <1>3, <1>4, <1>5, NodeDefs DEF Undefined, UsesFreed

(* With one caller no bucket gets a second node, and nothing that is freed *)
(* is used.                                                                *)
LEMMA SerialStep ==
  ASSUME TypeOK, RefsInv, SerialInv, [Next]_vars
  PROVE  SerialInv'
<1> SUFFICES ASSUME OneCaller
             PROVE  OneNodePerBucket' /\ ~undef' /\ \A t \in Tasks : Place(t)'
  BY DEF SerialInv, OneCaller
<1>1. OneNodePerBucket /\ ~undef /\ \A t \in Tasks : Place(t)
  BY DEF SerialInv
<1>2. ASSUME NEW t \in Tasks, TaskStep(t)
      PROVE  OneNodePerBucket' /\ ~undef' /\ \A s \in Tasks : Place(s)'
  <2>1. OneNodePerBucket' /\ ~undef' /\ Place(t)'
    BY <1>2, SerialRegister, SerialWalk, SerialDefined DEF TaskStep
  <2> QED
    BY <2>1 DEF OneCaller
<1>3. CASE \E m \in Maps : CloseFd(m)
  BY <1>1, <1>3 DEF CloseFd, table, locals, OneNodePerBucket, Place, InBucket
<1>4. CASE Unload
  BY <1>1, <1>4 DEF Unload, locals, OneNodePerBucket, Place, Walking
<1>5. CASE UNCHANGED vars
  BY <1>1, <1>5 DEF vars, table, locals, OneNodePerBucket, Place, InBucket
<1> QED
  BY <1>2, <1>3, <1>4, <1>5 DEF Next, TaskStep


-----------------------------------------------------------------------------
(* Reference counts                                                        *)

(* Task t will release map m. *)
Uses(t, m) ==
    \/ map[t] = m /\ pc[t] \in {"alloc", "put_map", "copy", "check", "using"}
    \/ map[t] = m /\ pc[t] = "get" /\ found[t]
    \/ pc[t] = "put" /\ node[t] # Null /\ mapOf[node[t]] = m

Use(t, m) == IF Uses(t, m) THEN 1 ELSE 0

(* What a step changes of it *)
Change(t, m) == Use(t, m)' - Use(t, m)

(* The users of a map change by what the step changes for its own task. *)
LEMMA UsersStep ==
  ASSUME TypeOK, TypeOK', Disciplined, UnmappedInv, NEW t \in Tasks, OnlyTask(t), NEW m \in Maps
  PROVE  /\ Cardinality(Users(m))' \in Nat
         /\ Cardinality(Users(m))' = Cardinality(Users(m)) + Change(t, m)
<1> DEFINE A == Users(m)
           B == Users(m)'
<1>1. A = {s \in Tasks : Uses(s, m)} /\ B = {s \in Tasks : Uses(s, m)'}
  BY DEF Users, Holders, Uses
<1>2. A \ {t} = B \ {t}
  <2>1. ASSUME NEW s \in Tasks, s # t PROVE Uses(s, m)' <=> Uses(s, m)
    <3>1. pc[s] # "put"
      BY <2>1 DEF Disciplined, OneCaller, UnmappedInv
    <3> QED
      BY <2>1, <3>1 DEF OnlyTask, Uses
  <2> QED
    BY <1>1, <2>1
<1>3. /\ Use(t, m) = IF t \in A THEN 1 ELSE 0
      /\ Use(t, m)' = IF t \in B THEN 1 ELSE 0
  BY <1>1 DEF Use
<1>4. IsFiniteSet(A) /\ IsFiniteSet(B)
  <2>1. A \subseteq Tasks /\ B \subseteq Tasks
    BY <1>1
  <2> HIDE DEF A, B
  <2> QED
    BY <2>1, TasksAssumption, FS_Subset
<1> HIDE DEF A, B
<1>5. /\ Cardinality(A) \in Nat /\ Cardinality(B) \in Nat
      /\ Cardinality(A \ {t}) = IF t \in A THEN Cardinality(A) - 1 ELSE Cardinality(A)
      /\ Cardinality(B \ {t}) = IF t \in B THEN Cardinality(B) - 1 ELSE Cardinality(B)
  BY <1>4, FS_RemoveElement, FS_CardinalityType
<1>6. Cardinality(B) = Cardinality(A) + Change(t, m)
  BY <1>2, <1>3, <1>5 DEF Change
<1> QED
  BY <1>5, <1>6 DEF A, B

(* A map's references follow what it needs, if the step gives at least as  *)
(* many as it starts to need: refs by a, nodes by b, its own use.          *)
LEMMA Settle ==
  ASSUME TypeOK, TypeOK', Disciplined, UnmappedInv, RefsInv, NEW t \in Tasks, OnlyTask(t),
         fdOpen' = fdOpen, NEW m \in Maps, NEW a \in Int, NEW b \in Int,
         refs'[m] = refs[m] + a,
         Cardinality(NodesOf(m))' = Cardinality(NodesOf(m)) + b,
         Covers(a, b + Change(t, m))
  PROVE  Covers(refs[m], Needs(m))'
<1> DEFINE f == IF fdOpen[m] THEN 1 ELSE 0
           c == Change(t, m)
           N == Cardinality(NodesOf(m))
           U == Cardinality(Users(m))
<1>1. f \in Int /\ c \in Int
  BY DEF Change, Use
<1>2. N \in Nat /\ U \in Nat /\ U' = U + c
  BY FiniteUsers, UsersStep
<1>3. Needs(m) = f + N + U /\ Needs(m)' = f + N' + U'
  BY DEF Needs
<1>4. refs[m] \in Int
  BY DEF TypeOK, OtherTypes
<1>5. Covers(refs[m], Needs(m))
  BY DEF RefsInv
<1>6. N' = N + b
  OBVIOUS
<1>7. Covers(a, b + c)
  OBVIOUS
<1> HIDE DEF f, c, N, U
<1>8. Needs(m)' = Needs(m) + (b + c) /\ Needs(m) \in Int /\ b + c \in Int
  BY <1>1, <1>2, <1>3, <1>6
<1>9. Covers(refs'[m], Needs(m)')
  BY <1>4, <1>5, <1>7, <1>8 DEF Covers
<1> QED
  BY <1>9 DEF Covers, OneCaller

(* Steps that leave the table alone and change the references to m by d    *)
LEMMA SettleRefs ==
  ASSUME TypeOK, TypeOK', Disciplined, UnmappedInv, RefsInv, NEW t \in Tasks, OnlyTask(t),
         UNCHANGED <<fdOpen, live, mapOf>>, NEW m \in Maps, NEW d \in Int,
         refs'[m] = refs[m] + d, Covers(d, Change(t, m))
  PROVE  Covers(refs[m], Needs(m))'
<1> DEFINE z == 0
<1>1. Cardinality(NodesOf(m))' = Cardinality(NodesOf(m)) + z
  <2>1. NodesOf(m)' = NodesOf(m)
    BY DEF NodesOf
  <2> QED
    BY <2>1, FiniteUsers
<1>2. z \in Int /\ Covers(d, z + Change(t, m))
  BY DEF Change, Use
<1> HIDE DEF z
<1> QED
  BY <1>1, <1>2, Settle

(* Steps that leave the nodes and the references alone *)
LEMMA SettleQuiet ==
  ASSUME TypeOK, TypeOK', Disciplined, UnmappedInv, RefsInv, NEW t \in Tasks, OnlyTask(t),
         UNCHANGED <<fdOpen, refs, live, mapOf>>, NEW m \in Maps,
         Uses(t, m)' => Uses(t, m),
         OneCaller /\ LimitsKnown => (Uses(t, m) => Uses(t, m)')
  PROVE  Covers(refs[m], Needs(m))'
<1> DEFINE z == 0
<1>1. z \in Int /\ refs'[m] = refs[m] + z
  BY DEF TypeOK, OtherTypes
<1>2. Covers(z, Change(t, m))
  BY DEF Change, Use, Covers
<1> HIDE DEF z
<1> QED
  BY <1>1, <1>2, SettleRefs

-----------------------------------------------------------------------------
(* Every step keeps the references.                                        *)

RefsContext(t) == /\ TypeOK /\ TypeOK' /\ Disciplined /\ UnmappedInv /\ RefsInv /\ SerialInv
                  /\ OnlyTask(t) /\ fdOpen' = fdOpen

(* fstore_register: bpf_map_get before the node is added, bpf_map_put when *)
(* it is not.                                                              *)
LEMMA RefsRegister ==
  ASSUME NEW t \in Tasks, RefsContext(t), Register(t), NEW m \in Maps
  PROVE  Covers(refs[m], Needs(m))'
<1>0. /\ TypeOK /\ TypeOK' /\ Disciplined /\ UnmappedInv /\ RefsInv
      /\ OnlyTask(t) /\ fdOpen' = fdOpen
  BY DEF RefsContext
<1> USE DEF Goto
<1>1. CASE \/ \E nm \in Names, k \in Maps : RegisterReserve(t, nm, k)
           \/ RegisterHead(t) \/ ScanEnd(t) \/ RegisterNoMem(t) \/ RegisterUncount(t)
  <2>1. UNCHANGED <<refs, live, mapOf>> /\ (Uses(t, m)' <=> Uses(t, m))
    BY <1>0, <1>1 DEF RegisterReserve, RegisterHead, ScanEnd, RegisterNoMem, RegisterUncount,
       WalkFrom, table, Uses, TypeOK, OtherTypes
  <2> QED
    BY <1>0, <2>1, SettleQuiet
<1>2. CASE ScanVisit(t)
  <2>1. UNCHANGED <<refs, live, mapOf>> /\ (Uses(t, m)' <=> Uses(t, m))
    BY <1>0, <1>2 DEF ScanVisit, Visit, table, Uses, TypeOK, OtherTypes
  <2> QED
    BY <1>0, <2>1, SettleQuiet
<1>3. CASE RegisterMapGet(t)
  <2>1. CASE fdOpen[map[t]]
    <3>1. /\ pc[t] = "mapget" /\ pc'[t] = "alloc" /\ map' = map
          /\ UNCHANGED <<live, mapOf>> /\ map[t] \in Maps
          /\ refs' = [refs EXCEPT ![map[t]] = @ + 1]
      BY <1>0, <1>3, <2>1 DEF RegisterMapGet, MapInc, table, TypeOK, OtherTypes
    <3> DEFINE d == IF m = map[t] THEN 1 ELSE 0
    <3>2. d \in Int /\ refs'[m] = refs[m] + d /\ Covers(d, Change(t, m))
      BY <1>0, <3>1 DEF Change, Use, Uses, Covers, TypeOK, OtherTypes
    <3> HIDE DEF d
    <3> QED
      BY <1>0, <3>1, <3>2, SettleRefs
  <2>2. CASE ~fdOpen[map[t]]
    <3>1. /\ pc[t] = "mapget" /\ pc'[t] = "uncount"
          /\ UNCHANGED <<refs, live, mapOf>>
      BY <1>0, <1>3, <2>2 DEF RegisterMapGet, table, TypeOK, OtherTypes
    <3>2. ~Uses(t, m)' /\ ~Uses(t, m)
      BY <3>1 DEF Uses
    <3> QED
      BY <1>0, <3>1, <3>2, SettleQuiet
  <2> QED
    BY <2>1, <2>2
<1>4. CASE RegisterAdd(t)
  <2>1. /\ pc[t] = "alloc" /\ pc'[t] = "idle" /\ refs' = refs
        /\ live' = live \cup {nextNode} /\ nextNode \in Nodes
        /\ mapOf' = [mapOf EXCEPT ![nextNode] = map[t]]
    BY <1>0, <1>4, BoundsAssumption DEF RegisterAdd, Nodes, TypeOK, OtherTypes
  <2>2. \A n \in live : n # nextNode /\ n \in Nodes
    BY <1>0, NodeDefs
  <2>3. /\ NodesOf(m)' = IF map[t] = m THEN NodesOf(m) \cup {nextNode} ELSE NodesOf(m)
        /\ nextNode \notin NodesOf(m)
    BY <1>0, <2>1, <2>2 DEF NodesOf, TypeOK, OtherTypes
  <2>4. /\ IsFiniteSet(NodesOf(m)) /\ Cardinality(NodesOf(m)) \in Nat
        /\ Cardinality(NodesOf(m) \cup {nextNode}) = Cardinality(NodesOf(m)) + 1
    BY <1>0, <2>3, FiniteUsers, FS_AddElement
  <2> DEFINE b == IF map[t] = m THEN 1 ELSE 0
             z == 0
  <2>5. Cardinality(NodesOf(m))' = Cardinality(NodesOf(m)) + b /\ b \in Int
    BY <2>3, <2>4
  <2>6. z \in Int /\ refs'[m] = refs[m] + z
    BY <1>0, <2>1 DEF TypeOK, OtherTypes
  <2>7. Covers(z, b + Change(t, m))
    BY <2>1 DEF Change, Use, Uses, Covers
  <2> HIDE DEF b, z
  <2> QED
    BY <1>0, <2>5, <2>6, <2>7, Settle
<1>5. CASE RegisterPutMap(t)
  <2>1. /\ pc[t] = "put_map" /\ pc'[t] = "uncount" /\ map[t] \in Maps
        /\ UNCHANGED <<live, mapOf>>
        /\ refs' = [refs EXCEPT ![map[t]] = @ + (-1)]
    BY <1>0, <1>5 DEF RegisterPutMap, MapPut, table, TypeOK, OtherTypes
  <2> DEFINE d == IF m = map[t] THEN -1 ELSE 0
  <2>2. d \in Int /\ refs'[m] = refs[m] + d /\ Covers(d, Change(t, m))
    BY <1>0, <2>1 DEF Change, Use, Uses, Covers, TypeOK, OtherTypes
  <2> HIDE DEF d
  <2> QED
    BY <1>0, <2>1, <2>2, SettleRefs
<1> QED
  BY <1>1, <1>2, <1>3, <1>4, <1>5 DEF Register


(* The beginning and the end of a walk leave the references alone. *)
LEMMA RefsBegin ==
  ASSUME NEW t \in Tasks, RefsContext(t), NEW m \in Maps, NEW op, NEW nm,
         NEW at \in {"delete", "get", "first", "peek"}, Begin(t, op, at, nm)
  PROVE  Covers(refs[m], Needs(m))'
<1>0. /\ TypeOK /\ TypeOK' /\ Disciplined /\ UnmappedInv /\ RefsInv
      /\ OnlyTask(t) /\ fdOpen' = fdOpen
  BY DEF RefsContext
<1>1. /\ pc[t] = "idle" /\ pc'[t] = at /\ ~found'[t]
      /\ UNCHANGED <<refs, live, mapOf>>
  BY <1>0 DEF Begin, Goto, WalkFrom, table, TypeOK, OtherTypes
<1>2. ~Uses(t, m) /\ ~Uses(t, m)'
  BY <1>1 DEF Uses
<1> QED
  BY <1>0, <1>1, <1>2, SettleQuiet

(* The end of a walk gives up what the walk held, if anything.             *)
LEMMA RefsEnd ==
  ASSUME NEW t \in Tasks, RefsContext(t), NEW m \in Maps, NEW at, NEW to, End(t, at, to),
         \/ at \in {"delete", "first", "put", "peek"} /\ to = "idle"
         \/ at = "get" /\ to = IF found[t] THEN "copy" ELSE "idle"
  PROVE  Covers(refs[m], Needs(m))'
<1>0. /\ TypeOK /\ TypeOK' /\ Disciplined /\ UnmappedInv /\ RefsInv
      /\ OnlyTask(t) /\ fdOpen' = fdOpen
  BY DEF RefsContext
<1>1. /\ pc[t] = at /\ pc'[t] = to /\ node[t] = Null
      /\ UNCHANGED <<refs, live, mapOf, map, node, found>>
  BY <1>0 DEF End, Goto, table, TypeOK, OtherTypes
<1>2. Uses(t, m)' <=> Uses(t, m)
  BY <1>1 DEF Uses
<1> QED
  BY <1>0, <1>1, <1>2, SettleQuiet

(* The steps of fstore_unregister: the node takes its reference with it. *)
LEMMA RefsUnregister ==
  ASSUME NEW t \in Tasks, RefsContext(t), Unregister(t), NEW m \in Maps
  PROVE  Covers(refs[m], Needs(m))'
<1>0. /\ TypeOK /\ TypeOK' /\ Disciplined /\ UnmappedInv /\ RefsInv
      /\ OnlyTask(t) /\ fdOpen' = fdOpen
  BY DEF RefsContext
<1>1. CASE \E nm \in Names : UnregisterBegin(t, nm)
  BY <1>1, RefsBegin DEF UnregisterBegin
<1>2. CASE DeleteEnd(t)
  BY <1>2, RefsEnd DEF DeleteEnd
<1>3. CASE DeleteVisit(t)
  <2>1. /\ pc[t] = "delete" /\ pc'[t] = "delete" /\ node[t] \in live
        /\ live' = live \ {node[t]} /\ mapOf' = mapOf
        /\ refs' = [refs EXCEPT ![mapOf[node[t]]] = @ - 1]
    BY <1>3 DEF DeleteVisit, Visit, MapPut
  <2>2. mapOf[node[t]] \in Maps
    BY <1>0, <2>1, NodeDefs
  <2>3. /\ NodesOf(m)' = NodesOf(m) \ {node[t]}
        /\ node[t] \in NodesOf(m) <=> mapOf[node[t]] = m
    BY <2>1 DEF NodesOf
  <2>4. /\ Cardinality(NodesOf(m)) \in Nat
        /\ Cardinality(NodesOf(m) \ {node[t]}) =
             IF node[t] \in NodesOf(m) THEN Cardinality(NodesOf(m)) - 1
                                       ELSE Cardinality(NodesOf(m))
    BY <1>0, FiniteUsers, FS_RemoveElement
  <2> DEFINE b == IF mapOf[node[t]] = m THEN -1 ELSE 0
  <2>5. Cardinality(NodesOf(m))' = Cardinality(NodesOf(m)) + b /\ b \in Int
    BY <2>3, <2>4
  <2>6. refs'[m] = refs[m] + b
    BY <1>0, <2>1, <2>2 DEF TypeOK, OtherTypes
  <2>7. Covers(b, b + Change(t, m))
    BY <2>1 DEF Change, Use, Uses, Covers
  <2> HIDE DEF b
  <2> QED
    BY <1>0, <2>5, <2>6, <2>7, Settle
<1> QED
  BY <1>1, <1>2, <1>3 DEF Unregister

(* The steps of the readers: a reference for every visit of fstore_get and *)
(* one for GET_MAPPED, released by its own task.                           *)
LEMMA RefsRead ==
  ASSUME NEW t \in Tasks, RefsContext(t), Read(t), NEW m \in Maps
  PROVE  Covers(refs[m], Needs(m))'
<1>0. /\ TypeOK /\ TypeOK' /\ Disciplined /\ UnmappedInv /\ RefsInv
      /\ OnlyTask(t) /\ fdOpen' = fdOpen
  BY DEF RefsContext
<1>a. pc[t] \in {"first", "check", "using", "put"} => OneCaller
  BY <1>0 DEF Disciplined, UnmappedInv
<1>b. OneCaller => OneNodePerBucket /\ Place(t)
  BY DEF RefsContext, SerialInv
<1>1. CASE \E nm \in Names : GetBegin(t, nm) \/ MappedBegin(t, nm) \/ PeekBegin(t, nm)
  BY <1>1, RefsBegin DEF GetBegin, MappedBegin, PeekBegin
<1>2. CASE GetEnd(t) \/ FirstNone(t) \/ PutEnd(t) \/ PeekEnd(t)
  BY <1>2, RefsEnd DEF GetEnd, FirstNone, PutEnd, PeekEnd
<1>3. CASE GetVisit(t)
  <2>1. /\ pc[t] = "get" /\ pc'[t] = "get" /\ node[t] \in live /\ found'[t]
        /\ UNCHANGED <<live, mapOf>> /\ map'[t] = mapOf[node[t]]
        /\ refs' = [refs EXCEPT ![mapOf[node[t]]] = @ + 1]
    BY <1>0, <1>3 DEF GetVisit, Visit, MapInc, table, TypeOK, OtherTypes
  <2>2. mapOf[node[t]] \in Maps
    BY <1>0, <2>1, NodeDefs
  <2>3. OneCaller => ~found[t]
    BY <1>0, <1>3, <1>b, VisitEnds DEF GetVisit, Walking
  <2> DEFINE d == IF m = mapOf[node[t]] THEN 1 ELSE 0
  <2>4. d \in Int /\ refs'[m] = refs[m] + d
    BY <1>0, <2>1, <2>2 DEF TypeOK, OtherTypes
  <2>5. Covers(d, Change(t, m))
    BY <2>1, <2>3 DEF Change, Use, Uses, Covers
  <2> HIDE DEF d
  <2> QED
    BY <1>0, <2>1, <2>4, <2>5, SettleRefs
<1>4. CASE GetCopy(t)
  <2>1. /\ pc[t] = "copy" /\ pc'[t] = "idle" /\ map[t] \in Maps
        /\ UNCHANGED <<live, mapOf>>
        /\ refs' = [refs EXCEPT ![map[t]] = @ - 1]
    BY <1>0, <1>4 DEF GetCopy, Goto, MapPut, table, TypeOK, OtherTypes
  <2> DEFINE d == IF m = map[t] THEN -1 ELSE 0
  <2>2. d \in Int /\ refs'[m] = refs[m] + d
    BY <1>0, <2>1 DEF TypeOK, OtherTypes
  <2>3. Covers(d, Change(t, m))
    BY <2>1 DEF Change, Use, Uses, Covers
  <2> HIDE DEF d
  <2> QED
    BY <1>0, <2>1, <2>2, <2>3, SettleRefs
<1>5. CASE FirstVisit(t)
  <2>1. /\ pc[t] = "first" /\ pc'[t] = "check" /\ node[t] \in live
        /\ UNCHANGED <<live, mapOf>> /\ map'[t] = mapOf[node[t]]
        /\ refs' = [refs EXCEPT ![mapOf[node[t]]] = @ + 1]
    BY <1>0, <1>5 DEF FirstVisit, MapInc, table, TypeOK, OtherTypes
  <2>2. mapOf[node[t]] \in Maps
    BY <1>0, <2>1, NodeDefs
  <2> DEFINE d == IF m = mapOf[node[t]] THEN 1 ELSE 0
  <2>3. d \in Int /\ refs'[m] = refs[m] + d
    BY <1>0, <2>1, <2>2 DEF TypeOK, OtherTypes
  <2>4. Covers(d, Change(t, m))
    BY <2>1 DEF Change, Use, Uses, Covers
  <2> HIDE DEF d
  <2> QED
    BY <1>0, <2>1, <2>3, <2>4, SettleRefs
<1>6. CASE CheckLimits(t)
  <2>1. /\ pc[t] = "check" /\ UNCHANGED <<refs, live, mapOf, map>>
        /\ pc'[t] = "using" \/ (~LimitsKnown /\ pc'[t] = "idle")
    BY <1>0, <1>6 DEF CheckLimits, Goto, table, TypeOK, OtherTypes
  <2>2. (Uses(t, m)' => Uses(t, m)) /\ (LimitsKnown => (Uses(t, m) => Uses(t, m)'))
    BY <2>1 DEF Uses
  <2> QED
    BY <1>0, <2>1, <2>2, SettleQuiet
<1>7. CASE PutBegin(t)
  <2>1. /\ pc[t] = "using" /\ pc'[t] = "put" /\ node'[t] = Head(name[t])
        /\ UNCHANGED <<refs, live, mapOf, map>>
    BY <1>0, <1>7 DEF PutBegin, Goto, WalkFrom, table, TypeOK, OtherTypes
  <2>2. InBucket(t, node[t]) /\ map[t] = mapOf[node[t]] /\ OneNodePerBucket
    BY <1>a, <1>b, <2>1 DEF Place
  <2>3. name[t] \in Names
    BY <1>0, NodeDefs
  <2>4. Head(name[t]) = node[t]
    BY <1>0, <2>2, <2>3, HeadOne DEF InBucket, OneNodePerBucket
  <2>5. node[t] # Null
    BY <1>0, <2>2, NodeDefs DEF InBucket
  <2>6. Uses(t, m)' <=> Uses(t, m)
    BY <2>1, <2>2, <2>4, <2>5 DEF Uses
  <2> QED
    BY <1>0, <2>1, <2>6, SettleQuiet
<1>8. CASE PutVisit(t)
  <2>1. /\ pc[t] = "put" /\ pc'[t] = "put" /\ node[t] \in live
        /\ UNCHANGED <<live, mapOf>>
        /\ refs' = [refs EXCEPT ![mapOf[node[t]]] = @ - 1]
    BY <1>8 DEF PutVisit, Visit, MapPut, table
  <2>2. node'[t] = Null
    BY <1>0, <1>8, <1>a, <1>b, <2>1, VisitEnds DEF PutVisit, Walking
  <2>3. mapOf[node[t]] \in Maps /\ node[t] # Null
    BY <1>0, <2>1, NodeDefs
  <2> DEFINE d == IF m = mapOf[node[t]] THEN -1 ELSE 0
  <2>4. d \in Int /\ refs'[m] = refs[m] + d
    BY <1>0, <2>1, <2>3 DEF TypeOK, OtherTypes
  <2>5. Covers(d, Change(t, m))
    BY <2>1, <2>2, <2>3 DEF Change, Use, Uses, Covers
  <2> HIDE DEF d
  <2> QED
    BY <1>0, <2>1, <2>4, <2>5, SettleRefs
<1>9. CASE PeekVisit(t)
  <2>1. pc[t] = "peek" /\ pc'[t] = "peek" /\ UNCHANGED <<refs, live, mapOf>>
    BY <1>9 DEF PeekVisit, Visit, table
  <2>2. ~Uses(t, m)' /\ ~Uses(t, m)
    BY <2>1 DEF Uses
  <2> QED
    BY <1>0, <2>1, <2>2, SettleQuiet
<1> QED
  BY <1>1, <1>2, <1>3, <1>4, <1>5, <1>6, <1>7, <1>8, <1>9 DEF Read


(* No step of a task takes a map below what it is needed for.              *)
LEMMA RefsTask ==
  ASSUME NEW t \in Tasks, TaskStep(t), TypeOK, TypeOK', Disciplined, UnmappedInv, RefsInv, SerialInv
  PROVE  RefsInv'
<1> SUFFICES ASSUME NEW m \in Maps PROVE Covers(refs[m], Needs(m))'
  BY DEF RefsInv
<1>1. RefsContext(t)
  BY TaskMoves DEF RefsContext
<1>2. CASE Undefined(t)
  <2>1. /\ OnlyTask(t) /\ UNCHANGED <<fdOpen, refs, live, mapOf>>
        /\ Uses(t, m)' <=> Uses(t, m)
    BY <1>1, <1>2 DEF RefsContext, Undefined, table, locals, Uses
  <2> QED
    BY <2>1, SettleQuiet
<1> QED
  BY <1>1, <1>2, RefsRegister, RefsUnregister, RefsRead DEF TaskStep

(* The owner of a map gives up the reference of its descriptor only. *)
LEMMA RefsClose ==
  ASSUME TypeOK, RefsInv, NEW k \in Maps, CloseFd(k)
  PROVE  RefsInv'
<1> SUFFICES ASSUME NEW m \in Maps PROVE Covers(refs[m], Needs(m))'
  BY DEF RefsInv
<1>1. /\ UNCHANGED <<live, mapOf, pc, map, node, found>> /\ fdOpen[k]
      /\ refs' = [refs EXCEPT ![k] = @ - 1]
      /\ fdOpen' = [fdOpen EXCEPT ![k] = FALSE]
  BY DEF CloseFd, MapPut, table, locals
<1> DEFINE f == IF fdOpen[m] THEN 1 ELSE 0
           N == Cardinality(NodesOf(m))
           U == Cardinality(Users(m))
<1>2. N' = N /\ U' = U
  <2>1. NodesOf(m)' = NodesOf(m) /\ Users(m)' = Users(m)
    BY <1>1 DEF NodesOf, Users, Holders
  <2> QED
    BY <2>1
<1>3. N \in Nat /\ U \in Nat /\ Needs(m) = f + N + U /\ Needs(m)' = f' + N' + U'
  BY FiniteUsers DEF Needs
<1>4. f \in Int /\ f' \in Int /\ refs[m] \in Int /\ refs'[m] = refs[m] + (f' - f)
  BY <1>1 DEF TypeOK, OtherTypes
<1>5. Covers(refs[m], Needs(m))
  BY DEF RefsInv
<1> HIDE DEF f, N, U
<1>6. Covers(refs'[m], Needs(m)')
  BY <1>2, <1>3, <1>4, <1>5 DEF Covers
<1> QED
  BY <1>6 DEF Covers, OneCaller

(* cleanup_module runs when no task uses a map, and releases a reference   *)
(* for every node.                                                         *)
LEMMA RefsUnload ==
  ASSUME TypeOK, RefsInv, Unload
  PROVE  RefsInv'
<1> SUFFICES ASSUME NEW m \in Maps PROVE Covers(refs[m], Needs(m))'
  BY DEF RefsInv
<1> DEFINE f == IF fdOpen[m] THEN 1 ELSE 0
           N == Cardinality(NodesOf(m))
<1>1. /\ fdOpen' = fdOpen /\ live' = {} /\ pc' = pc /\ \A t \in Tasks : pc[t] = "idle"
      /\ refs'[m] = refs[m] - N
  BY DEF Unload, locals, NodesOf
<1>2. Users(m) = {} /\ Users(m)' = {} /\ NodesOf(m)' = {}
  BY <1>1 DEF Users, Holders, NodesOf
<1>3. N \in Nat /\ Needs(m) = f + N + 0 /\ Needs(m)' = f + 0 + 0
  BY <1>1, <1>2, FiniteUsers, FS_EmptySet DEF Needs
<1>4. f \in Int /\ refs[m] \in Int /\ Covers(refs[m], Needs(m))
  BY DEF RefsInv, TypeOK, OtherTypes
<1> HIDE DEF f, N
<1>5. Covers(refs'[m], Needs(m)')
  BY <1>1, <1>3, <1>4 DEF Covers
<1> QED
  BY <1>5 DEF Covers, OneCaller

(* Nor does any other step.                                                *)
LEMMA RefsStep ==
  ASSUME TypeOK, TypeOK', Disciplined, UnmappedInv, RefsInv, SerialInv, [Next]_vars
  PROVE  RefsInv'
<1>1. CASE UNCHANGED vars
  <2>1. ASSUME NEW m \in Maps PROVE Covers(refs[m], Needs(m))'
    <3>1. refs'[m] = refs[m] /\ Needs(m)' = Needs(m)
      BY <1>1 DEF vars, table, locals, Needs, NodesOf, Users, Holders
    <3>2. Covers(refs[m], Needs(m))
      BY DEF RefsInv
    <3> QED
      BY <3>1, <3>2 DEF Covers, OneCaller
  <2> QED
    BY <2>1 DEF RefsInv
<1> QED
  BY <1>1, RefsTask, RefsClose, RefsUnload DEF Next, TaskStep

-----------------------------------------------------------------------------
(* The theorems                                                            *)

RefsFacts == UnmappedInv /\ SerialInv /\ RefsInv

(* Only the descriptors hold references.                                   *)
LEMMA RefsInit == Init => RefsFacts
<1> SUFFICES ASSUME Init PROVE RefsFacts
  OBVIOUS
<1>1. \A t \in Tasks : pc[t] = "idle"
  BY DEF Init
<1>2. UnmappedInv
  BY <1>1 DEF UnmappedInv
<1>3. SerialInv
  BY <1>1 DEF Init, SerialInv, OneNodePerBucket, Place, Walking
<1>4. ASSUME NEW m \in Maps PROVE refs[m] = 1 /\ Needs(m) = 1
  <2>1. NodesOf(m) = {} /\ Users(m) = {} /\ fdOpen[m] /\ refs[m] = 1
    BY <1>1, <1>4 DEF Init, NodesOf, Users, Holders
  <2> QED
    BY <2>1, FS_EmptySet DEF Needs
<1>5. RefsInv
  BY <1>4 DEF RefsInv, Covers
<1> QED
  BY <1>2, <1>3, <1>5 DEF RefsFacts

(* The inductive invariant of the reference counts, as long as there is    *)
(* one caller or nobody uses GET_MAPPED: a map is referenced at least as   *)
(* often as descriptors, nodes and walks need it (fstore.c:79-260).        *)
THEOREM RefsCorrect == Spec => [](Disciplined => RefsFacts)
<1>1. TypeOK /\ TypeOK' /\ Disciplined /\ RefsFacts /\ [Next]_vars => RefsFacts'
  BY UnmappedStep, SerialStep, RefsStep DEF RefsFacts
<1>2. CASE Disciplined
  BY <1>1, <1>2, RefsInit, TypeCorrect, PTL DEF Spec
<1>3. CASE ~Disciplined
  BY <1>3, PTL
<1> QED
  BY <1>2, <1>3

(* Without GET_MAPPED, however registrations, deletions, reads, failures   *)
(* and closed descriptors interleave, a map keeps a reference for its      *)
(* descriptor, for each of its nodes and for each task that reads it.      *)
THEOREM RefsCoverCorrect == Spec => [](Disciplined => RefsCover)
<1>1. TypeOK /\ RefsFacts => RefsCover
  <2> SUFFICES ASSUME TypeOK, RefsFacts, NEW m \in Maps
               PROVE  refs[m] >= (IF fdOpen[m] THEN 1 ELSE 0) + Cardinality(NodesOf(m))
                                   + Cardinality(Holders(m))
    BY DEF RefsCover
  <2> DEFINE f == IF fdOpen[m] THEN 1 ELSE 0
             N == Cardinality(NodesOf(m))
             U == Cardinality(Users(m))
             H == Cardinality(Holders(m))
  <2>1. refs[m] >= f + N + U /\ refs[m] \in Int
    BY DEF RefsFacts, RefsInv, Covers, Needs, TypeOK, OtherTypes
  <2>2. f \in Int /\ N \in Int /\ U \in Int /\ H \in Int /\ H <= U
    BY FiniteUsers
  <2> HIDE DEF f, N, U, H
  <2>3. refs[m] >= f + N + H
    BY <2>1, <2>2
  <2> QED
    BY <2>3 DEF f, N, H
<1> QED
  BY <1>1, RefsCorrect, TypeCorrect, PTL

(* With one caller at a time that knows the limits of its maps, nothing    *)
(* leaks: between calls a map has the references of its descriptor and its *)
(* nodes and no others.                                                    *)
THEOREM BalanceCorrect == Spec => [](OneCaller /\ LimitsKnown => RefsBalanced)
<1>1. TypeOK /\ RefsFacts /\ OneCaller /\ LimitsKnown => RefsBalanced
  <2> SUFFICES ASSUME TypeOK, RefsFacts, OneCaller, LimitsKnown, Idle, NEW m \in Maps
               PROVE  refs[m] = (IF fdOpen[m] THEN 1 ELSE 0) + Cardinality(NodesOf(m))
    BY DEF RefsBalanced
  <2>1. Users(m) = {}
    BY DEF Idle, Users, Holders
  <2>2. refs[m] = (IF fdOpen[m] THEN 1 ELSE 0) + Cardinality(NodesOf(m)) + 0
    BY <2>1, FS_EmptySet DEF RefsFacts, RefsInv, Covers, Needs
  <2> QED
    BY <2>2, FiniteUsers
<1>2. OneCaller => Disciplined
  BY DEF Disciplined
<1> QED
  BY <1>1, <1>2, RefsCorrect, TypeCorrect, PTL

(* With one caller at a time the -EEXIST check of fstore_register leaves   *)
(* no bucket with two nodes.                                               *)
THEOREM OneNodeCorrect == Spec => [](OneCaller => OneNodePerBucket)
<1>1. RefsFacts /\ OneCaller => OneNodePerBucket
  BY DEF RefsFacts, SerialInv
<1>2. OneCaller => Disciplined
  BY DEF Disciplined
<1> QED
  BY <1>1, <1>2, RefsCorrect, PTL

(* With one caller at a time no operation uses a freed node or map.        *)
THEOREM DefinedCorrect == Spec => [](OneCaller => NeverUndefined)
<1>1. RefsFacts /\ OneCaller => NeverUndefined
  BY DEF RefsFacts, SerialInv, NeverUndefined
<1>2. OneCaller => Disciplined
  BY DEF Disciplined
<1> QED
  BY <1>1, <1>2, RefsCorrect, PTL
=============================================================================
