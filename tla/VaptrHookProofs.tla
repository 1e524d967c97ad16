-------------------------- MODULE VaptrHookProofs --------------------------
(***************************************************************************)
(* Theorems about VaptrHook, for any number of pages, frames and keys, any *)
(* pids and any number of restarts of redis-server: type correctness, the  *)
(* cache of pagemap files, and that access bits are neither falsely clear  *)
(* nor falsely set.                                                        *)
(***************************************************************************)
EXTENDS VaptrHook, PageAccessProofs

USE DEF None

-----------------------------------------------------------------------------
(* The inductive invariant                                                 *)

Resolving == pc \in {"pid", "resolve"}

(* What holds at the places poll() is at. *)
PollState ==
    /\ pc \in {"vaptr", "pid", "resolve", "arm"} => pending = NoSamples
    /\ Resolving => attempt \in {0, 1} /\ todo \subseteq Available(raw)
    /\ pc = "pid" => \A k \in Keys : ~Halfway(k)
    /\ pc = "resolve" => redisPid \in Pids

(* Where the cache has the file of redis_pid, and that it has no other. *)
CacheInv ==
    /\ \A p \in Pids : pagemap[p] # None => p = redisPid
    /\ /\ redisPid \in Pids
       /\ ~Resolving \/ \E k \in Keys : Halfway(k)
       => pagemap[redisPid] # None

(* While the pages of the server that printed the addresses stand still,   *)
(* the second attempt has its pid, and no file but its own.                *)
RecoverInv ==
    Resolving /\ moved # VPages =>
        /\ server # None
        /\ attempt = 1 /\ pc = "pid" => redisPid = None
        /\ attempt = 1 /\ pc = "resolve" =>
               redisPid = pid /\ pagemap[redisPid] \in {None, server}

(* The frames found for a page are right as long as it stands still. *)
Sound(s) ==
    \A k \in DOMAIN s : s[k].page \notin {None} \cup moved =>
        /\ s[k].at.mapped # None => frame[s[k].page] = s[k].at.mapped
        /\ s[k].at.tracking # None =>
               /\ s[k].at.mapped # None
               /\ s[k].at.tracking = HeadOf(s[k].at.mapped)

SoundInv == Sound(pending) /\ Sound(raw)

(* Of a page that stands still the idle bit says whether it was accessed.  *)
BitsInv ==
    \A k \in DOMAIN pending :
        /\ pending[k].page \notin {None} \cup moved
        /\ pending[k].at.tracking # None
        => (pending[k].at.tracking \in idle <=> pending[k].page \notin hit)

Inv == /\ TypeOK /\ PollState /\ CacheInv /\ RecoverInv
       /\ FramesInv /\ SoundInv /\ BitsInv

-----------------------------------------------------------------------------
(* Samples are functions from some keys to samples.                        *)

(* What is known of a member of Samples. *)
LEMMA SamplesElim ==
    ASSUME NEW s \in Samples
    PROVE  /\ DOMAIN s \subseteq Keys
           /\ \A k \in DOMAIN s : s[k] \in Sample
           /\ s = [k \in DOMAIN s |-> s[k]]
  BY DEF Samples

(* What makes a function a member of Samples. *)
LEMMA SamplesIntro ==
    ASSUME NEW K \in SUBSET Keys, NEW s \in [K -> Sample]
    PROVE  s \in Samples
  BY DEF Samples

(* No samples are samples. *)
LEMMA NoSamplesTyped == NoSamples \in Samples /\ DOMAIN NoSamples = {}
<1>1. NoSamples \in [{} -> Sample]
  BY DEF NoSamples
<1> QED
  BY <1>1, SamplesIntro DEF NoSamples

-----------------------------------------------------------------------------
(* Type correctness                                                        *)

(* The program and the kernel keep the types. *)
LEMMA EnvironmentType == TypeOK /\ Environment => TypeOK'
  BY KernelType DEF TypeOK, Environment, hookVars


(* Storing a value keeps the types. *)
LEMMA PlaceType ==
    ASSUME NEW k \in Keys, NEW v \in VPages \cup {None}, TypeOK, Place(k, v)
    PROVE  TypeOK'
  BY DEF Place, TypeOK, MemoryTypeOK, memoryVars, kernelVars, trackerVars,
         historyVars, hookVars

(* A step of resolve_many, or its failure, keeps the types. *)
LEMMA ResolveType == TypeOK /\ PollState /\ Resolve => TypeOK'
<1> SUFFICES ASSUME TypeOK, PollState, Resolve
             PROVE  TypeOK'
  OBVIOUS
<1> USE DEF historyVars, kernelVars, Pcs
<1>1. /\ todo \subseteq Available(raw) /\ Available(raw) \subseteq DOMAIN raw
      /\ attempt \in {0, 1} /\ redisPid \in Pids
      /\ \A k \in todo : raw[k].page \in VPages
  BY SamplesElim DEF PollState, Resolving, Resolve, Available, TypeOK, Sample
<1>2. /\ DOMAIN raw \subseteq Keys /\ \A k \in DOMAIN raw : raw[k] \in Sample
      /\ raw = [k \in DOMAIN raw |-> raw[k]]
  BY SamplesElim DEF TypeOK
<1>3. ASSUME NEW k \in Keys, Halfway(k), ReadFlags(k)
      PROVE  TypeOK'
  <2>1. TrackingPfn(raw[k].at.mapped) \in PFNs
    BY <1>1, <1>2, <1>3, HugeFrames DEF TrackingPfn, HeadOf, Halfway, Sample
  <2>2. raw' \in [DOMAIN raw -> Sample]
    BY <1>1, <1>2, <1>3, <2>1 DEF ReadFlags, Halfway, Sample
  <2>3. raw' \in Samples
    BY <1>2, <2>2, SamplesIntro
  <2> QED
    BY <1>3, <2>3 DEF Resolve, ReadFlags, TypeOK, MemoryTypeOK
<1>4. ASSUME NEW k \in Keys, ReadPagemap(k)
      PROVE  TypeOK'
  <2>1. frame[raw[k].page] \in PFNs \cup {None}
    BY <1>1, <1>4 DEF ReadPagemap, TypeOK, MemoryTypeOK
  <2>2. raw' \in [DOMAIN raw -> Sample]
    <3> DEFINE s == [raw[k] EXCEPT !.at.mapped = frame[raw[k].page]]
    <3>1. raw[k] \in Sample /\ k \in DOMAIN raw
      BY <1>1, <1>2, <1>4 DEF ReadPagemap
    <3>2. s \in Sample
      BY <2>1, <3>1 DEF Sample
    <3>3. raw' = [raw EXCEPT ![k] = s]
      BY <1>2, <1>4, <3>1 DEF ReadPagemap
    <3> HIDE DEF s
    <3> QED
      BY <1>2, <3>2, <3>3
  <2>3. raw' \in Samples
    BY <1>2, <2>2, SamplesIntro
  <2>4. pagemap' \in [Pids -> Servers \cup {None}] /\ todo' \subseteq Keys
    BY <1>4 DEF ReadPagemap, OpenPagemap, TypeOK, MemoryTypeOK
  <2> QED
    BY <1>4, <2>3, <2>4 DEF Resolve, ReadPagemap, TypeOK, MemoryTypeOK
<1>5. ASSUME ResolveFails
      PROVE  TypeOK'
  <2>1. raw' \in [DOMAIN raw -> Sample]
    BY <1>2, <1>5 DEF ResolveFails, Sample, NoPage
  <2>2. raw' \in Samples
    BY <1>2, <2>1, SamplesIntro
  <2>3. redisPid' \in Pids \cup {None} /\ pagemap' \in [Pids -> Servers \cup {None}]
    BY <1>5 DEF ResolveFails, Invalidate, InvalidatePid, TypeOK, MemoryTypeOK
  <2>4. attempt' \in 0..2 /\ todo' \subseteq Keys /\ pc' \in Pcs
    BY <1>1, <1>2, <1>5 DEF ResolveFails
  <2> QED
    BY <2>2, <2>3, <2>4 DEF Resolve, TypeOK, MemoryTypeOK
<1> QED
  BY <1>3, <1>4, <1>5 DEF Resolve

(* The steps of poll() keep the types. *)
LEMMA PollType == TypeOK /\ PollState /\ Poll => TypeOK'
<1> SUFFICES ASSUME TypeOK, PollState, Poll
             PROVE  TypeOK'
  OBVIOUS
<1> USE DEF Goto, Pcs, historyVars, trackerVars, kernelVars, memoryVars
<1>1. CASE Begin
  BY <1>1 DEF Begin, TypeOK, MemoryTypeOK
<1>2. CASE Discover
  BY <1>2 DEF Discover, TypeOK, MemoryTypeOK
<1>3. CASE Record
  <2>1. ASSUME NEW k \in DOMAIN pending
        PROVE  RowOf(k, pending[k].page, pending[k].at) \in Row
    BY SamplesElim DEF RowOf, Valid, TypeOK, Row, Sample
  <2>2. rows' \subseteq Row
    BY <1>3, <2>1 DEF Record, RowsOf
  <2> QED
    BY <1>3, <2>2, NoSamplesTyped DEF Record, TypeOK, MemoryTypeOK
<1>4. CASE RunVaptr
  <2>1. CASE pc' = "idle"
    BY <1>4, <2>1 DEF RunVaptr, TypeOK, MemoryTypeOK
  <2>2. CASE pc' # "idle"
    <3>1. /\ raw' = [k \in keyNames |-> [page |-> place[k], at |-> NoPage]]
          /\ todo' = Available(raw') /\ attempt' = 0 /\ moved' = {}
          /\ pc' \in {"arm", "pid"} /\ UNCHANGED had /\ rows' = {}
      BY <1>4, <2>2 DEF RunVaptr
    <3>2. raw' \in [keyNames -> Sample]
      BY <3>1 DEF Sample, NoPage, TypeOK
    <3>3. raw' \in Samples
      BY <3>2, SamplesIntro DEF TypeOK
    <3>4. todo' \subseteq Keys
      BY <3>1, <3>2 DEF Available, TypeOK
    <3> QED
      BY <1>4, <3>1, <3>3, <3>4 DEF RunVaptr, TypeOK, MemoryTypeOK
  <2> QED
    BY <2>1, <2>2
<1>5. CASE GetPid
  <2>1. redisPid' \in Pids \cup {None}
    BY <1>5 DEF GetPid, PidAlive, TypeOK, MemoryTypeOK
  <2>2. pagemap' \in [Pids -> Servers \cup {None}]
    <3>1. CASE UNCHANGED pagemap
      BY <3>1 DEF TypeOK, MemoryTypeOK
    <3>2. CASE InvalidatePid(redisPid)
      BY <3>2 DEF InvalidatePid, TypeOK, MemoryTypeOK
    <3> QED
      BY <1>5, <3>1, <3>2 DEF GetPid
  <2>3. todo' \subseteq Keys /\ pc' \in Pcs
    BY <1>5 DEF GetPid, TypeOK
  <2>4. /\ UNCHANGED <<server, starts, pid, frame, huge, idle, armed, hit, moved>>
        /\ UNCHANGED <<place, keyNames, pending, had, raw, attempt, rows>>
    BY <1>5 DEF GetPid
  <2> QED
    BY <2>1, <2>2, <2>3, <2>4 DEF TypeOK, MemoryTypeOK
<1>6. CASE Resolve
  BY <1>6, ResolveType
<1>7. CASE ArmSamples
  <2>1. \A k \in DOMAIN raw : k \in Keys /\ raw[k] \in Sample
    BY SamplesElim DEF TypeOK
  <2>2. ASSUME NEW k \in DOMAIN raw
        PROVE  [key |-> k, page |-> raw[k].page, valid |-> FALSE,
                accessed |-> FALSE] \in Row
    BY <2>1 DEF Row, Sample
  <2>3. rows' \subseteq Row
    BY <1>7, <2>2 DEF ArmSamples
  <2>4. armed' \subseteq PFNs
    BY <1>7, <2>1 DEF ArmSamples, Arm, Sample, TypeOK, MemoryTypeOK
  <2>5. idle' \subseteq PFNs
    BY <1>7, <2>1 DEF ArmSamples, Arm, Sample, TypeOK, MemoryTypeOK
  <2>6. /\ UNCHANGED <<server, starts, pid, frame, huge, pagemap, moved, place>>
        /\ UNCHANGED <<keyNames, redisPid, todo>>
        /\ hit' = {} /\ pending' = raw /\ raw' = NoSamples
        /\ had' = FALSE /\ attempt' = 0 /\ pc' = "idle"
    BY <1>7 DEF ArmSamples
  <2>7. MemoryTypeOK'
    BY <2>4, <2>5, <2>6 DEF TypeOK, MemoryTypeOK
  <2>8. pending' \in Samples /\ raw' \in Samples
    BY <2>6, NoSamplesTyped DEF TypeOK
  <2>9. place' \in [Keys -> VPages \cup {None}] /\ had' \in BOOLEAN
    BY <2>6 DEF TypeOK
  <2> QED
    BY <2>3, <2>6, <2>7, <2>8, <2>9 DEF TypeOK
<1> QED
  BY <1>1, <1>2, <1>3, <1>4, <1>5, <1>6, <1>7 DEF Poll

-----------------------------------------------------------------------------
(* Where poll() is, and the cache of pagemap files                         *)

(* What the hook keeps when it takes no step. *)
LEMMA HookUnchanged ==
    PollState /\ UNCHANGED hookVars => PollState'
  BY DEF PollState, hookVars, Resolving, Available, Halfway

(* The steps of poll() keep what is known of the places it is at. *)
LEMMA PollStateKept == TypeOK /\ PollState /\ Poll => PollState'
<1> SUFFICES ASSUME TypeOK, PollState, Poll
             PROVE  PollState'
  OBVIOUS
<1> USE DEF Goto, Resolving
<1>1. CASE Begin
  BY <1>1 DEF Begin, PollState
<1>2. CASE Discover
  BY <1>2 DEF Discover, PollState
<1>3. CASE Record
  BY <1>3 DEF Record, PollState
<1>4. CASE RunVaptr
  <2>1. CASE pc' = "idle"
    BY <1>4, <2>1 DEF RunVaptr, PollState
  <2>2. CASE pc' # "idle"
    <3>1. /\ raw' = [k \in keyNames |-> [page |-> place[k], at |-> NoPage]]
          /\ todo' = Available(raw)' /\ attempt' = 0
          /\ pc' \in {"arm", "pid"} /\ UNCHANGED pending /\ pc = "vaptr"
      BY <1>4, <2>2 DEF RunVaptr, Available
    <3>2. \A k \in Keys : ~Halfway(k)'
      BY <3>1 DEF Halfway, Available, NoPage
    <3> QED
      BY <3>1, <3>2 DEF PollState
  <2> QED
    BY <2>1, <2>2
<1>5. CASE GetPid
  <2>1. pc = "pid" /\ UNCHANGED <<pending, attempt, raw>> /\ pc' \in {"resolve", "arm"}
    BY <1>5 DEF GetPid
  <2>2. pc' = "resolve" => redisPid' \in Pids /\ UNCHANGED todo
    BY <1>5 DEF GetPid, TypeOK, MemoryTypeOK
  <2> QED
    BY <2>1, <2>2 DEF PollState, Available
<1>6. CASE Resolve
  <2>1. DOMAIN raw \subseteq Keys /\ \A k \in DOMAIN raw : raw[k] \in Sample
    BY SamplesElim DEF TypeOK
  <2>2. /\ pc = "resolve" /\ pending' = NoSamples /\ attempt \in {0, 1}
        /\ todo \subseteq Available(raw) /\ redisPid \in Pids
    BY <1>6 DEF Resolve, PollState
  <2>3. ASSUME NEW k \in Keys, Halfway(k), ReadFlags(k)
        PROVE  PollState'
    <3>1. todo' \subseteq Available(raw')
      BY <2>1, <2>2, <2>3 DEF ReadFlags, Available, Sample
    <3> QED
      BY <2>2, <2>3, <3>1 DEF ReadFlags, PollState, Available
  <2>4. ASSUME NEW k \in Keys, ReadPagemap(k)
        PROVE  PollState'
    <3>1. todo' \subseteq Available(raw')
      BY <2>1, <2>2, <2>4 DEF ReadPagemap, Available, Sample
    <3> QED
      BY <2>2, <2>4, <3>1 DEF ReadPagemap, PollState, Available
  <2>5. ASSUME ResolveFails
        PROVE  PollState'
    <3>1. CASE attempt = 0
      <4>1. todo' \subseteq Available(raw')
        BY <2>1, <2>5, <3>1 DEF ResolveFails, Available, Sample
      <4>2. \A k \in Keys : k \in todo' => raw'[k].at.mapped = None
        BY <2>1, <2>5, <3>1 DEF ResolveFails, Available, Sample, NoPage
      <4> QED
        <5>1. /\ pc' = "pid" /\ attempt' = 1
              /\ \A k \in Keys : ~Halfway(k)'
          BY <2>2, <2>5, <3>1, <4>2 DEF ResolveFails, Halfway
        <5> QED
          BY <2>2, <4>1, <5>1 DEF PollState
    <3>2. CASE attempt # 0
      BY <2>2, <2>5, <3>2 DEF ResolveFails, PollState
    <3> QED
      BY <3>1, <3>2
  <2> QED
    BY <1>6, <2>3, <2>4, <2>5 DEF Resolve
<1>7. CASE ArmSamples
  BY <1>7 DEF ArmSamples, PollState
<1> QED
  BY <1>1, <1>2, <1>3, <1>4, <1>5, <1>6, <1>7 DEF Poll

(* The program and the kernel leave the cache alone. *)
LEMMA EnvironmentCache ==
    ASSUME CacheInv, UNCHANGED <<hookVars, pagemap>>
    PROVE  CacheInv'
  BY DEF CacheInv, hookVars, Resolving, Halfway

(* The steps of poll() keep one file cached at most, that of redis_pid. *)
LEMMA PollCache == TypeOK /\ PollState /\ CacheInv /\ Poll => CacheInv'
<1> SUFFICES ASSUME TypeOK, PollState, CacheInv, Poll
             PROVE  CacheInv'
  OBVIOUS
<1> USE DEF Goto, Resolving, kernelVars, trackerVars, historyVars, memoryVars
<1>0. pagemap \in [Pids -> Servers \cup {None}] /\ redisPid \in Pids \cup {None}
  BY DEF TypeOK, MemoryTypeOK
<1>1. CASE Begin
  BY <1>1 DEF Begin, CacheInv
<1>2. CASE Discover
  BY <1>2 DEF Discover, CacheInv
<1>3. CASE Record
  BY <1>3 DEF Record, CacheInv
<1>4. CASE RunVaptr
  BY <1>4 DEF RunVaptr, CacheInv
<1>5. CASE GetPid
  <2>1. \A k \in Keys : ~Halfway(k)'
    BY <1>5 DEF GetPid, PollState, Halfway
  <2>2. CASE UNCHANGED <<redisPid, pagemap>> /\ pc' = "resolve"
    BY <2>1, <2>2 DEF CacheInv
  <2>3. CASE ~(UNCHANGED <<redisPid, pagemap>> /\ pc' = "resolve")
    <3>1. \A p \in Pids : pagemap'[p] = None
      BY <1>0, <1>5, <2>3, PidsAssumption DEF GetPid, InvalidatePid, CacheInv
    <3>2. redisPid' \in Pids => pc' = "resolve"
      BY <1>0, <1>5, <2>3, PidsAssumption DEF GetPid
    <3> QED
      BY <2>1, <3>1, <3>2 DEF CacheInv
  <2> QED
    BY <2>2, <2>3
<1>6. CASE Resolve
  <2>1. redisPid \in Pids /\ pc = "resolve"
    BY <1>6 DEF Resolve, PollState
  <2>2. ASSUME NEW k \in Keys, Halfway(k), ReadFlags(k)
        PROVE  CacheInv'
    BY <2>1, <2>2 DEF ReadFlags, CacheInv
  <2>3. ASSUME NEW k \in Keys, ReadPagemap(k)
        PROVE  CacheInv'
    <3>1. OpenPagemap(redisPid) # None
      BY <2>3 DEF ReadPagemap, CanResolve, PidAlive
    <3> QED
      BY <1>0, <2>1, <2>3, <3>1 DEF ReadPagemap, CacheInv
  <2>4. ASSUME ResolveFails
        PROVE  CacheInv'
    <3>1. redisPid' = None /\ \A p \in Pids : pagemap'[p] = None
      BY <1>0, <2>1, <2>4, PidsAssumption
         DEF ResolveFails, Invalidate, InvalidatePid, CacheInv
    <3> QED
      BY <3>1, PidsAssumption DEF CacheInv
  <2> QED
    BY <1>6, <2>2, <2>3, <2>4 DEF Resolve
<1>7. CASE ArmSamples
  BY <1>7 DEF ArmSamples, CacheInv
<1> QED
  BY <1>1, <1>2, <1>3, <1>4, <1>5, <1>6, <1>7 DEF Poll

-----------------------------------------------------------------------------
(* The second attempt                                                      *)

(* As long as the pages stand still, the server that printed the addresses *)
(* goes on.                                                                *)
LEMMA EnvironmentRecover == TypeOK /\ RecoverInv /\ Environment => RecoverInv'
<1> SUFFICES ASSUME TypeOK, RecoverInv, Environment
             PROVE  RecoverInv'
  OBVIOUS
<1>1. UNCHANGED <<redisPid, pc, attempt, pagemap>> /\ moved \subseteq VPages
  BY DEF Environment, hookVars, Kernel, Start, Exit, FaultHuge, Collapse,
         Split, Access, Unmap, Fault, Migrate, Disturb, trackerVars, TypeOK,
         MemoryTypeOK
<1>2. CASE Start
  BY <1>1, <1>2 DEF Start, RecoverInv, historyVars, Resolving
<1>3. CASE Exit
  BY <1>1, <1>3 DEF Exit, RecoverInv, Disturb, Resolving
<1>4. CASE ~Start /\ ~Exit
  <2>1. UNCHANGED <<server, pid>> /\ moved \subseteq moved'
    BY <1>4 DEF Environment, Kernel, FaultHuge, Collapse, Split, Access, Unmap,
                Fault, Migrate, Disturb, TypeOK, MemoryTypeOK
  <2>2. moved' \subseteq VPages
    BY EnvironmentType DEF TypeOK, MemoryTypeOK
  <2> QED
    BY <1>1, <2>1, <2>2 DEF RecoverInv, Resolving
<1> QED
  BY <1>2, <1>3, <1>4

(* The steps of poll() keep what the second attempt needs. *)
LEMMA PollRecover ==
    TypeOK /\ PollState /\ CacheInv /\ RecoverInv /\ Poll => RecoverInv'
<1> SUFFICES ASSUME TypeOK, PollState, CacheInv, RecoverInv, Poll
             PROVE  RecoverInv'
  OBVIOUS
<1> USE DEF Goto, Resolving, kernelVars, trackerVars, historyVars, memoryVars
<1>0. /\ pagemap \in [Pids -> Servers \cup {None}] /\ redisPid \in Pids \cup {None}
      /\ server # None => pid \in Pids
  BY DEF TypeOK, MemoryTypeOK
<1>1. CASE Begin \/ Discover \/ Record
  BY <1>1 DEF Begin, Discover, Record, RecoverInv
<1>2. CASE RunVaptr
  BY <1>2 DEF RunVaptr, RecoverInv
<1>3. CASE GetPid
  <2>1. CASE attempt = 1 /\ moved # VPages
    <3>1. redisPid = None /\ server # None
      BY <1>3, <2>1 DEF GetPid, RecoverInv
    <3>2. \A p \in Pids : pagemap[p] = None
      BY <3>1, PidsAssumption DEF CacheInv
    <3> QED
      BY <1>0, <1>3, <3>1, <3>2 DEF GetPid, RecoverInv
  <2>2. CASE attempt # 1 \/ moved = VPages
    BY <1>3, <2>2 DEF GetPid, RecoverInv
  <2> QED
    BY <2>1, <2>2
<1>4. CASE Resolve
  <2>1. redisPid \in Pids /\ pc = "resolve" /\ UNCHANGED <<server, pid, moved>>
    BY <1>4 DEF Resolve, PollState
  <2>2. ASSUME NEW k \in Keys, ReadFlags(k)
        PROVE  RecoverInv'
    BY <2>1, <2>2 DEF ReadFlags, RecoverInv
  <2>3. ASSUME NEW k \in Keys, ReadPagemap(k)
        PROVE  RecoverInv'
    BY <1>0, <2>1, <2>3 DEF ReadPagemap, CanResolve, OpenPagemap, RecoverInv
  <2>4. ASSUME ResolveFails
        PROVE  RecoverInv'
    BY <2>1, <2>4, PidsAssumption DEF ResolveFails, Invalidate, RecoverInv
  <2> QED
    BY <1>4, <2>2, <2>3, <2>4 DEF Resolve
<1>5. CASE ArmSamples
  BY <1>5 DEF ArmSamples, RecoverInv
<1> QED
  BY <1>1, <1>2, <1>3, <1>4, <1>5 DEF Poll

(* Giving up means that the pages have moved. *)
LEMMA GivesUpMoved ==
    TypeOK /\ PollState /\ RecoverInv /\ pc = "resolve" /\ ResolveFails /\ pc' = "arm"
    => moved = VPages
<1> SUFFICES ASSUME TypeOK, PollState, RecoverInv, pc = "resolve", ResolveFails,
                    pc' = "arm", moved # VPages
             PROVE  FALSE
  OBVIOUS
<1>1. attempt = 1
  BY DEF ResolveFails, PollState, Resolving
<1>2. server # None /\ redisPid = pid /\ pagemap[redisPid] \in {None, server}
  BY <1>1 DEF RecoverInv, Resolving
<1> QED
  BY <1>2 DEF ResolveFails, CanResolve, PidAlive, OpenPagemap

-----------------------------------------------------------------------------
(* Frames, samples and idle bits                                           *)

(* The program and the kernel keep the frames found for pages that stand   *)
(* still right.                                                            *)
LEMMA EnvironmentSound ==
    ASSUME TypeOK, FramesInv, Environment, NEW s \in Samples, Sound(s)
    PROVE  Sound(s)'
<1>1. \A k \in DOMAIN s : s[k] \in Sample
  BY SamplesElim
<1> SUFFICES ASSUME NEW k \in DOMAIN s, s[k].page \notin {None} \cup moved'
             PROVE  /\ s[k].at.mapped # None => frame'[s[k].page] = s[k].at.mapped
                    /\ s[k].at.tracking # None =>
                         /\ s[k].at.mapped # None
                         /\ s[k].at.tracking = HeadOf(s[k].at.mapped)'
  BY DEF Sound
<1>2. s[k].page \in VPages
  BY <1>1 DEF Sample
<1>3. /\ s[k].page \notin moved
      /\ frame'[s[k].page] = frame[s[k].page]
      /\ frame[s[k].page] # None =>
            HeadOf(frame[s[k].page])' = HeadOf(frame[s[k].page])
  BY <1>2, StandsStill DEF TypeOK, Environment
<1>4. s[k].at.mapped # None => frame[s[k].page] = s[k].at.mapped
  BY <1>3 DEF Sound
<1>5. s[k].at.tracking # None =>
        s[k].at.mapped # None /\ s[k].at.tracking = HeadOf(s[k].at.mapped)
  BY <1>3 DEF Sound
<1>6. s[k].at.mapped # None => HeadOf(s[k].at.mapped)' = HeadOf(s[k].at.mapped)
  BY <1>3, <1>4 DEF HeadOf
<1> QED
  BY <1>3, <1>4, <1>5, <1>6

(* They keep the bits of pages that stand still right as well.             *)
LEMMA EnvironmentBits ==
    TypeOK /\ FramesInv /\ SoundInv /\ BitsInv /\ Environment => BitsInv'
<1> SUFFICES ASSUME TypeOK, FramesInv, SoundInv, BitsInv, Environment
             PROVE  BitsInv'
  OBVIOUS
<1>1. pending' = pending
  BY DEF Environment, hookVars
<1> SUFFICES ASSUME NEW k \in DOMAIN pending,
                    pending[k].page \notin {None} \cup moved',
                    pending[k].at.tracking # None
             PROVE  pending[k].at.tracking \in idle' <=> pending[k].page \notin hit'
  BY <1>1 DEF BitsInv
<1>2. pending[k].page \in VPages
  BY SamplesElim DEF Sample, TypeOK
<1> DEFINE v == pending[k].page
<1>3. v \notin moved /\ frame'[v] = frame[v]
  BY <1>2, StandsStill DEF TypeOK, Environment
<1>4. frame[v] # None /\ pending[k].at.tracking = HeadOf(frame[v])
  BY <1>3 DEF SoundInv, Sound
<1>5. HeadOf(frame[v]) \in idle <=> v \notin hit
  BY <1>3, <1>4 DEF BitsInv
<1> QED
  BY <1>2, <1>4, <1>5, StandsStill DEF TypeOK, Environment

(* What Sound and the bits depend on. *)
LEMMA PollMemory ==
    Poll => /\ UNCHANGED <<server, starts, pid, frame, huge>>
            /\ ~ArmSamples => UNCHANGED <<idle, hit>>
            /\ ~RunVaptr => UNCHANGED moved
  BY DEF Poll, Begin, Discover, Record, RunVaptr, GetPid, Resolve, ArmSamples,
         memoryVars, kernelVars, trackerVars, historyVars

(* Reading pagemap and kpageflags finds the frames of a page.              *)
LEMMA PollSound ==
    TypeOK /\ PollState /\ FramesInv /\ SoundInv /\ Poll => SoundInv'
<1> SUFFICES ASSUME TypeOK, PollState, FramesInv, SoundInv, Poll
             PROVE  SoundInv'
  OBVIOUS
<1>0. /\ DOMAIN raw \subseteq Keys /\ \A k \in DOMAIN raw : raw[k] \in Sample
      /\ UNCHANGED <<frame, huge>>
  BY SamplesElim, PollMemory DEF TypeOK
<1>A. Sound(NoSamples)'
  BY NoSamplesTyped DEF Sound
<1>B. UNCHANGED <<moved, pending>> => Sound(pending)'
  BY <1>0 DEF SoundInv, Sound, HeadOf
<1>C. UNCHANGED <<moved, raw>> => Sound(raw)'
  BY <1>0 DEF SoundInv, Sound, HeadOf
<1> USE DEF memoryVars, historyVars
<1>1. CASE Begin \/ Discover \/ GetPid
  BY <1>1, <1>B, <1>C DEF Begin, Discover, GetPid, SoundInv
<1>2. CASE Record
  BY <1>2, <1>A, <1>C DEF Record, SoundInv
<1>3. CASE RunVaptr
  <2>1. Sound(pending)'
    BY <1>3, <1>A DEF RunVaptr, Goto, PollState
  <2>2. CASE UNCHANGED <<moved, raw>>
    BY <1>C, <2>1, <2>2 DEF SoundInv
  <2>3. CASE raw' = [k \in keyNames |-> [page |-> place[k], at |-> NoPage]]
    BY <2>1, <2>3 DEF SoundInv, Sound, NoPage
  <2> QED
    BY <1>3, <2>2, <2>3 DEF RunVaptr
<1>4. CASE Resolve
  <2>1. UNCHANGED <<moved, pending>> /\ todo \subseteq Available(raw)
    BY <1>4 DEF Resolve, PollState, Resolving
  <2>2. ASSUME NEW k \in Keys, Halfway(k), ReadFlags(k)
        PROVE  Sound(raw)'
    <3>1. raw' = [raw EXCEPT ![k].at.tracking = HeadOf(raw[k].at.mapped)]
      BY <2>2 DEF ReadFlags, TrackingPfn
    <3>2. raw[k].at.mapped # None
      BY <2>2 DEF Halfway
    <3> QED
      BY <1>0, <2>1, <3>1, <3>2 DEF SoundInv, Sound, HeadOf, Sample
  <2>3. ASSUME NEW k \in Keys, ReadPagemap(k)
        PROVE  Sound(raw)'
    <3>1. raw' = [raw EXCEPT ![k].at.mapped = frame[raw[k].page]]
      BY <2>3 DEF ReadPagemap
    <3> QED
      BY <1>0, <2>1, <3>1 DEF SoundInv, Sound, HeadOf, Sample
  <2>4. ASSUME ResolveFails
        PROVE  Sound(raw)'
    BY <1>0, <2>1, <2>4 DEF ResolveFails, Sound, NoPage, Sample
  <2> QED
    BY <1>4, <1>B, <2>1, <2>2, <2>3, <2>4 DEF Resolve, SoundInv
<1>5. CASE ArmSamples
  <2>1. pending' = raw /\ raw' = NoSamples /\ UNCHANGED moved
    BY <1>5 DEF ArmSamples
  <2> QED
    BY <1>0, <1>A, <2>1 DEF SoundInv, Sound, HeadOf
<1> QED
  BY <1>1, <1>2, <1>3, <1>4, <1>5 DEF Poll

(* Arming sets the idle bit of every page it forgets the accesses of.      *)
LEMMA ArmBits ==
    TypeOK /\ FramesInv /\ SoundInv /\ ArmSamples => BitsInv'
<1> SUFFICES ASSUME TypeOK, FramesInv, SoundInv, ArmSamples
             PROVE  BitsInv'
  OBVIOUS
<1>1. pending' = raw /\ hit' = {} /\ UNCHANGED moved
  BY DEF ArmSamples
<1> SUFFICES ASSUME NEW k \in DOMAIN raw,
                    raw[k].page \notin {None} \cup moved, raw[k].at.tracking # None
             PROVE  raw[k].at.tracking \in idle'
  BY <1>1 DEF BitsInv
<1> DEFINE f == raw[k].at.tracking
           v == raw[k].page
<1>2. v \in VPages
  BY SamplesElim DEF Sample, TypeOK
<1>3. frame[v] # None /\ f = HeadOf(frame[v])
  BY DEF SoundInv, Sound
<1>4. HeadOf(f) = f
  BY <1>3, HugeFrames DEF HeadOf
<1>5. f \in Used
  <2>1. CASE huge /\ frame[v] \in VPages
    BY <1>3, <2>1, HugeFrames DEF HeadOf, FramesInv, Used
  <2>2. CASE ~(huge /\ frame[v] \in VPages)
    BY <1>2, <1>3, <2>2 DEF HeadOf, Used
  <2> QED
    BY <2>1, <2>2
<1> QED
  BY <1>4, <1>5 DEF ArmSamples, Arm

(* The other steps of poll() disturb no bit of a pending sample.           *)
LEMMA PollBits ==
    TypeOK /\ PollState /\ FramesInv /\ SoundInv /\ BitsInv /\ Poll => BitsInv'
<1> SUFFICES ASSUME TypeOK, PollState, FramesInv, SoundInv, BitsInv, Poll,
                    ~ArmSamples
             PROVE  BitsInv'
  BY ArmBits
<1>1. UNCHANGED <<idle, hit>>
  BY PollMemory
<1>2. CASE RunVaptr \/ Record
  <2>1. pending' = NoSamples
    BY <1>2 DEF RunVaptr, Record, Goto, PollState
  <2> QED
    BY <2>1, NoSamplesTyped DEF BitsInv
<1>3. CASE ~RunVaptr /\ ~Record
  <2>1. UNCHANGED <<pending, moved>>
    BY <1>3 DEF Poll, Begin, Discover, GetPid, Resolve, memoryVars, historyVars
  <2> QED
    BY <1>1, <2>1 DEF BitsInv
<1> QED
  BY <1>2, <1>3

-----------------------------------------------------------------------------
(* The theorems                                                            *)

(* Everything holds of the initial state. *)
LEMMA InitInv == Init => Inv
<1> SUFFICES ASSUME Init
             PROVE  Inv
  OBVIOUS
<1> USE DEF Init, MemoryInit, NoFrames
<1>1. TypeOK
  <2>1. huge \in BOOLEAN /\ had \in BOOLEAN
    OBVIOUS
  <2>2. /\ frame \in [VPages -> PFNs \cup {None}] /\ starts \in 0..MaxServers
        /\ pagemap \in [Pids -> Servers \cup {None}]
    BY ServersAssumption
  <2>3. MemoryTypeOK
    BY <2>1, <2>2 DEF MemoryTypeOK
  <2>4. place \in [Keys -> VPages \cup {None}] /\ keyNames \subseteq Keys
    BY KeysAssumption
  <2> QED
    BY <2>1, <2>3, <2>4, NoSamplesTyped DEF TypeOK, Pcs
<1>2. PollState /\ CacheInv /\ RecoverInv
  BY PidsAssumption DEF PollState, CacheInv, RecoverInv, Resolving
<1>3. FramesInv /\ SoundInv /\ BitsInv
  BY NoSamplesTyped DEF FramesInv, SoundInv, Sound, BitsInv
<1> QED
  BY <1>1, <1>2, <1>3 DEF Inv

(* Every step keeps the invariant. *)
LEMMA StepInv == Inv /\ [Next]_vars => Inv'
<1> SUFFICES ASSUME Inv, [Next]_vars
             PROVE  Inv'
  OBVIOUS
<1> USE DEF Inv
<1>1. CASE Environment
  <2>1. UNCHANGED <<pagemap, hookVars>>
    BY <1>1 DEF Environment, Kernel, Start, Exit, FaultHuge, Collapse, Split,
                Access, Unmap, Fault, Migrate, Disturb, trackerVars
  <2>2. SoundInv'
    <3>1. UNCHANGED <<pending, raw>> /\ pending \in Samples /\ raw \in Samples
      BY <2>1 DEF hookVars, TypeOK
    <3>2. \A s \in Samples : Sound(s) => Sound(s)'
      BY <1>1, EnvironmentSound
    <3> QED
      BY <3>1, <3>2 DEF SoundInv, Sound
  <2>3. FramesInv'
    BY <1>1, KernelFrames DEF TypeOK, Environment
  <2> QED
    BY <1>1, <2>1, <2>2, <2>3, EnvironmentType, HookUnchanged, EnvironmentCache,
       EnvironmentRecover, EnvironmentBits
<1>2. ASSUME NEW k \in Keys, NEW v \in VPages \cup {None}, Place(k, v)
      PROVE  Inv'
  <2>1. UNCHANGED <<memoryVars, hookVars>>
    BY <1>2 DEF Place
  <2>2. TypeOK'
    BY <1>2, PlaceType
  <2> QED
    BY <2>1, <2>2 DEF PollState, CacheInv, RecoverInv, FramesInv, SoundInv, Sound,
       BitsInv, Resolving, Halfway, Available, HeadOf, memoryVars, kernelVars,
       trackerVars, historyVars, hookVars
<1>3. CASE Poll
  <2>1. FramesInv'
    BY <1>3, PollMemory DEF FramesInv
  <2> QED
    BY <1>3, <2>1, PollType, PollStateKept, PollCache, PollRecover, PollSound, PollBits
<1>4. CASE UNCHANGED vars
  <2>1. TypeOK'
    BY <1>4 DEF vars, memoryVars, kernelVars, trackerVars, historyVars, hookVars,
                TypeOK, MemoryTypeOK
  <2> QED
    BY <1>4, <2>1 DEF vars, PollState, CacheInv, RecoverInv, FramesInv, SoundInv,
       Sound, BitsInv, Resolving, Halfway, Available, HeadOf, memoryVars,
       kernelVars, trackerVars, historyVars, hookVars
<1> QED
  BY <1>1, <1>2, <1>3, <1>4 DEF Next

(* The invariant holds in every behaviour. *)
THEOREM InvCorrect == Spec => []Inv
  BY InitInv, StepInv, PTL DEF Spec

(* Every variable of the hook, the tracker and the kernel keeps its type.  *)
THEOREM TypeCorrect == Spec => []TypeOK
<1>1. Inv => TypeOK
  BY DEF Inv
<1> QED
  BY <1>1, InvCorrect, PTL

(* The cache of pagemap files has the file of redis_pid and no other.      *)
THEOREM CacheCorrect == Spec => []CacheOnlyCurrent
<1>1. Inv => CacheOnlyCurrent
  BY DEF Inv, TypeOK, CacheInv, CacheOnlyCurrent, Resolving
<1> QED
  BY <1>1, InvCorrect, PTL

(* Only the death of the server makes both attempts of resolve_many fail.  *)
THEOREM RecoverCorrect == Spec => ResolveRecovers
<1>1. Inv /\ [Next]_vars =>
        [pc = "resolve" /\ ResolveFails /\ pc' = "arm" => moved = VPages]_vars
  BY GivesUpMoved DEF Inv
<1> QED
  BY <1>1, InvCorrect, PTL DEF Spec, ResolveRecovers

(* In a row about a page that stood still, access_bit is right. *)
LEMMA RowsRight ==
    ASSUME Inv, [Next]_vars, Reads,
           NEW r \in rows', r.valid, r.page # None, r.page \notin moved
    PROVE  r.accessed <=> r.page \in hit
<1>1. rows' = RowsOf(pending)
  BY DEF Next, Poll, Reads, Environment, Place, hookVars, vars, Goto, Begin,
         Discover, Record, RunVaptr, GetPid, Resolve, ResolveFails, ReadPagemap,
         ReadFlags, ArmSamples
<1>2. PICK k \in DOMAIN pending : r = RowOf(k, pending[k].page, pending[k].at)
  BY <1>1 DEF RowsOf
<1>3. /\ r.page = pending[k].page
      /\ r.valid = Valid(pending[k].at)
      /\ r.accessed = (Valid(pending[k].at) /\ pending[k].at.tracking \notin idle)
  BY <1>2 DEF RowOf
<1>4. pending[k].at.tracking # None
  BY <1>3, HugeFrames DEF Valid, Inv, TypeOK, MemoryTypeOK
<1>5. pending[k].at.tracking \in idle <=> pending[k].page \notin hit
  BY <1>3, <1>4 DEF Inv, BitsInv
<1> QED
  BY <1>3, <1>5

(* A clear access bit means that a page that stood still was not accessed. *)
THEOREM NoFalseIdleCorrect == Spec => NoFalseIdle
<1>1. Inv /\ [Next]_vars =>
        [Reads => \A r \in rows' :
            r.valid /\ ~r.accessed /\ Steady(r) => r.page \notin hit]_vars
  BY RowsRight DEF Steady
<1> QED
  BY <1>1, InvCorrect, PTL DEF Spec, NoFalseIdle

(* A set access bit means that a page that stood still was accessed. *)
THEOREM NoFalseAccessCorrect == Spec => NoFalseAccess
<1>1. Inv /\ [Next]_vars =>
        [Reads => \A r \in rows' :
            r.valid /\ r.accessed /\ Steady(r) => r.page \in hit]_vars
  BY RowsRight DEF Steady
<1> QED
  BY <1>1, InvCorrect, PTL DEF Spec, NoFalseAccess
=============================================================================
