-------------------------- MODULE PageAccessProofs --------------------------
(***************************************************************************)
(* What the kernel of PageAccess keeps, for any number of pages and frames *)
(* and any restarts of the program: types, that no frame backs two pages,  *)
(* that only mapped heads have an idle bit, and what a step does to a page *)
(* that stands still.  The proofs about both trackers rest on it.          *)
(***************************************************************************)
EXTENDS PageAccess, TLAPS

USE DEF None

(* A frame backs one page, and the huge page is in place. *)
FramesInv ==
    /\ \A v, w \in VPages : frame[v] = frame[w] /\ frame[v] # None => v = w
    /\ huge => \A v \in VPages : frame[v] = v

(* A page that is mapped is one of a program. *)
OwnerInv == server = None => frame = NoFrames

(* Only mapped frames, and of a huge page only its head, have an idle bit. *)
IdleInv == \A f \in idle : f \in Used /\ HeadOf(f) = f

MemoryInv == MemoryTypeOK /\ FramesInv /\ OwnerInv /\ IdleInv

(* The frames of the huge page are frames. *)
LEMMA HugeFrames == VPages \subseteq PFNs /\ 1 \in VPages /\ 0 \notin PFNs
  BY MemoryAssumption DEF VPages, PFNs

(* The program and the kernel keep the types. *)
LEMMA KernelType == MemoryTypeOK /\ Kernel => MemoryTypeOK'
<1> SUFFICES ASSUME MemoryTypeOK, Kernel
             PROVE  MemoryTypeOK'
  OBVIOUS
<1> USE DEF MemoryTypeOK, Disturb, historyVars,
            trackerVars, kernelVars, HeadOf, Used, NoFrames
<1>1. CASE Start
  BY <1>1, ServersAssumption, SMTT(30) DEF Start, Servers
<1>2. CASE Exit
  BY <1>2 DEF Exit
<1>3. CASE FaultHuge
  BY <1>3, HugeFrames DEF FaultHuge
<1>4. CASE Collapse
  BY <1>4, HugeFrames DEF Collapse
<1>5. CASE Split
  BY <1>5, HugeFrames DEF Split
<1>6. ASSUME NEW v \in VPages, Access(v) PROVE MemoryTypeOK'
  BY <1>6 DEF Access
<1>7. ASSUME NEW v \in VPages, Unmap(v) PROVE MemoryTypeOK'
  BY <1>7 DEF Unmap
<1>8. ASSUME NEW v \in VPages, NEW f \in PFNs, Fault(v, f) PROVE MemoryTypeOK'
  BY <1>8 DEF Fault
<1>9. ASSUME NEW v \in VPages, NEW f \in PFNs, Migrate(v, f) PROVE MemoryTypeOK'
  BY <1>9 DEF Migrate
<1> QED
  BY <1>1, <1>2, <1>3, <1>4, <1>5, <1>6, <1>7, <1>8, <1>9 DEF Kernel

(* Every step of the kernel keeps the frames of the pages apart.           *)
LEMMA KernelFrames == MemoryTypeOK /\ FramesInv /\ Kernel => FramesInv'
<1> SUFFICES ASSUME MemoryTypeOK, FramesInv, Kernel
             PROVE  FramesInv'
  OBVIOUS
<1> USE DEF FramesInv, Used, NoFrames
<1>0. frame \in [VPages -> PFNs \cup {None}]
  BY DEF MemoryTypeOK
<1>1. CASE Start \/ Split \/ \E v \in VPages : Access(v)
  BY <1>1 DEF Start, Split, Access
<1>2. CASE Exit \/ FaultHuge \/ Collapse
  BY <1>2 DEF Exit, FaultHuge, Collapse
<1>3. ASSUME NEW v \in VPages, Unmap(v) PROVE FramesInv'
  BY <1>0, <1>3 DEF Unmap
<1>4. ASSUME NEW v \in VPages, NEW f \in PFNs, Fault(v, f) \/ Migrate(v, f)
      PROVE  FramesInv'
  <2>1. ~huge /\ UNCHANGED huge /\ f \notin Used /\ v # None
    BY <1>0, <1>4, HugeFrames DEF Fault, Migrate
  <2>2. frame' = [frame EXCEPT ![v] = f]
    BY <1>4 DEF Fault, Migrate
  <2> QED
    BY <1>0, <2>1, <2>2
<1> QED
  BY <1>1, <1>2, <1>3, <1>4 DEF Kernel

(* Memory without a program stays free of pages. *)
LEMMA KernelOwner == MemoryTypeOK /\ OwnerInv /\ Kernel => OwnerInv'
<1> SUFFICES ASSUME MemoryTypeOK, OwnerInv, Kernel, server' = None
             PROVE  frame' = NoFrames
  BY DEF OwnerInv
<1> USE DEF OwnerInv, NoFrames
<1>1. CASE server # None
  <2>1. Exit
    BY <1>1 DEF Kernel, Start, FaultHuge, Collapse, Split, Access, Unmap, Fault, Migrate
  <2> QED
    BY <2>1 DEF Exit
<1>2. CASE server = None
  <2>1. \A v \in VPages : frame[v] = None
    BY <1>2
  <2>2. ~Start
    BY ServersAssumption DEF Start, MemoryTypeOK
  <2>3. Used = {}
    BY <2>1 DEF Used
  <2>4. ~FaultHuge /\ ~Collapse /\ ~Exit
    BY <1>2, <2>3 DEF Split, FaultHuge, Collapse, Exit, MemoryTypeOK
  <2> QED
    BY <1>2, <2>1, <2>2, <2>4 DEF Kernel, Split, Access, Unmap, Fault, Migrate
<1> QED
  BY <1>1, <1>2

(* The kernel clears the idle bits of what it frees and moves.             *)
LEMMA KernelIdle ==
    MemoryTypeOK /\ FramesInv /\ IdleInv /\ Kernel => IdleInv'
<1> SUFFICES ASSUME MemoryTypeOK, FramesInv, IdleInv, Kernel
             PROVE  IdleInv'
  OBVIOUS
<1>0. /\ frame \in [VPages -> PFNs \cup {None}] /\ idle \subseteq PFNs
      /\ \A f \in idle : f \in Used /\ HeadOf(f) = f
  BY DEF MemoryTypeOK, IdleInv
<1> SUFFICES ASSUME NEW f \in idle'
             PROVE  f \in Used' /\ HeadOf(f)' = f
  BY DEF IdleInv
<1> USE DEF Used, HeadOf, Disturb
<1>1. CASE Start \/ \E v \in VPages : Access(v)
  BY <1>0, <1>1 DEF Start, Access
<1>2. CASE Exit \/ FaultHuge \/ Collapse
  BY <1>0, <1>2 DEF Exit, FaultHuge, Collapse
<1>3. CASE Split
  <2>1. \A w \in VPages : frame[w] = w /\ w # None
    BY <1>3, HugeFrames DEF Split, FramesInv
  <2> QED
    BY <1>0, <1>3, <2>1 DEF Split
<1>4. ASSUME NEW v \in VPages, Unmap(v) PROVE f \in Used' /\ HeadOf(f)' = f
  <2>1. f \in idle /\ f # HeadOf(frame[v])
    BY <1>4 DEF Unmap
  <2>2. CASE huge
    BY <1>0, <1>4, <2>1, <2>2 DEF Unmap, FramesInv
  <2>3. CASE ~huge
    BY <1>0, <1>4, <2>1, <2>3 DEF Unmap
  <2> QED
    BY <2>2, <2>3
<1>5. ASSUME NEW v \in VPages, NEW g \in PFNs, Fault(v, g)
      PROVE  f \in Used' /\ HeadOf(f)' = f
  BY <1>0, <1>5, HugeFrames DEF Fault
<1>6. ASSUME NEW v \in VPages, NEW g \in PFNs, Migrate(v, g)
      PROVE  f \in Used' /\ HeadOf(f)' = f
  <2>1. /\ ~huge /\ UNCHANGED huge /\ frame' = [frame EXCEPT ![v] = g]
        /\ idle' = (idle \ {frame[v]}) \cup (IF frame[v] \in idle THEN {g} ELSE {})
    BY <1>6 DEF Migrate
  <2>2. CASE f = g
    BY <1>0, <2>1, <2>2, HugeFrames
  <2>3. CASE f # g
    BY <1>0, <2>1, <2>3
  <2> QED
    BY <2>2, <2>3
<1> QED
  BY <1>1, <1>2, <1>3, <1>4, <1>5, <1>6 DEF Kernel

(* What a step of the kernel keeps.                                        *)
LEMMA KernelInv == MemoryInv /\ Kernel => MemoryInv'
  BY KernelType, KernelFrames, KernelOwner, KernelIdle DEF MemoryInv

(* All pages move when a program ends, so that none is left that stands    *)
(* still when the next one starts.                                         *)
LEMMA KernelServer ==
    ASSUME MemoryTypeOK, Kernel
    PROVE  /\ moved \subseteq moved'
           /\ server # None /\ moved' # VPages => UNCHANGED <<server, pid>>
           /\ UNCHANGED <<pagemap, armed>>
<1> USE DEF Disturb, historyVars, trackerVars, MemoryTypeOK
<1>1. CASE Start
  BY <1>1 DEF Start
<1>2. CASE Exit \/ FaultHuge \/ Collapse \/ Split
  BY <1>2 DEF Exit, FaultHuge, Collapse, Split
<1>3. CASE \E v \in VPages : Access(v) \/ Unmap(v)
  BY <1>3 DEF Access, Unmap
<1>4. CASE \E v \in VPages, f \in PFNs : Fault(v, f) \/ Migrate(v, f)
  BY <1>4 DEF Fault, Migrate
<1> QED
  BY <1>1, <1>2, <1>3, <1>4 DEF Kernel

(* What a step of the kernel does to a page that stands still: it keeps    *)
(* its frame and the head of that frame, and clears the idle bit of the    *)
(* head exactly if it sets the page's access.                              *)
LEMMA StandsStill ==
    ASSUME MemoryTypeOK, FramesInv, Kernel, NEW v \in VPages, v \notin moved'
    PROVE  /\ v \notin moved
           /\ frame[v]' = frame[v]
           /\ frame[v] # None =>
                /\ HeadOf(frame[v])' = HeadOf(frame[v])
                /\ (HeadOf(frame[v]) \in idle <=> v \notin hit) =>
                       (HeadOf(frame[v]) \in idle' <=> v \notin hit')
<1> USE DEF FramesInv, Disturb
<1>0. /\ frame \in [VPages -> PFNs \cup {None}] /\ moved \subseteq VPages
      /\ hit \subseteq VPages
  BY DEF MemoryTypeOK
<1>1. CASE Start
  BY <1>1 DEF Start, historyVars, HeadOf
<1>2. CASE Exit \/ FaultHuge \/ Collapse \/ Split
  BY <1>2 DEF Exit, FaultHuge, Collapse, Split
<1> DEFINE Goal ==
           /\ v \notin moved
           /\ frame[v]' = frame[v]
           /\ frame[v] # None =>
                /\ HeadOf(frame[v])' = HeadOf(frame[v])
                /\ (HeadOf(frame[v]) \in idle <=> v \notin hit) =>
                       (HeadOf(frame[v]) \in idle' <=> v \notin hit')
<1>3. ASSUME NEW w \in VPages, Access(w) PROVE Goal
  <2>1. UNCHANGED <<frame, huge, moved>>
    BY <1>3 DEF Access
  <2>2. CASE huge
    BY <1>0, <1>3, <2>1, <2>2 DEF Access, HeadOf
  <2>3. CASE ~huge
    BY <1>0, <1>3, <2>1, <2>3 DEF Access, HeadOf
  <2> QED
    BY <2>2, <2>3
<1>4. ASSUME NEW w \in VPages, Unmap(w) PROVE Goal
  <2>1. ~huge /\ v # w
    BY <1>0, <1>4 DEF Unmap
  <2> QED
    BY <1>0, <1>4, <2>1 DEF Unmap, HeadOf
<1>5. ASSUME NEW w \in VPages, NEW f \in PFNs, Fault(w, f) PROVE Goal
  BY <1>0, <1>5 DEF Fault, HeadOf
<1>6. ASSUME NEW w \in VPages, NEW f \in PFNs, Migrate(w, f) PROVE Goal
  BY <1>0, <1>6 DEF Migrate, HeadOf, Used
<1> QED
  BY <1>1, <1>2, <1>3, <1>4, <1>5, <1>6 DEF Kernel

(* The initial memory is free. *)
LEMMA InitMemory == MemoryInit => MemoryInv
<1> SUFFICES ASSUME MemoryInit
             PROVE  MemoryInv
  OBVIOUS
<1> USE DEF MemoryInit, NoFrames
<1>1. /\ frame \in [VPages -> PFNs \cup {None}] /\ starts \in 0..MaxServers
      /\ pagemap \in [Pids -> Servers \cup {None}]
  BY ServersAssumption
<1>2. MemoryTypeOK
  BY <1>1 DEF MemoryTypeOK
<1>3. FramesInv /\ OwnerInv /\ IdleInv
  BY DEF FramesInv, OwnerInv, IdleInv
<1> QED
  BY <1>2, <1>3 DEF MemoryInv
=============================================================================
