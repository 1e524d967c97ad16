----------------------------- MODULE PageAccess -----------------------------
(***************************************************************************)
(* PageAccessTracker of python/kernmlops/data_collection/page_access.py    *)
(* and the kernel files it works with: /proc/<pid>/pagemap, kpageflags and *)
(* the idle page bitmap.  The tracker resolves a virtual page to a frame,  *)
(* normalises a tail of a huge page to its head, marks frames idle (arms   *)
(* them) and later reads which of them are idle still.                     *)
(*                                                                         *)
(* One program is tracked, which may exit and be started again, under the  *)
(* same pid or another one.  Its memory is one stretch of virtual pages    *)
(* that either base frames back, or one huge page.  Every mapped frame is  *)
(* on an LRU list.  A read of a /proc or /sys file is a step.              *)
(***************************************************************************)
EXTENDS Integers, FiniteSets

CONSTANTS
    Pages,       \* number of virtual pages, as many as a huge page has
    Frames,      \* number of page frames; the huge page is at 1..Pages
    Pids,        \* process ids
    MaxServers   \* bound: times the program is started

ASSUME MemoryAssumption == Pages \in Nat \ {0} /\ Frames \in Nat /\ Frames >= Pages
ASSUME ServersAssumption == MaxServers \in Nat

None      == 0                \* no frame, no pid, no process

ASSUME PidsAssumption == Pids # {} /\ None \notin Pids

VPages    == 1..Pages
PFNs      == 1..Frames
Servers   == 1..MaxServers

VARIABLES
    server,  \* the process, numbered by its start; None while there is none
    starts,  \* processes started so far
    pid,     \* the pid of the last one
    frame,   \* frame[v]: the frame behind virtual page v
    huge,    \* frames 1..Pages are one huge page, mapped by VPages
    idle,    \* frames whose bit in the idle bitmap is set
    pagemap, \* pagemap[p]: the process whose pagemap file is cached for pid p
    armed,   \* _armed_pfns
    hit,     \* pages accessed since they were last armed (history)
    moved    \* pages whose backing changed since the program printed their
             \* addresses (history)

kernelVars  == <<server, starts, pid, frame, huge, idle>>
trackerVars == <<pagemap, armed>>
historyVars == <<hit, moved>>
memoryVars  == <<kernelVars, trackerVars, historyVars>>

MemoryTypeOK ==
    /\ server \in Servers \cup {None} /\ starts \in 0..MaxServers
    /\ pid \in Pids \cup {None} /\ (server # None => pid \in Pids)
    /\ frame \in [VPages -> PFNs \cup {None}]
    /\ huge \in BOOLEAN /\ idle \subseteq PFNs
    /\ pagemap \in [Pids -> Servers \cup {None}]
    /\ armed \subseteq PFNs
    /\ hit \subseteq VPages /\ moved \subseteq VPages

NoFrames == [v \in VPages |-> None]

MemoryInit ==
    /\ server = None /\ starts = 0 /\ pid = None
    /\ frame = NoFrames /\ huge = FALSE /\ idle = {}
    /\ pagemap = [p \in Pids |-> None] /\ armed = {}
    /\ hit = {} /\ moved = {}

Used == {frame[v] : v \in VPages} \ {None}

(* kpageflags: the head of the compound page frame f belongs to. *)
HeadOf(f) == IF huge /\ f \in VPages THEN 1 ELSE f

-----------------------------------------------------------------------------
(* The kernel and the program.                                             *)

Disturb(S) == /\ moved' = moved \cup S
              /\ UNCHANGED <<hit, trackerVars>>

Start ==
    /\ server = None /\ starts < MaxServers
    /\ starts' = starts + 1 /\ server' = starts'
    /\ pid' \in Pids
    /\ UNCHANGED <<frame, huge, idle, trackerVars, historyVars>>

(* Its memory is freed; a free frame has no idle bit. *)
Exit ==
    /\ server # None
    /\ server' = None
    /\ frame' = NoFrames /\ huge' = FALSE /\ idle' = {}
    /\ Disturb(VPages)
    /\ UNCHANGED <<starts, pid>>

(* A load or store to page v: the first one faults it in. *)
Fault(v, f) ==
    /\ server # None /\ frame[v] = None
    /\ f \notin Used
    /\ frame' = [frame EXCEPT ![v] = f]
    /\ hit' = hit \cup {v}
    /\ moved' = moved \cup {v}
    /\ UNCHANGED <<server, starts, pid, huge, idle, trackerVars>>

(* The first touch of untouched memory may map a huge page at once. *)
FaultHuge ==
    /\ server # None /\ Used = {}
    /\ frame' = [v \in VPages |-> v] /\ huge' = TRUE
    /\ hit' = VPages
    /\ moved' = VPages
    /\ UNCHANGED <<server, starts, pid, idle, trackerVars>>

(* Access is found per page table entry: one to a huge page is one to all  *)
(* of its pages.                                                           *)
Access(v) ==
    /\ frame[v] # None
    /\ idle' = idle \ {HeadOf(frame[v])}
    /\ hit' = hit \cup (IF huge THEN VPages ELSE {v})
    /\ UNCHANGED <<server, starts, pid, frame, huge, trackerVars, moved>>

(* Compaction moves page v, idle bit and all, to another frame. *)
Migrate(v, f) ==
    /\ ~huge /\ frame[v] # None /\ f \notin Used
    /\ frame' = [frame EXCEPT ![v] = f]
    /\ idle' = (idle \ {frame[v]}) \cup (IF frame[v] \in idle THEN {f} ELSE {})
    /\ Disturb({v})
    /\ UNCHANGED <<server, starts, pid, huge>>

(* madvise, munmap or swap out of one page or the huge page. *)
Unmap(v) ==
    /\ frame[v] # None
    /\ frame' = IF huge THEN NoFrames ELSE [frame EXCEPT ![v] = None]
    /\ huge' = FALSE
    /\ idle' = idle \ {HeadOf(frame[v])}
    /\ Disturb(IF huge THEN VPages ELSE {v})
    /\ UNCHANGED <<server, starts, pid>>

(* khugepaged copies the pages into a free huge page. *)
Collapse ==
    /\ ~huge /\ Used # {} /\ Used \cap VPages = {}
    /\ frame' = [v \in VPages |-> v] /\ huge' = TRUE
    /\ idle' = idle \ Used
    /\ Disturb(VPages)
    /\ UNCHANGED <<server, starts, pid>>

(* A huge page is split: its pages keep its idle bit and become            *)
(* independent of each other.                                              *)
Split ==
    /\ huge
    /\ huge' = FALSE
    /\ idle' = idle \cup (IF 1 \in idle THEN VPages ELSE {})
    /\ Disturb(VPages)
    /\ UNCHANGED <<server, starts, pid, frame>>

Kernel ==
    \/ Start \/ Exit \/ FaultHuge \/ Collapse \/ Split
    \/ \E v \in VPages : Access(v) \/ Unmap(v)
    \/ \E v \in VPages, f \in PFNs : Fault(v, f) \/ Migrate(v, f)

-----------------------------------------------------------------------------
(* The tracker.                                                            *)

(* proc_root.joinpath(str(pid)).is_dir() *)
PidAlive(p) == server # None /\ p = pid

(* Mutant: a new process may find the former one's file in the cache. *)
InvalidatePidKeeps(p) == UNCHANGED pagemap

InvalidatePid(p) == pagemap' = [pagemap EXCEPT ![p] = None]

(* _get_pagemap_file: a cached file is used again while the pid exists.    *)
OpenPagemap(p) == IF pagemap[p] # None THEN pagemap[p] ELSE server

(* _read_mapped_pfn fails for a pid that is gone, and, with a short read,  *)
(* for a cached file of a process that is.                                 *)
CanResolve(p) == PidAlive(p) /\ OpenPagemap(p) = server

(* Mutant: tails are tracked themselves. *)
TrackingPfnTail(f) == f

(* _normalize_tracking_pfn *)
TrackingPfn(f) == HeadOf(f)

(* access_bit_valid: only of frames that were armed is the idle bit read.  *)
Valid(page) == page.tracking \in armed

(* arm_many: the bitmap ignores free frames and tails. *)
Arm(S) == /\ idle' = idle \cup {f \in S : f \in Used /\ HeadOf(f) = f}
          /\ armed' = armed \cup S
=============================================================================
