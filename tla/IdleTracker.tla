---------------------------- MODULE IdleTracker ----------------------------
(***************************************************************************)
(* python/kernmlops/data_collection/track_idle_accesses.py, and the plot   *)
(* that analysis/idle_accesses.py makes of its output.  The tracker scans  *)
(* the pagemap of one process every RefreshInterval polls; a poll marks    *)
(* every frame it found idle, sleeps, and counts the frames whose idle bit *)
(* is clear.  Counts are kept per frame.  Kernel and tracked process are   *)
(* those of PageAccess, which go on between any two reads or writes here.  *)
(***************************************************************************)
EXTENDS PageAccess

CONSTANTS
    Samples,         \* --samples; the bound on polls as well
    RefreshInterval, \* --refresh-interval
    StaticMaps       \* --static-maps

ASSUME TrackerAssumption ==
    /\ Samples \in Nat \ {0} /\ RefreshInterval \in Nat /\ StaticMaps \in BOOLEAN

VARIABLES
    tpc,      \* where the tracker is
    redisPid,   \* the pid it polls
    fd,       \* the process whose pagemap is open, None if the fd is closed
    regions,  \* the regions of the last maps file include the heap
    meta,     \* pfn_meta: the page of every frame of the last scan
    accesses, \* access_counts
    polls,    \* poll_n
    sigint,   \* done
    output,   \* the rows of the output file
    touched   \* touched[v]: polls between whose mark and check page v was
              \* accessed (history)

trackVars   == <<tpc, redisPid, fd, regions, meta, accesses, polls, sigint,
                 output, touched>>
idleVars    == <<memoryVars, trackVars>>

NoMeta == [f \in {} |-> None]

TrackerIdle ==
    /\ MemoryInit
    /\ redisPid = None /\ fd = None /\ regions = StaticMaps /\ meta = NoMeta
    /\ accesses = [f \in PFNs |-> 0] /\ polls = 0 /\ sigint = FALSE
    /\ output = NoMeta /\ touched = [v \in VPages |-> 0]

TrackerInit == tpc = "find" /\ TrackerIdle

(* pidof redis-server; the process must exist.                             *)
FindRedisPid ==
    /\ tpc = "find" /\ server # None
    /\ redisPid' = pid /\ tpc' = "poll" /\ moved' = {}
    /\ UNCHANGED <<kernelVars, trackerVars, hit, fd, regions, meta, accesses,
                   polls, sigint, output, touched>>

ShouldRefresh == RefreshInterval = 0 \/ polls % RefreshInterval = 0
Finished      == sigint \/ polls >= Samples

(* The head of the loop.  The old pagemap is closed before a new scan.     *)
NextPoll ==
    /\ tpc = "poll"
    /\ IF Finished THEN tpc' = "dump" /\ UNCHANGED fd
       ELSE IF ShouldRefresh
            THEN fd' = None /\ tpc' = IF StaticMaps THEN "open" ELSE "maps"
            ELSE tpc' = "mark" /\ UNCHANGED fd
    /\ UNCHANGED <<memoryVars, redisPid, regions, meta, accesses, polls, sigint,
                   output, touched>>

(* get_vma_ranges: the maps file of a process that has ended is empty      *)
(* while it is a zombie; later it is missing, which nobody catches.        *)
GetVmaRanges ==
    /\ tpc = "maps"
    /\ \/ PidAlive(redisPid) /\ regions' = TRUE /\ tpc' = "open"
       \/ ~PidAlive(redisPid) /\ regions' = FALSE /\ tpc' = "open"
       \/ ~PidAlive(redisPid) /\ tpc' = "failed" /\ UNCHANGED regions
    /\ UNCHANGED <<memoryVars, redisPid, fd, meta, accesses, polls, sigint, output,
                   touched>>

OpenPagemapFd ==
    /\ tpc = "open"
    /\ \/ PidAlive(redisPid) /\ fd' = server /\ tpc' = "scan"
       \/ ~PidAlive(redisPid) /\ tpc' = "scan" /\ UNCHANGED fd     \* a zombie
       \/ ~PidAlive(redisPid) /\ tpc' = "dump" /\ UNCHANGED fd     \* break
    /\ UNCHANGED <<memoryVars, redisPid, regions, meta, accesses, polls, sigint,
                   output, touched>>

(* collect_present_pfns_fd: nothing is read of a process without memory.   *)
CollectPresentPfns ==
    /\ tpc = "scan" /\ tpc' = "mark"
    /\ meta' = IF regions /\ fd # None /\ fd = server
               THEN [f \in Used |-> CHOOSE v \in VPages : frame[v] = f]
               ELSE NoMeta
    /\ UNCHANGED <<memoryVars, redisPid, fd, regions, accesses, polls, sigint,
                   output, touched>>

(* mark_pfns_idle; the bitmap ignores free frames and tails.  A poll begins*)
(* to look for accesses here.                                              *)
MarkPfnsIdle ==
    /\ tpc = "mark" /\ tpc' = "check"
    /\ idle' = idle \cup {f \in DOMAIN meta \cap Used : HeadOf(f) = f}
    /\ hit' = {}
    /\ UNCHANGED <<server, starts, pid, frame, huge, trackerVars, moved, redisPid,
                   fd, regions, meta, accesses, polls, sigint, output, touched>>

PfnsAccessed == {f \in DOMAIN meta : f \notin idle}

(* check_pfns_accessed, and the counting of poll_once.                     *)
CheckPfnsAccessed ==
    /\ tpc = "check" /\ tpc' = "poll" /\ polls' = polls + 1
    /\ accesses' = [f \in PFNs |->
                       IF f \in PfnsAccessed THEN accesses[f] + 1 ELSE accesses[f]]
    /\ touched' = [v \in VPages |->
                      IF v \in hit THEN touched[v] + 1 ELSE touched[v]]
    /\ UNCHANGED <<memoryVars, redisPid, fd, regions, meta, sigint, output>>

(* dump_output: the pages of the last scan with the counts of their frames.*)
DumpOutput ==
    /\ tpc = "dump" /\ tpc' = "ended" /\ fd' = None
    /\ output' = IF polls = 0 THEN output
                 ELSE [f \in DOMAIN meta |-> [page |-> meta[f], n |-> accesses[f]]]
    /\ UNCHANGED <<memoryVars, redisPid, regions, meta, accesses, polls, sigint,
                   touched>>

(* done is read at the head of the loop only.                              *)
Sigint ==
    /\ tpc = "poll" /\ ~sigint
    /\ sigint' = TRUE
    /\ UNCHANGED <<memoryVars, tpc, redisPid, fd, regions, meta, accesses, polls,
                   output, touched>>

Tracker ==
    \/ FindRedisPid \/ NextPoll \/ GetVmaRanges \/ OpenPagemapFd
    \/ CollectPresentPfns \/ MarkPfnsIdle \/ CheckPfnsAccessed \/ DumpOutput

(* The kernel and the process go on at any time; between two steps of the  *)
(* tracker that do not touch their files it makes no difference when.      *)
TouchesKernel == tpc \in {"find", "maps", "open", "scan", "mark", "check"}

TrackerNext ==
    \/ Tracker \/ Sigint
    \/ TouchesKernel /\ Kernel /\ UNCHANGED trackVars

TrackerSpec == TrackerInit /\ [][TrackerNext]_idleVars

-----------------------------------------------------------------------------
(* analysis/idle_accesses.py: the pages that plot_hist counts, and those   *)
(* that plot_line, which is the default, shows.                            *)

PlotHist == {f \in DOMAIN output : output[f].n > 0}

PlotLine == {f \in DOMAIN output : output[f].n \notin {0, polls}}

(* A page in the plot that has stood still since the tracker started was   *)
(* accessed in as many polls as the plot says, whatever other pages did    *)
(* and whatever the process was when its maps were read.  It is true of    *)
(* the tails of huge pages only because they are in no plot                *)
(* (track_idle_accesses.py:157-244, idle_accesses.py:171-181).             *)
PlotSound ==
    tpc = "ended" => \A f \in PlotLine :
        output[f].page \notin moved => output[f].n = touched[output[f].page]
=============================================================================
