------------------------------ MODULE HookPops ------------------------------
(***************************************************************************)
(* What pop_data() of each BPF hook does with the events its handlers have *)
(* appended, when output_collections_to_file pops one hook after another   *)
(* and then writes the tables.  Interleavings with the poll thread are     *)
(* Collector's subject; here a hook is popped in one step, and the point   *)
(* is what becomes of every single event: some hooks keep several lists,   *)
(* join them, need all of them, or raise.                                  *)
(***************************************************************************)
EXTENDS Integers, Sequences, FiniteSets, SequencesExt

CONSTANTS
    Orders,       \* the hooks of a run, in the order of all_hooks
    Counters,     \* the counters of the perf hook
    TraceLists,   \* lists of the thp_trace hook
    Procs,        \* the pids that osquery reports
    Overlapping,  \* attempts to collapse may overlap (MADV_COLLAPSE beside
                  \* khugepaged, which makes one after the other)
    MaxEvents     \* bound: events of a run

ASSUME HookPopsAssumption ==
    /\ Overlapping \in BOOLEAN /\ MaxEvents \in Nat
    \* A list belongs to one hook.
    /\ (Counters \cup TraceLists) \cap
          {"collapse", "trace", "queue", "latency", "process_metadata"} = {}

VARIABLES
    order,        \* the hooks of this run
    clock,        \* the number of events so far: event timestamps
    open,         \* spans begun and not ended: [ends, key]
    buf,          \* the events in the lists of the hooks
    turn,         \* the hook to be popped next, 0 between two rounds
    final,        \* this round writes the end files
    pending,      \* the rows of this round
    filed         \* the rows in parquet files

popVars == <<order, clock, open, buf, turn, final, pending, filed>>

(* all_hooks, and the lists of each hook.                                  *)
ListsOf(h) ==
    CASE h = "collapse_huge_pages" -> {"collapse", "trace", "scan"}
      [] h = "block_io"            -> {"queue", "latency"}
      [] h = "quanta_runtime"      -> {"runtime", "queued"}
      [] h = "cbmm"                -> {"eager", "prezero"}
      [] h = "perf"                -> Counters
      [] h = "thp_trace"           -> TraceLists
      [] h = "thp_intervention"    -> {"rollup", "vma", "candidates", "interventions"}
      [] OTHER                     -> {h}

(* Two events of one collapse attempt, and of one request: the first one   *)
(* opens the span, the second one closes it.                               *)
EndOf == [collapse |-> "trace", queue |-> "latency"]
Opens(l)  == l \in DOMAIN EndOf
Closes(l) == \E b \in DOMAIN EndOf : EndOf[b] = l

PopsIdle ==
    /\ clock = 0 /\ buf = {} /\ final = FALSE /\ pending = {} /\ filed = {}

(* The programs may be loaded while an attempt or a request is under way.  *)
PopsInit ==
    /\ order \in Orders /\ turn = 0 /\ PopsIdle
    /\ open \in SUBSET {[ends |-> l, key |-> 0] :
                          l \in {"trace", "latency"} \cap UNION {ListsOf(h) : h \in Range(order)}}

-----------------------------------------------------------------------------
(* Events.                                                                 *)

Append1(l, key) == buf' = buf \cup {[on |-> l, key |-> key, at |-> clock']}

(* The file name may not be UTF-8: the handler drops the event.            *)
FileOpenEvent == Append1("file_data", clock') \/ UNCHANGED buf

(* A poll adds every process once more.                                    *)
ProcessEvent == \E p \in Procs : Append1("process_metadata", p)

(* A poll adds one row, unless the last one is too recent, or the process  *)
(* is gone.                                                                *)
VmstatPoll == Append1("vmstat_harness", clock') \/ UNCHANGED buf
ProcPoll(l) == Append1(l, clock') \/ UNCHANGED buf

(* Each of the handlers of thp_trace appends to the list of its kind.      *)
TraceEvent(l) == l \in TraceLists /\ Append1(l, clock')

Polled == TraceLists \cup {"file_data", "process_metadata", "vmstat_harness", "proc_maps",
                          "smaps_hook"}

Event(l) ==
    \/ /\ Opens(l) /\ (Overlapping \/ open = {})
       /\ open' = open \cup {[ends |-> EndOf[l], key |-> clock']}
       /\ Append1(l, clock')
    \/ \E s \in open : s.ends = l /\ open' = open \ {s} /\ Append1(l, s.key)
    \/ TraceEvent(l) /\ UNCHANGED open
    \/ l = "file_data" /\ FileOpenEvent /\ UNCHANGED open
    \/ l = "process_metadata" /\ ProcessEvent /\ UNCHANGED open
    \/ l = "vmstat_harness" /\ VmstatPoll /\ UNCHANGED open
    \/ l \in {"proc_maps", "smaps_hook"} /\ ProcPoll(l) /\ UNCHANGED open
    \/ /\ ~Opens(l) /\ ~Closes(l) /\ l \notin Polled
       /\ Append1(l, clock') /\ UNCHANGED open

HookEvent ==
    /\ turn = 0 /\ clock < MaxEvents /\ clock' = clock + 1
    /\ \E i \in DOMAIN order : \E l \in ListsOf(order[i]) : Event(l)
    /\ UNCHANGED <<order, turn, final, pending, filed>>

-----------------------------------------------------------------------------
(* Rounds.                                                                 *)

BeginPops ==
    /\ turn = 0 /\ turn' = 1 /\ final' \in BOOLEAN
    /\ UNCHANGED <<order, clock, open, buf, pending, filed>>

Rest == IF final THEN -1 ELSE 0

FilePops ==
    /\ turn = Len(order) + 1 /\ turn' = Rest
    /\ filed' = filed \cup pending /\ pending' = {}
    /\ UNCHANGED <<order, clock, open, buf, final>>

PopAt(h)  == turn \in DOMAIN order /\ order[turn] = h
On(l)     == {e \in buf : e.on = l}
Rows(l)   == {[table |-> l, of |-> {e}] : e \in On(l)}

(* A table made of an empty list has one row: the collection id.           *)
Blank(l)  == [table |-> l, of |-> {}]
Table(l)  == IF On(l) = {} THEN {Blank(l)} ELSE Rows(l)

Popped(h, rows) ==
    /\ buf' = {e \in buf : e.on \notin ListsOf(h)}
    /\ pending' = pending \cup rows /\ turn' = turn + 1
    /\ UNCHANGED <<order, clock, open, final, filed>>

(* data() raises: clear() is not reached, and the round is given up with   *)
(* the rows of the hooks before this one.                                  *)
PopRaises ==
    /\ pending' = {} /\ turn' = Rest
    /\ UNCHANGED <<order, clock, open, buf, final, filed>>

PopOneTable(h) == PopAt(h) /\ Popped(h, Table(h))

PopFileData     == PopOneTable("file_data")
PopMadvise      == PopOneTable("madvise")
PopUnmapRange   == PopOneTable("unmap_range")
PopRssStat      == PopOneTable("mm_rss_stat")
PopProcessTrace == PopOneTable("process_trace")
PopZswap        == PopOneTable("zswap_runtime")
PopMemoryUsage  == PopOneTable("memory_usage")

(* Mutant: the eager list is emptied with the other and not returned. *)
PopCbmmOneTable == PopAt("cbmm") /\ Popped("cbmm", Table("prezero"))

PopCbmm == PopAt("cbmm") /\ Popped("cbmm", Table("eager") \cup Table("prezero"))

(* Only the lists that have rows.                                          *)
PopNonEmpty(h) == PopAt(h) /\ Popped(h, UNION {Rows(l) : l \in ListsOf(h)})

PopPerf         == PopNonEmpty("perf")
PopTrace        == PopNonEmpty("thp_trace")
PopVmstat       == PopNonEmpty("vmstat_harness")
PopProcMaps     == PopNonEmpty("proc_maps")
PopSmaps        == PopNonEmpty("smaps_hook")
PopIntervention == PopNonEmpty("thp_intervention")

(* unique("pid"): any one of the rows of a pid.                            *)
PopProcessMetadata ==
    /\ PopAt("process_metadata")
    /\ \E E \in SUBSET On("process_metadata") :
          /\ \A p \in Procs :
                Cardinality({e \in E : e.key = p})
                    = IF \E e \in On("process_metadata") : e.key = p THEN 1 ELSE 0
          /\ Popped("process_metadata",
                    {[table |-> "process_metadata", of |-> {e}] : e \in E})

(* rename() of a column that an empty table lacks.                         *)
PopQuanta ==
    /\ PopAt("quanta_runtime")
    /\ IF On("runtime") = {} \/ On("queued") = {} THEN PopRaises
       ELSE Popped("quanta_runtime", Rows("runtime") \cup Rows("queued"))

(* The same, and then an inner join of the two lists.                      *)
PopBlockIO ==
    /\ PopAt("block_io")
    /\ IF On("queue") = {} \/ On("latency") = {} THEN PopRaises
       ELSE Popped("block_io",
                   {[table |-> "block_io", of |-> {p[1], p[2]}] :
                       p \in {ql \in On("queue") \X On("latency") :
                                 ql[1].key = ql[2].key}})

(* The events of a list in their order: no two are at the same time.       *)
Sorted(l) ==
    CHOOSE s \in [1..Cardinality(On(l)) -> On(l)] :
        \A i, j \in 1..Cardinality(On(l)) : i < j => s[i].at < s[j].at

Zipped(c, t) == {[table |-> "collapse_hugepage", of |-> {c[i], t[i]}] :
                    i \in DOMAIN c \cap DOMAIN t}

(* Mutant: from_tables does not compare the tables. *)
PopCollapseUnasserted ==
    /\ PopAt("collapse_huge_pages")
    /\ Popped("collapse_huge_pages",
              Zipped(Sorted("collapse"), Sorted("trace")) \cup Rows("scan"))

(* CollapseHugePageDataTable.from_tables: the first collapse is dropped    *)
(* when a trace comes before it.                                           *)
FromTables(c, t) == IF Head(t).at < Head(c).at THEN Tail(c) ELSE c

(* data() makes no table when one list is empty; clear() empties all.      *)
PopCollapse ==
    /\ PopAt("collapse_huge_pages")
    /\ IF \E l \in ListsOf("collapse_huge_pages") : On(l) = {}
       THEN Popped("collapse_huge_pages", {})
       ELSE LET t == Sorted("trace")
                c == FromTables(Sorted("collapse"), t)
            IN  IF Len(c) # Len(t) THEN PopRaises
                ELSE Popped("collapse_huge_pages", Zipped(c, t) \cup Rows("scan"))

PopsNext ==
    \/ HookEvent \/ BeginPops \/ FilePops
    \/ PopFileData \/ PopMadvise \/ PopUnmapRange \/ PopRssStat
    \/ PopProcessTrace \/ PopZswap \/ PopCbmm \/ PopPerf \/ PopTrace \/ PopMemoryUsage
    \/ PopVmstat \/ PopProcMaps \/ PopSmaps \/ PopIntervention
    \/ PopProcessMetadata \/ PopQuanta \/ PopBlockIO \/ PopCollapse

PopsSpec == PopsInit /\ [][PopsNext]_popVars

-----------------------------------------------------------------------------
(* An event leaves the lists of its hook only into a row of this round,    *)
(* whether the pop succeeds or raises; the only others are those that      *)
(* collapse_huge_pages drops because one of its lists is empty, requests   *)
(* of which block_io has one half, and processes it has under the same     *)
(* pid.  That from_tables drops the first collapse loses nothing then,     *)
(* because data() raises; if attempts overlap the lengths may agree        *)
(* without it (collapse_huge_page.py:96-134, huge_pages.py:35-62,          *)
(* blk_io_hook.py:71-108, quanta_runtime_hook.py:76-104,                   *)
(* process_metadata_hook.py:76-107).                                       *)
PopAccounts ==
    [][~Overlapping => \A e \in buf \ buf' :
          \/ \E r \in pending' : e \in r.of
          \/ /\ e.on \in ListsOf("collapse_huge_pages")
             /\ \E l \in ListsOf("collapse_huge_pages") : On(l) = {}
          \/ /\ e.on \in ListsOf("block_io")
             /\ ~ \E d \in buf : d # e /\ d.on \in ListsOf("block_io") /\ d.key = e.key
          \/ /\ e.on = "process_metadata"
             /\ \E r \in pending', d \in On(e.on) : r.of = {d} /\ d.key = e.key]_popVars

(* Tables are put side by side by row number, not by a key.  As long as no *)
(* two attempts overlap, a row of collapse_hugepage still never mixes two  *)
(* attempts, whenever the hook is loaded and popped: when the first rows   *)
(* do not belong together the lengths differ, and data() raises            *)
(* (huge_pages.py:35-62).                                                  *)
PairsOwn ==
    ~Overlapping =>
        \A r \in pending \cup filed :
            r.table = "collapse_hugepage" =>
                \A d, e \in r.of : d.key = e.key
=============================================================================
