----------------------------- MODULE RedisClean -----------------------------
(***************************************************************************)
(* `collect data --clean` with redis: run_collect ends with a copy of the  *)
(* collection in which tables with a tgid keep the rows of redis-server    *)
(* only.  Its tgid is looked for in the rows of the process_trace hook,    *)
(* and other processes have that name too: a child that redis-server forks *)
(* to save a snapshot, a server of an earlier run.                         *)
(***************************************************************************)
EXTENDS Integers, FiniteSets

CONSTANT MaxRows  \* bound: rows of a run

ASSUME RedisCleanAssumption == MaxRows \in Nat

Server == 1
Child  == 2
Stale  == 3
Other  == 4

VARIABLES
    rcAt,     \* "collect", "clean", "copy", "returned" (with an id), "raised"
    traced,   \* the process_trace hook is enabled
    lists,    \* the rows in the lists of the hooks
    raw,      \* raw[f]: the rows of parquet file f = <<table, part>>
    copied,   \* the same of the cleaned copy
    count     \* rows so far

cleanVars == <<rcAt, traced, lists, raw, copied, count>>

CleanIdle == lists = {} /\ raw = <<>> /\ copied = <<>> /\ count = 0
CleanInit == rcAt = "collect" /\ traced \in BOOLEAN /\ CleanIdle

HasTgid == {"process_trace", "scan"}
Tables  == HasTgid \cup {"meminfo"}

-----------------------------------------------------------------------------
(* The run.                                                                *)

(* One more row.  Not every event makes one: perf buffers lose events, and *)
(* the probe on __set_task_comm reads a return value of a void function.   *)
Row(table, p, redis) ==
    /\ rcAt = "collect" /\ count < MaxRows /\ count' = count + 1
    /\ lists' = lists \cup {[table |-> table, tgid |-> p, redis |-> redis]}
    /\ UNCHANGED <<rcAt, traced, raw, copied>>

(* The name is that of the process that forks, the tgid that of the child. *)
CreateTask ==
    /\ traced
    /\ \E p \in {Server, Child, Stale} : Row("process_trace", p, TRUE)

(* exec: the first row of the server.                                      *)
SetTaskComm ==
    /\ traced
    /\ \E p \in {Server, Other} : Row("process_trace", p, p = Server)

(* An exit has no name.                                                    *)
ReleaseTask == traced /\ \E p \in {Child, Stale} : Row("process_trace", p, FALSE)

OtherRow ==
    \E p \in {Server, Child, Other} :
        Row("scan", p, FALSE) \/ Row("meminfo", p, FALSE)

(* A numbered round or the end files.  process_trace writes an empty table *)
(* as well.                                                                *)
WriteFiles(part) ==
    LET Has(t) == (t = "process_trace" /\ traced) \/ \E r \in lists : r.table = t
        new    == {<<t, part>> : t \in {u \in Tables : Has(u)}}
    IN  /\ raw' = [f \in DOMAIN raw \cup new |->
                     IF f \in new THEN {r \in lists : r.table = f[1]} ELSE raw[f]]
        /\ lists' = {}
        /\ UNCHANGED <<traced, copied, count>>

WriteRound == rcAt = "collect" /\ <<"process_trace", 0>> \notin DOMAIN raw
              /\ WriteFiles(0) /\ UNCHANGED rcAt
WriteEnd   == rcAt = "collect" /\ WriteFiles(1) /\ rcAt' = "clean"

-----------------------------------------------------------------------------
(* _clean_redis_collection.                                                *)

TraceFiles == {f \in DOMAIN raw : f[1] = "process_trace"}

RedisTgids == {r.tgid : r \in {s \in UNION {raw[f] : f \in TraceFiles} : s.redis}}

CleanRaises == rcAt' = "raised" /\ UNCHANGED <<traced, lists, raw, copied, count>>

NoTraceFiles == rcAt = "clean" /\ TraceFiles = {} /\ CleanRaises

(* Mutant: any number of redis-servers will do. *)
DiscoverAny ==
    /\ rcAt = "clean" /\ TraceFiles # {}
    /\ IF RedisTgids = {} THEN CleanRaises
       ELSE rcAt' = "copy" /\ UNCHANGED <<traced, lists, raw, copied, count>>

(* Exactly one tgid; then the directory is made.                           *)
Discover ==
    /\ rcAt = "clean" /\ TraceFiles # {}
    /\ IF Cardinality(RedisTgids) # 1 THEN CleanRaises
       ELSE rcAt' = "copy" /\ UNCHANGED <<traced, lists, raw, copied, count>>

Filtered(f) == IF f[1] \in HasTgid THEN {r \in raw[f] : r.tgid \in RedisTgids}
               ELSE raw[f]

CopyFile ==
    /\ rcAt = "copy"
    /\ \E f \in DOMAIN raw \ DOMAIN copied :
          copied' = [g \in DOMAIN copied \cup {f} |->
                       IF g = f THEN Filtered(f) ELSE copied[g]]
    /\ UNCHANGED <<rcAt, traced, lists, raw, count>>

(* What has been copied stays, and the run fails.                          *)
CopyFails == rcAt = "copy" /\ CleanRaises

CleanReturns ==
    /\ rcAt = "copy" /\ DOMAIN copied = DOMAIN raw /\ rcAt' = "returned"
    /\ UNCHANGED <<traced, lists, raw, copied, count>>

CleanNext ==
    \/ CreateTask \/ SetTaskComm \/ ReleaseTask \/ OtherRow \/ WriteRound \/ WriteEnd
    \/ NoTraceFiles \/ Discover \/ CopyFile \/ CopyFails \/ CleanReturns

CleanSpec == CleanInit /\ [][CleanNext]_cleanVars

-----------------------------------------------------------------------------
(* An id of a cleaned copy is printed only when every file of the          *)
(* collection has its copy, with the rows of one redis-server, and with    *)
(* all the rows of this run's if the trace names it at all                 *)
(* (collect.py:79-162, 386-396).                                           *)
CleanedOwn ==
    rcAt = "returned" =>
        /\ DOMAIN copied = DOMAIN raw
        /\ \A f, g \in DOMAIN copied :
              f[1] \in HasTgid /\ g[1] \in HasTgid =>
                  \A r \in copied[f], s \in copied[g] : r.tgid = s.tgid
        /\ \A f \in DOMAIN raw :
              /\ f[1] \notin HasTgid => copied[f] = raw[f]
              /\ f[1] \in HasTgid /\ Server \in RedisTgids =>
                    copied[f] = {r \in raw[f] : r.tgid = Server}
=============================================================================
