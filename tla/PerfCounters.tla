---------------------------- MODULE PerfCounters ----------------------------
(***************************************************************************)
(* A perf event from the counter of a CPU to a graph: NAME_on of           *)
(* perf_hook.py samples the cumulative counter of every CPU into a struct  *)
(* of fixed width, the hook buffers the samples, rounds write them to      *)
(* numbered chunks and the end of the run to the chunk "end",              *)
(* CollectionData.from_data reads the chunks of a run back into one table, *)
(* and PerfCollectionTable takes it apart again into what was counted      *)
(* between two samples.  A run may be killed at any point, and a chunk may *)
(* fail to be written.  The group of events of a CPU is scheduled as a     *)
(* whole, so pmu_running_time and pmu_enabled_time do not differ, and the  *)
(* scale that is their ratio is left out.                                  *)
(***************************************************************************)
EXTENDS Integers, SequencesExt, FiniteSetsExt

CONSTANTS
    Cpus,
    CountWidth,  \* the count field of the struct is modulo this number
    FirstRound,  \* number of the first chunk that matters here
    MaxChunks,   \* bound: rounds after it
    MaxCount,    \* bound: what a CPU counts
    MaxSamples   \* bound: samples of all CPUs

ASSUME PerfAssumption ==
    /\ CountWidth \in Nat \ {0}
    /\ {FirstRound, MaxChunks, MaxCount, MaxSamples} \subseteq Nat

VARIABLES
    pat,         \* "run"; "end" between system_info and the last chunk;
                 \* "ended"; "killed"; "read" or "error" after from_data
    counter,     \* counter[c]: the value of the hardware counter, of 64 bits
    samples,     \* samples taken so far, the time of the next one
    ring,        \* ring[c]: samples in the perf buffer of CPU c
    perfData,    \* self._perf_data[event]
    nextChunk,   \* number of the next chunk
    chunkFiles,  \* the files <table>.<chunk>.parquet: [chunk, rows]
    info,        \* whether system_info.end.parquet is there
    rowsWritten, \* all rows that were written, in that order (history)
    table        \* the table of the collection, when it is "read"

perfVars == <<pat, counter, samples, ring, perfData, nextChunk, chunkFiles, info,
              rowsWritten, table>>

EndChunk == -1

PerfIdle ==
    /\ samples = 0 /\ nextChunk = FirstRound
    /\ counter = [c \in Cpus |-> 0] /\ ring = [c \in Cpus |-> <<>>]
    /\ perfData = <<>> /\ chunkFiles = {} /\ info = FALSE
    /\ rowsWritten = <<>> /\ table = <<>>

PerfInit == pat = "run" /\ PerfIdle

-----------------------------------------------------------------------------
(* The hook.                                                               *)

Count(c) ==
    /\ pat = "run" /\ counter[c] < MaxCount
    /\ counter' = [counter EXCEPT ![c] = @ + 1]
    /\ UNCHANGED <<pat, samples, ring, perfData, nextChunk, chunkFiles, info, rowsWritten,
                   table>>

(* NAME_on.  The counter as it is goes with the row as a history: only     *)
(* `count` is in the struct.                                               *)
TakeSample(c) ==
    /\ pat = "run" /\ samples < MaxSamples
    /\ samples' = samples + 1
    /\ ring' = [ring EXCEPT ![c] = Append(@,
                    [cpu |-> c, ts |-> samples, count |-> counter[c] % CountWidth,
                     counted |-> counter[c]])]
    /\ UNCHANGED <<pat, counter, perfData, nextChunk, chunkFiles, info, rowsWritten,
                   table>>

(* _perf_event_handler: the buffers of the CPUs are read one by one.       *)
PerfEventHandler(c) ==
    /\ pat = "run" /\ ring[c] # <<>>
    /\ perfData' = Append(perfData, Head(ring[c]))
    /\ ring' = [ring EXCEPT ![c] = Tail(@)]
    /\ UNCHANGED <<pat, counter, samples, nextChunk, chunkFiles, info, rowsWritten,
                   table>>

(* pop_data() and write_parquet: no table for an empty list, nothing left  *)
(* in the list if the table cannot be written.                             *)
WriteChunk(name) ==
    /\ perfData' = <<>>
    /\ \/ /\ perfData # <<>>
          /\ chunkFiles' = chunkFiles \cup {[chunk |-> name, rows |-> perfData]}
          /\ rowsWritten' = rowsWritten \o perfData
       \/ UNCHANGED <<chunkFiles, rowsWritten>>

PerfRound ==
    /\ pat = "run" /\ nextChunk < FirstRound + MaxChunks
    /\ WriteChunk(nextChunk) /\ nextChunk' = nextChunk + 1
    /\ UNCHANGED <<pat, counter, samples, ring, info, table>>

(* The first table of the end files is system_info.                        *)
WriteSystemInfo ==
    /\ pat = "run" /\ pat' = "end" /\ info' = TRUE
    /\ UNCHANGED <<counter, samples, ring, perfData, nextChunk, chunkFiles, rowsWritten,
                   table>>

WriteEndChunk ==
    /\ pat = "end" /\ pat' = "ended"
    /\ WriteChunk(EndChunk)
    /\ UNCHANGED <<counter, samples, ring, nextChunk, info, table>>

Killed ==
    /\ pat \in {"run", "end"} /\ pat' = "killed"
    /\ UNCHANGED <<counter, samples, ring, perfData, nextChunk, chunkFiles, info, rowsWritten,
                   table>>

-----------------------------------------------------------------------------
(* Reading back.                                                           *)

(* Mutant: chunks in the order of their names, in which 10 is before 9.    *)
ChunkBeforeByName(f, g) ==
    LET Name(n) == IF n = EndChunk THEN 1000
                   ELSE IF n < 10 THEN 11 * n ELSE 11 * (n \div 10) + 1 + (n % 10)
    IN  Name(f.chunk) < Name(g.chunk)

(* _chunk_sort_key: numbers as numbers, "end" last.                        *)
ChunkBefore(f, g) ==
    f.chunk # EndChunk /\ (g.chunk = EndChunk \/ f.chunk < g.chunk)

(* The members of S in an order that tells any two of them apart.          *)
Ordered(S, IsBefore(_, _)) ==
    CHOOSE s \in [1..Cardinality(S) -> S] :
        \A i, j \in 1..Cardinality(S) : i < j => IsBefore(s[i], s[j])

(* from_data, for an id or a prefix of ids that some of two runs match:    *)
(* more than one is an error; none leaves the old layout, of which there   *)
(* are no files; and without system_info there is no collection.           *)
FromData(matching) ==
    /\ pat \in {"ended", "killed"}
    /\ IF matching = {"this"} /\ info
       THEN LET files == Ordered(chunkFiles, ChunkBefore)
            IN  /\ pat' = "read"
                /\ table' = FlattenSeq([i \in DOMAIN files |-> files[i].rows])
       ELSE pat' = "error" /\ UNCHANGED table
    /\ UNCHANGED <<counter, samples, ring, perfData, nextChunk, chunkFiles, info,
                   rowsWritten>>

Earlier(r, s) == r.ts < s.ts

(* The rows of one CPU, group_by("cpu") and sort(UPTIME_TIMESTAMP).        *)
CpuRows(c) == Ordered({r \in ToSet(table) : r.cpu = c}, Earlier)

(* Mutant: the row before may be one of another CPU. *)
AsPdfUngrouped(c) ==
    LET rows == CpuRows(c)
        Before(r) == Ordered({s \in ToSet(table) : Earlier(s, r)}, Earlier)
    IN  [i \in DOMAIN rows |->
            rows[i].count - (IF Before(rows[i]) = <<>> THEN 0
                             ELSE Last(Before(rows[i])).count)]

(* cumulative_pma_as_pdf: every row minus the one before it, the first     *)
(* minus 0.                                                                *)
AsPdf(c) ==
    LET rows == CpuRows(c)
    IN  [i \in DOMAIN rows |->
            rows[i].count - (IF i = 1 THEN 0 ELSE rows[i - 1].count)]

(* cumulative_pma_as_cdf: the running sums of the same.                    *)
AsCdf(c) ==
    LET pdf == AsPdf(c)
        sum[i \in DOMAIN pdf] == IF i = 1 THEN pdf[i] ELSE sum[i - 1] + pdf[i]
    IN  sum

(* total_cumulative, one CPU of its sum: group_by("cpu").max().            *)
CpuTotal(c) == Max({0} \cup {r.count : r \in ToSet(CpuRows(c))})

PerfNext ==
    \/ \E c \in Cpus : Count(c) \/ TakeSample(c) \/ PerfEventHandler(c)
    \/ PerfRound \/ WriteSystemInfo \/ WriteEndChunk \/ Killed
    \/ \E matching \in {{}, {"this"}, {"this", "other"}} : FromData(matching)

PerfSpec == PerfInit /\ [][PerfNext]_perfVars

-----------------------------------------------------------------------------
(* Properties                                                              *)

(* A collection that loads has exactly the rows that were written, in the  *)
(* order of the rounds, however many digits their numbers have and         *)
(* whichever chunks are missing; and no run without its system_info loads  *)
(* (from_data, schema.py:252-290).                                         *)
ReadBackInOrder == pat = "read" => info /\ table = rowsWritten

(* What a CPU counted between two rows of the table.                       *)
CountedBetween(rows, i) ==
    rows[i].counted - (IF i = 1 THEN 0 ELSE rows[i - 1].counted)

(* Whatever rows are lost with a buffer or a chunk, and in whatever order  *)
(* the buffers of the CPUs are read: the deltas of a CPU are what it       *)
(* counted between the two rows, up to multiples of the width of the       *)
(* field and exactly while the counter fits in it; their running sum is    *)
(* the counter again, and the total is the last value of it.               *)
DeltasAddUp ==
    pat = "read" =>
        \A c \in Cpus :
            LET rows == CpuRows(c)
                pdf == AsPdf(c)
            IN  /\ \A i \in DOMAIN rows :
                      /\ AsCdf(c)[i] = rows[i].count
                      /\ (pdf[i] - CountedBetween(rows, i)) % CountWidth = 0
                      /\ rows[i].counted < CountWidth => pdf[i] = CountedBetween(rows, i)
                /\ rows # <<>> /\ Last(rows).counted < CountWidth
                      => CpuTotal(c) = Last(rows).counted

(* "the raw data is a cumulative representation, this returns the deltas"  *)
(* (perf_schema.py:118).                                                   *)
ReturnsDeltas ==
    pat = "read" =>
        \A c \in Cpus : \A i \in DOMAIN CpuRows(c) :
            AsPdf(c)[i] = CountedBetween(CpuRows(c), i)
=============================================================================
