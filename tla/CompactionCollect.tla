------------------------- MODULE CompactionCollect -------------------------
(***************************************************************************)
(* compaction_collect.py, which runs `collect data` once or more for every *)
(* benchmark, finds out which collection each run has made, and writes the *)
(* ids to a manifest.  How such a run can end is what Collector shows of   *)
(* run_collect; the command line of python/kernmlops is in between.        *)
(***************************************************************************)
EXTENDS Integers, Sequences, FiniteSets, Functions

CONSTANTS
    BmOrder,  \* --benchmarks
    BmRuns,   \* --runs-per-benchmark
    OldDirs   \* OldDirs[b]: collections of b that are there already

ASSUME CompactionAssumption ==
    BmRuns \in Nat \ {0} /\ OldDirs \in [Range(BmOrder) -> Nat]

VARIABLES
    cpc,      \* where the program is
    done,     \* runs so far, over all benchmarks
    dirs,     \* dirs[b]: collection directories, in the order of their mtime;
              \* each is the number of the run that made it, or below 1
    manifest, \* manifest[b]: the ids recorded for b
    outcome,  \* outcome[n]: how run n ended (history)
    exit      \* exit status of the program

compactionVars == <<cpc, done, dirs, manifest, outcome, exit>>

Bms   == Range(BmOrder)
Total == Len(BmOrder) * BmRuns

BmOf(n) == BmOrder[((n - 1) \div BmRuns) + 1]

(* ok      the benchmark exits with 0 and the files are written            *)
(* failed  it exits with another code, or is stopped: run_collect writes   *)
(*         the files and returns the code                                  *)
(* early   an exception before the directory is made                       *)
(* late    an exception after that                                         *)
Outcomes == {"ok", "failed", "early", "late"}

MakesDir(o) == o # "early"

(* cli_collect_data drops what run_collect returns; main of cli turns an   *)
(* exception into 1.                                                       *)
CliExit(o) == IF o \in {"early", "late"} THEN 1 ELSE 0

CompactionIdle ==
    /\ done = 0 /\ outcome = <<>> /\ exit = 0
    /\ dirs = [b \in Bms |-> [i \in 1..OldDirs[b] |-> i - OldDirs[b]]]
    /\ manifest = [b \in Bms |-> <<>>]

CompactionInit == cpc = "check" /\ CompactionIdle

(* The config files and check_benchmark_setup.                             *)
CheckSetup ==
    /\ cpc = "check"
    /\ \/ cpc' = "collect" /\ UNCHANGED exit
       \/ cpc' = "ended" /\ exit' = 1
    /\ UNCHANGED <<done, dirs, manifest, outcome>>

(* Mutant: the sort by mtime is the other way round. *)
OldestOf(made) == made[1]

(* The most recently modified directory.                                   *)
LatestOf(made) == made[Len(made)]

(* run_single_collection, and the append of main.                          *)
RunSingleCollection ==
    /\ cpc = "collect" /\ done < Total
    /\ done' = done + 1
    /\ \E o \in Outcomes :
          LET b    == BmOf(done')
              made == IF MakesDir(o) THEN Append(dirs[b], done') ELSE dirs[b]
          IN  /\ outcome' = Append(outcome, o)
              /\ dirs' = [dirs EXCEPT ![b] = made]
              /\ manifest' = IF CliExit(o) # 0 \/ made = <<>> THEN manifest
                             ELSE [manifest EXCEPT ![b] = Append(@, LatestOf(made))]
    /\ UNCHANGED <<cpc, exit>>

(* write_text of the manifest, and the exit status.                        *)
WriteManifest ==
    /\ cpc = "collect" /\ done = Total
    /\ cpc' = "ended"
    /\ exit' = IF \E b \in Bms : Len(manifest[b]) < BmRuns THEN 1 ELSE 0
    /\ UNCHANGED <<done, dirs, manifest, outcome>>

CompactionNext == CheckSetup \/ RunSingleCollection \/ WriteManifest

CompactionSpec == CompactionInit /\ [][CompactionNext]_compactionVars

-----------------------------------------------------------------------------
(* Every id of the manifest is the collection of a run of its benchmark    *)
(* that this program made and that ended without an exception, and no run  *)
(* is in it twice, however many collections lie there already              *)
(* (compaction_collect.py:126-141).                                        *)
ManifestOwn ==
    \A b \in Bms :
        /\ \A i \in DOMAIN manifest[b] :
              LET n == manifest[b][i]
              IN  n > 0 /\ BmOf(n) = b /\ outcome[n] \in {"ok", "failed"}
        /\ Cardinality(Range(manifest[b])) = Len(manifest[b])
=============================================================================
