----------------------------- MODULE ThpHarness -----------------------------
(***************************************************************************)
(* The huge page harness: THPInterventionHook samples the regions of       *)
(* redis-server and splits some of them, and analysis/thp_harness.py later *)
(* turns the files of the run into a dataset of decisions, in which every  *)
(* intervention is matched with a decision that was left alone.  The hook  *)
(* is polled and popped as in Collector, one step each; the analysis may   *)
(* be killed between two files and may be run again on its own output.     *)
(***************************************************************************)
EXTENDS Integers, Sequences, SequencesExt, FiniteSetsExt

CONSTANTS
    AgeBuckets,   \* the buckets of a known age; a censored one is "unknown"
    Regions,      \* number of regions of redis-server, in address order
    VmaInterval, NegInterval, Warmup, IvPeriod, \* the periods of the hook, in polls
    MatchSpan,    \* how far apart a match may be, in polls
    MaxPolls,     \* bound: polls of the hook
    MaxScans,     \* bound: scan events of khugepaged
    MaxProcess    \* bound: calls of process_thp_harness_run

ASSUME HarnessAssumption ==
    /\ {Regions, VmaInterval, Warmup, IvPeriod} \subseteq Nat /\ NegInterval \in Nat \ {0}
    /\ {MatchSpan, MaxPolls, MaxScans, MaxProcess} \subseteq Nat

VARIABLES
    hpc,          \* "poll"; then "idle", "matches", "dataset" in the analysis
    now,          \* polls so far
    last,         \* last_vma_ns, last_negative_sample_ns, last_intervention_ns
    seen,         \* the keys of first_seen_ns
    decision,     \* decision_counter
    emitted,      \* candidates
    acted,        \* interventions: [decision, success]
    chunks,       \* rows of thp_candidates.<n>.parquet
    endFile,      \* rows of thp_candidates.end.parquet
    acts,         \* rows of thp_interventions.*.parquet
    scans,        \* thp_scan_events, [at, bucket] with the age of its mm
    frames,       \* the decisions and matches in memory, None before
    dataset,      \* rows of thp_decision_dataset_v1.end.parquet
    matches,      \* rows of thp_intervention_match.end.parquet
    calls,        \* calls of process_thp_harness_run
    complete      \* parameters of the last call, if it was completed (history)

hookVars    == <<now, last, seen, decision, emitted, acted, chunks, acts, scans>>
harnessVars == <<hpc, hookVars, endFile, frames, dataset, matches, calls, complete>>

Nothing == [none |-> TRUE]

HarnessIdle ==
    /\ now = 0 /\ seen = {} /\ decision = 0 /\ calls = 0
    /\ last = [vma |-> -VmaInterval, neg |-> -NegInterval, iv |-> -IvPeriod]
    /\ emitted = <<>> /\ acted = <<>> /\ chunks = <<>> /\ endFile = <<>>
    /\ acts = <<>> /\ scans = <<>> /\ frames = Nothing
    /\ dataset = <<>> /\ matches = {} /\ complete = Nothing

HarnessInit == hpc = "poll" /\ HarnessIdle

-----------------------------------------------------------------------------
(* THPInterventionHook.                                                    *)

(* n-th decision id of the run; the counter is never reset, and the age is *)
(* always censored.                                                        *)
EmitCandidate(n) ==
    [id |-> <<"cand", n>>, at |-> now', bucket |-> "unknown"]

(* A region it has seen before whose Referenced has hardly changed.        *)
Negative(calm) == IF now' - last.neg >= NegInterval /\ calm # {} THEN 1 ELSE 0

InterventionDue == now' >= Warmup /\ now' - last.iv >= IvPeriod

(* The region is another choice than that of the candidate; the write to   *)
(* debugfs fails if the process is gone.                                   *)
RunIntervention(n, success) ==
    acted' = Append(acted, [decision |-> <<"cand", n>>, success |-> success])

SmapsDue == now' - last.vma >= VmaInterval

(* No redis-server; or it is too early; or smaps shows no huge page.       *)
PollNothing ==
    /\ hpc = "poll" /\ now < MaxPolls /\ now' = now + 1
    /\ \/ UNCHANGED last
       \/ SmapsDue /\ last' = [last EXCEPT !.vma = now']
    /\ UNCHANGED <<hpc, seen, decision, emitted, acted, chunks, acts, scans,
                   endFile, frames, dataset, matches, calls, complete>>

(* _parse_smaps: regions with huge pages, or that may have them.           *)
ParseSmaps == SUBSET (1..Regions) \ {{}}

(* A poll that reads the regions in smaps.                                 *)
PollRegions ==
    /\ hpc = "poll" /\ now < MaxPolls /\ now' = now + 1 /\ SmapsDue
    /\ \E shown \in ParseSmaps, success \in BOOLEAN :
       \E calm \in SUBSET (shown \cap seen) :
          LET n == decision + Negative(calm) + 1
          IN  /\ seen' = seen \cup shown
              /\ decision' = n
              /\ emitted' = emitted \o
                    [i \in 1..(n - decision) |-> EmitCandidate(decision + i)]
              /\ last' = [vma |-> now',
                          neg |-> IF Negative(calm) = 1 THEN now' ELSE last.neg,
                          iv  |-> IF InterventionDue THEN now' ELSE last.iv]
              /\ IF InterventionDue THEN RunIntervention(n, success)
                                    ELSE UNCHANGED acted
    /\ UNCHANGED <<hpc, chunks, acts, scans, endFile, frames, dataset, matches,
                   calls, complete>>

(* A scan of khugepaged; its mm may have been collapsed before.            *)
ScanEvent ==
    /\ hpc = "poll" /\ Len(scans) < MaxScans
    /\ \E b \in AgeBuckets \cup {"unknown"} :
          scans' = Append(scans, [at |-> now, bucket |-> b])
    /\ UNCHANGED <<hpc, now, last, seen, decision, emitted, acted, chunks, acts,
                   endFile, frames, dataset, matches, calls, complete>>

PopHarness ==
    /\ hpc = "poll" /\ emitted # <<>>
    /\ chunks' = chunks \o emitted /\ acts' = acts \o acted
    /\ emitted' = <<>> /\ acted' = <<>>
    /\ UNCHANGED <<hpc, now, last, seen, decision, scans, endFile, frames, dataset,
                   matches, calls, complete>>

(* The last pop of the run writes the end files.                           *)
EndHarness ==
    /\ hpc = "poll" /\ hpc' = "idle"
    /\ endFile' = emitted /\ acts' = acts \o acted
    /\ emitted' = <<>> /\ acted' = <<>>
    /\ UNCHANGED <<now, last, seen, decision, chunks, scans, frames, dataset,
                   matches, calls, complete>>

-----------------------------------------------------------------------------
(* analysis/thp_harness.py.                                                *)

LoadTable == chunks \o endFile

ScanRows == [i \in DOMAIN scans |-> [id |-> <<"scan", i>>, at |-> scans[i].at,
                                     bucket |-> scans[i].bucket]]

(* Mutant: rows that were written back before are added again. *)
AugmentNoUnique(rows) == rows \o ScanRows

(* _augment_candidates_with_scan: one row for every decision id.           *)
Augment(rows) ==
    LET all == rows \o ScanRows
        IsFirst(i) == \A j \in 1..(i - 1) : all[j].id # all[i].id
    IN  [k \in 1..Cardinality({i \in DOMAIN all : IsFirst(i)}) |->
            all[CHOOSE i \in DOMAIN all :
                    IsFirst(i) /\ Cardinality({j \in 1..i : IsFirst(j)}) = k]]

(* A row of features for every candidate, whatever counters there are.     *)
Features(rows, oneSec) == IF oneSec THEN rows ELSE <<>>

(* matched_control_decision_id of a decision without a match, an empty one *)
NoControl == <<"none", 0>>

(* _make_decision_dataset, an inner join with the features.                *)
Decisions(rows, oneSec) ==
    [i \in DOMAIN Features(rows, oneSec) |-> [row |-> rows[i], control |-> NoControl]]

Controls(treated, decisions) ==
    {i \in DOMAIN decisions :
        /\ decisions[i].row.id # treated.row.id
        /\ decisions[i].row.bucket = treated.row.bucket
        /\ decisions[i].row.at - treated.row.at \in -MatchSpan..MatchSpan}

Treated(decisions) ==
    {i \in DOMAIN decisions :
        /\ \E k \in DOMAIN acts : acts[k].success /\ acts[k].decision = decisions[i].row.id
        /\ Controls(decisions[i], decisions) # {}}

(* _match_interventions: the nearest control, which may be any one of them.*)
MatchInterventions(decisions, pick) ==
    [matches |-> {[treated |-> decisions[i].row.id,
                   control |-> decisions[pick[i]].row.id] : i \in DOMAIN pick},
     decisions |-> [i \in DOMAIN decisions |->
                       IF i \in DOMAIN pick
                       THEN [decisions[i] EXCEPT !.control = decisions[pick[i]].row.id]
                       ELSE decisions[i]]]

Picks(decisions) ==
    {p \in [Treated(decisions) -> DOMAIN decisions] :
        \A i \in Treated(decisions) : p[i] \in Controls(decisions[i], decisions)}

(* _write_parquet leaves the file alone if there are no rows.              *)
WriteParquet(old, rows, empty) == IF rows = empty THEN old ELSE rows

(* The candidates are written back to the end file they were loaded from,  *)
(* beside the chunks.                                                      *)
ProcessRun ==
    /\ hpc = "idle" /\ calls < MaxProcess /\ calls' = calls + 1
    /\ \E matching, oneSec \in BOOLEAN :
       LET rows == Augment(LoadTable)
           made == Decisions(rows, oneSec)
       IN  /\ endFile' = WriteParquet(endFile, rows, <<>>)
           /\ IF rows = <<>> THEN UNCHANGED <<hpc, frames>>
              ELSE /\ hpc' = "matches"
                   /\ \E pick \in IF matching THEN Picks(made) ELSE {<<>>} :
                         frames' = [found |-> MatchInterventions(made, pick),
                                    with  |-> [matching |-> matching, oneSec |-> oneSec]]
    /\ complete' = Nothing
    /\ UNCHANGED <<hookVars, dataset, matches>>

WriteMatches ==
    /\ hpc = "matches" /\ hpc' = "dataset"
    /\ matches' = WriteParquet(matches, frames.found.matches, {})
    /\ UNCHANGED <<hookVars, endFile, frames, dataset, calls, complete>>

WriteDataset ==
    /\ hpc = "dataset" /\ hpc' = "idle"
    /\ dataset' = WriteParquet(dataset, frames.found.decisions, <<>>)
    /\ frames' = Nothing /\ complete' = frames.with
    /\ UNCHANGED <<hookVars, endFile, matches, calls>>

(* The program is killed between two files.                                *)
AnalysisKilled ==
    /\ hpc \in {"matches", "dataset"} /\ hpc' = "idle" /\ frames' = Nothing
    /\ UNCHANGED <<hookVars, endFile, dataset, matches, calls, complete>>

HarnessNext ==
    \/ PollNothing \/ PollRegions \/ ScanEvent \/ PopHarness \/ EndHarness
    \/ ProcessRun \/ WriteMatches \/ WriteDataset \/ AnalysisKilled

HarnessSpec == HarnessInit /\ [][HarnessNext]_harnessVars

-----------------------------------------------------------------------------
(* However often the files are processed, and wherever that was cut short: *)
(* after a complete call with the window of 1 s every candidate the hook   *)
(* has emitted and every scan is in the dataset once                       *)
(* (thp_harness.py:155-171, 739-793, thp_intervention_hook.py:297-298).    *)
DecisionsOnce ==
    complete # Nothing /\ complete.oneSec =>
        LET ids == [i \in DOMAIN dataset |-> dataset[i].row.id]
        IN  /\ IsInjective(ids)
            /\ Range(ids) = {<<"cand", n>> : n \in 1..decision}
                               \cup {<<"scan", i>> : i \in DOMAIN scans}

(* After a complete call that matched, the file of matches and the dataset *)
(* name the same pairs, and every treated decision is that of a split that *)
(* succeeded.  It needs both parameters: a call without matching leaves an *)
(* older file of matches behind (thp_harness.py:84-87, 297-382).           *)
MatchesAgree ==
    complete # Nothing /\ complete.oneSec /\ complete.matching =>
        /\ matches = {[treated |-> dataset[i].row.id, control |-> dataset[i].control] :
                         i \in {j \in DOMAIN dataset : dataset[j].control # NoControl}}
        /\ \A m \in matches : \E k \in DOMAIN acts :
              acts[k].success /\ acts[k].decision = m.treated

DatasetSound == DecisionsOnce /\ MatchesAgree
=============================================================================
