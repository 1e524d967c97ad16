------------------------- MODULE CompactionAnalysis -------------------------
(***************************************************************************)
(* compaction_analysis.py on the directory of a collection: what its three *)
(* tables say of the run that the smaps_harness, vmstat_harness and        *)
(* memory_usage hooks have seen.  The output thread pops the hooks at any  *)
(* moment of a pass of the poll thread, an empty table has no file, and    *)
(* the analysis reads one file of each table.                              *)
(***************************************************************************)
EXTENDS Integers, Sequences, FiniteSets, FiniteSetsExt

CONSTANTS
    FirstParts,    \* the number of the first round with rows
    VmstatEvery,   \* sample interval of vmstat_harness, in passes (at least one)
    RegionKeys,    \* the addresses regions have
    MaxPasses,     \* bound: passes of the poll thread
    MaxRounds      \* bound: numbered rounds with rows

ASSUME AnalysisAssumption ==
    /\ FirstParts \subseteq Nat /\ VmstatEvery \in Nat \ {0}
    /\ MaxPasses \in Nat /\ MaxRounds \in Nat

VARIABLES
    apc,       \* the hook, or the part of its poll(), that comes next
    at,        \* the pass: the time of its rows
    inLists,   \* the rows in the lists of the hooks
    part,      \* the number of the next round
    inFiles,   \* the rows in files: [table, part, row]
    rounds,    \* numbered rounds so far
    vmstatAt,  \* last_sample_ns of vmstat_harness
    observed,   \* every sample of a region (history)
    treated,   \* the decisions with an intervention (history)
    cut        \* a round lost rows (history)

analysisVars == <<apc, at, inLists, part, inFiles, rounds, vmstatAt, observed,
                  treated, cut>>

(* The order in which a round writes its tables.                           *)
TableOrder == <<"vma", "candidates", "interventions", "vmstat", "memory">>

AnalysisIdle ==
    /\ at = 0 /\ rounds = 0 /\ inLists = {} /\ inFiles = {} /\ vmstatAt = -VmstatEvery
    /\ observed = {} /\ treated = {} /\ cut = FALSE
AnalysisInit == apc = "vma" /\ part \in FirstParts /\ AnalysisIdle

-----------------------------------------------------------------------------
(* A pass of the poll thread.                                              *)

Adds(t, rows) == inLists' = inLists \cup {[table |-> t, row |-> r] : r \in rows}

(* The regions of smaps, if any.                                           *)
SampleRegions ==
    /\ apc = "vma" /\ at < MaxPasses /\ at' = at + 1
    /\ \E K \in SUBSET RegionKeys :
          LET rows == {[key |-> k, at |-> at'] : k \in K} IN
          /\ Adds("vma", rows) /\ observed' = observed \cup rows
          /\ apc' = IF K = {} THEN "vmstat" ELSE "candidate"
    /\ UNCHANGED <<part, inFiles, rounds, vmstatAt, treated, cut>>

(* One of the regions is the candidate of this pass; its id is new.        *)
SampleCandidate ==
    /\ apc = "candidate" /\ apc' \in {"intervention", "vmstat"}
    /\ Adds("candidates", {[id |-> at]})
    /\ UNCHANGED <<at, part, inFiles, rounds, vmstatAt, observed, treated, cut>>

(* Any of the regions is treated, under the id of the candidate.           *)
Intervene ==
    /\ apc = "intervention" /\ apc' = "vmstat" /\ treated' = treated \cup {at}
    /\ \E s \in {r \in observed : r.at = at} :
          Adds("interventions", {[id |-> at, key |-> s.key, at |-> at]})
    /\ UNCHANGED <<at, part, inFiles, rounds, vmstatAt, observed, cut>>

SampleVmstat ==
    /\ apc = "vmstat" /\ apc' = "memory"
    /\ IF at - vmstatAt < VmstatEvery THEN UNCHANGED <<inLists, vmstatAt>>
       ELSE Adds("vmstat", {[at |-> at]}) /\ vmstatAt' = at
    /\ UNCHANGED <<at, part, inFiles, rounds, observed, treated, cut>>

SampleMemory ==
    /\ apc = "memory" /\ apc' = "vma" /\ Adds("memory", {[at |-> at]})
    /\ UNCHANGED <<at, part, inFiles, rounds, vmstatAt, observed, treated, cut>>

-----------------------------------------------------------------------------
(* Rounds.                                                                 *)

End == -1  \* stands for the name of the end files, which has no number

(* memory_usage makes a table of no samples too, without a time in it.     *)
NoTime == [at |-> -1]

(* A write error leaves the tables after it unwritten (bound: one).        *)
WriteTables(name) ==
    \E n \in IF cut THEN {Len(TableOrder)} ELSE 0..Len(TableOrder) :
        LET written == {TableOrder[i] : i \in 1..n}
            rows    == inLists \cup
                         (IF \E e \in inLists : e.table = "memory" THEN {}
                          ELSE {[table |-> "memory", row |-> NoTime]})
        IN  /\ inFiles' = inFiles \cup
                  {[table |-> e.table, part |-> name, row |-> e.row] :
                      e \in {f \in rows : f.table \in written}}
            /\ cut' = (cut \/ \E e \in inLists : e.table \notin written)
            /\ inLists' = {}

NumberedRound ==
    /\ apc # "ended" /\ rounds < MaxRounds /\ inLists # {}
    /\ WriteTables(part) /\ part' = part + 1 /\ rounds' = rounds + 1
    /\ UNCHANGED <<apc, at, vmstatAt, observed, treated>>

EndRound ==
    /\ apc = "vma" /\ apc' = "ended" /\ WriteTables(End)
    /\ UNCHANGED <<at, part, rounds, vmstatAt, observed, treated>>

AnalysisNext ==
    \/ SampleRegions \/ SampleCandidate \/ Intervene \/ SampleVmstat \/ SampleMemory
    \/ NumberedRound \/ EndRound

AnalysisSpec == AnalysisInit /\ [][AnalysisNext]_analysisVars

-----------------------------------------------------------------------------
(* The analysis, of the directory as it is.                                *)

Parts(t) == {f.part : f \in {g \in inFiles : g.table = t}}

(* The order of file names below 100: 1, 10, 11, 2.                        *)
NameOrder(n) == IF n < 10 THEN 11 * n ELSE 11 * (n \div 10) + 1 + (n % 10)

(* try_load: the end file, or else the last name of the glob.              *)
Chosen(t) ==
    IF End \in Parts(t) THEN End
    ELSE CHOOSE p \in Parts(t) : \A q \in Parts(t) : NameOrder(q) <= NameOrder(p)
TryLoad(t) == {f.row : f \in {g \in inFiles : g.table = t /\ g.part = Chosen(t)}}

SamePart(t, u) == Parts(t) # {} /\ Parts(u) # {} /\ Chosen(t) = Chosen(u)

(* Table 1: every sample, and its age since the first one of its addresses *)
PageObservations ==
    {[key |-> s.key, at |-> s.at,
      age |-> s.at - Min({r.at : r \in {q \in TryLoad("vma") : q.key = s.key}})] :
        s \in TryLoad("vma")}

Distance(a, b) == IF a < b THEN b - a ELSE a - b

(* Table 2: every reading of meminfo with the nearest one of vmstat.       *)
SystemContext ==
    IF NoTime \in TryLoad("memory") THEN {}
    ELSE {[at |-> m.at,
           distance |-> Min({Distance(m.at, v.at) : v \in TryLoad("vmstat")})] :
              m \in IF TryLoad("vmstat") = {} THEN {} ELSE TryLoad("memory")}

SamplesOf(d) == {s.at : s \in {r \in TryLoad("vma") : r.key = d.key}}

(* Mutant: the last sample after the decision. *)
LastAfter(d) == Max({a \in SamplesOf(d) : a > d.at})

After(d) == Min({a \in SamplesOf(d) : a > d.at})
Before(d) == Max({a \in SamplesOf(d) : a <= d.at})

(* Table 3: a break row for an intervention, a keep row for a candidate    *)
(* that has none.                                                          *)
Breaks == TryLoad("interventions")
Keeps  == {c \in TryLoad("candidates") : \A b \in Breaks : b.id # c.id}

-----------------------------------------------------------------------------
(* A decision that was treated is no keep row, when both tables have an    *)
(* end file and no write has failed.  Of numbered files the last names may *)
(* be of different rounds, and a round may come between the candidate and  *)
(* its intervention.                                                       *)
KeepNotTreated ==
    End \in Parts("candidates") \cap Parts("interventions") /\ ~cut
        => \A c \in Keeps : c.id \notin treated

(* The freed memory is the difference of two readings with no other        *)
(* reading of the region between them.                                     *)
FreedAdjacent ==
    \A b \in Breaks :
        /\ \E a \in SamplesOf(b) : a > b.at
        /\ \E a \in SamplesOf(b) : a <= b.at
        => ~ \E s \in observed : s.key = b.key /\ Before(b) < s.at /\ s.at < After(b)

(* The vmstat columns are from at most a sample interval away, when the    *)
(* two tables come from one round.                                         *)
ContextRecent ==
    SamePart("memory", "vmstat") =>
        \A c \in SystemContext : c.distance <= VmstatEvery

(* An age is never more than the time since the region was first observed.  *)
AgesKnown ==
    \A o \in PageObservations :
        \E s \in observed : s.key = o.key /\ o.age = o.at - s.at

(* The tables that compaction_analysis.py makes of a directory, whenever   *)
(* it is run, agree with what happened, to the extent its choice of one    *)
(* file per table allows (compaction_analysis.py:33-43, 51-134, 142-277,   *)
(* 285-436).                                                               *)
AnalysisSound == KeepNotTreated /\ FreedAdjacent /\ ContextRecent /\ AgesKnown
=============================================================================
