---------------------------- MODULE ProcSamplers ----------------------------
(***************************************************************************)
(* The poll thread of a run: in every pass it polls the hooks, then the    *)
(* benchmark.  The hooks that matter to it are proc_maps and smaps_hook,   *)
(* which raise unless they find the process of the benchmark; it starts    *)
(* before run() has started any process.  An earlier server that is still  *)
(* on the port has the same name.                                          *)
(***************************************************************************)
EXTENDS Benchmarks

VARIABLES
    hooks,    \* the samplers of the run
    due,      \* those still to be polled in this pass
    target,   \* target_pid of each: Unresolved, "stale" or "own"
    sampled,  \* the processes each has samples of
    passes    \* 1 once a pass over the hooks is complete

samplerVars == <<benchmarkVars, hooks, due, target, sampled, passes>>

Unresolved == "none"
Samplers == {"proc_maps", "smaps_hook"}

SamplersIdle ==
    /\ due = hooks /\ passes = 0
    /\ target = [h \in Samplers |-> Unresolved] /\ sampled = [h \in Samplers |-> {}]

SamplersInit == BenchmarkInit /\ hooks \in SUBSET Samplers /\ SamplersIdle

Exists(p) == \/ p = "stale" /\ port = "stale"
             \/ p = "own" /\ srv \in {"alive", "told"}

(* get_hooks: they look for redis-server, or for the name of the benchmark,*)
(* which a memcached is called as well, but no process of the others.      *)
NameMatches == kind \in {"redis", "memcached"}

FindTargetPid == {p \in {"stale", "own"} : NameMatches /\ Exists(p)}

(* A process that is gone is not looked for again: nothing is sampled.     *)
Sample(h, p) ==
    /\ target' = [target EXCEPT ![h] = p]
    /\ sampled' = IF Exists(p) THEN [sampled EXCEPT ![h] = @ \cup {p}] ELSE sampled
    /\ due' = due \ {h}
    /\ UNCHANGED <<benchmarkVars, hooks, passes>>

SamplerRaises ==
    /\ PollDies
    /\ UNCHANGED <<kind, mainAt, halted, port, prep, srv, hasSrv, ycsb, held, round,
                   loading, reported, slow, overlap, hooks, due, target, sampled,
                   passes>>

(* Mutant: the process is looked for in every poll. *)
PollSamplerUncached(h) ==
    /\ pollAt = "loop" /\ h \in due
    /\ \/ \E p \in FindTargetPid : Sample(h, p)
       \/ FindTargetPid = {} /\ SamplerRaises

PollSampler(h) ==
    /\ pollAt = "loop" /\ h \in due
    /\ \/ target[h] # Unresolved /\ Sample(h, target[h])
       \/ target[h] = Unresolved /\ \E p \in FindTargetPid : Sample(h, p)
       \/ target[h] = Unresolved /\ FindTargetPid = {} /\ SamplerRaises

PollMaps  == PollSampler("proc_maps")
PollSmaps == "proc_maps" \notin due /\ PollSampler("smaps_hook")

(* benchmark.poll() finds no process yet, or one that runs.                *)
NextPass ==
    /\ pollAt = "loop" /\ due = {} /\ hooks # {}
    /\ ~held \/ ycsb = "running"
    /\ due' = hooks /\ passes' = 1
    /\ UNCHANGED <<benchmarkVars, hooks, target, sampled>>

PollThread ==
    \/ PollMaps \/ PollSmaps \/ NextPass
    \/ /\ \/ due = {} /\ PollBenchmark
          \/ (pollAt = "loop" => due = hooks) /\ KillBenchmark
          \/ NotStopped \/ PutCode
       /\ UNCHANGED <<hooks, due, target, sampled, passes>>

SamplersNext ==
    \/ PollThread
    \/ (MainThread \/ Environment) /\ UNCHANGED <<hooks, due, target, sampled, passes>>

SamplersSpec == SamplersInit /\ [][SamplersNext]_samplerVars

-----------------------------------------------------------------------------
(* The poll thread dies only where the code lets it: in the first pass, of *)
(* a sampler that finds no process; in kill() before there is a process;   *)
(* with memcached that needs more than ten seconds to exit; and with       *)
(* mongodb when it has no server to drop databases from.  A redis-server   *)
(* that is slow to exit, or that exits while it is sampled, does not end   *)
(* it (collect.py:36-62, redis.py:352-363, proc_maps_hook.py:84-97).       *)
PollThreadSurvives ==
    [][pollAt # "dead" /\ pollAt' = "dead" =>
          \/ due # {} /\ passes = 0
          \/ halted /\ ~held
          \/ kind = "memcached" /\ slow'
          \/ kind = "mongodb" /\ (halted \/ srv = "exited")]_samplerVars

(* "polls each hook until the benchmark finishes"                          *)
(* (data_collection/README.md:53)                                          *)
PollUntilFinished ==
    pollAt = "dead" /\ ~halted => held /\ ycsb # "running"
=============================================================================
