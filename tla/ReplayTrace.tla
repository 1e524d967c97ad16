---------------------------- MODULE ReplayTrace ----------------------------
(***************************************************************************)
(* python/kernmlops/data_collection/replay_trace.py: for each combination  *)
(* of breakpoints the program restores a snapshot into a new redis-server, *)
(* replays the trace, splits the huge page of a key when its access count  *)
(* meets its breakpoint, and writes the runtimes at the very end.  Kernel  *)
(* settings are changed before and restored afterwards.  redis-server runs *)
(* beside it: the first one is not a child of this process, the later ones *)
(* are, so that they stay behind as zombies until waitpid reaps them.      *)
(***************************************************************************)
EXTENDS Breakpoints

CONSTANTS
    Trace,      \* the MONITOR log, a sequence of LogLines
    KeysFile,   \* the keys of keys.txt
    Settings,   \* the kernel settings, in the order setup_system writes them
    Runs,       \* --runs
    MaxFaults   \* bound: faults of the environment in one execution

ASSUME TraceAssumption  == Trace \in Seq(LogLines) /\ KeysFile \subseteq Targets
ASSUME ReplayAssumption == Runs \in Nat \ {0} /\ MaxFaults \in Nat
                           /\ IsInjective(Settings)

VARIABLES
    rpc,      \* where the program is
    setting,  \* setting[s]: "was" or "bench"
    redis,   \* [gen, st, data]: the redis-server on the port
    rdb,      \* what dump.rdb holds
    combos,   \* the rows of the breakpoints file
    row, run, \* the current combination and run
    pos,      \* the next line of the trace
    counts,   \* access_counts of replay()
    todo,     \* keys still to break before the trace
    tries,    \* history: calls of break_page per key in this run
    missed,   \* history: accesses per key that failed in this run
    fresh,    \* history: this run started on the snapshot
    results,  \* runtimes so far: [fresh, died] for each run
    written,  \* the output file exists
    faults,   \* history: faults so far
    stuck     \* history: writing a setting failed

replayRun  == <<combos, row, run, pos, counts, todo, tries, missed, fresh>>
replayVars == <<rpc, setting, redis, rdb, replayRun, results, written,
                faults, stuck>>

Plan == combos[row]
Zeroes == [k \in Targets |-> 0]

ReplayPcs == {"off", "setup", "copy", "shutdown", "exit", "launch", "ping",
              "purge", "line", "execute", "write", "teardown", "done"}
InTry     == ReplayPcs \ {"off", "setup", "teardown", "done"}

Up   == redis.st = "up"
Dead == redis.st \in {"zombie", "gone"}

Faulty    == faults < MaxFaults /\ faults' = faults + 1
NoFault  == UNCHANGED faults
Exits(s) == [s EXCEPT !.st = IF s.gen = 0 THEN "gone" ELSE "zombie"]

ReplayIdle == /\ setting = [s \in Range(Settings) |-> "was"]
              /\ redis = [gen |-> 0, st |-> "up", data |-> "loaded"]
              /\ rdb = "other"
              /\ row = 1 /\ run = 1 /\ pos = 1
              /\ counts = Zeroes /\ todo = {} /\ tries = Zeroes /\ missed = Zeroes
              /\ fresh = FALSE /\ results = <<>> /\ written = FALSE
              /\ faults = 0 /\ stuck = FALSE

(* The trace is the log that the breakpoints were generated from.          *)
ReplayInit ==
    /\ rpc = "setup" /\ ReplayIdle
    /\ LET c == AccessCounts(Trace, KeysFile)
       IN  \E v \in RandomVectors(c) : combos = GenerateCombinations(c, <<v>>)

-----------------------------------------------------------------------------
(* Settings.  A write may fail: the ones before it have taken effect.      *)

SysfsWrites(n, value) ==
    setting' = [s \in Range(Settings) |->
                   IF s \in Range(SubSeq(Settings, 1, n)) THEN value ELSE setting[s]]

(* setup_system is called before the try block of run_benchmark.           *)
SetupSystem ==
    /\ rpc = "setup"
    /\ \/ SysfsWrites(Len(Settings), "bench") /\ rpc' = "copy" /\ NoFault
          /\ UNCHANGED stuck
       \/ \E n \in 0..(Len(Settings) - 1) : SysfsWrites(n, "bench")
          /\ rpc' = "done" /\ Faulty /\ stuck' = TRUE
    /\ UNCHANGED <<redis, rdb, replayRun, results, written>>

TeardownSystem ==
    /\ rpc = "teardown"
    /\ \/ SysfsWrites(Len(Settings), "was") /\ NoFault /\ UNCHANGED stuck
       \/ \E n \in 0..(Len(Settings) - 1) : SysfsWrites(n, "was")
          /\ Faulty /\ stuck' = TRUE
    /\ rpc' = "done"
    /\ UNCHANGED <<redis, rdb, replayRun, results, written>>

Raise == rpc' = "teardown"

(* Any other exception inside the try block, KeyboardInterrupt included.   *)
ReplayRaises ==
    /\ rpc \in InTry /\ Faulty /\ Raise
    /\ UNCHANGED <<setting, redis, rdb, replayRun, results, written, stuck>>

-----------------------------------------------------------------------------
(* restore_snapshot.                                                       *)

(* _get_redis_pid: the server has to answer INFO.                          *)
GetRedisPid == Up

(* Mutant: dump.rdb stays what it was. *)
CopySnapshotNoCopy ==
    /\ rpc = "copy" /\ (IF GetRedisPid THEN rpc' = "shutdown" ELSE Raise)
    /\ UNCHANGED <<setting, redis, rdb, replayRun, results, written, faults, stuck>>

(* INFO and CONFIG GET, which need a server that answers, and the copy.    *)
CopySnapshot ==
    /\ rpc = "copy"
    /\ IF GetRedisPid THEN rdb' = "snapshot" /\ rpc' = "shutdown"
             ELSE Raise /\ UNCHANGED rdb
    /\ UNCHANGED <<setting, redis, replayRun, results, written, faults, stuck>>

(* SHUTDOWN NOSAVE; the ConnectionError of a server that is gone is        *)
(* dropped.                                                                *)
Shutdown ==
    /\ rpc = "shutdown" /\ rpc' = "exit"
    /\ redis' = IF Up THEN [redis EXCEPT !.st = "stopping"] ELSE redis
    /\ UNCHANGED <<setting, rdb, replayRun, results, written, faults, stuck>>

(* Mutant: a zombie is not reaped. *)
RedisProcessExitedUnreaped == redis.st = "gone"

(* _redis_process_exited: waitpid reaps a child; kill(pid, 0) fails for a  *)
(* process that is gone and succeeds for a zombie.                         *)
RedisProcessExited == Dead

WaitForRedisExit ==
    /\ rpc = "exit"
    /\ \/ /\ RedisProcessExited
          /\ redis' = [redis EXCEPT !.st = "gone"]
          /\ rpc' = "launch" /\ NoFault
       \/ UNCHANGED redis /\ Faulty /\ Raise          \* TimeoutError
    /\ UNCHANGED <<setting, rdb, replayRun, results, written, stuck>>

(* Popen.  A server cannot bind the port while another one has it.         *)
Launch ==
    /\ rpc = "launch" /\ rpc' = "ping"
    /\ redis' = IF redis.st = "gone"
                 THEN [gen |-> redis.gen + 1, st |-> "loading", data |-> rdb]
                 ELSE redis
    /\ UNCHANGED <<setting, rdb, replayRun, results, written, faults, stuck>>

(* PING until it is answered; a server that is dead never answers.         *)
WaitForRedis ==
    /\ rpc = "ping"
    /\ \/ Up /\ rpc' = "purge" /\ NoFault
       \/ Dead /\ Raise /\ NoFault
       \/ redis.st = "loading" /\ Faulty /\ Raise
    /\ UNCHANGED <<setting, redis, rdb, replayRun, results, written, stuck>>

-----------------------------------------------------------------------------
(* replay.                                                                 *)

BeginReplay ==
    /\ rpc = "purge"
    /\ IF GetRedisPid THEN rpc' = "line" ELSE Raise
    /\ pos' = 1 /\ counts' = Zeroes /\ tries' = Zeroes /\ missed' = Zeroes
    /\ todo' = {k \in DOMAIN Plan : Plan[k] = -1}
    /\ fresh' = (redis.data = "snapshot" /\ redis.gen > 0)
    /\ UNCHANGED <<setting, redis, rdb, combos, row, run, results, written,
                   faults, stuck>>

(* VAPTR raises unless the server answers.                                 *)
ResolveKeyVaddr == Up

(* Whether the two split_thp calls of break_page succeed has no effect on  *)
(* the replay.                                                             *)
BreakPage(k, next) ==
    IF ResolveKeyVaddr THEN tries' = [tries EXCEPT ![k] = @ + 1] /\ rpc' = next
                       ELSE Raise /\ UNCHANGED tries

PreBreak ==
    /\ rpc = "line" /\ \E k \in todo : BreakPage(k, "line") /\ todo' = todo \ {k}
    /\ UNCHANGED <<setting, redis, rdb, combos, row, run, pos, counts, missed,
                   fresh, results, written, faults, stuck>>

(* Mutant: every access from the breakpoint on. *)
BreakDueFromThen(k) == k \in DOMAIN Plan /\ Plan[k] # -1 /\ counts[k] >= Plan[k]
BreakDue(k) == k \in DOMAIN Plan /\ Plan[k] # -1 /\ counts[k] = Plan[k]

(* parse_line                                                              *)
IsCommand(line) == line # "blank"

ReplayLine ==
    /\ rpc = "line" /\ todo = {} /\ pos <= Len(Trace)
    /\ LET k == Trace[pos] IN
       IF ~IsCommand(k) THEN pos' = pos + 1 /\ UNCHANGED <<rpc, tries>>
       ELSE /\ UNCHANGED pos
            /\ IF BreakDue(k) THEN BreakPage(k, "execute")
                              ELSE rpc' = "execute" /\ UNCHANGED tries
    /\ UNCHANGED <<setting, redis, rdb, combos, row, run, counts, todo, missed,
                   fresh, results, written, faults, stuck>>

(* _execute: two attempts, and a RedisError of both is only logged.        *)
Execute ==
    /\ rpc = "execute" /\ rpc' = "line" /\ pos' = pos + 1
    /\ LET k == Trace[pos]
           Bump(f) == IF k \in Targets THEN [f EXCEPT ![k] = @ + 1] ELSE f
       IN  \/ /\ Up /\ NoFault
              /\ counts' = Bump(counts) /\ UNCHANGED missed
              /\ redis' = [redis EXCEPT !.data = "replayed"]
           \/ /\ IF Up THEN Faulty ELSE NoFault
              /\ missed' = Bump(missed) /\ UNCHANGED <<counts, redis>>
    /\ UNCHANGED <<setting, rdb, combos, row, run, todo, tries, fresh, results,
                   written, stuck>>

(* One runtime is stored; a row of results is complete after its last run. *)
EndRun ==
    /\ rpc = "line" /\ todo = {} /\ pos > Len(Trace)
    /\ results' = Append(results, [fresh |-> fresh, died |-> ~Up])
    /\ IF run < Runs THEN run' = run + 1 /\ UNCHANGED row /\ rpc' = "copy"
       ELSE /\ run' = 1 /\ row' = Min({row + 1, Len(combos)})
            /\ rpc' = IF row < Len(combos) THEN "copy" ELSE "write"
    /\ UNCHANGED <<setting, redis, rdb, combos, pos, counts, todo, tries, missed,
                   fresh, written, faults, stuck>>

WriteResults ==
    /\ rpc = "write" /\ written' = TRUE /\ rpc' = "teardown"
    /\ UNCHANGED <<setting, redis, rdb, replayRun, results, faults, stuck>>

-----------------------------------------------------------------------------
(* redis-server.                                                           *)

ServerLoads ==
    /\ redis.st = "loading" /\ redis' = [redis EXCEPT !.st = "up"]
    /\ UNCHANGED <<rpc, setting, rdb, replayRun, results, written, faults, stuck>>

ServerExits ==
    /\ redis.st = "stopping" /\ redis' = Exits(redis)
    /\ UNCHANGED <<rpc, setting, rdb, replayRun, results, written, faults, stuck>>

ServerCrashes ==
    /\ rpc \notin {"off", "done"} /\ redis.st \in {"loading", "up"} /\ Faulty
    /\ redis' = Exits(redis)
    /\ UNCHANGED <<rpc, setting, rdb, replayRun, results, written, stuck>>

ReplayProgram ==
    \/ SetupSystem \/ TeardownSystem \/ CopySnapshot \/ Shutdown
    \/ WaitForRedisExit \/ Launch \/ WaitForRedis \/ BeginReplay \/ PreBreak
    \/ ReplayLine \/ Execute \/ EndRun \/ WriteResults

ReplayServer == ServerLoads \/ ServerExits

ReplayNext == ReplayProgram \/ ReplayRaises \/ ReplayServer \/ ServerCrashes

ReplayFairness == WF_replayVars(ReplayProgram) /\ WF_replayVars(ReplayServer)

ReplaySpec == ReplayInit /\ [][ReplayNext]_replayVars /\ ReplayFairness

-----------------------------------------------------------------------------
(* A key is split at its breakpoint and only there: -1 before the trace, n *)
(* before the access that follows the n-th, count + 1 never.  An access    *)
(* that fails is not counted, so the next one may try the split again,     *)
(* at most once for each failure (replay_trace.py:607-633).                *)
BreaksAsPlanned ==
    /\ \A k \in Targets : tries[k] <= 1 + missed[k]
    /\ rpc = "line" /\ todo = {} /\ pos > Len(Trace) =>
       \A k \in DOMAIN Plan :
          LET total == Cardinality({i \in DOMAIN Trace : Trace[i] = k})
          IN  missed[k] = 0 => tries[k] = IF Plan[k] < total THEN 1 ELSE 0

(* The output file has a runtime for every run of every combination; each  *)
(* of them started on the snapshot in a server of its own, and only in the *)
(* very last one the server can have died: before any other the program    *)
(* would have noticed (replay_trace.py:536-571, 750-801).                  *)
ResultsTrusted ==
    written => /\ Len(results) = Len(combos) * Runs
               /\ \A i \in DOMAIN results :
                     /\ results[i].fresh
                     /\ results[i].died => i = Len(results)

(* Once the settings are changed the program ends with all of them as they *)
(* were, whatever fails in between, unless writing a setting itself fails; *)
(* and if nothing failed the results are there (replay_trace.py:748-804).  *)
SettingsRestored ==
    (rpc = "copy") ~>
        /\ rpc = "done"
        /\ stuck \/ \A s \in Range(Settings) : setting[s] = "was"
        /\ faults = 0 => written
=============================================================================
