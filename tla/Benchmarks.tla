----------------------------- MODULE Benchmarks -----------------------------
(***************************************************************************)
(* The benchmarks of python/kernmlops/kernmlops_benchmark as run_collect   *)
(* uses them: the main thread calls setup() and run(), the poll thread     *)
(* calls poll() until there is a return code, or kill() after a stop       *)
(* request.  redis, mongodb and memcached start a server, and run() loads  *)
(* and runs YCSB several times before it returns with the last YCSB        *)
(* process running; the others only start one process.                     *)
(***************************************************************************)
EXTENDS Integers, FiniteSets

CONSTANTS
    Kinds,      \* the benchmarks a run may have
    Rounds      \* repeat (times outer_repeat) of the YCSB benchmarks

Served == {"redis", "mongodb", "memcached"}

ASSUME KindsAssumption ==
    Kinds \subseteq Served \cup {"gap", "linux_build", "linnos", "faux"}
ASSUME RoundsAssumption == Rounds \in Nat \ {0}

VARIABLES
    kind,
    mainAt,   \* where the main thread is
    pollAt,   \* where the poll thread is: "loop", "zero" and "error" when poll()
              \* has returned a code, "putZero" and "putError" after kill()
    halted,   \* run_event is cleared
    port,     \* who listens: "free", "stale" (left by an earlier run), "own"
    prep,     \* the processes that setup() started run on
    srv,      \* the server process: "none", "alive", "told", "exited"
    hasSrv,   \* self.server is not None
    ycsb,     \* the last benchmark process: "none", "running", "zero", "error"
    held,     \* self.process is not None
    round,    \* benchmark processes started so far
    loading,  \* a YCSB load is running
    reported, \* the return code in the queue, NotYet before
    slow,     \* a server took more than ten seconds to exit (history)
    overlap   \* a load or run began beside another one (history)

benchmarkVars == <<kind, mainAt, pollAt, halted, port, prep, srv, hasSrv, ycsb,
                   held, round, loading, reported, slow, overlap>>

NotYet == -1

(* A memcached or redis-server of an earlier run may be on the port.       *)
BenchmarkIdle ==
    /\ pollAt = "off" /\ halted = FALSE /\ prep = FALSE
    /\ srv = "none" /\ hasSrv = FALSE /\ ycsb = "none" /\ held = FALSE
    /\ round = 0 /\ loading = FALSE /\ reported = NotYet
    /\ slow = FALSE /\ overlap = FALSE

BenchmarkInit ==
    /\ mainAt = "setup" /\ BenchmarkIdle
    /\ kind \in Kinds
    /\ port \in IF kind \in Served THEN {"free", "stale"} ELSE {"free"}

Busy == loading \/ prep \/ ycsb = "running"

-----------------------------------------------------------------------------
(* Setup; then run_collect starts the poll thread.                         *)

MainRaises == mainAt' = "raised"

(* generic_setup writes kernel settings that no one restores; a failing    *)
(* write, or `make defconfig`, raises before anything is started.          *)
GenericSetup ==
    /\ mainAt = "setup" /\ MainRaises
    /\ UNCHANGED <<kind, pollAt, halted, port, prep, srv, hasSrv, ycsb, held, round,
                   loading, reported, slow, overlap>>

Setup(port1, prep1) ==
    /\ mainAt = "setup" /\ mainAt' = "run" /\ pollAt' = "loop"
    /\ port' = port1 /\ prep' = prep1
    /\ UNCHANGED <<kind, halted, srv, hasSrv, ycsb, held, round, loading,
                   reported, slow, overlap>>

(* The converter and make are waited for.                                  *)
GapSetup == kind = "gap" /\ Setup(port, FALSE)
LinuxBuildSetup == kind = "linux_build" /\ Setup(port, FALSE)

(* The scripts that make the traces are started last, and not waited for.  *)
LinnosSetup == kind = "linnos" /\ Setup(port, TRUE)

(* Every mongod is killed as well.                                         *)
MongoSetup == kind = "mongodb" /\ Setup("free", FALSE)

SetupOnly == kind \in {"redis", "memcached", "faux"} /\ Setup(port, FALSE)

-----------------------------------------------------------------------------
(* run().                                                                  *)

(* One process, which self.process is at once.                             *)
StartProcess ==
    /\ mainAt = "run" /\ mainAt' = "get"
    /\ ycsb' = "running" /\ held' = TRUE /\ round' = Rounds
    /\ overlap' = (overlap \/ Busy)
    /\ UNCHANGED <<kind, pollAt, halted, port, prep, srv, hasSrv, loading, reported,
                   slow>>

GapRun == kind = "gap" /\ StartProcess
LinuxBuildRun == kind = "linux_build" /\ StartProcess
LinnosRun == kind = "linnos" /\ StartProcess

FauxRun ==
    /\ kind = "faux" /\ mainAt = "run" /\ mainAt' = "get"
    /\ UNCHANGED <<kind, pollAt, halted, port, prep, srv, hasSrv, ycsb, held, round,
                   loading, reported, slow, overlap>>

(* Popen of the server; it cannot bind a port that is taken, and exits.    *)
Serve(on) ==
    /\ mainAt = "run" /\ mainAt' = "ping"
    /\ hasSrv' = TRUE
    /\ IF on = "free" THEN port' = "own" /\ srv' = "alive"
                      ELSE port' = on /\ srv' = "exited"
    /\ UNCHANGED <<kind, pollAt, halted, prep, ycsb, held, round, loading, reported,
                   slow, overlap>>

(* Mutant: SHUTDOWN is not sent. *)
RedisStartNoShutdown == kind = "redis" /\ Serve(port)

(* SHUTDOWN NOSAVE to whatever listens on the port.                        *)
RedisStart == kind = "redis" /\ Serve("free")
MongoStart == kind = "mongodb" /\ Serve(port)
MemcachedStart == kind = "memcached" /\ Serve(port)

Pinged(answered) ==
    /\ mainAt = "ping"
    /\ (answered /\ mainAt' = "round") \/ (~answered /\ MainRaises)
    /\ UNCHANGED <<kind, pollAt, halted, port, prep, srv, hasSrv, ycsb, held, round,
                   loading, reported, slow, overlap>>

(* A server on the port answers, at the first ping or a later one, or not  *)
(* in time.                                                                *)
RedisPing == kind = "redis" /\ \E a \in {port # "free", FALSE} : Pinged(a)
MongoPing == kind = "mongodb" /\ \E a \in {port # "free", FALSE} : Pinged(a)

(* A list with shell=True runs its first word alone, `echo`, which always  *)
(* succeeds.                                                               *)
MemcachedPing == kind = "memcached" /\ Pinged(TRUE)

(* The head of the loop: wait for the process of the round before.         *)
Await ==
    /\ mainAt = "round" /\ round < Rounds /\ ycsb # "running"
    /\ IF ycsb = "error" THEN held' = TRUE /\ MainRaises
       ELSE mainAt' = "load" /\ UNCHANGED held
    /\ UNCHANGED <<kind, pollAt, halted, port, prep, srv, hasSrv, ycsb, round,
                   loading, reported, slow, overlap>>

(* purge_server may raise before the exit status is looked at.             *)
PurgeRaises ==
    /\ mainAt = "round" /\ 0 < round /\ round < Rounds /\ ycsb # "running"
    /\ MainRaises
    /\ UNCHANGED <<kind, pollAt, halted, port, prep, srv, hasSrv, ycsb, held, round,
                   loading, reported, slow, overlap>>

RedisAwait == kind = "redis" /\ (Await \/ PurgeRaises)
MongoAwait == kind = "mongodb" /\ Await
MemcachedAwait == kind = "memcached" /\ Await

(* The YCSB load, if this round has one; it is waited for.                 *)
Load(loads) ==
    /\ mainAt = "load"
    /\ IF loads THEN mainAt' = "loaded" /\ loading' = TRUE /\ overlap' = (overlap \/ Busy)
                ELSE mainAt' = "start" /\ UNCHANGED <<loading, overlap>>
    /\ UNCHANGED <<kind, pollAt, halted, port, prep, srv, hasSrv, ycsb, held, round,
                   reported, slow>>

(* redis loads once per repeat loop, the others in every round.            *)
RedisLoad == kind = "redis" /\ \E i \in {0, round} : Load(i = 0)
MongoLoad == kind = "mongodb" /\ Load(TRUE)
MemcachedLoad == kind = "memcached" /\ Load(TRUE)

LoadDone ==
    /\ mainAt = "loaded" /\ loading' = FALSE
    /\ mainAt' = "start" \/ MainRaises
    /\ UNCHANGED <<kind, pollAt, halted, port, prep, srv, hasSrv, ycsb, held, round,
                   reported, slow, overlap>>

(* Popen of the YCSB run: only a local variable knows it yet.              *)
StartRound ==
    /\ mainAt = "start" /\ mainAt' = "round"
    /\ ycsb' = "running" /\ round' = round + 1 /\ overlap' = (overlap \/ Busy)
    /\ UNCHANGED <<kind, pollAt, halted, port, prep, srv, hasSrv, held, loading,
                   reported, slow>>

RedisStartRound == kind = "redis" /\ StartRound
MongoStartRound == kind = "mongodb" /\ StartRound
MemcachedStartRound == kind = "memcached" /\ StartRound

(* self.process = process, the last statement of run().                    *)
RunReturns ==
    /\ mainAt = "round" /\ round = Rounds
    /\ held' = TRUE /\ mainAt' = "get"
    /\ UNCHANGED <<kind, pollAt, halted, port, prep, srv, hasSrv, ycsb, round, loading,
                   reported, slow, overlap>>

-----------------------------------------------------------------------------
(* end_server(), poll() and kill().                                        *)

Stopped(st) == IF st = "alive" THEN "told" ELSE st
Forget == hasSrv' = FALSE
Slow == srv = "alive" /\ slow' = TRUE
PollDies == pollAt' = "dead"

NoServer(next) == ~hasSrv /\ pollAt' = next /\ UNCHANGED <<srv, hasSrv, slow>>

(* SIGINT, ten seconds, then SIGTERM.                                      *)
RedisEndServer(next) ==
    \/ NoServer(next)
    \/ /\ hasSrv /\ srv' = Stopped(srv) /\ Forget /\ pollAt' = next
       /\ UNCHANGED slow \/ Slow

(* wait(10) raises TimeoutExpired: it never returns None.                  *)
MemcachedEndServer(next) ==
    \/ NoServer(next)
    \/ /\ hasSrv /\ srv' = Stopped(srv)
       /\ \/ Forget /\ pollAt' = next /\ UNCHANGED slow
          \/ Slow /\ PollDies /\ UNCHANGED hasSrv

(* The databases are dropped first, for which a server has to answer.      *)
MongoEndServer(answers, next) ==
    \/ NoServer(next)
    \/ /\ hasSrv /\ srv' = Stopped(srv) /\ UNCHANGED slow
       /\ IF answers THEN Forget /\ pollAt' = next
                     ELSE PollDies /\ UNCHANGED hasSrv

BesidePoll == UNCHANGED <<kind, mainAt, halted, port, prep, ycsb, held, round,
                          loading, reported, overlap>>

(* While there is no process, or it runs, the poll thread goes on.         *)
Exited == pollAt = "loop" /\ held /\ ycsb # "running"
Code == IF ycsb = "zero" THEN "zero" ELSE "error"

(* Mutant: the server is not ended. *)
RedisPollNoEnd ==
    /\ kind = "redis" /\ Exited /\ pollAt' = Code
    /\ UNCHANGED <<srv, hasSrv, slow>> /\ BesidePoll

RedisPoll == kind = "redis" /\ Exited /\ RedisEndServer(Code) /\ BesidePoll
MongoPoll ==
    kind = "mongodb" /\ Exited /\ MongoEndServer(srv = "alive", Code) /\ BesidePoll
MemcachedPoll ==
    kind = "memcached" /\ Exited /\ MemcachedEndServer(Code) /\ BesidePoll
ProcessPoll == kind \notin Served /\ Exited /\ NoServer(Code) /\ BesidePoll

PollBenchmark == RedisPoll \/ MongoPoll \/ MemcachedPoll \/ ProcessPoll

(* A stop that comes after poll() has returned a code is answered too.     *)
Halt == pollAt \in {"loop", "zero", "error"} /\ halted

(* BenchmarkNotRunningError, which nobody catches.                         *)
KillNoProcess ==
    /\ Halt /\ kind # "faux" /\ ~held
    /\ PollDies /\ UNCHANGED <<srv, hasSrv, slow>> /\ BesidePoll

(* The process gets SIGTERM and is not waited for: when it exits, and how, *)
(* is ProcessExits.                                                        *)
RedisKill ==
    kind = "redis" /\ Halt /\ held /\ RedisEndServer("putError") /\ BesidePoll
MemcachedKill ==
    kind = "memcached" /\ Halt /\ held /\ MemcachedEndServer("putError") /\ BesidePoll
ProcessKill ==
    kind \notin Served /\ Halt /\ held /\ NoServer("putError") /\ BesidePoll

(* The server is stopped, not the YCSB process, and end_server() then      *)
(* finds no server that answers.                                           *)
MongoKill ==
    kind = "mongodb" /\ Halt /\ held /\ MongoEndServer(FALSE, "putError") /\ BesidePoll

FauxKill == kind = "faux" /\ Halt /\ NoServer("putZero") /\ BesidePoll

KillBenchmark ==
    \/ KillNoProcess \/ RedisKill \/ MemcachedKill \/ ProcessKill \/ MongoKill
    \/ FauxKill

NotStopped ==
    /\ pollAt \in {"zero", "error"} /\ ~halted
    /\ pollAt' = IF pollAt = "zero" THEN "putZero" ELSE "putError"
    /\ UNCHANGED <<kind, mainAt, halted, port, prep, srv, hasSrv, ycsb, held, round,
                   loading, reported, slow, overlap>>

PutCode ==
    /\ pollAt \in {"putZero", "putError"} /\ pollAt' = "done"
    /\ reported' = IF pollAt = "putZero" THEN 0 ELSE 1
    /\ UNCHANGED <<kind, mainAt, halted, port, prep, srv, hasSrv, ycsb, held, round,
                   loading, slow, overlap>>

GetReported ==
    /\ mainAt = "get" /\ reported # NotYet /\ mainAt' = "ended"
    /\ UNCHANGED <<kind, pollAt, halted, port, prep, srv, hasSrv, ycsb, held, round,
                   loading, reported, slow, overlap>>

-----------------------------------------------------------------------------
(* Processes and the operator.                                             *)

ProcessExits ==
    /\ ycsb = "running" /\ ycsb' \in {"zero", "error"}
    /\ UNCHANGED <<kind, mainAt, pollAt, halted, port, prep, srv, hasSrv, held, round,
                   loading, reported, slow, overlap>>

ServerExit ==
    /\ srv \in {"told", "alive"} /\ srv' = "exited" /\ port' = "free"
    /\ UNCHANGED <<kind, mainAt, pollAt, halted, prep, hasSrv, ycsb, held, round,
                   loading, reported, slow, overlap>>

StopRequest ==
    /\ pollAt # "off" /\ ~halted /\ halted' = TRUE
    /\ UNCHANGED <<kind, mainAt, pollAt, port, prep, srv, hasSrv, ycsb, held, round,
                   loading, reported, slow, overlap>>

PrepEnds ==
    /\ prep /\ prep' = FALSE
    /\ UNCHANGED <<kind, mainAt, pollAt, halted, port, srv, hasSrv, ycsb, held, round,
                   loading, reported, slow, overlap>>

MainThread ==
    \/ GenericSetup \/ GapSetup \/ LinuxBuildSetup \/ LinnosSetup
    \/ MongoSetup \/ SetupOnly
    \/ GapRun \/ LinuxBuildRun \/ LinnosRun \/ FauxRun
    \/ RedisStart \/ MongoStart \/ MemcachedStart
    \/ RedisPing \/ MongoPing \/ MemcachedPing
    \/ RedisAwait \/ MongoAwait \/ MemcachedAwait
    \/ RedisLoad \/ MongoLoad \/ MemcachedLoad \/ LoadDone
    \/ RedisStartRound \/ MongoStartRound \/ MemcachedStartRound
    \/ RunReturns \/ GetReported

Environment == ProcessExits \/ ServerExit \/ PrepEnds \/ StopRequest

-----------------------------------------------------------------------------
(* A run that is not stopped reports 0 only when every round of the        *)
(* benchmark was started and the last one exited with 0; no setup, load or *)
(* round ran beside another one, except that linnos may replay traces that *)
(* are still being made; and redis and mongodb were never a server that    *)
(* somebody else had left on the port (redis.py:159-329,                   *)
(* mongodb.py:101-217, memcached.py:83-214, linnos.py:63-76).              *)
ZeroMeansAllRounds ==
    /\ overlap => kind = "linnos"
    /\ reported = 0 /\ kind # "faux" => round = Rounds /\ ycsb = "zero"
    /\ round > 0 /\ kind \in {"redis", "mongodb"} => port # "stale"

(* Once the return code is known the server has been told to stop, and the *)
(* benchmark keeps no handle to it: none is left behind unless it ignores  *)
(* the signals (redis.py:331-363, memcached.py:216-244).                   *)
ServerToldToStop ==
    reported # NotYet => ~hasSrv /\ srv # "alive"
=============================================================================
