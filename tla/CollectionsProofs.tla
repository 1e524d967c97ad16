------------------------- MODULE CollectionsProofs -------------------------
(***************************************************************************)
(* What Benchmarks and ProcSamplers promise of a run, for every benchmark  *)
(* and any number of rounds; and the programs that work on finished        *)
(* collections: what CompactionCollect promises of the manifest, for any   *)
(* number of benchmarks, runs and old directories, RedisClean of the       *)
(* cleaned copy, for any number of rows, and CompactionAnalysis of its     *)
(* tables, for any regions, passes, rounds and sample interval.            *)
(***************************************************************************)
EXTENDS ProcSamplers, CompactionCollect, RedisClean, CompactionAnalysis,
        FiniteSetTheorems, WellFoundedInduction, TLAPS

-----------------------------------------------------------------------------
(* Benchmarks and ProcSamplers: the inductive invariant.                   *)

ThreadsTypeOK ==
    /\ kind \in Kinds
    /\ mainAt \in {"setup", "run", "ping", "round", "load", "loaded", "start", "get",
                   "ended", "raised"}
    /\ pollAt \in {"off", "loop", "zero", "error", "putZero", "putError", "done", "dead"}
    /\ round \in 0..Rounds
    /\ reported \in {NotYet, 0, 1}

ProcessesTypeOK ==
    /\ port \in {"free", "stale", "own"}
    /\ srv \in {"none", "alive", "told", "exited"}
    /\ ycsb \in {"none", "running", "zero", "error"}

FlagsTypeOK ==
    /\ halted \in BOOLEAN /\ prep \in BOOLEAN /\ hasSrv \in BOOLEAN
    /\ held \in BOOLEAN /\ loading \in BOOLEAN /\ slow \in BOOLEAN
    /\ overlap \in BOOLEAN

BenchmarkTypeOK == ThreadsTypeOK /\ ProcessesTypeOK /\ FlagsTypeOK

SamplersTypeOK ==
    /\ hooks \subseteq Samplers /\ due \subseteq hooks
    /\ target \in [Samplers -> {Unresolved, "stale", "own"}]
    /\ sampled \in [Samplers -> SUBSET {"stale", "own"}]
    /\ passes \in {0, 1}

(* Main has started no process before run(), none that it does not wait    *)
(* for before a load, and none but those of the rounds it has counted.     *)
AloneInv ==
    /\ overlap => kind = "linnos"
    /\ prep => kind = "linnos"
    /\ loading => mainAt = "loaded"
    /\ mainAt = "setup" => pollAt = "off"
    /\ mainAt \in {"setup", "run", "ping"} => ycsb = "none" /\ round = 0
    /\ mainAt \in {"ping", "round", "load", "loaded", "start"} => kind \in Served
    /\ mainAt \in {"load", "loaded", "start"} => ycsb # "running" /\ round < Rounds

(* self.process is only set by a statement after which run() starts        *)
(* nothing: it returns with all rounds started, or raises after a failure. *)
HeldInv ==
    /\ held => \/ mainAt \in {"get", "ended"} /\ round = Rounds
               \/ mainAt = "raised" /\ ycsb = "error"
    /\ held => kind # "faux"

(* Who listens, from the moment a server has been started.                 *)
PortInv ==
    /\ kind = "mongodb" /\ mainAt \notin {"setup", "raised"} => port # "stale"
    /\ kind = "redis" /\ mainAt \notin {"setup", "run", "raised"} => port # "stale"
    /\ kind \in {"redis", "mongodb"} /\ round > 0 => port # "stale"

Answered == {"zero", "error", "putZero", "putError", "done"}

(* What a return code on its way to the main thread means.                 *)
CodeInv ==
    /\ pollAt \in Answered => held \/ kind = "faux"
    /\ pollAt \in Answered => ~hasSrv
    /\ pollAt \in {"zero", "putZero"} /\ kind # "faux" => ycsb = "zero"
    /\ reported # NotYet => pollAt = "done"
    /\ reported = 0 /\ kind # "faux" => ycsb = "zero"

(* The server of the benchmark and the handle to it.                       *)
ServerInv ==
    /\ hasSrv => kind \in Served
    /\ srv = "alive" => hasSrv
    /\ hasSrv /\ pollAt # "dead" => srv \in {"alive", "exited"}

(* A sampler that has found no process yet is due, in the first pass.      *)
TargetInv ==
    \A h \in hooks : target[h] = Unresolved => h \in due /\ passes = 0

SamplersInv ==
    /\ BenchmarkTypeOK /\ AloneInv /\ HeldInv /\ PortInv /\ CodeInv /\ ServerInv
    /\ SamplersTypeOK /\ TargetInv

-----------------------------------------------------------------------------
(* The server is ended from the poll thread: told to stop and forgotten,   *)
(* unless that thread dies of it.                                          *)

EndServer(next) ==
    \/ RedisEndServer(next) \/ MemcachedEndServer(next)
    \/ \E a \in BOOLEAN : MongoEndServer(a, next)

(* However a server is ended, the poll thread dies, or it goes on to the   *)
(* next step without a server that is alive and without the handle.        *)
LEMMA EndServerFacts ==
    ASSUME BenchmarkTypeOK, ServerInv, NEW next \in Answered, EndServer(next)
    PROVE  /\ srv' \in {"none", "alive", "told", "exited"}
           /\ hasSrv' \in BOOLEAN /\ slow' \in BOOLEAN
           /\ hasSrv' => hasSrv
           /\ srv' # "alive"
           /\ \/ pollAt' = next /\ hasSrv' = FALSE
              \/ pollAt' = "dead"
<1>1. CASE ~hasSrv /\ pollAt' = next /\ UNCHANGED <<srv, hasSrv, slow>>
  BY <1>1 DEF BenchmarkTypeOK, ProcessesTypeOK, FlagsTypeOK, ServerInv
<1>2. CASE hasSrv /\ srv' = Stopped(srv) /\ Forget /\ pollAt' = next
           /\ (UNCHANGED slow \/ Slow)
  BY <1>2 DEF BenchmarkTypeOK, ProcessesTypeOK, FlagsTypeOK, ServerInv, Stopped, Forget, Slow
<1>3. CASE hasSrv /\ srv' = Stopped(srv) /\ Slow /\ PollDies /\ UNCHANGED hasSrv
  BY <1>3 DEF BenchmarkTypeOK, ProcessesTypeOK, FlagsTypeOK, ServerInv, Stopped, Slow, PollDies
<1>4. CASE hasSrv /\ srv' = Stopped(srv) /\ UNCHANGED slow /\ PollDies
           /\ UNCHANGED hasSrv
  BY <1>4 DEF BenchmarkTypeOK, ProcessesTypeOK, FlagsTypeOK, ServerInv, Stopped, PollDies
<1>q. QED
  BY <1>1, <1>2, <1>3, <1>4
     DEF EndServer, RedisEndServer, MemcachedEndServer, MongoEndServer, NoServer

-----------------------------------------------------------------------------
(* The steps of the main thread.                                           *)

BesideSamplers == UNCHANGED <<hooks, due, target, sampled, passes>>

(* A step of the benchmark changes nothing of the samplers.                *)
LEMMA SamplersKept ==
    ASSUME SamplersTypeOK, TargetInv, BesideSamplers
    PROVE  SamplersTypeOK' /\ TargetInv'
BY DEF SamplersTypeOK, TargetInv, BesideSamplers

(* Setup: only linnos leaves processes behind, and mongodb frees the port. *)
LEMMA SetupStep ==
    ASSUME SamplersInv, BesideSamplers,
           \/ GenericSetup \/ GapSetup \/ LinuxBuildSetup \/ LinnosSetup
           \/ MongoSetup \/ SetupOnly
    PROVE  SamplersInv'
<1>. USE KindsAssumption, RoundsAssumption
     DEF SamplersInv, NotYet, Served, GenericSetup, GapSetup, LinuxBuildSetup,
         LinnosSetup, MongoSetup, SetupOnly, Setup, MainRaises
<1>1. BenchmarkTypeOK'
  <2>1. ThreadsTypeOK'
    BY DEF BenchmarkTypeOK, ThreadsTypeOK
  <2>2. ProcessesTypeOK'
    BY DEF BenchmarkTypeOK, ProcessesTypeOK
  <2>3. FlagsTypeOK'
    BY DEF BenchmarkTypeOK, FlagsTypeOK, Busy
  <2>q. QED
    BY <2>1, <2>2, <2>3 DEF BenchmarkTypeOK
<1>2. AloneInv' /\ HeldInv' /\ PortInv'
  BY DEF BenchmarkTypeOK, ThreadsTypeOK, ProcessesTypeOK, FlagsTypeOK,
        AloneInv, HeldInv, PortInv, Served
<1>3. CodeInv'
  BY DEF BenchmarkTypeOK, ThreadsTypeOK, ProcessesTypeOK, FlagsTypeOK,
        AloneInv, CodeInv, Answered
<1>4. ServerInv'
  BY DEF BenchmarkTypeOK, ThreadsTypeOK, ProcessesTypeOK, FlagsTypeOK,
        AloneInv, ServerInv
<1>q. QED
  BY <1>1, <1>2, <1>3, <1>4, SamplersKept

(* run() of a benchmark with one process, and of faux, which has none.     *)
LEMMA StartStep ==
    ASSUME SamplersInv, BesideSamplers,
           GapRun \/ LinuxBuildRun \/ LinnosRun \/ FauxRun
    PROVE  SamplersInv'
<1>. USE KindsAssumption, RoundsAssumption
     DEF SamplersInv, NotYet, Served, GapRun, LinuxBuildRun, LinnosRun, FauxRun,
         StartProcess
<1>1. BenchmarkTypeOK'
  <2>1. ThreadsTypeOK'
    BY DEF BenchmarkTypeOK, ThreadsTypeOK
  <2>2. ProcessesTypeOK'
    BY DEF BenchmarkTypeOK, ProcessesTypeOK
  <2>3. FlagsTypeOK'
    BY DEF BenchmarkTypeOK, FlagsTypeOK, Busy
  <2>q. QED
    BY <2>1, <2>2, <2>3 DEF BenchmarkTypeOK
<1>2. AloneInv' /\ HeldInv' /\ PortInv'
  BY DEF BenchmarkTypeOK, ThreadsTypeOK, ProcessesTypeOK, FlagsTypeOK,
        AloneInv, HeldInv, PortInv, Served, Busy
<1>3. CodeInv'
  BY DEF BenchmarkTypeOK, ThreadsTypeOK, ProcessesTypeOK, FlagsTypeOK,
        AloneInv, HeldInv, CodeInv, Answered
<1>4. ServerInv'
  BY DEF BenchmarkTypeOK, ThreadsTypeOK, ProcessesTypeOK, FlagsTypeOK,
        ServerInv
<1>q. QED
  BY <1>1, <1>2, <1>3, <1>4, SamplersKept

(* A server starts before anything has answered; what is on the port of    *)
(* redis has been shut down, and mongodb has been killed in setup().       *)
LEMMA ServeStep ==
    ASSUME SamplersInv, BesideSamplers,
           RedisStart \/ MongoStart \/ MemcachedStart
    PROVE  SamplersInv'
<1>. USE KindsAssumption, RoundsAssumption
     DEF SamplersInv, NotYet, Served, RedisStart, MongoStart, MemcachedStart, Serve
<1>1. BenchmarkTypeOK'
  <2>1. ThreadsTypeOK'
    BY DEF BenchmarkTypeOK, ThreadsTypeOK
  <2>2. ProcessesTypeOK'
    BY DEF BenchmarkTypeOK, ProcessesTypeOK
  <2>3. FlagsTypeOK'
    BY DEF BenchmarkTypeOK, FlagsTypeOK, Busy
  <2>q. QED
    BY <2>1, <2>2, <2>3 DEF BenchmarkTypeOK
<1>2. AloneInv' /\ HeldInv' /\ PortInv'
  BY DEF BenchmarkTypeOK, ThreadsTypeOK, ProcessesTypeOK, FlagsTypeOK,
        AloneInv, HeldInv, PortInv, Served
<1>3. CodeInv'
  BY DEF BenchmarkTypeOK, ThreadsTypeOK, ProcessesTypeOK, FlagsTypeOK,
        HeldInv, CodeInv, Answered
<1>4. ServerInv'
  BY DEF BenchmarkTypeOK, ThreadsTypeOK, ProcessesTypeOK, FlagsTypeOK,
        ServerInv, Served
<1>q. QED
  BY <1>1, <1>2, <1>3, <1>4, SamplersKept

(* Pings, waits, loads and rounds, up to the return of run(), and the code *)
(* from the queue: only StartRound starts a process, beside no other one.  *)
LEMMA RoundStep ==
    ASSUME SamplersInv, BesideSamplers,
           \/ RedisPing \/ MongoPing \/ MemcachedPing
           \/ RedisAwait \/ MongoAwait \/ MemcachedAwait
           \/ RedisLoad \/ MongoLoad \/ MemcachedLoad \/ LoadDone
           \/ RedisStartRound \/ MongoStartRound \/ MemcachedStartRound
           \/ RunReturns \/ GetReported
    PROVE  SamplersInv'
<1>. USE KindsAssumption, RoundsAssumption DEF SamplersInv, NotYet, Served
<1>1. CASE RedisPing \/ MongoPing \/ MemcachedPing
  <2>. USE <1>1 DEF RedisPing, MongoPing, MemcachedPing, Pinged, MainRaises
  <2>1. BenchmarkTypeOK'
    <3>1. ThreadsTypeOK'
      BY DEF BenchmarkTypeOK, ThreadsTypeOK
    <3>2. ProcessesTypeOK'
      BY DEF BenchmarkTypeOK, ProcessesTypeOK
    <3>3. FlagsTypeOK'
      BY DEF BenchmarkTypeOK, FlagsTypeOK, Busy
    <3>q. QED
      BY <3>1, <3>2, <3>3 DEF BenchmarkTypeOK
  <2>2. AloneInv' /\ HeldInv' /\ PortInv'
    BY DEF BenchmarkTypeOK, ThreadsTypeOK, ProcessesTypeOK, FlagsTypeOK,
        AloneInv, HeldInv, PortInv, Served
  <2>3. CodeInv' /\ ServerInv'
    BY DEF BenchmarkTypeOK, ThreadsTypeOK, ProcessesTypeOK, FlagsTypeOK,
        CodeInv, Answered, ServerInv
  <2>q. QED
    BY <2>1, <2>2, <2>3, SamplersKept
<1>2. CASE RedisAwait \/ MongoAwait \/ MemcachedAwait
  <2>. USE <1>2 DEF RedisAwait, MongoAwait, MemcachedAwait, Await, PurgeRaises, MainRaises
  <2>1. BenchmarkTypeOK'
    <3>1. ThreadsTypeOK'
      BY DEF BenchmarkTypeOK, ThreadsTypeOK
    <3>2. ProcessesTypeOK'
      BY DEF BenchmarkTypeOK, ProcessesTypeOK
    <3>3. FlagsTypeOK'
      BY DEF BenchmarkTypeOK, FlagsTypeOK, Busy
    <3>q. QED
      BY <3>1, <3>2, <3>3 DEF BenchmarkTypeOK
  <2>2. AloneInv' /\ HeldInv' /\ PortInv'
    BY DEF BenchmarkTypeOK, ThreadsTypeOK, ProcessesTypeOK, FlagsTypeOK,
        AloneInv, HeldInv, PortInv, Served
  <2>3. CodeInv' /\ ServerInv'
    BY DEF BenchmarkTypeOK, ThreadsTypeOK, ProcessesTypeOK, FlagsTypeOK,
        CodeInv, Answered, ServerInv
  <2>q. QED
    BY <2>1, <2>2, <2>3, SamplersKept
<1>3. CASE RedisLoad \/ MongoLoad \/ MemcachedLoad \/ LoadDone
  <2>. USE <1>3 DEF RedisLoad, MongoLoad, MemcachedLoad, LoadDone, Load, MainRaises
  <2>1. BenchmarkTypeOK'
    <3>1. ThreadsTypeOK'
      BY DEF BenchmarkTypeOK, ThreadsTypeOK
    <3>2. ProcessesTypeOK'
      BY DEF BenchmarkTypeOK, ProcessesTypeOK
    <3>3. FlagsTypeOK'
      BY DEF BenchmarkTypeOK, FlagsTypeOK, Busy
    <3>q. QED
      BY <3>1, <3>2, <3>3 DEF BenchmarkTypeOK
  <2>2. AloneInv' /\ HeldInv' /\ PortInv'
    BY DEF BenchmarkTypeOK, ThreadsTypeOK, ProcessesTypeOK, FlagsTypeOK,
        AloneInv, HeldInv, PortInv, Served, Busy
  <2>3. CodeInv' /\ ServerInv'
    BY DEF BenchmarkTypeOK, ThreadsTypeOK, ProcessesTypeOK, FlagsTypeOK,
        CodeInv, Answered, ServerInv
  <2>q. QED
    BY <2>1, <2>2, <2>3, SamplersKept
<1>4. CASE RedisStartRound \/ MongoStartRound \/ MemcachedStartRound
  <2>. USE <1>4 DEF RedisStartRound, MongoStartRound, MemcachedStartRound, StartRound
  <2>1. BenchmarkTypeOK'
    <3>1. ThreadsTypeOK'
      BY DEF BenchmarkTypeOK, ThreadsTypeOK, AloneInv
    <3>2. ProcessesTypeOK'
      BY DEF BenchmarkTypeOK, ProcessesTypeOK
    <3>3. FlagsTypeOK'
      BY DEF BenchmarkTypeOK, FlagsTypeOK, Busy
    <3>q. QED
      BY <3>1, <3>2, <3>3 DEF BenchmarkTypeOK
  <2>2. AloneInv' /\ HeldInv' /\ PortInv'
    BY DEF BenchmarkTypeOK, ThreadsTypeOK, ProcessesTypeOK, FlagsTypeOK,
        AloneInv, HeldInv, PortInv, Served, Busy
  <2>3. CodeInv' /\ ServerInv'
    BY DEF BenchmarkTypeOK, ThreadsTypeOK, ProcessesTypeOK, FlagsTypeOK,
        HeldInv, CodeInv, Answered, ServerInv
  <2>q. QED
    BY <2>1, <2>2, <2>3, SamplersKept
<1>5. CASE RunReturns \/ GetReported
  <2>. USE <1>5 DEF RunReturns, GetReported
  <2>1. BenchmarkTypeOK'
    <3>1. ThreadsTypeOK'
      BY DEF BenchmarkTypeOK, ThreadsTypeOK
    <3>2. ProcessesTypeOK'
      BY DEF BenchmarkTypeOK, ProcessesTypeOK
    <3>3. FlagsTypeOK'
      BY DEF BenchmarkTypeOK, FlagsTypeOK, Busy
    <3>q. QED
      BY <3>1, <3>2, <3>3 DEF BenchmarkTypeOK
  <2>2. AloneInv' /\ HeldInv' /\ PortInv'
    BY DEF BenchmarkTypeOK, ThreadsTypeOK, ProcessesTypeOK, FlagsTypeOK,
        AloneInv, HeldInv, PortInv, Served
  <2>3. CodeInv' /\ ServerInv'
    BY DEF BenchmarkTypeOK, ThreadsTypeOK, ProcessesTypeOK, FlagsTypeOK,
        CodeInv, Answered, ServerInv
  <2>q. QED
    BY <2>1, <2>2, <2>3, SamplersKept
<1>q. QED
  BY <1>1, <1>2, <1>3, <1>4, <1>5

-----------------------------------------------------------------------------
(* The steps of processes, of the operator, and of the poll thread.        *)

(* A process that is held and has exited does not run again, and a server  *)
(* that exits frees the port.                                              *)
LEMMA EnvironmentStep ==
    ASSUME SamplersInv, BesideSamplers, Environment
    PROVE  SamplersInv'
<1>. USE DEF SamplersInv, NotYet, Served, Environment, ProcessExits, ServerExit,
             PrepEnds, StopRequest
<1>1. BenchmarkTypeOK'
  <2>1. ThreadsTypeOK'
    BY DEF BenchmarkTypeOK, ThreadsTypeOK
  <2>2. ProcessesTypeOK'
    BY DEF BenchmarkTypeOK, ProcessesTypeOK
  <2>3. FlagsTypeOK'
    BY DEF BenchmarkTypeOK, FlagsTypeOK
  <2>q. QED
    BY <2>1, <2>2, <2>3 DEF BenchmarkTypeOK
<1>2. AloneInv' /\ HeldInv' /\ PortInv'
  BY DEF BenchmarkTypeOK, ThreadsTypeOK, ProcessesTypeOK, FlagsTypeOK,
         AloneInv, HeldInv, PortInv
<1>3. CodeInv' /\ ServerInv'
  BY DEF BenchmarkTypeOK, ThreadsTypeOK, ProcessesTypeOK, FlagsTypeOK,
         CodeInv, Answered, ServerInv
<1>q. QED
  BY <1>1, <1>2, <1>3, SamplersKept

(* poll() or kill() ends the server and has a code: the code says how the  *)
(* process ended, and there is one, unless the benchmark is faux.          *)
LEMMA EndsServerStep ==
    ASSUME SamplersInv, BesideSamplers, BesidePoll, NEW next \in Answered,
           EndServer(next),
           held \/ kind = "faux",
           next \in {"zero", "putZero"} /\ kind # "faux" => ycsb = "zero",
           reported = NotYet, pollAt # "off"
    PROVE  SamplersInv'
<1>. USE DEF SamplersInv, NotYet, Served, BesidePoll
<1>. /\ srv' \in {"none", "alive", "told", "exited"}
     /\ hasSrv' \in BOOLEAN /\ slow' \in BOOLEAN
     /\ hasSrv' => hasSrv
     /\ srv' # "alive"
     /\ \/ pollAt' = next /\ hasSrv' = FALSE
        \/ pollAt' = "dead"
  BY EndServerFacts
<1>1. BenchmarkTypeOK'
  <2>1. ThreadsTypeOK'
    BY DEF BenchmarkTypeOK, ThreadsTypeOK, Answered
  <2>2. ProcessesTypeOK'
    BY DEF BenchmarkTypeOK, ProcessesTypeOK
  <2>3. FlagsTypeOK'
    BY DEF BenchmarkTypeOK, FlagsTypeOK
  <2>q. QED
    BY <2>1, <2>2, <2>3 DEF BenchmarkTypeOK
<1>2. AloneInv' /\ HeldInv' /\ PortInv'
  BY DEF BenchmarkTypeOK, ThreadsTypeOK, ProcessesTypeOK, FlagsTypeOK,
         AloneInv, HeldInv, PortInv, Answered
<1>3. CodeInv'
  BY DEF BenchmarkTypeOK, ThreadsTypeOK, ProcessesTypeOK, FlagsTypeOK,
         CodeInv, Answered
<1>4. ServerInv'
  BY DEF BenchmarkTypeOK, ThreadsTypeOK, ProcessesTypeOK, FlagsTypeOK,
         ServerInv, Answered
<1>q. QED
  BY <1>1, <1>2, <1>3, <1>4, SamplersKept

(* benchmark.poll(): only of a process that is held and has exited.        *)
LEMMA PollStep ==
    ASSUME SamplersInv, BesideSamplers, PollBenchmark
    PROVE  SamplersInv'
<1>1. BesidePoll /\ Exited /\ EndServer(Code)
  BY DEF PollBenchmark, RedisPoll, MongoPoll, MemcachedPoll, ProcessPoll, EndServer,
         RedisEndServer
<1>2. /\ Code \in Answered
      /\ held \/ kind = "faux"
      /\ Code \in {"zero", "putZero"} /\ kind # "faux" => ycsb = "zero"
      /\ reported = NotYet /\ pollAt # "off"
  BY <1>1 DEF Code, Answered, Exited, SamplersInv, CodeInv, NotYet
<1>q. QED
  BY <1>1, <1>2, EndsServerStep

(* benchmark.kill(): raises, or ends the server and answers with an error; *)
(* faux answers with zero.                                                 *)
LEMMA KillStep ==
    ASSUME SamplersInv, BesideSamplers, KillBenchmark
    PROVE  SamplersInv'
<1>1. BesidePoll /\ Halt
  BY DEF KillBenchmark, KillNoProcess, RedisKill, MemcachedKill, ProcessKill, MongoKill,
         FauxKill
<1>2. reported = NotYet /\ pollAt # "off"
  BY <1>1 DEF Halt, SamplersInv, CodeInv, NotYet
<1>3. CASE KillNoProcess
  <2>. USE <1>3 DEF SamplersInv, NotYet, Served, KillNoProcess, BesidePoll, PollDies
  <2>1. ThreadsTypeOK'
    BY DEF BenchmarkTypeOK, ThreadsTypeOK
  <2>2. ProcessesTypeOK' /\ FlagsTypeOK'
    BY DEF BenchmarkTypeOK, ProcessesTypeOK, FlagsTypeOK
  <2>3. AloneInv' /\ HeldInv' /\ PortInv'
    BY DEF BenchmarkTypeOK, ThreadsTypeOK, ProcessesTypeOK, FlagsTypeOK,
         AloneInv, HeldInv, PortInv, Halt
  <2>4. CodeInv' /\ ServerInv'
    BY <1>2 DEF BenchmarkTypeOK, ThreadsTypeOK, ProcessesTypeOK, FlagsTypeOK,
         CodeInv, Answered, ServerInv
  <2>q. QED
    BY <2>1, <2>2, <2>3, <2>4, SamplersKept DEF BenchmarkTypeOK
<1>4. CASE RedisKill \/ MemcachedKill \/ ProcessKill \/ MongoKill
  <2>1. EndServer("putError") /\ held
    BY <1>4 DEF RedisKill, MemcachedKill, ProcessKill, MongoKill, EndServer,
                RedisEndServer
  <2>q. QED
    BY <1>1, <1>2, <2>1, EndsServerStep DEF Answered
<1>5. CASE FauxKill
  <2>1. EndServer("putZero") /\ kind = "faux"
    BY <1>5 DEF FauxKill, EndServer, RedisEndServer
  <2>q. QED
    BY <1>1, <1>2, <2>1, EndsServerStep DEF Answered
<1>q. QED
  BY <1>3, <1>4, <1>5 DEF KillBenchmark

(* The code goes into the queue.                                           *)
LEMMA PutStep ==
    ASSUME SamplersInv, BesideSamplers, NotStopped \/ PutCode
    PROVE  SamplersInv'
<1>. USE DEF SamplersInv, NotYet, Served, NotStopped, PutCode
<1>1. BenchmarkTypeOK'
  <2>1. ThreadsTypeOK'
    BY DEF BenchmarkTypeOK, ThreadsTypeOK
  <2>2. ProcessesTypeOK'
    BY DEF BenchmarkTypeOK, ProcessesTypeOK
  <2>3. FlagsTypeOK'
    BY DEF BenchmarkTypeOK, FlagsTypeOK
  <2>q. QED
    BY <2>1, <2>2, <2>3 DEF BenchmarkTypeOK
<1>2. AloneInv' /\ HeldInv' /\ PortInv'
  BY DEF BenchmarkTypeOK, ThreadsTypeOK, ProcessesTypeOK, FlagsTypeOK,
         AloneInv, HeldInv, PortInv
<1>3. CodeInv' /\ ServerInv'
  BY DEF BenchmarkTypeOK, ThreadsTypeOK, ProcessesTypeOK, FlagsTypeOK,
         CodeInv, Answered, ServerInv
<1>q. QED
  BY <1>1, <1>2, <1>3, SamplersKept

-----------------------------------------------------------------------------
(* The steps of the samplers.                                              *)

(* They leave the benchmark alone.                                         *)
LEMMA BenchmarkKept ==
    ASSUME BenchmarkTypeOK, AloneInv, HeldInv, PortInv, CodeInv, ServerInv,
           UNCHANGED benchmarkVars
    PROVE  BenchmarkTypeOK' /\ AloneInv' /\ HeldInv' /\ PortInv' /\ CodeInv' /\ ServerInv'
<1>. USE DEF benchmarkVars
<1>1. BenchmarkTypeOK'
  BY DEF BenchmarkTypeOK, ThreadsTypeOK, ProcessesTypeOK, FlagsTypeOK
<1>2. AloneInv' /\ HeldInv' /\ PortInv'
  BY DEF AloneInv, HeldInv, PortInv
<1>3. CodeInv' /\ ServerInv'
  BY DEF CodeInv, Answered, ServerInv, NotYet
<1>q. QED
  BY <1>1, <1>2, <1>3

(* What is found is the process of this run or of an earlier one, and the  *)
(* sampler that has found it is no longer due.                             *)
LEMMA SampleStep ==
    ASSUME SamplersInv, NEW h \in Samplers, NEW p \in {"stale", "own"}, Sample(h, p)
    PROVE  SamplersInv'
<1>1. BenchmarkTypeOK' /\ AloneInv' /\ HeldInv' /\ PortInv' /\ CodeInv' /\ ServerInv'
  BY BenchmarkKept DEF Sample, SamplersInv
<1>2. SamplersTypeOK'
  BY DEF Sample, SamplersInv, SamplersTypeOK
<1>3. TargetInv'
  BY DEF Sample, SamplersInv, SamplersTypeOK, TargetInv, Unresolved
<1>q. QED
  BY <1>1, <1>2, <1>3 DEF SamplersInv

(* A sampler that finds no process kills the poll thread.                  *)
LEMMA RaisesStep ==
    ASSUME SamplersInv, pollAt = "loop", SamplerRaises
    PROVE  SamplersInv'
<1>. USE DEF SamplersInv, SamplerRaises, PollDies, NotYet, Served
<1>1. BenchmarkTypeOK'
  <2>1. ThreadsTypeOK'
    BY DEF BenchmarkTypeOK, ThreadsTypeOK
  <2>2. ProcessesTypeOK' /\ FlagsTypeOK'
    BY DEF BenchmarkTypeOK, ProcessesTypeOK, FlagsTypeOK
  <2>q. QED
    BY <2>1, <2>2 DEF BenchmarkTypeOK
<1>2. AloneInv' /\ HeldInv' /\ PortInv'
  BY DEF BenchmarkTypeOK, ThreadsTypeOK, ProcessesTypeOK, FlagsTypeOK,
         AloneInv, HeldInv, PortInv
<1>3. CodeInv' /\ ServerInv'
  BY DEF BenchmarkTypeOK, ThreadsTypeOK, ProcessesTypeOK, FlagsTypeOK,
         CodeInv, Answered, ServerInv
<1>4. BesideSamplers
  BY DEF BesideSamplers
<1>q. QED
  BY <1>1, <1>2, <1>3, <1>4, SamplersKept

(* A sampler finds a process, has found one, or raises.                    *)
LEMMA PollSamplerStep ==
    ASSUME SamplersInv, NEW h \in Samplers, PollSampler(h)
    PROVE  SamplersInv'
<1>1. ASSUME target[h] # Unresolved, Sample(h, target[h]) PROVE SamplersInv'
  <2>1. target[h] \in {"stale", "own"}
    BY <1>1 DEF SamplersInv, SamplersTypeOK
  <2>q. QED
    BY <1>1, <2>1, SampleStep
<1>2. ASSUME NEW p \in FindTargetPid, Sample(h, p) PROVE SamplersInv'
  <2>1. p \in {"stale", "own"}
    BY DEF FindTargetPid
  <2>q. QED
    BY <1>2, <2>1, SampleStep
<1>q. QED
  BY <1>1, <1>2, RaisesStep DEF PollSampler

(* The next pass begins: every sampler has its process by then.            *)
LEMMA NextPassStep ==
    ASSUME SamplersInv, NextPass
    PROVE  SamplersInv'
<1>1. BenchmarkTypeOK' /\ AloneInv' /\ HeldInv' /\ PortInv' /\ CodeInv' /\ ServerInv'
  BY BenchmarkKept DEF NextPass, SamplersInv
<1>2. SamplersTypeOK' /\ TargetInv'
  BY DEF NextPass, SamplersInv, SamplersTypeOK, TargetInv
<1>q. QED
  BY <1>1, <1>2 DEF SamplersInv

-----------------------------------------------------------------------------
(* Every step.                                                             *)

(* Nothing has been started.                                               *)
LEMMA SamplersInitInv == SamplersInit => SamplersInv
<1>. SUFFICES ASSUME SamplersInit PROVE SamplersInv
  OBVIOUS
<1>. USE RoundsAssumption
     DEF SamplersInit, BenchmarkInit, BenchmarkIdle, SamplersIdle, NotYet
<1>1. ThreadsTypeOK
  BY DEF ThreadsTypeOK
<1>2. ProcessesTypeOK /\ FlagsTypeOK
  BY DEF ProcessesTypeOK, FlagsTypeOK
<1>3. SamplersTypeOK
  BY DEF SamplersTypeOK
<1>4. AloneInv /\ HeldInv /\ PortInv /\ CodeInv /\ ServerInv
  BY DEF AloneInv, HeldInv, PortInv, CodeInv, ServerInv, Answered, Served
<1>5. TargetInv
  BY DEF TargetInv
<1>q. QED
  BY <1>1, <1>2, <1>3, <1>4, <1>5 DEF SamplersInv, BenchmarkTypeOK

(* Every step keeps the invariant.                                         *)
LEMMA SamplersStep ==
    ASSUME SamplersInv, [SamplersNext]_samplerVars
    PROVE  SamplersInv'
<1>1. CASE UNCHANGED samplerVars
  <2>1. UNCHANGED benchmarkVars /\ BesideSamplers
    BY <1>1 DEF samplerVars, BesideSamplers
  <2>q. QED
    BY <2>1, BenchmarkKept, SamplersKept DEF SamplersInv
<1>2. CASE PollMaps \/ PollSmaps
  BY <1>2, PollSamplerStep DEF PollMaps, PollSmaps, Samplers
<1>3. CASE NextPass
  BY <1>3, NextPassStep
<1>4. CASE (PollBenchmark \/ KillBenchmark \/ NotStopped \/ PutCode) /\ BesideSamplers
  BY <1>4, PollStep, KillStep, PutStep
<1>5. CASE MainThread /\ BesideSamplers
  BY <1>5, SetupStep, StartStep, ServeStep, RoundStep DEF MainThread
<1>6. CASE Environment /\ BesideSamplers
  BY <1>6, EnvironmentStep
<1>q. QED
  BY <1>1, <1>2, <1>3, <1>4, <1>5, <1>6
     DEF SamplersNext, PollThread, BesideSamplers

(* The inductive invariant: main starts no process beside another one, a   *)
(* code on its way is that of a process which is held, and the handle of   *)
(* the server is gone by then.                                             *)
THEOREM SamplersCorrect == SamplersSpec => []SamplersInv
<1>1. SamplersInv /\ [SamplersNext]_samplerVars => SamplersInv'
  BY SamplersStep
<1>q. QED
  BY SamplersInitInv, <1>1, PTL DEF SamplersSpec

(* A run that is not stopped reports 0 only when every round was started   *)
(* and the last process exited with 0; no round ran beside another one;    *)
(* and redis and mongodb were not the server of somebody else              *)
(* (redis.py:159-329, mongodb.py:101-217).                                 *)
THEOREM ZeroAllRoundsCorrect == SamplersSpec => []ZeroMeansAllRounds
<1>1. SamplersInv => ZeroMeansAllRounds
  BY DEF SamplersInv, AloneInv, HeldInv, PortInv, CodeInv, Answered, ZeroMeansAllRounds,
         NotYet
<1>q. QED
  BY SamplersCorrect, <1>1, PTL

(* When the return code is known, the server has been told to stop or has  *)
(* exited, and the benchmark has no handle to it (redis.py:331-363,        *)
(* memcached.py:216-244).                                                  *)
THEOREM ServerToldCorrect == SamplersSpec => []ServerToldToStop
<1>1. SamplersInv => ServerToldToStop
  BY DEF SamplersInv, CodeInv, ServerInv, Answered, ServerToldToStop
<1>q. QED
  BY SamplersCorrect, <1>1, PTL

-----------------------------------------------------------------------------
(* The poll thread.                                                        *)

(* Why it may die in a step.                                               *)
MayDie ==
    \/ due # {} /\ passes = 0
    \/ halted /\ ~held
    \/ kind = "memcached" /\ slow'
    \/ kind = "mongodb" /\ (halted \/ srv = "exited")

(* Ending the server kills it only with memcached, when that is slow, and  *)
(* with mongodb when the server does not answer.                           *)
LEMMA EndServerDeath ==
    ASSUME SamplersInv, pollAt # "dead", pollAt' = "dead", NEW next \in Answered
    PROVE  /\ ~RedisEndServer(next) /\ ~NoServer(next)
           /\ MemcachedEndServer(next) => slow'
           /\ \A a \in BOOLEAN : MongoEndServer(a, next) => ~a /\ hasSrv
BY DEF RedisEndServer, MemcachedEndServer, MongoEndServer, NoServer, Slow, Answered

(* The poll thread dies only where the code lets it (collect.py:36-62,     *)
(* redis.py:352-363, proc_maps_hook.py:84-97).                             *)
THEOREM SurvivesCorrect == SamplersSpec => PollThreadSurvives
<1>1. ASSUME SamplersInv, SamplersNext, pollAt # "dead", pollAt' = "dead"
      PROVE  MayDie
  <2>. USE <1>1 DEF MayDie
  <2>1. ASSUME NEW h \in Samplers, PollSampler(h) PROVE MayDie
    <3>1. h \in due
      BY <2>1 DEF PollSampler
    <3>2. CASE target[h] = Unresolved
      BY <3>1, <3>2 DEF SamplersInv, SamplersTypeOK, TargetInv
    <3>3. CASE target[h] # Unresolved
      BY <2>1, <3>3 DEF PollSampler, Sample, benchmarkVars
    <3>q. QED
      BY <3>2, <3>3
  <2>2. CASE PollMaps \/ PollSmaps
    BY <2>1, <2>2 DEF PollMaps, PollSmaps, Samplers
  <2>3. CASE NextPass
    BY <2>3 DEF NextPass, benchmarkVars
  <2>4. CASE PollBenchmark
    <3>1. Code \in Answered
      BY DEF Code, Answered
    <3>2. CASE RedisPoll \/ ProcessPoll
      BY <3>1, <3>2, EndServerDeath DEF RedisPoll, ProcessPoll
    <3>3. CASE MemcachedPoll
      BY <3>1, <3>3, EndServerDeath DEF MemcachedPoll
    <3>4. CASE MongoPoll
      <4>1. hasSrv /\ srv # "alive" /\ kind = "mongodb"
        BY <3>1, <3>4, EndServerDeath DEF MongoPoll
      <4>2. srv \in {"alive", "exited"}
        BY <4>1 DEF SamplersInv, ServerInv
      <4>q. QED
        BY <4>1, <4>2
    <3>q. QED
      BY <2>4, <3>2, <3>3, <3>4 DEF PollBenchmark
  <2>5. CASE KillBenchmark
    <3>1. halted
      BY <2>5 DEF KillBenchmark, KillNoProcess, RedisKill, MemcachedKill, ProcessKill,
                  MongoKill, FauxKill, Halt
    <3>2. "putError" \in Answered /\ "putZero" \in Answered
      BY DEF Answered
    <3>3. CASE KillNoProcess
      BY <3>1, <3>3 DEF KillNoProcess
    <3>4. CASE RedisKill \/ ProcessKill \/ FauxKill
      BY <3>2, <3>4, EndServerDeath DEF RedisKill, ProcessKill, FauxKill
    <3>5. CASE MemcachedKill
      BY <3>2, <3>5, EndServerDeath DEF MemcachedKill
    <3>6. CASE MongoKill
      BY <3>1, <3>6 DEF MongoKill
    <3>q. QED
      BY <2>5, <3>3, <3>4, <3>5, <3>6 DEF KillBenchmark
  <2>6. CASE NotStopped \/ PutCode
    BY <2>6 DEF NotStopped, PutCode
  <2>7. CASE MainThread
    BY <2>7
       DEF MainThread, MainRaises, GenericSetup, GapSetup, LinuxBuildSetup, LinnosSetup,
           MongoSetup, SetupOnly, Setup, GapRun, LinuxBuildRun, LinnosRun, StartProcess,
           FauxRun, RedisStart, MongoStart, MemcachedStart, Serve, RedisPing, MongoPing,
           MemcachedPing, Pinged, RedisAwait, MongoAwait, MemcachedAwait, Await,
           PurgeRaises, RedisLoad, MongoLoad, MemcachedLoad, Load, LoadDone,
           RedisStartRound, MongoStartRound, MemcachedStartRound, StartRound,
           RunReturns, GetReported
  <2>8. CASE Environment
    BY <2>8 DEF Environment, ProcessExits, ServerExit, PrepEnds, StopRequest
  <2>q. QED
    BY <2>2, <2>3, <2>4, <2>5, <2>6, <2>7, <2>8 DEF SamplersNext, PollThread
<1>2. SamplersInv /\ [SamplersNext]_samplerVars
      => [pollAt # "dead" /\ pollAt' = "dead" => MayDie]_samplerVars
  BY <1>1
<1>3. [][pollAt # "dead" /\ pollAt' = "dead" => MayDie]_samplerVars
      => PollThreadSurvives
  BY DEF PollThreadSurvives, MayDie
<1>q. QED
  BY SamplersCorrect, <1>2, <1>3, PTL DEF SamplersSpec

-----------------------------------------------------------------------------
(* compaction_collect.py.                                                  *)

CompactionTypeOK ==
    /\ done \in Nat
    /\ outcome \in Seq(Outcomes) /\ Len(outcome) = done
    /\ dirs \in [Bms -> Seq(Int)]
    /\ manifest \in [Bms -> Seq(Int)]

(* The ids of a benchmark are numbers of runs of this program, of that     *)
(* benchmark, which ended without an exception, in the order of the runs.  *)
ManifestInv ==
    \A b \in Bms :
        /\ \A i \in DOMAIN manifest[b] :
              LET n == manifest[b][i]
              IN  n \in 1..done /\ BmOf(n) = b /\ outcome[n] \in {"ok", "failed"}
        /\ \A i, j \in DOMAIN manifest[b] : i < j => manifest[b][i] < manifest[b][j]

(* A sequence of increasing numbers has as many members as it is long.     *)
LEMMA IncreasingCardinality ==
    ASSUME NEW s \in Seq(Int),
           \A i, j \in DOMAIN s : i < j => s[i] < s[j]
    PROVE  Cardinality(Range(s)) = Len(s)
<1>1. DOMAIN s = 1..Len(s) /\ Len(s) \in Nat
  OBVIOUS
<1>2. s \in Bijection(1..Len(s), Range(s))
  <2>1. s \in [1..Len(s) -> Range(s)]
    BY <1>1 DEF Range
  <2>2. \A i, j \in 1..Len(s) : s[i] = s[j] => i = j
    <3>1. SUFFICES ASSUME NEW i \in 1..Len(s), NEW j \in 1..Len(s), s[i] = s[j], i < j
                   PROVE  FALSE
      BY <1>1
    <3>2. s[i] < s[j] /\ s[i] \in Int
      BY <1>1, <3>1
    <3>q. QED
      BY <3>1, <3>2
  <2>3. \A t \in Range(s) : \E i \in 1..Len(s) : s[i] = t
    BY <1>1 DEF Range
  <2>q. QED
    BY <2>1, <2>2, <2>3 DEF Bijection, Injection, Surjection, IsInjective
<1>3. ExistsBijection(1..Len(s), Range(s))
  BY <1>2 DEF ExistsBijection
<1>4. IsFiniteSet(1..Len(s)) /\ Cardinality(1..Len(s)) = Len(s)
  BY <1>1, FS_Interval
<1>q. QED
  BY <1>3, <1>4, FS_Bijection

(* What appending does to a sequence.                                      *)
LEMMA AppendAt ==
    ASSUME NEW s \in Seq(Int), NEW x \in Int
    PROVE  /\ \A i \in DOMAIN s : Append(s, x)[i] = s[i]
           /\ \A i \in DOMAIN Append(s, x) : i \notin DOMAIN s => Append(s, x)[i] = x
           /\ \A i, j \in DOMAIN Append(s, x) : i < j => i \in DOMAIN s
  OBVIOUS

(* No run so far, and no id.                                               *)
LEMMA CompactionInitInv == CompactionInit => CompactionTypeOK /\ ManifestInv
<1>. SUFFICES ASSUME CompactionInit PROVE CompactionTypeOK /\ ManifestInv
  OBVIOUS
<1>. USE DEF CompactionInit, CompactionIdle
<1>1. ASSUME NEW b \in Bms PROVE [i \in 1..OldDirs[b] |-> i - OldDirs[b]] \in Seq(Int)
  BY CompactionAssumption DEF Bms
<1>2. dirs \in [Bms -> Seq(Int)]
  BY <1>1
<1>3. manifest \in [Bms -> Seq(Int)] /\ \A b \in Bms : DOMAIN manifest[b] = {}
  OBVIOUS
<1>4. outcome \in Seq(Outcomes) /\ Len(outcome) = 0 /\ done = 0
  OBVIOUS
<1>q. QED
  BY <1>2, <1>3, <1>4 DEF CompactionTypeOK, ManifestInv

(* A run that the command line does not report has made a directory, and   *)
(* it is the one that was modified last: its number ends the manifest.     *)
LEMMA RunStep ==
    ASSUME CompactionTypeOK, ManifestInv, RunSingleCollection
    PROVE  CompactionTypeOK' /\ ManifestInv'
<1>1. PICK o \in Outcomes :
          LET b    == BmOf(done')
              made == IF MakesDir(o) THEN Append(dirs[b], done') ELSE dirs[b]
          IN  /\ outcome' = Append(outcome, o)
              /\ dirs' = [dirs EXCEPT ![b] = made]
              /\ manifest' = IF CliExit(o) # 0 \/ made = <<>> THEN manifest
                             ELSE [manifest EXCEPT ![b] = Append(@, LatestOf(made))]
  BY DEF RunSingleCollection
<1>. DEFINE b    == BmOf(done + 1)
            made == IF MakesDir(o) THEN Append(dirs[b], done + 1) ELSE dirs[b]
<1>2. /\ done' = done + 1 /\ done \in Nat
      /\ outcome' = Append(outcome, o)
      /\ dirs' = [dirs EXCEPT ![b] = made]
      /\ manifest' = IF CliExit(o) # 0 \/ made = <<>> THEN manifest
                     ELSE [manifest EXCEPT ![b] = Append(@, LatestOf(made))]
  BY <1>1 DEF RunSingleCollection, CompactionTypeOK
<1>3. /\ outcome' \in Seq(Outcomes) /\ Len(outcome') = done' /\ done' \in Nat
      /\ outcome'[done'] = o
      /\ \A n \in 1..done : outcome'[n] = outcome[n]
  BY <1>2 DEF CompactionTypeOK
<1>4. ASSUME b \in Bms PROVE made \in Seq(Int) /\ (MakesDir(o) => LatestOf(made) = done')
  <2>1. dirs[b] \in Seq(Int) /\ done + 1 \in Int
    BY <1>2, <1>4 DEF CompactionTypeOK
  <2>q. QED
    BY <1>2, <2>1 DEF LatestOf
<1>5. dirs' \in [Bms -> Seq(Int)]
  BY <1>2, <1>4 DEF CompactionTypeOK
<1>6. CASE manifest' = manifest
  <2>1. CompactionTypeOK'
    BY <1>3, <1>5, <1>6 DEF CompactionTypeOK
  <2>2. ASSUME NEW c \in Bms, NEW i \in DOMAIN manifest[c]
        PROVE  LET n == manifest[c][i]
               IN  n \in 1..done' /\ BmOf(n) = c /\ outcome'[n] \in {"ok", "failed"}
    <3>1. manifest[c][i] \in 1..done
      BY DEF ManifestInv
    <3>q. QED
      BY <1>2, <1>3, <3>1 DEF ManifestInv
  <2>q. QED
    BY <1>6, <2>1, <2>2 DEF ManifestInv
<1>7. CASE manifest' # manifest
  <2>1. /\ b \in Bms /\ CliExit(o) = 0
        /\ manifest' = [manifest EXCEPT ![b] = Append(@, LatestOf(made))]
    BY <1>2, <1>7 DEF CompactionTypeOK
  <2>2. o \in {"ok", "failed"} /\ MakesDir(o)
    BY <2>1 DEF CliExit, MakesDir, Outcomes
  <2>3. manifest' = [manifest EXCEPT ![b] = Append(@, done')]
    BY <1>4, <2>1, <2>2
  <2>4. manifest' \in [Bms -> Seq(Int)]
    BY <1>2, <2>1, <2>3 DEF CompactionTypeOK
  <2>5. ASSUME NEW c \in Bms, c # b PROVE manifest'[c] = manifest[c]
    BY <2>3, <2>5 DEF CompactionTypeOK
  <2>6. manifest'[b] = Append(manifest[b], done') /\ manifest[b] \in Seq(Int)
    BY <2>1, <2>3 DEF CompactionTypeOK
  <2>a. /\ \A i \in DOMAIN manifest[b] : manifest'[b][i] = manifest[b][i]
        /\ \A i \in DOMAIN manifest'[b] :
              i \notin DOMAIN manifest[b] => manifest'[b][i] = done'
        /\ \A i, j \in DOMAIN manifest'[b] : i < j => i \in DOMAIN manifest[b]
    BY <1>3, <2>6, AppendAt
  <2>7. ASSUME NEW i \in DOMAIN manifest'[b]
        PROVE  LET n == manifest'[b][i]
               IN  n \in 1..done' /\ BmOf(n) = b /\ outcome'[n] \in {"ok", "failed"}
    <3>1. CASE i \in DOMAIN manifest[b]
      <4>1. manifest'[b][i] = manifest[b][i]
        BY <2>a, <3>1
      <4>2. /\ manifest[b][i] \in 1..done /\ BmOf(manifest[b][i]) = b
            /\ outcome[manifest[b][i]] \in {"ok", "failed"}
        BY <2>1, <3>1 DEF ManifestInv
      <4>3. outcome'[manifest[b][i]] = outcome[manifest[b][i]] /\ 1..done \subseteq 1..done'
        BY <1>2, <1>3, <4>2
      <4>q. QED
        BY <4>1, <4>2, <4>3
    <3>2. CASE i \notin DOMAIN manifest[b]
      <4>1. manifest'[b][i] = done'
        BY <2>a, <3>2
      <4>2. done' \in 1..done' /\ outcome'[done'] \in {"ok", "failed"}
        BY <1>2, <1>3, <2>2
      <4>3. BmOf(done') = b
        BY <1>2
      <4>q. QED
        BY <4>1, <4>2, <4>3
    <3>q. QED
      BY <3>1, <3>2
  <2>8. ASSUME NEW i \in DOMAIN manifest'[b], NEW j \in DOMAIN manifest'[b], i < j
        PROVE  manifest'[b][i] < manifest'[b][j]
    <3>1. i \in DOMAIN manifest[b] /\ manifest'[b][i] = manifest[b][i]
      BY <2>a, <2>8
    <3>2. manifest[b][i] \in 1..done
      BY <2>1, <3>1 DEF ManifestInv
    <3>3. CASE j \in DOMAIN manifest[b]
      <4>1. manifest'[b][j] = manifest[b][j]
        BY <2>a, <3>3
      <4>q. QED
        BY <2>1, <2>8, <3>1, <3>3, <4>1 DEF ManifestInv
    <3>4. CASE j \notin DOMAIN manifest[b]
      <4>1. manifest'[b][j] = done'
        BY <2>a, <3>4
      <4>2. manifest[b][i] < done + 1
        BY <1>2, <3>2
      <4>q. QED
        BY <1>2, <3>1, <4>1, <4>2
    <3>q. QED
      BY <3>3, <3>4
  <2>9. ManifestInv'
    <3>1. ASSUME NEW c \in Bms, c # b, NEW i \in DOMAIN manifest[c]
          PROVE  LET n == manifest[c][i]
                 IN  n \in 1..done' /\ BmOf(n) = c /\ outcome'[n] \in {"ok", "failed"}
      <4>1. manifest[c][i] \in 1..done
        BY <3>1 DEF ManifestInv
      <4>q. QED
        BY <1>2, <1>3, <3>1, <4>1 DEF ManifestInv
    <3>q. QED
      BY <2>5, <2>7, <2>8, <3>1 DEF ManifestInv
  <2>q. QED
    BY <1>3, <1>5, <2>4, <2>9 DEF CompactionTypeOK
<1>q. QED
  BY <1>6, <1>7

(* The ids in the manifest are runs of this program that ended without an  *)
(* exception, each under its benchmark and once                            *)
(* (compaction_collect.py:126-141).                                        *)
THEOREM ManifestCorrect == CompactionSpec => []ManifestOwn
<1>1. CompactionTypeOK /\ ManifestInv /\ [CompactionNext]_compactionVars
      => (CompactionTypeOK /\ ManifestInv)'
  <2>. SUFFICES ASSUME CompactionTypeOK, ManifestInv, [CompactionNext]_compactionVars
                PROVE  CompactionTypeOK' /\ ManifestInv'
    OBVIOUS
  <2>1. CASE UNCHANGED <<done, dirs, manifest, outcome>>
    BY <2>1 DEF CompactionTypeOK, ManifestInv
  <2>2. CASE RunSingleCollection
    BY <2>2, RunStep
  <2>q. QED
    BY <2>1, <2>2 DEF CompactionNext, CheckSetup, WriteManifest, compactionVars
<1>2. CompactionTypeOK /\ ManifestInv => ManifestOwn
  <2>. SUFFICES ASSUME CompactionTypeOK, ManifestInv, NEW b \in Bms
                PROVE  /\ \A i \in DOMAIN manifest[b] :
                             LET n == manifest[b][i]
                             IN  n > 0 /\ BmOf(n) = b /\ outcome[n] \in {"ok", "failed"}
                       /\ Cardinality(Range(manifest[b])) = Len(manifest[b])
    BY DEF ManifestOwn
  <2>1. manifest[b] \in Seq(Int) /\ done \in Nat
    BY DEF CompactionTypeOK
  <2>2. Cardinality(Range(manifest[b])) = Len(manifest[b])
    BY <2>1, IncreasingCardinality DEF ManifestInv
  <2>q. QED
    BY <2>1, <2>2 DEF ManifestInv
<1>q. QED
  BY CompactionInitInv, <1>1, <1>2, PTL DEF CompactionSpec

-----------------------------------------------------------------------------
(* _clean_redis_collection.                                                *)

AnyRow == [table : Tables, tgid : {Server, Child, Stale, Other}, redis : BOOLEAN]

CleanTypeOK ==
    /\ lists \subseteq AnyRow
    /\ \A f \in DOMAIN raw : raw[f] \subseteq AnyRow

(* Only one server is named by the time that a file is copied, and the     *)
(* copies are the filtered files, which change no more.                    *)
CopyInv ==
    /\ rcAt \in {"collect", "clean"} => DOMAIN copied = {}
    /\ rcAt \in {"copy", "returned"} => \E p : RedisTgids = {p}
    /\ DOMAIN copied \subseteq DOMAIN raw
    /\ \A f \in DOMAIN copied : copied[f] = Filtered(f)
    /\ rcAt = "returned" => DOMAIN copied = DOMAIN raw

(* The tgids that the trace has under the name are finitely many.          *)
LEMMA FiniteTgids ==
    ASSUME CleanTypeOK
    PROVE  IsFiniteSet(RedisTgids)
<1>1. RedisTgids \subseteq 1..4
  BY DEF RedisTgids, TraceFiles, CleanTypeOK, AnyRow, Server, Child, Stale, Other
<1>2. 1 \in Int /\ 4 \in Int
  OBVIOUS
<1>3. IsFiniteSet(1..4)
  BY <1>2, FS_Interval, Zenon
<1>q. QED
  BY <1>1, <1>3, FS_Subset

(* As long as the files stay as they are, so does what is found in them.   *)
LEMMA FilesKept ==
    ASSUME UNCHANGED raw
    PROVE  RedisTgids' = RedisTgids /\ \A f : Filtered(f)' = Filtered(f)
<1>1. RedisTgids' = RedisTgids
  BY DEF RedisTgids, TraceFiles
<1>q. QED
  BY <1>1 DEF Filtered

(* No row and no file.                                                     *)
LEMMA CleanInitInv == CleanInit => CleanTypeOK /\ CopyInv
BY DEF CleanInit, CleanIdle, CleanTypeOK, CopyInv

(* Rows are appended to the lists.                                         *)
LEMMA RowStep ==
    ASSUME CleanTypeOK, CopyInv, NEW t \in Tables,
           NEW p \in {Server, Child, Stale, Other}, NEW r \in BOOLEAN, Row(t, p, r)
    PROVE  CleanTypeOK' /\ CopyInv'
<1>1. CleanTypeOK'
  BY DEF CleanTypeOK, AnyRow, Row
<1>2. CopyInv'
  BY DEF CopyInv, Row
<1>q. QED
  BY <1>1, <1>2

(* Files are written before anything is copied.                            *)
LEMMA WriteStep ==
    ASSUME CleanTypeOK, CopyInv, rcAt = "collect", rcAt' \in {"collect", "clean"},
           NEW name, WriteFiles(name)
    PROVE  CleanTypeOK' /\ CopyInv'
<1>1. CleanTypeOK'
  BY DEF CleanTypeOK, WriteFiles
<1>2. DOMAIN copied = {} /\ copied' = copied
  BY DEF CopyInv, WriteFiles
<1>q. QED
  BY <1>1, <1>2 DEF CopyInv

(* One file more is copied, filtered.                                      *)
LEMMA CopyStep ==
    ASSUME CleanTypeOK, CopyInv, CopyFile
    PROVE  CleanTypeOK' /\ CopyInv'
<1>1. UNCHANGED <<rcAt, lists, raw>> /\ rcAt = "copy"
  BY DEF CopyFile
<1>2. PICK f \in DOMAIN raw \ DOMAIN copied :
          copied' = [g \in DOMAIN copied \cup {f} |->
                       IF g = f THEN Filtered(f) ELSE copied[g]]
  BY DEF CopyFile
<1>3. CleanTypeOK'
  BY <1>1 DEF CleanTypeOK
<1>4. DOMAIN copied' = DOMAIN copied \cup {f}
  BY <1>2
<1>5. \A g \in DOMAIN copied' : copied'[g] = Filtered(g)
  BY <1>2, <1>4 DEF CopyInv
<1>6. RedisTgids' = RedisTgids /\ \A g : Filtered(g)' = Filtered(g)
  BY <1>1, FilesKept
<1>q. QED
  BY <1>1, <1>3, <1>4, <1>5, <1>6 DEF CopyInv

(* Every other step leaves lists, files and copies alone.                  *)
LEMMA CleanStep ==
    ASSUME CleanTypeOK, CopyInv, [CleanNext]_cleanVars
    PROVE  CleanTypeOK' /\ CopyInv'
<1>1. CASE UNCHANGED cleanVars
  <2>1. RedisTgids' = RedisTgids /\ \A g : Filtered(g)' = Filtered(g)
    BY <1>1, FilesKept DEF cleanVars
  <2>q. QED
    BY <1>1, <2>1 DEF cleanVars, CleanTypeOK, CopyInv
<1>2. CASE CreateTask \/ SetTaskComm \/ ReleaseTask \/ OtherRow
  <2>1. \E t \in Tables, p \in {Server, Child, Stale, Other}, r \in BOOLEAN : Row(t, p, r)
    BY <1>2 DEF CreateTask, SetTaskComm, ReleaseTask, OtherRow, Tables, HasTgid
  <2>q. QED
    BY <2>1, RowStep
<1>3. CASE WriteRound \/ WriteEnd
  BY <1>3, WriteStep DEF WriteRound, WriteEnd
<1>4. CASE NoTraceFiles \/ CopyFails \/ (Discover /\ CleanRaises)
  <2>1. UNCHANGED <<lists, raw, copied>> /\ rcAt' = "raised"
    BY <1>4 DEF NoTraceFiles, CopyFails, CleanRaises
  <2>2. RedisTgids' = RedisTgids /\ \A g : Filtered(g)' = Filtered(g)
    BY <2>1, FilesKept
  <2>q. QED
    BY <2>1, <2>2 DEF CleanTypeOK, CopyInv
<1>5. CASE Discover /\ ~CleanRaises
  <2>1. UNCHANGED <<lists, raw, copied>> /\ rcAt = "clean" /\ rcAt' = "copy"
    BY <1>5 DEF Discover
  <2>2. \E p : RedisTgids = {p}
    BY <1>5, FiniteTgids, FS_Singleton DEF Discover
  <2>3. RedisTgids' = RedisTgids /\ \A g : Filtered(g)' = Filtered(g)
    BY <2>1, FilesKept
  <2>q. QED
    BY <2>1, <2>2, <2>3 DEF CleanTypeOK, CopyInv
<1>6. CASE CopyFile
  BY <1>6, CopyStep
<1>7. CASE CleanReturns
  <2>1. /\ UNCHANGED <<lists, raw, copied>> /\ rcAt = "copy" /\ rcAt' = "returned"
        /\ DOMAIN copied = DOMAIN raw
    BY <1>7 DEF CleanReturns
  <2>2. RedisTgids' = RedisTgids /\ \A g : Filtered(g)' = Filtered(g)
    BY <2>1, FilesKept
  <2>q. QED
    BY <2>1, <2>2 DEF CleanTypeOK, CopyInv
<1>q. QED
  BY <1>1, <1>2, <1>3, <1>4, <1>5, <1>6, <1>7 DEF CleanNext

(* The id of a cleaned copy is printed only when every file has its copy,  *)
(* with the rows of one redis-server, which is this run's if the trace     *)
(* names it at all (collect.py:79-162, 386-396).                           *)
THEOREM CleanedCorrect == CleanSpec => []CleanedOwn
<1>1. CleanTypeOK /\ CopyInv /\ [CleanNext]_cleanVars => (CleanTypeOK /\ CopyInv)'
  BY CleanStep
<1>2. CopyInv => CleanedOwn
  <2>. SUFFICES ASSUME CopyInv, rcAt = "returned"
                PROVE  /\ DOMAIN copied = DOMAIN raw
                       /\ \A f, g \in DOMAIN copied :
                             f[1] \in HasTgid /\ g[1] \in HasTgid =>
                                \A r \in copied[f], s \in copied[g] : r.tgid = s.tgid
                       /\ \A f \in DOMAIN raw :
                             /\ f[1] \notin HasTgid => copied[f] = raw[f]
                             /\ f[1] \in HasTgid /\ Server \in RedisTgids =>
                                  copied[f] = {r \in raw[f] : r.tgid = Server}
    BY DEF CleanedOwn
  <2>1. PICK p : RedisTgids = {p}
    BY DEF CopyInv
  <2>2. DOMAIN copied = DOMAIN raw /\ \A f \in DOMAIN raw : copied[f] = Filtered(f)
    BY DEF CopyInv
  <2>3. \A f \in DOMAIN raw :
            /\ f[1] \notin HasTgid => copied[f] = raw[f]
            /\ f[1] \in HasTgid => copied[f] = {r \in raw[f] : r.tgid = p}
    BY <2>1, <2>2 DEF Filtered
  <2>q. QED
    BY <2>1, <2>2, <2>3
<1>q. QED
  BY CleanInitInv, <1>1, <1>2, PTL DEF CleanSpec

-----------------------------------------------------------------------------
(* compaction_analysis.py: the inductive invariant.                        *)

AnalysisPcs == {"vma", "candidate", "intervention", "vmstat", "memory", "ended"}

(* The columns that a row of a table has. *)
RowTyped(t, r) ==
    /\ t = "vma" => r \in observed
    /\ t = "candidates" => r.id \in Nat
    /\ t = "interventions" => r.id \in Nat /\ r.at \in Nat
    /\ t = "vmstat" => r.at \in Nat
    /\ t = "memory" => r.at \in Nat \cup {-1}

AnalysisTypeOK ==
    /\ apc \in AnalysisPcs /\ at \in Nat /\ part \in Nat /\ vmstatAt \in Int
    /\ cut \in BOOLEAN
    /\ observed \subseteq [key : RegionKeys, at : Nat]
    /\ \A s \in observed : s.at <= at
    /\ \A e \in inLists : RowTyped(e.table, e.row)
    /\ \A f \in inFiles : RowTyped(f.table, f.row)

(* The next round has a number of its own, and end files come last. *)
PartsInv == \A f \in inFiles : IF f.part = End THEN apc = "ended"
                               ELSE f.part \in Nat /\ f.part < part

(* The samples in the list are the last ones, those in a file follow each  *)
(* other.                                                                  *)
SamplesInv ==
    /\ \A e \in inLists : e.table = "vma" =>
          \A s \in observed : e.row.at <= s.at =>
             \E d \in inLists : d.table = "vma" /\ d.row = s
    /\ \A f, g \in inFiles : f.table = "vma" /\ g.table = "vma" /\ f.part = g.part =>
          \A s \in observed : f.row.at <= s.at /\ s.at <= g.row.at =>
             \E h \in inFiles : h.table = "vma" /\ h.part = f.part /\ h.row = s

(* A pass treats once, after its candidate, which is beside the row of the *)
(* intervention or in an earlier round.                                    *)
TreatedInv ==
    /\ \A i \in treated : /\ i \in Nat /\ i <= at
                          /\ apc \in {"candidate", "intervention"} => i < at
    /\ \A e \in inLists : e.table = "candidates" /\ e.row.id \in treated =>
          \E d \in inLists : d.table = "interventions" /\ d.row.id = e.row.id
    /\ ~cut => \A f \in inFiles :
          f.table = "candidates" /\ f.part = End /\ f.row.id \in treated =>
             \E g \in inFiles : /\ g.table = "interventions" /\ g.part = End
                                /\ g.row.id = f.row.id

(* vmstat is read every VmstatEvery passes.  Readings of meminfo that wait *)
(* without one of vmstat are later than the last one of vmstat.            *)
VmstatInv ==
    /\ vmstatAt = -VmstatEvery =>
          /\ at = IF apc = "vma" THEN 0 ELSE IF apc = "ended" THEN at ELSE 1
          /\ apc # "memory"
          /\ \A e \in inLists : e.table \notin {"vmstat", "memory"}
    /\ vmstatAt # -VmstatEvery => vmstatAt \in Nat /\ vmstatAt <= at
    /\ at - vmstatAt <= VmstatEvery \/ vmstatAt = -VmstatEvery
    /\ apc \in {"vma", "memory"} =>
          at - vmstatAt < VmstatEvery \/ vmstatAt = -VmstatEvery
    /\ \A e \in inLists : e.table = "vmstat" =>
          \E d \in inLists : d.table = "vmstat" /\ d.row.at = vmstatAt
    /\ (\A e \in inLists : e.table # "vmstat") =>
          \A e \in inLists : e.table = "memory" => e.row.at >= vmstatAt
    /\ \A e \in inLists : e.table = "memory" => e.row.at \in Nat /\ e.row.at <= at

(* A reading of meminfo has one of vmstat near it, if its round has any. *)
NearInv ==
    /\ \A e, d \in inLists : e.table = "memory" /\ d.table = "vmstat" =>
          \E h \in inLists : /\ h.table = "vmstat"
                             /\ Distance(e.row.at, h.row.at) <= VmstatEvery
    /\ \A f, g \in inFiles :
          /\ f.table = "memory" /\ f.row # NoTime
          /\ g.table = "vmstat" /\ g.part = f.part
          => \E h \in inFiles : /\ h.table = "vmstat" /\ h.part = f.part
                                /\ Distance(f.row.at, h.row.at) <= VmstatEvery

AnalysisInv == /\ AnalysisTypeOK /\ PartsInv /\ SamplesInv /\ TreatedInv
               /\ VmstatInv /\ NearInv

USE AnalysisAssumption

(* What rows that are added do to the lists. *)
LEMMA RowsAdded ==
    ASSUME NEW t, NEW rows,
           inLists' = inLists \cup {[table |-> t, row |-> r] : r \in rows}
    PROVE  /\ \A e \in inLists : e \in inLists'
           /\ \A e \in inLists' : e \in inLists \/ (e.table = t /\ e.row \in rows)
           /\ \A r \in rows : \E e \in inLists' : e.table = t /\ e.row = r
<1>1. \A e \in inLists' : e \in inLists \/ (e.table = t /\ e.row \in rows)
  OBVIOUS
<1>2. ASSUME NEW r \in rows PROVE \E e \in inLists' : e.table = t /\ e.row = r
  <2>1. [table |-> t, row |-> r] \in inLists'
    OBVIOUS
  <2> QED
    BY <2>1
<1> QED
  BY <1>1, <1>2

(* The samples of a pass are later than all others. *)
LEMMA RegionsStep ==
    ASSUME AnalysisInv, SampleRegions
    PROVE  AnalysisInv'
<1>1. PICK K \in SUBSET RegionKeys :
         LET rows == {[key |-> k, at |-> at'] : k \in K} IN
         /\ Adds("vma", rows) /\ observed' = observed \cup rows
         /\ apc' = IF K = {} THEN "vmstat" ELSE "candidate"
  BY DEF SampleRegions
<1>2. PICK rows : rows = {[key |-> k, at |-> at'] : k \in K}
  OBVIOUS
<1>3. /\ inLists' = inLists \cup {[table |-> "vma", row |-> r] : r \in rows}
      /\ observed' = observed \cup rows
  BY <1>1, <1>2 DEF Adds
<1>4. /\ apc = "vma" /\ at' = at + 1 /\ apc' \in {"vmstat", "candidate"}
      /\ UNCHANGED <<part, inFiles, rounds, vmstatAt, treated, cut>>
  BY <1>1 DEF SampleRegions
<1>5. /\ \A e \in inLists : e \in inLists'
      /\ \A e \in inLists' : e \in inLists \/ (e.table = "vma" /\ e.row \in rows)
      /\ \A r \in rows : \E e \in inLists' : e.table = "vma" /\ e.row = r
  BY <1>3, RowsAdded
<1>6. at \in Nat /\ at' \in Nat /\ at' > at
  BY <1>4 DEF AnalysisInv, AnalysisTypeOK
<1>7. \A r \in rows : r \in [key : RegionKeys, at : Nat] /\ r.at = at'
  BY <1>2, <1>6
<1>8. \A s \in observed : s.at \in Nat /\ s.at <= at /\ s \in observed'
  BY <1>3 DEF AnalysisInv, AnalysisTypeOK
<1>9. \A s \in observed' : s \in observed \/ (s \in rows /\ s.at = at')
  BY <1>3, <1>7
<1>10. AnalysisTypeOK'
  <2>1. apc' \in AnalysisPcs /\ at' \in Nat /\ part' \in Nat /\ vmstatAt' \in Int /\ cut' \in BOOLEAN
    BY <1>4, <1>6 DEF AnalysisInv, AnalysisTypeOK, AnalysisPcs
  <2>2. observed' \subseteq [key : RegionKeys, at : Nat]
    BY <1>3, <1>7 DEF AnalysisInv, AnalysisTypeOK
  <2>3. \A s \in observed' : s.at <= at'
    BY <1>6, <1>8, <1>9
  <2>4. ASSUME NEW t, NEW r, RowTyped(t, r) PROVE RowTyped(t, r)'
    BY <2>4, <1>8 DEF RowTyped
  <2>5. ASSUME NEW e \in inLists' PROVE RowTyped(e.table, e.row)'
    <3>1. CASE e \in inLists
      BY <3>1, <2>4 DEF AnalysisInv, AnalysisTypeOK
    <3>2. CASE e.table = "vma" /\ e.row \in rows
      BY <3>2, <1>3 DEF RowTyped
    <3> QED
      BY <3>1, <3>2, <1>5
  <2>6. ASSUME NEW f \in inFiles' PROVE RowTyped(f.table, f.row)'
    BY <2>4, <1>4 DEF AnalysisInv, AnalysisTypeOK
  <2> QED
    BY <2>1, <2>2, <2>3, <2>5, <2>6 DEF AnalysisTypeOK
<1>11. PartsInv'
  BY <1>4 DEF AnalysisInv, PartsInv
<1>12. SamplesInv'
  <2>1. ASSUME NEW e \in inLists', e.table = "vma", NEW s \in observed', e.row.at <= s.at
        PROVE  \E d \in inLists' : d.table = "vma" /\ d.row = s
    <3>1. CASE s \in rows
      BY <3>1, <1>5
    <3>2. CASE s \in observed /\ e \in inLists
      BY <3>2, <2>1, <1>5 DEF AnalysisInv, SamplesInv
    <3>3. CASE s \in observed /\ e.row \in rows
      BY <3>3, <2>1, <1>6, <1>7, <1>8
    <3> QED
      BY <3>1, <3>2, <3>3, <1>5, <1>9
  <2>2. ASSUME NEW f \in inFiles', NEW g \in inFiles', f.table = "vma", g.table = "vma",
               f.part = g.part, NEW s \in observed', f.row.at <= s.at, s.at <= g.row.at
        PROVE  \E h \in inFiles' : h.table = "vma" /\ h.part = f.part /\ h.row = s
    <3>1. g.row \in observed
      BY <2>2, <1>4 DEF AnalysisInv, AnalysisTypeOK, RowTyped
    <3>2. s \in observed
      BY <3>1, <2>2, <1>6, <1>8, <1>9
    <3> QED
      BY <3>2, <2>2, <1>4 DEF AnalysisInv, SamplesInv
  <2> QED
    BY <2>1, <2>2 DEF SamplesInv
<1>13. TreatedInv'
  <2>1. \A e \in inLists' : e.table # "vma" => e \in inLists
    BY <1>5
  <2>2. \A i \in treated' : i \in Nat /\ i < at'
    BY <1>4, <1>6 DEF AnalysisInv, TreatedInv
  <2>3. \A i \in treated' : i <= at'
    BY <2>2, <1>6
  <2> QED
    BY <2>1, <2>2, <2>3, <1>4, <1>5 DEF AnalysisInv, TreatedInv
<1>14. VmstatInv'
  <2>1. \A e \in inLists' : e.table # "vma" => e \in inLists
    BY <1>5
  <2>2. VmstatEvery \in Nat \ {0} /\ vmstatAt \in Int
    BY DEF AnalysisInv, AnalysisTypeOK
  <2>3. /\ vmstatAt' = -VmstatEvery => at' = 1
        /\ \A e \in inLists' : vmstatAt' = -VmstatEvery => e.table \notin {"vmstat", "memory"}
    BY <2>1, <1>4, <1>5 DEF AnalysisInv, VmstatInv
  <2>4. /\ vmstatAt' # -VmstatEvery => vmstatAt' \in Nat /\ vmstatAt' <= at'
        /\ at' - vmstatAt' <= VmstatEvery \/ vmstatAt' = -VmstatEvery
    BY <2>2, <1>4, <1>6 DEF AnalysisInv, VmstatInv
  <2>5. ASSUME NEW e \in inLists', e.table = "vmstat"
        PROVE  \E d \in inLists' : d.table = "vmstat" /\ d.row.at = vmstatAt'
    BY <2>5, <2>1, <1>4, <1>5 DEF AnalysisInv, VmstatInv
  <2>6. ASSUME \A e \in inLists' : e.table # "vmstat", NEW e \in inLists', e.table = "memory"
        PROVE  e.row.at >= vmstatAt'
    BY <2>6, <2>1, <1>4, <1>5 DEF AnalysisInv, VmstatInv
  <2>7. ASSUME NEW e \in inLists', e.table = "memory" PROVE e.row.at \in Nat /\ e.row.at <= at'
    BY <2>7, <2>1, <1>6 DEF AnalysisInv, VmstatInv
  <2> QED
    BY <1>4, <2>3, <2>4, <2>5, <2>6, <2>7 DEF VmstatInv
<1>15. NearInv'
  <2>1. \A e \in inLists' : e.table # "vma" => e \in inLists
    BY <1>5
  <2> QED
    BY <2>1, <1>4, <1>5 DEF AnalysisInv, NearInv
<1> QED
  BY <1>10, <1>11, <1>12, <1>13, <1>14, <1>15 DEF AnalysisInv

(* A table that is not the samples leaves them alone. *)
LEMMA SamplesKept ==
    ASSUME AnalysisInv, NEW t, NEW rows, t # "vma",
           inLists' = inLists \cup {[table |-> t, row |-> r] : r \in rows},
           \A r \in rows : RowTyped(t, r),
           apc # "ended", apc' \in AnalysisPcs \ {"ended"},
           vmstatAt' \in Int,
           UNCHANGED <<at, part, inFiles, observed, cut>>
    PROVE  AnalysisTypeOK' /\ PartsInv' /\ SamplesInv'
<1>1. /\ \A e \in inLists : e \in inLists'
      /\ \A e \in inLists' : e \in inLists \/ (e.table = t /\ e.row \in rows)
      /\ \A r \in rows : \E e \in inLists' : e.table = t /\ e.row = r
  BY RowsAdded
<1>2. AnalysisTypeOK'
  <2>1. ASSUME NEW u, NEW r, RowTyped(u, r) PROVE RowTyped(u, r)'
    BY <2>1 DEF RowTyped
  <2>2. ASSUME NEW e \in inLists' PROVE RowTyped(e.table, e.row)'
    BY <2>1, <1>1 DEF AnalysisInv, AnalysisTypeOK
  <2>3. ASSUME NEW f \in inFiles' PROVE RowTyped(f.table, f.row)'
    BY <2>1 DEF AnalysisInv, AnalysisTypeOK
  <2> QED
    BY <2>2, <2>3 DEF AnalysisInv, AnalysisTypeOK
<1>3. PartsInv'
  BY DEF AnalysisInv, PartsInv
<1>4. SamplesInv'
  <2>1. \A e \in inLists' : e.table = "vma" => e \in inLists
    BY <1>1
  <2> QED
    BY <2>1, <1>1 DEF AnalysisInv, SamplesInv
<1> QED
  BY <1>2, <1>3, <1>4

(* A table that neither vmstat nor meminfo is in leaves those alone. *)
LEMMA ReadingsKept ==
    ASSUME AnalysisInv, NEW t, NEW rows, t \notin {"vmstat", "memory"},
           inLists' = inLists \cup {[table |-> t, row |-> r] : r \in rows},
           apc \in {"candidate", "intervention"},
           apc' \in {"intervention", "vmstat"},
           UNCHANGED <<at, inFiles, vmstatAt>>
    PROVE  VmstatInv' /\ NearInv'
<1>1. /\ \A e \in inLists : e \in inLists'
      /\ \A e \in inLists' : e \in inLists \/ (e.table = t /\ e.row \in rows)
  BY RowsAdded
<1>2. \A e \in inLists' : e.table \in {"vmstat", "memory"} => e \in inLists
  BY <1>1
<1>3. VmstatInv'
  <2>1. ASSUME NEW e \in inLists', e.table = "vmstat"
        PROVE  \E d \in inLists' : d.table = "vmstat" /\ d.row.at = vmstatAt'
    BY <2>1, <1>1, <1>2 DEF AnalysisInv, VmstatInv
  <2>2. ASSUME \A e \in inLists' : e.table # "vmstat", NEW e \in inLists', e.table = "memory"
        PROVE  e.row.at >= vmstatAt'
    BY <2>2, <1>1, <1>2 DEF AnalysisInv, VmstatInv
  <2>3. ASSUME NEW e \in inLists', e.table = "memory" PROVE e.row.at \in Nat /\ e.row.at <= at'
    BY <2>3, <1>2 DEF AnalysisInv, VmstatInv
  <2>4. /\ vmstatAt' = -VmstatEvery => at' = 1
        /\ \A e \in inLists' : vmstatAt' = -VmstatEvery => e.table \notin {"vmstat", "memory"}
    BY <1>2 DEF AnalysisInv, VmstatInv
  <2>5. /\ vmstatAt' # -VmstatEvery => vmstatAt' \in Nat /\ vmstatAt' <= at'
        /\ at' - vmstatAt' <= VmstatEvery \/ vmstatAt' = -VmstatEvery
    BY DEF AnalysisInv, VmstatInv
  <2> QED
    BY <2>1, <2>2, <2>3, <2>4, <2>5 DEF VmstatInv
<1>4. NearInv'
  BY <1>1, <1>2 DEF AnalysisInv, NearInv
<1> QED
  BY <1>3, <1>4

(* The id of a candidate has not been treated yet. *)
LEMMA CandidateStep ==
    ASSUME AnalysisInv, SampleCandidate
    PROVE  AnalysisInv'
<1>1. PICK rows : rows = {[id |-> at]}
  OBVIOUS
<1>2. inLists' = inLists \cup {[table |-> "candidates", row |-> r] : r \in rows}
  BY <1>1 DEF SampleCandidate, Adds
<1>3. /\ apc = "candidate" /\ apc' \in {"intervention", "vmstat"}
      /\ UNCHANGED <<at, part, inFiles, rounds, vmstatAt, observed, treated, cut>>
  BY DEF SampleCandidate
<1>4. /\ \A e \in inLists : e \in inLists'
      /\ \A e \in inLists' : e \in inLists \/ (e.table = "candidates" /\ e.row \in rows)
  BY <1>2, RowsAdded
<1>5. \A r \in rows : r.id = at /\ at \in Nat
  BY <1>1 DEF AnalysisInv, AnalysisTypeOK
<1>6. AnalysisTypeOK' /\ PartsInv' /\ SamplesInv'
  <2>1. \A r \in rows : RowTyped("candidates", r)
    BY <1>5 DEF RowTyped
  <2>2. vmstatAt' \in Int
    BY <1>3 DEF AnalysisInv, AnalysisTypeOK
  <2>3. apc # "ended" /\ apc' \in AnalysisPcs \ {"ended"}
    BY <1>3 DEF AnalysisPcs
  <2> QED
    BY <2>1, <2>2, <2>3, <1>2, <1>3, SamplesKept
<1>7. TreatedInv'
  <2>1. \A i \in treated : i \in Nat /\ i < at
    BY <1>3 DEF AnalysisInv, TreatedInv
  <2>2. ASSUME NEW e \in inLists', e.table = "candidates", e.row.id \in treated
        PROVE  \E d \in inLists' : d.table = "interventions" /\ d.row.id = e.row.id
    <3>1. e \in inLists
      BY <2>1, <2>2, <1>4, <1>5
    <3> QED
      BY <3>1, <2>2, <1>4 DEF AnalysisInv, TreatedInv
  <2>3. \A i \in treated : i <= at
    BY <2>1, <1>5 DEF AnalysisInv, AnalysisTypeOK
  <2> QED
    BY <2>1, <2>2, <2>3, <1>3 DEF AnalysisInv, TreatedInv
<1>8. VmstatInv' /\ NearInv'
  BY <1>2, <1>3, ReadingsKept
<1> QED
  BY <1>6, <1>7, <1>8 DEF AnalysisInv

(* The row of an intervention is beside its candidate, if that waits. *)
LEMMA InterveneStep ==
    ASSUME AnalysisInv, Intervene
    PROVE  AnalysisInv'
<1>1. PICK s \in {r \in observed : r.at = at} :
         Adds("interventions", {[id |-> at, key |-> s.key, at |-> at]})
  BY DEF Intervene
<1>2. PICK rows : rows = {[id |-> at, key |-> s.key, at |-> at]}
  OBVIOUS
<1>3. inLists' = inLists \cup {[table |-> "interventions", row |-> r] : r \in rows}
  BY <1>1, <1>2 DEF Adds
<1>4. /\ apc = "intervention" /\ apc' = "vmstat" /\ treated' = treated \cup {at}
      /\ UNCHANGED <<at, part, inFiles, rounds, vmstatAt, observed, cut>>
  BY DEF Intervene
<1>5. /\ \A e \in inLists : e \in inLists'
      /\ \A e \in inLists' : e \in inLists \/ (e.table = "interventions" /\ e.row \in rows)
      /\ \A r \in rows : \E e \in inLists' : e.table = "interventions" /\ e.row = r
  <2>1. \A e \in inLists : e \in inLists'
    BY <1>3, RowsAdded
  <2>2. \A e \in inLists' : e \in inLists \/ (e.table = "interventions" /\ e.row \in rows)
    BY <1>3, RowsAdded
  <2>3. \A r \in rows : \E e \in inLists' : e.table = "interventions" /\ e.row = r
    BY <1>3, RowsAdded
  <2> QED
    BY <2>1, <2>2, <2>3
<1>6. /\ rows # {} /\ at \in Nat
      /\ \A r \in rows : r.id = at /\ r.at = at
  BY <1>2 DEF AnalysisInv, AnalysisTypeOK
<1>7. AnalysisTypeOK' /\ PartsInv' /\ SamplesInv'
  <2>1. \A r \in rows : RowTyped("interventions", r)
    BY <1>6 DEF RowTyped
  <2>2. vmstatAt' \in Int
    BY <1>4 DEF AnalysisInv, AnalysisTypeOK
  <2>3. apc # "ended" /\ apc' \in AnalysisPcs \ {"ended"}
    BY <1>4 DEF AnalysisPcs
  <2> QED
    BY <2>1, <2>2, <2>3, <1>3, <1>4, SamplesKept
<1>8. TreatedInv'
  <2>1. \A i \in treated' : i \in Nat /\ i <= at'
    BY <1>4, <1>6 DEF AnalysisInv, TreatedInv
  <2>2. ASSUME NEW e \in inLists', e.table = "candidates", e.row.id \in treated'
        PROVE  \E d \in inLists' : d.table = "interventions" /\ d.row.id = e.row.id
    <3>1. CASE e.row.id = at
      BY <3>1, <1>5, <1>6
    <3>2. CASE e.row.id \in treated
      BY <3>2, <2>2, <1>5 DEF AnalysisInv, TreatedInv
    <3> QED
      BY <3>1, <3>2, <2>2, <1>4
  <2>3. \A f \in inFiles' : f.part # End
    BY <1>4 DEF AnalysisInv, PartsInv
  <2> QED
    BY <2>1, <2>2, <2>3, <1>4 DEF TreatedInv
<1>9. VmstatInv' /\ NearInv'
  BY <1>3, <1>4, ReadingsKept
<1> QED
  BY <1>7, <1>8, <1>9 DEF AnalysisInv

(* The distance of two times. *)
LEMMA DistanceBetween ==
    ASSUME NEW a \in Int, NEW b \in Int
    PROVE  /\ Distance(a, b) \in Nat
           /\ \A k \in Nat : a - b <= k /\ b - a <= k => Distance(a, b) <= k
  BY DEF Distance

(* A sample of vmstat is near every reading of meminfo that waits for one: *)
(* they have been taken since the last sample.                             *)
LEMMA VmstatStep ==
    ASSUME AnalysisInv, SampleVmstat
    PROVE  AnalysisInv'
<1>1. /\ apc = "vmstat" /\ apc' = "memory"
      /\ UNCHANGED <<at, part, inFiles, rounds, observed, treated, cut>>
  BY DEF SampleVmstat
<1>2. at \in Nat /\ vmstatAt \in Int /\ VmstatEvery \in Nat \ {0}
  BY DEF AnalysisInv, AnalysisTypeOK
<1>3. CASE at - vmstatAt < VmstatEvery
  <2>1. UNCHANGED <<inLists, vmstatAt>>
    BY <1>3 DEF SampleVmstat
  <2>2. vmstatAt # -VmstatEvery
    BY <1>2, <1>3
  <2>3. AnalysisTypeOK'
    <3>1. ASSUME NEW u, NEW r, RowTyped(u, r) PROVE RowTyped(u, r)'
      BY <3>1, <1>1 DEF RowTyped
    <3> QED
      BY <3>1, <1>1, <2>1 DEF AnalysisInv, AnalysisTypeOK, AnalysisPcs
  <2>4. PartsInv' /\ SamplesInv' /\ NearInv' /\ TreatedInv'
    BY <1>1, <2>1 DEF AnalysisInv, PartsInv, SamplesInv, NearInv, TreatedInv
  <2>5. VmstatInv'
    BY <1>1, <1>2, <1>3, <2>1, <2>2 DEF AnalysisInv, VmstatInv
  <2> QED
    BY <2>3, <2>4, <2>5 DEF AnalysisInv
<1>4. CASE ~(at - vmstatAt < VmstatEvery)
  <2>1. PICK rows : rows = {[at |-> at]}
    OBVIOUS
  <2>2. /\ inLists' = inLists \cup {[table |-> "vmstat", row |-> r] : r \in rows}
        /\ vmstatAt' = at
    BY <1>4, <2>1 DEF SampleVmstat, Adds
  <2>3. \A e \in inLists : e \in inLists'
    BY <2>2, RowsAdded
  <2>4. \A e \in inLists' : e \in inLists \/ (e.table = "vmstat" /\ e.row \in rows)
    BY <2>2, RowsAdded
  <2>5. \A r \in rows : \E e \in inLists' : e.table = "vmstat" /\ e.row = r
    <3>1. inLists' = inLists \cup {[table |-> "vmstat", row |-> r] : r \in rows}
      BY <2>2
    <3> QED
      BY <3>1, RowsAdded
  <2>6. rows # {} /\ \A r \in rows : r.at = at
    BY <2>1
  <2>7. PICK v \in inLists' : v.table = "vmstat" /\ v.row.at = at
    BY <2>5, <2>6
  <2>8. AnalysisTypeOK' /\ PartsInv' /\ SamplesInv'
    <3>1. \A r \in rows : RowTyped("vmstat", r)
      BY <1>2, <2>6 DEF RowTyped
    <3>2. vmstatAt' \in Int
      BY <1>2, <2>2
    <3>3. apc # "ended" /\ apc' \in AnalysisPcs \ {"ended"}
      BY <1>1 DEF AnalysisPcs
    <3> QED
      BY <3>1, <3>2, <3>3, <1>1, <2>2, SamplesKept
  <2>9. \A e \in inLists' : e.table # "vmstat" => e \in inLists
    BY <2>4
  <2>10. TreatedInv'
    BY <1>1, <2>3, <2>9 DEF AnalysisInv, TreatedInv
  <2>11. vmstatAt' \in Nat /\ vmstatAt' # -VmstatEvery /\ at' - vmstatAt' = 0
    BY <1>1, <1>2, <2>2
  <2>12. \A e \in inLists' : e.table = "memory" => e.row.at \in Nat /\ e.row.at <= at'
    BY <1>1, <2>9 DEF AnalysisInv, VmstatInv
  <2>13. VmstatInv'
    BY <1>1, <1>2, <2>2, <2>7, <2>11, <2>12 DEF VmstatInv
  <2>14. NearInv'
    <3>1. ASSUME NEW e \in inLists', e.table = "memory"
          PROVE  \E h \in inLists' : h.table = "vmstat"
                                     /\ Distance(e.row.at, h.row.at) <= VmstatEvery
      <4>1. e \in inLists
        BY <3>1, <2>9
      <4>2. CASE \E d \in inLists : d.table = "vmstat"
        BY <4>1, <4>2, <3>1, <2>3 DEF AnalysisInv, NearInv
      <4>3. CASE \A d \in inLists : d.table # "vmstat"
        <5>1. e.row.at \in Nat /\ e.row.at <= at /\ e.row.at >= vmstatAt
          BY <4>1, <4>3, <3>1 DEF AnalysisInv, VmstatInv
        <5>2. at - vmstatAt <= VmstatEvery
          BY <4>1, <3>1 DEF AnalysisInv, VmstatInv
        <5>3. e.row.at - at <= VmstatEvery /\ at - e.row.at <= VmstatEvery
          BY <1>2, <5>1, <5>2
        <5>4. e.row.at \in Int /\ at \in Int /\ VmstatEvery \in Nat
          BY <1>2, <5>1
        <5>5. Distance(e.row.at, at) <= VmstatEvery
          BY <5>3, <5>4, DistanceBetween
        <5> QED
          BY <5>5, <2>7
      <4> QED
        BY <4>2, <4>3
    <3> QED
      BY <3>1, <1>1 DEF AnalysisInv, NearInv
  <2> QED
    BY <2>8, <2>10, <2>13, <2>14 DEF AnalysisInv
<1> QED
  BY <1>3, <1>4

(* A reading of meminfo is near the last sample of vmstat. *)
LEMMA MemoryStep ==
    ASSUME AnalysisInv, SampleMemory
    PROVE  AnalysisInv'
<1>1. PICK rows : rows = {[at |-> at]}
  OBVIOUS
<1>2. inLists' = inLists \cup {[table |-> "memory", row |-> r] : r \in rows}
  BY <1>1 DEF SampleMemory, Adds
<1>3. /\ apc = "memory" /\ apc' = "vma"
      /\ UNCHANGED <<at, part, inFiles, rounds, vmstatAt, observed, treated, cut>>
  BY DEF SampleMemory
<1>4. \A e \in inLists : e \in inLists'
  BY <1>2, RowsAdded
<1>5. \A e \in inLists' : e \in inLists \/ (e.table = "memory" /\ e.row \in rows)
  BY <1>2, RowsAdded
<1>6. at \in Nat /\ vmstatAt \in Int /\ VmstatEvery \in Nat \ {0}
  BY DEF AnalysisInv, AnalysisTypeOK
<1>7. \A r \in rows : r.at = at
  BY <1>1
<1>8. \A e \in inLists' : e.table # "memory" => e \in inLists
  BY <1>5
<1>9. /\ vmstatAt # -VmstatEvery /\ vmstatAt \in Nat /\ vmstatAt <= at
      /\ at - vmstatAt < VmstatEvery
  BY <1>3 DEF AnalysisInv, VmstatInv
<1>10. AnalysisTypeOK' /\ PartsInv' /\ SamplesInv'
  <2>1. \A r \in rows : RowTyped("memory", r)
    BY <1>6, <1>7 DEF RowTyped
  <2>2. vmstatAt' \in Int
    BY <1>3, <1>6
  <2>3. apc # "ended" /\ apc' \in AnalysisPcs \ {"ended"}
    BY <1>3 DEF AnalysisPcs
  <2> QED
    BY <2>1, <2>2, <2>3, <1>2, <1>3, SamplesKept
<1>11. TreatedInv'
  BY <1>3, <1>4, <1>8 DEF AnalysisInv, TreatedInv
<1>12. \A e \in inLists' : e.table = "memory" => e.row.at \in Nat /\ e.row.at <= at'
  <2>1. ASSUME NEW e \in inLists', e.table = "memory"
        PROVE  e.row.at \in Nat /\ e.row.at <= at'
    <3>1. CASE e \in inLists
      BY <3>1, <2>1, <1>3 DEF AnalysisInv, VmstatInv
    <3>2. CASE e.row \in rows
      BY <3>2, <1>3, <1>6, <1>7
    <3> QED
      BY <3>1, <3>2, <1>5
  <2> QED
    BY <2>1
<1>13. VmstatInv'
  <2>1. ASSUME NEW e \in inLists', e.table = "vmstat"
        PROVE  \E d \in inLists' : d.table = "vmstat" /\ d.row.at = vmstatAt'
    BY <2>1, <1>3, <1>4, <1>8 DEF AnalysisInv, VmstatInv
  <2>2. ASSUME \A e \in inLists' : e.table # "vmstat", NEW e \in inLists', e.table = "memory"
        PROVE  e.row.at >= vmstatAt'
    <3>1. CASE e \in inLists
      BY <3>1, <2>2, <1>3, <1>4 DEF AnalysisInv, VmstatInv
    <3>2. CASE e.row \in rows
      BY <3>2, <1>3, <1>6, <1>7, <1>9
    <3> QED
      BY <3>1, <3>2, <1>5
  <2>3. at' - vmstatAt' <= VmstatEvery /\ at' - vmstatAt' < VmstatEvery
    BY <1>3, <1>6, <1>9
  <2>4. vmstatAt' # -VmstatEvery /\ vmstatAt' \in Nat /\ vmstatAt' <= at'
    BY <1>3, <1>9
  <2> QED
    BY <2>1, <2>2, <2>3, <2>4, <1>12 DEF VmstatInv
<1>14. NearInv'
  <2>1. ASSUME NEW e \in inLists', e.table = "memory", NEW d \in inLists', d.table = "vmstat"
        PROVE  \E h \in inLists' : h.table = "vmstat"
                                   /\ Distance(e.row.at, h.row.at) <= VmstatEvery
    <3>1. d \in inLists
      BY <2>1, <1>8
    <3>2. CASE e \in inLists
      BY <3>1, <3>2, <2>1, <1>4 DEF AnalysisInv, NearInv
    <3>3. CASE e.row \in rows
      <4>1. PICK h \in inLists : h.table = "vmstat" /\ h.row.at = vmstatAt
        BY <3>1, <2>1 DEF AnalysisInv, VmstatInv
      <4>2. e.row.at = at
        BY <3>3, <1>7
      <4>3. at - vmstatAt <= VmstatEvery /\ vmstatAt - at <= VmstatEvery
        BY <1>6, <1>9
      <4>4. Distance(e.row.at, h.row.at) <= VmstatEvery
        BY <4>1, <4>2, <4>3, <1>6, DistanceBetween
      <4> QED
        BY <4>1, <4>4, <1>4
    <3> QED
      BY <3>2, <3>3, <1>5
  <2> QED
    BY <2>1, <1>3 DEF AnalysisInv, NearInv
<1> QED
  BY <1>10, <1>11, <1>13, <1>14 DEF AnalysisInv

(* A round writes the tables in their order: of a table every row that     *)
(* waits or none, and meminfo only after vmstat.                           *)
LEMMA TablesWritten ==
    ASSUME NEW name, WriteTables(name), cut \in BOOLEAN
    PROVE  /\ inLists' = {} /\ cut' \in BOOLEAN
           /\ \A f \in inFiles : f \in inFiles'
           /\ \A f \in inFiles' :
                 f \in inFiles \/
                 (/\ f.part = name
                  /\ \/ \E e \in inLists : e.table = f.table /\ e.row = f.row
                     \/ f.table = "memory" /\ f.row = NoTime)
           /\ \A f \in inFiles' \ inFiles : \A e \in inLists :
                 e.table = f.table \/ (f.table = "memory" /\ e.table = "vmstat") =>
                    \E g \in inFiles' : g.table = e.table /\ g.part = name /\ g.row = e.row
           /\ ~cut' => \A e \in inLists :
                 \E g \in inFiles' : g.table = e.table /\ g.part = name /\ g.row = e.row
<1>1. PICK n \in IF cut THEN {Len(TableOrder)} ELSE 0..Len(TableOrder) :
         LET written == {TableOrder[i] : i \in 1..n}
             rows    == inLists \cup
                          (IF \E e \in inLists : e.table = "memory" THEN {}
                           ELSE {[table |-> "memory", row |-> NoTime]})
         IN  /\ inFiles' = inFiles \cup
                   {[table |-> e.table, part |-> name, row |-> e.row] :
                       e \in {f \in rows : f.table \in written}}
             /\ cut' = (cut \/ \E e \in inLists : e.table \notin written)
             /\ inLists' = {}
  BY DEF WriteTables
<1>2. PICK written : written = {TableOrder[i] : i \in 1..n}
  OBVIOUS
<1>3. PICK rows : rows = inLists \cup
                          (IF \E e \in inLists : e.table = "memory" THEN {}
                           ELSE {[table |-> "memory", row |-> NoTime]})
  OBVIOUS
<1>4. /\ inFiles' = inFiles \cup {[table |-> e.table, part |-> name, row |-> e.row] :
                                     e \in {f \in rows : f.table \in written}}
      /\ cut' = (cut \/ \E e \in inLists : e.table \notin written)
      /\ inLists' = {}
  BY <1>1, <1>2, <1>3
<1>5. n \in 0..5 /\ TableOrder[4] = "vmstat" /\ TableOrder[5] = "memory"
      /\ \A i \in 1..4 : TableOrder[i] # "memory"
  BY DEF TableOrder
<1>6. "memory" \in written => "vmstat" \in written
  <2>1. SUFFICES ASSUME "memory" \in written PROVE "vmstat" \in written
    OBVIOUS
  <2>2. PICK i \in 1..n : TableOrder[i] = "memory"
    BY <1>2, <2>1
  <2>3. i \in 1..5 /\ i \notin 1..4
    BY <1>5, <2>2
  <2>4. 4 \in 1..n
    BY <1>5, <2>3
  <2> QED
    BY <1>2, <1>5, <2>4
<1>7. \A e \in rows : e \in inLists \/ (e.table = "memory" /\ e.row = NoTime)
  BY <1>3
<1>8. \A e \in inLists : e \in rows
  BY <1>3
<1>9. ASSUME NEW e \in inLists, e.table \in written
      PROVE  \E g \in inFiles' : g.table = e.table /\ g.part = name /\ g.row = e.row
  <2>1. [table |-> e.table, part |-> name, row |-> e.row] \in inFiles'
    BY <1>4, <1>8, <1>9
  <2> QED
    BY <2>1
<1>10. ASSUME NEW f \in inFiles', f \notin inFiles
       PROVE  \E e \in rows : /\ e.table \in written /\ f.part = name
                              /\ e.table = f.table /\ e.row = f.row
  BY <1>4, <1>10
<1>11. cut' \in BOOLEAN
  BY <1>4
<1>12. ASSUME ~cut', NEW e \in inLists PROVE e.table \in written
  BY <1>4, <1>12
<1>13. ASSUME NEW f \in inFiles', f \notin inFiles
       PROVE  /\ f.part = name
              /\ \/ \E e \in inLists : e.table = f.table /\ e.row = f.row
                 \/ f.table = "memory" /\ f.row = NoTime
  BY <1>13, <1>7, <1>10
<1>14. ASSUME NEW f \in inFiles', f \notin inFiles, NEW e \in inLists,
              e.table = f.table \/ (f.table = "memory" /\ e.table = "vmstat")
       PROVE  \E g \in inFiles' : g.table = e.table /\ g.part = name /\ g.row = e.row
  <2>1. f.table \in written
    BY <1>10, <1>14
  <2>2. e.table \in written
    BY <1>6, <1>14, <2>1
  <2> QED
    BY <1>9, <2>2
<1>15. \A f \in inFiles : f \in inFiles'
  BY <1>4
<1> QED
  BY <1>4, <1>9, <1>11, <1>12, <1>13, <1>14, <1>15

(* A round moves the lists into files of a number that no file has yet. *)
LEMMA AnalysisRound ==
    ASSUME AnalysisInv, NEW name, WriteTables(name), apc # "ended",
           \/ name = part /\ part' = part + 1 /\ apc' = apc
           \/ name = End /\ part' = part /\ apc = "vma" /\ apc' = "ended",
           UNCHANGED <<at, vmstatAt, observed, treated>>
    PROVE  AnalysisInv'
<1>1. /\ inLists' = {} /\ cut' \in BOOLEAN
      /\ \A f \in inFiles : f \in inFiles'
  BY TablesWritten DEF AnalysisInv, AnalysisTypeOK
<1>2. \A f \in inFiles' :
         f \in inFiles \/
         (/\ f.part = name
          /\ \/ \E e \in inLists : e.table = f.table /\ e.row = f.row
             \/ f.table = "memory" /\ f.row = NoTime)
  BY TablesWritten DEF AnalysisInv, AnalysisTypeOK
<1>3. \A f \in inFiles' \ inFiles : \A e \in inLists :
         e.table = f.table \/ (f.table = "memory" /\ e.table = "vmstat") =>
            \E g \in inFiles' : g.table = e.table /\ g.part = name /\ g.row = e.row
  BY TablesWritten DEF AnalysisInv, AnalysisTypeOK
<1>4. ~cut' => \A e \in inLists :
         \E g \in inFiles' : g.table = e.table /\ g.part = name /\ g.row = e.row
  BY TablesWritten DEF AnalysisInv, AnalysisTypeOK
<1>5. \A f \in inFiles : f.part \in Nat /\ f.part < part /\ f.part # End
  BY DEF AnalysisInv, PartsInv, End
<1>6. part \in Nat /\ \A f \in inFiles : f.part # name
  BY <1>5 DEF AnalysisInv, AnalysisTypeOK
<1>7. ASSUME NEW f \in inFiles', NEW g \in inFiles', f.part = g.part
      PROVE  (f \in inFiles /\ g \in inFiles) \/ (f \notin inFiles /\ g \notin inFiles)
  BY <1>2, <1>6, <1>7
<1>8. AnalysisTypeOK'
  <2>1. ASSUME NEW t, NEW r, RowTyped(t, r) PROVE RowTyped(t, r)'
    BY <2>1 DEF RowTyped
  <2>2. ASSUME NEW f \in inFiles' PROVE RowTyped(f.table, f.row)'
    <3>1. CASE f \in inFiles
      BY <3>1, <2>1 DEF AnalysisInv, AnalysisTypeOK
    <3>2. CASE \E e \in inLists : e.table = f.table /\ e.row = f.row
      BY <3>2, <2>1 DEF AnalysisInv, AnalysisTypeOK
    <3>3. CASE f.table = "memory" /\ f.row = NoTime
      BY <3>3 DEF RowTyped, NoTime
    <3> QED
      BY <3>1, <3>2, <3>3, <1>2
  <2>3. apc' \in AnalysisPcs /\ part' \in Nat
    BY <1>6 DEF AnalysisInv, AnalysisTypeOK, AnalysisPcs
  <2> QED
    BY <1>1, <2>2, <2>3 DEF AnalysisInv, AnalysisTypeOK
<1>9. PartsInv'
  <2>1. ASSUME NEW f \in inFiles'
        PROVE  IF f.part = End THEN apc' = "ended" ELSE f.part \in Nat /\ f.part < part'
    <3>1. CASE f \in inFiles
      BY <3>1, <1>5, <1>6
    <3>2. CASE f.part = name
      BY <3>2, <1>6 DEF End
    <3> QED
      BY <3>1, <3>2, <1>2
  <2> QED
    BY <2>1 DEF PartsInv
<1>10. SamplesInv'
  <2>1. ASSUME NEW f \in inFiles', NEW g \in inFiles', f.table = "vma", g.table = "vma",
               f.part = g.part, NEW s \in observed', f.row.at <= s.at, s.at <= g.row.at
        PROVE  \E h \in inFiles' : h.table = "vma" /\ h.part = f.part /\ h.row = s
    <3>1. CASE f \in inFiles /\ g \in inFiles
      BY <3>1, <2>1, <1>1 DEF AnalysisInv, SamplesInv
    <3>2. CASE f \notin inFiles
      <4>1. PICK e \in inLists : e.table = "vma" /\ e.row = f.row
        BY <3>2, <2>1, <1>2
      <4>2. PICK d \in inLists : d.table = "vma" /\ d.row = s
        BY <4>1, <2>1 DEF AnalysisInv, SamplesInv
      <4>3. \E h \in inFiles' : h.table = d.table /\ h.part = name /\ h.row = d.row
        BY <3>2, <4>2, <2>1, <1>3
      <4> QED
        BY <4>2, <4>3, <3>2, <1>2
    <3> QED
      BY <3>1, <3>2, <2>1, <1>7
  <2> QED
    BY <2>1, <1>1 DEF SamplesInv
<1>11. TreatedInv'
  <2>1. ASSUME ~cut', NEW f \in inFiles', f.table = "candidates", f.part = End,
               f.row.id \in treated
        PROVE  \E g \in inFiles' : /\ g.table = "interventions" /\ g.part = End
                                   /\ g.row.id = f.row.id
    <3>1. f \notin inFiles /\ name = End
      BY <2>1, <1>2, <1>5
    <3>2. PICK e \in inLists : e.table = "candidates" /\ e.row = f.row
      BY <3>1, <2>1, <1>2
    <3>3. PICK d \in inLists : d.table = "interventions" /\ d.row.id = f.row.id
      BY <3>2, <2>1 DEF AnalysisInv, TreatedInv
    <3> QED
      BY <3>1, <3>3, <2>1, <1>4
  <2>2. \A i \in treated' : /\ i \in Nat /\ i <= at'
                            /\ apc' \in {"candidate", "intervention"} => i < at'
    BY DEF AnalysisInv, TreatedInv
  <2> QED
    BY <2>1, <2>2, <1>1 DEF TreatedInv
<1>12. VmstatInv'
  BY <1>1 DEF AnalysisInv, VmstatInv
<1>13. NearInv'
  <2>1. ASSUME NEW f \in inFiles', NEW g \in inFiles',
               f.table = "memory", f.row # NoTime, g.table = "vmstat", g.part = f.part
        PROVE  \E h \in inFiles' : /\ h.table = "vmstat" /\ h.part = f.part
                                   /\ Distance(f.row.at, h.row.at) <= VmstatEvery
    <3>1. CASE f \in inFiles /\ g \in inFiles
      BY <3>1, <2>1, <1>1 DEF AnalysisInv, NearInv
    <3>2. CASE f \notin inFiles /\ g \notin inFiles
      <4>1. PICK e \in inLists : e.table = "memory" /\ e.row = f.row
        BY <3>2, <2>1, <1>2
      <4>2. PICK d \in inLists : d.table = "vmstat"
        BY <3>2, <2>1, <1>2
      <4>3. PICK c \in inLists : /\ c.table = "vmstat"
                                 /\ Distance(e.row.at, c.row.at) <= VmstatEvery
        BY <4>1, <4>2 DEF AnalysisInv, NearInv
      <4>4. PICK h \in inFiles' : h.table = "vmstat" /\ h.part = name /\ h.row = c.row
        BY <3>2, <4>3, <2>1, <1>3
      <4>5. f.part = name
        BY <3>2, <1>2
      <4> QED
        BY <4>1, <4>3, <4>4, <4>5
    <3> QED
      BY <3>1, <3>2, <2>1, <1>7
  <2> QED
    BY <2>1, <1>1 DEF NearInv
<1> QED
  BY <1>8, <1>9, <1>10, <1>11, <1>12, <1>13 DEF AnalysisInv

(* A set of natural numbers that is not empty has a least one. *)
LEMMA LeastNat ==
    ASSUME NEW T, T \subseteq Nat, T # {}
    PROVE  \E m \in T : \A k \in T : m <= k
<1> DEFINE R == {ss \in Nat \X Nat : ss[1] < ss[2]}
<1>1. OpToRel(<, Nat) = R
  BY DEF OpToRel
<1>2. IsWellFoundedOn(R, Nat)
  BY <1>1, NatLessThanWellFounded
<1> HIDE DEF R
<1>3. PICK m \in T : \A k \in T : ~(<<k, m>> \in R)
  BY <1>2, WFMin
<1>4. ASSUME NEW k \in T PROVE m <= k
  <2>1. <<k, m>> \in Nat \X Nat /\ <<k, m>>[1] = k /\ <<k, m>>[2] = m
    OBVIOUS
  <2>2. ~(k < m)
    BY <1>3, <2>1 DEF R
  <2> QED
    BY <2>1, <2>2
<1> QED
  BY <1>4

(* Every step of the hooks and every round keeps the invariant. *)
THEOREM AnalysisInvCorrect == AnalysisSpec => []AnalysisInv
<1>1. AnalysisInit => AnalysisInv
  <2>1. SUFFICES ASSUME AnalysisInit PROVE AnalysisInv
    OBVIOUS
  <2>2. /\ apc = "vma" /\ part \in Nat /\ at = 0 /\ inLists = {} /\ inFiles = {}
        /\ vmstatAt = -VmstatEvery /\ observed = {} /\ treated = {} /\ cut = FALSE
    BY <2>1 DEF AnalysisInit, AnalysisIdle
  <2>3. AnalysisTypeOK
    <3>1. VmstatEvery \in Int
      OBVIOUS
    <3>2. vmstatAt \in Int
      BY <2>2, <3>1
    <3>3. cut \in BOOLEAN
      BY <2>2
    <3> QED
      BY <2>2, <3>2, <3>3 DEF AnalysisTypeOK, AnalysisPcs
  <2>4. PartsInv /\ SamplesInv /\ TreatedInv /\ NearInv
    BY <2>2 DEF PartsInv, SamplesInv, TreatedInv, NearInv
  <2>5. VmstatInv
    BY <2>2 DEF VmstatInv
  <2> QED
    BY <2>3, <2>4, <2>5 DEF AnalysisInv
<1>2. AnalysisInv /\ [AnalysisNext]_analysisVars => AnalysisInv'
  <2> SUFFICES ASSUME AnalysisInv, [AnalysisNext]_analysisVars PROVE AnalysisInv'
    OBVIOUS
  <2>1. CASE SampleRegions
    BY <2>1, RegionsStep
  <2>2. CASE SampleCandidate
    BY <2>2, CandidateStep
  <2>3. CASE Intervene
    BY <2>3, InterveneStep
  <2>4. CASE SampleVmstat
    BY <2>4, VmstatStep
  <2>5. CASE SampleMemory
    BY <2>5, MemoryStep
  <2>6. CASE NumberedRound
    BY <2>6, AnalysisRound DEF NumberedRound
  <2>7. CASE EndRound
    BY <2>7, AnalysisRound DEF EndRound
  <2>8. CASE UNCHANGED analysisVars
    BY <2>8 DEF analysisVars, AnalysisInv, AnalysisTypeOK, RowTyped, PartsInv, SamplesInv,
                TreatedInv, VmstatInv, NearInv
  <2> QED
    BY <2>1, <2>2, <2>3, <2>4, <2>5, <2>6, <2>7, <2>8 DEF AnalysisNext
<1> QED
  BY <1>1, <1>2, PTL DEF AnalysisSpec

(* The least of some natural numbers is one of them. *)
LEMMA MinNat ==
    ASSUME NEW T, T \subseteq Nat, T # {}
    PROVE  Min(T) \in T /\ \A k \in T : Min(T) <= k
  BY LeastNat DEF Min

(* So is the greatest of some that are bounded. *)
LEMMA MaxNat ==
    ASSUME NEW T, T \subseteq Nat, T # {}, NEW b \in Nat, \A k \in T : k <= b
    PROVE  Max(T) \in T /\ \A k \in T : k <= Max(T)
<1>1. PICK D : D = {b - k : k \in T}
  OBVIOUS
<1>2. D \subseteq Nat /\ D # {}
  <2>1. \A k \in T : k \in Nat /\ b - k \in Nat
    OBVIOUS
  <2> QED
    BY <1>1, <2>1
<1>3. PICK m \in D : \A k \in D : m <= k
  BY <1>2, LeastNat
<1>4. PICK k \in T : m = b - k
  BY <1>1, <1>3
<1>5. ASSUME NEW j \in T PROVE j <= k
  <2>1. m <= b - j
    BY <1>1, <1>3
  <2> QED
    BY <1>4, <2>1
<1> QED
  BY <1>5 DEF Max

(* What the analysis loads are rows of one file. *)
LEMMA Loaded ==
    ASSUME NEW t, NEW r \in TryLoad(t)
    PROVE  \E f \in inFiles : f.table = t /\ f.part = Chosen(t) /\ f.row = r
  BY DEF TryLoad

(* Of tables with an end file the end file is loaded, where the invariant  *)
(* has an intervention for each candidate that was treated.                *)
LEMMA KeepSound == AnalysisInv => KeepNotTreated
<1> SUFFICES ASSUME AnalysisInv, End \in Parts("candidates"), End \in Parts("interventions"),
                    ~cut, NEW c \in Keeps, c.id \in treated
             PROVE  FALSE
  BY DEF KeepNotTreated
<1>1. Chosen("candidates") = End /\ Chosen("interventions") = End
  BY DEF Chosen
<1>2. c \in TryLoad("candidates") /\ \A b \in TryLoad("interventions") : b.id # c.id
  BY DEF Keeps, Breaks
<1>3. PICK f \in inFiles : f.table = "candidates" /\ f.part = End /\ f.row = c
  BY <1>1, <1>2, Loaded
<1>4. PICK g \in inFiles : /\ g.table = "interventions" /\ g.part = End
                           /\ g.row.id = c.id
  BY <1>3 DEF AnalysisInv, TreatedInv
<1>5. g.row \in TryLoad("interventions")
  BY <1>1, <1>4 DEF TryLoad
<1> QED
  BY <1>2, <1>4, <1>5

(* The samples of one file follow each other, so that none was observed    *)
(* between the last one before a decision and the first one after it.      *)
LEMMA FreedSound == AnalysisInv => FreedAdjacent
<1> SUFFICES ASSUME AnalysisInv, NEW b \in Breaks,
                    \E a \in SamplesOf(b) : a > b.at,
                    \E a \in SamplesOf(b) : a <= b.at,
                    NEW s \in observed, s.key = b.key,
                    Before(b) < s.at, s.at < After(b)
             PROVE  FALSE
  BY DEF FreedAdjacent
<1>1. ASSUME NEW a \in SamplesOf(b)
      PROVE  \E f \in inFiles : /\ f.table = "vma" /\ f.part = Chosen("vma")
                                /\ f.row \in observed /\ f.row.at = a
  <2>1. PICK r \in TryLoad("vma") : r.key = b.key /\ r.at = a
    BY <1>1 DEF SamplesOf
  <2>2. PICK f \in inFiles : f.table = "vma" /\ f.part = Chosen("vma") /\ f.row = r
    BY <2>1, Loaded
  <2> QED
    BY <2>1, <2>2 DEF AnalysisInv, AnalysisTypeOK, RowTyped
<1>2. SamplesOf(b) \subseteq Nat
  BY <1>1 DEF AnalysisInv, AnalysisTypeOK
<1>3. b.at \in Nat
  BY Loaded DEF Breaks, AnalysisInv, AnalysisTypeOK, RowTyped
<1>4. PICK A : A = {a \in SamplesOf(b) : a > b.at}
  OBVIOUS
<1>5. PICK B : B = {a \in SamplesOf(b) : a <= b.at}
  OBVIOUS
<1>6. After(b) \in A /\ \A k \in A : After(b) <= k
  BY <1>2, <1>4, MinNat DEF After
<1>7. Before(b) \in B /\ \A k \in B : k <= Before(b)
  <2>1. B \subseteq Nat /\ B # {} /\ \A k \in B : k <= b.at
    BY <1>2, <1>5
  <2>2. Max(B) \in B /\ \A k \in B : k <= Max(B)
    BY <1>3, <2>1, MaxNat
  <2> QED
    BY <1>5, <2>2 DEF Before
<1>8. PICK f \in inFiles : /\ f.table = "vma" /\ f.part = Chosen("vma")
                           /\ f.row \in observed /\ f.row.at = Before(b)
  BY <1>1, <1>5, <1>7
<1>9. PICK g \in inFiles : /\ g.table = "vma" /\ g.part = Chosen("vma")
                           /\ g.row \in observed /\ g.row.at = After(b)
  BY <1>1, <1>4, <1>6
<1>10. s.at \in Nat /\ Before(b) \in Nat /\ After(b) \in Nat
  BY <1>2, <1>4, <1>5, <1>6, <1>7 DEF AnalysisInv, AnalysisTypeOK
<1>11. PICK h \in inFiles : h.table = "vma" /\ h.part = Chosen("vma") /\ h.row = s
  <2>1. f.row.at <= s.at /\ s.at <= g.row.at
    BY <1>8, <1>9, <1>10
  <2> QED
    BY <1>8, <1>9, <2>1 DEF AnalysisInv, SamplesInv
<1>12. s.at \in SamplesOf(b)
  <2>1. s \in TryLoad("vma")
    BY <1>11 DEF TryLoad
  <2> QED
    BY <2>1 DEF SamplesOf
<1>13. CASE s.at > b.at
  <2>1. After(b) <= s.at
    BY <1>4, <1>6, <1>12, <1>13
  <2> QED
    BY <1>10, <2>1
<1>14. CASE s.at <= b.at
  <2>1. s.at <= Before(b)
    BY <1>5, <1>7, <1>12, <1>14
  <2> QED
    BY <1>10, <2>1
<1> QED
  BY <1>3, <1>10, <1>13, <1>14

(* A reading of meminfo has one of vmstat near it in the same round. *)
LEMMA ContextSound == AnalysisInv => ContextRecent
<1> SUFFICES ASSUME AnalysisInv, Chosen("memory") = Chosen("vmstat"), NEW c \in SystemContext
             PROVE  c.distance <= VmstatEvery
  BY DEF ContextRecent, SamePart
<1>1. NoTime \notin TryLoad("memory") /\ TryLoad("vmstat") # {}
  BY DEF SystemContext
<1>2. PICK m \in TryLoad("memory") :
         c = [at |-> m.at,
              distance |-> Min({Distance(m.at, v.at) : v \in TryLoad("vmstat")})]
  <2>1. SystemContext =
          {[at |-> m.at,
            distance |-> Min({Distance(m.at, v.at) : v \in TryLoad("vmstat")})] :
               m \in TryLoad("memory")}
    BY <1>1 DEF SystemContext
  <2> QED
    BY <2>1
<1>3. PICK D : D = {Distance(m.at, v.at) : v \in TryLoad("vmstat")}
  OBVIOUS
<1>4. PICK f \in inFiles : f.table = "memory" /\ f.part = Chosen("memory") /\ f.row = m
  BY Loaded
<1>5. m.at \in Int
  BY <1>4 DEF AnalysisInv, AnalysisTypeOK, RowTyped
<1>6. ASSUME NEW v \in TryLoad("vmstat") PROVE v.at \in Int
  BY <1>6, Loaded DEF AnalysisInv, AnalysisTypeOK, RowTyped
<1>7. D \subseteq Nat /\ D # {}
  BY <1>1, <1>3, <1>5, <1>6, DistanceBetween
<1>8. c.distance \in D /\ \A k \in D : c.distance <= k
  BY <1>2, <1>3, <1>7, MinNat
<1>9. PICK v \in TryLoad("vmstat") : TRUE
  BY <1>1
<1>10. PICK g \in inFiles : g.table = "vmstat" /\ g.part = Chosen("vmstat") /\ g.row = v
  BY Loaded
<1>11. PICK h \in inFiles : /\ h.table = "vmstat" /\ h.part = Chosen("memory")
                            /\ Distance(m.at, h.row.at) <= VmstatEvery
  <2>1. f.row # NoTime
    BY <1>1, <1>4
  <2>2. g.part = f.part
    BY <1>4, <1>10
  <2> QED
    BY <1>4, <1>10, <2>1, <2>2 DEF AnalysisInv, NearInv
<1>12. h.row \in TryLoad("vmstat")
  BY <1>11 DEF TryLoad
<1>13. Distance(m.at, h.row.at) \in D
  BY <1>3, <1>12
<1>14. c.distance <= Distance(m.at, h.row.at)
  BY <1>8, <1>13
<1>15. c.distance \in Nat /\ Distance(m.at, h.row.at) \in Nat
  BY <1>7, <1>8, <1>13
<1> QED
  BY <1>11, <1>14, <1>15

(* An age is counted from a sample of the file, which was observed. *)
LEMMA AgesSound == AnalysisInv => AgesKnown
<1> SUFFICES ASSUME AnalysisInv, NEW o \in PageObservations
             PROVE  \E s \in observed : s.key = o.key /\ o.age = o.at - s.at
  BY DEF AgesKnown
<1>1. PICK s \in TryLoad("vma") :
         o = [key |-> s.key, at |-> s.at,
              age |-> s.at - Min({r.at : r \in {q \in TryLoad("vma") : q.key = s.key}})]
  BY DEF PageObservations
<1>2. PICK T : T = {r.at : r \in {q \in TryLoad("vma") : q.key = s.key}}
  OBVIOUS
<1>3. ASSUME NEW r \in TryLoad("vma") PROVE r \in observed
  BY <1>3, Loaded DEF AnalysisInv, AnalysisTypeOK, RowTyped
<1>4. T \subseteq Nat
  BY <1>2, <1>3 DEF AnalysisInv, AnalysisTypeOK
<1>5. s.at \in T
  BY <1>2
<1>6. Min(T) \in T
  BY <1>4, <1>5, MinNat
<1>7. PICK r \in TryLoad("vma") : r.key = s.key /\ r.at = Min(T)
  BY <1>2, <1>6
<1>8. o.key = s.key /\ o.at = s.at /\ o.age = s.at - Min(T)
  BY <1>1, <1>2
<1> QED
  BY <1>3, <1>7, <1>8

(* Whenever the analysis is run, its tables agree with what happened, for  *)
(* any regions, passes, rounds and sample intervals, and one write error.  *)
THEOREM AnalysisCorrect == AnalysisSpec => []AnalysisSound
<1>1. AnalysisInv => AnalysisSound
  BY KeepSound, FreedSound, ContextSound, AgesSound DEF AnalysisSound
<1> QED
  BY <1>1, AnalysisInvCorrect, PTL

=============================================================================
