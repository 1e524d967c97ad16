----------------------------- MODULE Collector -----------------------------
(***************************************************************************)
(* One `collect data` run: run_collect of python/kernmlops/cli/collect.py  *)
(* and the threads it starts.                                              *)
(*                                                                         *)
(*   main    run_collect itself: starts the threads and the benchmark,     *)
(*           waits for the return code, closes the hooks and writes the    *)
(*           "end" files                                                   *)
(*   poll    poll_instrumentation: polls hooks and benchmark, kills the    *)
(*           benchmark on a stop request, drains the hooks, reports the    *)
(*           return code                                                   *)
(*   output  output_data_thread (daemon): every output_interval pops the   *)
(*           hooks into numbered files                                     *)
(*                                                                         *)
(* plus the stdin reader and the signal handlers (one action, Stop), the   *)
(* benchmark process and the kernel side of the hooks.  A hook is a kernel *)
(* ring and one Python list; a row is an event the kernel submitted once.  *)
(* A step is one access to state that another thread can touch.            *)
(***************************************************************************)
EXTENDS Integers, FiniteSets

CONSTANTS
    NHooks,         \* number of configured hooks, in the order of get_hooks()
    Rows,           \* identities of the events a hook may capture
    Benches,        \* the kinds of benchmark a run may have
    RunFails,       \* TRUE if benchmark.run() may raise
    HookFails,      \* TRUE if the poll() of a hook may raise
    WriteFails,     \* TRUE if write_parquet or chown may raise
    RaiseWhenEmpty, \* hooks whose data() raises when nothing is buffered
    StopAt,         \* where main may be when a stop request arrives
    MaxRounds       \* bound: output rounds that fit in the run

Hooks == 1..NHooks

MainPcs == {"spawn", "start_output", "run", "get", "join", "close", "lock",
            "data", "clear", "write", "release", "post", "done", "failed"}
PollPcs == {"unstarted", "loop", "hooks", "bench", "exit", "drain", "put",
            "done", "crashed"}
OutPcs  == {"unstarted", "sleep", "lock", "data", "clear", "write",
            "release", "stopped"}

ASSUME NHooksAssumption    == NHooks \in Nat \ {0}
ASSUME BenchesAssumption   == Benches # {} /\ Benches \subseteq {"faux", "none"}
ASSUME SwitchesAssumption  == {RunFails, HookFails, WriteFails} \subseteq BOOLEAN
ASSUME EmptyAssumption     == RaiseWhenEmpty \subseteq Hooks
ASSUME StopAtAssumption    == StopAt \subseteq MainPcs
ASSUME MaxRoundsAssumption == MaxRounds \in Nat

Writers == {"main", "output"}

End == -1                           \* the file suffix "end"
Suffixes == {End} \cup 0..MaxRounds \* and the numbered ones

Codes   == {0, 1}
NoCode  == -1                       \* return_code is None, the queue is empty

VARIABLES
    captured,  \* captured[h]: rows the kernel has submitted to hook h (history)
    ring,      \* ring[h]: rows in the perf buffer of hook h
    list,      \* list[h]: rows in the Python list(s) of hook h
    tabs,      \* tabs[w][h]: rows in the tables writer w popped from hook h
    files,     \* files[s][h]: rows of hook h in the parquet file of suffix s
    runEvent,  \* run_event.is_set()
    proc,      \* the benchmark process; "faux" for FauxBenchmark, which
               \* never has one, "none" for one that is not created yet
    status,    \* its exit status
    lock,      \* output_lock
    queue,     \* the queue of size one
    mainPc, mainHook, mainCode,
    pollPc, pollHook, batch, rc,
    outPc, outHook, num,
    due        \* due[h]: captured[h] when poll left its loop (history)

rowVars   == <<captured, ring, list, tabs, files>>
benchVars == <<proc, status>>
mainVars  == <<mainPc, mainHook, mainCode>>
pollVars  == <<pollPc, pollHook, batch, rc, due>>
outVars   == <<outPc, outHook, num>>
vars      == <<rowVars, runEvent, benchVars, lock, queue,
               mainVars, pollVars, outVars>>

NoRows == [h \in Hooks |-> {}]

Filed(h) == UNION {files[s][h] : s \in Suffixes}

Init ==
    /\ captured = NoRows /\ ring = NoRows /\ list = NoRows
    /\ tabs = [w \in Writers |-> NoRows]
    /\ files = [s \in Suffixes |-> NoRows]
    /\ runEvent = TRUE
    /\ proc \in Benches /\ status = 0
    /\ lock = "free"
    /\ queue = NoCode
    /\ mainPc = "spawn" /\ mainHook = 1 /\ mainCode = NoCode
    /\ pollPc = "unstarted" /\ pollHook = 1 /\ batch = {} /\ rc = NoCode
    /\ outPc = "unstarted" /\ outHook = 1 /\ num = 0
    /\ due = NoRows

Faux == proc = "faux"

(* The interpreter exits, and with it the daemon threads, when main and    *)
(* the poll thread, which is not a daemon, have ended.                     *)
Gone == \/ mainPc = "done"
        \/ mainPc = "failed" /\ pollPc \in {"done", "crashed"}

Loaded(h) == \/ mainPc \notin {"close", "lock", "data", "clear", "write",
                               "release", "post", "done", "failed"}
             \/ mainPc = "close" /\ h >= mainHook
             \/ mainPc = "failed" /\ mainCode = NoCode

-----------------------------------------------------------------------------
(* The environment: kernel, operator, benchmark process.                   *)

Emit(h, r) ==
    /\ ~Gone /\ Loaded(h)
    /\ r \notin captured[h]
    /\ captured' = [captured EXCEPT ![h] = @ \cup {r}]
    /\ ring' = [ring EXCEPT ![h] = @ \cup {r}]
    /\ UNCHANGED <<list, tabs, files, runEvent, benchVars, lock, queue,
                   mainVars, pollVars, outVars>>

(* A signal, or a line with END on stdin. *)
Stop ==
    /\ ~Gone
    /\ runEvent /\ mainPc \in StopAt
    /\ runEvent' = FALSE
    /\ UNCHANGED <<rowVars, benchVars, lock, queue, mainVars, pollVars, outVars>>

(* The process ends by itself, or because it was terminated. *)
ProcExit ==
    /\ proc \in {"running", "terminating"}
    /\ status' \in (IF proc = "running" THEN Codes ELSE {1})
    /\ proc' = "exited"
    /\ UNCHANGED <<rowVars, runEvent, lock, queue, mainVars, pollVars, outVars>>

-----------------------------------------------------------------------------
(* The poll thread.                                                        *)

PollGoto(pc) == /\ pollPc' = pc
                /\ UNCHANGED <<pollHook, batch, rc, due>>

(* Entering hook.poll(): the events now in the perf buffer are delivered   *)
(* before it returns, later ones may be.                                   *)
PollEnter(pc, h) == /\ pollPc' = pc
                    /\ pollHook' = h
                    /\ batch' = ring[h]

(* while return_code is None and run_event.is_set() *)
PollLoop ==
    /\ pollPc = "loop"
    /\ IF rc = NoCode /\ runEvent
       THEN PollEnter("hooks", 1)
       ELSE pollPc' = "exit" /\ UNCHANGED <<pollHook, batch>>
    /\ UNCHANGED <<rc, due, rowVars, runEvent, benchVars, lock, queue,
                   mainVars, outVars>>

(* One event handler: the row is appended to the list of the hook. *)
PollCallback(r) ==
    /\ pollPc \in {"hooks", "drain"}
    /\ r \in ring[pollHook]
    /\ ring' = [ring EXCEPT ![pollHook] = @ \ {r}]
    /\ list' = [list EXCEPT ![pollHook] = @ \cup {r}]
    /\ UNCHANGED <<captured, tabs, files, runEvent, benchVars, lock, queue,
                   mainVars, pollVars, outVars>>

(* Mutant: the final drain stops after the first hook. *)
PollNextHookDrainsOne ==
    IF pollHook < NHooks /\ pollPc = "hooks"
    THEN PollEnter(pollPc, pollHook + 1)
    ELSE /\ pollPc' = IF pollPc = "hooks" THEN "bench" ELSE "put"
         /\ UNCHANGED <<pollHook, batch>>

(* The polling loop over the hooks goes on after hook pollHook. *)
PollNextHook ==
    IF pollHook < NHooks
    THEN PollEnter(pollPc, pollHook + 1)
    ELSE /\ pollPc' = IF pollPc = "hooks" THEN "bench" ELSE "put"
         /\ UNCHANGED <<pollHook, batch>>

PollReturn ==
    /\ pollPc \in {"hooks", "drain"}
    /\ batch \cap ring[pollHook] = {}
    /\ PollNextHook
    /\ UNCHANGED <<rc, due, rowVars, runEvent, benchVars, lock, queue,
                   mainVars, outVars>>

(* hook.poll() raises: the thread dies in the loop (only                   *)
(* BenchmarkNotRunningError is caught there), the final drain goes on.     *)
PollRaise ==
    /\ HookFails
    /\ pollPc \in {"hooks", "drain"}
    /\ IF pollPc = "hooks"
       THEN pollPc' = "crashed" /\ UNCHANGED <<pollHook, batch>>
       ELSE PollNextHook
    /\ UNCHANGED <<rc, due, rowVars, runEvent, benchVars, lock, queue,
                   mainVars, outVars>>

NotRunning == proc = "none"

(* sleep(poll_rate); benchmark.poll().  A benchmark that is not running    *)
(* yet raises BenchmarkNotRunningError, which means continue.              *)
PollBench ==
    /\ pollPc = "bench"
    /\ rc' = IF proc = "exited" THEN status ELSE NoCode
    /\ pollPc' = "loop"
    /\ UNCHANGED <<pollHook, batch, due, rowVars, runEvent, benchVars, lock,
                   queue, mainVars, outVars>>

(* Mutant: kill() does nothing for any benchmark. *)
KillKeepsRunning ==
    proc' = proc

(* benchmark.kill(): an error with no process, else terminate(), which     *)
(* does not wait; nothing to do for FauxBenchmark.                         *)
Kill ==
    proc' = IF proc = "running" THEN "terminating" ELSE proc

(* Mutant: a stopped run always reports success. *)
StopCodeZero == 0

(* return_code = 0 if benchmark.name() == "faux" else 1 *)
StopCode == IF Faux THEN 0 ELSE 1

(* After the loop: on a stop request kill the benchmark and replace the    *)
(* return code, then enter the final drain.                                *)
PollExit ==
    /\ pollPc = "exit"
    /\ \/ /\ runEvent
          /\ PollEnter("drain", 1)
          /\ due' = captured
          /\ UNCHANGED <<rc, proc>>
       \/ /\ ~runEvent /\ NotRunning
          /\ PollGoto("crashed")
          /\ UNCHANGED proc
       \/ /\ ~runEvent /\ ~NotRunning
          /\ Kill
          /\ rc' = StopCode
          /\ PollEnter("drain", 1)
          /\ due' = captured
    /\ UNCHANGED <<status, rowVars, runEvent, lock, queue, mainVars, outVars>>

(* Mutant: only a failure is reported. *)
PollPutFailuresOnly ==
    /\ pollPc = "put"
    /\ rc' = IF rc = NoCode THEN 1 ELSE rc
    /\ queue' = IF rc' = 0 THEN queue ELSE rc'
    /\ pollPc' = "done"
    /\ UNCHANGED <<pollHook, batch, due, rowVars, runEvent, benchVars, lock,
                   mainVars, outVars>>

(* queue.put(return_code) *)
PollPut ==
    /\ pollPc = "put"
    /\ rc' = IF rc = NoCode THEN 1 ELSE rc
    /\ queue' = rc'
    /\ pollPc' = "done"
    /\ UNCHANGED <<pollHook, batch, due, rowVars, runEvent, benchVars, lock,
                   mainVars, outVars>>

-----------------------------------------------------------------------------
(* pop_data() and write_parquet, as both writers run them.                 *)

(* data(): the tables are built from the list as it is now. *)
Snapshot(w, h) ==
    /\ tabs' = [tabs EXCEPT ![w][h] = list[h]]
    /\ UNCHANGED <<captured, ring, list, files>>

(* clear(): empties the list, whatever was appended since the snapshot. *)
ClearList(h) ==
    /\ list' = [list EXCEPT ![h] = {}]
    /\ UNCHANGED <<captured, ring, tabs, files>>

(* The table of hook h goes to its file of suffix s, replacing the file. *)
WriteTable(w, h, s) ==
    /\ files' = [files EXCEPT ![s][h] = tabs[w][h]]
    /\ tabs' = [tabs EXCEPT ![w][h] = {}]
    /\ UNCHANGED <<captured, ring, list>>

DataRaises(h) == h \in RaiseWhenEmpty /\ list[h] = {}

-----------------------------------------------------------------------------
(* The output thread.                                                      *)

OutStep(from, to) == outPc = from /\ outPc' = to

OutSame == UNCHANGED <<runEvent, benchVars, queue, mainVars, pollVars>>

(* sleep(output_interval); while run_event.is_set().  The argument `ended` *)
(* was passed by value before main assigns it, so it never ends this loop. *)
OutWake ==
    /\ num < MaxRounds
    /\ outPc = "sleep" /\ ~Gone
    /\ outPc' = IF runEvent THEN "lock" ELSE "stopped"
    /\ UNCHANGED <<outHook, num, lock, rowVars>> /\ OutSame

(* Mutant: the output thread does not take output_lock. *)
OutAcquireUnlocked ==
    /\ OutStep("lock", "data") /\ ~Gone
    /\ lock' = "output"
    /\ outHook' = 1
    /\ UNCHANGED <<num, rowVars>> /\ OutSame

OutAcquire ==
    /\ OutStep("lock", "data") /\ ~Gone
    /\ lock = "free" /\ lock' = "output"
    /\ outHook' = 1
    /\ UNCHANGED <<num, rowVars>> /\ OutSame

OutData ==
    /\ OutStep("data", "clear") /\ ~Gone
    /\ ~DataRaises(outHook)
    /\ Snapshot("output", outHook)
    /\ UNCHANGED <<outHook, num, lock>> /\ OutSame

OutClear ==
    /\ outPc = "clear" /\ ~Gone
    /\ ClearList(outHook)
    /\ IF outHook < NHooks
       THEN outPc' = "data" /\ outHook' = outHook + 1
       ELSE outPc' = "write" /\ outHook' = 1
    /\ UNCHANGED <<num, lock>> /\ OutSame

OutWrite ==
    /\ outPc = "write" /\ ~Gone
    /\ WriteTable("output", outHook, num)
    /\ IF outHook < NHooks
       THEN outPc' = "write" /\ outHook' = outHook + 1
       ELSE outPc' = "release" /\ outHook' = 1
    /\ UNCHANGED <<num, lock>> /\ OutSame

(* except Exception: what was popped and not yet written is gone. *)
OutRaise ==
    /\ outPc' = "release" /\ ~Gone
    /\ \/ outPc = "data" /\ DataRaises(outHook)
       \/ outPc = "write" /\ WriteFails
    /\ tabs' = [tabs EXCEPT !["output"] = NoRows]
    /\ UNCHANGED <<captured, ring, list, files, outHook, num, lock>> /\ OutSame

(* Mutant: the round is not counted. *)
OutReleaseSameRound ==
    /\ OutStep("release", "sleep") /\ ~Gone
    /\ lock' = "free"
    /\ num' = num
    /\ UNCHANGED <<outHook, rowVars>> /\ OutSame

OutRelease ==
    /\ OutStep("release", "sleep") /\ ~Gone
    /\ lock' = "free"
    /\ num' = num + 1
    /\ UNCHANGED <<outHook, rowVars>> /\ OutSame

-----------------------------------------------------------------------------
(* The main thread.                                                        *)

MainStep(from, to) == mainPc = from /\ mainPc' = to

MainSame == UNCHANGED <<runEvent, pollVars, outVars>>

StartPoll ==
    /\ MainStep("spawn", "start_output")
    /\ pollPc' = "loop"
    /\ UNCHANGED <<mainHook, mainCode, pollHook, batch, rc, due, rowVars,
                   runEvent, benchVars, lock, queue, outVars>>

(* The output directories, then the output thread. *)
StartOutput ==
    /\ \/ MainStep("start_output", "run") /\ outPc' = "sleep"
       \/ WriteFails /\ MainStep("start_output", "failed") /\ UNCHANGED outPc
    /\ UNCHANGED <<mainHook, mainCode, pollVars, rowVars, runEvent, benchVars,
                   lock, queue, outHook, num>>

(* benchmark.run() *)
RunBenchmark ==
    /\ MainStep("run", "get")
    /\ proc' = IF Faux THEN proc ELSE "running"
    /\ UNCHANGED <<status, mainHook, mainCode, rowVars, lock, queue>>
    /\ MainSame

(* benchmark.run() raises: no process yet, or one that exited non-zero. *)
RunRaises ==
    /\ RunFails /\ ~Faux
    /\ MainStep("run", "failed")
    /\ \/ UNCHANGED benchVars
       \/ proc' = "exited" /\ status' = 1
    /\ UNCHANGED <<mainHook, mainCode, rowVars, lock, queue>>
    /\ MainSame

(* Mutant: main waits for the process instead of the poll thread. *)
GetCodeFromProcess ==
    /\ MainStep("get", "close")
    /\ proc = "exited"
    /\ mainCode' = status /\ queue' = NoCode
    /\ UNCHANGED <<mainHook, rowVars, benchVars, lock>>
    /\ MainSame

(* return_code = queue.get() *)
GetCode ==
    /\ MainStep("get", "join")
    /\ queue # NoCode
    /\ mainCode' = queue /\ queue' = NoCode
    /\ UNCHANGED <<mainHook, rowVars, benchVars, lock>>
    /\ MainSame

JoinPoll ==
    /\ MainStep("join", "close")
    /\ pollPc \in {"done", "crashed"}
    /\ mainHook' = 1
    /\ UNCHANGED <<mainCode, rowVars, benchVars, lock, queue>>
    /\ MainSame

(* bpf_program.close(): the perf buffer goes with the program. *)
CloseHook ==
    /\ mainPc = "close"
    /\ ring' = [ring EXCEPT ![mainHook] = {}]
    /\ IF mainHook < NHooks
       THEN mainPc' = "close" /\ mainHook' = mainHook + 1
       ELSE mainPc' = "lock" /\ mainHook' = 1
    /\ UNCHANGED <<captured, list, tabs, files, mainCode, benchVars, lock, queue>>
    /\ MainSame

MainAcquire ==
    /\ MainStep("lock", "data")
    /\ lock = "free" /\ lock' = "main"
    /\ mainHook' = 1
    /\ UNCHANGED <<mainCode, rowVars, benchVars, queue>>
    /\ MainSame

MainData ==
    /\ MainStep("data", "clear")
    /\ ~DataRaises(mainHook)
    /\ Snapshot("main", mainHook)
    /\ UNCHANGED <<mainHook, mainCode, benchVars, lock, queue>>
    /\ MainSame

MainClear ==
    /\ mainPc = "clear"
    /\ ClearList(mainHook)
    /\ IF mainHook < NHooks
       THEN mainPc' = "data" /\ mainHook' = mainHook + 1
       ELSE mainPc' = "write" /\ mainHook' = 1
    /\ UNCHANGED <<mainCode, benchVars, lock, queue>>
    /\ MainSame

MainWrite ==
    /\ mainPc = "write"
    /\ WriteTable("main", mainHook, End)
    /\ IF mainHook < NHooks
       THEN mainPc' = "write" /\ mainHook' = mainHook + 1
       ELSE mainPc' = "release" /\ mainHook' = 1
    /\ UNCHANGED <<mainCode, benchVars, lock, queue>>
    /\ MainSame

(* An exception leaves run_collect with the lock held. *)
MainRaise ==
    /\ mainPc' = "failed"
    /\ \/ mainPc = "data" /\ DataRaises(mainHook)
       \/ mainPc = "write" /\ WriteFails
    /\ UNCHANGED <<mainHook, mainCode, rowVars, benchVars, lock, queue>>
    /\ MainSame

MainRelease ==
    /\ MainStep("release", "post")
    /\ lock' = "free"
    /\ UNCHANGED <<mainHook, mainCode, rowVars, benchVars, queue>>
    /\ MainSame

(* Graphs and the cleaned copy are made, then run_collect returns. *)
MainReturn ==
    /\ MainStep("post", "done")
    /\ UNCHANGED <<mainHook, mainCode, rowVars, benchVars, lock, queue>>
    /\ MainSame

-----------------------------------------------------------------------------
Environment == \/ \E h \in Hooks, r \in Rows : Emit(h, r)
               \/ Stop

Poll == \/ PollLoop
        \/ \E r \in Rows : PollCallback(r)
        \/ PollReturn \/ PollRaise \/ PollBench \/ PollExit \/ PollPut

Output == \/ OutWake \/ OutAcquire \/ OutData \/ OutClear \/ OutWrite
          \/ OutRaise \/ OutRelease

Main == \/ StartPoll \/ StartOutput \/ RunBenchmark \/ RunRaises \/ GetCode
        \/ JoinPoll \/ CloseHook \/ MainAcquire \/ MainData \/ MainClear
        \/ MainWrite \/ MainRaise \/ MainRelease \/ MainReturn

(* Nothing happens after the process has gone. *)
Finished == Gone /\ UNCHANGED vars

Next == Environment \/ ProcExit \/ Poll \/ Output \/ Main \/ Finished

Spec == Init /\ [][Next]_vars

(* Threads that can run do run, a perf buffer is read until it is empty    *)
(* (no row arrives for ever), and a benchmark ends in finite time.  Only   *)
(* the operator is free never to act.                                      *)
Fairness == /\ WF_vars(Poll) /\ WF_vars(Output) /\ WF_vars(Main)
            /\ WF_vars(ProcExit)

FairSpec == Spec /\ Fairness

-----------------------------------------------------------------------------
(* Properties                                                              *)

RowMap == [Hooks -> SUBSET Rows]

(* Every variable of a collection run (run_collect, poll_instrumentation,  *)
(* output_data_thread) has a value of its type.                            *)
TypeOK ==
    /\ captured \in RowMap /\ ring \in RowMap /\ list \in RowMap
    /\ tabs \in [Writers -> RowMap]
    /\ files \in [Suffixes -> RowMap]
    /\ runEvent \in BOOLEAN
    /\ proc \in {"faux", "none", "running", "terminating", "exited"}
    /\ status \in Codes
    /\ lock \in {"free"} \cup Writers
    /\ queue \in Codes \cup {NoCode}
    /\ mainPc \in MainPcs /\ mainHook \in Hooks /\ mainCode \in Codes \cup {NoCode}
    /\ pollPc \in PollPcs /\ pollHook \in Hooks
    /\ batch \subseteq Rows /\ rc \in Codes \cup {NoCode}
    /\ outPc \in OutPcs /\ outHook \in Hooks /\ num \in 0..MaxRounds
    /\ due \in RowMap

(* Who holds output_lock: a writer from its acquire() to its release(),    *)
(* and main for ever when an exception left run_collect in between.  The   *)
(* output thread is started by main.                                       *)
OutHolds  == outPc \in {"data", "clear", "write", "release"}
MainHolds == mainPc \in {"data", "clear", "write", "release"}

LockHeld == /\ OutHolds <=> lock = "output"
            /\ MainHolds => lock = "main"
            /\ lock = "main" => MainHolds \/ mainPc = "failed"
            /\ mainPc \in {"spawn", "start_output"} => outPc = "unstarted"

(* A writer has popped tables only between acquire() and release(), and    *)
(* writes them in the order of the hooks.                                  *)
TablesPopped ==
    \A h \in Hooks :
        /\ tabs["output"][h] # {} =>
               \/ outPc \in {"data", "clear"}
               \/ outPc = "write" /\ h >= outHook
        /\ tabs["main"][h] # {} =>
               \/ mainPc \in {"data", "clear"}
               \/ mainPc = "write" /\ h >= mainHook
               \/ mainPc = "failed" /\ lock = "main"

(* Where writer w is between data() and clear() of hook h. *)
Popping(w, h) == IF w = "main" THEN mainPc = "clear" /\ mainHook = h
                               ELSE outPc = "clear" /\ outHook = h

(* A captured row is in one place: the perf buffer, the Python list, the   *)
(* tables of one writer, or one file.  Only between data() and clear() is  *)
(* it in the list and in the tables of the writer that pops it.            *)
BufferPlaced(h) == /\ ring[h] \subseteq captured[h]
                   /\ list[h] \subseteq captured[h] \ ring[h]

TablePlaced(w, h) == /\ tabs[w][h] \subseteq captured[h] \ ring[h]
                     /\ Popping(w, h) \/ tabs[w][h] \cap list[h] = {}

FilePlaced(s, h) == /\ files[s][h] \subseteq captured[h] \ ring[h]
                    /\ files[s][h] \cap list[h] = {}
                    /\ \A w \in Writers : files[s][h] \cap tabs[w][h] = {}

RowPlacement ==
    \A h \in Hooks : /\ BufferPlaced(h)
                     /\ \A w \in Writers : TablePlaced(w, h)
                     /\ \A s \in Suffixes : FilePlaced(s, h)

(* output_lock keeps the pop and write of the "end" files apart from those *)
(* of the numbered files, so no row of a hook is in two parquet files:     *)
(* neither of two numbered ones, nor of a numbered one and "end".          *)
RowsOnce ==
    \A h \in Hooks : \A s, t \in Suffixes :
        s # t => files[s][h] \cap files[t][h] = {}

(* The inductive invariant behind RowsOnce. *)
PlacementInv == LockHeld /\ TablesPopped /\ RowPlacement /\ RowsOnce

(* The poll thread never polls a hook that main has closed.  Nothing but   *)
(* the order put, get, join, close keeps the two apart: the return code is *)
(* put after the last poll and the hooks are closed after the join, so a   *)
(* hook's list no longer grows when run_collect pops it for its "end" file *)
(* and clear() removes no row that data() did not see.                     *)
NoPollAfterClose ==
    pollPc \in {"hooks", "drain"} => Loaded(pollHook)

(* "drains each hook's buffered tables and writes them to parquet files"   *)
(* (python/kernmlops/data_collection/README.md:54): once run_collect has   *)
(* returned, every row the kernel had submitted when the poll thread left  *)
(* its loop is in some file.                                               *)
DueRowsFiled ==
    mainPc = "done" => \A h \in Hooks : due[h] \subseteq Filed(h)

(* A run in which no numbered round has popped anything, because it was    *)
(* shorter than output_interval, keeps that promise.                       *)
ShortRunFilesDue ==
    num = 0 /\ outPc \in {"sleep", "lock", "stopped"} => DueRowsFiled

(* Hooks are closed and the "end" files written only when the benchmark    *)
(* has ended or has been sent the termination signal.                      *)
NoEndWhileRunning ==
    mainPc \in {"close", "lock", "data", "clear", "write", "release", "post",
                "done"} => Faux \/ proc \in {"terminating", "exited"}

(* run_collect returns 0 only for a benchmark that exited with 0 and was   *)
(* not cut short by a stop request; for FauxBenchmark, only if stopped.    *)
ZeroMeansComplete ==
    mainCode = 0 => IF Faux THEN ~runEvent ELSE proc = "exited" /\ status = 0

(* After the "end" files are complete no thread changes any file: what     *)
(* graphs and _clean_redis_collection read is what the run leaves behind,  *)
(* although the output thread still runs.                                  *)
FrozenAfterEnd ==
    [][(mainPc \in {"post", "done"}) => UNCHANGED <<files, list>>]_vars

(* The rows' life as CollectionLog describes it. *)
LogStatus ==
    [k \in Hooks \X Rows |->
        LET h == k[1]
            r == k[2]
        IN CASE r \in Filed(h) -> "stored"
             [] r \notin captured[h] -> "absent"
             [] r \in ring[h] \cup list[h] \cup tabs["main"][h]
                        \cup tabs["output"][h] -> "captured"
             [] OTHER -> "lost"]

Log == INSTANCE CollectionLog
           WITH status <- LogStatus, open <- mainPc \notin {"post", "done"}

(* A collection run implements the abstract log: a row is filed at most    *)
(* once, what is filed or lost stays so, and the run ends with no row      *)
(* undecided.                                                              *)
ImplementsLog == Log!LogSpec

(* A stop request (signal or END on stdin) ends the program. *)
StopHonoured == ~runEvent ~> Gone

(* When the benchmark's process has exited, run_collect gets to its end.   *)
(* "polls each hook until the benchmark finishes" and then "drains each    *)
(* hook's buffered tables and writes them to parquet files" (data_         *)
(* collection/README.md:53-54).                                            *)
FinishHonoured == proc = "exited" ~> mainPc = "done"
=============================================================================
