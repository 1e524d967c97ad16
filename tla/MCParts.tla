------------------------------ MODULE MCParts ------------------------------
(***************************************************************************)
(* The programs and hooks that share no state with each other, checked     *)
(* side by side: every behaviour is one of ReplaySpec, TrackerSpec,        *)
(* CompactionSpec, SamplersSpec, PopsSpec, HarnessSpec, RemoteSpec,        *)
(* CleanSpec, AnalysisSpec or PerfSpec, with the variables of the others   *)
(* at rest.                                                                *)
(***************************************************************************)
EXTENDS ReplayTrace, IdleTracker, CompactionCollect, ProcSamplers, HookPops,
        ThpHarness, RemoteRunner, RedisClean, CompactionAnalysis, PerfCounters

MCKeyOrder == <<"user1", "user2">>
MCTrace    == <<"user1", "other", "user2", "blank", "user1">>
MCSettings == <<"enabled", "defrag", "ksm">>

MCBmOrder == <<"redis", "gap">>
MCOldDirs == [b \in {"redis", "gap"} |-> IF b = "redis" THEN 1 ELSE 0]

MCKinds == {"redis", "mongodb", "memcached", "gap", "linux_build", "linnos", "faux"}

MCOrders ==
    {<<"file_data", "quanta_runtime">>, <<"process_metadata">>,
     <<"quanta_runtime", "perf">>, <<"memory_usage", "perf">>,
     <<"block_io", "zswap_runtime">>, <<"collapse_huge_pages", "zswap_runtime">>,
     <<"cbmm", "madvise">>, <<"unmap_range", "mm_rss_stat">>,
     <<"process_trace", "zswap_runtime">>, <<"vmstat_harness", "proc_maps">>,
     <<"thp_intervention", "smaps_hook">>, <<"thp_trace", "zswap_runtime">>}

MCInvocations ==
    {<<"G", "A">>, <<"B">>, <<"C">>, <<"D">>, <<"E">>, <<"F">>, <<"H">>,
     <<"I">>, <<"J">>, <<"K", "A">>}

ReplayAtRest     == rpc = "off" /\ ReplayIdle /\ combos = <<>>
TrackerAtRest    == tpc = "off" /\ TrackerIdle
CompactionAtRest == cpc = "off" /\ CompactionIdle
SamplersAtRest   == /\ mainAt = "off" /\ BenchmarkIdle /\ kind = "faux" /\ port = "free"
                    /\ hooks = {} /\ SamplersIdle
PopsAtRest       == order = <<>> /\ turn = -1 /\ open = {} /\ PopsIdle
HarnessAtRest    == hpc = "off" /\ HarnessIdle
RemoteAtRest     == xpc = "stopped" /\ asked = <<>> /\ RemoteIdle
CleanAtRest      == rcAt = "off" /\ traced = FALSE /\ CleanIdle
AnalysisAtRest   == apc = "off" /\ part = 0 /\ AnalysisIdle
PerfAtRest       == pat = "off" /\ PerfIdle

PartsInit ==
    \/ ReplayInit /\ TrackerAtRest /\ CompactionAtRest /\ SamplersAtRest
       /\ PopsAtRest /\ HarnessAtRest /\ RemoteAtRest
       /\ CleanAtRest /\ AnalysisAtRest /\ PerfAtRest
    \/ TrackerInit /\ ReplayAtRest /\ CompactionAtRest /\ SamplersAtRest
       /\ PopsAtRest /\ HarnessAtRest /\ RemoteAtRest
       /\ CleanAtRest /\ AnalysisAtRest /\ PerfAtRest
    \/ CompactionInit /\ ReplayAtRest /\ TrackerAtRest /\ SamplersAtRest
       /\ PopsAtRest /\ HarnessAtRest /\ RemoteAtRest
       /\ CleanAtRest /\ AnalysisAtRest /\ PerfAtRest
    \/ SamplersInit /\ ReplayAtRest /\ TrackerAtRest /\ CompactionAtRest
       /\ PopsAtRest /\ HarnessAtRest /\ RemoteAtRest
       /\ CleanAtRest /\ AnalysisAtRest /\ PerfAtRest
    \/ PopsInit /\ ReplayAtRest /\ TrackerAtRest /\ CompactionAtRest
       /\ SamplersAtRest /\ HarnessAtRest /\ RemoteAtRest
       /\ CleanAtRest /\ AnalysisAtRest /\ PerfAtRest
    \/ HarnessInit /\ ReplayAtRest /\ TrackerAtRest /\ CompactionAtRest
       /\ SamplersAtRest /\ PopsAtRest /\ RemoteAtRest
       /\ CleanAtRest /\ AnalysisAtRest /\ PerfAtRest
    \/ RemoteInit /\ ReplayAtRest /\ TrackerAtRest /\ CompactionAtRest
       /\ SamplersAtRest /\ PopsAtRest /\ HarnessAtRest
       /\ CleanAtRest /\ AnalysisAtRest /\ PerfAtRest
    \/ CleanInit /\ ReplayAtRest /\ TrackerAtRest /\ CompactionAtRest
       /\ SamplersAtRest /\ PopsAtRest /\ HarnessAtRest
       /\ RemoteAtRest /\ AnalysisAtRest /\ PerfAtRest
    \/ AnalysisInit /\ ReplayAtRest /\ TrackerAtRest /\ CompactionAtRest
       /\ SamplersAtRest /\ PopsAtRest /\ HarnessAtRest
       /\ RemoteAtRest /\ CleanAtRest /\ PerfAtRest
    \/ PerfInit /\ ReplayAtRest /\ TrackerAtRest /\ CompactionAtRest
       /\ SamplersAtRest /\ PopsAtRest /\ HarnessAtRest
       /\ RemoteAtRest /\ CleanAtRest /\ AnalysisAtRest

PartsNext ==
    \/ ReplayNext /\ UNCHANGED <<idleVars, compactionVars, samplerVars, popVars,
                                  harnessVars, remoteVars, cleanVars, analysisVars,
                                  perfVars>>
    \/ TrackerNext /\ UNCHANGED <<replayVars, compactionVars, samplerVars, popVars,
                                   harnessVars, remoteVars, cleanVars, analysisVars,
                                   perfVars>>
    \/ CompactionNext /\ UNCHANGED <<replayVars, idleVars, samplerVars, popVars,
                                      harnessVars, remoteVars, cleanVars, analysisVars,
                                      perfVars>>
    \/ SamplersNext /\ UNCHANGED <<replayVars, idleVars, compactionVars, popVars,
                                    harnessVars, remoteVars, cleanVars, analysisVars,
                                    perfVars>>
    \/ PopsNext /\ UNCHANGED <<replayVars, idleVars, compactionVars, samplerVars,
                                harnessVars, remoteVars, cleanVars, analysisVars,
                                perfVars>>
    \/ HarnessNext /\ UNCHANGED <<replayVars, idleVars, compactionVars, samplerVars,
                                   popVars, remoteVars, cleanVars, analysisVars,
                                   perfVars>>
    \/ RemoteNext /\ UNCHANGED <<replayVars, idleVars, compactionVars, samplerVars,
                                  popVars, harnessVars, cleanVars, analysisVars,
                                  perfVars>>
    \/ CleanNext /\ UNCHANGED <<replayVars, idleVars, compactionVars, samplerVars,
                                 popVars, harnessVars, remoteVars, analysisVars,
                                 perfVars>>
    \/ AnalysisNext /\ UNCHANGED <<replayVars, idleVars, compactionVars, samplerVars,
                                    popVars, harnessVars, remoteVars, cleanVars,
                                    perfVars>>
    \/ PerfNext /\ UNCHANGED <<replayVars, idleVars, compactionVars, samplerVars, popVars,
                                harnessVars, remoteVars, cleanVars, analysisVars>>

partsVars == <<replayVars, idleVars, compactionVars, samplerVars, popVars, harnessVars,
               remoteVars, cleanVars, analysisVars, perfVars>>

PartsSpec == PartsInit /\ [][PartsNext]_partsVars /\ ReplayFairness
=============================================================================
