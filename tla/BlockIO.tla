------------------------------ MODULE BlockIO ------------------------------
(***************************************************************************)
(* The block_io hook's kernel side, python/kernmlops/data_collection/      *)
(* bpf_instrumentation/bpf/blk_io.bpf.c: two probes keep the queue length  *)
(* of every device in the BPF map device_queue and remember in             *)
(* started_4k_ios, keyed by device and sector, which requests they have    *)
(* counted.  Probes of different requests run on different CPUs at once; a *)
(* step is one access to a map.  A request is issued before it completes,  *)
(* and its own two probes never overlap.                                   *)
(*                                                                         *)
(* Lengths in 4k blocks and in segments are maintained by the same code;   *)
(* len holds both.                                                         *)
(***************************************************************************)
EXTENDS Integers, FiniteSets, FiniteSetsExt

CONSTANTS
    Devices,
    Requests,      \* block requests; one is reused after it completed
    SectorOf,      \* SectorOf[r]: the sector of request r on its device
    SizeOf,        \* SizeOf[r]: [blocks |-> block_4k_ios(bytes), segments |-> n]
    MaxDevices,    \* capacity of device_queue
    MaxStarted,    \* capacity of started_4k_ios
    MaxLength,     \* bound: no request is issued to a longer queue
    Requeues       \* the driver may hand a request back to be issued again

ASSUME DevicesAssumption == IsFiniteSet(Devices) /\ IsFiniteSet(Requests)
ASSUME SizeAssumption    == SizeOf \in [Requests -> [blocks : Nat, segments : Nat]]
ASSUME CapacityAssumption == {MaxDevices, MaxStarted, MaxLength} \subseteq Nat
ASSUME RequeueAssumption == Requeues \in BOOLEAN

Units == {"blocks", "segments"}

(* idle: not issued.  init ... report: in the issue probe, before the step *)
(* of that name.  inflight: at the driver.  lookup ... sub_segments: in    *)
(* the completion probe.                                                   *)
IssuePcs    == {"init", "mark", "add_blocks", "add_segments",
                "read_blocks", "read_segments"}
CompletePcs == {"queue", "lookup", "delete", "sub_blocks", "sub_segments"}
Pcs         == {"idle", "inflight"} \cup IssuePcs \cup CompletePcs

VARIABLES
    known,    \* keys of device_queue
    len,      \* its values: len[d][u], queue_length_4ks and _segments
    started,  \* keys of started_4k_ios
    pc,       \* pc[r]: where request r is
    dev,      \* dev[r]: the device of request r
    seen,     \* requests at or before the driver that the issue probe counts
              \* (history)
    disturbed, \* a request was requeued or did not fit in started_4k_ios
              \* (history)
    reported  \* reported[r]: the queue lengths in the event of r's issue while
              \* r is at the driver, then Zero

vars == <<known, len, started, pc, dev, seen, disturbed, reported>>

Zero == [u \in Units |-> 0]

Key(r) == <<dev[r], SectorOf[r]>>

TypeOK ==
    /\ known \subseteq Devices
    /\ len \in [Devices -> [Units -> Int]]
    /\ started \subseteq Devices \X {SectorOf[r] : r \in Requests}
    /\ Cardinality(started) <= MaxStarted
    /\ Cardinality(known) <= MaxDevices
    /\ pc \in [Requests -> Pcs]
    /\ dev \in [Requests -> Devices]
    /\ seen \subseteq Requests
    /\ disturbed \in BOOLEAN
    /\ reported \in [Requests -> [Units -> Int]]

(* Requests may be at the driver when the program is loaded. *)
Init ==
    /\ known = {} /\ len = [d \in Devices |-> Zero] /\ started = {}
    /\ pc \in [Requests -> {"idle", "inflight"}]
    /\ dev \in [Requests -> Devices]
    /\ seen = {} /\ disturbed = FALSE
    /\ reported = [r \in Requests |-> Zero]

Goto(r, from, to) == pc[r] = from /\ pc' = [pc EXCEPT ![r] = to]

Add(r, u, n) == len' = [len EXCEPT ![dev[r]][u] = @ + n]

-----------------------------------------------------------------------------
(* block_rq_issue                                                          *)

(* The block layer issues a request to a device, or again after a requeue. *)
Issue(r) ==
    /\ \/ /\ Goto(r, "idle", "init")
          /\ \E d \in Devices : dev' = [dev EXCEPT ![r] = d]
          /\ UNCHANGED disturbed
       \/ /\ Requeues
          /\ Goto(r, "inflight", "init")
          /\ disturbed' = TRUE
          /\ UNCHANGED dev
    /\ len[dev'[r]].blocks <= MaxLength
    /\ UNCHANGED <<known, len, started, seen, reported>>

(* device_queue.lookup_or_try_init: no entry if the map is full, and then  *)
(* the probe ends.                                                         *)
InitQueue(r) ==
    /\ \/ /\ dev[r] \in known \/ Cardinality(known) < MaxDevices
          /\ known' = known \cup {dev[r]}
          /\ seen' = seen \cup {r}
          /\ Goto(r, "init", "mark")
       \/ /\ dev[r] \notin known /\ Cardinality(known) >= MaxDevices
          /\ Goto(r, "init", "inflight")
          /\ UNCHANGED <<known, seen>>
    /\ UNCHANGED <<len, started, reported, dev, disturbed>>

(* started_4k_ios.update, whose failure on a full map is not noticed. *)
Mark(r) ==
    /\ Goto(r, "mark", "add_blocks")
    /\ \/ /\ Cardinality(started \cup {Key(r)}) <= MaxStarted
          /\ started' = started \cup {Key(r)}
          /\ UNCHANGED disturbed
       \/ /\ Cardinality(started \cup {Key(r)}) > MaxStarted
          /\ disturbed' = TRUE
          /\ UNCHANGED started
    /\ UNCHANGED <<known, len, dev, seen, reported>>

AddBlocks(r) ==
    /\ Goto(r, "add_blocks", "add_segments")
    /\ Add(r, "blocks", SizeOf[r].blocks)
    /\ UNCHANGED <<known, started, seen, reported, dev, disturbed>>

AddSegments(r) ==
    /\ Goto(r, "add_segments", "read_blocks")
    /\ Add(r, "segments", SizeOf[r].segments)
    /\ UNCHANGED <<known, started, seen, reported, dev, disturbed>>

ReadBlocks(r) ==
    /\ Goto(r, "read_blocks", "read_segments")
    /\ reported' = [reported EXCEPT ![r].blocks = len[dev[r]].blocks]
    /\ UNCHANGED <<known, len, started, seen, dev, disturbed>>

(* Then the event is submitted and the driver gets the request. *)
ReadSegments(r) ==
    /\ Goto(r, "read_segments", "inflight")
    /\ reported' = [reported EXCEPT ![r].segments = len[dev[r]].segments]
    /\ UNCHANGED <<known, len, started, seen, dev, disturbed>>

-----------------------------------------------------------------------------
(* block_rq_complete                                                       *)

(* The request completes; its event is submitted before anything else. *)
Complete(r) ==
    /\ Goto(r, "inflight", "queue")
    /\ reported' = [reported EXCEPT ![r] = Zero]
    /\ UNCHANGED <<known, len, started, seen, dev, disturbed>>

FindQueue(r) ==
    /\ Goto(r, "queue", IF dev[r] \in known THEN "lookup" ELSE "idle")
    /\ seen' = IF dev[r] \in known THEN seen ELSE seen \ {r}
    /\ UNCHANGED <<known, len, started, reported, dev, disturbed>>

(* Mutant: every completed request is subtracted, tracked or not. *)
LookupAlways(r) ==
    /\ Goto(r, "lookup", "delete")
    /\ UNCHANGED <<known, len, started, seen, reported, dev, disturbed>>

Lookup(r) ==
    /\ Goto(r, "lookup", IF Key(r) \in started THEN "delete" ELSE "idle")
    /\ seen' = IF Key(r) \in started THEN seen ELSE seen \ {r}
    /\ UNCHANGED <<known, len, started, reported, dev, disturbed>>

Delete(r) ==
    /\ Goto(r, "delete", "sub_blocks")
    /\ started' = started \ {Key(r)}
    /\ UNCHANGED <<known, len, seen, reported, dev, disturbed>>

SubBlocks(r) ==
    /\ Goto(r, "sub_blocks", "sub_segments")
    /\ Add(r, "blocks", -SizeOf[r].blocks)
    /\ UNCHANGED <<known, started, seen, reported, dev, disturbed>>

(* Mutant: the segments are added again. *)
SubSegmentsAdds(r) ==
    /\ Goto(r, "sub_segments", "idle")
    /\ Add(r, "segments", SizeOf[r].segments)
    /\ seen' = seen \ {r}
    /\ UNCHANGED <<known, started, reported, dev, disturbed>>

SubSegments(r) ==
    /\ Goto(r, "sub_segments", "idle")
    /\ Add(r, "segments", -SizeOf[r].segments)
    /\ seen' = seen \ {r}
    /\ UNCHANGED <<known, started, reported, dev, disturbed>>

IssueProbe(r) == \/ Issue(r) \/ InitQueue(r) \/ Mark(r) \/ AddBlocks(r)
                 \/ AddSegments(r) \/ ReadBlocks(r) \/ ReadSegments(r)

CompleteProbe(r) == \/ Complete(r) \/ FindQueue(r) \/ Lookup(r) \/ Delete(r)
                    \/ SubBlocks(r) \/ SubSegments(r)

Next == \E r \in Requests : IssueProbe(r) \/ CompleteProbe(r)

Spec == Init /\ [][Next]_vars

-----------------------------------------------------------------------------
(* Properties                                                              *)

(* Requests of device d that are in the queue length in unit u. *)
Outstanding(d, u) ==
    {r \in seen : /\ dev[r] = d
                  /\ pc[r] \notin {"mark", "add_blocks", "sub_segments"}
                  /\ u = "segments" => pc[r] # "add_segments"}
    \cup {r \in seen : dev[r] = d /\ u = "segments" /\ pc[r] = "sub_segments"}

Total(S, u) == MapThenSumSet(LAMBDA r : SizeOf[r][u], S)

(* No two requests are ever at the same sector of a device.  The code      *)
(* tells requests apart by device and sector, so the properties need it.   *)
OwnSectors == \A r, q \in Requests : SectorOf[r] = SectorOf[q] => r = q

(* Until a request is requeued or does not fit in started_4k_ios, a queue  *)
(* length is exactly the sum of the requests that were issued since the    *)
(* program was loaded and have not completed: probes on other CPUs,        *)
(* requests that were at the driver before, and devices that do not fit in *)
(* device_queue do not disturb it.                                         *)
LengthsExact ==
    ~disturbed => \A d \in Devices, u \in Units : len[d][u] = Total(Outstanding(d, u), u)

(* Whatever is requeued or does not fit in started_4k_ios, a queue length  *)
(* is never less than that sum, hence never negative.                      *)
NeverUnderstated ==
    \A d \in Devices, u \in Units : len[d][u] >= Total(Outstanding(d, u), u)

(* The lengths of a block_io_starts event include the request itself,      *)
(* although they are read after the additions and other CPUs work on the   *)
(* same entry in between ("may be noisy").                                 *)
ReportedIncludesOwn ==
    \A r \in seen : pc[r] = "inflight" =>
        \A u \in Units : reported[r][u] >= SizeOf[r][u]

(* "ensure that the finished block io was tracked when it was inserted"    *)
(* (blk_io.bpf.c:161): only a request that its own issue probe has added   *)
(* is subtracted.                                                          *)
SubtractsOnlyTracked ==
    \A r \in Requests : pc[r] \in {"delete", "sub_blocks", "sub_segments"} => r \in seen
=============================================================================
