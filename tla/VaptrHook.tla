------------------------------ MODULE VaptrHook ------------------------------
(***************************************************************************)
(* VAPtrHook of python/kernmlops/data_collection/bpf_instrumentation/      *)
(* vaptr_hook.py: in every poll it first reads whether the pages it armed  *)
(* in the poll before were accessed, then asks redis-server (the program   *)
(* of PageAccess) for the addresses of its keys, resolves their pages and  *)
(* arms them.  A command to redis-server is a step, and so is a read of    *)
(* pagemap or of kpageflags, reading the idle bits of all samples, and     *)
(* setting them; the server and the kernel go on in between.               *)
(***************************************************************************)
EXTENDS PageAccess

CONSTANTS
    Keys,        \* redis keys that match user*
    NumKeys,     \* num_keys: how many of them are sampled
    Configured   \* key_names as configured; empty to discover them

ASSUME KeysAssumption == IsFiniteSet(Keys) /\ Configured \subseteq Keys
ASSUME NumKeysAssumption == NumKeys \in Nat

VARIABLES
    place,     \* place[k]: the page of key k's value; None if there is no key k
    keyNames,  \* key_names
    redisPid,  \* redis_pid, or None
    pending,   \* pending_samples: page and frames of every key, or NoSamples
    had,       \* had_pending_samples
    raw,       \* raw_samples, then the samples poll() is preparing
    todo,      \* keys whose page resolve_many has still to resolve
    attempt,   \* resolve_many calls made in this poll
    rows,      \* rows the last step appended to samples (history)
    pc         \* where poll() is

hookVars == <<keyNames, redisPid, pending, had, raw, todo, attempt, rows, pc>>
vars     == <<memoryVars, place, hookVars>>

Pcs == {"idle", "discover", "read", "vaptr", "pid", "resolve", "arm"}

NoPage    == [mapped |-> None, tracking |-> None]
NoSamples == [k \in {} |-> NoPage]

Sample == [page : VPages \cup {None}, at : [mapped : PFNs \cup {None},
                                            tracking : PFNs \cup {None}]]
Samples == UNION {[K -> Sample] : K \in SUBSET Keys}

Row == [key : Keys, page : VPages \cup {None}, valid : BOOLEAN, accessed : BOOLEAN]

TypeOK ==
    /\ MemoryTypeOK
    /\ place \in [Keys -> VPages \cup {None}]
    /\ keyNames \subseteq Keys
    /\ redisPid \in Pids \cup {None}
    /\ pending \in Samples /\ raw \in Samples
    /\ todo \subseteq Keys /\ had \in BOOLEAN /\ attempt \in 0..2
    /\ rows \subseteq Row
    /\ pc \in Pcs

Init ==
    /\ MemoryInit
    /\ place = [k \in Keys |-> None]
    /\ keyNames = Configured
    /\ redisPid = None
    /\ pending = NoSamples /\ had = FALSE /\ raw = NoSamples
    /\ todo = {} /\ attempt = 0 /\ rows = {} /\ pc = "idle"

-----------------------------------------------------------------------------
(* redis-server stores key k, or stores it again elsewhere, or deletes it. *)
Place(k, v) ==
    /\ server # None /\ place[k] # v
    /\ place' = [place EXCEPT ![k] = v]
    /\ UNCHANGED <<memoryVars, hookVars>>

(* The kernel and the process; the values go with the process. *)
Environment ==
    /\ Kernel
    /\ place' = IF server' = None THEN [k \in Keys |-> None] ELSE place
    /\ UNCHANGED hookVars

-----------------------------------------------------------------------------
(* poll()                                                                  *)

Goto(from, to) == pc = from /\ pc' = to

(* Mutant: the pages are armed again before they are read. *)
BeginArms ==
    /\ Goto("idle", IF keyNames = {} THEN "discover" ELSE "read")
    /\ rows' = {}
    /\ idle' = idle \cup (Used \cap {pending[k].at.tracking : k \in DOMAIN pending})
    /\ UNCHANGED <<server, starts, pid, frame, huge, trackerVars, historyVars,
                   place, keyNames, redisPid, pending, had, raw, todo, attempt>>

Begin ==
    /\ Goto("idle", IF keyNames = {} THEN "discover" ELSE "read")
    /\ rows' = {}
    /\ UNCHANGED <<memoryVars, place, keyNames, redisPid, pending, had, raw,
                   todo, attempt>>

(* _discover_keys: SCAN until num_keys keys are seen or the cursor is 0.   *)
(* A timeout or an error finds nothing.                                    *)
Discover ==
    /\ \/ /\ server # None
          /\ \E K \in SUBSET {k \in Keys : place[k] # None} :
                /\ K # {} /\ Cardinality(K) <= NumKeys
                /\ Cardinality(K) < NumKeys =>
                       K = {k \in Keys : place[k] # None}
                /\ keyNames' = K
          /\ Goto("discover", "read")
       \/ Goto("discover", "idle") /\ UNCHANGED keyNames
    /\ UNCHANGED <<memoryVars, place, redisPid, pending, had, raw, todo,
                   attempt, rows>>

(* _append_sample_row, with the result _result_from_resolved gives: a page  *)
(* whose frame was not armed has none.                                     *)
RowOf(k, v, at) == [key |-> k, page |-> v, valid |-> Valid(at),
                    accessed |-> Valid(at) /\ at.tracking \notin idle]

RowsOf(samples) ==
    {RowOf(k, samples[k].page, samples[k].at) : k \in DOMAIN samples}

(* _record_pending_samples; then pending_samples is cleared. *)
Record ==
    /\ Goto("read", "vaptr")
    /\ rows' = RowsOf(pending)
    /\ had' = (pending # NoSamples)
    /\ pending' = NoSamples
    /\ UNCHANGED <<memoryVars, place, keyNames, redisPid, raw, todo, attempt>>

(* Keys with an address. *)
Available(samples) == {k \in DOMAIN samples : samples[k].page # None}

(* _run_vaptr and _parse_vaptr_output: a page or "n/a" for every key; the  *)
(* poll ends if the command times out or fails.                            *)
RunVaptr ==
    /\ rows' = {}
    /\ \/ /\ server # None
          /\ raw' = [k \in keyNames |-> [page |-> place[k], at |-> NoPage]]
          /\ todo' = Available(raw') /\ attempt' = 0
          /\ moved' = {}
          /\ Goto("vaptr", IF todo' = {} THEN "arm" ELSE "pid")
          /\ UNCHANGED had
       \/ /\ Goto("vaptr", "idle")
          /\ had' = FALSE
          /\ UNCHANGED <<raw, todo, attempt, moved>>
    /\ UNCHANGED <<kernelVars, trackerVars, hit, place, keyNames, redisPid, pending>>

(* _invalidate_redis_pid *)
Invalidate == /\ redisPid' = None
              /\ IF redisPid = None THEN UNCHANGED pagemap
                                    ELSE InvalidatePid(redisPid)

(* _get_redis_pid: the cached pid while it exists, else INFO server, which *)
(* may fail.                                                               *)
GetPid ==
    /\ pc = "pid"
    /\ \/ /\ redisPid # None /\ PidAlive(redisPid)
          /\ pc' = "resolve"
          /\ UNCHANGED <<redisPid, pagemap, todo>>
       \/ /\ redisPid = None \/ ~PidAlive(redisPid)
          /\ IF redisPid = None THEN UNCHANGED pagemap ELSE InvalidatePid(redisPid)
          /\ \/ server # None /\ redisPid' = pid /\ pc' = "resolve" /\ UNCHANGED todo
             \/ redisPid' = None /\ pc' = "arm" /\ todo' = {}
    /\ UNCHANGED <<kernelVars, armed, historyVars, place, keyNames, pending,
                   had, raw, attempt, rows>>

(* resolve_many reads pagemap and then kpageflags, one key at a time. *)
Halfway(k) == k \in todo /\ raw[k].at.mapped # None

ReadPagemap(k) ==
    /\ k \in todo /\ CanResolve(redisPid)
    /\ pagemap' = [pagemap EXCEPT ![redisPid] = OpenPagemap(redisPid)]
    /\ LET f == frame[raw[k].page]
       IN  /\ raw' = [raw EXCEPT ![k].at.mapped = f]
           /\ todo' = IF f = None THEN todo \ {k} ELSE todo
    /\ pc' = IF todo' = {} THEN "arm" ELSE "resolve"
    /\ UNCHANGED <<redisPid, attempt>>

ReadFlags(k) ==
    /\ raw' = [raw EXCEPT ![k].at.tracking = TrackingPfn(raw[k].at.mapped)]
    /\ todo' = todo \ {k}
    /\ pc' = IF todo' = {} THEN "arm" ELSE "resolve"
    /\ UNCHANGED <<pagemap, redisPid, attempt>>

(* resolve_many raises OSError or ProcessLookupError: once more with the   *)
(* pid that is found then, and after that no page is resolved.             *)
ResolveFails ==
    /\ ~CanResolve(redisPid)
    /\ Invalidate
    /\ raw' = [k \in DOMAIN raw |-> [raw[k] EXCEPT !.at = NoPage]]
    /\ attempt' = attempt + 1
    /\ IF attempt = 0 THEN pc' = "pid" /\ todo' = Available(raw)
                      ELSE pc' = "arm" /\ todo' = {}

Resolve ==
    /\ pc = "resolve"
    /\ IF \E k \in Keys : Halfway(k)
       THEN \E k \in Keys : Halfway(k) /\ ReadFlags(k)
       ELSE (\E k \in Keys : ReadPagemap(k)) \/ ResolveFails
    /\ UNCHANGED <<kernelVars, armed, historyVars, place, keyNames, pending, had, rows>>

(* _arm_pending_samples, after which the samples are pending; without      *)
(* pending samples before, a row without a result is appended as well.     *)
ArmSamples ==
    /\ Goto("arm", "idle")
    /\ Arm({raw[k].at.tracking : k \in DOMAIN raw} \ {None})
    /\ hit' = {}
    /\ pending' = raw /\ raw' = NoSamples
    /\ rows' = IF had THEN {}
               ELSE {[key |-> k, page |-> raw[k].page, valid |-> FALSE,
                      accessed |-> FALSE] : k \in DOMAIN raw}
    /\ had' = FALSE /\ attempt' = 0
    /\ UNCHANGED <<server, starts, pid, frame, huge, pagemap, moved, place,
                   keyNames, redisPid, todo>>

Poll == Begin \/ Discover \/ Record \/ RunVaptr \/ GetPid \/ Resolve \/ ArmSamples

Next == \/ Environment
        \/ \E k \in Keys, v \in VPages \cup {None} : Place(k, v)
        \/ Poll

Spec == Init /\ [][Next]_vars

-----------------------------------------------------------------------------
(* Properties                                                              *)

(* Where a page stood still since the server printed its address. *)
Steady(r) == r.page # None /\ r.page \notin moved

(* The step that reads the armed pages. *)
Reads == pc = "read" /\ pc' = "vaptr"

(* access_bit = False in a row says that the page was not accessed between *)
(* two polls, for every page that stood still: arming comes after reading, *)
(* a tail of a huge page is tracked by its head, and no other page's       *)
(* result is taken for it, whatever the server, compaction and khugepaged  *)
(* do to the other pages.                                                  *)
NoFalseIdle ==
    [][Reads => \A r \in rows' :
          r.valid /\ ~r.accessed /\ Steady(r) => r.page \notin hit]_vars

(* access_bit = True says that the page, or the huge page it is part of,   *)
(* was accessed since, for every page that stood still.                    *)
NoFalseAccess ==
    [][Reads => \A r \in rows' :
          r.valid /\ r.accessed /\ Steady(r) => r.page \in hit]_vars

(* A file is cached only for redis_pid: a new pid never leaves the former  *)
(* server's pagemap open behind it.  And between polls redis_pid has its   *)
(* file, by which a successor under the same pid is told apart.            *)
CacheOnlyCurrent ==
    /\ \A p \in Pids : pagemap[p] # None => p = redisPid
    /\ pc = "idle" /\ redisPid # None => pagemap[redisPid] # None

(* resolve_many fails for good only if redis-server has ended since it     *)
(* printed the addresses (all its pages have moved then): a pid that died  *)
(* or is used again, and a pagemap file cached for a former process, cost  *)
(* one more attempt and no sample.                                         *)
ResolveRecovers ==
    [][pc = "resolve" /\ ResolveFails /\ pc' = "arm" => moved = VPages]_vars
=============================================================================
