---------------------------- MODULE RemoteRunner ----------------------------
(***************************************************************************)
(* benchmark/zswap/remote_runner.py: experiments on a remote machine over  *)
(* ssh.  The runner changes boot options and cgroup limits, reboots the    *)
(* machine, starts a script in a tmux session, polls for the marker file   *)
(* of its end, and fetches the result directory.  The machine, the script  *)
(* and the network go their own way meanwhile, and the operator may start  *)
(* the runner again after it has given up.                                 *)
(***************************************************************************)
EXTENDS Integers, Sequences, SequencesExt

CONSTANTS
    Invocations,  \* the experiments the operator starts one after the other
    Values,       \* values of a varied parameter
    Iterations,   \* iterations of a value
    MaxOutages    \* bound: moments without a network

Experiments == {"A", "B", "C", "D", "E", "F", "G", "H", "I", "J", "K"}

ASSUME RemoteAssumption ==
    /\ Invocations \subseteq Seq(Experiments)
    /\ Values \in Nat \ {0} /\ Iterations \in Nat \ {0} /\ MaxOutages \in Nat

VARIABLES
    asked,      \* the experiments of this and the later invocations
    xpc,       \* where the runner is
    steps,     \* what is left of the experiment
    machine,   \* "up", "closing" (shutting down, ssh still answers), "down"
    modules,   \* modules in the initramfs
    grub,      \* the boot options configured
    booted,    \* the boot options in effect
    limits,    \* the memory limits of the cgroup
    writeback, \* zswap writeback of the cgroup is on
    script,    \* the script in the tmux session
    markers,   \* the marker files in /tmp
    runDirs,   \* the result directories of the machine
    fetched,   \* the result directories of the operator
    outages,   \* moments without a network so far
    doubt      \* the last reboot had not happened when the runner took it for done,
               \* or another script ran when this run began (history)

remoteVars == <<asked, xpc, steps, machine, modules, grub, booted, limits, writeback,
                script, markers, runDirs, fetched, outages, doubt>>

NoOptions == [exp |-> "none", val |-> 0]
NoScript  == [at |-> "none"]
Unset     == [exp |-> "unset", val |-> 0]

RemoteIdle ==
    /\ steps = <<>> /\ machine = "up" /\ modules = {} /\ grub = NoOptions
    /\ booted = NoOptions /\ limits = Unset /\ writeback = TRUE /\ script = NoScript
    /\ markers = {} /\ runDirs = <<>> /\ fetched = <<>> /\ outages = 0 /\ doubt = FALSE

RemoteInit == asked \in Invocations /\ xpc = "stopped" /\ RemoteIdle

-----------------------------------------------------------------------------
(* The steps of each experiment.                                           *)

Do(op, e, v, j) == [op |-> op, exp |-> e, val |-> v, run |-> j]

RunAndSync(e, v, j) ==
    <<Do("limits", e, v, j), Do("start", e, v, j), Do("sync", e, v, j)>>
Reboot == <<Do("reboot", "none", 0, 0)>>
UnlessLast(j) == IF j < Iterations THEN Reboot ELSE <<>>

ForEach(n, body(_)) == FlattenSeq([i \in 1..n |-> body(i)])

RunA == ForEach(Iterations, LAMBDA j : RunAndSync("A", 1, j) \o UnlessLast(j))

RunB == ForEach(Values, LAMBDA v :
            ForEach(Iterations, LAMBDA j : RunAndSync("B", v, j) \o Reboot))

VaryGrub(e, v) ==
    <<Do("grub", e, v, 0)>>
        \o ForEach(Iterations, LAMBDA j : Reboot \o RunAndSync(e, v, j))
VaryModule(e, v) == <<Do("module", e, v, 0)>> \o VaryGrub(e, v)

RunC == ForEach(Values, LAMBDA v : VaryGrub("C", v))
RunD == ForEach(Values, LAMBDA v : VaryGrub("D", v))
RunE == ForEach(Values, LAMBDA v : VaryModule("E", v))
RunF == ForEach(Values, LAMBDA v : VaryModule("F", v))
RunG == VaryGrub("G", 1)
RunH == VaryGrub("H", 1)
RunI == VaryGrub("I", 1)
RunJ == VaryGrub("J", 1)

RunK == ForEach(Iterations, LAMBDA j :
            <<Do("limits", "K", 1, j), Do("writeback", "K", 1, j),
              Do("start", "K", 1, j), Do("sync", "K", 1, j)>> \o UnlessLast(j))

StepsOf == [A |-> RunA, B |-> RunB, C |-> RunC, D |-> RunD, E |-> RunE, F |-> RunF,
            G |-> RunG, H |-> RunH, I |-> RunI, J |-> RunJ, K |-> RunK]

Dir(s)     == [exp |-> s.exp, val |-> s.val, run |-> s.run]
Options(s) == [exp |-> s.exp, val |-> s.val]
LimitsOf(s) == IF s.exp = "B" THEN Options(s) ELSE [exp |-> "default", val |-> 0]

-----------------------------------------------------------------------------
(* The runner.  A command that fails, or whose connection breaks, ends it: *)
(* RunnerDies.                                                             *)

Answers == machine \in {"up", "closing"}

(* main(): the results of the machine are removed.                         *)
SetupExperiments ==
    /\ xpc = "stopped" /\ asked # <<>> /\ Answers
    /\ runDirs' = <<>> /\ steps' = StepsOf[Head(asked)] /\ asked' = Tail(asked)
    /\ xpc' = "next" /\ doubt' = (machine = "closing")
    /\ UNCHANGED <<machine, modules, grub, booted, limits, writeback, script, markers,
                   fetched, outages>>

At(op) == xpc = "next" /\ steps # <<>> /\ Head(steps).op = op /\ Answers
Done   == steps' = Tail(steps) /\ UNCHANGED xpc

ConfigureGrub ==
    /\ At("grub") /\ Done /\ grub' = Options(Head(steps))
    /\ UNCHANGED <<asked, machine, modules, booted, limits, writeback, script, markers,
                   runDirs, fetched, outages, doubt>>

InsertModule ==
    /\ At("module") /\ Done /\ modules' = modules \cup {Options(Head(steps))}
    /\ UNCHANGED <<asked, machine, grub, booted, limits, writeback, script, markers,
                   runDirs, fetched, outages, doubt>>

(* The cgroup is made when it does not exist; its writeback stays.         *)
ConfigureCgroupMemory ==
    /\ At("limits") /\ Done /\ limits' = LimitsOf(Head(steps))
    /\ UNCHANGED <<asked, machine, modules, grub, booted, writeback, script, markers,
                   runDirs, fetched, outages, doubt>>

WritebackOff ==
    /\ At("writeback") /\ Done /\ limits # Unset /\ writeback' = FALSE
    /\ UNCHANGED <<asked, machine, modules, grub, booted, limits, script, markers,
                   runDirs, fetched, outages, doubt>>

NoResult == [boot |-> NoOptions, limits |-> Unset, whole |-> FALSE]

MakeDir == runDirs' = IF Dir(Head(steps)) \in DOMAIN runDirs THEN runDirs
                      ELSE [d \in DOMAIN runDirs \cup {Dir(Head(steps))} |->
                              IF d \in DOMAIN runDirs THEN runDirs[d] ELSE NoResult]

(* Mutant: the markers of the run before stay. *)
CleanMarkersNot ==
    /\ At("start") /\ xpc' = "tmux" /\ MakeDir
    /\ doubt' = (doubt \/ script # NoScript)
    /\ UNCHANGED <<asked, steps, machine, modules, grub, booted, limits, writeback,
                   script, markers, fetched, outages>>

CleanMarkers ==
    /\ At("start") /\ xpc' = "tmux" /\ MakeDir /\ markers' = {}
    /\ doubt' = (doubt \/ script # NoScript)
    /\ UNCHANGED <<asked, steps, machine, modules, grub, booted, limits, writeback,
                   script, fetched, outages>>

(* There can be one session of this name.                                  *)
StartTmux ==
    /\ xpc = "tmux" /\ Answers /\ script = NoScript /\ xpc' = "wait"
    /\ script' = [at |-> "parameters", dir |-> Dir(Head(steps))]
    /\ UNCHANGED <<asked, steps, machine, modules, grub, booted, limits, writeback,
                   markers, runDirs, fetched, outages, doubt>>

(* kill-session: its failure is ignored.                                   *)
KillSession == script' \in {script, NoScript}

PollComplete ==
    /\ xpc = "wait" /\ Answers /\ "complete" \in markers
    /\ KillSession /\ steps' = Tail(steps) /\ xpc' = "next"
    /\ UNCHANGED <<asked, machine, modules, grub, booted, limits, writeback, markers,
                   runDirs, fetched, outages, doubt>>

(* The marker of a failure, or exp_timeout: sys.exit(1).                   *)
PollFails ==
    /\ xpc = "wait" /\ KillSession /\ steps' = <<>> /\ xpc' = "stopped"
    /\ UNCHANGED <<asked, machine, modules, grub, booted, limits, writeback, markers,
                   runDirs, fetched, outages, doubt>>

SyncResults ==
    /\ At("sync") /\ Done
    /\ LET new == Dir(Head(steps)) IN
       /\ new \in DOMAIN runDirs
       /\ fetched' = [d \in DOMAIN fetched \cup {new} |->
                        IF d = new THEN [got |-> runDirs[new], doubt |-> doubt,
                                         writeback |-> writeback]
                        ELSE fetched[d]]
    /\ UNCHANGED <<asked, machine, modules, grub, booted, limits, writeback, script,
                   markers, runDirs, outages, doubt>>

(* reboot_and_wait(): whatever becomes of the command is ignored.          *)
RebootIssued ==
    /\ At("reboot") /\ machine' = "closing" /\ xpc' = "closing" /\ doubt' = FALSE
    /\ UNCHANGED <<asked, steps, modules, grub, booted, limits, writeback, script,
                   markers, runDirs, fetched, outages>>

Outage == outages < MaxOutages /\ outages' = outages + 1

RebootLost ==
    /\ xpc = "next" /\ steps # <<>> /\ Head(steps).op = "reboot"
    /\ Outage /\ xpc' = "closing" /\ doubt' = TRUE
    /\ UNCHANGED <<asked, steps, machine, modules, grub, booted, limits, writeback,
                   script, markers, runDirs, fetched>>

(* check_ssh() fails.                                                      *)
SeenDown ==
    /\ xpc = "closing" /\ xpc' = "booting"
    /\ \/ machine = "down" /\ UNCHANGED <<outages, doubt>>
       \/ machine # "down" /\ Outage /\ doubt' = (doubt \/ machine = "closing")
    /\ UNCHANGED <<asked, steps, machine, modules, grub, booted, limits, writeback,
                   script, markers, runDirs, fetched>>

(* Thirty answers: "Continuing anyway".                                    *)
NeverSeenDown ==
    /\ xpc = "closing" /\ Answers /\ xpc' = "booting"
    /\ doubt' = (doubt \/ machine = "closing")
    /\ UNCHANGED <<asked, steps, machine, modules, grub, booted, limits, writeback,
                   script, markers, runDirs, fetched, outages>>

SeenUp ==
    /\ xpc = "booting" /\ Answers /\ xpc' = "next" /\ steps' = Tail(steps)
    /\ UNCHANGED <<asked, machine, modules, grub, booted, limits, writeback, script,
                   markers, runDirs, fetched, outages, doubt>>

(* An exception, an interrupt, or ssh_timeout; or the end of main().       *)
RunnerDies ==
    /\ xpc # "stopped" /\ xpc' = "stopped" /\ steps' = <<>>
    /\ UNCHANGED <<asked, machine, modules, grub, booted, limits, writeback, script,
                   markers, runDirs, fetched, outages, doubt>>

-----------------------------------------------------------------------------
(* The machine and the script.                                             *)

GoDown ==
    /\ machine = "closing" /\ machine' = "down" /\ script' = NoScript
    /\ UNCHANGED <<asked, xpc, steps, modules, grub, booted, limits, writeback, markers,
                   runDirs, fetched, outages, doubt>>

(* zswap falls back to its default when the module is not there.  The      *)
(* cgroup is gone, and /tmp may be cleaned.                                *)
Boot ==
    /\ machine = "down" /\ machine' = "up"
    /\ booted' = IF grub.exp \in {"E", "F"} /\ grub \notin modules THEN NoOptions
                 ELSE grub
    /\ limits' = Unset /\ writeback' = TRUE /\ markers' \in {{}, markers}
    /\ UNCHANGED <<asked, xpc, steps, modules, grub, script, runDirs, fetched, outages,
                   doubt>>

Writes(d, r) == runDirs' = IF d \in DOMAIN runDirs THEN [runDirs EXCEPT ![d] = r]
                           ELSE runDirs
Found == IF script.dir \in DOMAIN runDirs THEN runDirs[script.dir] ELSE NoResult

ScriptParameters ==
    /\ script.at = "parameters" /\ script' = [script EXCEPT !.at = "build"]
    /\ Writes(script.dir, [NoResult EXCEPT !.boot = booted])
    /\ UNCHANGED <<asked, xpc, steps, machine, modules, grub, booted, limits, writeback,
                   markers, fetched, outages, doubt>>

(* setup.sh, and the limits appended.  `set -e` has no effect to the left  *)
(* of `||`: a setup.sh that fails is followed by the rest all the same.    *)
ScriptBuilds ==
    /\ script.at = "build" /\ script' = [script EXCEPT !.at = "touch"]
    /\ Writes(script.dir, [Found EXCEPT !.limits = limits, !.whole = TRUE])
    /\ UNCHANGED <<asked, xpc, steps, machine, modules, grub, booted, limits, writeback,
                   markers, fetched, outages, doubt>>

(* Only a failing touch makes the other marker.                            *)
ScriptEnds ==
    /\ script.at = "touch" /\ script' = NoScript
    /\ \E m \in {"complete", "error"} : markers' = markers \cup {m}
    /\ UNCHANGED <<asked, xpc, steps, machine, modules, grub, booted, limits, writeback,
                   runDirs, fetched, outages, doubt>>

RemoteNext ==
    \/ SetupExperiments \/ ConfigureGrub \/ InsertModule \/ ConfigureCgroupMemory
    \/ WritebackOff \/ CleanMarkers \/ StartTmux \/ PollComplete \/ PollFails
    \/ SyncResults \/ RebootIssued \/ RebootLost \/ SeenDown \/ NeverSeenDown
    \/ SeenUp \/ RunnerDies
    \/ GoDown \/ Boot \/ ScriptParameters \/ ScriptBuilds \/ ScriptEnds

RemoteSpec == RemoteInit /\ [][RemoteNext]_remoteVars

-----------------------------------------------------------------------------
(* A result that is fetched was made by a script that ran to its end under *)
(* the boot options and limits of its label, unless a reboot was lost or   *)
(* took too long, or an earlier script was still running.  A, B and K do   *)
(* not set boot options: theirs are those of the experiment before         *)
(* (remote_runner.py:112-162, 201-270, 369-612).                           *)
ResultsLabelled ==
    \A d \in DOMAIN fetched :
        ~fetched[d].doubt =>
            /\ fetched[d].got.whole
            /\ fetched[d].got.limits = LimitsOf(d)
            /\ d.exp \in {"A", "B", "K"} \/ fetched[d].got.boot = Options(d)
            /\ d.exp = "K" => ~fetched[d].writeback
=============================================================================
