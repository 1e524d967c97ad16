---------------------------- MODULE MCCollector ----------------------------
(* Small instances of Collector for TLC. *)
EXTENDS Collector, TLC

MCSymmetry == Permutations(Rows)

\* Where main may be when a stop request arrives.
AnyTime     == MainPcs
NotYet      == {}
AfterRun    == MainPcs \ {"spawn", "start_output", "run"}
=============================================================================
