---------------------------- MODULE MCVaptrHook ----------------------------
(* Small instances of VaptrHook for TLC. *)
EXTENDS VaptrHook, TLC

MCSymmetry == Permutations(Pids) \cup Permutations(Keys)
=============================================================================
