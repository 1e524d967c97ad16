------------------------------ MODULE MCFStore ------------------------------
(* Small instances of FStore for TLC. *)
EXTENDS FStore, TLC

CONSTANTS a, b, c, m1, m2

\* Names a and b hash to one bucket.
MCBucket == a :> 1 @@ b :> 1 @@ c :> 2

MCMaps == {m1, m2}
MCNames == {a, b, c}
TwoNames == {a, b}
MCBucket2 == a :> 1 @@ b :> 1

Everything == AllOps
Unmapped == AllOps \ {"mapped"}
=============================================================================
