----------------------------- MODULE MCBlockIO -----------------------------
(* Small instances of BlockIO for TLC. *)
EXTENDS BlockIO, TLC

\* Every request has a sector of its own, and a length that tells the two
\* units apart: requests and devices are interchangeable.
OwnSector == [r \in Requests |-> r]
Alike     == [r \in Requests |-> [blocks |-> 1, segments |-> 2]]

MCSymmetry == Permutations(Requests) \cup Permutations(Devices)
=============================================================================
