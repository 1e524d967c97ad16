---------------------------- MODULE Breakpoints ----------------------------
(***************************************************************************)
(* python/kernmlops/analysis/generate_breakpoints.py: which combinations   *)
(* of breakpoints a replay is run with.  A line of a MONITOR log is the    *)
(* key it names, "other" for a key that is not a user record, or "blank"   *)
(* for a line no parser accepts.                                           *)
(***************************************************************************)
EXTENDS Integers, SequencesExt, FiniteSetsExt

CONSTANTS
    KeyOrder,   \* the user keys, in the order of sorted()
    MaxCombos   \* --max-combos

Targets  == Range(KeyOrder)
LogLines == Targets \cup {"other", "blank"}

ASSUME KeyOrderAssumption  == /\ KeyOrder \in Seq(Targets) /\ IsInjective(KeyOrder)
                              /\ {"other", "blank"} \cap Targets = {}
ASSUME MaxCombosAssumption == MaxCombos \in Nat \ {0}

IsReplaySplitTarget(line) == line \in Targets

(* parse_log, and the keys of keys.txt that main adds with count 0.        *)
AccessCounts(log, keysFile) ==
    LET seen == {k \in Range(log) : IsReplaySplitTarget(k)}
    IN  [k \in seen \cup keysFile |->
            Cardinality({i \in DOMAIN log : log[i] = k})]

Never(counts) == [k \in DOMAIN counts |-> counts[k] + 1]

OneAtMax(counts, key) ==
    [k \in DOMAIN counts |-> IF k = key THEN counts[k] + 1 ELSE 0]

(* Combinations 1 to 4 of generate_combinations, before _add.  For a key   *)
(* that is not counted the last one is the second again, which _add drops. *)
Structured(counts) ==
    << [k \in DOMAIN counts |-> -1],
       [k \in DOMAIN counts |-> 0],
       Never(counts) >> \o [i \in DOMAIN KeyOrder |-> OneAtMax(counts, KeyOrder[i])]

(* What random.randint may draw for the remaining slots.                   *)
RandomVectors(counts) ==
    {v \in [DOMAIN counts -> 0..Max({0} \cup {counts[k] + 1 : k \in DOMAIN counts})] :
        \A k \in DOMAIN counts : v[k] <= counts[k] + 1}

Add(combos, values) ==
    IF values \in Range(combos) \/ Len(combos) >= MaxCombos
    THEN combos ELSE Append(combos, values)

GenerateCombinations(counts, drawn) ==
    IF DOMAIN counts = {} THEN << counts >>
    ELSE FoldLeft(Add, <<>>, Structured(counts) \o drawn)
=============================================================================
