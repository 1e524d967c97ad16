--------------------------- MODULE ProgramsProofs ---------------------------
(***************************************************************************)
(* The programs that run beside the collection.  generate_breakpoints.py   *)
(* and replay_trace.py: what the search of a breakpoint may claim, for any *)
(* trace, any order of the keys and any crash.  track_idle_accesses.py:    *)
(* what its plot may show, for any pages and frames and any interrupt.     *)
(* And the one that runs after it, analysis/thp_harness.py: what its       *)
(* dataset has, for any run, however often and however far it was made.    *)
(***************************************************************************)
EXTENDS IdleTracker, ReplayTrace, ThpHarness, PageAccessProofs,
        FiniteSetTheorems, WellFoundedInduction

-----------------------------------------------------------------------------
(* generate_breakpoints.py.                                                *)

(* A set of natural numbers that is not empty has a least one. *)
LEMMA LeastNat ==
    ASSUME NEW T, T \subseteq Nat, T # {}
    PROVE  \E m \in T : \A k \in T : m <= k
<1> DEFINE R == {ss \in Nat \X Nat : ss[1] < ss[2]}
<1>1. OpToRel(<, Nat) = R
  BY DEF OpToRel
<1>2. IsWellFoundedOn(R, Nat)
  BY <1>1, NatLessThanWellFounded
<1> HIDE DEF R
<1>3. PICK m \in T : \A k \in T : ~(<<k, m>> \in R)
  BY <1>2, WFMin
<1>4. ASSUME NEW k \in T PROVE m <= k
  <2>1. <<k, m>> \in Nat \X Nat /\ <<k, m>>[1] = k /\ <<k, m>>[2] = m
    OBVIOUS
  <2>2. ~(k < m)
    BY <1>3, <2>1 DEF R
  <2> QED
    BY <2>1, <2>2
<1> QED
  BY <1>4

(* The last of some positions of a sequence is one of them. *)
LEMMA LastPosition ==
    ASSUME NEW n \in Nat, NEW s \in SUBSET (1..n), s # {}
    PROVE  Max(s) \in s /\ \A i \in s : i <= Max(s)
<1> DEFINE T == {n - i : i \in s}
<1>0. \A i \in s : i \in 1..n /\ n - i \in Nat
  OBVIOUS
<1>1. T \subseteq Nat /\ T # {}
  BY <1>0
<1>2. PICK m \in T : \A k \in T : m <= k
  BY <1>1, LeastNat
<1>3. PICK i \in s : m = n - i
  OBVIOUS
<1>4. ASSUME NEW j \in s PROVE j <= i
  <2>1. n - i <= n - j
    BY <1>2, <1>3
  <2> QED
    BY <1>0, <2>1
<1> QED
  BY <1>3, <1>4 DEF Max

(* The function by which FoldLeft adds combinations is defined for every  *)
(* list of them.                                                           *)
LEMMA AddsExist ==
    ASSUME NEW values, NEW n \in Nat
    PROVE  \E g : g = [s \in SUBSET (1..n) |->
                          IF s = {} THEN <<>>
                          ELSE Add(g[s \ {Max(s)}], values[Max(s)])]
<1> DEFINE Is(g, m) == g = [s \in SUBSET (1..m) |->
                          IF s = {} THEN <<>>
                          ELSE Add(g[s \ {Max(s)}], values[Max(s)])]
           T == {m \in Nat : ~ \E g : Is(g, m)}
<1> SUFFICES ASSUME T # {}
             PROVE  FALSE
  OBVIOUS
<1>1. PICK m \in T : \A k \in T : m <= k
  BY LeastNat
<1>2. CASE m = 0
  <2> DEFINE g == [s \in SUBSET (1..0) |-> <<>>]
  <2>1. SUBSET (1..0) = {{}}
    OBVIOUS
  <2>2. Is(g, 0)
    BY <2>1
  <2> QED
    BY <1>2, <2>2
<1>3. CASE m # 0
  <2>1. PICK h : Is(h, m - 1)
    <3>1. m \in Nat /\ m - 1 \in Nat /\ ~(m <= m - 1)
      BY <1>3
    <3>2. m - 1 \notin T
      <4> HIDE DEF T
      <4> QED
        BY <1>1, <3>1
    <3> QED
      BY <3>1, <3>2
  <2>2. /\ m \in Nat \ {0} /\ h = [s \in SUBSET (1..(m - 1)) |->
                          IF s = {} THEN <<>>
                          ELSE Add(h[s \ {Max(s)}], values[Max(s)])]
    BY <1>3, <2>1
  <2> HIDE DEF T, Is
  <2> DEFINE low(s) == s \in SUBSET (1..(m - 1))
             g == [s \in SUBSET (1..m) |->
                      IF low(s) THEN h[s] ELSE Add(h[s \ {m}], values[m])]
  <2>3. ASSUME NEW s \in SUBSET (1..m), low(s), s # {}
        PROVE  low(s \ {Max(s)}) /\ g[s] = Add(g[s \ {Max(s)}], values[Max(s)])
    <3>1. low(s \ {Max(s)}) /\ s \ {Max(s)} \in SUBSET (1..m)
      BY <2>3
    <3>2. g[s \ {Max(s)}] = h[s \ {Max(s)}] /\ g[s] = h[s]
      BY <2>3, <3>1
    <3> HIDE DEF g
    <3> QED
      BY <2>2, <2>3, <3>1, <3>2
  <2>4. ASSUME NEW s \in SUBSET (1..m), ~low(s)
        PROVE  s # {} /\ g[s] = Add(g[s \ {Max(s)}], values[Max(s)])
    <3>1. s # {} /\ m \in s
      BY <2>2, <2>4
    <3>2. Max(s) = m
      <4> HIDE DEF g, low
      <4>1. Max(s) \in s /\ m <= Max(s)
        BY <2>2, <3>1, LastPosition
      <4>2. Max(s) \in 1..m
        BY <4>1
      <4> QED
        BY <2>2, <4>1, <4>2
    <3>3. low(s \ {m}) /\ s \ {m} \in SUBSET (1..m)
      BY <2>2
    <3>4. g[s \ {m}] = h[s \ {m}] /\ g[s] = Add(h[s \ {m}], values[m])
      BY <2>4, <3>3
    <3> HIDE DEF g
    <3> QED
      BY <3>1, <3>2, <3>4
  <2>5. g[{}] = <<>>
    <3>1. low({}) /\ {} \in SUBSET (1..m) /\ h[{}] = <<>>
      BY <2>2
    <3> QED
      BY <3>1
  <2>6. ASSUME NEW s \in SUBSET (1..m)
        PROVE  g[s] = IF s = {} THEN <<>> ELSE Add(g[s \ {Max(s)}], values[Max(s)])
    <3> HIDE DEF g
    <3> QED
      BY <2>3, <2>4, <2>5
  <2>7. g = [s \in SUBSET (1..m) |-> g[s]]
    OBVIOUS
  <2>8. Is(g, m)
    <3> HIDE DEF g
    <3> QED
      BY <2>6, <2>7 DEF Is
  <2> QED
    BY <2>8 DEF T
<1> QED
  BY <1>2, <1>3

(* Lists of combinations out of V as _add makes them. *)
Combinations(V) ==
    {c \in Seq(V) : /\ Len(c) <= MaxCombos
                    /\ \A i, j \in DOMAIN c : c[i] = c[j] => i = j}

(* _add keeps combinations different from each other, and few enough. *)
LEMMA AddStep ==
    ASSUME NEW V, NEW c \in Combinations(V), NEW v \in V
    PROVE  Add(c, v) \in Combinations(V) /\ Add(c, v) # <<>>
<1> USE MaxCombosAssumption DEF Combinations
<1>1. CASE v \in Range(c) \/ Len(c) >= MaxCombos
  <2>1. c # <<>>
    BY <1>1 DEF Range
  <2> QED
    BY <1>1, <2>1 DEF Add
<1>2. CASE ~(v \in Range(c) \/ Len(c) >= MaxCombos)
  <2>1. Add(c, v) = Append(c, v)
    BY <1>2 DEF Add
  <2>2. \A i \in DOMAIN c : c[i] # v
    BY <1>2 DEF Range
  <2>3. Append(c, v) \in Seq(V) /\ Len(Append(c, v)) <= MaxCombos /\ Append(c, v) # <<>>
    BY <1>2
  <2>4. ASSUME NEW i \in DOMAIN Append(c, v), NEW j \in DOMAIN Append(c, v),
               Append(c, v)[i] = Append(c, v)[j]
        PROVE  i = j
    BY <2>2, <2>4
  <2> QED
    BY <2>1, <2>3, <2>4
<1> QED
  BY <1>1, <1>2

(* What FoldLeft makes of a list that is not empty. *)
LEMMA FoldAdd ==
    ASSUME NEW V, NEW values \in Seq(V), values # <<>>
    PROVE  /\ FoldLeft(Add, <<>>, values) \in Combinations(V)
           /\ FoldLeft(Add, <<>>, values) # <<>>
<1> DEFINE n == Len(values)
           g == CHOOSE f : f = [s \in SUBSET (1..n) |->
                          IF s = {} THEN <<>>
                          ELSE Add(f[s \ {Max(s)}], values[Max(s)])]
           T == {m \in Nat : m \in 1..n /\ ~(g[1..m] \in Combinations(V) /\ g[1..m] # <<>>)}
<1>1. n \in Nat \ {0} /\ DOMAIN values = 1..n /\ \A i \in 1..n : values[i] \in V
  OBVIOUS
<1>2. FoldLeft(Add, <<>>, values) = g[1..n]
  BY <1>1 DEF FoldLeft, MapThenFoldSet
<1>3. g = [s \in SUBSET (1..n) |->
                          IF s = {} THEN <<>>
                          ELSE Add(g[s \ {Max(s)}], values[Max(s)])]
  BY <1>1, AddsExist
<1> HIDE DEF g, n
<1>4. <<>> \in Combinations(V)
  BY MaxCombosAssumption DEF Combinations
<1>5. ASSUME NEW m \in 1..n
      PROVE  g[1..m] = Add(g[1..(m - 1)], values[m])
  <2> HIDE DEF T
  <2>0. m \in Nat /\ 1 <= m /\ m <= n
    BY <1>1
  <2>1. 1..m \in SUBSET (1..n) /\ 1..m # {} /\ m \in 1..m
    <3>1. \A i \in 1..m : i \in 1..n
      BY <1>1, <2>0
    <3>2. m \in 1..m
      BY <2>0
    <3> QED
      BY <3>1, <3>2
  <2>2. (1..m) \ {m} = 1..(m - 1)
    BY <2>0
  <2>3. Max(1..m) = m
    <3>1. Max(1..m) \in 1..m /\ \A i \in 1..m : i <= Max(1..m)
      BY <1>1, <2>1, LastPosition
    <3> QED
      BY <2>0, <2>1, <3>1
  <2> QED
    BY <1>3, <2>1, <2>2, <2>3
<1>6. CASE T = {}
  BY <1>1, <1>2, <1>6
<1>7. CASE T # {}
  <2>1. PICK m \in T : \A k \in T : m <= k
    BY <1>7, LeastNat
  <2>2. m \in 1..n /\ ~(g[1..m] \in Combinations(V) /\ g[1..m] # <<>>)
    OBVIOUS
  <2>3. g[1..(m - 1)] \in Combinations(V)
    <3>1. CASE m = 1
      <4>1. 1..(m - 1) = {} /\ {} \in SUBSET (1..n)
        BY <3>1
      <4> QED
        BY <1>3, <1>4, <4>1
    <3>2. CASE m # 1
      <4>1. m - 1 \in 1..n /\ m - 1 \in Nat /\ ~(m <= m - 1)
        BY <1>1, <2>2, <3>2
      <4> QED
        BY <2>1, <4>1
    <3> QED
      BY <3>1, <3>2
  <2>4. g[1..m] = Add(g[1..(m - 1)], values[m]) /\ values[m] \in V
    BY <1>1, <1>5, <2>2
  <2>5. g[1..m] \in Combinations(V) /\ g[1..m] # <<>>
    BY <2>3, <2>4, AddStep
  <2> QED
    BY <2>2, <2>5
<1> QED
  BY <1>6, <1>7

(* The breakpoints of one combination. *)
Plans == UNION {[D -> Nat \cup {-1}] : D \in SUBSET Targets}

(* The counts of parse_log are natural numbers. *)
LEMMA AccessCountsType ==
    AccessCounts(Trace, KeysFile) \in UNION {[D -> Nat] : D \in SUBSET Targets}
<1> DEFINE D == {k \in Range(Trace) : IsReplaySplitTarget(k)} \cup KeysFile
           At(k) == {i \in DOMAIN Trace : Trace[i] = k}
<1>1. D \subseteq Targets
  BY TraceAssumption DEF IsReplaySplitTarget
<1>2. ASSUME NEW k
      PROVE  Cardinality(At(k)) \in Nat
  <2>1. Len(Trace) \in Nat /\ DOMAIN Trace = 1..Len(Trace)
    BY TraceAssumption
  <2>2. IsFiniteSet(1..Len(Trace)) /\ At(k) \subseteq 1..Len(Trace)
    BY <2>1, FS_Interval
  <2>3. IsFiniteSet(At(k))
    BY <2>2, FS_Subset
  <2> QED
    BY <2>3, FS_CardinalityType
<1>3. AccessCounts(Trace, KeysFile) = [k \in D |-> Cardinality(At(k))]
  BY DEF AccessCounts
<1> HIDE DEF D, At
<1>4. AccessCounts(Trace, KeysFile) \in [D -> Nat]
  BY <1>2, <1>3
<1> QED
  BY <1>1, <1>4

(* generate_combinations returns at least one combination and at most     *)
(* MaxCombos of them, all different.                                       *)
LEMMA Generated ==
    ASSUME NEW D \in SUBSET Targets, NEW c \in [D -> Nat], NEW v \in RandomVectors(c)
    PROVE  /\ GenerateCombinations(c, <<v>>) \in Combinations(Plans)
           /\ GenerateCombinations(c, <<v>>) # <<>>
<1> DEFINE V == [D -> Nat \cup {-1}]
           one == [i \in DOMAIN KeyOrder |-> OneAtMax(c, KeyOrder[i])]
           three == << [k \in DOMAIN c |-> -1], [k \in DOMAIN c |-> 0], Never(c) >>
<1>1. V \subseteq Plans
  BY DEF Plans
<1>2. CASE DOMAIN c = {}
  <2>1. c \in Plans
    BY <1>1
  <2>2. <<c>> \in Seq(Plans) /\ Len(<<c>>) = 1 /\ <<c>> # <<>>
    BY <2>1
  <2>3. <<c>> \in Combinations(Plans)
    BY <2>2, MaxCombosAssumption DEF Combinations
  <2> QED
    BY <1>2, <2>2, <2>3 DEF GenerateCombinations
<1>3. CASE DOMAIN c # {}
  <2>0. DOMAIN c = D /\ \A k \in D : c[k] \in Nat
    OBVIOUS
  <2>1. [k \in DOMAIN c |-> -1] \in V
    BY <2>0
  <2>2. [k \in DOMAIN c |-> 0] \in V
    BY <2>0
  <2>3. Never(c) \in V
    BY <2>0 DEF Never
  <2>4. ASSUME NEW k PROVE OneAtMax(c, k) \in V
    BY <2>0 DEF OneAtMax
  <2>5. v \in V
    <3> DEFINE top == Max({0} \cup {c[k] + 1 : k \in DOMAIN c})
    <3>1. v \in [DOMAIN c -> 0..top]
      BY DEF RandomVectors
    <3> HIDE DEF top
    <3>2. \A k \in D : v[k] \in Nat
      BY <2>0, <3>1
    <3>3. v = [k \in D |-> v[k]]
      BY <2>0, <3>1
    <3> QED
      BY <3>2, <3>3
  <2> HIDE DEF V
  <2>6. three \in Seq(V) /\ Len(three) = 3
    BY <2>1, <2>2, <2>3
  <2>7. one \in Seq(V)
    <3>1. Len(KeyOrder) \in Nat /\ DOMAIN KeyOrder = 1..Len(KeyOrder)
      BY KeyOrderAssumption
    <3>2. one \in [1..Len(KeyOrder) -> V]
      BY <2>4, <3>1
    <3> HIDE DEF one
    <3> QED
      BY <3>1, <3>2
  <2>8. Structured(c) = three \o one
    BY DEF Structured
  <2> HIDE DEF three, one
  <2>9. Structured(c) \o <<v>> \in Seq(V) /\ Structured(c) \o <<v>> # <<>>
    <3>1. Structured(c) \in Seq(V)
      BY <2>6, <2>7, <2>8
    <3>2. Structured(c) \o <<v>> \in Seq(V)
      BY <2>5, <3>1
    <3>3. Len(Structured(c) \o <<v>>) = Len(Structured(c)) + 1
      BY <3>1, <2>5
    <3>4. Len(Structured(c)) \in Nat
      BY <3>1
    <3> QED
      BY <3>2, <3>3, <3>4
  <2>10. GenerateCombinations(c, <<v>>) = FoldLeft(Add, <<>>, Structured(c) \o <<v>>)
    BY <1>3 DEF GenerateCombinations
  <2>11. GenerateCombinations(c, <<v>>) \in Combinations(V)
         /\ GenerateCombinations(c, <<v>>) # <<>>
    BY <2>9, <2>10, FoldAdd
  <2>12. Combinations(V) \subseteq Combinations(Plans)
    BY <1>1 DEF Combinations
  <2> QED
    BY <2>11, <2>12
<1> QED
  BY <1>2, <1>3

(* What a replay starts with. *)
LEMMA InitPlans ==
    ReplayInit => combos \in Combinations(Plans) /\ combos # <<>>
<1> SUFFICES ASSUME ReplayInit
             PROVE  combos \in Combinations(Plans) /\ combos # <<>>
  OBVIOUS
<1> DEFINE c == AccessCounts(Trace, KeysFile)
<1>1. PICK v \in RandomVectors(c) : combos = GenerateCombinations(c, <<v>>)
  BY DEF ReplayInit
<1>2. PICK D \in SUBSET Targets : c \in [D -> Nat]
  BY AccessCountsType
<1> HIDE DEF c
<1> QED
  BY <1>1, <1>2, Generated

-----------------------------------------------------------------------------
(* replay_trace.py: the inductive invariant.                               *)

ReplayTypeOK ==
    /\ rpc \in ReplayPcs \ {"off"} /\ rdb \in {"other", "snapshot"}
    /\ setting \in [Range(Settings) -> {"was", "bench"}] /\ stuck \in BOOLEAN
    /\ redis \in [gen : Nat, st : {"loading", "up", "stopping", "zombie", "gone"},
                  data : {"loaded", "other", "snapshot", "replayed"}]
    /\ combos \in Combinations(Plans) /\ row \in 1..Len(combos) /\ run \in 1..Runs
    /\ pos \in Nat /\ todo \subseteq Targets
    /\ counts \in [Targets -> Nat] /\ tries \in [Targets -> Nat]
    /\ missed \in [Targets -> Nat]
    /\ results \in Seq([fresh : BOOLEAN, died : BOOLEAN])
    /\ fresh \in BOOLEAN /\ written \in BOOLEAN /\ faults \in 0..MaxFaults

(* There is a result for every run that ended, and the file is written     *)
(* when there is one for every run of every combination.                   *)
ProgressInv ==
    /\ rpc \notin {"write", "teardown", "done"} =>
           Len(results) = (row - 1) * Runs + (run - 1)
    /\ rpc = "write" \/ written => Len(results) = Len(combos) * Runs
    /\ written => rpc \in {"teardown", "done"}

Restoring == {"shutdown", "exit", "launch", "ping", "purge"}
Replaying == {"line", "execute"}

(* From the copy of the snapshot until the replay begins the server that   *)
(* is launched can load nothing else.                                      *)
SnapshotInv ==
    /\ rpc \in Restoring => rdb = "snapshot"
    /\ rpc = "launch" => redis.st = "gone"
    /\ rpc \in {"ping", "purge"} => redis.gen > 0 /\ redis.data = "snapshot"
    /\ rpc \in Replaying => fresh /\ redis.st \in {"up", "zombie", "gone"}
    /\ \A i \in DOMAIN results : results[i].fresh

(* A server that died in a run is found dead by the next restore.          *)
DiedInv ==
    /\ rpc = "setup" => results = <<>>
    /\ rpc = "copy" => \A i \in DOMAIN results : results[i].died => Dead
    /\ rpc \in Restoring \cup Replaying =>
           \A i \in DOMAIN results : ~results[i].died
    /\ \A i \in DOMAIN results : results[i].died => i = Len(results)

(* Where a replay is in the trace, and that the keys with breakpoint -1    *)
(* are broken before it.                                                   *)
PlaceInv ==
    rpc \in Replaying =>
        /\ pos \in 1..(Len(Trace) + 1)
        /\ rpc = "execute" => pos <= Len(Trace) /\ todo = {}
        /\ todo \subseteq {k \in DOMAIN Plan : Plan[k] = -1}
        /\ pos > 1 => todo = {}

SeenAt(k) == {i \in 1..(pos - 1) : Trace[i] = k}
Here(k)   == rpc = "execute" /\ Trace[pos] = k

(* An access before this line was either counted or missed.                *)
SeenInv ==
    rpc \in Replaying =>
        \A k \in Targets : counts[k] + missed[k] = Cardinality(SeenAt(k))

(* How often a key has been split, by where its count is: at the           *)
(* breakpoint itself every failure of the access allows one more.          *)
TriesOf(k) ==
    /\ k \notin DOMAIN Plan => tries[k] = 0
    /\ k \in DOMAIN Plan /\ Plan[k] = -1 => tries[k] = IF k \in todo THEN 0 ELSE 1
    /\ k \in DOMAIN Plan /\ Plan[k] # -1 =>
         /\ counts[k] < Plan[k] => tries[k] = 0
         /\ counts[k] = Plan[k] /\ ~Here(k) => tries[k] <= missed[k]
         /\ counts[k] > Plan[k] \/ (counts[k] = Plan[k] /\ Here(k)) =>
                tries[k] \in 1..(missed[k] + 1)

TriesInv  == rpc \in Replaying => \A k \in Targets : TriesOf(k)
BrokenInv == \A k \in Targets : tries[k] <= 1 + missed[k]

ReplayInv == /\ ReplayTypeOK /\ ProgressInv /\ SnapshotInv /\ DiedInv
             /\ PlaceInv /\ SeenInv /\ TriesInv /\ BrokenInv

(* Writing settings leaves each of them at one of its two values. *)
LEMMA SettingsKept ==
    ASSUME setting \in [Range(Settings) -> {"was", "bench"}], NEW n,
           NEW value \in {"was", "bench"}, SysfsWrites(n, value)
    PROVE  setting' \in [Range(Settings) -> {"was", "bench"}]
BY DEF SysfsWrites

(* Counting one more access. *)
LEMMA OneMore ==
    ASSUME NEW f \in [Targets -> Nat], NEW k
    PROVE  [f EXCEPT ![k] = @ + 1] \in [Targets -> Nat]
<1>1. CASE k \in Targets
  <2>1. [f EXCEPT ![k] = @ + 1] = [j \in Targets |-> IF j = k THEN f[k] + 1 ELSE f[j]]
    BY <1>1
  <2>2. \A j \in Targets : f[j] \in Nat
    OBVIOUS
  <2> QED
    BY <1>1, <2>1, <2>2
<1>2. CASE k \notin Targets
  <2>1. [f EXCEPT ![k] = @ + 1] = [j \in Targets |-> f[j]]
    BY <1>2
  <2> QED
    BY <2>1
<1> QED
  BY <1>1, <1>2

(* The breakpoints of the current combination. *)
LEMMA PlanType ==
    ASSUME ReplayTypeOK
    PROVE  /\ Plan = combos[row] /\ DOMAIN Plan \subseteq Targets
           /\ \A k \in DOMAIN Plan : Plan[k] \in Nat \cup {-1}
<1>1. combos \in Seq(Plans) /\ row \in DOMAIN combos
  BY DEF ReplayTypeOK, Combinations
<1>2. combos[row] \in Plans
  BY <1>1
<1> QED
  BY <1>2 DEF Plan, Plans

(* After the last run of a combination the next combination follows, if    *)
(* there is one.                                                           *)
LEMMA NextRun ==
    ASSUME ReplayTypeOK
    PROVE  /\ Len(combos) \in Nat /\ row \in Nat
           /\ Min({row + 1, Len(combos)}) =
                  IF row < Len(combos) THEN row + 1 ELSE Len(combos)
<1>1. Len(combos) \in Nat /\ row \in Nat /\ row <= Len(combos)
  BY DEF ReplayTypeOK, Combinations
<1> DEFINE next == IF row < Len(combos) THEN row + 1 ELSE Len(combos)
           T == {row + 1, Len(combos)}
<1>2. next \in T /\ \A x \in T : next <= x
  BY <1>1
<1>3. \A x \in T : x \in Int
  BY <1>1
<1> HIDE DEF next, T
<1>4. Min(T) = next
  <2>1. ASSUME NEW x \in T, \A y \in T : x <= y PROVE x = next
    <3>1. x <= next /\ next <= x
      BY <1>2, <2>1
    <3> QED
      BY <1>2, <1>3, <3>1
  <2> QED
    BY <1>2, <2>1 DEF Min
<1> QED
  BY <1>1, <1>4 DEF next, T

(* The types. *)
LEMMA ReplayTypesKept ==
    ReplayTypeOK /\ [ReplayNext]_replayVars => ReplayTypeOK'
<1> SUFFICES ASSUME ReplayTypeOK, [ReplayNext]_replayVars
             PROVE  ReplayTypeOK'
  OBVIOUS
<1> USE ReplayAssumption DEF ReplayTypeOK, ReplayPcs, replayRun
<1>1. CASE SetupSystem
  <2>1. \E n : SysfsWrites(n, "bench")
    BY <1>1 DEF SetupSystem
  <2>2. setting' \in [Range(Settings) -> {"was", "bench"}]
    BY <2>1, SettingsKept
  <2>3. (NoFault \/ Faulty) /\ stuck' \in BOOLEAN /\ rpc' \in ReplayPcs \ {"off"}
    BY <1>1 DEF SetupSystem
  <2> QED
    BY <1>1, <2>2, <2>3 DEF SetupSystem, NoFault, Faulty
<1>2. CASE TeardownSystem
  <2>1. \E n : SysfsWrites(n, "was")
    BY <1>2 DEF TeardownSystem
  <2>2. setting' \in [Range(Settings) -> {"was", "bench"}]
    BY <2>1, SettingsKept
  <2>3. (NoFault \/ Faulty) /\ stuck' \in BOOLEAN /\ rpc' \in ReplayPcs \ {"off"}
    BY <1>2 DEF TeardownSystem
  <2> QED
    BY <1>2, <2>2, <2>3 DEF TeardownSystem, NoFault, Faulty
<1>3. CASE CopySnapshot
  BY <1>3 DEF CopySnapshot, GetRedisPid, Raise
<1>4. CASE Shutdown
  BY <1>4 DEF Shutdown, Up
<1>5. CASE WaitForRedisExit
  BY <1>5 DEF WaitForRedisExit, RedisProcessExited, Dead, NoFault, Faulty, Raise
<1>6. CASE Launch
  BY <1>6 DEF Launch
<1>7. CASE WaitForRedis
  BY <1>7 DEF WaitForRedis, Up, Dead, NoFault, Faulty, Raise
<1>8. CASE BeginReplay
  <2>1. todo' \subseteq Targets
    BY <1>8, PlanType DEF BeginReplay
  <2>2. Zeroes \in [Targets -> Nat]
    BY DEF Zeroes
  <2>3. rpc' \in ReplayPcs \ {"off"}
    BY <1>8 DEF BeginReplay, Raise
  <2> QED
    BY <1>8, <2>1, <2>2, <2>3 DEF BeginReplay
<1>9. CASE PreBreak
  <2>1. PICK k \in todo : BreakPage(k, "line") /\ todo' = todo \ {k}
    BY <1>9 DEF PreBreak
  <2>2. tries' \in [Targets -> Nat]
    BY <2>1, OneMore DEF BreakPage
  <2>3. rpc' \in ReplayPcs \ {"off"}
    BY <2>1 DEF BreakPage, Raise
  <2> QED
    BY <1>9, <2>1, <2>2, <2>3 DEF PreBreak
<1>10. CASE ReplayLine
  <2>1. tries' \in [Targets -> Nat]
    BY <1>10, OneMore DEF ReplayLine, BreakPage
  <2>2. rpc' \in ReplayPcs \ {"off"}
    BY <1>10 DEF ReplayLine, BreakPage, Raise
  <2>3. pos' \in Nat
    BY <1>10 DEF ReplayLine
  <2> QED
    BY <1>10, <2>1, <2>2, <2>3 DEF ReplayLine
<1>11. CASE Execute
  <2> DEFINE Bump(f) == IF Trace[pos] \in Targets
                        THEN [f EXCEPT ![Trace[pos]] = @ + 1] ELSE f
  <2>0. counts' \in {counts, Bump(counts)} /\ missed' \in {missed, Bump(missed)}
    BY <1>11 DEF Execute
  <2>1. counts' \in [Targets -> Nat] /\ missed' \in [Targets -> Nat]
    <3>1. ASSUME NEW f \in [Targets -> Nat] PROVE Bump(f) \in [Targets -> Nat]
      BY <3>1, OneMore
    <3> HIDE DEF Bump
    <3> QED
      BY <2>0, <3>1
  <2>2. redis' \in {redis, [redis EXCEPT !.data = "replayed"]}
    BY <1>11 DEF Execute
  <2>3. faults' \in 0..MaxFaults
    BY <1>11 DEF Execute, NoFault, Faulty
  <2>4. pos' \in Nat /\ rpc' \in ReplayPcs \ {"off"}
    BY <1>11 DEF Execute
  <2>5. redis' \in [gen : Nat, st : {"loading", "up", "stopping", "zombie", "gone"},
                     data : {"loaded", "other", "snapshot", "replayed"}]
    BY <2>2
  <2> QED
    BY <1>11, <2>1, <2>3, <2>4, <2>5 DEF Execute
<1>12. CASE EndRun
  <2>1. results' \in Seq([fresh : BOOLEAN, died : BOOLEAN])
    BY <1>12 DEF EndRun
  <2>2. rpc' \in ReplayPcs \ {"off"} /\ row' \in 1..Len(combos) /\ run' \in 1..Runs
    BY <1>12, NextRun DEF EndRun
  <2> QED
    BY <1>12, <2>1, <2>2 DEF EndRun
<1>13. CASE WriteResults
  BY <1>13 DEF WriteResults
<1>14. CASE ReplayRaises
  BY <1>14 DEF ReplayRaises, Faulty, Raise, InTry
<1>15. CASE ServerLoads
  BY <1>15 DEF ServerLoads
<1>16. CASE ServerExits
  BY <1>16 DEF ServerExits, Exits
<1>17. CASE ServerCrashes
  <2>1. redis' \in [gen : Nat, st : {"loading", "up", "stopping", "zombie", "gone"},
                     data : {"loaded", "other", "snapshot", "replayed"}]
    BY <1>17 DEF ServerCrashes, Exits
  <2> QED
    BY <1>17, <2>1 DEF ServerCrashes, Faulty
<1>18. CASE UNCHANGED replayVars
  BY <1>18 DEF replayVars
<1> QED
  BY <1>1, <1>2, <1>3, <1>4, <1>5, <1>6, <1>7, <1>8, <1>9, <1>10, <1>11, <1>12, <1>13, <1>14, <1>15, <1>16, <1>17, <1>18 DEF ReplayNext, ReplayProgram, ReplayServer

(* No run is counted twice and none is left out. *)
LEMMA ReplayProgress ==
    ReplayTypeOK /\ ProgressInv /\ [ReplayNext]_replayVars => ProgressInv'
<1> SUFFICES ASSUME ReplayTypeOK /\ ProgressInv, [ReplayNext]_replayVars
             PROVE  ProgressInv'
  OBVIOUS
<1> USE ReplayAssumption DEF ProgressInv, replayRun
<1>1. CASE SetupSystem
  BY <1>1 DEF SetupSystem, SysfsWrites, NoFault, Faulty
<1>2. CASE TeardownSystem
  BY <1>2 DEF TeardownSystem, SysfsWrites, NoFault, Faulty
<1>3. CASE CopySnapshot
  BY <1>3 DEF CopySnapshot, GetRedisPid, Raise
<1>4. CASE Shutdown
  BY <1>4 DEF Shutdown, Up
<1>5. CASE WaitForRedisExit
  BY <1>5 DEF WaitForRedisExit, RedisProcessExited, Dead, NoFault, Faulty, Raise
<1>6. CASE Launch
  BY <1>6 DEF Launch
<1>7. CASE WaitForRedis
  BY <1>7 DEF WaitForRedis, Up, Dead, NoFault, Faulty, Raise
<1>8. CASE BeginReplay
  BY <1>8 DEF BeginReplay, GetRedisPid, Up, Raise, Zeroes
<1>9. CASE PreBreak
  BY <1>9 DEF PreBreak, BreakPage, ResolveKeyVaddr, Raise
<1>10. CASE ReplayLine
  BY <1>10 DEF ReplayLine, IsCommand, BreakPage, ResolveKeyVaddr, Raise
<1>11. CASE Execute
  BY <1>11 DEF Execute, NoFault, Faulty
<1>12. CASE EndRun
  <2> USE DEF EndRun
  <2>0. /\ Len(results) \in Nat /\ run \in 1..Runs /\ row \in 1..Len(combos)
        /\ Len(results) = (row - 1) * Runs + (run - 1) /\ ~written
    BY <1>12 DEF ReplayTypeOK
  <2>1. Len(results') = (row - 1) * Runs + run
    BY <1>12, <2>0 DEF ReplayTypeOK
  <2>2. CASE run < Runs
    <3>1. rpc' = "copy" /\ row' = row /\ run' = run + 1 /\ written' = written
      BY <1>12, <2>2
    <3> QED
      BY <2>0, <2>1, <3>1
  <2>3. CASE ~(run < Runs) /\ row < Len(combos)
    <3>1. rpc' = "copy" /\ row' = row + 1 /\ run' = 1 /\ written' = written
      BY <1>12, <2>3, NextRun
    <3>2. run = Runs /\ (row - 1) * Runs + Runs = row * Runs
      BY <2>0, <2>3
    <3> QED
      BY <2>0, <2>1, <3>1, <3>2
  <2>4. CASE ~(run < Runs) /\ ~(row < Len(combos))
    <3>1. rpc' = "write" /\ combos' = combos /\ written' = written
      BY <1>12, <2>4
    <3>2. run = Runs /\ row = Len(combos) /\ (row - 1) * Runs + Runs = row * Runs
      BY <2>0, <2>4, NextRun
    <3> QED
      BY <2>0, <2>1, <3>1, <3>2
  <2> QED
    BY <2>2, <2>3, <2>4
<1>13. CASE WriteResults
  BY <1>13 DEF WriteResults
<1>14. CASE ReplayRaises
  BY <1>14 DEF ReplayRaises, Faulty, Raise, InTry
<1>15. CASE ServerLoads
  BY <1>15 DEF ServerLoads
<1>16. CASE ServerExits
  BY <1>16 DEF ServerExits, Exits
<1>17. CASE ServerCrashes
  BY <1>17 DEF ServerCrashes, Exits, Faulty
<1>18. CASE UNCHANGED replayVars
  BY <1>18 DEF replayVars
<1> QED
  BY <1>1, <1>2, <1>3, <1>4, <1>5, <1>6, <1>7, <1>8, <1>9, <1>10, <1>11, <1>12, <1>13, <1>14, <1>15, <1>16, <1>17, <1>18 DEF ReplayNext, ReplayProgram, ReplayServer

(* Each run starts on the snapshot. *)
LEMMA ReplaySnapshot ==
    ReplayTypeOK /\ SnapshotInv /\ [ReplayNext]_replayVars => SnapshotInv'
<1> SUFFICES ASSUME ReplayTypeOK /\ SnapshotInv, [ReplayNext]_replayVars
             PROVE  SnapshotInv'
  OBVIOUS
<1> USE DEF SnapshotInv, Up, Dead, Restoring, Replaying, replayRun
<1>1. CASE SetupSystem
  BY <1>1 DEF SetupSystem, SysfsWrites, NoFault, Faulty
<1>2. CASE TeardownSystem
  BY <1>2 DEF TeardownSystem, SysfsWrites, NoFault, Faulty
<1>3. CASE CopySnapshot
  BY <1>3 DEF CopySnapshot, GetRedisPid, Raise
<1>4. CASE Shutdown
  BY <1>4 DEF Shutdown, Up
<1>5. CASE WaitForRedisExit
  <2>1. rpc' = "teardown" \/ (rpc' = "launch" /\ redis' = [redis EXCEPT !.st = "gone"])
    BY <1>5 DEF WaitForRedisExit, Raise
  <2>2. rpc = "exit" /\ results' = results /\ rdb' = rdb
    BY <1>5 DEF WaitForRedisExit
  <2>3. rpc' = "launch" => redis'.st = "gone"
    BY <2>1 DEF ReplayTypeOK
  <2> QED
    BY <2>1, <2>2, <2>3
<1>6. CASE Launch
  <2>1. redis' = [gen |-> redis.gen + 1, st |-> "loading", data |-> rdb]
    BY <1>6 DEF Launch
  <2>2. redis'.gen > 0 /\ redis'.data = "snapshot"
    BY <1>6, <2>1 DEF Launch, ReplayTypeOK
  <2> QED
    BY <1>6, <2>2 DEF Launch
<1>7. CASE WaitForRedis
  BY <1>7 DEF WaitForRedis, Up, Dead, NoFault, Faulty, Raise
<1>8. CASE BeginReplay
  BY <1>8 DEF BeginReplay, GetRedisPid, Up, Raise, Zeroes
<1>9. CASE PreBreak
  BY <1>9 DEF PreBreak, BreakPage, ResolveKeyVaddr, Raise
<1>10. CASE ReplayLine
  BY <1>10 DEF ReplayLine, IsCommand, BreakPage, ResolveKeyVaddr, Raise
<1>11. CASE Execute
  <2>1. redis' \in {redis, [redis EXCEPT !.data = "replayed"]}
    BY <1>11 DEF Execute
  <2>2. redis'.st = redis.st
    BY <2>1 DEF ReplayTypeOK
  <2> QED
    BY <1>11, <2>2 DEF Execute
<1>12. CASE EndRun
  BY <1>12 DEF EndRun
<1>13. CASE WriteResults
  BY <1>13 DEF WriteResults
<1>14. CASE ReplayRaises
  BY <1>14 DEF ReplayRaises, Faulty, Raise, InTry
<1>15. CASE ServerLoads
  BY <1>15 DEF ServerLoads
<1>16. CASE ServerExits
  BY <1>16 DEF ServerExits, Exits
<1>17. CASE ServerCrashes
  BY <1>17 DEF ServerCrashes, Exits, Faulty
<1>18. CASE UNCHANGED replayVars
  BY <1>18 DEF replayVars
<1> QED
  BY <1>1, <1>2, <1>3, <1>4, <1>5, <1>6, <1>7, <1>8, <1>9, <1>10, <1>11, <1>12, <1>13, <1>14, <1>15, <1>16, <1>17, <1>18 DEF ReplayNext, ReplayProgram, ReplayServer

(* Only the last run can end without a server. *)
LEMMA ReplayDied ==
    ReplayTypeOK /\ SnapshotInv /\ DiedInv /\ [ReplayNext]_replayVars => DiedInv'
<1> SUFFICES ASSUME ReplayTypeOK /\ SnapshotInv /\ DiedInv, [ReplayNext]_replayVars
             PROVE  DiedInv'
  OBVIOUS
<1> USE DEF DiedInv, Up, Dead, Restoring, Replaying, replayRun
<1>1. CASE SetupSystem
  BY <1>1 DEF SetupSystem, SysfsWrites, NoFault, Faulty
<1>2. CASE TeardownSystem
  BY <1>2 DEF TeardownSystem, SysfsWrites, NoFault, Faulty
<1>3. CASE CopySnapshot
  BY <1>3 DEF CopySnapshot, GetRedisPid, Raise
<1>4. CASE Shutdown
  BY <1>4 DEF Shutdown, Up
<1>5. CASE WaitForRedisExit
  BY <1>5 DEF WaitForRedisExit, RedisProcessExited, Dead, NoFault, Faulty, Raise
<1>6. CASE Launch
  BY <1>6 DEF Launch
<1>7. CASE WaitForRedis
  BY <1>7 DEF WaitForRedis, Up, Dead, NoFault, Faulty, Raise
<1>8. CASE BeginReplay
  BY <1>8 DEF BeginReplay, GetRedisPid, Up, Raise, Zeroes
<1>9. CASE PreBreak
  BY <1>9 DEF PreBreak, BreakPage, ResolveKeyVaddr, Raise
<1>10. CASE ReplayLine
  BY <1>10 DEF ReplayLine, IsCommand, BreakPage, ResolveKeyVaddr, Raise
<1>11. CASE Execute
  BY <1>11 DEF Execute, NoFault, Faulty
<1>12. CASE EndRun
  <2>1. results' = Append(results, [fresh |-> fresh, died |-> ~Up]) /\ redis' = redis
        /\ rpc' \in {"copy", "write"} /\ rpc = "line"
    BY <1>12 DEF EndRun
  <2>2. \A i \in DOMAIN results : ~results[i].died
    BY <2>1
  <2>3. ASSUME NEW i \in DOMAIN results', results'[i].died
        PROVE  i = Len(results') /\ ~Up
    <3> DEFINE r == [fresh |-> fresh, died |-> ~Up]
    <3>1. results \in Seq([fresh : BOOLEAN, died : BOOLEAN])
          /\ r \in [fresh : BOOLEAN, died : BOOLEAN] /\ results' = Append(results, r)
      BY <2>1 DEF ReplayTypeOK
    <3>2. r.died = ~Up
      OBVIOUS
    <3> HIDE DEF r
    <3>3. /\ Len(results') = Len(results) + 1 /\ Len(results) \in Nat
          /\ i \in 1..Len(results')
      BY <2>3, <3>1
    <3>4. CASE i \in 1..Len(results)
      <4>1. results'[i] = results[i] /\ i \in DOMAIN results
        BY <3>1, <3>4
      <4> QED
        BY <2>2, <2>3, <4>1
    <3>5. CASE i = Len(results')
      <4>1. results'[i] = r
        BY <3>1, <3>3, <3>5
      <4> QED
        BY <2>3, <3>2, <3>5, <4>1
    <3> QED
      BY <3>3, <3>4, <3>5
  <2>4. ~Up => Dead
    BY <2>1 DEF SnapshotInv
  <2> QED
    BY <2>1, <2>3, <2>4
<1>13. CASE WriteResults
  BY <1>13 DEF WriteResults
<1>14. CASE ReplayRaises
  BY <1>14 DEF ReplayRaises, Faulty, Raise, InTry
<1>15. CASE ServerLoads
  BY <1>15 DEF ServerLoads
<1>16. CASE ServerExits
  BY <1>16 DEF ServerExits, Exits
<1>17. CASE ServerCrashes
  BY <1>17 DEF ServerCrashes, Exits, Faulty
<1>18. CASE UNCHANGED replayVars
  BY <1>18 DEF replayVars
<1> QED
  BY <1>1, <1>2, <1>3, <1>4, <1>5, <1>6, <1>7, <1>8, <1>9, <1>10, <1>11, <1>12, <1>13, <1>14, <1>15, <1>16, <1>17, <1>18 DEF ReplayNext, ReplayProgram, ReplayServer

(* One more line of the trace. *)
LEMMA SeenNext ==
    ASSUME pos \in 1..Len(Trace), NEW k
    PROVE  /\ Cardinality(SeenAt(k)) \in Nat
           /\ Cardinality({i \in 1..((pos + 1) - 1) : Trace[i] = k}) =
                  Cardinality(SeenAt(k)) + IF Trace[pos] = k THEN 1 ELSE 0
<1> DEFINE before == SeenAt(k)
           then == {i \in 1..((pos + 1) - 1) : Trace[i] = k}
<1>1. pos \in Nat /\ pos >= 1
  BY TraceAssumption
<1>2. then = IF Trace[pos] = k THEN before \cup {pos} ELSE before
  BY <1>1 DEF SeenAt
<1>3. pos \notin before /\ before \subseteq 1..(pos - 1)
  BY <1>1 DEF SeenAt
<1> HIDE DEF before, then
<1>4. IsFiniteSet(1..(pos - 1))
  BY <1>1, FS_Interval
<1>5. IsFiniteSet(before)
  BY <1>3, <1>4, FS_Subset
<1>6. Cardinality(before) \in Nat
  BY <1>5, FS_CardinalityType
<1>7. CASE Trace[pos] = k
  <2>1. Cardinality(before \cup {pos}) = Cardinality(before) + 1
    BY <1>3, <1>5, FS_AddElement
  <2> QED
    BY <1>2, <1>6, <1>7, <2>1 DEF before, then
<1>8. CASE Trace[pos] # k
  <2>1. then = before /\ Cardinality(before) + 0 = Cardinality(before)
    BY <1>2, <1>6, <1>8
  <2> QED
    BY <1>6, <1>8, <2>1 DEF before, then
<1> QED
  BY <1>7, <1>8

(* Keys are split as planned while the trace is replayed. *)
LEMMA ReplayBreaks ==
    ReplayTypeOK /\ PlaceInv /\ SeenInv /\ TriesInv /\ BrokenInv
    /\ [ReplayNext]_replayVars =>
        (PlaceInv /\ SeenInv /\ TriesInv /\ BrokenInv)'
<1> SUFFICES ASSUME ReplayTypeOK /\ PlaceInv /\ SeenInv /\ TriesInv /\ BrokenInv,
                    [ReplayNext]_replayVars
             PROVE  (PlaceInv /\ SeenInv /\ TriesInv /\ BrokenInv)'
  OBVIOUS
<1> DEFINE Kept == UNCHANGED <<combos, row, pos, counts, todo, tries, missed>>
<1>1. ASSUME Kept, rpc' = rpc PROVE (PlaceInv /\ SeenInv /\ TriesInv /\ BrokenInv)'
  BY <1>1 DEF PlaceInv, SeenInv, SeenAt, TriesInv, TriesOf, Here, BrokenInv, Plan
<1>2. ASSUME UNCHANGED <<tries, missed>>, rpc' \notin Replaying PROVE (PlaceInv /\ SeenInv /\ TriesInv /\ BrokenInv)'
  BY <1>2 DEF PlaceInv, SeenInv, TriesInv, BrokenInv
<1>3. CASE SetupSystem
  BY <1>2, <1>3 DEF SetupSystem, replayRun, Replaying
<1>4. CASE TeardownSystem
  BY <1>2, <1>4 DEF TeardownSystem, replayRun, Replaying
<1>5. CASE CopySnapshot
  BY <1>2, <1>5 DEF CopySnapshot, replayRun, Replaying, Raise
<1>6. CASE Shutdown
  BY <1>2, <1>6 DEF Shutdown, replayRun, Replaying
<1>7. CASE WaitForRedisExit
  BY <1>2, <1>7 DEF WaitForRedisExit, replayRun, Replaying, Raise
<1>8. CASE Launch
  BY <1>2, <1>8 DEF Launch, replayRun, Replaying
<1>9. CASE WaitForRedis
  BY <1>2, <1>9 DEF WaitForRedis, replayRun, Replaying, Raise
<1>10. CASE BeginReplay
  <2>0. UNCHANGED <<combos, row>> /\ tries' = Zeroes /\ missed' = Zeroes
        /\ counts' = Zeroes /\ pos' = 1 /\ todo' = {k \in DOMAIN Plan : Plan[k] = -1}
    BY <1>10 DEF BeginReplay
  <2>1. BrokenInv'
    BY <2>0 DEF BrokenInv, Zeroes
  <2>2. rpc' \in {"line", "teardown"}
    BY <1>10 DEF BeginReplay, Raise
  <2>3. PlaceInv'
    <3>1. Len(Trace) \in Nat
      BY TraceAssumption
    <3> QED
      BY <2>0, <2>2, <3>1 DEF PlaceInv, Replaying, Plan
  <2>4. SeenInv'
    <3>1. ASSUME NEW k \in Targets PROVE counts'[k] + missed'[k] = Cardinality(SeenAt(k)')
      <4>1. SeenAt(k)' = {}
        BY <2>0 DEF SeenAt
      <4>2. counts'[k] = 0 /\ missed'[k] = 0
        BY <2>0 DEF Zeroes
      <4> QED
        BY <4>1, <4>2, FS_EmptySet
    <3> QED
      BY <3>1 DEF SeenInv
  <2>5. TriesInv'
    <3>1. ASSUME rpc' = "line", NEW k \in Targets PROVE TriesOf(k)'
      <4>1. counts'[k] = 0 /\ missed'[k] = 0 /\ tries'[k] = 0 /\ Plan' = Plan
        BY <2>0 DEF Zeroes, Plan
      <4>2. k \in DOMAIN Plan => Plan[k] \in Nat \cup {-1}
        BY PlanType
      <4> QED
        BY <2>0, <3>1, <4>1, <4>2 DEF TriesOf, Here
    <3> QED
      BY <2>2, <3>1 DEF TriesInv, Replaying
  <2> QED
    BY <2>1, <2>3, <2>4, <2>5
<1>11. CASE PreBreak
  <2>1. PICK k \in todo : BreakPage(k, "line") /\ todo' = todo \ {k}
    BY <1>11 DEF PreBreak
  <2>2. /\ UNCHANGED <<combos, row, pos, counts, missed>> /\ rpc = "line"
        /\ \/ rpc' = "line" /\ tries' = [tries EXCEPT ![k] = @ + 1]
           \/ rpc' = "teardown" /\ tries' = tries
    BY <1>11, <2>1 DEF PreBreak, BreakPage, Raise
  <2>3. CASE rpc' = "teardown" /\ tries' = tries
    BY <1>2, <2>2, <2>3 DEF Replaying
  <2>4. CASE rpc' = "line" /\ tries' = [tries EXCEPT ![k] = @ + 1]
    <3>1. PlaceInv'
      BY <2>1, <2>2, <2>4 DEF PlaceInv, Replaying, Plan
    <3>2. SeenInv'
      BY <2>2, <2>4 DEF SeenInv, SeenAt, Replaying
    <3>3. ASSUME NEW j \in Targets PROVE TriesOf(j)' /\ tries'[j] <= 1 + missed'[j]
      <4>1. TriesOf(j) /\ tries[j] \in Nat /\ missed[j] \in Nat /\ tries[j] <= 1 + missed[j]
        BY <2>2 DEF TriesInv, BrokenInv, Replaying, ReplayTypeOK
      <4>2. k \in DOMAIN Plan /\ Plan[k] = -1 /\ k \in Targets
        BY <2>2 DEF PlaceInv, Replaying, ReplayTypeOK
      <4>3. CASE j = k
        <5>1. tries'[k] = tries[k] + 1
          BY <2>4, <4>2 DEF ReplayTypeOK
        <5>2. tries[k] = 0
          BY <4>1, <4>2, <4>3 DEF TriesOf
        <5> QED
          BY <2>1, <2>2, <4>1, <4>2, <4>3, <5>1, <5>2 DEF TriesOf, Plan
      <4>4. CASE j # k
        <5>1. tries'[j] = tries[j] /\ (j \in todo' <=> j \in todo)
          BY <2>1, <2>4, <4>4 DEF ReplayTypeOK
        <5> QED
          BY <2>2, <2>4, <4>1, <5>1 DEF TriesOf, Plan, Here
      <4> QED
        BY <4>3, <4>4
    <3> QED
      BY <3>1, <3>2, <3>3 DEF TriesInv, BrokenInv
  <2> QED
    BY <2>2, <2>3, <2>4
<1>12. CASE ReplayLine
  <2>1. /\ UNCHANGED <<combos, row, counts, missed, todo>> /\ rpc = "line" /\ todo = {}
        /\ pos \in 1..Len(Trace) /\ Len(Trace) \in Nat
    BY <1>12, TraceAssumption DEF ReplayLine, PlaceInv, Replaying
  <2>2. CASE rpc' = "teardown" /\ tries' = tries
    BY <1>2, <2>1, <2>2 DEF Replaying
  <2>3. CASE Trace[pos] = "blank" /\ pos' = pos + 1 /\ rpc' = rpc /\ tries' = tries
    <3>1. PlaceInv'
      BY <2>1, <2>3 DEF PlaceInv, Replaying, Plan
    <3>2. ASSUME NEW k \in Targets PROVE counts'[k] + missed'[k] = Cardinality(SeenAt(k)')
      <4>1. Trace[pos] # k
        BY <2>3, KeyOrderAssumption
      <4>2. Cardinality(SeenAt(k)') = Cardinality(SeenAt(k))
        <5>1. Cardinality({i \in 1..((pos + 1) - 1) : Trace[i] = k}) = Cardinality(SeenAt(k))
          BY <2>1, <4>1, SeenNext
        <5> QED
          BY <2>3, <5>1 DEF SeenAt
      <4> QED
        BY <2>1, <4>2 DEF SeenInv, Replaying
    <3>3. TriesInv'
      BY <2>1, <2>3 DEF TriesInv, TriesOf, Here, Plan, Replaying
    <3>4. BrokenInv'
      BY <2>1, <2>3 DEF BrokenInv
    <3> QED
      BY <3>1, <3>2, <3>3, <3>4 DEF SeenInv
  <2>4. CASE /\ pos' = pos /\ rpc' = "execute"
             /\ tries' = IF BreakDue(Trace[pos]) THEN [tries EXCEPT ![Trace[pos]] = @ + 1]
                                                 ELSE tries
    <3>1. PlaceInv'
      BY <2>1, <2>4 DEF PlaceInv, Replaying, Plan
    <3>2. SeenInv'
      BY <2>1, <2>4 DEF SeenInv, SeenAt, Replaying
    <3>3. ASSUME NEW j \in Targets PROVE TriesOf(j)' /\ tries'[j] <= 1 + missed'[j]
      <4>1. /\ TriesOf(j) /\ tries[j] \in Nat /\ missed[j] \in Nat /\ counts[j] \in Nat
            /\ tries[j] <= 1 + missed[j] /\ (j \in DOMAIN Plan => Plan[j] \in Nat \cup {-1})
        BY <2>1, PlanType DEF TriesInv, BrokenInv, Replaying, ReplayTypeOK
      <4>2. Plan' = Plan /\ (Here(j)' <=> Trace[pos] = j) /\ ~Here(j)
            /\ missed'[j] = missed[j] /\ counts'[j] = counts[j] /\ todo' = todo
        BY <2>1, <2>4 DEF Plan, Here
      <4>3. CASE Trace[pos] = j /\ BreakDue(j)
        <5>1. tries'[j] = tries[j] + 1
          BY <2>4, <4>3 DEF ReplayTypeOK
        <5>2. j \in DOMAIN Plan /\ Plan[j] # -1 /\ counts[j] = Plan[j]
          BY <4>3 DEF BreakDue
        <5>3. tries[j] <= missed[j]
          BY <4>1, <4>2, <5>2 DEF TriesOf
        <5>4. tries'[j] \in 1..(missed[j] + 1)
          BY <4>1, <5>1, <5>3
        <5> QED
          BY <4>1, <4>2, <4>3, <5>2, <5>4 DEF TriesOf
      <4>4. CASE ~(Trace[pos] = j /\ BreakDue(j))
        <5>1. tries'[j] = tries[j]
          BY <2>4, <4>4 DEF ReplayTypeOK
        <5>2. j \in DOMAIN Plan /\ Plan[j] # -1 /\ counts[j] = Plan[j] => ~Here(j)'
          BY <4>2, <4>4 DEF BreakDue
        <5> QED
          BY <4>1, <4>2, <5>1, <5>2 DEF TriesOf
      <4> QED
        BY <4>3, <4>4
    <3> QED
      BY <3>1, <3>2, <3>3 DEF TriesInv, BrokenInv
  <2> QED
    BY <1>12, <2>2, <2>3, <2>4 DEF ReplayLine, IsCommand, BreakPage, Raise
<1>13. CASE Execute
  <2> DEFINE key == Trace[pos]
             Bump(f) == IF key \in Targets THEN [f EXCEPT ![key] = @ + 1] ELSE f
  <2>1. /\ UNCHANGED <<combos, row, todo, tries>> /\ rpc = "execute" /\ rpc' = "line"
        /\ pos' = pos + 1 /\ todo = {} /\ pos \in 1..Len(Trace) /\ Len(Trace) \in Nat
    BY <1>13, TraceAssumption DEF Execute, PlaceInv, Replaying
  <2>2. \/ counts' = Bump(counts) /\ missed' = missed
        \/ counts' = counts /\ missed' = Bump(missed)
    BY <1>13 DEF Execute
  <2>3. PlaceInv'
    BY <2>1 DEF PlaceInv, Replaying, Plan
  <2>4. ASSUME NEW j \in Targets
        PROVE  /\ TriesOf(j)' /\ tries'[j] <= 1 + missed'[j]
               /\ counts'[j] + missed'[j] = Cardinality(SeenAt(j)')
    <3>1. /\ TriesOf(j) /\ tries[j] \in Nat /\ missed[j] \in Nat /\ counts[j] \in Nat
          /\ tries[j] <= 1 + missed[j] /\ (j \in DOMAIN Plan => Plan[j] \in Nat \cup {-1})
          /\ counts[j] + missed[j] = Cardinality(SeenAt(j))
      BY <2>1, PlanType DEF TriesInv, SeenInv, BrokenInv, Replaying, ReplayTypeOK
    <3>2. Plan' = Plan /\ ~Here(j)' /\ (Here(j) <=> key = j)
          /\ tries'[j] = tries[j] /\ todo' = todo
      BY <2>1 DEF Plan, Here
    <3>3. ASSUME NEW f \in [Targets -> Nat]
          PROVE  Bump(f)[j] = IF key = j THEN f[j] + 1 ELSE f[j]
      BY <3>3
    <3>4. \/ counts'[j] = (IF key = j THEN counts[j] + 1 ELSE counts[j]) /\ missed'[j] = missed[j]
          \/ counts'[j] = counts[j] /\ missed'[j] = IF key = j THEN missed[j] + 1 ELSE missed[j]
      <4> HIDE DEF Bump
      <4> QED
        BY <2>2, <3>3 DEF ReplayTypeOK
    <3>5. Cardinality(SeenAt(j)') = Cardinality(SeenAt(j)) + IF key = j THEN 1 ELSE 0
      <4>1. Cardinality({i \in 1..((pos + 1) - 1) : Trace[i] = j}) =
                Cardinality(SeenAt(j)) + IF Trace[pos] = j THEN 1 ELSE 0
        BY <2>1, SeenNext
      <4> QED
        BY <2>1, <4>1 DEF SeenAt
    <3> HIDE DEF key
    <3>6. counts'[j] + missed'[j] = Cardinality(SeenAt(j)')
      BY <3>1, <3>4, <3>5
    <3>7. CASE key = j
      BY <3>1, <3>2, <3>4, <3>6, <3>7 DEF TriesOf
    <3>8. CASE key # j
      BY <3>1, <3>2, <3>4, <3>6, <3>8 DEF TriesOf
    <3> QED
      BY <3>7, <3>8
  <2> QED
    BY <2>3, <2>4 DEF SeenInv, TriesInv, BrokenInv
<1>14. CASE EndRun
  BY <1>2, <1>14 DEF EndRun, replayRun, Replaying
<1>15. CASE WriteResults
  BY <1>2, <1>15 DEF WriteResults, replayRun, Replaying
<1>16. CASE ReplayRaises
  BY <1>2, <1>16 DEF ReplayRaises, replayRun, Replaying, Raise
<1>17. CASE ServerLoads
  BY <1>1, <1>17 DEF ServerLoads, replayRun
<1>18. CASE ServerExits
  BY <1>1, <1>18 DEF ServerExits, replayRun
<1>19. CASE ServerCrashes
  BY <1>1, <1>19 DEF ServerCrashes, replayRun
<1>20. CASE UNCHANGED replayVars
  BY <1>1, <1>20 DEF replayVars, replayRun
<1> QED
  BY <1>3, <1>4, <1>5, <1>6, <1>7, <1>8, <1>9, <1>10, <1>11, <1>12, <1>13, <1>14, <1>15, <1>16, <1>17, <1>18, <1>19, <1>20 DEF ReplayNext, ReplayProgram, ReplayServer

(* The initial state has the invariant. *)
LEMMA ReplayInitInv ==
    ReplayInit => ReplayInv
<1> SUFFICES ASSUME ReplayInit
             PROVE  ReplayInv
  OBVIOUS
<1> USE DEF ReplayInit, ReplayIdle
<1>1. combos \in Combinations(Plans) /\ combos # <<>>
  BY InitPlans
<1>2. Zeroes \in [Targets -> Nat] /\ \A k \in Targets : Zeroes[k] = 0
  BY DEF Zeroes
<1>3. ReplayTypeOK
  <2>1. row \in 1..Len(combos) /\ run \in 1..Runs /\ faults \in 0..MaxFaults
    <3>1. Len(combos) \in Nat /\ Len(combos) # 0
      BY <1>1 DEF Combinations
    <3> QED
      BY <3>1, ReplayAssumption
  <2>2. setting \in [Range(Settings) -> {"was", "bench"}]
    OBVIOUS
  <2>3. results \in Seq([fresh : BOOLEAN, died : BOOLEAN])
    OBVIOUS
  <2> QED
    BY <1>1, <1>2, <2>1, <2>2, <2>3 DEF ReplayTypeOK, ReplayPcs
<1>4. ProgressInv
  BY ReplayAssumption DEF ProgressInv
<1>5. SnapshotInv /\ DiedInv
  BY DEF SnapshotInv, DiedInv, Restoring, Replaying
<1>6. PlaceInv /\ SeenInv /\ TriesInv
  BY DEF PlaceInv, SeenInv, TriesInv, Replaying
<1>7. BrokenInv
  BY <1>2 DEF BrokenInv
<1> QED
  BY <1>3, <1>4, <1>5, <1>6, <1>7 DEF ReplayInv

(* ReplayInv is an invariant of the replay. *)
THEOREM ReplayInvCorrect == ReplaySpec => []ReplayInv
<1>1. ReplayInv /\ [ReplayNext]_replayVars => ReplayInv'
  BY ReplayTypesKept, ReplayProgress, ReplaySnapshot, ReplayDied, ReplayBreaks
  DEF ReplayInv
<1> QED
  BY <1>1, ReplayInitInv, PTL DEF ReplaySpec

(* The output file has a runtime of every run, each run started on the    *)
(* snapshot, and only the server of the last one can have died.            *)
THEOREM ResultsCorrect == ReplaySpec => []ResultsTrusted
<1>1. ReplayInv => ResultsTrusted
  BY DEF ReplayInv, ProgressInv, SnapshotInv, DiedInv, ResultsTrusted
<1> QED
  BY <1>1, ReplayInvCorrect, PTL

(* Each key is split exactly once and at its breakpoint, but for the       *)
(* repeats that failed accesses allow.                                     *)
THEOREM BreaksCorrect == ReplaySpec => []BreaksAsPlanned
<1>1. ReplayInv => BreaksAsPlanned
  <2> SUFFICES ASSUME ReplayInv
               PROVE  BreaksAsPlanned
    OBVIOUS
  <2>1. \A k \in Targets : tries[k] <= 1 + missed[k]
    BY DEF ReplayInv, BrokenInv
  <2>2. ASSUME rpc = "line", todo = {}, pos > Len(Trace), NEW k \in DOMAIN Plan,
               missed[k] = 0
        PROVE  tries[k] = IF Plan[k] < Cardinality({i \in DOMAIN Trace : Trace[i] = k})
                          THEN 1 ELSE 0
    <3>1. k \in Targets /\ Plan[k] \in Nat \cup {-1}
      BY PlanType DEF ReplayInv
    <3>2. pos = Len(Trace) + 1 /\ Len(Trace) \in Nat /\ DOMAIN Trace = 1..Len(Trace)
      BY <2>2, TraceAssumption DEF ReplayInv, PlaceInv, Replaying
    <3>3. {i \in DOMAIN Trace : Trace[i] = k} = SeenAt(k)
      BY <3>2 DEF SeenAt
    <3>4. counts[k] \in Nat /\ counts[k] = Cardinality(SeenAt(k)) /\ tries[k] \in Nat
      BY <2>2, <3>1 DEF ReplayInv, SeenInv, Replaying, ReplayTypeOK
    <3>5. TriesOf(k) /\ ~Here(k)
      BY <2>2, <3>1 DEF ReplayInv, TriesInv, Replaying, Here
    <3>6. CASE Plan[k] = -1
      <4>1. tries[k] = 1 /\ Plan[k] < Cardinality(SeenAt(k))
        BY <2>2, <3>4, <3>5, <3>6 DEF TriesOf
      <4> QED
        BY <3>3, <4>1
    <3>7. CASE Plan[k] \in Nat /\ counts[k] > Plan[k]
      <4>1. tries[k] = 1
        BY <2>2, <3>4, <3>5, <3>7 DEF TriesOf
      <4> QED
        BY <3>3, <3>4, <3>7, <4>1
    <3>8. CASE Plan[k] \in Nat /\ ~(counts[k] > Plan[k])
      <4>1. tries[k] = 0
        BY <2>2, <3>4, <3>5, <3>8 DEF TriesOf
      <4> QED
        BY <3>3, <3>4, <3>8, <4>1
    <3> QED
      BY <3>1, <3>6, <3>7, <3>8
  <2> QED
    BY <2>1, <2>2 DEF BreaksAsPlanned
<1> QED
  BY <1>1, ReplayInvCorrect, PTL

-----------------------------------------------------------------------------
USE DEF None

-----------------------------------------------------------------------------
(* track_idle_accesses.py: the inductive invariant.                        *)

TrackPcs == {"find", "poll", "maps", "open", "scan", "mark", "check", "dump",
             "ended", "failed"}

TrackTypeOK ==
    /\ tpc \in TrackPcs
    /\ redisPid \in Pids \cup {None} /\ fd \in Servers \cup {None}
    /\ regions \in BOOLEAN /\ sigint \in BOOLEAN /\ polls \in Nat
    /\ DOMAIN meta \subseteq PFNs /\ \A f \in DOMAIN meta : meta[f] \in VPages
    /\ accesses \in [PFNs -> Nat] /\ touched \in [VPages -> Nat]

(* Until the pid is known nothing has been counted.  The maps file is read *)
(* unless --static-maps is set.                                            *)
FreshInv ==
    /\ tpc = "find" => /\ fd = None /\ meta = NoMeta /\ polls = 0
                       /\ accesses = [f \in PFNs |-> 0]
                       /\ touched = [v \in VPages |-> 0]
    /\ StaticMaps => regions /\ tpc # "maps"

(* As long as a page stands still the process is the one that was found.   *)
FoundInv ==
    tpc # "find" /\ moved # VPages =>
        /\ server # None /\ redisPid = pid /\ fd \in {None, server}
        /\ tpc \in {"open", "scan"} => regions
        /\ tpc = "scan" => fd = server

(* pfn_meta agrees with the page table about the pages that stand still,   *)
(* and has all of them from the first scan on.                             *)
ScanInv ==
    tpc # "find" =>
        /\ \A f \in DOMAIN meta : meta[f] \notin moved => frame[meta[f]] = f
        /\ tpc \in {"mark", "check"} \/ polls > 0 =>
               \A v \in VPages \ moved :
                   frame[v] # None => frame[v] \in DOMAIN meta /\ meta[frame[v]] = v

(* access_counts of the frame of a page that stands still; a tail is never *)
(* idle and is counted in every poll.                                      *)
CountInv ==
    tpc # "find" =>
        \A v \in VPages \ moved : frame[v] # None =>
            accesses[frame[v]] = IF HeadOf(frame[v]) = frame[v]
                                 THEN touched[v] ELSE polls

(* Between mark and check the idle bit says whether the page was accessed. *)
BitInv ==
    tpc = "check" =>
        \A v \in VPages \ moved : frame[v] # None /\ HeadOf(frame[v]) = frame[v] =>
            (frame[v] \in idle <=> v \notin hit)

(* The output is a copy of the counts, and nothing is counted after it.    *)
OutputInv ==
    \/ output = NoMeta
    \/ /\ tpc = "ended" /\ polls > 0
       /\ output = [f \in DOMAIN meta |-> [page |-> meta[f], n |-> accesses[f]]]

TrackInv == /\ MemoryInv /\ TrackTypeOK /\ FreshInv /\ FoundInv /\ ScanInv
            /\ CountInv /\ BitInv /\ OutputInv

USE TrackerAssumption

(* What is known of the variables of the kernel. *)
LEMMA MemoryFacts ==
    ASSUME MemoryInv
    PROVE  /\ frame \in [VPages -> PFNs \cup {None}] /\ moved \subseteq VPages
           /\ hit \subseteq VPages /\ idle \subseteq PFNs
           /\ server \in Servers \cup {None} /\ pid \in Pids \cup {None}
           /\ server # None => pid \in Pids
           /\ None \notin PFNs
           /\ \A v, w \in VPages : frame[v] = frame[w] /\ frame[v] # None => v = w
           /\ \A f \in idle : f \in Used /\ HeadOf(f) = f
           /\ server = None => frame = NoFrames
  BY HugeFrames DEF MemoryInv, MemoryTypeOK, FramesInv, IdleInv, OwnerInv

(* The initial state. *)
LEMMA TrackInit == TrackerInit => TrackInv
<1> SUFFICES ASSUME TrackerInit
             PROVE  TrackInv
  OBVIOUS
<1> USE DEF TrackerInit, TrackerIdle
<1>1. MemoryInv
  BY InitMemory
<1>2. DOMAIN NoMeta = {}
  BY DEF NoMeta
<1>3. TrackTypeOK
  BY <1>2 DEF TrackTypeOK, TrackPcs
<1>4. FreshInv
  BY DEF FreshInv
<1> QED
  BY <1>1, <1>3, <1>4 DEF TrackInv, FoundInv, ScanInv, CountInv, BitInv, OutputInv

(* A step of the kernel keeps the invariant. *)
LEMMA TrackKernel ==
    ASSUME TrackInv, TouchesKernel, Kernel, UNCHANGED trackVars
    PROVE  TrackInv'
<1> USE DEF TrackInv, trackVars
<1>1. MemoryInv' /\ MemoryTypeOK /\ FramesInv
  BY KernelInv DEF MemoryInv
<1>2. TrackTypeOK' /\ FreshInv'
  BY DEF TrackTypeOK, FreshInv
<1>3. ASSUME NEW v \in VPages, v \notin moved'
      PROVE  /\ v \notin moved /\ frame'[v] = frame[v]
             /\ frame[v] # None =>
                  /\ HeadOf(frame[v])' = HeadOf(frame[v])
                  /\ (HeadOf(frame[v]) \in idle <=> v \notin hit) =>
                         (HeadOf(frame[v]) \in idle' <=> v \notin hit')
  BY <1>1, <1>3, StandsStill
<1>4. FoundInv'
  <2>1. moved \subseteq moved' /\ moved' \subseteq VPages
    BY <1>1, KernelServer, MemoryFacts DEF MemoryInv, MemoryTypeOK
  <2> QED
    BY <1>1, <2>1, KernelServer DEF FoundInv
<1>5. ScanInv'
  BY <1>3 DEF ScanInv, TrackTypeOK
<1>6. CountInv'
  BY <1>3 DEF CountInv
<1>7. BitInv'
  BY <1>3 DEF BitInv
<1>8. OutputInv'
  BY DEF OutputInv
<1> QED
  BY <1>1, <1>2, <1>4, <1>5, <1>6, <1>7, <1>8
(* The tracker itself moves no page; only marking touches the idle bits.   *)
LEMMA TrackMemory ==
    ASSUME TrackInv, Tracker \/ Sigint
    PROVE  /\ UNCHANGED <<server, starts, pid, frame, huge, pagemap, armed>>
           /\ ~FindRedisPid => UNCHANGED moved
           /\ ~MarkPfnsIdle => UNCHANGED <<idle, hit>>
           /\ MemoryInv'
<1> USE DEF memoryVars, kernelVars, trackerVars, historyVars
<1>1. /\ UNCHANGED <<server, starts, pid, frame, huge, pagemap, armed>>
      /\ ~FindRedisPid => UNCHANGED moved
      /\ FindRedisPid => moved' = {}
      /\ ~MarkPfnsIdle => UNCHANGED <<idle, hit>>
  BY DEF Tracker, FindRedisPid, NextPoll, GetVmaRanges, OpenPagemapFd,
         CollectPresentPfns, MarkPfnsIdle, CheckPfnsAccessed, DumpOutput, Sigint
<1>2. \A f \in Used : f \in PFNs
  BY MemoryFacts DEF TrackInv, Used
<1>3. /\ MarkPfnsIdle =>
           hit' = {} /\ idle' = idle \cup {f \in DOMAIN meta \cap Used : HeadOf(f) = f}
  BY DEF MarkPfnsIdle
<1>4. idle' \subseteq PFNs /\ hit' \subseteq VPages /\ moved' \subseteq VPages
  BY <1>1, <1>2, <1>3, MemoryFacts DEF TrackInv
<1>5. MemoryTypeOK'
  BY <1>1, <1>4 DEF TrackInv, MemoryInv, MemoryTypeOK
<1>6. FramesInv' /\ OwnerInv'
  BY <1>1 DEF TrackInv, MemoryInv, FramesInv, OwnerInv
<1>7. IdleInv'
  BY <1>1, <1>3 DEF TrackInv, MemoryInv, IdleInv, HeadOf, Used
<1> QED
  BY <1>1, <1>5, <1>6, <1>7 DEF MemoryInv

(* The tracker keeps its types. *)
LEMMA TrackTypes ==
    ASSUME TrackInv, Tracker \/ Sigint
    PROVE  TrackTypeOK' /\ FreshInv'
<1> USE DEF TrackTypeOK, TrackPcs, FreshInv
<1>0. TrackTypeOK /\ FreshInv
  BY DEF TrackInv
<1>1. CASE FindRedisPid
  <2>1. pid \in Pids
    BY <1>1, MemoryFacts DEF TrackInv, FindRedisPid
  <2> QED
    BY <1>0, <1>1, <2>1 DEF FindRedisPid
<1>2. CASE NextPoll
  BY <1>0, <1>2 DEF NextPoll
<1>3. CASE GetVmaRanges
  BY <1>0, <1>3 DEF GetVmaRanges
<1>4. CASE OpenPagemapFd
  BY <1>0, <1>4, MemoryFacts DEF TrackInv, OpenPagemapFd
<1>5. CASE CollectPresentPfns
  <2>1. ASSUME NEW f \in Used
        PROVE  f \in PFNs /\ (CHOOSE v \in VPages : frame[v] = f) \in VPages
    BY <2>1, MemoryFacts DEF TrackInv, Used
  <2>2. DOMAIN meta' \subseteq PFNs /\ \A f \in DOMAIN meta' : meta'[f] \in VPages
    BY <1>5, <2>1 DEF CollectPresentPfns, NoMeta
  <2> QED
    BY <1>0, <1>5, <2>2 DEF CollectPresentPfns
<1>6. CASE MarkPfnsIdle
  BY <1>0, <1>6 DEF MarkPfnsIdle
<1>7. CASE CheckPfnsAccessed
  BY <1>0, <1>7 DEF CheckPfnsAccessed
<1>8. CASE DumpOutput
  BY <1>0, <1>8 DEF DumpOutput
<1>9. CASE Sigint
  BY <1>0, <1>9 DEF Sigint
<1> QED
  BY <1>1, <1>2, <1>3, <1>4, <1>5, <1>6, <1>7, <1>8, <1>9 DEF Tracker

(* The files it opens are those of the process it found. *)
LEMMA TrackFound ==
    ASSUME TrackInv, Tracker \/ Sigint
    PROVE  FoundInv'
<1>0. /\ UNCHANGED <<server, pid>> /\ (~FindRedisPid => UNCHANGED moved)
      /\ FoundInv /\ FreshInv
  BY TrackMemory DEF TrackInv
<1> SUFFICES ASSUME tpc' # "find", moved' # VPages
             PROVE  /\ server # None /\ redisPid' = pid /\ fd' \in {None, server}
                    /\ tpc' \in {"open", "scan"} => regions'
                    /\ tpc' = "scan" => fd' = server
  BY <1>0 DEF FoundInv
<1>1. CASE FindRedisPid
  BY <1>0, <1>1 DEF FindRedisPid, FreshInv
<1>2. CASE ~FindRedisPid
  <2>1. tpc # "find" /\ moved # VPages
    BY <1>0, <1>2 DEF Tracker, NextPoll, GetVmaRanges, OpenPagemapFd,
       CollectPresentPfns, MarkPfnsIdle, CheckPfnsAccessed, DumpOutput, Sigint
  <2>2. /\ server # None /\ redisPid = pid /\ fd \in {None, server}
        /\ tpc \in {"open", "scan"} => regions
        /\ tpc = "scan" => fd = server
        /\ PidAlive(redisPid)
    BY <1>0, <2>1 DEF FoundInv, PidAlive
  <2>3. CASE NextPoll
    BY <1>0, <2>2, <2>3 DEF NextPoll, FreshInv
  <2>4. CASE GetVmaRanges \/ OpenPagemapFd
    BY <2>2, <2>4 DEF GetVmaRanges, OpenPagemapFd
  <2>5. CASE CollectPresentPfns \/ MarkPfnsIdle \/ CheckPfnsAccessed
    BY <2>2, <2>5 DEF CollectPresentPfns, MarkPfnsIdle, CheckPfnsAccessed
  <2>6. CASE DumpOutput \/ Sigint
    BY <2>2, <2>6 DEF DumpOutput, Sigint
  <2> QED
    BY <1>2, <2>3, <2>4, <2>5, <2>6 DEF Tracker
<1> QED
  BY <1>1, <1>2

(* A scan finds all pages that stand still. *)
LEMMA TrackScan ==
    ASSUME TrackInv, Tracker \/ Sigint
    PROVE  ScanInv'
<1>0. /\ UNCHANGED frame /\ (~FindRedisPid => UNCHANGED moved)
      /\ ScanInv /\ FreshInv /\ FoundInv /\ TrackTypeOK
  BY TrackMemory DEF TrackInv
<1> USE DEF ScanInv
<1>1. CASE FindRedisPid
  BY <1>0, <1>1 DEF FindRedisPid, FreshInv, NoMeta
<1>2. CASE NextPoll
  <2>1. polls = 0 => ShouldRefresh
    <3>1. RefreshInterval # 0 => 0 % RefreshInterval = 0
      BY SMT
    <3> QED
      BY <3>1 DEF ShouldRefresh
  <2> QED
    BY <1>0, <1>2, <2>1 DEF NextPoll, FindRedisPid, TrackTypeOK
<1>3. CASE GetVmaRanges \/ OpenPagemapFd
  BY <1>0, <1>3 DEF GetVmaRanges, OpenPagemapFd, FindRedisPid
<1>4. CASE CollectPresentPfns
  <2>0. tpc = "scan" /\ tpc' = "mark" /\ UNCHANGED <<moved, frame>>
    BY <1>0, <1>4 DEF CollectPresentPfns, FindRedisPid
  <2>1. ASSUME NEW f \in Used
        PROVE  frame[CHOOSE v \in VPages : frame[v] = f] = f
    BY <2>1 DEF Used
  <2>2. ASSUME NEW w \in VPages, frame[w] # None
        PROVE  frame[w] \in Used /\ (CHOOSE v \in VPages : frame[v] = frame[w]) = w
    BY <2>2, MemoryFacts DEF TrackInv, Used
  <2>3. moved # VPages => meta' = [f \in Used |-> CHOOSE v \in VPages : frame[v] = f]
    BY <1>0, <1>4, <2>0 DEF CollectPresentPfns, FoundInv
  <2>4. moved = VPages => DOMAIN meta' \subseteq PFNs /\ \A f \in DOMAIN meta' : meta'[f] \in VPages
    BY TrackTypes DEF TrackTypeOK
  <2>5. CASE moved = VPages
    BY <2>0, <2>4, <2>5
  <2>6. CASE moved # VPages
    <3>1. \A f \in DOMAIN meta' : frame[meta'[f]] = f
      BY <2>1, <2>3, <2>6
    <3>2. ASSUME NEW w \in VPages, frame[w] # None
          PROVE  frame[w] \in DOMAIN meta' /\ meta'[frame[w]] = w
      <4> DEFINE g == frame[w]
      <4>1. g \in Used /\ (CHOOSE v \in VPages : frame[v] = g) = w
        BY <2>2, <3>2
      <4> HIDE DEF g
      <4>2. g \in DOMAIN meta' /\ meta'[g] = CHOOSE v \in VPages : frame[v] = g
        BY <2>3, <2>6, <4>1
      <4> QED
        BY <4>1, <4>2 DEF g
    <3> QED
      BY <2>0, <3>1, <3>2
  <2> QED
    BY <2>5, <2>6
<1>5. CASE MarkPfnsIdle \/ CheckPfnsAccessed \/ DumpOutput \/ Sigint
  BY <1>0, <1>5 DEF MarkPfnsIdle, CheckPfnsAccessed, DumpOutput, Sigint, FindRedisPid,
                    TrackTypeOK
<1> QED
  BY <1>1, <1>2, <1>3, <1>4, <1>5 DEF Tracker
(* Marking arms the heads of all pages that stand still, and forgets what  *)
(* was accessed.                                                           *)
LEMMA TrackBit ==
    ASSUME TrackInv, Tracker \/ Sigint
    PROVE  BitInv'
<1> SUFFICES ASSUME tpc' = "check"
             PROVE  BitInv'
  BY DEF BitInv
<1>1. MarkPfnsIdle
  BY DEF Tracker, FindRedisPid, NextPoll, GetVmaRanges, OpenPagemapFd,
         CollectPresentPfns, CheckPfnsAccessed, DumpOutput, Sigint
<1>2. /\ UNCHANGED <<frame, huge, moved>>  /\ hit' = {} /\ tpc = "mark"
      /\ idle' = idle \cup {f \in DOMAIN meta \cap Used : HeadOf(f) = f}
  BY <1>1, TrackMemory DEF MarkPfnsIdle, FindRedisPid
<1> SUFFICES ASSUME NEW v \in VPages, v \notin moved, frame[v] # None,
                    HeadOf(frame[v]) = frame[v]
             PROVE  frame[v] \in idle'
  BY <1>2 DEF BitInv, HeadOf
<1>3. frame[v] \in DOMAIN meta /\ frame[v] \in Used
  BY <1>2 DEF TrackInv, ScanInv, Used
<1> QED
  BY <1>2, <1>3

(* A poll counts the head of a page that stands still if it was accessed,  *)
(* and every tail.                                                         *)
LEMMA TrackCount ==
    ASSUME TrackInv, Tracker \/ Sigint
    PROVE  CountInv'
<1>0. /\ UNCHANGED <<frame, huge>> /\ (~FindRedisPid => UNCHANGED moved)
      /\ CountInv /\ FreshInv /\ TrackTypeOK /\ ScanInv /\ BitInv
  BY TrackMemory DEF TrackInv
<1>1. CASE FindRedisPid
  BY <1>0, <1>1, MemoryFacts DEF TrackInv, FindRedisPid, FreshInv, CountInv
<1>2. CASE CheckPfnsAccessed
  <2> SUFFICES ASSUME NEW v \in VPages, v \notin moved, frame[v] # None
               PROVE  accesses'[frame[v]] = IF HeadOf(frame[v]) = frame[v]
                                            THEN touched'[v] ELSE polls'
    BY <1>0, <1>2 DEF CheckPfnsAccessed, FindRedisPid, CountInv, HeadOf
  <2> DEFINE f == frame[v]
  <2>1. f \in PFNs /\ f \in DOMAIN meta /\ tpc = "check"
    BY <1>0, <1>2, MemoryFacts DEF TrackInv, CheckPfnsAccessed, ScanInv
  <2>2. accesses[f] = IF HeadOf(f) = f THEN touched[v] ELSE polls
    BY <1>0, <2>1 DEF CountInv
  <2>3. HeadOf(f) = f => (f \in idle <=> v \notin hit)
    BY <1>0, <2>1 DEF BitInv
  <2>4. HeadOf(f) # f => f \notin idle
    BY MemoryFacts DEF TrackInv
  <2>5. /\ accesses'[f] = IF f \notin idle THEN accesses[f] + 1 ELSE accesses[f]
        /\ touched'[v] = IF v \in hit THEN touched[v] + 1 ELSE touched[v]
        /\ polls' = polls + 1
    BY <1>2, <2>1 DEF CheckPfnsAccessed, PfnsAccessed
  <2> QED
    BY <2>2, <2>3, <2>4, <2>5
<1>3. CASE ~FindRedisPid /\ ~CheckPfnsAccessed
  <2>1. UNCHANGED <<accesses, touched, polls, moved>> /\ tpc # "find"
    BY <1>0, <1>3 DEF Tracker, NextPoll, GetVmaRanges, OpenPagemapFd,
         CollectPresentPfns, MarkPfnsIdle, DumpOutput, Sigint
  <2> QED
    BY <1>0, <2>1 DEF CountInv, HeadOf
<1> QED
  BY <1>1, <1>2, <1>3

(* The output is written once. *)
LEMMA TrackOutput ==
    ASSUME TrackInv, Tracker \/ Sigint
    PROVE  OutputInv'
<1>0. OutputInv /\ TrackTypeOK
  BY DEF TrackInv
<1>1. CASE DumpOutput
  BY <1>0, <1>1 DEF DumpOutput, OutputInv, TrackTypeOK
<1>2. CASE ~DumpOutput
  BY <1>0, <1>2 DEF OutputInv, Tracker, FindRedisPid, NextPoll, GetVmaRanges,
         OpenPagemapFd, CollectPresentPfns, MarkPfnsIdle, CheckPfnsAccessed, Sigint
<1> QED
  BY <1>1, <1>2

(* The invariant of the tracker holds in every behaviour. *)
THEOREM TrackInvCorrect == TrackerSpec => []TrackInv
<1>1. TrackInv /\ [TrackerNext]_idleVars => TrackInv'
  <2> SUFFICES ASSUME TrackInv, [TrackerNext]_idleVars
               PROVE  TrackInv'
    OBVIOUS
  <2>1. CASE Tracker \/ Sigint
    BY <2>1, TrackMemory, TrackTypes, TrackFound, TrackScan, TrackCount, TrackBit,
       TrackOutput DEF TrackInv
  <2>2. CASE TouchesKernel /\ Kernel /\ UNCHANGED trackVars
    BY <2>2, TrackKernel
  <2>3. CASE UNCHANGED idleVars
    <3>1. MemoryInv'
      BY <2>3 DEF TrackInv, MemoryInv, MemoryTypeOK, FramesInv, OwnerInv, IdleInv, HeadOf,
         Used, idleVars, memoryVars, kernelVars, trackerVars, historyVars
    <3>2. TrackTypeOK' /\ FreshInv' /\ FoundInv' /\ OutputInv'
      BY <2>3 DEF TrackInv, TrackTypeOK, FreshInv, FoundInv, OutputInv, idleVars,
         trackVars, memoryVars, kernelVars, historyVars
    <3>3. ScanInv' /\ CountInv' /\ BitInv'
      BY <2>3 DEF TrackInv, ScanInv, CountInv, BitInv, HeadOf, idleVars,
         trackVars, memoryVars, kernelVars, historyVars
    <3> QED
      BY <3>1, <3>2, <3>3 DEF TrackInv
  <2> QED
    BY <2>1, <2>2, <2>3 DEF TrackerNext
<1> QED
  BY TrackInit, <1>1, PTL DEF TrackerSpec

(* The plot of idle_accesses.py shows of every page that stood still in    *)
(* how many polls it was accessed.                                         *)
THEOREM PlotCorrect == TrackerSpec => []PlotSound
<1>1. TrackInv => PlotSound
  <2> SUFFICES ASSUME TrackInv, tpc = "ended", NEW f \in PlotLine,
                      output[f].page \notin moved
               PROVE  output[f].n = touched[output[f].page]
    BY DEF PlotSound
  <2>1. f \in DOMAIN output /\ output[f].n \notin {0, polls}
    BY DEF PlotLine
  <2>2. /\ f \in DOMAIN meta
        /\ output[f].page = meta[f] /\ output[f].n = accesses[f]
    BY <2>1 DEF TrackInv, OutputInv, NoMeta
  <2>3. meta[f] \in VPages /\ f \in PFNs /\ frame[meta[f]] = f
    BY <2>2 DEF TrackInv, TrackTypeOK, ScanInv
  <2>4. accesses[f] = IF HeadOf(f) = f THEN touched[meta[f]] ELSE polls
    BY <2>2, <2>3, HugeFrames DEF TrackInv, CountInv
  <2> QED
    BY <2>1, <2>2, <2>4
<1> QED
  BY <1>1, TrackInvCorrect, PTL

-----------------------------------------------------------------------------
(* The dataset of the huge page harness.                                   *)

HarnessRows == [id : {"cand", "scan"} \X Nat, at : Int,
                bucket : AgeBuckets \cup {"unknown"}]

HarnessActs == [decision : {"cand"} \X Nat, success : BOOLEAN]

HarnessTypeOK ==
  /\ hpc \in {"poll", "idle", "matches", "dataset"}
  /\ now \in Nat /\ decision \in Nat
  /\ emitted \in Seq(HarnessRows) /\ chunks \in Seq(HarnessRows)
  /\ endFile \in Seq(HarnessRows)
  /\ acted \in Seq(HarnessActs) /\ acts \in Seq(HarnessActs)
  /\ scans \in Seq([at : Nat, bucket : AgeBuckets \cup {"unknown"}])

(* The candidates that have been emitted, wherever they are *)
Kept == Range(chunks) \cup Range(endFile) \cup Range(emitted)

(* What the analysis looks at *)
Known == Range(LoadTable) \cup Range(ScanRows)

(* Every id that was given has a row and every row one of these ids, or it *)
(* is a scan that the analysis has written back.  A row has one content.   *)
KeptInv ==
  /\ \A n \in 1..decision : \E r \in Kept : r.id = <<"cand", n>>
  /\ \A r \in Kept : \/ \E n \in 1..decision : r.id = <<"cand", n>>
                     \/ hpc # "poll" /\ r \in Range(ScanRows)
  /\ \A r, s \in Kept : r.id = s.id => r = s

(* r is a decision to split that q may be matched with. *)
MayMatch(r, q) ==
  /\ q.id # r.id /\ q.bucket = r.bucket /\ q.at - r.at \in -MatchSpan..MatchSpan
  /\ \E k \in DOMAIN acts : acts[k].success /\ acts[k].decision = r.id

(* There is something to match. *)
Matchable == \E r, q \in Known : MayMatch(r, q)

FilesInv ==
  /\ hpc = "poll" => endFile = <<>> /\ matches = {} /\ complete = Nothing
  /\ hpc # "poll" => emitted = <<>>
  /\ hpc \in {"matches", "dataset"} => complete = Nothing
  /\ matches # {} => Matchable

(* The ids of the candidates and of the scans *)
Ids == {<<"cand", n>> : n \in 1..decision} \cup {<<"scan", i>> : i \in DOMAIN scans}

(* The decisions d have every candidate and every scan once. *)
Complete(d) ==
  /\ \A i, j \in DOMAIN d : d[i].row.id = d[j].row.id => i = j
  /\ {d[i].row.id : i \in DOMAIN d} = Ids

(* The pairs m are those of the decisions d, and of splits that succeeded. *)
Agree(m, d) ==
  /\ m = {[treated |-> d[i].row.id, control |-> d[i].control] :
             i \in {j \in DOMAIN d : d[j].control # NoControl}}
  /\ \A x \in m : \E k \in DOMAIN acts : acts[k].success /\ acts[k].decision = x.treated

(* What is in memory between two files *)
LoadedInv ==
  hpc \in {"matches", "dataset"} =>
    LET d == frames.found.decisions
        m == frames.found.matches
    IN  /\ frames.with.oneSec => d # <<>> /\ Complete(d)
        /\ frames.with.oneSec /\ frames.with.matching =>
              /\ Agree(m, d)
              /\ m = {} => ~Matchable
              /\ hpc = "dataset" => matches = m
        /\ m # {} => Matchable

HarnessInv == HarnessTypeOK /\ KeptInv /\ FilesInv /\ LoadedInv /\ DatasetSound

(* The members of a list of one more part *)
LEMMA RangeConcat ==
  ASSUME NEW S, NEW a \in Seq(S), NEW b \in Seq(S)
  PROVE  a \o b \in Seq(S) /\ Range(a \o b) = Range(a) \cup Range(b)
<1>1. /\ a \o b \in Seq(S) /\ Len(a \o b) = Len(a) + Len(b)
      /\ Len(a) \in Nat /\ Len(b) \in Nat
      /\ DOMAIN a = 1..Len(a) /\ DOMAIN b = 1..Len(b) /\ DOMAIN (a \o b) = 1..(Len(a) + Len(b))
      /\ \A i \in 1..Len(a) : (a \o b)[i] = a[i]
  OBVIOUS
<1>2. \A i \in 1..Len(b) : Len(a) + i \in 1..(Len(a) + Len(b)) /\ (a \o b)[Len(a) + i] = b[i]
  OBVIOUS
<1>3. ASSUME NEW i \in 1..(Len(a) + Len(b))
      PROVE  (a \o b)[i] \in Range(a) \cup Range(b)
  <2>1. CASE i <= Len(a)
    <3>1. i \in 1..Len(a)
      BY <1>1, <2>1
    <3> QED
      BY <1>1, <3>1 DEF Range
  <2>2. CASE ~(i <= Len(a))
    <3>1. i - Len(a) \in 1..Len(b) /\ Len(a) + (i - Len(a)) = i
      BY <1>1, <2>2
    <3>2. (a \o b)[i] = b[i - Len(a)]
      BY <1>2, <3>1
    <3> QED
      BY <1>1, <3>1, <3>2 DEF Range
  <2> QED
    BY <2>1, <2>2
<1>4. Range(a \o b) \subseteq Range(a) \cup Range(b)
  BY <1>1, <1>3 DEF Range
<1>5. Range(a) \subseteq Range(a \o b)
  <2>1. \A i \in 1..Len(a) : i \in 1..(Len(a) + Len(b))
    BY <1>1
  <2> QED
    BY <1>1, <2>1 DEF Range
<1>6. Range(b) \subseteq Range(a \o b)
  BY <1>1, <1>2 DEF Range
<1> QED
  BY <1>1, <1>4, <1>5, <1>6

(* The scans as rows *)
LEMMA ScansAreRows ==
  ASSUME HarnessTypeOK
  PROVE  /\ ScanRows \in Seq(HarnessRows) /\ DOMAIN ScanRows = DOMAIN scans
         /\ \A i \in DOMAIN scans : i \in Nat /\ ScanRows[i].id = <<"scan", i>>
         /\ \A r, s \in Range(ScanRows) : r.id = s.id => r = s
<1> DEFINE scanRow(i) == [id |-> <<"scan", i>>, at |-> scans[i].at, bucket |-> scans[i].bucket]
<1>1. /\ Len(scans) \in Nat /\ DOMAIN scans = 1..Len(scans)
      /\ \A i \in DOMAIN scans : scans[i] \in [at : Nat, bucket : AgeBuckets \cup {"unknown"}]
  <2> DEFINE S == [at : Nat, bucket : AgeBuckets \cup {"unknown"}]
  <2>1. scans \in Seq(S)
    BY DEF HarnessTypeOK
  <2> HIDE DEF S
  <2>2. /\ Len(scans) \in Nat /\ DOMAIN scans = 1..Len(scans)
        /\ \A i \in DOMAIN scans : scans[i] \in S
    BY <2>1
  <2> QED
    BY <2>2 DEF S
<1>2. ScanRows = [i \in 1..Len(scans) |-> scanRow(i)]
  BY <1>1 DEF ScanRows
<1>3. ASSUME NEW i \in 1..Len(scans)
      PROVE  scanRow(i) \in HarnessRows /\ scanRow(i).id = <<"scan", i>>
  BY <1>1, <1>3 DEF HarnessRows
<1> HIDE DEF scanRow
<1>4. ScanRows \in Seq(HarnessRows) /\ DOMAIN ScanRows = DOMAIN scans
  BY <1>1, <1>2, <1>3
<1>5. \A i \in DOMAIN scans : i \in Nat /\ ScanRows[i].id = <<"scan", i>>
  BY <1>1, <1>2, <1>3
<1>6. ASSUME NEW r \in Range(ScanRows), NEW s \in Range(ScanRows), r.id = s.id
      PROVE  r = s
  <2>1. PICK i \in DOMAIN scans : r = ScanRows[i]
    BY <1>4 DEF Range
  <2>2. PICK j \in DOMAIN scans : s = ScanRows[j]
    BY <1>4 DEF Range
  <2>3. <<"scan", i>> = <<"scan", j>>
    BY <1>5, <1>6, <2>1, <2>2
  <2> QED
    BY <2>1, <2>2, <2>3
<1> QED
  BY <1>4, <1>5, <1>6

(* How many members of a set of places there are up to one of them *)
LEMMA Ranks ==
  ASSUME NEW n \in Nat, NEW F, F \subseteq 1..n
  PROVE  /\ Cardinality(F) \in Nat
         /\ \A k \in 1..Cardinality(F) :
               \E i \in F : Cardinality({j \in 1..i : j \in F}) = k
         /\ \A i \in F : Cardinality({j \in 1..i : j \in F}) \in 1..Cardinality(F)
         /\ \A i, l \in F : Cardinality({j \in 1..i : j \in F})
                               = Cardinality({j \in 1..l : j \in F}) => i = l
<1> DEFINE Upto(i) == {j \in 1..i : j \in F}
           rank == [i \in F |-> Cardinality(Upto(i))]
           N == Cardinality(F)
<1>1. IsFiniteSet(F) /\ N \in Nat
  <2>1. IsFiniteSet(1..n)
    BY FS_Interval
  <2> QED
    BY <2>1, FS_Subset, FS_CardinalityType
<1>2. ASSUME NEW i \in F
      PROVE  /\ i \in Nat /\ IsFiniteSet(Upto(i)) /\ i \in Upto(i)
             /\ Cardinality(Upto(i)) \in 1..N
  <2>1. i \in Nat /\ i \in Upto(i) /\ Upto(i) \subseteq F
    OBVIOUS
  <2>2. IsFiniteSet(Upto(i)) /\ Cardinality(Upto(i)) \in Nat /\ Cardinality(Upto(i)) <= N
    BY <1>1, <2>1, FS_Subset, FS_CardinalityType
  <2>3. Cardinality(Upto(i)) # 0
    BY <2>1, <2>2, FS_EmptySet
  <2> QED
    BY <1>1, <2>1, <2>2, <2>3
<1>3. ASSUME NEW i \in F, NEW l \in F, i < l
      PROVE  Cardinality(Upto(i)) # Cardinality(Upto(l))
  <2>1. Upto(i) \subseteq Upto(l) /\ l \notin Upto(i) /\ l \in Upto(l)
    BY <1>2, <1>3
  <2>2. IsFiniteSet(Upto(l))
    BY <1>2
  <2> HIDE DEF Upto
  <2> QED
    BY <2>1, <2>2, FS_Subset
<1> HIDE DEF Upto
<1>4. \A i, l \in F : Cardinality(Upto(i)) = Cardinality(Upto(l)) => i = l
  <2> SUFFICES ASSUME NEW i \in F, NEW l \in F, Cardinality(Upto(i)) = Cardinality(Upto(l))
               PROVE  i = l
    OBVIOUS
  <2>1. ~(i < l) /\ ~(l < i)
    BY <1>3
  <2> QED
    BY <1>2, <2>1
<1>5. rank \in [F -> 1..N] /\ \A i \in F : rank[i] = Cardinality(Upto(i))
  BY <1>2
<1> HIDE DEF rank
<1>6. rank \in Injection(F, 1..N)
  BY <1>4, <1>5 DEF Injection, IsInjective
<1>7. IsFiniteSet(1..N) /\ Cardinality(1..N) = Cardinality(F)
  BY <1>1, FS_Interval
<1>8. rank \in Surjection(F, 1..N)
  BY <1>1, <1>6, <1>7, FS_Injection
<1>9. \A k \in 1..N : \E i \in F : Cardinality(Upto(i)) = k
  BY <1>5, <1>8 DEF Surjection
<1> QED
  BY <1>1, <1>2, <1>4, <1>9 DEF Upto

(* A list with scans added has every row that was there and every scan,    *)
(* and every id once.                                                      *)
LEMMA AugmentOnce ==
  ASSUME HarnessTypeOK, NEW rows \in Seq(HarnessRows),
         \A r, s \in Range(rows) \cup Range(ScanRows) : r.id = s.id => r = s
  PROVE  /\ Augment(rows) \in Seq(HarnessRows)
         /\ Range(Augment(rows)) = Range(rows) \cup Range(ScanRows)
         /\ \A k, l \in DOMAIN Augment(rows) :
               Augment(rows)[k].id = Augment(rows)[l].id => k = l
<1> DEFINE all == rows \o ScanRows
           n == Len(all)
           First(i) == \A j \in 1..(i - 1) : all[j].id # all[i].id
           F == {i \in DOMAIN all : First(i)}
           N == Cardinality(F)
           place(k) == CHOOSE i \in DOMAIN all :
                          First(i) /\ Cardinality({j \in 1..i : First(j)}) = k
           A == Augment(rows)
<1>1. ScanRows \in Seq(HarnessRows)
  BY ScansAreRows
<1>2. all \in Seq(HarnessRows) /\ Range(all) = Range(rows) \cup Range(ScanRows)
  BY <1>1, RangeConcat
<1>3. A = [k \in 1..N |-> all[place(k)]]
  BY DEF Augment
<1> HIDE DEF all, A
<1>4. /\ n \in Nat /\ DOMAIN all = 1..n
      /\ \A i \in 1..n : all[i] \in HarnessRows /\ all[i] \in Range(all)
  BY <1>2 DEF Range
<1>5. F \subseteq 1..n /\ \A i \in F : First(i)
  BY <1>4
<1>6. \A i \in F : {j \in 1..i : First(j)} = {j \in 1..i : j \in F}
  BY <1>4
<1> HIDE DEF F
<1>7. /\ N \in Nat
      /\ \A k \in 1..N : \E i \in F : Cardinality({j \in 1..i : First(j)}) = k
      /\ \A i \in F : Cardinality({j \in 1..i : First(j)}) \in 1..N
      /\ \A i, l \in F : Cardinality({j \in 1..i : First(j)})
                            = Cardinality({j \in 1..l : First(j)}) => i = l
  <2> HIDE DEF First, n
  <2>1. /\ Cardinality(F) \in Nat
        /\ \A k \in 1..Cardinality(F) :
              \E i \in F : Cardinality({j \in 1..i : j \in F}) = k
        /\ \A i \in F : Cardinality({j \in 1..i : j \in F}) \in 1..Cardinality(F)
        /\ \A i, l \in F : Cardinality({j \in 1..i : j \in F})
                              = Cardinality({j \in 1..l : j \in F}) => i = l
    BY <1>4, <1>5, Ranks
  <2>2. \A i \in F : Cardinality({j \in 1..i : First(j)}) = Cardinality({j \in 1..i : j \in F})
    BY <1>6
  <2> DEFINE R(i) == Cardinality({j \in 1..i : j \in F})
             Q(i) == Cardinality({j \in 1..i : First(j)})
  <2>3. /\ \A k \in 1..N : \E i \in F : R(i) = k
        /\ \A i \in F : R(i) \in 1..N
        /\ \A i, l \in F : R(i) = R(l) => i = l
    BY <2>1
  <2>4. \A i \in F : Q(i) = R(i)
    BY <2>2
  <2> HIDE DEF R, Q
  <2>5. /\ \A k \in 1..N : \E i \in F : Q(i) = k
        /\ \A i \in F : Q(i) \in 1..N
        /\ \A i, l \in F : Q(i) = Q(l) => i = l
    BY <2>3, <2>4
  <2> QED
    BY <2>1, <2>5 DEF Q
<1>8. ASSUME NEW k \in 1..N
      PROVE  place(k) \in F /\ Cardinality({j \in 1..place(k) : First(j)}) = k
  <2> HIDE DEF First
  <2>1. \E i \in DOMAIN all : First(i) /\ Cardinality({j \in 1..i : First(j)}) = k
    BY <1>4, <1>5, <1>7
  <2>2. /\ place(k) \in DOMAIN all /\ First(place(k))
        /\ Cardinality({j \in 1..place(k) : First(j)}) = k
    BY <2>1
  <2> QED
    BY <2>2 DEF F
<1> HIDE DEF place
<1>9. \A i, l \in F : all[i].id = all[l].id => i = l
  <2> SUFFICES ASSUME NEW i \in F, NEW l \in F, all[i].id = all[l].id
               PROVE  i = l
    OBVIOUS
  <2>1. i \in 1..n /\ l \in 1..n /\ n \in Nat
    BY <1>4, <1>5
  <2>2. ~(i < l)
    <3> SUFFICES ASSUME i < l PROVE FALSE
      OBVIOUS
    <3>1. i \in 1..(l - 1) /\ First(l)
      BY <1>5, <2>1
    <3> QED
      BY <3>1
  <2>3. ~(l < i)
    <3> SUFFICES ASSUME l < i PROVE FALSE
      OBVIOUS
    <3>1. l \in 1..(i - 1) /\ First(i)
      BY <1>5, <2>1
    <3> QED
      BY <3>1
  <2> QED
    BY <2>1, <2>2, <2>3
<1>10. ASSUME NEW i \in 1..n
       PROVE  \E l \in F : all[l].id = all[i].id
  <2> DEFINE T == {m \in 1..n : all[m].id = all[i].id}
  <2>1. T \subseteq Nat /\ i \in T
    BY <1>4
  <2>2. PICK m \in T : \A j \in T : m <= j
    <3> HIDE DEF T
    <3> QED
      BY <2>1, LeastNat
  <2>3. m \in 1..n /\ all[m].id = all[i].id
    OBVIOUS
  <2>4. First(m)
    <3> SUFFICES ASSUME NEW j \in 1..(m - 1), all[j].id = all[m].id
                 PROVE  FALSE
      OBVIOUS
    <3>1. j \in 1..n /\ ~(m <= j)
      BY <1>4, <2>3
    <3>2. j \in T
      BY <2>3, <3>1
    <3> QED
      BY <2>2, <3>1, <3>2
  <2> QED
    BY <1>4, <2>3, <2>4 DEF F
<1> HIDE DEF First, n
<1>11. /\ A \in Seq(HarnessRows) /\ DOMAIN A = 1..N
       /\ \A k \in 1..N : A[k] = all[place(k)]
  <2>1. \A k \in 1..N : all[place(k)] \in HarnessRows
    BY <1>4, <1>5, <1>8
  <2> HIDE DEF N
  <2> QED
    BY <1>3, <1>7, <2>1 DEF N
<1>12. \A k, l \in 1..N : A[k].id = A[l].id => k = l
  <2> SUFFICES ASSUME NEW k \in 1..N, NEW l \in 1..N, A[k].id = A[l].id
               PROVE  k = l
    OBVIOUS
  <2>1. place(k) \in F /\ place(l) \in F
    BY <1>8
  <2>2. all[place(k)].id = all[place(l)].id
    BY <1>11
  <2>3. place(k) = place(l)
    BY <1>9, <2>1, <2>2
  <2> QED
    BY <1>8, <2>3
<1>13. Range(A) \subseteq Range(all)
  <2>1. \A k \in 1..N : A[k] \in Range(all)
    BY <1>4, <1>5, <1>8, <1>11
  <2> QED
    BY <1>11, <2>1 DEF Range
<1>14. ASSUME NEW r \in Range(all) PROVE r \in Range(A)
  <2>1. PICK i \in 1..n : all[i] = r
    BY <1>4 DEF Range
  <2>2. PICK l \in F : all[l].id = all[i].id
    BY <1>10
  <2>3. l \in 1..n /\ all[l] \in Range(all)
    BY <1>4, <1>5
  <2>4. all[l] = r
    BY <1>2, <2>1, <2>2, <2>3
  <2>5. PICK k \in 1..N : k = Cardinality({j \in 1..l : First(j)})
    BY <1>7
  <2>6. place(k) = l
    BY <1>7, <1>8, <2>5
  <2> QED
    BY <1>11, <2>4, <2>6 DEF Range
<1> QED
  BY <1>2, <1>11, <1>12, <1>13, <1>14 DEF A

(* What has no rows has no members. *)
LEMMA RangeEmpty == Range(<<>>) = {}
  BY DEF Range

(* What a step of the hook does to the rest of the run *)
LEMMA HookStep ==
  ASSUME HarnessInv, hpc = "poll", hpc' \in {"poll", "idle"},
         hpc' # "poll" => emitted' = <<>>,
         hpc' = "poll" => endFile' = endFile,
         UNCHANGED <<matches, complete>>
  PROVE  FilesInv' /\ LoadedInv' /\ DatasetSound'
<1>1. endFile = <<>> /\ matches = {} /\ complete = Nothing
  BY DEF HarnessInv, FilesInv
<1>2. matches' = {} /\ complete' = Nothing /\ Nothing' = Nothing
  BY <1>1 DEF Nothing
<1>3. FilesInv'
  BY <1>1, <1>2 DEF FilesInv
<1>4. LoadedInv'
  BY DEF LoadedInv
<1>5. DatasetSound'
  BY <1>2 DEF DatasetSound, DecisionsOnce, MatchesAgree
<1> QED
  BY <1>3, <1>4, <1>5

(* A poll that finds nothing *)
LEMMA PollNothingStep ==
  ASSUME HarnessInv, PollNothing
  PROVE  HarnessInv'
<1>1. /\ hpc = "poll" /\ hpc' = "poll" /\ now' = now + 1
      /\ UNCHANGED <<decision, emitted, acted, chunks, acts, scans, endFile, matches, complete>>
  BY DEF PollNothing
<1>2. HarnessTypeOK'
  BY <1>1 DEF HarnessInv, HarnessTypeOK
<1>3. KeptInv'
  BY <1>1 DEF HarnessInv, KeptInv, Kept
<1>4. FilesInv' /\ LoadedInv' /\ DatasetSound'
  BY <1>1, HookStep
<1> QED
  BY <1>2, <1>3, <1>4 DEF HarnessInv

(* A scan of khugepaged *)
LEMMA ScanEventStep ==
  ASSUME HarnessInv, ScanEvent
  PROVE  HarnessInv'
<1>1. /\ hpc = "poll" /\ hpc' = "poll"
      /\ UNCHANGED <<now, decision, emitted, acted, chunks, acts, endFile, matches, complete>>
  BY DEF ScanEvent
<1>2. PICK b \in AgeBuckets \cup {"unknown"} : scans' = Append(scans, [at |-> now, bucket |-> b])
  BY DEF ScanEvent
<1>3. scans' \in Seq([at : Nat, bucket : AgeBuckets \cup {"unknown"}])
  <2> DEFINE S == [at : Nat, bucket : AgeBuckets \cup {"unknown"}]
             s == [at |-> now, bucket |-> b]
  <2>1. now \in Nat /\ scans \in Seq(S)
    BY DEF HarnessInv, HarnessTypeOK
  <2>2. s \in S
    BY <2>1
  <2>3. scans' = Append(scans, s)
    BY <1>2
  <2> HIDE DEF S, s
  <2>4. scans' \in Seq(S)
    BY <2>1, <2>2, <2>3
  <2> QED
    BY <2>4 DEF S
<1>4. HarnessTypeOK'
  BY <1>1, <1>3 DEF HarnessInv, HarnessTypeOK
<1>5. KeptInv'
  BY <1>1 DEF HarnessInv, KeptInv, Kept
<1>6. FilesInv' /\ LoadedInv' /\ DatasetSound'
  BY <1>1, HookStep
<1> QED
  BY <1>4, <1>5, <1>6 DEF HarnessInv

(* A pop puts the candidates behind those that were written. *)
LEMMA PopHarnessStep ==
  ASSUME HarnessInv, PopHarness
  PROVE  HarnessInv'
<1>1. /\ hpc = "poll" /\ hpc' = "poll"
      /\ chunks' = chunks \o emitted /\ acts' = acts \o acted
      /\ emitted' = <<>> /\ acted' = <<>>
      /\ UNCHANGED <<now, decision, scans, endFile, matches, complete>>
  BY DEF PopHarness
<1>2. /\ chunks \in Seq(HarnessRows) /\ emitted \in Seq(HarnessRows)
      /\ acts \in Seq(HarnessActs) /\ acted \in Seq(HarnessActs)
  BY DEF HarnessInv, HarnessTypeOK
<1>3. /\ chunks' \in Seq(HarnessRows) /\ Range(chunks') = Range(chunks) \cup Range(emitted)
      /\ acts' \in Seq(HarnessActs)
  BY <1>1, <1>2, RangeConcat
<1>4. emitted' \in Seq(HarnessRows) /\ acted' \in Seq(HarnessActs)
  BY <1>1
<1>5. HarnessTypeOK'
  BY <1>1, <1>3, <1>4 DEF HarnessInv, HarnessTypeOK
<1>6. Kept' = Kept
  BY <1>1, <1>3, RangeEmpty DEF Kept
<1>7. KeptInv'
  BY <1>1, <1>6 DEF HarnessInv, KeptInv
<1>8. FilesInv' /\ LoadedInv' /\ DatasetSound'
  BY <1>1, HookStep
<1> QED
  BY <1>5, <1>7, <1>8 DEF HarnessInv

(* The last pop *)
LEMMA EndHarnessStep ==
  ASSUME HarnessInv, EndHarness
  PROVE  HarnessInv'
<1>1. /\ hpc = "poll" /\ hpc' = "idle"
      /\ endFile' = emitted /\ acts' = acts \o acted
      /\ emitted' = <<>> /\ acted' = <<>>
      /\ UNCHANGED <<now, decision, chunks, scans, matches, complete>>
  BY DEF EndHarness
<1>2. /\ emitted \in Seq(HarnessRows)
      /\ acts \in Seq(HarnessActs) /\ acted \in Seq(HarnessActs)
  BY DEF HarnessInv, HarnessTypeOK
<1>3. acts' \in Seq(HarnessActs)
  BY <1>1, <1>2, RangeConcat
<1>4. emitted' \in Seq(HarnessRows) /\ acted' \in Seq(HarnessActs)
  BY <1>1
<1>5. HarnessTypeOK'
  BY <1>1, <1>2, <1>3, <1>4 DEF HarnessInv, HarnessTypeOK
<1>6. endFile = <<>>
  BY <1>1 DEF HarnessInv, FilesInv
<1>7. Kept' = Kept
  BY <1>1, <1>6, RangeEmpty DEF Kept
<1>8. KeptInv'
  BY <1>1, <1>7 DEF HarnessInv, KeptInv
<1>9. FilesInv' /\ LoadedInv' /\ DatasetSound'
  BY <1>1, HookStep
<1> QED
  BY <1>5, <1>8, <1>9 DEF HarnessInv

(* A poll that sees regions gives one or two new ids. *)
LEMMA PollRegionsStep ==
  ASSUME HarnessInv, PollRegions
  PROVE  HarnessInv'
<1>1. /\ hpc = "poll" /\ hpc' = "poll" /\ now' = now + 1
      /\ UNCHANGED <<chunks, acts, scans, endFile, matches, complete>>
  BY DEF PollRegions
<1>2. /\ now \in Nat /\ decision \in Nat /\ emitted \in Seq(HarnessRows)
      /\ acted \in Seq(HarnessActs)
  BY DEF HarnessInv, HarnessTypeOK
<1>3. PICK shown \in ParseSmaps, success \in BOOLEAN :
        \E calm \in SUBSET (shown \cap seen) :
          LET n == decision + Negative(calm) + 1
          IN  /\ decision' = n
              /\ emitted' = emitted \o
                    [i \in 1..(n - decision) |-> EmitCandidate(decision + i)]
              /\ IF InterventionDue THEN RunIntervention(n, success)
                                    ELSE UNCHANGED acted
  BY DEF PollRegions
<1>4. PICK calm \in SUBSET (shown \cap seen) :
          LET n == decision + Negative(calm) + 1
          IN  /\ decision' = n
              /\ emitted' = emitted \o
                    [i \in 1..(n - decision) |-> EmitCandidate(decision + i)]
              /\ IF InterventionDue THEN RunIntervention(n, success)
                                    ELSE UNCHANGED acted
  BY <1>3
<1>5. Negative(calm) \in {0, 1}
  BY DEF Negative
<1>6. decision' \in Nat /\ decision < decision' /\ decision' - decision \in Nat
  BY <1>2, <1>4, <1>5
<1> DEFINE new == [i \in 1..(decision' - decision) |-> EmitCandidate(decision + i)]
<1>7. emitted' = emitted \o new
  BY <1>4
<1>8. acted' \in Seq(HarnessActs)
  <2> DEFINE act == [decision |-> <<"cand", decision'>>, success |-> success]
  <2>1. act \in HarnessActs
    BY <1>6 DEF HarnessActs
  <2>2. acted' = Append(acted, act) \/ acted' = acted
    BY <1>4 DEF RunIntervention
  <2> HIDE DEF act
  <2> QED
    BY <1>2, <2>1, <2>2
<1>9. /\ \A k : EmitCandidate(k).id = <<"cand", k>>
      /\ \A k \in Nat : EmitCandidate(k) \in HarnessRows
  BY <1>1, <1>2 DEF EmitCandidate, HarnessRows
<1>10. new \in Seq(HarnessRows)
  <2>1. \A i \in 1..(decision' - decision) : EmitCandidate(decision + i) \in HarnessRows
    BY <1>2, <1>9
  <2> QED
    BY <1>6, <2>1
<1>11. /\ \A r \in Range(new) : \E k \in 1..decision' : decision < k /\ r = EmitCandidate(k)
       /\ \A k \in 1..decision' : decision < k => EmitCandidate(k) \in Range(new)
  <2>0. \A m, n \in Nat : m < n =>
          /\ \A i \in 1..(n - m) : m + i \in 1..n /\ m < m + i
          /\ \A k \in 1..n : m < k => k - m \in 1..(n - m) /\ m + (k - m) = k
    OBVIOUS
  <2>1. \A i \in 1..(decision' - decision) :
           decision + i \in 1..decision' /\ decision < decision + i
    BY <1>2, <1>6, <2>0
  <2>2. \A k \in 1..decision' : decision < k =>
           k - decision \in 1..(decision' - decision) /\ decision + (k - decision) = k
    BY <1>2, <1>6, <2>0
  <2>3. DOMAIN new = 1..(decision' - decision)
        /\ \A i \in 1..(decision' - decision) : new[i] = EmitCandidate(decision + i)
    OBVIOUS
  <2> HIDE DEF new
  <2>4. \A r \in Range(new) : \E k \in 1..decision' : decision < k /\ r = EmitCandidate(k)
    BY <2>1, <2>3 DEF Range
  <2>5. ASSUME NEW k \in 1..decision', decision < k
        PROVE  EmitCandidate(k) \in Range(new)
    <3>1. new[k - decision] = EmitCandidate(k)
      BY <2>2, <2>3, <2>5
    <3> QED
      BY <2>2, <2>3, <2>5, <3>1 DEF Range
  <2> QED
    BY <2>4, <2>5
<1> HIDE DEF new
<1>12. emitted' \in Seq(HarnessRows) /\ Range(emitted') = Range(emitted) \cup Range(new)
  BY <1>2, <1>7, <1>10, RangeConcat
<1>13. HarnessTypeOK'
  BY <1>1, <1>2, <1>6, <1>8, <1>12 DEF HarnessInv, HarnessTypeOK
<1>14. Kept' = Kept \cup Range(new)
  BY <1>1, <1>12 DEF Kept
<1>15. /\ \A n \in 1..decision : \E r \in Kept : r.id = <<"cand", n>>
       /\ \A r \in Kept : \E n \in 1..decision : r.id = <<"cand", n>>
       /\ \A r, s \in Kept : r.id = s.id => r = s
  BY <1>1 DEF HarnessInv, KeptInv
<1>16. \A n \in 1..decision' : \E r \in Kept' : r.id = <<"cand", n>>
  <2> SUFFICES ASSUME NEW n \in 1..decision'
               PROVE  \E r \in Kept' : r.id = <<"cand", n>>
    OBVIOUS
  <2>1. CASE decision < n
    BY <1>9, <1>11, <1>14, <2>1
  <2>2. CASE ~(decision < n)
    <3>1. n \in 1..decision
      BY <1>2, <1>6, <2>2
    <3> QED
      BY <1>14, <1>15, <3>1
  <2> QED
    BY <2>1, <2>2
<1>17. \A r \in Kept' : \E n \in 1..decision' : r.id = <<"cand", n>>
  <2> SUFFICES ASSUME NEW r \in Kept'
               PROVE  \E n \in 1..decision' : r.id = <<"cand", n>>
    OBVIOUS
  <2>1. CASE r \in Range(new)
    BY <1>9, <1>11, <2>1
  <2>2. CASE r \in Kept
    <3>1. PICK n \in 1..decision : r.id = <<"cand", n>>
      BY <1>15, <2>2
    <3>2. n \in 1..decision'
      BY <1>2, <1>6
    <3> QED
      BY <3>1, <3>2
  <2> QED
    BY <1>14, <2>1, <2>2
<1>18. ASSUME NEW r \in Range(new), NEW s \in Kept PROVE r.id # s.id
  <2>1. PICK k \in 1..decision' : decision < k /\ r.id = <<"cand", k>>
    BY <1>9, <1>11
  <2>2. PICK n \in 1..decision : s.id = <<"cand", n>>
    BY <1>15
  <2>3. k # n
    BY <1>2, <2>1
  <2> QED
    BY <2>1, <2>2, <2>3
<1>19. ASSUME NEW r \in Range(new), NEW s \in Range(new), r.id = s.id PROVE r = s
  <2>1. PICK k \in 1..decision' : r = EmitCandidate(k) /\ r.id = <<"cand", k>>
    BY <1>9, <1>11
  <2>2. PICK l \in 1..decision' : s = EmitCandidate(l) /\ s.id = <<"cand", l>>
    BY <1>9, <1>11
  <2>3. k = l
    BY <1>19, <2>1, <2>2
  <2> QED
    BY <2>1, <2>2, <2>3
<1>20. \A r, s \in Kept' : r.id = s.id => r = s
  BY <1>14, <1>15, <1>18, <1>19
<1>21. KeptInv'
  BY <1>16, <1>17, <1>20 DEF KeptInv
<1>22. FilesInv' /\ LoadedInv' /\ DatasetSound'
  BY <1>1, HookStep
<1> QED
  BY <1>13, <1>21, <1>22 DEF HarnessInv

(* What the analysis looks at is what was kept and the scans; there is a   *)
(* row for every id and no more.                                           *)
LEMMA KnownRows ==
  ASSUME HarnessInv, hpc # "poll"
  PROVE  /\ LoadTable \in Seq(HarnessRows) /\ Range(LoadTable) = Kept
         /\ \A r, s \in Known : r.id = s.id => r = s
         /\ \A r \in Known : r.id \in Ids
         /\ \A x \in Ids : \E r \in Known : r.id = x
<1>1. chunks \in Seq(HarnessRows) /\ endFile \in Seq(HarnessRows) /\ emitted = <<>>
  BY DEF HarnessInv, HarnessTypeOK, FilesInv
<1>2. LoadTable \in Seq(HarnessRows) /\ Range(LoadTable) = Kept
  BY <1>1, RangeConcat, RangeEmpty DEF LoadTable, Kept
<1>3. Known = Kept \cup Range(ScanRows)
  BY <1>2 DEF Known
<1>4. /\ DOMAIN ScanRows = DOMAIN scans
      /\ \A i \in DOMAIN scans : i \in Nat /\ ScanRows[i].id = <<"scan", i>>
      /\ \A r, s \in Range(ScanRows) : r.id = s.id => r = s
  BY ScansAreRows DEF HarnessInv
<1>5. /\ \A n \in 1..decision : \E r \in Kept : r.id = <<"cand", n>>
      /\ \A r \in Kept : \/ \E n \in 1..decision : r.id = <<"cand", n>>
                         \/ r \in Range(ScanRows)
      /\ \A r, s \in Kept : r.id = s.id => r = s
  BY DEF HarnessInv, KeptInv
<1>6. \A r \in Range(ScanRows) : \E i \in DOMAIN scans : r.id = <<"scan", i>> /\ r = ScanRows[i]
  BY <1>4 DEF Range
<1>7. \A i \in DOMAIN scans : ScanRows[i] \in Range(ScanRows)
  BY <1>4 DEF Range
<1>8. ASSUME NEW r \in Kept, NEW s \in Range(ScanRows), r.id = s.id
      PROVE  r = s
  <2>1. PICK i \in DOMAIN scans : s.id = <<"scan", i>>
    BY <1>6
  <2>2. ~ \E n \in 1..decision : r.id = <<"cand", n>>
    BY <1>8, <2>1
  <2>3. r \in Range(ScanRows)
    BY <1>5, <2>2
  <2> QED
    BY <1>4, <1>8, <2>3
<1>9. \A r, s \in Known : r.id = s.id => r = s
  BY <1>3, <1>4, <1>5, <1>8
<1>10. \A r \in Range(ScanRows) : r.id \in Ids
  BY <1>6 DEF Ids
<1>11. \A r \in Known : r.id \in Ids
  BY <1>3, <1>5, <1>10 DEF Ids
<1>12. ASSUME NEW x \in Ids
       PROVE  \E r \in Known : r.id = x
  <2>1. CASE \E n \in 1..decision : x = <<"cand", n>>
    BY <1>3, <1>5, <2>1
  <2>2. CASE \E i \in DOMAIN scans : x = <<"scan", i>>
    BY <1>3, <1>4, <1>7, <2>2
  <2> QED
    BY <2>1, <2>2 DEF Ids
<1> QED
  BY <1>2, <1>9, <1>11, <1>12

(* What is loaded and augmented is all that is known, once. *)
LEMMA LoadedOnce ==
  ASSUME HarnessInv, hpc # "poll", NEW rows, rows = Augment(LoadTable)
  PROVE  /\ rows \in Seq(HarnessRows) /\ Range(rows) = Known
         /\ \A i, j \in DOMAIN rows : rows[i].id = rows[j].id => i = j
         /\ {rows[i].id : i \in DOMAIN rows} = Ids
<1>1. /\ LoadTable \in Seq(HarnessRows) /\ HarnessTypeOK
      /\ \A r, s \in Known : r.id = s.id => r = s
      /\ \A r \in Known : r.id \in Ids
      /\ \A x \in Ids : \E r \in Known : r.id = x
  BY KnownRows DEF HarnessInv
<1>2. /\ rows \in Seq(HarnessRows) /\ Range(rows) = Known
      /\ \A i, j \in DOMAIN rows : rows[i].id = rows[j].id => i = j
  BY <1>1, AugmentOnce DEF Known
<1>3. /\ \A i \in DOMAIN rows : rows[i] \in Known
      /\ \A r \in Known : \E i \in DOMAIN rows : rows[i] = r
  BY <1>2 DEF Range
<1>4. {rows[i].id : i \in DOMAIN rows} = Ids
  <2>1. \A i \in DOMAIN rows : rows[i].id \in Ids
    BY <1>1, <1>3
  <2>2. ASSUME NEW x \in Ids PROVE \E i \in DOMAIN rows : rows[i].id = x
    <3>1. PICK r \in Known : r.id = x
      BY <1>1
    <3>2. PICK i \in DOMAIN rows : rows[i] = r
      BY <1>3
    <3> QED
      BY <3>1, <3>2
  <2> QED
    BY <2>1, <2>2
<1> QED
  BY <1>2, <1>4

(* The decisions of a call, before they are matched *)
LEMMA DecisionsMade ==
  ASSUME NEW rows \in Seq(HarnessRows), NEW oneSec \in BOOLEAN, NEW made,
         made = Decisions(rows, oneSec)
  PROVE  /\ oneSec => DOMAIN made = DOMAIN rows
         /\ ~oneSec => DOMAIN made = {}
         /\ \A i \in DOMAIN made : /\ i \in DOMAIN rows
                                   /\ made[i].row = rows[i] /\ made[i].control = NoControl
                                   /\ DOMAIN made[i] = {"row", "control"}
<1>1. DOMAIN <<>> = {}
  OBVIOUS
<1>2. /\ oneSec => DOMAIN Features(rows, oneSec) = DOMAIN rows
      /\ ~oneSec => DOMAIN Features(rows, oneSec) = {}
  BY <1>1 DEF Features
<1>3. made = [i \in DOMAIN Features(rows, oneSec) |-> [row |-> rows[i], control |-> NoControl]]
  BY DEF Decisions
<1>4. DOMAIN made = DOMAIN Features(rows, oneSec)
  BY <1>3
<1>5. ASSUME NEW i \in DOMAIN made
      PROVE  made[i] = [row |-> rows[i], control |-> NoControl]
  BY <1>3, <1>4
<1>6. ASSUME NEW i \in DOMAIN made
      PROVE  /\ made[i].row = rows[i] /\ made[i].control = NoControl
             /\ DOMAIN made[i] = {"row", "control"}
  BY <1>5
<1> QED
  BY <1>2, <1>4, <1>6

(* The decisions and matches of a call *)
LEMMA Found ==
  ASSUME HarnessInv, hpc # "poll", NEW rows, rows = Augment(LoadTable), rows # <<>>,
         NEW matching \in BOOLEAN, NEW oneSec \in BOOLEAN,
         NEW made, made = Decisions(rows, oneSec),
         NEW pick, pick \in IF matching THEN Picks(made) ELSE {<<>>},
         NEW d, d = MatchInterventions(made, pick).decisions,
         NEW m, m = MatchInterventions(made, pick).matches
  PROVE  /\ oneSec => d # <<>> /\ Complete(d)
         /\ oneSec /\ matching => Agree(m, d) /\ (m = {} => ~Matchable)
         /\ m # {} => Matchable
<1>1. /\ rows \in Seq(HarnessRows) /\ Range(rows) = Known
      /\ \A i, j \in DOMAIN rows : rows[i].id = rows[j].id => i = j
      /\ {rows[i].id : i \in DOMAIN rows} = Ids
  BY LoadedOnce
<1>2. /\ oneSec => DOMAIN made = DOMAIN rows
      /\ ~oneSec => DOMAIN made = {}
      /\ \A i \in DOMAIN made : /\ i \in DOMAIN rows
                                /\ made[i].row = rows[i] /\ made[i].control = NoControl
                                /\ DOMAIN made[i] = {"row", "control"}
  BY <1>1, DecisionsMade
<1>3. /\ \A i \in DOMAIN rows : rows[i] \in Known /\ rows[i] \in HarnessRows
      /\ \A r \in Known : \E i \in DOMAIN rows : rows[i] = r
  BY <1>1 DEF Range
<1>4. \A i \in DOMAIN rows : rows[i].id \in {"cand", "scan"} \X Nat
  BY <1>3 DEF HarnessRows
<1>5. \A i \in DOMAIN rows : rows[i].id # NoControl
  BY <1>4 DEF NoControl
<1>6. /\ DOMAIN pick = IF matching THEN Treated(made) ELSE {}
      /\ \A i \in DOMAIN pick : pick[i] \in DOMAIN made /\ pick[i] \in Controls(made[i], made)
  <2>1. CASE matching
    <3>1. pick \in Picks(made)
      BY <2>1
    <3>2. /\ pick \in [Treated(made) -> DOMAIN made]
          /\ \A i \in Treated(made) : pick[i] \in Controls(made[i], made)
      BY <3>1 DEF Picks
    <3> QED
      BY <2>1, <3>2
  <2>2. CASE ~matching
    <3>1. pick = <<>>
      BY <2>2
    <3>2. DOMAIN pick = {}
      BY <3>1
    <3> QED
      BY <2>2, <3>2
  <2> QED
    BY <2>1, <2>2
<1>7. /\ Treated(made) \subseteq DOMAIN made
      /\ \A i \in Treated(made) :
            \E k \in DOMAIN acts : acts[k].success /\ acts[k].decision = made[i].row.id
  BY DEF Treated
<1>8. /\ DOMAIN pick \subseteq DOMAIN made
      /\ \A i \in DOMAIN pick :
            \E k \in DOMAIN acts : acts[k].success /\ acts[k].decision = rows[i].id
  BY <1>2, <1>6, <1>7
<1>9. /\ m = {[treated |-> made[i].row.id, control |-> made[pick[i]].row.id] : i \in DOMAIN pick}
      /\ d = [i \in DOMAIN made |->
                 IF i \in DOMAIN pick
                 THEN [made[i] EXCEPT !.control = made[pick[i]].row.id]
                 ELSE made[i]]
  BY DEF MatchInterventions
<1>10. DOMAIN d = DOMAIN made
  BY <1>9
<1>11. ASSUME NEW i \in DOMAIN made
       PROVE  /\ d[i].row = rows[i]
              /\ i \in DOMAIN pick => d[i].control = rows[pick[i]].id
              /\ i \notin DOMAIN pick => d[i].control = NoControl
  <2>1. CASE i \in DOMAIN pick
    <3>1. pick[i] \in DOMAIN made
      BY <1>6, <2>1
    <3>2. d[i] = [made[i] EXCEPT !.control = made[pick[i]].row.id]
      BY <1>9, <2>1
    <3>3. d[i].row = made[i].row /\ d[i].control = made[pick[i]].row.id
      BY <1>2, <3>2
    <3> QED
      BY <1>2, <2>1, <3>1, <3>3
  <2>2. CASE i \notin DOMAIN pick
    <3>1. d[i] = made[i]
      BY <1>9, <2>2
    <3> QED
      BY <1>2, <2>2, <3>1
  <2> QED
    BY <2>1, <2>2
<1>12. ASSUME oneSec PROVE d # <<>> /\ Complete(d)
  <2>1. DOMAIN d = DOMAIN rows
    BY <1>2, <1>10, <1>12
  <2>2. DOMAIN rows # {}
    BY <1>1
  <2>3. \A i \in DOMAIN d : d[i].row = rows[i]
    BY <1>10, <1>11
  <2>4. d # <<>>
    <3>1. DOMAIN <<>> = {}
      OBVIOUS
    <3> QED
      BY <2>1, <2>2, <3>1
  <2>5. \A i, j \in DOMAIN d : d[i].row.id = d[j].row.id => i = j
    BY <1>1, <2>1, <2>3
  <2>6. {d[i].row.id : i \in DOMAIN d} = {rows[i].id : i \in DOMAIN rows}
    BY <2>1, <2>3
  <2> QED
    BY <1>1, <2>4, <2>5, <2>6 DEF Complete
<1>13. \A i \in DOMAIN pick : made[i].row.id = rows[i].id /\ made[pick[i]].row.id = rows[pick[i]].id
  BY <1>2, <1>6, <1>8
<1>14. m = {[treated |-> rows[i].id, control |-> rows[pick[i]].id] : i \in DOMAIN pick}
  BY <1>9, <1>13
<1>15. {i \in DOMAIN d : d[i].control # NoControl} = DOMAIN pick
  <2>1. \A i \in DOMAIN pick : rows[pick[i]].id # NoControl
    BY <1>2, <1>5, <1>6
  <2>2. \A i \in DOMAIN made : d[i].control # NoControl <=> i \in DOMAIN pick
    <3> SUFFICES ASSUME NEW i \in DOMAIN made
                 PROVE  d[i].control # NoControl <=> i \in DOMAIN pick
      OBVIOUS
    <3>1. i \in DOMAIN pick => d[i].control = rows[pick[i]].id
      BY <1>11
    <3>2. i \notin DOMAIN pick => d[i].control = NoControl
      BY <1>11
    <3> QED
      BY <2>1, <3>1, <3>2
  <2> QED
    BY <1>8, <1>10, <2>2
<1>16. Agree(m, d)
  <2>1. {[treated |-> d[i].row.id, control |-> d[i].control] : i \in DOMAIN pick}
          = {[treated |-> rows[i].id, control |-> rows[pick[i]].id] : i \in DOMAIN pick}
    BY <1>8, <1>11
  <2>2. ASSUME NEW x \in m
        PROVE  \E k \in DOMAIN acts : acts[k].success /\ acts[k].decision = x.treated
    <3>1. PICK i \in DOMAIN pick : x = [treated |-> rows[i].id, control |-> rows[pick[i]].id]
      BY <1>14
    <3>2. x.treated = rows[i].id
      BY <3>1
    <3> QED
      BY <1>8, <3>2
  <2> QED
    BY <1>14, <1>15, <2>1, <2>2 DEF Agree
<1>17. ASSUME m # {} PROVE Matchable
  <2>1. PICK i \in DOMAIN pick : TRUE
    BY <1>14, <1>17
  <2>2. i \in DOMAIN made /\ pick[i] \in DOMAIN made /\ pick[i] \in Controls(made[i], made)
    BY <1>6, <1>8
  <2>3. /\ rows[i] \in Known /\ rows[pick[i]] \in Known
        /\ made[i].row = rows[i] /\ made[pick[i]].row = rows[pick[i]]
    BY <1>2, <1>3, <2>2
  <2>4. /\ rows[pick[i]].id # rows[i].id /\ rows[pick[i]].bucket = rows[i].bucket
        /\ rows[pick[i]].at - rows[i].at \in -MatchSpan..MatchSpan
    BY <2>2, <2>3 DEF Controls
  <2>5. MayMatch(rows[i], rows[pick[i]])
    BY <1>8, <2>1, <2>4 DEF MayMatch
  <2> QED
    BY <2>3, <2>5 DEF Matchable
<1>18. ASSUME oneSec, matching, Matchable PROVE m # {}
  <2>1. PICK r \in Known, q \in Known : MayMatch(r, q)
    BY <1>18 DEF Matchable
  <2>2. PICK i \in DOMAIN rows : rows[i] = r
    BY <1>3
  <2>3. PICK j \in DOMAIN rows : rows[j] = q
    BY <1>3
  <2>4. i \in DOMAIN made /\ j \in DOMAIN made /\ made[i].row = r /\ made[j].row = q
    BY <1>2, <1>18, <2>2, <2>3
  <2>5. j \in Controls(made[i], made)
    BY <2>1, <2>4 DEF Controls, MayMatch
  <2>6. i \in Treated(made)
    BY <2>1, <2>4, <2>5 DEF Treated, MayMatch
  <2>7. i \in DOMAIN pick
    BY <1>6, <1>18, <2>6
  <2> QED
    BY <1>14, <2>7
<1> QED
  BY <1>12, <1>16, <1>17, <1>18

(* What does not change if the hook does nothing *)
LEMMA KeepsKnown ==
  ASSUME UNCHANGED <<hookVars>>
  PROVE  /\ Ids' = Ids /\ ScanRows' = ScanRows
         /\ \A d : Complete(d)' <=> Complete(d)
         /\ \A m, d : Agree(m, d)' <=> Agree(m, d)
         /\ Known' = Known => (Matchable' <=> Matchable)
<1>1. UNCHANGED <<decision, scans, acts>>
  BY DEF hookVars
<1>2. Ids' = Ids
  BY <1>1 DEF Ids
<1>3. ScanRows' = ScanRows
  BY <1>1 DEF ScanRows
<1>4. \A d : Complete(d)' <=> Complete(d)
  BY <1>2 DEF Complete
<1>5. \A m, d : Agree(m, d)' <=> Agree(m, d)
  BY <1>1 DEF Agree
<1>6. \A r, q : MayMatch(r, q)' <=> MayMatch(r, q)
  BY <1>1 DEF MayMatch
<1>7. Known' = Known => (Matchable' <=> Matchable)
  BY <1>6 DEF Matchable
<1> QED
  BY <1>2, <1>3, <1>4, <1>5, <1>7

(* The property, in terms of the invariant *)
FilesAgree ==
  /\ complete # Nothing /\ complete.oneSec => Complete(dataset)
  /\ complete # Nothing /\ complete.oneSec /\ complete.matching => Agree(matches, dataset)

(* The two say the same of the files. *)
LEMMA DatasetMeans == DatasetSound <=> FilesAgree
<1> DEFINE ids == [i \in DOMAIN dataset |-> dataset[i].row.id]
<1>1. DOMAIN ids = DOMAIN dataset /\ \A i \in DOMAIN dataset : ids[i] = dataset[i].row.id
  OBVIOUS
<1>2. DecisionsOnce <=> (complete # Nothing /\ complete.oneSec
                            => IsInjective(ids) /\ Range(ids) = Ids)
  BY DEF DecisionsOnce, Ids
<1> HIDE DEF ids
<1>3. IsInjective(ids)
        <=> \A i, j \in DOMAIN dataset : dataset[i].row.id = dataset[j].row.id => i = j
  BY <1>1 DEF IsInjective
<1>4. Range(ids) = {dataset[i].row.id : i \in DOMAIN dataset}
  BY <1>1 DEF Range
<1>5. DecisionsOnce <=> (complete # Nothing /\ complete.oneSec => Complete(dataset))
  BY <1>2, <1>3, <1>4 DEF Complete
<1>6. MatchesAgree <=> (complete # Nothing /\ complete.oneSec /\ complete.matching
                           => Agree(matches, dataset))
  BY DEF MatchesAgree, Agree
<1> QED
  BY <1>5, <1>6 DEF DatasetSound, FilesAgree

(* As long as no call is complete there is nothing to show. *)
LEMMA NothingComplete ==
  ASSUME complete = Nothing
  PROVE  DatasetSound
  BY DEF DatasetSound, DecisionsOnce, MatchesAgree

(* A call writes the candidates and scans back and has its results in      *)
(* memory.                                                                 *)
LEMMA ProcessRunStep ==
  ASSUME HarnessInv, ProcessRun
  PROVE  HarnessInv'
<1> DEFINE rows == Augment(LoadTable)
<1>1. /\ hpc = "idle" /\ complete' = Nothing /\ UNCHANGED <<hookVars, dataset, matches>>
      /\ endFile' = WriteParquet(endFile, rows, <<>>)
  BY DEF ProcessRun
<1>2. PICK matching \in BOOLEAN, oneSec \in BOOLEAN :
         IF rows = <<>> THEN UNCHANGED <<hpc, frames>>
         ELSE /\ hpc' = "matches"
              /\ \E pick \in IF matching THEN Picks(Decisions(rows, oneSec)) ELSE {<<>>} :
                    frames' = [found |-> MatchInterventions(Decisions(rows, oneSec), pick),
                               with  |-> [matching |-> matching, oneSec |-> oneSec]]
  BY DEF ProcessRun
<1>3. /\ rows \in Seq(HarnessRows) /\ Range(rows) = Known
      /\ \A i, j \in DOMAIN rows : rows[i].id = rows[j].id => i = j
  BY <1>1, LoadedOnce
<1>4. /\ chunks \in Seq(HarnessRows) /\ endFile \in Seq(HarnessRows) /\ emitted = <<>>
      /\ Range(LoadTable) = Kept
  BY <1>1, KnownRows DEF HarnessInv, HarnessTypeOK, FilesInv
<1>5. /\ Ids' = Ids /\ ScanRows' = ScanRows
      /\ \A d : Complete(d)' <=> Complete(d)
      /\ \A m, d : Agree(m, d)' <=> Agree(m, d)
      /\ Known' = Known => (Matchable' <=> Matchable)
  BY <1>1, KeepsKnown
<1>6. /\ UNCHANGED <<now, decision, emitted, acted, chunks, acts, scans>>
      /\ hpc' \in {"idle", "matches"}
  BY <1>1, <1>2 DEF hookVars
<1> HIDE DEF rows
<1>7. endFile' \in Seq(HarnessRows) /\ Range(chunks) \subseteq Known
      /\ Range(endFile') \subseteq Known
  <2>1. Range(chunks) \subseteq Known /\ Range(endFile) \subseteq Known
    BY <1>4 DEF Known, Kept
  <2> QED
    BY <1>1, <1>3, <1>4, <2>1 DEF WriteParquet
<1>8. Range(chunks) \cup Range(endFile') \cup Range(ScanRows) = Known
  <2>1. CASE rows = <<>>
    <3>1. endFile' = endFile
      BY <1>1, <2>1 DEF WriteParquet
    <3> QED
      BY <1>4, <3>1, RangeEmpty DEF Known, Kept
  <2>2. CASE rows # <<>>
    <3>1. Range(endFile') = Known
      BY <1>1, <1>3, <2>2 DEF WriteParquet
    <3> QED
      BY <1>7, <3>1 DEF Known
  <2> QED
    BY <2>1, <2>2
<1>9. /\ LoadTable' = chunks \o endFile'
      /\ Range(LoadTable') = Range(chunks) \cup Range(endFile')
  BY <1>4, <1>6, <1>7, RangeConcat DEF LoadTable
<1>10. Known' = Known
  BY <1>5, <1>8, <1>9 DEF Known
<1>11. HarnessTypeOK'
  BY <1>6, <1>7 DEF HarnessInv, HarnessTypeOK
<1>12. Kept' \subseteq Known /\ Known \subseteq Kept' \cup Range(ScanRows)
  <2>1. Kept' = Range(chunks) \cup Range(endFile')
    BY <1>4, <1>6, RangeEmpty DEF Kept
  <2> QED
    BY <1>7, <1>8, <2>1
<1>13. KeptInv'
  <2>1. /\ \A n \in 1..decision : \E r \in Kept : r.id = <<"cand", n>>
        /\ \A r \in Kept : \/ \E n \in 1..decision : r.id = <<"cand", n>>
                           \/ r \in Range(ScanRows)
    BY DEF HarnessInv, KeptInv
  <2>2. Kept \subseteq Known /\ Known = Kept \cup Range(ScanRows)
    BY <1>4 DEF Known
  <2>3. \A r \in Range(ScanRows) : \E i \in DOMAIN scans : r.id = <<"scan", i>>
    <3>1. /\ DOMAIN ScanRows = DOMAIN scans
          /\ \A i \in DOMAIN scans : ScanRows[i].id = <<"scan", i>>
      BY ScansAreRows DEF HarnessInv
    <3> QED
      BY <3>1 DEF Range
  <2>4. \A n \in 1..decision : \E r \in Kept' : r.id = <<"cand", n>>
    <3> SUFFICES ASSUME NEW n \in 1..decision
                 PROVE  \E r \in Kept' : r.id = <<"cand", n>>
      OBVIOUS
    <3>1. PICK r \in Kept : r.id = <<"cand", n>>
      BY <2>1
    <3>2. r \notin Range(ScanRows)
      BY <2>3, <3>1
    <3> QED
      BY <1>12, <2>2, <3>1, <3>2
  <2>5. \A r \in Kept' : \/ \E n \in 1..decision : r.id = <<"cand", n>>
                         \/ r \in Range(ScanRows)
    BY <1>12, <2>1, <2>2
  <2>6. \A r, s \in Known : r.id = s.id => r = s
    BY <1>1, KnownRows
  <2>7. \A r, s \in Kept' : r.id = s.id => r = s
    BY <1>12, <2>6
  <2> QED
    BY <1>5, <1>6, <2>4, <2>5, <2>7 DEF KeptInv
<1>14. FilesInv'
  <2>1. Nothing' = Nothing
    BY DEF Nothing
  <2>2. matches' # {} => Matchable'
    BY <1>1, <1>5, <1>10 DEF HarnessInv, FilesInv
  <2> QED
    BY <1>1, <1>4, <1>6, <2>1, <2>2 DEF FilesInv
<1>15. LoadedInv'
  <2>1. CASE rows = <<>>
    <3>1. hpc' = "idle"
      BY <1>1, <1>2, <2>1
    <3> QED
      BY <3>1 DEF LoadedInv
  <2>2. CASE rows # <<>>
    <3> DEFINE made == Decisions(rows, oneSec)
    <3>1. PICK pick \in IF matching THEN Picks(made) ELSE {<<>>} :
            frames' = [found |-> MatchInterventions(made, pick),
                       with  |-> [matching |-> matching, oneSec |-> oneSec]]
      BY <1>2, <2>2
    <3>2. hpc' = "matches"
      BY <1>2, <2>2
    <3> DEFINE d == MatchInterventions(made, pick).decisions
               m == MatchInterventions(made, pick).matches
    <3>3. /\ oneSec => d # <<>> /\ Complete(d)
          /\ oneSec /\ matching => Agree(m, d) /\ (m = {} => ~Matchable)
          /\ m # {} => Matchable
      BY <1>1, <2>2, Found DEF rows
    <3>4. frames'.found = MatchInterventions(made, pick)
      BY <3>1
    <3>5. frames'.found.decisions = d /\ frames'.found.matches = m
      BY <3>4
    <3>6. frames'.with.oneSec = oneSec /\ frames'.with.matching = matching
      BY <3>1
    <3> HIDE DEF made, d, m
    <3>7. PICK x, y : x = d /\ y = m
      OBVIOUS
    <3>8. /\ oneSec => x # <<>> /\ Complete(x)
          /\ oneSec /\ matching => Agree(y, x) /\ (y = {} => ~Matchable)
          /\ y # {} => Matchable
      BY <3>3, <3>7
    <3>9. /\ oneSec => x # <<>> /\ Complete(x)'
          /\ oneSec /\ matching => Agree(y, x)' /\ (y = {} => ~Matchable')
          /\ y # {} => Matchable'
      BY <1>5, <1>10, <3>8
    <3>10. frames'.found.decisions = x /\ frames'.found.matches = y
      BY <3>5, <3>7
    <3>11. /\ Complete(x)' => Complete(frames.found.decisions)'
           /\ Agree(y, x)' => Agree(frames.found.matches, frames.found.decisions)'
      BY <3>10
    <3> QED
      BY <3>2, <3>6, <3>9, <3>11, <3>10 DEF LoadedInv
  <2> QED
    BY <2>1, <2>2
<1>16. DatasetSound'
  BY <1>1, NothingComplete DEF DatasetSound, DecisionsOnce, MatchesAgree, Nothing
<1> QED
  BY <1>11, <1>13, <1>14, <1>15, <1>16 DEF HarnessInv

(* What the steps of the analysis that only write results keep *)
LEMMA ResultsStep ==
  ASSUME HarnessInv, hpc \in {"matches", "dataset"}, hpc' \in {"dataset", "idle"},
         UNCHANGED <<hookVars, endFile>>
  PROVE  HarnessTypeOK' /\ KeptInv' /\ Known' = Known /\ emitted' = <<>>
<1>1. /\ UNCHANGED <<now, decision, emitted, acted, chunks, acts, scans>>
      /\ ScanRows' = ScanRows /\ emitted = <<>>
  BY KeepsKnown DEF hookVars, HarnessInv, FilesInv
<1>2. HarnessTypeOK'
  BY <1>1 DEF HarnessInv, HarnessTypeOK
<1>3. Kept' = Kept
  BY <1>1 DEF Kept
<1>4. KeptInv'
  BY <1>1, <1>3 DEF HarnessInv, KeptInv
<1>5. Known' = Known
  BY <1>1 DEF Known, LoadTable
<1> QED
  BY <1>1, <1>2, <1>4, <1>5

(* The file of matches *)
LEMMA WriteMatchesStep ==
  ASSUME HarnessInv, WriteMatches
  PROVE  HarnessInv'
<1>1. /\ hpc = "matches" /\ hpc' = "dataset"
      /\ matches' = WriteParquet(matches, frames.found.matches, {})
      /\ UNCHANGED <<hookVars, endFile, frames, dataset, calls, complete>>
  BY DEF WriteMatches
<1>2. HarnessTypeOK' /\ KeptInv' /\ Known' = Known /\ emitted' = <<>>
  BY <1>1, ResultsStep
<1>3. /\ \A d : Complete(d)' <=> Complete(d)
      /\ \A m, d : Agree(m, d)' <=> Agree(m, d)
      /\ Matchable' <=> Matchable
  BY <1>1, <1>2, KeepsKnown
<1>4. PICK d, m : d = frames.found.decisions /\ m = frames.found.matches
  OBVIOUS
<1>5. /\ frames.with.oneSec => d # <<>> /\ Complete(d)
      /\ frames.with.oneSec /\ frames.with.matching =>
            Agree(m, d) /\ (m = {} => ~Matchable)
      /\ m # {} => Matchable
  BY <1>1, <1>4 DEF HarnessInv, LoadedInv
<1>6. complete = Nothing /\ (matches # {} => Matchable)
  BY <1>1 DEF HarnessInv, FilesInv
<1>7. matches' = IF m = {} THEN matches ELSE m
  BY <1>1, <1>4 DEF WriteParquet
<1>8. FilesInv'
  <2>1. Nothing' = Nothing
    BY DEF Nothing
  <2>2. matches' # {} => Matchable'
    BY <1>3, <1>5, <1>6, <1>7
  <2> QED
    BY <1>1, <1>2, <1>6, <2>1, <2>2 DEF FilesInv
<1>9. LoadedInv'
  <2>1. frames' = frames /\ frames.found.decisions' = d /\ frames.found.matches' = m
    BY <1>1, <1>4
  <2>2. /\ Complete(d) => Complete(frames.found.decisions)'
        /\ Agree(m, d) => Agree(frames.found.matches, frames.found.decisions)'
    <3>1. /\ Complete(d)' => Complete(frames.found.decisions)'
          /\ Agree(m, d)' => Agree(frames.found.matches, frames.found.decisions)'
      BY <2>1
    <3> QED
      BY <1>3, <3>1
  <2>3. frames.with.oneSec /\ frames.with.matching => matches' = m
    BY <1>5, <1>6, <1>7
  <2> QED
    BY <1>1, <1>3, <1>5, <2>1, <2>2, <2>3 DEF LoadedInv
<1>10. DatasetSound'
  BY <1>1, <1>6, NothingComplete DEF DatasetSound, DecisionsOnce, MatchesAgree, Nothing
<1> QED
  BY <1>2, <1>8, <1>9, <1>10 DEF HarnessInv

(* The file of decisions, with which a call is complete *)
LEMMA WriteDatasetStep ==
  ASSUME HarnessInv, WriteDataset
  PROVE  HarnessInv'
<1>1. /\ hpc = "dataset" /\ hpc' = "idle"
      /\ dataset' = WriteParquet(dataset, frames.found.decisions, <<>>)
      /\ complete' = frames.with
      /\ UNCHANGED <<hookVars, endFile, matches>>
  BY DEF WriteDataset
<1>2. HarnessTypeOK' /\ KeptInv' /\ Known' = Known /\ emitted' = <<>>
  BY <1>1, ResultsStep
<1>3. /\ \A d : Complete(d)' <=> Complete(d)
      /\ \A m, d : Agree(m, d)' <=> Agree(m, d)
      /\ Matchable' <=> Matchable
  BY <1>1, <1>2, KeepsKnown
<1>4. PICK d, m : d = frames.found.decisions /\ m = frames.found.matches
  OBVIOUS
<1>5. /\ frames.with.oneSec => d # <<>> /\ Complete(d)
      /\ frames.with.oneSec /\ frames.with.matching => Agree(m, d) /\ matches = m
  BY <1>1, <1>4 DEF HarnessInv, LoadedInv
<1>6. matches # {} => Matchable
  BY DEF HarnessInv, FilesInv
<1>7. FilesInv' /\ LoadedInv'
  BY <1>1, <1>2, <1>3, <1>6 DEF FilesInv, LoadedInv
<1>8. frames.with.oneSec => dataset' = d
  BY <1>1, <1>4, <1>5 DEF WriteParquet
<1>9. frames.with.oneSec => Complete(dataset)'
  <2> SUFFICES ASSUME frames.with.oneSec PROVE Complete(dataset)'
    OBVIOUS
  <2>1. Complete(d)' => Complete(dataset)'
    BY <1>8
  <2> QED
    BY <1>3, <1>5, <2>1
<1>10. frames.with.oneSec /\ frames.with.matching => Agree(matches, dataset)'
  <2> SUFFICES ASSUME frames.with.oneSec, frames.with.matching
               PROVE  Agree(matches, dataset)'
    OBVIOUS
  <2>1. matches' = m /\ dataset' = d
    BY <1>1, <1>5, <1>8
  <2>2. Agree(m, d)' => Agree(matches, dataset)'
    BY <2>1
  <2> QED
    BY <1>3, <1>5, <2>2
<1>11. DatasetSound'
  <2>1. FilesAgree'
    BY <1>1, <1>9, <1>10 DEF FilesAgree
  <2>2. (DatasetSound <=> FilesAgree)'
    BY DatasetMeans, PTL
  <2> QED
    BY <2>1, <2>2
<1> QED
  BY <1>2, <1>7, <1>11 DEF HarnessInv

(* The end of the program between two files *)
LEMMA AnalysisKilledStep ==
  ASSUME HarnessInv, AnalysisKilled
  PROVE  HarnessInv'
<1>1. /\ hpc \in {"matches", "dataset"} /\ hpc' = "idle"
      /\ UNCHANGED <<hookVars, endFile, dataset, matches, complete>>
  BY DEF AnalysisKilled
<1>2. HarnessTypeOK' /\ KeptInv' /\ Known' = Known /\ emitted' = <<>>
  BY <1>1, ResultsStep
<1>3. (Matchable' <=> Matchable) /\ (matches # {} => Matchable) /\ complete = Nothing
  BY <1>1, <1>2, KeepsKnown DEF HarnessInv, FilesInv
<1>4. FilesInv' /\ LoadedInv'
  BY <1>1, <1>2, <1>3 DEF FilesInv, LoadedInv
<1>5. DatasetSound'
  BY <1>1, <1>3, NothingComplete DEF DatasetSound, DecisionsOnce, MatchesAgree, Nothing
<1> QED
  BY <1>2, <1>4, <1>5 DEF HarnessInv

(* The inductive invariant of a run and of the analysis of its files: what *)
(* was kept of the candidates, and what is in memory between two files.    *)
THEOREM HarnessInvCorrect == HarnessSpec => []HarnessInv
<1>1. HarnessInit => HarnessInv
  <2> SUFFICES ASSUME HarnessInit PROVE HarnessInv
    OBVIOUS
  <2>1. /\ hpc = "poll" /\ now = 0 /\ decision = 0 /\ emitted = <<>> /\ acted = <<>>
        /\ chunks = <<>> /\ endFile = <<>> /\ acts = <<>> /\ scans = <<>>
        /\ matches = {} /\ complete = Nothing
    BY DEF HarnessInit, HarnessIdle
  <2>2. HarnessTypeOK
    BY <2>1 DEF HarnessTypeOK
  <2>3. Kept = {}
    BY <2>1, RangeEmpty DEF Kept
  <2>4. KeptInv
    BY <2>1, <2>3 DEF KeptInv
  <2>5. FilesInv /\ LoadedInv
    BY <2>1 DEF FilesInv, LoadedInv
  <2>6. DatasetSound
    BY <2>1, NothingComplete
  <2> QED
    BY <2>2, <2>4, <2>5, <2>6 DEF HarnessInv
<1>2. HarnessInv /\ [HarnessNext]_harnessVars => HarnessInv'
  <2> SUFFICES ASSUME HarnessInv, [HarnessNext]_harnessVars PROVE HarnessInv'
    OBVIOUS
  <2>1. CASE PollNothing
    BY <2>1, PollNothingStep
  <2>2. CASE PollRegions
    BY <2>2, PollRegionsStep
  <2>3. CASE ScanEvent
    BY <2>3, ScanEventStep
  <2>4. CASE PopHarness
    BY <2>4, PopHarnessStep
  <2>5. CASE EndHarness
    BY <2>5, EndHarnessStep
  <2>6. CASE ProcessRun
    BY <2>6, ProcessRunStep
  <2>7. CASE WriteMatches
    BY <2>7, WriteMatchesStep
  <2>8. CASE WriteDataset
    BY <2>8, WriteDatasetStep
  <2>9. CASE AnalysisKilled
    BY <2>9, AnalysisKilledStep
  <2>10. CASE UNCHANGED harnessVars
    <3>1. UNCHANGED <<hpc, now, decision, emitted, acted, chunks, endFile, acts, scans,
                      frames, dataset, matches, complete>>
      BY <2>10 DEF harnessVars, hookVars
    <3>2. HarnessTypeOK'
      BY <3>1 DEF HarnessInv, HarnessTypeOK
    <3>3. ScanRows' = ScanRows /\ Kept' = Kept /\ LoadTable' = LoadTable
      BY <3>1 DEF ScanRows, Kept, LoadTable
    <3>4. KeptInv'
      BY <3>1, <3>3 DEF HarnessInv, KeptInv
    <3>5. /\ Matchable' <=> Matchable
          /\ \A d : Complete(d)' <=> Complete(d)
          /\ \A m, d : Agree(m, d)' <=> Agree(m, d)
      BY <3>1, <3>3 DEF Matchable, MayMatch, Known, Complete, Agree, Ids
    <3>6. Nothing' = Nothing
      BY DEF Nothing
    <3>7. FilesInv'
      BY <3>1, <3>5, <3>6 DEF HarnessInv, FilesInv
    <3>8. LoadedInv'
      BY <3>1, <3>5 DEF HarnessInv, LoadedInv, Complete, Agree, Ids
    <3>9. DatasetSound'
      BY <3>1 DEF HarnessInv, DatasetSound, DecisionsOnce, MatchesAgree, Nothing, NoControl
    <3> QED
      BY <3>2, <3>4, <3>7, <3>8, <3>9 DEF HarnessInv
  <2> QED
    BY <2>1, <2>2, <2>3, <2>4, <2>5, <2>6, <2>7, <2>8, <2>9, <2>10 DEF HarnessNext
<1> QED
  BY <1>1, <1>2, PTL DEF HarnessSpec

(* However often the files are processed and wherever that was cut short,  *)
(* after a complete call the dataset has every decision and every scan     *)
(* once, and its matches are those of the file of matches, each of a split *)
(* that succeeded: for any regions, periods, scans and calls.              *)
THEOREM DatasetCorrect == HarnessSpec => []DatasetSound
<1>1. HarnessInv => DatasetSound
  BY DEF HarnessInv
<1> QED
  BY <1>1, HarnessInvCorrect, PTL
=============================================================================
