---------------------------- MODULE HooksProofs ----------------------------
(***************************************************************************)
(* Theorems about what the hooks deliver, for every value of the           *)
(* constants: the probes of the block I/O hook and their queue lengths     *)
(* (BlockIO), the events of the hooks and the rows that a pop makes of     *)
(* them (HookPops), and the counters of perf from a read to the table that *)
(* is loaded again (PerfCounters).                                         *)
(***************************************************************************)
EXTENDS BlockIO, HookPops, PerfCounters, FiniteSetTheorems,
        WellFoundedInduction, TLAPS

-----------------------------------------------------------------------------
(* Least members, lists of lists, enumerations.  The library's induction   *)
(* theorems take an operator as a parameter; these proofs look at a least  *)
(* counterexample instead.                                                 *)

(* A set of natural numbers that is not empty has a least one. *)
LEMMA LeastNat ==
  ASSUME NEW T, T \subseteq Nat, T # {}
  PROVE  \E m \in T : \A k \in T : m <= k
<1>1. IsWellFoundedOn(OpToRel(<, Nat), Nat)
  BY NatLessThanWellFounded
<1> DEFINE R == {ss \in Nat \X Nat : ss[1] < ss[2]}
<1>2. OpToRel(<, Nat) = R
  BY DEF OpToRel
<1>3. IsWellFoundedOn(R, Nat)
  BY <1>1, <1>2
<1> HIDE DEF R
<1>4. PICK m \in T : \A k \in T : ~(<<k, m>> \in R)
  BY <1>3, WFMin
<1>5. ASSUME NEW k \in T PROVE m <= k
  <2>1. <<k, m>> \in Nat \X Nat /\ <<k, m>>[1] = k /\ <<k, m>>[2] = m
    OBVIOUS
  <2>2. ~(k < m)
    BY <1>4, <2>1 DEF R
  <2> QED
    BY <2>1, <2>2
<1> QED
  BY <1>5

(* FlattenSeq is defined for every list of lists. *)
LEMMA FlattensExist ==
    ASSUME NEW ss, NEW n \in Nat
    PROVE  \E f : f = [i \in 1..n |-> IF i = 1 THEN ss[i] ELSE f[i - 1] \o ss[i]]
<1> DEFINE Is(f, m) == f = [i \in 1..m |-> IF i = 1 THEN ss[i] ELSE f[i - 1] \o ss[i]]
           T == {m \in Nat : ~ \E f : Is(f, m)}
<1> SUFFICES ASSUME T # {}
             PROVE  FALSE
  OBVIOUS
<1>1. PICK m \in T : \A k \in T : m <= k
  BY LeastNat
<1>2. CASE m = 0
  <2> DEFINE f == [i \in 1..0 |-> ss[i]]
  <2>1. 1..0 = {}
    OBVIOUS
  <2>2. Is(f, 0)
    BY <2>1
  <2> QED
    BY <1>2, <2>2
<1>3. CASE m # 0
  <2>1. PICK h : Is(h, m - 1)
    <3>1. m \in Nat /\ m - 1 \in Nat /\ ~(m <= m - 1)
      BY <1>3
    <3>2. m - 1 \notin T
      <4> HIDE DEF T
      <4> QED
        BY <1>1, <3>1
    <3> QED
      BY <3>1, <3>2
  <2>2. /\ m \in Nat \ {0}
        /\ h = [i \in 1..(m - 1) |-> IF i = 1 THEN ss[i] ELSE h[i - 1] \o ss[i]]
    BY <1>3, <2>1
  <2> HIDE DEF T, Is
  <2> DEFINE f == [i \in 1..m |-> IF i < m THEN h[i]
                                  ELSE IF i = 1 THEN ss[i] ELSE h[i - 1] \o ss[i]]
  <2>3. ASSUME NEW i \in 1..m
        PROVE  f[i] = IF i = 1 THEN ss[i] ELSE f[i - 1] \o ss[i]
    <3>1. i \in Nat /\ (i # 1 => i - 1 \in 1..m /\ i - 1 < m)
      BY <2>2
    <3>2. i # 1 => f[i - 1] = h[i - 1]
      BY <3>1
    <3>3. CASE i < m
      <4>1. f[i] = h[i] /\ i \in 1..(m - 1)
        BY <2>2, <3>3
      <4> HIDE DEF f
      <4> QED
        BY <2>2, <3>2, <4>1
    <3>4. CASE ~(i < m)
      <4>1. f[i] = IF i = 1 THEN ss[i] ELSE h[i - 1] \o ss[i]
        BY <3>4
      <4> HIDE DEF f
      <4> QED
        BY <3>2, <4>1
    <3> QED
      BY <3>3, <3>4
  <2>4. f = [i \in 1..m |-> f[i]]
    OBVIOUS
  <2>5. Is(f, m)
    <3> HIDE DEF f
    <3> QED
      BY <2>3, <2>4 DEF Is
  <2> QED
    BY <2>5 DEF T
<1> QED
  BY <1>2, <1>3

-----------------------------------------------------------------------------
(* Enumerations in the order of a key.  Tables are sorted before they are  *)
(* put together; Ordered and Sorted choose such an enumeration, and these  *)
(* lemmas say that there is one, that it has every member, and that there  *)
(* is no other.                                                            *)

(* s enumerates S by increasing keys. *)
Ascending(s, S, key) ==
  /\ s \in [1..Cardinality(S) -> S]
  /\ \A i, j \in 1..Cardinality(S) : i < j => key[s[i]] < key[s[j]]

(* A key is a natural number, and no two members share one. *)
IsKey(key, S) ==
  /\ \A x \in S : key[x] \in Nat
  /\ \A x, y \in S : key[x] = key[y] => x = y

(* An enumeration has every member, and each of them once. *)
LEMMA AscendingCovers ==
  ASSUME NEW S, IsFiniteSet(S), NEW key, IsKey(key, S),
         NEW s, Ascending(s, S, key)
  PROVE  /\ \A i, j \in 1..Cardinality(S) : s[i] = s[j] => i = j
         /\ \A x \in S : \E i \in 1..Cardinality(S) : s[i] = x
<1>1. Cardinality(S) \in Nat
  BY FS_CardinalityType
<1>2. ASSUME NEW i \in 1..Cardinality(S), NEW j \in 1..Cardinality(S), s[i] = s[j]
      PROVE  i = j
  <2>1. s[i] \in S /\ key[s[i]] \in Nat
    BY DEF Ascending, IsKey
  <2>2. ~(i < j) /\ ~(j < i)
    BY <1>2, <2>1 DEF Ascending
  <2> QED
    BY <1>1, <2>2
<1>3. s \in Injection(1..Cardinality(S), S)
  BY <1>2 DEF Ascending, Injection, IsInjective
<1>4. IsFiniteSet(1..Cardinality(S)) /\ Cardinality(1..Cardinality(S)) = Cardinality(S)
  BY <1>1, FS_Interval
<1>5. s \in Surjection(1..Cardinality(S), S)
  BY <1>3, <1>4, FS_Injection
<1> QED
  BY <1>2, <1>5 DEF Surjection

(* Of two enumerations that agree before n, the one has at n no smaller    *)
(* key than the other.                                                     *)
LEMMA AscendingNext ==
  ASSUME NEW S, IsFiniteSet(S), NEW key, IsKey(key, S),
         NEW s, Ascending(s, S, key), NEW t, Ascending(t, S, key),
         NEW n \in 1..Cardinality(S), \A i \in 1..Cardinality(S) : i < n => s[i] = t[i]
  PROVE  key[t[n]] <= key[s[n]]
<1>1. s[n] \in S /\ t[n] \in S /\ key[s[n]] \in Nat /\ key[t[n]] \in Nat
  BY DEF Ascending, IsKey
<1>2. PICK j \in 1..Cardinality(S) : t[j] = s[n]
  BY <1>1, AscendingCovers
<1>3. Cardinality(S) \in Nat
  BY FS_CardinalityType
<1>4. CASE j < n
  <2>1. s[j] = s[n]
    BY <1>2, <1>4
  <2>2. j = n
    BY <2>1, AscendingCovers
  <2> QED
    BY <1>3, <1>4, <2>2
<1>5. CASE j = n
  BY <1>1, <1>2, <1>5
<1>6. CASE n < j
  BY <1>1, <1>2, <1>6 DEF Ascending
<1> QED
  BY <1>3, <1>4, <1>5, <1>6

(* There is one enumeration at most. *)
LEMMA AscendingUnique ==
  ASSUME NEW S, IsFiniteSet(S), NEW key, IsKey(key, S),
         NEW s, Ascending(s, S, key), NEW t, Ascending(t, S, key)
  PROVE  s = t
<1> DEFINE T == {n \in Nat : n \in 1..Cardinality(S) /\ s[n] # t[n]}
<1>1. CASE T = {}
  <2>1. Cardinality(S) \in Nat
    BY FS_CardinalityType
  <2>2. \A n \in 1..Cardinality(S) : s[n] = t[n]
    BY <1>1, <2>1
  <2> DEFINE I == 1..Cardinality(S)
  <2>3. s \in [I -> S] /\ t \in [I -> S]
    BY DEF Ascending
  <2>4. \A n \in I : s[n] = t[n]
    BY <2>2
  <2> HIDE DEF T, I
  <2> QED
    BY <2>3, <2>4
<1>2. CASE T # {}
  <2>1. PICK m \in T : \A k \in T : m <= k
    BY <1>2, LeastNat
  <2>2. m \in 1..Cardinality(S) /\ s[m] # t[m] /\ Cardinality(S) \in Nat
    BY FS_CardinalityType
  <2>3. \A i \in 1..Cardinality(S) : i < m => s[i] = t[i]
    <3>1. SUFFICES ASSUME NEW i \in 1..Cardinality(S), i < m, s[i] # t[i]
                   PROVE  FALSE
      OBVIOUS
    <3>2. i \in T
      BY <2>2, <3>1
    <3> HIDE DEF T
    <3> QED
      BY <2>1, <2>2, <3>1, <3>2
  <2>4. \A i \in 1..Cardinality(S) : i < m => t[i] = s[i]
    BY <2>3
  <2> HIDE DEF T
  <2>5. key[t[m]] <= key[s[m]]
    BY <2>2, <2>3, AscendingNext
  <2>6. key[s[m]] <= key[t[m]]
    BY <2>2, <2>4, AscendingNext
  <2>7. s[m] \in S /\ t[m] \in S /\ key[s[m]] \in Nat /\ key[t[m]] \in Nat
    BY <2>2 DEF Ascending, IsKey
  <2>8. key[t[m]] = key[s[m]]
    BY <2>5, <2>6, <2>7
  <2> QED
    BY <2>2, <2>7, <2>8 DEF IsKey
<1> QED
  BY <1>1, <1>2

(* A member with a greater key than all the others can be put at the end. *)
LEMMA AscendingAppend ==
  ASSUME NEW S, IsFiniteSet(S), NEW key, NEW s, Ascending(s, S, key),
         NEW x, x \notin S, \A y \in S : key[y] < key[x]
  PROVE  /\ Cardinality(S \cup {x}) = Cardinality(S) + 1
         /\ Ascending([i \in 1..(Cardinality(S) + 1) |->
                         IF i = Cardinality(S) + 1 THEN x ELSE s[i]], S \cup {x}, key)
<1> DEFINE n == Cardinality(S)
           t == [i \in 1..(n + 1) |-> IF i = n + 1 THEN x ELSE s[i]]
<1>1. n \in Nat /\ Cardinality(S \cup {x}) = n + 1
  BY FS_CardinalityType, FS_AddElement
<1>2. ASSUME NEW i \in 1..(n + 1), i # n + 1
      PROVE  i \in 1..n /\ t[i] = s[i] /\ s[i] \in S
  <2>1. i \in 1..n
    BY <1>1, <1>2
  <2> QED
    BY <1>2, <2>1 DEF Ascending
<1>3. t[n + 1] = x
  BY <1>1
<1>4. t \in [1..(n + 1) -> S \cup {x}]
  BY <1>2
<1>5. ASSUME NEW i \in 1..(n + 1), NEW j \in 1..(n + 1), i < j
      PROVE  key[t[i]] < key[t[j]]
  <2> HIDE DEF t
  <2>1. i # n + 1 /\ i \in 1..n
    BY <1>1, <1>5
  <2>2. CASE j = n + 1
    BY <1>2, <1>3, <2>1, <2>2
  <2>3. CASE j # n + 1
    BY <1>2, <1>5, <2>1, <2>3 DEF Ascending
  <2> QED
    BY <2>2, <2>3
<1> HIDE DEF t
<1>6. Ascending(t, S \cup {x}, key)
  BY <1>1, <1>4, <1>5 DEF Ascending
<1> QED
  BY <1>1, <1>6 DEF t

(* A finite set of numbers that is not empty has a greatest one. *)
LEMMA GreatestKey ==
  ASSUME NEW S, IsFiniteSet(S), S # {}, NEW key, IsKey(key, S)
  PROVE  \E x \in S : \A y \in S \ {x} : key[y] < key[x]
<1> DEFINE Without(x) == {y \in S : key[y] > key[x]}
           T == {n \in Nat : \E x \in S : n = Cardinality(Without(x))}
<1>1. ASSUME NEW x \in S
      PROVE  IsFiniteSet(Without(x)) /\ Cardinality(Without(x)) \in Nat
  BY FS_Subset, FS_CardinalityType
<1>2. T # {} /\ T \subseteq Nat
  BY <1>1
<1>3. PICK m \in T : \A k \in T : m <= k
  BY <1>2, LeastNat
<1>4. PICK x \in S : m = Cardinality(Without(x))
  OBVIOUS
<1>5. ASSUME NEW y \in S \ {x}, ~(key[y] < key[x])
      PROVE  FALSE
  <2>1. key[y] > key[x] /\ key[x] \in Nat /\ key[y] \in Nat
    BY <1>5 DEF IsKey
  <2>2. Without(y) \subseteq Without(x) \ {y} /\ y \in Without(x)
    BY <2>1 DEF IsKey
  <2>3. /\ IsFiniteSet(Without(x) \ {y})
        /\ Cardinality(Without(x) \ {y}) = Cardinality(Without(x)) - 1
    BY <1>1, <2>2, FS_RemoveElement
  <2>4. Cardinality(Without(y)) <= Cardinality(Without(x)) - 1
    BY <2>2, <2>3, FS_Subset
  <2>5. Cardinality(Without(y)) \in T
    BY <1>1
  <2>6. m <= Cardinality(Without(y)) /\ m \in Nat /\ Cardinality(Without(y)) \in Nat
    BY <1>1, <1>3, <2>5
  <2> HIDE DEF T, Without
  <2> QED
    BY <1>4, <2>4, <2>6
<1> HIDE DEF T
<1> QED
  BY <1>5

(* There is an enumeration. *)
LEMMA AscendingExists ==
  ASSUME NEW S, IsFiniteSet(S), NEW key, IsKey(key, S)
  PROVE  \E s : Ascending(s, S, key)
<1> DEFINE Bad(U) == U \subseteq S /\ ~ \E s : Ascending(s, U, key)
           T == {n \in Nat : \E U : Bad(U) /\ n = Cardinality(U)}
<1>1. CASE T = {}
  <2>1. Cardinality(S) \in Nat /\ Cardinality(S) \notin T
    BY <1>1, FS_CardinalityType
  <2> QED
    BY <2>1
<1>2. CASE T # {}
  <2>1. PICK m \in T : \A k \in T : m <= k
    BY <1>2, LeastNat
  <2>2. PICK U : Bad(U) /\ m = Cardinality(U)
    OBVIOUS
  <2>3. IsFiniteSet(U) /\ U \subseteq S /\ IsKey(key, U)
    BY <2>2, FS_Subset DEF IsKey
  <2>4. CASE U = {}
    <3>1. Cardinality(U) = 0 /\ 1..0 = {}
      BY <2>4, FS_EmptySet
    <3>2. Ascending([i \in {} |-> i], U, key)
      BY <3>1 DEF Ascending
    <3> QED
      BY <2>2, <3>2
  <2>5. CASE U # {}
    <3>1. PICK x \in U : \A y \in U \ {x} : key[y] < key[x]
      BY <2>3, <2>5, GreatestKey
    <3> DEFINE V == U \ {x}
    <3>2. /\ IsFiniteSet(V) /\ Cardinality(V) = m - 1 /\ Cardinality(V) \in Nat /\ m \in Nat
          /\ V \subseteq S /\ x \notin V /\ V \cup {x} = U
      BY <2>2, <2>3, FS_RemoveElement, FS_CardinalityType
    <3>3. Cardinality(V) \notin T
      <4> HIDE DEF T
      <4> QED
        BY <2>1, <3>2
    <3>4. PICK s : Ascending(s, V, key)
      BY <3>2, <3>3
    <3>5. \E t : Ascending(t, V \cup {x}, key)
      BY <3>1, <3>2, <3>4, AscendingAppend
    <3> QED
      BY <2>2, <3>2, <3>5
  <2> QED
    BY <2>4, <2>5
<1> QED
  BY <1>1, <1>2

-----------------------------------------------------------------------------
(* What pop_data() does with the events of a hook.                         *)

(* The attempts to collapse that are under way *)
Tracing == {s \in open : s.ends = "trace"}

PopsTypeOK ==
  /\ clock \in Nat /\ IsFiniteSet(buf)
  /\ \A e \in buf : e.at \in Nat /\ 0 < e.at /\ e.at <= clock
  /\ \A d, e \in buf : d.at = e.at => d = e
  /\ \A s \in open : /\ s.key \in Nat /\ s.key <= clock /\ s.ends \in {"trace", "latency"}
                      /\ s = [ends |-> s.ends, key |-> s.key]

(* The first event of a span has its time as key, and the second one the   *)
(* key of the first; a span ends once.                                     *)
KeysInv ==
  /\ \A e \in buf : Opens(e.on) => e.key = e.at
  /\ \A e \in buf : Closes(e.on) => /\ e.key \in Nat /\ e.key < e.at
                                    /\ \A s \in open : s.ends = e.on => s.key # e.key
  /\ \A d, e \in buf : Closes(e.on) /\ d.on = e.on /\ d.key = e.key => d = e
  /\ \A e \in buf : e.on = "process_metadata" => e.key \in Procs

(* The attempts of which there is an event in the lists follow each other: *)
(* at most the last one has not ended, and at most the first one has been  *)
(* begun before the lists were emptied.                                    *)
AttemptsInv ==
  /\ \A r, s \in Tracing : r = s
  /\ \A s \in Tracing : /\ \A c \in On("collapse") : c.at <= s.key
                        /\ \A t \in On("trace") : t.at < s.key
                        /\ \/ \E c \in On("collapse") : c.key = s.key
                           \/ On("collapse") = {} /\ On("trace") = {}
  /\ \A c \in On("collapse") : \/ \E t \in On("trace") : t.key = c.key
                               \/ \E s \in Tracing : s.key = c.key
  /\ \A t \in On("trace"), c \in On("collapse") : c.at <= t.key \/ t.at < c.at
  /\ \A t \in On("trace") :
        \/ \E c \in On("collapse") : c.key = t.key
        \/ /\ \A c \in On("collapse") : t.at < c.at
           /\ \A u \in On("trace") : t.at <= u.at

EventsInv == PopsTypeOK /\ KeysInv /\ (~Overlapping => AttemptsInv)

PopsInv == EventsInv /\ PairsOwn

(* The two kinds of spans *)
LEMMA Spans ==
  /\ \A l : Opens(l) <=> l \in {"collapse", "queue"}
  /\ \A l : Closes(l) <=> l \in {"trace", "latency"}
  /\ EndOf["collapse"] = "trace" /\ EndOf["queue"] = "latency"
<1>1. DOMAIN EndOf = {"collapse", "queue"}
  BY DEF EndOf
<1>2. EndOf["collapse"] = "trace" /\ EndOf["queue"] = "latency"
  BY DEF EndOf
<1> QED
  BY <1>1, <1>2 DEF Opens, Closes

(* The lists that pops look at *)
LEMMA HookLists ==
  /\ ListsOf("collapse_huge_pages") = {"collapse", "trace", "scan"}
  /\ ListsOf("block_io") = {"queue", "latency"}
  /\ ListsOf("quanta_runtime") = {"runtime", "queued"}
  /\ ListsOf("cbmm") = {"eager", "prezero"}
  /\ ListsOf("perf") = Counters
  /\ ListsOf("thp_trace") = TraceLists
  /\ ListsOf("thp_intervention") = {"rollup", "vma", "candidates", "interventions"}
  /\ \A h \in {"file_data", "madvise", "unmap_range", "mm_rss_stat", "process_trace",
               "zswap_runtime", "memory_usage", "vmstat_harness", "proc_maps",
               "smaps_hook", "process_metadata"} : ListsOf(h) = {h}
  BY DEF ListsOf

(* At the start the lists are empty. *)
LEMMA PopsInitInv == PopsInit => PopsInv
<1> SUFFICES ASSUME PopsInit PROVE PopsInv
  OBVIOUS
<1> USE DEF PopsInit, PopsIdle
<1>1. \A s \in open : s.key = 0
  OBVIOUS
<1>2. \A r, s \in Tracing : r = s
  BY DEF Tracing
<1>3. PopsTypeOK
  BY <1>1, FS_EmptySet DEF PopsTypeOK
<1>4. KeysInv
  BY DEF KeysInv
<1>5. On("collapse") = {} /\ On("trace") = {}
  BY DEF On
<1>6. AttemptsInv
  BY <1>2, <1>5 DEF AttemptsInv
<1>7. PairsOwn
  BY DEF PairsOwn
<1> QED
  BY <1>3, <1>4, <1>6, <1>7 DEF PopsInv, EventsInv

(* An event of a new time that is not of a span *)
LEMMA OtherEvent ==
  ASSUME EventsInv, clock' = clock + 1, open' = open,
         NEW x, buf' = buf \cup {x}, x.at = clock', ~Opens(x.on), ~Closes(x.on),
         x.on = "process_metadata" => x.key \in Procs
  PROVE  EventsInv'
<1> USE DEF EventsInv
<1>1. PopsTypeOK'
  BY FS_AddElement DEF PopsTypeOK
<1>2. KeysInv'
  BY DEF KeysInv
<1>3. On("collapse")' = On("collapse") /\ On("trace")' = On("trace")
  BY Spans DEF On
<1>4. Tracing' = Tracing
  BY DEF Tracing
<1>5. AttemptsInv => AttemptsInv'
  BY <1>3, <1>4 DEF AttemptsInv
<1> QED
  BY <1>1, <1>2, <1>5

(* A span begins: the event has its own time as key. *)
LEMMA OpenEvent ==
  ASSUME EventsInv, clock' = clock + 1,
         NEW l, Opens(l), Overlapping \/ open = {},
         open' = open \cup {[ends |-> EndOf[l], key |-> clock']}, Append1(l, clock')
  PROVE  EventsInv'
<1> USE DEF EventsInv
<1> DEFINE x == [on |-> l, key |-> clock', at |-> clock']
           n == [ends |-> EndOf[l], key |-> clock']
<1>1. /\ x.on = l /\ x.key = clock' /\ x.at = clock' /\ buf' = buf \cup {x}
      /\ n.ends = EndOf[l] /\ n.key = clock' /\ open' = open \cup {n}
      /\ clock \in Nat /\ clock' = clock + 1
  BY DEF Append1, PopsTypeOK
<1>a. n = [ends |-> n.ends, key |-> n.key] /\ n.ends \in {"trace", "latency"}
  BY Spans
<1> HIDE DEF x, n
<1>2. PopsTypeOK'
  <2>1. /\ \A s \in open' : /\ s.key \in Nat /\ s.key <= clock'
                            /\ s.ends \in {"trace", "latency"}
                            /\ s = [ends |-> s.ends, key |-> s.key]
    BY <1>1, <1>a DEF PopsTypeOK
  <2>2. clock' \in Nat /\ IsFiniteSet(buf')
    BY <1>1, FS_AddElement DEF PopsTypeOK
  <2>3. /\ \A e \in buf' : e.at \in Nat /\ 0 < e.at /\ e.at <= clock'
        /\ \A d, e \in buf' : d.at = e.at => d = e
    BY <1>1 DEF PopsTypeOK
  <2> QED
    BY <2>1, <2>2, <2>3 DEF PopsTypeOK
<1>3. \A e \in buf : e.at <= clock /\ e.at \in Nat /\ e.at # clock'
  BY <1>1 DEF PopsTypeOK
<1>4. KeysInv'
  <2>1. ~Closes(x.on) /\ x.on # "process_metadata"
    BY <1>1, Spans
  <2>2. \A e \in buf' : Opens(e.on) => e.key = e.at
    BY <1>1 DEF KeysInv
  <2>3. ASSUME NEW e \in buf', Closes(e.on)
        PROVE  /\ e.key \in Nat /\ e.key < e.at
               /\ \A s \in open' : s.ends = e.on => s.key # e.key
    <3>1. e \in buf /\ e.key \in Nat /\ e.key < e.at
      BY <1>1, <2>1, <2>3 DEF KeysInv
    <3>2. \A s \in open : s.ends = e.on => s.key # e.key
      BY <2>3, <3>1 DEF KeysInv
    <3>3. n.key # e.key
      BY <1>1, <1>3, <3>1
    <3> QED
      BY <1>1, <3>1, <3>2, <3>3
  <2>4. \A d, e \in buf' : Closes(e.on) /\ d.on = e.on /\ d.key = e.key => d = e
    BY <1>1, <2>1 DEF KeysInv
  <2>5. \A e \in buf' : e.on = "process_metadata" => e.key \in Procs
    BY <1>1, <2>1 DEF KeysInv
  <2> QED
    BY <2>2, <2>3, <2>4, <2>5 DEF KeysInv
<1>5. ASSUME ~Overlapping PROVE AttemptsInv'
  <2>1. AttemptsInv /\ open = {} /\ Tracing = {} /\ open' = {n}
    BY <1>1, <1>5 DEF Tracing
  <2>2. CASE l = "collapse"
    <3>1. Tracing' = {n} /\ n.key = clock'
      BY <1>1, <2>1, <2>2, Spans DEF Tracing
    <3>2. On("collapse")' = On("collapse") \cup {x} /\ On("trace")' = On("trace")
      BY <1>1, <2>2 DEF On
    <3>3. \A e \in On("collapse") \cup On("trace") : e.at <= clock /\ e.at \in Nat /\ e.at < clock'
      BY <1>1, <1>3 DEF On
    <3>4. \A c \in On("collapse") : \E t \in On("trace") : t.key = c.key
      BY <2>1 DEF AttemptsInv
    <3>5. \A t \in On("trace"), c \in On("collapse") : c.at <= t.key \/ t.at < c.at
      BY <2>1 DEF AttemptsInv
    <3>6. \A t \in On("trace") :
             \/ \E c \in On("collapse") : c.key = t.key
             \/ /\ \A c \in On("collapse") : t.at < c.at
                /\ \A u \in On("trace") : t.at <= u.at
      BY <2>1 DEF AttemptsInv
    <3>7. \A s \in Tracing' : /\ \A c \in On("collapse")' : c.at <= s.key
                              /\ \A t \in On("trace")' : t.at < s.key
                              /\ \E c \in On("collapse")' : c.key = s.key
      BY <1>1, <3>1, <3>2, <3>3
    <3>8. \A c \in On("collapse")' : \/ \E t \in On("trace")' : t.key = c.key
                                     \/ \E s \in Tracing' : s.key = c.key
      BY <1>1, <3>1, <3>2, <3>4
    <3>9. \A t \in On("trace")', c \in On("collapse")' : c.at <= t.key \/ t.at < c.at
      BY <1>1, <3>2, <3>3, <3>5
    <3>10. \A t \in On("trace")' :
              \/ \E c \in On("collapse")' : c.key = t.key
              \/ /\ \A c \in On("collapse")' : t.at < c.at
                 /\ \A u \in On("trace")' : t.at <= u.at
      BY <1>1, <3>2, <3>3, <3>6
    <3>11. \A r, s \in Tracing' : r = s
      BY <3>1
    <3> QED
      BY <3>7, <3>8, <3>9, <3>10, <3>11 DEF AttemptsInv
  <2>3. CASE l = "queue"
    <3>1. Tracing' = Tracing
      BY <1>1, <2>1, <2>3, Spans DEF Tracing
    <3>2. On("collapse")' = On("collapse") /\ On("trace")' = On("trace")
      BY <1>1, <2>3 DEF On
    <3> QED
      BY <2>1, <3>1, <3>2 DEF AttemptsInv
  <2> QED
    BY <2>2, <2>3, Spans
<1> QED
  BY <1>2, <1>4, <1>5

(* A span ends: the event has the key of the first one. *)
LEMMA CloseEvent ==
  ASSUME EventsInv, clock' = clock + 1,
         NEW l, NEW s \in open, s.ends = l, open' = open \ {s}, Append1(l, s.key),
         l \in {"trace", "latency"}
  PROVE  EventsInv'
<1> USE DEF EventsInv
<1> DEFINE x == [on |-> l, key |-> s.key, at |-> clock']
<1>1. /\ x.on = l /\ x.key = s.key /\ x.at = clock' /\ buf' = buf \cup {x}
      /\ clock \in Nat /\ clock' = clock + 1 /\ s.key \in Nat /\ s.key < clock'
  BY DEF Append1, PopsTypeOK
<1> HIDE DEF x
<1>2. PopsTypeOK'
  BY <1>1, FS_AddElement DEF PopsTypeOK
<1>3. \A e \in buf : e.at <= clock /\ e.at \in Nat /\ e.at # clock' /\ e.at < clock'
  BY <1>1 DEF PopsTypeOK
<1>4. KeysInv'
  <2>1. Closes(x.on) /\ ~Opens(x.on) /\ x.on # "process_metadata"
    BY <1>1, Spans
  <2>2. \A e \in buf' : Opens(e.on) => e.key = e.at
    BY <1>1, <2>1 DEF KeysInv
  <2>3. \A r \in open' : r.ends = l => r.key # s.key
    BY DEF PopsTypeOK
  <2>4. \A e \in buf : e.on = l => e.key # s.key
    BY <1>1, <2>1 DEF KeysInv
  <2>5. \A e \in buf' : Closes(e.on) => /\ e.key \in Nat /\ e.key < e.at
                                        /\ \A r \in open' : r.ends = e.on => r.key # e.key
    BY <1>1, <2>3 DEF KeysInv
  <2>6. \A d, e \in buf' : Closes(e.on) /\ d.on = e.on /\ d.key = e.key => d = e
    BY <1>1, <2>4 DEF KeysInv
  <2>7. \A e \in buf' : e.on = "process_metadata" => e.key \in Procs
    BY <1>1, <2>1 DEF KeysInv
  <2> QED
    BY <2>2, <2>5, <2>6, <2>7 DEF KeysInv
<1>5. ASSUME ~Overlapping PROVE AttemptsInv'
  <2>1. AttemptsInv
    BY <1>5
  <2>2. CASE l = "trace"
    <3>1. s \in Tracing /\ Tracing' = {}
      BY <2>1, <2>2 DEF Tracing, AttemptsInv
    <3>2. On("trace")' = On("trace") \cup {x} /\ On("collapse")' = On("collapse")
      BY <1>1, <2>2 DEF On
    <3>3. /\ \A c \in On("collapse") : c.at <= s.key
          /\ \A t \in On("trace") : t.at < s.key
          /\ \/ \E c \in On("collapse") : c.key = s.key
             \/ On("collapse") = {} /\ On("trace") = {}
      BY <2>1, <3>1 DEF AttemptsInv
    <3>4. \A c \in On("collapse") : \/ \E t \in On("trace") : t.key = c.key
                                    \/ c.key = s.key
      BY <2>1, <3>1 DEF AttemptsInv
    <3>5. \A e \in On("collapse") \cup On("trace") : e.at <= clock /\ e.at \in Nat /\ e.at < clock'
      BY <1>1, <1>3 DEF On
    <3>6. \A c \in On("collapse")' : \E t \in On("trace")' : t.key = c.key
      BY <1>1, <3>2, <3>4
    <3>7. \A t \in On("trace")', c \in On("collapse")' : c.at <= t.key \/ t.at < c.at
      BY <1>1, <2>1, <3>2, <3>3 DEF AttemptsInv
    <3>8. \A t \in On("trace")' :
             \/ \E c \in On("collapse")' : c.key = t.key
             \/ /\ \A c \in On("collapse")' : t.at < c.at
                /\ \A u \in On("trace")' : t.at <= u.at
      <4>1. ASSUME NEW t \in On("trace"), ~ \E c \in On("collapse") : c.key = t.key
            PROVE  /\ \A c \in On("collapse") : t.at < c.at
                   /\ \A u \in On("trace") : t.at <= u.at
                   /\ t.at <= x.at
        BY <1>1, <2>1, <3>5, <4>1 DEF AttemptsInv
      <4>2. \/ \E c \in On("collapse") : c.key = x.key
            \/ On("collapse") = {} /\ On("trace") = {}
        BY <1>1, <3>3
      <4>3. x.at <= x.at
        BY <1>1
      <4> QED
        BY <3>2, <4>1, <4>2, <4>3
    <3> QED
      BY <3>1, <3>6, <3>7, <3>8 DEF AttemptsInv
  <2>3. CASE l = "latency"
    <3>1. Tracing' = Tracing
      BY <2>3 DEF Tracing
    <3>2. On("collapse")' = On("collapse") /\ On("trace")' = On("trace")
      BY <1>1, <2>3 DEF On
    <3> QED
      BY <2>1, <3>1, <3>2 DEF AttemptsInv
  <2> QED
    BY <2>2, <2>3
<1> QED
  BY <1>2, <1>4, <1>5

(* An event: it is appended, or it is dropped. *)
LEMMA EventStep ==
  ASSUME PopsInv, HookEvent
  PROVE  PopsInv'
<1>1. /\ clock' = clock + 1 /\ UNCHANGED <<order, turn, final, pending, filed>>
      /\ EventsInv /\ PairsOwn
  BY DEF HookEvent, PopsInv
<1>2. PICK l : Event(l)
  BY DEF HookEvent
<1>3. PairsOwn'
  BY <1>1 DEF PairsOwn
<1> SUFFICES EventsInv'
  BY <1>3 DEF PopsInv
<1>4. ASSUME UNCHANGED <<buf, open>> PROVE EventsInv'
  <2> USE DEF EventsInv
  <2>1. PopsTypeOK'
    BY <1>1, <1>4 DEF PopsTypeOK
  <2>2. KeysInv'
    BY <1>1, <1>4 DEF KeysInv
  <2>3. AttemptsInv => AttemptsInv'
    BY <1>4 DEF AttemptsInv, On, Tracing
  <2> QED
    BY <1>1, <2>1, <2>2, <2>3
<1>5. ASSUME NEW key, Append1(l, key), open' = open, ~Opens(l), ~Closes(l),
             l = "process_metadata" => key \in Procs
      PROVE  EventsInv'
  <2> DEFINE x == [on |-> l, key |-> key, at |-> clock']
  <2>1. x.on = l /\ x.key = key /\ x.at = clock' /\ buf' = buf \cup {x}
    BY <1>5 DEF Append1
  <2> HIDE DEF x
  <2> QED
    BY <1>1, <1>5, <2>1, OtherEvent
<1>6. CASE /\ Opens(l) /\ (Overlapping \/ open = {})
           /\ open' = open \cup {[ends |-> EndOf[l], key |-> clock']}
           /\ Append1(l, clock')
  BY <1>1, <1>6, OpenEvent
<1>7. CASE \E s \in open : s.ends = l /\ open' = open \ {s} /\ Append1(l, s.key)
  <2>1. PICK s \in open : s.ends = l /\ open' = open \ {s} /\ Append1(l, s.key)
    BY <1>7
  <2>2. l \in {"trace", "latency"}
    BY <1>1, <2>1 DEF EventsInv, PopsTypeOK
  <2> QED
    BY <1>1, <2>1, <2>2, CloseEvent
<1>8. CASE TraceEvent(l) /\ UNCHANGED open
  <2>1. ~Opens(l) /\ ~Closes(l) /\ l # "process_metadata"
    BY <1>8, Spans, HookPopsAssumption DEF TraceEvent
  <2> QED
    BY <1>5, <1>8, <2>1 DEF TraceEvent
<1>9. CASE l = "file_data" /\ FileOpenEvent /\ UNCHANGED open
  <2>1. ~Opens(l) /\ ~Closes(l) /\ l # "process_metadata"
    BY <1>9, Spans
  <2> QED
    BY <1>4, <1>5, <1>9, <2>1 DEF FileOpenEvent
<1>10. CASE l = "process_metadata" /\ ProcessEvent /\ UNCHANGED open
  <2>1. ~Opens(l) /\ ~Closes(l)
    BY <1>10, Spans
  <2> QED
    BY <1>5, <1>10, <2>1 DEF ProcessEvent
<1>11. CASE l = "vmstat_harness" /\ VmstatPoll /\ UNCHANGED open
  <2>1. ~Opens(l) /\ ~Closes(l) /\ l # "process_metadata"
    BY <1>11, Spans
  <2> QED
    BY <1>4, <1>5, <1>11, <2>1 DEF VmstatPoll
<1>12. CASE l \in {"proc_maps", "smaps_hook"} /\ ProcPoll(l) /\ UNCHANGED open
  <2>1. ~Opens(l) /\ ~Closes(l) /\ l # "process_metadata"
    BY <1>12, Spans
  <2> QED
    BY <1>4, <1>5, <1>12, <2>1 DEF ProcPoll
<1>13. CASE ~Opens(l) /\ ~Closes(l) /\ l \notin Polled /\ Append1(l, clock') /\ UNCHANGED open
  <2>1. l # "process_metadata"
    BY <1>13 DEF Polled
  <2> QED
    BY <1>5, <1>13, <2>1
<1> QED
  BY <1>2, <1>6, <1>7, <1>8, <1>9, <1>10, <1>11, <1>12, <1>13 DEF Event

(* Taking events out of the lists does no harm, if it is none of the       *)
(* attempts or all of them.                                                *)
LEMMA Emptied ==
  ASSUME EventsInv, UNCHANGED <<clock, open>>,
         buf' \subseteq buf,
         \/ \A e \in buf : e.on \in {"collapse", "trace"} => e \in buf'
         \/ \A e \in buf' : e.on \notin {"collapse", "trace"}
  PROVE  EventsInv'
<1> USE DEF EventsInv
<1>1. PopsTypeOK'
  BY FS_Subset DEF PopsTypeOK
<1>2. KeysInv'
  BY DEF KeysInv
<1>3. ASSUME ~Overlapping PROVE AttemptsInv'
  <2>1. AttemptsInv /\ Tracing' = Tracing
    BY <1>3 DEF Tracing
  <2>2. CASE \A e \in buf : e.on \in {"collapse", "trace"} => e \in buf'
    <3>1. On("collapse")' = On("collapse") /\ On("trace")' = On("trace")
      BY <2>2 DEF On
    <3> QED
      BY <2>1, <3>1 DEF AttemptsInv
  <2>3. CASE \A e \in buf' : e.on \notin {"collapse", "trace"}
    <3>1. On("collapse")' = {} /\ On("trace")' = {}
      BY <2>3 DEF On
    <3> QED
      BY <2>1, <3>1 DEF AttemptsInv
  <2> QED
    BY <2>2, <2>3
<1> QED
  BY <1>1, <1>2, <1>3

(* Rows that are of one event, or not of an attempt *)
Plain(rows) ==
  \A r \in rows : r.table = "collapse_hugepage" => \A d, e \in r.of : d = e

(* The rows of a list are. *)
LEMMA PlainRows ==
  ASSUME NEW l
  PROVE  Plain(Rows(l)) /\ Plain(Table(l))
<1>1. Plain(Rows(l))
  BY DEF Plain, Rows
<1>2. Plain({Blank(l)})
  BY DEF Plain, Blank
<1> QED
  BY <1>1, <1>2 DEF Table

(* A hook whose lists are not those of the attempts is popped. *)
LEMMA PoppedPlain ==
  ASSUME PopsInv, NEW h, NEW rows, Popped(h, rows), Plain(rows),
         \/ ListsOf(h) \cap {"collapse", "trace"} = {}
         \/ {"collapse", "trace"} \subseteq ListsOf(h)
  PROVE  PopsInv'
<1>1. /\ buf' = {e \in buf : e.on \notin ListsOf(h)} /\ pending' = pending \cup rows
      /\ UNCHANGED <<clock, open, filed>>
  BY DEF Popped
<1>2. /\ buf' \subseteq buf
      /\ \/ \A e \in buf : e.on \in {"collapse", "trace"} => e \in buf'
         \/ \A e \in buf' : e.on \notin {"collapse", "trace"}
  BY <1>1
<1>3. EventsInv'
  BY <1>1, <1>2, Emptied DEF PopsInv
<1>4. PairsOwn'
  BY <1>1 DEF PopsInv, PairsOwn, Plain
<1> QED
  BY <1>3, <1>4 DEF PopsInv

(* Nothing is taken out of the lists. *)
LEMMA KeptLists ==
  ASSUME PopsInv, UNCHANGED <<clock, open, buf>>,
         pending' \cup filed' \subseteq pending \cup filed
  PROVE  PopsInv'
<1>1. EventsInv'
  BY Emptied DEF PopsInv
<1>2. PairsOwn'
  BY DEF PopsInv, PairsOwn
<1> QED
  BY <1>1, <1>2 DEF PopsInv

(* The hooks that make a table of every list, or of those with rows *)
LEMMA TablesStep ==
  ASSUME PopsInv,
         \/ PopFileData \/ PopMadvise \/ PopUnmapRange \/ PopRssStat \/ PopProcessTrace
         \/ PopZswap \/ PopMemoryUsage \/ PopCbmm \/ PopPerf \/ PopTrace \/ PopVmstat
         \/ PopProcMaps \/ PopSmaps \/ PopIntervention
  PROVE  PopsInv'
<1>1. ASSUME NEW h \in {"file_data", "madvise", "unmap_range", "mm_rss_stat",
                        "process_trace", "zswap_runtime", "memory_usage"}, PopOneTable(h)
      PROVE  PopsInv'
  <2>1. ListsOf(h) \cap {"collapse", "trace"} = {} /\ Plain(Table(h)) /\ Popped(h, Table(h))
    BY <1>1, HookLists, PlainRows DEF PopOneTable
  <2> QED
    BY <2>1, PoppedPlain
<1>2. ASSUME NEW h \in {"perf", "thp_trace", "vmstat_harness", "proc_maps", "smaps_hook",
                        "thp_intervention"}, PopNonEmpty(h)
      PROVE  PopsInv'
  <2> DEFINE rows == UNION {Rows(l) : l \in ListsOf(h)}
  <2>1. Plain(rows)
    BY PlainRows DEF Plain
  <2>2. ListsOf(h) \cap {"collapse", "trace"} = {}
    BY HookLists, HookPopsAssumption
  <2>3. Popped(h, rows)
    BY <1>2 DEF PopNonEmpty
  <2> HIDE DEF rows
  <2> QED
    BY <2>1, <2>2, <2>3, PoppedPlain
<1>3. ASSUME PopCbmm PROVE PopsInv'
  <2> DEFINE rows == Table("eager") \cup Table("prezero")
  <2>1. Plain(rows)
    BY PlainRows DEF Plain
  <2>2. ListsOf("cbmm") \cap {"collapse", "trace"} = {} /\ Popped("cbmm", rows)
    BY <1>3, HookLists DEF PopCbmm
  <2> HIDE DEF rows
  <2> QED
    BY <2>1, <2>2, PoppedPlain
<1> QED
  BY <1>1, <1>2, <1>3 DEF PopFileData, PopMadvise, PopUnmapRange, PopRssStat, PopProcessTrace,
       PopZswap, PopMemoryUsage, PopPerf, PopTrace, PopVmstat, PopProcMaps, PopSmaps,
       PopIntervention

(* The hooks that join lists, or leave rows out *)
LEMMA JoinsStep ==
  ASSUME PopsInv, PopProcessMetadata \/ PopQuanta \/ PopBlockIO
  PROVE  PopsInv'
<1>1. CASE PopRaises
  BY <1>1, KeptLists DEF PopRaises
<1>2. CASE PopProcessMetadata
  <2>1. PICK E \in SUBSET On("process_metadata") :
           Popped("process_metadata", {[table |-> "process_metadata", of |-> {e}] : e \in E})
    BY <1>2 DEF PopProcessMetadata
  <2> DEFINE rows == {[table |-> "process_metadata", of |-> {e}] : e \in E}
  <2>2. Plain(rows)
    BY DEF Plain
  <2>3. ListsOf("process_metadata") \cap {"collapse", "trace"} = {}
    BY HookLists
  <2> HIDE DEF rows
  <2>4. Popped("process_metadata", rows)
    BY <2>1 DEF rows
  <2> QED
    BY <2>2, <2>3, <2>4, PoppedPlain
<1>3. CASE PopQuanta /\ ~PopRaises
  <2> DEFINE rows == Rows("runtime") \cup Rows("queued")
  <2>1. Plain(rows)
    BY PlainRows DEF Plain
  <2>2. /\ ListsOf("quanta_runtime") \cap {"collapse", "trace"} = {}
        /\ Popped("quanta_runtime", rows)
    BY <1>3, HookLists DEF PopQuanta
  <2> HIDE DEF rows
  <2> QED
    BY <2>1, <2>2, PoppedPlain
<1>4. CASE PopBlockIO /\ ~PopRaises
  <2> DEFINE rows == {[table |-> "block_io", of |-> {p[1], p[2]}] :
                        p \in {ql \in On("queue") \X On("latency") : ql[1].key = ql[2].key}}
  <2>1. Plain(rows)
    BY DEF Plain
  <2>2. ListsOf("block_io") \cap {"collapse", "trace"} = {} /\ Popped("block_io", rows)
    BY <1>4, HookLists DEF PopBlockIO
  <2> HIDE DEF rows
  <2> QED
    BY <2>1, <2>2, PoppedPlain
<1> QED
  BY <1>1, <1>2, <1>3, <1>4

(* The time of an event *)
AtKey(l) == [e \in On(l) |-> e.at]

(* A list sorted by time has all events of the list, each once. *)
LEMMA SortedList ==
  ASSUME PopsTypeOK, NEW l
  PROVE  LET n == Cardinality(On(l))
             s == Sorted(l)
         IN  /\ n \in Nat /\ IsFiniteSet(On(l))
             /\ s \in [1..n -> On(l)]
             /\ \A i, j \in 1..n : i < j => s[i].at < s[j].at
             /\ \A i, j \in 1..n : s[i] = s[j] => i = j
             /\ \A e \in On(l) : \E i \in 1..n : s[i] = e
<1> DEFINE S == On(l)
           n == Cardinality(S)
           s == Sorted(l)
<1>1. IsFiniteSet(S) /\ n \in Nat
  BY FS_Subset, FS_CardinalityType DEF PopsTypeOK, On
<1>2. \A e \in S : AtKey(l)[e] = e.at
  BY DEF AtKey
<1>3. IsKey(AtKey(l), S)
  BY <1>2 DEF IsKey, PopsTypeOK, On
<1>4. PICK t : Ascending(t, S, AtKey(l))
  BY <1>1, <1>3, AscendingExists
<1>5. t \in [1..n -> S] /\ \A i, j \in 1..n : i < j => t[i].at < t[j].at
  BY <1>2, <1>4 DEF Ascending
<1>6. s \in [1..n -> S] /\ \A i, j \in 1..n : i < j => s[i].at < s[j].at
  BY <1>5 DEF Sorted
<1> HIDE DEF S, s
<1>7. Ascending(s, S, AtKey(l))
  BY <1>2, <1>6 DEF Ascending
<1>8. /\ \A i, j \in 1..n : s[i] = s[j] => i = j
      /\ \A e \in S : \E i \in 1..n : s[i] = e
  BY <1>1, <1>3, <1>7, AscendingCovers
<1> QED
  BY <1>1, <1>6, <1>8 DEF S, s

(* If every trace is of a collapse in the lists, then the one at the same  *)
(* place is its own.                                                       *)
LEMMA SamePlace ==
  ASSUME EventsInv, ~Overlapping,
         \A t \in On("trace") : \E c \in On("collapse") : c.key = t.key
  PROVE  \A i \in 1..Cardinality(On("collapse")) :
            i \in 1..Cardinality(On("trace"))
               => Sorted("collapse")[i].key = Sorted("trace")[i].key
<1> DEFINE C == On("collapse")
           D == On("trace")
           c == Sorted("collapse")
           t == Sorted("trace")
           nc == Cardinality(C)
           nt == Cardinality(D)
           T == {m \in Nat : m \in 1..nc /\ m \in 1..nt /\ c[m].key # t[m].key}
<1>1. /\ nc \in Nat /\ c \in [1..nc -> C]
      /\ \A i, j \in 1..nc : i < j => c[i].at < c[j].at
      /\ \A i, j \in 1..nc : c[i] = c[j] => i = j
      /\ \A e \in C : \E i \in 1..nc : c[i] = e
  BY SortedList DEF EventsInv
<1>2. /\ nt \in Nat /\ t \in [1..nt -> D]
      /\ \A i, j \in 1..nt : i < j => t[i].at < t[j].at
      /\ \A i, j \in 1..nt : t[i] = t[j] => i = j
      /\ \A e \in D : \E i \in 1..nt : t[i] = e
  BY SortedList DEF EventsInv
<1>3. AttemptsInv /\ KeysInv /\ PopsTypeOK
  BY DEF EventsInv
<1>4. \A e \in C : e.key = e.at /\ e.at \in Nat
  BY <1>3, Spans DEF On, KeysInv, PopsTypeOK
<1>5. /\ \A e \in D : e.key \in Nat /\ e.at \in Nat /\ e.key < e.at
      /\ \A d, e \in D : d.key = e.key => d = e
  BY <1>3, Spans DEF On, KeysInv, PopsTypeOK
<1>6. \A d, e \in C : d.key = e.key => d = e
  BY <1>3, <1>4 DEF On, PopsTypeOK
<1>7. \A s \in Tracing : \A e \in C : e.at <= s.key /\ s.key \in Nat
  BY <1>3 DEF AttemptsInv, PopsTypeOK, Tracing
<1>8. \A e \in C : (\E d \in D : d.key = e.key) \/ (\E s \in Tracing : s.key = e.key)
  BY <1>3 DEF AttemptsInv
<1>9. \A d \in D, e \in C : e.at <= d.key \/ d.at < e.at
  BY <1>3 DEF AttemptsInv
<1>10. \A d \in D : \E e \in C : e.key = d.key
  OBVIOUS
<1> HIDE DEF C, D, c, t, nc, nt
<1>11. CASE T = {}
  BY <1>1, <1>11 DEF C, D, c, t, nc, nt
<1>12. CASE T # {}
  <2>1. PICK m \in T : \A k \in T : m <= k
    BY <1>12, LeastNat
  <2>2. m \in Nat /\ m \in 1..nc /\ m \in 1..nt /\ c[m].key # t[m].key
    OBVIOUS
  <2>3. ASSUME NEW k \in 1..nc, k \in 1..nt, k < m
        PROVE  c[k].key = t[k].key
    <3>1. k \in Nat /\ ~(m <= k)
      BY <1>1, <2>2, <2>3
    <3>2. k \notin T
      <4> HIDE DEF T
      <4> QED
        BY <2>1, <3>1
    <3> QED
      BY <2>3, <3>1, <3>2
  <2> HIDE DEF T
  <2>4. c[m] \in C /\ t[m] \in D
    BY <1>1, <1>2, <2>2
  <2>5. PICK j \in 1..nc : c[j].key = t[m].key
    BY <1>1, <1>10, <2>4
  <2>6. c[j] \in C /\ j \in Nat /\ (j < m => j \in 1..nt)
    BY <1>1, <1>2, <2>2
  <2>7. CASE j < m
    <3>1. t[j] \in D /\ t[j].key = t[m].key
      BY <1>2, <2>3, <2>5, <2>6, <2>7
    <3>2. t[j] = t[m]
      BY <1>5, <2>4, <3>1
    <3>3. j = m
      BY <1>2, <2>2, <2>6, <2>7, <3>2
    <3> QED
      BY <2>2, <2>7, <3>3
  <2>8. CASE m < j
    <3>1. c[m].at < c[j].at /\ c[j].at = t[m].key /\ c[m].at = c[m].key
      BY <1>1, <1>4, <2>2, <2>4, <2>5, <2>6, <2>8
    <3>2. ASSUME NEW s \in Tracing, s.key = c[m].key PROVE FALSE
      <4>1. c[j].at <= s.key /\ s.key \in Nat
        BY <1>7, <2>6
      <4>2. c[j].at \in Nat
        BY <1>4, <2>6
      <4> QED
        BY <3>1, <3>2, <4>1, <4>2
    <3>3. PICK d \in D : d.key = c[m].key
      BY <1>8, <2>4, <3>2
    <3>4. PICK k \in 1..nt : t[k] = d
      BY <1>2
    <3>5. d.at < c[j].at
      <4>1. c[j].at <= d.key \/ d.at < c[j].at
        BY <1>9, <2>6
      <4>2. c[j].at \in Nat /\ d.key \in Nat /\ d.key < c[j].at
        BY <1>4, <1>5, <2>6, <3>1, <3>3
      <4> QED
        BY <4>1, <4>2
    <3>6. t[k].at < t[m].at /\ t[k].at \in Nat /\ t[m].at \in Nat
      <4>1. t[m].key < t[m].at /\ t[m].at \in Nat /\ d.at \in Nat /\ t[m].key \in Nat
        BY <1>5, <2>4
      <4> QED
        BY <3>1, <3>4, <3>5, <4>1
    <3>7. k < m
      <4>1. k \in Nat /\ ~(m < k) /\ k # m
        BY <1>2, <2>2, <3>6
      <4> QED
        BY <2>2, <4>1
    <3>8. k \in 1..nc
      BY <1>1, <1>2, <2>2, <3>7
    <3>9. c[k].key = c[m].key /\ c[k] \in C
      BY <1>1, <2>3, <3>3, <3>4, <3>7, <3>8
    <3>10. c[k] = c[m]
      BY <1>6, <2>4, <3>9
    <3>11. k = m
      BY <1>1, <2>2, <3>8, <3>10
    <3> QED
      BY <2>2, <3>7, <3>11
  <2>9. CASE j = m
    BY <2>2, <2>5, <2>9
  <2> QED
    BY <2>2, <2>6, <2>7, <2>8, <2>9
<1> QED
  BY <1>11, <1>12

(* A trace of an attempt whose collapse went with an earlier pop comes     *)
(* first, and then there are no fewer traces than collapses.               *)
LEMMA OrphanFirst ==
  ASSUME EventsInv, ~Overlapping,
         NEW o \in On("trace"), ~ \E c \in On("collapse") : c.key = o.key
  PROVE  Cardinality(On("collapse")) <= Cardinality(On("trace"))
<1> DEFINE C == On("collapse")
           D == On("trace")
           Own(c) == \E d \in D : d.key = c.key
           f == [c \in C |-> IF Own(c) THEN CHOOSE d \in D : d.key = c.key ELSE o]
<1>1. AttemptsInv /\ KeysInv /\ PopsTypeOK
  BY DEF EventsInv
<1>2. \A e \in C : e.key = e.at /\ e.at \in Nat
  BY <1>1, Spans DEF On, KeysInv, PopsTypeOK
<1>3. \A d, e \in C : d.key = e.key => d = e
  BY <1>1, <1>2 DEF On, PopsTypeOK
<1>4. \A e \in C : Own(e) \/ (\E s \in Tracing : s.key = e.key)
  BY <1>1 DEF AttemptsInv
<1>5. \A r, s \in Tracing : r = s
  BY <1>1 DEF AttemptsInv
<1>6. ASSUME NEW c \in C
      PROVE  /\ f[c] \in D
             /\ Own(c) => f[c].key = c.key
             /\ ~Own(c) => f[c] = o
  OBVIOUS
<1>7. \A c \in C : c.key # o.key
  OBVIOUS
<1>8. f \in [C -> D]
  BY <1>6
<1> HIDE DEF f, C, D
<1>9. ASSUME NEW c \in C, NEW e \in C, f[c] = f[e]
      PROVE  c = e
  <2>1. CASE Own(c) /\ Own(e)
    BY <1>3, <1>6, <1>9, <2>1
  <2>2. CASE ~Own(c) /\ ~Own(e)
    BY <1>3, <1>4, <1>5, <2>2
  <2>3. CASE Own(c) /\ ~Own(e)
    BY <1>6, <1>7, <1>9, <2>3
  <2>4. CASE ~Own(c) /\ Own(e)
    BY <1>6, <1>7, <1>9, <2>4
  <2> QED
    BY <2>1, <2>2, <2>3, <2>4
<1>10. f \in Injection(C, D)
  BY <1>8, <1>9 DEF Injection, IsInjective
<1>11. IsFiniteSet(D)
  BY <1>1, FS_Subset DEF D, On, PopsTypeOK
<1>12. Cardinality(C) <= Cardinality(D)
  BY <1>10, <1>11, FS_Injection
<1> QED
  BY <1>12 DEF C, D

(* If the lengths agree, then no collapse was dropped and every row is of  *)
(* one attempt.                                                            *)
LEMMA EqualLengths ==
  ASSUME EventsInv, ~Overlapping, On("collapse") # {}, On("trace") # {},
         Len(FromTables(Sorted("collapse"), Sorted("trace"))) = Len(Sorted("trace"))
  PROVE  /\ FromTables(Sorted("collapse"), Sorted("trace")) = Sorted("collapse")
         /\ \A i \in DOMAIN Sorted("collapse") \cap DOMAIN Sorted("trace") :
               Sorted("collapse")[i].key = Sorted("trace")[i].key
<1> DEFINE C == On("collapse")
           D == On("trace")
           c == Sorted("collapse")
           t == Sorted("trace")
           nc == Cardinality(C)
           nt == Cardinality(D)
<1>1. /\ nc \in Nat /\ c \in [1..nc -> C] /\ IsFiniteSet(C)
      /\ \A i, j \in 1..nc : i < j => c[i].at < c[j].at
      /\ \A e \in C : \E i \in 1..nc : c[i] = e
  BY SortedList DEF EventsInv
<1>2. /\ nt \in Nat /\ t \in [1..nt -> D] /\ IsFiniteSet(D)
      /\ \A i, j \in 1..nt : i < j => t[i].at < t[j].at
      /\ \A e \in D : \E i \in 1..nt : t[i] = e
  BY SortedList DEF EventsInv
<1>3. AttemptsInv /\ KeysInv /\ PopsTypeOK
  BY DEF EventsInv
<1>4. \A e \in C : e.key = e.at /\ e.at \in Nat
  BY <1>3, Spans DEF On, KeysInv, PopsTypeOK
<1>5. \A e \in D : e.key \in Nat /\ e.at \in Nat /\ e.key < e.at
  BY <1>3, Spans DEF On, KeysInv, PopsTypeOK
<1>6. nc # 0 /\ nt # 0
  BY <1>1, <1>2, FS_EmptySet
<1> HIDE DEF C, D, c, t, nc, nt
<1>7. /\ c \in Seq(C) /\ Len(c) = nc /\ Head(c) = c[1] /\ 1 \in 1..nc
      /\ t \in Seq(D) /\ Len(t) = nt /\ Head(t) = t[1] /\ 1 \in 1..nt
      /\ DOMAIN c = 1..nc /\ DOMAIN t = 1..nt
  BY <1>1, <1>2, <1>6
<1>8. c[1] \in C /\ t[1] \in D
  BY <1>1, <1>2, <1>7
<1>9. CASE \A d \in D : \E e \in C : e.key = d.key
  <2>1. PICK e \in C : e.key = t[1].key
    BY <1>8, <1>9
  <2>2. PICK i \in 1..nc : c[i] = e
    BY <1>1
  <2>3. c[1].at <= c[i].at
    <3>1. i = 1 \/ 1 < i
      BY <1>1
    <3>2. c[1].at \in Nat /\ c[i].at \in Nat
      BY <1>4, <1>8, <2>2
    <3> QED
      BY <1>1, <1>7, <3>1, <3>2
  <2>4. ~(Head(t).at < Head(c).at)
    <3>1. /\ c[1].at \in Nat /\ e.at \in Nat /\ t[1].at \in Nat /\ t[1].key \in Nat
          /\ e.key = e.at /\ t[1].key < t[1].at
      BY <1>4, <1>5, <1>8
    <3> QED
      BY <1>7, <2>1, <2>2, <2>3, <3>1
  <2>5. FromTables(c, t) = c
    BY <2>4 DEF FromTables
  <2>6. \A j \in 1..nc : j \in 1..nt => c[j].key = t[j].key
    BY <1>9, SamePlace DEF C, D, c, t, nc, nt
  <2> QED
    BY <1>7, <2>5, <2>6 DEF c, t
<1>10. CASE ~ \A d \in D : \E e \in C : e.key = d.key
  <2>1. PICK o \in D : ~ \E e \in C : e.key = o.key
    BY <1>10
  <2>2. nc <= nt
    BY <2>1, OrphanFirst DEF C, D, nc, nt
  <2>3. /\ \A e \in C : o.at < e.at
        /\ \A u \in D : o.at <= u.at
    BY <1>3, <2>1 DEF AttemptsInv, C, D
  <2>4. t[1] = o
    <3>1. PICK i \in 1..nt : t[i] = o
      BY <1>2
    <3>2. t[1].at \in Nat /\ o.at \in Nat /\ o.at <= t[1].at
      BY <1>5, <1>8, <2>3
    <3>3. ~(1 < i)
      BY <1>2, <1>7, <3>1, <3>2
    <3>4. i = 1
      BY <1>2, <3>3
    <3> QED
      BY <3>1, <3>4
  <2>5. Head(t).at < Head(c).at
    BY <1>7, <1>8, <2>3, <2>4
  <2>6. FromTables(c, t) = Tail(c)
    BY <2>5 DEF FromTables
  <2>7. Len(Tail(c)) = nc - 1
    BY <1>6, <1>7
  <2>8. nc - 1 = nt
    BY <1>7, <2>6, <2>7 DEF c, t
  <2> QED
    BY <1>1, <1>2, <2>2, <2>8
<1> QED
  BY <1>9, <1>10

(* Rows are put side by side, or data() makes none, or raises. *)
LEMMA CollapseStep ==
  ASSUME PopsInv, PopCollapse
  PROVE  PopsInv'
<1> DEFINE c == Sorted("collapse")
           t == Sorted("trace")
           f == FromTables(c, t)
           rows == Zipped(f, t) \cup Rows("scan")
<1>1. ListsOf("collapse_huge_pages") = {"collapse", "trace", "scan"}
  BY HookLists
<1>2. \/ Popped("collapse_huge_pages", {})
      \/ PopRaises
      \/ /\ Popped("collapse_huge_pages", rows) /\ Len(f) = Len(t)
         /\ On("collapse") # {} /\ On("trace") # {}
  BY <1>1 DEF PopCollapse
<1>3. CASE Popped("collapse_huge_pages", {})
  <2>1. Plain({})
    BY DEF Plain
  <2> QED
    BY <1>1, <1>3, <2>1, PoppedPlain
<1>4. CASE PopRaises
  BY <1>4, KeptLists DEF PopRaises
<1>5. CASE /\ Popped("collapse_huge_pages", rows) /\ Len(f) = Len(t)
           /\ On("collapse") # {} /\ On("trace") # {}
  <2>1. EventsInv'
    <3>1. /\ UNCHANGED <<clock, open>> /\ buf' \subseteq buf
          /\ \A e \in buf' : e.on \notin {"collapse", "trace"}
      BY <1>1, <1>5 DEF Popped
    <3> QED
      BY <3>1, Emptied DEF PopsInv
  <2>2. ASSUME ~Overlapping, NEW r \in rows, r.table = "collapse_hugepage"
        PROVE  \A d, e \in r.of : d.key = e.key
    <3>1. CASE r \in Rows("scan")
      BY <3>1 DEF Rows
    <3>2. CASE r \in Zipped(f, t)
      <4>1. f = c /\ \A i \in DOMAIN c \cap DOMAIN t : c[i].key = t[i].key
        BY <1>5, <2>2, EqualLengths DEF PopsInv
      <4> HIDE DEF c, t, f
      <4>2. PICK i \in DOMAIN f \cap DOMAIN t : r.of = {f[i], t[i]}
        BY <3>2 DEF Zipped
      <4> QED
        BY <4>1, <4>2
    <3> QED
      BY <2>2, <3>1, <3>2
  <2>3. pending' = pending \cup rows /\ filed' = filed
    BY <1>5 DEF Popped
  <2> HIDE DEF rows
  <2>4. PairsOwn'
    BY <2>2, <2>3 DEF PopsInv, PairsOwn
  <2> QED
    BY <2>1, <2>4 DEF PopsInv
<1> QED
  BY <1>2, <1>3, <1>4, <1>5

(* Every step keeps the invariant. *)
LEMMA PopsStep == PopsInv /\ [PopsNext]_popVars => PopsInv'
<1> SUFFICES ASSUME PopsInv, [PopsNext]_popVars PROVE PopsInv'
  OBVIOUS
<1>1. CASE HookEvent
  BY <1>1, EventStep
<1>2. CASE BeginPops \/ FilePops \/ UNCHANGED popVars
  <2>1. UNCHANGED <<clock, open, buf>> /\ pending' \cup filed' \subseteq pending \cup filed
    BY <1>2 DEF BeginPops, FilePops, popVars
  <2> QED
    BY <2>1, KeptLists
<1>3. CASE \/ PopFileData \/ PopMadvise \/ PopUnmapRange \/ PopRssStat \/ PopProcessTrace
           \/ PopZswap \/ PopMemoryUsage \/ PopCbmm \/ PopPerf \/ PopTrace \/ PopVmstat
           \/ PopProcMaps \/ PopSmaps \/ PopIntervention
  BY <1>3, TablesStep
<1>4. CASE PopProcessMetadata \/ PopQuanta \/ PopBlockIO
  BY <1>4, JoinsStep
<1>5. CASE PopCollapse
  BY <1>5, CollapseStep
<1> QED
  BY <1>1, <1>2, <1>3, <1>4, <1>5 DEF PopsNext

(* Spans and the events of them in the lists, for any hooks and events. *)
THEOREM PopsInvCorrect == PopsSpec => []PopsInv
<1>1. PopsInit => PopsInv
  BY PopsInitInv
<1>2. PopsInv /\ [PopsNext]_popVars => PopsInv'
  BY PopsStep
<1> QED
  BY <1>1, <1>2, PTL DEF PopsSpec

(* As long as no two attempts overlap, no row mixes two of them. *)
THEOREM PairsCorrect == PopsSpec => []PairsOwn
<1>1. PopsInv => PairsOwn
  BY DEF PopsInv
<1> QED
  BY <1>1, PopsInvCorrect, PTL

(* What becomes of an event that leaves its list *)
Accounted(e) ==
  \/ \E r \in pending' : e \in r.of
  \/ /\ e.on \in ListsOf("collapse_huge_pages")
     /\ \E l \in ListsOf("collapse_huge_pages") : On(l) = {}
  \/ /\ e.on \in ListsOf("block_io")
     /\ ~ \E d \in buf : d # e /\ d.on \in ListsOf("block_io") /\ d.key = e.key
  \/ /\ e.on = "process_metadata"
     /\ \E r \in pending', d \in On(e.on) : r.of = {d} /\ d.key = e.key

(* A pop that returns the rows of every list *)
LEMMA AllListed ==
  ASSUME NEW h, NEW rows, Popped(h, rows),
         \A l \in ListsOf(h) : Rows(l) \subseteq rows,
         NEW e \in buf \ buf'
  PROVE  Accounted(e)
<1>1. e.on \in ListsOf(h) /\ e \in On(e.on) /\ pending' = pending \cup rows
  BY DEF Popped, On
<1>2. [table |-> e.on, of |-> {e}] \in pending'
  BY <1>1 DEF Rows
<1>3. e \in [table |-> e.on, of |-> {e}].of
  OBVIOUS
<1> QED
  BY <1>2, <1>3 DEF Accounted

(* A table of one list has the rows of the list. *)
LEMMA TableRows == \A l : Rows(l) \subseteq Table(l)
  BY DEF Rows, Table

(* Tables of every list, or of those with rows *)
LEMMA TablesAccount ==
  ASSUME \/ PopFileData \/ PopMadvise \/ PopUnmapRange \/ PopRssStat \/ PopProcessTrace
         \/ PopZswap \/ PopMemoryUsage \/ PopCbmm \/ PopPerf \/ PopTrace \/ PopVmstat
         \/ PopProcMaps \/ PopSmaps \/ PopIntervention,
         NEW e \in buf \ buf'
  PROVE  Accounted(e)
<1>1. ASSUME NEW h \in {"file_data", "madvise", "unmap_range", "mm_rss_stat",
                        "process_trace", "zswap_runtime", "memory_usage"}, PopOneTable(h)
      PROVE  Accounted(e)
  <2>1. Popped(h, Table(h)) /\ \A l \in ListsOf(h) : Rows(l) \subseteq Table(h)
    BY <1>1, HookLists, TableRows DEF PopOneTable
  <2> QED
    BY <2>1, AllListed
<1>2. ASSUME NEW h, PopNonEmpty(h)
      PROVE  Accounted(e)
  <2> DEFINE rows == UNION {Rows(l) : l \in ListsOf(h)}
  <2>1. Popped(h, rows) /\ \A l \in ListsOf(h) : Rows(l) \subseteq rows
    BY <1>2 DEF PopNonEmpty
  <2> HIDE DEF rows
  <2> QED
    BY <2>1, AllListed
<1>3. CASE PopCbmm
  <2> DEFINE rows == Table("eager") \cup Table("prezero")
  <2>1. Popped("cbmm", rows) /\ \A l \in ListsOf("cbmm") : Rows(l) \subseteq rows
    BY <1>3, HookLists, TableRows DEF PopCbmm
  <2> HIDE DEF rows
  <2> QED
    BY <2>1, AllListed
<1> QED
  BY <1>1, <1>2, <1>3 DEF PopFileData, PopMadvise, PopUnmapRange, PopRssStat, PopProcessTrace,
       PopZswap, PopMemoryUsage, PopPerf, PopTrace, PopVmstat, PopProcMaps, PopSmaps,
       PopIntervention

(* One row for every process *)
LEMMA ProcessesAccount ==
  ASSUME PopsInv, PopProcessMetadata, NEW e \in buf \ buf'
  PROVE  Accounted(e)
<1>1. PICK E \in SUBSET On("process_metadata") :
         /\ \A p \in Procs :
               Cardinality({d \in E : d.key = p})
                   = IF \E d \in On("process_metadata") : d.key = p THEN 1 ELSE 0
         /\ Popped("process_metadata", {[table |-> "process_metadata", of |-> {d}] : d \in E})
  BY DEF PopProcessMetadata
<1>2. e.on = "process_metadata" /\ e \in On("process_metadata") /\ e.key \in Procs
  BY <1>1, HookLists DEF Popped, On, PopsInv, EventsInv, KeysInv
<1>3. Cardinality({d \in E : d.key = e.key}) = 1
  BY <1>1, <1>2
<1>4. {d \in E : d.key = e.key} # {}
  BY <1>3, FS_EmptySet
<1>5. PICK d \in E : d.key = e.key
  BY <1>4
<1>6. [table |-> "process_metadata", of |-> {d}] \in pending'
  BY <1>1 DEF Popped
<1>7. [table |-> "process_metadata", of |-> {d}].of = {d} /\ d \in On(e.on)
  BY <1>2
<1> QED
  BY <1>2, <1>5, <1>6, <1>7 DEF Accounted

(* A request of which both halves are there *)
LEMMA RequestsAccount ==
  ASSUME PopsInv, PopBlockIO, NEW e \in buf \ buf'
  PROVE  Accounted(e)
<1> DEFINE rows == {[table |-> "block_io", of |-> {p[1], p[2]}] :
                      p \in {ql \in On("queue") \X On("latency") : ql[1].key = ql[2].key}}
<1>1. ~PopRaises
  BY DEF PopRaises
<1>2. Popped("block_io", rows) /\ ListsOf("block_io") = {"queue", "latency"}
  BY <1>1, HookLists DEF PopBlockIO
<1>3. /\ e \in buf /\ e.on \in {"queue", "latency"}
      /\ pending' = pending \cup rows
  BY <1>2 DEF Popped
<1>4. ASSUME NEW q \in On("queue"), NEW l \in On("latency"), q.key = l.key
      PROVE  \E r \in rows : q \in r.of /\ l \in r.of
  <2>0. PICK p \in On("queue") \X On("latency") : p[1] = q /\ p[2] = l
    <3>1. <<q, l>> \in On("queue") \X On("latency") /\ <<q, l>>[1] = q /\ <<q, l>>[2] = l
      OBVIOUS
    <3> QED
      BY <3>1
  <2>1. /\ p \in {ql \in On("queue") \X On("latency") : ql[1].key = ql[2].key}
        /\ p[1] = q /\ p[2] = l
    BY <1>4, <2>0
  <2> DEFINE r == [table |-> "block_io", of |-> {p[1], p[2]}]
  <2>2. r \in rows
    BY <2>1
  <2>3. q \in r.of /\ l \in r.of
    BY <2>1
  <2> HIDE DEF rows, r
  <2> QED
    BY <2>2, <2>3
<1> HIDE DEF rows
<1>5. ASSUME NEW d \in buf, d # e, d.on \in {"queue", "latency"}, d.key = e.key
      PROVE  \E r \in pending' : e \in r.of
  <2>1. d.on # e.on
    <3>1. PopsTypeOK /\ KeysInv
      BY DEF PopsInv, EventsInv
    <3>2. CASE d.on = "queue" /\ e.on = "queue"
      <4>1. d.key = d.at /\ e.key = e.at
        BY <1>3, <3>1, <3>2, Spans DEF KeysInv
      <4> QED
        BY <1>3, <1>5, <3>1, <4>1 DEF PopsTypeOK
    <3>3. CASE d.on = "latency" /\ e.on = "latency"
      BY <1>3, <1>5, <3>1, <3>3, Spans DEF KeysInv
    <3> QED
      BY <1>3, <1>5, <3>2, <3>3
  <2>2. CASE e.on = "queue"
    <3>1. e \in On("queue") /\ d \in On("latency")
      BY <1>3, <1>5, <2>1, <2>2 DEF On
    <3> QED
      BY <1>3, <1>4, <1>5, <3>1
  <2>3. CASE e.on = "latency"
    <3>1. e \in On("latency") /\ d \in On("queue")
      BY <1>3, <1>5, <2>1, <2>3 DEF On
    <3> QED
      BY <1>3, <1>4, <1>5, <3>1
  <2> QED
    BY <1>3, <2>2, <2>3
<1>6. CASE \E d \in buf : d # e /\ d.on \in {"queue", "latency"} /\ d.key = e.key
  BY <1>5, <1>6 DEF Accounted
<1>7. CASE ~ \E d \in buf : d # e /\ d.on \in {"queue", "latency"} /\ d.key = e.key
  BY <1>2, <1>3, <1>7 DEF Accounted
<1> QED
  BY <1>6, <1>7

(* All of the attempts are in rows, if there is an event in every list. *)
LEMMA AttemptsAccount ==
  ASSUME PopsInv, ~Overlapping, PopCollapse, NEW e \in buf \ buf'
  PROVE  Accounted(e)
<1> DEFINE c == Sorted("collapse")
           t == Sorted("trace")
           f == FromTables(c, t)
           rows == Zipped(f, t) \cup Rows("scan")
<1>1. ListsOf("collapse_huge_pages") = {"collapse", "trace", "scan"} /\ ~PopRaises
  BY HookLists DEF PopRaises
<1>2. \/ /\ Popped("collapse_huge_pages", {})
         /\ \E l \in ListsOf("collapse_huge_pages") : On(l) = {}
      \/ /\ Popped("collapse_huge_pages", rows) /\ Len(f) = Len(t)
         /\ On("collapse") # {} /\ On("trace") # {}
  BY <1>1 DEF PopCollapse
<1>3. e \in buf /\ e.on \in {"collapse", "trace", "scan"}
  BY <1>1, <1>2 DEF Popped
<1>4. CASE \E l \in ListsOf("collapse_huge_pages") : On(l) = {}
  BY <1>1, <1>3, <1>4 DEF Accounted
<1>5. CASE /\ Popped("collapse_huge_pages", rows) /\ Len(f) = Len(t)
           /\ On("collapse") # {} /\ On("trace") # {}
  <2>1. f = c
    BY <1>5, EqualLengths DEF PopsInv
  <2>2. pending' = pending \cup rows
    BY <1>5 DEF Popped
  <2> DEFINE nc == Cardinality(On("collapse"))
             nt == Cardinality(On("trace"))
  <2>3. /\ nc \in Nat /\ c \in [1..nc -> On("collapse")]
        /\ \A d \in On("collapse") : \E i \in 1..nc : c[i] = d
    BY SortedList DEF PopsInv, EventsInv
  <2>4. /\ nt \in Nat /\ t \in [1..nt -> On("trace")]
        /\ \A d \in On("trace") : \E i \in 1..nt : t[i] = d
    BY SortedList DEF PopsInv, EventsInv
  <2>5. Len(c) = Len(t)
    BY <1>5, <2>1
  <2> HIDE DEF c, t, f, nc, nt
  <2>6. Len(c) = nc /\ Len(t) = nt /\ DOMAIN c = 1..nc /\ DOMAIN t = 1..nt
    BY <2>3, <2>4
  <2>7. ASSUME NEW i \in 1..nc
        PROVE  \E r \in rows : c[i] \in r.of /\ t[i] \in r.of
    <3>1. i \in DOMAIN f \cap DOMAIN t
      BY <2>1, <2>5, <2>6
    <3>2. [table |-> "collapse_hugepage", of |-> {f[i], t[i]}] \in rows
      BY <3>1 DEF Zipped
    <3>3. /\ c[i] \in [table |-> "collapse_hugepage", of |-> {f[i], t[i]}].of
          /\ t[i] \in [table |-> "collapse_hugepage", of |-> {f[i], t[i]}].of
      BY <2>1
    <3> HIDE DEF rows
    <3> QED
      BY <3>2, <3>3
  <2>8. CASE e.on = "scan"
    <3>1. [table |-> "scan", of |-> {e}] \in rows
      BY <1>3, <2>8 DEF Rows, On
    <3>2. e \in [table |-> "scan", of |-> {e}].of
      OBVIOUS
    <3> HIDE DEF rows
    <3> QED
      BY <2>2, <3>1, <3>2 DEF Accounted
  <2> HIDE DEF rows
  <2>9. CASE e.on = "collapse"
    <3>1. e \in On("collapse")
      BY <1>3, <2>9 DEF On
    <3> QED
      BY <2>2, <2>3, <2>7, <3>1 DEF Accounted
  <2>10. CASE e.on = "trace"
    <3>1. e \in On("trace")
      BY <1>3, <2>10 DEF On
    <3>2. PICK i \in 1..nt : t[i] = e
      BY <2>4, <3>1
    <3>3. i \in 1..nc
      BY <2>5, <2>6
    <3> QED
      BY <2>2, <2>7, <3>2, <3>3 DEF Accounted
  <2> QED
    BY <1>3, <2>8, <2>9, <2>10
<1> QED
  BY <1>2, <1>4, <1>5

(* No event leaves a list without a row or one of the reasons named, as    *)
(* long as no two attempts overlap.                                        *)
THEOREM AccountsCorrect == PopsSpec => PopAccounts
<1>1. ASSUME PopsInv, [PopsNext]_popVars, ~Overlapping, NEW e \in buf \ buf'
      PROVE  Accounted(e)
  <2>1. ~ (BeginPops \/ FilePops \/ PopRaises \/ UNCHANGED popVars)
    BY <1>1 DEF BeginPops, FilePops, PopRaises, popVars
  <2>2. ~HookEvent
    <3>1. ASSUME NEW l, NEW key, Append1(l, key) PROVE FALSE
      BY <1>1, <3>1 DEF Append1
    <3>2. ASSUME NEW l, Event(l) PROVE FALSE
      BY <1>1, <3>1, <3>2 DEF Event, FileOpenEvent, ProcessEvent, VmstatPoll, ProcPoll, TraceEvent
    <3> QED
      BY <3>2 DEF HookEvent
  <2>3. CASE PopQuanta
    <3> DEFINE rows == Rows("runtime") \cup Rows("queued")
    <3>1. Popped("quanta_runtime", rows) /\ \A l \in ListsOf("quanta_runtime") : Rows(l) \subseteq rows
      BY <2>1, <2>3, HookLists DEF PopQuanta
    <3> HIDE DEF rows
    <3> QED
      BY <1>1, <3>1, AllListed
  <2>4. CASE \/ PopFileData \/ PopMadvise \/ PopUnmapRange \/ PopRssStat \/ PopProcessTrace
             \/ PopZswap \/ PopMemoryUsage \/ PopCbmm \/ PopPerf \/ PopTrace \/ PopVmstat
             \/ PopProcMaps \/ PopSmaps \/ PopIntervention
    BY <1>1, <2>4, TablesAccount
  <2> QED
    BY <1>1, <2>1, <2>2, <2>3, <2>4, ProcessesAccount, RequestsAccount, AttemptsAccount
       DEF PopsNext
<1>2. PopsInv /\ [PopsNext]_popVars
        => [~Overlapping => \A e \in buf \ buf' : Accounted(e)]_popVars
  BY <1>1
<1>3. PopsSpec => [][~Overlapping => \A e \in buf \ buf' : Accounted(e)]_popVars
  BY <1>2, PopsInvCorrect, PTL DEF PopsSpec
<1> QED
  BY <1>3 DEF PopAccounts, Accounted

-----------------------------------------------------------------------------
(* Reading back what was written.                                          *)

PerfRows == [cpu : Cpus, ts : Nat, count : Nat, counted : Nat]

PerfTypeOK ==
  /\ pat \in {"run", "end", "ended", "killed", "read", "error"}
  /\ counter \in [Cpus -> Nat] /\ samples \in Nat
  /\ ring \in [Cpus -> Seq(PerfRows)] /\ perfData \in Seq(PerfRows)
  /\ nextChunk \in Nat /\ info \in BOOLEAN
  /\ chunkFiles \subseteq [chunk : Int, rows : Seq(PerfRows)] /\ IsFiniteSet(chunkFiles)
  /\ rowsWritten \in Seq(PerfRows) /\ table \in Seq(PerfRows)

(* No two files F have one name, and their numbers are below n. *)
Named(F, n) ==
  /\ \A f \in F : f.chunk = EndChunk \/ (f.chunk \in Nat /\ f.chunk < n)
  /\ \A f, g \in F : f.chunk = g.chunk => f = g

(* s has the files F in the order in which they are read. *)
Reads(s, F) ==
  /\ s \in [1..Cardinality(F) -> F]
  /\ \A i, j \in 1..Cardinality(F) : i < j => ChunkBefore(s[i], s[j])

(* The rows of the first n files of s *)
RowsOf(s, n) == [i \in 1..n |-> s[i].rows]

(* The files were written in the order in which they are read, and their  *)
(* rows in this order are all that was written; "end" is the last one.    *)
ChunksInv ==
  /\ Named(chunkFiles, nextChunk)
  /\ pat \in {"run", "end"} => \A f \in chunkFiles : f.chunk # EndChunk
  /\ \E s : /\ Reads(s, chunkFiles)
            /\ rowsWritten = FlattenSeq(RowsOf(s, Cardinality(chunkFiles)))

(* The rows there are, except in files that were not read. *)
AllRows ==
  ToSet(rowsWritten) \cup ToSet(perfData) \cup UNION {ToSet(ring[c]) : c \in Cpus}

(* A row is what the counter of its CPU was at its time, as far as it fits *)
(* in the field; there is one row at a time, and no counter goes back.     *)
RowsInv ==
  /\ \A r \in AllRows : /\ r.ts < samples /\ r.counted <= counter[r.cpu]
                        /\ r.count = r.counted % CountWidth
  /\ \A r, s \in AllRows : r.ts = s.ts => r = s
  /\ \A r, s \in AllRows : r.cpu = s.cpu /\ r.ts < s.ts => r.counted <= s.counted

PerfInv == PerfTypeOK /\ ChunksInv /\ RowsInv /\ ReadBackInOrder

(* The place of a file in the order: "end" after n numbers *)
FileKey(F, n) == [f \in F |-> IF f.chunk = EndChunk THEN n ELSE f.chunk]

(* The order of the names is that of the places. *)
LEMMA KeyIsBefore ==
  ASSUME NEW n \in Nat, NEW F, Named(F, n)
  PROVE  /\ IsKey(FileKey(F, n), F)
         /\ \A f, g \in F : ChunkBefore(f, g) <=> FileKey(F, n)[f] < FileKey(F, n)[g]
         /\ \A s : Reads(s, F) <=> Ascending(s, F, FileKey(F, n))
<1>1. \A f \in F : FileKey(F, n)[f] = IF f.chunk = EndChunk THEN n ELSE f.chunk
  BY DEF FileKey
<1>2. IsKey(FileKey(F, n), F)
  BY <1>1 DEF IsKey, Named
<1>3. \A f, g \in F : ChunkBefore(f, g) <=> FileKey(F, n)[f] < FileKey(F, n)[g]
  BY <1>1 DEF Named, ChunkBefore
<1>4. ASSUME NEW s
      PROVE  Reads(s, F) <=> Ascending(s, F, FileKey(F, n))
  BY <1>3 DEF Reads, Ascending
<1> QED
  BY <1>2, <1>3, <1>4

(* FlattenSeq of a list with one more member *)
LEMMA FlattenMore ==
  ASSUME NEW R, NEW n \in Nat,
         NEW ss \in Seq(Seq(R)), Len(ss) = n + 1,
         NEW pp \in Seq(Seq(R)), Len(pp) = n, \A i \in 1..n : pp[i] = ss[i]
  PROVE  FlattenSeq(ss) = FlattenSeq(pp) \o ss[n + 1]
<1> DEFINE f == CHOOSE flatten : flatten =
                  [i \in 1..Len(ss) |-> IF i = 1 THEN ss[i] ELSE flatten[i - 1] \o ss[i]]
           g == CHOOSE flatten : flatten =
                  [i \in 1..Len(pp) |-> IF i = 1 THEN pp[i] ELSE flatten[i - 1] \o pp[i]]
           T == {m \in Nat : m \in 1..n /\ f[m] # g[m]}
<1>1. /\ Len(ss) = n + 1 /\ Len(ss) \in Nat /\ Len(ss) # 0
      /\ Len(pp) = n /\ Len(pp) \in Nat
  OBVIOUS
<1>2. FlattenSeq(ss) = f[n + 1]
  BY <1>1 DEF FlattenSeq
<1>3. f = [i \in 1..(n + 1) |-> IF i = 1 THEN ss[i] ELSE f[i - 1] \o ss[i]]
  <2>1. \E h : h = [i \in 1..Len(ss) |-> IF i = 1 THEN ss[i] ELSE h[i - 1] \o ss[i]]
    BY <1>1, FlattensExist
  <2>2. f = [i \in 1..Len(ss) |-> IF i = 1 THEN ss[i] ELSE f[i - 1] \o ss[i]]
    BY <2>1
  <2> QED
    BY <1>1, <2>2
<1>4. g = [i \in 1..n |-> IF i = 1 THEN pp[i] ELSE g[i - 1] \o pp[i]]
  <2>1. \E h : h = [i \in 1..n |-> IF i = 1 THEN pp[i] ELSE h[i - 1] \o pp[i]]
    BY FlattensExist
  <2>2. g = [i \in 1..Len(pp) |-> IF i = 1 THEN pp[i] ELSE g[i - 1] \o pp[i]]
    BY <1>1, <2>1
  <2> QED
    BY <1>1, <2>2
<1>5. CASE n = 0
  <2>1. FlattenSeq(pp) = <<>>
    BY <1>1, <1>5 DEF FlattenSeq
  <2>2. f[n + 1] = ss[n + 1] /\ ss[n + 1] \in Seq(R)
    <3> HIDE DEF f
    <3> QED
      BY <1>3, <1>5
  <2>3. <<>> \o ss[n + 1] = ss[n + 1]
    BY <2>2
  <2> HIDE DEF f
  <2> QED
    BY <1>2, <2>1, <2>2, <2>3
<1>6. CASE n # 0
  <2>1. FlattenSeq(pp) = g[n]
    BY <1>1, <1>6 DEF FlattenSeq
  <2> HIDE DEF f, g
  <2>2. f[n + 1] = f[n] \o ss[n + 1]
    <3>1. n + 1 \in 1..(n + 1) /\ n + 1 # 1 /\ (n + 1) - 1 = n
      BY <1>6
    <3> QED
      BY <1>3, <3>1
  <2>3. T = {}
    <3> SUFFICES ASSUME T # {} PROVE FALSE
      OBVIOUS
    <3>1. PICK m \in T : \A k \in T : m <= k
      BY LeastNat
    <3>2. m \in 1..n /\ f[m] # g[m] /\ pp[m] = ss[m] /\ m \in 1..(n + 1)
      OBVIOUS
    <3>3. CASE m = 1
      BY <1>3, <1>4, <3>2, <3>3
    <3>4. CASE m # 1
      <4>1. m - 1 \in 1..n /\ m - 1 \in Nat /\ ~(m <= m - 1)
        BY <3>2, <3>4
      <4>2. m - 1 \notin T
        <5> HIDE DEF T
        <5> QED
          BY <3>1, <4>1
      <4>3. f[m - 1] = g[m - 1]
        BY <4>1, <4>2
      <4>4. m \in Nat
        BY <4>1
      <4>5. f[m] = f[m - 1] \o ss[m]
        BY <1>3, <3>2, <3>4
      <4>6. g[m] = g[m - 1] \o ss[m]
        BY <1>4, <3>2, <3>4
      <4> QED
        BY <3>2, <4>3, <4>5, <4>6
    <3> QED
      BY <3>3, <3>4
  <2>4. f[n] = g[n]
    BY <1>6, <2>3
  <2> QED
    BY <1>2, <2>1, <2>2, <2>4
<1> QED
  BY <1>5, <1>6

(* The lists of rows of a list of files *)
LEMMA RowsOfType ==
  ASSUME NEW n \in Nat, NEW s, \A i \in 1..n : s[i].rows \in Seq(PerfRows)
  PROVE  /\ RowsOf(s, n) \in Seq(Seq(PerfRows)) /\ Len(RowsOf(s, n)) = n
         /\ \A i \in 1..n : RowsOf(s, n)[i] = s[i].rows
  BY DEF RowsOf

(* A file that is read after those there are *)
LEMMA ReadsMore ==
  ASSUME NEW F, F \subseteq [chunk : Int, rows : Seq(PerfRows)], IsFiniteSet(F),
         NEW n \in Nat, Named(F, n), \A f \in F : f.chunk # EndChunk,
         NEW x \in [chunk : Int, rows : Seq(PerfRows)], x.chunk \in {n, EndChunk},
         NEW s, Reads(s, F)
  PROVE  /\ IsFiniteSet(F \cup {x}) /\ Named(F \cup {x}, n + 1)
         /\ x.chunk = EndChunk => Named(F \cup {x}, n)
         /\ \E t : /\ Reads(t, F \cup {x})
                   /\ FlattenSeq(RowsOf(t, Cardinality(F \cup {x})))
                        = FlattenSeq(RowsOf(s, Cardinality(F))) \o x.rows
<1> DEFINE G == F \cup {x}
           m == Cardinality(F)
           key == FileKey(G, n + 1)
           t == [i \in 1..(m + 1) |-> IF i = m + 1 THEN x ELSE s[i]]
<1>1. /\ \A f \in F : f.chunk \in Nat /\ f.chunk < n /\ f.chunk # x.chunk
      /\ EndChunk \notin Nat
  BY DEF Named, EndChunk
<1>2. Named(G, n + 1) /\ (x.chunk = EndChunk => Named(G, n))
  BY <1>1 DEF Named
<1>3. n + 1 \in Nat /\ m \in Nat /\ IsFiniteSet(G)
  BY FS_CardinalityType, FS_AddElement
<1>4. /\ \A f, g \in G : ChunkBefore(f, g) <=> key[f] < key[g]
      /\ \A r : Reads(r, G) <=> Ascending(r, G, key)
  BY <1>2, <1>3, KeyIsBefore
<1>5. Ascending(s, F, key)
  BY <1>4 DEF Ascending, Reads
<1>6. x \notin F /\ \A f \in F : key[f] < key[x]
  <2>1. \A f \in F : ChunkBefore(f, x)
    BY <1>1 DEF ChunkBefore
  <2> HIDE DEF key
  <2> QED
    BY <1>1, <1>4, <2>1
<1>7. Cardinality(G) = m + 1 /\ Ascending(t, G, key)
  <2> HIDE DEF key
  <2> QED
    BY <1>5, <1>6, AscendingAppend
<1>8. Reads(t, G)
  BY <1>4, <1>7
<1>9. G \subseteq [chunk : Int, rows : Seq(PerfRows)]
  OBVIOUS
<1>10. s \in [1..m -> F] /\ t \in [1..(m + 1) -> G]
  BY <1>7, <1>8 DEF Reads
<1>11. /\ t[m + 1] = x
       /\ \A i \in 1..m : i \in 1..(m + 1) /\ t[i] = s[i]
  BY <1>3
<1> HIDE DEF t, G, m, key
<1>13. m + 1 \in Nat
  BY <1>3
<1>c. m \in Nat
  BY <1>3
<1>a. \A i \in 1..m : s[i].rows \in Seq(PerfRows)
  BY <1>10
<1>b. \A i \in 1..(m + 1) : t[i].rows \in Seq(PerfRows)
  BY <1>9, <1>10
<1>12. /\ RowsOf(s, m) \in Seq(Seq(PerfRows)) /\ Len(RowsOf(s, m)) = m
       /\ \A i \in 1..m : RowsOf(s, m)[i] = s[i].rows
  BY <1>c, <1>a, RowsOfType
<1>14. /\ RowsOf(t, m + 1) \in Seq(Seq(PerfRows)) /\ Len(RowsOf(t, m + 1)) = m + 1
       /\ \A i \in 1..(m + 1) : RowsOf(t, m + 1)[i] = t[i].rows
  BY <1>13, <1>b, RowsOfType
<1>15. \A i \in 1..m : RowsOf(s, m)[i] = RowsOf(t, m + 1)[i]
  BY <1>11, <1>12, <1>14
<1>16. FlattenSeq(RowsOf(t, m + 1)) = FlattenSeq(RowsOf(s, m)) \o RowsOf(t, m + 1)[m + 1]
  <2>1. m \in Nat /\ \A i \in 1..m : RowsOf(s, m)[i] = RowsOf(t, m + 1)[i]
    BY <1>3, <1>15
  <2>2. RowsOf(s, m) \in Seq(Seq(PerfRows)) /\ Len(RowsOf(s, m)) = m
    BY <1>12
  <2>3. RowsOf(t, m + 1) \in Seq(Seq(PerfRows)) /\ Len(RowsOf(t, m + 1)) = m + 1
    BY <1>14
  <2> HIDE <1>12, <1>14, <1>15
  <2> QED
    BY <2>1, <2>2, <2>3, FlattenMore
<1>17. m + 1 \in 1..(m + 1)
  BY <1>3
<1>18. RowsOf(t, m + 1)[m + 1] = x.rows
  BY <1>11, <1>14, <1>17
<1> QED
  BY <1>2, <1>3, <1>7, <1>8, <1>16, <1>18 DEF G, m

(* The chunks in the order of their names are in that of the rounds. *)
LEMMA OrderedFiles ==
  ASSUME NEW F, IsFiniteSet(F), NEW n \in Nat, Named(F, n), NEW s, Reads(s, F)
  PROVE  Ordered(F, ChunkBefore) = s
<1> DEFINE o == Ordered(F, ChunkBefore)
<1>1. Reads(o, F)
  BY DEF Ordered, Reads
<1> HIDE DEF o
<1>2. IsKey(FileKey(F, n), F) /\ Ascending(o, F, FileKey(F, n)) /\ Ascending(s, F, FileKey(F, n))
  BY <1>1, KeyIsBefore
<1>3. o = s
  BY <1>2, AscendingUnique
<1> QED
  BY <1>3 DEF o

(* Rows that were there have nothing new to say. *)
LEMMA RowsKept ==
  ASSUME PerfTypeOK, RowsInv, AllRows' \subseteq AllRows, samples' = samples,
         \A c \in Cpus : counter'[c] \in Nat /\ counter[c] <= counter'[c]
  PROVE  RowsInv'
<1>1. AllRows \subseteq PerfRows
  BY DEF PerfTypeOK, AllRows, ToSet
<1>2. ASSUME NEW r \in AllRows'
      PROVE  /\ r.ts < samples' /\ r.counted <= counter'[r.cpu]
             /\ r.count = r.counted % CountWidth
  <2>1. r \in AllRows /\ r \in PerfRows
    BY <1>1
  <2>2. r.counted <= counter[r.cpu] /\ r.cpu \in Cpus /\ r.counted \in Nat
        /\ counter[r.cpu] \in Nat
    BY <2>1 DEF RowsInv, PerfRows, PerfTypeOK
  <2>3. r.counted <= counter'[r.cpu]
    BY <2>2
  <2> QED
    BY <2>1, <2>3 DEF RowsInv
<1> QED
  BY <1>2 DEF RowsInv

(* Nothing has been counted. *)
LEMMA PerfInitInv == PerfInit => PerfInv
<1> SUFFICES ASSUME PerfInit PROVE PerfInv
  OBVIOUS
<1> USE DEF PerfInit, PerfIdle
<1>1. PerfTypeOK
  <2>1. nextChunk \in Nat /\ samples \in Nat /\ pat = "run" /\ info \in BOOLEAN
    BY PerfAssumption
  <2>2. counter \in [Cpus -> Nat] /\ ring \in [Cpus -> Seq(PerfRows)]
    OBVIOUS
  <2>3. IsFiniteSet(chunkFiles) /\ chunkFiles \subseteq [chunk : Int, rows : Seq(PerfRows)]
    BY FS_EmptySet
  <2>4. perfData \in Seq(PerfRows) /\ rowsWritten \in Seq(PerfRows) /\ table \in Seq(PerfRows)
    OBVIOUS
  <2> QED
    BY <2>1, <2>2, <2>3, <2>4 DEF PerfTypeOK
<1>2. AllRows = {}
  BY DEF AllRows, ToSet
<1>3. RowsInv
  BY <1>2 DEF RowsInv
<1>4. ChunksInv
  <2>1. Cardinality(chunkFiles) = 0 /\ 1..0 = {}
    BY FS_EmptySet
  <2> DEFINE s == [i \in {} |-> i]
  <2>2. Reads(s, chunkFiles)
    BY <2>1 DEF Reads
  <2>3. RowsOf(s, Cardinality(chunkFiles)) = <<>>
    BY <2>1 DEF RowsOf
  <2>4. FlattenSeq(<<>>) = <<>>
    BY DEF FlattenSeq
  <2>5. Named(chunkFiles, nextChunk)
    BY DEF Named
  <2> HIDE DEF s
  <2> QED
    BY <2>2, <2>3, <2>4, <2>5 DEF ChunksInv
<1> QED
  BY <1>1, <1>3, <1>4 DEF PerfInv, ReadBackInOrder

(* The rows of a list that is put after another *)
LEMMA RowsJoined ==
  ASSUME NEW a \in Seq(PerfRows), NEW b \in Seq(PerfRows)
  PROVE  a \o b \in Seq(PerfRows) /\ ToSet(a \o b) = ToSet(a) \cup ToSet(b)
<1>1. a \o b \in Seq(PerfRows) /\ Len(a \o b) = Len(a) + Len(b)
  OBVIOUS
<1>2. \A i \in 1..Len(a) : i \in 1..Len(a \o b) /\ (a \o b)[i] = a[i]
  OBVIOUS
<1>3. \A i \in 1..Len(b) : Len(a) + i \in 1..Len(a \o b) /\ (a \o b)[Len(a) + i] = b[i]
  OBVIOUS
<1>4. \A i \in 1..Len(a \o b) : i \in 1..Len(a) \/ \E j \in 1..Len(b) : i = Len(a) + j
  <2>1. SUFFICES ASSUME NEW i \in 1..Len(a \o b), i \notin 1..Len(a)
                 PROVE  \E j \in 1..Len(b) : i = Len(a) + j
    OBVIOUS
  <2>2. i - Len(a) \in 1..Len(b) /\ i = Len(a) + (i - Len(a))
    BY <1>1, <2>1
  <2> QED
    BY <2>2
<1>5. DOMAIN a = 1..Len(a) /\ DOMAIN b = 1..Len(b) /\ DOMAIN (a \o b) = 1..Len(a \o b)
  BY <1>1
<1>6. ToSet(a \o b) \subseteq ToSet(a) \cup ToSet(b)
  BY <1>2, <1>3, <1>4, <1>5 DEF ToSet
<1>7. ToSet(a) \subseteq ToSet(a \o b) /\ ToSet(b) \subseteq ToSet(a \o b)
  BY <1>2, <1>3, <1>5 DEF ToSet
<1> QED
  BY <1>1, <1>6, <1>7

(* The rows of a list without its first, and those of one more *)
LEMMA RowsTaken ==
  ASSUME NEW a \in Seq(PerfRows)
  PROVE  /\ a # <<>> => /\ Head(a) \in ToSet(a) /\ Head(a) \in PerfRows
                        /\ Tail(a) \in Seq(PerfRows) /\ ToSet(Tail(a)) \subseteq ToSet(a)
         /\ \A r \in PerfRows : /\ Append(a, r) \in Seq(PerfRows)
                                /\ ToSet(Append(a, r)) = ToSet(a) \cup {r}
<1>1. ASSUME a # <<>>
      PROVE  /\ Head(a) \in ToSet(a) /\ Head(a) \in PerfRows
             /\ Tail(a) \in Seq(PerfRows) /\ ToSet(Tail(a)) \subseteq ToSet(a)
  <2>1. Len(a) >= 1 /\ Head(a) = a[1] /\ 1 \in DOMAIN a
    BY <1>1
  <2>2. /\ Tail(a) \in Seq(PerfRows)
        /\ \A i \in DOMAIN Tail(a) : i + 1 \in DOMAIN a /\ Tail(a)[i] = a[i + 1]
    BY <1>1, <2>1
  <2> QED
    BY <2>1, <2>2 DEF ToSet
<1>2. ASSUME NEW r \in PerfRows
      PROVE  /\ Append(a, r) \in Seq(PerfRows)
             /\ ToSet(Append(a, r)) = ToSet(a) \cup {r}
  <2>1. /\ Append(a, r) \in Seq(PerfRows) /\ DOMAIN Append(a, r) = 1..(Len(a) + 1)
        /\ DOMAIN a = 1..Len(a) /\ Len(a) \in Nat
        /\ Append(a, r)[Len(a) + 1] = r
        /\ \A i \in 1..Len(a) : Append(a, r)[i] = a[i]
    OBVIOUS
  <2>2. \A i \in 1..(Len(a) + 1) : i \in 1..Len(a) \/ i = Len(a) + 1
    BY <2>1
  <2>3. /\ \A i \in 1..Len(a) : i \in 1..(Len(a) + 1)
        /\ Len(a) + 1 \in 1..(Len(a) + 1)
    BY <2>1
  <2>4. ToSet(Append(a, r)) \subseteq ToSet(a) \cup {r}
    BY <2>1, <2>2 DEF ToSet
  <2>5. ToSet(a) \subseteq ToSet(Append(a, r)) /\ r \in ToSet(Append(a, r))
    BY <2>1, <2>3 DEF ToSet
  <2> QED
    BY <2>1, <2>4, <2>5
<1> QED
  BY <1>1, <1>2

(* Neither a file nor the history changes. *)
LEMMA ChunksKept ==
  ASSUME ChunksInv, UNCHANGED <<chunkFiles, rowsWritten, nextChunk>>,
         pat' \in {"run", "end"} => pat \in {"run", "end"}
  PROVE  ChunksInv'
<1>1. PICK s : /\ Reads(s, chunkFiles)
               /\ rowsWritten = FlattenSeq(RowsOf(s, Cardinality(chunkFiles)))
  BY DEF ChunksInv
<1>2. /\ Reads(s, chunkFiles')
      /\ rowsWritten' = FlattenSeq(RowsOf(s, Cardinality(chunkFiles')))
  BY <1>1
<1> QED
  BY <1>2 DEF ChunksInv

(* The counter of a CPU counts on. *)
LEMMA CountStep ==
  ASSUME PerfInv, NEW c \in Cpus, Count(c)
  PROVE  PerfInv'
<1> USE DEF PerfInv, Count
<1>1. PerfTypeOK'
  BY DEF PerfTypeOK
<1>2. ChunksInv'
  BY ChunksKept
<1>3. \A d \in Cpus : counter'[d] \in Nat /\ counter[d] <= counter'[d]
  BY DEF PerfTypeOK
<1>4. AllRows' = AllRows
  BY DEF AllRows
<1>5. RowsInv'
  BY <1>3, <1>4, RowsKept
<1> QED
  BY <1>1, <1>2, <1>5 DEF ReadBackInOrder

(* A row has a time of its own and the counter as it is. *)
LEMMA SampleStep ==
  ASSUME PerfInv, NEW c \in Cpus, TakeSample(c)
  PROVE  PerfInv'
<1> DEFINE r == [cpu |-> c, ts |-> samples, count |-> counter[c] % CountWidth,
                 counted |-> counter[c]]
<1> USE DEF PerfInv, TakeSample
<1>1. r \in PerfRows /\ samples \in Nat /\ counter[c] \in Nat /\ samples' = samples + 1
  BY PerfAssumption DEF PerfTypeOK, PerfRows
<1>2. /\ r.cpu = c /\ r.ts = samples /\ r.counted = counter[c]
      /\ r.count = r.counted % CountWidth
  OBVIOUS
<1> HIDE DEF r
<1>3. /\ ring' = [ring EXCEPT ![c] = Append(ring[c], r)]
      /\ Append(ring[c], r) \in Seq(PerfRows) /\ ToSet(Append(ring[c], r)) = ToSet(ring[c]) \cup {r}
  BY <1>1, RowsTaken DEF PerfTypeOK, r
<1>4. PerfTypeOK'
  BY <1>1, <1>3 DEF PerfTypeOK
<1>5. ChunksInv'
  BY ChunksKept
<1>6. AllRows' \subseteq AllRows \cup {r}
  <2>1. \A d \in Cpus : ToSet(ring'[d]) \subseteq ToSet(ring[d]) \cup {r}
    BY <1>3 DEF PerfTypeOK
  <2> QED
    BY <2>1 DEF AllRows
<1>7. AllRows \subseteq PerfRows
  BY DEF PerfTypeOK, AllRows, ToSet
<1>8. \A q \in AllRows : /\ q.ts < samples /\ q.ts \in Nat /\ q.ts # samples
                         /\ q.cpu \in Cpus /\ q.counted <= counter[q.cpu]
                         /\ q.count = q.counted % CountWidth
  BY <1>1, <1>7 DEF RowsInv, PerfRows
<1>9. ASSUME NEW q \in AllRows'
      PROVE  /\ q.ts < samples' /\ q.counted <= counter'[q.cpu]
             /\ q.count = q.counted % CountWidth
  BY <1>1, <1>2, <1>6, <1>8
<1>10. ASSUME NEW p \in AllRows', NEW q \in AllRows'
       PROVE  /\ p.ts = q.ts => p = q
              /\ p.cpu = q.cpu /\ p.ts < q.ts => p.counted <= q.counted
  <2>1. CASE p \in AllRows /\ q \in AllRows
    BY <2>1 DEF RowsInv
  <2>2. CASE p \in AllRows /\ q = r
    BY <1>1, <1>2, <1>8, <2>2
  <2>3. CASE p = r /\ q \in AllRows
    BY <1>1, <1>2, <1>8, <2>3
  <2>4. CASE p = r /\ q = r
    BY <1>1, <1>2, <2>4
  <2> QED
    BY <1>6, <2>1, <2>2, <2>3, <2>4
<1>11. RowsInv'
  BY <1>9, <1>10 DEF RowsInv
<1> QED
  BY <1>4, <1>5, <1>11 DEF ReadBackInOrder

(* A row goes from a buffer to the list of the hook. *)
LEMMA HandlerStep ==
  ASSUME PerfInv, NEW c \in Cpus, PerfEventHandler(c)
  PROVE  PerfInv'
<1> USE DEF PerfInv, PerfEventHandler
<1>1. /\ ring[c] \in Seq(PerfRows) /\ ring[c] # <<>> /\ perfData \in Seq(PerfRows)
  BY DEF PerfTypeOK
<1>2. /\ Head(ring[c]) \in ToSet(ring[c]) /\ Head(ring[c]) \in PerfRows
      /\ Tail(ring[c]) \in Seq(PerfRows) /\ ToSet(Tail(ring[c])) \subseteq ToSet(ring[c])
  BY <1>1, RowsTaken
<1>3. /\ perfData' \in Seq(PerfRows) /\ ToSet(perfData') = ToSet(perfData) \cup {Head(ring[c])}
  BY <1>1, <1>2, RowsTaken
<1>4. PerfTypeOK'
  BY <1>2, <1>3 DEF PerfTypeOK
<1>5. ChunksInv'
  BY ChunksKept
<1>6. AllRows' \subseteq AllRows
  <2>1. \A d \in Cpus : ToSet(ring'[d]) \subseteq ToSet(ring[d])
    BY <1>2 DEF PerfTypeOK
  <2> QED
    BY <1>2, <1>3, <2>1 DEF AllRows
<1>7. \A d \in Cpus : counter'[d] \in Nat /\ counter[d] <= counter'[d]
  BY DEF PerfTypeOK
<1>8. RowsInv'
  BY <1>6, <1>7, RowsKept
<1> QED
  BY <1>4, <1>5, <1>8 DEF ReadBackInOrder

(* A chunk is written, or the rows are lost. *)
LEMMA ChunkStep ==
  ASSUME PerfInv, pat \in {"run", "end"}, NEW name \in {nextChunk, EndChunk}, WriteChunk(name),
         nextChunk' = IF name = EndChunk THEN nextChunk ELSE nextChunk + 1,
         pat' = IF name = EndChunk THEN "ended" ELSE "run",
         UNCHANGED <<counter, samples, ring, info, table>>
  PROVE  PerfInv'
<1> USE DEF PerfInv
<1>1. /\ perfData \in Seq(PerfRows) /\ rowsWritten \in Seq(PerfRows) /\ nextChunk \in Nat
      /\ nextChunk # EndChunk /\ perfData' = <<>> /\ nextChunk' \in Nat
  BY DEF PerfTypeOK, EndChunk, WriteChunk
<1>2. ToSet(perfData') = {} /\ perfData' \in Seq(PerfRows)
  BY <1>1 DEF ToSet
<1>3. /\ rowsWritten' \in Seq(PerfRows)
      /\ ToSet(rowsWritten') \subseteq ToSet(rowsWritten) \cup ToSet(perfData)
  BY <1>1, RowsJoined DEF WriteChunk
<1>4. AllRows' \subseteq AllRows
  BY <1>2, <1>3 DEF AllRows
<1>5. RowsInv'
  <2>1. \A d \in Cpus : counter'[d] \in Nat /\ counter[d] <= counter'[d]
    BY DEF PerfTypeOK
  <2> QED
    BY <1>4, <2>1, RowsKept
<1>6. PICK s : /\ Reads(s, chunkFiles)
               /\ rowsWritten = FlattenSeq(RowsOf(s, Cardinality(chunkFiles)))
  BY DEF ChunksInv
<1>7. /\ Named(chunkFiles, nextChunk) /\ IsFiniteSet(chunkFiles)
      /\ \A f \in chunkFiles : f.chunk # EndChunk
      /\ chunkFiles \subseteq [chunk : Int, rows : Seq(PerfRows)]
  BY DEF ChunksInv, PerfTypeOK
<1>8. CASE UNCHANGED <<chunkFiles, rowsWritten>>
  <2>1. Named(chunkFiles, nextChunk')
    BY <1>1, <1>7 DEF Named
  <2>2. ChunksInv'
    <3>1. /\ Reads(s, chunkFiles')
          /\ rowsWritten' = FlattenSeq(RowsOf(s, Cardinality(chunkFiles')))
      BY <1>6, <1>8
    <3>2. Named(chunkFiles', nextChunk') /\ \A f \in chunkFiles' : f.chunk # EndChunk
      BY <1>7, <1>8, <2>1
    <3> QED
      BY <3>1, <3>2 DEF ChunksInv
  <2>3. PerfTypeOK'
    BY <1>1, <1>2, <1>3, <1>8 DEF PerfTypeOK
  <2> QED
    BY <1>5, <2>2, <2>3 DEF ReadBackInOrder
<1>9. CASE /\ chunkFiles' = chunkFiles \cup {[chunk |-> name, rows |-> perfData]}
           /\ rowsWritten' = rowsWritten \o perfData
  <2> DEFINE x == [chunk |-> name, rows |-> perfData]
  <2>1. /\ x \in [chunk : Int, rows : Seq(PerfRows)] /\ x.chunk = name /\ x.rows = perfData
        /\ x.chunk \in {nextChunk, EndChunk}
    BY <1>1 DEF EndChunk
  <2> HIDE DEF x
  <2>2. chunkFiles' = chunkFiles \cup {x}
    BY <1>9 DEF x
  <2>3. /\ IsFiniteSet(chunkFiles \cup {x}) /\ Named(chunkFiles \cup {x}, nextChunk + 1)
        /\ x.chunk = EndChunk => Named(chunkFiles \cup {x}, nextChunk)
        /\ \E t : /\ Reads(t, chunkFiles \cup {x})
                  /\ FlattenSeq(RowsOf(t, Cardinality(chunkFiles \cup {x})))
                       = FlattenSeq(RowsOf(s, Cardinality(chunkFiles))) \o x.rows
    BY <1>1, <1>6, <1>7, <2>1, ReadsMore
  <2>4. /\ Named(chunkFiles', nextChunk')
        /\ pat' \in {"run", "end"} => \A f \in chunkFiles' : f.chunk # EndChunk
    BY <1>1, <1>7, <2>1, <2>2, <2>3
  <2>5. PICK t : /\ Reads(t, chunkFiles')
                 /\ rowsWritten' = FlattenSeq(RowsOf(t, Cardinality(chunkFiles')))
    BY <1>6, <1>9, <2>1, <2>2, <2>3
  <2>6. ChunksInv'
    BY <2>4, <2>5 DEF ChunksInv
  <2>7. chunkFiles' \subseteq [chunk : Int, rows : Seq(PerfRows)] /\ IsFiniteSet(chunkFiles')
    BY <1>7, <2>1, <2>2, <2>3
  <2>8. PerfTypeOK'
    BY <1>1, <1>2, <1>3, <2>7 DEF PerfTypeOK
  <2> QED
    BY <1>5, <2>6, <2>8 DEF ReadBackInOrder
<1> QED
  BY <1>8, <1>9 DEF WriteChunk

(* The chunks are read back. *)
LEMMA FromDataStep ==
  ASSUME PerfInv, NEW matching, FromData(matching)
  PROVE  PerfInv'
<1> USE DEF PerfInv, FromData
<1>1. PICK s : /\ Reads(s, chunkFiles)
               /\ rowsWritten = FlattenSeq(RowsOf(s, Cardinality(chunkFiles)))
  BY DEF ChunksInv
<1>2. Ordered(chunkFiles, ChunkBefore) = s
  BY <1>1, OrderedFiles DEF ChunksInv, PerfTypeOK
<1>3. DOMAIN s = 1..Cardinality(chunkFiles)
  BY <1>1 DEF Reads
<1>4. /\ pat' \in {"read", "error"}
      /\ pat' = "read" => info /\ table' = rowsWritten
      /\ pat' # "read" => table' = table
  BY <1>1, <1>2, <1>3 DEF RowsOf
<1>5. UNCHANGED <<counter, samples, ring, perfData, nextChunk, chunkFiles, info, rowsWritten>>
  OBVIOUS
<1> HIDE DEF FromData
<1>6. table' \in Seq(PerfRows)
  BY <1>4 DEF PerfTypeOK
<1>7. PerfTypeOK'
  BY <1>4, <1>5, <1>6 DEF PerfTypeOK
<1>8. ChunksInv'
  BY <1>4, <1>5, ChunksKept
<1>9. \A d \in Cpus : counter'[d] \in Nat /\ counter[d] <= counter'[d]
  BY <1>5 DEF PerfTypeOK
<1>10. RowsInv'
  BY <1>5, <1>9, RowsKept DEF AllRows
<1> QED
  BY <1>4, <1>5, <1>7, <1>8, <1>10 DEF ReadBackInOrder

(* Every step keeps the invariant. *)
LEMMA PerfStep == PerfInv /\ [PerfNext]_perfVars => PerfInv'
<1> SUFFICES ASSUME PerfInv, [PerfNext]_perfVars PROVE PerfInv'
  OBVIOUS
<1>1. ASSUME NEW c \in Cpus, Count(c) PROVE PerfInv'
  BY <1>1, CountStep
<1>2. ASSUME NEW c \in Cpus, TakeSample(c) PROVE PerfInv'
  BY <1>2, SampleStep
<1>3. ASSUME NEW c \in Cpus, PerfEventHandler(c) PROVE PerfInv'
  BY <1>3, HandlerStep
<1>4. CASE PerfRound
  <2>1. nextChunk # EndChunk
    BY DEF PerfInv, PerfTypeOK, EndChunk
  <2> QED
    BY <1>4, <2>1, ChunkStep DEF PerfRound
<1>5. CASE WriteEndChunk
  BY <1>5, ChunkStep DEF WriteEndChunk
<1>6. ASSUME NEW matching, FromData(matching) PROVE PerfInv'
  BY <1>6, FromDataStep
<1>7. CASE WriteSystemInfo \/ Killed \/ UNCHANGED perfVars
  <2> USE DEF WriteSystemInfo, Killed, perfVars, PerfInv
  <2>1. PerfTypeOK'
    BY <1>7 DEF PerfTypeOK
  <2>2. ChunksInv'
    BY <1>7, ChunksKept
  <2>3. \A d \in Cpus : counter'[d] \in Nat /\ counter[d] <= counter'[d]
    BY <1>7 DEF PerfTypeOK
  <2>4. RowsInv'
    BY <1>7, <2>3, RowsKept DEF AllRows
  <2>5. ReadBackInOrder'
    BY <1>7 DEF ReadBackInOrder
  <2> QED
    BY <2>1, <2>2, <2>4, <2>5
<1> QED
  BY <1>1, <1>2, <1>3, <1>4, <1>5, <1>6, <1>7 DEF PerfNext

(* Chunks, names and rows, for any CPUs, counts and rounds. *)
THEOREM PerfInvCorrect == PerfSpec => []PerfInv
<1>1. PerfInit => PerfInv
  BY PerfInitInv
<1>2. PerfInv /\ [PerfNext]_perfVars => PerfInv'
  BY PerfStep
<1> QED
  BY <1>1, <1>2, PTL DEF PerfSpec

(* What is read back is what was written, in the order of the rounds. *)
THEOREM ReadBackCorrect == PerfSpec => []ReadBackInOrder
<1>1. PerfInv => ReadBackInOrder
  BY DEF PerfInv
<1> QED
  BY <1>1, PerfInvCorrect, PTL

-----------------------------------------------------------------------------
(* The deltas.                                                             *)

(* The rows of a CPU in the table *)
RowsOn(c) == {r \in ToSet(table) : r.cpu = c}

(* The time of a row *)
TimeKey(c) == [r \in RowsOn(c) |-> r.ts]

(* A value is its quotient and its remainder. *)
LEMMA Division ==
  ASSUME NEW w \in Nat \ {0}
  PROVE  /\ \A a \in Int : a = w * (a \div w) + (a % w) /\ a \div w \in Int /\ a % w \in Nat
         /\ \A k \in Int : (w * k) % w = 0
         /\ \A a \in Nat : a < w => a % w = a
<1>1. \A a \in Int : a = w * (a \div w) + (a % w) /\ a \div w \in Int /\ a % w \in Nat
  OBVIOUS
<1>2. \A k \in Int : (w * k) % w = 0
  OBVIOUS
<1>3. \A a \in Nat : a < w => a % w = a
  OBVIOUS
<1> QED
  BY <1>1, <1>2, <1>3

(* The difference of two remainders is that of the values up to a multiple *)
(* of the width, and exactly that if the values fit in it.                 *)
LEMMA DeltaOfRemainders ==
  ASSUME NEW w \in Nat \ {0}, NEW a \in Nat, NEW b \in Nat
  PROVE  /\ (((a % w) - (b % w)) - (a - b)) % w = 0
         /\ a < w /\ b < w => (a % w) - (b % w) = a - b
<1>a. a = w * (a \div w) + (a % w) /\ a \div w \in Int
  OBVIOUS
<1>b. b = w * (b \div w) + (b % w) /\ b \div w \in Int
  OBVIOUS
<1>1. PICK p \in Int : a = w * p + (a % w)
  BY <1>a
<1>2. PICK q \in Int : b = w * q + (b % w)
  BY <1>b
<1>3. a % w \in Int /\ b % w \in Int
  BY Division
<1>4. q - p \in Int /\ w * (q - p) = w * q - w * p
  OBVIOUS
<1>5. ((a % w) - (b % w)) - (a - b) = w * (q - p)
  <2> DEFINE x == a % w
             y == b % w
             u == w * p
             v == w * q
  <2>1. x \in Int /\ y \in Int /\ u \in Int /\ v \in Int /\ a = u + x /\ b = v + y
    BY <1>1, <1>2, <1>3
  <2> HIDE DEF x, y, u, v
  <2>2. (x - y) - (a - b) = v - u
    BY <2>1
  <2> QED
    BY <1>4, <2>2 DEF x, y, u, v
<1>6. (w * (q - p)) % w = 0
  BY <1>4, Division
<1>7. a < w /\ b < w => (a % w) - (b % w) = a - b
  <2>1. a < w => a % w = a
    BY Division
  <2>2. b < w => b % w = b
    BY Division
  <2> QED
    BY <2>1, <2>2
<1> QED
  BY <1>5, <1>6, <1>7

(* The rows of a CPU are sorted by their times, all of them. *)
LEMMA CpuRowsAscend ==
  ASSUME PerfInv, pat = "read", NEW c \in Cpus
  PROVE  /\ RowsOn(c) \subseteq PerfRows /\ RowsOn(c) \subseteq AllRows
         /\ IsFiniteSet(RowsOn(c)) /\ IsKey(TimeKey(c), RowsOn(c))
         /\ Ascending(CpuRows(c), RowsOn(c), TimeKey(c))
<1>1. table = rowsWritten /\ table \in Seq(PerfRows)
  BY DEF PerfInv, PerfTypeOK, ReadBackInOrder
<1>2. ToSet(table) \subseteq PerfRows /\ ToSet(table) \subseteq AllRows
  BY <1>1 DEF ToSet, AllRows
<1>3. IsFiniteSet(ToSet(table))
  <2>1. IsFiniteSet(DOMAIN table)
    BY <1>1, FS_Interval
  <2>2. table \in Surjection(DOMAIN table, ToSet(table))
    BY <1>1 DEF ToSet, Surjection
  <2> QED
    BY <2>1, <2>2, FS_Surjection
<1>4. /\ RowsOn(c) \subseteq PerfRows /\ RowsOn(c) \subseteq AllRows
      /\ IsFiniteSet(RowsOn(c))
  BY <1>2, <1>3, FS_Subset DEF RowsOn
<1>5. \A r \in RowsOn(c) : TimeKey(c)[r] = r.ts /\ r.ts \in Nat
  BY <1>4 DEF TimeKey, PerfRows
<1>6. IsKey(TimeKey(c), RowsOn(c))
  BY <1>4, <1>5 DEF IsKey, PerfInv, RowsInv
<1>7. PICK s : Ascending(s, RowsOn(c), TimeKey(c))
  BY <1>4, <1>6, AscendingExists
<1> DEFINE S == RowsOn(c)
           n == Cardinality(S)
<1>8. /\ s \in [1..n -> S]
      /\ \A i, j \in 1..n : i < j => Earlier(s[i], s[j])
  BY <1>5, <1>7 DEF Ascending, Earlier
<1>9. CpuRows(c) = CHOOSE t \in [1..n -> S] : \A i, j \in 1..n : i < j => Earlier(t[i], t[j])
  BY DEF CpuRows, Ordered, RowsOn
<1>10. /\ CpuRows(c) \in [1..n -> S]
       /\ \A i, j \in 1..n : i < j => Earlier(CpuRows(c)[i], CpuRows(c)[j])
  BY <1>8, <1>9
<1>11. Ascending(CpuRows(c), S, TimeKey(c))
  BY <1>5, <1>10 DEF Ascending, Earlier
<1> QED
  BY <1>4, <1>6, <1>11

(* A sum that is told what it adds up to. *)
LEMMA RunningSum ==
  ASSUME NEW n \in Nat, NEW x, \A i \in 1..n : x[i] \in Int,
         NEW d, \A i \in 1..n : d[i] = x[i] - (IF i = 1 THEN 0 ELSE x[i - 1]),
         NEW h, \A i \in 1..n : h[i] = IF i = 1 THEN d[i] ELSE h[i - 1] + d[i]
  PROVE  \A i \in 1..n : h[i] = x[i]
<1> DEFINE T == {m \in Nat : m \in 1..n /\ h[m] # x[m]}
<1> SUFFICES ASSUME T # {} PROVE FALSE
  OBVIOUS
<1>1. PICK m \in T : \A k \in T : m <= k
  BY LeastNat
<1>2. m \in 1..n /\ h[m] # x[m] /\ m \in Nat /\ x[m] \in Int
  OBVIOUS
<1>3. CASE m = 1
  BY <1>2, <1>3
<1>4. CASE m # 1
  <2>1. m - 1 \in 1..n /\ m - 1 \in Nat /\ ~(m <= m - 1) /\ x[m - 1] \in Int
    BY <1>2, <1>4
  <2>2. m - 1 \notin T
    <3> HIDE DEF T
    <3> QED
      BY <1>1, <2>1
  <2>3. h[m - 1] = x[m - 1]
    BY <2>1, <2>2
  <2>4. h[m] = h[m - 1] + d[m] /\ d[m] = x[m] - x[m - 1]
    BY <1>2, <1>4
  <2> QED
    BY <1>2, <2>1, <2>3, <2>4
<1> QED
  BY <1>3, <1>4

(* The values themselves are such a sum. *)
LEMMA RunningSumIs ==
  ASSUME NEW n \in Nat, NEW x, \A i \in 1..n : x[i] \in Int,
         NEW d, \A i \in 1..n : d[i] = x[i] - (IF i = 1 THEN 0 ELSE x[i - 1])
  PROVE  \A i \in 1..n : x[i] = IF i = 1 THEN d[i] ELSE x[i - 1] + d[i]
<1> SUFFICES ASSUME NEW i \in 1..n
             PROVE  x[i] = IF i = 1 THEN d[i] ELSE x[i - 1] + d[i]
  OBVIOUS
<1>1. CASE i = 1
  BY <1>1
<1>2. CASE i # 1
  <2>1. i - 1 \in 1..n /\ x[i] \in Int
    BY <1>2
  <2>2. x[i - 1] \in Int
    BY <2>1
  <2>3. d[i] = x[i] - x[i - 1]
    BY <1>2
  <2> QED
    BY <1>2, <2>1, <2>2, <2>3
<1> QED
  BY <1>1, <1>2

(* Deltas, running sums and totals of a CPU *)
LEMMA CpuAddsUp ==
  ASSUME PerfInv, pat = "read", NEW c \in Cpus
  PROVE  LET rows == CpuRows(c)
             pdf == AsPdf(c)
         IN  /\ \A i \in DOMAIN rows :
                   /\ AsCdf(c)[i] = rows[i].count
                   /\ (pdf[i] - CountedBetween(rows, i)) % CountWidth = 0
                   /\ rows[i].counted < CountWidth => pdf[i] = CountedBetween(rows, i)
             /\ rows # <<>> /\ Last(rows).counted < CountWidth
                   => CpuTotal(c) = Last(rows).counted
<1> DEFINE rows == CpuRows(c)
           pdf == AsPdf(c)
           S == RowsOn(c)
           n == Cardinality(S)
           x == [i \in 1..n |-> rows[i].count]
<1>1. /\ S \subseteq PerfRows /\ S \subseteq AllRows
      /\ IsFiniteSet(S) /\ IsKey(TimeKey(c), S) /\ Ascending(rows, S, TimeKey(c))
  BY CpuRowsAscend
<1>2. n \in Nat /\ rows \in [1..n -> S] /\ DOMAIN rows = 1..n /\ CountWidth \in Nat \ {0}
  BY <1>1, FS_CardinalityType, PerfAssumption DEF Ascending
<1>3. \A i \in 1..n : /\ rows[i] \in S /\ rows[i].count \in Nat /\ rows[i].counted \in Nat
                      /\ rows[i].cpu = c /\ rows[i].ts \in Nat
                      /\ rows[i].count = rows[i].counted % CountWidth
  <2>1. \A i \in 1..n : rows[i] \in S
    BY <1>2
  <2>2. \A r \in S : /\ r.count \in Nat /\ r.counted \in Nat /\ r.cpu = c /\ r.ts \in Nat
                     /\ r.count = r.counted % CountWidth
    BY <1>1 DEF PerfRows, PerfInv, RowsInv, RowsOn
  <2> QED
    BY <2>1, <2>2
<1>4. \A i, j \in 1..n : i < j => rows[i].counted <= rows[j].counted
  <2>1. SUFFICES ASSUME NEW i \in 1..n, NEW j \in 1..n, i < j
                 PROVE  rows[i].counted <= rows[j].counted
    OBVIOUS
  <2>2. rows[i] \in S /\ rows[j] \in S /\ rows[i].cpu = c /\ rows[j].cpu = c
    BY <1>3
  <2>3. rows[i].ts < rows[j].ts
    BY <1>1, <2>1, <2>2 DEF Ascending, TimeKey
  <2> QED
    BY <1>1, <2>2, <2>3 DEF PerfInv, RowsInv
<1>5. pdf = [i \in 1..n |-> rows[i].count - (IF i = 1 THEN 0 ELSE rows[i - 1].count)]
  BY <1>2 DEF AsPdf
<1>6. /\ \A i \in 1..n : x[i] = rows[i].count /\ x[i] \in Int
      /\ \A i \in 1..n : pdf[i] = x[i] - (IF i = 1 THEN 0 ELSE x[i - 1])
  <2>1. \A i \in 1..n : x[i] = rows[i].count /\ x[i] \in Int
    BY <1>3
  <2>2. \A i \in 1..n : i # 1 => i - 1 \in 1..n /\ x[i - 1] = rows[i - 1].count
    BY <1>2, <2>1
  <2> HIDE DEF x, rows, pdf
  <2> QED
    BY <1>5, <2>1, <2>2
<1>7. \A i \in 1..n : AsCdf(c)[i] = rows[i].count
  <2> DEFINE h == AsCdf(c)
  <2>1. h = CHOOSE sum : sum = [i \in DOMAIN pdf |-> IF i = 1 THEN pdf[i] ELSE sum[i - 1] + pdf[i]]
    BY DEF AsCdf
  <2>2. DOMAIN pdf = 1..n
    BY <1>5
  <2> HIDE DEF h, pdf, rows, x, n
  <2>3. \E g : g = [i \in 1..n |-> IF i = 1 THEN pdf[i] ELSE g[i - 1] + pdf[i]]
    <3>1. n \in Nat /\ \A i \in 1..n : x[i] \in Int
      BY <1>2, <1>6
    <3>2. \A i \in 1..n : pdf[i] = x[i] - (IF i = 1 THEN 0 ELSE x[i - 1])
      BY <1>6
    <3>3. \A i \in 1..n : x[i] = IF i = 1 THEN pdf[i] ELSE x[i - 1] + pdf[i]
      BY <3>1, <3>2, RunningSumIs
    <3>4. x = [i \in 1..n |-> x[i]]
      BY DEF x
    <3>5. x = [i \in 1..n |-> IF i = 1 THEN pdf[i] ELSE x[i - 1] + pdf[i]]
      BY <3>3, <3>4
    <3> QED
      BY <3>5
  <2>4. h = [i \in 1..n |-> IF i = 1 THEN pdf[i] ELSE h[i - 1] + pdf[i]]
    BY <2>1, <2>2, <2>3
  <2>5. \A i \in 1..n : h[i] = IF i = 1 THEN pdf[i] ELSE h[i - 1] + pdf[i]
    BY <2>4
  <2>6. \A i \in 1..n : h[i] = x[i]
    <3>1. n \in Nat /\ \A i \in 1..n : x[i] \in Int
      BY <1>2, <1>6
    <3>2. \A i \in 1..n : pdf[i] = x[i] - (IF i = 1 THEN 0 ELSE x[i - 1])
      BY <1>6
    <3> QED
      BY <3>1, <3>2, <2>5, RunningSum
  <2> QED
    BY <1>6, <2>6 DEF h
<1>8. ASSUME NEW i \in 1..n
      PROVE  /\ (pdf[i] - CountedBetween(rows, i)) % CountWidth = 0
             /\ rows[i].counted < CountWidth => pdf[i] = CountedBetween(rows, i)
  <2>1. CASE i = 1
    <3>1. pdf[i] = rows[i].count - 0 /\ CountedBetween(rows, i) = rows[i].counted - 0
      BY <1>5, <2>1 DEF CountedBetween
    <3>2. 0 \in Nat /\ 0 < CountWidth /\ 0 % CountWidth = 0
      BY <1>2, Division
    <3> DEFINE a == rows[i].counted
    <3>3. /\ a \in Nat /\ CountedBetween(rows, i) = a - 0
          /\ pdf[i] = (a % CountWidth) - (0 % CountWidth)
      BY <1>3, <3>1, <3>2
    <3> HIDE DEF pdf, rows, n, a
    <3>4. /\ (((a % CountWidth) - (0 % CountWidth)) - (a - 0)) % CountWidth = 0
          /\ a < CountWidth /\ 0 < CountWidth => (a % CountWidth) - (0 % CountWidth) = a - 0
      BY <1>2, <3>2, <3>3, DeltaOfRemainders
    <3> QED
      BY <3>2, <3>3, <3>4 DEF a
  <2>2. CASE i # 1
    <3>1. i - 1 \in 1..n /\ i - 1 < i
      BY <1>2, <2>2
    <3>2. /\ pdf[i] = rows[i].count - rows[i - 1].count
          /\ CountedBetween(rows, i) = rows[i].counted - rows[i - 1].counted
      BY <1>5, <2>2 DEF CountedBetween
    <3> DEFINE a == rows[i].counted
               b == rows[i - 1].counted
    <3>3. /\ a \in Nat /\ b \in Nat /\ b <= a
          /\ pdf[i] = (a % CountWidth) - (b % CountWidth) /\ CountedBetween(rows, i) = a - b
      BY <1>3, <1>4, <3>1, <3>2
    <3> HIDE DEF pdf, rows, n, a, b
    <3>4. a < CountWidth => b < CountWidth
      BY <1>2, <3>3
    <3>5. /\ (((a % CountWidth) - (b % CountWidth)) - (a - b)) % CountWidth = 0
          /\ a < CountWidth /\ b < CountWidth => (a % CountWidth) - (b % CountWidth) = a - b
      BY <1>2, <3>3, DeltaOfRemainders
    <3> QED
      BY <3>3, <3>4, <3>5 DEF a
  <2> QED
    BY <2>1, <2>2
<1>9. ASSUME rows # <<>>, Last(rows).counted < CountWidth
      PROVE  CpuTotal(c) = Last(rows).counted
  <2> DEFINE l == rows[n]
             M == {0} \cup {r.count : r \in ToSet(rows)}
  <2>1. n # 0
    <3>1. CASE n = 0
      <4>1. 1..n = {}
        BY <3>1
      <4>2. rows = <<>>
        BY <1>2, <4>1
      <4> QED
        BY <1>9, <4>2
    <3> QED
      BY <3>1
  <2>2. n \in 1..n /\ Len(rows) = n /\ Last(rows) = l
    BY <1>2, <2>1 DEF Last
  <2>3. l.counted \in Nat /\ l.counted < CountWidth /\ l.count = l.counted
    BY <1>2, <1>3, <1>9, <2>2, Division
  <2>4. ASSUME NEW r \in ToSet(rows)
        PROVE  r.count <= l.counted /\ r.count \in Nat
    <3>1. PICK i \in 1..n : r = rows[i]
      BY <1>2 DEF ToSet
    <3>2. rows[i].counted <= l.counted /\ rows[i].counted \in Nat
      <4>1. rows[i].counted \in Nat
        BY <1>3
      <4>2. i = n \/ i < n
        BY <1>2
      <4>3. i < n => rows[i].counted <= rows[n].counted
        BY <1>4, <2>2
      <4>4. i = n => rows[i].counted <= rows[n].counted
        BY <4>1
      <4> QED
        BY <4>1, <4>2, <4>3, <4>4
    <3>3. rows[i].counted < CountWidth
      BY <1>2, <2>3, <3>2
    <3>4. rows[i].count = rows[i].counted
      BY <1>2, <1>3, <3>2, <3>3, Division
    <3> QED
      BY <3>1, <3>2, <3>4
  <2>5. l \in ToSet(rows)
    BY <1>2, <2>2 DEF ToSet
  <2>6. l.counted \in M /\ \A y \in M : l.counted >= y /\ y \in Nat
    BY <2>3, <2>4, <2>5
  <2>7. CpuTotal(c) = CHOOSE m \in M : \A y \in M : m >= y
    BY DEF CpuTotal, Max
  <2> HIDE DEF M, l, rows, n
  <2>8. CpuTotal(c) \in M /\ \A y \in M : CpuTotal(c) >= y
    BY <2>6, <2>7
  <2>9. CpuTotal(c) = l.counted
    BY <2>6, <2>8
  <2> QED
    BY <2>2, <2>9
<1> HIDE DEF rows, pdf
<1>10. /\ \A i \in DOMAIN rows :
             /\ AsCdf(c)[i] = rows[i].count
             /\ (pdf[i] - CountedBetween(rows, i)) % CountWidth = 0
             /\ rows[i].counted < CountWidth => pdf[i] = CountedBetween(rows, i)
       /\ rows # <<>> /\ Last(rows).counted < CountWidth
             => CpuTotal(c) = Last(rows).counted
  BY <1>2, <1>7, <1>8, <1>9
<1> QED
  BY <1>10 DEF rows, pdf

(* The deltas of every CPU are what it counted between its rows. *)
THEOREM DeltasCorrect == PerfSpec => []DeltasAddUp
<1>1. PerfInv => DeltasAddUp
  BY CpuAddsUp DEF DeltasAddUp
<1> QED
  BY <1>1, PerfInvCorrect, PTL

-----------------------------------------------------------------------------
(* The block I/O probes.  First, sums over finite sets of requests.        *)

USE DevicesAssumption, CapacityAssumption

(* A request has at least no blocks and no segments. *)
LEMMA SizeNat == \A r \in Requests, u \in Units : SizeOf[r][u] \in Nat
  BY SizeAssumption DEF Units

(* The member of a set that a fold takes next *)
One(s) == CHOOSE x \in s : TRUE

(* g is the sum of the sizes in unit u of every subset of S, in the order *)
(* the fold takes them. *)
IsSum(g, S, u) ==
  g = [s \in SUBSET S |->
         IF s = {} THEN 0
         ELSE SizeOf[One(s)][u] + g[s \ {One(s)}]]

(* Total is what the fold of the community modules defines. *)
LEMMA TotalIs ==
  ASSUME NEW S, NEW u
  PROVE  Total(S, u) = (CHOOSE g : IsSum(g, S, u))[S]
  BY DEF Total, MapThenSumSet, MapThenFoldSet, IsSum, One

(* Sums over the subsets of S with at most n elements *)
Small(S, n) == {s \in SUBSET S : Cardinality(s) <= n}

(* g is the sum of the subsets of S with at most n elements. *)
Sums(g, S, u, n) ==
  g = [s \in Small(S, n) |->
         IF s = {} THEN 0
         ELSE SizeOf[One(s)][u] + g[s \ {One(s)}]]

(* The fold takes a member. *)
LEMMA OneIn == \A s : s # {} => One(s) \in s
  BY DEF One

(* A finite set has one element less without one of its members. *)
LEMMA TakeOut ==
  ASSUME NEW s, IsFiniteSet(s), NEW x \in s
  PROVE  /\ Cardinality(s) \in Nat /\ Cardinality(s \ {x}) \in Nat
         /\ Cardinality(s \ {x}) = Cardinality(s) - 1
  BY FS_RemoveElement, FS_CardinalityType

(* The sums of the small subsets exist, whatever small is. *)
LEMMA SumsExist ==
  ASSUME NEW S, IsFiniteSet(S), NEW u
  PROVE  \A n \in Nat : \E g : Sums(g, S, u, n)
<1> DEFINE T == {n \in Nat : ~ \E g : Sums(g, S, u, n)}
<1> SUFFICES ASSUME T # {} PROVE FALSE
  OBVIOUS
<1>1. PICK m \in T : \A k \in T : m <= k
  BY LeastNat
<1>2. CASE m = 0
  <2> DEFINE g == [s \in Small(S, 0) |-> 0]
  <2>1. ASSUME NEW s \in Small(S, 0) PROVE s = {}
    <3>1. IsFiniteSet(s) /\ Cardinality(s) <= 0
      BY FS_Subset DEF Small
    <3> QED
      BY <3>1, FS_EmptySet, FS_CardinalityType
  <2>2. Sums(g, S, u, 0)
    BY <2>1 DEF Sums
  <2> QED
    BY <1>2, <2>2
<1>3. CASE m # 0
  <2>1. m - 1 \in Nat /\ m - 1 \notin T
    BY <1>1, <1>3
  <2>2. PICK h : Sums(h, S, u, m - 1)
    BY <2>1
  <2> DEFINE g == [s \in Small(S, m) |->
                     IF s = {} THEN 0
                     ELSE SizeOf[One(s)][u] + h[s \ {One(s)}]]
  <2>3. ASSUME NEW s \in Small(S, m), s # {}
        PROVE  g[s \ {One(s)}] = h[s \ {One(s)}]
    <3> DEFINE t == s \ {One(s)}
    <3>1. t \in Small(S, m - 1) /\ t \in Small(S, m)
      BY <2>3, OneIn, TakeOut, FS_Subset DEF Small
    <3>2. h[t] = IF t = {} THEN 0
                 ELSE SizeOf[One(t)][u] + h[t \ {One(t)}]
      BY <2>2, <3>1 DEF Sums
    <3>3. g[t] = IF t = {} THEN 0
                 ELSE SizeOf[One(t)][u] + h[t \ {One(t)}]
      BY <3>1
    <3> QED
      BY <3>2, <3>3
  <2>4. g = [s \in Small(S, m) |->
               IF s = {} THEN 0
               ELSE SizeOf[One(s)][u] + g[s \ {One(s)}]]
    <3> DEFINE k == [s \in Small(S, m) |->
               IF s = {} THEN 0
               ELSE SizeOf[One(s)][u] + g[s \ {One(s)}]]
    <3>1. ASSUME NEW s \in Small(S, m) PROVE g[s] = k[s]
      <4>1. g[s] = IF s = {} THEN 0 ELSE SizeOf[One(s)][u] + h[s \ {One(s)}]
        OBVIOUS
      <4>2. k[s] = IF s = {} THEN 0 ELSE SizeOf[One(s)][u] + g[s \ {One(s)}]
        OBVIOUS
      <4> HIDE DEF g, k
      <4> QED
        BY <2>3, <4>1, <4>2
    <3>2. g = [s \in Small(S, m) |-> g[s]] /\ k = [s \in Small(S, m) |-> k[s]]
      OBVIOUS
    <3> HIDE DEF g, k
    <3>3. g = k
      BY <3>1, <3>2
    <3> QED
      BY <3>3 DEF k
  <2> HIDE DEF g
  <2>5. Sums(g, S, u, m)
    BY <2>4 DEF Sums
  <2> QED
    BY <2>5
<1> QED
  BY <1>2, <1>3

(* The sums of all subsets of a finite set exist. *)
LEMMA SumExists ==
  ASSUME NEW S, IsFiniteSet(S), NEW u
  PROVE  \E g : IsSum(g, S, u)
<1> DEFINE n == Cardinality(S)
<1>1. n \in Nat
  BY FS_CardinalityType
<1>2. Small(S, n) = SUBSET S
  BY FS_Subset DEF Small
<1>3. PICK g : Sums(g, S, u, n)
  BY <1>1, SumsExist
<1> HIDE DEF n
<1>4. IsSum(g, S, u)
  BY <1>2, <1>3 DEF Sums, IsSum
<1> QED
  BY <1>4

(* Two sums over the same elements are equal. *)
LEMMA SumAgrees ==
  ASSUME NEW S, IsFiniteSet(S), NEW u, NEW g, IsSum(g, S, u),
         NEW U \in SUBSET S, NEW h, IsSum(h, U, u)
  PROVE  \A s \in SUBSET U : g[s] = h[s]
<1> DEFINE T == {n \in Nat : \E s \in SUBSET U : Cardinality(s) = n /\ g[s] # h[s]}
<1>1. CASE T = {}
  <2>1. \A s \in SUBSET U : Cardinality(s) \in Nat
    BY FS_Subset, FS_CardinalityType
  <2> QED
    BY <1>1, <2>1
<1>2. CASE T # {}
  <2>1. PICK m \in T : \A k \in T : m <= k
    BY <1>2, LeastNat
  <2>2. PICK s \in SUBSET U : Cardinality(s) = m /\ g[s] # h[s]
    OBVIOUS
  <2>3. /\ g[s] = IF s = {} THEN 0 ELSE SizeOf[One(s)][u] + g[s \ {One(s)}]
        /\ h[s] = IF s = {} THEN 0 ELSE SizeOf[One(s)][u] + h[s \ {One(s)}]
    BY DEF IsSum
  <2>4. s # {}
    BY <2>2, <2>3
  <2>5. s \ {One(s)} \in SUBSET U /\ Cardinality(s \ {One(s)}) = m - 1 /\ m - 1 \in Nat
    <3>1. IsFiniteSet(s) /\ One(s) \in s
      BY <2>4, FS_Subset, OneIn
    <3>2. /\ Cardinality(s \ {One(s)}) = Cardinality(s) - 1
          /\ Cardinality(s \ {One(s)}) \in Nat
      BY <3>1, TakeOut
    <3> QED
      BY <2>2, <3>2
  <2>6. g[s \ {One(s)}] # h[s \ {One(s)}]
    BY <2>2, <2>3, <2>4
  <2>7. m - 1 \in T
    BY <2>5, <2>6
  <2> QED
    BY <2>1, <2>7
<1> QED
  BY <1>1, <1>2

(* A sum of natural numbers is one. *)
LEMMA SumNat ==
  ASSUME NEW S, IsFiniteSet(S), S \subseteq Requests, NEW u \in Units, NEW g, IsSum(g, S, u)
  PROVE  \A s \in SUBSET S : g[s] \in Nat
<1> DEFINE T == {n \in Nat : \E s \in SUBSET S : Cardinality(s) = n /\ g[s] \notin Nat}
<1>1. CASE T = {}
  <2>1. \A s \in SUBSET S : Cardinality(s) \in Nat
    BY FS_Subset, FS_CardinalityType
  <2> QED
    BY <1>1, <2>1
<1>2. CASE T # {}
  <2>1. PICK m \in T : \A k \in T : m <= k
    BY <1>2, LeastNat
  <2>2. PICK s \in SUBSET S : Cardinality(s) = m /\ g[s] \notin Nat
    OBVIOUS
  <2>3. g[s] = IF s = {} THEN 0 ELSE SizeOf[One(s)][u] + g[s \ {One(s)}]
    BY DEF IsSum
  <2>4. s # {}
    BY <2>2, <2>3
  <2>5. /\ s \ {One(s)} \in SUBSET S /\ Cardinality(s \ {One(s)}) = m - 1
        /\ m - 1 \in Nat /\ One(s) \in S
    <3>1. IsFiniteSet(s) /\ One(s) \in s
      BY <2>4, FS_Subset, OneIn
    <3>2. /\ Cardinality(s \ {One(s)}) = Cardinality(s) - 1
          /\ Cardinality(s \ {One(s)}) \in Nat
      BY <3>1, TakeOut
    <3> QED
      BY <2>2, <3>1, <3>2
  <2>6. g[s \ {One(s)}] \notin Nat
    BY <2>2, <2>3, <2>4, <2>5, SizeNat
  <2>7. m - 1 \in T
    BY <2>5, <2>6
  <2> QED
    BY <2>1, <2>7
<1> QED
  BY <1>1, <1>2

(* A sum does not depend on the order of the elements. *)
LEMMA SumTakes ==
  ASSUME NEW S, IsFiniteSet(S), S \subseteq Requests, NEW u \in Units, NEW g, IsSum(g, S, u)
  PROVE  \A s \in SUBSET S : \A x \in s : g[s] = SizeOf[x][u] + g[s \ {x}]
<1> DEFINE Bad(s) == \E x \in s : g[s] # SizeOf[x][u] + g[s \ {x}]
           T == {n \in Nat : \E s \in SUBSET S : Cardinality(s) = n /\ Bad(s)}
<1>1. CASE T = {}
  <2>1. \A s \in SUBSET S : Cardinality(s) \in Nat
    BY FS_Subset, FS_CardinalityType
  <2> QED
    BY <1>1, <2>1
<1>2. CASE T # {}
  <2>1. PICK m \in T : \A k \in T : m <= k
    BY <1>2, LeastNat
  <2>2. PICK s \in SUBSET S : Cardinality(s) = m /\ Bad(s)
    OBVIOUS
  <2>3. PICK x \in s : g[s] # SizeOf[x][u] + g[s \ {x}]
    BY <2>2
  <2> DEFINE c == One(s)
             r == s \ {c}
             q == s \ {x}
  <2>4. g[s] = SizeOf[c][u] + g[r]
    BY <2>3 DEF IsSum
  <2>5. /\ c \in s /\ x # c
        /\ r \in SUBSET S /\ q \in SUBSET S /\ x \in r /\ c \in q
        /\ r \ {x} = q \ {c} /\ r \ {x} \in SUBSET S
    BY <2>3, <2>4, OneIn
  <2>6. /\ Cardinality(r) = m - 1 /\ Cardinality(q) = m - 1 /\ m - 1 \in Nat
    <3>1. IsFiniteSet(s)
      BY FS_Subset
    <3>2. /\ Cardinality(s \ {c}) = Cardinality(s) - 1 /\ Cardinality(s \ {c}) \in Nat
          /\ Cardinality(s \ {x}) = Cardinality(s) - 1
      BY <2>5, <3>1, TakeOut
    <3> QED
      BY <2>2, <3>2
  <2>7. m - 1 \notin T
    BY <2>1
  <2> HIDE DEF c
  <2>8. ~Bad(r) /\ ~Bad(q)
    BY <2>5, <2>6, <2>7
  <2>9. g[r] = SizeOf[x][u] + g[r \ {x}] /\ g[q] = SizeOf[c][u] + g[q \ {c}]
    BY <2>5, <2>8
  <2>10. SizeOf[x][u] \in Int /\ SizeOf[c][u] \in Int /\ g[r \ {x}] \in Int
    BY <2>5, SumNat, SizeNat
  <2> HIDE DEF c, r, q
  <2>11. SizeOf[c][u] + (SizeOf[x][u] + g[r \ {x}]) = SizeOf[x][u] + (SizeOf[c][u] + g[r \ {x}])
    BY <2>10
  <2> QED
    BY <2>3, <2>4, <2>5, <2>9, <2>11 DEF q
<1> QED
  BY <1>1, <1>2

(* What the invariants need to know of a sum: it is a natural number, 0 for *)
(* the empty set, and every member adds its size to it.                    *)
LEMMA TotalOf ==
  ASSUME NEW S, IsFiniteSet(S), S \subseteq Requests, NEW u \in Units
  PROVE  /\ Total({}, u) = 0
         /\ \A s \in SUBSET S :
              /\ Total(s, u) \in Nat
              /\ \A x \in s : Total(s, u) = SizeOf[x][u] + Total(s \ {x}, u)
<1>1. PICK g : IsSum(g, S, u)
  BY SumExists
<1>2. ASSUME NEW s \in SUBSET S PROVE Total(s, u) = g[s]
  <2>1. IsFiniteSet(s)
    BY FS_Subset
  <2> DEFINE h == CHOOSE h : IsSum(h, s, u)
  <2>2. IsSum(h, s, u)
    BY <2>1, SumExists
  <2>3. Total(s, u) = h[s]
    BY TotalIs
  <2> HIDE DEF h
  <2> QED
    BY <1>1, <2>2, <2>3, SumAgrees
<1>3. g[{}] = 0
  BY <1>1 DEF IsSum
<1> QED
  BY <1>1, <1>2, <1>3, SumNat, SumTakes

-----------------------------------------------------------------------------
(* The inductive invariant.                                                *)

(* Where the entry of a request in started_4k_ios may exist. *)
Tracked == IssuePcs \cup {"inflight", "queue", "lookup", "delete"}

(* The requests in seen are between the two probes that count them, and a  *)
(* request in the middle of either is one of them. *)
SeenInv ==
    \A r \in Requests :
        /\ r \in seen => pc[r] # "idle" /\ dev[r] \in known
        /\ pc[r] \notin {"idle", "init", "inflight", "queue", "lookup"} => r \in seen

(* Every entry of started_4k_ios is the entry of a request in seen that    *)
(* has not passed delete(), so no completion finds the entry of another. *)
StartedInv ==
    \A k \in started : \E r \in seen : k = Key(r) /\ pc[r] \in Tracked

(* Until something disturbs it, every counted request has its entry. *)
EntriesInv ==
    ~disturbed => \A r \in seen : /\ pc[r] # "init"
                                  /\ pc[r] \in Tracked \ {"mark"} => Key(r) \in started

(* What an event has reported stays true of the request. *)
ReportedInv ==
    \A r \in seen :
        /\ pc[r] \in {"read_segments", "inflight"} => reported[r].blocks >= SizeOf[r].blocks
        /\ pc[r] = "inflight" => reported[r].segments >= SizeOf[r].segments

BlockIOInv == /\ TypeOK /\ SeenInv /\ StartedInv /\ EntriesInv /\ ReportedInv
              /\ LengthsExact /\ NeverUnderstated

-----------------------------------------------------------------------------
(* Types                                                                   *)

(* Everything that a map may hold is finite. *)
LEMMA Finite ==
  /\ IsFiniteSet(Devices \X {SectorOf[r] : r \in Requests})
  /\ \A S : S \subseteq Devices => IsFiniteSet(S)
  /\ \A S : S \subseteq Requests => IsFiniteSet(S)
<1>1. IsFiniteSet({SectorOf[r] : r \in Requests})
  <2> DEFINE T == {SectorOf[r] : r \in Requests}
             f == [r \in Requests |-> SectorOf[r]]
  <2>1. f \in Surjection(Requests, T)
    BY DEF Surjection
  <2> HIDE DEF f, T
  <2>2. IsFiniteSet(T)
    BY <2>1, FS_Surjection
  <2> QED
    BY <2>2 DEF T
<1> QED
  BY <1>1, FS_Product, FS_Subset

(* A map with room takes one more entry; an entry it has takes no room. *)
LEMMA Fits ==
  ASSUME NEW S, IsFiniteSet(S), NEW x, NEW N \in Nat, Cardinality(S) <= N,
         x \in S \/ Cardinality(S) < N
  PROVE  Cardinality(S \cup {x}) <= N
<1>1. CASE x \in S
  <2>1. S \cup {x} = S
    BY <1>1
  <2> QED
    BY <2>1
<1>2. CASE x \notin S
  <2>1. Cardinality(S \cup {x}) = Cardinality(S) + 1 /\ Cardinality(S) \in Nat
    BY <1>2, FS_AddElement, FS_CardinalityType
  <2> QED
    BY <1>2, <2>1
<1> QED
  BY <1>1, <1>2

(* Removing an entry never fills a map. *)
LEMMA Smaller ==
  ASSUME NEW S, IsFiniteSet(S), NEW x, NEW N \in Nat, Cardinality(S) <= N
  PROVE  Cardinality(S \ {x}) <= N
<1>1. IsFiniteSet(S \ {x}) /\ Cardinality(S \ {x}) <= Cardinality(S)
  BY FS_Subset
<1> QED
  BY <1>1, FS_CardinalityType

(* The queue lengths keep their type when one is changed by an integer. *)
LEMMA AddType ==
  ASSUME TypeOK, NEW r \in Requests, NEW u \in Units, NEW n \in Int, Add(r, u, n)
  PROVE  /\ len' \in [Devices -> [Units -> Int]]
         /\ \A d \in Devices, v \in Units :
              len'[d][v] = IF d = dev[r] /\ v = u THEN len[d][v] + n ELSE len[d][v]
<1>1. dev[r] \in Devices /\ len \in [Devices -> [Units -> Int]]
  BY DEF TypeOK
<1>2. len' = [len EXCEPT ![dev[r]] = [len[dev[r]] EXCEPT ![u] = len[dev[r]][u] + n]]
  BY DEF Add
<1> QED
  BY <1>1, <1>2

(* The two maps never hold more entries than their capacity, and the       *)
(* variables have their types (blk_io.bpf.c, device_queue and              *)
(* started_4k_ios).                                                        *)
THEOREM TypeCorrect == Spec => []TypeOK
<1>1. Init => TypeOK
  <2> SUFFICES ASSUME Init PROVE TypeOK
    OBVIOUS
  <2>1. Cardinality(known) = 0 /\ Cardinality(started) = 0
    BY FS_EmptySet DEF Init
  <2>2. /\ pc \in [Requests -> Pcs] /\ dev \in [Requests -> Devices]
        /\ disturbed \in BOOLEAN /\ seen \subseteq Requests
        /\ known \subseteq Devices
        /\ started \subseteq Devices \X {SectorOf[r] : r \in Requests}
    BY DEF Init, Pcs
  <2>3. Zero \in [Units -> Int]
    BY DEF Zero
  <2>4. len \in [Devices -> [Units -> Int]] /\ reported \in [Requests -> [Units -> Int]]
    BY <2>3 DEF Init
  <2> QED
    BY <2>1, <2>2, <2>4 DEF TypeOK
<1>2. TypeOK /\ [Next]_vars => TypeOK'
  <2> SUFFICES ASSUME TypeOK, [Next]_vars PROVE TypeOK'
    OBVIOUS
  <2>1. CASE UNCHANGED vars
    BY <2>1 DEF vars, TypeOK
  <2>2. CASE Next
    <3> PICK r \in Requests : IssueProbe(r) \/ CompleteProbe(r)
      BY <2>2 DEF Next
    <3> USE DEF Goto, Pcs, IssuePcs, CompletePcs
    <3> DEFINE Sectors == {SectorOf[q] : q \in Requests}
    <3>0. /\ IsFiniteSet(known) /\ IsFiniteSet(started)
          /\ Key(r) \in Devices \X Sectors
      BY Finite, FS_Subset DEF TypeOK, Key
    <3>1. CASE Issue(r)
      BY <3>1 DEF Issue, TypeOK
    <3>2. CASE InitQueue(r)
      <4>1. CASE known' = known
        BY <3>2, <4>1 DEF InitQueue, TypeOK
      <4>2. CASE known' # known
        <5>1. /\ known' = known \cup {dev[r]} /\ dev[r] \in Devices
              /\ dev[r] \in known \/ Cardinality(known) < MaxDevices
          BY <3>2, <4>2 DEF InitQueue, TypeOK
        <5>2. Cardinality(known') <= MaxDevices
          BY <3>0, <5>1, Fits DEF TypeOK
        <5> QED
          BY <3>2, <5>1, <5>2 DEF InitQueue, TypeOK
      <4> QED
        BY <4>1, <4>2
    <3>3. CASE Mark(r)
      BY <3>0, <3>3 DEF Mark, TypeOK
    <3>4. CASE AddBlocks(r)
      BY <3>4, AddType, SizeNat DEF AddBlocks, TypeOK, Units
    <3>5. CASE AddSegments(r)
      BY <3>5, AddType, SizeNat DEF AddSegments, TypeOK, Units
    <3>6. CASE ReadBlocks(r)
      <4>1. reported' \in [Requests -> [Units -> Int]]
        BY <3>6 DEF ReadBlocks, TypeOK, Units
      <4> QED
        BY <3>6, <4>1 DEF ReadBlocks, TypeOK
    <3>7. CASE ReadSegments(r)
      <4>1. reported' \in [Requests -> [Units -> Int]]
        BY <3>7 DEF ReadSegments, TypeOK, Units
      <4> QED
        BY <3>7, <4>1 DEF ReadSegments, TypeOK
    <3>8. CASE Complete(r)
      BY <3>8 DEF Complete, TypeOK, Zero
    <3>9. CASE FindQueue(r)
      BY <3>9 DEF FindQueue, TypeOK
    <3>10. CASE Lookup(r)
      BY <3>10 DEF Lookup, TypeOK
    <3>11. CASE Delete(r)
      <4>1. Cardinality(started') <= MaxStarted
        BY <3>0, <3>11, Smaller DEF Delete, TypeOK
      <4> QED
        BY <3>11, <4>1 DEF Delete, TypeOK
    <3>12. CASE SubBlocks(r)
      BY <3>12, AddType, SizeNat DEF SubBlocks, TypeOK, Units
    <3>13. CASE SubSegments(r)
      BY <3>13, AddType, SizeNat DEF SubSegments, TypeOK, Units
    <3> QED
      BY <3>1, <3>2, <3>3, <3>4, <3>5, <3>6, <3>7, <3>8, <3>9, <3>10, <3>11, <3>12,
         <3>13 DEF IssueProbe, CompleteProbe
  <2> QED
    BY <2>1, <2>2
<1> QED
  BY <1>1, <1>2, PTL DEF Spec


-----------------------------------------------------------------------------
(* Requests and their entries                                              *)

(* Under OwnSectors a completion that finds an entry finds its own. *)
LEMMA FindsOwn ==
  ASSUME OwnSectors, TypeOK, StartedInv, NEW r \in Requests, Key(r) \in started
  PROVE  r \in seen /\ pc[r] \in Tracked
<1>1. PICK q \in seen : Key(r) = Key(q) /\ pc[q] \in Tracked
  BY DEF StartedInv
<1>2. q \in Requests /\ SectorOf[r] = SectorOf[q]
  BY <1>1 DEF TypeOK, Key
<1> QED
  BY <1>1, <1>2 DEF OwnSectors

(* A step of r leaves the position, the device and the place in seen of    *)
(* every other request alone.                                              *)
OnlyOf(r) == \A q \in Requests \ {r} : /\ pc'[q] = pc[q] /\ dev'[q] = dev[q]
                                       /\ q \in seen' <=> q \in seen
                                       /\ reported'[q] = reported[q]

(* Every step is a step of one request.                                    *)
LEMMA OneMoves ==
  ASSUME TypeOK, NEW r \in Requests, IssueProbe(r) \/ CompleteProbe(r)
  PROVE  OnlyOf(r) /\ (pc[r] # "idle" => dev'[r] = dev[r])
<1> USE DEF Goto, TypeOK, OnlyOf
<1>1. CASE Issue(r)
  BY <1>1 DEF Issue
<1>2. CASE InitQueue(r)
  BY <1>2 DEF InitQueue
<1>3. CASE Mark(r) \/ AddBlocks(r) \/ AddSegments(r)
  BY <1>3 DEF Mark, AddBlocks, AddSegments
<1>4. CASE ReadBlocks(r) \/ ReadSegments(r) \/ Complete(r)
  BY <1>4 DEF ReadBlocks, ReadSegments, Complete
<1>5. CASE FindQueue(r) \/ Lookup(r)
  BY <1>5 DEF FindQueue, Lookup
<1>6. CASE Delete(r) \/ SubBlocks(r) \/ SubSegments(r)
  BY <1>6 DEF Delete, SubBlocks, SubSegments
<1> QED
  BY <1>1, <1>2, <1>3, <1>4, <1>5, <1>6 DEF IssueProbe, CompleteProbe

(* The device queues stay, and a device of a request in seen has one. *)
LEMMA SeenStep ==
  ASSUME OwnSectors, TypeOK, SeenInv, StartedInv,
         NEW r \in Requests, IssueProbe(r) \/ CompleteProbe(r)
  PROVE  SeenInv'
<1> DEFINE Ok(q) == /\ q \in seen => pc[q] # "idle" /\ dev[q] \in known
                    /\ pc[q] \notin {"idle", "init", "inflight", "queue", "lookup"} => q \in seen
<1>1. known \subseteq known'
  BY DEF IssueProbe, CompleteProbe, Issue, InitQueue, Mark, AddBlocks, AddSegments,
         ReadBlocks, ReadSegments, Complete, FindQueue, Lookup, Delete, SubBlocks, SubSegments
<1>2. ASSUME NEW q \in Requests, q # r PROVE Ok(q)'
  BY <1>1, <1>2, OneMoves DEF OnlyOf, SeenInv
<1>3. Ok(r)'
  <2> USE DEF Goto, TypeOK, SeenInv
  <2>1. CASE Issue(r)
    BY <2>1 DEF Issue
  <2>2. CASE InitQueue(r)
    BY <2>2 DEF InitQueue
  <2>3. CASE Mark(r) \/ AddBlocks(r) \/ AddSegments(r)
    BY <2>3 DEF Mark, AddBlocks, AddSegments
  <2>4. CASE ReadBlocks(r) \/ ReadSegments(r) \/ Complete(r)
    BY <2>4 DEF ReadBlocks, ReadSegments, Complete
  <2>5. CASE FindQueue(r)
    BY <2>5 DEF FindQueue
  <2>6. CASE Lookup(r)
    BY <2>6, FindsOwn DEF Lookup
  <2>7. CASE Delete(r) \/ SubBlocks(r) \/ SubSegments(r)
    BY <2>7 DEF Delete, SubBlocks, SubSegments
  <2> QED
    BY <2>1, <2>2, <2>3, <2>4, <2>5, <2>6, <2>7 DEF IssueProbe, CompleteProbe
<1> QED
  BY <1>2, <1>3 DEF SeenInv

(* An entry outlives every step of its request but Delete, which removes   *)
(* it, and is made by Mark of its request only.                            *)
LEMMA StartedStep ==
  ASSUME OwnSectors, TypeOK, SeenInv, StartedInv,
         NEW r \in Requests, IssueProbe(r) \/ CompleteProbe(r)
  PROVE  StartedInv'
<1> USE DEF Goto
<1>1. ASSUME NEW k \in started', k # Key(r)
      PROVE  \E q \in seen' : k = Key(q)' /\ pc'[q] \in Tracked
  <2>1. k \in started
    BY <1>1 DEF IssueProbe, CompleteProbe, Issue, InitQueue, Mark, AddBlocks, AddSegments,
         ReadBlocks, ReadSegments, Complete, FindQueue, Lookup, Delete, SubBlocks, SubSegments
  <2>2. PICK q \in seen : k = Key(q) /\ pc[q] \in Tracked
    BY <2>1 DEF StartedInv
  <2>3. q \in Requests /\ q # r
    BY <1>1, <2>2 DEF TypeOK
  <2> QED
    BY <2>2, <2>3, OneMoves DEF OnlyOf, Key
<1>2. ASSUME Key(r) \in started'
      PROVE  r \in seen' /\ dev'[r] = dev[r] /\ pc'[r] \in Tracked
  <2> USE DEF TypeOK, SeenInv
  <2>1. CASE Issue(r)
    BY <1>2, <2>1, FindsOwn DEF Issue, Tracked, IssuePcs
  <2>2. CASE InitQueue(r)
    BY <1>2, <2>2, FindsOwn DEF InitQueue, Tracked, IssuePcs
  <2>3. CASE Mark(r)
    BY <2>3 DEF Mark, Tracked, IssuePcs
  <2>4. CASE AddBlocks(r) \/ AddSegments(r) \/ ReadBlocks(r) \/ ReadSegments(r)
    BY <2>4 DEF AddBlocks, AddSegments, ReadBlocks, ReadSegments, Tracked, IssuePcs
  <2>5. CASE Complete(r) \/ FindQueue(r)
    BY <1>2, <2>5, FindsOwn DEF Complete, FindQueue, Tracked, IssuePcs
  <2>6. CASE Lookup(r)
    BY <1>2, <2>6, FindsOwn DEF Lookup, Tracked
  <2>7. CASE Delete(r)
    BY <1>2, <2>7 DEF Delete
  <2>8. CASE SubBlocks(r) \/ SubSegments(r)
    <3>1. Key(r) \in started /\ pc[r] \notin Tracked
      BY <1>2, <2>8 DEF SubBlocks, SubSegments, Tracked, IssuePcs
    <3> QED
      BY <3>1, FindsOwn
  <2> QED
    BY <2>1, <2>2, <2>3, <2>4, <2>5, <2>6, <2>7, <2>8 DEF IssueProbe, CompleteProbe
<1> QED
  BY <1>1, <1>2 DEF StartedInv, Key

(* While nothing disturbs them the counted requests keep their entries:    *)
(* Delete removes the entry of its own request only.                       *)
LEMMA EntriesStep ==
  ASSUME OwnSectors, TypeOK, SeenInv, StartedInv, EntriesInv,
         NEW r \in Requests, IssueProbe(r) \/ CompleteProbe(r)
  PROVE  EntriesInv'
<1> USE DEF Goto
<1> DEFINE Ok(q) == /\ pc[q] # "init"
                    /\ pc[q] \in Tracked \ {"mark"} => Key(q) \in started
<1> SUFFICES ASSUME ~disturbed' PROVE \A q \in seen' : Ok(q)'
  BY DEF EntriesInv
<1>1. ~disturbed
  BY DEF IssueProbe, CompleteProbe, Issue, InitQueue, Mark, AddBlocks, AddSegments,
         ReadBlocks, ReadSegments, Complete, FindQueue, Lookup, Delete, SubBlocks, SubSegments
<1>2. started \ {Key(r)} \subseteq started'
  BY DEF IssueProbe, CompleteProbe, Issue, InitQueue, Mark, AddBlocks, AddSegments,
         ReadBlocks, ReadSegments, Complete, FindQueue, Lookup, Delete, SubBlocks, SubSegments
<1>3. ASSUME NEW q \in seen', q # r PROVE Ok(q)'
  <2>1. q \in Requests /\ q \in seen
    <3>1. seen' \subseteq Requests
      BY DEF TypeOK, IssueProbe, CompleteProbe, Issue, InitQueue, Mark, AddBlocks, AddSegments,
         ReadBlocks, ReadSegments, Complete, FindQueue, Lookup, Delete, SubBlocks, SubSegments
    <3> QED
      BY <1>3, <3>1, OneMoves DEF OnlyOf
  <2>2. Key(q) # Key(r)
    BY <1>3, <2>1 DEF OwnSectors, Key
  <2>3. Ok(q) /\ pc'[q] = pc[q] /\ Key(q)' = Key(q)
    BY <1>1, <1>3, <2>1, OneMoves DEF OnlyOf, EntriesInv, Key
  <2> QED
    BY <1>2, <2>2, <2>3
<1>4. ASSUME r \in seen' PROVE Ok(r)'
  <2> USE <1>1 DEF TypeOK, EntriesInv, SeenInv
  <2>1. CASE Issue(r)
    BY <1>4, <2>1 DEF Issue
  <2>2. CASE InitQueue(r)
    BY <1>4, <2>2 DEF InitQueue, Tracked
  <2>3. CASE Mark(r)
    BY <1>4, <2>3 DEF Mark, Tracked, IssuePcs, Key
  <2>4. CASE AddBlocks(r) \/ AddSegments(r) \/ ReadBlocks(r) \/ ReadSegments(r)
    BY <1>4, <2>4 DEF AddBlocks, AddSegments, ReadBlocks, ReadSegments, Tracked, IssuePcs, Key
  <2>5. CASE Complete(r) \/ FindQueue(r)
    BY <1>4, <2>5 DEF Complete, FindQueue, Tracked, IssuePcs, Key
  <2>6. CASE Lookup(r)
    BY <1>4, <2>6 DEF Lookup, Tracked, Key
  <2>7. CASE Delete(r) \/ SubBlocks(r) \/ SubSegments(r)
    BY <1>4, <2>7 DEF Delete, SubBlocks, SubSegments, Tracked, IssuePcs
  <2> QED
    BY <2>1, <2>2, <2>3, <2>4, <2>5, <2>6, <2>7 DEF IssueProbe, CompleteProbe
<1> QED
  BY <1>3, <1>4


-----------------------------------------------------------------------------
(* Queue lengths                                                           *)

(* The positions of a counted request at which a length in unit u holds it *)
Holds(c, u) == /\ c \notin {"mark", "add_blocks"}
               /\ u = "segments" => c # "add_segments"
               /\ u = "blocks" => c # "sub_segments"

(* What request r has in the length of device d in unit u *)
Share(r, d, u) ==
    IF r \in seen /\ dev[r] = d /\ Holds(pc[r], u) THEN SizeOf[r][u] ELSE 0

(* Outstanding requests are those that a length holds. *)
LEMMA OutstandingIs ==
  \A d, u : u \in Units =>
    Outstanding(d, u) = {r \in seen : dev[r] = d /\ Holds(pc[r], u)}
BY DEF Outstanding, Units, Holds

(* What request r has in the total of a set *)
Part(r, A, u) == IF r \in A THEN SizeOf[r][u] ELSE 0

(* Adding up the outstanding requests is adding up the shares: a total is  *)
(* the share of r and the total of the others.                             *)
LEMMA TotalSplits ==
  ASSUME NEW A \in SUBSET Requests, NEW r \in Requests, NEW u \in Units
  PROVE  /\ Total(A, u) \in Nat /\ Total(A \ {r}, u) \in Nat
         /\ Total(A, u) = Total(A \ {r}, u) + Part(r, A, u)
<1>1. /\ Total(A, u) \in Nat /\ Total(A \ {r}, u) \in Nat
      /\ r \in A => Total(A, u) = SizeOf[r][u] + Total(A \ {r}, u)
  BY TotalOf
<1>2. SizeOf[r][u] \in Nat
  BY SizeNat
<1>3. CASE r \in A
  BY <1>1, <1>2, <1>3 DEF Part
<1>4. CASE r \notin A
  <2>1. A \ {r} = A
    BY <1>4
  <2> QED
    BY <1>1, <1>4, <2>1 DEF Part
<1> QED
  BY <1>3, <1>4

(* A step of r changes a total by what it changes the share of r. *)
LEMMA TotalStep ==
  ASSUME TypeOK, TypeOK', NEW r \in Requests, OnlyOf(r), NEW d \in Devices, NEW u \in Units
  PROVE  /\ Total(Outstanding(d, u), u) \in Nat
         /\ Total(Outstanding(d, u)', u) \in Nat
         /\ Total(Outstanding(d, u)', u)
              = Total(Outstanding(d, u), u) + (Share(r, d, u)' - Share(r, d, u))
<1> DEFINE A == Outstanding(d, u)
           B == Outstanding(d, u)'
<1>1. A = {q \in seen : dev[q] = d /\ Holds(pc[q], u)}
  BY OutstandingIs
<1>2. B = {q \in seen' : dev'[q] = d /\ Holds(pc'[q], u)}
  BY DEF Outstanding, Units, Holds
<1>3. A \in SUBSET Requests /\ B \in SUBSET Requests
  BY <1>1, <1>2 DEF TypeOK
<1>4. A \ {r} = B \ {r}
  BY <1>1, <1>2, <1>3 DEF OnlyOf, TypeOK
<1>5. /\ Share(r, d, u) = Part(r, A, u)
      /\ Share(r, d, u)' = Part(r, B, u)
  BY <1>1, <1>2 DEF Share, Part
<1>6. SizeOf[r][u] \in Nat
  BY SizeNat
<1> HIDE DEF A, B
<1>7. Part(r, A, u) \in Nat /\ Part(r, B, u) \in Nat
  BY <1>6 DEF Part
<1>8. /\ Total(A, u) \in Nat /\ Total(A \ {r}, u) \in Nat /\ Total(B, u) \in Nat
      /\ Total(A, u) = Total(A \ {r}, u) + Part(r, A, u)
      /\ Total(B, u) = Total(A \ {r}, u) + Part(r, B, u)
  <2>1. /\ Total(A, u) \in Nat /\ Total(A \ {r}, u) \in Nat
        /\ Total(A, u) = Total(A \ {r}, u) + Part(r, A, u)
    BY <1>3, TotalSplits
  <2>2. /\ Total(B, u) \in Nat
        /\ Total(B, u) = Total(B \ {r}, u) + Part(r, B, u)
    BY <1>3, TotalSplits
  <2> QED
    BY <1>4, <2>1, <2>2
<1>9. Total(B, u) = Total(A, u) + (Share(r, d, u)' - Share(r, d, u))
  BY <1>5, <1>7, <1>8
<1> QED
  BY <1>8, <1>9 DEF A, B

(* A step never takes more off a length than off the shares, and exactly   *)
(* as much until something disturbs the program.                           *)
LEMMA ShareStep ==
  ASSUME OwnSectors, TypeOK, SeenInv, StartedInv, EntriesInv,
         NEW r \in Requests, IssueProbe(r) \/ CompleteProbe(r),
         NEW d \in Devices, NEW u \in Units
  PROVE  /\ len'[d][u] >= len[d][u] + (Share(r, d, u)' - Share(r, d, u))
         /\ ~disturbed' => len'[d][u] = len[d][u] + (Share(r, d, u)' - Share(r, d, u))
<1>1. len[d][u] \in Int /\ SizeOf[r][u] \in Nat
  BY SizeNat DEF TypeOK
<1>2. u = "blocks" \/ u = "segments"
  BY DEF Units
<1>3. SizeOf[r].blocks \in Int /\ SizeOf[r].segments \in Int
  BY SizeNat DEF Units
<1> USE <1>1, <1>2 DEF Goto, Share, Holds, SeenInv
<1>4. CASE Issue(r)
  <2>1. /\ len' = len /\ seen' = seen /\ pc[r] \in {"idle", "inflight"} /\ pc'[r] = "init"
        /\ dev'[r] = dev[r] \/ r \notin seen
    BY <1>4 DEF Issue, TypeOK
  <2> QED
    BY <2>1
<1>5. CASE InitQueue(r)
  <2>1. /\ len' = len /\ dev' = dev /\ pc[r] = "init"
        /\ \/ r \in seen' /\ pc'[r] = "mark"
           \/ r \notin seen /\ r \notin seen'
        /\ disturbed' = disturbed
    BY <1>5 DEF InitQueue, TypeOK
  <2>2. ~disturbed => r \notin seen
    BY <2>1 DEF EntriesInv
  <2> QED
    BY <2>1, <2>2
<1>6. CASE Mark(r) \/ ReadBlocks(r) \/ ReadSegments(r) \/ Complete(r)
  <2>1. /\ len' = len /\ dev' = dev /\ seen' = seen
        /\ <<pc[r], pc'[r]>> \in {<<"mark", "add_blocks">>, <<"read_blocks", "read_segments">>,
                                  <<"read_segments", "inflight">>, <<"inflight", "queue">>}
    BY <1>6 DEF Mark, ReadBlocks, ReadSegments, Complete, TypeOK
  <2> QED
    BY <2>1
<1>7. CASE AddBlocks(r)
  <2>1. Add(r, "blocks", SizeOf[r].blocks)
    BY <1>7 DEF AddBlocks
  <2>2. /\ dev' = dev /\ seen' = seen /\ r \in seen
        /\ pc[r] = "add_blocks" /\ pc'[r] = "add_segments"
    BY <1>7 DEF AddBlocks, TypeOK
  <2>3. len'[d][u] = IF d = dev[r] /\ u = "blocks" THEN len[d][u] + SizeOf[r].blocks ELSE len[d][u]
    BY <1>3, <2>1, AddType DEF Units
  <2> QED
    BY <1>3, <2>2, <2>3
<1>8. CASE AddSegments(r)
  <2>1. Add(r, "segments", SizeOf[r].segments)
    BY <1>8 DEF AddSegments
  <2>2. /\ dev' = dev /\ seen' = seen /\ r \in seen
        /\ pc[r] = "add_segments" /\ pc'[r] = "read_blocks"
    BY <1>8 DEF AddSegments, TypeOK
  <2>3. len'[d][u] = IF d = dev[r] /\ u = "segments" THEN len[d][u] + SizeOf[r].segments ELSE len[d][u]
    BY <1>3, <2>1, AddType DEF Units
  <2> QED
    BY <1>3, <2>2, <2>3
<1>9. CASE FindQueue(r)
  <2>1. /\ len' = len /\ dev' = dev /\ pc[r] = "queue"
        /\ \/ pc'[r] = "lookup" /\ seen' = seen
           \/ r \notin seen /\ r \notin seen'
    BY <1>9 DEF FindQueue, TypeOK
  <2> QED
    BY <2>1
<1>10. CASE Lookup(r)
  <2>1. /\ len' = len /\ dev' = dev /\ pc[r] = "lookup" /\ disturbed' = disturbed
        /\ \/ Key(r) \in started /\ pc'[r] = "delete" /\ seen' = seen
           \/ Key(r) \notin started /\ r \notin seen'
    BY <1>10 DEF Lookup, TypeOK
  <2>2. ~disturbed /\ r \in seen => Key(r) \in started
    BY <2>1 DEF EntriesInv, Tracked
  <2> QED
    BY <2>1, <2>2
<1>11. CASE Delete(r)
  <2>1. /\ len' = len /\ dev' = dev /\ seen' = seen
        /\ pc[r] = "delete" /\ pc'[r] = "sub_blocks"
    BY <1>11 DEF Delete, TypeOK
  <2> QED
    BY <2>1
<1>12. CASE SubBlocks(r)
  <2>1. Add(r, "blocks", -SizeOf[r].blocks)
    BY <1>12 DEF SubBlocks
  <2>2. /\ dev' = dev /\ seen' = seen /\ r \in seen
        /\ pc[r] = "sub_blocks" /\ pc'[r] = "sub_segments"
    BY <1>12 DEF SubBlocks, TypeOK
  <2>3. len'[d][u] = IF d = dev[r] /\ u = "blocks" THEN len[d][u] + (-SizeOf[r].blocks) ELSE len[d][u]
    BY <1>3, <2>1, AddType DEF Units
  <2> QED
    BY <1>3, <2>2, <2>3
<1>13. CASE SubSegments(r)
  <2>1. Add(r, "segments", -SizeOf[r].segments)
    BY <1>13 DEF SubSegments
  <2>2. /\ dev' = dev /\ r \notin seen' /\ r \in seen
        /\ pc[r] = "sub_segments"
    BY <1>13 DEF SubSegments, TypeOK
  <2>3. len'[d][u] = IF d = dev[r] /\ u = "segments" THEN len[d][u] + (-SizeOf[r].segments) ELSE len[d][u]
    BY <1>3, <2>1, AddType DEF Units
  <2> QED
    BY <1>3, <2>2, <2>3
<1> QED
  BY <1>4, <1>5, <1>6, <1>7, <1>8, <1>9, <1>10, <1>11, <1>12, <1>13
     DEF IssueProbe, CompleteProbe


(* The lengths and the totals they stand for change together. *)
LEMMA LengthsStep ==
  ASSUME OwnSectors, TypeOK, TypeOK', SeenInv, StartedInv, EntriesInv,
         LengthsExact, NeverUnderstated,
         NEW r \in Requests, IssueProbe(r) \/ CompleteProbe(r)
  PROVE  LengthsExact' /\ NeverUnderstated'
<1>1. OnlyOf(r)
  BY OneMoves
<1>2. disturbed => disturbed'
  BY DEF IssueProbe, CompleteProbe, Issue, InitQueue, Mark, AddBlocks, AddSegments,
         ReadBlocks, ReadSegments, Complete, FindQueue, Lookup, Delete, SubBlocks, SubSegments
<1>3. ASSUME NEW d \in Devices, NEW u \in Units
      PROVE  /\ len'[d][u] >= Total(Outstanding(d, u)', u)
             /\ ~disturbed' => len'[d][u] = Total(Outstanding(d, u)', u)
  <2> DEFINE T == Total(Outstanding(d, u), u)
             N == Total(Outstanding(d, u)', u)
             C == Share(r, d, u)' - Share(r, d, u)
  <2>1. T \in Nat /\ N \in Nat /\ N = T + C
    BY <1>1, TotalStep
  <2>2. /\ len'[d][u] >= len[d][u] + C
        /\ ~disturbed' => len'[d][u] = len[d][u] + C
    BY ShareStep
  <2>3. /\ len[d][u] >= T
        /\ ~disturbed => len[d][u] = T
    BY DEF LengthsExact, NeverUnderstated
  <2>4. len[d][u] \in Int /\ len'[d][u] \in Int
    BY DEF TypeOK
  <2>5. C \in Int
    <3>1. SizeOf[r][u] \in Nat
      BY SizeNat
    <3> QED
      BY <3>1 DEF Share
  <2> HIDE DEF T, N, C
  <2>6. /\ len'[d][u] >= N
        /\ ~disturbed' => len'[d][u] = N
    BY <1>2, <2>1, <2>2, <2>3, <2>4, <2>5
  <2> QED
    BY <2>6 DEF N
<1>4. \A d \in Devices, u \in Units : Total(Outstanding(d, u)', u) = Total(Outstanding(d, u), u)'
  OBVIOUS
<1> QED
  BY <1>3, <1>4 DEF LengthsExact, NeverUnderstated

(* A length that holds a request is at least its size. *)
LEMMA HoldsOwn ==
  ASSUME TypeOK, NeverUnderstated, NEW u \in Units,
         NEW r \in seen, Holds(pc[r], u)
  PROVE  len[dev[r]][u] >= SizeOf[r][u]
<1> DEFINE A == Outstanding(dev[r], u)
<1>1. r \in Requests /\ dev[r] \in Devices /\ A \subseteq Requests /\ r \in A
  BY OutstandingIs DEF TypeOK
<1>2. len[dev[r]][u] >= Total(A, u) /\ len[dev[r]][u] \in Int /\ SizeOf[r][u] \in Nat
  BY <1>1, SizeNat DEF NeverUnderstated, TypeOK
<1> HIDE DEF A
<1>3. Total(A \ {r}, u) \in Nat /\ Total(A, u) \in Nat /\ Total(A, u) = Total(A \ {r}, u) + Part(r, A, u)
  BY <1>1, TotalSplits
<1> QED
  BY <1>1, <1>2, <1>3 DEF Part

(* Between the addition and its event a length holds the request, whatever *)
(* the probes of other requests do to it.                                  *)
LEMMA ReportedStep ==
  ASSUME OwnSectors, TypeOK, TypeOK', SeenInv, StartedInv, NeverUnderstated, ReportedInv,
         NEW r \in Requests, IssueProbe(r) \/ CompleteProbe(r)
  PROVE  ReportedInv'
<1> USE DEF Goto
<1> DEFINE Ok(q) ==
      /\ pc[q] \in {"read_segments", "inflight"} => reported[q].blocks >= SizeOf[q].blocks
      /\ pc[q] = "inflight" => reported[q].segments >= SizeOf[q].segments
<1>1. ASSUME NEW q \in seen', q # r PROVE Ok(q)'
  <2>1. q \in Requests /\ q \in seen
    BY <1>1, OneMoves DEF OnlyOf, TypeOK
  <2> QED
    BY <1>1, <2>1, OneMoves DEF OnlyOf, ReportedInv
<1>2. ASSUME r \in seen' PROVE Ok(r)'
  <2>1. CASE ReadBlocks(r)
    <3>1. /\ r \in seen /\ pc'[r] = "read_segments" /\ pc[r] = "read_blocks"
          /\ reported'[r].blocks = len[dev[r]].blocks
      BY <1>2, <2>1 DEF ReadBlocks, TypeOK, Units
    <3>2. len[dev[r]]["blocks"] >= SizeOf[r]["blocks"]
      BY <3>1, HoldsOwn DEF Units, Holds
    <3> QED
      BY <3>1, <3>2
  <2>2. CASE ReadSegments(r)
    <3>1. /\ r \in seen /\ pc'[r] = "inflight" /\ pc[r] = "read_segments"
          /\ reported'[r].segments = len[dev[r]].segments
          /\ reported'[r].blocks = reported[r].blocks
      BY <1>2, <2>2 DEF ReadSegments, TypeOK, Units
    <3>2. len[dev[r]]["segments"] >= SizeOf[r]["segments"]
      BY <3>1, HoldsOwn DEF Units, Holds
    <3> QED
      BY <3>1, <3>2 DEF ReportedInv
  <2>3. CASE InitQueue(r)
    <3>1. pc'[r] = "mark"
      BY <1>2, <2>3 DEF InitQueue, SeenInv, TypeOK
    <3> QED
      BY <3>1
  <2>4. CASE ~(ReadBlocks(r) \/ ReadSegments(r) \/ InitQueue(r))
    <3>1. pc'[r] \notin {"read_segments", "inflight"}
      BY <2>4 DEF IssueProbe, CompleteProbe, Issue, Mark, AddBlocks, AddSegments,
         Complete, FindQueue, Lookup, Delete, SubBlocks, SubSegments, TypeOK
    <3> QED
      BY <3>1
  <2> QED
    BY <2>1, <2>2, <2>3, <2>4
<1> QED
  BY <1>1, <1>2 DEF ReportedInv

-----------------------------------------------------------------------------
(* The theorems                                                            *)

(* While no two requests share a sector of a device, the probes keep the   *)
(* invariant (blk_io.bpf.c, block_rq_issue and block_rq_complete).         *)
THEOREM BlockIOCorrect == Spec => [](OwnSectors => BlockIOInv)
<1>1. Init /\ OwnSectors /\ TypeOK => BlockIOInv
  <2> SUFFICES ASSUME Init, TypeOK PROVE BlockIOInv
    OBVIOUS
  <2>1. SeenInv /\ StartedInv /\ EntriesInv /\ ReportedInv
    BY DEF Init, SeenInv, StartedInv, EntriesInv, ReportedInv
  <2>2. ASSUME NEW d \in Devices, NEW u \in Units
        PROVE  len[d][u] = 0 /\ Total(Outstanding(d, u), u) = 0
    <3>1. Outstanding(d, u) = {}
      BY DEF Init, Outstanding
    <3>2. Total({}, u) = 0
      BY TotalOf
    <3> QED
      BY <3>1, <3>2 DEF Init, Zero
  <2>3. LengthsExact /\ NeverUnderstated
    BY <2>2 DEF LengthsExact, NeverUnderstated
  <2> QED
    BY <2>1, <2>3 DEF BlockIOInv
<1>2. OwnSectors /\ TypeOK' /\ BlockIOInv /\ [Next]_vars => BlockIOInv'
  <2> SUFFICES ASSUME OwnSectors, TypeOK', BlockIOInv, [Next]_vars PROVE BlockIOInv'
    OBVIOUS
  <2>1. CASE UNCHANGED vars
    <3>1. (SeenInv /\ StartedInv /\ EntriesInv /\ ReportedInv)'
      BY <2>1 DEF vars, BlockIOInv, SeenInv, StartedInv, EntriesInv, ReportedInv, Key
    <3>2. LengthsExact' /\ NeverUnderstated'
      BY <2>1 DEF vars, BlockIOInv, LengthsExact, NeverUnderstated, Outstanding
    <3> QED
      BY <3>1, <3>2 DEF BlockIOInv
  <2>2. CASE Next
    <3>1. PICK r \in Requests : IssueProbe(r) \/ CompleteProbe(r)
      BY <2>2 DEF Next
    <3>2. /\ TypeOK /\ SeenInv /\ StartedInv /\ EntriesInv /\ ReportedInv
          /\ LengthsExact /\ NeverUnderstated
      BY DEF BlockIOInv
    <3>3. SeenInv' /\ StartedInv' /\ EntriesInv'
      BY <3>1, <3>2, SeenStep, StartedStep, EntriesStep
    <3>4. LengthsExact' /\ NeverUnderstated'
      BY <3>1, <3>2, LengthsStep
    <3>5. ReportedInv'
      BY <3>1, <3>2, ReportedStep
    <3> QED
      BY <3>3, <3>4, <3>5 DEF BlockIOInv
  <2> QED
    BY <2>1, <2>2
<1>3. CASE OwnSectors
  BY <1>1, <1>2, <1>3, TypeCorrect, PTL DEF Spec
<1>4. CASE ~OwnSectors
  BY <1>4, PTL
<1> QED
  BY <1>3, <1>4

(* Until a request is requeued or is not entered in started_4k_ios, the    *)
(* queue lengths that the probes report are the sums of the requests       *)
(* issued and not completed, for any number of CPUs in the probes.         *)
THEOREM LengthsCorrect == Spec => [](OwnSectors => LengthsExact)
<1>1. BlockIOInv => LengthsExact
  BY DEF BlockIOInv
<1> QED
  BY <1>1, BlockIOCorrect, PTL

(* A queue length is never less than that sum, even after a requeue or a   *)
(* full started_4k_ios.                                                    *)
THEOREM LowerBoundCorrect == Spec => [](OwnSectors => NeverUnderstated)
<1>1. BlockIOInv => NeverUnderstated
  BY DEF BlockIOInv
<1> QED
  BY <1>1, BlockIOCorrect, PTL

(* The queue lengths in a block_io_starts event include its own request.   *)
THEOREM ReportedCorrect == Spec => [](OwnSectors => ReportedIncludesOwn)
<1>1. BlockIOInv => ReportedIncludesOwn
  BY DEF BlockIOInv, ReportedInv, ReportedIncludesOwn, Units
<1> QED
  BY <1>1, BlockIOCorrect, PTL

(* The completion probe subtracts only requests that the issue probe has   *)
(* added, as its comment says, while no two requests share a sector.       *)
THEOREM SubtractsCorrect == Spec => [](OwnSectors => SubtractsOnlyTracked)
<1>1. BlockIOInv => SubtractsOnlyTracked
  BY DEF BlockIOInv, SeenInv, SubtractsOnlyTracked
<1> QED
  BY <1>1, BlockIOCorrect, PTL
=============================================================================
