---------------------------- MODULE RunnerProofs ----------------------------
(***************************************************************************)
(* What RemoteRunner promises of the result directories, for any list of   *)
(* experiments asked for, any numbers of iterations and values, and any    *)
(* outage of the network: a directory holds the results its name tells.    *)
(***************************************************************************)
EXTENDS RemoteRunner, WellFoundedInduction, TLAPS

(* A set of natural numbers that is not empty has a least one. *)
LEMMA LeastNat ==
    ASSUME NEW T, T \subseteq Nat, T # {}
    PROVE  \E m \in T : \A k \in T : m <= k
<1> DEFINE R == {ss \in Nat \X Nat : ss[1] < ss[2]}
<1>1. OpToRel(<, Nat) = R
  BY DEF OpToRel
<1>2. IsWellFoundedOn(R, Nat)
  BY <1>1, NatLessThanWellFounded
<1> HIDE DEF R
<1>3. PICK m \in T : \A k \in T : ~(<<k, m>> \in R)
  BY <1>2, WFMin
<1>4. ASSUME NEW k \in T PROVE m <= k
  <2>1. <<k, m>> \in Nat \X Nat /\ <<k, m>>[1] = k /\ <<k, m>>[2] = m
    OBVIOUS
  <2>2. ~(k < m)
    BY <1>3, <2>1 DEF R
  <2> QED
    BY <2>1, <2>2
<1> QED
  BY <1>4

(* The steps an experiment is made of. *)
StepOps == {"limits", "writeback", "start", "sync", "grub", "module", "reboot"}
StepRecs == [op : StepOps, exp : Experiments \cup {"none"}, val : Nat, run : Nat]

(* Nothing is configured after position r and before position i. *)
Configures(s) == s.op \in {"grub", "module"}

(* What precedes a step of a run: limits, writeback off for K, start, sync. *)
Prepared(s, i) ==
    /\ s[i].op \in {"start", "writeback", "sync"} => i > 1 /\ Dir(s[i - 1]) = Dir(s[i])
    /\ s[i].op = "start" => s[i - 1].op = IF s[i].exp = "K" THEN "writeback" ELSE "limits"
    /\ s[i].op = "writeback" => s[i - 1].op = "limits"
    /\ s[i].op = "sync" => s[i - 1].op = "start"
    /\ s[i].op \in {"start", "grub", "module"} => s[i].exp \in Experiments

(* The options of a run are configured (at g) and booted (at r) before it. *)
Booted(s, i) ==
    \E g \in 1..(i - 1) : \E r \in (g + 1)..(i - 1) :
        /\ s[g].op = "grub" /\ Options(s[g]) = Options(s[i]) /\ s[r].op = "reboot"
        /\ \A j \in (g + 1)..(i - 1) : ~Configures(s[j])
        /\ s[i].exp \in {"E", "F"} =>
               \E m \in 1..(g - 1) : s[m].op = "module" /\ Options(s[m]) = Options(s[i])

WellOrdered(s) ==
    \A i \in DOMAIN s :
        /\ Prepared(s, i)
        /\ s[i].op = "start" /\ s[i].exp \notin {"A", "B", "K"} => Booted(s, i)

Plain == {s \in Seq(StepRecs) : WellOrdered(s)}

-----------------------------------------------------------------------------
(* What the first n steps of a list have achieved. *)
Rest(all, n) ==
    /\ all \in Plain /\ n \in 0..Len(all) /\ steps \in Seq(StepRecs)
    /\ Len(steps) = Len(all) - n
    /\ \A i \in 1..Len(steps) : steps[i] = all[n + i]

Configured(all, n) ==
    /\ \A g \in 1..n : all[g].op = "grub" /\ (\A j \in (g + 1)..n : all[j].op # "grub") =>
                           grub = Options(all[g])
    /\ \A m \in 1..n : all[m].op = "module" => Options(all[m]) \in modules

BootOf == IF grub.exp \in {"E", "F"} /\ grub \notin modules THEN NoOptions ELSE grub

IsResult(r) == r.boot = booted /\ r.limits = limits /\ r.whole = TRUE

Boots(all, n) ==
    \E r \in 1..n : all[r].op = "reboot" /\ \A j \in (r + 1)..n : ~Configures(all[j])

Undoubted(all, n) ==
    /\ machine = "up" /\ (Boots(all, n) => booted = BootOf)
    /\ n > 0 /\ all[n].op \in {"limits", "writeback", "start"} => limits = LimitsOf(all[n])
    /\ n > 0 /\ (all[n].op = "writeback" \/ (all[n].op = "start" /\ all[n].exp = "K"))
          => ~writeback
    /\ n > 0 /\ all[n].op = "start" /\ xpc = "next" =>
          script = NoScript /\ Dir(all[n]) \in DOMAIN runDirs
          /\ IsResult(runDirs[Dir(all[n])])

ThisRun == Dir(Head(steps))

RunningInv ==
    /\ xpc = "tmux" => script = NoScript /\ markers = {}
    /\ xpc = "wait" =>
        /\ script # NoScript => script.dir = ThisRun /\ "complete" \notin markers
        /\ script.at = "build" => runDirs[ThisRun].boot = booted
        /\ script.at = "touch" \/ "complete" \in markers => IsResult(runDirs[ThisRun])

StageInv ==
    /\ xpc \in {"tmux", "wait"} => steps # <<>> /\ Head(steps).op = "start"
                                    /\ ThisRun \in DOMAIN runDirs
    /\ xpc \in {"closing", "booting"} => steps # <<>> /\ Head(steps).op = "reboot"

RebootInv ==
    xpc \in {"closing", "booting"} /\ ~doubt =>
        /\ machine = "up" => booted = BootOf
        /\ xpc = "booting" => machine # "closing"

RunInv ==
    \E all \in Plain : \E n \in 0..Len(all) :
       /\ Rest(all, n) /\ Configured(all, n)
       /\ xpc \in {"next", "tmux", "wait"} /\ ~doubt => Undoubted(all, n) /\ RunningInv

RunnerTypeOK ==
    /\ xpc \in {"stopped", "next", "tmux", "wait", "closing", "booting"}
    /\ machine \in {"up", "closing", "down"}
    /\ doubt \in BOOLEAN /\ writeback \in BOOLEAN
    /\ script = NoScript \/ (DOMAIN script = {"at", "dir"}
                             /\ script.at \in {"parameters", "build", "touch"})
    /\ \A d \in DOMAIN runDirs : DOMAIN runDirs[d] = {"boot", "limits", "whole"}
    /\ asked \in Seq(Experiments)

RunnerInv == /\ RunnerTypeOK /\ ResultsLabelled
             /\ xpc # "stopped" => StageInv /\ RebootInv /\ RunInv

-----------------------------------------------------------------------------
(* The lists of steps.                                                     *)

(* FlattenSeq is defined for every list of lists. *)
LEMMA FlattensExist ==
    ASSUME NEW ss, NEW n \in Nat
    PROVE  \E f : f = [i \in 1..n |-> IF i = 1 THEN ss[i] ELSE f[i - 1] \o ss[i]]
<1> DEFINE Is(f, m) == f = [i \in 1..m |-> IF i = 1 THEN ss[i] ELSE f[i - 1] \o ss[i]]
           T == {m \in Nat : ~ \E f : Is(f, m)}
<1> SUFFICES ASSUME T # {}
             PROVE  FALSE
  OBVIOUS
<1>1. PICK m \in T : \A k \in T : m <= k
  BY LeastNat
<1>2. CASE m = 0
  <2> DEFINE f == [i \in 1..0 |-> ss[i]]
  <2>1. 1..0 = {}
    OBVIOUS
  <2>2. Is(f, 0)
    BY <2>1
  <2> QED
    BY <1>2, <2>2
<1>3. CASE m # 0
  <2>1. PICK h : Is(h, m - 1)
    <3>1. m \in Nat /\ m - 1 \in Nat /\ ~(m <= m - 1)
      BY <1>3
    <3>2. m - 1 \notin T
      <4> HIDE DEF T
      <4> QED
        BY <1>1, <3>1
    <3> QED
      BY <3>1, <3>2
  <2>2. /\ m \in Nat \ {0}
        /\ h = [i \in 1..(m - 1) |-> IF i = 1 THEN ss[i] ELSE h[i - 1] \o ss[i]]
    BY <1>3, <2>1
  <2> HIDE DEF T, Is
  <2> DEFINE f == [i \in 1..m |-> IF i < m THEN h[i]
                                  ELSE IF i = 1 THEN ss[i] ELSE h[i - 1] \o ss[i]]
  <2>3. ASSUME NEW i \in 1..m
        PROVE  f[i] = IF i = 1 THEN ss[i] ELSE f[i - 1] \o ss[i]
    <3>1. i \in Nat /\ (i # 1 => i - 1 \in 1..m /\ i - 1 < m)
      BY <2>2
    <3>2. i # 1 => f[i - 1] = h[i - 1]
      BY <3>1
    <3>3. CASE i < m
      <4>1. f[i] = h[i] /\ i \in 1..(m - 1)
        BY <2>2, <3>3
      <4> HIDE DEF f
      <4> QED
        BY <2>2, <3>2, <4>1
    <3>4. CASE ~(i < m)
      <4>1. f[i] = IF i = 1 THEN ss[i] ELSE h[i - 1] \o ss[i]
        BY <3>4
      <4> HIDE DEF f
      <4> QED
        BY <3>2, <4>1
    <3> QED
      BY <3>3, <3>4
  <2>4. f = [i \in 1..m |-> f[i]]
    OBVIOUS
  <2>5. Is(f, m)
    <3> HIDE DEF f
    <3> QED
      BY <2>3, <2>4 DEF Is
  <2> QED
    BY <2>5 DEF T
<1> QED
  BY <1>2, <1>3

(* Lists of a kind that is closed under \o, flattened, are of this kind. *)
LEMMA FlattenClosed ==
    ASSUME NEW S, \A a, b \in S : a \o b \in S,
           NEW n \in Nat \ {0}, NEW ss, ss = [i \in 1..n |-> ss[i]],
           \A i \in 1..n : ss[i] \in S
    PROVE  FlattenSeq(ss) \in S
<1> DEFINE f == CHOOSE flatten : flatten =
                    [i \in 1..Len(ss) |-> IF i = 1 THEN ss[i] ELSE flatten[i - 1] \o ss[i]]
           T == {m \in Nat : m \in 1..n /\ f[m] \notin S}
<1>1. Len(ss) = n
  OBVIOUS
<1>2. FlattenSeq(ss) = f[n]
  BY <1>1 DEF FlattenSeq
<1>3. f = [i \in 1..Len(ss) |-> IF i = 1 THEN ss[i] ELSE f[i - 1] \o ss[i]]
  BY <1>1, FlattensExist
<1> HIDE DEF f
<1>4. CASE T = {}
  BY <1>2, <1>4
<1>5. CASE T # {}
  <2>1. PICK m \in T : \A k \in T : m <= k
    BY <1>5, LeastNat
  <2>2. m \in 1..n /\ f[m] \notin S
    OBVIOUS
  <2>3. CASE m = 1
    BY <1>1, <1>3, <2>2, <2>3
  <2>4. CASE m # 1
    <3>1. m - 1 \in 1..n /\ m - 1 \in Nat /\ ~(m <= m - 1)
      BY <2>2, <2>4
    <3>2. f[m - 1] \in S
      BY <2>1, <3>1
    <3>3. f[m] = f[m - 1] \o ss[m]
      BY <1>1, <1>3, <2>2, <2>4
    <3> QED
      BY <2>2, <3>2, <3>3
  <2> QED
    BY <2>3, <2>4
<1> QED
  BY <1>4, <1>5

(* What holds of a step of a list holds of it in a longer list. *)
LEMMA Embedded ==
    ASSUME NEW b \in Seq(StepRecs), NEW s \in Seq(StepRecs), NEW k \in Nat,
           k + Len(b) <= Len(s), \A j \in 1..Len(b) : s[k + j] = b[j],
           NEW i \in 1..Len(b)
    PROVE  /\ Prepared(b, i) => Prepared(s, k + i)
           /\ Booted(b, i) => Booted(s, k + i)
<1>0. Len(b) \in Nat /\ Len(s) \in Nat /\ i \in Nat /\ s[k + i] = b[i]
  OBVIOUS
<1>1. i > 1 => s[(k + i) - 1] = b[i - 1]
  <2>1. i > 1 => i - 1 \in 1..Len(b) /\ k + (i - 1) = (k + i) - 1
    OBVIOUS
  <2>2. i > 1 => s[k + (i - 1)] = b[i - 1]
    BY <2>1
  <2> QED
    BY <2>1, <2>2
<1>2. Prepared(b, i) => Prepared(s, k + i)
  BY <1>0, <1>1 DEF Prepared
<1>3. ASSUME Booted(b, i) PROVE Booted(s, k + i)
  <2>1. PICK g \in 1..(i - 1) : \E r \in (g + 1)..(i - 1) :
        /\ b[g].op = "grub" /\ Options(b[g]) = Options(b[i]) /\ b[r].op = "reboot"
        /\ \A j \in (g + 1)..(i - 1) : ~Configures(b[j])
        /\ b[i].exp \in {"E", "F"} =>
               \E m \in 1..(g - 1) : b[m].op = "module" /\ Options(b[m]) = Options(b[i])
    BY <1>3 DEF Booted
  <2>2. PICK r \in (g + 1)..(i - 1) :
        /\ b[g].op = "grub" /\ Options(b[g]) = Options(b[i]) /\ b[r].op = "reboot"
        /\ \A j \in (g + 1)..(i - 1) : ~Configures(b[j])
        /\ b[i].exp \in {"E", "F"} =>
               \E m \in 1..(g - 1) : b[m].op = "module" /\ Options(b[m]) = Options(b[i])
    BY <2>1
  <2>3. /\ k + g \in 1..((k + i) - 1) /\ k + r \in ((k + g) + 1)..((k + i) - 1)
        /\ s[k + g] = b[g] /\ s[k + r] = b[r]
    BY <1>0
  <2>4. ASSUME NEW j \in ((k + g) + 1)..((k + i) - 1)
        PROVE  ~Configures(s[j])
    <3>1. j - k \in (g + 1)..(i - 1) /\ j - k \in 1..Len(b) /\ k + (j - k) = j
      BY <1>0
    <3>2. s[j] = b[j - k]
      BY <3>1
    <3> QED
      BY <2>2, <3>1, <3>2
  <2>5. ASSUME s[k + i].exp \in {"E", "F"}
        PROVE  \E m \in 1..((k + g) - 1) : s[m].op = "module" /\ Options(s[m]) = Options(s[k + i])
    <3>1. PICK m \in 1..(g - 1) : b[m].op = "module" /\ Options(b[m]) = Options(b[i])
      BY <1>0, <2>2, <2>5
    <3>2. k + m \in 1..((k + g) - 1) /\ s[k + m] = b[m]
      BY <1>0
    <3> QED
      BY <1>0, <3>1, <3>2
  <2>6. /\ s[k + g].op = "grub" /\ Options(s[k + g]) = Options(s[k + i])
        /\ s[k + r].op = "reboot"
    BY <1>0, <2>2, <2>3
  <2> QED
    BY <2>3, <2>4, <2>5, <2>6 DEF Booted
<1> QED
  BY <1>2, <1>3

(* The steps of a list made of two lists. *)
LEMMA Joined ==
    ASSUME NEW a \in Seq(StepRecs), NEW b \in Seq(StepRecs)
    PROVE  /\ a \o b \in Seq(StepRecs) /\ Len(a) \in Nat /\ Len(b) \in Nat
           /\ Len(a \o b) = Len(a) + Len(b)
           /\ \A j \in 1..Len(a) : (a \o b)[0 + j] = a[j]
           /\ \A j \in 1..Len(b) : (a \o b)[Len(a) + j] = b[j]
           /\ \A i \in DOMAIN (a \o b) :
                 \/ i \in 1..Len(a)
                 \/ i - Len(a) \in 1..Len(b) /\ Len(a) + (i - Len(a)) = i
OBVIOUS

(* One list of steps may follow another. *)
LEMMA PlainJoined ==
    ASSUME NEW a \in Plain, NEW b \in Plain
    PROVE  a \o b \in Plain
<1>1. a \in Seq(StepRecs) /\ b \in Seq(StepRecs) /\ WellOrdered(a) /\ WellOrdered(b)
  BY DEF Plain
<1> DEFINE s == a \o b
<1>2. /\ s \in Seq(StepRecs) /\ Len(a) \in Nat /\ Len(b) \in Nat /\ Len(s) = Len(a) + Len(b)
      /\ \A j \in 1..Len(a) : s[0 + j] = a[j]
      /\ \A j \in 1..Len(b) : s[Len(a) + j] = b[j]
      /\ \A i \in DOMAIN s : \/ i \in 1..Len(a)
                             \/ i - Len(a) \in 1..Len(b) /\ Len(a) + (i - Len(a)) = i
  BY <1>1, Joined
<1> HIDE DEF s
<1>3. ASSUME NEW i \in DOMAIN s
      PROVE  /\ Prepared(s, i)
             /\ s[i].op = "start" /\ s[i].exp \notin {"A", "B", "K"} => Booted(s, i)
  <2>1. CASE i \in 1..Len(a)
    <3>1. 0 + i = i /\ 0 + Len(a) <= Len(s) /\ s[i] = a[i] /\ i \in DOMAIN a
      BY <1>1, <1>2, <2>1
    <3>2. (Prepared(a, i) => Prepared(s, 0 + i)) /\ (Booted(a, i) => Booted(s, 0 + i))
      BY <1>1, <1>2, <2>1, <3>1, Embedded
    <3> QED
      BY <1>1, <3>1, <3>2 DEF WellOrdered
  <2>2. CASE i - Len(a) \in 1..Len(b) /\ Len(a) + (i - Len(a)) = i
    <3> DEFINE c == i - Len(a)
    <3>1. c \in 1..Len(b) /\ Len(a) + c = i /\ s[i] = b[c] /\ c \in DOMAIN b
      BY <1>1, <1>2, <2>2
    <3> HIDE DEF c
    <3>2. Len(a) + Len(b) <= Len(s)
      BY <1>2
    <3>3. (Prepared(b, c) => Prepared(s, Len(a) + c)) /\ (Booted(b, c) => Booted(s, Len(a) + c))
      BY <1>1, <1>2, <3>1, <3>2, Embedded
    <3> QED
      BY <1>1, <3>1, <3>3 DEF WellOrdered
  <2> QED
    BY <1>2, <2>1, <2>2
<1> QED
  BY <1>2, <1>3 DEF WellOrdered, Plain, s

(* The runs of one configuration, each after a reboot. *)
RunsOf(e, v) ==
    {s \in Seq(StepRecs) : \A i \in DOMAIN s :
        /\ Prepared(s, i) /\ ~Configures(s[i])
        /\ s[i].op = "start" =>
              /\ Options(s[i]) = [exp |-> e, val |-> v]
              /\ \E r \in 1..(i - 1) : s[r].op = "reboot"}

(* One run of a configuration may follow another. *)
LEMMA RunsJoined ==
    ASSUME NEW e, NEW v, NEW a \in RunsOf(e, v), NEW b \in RunsOf(e, v)
    PROVE  a \o b \in RunsOf(e, v)
<1>1. a \in Seq(StepRecs) /\ b \in Seq(StepRecs)
  BY DEF RunsOf
<1> DEFINE s == a \o b
<1>2. /\ s \in Seq(StepRecs) /\ Len(a) \in Nat /\ Len(b) \in Nat /\ Len(s) = Len(a) + Len(b)
      /\ \A j \in 1..Len(a) : s[0 + j] = a[j]
      /\ \A j \in 1..Len(b) : s[Len(a) + j] = b[j]
      /\ \A i \in DOMAIN s : \/ i \in 1..Len(a)
                             \/ i - Len(a) \in 1..Len(b) /\ Len(a) + (i - Len(a)) = i
  BY <1>1, Joined
<1> HIDE DEF s
<1>3. ASSUME NEW i \in DOMAIN s
      PROVE  /\ Prepared(s, i) /\ ~Configures(s[i])
             /\ s[i].op = "start" =>
                  /\ Options(s[i]) = [exp |-> e, val |-> v]
                  /\ \E r \in 1..(i - 1) : s[r].op = "reboot"
  <2>1. CASE i \in 1..Len(a)
    <3>1. 0 + i = i /\ 0 + Len(a) <= Len(s) /\ s[i] = a[i] /\ i \in DOMAIN a
      BY <1>1, <1>2, <2>1
    <3>2. Prepared(a, i) => Prepared(s, 0 + i)
      BY <1>1, <1>2, <2>1, <3>1, Embedded
    <3>3. /\ Prepared(a, i) /\ ~Configures(a[i])
          /\ a[i].op = "start" =>
               /\ Options(a[i]) = [exp |-> e, val |-> v]
               /\ \E r \in 1..(i - 1) : a[r].op = "reboot"
      BY <3>1 DEF RunsOf
    <3>4. \A r \in 1..(i - 1) : r \in 1..Len(a) /\ s[r] = a[r]
      BY <1>2, <2>1
    <3> QED
      BY <3>1, <3>2, <3>3, <3>4
  <2>2. CASE i - Len(a) \in 1..Len(b) /\ Len(a) + (i - Len(a)) = i
    <3> DEFINE c == i - Len(a)
    <3>1. c \in 1..Len(b) /\ Len(a) + c = i /\ s[i] = b[c] /\ c \in DOMAIN b
      BY <1>1, <1>2, <2>2
    <3> HIDE DEF c
    <3>2. Len(a) + Len(b) <= Len(s)
      BY <1>2
    <3>3. Prepared(b, c) => Prepared(s, Len(a) + c)
      BY <1>1, <1>2, <3>1, <3>2, Embedded
    <3>4. /\ Prepared(b, c) /\ ~Configures(b[c])
          /\ b[c].op = "start" =>
               /\ Options(b[c]) = [exp |-> e, val |-> v]
               /\ \E r \in 1..(c - 1) : b[r].op = "reboot"
      BY <3>1 DEF RunsOf
    <3>5. \A r \in 1..(c - 1) : Len(a) + r \in 1..(i - 1) /\ s[Len(a) + r] = b[r]
      BY <1>2, <3>1
    <3> QED
      BY <3>1, <3>3, <3>4, <3>5
  <2> QED
    BY <1>2, <2>1, <2>2
<1> QED
  BY <1>2, <1>3 DEF RunsOf, s

(* A step is a record of the list. *)
LEMMA StepType ==
    ASSUME NEW op \in StepOps, NEW e \in Experiments \cup {"none"}, NEW v \in Nat,
           NEW j \in Nat
    PROVE  Do(op, e, v, j) \in StepRecs
BY DEF Do, StepRecs

(* A reboot and a run of a configuration. *)
LEMMA RebootAndRun ==
    ASSUME NEW e \in Experiments \ {"K"}, NEW v \in Nat, NEW j \in Nat
    PROVE  Reboot \o RunAndSync(e, v, j) \in RunsOf(e, v)
<1> DEFINE s == Reboot \o RunAndSync(e, v, j)
<1> DEFINE t == RunAndSync(e, v, j)
<1>1. /\ t \in Seq(StepRecs) /\ Len(t) = 3
      /\ t[1] = Do("limits", e, v, j) /\ t[2] = Do("start", e, v, j) /\ t[3] = Do("sync", e, v, j)
  <2>1. \A op \in {"limits", "start", "sync"} : Do(op, e, v, j) \in StepRecs
    BY StepType DEF StepOps
  <2> QED
    BY <2>1 DEF RunAndSync
<1> HIDE DEF t
<1>2. Reboot \in Seq(StepRecs) /\ Len(Reboot) = 1 /\ Reboot[1] = Do("reboot", "none", 0, 0)
  <2>1. Do("reboot", "none", 0, 0) \in StepRecs
    BY StepType DEF StepOps
  <2> QED
    BY <2>1 DEF Reboot
<1>3. /\ s \in Seq(StepRecs) /\ DOMAIN s = 1..4
      /\ s[1] = Do("reboot", "none", 0, 0) /\ s[2] = Do("limits", e, v, j)
      /\ s[3] = Do("start", e, v, j) /\ s[4] = Do("sync", e, v, j)
  <2>1. s = Reboot \o t
    BY DEF t
  <2> HIDE DEF s
  <2>2. /\ s \in Seq(StepRecs) /\ Len(s) = Len(Reboot) + Len(t)
        /\ \A k \in 1..Len(Reboot) : s[0 + k] = Reboot[k]
        /\ \A k \in 1..Len(t) : s[Len(Reboot) + k] = t[k]
    BY <1>1, <1>2, <2>1, Joined
  <2>3. /\ s[0 + 1] = Reboot[1] /\ s[1 + 1] = t[1] /\ s[1 + 2] = t[2]
        /\ s[1 + 3] = t[3]
    BY <1>1, <1>2, <2>2
  <2> QED
    BY <1>1, <1>2, <2>2, <2>3
<1> HIDE DEF s
<1>4. Prepared(s, 1) /\ Prepared(s, 2)
  BY <1>3 DEF Prepared, Do
<1>5. Prepared(s, 3)
  BY <1>3 DEF Prepared, Do, Dir
<1>6. Prepared(s, 4)
  BY <1>3 DEF Prepared, Do, Dir
<1>7. \A i \in 1..4 : ~Configures(s[i]) /\ Prepared(s, i)
  BY <1>3, <1>4, <1>5, <1>6 DEF Configures, Do
<1>8. \A i \in 1..4 : s[i].op = "start" => i = 3
  BY <1>3 DEF Do
<1>9. Options(s[3]) = [exp |-> e, val |-> v] /\ s[1].op = "reboot" /\ 1 \in 1..(3 - 1)
  BY <1>3 DEF Options, Do
<1> QED
  BY <1>3, <1>7, <1>8, <1>9 DEF RunsOf, s

(* The runs of A and B. *)
LEMMA RunThen ==
    ASSUME NEW e \in {"A", "B"}, NEW v \in Nat, NEW j \in Nat
    PROVE  RunAndSync(e, v, j) \in Plain
<1> DEFINE s == RunAndSync(e, v, j)
<1>1. s = <<Do("limits", e, v, j), Do("start", e, v, j), Do("sync", e, v, j)>>
  BY DEF RunAndSync
<1>2. s \in Seq(StepRecs)
  <2>1. \A op \in {"limits", "start", "sync"} : Do(op, e, v, j) \in StepRecs
    BY StepType DEF StepOps, Experiments
  <2> HIDE DEF s
  <2> QED
    BY <1>1, <2>1
<1>3. /\ DOMAIN s = 1..3 /\ s[1] = Do("limits", e, v, j)
      /\ s[2] = Do("start", e, v, j) /\ s[3] = Do("sync", e, v, j)
  BY <1>1
<1> HIDE DEF s
<1>4. Prepared(s, 1)
  BY <1>3 DEF Prepared, Do
<1>5. Prepared(s, 2)
  BY <1>3 DEF Prepared, Do, Dir, Experiments
<1>6. Prepared(s, 3)
  BY <1>3 DEF Prepared, Do, Dir
<1>7. \A i \in 1..3 : Prepared(s, i) /\ s[i].exp \in {"A", "B", "K"}
  BY <1>3, <1>4, <1>5, <1>6 DEF Do
<1> QED
  BY <1>2, <1>3, <1>7 DEF Plain, WellOrdered, s

(* A reboot needs nothing before it. *)
LEMMA RebootPlain ==
    Reboot \in Plain /\ <<>> \in Plain
<1>1. Do("reboot", "none", 0, 0) \in StepRecs
  BY StepType DEF StepOps
<1>2. Reboot \in Seq(StepRecs) /\ DOMAIN Reboot = 1..1 /\ Reboot[1].op = "reboot"
  BY <1>1 DEF Reboot, Do
<1>3. Reboot \in Plain
  BY <1>2 DEF Plain, WellOrdered, Prepared
<1>4. <<>> \in Seq(StepRecs) /\ DOMAIN <<>> = {}
  OBVIOUS
<1> QED
  BY <1>3, <1>4 DEF Plain, WellOrdered

(* The runs of K. *)
LEMMA RunKPlain ==
    ASSUME NEW j \in Nat
    PROVE  <<Do("limits", "K", 1, j), Do("writeback", "K", 1, j),
             Do("start", "K", 1, j), Do("sync", "K", 1, j)>> \in Plain
<1> DEFINE s == <<Do("limits", "K", 1, j), Do("writeback", "K", 1, j),
                  Do("start", "K", 1, j), Do("sync", "K", 1, j)>>
<1>2. s \in Seq(StepRecs)
  <2>1. \A op \in {"limits", "writeback", "start", "sync"} : Do(op, "K", 1, j) \in StepRecs
    BY StepType DEF StepOps, Experiments
  <2> QED
    BY <2>1
<1>3. /\ DOMAIN s = 1..4 /\ s[1] = Do("limits", "K", 1, j) /\ s[2] = Do("writeback", "K", 1, j)
      /\ s[3] = Do("start", "K", 1, j) /\ s[4] = Do("sync", "K", 1, j)
  OBVIOUS
<1> HIDE DEF s
<1>4. Prepared(s, 1)
  BY <1>3 DEF Prepared, Do
<1>5. Prepared(s, 2)
  BY <1>3 DEF Prepared, Do, Dir
<1>6. Prepared(s, 3)
  BY <1>3 DEF Prepared, Do, Dir, Experiments
<1>7. Prepared(s, 4)
  BY <1>3 DEF Prepared, Do, Dir
<1>8. \A i \in 1..4 : Prepared(s, i) /\ s[i].exp \in {"A", "B", "K"}
  BY <1>3, <1>4, <1>5, <1>6, <1>7 DEF Do
<1> QED
  BY <1>2, <1>3, <1>8 DEF Plain, WellOrdered, s

(* All runs of a configuration. *)
LEMMA AllRuns ==
    ASSUME NEW e \in Experiments \ {"K"}, NEW v \in Nat
    PROVE  ForEach(Iterations, LAMBDA j : Reboot \o RunAndSync(e, v, j)) \in RunsOf(e, v)
<1> DEFINE ss == [i \in 1..Iterations |-> Reboot \o RunAndSync(e, v, i)]
<1>1. \A i \in 1..Iterations : ss[i] \in RunsOf(e, v)
  BY RebootAndRun, RemoteAssumption
<1>2. ss = [i \in 1..Iterations |-> ss[i]] /\ Iterations \in Nat \ {0}
  BY RemoteAssumption
<1>3. \A a, b \in RunsOf(e, v) : a \o b \in RunsOf(e, v)
  BY RunsJoined
<1>4. ForEach(Iterations, LAMBDA j : Reboot \o RunAndSync(e, v, j)) = FlattenSeq(ss)
  BY DEF ForEach
<1> HIDE DEF ss
<1>5. FlattenSeq(ss) \in RunsOf(e, v)
  BY <1>1, <1>2, <1>3, FlattenClosed
<1> QED
  BY <1>4, <1>5

(* The options, perhaps with their module, and then the runs with them. *)
LEMMA Varied ==
    ASSUME NEW e \in Experiments, NEW v, NEW c \in RunsOf(e, v),
           NEW s \in Seq(StepRecs), NEW k \in 1..2, Len(s) = k + Len(c),
           \A j \in 1..Len(c) : s[k + j] = c[j],
           s[k] = Do("grub", e, v, 0),
           k = 2 => s[1] = Do("module", e, v, 0),
           e \in {"E", "F"} => k = 2
    PROVE  s \in Plain
<1>1. c \in Seq(StepRecs) /\ Len(c) \in Nat /\ k \in Nat
  BY DEF RunsOf
<1>2. ASSUME NEW i \in 1..k
      PROVE  Prepared(s, i) /\ s[i].op # "start"
  <2>1. s[i] = Do("grub", e, v, 0) \/ s[i] = Do("module", e, v, 0)
    OBVIOUS
  <2> QED
    BY <2>1 DEF Prepared, Do
<1>3. ASSUME NEW i \in 1..Len(c)
      PROVE  /\ Prepared(s, k + i)
             /\ s[k + i].op = "start" => Booted(s, k + i)
  <2>1. /\ Prepared(c, i) /\ ~Configures(c[i])
        /\ c[i].op = "start" =>
              /\ Options(c[i]) = [exp |-> e, val |-> v]
              /\ \E r \in 1..(i - 1) : c[r].op = "reboot"
    BY <1>1 DEF RunsOf
  <2>2. Prepared(s, k + i)
    BY <1>1, <2>1, Embedded
  <2>3. ASSUME s[k + i].op = "start" PROVE Booted(s, k + i)
    <3>1. s[k + i] = c[i]
      OBVIOUS
    <3>2. PICK r \in 1..(i - 1) : c[r].op = "reboot"
      BY <2>1, <2>3, <3>1
    <3>3. /\ k \in 1..((k + i) - 1) /\ k + r \in (k + 1)..((k + i) - 1)
          /\ s[k + r].op = "reboot"
      BY <1>1, <3>2
    <3>4. ASSUME NEW j \in (k + 1)..((k + i) - 1)
          PROVE  ~Configures(s[j])
      <4>1. j - k \in 1..Len(c) /\ k + (j - k) = j
        BY <1>1
      <4>2. s[j] = c[j - k]
        BY <4>1
      <4> QED
        BY <1>1, <4>1, <4>2 DEF RunsOf
    <3>5. s[k].op = "grub" /\ Options(s[k]) = Options(s[k + i])
      BY <2>1, <2>3, <3>1 DEF Options, Do
    <3>6. ASSUME s[k + i].exp \in {"E", "F"}
          PROVE  \E m \in 1..(k - 1) : s[m].op = "module" /\ Options(s[m]) = Options(s[k + i])
      <4>1. Options(s[k + i]).exp = s[k + i].exp /\ Options(s[k + i]) = [exp |-> e, val |-> v]
        BY <2>1, <2>3, <3>1 DEF Options
      <4>2. k = 2
        BY <3>6, <4>1
      <4>3. s[1].op = "module" /\ Options(s[1]) = Options(s[k + i]) /\ 1 \in 1..(k - 1)
        BY <4>1, <4>2 DEF Options, Do
      <4> QED
        BY <4>3
    <3> QED
      BY <3>3, <3>4, <3>5, <3>6 DEF Booted
  <2> QED
    BY <2>2, <2>3
<1>4. ASSUME NEW i \in DOMAIN s
      PROVE  i \in 1..k \/ (i - k \in 1..Len(c) /\ k + (i - k) = i)
  BY <1>1
<1>5. ASSUME NEW i \in DOMAIN s
      PROVE  Prepared(s, i) /\ (s[i].op = "start" => Booted(s, i))
  <2>1. CASE i \in 1..k
    BY <1>2, <2>1
  <2>2. CASE i - k \in 1..Len(c) /\ k + (i - k) = i
    <3> DEFINE m == i - k
    <3>1. m \in 1..Len(c) /\ k + m = i
      BY <2>2
    <3> HIDE DEF m
    <3> QED
      BY <1>3, <3>1
  <2> QED
    BY <1>4, <2>1, <2>2
<1> QED
  BY <1>5 DEF Plain, WellOrdered

(* vary_grub of an experiment without a module. *)
LEMMA VaryGrubPlain ==
    ASSUME NEW e \in Experiments \ {"E", "F", "K"}, NEW v \in Nat
    PROVE  VaryGrub(e, v) \in Plain
<1> DEFINE c == ForEach(Iterations, LAMBDA j : Reboot \o RunAndSync(e, v, j))
           g == <<Do("grub", e, v, 0)>>
<1>1. c \in RunsOf(e, v) /\ VaryGrub(e, v) = g \o c
  BY AllRuns DEF VaryGrub
<1>2. c \in Seq(StepRecs)
  BY <1>1 DEF RunsOf
<1>3. g \in Seq(StepRecs) /\ Len(g) = 1 /\ g[1] = Do("grub", e, v, 0)
  <2>1. Do("grub", e, v, 0) \in StepRecs
    BY StepType DEF StepOps
  <2> QED
    BY <2>1
<1> HIDE DEF c, g
<1>4. /\ g \o c \in Seq(StepRecs) /\ Len(g \o c) = 1 + Len(c)
      /\ \A j \in 1..Len(c) : (g \o c)[1 + j] = c[j]
      /\ (g \o c)[1] = Do("grub", e, v, 0)
  BY <1>2, <1>3, Joined
<1>5. 1 \in 1..2 /\ e \notin {"E", "F"} /\ ~(1 = 2)
  OBVIOUS
<1> QED
  BY <1>1, <1>4, <1>5, Varied

(* vary_module. *)
LEMMA VaryModulePlain ==
    ASSUME NEW e \in Experiments \ {"K"}, NEW v \in Nat
    PROVE  VaryModule(e, v) \in Plain
<1> DEFINE c == ForEach(Iterations, LAMBDA j : Reboot \o RunAndSync(e, v, j))
           g == <<Do("grub", e, v, 0)>>
           m == <<Do("module", e, v, 0)>>
           s == m \o (g \o c)
<1>1. c \in RunsOf(e, v) /\ VaryModule(e, v) = s
  BY AllRuns DEF VaryGrub, VaryModule
<1>2. c \in Seq(StepRecs)
  BY <1>1 DEF RunsOf
<1>3. g \in Seq(StepRecs) /\ Len(g) = 1 /\ g[1] = Do("grub", e, v, 0)
  <2>1. Do("grub", e, v, 0) \in StepRecs
    BY StepType DEF StepOps
  <2> QED
    BY <2>1
<1>4. m \in Seq(StepRecs) /\ Len(m) = 1 /\ m[1] = Do("module", e, v, 0)
  <2>1. Do("module", e, v, 0) \in StepRecs
    BY StepType DEF StepOps
  <2> QED
    BY <2>1
<1> HIDE DEF c, g, m
<1>5. /\ g \o c \in Seq(StepRecs) /\ Len(g \o c) = 1 + Len(c) /\ Len(c) \in Nat
      /\ \A j \in 1..Len(c) : (g \o c)[1 + j] = c[j]
      /\ (g \o c)[1] = Do("grub", e, v, 0)
  BY <1>2, <1>3, Joined
<1>6. /\ s \in Seq(StepRecs) /\ Len(s) = 1 + Len(g \o c)
      /\ \A j \in 1..Len(g \o c) : s[1 + j] = (g \o c)[j]
      /\ s[1] = Do("module", e, v, 0)
  BY <1>4, <1>5, Joined
<1> HIDE DEF s
<1>7. Len(s) = 2 + Len(c)
  BY <1>5, <1>6
<1>8. ASSUME NEW j \in 1..Len(c) PROVE s[2 + j] = c[j]
  <2>1. 1 + j \in 1..Len(g \o c) /\ 1 + (1 + j) = 2 + j
    BY <1>5
  <2>2. s[1 + (1 + j)] = (g \o c)[1 + j]
    BY <1>6, <2>1
  <2> QED
    BY <1>5, <2>1, <2>2
<1>9. s[2] = Do("grub", e, v, 0)
  <2>1. 1 \in 1..Len(g \o c) /\ 1 + 1 = 2
    BY <1>5
  <2> QED
    BY <1>5, <1>6, <2>1
<1> QED
  BY <1>1, <1>6, <1>7, <1>8, <1>9, Varied

(* One plain list for each of n values is a plain list. *)
LEMMA EachPlain ==
    ASSUME NEW n \in Nat \ {0}, NEW ss, ss = [i \in 1..n |-> ss[i]],
           \A i \in 1..n : ss[i] \in Plain
    PROVE  FlattenSeq(ss) \in Plain
<1>1. \A a, b \in Plain : a \o b \in Plain
  BY PlainJoined
<1> QED
  BY <1>1, FlattenClosed

(* run_c to run_f. *)
LEMMA RunEachPlain ==
    /\ \A e \in {"C", "D"} : ForEach(Values, LAMBDA v : VaryGrub(e, v)) \in Plain
    /\ \A e \in {"E", "F"} : ForEach(Values, LAMBDA v : VaryModule(e, v)) \in Plain
<1>1. ASSUME NEW e \in {"C", "D"}
      PROVE  ForEach(Values, LAMBDA v : VaryGrub(e, v)) \in Plain
  <2> DEFINE ss == [i \in 1..Values |-> VaryGrub(e, i)]
  <2>1. e \in Experiments \ {"E", "F", "K"}
    BY DEF Experiments
  <2>2. \A i \in 1..Values : i \in Nat /\ ss[i] \in Plain
    BY <2>1, VaryGrubPlain, RemoteAssumption
  <2>3. ss = [i \in 1..Values |-> ss[i]] /\ Values \in Nat \ {0}
    BY RemoteAssumption
  <2>4. ForEach(Values, LAMBDA v : VaryGrub(e, v)) = FlattenSeq(ss)
    BY DEF ForEach
  <2> HIDE DEF ss
  <2> QED
    BY <2>2, <2>3, <2>4, EachPlain
<1>2. ASSUME NEW e \in {"E", "F"}
      PROVE  ForEach(Values, LAMBDA v : VaryModule(e, v)) \in Plain
  <2> DEFINE ss == [i \in 1..Values |-> VaryModule(e, i)]
  <2>1. e \in Experiments \ {"K"}
    BY DEF Experiments
  <2>2. \A i \in 1..Values : i \in Nat /\ ss[i] \in Plain
    BY <2>1, VaryModulePlain, RemoteAssumption
  <2>3. ss = [i \in 1..Values |-> ss[i]] /\ Values \in Nat \ {0}
    BY RemoteAssumption
  <2>4. ForEach(Values, LAMBDA v : VaryModule(e, v)) = FlattenSeq(ss)
    BY DEF ForEach
  <2> HIDE DEF ss
  <2> QED
    BY <2>2, <2>3, <2>4, EachPlain
<1> QED
  BY <1>1, <1>2

(* Every experiment is a list in which each run is prepared, and booted   *)
(* with the options it is labelled with.                                   *)
LEMMA StepsPlain ==
    ASSUME NEW x \in Experiments
    PROVE  StepsOf[x] \in Plain
<1>1. RunA \in Plain
  <2> DEFINE ss == [i \in 1..Iterations |-> RunAndSync("A", 1, i) \o UnlessLast(i)]
  <2>1. \A i \in 1..Iterations : ss[i] \in Plain
    BY RunThen, RebootPlain, PlainJoined, RemoteAssumption DEF UnlessLast
  <2>2. ss = [i \in 1..Iterations |-> ss[i]] /\ Iterations \in Nat \ {0}
    BY RemoteAssumption
  <2>3. RunA = FlattenSeq(ss)
    BY DEF RunA, ForEach
  <2> HIDE DEF ss
  <2> QED
    BY <2>1, <2>2, <2>3, EachPlain
<1>2. RunB \in Plain
  <2> DEFINE in(v) == [i \in 1..Iterations |-> RunAndSync("B", v, i) \o Reboot]
             ss == [v \in 1..Values |-> FlattenSeq(in(v))]
  <2>1. ASSUME NEW v \in 1..Values
        PROVE  ss[v] \in Plain
    <3>1. \A i \in 1..Iterations : in(v)[i] \in Plain
      BY RunThen, RebootPlain, PlainJoined, RemoteAssumption
    <3>2. in(v) = [i \in 1..Iterations |-> in(v)[i]] /\ Iterations \in Nat \ {0}
      BY RemoteAssumption
    <3>3. ss[v] = FlattenSeq(in(v))
      OBVIOUS
    <3> HIDE DEF in, ss
    <3> QED
      BY <3>1, <3>2, <3>3, EachPlain
  <2>2. ss = [v \in 1..Values |-> ss[v]] /\ Values \in Nat \ {0}
    BY RemoteAssumption
  <2>3. RunB = FlattenSeq(ss)
    BY DEF RunB, ForEach
  <2> HIDE DEF ss
  <2> QED
    BY <2>1, <2>2, <2>3, EachPlain
<1>3. RunK \in Plain
  <2> DEFINE k(j) == <<Do("limits", "K", 1, j), Do("writeback", "K", 1, j),
                       Do("start", "K", 1, j), Do("sync", "K", 1, j)>>
             ss == [i \in 1..Iterations |-> k(i) \o UnlessLast(i)]
  <2>1. ASSUME NEW i \in 1..Iterations PROVE ss[i] \in Plain
    <3>1. k(i) \in Plain /\ UnlessLast(i) \in Plain
      BY RunKPlain, RebootPlain, RemoteAssumption DEF UnlessLast
    <3>2. ss[i] = k(i) \o UnlessLast(i)
      OBVIOUS
    <3> HIDE DEF k, ss
    <3> QED
      BY <3>1, <3>2, PlainJoined
  <2>2. ss = [i \in 1..Iterations |-> ss[i]] /\ Iterations \in Nat \ {0}
    BY RemoteAssumption
  <2>3. RunK = FlattenSeq(ss)
    BY DEF RunK, ForEach
  <2> HIDE DEF ss
  <2> QED
    BY <2>1, <2>2, <2>3, EachPlain
<1>4. RunC \in Plain /\ RunD \in Plain /\ RunE \in Plain /\ RunF \in Plain
  BY RunEachPlain DEF RunC, RunD, RunE, RunF
<1>5. RunG \in Plain /\ RunH \in Plain /\ RunI \in Plain /\ RunJ \in Plain
  BY VaryGrubPlain DEF RunG, RunH, RunI, RunJ, Experiments
<1> QED
  BY <1>1, <1>2, <1>3, <1>4, <1>5 DEF StepsOf, Experiments

-----------------------------------------------------------------------------
(* The runner keeps the invariant.                                         *)

(* The step at the head of the list, and the list without it. *)
LEMMA Advance ==
    ASSUME NEW all, NEW n, Rest(all, n), steps # <<>>
    PROVE  /\ n \in Nat /\ Len(all) \in Nat /\ n + 1 \in 1..Len(all)
           /\ Head(steps) = all[n + 1] /\ Prepared(all, n + 1)
           /\ (all[n + 1].op = "start" /\ all[n + 1].exp \notin {"A", "B", "K"} =>
                  Booted(all, n + 1))
           /\ (steps' = Tail(steps) => Rest(all, n + 1)')
<1>1. /\ all \in Plain /\ all \in Seq(StepRecs) /\ WellOrdered(all) /\ steps \in Seq(StepRecs)
      /\ n \in 0..Len(all) /\ Len(steps) = Len(all) - n
      /\ \A i \in 1..Len(steps) : steps[i] = all[n + i]
  BY DEF Rest, Plain
<1>2. Len(all) \in Nat /\ n \in Nat /\ Len(steps) \in Nat /\ Len(steps) # 0
  BY <1>1
<1>3. n + 1 \in 1..Len(all) /\ n + 1 \in DOMAIN all
  BY <1>1, <1>2
<1>4. Head(steps) = all[n + 1]
  BY <1>1, <1>2
<1>5. /\ Prepared(all, n + 1)
      /\ (all[n + 1].op = "start" /\ all[n + 1].exp \notin {"A", "B", "K"} =>
             Booted(all, n + 1))
  BY <1>1, <1>3 DEF WellOrdered
<1>6. ASSUME steps' = Tail(steps) PROVE Rest(all, n + 1)'
  <2>1. /\ steps' \in Seq(StepRecs) /\ Len(steps') = Len(steps) - 1
        /\ \A i \in 1..Len(steps') : steps'[i] = steps[i + 1]
    BY <1>1, <1>2, <1>6
  <2>2. ASSUME NEW i \in 1..Len(steps') PROVE steps'[i] = all[(n + 1) + i]
    <3>1. i + 1 \in 1..Len(steps) /\ n + (i + 1) = (n + 1) + i
      BY <1>2, <2>1
    <3> QED
      BY <1>1, <2>1, <3>1
  <2>3. Len(steps') = Len(all) - (n + 1)
    BY <1>1, <1>2, <2>1
  <2> QED
    BY <1>1, <1>2, <1>3, <2>1, <2>2, <2>3 DEF Rest
<1> QED
  BY <1>2, <1>3, <1>4, <1>5, <1>6

(* One more step that is done: the boot options and the modules. *)
LEMMA ConfiguredNext ==
    ASSUME NEW all, NEW n \in Nat, Configured(all, n),
           grub' = IF all[n + 1].op = "grub" THEN Options(all[n + 1]) ELSE grub,
           modules \subseteq modules',
           all[n + 1].op = "module" => Options(all[n + 1]) \in modules'
    PROVE  Configured(all, n + 1)'
<1>1. ASSUME NEW g \in 1..(n + 1), all[g].op = "grub",
             \A j \in (g + 1)..(n + 1) : all[j].op # "grub"
      PROVE  grub' = Options(all[g])
  <2>1. CASE g = n + 1
    BY <1>1, <2>1
  <2>2. CASE g # n + 1
    <3>1. g \in 1..n /\ n + 1 \in (g + 1)..(n + 1)
      BY <2>2
    <3>2. all[n + 1].op # "grub" /\ \A j \in (g + 1)..n : all[j].op # "grub"
      BY <1>1, <3>1
    <3> QED
      BY <1>1, <3>1, <3>2 DEF Configured
  <2> QED
    BY <2>1, <2>2
<1>2. ASSUME NEW m \in 1..(n + 1), all[m].op = "module"
      PROVE  Options(all[m]) \in modules'
  <2>1. m \in 1..n \/ m = n + 1
    OBVIOUS
  <2> QED
    BY <1>2, <2>1 DEF Configured
<1> QED
  BY <1>1, <1>2 DEF Configured

(* After one more step the last boot is still that of the configuration,  *)
(* unless the step is a reboot.                                            *)
LEMMA BootsNext ==
    ASSUME NEW all, NEW n \in Nat, Boots(all, n + 1), all[n + 1].op # "reboot"
    PROVE  Boots(all, n) /\ ~Configures(all[n + 1])
<1>1. PICK r \in 1..(n + 1) :
          all[r].op = "reboot" /\ \A j \in (r + 1)..(n + 1) : ~Configures(all[j])
  BY DEF Boots
<1>2. r \in 1..n
  BY <1>1
<1>3. n + 1 \in (r + 1)..(n + 1) /\ \A j \in (r + 1)..n : j \in (r + 1)..(n + 1)
  BY <1>2
<1> QED
  BY <1>1, <1>2, <1>3 DEF Boots

(* A run that is ready is run under the options it is labelled with. *)
LEMMA OptionsBooted ==
    ASSUME NEW all \in Plain, NEW n \in 1..Len(all), Configured(all, n),
           Boots(all, n) => booted = BootOf,
           all[n].op = "start", all[n].exp \notin {"A", "B", "K"}
    PROVE  booted = Options(all[n])
<1>1. n \in DOMAIN all /\ Booted(all, n) /\ n \in Nat
  BY DEF Plain, WellOrdered
<1>2. PICK g \in 1..(n - 1) : \E r \in (g + 1)..(n - 1) :
        /\ all[g].op = "grub" /\ Options(all[g]) = Options(all[n]) /\ all[r].op = "reboot"
        /\ \A j \in (g + 1)..(n - 1) : ~Configures(all[j])
        /\ all[n].exp \in {"E", "F"} =>
               \E m \in 1..(g - 1) : all[m].op = "module" /\ Options(all[m]) = Options(all[n])
  BY <1>1 DEF Booted
<1>3. PICK r \in (g + 1)..(n - 1) :
        /\ all[g].op = "grub" /\ Options(all[g]) = Options(all[n]) /\ all[r].op = "reboot"
        /\ \A j \in (g + 1)..(n - 1) : ~Configures(all[j])
        /\ all[n].exp \in {"E", "F"} =>
               \E m \in 1..(g - 1) : all[m].op = "module" /\ Options(all[m]) = Options(all[n])
  BY <1>2
<1>4. \A j \in (g + 1)..n : ~Configures(all[j])
  <2>1. \A j \in (g + 1)..n : j = n \/ j \in (g + 1)..(n - 1)
    BY <1>1
  <2>2. ~Configures(all[n])
    BY DEF Configures
  <2> QED
    BY <1>3, <2>1, <2>2
<1>5. g \in 1..n /\ r \in 1..n /\ \A j \in (r + 1)..n : j \in (g + 1)..n
  BY <1>1
<1>6. Boots(all, n)
  BY <1>3, <1>4, <1>5 DEF Boots
<1>7. grub = Options(all[n])
  BY <1>3, <1>4, <1>5 DEF Configured, Configures
<1>8. grub.exp \in {"E", "F"} => grub \in modules
  <2>1. grub.exp = all[n].exp
    BY <1>7 DEF Options
  <2>2. ASSUME all[n].exp \in {"E", "F"} PROVE grub \in modules
    <3>1. PICK m \in 1..(g - 1) : all[m].op = "module" /\ Options(all[m]) = Options(all[n])
      BY <1>3, <2>2
    <3>2. m \in 1..n
      BY <1>1
    <3> QED
      BY <1>7, <3>1, <3>2 DEF Configured
  <2> QED
    BY <2>1, <2>2
<1> QED
  BY <1>6, <1>7, <1>8 DEF BootOf

(* What the runner is in the middle of. *)
Running(all, n) ==
    /\ Rest(all, n) /\ Configured(all, n)
    /\ xpc \in {"next", "tmux", "wait"} /\ ~doubt => Undoubted(all, n) /\ RunningInv

(* The steps that are over and above the head of the list. *)
LEMMA RunInvFrom ==
    ASSUME NEW all, NEW n, Running(all, n)'
    PROVE  RunInv'
BY DEF Running, RunInv, Rest

(* What the runner has done for the step it is at. *)
LEMMA RunInvHas ==
    ASSUME RunInv
    PROVE  \E all, n : Running(all, n)
BY DEF Running, RunInv

(* The runner starts an experiment. *)
LEMMA SetupRuns ==
    ASSUME RunnerTypeOK, SetupExperiments
    PROVE  StageInv' /\ RebootInv' /\ RunInv'
<1>0. PICK all : all = StepsOf[Head(asked)]
  OBVIOUS
<1>1. all \in Plain
  <2>1. Head(asked) \in Experiments
    BY DEF RunnerTypeOK, SetupExperiments
  <2> QED
    BY <1>0, <2>1, StepsPlain
<1>2. steps' = all /\ xpc' = "next" /\ (~doubt' => machine' = "up")
  BY <1>0 DEF SetupExperiments, Answers
<1>3. Rest(all, 0)'
  <2>1. all \in Seq(StepRecs) /\ Len(all) \in Nat
    BY <1>1 DEF Plain
  <2>2. /\ 0 \in 0..Len(all) /\ Len(steps') = Len(all) - 0
        /\ \A i \in 1..Len(steps') : steps'[i] = all[0 + i]
    BY <1>2, <2>1
  <2> QED
    BY <1>1, <1>2, <2>1, <2>2 DEF Rest
<1>4. Configured(all, 0)' /\ ~Boots(all, 0)
  <2>1. 1..0 = {}
    OBVIOUS
  <2> QED
    BY <2>1 DEF Configured, Boots
<1>5. Running(all, 0)'
  BY <1>2, <1>3, <1>4 DEF Running, Undoubted, RunningInv, Boots
<1>6. StageInv' /\ RebootInv'
  BY <1>2 DEF StageInv, RebootInv
<1> QED
  BY <1>5, <1>6, RunInvFrom

(* A step of the list that is done at once. *)
LEMMA StepDone ==
    ASSUME RunInv, steps # <<>>,
           \/ ConfigureGrub \/ InsertModule \/ ConfigureCgroupMemory \/ WritebackOff
           \/ SyncResults
    PROVE  StageInv' /\ RebootInv' /\ RunInv'
<1>1. PICK all, n : Running(all, n)
  BY RunInvHas
<1>2. /\ xpc = "next" /\ xpc' = "next" /\ steps' = Tail(steps) /\ booted' = booted
      /\ machine' = machine /\ doubt' = doubt
  BY DEF ConfigureGrub, InsertModule, ConfigureCgroupMemory, WritebackOff, SyncResults,
         At, Done
<1>3. /\ n \in Nat /\ n + 1 \in 1..Len(all) /\ Head(steps) = all[n + 1]
      /\ Prepared(all, n + 1) /\ Rest(all, n + 1)'
  BY <1>1, <1>2, Advance DEF Running
<1> DEFINE s == all[n + 1]
           m == n + 1
<1>4. /\ m \in Nat /\ m > 0 /\ m - 1 = n /\ all[m] = s
  BY <1>3
<1>5. StageInv' /\ RebootInv'
  BY <1>2 DEF StageInv, RebootInv
<1>6. ASSUME Configured(all, m)', xpc' \in {"next", "tmux", "wait"} /\ ~doubt' => Undoubted(all, m)'
      PROVE  RunInv'
  <2>1. RunningInv'
    BY <1>2 DEF RunningInv
  <2>2. Running(all, m)'
    BY <1>3, <1>6, <2>1 DEF Running
  <2> QED
    BY <2>2, RunInvFrom
<1> HIDE DEF m
<1>7. ASSUME s.op # "grub", s.op # "module", s.op # "reboot", grub' = grub, modules' = modules
      PROVE  /\ Configured(all, m)'
             /\ ~doubt => machine' = "up" /\ (Boots(all, m) => booted' = BootOf')
  <2>1. Configured(all, n + 1)'
    BY <1>1, <1>3, <1>7, ConfiguredNext DEF Running
  <2>2. Boots(all, n + 1) => Boots(all, n)
    BY <1>3, <1>7, BootsNext
  <2> QED
    BY <1>1, <1>2, <1>7, <2>1, <2>2 DEF Running, Undoubted, BootOf, m
<1>8. CASE ConfigureGrub
  <2>1. s.op = "grub" /\ grub' = Options(s) /\ modules' = modules
    BY <1>3, <1>8 DEF ConfigureGrub, At
  <2>2. Configured(all, m)'
    BY <1>1, <1>3, <2>1, ConfiguredNext DEF Running, m
  <2>3. ~Boots(all, m)
    BY <1>3, <2>1, BootsNext DEF Configures, m
  <2>4. ~doubt' => Undoubted(all, m)'
    BY <1>1, <1>2, <1>4, <2>1, <2>3 DEF Running, Undoubted, Boots
  <2> QED
    BY <1>5, <1>6, <2>2, <2>4
<1>9. CASE InsertModule
  <2>1. s.op = "module" /\ grub' = grub /\ modules' = modules \cup {Options(s)}
    BY <1>3, <1>9 DEF InsertModule, At
  <2>2. Configured(all, m)'
    BY <1>1, <1>3, <2>1, ConfiguredNext DEF Running, m
  <2>3. ~Boots(all, m)
    BY <1>3, <2>1, BootsNext DEF Configures, m
  <2>4. ~doubt' => Undoubted(all, m)'
    BY <1>1, <1>2, <1>4, <2>1, <2>3 DEF Running, Undoubted, Boots
  <2> QED
    BY <1>5, <1>6, <2>2, <2>4
<1>10. CASE ConfigureCgroupMemory
  <2>1. s.op = "limits" /\ limits' = LimitsOf(s) /\ grub' = grub /\ modules' = modules
    BY <1>3, <1>10 DEF ConfigureCgroupMemory, At
  <2>2. ~doubt' => Undoubted(all, m)'
    BY <1>2, <1>4, <1>7, <2>1 DEF Undoubted, Boots
  <2> QED
    BY <1>5, <1>6, <1>7, <2>1, <2>2
<1>11. CASE WritebackOff
  <2>1. /\ s.op = "writeback" /\ writeback' = FALSE /\ grub' = grub /\ modules' = modules
        /\ limits' = limits
    BY <1>3, <1>11 DEF WritebackOff, At
  <2>2. n > 0 /\ all[n].op = "limits" /\ Dir(all[n]) = Dir(s)
    BY <1>3, <1>4, <2>1 DEF Prepared, m
  <2>3. LimitsOf(all[n]) = LimitsOf(s)
    BY <2>2 DEF LimitsOf, Options, Dir
  <2>4. ~doubt => limits' = LimitsOf(s)
    BY <1>1, <1>2, <2>1, <2>2, <2>3 DEF Running, Undoubted
  <2>5. ~doubt' => Undoubted(all, m)'
    BY <1>2, <1>4, <1>7, <2>1, <2>4 DEF Undoubted, Boots
  <2> QED
    BY <1>5, <1>6, <1>7, <2>1, <2>5
<1>12. CASE SyncResults
  <2>1. s.op = "sync" /\ grub' = grub /\ modules' = modules
    BY <1>3, <1>12 DEF SyncResults, At
  <2>2. ~doubt' => Undoubted(all, m)'
    BY <1>2, <1>4, <1>7, <2>1 DEF Undoubted, Boots
  <2> QED
    BY <1>5, <1>6, <1>7, <2>1, <2>2
<1> QED
  BY <1>8, <1>9, <1>10, <1>11, <1>12

(* The start of a run: the markers go, and the session begins. *)
LEMMA RunBegins ==
    ASSUME RunInv, StageInv, RunnerTypeOK, steps # <<>>, CleanMarkers \/ StartTmux
    PROVE  StageInv' /\ RebootInv' /\ RunInv'
<1>1. PICK all, n : Running(all, n)
  BY RunInvHas
<1>2. /\ steps' = steps /\ grub' = grub /\ modules' = modules /\ booted' = booted
      /\ machine' = machine /\ limits' = limits /\ writeback' = writeback
      /\ xpc \in {"next", "tmux"} /\ xpc' \in {"tmux", "wait"}
      /\ (~doubt' => ~doubt)
  <2>1. CASE CleanMarkers
    <3>1. doubt' = (doubt \/ script # NoScript)
      BY <2>1 DEF CleanMarkers
    <3>2. ~doubt' => ~doubt
      BY <3>1, Zenon
    <3> QED
      BY <2>1, <3>2 DEF CleanMarkers, At
  <2>2. CASE StartTmux
    <3>1. doubt' = doubt
      BY <2>2 DEF StartTmux
    <3> QED
      BY <2>2, <3>1 DEF StartTmux
  <2> QED
    BY <2>1, <2>2
<1>3. Rest(all, n)' /\ Configured(all, n)'
  BY <1>1, <1>2 DEF Running, Rest, Configured
<1>4. ~doubt' => Undoubted(all, n)'
  BY <1>1, <1>2 DEF Running, Undoubted, Boots, BootOf
<1>5. RebootInv'
  BY <1>2 DEF RebootInv
<1>6. CASE CleanMarkers
  <2>1. /\ xpc' = "tmux" /\ markers' = {} /\ script' = script /\ Head(steps).op = "start"
        /\ (~doubt' => script = NoScript)
    BY <1>6 DEF CleanMarkers, At
  <2>2. Dir(Head(steps)) \in DOMAIN runDirs'
    BY <1>6 DEF CleanMarkers, MakeDir
  <2>3. ~doubt' => RunningInv'
    BY <2>1 DEF RunningInv
  <2>4. StageInv'
    BY <1>2, <2>1, <2>2 DEF StageInv, ThisRun
  <2>5. Running(all, n)'
    BY <1>3, <1>4, <2>3 DEF Running
  <2> QED
    BY <1>5, <2>4, <2>5, RunInvFrom
<1>7. CASE StartTmux
  <2>1. /\ xpc' = "wait" /\ xpc = "tmux" /\ markers' = markers /\ runDirs' = runDirs
        /\ script' = [at |-> "parameters", dir |-> Dir(Head(steps))] /\ doubt' = doubt
    BY <1>7 DEF StartTmux
  <2>2. StageInv'
    BY <1>2, <2>1 DEF StageInv, ThisRun
  <2>3. ~doubt' => markers = {}
    BY <1>1, <2>1 DEF Running, RunningInv
  <2>4. ~doubt' => RunningInv'
    BY <1>2, <2>1, <2>3 DEF RunningInv, ThisRun
  <2>5. Running(all, n)'
    BY <1>3, <1>4, <2>4 DEF Running
  <2> QED
    BY <1>5, <2>2, <2>5, RunInvFrom
<1> QED
  BY <1>6, <1>7

(* The end of a run: its result is whole. *)
LEMMA RunEnds ==
    ASSUME RunInv, StageInv, PollComplete
    PROVE  StageInv' /\ RebootInv' /\ RunInv'
<1>1. PICK all, n : Running(all, n)
  BY RunInvHas
<1>2. /\ steps' = Tail(steps) /\ grub' = grub /\ modules' = modules /\ booted' = booted
      /\ machine' = machine /\ limits' = limits /\ writeback' = writeback
      /\ runDirs' = runDirs /\ xpc = "wait" /\ xpc' = "next" /\ doubt' = doubt
      /\ "complete" \in markers /\ script' \in {script, NoScript}
  BY DEF PollComplete, KillSession
<1>3. steps # <<>> /\ Head(steps).op = "start" /\ ThisRun \in DOMAIN runDirs
  BY <1>2 DEF StageInv
<1> DEFINE s == all[n + 1]
           m == n + 1
<1>4. /\ n \in Nat /\ m \in 1..Len(all) /\ Head(steps) = s
      /\ Prepared(all, n + 1) /\ Rest(all, m)'
  BY <1>1, <1>2, <1>3, Advance DEF Running
<1>5. m \in Nat /\ m > 0 /\ m - 1 = n /\ all[m] = s /\ s.op = "start"
  BY <1>3, <1>4
<1> HIDE DEF m
<1>6. Configured(all, m)'
  BY <1>1, <1>2, <1>4, <1>5, ConfiguredNext DEF Running, m
<1>7. ASSUME ~doubt PROVE Undoubted(all, m)'
  <2>1. Undoubted(all, n) /\ RunningInv
    BY <1>1, <1>2, <1>7 DEF Running
  <2>2. Boots(all, m) => Boots(all, n)
    BY <1>4, <1>5, BootsNext DEF m
  <2>3. script' = NoScript /\ IsResult(runDirs[ThisRun])
    BY <1>2, <2>1 DEF RunningInv
  <2>4. /\ n > 0 /\ Dir(all[n]) = Dir(s)
        /\ all[n].op = IF s.exp = "K" THEN "writeback" ELSE "limits"
    BY <1>4, <1>5 DEF Prepared, m
  <2>5. LimitsOf(all[n]) = LimitsOf(s)
    BY <2>4 DEF LimitsOf, Options, Dir
  <2>6. limits' = LimitsOf(s)
    BY <1>2, <2>1, <2>4, <2>5 DEF Undoubted
  <2>7. s.exp = "K" => ~writeback'
    BY <1>2, <2>1, <2>4 DEF Undoubted
  <2>8. Dir(all[m]) \in DOMAIN runDirs' /\ IsResult(runDirs[Dir(all[m])])'
    BY <1>2, <1>3, <1>4, <1>5, <2>3 DEF ThisRun, IsResult
  <2>9. machine' = "up" /\ (Boots(all, m)' => booted' = BootOf')
    BY <1>2, <2>1, <2>2 DEF Undoubted, BootOf, Boots
  <2> QED
    BY <1>5, <2>3, <2>6, <2>7, <2>8, <2>9 DEF Undoubted
<1>8. StageInv' /\ RebootInv' /\ RunningInv'
  BY <1>2 DEF StageInv, RebootInv, RunningInv
<1>9. Running(all, m)'
  BY <1>2, <1>4, <1>6, <1>7, <1>8 DEF Running
<1> QED
  BY <1>8, <1>9, RunInvFrom

(* A reboot: until the machine is back the runner only watches it. *)
LEMMA RebootWatched ==
    ASSUME RunInv, StageInv, RebootInv, RunnerTypeOK,
           \/ xpc = "next" /\ steps # <<>> /\ (RebootIssued \/ RebootLost)
           \/ SeenDown \/ NeverSeenDown
    PROVE  StageInv' /\ RebootInv' /\ RunInv'
<1>1. PICK all, n : Running(all, n)
  BY RunInvHas
<1>2. /\ steps' = steps /\ grub' = grub /\ modules' = modules /\ booted' = booted
      /\ xpc' \in {"closing", "booting"}
  BY DEF RebootIssued, RebootLost, SeenDown, NeverSeenDown
<1>3. Running(all, n)'
  BY <1>1, <1>2 DEF Running, Rest, Configured
<1>4. steps # <<>> /\ Head(steps).op = "reboot"
  BY DEF RebootIssued, RebootLost, SeenDown, NeverSeenDown, At, StageInv
<1>5. StageInv'
  BY <1>2, <1>4 DEF StageInv
<1>6. RebootInv'
  <2>1. CASE RebootIssued
    BY <2>1 DEF RebootIssued, RebootInv
  <2>2. CASE RebootLost
    BY <2>2 DEF RebootLost, RebootInv
  <2>3. CASE SeenDown
    BY <2>3 DEF SeenDown, RebootInv, BootOf
  <2>4. CASE NeverSeenDown
    BY <2>4 DEF NeverSeenDown, RebootInv, BootOf
  <2> QED
    BY <2>1, <2>2, <2>3, <2>4
<1> QED
  BY <1>3, <1>5, <1>6, RunInvFrom

(* The machine answers again. *)
LEMMA RebootDone ==
    ASSUME RunInv, StageInv, RebootInv, SeenUp
    PROVE  StageInv' /\ RebootInv' /\ RunInv'
<1>1. PICK all, n : Running(all, n)
  BY RunInvHas
<1>2. /\ steps' = Tail(steps) /\ grub' = grub /\ modules' = modules /\ booted' = booted
      /\ machine' = machine /\ xpc = "booting" /\ xpc' = "next" /\ doubt' = doubt
      /\ machine \in {"up", "closing"}
  BY DEF SeenUp, Answers
<1>3. steps # <<>> /\ Head(steps).op = "reboot"
  BY <1>2 DEF StageInv
<1> DEFINE m == n + 1
<1>4. /\ n \in Nat /\ m \in 1..Len(all) /\ all[m].op = "reboot" /\ Rest(all, m)'
  BY <1>1, <1>2, <1>3, Advance DEF Running
<1>5. Configured(all, m)'
  BY <1>1, <1>2, <1>4, ConfiguredNext DEF Running
<1> HIDE DEF m
<1>6. ~doubt => machine = "up" /\ booted = BootOf
  BY <1>2 DEF RebootInv
<1>7. ~doubt' => Undoubted(all, m)'
  BY <1>2, <1>4, <1>6 DEF Undoubted, BootOf
<1>8. StageInv' /\ RebootInv' /\ RunningInv'
  BY <1>2 DEF StageInv, RebootInv, RunningInv
<1>9. Running(all, m)'
  BY <1>4, <1>5, <1>7, <1>8 DEF Running
<1> QED
  BY <1>8, <1>9, RunInvFrom

(* The machine goes down and up only when the runner waits for it. *)
LEMMA MachineRuns ==
    ASSUME RunInv, StageInv, RebootInv, GoDown \/ Boot
    PROVE  StageInv' /\ RebootInv' /\ RunInv'
<1>1. PICK all, n : Running(all, n)
  BY RunInvHas
<1>2. /\ steps' = steps /\ grub' = grub /\ modules' = modules /\ xpc' = xpc
      /\ doubt' = doubt /\ machine # "up" /\ runDirs' = runDirs
  BY DEF GoDown, Boot
<1>3. ~(xpc \in {"next", "tmux", "wait"} /\ ~doubt)
  BY <1>1, <1>2 DEF Running, Undoubted
<1>4. Running(all, n)'
  BY <1>1, <1>2, <1>3 DEF Running, Rest, Configured
<1>5. StageInv'
  BY <1>2 DEF StageInv, ThisRun
<1>6. RebootInv'
  <2>1. CASE GoDown
    BY <2>1 DEF GoDown, RebootInv
  <2>2. CASE Boot
    BY <2>2 DEF Boot, RebootInv, BootOf
  <2> QED
    BY <2>1, <2>2
<1> QED
  BY <1>4, <1>5, <1>6, RunInvFrom

(* The script writes into the directory of its run. *)
LEMMA ScriptRuns ==
    ASSUME RunInv, StageInv, RebootInv, RunnerTypeOK,
           ScriptParameters \/ ScriptBuilds \/ ScriptEnds
    PROVE  StageInv' /\ RebootInv' /\ RunInv'
<1>1. PICK all, n : Running(all, n)
  BY RunInvHas
<1>2. /\ steps' = steps /\ grub' = grub /\ modules' = modules /\ xpc' = xpc
      /\ doubt' = doubt /\ machine' = machine /\ booted' = booted /\ limits' = limits
      /\ writeback' = writeback
  BY DEF ScriptParameters, ScriptBuilds, ScriptEnds
<1>3. DOMAIN runDirs' = DOMAIN runDirs
  BY DEF ScriptParameters, ScriptBuilds, ScriptEnds, Writes
<1>4. script # NoScript /\ script.at \in {"parameters", "build", "touch"}
  BY DEF ScriptParameters, ScriptBuilds, ScriptEnds, NoScript
<1>5. Rest(all, n)' /\ Configured(all, n)'
  BY <1>1, <1>2 DEF Running, Rest, Configured
<1>6. StageInv'
  BY <1>2, <1>3 DEF StageInv, ThisRun
<1>7. RebootInv'
  BY <1>2 DEF RebootInv, BootOf
<1>8. ASSUME xpc \in {"next", "tmux", "wait"}, ~doubt
      PROVE  Undoubted(all, n)' /\ RunningInv'
  <2>1. Undoubted(all, n) /\ RunningInv
    BY <1>1, <1>8 DEF Running
  <2>2. Undoubted(all, n)'
    BY <1>2, <1>4, <2>1 DEF Undoubted, Boots, BootOf
  <2>3. CASE xpc # "wait"
    <3>1. xpc # "tmux"
      BY <1>4, <2>1 DEF RunningInv
    <3> QED
      BY <1>2, <2>2, <2>3, <3>1 DEF RunningInv
  <2>4. CASE xpc = "wait"
    <3>1. script.dir = ThisRun /\ "complete" \notin markers /\ ThisRun \in DOMAIN runDirs
      BY <1>4, <2>1, <2>4 DEF RunningInv, StageInv
    <3>2. ThisRun' = ThisRun
      BY <1>2 DEF ThisRun
    <3>3. CASE ScriptParameters
      <4>1. /\ script' = [script EXCEPT !.at = "build"] /\ markers' = markers
            /\ runDirs' = [runDirs EXCEPT ![ThisRun] = [NoResult EXCEPT !.boot = booted]]
        BY <3>1, <3>3 DEF ScriptParameters, Writes
      <4>2. script'.at = "build" /\ script'.dir = ThisRun
        BY <1>4, <3>1, <4>1 DEF RunnerTypeOK
      <4>3. runDirs'[ThisRun].boot = booted
        BY <3>1, <4>1 DEF NoResult
      <4> QED
        BY <1>2, <2>2, <2>4, <3>1, <3>2, <4>1, <4>2, <4>3 DEF RunningInv
    <3>4. CASE ScriptBuilds
      <4>1. /\ script' = [script EXCEPT !.at = "touch"] /\ markers' = markers
            /\ runDirs' = [runDirs EXCEPT ![ThisRun] =
                              [runDirs[ThisRun] EXCEPT !.limits = limits, !.whole = TRUE]]
        BY <3>1, <3>4 DEF ScriptBuilds, Writes, Found
      <4>2. script'.at = "touch" /\ script'.dir = ThisRun
        BY <1>4, <3>1, <4>1 DEF RunnerTypeOK
      <4>3. runDirs[ThisRun].boot = booted
        BY <2>1, <2>4, <3>4 DEF RunningInv, ScriptBuilds
      <4>4. IsResult(runDirs[ThisRun])'
        <5>1. DOMAIN runDirs[ThisRun] = {"boot", "limits", "whole"}
          BY <3>1 DEF RunnerTypeOK
        <5>2. runDirs'[ThisRun] =
                 [runDirs[ThisRun] EXCEPT !.limits = limits, !.whole = TRUE]
          BY <3>1, <4>1
        <5> QED
          BY <1>2, <3>2, <4>3, <5>1, <5>2 DEF IsResult
      <4> QED
        BY <1>2, <2>2, <2>4, <3>1, <3>2, <4>1, <4>2, <4>4 DEF RunningInv
    <3>5. CASE ScriptEnds
      <4>1. script' = NoScript /\ runDirs' = runDirs /\ script.at = "touch"
        BY <3>5 DEF ScriptEnds
      <4>2. IsResult(runDirs[ThisRun])'
        BY <1>2, <2>1, <2>4, <4>1 DEF RunningInv, IsResult, ThisRun
      <4>3. script'.at = "none"
        BY <4>1 DEF NoScript
      <4> QED
        BY <1>2, <2>2, <2>4, <3>2, <4>1, <4>2, <4>3 DEF RunningInv
    <3> QED
      BY <3>3, <3>4, <3>5
  <2> QED
    BY <2>2, <2>3, <2>4
<1>9. Running(all, n)'
  BY <1>2, <1>5, <1>8 DEF Running
<1> QED
  BY <1>6, <1>7, <1>9, RunInvFrom

(* The types. *)
LEMMA RunnerTypes ==
    RunnerTypeOK /\ [RemoteNext]_remoteVars => RunnerTypeOK'
<1> SUFFICES ASSUME RunnerTypeOK, [RemoteNext]_remoteVars
             PROVE  RunnerTypeOK'
  OBVIOUS
<1> USE DEF RunnerTypeOK
<1>1. ASSUME UNCHANGED <<asked, script, runDirs>>,
             xpc' \in {"stopped", "next", "tmux", "wait", "closing", "booting"},
             machine' \in {"up", "closing", "down"},
             doubt' \in BOOLEAN, writeback' \in BOOLEAN
      PROVE  RunnerTypeOK'
  BY <1>1
<1>2. CASE SetupExperiments
  <2>1. asked' \in Seq(Experiments)
    BY <1>2 DEF SetupExperiments
  <2>2. \A d \in DOMAIN runDirs' : DOMAIN runDirs'[d] = {"boot", "limits", "whole"}
    BY <1>2 DEF SetupExperiments
  <2> QED
    BY <1>2, <2>1, <2>2 DEF SetupExperiments
<1>3. CASE ConfigureGrub \/ InsertModule \/ ConfigureCgroupMemory \/ SyncResults
  BY <1>1, <1>3 DEF ConfigureGrub, InsertModule, ConfigureCgroupMemory, SyncResults, At, Done
<1>4. CASE WritebackOff
  BY <1>1, <1>4 DEF WritebackOff, At, Done
<1>5. CASE CleanMarkers
  <2>1. \A d \in DOMAIN runDirs' : DOMAIN runDirs'[d] = {"boot", "limits", "whole"}
    BY <1>5 DEF CleanMarkers, MakeDir, NoResult
  <2>2. doubt' \in BOOLEAN
    BY <1>5 DEF CleanMarkers
  <2> QED
    BY <1>5, <2>1, <2>2 DEF CleanMarkers, At
<1>6. CASE StartTmux
  <2>1. DOMAIN script' = {"at", "dir"} /\ script'.at = "parameters"
    BY <1>6 DEF StartTmux
  <2> QED
    BY <1>6, <2>1 DEF StartTmux
<1>7. CASE PollComplete \/ PollFails
  <2>1. script' = script \/ script' = NoScript
    BY <1>7 DEF PollComplete, PollFails, KillSession
  <2> QED
    BY <1>7, <2>1 DEF PollComplete, PollFails
<1>8. CASE RebootIssued \/ RebootLost
  BY <1>1, <1>8 DEF RebootIssued, RebootLost, At
<1>9. CASE SeenDown \/ NeverSeenDown
  <2>1. doubt' \in BOOLEAN
    BY <1>9 DEF SeenDown, NeverSeenDown
  <2> QED
    BY <1>1, <1>9, <2>1 DEF SeenDown, NeverSeenDown
<1>10. CASE SeenUp \/ RunnerDies
  BY <1>1, <1>10 DEF SeenUp, RunnerDies
<1>11. CASE GoDown \/ Boot
  BY <1>11 DEF GoDown, Boot
<1>12. CASE ScriptParameters
  <2>1. DOMAIN script = {"at", "dir"}
    BY <1>12 DEF ScriptParameters, NoScript
  <2>2. script' = [script EXCEPT !.at = "build"]
    BY <1>12 DEF ScriptParameters
  <2>3. DOMAIN script' = {"at", "dir"} /\ script'.at = "build"
    BY <2>1, <2>2
  <2>4. DOMAIN [NoResult EXCEPT !.boot = booted] = {"boot", "limits", "whole"}
    BY DEF NoResult
  <2>5. \A d \in DOMAIN runDirs' : DOMAIN runDirs'[d] = {"boot", "limits", "whole"}
    BY <1>12, <2>4 DEF ScriptParameters, Writes
  <2> QED
    BY <1>12, <2>3, <2>5 DEF ScriptParameters
<1>13. CASE ScriptBuilds
  <2>1. DOMAIN script = {"at", "dir"}
    BY <1>13 DEF ScriptBuilds, NoScript
  <2>2. script' = [script EXCEPT !.at = "touch"]
    BY <1>13 DEF ScriptBuilds
  <2>3. DOMAIN script' = {"at", "dir"} /\ script'.at = "touch"
    BY <2>1, <2>2
  <2>4. DOMAIN Found = {"boot", "limits", "whole"}
    BY DEF Found, NoResult
  <2>5. \A d \in DOMAIN runDirs' : DOMAIN runDirs'[d] = {"boot", "limits", "whole"}
    BY <1>13, <2>4 DEF ScriptBuilds, Writes
  <2> QED
    BY <1>13, <2>3, <2>5 DEF ScriptBuilds
<1>14. CASE ScriptEnds
  BY <1>14 DEF ScriptEnds
<1>15. CASE UNCHANGED remoteVars
  BY <1>1, <1>15 DEF remoteVars
<1> QED
  BY <1>2, <1>3, <1>4, <1>5, <1>6, <1>7, <1>8, <1>9, <1>10, <1>11, <1>12, <1>13,
     <1>14, <1>15 DEF RemoteNext

(* A result that is fetched is that of the run that has just ended. *)
LEMMA SyncLabels ==
    ASSUME ResultsLabelled, RunInv, SyncResults
    PROVE  ResultsLabelled'
<1>1. PICK all, n : Running(all, n)
  BY RunInvHas
<1>2. /\ xpc = "next" /\ steps # <<>> /\ Head(steps).op = "sync"
      /\ Dir(Head(steps)) \in DOMAIN runDirs
  BY DEF SyncResults, At
<1>3. /\ n \in Nat /\ n + 1 \in 1..Len(all) /\ Head(steps) = all[n + 1]
      /\ Prepared(all, n + 1) /\ all \in Plain
  BY <1>1, <1>2, Advance DEF Running, Rest
<1> DEFINE new == Dir(Head(steps))
           got == [got |-> runDirs[new], doubt |-> doubt, writeback |-> writeback]
<1>4. fetched' = [d \in DOMAIN fetched \cup {new} |-> IF d = new THEN got ELSE fetched[d]]
  BY DEF SyncResults
<1>5. n > 0 /\ all[n].op = "start" /\ Dir(all[n]) = new
  <2>1. (n + 1) - 1 = n
    BY <1>3
  <2> QED
    BY <1>2, <1>3, <2>1 DEF Prepared
<1>6. n \in 1..Len(all) /\ Configured(all, n)
  <2>1. n \in 1..Len(all)
    BY <1>3, <1>5
  <2> QED
    BY <1>1, <2>1 DEF Running
<1>7. ASSUME ~doubt
      PROVE  /\ runDirs[new].whole /\ runDirs[new].limits = LimitsOf(new)
             /\ new.exp \in {"A", "B", "K"} \/ runDirs[new].boot = Options(new)
             /\ new.exp = "K" => ~writeback
  <2>1. Undoubted(all, n)
    BY <1>1, <1>2, <1>7 DEF Running
  <2>2. IsResult(runDirs[new]) /\ limits = LimitsOf(all[n])
    BY <1>2, <1>5, <2>1 DEF Undoubted
  <2>3. /\ new.exp = all[n].exp /\ Options(new) = Options(all[n])
        /\ LimitsOf(new) = LimitsOf(all[n])
    BY <1>5 DEF Dir, Options, LimitsOf
  <2>4. all[n].exp = "K" => ~writeback
    BY <1>5, <2>1 DEF Undoubted
  <2>5. all[n].exp \notin {"A", "B", "K"} => booted = Options(all[n])
    <3>1. Boots(all, n) => booted = BootOf
      BY <2>1 DEF Undoubted
    <3> QED
      BY <1>3, <1>5, <1>6, <3>1, OptionsBooted
  <2> QED
    BY <2>2, <2>3, <2>4, <2>5 DEF IsResult
<1> HIDE DEF new
<1>8. ASSUME NEW d \in DOMAIN fetched', ~fetched'[d].doubt
      PROVE  /\ fetched'[d].got.whole
             /\ fetched'[d].got.limits = LimitsOf(d)
             /\ d.exp \in {"A", "B", "K"} \/ fetched'[d].got.boot = Options(d)
             /\ d.exp = "K" => ~fetched'[d].writeback
  <2>1. CASE d = new
    <3>1. fetched'[d] = got
      BY <1>4, <2>1
    <3>2. ~doubt
      BY <1>8, <3>1
    <3> QED
      BY <1>7, <2>1, <3>1, <3>2
  <2>2. CASE d # new
    <3>1. d \in DOMAIN fetched /\ fetched'[d] = fetched[d]
      BY <1>4, <1>8, <2>2
    <3> QED
      BY <1>8, <3>1 DEF ResultsLabelled
  <2> QED
    BY <2>1, <2>2
<1> QED
  BY <1>8 DEF ResultsLabelled, LimitsOf, Options

(* The invariant is inductive. *)
LEMMA RunnerStep ==
    RunnerInv /\ [RemoteNext]_remoteVars => RunnerInv'
<1> SUFFICES ASSUME RunnerInv, [RemoteNext]_remoteVars
             PROVE  RunnerInv'
  OBVIOUS
<1>1. RunnerTypeOK'
  BY RunnerTypes DEF RunnerInv
<1>2. ResultsLabelled'
  <2>1. CASE SyncResults
    <3>1. xpc # "stopped"
      BY <2>1 DEF SyncResults, At
    <3> QED
      BY <2>1, <3>1, SyncLabels DEF RunnerInv
  <2>2. CASE ~SyncResults
    <3>1. fetched' = fetched
      BY <2>2 DEF RemoteNext, SetupExperiments, ConfigureGrub, InsertModule,
         ConfigureCgroupMemory, WritebackOff, CleanMarkers, StartTmux, PollComplete,
         PollFails, RebootIssued, RebootLost, SeenDown, NeverSeenDown, SeenUp, RunnerDies,
         GoDown, Boot, ScriptParameters, ScriptBuilds, ScriptEnds, remoteVars
    <3> QED
      BY <3>1 DEF RunnerInv, ResultsLabelled
  <2> QED
    BY <2>1, <2>2
<1>3. ASSUME xpc' # "stopped"
      PROVE  StageInv' /\ RebootInv' /\ RunInv'
  <2>1. CASE SetupExperiments
    BY <2>1, SetupRuns DEF RunnerInv
  <2>2. CASE ConfigureGrub \/ InsertModule \/ ConfigureCgroupMemory \/ WritebackOff
             \/ SyncResults
    <3>1. xpc = "next" /\ steps # <<>>
      BY <2>2 DEF ConfigureGrub, InsertModule, ConfigureCgroupMemory, WritebackOff,
                  SyncResults, At
    <3> QED
      BY <2>2, <3>1, StepDone DEF RunnerInv
  <2>3. CASE CleanMarkers \/ StartTmux
    <3>1. xpc \in {"next", "tmux"} /\ (xpc = "next" => steps # <<>>)
      BY <2>3 DEF CleanMarkers, StartTmux, At
    <3>2. steps # <<>>
      BY <3>1 DEF RunnerInv, StageInv
    <3> QED
      BY <2>3, <3>1, <3>2, RunBegins DEF RunnerInv
  <2>4. CASE PollComplete
    <3>1. xpc = "wait"
      BY <2>4 DEF PollComplete
    <3> QED
      BY <2>4, <3>1, RunEnds DEF RunnerInv
  <2>5. CASE PollFails \/ RunnerDies
    BY <1>3, <2>5 DEF PollFails, RunnerDies
  <2>6. CASE RebootIssued \/ RebootLost
    <3>1. xpc = "next" /\ steps # <<>>
      BY <2>6 DEF RebootIssued, RebootLost, At
    <3> QED
      BY <2>6, <3>1, RebootWatched DEF RunnerInv
  <2>7. CASE SeenDown \/ NeverSeenDown
    <3>1. xpc = "closing"
      BY <2>7 DEF SeenDown, NeverSeenDown
    <3> QED
      BY <2>7, <3>1, RebootWatched DEF RunnerInv
  <2>8. CASE SeenUp
    <3>1. xpc = "booting"
      BY <2>8 DEF SeenUp
    <3> QED
      BY <2>8, <3>1, RebootDone DEF RunnerInv
  <2>9. CASE GoDown \/ Boot
    <3>1. xpc' = xpc
      BY <2>9 DEF GoDown, Boot
    <3> QED
      BY <1>3, <2>9, <3>1, MachineRuns DEF RunnerInv
  <2>10. CASE ScriptParameters \/ ScriptBuilds \/ ScriptEnds
    <3>1. xpc' = xpc
      BY <2>10 DEF ScriptParameters, ScriptBuilds, ScriptEnds
    <3> QED
      BY <1>3, <2>10, <3>1, ScriptRuns DEF RunnerInv
  <2>11. CASE UNCHANGED remoteVars
    BY <1>3, <2>11 DEF remoteVars, RunnerInv, StageInv, RebootInv, RunInv, Rest, Configured,
       Undoubted, RunningInv, ThisRun, BootOf, Boots, IsResult
  <2> QED
    BY <2>1, <2>2, <2>3, <2>4, <2>5, <2>6, <2>7, <2>8, <2>9, <2>10, <2>11 DEF RemoteNext
<1> QED
  BY <1>1, <1>2, <1>3 DEF RunnerInv

(* RunnerInv is an invariant of the runner and its machine. *)
THEOREM RunnerInvCorrect == RemoteSpec => []RunnerInv
<1>1. RemoteInit => RunnerInv
  <2> SUFFICES ASSUME RemoteInit
               PROVE  RunnerInv
    OBVIOUS
  <2>1. asked \in Seq(Experiments)
    BY RemoteAssumption DEF RemoteInit
  <2>2. DOMAIN runDirs = {} /\ DOMAIN fetched = {}
    BY DEF RemoteInit, RemoteIdle
  <2>3. RunnerTypeOK
    BY <2>1, <2>2 DEF RunnerTypeOK, RemoteInit, RemoteIdle
  <2> QED
    BY <2>2, <2>3 DEF RunnerInv, ResultsLabelled, RemoteInit
<1> QED
  BY <1>1, RunnerStep, PTL DEF RemoteSpec

(* Unless a reboot was in doubt, a result that is fetched was made under  *)
(* the boot options and limits it is labelled with.                        *)
THEOREM LabelsCorrect == RemoteSpec => []ResultsLabelled
<1>1. RunnerInv => ResultsLabelled
  BY DEF RunnerInv
<1> QED
  BY <1>1, RunnerInvCorrect, PTL

=============================================================================
