------------------------------- MODULE FStore -------------------------------
(***************************************************************************)
(* The fstore kernel module, module/fstore/fstore.c: a hash table from     *)
(* 64-bit names to BPF maps.  Programs register and unregister maps        *)
(* through ioctl, other kernel modules read them through the exported      *)
(* functions (module/test/e2e/set_get/set_get.c shows how).  Nothing is    *)
(* locked: every caller is a task, and a step is one access to the table,  *)
(* to number_maps or to the reference count of a map.                      *)
(*                                                                         *)
(* A node that was freed, or a map whose count reached zero, may be used   *)
(* by a task that still has a pointer to it.  What the kernel does then is *)
(* undefined: the model records it (undef) and stops.                      *)
(***************************************************************************)
EXTENDS Integers, FiniteSets

CONSTANTS
    Tasks,       \* processes and kernel threads that call the module
    Names,       \* u64 map names
    Maps,        \* BPF maps
    Bucket,      \* Bucket[name]: hash_min(name, FSTORE_LOGSIZE)
    FSTORE_SIZE, \* number of buckets, and the limit number_maps is tested for
    Ops,         \* the operations the tasks call
    LimitsKnown, \* callers of fstore_get_map_array_start pass the map's limits
    MaxNodes,    \* bound: nodes ever allocated
    MaxRefs      \* bound: references to one map that are taken

AllOps == {"register", "unregister", "get", "mapped", "peek"}

ASSUME TasksAssumption  == IsFiniteSet(Tasks)
ASSUME DataAssumption   == Names # {} /\ Maps # {}
ASSUME OpsAssumption    == Ops \subseteq AllOps
ASSUME SizeAssumption   == FSTORE_SIZE \in Nat \ {0}
ASSUME BoundsAssumption == MaxNodes \in Nat /\ MaxRefs \in Nat
ASSUME BucketAssumption == Bucket \in [Names -> Nat]
ASSUME LimitsAssumption == LimitsKnown \in BOOLEAN

Null  == 0
Nodes == 1..MaxNodes

(* Program counters that hold a reservation in number_maps. *)
Admitted == {"head", "scan", "mapget", "alloc"}
Failing  == {"put_map", "uncount"}
Reserved == Admitted \cup Failing

(* Program counters that walk a bucket. *)
Walking  == {"scan", "delete", "get", "first", "put", "peek"}

Pcs == {"idle", "copy", "check", "using"} \cup Reserved \cup Walking

VARIABLES
    number,  \* number_maps
    live,    \* nodes in the hash table; a newer node is nearer the head
    nameOf,  \* nameOf[n], mapOf[n]: contents of node n
    mapOf,
    nextNode,
    refs,    \* refs[m]: reference count of map m
    fdOpen,  \* fdOpen[m]: a file descriptor of map m is open
    undef,   \* freed memory has been used
    loaded,  \* the module is loaded
    pc, name, map, node, found  \* the locals of each task

table  == <<live, nameOf, mapOf, nextNode>>
locals == <<pc, name, map, node, found>>
vars   == <<number, table, refs, fdOpen, undef, loaded, locals>>

(* The types of everything but number. *)
OtherTypes ==
    /\ live \subseteq Nodes
    /\ nextNode \in 1..(MaxNodes + 1)
    /\ \A n \in live : n < nextNode
    /\ nameOf \in [Nodes -> Names] /\ mapOf \in [Nodes -> Maps]
    /\ refs \in [Maps -> Nat] /\ fdOpen \in [Maps -> BOOLEAN]
    /\ undef \in BOOLEAN /\ loaded \in BOOLEAN
    /\ pc \in [Tasks -> Pcs]
    /\ name \in [Tasks -> Names] /\ map \in [Tasks -> Maps]
    /\ node \in [Tasks -> Nodes \cup {Null}]
    /\ found \in [Tasks -> BOOLEAN]

(* The state of the module and its callers; number_maps is never negative. *)
TypeOK == number \in Nat /\ OtherTypes

(* Contents of memory nobody has written yet; never read. *)
AnyName == CHOOSE nm \in Names : TRUE
AnyMap  == CHOOSE m \in Maps : TRUE

Init ==
    /\ number = 0
    /\ live = {} /\ nextNode = 1
    /\ nameOf = [n \in Nodes |-> AnyName] /\ mapOf = [n \in Nodes |-> AnyMap]
    /\ refs = [m \in Maps |-> 1] /\ fdOpen = [m \in Maps |-> TRUE]
    /\ undef = FALSE /\ loaded = TRUE
    /\ pc = [t \in Tasks |-> "idle"]
    /\ name = [t \in Tasks |-> AnyName] /\ map = [t \in Tasks |-> AnyMap]
    /\ node = [t \in Tasks |-> Null]
    /\ found = [t \in Tasks |-> FALSE]

-----------------------------------------------------------------------------
(* The hash table.                                                         *)

(* hash_for_each_possible visits every node of the bucket; it compares no  *)
(* names.  hash_add_rcu inserts at the head.                               *)
Chain(b) == {n \in live : Bucket[nameOf[n]] = b}

NewestOf(S) == IF S = {} THEN Null ELSE CHOOSE n \in S : \A k \in S : k <= n

Head(nm)    == NewestOf(Chain(Bucket[nm]))
After(nm, n) == NewestOf({k \in Chain(Bucket[nm]) : k < n})

(* Task t goes from one program counter to another. *)
Goto(t, from, to) == /\ ~undef
                     /\ pc[t] = from
                     /\ pc' = [pc EXCEPT ![t] = to]

(* Task t starts walking the bucket of nm. *)
WalkFrom(t, nm) == /\ node' = [node EXCEPT ![t] = Head(nm)]
                   /\ found' = [found EXCEPT ![t] = FALSE]

(* Task t visits a node of the chain and goes to the next one. *)
Visit(t, at) == /\ ~undef
                /\ pc[t] = at /\ node[t] \in live
                /\ node' = [node EXCEPT ![t] = After(name[t], node[t])]
                /\ found' = [found EXCEPT ![t] = TRUE]

MapInc(m) == /\ refs[m] \in 1..MaxRefs
             /\ refs' = [refs EXCEPT ![m] = @ + 1]
MapPut(m) == refs[m] > 0 /\ refs' = [refs EXCEPT ![m] = @ - 1]

-----------------------------------------------------------------------------
(* fstore_register(fd, map_name)                                           *)

(* Mutant: the limit is tested with > instead of >=. *)
RegisterReserveOneMore(t, nm, m) ==
    /\ "register" \in Ops /\ loaded
    /\ number' = number + 1
    /\ Goto(t, "idle", IF number' > FSTORE_SIZE THEN "uncount" ELSE "head")
    /\ name' = [name EXCEPT ![t] = nm]
    /\ map' = [map EXCEPT ![t] = m]
    /\ UNCHANGED <<table, refs, fdOpen, undef, loaded, node, found>>

RegisterReserve(t, nm, m) ==
    /\ "register" \in Ops /\ loaded
    /\ number' = number + 1
    /\ Goto(t, "idle", IF number' >= FSTORE_SIZE THEN "uncount" ELSE "head")
    /\ name' = [name EXCEPT ![t] = nm]
    /\ map' = [map EXCEPT ![t] = m]
    /\ UNCHANGED <<table, refs, fdOpen, undef, loaded, node, found>>

RegisterHead(t) ==
    /\ Goto(t, "head", "scan")
    /\ WalkFrom(t, name[t])
    /\ UNCHANGED <<number, table, refs, fdOpen, undef, loaded, name, map>>

ScanVisit(t) ==
    /\ Visit(t, "scan")
    /\ UNCHANGED <<number, table, refs, fdOpen, undef, loaded, pc, name, map>>

(* Mutant: -EEXIST returns without cleanup_count. *)
ScanEndKeepsCount(t) ==
    /\ node[t] = Null
    /\ Goto(t, "scan", IF found[t] THEN "idle" ELSE "mapget")
    /\ UNCHANGED <<number, table, refs, fdOpen, undef, loaded, name, map,
                   node, found>>

(* Mutant: no -EEXIST. *)
ScanEndAccepts(t) ==
    /\ node[t] = Null
    /\ Goto(t, "scan", "mapget")
    /\ UNCHANGED <<number, table, refs, fdOpen, undef, loaded, name, map,
                   node, found>>

(* -EEXIST if the bucket was not empty. *)
ScanEnd(t) ==
    /\ node[t] = Null
    /\ Goto(t, "scan", IF found[t] THEN "uncount" ELSE "mapget")
    /\ UNCHANGED <<number, table, refs, fdOpen, undef, loaded, name, map,
                   node, found>>

(* Mutant: the node does not own a reference. *)
RegisterMapGetNoRef(t) ==
    /\ Goto(t, "mapget", IF fdOpen[map[t]] THEN "alloc" ELSE "uncount")
    /\ UNCHANGED <<number, table, refs, fdOpen, undef, loaded, name, map, node,
                   found>>

(* bpf_map_get(fd): -EBADF for a descriptor that is not an open map. *)
RegisterMapGet(t) ==
    /\ \/ /\ fdOpen[map[t]]
          /\ MapInc(map[t])
          /\ Goto(t, "mapget", "alloc")
       \/ /\ ~fdOpen[map[t]]
          /\ Goto(t, "mapget", "uncount")
          /\ UNCHANGED refs
    /\ UNCHANGED <<number, table, fdOpen, undef, loaded, name, map, node, found>>

(* kmalloc succeeds: the node enters the table. *)
RegisterAdd(t) ==
    /\ nextNode <= MaxNodes
    /\ Goto(t, "alloc", "idle")
    /\ live' = live \cup {nextNode}
    /\ nameOf' = [nameOf EXCEPT ![nextNode] = name[t]]
    /\ mapOf' = [mapOf EXCEPT ![nextNode] = map[t]]
    /\ nextNode' = nextNode + 1
    /\ UNCHANGED <<number, refs, fdOpen, undef, loaded, name, map, node, found>>

(* Mutant: kmalloc fails and cleanup_map is skipped. *)
RegisterNoMemKeepsMap(t) ==
    /\ Goto(t, "alloc", "uncount")
    /\ UNCHANGED <<number, table, refs, fdOpen, undef, loaded, name, map, node,
                   found>>

(* kmalloc fails: cleanup_map, then cleanup_count. *)
RegisterNoMem(t) ==
    /\ Goto(t, "alloc", "put_map")
    /\ UNCHANGED <<number, table, refs, fdOpen, undef, loaded, name, map, node,
                   found>>

RegisterPutMap(t) ==
    /\ Goto(t, "put_map", "uncount")
    /\ MapPut(map[t])
    /\ UNCHANGED <<number, table, fdOpen, undef, loaded, name, map, node, found>>

RegisterUncount(t) ==
    /\ Goto(t, "uncount", "idle")
    /\ number' = number - 1
    /\ UNCHANGED <<table, refs, fdOpen, undef, loaded, name, map, node, found>>

-----------------------------------------------------------------------------
(* Operations that walk a bucket.                                          *)

(* Task t calls operation op on name nm; its walk runs at program counter  *)
(* at.                                                                     *)
Begin(t, op, at, nm) ==
    /\ op \in Ops /\ loaded
    /\ Goto(t, "idle", at)
    /\ name' = [name EXCEPT ![t] = nm]
    /\ WalkFrom(t, nm)
    /\ UNCHANGED <<number, table, refs, fdOpen, undef, loaded, map>>

(* The end of the chain. *)
End(t, at, to) ==
    /\ node[t] = Null
    /\ Goto(t, at, to)
    /\ UNCHANGED <<number, table, refs, fdOpen, undef, loaded, name, map, node,
                   found>>

(* fstore_unregister(map_name) *)
UnregisterBegin(t, nm) == Begin(t, "unregister", "delete", nm)

(* Mutant: the next node is read after kfree(). *)
DeleteVisitUnsafe(t) ==
    /\ ~undef /\ pc[t] = "delete" /\ node[t] \in live
    /\ live' = live \ {node[t]}
    /\ number' = number - 1
    /\ MapPut(mapOf[node[t]])
    /\ UNCHANGED <<nameOf, mapOf, nextNode, fdOpen, undef, loaded, locals>>

(* fstore_delete(item): out of the table and the count, its map released,  *)
(* freed at once.  The macro has read the next node before.                *)
DeleteVisit(t) ==
    /\ Visit(t, "delete")
    /\ live' = live \ {node[t]}
    /\ number' = number - 1
    /\ MapPut(mapOf[node[t]])
    /\ UNCHANGED <<nameOf, mapOf, nextNode, fdOpen, undef, loaded, pc, name, map>>

DeleteEnd(t) == End(t, "delete", "idle")

(* fstore_get(map_name, ...): a reference to the map of every node, the    *)
(* last one is read and released.                                          *)
GetBegin(t, nm) == Begin(t, "get", "get", nm)

GetVisit(t) ==
    /\ Visit(t, "get")
    /\ MapInc(mapOf[node[t]])
    /\ map' = [map EXCEPT ![t] = mapOf[node[t]]]
    /\ UNCHANGED <<number, table, fdOpen, undef, loaded, pc, name>>

GetEnd(t) == End(t, "get", IF found[t] THEN "copy" ELSE "idle")

GetCopy(t) ==
    /\ Goto(t, "copy", "idle")
    /\ MapPut(map[t])
    /\ UNCHANGED <<number, table, fdOpen, undef, loaded, name, map, node, found>>

(* GET_MAPPED: fstore_get_map_array_start takes a reference to the map of  *)
(* the first node and checks the caller's idea of its limits; an error     *)
(* keeps the reference.                                                    *)
MappedBegin(t, nm) == Begin(t, "mapped", "first", nm)

FirstVisit(t) ==
    /\ ~undef /\ pc[t] = "first" /\ node[t] \in live
    /\ MapInc(mapOf[node[t]])
    /\ map' = [map EXCEPT ![t] = mapOf[node[t]]]
    /\ pc' = [pc EXCEPT ![t] = "check"]
    /\ UNCHANGED <<number, table, fdOpen, undef, loaded, name, node, found>>

FirstNone(t) == End(t, "first", "idle")

CheckLimits(t) ==
    /\ \/ Goto(t, "check", "using")
       \/ ~LimitsKnown /\ Goto(t, "check", "idle")
    /\ UNCHANGED <<number, table, refs, fdOpen, undef, loaded, name, map, node,
                   found>>

(* fstore_put_map_array(map_name) releases the map of every node that the  *)
(* bucket has now.                                                         *)
PutBegin(t) ==
    /\ Goto(t, "using", "put")
    /\ WalkFrom(t, name[t])
    /\ UNCHANGED <<number, table, refs, fdOpen, undef, loaded, name, map>>

PutVisit(t) ==
    /\ Visit(t, "put")
    /\ MapPut(mapOf[node[t]])
    /\ UNCHANGED <<number, table, fdOpen, undef, loaded, pc, name, map>>

PutEnd(t) == End(t, "put", "idle")

(* fstore_get_value_size and fstore_get_num_keys only read the maps. *)
PeekBegin(t, nm) == Begin(t, "peek", "peek", nm)

PeekVisit(t) ==
    /\ Visit(t, "peek")
    /\ refs[mapOf[node[t]]] > 0
    /\ UNCHANGED <<number, table, refs, fdOpen, undef, loaded, pc, name, map>>

PeekEnd(t) == End(t, "peek", "idle")

-----------------------------------------------------------------------------
(* Everything else.                                                        *)

(* A freed node, or a map without a reference, is used. *)
UsesFreed(t) ==
    \/ pc[t] \in Walking /\ node[t] # Null /\ node[t] \notin live
    \/ pc[t] \in Walking \ {"scan"} /\ node[t] \in live /\ refs[mapOf[node[t]]] = 0
    \/ pc[t] \in {"copy", "put_map"} /\ refs[map[t]] = 0

Undefined(t) ==
    /\ ~undef /\ UsesFreed(t)
    /\ undef' = TRUE
    /\ UNCHANGED <<number, table, refs, fdOpen, loaded, locals>>

(* The process that created map m closes it. *)
CloseFd(m) ==
    /\ ~undef /\ fdOpen[m]
    /\ fdOpen' = [fdOpen EXCEPT ![m] = FALSE]
    /\ MapPut(m)
    /\ UNCHANGED <<number, table, undef, loaded, locals>>

(* cleanup_module: every node is deleted.  The kernel unloads a module     *)
(* only when nobody uses it. *)
Unload ==
    /\ ~undef /\ loaded
    /\ \A t \in Tasks : pc[t] = "idle"
    /\ \A m \in Maps : refs[m] >= Cardinality({n \in live : mapOf[n] = m})
    /\ loaded' = FALSE
    /\ live' = {}
    /\ number' = number - Cardinality(live)
    /\ refs' = [m \in Maps |-> refs[m] - Cardinality({n \in live : mapOf[n] = m})]
    /\ UNCHANGED <<nameOf, mapOf, nextNode, fdOpen, undef, locals>>

Register(t) ==
    \/ \E nm \in Names, m \in Maps : RegisterReserve(t, nm, m)
    \/ RegisterHead(t) \/ ScanVisit(t) \/ ScanEnd(t) \/ RegisterMapGet(t)
    \/ RegisterAdd(t) \/ RegisterNoMem(t) \/ RegisterPutMap(t)
    \/ RegisterUncount(t)

Unregister(t) == \/ \E nm \in Names : UnregisterBegin(t, nm)
                 \/ DeleteVisit(t) \/ DeleteEnd(t)

Read(t) ==
    \/ \E nm \in Names : GetBegin(t, nm) \/ MappedBegin(t, nm) \/ PeekBegin(t, nm)
    \/ GetVisit(t) \/ GetEnd(t) \/ GetCopy(t)
    \/ FirstVisit(t) \/ FirstNone(t) \/ CheckLimits(t)
    \/ PutBegin(t) \/ PutVisit(t) \/ PutEnd(t)
    \/ PeekVisit(t) \/ PeekEnd(t)

Next ==
    \/ \E t \in Tasks : Register(t) \/ Unregister(t) \/ Read(t) \/ Undefined(t)
    \/ \E m \in Maps : CloseFd(m)
    \/ Unload

Spec == Init /\ [][Next]_vars

-----------------------------------------------------------------------------
(* Properties                                                              *)

Idle == \A t \in Tasks : pc[t] = "idle"

At(S) == {t \in Tasks : pc[t] \in S}

NodesOf(m) == {n \in live : mapOf[n] = m}

(* number_maps counts the nodes of the table and the reservations of the   *)
(* fstore_register calls in progress, however registrations, deletions and *)
(* failures interleave.                                                    *)
CountMatches ==
    number = Cardinality(live) + Cardinality(At(Reserved))

(* The limit check of fstore_register cannot be outrun: tasks past it and  *)
(* nodes in the table stay below FSTORE_SIZE together.                     *)
CapacityRespected ==
    Cardinality(live) + Cardinality(At(Admitted)) < FSTORE_SIZE

(* Tasks that hold a reference to map m. *)
Holders(m) ==
    {t \in Tasks : /\ map[t] = m
                   /\ \/ pc[t] \in {"alloc", "put_map", "copy", "check", "using"}
                      \/ pc[t] = "get" /\ found[t]}

(* A map has a reference for its descriptor, for every node that points to *)
(* it and for every task that works on it: neither an unregistration nor   *)
(* the owner's close() frees a map that is still in use.                   *)
RefsCover ==
    \A m \in Maps :
        refs[m] >= (IF fdOpen[m] THEN 1 ELSE 0) + Cardinality(NodesOf(m))
                     + Cardinality(Holders(m))

(* With one caller at a time no reference leaks: between calls a map has   *)
(* one for its descriptor and one for every node, and none after both the  *)
(* close() and the unregistration, or cleanup_module.                      *)
RefsBalanced ==
    Idle => \A m \in Maps :
        refs[m] = (IF fdOpen[m] THEN 1 ELSE 0) + Cardinality(NodesOf(m))

(* With one caller at a time a bucket has at most one node: the -EEXIST    *)
(* check of fstore_register sees every earlier registration.               *)
OneNodePerBucket ==
    \A n, k \in live : Bucket[nameOf[n]] = Bucket[nameOf[k]] => n = k

(* With one caller at a time no freed memory is used. *)
NeverUndefined == ~undef
=============================================================================
