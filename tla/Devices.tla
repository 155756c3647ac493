------------------------------ MODULE Devices ------------------------------
(***************************************************************************)
(* How the devices get into the table of maps and into debugfs (dcsr_probe *)
(* and add_compatible_devices in src/ls-dbg/module/ls_dbg.c, reg_add_map   *)
(* in reg_access.c, the directories of dcsr_*.c, and vcounters_init), with *)
(* the failures the code goes on after.                                    *)
(*                                                                         *)
(* A mapped range stands for its address: <<kind, node, i>> is range i of  *)
(* the node-th device of its kind in the device tree.                      *)
(***************************************************************************)
EXTENDS Debugfs, FiniteSets, SequencesExt

CONSTANTS
    Trees,         \* device trees: the sizes of the ranges of the nodes of
                   \* each kind
    MaxFailures    \* bound: allocations, mappings and files that fail

\* A tree lists the nodes of every kind, and a range is made of whole words
ASSUME TreesAssumption ==
    \A t \in Trees :
        /\ DOMAIN t = Kinds
        /\ \A kind \in Kinds :
              /\ t[kind] \in Seq(Seq(Nat))
              /\ \A n \in DOMAIN t[kind] : \A r \in DOMAIN t[kind][n] :
                    t[kind][n][r] > 0 /\ t[kind][n][r] % 4 = 0

ASSUME FailuresAssumption == MaxFailures \in Nat

MAX_MEM_RANGE == 2
NUM_IO_IDS    == 10
VCOUNT        == NUM_IO_IDS
NUM_IDS       == VCOUNT + 1

\* enum TRACEIP_MODULE: the id of the first range of each kind
Id == [etm |-> 0, etr |-> 2, etf |-> 3, cstf |-> 5, epu |-> 7, gdi |-> 8, core |-> 9]

\* The order in which dcsr_probe looks for them
Order == <<"etf", "etr", "etm", "cstf", "epu", "gdi", "core">>

Null      == <<>>
RamBase   == <<"ls_dbg_vcnt">>
NoMapInfo == [base |-> Null, size |-> 0]

VARIABLES
    tree,          \* the device tree
    pc,            \* where the loading of the module is
    nk,            \* index in Order of the kind that is looked for
    np,            \* the next node of that kind, or the next device of devs
    index,         \* index of add_compatible_devices
    devs,          \* dbg_devs, its head first: the kinds and mem_ptr
    maps,          \* maps
    misc,          \* /dev/ls-dbg is registered
    dirs,          \* the directories made: for each, the range it shows, the
                   \* place in it, and whether all its files were made
    epu_ptr,       \* ls_dbg_epu_ptr
    failures       \* ghost: how much has failed

vars == <<tree, pc, nk, np, index, devs, maps, misc, dirs, epu_ptr, failures>>

Init ==
    /\ tree \in Trees
    /\ pc = "adding" /\ nk = 1 /\ np = 1 /\ index = 0
    /\ devs = <<>>
    /\ maps = [id \in 0 .. NUM_IDS - 1 |-> NoMapInfo]
    /\ misc = FALSE
    /\ dirs = <<>>
    /\ epu_ptr = Null
    /\ failures = 0

----------------------------------------------------------------------------
(* add_compatible_devices.                                                 *)

\* reg_add_map ignores an id that is out of range
AddMap(m, id, base, size) ==
    IF id \in DOMAIN m THEN [m EXCEPT ![id] = [base |-> base, size |-> size]] ELSE m

\* Mutant: the ranges of a device share an entry
EntryOfDevice(id, n, i) == id + n

EntryOf(id, n, i) == id + n + i

Ranges(node) == {i \in 0 .. MAX_MEM_RANGE - 1 : i < Len(node)}

\* Mutant: a range that could not be mapped is recorded as well
RecordedAnyway(node, mapped) == Ranges(node)

Recorded(node, mapped) == mapped

\* One node: its MAX_MEM_RANGE ranges are mapped, of which some may fail, and
\* entered one after the other
AddDevice ==
    LET kind == Order[nk]
        node == tree[kind][np]
        base(i) == <<kind, np, i>>
    IN  /\ pc = "adding"
        /\ np <= Len(tree[kind])
        /\ \E mapped \in SUBSET Ranges(node) :
              LET failed == Cardinality(Ranges(node)) - Cardinality(mapped)
                  enter(m, i) ==
                      IF i \in Recorded(node, mapped)
                      THEN AddMap(m, EntryOf(Id[kind], index, i), base(i), node[i + 1])
                      ELSE m
              IN  /\ failures + failed <= MaxFailures
                  /\ failures' = failures + failed
                  /\ maps' = enter(enter(maps, 0), 1)
                  /\ devs' = <<[kind |-> kind,
                                ptr  |-> [i \in 0 .. MAX_MEM_RANGE - 1 |->
                                             IF i \in mapped THEN base(i) ELSE Null]]>>
                             \o devs
        /\ index' = index + 1
        /\ np' = np + 1
        /\ UNCHANGED <<tree, pc, nk, misc, dirs, epu_ptr>>

\* Without memory for it a node is passed over, and index stays
SkipDevice ==
    /\ pc = "adding"
    /\ np <= Len(tree[Order[nk]])
    /\ failures < MaxFailures
    /\ failures' = failures + 1
    /\ np' = np + 1
    /\ UNCHANGED <<tree, pc, nk, index, devs, maps, misc, dirs, epu_ptr>>

\* Mutant: index goes on from one kind to the next
KeptIndex == index

FirstIndex == 0

NextKind ==
    /\ pc = "adding"
    /\ np > Len(tree[Order[nk]])
    /\ IF nk < Len(Order) THEN nk' = nk + 1 /\ pc' = pc ELSE nk' = nk /\ pc' = "root"
    /\ np' = 1 /\ index' = FirstIndex
    /\ UNCHANGED <<tree, devs, maps, misc, dirs, epu_ptr, failures>>

----------------------------------------------------------------------------
(* The rest of dcsr_probe.                                                 *)

RemoveDevices == <<>>

\* The exit err: what was entered into maps stays, and so does the root
Fail ==
    /\ failures < MaxFailures
    /\ failures' = failures + 1
    /\ devs' = RemoveDevices
    /\ pc' = "vcounters"
    /\ UNCHANGED <<tree, nk, np, index, maps, misc, dirs, epu_ptr>>

CreateRoot ==
    /\ pc = "root"
    /\ \/ /\ pc' = "misc"
          /\ UNCHANGED <<tree, nk, np, index, devs, maps, misc, dirs, epu_ptr, failures>>
       \/ Fail

RegAccessInit ==
    /\ pc = "misc"
    /\ \/ /\ misc' = TRUE
          /\ pc' = "files" /\ np' = 1
          /\ UNCHANGED <<tree, nk, index, devs, maps, dirs, epu_ptr, failures>>
       \/ Fail

Made == {<<d.kind, d.dir>> : d \in ToSet(dirs)}

\* The directories a device gets: it stops at the first that exists
NewDirs(dev) ==
    LET all == DirsOf(dev.kind)
        taken == {j \in DOMAIN all : <<dev.kind, all[j].dir>> \in Made}
        upto == IF taken = {} THEN Len(all) ELSE Min(taken) - 1
    IN  [j \in 1 .. upto |->
            [kind |-> dev.kind, dir |-> all[j].dir, base |-> dev.ptr[all[j].range],
             at |-> all[j].base, whole |-> TRUE]]

\* dbgfs_init_fn of the next device.  It ends when a file or a directory cannot
\* be made, leaving what it has made; nobody looks at what it returns.
CreateFiles ==
    /\ pc = "files"
    /\ np <= Len(devs)
    /\ LET new == NewDirs(devs[np])
       IN  \/ dirs' = dirs \o new /\ UNCHANGED failures
           \/ /\ failures < MaxFailures
              /\ new # <<>>
              /\ failures' = failures + 1
              /\ \/ dirs' = dirs
                 \/ \E j \in DOMAIN new :
                       dirs' = dirs \o [SubSeq(new, 1, j) EXCEPT ![j].whole = FALSE]
    /\ epu_ptr' = IF devs[np].kind = "epu" THEN devs[np].ptr[0] ELSE epu_ptr
    /\ np' = np + 1
    /\ UNCHANGED <<tree, pc, nk, index, devs, maps, misc>>

Probed ==
    /\ pc = "files"
    /\ np > Len(devs)
    /\ pc' = "vcounters"
    /\ UNCHANGED <<tree, nk, np, index, devs, maps, misc, dirs, epu_ptr, failures>>

\* vcounters_init, whatever came of probe
VcountersInit ==
    /\ pc = "vcounters"
    /\ \/ /\ maps' = AddMap(maps, VCOUNT, RamBase, SizeOf(vcounters))
          /\ pc' = "live" /\ UNCHANGED failures
       \/ /\ failures < MaxFailures
          /\ failures' = failures + 1
          /\ pc' = "broken" /\ UNCHANGED maps
    /\ UNCHANGED <<tree, nk, np, index, devs, misc, dirs, epu_ptr>>

Next ==
    \/ AddDevice \/ SkipDevice \/ NextKind
    \/ CreateRoot \/ RegAccessInit \/ CreateFiles \/ Probed
    \/ VcountersInit

Spec == Init /\ [][Next]_vars
============================================================================
