------------------------------- MODULE RegMap -------------------------------
(***************************************************************************)
(* Where an access to a register ends up: through the ioctls DBG_READ_REG  *)
(* and DBG_WRITE_REG (src/ls-dbg/module/reg_access.c) with the table that  *)
(* Devices fills, through the dispatch of the virtual counters             *)
(* (vir_cntrs.c), and through the files of debugfs.                        *)
(*                                                                         *)
(* An access to a device changes no state of the driver; one to the        *)
(* virtual counters goes on in the handlers that VirCntrs and VcntCtrl     *)
(* model.                                                                  *)
(***************************************************************************)
EXTENDS Devices

\* Mutant: the byte after the last is still inside
JustBeyond(offset, size) == offset > size

Beyond(offset, size) == offset >= size

Failed(error)     == [ret |-> error, base |-> Null, at |-> 0]
Found(id, offset) == [ret |-> "ok", base |-> maps[id].base, at |-> offset]

\* reg_find_map_io with 0 .. NUM_IO_IDS - 1, reg_find_map_ram with the others
FindMap(ids, id, offset) ==
    IF id \notin ids THEN Failed("EINVAL")
    ELSE IF Beyond(offset, maps[id].size) THEN Failed("EFAULT")
    ELSE Found(id, offset)

IsIoMapped(id) == id \in 0 .. NUM_IO_IDS - 1

Locate(id, offset) ==
    IF IsIoMapped(id) THEN FindMap(0 .. NUM_IO_IDS - 1, id, offset)
                      ELSE FindMap(VCOUNT .. NUM_IDS - 1, id, offset)

----------------------------------------------------------------------------
(* vcounter_reg_read and vcounter_reg_write.                               *)

\* LS_DBG_EPU_EPCTRISR_OFFSET and the others of vir_cntrs.h
EPCTRISR == \h030
EPECR    == \h300
EPGACR   == \h480
EPCTRGCR == \h540
EPCAPR   == \hB00

\* Mutant: the dispatch forgets the padding before vcntr
VcntrStartsEarly == 68

VcntrStart == OffsetOf(vcounters, "vcntr")

\* The handlers of the vcntrepecr files divide to find their event; the others
\* use the address as it is
Dispatch(at) ==
    LET epecr == OffsetOf(vcounters, "vcntrepecr")
        capt  == OffsetOf(vcounters, "vcntrcapt")
    IN  CASE at < epecr -> <<"vcntctrl", at>>
          [] epecr <= at /\ at < VcntrStart -> <<"vcntrepecr", (at - epecr) \div 4>>
          [] VcntrStart <= at /\ at < capt -> <<"vcntr", at - VcntrStart>>
          [] OTHER -> <<"vcntrcapt", at - capt>>

\* How many bytes an access takes: vcntr and vcntrcapt are u64 whatever the
\* reg_size of the call is, everything else is 32 bits
AccessBytes(id, at) ==
    IF ~IsIoMapped(id) /\ Dispatch(at)[1] \in {"vcntr", "vcntrcapt"} THEN 8 ELSE 4

\* The group's word is this far from that of the group before: CTCC sits in bits
\* 4-6 and is shifted up by 20
GroupStride == 4 * 16 * 1048576

\* What a read and a write of vcntrepecr access of the EPU.  For the write,
\* ctcc is the field of EPGACR that names the group (see group_j in VirCntrs)
\* and group what EPCTRGCR says; the loop over it ends behind its last counter.
ReadAccesses(event) == {EPECR + 4 * event}

WriteAccesses(event, ctcc, group) ==
    {EPGACR + 4 * event, EPCTRGCR + ctcc * GroupStride, EPECR + 4 * event, EPCTRISR}
        \union {EPCAPR + 4 * k : k \in group}
        \union {EPCTRISR + 4 * n : n \in {0} \union {k + 1 : k \in group}}

EpuReached(offsets) == \A offset \in offsets : Locate(Id.epu, offset).ret = "ok"

\* What the handlers return.  That vcntepecr_get and vcntepecr_set may wait for
\* vc_lock, for ever if it has been leaked, is in VirCntrs.
Handled(r, found) ==
    LET element == Dispatch(found.at)
        accesses == IF r.cmd = "read" THEN ReadAccesses(element[2])
                    ELSE WriteAccesses(element[2], r.ctcc, r.group)
    IN  IF element[1] = "vcntrepecr" /\ ~EpuReached(accesses)
        THEN Failed("EFAULT") ELSE found

----------------------------------------------------------------------------
(* The ioctls.                                                             *)

\* Mutant: what the handlers return is not looked at
HandlerIgnored(r) == Locate(r.id, r.offset)

\* ls_dbg_read_reg_internal and ls_dbg_write_reg_internal
Internal(r) ==
    LET found == Locate(r.id, r.offset)
    IN  IF found.ret = "ok" /\ ~IsIoMapped(r.id) THEN Handled(r, found) ELSE found

\* r.args says whether the arguments can be read, r.buffer whether the user's
\* buffer can be accessed.  A read faults on it after the register has been
\* read, a write before anything is looked up.
reg_access(r) ==
    IF ~r.args                               THEN Failed("EFAULT")
    ELSE IF r.reg_size \notin {32, 64}       THEN Failed("EINVAL")
    ELSE IF r.cmd = "write" /\ ~r.buffer     THEN Failed("EFAULT")
    ELSE LET answer == Internal(r)
         IN  IF answer.ret = "ok" /\ ~r.buffer THEN Failed("EFAULT") ELSE answer

----------------------------------------------------------------------------
(* The register that resource_reserve works on.                            *)

\* LS_DBG_EPU_*_RES_OFFSET_IND
ResourceOffset == [COUNTER |-> 0, GROUP |-> 4, SCU_EVENT |-> 8, GDPESCR |-> 32]

\* Mutant: counted from the number of registers, not from the last
ResourceIndexPast(n) == 60 - n

ResourceIndex(n) == 60 - 1 - n

ResourceWord(grp) ==
    [ret |-> "ok", base |-> epu_ptr,
     at |-> EprsrvStart + 4 * ResourceIndex(ResourceOffset[grp])]

----------------------------------------------------------------------------
(* Properties.                                                             *)

TypeOK ==
    /\ pc \in {"adding", "root", "misc", "files", "vcounters", "live", "broken"}
    /\ nk \in DOMAIN Order
    /\ pc = "adding" => index < np
    /\ \A d \in ToSet(devs) : d.kind \in Kinds
    /\ DOMAIN maps = 0 .. NUM_IDS - 1
    /\ misc \in BOOLEAN
    /\ \A d \in ToSet(dirs) : d.kind \in Kinds /\ d.dir \in {0, 1}
    /\ failures \in 0 .. MaxFailures

\* The device trees that the ids of enum TRACEIP_MODULE are made for: every
\* range has an id that no other range of its kind and no other kind can take
FitsIds(t) ==
    \A kind \in Kinds : \A n \in DOMAIN t[kind] :
        /\ n < Len(t[kind]) => Len(t[kind][n]) <= 1
        /\ \A i \in Ranges(t[kind][n]) :
              /\ Id[kind] + n - 1 + i < NUM_IO_IDS
              /\ \A k \in Kinds : Id[k] > Id[kind] => Id[kind] + n - 1 + i < Id[k]

\* and those that the reservations are made for: at most one EPU, with room for
\* its map
FitsEpu(t) ==
    /\ Len(t.epu) <= 1
    /\ \A n \in DOMAIN t.epu : 0 \in Ranges(t.epu[n]) => t.epu[n][1] >= SizeOf(epu_v2)

\* and those that the files are made for: where a kind has one node, it has the
\* ranges that its directories show, with room for every file
FitsFiles(t) ==
    \A kind \in Kinds : Len(t[kind]) = 1 =>
        \A place \in ToSet(DirsOf(kind)) :
            /\ place.range \in Ranges(t[kind][1])
            /\ \A f \in ToSet(files[kind]) :
                  place.base + f.at \in 0 .. t[kind][1][place.range + 1] - 1

\* The ranges that are mapped
MappedRanges ==
    {d.ptr[i] : d \in ToSet(devs), i \in 0 .. MAX_MEM_RANGE - 1} \ {Null}

Entries == {id \in 0 .. NUM_IO_IDS - 1 : maps[id].size > 0}

\* Whatever has failed: while the ioctls can be called, each mapped range has
\* exactly one entry, of its own size, each entry stands for a range that is
\* mapped, and an id of one kind never leads to a device of another
\* (ls_dbg.c:108-110, 201-202).
EntriesAreRanges ==
    misc =>
        /\ \A r \in MappedRanges :
              Cardinality({id \in Entries : maps[id].base = r}) = 1
        /\ \A id \in Entries :
              /\ maps[id].base \in MappedRanges
              /\ LET r == maps[id].base
                 IN  /\ maps[id].size = tree[r[1]][r[2]][r[3] + 1]
                     /\ Id[r[1]] <= id
                     /\ \A kind \in Kinds : Id[kind] <= id => Id[kind] <= Id[r[1]]

\* The offsets that matter: the first and the last word of a map, those after
\* it, and one far beyond, as in test_ls_dbg.c; of VCOUNT also the first and the
\* last word of vcntrepecr and the first of vcntr
Boundary(size) == {0, 4, 64, 72, size - 4, size, size + 4, \h100000} \cap Nat

MapSize(id) == IF id < NUM_IDS THEN maps[id].size ELSE 4096

Requests(ids, offsets, ctccs, groups) ==
    [cmd : {"read", "write"}, id : ids, offset : offsets, reg_size : {8, 32, 64},
     args : BOOLEAN, buffer : BOOLEAN, ctcc : ctccs, group : groups]

\* The arguments and the buffer can be accessed, the size is known, the id has
\* an entry and the word lies wholly inside what is mapped there
Legal(r) ==
    /\ r.args /\ r.buffer /\ r.reg_size # 8
    /\ r.id < NUM_IDS
    /\ r.offset + 4 <= MapSize(r.id)

\* The words of vcntrepecr, and the padding behind them
NamesEvent(r) ==
    r.id = VCOUNT /\ OffsetOf(vcounters, "vcntrepecr") <= r.offset
                  /\ r.offset < OffsetOf(vcounters, "vcntr")

\* An EPU is mapped, all of it and not another 64 MB
WholeEpu == SizeOf(epu_v2) <= maps[Id.epu].size /\ maps[Id.epu].size <= GroupStride

\* Only a legal call succeeds, and it reaches the word it names, with no byte
\* beyond the map unless that word is the last half of vcntrcapt, where a u64
\* is accessed (vir_cntrs.c:379, 407).
ReachesItsWord(r) ==
    reg_access(r).ret = "ok" =>
        /\ Legal(r)
        /\ reg_access(r).base = maps[r.id].base /\ reg_access(r).at = r.offset
        /\ \/ r.offset + AccessBytes(r.id, r.offset) <= maps[r.id].size
           \/ r.id = VCOUNT /\ r.offset + 4 = maps[VCOUNT].size

\* Every legal call succeeds, but that of a vcntrepecr word needs the EPU, and
\* a capture the group 0 (vir_cntrs.c:204).
ServesLegal(r) ==
    Legal(r) =>
        /\ ~NamesEvent(r) => reg_access(r).ret = "ok"
        /\ NamesEvent(r) /\ maps[Id.epu].size = 0 => reg_access(r).ret = "EFAULT"
        /\ NamesEvent(r) /\ WholeEpu
              => (reg_access(r).ret = "ok" <=> r.cmd = "read" \/ r.ctcc = 0)

\* A bad size or a bad id is EINVAL unless the arguments, or the buffer of a
\* write, cannot be accessed.
RefusesRightly(r) ==
    reg_access(r).ret = "EINVAL" <=>
        r.args /\ (r.reg_size = 8 \/ (r.id >= NUM_IDS /\ (r.cmd = "write" => r.buffer)))

\* An ioctl reaches the word it names or fails with the right error, and never
\* succeeds where the handler behind the word has failed (reg_access.c:66-212,
\* 376-405; vir_cntrs.c:356-413; test_ls_dbg.c:297-383).
IoctlReachesRegister ==
    misc => \A id \in 0 .. NUM_IDS :
        \A r \in Requests({id}, Boundary(MapSize(id)), {0, 1}, {{}, {31}}) :
            ReachesItsWord(r) /\ ServesLegal(r) /\ RefusesRightly(r)

\* The directories of the ETM and of the funnels both show their first range
ShowsAnother(d) == d.kind \in {"etm", "cstf"} /\ d.dir = 1

\* The id of the range that a directory is about
IdOfDir(d) == Id[d.kind] + IF d.kind = "core" THEN 0 ELSE d.dir

\* When nothing has failed, a file of a kind with one node, and the ioctl with
\* the id and the offset of its register reach the same word, but for etm1 and
\* cstf1 (dcsr_etf.c:33 against dcsr_etm.c:29 and dcsr_cstf.c:29).  With two
\* nodes the directories are those of the last.
FilesMeetIoctls ==
    misc /\ failures = 0 => \A d \in ToSet(dirs) :
        Len(tree[d.kind]) = 1 /\ ~ShowsAnother(d) =>
        \A f \in ToSet(files[d.kind]) :
            LET found == Locate(IdOfDir(d), d.at + f.at)
            IN  found.ret = "ok" /\ found.base = d.base

\* Once the EPU has its directory, the reservations of a group are the bits of
\* the register that the file eprsrv shows under the group's number, and that
\* the ioctls reach at its offset (reg_access.c:241-275, dcsr_epu.c:55, 114).
ReservationsMeetFiles ==
    \A d \in {x \in ToSet(dirs) : x.kind = "epu" /\ x.base # Null} :
        \A grp \in DOMAIN ResourceOffset : \A f \in EprsrvFiles :
            f.num = ResourceOffset[grp]
                => /\ Locate(Id.epu, f.at) = ResourceWord(grp)
                   /\ d.base = ResourceWord(grp).base

\* The struct through which a device gets its files puts every register where
\* the next bound of its gaps and, for the EPU, the offsets of vir_cntrs.h:28-34
\* say, and has the size that its header asserts.
LayoutsFit == {d.kind : d \in ToSet(dirs)} \subseteq FittingKinds

\* A directory has one file for each register of the device and no other.  Only
\* the files of the GDI's comparators, from \h300 on, are each one comparator
\* too far: the first has none, and those of the eighth are beyond the device
\* (dcsr_gdi.c:46).
OneFileEach(kind) ==
    LET shown == {f.at : f \in ToSet(files[kind])}
        expected(at) == IF kind = "gdi" /\ at >= \h300 THEN at + 16 ELSE at
    IN  /\ shown = {expected(at) : at \in RegistersOf(layout[kind])}
        /\ Cardinality(shown) = Len(files[kind])

\* The numbers of a family of files go with the addresses, downwards for the
\* reserved registers and the semaphores of the EPU
InOrder(f, g) ==
    f.stem = g.stem /\ f.num < g.num =>
        IF f.stem \in {"eprsrv", "ephsr"} THEN f.at > g.at ELSE f.at < g.at

\* When nothing has failed, the files of a device show each of its registers
\* once, under its own number (dcsr_epu.c:114-122 number two families
\* downwards).
FilesAreRegisters ==
    pc = "live" /\ failures = 0 => \A kind \in {d.kind : d \in ToSet(dirs)} :
        /\ OneFileEach(kind)
        /\ \A f, g \in ToSet(files[kind]) : InOrder(f, g)

\* Each element of struct vcounters, accessed through the ioctl at its own
\* offset, is found in the table and dispatched to itself, whatever came of probe
\* (vir_cntrs.c:356-413, 586).
DispatchHitsElement ==
    pc = "live" => \A n \in {m \in DOMAIN vcounters : vcounters[m].name # "reserved"} :
        LET f == vcounters[n]
        IN  \A j \in 0 .. f.n - 1 :
                LET found == Locate(VCOUNT, OffsetAt(vcounters, n) + j * f.stride)
                IN  /\ found.ret = "ok" /\ found.base = RamBase
                    /\ Dispatch(found.at)
                          = <<f.name, IF f.name = "vcntrepecr" THEN j ELSE j * f.stride>>
============================================================================
