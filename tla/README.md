# ls-dbg in TLA+

ls-dbg is a Linux driver for the debug hardware of the LS1021A: it shows the
registers of the trace and event units to user space, extends the 32-bit event
counters of the EPU in software ("virtual counters"), and keeps the bits by
which tools reserve debug resources. These modules model the driver, check it
with TLC and prove the main results with TLAPS. All paths are relative to the
repository; `vir_cntrs.c`, `reg_access.c` and `ls_dbg.c` are in
`ls-dbg/module/`.

## 1. The system

| Component | State | Operations | Interacts with |
|---|---|---|---|
| Virtual counters (`vir_cntrs.c`) | `ls_dbg_vcnt`: `vcntctrl`, `vcntrepecr[16]`, `vcntr[32]`, `vcntrcapt[32]`; `vc_lock`; in the EPU `epctr`, `epctrisr`, `epcapr` | overflow interrupt, write and read of `vcntrepecr` (capture), write and read of `vcntr`, `vcntrcapt` | EPU through the table of maps; files and ioctls of any process |
| Interrupt binding (`vcntrctrl`, same file) | `vcntctrl`, `intr_overflow.num`, `epccr` | enable, disable | kernel interrupts; module removal |
| Reservations (`resource_reserve` in `reg_access.c`) | four `eprsrv` registers, `reg_acc_lock` | RESERVE, RELINQ, GET_USAGE | every tool that has `/dev/ls-dbg` open |
| Register access (`reg_access.c`) | `maps` | DBG_READ_REG, DBG_WRITE_REG, `reg_add_map` | user buffers, all registers, the virtual counters as module VCOUNT |
| Lifecycle (`ls_dbg.c`) | list of devices, debugfs root, misc device | probe, remove, init, exit | everything above |
| debugfs files (`dcsr_*.c`) | none | one file per register | EPU, ETM, ETF, ETR, CSTF, GDI, core |

### Where it is hard, and what has to hold

*Virtual counters.* Three kinds of code meet without a common lock: the
interrupt handler, which reads EPCTRISR before it takes `vc_lock`; the captures,
which hold the lock over a dozen register accesses while the counters go on;
and plain stores into `vcntr` and `vcntrcapt`, which take no lock at all. An
overflow is first acknowledged in EPCTRISR and then counted, bit by bit, by
load and store. What has to hold: no overflow is lost; none is counted twice;
a captured 64-bit value has both halves from the right side of an overflow, and
captures do not run backwards; the lock is released on every path; every
overflow is counted eventually.

*Reservations.* A reservation is one bit of a register that several tools
change by read-modify-write; the driver keeps no owner. What has to hold: a
call takes effect as if in one step; no resource has two owners; no bit is
changed by a call about another bit.

*Interrupt binding and lifecycle.* The enable bit is tested and acted upon
without a lock; a failed binding is recorded as a success; the register ioctl
stores the word and binds nothing; removal unbinds the interrupt before it
removes the files that bind it. What has to hold: the
handler is registered exactly while the bit says so, it is freed once, and it
never runs on an unmapped EPU; what loading makes, unloading unmakes.

*Register access, debugfs.* Loading maps the devices one by one, goes on after
most failures and leaves a table of maps, a list of devices and directories of
files, while the ioctls can already be called. Three ways lead to a register,
each by arithmetic of its own: an ioctl through the table, a file through a
struct that is padded by hand, a reservation through a pointer of its own. What
has to hold: an access stays inside the map it names, and its error, also that of
a handler of the virtual counters behind it, reaches the caller; two ranges have two
entries; each file shows the register it is named for; the three ways agree.

## 2. The modules

| Module | Models | Notes |
|---|---|---|
| `VirCntrs` | interrupt handler, captures, writers of the files, the EPU's counters | detailed specification |
| `OverflowCounter` | what a virtual counter promises | abstract; `VirCntrs` implements it through `Promise` |
| `MCVirCntrs` | constants of `VirCntrs` for TLC | |
| `Reservation` | `resource_reserve` | detailed specification |
| `Semaphores` | what the reservation ioctls promise | abstract; `Reservation` implements it through `Semaphore` |
| `MCReservation` | constants of `Reservation` for TLC | |
| `VcntCtrl` | `vcntrctrl_set`, bind, unbind, the handler as the kernel sees it | operations, composed by `Lifecycle` |
| `Lifecycle` | module init, probe, remove, exit, the processes that write `vcntrctrl` | detailed specification |
| `IrqLine` | what the driver promises of the interrupt line | abstract; `Lifecycle` implements it through `Promise` |
| `Layouts` | the structs of `ls-common` and `struct vcounters`: fields, gaps, offsets | functions |
| `Debugfs` | the files of the devices and the directories each device gets | functions on `Layouts` |
| `Devices` | `dcsr_probe` and `add_compatible_devices` device by device, `reg_add_map`, the directories | state machine on `Debugfs` |
| `RegMap` | `reg_access`, the lookups, the dispatch of VCOUNT, the register of a reservation | functions on the state of `Devices`, with the properties |
| `MCRegMap` | device trees for TLC | |
| `VirCntrsProofs`, `CaptureProofs`, `VirCntrsRefinement` | theorems about `VirCntrs` | checked by tlapm, like the next three rows |
| `ReservationProofs`, `LifecycleProofs` | theorems about `Reservation` and `Lifecycle` | |
| `LayoutProofs` | lemmas about the offsets of a layout, and about the structs field by field | |
| `RegMapProofs`, `FilesProofs` | theorems about `Devices` and `RegMap` | `FilesProofs` has those that need to know the structs and the files |

### VirCntrs

State: `epctr`, `epctrisr`, `epcapr` are the hardware registers of these names;
`vc_lock`, `vcntr`, `vcntrcapt` the driver's variables. A process (the handler
`Isr`, or a user inside a read or a write of a `vcntrepecr` file) has a program
counter `pc` and its local variables: `todo` is `ctrisr` of `update_vcounters`,
`cur` the counter at hand, `tmp` what `++` has loaded or stored, or what `|=` has
loaded, `left` is `epctrgcr`, `ev` is `event_i`, `seen` the last reading of
EPCTRISR.

| Action | Code (`vir_cntrs.c`) |
|---|---|
| `Tick` | the hardware counts and raises a status bit when it wraps (external) |
| `IsrRead` | `cntr_overflow_interrupt` up to the lock, 113-125 |
| `Acquire`, `Release` | `spin_lock_irqsave`, `spin_unlock_irqrestore` |
| `UpdateAck`, `UpdateLoad`, `UpdateStore`, `UpdateTest`, `UpdateWrap`, `UpdateZero` | `update_vcounters` and `v_counter_inc`, 54-103: acknowledge; load and store of line 60, test of bit 63 in line 62, reset in line 65; zero the hardware counter, next bit |
| `SetCall`, `Decode`, `Sweep`, `Strobe`, `Late`, `Compare`, `Bump`, `Put`, `Join`, `Merge`, `Finish` | `vcntepecr_set`, 157-323; `Put` stores the upper half (308), `Join` and `Merge` load and store for the `\|=` of line 309 |
| `GetCall`, `Read` | `vcntepecr_get`, 326-354 |
| `VcntrSet`, `VcntrcaptSet` | stores through the files and the ioctl, 151-155, 404-408, 573 |

Four ghosts say what ought to be. `due[c]` is what `vcntr[c]` would be if every
overflow raised so far were counted. `exact[c]` says whether that is defined: it
is not after `vcntr` was reset or has run over, nor after a store into `vcntr`
that fell between the load and the store of an increment, which undoes it; the
next undisturbed write of the file defines it again. These two cases are what
run `lost_write` shows. `owed` is `due` at the strobe of the capture under way,
`lastcap` the last value a capture stored while neither file of the counter was
written. No guard but the bound on `Tick` reads a ghost.

Abstractions:

* A register access is one step, and so is a load or a store of a `vcntr`:
  aligned 64-bit accesses are single-copy atomic on the Cortex-A7 (LPAE).
  `++vcntr` is two steps, and so is `vcntrcapt |= regVal`; the writers of the
  files, who take no lock, can come between any two. Where the source reads again
  what it has just stored (lines 62 and 309), the compiler may have kept the
  value: both outcomes are possible.
* `value | regVal` is exact for a `vcntrcapt` whose lower half is 0. For one that a
  writer has put in between, `Or` is any value with the upper half that was
  loaded and a lower half that an OR can yield.
* `Width` stands for 2^32. Bit 63 is half of `Width * Width`, and the shift of
  line 308 keeps the lower half of `vcntr`.
* The words after EPCTRISR, which the sweep of line 252 reads, are external: the
  constant `OtherWords` says which values they may show.
* EPGACR and EPCTRGCR are constants during a run: users configure groups before
  they capture (VCOUNTER.txt 32-42).
* The value of EPECR and its mirror `vcntrepecr` are left out, as no branch
  depends on them. The partial values that lines 216-234 leave in `vcntrcapt`
  for one counter after another are stored in one step; the lock excludes other
  captures meanwhile, and a plain store falls before or after.
* `EpuSize` is 0 (no EPU probed: every register access fails) or 4096 (the map).
  The error branches inside `update_vcounters` cannot be taken then, because
  its caller has just read EPCTRISR through the same map.
* The interrupt is bound, and one instance of the handler runs at a time, as the
  kernel guarantees for an interrupt line.

### Reservation

A register is the set of its bits. A call goes through `Call`, one of the
refusals `Fault`, `Reject`, `RejectCommand`, the unlocked `GetUsage`, or `Enter`,
`Lock`, `ReadBit`, `WriteBit`, `Unlock` (lines 214-346). Once it has entered, a
call has only the lock to go for: the fault of line 228 is behind it. `prev` is `prev_val`, `ans` the
outcome. Ghosts: `held`, what each tool was granted and has not given back, and
`strays`, the resources that were given back by a tool that did not hold them,
which the driver allows. Tools are assumed to be cooperative in that they do not
write the registers directly (VCOUNTER.txt 59-61, 81-84). The registers start
with no bit set.

### VcntCtrl and Lifecycle

Of `vcntctrl` the enable bit is kept, of `intr_overflow.num` whether it is zero,
of the EPCCR registers which of them request an interrupt (`epccr`). `handlers`
counts how often the handler is registered on its shared line, `running` says
that it runs. `epu` is the entry of the EPU in the table of maps: none, mapped,
or left behind after the memory was unmapped. `pc`, `val` and `i` are the
place, the argument and the loop variable of each process. What a call returns is
left out: nothing in the driver goes by it. Two ghosts
name what the properties except. `sure`: no binding has failed, and no word been
stored through the ioctl, since the last unbinding. `masked`: the ioctl has stored
0 over a 1 while the handler was registered, and it has not been off the line
since; from there the next enable registers it again under the same number, and
all that is said of one handler fails (run `stored_zero`).

| Action | Code |
|---|---|
| `SetCall`, `Store` | `vcntrctrl_set`, `vir_cntrs.c` 421-441: the old word is read first, the new one stored last, also after a failure |
| `RawWrite` | a store through DBG_WRITE_REG, 388-395 |
| `ClearIsr`, `Lookup`, `Request`, `Arm` | `ls_dbg_epu_bind_irq`, 450-517, each with its failures; `Arm` is one turn of the loop |
| `Disarm`, `FreeIrq`, `SyncIrq`, `ForgetNum` | `ls_dbg_epu_unbind_irq`, 519-546; `free_irq` takes the handler off the line and then waits for it |
| `IsrEnter`, `IsrReturn` | the kernel calls the handler; the line is shared, so at any time |
| `Register`, `RegisterFails`, `VcountersInit` | `dcsr_module_init` with the outcome of `dcsr_probe`, `ls_dbg.c` 155-224 |
| `Open`, `Close`, `Write` | a process and the `vcntrctrl` file; an open file keeps the module loaded |
| `Exit`, `Remove` | `dcsr_module_exit`, `dcsr_remove` step by step, 205-231 |
| `Oops` | an access to a register that is not mapped any more kills the process |

A probe that has failed leaves the entries of the devices it has unmapped, and
the init goes on to make the `vcntrctrl` file: enabling the counters then ends
in `Oops`. `RegistersMapped` and `ExitUndoesAll` therefore speak of a probe that
succeeded. An init that fails leaves the driver registered and its code gone
(`broken`), a state with no further step.

### Layouts, Debugfs, Devices, RegMap

A layout is the sequence of the fields of a struct; a gap has the length that
its formula gives, and beside it the bound where the next register should be.
`Debugfs` lists the files in the order of the `dbgfs_init` functions, each with
the offset it shows. A mapped range stands for its address,
`<<kind, node, range>>`.

| Action of `Devices` | Code |
|---|---|
| `AddDevice`, `SkipDevice`, `NextKind` | `add_compatible_devices` for each kind in turn, `ls_dbg.c` 79-125, 160-173: ranges that cannot be mapped are passed over, a node without memory is skipped |
| `CreateRoot`, `RegAccessInit`, `Fail` | the rest of `dcsr_probe` and its exit `err`, 175-185, 200-203 |
| `CreateFiles`, `Probed` | the `dbgfs_init` functions, 193-199, which may stop anywhere and are not asked |
| `VcountersInit` | `vcounters_init` enters VCOUNT, whatever came of probe |

`RegMap` has what reads this state: `reg_access` (`reg_access.c` 139-212) with
its refusals in their order, `Internal` (66-137) with the result of the handlers
behind VCOUNT, `FindMap` (376-405), `Dispatch` (`vir_cntrs.c` 356-413), and
`ResourceWord`, the register that a reservation works on (235-275). `Handled` says
when these handlers fail: a read of `vcntrepecr` needs EPECR of its event, a write
the words `WriteAccesses` that a capture touches, which depend on what EPGACR and
EPCTRGCR hold (`ctcc` and `group` of a request). A call changes nothing here;
what an access to the virtual counters changes, and that it may wait for `vc_lock`,
is in `VirCntrs` and `VcntCtrl`.

The ids and the directories are made for one node per kind, with two ranges for
ETM, ETF and CSTF; the trees checked are that one, one without EPU and ETF, and
one with two ETM nodes of one range. The theorems of section 5 are about every
tree that fits (`FitsIds`, `FitsEpu`, `FitsFiles`).

What the code does here and a reader might not expect, each excepted by name in
the properties or visible in the definitions:

* `etm1` and `cstf1` show the registers of `etm0` and `cstf0`
  (`dcsr_etm.c:29`, `dcsr_cstf.c:29`; `dcsr_etf.c:33` goes through the ranges).
* With two nodes of a kind the directories are those of the node found last.
* The files of the GDI's comparators are each one comparator too far, the last
  beyond the struct (`dcsr_gdi.c:46`).
* A range that could not be mapped still gets its files, at addresses from 0 on.
* A reservation uses `ls_dbg_epu_ptr` without a look: before the EPU has made
  its files, and without an EPU, that is a null pointer.
* `vcntepecr_set` shifts the group number up by 20 (`vir_cntrs.c:204`) where line
  172 wants the number, so that a capture of any group but 0 fails, and reads its
  first sweep from a word after EPCTRISR (252), although line 251 speaks of "last
  cycle" overflows.
* `vir_cntrs.h:57-58` and VCOUNTER.txt 90-91 say that a 0 enables and a 1 disables
  the counters; `vcntrctrl_set` does the opposite, and what is said of the word
  here goes by the code.
* When no interrupt is found (`vir_cntrs.c:509`), `ls_dbg_epu_bind_irq` returns 0,
  and the word is stored also after a failure (439): a write of 1 can succeed with
  nothing bound.
* Offset 68 of `struct vcounters` is padding; it is dispatched to the handlers of
  `vcntrepecr` as event 16.
* `vcntr` and `vcntrcapt` are accessed with 64 bits, whatever size the call names:
  at the last word of VCOUNT that is 4 bytes beyond the struct.
* `test_ls_dbg.c:69` computes 80 as the offset of `vcntr[0]`, which is at 72.

## 3. The runs

| Run | Bounds | Shows |
|---|---|---|
| `captures` | 1 counter, 2 users, 2 events, width 3, 2 overflows, files written with 3 and 4 | lock, no loss, capture covers its strobe, captures grow |
| `groups` | 2 counters, 1 user, 2 events, width 2, 1 overflow each, other words zero | no loss and capture covers its strobe across the bits of a group; overflows are counted and calls return, eventually |
| `overflow` | 2 counters, no captures, width 3, files written with 0 and 3 | each overflow counted exactly once; implements `OverflowCounter` |
| `reservation` | 2 tools, 2 groups, 8 requests | implements `Semaphores`; owners and bits agree |
| `binding` | 2 counters, 1 writer, stores of 0 and 1 through the ioctl, handler at most twice | the binding implements `IrqLine`; registers mapped, word and binding agree, exit undoes all, calls end |
| `registers` | 3 device trees, 2 failures; offsets at the bounds of each map and of the elements of VCOUNT | ioctls, files and reservations reach the register they name or fail as they should, at every moment of loading |

Five more runs each find a state that a comment or the documentation excludes:

| Run | Comment | What happens |
|---|---|---|
| `double_count` | `vir_cntrs.c:181` "ASSERT(overflow_status_i == 1)" | a capture adds an overflow that was counted before |
| `lock_leak` | `vir_cntrs.c:58`, `76` callers are responsible for the lock | an error exit keeps it |
| `stale_status` | `vir_cntrs.c:86` "Shift through all the pending overflows" | the handler counts what a capture has counted since it read EPCTRISR |
| `lost_write` | `vir_cntrs.c:58` "callers of v_counter_inc() are responsible for spin_lock" | a write of `vcntr` during an increment is undone, lock or no lock |
| `stored_zero` | `vir_cntrs.c:537` "free the irq number", VCOUNTER.txt 91 "Unbinds ISR" | after a 0 stored through the ioctl the handler is registered twice and freed once |
| `bind_race` | `vir_cntrs.c:495` "now that request_irq() has been called", 527 "before calling free_irq()" | one process frees the handler that another has just registered and turns on |

`double_count`, `stale_status` and `groups` use `MCNoWords`, words after EPCTRISR
that read as zero, so that a counterexample does not need the wrong address; `lock_leak` uses
`EpuSize = 0`; `bind_race` has two writers. `stored_zero` is the only one of the
binding that stores through the ioctl.

*Why the bounds are enough.* Two processes besides the hardware are the fewest
that can disturb each other, and `captures` has three. Two overflows of a
counter let one arrive while the other is being counted, at each step of the
code, and again in the next call. Width 3 distinguishes an old captured value
below, equal to and above a new one and gives `vcntr` a bit 63 (values from 4
on): a file written with 3 reaches it at the next overflow, and one written with
4 has it already, on either side of each store of lines 60 to 65. `groups` gives up the writers, width and
overflows for a second counter. `MaxDue` cuts off further overflows: it is the
guard of `Tick` and nothing else is bounded. The theorems of section 5 are free
of these bounds.

In `binding`, two counters make a loop over EPCCR that can be left half done,
and `MaxHandlers = 2` leaves room for the second registration that
`HandlerCanBeFreed` excludes and a masked handler leads to. One writer is the claim
that holds; `bind_race` shows what two do. In `registers`, two failures suffice for a
failure in loading that is met by another one later (with three, which take
seven times as many states, the result is the same). The offsets asked for are the
first and last words of each map, those after it, and in VCOUNT the first and last
word of `vcntrepecr` and the first of `vcntr`; the theorem `IoctlsReach` is about
every word.

What the passing runs say and do not say: `CountedOnce` and `KeepsPromise`
are checked without users of `vcntrepecr`, because with them they fail; that is
what `double_count` and `stale_status` show. What is left with
captures is one-sided, `NoLostOverflow` and `CaptureCoversStrobe`: a counter may
run ahead, never behind. `CapturesGrow` excepts a `vcntr` at or above `Width`,
whose upper half line 308 cuts off.

`IoctlReachesRegister` has three parts. `ReachesItsWord`: a call that succeeds is
legal and reaches the word it names, inside the map but for the last word of
VCOUNT. `ServesLegal`: a legal call succeeds; that of a `vcntrepecr` word fails
without an EPU, and with one a read succeeds and a capture exactly for group 0.
`RefusesRightly`: EINVAL for a bad id or size, and nothing else.

The properties of `binding` are about what the code means by 1 and 0. `HandlerCanBeFreed`, and what `RegistersMapped` and `ExitUndoesAll` say of
the handler, except `masked`; that no register of the EPU is left on or touched
once it is unmapped, and the order of `IrqLine`, hold without exception.
`WordTellsBinding` excepts failures (`sure`): after one the word may be 1 with
nothing bound.

## 4. Fairness

`FairSpec` of `VirCntrs`: weak fairness of a process inside its code, because a
processor that runs kernel code with interrupts off goes on; weak fairness of
`IsrRead`, because the interrupt is level-triggered and stays asserted while a
bit is pending; strong fairness of `Acquire`, because the ARM spin lock is a
ticket lock that serves its waiters in order (a weakly fair lock would allow
users to starve the handler). Nothing makes a counter tick or a user call.
`Reservation` has weak fairness of a call, except while it spins (label `lock`), and
strong fairness of its lock: nothing but the lock lets a spinning call go on.

`FairSpec` of `Lifecycle`: weak fairness of a process inside a write of
`vcntrctrl`, of the removal once it has begun, of init, and of the return of the
handler, all kernel code that goes on. Nobody has to open, write or unload, and
nothing makes the handler run. `free_irq` takes it off the line first, so that
waiting for one return is enough; only a handler registered twice (`masked`) may
run again while it is waited for. The wait polls until it finds the handler not
running, which is strong fairness of `SyncIrq`.

`EventuallyCounted` allows for a store into `vcntr` to redefine what is due.
Both liveness properties need `EpuSize = 4096`: without an EPU the first read of
a `vcntrepecr` file blocks the lock for ever (`lock_leak`).

## 5. What is proved

For any number of counters, users, events and tools, any width, any contents of
the group registers and of the words after EPCTRISR, from the assumptions
named in the modules (`CountersAssumption`, `WidthAssumption`, and so on), which
TLC evaluates on each run:

| Theorem | States | Argument |
|---|---|---|
| `TypeCorrect` | `[]TypeOK` | inductive as it stands; the bound on captured values is `Concat`: two register values side by side fit in 64 bits |
| `LockCorrect` | `[]LockDiscipline`, if the EPU is mapped | `ControlInv`: `update_vcounters` returns to a label inside its caller's section (`ReturnsInside`), whoever is inside holds the lock, the holder is inside |
| `OverflowsKept` | `[]NoLostOverflow` | `CountInv`: `ControlInv` and `Loaded`, that what an increment has loaded is still in `vcntr` while the count is exact |
| `CapturesCover` | `[]CaptureCoversStrobe` | `CoverInv`: what is owed was due (`OwedBounded`), and from the late sweep on, what is owed is already in `vcntr` or in the bits the sweep has taken (`StrobeCovered`) |
| `CountedExactly` | `[]CountedOnce`, if there are no users | `ExactInv`: the bits the handler has read stay set until it acknowledges them, and a counter leaves `ctrisr` before it is incremented |
| `ImplementsPromise` | the safety part of `OverflowCounter`, if there are no users | the increment is `Count`, one over a racing write or a reset `Lose`, a write `Write`; all else stutters |
| `CapturesGrowing` | `CapturesGrow` | `GrowInv`: what a capture would store, `vcntr` next to `epcapr`, is not below the last capture, except from the strobe to the comparison, where `vcntr` next to the `vcntrcapt` that the first pass has saved is (`Grown`, `SavedFirst`) |
| `ReservationTypes` | `[]TypeOK` | `LockInv`: whoever is inside holds the lock, has passed the checks, and what it read is still in the register when it writes |
| `OneOwnerEach`, `BitsShowOwners` | `[]OneOwner`, `[]BitsHaveOwners` | inductive together on top of `LockInv`; `WriteEffect` says that a write changes its own resource only, as no two groups share a register |
| `ImplementsSemaphores` | the safety part of `Semaphores` | a failing call takes effect at its read, a succeeding one at its write |
| `LifecycleTypes` | `[]TypeOK` | with one writer: `IInv`, below |
| `OneHandler`, `RaisedIsHandled` | `[]HandlerCanBeFreed`, `[]RaisedOnlyIfHandled` | `Single`; `Handled`, `Raised` |
| `NothingUnmapped` | `[]RegistersMapped` | `Places`: when the devices go, no file is open and the remover is past the unbinding |
| `WordIsTruthful` | `[]WordTellsBinding` | `Truthful`: while nothing has failed, the place of the process tells what is registered and how far the loop is |
| `ExitLeavesNothing` | `[]ExitUndoesAll` | `Stages` of the removal |
| `ImplementsLine` | `KeepsOrder`: all of `IrqLine` | `LineSteps`: the first `Arm` is `TurnOn`, the last `Disarm` `TurnOff`, `Request` and `FreeIrq` the rest |
| `TypesOfTable` | `[]TypeOK` of `RegMap` | `Typed` and `Staged` |
| `IoctlsReach` | `[]IoctlReachesRegister`, and the same for every id, every word offset and any contents of EPGACR and EPCTRGCR | `Typed`: sizes are whole words, so a word whose first byte is inside is wholly inside, although the code compares the first byte only; and which words of the EPU an access to `vcntrepecr` touches |
| `DispatchRight` | `[]DispatchHitsElement` | `Staged`, and the offsets of `struct vcounters`, field by field |
| `TableRight` | `[]EntriesAreRanges`, for trees with `FitsIds` | `Table`, below |
| `ReservationsRight` | `[]ReservationsMeetFiles`, for trees with `FitsIds` and `FitsEpu` | `Table`, `OneEpu` and `ShownEpu`: the directory shows what `ls_dbg_epu_ptr` points to, which is range 0 of the only EPU; and where `eprsrv` is in its map, gap by gap |
| `FilesAgree` | `[]FilesMeetIoctls`, for trees with `FitsIds` and `FitsFiles` | `Full`: while nothing has failed, the ranges of a kind with one node have the first ids of the kind, and its directories show them |
| `LayoutsRight` | `[]LayoutsFit` | `Typed`: a directory is of one of the seven kinds; and a walk through the struct of each (`EpuWalk` and so on) |
| `FilesRight` | `[]FilesAreRegisters` | `Typed`, and for each kind the list of its files, line by line of its `dbgfs_init` (`EpuFiles` and so on) |

The theorems of `LifecycleProofs` hold for any number of counters and one
writer, whatever is stored through the ioctl; for
two writers `RaisedIsHandled` is false (`bind_race`). None of the seven is
inductive: that a handler is registered once at most rests on where each of the
two processes is, which file is open, and what the word says. `IInv(w)` is the
conjunction of `TypeOK`, `Places` (which process may be where in which phase),
`Handled` (who holds the number and the handler), `Single` (unless masked, one
registration at most, and the number is known), `Raised` (which EPCCR registers
are on, by the loop variable of whoever is in a loop), `Stages` (what the removal
has undone), `Quiet` (when the handler may still run) and `Truthful`. It was checked with TLC before it was proved.

`CountedExactly` with `Users = {}` is the exact form of the claim; with users it
is false, see section 3.

The theorems of `RegMapProofs` and `FilesProofs` hold for any set of device
trees (`TreesAssumption`: a tree lists the nodes of every kind, and a range is
made of whole words) and any number of failures (`FailuresAssumption`). `TableRight`,
`ReservationsRight` and `FilesAgree` need trees that the driver is made for, as the code
checks none of this: `reg_add_map` takes whatever id results from the position
of a node. `FitsIds` says that the ids a kind can take lie below those of the
next, and that only the last node of a kind has two ranges; `FitsEpu`, that there
is one EPU at most and its range has room for its map; `FitsFiles`, that the
range a directory shows is there and has room for its files. TLC evaluates all
three on the trees of run `registers` (`TreesFit` in `MCRegMap`), so the
hypotheses hold of what is checked.

`EntriesAreRanges` is not inductive: nothing in it says that the ids of the next
node are free. `Table` adds, for as long as devices are added or the ioctls can
be called: which node, already looked at, an entry stands for (`Accounted`), and
that the entries of the kind at hand lie below `index` (`Below`). A step of
`AddDevice` then enters ids that lie above those of its own kind and outside
those of all others. `Below` is needed because `index` falls behind the number of
the node once a node has been skipped. `Table` says nothing after a failed probe,
which leaves the entries of devices that are unmapped, and needs to say nothing,
because then no ioctl can be called.

`LayoutProofs` proves what the offsets of a layout are by induction over its
length, in the form "a set that holds 0 and the successor of each of its elements
holds every number" (`Induction`), as the library's theorem takes an operator.
From it follow `SizesAdd`, that the sizes of two parts add up, and the offsets of
`struct vcounters`. The structs of the devices are longer, up to 67 fields
between gaps whose lengths come from four different formulas. For each there is a
plan, which says where each name has its registers and nothing about the gaps.
`Walked(part, size, seen, count, plan)` says that the fields up to an offset are
where the plan has them, that each gap among them ends at its second bound, and
that they hold so many different registers; it grows by a word, an array or a gap
(`NextWords`, `NextRegs`, `NextArray`, `NextGap`), and each of these steps asks
for nothing but the arithmetic of that one piece. `LayoutsRight` is what it says
of a whole struct (`WalkedGaps`), and where a register is and how many there are
(`WalkedPlaces`, `WalkedRegisters`) is what the files need.

`FilesProofs` goes through the files in the same way. `Listing(s, registers,
stems, count)` says of a list of files that it shows the registers of a set and no
others, that it has so many files, that they have stems of a set, and that the
numbers of each family go with the addresses (or against them, for `eprsrv` and
`ephsr`). It grows by a line of the `dbgfs_init` (`NextPlain`, `NextNumbered`,
`NextLoop`, `NextDownwards`) if the stems of that line are new. At the end there
are as many files as the walk has counted registers, so no register has two. The
comparators of the GDI need a lemma of their own (`ComparatorFiles`): the loop
from 1 to 8 shows the registers from \h310 to \h38b, where the comparators are at
\h300 to \h37b, so that `FilesRight` says which files are wrong and that all the
others are right.

Only model-checked:

* The liveness properties (`EventuallyCounted`, `CallsReturn`, `CallsEnd`), and
  with them the fairness part of `OverflowCounter` and `Semaphores`
  (`KeepsPromise`, `ActsAsSemaphores`), which are out of the prover's reach; the
  safety part of both is proved.

Every invariant and every action property of a passing run is the subject of a
theorem, under the conditions that the table names.

## 6. Not modelled

* Reads of the `vcntr` and `vcntrcapt` files: they change nothing.
* Two wraps of a counter that share one status bit, and what a counter has
  counted since it wrapped, which line 91 drops: no driver could tell.
* A tool that dies with reservations, or writes `eprsrv` directly: the driver
  has no code for either.
* The values of device registers, which the driver does not interpret outside
  the EPU, and that some files are read-only or write-only.
* Accesses that are not aligned: only the first byte is compared with the size of
  the map.
* Unbinding the driver through sysfs, which removes the devices while
  `vcntrctrl` may be open: the kernel offers it for any driver, and this one has
  no code for it.
* Calls of the ioctls that are under way while the module is unloaded: an open
  `/dev/ls-dbg` keeps it loaded.
* The test program, the build system.

## 7. Plan

1. `VirCntrs` and `OverflowCounter`, runs `captures`, `groups`, `overflow`
   and what the code does otherwise than it says. Done.
2. Type correctness, lock, no loss, capture, exact count and refinement as
   theorems. Done.
3. `Reservation` and `Semaphores`, run and theorems. Done.
4. `VcntCtrl`, `Lifecycle` and `IrqLine`, runs `binding` and `bind_race`, and
   their theorems. Done.
5. `Layouts`, `Debugfs`, `Devices`, `RegMap`, run `registers`. Done.
6. Proofs of `CapturesGrow` and of all properties of `registers` that have a
   parameter, as far as the prover reaches. Done.
7. Proofs of `LayoutsFit` and `FilesAreRegisters` from the formulas of the gaps
   and the lines of each `dbgfs_init`. Done.
