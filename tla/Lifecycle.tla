----------------------------- MODULE Lifecycle -----------------------------
(***************************************************************************)
(* The life of the module (src/ls-dbg/module/ls_dbg.c): init registers the *)
(* driver, whose probe maps the devices, and makes the files of the        *)
(* virtual counters; exit unregisters the driver, whose remove unbinds the *)
(* interrupt and takes everything down.  Composed with VcntCtrl: meanwhile *)
(* processes open the vcntrctrl file and write it.                         *)
(*                                                                         *)
(* The kernel is external: a module with an open file is not unloaded, and *)
(* no file is opened once the unloading has begun (both files name the     *)
(* module as their owner).  The devices are one here: what dcsr_probe does *)
(* for each of them is in Devices.                                         *)
(***************************************************************************)
EXTENDS VcntCtrl

VARIABLES
    phase,         \* of the module: "out", "loading", "live", "exiting",
                   \* "gone", or "broken" after an init that failed
    probe,         \* what came of dcsr_probe: "none", "ok" or "failed"
    root,          \* the debugfs root directory exists
    misc,          \* /dev/ls-dbg is registered
    vfiles,        \* the vcntrctrl file exists
    open           \* the writers that have the vcntrctrl file open

device == <<phase, probe, root, misc, vfiles>>
vars   == <<binding, epu, device, open>>

Init ==
    /\ CtrlInit
    /\ epu = "none"
    /\ phase = "out" /\ probe = "none"
    /\ root = FALSE /\ misc = FALSE /\ vfiles = FALSE
    /\ open = {}

----------------------------------------------------------------------------
(* dcsr_module_init.                                                       *)

\* An EPU that was mapped and is not any more keeps its entry in maps
Unmapped(e) == IF e = "mapped" THEN "unmapped" ELSE e

\* platform_driver_register runs dcsr_probe if the device is there.  Whether
\* probe fails, and whether it ran, init does not learn.
Register ==
    /\ phase = "out"
    /\ phase' = "loading"
    /\ \/ probe' = "none" /\ UNCHANGED <<epu, root, misc>>
       \/ \E e \in {"none", "mapped"} :
             \/ probe' = "ok" /\ epu' = e /\ root' = TRUE /\ misc' = TRUE
             \/ /\ probe' = "failed" /\ epu' = Unmapped(e)
                /\ root' \in BOOLEAN        \* it is not removed again
                /\ UNCHANGED misc
    /\ UNCHANGED <<binding, vfiles, open>>

RegisterFails ==
    /\ phase = "out"
    /\ phase' = "gone"
    /\ UNCHANGED <<binding, epu, probe, root, misc, vfiles, open>>

\* vcounters_init, which makes the files whatever came of probe.  If it fails
\* the kernel drops the module, with its driver still registered.
VcountersInit ==
    /\ phase = "loading"
    /\ \/ phase' = "live" /\ vfiles' \in BOOLEAN    \* a missing file is not noticed
       \/ phase' = "broken" /\ UNCHANGED vfiles
    /\ UNCHANGED <<binding, epu, probe, root, misc, open>>

----------------------------------------------------------------------------
(* The writers.                                                            *)

Open(w) ==
    /\ phase = "live"
    /\ vfiles
    /\ w \notin open
    /\ open' = open \union {w}
    /\ UNCHANGED <<binding, epu, device>>

Close(w) ==
    /\ w \in open
    /\ pc[w] = "idle"
    /\ open' = open \ {w}
    /\ UNCHANGED <<binding, epu, device>>

Write(w, v) ==
    /\ w \in open
    /\ SetCall(w, v)
    /\ UNCHANGED <<device, open>>

\* /dev/ls-dbg with the VCOUNT entry of maps, which vcounters_init adds
WriteRegister(v) ==
    /\ phase = "live" /\ misc
    /\ RawWrite(v)
    /\ UNCHANGED <<device, open>>

\* An access to a register that is not mapped any more kills the process
Oops(w) ==
    /\ pc[w] \in AtRegister
    /\ epu = "unmapped"
    /\ Goto(w, "dead")
    /\ open' = open \ {w}
    /\ UNCHANGED <<vcntctrl, num, handlers, running, epccr, epu, val, i, ghosts,
                   device>>

----------------------------------------------------------------------------
(* dcsr_module_exit and dcsr_remove.                                       *)

\* Mutant: the interrupt is not unbound
FilesFirst == "unbound"

UnbindFirst == "disarm"

\* Without a device there is nothing to remove; what vcounters_init has made
\* and a root directory left by a probe that failed stay behind
Exit ==
    /\ phase = "live"
    /\ open = {}
    /\ IF probe = "ok"
       THEN phase' = "exiting" /\ Goto(Remover, UnbindFirst)
       ELSE phase' = "gone" /\ pc' = pc
    /\ i' = [i EXCEPT ![Remover] = 0]
    /\ UNCHANGED <<vcntctrl, num, handlers, running, epccr, val, ghosts, epu,
                   probe, root, misc, vfiles, open>>

\* debugfs_remove_recursive, which takes the files of the counters with it
RemoveTree ==
    /\ pc[Remover] = "unbound"
    /\ root' = FALSE /\ vfiles' = FALSE
    /\ Goto(Remover, "untree")
    /\ UNCHANGED <<vcntctrl, num, handlers, running, epccr, val, i, ghosts, epu,
                   phase, probe, misc, open>>

RemoveDevices ==
    /\ pc[Remover] = "untree"
    /\ epu' = Unmapped(epu)
    /\ Goto(Remover, "unmap")
    /\ UNCHANGED <<vcntctrl, num, handlers, running, epccr, val, i, ghosts,
                   device, open>>

RegAccessCleanup ==
    /\ pc[Remover] = "unmap"
    /\ misc' = FALSE
    /\ phase' = "gone"
    /\ Goto(Remover, "idle")
    /\ UNCHANGED <<vcntctrl, num, handlers, running, epccr, val, i, ghosts, epu,
                   probe, root, vfiles, open>>

Remove ==
    \/ Unbind(Remover) /\ UNCHANGED <<device, open>>
    \/ RemoveTree \/ RemoveDevices \/ RegAccessCleanup

----------------------------------------------------------------------------

Call(w) == CtrlStep(w) /\ UNCHANGED <<device, open>>

Isr ==
    /\ IsrEnter \/ IsrReturn
    /\ UNCHANGED <<device, open>>

Next ==
    \/ Register \/ RegisterFails \/ VcountersInit \/ Exit \/ Remove
    \/ \E w \in Writers :
          \/ Open(w) \/ Close(w) \/ Call(w) \/ Oops(w)
          \/ \E v \in {0, 1} : Write(w, v)
    \/ \E v \in RawValues : WriteRegister(v)
    \/ Isr

Spec == Init /\ [][Next]_vars

\* A process inside the kernel goes on, and so does a running handler.  The
\* wait of free_irq polls: a handler that is still on the line and runs again
\* and again does not run whenever the wait looks.
FairSpec ==
    /\ Spec
    /\ WF_vars(VcountersInit) /\ WF_vars(Remove)
    /\ WF_vars(IsrReturn /\ UNCHANGED <<device, open>>)
    /\ \A w \in Writers : WF_vars(Call(w) \/ Oops(w))
    /\ \A p \in Procs : SF_vars(SyncIrq(p) /\ UNCHANGED <<device, open>>)

----------------------------------------------------------------------------
(* What is promised of the interrupt line.                                 *)

Line == IF handlers = 0
        THEN IF epccr = {} THEN "free" ELSE "unhandled"
        ELSE IF epccr = {} THEN "quiet" ELSE "raised"

Promise == INSTANCE IrqLine WITH line <- Line

----------------------------------------------------------------------------
(* Properties.                                                             *)

TypeOK ==
    /\ vcntctrl \in {0, 1} /\ num \in {0, 1}
    /\ handlers \in 0 .. MaxHandlers
    /\ running \in BOOLEAN
    /\ epccr \subseteq Counters
    /\ epu \in {"none", "mapped", "unmapped"}
    /\ pc \in [Procs -> CtrlLabels]
    /\ val \in [Writers -> {0, 1}]
    /\ i \in [Procs -> 0 .. NumCounters]
    /\ sure \in BOOLEAN /\ masked \in BOOLEAN
    /\ phase \in {"out", "loading", "live", "exiting", "gone", "broken"}
    /\ probe \in {"none", "ok", "failed"}
    /\ root \in BOOLEAN /\ misc \in BOOLEAN /\ vfiles \in BOOLEAN
    /\ open \subseteq Writers

\* The handler is on the line once at most, and whoever unbinds later finds
\* the number to free it by (vir_cntrs.c:421-441, 471-480, 538-543), whatever
\* fails in between and whatever the ioctl stores; unless it stores 0 over a 1
\* while the handler is registered, see UnbindingFrees.
HandlerCanBeFreed == ~masked => handlers <= 1 /\ (handlers = 1 => num = 1)

\* The interrupt is turned on only while a handler is registered, and off
\* before it is freed (vir_cntrs.c:495, 527), in the order of IrqLine.
KeepsOrder == Promise!Spec

\* Once probed, no code meets registers that are not mapped any more: neither
\* a writer of vcntrctrl, nor dcsr_remove, nor, unless a handler was masked by
\* a stored 0, the interrupt handler (ls_dbg.c:205-212).
RegistersMapped ==
    probe = "ok" /\ epu = "unmapped"
        => /\ \A p \in Procs : pc[p] \notin AtRegister
           /\ ~masked => ~running /\ handlers = 0

\* The enable bit at rest tells the state of the interrupt, as the code means
\* it (vir_cntrs.c:421-441): 1 when it is on in every EPCCR and handled, 0 when
\* it is off in every EPCCR and not handled; unless, since the last unbinding,
\* a binding has failed or the ioctl has stored the word, or it has masked a
\* handler.
WordTellsBinding ==
    sure /\ ~masked /\ phase = "live" /\ (\A p \in Procs : pc[p] = "idle")
        => /\ handlers = vcntctrl
           /\ epccr = IF vcntctrl = 1 THEN Counters ELSE {}

\* Unloading a module whose probe succeeded leaves nothing behind: no interrupt
\* turned on, no file, no device, and no handler unless a stored 0 masked it
\* (ls_dbg.c:205-232).
ExitUndoesAll ==
    phase = "gone" /\ probe = "ok"
        => epccr = {} /\ ~root /\ ~misc /\ ~vfiles /\ (~masked => handlers = 0)

\* Every write of vcntrctrl returns and every unloading comes to its end,
\* though free_irq waits for the handler.
CallsEnd ==
    /\ \A w \in Writers : pc[w] # "idle" ~> pc[w] \in {"idle", "dead"}
    /\ phase = "exiting" ~> phase = "gone"

\* "Turn on overflow interrupts now that request_irq() has been called",
\* "turn off overflow interrupts before calling free_irq()" (vir_cntrs.c:495,
\* 527): no interrupt is turned on that nobody handles.
RaisedOnlyIfHandled == epccr # {} => handlers > 0

\* "free the irq number" (vir_cntrs.c:537), "Unbinds ISR from epctr overflow"
\* (VCOUNTER.txt:91): once free_irq is done the handler is not on the line.
UnbindingFrees == \A p \in Procs : pc[p] = "forget" => handlers = 0
============================================================================
