----------------------------- MODULE VcntCtrl ------------------------------
(***************************************************************************)
(* The enable bit of the virtual counters and the binding of the overflow  *)
(* interrupt (vcntrctrl_set, ls_dbg_epu_bind_irq, ls_dbg_epu_unbind_irq in *)
(* src/ls-dbg/module/vir_cntrs.c).  Nothing here takes a lock: a process   *)
(* reads vcntctrl, acts for a while on what it has read, and stores the    *)
(* new value at the end.                                                   *)
(*                                                                         *)
(* This module has the operations; Lifecycle says when they can be called. *)
(* Of vcntctrl the enable bit is kept, of intr_overflow.num whether it is  *)
(* zero, of an EPCCR register whether it requests an interrupt.  What a    *)
(* call returns is left out: nothing goes by it.                           *)
(***************************************************************************)
EXTENDS Integers

CONSTANTS
    NumCounters,   \* EPU_V2_NO_OF_COUNTERS
    Writers,       \* processes that write the vcntrctrl file
    Remover,       \* the process that runs dcsr_remove
    RawValues,     \* enable bits stored through the register ioctl
    MaxHandlers    \* bound: how often the handler can be registered at once

Counters == 0 .. NumCounters - 1
Procs    == Writers \union {Remover}

ASSUME CounterAssumption == NumCounters \in Nat \ {0}
ASSUME WriterAssumption  == Remover \notin Writers
ASSUME RawAssumption     == RawValues \subseteq {0, 1}
ASSUME HandlerAssumption == MaxHandlers \in Nat \ {0}

VARIABLES
    vcntctrl,      \* bit 0 of ls_dbg_vcnt.vcntctrl
    num,           \* intr_overflow.num: 0 or 1 (any other number)
    handlers,      \* kernel: how often the handler is registered
    running,       \* kernel: the handler runs
    epccr,         \* EPU: the counters that request an interrupt on overflow
    epu,           \* maps[EPU]: "none", "mapped", or "unmapped" when the
                   \* entry is still there and the memory is not
    pc,            \* where each process is
    val,           \* val of vcntrctrl_set
    i,             \* i of the loops over EPCCR
    sure,          \* ghost: since the last unbinding no binding has failed and
                   \* the word was not stored through the ioctl
    masked         \* ghost: the ioctl has stored 0 over a 1 while the handler
                   \* was registered, and it has not been off the line since

ghosts  == <<sure, masked>>
binding == <<vcntctrl, num, handlers, running, epccr, pc, val, i, ghosts>>

Binding   == {"clear", "lookup", "request", "arm"}
Unbinding == {"disarm", "free", "sync", "forget"}
CtrlLabels == Binding \union Unbinding \union
              {"idle", "store", "dead", "unbound", "untree", "unmap"}

\* Labels at which the next step of a process accesses a register of the EPU
AtRegister == {"clear", "arm", "disarm"}

CtrlInit ==
    /\ vcntctrl = 0 /\ num = 0 /\ handlers = 0 /\ running = FALSE
    /\ epccr = {}
    /\ pc = [p \in Procs |-> "idle"]
    /\ val = [w \in Writers |-> 0]
    /\ i = [p \in Procs |-> 0]
    /\ sure = TRUE /\ masked = FALSE

Goto(p, label) == pc' = [pc EXCEPT ![p] = label]

\* The caller of bind or unbind goes on: vcntrctrl_set or dcsr_remove
Return(p) == Goto(p, IF p = Remover THEN "unbound" ELSE "store")

----------------------------------------------------------------------------
(* vcntrctrl_set: the old value is read once, at the start.                *)

\* Mutant: binds without looking at the old value
BindsAlways(v) == v = 1

MustBind(v) == v = 1 /\ vcntctrl = 0

SetCall(w, v) ==
    /\ pc[w] = "idle"
    /\ Goto(w, IF MustBind(v) THEN "clear"
               ELSE IF v = 0 /\ vcntctrl = 1 THEN "disarm" ELSE "store")
    /\ val' = [val EXCEPT ![w] = v]
    /\ i' = [i EXCEPT ![w] = 0]
    /\ UNCHANGED <<vcntctrl, num, handlers, running, epccr, epu, ghosts>>

\* Mutant: the new value is not kept
OldWord(w) == vcntctrl

NewWord(w) == val[w]

\* Also when binding or unbinding has failed; the call returns
Store(w) ==
    /\ pc[w] = "store"
    /\ vcntctrl' = NewWord(w)
    /\ Goto(w, "idle")
    /\ UNCHANGED <<num, handlers, running, epccr, epu, val, i, ghosts>>

\* The ioctl stores the word and binds or unbinds nothing
RawWrite(v) ==
    /\ vcntctrl' = v
    /\ sure' = FALSE
    /\ masked' = (masked \/ (v < vcntctrl /\ handlers > 0))
    /\ UNCHANGED <<num, handlers, running, epccr, epu, pc, val, i>>

----------------------------------------------------------------------------
(* ls_dbg_epu_bind_irq.                                                    *)

\* EPCTRISR is cleared, which fails if no EPU was ever mapped
ClearIsr(p) ==
    /\ pc[p] = "clear"
    /\ epu # "unmapped"
    /\ IF epu = "none" THEN Return(p) /\ sure' = FALSE
                       ELSE Goto(p, "lookup") /\ UNCHANGED sure
    /\ UNCHANGED <<vcntctrl, num, handlers, running, epccr, epu, val, i, masked>>

\* Mutant: the handler is not registered before the interrupts are turned on
Unrequested == "arm"

AfterLookup == "request"

\* irq_of_parse_and_map; without an interrupt the failure exit is taken
Lookup(p) ==
    /\ pc[p] = "lookup"
    /\ \/ num' = 1 /\ Goto(p, AfterLookup) /\ UNCHANGED sure
       \/ num' = 0 /\ Return(p) /\ sure' = FALSE
    /\ UNCHANGED <<vcntctrl, handlers, running, epccr, epu, val, i, masked>>

\* request_irq; the line is shared, so that it registers the handler again if
\* it is registered already.  When it fails num keeps its value.
Request(p) ==
    /\ pc[p] = "request"
    /\ \/ /\ num = 1
          /\ handlers < MaxHandlers
          /\ handlers' = handlers + 1
          /\ Goto(p, "arm") /\ UNCHANGED sure
       \/ handlers' = handlers /\ Return(p) /\ sure' = FALSE
    /\ UNCHANGED <<vcntctrl, num, running, epccr, epu, val, i, masked>>

\* Mutant: the loop index is not advanced
SameCounter(p) == i[p]

NextCounter(p) == i[p] + 1

\* Mutant: the loop takes one register too many
PastEnd(n) == n > NumCounters

\* The loops go on while i < EPU_V2_NO_OF_COUNTERS
AtEnd(n) == n >= NumCounters

\* One EPCCR after the other.  The map that ClearIsr has used is still there.
Arm(p) ==
    /\ pc[p] = "arm"
    /\ epu # "unmapped"
    /\ epccr' = epccr \union {i[p]}
    /\ i' = [i EXCEPT ![p] = NextCounter(p)]
    /\ IF AtEnd(NextCounter(p)) THEN Return(p) ELSE pc' = pc
    /\ UNCHANGED <<vcntctrl, num, handlers, running, epu, val, ghosts>>

----------------------------------------------------------------------------
(* ls_dbg_epu_unbind_irq.                                                  *)

Disarm(p) ==
    /\ pc[p] = "disarm"
    /\ epu # "unmapped"
    /\ IF epu = "none"
       THEN Goto(p, "free") /\ UNCHANGED <<epccr, i>>
       ELSE /\ epccr' = epccr \ {i[p]}
            /\ i' = [i EXCEPT ![p] = NextCounter(p)]
            /\ IF AtEnd(NextCounter(p)) THEN Goto(p, "free") ELSE pc' = pc
    /\ UNCHANGED <<vcntctrl, num, handlers, running, epu, val, ghosts>>

\* free_irq of a handler that is not registered only prints a warning
Freed == IF handlers > 0 THEN handlers - 1 ELSE 0

\* free_irq, first half: the handler is taken off the line
FreeIrq(p) ==
    /\ pc[p] = "free"
    /\ IF num = 0
       THEN Return(p) /\ UNCHANGED <<handlers, masked>>
       ELSE Goto(p, "sync") /\ handlers' = Freed /\ masked' = (masked /\ Freed > 0)
    /\ UNCHANGED <<vcntctrl, num, running, epccr, epu, val, i, sure>>

\* free_irq, second half: a handler that still runs is waited for
SyncIrq(p) ==
    /\ pc[p] = "sync"
    /\ ~running
    /\ Goto(p, "forget")
    /\ UNCHANGED <<vcntctrl, num, handlers, running, epccr, epu, val, i, ghosts>>

ForgetNum(p) ==
    /\ pc[p] = "forget"
    /\ num' = 0
    /\ Return(p)
    /\ sure' = (p # Remover)
    /\ UNCHANGED <<vcntctrl, handlers, running, epccr, epu, val, i, masked>>

----------------------------------------------------------------------------
(* The kernel.                                                             *)

\* The line is shared: the handler is called for the interrupts of others too
IsrEnter ==
    /\ handlers > 0 /\ ~running
    /\ running' = TRUE
    /\ UNCHANGED <<vcntctrl, num, handlers, epccr, epu, pc, val, i, ghosts>>

IsrReturn ==
    /\ running
    /\ running' = FALSE
    /\ UNCHANGED <<vcntctrl, num, handlers, epccr, epu, pc, val, i, ghosts>>

Bind(p)   == ClearIsr(p) \/ Lookup(p) \/ Request(p) \/ Arm(p)
Unbind(p) == Disarm(p) \/ FreeIrq(p) \/ SyncIrq(p) \/ ForgetNum(p)

\* The steps of a call that has been made
CtrlStep(p) == Bind(p) \/ Unbind(p) \/ (p \in Writers /\ Store(p))
============================================================================
