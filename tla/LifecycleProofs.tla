-------------------------- MODULE LifecycleProofs --------------------------
(***************************************************************************)
(* Proofs about Lifecycle, for one writer of the vcntrctrl file and any    *)
(* number of counters.  What two writers can do is shown by TLC.           *)
(***************************************************************************)
EXTENDS Lifecycle, TLAPS

\* dcsr_remove after the interrupt is unbound
Down == {"unbound", "untree", "unmap"}

\* Where a process can be, and that the writer and dcsr_remove are never
\* inside at the same time
Places(w) ==
    /\ pc[Remover] \in Unbinding \union Down \union {"idle"}
    /\ pc[w] \in Binding \union Unbinding \union {"idle", "store", "dead"}
    /\ pc[w] \notin {"idle", "dead"} => w \in open
    /\ open # {} => phase = "live"
    /\ pc[Remover] # "idle" => phase = "exiting"
    /\ phase = "exiting" => probe = "ok" /\ pc[Remover] # "idle"
    /\ pc[w] \in {"clear", "lookup", "request"} => i[w] = 0
    /\ \A p \in {w, Remover} : pc[p] \in {"arm", "disarm"} => i[p] < NumCounters

\* When the handler is registered, and the number it is freed by known
Handled(w) ==
    /\ pc[w] = "request" => num = 1
    /\ pc[w] = "arm" => handlers >= 1
    /\ pc[w] \in Binding => val[w] = 1
    /\ pc[w] \in Unbinding => val[w] = 0
    /\ masked => handlers > 0

\* Unless the ioctl has stored 0 over a 1 that stood for a handler
Single(w) ==
    ~masked =>
        /\ handlers <= 1
        /\ handlers = 1 => num = 1
        /\ pc[w] \in {"clear", "lookup", "request"} => handlers = 0
        /\ \A p \in {w, Remover} : pc[p] \in {"sync", "forget"} => handlers = 0
        /\ pc[w] = "store" /\ val[w] = 0 => handlers = 0
        /\ pc[w] = "idle" /\ vcntctrl = 0 => handlers = 0

\* Which EPCCR registers request an interrupt
Raised(w) ==
    /\ handlers = 0 => epccr = {}
    /\ epu = "none" => epccr = {}
    /\ pc[w] \in {"lookup", "request", "arm"} => epu # "none"
    /\ pc[Remover] \in Down => epccr = {}
    /\ phase = "gone" /\ probe = "ok" => epccr = {}
    /\ \A p \in {w, Remover} :
          /\ pc[p] = "disarm" => \A c \in epccr : c >= i[p]
          /\ pc[p] \in {"free", "sync", "forget"} => epccr = {}

\* How the module goes up and down
Stages(w) ==
    /\ phase = "out" => probe = "none" /\ epu = "none" /\ ~root /\ ~misc
    /\ phase \in {"out", "loading"} =>
          handlers = 0 /\ vcntctrl = 0 /\ ~vfiles /\ pc[w] = "idle"
    /\ pc[Remover] \in {"untree", "unmap"} => ~root /\ ~vfiles
    /\ phase = "gone" /\ probe = "ok" => ~root /\ ~misc /\ ~vfiles
    /\ probe = "ok" /\ epu = "unmapped" => phase = "gone" \/ pc[Remover] = "unmap"

\* Where the handler can still run
Quiet(w) ==
    /\ running => handlers >= 1 \/ \E p \in {w, Remover} : pc[p] = "sync"
    /\ ~masked /\ pc[Remover] \in Down => handlers = 0 /\ ~running
    /\ ~masked /\ phase = "gone" /\ probe = "ok" => handlers = 0 /\ ~running

\* What the word tells while nothing has gone wrong
Truthful(w) ==
    sure /\ ~masked /\ phase = "live" =>
        /\ pc[w] \in Binding => vcntctrl = 0
        /\ pc[w] = "arm" => epccr = 0 .. i[w] - 1
        /\ pc[w] = "disarm" => epccr = i[w] .. NumCounters - 1 /\ handlers = 1
        /\ pc[w] = "free" => handlers = 1
        /\ pc[w] = "store" =>
              handlers = val[w] /\ epccr = IF val[w] = 1 THEN Counters ELSE {}
        /\ pc[w] = "idle" =>
              handlers = vcntctrl /\ epccr = IF vcntctrl = 1 THEN Counters ELSE {}

\* The inductive invariant, for the writer w
IInv(w) ==
    /\ TypeOK /\ Places(w) /\ Handled(w) /\ Single(w)
    /\ Raised(w) /\ Stages(w) /\ Quiet(w) /\ Truthful(w)

----------------------------------------------------------------------------
(* The invariant is inductive.                                             *)

\* It holds before the module is loaded.
LEMMA IInvInit == ASSUME NEW w, Writers = {w} PROVE Init => IInv(w)
<1>1. Procs = {w, Remover} /\ 0 < NumCounters
  BY CounterAssumption DEF Procs
<1>2. 0 \in 0 .. NumCounters /\ 0 \in 0 .. MaxHandlers
  BY CounterAssumption, HandlerAssumption
<1> SUFFICES ASSUME Init PROVE IInv(w)
  OBVIOUS
<1>3. TypeOK
  BY <1>2 DEF Init, CtrlInit, TypeOK, CtrlLabels
<1>4. Places(w) /\ Handled(w) /\ Single(w) /\ Raised(w)
  BY <1>1 DEF Init, CtrlInit, Places, Handled, Single, Raised, Binding, Unbinding, Down
<1>5. Stages(w) /\ Quiet(w) /\ Truthful(w)
  BY <1>1 DEF Init, CtrlInit, Stages, Quiet, Truthful, Binding, Down
<1> QED
  BY <1>3, <1>4, <1>5 DEF IInv

\* Every step keeps it.
LEMMA IInvNext ==
    ASSUME NEW w, Writers = {w}, IInv(w), [Next]_vars
    PROVE  IInv(w)'
<1>0. /\ Procs = {w, Remover} /\ w # Remover
      /\ NumCounters \in Nat \ {0} /\ MaxHandlers \in Nat \ {0}
  BY WriterAssumption, CounterAssumption, HandlerAssumption DEF Procs
<1> USE <1>0 DEF IInv, TypeOK, CtrlLabels, Binding, Unbinding, Down, Counters,
        Goto, Return, binding, ghosts, device
<1>1. ASSUME Register
      PROVE  IInv(w)'
  <2>1. TypeOK'
    <3>1. phase' = "loading" /\ probe' \in {"none", "ok", "failed"}
      BY <1>1 DEF Register
    <3>2. epu' \in {"none", "mapped", "unmapped"}
      BY <1>1 DEF Register, Unmapped
    <3>3. root' \in BOOLEAN /\ misc' \in BOOLEAN
      BY <1>1 DEF Register
    <3>4. UNCHANGED <<binding, vfiles, open>>
      BY <1>1 DEF Register
    <3> QED
      BY <3>1, <3>2, <3>3, <3>4
  <2>2. Places(w)'
    BY <1>1 DEF Register, Unmapped, Places
  <2>3. Handled(w)'
    BY <1>1 DEF Register, Unmapped, Places, Handled
  <2>4. Single(w)'
    BY <1>1 DEF Register, Unmapped, Places, Handled, Single
  <2>5. Raised(w)'
    BY <1>1 DEF Register, Unmapped, Places, Stages, Raised
  <2>6. Stages(w)'
    BY <1>1 DEF Register, Unmapped, Places, Stages
  <2>7. Quiet(w)'
    BY <1>1 DEF Register, Unmapped, Places, Handled, Single, Stages, Quiet
  <2>8. Truthful(w)'
    BY <1>1 DEF Register, Unmapped, Places, Handled, Single, Raised, Truthful
  <2> QED
    BY <2>1, <2>2, <2>3, <2>4, <2>5, <2>6, <2>7, <2>8
<1>2. ASSUME RegisterFails
      PROVE  IInv(w)'
  <2>1. TypeOK'
    BY <1>2 DEF RegisterFails
  <2>2. Places(w)'
    BY <1>2 DEF RegisterFails, Places
  <2>3. Handled(w)'
    BY <1>2 DEF RegisterFails, Places, Handled
  <2>4. Single(w)'
    BY <1>2 DEF RegisterFails, Places, Handled, Single
  <2>5. Raised(w)'
    BY <1>2 DEF RegisterFails, Places, Stages, Raised
  <2>6. Stages(w)'
    BY <1>2 DEF RegisterFails, Places, Stages
  <2>7. Quiet(w)'
    BY <1>2 DEF RegisterFails, Places, Handled, Single, Stages, Quiet
  <2>8. Truthful(w)'
    BY <1>2 DEF RegisterFails, Places, Handled, Single, Raised, Truthful
  <2> QED
    BY <2>1, <2>2, <2>3, <2>4, <2>5, <2>6, <2>7, <2>8
<1>3. ASSUME VcountersInit
      PROVE  IInv(w)'
  <2>1. TypeOK'
    BY <1>3 DEF VcountersInit
  <2>2. Places(w)'
    BY <1>3 DEF VcountersInit, Places
  <2>3. Handled(w)'
    BY <1>3 DEF VcountersInit, Places, Handled
  <2>4. Single(w)'
    BY <1>3 DEF VcountersInit, Places, Handled, Single
  <2>5. Raised(w)'
    BY <1>3 DEF VcountersInit, Places, Handled, Raised
  <2>6. Stages(w)'
    BY <1>3 DEF VcountersInit, Places, Stages
  <2>7. Quiet(w)'
    BY <1>3 DEF VcountersInit, Places, Handled, Single, Stages, Quiet
  <2>8. Truthful(w)'
    BY <1>3 DEF VcountersInit, Stages, Raised, Truthful
  <2> QED
    BY <2>1, <2>2, <2>3, <2>4, <2>5, <2>6, <2>7, <2>8
<1>4. ASSUME Exit
      PROVE  IInv(w)'
  <2>1. TypeOK'
    BY <1>4 DEF Exit, UnbindFirst
  <2>2. Places(w)'
    BY <1>4 DEF Exit, UnbindFirst, Places
  <2>3. Handled(w)'
    BY <1>4 DEF Exit, UnbindFirst, Places, Handled
  <2>4. Single(w)'
    BY <1>4 DEF Exit, UnbindFirst, Places, Handled, Single
  <2>5. Raised(w)'
    BY <1>4 DEF Exit, UnbindFirst, Places, Handled, Raised
  <2>6. Stages(w)'
    BY <1>4 DEF Exit, UnbindFirst, Places, Stages
  <2>7. Quiet(w)'
    BY <1>4 DEF Exit, UnbindFirst, Places, Handled, Single, Stages, Quiet
  <2>8. Truthful(w)'
    BY <1>4 DEF Exit, UnbindFirst, Places, Handled, Single, Raised, Truthful
  <2> QED
    BY <2>1, <2>2, <2>3, <2>4, <2>5, <2>6, <2>7, <2>8
<1>5. ASSUME RemoveTree
      PROVE  IInv(w)'
  <2>1. TypeOK'
    <3>1. pc' \in [Procs -> CtrlLabels]
      BY <1>5 DEF RemoveTree
    <3>2. root' \in BOOLEAN /\ vfiles' \in BOOLEAN
      BY <1>5 DEF RemoveTree
    <3> QED
      BY <1>5, <3>1, <3>2 DEF RemoveTree
  <2>2. Places(w)'
    BY <1>5 DEF RemoveTree, Places
  <2>3. Handled(w)'
    BY <1>5 DEF RemoveTree, Places, Handled
  <2>4. Single(w)'
    BY <1>5 DEF RemoveTree, Places, Handled, Single
  <2>5. Raised(w)'
    BY <1>5 DEF RemoveTree, Places, Handled, Raised
  <2>6. Stages(w)'
    BY <1>5 DEF RemoveTree, Places, Stages
  <2>7. Quiet(w)'
    BY <1>5 DEF RemoveTree, Places, Handled, Single, Stages, Quiet
  <2>8. Truthful(w)'
    BY <1>5 DEF RemoveTree, Places, Handled, Single, Raised, Truthful
  <2> QED
    BY <2>1, <2>2, <2>3, <2>4, <2>5, <2>6, <2>7, <2>8
<1>6. ASSUME RemoveDevices
      PROVE  IInv(w)'
  <2>1. TypeOK'
    BY <1>6 DEF RemoveDevices, Unmapped
  <2>2. Places(w)'
    BY <1>6 DEF RemoveDevices, Unmapped, Places
  <2>3. Handled(w)'
    BY <1>6 DEF RemoveDevices, Unmapped, Places, Handled
  <2>4. Single(w)'
    BY <1>6 DEF RemoveDevices, Unmapped, Places, Handled, Single
  <2>5. Raised(w)'
    BY <1>6 DEF RemoveDevices, Unmapped, Places, Handled, Raised
  <2>6. Stages(w)'
    BY <1>6 DEF RemoveDevices, Unmapped, Places, Stages
  <2>7. Quiet(w)'
    BY <1>6 DEF RemoveDevices, Unmapped, Places, Handled, Single, Stages, Quiet
  <2>8. Truthful(w)'
    BY <1>6 DEF RemoveDevices, Unmapped, Places, Handled, Single, Raised, Truthful
  <2> QED
    BY <2>1, <2>2, <2>3, <2>4, <2>5, <2>6, <2>7, <2>8
<1>7. ASSUME RegAccessCleanup
      PROVE  IInv(w)'
  <2>1. TypeOK'
    <3>1. pc' \in [Procs -> CtrlLabels]
      BY <1>7 DEF RegAccessCleanup
    <3>2. phase' = "gone" /\ misc' = FALSE
      BY <1>7 DEF RegAccessCleanup
    <3>3. UNCHANGED <<vcntctrl, num, handlers, running, epccr, val, i, ghosts, epu,
                      probe, root, vfiles, open>>
      BY <1>7 DEF RegAccessCleanup
    <3> QED
      BY <3>1, <3>2, <3>3
  <2>2. Places(w)'
    BY <1>7 DEF RegAccessCleanup, Places
  <2>3. Handled(w)'
    BY <1>7 DEF RegAccessCleanup, Places, Handled
  <2>4. Single(w)'
    BY <1>7 DEF RegAccessCleanup, Places, Handled, Single
  <2>5. Raised(w)'
    BY <1>7 DEF RegAccessCleanup, Places, Handled, Raised
  <2>6. Stages(w)'
    BY <1>7 DEF RegAccessCleanup, Places, Stages
  <2>7. Quiet(w)'
    BY <1>7 DEF RegAccessCleanup, Places, Handled, Single, Stages, Quiet
  <2>8. Truthful(w)'
    BY <1>7 DEF RegAccessCleanup, Places, Handled, Single, Raised, Truthful
  <2> QED
    BY <2>1, <2>2, <2>3, <2>4, <2>5, <2>6, <2>7, <2>8
<1>8. ASSUME Open(w)
      PROVE  IInv(w)'
  <2>1. TypeOK'
    BY <1>8 DEF Open
  <2>2. Places(w)'
    BY <1>8 DEF Open, Places
  <2>3. Handled(w)'
    BY <1>8 DEF Open, Places, Handled
  <2>4. Single(w)'
    BY <1>8 DEF Open, Places, Handled, Single
  <2>5. Raised(w)'
    BY <1>8 DEF Open, Places, Handled, Raised
  <2>6. Stages(w)'
    BY <1>8 DEF Open, Places, Stages
  <2>7. Quiet(w)'
    BY <1>8 DEF Open, Places, Handled, Single, Stages, Quiet
  <2>8. Truthful(w)'
    BY <1>8 DEF Open, Places, Handled, Single, Raised, Truthful
  <2> QED
    BY <2>1, <2>2, <2>3, <2>4, <2>5, <2>6, <2>7, <2>8
<1>9. ASSUME Close(w)
      PROVE  IInv(w)'
  <2>1. TypeOK'
    BY <1>9 DEF Close
  <2>2. Places(w)'
    BY <1>9 DEF Close, Places
  <2>3. Handled(w)'
    BY <1>9 DEF Close, Places, Handled
  <2>4. Single(w)'
    BY <1>9 DEF Close, Places, Handled, Single
  <2>5. Raised(w)'
    BY <1>9 DEF Close, Places, Handled, Raised
  <2>6. Stages(w)'
    BY <1>9 DEF Close, Places, Stages
  <2>7. Quiet(w)'
    BY <1>9 DEF Close, Places, Handled, Single, Stages, Quiet
  <2>8. Truthful(w)'
    BY <1>9 DEF Close, Places, Handled, Single, Raised, Truthful
  <2> QED
    BY <2>1, <2>2, <2>3, <2>4, <2>5, <2>6, <2>7, <2>8
<1>10. ASSUME Oops(w)
      PROVE  IInv(w)'
  <2>1. TypeOK'
    BY <1>10 DEF Oops, AtRegister
  <2>2. Places(w)'
    BY <1>10 DEF Oops, AtRegister, Places
  <2>3. Handled(w)'
    BY <1>10 DEF Oops, AtRegister, Places, Handled
  <2>4. Single(w)'
    BY <1>10 DEF Oops, AtRegister, Places, Handled, Single
  <2>5. Raised(w)'
    BY <1>10 DEF Oops, AtRegister, Places, Handled, Raised
  <2>6. Stages(w)'
    BY <1>10 DEF Oops, AtRegister, Places, Stages
  <2>7. Quiet(w)'
    BY <1>10 DEF Oops, AtRegister, Places, Handled, Single, Stages, Quiet
  <2>8. Truthful(w)'
    BY <1>10 DEF Oops, AtRegister, Places, Handled, Single, Raised, Truthful
  <2> QED
    BY <2>1, <2>2, <2>3, <2>4, <2>5, <2>6, <2>7, <2>8
<1>11. ASSUME NEW v \in {0, 1}, Write(w, v)
      PROVE  IInv(w)'
  <2>1. TypeOK'
    BY <1>11 DEF Write, SetCall, MustBind
  <2>2. Places(w)'
    BY <1>11 DEF Write, SetCall, MustBind, Places
  <2>3. Handled(w)'
    BY <1>11 DEF Write, SetCall, MustBind, Places, Handled
  <2>4. Single(w)'
    BY <1>11 DEF Write, SetCall, MustBind, Places, Handled, Single
  <2>5. Raised(w)'
    BY <1>11 DEF Write, SetCall, MustBind, Places, Handled, Raised
  <2>6. Stages(w)'
    BY <1>11 DEF Write, SetCall, MustBind, Places, Stages
  <2>7. Quiet(w)'
    BY <1>11 DEF Write, SetCall, MustBind, Places, Handled, Single, Stages, Quiet
  <2>8. Truthful(w)'
    BY <1>11 DEF Write, SetCall, MustBind, Places, Handled, Single, Raised, Truthful
  <2> QED
    BY <2>1, <2>2, <2>3, <2>4, <2>5, <2>6, <2>7, <2>8
<1>12. ASSUME NEW v \in RawValues, WriteRegister(v)
      PROVE  IInv(w)'
  <2>1. TypeOK'
    <3>1. vcntctrl' \in {0, 1}
      BY <1>12, RawAssumption DEF WriteRegister, RawWrite
    <3>2. masked' \in BOOLEAN /\ sure' \in BOOLEAN
      BY <1>12, Zenon DEF WriteRegister, RawWrite
    <3>3. UNCHANGED <<num, handlers, running, epccr, epu, pc, val, i, device, open>>
      BY <1>12 DEF WriteRegister, RawWrite
    <3> QED
      BY <3>1, <3>2, <3>3
  <2>2. Places(w)'
    BY <1>12 DEF WriteRegister, RawWrite, Places
  <2>3. Handled(w)'
    BY <1>12 DEF WriteRegister, RawWrite, Places, Handled
  <2>4. Single(w)'
    <3>1. CASE masked'
      BY <3>1 DEF Single
    <3>2. CASE ~masked' /\ vcntctrl' = 0
      <4>1. ~masked /\ (vcntctrl = 0 \/ handlers = 0)
        <5>1. ~masked /\ ~(v < vcntctrl /\ handlers > 0) /\ v = 0
          BY <1>12, <3>2, Zenon DEF WriteRegister, RawWrite
        <5>2. vcntctrl \in {0, 1} /\ handlers \in Nat
          OBVIOUS
        <5> HIDE DEF IInv, TypeOK
        <5> QED
          BY <5>1, <5>2
      <4> QED
        BY <1>12, <3>2, <4>1 DEF WriteRegister, RawWrite, Single
    <3>3. CASE ~masked' /\ vcntctrl' = 1
      BY <1>12, <3>3 DEF WriteRegister, RawWrite, Single
    <3> QED
      BY <2>1, <3>1, <3>2, <3>3
  <2>5. Raised(w)'
    BY <1>12 DEF WriteRegister, RawWrite, Places, Handled, Raised
  <2>6. Stages(w)'
    BY <1>12 DEF WriteRegister, RawWrite, Places, Stages
  <2>7. Quiet(w)'
    BY <1>12 DEF WriteRegister, RawWrite, Places, Handled, Single, Stages, Quiet
  <2>8. Truthful(w)'
    BY <1>12 DEF WriteRegister, RawWrite, Places, Handled, Single, Raised, Truthful
  <2> QED
    BY <2>1, <2>2, <2>3, <2>4, <2>5, <2>6, <2>7, <2>8
<1>13. ASSUME Isr
      PROVE  IInv(w)'
  <2>1. TypeOK'
    <3>1. running' \in BOOLEAN
      BY <1>13 DEF Isr, IsrEnter, IsrReturn
    <3>2. UNCHANGED <<vcntctrl, num, handlers, epccr, epu, pc, val, i, ghosts, device, open>>
      BY <1>13 DEF Isr, IsrEnter, IsrReturn
    <3> QED
      BY <3>1, <3>2
  <2>2. Places(w)'
    BY <1>13 DEF Isr, IsrEnter, IsrReturn, Places
  <2>3. Handled(w)'
    BY <1>13 DEF Isr, IsrEnter, IsrReturn, Places, Handled
  <2>4. Single(w)'
    BY <1>13 DEF Isr, IsrEnter, IsrReturn, Places, Handled, Single
  <2>5. Raised(w)'
    BY <1>13 DEF Isr, IsrEnter, IsrReturn, Places, Handled, Raised
  <2>6. Stages(w)'
    BY <1>13 DEF Isr, IsrEnter, IsrReturn, Places, Stages
  <2>7. Quiet(w)'
    BY <1>13 DEF Isr, IsrEnter, IsrReturn, Places, Handled, Single, Stages, Quiet
  <2>8. Truthful(w)'
    BY <1>13 DEF Isr, IsrEnter, IsrReturn, Places, Handled, Single, Raised, Truthful
  <2> QED
    BY <2>1, <2>2, <2>3, <2>4, <2>5, <2>6, <2>7, <2>8
<1>14. ASSUME Store(w), UNCHANGED <<device, open>>
      PROVE  IInv(w)'
  <2>1. TypeOK'
    BY <1>14 DEF Store, NewWord
  <2>2. Places(w)'
    BY <1>14 DEF Store, NewWord, Places
  <2>3. Handled(w)'
    BY <1>14 DEF Store, NewWord, Places, Handled
  <2>4. Single(w)'
    BY <1>14 DEF Store, NewWord, Places, Handled, Single
  <2>5. Raised(w)'
    BY <1>14 DEF Store, NewWord, Places, Handled, Raised
  <2>6. Stages(w)'
    BY <1>14 DEF Store, NewWord, Places, Stages
  <2>7. Quiet(w)'
    BY <1>14 DEF Store, NewWord, Places, Handled, Single, Stages, Quiet
  <2>8. Truthful(w)'
    BY <1>14 DEF Store, NewWord, Places, Handled, Single, Raised, Truthful
  <2> QED
    BY <2>1, <2>2, <2>3, <2>4, <2>5, <2>6, <2>7, <2>8
<1>15. ASSUME NEW p \in {w, Remover}, ClearIsr(p), UNCHANGED <<device, open>>
      PROVE  IInv(w)'
  <2>1. TypeOK'
    <3>1. pc' \in [Procs -> CtrlLabels] /\ sure' \in BOOLEAN
      BY <1>15 DEF ClearIsr
    <3> QED
      BY <1>15, <3>1 DEF ClearIsr
  <2>2. Places(w)'
    BY <1>15 DEF ClearIsr, Places
  <2>3. Handled(w)'
    BY <1>15 DEF ClearIsr, Places, Handled
  <2>4. Single(w)'
    BY <1>15 DEF ClearIsr, Places, Handled, Single
  <2>5. Raised(w)'
    BY <1>15 DEF ClearIsr, Places, Handled, Raised
  <2>6. Stages(w)'
    BY <1>15 DEF ClearIsr, Places, Stages
  <2>7. Quiet(w)'
    BY <1>15 DEF ClearIsr, Places, Handled, Single, Stages, Quiet
  <2>8. Truthful(w)'
    BY <1>15 DEF ClearIsr, Places, Handled, Single, Raised, Truthful
  <2> QED
    BY <2>1, <2>2, <2>3, <2>4, <2>5, <2>6, <2>7, <2>8
<1>16. ASSUME NEW p \in {w, Remover}, Lookup(p), UNCHANGED <<device, open>>
      PROVE  IInv(w)'
  <2>1. TypeOK'
    <3>1. pc' \in [Procs -> CtrlLabels] /\ sure' \in BOOLEAN
      BY <1>16 DEF Lookup, AfterLookup
    <3>2. num' \in {0, 1}
      BY <1>16 DEF Lookup
    <3> QED
      BY <1>16, <3>1, <3>2 DEF Lookup
  <2>2. Places(w)'
    BY <1>16 DEF Lookup, AfterLookup, Places
  <2>3. Handled(w)'
    BY <1>16 DEF Lookup, AfterLookup, Places, Handled
  <2>4. Single(w)'
    BY <1>16 DEF Lookup, AfterLookup, Places, Handled, Single
  <2>5. Raised(w)'
    BY <1>16 DEF Lookup, AfterLookup, Places, Handled, Raised
  <2>6. Stages(w)'
    BY <1>16 DEF Lookup, AfterLookup, Places, Stages
  <2>7. Quiet(w)'
    BY <1>16 DEF Lookup, AfterLookup, Places, Handled, Single, Stages, Quiet
  <2>8. Truthful(w)'
    BY <1>16 DEF Lookup, AfterLookup, Places, Handled, Single, Raised, Truthful
  <2> QED
    BY <2>1, <2>2, <2>3, <2>4, <2>5, <2>6, <2>7, <2>8
<1>17. ASSUME NEW p \in {w, Remover}, Request(p), UNCHANGED <<device, open>>
      PROVE  IInv(w)'
  <2>1. TypeOK'
    <3>1. handlers' \in 0 .. MaxHandlers
      BY <1>17 DEF Request
    <3>2. pc' \in [Procs -> CtrlLabels] /\ sure' \in BOOLEAN
      BY <1>17 DEF Request
    <3>3. UNCHANGED <<vcntctrl, num, running, epccr, epu, val, i, masked, device, open>>
      BY <1>17 DEF Request
    <3> QED
      BY <3>1, <3>2, <3>3
  <2>2. Places(w)'
    BY <1>17 DEF Request, Places
  <2>3. Handled(w)'
    BY <1>17 DEF Request, Places, Handled
  <2>4. Single(w)'
    BY <1>17 DEF Request, Places, Handled, Single
  <2>5. Raised(w)'
    BY <1>17 DEF Request, Places, Handled, Raised
  <2>6. Stages(w)'
    BY <1>17 DEF Request, Places, Stages
  <2>7. Quiet(w)'
    BY <1>17 DEF Request, Places, Handled, Single, Stages, Quiet
  <2>8. Truthful(w)'
    <3> SUFFICES ASSUME sure', ~masked', phase' = "live" PROVE Truthful(w)'
      BY DEF Truthful
    <3>1. p = w /\ pc[w] = "request"
      BY <1>17 DEF Request, Places
    <3>2. pc' = [pc EXCEPT ![w] = "arm"] /\ sure /\ ~masked /\ phase = "live"
      BY <1>17, <3>1 DEF Request
    <3>3. vcntctrl = 0 /\ i[w] = 0 /\ epccr = {}
      BY <3>1, <3>2 DEF Places, Single, Raised, Truthful
    <3> QED
      BY <1>17, <3>1, <3>2, <3>3 DEF Request, Truthful
  <2> QED
    BY <2>1, <2>2, <2>3, <2>4, <2>5, <2>6, <2>7, <2>8
<1>18. ASSUME NEW p \in {w, Remover}, Arm(p), UNCHANGED <<device, open>>
      PROVE  IInv(w)'
  <2>1. TypeOK'
    <3>1. i[p] \in 0 .. NumCounters - 1
      BY <1>18 DEF Arm, Places
    <3>2. epccr' \subseteq Counters
      BY <1>18, <3>1 DEF Arm
    <3>3. i' \in [Procs -> 0 .. NumCounters]
      BY <1>18, <3>1 DEF Arm, NextCounter
    <3>4. pc' \in [Procs -> CtrlLabels]
      BY <1>18 DEF Arm
    <3> QED
      BY <1>18, <3>2, <3>3, <3>4 DEF Arm
  <2>2. Places(w)'
    BY <1>18 DEF Arm, NextCounter, AtEnd, Places
  <2>3. Handled(w)'
    BY <1>18 DEF Arm, NextCounter, AtEnd, Places, Handled
  <2>4. Single(w)'
    BY <1>18 DEF Arm, NextCounter, AtEnd, Places, Handled, Single
  <2>5. Raised(w)'
    BY <1>18 DEF Arm, NextCounter, AtEnd, Places, Handled, Raised
  <2>6. Stages(w)'
    BY <1>18 DEF Arm, NextCounter, AtEnd, Places, Stages
  <2>7. Quiet(w)'
    BY <1>18 DEF Arm, NextCounter, AtEnd, Places, Handled, Single, Stages, Quiet
  <2>8. Truthful(w)'
    BY <1>18 DEF Arm, NextCounter, AtEnd, Places, Handled, Single, Raised, Truthful
  <2> QED
    BY <2>1, <2>2, <2>3, <2>4, <2>5, <2>6, <2>7, <2>8
<1>19. ASSUME NEW p \in {w, Remover}, Disarm(p), UNCHANGED <<device, open>>
      PROVE  IInv(w)'
  <2>1. TypeOK'
    <3>1. i[p] \in 0 .. NumCounters - 1
      BY <1>19 DEF Disarm, Places
    <3>2. epccr' \subseteq Counters
      BY <1>19 DEF Disarm
    <3>3. i' \in [Procs -> 0 .. NumCounters]
      BY <1>19, <3>1 DEF Disarm, NextCounter
    <3>4. pc' \in [Procs -> CtrlLabels]
      BY <1>19 DEF Disarm
    <3> QED
      BY <1>19, <3>2, <3>3, <3>4 DEF Disarm
  <2>2. Places(w)'
    BY <1>19 DEF Disarm, NextCounter, AtEnd, Places
  <2>3. Handled(w)'
    BY <1>19 DEF Disarm, NextCounter, AtEnd, Places, Handled
  <2>4. Single(w)'
    BY <1>19 DEF Disarm, NextCounter, AtEnd, Places, Handled, Single
  <2>5. Raised(w)'
    <3>1. CASE epu = "none"
      BY <1>19, <3>1 DEF Disarm, Places, Raised
    <3>2. CASE epu # "none"
      <4>0. epccr' = epccr \ {i[p]} /\ i' = [i EXCEPT ![p] = i[p] + 1]
        BY <1>19, <3>2 DEF Disarm, NextCounter
      <4>1. \A c \in epccr' : c >= i[p] + 1
        <5>1. \A c \in epccr : c >= i[p] /\ c \in 0 .. NumCounters - 1
          BY <1>19 DEF Disarm, Raised
        <5>2. i[p] \in Nat
          BY DEF Places
        <5> QED
          BY <4>0, <5>1, <5>2
      <4>2. i[p] + 1 >= NumCounters => epccr' = {}
        <5>1. \A c \in epccr' : c \in 0 .. NumCounters - 1 /\ c >= i[p] + 1
          BY <4>0, <4>1
        <5> QED
          BY <5>1
      <4>3. \A q \in {w, Remover} : q # p => pc[q] \notin AtRegister \union Unbinding
        BY <1>19 DEF Disarm, Places, AtRegister
      <4>4. p = Remover => phase = "exiting" /\ pc[w] \in {"idle", "dead"}
        BY <1>19 DEF Disarm, Places
      <4>5. p = w => phase = "live" /\ pc[Remover] = "idle"
        BY <1>19 DEF Disarm, Places
      <4>6. pc' = IF i[p] + 1 >= NumCounters THEN [pc EXCEPT ![p] = "free"] ELSE pc
        BY <1>19, <3>2 DEF Disarm, NextCounter, AtEnd
      <4>7. handlers' = handlers /\ epu' = epu /\ phase' = phase /\ pc[p] = "disarm"
        BY <1>19 DEF Disarm
      <4>8. CASE i[p] + 1 >= NumCounters
        BY <3>2, <4>0, <4>2, <4>6, <4>7, <4>8, <4>4, <4>5 DEF Raised
      <4>9. CASE ~(i[p] + 1 >= NumCounters)
        BY <3>2, <4>0, <4>1, <4>3, <4>6, <4>7, <4>9, <4>4, <4>5 DEF Raised
      <4> QED
        BY <4>8, <4>9
    <3> QED
      BY <3>1, <3>2
  <2>6. Stages(w)'
    BY <1>19 DEF Disarm, NextCounter, AtEnd, Places, Stages
  <2>7. Quiet(w)'
    BY <1>19 DEF Disarm, NextCounter, AtEnd, Places, Handled, Single, Stages, Quiet
  <2>8. Truthful(w)'
    <3> SUFFICES ASSUME sure', ~masked', phase' = "live" PROVE Truthful(w)'
      BY DEF Truthful
    <3>1. sure /\ ~masked /\ phase = "live" /\ p = w
      BY <1>19 DEF Disarm, Places
    <3>2. epccr = i[w] .. NumCounters - 1 /\ handlers = 1 /\ i[w] < NumCounters
      BY <1>19, <3>1 DEF Disarm, Places, Truthful
    <3>3. epu # "none"
      BY <3>2 DEF Raised
    <3>4. epccr' = (i[w] + 1) .. NumCounters - 1
      <4>1. epccr' = epccr \ {i[w]} /\ i[w] \in Nat
        BY <1>19, <3>1, <3>3 DEF Disarm
      <4> QED
        BY <3>2, <4>1
    <3> QED
      BY <1>19, <3>1, <3>2, <3>3, <3>4 DEF Disarm, NextCounter, AtEnd, Truthful
  <2> QED
    BY <2>1, <2>2, <2>3, <2>4, <2>5, <2>6, <2>7, <2>8
<1>20. ASSUME NEW p \in {w, Remover}, FreeIrq(p), UNCHANGED <<device, open>>
      PROVE  IInv(w)'
  <2>1. TypeOK'
    <3>1. handlers' \in 0 .. MaxHandlers
      BY <1>20 DEF FreeIrq, Freed
    <3>2. masked' \in BOOLEAN
      BY <1>20, Zenon DEF FreeIrq
    <3>3. pc' \in [Procs -> CtrlLabels]
      BY <1>20 DEF FreeIrq
    <3> QED
      BY <1>20, <3>1, <3>2, <3>3 DEF FreeIrq
  <2>2. Places(w)'
    BY <1>20 DEF FreeIrq, Freed, Places
  <2>3. Handled(w)'
    BY <1>20 DEF FreeIrq, Freed, Places, Handled
  <2>4. Single(w)'
    BY <1>20 DEF FreeIrq, Freed, Places, Handled, Single
  <2>5. Raised(w)'
    BY <1>20 DEF FreeIrq, Freed, Places, Handled, Raised
  <2>6. Stages(w)'
    BY <1>20 DEF FreeIrq, Freed, Places, Stages
  <2>7. Quiet(w)'
    BY <1>20 DEF FreeIrq, Freed, Places, Handled, Single, Stages, Quiet
  <2>8. Truthful(w)'
    BY <1>20 DEF FreeIrq, Freed, Places, Handled, Single, Raised, Truthful
  <2> QED
    BY <2>1, <2>2, <2>3, <2>4, <2>5, <2>6, <2>7, <2>8
<1>21. ASSUME NEW p \in {w, Remover}, SyncIrq(p), UNCHANGED <<device, open>>
      PROVE  IInv(w)'
  <2>1. TypeOK'
    BY <1>21 DEF SyncIrq
  <2>2. Places(w)'
    BY <1>21 DEF SyncIrq, Places
  <2>3. Handled(w)'
    BY <1>21 DEF SyncIrq, Places, Handled
  <2>4. Single(w)'
    BY <1>21 DEF SyncIrq, Places, Handled, Single
  <2>5. Raised(w)'
    BY <1>21 DEF SyncIrq, Places, Handled, Raised
  <2>6. Stages(w)'
    BY <1>21 DEF SyncIrq, Places, Stages
  <2>7. Quiet(w)'
    BY <1>21 DEF SyncIrq, Places, Handled, Single, Stages, Quiet
  <2>8. Truthful(w)'
    BY <1>21 DEF SyncIrq, Places, Handled, Single, Raised, Truthful
  <2> QED
    BY <2>1, <2>2, <2>3, <2>4, <2>5, <2>6, <2>7, <2>8
<1>22. ASSUME NEW p \in {w, Remover}, ForgetNum(p), UNCHANGED <<device, open>>
      PROVE  IInv(w)'
  <2>1. TypeOK'
    BY <1>22 DEF ForgetNum
  <2>2. Places(w)'
    BY <1>22 DEF ForgetNum, Places
  <2>3. Handled(w)'
    BY <1>22 DEF ForgetNum, Places, Handled
  <2>4. Single(w)'
    BY <1>22 DEF ForgetNum, Places, Handled, Single
  <2>5. Raised(w)'
    BY <1>22 DEF ForgetNum, Places, Handled, Raised
  <2>6. Stages(w)'
    BY <1>22 DEF ForgetNum, Places, Stages
  <2>7. Quiet(w)'
    BY <1>22 DEF ForgetNum, Places, Handled, Single, Stages, Quiet
  <2>8. Truthful(w)'
    BY <1>22 DEF ForgetNum, Places, Handled, Single, Raised, Truthful
  <2> QED
    BY <2>1, <2>2, <2>3, <2>4, <2>5, <2>6, <2>7, <2>8
<1>23. ASSUME UNCHANGED vars PROVE IInv(w)'
  BY <1>23 DEF vars, Places, Handled, Single, Raised, Stages, Quiet, Truthful
<1> QED
  BY <1>1, <1>2, <1>3, <1>4, <1>5, <1>6, <1>7, <1>8, <1>9, <1>10, <1>11, <1>12,
     <1>13, <1>14, <1>15, <1>16, <1>17, <1>18, <1>19, <1>20, <1>21, <1>22, <1>23
  DEF Next, Remove, Call, CtrlStep, Bind, Unbind

----------------------------------------------------------------------------
(* The theorems: for one writer, whatever the register ioctl stores.       *)

\* So it always holds.
LEMMA IInvAlways ==
    ASSUME NEW w, Writers = {w}
    PROVE  Spec => []IInv(w)
<1>1. Init => IInv(w)
  BY IInvInit
<1>2. IInv(w) /\ [Next]_vars => IInv(w)'
  BY IInvNext
<1> QED
  BY <1>1, <1>2, PTL DEF Spec

\* The variables of the enable bit, of the binding and of the module have
\* their types; the loops over EPCCR stay inside it (vir_cntrs.c:495-513, 526-535).
THEOREM LifecycleTypes ==
    ASSUME NEW w, Writers = {w}
    PROVE  Spec => []TypeOK
<1>1. IInv(w) => TypeOK
  BY DEF IInv
<1> QED
  BY <1>1, IInvAlways, PTL

\* One writer never registers the handler a second time, nor loses the number
\* to free it by, whatever fails in between (vir_cntrs.c:450-546), unless the
\* ioctl stores 0 over a 1 while the handler is registered.
THEOREM OneHandler ==
    ASSUME NEW w, Writers = {w}
    PROVE  Spec => []HandlerCanBeFreed
<1>1. IInv(w) => HandlerCanBeFreed
  BY DEF IInv, Single, HandlerCanBeFreed
<1> QED
  BY <1>1, IInvAlways, PTL

\* With one writer no interrupt is turned on that nobody handles, which two
\* writers do bring about (vir_cntrs.c:495, 527).
THEOREM RaisedIsHandled ==
    ASSUME NEW w, Writers = {w}
    PROVE  Spec => []RaisedOnlyIfHandled
<1>1. IInv(w) => RaisedOnlyIfHandled
  <2> HAVE IInv(w)
  <2>1. handlers \in Nat /\ (handlers = 0 => epccr = {})
    BY HandlerAssumption DEF IInv, TypeOK, Raised
  <2> QED
    BY <2>1 DEF RaisedOnlyIfHandled
<1> QED
  BY <1>1, IInvAlways, PTL

\* Neither the writer nor dcsr_remove accesses registers that dcsr_remove has
\* unmapped, nor does the interrupt handler, unless a stored 0 has masked a
\* registration (ls_dbg.c:205-212).
THEOREM NothingUnmapped ==
    ASSUME NEW w, Writers = {w}
    PROVE  Spec => []RegistersMapped
<1>1. IInv(w) => RegistersMapped
  BY WriterAssumption DEF IInv, TypeOK, Places, Stages, Quiet, RegistersMapped, AtRegister,
     Procs, Binding, Unbinding, Down
<1> QED
  BY <1>1, IInvAlways, PTL

\* At rest, while no binding has failed and the ioctl has not stored the word,
\* what is read from vcntrctrl tells whether the interrupt is on
\* (vir_cntrs.c:421-441).
THEOREM WordIsTruthful ==
    ASSUME NEW w, Writers = {w}
    PROVE  Spec => []WordTellsBinding
<1>1. IInv(w) => WordTellsBinding
  BY DEF IInv, Truthful, WordTellsBinding, Procs
<1> QED
  BY <1>1, IInvAlways, PTL

\* Unloading undoes what loading and the writes have done, but for a handler
\* that a stored 0 has masked (ls_dbg.c:205-232).
THEOREM ExitLeavesNothing ==
    ASSUME NEW w, Writers = {w}
    PROVE  Spec => []ExitUndoesAll
<1>1. IInv(w) => ExitUndoesAll
  BY DEF IInv, Stages, Quiet, Raised, ExitUndoesAll
<1> QED
  BY <1>1, IInvAlways, PTL

----------------------------------------------------------------------------
(* Lifecycle implements IrqLine.                                           *)

\* Every step is one of IrqLine or leaves the line as it is.
LEMMA LineSteps ==
    ASSUME NEW w, Writers = {w}, IInv(w), IInv(w)', [Next]_vars
    PROVE  [Promise!Next]_Line
<1> USE DEF Promise!Next, Promise!Register, Promise!TurnOn, Promise!TurnOff,
        Promise!Unhook, Promise!Trans, Line
<1>0. /\ Procs = {w, Remover} /\ handlers \in Nat /\ handlers' \in Nat
      /\ handlers = 0 => epccr = {}
      /\ handlers' = 0 => epccr' = {}
  BY HandlerAssumption DEF Procs, IInv, TypeOK, Raised
<1>1. CASE UNCHANGED <<handlers, epccr>>
  BY <1>1
<1>2. ASSUME NEW p \in Procs, Request(p) PROVE [Promise!Next]_Line
  BY <1>0, <1>2 DEF Request
<1>3. ASSUME NEW p \in Procs, Arm(p) \/ Disarm(p) PROVE [Promise!Next]_Line
  BY <1>0, <1>3 DEF Arm, Disarm
<1>4. ASSUME NEW p \in Procs, FreeIrq(p) PROVE [Promise!Next]_Line
  <2>1. epccr = {}
    BY <1>0, <1>4 DEF FreeIrq, IInv, Raised
  <2> QED
    BY <1>0, <1>4, <2>1 DEF FreeIrq, Freed
<1> QED
  <2>1. ASSUME NEW p \in Procs, Bind(p) \/ Unbind(p) PROVE [Promise!Next]_Line
    BY <1>1, <1>2, <1>3, <1>4, <2>1
       DEF Bind, Unbind, ClearIsr, Lookup, SyncIrq, ForgetNum
  <2>2. CASE Remove
    BY <1>1, <2>1, <2>2 DEF Remove, RemoveTree, RemoveDevices, RegAccessCleanup, Procs
  <2>3. ASSUME NEW x \in Writers, Call(x) PROVE [Promise!Next]_Line
    BY <1>1, <2>1, <2>3 DEF Call, CtrlStep, Store, Procs
  <2>4. CASE Next /\ ~Remove /\ ~\E x \in Writers : Call(x)
    <3>1. UNCHANGED <<handlers, epccr>>
      BY <2>4 DEF Next, Register, RegisterFails, VcountersInit, Exit, Open, Close, Oops,
         Write, SetCall, WriteRegister, RawWrite, Isr, IsrEnter, IsrReturn, binding
    <3> QED
      BY <1>1, <3>1
  <2>5. CASE UNCHANGED vars
    BY <1>1, <2>5 DEF vars, binding
  <2> QED
    BY <2>2, <2>3, <2>4, <2>5

\* With one writer the EPU is told to raise the interrupt once the handler is
\* registered, and told to stop before it is freed (vir_cntrs.c:495, 527): the
\* binding implements the interrupt line.
THEOREM ImplementsLine ==
    ASSUME NEW w, Writers = {w}
    PROVE  Spec => KeepsOrder
<1>1. Init => Promise!Init
  BY DEF Init, CtrlInit, Promise!Init, Line
<1>2. IInv(w) /\ IInv(w)' /\ [Next]_vars => [Promise!Next]_Line
  BY LineSteps
<1> QED
  BY <1>1, <1>2, IInvAlways, PTL DEF Spec, KeepsOrder, Promise!Spec
============================================================================
