------------------------------ MODULE VirCntrs ------------------------------
(***************************************************************************)
(* The virtual counters of ls-dbg (src/ls-dbg/module/vir_cntrs.c).         *)
(*                                                                         *)
(* Each 32-bit hardware counter epctr of the EPU raises a bit of EPCTRISR  *)
(* when it wraps; the driver counts those overflows in software (vcntr).   *)
(* Three kinds of code run at once:                                        *)
(*                                                                         *)
(*   - the interrupt handler, process Isr, which counts the overflows      *)
(*     EPCTRISR shows;                                                     *)
(*   - processes of Users that write a vcntrepecr file (vcntepecr_set: one *)
(*     coherent capture of a counter group) or read one (vcntepecr_get);   *)
(*   - plain writes of a vcntr or a vcntrcapt file, which take no lock.    *)
(*                                                                         *)
(* The hardware is external: it is modelled from what the driver reads of  *)
(* it and writes to it.  A register access is one step.  So is each load   *)
(* and each store of a vcntr or a vcntrcapt (aligned 64-bit accesses are   *)
(* single-copy atomic on the Cortex-A7 of the LS1021A); ++vcntr, the reset *)
(* that may follow it and the two stores of a captured value are steps of  *)
(* their own, since the files are written without the lock.  Where the     *)
(* source reads again what it has just stored, the compiler may as well    *)
(* have kept it in a register: both are possible here.                     *)
(*                                                                         *)
(* Width stands for 2^32: a register holds 0 .. Width-1, a u64 holds       *)
(* 0 .. Width*Width-1.  The words of EPECR and their mirror vcntrepecr are *)
(* left out: no branch of the driver depends on them.                      *)
(***************************************************************************)
EXTENDS Integers

CONSTANTS
    NumCounters,   \* EPU_V2_NO_OF_COUNTERS
    Events,        \* the indices of the vcntrepecr registers
    Users,         \* processes that write or read vcntrepecr files
    Isr,           \* the process that runs cntr_overflow_interrupt
    Free,          \* the value of vc_lock when nobody holds it
    Width,         \* the number of values of a register
    EpuSize,       \* maps[EPU].size: 4096 once the EPU is probed, else 0
    Ctcc,          \* the CTCC field of EPGACR, for each event
    Epctrgcr,      \* the counters each of the four group registers names
    OtherWords,    \* what the words that follow EPCTRISR may read as
    UserValues,    \* what vcntr and vcntrcapt files are written with
    MaxDue         \* bound: overflows a counter raises beyond this are cut off

Counters == 0 .. NumCounters - 1
Procs    == Users \union {Isr}
U64      == Width * Width
VOvf     == U64 \div 2          \* LS_DBG_V_COUNTER_OVFLOW_VALUE, bit 63

ASSUME CountersAssumption == NumCounters \in Nat \ {0}
ASSUME WidthAssumption    == Width \in Nat \ {0, 1}
ASSUME ProcsAssumption    == Isr \notin Users /\ Free \notin Users \union {Isr}
ASSUME EpuAssumption      == EpuSize \in {0, 4096}
ASSUME GroupAssumption    == /\ Events # {}
                             /\ Ctcc \in [Events -> 0 .. 7]
                             /\ Epctrgcr \in [0 .. 3 -> SUBSET Counters]
                             /\ OtherWords \subseteq SUBSET Counters
ASSUME ValuesAssumption   == UserValues \subseteq 0 .. U64 - 1
ASSUME BoundAssumption    == MaxDue \in Nat

VARIABLES
    epctr,         \* hardware: the counters
    epctrisr,      \* hardware: the counters whose overflow is pending
    epcapr,        \* hardware: the captured counter values
    vc_lock,       \* the spin lock: Free or its holder
    vcntr,         \* the software counters
    vcntrcapt,     \* the result of the last capture of each counter
    pc,            \* where each process is
    ret,           \* where it goes on after update_vcounters
    todo,          \* ctrisr in update_vcounters: the bits still to count
    cur,           \* the counter the process works on
    tmp,           \* the u64 at hand: what ++vcntr has loaded or stored, or
                   \* what |= has loaded of vcntrcapt
    left,          \* epctrgcr in vcntepecr_set: the counters still to compare
    ev,            \* event_i in vcntepecr_set
    seen,          \* epctrisr in vcntepecr_set: its last reading
    due,           \* ghost: what vcntr would be if every overflow were counted
    exact,         \* ghost: due is defined: since the last write of the file,
                   \* vcntr was not reset and no ++ has undone the write
    owed,          \* ghost: due at the strobe of the capture under way
    lastcap        \* ghost: the last capture of the counter that completed

hw     == <<epctr, epctrisr, epcapr>>
locals == <<pc, ret, todo, cur, tmp, left, ev, seen>>
ghosts == <<due, exact, owed, lastcap>>
vars   == <<hw, vc_lock, vcntr, vcntrcapt, locals, ghosts>>

Locked == {"ack", "inc", "store", "test", "wrap", "zero", "decode", "sweep",
           "strobe", "late", "compare", "bump", "put", "join", "merge", "read",
           "out", "fail"}

Zeros == [c \in Counters |-> 0]

Init ==
    /\ epctr = Zeros /\ epctrisr = {} /\ epcapr = Zeros
    /\ vc_lock = Free
    /\ vcntr = Zeros /\ vcntrcapt = Zeros
    /\ pc = [p \in Procs |-> "idle"]
    /\ ret = [p \in Procs |-> "idle"]
    /\ todo = [p \in Procs |-> {}]
    /\ cur = [p \in Procs |-> 0]
    /\ tmp = [p \in Procs |-> 0]
    /\ left = [u \in Users |-> {}]
    /\ ev = [u \in Users |-> CHOOSE e \in Events : TRUE]
    /\ seen = [u \in Users |-> {}]
    /\ due = Zeros /\ exact = [c \in Counters |-> TRUE]
    /\ owed = Zeros /\ lastcap = Zeros

----------------------------------------------------------------------------
(* The ghosts.                                                             *)

Bit(b) == IF b THEN 1 ELSE 0

\* p has acknowledged an overflow of c and not stored it in vcntr yet
InFlight(p, c) ==
    \/ pc[p] \in {"inc", "store", "test", "wrap", "zero"} /\ c \in todo[p]
    \/ pc[p] = "store" /\ c = cur[p]

\* Overflows of c that are raised and not counted yet
Pending(c) == Bit(c \in epctrisr) + Bit(\E p \in Procs : InFlight(p, c))

\* p is between the load and the store of ++vcntr[c]
Incrementing(p, c) == pc[p] \in {"store", "bump"} /\ cur[p] = c

----------------------------------------------------------------------------
(* The hardware.                                                           *)

\* A counter counts; when it wraps it raises its overflow bit.  A wrap while
\* the bit is still set leaves no trace that any driver could count.
Tick(c) ==
    LET wraps  == epctr[c] = Width - 1
        raises == wraps /\ c \notin epctrisr
    IN  /\ raises => due[c] < MaxDue
        /\ epctr' = [epctr EXCEPT ![c] = (@ + 1) % Width]
        /\ epctrisr' = IF wraps THEN epctrisr \union {c} ELSE epctrisr
        /\ due' = IF raises THEN [due EXCEPT ![c] = @ + 1] ELSE due
        /\ UNCHANGED <<epcapr, vc_lock, vcntr, vcntrcapt, locals,
                       exact, owed, lastcap>>

\* The counters that the strobe of event e captures
Captured(e) == IF Ctcc[e] \in DOMAIN Epctrgcr THEN Epctrgcr[Ctcc[e]] ELSE {}

----------------------------------------------------------------------------
(* spin_lock_irqsave and spin_unlock_irqrestore of vc_lock.                *)

\* Mutant: the lock does not exclude
LockIgnored == TRUE

LockFree == vc_lock = Free

Acquire(p) ==
    /\ LockFree
    /\ vc_lock' = p
    /\ \/ pc[p] = "lock_isr" /\ pc' = [pc EXCEPT ![p] = "ack"]
       \/ pc[p] = "lock_set" /\ pc' = [pc EXCEPT ![p] = "decode"]
       \/ pc[p] = "lock_get" /\ pc' = [pc EXCEPT ![p] = "read"]
    /\ UNCHANGED <<hw, vcntr, vcntrcapt, ret, todo, cur, tmp, left, ev, seen,
                   ghosts>>

Release(p) ==
    /\ pc[p] \in {"out", "fail"}
    /\ vc_lock' = Free
    /\ pc' = [pc EXCEPT ![p] = "idle"]
    /\ UNCHANGED <<hw, vcntr, vcntrcapt, ret, todo, cur, tmp, left, ev, seen,
                   ghosts>>

----------------------------------------------------------------------------
(* update_vcounters, called with the lock held and the bits in todo[p];    *)
(* afterwards the caller goes on at ret[p].  The register accesses cannot *)
(* fail here: the caller has just read EPCTRISR through the same map.      *)

\* p calls update_vcounters for the bits in w and goes on at label l
Call(p, w, l) ==
    /\ todo' = [todo EXCEPT ![p] = w]
    /\ pc' = [pc EXCEPT ![p] = IF w = {} THEN l ELSE "ack"]
    /\ ret' = [ret EXCEPT ![p] = IF w = {} THEN "idle" ELSE l]

\* Mutant: every bit of EPCTRISR is cleared, not only those about to be counted
AckAll(w) == {}

\* Mutant: the bits are counted and not cleared
AckNone(w) == epctrisr

\* EPCTRISR is write-1-to-clear
Ack(w) == epctrisr \ w

UpdateAck(p) ==
    /\ pc[p] = "ack"
    /\ epctrisr' = Ack(todo[p])
    /\ pc' = [pc EXCEPT ![p] = "inc"]
    /\ UNCHANGED <<epctr, epcapr, vc_lock, vcntr, vcntrcapt, ret, todo, cur,
                   tmp, left, ev, seen, ghosts>>

\* From the lowest bit up; ++vcntr loads the counter
UpdateLoad(p) ==
    /\ pc[p] = "inc"
    /\ \E c \in todo[p] :
          /\ \A d \in todo[p] : c <= d
          /\ cur' = [cur EXCEPT ![p] = c]
          /\ tmp' = [tmp EXCEPT ![p] = vcntr[c]]
          /\ todo' = [todo EXCEPT ![p] = @ \ {c}]
    /\ pc' = [pc EXCEPT ![p] = "store"]
    /\ UNCHANGED <<hw, vc_lock, vcntr, vcntrcapt, ret, left, ev, seen, ghosts>>

\* v_counter_inc: the sum is stored
UpdateStore(p) ==
    LET c == cur[p]
        n == (tmp[p] + 1) % U64
    IN  /\ pc[p] = "store"
        /\ vcntr' = [vcntr EXCEPT ![c] = n]
        /\ exact' = [exact EXCEPT ![c] = @ /\ tmp[p] + 1 < U64]
        /\ tmp' = [tmp EXCEPT ![p] = n]
        /\ pc' = [pc EXCEPT ![p] = "test"]
        /\ UNCHANGED <<hw, vc_lock, vcntrcapt, ret, todo, cur, left, ev, seen,
                       due, owed, lastcap>>

\* Bit 63 is tested, of the sum or of vcntr as it is by now
UpdateTest(p) ==
    /\ pc[p] = "test"
    /\ \E n \in {tmp[p], vcntr[cur[p]]} :
          pc' = [pc EXCEPT ![p] = IF n >= VOvf THEN "wrap" ELSE "zero"]
    /\ tmp' = [tmp EXCEPT ![p] = 0]
    /\ UNCHANGED <<hw, vc_lock, vcntr, vcntrcapt, ret, todo, cur, left, ev, seen,
                   ghosts>>

\* It was set: the counter restarts from 0, whatever has been written to it
\* since
UpdateWrap(p) ==
    /\ pc[p] = "wrap"
    /\ vcntr' = [vcntr EXCEPT ![cur[p]] = 0]
    /\ exact' = [exact EXCEPT ![cur[p]] = FALSE]
    /\ pc' = [pc EXCEPT ![p] = "zero"]
    /\ UNCHANGED <<hw, vc_lock, vcntrcapt, ret, todo, cur, tmp, left, ev, seen,
                   due, owed, lastcap>>

\* Mutant: the loop ends after the first counter
FirstBitOnly(p) == TRUE

NoBitLeft(p) == todo[p] = {}

\* The hardware counter restarts from 0: what it counted since it wrapped is
\* dropped
UpdateZero(p) ==
    /\ pc[p] = "zero"
    /\ epctr' = [epctr EXCEPT ![cur[p]] = 0]
    /\ cur' = [cur EXCEPT ![p] = 0]
    /\ pc' = [pc EXCEPT ![p] = IF NoBitLeft(p) THEN ret[p] ELSE "inc"]
    /\ ret' = [ret EXCEPT ![p] = IF NoBitLeft(p) THEN "idle" ELSE @]
    /\ UNCHANGED <<epctrisr, epcapr, vc_lock, vcntr, vcntrcapt, todo, tmp,
                   left, ev, seen, ghosts>>

----------------------------------------------------------------------------
(* cntr_overflow_interrupt.                                                *)

\* EPCTRISR is read before the lock is taken.  With nothing pending, or with
\* no EPU mapped, the handler returns at once and changes nothing.
IsrRead ==
    /\ pc[Isr] = "idle"
    /\ EpuSize > 0
    /\ epctrisr # {}
    /\ todo' = [todo EXCEPT ![Isr] = epctrisr]
    /\ pc' = [pc EXCEPT ![Isr] = "lock_isr"]
    /\ ret' = [ret EXCEPT ![Isr] = "out"]
    /\ UNCHANGED <<hw, vc_lock, vcntr, vcntrcapt, cur, tmp, left, ev, seen,
                   ghosts>>

----------------------------------------------------------------------------
(* vcntepecr_set: a write of vcntrepecr[e] captures the group of event e.  *)
(* What is written is ignored, the STS bit included.                       *)

SetCall(u, e) ==
    /\ pc[u] = "idle"
    /\ pc' = [pc EXCEPT ![u] = "lock_set"]
    /\ ev' = [ev EXCEPT ![u] = e]
    /\ UNCHANGED <<hw, vc_lock, vcntr, vcntrcapt, ret, todo, cur, tmp, left,
                   seen, ghosts>>

\* group_j: the CTCC field sits in bits 4-6 of EPGACR and is shifted up by
\* EPGACR_CTCC_SHIFT = 20; it indexes the words from EPCTRGCR = 0x540 on
group_j(e) == Ctcc[e] * 16 * 1048576

\* The word of group e is inside the EPU's map
GroupReadable(e) == 1344 + group_j(e) * 4 < EpuSize

\* Mutant: the error exit does not release the lock
ErrorExitLeaks == "idle"

\* Mutant: a read that fails is tried again, with the lock taken
ErrorExitRetries == "decode"

\* vcntepecr_set_exit
ErrorExit == "fail"

\* The first pass: find the group and leave EPCAPR, as it was before the
\* strobe, in vcntrcapt
Decode(u) ==
    /\ pc[u] = "decode"
    /\ IF GroupReadable(ev[u])
       THEN LET group == Epctrgcr[group_j(ev[u])]
            IN  /\ left' = [left EXCEPT ![u] = group]
                /\ vcntrcapt' = [k \in Counters |->
                                    IF k \in group THEN epcapr[k] ELSE vcntrcapt[k]]
                /\ pc' = [pc EXCEPT ![u] = "sweep"]
       ELSE /\ pc' = [pc EXCEPT ![u] = ErrorExit]
            /\ UNCHANGED <<left, vcntrcapt>>
    /\ UNCHANGED <<hw, vc_lock, vcntr, ret, todo, cur, tmp, ev, seen, ghosts>>

\* "Last cycle" overflows are read at EPCTRISR + i*4, where i is one more
\* than the highest counter of the group: EPCTRISR itself for an empty group
\* only, else one of the words that follow it
Sweep(u) ==
    /\ pc[u] = "sweep"
    /\ \E w \in IF left[u] = {} THEN {epctrisr} ELSE OtherWords :
          Call(u, w, "strobe")
    /\ UNCHANGED <<hw, vc_lock, vcntr, vcntrcapt, cur, tmp, left, ev, seen,
                   ghosts>>

\* EPECR[STS] is written: the hardware latches the group's counters
Strobe(u) ==
    LET group == Captured(ev[u])
    IN  /\ pc[u] = "strobe"
        /\ epcapr' = [k \in Counters |-> IF k \in group THEN epctr[k] ELSE epcapr[k]]
        /\ owed' = [k \in Counters |-> IF k \in group THEN due[k] ELSE 0]
        /\ pc' = [pc EXCEPT ![u] = "late"]
        /\ UNCHANGED <<epctr, epctrisr, vc_lock, vcntr, vcntrcapt, ret, todo,
                       cur, tmp, left, ev, seen, due, exact, lastcap>>

\* Mutant: late overflows are read and not counted
LateUncounted == {}

\* Late overflows, from EPCTRISR itself
LateOverflows == epctrisr

Late(u) ==
    /\ pc[u] = "late"
    /\ seen' = [seen EXCEPT ![u] = epctrisr]
    /\ Call(u, LateOverflows, "compare")
    /\ UNCHANGED <<hw, vc_lock, vcntr, vcntrcapt, cur, tmp, left, ev, ghosts>>

\* Mutant: a captured value below the previous one is let pass
NeverWrapped(k) == FALSE

\* A captured value below the previous one is taken for an overflow
Wrapped(k) == epcapr[k] < vcntrcapt[k]

\* The next counter of the group: if it has wrapped, ++vcntr loads it
Compare(u) ==
    /\ pc[u] = "compare"
    /\ \E k \in left[u] :
          /\ \A d \in left[u] : k <= d
          /\ cur' = [cur EXCEPT ![u] = k]
          /\ left' = [left EXCEPT ![u] = @ \ {k}]
          /\ IF Wrapped(k)
             THEN /\ tmp' = [tmp EXCEPT ![u] = vcntr[k]]
                  /\ pc' = [pc EXCEPT ![u] = "bump"]
             ELSE /\ tmp' = tmp
                  /\ pc' = [pc EXCEPT ![u] = "put"]
    /\ UNCHANGED <<hw, vc_lock, vcntr, vcntrcapt, ret, todo, ev, seen, ghosts>>

\* This ++vcntr does not look at bit 63
Bump(u) ==
    LET k == cur[u]
    IN  /\ pc[u] = "bump"
        /\ vcntr' = [vcntr EXCEPT ![k] = (tmp[u] + 1) % U64]
        /\ exact' = [exact EXCEPT ![k] = @ /\ tmp[u] + 1 < U64]
        /\ tmp' = [tmp EXCEPT ![u] = 0]
        /\ pc' = [pc EXCEPT ![u] = "put"]
        /\ UNCHANGED <<hw, vc_lock, vcntrcapt, ret, todo, cur, left, ev, seen,
                       due, owed, lastcap>>

\* Mutant: the shift is not cut to 64 bits
UpperWide(high) == high * Width

\* high << 32, in 64 bits
Upper(high) == (high % Width) * Width

\* The words whose lower half is 0
UpperHalves == {h * Width : h \in 0 .. Width - 1}

\* word | low: when word has a lower half of its own, any value with the upper
\* half of word that an OR with low can yield
Or(word, low) ==
    IF word \in UpperHalves
    THEN {word + low}
    ELSE {x \in word .. U64 - 1 : x <= word + low /\ x \div Width = word \div Width}

\* vcntr becomes the upper half of vcntrcapt
Put(u) ==
    LET k == cur[u]
    IN  /\ pc[u] = "put"
        /\ vcntrcapt' = [vcntrcapt EXCEPT ![k] = Upper(vcntr[k])]
        /\ tmp' = [tmp EXCEPT ![u] = Upper(vcntr[k])]
        /\ owed' = [owed EXCEPT ![k] = 0]
        /\ pc' = [pc EXCEPT ![u] = "join"]
        /\ UNCHANGED <<hw, vc_lock, vcntr, ret, todo, cur, left, ev, seen, due,
                       exact, lastcap>>

\* vcntrcapt |= regVal, first half: the load
Join(u) ==
    /\ pc[u] = "join"
    /\ \E word \in {tmp[u], vcntrcapt[cur[u]]} : tmp' = [tmp EXCEPT ![u] = word]
    /\ pc' = [pc EXCEPT ![u] = "merge"]
    /\ UNCHANGED <<hw, vc_lock, vcntr, vcntrcapt, ret, todo, cur, left, ev, seen,
                   ghosts>>

\* Second half: the store.  The capture is one to compare later ones with if
\* neither of the counter's files was written since the upper half was stored.
Merge(u) ==
    LET k == cur[u]
    IN  /\ pc[u] = "merge"
        /\ \E value \in Or(tmp[u], epcapr[k]) :
              /\ vcntrcapt' = [vcntrcapt EXCEPT ![k] = value]
              /\ lastcap' = [lastcap EXCEPT
                                ![k] = IF tmp[u] = Upper(vcntr[k]) THEN value ELSE 0]
        /\ cur' = [cur EXCEPT ![u] = 0]
        /\ tmp' = [tmp EXCEPT ![u] = 0]
        /\ pc' = [pc EXCEPT ![u] = "compare"]
        /\ UNCHANGED <<hw, vc_lock, vcntr, ret, todo, left, ev, seen, due, exact,
                       owed>>

\* The group is done
Finish(u) ==
    /\ pc[u] = "compare"
    /\ left[u] = {}
    /\ seen' = [seen EXCEPT ![u] = {}]
    /\ pc' = [pc EXCEPT ![u] = "out"]
    /\ UNCHANGED <<hw, vc_lock, vcntr, vcntrcapt, ret, todo, cur, tmp, left, ev,
                   ghosts>>

----------------------------------------------------------------------------
(* vcntepecr_get: a read of vcntrepecr[e] returns EPECR under the lock.    *)

GetCall(u) ==
    /\ pc[u] = "idle"
    /\ pc' = [pc EXCEPT ![u] = "lock_get"]
    /\ UNCHANGED <<hw, vc_lock, vcntr, vcntrcapt, ret, todo, cur, tmp, left, ev,
                   seen, ghosts>>

\* Mutant: the register is read again and again, with the lock taken
ReadExitRetries == "read"

\* When EPECR cannot be read the call returns and leaves vc_lock taken
ReadExit == IF EpuSize > 0 THEN "out" ELSE "idle"

Read(u) ==
    /\ pc[u] = "read"
    /\ pc' = [pc EXCEPT ![u] = ReadExit]
    /\ UNCHANGED <<hw, vc_lock, vcntr, vcntrcapt, ret, todo, cur, tmp, left, ev,
                   seen, ghosts>>

----------------------------------------------------------------------------
(* Writes of the vcntr and vcntrcapt files: one store, no lock.            *)

VcntrSet(c, v) ==
    /\ vcntr' = [vcntr EXCEPT ![c] = v]
    /\ due' = [due EXCEPT ![c] = v + Pending(c)]
    /\ exact' = [exact EXCEPT ![c] = \A p \in Procs : ~Incrementing(p, c)]
    /\ owed' = [owed EXCEPT ![c] = 0]
    /\ lastcap' = [lastcap EXCEPT ![c] = 0]
    /\ UNCHANGED <<hw, vc_lock, vcntrcapt, locals>>

VcntrcaptSet(k, v) ==
    /\ vcntrcapt' = [vcntrcapt EXCEPT ![k] = v]
    /\ lastcap' = [lastcap EXCEPT ![k] = 0]
    /\ UNCHANGED <<hw, vc_lock, vcntr, locals, due, exact, owed>>

----------------------------------------------------------------------------

Update(p) ==
    \/ UpdateAck(p) \/ UpdateLoad(p) \/ UpdateStore(p)
    \/ UpdateTest(p) \/ UpdateWrap(p) \/ UpdateZero(p)

Capture(u) ==
    \/ Decode(u) \/ Sweep(u) \/ Strobe(u) \/ Late(u)
    \/ Compare(u) \/ Bump(u) \/ Put(u) \/ Join(u) \/ Merge(u) \/ Finish(u)

Next ==
    \/ \E c \in Counters : Tick(c)
    \/ IsrRead
    \/ \E p \in Procs : Acquire(p) \/ Update(p) \/ Release(p)
    \/ \E u \in Users : (\E e \in Events : SetCall(u, e)) \/ Capture(u)
    \/ \E u \in Users : GetCall(u) \/ Read(u)
    \/ \E c \in Counters, v \in UserValues : VcntrSet(c, v) \/ VcntrcaptSet(c, v)

\* A processor runs the code it has entered; a pending overflow interrupts;
\* the ARM spin lock is a ticket lock, so that no waiter is passed over for
\* ever.  Nothing forces a counter to tick or a user to call.
Fairness ==
    /\ WF_vars(IsrRead)
    /\ \A p \in Procs : SF_vars(Acquire(p)) /\ WF_vars(Update(p) \/ Release(p))
    /\ \A u \in Users : WF_vars(Capture(u)) /\ WF_vars(Read(u))

Spec     == Init /\ [][Next]_vars
FairSpec == Spec /\ Fairness

----------------------------------------------------------------------------
(* What the driver promises of the counters, whoever counts them.          *)

Promise == INSTANCE OverflowCounter WITH count <- vcntr

----------------------------------------------------------------------------
(* Properties.                                                             *)

Labels == Locked \union {"idle", "lock_isr", "lock_set", "lock_get"}

\* Every variable stays in its type: the 64-bit values are not overrun by the
\* shift and the additions of a capture, and a process is at a label of its
\* own code.
TypeOK ==
    /\ epctr \in [Counters -> 0 .. Width - 1]
    /\ epctrisr \subseteq Counters
    /\ epcapr \in [Counters -> 0 .. Width - 1]
    /\ vc_lock \in Procs \union {Free}
    /\ vcntr \in [Counters -> 0 .. U64 - 1]
    /\ vcntrcapt \in [Counters -> 0 .. U64 - 1]
    /\ pc \in [Procs -> Labels]
    /\ ret \in [Procs -> {"idle", "out", "strobe", "compare"}]
    /\ todo \in [Procs -> SUBSET Counters]
    /\ cur \in [Procs -> Counters]
    /\ tmp \in [Procs -> 0 .. U64 - 1]
    /\ left \in [Users -> SUBSET Counters]
    /\ ev \in [Users -> Events]
    /\ seen \in [Users -> SUBSET Counters]
    /\ due \in [Counters -> Nat]
    /\ exact \in [Counters -> BOOLEAN]
    /\ owed \in [Counters -> Nat]
    /\ lastcap \in [Counters -> 0 .. U64 - 1]

\* vc_lock is held by the process that is inside one of its critical sections
\* (vir_cntrs.c:127-131, 187-322, 334-351), and by nobody when there is none:
\* a call that returns has released it.
LockDiscipline == \A p \in Procs : vc_lock = p <=> pc[p] \in Locked

\* No overflow is lost: whatever the interleaving of the handler, the sweeps
\* of captures and the writers of vcntr, an overflow the hardware raised is
\* in vcntr, or pending in EPCTRISR, or about to be counted by a process.
NoLostOverflow == \A c \in Counters : exact[c] => vcntr[c] + Pending(c) >= due[c]

\* An overflow is counted once: with no capture running beside it, the
\* interrupt handler neither misses an overflow nor counts one twice.
CountedOnce == \A c \in Counters : exact[c] => vcntr[c] + Pending(c) = due[c]

\* The interrupt handler implements the counters the driver promises: between
\* writes of the files a software counter only ever takes one overflow at a
\* time, never one that did not occur, and falls behind for a while only.
KeepsPromise == Promise!Spec

\* A capture never under-reports: the upper half that vcntepecr_set stores for
\* a counter includes every overflow raised before the strobe (lines 272-309).
CaptureCoversStrobe ==
    \A u \in Users :
        pc[u] = "put" /\ exact[cur[u]] => vcntr[cur[u]] >= owed[cur[u]]

\* Two captures of a counter never run backwards: the 64-bit value a capture
\* stores is at least what the previous capture stored (lines 300-309), until
\* a file is written or the upper half runs over.
CapturesGrow ==
    [][\A u \in Users :
          /\ pc[u] = "merge" /\ pc'[u] = "compare"
          /\ exact[cur[u]] /\ vcntr[cur[u]] < Width
          => vcntrcapt'[cur[u]] >= lastcap[cur[u]]]_vars

\* Every overflow is eventually in vcntr, by the handler or by a capture,
\* unless a write of the file redefines what vcntr stands for.
EventuallyCounted ==
    \A c \in Counters : \A n \in 1 .. MaxDue :
        due[c] >= n ~> vcntr[c] >= n \/ due[c] < n \/ ~exact[c]

\* Every read or write of a vcntrepecr file returns.
CallsReturn == \A u \in Users : pc[u] # "idle" ~> pc[u] = "idle"

----------------------------------------------------------------------------
(* What the comments of vir_cntrs.c say and the code does not do.          *)

\* "Shift through all the pending overflows" (vir_cntrs.c:86): what is about to
\* be acknowledged and counted, by the handler or a capture, is still pending.
OnlyPendingCounted == \A p \in Procs : pc[p] = "ack" => todo[p] \subseteq epctrisr

\* "if captured_val_k < orig_reg_val_k, ASSERT(overflow_status_i == 1)"
\* (vir_cntrs.c:180-183): an increment the comparison causes has an overflow
\* to account for, still pending or in the last reading of EPCTRISR.
OverflowStatusAsserted ==
    \A u \in Users : pc[u] = "bump" => cur[u] \in epctrisr \union seen[u]

\* "callers of v_counter_inc() are responsible for spin_lock" (vir_cntrs.c:58):
\* under the lock nobody else changes the counter that is being incremented, so
\* that what is stored is one more than it was, and what is reset had bit 63 set.
IncrementProtected ==
    \A p \in Procs : /\ pc[p] = "store" => tmp[p] = vcntr[cur[p]]
                     /\ pc[p] = "wrap" => vcntr[cur[p]] >= VOvf

\* "callers responsible for spinlock" (vir_cntrs.c:58, 76): whoever takes vc_lock
\* gives it back, on an error as well; a process outside its call has not got it.
IdleHoldsNoLock == \A u \in Users : pc[u] = "idle" => vc_lock # u

============================================================================
