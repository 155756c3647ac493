------------------------- MODULE VirCntrsRefinement -------------------------
(***************************************************************************)
(* With no capture under way the interrupt handler counts every overflow   *)
(* exactly once, and VirCntrs implements OverflowCounter (its safety part: *)
(* the fairness of OverflowCounter is left to TLC).                        *)
(***************************************************************************)
EXTENDS VirCntrsProofs

----------------------------------------------------------------------------
(* CountedOnce is not inductive: the bits the handler has read must still  *)
(* be set when it acknowledges them, and a counter is taken off ctrisr     *)
(* before it is incremented.                                               *)

ReadBitsStaySet ==
    pc[Isr] \in {"lock_isr", "ack"} => todo[Isr] \subseteq epctrisr

TakenOff == pc[Isr] = "store" => cur[Isr] \notin todo[Isr]

ExactInv == CountInv /\ ReadBitsStaySet /\ TakenOff /\ CountedOnce

\* The steps there are when nobody reads or writes a vcntrepecr file.
LEMMA HandlerSteps ==
    ASSUME Users = {}, [Next]_vars
    PROVE  \/ \E c \in Counters : Tick(c)
           \/ IsrRead \/ Acquire(Isr) \/ Release(Isr)
           \/ UpdateAck(Isr) \/ UpdateLoad(Isr) \/ UpdateStore(Isr)
           \/ UpdateTest(Isr) \/ UpdateWrap(Isr) \/ UpdateZero(Isr)
           \/ \E c \in Counters, v \in UserValues : VcntrSet(c, v) \/ VcntrcaptSet(c, v)
           \/ UNCHANGED vars
  BY DEF Next, Update, Procs

\* What Pending is made of when the handler is the only process.
LEMMA HandlerPending ==
    ASSUME Users = {}
    PROVE  \A c : /\ Pending(c) = Bit(c \in epctrisr) + Bit(InFlight(Isr, c))
                  /\ Pending(c)' = Bit(c \in epctrisr') + Bit(InFlight(Isr, c))'
  BY DEF Pending, Bit, Procs

\* Steps that leave the overflows pending, the counters and the ghosts alone
\* preserve CountedOnce.
LEMMA HandlerQuiet ==
    ASSUME Users = {}, CountedOnce, UNCHANGED <<epctrisr, vcntr, due, exact>>,
           \A c \in Counters : InFlight(Isr, c)' <=> InFlight(Isr, c)
    PROVE  CountedOnce'
  BY HandlerPending DEF CountedOnce, Bit

LEMMA ExactInit == ASSUME Users = {} PROVE Init => ExactInv
<1> SUFFICES ASSUME Init PROVE ExactInv
  OBVIOUS
<1>1. CountInv
  BY CountInit
<1>2. pc[Isr] = "idle"
  BY DEF Init, Procs
<1>3. CountedOnce
  <2> SUFFICES ASSUME NEW c \in Counters PROVE vcntr[c] + Pending(c) = due[c]
    BY DEF CountedOnce
  <2>1. vcntr[c] = 0 /\ due[c] = 0 /\ c \notin epctrisr
    BY DEF Init, Zeros
  <2>2. ~InFlight(Isr, c)
    BY <1>2 DEF InFlight
  <2> QED
    BY <2>1, <2>2, HandlerPending DEF Bit
<1> QED
  BY <1>1, <1>2, <1>3 DEF ExactInv, ReadBitsStaySet, TakenOff

LEMMA ExactNext == ASSUME Users = {} PROVE ExactInv /\ [Next]_vars => ExactInv'
<1> SUFFICES ASSUME ExactInv, [Next]_vars PROVE ExactInv'
  OBVIOUS
<1>0. CountInv /\ CountInv' /\ ReadBitsStaySet /\ TakenOff /\ CountedOnce
  BY CountNext DEF ExactInv
<1> DEFINE Goal == ReadBitsStaySet /\ TakenOff /\ CountedOnce
<1> SUFFICES Goal'
  BY <1>0 DEF ExactInv
<1>a. /\ epctrisr \in SUBSET Counters
      /\ vcntr \in [Counters -> 0 .. U64 - 1]
      /\ pc \in [Procs -> Labels]
      /\ ret \in [Procs -> {"idle", "out", "strobe", "compare"}]
      /\ todo \in [Procs -> SUBSET Counters]
      /\ cur \in [Procs -> Counters]
      /\ tmp \in [Procs -> 0 .. U64 - 1]
      /\ due \in [Counters -> Nat] /\ exact \in [Counters -> BOOLEAN]
      /\ U64 \in Nat \ {0} /\ Isr \in Procs
  BY <1>0, Sizes DEF CountInv, ControlInv, TypeOK, Procs
<1>b. \A c \in Counters : exact[c] => vcntr[c] + Pending(c) = due[c]
  BY <1>0 DEF CountedOnce
<1>1. ASSUME NEW c \in Counters, Tick(c) PROVE Goal'
  <2>1. UNCHANGED <<vcntr, pc, todo, cur, tmp, exact>>
    BY <1>1 DEF Tick, locals
  <2>2. epctrisr \subseteq epctrisr'
    BY <1>1 DEF Tick
  <2>3. (ReadBitsStaySet /\ TakenOff)'
    BY <1>0, <2>1, <2>2 DEF ReadBitsStaySet, TakenOff
  <2>4. ASSUME NEW d \in Counters, exact'[d]
        PROVE  vcntr'[d] + Pending(d)' = due'[d]
    <3>1. vcntr[d] + Pending(d) = due[d]
      BY <1>b, <2>1, <2>4
    <3>2. InFlight(Isr, d)' <=> InFlight(Isr, d)
      BY <2>1 DEF InFlight
    <3>3. Pending(d)' - due'[d] = Pending(d) - due[d] /\ due'[d] \in Nat
      BY <1>1, <1>a, <3>2, HandlerPending DEF Tick, Bit
    <3> QED
      BY <1>a, <2>1, <3>1, <3>3, PendingValue
  <2> QED
    BY <2>3, <2>4 DEF CountedOnce
<1>2. CASE IsrRead
  <2>1. (ReadBitsStaySet /\ TakenOff)'
    BY <1>2, <1>a DEF IsrRead, hw, ReadBitsStaySet, TakenOff
  <2>2. \A d \in Counters : InFlight(Isr, d)' <=> InFlight(Isr, d)
    BY <1>2, <1>a DEF IsrRead, InFlight
  <2> QED
    BY <1>2, <1>0, <2>1, <2>2, HandlerQuiet DEF IsrRead, hw, ghosts
<1>3. CASE Acquire(Isr)
  <2>1. (ReadBitsStaySet /\ TakenOff)'
    BY <1>3, <1>0, <1>a DEF Acquire, hw, ReadBitsStaySet, TakenOff
  <2>2. \A d \in Counters : InFlight(Isr, d)' <=> InFlight(Isr, d)
    BY <1>3, <1>a DEF Acquire, InFlight
  <2> QED
    BY <1>3, <1>0, <2>1, <2>2, HandlerQuiet DEF Acquire, hw, ghosts
<1>4. CASE Release(Isr)
  <2>1. (ReadBitsStaySet /\ TakenOff)'
    BY <1>4, <1>a DEF Release, ReadBitsStaySet, TakenOff
  <2>2. \A d \in Counters : InFlight(Isr, d)' <=> InFlight(Isr, d)
    BY <1>4, <1>a DEF Release, InFlight
  <2> QED
    BY <1>4, <1>0, <2>1, <2>2, HandlerQuiet DEF Release, hw, ghosts
<1>5. CASE UpdateAck(Isr)
  <2>1. /\ pc[Isr] = "ack" /\ pc' = [pc EXCEPT ![Isr] = "inc"]
        /\ epctrisr' = epctrisr \ todo[Isr]
        /\ UNCHANGED <<vcntr, todo, cur, due, exact>>
    BY <1>5 DEF UpdateAck, Ack, ghosts
  <2>2. (ReadBitsStaySet /\ TakenOff)'
    BY <1>a, <2>1 DEF ReadBitsStaySet, TakenOff
  <2>3. \A d \in Counters : Pending(d)' = Pending(d)
    <3> SUFFICES ASSUME NEW d \in Counters PROVE Pending(d)' = Pending(d)
      OBVIOUS
    <3>1. d \in todo[Isr] => d \in epctrisr /\ d \notin epctrisr'
      BY <1>0, <2>1 DEF ReadBitsStaySet
    <3>2. ~InFlight(Isr, d) /\ (InFlight(Isr, d)' <=> d \in todo[Isr])
      BY <1>a, <2>1 DEF InFlight
    <3> QED
      BY <2>1, <3>1, <3>2, HandlerPending DEF Bit
  <2> QED
    BY <1>b, <2>1, <2>2, <2>3 DEF CountedOnce
<1>6. CASE UpdateLoad(Isr)
  <2>1. PICK c \in todo[Isr] :
           /\ cur' = [cur EXCEPT ![Isr] = c]
           /\ todo' = [todo EXCEPT ![Isr] = @ \ {c}]
    BY <1>6 DEF UpdateLoad
  <2>2. /\ pc[Isr] = "inc" /\ pc' = [pc EXCEPT ![Isr] = "store"]
        /\ UNCHANGED <<epctrisr, vcntr, due, exact>>
    BY <1>6 DEF UpdateLoad, hw, ghosts
  <2>3. (ReadBitsStaySet /\ TakenOff)'
    BY <1>a, <2>1, <2>2 DEF ReadBitsStaySet, TakenOff
  <2>4. \A d \in Counters : InFlight(Isr, d)' <=> InFlight(Isr, d)
    BY <1>a, <2>1, <2>2 DEF InFlight
  <2> QED
    BY <1>0, <2>2, <2>3, <2>4, HandlerQuiet
<1>7. CASE UpdateStore(Isr)
  <2> DEFINE c == cur[Isr]
             n == (tmp[Isr] + 1) % U64
  <2>1. /\ pc[Isr] = "store" /\ pc' = [pc EXCEPT ![Isr] = "test"]
        /\ vcntr' = [vcntr EXCEPT ![c] = n]
        /\ exact' = [exact EXCEPT ![c] = @ /\ tmp[Isr] + 1 < U64]
        /\ UNCHANGED <<epctrisr, todo, cur, due>>
    BY <1>7 DEF UpdateStore, hw
  <2>2. c \in Counters /\ c \notin todo[Isr]
    BY <1>0, <1>a, <2>1 DEF TakenOff
  <2>3. (ReadBitsStaySet /\ TakenOff)'
    BY <1>a, <2>1 DEF ReadBitsStaySet, TakenOff
  <2>4. ASSUME NEW d \in Counters, exact'[d]
        PROVE  vcntr'[d] + Pending(d)' = due'[d]
    <3>1. exact[d] /\ vcntr[d] + Pending(d) = due[d]
      BY <1>a, <1>b, <2>1, <2>4
    <3>2. CASE d = c
      <4>1. tmp[Isr] = vcntr[c]
        BY <1>0, <1>a, <2>1, <3>1, <3>2 DEF CountInv, Loaded
      <4>2. tmp[Isr] + 1 < U64
        BY <1>a, <2>1, <2>4, <3>2
      <4>3. n = vcntr[c] + 1
        BY <1>a, <4>1, <4>2
      <4>4. vcntr'[d] = vcntr[d] + 1
        BY <1>a, <2>1, <3>2, <4>3
      <4>5. InFlight(Isr, d) /\ ~InFlight(Isr, d)'
        BY <1>a, <2>1, <2>2, <3>2 DEF InFlight
      <4>6. Pending(d)' = Pending(d) - 1
        BY <2>1, <4>5, HandlerPending DEF Bit
      <4> QED
        BY <1>a, <2>1, <3>1, <4>4, <4>6, PendingValue
    <3>3. CASE d # c
      <4>1. InFlight(Isr, d)' <=> InFlight(Isr, d)
        BY <1>a, <2>1, <3>3 DEF InFlight
      <4>2. Pending(d)' = Pending(d)
        BY <2>1, <4>1, HandlerPending DEF Bit
      <4> QED
        BY <1>a, <2>1, <3>1, <3>3, <4>2
    <3> QED
      BY <3>2, <3>3
  <2> QED
    BY <2>3, <2>4 DEF CountedOnce
<1>7a. CASE UpdateTest(Isr)
  <2>1. /\ pc[Isr] = "test" /\ pc'[Isr] \in {"wrap", "zero"}
        /\ UNCHANGED <<epctrisr, vcntr, todo, cur, due, exact>>
    BY <1>7a, <1>a DEF UpdateTest, hw, ghosts
  <2>2. (ReadBitsStaySet /\ TakenOff)'
    BY <2>1 DEF ReadBitsStaySet, TakenOff
  <2>3. \A d \in Counters : InFlight(Isr, d)' <=> InFlight(Isr, d)
    BY <2>1 DEF InFlight
  <2> QED
    BY <1>0, <2>1, <2>2, <2>3, HandlerQuiet
<1>7b. CASE UpdateWrap(Isr)
  <2>1. /\ pc[Isr] = "wrap" /\ pc' = [pc EXCEPT ![Isr] = "zero"]
        /\ vcntr' = [vcntr EXCEPT ![cur[Isr]] = 0]
        /\ exact' = [exact EXCEPT ![cur[Isr]] = FALSE]
        /\ UNCHANGED <<epctrisr, todo, cur, due>>
    BY <1>7b DEF UpdateWrap, hw
  <2>2. (ReadBitsStaySet /\ TakenOff)'
    BY <1>a, <2>1 DEF ReadBitsStaySet, TakenOff
  <2>3. \A d \in Counters : Pending(d)' = Pending(d)
    BY <1>a, <2>1, HandlerPending DEF InFlight, Bit
  <2>4. \A d \in Counters : exact'[d] => exact[d] /\ vcntr'[d] = vcntr[d]
    BY <1>a, <2>1
  <2> QED
    BY <1>b, <2>1, <2>2, <2>3, <2>4 DEF CountedOnce
<1>8. CASE UpdateZero(Isr)
  <2>1. ret[Isr] \in {"out", "strobe", "compare"}
    BY <1>8, <1>0, <1>a DEF UpdateZero, CountInv, ControlInv, ReturnsInside, InUpdate
  <2>2. (ReadBitsStaySet /\ TakenOff)'
    BY <1>8, <1>a, <2>1 DEF UpdateZero, ReadBitsStaySet, TakenOff
  <2>3. \A d \in Counters : InFlight(Isr, d)' <=> InFlight(Isr, d)
    BY <1>8, <1>a, <2>1 DEF UpdateZero, NoBitLeft, InFlight
  <2> QED
    BY <1>8, <1>0, <2>2, <2>3, HandlerQuiet DEF UpdateZero, NoBitLeft, ghosts
<1>9. ASSUME NEW c \in Counters, NEW v \in UserValues, VcntrSet(c, v) PROVE Goal'
  <2>1. /\ vcntr' = [vcntr EXCEPT ![c] = v]
        /\ due' = [due EXCEPT ![c] = v + Pending(c)]
        /\ \A d \in Counters \ {c} : exact'[d] = exact[d]
        /\ UNCHANGED <<epctrisr, pc, todo, cur>>
    BY <1>9, <1>a DEF VcntrSet, hw, locals
  <2>2. (ReadBitsStaySet /\ TakenOff)'
    BY <1>0, <2>1 DEF ReadBitsStaySet, TakenOff
  <2>3. \A d \in Counters : Pending(d)' = Pending(d)
    BY <2>1, HandlerPending DEF InFlight, Bit
  <2>4. CountedOnce'
    BY <1>a, <1>b, <2>1, <2>3, PendingValue DEF CountedOnce
  <2> QED
    BY <2>2, <2>4
<1>10. ASSUME NEW k \in Counters, NEW v \in UserValues, VcntrcaptSet(k, v)
       PROVE Goal'
  <2>1. UNCHANGED <<epctrisr, vcntr, pc, todo, cur, due, exact>>
    BY <1>10 DEF VcntrcaptSet, hw, locals
  <2> QED
    BY <1>0, <2>1, HandlerQuiet DEF ReadBitsStaySet, TakenOff, InFlight
<1>11. CASE UNCHANGED vars
  <2>1. UNCHANGED <<epctrisr, vcntr, pc, todo, cur, due, exact>>
    BY <1>11 DEF vars, hw, locals, ghosts
  <2> QED
    BY <1>0, <2>1, HandlerQuiet DEF ReadBitsStaySet, TakenOff, InFlight
<1> QED
  BY <1>1, <1>2, <1>3, <1>4, <1>5, <1>6, <1>7, <1>7a, <1>7b, <1>8, <1>9, <1>10, <1>11,
     HandlerSteps

\* With no capture beside it, the interrupt handler counts every overflow and
\* counts none twice, whatever is written to the vcntr files meanwhile.
THEOREM CountedExactly == ASSUME Users = {} PROVE Spec => []CountedOnce
  BY ExactInit, ExactNext, PTL DEF Spec, ExactInv

----------------------------------------------------------------------------
(* The refinement: count is vcntr, due and exact are the ghosts.           *)

PromiseSafety == Promise!Init /\ [][Promise!Next]_(Promise!vars)

LEMMA PromiseInit == Init => Promise!Init
  BY DEF Init, Zeros, Promise!Init

\* Every step of VirCntrs is a step or a stutter of OverflowCounter.
LEMMA PromiseNext ==
    ASSUME Users = {}, ExactInv, ExactInv', [Next]_vars
    PROVE  [Promise!Next]_(Promise!vars)
<1> USE DEF Promise!vars
<1>a. /\ vcntr \in [Counters -> 0 .. U64 - 1] /\ vcntr' \in [Counters -> 0 .. U64 - 1]
      /\ cur \in [Procs -> Counters] /\ tmp \in [Procs -> 0 .. U64 - 1]
      /\ due \in [Counters -> Nat] /\ due' \in [Counters -> Nat]
      /\ exact \in [Counters -> BOOLEAN]
      /\ U64 \in Nat \ {0} /\ Isr \in Procs
  BY Sizes DEF ExactInv, CountInv, ControlInv, TypeOK, Procs
<1>1. ASSUME NEW c \in Counters, Tick(c) PROVE [Promise!Next]_(Promise!vars)
  <2>1. CASE epctr[c] = Width - 1 /\ c \notin epctrisr
    <3>1. Promise!Overflow(c)
      BY <1>1, <2>1 DEF Tick, Promise!Overflow
    <3> QED
      BY <3>1 DEF Promise!Next
  <2>2. CASE ~(epctr[c] = Width - 1 /\ c \notin epctrisr)
    BY <1>1, <2>2 DEF Tick
  <2> QED
    BY <2>1, <2>2
<1>2. CASE IsrRead \/ Acquire(Isr) \/ Release(Isr) \/ UpdateAck(Isr)
           \/ UpdateLoad(Isr) \/ UpdateTest(Isr) \/ UpdateZero(Isr)
  BY <1>2 DEF IsrRead, Acquire, Release, UpdateAck, UpdateLoad, UpdateTest, UpdateZero,
              ghosts
<1>3. CASE UpdateStore(Isr)
  <2> DEFINE c == cur[Isr]
             n == (tmp[Isr] + 1) % U64
  <2>1. /\ pc[Isr] = "store" /\ pc' = [pc EXCEPT ![Isr] = "test"]
        /\ vcntr' = [vcntr EXCEPT ![c] = n]
        /\ exact' = [exact EXCEPT ![c] = @ /\ tmp[Isr] + 1 < U64]
        /\ due' = due
    BY <1>3 DEF UpdateStore
  <2>2. c \in Counters
    BY <1>a
  <2>3. CASE exact[c] /\ tmp[Isr] + 1 < U64
    <3>1. tmp[Isr] = vcntr[c]
      BY <2>1, <2>3, <1>a DEF ExactInv, CountInv, Loaded
    <3>3. n = vcntr[c] + 1
      BY <1>a, <2>3, <3>1
    <3>4. vcntr' = [vcntr EXCEPT ![c] = @ + 1]
      <4> HIDE DEF n
      <4> QED
        BY <2>1, <3>3
    <3>5. exact' = exact
      BY <1>a, <2>1, <2>3
    <3>6. vcntr[c] < due[c]
      <4>1. vcntr[c] + Pending(c) = due[c]
        BY <2>2, <2>3 DEF ExactInv, CountedOnce
      <4>2. InFlight(Isr, c)
        BY <2>1 DEF InFlight
      <4>3. Pending(c) >= 1
        BY <4>2, HandlerPending DEF Bit
      <4> QED
        BY <1>a, <2>2, <4>1, <4>3, PendingValue
    <3>7. Promise!Count(c)
      BY <2>1, <2>3, <3>4, <3>5, <3>6 DEF Promise!Count
    <3> QED
      BY <2>2, <3>7 DEF Promise!Next
  <2>4. CASE ~(exact[c] /\ tmp[Isr] + 1 < U64)
    <3>1. exact' = [exact EXCEPT ![c] = FALSE]
      BY <1>a, <2>1, <2>4
    <3>2. vcntr'[c] \in Nat /\ due'[c] \in Nat
      BY <1>a, <2>2
    <3>3. \A d \in Counters \ {c} : due'[d] = due[d] /\ vcntr'[d] = vcntr[d]
      BY <1>a, <2>1
    <3> HIDE DEF c
    <3>4. Promise!Lose(c)
      BY <3>1, <3>2, <3>3 DEF Promise!Lose
    <3> QED
      BY <2>2, <3>4 DEF Promise!Next
  <2> QED
    BY <2>3, <2>4
<1>3a. CASE UpdateWrap(Isr)
  <2> DEFINE c == cur[Isr]
  <2>1. /\ vcntr' = [vcntr EXCEPT ![c] = 0]
        /\ exact' = [exact EXCEPT ![c] = FALSE]
        /\ due' = due
    BY <1>3a DEF UpdateWrap
  <2>2. c \in Counters
    BY <1>a
  <2>3. vcntr'[c] \in Nat /\ due'[c] \in Nat
    BY <1>a, <2>2
  <2>4. \A d \in Counters \ {c} : due'[d] = due[d] /\ vcntr'[d] = vcntr[d]
    BY <1>a, <2>1
  <2> HIDE DEF c
  <2>5. Promise!Lose(c)
    BY <2>1, <2>3, <2>4 DEF Promise!Lose
  <2> QED
    BY <2>2, <2>5 DEF Promise!Next
<1>4. ASSUME NEW c \in Counters, NEW v \in UserValues, VcntrSet(c, v)
      PROVE [Promise!Next]_(Promise!vars)
  <2> DEFINE free == \A p \in Procs : ~Incrementing(p, c)
  <2>1. /\ vcntr' = [vcntr EXCEPT ![c] = v]
        /\ due' = [due EXCEPT ![c] = v + Pending(c)]
        /\ exact' = [exact EXCEPT ![c] = free]
    BY <1>4 DEF VcntrSet
  <2>0. free \in BOOLEAN
    OBVIOUS
  <2> HIDE DEF free
  <2>2. v \in Nat
    BY ValuesAssumption
  <2>3. CASE free
    <3>1. exact' = [exact EXCEPT ![c] = TRUE]
      BY <2>0, <2>1, <2>3
    <3>2. Promise!Write(c)
      BY <1>a, <2>1, <2>2, <3>1, PendingValue DEF Promise!Write
    <3> QED
      BY <3>2 DEF Promise!Next
  <2>4. CASE ~free
    <3>1. exact' = [exact EXCEPT ![c] = FALSE]
      BY <2>0, <2>1, <2>4
    <3>2. vcntr'[c] \in Nat /\ due'[c] \in Nat
      BY <1>a
    <3>3. \A d \in Counters \ {c} : due'[d] = due[d] /\ vcntr'[d] = vcntr[d]
      BY <1>a, <2>1
    <3>4. Promise!Lose(c)
      BY <3>1, <3>2, <3>3 DEF Promise!Lose
    <3> QED
      BY <3>4 DEF Promise!Next
  <2> QED
    BY <2>3, <2>4
<1>5. ASSUME NEW k \in Counters, NEW v \in UserValues, VcntrcaptSet(k, v)
      PROVE [Promise!Next]_(Promise!vars)
  BY <1>5 DEF VcntrcaptSet
<1>6. CASE UNCHANGED vars
  BY <1>6 DEF vars, ghosts
<1> QED
  BY <1>1, <1>2, <1>3, <1>3a, <1>4, <1>5, <1>6, HandlerSteps

\* The interrupt handler implements the counters the driver promises.
THEOREM ImplementsPromise == ASSUME Users = {} PROVE Spec => PromiseSafety
<1>1. ExactInv /\ [Next]_vars => ExactInv'
  BY ExactNext
<1>2. ExactInv /\ ExactInv' /\ [Next]_vars => [Promise!Next]_(Promise!vars)
  BY PromiseNext
<1> QED
  BY <1>1, <1>2, ExactInit, PromiseInit, PTL DEF Spec, PromiseSafety

=============================================================================
