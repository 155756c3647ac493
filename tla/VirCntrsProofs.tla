--------------------------- MODULE VirCntrsProofs ---------------------------
(***************************************************************************)
(* Theorems about VirCntrs, for any number of counters, users and events   *)
(* and any register width.                                                 *)
(***************************************************************************)
EXTENDS VirCntrs, TLAPS

----------------------------------------------------------------------------
(* Arithmetic of registers and 64-bit values.                              *)

\* The sizes are positive, and half of U64 is below U64.
LEMMA Sizes == U64 \in Nat \ {0} /\ Width <= U64 /\ VOvf \in Nat
<1>1. Width \in Nat /\ Width >= 2
  BY WidthAssumption
<1>2. Width * Width \in Nat /\ Width * Width >= Width
  BY <1>1
<1> QED
  BY <1>1, <1>2 DEF U64, VOvf

\* A remainder is below its modulus.
LEMMA ModRange == \A n \in Nat, m \in Nat \ {0} : n % m \in 0 .. m - 1
  OBVIOUS

\* ++ on 64 bits.
LEMMA IncrementFits ==
    /\ \A n \in 0 .. U64 - 1 : (n + 1) % U64 \in 0 .. U64 - 1
    /\ 0 \in 0 .. U64 - 1
<1>1. U64 \in Nat \ {0}
  BY Sizes
<1>2. \A n \in 0 .. U64 - 1 : n + 1 \in Nat
  BY <1>1
<1>3. \A n \in 0 .. U64 - 1 : (n + 1) % U64 \in 0 .. U64 - 1
  BY <1>1, <1>2, ModRange
<1> QED
  BY <1>1, <1>3

\* Two register values side by side fit in 64 bits.
LEMMA Concat ==
    \A hi, lo \in 0 .. Width - 1 : hi * Width + lo \in 0 .. U64 - 1
<1> TAKE hi, lo \in 0 .. Width - 1
<1>1. Width \in Nat /\ Width >= 2 /\ hi \in Nat /\ lo \in Nat
  BY WidthAssumption
<1>2. hi * Width \in Nat /\ hi * Width <= (Width - 1) * Width
  BY <1>1
<1>3. (Width - 1) * Width = Width * Width - Width
  BY <1>1
<1> QED
  BY <1>1, <1>2, <1>3 DEF U64

\* The shift is cut to 64 bits, and leaves the lower half 0.
LEMMA UpperFits ==
    \A n \in 0 .. U64 - 1 : Upper(n) \in 0 .. U64 - 1 /\ Upper(n) \in UpperHalves
<1> TAKE n \in 0 .. U64 - 1
<1>1. Width \in Nat \ {0} /\ n \in Nat
  BY WidthAssumption, Sizes
<1>2. n % Width \in 0 .. Width - 1 /\ 0 \in 0 .. Width - 1
  BY <1>1, ModRange
<1>3. (n % Width) * Width + 0 \in 0 .. U64 - 1
  BY <1>2, Concat
<1> QED
  BY <1>1, <1>2, <1>3 DEF Upper, UpperHalves

\* What |= stores fits in 64 bits.
LEMMA OrFits ==
    \A word \in 0 .. U64 - 1, low \in 0 .. Width - 1 :
        Or(word, low) \subseteq 0 .. U64 - 1
<1> SUFFICES ASSUME NEW word \in 0 .. U64 - 1, NEW low \in 0 .. Width - 1
             PROVE  Or(word, low) \subseteq 0 .. U64 - 1
  OBVIOUS
<1>1. CASE word \in UpperHalves
  <2>1. PICK h \in 0 .. Width - 1 : word = h * Width
    BY <1>1 DEF UpperHalves
  <2>2. word + low \in 0 .. U64 - 1
    BY <2>1, Concat
  <2> QED
    BY <1>1, <2>2 DEF Or
<1>2. CASE word \notin UpperHalves
  BY <1>2, Sizes DEF Or
<1> QED
  BY <1>1, <1>2

\* A register value is a 64-bit value.
LEMMA RegisterFits == 0 .. Width - 1 \subseteq 0 .. U64 - 1
  BY Sizes, WidthAssumption

----------------------------------------------------------------------------
(* Type correctness.                                                       *)

LEMMA TypeInit == Init => TypeOK
<1>1. 0 \in Counters /\ 0 \in 0 .. Width - 1 /\ 0 \in 0 .. U64 - 1
  BY CountersAssumption, WidthAssumption, Sizes DEF Counters
<1>2. (CHOOSE e \in Events : TRUE) \in Events
  BY GroupAssumption
<1> QED
  BY <1>1, <1>2 DEF Init, TypeOK, Zeros, Procs, Labels, Locked

LEMMA TypeNext == TypeOK /\ [Next]_vars => TypeOK'
<1> SUFFICES ASSUME TypeOK, [Next]_vars PROVE TypeOK'
  OBVIOUS
<1> USE DEF TypeOK
<1>1. ASSUME NEW c \in Counters, Tick(c) PROVE TypeOK'
  <2>1. (epctr[c] + 1) % Width \in 0 .. Width - 1
    <3>1. Width \in Nat \ {0} /\ epctr[c] + 1 \in Nat
      BY WidthAssumption
    <3> QED
      BY <3>1, ModRange
  <2> QED
    BY <1>1, <2>1 DEF Tick, locals
<1>2. CASE IsrRead
  BY <1>2 DEF IsrRead, hw, ghosts, Procs, Labels
<1>3. ASSUME NEW p \in Procs, Acquire(p) PROVE TypeOK'
  BY <1>3 DEF Acquire, hw, ghosts, Labels, Locked
<1>4. ASSUME NEW p \in Procs, UpdateAck(p) PROVE TypeOK'
  BY <1>4 DEF UpdateAck, Ack, ghosts, Labels, Locked
<1>5. ASSUME NEW p \in Procs, UpdateLoad(p) PROVE TypeOK'
  BY <1>5 DEF UpdateLoad, hw, ghosts, Labels, Locked
<1>6. ASSUME NEW p \in Procs, UpdateStore(p) PROVE TypeOK'
  <2>1. (tmp[p] + 1) % U64 \in 0 .. U64 - 1 /\ 0 \in 0 .. U64 - 1
    BY IncrementFits
  <2> QED
    BY <1>6, <2>1 DEF UpdateStore, hw, Labels, Locked
<1>6a. ASSUME NEW p \in Procs, UpdateTest(p) PROVE TypeOK'
  BY <1>6a, IncrementFits DEF UpdateTest, hw, ghosts, Labels, Locked
<1>6b. ASSUME NEW p \in Procs, UpdateWrap(p) PROVE TypeOK'
  BY <1>6b, IncrementFits DEF UpdateWrap, hw, Labels, Locked
<1>7. ASSUME NEW p \in Procs, UpdateZero(p) PROVE TypeOK'
  <2>1. 0 \in Counters /\ 0 \in 0 .. Width - 1
    BY CountersAssumption, WidthAssumption DEF Counters
  <2> QED
    BY <1>7, <2>1 DEF UpdateZero, ghosts, Labels, Locked
<1>8. ASSUME NEW p \in Procs, Release(p) PROVE TypeOK'
  BY <1>8 DEF Release, hw, ghosts, Labels
<1>9. ASSUME NEW u \in Users, NEW e \in Events, SetCall(u, e) PROVE TypeOK'
  BY <1>9 DEF SetCall, hw, ghosts, Labels, Procs
<1>10. ASSUME NEW u \in Users, Decode(u) PROVE TypeOK'
  <2>1. CASE GroupReadable(ev[u])
    <3> DEFINE group == Epctrgcr[group_j(ev[u])]
    <3>1. group \in SUBSET Counters
      <4>1. group_j(ev[u]) \in 0 .. 3
        BY <2>1, EpuAssumption, GroupAssumption DEF GroupReadable, group_j
      <4> QED
        BY <4>1, GroupAssumption
    <3>2. /\ left' = [left EXCEPT ![u] = group]
          /\ vcntrcapt' = [k \in Counters |->
                             IF k \in group THEN epcapr[k] ELSE vcntrcapt[k]]
          /\ pc' = [pc EXCEPT ![u] = "sweep"]
      BY <1>10, <2>1 DEF Decode
    <3> HIDE DEF group
    <3>3. vcntrcapt' \in [Counters -> 0 .. U64 - 1]
      BY <3>2, RegisterFits
    <3> QED
      BY <1>10, <3>1, <3>2, <3>3 DEF Decode, hw, ghosts, Labels, Locked, Procs
  <2>2. CASE ~GroupReadable(ev[u])
    BY <1>10, <2>2 DEF Decode, ErrorExit, hw, ghosts, Labels, Locked, Procs
  <2> QED
    BY <2>1, <2>2
<1>11. ASSUME NEW u \in Users, Sweep(u) PROVE TypeOK'
  BY <1>11, GroupAssumption DEF Sweep, Call, hw, ghosts, Labels, Locked, Procs
<1>12. ASSUME NEW u \in Users, Strobe(u) PROVE TypeOK'
  BY <1>12 DEF Strobe, Labels, Locked, Procs
<1>13. ASSUME NEW u \in Users, Late(u) PROVE TypeOK'
  BY <1>13 DEF Late, LateOverflows, Call, hw, ghosts, Labels, Locked, Procs
<1>14. ASSUME NEW u \in Users, Compare(u) PROVE TypeOK'
  BY <1>14 DEF Compare, Wrapped, hw, ghosts, Labels, Locked, Procs
<1>15. ASSUME NEW u \in Users, Bump(u) PROVE TypeOK'
  <2>1. (tmp[u] + 1) % U64 \in 0 .. U64 - 1 /\ 0 \in 0 .. U64 - 1
    BY IncrementFits DEF Procs
  <2> QED
    BY <1>15, <2>1 DEF Bump, hw, Labels, Locked, Procs
<1>16. ASSUME NEW u \in Users, Put(u) PROVE TypeOK'
  <2>1. cur[u] \in Counters
    BY DEF Procs
  <2>2. Upper(vcntr[cur[u]]) \in 0 .. U64 - 1
    BY <2>1, UpperFits
  <2> QED
    BY <1>16, <2>1, <2>2 DEF Put, hw, Labels, Locked, Procs
<1>16a. ASSUME NEW u \in Users, Join(u) PROVE TypeOK'
  BY <1>16a DEF Join, hw, ghosts, Labels, Locked, Procs
<1>16b. ASSUME NEW u \in Users, Merge(u) PROVE TypeOK'
  <2> DEFINE k == cur[u]
  <2>1. k \in Counters /\ 0 \in Counters /\ 0 \in 0 .. U64 - 1
    BY CountersAssumption, IncrementFits DEF Procs, Counters
  <2>2. PICK value \in Or(tmp[u], epcapr[k]) :
           /\ vcntrcapt' = [vcntrcapt EXCEPT ![k] = value]
           /\ lastcap' = [lastcap EXCEPT
                             ![k] = IF tmp[u] = Upper(vcntr[k]) THEN value ELSE 0]
    BY <1>16b DEF Merge
  <2>3. value \in 0 .. U64 - 1
    BY <2>1, <2>2, OrFits DEF Procs
  <2>4. /\ vcntrcapt' \in [Counters -> 0 .. U64 - 1]
        /\ lastcap' \in [Counters -> 0 .. U64 - 1]
    BY <2>1, <2>2, <2>3
  <2> QED
    BY <1>16b, <2>1, <2>4 DEF Merge, hw, Labels, Locked, Procs
<1>17. ASSUME NEW u \in Users, Finish(u) PROVE TypeOK'
  BY <1>17 DEF Finish, hw, ghosts, Labels, Locked, Procs
<1>18. ASSUME NEW u \in Users, GetCall(u) PROVE TypeOK'
  BY <1>18 DEF GetCall, hw, ghosts, Labels, Procs
<1>19. ASSUME NEW u \in Users, Read(u) PROVE TypeOK'
  BY <1>19 DEF Read, ReadExit, hw, ghosts, Labels, Locked, Procs
<1>20. ASSUME NEW c \in Counters, NEW v \in UserValues, VcntrSet(c, v)
       PROVE TypeOK'
  <2>1. Pending(c) \in Nat
    BY DEF Pending, Bit
  <2>2. v \in 0 .. U64 - 1 /\ v + Pending(c) \in Nat /\ 0 \in 0 .. U64 - 1
    BY <2>1, ValuesAssumption, Sizes
  <2>3. (\A p \in Procs : ~Incrementing(p, c)) \in BOOLEAN
    OBVIOUS
  <2> HIDE DEF Pending, Incrementing
  <2> QED
    BY <1>20, <2>2, <2>3 DEF VcntrSet, hw, locals
<1>21. ASSUME NEW c \in Counters, NEW v \in UserValues, VcntrcaptSet(c, v)
       PROVE TypeOK'
  BY <1>21, ValuesAssumption, Sizes DEF VcntrcaptSet, hw, locals
<1>22. CASE UNCHANGED vars
  BY <1>22 DEF vars, hw, locals, ghosts
<1> QED
  BY <1>1, <1>2, <1>3, <1>4, <1>5, <1>6, <1>6a, <1>6b, <1>7, <1>8, <1>9, <1>10, <1>11,
     <1>12, <1>13, <1>14, <1>15, <1>16, <1>16a, <1>16b, <1>17, <1>18, <1>19, <1>20,
     <1>21, <1>22
  DEF Next, Update, Capture

\* Every reachable state is well typed.
THEOREM TypeCorrect == Spec => []TypeOK
  BY TypeInit, TypeNext, PTL DEF Spec

----------------------------------------------------------------------------
(* Control: update_vcounters returns into its caller's critical section,   *)
(* and only the holder of the lock is inside one.                          *)

InUpdate == {"ack", "inc", "store", "test", "wrap", "zero"}

ReturnsInside ==
    \A p \in Procs : /\ pc[p] \in InUpdate => ret[p] \in {"out", "strobe", "compare"}
                     /\ pc[p] = "lock_isr" => ret[p] = "out"

HolderOnly == \A p \in Procs : pc[p] \in Locked => vc_lock = p

HolderInside ==
    EpuSize > 0 => \A p \in Procs : vc_lock = p => pc[p] \in Locked

ControlInv == TypeOK /\ ReturnsInside /\ HolderOnly /\ HolderInside

LEMMA ControlInit == Init => ControlInv
<1> SUFFICES ASSUME Init PROVE ControlInv
  OBVIOUS
<1>1. TypeOK
  BY TypeInit
<1> QED
  BY <1>1, ProcsAssumption
  DEF Init, ControlInv, ReturnsInside, HolderOnly, HolderInside, InUpdate, Locked,
      Procs

LEMMA ControlNext == ControlInv /\ [Next]_vars => ControlInv'
<1> SUFFICES ASSUME ControlInv, [Next]_vars PROVE ControlInv'
  OBVIOUS
<1>0. TypeOK'
  BY TypeNext DEF ControlInv
<1> SUFFICES (ReturnsInside /\ HolderOnly /\ HolderInside)'
  BY <1>0 DEF ControlInv
<1> USE DEF ControlInv, ReturnsInside, HolderOnly, HolderInside, InUpdate, Locked
<1>a. /\ pc \in [Procs -> Labels] /\ vc_lock \in Procs \union {Free}
      /\ ret \in [Procs -> {"idle", "out", "strobe", "compare"}]
      /\ Free \notin Procs /\ Users \subseteq Procs /\ Isr \in Procs
  BY ProcsAssumption DEF TypeOK, Procs
<1>1. ASSUME NEW c \in Counters, Tick(c) PROVE (ReturnsInside /\ HolderOnly /\ HolderInside)'
  BY <1>1 DEF Tick, locals
<1>2. CASE IsrRead
  BY <1>2, <1>a DEF IsrRead
<1>3. ASSUME NEW p \in Procs, Acquire(p) PROVE (ReturnsInside /\ HolderOnly /\ HolderInside)'
  BY <1>3, <1>a DEF Acquire, LockFree
<1>4. ASSUME NEW p \in Procs, Update(p) PROVE (ReturnsInside /\ HolderOnly /\ HolderInside)'
  <2>1. CASE UpdateAck(p)
    BY <2>1, <1>a DEF UpdateAck
  <2>2. CASE UpdateLoad(p)
    BY <2>2, <1>a DEF UpdateLoad
  <2>3. CASE UpdateStore(p)
    BY <2>3, <1>a DEF UpdateStore
  <2>4. CASE UpdateTest(p)
    BY <2>4, <1>a DEF UpdateTest
  <2>5. CASE UpdateWrap(p)
    BY <2>5, <1>a DEF UpdateWrap
  <2>6. CASE UpdateZero(p)
    BY <2>6, <1>a DEF UpdateZero
  <2> QED
    BY <1>4, <2>1, <2>2, <2>3, <2>4, <2>5, <2>6 DEF Update
<1>5. ASSUME NEW p \in Procs, Release(p) PROVE (ReturnsInside /\ HolderOnly /\ HolderInside)'
  BY <1>5, <1>a DEF Release
<1>6. ASSUME NEW u \in Users, NEW e \in Events, SetCall(u, e)
      PROVE (ReturnsInside /\ HolderOnly /\ HolderInside)'
  BY <1>6, <1>a DEF SetCall
<1>7. ASSUME NEW u \in Users, Capture(u) PROVE (ReturnsInside /\ HolderOnly /\ HolderInside)'
  <2>1. CASE Decode(u)
    BY <2>1, <1>a DEF Decode, ErrorExit
  <2>2. CASE Sweep(u)
    BY <2>2, <1>a DEF Sweep, Call
  <2>3. CASE Strobe(u)
    BY <2>3, <1>a DEF Strobe
  <2>4. CASE Late(u)
    BY <2>4, <1>a DEF Late, Call
  <2>5. CASE Compare(u)
    BY <2>5, <1>a DEF Compare
  <2>6. CASE Bump(u)
    BY <2>6, <1>a DEF Bump
  <2>7. CASE Put(u)
    BY <2>7, <1>a DEF Put
  <2>8. CASE Join(u)
    BY <2>8, <1>a DEF Join
  <2>9. CASE Merge(u)
    BY <2>9, <1>a DEF Merge
  <2>10. CASE Finish(u)
    BY <2>10, <1>a DEF Finish
  <2> QED
    BY <1>7, <2>1, <2>2, <2>3, <2>4, <2>5, <2>6, <2>7, <2>8, <2>9, <2>10 DEF Capture
<1>8. ASSUME NEW u \in Users, GetCall(u) \/ Read(u)
      PROVE (ReturnsInside /\ HolderOnly /\ HolderInside)'
  BY <1>8, <1>a DEF GetCall, Read, ReadExit
<1>9. ASSUME NEW c \in Counters, NEW v \in UserValues,
             VcntrSet(c, v) \/ VcntrcaptSet(c, v)
      PROVE (ReturnsInside /\ HolderOnly /\ HolderInside)'
  BY <1>9 DEF VcntrSet, VcntrcaptSet, locals
<1>10. CASE UNCHANGED vars
  BY <1>10 DEF vars, locals
<1> QED
  BY <1>1, <1>2, <1>3, <1>4, <1>5, <1>6, <1>7, <1>8, <1>9, <1>10 DEF Next

\* Nobody is inside a critical section of vc_lock without holding it, so that
\* two processes are never inside at once; with the EPU mapped, the holder is
\* always inside one: no call returns with the lock.
THEOREM LockCorrect == ASSUME EpuSize > 0 PROVE Spec => []LockDiscipline
<1>1. ControlInv => LockDiscipline
  BY DEF ControlInv, HolderOnly, HolderInside, LockDiscipline
<1> QED
  BY <1>1, ControlInit, ControlNext, PTL DEF Spec

----------------------------------------------------------------------------
(* No overflow is lost.  NoLostOverflow is not inductive: the store of     *)
(* ++vcntr must write back one more than what vcntr still holds, and that  *)
(* needs mutual exclusion (ControlInv) and Loaded.                         *)

\* Between the load and the store of ++vcntr the counter has not changed,
\* unless an unlocked write hit it (exact is then FALSE)
Loaded ==
    \A p \in Procs : pc[p] \in {"store", "bump"} /\ exact[cur[p]]
                         => tmp[p] = vcntr[cur[p]]

CountInv == ControlInv /\ Loaded /\ NoLostOverflow

\* At most two overflows of a counter are pending.
LEMMA PendingValue ==
    \A c : Pending(c) \in {0, 1, 2} /\ Pending(c)' \in {0, 1, 2}
  BY DEF Pending, Bit

\* Steps that leave the overflows pending, the counters and the ghosts alone
\* preserve NoLostOverflow.
LEMMA Quiet ==
    ASSUME NoLostOverflow, UNCHANGED <<epctrisr, vcntr, due, exact>>,
           \A p \in Procs, c \in Counters : InFlight(p, c)' <=> InFlight(p, c)
    PROVE  NoLostOverflow'
  BY DEF NoLostOverflow, Pending, Bit

LEMMA CountInit == Init => CountInv
<1> SUFFICES ASSUME Init PROVE CountInv
  OBVIOUS
<1>1. ControlInv
  BY ControlInit
<1>2. Loaded
  BY DEF Init, Loaded
<1>3. NoLostOverflow
  <2> SUFFICES ASSUME NEW c \in Counters PROVE vcntr[c] + Pending(c) >= due[c]
    BY DEF NoLostOverflow
  <2>1. vcntr[c] = 0 /\ due[c] = 0
    BY DEF Init, Zeros
  <2> QED
    BY <2>1, PendingValue
<1> QED
  BY <1>1, <1>2, <1>3 DEF CountInv

LEMMA CountNext == CountInv /\ [Next]_vars => CountInv'
<1> SUFFICES ASSUME CountInv, [Next]_vars PROVE CountInv'
  OBVIOUS
<1>0. ControlInv /\ ControlInv' /\ Loaded /\ NoLostOverflow
  BY ControlNext DEF CountInv
<1> SUFFICES (Loaded /\ NoLostOverflow)'
  BY <1>0 DEF CountInv
<1>a. /\ epctrisr \in SUBSET Counters
      /\ vcntr \in [Counters -> 0 .. U64 - 1]
      /\ pc \in [Procs -> Labels]
      /\ todo \in [Procs -> SUBSET Counters]
      /\ cur \in [Procs -> Counters]
      /\ tmp \in [Procs -> 0 .. U64 - 1]
      /\ due \in [Counters -> Nat] /\ exact \in [Counters -> BOOLEAN]
      /\ U64 \in Nat \ {0} /\ Users \subseteq Procs /\ Isr \in Procs
  BY <1>0, Sizes DEF ControlInv, TypeOK, Procs
<1>b. \A p \in Procs : pc[p] \in Locked => vc_lock = p
  BY <1>0 DEF ControlInv, HolderOnly
<1>1. ASSUME NEW c \in Counters, Tick(c) PROVE (Loaded /\ NoLostOverflow)'
  <2>1. UNCHANGED <<vcntr, pc, todo, cur, tmp, exact>>
    BY <1>1 DEF Tick, locals
  <2>2. Loaded'
    BY <1>0, <2>1 DEF Loaded
  <2>3. \A p \in Procs, d \in Counters : InFlight(p, d)' <=> InFlight(p, d)
    BY <2>1 DEF InFlight
  <2>4. ASSUME NEW d \in Counters, exact'[d]
        PROVE  vcntr'[d] + Pending(d)' >= due'[d]
    <3>1. vcntr[d] + Pending(d) >= due[d]
      BY <1>0, <2>1, <2>4 DEF NoLostOverflow
    <3>2. Pending(d)' - due'[d] = Pending(d) - due[d]
      BY <1>1, <1>a, <2>3 DEF Tick, Pending, Bit
    <3> QED
      <4>1. due'[d] \in Nat /\ due[d] \in Nat /\ vcntr[d] \in Nat
        BY <1>1, <1>a DEF Tick
      <4> QED
        BY <2>1, <3>1, <3>2, <4>1, PendingValue
  <2> QED
    BY <2>2, <2>4 DEF NoLostOverflow
<1>2. CASE IsrRead
  <2>1. Loaded'
    BY <1>2, <1>0, <1>a DEF IsrRead, Loaded, ghosts
  <2>2. \A p \in Procs, d \in Counters : InFlight(p, d)' <=> InFlight(p, d)
    BY <1>2, <1>a DEF IsrRead, InFlight
  <2> QED
    BY <1>2, <1>0, <2>1, <2>2, Quiet DEF IsrRead, hw, ghosts
<1>3. ASSUME NEW p \in Procs, Acquire(p) \/ Release(p)
      PROVE (Loaded /\ NoLostOverflow)'
  <2>1. Loaded'
    BY <1>3, <1>0, <1>a DEF Acquire, Release, Loaded, ghosts
  <2>2. \A q \in Procs, d \in Counters : InFlight(q, d)' <=> InFlight(q, d)
    BY <1>3, <1>a DEF Acquire, Release, InFlight
  <2> QED
    BY <1>3, <1>0, <2>1, <2>2, Quiet DEF Acquire, Release, hw, ghosts
<1>4. ASSUME NEW p \in Procs, UpdateAck(p) PROVE (Loaded /\ NoLostOverflow)'
  <2>1. Loaded'
    BY <1>4, <1>0, <1>a DEF UpdateAck, Loaded, ghosts
  <2>2. ASSUME NEW d \in Counters, exact'[d]
        PROVE  vcntr'[d] + Pending(d)' >= due'[d]
    <3>1. vcntr[d] + Pending(d) >= due[d]
      BY <1>0, <1>4, <2>2 DEF NoLostOverflow, UpdateAck, ghosts
    <3>2. \A q \in Procs : ~InFlight(q, d)
      BY <1>4, <1>a, <1>b DEF UpdateAck, InFlight, Locked
    <3>3. d \in todo[p] => InFlight(p, d)'
      BY <1>4, <1>a DEF UpdateAck, InFlight
    <3>4. d \notin todo[p] => (d \in epctrisr' <=> d \in epctrisr)
      BY <1>4 DEF UpdateAck, Ack
    <3>5. Pending(d)' >= Pending(d)
      BY <3>2, <3>3, <3>4 DEF Pending, Bit
    <3>6. vcntr' = vcntr /\ due' = due
      BY <1>4 DEF UpdateAck, ghosts
    <3> QED
      BY <1>a, <3>1, <3>5, <3>6, PendingValue
  <2> QED
    BY <2>1, <2>2 DEF NoLostOverflow
<1>5. ASSUME NEW p \in Procs, UpdateLoad(p) PROVE (Loaded /\ NoLostOverflow)'
  <2>1. PICK c \in todo[p] :
           /\ cur' = [cur EXCEPT ![p] = c]
           /\ tmp' = [tmp EXCEPT ![p] = vcntr[c]]
           /\ todo' = [todo EXCEPT ![p] = @ \ {c}]
    BY <1>5 DEF UpdateLoad
  <2>2. /\ pc[p] = "inc" /\ pc' = [pc EXCEPT ![p] = "store"]
        /\ UNCHANGED <<epctrisr, vcntr, due, exact>>
    BY <1>5 DEF UpdateLoad, hw, ghosts
  <2>3. Loaded'
    BY <1>0, <1>a, <2>1, <2>2 DEF Loaded
  <2>4. \A q \in Procs, d \in Counters : InFlight(q, d)' <=> InFlight(q, d)
    BY <1>a, <2>1, <2>2 DEF InFlight
  <2> QED
    BY <1>0, <2>2, <2>3, <2>4, Quiet
<1>6. ASSUME NEW p \in Procs, UpdateStore(p) PROVE (Loaded /\ NoLostOverflow)'
  <2> DEFINE c == cur[p]
             n == (tmp[p] + 1) % U64
  <2>1. /\ pc[p] = "store" /\ pc' = [pc EXCEPT ![p] = "test"]
        /\ vcntr' = [vcntr EXCEPT ![c] = n]
        /\ exact' = [exact EXCEPT ![c] = @ /\ tmp[p] + 1 < U64]
        /\ tmp' = [tmp EXCEPT ![p] = n]
        /\ UNCHANGED <<epctrisr, todo, cur, due>>
    BY <1>6 DEF UpdateStore, hw
  <2>2. c \in Counters
    BY <1>a
  <2>3. \A q \in Procs \ {p} : pc[q] \notin Locked
    BY <1>b, <2>1 DEF Locked
  <2>4. Loaded'
    BY <1>a, <2>1, <2>3 DEF Loaded, Locked
  <2>5. ASSUME NEW d \in Counters, exact'[d]
        PROVE  vcntr'[d] + Pending(d)' >= due'[d]
    <3>1. exact[d] /\ vcntr[d] + Pending(d) >= due[d]
      BY <1>0, <1>a, <2>1, <2>5 DEF NoLostOverflow
    <3>2. CASE d = c
      <4>1. tmp[p] = vcntr[c] /\ tmp[p] + 1 < U64
        BY <1>0, <1>a, <2>1, <2>5, <3>1, <3>2 DEF Loaded
      <4>3. n = vcntr[c] + 1
        BY <1>a, <4>1
      <4>4. vcntr'[d] = vcntr[d] + 1
        BY <1>a, <2>1, <3>2, <4>3
      <4>5. Pending(d)' >= Pending(d) - 1
        BY <2>1 DEF Pending, Bit
      <4> QED
        BY <1>a, <2>1, <3>1, <4>4, <4>5, PendingValue
    <3>3. CASE d # c
      <4>1. InFlight(p, d)' <=> InFlight(p, d)
        BY <1>a, <2>1, <3>3 DEF InFlight
      <4>2. \A q \in Procs : InFlight(q, d)' <=> InFlight(q, d)
        BY <1>a, <2>1, <4>1 DEF InFlight
      <4>3. Pending(d)' = Pending(d)
        BY <2>1, <4>2 DEF Pending
      <4> QED
        BY <1>a, <2>1, <3>1, <3>3, <4>3
    <3> QED
      BY <3>2, <3>3
  <2> QED
    BY <2>4, <2>5 DEF NoLostOverflow
<1>6a. ASSUME NEW p \in Procs, UpdateTest(p) PROVE (Loaded /\ NoLostOverflow)'
  <2>1. /\ pc[p] = "test" /\ pc'[p] \in {"wrap", "zero"}
        /\ \A q \in Procs \ {p} : pc'[q] = pc[q] /\ tmp'[q] = tmp[q]
        /\ UNCHANGED <<epctrisr, vcntr, todo, cur, due, exact>>
    BY <1>6a, <1>a DEF UpdateTest, hw, ghosts
  <2>2. Loaded'
    BY <1>0, <2>1 DEF Loaded
  <2>3. \A q \in Procs, d \in Counters : InFlight(q, d)' <=> InFlight(q, d)
    BY <2>1 DEF InFlight
  <2> QED
    BY <1>0, <2>1, <2>2, <2>3, Quiet
<1>6b. ASSUME NEW p \in Procs, UpdateWrap(p) PROVE (Loaded /\ NoLostOverflow)'
  <2> DEFINE c == cur[p]
  <2>1. /\ pc[p] = "wrap" /\ pc' = [pc EXCEPT ![p] = "zero"]
        /\ vcntr' = [vcntr EXCEPT ![c] = 0]
        /\ exact' = [exact EXCEPT ![c] = FALSE]
        /\ UNCHANGED <<epctrisr, todo, cur, tmp, due>>
    BY <1>6b DEF UpdateWrap, hw
  <2>2. c \in Counters
    BY <1>a
  <2>3. Loaded'
    BY <1>0, <1>a, <2>1 DEF Loaded
  <2>4. \A q \in Procs, d \in Counters : InFlight(q, d)' <=> InFlight(q, d)
    BY <1>a, <2>1 DEF InFlight
  <2>5. ASSUME NEW d \in Counters, exact'[d]
        PROVE  vcntr'[d] + Pending(d)' >= due'[d]
    <3>1. d # c /\ exact[d] /\ vcntr'[d] = vcntr[d]
      BY <1>a, <2>1, <2>2, <2>5
    <3>2. Pending(d)' = Pending(d)
      BY <2>1, <2>4 DEF Pending
    <3> QED
      BY <1>0, <2>1, <3>1, <3>2 DEF NoLostOverflow
  <2> QED
    BY <2>3, <2>5 DEF NoLostOverflow
<1>7. ASSUME NEW p \in Procs, UpdateZero(p) PROVE (Loaded /\ NoLostOverflow)'
  <2>1. ret[p] \in {"out", "strobe", "compare"}
    BY <1>7, <1>0 DEF UpdateZero, ControlInv, ReturnsInside, InUpdate
  <2>2. Loaded'
    BY <1>7, <1>0, <1>a, <2>1 DEF UpdateZero, Loaded, ghosts
  <2>3. \A q \in Procs, d \in Counters : InFlight(q, d)' <=> InFlight(q, d)
    BY <1>7, <1>a, <2>1 DEF UpdateZero, NoBitLeft, InFlight
  <2> QED
    BY <1>7, <1>0, <2>2, <2>3, Quiet DEF UpdateZero, NoBitLeft, ghosts
<1>8. ASSUME NEW u \in Users, NEW e \in Events, SetCall(u, e)
      PROVE (Loaded /\ NoLostOverflow)'
  <2>1. Loaded'
    BY <1>8, <1>0, <1>a DEF SetCall, Loaded, ghosts
  <2>2. \A q \in Procs, d \in Counters : InFlight(q, d)' <=> InFlight(q, d)
    BY <1>8, <1>a DEF SetCall, InFlight
  <2> QED
    BY <1>8, <1>0, <2>1, <2>2, Quiet DEF SetCall, hw, ghosts
<1>9. ASSUME NEW u \in Users, Decode(u) PROVE (Loaded /\ NoLostOverflow)'
  <2>1. Loaded'
    BY <1>9, <1>0, <1>a DEF Decode, ErrorExit, Loaded, ghosts
  <2>2. \A q \in Procs, d \in Counters : InFlight(q, d)' <=> InFlight(q, d)
    BY <1>9, <1>a DEF Decode, ErrorExit, InFlight
  <2> QED
    BY <1>9, <1>0, <2>1, <2>2, Quiet DEF Decode, ErrorExit, hw, ghosts
<1>10. ASSUME NEW u \in Users, Sweep(u) \/ Late(u)
       PROVE (Loaded /\ NoLostOverflow)'
  <2>1. /\ pc[u] \in {"sweep", "late"}
        /\ \E w \in SUBSET Counters, l \in {"strobe", "compare"} :
              /\ todo' = [todo EXCEPT ![u] = w]
              /\ pc' = [pc EXCEPT ![u] = IF w = {} THEN l ELSE "ack"]
        /\ UNCHANGED <<epctrisr, vcntr, cur, tmp, due, exact>>
    BY <1>10, <1>a, GroupAssumption DEF Sweep, Late, LateOverflows, Call, hw, ghosts
  <2>2. Loaded'
    BY <1>0, <1>a, <2>1 DEF Loaded
  <2>3. \A q \in Procs, d \in Counters : InFlight(q, d)' <=> InFlight(q, d)
    BY <1>a, <2>1 DEF InFlight
  <2> QED
    BY <1>0, <2>1, <2>2, <2>3, Quiet
<1>11. ASSUME NEW u \in Users, Strobe(u) PROVE (Loaded /\ NoLostOverflow)'
  <2>1. Loaded'
    BY <1>11, <1>0, <1>a DEF Strobe, Loaded
  <2>2. \A q \in Procs, d \in Counters : InFlight(q, d)' <=> InFlight(q, d)
    BY <1>11, <1>a DEF Strobe, InFlight
  <2> QED
    BY <1>11, <1>0, <2>1, <2>2, Quiet DEF Strobe
<1>12. ASSUME NEW u \in Users, Compare(u) PROVE (Loaded /\ NoLostOverflow)'
  <2>1. Loaded'
    BY <1>12, <1>0, <1>a DEF Compare, Loaded, ghosts
  <2>2. \A q \in Procs, d \in Counters : InFlight(q, d)' <=> InFlight(q, d)
    BY <1>12, <1>a DEF Compare, InFlight
  <2> QED
    BY <1>12, <1>0, <2>1, <2>2, Quiet DEF Compare, hw, ghosts
<1>13. ASSUME NEW u \in Users, Bump(u) PROVE (Loaded /\ NoLostOverflow)'
  <2> DEFINE k == cur[u]
  <2>1. /\ pc[u] = "bump" /\ pc' = [pc EXCEPT ![u] = "put"]
        /\ vcntr' = [vcntr EXCEPT ![k] = (tmp[u] + 1) % U64]
        /\ exact' = [exact EXCEPT ![k] = @ /\ tmp[u] + 1 < U64]
        /\ tmp' = [tmp EXCEPT ![u] = 0]
        /\ UNCHANGED <<epctrisr, todo, cur, due>>
    BY <1>13 DEF Bump, hw
  <2>2. k \in Counters
    BY <1>a
  <2>3. \A q \in Procs \ {u} : pc[q] \notin Locked
    BY <1>a, <1>b, <2>1 DEF Locked
  <2>4. Loaded'
    BY <1>a, <2>1, <2>3 DEF Loaded, Locked
  <2>5. \A q \in Procs, d \in Counters : InFlight(q, d)' <=> InFlight(q, d)
    BY <1>a, <2>1 DEF InFlight
  <2>6. ASSUME NEW d \in Counters, exact'[d]
        PROVE  vcntr'[d] + Pending(d)' >= due'[d]
    <3>1. exact[d] /\ vcntr[d] + Pending(d) >= due[d]
      BY <1>0, <1>a, <2>1, <2>6 DEF NoLostOverflow
    <3>2. Pending(d)' = Pending(d)
      BY <2>1, <2>5 DEF Pending
    <3>3. CASE d = k
      <4>1. tmp[u] = vcntr[k] /\ tmp[u] + 1 < U64
        BY <1>0, <1>a, <2>1, <2>6, <3>1, <3>3 DEF Loaded
      <4>2. (tmp[u] + 1) % U64 = vcntr[k] + 1
        BY <1>a, <4>1
      <4> QED
        BY <1>a, <2>1, <3>1, <3>2, <3>3, <4>2, PendingValue
    <3> QED
      BY <1>a, <2>1, <3>1, <3>2, <3>3
  <2> QED
    BY <2>4, <2>6 DEF NoLostOverflow
<1>14. ASSUME NEW u \in Users, Put(u) \/ Join(u) \/ Merge(u)
       PROVE (Loaded /\ NoLostOverflow)'
  <2>1. /\ pc[u] \in {"put", "join", "merge"} /\ pc'[u] \in {"join", "merge", "compare"}
        /\ \A q \in Procs \ {u} : pc'[q] = pc[q] /\ tmp'[q] = tmp[q] /\ cur'[q] = cur[q]
        /\ UNCHANGED <<epctrisr, vcntr, todo, due, exact>>
    BY <1>14, <1>a DEF Put, Join, Merge, hw, ghosts
  <2>2. Loaded'
    BY <1>0, <1>a, <2>1 DEF Loaded
  <2>3. \A q \in Procs, d \in Counters : InFlight(q, d)' <=> InFlight(q, d)
    BY <1>a, <2>1 DEF InFlight
  <2> QED
    BY <1>0, <2>1, <2>2, <2>3, Quiet
<1>15. ASSUME NEW u \in Users, Finish(u) \/ GetCall(u) \/ Read(u)
       PROVE (Loaded /\ NoLostOverflow)'
  <2>1. Loaded'
    BY <1>15, <1>0, <1>a DEF Finish, GetCall, Read, ReadExit, Loaded, ghosts
  <2>2. \A q \in Procs, d \in Counters : InFlight(q, d)' <=> InFlight(q, d)
    BY <1>15, <1>a DEF Finish, GetCall, Read, ReadExit, InFlight
  <2> QED
    BY <1>15, <1>0, <2>1, <2>2, Quiet DEF Finish, GetCall, Read, ReadExit, hw, ghosts
<1>16. ASSUME NEW c \in Counters, NEW v \in UserValues, VcntrSet(c, v)
       PROVE (Loaded /\ NoLostOverflow)'
  <2>1. /\ vcntr' = [vcntr EXCEPT ![c] = v]
        /\ due' = [due EXCEPT ![c] = v + Pending(c)]
        /\ exact' = [exact EXCEPT ![c] = \A p \in Procs : ~Incrementing(p, c)]
        /\ UNCHANGED <<epctrisr, pc, todo, cur, tmp>>
    BY <1>16 DEF VcntrSet, hw, locals
  <2>2. Loaded'
    <3> SUFFICES ASSUME NEW p \in Procs, pc'[p] \in {"store", "bump"}, exact'[cur'[p]]
                 PROVE  tmp'[p] = vcntr'[cur'[p]]
      BY DEF Loaded
    <3>1. Incrementing(p, cur[p])
      BY <2>1 DEF Incrementing
    <3>2. cur[p] # c
      <4>1. SUFFICES ASSUME cur[p] = c PROVE FALSE
        OBVIOUS
      <4>2. exact'[c] = (\A q \in Procs : ~Incrementing(q, c))
        BY <1>a, <2>1
      <4> QED
        BY <2>1, <3>1, <4>1, <4>2
    <3> QED
      BY <1>0, <1>a, <2>1, <3>2 DEF Loaded
  <2>3. \A d \in Counters : Pending(d)' = Pending(d)
    BY <2>1 DEF Pending, InFlight
  <2>4. ASSUME NEW d \in Counters, exact'[d]
        PROVE  vcntr'[d] + Pending(d)' >= due'[d]
    <3>1. CASE d = c
      <4>1. v \in Nat
        BY ValuesAssumption
      <4> QED
        BY <1>a, <2>1, <2>3, <3>1, <4>1, PendingValue
    <3>2. CASE d # c
      BY <1>0, <1>a, <2>1, <2>3, <2>4, <3>2 DEF NoLostOverflow
    <3> QED
      BY <3>1, <3>2
  <2> QED
    BY <2>2, <2>4 DEF NoLostOverflow
<1>17. ASSUME NEW k \in Counters, NEW v \in UserValues, VcntrcaptSet(k, v)
       PROVE (Loaded /\ NoLostOverflow)'
  <2>1. UNCHANGED <<epctrisr, vcntr, pc, todo, cur, tmp, due, exact>>
    BY <1>17 DEF VcntrcaptSet, hw, locals
  <2> QED
    BY <1>0, <2>1, Quiet DEF Loaded, InFlight
<1>18. CASE UNCHANGED vars
  BY <1>18, <1>0, Quiet DEF vars, hw, locals, ghosts, Loaded, InFlight
<1> QED
  BY <1>1, <1>2, <1>3, <1>4, <1>5, <1>6, <1>6a, <1>6b, <1>7, <1>8, <1>9, <1>10, <1>11,
     <1>12, <1>13, <1>14, <1>15, <1>16, <1>17, <1>18
  DEF Next, Update, Capture

\* Whatever the interrupt handler, the captures and the writers of the files
\* do to each other, no overflow is lost.
THEOREM OverflowsKept == Spec => []NoLostOverflow
  BY CountInit, CountNext, PTL DEF Spec, CountInv

----------------------------------------------------------------------------
(* A capture covers the overflows raised before its strobe.  What is owed  *)
(* at the strobe is in vcntr or pending (NoLostOverflow); the late sweep   *)
(* takes what is pending, and counts it before the comparison begins.      *)

\* u has taken an overflow of c and not stored it in vcntr yet
Taken(u, c) == (pc[u] = "ack" /\ c \in todo[u]) \/ InFlight(u, c)

\* Where a capture is once its late sweep is done
AfterLate == {"compare", "bump", "put", "join", "merge"}

OwedBounded == \A c \in Counters : owed[c] <= due[c]

StrobeCovered ==
    \A u \in Users, c \in Counters : exact[c] =>
        /\ pc[u] \in AfterLate => vcntr[c] >= owed[c]
        /\ pc[u] \in InUpdate /\ ret[u] = "compare"
              => vcntr[c] + Bit(Taken(u, c)) >= owed[c]

CoverInv == CountInv /\ OwedBounded /\ StrobeCovered

\* Steps of p that change neither the counters nor the ghosts, and neither the
\* label, the caller nor the bits of a user at one of StrobeCovered's labels.
LEMMA CoverQuiet ==
    ASSUME CoverInv, UNCHANGED <<vcntr, due, exact, owed>>,
           \A u \in Users :
              /\ pc'[u] \in AfterLate => pc[u] \in AfterLate
              /\ pc'[u] \in InUpdate /\ ret'[u] = "compare"
                    => /\ pc[u] \in InUpdate /\ ret[u] = "compare"
                       /\ \A c \in Counters : Taken(u, c)' <=> Taken(u, c)
    PROVE  (OwedBounded /\ StrobeCovered)'
  BY DEF CoverInv, OwedBounded, StrobeCovered, Bit

LEMMA CoverInit == Init => CoverInv
  BY CountInit DEF Init, Zeros, CoverInv, OwedBounded, StrobeCovered, InUpdate, AfterLate,
                      Procs

LEMMA CoverNext == CoverInv /\ [Next]_vars => CoverInv'
<1> SUFFICES ASSUME CoverInv, [Next]_vars PROVE CoverInv'
  OBVIOUS
<1>0. CountInv /\ CountInv' /\ OwedBounded /\ StrobeCovered
  BY CountNext DEF CoverInv
<1> SUFFICES (OwedBounded /\ StrobeCovered)'
  BY <1>0 DEF CoverInv
<1>a. /\ epctrisr \in SUBSET Counters
      /\ vcntr \in [Counters -> 0 .. U64 - 1]
      /\ pc \in [Procs -> Labels]
      /\ ret \in [Procs -> {"idle", "out", "strobe", "compare"}]
      /\ todo \in [Procs -> SUBSET Counters]
      /\ cur \in [Procs -> Counters]
      /\ tmp \in [Procs -> 0 .. U64 - 1]
      /\ due \in [Counters -> Nat] /\ exact \in [Counters -> BOOLEAN]
      /\ owed \in [Counters -> Nat]
      /\ U64 \in Nat \ {0} /\ Users \subseteq Procs /\ Isr \in Procs
      /\ Isr \notin Users
  BY <1>0, Sizes, ProcsAssumption DEF CountInv, ControlInv, TypeOK, Procs
<1>b. \A p \in Procs : pc[p] \in Locked => vc_lock = p
  BY <1>0 DEF CountInv, ControlInv, HolderOnly
<1>c. \A p \in Procs : /\ pc[p] \in InUpdate => ret[p] \in {"out", "strobe", "compare"}
                       /\ pc[p] = "lock_isr" => ret[p] = "out"
  BY <1>0 DEF CountInv, ControlInv, ReturnsInside
<1>d. \A p \in Procs : pc[p] \in {"store", "bump"} /\ exact[cur[p]]
                          => tmp[p] = vcntr[cur[p]]
  BY <1>0 DEF CountInv, Loaded
<1> USE DEF InUpdate, AfterLate, Taken
<1>1. ASSUME NEW c \in Counters, Tick(c) PROVE (OwedBounded /\ StrobeCovered)'
  <2>1. UNCHANGED <<vcntr, exact, owed, pc, ret, todo, cur>>
    BY <1>1 DEF Tick, locals
  <2>2. \A d \in Counters : due'[d] >= due[d]
    BY <1>1, <1>a DEF Tick
  <2>3. due' \in [Counters -> Nat]
    BY <1>1, <1>a DEF Tick
  <2>4. OwedBounded'
    BY <1>0, <1>a, <2>1, <2>2, <2>3 DEF OwedBounded
  <2>5. StrobeCovered'
    BY <1>0, <2>1 DEF StrobeCovered, Bit, InFlight
  <2> QED
    BY <2>4, <2>5
<1>2. CASE IsrRead
  BY <1>2, <1>a, CoverQuiet DEF IsrRead, hw, ghosts, InFlight
<1>3. ASSUME NEW p \in Procs, Acquire(p) \/ Release(p)
      PROVE (OwedBounded /\ StrobeCovered)'
  BY <1>3, <1>a, <1>c, CoverQuiet DEF Acquire, Release, hw, ghosts, InFlight
<1>4. ASSUME NEW p \in Procs, UpdateAck(p) PROVE (OwedBounded /\ StrobeCovered)'
  BY <1>4, <1>a, CoverQuiet DEF UpdateAck, ghosts, InFlight
<1>5. ASSUME NEW p \in Procs, UpdateLoad(p) PROVE (OwedBounded /\ StrobeCovered)'
  BY <1>5, <1>a, CoverQuiet DEF UpdateLoad, hw, ghosts, InFlight
<1>6. ASSUME NEW p \in Procs, UpdateStore(p) PROVE (OwedBounded /\ StrobeCovered)'
  <2> DEFINE c == cur[p]
             n == (tmp[p] + 1) % U64
  <2>1. /\ pc[p] = "store" /\ pc' = [pc EXCEPT ![p] = "test"]
        /\ vcntr' = [vcntr EXCEPT ![c] = n]
        /\ exact' = [exact EXCEPT ![c] = @ /\ tmp[p] + 1 < U64]
        /\ UNCHANGED <<ret, todo, cur, due, owed>>
    BY <1>6 DEF UpdateStore, hw
  <2>2. \A q \in Procs \ {p} : pc[q] \notin Locked
    BY <1>b, <2>1 DEF Locked
  <2>3. c \in Counters
    BY <1>a
  <2>4. ASSUME exact'[c] PROVE exact[c] /\ vcntr'[c] = vcntr[c] + 1
    <3>1. exact[c] /\ tmp[p] = vcntr[c] /\ tmp[p] + 1 < U64
      <4>1. exact[c] /\ tmp[p] + 1 < U64
        BY <1>a, <2>1, <2>3, <2>4
      <4> QED
        BY <1>d, <2>1, <4>1
    <3>2. n = vcntr[c] + 1
      BY <1>a, <3>1
    <3> QED
      BY <1>a, <2>1, <3>1, <3>2
  <2>5. OwedBounded'
    BY <1>0, <2>1 DEF OwedBounded
  <2>6. ASSUME NEW u \in Users, NEW d \in Counters, exact'[d],
               pc'[u] \in InUpdate, ret'[u] = "compare"
        PROVE  vcntr'[d] + Bit(Taken(u, d))' >= owed'[d]
    <3>1. u = p
      BY <1>a, <2>1, <2>2, <2>6 DEF Locked
    <3>2. exact[d] /\ vcntr[d] + Bit(Taken(u, d)) >= owed[d]
      BY <1>0, <1>a, <2>1, <2>6, <3>1 DEF StrobeCovered
    <3>3. CASE d = c
      BY <1>a, <2>1, <2>4, <2>6, <3>2, <3>3 DEF Bit
    <3>4. CASE d # c
      BY <1>a, <2>1, <3>1, <3>2, <3>4 DEF Bit, InFlight
    <3> QED
      BY <3>3, <3>4
  <2>7. \A u \in Users : pc'[u] \notin AfterLate
    BY <1>a, <2>1, <2>2 DEF Locked
  <2> QED
    BY <2>5, <2>6, <2>7 DEF StrobeCovered
<1>6a. ASSUME NEW p \in Procs, UpdateTest(p) PROVE (OwedBounded /\ StrobeCovered)'
  <2>1. /\ pc[p] = "test" /\ pc'[p] \in {"wrap", "zero"}
        /\ \A q \in Procs \ {p} : pc'[q] = pc[q]
        /\ UNCHANGED <<vcntr, ret, todo, cur, due, exact, owed>>
    BY <1>6a, <1>a DEF UpdateTest, ghosts
  <2>2. \A u \in Users, c \in Counters : Taken(u, c)' <=> Taken(u, c)
    BY <1>a, <2>1 DEF InFlight
  <2> HIDE DEF Taken
  <2>3. \A u \in Users :
           /\ pc'[u] \in AfterLate => pc[u] \in AfterLate
           /\ pc'[u] \in InUpdate => pc[u] \in InUpdate
    BY <1>a, <2>1
  <2> QED
    BY <2>1, <2>2, <2>3, CoverQuiet
<1>6b. ASSUME NEW p \in Procs, UpdateWrap(p) PROVE (OwedBounded /\ StrobeCovered)'
  <2> DEFINE k == cur[p]
  <2>1. /\ pc[p] = "wrap" /\ pc' = [pc EXCEPT ![p] = "zero"]
        /\ vcntr' = [vcntr EXCEPT ![k] = 0]
        /\ exact' = [exact EXCEPT ![k] = FALSE]
        /\ UNCHANGED <<ret, todo, cur, due, owed>>
    BY <1>6b DEF UpdateWrap, hw
  <2>2. k \in Counters
    BY <1>a
  <2>3. OwedBounded'
    BY <1>0, <2>1 DEF OwedBounded
  <2>4. \A u \in Users, c \in Counters : Taken(u, c)' <=> Taken(u, c)
    BY <1>a, <2>1 DEF InFlight
  <2>5. \A u \in Users :
           /\ pc'[u] \in AfterLate => pc[u] \in AfterLate
           /\ pc'[u] \in InUpdate => pc[u] \in InUpdate
    BY <1>a, <2>1
  <2>6. \A c \in Counters : exact'[c] => exact[c] /\ vcntr'[c] = vcntr[c]
    BY <1>a, <2>1, <2>2
  <2> HIDE DEF Taken
  <2>7. StrobeCovered'
    BY <1>0, <2>1, <2>4, <2>5, <2>6 DEF StrobeCovered, Bit
  <2> QED
    BY <2>3, <2>7
<1>7. ASSUME NEW p \in Procs, UpdateZero(p) PROVE (OwedBounded /\ StrobeCovered)'
  <2>1. /\ pc[p] = "zero"
        /\ pc' = [pc EXCEPT ![p] = IF todo[p] = {} THEN ret[p] ELSE "inc"]
        /\ ret' = [ret EXCEPT ![p] = IF todo[p] = {} THEN "idle" ELSE @]
        /\ UNCHANGED <<vcntr, due, exact, owed, todo>>
    BY <1>7 DEF UpdateZero, NoBitLeft, ghosts
  <2>2. CASE todo[p] # {}
    <3>1. pc' = [pc EXCEPT ![p] = "inc"] /\ ret' = ret
      BY <1>a, <2>1, <2>2
    <3>2. \A u \in Users, c \in Counters : Taken(u, c)' <=> Taken(u, c)
      BY <1>a, <1>7, <2>1, <3>1 DEF InFlight, UpdateZero
    <3> HIDE DEF Taken
    <3>3. \A u \in Users :
             /\ pc'[u] \in AfterLate => pc[u] \in AfterLate
             /\ pc'[u] \in InUpdate /\ ret'[u] = "compare"
                   => /\ pc[u] \in InUpdate /\ ret[u] = "compare"
                      /\ \A c \in Counters : Taken(u, c)' <=> Taken(u, c)
      BY <1>a, <2>1, <3>1, <3>2
    <3> QED
      BY <2>1, <3>3, CoverQuiet
  <2>3. CASE todo[p] = {}
    <3>1. OwedBounded'
      BY <1>0, <2>1 DEF OwedBounded
    <3>2. ASSUME NEW u \in Users, NEW c \in Counters, exact'[c],
                 pc'[u] \in AfterLate
          PROVE  vcntr'[c] >= owed'[c]
      <4>1. CASE u = p
        <5>1. ret[p] = "compare" /\ ~Taken(p, c)
          BY <1>a, <1>c, <2>1, <2>3, <3>2, <4>1 DEF InFlight
        <5>2. vcntr[c] + Bit(Taken(p, c)) >= owed[c]
          BY <1>0, <2>1, <3>2, <4>1, <5>1 DEF StrobeCovered
        <5> QED
          BY <1>a, <2>1, <5>1, <5>2 DEF Bit
      <4>2. CASE u # p
        BY <1>0, <1>a, <2>1, <3>2, <4>2 DEF StrobeCovered
      <4> QED
        BY <4>1, <4>2
    <3>3. ASSUME NEW u \in Users, NEW c \in Counters, exact'[c],
                 pc'[u] \in InUpdate, ret'[u] = "compare"
          PROVE  vcntr'[c] + Bit(Taken(u, c))' >= owed'[c]
      <4>1. u # p
        BY <1>a, <2>1, <2>3, <3>3
      <4> QED
        BY <1>0, <1>a, <1>7, <2>1, <3>3, <4>1
        DEF StrobeCovered, InFlight, Bit, UpdateZero
    <3> QED
      BY <3>1, <3>2, <3>3 DEF StrobeCovered
  <2> QED
    BY <2>2, <2>3
<1>8. ASSUME NEW u \in Users, NEW e \in Events, SetCall(u, e)
      PROVE (OwedBounded /\ StrobeCovered)'
  BY <1>8, <1>a, CoverQuiet DEF SetCall, ghosts, InFlight
<1>9. ASSUME NEW u \in Users, Decode(u) PROVE (OwedBounded /\ StrobeCovered)'
  BY <1>9, <1>a, CoverQuiet DEF Decode, ErrorExit, ghosts, InFlight
<1>10. ASSUME NEW u \in Users, Sweep(u) PROVE (OwedBounded /\ StrobeCovered)'
  <2>1. /\ pc[u] = "sweep"
        /\ \E w \in SUBSET Counters :
              /\ todo' = [todo EXCEPT ![u] = w]
              /\ pc' = [pc EXCEPT ![u] = IF w = {} THEN "strobe" ELSE "ack"]
              /\ ret' = [ret EXCEPT ![u] = IF w = {} THEN "idle" ELSE "strobe"]
        /\ UNCHANGED <<vcntr, cur, due, exact, owed>>
    BY <1>10, <1>a, GroupAssumption DEF Sweep, Call, ghosts
  <2> QED
    BY <1>a, <2>1, CoverQuiet DEF InFlight
<1>11. ASSUME NEW u \in Users, Strobe(u) PROVE (OwedBounded /\ StrobeCovered)'
  <2>1. /\ pc[u] = "strobe" /\ pc' = [pc EXCEPT ![u] = "late"]
        /\ \A k \in Counters : owed'[k] \in {due[k], 0}
        /\ UNCHANGED <<vcntr, exact, due, ret>>
    BY <1>11 DEF Strobe
  <2>2. OwedBounded'
    BY <1>a, <2>1 DEF OwedBounded
  <2>3. \A q \in Users : pc'[q] \notin InUpdate \union AfterLate
    BY <1>a, <1>b, <2>1 DEF Locked
  <2> QED
    BY <2>2, <2>3 DEF StrobeCovered
<1>12. ASSUME NEW u \in Users, Late(u) PROVE (OwedBounded /\ StrobeCovered)'
  <2>1. /\ pc[u] = "late"
        /\ todo' = [todo EXCEPT ![u] = epctrisr]
        /\ pc' = [pc EXCEPT ![u] = IF epctrisr = {} THEN "compare" ELSE "ack"]
        /\ UNCHANGED <<epctrisr, vcntr, exact, due, owed>>
    BY <1>12 DEF Late, LateOverflows, Call, hw, ghosts
  <2>2. OwedBounded'
    BY <1>0, <2>1 DEF OwedBounded
  <2>3. \A q \in Procs \ {u} : pc[q] \notin Locked
    BY <1>a, <1>b, <2>1 DEF Locked
  <2>4. ASSUME NEW c \in Counters, exact[c]
        PROVE  vcntr[c] + Bit(c \in epctrisr) >= owed[c]
    <3>1. vcntr[c] + Pending(c) >= due[c] /\ owed[c] <= due[c]
      BY <1>0, <2>4 DEF CountInv, NoLostOverflow, OwedBounded
    <3>2. \A q \in Procs : ~InFlight(q, c)
      BY <2>1, <2>3 DEF InFlight, Locked
    <3>3. Pending(c) = Bit(c \in epctrisr)
      BY <3>2 DEF Pending, Bit
    <3> QED
      BY <1>a, <3>1, <3>3 DEF Bit
  <2>5. ASSUME NEW q \in Users, NEW c \in Counters, exact'[c],
               pc'[q] \in AfterLate
        PROVE  vcntr'[c] >= owed'[c]
    <3>1. q = u /\ epctrisr = {}
      BY <1>a, <2>1, <2>3, <2>5 DEF Locked
    <3>2. vcntr[c] + Bit(c \in epctrisr) >= owed[c]
      BY <2>1, <2>4, <2>5
    <3> QED
      BY <1>a, <2>1, <3>1, <3>2 DEF Bit
  <2>6. ASSUME NEW q \in Users, NEW c \in Counters, exact'[c], pc'[q] \in InUpdate
        PROVE  vcntr'[c] + Bit(Taken(q, c))' >= owed'[c]
    <3>1. q = u /\ epctrisr # {}
      BY <1>a, <2>1, <2>3, <2>6 DEF Locked
    <3>2. vcntr[c] + Bit(c \in epctrisr) >= owed[c]
      BY <2>1, <2>4, <2>6
    <3>3. c \in epctrisr => Taken(u, c)'
      BY <1>a, <2>1, <3>1
    <3> QED
      BY <1>a, <2>1, <3>1, <3>2, <3>3 DEF Bit
  <2> QED
    BY <2>2, <2>5, <2>6 DEF StrobeCovered
<1>13. ASSUME NEW u \in Users, Compare(u) PROVE (OwedBounded /\ StrobeCovered)'
  BY <1>13, <1>a, CoverQuiet DEF Compare, ghosts, InFlight
<1>14. ASSUME NEW u \in Users, Bump(u) PROVE (OwedBounded /\ StrobeCovered)'
  <2> DEFINE k == cur[u]
  <2>1. /\ pc[u] = "bump" /\ pc' = [pc EXCEPT ![u] = "put"]
        /\ vcntr' = [vcntr EXCEPT ![k] = (tmp[u] + 1) % U64]
        /\ exact' = [exact EXCEPT ![k] = @ /\ tmp[u] + 1 < U64]
        /\ UNCHANGED <<ret, due, owed>>
    BY <1>14 DEF Bump
  <2>2. \A q \in Procs \ {u} : pc[q] \notin Locked
    BY <1>a, <1>b, <2>1 DEF Locked
  <2>3. k \in Counters
    BY <1>a
  <2>4. ASSUME NEW c \in Counters, exact'[c] PROVE vcntr'[c] >= owed'[c]
    <3>1. exact[c] /\ vcntr[c] >= owed[c]
      BY <1>0, <1>a, <2>1, <2>4 DEF StrobeCovered
    <3>2. CASE c = k
      <4>1. tmp[u] = vcntr[k] /\ tmp[u] + 1 < U64
        BY <1>a, <1>d, <2>1, <2>3, <2>4, <3>1, <3>2
      <4>2. (tmp[u] + 1) % U64 = vcntr[k] + 1
        BY <1>a, <4>1
      <4> QED
        BY <1>a, <2>1, <3>1, <3>2, <4>2
    <3> QED
      BY <1>a, <2>1, <3>1, <3>2
  <2>5. \A q \in Users : pc'[q] \notin InUpdate
    BY <1>a, <2>1, <2>2 DEF Locked
  <2>6. OwedBounded'
    BY <1>0, <2>1 DEF OwedBounded
  <2> QED
    BY <2>4, <2>5, <2>6 DEF StrobeCovered
<1>15. ASSUME NEW u \in Users, Put(u) PROVE (OwedBounded /\ StrobeCovered)'
  <2>1. /\ pc[u] = "put" /\ pc' = [pc EXCEPT ![u] = "join"]
        /\ owed' = [owed EXCEPT ![cur[u]] = 0]
        /\ UNCHANGED <<vcntr, exact, due, ret>>
    BY <1>15 DEF Put
  <2>2. \A q \in Users \ {u} : pc[q] \notin Locked
    BY <1>a, <1>b, <2>1 DEF Locked
  <2>3. OwedBounded'
    BY <1>0, <1>a, <2>1 DEF OwedBounded
  <2>4. StrobeCovered'
    BY <1>0, <1>a, <2>1, <2>2 DEF StrobeCovered, Locked
  <2> QED
    BY <2>3, <2>4
<1>15a. ASSUME NEW u \in Users, Join(u) \/ Merge(u)
        PROVE (OwedBounded /\ StrobeCovered)'
  <2>1. /\ pc[u] \in AfterLate
        /\ \A q \in Procs \ {u} : pc'[q] = pc[q] /\ cur'[q] = cur[q]
        /\ pc'[u] \in {"merge", "compare"} /\ pc[u] \in {"join", "merge"}
        /\ UNCHANGED <<epctrisr, vcntr, due, exact, owed, ret, todo>>
    BY <1>15a, <1>a DEF Join, Merge, ghosts, hw
  <2> QED
    BY <1>a, <2>1, CoverQuiet DEF InFlight
<1>16. ASSUME NEW u \in Users, Finish(u) \/ GetCall(u) \/ Read(u)
       PROVE (OwedBounded /\ StrobeCovered)'
  BY <1>16, <1>a, CoverQuiet DEF Finish, GetCall, Read, ReadExit, ghosts, InFlight
<1>17. ASSUME NEW c \in Counters, NEW v \in UserValues, VcntrSet(c, v)
       PROVE (OwedBounded /\ StrobeCovered)'
  <2>1. /\ vcntr' = [vcntr EXCEPT ![c] = v]
        /\ due' = [due EXCEPT ![c] = v + Pending(c)]
        /\ owed' = [owed EXCEPT ![c] = 0]
        /\ UNCHANGED <<pc, ret, todo, cur>>
        /\ \A d \in Counters \ {c} : exact'[d] = exact[d]
    BY <1>17, <1>a DEF VcntrSet, locals
  <2>2. v \in Nat
    BY ValuesAssumption
  <2>3. OwedBounded'
    BY <1>0, <1>a, <2>1, <2>2, PendingValue DEF OwedBounded
  <2>4. StrobeCovered'
    <3> SUFFICES ASSUME NEW u \in Users, NEW d \in Counters, exact'[d]
                 PROVE  /\ pc'[u] \in AfterLate => vcntr'[d] >= owed'[d]
                        /\ pc'[u] \in InUpdate /\ ret'[u] = "compare"
                              => vcntr'[d] + Bit(Taken(u, d))' >= owed'[d]
      BY DEF StrobeCovered
    <3>1. CASE d = c
      BY <1>a, <2>1, <2>2, <3>1 DEF Bit
    <3>2. CASE d # c
      BY <1>0, <1>a, <2>1, <3>2 DEF StrobeCovered, Bit, InFlight
    <3> QED
      BY <3>1, <3>2
  <2> QED
    BY <2>3, <2>4
<1>18. ASSUME NEW k \in Counters, NEW v \in UserValues, VcntrcaptSet(k, v)
       PROVE (OwedBounded /\ StrobeCovered)'
  BY <1>18, CoverQuiet DEF VcntrcaptSet, locals, InFlight
<1>19. CASE UNCHANGED vars
  BY <1>19, CoverQuiet DEF vars, locals, ghosts, InFlight
<1> QED
  BY <1>1, <1>2, <1>3, <1>4, <1>5, <1>6, <1>6a, <1>6b, <1>7, <1>8, <1>9, <1>10, <1>11,
     <1>12, <1>13, <1>14, <1>15, <1>15a, <1>16, <1>17, <1>18, <1>19
  DEF Next, Update, Capture

\* The value a capture stores is never below what had been counted, in hardware
\* and software together, when the capture was triggered.
THEOREM CapturesCover == Spec => []CaptureCoversStrobe
<1>1. CoverInv => CaptureCoversStrobe
  BY DEF CoverInv, StrobeCovered, AfterLate, CaptureCoversStrobe, CountInv, ControlInv, TypeOK,
         Procs
<1> QED
  BY <1>1, CoverInit, CoverNext, PTL DEF Spec

=============================================================================
