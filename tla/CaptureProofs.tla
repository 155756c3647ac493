---------------------------- MODULE CaptureProofs ----------------------------
(***************************************************************************)
(* Two captures of a counter never run backwards, for any number of        *)
(* counters, users and events and any register width.                      *)
(***************************************************************************)
EXTENDS VirCntrsProofs

----------------------------------------------------------------------------
(* What a capture will store for a counter is vcntr next to epcapr.  That  *)
(* this pair is never below the last capture is not inductive: between the *)
(* strobe, which overwrites epcapr, and the comparison it may be.  In that *)
(* window the pair to look at is vcntr next to vcntrcapt, where the first  *)
(* pass has saved the old epcapr.                                          *)

BeforeStrobe(u) ==
    pc[u] \in {"sweep", "strobe"} \/ (pc[u] \in InUpdate /\ ret[u] = "strobe")

Strobed(u) ==
    \/ pc[u] \in {"late", "compare", "bump", "put", "join", "merge"}
    \/ pc[u] \in InUpdate /\ ret[u] = "compare"

\* A capture has strobed c and not settled yet whether c has wrapped
Uncompared(c) ==
    \E u \in Users : \/ Strobed(u) /\ c \in left[u]
                     \/ pc[u] = "bump" /\ cur[u] = c

\* high and low side by side, uncut
Pair(high, low) == high * Width + low

Grown ==
    \A c \in Counters : exact[c] /\ lastcap[c] # 0 =>
        IF Uncompared(c)
        THEN vcntrcapt[c] < Width /\ lastcap[c] <= Pair(vcntr[c], vcntrcapt[c])
        ELSE lastcap[c] <= Pair(vcntr[c], epcapr[c])

\* Until the strobe, the first pass has left in vcntrcapt what epcapr holds,
\* unless the file was written since
SavedFirst ==
    \A u \in Users : BeforeStrobe(u) =>
        \A c \in left[u] : lastcap[c] # 0 => vcntrcapt[c] = epcapr[c]

\* The counters that are compared are those that the strobe captures
GroupCaptured == \A u \in Users : BeforeStrobe(u) => left[u] = Captured(ev[u])

\* Where a capture has a counter of its group at hand
AtHand == {"bump", "put", "join", "merge"}

TakenOff == \A u \in Users : pc[u] \in AtHand => cur[u] \notin left[u]

\* While a captured value is put together its upper half is vcntr, unless a
\* file was written since
Halves ==
    \A u \in Users : pc[u] \in {"join", "merge"} /\ lastcap[cur[u]] # 0 =>
        /\ tmp[u] = Upper(vcntr[cur[u]])
        /\ pc[u] = "join" => vcntrcapt[cur[u]] = tmp[u]

GrowParts == Grown /\ SavedFirst /\ GroupCaptured /\ TakenOff /\ Halves

GrowInv == CountInv /\ GrowParts

----------------------------------------------------------------------------
(* Arithmetic of pairs.                                                    *)

\* A pair is a number.
LEMMA PairNat == \A high, low \in Nat : Pair(high, low) \in Nat
<1> TAKE high, low \in Nat
<1>1. high * Width \in Nat
  BY WidthAssumption
<1> QED
  BY <1>1 DEF Pair

\* A pair grows with its upper half.
LEMMA PairGrows ==
    \A a, b, low \in Nat : a <= b => Pair(a, low) <= Pair(b, low)
<1> TAKE a, b, low \in Nat
<1>1. Width \in Nat
  BY WidthAssumption
<1>2. a * Width \in Nat
  BY <1>1
<1>3. a <= b => a * Width <= b * Width
  BY <1>1
<1>4. b * Width \in Nat
  BY <1>1
<1> QED
  BY <1>2, <1>3, <1>4 DEF Pair

\* A pair grows with its lower half.
LEMMA PairGrowsBelow ==
    \A high, a, b \in Nat : a <= b => Pair(high, a) <= Pair(high, b)
<1> TAKE high, a, b \in Nat
<1>1. high * Width \in Nat
  BY WidthAssumption
<1> QED
  BY <1>1 DEF Pair

\* One more in the upper half outweighs any lower half.
LEMMA PairCarries ==
    \A high, a, b \in Nat : a < Width => Pair(high, a) <= Pair(high + 1, b)
<1> TAKE high, a, b \in Nat
<1>1. Width \in Nat /\ high * Width \in Nat
  BY WidthAssumption
<1>2. (high + 1) * Width = high * Width + Width
  BY <1>1
<1> QED
  BY <1>1, <1>2 DEF Pair

\* What a capture stores is the pair, cut to 64 bits.
LEMMA PairCuts ==
    \A high, low \in Nat :
        /\ Upper(high) + low <= Pair(high, low)
        /\ high < Width => Upper(high) + low = Pair(high, low)
<1> TAKE high, low \in Nat
<1>1. Width \in Nat \ {0}
  BY WidthAssumption
<1>2. high % Width \in Nat /\ high % Width <= high
  BY <1>1
<1>3. Upper(high) + low = Pair(high % Width, low)
  BY DEF Upper, Pair
<1>4. high < Width => high % Width = high
  BY <1>1
<1> QED
  BY <1>2, <1>3, <1>4, PairGrows

\* The lower half of an upper half is free: |= adds.
LEMMA OrJoins ==
    \A high \in 0 .. U64 - 1 : \A low : Or(Upper(high), low) = {Upper(high) + low}
  BY UpperFits DEF Or

----------------------------------------------------------------------------

\* A group that can be read is group 0, and the strobe captures that group.
LEMMA ReadableGroup ==
    ASSUME NEW e \in Events, GroupReadable(e)
    PROVE  Captured(e) = Epctrgcr[group_j(e)]
<1>1. Ctcc[e] \in 0 .. 7
  BY GroupAssumption
<1>2. Ctcc[e] = 0
  BY <1>1, EpuAssumption DEF GroupReadable, group_j
<1>3. group_j(e) = 0 /\ DOMAIN Epctrgcr = 0 .. 3
  BY <1>2, GroupAssumption DEF group_j
<1> QED
  BY <1>2, <1>3 DEF Captured

\* Steps that leave the counters and the captures alone, and every capture in
\* its part of vcntepecr_set.
LEMMA GrowQuiet ==
    ASSUME GrowParts,
           UNCHANGED <<epcapr, vcntr, vcntrcapt, lastcap, left, ev>>,
           \A c \in Counters : exact'[c] => exact[c],
           \A u \in Users :
              /\ Strobed(u)' <=> Strobed(u)
              /\ BeforeStrobe(u)' => BeforeStrobe(u)
              /\ pc'[u] = "bump" <=> pc[u] = "bump"
              /\ pc'[u] \in AtHand => pc'[u] = pc[u] /\ cur'[u] = cur[u]
              /\ pc'[u] \in {"join", "merge"} => tmp'[u] = tmp[u]
    PROVE  GrowParts'
<1> USE DEF GrowParts
<1>1. \A c \in Counters : Uncompared(c)' <=> Uncompared(c)
  BY DEF Uncompared, AtHand
<1>2. Grown'
  BY <1>1 DEF Grown, Pair
<1>3. SavedFirst'
  BY DEF SavedFirst
<1>4. GroupCaptured'
  BY DEF GroupCaptured, Captured
<1>5. TakenOff'
  BY DEF TakenOff
<1>6. Halves'
  BY DEF Halves, AtHand, Upper
<1> QED
  BY <1>2, <1>3, <1>4, <1>5, <1>6

LEMMA GrowInit == Init => GrowInv
<1> SUFFICES ASSUME Init PROVE GrowInv
  OBVIOUS
<1>1. CountInv
  BY CountInit
<1>2. \A u \in Users : pc[u] = "idle"
  BY DEF Init, Procs
<1>3. \A c \in Counters : lastcap[c] = 0
  BY DEF Init, Zeros
<1> QED
  BY <1>1, <1>2, <1>3
  DEF GrowInv, GrowParts, Grown, SavedFirst, GroupCaptured, TakenOff, AtHand, Halves,
      BeforeStrobe, InUpdate

LEMMA GrowNext == GrowInv /\ [Next]_vars => GrowInv'
<1> SUFFICES ASSUME GrowInv, [Next]_vars PROVE GrowInv'
  OBVIOUS
<1>0. CountInv /\ CountInv' /\ GrowParts
  BY CountNext DEF GrowInv
<1> SUFFICES GrowParts'
  BY <1>0 DEF GrowInv
<1>a. /\ epcapr \in [Counters -> 0 .. Width - 1]
      /\ vcntr \in [Counters -> 0 .. U64 - 1]
      /\ vcntrcapt \in [Counters -> 0 .. U64 - 1]
      /\ lastcap \in [Counters -> 0 .. U64 - 1]
      /\ exact \in [Counters -> BOOLEAN]
      /\ pc \in [Procs -> Labels]
      /\ ret \in [Procs -> {"idle", "out", "strobe", "compare"}]
      /\ cur \in [Procs -> Counters]
      /\ left \in [Users -> SUBSET Counters]
      /\ ev \in [Users -> Events]
      /\ Users \subseteq Procs /\ Isr \in Procs /\ Isr \notin Users
  BY <1>0, ProcsAssumption DEF CountInv, ControlInv, TypeOK, Procs
<1>b. \A p \in Procs : pc[p] \in Locked => \A q \in Procs \ {p} : pc[q] \notin Locked
  BY <1>0 DEF CountInv, ControlInv, HolderOnly
<1>c. \A p \in Procs : pc[p] \in InUpdate => ret[p] \in {"out", "strobe", "compare"}
  BY <1>0 DEF CountInv, ControlInv, ReturnsInside
<1>d. \A p \in Procs : pc[p] \in {"store", "bump"} /\ exact[cur[p]]
                          => tmp[p] = vcntr[cur[p]]
  BY <1>0 DEF CountInv, Loaded
<1>e. Grown /\ SavedFirst /\ GroupCaptured /\ TakenOff /\ Halves
  BY <1>0 DEF GrowParts
<1>f. U64 \in Nat \ {0} /\ VOvf \in Nat /\ VOvf <= U64 /\ Width \in Nat \ {0}
  BY Sizes, WidthAssumption DEF VOvf
<1>g. ASSUME NEW p \in Procs, pc[p] \in Locked,
             \A q \in Users \ {p} : pc'[q] = pc[q],
             p \in Users => pc'[p] \notin {"join", "merge"}
      PROVE  Halves'
  BY <1>a, <1>b, <1>g DEF Halves, Locked
<1> USE DEF InUpdate, Strobed, BeforeStrobe, AtHand
<1>1. ASSUME NEW c \in Counters, Tick(c) PROVE GrowParts'
  BY <1>0, <1>1, GrowQuiet DEF Tick, locals
<1>2. CASE IsrRead
  BY <1>0, <1>2, <1>a, GrowQuiet DEF IsrRead, hw, ghosts
<1>3. ASSUME NEW p \in Procs, Acquire(p) \/ Release(p) PROVE GrowParts'
  <2>1. CASE Acquire(p)
    <3>1. UNCHANGED <<epcapr, vcntr, vcntrcapt, lastcap, left, ev, exact, ret, cur, tmp>>
      BY <2>1 DEF Acquire, hw, ghosts
    <3>2. \/ pc[p] = "lock_isr" /\ pc' = [pc EXCEPT ![p] = "ack"] /\ ret[p] = "out"
          \/ pc[p] = "lock_set" /\ pc' = [pc EXCEPT ![p] = "decode"]
          \/ pc[p] = "lock_get" /\ pc' = [pc EXCEPT ![p] = "read"]
      BY <1>0, <2>1 DEF Acquire, CountInv, ControlInv, ReturnsInside
    <3> QED
      BY <1>0, <1>a, <3>1, <3>2, GrowQuiet
  <2>2. CASE Release(p)
    BY <1>0, <2>2, <1>a, GrowQuiet DEF Release, hw, ghosts
  <2> QED
    BY <1>3, <2>1, <2>2
<1>4. ASSUME NEW p \in Procs, UpdateAck(p) PROVE GrowParts'
  BY <1>0, <1>4, <1>a, GrowQuiet DEF UpdateAck, ghosts
<1>5. ASSUME NEW p \in Procs, UpdateLoad(p) PROVE GrowParts'
  BY <1>0, <1>5, <1>a, GrowQuiet DEF UpdateLoad, hw, ghosts
<1>6. ASSUME NEW p \in Procs, UpdateStore(p) PROVE GrowParts'
  <2> DEFINE k == cur[p]
             n == (tmp[p] + 1) % U64
  <2>1. /\ pc[p] = "store" /\ pc' = [pc EXCEPT ![p] = "test"]
        /\ vcntr' = [vcntr EXCEPT ![k] = n]
        /\ exact' = [exact EXCEPT ![k] = @ /\ tmp[p] + 1 < U64]
        /\ UNCHANGED <<epcapr, vcntrcapt, ret, cur, left, ev, lastcap>>
    BY <1>6 DEF UpdateStore, hw
  <2>2. \A u \in Users : /\ Strobed(u)' <=> Strobed(u)
                         /\ BeforeStrobe(u)' <=> BeforeStrobe(u)
                         /\ pc'[u] = "bump" <=> pc[u] = "bump"
                         /\ pc'[u] \in AtHand <=> pc[u] \in AtHand
    BY <1>a, <2>1
  <2>3. k \in Counters /\ tmp[p] \in 0 .. U64 - 1
    BY <1>0, <1>a DEF CountInv, ControlInv, TypeOK
  <2>4. ASSUME NEW c \in Counters, exact'[c]
        PROVE  exact[c] /\ vcntr[c] <= vcntr'[c]
    <3>1. CASE c # k
      BY <1>a, <2>1, <2>4, <3>1
    <3>2. CASE c = k
      <4>1. exact[k] /\ tmp[p] + 1 < U64
        BY <1>a, <2>1, <2>3, <2>4, <3>2
      <4>2. tmp[p] = vcntr[k]
        BY <1>d, <2>1, <4>1
      <4>3. n = tmp[p] + 1
        BY <1>f, <2>3, <4>1
      <4>4. vcntr'[k] = vcntr[k] + 1
        BY <1>a, <1>f, <2>1, <2>3, <4>1, <4>2, <4>3
      <4> QED
        BY <1>a, <2>3, <3>2, <4>1, <4>4
    <3> QED
      BY <3>1, <3>2
  <2> HIDE DEF Strobed, BeforeStrobe
  <2>5. \A c \in Counters : Uncompared(c)' <=> Uncompared(c)
    BY <2>1, <2>2 DEF Uncompared
  <2>6. Grown'
    <3> SUFFICES ASSUME NEW c \in Counters, exact'[c], lastcap'[c] # 0
                 PROVE  IF Uncompared(c)'
                        THEN /\ vcntrcapt'[c] < Width
                             /\ lastcap'[c] <= Pair(vcntr'[c], vcntrcapt'[c])
                        ELSE lastcap'[c] <= Pair(vcntr'[c], epcapr'[c])
      BY DEF Grown, Pair
    <3>1. exact[c] /\ vcntr[c] <= vcntr'[c] /\ lastcap[c] # 0
      BY <2>1, <2>4
    <3>2. vcntr[c] \in Nat /\ vcntr'[c] \in Nat /\ vcntrcapt[c] \in Nat
          /\ epcapr[c] \in Nat /\ lastcap[c] \in Nat
      BY <1>0, <1>a DEF CountInv, ControlInv, TypeOK
    <3>3. /\ Pair(vcntr[c], vcntrcapt[c]) <= Pair(vcntr'[c], vcntrcapt[c])
          /\ Pair(vcntr[c], epcapr[c]) <= Pair(vcntr'[c], epcapr[c])
          /\ Pair(vcntr[c], vcntrcapt[c]) \in Nat /\ Pair(vcntr[c], epcapr[c]) \in Nat
          /\ Pair(vcntr'[c], vcntrcapt[c]) \in Nat /\ Pair(vcntr'[c], epcapr[c]) \in Nat
      BY <3>1, <3>2, PairGrows, PairNat
    <3>4. IF Uncompared(c)
          THEN vcntrcapt[c] < Width /\ lastcap[c] <= Pair(vcntr[c], vcntrcapt[c])
          ELSE lastcap[c] <= Pair(vcntr[c], epcapr[c])
      BY <1>e, <3>1 DEF Grown
    <3> QED
      BY <2>1, <2>5, <3>2, <3>3, <3>4
  <2>7. SavedFirst' /\ GroupCaptured' /\ TakenOff'
    BY <1>e, <2>1, <2>2 DEF SavedFirst, GroupCaptured, TakenOff, Captured
  <2>8. Halves'
    BY <1>a, <1>g, <2>1 DEF Locked
  <2> QED
    BY <2>6, <2>7, <2>8 DEF GrowParts
<1>6a. ASSUME NEW p \in Procs, UpdateTest(p) PROVE GrowParts'
  <2>1. /\ pc[p] = "test" /\ pc'[p] \in {"wrap", "zero"}
        /\ \A q \in Procs \ {p} : pc'[q] = pc[q] /\ tmp'[q] = tmp[q]
        /\ UNCHANGED <<epcapr, vcntr, vcntrcapt, exact, ret, cur, left, ev, lastcap>>
    BY <1>6a, <1>a DEF UpdateTest, hw, ghosts
  <2> QED
    BY <1>0, <1>a, <2>1, GrowQuiet
<1>6b. ASSUME NEW p \in Procs, UpdateWrap(p) PROVE GrowParts'
  <2> DEFINE k == cur[p]
  <2>1. /\ pc[p] = "wrap" /\ pc' = [pc EXCEPT ![p] = "zero"]
        /\ vcntr' = [vcntr EXCEPT ![k] = 0]
        /\ exact' = [exact EXCEPT ![k] = FALSE]
        /\ UNCHANGED <<epcapr, vcntrcapt, ret, cur, left, ev, lastcap>>
    BY <1>6b DEF UpdateWrap, hw
  <2>2. \A u \in Users : /\ Strobed(u)' <=> Strobed(u)
                         /\ BeforeStrobe(u)' <=> BeforeStrobe(u)
                         /\ pc'[u] = "bump" <=> pc[u] = "bump"
                         /\ pc'[u] \in AtHand <=> pc[u] \in AtHand
    BY <1>a, <2>1
  <2>3. \A c \in Counters : exact'[c] => exact[c] /\ vcntr'[c] = vcntr[c]
    BY <1>a, <2>1
  <2>4. Halves'
    BY <1>a, <1>g, <2>1 DEF Locked
  <2> HIDE DEF Strobed, BeforeStrobe
  <2>5. \A c \in Counters : Uncompared(c)' <=> Uncompared(c)
    BY <2>1, <2>2 DEF Uncompared
  <2>6. Grown'
    BY <1>e, <2>1, <2>3, <2>5 DEF Grown, Pair
  <2>7. SavedFirst' /\ GroupCaptured' /\ TakenOff'
    BY <1>e, <2>1, <2>2 DEF SavedFirst, GroupCaptured, TakenOff, Captured
  <2> QED
    BY <2>4, <2>6, <2>7 DEF GrowParts
<1>7. ASSUME NEW p \in Procs, UpdateZero(p) PROVE GrowParts'
  <2>1. /\ pc[p] = "zero"
        /\ pc' = [pc EXCEPT ![p] = IF todo[p] = {} THEN ret[p] ELSE "inc"]
        /\ ret' = [ret EXCEPT ![p] = IF todo[p] = {} THEN "idle" ELSE @]
        /\ cur' = [cur EXCEPT ![p] = 0]
        /\ UNCHANGED <<epcapr, vcntr, vcntrcapt, lastcap, left, ev, exact, tmp>>
    BY <1>7 DEF UpdateZero, NoBitLeft, ghosts
  <2> QED
    BY <1>0, <1>a, <1>c, <2>1, GrowQuiet
<1>8. ASSUME NEW u \in Users, NEW e \in Events, SetCall(u, e) PROVE GrowParts'
  <2>1. /\ pc[u] = "idle" /\ pc' = [pc EXCEPT ![u] = "lock_set"]
        /\ ev' = [ev EXCEPT ![u] = e]
        /\ UNCHANGED <<epcapr, vcntr, vcntrcapt, lastcap, exact, left, cur, ret, tmp>>
    BY <1>8 DEF SetCall, hw, ghosts
  <2>2. \A c \in Counters : Uncompared(c)' <=> Uncompared(c)
    BY <1>a, <2>1 DEF Uncompared
  <2>3. Grown'
    BY <1>e, <2>1, <2>2 DEF Grown, Pair
  <2>4. SavedFirst' /\ GroupCaptured' /\ TakenOff' /\ Halves'
    BY <1>a, <1>e, <2>1 DEF SavedFirst, GroupCaptured, TakenOff, Halves, Captured, Upper
  <2> QED
    BY <2>3, <2>4 DEF GrowParts
<1>9. ASSUME NEW u \in Users, Decode(u) PROVE GrowParts'
  <2>1. pc[u] = "decode" /\ \A q \in Users \ {u} : pc[q] \notin Locked
    BY <1>9, <1>a, <1>b DEF Decode, Locked
  <2>2. UNCHANGED <<epcapr, vcntr, lastcap, exact, ev, ret, cur, tmp>>
    BY <1>9 DEF Decode, hw, ghosts
  <2>3. CASE GroupReadable(ev[u])
    <3> DEFINE group == Epctrgcr[group_j(ev[u])]
    <3>1. /\ left' = [left EXCEPT ![u] = group]
          /\ vcntrcapt' = [k \in Counters |->
                             IF k \in group THEN epcapr[k] ELSE vcntrcapt[k]]
          /\ pc' = [pc EXCEPT ![u] = "sweep"]
      BY <1>9, <2>3 DEF Decode
    <3>2. group = Captured(ev[u])
      BY <1>a, <2>3, ReadableGroup
    <3> HIDE DEF group
    <3>3. \A q \in Users : ~Strobed(q) /\ ~Strobed(q)' /\ pc[q] # "bump" /\ pc'[q] # "bump"
      BY <1>a, <2>1, <2>2, <3>1 DEF Locked
    <3>4. \A q \in Users : BeforeStrobe(q)' => q = u
      BY <1>a, <2>1, <2>2, <3>1 DEF Locked
    <3>5. Grown'
      BY <1>e, <2>2, <3>3 DEF Grown, Uncompared, Pair
    <3>6. SavedFirst'
      <4>1. group \subseteq Counters
        BY <1>0, <1>a, <3>1 DEF CountInv, ControlInv, TypeOK
      <4> QED
        BY <1>a, <2>2, <3>1, <3>4, <4>1 DEF SavedFirst
    <3>7. GroupCaptured'
      BY <1>a, <2>2, <3>1, <3>2, <3>4 DEF GroupCaptured, Captured
    <3>8. TakenOff'
      BY <1>a, <2>1, <3>1 DEF TakenOff, Locked
    <3>9. Halves'
      BY <1>a, <1>g, <2>1, <3>1 DEF Locked
    <3> QED
      BY <3>5, <3>6, <3>7, <3>8, <3>9 DEF GrowParts
  <2>4. CASE ~GroupReadable(ev[u])
    <3>1. pc' = [pc EXCEPT ![u] = "fail"] /\ UNCHANGED <<left, vcntrcapt>>
      BY <1>9, <2>4 DEF Decode, ErrorExit
    <3> QED
      BY <1>0, <1>a, <2>1, <2>2, <3>1, GrowQuiet
  <2> QED
    BY <2>3, <2>4
<1>10. ASSUME NEW u \in Users, Sweep(u) PROVE GrowParts'
  <2>1. /\ pc[u] = "sweep"
        /\ \E w : /\ pc' = [pc EXCEPT ![u] = IF w = {} THEN "strobe" ELSE "ack"]
                  /\ ret' = [ret EXCEPT ![u] = IF w = {} THEN "idle" ELSE "strobe"]
        /\ UNCHANGED <<epcapr, vcntr, vcntrcapt, lastcap, exact, left, cur, ev, tmp>>
    BY <1>10 DEF Sweep, Call, hw, ghosts
  <2> QED
    BY <1>0, <1>a, <2>1, GrowQuiet
<1>11. ASSUME NEW u \in Users, Strobe(u) PROVE GrowParts'
  <2>1. /\ pc[u] = "strobe" /\ pc' = [pc EXCEPT ![u] = "late"]
        /\ epcapr' = [k \in Counters |-> IF k \in Captured(ev[u]) THEN epctr[k]
                                                                 ELSE epcapr[k]]
        /\ UNCHANGED <<vcntr, vcntrcapt, lastcap, exact, left, cur, ret, ev>>
    BY <1>11 DEF Strobe
  <2>2. left[u] = Captured(ev[u])
    BY <1>e, <2>1 DEF GroupCaptured
  <2>3. \A q \in Users \ {u} : pc[q] \notin Locked /\ pc'[q] \notin Locked
    BY <1>a, <1>b, <2>1 DEF Locked
  <2>4. \A c \in Counters : ~Uncompared(c) /\ (Uncompared(c)' <=> c \in left[u])
    <3>1. \A q \in Users : ~Strobed(q) /\ pc[q] # "bump" /\ pc'[q] # "bump"
                           /\ (Strobed(q)' <=> q = u)
      BY <1>a, <2>1, <2>3 DEF Locked
    <3> HIDE DEF Strobed
    <3> QED
      BY <2>1, <3>1 DEF Uncompared
  <2>5. Grown'
    <3> SUFFICES ASSUME NEW c \in Counters, exact[c], lastcap[c] # 0
                 PROVE  IF c \in left[u]
                        THEN vcntrcapt[c] < Width /\ lastcap[c] <= Pair(vcntr[c], vcntrcapt[c])
                        ELSE lastcap[c] <= Pair(vcntr[c], epcapr'[c])
      BY <2>1, <2>4 DEF Grown, Pair
    <3>1. lastcap[c] <= Pair(vcntr[c], epcapr[c])
      BY <1>e, <2>4 DEF Grown
    <3>2. CASE c \in left[u]
      <4>1. vcntrcapt[c] = epcapr[c]
        BY <1>e, <2>1, <3>2 DEF SavedFirst
      <4> QED
        BY <1>a, <1>f, <3>1, <3>2, <4>1
    <3>3. CASE c \notin left[u]
      BY <2>1, <2>2, <3>1, <3>3
    <3> QED
      BY <3>2, <3>3
  <2>6. \A q \in Users : ~BeforeStrobe(q)' /\ pc'[q] \notin AtHand
    BY <1>a, <2>1, <2>3 DEF Locked
  <2> QED
    BY <2>5, <2>6 DEF GrowParts, SavedFirst, GroupCaptured, TakenOff, Halves
<1>12. ASSUME NEW u \in Users, Late(u) PROVE GrowParts'
  <2>1. /\ pc[u] = "late"
        /\ pc' = [pc EXCEPT ![u] = IF epctrisr = {} THEN "compare" ELSE "ack"]
        /\ ret' = [ret EXCEPT ![u] = IF epctrisr = {} THEN "idle" ELSE "compare"]
        /\ UNCHANGED <<epcapr, vcntr, vcntrcapt, lastcap, exact, left, cur, ev, tmp>>
    BY <1>12 DEF Late, LateOverflows, Call, hw, ghosts
  <2> QED
    BY <1>0, <1>a, <2>1, GrowQuiet
<1>13. ASSUME NEW u \in Users, Compare(u) PROVE GrowParts'
  <2>1. PICK k \in left[u] :
           /\ cur' = [cur EXCEPT ![u] = k]
           /\ left' = [left EXCEPT ![u] = @ \ {k}]
           /\ pc' = [pc EXCEPT ![u] = IF epcapr[k] < vcntrcapt[k] THEN "bump" ELSE "put"]
    BY <1>13 DEF Compare, Wrapped
  <2>2. /\ pc[u] = "compare"
        /\ UNCHANGED <<epcapr, vcntr, vcntrcapt, lastcap, exact, ret, ev>>
    BY <1>13 DEF Compare, hw, ghosts
  <2>3. k \in Counters
    BY <1>a
  <2>4. \A q \in Users \ {u} : pc[q] \notin Locked /\ pc'[q] \notin Locked
    BY <1>a, <1>b, <2>1, <2>2 DEF Locked
  <2>5. \A q \in Users : /\ (Strobed(q) <=> q = u) /\ (Strobed(q)' <=> q = u)
                         /\ ~BeforeStrobe(q)'
    BY <1>a, <2>1, <2>2, <2>4 DEF Locked
  <2>6. \A q \in Users : /\ pc[q] # "bump"
                         /\ pc'[q] = "bump" <=> q = u /\ epcapr[k] < vcntrcapt[k]
    BY <1>a, <2>1, <2>2, <2>4 DEF Locked
  <2> HIDE DEF Strobed, BeforeStrobe
  <2>7. \A c \in Counters :
           /\ Uncompared(c) <=> c \in left[u]
           /\ Uncompared(c)' <=> \/ c \in left[u] /\ c # k
                                 \/ c = k /\ epcapr[k] < vcntrcapt[k]
    BY <1>a, <2>1, <2>5, <2>6 DEF Uncompared
  <2>8. Grown'
    <3> SUFFICES ASSUME NEW c \in Counters, exact[c], lastcap[c] # 0
                 PROVE  IF Uncompared(c)'
                        THEN /\ vcntrcapt[c] < Width
                             /\ lastcap[c] <= Pair(vcntr[c], vcntrcapt[c])
                        ELSE lastcap[c] <= Pair(vcntr[c], epcapr[c])
      BY <2>2 DEF Grown, Pair
    <3>1. IF Uncompared(c)
          THEN vcntrcapt[c] < Width /\ lastcap[c] <= Pair(vcntr[c], vcntrcapt[c])
          ELSE lastcap[c] <= Pair(vcntr[c], epcapr[c])
      BY <1>e DEF Grown
    <3>2. CASE c = k /\ ~(epcapr[k] < vcntrcapt[k])
      <4>1. vcntr[c] \in Nat /\ vcntrcapt[c] \in Nat /\ epcapr[c] \in Nat /\ lastcap[c] \in Nat
        BY <1>0, <1>a DEF CountInv, ControlInv, TypeOK
      <4>2. vcntrcapt[c] <= epcapr[c]
        BY <3>2, <4>1
      <4>3. /\ Pair(vcntr[c], vcntrcapt[c]) <= Pair(vcntr[c], epcapr[c])
            /\ Pair(vcntr[c], vcntrcapt[c]) \in Nat /\ Pair(vcntr[c], epcapr[c]) \in Nat
        BY <4>1, <4>2, PairNat, PairGrowsBelow
      <4> QED
        BY <2>7, <3>1, <3>2, <4>1, <4>3
    <3>3. CASE ~(c = k /\ ~(epcapr[k] < vcntrcapt[k]))
      BY <2>7, <3>1, <3>3
    <3> QED
      BY <3>2, <3>3
  <2>9. TakenOff'
    BY <1>a, <2>1, <2>4 DEF TakenOff, Locked
  <2>10. Halves'
    BY <1>a, <1>g, <2>1, <2>2 DEF Locked
  <2> QED
    BY <2>5, <2>8, <2>9, <2>10 DEF GrowParts, SavedFirst, GroupCaptured
<1>14. ASSUME NEW u \in Users, Bump(u) PROVE GrowParts'
  <2> DEFINE k == cur[u]
  <2>1. /\ pc[u] = "bump" /\ pc' = [pc EXCEPT ![u] = "put"]
        /\ vcntr' = [vcntr EXCEPT ![k] = (tmp[u] + 1) % U64]
        /\ exact' = [exact EXCEPT ![k] = @ /\ tmp[u] + 1 < U64]
        /\ UNCHANGED <<epcapr, vcntrcapt, lastcap, ret, cur, left, ev>>
    BY <1>14 DEF Bump, hw
  <2>2. k \in Counters /\ k \notin left[u] /\ tmp[u] \in 0 .. U64 - 1
    BY <1>0, <1>a, <1>e, <2>1 DEF CountInv, ControlInv, TypeOK, TakenOff
  <2>3. \A q \in Users \ {u} : pc[q] \notin Locked /\ pc'[q] \notin Locked
    BY <1>a, <1>b, <2>1 DEF Locked
  <2>4. \A q \in Users : /\ (Strobed(q) <=> q = u) /\ (Strobed(q)' <=> q = u)
                         /\ ~BeforeStrobe(q)'
                         /\ (pc[q] = "bump" <=> q = u) /\ pc'[q] # "bump"
    BY <1>a, <2>1, <2>3 DEF Locked
  <2> HIDE DEF Strobed, BeforeStrobe
  <2>5. \A c \in Counters : /\ Uncompared(c) <=> c \in left[u] \/ c = k
                            /\ Uncompared(c)' <=> c \in left[u]
    BY <2>1, <2>4 DEF Uncompared
  <2>6. Grown'
    <3> SUFFICES ASSUME NEW c \in Counters, exact'[c], lastcap[c] # 0
                 PROVE  IF c \in left[u]
                        THEN /\ vcntrcapt[c] < Width
                             /\ lastcap[c] <= Pair(vcntr'[c], vcntrcapt[c])
                        ELSE lastcap[c] <= Pair(vcntr'[c], epcapr[c])
      BY <2>1, <2>5 DEF Grown, Pair
    <3>1. exact[c]
      BY <1>a, <2>1, <2>2
    <3>2. IF c \in left[u] \/ c = k
          THEN vcntrcapt[c] < Width /\ lastcap[c] <= Pair(vcntr[c], vcntrcapt[c])
          ELSE lastcap[c] <= Pair(vcntr[c], epcapr[c])
      BY <1>e, <2>5, <3>1 DEF Grown
    <3>3. CASE c = k
      <4>1. tmp[u] = vcntr[k] /\ tmp[u] + 1 < U64
        BY <1>a, <1>d, <2>1, <2>2, <3>1, <3>3
      <4>2. vcntr'[k] = vcntr[k] + 1
        BY <1>a, <1>f, <2>1, <2>2, <4>1
      <4>3. vcntr[k] \in Nat /\ vcntrcapt[k] \in Nat /\ epcapr[k] \in Nat /\ lastcap[k] \in Nat
        BY <1>0, <1>a DEF CountInv, ControlInv, TypeOK
      <4>4. Pair(vcntr[k], vcntrcapt[k]) <= Pair(vcntr'[k], epcapr[k])
        BY <3>2, <3>3, <4>2, <4>3, PairCarries
      <4>5. Pair(vcntr[k], vcntrcapt[k]) \in Nat /\ Pair(vcntr'[k], epcapr[k]) \in Nat
        <5>1. vcntr'[k] \in Nat
          BY <4>2, <4>3
        <5> QED
          BY <4>3, <5>1, PairNat
      <4> QED
        BY <2>2, <3>2, <3>3, <4>3, <4>4, <4>5
    <3>4. CASE c # k
      BY <1>a, <2>1, <3>2, <3>4
    <3> QED
      BY <3>3, <3>4
  <2>7. TakenOff'
    BY <1>a, <2>1, <2>2, <2>3 DEF TakenOff, Locked
  <2>8. Halves'
    BY <1>a, <1>g, <2>1 DEF Locked
  <2> QED
    BY <2>4, <2>6, <2>7, <2>8 DEF GrowParts, SavedFirst, GroupCaptured
<1>15. ASSUME NEW u \in Users, Put(u) PROVE GrowParts'
  <2> DEFINE k == cur[u]
  <2>1. /\ pc[u] = "put" /\ pc' = [pc EXCEPT ![u] = "join"]
        /\ vcntrcapt' = [vcntrcapt EXCEPT ![k] = Upper(vcntr[k])]
        /\ tmp' = [tmp EXCEPT ![u] = Upper(vcntr[k])]
        /\ UNCHANGED <<epcapr, vcntr, exact, ret, cur, left, ev, lastcap>>
    BY <1>15 DEF Put, hw
  <2>2. k \in Counters /\ k \notin left[u]
    BY <1>a, <1>e, <2>1 DEF TakenOff
  <2>3. \A q \in Users \ {u} : pc[q] \notin Locked /\ pc'[q] \notin Locked
    BY <1>a, <1>b, <2>1 DEF Locked
  <2>4. \A q \in Users : /\ (Strobed(q) <=> q = u) /\ (Strobed(q)' <=> q = u)
                         /\ ~BeforeStrobe(q)'
                         /\ pc[q] # "bump" /\ pc'[q] # "bump"
                         /\ (pc'[q] \in AtHand => q = u)
    BY <1>a, <2>1, <2>3 DEF Locked
  <2>5. Halves'
    <3>1. tmp'[u] = Upper(vcntr[k]) /\ vcntrcapt'[k] = Upper(vcntr[k])
      BY <1>0, <1>a, <2>1, <2>2 DEF CountInv, ControlInv, TypeOK
    <3> QED
      BY <2>1, <2>4, <3>1 DEF Halves, Upper
  <2> HIDE DEF Strobed, BeforeStrobe
  <2>6. \A c \in Counters : /\ Uncompared(c) <=> c \in left[u]
                            /\ Uncompared(c)' <=> c \in left[u]
    BY <2>1, <2>4 DEF Uncompared
  <2>7. Grown'
    BY <1>a, <1>e, <2>1, <2>2, <2>6 DEF Grown, Pair
  <2>8. TakenOff'
    BY <2>1, <2>2, <2>4 DEF TakenOff
  <2> QED
    BY <2>4, <2>5, <2>7, <2>8 DEF GrowParts, SavedFirst, GroupCaptured
<1>15a. ASSUME NEW u \in Users, Join(u) PROVE GrowParts'
  <2>1. /\ pc[u] = "join" /\ pc' = [pc EXCEPT ![u] = "merge"]
        /\ tmp'[u] \in {tmp[u], vcntrcapt[cur[u]]}
        /\ UNCHANGED <<epcapr, vcntr, vcntrcapt, exact, ret, cur, left, ev, lastcap>>
    BY <1>0, <1>15a, <1>a DEF Join, hw, ghosts, CountInv, ControlInv, TypeOK
  <2>2. \A q \in Users \ {u} : pc[q] \notin Locked /\ pc'[q] \notin Locked
    BY <1>a, <1>b, <2>1 DEF Locked
  <2>3. \A q \in Users : /\ Strobed(q)' <=> Strobed(q)
                         /\ ~BeforeStrobe(q)'
                         /\ pc[q] # "bump" /\ pc'[q] # "bump"
                         /\ (pc'[q] \in AtHand => q = u)
    BY <1>a, <2>1, <2>2 DEF Locked
  <2>4. Halves'
    BY <1>e, <2>1, <2>3 DEF Halves, Upper
  <2> HIDE DEF Strobed, BeforeStrobe
  <2>5. \A c \in Counters : Uncompared(c)' <=> Uncompared(c)
    BY <2>1, <2>3 DEF Uncompared
  <2>6. Grown'
    BY <1>e, <2>1, <2>5 DEF Grown, Pair
  <2>7. TakenOff'
    BY <1>e, <2>1, <2>3 DEF TakenOff
  <2> QED
    BY <2>3, <2>4, <2>6, <2>7 DEF GrowParts, SavedFirst, GroupCaptured
<1>15b. ASSUME NEW u \in Users, Merge(u) PROVE GrowParts'
  <2> DEFINE k == cur[u]
  <2>1. PICK value \in Or(tmp[u], epcapr[k]) :
           /\ vcntrcapt' = [vcntrcapt EXCEPT ![k] = value]
           /\ lastcap' = [lastcap EXCEPT
                             ![k] = IF tmp[u] = Upper(vcntr[k]) THEN value ELSE 0]
    BY <1>15b DEF Merge
  <2>2. /\ pc[u] = "merge" /\ pc' = [pc EXCEPT ![u] = "compare"]
        /\ UNCHANGED <<epcapr, vcntr, exact, ret, left, ev>>
    BY <1>15b DEF Merge, hw
  <2>3. k \in Counters /\ k \notin left[u]
    BY <1>a, <1>e, <2>2 DEF TakenOff
  <2>4. \A q \in Users \ {u} : pc[q] \notin Locked /\ pc'[q] \notin Locked
    BY <1>a, <1>b, <2>2 DEF Locked
  <2>5. \A q \in Users : /\ (Strobed(q) <=> q = u) /\ (Strobed(q)' <=> q = u)
                         /\ ~BeforeStrobe(q)'
                         /\ pc[q] # "bump" /\ pc'[q] \notin AtHand
    BY <1>a, <2>2, <2>4 DEF Locked
  <2> HIDE DEF Strobed, BeforeStrobe
  <2>6. \A c \in Counters : /\ Uncompared(c) <=> c \in left[u]
                            /\ Uncompared(c)' <=> c \in left[u]
    BY <2>2, <2>5 DEF Uncompared
  <2>7. tmp[u] = Upper(vcntr[k]) => value <= Pair(vcntr[k], epcapr[k])
    <3>1. vcntr[k] \in 0 .. U64 - 1 /\ vcntr[k] \in Nat /\ epcapr[k] \in Nat
      BY <1>a, <1>f, <2>3
    <3>2. Or(Upper(vcntr[k]), epcapr[k]) = {Upper(vcntr[k]) + epcapr[k]}
      BY <3>1, OrJoins
    <3>3. Upper(vcntr[k]) + epcapr[k] <= Pair(vcntr[k], epcapr[k])
      BY <3>1, PairCuts
    <3> QED
      BY <2>1, <3>2, <3>3
  <2>8. Grown'
    <3> SUFFICES ASSUME NEW c \in Counters, exact[c], lastcap'[c] # 0
                 PROVE  IF c \in left[u]
                        THEN /\ vcntrcapt'[c] < Width
                             /\ lastcap'[c] <= Pair(vcntr[c], vcntrcapt'[c])
                        ELSE lastcap'[c] <= Pair(vcntr[c], epcapr[c])
      BY <2>2, <2>6 DEF Grown, Pair
    <3>1. CASE c = k
      <4>1. tmp[u] = Upper(vcntr[k]) /\ lastcap'[c] = value
        BY <1>a, <2>1, <2>3, <3>1
      <4> QED
        BY <2>3, <2>7, <3>1, <4>1
    <3>2. CASE c # k
      <4>1. lastcap'[c] = lastcap[c] /\ vcntrcapt'[c] = vcntrcapt[c]
        BY <1>a, <2>1, <3>2
      <4> QED
        BY <1>e, <2>6, <4>1 DEF Grown
    <3> QED
      BY <3>1, <3>2
  <2> QED
    BY <2>5, <2>8 DEF GrowParts, SavedFirst, GroupCaptured, TakenOff, Halves
<1>16. ASSUME NEW u \in Users, Finish(u) PROVE GrowParts'
  <2>1. /\ pc[u] = "compare" /\ left[u] = {} /\ pc' = [pc EXCEPT ![u] = "out"]
        /\ UNCHANGED <<epcapr, vcntr, vcntrcapt, lastcap, exact, left, cur, ev, ret, tmp>>
    BY <1>16 DEF Finish, hw, ghosts
  <2>2. \A c \in Counters : Uncompared(c)' <=> Uncompared(c)
    BY <1>a, <2>1 DEF Uncompared
  <2>3. Grown'
    BY <1>e, <2>1, <2>2 DEF Grown, Pair
  <2>4. SavedFirst' /\ GroupCaptured' /\ TakenOff' /\ Halves'
    BY <1>a, <1>e, <2>1 DEF SavedFirst, GroupCaptured, TakenOff, Halves, Captured, Upper
  <2> QED
    BY <2>3, <2>4 DEF GrowParts
<1>17. ASSUME NEW u \in Users, GetCall(u) \/ Read(u) PROVE GrowParts'
  BY <1>0, <1>17, <1>a, GrowQuiet DEF GetCall, Read, ReadExit, hw, ghosts
<1>18. ASSUME NEW c \in Counters, NEW v \in UserValues,
              VcntrSet(c, v) \/ VcntrcaptSet(c, v)
       PROVE  GrowParts'
  <2>1. /\ UNCHANGED <<epcapr, pc, ret, cur, left, ev, tmp>>
        /\ lastcap' = [lastcap EXCEPT ![c] = 0]
        /\ \A d \in Counters \ {c} : /\ vcntr'[d] = vcntr[d] /\ exact'[d] = exact[d]
                                     /\ vcntrcapt'[d] = vcntrcapt[d]
    BY <1>18, <1>a DEF VcntrSet, VcntrcaptSet, hw, locals
  <2>2. \A d \in Counters : Uncompared(d)' <=> Uncompared(d)
    BY <2>1 DEF Uncompared
  <2>3. Grown'
    BY <1>a, <1>e, <2>1, <2>2 DEF Grown, Pair
  <2>4. SavedFirst' /\ GroupCaptured' /\ TakenOff' /\ Halves'
    BY <1>a, <1>e, <2>1 DEF SavedFirst, GroupCaptured, TakenOff, Halves, Captured, Upper
  <2> QED
    BY <2>3, <2>4 DEF GrowParts
<1>19. CASE UNCHANGED vars
  BY <1>0, <1>19, GrowQuiet DEF vars, hw, locals, ghosts
<1> QED
  BY <1>1, <1>2, <1>3, <1>4, <1>5, <1>6, <1>6a, <1>6b, <1>7, <1>8, <1>9, <1>10, <1>11,
     <1>12, <1>13, <1>14, <1>15, <1>15a, <1>15b, <1>16, <1>17, <1>18, <1>19
  DEF Next, Update, Capture

----------------------------------------------------------------------------
(* Only Merge takes a process from "merge" to "compare".                   *)

LEMMA MergeSteps ==
    ASSUME TypeOK, [Next]_vars, NEW u \in Users, pc[u] = "merge", pc'[u] = "compare"
    PROVE  Merge(u)
<1>a. pc \in [Procs -> Labels] /\ Users \subseteq Procs
  BY DEF TypeOK, Procs
<1>1. ASSUME NEW c \in Counters, Tick(c) PROVE FALSE
  BY <1>1 DEF Tick, locals
<1>2. CASE IsrRead
  BY <1>2, <1>a DEF IsrRead
<1>3. ASSUME NEW p \in Procs, Acquire(p) \/ Update(p) \/ Release(p) PROVE FALSE
  BY <1>3, <1>a
  DEF Acquire, Release, Update, UpdateAck, UpdateLoad, UpdateStore, UpdateTest,
      UpdateWrap, UpdateZero
<1>4. ASSUME NEW q \in Users, Capture(q) \/ (\E e \in Events : SetCall(q, e)) PROVE Merge(u)
  <2>1. q = u
    BY <1>4, <1>a
    DEF Capture, SetCall, Decode, Sweep, Call, Strobe, Late, Compare, Bump, Put, Join,
        Merge, Finish
  <2> QED
    BY <1>4, <2>1
    DEF Capture, SetCall, Decode, Sweep, Strobe, Late, Compare, Bump, Put, Join, Finish
<1>5. ASSUME NEW q \in Users, GetCall(q) \/ Read(q) PROVE FALSE
  BY <1>5, <1>a DEF GetCall, Read
<1>6. ASSUME NEW c \in Counters, NEW v \in UserValues,
             VcntrSet(c, v) \/ VcntrcaptSet(c, v)
      PROVE  FALSE
  BY <1>6 DEF VcntrSet, VcntrcaptSet, locals
<1>7. CASE UNCHANGED vars
  BY <1>7 DEF vars, locals
<1> QED
  BY <1>1, <1>2, <1>3, <1>4, <1>5, <1>6, <1>7 DEF Next

\* The 64-bit value that a capture stores for a counter is at least what the
\* previous capture stored, whatever the handler, the other users and further
\* wraps of the counter do in between, until a file is written or the upper
\* half runs over.
THEOREM CapturesGrowing == Spec => CapturesGrow
<1> DEFINE Growing(u) == /\ pc[u] = "merge" /\ pc'[u] = "compare"
                         /\ exact[cur[u]] /\ vcntr[cur[u]] < Width
                         => vcntrcapt'[cur[u]] >= lastcap[cur[u]]
<1>1. GrowInv /\ [Next]_vars => \A u \in Users : Growing(u)
  <2> SUFFICES ASSUME GrowInv, [Next]_vars, NEW u \in Users,
                      pc[u] = "merge", pc'[u] = "compare",
                      exact[cur[u]], vcntr[cur[u]] < Width
               PROVE  vcntrcapt'[cur[u]] >= lastcap[cur[u]]
    OBVIOUS
  <2> DEFINE k == cur[u]
  <2>1. TypeOK /\ TypeOK' /\ HolderOnly /\ Grown /\ TakenOff /\ Halves
    BY TypeNext DEF GrowInv, GrowParts, CountInv, ControlInv
  <2>2. Merge(u)
    BY <2>1, MergeSteps
  <2>3. /\ k \in Counters /\ vcntr[k] \in Nat /\ vcntr[k] \in 0 .. U64 - 1
        /\ epcapr[k] \in Nat /\ lastcap[k] \in Nat
        /\ vcntrcapt \in [Counters -> 0 .. U64 - 1]
        /\ vcntrcapt' \in [Counters -> 0 .. U64 - 1]
    BY <2>1, Sizes, WidthAssumption DEF TypeOK, Procs
  <2>4. CASE lastcap[k] = 0
    BY <2>3, <2>4, Sizes
  <2>5. CASE lastcap[k] # 0
    <3>1. vcntrcapt'[k] \in Or(Upper(vcntr[k]), epcapr[k])
      BY <2>1, <2>2, <2>3, <2>5 DEF Merge, Halves
    <3>2. vcntrcapt'[k] = Pair(vcntr[k], epcapr[k])
      BY <2>3, <3>1, OrJoins, PairCuts
    <3>3. ~Uncompared(k)
      BY <2>1 DEF Uncompared, TakenOff, HolderOnly, Strobed, InUpdate, Locked, Procs, AtHand
    <3>4. lastcap[k] <= Pair(vcntr[k], epcapr[k])
      BY <2>1, <2>3, <2>5, <3>3 DEF Grown
    <3>5. Pair(vcntr[k], epcapr[k]) \in Nat
      BY <2>3, PairNat
    <3> QED
      BY <2>3, <3>2, <3>4, <3>5
  <2> QED
    BY <2>4, <2>5
<1>2. [][\A u \in Users : Growing(u)]_vars => CapturesGrow
  BY PTL DEF CapturesGrow
<1> QED
  BY <1>1, <1>2, GrowInit, GrowNext, PTL DEF Spec

=============================================================================
