---------------------------- MODULE LayoutProofs ----------------------------
(***************************************************************************)
(* Lemmas about Layouts: the offsets of a layout, of two layouts one after *)
(* the other, and those of struct vcounters; and a walk through the struct *)
(* of each device, field by field, which finds every register where a plan *)
(* says, every gap closed, and so many registers in all.                   *)
(***************************************************************************)
EXTENDS Debugfs, FiniteSets, SequenceTheorems, FiniteSetTheorems, WellFoundedInduction, TLAPS

----------------------------------------------------------------------------
(* Induction.  The induction theorems of the library take an operator;     *)
(* this one takes a set.                                                   *)

\* A set of numbers that holds 0 and the successor of each of its elements
\* holds every number.
LEMMA Induction ==
    ASSUME NEW T, T \subseteq Nat, 0 \in T, \A n \in T : n + 1 \in T
    PROVE  T = Nat
<1> DEFINE Rest == Nat \ T
           R    == OpToRel(<, Nat)
<1>1. \A x \in Nat : <<x, x + 1>> \in R
  BY DEF OpToRel
<1>2. IsWellFoundedOn(R, Nat)
  BY NatLessThanWellFounded
<1> HIDE DEF R
<1>3. ASSUME Rest # {} PROVE FALSE
  <2>1. PICK x \in Rest : \A y \in Rest : ~ (<<y, x>> \in R)
    <3>1. Rest \subseteq Nat
      OBVIOUS
    <3> HIDE DEF Rest
    <3> QED
      BY <1>2, <1>3, <3>1, WFMin
  <2>2. x - 1 \in Rest /\ (x - 1) + 1 = x
    OBVIOUS
  <2>3. <<x - 1, x>> \in R
    BY <1>1, <2>2
  <2> QED
    BY <2>1, <2>2, <2>3
<1> QED
  BY <1>3

----------------------------------------------------------------------------
(* The plans of the layouts: where each register is, and how many there    *)
(* are of its name.  The gaps are not named in a plan.                     *)

\* n elements of stride bytes from an offset on, of which the first used hold
\* registers
ArrayAt(at, n, stride, used) == [at |-> at, n |-> n, stride |-> stride, used |-> used]

WordsAt(at, n) == ArrayAt(at, n, 4, 4)

Word(at) == WordsAt(at, 1)

EpuPlan ==
    [epgcr |-> Word(\h000), epesr |-> Word(\h010), episr |-> WordsAt(\h020, 4),
     epctrisr |-> Word(\h030), epctrcsr |-> Word(\h040), epevtcr |-> WordsAt(\h050, 10),
     epxtrigcr |-> Word(\h090), epimcr |-> WordsAt(\h100, 32),
     scu_ctrl |-> ArrayAt(\h200, 16, 8, 4), epecr |-> WordsAt(\h300, 16),
     epacr |-> WordsAt(\h400, 16), epgacr |-> WordsAt(\h480, 16),
     epctrgcr |-> WordsAt(\h540, 4), epegcr |-> WordsAt(\h580, 3), epfsmsr0 |-> Word(\h600),
     epfsmcmpr |-> WordsAt(\h610, 8), epfsmcr |-> WordsAt(\h630, 8),
     epccr |-> WordsAt(\h800, 32), epcmpr |-> WordsAt(\h900, 32),
     epctr |-> WordsAt(\ha00, 32), epcapr |-> WordsAt(\hb00, 32),
     eprsrv |-> WordsAt(\hf00, 60), ephsr |-> WordsAt(\hff0, 4)]

EtfPlan ==
    [rsz |-> Word(\h004), sts |-> Word(\h00c), rrd |-> Word(\h010), rrp |-> Word(\h014),
     rwp |-> Word(\h018), trg |-> Word(\h01c), ctl |-> Word(\h020), rwd |-> Word(\h024),
     mode |-> Word(\h028), lbuflevel |-> Word(\h02c), cbuflevel |-> Word(\h030),
     bufwm |-> Word(\h034), rrphi |-> Word(\h038), rwphi |-> Word(\h03c),
     axictl |-> Word(\h110), dbalo |-> Word(\h118), dbahi |-> Word(\h11c),
     ffsr |-> Word(\h300), ffcr |-> Word(\h304), pscr |-> Word(\h308),
     itatbmdata0 |-> Word(\hed0), itatbmctr2 |-> Word(\hed4), itatbmctr1 |-> Word(\hed8),
     itatbmctr0 |-> Word(\hedc), itmiscop0 |-> Word(\hee0), ittrflin |-> Word(\hee8),
     itatbdata0 |-> Word(\heec), itatbctr2 |-> Word(\hef0), itatbctr1 |-> Word(\hef4),
     itatbctr0 |-> Word(\hef8), itctrl |-> Word(\hf00), claimset |-> Word(\hfa0),
     claimclr |-> Word(\hfa4), lar |-> Word(\hfb0), lsr |-> Word(\hfb4),
     authstatus |-> Word(\hfb8), devid |-> Word(\hfc8), devtype |-> Word(\hfcc),
     periphid4 |-> Word(\hfd0), periphid5 |-> Word(\hfd4), periphid6 |-> Word(\hfd8),
     periphid7 |-> Word(\hfdc), periphid0 |-> Word(\hfe0), periphid1 |-> Word(\hfe4),
     periphid2 |-> Word(\hfe8), periphid3 |-> Word(\hfec), compid0 |-> Word(\hff0),
     compid1 |-> Word(\hff4), compid2 |-> Word(\hff8), compid3 |-> Word(\hffc)]

FunnelPlan ==
    [cr |-> Word(\h000), pcr |-> Word(\h004), itatbdata0 |-> Word(\heec),
     itatbctr2 |-> Word(\hef0), itatbctr1 |-> Word(\hef4), itatbctr0 |-> Word(\hef8),
     imcr |-> Word(\hf00), ctsr |-> Word(\hfa0), ctcr |-> Word(\hfa4), lar |-> Word(\hfb0),
     lsr |-> Word(\hfb4), asr |-> Word(\hfb8), dir |-> Word(\hfc8), dtir |-> Word(\hfcc),
     pidr4 |-> Word(\hfd0), pidr5 |-> Word(\hfd4), pidr6 |-> Word(\hfd8),
     pidr7 |-> Word(\hfdc), pidr0 |-> Word(\hfe0), pidr1 |-> Word(\hfe4),
     pidr2 |-> Word(\hfe8), pidr3 |-> Word(\hfec), cidr |-> WordsAt(\hff0, 4)]

GdiPlan ==
    [gdcr |-> Word(\h000), gdsr |-> Word(\h004), gdrescr1 |-> Word(\h100),
     gdrescr2 |-> Word(\h104), gdpescr |-> WordsAt(\h200, 32),
     gdgpc |-> ArrayAt(\h300, 8, 16, 12)]

EtmPlan ==
    [etmcr |-> Word(\h000), etmccr |-> Word(\h004), etmtrigger |-> Word(\h008),
     etmasicctlr |-> Word(\h00c), etmsr |-> Word(\h010), etmscr |-> Word(\h014),
     etmtsscr |-> Word(\h018), etmtecr2 |-> Word(\h01c), etmteevr |-> Word(\h020),
     etmtecr1 |-> Word(\h024), etmfflr |-> Word(\h02c), etmvdevr |-> Word(\h030),
     etmvdcr1 |-> Word(\h034), etmvdcr3 |-> Word(\h03c), etmacvr |-> WordsAt(\h040, 8),
     etmactr |-> WordsAt(\h080, 8), etmdcvr1 |-> Word(\h0c0), etmdcvr3 |-> Word(\h0c8),
     etmdcmr1 |-> Word(\h100), etmdcmr3 |-> Word(\h108), etmcntrldvr |-> WordsAt(\h140, 2),
     etmcntenr |-> WordsAt(\h150, 2), etmcntrldevr |-> WordsAt(\h160, 2),
     etmcntvr |-> WordsAt(\h170, 2), etmsqabevr |-> WordsAt(\h180, 6),
     etmsqr |-> Word(\h19c), etmextoutevr |-> WordsAt(\h1a0, 2), etmcidcvr1 |-> Word(\h1b0),
     etmcidcmr |-> Word(\h1bc), etmsyncfr |-> Word(\h1e0), etmidr |-> Word(\h1e4),
     etmccer |-> Word(\h1e8), etmextinselr |-> Word(\h1ec), etmtsevr |-> Word(\h1f8),
     etmauxcr |-> Word(\h1fc), etmtraceidr |-> Word(\h200), etmidr2 |-> Word(\h208),
     etmvmidcvr |-> Word(\h240), etmoslar |-> Word(\h300), etmoslsr |-> Word(\h304),
     etmossrr |-> Word(\h308), etmpdcr |-> Word(\h310), etmpdsr |-> Word(\h314),
     itmiscout |-> Word(\hedc), itmiscin |-> Word(\hee0), ittriggerreq |-> Word(\hee8),
     itatbdata0 |-> Word(\heec), itatbctr2 |-> Word(\hef0), itatbctr1 |-> Word(\hef4),
     itatbctr0 |-> Word(\hef8), etmitctrl |-> Word(\hf00), etmclaimset |-> Word(\hfa0),
     etmclaimclr |-> Word(\hfa4), etmlar |-> Word(\hfb0), etmlsr |-> Word(\hfb4),
     etmauthstatus |-> Word(\hfb8), etmdevid |-> Word(\hfc8), etmdevtype |-> Word(\hfcc),
     etmpidr4 |-> Word(\hfd0), etmpidr5 |-> Word(\hfd4), etmpidr6 |-> Word(\hfd8),
     etmpidr7 |-> Word(\hfdc), etmpidr0 |-> Word(\hfe0), etmpidr1 |-> Word(\hfe4),
     etmpidr2 |-> Word(\hfe8), etmpidr3 |-> Word(\hfec), etmcidr |-> WordsAt(\hff0, 4)]

PmuPlan ==
    [pmxevcntr |-> WordsAt(\h1000, 4), pmccntr |-> Word(\h107c),
     pmxevtyper |-> WordsAt(\h1400, 4), pmxevtyper31 |-> Word(\h147c),
     pmctenset |-> Word(\h1c00), pmcntenclr |-> Word(\h1c20), pmintenset |-> Word(\h1c40),
     pmintenclr |-> Word(\h1c60), pmovsr |-> Word(\h1c80), pmswinc |-> Word(\h1ca0),
     pmcfgr |-> Word(\h1e00), pmcr |-> Word(\h1e04), pmuserenr |-> Word(\h1e08),
     pmceid |-> WordsAt(\h1e20, 2), pmlar |-> Word(\h1fb0), pmlsr |-> Word(\h1fb4),
     pmauthstatus |-> Word(\h1fb8), pmdevtype |-> Word(\h1fcc), pmpid4 |-> Word(\h1fd0),
     pmpid5 |-> Word(\h1fd4), pmpid6 |-> Word(\h1fd8), pmpid7 |-> Word(\h1fdc),
     pmpid0 |-> Word(\h1fe0), pmpid1 |-> Word(\h1fe4), pmpid2 |-> Word(\h1fe8),
     pmpid3 |-> Word(\h1fec), pmcid |-> WordsAt(\h1ff0, 4)]

----------------------------------------------------------------------------
(* Offsets.                                                                *)

\* The names of the fields
VcounterNames == {"vcntctrl", "vcntrepecr", "vcntr", "vcntrcapt"}

Names ==
    VcounterNames \union {"reserved"} \union DOMAIN EpuPlan \union DOMAIN EtfPlan
    \union DOMAIN FunnelPlan \union DOMAIN GdiPlan \union DOMAIN EtmPlan \union DOMAIN PmuPlan

Field == [name : Names, n : Nat, stride : Nat, used : Nat, upto : Nat]

LEMMA BytesNat == \A f \in Field : Bytes(f) \in Nat
<1> TAKE f \in Field
<1>1. f.n \in Nat /\ f.stride \in Nat
  BY DEF Field
<1> QED
  BY <1>1 DEF Bytes

\* There is a function that sums up the fields: the recursive definition of
\* Offsets has a value.
LEMMA OffsetsExist ==
    ASSUME NEW l \in Seq(Field)
    PROVE  \E at : at = [n \in 1 .. Len(l) + 1 |->
                            IF n = 1 THEN 0 ELSE at[n - 1] + Bytes(l[n - 1])]
<1> DEFINE Sums(at, m) == /\ at[1] = 0
                          /\ \A k \in 1 .. m : at[k + 1] = at[k] + Bytes(l[k])
           T == {m \in Nat : m <= Len(l) => \E at \in [1 .. m + 1 -> Int] : Sums(at, m)}
<1>1. 0 \in T
  <2>1. [k \in 1 .. 0 + 1 |-> 0] \in [1 .. 0 + 1 -> Int]
    OBVIOUS
  <2>2. Sums([k \in 1 .. 0 + 1 |-> 0], 0)
    OBVIOUS
  <2> HIDE DEF Sums
  <2> QED
    BY <2>1, <2>2
<1>2. ASSUME NEW m \in T PROVE m + 1 \in T
  <2>1. ASSUME m + 1 <= Len(l)
        PROVE  \E at \in [1 .. (m + 1) + 1 -> Int] : Sums(at, m + 1)
    <3>1. PICK at \in [1 .. m + 1 -> Int] : Sums(at, m)
      BY <2>1
    <3> DEFINE new == [k \in 1 .. (m + 1) + 1 |->
                          IF k = m + 2 THEN at[m + 1] + Bytes(l[m + 1]) ELSE at[k]]
    <3>2. Bytes(l[m + 1]) \in Int
      BY <2>1, BytesNat
    <3>3. new \in [1 .. (m + 1) + 1 -> Int]
      BY <3>2
    <3>4. Sums(new, m + 1)
      BY <3>1
    <3> HIDE DEF Sums, new
    <3> QED
      BY <3>3, <3>4
  <2>2. m \in Nat
    OBVIOUS
  <2> HIDE DEF Sums
  <2> QED
    BY <2>1, <2>2
<1>3. Len(l) \in T
  <2>1. T \subseteq Nat /\ Len(l) \in Nat
    OBVIOUS
  <2> HIDE DEF T
  <2>2. T = Nat
    BY <1>1, <1>2, <2>1, Induction
  <2> QED
    BY <2>1, <2>2
<1>4. PICK at \in [1 .. Len(l) + 1 -> Int] : Sums(at, Len(l))
  BY <1>3
<1>5. at = [n \in 1 .. Len(l) + 1 |->
               IF n = 1 THEN 0 ELSE at[n - 1] + Bytes(l[n - 1])]
  <2>1. ASSUME NEW n \in 1 .. Len(l) + 1
        PROVE  at[n] = IF n = 1 THEN 0 ELSE at[n - 1] + Bytes(l[n - 1])
    <3>1. n # 1 => n - 1 \in 1 .. Len(l) /\ (n - 1) + 1 = n
      OBVIOUS
    <3> QED
      BY <1>4, <3>1
  <2> QED
    BY <2>1
<1> QED
  BY <1>5

\* The first field begins at 0, each of the others where the one before ends.
LEMMA OffsetSteps ==
    ASSUME NEW l \in Seq(Field)
    PROVE  /\ OffsetAt(l, 1) = 0
           /\ \A k \in 1 .. Len(l) : OffsetAt(l, k + 1) = OffsetAt(l, k) + Bytes(l[k])
<1> DEFINE Step(at) == [n \in 1 .. Len(l) + 1 |->
                           IF n = 1 THEN 0 ELSE at[n - 1] + Bytes(l[n - 1])]
           at == Offsets(l)
<1>1. at = CHOOSE f : f = Step(f)
  BY DEF Offsets
<1>2. \E f : f = Step(f)
  BY OffsetsExist
<1>3. at = Step(at)
  <2> HIDE DEF Step, at
  <2> QED
    BY <1>1, <1>2
<1> HIDE DEF at
<1>4. at[1] = 0
  BY <1>3
<1>5. ASSUME NEW k \in 1 .. Len(l) PROVE at[k + 1] = at[k] + Bytes(l[k])
  <2>1. k + 1 \in 1 .. Len(l) + 1 /\ k + 1 # 1 /\ (k + 1) - 1 = k
    OBVIOUS
  <2> QED
    BY <1>3, <2>1
<1> QED
  BY <1>4, <1>5 DEF at, OffsetAt

\* The offsets inside a layout are numbers.
LEMMA OffsetsNat ==
    ASSUME NEW l \in Seq(Field)
    PROVE  \A k \in 1 .. Len(l) + 1 : OffsetAt(l, k) \in Nat
<1> DEFINE T == {m \in Nat : m <= Len(l) => OffsetAt(l, m + 1) \in Nat}
<1>1. 0 \in T
  BY OffsetSteps
<1>2. ASSUME NEW m \in T PROVE m + 1 \in T
  <2> SUFFICES ASSUME m + 1 <= Len(l) PROVE OffsetAt(l, m + 2) \in Nat
    OBVIOUS
  <2>1. OffsetAt(l, m + 2) = OffsetAt(l, m + 1) + Bytes(l[m + 1])
    BY OffsetSteps
  <2> QED
    BY <2>1, BytesNat
<1>3. T = Nat
  <2>1. T \subseteq Nat
    OBVIOUS
  <2> HIDE DEF T
  <2> QED
    BY <1>1, <1>2, <2>1, Induction
<1>4. ASSUME NEW k \in 1 .. Len(l) + 1 PROVE OffsetAt(l, k) \in Nat
  <2>1. k - 1 \in Nat /\ k - 1 <= Len(l) /\ (k - 1) + 1 = k
    OBVIOUS
  <2>2. k - 1 \in T
    <3> HIDE DEF T
    <3> QED
      BY <1>3, <2>1
  <2> QED
    BY <2>1, <2>2
<1> QED
  BY <1>4

\* What follows a layout does not move its fields.
LEMMA OffsetsOfFirst ==
    ASSUME NEW a \in Seq(Field), NEW b \in Seq(Field)
    PROVE  \A k \in 1 .. Len(a) + 1 : OffsetAt(a \o b, k) = OffsetAt(a, k)
<1> DEFINE T == {m \in Nat : m <= Len(a) => OffsetAt(a \o b, m + 1) = OffsetAt(a, m + 1)}
<1>0. /\ a \o b \in Seq(Field) /\ Len(a \o b) = Len(a) + Len(b)
      /\ \A k \in 1 .. Len(a) : (a \o b)[k] = a[k]
  BY ConcatProperties
<1>1. 0 \in T
  <2>1. OffsetAt(a \o b, 1) = 0 /\ OffsetAt(a, 1) = 0
    BY <1>0, OffsetSteps
  <2> QED
    BY <2>1
<1>2. ASSUME NEW m \in T PROVE m + 1 \in T
  <2> SUFFICES ASSUME m + 1 <= Len(a)
               PROVE  OffsetAt(a \o b, m + 2) = OffsetAt(a, m + 2)
    OBVIOUS
  <2>1. m + 1 \in 1 .. Len(a) /\ m + 1 \in 1 .. Len(a \o b) /\ (m + 1) + 1 = m + 2
    BY <1>0
  <2>2. OffsetAt(a \o b, m + 2) = OffsetAt(a \o b, m + 1) + Bytes((a \o b)[m + 1])
    BY <1>0, <2>1, OffsetSteps
  <2>3. OffsetAt(a, m + 2) = OffsetAt(a, m + 1) + Bytes(a[m + 1])
    BY <2>1, OffsetSteps
  <2> QED
    BY <1>0, <2>1, <2>2, <2>3
<1>3. T = Nat
  <2>1. T \subseteq Nat
    OBVIOUS
  <2> HIDE DEF T
  <2> QED
    BY <1>1, <1>2, <2>1, Induction
<1>4. ASSUME NEW k \in 1 .. Len(a) + 1 PROVE OffsetAt(a \o b, k) = OffsetAt(a, k)
  <2>1. k - 1 \in Nat /\ k - 1 <= Len(a) /\ (k - 1) + 1 = k
    OBVIOUS
  <2>2. k - 1 \in T
    <3> HIDE DEF T
    <3> QED
      BY <1>3, <2>1
  <2> QED
    BY <2>1, <2>2
<1> QED
  BY <1>4

\* A layout that follows another is moved by the size of that one.
LEMMA OffsetsOfSecond ==
    ASSUME NEW a \in Seq(Field), NEW b \in Seq(Field)
    PROVE  \A k \in 1 .. Len(b) + 1 :
              OffsetAt(a \o b, Len(a) + k) = SizeOf(a) + OffsetAt(b, k)
<1> DEFINE T == {m \in Nat : m <= Len(b) =>
                    OffsetAt(a \o b, Len(a) + m + 1) = SizeOf(a) + OffsetAt(b, m + 1)}
<1>0. /\ a \o b \in Seq(Field) /\ Len(a \o b) = Len(a) + Len(b)
      /\ Len(a) \in Nat /\ Len(b) \in Nat
      /\ \A k \in 1 .. Len(b) : (a \o b)[Len(a) + k] = b[k]
  BY ConcatProperties
<1>a. SizeOf(a) \in Nat /\ \A k \in 1 .. Len(b) + 1 : OffsetAt(b, k) \in Nat
  BY <1>0, OffsetsNat DEF SizeOf
<1>1. 0 \in T
  <2>1. OffsetAt(a \o b, Len(a) + 1) = SizeOf(a)
    BY <1>0, OffsetsOfFirst DEF SizeOf
  <2>2. OffsetAt(b, 1) = 0
    BY OffsetSteps
  <2> QED
    BY <1>0, <1>a, <2>1, <2>2
<1>2. ASSUME NEW m \in T PROVE m + 1 \in T
  <2> SUFFICES ASSUME m + 1 <= Len(b)
               PROVE  OffsetAt(a \o b, Len(a) + m + 2) = SizeOf(a) + OffsetAt(b, m + 2)
    BY <1>0
  <2> DEFINE n == Len(a) + m + 1
  <2>1. /\ n \in 1 .. Len(a \o b) /\ n + 1 = Len(a) + m + 2
        /\ m + 1 \in 1 .. Len(b) /\ (m + 1) + 1 = m + 2 /\ n = Len(a) + (m + 1)
    BY <1>0
  <2>2. OffsetAt(a \o b, n + 1) = OffsetAt(a \o b, n) + Bytes((a \o b)[n])
    <3> HIDE DEF n
    <3> QED
      BY <1>0, <2>1, OffsetSteps
  <2>3. OffsetAt(b, m + 2) = OffsetAt(b, m + 1) + Bytes(b[m + 1])
    BY <2>1, OffsetSteps
  <2>4. (a \o b)[n] = b[m + 1]
    BY <1>0, <2>1
  <2>5. OffsetAt(a \o b, n) = SizeOf(a) + OffsetAt(b, m + 1)
    OBVIOUS
  <2>6. Bytes(b[m + 1]) \in Nat /\ OffsetAt(b, m + 1) \in Nat
    BY <1>a, <2>1, BytesNat
  <2> QED
    BY <1>a, <2>1, <2>2, <2>3, <2>4, <2>5, <2>6
<1>3. T = Nat
  <2>1. T \subseteq Nat
    OBVIOUS
  <2> HIDE DEF T
  <2> QED
    BY <1>1, <1>2, <2>1, Induction
<1>4. ASSUME NEW k \in 1 .. Len(b) + 1
      PROVE  OffsetAt(a \o b, Len(a) + k) = SizeOf(a) + OffsetAt(b, k)
  <2>1. k - 1 \in Nat /\ k - 1 <= Len(b) /\ (k - 1) + 1 = k
        /\ Len(a) + (k - 1) + 1 = Len(a) + k
    BY <1>0
  <2>2. k - 1 \in T
    <3> HIDE DEF T
    <3> QED
      BY <1>3, <2>1
  <2> QED
    BY <2>1, <2>2
<1> QED
  BY <1>4

\* The size of two layouts one after the other.
LEMMA SizesAdd ==
    \A a, b \in Seq(Field) :
        a \o b \in Seq(Field) /\ SizeOf(a \o b) = SizeOf(a) + SizeOf(b)
<1> TAKE a, b \in Seq(Field)
<1>1. /\ a \o b \in Seq(Field) /\ Len(a \o b) = Len(a) + Len(b)
      /\ Len(a) \in Nat /\ Len(b) \in Nat
  BY ConcatProperties
<1>2. OffsetAt(a \o b, Len(a) + (Len(b) + 1)) = SizeOf(a) + OffsetAt(b, Len(b) + 1)
  BY <1>1, OffsetsOfSecond
<1>3. Len(a \o b) + 1 = Len(a) + (Len(b) + 1)
  BY <1>1
<1> QED
  BY <1>1, <1>2, <1>3 DEF SizeOf

----------------------------------------------------------------------------
(* The pieces that layouts are built from.                                 *)

LEMMA OneField ==
    \A f \in Field : <<f>> \in Seq(Field) /\ Len(<<f>>) = 1 /\ SizeOf(<<f>>) = Bytes(f)
<1> TAKE f \in Field
<1>1. <<f>> \in Seq(Field) /\ Len(<<f>>) = 1 /\ <<f>>[1] = f
  OBVIOUS
<1>2. OffsetAt(<<f>>, 1 + 1) = OffsetAt(<<f>>, 1) + Bytes(<<f>>[1])
  <2> DEFINE l == <<f>>
  <2>1. l \in Seq(Field) /\ 1 \in 1 .. Len(l)
    BY <1>1
  <2> HIDE DEF l
  <2>2. OffsetAt(l, 1 + 1) = OffsetAt(l, 1) + Bytes(l[1])
    BY <2>1, OffsetSteps
  <2> QED
    BY <2>2 DEF l
<1>3. OffsetAt(<<f>>, 1) = 0 /\ Bytes(f) \in Nat
  BY <1>1, OffsetSteps, BytesNat
<1> QED
  BY <1>1, <1>2, <1>3 DEF SizeOf

\* One more field after a layout.
LEMMA OneMore ==
    \A a \in Seq(Field), f \in Field :
        /\ a \o <<f>> \in Seq(Field)
        /\ Len(a \o <<f>>) = Len(a) + 1
        /\ \A k \in 1 .. Len(a) : (a \o <<f>>)[k] = a[k]
        /\ (a \o <<f>>)[Len(a) + 1] = f
<1> TAKE a \in Seq(Field), f \in Field
<1>1. <<f>> \in Seq(Field) /\ Len(<<f>>) = 1 /\ <<f>>[1] = f /\ Len(a) \in Nat
  OBVIOUS
<1> QED
  BY <1>1, ConcatProperties

LEMMA WordPiece ==
    \A name \in Names : Words(<<name>>) = Regs(name, 1)
<1> TAKE name \in Names
<1> DEFINE f == [name |-> name, n |-> 1, stride |-> 4, used |-> 4, upto |-> 0]
<1>1. Regs(name, 1) = <<f>>
  BY DEF Regs, Array
<1> HIDE DEF f
<1>2. Words(<<name>>) = [k \in 1 .. 1 |-> Regs(<<name>>[k], 1)[1]]
  BY DEF Words
<1>3. \A k \in 1 .. 1 : k = 1
  OBVIOUS
<1>4. Words(<<name>>) = [k \in 1 .. 1 |-> f]
  BY <1>1, <1>2, <1>3
<1> QED
  BY <1>1, <1>4

----------------------------------------------------------------------------
(* struct vcounters: vcntctrl at 0, vcntrepecr at 4, four bytes of         *)
(* padding, vcntr at 72, vcntrcapt at 328, and 584 bytes in all.           *)

LEMMA VcountersFields ==
    /\ vcounters \in Seq(Field) /\ Len(vcounters) = 5
    /\ vcounters[1] = [name |-> "vcntctrl", n |-> 1, stride |-> 4, used |-> 4, upto |-> 0]
    /\ vcounters[2] = [name |-> "vcntrepecr", n |-> 16, stride |-> 4, used |-> 4, upto |-> 0]
    /\ vcounters[3] = [name |-> "reserved", n |-> 4, stride |-> 1, used |-> 0, upto |-> 72]
    /\ vcounters[4] = [name |-> "vcntr", n |-> 32, stride |-> 8, used |-> 8, upto |-> 0]
    /\ vcounters[5] = [name |-> "vcntrcapt", n |-> 32, stride |-> 8, used |-> 8, upto |-> 0]
<1> DEFINE f1 == [name |-> "vcntctrl", n |-> 1, stride |-> 4, used |-> 4, upto |-> 0]
           f2 == [name |-> "vcntrepecr", n |-> 16, stride |-> 4, used |-> 4, upto |-> 0]
           f3 == [name |-> "reserved", n |-> 4, stride |-> 1, used |-> 0, upto |-> 72]
           f4 == [name |-> "vcntr", n |-> 32, stride |-> 8, used |-> 8, upto |-> 0]
           f5 == [name |-> "vcntrcapt", n |-> 32, stride |-> 8, used |-> 8, upto |-> 0]
<1>1. /\ Regs("vcntctrl", 1) = <<f1>> /\ Regs("vcntrepecr", 16) = <<f2>>
      /\ Array("vcntr", 32, 8, 8) = <<f4>> /\ Array("vcntrcapt", 32, 8, 8) = <<f5>>
  BY DEF Regs, Array
<1>2. Gap(68, 72) = <<f3>>
  BY DEF Gap, Reserved
<1>3. f1 \in Field /\ f2 \in Field /\ f3 \in Field /\ f4 \in Field /\ f5 \in Field
  BY DEF Field, Names, VcounterNames
<1> HIDE DEF f1, f2, f3, f4, f5
<1>4. vcounters = <<f1>> \o <<f2>> \o <<f3>> \o <<f4>> \o <<f5>>
  <2>1. "vcntctrl" \in Names
    BY DEF Names, VcounterNames
  <2>2. Words(<<"vcntctrl">>) = <<f1>>
    BY <1>1, <2>1, WordPiece
  <2> QED
    BY <1>1, <1>2, <2>2 DEF vcounters
<1> DEFINE v2 == <<f1>> \o <<f2>>
           v3 == v2 \o <<f3>>
           v4 == v3 \o <<f4>>
<1>5. <<f1>> \in Seq(Field) /\ Len(<<f1>>) = 1 /\ <<f1>>[1] = f1
  BY <1>3
<1>6. v2 \in Seq(Field) /\ Len(v2) = 2 /\ v2[1] = f1 /\ v2[2] = f2
  BY <1>3, <1>5, OneMore
<1> HIDE DEF v2
<1>7. v3 \in Seq(Field) /\ Len(v3) = 3 /\ v3[1] = f1 /\ v3[2] = f2 /\ v3[3] = f3
  <2>1. v3 \in Seq(Field) /\ Len(v3) = Len(v2) + 1 /\ v3[Len(v2) + 1] = f3
        /\ \A k \in 1 .. Len(v2) : v3[k] = v2[k]
    BY <1>3, <1>6, OneMore
  <2> HIDE DEF v3
  <2> QED
    BY <1>6, <2>1
<1> HIDE DEF v3
<1>8. /\ v4 \in Seq(Field) /\ Len(v4) = 4
      /\ v4[1] = f1 /\ v4[2] = f2 /\ v4[3] = f3 /\ v4[4] = f4
  <2>1. v4 \in Seq(Field) /\ Len(v4) = Len(v3) + 1 /\ v4[Len(v3) + 1] = f4
        /\ \A k \in 1 .. Len(v3) : v4[k] = v3[k]
    BY <1>3, <1>7, OneMore
  <2> HIDE DEF v4
  <2> QED
    BY <1>7, <2>1
<1>9. vcounters = v4 \o <<f5>>
  BY <1>4 DEF v2, v3
<1> HIDE DEF v4
<1>10. /\ vcounters \in Seq(Field) /\ Len(vcounters) = 5
       /\ vcounters[1] = f1 /\ vcounters[2] = f2 /\ vcounters[3] = f3
       /\ vcounters[4] = f4 /\ vcounters[5] = f5
  <2>1. /\ vcounters \in Seq(Field)
        /\ Len(vcounters) = Len(v4) + 1 /\ vcounters[Len(v4) + 1] = f5
        /\ \A k \in 1 .. Len(v4) : vcounters[k] = v4[k]
    BY <1>3, <1>8, <1>9, OneMore
  <2> QED
    BY <1>8, <2>1
<1> QED
  BY <1>10 DEF f1, f2, f3, f4, f5

LEMMA VcountersOffsets ==
    /\ OffsetAt(vcounters, 1) = 0 /\ OffsetAt(vcounters, 2) = 4
    /\ OffsetAt(vcounters, 3) = 68 /\ OffsetAt(vcounters, 4) = 72
    /\ OffsetAt(vcounters, 5) = 328 /\ SizeOf(vcounters) = 584
<1>1. \A k \in 1 .. 5 :
         OffsetAt(vcounters, k + 1) = OffsetAt(vcounters, k) + Bytes(vcounters[k])
  BY VcountersFields, OffsetSteps
<1>2. OffsetAt(vcounters, 1) = 0
  BY VcountersFields, OffsetSteps
<1>3. /\ Bytes(vcounters[1]) = 4 /\ Bytes(vcounters[2]) = 64 /\ Bytes(vcounters[3]) = 4
      /\ Bytes(vcounters[4]) = 256 /\ Bytes(vcounters[5]) = 256
  BY VcountersFields DEF Bytes
<1>4. OffsetAt(vcounters, 1 + 1) = 4
  BY <1>1, <1>2, <1>3
<1>5. OffsetAt(vcounters, 2 + 1) = 68
  BY <1>1, <1>3, <1>4
<1>6. OffsetAt(vcounters, 3 + 1) = 72
  BY <1>1, <1>3, <1>5
<1>7. OffsetAt(vcounters, 4 + 1) = 328
  BY <1>1, <1>3, <1>6
<1>8. OffsetAt(vcounters, 5 + 1) = 584
  BY <1>1, <1>3, <1>7
<1> QED
  BY <1>2, <1>4, <1>5, <1>6, <1>7, <1>8, VcountersFields DEF SizeOf

\* The fields are found by their names.
LEMMA VcountersNamed ==
    /\ OffsetOf(vcounters, "vcntrepecr") = 4
    /\ OffsetOf(vcounters, "vcntr") = 72
    /\ OffsetOf(vcounters, "vcntrcapt") = 328
<1>1. DOMAIN vcounters = 1 .. 5
  BY VcountersFields
<1>2. IndexOf(vcounters, "vcntrepecr") = 2
  BY <1>1, VcountersFields DEF IndexOf
<1>3. IndexOf(vcounters, "vcntr") = 4
  BY <1>1, VcountersFields DEF IndexOf
<1>4. IndexOf(vcounters, "vcntrcapt") = 5
  BY <1>1, VcountersFields DEF IndexOf
<1> QED
  BY <1>2, <1>3, <1>4, VcountersOffsets DEF OffsetOf

----------------------------------------------------------------------------
(* The registers of a field.                                               *)

ElementWords(at, words) == {at + 4 * w : w \in 0 .. words - 1}

Span(p) == {p.at + i * p.stride + 4 * w : i \in 0 .. p.n - 1, w \in 0 .. (p.used \div 4) - 1}

\* The shapes of the arrays: a word, a word and a gap, three words and a gap.
Shaped(stride, used) ==
    \/ stride = 4 /\ used = 4
    \/ stride = 8 /\ used = 4
    \/ stride = 16 /\ used = 12

\* A set of n offsets, all of them before an address.
Counted(S, n, end) ==
    S \subseteq Nat /\ IsFiniteSet(S) /\ Cardinality(S) = n /\ \A x \in S : x < end

LEMMA OneWord ==
    \A S : \A n, at, end \in Nat :
        Counted(S, n, at) /\ at < end => Counted(S \union {at}, n + 1, end)
<1> SUFFICES ASSUME NEW S, NEW n \in Nat, NEW at \in Nat, NEW end \in Nat,
                    Counted(S, n, at), at < end
             PROVE  Counted(S \union {at}, n + 1, end)
  OBVIOUS
<1>1. S \subseteq Nat /\ IsFiniteSet(S) /\ Cardinality(S) = n /\ \A x \in S : x < at
  BY DEF Counted
<1>2. at \notin S
  BY <1>1
<1>3. IsFiniteSet(S \union {at}) /\ Cardinality(S \union {at}) = n + 1
  BY <1>1, <1>2, FS_AddElement
<1>4. S \union {at} \subseteq Nat /\ \A x \in S \union {at} : x < end
  BY <1>1
<1> QED
  BY <1>3, <1>4 DEF Counted

\* An element after everything else adds its words.
LEMMA OneElement ==
    \A S : \A n, at, end \in Nat, words \in {1, 3} :
        Counted(S, n, at) /\ at + 4 * words <= end
            => Counted(S \union ElementWords(at, words), n + words, end)
<1> SUFFICES ASSUME NEW S, NEW n \in Nat, NEW at \in Nat, NEW end \in Nat,
                    NEW words \in {1, 3}, Counted(S, n, at), at + 4 * words <= end
             PROVE  Counted(S \union ElementWords(at, words), n + words, end)
  OBVIOUS
<1>1. CASE words = 1
  <2>1. ElementWords(at, words) = {at}
    <3>1. 0 .. words - 1 = {0} /\ at + 4 * 0 = at
      BY <1>1
    <3> QED
      BY <3>1 DEF ElementWords
  <2> QED
    BY <1>1, <2>1, OneWord
<1>2. CASE words = 3
  <2> DEFINE T == S \union {at}
             U == T \union {at + 4}
             V == U \union {at + 8}
  <2>n. /\ n + 1 \in Nat /\ (n + 1) + 1 \in Nat
        /\ at + 4 \in Nat /\ at + 8 \in Nat /\ at < at + 4 /\ at + 4 < at + 8 /\ at + 8 < end
    BY <1>2
  <2>1. Counted(T, n + 1, at + 4)
    BY <2>n, OneWord
  <2>2. S \union ElementWords(at, words) = V
    <3>1. ElementWords(at, words) = {at, at + 4, at + 8}
      <4>1. /\ 0 .. words - 1 = {0, 1, 2}
            /\ at + 4 * 0 = at /\ at + 4 * 1 = at + 4 /\ at + 4 * 2 = at + 8
        BY <1>2
      <4> QED
        BY <4>1 DEF ElementWords
    <3> QED
      BY <3>1
  <2> HIDE DEF T
  <2>3. Counted(U, (n + 1) + 1, at + 8)
    BY <2>n, <2>1, OneWord
  <2> HIDE DEF U
  <2>4. Counted(V, ((n + 1) + 1) + 1, end)
    BY <2>n, <2>3, OneWord
  <2>5. ((n + 1) + 1) + 1 = n + words
    BY <1>2
  <2> HIDE DEF V
  <2> QED
    BY <2>2, <2>4, <2>5
<1> QED
  BY <1>1, <1>2

\* An array after everything else adds the words of its elements.
LEMMA OneSpan ==
    \A S : \A n, at, m \in Nat : \A stride, used :
        Counted(S, n, at) /\ Shaped(stride, used)
            => Counted(S \union Span(ArrayAt(at, m, stride, used)),
                       n + m * (used \div 4), at + m * stride)
<1> SUFFICES ASSUME NEW S, NEW n \in Nat, NEW at \in Nat, NEW stride, NEW used,
                    Counted(S, n, at), Shaped(stride, used)
             PROVE  \A m \in Nat :
                       Counted(S \union Span(ArrayAt(at, m, stride, used)),
                               n + m * (used \div 4), at + m * stride)
  OBVIOUS
<1> DEFINE words == used \div 4
           All(m) == S \union {at + i * stride + 4 * w : i \in 0 .. m - 1, w \in 0 .. words - 1}
           T == {m \in Nat : Counted(All(m), n + m * words, at + m * stride)}
<1>0. words \in {1, 3} /\ stride \in {4, 8, 16} /\ 4 * words <= stride
  BY DEF Shaped
<1>a. \A m : All(m) = S \union Span(ArrayAt(at, m, stride, used))
  BY DEF Span, ArrayAt
<1> HIDE DEF words
<1>1. 0 \in T
  <2>1. All(0) = S
    OBVIOUS
  <2>2. n + 0 * words = n /\ at + 0 * stride = at
    BY <1>0
  <2> HIDE DEF All
  <2> QED
    BY <2>1, <2>2
<1>2. ASSUME NEW m \in T PROVE m + 1 \in T
  <2> DEFINE from == at + m * stride
             so == n + m * words
  <2>1. m \in Nat /\ Counted(All(m), so, from)
    OBVIOUS
  <2>2. /\ from \in Nat /\ from + stride = at + (m + 1) * stride
        /\ so \in Nat /\ so + words = n + (m + 1) * words
    BY <1>0, <2>1
  <2>3. All(m + 1) = All(m) \union ElementWords(from, words)
    <3>1. \A x : x \in All(m + 1) => x \in All(m) \union ElementWords(from, words)
      <4> SUFFICES ASSUME NEW i \in 0 .. m, NEW w \in 0 .. words - 1
                   PROVE  at + i * stride + 4 * w \in All(m) \union ElementWords(from, words)
        BY <2>1
      <4>1. CASE i = m
        BY <4>1 DEF ElementWords
      <4>2. CASE i \in 0 .. m - 1
        BY <4>2
      <4> QED
        BY <2>1, <4>1, <4>2
    <3>2. All(m) \subseteq All(m + 1)
      <4>1. 0 .. m - 1 \subseteq 0 .. (m + 1) - 1
        BY <2>1
      <4> QED
        BY <4>1
    <3>3. ElementWords(from, words) \subseteq All(m + 1)
      <4>1. m \in 0 .. (m + 1) - 1
        BY <2>1
      <4> QED
        BY <4>1 DEF ElementWords
    <3> QED
      BY <3>1, <3>2, <3>3
  <2> HIDE DEF from, so, All
  <2>4. Counted(All(m) \union ElementWords(from, words), so + words, from + stride)
    <3>1. from + stride \in Nat /\ from + 4 * words <= from + stride
      BY <1>0, <2>2
    <3> QED
      BY <1>0, <2>1, <2>2, <3>1, OneElement
  <2>5. Counted(All(m + 1), n + (m + 1) * words, at + (m + 1) * stride)
    BY <2>2, <2>3, <2>4
  <2> QED
    BY <2>1, <2>5
<1>3. T = Nat
  <2>1. T \subseteq Nat
    OBVIOUS
  <2> HIDE DEF T
  <2> QED
    BY <1>1, <1>2, <2>1, Induction
<1>4. ASSUME NEW m \in Nat PROVE Counted(All(m), n + m * words, at + m * stride)
  <2> HIDE DEF All
  <2>1. m \in T
    <3> HIDE DEF T
    <3> QED
      BY <1>3
  <2> QED
    BY <2>1
<1> HIDE DEF All
<1> QED
  BY <1>a, <1>4 DEF words
----------------------------------------------------------------------------
(* A walk through a layout, field by field.                                *)

PlaceOf(f, at) == ArrayAt(at, f.n, f.stride, f.used)

\* A plan says where each register is: its field is at that place, and a gap
\* ends where its second bound says.
Fits(f, at, plan) ==
    IF f.name = "reserved" THEN f.used = 0 /\ at + Bytes(f) = f.upto
    ELSE /\ f.upto = 0 /\ Shaped(f.stride, f.used)
         /\ f.name \in DOMAIN plan /\ plan[f.name] = PlaceOf(f, at)

NamesIn(part) == {part[k].name : k \in 1 .. Len(part)} \ {"reserved"}

\* What is known of the part of a layout that has been walked through: its
\* size, that it goes by the plan, its names and the number of its registers.
Walked(part, size, seen, count, plan) ==
    /\ part \in Seq(Field) /\ SizeOf(part) = size /\ DOMAIN plan \subseteq Names
    /\ size \in Nat /\ count \in Nat
    /\ \A k \in 1 .. Len(part) : Fits(part[k], OffsetAt(part, k), plan)
    /\ NamesIn(part) = seen
    /\ Counted(RegistersOf(part), count, size)

LEMMA RegistersAre ==
    \A l \in Seq(Field) :
        RegistersOf(l) = UNION {Span(PlaceOf(l[k], OffsetAt(l, k))) : k \in 1 .. Len(l)}
<1> TAKE l \in Seq(Field)
<1>1. DOMAIN l = 1 .. Len(l)
  OBVIOUS
<1> QED
  BY <1>1 DEF RegistersOf, Span, PlaceOf, ArrayAt

LEMMA NextField ==
    \A part, seen, plan : \A size, count \in Nat, f \in Field :
        Walked(part, size, seen, count, plan) /\ Fits(f, size, plan)
            => Walked(part \o <<f>>, size + Bytes(f), seen \union ({f.name} \ {"reserved"}),
                      count + IF f.name = "reserved" THEN 0 ELSE f.n * (f.used \div 4), plan)
<1> SUFFICES ASSUME NEW part, NEW seen, NEW plan, NEW size \in Nat, NEW count \in Nat,
                    NEW f \in Field, Walked(part, size, seen, count, plan), Fits(f, size, plan)
             PROVE  Walked(part \o <<f>>, size + Bytes(f),
                           seen \union ({f.name} \ {"reserved"}),
                           count + IF f.name = "reserved" THEN 0 ELSE f.n * (f.used \div 4), plan)
  OBVIOUS
<1> DEFINE l == part \o <<f>>
           m == Len(part)
<1>1. /\ part \in Seq(Field) /\ SizeOf(part) = size /\ m \in Nat
      /\ \A k \in 1 .. m : Fits(part[k], OffsetAt(part, k), plan)
      /\ NamesIn(part) = seen /\ DOMAIN plan \subseteq Names
      /\ Counted(RegistersOf(part), count, size)
  BY DEF Walked
<1>2. /\ l \in Seq(Field) /\ Len(l) = m + 1 /\ l[m + 1] = f
      /\ \A k \in 1 .. m : l[k] = part[k]
  BY <1>1, OneMore
<1>3. /\ \A k \in 1 .. m + 1 : OffsetAt(l, k) = OffsetAt(part, k)
      /\ OffsetAt(l, m + 1) = size
      /\ SizeOf(l) = size + Bytes(f)
  <2>1. <<f>> \in Seq(Field) /\ SizeOf(<<f>>) = Bytes(f)
    BY OneField
  <2>2. SizeOf(l) = SizeOf(part) + SizeOf(<<f>>)
    BY <1>1, <2>1, SizesAdd
  <2>3. \A k \in 1 .. m + 1 : OffsetAt(l, k) = OffsetAt(part, k)
    BY <1>1, <2>1, OffsetsOfFirst
  <2>4. m + 1 \in 1 .. m + 1
    BY <1>1
  <2>5. OffsetAt(part, m + 1) = size
    BY <1>1 DEF SizeOf
  <2> HIDE DEF l
  <2> QED
    BY <1>1, <2>1, <2>2, <2>3, <2>4, <2>5
<1> HIDE DEF l
<1>4. \A k \in 1 .. Len(l) : Fits(l[k], OffsetAt(l, k), plan)
  <2> TAKE k \in 1 .. Len(l)
  <2>1. CASE k = m + 1
    BY <1>2, <1>3, <2>1
  <2>2. CASE k \in 1 .. m
    <3>1. k \in 1 .. m + 1
      BY <1>1, <2>2
    <3> QED
      BY <1>1, <1>2, <1>3, <2>2, <3>1
  <2> QED
    BY <1>1, <1>2, <2>1, <2>2
<1>5. NamesIn(l) = seen \union ({f.name} \ {"reserved"})
  <2>1. {l[k].name : k \in 1 .. Len(l)} = {part[k].name : k \in 1 .. m} \union {f.name}
    <3>1. \A k \in 1 .. Len(l) : k = m + 1 \/ k \in 1 .. m
      BY <1>1, <1>2
    <3>2. \A k \in 1 .. m : k \in 1 .. Len(l)
      BY <1>1, <1>2
    <3>3. m + 1 \in 1 .. Len(l)
      BY <1>1, <1>2
    <3> QED
      BY <1>2, <3>1, <3>2, <3>3
  <2> QED
    BY <1>1, <2>1 DEF NamesIn
<1>6. RegistersOf(l) = RegistersOf(part) \union Span(PlaceOf(f, size))
  <2> DEFINE S(k) == Span(PlaceOf(part[k], OffsetAt(part, k)))
             R(k) == Span(PlaceOf(l[k], OffsetAt(l, k)))
  <2>1. RegistersOf(l) = UNION {R(k) : k \in 1 .. m + 1}
    BY <1>2, RegistersAre
  <2>2. RegistersOf(part) = UNION {S(k) : k \in 1 .. m}
    BY <1>1, RegistersAre
  <2>3. \A k \in 1 .. m : k \in 1 .. m + 1 /\ R(k) = S(k)
    <3> TAKE k \in 1 .. m
    <3>1. k \in 1 .. m + 1
      BY <1>1
    <3>2. l[k] = part[k] /\ OffsetAt(l, k) = OffsetAt(part, k)
      BY <1>2, <1>3, <3>1
    <3> QED
      BY <3>1, <3>2
  <2>4. R(m + 1) = Span(PlaceOf(f, size))
    BY <1>2, <1>3
  <2>5. \A k \in 1 .. m + 1 : k = m + 1 \/ k \in 1 .. m
    BY <1>1
  <2>6. m + 1 \in 1 .. m + 1
    BY <1>1
  <2> HIDE DEF S, R
  <2> QED
    BY <2>1, <2>2, <2>3, <2>4, <2>5, <2>6
<1>7. f.n \in Nat /\ f.stride \in Nat /\ f.used \in Nat /\ Bytes(f) = f.n * f.stride
  BY DEF Field, Bytes
<1>n. size + Bytes(f) \in Nat /\ count + f.n * (f.used \div 4) \in Nat /\ count + 0 \in Nat
  <2>1. f.used \div 4 \in Nat
    BY <1>7
  <2>2. f.n * (f.used \div 4) \in Nat
    BY <1>7, <2>1
  <2> QED
    BY <2>2, BytesNat
<1>8. CASE f.name = "reserved"
  <2>1. f.used = 0
    BY <1>8 DEF Fits
  <2>2. Span(PlaceOf(f, size)) = {}
    <3>1. 0 .. (0 \div 4) - 1 = {}
      OBVIOUS
    <3> QED
      BY <2>1, <3>1 DEF Span, PlaceOf, ArrayAt
  <2>3. Counted(RegistersOf(l), count + 0, size + Bytes(f))
    <3>1. Bytes(f) \in Nat
      BY BytesNat
    <3>2. \A x \in Nat : x < size => x < size + Bytes(f)
      BY <3>1
    <3> QED
      BY <1>1, <1>6, <2>2, <3>2 DEF Counted
  <2> QED
    BY <1>1, <1>2, <1>3, <1>4, <1>5, <1>8, <1>n, <2>3 DEF Walked, l
<1>9. CASE f.name # "reserved"
  <2>1. Shaped(f.stride, f.used)
    BY <1>9 DEF Fits
  <2>2. Counted(RegistersOf(l), count + f.n * (f.used \div 4), size + Bytes(f))
    <3>1. Counted(RegistersOf(part) \union Span(ArrayAt(size, f.n, f.stride, f.used)),
                  count + f.n * (f.used \div 4), size + f.n * f.stride)
      BY <1>1, <1>7, <2>1, OneSpan
    <3> QED
      BY <1>6, <1>7, <3>1 DEF PlaceOf
  <2> QED
    BY <1>1, <1>2, <1>3, <1>4, <1>5, <1>9, <1>n, <2>2 DEF Walked, l
<1> QED
  BY <1>8, <1>9

\* Before the first field.
LEMMA NoField ==
    ASSUME NEW plan, DOMAIN plan \subseteq Names
    PROVE  Walked(<<>>, 0, {}, 0, plan)
<1>1. << >> \in Seq(Field) /\ Len(<< >>) = 0
  OBVIOUS
<1>2. SizeOf(<< >>) = 0 /\ RegistersOf(<< >>) = {}
  <2> DEFINE none == << >>
  <2>1. none \in Seq(Field) /\ Len(none) = 0
    BY <1>1
  <2> HIDE DEF none
  <2>2. SizeOf(none) = 0
    <3>1. OffsetAt(none, 1) = 0
      BY <2>1, OffsetSteps
    <3>2. Len(none) + 1 = 1
      BY <2>1
    <3> QED
      BY <3>1, <3>2 DEF SizeOf
  <2>3. RegistersOf(none) = {}
    <3>1. 1 .. Len(none) = {}
      BY <2>1
    <3>2. RegistersOf(none)
             = UNION {Span(PlaceOf(none[k], OffsetAt(none, k))) : k \in 1 .. Len(none)}
      BY <2>1, RegistersAre
    <3> QED
      BY <3>1, <3>2
  <2> QED
    BY <2>2, <2>3 DEF none
<1>4. Counted({}, 0, 0)
  BY FS_EmptySet DEF Counted
<1>5. NamesIn(<< >>) = {}
  BY <1>1 DEF NamesIn
<1>6. \A k \in 1 .. Len(<< >>) : Fits(<< >>[k], OffsetAt(<< >>, k), plan)
  BY <1>1
<1> QED
  BY <1>1, <1>2, <1>4, <1>5, <1>6 DEF Walked

\* A gap from one address to another.
Closes(gap, from, to) ==
    from \in Nat /\ to \in Nat /\ to - from \in Nat /\ gap = Reserved(to - from, to)

LEMMA NextGap ==
    \A part, size, seen, count, plan, gap, to :
        Walked(part, size, seen, count, plan) /\ Closes(gap, size, to)
            => Walked(part \o gap, to, seen, count, plan)
<1> SUFFICES ASSUME NEW part, NEW size, NEW seen, NEW count, NEW plan, NEW gap, NEW to,
                    Walked(part, size, seen, count, plan), Closes(gap, size, to)
             PROVE  Walked(part \o gap, to, seen, count, plan)
  OBVIOUS
<1> DEFINE bytes == to - size
           f == [name |-> "reserved", n |-> bytes, stride |-> 1, used |-> 0, upto |-> to]
<1>0. size \in Nat /\ count \in Nat
  BY DEF Walked
<1>1. /\ bytes \in Nat /\ to \in Nat /\ size + bytes = to
      /\ gap = Reserved(bytes, to)
  BY DEF Closes
<1> HIDE DEF bytes
<1>2. f \in Field /\ f.name = "reserved"
  BY <1>1 DEF Field, Names
<1>3. gap = <<f>> /\ Bytes(f) = bytes
  BY <1>1 DEF Reserved, Bytes
<1>4. Fits(f, size, plan)
  BY <1>1, <1>3 DEF Fits
<1> HIDE DEF f
<1>5. Walked(part \o <<f>>, size + Bytes(f), seen \union ({f.name} \ {"reserved"}),
             count + IF f.name = "reserved" THEN 0 ELSE f.n * (f.used \div 4), plan)
  BY <1>0, <1>2, <1>4, NextField
<1>6. seen \union ({f.name} \ {"reserved"}) = seen
      /\ count + (IF f.name = "reserved" THEN 0 ELSE f.n * (f.used \div 4)) = count
  BY <1>0, <1>2
<1> QED
  BY <1>1, <1>3, <1>5, <1>6

\* An array of registers from one address to another, and how many they are.
ArrayFits(name, n, stride, used, from, to, regs, plan) ==
    /\ from \in Nat /\ n \in Nat /\ Shaped(stride, used)
    /\ name # "reserved" /\ name \in DOMAIN plan
    /\ plan[name] = ArrayAt(from, n, stride, used)
    /\ to = from + n * stride /\ regs = n * (used \div 4)

LEMMA NextArray ==
    \A part, size, seen, count, plan, name, n, stride, used, to, regs :
        /\ Walked(part, size, seen, count, plan)
        /\ ArrayFits(name, n, stride, used, size, to, regs, plan)
        => Walked(part \o Array(name, n, stride, used), to, seen \union {name},
                  count + regs, plan)
<1> SUFFICES ASSUME NEW part, NEW size, NEW seen, NEW count, NEW plan, NEW name, NEW n,
                    NEW stride, NEW used, NEW to, NEW regs,
                    Walked(part, size, seen, count, plan),
                    ArrayFits(name, n, stride, used, size, to, regs, plan)
             PROVE  Walked(part \o Array(name, n, stride, used), to, seen \union {name},
                           count + regs, plan)
  OBVIOUS
<1> DEFINE f == [name |-> name, n |-> n, stride |-> stride, used |-> used, upto |-> 0]
<1>1. /\ size \in Nat /\ count \in Nat /\ name \in Names /\ n \in Nat
      /\ stride \in Nat /\ used \in Nat /\ name # "reserved"
      /\ to = size + n * stride /\ regs = n * (used \div 4)
  BY DEF Walked, ArrayFits, Shaped
<1>2. f \in Field
  BY <1>1 DEF Field
<1>3. Array(name, n, stride, used) = <<f>> /\ Bytes(f) = n * stride
  BY DEF Array, Bytes
<1>4. f.name = name /\ f.n = n /\ f.used = used
  OBVIOUS
<1>5. Fits(f, size, plan)
  BY <1>1 DEF Fits, PlaceOf, ArrayFits
<1> HIDE DEF f
<1>6. Walked(part \o <<f>>, size + Bytes(f), seen \union ({f.name} \ {"reserved"}),
             count + IF f.name = "reserved" THEN 0 ELSE f.n * (f.used \div 4), plan)
  BY <1>1, <1>2, <1>5, NextField
<1>7. seen \union ({f.name} \ {"reserved"}) = seen \union {name}
      /\ count + (IF f.name = "reserved" THEN 0 ELSE f.n * (f.used \div 4)) = count + regs
  BY <1>1, <1>4
<1> QED
  BY <1>1, <1>3, <1>6, <1>7

\* An array of words.
RegsFit(name, n, from, to, plan) ==
    /\ from \in Nat /\ n \in Nat
    /\ name # "reserved" /\ name \in DOMAIN plan
    /\ plan[name] = WordsAt(from, n) /\ to = from + 4 * n

LEMMA NextRegs ==
    \A part, size, seen, count, plan, name, n, to :
        /\ Walked(part, size, seen, count, plan)
        /\ RegsFit(name, n, size, to, plan)
        => Walked(part \o Regs(name, n), to, seen \union {name}, count + n, plan)
<1> SUFFICES ASSUME NEW part, NEW size, NEW seen, NEW count, NEW plan, NEW name, NEW n, NEW to,
                    Walked(part, size, seen, count, plan), RegsFit(name, n, size, to, plan)
             PROVE  Walked(part \o Regs(name, n), to, seen \union {name}, count + n, plan)
  OBVIOUS
<1>1. n \in Nat /\ size \in Nat /\ n * 4 = 4 * n /\ n * (4 \div 4) = n
  BY DEF RegsFit
<1>2. ArrayFits(name, n, 4, 4, size, to, n, plan)
  BY <1>1 DEF ArrayFits, RegsFit, WordsAt, Shaped
<1>3. Walked(part \o Array(name, n, 4, 4), to, seen \union {name}, count + n, plan)
  BY <1>2, NextArray
<1> QED
  BY <1>3 DEF Regs

\* n words from one address to another, and the set of their names.
WordsFit(names, n, from, to, spelled, plan) ==
    /\ from \in Nat /\ n \in Nat /\ to = from + 4 * n /\ DOMAIN names = 1 .. n
    /\ \A k \in 1 .. n : /\ names[k] # "reserved" /\ names[k] \in DOMAIN plan
                         /\ plan[names[k]] = Word(from + 4 * (k - 1))
    /\ spelled = {names[k] : k \in 1 .. n}

LEMMA NextWords ==
    \A part, size, seen, count, plan, names, n, to, spelled :
        /\ Walked(part, size, seen, count, plan)
        /\ WordsFit(names, n, size, to, spelled, plan)
        => Walked(part \o Words(names), to, seen \union spelled, count + n, plan)
<1> SUFFICES ASSUME NEW part, NEW size, NEW seen, NEW count, NEW plan, NEW names, NEW n,
                    NEW to, NEW spelled,
                    Walked(part, size, seen, count, plan),
                    WordsFit(names, n, size, to, spelled, plan)
             PROVE  Walked(part \o Words(names), to, seen \union spelled, count + n, plan)
  OBVIOUS
<1>0. /\ n \in Nat /\ DOMAIN names = 1 .. n /\ DOMAIN plan \subseteq Names
      /\ \A k \in 1 .. n : /\ names[k] # "reserved" /\ names[k] \in DOMAIN plan
                           /\ plan[names[k]] = Word(size + 4 * (k - 1))
      /\ spelled = {names[k] : k \in 1 .. n}
      /\ size \in Nat /\ count \in Nat
  BY DEF WordsFit, Walked
<1>t. to = size + 4 * n
  BY DEF WordsFit
<1> DEFINE reg(k) == [name |-> names[k], n |-> 1, stride |-> 4, used |-> 4, upto |-> 0]
           first(m) == [k \in 1 .. m |-> reg(k)]
           known(m) == {names[k] : k \in 1 .. m}
           T == {m \in Nat : m <= n =>
                   Walked(part \o first(m), size + 4 * m, seen \union known(m), count + m, plan)}
<1>1. \A k \in 1 .. n : reg(k) \in Field /\ Regs(names[k], 1)[1] = reg(k)
  BY <1>0 DEF Field, Regs, Array
<1>2. \A m \in Nat : m <= n => first(m) \in Seq(Field) /\ Len(first(m)) = m
  <2> TAKE m \in Nat
  <2> HAVE m <= n
  <2>1. \A k \in 1 .. m : reg(k) \in Field
    BY <1>1, <1>0
  <2> HIDE DEF reg
  <2> QED
    BY <2>1
<1>3. Words(names) = first(n)
  <2>1. Words(names) = [k \in 1 .. n |-> Regs(names[k], 1)[1]]
    BY <1>0 DEF Words
  <2> HIDE DEF reg
  <2> QED
    BY <1>1, <2>1
<1>p. part \in Seq(Field)
  BY DEF Walked
<1>4. 0 \in T
  <2>1. part \o << >> = part
    BY <1>p, ConcatEmptySeq
  <2>2. first(0) = << >>
    <3> HIDE DEF reg
    <3> QED
      OBVIOUS
  <2>3. known(0) = {} /\ size + 4 * 0 = size /\ count + 0 = count
    BY <1>0
  <2> HIDE DEF first, known
  <2>4. Walked(part \o first(0), size + 4 * 0, seen \union known(0), count + 0, plan)
    BY <2>1, <2>2, <2>3
  <2> QED
    BY <2>4
<1>5. ASSUME NEW m \in T PROVE m + 1 \in T
  <2> SUFFICES ASSUME m + 1 <= n
               PROVE  Walked(part \o first(m + 1), size + 4 * (m + 1),
                             seen \union known(m + 1), count + (m + 1), plan)
    OBVIOUS
  <2> DEFINE f == reg(m + 1)
             s == size + 4 * m
             c == count + m
             l == part \o first(m)
             K == seen \union known(m)
  <2>1. m \in Nat /\ m <= n /\ m + 1 \in 1 .. n /\ s \in Nat /\ c \in Nat
    BY <1>0
  <2>2. Walked(l, s, K, c, plan)
    BY <2>1
  <2>3. first(m + 1) = first(m) \o <<f>>
    <3> DEFINE a == first(m)
               b == first(m + 1)
    <3>1. a \in Seq(Field) /\ Len(a) = m /\ b \in Seq(Field) /\ Len(b) = m + 1 /\ f \in Field
      BY <1>0, <1>1, <1>2, <2>1
    <3>2. \A k \in 1 .. m : b[k] = a[k]
      <4> HIDE DEF reg
      <4> QED
        BY <2>1
    <3>3. b[m + 1] = f
      <4> HIDE DEF reg
      <4> QED
        BY <2>1
    <3> HIDE DEF a, b, f
    <3> DEFINE d == a \o <<f>>
    <3>4. /\ d \in Seq(Field) /\ Len(d) = m + 1 /\ d[m + 1] = f
          /\ \A k \in 1 .. m : d[k] = a[k]
      BY <3>1, OneMore
    <3> HIDE DEF d
    <3>5. \A k \in 1 .. Len(b) : b[k] = d[k]
      <4>1. \A k \in 1 .. Len(b) : k = m + 1 \/ k \in 1 .. m
        BY <2>1, <3>1
      <4> QED
        BY <3>2, <3>3, <3>4, <4>1
    <3>6. b = d
      BY <3>1, <3>4, <3>5, SeqEqual
    <3> QED
      BY <3>6 DEF a, b, d
  <2>4. part \o first(m + 1) = l \o <<f>>
    <3>1. first(m) \in Seq(Field) /\ f \in Field
      BY <1>0, <1>1, <1>2, <2>1
    <3> HIDE DEF first, f
    <3>2. <<f>> \in Seq(Field)
      BY <3>1
    <3>3. (part \o first(m)) \o <<f>> = part \o (first(m) \o <<f>>)
      BY <1>p, <3>1, <3>2, ConcatAssociative
    <3> QED
      BY <2>3, <3>3
  <2>5. /\ f \in Field /\ Bytes(f) = 4 /\ f.n * (f.used \div 4) = 1
        /\ f.name = names[m + 1] /\ f.name # "reserved"
    BY <1>0, <1>1, <2>1 DEF Bytes
  <2>6. Fits(f, s, plan)
    <3>1. plan[names[m + 1]] = Word(size + 4 * ((m + 1) - 1)) /\ names[m + 1] \in DOMAIN plan
      BY <1>0, <2>1
    <3>2. (m + 1) - 1 = m
      BY <2>1
    <3>3. plan[names[m + 1]] = Word(s)
      BY <3>1, <3>2
    <3> QED
      BY <2>5, <3>1, <3>3 DEF Fits, PlaceOf, Word, WordsAt, Shaped
  <2>7. known(m + 1) = known(m) \union {names[m + 1]}
    <3>1. 1 .. m + 1 = (1 .. m) \union {m + 1}
      BY <2>1
    <3> QED
      BY <3>1
  <2>8. s + 4 = size + 4 * (m + 1) /\ c + 1 = count + (m + 1)
    BY <1>0, <2>1
  <2> HIDE DEF f, s, c, l, known, first
  <2>9. Walked(l \o <<f>>, s + Bytes(f), K \union ({f.name} \ {"reserved"}),
               c + IF f.name = "reserved" THEN 0 ELSE f.n * (f.used \div 4), plan)
    <3> HIDE DEF K
    <3> QED
      BY <2>1, <2>2, <2>5, <2>6, NextField
  <2>10. K \union ({f.name} \ {"reserved"}) = seen \union known(m + 1)
    BY <2>5, <2>7
  <2>11. c + (IF f.name = "reserved" THEN 0 ELSE f.n * (f.used \div 4)) = count + (m + 1)
    BY <2>5, <2>8
  <2> QED
    BY <2>4, <2>5, <2>8, <2>9, <2>10, <2>11
<1>6. T = Nat
  <2>1. T \subseteq Nat
    OBVIOUS
  <2> HIDE DEF T
  <2> QED
    BY <1>4, <1>5, <2>1, Induction
<1>7. Walked(part \o first(n), size + 4 * n, seen \union known(n), count + n, plan)
  <2> HIDE DEF first, known
  <2>1. n \in T
    <3> HIDE DEF T
    <3> QED
      BY <1>0, <1>6
  <2> QED
    BY <1>0, <2>1
<1>8. known(n) = spelled
  BY <1>0
<1> HIDE DEF first, known
<1> QED
  BY <1>3, <1>7, <1>8, <1>t

\* The first piece.
LEMMA FirstWords ==
    \A plan, names, n, to, spelled :
        DOMAIN plan \subseteq Names /\ WordsFit(names, n, 0, to, spelled, plan)
            => Walked(Words(names), to, spelled, n, plan)
<1> SUFFICES ASSUME NEW plan, NEW names, NEW n, NEW to, NEW spelled,
                    DOMAIN plan \subseteq Names, WordsFit(names, n, 0, to, spelled, plan)
             PROVE  Walked(Words(names), to, spelled, n, plan)
  OBVIOUS
<1> DEFINE none == << >>
<1>1. Walked(none, 0, {}, 0, plan)
  BY NoField
<1>2. Walked(none \o Words(names), to, {} \union spelled, 0 + n, plan)
  <2> HIDE DEF none
  <2> QED
    BY <1>1, NextWords
<1>3. n \in Nat /\ DOMAIN names = 1 .. n
  BY DEF WordsFit
<1>4. none \o Words(names) = Words(names)
  <2>1. Words(names) = [k \in 1 .. n |-> Regs(names[k], 1)[1]]
    BY <1>3 DEF Words
  <2>2. Words(names) \in Seq({Regs(names[k], 1)[1] : k \in 1 .. n})
    BY <1>3, <2>1
  <2> QED
    BY <2>2, ConcatEmptySeq
<1>5. 0 + n = n /\ {} \union spelled = spelled
  BY <1>3
<1> QED
  BY <1>2, <1>4, <1>5

LEMMA FirstGap ==
    \A plan, gap, to :
        DOMAIN plan \subseteq Names /\ Closes(gap, 0, to) => Walked(gap, to, {}, 0, plan)
<1> SUFFICES ASSUME NEW plan, NEW gap, NEW to, DOMAIN plan \subseteq Names, Closes(gap, 0, to)
             PROVE  Walked(gap, to, {}, 0, plan)
  OBVIOUS
<1> DEFINE none == << >>
<1>1. Walked(none, 0, {}, 0, plan)
  BY NoField
<1>2. Walked(none \o gap, to, {}, 0, plan)
  <2> HIDE DEF none
  <2> QED
    BY <1>1, NextGap
<1>3. none \o gap = gap
  <2> DEFINE f == [name |-> "reserved", n |-> to - 0, stride |-> 1, used |-> 0, upto |-> to]
  <2>1. gap = <<f>>
    BY DEF Closes, Reserved
  <2> HIDE DEF f
  <2>2. gap \in Seq({f})
    BY <2>1
  <2> QED
    BY <2>2, ConcatEmptySeq
<1> QED
  BY <1>2, <1>3

----------------------------------------------------------------------------
(* What a walk through a whole layout says.                                *)

\* Every gap ends where its second bound says.
LEMMA WalkedGaps ==
    \A l, size, seen, count, plan :
        Walked(l, size, seen, count, plan) => GapsFit(l) /\ SizeOf(l) = size
<1> SUFFICES ASSUME NEW l, NEW size, NEW seen, NEW count, NEW plan,
                    Walked(l, size, seen, count, plan)
             PROVE  GapsFit(l) /\ SizeOf(l) = size
  OBVIOUS
<1>1. /\ l \in Seq(Field) /\ SizeOf(l) = size
      /\ \A k \in 1 .. Len(l) : Fits(l[k], OffsetAt(l, k), plan)
  BY DEF Walked
<1>2. DOMAIN l = 1 .. Len(l)
  BY <1>1
<1>3. ASSUME NEW k \in 1 .. Len(l), l[k].upto # 0
      PROVE  OffsetAt(l, k + 1) = l[k].upto
  <2>1. OffsetAt(l, k) + Bytes(l[k]) = l[k].upto
    BY <1>1, <1>3 DEF Fits
  <2>2. OffsetAt(l, k + 1) = OffsetAt(l, k) + Bytes(l[k])
    BY <1>1, OffsetSteps
  <2> QED
    BY <2>1, <2>2
<1> QED
  BY <1>1, <1>2, <1>3 DEF GapsFit

\* The registers of the fields that have names in a set.
Planned(seen, plan) == UNION {Span(plan[name]) : name \in seen}

\* The registers are those of the plan, and as many as were counted.
LEMMA WalkedRegisters ==
    \A l, size, seen, count, plan :
        Walked(l, size, seen, count, plan)
            => /\ RegistersOf(l) = Planned(seen, plan)
               /\ Counted(Planned(seen, plan), count, size)
<1> SUFFICES ASSUME NEW l, NEW size, NEW seen, NEW count, NEW plan,
                    Walked(l, size, seen, count, plan)
             PROVE  /\ RegistersOf(l) = Planned(seen, plan)
                    /\ Counted(Planned(seen, plan), count, size)
  OBVIOUS
<1> DEFINE at(k) == PlaceOf(l[k], OffsetAt(l, k))
<1>1. /\ l \in Seq(Field) /\ seen = {l[k].name : k \in 1 .. Len(l)} \ {"reserved"}
      /\ \A k \in 1 .. Len(l) : Fits(l[k], OffsetAt(l, k), plan)
      /\ Counted(RegistersOf(l), count, size)
  BY DEF Walked, NamesIn
<1>2. RegistersOf(l) = UNION {Span(at(k)) : k \in 1 .. Len(l)}
  BY <1>1, RegistersAre
<1>3. ASSUME NEW k \in 1 .. Len(l)
      PROVE  IF l[k].name = "reserved" THEN Span(at(k)) = {}
             ELSE l[k].name \in seen /\ plan[l[k].name] = at(k)
  <2>1. CASE l[k].name = "reserved"
    <3>1. l[k].used = 0 /\ 0 .. (0 \div 4) - 1 = {}
      BY <1>1, <2>1 DEF Fits
    <3> QED
      BY <2>1, <3>1 DEF Span, PlaceOf, ArrayAt
  <2>2. CASE l[k].name # "reserved"
    BY <1>1, <2>2 DEF Fits
  <2> QED
    BY <2>1, <2>2
<1>4. \A name \in seen : \E k \in 1 .. Len(l) : name = l[k].name /\ name # "reserved"
  BY <1>1
<1> HIDE DEF at
<1>5. RegistersOf(l) \subseteq Planned(seen, plan)
  <2> SUFFICES ASSUME NEW x \in RegistersOf(l) PROVE x \in Planned(seen, plan)
    OBVIOUS
  <2>1. PICK k \in 1 .. Len(l) : x \in Span(at(k))
    BY <1>2
  <2>2. l[k].name \in seen /\ x \in Span(plan[l[k].name])
    BY <1>3, <2>1
  <2> QED
    BY <2>2 DEF Planned
<1>6. Planned(seen, plan) \subseteq RegistersOf(l)
  <2> SUFFICES ASSUME NEW name \in seen, NEW x \in Span(plan[name]) PROVE x \in RegistersOf(l)
    BY DEF Planned
  <2>1. PICK k \in 1 .. Len(l) : name = l[k].name /\ name # "reserved"
    BY <1>4
  <2>2. x \in Span(at(k))
    BY <1>3, <2>1
  <2> QED
    BY <1>2, <2>2
<1>7. RegistersOf(l) = Planned(seen, plan)
  BY <1>5, <1>6
<1>8. Counted(RegistersOf(l), count, size)
  BY DEF Walked
<1> QED
  BY <1>7, <1>8

\* A field is found by its name, at the place that the plan gives it.
AtPlace(l, name, place) ==
    /\ OffsetOf(l, name) = place.at /\ OffsetAt(l, IndexOf(l, name)) = place.at
    /\ l[IndexOf(l, name)].stride = place.stride
    /\ place.at \in Nat /\ place.n \in Nat /\ Shaped(place.stride, place.used)

LEMMA WalkedPlaces ==
    \A l, size, seen, count, plan :
        Walked(l, size, seen, count, plan)
            => \A name \in seen : AtPlace(l, name, plan[name])
<1> SUFFICES ASSUME NEW l, NEW size, NEW seen, NEW count, NEW plan,
                    Walked(l, size, seen, count, plan), NEW name \in seen
             PROVE  AtPlace(l, name, plan[name])
  OBVIOUS
<1> DEFINE n == IndexOf(l, name)
<1>1. /\ l \in Seq(Field) /\ seen = {l[k].name : k \in 1 .. Len(l)} \ {"reserved"}
      /\ \A k \in 1 .. Len(l) : Fits(l[k], OffsetAt(l, k), plan)
  BY DEF Walked, NamesIn
<1>2. DOMAIN l = 1 .. Len(l) /\ Len(l) \in Nat
  BY <1>1
<1>3. name # "reserved" /\ \E k \in DOMAIN l : l[k].name = name
  BY <1>1, <1>2
<1>4. n \in 1 .. Len(l) /\ l[n].name = name
  <2>1. n \in DOMAIN l /\ l[n].name = name
    BY <1>3 DEF IndexOf
  <2> QED
    BY <1>2, <2>1
<1> HIDE DEF n
<1>5. /\ plan[name] = PlaceOf(l[n], OffsetAt(l, n)) /\ Shaped(l[n].stride, l[n].used)
  BY <1>1, <1>3, <1>4 DEF Fits
<1>6. l[n] \in Field /\ n \in 1 .. Len(l) + 1
  BY <1>1, <1>2, <1>4
<1>7. l[n].n \in Nat /\ OffsetAt(l, n) \in Nat
  <2>1. OffsetAt(l, n) \in Nat
    BY <1>1, <1>6, OffsetsNat
  <2>2. l[n].n \in Nat
    BY <1>6 DEF Field
  <2> QED
    BY <2>1, <2>2
<1> QED
  BY <1>5, <1>7 DEF n, AtPlace, PlaceOf, ArrayAt, OffsetOf

\* The end may be taken further on.
LEMMA CountedFurther ==
    \A S : \A n, end, further \in Nat :
        Counted(S, n, end) /\ end <= further => Counted(S, n, further)
<1> SUFFICES ASSUME NEW S, NEW n \in Nat, NEW end \in Nat, NEW further \in Nat,
                    Counted(S, n, end), end <= further
             PROVE  Counted(S, n, further)
  OBVIOUS
<1> QED
  BY DEF Counted

----------------------------------------------------------------------------
(* The layouts go by their plans.                                          *)

\* 331 registers of the EPU, in one page.
LEMMA EpuWalk == Walked(epu_v2, \h1000, DOMAIN EpuPlan, 331, EpuPlan)
<1> DEFINE e1 == Words(<<"epgcr">>) \o Gap(\h004, \h010)
           s1 == {"epgcr"}
           c1 == 1
           e2 == e1 \o Words(<<"epesr">>) \o Gap(\h014, \h020)
           s2 == s1 \union {"epesr"}
           c2 == c1 + 1
           e3 == e2 \o Regs("episr", 4) \o Words(<<"epctrisr">>) \o Gap(\h034, \h040)
           s3 == s2 \union {"episr"} \union {"epctrisr"}
           c3 == c2 + 4 + 1
           e4 == e3 \o Words(<<"epctrcsr">>) \o Gap(\h044, \h050)
           s4 == s3 \union {"epctrcsr"}
           c4 == c3 + 1
           e5 == e4 \o Regs("epevtcr", 10) \o Gap(\h078, \h090)
           s5 == s4 \union {"epevtcr"}
           c5 == c4 + 10
           e6 == e5 \o Words(<<"epxtrigcr">>) \o Gap(\h094, \h100)
           s6 == s5 \union {"epxtrigcr"}
           c6 == c5 + 1
           e7 == e6 \o Regs("epimcr", 32) \o Gap(\h180, \h200)
           s7 == s6 \union {"epimcr"}
           c7 == c6 + 32
           e8 == e7 \o Array("scu_ctrl", 16, 8, 4) \o Gap(\h280, \h300)
           s8 == s7 \union {"scu_ctrl"}
           c8 == c7 + 16
           e9 == e8 \o Regs("epecr", 16) \o Gap(\h340, \h400)
           s9 == s8 \union {"epecr"}
           c9 == c8 + 16
           e10 == e9 \o Regs("epacr", 16) \o Gap(\h440, \h480)
           s10 == s9 \union {"epacr"}
           c10 == c9 + 16
           e11 == e10 \o Regs("epgacr", 16) \o Gap(\h4c0, \h540)
           s11 == s10 \union {"epgacr"}
           c11 == c10 + 16
           e12 == e11 \o Regs("epctrgcr", 4) \o Gap(\h550, \h580)
           s12 == s11 \union {"epctrgcr"}
           c12 == c11 + 4
           e13 == e12 \o Regs("epegcr", 3) \o Gap(\h58c, \h600)
           s13 == s12 \union {"epegcr"}
           c13 == c12 + 3
           e14 == e13 \o Words(<<"epfsmsr0">>) \o Gap(\h604, \h610)
           s14 == s13 \union {"epfsmsr0"}
           c14 == c13 + 1
           e15 == e14 \o Regs("epfsmcmpr", 8) \o Regs("epfsmcr", 8) \o Gap(\h650, \h800)
           s15 == s14 \union {"epfsmcmpr"} \union {"epfsmcr"}
           c15 == c14 + 8 + 8
           e16 == e15 \o Regs("epccr", 32) \o Gap(\h880, \h900)
           s16 == s15 \union {"epccr"}
           c16 == c15 + 32
           e17 == e16 \o Regs("epcmpr", 32) \o Gap(\h980, \ha00)
           s17 == s16 \union {"epcmpr"}
           c17 == c16 + 32
           e18 == e17 \o Regs("epctr", 32) \o Gap(\ha80, \hb00)
           s18 == s17 \union {"epctr"}
           c18 == c17 + 32
           e19 == e18 \o Regs("epcapr", 32) \o Gap(\hb80, \hf00)
           s19 == s18 \union {"epcapr"}
           c19 == c18 + 32
           e20 == e19 \o Regs("eprsrv", 60) \o Regs("ephsr", 4)
           s20 == s19 \union {"eprsrv"} \union {"ephsr"}
           c20 == c19 + 60 + 4
<1>a. epu_v2 = e20
  BY DEF epu_v2
<1>b. s20 = DOMAIN EpuPlan
  BY DEF EpuPlan
<1>c. c20 = 331
  OBVIOUS
<1>0. DOMAIN EpuPlan \subseteq Names
  BY DEF Names
<1>1. Walked(e1, \h010, s1, c1, EpuPlan)
  <2>1. WordsFit(<<"epgcr">>, 1, \h000, \h004, {"epgcr"}, EpuPlan)
    BY DEF WordsFit, EpuPlan
  <2>2. Walked(Words(<<"epgcr">>), \h004, {"epgcr"}, 1, EpuPlan)
    BY <1>0, <2>1, FirstWords
  <2>3. Closes(Gap(\h004, \h010), \h004, \h010)
    BY DEF Closes, Gap
  <2> QED
    BY <2>2, <2>3, NextGap
<1> HIDE DEF e1, s1, c1
<1>2. Walked(e2, \h020, s2, c2, EpuPlan)
  <2>1. WordsFit(<<"epesr">>, 1, \h010, \h014, {"epesr"}, EpuPlan)
    BY DEF WordsFit, EpuPlan
  <2>2. Walked(e1 \o Words(<<"epesr">>), \h014, s1 \union {"epesr"}, c1 + 1, EpuPlan)
    BY <1>1, <2>1, NextWords
  <2>3. Closes(Gap(\h014, \h020), \h014, \h020)
    BY DEF Closes, Gap
  <2> QED
    BY <2>2, <2>3, NextGap
<1> HIDE DEF e2, s2, c2
<1>3. Walked(e3, \h040, s3, c3, EpuPlan)
  <2>1. RegsFit("episr", 4, \h020, \h030, EpuPlan)
    BY DEF RegsFit, EpuPlan
  <2>2. Walked(e2 \o Regs("episr", 4), \h030, s2 \union {"episr"}, c2 + 4, EpuPlan)
    BY <1>2, <2>1, NextRegs
  <2>3. WordsFit(<<"epctrisr">>, 1, \h030, \h034, {"epctrisr"}, EpuPlan)
    BY DEF WordsFit, EpuPlan
  <2>4. Walked(e2 \o Regs("episr", 4) \o Words(<<"epctrisr">>), \h034,
             s2 \union {"episr"} \union {"epctrisr"}, c2 + 4 + 1, EpuPlan)
    BY <2>2, <2>3, NextWords
  <2>5. Closes(Gap(\h034, \h040), \h034, \h040)
    BY DEF Closes, Gap
  <2> QED
    BY <2>4, <2>5, NextGap
<1> HIDE DEF e3, s3, c3
<1>4. Walked(e4, \h050, s4, c4, EpuPlan)
  <2>1. WordsFit(<<"epctrcsr">>, 1, \h040, \h044, {"epctrcsr"}, EpuPlan)
    BY DEF WordsFit, EpuPlan
  <2>2. Walked(e3 \o Words(<<"epctrcsr">>), \h044, s3 \union {"epctrcsr"}, c3 + 1, EpuPlan)
    BY <1>3, <2>1, NextWords
  <2>3. Closes(Gap(\h044, \h050), \h044, \h050)
    BY DEF Closes, Gap
  <2> QED
    BY <2>2, <2>3, NextGap
<1> HIDE DEF e4, s4, c4
<1>5. Walked(e5, \h090, s5, c5, EpuPlan)
  <2>1. RegsFit("epevtcr", 10, \h050, \h078, EpuPlan)
    BY DEF RegsFit, EpuPlan
  <2>2. Walked(e4 \o Regs("epevtcr", 10), \h078, s4 \union {"epevtcr"}, c4 + 10, EpuPlan)
    BY <1>4, <2>1, NextRegs
  <2>3. Closes(Gap(\h078, \h090), \h078, \h090)
    BY DEF Closes, Gap
  <2> QED
    BY <2>2, <2>3, NextGap
<1> HIDE DEF e5, s5, c5
<1>6. Walked(e6, \h100, s6, c6, EpuPlan)
  <2>1. WordsFit(<<"epxtrigcr">>, 1, \h090, \h094, {"epxtrigcr"}, EpuPlan)
    BY DEF WordsFit, EpuPlan
  <2>2. Walked(e5 \o Words(<<"epxtrigcr">>), \h094, s5 \union {"epxtrigcr"}, c5 + 1, EpuPlan)
    BY <1>5, <2>1, NextWords
  <2>3. Closes(Gap(\h094, \h100), \h094, \h100)
    BY DEF Closes, Gap
  <2> QED
    BY <2>2, <2>3, NextGap
<1> HIDE DEF e6, s6, c6
<1>7. Walked(e7, \h200, s7, c7, EpuPlan)
  <2>1. RegsFit("epimcr", 32, \h100, \h180, EpuPlan)
    BY DEF RegsFit, EpuPlan
  <2>2. Walked(e6 \o Regs("epimcr", 32), \h180, s6 \union {"epimcr"}, c6 + 32, EpuPlan)
    BY <1>6, <2>1, NextRegs
  <2>3. Closes(Gap(\h180, \h200), \h180, \h200)
    BY DEF Closes, Gap
  <2> QED
    BY <2>2, <2>3, NextGap
<1> HIDE DEF e7, s7, c7
<1>8. Walked(e8, \h300, s8, c8, EpuPlan)
  <2>1. ArrayFits("scu_ctrl", 16, 8, 4, \h200, \h280, 16, EpuPlan)
    BY DEF ArrayFits, Shaped, EpuPlan
  <2>2. Walked(e7 \o Array("scu_ctrl", 16, 8, 4), \h280,
             s7 \union {"scu_ctrl"}, c7 + 16, EpuPlan)
    BY <1>7, <2>1, NextArray
  <2>3. Closes(Gap(\h280, \h300), \h280, \h300)
    BY DEF Closes, Gap
  <2> QED
    BY <2>2, <2>3, NextGap
<1> HIDE DEF e8, s8, c8
<1>9. Walked(e9, \h400, s9, c9, EpuPlan)
  <2>1. RegsFit("epecr", 16, \h300, \h340, EpuPlan)
    BY DEF RegsFit, EpuPlan
  <2>2. Walked(e8 \o Regs("epecr", 16), \h340, s8 \union {"epecr"}, c8 + 16, EpuPlan)
    BY <1>8, <2>1, NextRegs
  <2>3. Closes(Gap(\h340, \h400), \h340, \h400)
    BY DEF Closes, Gap
  <2> QED
    BY <2>2, <2>3, NextGap
<1> HIDE DEF e9, s9, c9
<1>10. Walked(e10, \h480, s10, c10, EpuPlan)
  <2>1. RegsFit("epacr", 16, \h400, \h440, EpuPlan)
    BY DEF RegsFit, EpuPlan
  <2>2. Walked(e9 \o Regs("epacr", 16), \h440, s9 \union {"epacr"}, c9 + 16, EpuPlan)
    BY <1>9, <2>1, NextRegs
  <2>3. Closes(Gap(\h440, \h480), \h440, \h480)
    BY DEF Closes, Gap
  <2> QED
    BY <2>2, <2>3, NextGap
<1> HIDE DEF e10, s10, c10
<1>11. Walked(e11, \h540, s11, c11, EpuPlan)
  <2>1. RegsFit("epgacr", 16, \h480, \h4c0, EpuPlan)
    BY DEF RegsFit, EpuPlan
  <2>2. Walked(e10 \o Regs("epgacr", 16), \h4c0, s10 \union {"epgacr"}, c10 + 16, EpuPlan)
    BY <1>10, <2>1, NextRegs
  <2>3. Closes(Gap(\h4c0, \h540), \h4c0, \h540)
    BY DEF Closes, Gap
  <2> QED
    BY <2>2, <2>3, NextGap
<1> HIDE DEF e11, s11, c11
<1>12. Walked(e12, \h580, s12, c12, EpuPlan)
  <2>1. RegsFit("epctrgcr", 4, \h540, \h550, EpuPlan)
    BY DEF RegsFit, EpuPlan
  <2>2. Walked(e11 \o Regs("epctrgcr", 4), \h550, s11 \union {"epctrgcr"}, c11 + 4, EpuPlan)
    BY <1>11, <2>1, NextRegs
  <2>3. Closes(Gap(\h550, \h580), \h550, \h580)
    BY DEF Closes, Gap
  <2> QED
    BY <2>2, <2>3, NextGap
<1> HIDE DEF e12, s12, c12
<1>13. Walked(e13, \h600, s13, c13, EpuPlan)
  <2>1. RegsFit("epegcr", 3, \h580, \h58c, EpuPlan)
    BY DEF RegsFit, EpuPlan
  <2>2. Walked(e12 \o Regs("epegcr", 3), \h58c, s12 \union {"epegcr"}, c12 + 3, EpuPlan)
    BY <1>12, <2>1, NextRegs
  <2>3. Closes(Gap(\h58c, \h600), \h58c, \h600)
    BY DEF Closes, Gap
  <2> QED
    BY <2>2, <2>3, NextGap
<1> HIDE DEF e13, s13, c13
<1>14. Walked(e14, \h610, s14, c14, EpuPlan)
  <2>1. WordsFit(<<"epfsmsr0">>, 1, \h600, \h604, {"epfsmsr0"}, EpuPlan)
    BY DEF WordsFit, EpuPlan
  <2>2. Walked(e13 \o Words(<<"epfsmsr0">>), \h604, s13 \union {"epfsmsr0"}, c13 + 1, EpuPlan)
    BY <1>13, <2>1, NextWords
  <2>3. Closes(Gap(\h604, \h610), \h604, \h610)
    BY DEF Closes, Gap
  <2> QED
    BY <2>2, <2>3, NextGap
<1> HIDE DEF e14, s14, c14
<1>15. Walked(e15, \h800, s15, c15, EpuPlan)
  <2>1. RegsFit("epfsmcmpr", 8, \h610, \h630, EpuPlan)
    BY DEF RegsFit, EpuPlan
  <2>2. Walked(e14 \o Regs("epfsmcmpr", 8), \h630, s14 \union {"epfsmcmpr"}, c14 + 8, EpuPlan)
    BY <1>14, <2>1, NextRegs
  <2>3. RegsFit("epfsmcr", 8, \h630, \h650, EpuPlan)
    BY DEF RegsFit, EpuPlan
  <2>4. Walked(e14 \o Regs("epfsmcmpr", 8) \o Regs("epfsmcr", 8), \h650,
             s14 \union {"epfsmcmpr"} \union {"epfsmcr"}, c14 + 8 + 8, EpuPlan)
    BY <2>2, <2>3, NextRegs
  <2>5. Closes(Gap(\h650, \h800), \h650, \h800)
    BY DEF Closes, Gap
  <2> QED
    BY <2>4, <2>5, NextGap
<1> HIDE DEF e15, s15, c15
<1>16. Walked(e16, \h900, s16, c16, EpuPlan)
  <2>1. RegsFit("epccr", 32, \h800, \h880, EpuPlan)
    BY DEF RegsFit, EpuPlan
  <2>2. Walked(e15 \o Regs("epccr", 32), \h880, s15 \union {"epccr"}, c15 + 32, EpuPlan)
    BY <1>15, <2>1, NextRegs
  <2>3. Closes(Gap(\h880, \h900), \h880, \h900)
    BY DEF Closes, Gap
  <2> QED
    BY <2>2, <2>3, NextGap
<1> HIDE DEF e16, s16, c16
<1>17. Walked(e17, \ha00, s17, c17, EpuPlan)
  <2>1. RegsFit("epcmpr", 32, \h900, \h980, EpuPlan)
    BY DEF RegsFit, EpuPlan
  <2>2. Walked(e16 \o Regs("epcmpr", 32), \h980, s16 \union {"epcmpr"}, c16 + 32, EpuPlan)
    BY <1>16, <2>1, NextRegs
  <2>3. Closes(Gap(\h980, \ha00), \h980, \ha00)
    BY DEF Closes, Gap
  <2> QED
    BY <2>2, <2>3, NextGap
<1> HIDE DEF e17, s17, c17
<1>18. Walked(e18, \hb00, s18, c18, EpuPlan)
  <2>1. RegsFit("epctr", 32, \ha00, \ha80, EpuPlan)
    BY DEF RegsFit, EpuPlan
  <2>2. Walked(e17 \o Regs("epctr", 32), \ha80, s17 \union {"epctr"}, c17 + 32, EpuPlan)
    BY <1>17, <2>1, NextRegs
  <2>3. Closes(Gap(\ha80, \hb00), \ha80, \hb00)
    BY DEF Closes, Gap
  <2> QED
    BY <2>2, <2>3, NextGap
<1> HIDE DEF e18, s18, c18
<1>19. Walked(e19, \hf00, s19, c19, EpuPlan)
  <2>1. RegsFit("epcapr", 32, \hb00, \hb80, EpuPlan)
    BY DEF RegsFit, EpuPlan
  <2>2. Walked(e18 \o Regs("epcapr", 32), \hb80, s18 \union {"epcapr"}, c18 + 32, EpuPlan)
    BY <1>18, <2>1, NextRegs
  <2>3. Closes(Gap(\hb80, \hf00), \hb80, \hf00)
    BY DEF Closes, Gap
  <2> QED
    BY <2>2, <2>3, NextGap
<1> HIDE DEF e19, s19, c19
<1>20. Walked(e20, \h1000, s20, c20, EpuPlan)
  <2>1. RegsFit("eprsrv", 60, \hf00, \hff0, EpuPlan)
    BY DEF RegsFit, EpuPlan
  <2>2. Walked(e19 \o Regs("eprsrv", 60), \hff0, s19 \union {"eprsrv"}, c19 + 60, EpuPlan)
    BY <1>19, <2>1, NextRegs
  <2>3. RegsFit("ephsr", 4, \hff0, \h1000, EpuPlan)
    BY DEF RegsFit, EpuPlan
  <2> QED
    BY <2>2, <2>3, NextRegs
<1> HIDE DEF e20, s20, c20
<1> QED
  BY <1>20, <1>a, <1>b, <1>c

\* 50 registers of the ETF, and of the ETR.
LEMMA EtfWalk == Walked(etf, \h1000, DOMAIN EtfPlan, 50, EtfPlan)
<1> DEFINE e1 == Gap(\h000, \h004)
           s1 == {}
           c1 == 0
           e2 == e1 \o Words(<<"rsz">>) \o Gap(\h008, \h00c)
           s2 == s1 \union {"rsz"}
           c2 == c1 + 1
           w3 == <<"sts", "rrd", "rrp", "rwp", "trg", "ctl", "rwd", "mode", "lbuflevel",
                      "cbuflevel", "bufwm", "rrphi", "rwphi">>
           t3 == {"sts", "rrd", "rrp", "rwp", "trg", "ctl", "rwd", "mode", "lbuflevel",
                     "cbuflevel", "bufwm", "rrphi", "rwphi"}
           e3 == e2 \o Words(w3) \o Gap(\h040, \h110)
           s3 == s2 \union t3
           c3 == c2 + 13
           e4 == e3 \o Words(<<"axictl">>) \o Gap(\h114, \h118)
           s4 == s3 \union {"axictl"}
           c4 == c3 + 1
           w5 == <<"dbalo", "dbahi">>
           t5 == {"dbalo", "dbahi"}
           e5 == e4 \o Words(w5) \o Gap(\h120, \h300)
           s5 == s4 \union t5
           c5 == c4 + 2
           w6 == <<"ffsr", "ffcr", "pscr">>
           t6 == {"ffsr", "ffcr", "pscr"}
           e6 == e5 \o Words(w6) \o Gap(\h30c, \hed0)
           s6 == s5 \union t6
           c6 == c5 + 3
           w7 == <<"itatbmdata0", "itatbmctr2", "itatbmctr1", "itatbmctr0", "itmiscop0">>
           t7 == {"itatbmdata0", "itatbmctr2", "itatbmctr1", "itatbmctr0", "itmiscop0"}
           e7 == e6 \o Words(w7) \o Gap(\hee4, \hee8)
           s7 == s6 \union t7
           c7 == c6 + 5
           w8 == <<"ittrflin", "itatbdata0", "itatbctr2", "itatbctr1", "itatbctr0">>
           t8 == {"ittrflin", "itatbdata0", "itatbctr2", "itatbctr1", "itatbctr0"}
           e8 == e7 \o Words(w8) \o Gap(\hefc, \hf00)
           s8 == s7 \union t8
           c8 == c7 + 5
           e9 == e8 \o Words(<<"itctrl">>) \o Gap(\hf04, \hfa0)
           s9 == s8 \union {"itctrl"}
           c9 == c8 + 1
           w10 == <<"claimset", "claimclr">>
           t10 == {"claimset", "claimclr"}
           e10 == e9 \o Words(w10) \o Gap(\hfa8, \hfb0)
           s10 == s9 \union t10
           c10 == c9 + 2
           w11 == <<"lar", "lsr", "authstatus">>
           t11 == {"lar", "lsr", "authstatus"}
           e11 == e10 \o Words(w11) \o Gap(\hfbc, \hfc8)
           s11 == s10 \union t11
           c11 == c10 + 3
           w12 == <<"devid", "devtype", "periphid4", "periphid5", "periphid6",
                      "periphid7", "periphid0", "periphid1", "periphid2", "periphid3",
                      "compid0", "compid1", "compid2", "compid3">>
           t12 == {"devid", "devtype", "periphid4", "periphid5", "periphid6", "periphid7",
                     "periphid0", "periphid1", "periphid2", "periphid3", "compid0",
                     "compid1", "compid2", "compid3"}
           e12 == e11 \o Words(w12)
           s12 == s11 \union t12
           c12 == c11 + 14
<1>a. etf = e12
  BY DEF etf
<1>b. s12 = DOMAIN EtfPlan
  BY DEF EtfPlan
<1>c. c12 = 50
  OBVIOUS
<1>0. DOMAIN EtfPlan \subseteq Names
  BY DEF Names
<1>1. Walked(e1, \h004, s1, c1, EtfPlan)
  <2>1. Closes(Gap(\h000, \h004), \h000, \h004)
    BY DEF Closes, Gap
  <2> QED
    BY <1>0, <2>1, FirstGap
<1> HIDE DEF e1, s1, c1
<1>2. Walked(e2, \h00c, s2, c2, EtfPlan)
  <2>1. WordsFit(<<"rsz">>, 1, \h004, \h008, {"rsz"}, EtfPlan)
    BY DEF WordsFit, EtfPlan
  <2>2. Walked(e1 \o Words(<<"rsz">>), \h008, s1 \union {"rsz"}, c1 + 1, EtfPlan)
    BY <1>1, <2>1, NextWords
  <2>3. Closes(Gap(\h008, \h00c), \h008, \h00c)
    BY DEF Closes, Gap
  <2> QED
    BY <2>2, <2>3, NextGap
<1> HIDE DEF e2, s2, c2
<1>3. Walked(e3, \h110, s3, c3, EtfPlan)
  <2>1. WordsFit(w3, 13, \h00c, \h040, t3, EtfPlan)
    BY DEF WordsFit, EtfPlan
  <2>2. Walked(e2 \o Words(w3), \h040, s2 \union t3, c2 + 13, EtfPlan)
    BY <1>2, <2>1, NextWords
  <2>3. Closes(Gap(\h040, \h110), \h040, \h110)
    BY DEF Closes, Gap
  <2> QED
    BY <2>2, <2>3, NextGap
<1> HIDE DEF e3, s3, c3
<1>4. Walked(e4, \h118, s4, c4, EtfPlan)
  <2>1. WordsFit(<<"axictl">>, 1, \h110, \h114, {"axictl"}, EtfPlan)
    BY DEF WordsFit, EtfPlan
  <2>2. Walked(e3 \o Words(<<"axictl">>), \h114, s3 \union {"axictl"}, c3 + 1, EtfPlan)
    BY <1>3, <2>1, NextWords
  <2>3. Closes(Gap(\h114, \h118), \h114, \h118)
    BY DEF Closes, Gap
  <2> QED
    BY <2>2, <2>3, NextGap
<1> HIDE DEF e4, s4, c4
<1>5. Walked(e5, \h300, s5, c5, EtfPlan)
  <2>1. WordsFit(w5, 2, \h118, \h120, t5, EtfPlan)
    BY DEF WordsFit, EtfPlan
  <2>2. Walked(e4 \o Words(w5), \h120, s4 \union t5, c4 + 2, EtfPlan)
    BY <1>4, <2>1, NextWords
  <2>3. Closes(Gap(\h120, \h300), \h120, \h300)
    BY DEF Closes, Gap
  <2> QED
    BY <2>2, <2>3, NextGap
<1> HIDE DEF e5, s5, c5
<1>6. Walked(e6, \hed0, s6, c6, EtfPlan)
  <2>1. WordsFit(w6, 3, \h300, \h30c, t6, EtfPlan)
    BY DEF WordsFit, EtfPlan
  <2>2. Walked(e5 \o Words(w6), \h30c, s5 \union t6, c5 + 3, EtfPlan)
    BY <1>5, <2>1, NextWords
  <2>3. Closes(Gap(\h30c, \hed0), \h30c, \hed0)
    BY DEF Closes, Gap
  <2> QED
    BY <2>2, <2>3, NextGap
<1> HIDE DEF e6, s6, c6
<1>7. Walked(e7, \hee8, s7, c7, EtfPlan)
  <2>1. WordsFit(w7, 5, \hed0, \hee4, t7, EtfPlan)
    BY DEF WordsFit, EtfPlan
  <2>2. Walked(e6 \o Words(w7), \hee4, s6 \union t7, c6 + 5, EtfPlan)
    BY <1>6, <2>1, NextWords
  <2>3. Closes(Gap(\hee4, \hee8), \hee4, \hee8)
    BY DEF Closes, Gap
  <2> QED
    BY <2>2, <2>3, NextGap
<1> HIDE DEF e7, s7, c7
<1>8. Walked(e8, \hf00, s8, c8, EtfPlan)
  <2>1. WordsFit(w8, 5, \hee8, \hefc, t8, EtfPlan)
    BY DEF WordsFit, EtfPlan
  <2>2. Walked(e7 \o Words(w8), \hefc, s7 \union t8, c7 + 5, EtfPlan)
    BY <1>7, <2>1, NextWords
  <2>3. Closes(Gap(\hefc, \hf00), \hefc, \hf00)
    BY DEF Closes, Gap
  <2> QED
    BY <2>2, <2>3, NextGap
<1> HIDE DEF e8, s8, c8
<1>9. Walked(e9, \hfa0, s9, c9, EtfPlan)
  <2>1. WordsFit(<<"itctrl">>, 1, \hf00, \hf04, {"itctrl"}, EtfPlan)
    BY DEF WordsFit, EtfPlan
  <2>2. Walked(e8 \o Words(<<"itctrl">>), \hf04, s8 \union {"itctrl"}, c8 + 1, EtfPlan)
    BY <1>8, <2>1, NextWords
  <2>3. Closes(Gap(\hf04, \hfa0), \hf04, \hfa0)
    BY DEF Closes, Gap
  <2> QED
    BY <2>2, <2>3, NextGap
<1> HIDE DEF e9, s9, c9
<1>10. Walked(e10, \hfb0, s10, c10, EtfPlan)
  <2>1. WordsFit(w10, 2, \hfa0, \hfa8, t10, EtfPlan)
    BY DEF WordsFit, EtfPlan
  <2>2. Walked(e9 \o Words(w10), \hfa8, s9 \union t10, c9 + 2, EtfPlan)
    BY <1>9, <2>1, NextWords
  <2>3. Closes(Gap(\hfa8, \hfb0), \hfa8, \hfb0)
    BY DEF Closes, Gap
  <2> QED
    BY <2>2, <2>3, NextGap
<1> HIDE DEF e10, s10, c10
<1>11. Walked(e11, \hfc8, s11, c11, EtfPlan)
  <2>1. WordsFit(w11, 3, \hfb0, \hfbc, t11, EtfPlan)
    BY DEF WordsFit, EtfPlan
  <2>2. Walked(e10 \o Words(w11), \hfbc, s10 \union t11, c10 + 3, EtfPlan)
    BY <1>10, <2>1, NextWords
  <2>3. Closes(Gap(\hfbc, \hfc8), \hfbc, \hfc8)
    BY DEF Closes, Gap
  <2> QED
    BY <2>2, <2>3, NextGap
<1> HIDE DEF e11, s11, c11
<1>12. Walked(e12, \h1000, s12, c12, EtfPlan)
  <2>1. WordsFit(w12, 14, \hfc8, \h1000, t12, EtfPlan)
    BY DEF WordsFit, EtfPlan
  <2> QED
    BY <1>11, <2>1, NextWords
<1> HIDE DEF e12, s12, c12
<1> QED
  BY <1>12, <1>a, <1>b, <1>c

\* 26 registers of a funnel.
LEMMA FunnelWalk == Walked(funnel, \h1000, DOMAIN FunnelPlan, 26, FunnelPlan)
<1> DEFINE w1 == <<"cr", "pcr">>
           t1 == {"cr", "pcr"}
           e1 == Words(w1) \o FunnelReserved(\h004, \heec)
           s1 == t1
           c1 == 2
           w2 == <<"itatbdata0", "itatbctr2", "itatbctr1", "itatbctr0">>
           t2 == {"itatbdata0", "itatbctr2", "itatbctr1", "itatbctr0"}
           e2 == e1 \o Words(w2) \o FunnelReserved(\hef8, \hf00)
           s2 == s1 \union t2
           c2 == c1 + 4
           e3 == e2 \o Words(<<"imcr">>) \o FunnelReserved(\hf00, \hfa0)
           s3 == s2 \union {"imcr"}
           c3 == c2 + 1
           w4 == <<"ctsr", "ctcr">>
           t4 == {"ctsr", "ctcr"}
           e4 == e3 \o Words(w4) \o FunnelReserved(\hfa4, \hfb0)
           s4 == s3 \union t4
           c4 == c3 + 2
           w5 == <<"lar", "lsr", "asr">>
           t5 == {"lar", "lsr", "asr"}
           e5 == e4 \o Words(w5) \o FunnelReserved(\hfb8, \hfc8)
           s5 == s4 \union t5
           c5 == c4 + 3
           w6 == <<"dir", "dtir", "pidr4", "pidr5", "pidr6", "pidr7", "pidr0", "pidr1",
                      "pidr2", "pidr3">>
           t6 == {"dir", "dtir", "pidr4", "pidr5", "pidr6", "pidr7", "pidr0", "pidr1",
                     "pidr2", "pidr3"}
           e6 == e5 \o Words(w6) \o Regs("cidr", 4)
           s6 == s5 \union t6 \union {"cidr"}
           c6 == c5 + 10 + 4
<1>a. funnel = e6
  BY DEF funnel
<1>b. s6 = DOMAIN FunnelPlan
  BY DEF FunnelPlan
<1>c. c6 = 26
  OBVIOUS
<1>0. DOMAIN FunnelPlan \subseteq Names
  BY DEF Names
<1>1. Walked(e1, \heec, s1, c1, FunnelPlan)
  <2>1. WordsFit(w1, 2, \h000, \h008, t1, FunnelPlan)
    BY DEF WordsFit, FunnelPlan
  <2>2. Walked(Words(w1), \h008, t1, 2, FunnelPlan)
    BY <1>0, <2>1, FirstWords
  <2>3. Closes(FunnelReserved(\h004, \heec), \h008, \heec)
    BY DEF Closes, FunnelReserved
  <2> QED
    BY <2>2, <2>3, NextGap
<1> HIDE DEF e1, s1, c1
<1>2. Walked(e2, \hf00, s2, c2, FunnelPlan)
  <2>1. WordsFit(w2, 4, \heec, \hefc, t2, FunnelPlan)
    BY DEF WordsFit, FunnelPlan
  <2>2. Walked(e1 \o Words(w2), \hefc, s1 \union t2, c1 + 4, FunnelPlan)
    BY <1>1, <2>1, NextWords
  <2>3. Closes(FunnelReserved(\hef8, \hf00), \hefc, \hf00)
    BY DEF Closes, FunnelReserved
  <2> QED
    BY <2>2, <2>3, NextGap
<1> HIDE DEF e2, s2, c2
<1>3. Walked(e3, \hfa0, s3, c3, FunnelPlan)
  <2>1. WordsFit(<<"imcr">>, 1, \hf00, \hf04, {"imcr"}, FunnelPlan)
    BY DEF WordsFit, FunnelPlan
  <2>2. Walked(e2 \o Words(<<"imcr">>), \hf04, s2 \union {"imcr"}, c2 + 1, FunnelPlan)
    BY <1>2, <2>1, NextWords
  <2>3. Closes(FunnelReserved(\hf00, \hfa0), \hf04, \hfa0)
    BY DEF Closes, FunnelReserved
  <2> QED
    BY <2>2, <2>3, NextGap
<1> HIDE DEF e3, s3, c3
<1>4. Walked(e4, \hfb0, s4, c4, FunnelPlan)
  <2>1. WordsFit(w4, 2, \hfa0, \hfa8, t4, FunnelPlan)
    BY DEF WordsFit, FunnelPlan
  <2>2. Walked(e3 \o Words(w4), \hfa8, s3 \union t4, c3 + 2, FunnelPlan)
    BY <1>3, <2>1, NextWords
  <2>3. Closes(FunnelReserved(\hfa4, \hfb0), \hfa8, \hfb0)
    BY DEF Closes, FunnelReserved
  <2> QED
    BY <2>2, <2>3, NextGap
<1> HIDE DEF e4, s4, c4
<1>5. Walked(e5, \hfc8, s5, c5, FunnelPlan)
  <2>1. WordsFit(w5, 3, \hfb0, \hfbc, t5, FunnelPlan)
    BY DEF WordsFit, FunnelPlan
  <2>2. Walked(e4 \o Words(w5), \hfbc, s4 \union t5, c4 + 3, FunnelPlan)
    BY <1>4, <2>1, NextWords
  <2>3. Closes(FunnelReserved(\hfb8, \hfc8), \hfbc, \hfc8)
    BY DEF Closes, FunnelReserved
  <2> QED
    BY <2>2, <2>3, NextGap
<1> HIDE DEF e5, s5, c5
<1>6. Walked(e6, \h1000, s6, c6, FunnelPlan)
  <2>1. WordsFit(w6, 10, \hfc8, \hff0, t6, FunnelPlan)
    BY DEF WordsFit, FunnelPlan
  <2>2. Walked(e5 \o Words(w6), \hff0, s5 \union t6, c5 + 10, FunnelPlan)
    BY <1>5, <2>1, NextWords
  <2>3. RegsFit("cidr", 4, \hff0, \h1000, FunnelPlan)
    BY DEF RegsFit, FunnelPlan
  <2> QED
    BY <2>2, <2>3, NextRegs
<1> HIDE DEF e6, s6, c6
<1> QED
  BY <1>6, <1>a, <1>b, <1>c

\* The registers of the GDI before those of the comparators.
LEMMA GdiBegins ==
    \E part : /\ Walked(part, \h300, DOMAIN GdiPlan \ {"gdgpc"}, 36, GdiPlan)
             /\ gdi = part \o Array("gdgpc", 8, 16, 12)
<1> DEFINE w1 == <<"gdcr", "gdsr">>
           t1 == {"gdcr", "gdsr"}
           e1 == Words(w1) \o GapAfter(\h007, \h0ff)
           s1 == t1
           c1 == 2
           w2 == <<"gdrescr1", "gdrescr2">>
           t2 == {"gdrescr1", "gdrescr2"}
           e2 == e1 \o Words(w2) \o GapAfter(\h107, \h1ff)
           s2 == s1 \union t2
           c2 == c1 + 2
           e3 == e2 \o Regs("gdpescr", 32) \o GapAfter(\h27f, \h2ff)
           s3 == s2 \union {"gdpescr"}
           c3 == c2 + 32
<1>a. gdi = e3 \o Array("gdgpc", 8, 16, 12)
  BY DEF gdi
<1>b. s3 = DOMAIN GdiPlan \ {"gdgpc"}
  BY DEF GdiPlan
<1>c. c3 = 36
  OBVIOUS
<1>0. DOMAIN GdiPlan \subseteq Names
  BY DEF Names
<1>1. Walked(e1, \h100, s1, c1, GdiPlan)
  <2>1. WordsFit(w1, 2, \h000, \h008, t1, GdiPlan)
    BY DEF WordsFit, GdiPlan
  <2>2. Walked(Words(w1), \h008, t1, 2, GdiPlan)
    BY <1>0, <2>1, FirstWords
  <2>3. Closes(GapAfter(\h007, \h0ff), \h008, \h100)
    BY DEF Closes, GapAfter
  <2> QED
    BY <2>2, <2>3, NextGap
<1> HIDE DEF e1, s1, c1
<1>2. Walked(e2, \h200, s2, c2, GdiPlan)
  <2>1. WordsFit(w2, 2, \h100, \h108, t2, GdiPlan)
    BY DEF WordsFit, GdiPlan
  <2>2. Walked(e1 \o Words(w2), \h108, s1 \union t2, c1 + 2, GdiPlan)
    BY <1>1, <2>1, NextWords
  <2>3. Closes(GapAfter(\h107, \h1ff), \h108, \h200)
    BY DEF Closes, GapAfter
  <2> QED
    BY <2>2, <2>3, NextGap
<1> HIDE DEF e2, s2, c2
<1>3. Walked(e3, \h300, s3, c3, GdiPlan)
  <2>1. RegsFit("gdpescr", 32, \h200, \h280, GdiPlan)
    BY DEF RegsFit, GdiPlan
  <2>2. Walked(e2 \o Regs("gdpescr", 32), \h280, s2 \union {"gdpescr"}, c2 + 32, GdiPlan)
    BY <1>2, <2>1, NextRegs
  <2>3. Closes(GapAfter(\h27f, \h2ff), \h280, \h300)
    BY DEF Closes, GapAfter
  <2> QED
    BY <2>2, <2>3, NextGap
<1> HIDE DEF e3, s3, c3
<1> QED
  BY <1>3, <1>a, <1>b, <1>c

\* 60 registers of the GDI.
LEMMA GdiWalk == Walked(gdi, \h380, DOMAIN GdiPlan, 60, GdiPlan)
<1>1. PICK part : /\ Walked(part, \h300, DOMAIN GdiPlan \ {"gdgpc"}, 36, GdiPlan)
                  /\ gdi = part \o Array("gdgpc", 8, 16, 12)
  BY GdiBegins
<1>2. ArrayFits("gdgpc", 8, 16, 12, \h300, \h380, 24, GdiPlan)
  BY DEF ArrayFits, Shaped, GdiPlan
<1> DEFINE D == DOMAIN GdiPlan \ {"gdgpc"}
           c == 36
<1>3. D \union {"gdgpc"} = DOMAIN GdiPlan /\ c + 24 = 60
  BY DEF GdiPlan
<1>4. Walked(part, \h300, D, c, GdiPlan)
  BY <1>1
<1> HIDE DEF D, c
<1>5. Walked(gdi, \h380, D \union {"gdgpc"}, c + 24, GdiPlan)
  BY <1>1, <1>2, <1>4, NextArray
<1> QED
  BY <1>3, <1>5

\* 94 registers of the ETM.
LEMMA EtmWalk == Walked(etm, \h1000, DOMAIN EtmPlan, 94, EtmPlan)
<1> DEFINE w1 == <<"etmcr", "etmccr", "etmtrigger", "etmasicctlr", "etmsr", "etmscr",
                      "etmtsscr", "etmtecr2", "etmteevr", "etmtecr1">>
           t1 == {"etmcr", "etmccr", "etmtrigger", "etmasicctlr", "etmsr", "etmscr",
                     "etmtsscr", "etmtecr2", "etmteevr", "etmtecr1"}
           e1 == Words(w1) \o EtmReserved(\h009, \h00b)
           s1 == t1
           c1 == 10
           w2 == <<"etmfflr", "etmvdevr", "etmvdcr1">>
           t2 == {"etmfflr", "etmvdevr", "etmvdcr1"}
           e2 == e1 \o Words(w2) \o EtmReserved(\h00d, \h00f)
           s2 == s1 \union t2
           c2 == c1 + 3
           e3 == e2 \o Words(<<"etmvdcr3">>) \o Regs("etmacvr", 8) \o EtmReserved(\h017, \h020)
           s3 == s2 \union {"etmvdcr3"} \union {"etmacvr"}
           c3 == c2 + 1 + 8
           e4 == e3 \o Regs("etmactr", 8) \o EtmReserved(\h027, \h030)
           s4 == s3 \union {"etmactr"}
           c4 == c3 + 8
           e5 == e4 \o Words(<<"etmdcvr1">>) \o EtmReserved(\h030, \h032)
           s5 == s4 \union {"etmdcvr1"}
           c5 == c4 + 1
           e6 == e5 \o Words(<<"etmdcvr3">>) \o EtmReserved(\h032, \h040)
           s6 == s5 \union {"etmdcvr3"}
           c6 == c5 + 1
           e7 == e6 \o Words(<<"etmdcmr1">>) \o EtmReserved(\h040, \h042)
           s7 == s6 \union {"etmdcmr1"}
           c7 == c6 + 1
           e8 == e7 \o Words(<<"etmdcmr3">>) \o EtmReserved(\h042, \h050)
           s8 == s7 \union {"etmdcmr3"}
           c8 == c7 + 1
           e9 == e8 \o Regs("etmcntrldvr", 2) \o EtmReserved(\h051, \h054)
           s9 == s8 \union {"etmcntrldvr"}
           c9 == c8 + 2
           e10 == e9 \o Regs("etmcntenr", 2) \o EtmReserved(\h055, \h058)
           s10 == s9 \union {"etmcntenr"}
           c10 == c9 + 2
           e11 == e10 \o Regs("etmcntrldevr", 2) \o EtmReserved(\h059, \h05c)
           s11 == s10 \union {"etmcntrldevr"}
           c11 == c10 + 2
           e12 == e11 \o Regs("etmcntvr", 2) \o EtmReserved(\h05d, \h060)
           s12 == s11 \union {"etmcntvr"}
           c12 == c11 + 2
           e13 == e12 \o Regs("etmsqabevr", 6) \o EtmReserved(\h065, \h067)
           s13 == s12 \union {"etmsqabevr"}
           c13 == c12 + 6
           e14 == e13 \o Words(<<"etmsqr">>) \o Regs("etmextoutevr", 2)
                      \o EtmReserved(\h069, \h06c)
           s14 == s13 \union {"etmsqr"} \union {"etmextoutevr"}
           c14 == c13 + 1 + 2
           e15 == e14 \o Words(<<"etmcidcvr1">>) \o EtmReserved(\h06c, \h06f)
           s15 == s14 \union {"etmcidcvr1"}
           c15 == c14 + 1
           e16 == e15 \o Words(<<"etmcidcmr">>) \o EtmReserved(\h06f, \h078)
           s16 == s15 \union {"etmcidcmr"}
           c16 == c15 + 1
           w17 == <<"etmsyncfr", "etmidr", "etmccer", "etmextinselr">>
           t17 == {"etmsyncfr", "etmidr", "etmccer", "etmextinselr"}
           e17 == e16 \o Words(w17) \o EtmReserved(\h07b, \h07e)
           s17 == s16 \union t17
           c17 == c16 + 4
           w18 == <<"etmtsevr", "etmauxcr", "etmtraceidr">>
           t18 == {"etmtsevr", "etmauxcr", "etmtraceidr"}
           e18 == e17 \o Words(w18) \o EtmReserved(\h080, \h082)
           s18 == s17 \union t18
           c18 == c17 + 3
           e19 == e18 \o Words(<<"etmidr2">>) \o EtmReserved(\h082, \h090)
           s19 == s18 \union {"etmidr2"}
           c19 == c18 + 1
           e20 == e19 \o Words(<<"etmvmidcvr">>) \o EtmReserved(\h090, \h0c0)
           s20 == s19 \union {"etmvmidcvr"}
           c20 == c19 + 1
           w21 == <<"etmoslar", "etmoslsr", "etmossrr">>
           t21 == {"etmoslar", "etmoslsr", "etmossrr"}
           e21 == e20 \o Words(w21) \o EtmReserved(\h0c2, \h0c4)
           s21 == s20 \union t21
           c21 == c20 + 3
           w22 == <<"etmpdcr", "etmpdsr">>
           t22 == {"etmpdcr", "etmpdsr"}
           e22 == e21 \o Words(w22) \o EtmReserved(\h0c5, \h3b7)
           s22 == s21 \union t22
           c22 == c21 + 2
           w23 == <<"itmiscout", "itmiscin">>
           t23 == {"itmiscout", "itmiscin"}
           e23 == e22 \o Words(w23) \o EtmReserved(\h3b8, \h3ba)
           s23 == s22 \union t23
           c23 == c22 + 2
           w24 == <<"ittriggerreq", "itatbdata0", "itatbctr2", "itatbctr1", "itatbctr0">>
           t24 == {"ittriggerreq", "itatbdata0", "itatbctr2", "itatbctr1", "itatbctr0"}
           e24 == e23 \o Words(w24) \o EtmReserved(\h3be, \h3c0)
           s24 == s23 \union t24
           c24 == c23 + 5
           e25 == e24 \o Words(<<"etmitctrl">>) \o EtmReserved(\h3c0, \h3e8)
           s25 == s24 \union {"etmitctrl"}
           c25 == c24 + 1
           w26 == <<"etmclaimset", "etmclaimclr">>
           t26 == {"etmclaimset", "etmclaimclr"}
           e26 == e25 \o Words(w26) \o EtmReserved(\h3e9, \h3ec)
           s26 == s25 \union t26
           c26 == c25 + 2
           w27 == <<"etmlar", "etmlsr", "etmauthstatus">>
           t27 == {"etmlar", "etmlsr", "etmauthstatus"}
           e27 == e26 \o Words(w27) \o EtmReserved(\h3ee, \h3f2)
           s27 == s26 \union t27
           c27 == c26 + 3
           w28 == <<"etmdevid", "etmdevtype", "etmpidr4", "etmpidr5", "etmpidr6",
                      "etmpidr7", "etmpidr0", "etmpidr1", "etmpidr2", "etmpidr3">>
           t28 == {"etmdevid", "etmdevtype", "etmpidr4", "etmpidr5", "etmpidr6",
                     "etmpidr7", "etmpidr0", "etmpidr1", "etmpidr2", "etmpidr3"}
           e28 == e27 \o Words(w28) \o Regs("etmcidr", 4)
           s28 == s27 \union t28 \union {"etmcidr"}
           c28 == c27 + 10 + 4
<1>a. etm = e28
  BY DEF etm
<1>b. s28 = DOMAIN EtmPlan
  BY DEF EtmPlan
<1>c. c28 = 94
  OBVIOUS
<1>0. DOMAIN EtmPlan \subseteq Names
  BY DEF Names
<1>1. Walked(e1, \h02c, s1, c1, EtmPlan)
  <2>1. WordsFit(w1, 10, \h000, \h028, t1, EtmPlan)
    BY DEF WordsFit, EtmPlan
  <2>2. Walked(Words(w1), \h028, t1, 10, EtmPlan)
    BY <1>0, <2>1, FirstWords
  <2>3. Closes(EtmReserved(\h009, \h00b), \h028, \h02c)
    BY DEF Closes, EtmReserved
  <2> QED
    BY <2>2, <2>3, NextGap
<1> HIDE DEF e1, s1, c1
<1>2. Walked(e2, \h03c, s2, c2, EtmPlan)
  <2>1. WordsFit(w2, 3, \h02c, \h038, t2, EtmPlan)
    BY DEF WordsFit, EtmPlan
  <2>2. Walked(e1 \o Words(w2), \h038, s1 \union t2, c1 + 3, EtmPlan)
    BY <1>1, <2>1, NextWords
  <2>3. Closes(EtmReserved(\h00d, \h00f), \h038, \h03c)
    BY DEF Closes, EtmReserved
  <2> QED
    BY <2>2, <2>3, NextGap
<1> HIDE DEF e2, s2, c2
<1>3. Walked(e3, \h080, s3, c3, EtmPlan)
  <2>1. WordsFit(<<"etmvdcr3">>, 1, \h03c, \h040, {"etmvdcr3"}, EtmPlan)
    BY DEF WordsFit, EtmPlan
  <2>2. Walked(e2 \o Words(<<"etmvdcr3">>), \h040, s2 \union {"etmvdcr3"}, c2 + 1, EtmPlan)
    BY <1>2, <2>1, NextWords
  <2>3. RegsFit("etmacvr", 8, \h040, \h060, EtmPlan)
    BY DEF RegsFit, EtmPlan
  <2>4. Walked(e2 \o Words(<<"etmvdcr3">>) \o Regs("etmacvr", 8), \h060,
             s2 \union {"etmvdcr3"} \union {"etmacvr"}, c2 + 1 + 8, EtmPlan)
    BY <2>2, <2>3, NextRegs
  <2>5. Closes(EtmReserved(\h017, \h020), \h060, \h080)
    BY DEF Closes, EtmReserved
  <2> QED
    BY <2>4, <2>5, NextGap
<1> HIDE DEF e3, s3, c3
<1>4. Walked(e4, \h0c0, s4, c4, EtmPlan)
  <2>1. RegsFit("etmactr", 8, \h080, \h0a0, EtmPlan)
    BY DEF RegsFit, EtmPlan
  <2>2. Walked(e3 \o Regs("etmactr", 8), \h0a0, s3 \union {"etmactr"}, c3 + 8, EtmPlan)
    BY <1>3, <2>1, NextRegs
  <2>3. Closes(EtmReserved(\h027, \h030), \h0a0, \h0c0)
    BY DEF Closes, EtmReserved
  <2> QED
    BY <2>2, <2>3, NextGap
<1> HIDE DEF e4, s4, c4
<1>5. Walked(e5, \h0c8, s5, c5, EtmPlan)
  <2>1. WordsFit(<<"etmdcvr1">>, 1, \h0c0, \h0c4, {"etmdcvr1"}, EtmPlan)
    BY DEF WordsFit, EtmPlan
  <2>2. Walked(e4 \o Words(<<"etmdcvr1">>), \h0c4, s4 \union {"etmdcvr1"}, c4 + 1, EtmPlan)
    BY <1>4, <2>1, NextWords
  <2>3. Closes(EtmReserved(\h030, \h032), \h0c4, \h0c8)
    BY DEF Closes, EtmReserved
  <2> QED
    BY <2>2, <2>3, NextGap
<1> HIDE DEF e5, s5, c5
<1>6. Walked(e6, \h100, s6, c6, EtmPlan)
  <2>1. WordsFit(<<"etmdcvr3">>, 1, \h0c8, \h0cc, {"etmdcvr3"}, EtmPlan)
    BY DEF WordsFit, EtmPlan
  <2>2. Walked(e5 \o Words(<<"etmdcvr3">>), \h0cc, s5 \union {"etmdcvr3"}, c5 + 1, EtmPlan)
    BY <1>5, <2>1, NextWords
  <2>3. Closes(EtmReserved(\h032, \h040), \h0cc, \h100)
    BY DEF Closes, EtmReserved
  <2> QED
    BY <2>2, <2>3, NextGap
<1> HIDE DEF e6, s6, c6
<1>7. Walked(e7, \h108, s7, c7, EtmPlan)
  <2>1. WordsFit(<<"etmdcmr1">>, 1, \h100, \h104, {"etmdcmr1"}, EtmPlan)
    BY DEF WordsFit, EtmPlan
  <2>2. Walked(e6 \o Words(<<"etmdcmr1">>), \h104, s6 \union {"etmdcmr1"}, c6 + 1, EtmPlan)
    BY <1>6, <2>1, NextWords
  <2>3. Closes(EtmReserved(\h040, \h042), \h104, \h108)
    BY DEF Closes, EtmReserved
  <2> QED
    BY <2>2, <2>3, NextGap
<1> HIDE DEF e7, s7, c7
<1>8. Walked(e8, \h140, s8, c8, EtmPlan)
  <2>1. WordsFit(<<"etmdcmr3">>, 1, \h108, \h10c, {"etmdcmr3"}, EtmPlan)
    BY DEF WordsFit, EtmPlan
  <2>2. Walked(e7 \o Words(<<"etmdcmr3">>), \h10c, s7 \union {"etmdcmr3"}, c7 + 1, EtmPlan)
    BY <1>7, <2>1, NextWords
  <2>3. Closes(EtmReserved(\h042, \h050), \h10c, \h140)
    BY DEF Closes, EtmReserved
  <2> QED
    BY <2>2, <2>3, NextGap
<1> HIDE DEF e8, s8, c8
<1>9. Walked(e9, \h150, s9, c9, EtmPlan)
  <2>1. RegsFit("etmcntrldvr", 2, \h140, \h148, EtmPlan)
    BY DEF RegsFit, EtmPlan
  <2>2. Walked(e8 \o Regs("etmcntrldvr", 2), \h148,
             s8 \union {"etmcntrldvr"}, c8 + 2, EtmPlan)
    BY <1>8, <2>1, NextRegs
  <2>3. Closes(EtmReserved(\h051, \h054), \h148, \h150)
    BY DEF Closes, EtmReserved
  <2> QED
    BY <2>2, <2>3, NextGap
<1> HIDE DEF e9, s9, c9
<1>10. Walked(e10, \h160, s10, c10, EtmPlan)
  <2>1. RegsFit("etmcntenr", 2, \h150, \h158, EtmPlan)
    BY DEF RegsFit, EtmPlan
  <2>2. Walked(e9 \o Regs("etmcntenr", 2), \h158, s9 \union {"etmcntenr"}, c9 + 2, EtmPlan)
    BY <1>9, <2>1, NextRegs
  <2>3. Closes(EtmReserved(\h055, \h058), \h158, \h160)
    BY DEF Closes, EtmReserved
  <2> QED
    BY <2>2, <2>3, NextGap
<1> HIDE DEF e10, s10, c10
<1>11. Walked(e11, \h170, s11, c11, EtmPlan)
  <2>1. RegsFit("etmcntrldevr", 2, \h160, \h168, EtmPlan)
    BY DEF RegsFit, EtmPlan
  <2>2. Walked(e10 \o Regs("etmcntrldevr", 2), \h168,
             s10 \union {"etmcntrldevr"}, c10 + 2, EtmPlan)
    BY <1>10, <2>1, NextRegs
  <2>3. Closes(EtmReserved(\h059, \h05c), \h168, \h170)
    BY DEF Closes, EtmReserved
  <2> QED
    BY <2>2, <2>3, NextGap
<1> HIDE DEF e11, s11, c11
<1>12. Walked(e12, \h180, s12, c12, EtmPlan)
  <2>1. RegsFit("etmcntvr", 2, \h170, \h178, EtmPlan)
    BY DEF RegsFit, EtmPlan
  <2>2. Walked(e11 \o Regs("etmcntvr", 2), \h178, s11 \union {"etmcntvr"}, c11 + 2, EtmPlan)
    BY <1>11, <2>1, NextRegs
  <2>3. Closes(EtmReserved(\h05d, \h060), \h178, \h180)
    BY DEF Closes, EtmReserved
  <2> QED
    BY <2>2, <2>3, NextGap
<1> HIDE DEF e12, s12, c12
<1>13. Walked(e13, \h19c, s13, c13, EtmPlan)
  <2>1. RegsFit("etmsqabevr", 6, \h180, \h198, EtmPlan)
    BY DEF RegsFit, EtmPlan
  <2>2. Walked(e12 \o Regs("etmsqabevr", 6), \h198,
             s12 \union {"etmsqabevr"}, c12 + 6, EtmPlan)
    BY <1>12, <2>1, NextRegs
  <2>3. Closes(EtmReserved(\h065, \h067), \h198, \h19c)
    BY DEF Closes, EtmReserved
  <2> QED
    BY <2>2, <2>3, NextGap
<1> HIDE DEF e13, s13, c13
<1>14. Walked(e14, \h1b0, s14, c14, EtmPlan)
  <2>1. WordsFit(<<"etmsqr">>, 1, \h19c, \h1a0, {"etmsqr"}, EtmPlan)
    BY DEF WordsFit, EtmPlan
  <2>2. Walked(e13 \o Words(<<"etmsqr">>), \h1a0, s13 \union {"etmsqr"}, c13 + 1, EtmPlan)
    BY <1>13, <2>1, NextWords
  <2>3. RegsFit("etmextoutevr", 2, \h1a0, \h1a8, EtmPlan)
    BY DEF RegsFit, EtmPlan
  <2>4. Walked(e13 \o Words(<<"etmsqr">>) \o Regs("etmextoutevr", 2), \h1a8,
             s13 \union {"etmsqr"} \union {"etmextoutevr"}, c13 + 1 + 2, EtmPlan)
    BY <2>2, <2>3, NextRegs
  <2>5. Closes(EtmReserved(\h069, \h06c), \h1a8, \h1b0)
    BY DEF Closes, EtmReserved
  <2> QED
    BY <2>4, <2>5, NextGap
<1> HIDE DEF e14, s14, c14
<1>15. Walked(e15, \h1bc, s15, c15, EtmPlan)
  <2>1. WordsFit(<<"etmcidcvr1">>, 1, \h1b0, \h1b4, {"etmcidcvr1"}, EtmPlan)
    BY DEF WordsFit, EtmPlan
  <2>2. Walked(e14 \o Words(<<"etmcidcvr1">>), \h1b4,
             s14 \union {"etmcidcvr1"}, c14 + 1, EtmPlan)
    BY <1>14, <2>1, NextWords
  <2>3. Closes(EtmReserved(\h06c, \h06f), \h1b4, \h1bc)
    BY DEF Closes, EtmReserved
  <2> QED
    BY <2>2, <2>3, NextGap
<1> HIDE DEF e15, s15, c15
<1>16. Walked(e16, \h1e0, s16, c16, EtmPlan)
  <2>1. WordsFit(<<"etmcidcmr">>, 1, \h1bc, \h1c0, {"etmcidcmr"}, EtmPlan)
    BY DEF WordsFit, EtmPlan
  <2>2. Walked(e15 \o Words(<<"etmcidcmr">>), \h1c0,
             s15 \union {"etmcidcmr"}, c15 + 1, EtmPlan)
    BY <1>15, <2>1, NextWords
  <2>3. Closes(EtmReserved(\h06f, \h078), \h1c0, \h1e0)
    BY DEF Closes, EtmReserved
  <2> QED
    BY <2>2, <2>3, NextGap
<1> HIDE DEF e16, s16, c16
<1>17. Walked(e17, \h1f8, s17, c17, EtmPlan)
  <2>1. WordsFit(w17, 4, \h1e0, \h1f0, t17, EtmPlan)
    BY DEF WordsFit, EtmPlan
  <2>2. Walked(e16 \o Words(w17), \h1f0, s16 \union t17, c16 + 4, EtmPlan)
    BY <1>16, <2>1, NextWords
  <2>3. Closes(EtmReserved(\h07b, \h07e), \h1f0, \h1f8)
    BY DEF Closes, EtmReserved
  <2> QED
    BY <2>2, <2>3, NextGap
<1> HIDE DEF e17, s17, c17
<1>18. Walked(e18, \h208, s18, c18, EtmPlan)
  <2>1. WordsFit(w18, 3, \h1f8, \h204, t18, EtmPlan)
    BY DEF WordsFit, EtmPlan
  <2>2. Walked(e17 \o Words(w18), \h204, s17 \union t18, c17 + 3, EtmPlan)
    BY <1>17, <2>1, NextWords
  <2>3. Closes(EtmReserved(\h080, \h082), \h204, \h208)
    BY DEF Closes, EtmReserved
  <2> QED
    BY <2>2, <2>3, NextGap
<1> HIDE DEF e18, s18, c18
<1>19. Walked(e19, \h240, s19, c19, EtmPlan)
  <2>1. WordsFit(<<"etmidr2">>, 1, \h208, \h20c, {"etmidr2"}, EtmPlan)
    BY DEF WordsFit, EtmPlan
  <2>2. Walked(e18 \o Words(<<"etmidr2">>), \h20c, s18 \union {"etmidr2"}, c18 + 1, EtmPlan)
    BY <1>18, <2>1, NextWords
  <2>3. Closes(EtmReserved(\h082, \h090), \h20c, \h240)
    BY DEF Closes, EtmReserved
  <2> QED
    BY <2>2, <2>3, NextGap
<1> HIDE DEF e19, s19, c19
<1>20. Walked(e20, \h300, s20, c20, EtmPlan)
  <2>1. WordsFit(<<"etmvmidcvr">>, 1, \h240, \h244, {"etmvmidcvr"}, EtmPlan)
    BY DEF WordsFit, EtmPlan
  <2>2. Walked(e19 \o Words(<<"etmvmidcvr">>), \h244,
             s19 \union {"etmvmidcvr"}, c19 + 1, EtmPlan)
    BY <1>19, <2>1, NextWords
  <2>3. Closes(EtmReserved(\h090, \h0c0), \h244, \h300)
    BY DEF Closes, EtmReserved
  <2> QED
    BY <2>2, <2>3, NextGap
<1> HIDE DEF e20, s20, c20
<1>21. Walked(e21, \h310, s21, c21, EtmPlan)
  <2>1. WordsFit(w21, 3, \h300, \h30c, t21, EtmPlan)
    BY DEF WordsFit, EtmPlan
  <2>2. Walked(e20 \o Words(w21), \h30c, s20 \union t21, c20 + 3, EtmPlan)
    BY <1>20, <2>1, NextWords
  <2>3. Closes(EtmReserved(\h0c2, \h0c4), \h30c, \h310)
    BY DEF Closes, EtmReserved
  <2> QED
    BY <2>2, <2>3, NextGap
<1> HIDE DEF e21, s21, c21
<1>22. Walked(e22, \hedc, s22, c22, EtmPlan)
  <2>1. WordsFit(w22, 2, \h310, \h318, t22, EtmPlan)
    BY DEF WordsFit, EtmPlan
  <2>2. Walked(e21 \o Words(w22), \h318, s21 \union t22, c21 + 2, EtmPlan)
    BY <1>21, <2>1, NextWords
  <2>3. Closes(EtmReserved(\h0c5, \h3b7), \h318, \hedc)
    BY DEF Closes, EtmReserved
  <2> QED
    BY <2>2, <2>3, NextGap
<1> HIDE DEF e22, s22, c22
<1>23. Walked(e23, \hee8, s23, c23, EtmPlan)
  <2>1. WordsFit(w23, 2, \hedc, \hee4, t23, EtmPlan)
    BY DEF WordsFit, EtmPlan
  <2>2. Walked(e22 \o Words(w23), \hee4, s22 \union t23, c22 + 2, EtmPlan)
    BY <1>22, <2>1, NextWords
  <2>3. Closes(EtmReserved(\h3b8, \h3ba), \hee4, \hee8)
    BY DEF Closes, EtmReserved
  <2> QED
    BY <2>2, <2>3, NextGap
<1> HIDE DEF e23, s23, c23
<1>24. Walked(e24, \hf00, s24, c24, EtmPlan)
  <2>1. WordsFit(w24, 5, \hee8, \hefc, t24, EtmPlan)
    BY DEF WordsFit, EtmPlan
  <2>2. Walked(e23 \o Words(w24), \hefc, s23 \union t24, c23 + 5, EtmPlan)
    BY <1>23, <2>1, NextWords
  <2>3. Closes(EtmReserved(\h3be, \h3c0), \hefc, \hf00)
    BY DEF Closes, EtmReserved
  <2> QED
    BY <2>2, <2>3, NextGap
<1> HIDE DEF e24, s24, c24
<1>25. Walked(e25, \hfa0, s25, c25, EtmPlan)
  <2>1. WordsFit(<<"etmitctrl">>, 1, \hf00, \hf04, {"etmitctrl"}, EtmPlan)
    BY DEF WordsFit, EtmPlan
  <2>2. Walked(e24 \o Words(<<"etmitctrl">>), \hf04,
             s24 \union {"etmitctrl"}, c24 + 1, EtmPlan)
    BY <1>24, <2>1, NextWords
  <2>3. Closes(EtmReserved(\h3c0, \h3e8), \hf04, \hfa0)
    BY DEF Closes, EtmReserved
  <2> QED
    BY <2>2, <2>3, NextGap
<1> HIDE DEF e25, s25, c25
<1>26. Walked(e26, \hfb0, s26, c26, EtmPlan)
  <2>1. WordsFit(w26, 2, \hfa0, \hfa8, t26, EtmPlan)
    BY DEF WordsFit, EtmPlan
  <2>2. Walked(e25 \o Words(w26), \hfa8, s25 \union t26, c25 + 2, EtmPlan)
    BY <1>25, <2>1, NextWords
  <2>3. Closes(EtmReserved(\h3e9, \h3ec), \hfa8, \hfb0)
    BY DEF Closes, EtmReserved
  <2> QED
    BY <2>2, <2>3, NextGap
<1> HIDE DEF e26, s26, c26
<1>27. Walked(e27, \hfc8, s27, c27, EtmPlan)
  <2>1. WordsFit(w27, 3, \hfb0, \hfbc, t27, EtmPlan)
    BY DEF WordsFit, EtmPlan
  <2>2. Walked(e26 \o Words(w27), \hfbc, s26 \union t27, c26 + 3, EtmPlan)
    BY <1>26, <2>1, NextWords
  <2>3. Closes(EtmReserved(\h3ee, \h3f2), \hfbc, \hfc8)
    BY DEF Closes, EtmReserved
  <2> QED
    BY <2>2, <2>3, NextGap
<1> HIDE DEF e27, s27, c27
<1>28. Walked(e28, \h1000, s28, c28, EtmPlan)
  <2>1. WordsFit(w28, 10, \hfc8, \hff0, t28, EtmPlan)
    BY DEF WordsFit, EtmPlan
  <2>2. Walked(e27 \o Words(w28), \hff0, s27 \union t28, c27 + 10, EtmPlan)
    BY <1>27, <2>1, NextWords
  <2>3. RegsFit("etmcidr", 4, \hff0, \h1000, EtmPlan)
    BY DEF RegsFit, EtmPlan
  <2> QED
    BY <2>2, <2>3, NextRegs
<1> HIDE DEF e28, s28, c28
<1> QED
  BY <1>28, <1>a, <1>b, <1>c

\* 37 registers of the performance monitors, in the second of two pages.
LEMMA PmuWalk == Walked(core_pmu, \h2000, DOMAIN PmuPlan, 37, PmuPlan)
<1> DEFINE e1 == Gap(0, \h1000)
           s1 == {}
           c1 == 0
           e2 == e1 \o Regs("pmxevcntr", 4) \o PmuGap(\h00f, \h07b)
           s2 == s1 \union {"pmxevcntr"}
           c2 == c1 + 4
           e3 == e2 \o Words(<<"pmccntr">>) \o PmuGap(\h07f, \h3ff)
           s3 == s2 \union {"pmccntr"}
           c3 == c2 + 1
           e4 == e3 \o Regs("pmxevtyper", 4) \o PmuGap(\h40f, \h47b)
           s4 == s3 \union {"pmxevtyper"}
           c4 == c3 + 4
           e5 == e4 \o Words(<<"pmxevtyper31">>) \o PmuGap(\h47f, \hbff)
           s5 == s4 \union {"pmxevtyper31"}
           c5 == c4 + 1
           e6 == e5 \o Words(<<"pmctenset">>) \o PmuGap(\hc03, \hc1f)
           s6 == s5 \union {"pmctenset"}
           c6 == c5 + 1
           e7 == e6 \o Words(<<"pmcntenclr">>) \o PmuGap(\hc23, \hc3f)
           s7 == s6 \union {"pmcntenclr"}
           c7 == c6 + 1
           e8 == e7 \o Words(<<"pmintenset">>) \o PmuGap(\hc43, \hc5f)
           s8 == s7 \union {"pmintenset"}
           c8 == c7 + 1
           e9 == e8 \o Words(<<"pmintenclr">>) \o PmuGap(\hc63, \hc7f)
           s9 == s8 \union {"pmintenclr"}
           c9 == c8 + 1
           e10 == e9 \o Words(<<"pmovsr">>) \o PmuGap(\hc83, \hc9f)
           s10 == s9 \union {"pmovsr"}
           c10 == c9 + 1
           e11 == e10 \o Words(<<"pmswinc">>) \o PmuGap(\hca3, \hdff)
           s11 == s10 \union {"pmswinc"}
           c11 == c10 + 1
           w12 == <<"pmcfgr", "pmcr", "pmuserenr">>
           t12 == {"pmcfgr", "pmcr", "pmuserenr"}
           e12 == e11 \o Words(w12) \o PmuGap(\he0b, \he1f)
           s12 == s11 \union t12
           c12 == c11 + 3
           e13 == e12 \o Regs("pmceid", 2) \o PmuGap(\he27, \hfaf)
           s13 == s12 \union {"pmceid"}
           c13 == c12 + 2
           w14 == <<"pmlar", "pmlsr", "pmauthstatus">>
           t14 == {"pmlar", "pmlsr", "pmauthstatus"}
           e14 == e13 \o Words(w14) \o PmuGap(\hfbb, \hfcb)
           s14 == s13 \union t14
           c14 == c13 + 3
           w15 == <<"pmdevtype", "pmpid4", "pmpid5", "pmpid6", "pmpid7", "pmpid0",
                      "pmpid1", "pmpid2", "pmpid3">>
           t15 == {"pmdevtype", "pmpid4", "pmpid5", "pmpid6", "pmpid7", "pmpid0",
                     "pmpid1", "pmpid2", "pmpid3"}
           e15 == e14 \o Words(w15) \o Regs("pmcid", 4)
           s15 == s14 \union t15 \union {"pmcid"}
           c15 == c14 + 9 + 4
<1>a. core_pmu = e15
  BY DEF core_pmu
<1>b. s15 = DOMAIN PmuPlan
  BY DEF PmuPlan
<1>c. c15 = 37
  OBVIOUS
<1>0. DOMAIN PmuPlan \subseteq Names
  BY DEF Names
<1>1. Walked(e1, \h1000, s1, c1, PmuPlan)
  <2>1. Closes(Gap(0, \h1000), \h000, \h1000)
    BY DEF Closes, Gap
  <2> QED
    BY <1>0, <2>1, FirstGap
<1> HIDE DEF e1, s1, c1
<1>2. Walked(e2, \h107c, s2, c2, PmuPlan)
  <2>1. RegsFit("pmxevcntr", 4, \h1000, \h1010, PmuPlan)
    BY DEF RegsFit, PmuPlan
  <2>2. Walked(e1 \o Regs("pmxevcntr", 4), \h1010, s1 \union {"pmxevcntr"}, c1 + 4, PmuPlan)
    BY <1>1, <2>1, NextRegs
  <2>3. Closes(PmuGap(\h00f, \h07b), \h1010, \h107c)
    BY DEF Closes, PmuGap, GapAfter
  <2> QED
    BY <2>2, <2>3, NextGap
<1> HIDE DEF e2, s2, c2
<1>3. Walked(e3, \h1400, s3, c3, PmuPlan)
  <2>1. WordsFit(<<"pmccntr">>, 1, \h107c, \h1080, {"pmccntr"}, PmuPlan)
    BY DEF WordsFit, PmuPlan
  <2>2. Walked(e2 \o Words(<<"pmccntr">>), \h1080, s2 \union {"pmccntr"}, c2 + 1, PmuPlan)
    BY <1>2, <2>1, NextWords
  <2>3. Closes(PmuGap(\h07f, \h3ff), \h1080, \h1400)
    BY DEF Closes, PmuGap, GapAfter
  <2> QED
    BY <2>2, <2>3, NextGap
<1> HIDE DEF e3, s3, c3
<1>4. Walked(e4, \h147c, s4, c4, PmuPlan)
  <2>1. RegsFit("pmxevtyper", 4, \h1400, \h1410, PmuPlan)
    BY DEF RegsFit, PmuPlan
  <2>2. Walked(e3 \o Regs("pmxevtyper", 4), \h1410, s3 \union {"pmxevtyper"}, c3 + 4, PmuPlan)
    BY <1>3, <2>1, NextRegs
  <2>3. Closes(PmuGap(\h40f, \h47b), \h1410, \h147c)
    BY DEF Closes, PmuGap, GapAfter
  <2> QED
    BY <2>2, <2>3, NextGap
<1> HIDE DEF e4, s4, c4
<1>5. Walked(e5, \h1c00, s5, c5, PmuPlan)
  <2>1. WordsFit(<<"pmxevtyper31">>, 1, \h147c, \h1480, {"pmxevtyper31"}, PmuPlan)
    BY DEF WordsFit, PmuPlan
  <2>2. Walked(e4 \o Words(<<"pmxevtyper31">>), \h1480,
             s4 \union {"pmxevtyper31"}, c4 + 1, PmuPlan)
    BY <1>4, <2>1, NextWords
  <2>3. Closes(PmuGap(\h47f, \hbff), \h1480, \h1c00)
    BY DEF Closes, PmuGap, GapAfter
  <2> QED
    BY <2>2, <2>3, NextGap
<1> HIDE DEF e5, s5, c5
<1>6. Walked(e6, \h1c20, s6, c6, PmuPlan)
  <2>1. WordsFit(<<"pmctenset">>, 1, \h1c00, \h1c04, {"pmctenset"}, PmuPlan)
    BY DEF WordsFit, PmuPlan
  <2>2. Walked(e5 \o Words(<<"pmctenset">>), \h1c04, s5 \union {"pmctenset"}, c5 + 1, PmuPlan)
    BY <1>5, <2>1, NextWords
  <2>3. Closes(PmuGap(\hc03, \hc1f), \h1c04, \h1c20)
    BY DEF Closes, PmuGap, GapAfter
  <2> QED
    BY <2>2, <2>3, NextGap
<1> HIDE DEF e6, s6, c6
<1>7. Walked(e7, \h1c40, s7, c7, PmuPlan)
  <2>1. WordsFit(<<"pmcntenclr">>, 1, \h1c20, \h1c24, {"pmcntenclr"}, PmuPlan)
    BY DEF WordsFit, PmuPlan
  <2>2. Walked(e6 \o Words(<<"pmcntenclr">>), \h1c24,
             s6 \union {"pmcntenclr"}, c6 + 1, PmuPlan)
    BY <1>6, <2>1, NextWords
  <2>3. Closes(PmuGap(\hc23, \hc3f), \h1c24, \h1c40)
    BY DEF Closes, PmuGap, GapAfter
  <2> QED
    BY <2>2, <2>3, NextGap
<1> HIDE DEF e7, s7, c7
<1>8. Walked(e8, \h1c60, s8, c8, PmuPlan)
  <2>1. WordsFit(<<"pmintenset">>, 1, \h1c40, \h1c44, {"pmintenset"}, PmuPlan)
    BY DEF WordsFit, PmuPlan
  <2>2. Walked(e7 \o Words(<<"pmintenset">>), \h1c44,
             s7 \union {"pmintenset"}, c7 + 1, PmuPlan)
    BY <1>7, <2>1, NextWords
  <2>3. Closes(PmuGap(\hc43, \hc5f), \h1c44, \h1c60)
    BY DEF Closes, PmuGap, GapAfter
  <2> QED
    BY <2>2, <2>3, NextGap
<1> HIDE DEF e8, s8, c8
<1>9. Walked(e9, \h1c80, s9, c9, PmuPlan)
  <2>1. WordsFit(<<"pmintenclr">>, 1, \h1c60, \h1c64, {"pmintenclr"}, PmuPlan)
    BY DEF WordsFit, PmuPlan
  <2>2. Walked(e8 \o Words(<<"pmintenclr">>), \h1c64,
             s8 \union {"pmintenclr"}, c8 + 1, PmuPlan)
    BY <1>8, <2>1, NextWords
  <2>3. Closes(PmuGap(\hc63, \hc7f), \h1c64, \h1c80)
    BY DEF Closes, PmuGap, GapAfter
  <2> QED
    BY <2>2, <2>3, NextGap
<1> HIDE DEF e9, s9, c9
<1>10. Walked(e10, \h1ca0, s10, c10, PmuPlan)
  <2>1. WordsFit(<<"pmovsr">>, 1, \h1c80, \h1c84, {"pmovsr"}, PmuPlan)
    BY DEF WordsFit, PmuPlan
  <2>2. Walked(e9 \o Words(<<"pmovsr">>), \h1c84, s9 \union {"pmovsr"}, c9 + 1, PmuPlan)
    BY <1>9, <2>1, NextWords
  <2>3. Closes(PmuGap(\hc83, \hc9f), \h1c84, \h1ca0)
    BY DEF Closes, PmuGap, GapAfter
  <2> QED
    BY <2>2, <2>3, NextGap
<1> HIDE DEF e10, s10, c10
<1>11. Walked(e11, \h1e00, s11, c11, PmuPlan)
  <2>1. WordsFit(<<"pmswinc">>, 1, \h1ca0, \h1ca4, {"pmswinc"}, PmuPlan)
    BY DEF WordsFit, PmuPlan
  <2>2. Walked(e10 \o Words(<<"pmswinc">>), \h1ca4, s10 \union {"pmswinc"}, c10 + 1, PmuPlan)
    BY <1>10, <2>1, NextWords
  <2>3. Closes(PmuGap(\hca3, \hdff), \h1ca4, \h1e00)
    BY DEF Closes, PmuGap, GapAfter
  <2> QED
    BY <2>2, <2>3, NextGap
<1> HIDE DEF e11, s11, c11
<1>12. Walked(e12, \h1e20, s12, c12, PmuPlan)
  <2>1. WordsFit(w12, 3, \h1e00, \h1e0c, t12, PmuPlan)
    BY DEF WordsFit, PmuPlan
  <2>2. Walked(e11 \o Words(w12), \h1e0c, s11 \union t12, c11 + 3, PmuPlan)
    BY <1>11, <2>1, NextWords
  <2>3. Closes(PmuGap(\he0b, \he1f), \h1e0c, \h1e20)
    BY DEF Closes, PmuGap, GapAfter
  <2> QED
    BY <2>2, <2>3, NextGap
<1> HIDE DEF e12, s12, c12
<1>13. Walked(e13, \h1fb0, s13, c13, PmuPlan)
  <2>1. RegsFit("pmceid", 2, \h1e20, \h1e28, PmuPlan)
    BY DEF RegsFit, PmuPlan
  <2>2. Walked(e12 \o Regs("pmceid", 2), \h1e28, s12 \union {"pmceid"}, c12 + 2, PmuPlan)
    BY <1>12, <2>1, NextRegs
  <2>3. Closes(PmuGap(\he27, \hfaf), \h1e28, \h1fb0)
    BY DEF Closes, PmuGap, GapAfter
  <2> QED
    BY <2>2, <2>3, NextGap
<1> HIDE DEF e13, s13, c13
<1>14. Walked(e14, \h1fcc, s14, c14, PmuPlan)
  <2>1. WordsFit(w14, 3, \h1fb0, \h1fbc, t14, PmuPlan)
    BY DEF WordsFit, PmuPlan
  <2>2. Walked(e13 \o Words(w14), \h1fbc, s13 \union t14, c13 + 3, PmuPlan)
    BY <1>13, <2>1, NextWords
  <2>3. Closes(PmuGap(\hfbb, \hfcb), \h1fbc, \h1fcc)
    BY DEF Closes, PmuGap, GapAfter
  <2> QED
    BY <2>2, <2>3, NextGap
<1> HIDE DEF e14, s14, c14
<1>15. Walked(e15, \h2000, s15, c15, PmuPlan)
  <2>1. WordsFit(w15, 9, \h1fcc, \h1ff0, t15, PmuPlan)
    BY DEF WordsFit, PmuPlan
  <2>2. Walked(e14 \o Words(w15), \h1ff0, s14 \union t15, c14 + 9, PmuPlan)
    BY <1>14, <2>1, NextWords
  <2>3. RegsFit("pmcid", 4, \h1ff0, \h2000, PmuPlan)
    BY DEF RegsFit, PmuPlan
  <2> QED
    BY <2>2, <2>3, NextRegs
<1> HIDE DEF e15, s15, c15
<1> QED
  BY <1>15, <1>a, <1>b, <1>c

=============================================================================
