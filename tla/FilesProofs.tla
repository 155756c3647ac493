----------------------------- MODULE FilesProofs -----------------------------
(***************************************************************************)
(* What the files show, and how that agrees with the other two ways to a   *)
(* register.  The structs have their registers where they should be; the   *)
(* files that each dbgfs_init makes, line by line, are a list of all the   *)
(* registers of the struct, once each and in order; the word that          *)
(* resource_reserve works on is the one that the ioctls and the file       *)
(* eprsrv reach; and the files of a kind with one node show what the       *)
(* ioctls reach.                                                           *)
(***************************************************************************)
EXTENDS RegMapProofs

----------------------------------------------------------------------------
(* The layouts as a whole.                                                 *)

\* The reserved registers are words, and begin at \hf00; the map is one page.
LEMMA EpuMap ==
    /\ EprsrvStart = \hf00
    /\ SizeOf(epu_v2) = \h1000
    /\ epu_v2[IndexOf(epu_v2, "eprsrv")].stride = 4
<1>1. "eprsrv" \in DOMAIN EpuPlan /\ EpuPlan["eprsrv"] = WordsAt(\hf00, 60)
  BY DEF EpuPlan
<1>2. AtPlace(epu_v2, "eprsrv", EpuPlan["eprsrv"])
  BY <1>1, EpuWalk, WalkedPlaces
<1>3. AtPlace(epu_v2, "eprsrv", WordsAt(\hf00, 60))
  BY <1>1, <1>2
<1>4. OffsetOf(epu_v2, "eprsrv") = \hf00 /\ epu_v2[IndexOf(epu_v2, "eprsrv")].stride = 4
  BY <1>3 DEF AtPlace, WordsAt, ArrayAt
<1>5. SizeOf(epu_v2) = \h1000
  BY EpuWalk, WalkedGaps
<1> QED
  BY <1>4, <1>5 DEF EprsrvStart

\* The registers that vir_cntrs.h gives offsets for are there.
LEMMA EpuOffsets == EpuOffsetsMatch
<1>1. \A name \in DOMAIN EpuPlan : OffsetOf(epu_v2, name) = EpuPlan[name].at
  BY EpuWalk, WalkedPlaces DEF AtPlace
<1>2. /\ {"epctrisr", "epecr", "epgacr", "epctrgcr", "epccr", "epctr", "epcapr"}
            \subseteq DOMAIN EpuPlan
      /\ EpuPlan["epctrisr"] = Word(\h030) /\ EpuPlan["epecr"] = WordsAt(\h300, 16)
      /\ EpuPlan["epgacr"] = WordsAt(\h480, 16) /\ EpuPlan["epctrgcr"] = WordsAt(\h540, 4)
      /\ EpuPlan["epccr"] = WordsAt(\h800, 32) /\ EpuPlan["epctr"] = WordsAt(\ha00, 32)
      /\ EpuPlan["epcapr"] = WordsAt(\hb00, 32)
  BY DEF EpuPlan
<1>3. \A at, n : WordsAt(at, n).at = at /\ Word(at).at = at
  BY DEF Word, WordsAt, ArrayAt
<1>4. /\ OffsetOf(epu_v2, "epctrisr") = \h030 /\ OffsetOf(epu_v2, "epecr") = \h300
      /\ OffsetOf(epu_v2, "epgacr") = \h480 /\ OffsetOf(epu_v2, "epctrgcr") = \h540
      /\ OffsetOf(epu_v2, "epccr") = \h800 /\ OffsetOf(epu_v2, "epctr") = \ha00
      /\ OffsetOf(epu_v2, "epcapr") = \hb00
  BY <1>1, <1>2, <1>3
<1> QED
  BY <1>4 DEF EpuOffsetsMatch

\* Every layout has its registers where they should be.
LEMMA AllFit == FittingKinds = Kinds
<1>1. ASSUME NEW kind \in Kinds
      PROVE  GapsFit(layout[kind]) /\ SizeOf(layout[kind]) = AssertedSize(kind)
  <2>1. CASE kind \in {"etf", "etr"}
    <3>1. layout[kind] = etf /\ AssertedSize(kind) = \h1000
      BY <2>1 DEF layout, etr, AssertedSize
    <3> QED
      BY <3>1, EtfWalk, WalkedGaps
  <2>2. CASE kind = "etm"
    <3>1. layout[kind] = etm /\ AssertedSize(kind) = \h1000
      BY <2>2 DEF layout, AssertedSize
    <3> QED
      BY <3>1, EtmWalk, WalkedGaps
  <2>3. CASE kind = "cstf"
    <3>1. layout[kind] = funnel /\ AssertedSize(kind) = \h1000
      BY <2>3 DEF layout, AssertedSize
    <3> QED
      BY <3>1, FunnelWalk, WalkedGaps
  <2>4. CASE kind = "epu"
    <3>1. layout[kind] = epu_v2 /\ AssertedSize(kind) = \h1000
      BY <2>4 DEF layout, AssertedSize
    <3> QED
      BY <3>1, EpuWalk, WalkedGaps
  <2>5. CASE kind = "gdi"
    <3>1. layout[kind] = gdi /\ AssertedSize(kind) = \h380
      BY <2>5 DEF layout, AssertedSize
    <3> QED
      BY <3>1, GdiWalk, WalkedGaps
  <2>6. CASE kind = "core"
    <3>1. layout[kind] = core_pmu /\ AssertedSize(kind) = \h2000
      BY <2>6 DEF layout, AssertedSize, PmuSize
    <3> QED
      BY <3>1, PmuWalk, WalkedGaps
  <2> QED
    BY <2>1, <2>2, <2>3, <2>4, <2>5, <2>6, KindsAre
<1> QED
  BY <1>1, EpuOffsets DEF FittingKinds

\* The directories are those of kinds that the driver knows.
LEMMA DirsAreKinds == Typed => {d.kind : d \in ToSet(dirs)} \subseteq Kinds
<1> SUFFICES ASSUME Typed, NEW d \in ToSet(dirs) PROVE d.kind \in Kinds
  OBVIOUS
<1>1. dirs \in Seq(Shown)
  BY DEF Typed
<1>2. d \in Shown
  <2>1. PICK k \in DOMAIN dirs : d = dirs[k]
    BY DEF ToSet
  <2> QED
    BY <1>1, <2>1
<1> QED
  BY <1>2 DEF Shown

\* Whatever is plugged in and whatever fails, a device gets its files through a
\* struct that has every register where the next bound of its gaps and, for the
\* EPU, the offsets of vir_cntrs.h:28-34 say, and whose size is the one that its
\* header asserts.
THEOREM LayoutsRight == Spec => []LayoutsFit
<1>1. Typed => LayoutsFit
  BY AllFit, DirsAreKinds DEF LayoutsFit
<1> QED
  BY <1>1, AlwaysTyped, PTL

----------------------------------------------------------------------------
(* Lists of files.                                                         *)

\* A list, of whatever elements.
IsList(s) == \E n \in Nat : s = [k \in 1 .. n |-> s[k]]

\* One list after another.
LEMMA ListConcat ==
    ASSUME NEW a, NEW b, IsList(a), IsList(b)
    PROVE  IsList(a \o b) /\ Range(a \o b) = Range(a) \union Range(b)
<1>1. PICK m \in Nat : a = [k \in 1 .. m |-> a[k]]
  BY DEF IsList
<1>2. PICK n \in Nat : b = [k \in 1 .. n |-> b[k]]
  BY DEF IsList
<1> DEFINE S == Range(a) \union Range(b)
<1>3. DOMAIN a = 1 .. m /\ DOMAIN b = 1 .. n
  BY <1>1, <1>2
<1>4. /\ \A k \in 1 .. m : a[k] \in S
      /\ \A k \in 1 .. n : b[k] \in S
  BY <1>3 DEF Range
<1> HIDE DEF S
<1>5. a \in Seq(S) /\ Len(a) = m
  <2>1. [k \in 1 .. m |-> a[k]] \in Seq(S)
    BY <1>4
  <2> QED
    BY <1>1, <1>3, <2>1
<1>6. b \in Seq(S) /\ Len(b) = n
  <2>1. [k \in 1 .. n |-> b[k]] \in Seq(S)
    BY <1>4
  <2> QED
    BY <1>2, <1>3, <2>1
<1> DEFINE ab == a \o b
<1>7. /\ ab \in Seq(S) /\ Len(ab) = m + n
      /\ \A k \in 1 .. m : ab[k] = a[k]
      /\ \A k \in 1 .. n : ab[m + k] = b[k]
  <2>1. /\ ab \in Seq(S) /\ Len(ab) = Len(a) + Len(b)
        /\ \A k \in 1 .. Len(a) + Len(b) :
              ab[k] = IF k <= Len(a) THEN a[k] ELSE b[k - Len(a)]
    BY <1>5, <1>6, ConcatProperties
  <2> HIDE DEF ab
  <2>2. \A k \in 1 .. m : k \in 1 .. m + n /\ k <= m
    OBVIOUS
  <2>3. \A k \in 1 .. n : m + k \in 1 .. m + n /\ ~ (m + k <= m) /\ (m + k) - m = k
    OBVIOUS
  <2> QED
    BY <1>5, <1>6, <2>1, <2>2, <2>3
<1> HIDE DEF ab
<1>8. DOMAIN ab = 1 .. m + n /\ ab = [k \in 1 .. m + n |-> ab[k]]
  BY <1>7
<1>9. IsList(ab)
  BY <1>8 DEF IsList
<1>10. \A k \in 1 .. m + n : ab[k] \in Range(a) \union Range(b)
  BY <1>7 DEF S
<1>11. ASSUME NEW k \in 1 .. m PROVE a[k] \in Range(ab)
  <2>1. k \in DOMAIN ab
    BY <1>8
  <2> QED
    BY <1>7, <2>1 DEF Range
<1>12. ASSUME NEW k \in 1 .. n PROVE b[k] \in Range(ab)
  <2>1. m + k \in DOMAIN ab
    BY <1>8
  <2> QED
    BY <1>7, <2>1 DEF Range
<1>13. Range(ab) \subseteq Range(a) \union Range(b)
  <2>1. \A x \in Range(ab) : \E k \in 1 .. m + n : x = ab[k]
    BY <1>8 DEF Range
  <2> QED
    BY <1>10, <2>1
<1>14. Range(a) \subseteq Range(ab) /\ Range(b) \subseteq Range(ab)
  <2>1. /\ \A x \in Range(a) : \E k \in 1 .. m : x = a[k]
        /\ \A x \in Range(b) : \E k \in 1 .. n : x = b[k]
    BY <1>3 DEF Range
  <2> QED
    BY <1>11, <1>12, <2>1
<1> QED
  BY <1>9, <1>13, <1>14 DEF ab

\* A list of so many files that show the registers of a set, no others, and
\* have stems from a set; the numbers of a family go with the addresses.
Listing(s, registers, stems, count) ==
    /\ IsList(s) /\ count \in Nat /\ DOMAIN s = 1 .. count
    /\ \A f \in Range(s) : f.at \in registers /\ f.stem \in stems
    /\ \A at \in registers : \E f \in Range(s) : f.at = at
    /\ \A f, g \in Range(s) : InOrder(f, g)

\* Two lists one after the other, whose stems differ.
LEMMA ListingJoin ==
    \A a, b, R, S, T, U, m, n :
        Listing(a, R, T, m) /\ Listing(b, S, U, n) /\ T \intersect U = {}
            => Listing(a \o b, R \union S, T \union U, m + n)
<1> SUFFICES ASSUME NEW a, NEW b, NEW R, NEW S, NEW T, NEW U, NEW m, NEW n,
                    Listing(a, R, T, m), Listing(b, S, U, n), T \intersect U = {}
             PROVE  Listing(a \o b, R \union S, T \union U, m + n)
  OBVIOUS
<1> DEFINE ab == a \o b
<1>1. /\ IsList(a) /\ m \in Nat /\ DOMAIN a = 1 .. m
      /\ \A f \in Range(a) : f.at \in R /\ f.stem \in T
      /\ \A at \in R : \E f \in Range(a) : f.at = at
      /\ \A f, g \in Range(a) : InOrder(f, g)
  BY DEF Listing
<1>2. /\ IsList(b) /\ n \in Nat /\ DOMAIN b = 1 .. n
      /\ \A f \in Range(b) : f.at \in S /\ f.stem \in U
      /\ \A at \in S : \E f \in Range(b) : f.at = at
      /\ \A f, g \in Range(b) : InOrder(f, g)
  BY DEF Listing
<1>3. IsList(ab) /\ Range(ab) = Range(a) \union Range(b) /\ DOMAIN ab = 1 .. m + n
  <2>1. IsList(ab) /\ Range(ab) = Range(a) \union Range(b)
    BY <1>1, <1>2, ListConcat
  <2>2. DOMAIN ab = 1 .. m + n
    BY <1>1, <1>2, ListConcat
  <2> QED
    BY <2>1, <2>2
<1> HIDE DEF ab
<1>4. \A f \in Range(ab) : f.at \in R \union S /\ f.stem \in T \union U
  BY <1>1, <1>2, <1>3
<1>5. \A at \in R \union S : \E f \in Range(ab) : f.at = at
  BY <1>1, <1>2, <1>3
<1>6. ASSUME NEW f \in Range(ab), NEW g \in Range(ab) PROVE InOrder(f, g)
  <2>1. CASE f \in Range(a) /\ g \in Range(a)
    BY <1>1, <2>1
  <2>2. CASE f \in Range(b) /\ g \in Range(b)
    BY <1>2, <2>2
  <2>3. CASE (f \in Range(a) /\ g \in Range(b)) \/ (f \in Range(b) /\ g \in Range(a))
    <3>1. f.stem # g.stem
      BY <1>1, <1>2, <2>3
    <3> QED
      BY <3>1 DEF InOrder
  <2>4. (f \in Range(a) \/ f \in Range(b)) /\ (g \in Range(a) \/ g \in Range(b))
    BY <1>3
  <2> QED
    BY <2>1, <2>2, <2>3, <2>4
<1> QED
  BY <1>1, <1>2, <1>3, <1>4, <1>5, <1>6 DEF Listing, ab

\* The registers of two sets of names.
LEMMA PlannedUnion ==
    \A A, B, plan : Planned(A, plan) \union Planned(B, plan) = Planned(A \union B, plan)
  BY DEF Planned

\* The same of registers that have a plan.
LEMMA NextFiles ==
    \A a, b, plan, A, B, T, U, m, n :
        /\ Listing(a, Planned(A, plan), T, m) /\ Listing(b, Planned(B, plan), U, n)
        /\ T \intersect U = {}
        => Listing(a \o b, Planned(A \union B, plan), T \union U, m + n)
<1> TAKE a, b, plan, A, B, T, U, m, n
<1> QED
  BY ListingJoin, PlannedUnion

\* A layout has each field of its plan at its place.
AllAt(l, plan) == \A name \in DOMAIN plan : AtPlace(l, name, plan[name])

\* So has each that has been walked through.
LEMMA WalkedAll ==
    \A l, size, count, plan : Walked(l, size, DOMAIN plan, count, plan) => AllAt(l, plan)
  BY WalkedPlaces DEF AllAt

\* Where the file of an element is, then.
LEMMA ElementAt ==
    ASSUME NEW l, NEW stem, NEW num, NEW field, NEW elem, NEW part, NEW p, AtPlace(l, field, p)
    PROVE  Element(l, stem, num, field, elem, part)
              = [stem |-> stem, num |-> num, field |-> field,
                 at |-> p.at + elem * p.stride + part]
  BY DEF Element, AtPlace

\* An array of words, one in each element.
Family(p, n) == p.n = n /\ p.used = 4

\* The registers of such an array.
LEMMA SpanOfFamily ==
    \A p, n : Family(p, n) => Span(p) = {p.at + i * p.stride + 4 * 0 : i \in 0 .. n - 1}
<1> SUFFICES ASSUME NEW p, NEW n, Family(p, n)
             PROVE  Span(p) = {p.at + i * p.stride + 4 * 0 : i \in 0 .. n - 1}
  OBVIOUS
<1>1. 0 .. (p.used \div 4) - 1 = {0}
  BY DEF Family
<1> QED
  BY <1>1 DEF Span, Family

\* Files of single registers.
Singles(plan, names, n, spelled) ==
    /\ n \in Nat /\ DOMAIN names = 1 .. n /\ spelled = {names[k] : k \in 1 .. n}
    /\ \A k \in 1 .. n : names[k] \in DOMAIN plan /\ Family(plan[names[k]], 1)

\* They show those registers.
LEMMA PlainFiles ==
    \A l, plan, names, n, spelled :
        AllAt(l, plan) /\ Singles(plan, names, n, spelled)
            => Listing(Plain(l, names), Planned(spelled, plan), spelled, n)
<1> SUFFICES ASSUME NEW l, NEW plan, NEW names, NEW n, NEW spelled,
                    AllAt(l, plan), Singles(plan, names, n, spelled)
             PROVE  Listing(Plain(l, names), Planned(spelled, plan), spelled, n)
  OBVIOUS
<1> DEFINE s == Plain(l, names)
<1>1. /\ n \in Nat /\ DOMAIN names = 1 .. n /\ spelled = {names[k] : k \in 1 .. n}
      /\ \A k \in 1 .. n : names[k] \in DOMAIN plan /\ Family(plan[names[k]], 1)
  BY DEF Singles
<1>2. s = [k \in 1 .. n |-> Element(l, names[k], -1, names[k], 0, 0)]
  BY <1>1 DEF Plain
<1>3. ASSUME NEW k \in 1 .. n
      PROVE  /\ s[k].stem = names[k] /\ s[k].num = -1
             /\ Span(plan[names[k]]) = {s[k].at}
  <2> DEFINE p == plan[names[k]]
  <2>1. AtPlace(l, names[k], p)
    <3>1. names[k] \in DOMAIN plan
      BY <1>1
    <3> QED
      BY <3>1 DEF AllAt
  <2>2. p.at \in Nat /\ p.stride \in Nat
    BY <2>1 DEF AtPlace, Shaped
  <2>3. s[k] = [stem |-> names[k], num |-> -1, field |-> names[k],
                at |-> p.at + 0 * p.stride + 0]
    <3> HIDE DEF s, p
    <3> QED
      BY <1>2, <2>1, ElementAt
  <2>4. Span(p) = {p.at + i * p.stride + 4 * 0 : i \in 0 .. 1 - 1}
    <3>1. Family(p, 1)
      BY <1>1
    <3> HIDE DEF p
    <3> QED
      BY <3>1, SpanOfFamily
  <2> HIDE DEF s, p
  <2>5. Span(p) = {p.at}
    <3>1. 0 .. 1 - 1 = {0} /\ p.at + 0 * p.stride + 4 * 0 = p.at
      BY <2>2
    <3> QED
      BY <2>4, <3>1
  <2>6. s[k].at = p.at /\ s[k].stem = names[k] /\ s[k].num = -1
    BY <2>2, <2>3
  <2> QED
    BY <2>5, <2>6 DEF p
<1>4. DOMAIN s = 1 .. n /\ s = [k \in 1 .. n |-> s[k]]
  BY <1>2
<1> HIDE DEF s
<1>5. IsList(s)
  BY <1>1, <1>4 DEF IsList
<1>6. \A f \in Range(s) : \E k \in 1 .. n : f = s[k]
  BY <1>4 DEF Range
<1>7. ASSUME NEW f \in Range(s) PROVE f.at \in Planned(spelled, plan) /\ f.stem \in spelled
  <2>1. PICK k \in 1 .. n : f = s[k]
    BY <1>6
  <2>2. names[k] \in spelled /\ f.at \in Span(plan[names[k]]) /\ f.stem = names[k]
    BY <1>1, <1>3, <2>1
  <2> QED
    BY <2>2 DEF Planned
<1>8. ASSUME NEW at \in Planned(spelled, plan) PROVE \E f \in Range(s) : f.at = at
  <2>1. PICK k \in 1 .. n : at \in Span(plan[names[k]])
    <3>1. \E name \in spelled : at \in Span(plan[name])
      BY DEF Planned
    <3> QED
      BY <1>1, <3>1
  <2>2. s[k] \in Range(s)
    BY <1>4 DEF Range
  <2> QED
    BY <1>3, <2>1, <2>2
<1>9. ASSUME NEW f \in Range(s), NEW g \in Range(s) PROVE InOrder(f, g)
  <2>1. f.num = -1 /\ g.num = -1
    BY <1>3, <1>6
  <2> QED
    BY <2>1 DEF InOrder
<1> QED
  BY <1>1, <1>4, <1>5, <1>7, <1>8, <1>9 DEF Listing, s

\* What a loop makes: for each number and each sort a file.
Makes(s, l, sorts, m, lo, hi, shift) ==
    /\ IsList(s) /\ DOMAIN s = 1 .. (hi - lo + 1) * m
    /\ \A f \in Range(s) : \E i \in lo .. hi, k \in 1 .. m :
          f = Element(l, sorts[k].stem, i, sorts[k].field, i - shift, sorts[k].part)
    /\ \A i \in lo .. hi, k \in 1 .. m : \E f \in Range(s) :
          f = Element(l, sorts[k].stem, i, sorts[k].field, i - shift, sorts[k].part)

\* A loop over up to five sorts.
LEMMA LoopFiles ==
    ASSUME NEW l, NEW sorts, NEW m \in 1 .. 5, Len(sorts) = m,
           NEW lo \in Nat, NEW hi \in Nat, lo <= hi, NEW shift, NEW s,
           s = Loop(l, sorts, lo, hi, shift)
    PROVE  Makes(s, l, sorts, m, lo, hi, shift)
<1> DEFINE size == (hi - lo + 1) * m
           num(n) == lo + (n - 1) \div m
           sort(n) == ((n - 1) % m) + 1
           file(i, k) == Element(l, sorts[k].stem, i, sorts[k].field, i - shift, sorts[k].part)
<1>0. m \in {1, 2, 3, 4, 5} /\ m \in Nat /\ hi - lo + 1 \in Nat
  OBVIOUS
<1>1. size \in Nat
  BY <1>0
<1>2. s = [n \in 1 .. size |-> file(num(n), sort(n))]
  BY Zenon DEF Loop
<1>3. \A n \in 1 .. size : num(n) \in lo .. hi /\ sort(n) \in 1 .. m
  <2> TAKE n \in 1 .. size
  <2>1. n \in Int /\ 1 <= n /\ n <= (hi - lo + 1) * m
    BY <1>1
  <2>2. CASE m = 1
    BY <2>1, <2>2
  <2>3. CASE m = 2
    BY <2>1, <2>3
  <2>4. CASE m = 3
    BY <2>1, <2>4
  <2>5. CASE m = 4
    BY <2>1, <2>5
  <2>6. CASE m = 5
    BY <2>1, <2>6
  <2> QED
    BY <1>0, <2>2, <2>3, <2>4, <2>5, <2>6
<1>4. ASSUME NEW i \in lo .. hi, NEW k \in 1 .. m
      PROVE  LET n == (i - lo) * m + k IN n \in 1 .. size /\ num(n) = i /\ sort(n) = k
  <2>1. i \in Int /\ lo <= i /\ i <= hi /\ k \in Int /\ 1 <= k /\ k <= m
    BY <1>0
  <2>2. CASE m = 1
    BY <2>1, <2>2
  <2>3. CASE m = 2
    BY <2>1, <2>3
  <2>4. CASE m = 3
    BY <2>1, <2>4
  <2>5. CASE m = 4
    BY <2>1, <2>5
  <2>6. CASE m = 5
    BY <2>1, <2>6
  <2> QED
    BY <1>0, <2>2, <2>3, <2>4, <2>5, <2>6
<1> HIDE DEF size, num, sort, file
<1>5. DOMAIN s = 1 .. size /\ s = [n \in 1 .. size |-> s[n]]
  BY <1>2
<1>6. IsList(s)
  BY <1>1, <1>5 DEF IsList
<1>7. \A f \in Range(s) : \E i \in lo .. hi, k \in 1 .. m : f = file(i, k)
  <2> TAKE f \in Range(s)
  <2>1. PICK n \in 1 .. size : f = s[n]
    BY <1>5 DEF Range
  <2>2. f = file(num(n), sort(n))
    BY <1>2, <2>1
  <2> QED
    BY <1>3, <2>2
<1>8. \A i \in lo .. hi, k \in 1 .. m : \E f \in Range(s) : f = file(i, k)
  <2> TAKE i \in lo .. hi, k \in 1 .. m
  <2> DEFINE n == (i - lo) * m + k
  <2>1. n \in 1 .. size /\ num(n) = i /\ sort(n) = k
    BY <1>4, Zenon
  <2> HIDE DEF n
  <2>2. s[n] \in Range(s) /\ s[n] = file(i, k)
    BY <1>2, <1>5, <2>1 DEF Range
  <2> QED
    BY <2>2
<1> QED
  BY <1>5, <1>6, <1>7, <1>8 DEF size, file, Makes

\* The sorts of a loop over arrays of n words: the sets of their fields and of
\* their stems.
SortsFit(plan, sorts, m, n, fields, stems) ==
    /\ m \in 1 .. 5 /\ Len(sorts) = m /\ n \in Nat
    /\ \A k \in 1 .. m : /\ sorts[k].part = 0 /\ sorts[k].field \in DOMAIN plan
                         /\ Family(plan[sorts[k].field], n)
                         /\ sorts[k].stem \notin {"eprsrv", "ephsr"}
    /\ \A j, k \in 1 .. m : sorts[j].stem = sorts[k].stem => j = k
    /\ fields = {sorts[k].field : k \in 1 .. m}
    /\ stems = {sorts[k].stem : k \in 1 .. m}

\* Such a loop shows each element of each array.
LEMMA LoopListing ==
    \A l, plan, sorts, m, n, fields, stems : \A lo, hi \in Nat :
        /\ AllAt(l, plan) /\ SortsFit(plan, sorts, m, n, fields, stems)
        /\ lo <= hi /\ n = hi - lo + 1
        => Listing(Loop(l, sorts, lo, hi, lo), Planned(fields, plan), stems, n * m)
<1> SUFFICES ASSUME NEW l, NEW plan, NEW sorts, NEW m, NEW n, NEW fields, NEW stems,
                    NEW lo \in Nat, NEW hi \in Nat,
                    AllAt(l, plan), SortsFit(plan, sorts, m, n, fields, stems),
                    lo <= hi, n = hi - lo + 1
             PROVE  Listing(Loop(l, sorts, lo, hi, lo), Planned(fields, plan), stems, n * m)
  OBVIOUS
<1> DEFINE s == Loop(l, sorts, lo, hi, lo)
           p(k) == plan[sorts[k].field]
           file(i, k) == Element(l, sorts[k].stem, i, sorts[k].field, i - lo, sorts[k].part)
<1>1. /\ m \in 1 .. 5 /\ Len(sorts) = m /\ n \in Nat
      /\ \A k \in 1 .. m : /\ sorts[k].part = 0 /\ sorts[k].field \in DOMAIN plan
                           /\ Family(p(k), n)
                           /\ sorts[k].stem \notin {"eprsrv", "ephsr"}
      /\ \A j, k \in 1 .. m : sorts[j].stem = sorts[k].stem => j = k
      /\ fields = {sorts[k].field : k \in 1 .. m}
      /\ stems = {sorts[k].stem : k \in 1 .. m}
  BY DEF SortsFit
<1> HIDE DEF s
<1>2. /\ IsList(s) /\ DOMAIN s = 1 .. n * m
      /\ \A f \in Range(s) : \E i \in lo .. hi, k \in 1 .. m : f = file(i, k)
      /\ \A i \in lo .. hi, k \in 1 .. m : \E f \in Range(s) : f = file(i, k)
  <2>1. m \in 1 .. 5 /\ Len(sorts) = m
    BY <1>1
  <2>2. Makes(s, l, sorts, m, lo, hi, lo)
    BY <2>1, LoopFiles DEF s
  <2> QED
    BY <2>2 DEF Makes
<1>3. ASSUME NEW k \in 1 .. m
      PROVE  /\ p(k).at \in Nat /\ p(k).stride \in Nat /\ p(k).stride > 0
             /\ Span(p(k)) = {p(k).at + i * p(k).stride + 4 * 0 : i \in 0 .. n - 1}
             /\ \A i : file(i, k) = [stem |-> sorts[k].stem, num |-> i,
                                     field |-> sorts[k].field,
                                     at |-> p(k).at + (i - lo) * p(k).stride + 0]
  <2>1. sorts[k].field \in DOMAIN plan /\ sorts[k].part = 0 /\ Family(p(k), n)
    BY <1>1
  <2>2. AtPlace(l, sorts[k].field, p(k))
    BY <2>1 DEF AllAt
  <2>3. p(k).at \in Nat /\ p(k).stride \in Nat /\ p(k).stride > 0
    BY <2>2 DEF AtPlace, Shaped
  <2> HIDE DEF p
  <2>4. Span(p(k)) = {p(k).at + i * p(k).stride + 4 * 0 : i \in 0 .. n - 1}
    BY <2>1, SpanOfFamily
  <2>5. \A i : file(i, k) = [stem |-> sorts[k].stem, num |-> i, field |-> sorts[k].field,
                             at |-> p(k).at + (i - lo) * p(k).stride + 0]
    <3> TAKE i
    <3> DEFINE elem == i - lo
    <3>1. Element(l, sorts[k].stem, i, sorts[k].field, elem, 0)
             = [stem |-> sorts[k].stem, num |-> i, field |-> sorts[k].field,
                at |-> p(k).at + elem * p(k).stride + 0]
      <4> HIDE DEF elem
      <4> QED
        BY <2>2, ElementAt
    <3> QED
      BY <2>1, <3>1
  <2> QED
    BY <2>3, <2>4, <2>5
<1> HIDE DEF p, file
<1>4. ASSUME NEW i \in lo .. hi, NEW k \in 1 .. m
      PROVE  /\ file(i, k).num = i /\ file(i, k).stem = sorts[k].stem
             /\ file(i, k).at = p(k).at + (i - lo) * p(k).stride
  BY <1>3
<1>5. ASSUME NEW i \in lo .. hi, NEW k \in 1 .. m
      PROVE  file(i, k).at \in Span(p(k))
  <2>1. i - lo \in 0 .. n - 1
    OBVIOUS
  <2>2. p(k).at + (i - lo) * p(k).stride + 4 * 0 = p(k).at + (i - lo) * p(k).stride
    BY <1>3, <2>1
  <2> QED
    BY <1>3, <1>4, <2>1, <2>2
<1>6. ASSUME NEW k \in 1 .. m, NEW at \in Span(p(k))
      PROVE  \E i \in lo .. hi : at = file(i, k).at
  <2>1. PICK j \in 0 .. n - 1 : at = p(k).at + j * p(k).stride + 4 * 0
    BY <1>3
  <2>2. lo + j \in lo .. hi /\ (lo + j) - lo = j
    OBVIOUS
  <2>3. file(lo + j, k).at = p(k).at + j * p(k).stride
    BY <1>4, <2>2
  <2>4. p(k).at + j * p(k).stride + 4 * 0 = p(k).at + j * p(k).stride
    BY <1>3
  <2> QED
    BY <2>1, <2>2, <2>3, <2>4
<1>7. \A f \in Range(s) : f.at \in Planned(fields, plan) /\ f.stem \in stems
  <2> TAKE f \in Range(s)
  <2>1. PICK i \in lo .. hi, k \in 1 .. m : f = file(i, k)
    BY <1>2
  <2>2. f.at \in Span(p(k)) /\ f.stem = sorts[k].stem
    BY <1>4, <1>5, <2>1
  <2>3. sorts[k].field \in fields /\ sorts[k].stem \in stems
    BY <1>1
  <2> QED
    BY <2>2, <2>3 DEF Planned, p
<1>8. \A at \in Planned(fields, plan) : \E f \in Range(s) : f.at = at
  <2> TAKE at \in Planned(fields, plan)
  <2>1. PICK k \in 1 .. m : at \in Span(p(k))
    <3>1. PICK field \in fields : at \in Span(plan[field])
      BY DEF Planned
    <3>2. PICK k \in 1 .. m : field = sorts[k].field
      BY <1>1
    <3> QED
      BY <3>1, <3>2 DEF p
  <2>2. PICK i \in lo .. hi : at = file(i, k).at
    BY <1>6, <2>1
  <2>3. file(i, k) \in Range(s)
    BY <1>2
  <2> QED
    BY <2>2, <2>3
<1>9. ASSUME NEW f \in Range(s), NEW g \in Range(s) PROVE InOrder(f, g)
  <2>1. PICK i \in lo .. hi, k \in 1 .. m : f = file(i, k)
    BY <1>2
  <2>2. PICK j \in lo .. hi, h \in 1 .. m : g = file(j, h)
    BY <1>2
  <2> SUFFICES ASSUME f.stem = g.stem, f.num < g.num
               PROVE  f.at < g.at /\ f.stem \notin {"eprsrv", "ephsr"}
    BY DEF InOrder
  <2>3. h = k /\ f.stem \notin {"eprsrv", "ephsr"}
    BY <1>1, <1>4, <2>1, <2>2
  <2>4. i < j
    BY <1>4, <2>1, <2>2
  <2>5. (i - lo) * p(k).stride < (j - lo) * p(k).stride
    <3> DEFINE a == i - lo
               b == j - lo
               t == p(k).stride
    <3>1. a \in Nat /\ b \in Nat /\ a < b /\ t \in Nat /\ t > 0
      BY <1>3, <2>4
    <3> HIDE DEF a, b, t
    <3>2. b * t = a * t + (b - a) * t /\ (b - a) * t > 0
      BY <3>1
    <3>3. a * t \in Nat /\ (b - a) * t \in Int
      BY <3>1
    <3>4. a * t < b * t
      BY <3>2, <3>3
    <3> QED
      BY <3>4 DEF a, b, t
  <2>6. f.at = p(k).at + (i - lo) * p(k).stride /\ g.at = p(k).at + (j - lo) * p(k).stride
    BY <1>4, <2>1, <2>2, <2>3
  <2>7. p(k).at \in Nat /\ (i - lo) * p(k).stride \in Int /\ (j - lo) * p(k).stride \in Int
    BY <1>3
  <2> QED
    BY <2>3, <2>5, <2>6, <2>7
<1>10. n * m \in Nat
  BY <1>1
<1> QED
  BY <1>2, <1>7, <1>8, <1>9, <1>10 DEF Listing, s

\* A loop over one array of n words.
FamilyFits(plan, stem, n, lo, hi) ==
    /\ lo \in Nat /\ hi \in Nat /\ lo <= hi /\ n = hi - lo + 1
    /\ stem \in DOMAIN plan /\ Family(plan[stem], n) /\ stem \notin {"eprsrv", "ephsr"}

\* It shows each word of the array.
LEMMA NumberedListing ==
    \A l, plan, stem, n, lo, hi :
        AllAt(l, plan) /\ FamilyFits(plan, stem, n, lo, hi)
            => Listing(Numbered(l, stem, lo, hi), Planned({stem}, plan), {stem}, n)
<1> SUFFICES ASSUME NEW l, NEW plan, NEW stem, NEW n, NEW lo, NEW hi,
                    AllAt(l, plan), FamilyFits(plan, stem, n, lo, hi)
             PROVE  Listing(Numbered(l, stem, lo, hi), Planned({stem}, plan), {stem}, n)
  OBVIOUS
<1> DEFINE sorts == Same(<<stem>>)
<1>1. /\ lo \in Nat /\ hi \in Nat /\ lo <= hi /\ n = hi - lo + 1 /\ n \in Nat /\ n * 1 = n
      /\ stem \in DOMAIN plan /\ Family(plan[stem], n) /\ stem \notin {"eprsrv", "ephsr"}
  BY DEF FamilyFits
<1>2. Len(sorts) = 1 /\ \A k \in 1 .. 1 : sorts[k] = Sort(stem, stem, 0)
  <2>1. sorts = [k \in 1 .. 1 |-> Sort(<<stem>>[k], <<stem>>[k], 0)]
    BY DEF Same
  <2>2. \A k \in 1 .. 1 : <<stem>>[k] = stem
    OBVIOUS
  <2> HIDE DEF sorts
  <2> QED
    BY <2>1, <2>2
<1>3. Numbered(l, stem, lo, hi) = Loop(l, sorts, lo, hi, lo)
  BY DEF Numbered
<1> HIDE DEF sorts
<1>4. SortsFit(plan, sorts, 1, n, {stem}, {stem})
  <2>1. \A k \in 1 .. 1 : /\ sorts[k].stem = stem /\ sorts[k].field = stem /\ sorts[k].part = 0
                          /\ k = 1
    BY <1>2 DEF Sort
  <2>2. {stem} = {sorts[k].field : k \in 1 .. 1} /\ {stem} = {sorts[k].stem : k \in 1 .. 1}
    BY <2>1
  <2> QED
    BY <1>1, <1>2, <2>1, <2>2 DEF SortsFit
<1>5. Listing(Loop(l, sorts, lo, hi, lo), Planned({stem}, plan), {stem}, n * 1)
  BY <1>1, <1>4, LoopListing
<1> QED
  BY <1>1, <1>3, <1>5

\* The families that are numbered downwards.
LEMMA DownwardsListing ==
    \A l, plan, stem : \A n \in Nat :
        /\ AllAt(l, plan) /\ stem \in DOMAIN plan /\ Family(plan[stem], n)
        /\ stem \in {"eprsrv", "ephsr"}
        => Listing(Downwards(l, stem, n), Planned({stem}, plan), {stem}, n)
<1> SUFFICES ASSUME NEW l, NEW plan, NEW stem, NEW n \in Nat,
                    AllAt(l, plan), stem \in DOMAIN plan, Family(plan[stem], n),
                    stem \in {"eprsrv", "ephsr"}
             PROVE  Listing(Downwards(l, stem, n), Planned({stem}, plan), {stem}, n)
  OBVIOUS
<1> DEFINE s == Downwards(l, stem, n)
           p == plan[stem]
<1>1. AtPlace(l, stem, p) /\ Family(p, n)
  BY DEF AllAt
<1>2. p.at \in Nat /\ p.stride \in Nat /\ p.stride > 0
  <2> HIDE DEF p
  <2> QED
    BY <1>1 DEF AtPlace, Shaped
<1>3. Planned({stem}, plan) = Span(p)
  BY DEF Planned
<1>4. s = [i \in 1 .. n |-> Element(l, stem, n - i, stem, i - 1, 0)]
  BY DEF Downwards
<1> HIDE DEF s, p
<1>5. Span(p) = {p.at + i * p.stride + 4 * 0 : i \in 0 .. n - 1}
  BY <1>1, SpanOfFamily
<1>6. ASSUME NEW i \in 1 .. n
      PROVE  /\ s[i].stem = stem /\ s[i].num = n - i
             /\ s[i].at = p.at + (i - 1) * p.stride
  <2> DEFINE elem == i - 1
  <2>1. Element(l, stem, n - i, stem, elem, 0)
           = [stem |-> stem, num |-> n - i, field |-> stem, at |-> p.at + elem * p.stride + 0]
    <3> HIDE DEF elem
    <3> QED
      BY <1>1, ElementAt
  <2>2. s[i] = Element(l, stem, n - i, stem, elem, 0)
    BY <1>4
  <2>3. p.at + elem * p.stride + 0 = p.at + (i - 1) * p.stride
    BY <1>2
  <2> QED
    BY <2>1, <2>2, <2>3
<1>7. DOMAIN s = 1 .. n /\ s = [i \in 1 .. n |-> s[i]]
  BY <1>4
<1>8. IsList(s)
  BY <1>7 DEF IsList
<1>9. \A f \in Range(s) : \E i \in 1 .. n : f = s[i]
  BY <1>7 DEF Range
<1>10. ASSUME NEW f \in Range(s) PROVE f.at \in Planned({stem}, plan) /\ f.stem \in {stem}
  <2>1. PICK i \in 1 .. n : f = s[i]
    BY <1>9
  <2>2. i - 1 \in 0 .. n - 1
         /\ p.at + (i - 1) * p.stride + 4 * 0 = p.at + (i - 1) * p.stride
    BY <1>2
  <2> QED
    BY <1>3, <1>5, <1>6, <2>1, <2>2
<1>11. ASSUME NEW at \in Planned({stem}, plan) PROVE \E f \in Range(s) : f.at = at
  <2>1. PICK j \in 0 .. n - 1 : at = p.at + j * p.stride + 4 * 0
    BY <1>3, <1>5
  <2>2. j + 1 \in 1 .. n /\ (j + 1) - 1 = j /\ p.at + j * p.stride + 4 * 0 = p.at + j * p.stride
    BY <1>2
  <2>3. s[j + 1].at = at
    BY <1>6, <2>1, <2>2
  <2>4. s[j + 1] \in Range(s)
    BY <1>7, <2>2 DEF Range
  <2> QED
    BY <2>3, <2>4
<1>12. ASSUME NEW f \in Range(s), NEW g \in Range(s) PROVE InOrder(f, g)
  <2>1. PICK i \in 1 .. n : f = s[i]
    BY <1>9
  <2>2. PICK j \in 1 .. n : g = s[j]
    BY <1>9
  <2> SUFFICES ASSUME f.num < g.num PROVE f.at > g.at /\ f.stem = stem
    BY DEF InOrder
  <2>3. f.num = n - i /\ g.num = n - j /\ f.stem = stem
    BY <1>6, <2>1, <2>2
  <2> DEFINE a == j - 1
             b == i - 1
             t == p.stride
  <2>4. a \in Nat /\ b \in Nat /\ a < b /\ t \in Nat /\ t > 0
    BY <1>2, <2>3
  <2>5. f.at = p.at + b * t /\ g.at = p.at + a * t
    BY <1>6, <2>1, <2>2
  <2> HIDE DEF a, b, t
  <2>6. b * t = a * t + (b - a) * t /\ (b - a) * t > 0
    BY <2>4
  <2>7. a * t \in Nat /\ (b - a) * t \in Int
    BY <2>4
  <2>8. f.at > g.at
    BY <1>2, <2>5, <2>6, <2>7
  <2> QED
    BY <2>3, <2>8
<1> QED
  BY <1>7, <1>8, <1>10, <1>11, <1>12 DEF Listing, s
----------------------------------------------------------------------------
(* A list grows by what a line of its dbgfs_init makes.                    *)

\* By single registers.
LEMMA NextPlain ==
    \A a, l, plan, A, T, m, names, n, spelled :
        /\ Listing(a, Planned(A, plan), T, m)
        /\ AllAt(l, plan) /\ Singles(plan, names, n, spelled) /\ T \intersect spelled = {}
        => Listing(a \o Plain(l, names), Planned(A \union spelled, plan),
                   T \union spelled, m + n)
<1> TAKE a, l, plan, A, T, m, names, n, spelled
<1> HAVE /\ Listing(a, Planned(A, plan), T, m)
         /\ AllAt(l, plan) /\ Singles(plan, names, n, spelled) /\ T \intersect spelled = {}
<1>1. Listing(Plain(l, names), Planned(spelled, plan), spelled, n)
  BY PlainFiles
<1> QED
  BY <1>1, NextFiles

\* By a loop over one array.
LEMMA NextNumbered ==
    \A a, l, plan, A, T, m, stem, n, lo, hi :
        /\ Listing(a, Planned(A, plan), T, m)
        /\ AllAt(l, plan) /\ FamilyFits(plan, stem, n, lo, hi) /\ T \intersect {stem} = {}
        => Listing(a \o Numbered(l, stem, lo, hi), Planned(A \union {stem}, plan),
                   T \union {stem}, m + n)
<1> TAKE a, l, plan, A, T, m, stem, n, lo, hi
<1> HAVE /\ Listing(a, Planned(A, plan), T, m)
         /\ AllAt(l, plan) /\ FamilyFits(plan, stem, n, lo, hi) /\ T \intersect {stem} = {}
<1>1. Listing(Numbered(l, stem, lo, hi), Planned({stem}, plan), {stem}, n)
  BY NumberedListing
<1> QED
  BY <1>1, NextFiles

\* By a loop over several.
LEMMA NextLoop ==
    \A a, l, plan, A, T, m, sorts, k, n, fields, stems : \A lo, hi \in Nat :
        /\ Listing(a, Planned(A, plan), T, m)
        /\ AllAt(l, plan) /\ SortsFit(plan, sorts, k, n, fields, stems)
        /\ lo <= hi /\ n = hi - lo + 1 /\ T \intersect stems = {}
        => Listing(a \o Loop(l, sorts, lo, hi, lo), Planned(A \union fields, plan),
                   T \union stems, m + n * k)
<1> TAKE a, l, plan, A, T, m, sorts, k, n, fields, stems
<1> TAKE lo, hi \in Nat
<1> HAVE /\ Listing(a, Planned(A, plan), T, m)
         /\ AllAt(l, plan) /\ SortsFit(plan, sorts, k, n, fields, stems)
         /\ lo <= hi /\ n = hi - lo + 1 /\ T \intersect stems = {}
<1> DEFINE b == Loop(l, sorts, lo, hi, lo)
           c == n * k
<1>1. Listing(b, Planned(fields, plan), stems, c)
  BY LoopListing
<1> HIDE DEF b, c
<1>2. Listing(a \o b, Planned(A \union fields, plan), T \union stems, m + c)
  BY <1>1, NextFiles
<1> QED
  BY <1>2 DEF b, c

\* By a family that is numbered downwards.
LEMMA NextDownwards ==
    \A a, l, plan, A, T, m, stem : \A n \in Nat :
        /\ Listing(a, Planned(A, plan), T, m)
        /\ AllAt(l, plan) /\ stem \in DOMAIN plan /\ Family(plan[stem], n)
        /\ stem \in {"eprsrv", "ephsr"} /\ T \intersect {stem} = {}
        => Listing(a \o Downwards(l, stem, n), Planned(A \union {stem}, plan),
                   T \union {stem}, m + n)
<1> TAKE a, l, plan, A, T, m, stem
<1> TAKE n \in Nat
<1> HAVE /\ Listing(a, Planned(A, plan), T, m)
         /\ AllAt(l, plan) /\ stem \in DOMAIN plan /\ Family(plan[stem], n)
         /\ stem \in {"eprsrv", "ephsr"} /\ T \intersect {stem} = {}
<1> DEFINE b == Downwards(l, stem, n)
<1>1. Listing(b, Planned({stem}, plan), {stem}, n)
  BY DownwardsListing
<1> HIDE DEF b
<1>2. Listing(a \o b, Planned(A \union {stem}, plan), T \union {stem}, m + n)
  BY <1>1, NextFiles
<1> QED
  BY <1>2 DEF b

----------------------------------------------------------------------------
(* The files of each kind of device.                                       *)

\* The files of the ETF, and of the ETR.
LEMMA EtfFiles ==
    Listing(etf_files, Planned(DOMAIN EtfPlan, EtfPlan), DOMAIN EtfPlan, 50)
<1> DEFINE w1 == <<"rsz", "sts", "rrd", "rrp", "rwp", "trg", "ctl", "rwd", "mode",
                      "lbuflevel", "cbuflevel", "bufwm", "rrphi", "rwphi", "axictl",
                      "dbalo", "dbahi", "ffsr", "ffcr", "pscr", "itatbmdata0", "itatbmctr2",
                      "itatbmctr1", "itatbmctr0", "itmiscop0", "ittrflin", "itatbdata0",
                      "itatbctr2", "itatbctr1", "itatbctr0", "itctrl", "claimset",
                      "claimclr", "lar", "lsr", "authstatus", "devid", "devtype",
                      "periphid4", "periphid5", "periphid6", "periphid7", "periphid0",
                      "periphid1", "periphid2", "periphid3", "compid0", "compid1",
                      "compid2", "compid3">>
           t1 == {"rsz", "sts", "rrd", "rrp", "rwp", "trg", "ctl", "rwd", "mode",
                     "lbuflevel", "cbuflevel", "bufwm", "rrphi", "rwphi", "axictl", "dbalo",
                     "dbahi", "ffsr", "ffcr", "pscr", "itatbmdata0", "itatbmctr2",
                     "itatbmctr1", "itatbmctr0", "itmiscop0", "ittrflin", "itatbdata0",
                     "itatbctr2", "itatbctr1", "itatbctr0", "itctrl", "claimset",
                     "claimclr", "lar", "lsr", "authstatus", "devid", "devtype",
                     "periphid4", "periphid5", "periphid6", "periphid7", "periphid0",
                     "periphid1", "periphid2", "periphid3", "compid0", "compid1", "compid2",
                     "compid3"}
           b1 == Plain(etf, w1)
           f1 == t1
           c1 == 50
<1>0. AllAt(etf, EtfPlan)
  BY EtfWalk, WalkedAll
<1>a. b1 = etf_files
  BY DEF etf_files
<1>b. f1 = DOMAIN EtfPlan /\ c1 = 50
  BY DEF EtfPlan
<1>1. Listing(b1, Planned(f1, EtfPlan), f1, c1)
  <2>1. Singles(EtfPlan, w1, 50, t1)
    BY DEF Singles, Family, EtfPlan, Word, WordsAt, ArrayAt
  <2> QED
    BY <1>0, <2>1, PlainFiles
<1> HIDE DEF b1, f1, c1
<1> QED
  BY <1>1, <1>a, <1>b

\* The files of a funnel.
LEMMA FunnelFiles ==
    Listing(cstf_files, Planned(DOMAIN FunnelPlan, FunnelPlan), DOMAIN FunnelPlan, 26)
<1> DEFINE w1 == <<"cr", "pcr", "itatbdata0", "itatbctr2", "itatbctr1", "itatbctr0",
                      "imcr", "ctsr", "ctcr", "lar", "lsr", "asr", "dir", "dtir", "pidr4",
                      "pidr5", "pidr6", "pidr7", "pidr0", "pidr1", "pidr2", "pidr3">>
           t1 == {"cr", "pcr", "itatbdata0", "itatbctr2", "itatbctr1", "itatbctr0",
                     "imcr", "ctsr", "ctcr", "lar", "lsr", "asr", "dir", "dtir", "pidr4",
                     "pidr5", "pidr6", "pidr7", "pidr0", "pidr1", "pidr2", "pidr3"}
           b1 == Plain(funnel, w1)
           f1 == t1
           c1 == 22
           b2 == b1 \o Numbered(funnel, "cidr", 0, 3)
           f2 == f1 \union {"cidr"}
           c2 == c1 + 4
<1>0. AllAt(funnel, FunnelPlan)
  BY FunnelWalk, WalkedAll
<1>a. b2 = cstf_files
  BY DEF cstf_files
<1>b. f2 = DOMAIN FunnelPlan /\ c2 = 26
  BY DEF FunnelPlan
<1>1. Listing(b1, Planned(f1, FunnelPlan), f1, c1)
  <2>1. Singles(FunnelPlan, w1, 22, t1)
    BY DEF Singles, Family, FunnelPlan, Word, WordsAt, ArrayAt
  <2> QED
    BY <1>0, <2>1, PlainFiles
<1> HIDE DEF b1
<1>2. Listing(b2, Planned(f2, FunnelPlan), f2, c2)
  <2>1. FamilyFits(FunnelPlan, "cidr", 4, 0, 3)
    BY DEF FamilyFits, Family, FunnelPlan, WordsAt, ArrayAt
  <2>2. f1 \intersect {"cidr"} = {}
    OBVIOUS
  <2> HIDE DEF f1, c1
  <2> QED
    BY <1>0, <1>1, <2>1, <2>2, NextNumbered
<1> HIDE DEF b2, f2, c2
<1> QED
  BY <1>2, <1>a, <1>b

\* The files of the ETM.
LEMMA EtmFiles ==
    Listing(etm_files, Planned(DOMAIN EtmPlan, EtmPlan), DOMAIN EtmPlan, 94)
<1> DEFINE w1 == <<"etmcr", "etmccr", "etmtrigger", "etmasicctlr", "etmsr", "etmscr",
                      "etmtsscr", "etmtecr2", "etmteevr", "etmtecr1", "etmfflr", "etmvdevr",
                      "etmvdcr1", "etmvdcr3">>
           t1 == {"etmcr", "etmccr", "etmtrigger", "etmasicctlr", "etmsr", "etmscr",
                     "etmtsscr", "etmtecr2", "etmteevr", "etmtecr1", "etmfflr", "etmvdevr",
                     "etmvdcr1", "etmvdcr3"}
           b1 == Plain(etm, w1)
           f1 == t1
           c1 == 14
           b2 == b1 \o Numbered(etm, "etmacvr", 1, 8)
           f2 == f1 \union {"etmacvr"}
           c2 == c1 + 8
           b3 == b2 \o Numbered(etm, "etmactr", 1, 8)
           f3 == f2 \union {"etmactr"}
           c3 == c2 + 8
           w4 == <<"etmdcvr1", "etmdcvr3", "etmdcmr1", "etmdcmr3">>
           t4 == {"etmdcvr1", "etmdcvr3", "etmdcmr1", "etmdcmr3"}
           b4 == b3 \o Plain(etm, w4)
           f4 == f3 \union t4
           c4 == c3 + 4
           b5 == b4 \o Numbered(etm, "etmcntrldvr", 1, 2)
           f5 == f4 \union {"etmcntrldvr"}
           c5 == c4 + 2
           b6 == b5 \o Numbered(etm, "etmcntenr", 1, 2)
           f6 == f5 \union {"etmcntenr"}
           c6 == c5 + 2
           b7 == b6 \o Numbered(etm, "etmcntrldevr", 1, 2)
           f7 == f6 \union {"etmcntrldevr"}
           c7 == c6 + 2
           b8 == b7 \o Numbered(etm, "etmcntvr", 1, 2)
           f8 == f7 \union {"etmcntvr"}
           c8 == c7 + 2
           b9 == b8 \o Numbered(etm, "etmsqabevr", 1, 6)
           f9 == f8 \union {"etmsqabevr"}
           c9 == c8 + 6
           b10 == b9 \o Plain(etm, <<"etmsqr">>)
           f10 == f9 \union {"etmsqr"}
           c10 == c9 + 1
           b11 == b10 \o Numbered(etm, "etmextoutevr", 1, 2)
           f11 == f10 \union {"etmextoutevr"}
           c11 == c10 + 2
           w12 == <<"etmcidcvr1", "etmcidcmr", "etmsyncfr", "etmidr", "etmccer",
                      "etmextinselr", "etmtsevr", "etmauxcr", "etmtraceidr", "etmidr2",
                      "etmvmidcvr", "etmoslar", "etmoslsr", "etmossrr", "etmpdcr",
                      "etmpdsr", "itmiscout", "itmiscin", "ittriggerreq", "itatbdata0",
                      "itatbctr2", "itatbctr1", "itatbctr0", "etmitctrl", "etmclaimset",
                      "etmclaimclr", "etmlar", "etmlsr", "etmauthstatus", "etmdevid",
                      "etmdevtype", "etmpidr4", "etmpidr5", "etmpidr6", "etmpidr7",
                      "etmpidr0", "etmpidr1", "etmpidr2", "etmpidr3">>
           t12 == {"etmcidcvr1", "etmcidcmr", "etmsyncfr", "etmidr", "etmccer",
                     "etmextinselr", "etmtsevr", "etmauxcr", "etmtraceidr", "etmidr2",
                     "etmvmidcvr", "etmoslar", "etmoslsr", "etmossrr", "etmpdcr", "etmpdsr",
                     "itmiscout", "itmiscin", "ittriggerreq", "itatbdata0", "itatbctr2",
                     "itatbctr1", "itatbctr0", "etmitctrl", "etmclaimset", "etmclaimclr",
                     "etmlar", "etmlsr", "etmauthstatus", "etmdevid", "etmdevtype",
                     "etmpidr4", "etmpidr5", "etmpidr6", "etmpidr7", "etmpidr0", "etmpidr1",
                     "etmpidr2", "etmpidr3"}
           b12 == b11 \o Plain(etm, w12)
           f12 == f11 \union t12
           c12 == c11 + 39
           b13 == b12 \o Numbered(etm, "etmcidr", 1, 4)
           f13 == f12 \union {"etmcidr"}
           c13 == c12 + 4
<1>0. AllAt(etm, EtmPlan)
  BY EtmWalk, WalkedAll
<1>a. b13 = etm_files
  BY DEF etm_files
<1>b. f13 = DOMAIN EtmPlan /\ c13 = 94
  BY DEF EtmPlan
<1>1. Listing(b1, Planned(f1, EtmPlan), f1, c1)
  <2>1. Singles(EtmPlan, w1, 14, t1)
    BY DEF Singles, Family, EtmPlan, Word, WordsAt, ArrayAt
  <2> QED
    BY <1>0, <2>1, PlainFiles
<1> HIDE DEF b1
<1>2. Listing(b2, Planned(f2, EtmPlan), f2, c2)
  <2>1. FamilyFits(EtmPlan, "etmacvr", 8, 1, 8)
    BY DEF FamilyFits, Family, EtmPlan, WordsAt, ArrayAt
  <2>2. f1 \intersect {"etmacvr"} = {}
    OBVIOUS
  <2> HIDE DEF f1, c1
  <2> QED
    BY <1>0, <1>1, <2>1, <2>2, NextNumbered
<1> HIDE DEF b2
<1>3. Listing(b3, Planned(f3, EtmPlan), f3, c3)
  <2>1. FamilyFits(EtmPlan, "etmactr", 8, 1, 8)
    BY DEF FamilyFits, Family, EtmPlan, WordsAt, ArrayAt
  <2>2. f2 \intersect {"etmactr"} = {}
    OBVIOUS
  <2> HIDE DEF f2, c2
  <2> QED
    BY <1>0, <1>2, <2>1, <2>2, NextNumbered
<1> HIDE DEF b3
<1>4. Listing(b4, Planned(f4, EtmPlan), f4, c4)
  <2>1. Singles(EtmPlan, w4, 4, t4)
    BY DEF Singles, Family, EtmPlan, Word, WordsAt, ArrayAt
  <2>2. f3 \intersect t4 = {}
    OBVIOUS
  <2> HIDE DEF f3, c3, w4, t4
  <2> QED
    BY <1>0, <1>3, <2>1, <2>2, NextPlain
<1> HIDE DEF b4
<1>5. Listing(b5, Planned(f5, EtmPlan), f5, c5)
  <2>1. FamilyFits(EtmPlan, "etmcntrldvr", 2, 1, 2)
    BY DEF FamilyFits, Family, EtmPlan, WordsAt, ArrayAt
  <2>2. f4 \intersect {"etmcntrldvr"} = {}
    OBVIOUS
  <2> HIDE DEF f4, c4
  <2> QED
    BY <1>0, <1>4, <2>1, <2>2, NextNumbered
<1> HIDE DEF b5
<1>6. Listing(b6, Planned(f6, EtmPlan), f6, c6)
  <2>1. FamilyFits(EtmPlan, "etmcntenr", 2, 1, 2)
    BY DEF FamilyFits, Family, EtmPlan, WordsAt, ArrayAt
  <2>2. f5 \intersect {"etmcntenr"} = {}
    OBVIOUS
  <2> HIDE DEF f5, c5
  <2> QED
    BY <1>0, <1>5, <2>1, <2>2, NextNumbered
<1> HIDE DEF b6
<1>7. Listing(b7, Planned(f7, EtmPlan), f7, c7)
  <2>1. FamilyFits(EtmPlan, "etmcntrldevr", 2, 1, 2)
    BY DEF FamilyFits, Family, EtmPlan, WordsAt, ArrayAt
  <2>2. f6 \intersect {"etmcntrldevr"} = {}
    OBVIOUS
  <2> HIDE DEF f6, c6
  <2> QED
    BY <1>0, <1>6, <2>1, <2>2, NextNumbered
<1> HIDE DEF b7
<1>8. Listing(b8, Planned(f8, EtmPlan), f8, c8)
  <2>1. FamilyFits(EtmPlan, "etmcntvr", 2, 1, 2)
    BY DEF FamilyFits, Family, EtmPlan, WordsAt, ArrayAt
  <2>2. f7 \intersect {"etmcntvr"} = {}
    OBVIOUS
  <2> HIDE DEF f7, c7
  <2> QED
    BY <1>0, <1>7, <2>1, <2>2, NextNumbered
<1> HIDE DEF b8
<1>9. Listing(b9, Planned(f9, EtmPlan), f9, c9)
  <2>1. FamilyFits(EtmPlan, "etmsqabevr", 6, 1, 6)
    BY DEF FamilyFits, Family, EtmPlan, WordsAt, ArrayAt
  <2>2. f8 \intersect {"etmsqabevr"} = {}
    OBVIOUS
  <2> HIDE DEF f8, c8
  <2> QED
    BY <1>0, <1>8, <2>1, <2>2, NextNumbered
<1> HIDE DEF b9
<1>10. Listing(b10, Planned(f10, EtmPlan), f10, c10)
  <2>1. Singles(EtmPlan, <<"etmsqr">>, 1, {"etmsqr"})
    BY DEF Singles, Family, EtmPlan, Word, WordsAt, ArrayAt
  <2>2. f9 \intersect {"etmsqr"} = {}
    OBVIOUS
  <2> HIDE DEF f9, c9
  <2> QED
    BY <1>0, <1>9, <2>1, <2>2, NextPlain
<1> HIDE DEF b10
<1>11. Listing(b11, Planned(f11, EtmPlan), f11, c11)
  <2>1. FamilyFits(EtmPlan, "etmextoutevr", 2, 1, 2)
    BY DEF FamilyFits, Family, EtmPlan, WordsAt, ArrayAt
  <2>2. f10 \intersect {"etmextoutevr"} = {}
    OBVIOUS
  <2> HIDE DEF f10, c10
  <2> QED
    BY <1>0, <1>10, <2>1, <2>2, NextNumbered
<1> HIDE DEF b11
<1>12. Listing(b12, Planned(f12, EtmPlan), f12, c12)
  <2>1. Singles(EtmPlan, w12, 39, t12)
    BY DEF Singles, Family, EtmPlan, Word, WordsAt, ArrayAt
  <2>2. f11 \intersect t12 = {}
    OBVIOUS
  <2> HIDE DEF f11, c11, w12, t12
  <2> QED
    BY <1>0, <1>11, <2>1, <2>2, NextPlain
<1> HIDE DEF b12
<1>13. Listing(b13, Planned(f13, EtmPlan), f13, c13)
  <2>1. FamilyFits(EtmPlan, "etmcidr", 4, 1, 4)
    BY DEF FamilyFits, Family, EtmPlan, WordsAt, ArrayAt
  <2>2. f12 \intersect {"etmcidr"} = {}
    OBVIOUS
  <2> HIDE DEF f12, c12
  <2> QED
    BY <1>0, <1>12, <2>1, <2>2, NextNumbered
<1> HIDE DEF b13, f13, c13
<1> QED
  BY <1>13, <1>a, <1>b

\* The files of the performance monitors.
LEMMA PmuFiles ==
    Listing(core_files, Planned(DOMAIN PmuPlan, PmuPlan), DOMAIN PmuPlan, 37)
<1> DEFINE b1 == Numbered(core_pmu, "pmxevcntr", 0, 3)
           f1 == {"pmxevcntr"}
           c1 == 4
           b2 == b1 \o Plain(core_pmu, <<"pmccntr">>)
           f2 == f1 \union {"pmccntr"}
           c2 == c1 + 1
           b3 == b2 \o Numbered(core_pmu, "pmxevtyper", 0, 3)
           f3 == f2 \union {"pmxevtyper"}
           c3 == c2 + 4
           w4 == <<"pmxevtyper31", "pmctenset", "pmcntenclr", "pmintenset", "pmintenclr",
                      "pmovsr", "pmswinc", "pmcfgr", "pmcr", "pmuserenr">>
           t4 == {"pmxevtyper31", "pmctenset", "pmcntenclr", "pmintenset", "pmintenclr",
                     "pmovsr", "pmswinc", "pmcfgr", "pmcr", "pmuserenr"}
           b4 == b3 \o Plain(core_pmu, w4)
           f4 == f3 \union t4
           c4 == c3 + 10
           b5 == b4 \o Numbered(core_pmu, "pmceid", 0, 1)
           f5 == f4 \union {"pmceid"}
           c5 == c4 + 2
           w6 == <<"pmlar", "pmlsr", "pmauthstatus", "pmdevtype", "pmpid4", "pmpid5",
                      "pmpid6", "pmpid7", "pmpid0", "pmpid1", "pmpid2", "pmpid3">>
           t6 == {"pmlar", "pmlsr", "pmauthstatus", "pmdevtype", "pmpid4", "pmpid5",
                     "pmpid6", "pmpid7", "pmpid0", "pmpid1", "pmpid2", "pmpid3"}
           b6 == b5 \o Plain(core_pmu, w6)
           f6 == f5 \union t6
           c6 == c5 + 12
           b7 == b6 \o Numbered(core_pmu, "pmcid", 0, 3)
           f7 == f6 \union {"pmcid"}
           c7 == c6 + 4
<1>0. AllAt(core_pmu, PmuPlan)
  BY PmuWalk, WalkedAll
<1>a. b7 = core_files
  BY DEF core_files
<1>b. f7 = DOMAIN PmuPlan /\ c7 = 37
  BY DEF PmuPlan
<1>1. Listing(b1, Planned(f1, PmuPlan), f1, c1)
  <2>1. FamilyFits(PmuPlan, "pmxevcntr", 4, 0, 3)
    BY DEF FamilyFits, Family, PmuPlan, WordsAt, ArrayAt
  <2> QED
    BY <1>0, <2>1, NumberedListing
<1> HIDE DEF b1
<1>2. Listing(b2, Planned(f2, PmuPlan), f2, c2)
  <2>1. Singles(PmuPlan, <<"pmccntr">>, 1, {"pmccntr"})
    BY DEF Singles, Family, PmuPlan, Word, WordsAt, ArrayAt
  <2>2. f1 \intersect {"pmccntr"} = {}
    OBVIOUS
  <2> HIDE DEF f1, c1
  <2> QED
    BY <1>0, <1>1, <2>1, <2>2, NextPlain
<1> HIDE DEF b2
<1>3. Listing(b3, Planned(f3, PmuPlan), f3, c3)
  <2>1. FamilyFits(PmuPlan, "pmxevtyper", 4, 0, 3)
    BY DEF FamilyFits, Family, PmuPlan, WordsAt, ArrayAt
  <2>2. f2 \intersect {"pmxevtyper"} = {}
    OBVIOUS
  <2> HIDE DEF f2, c2
  <2> QED
    BY <1>0, <1>2, <2>1, <2>2, NextNumbered
<1> HIDE DEF b3
<1>4. Listing(b4, Planned(f4, PmuPlan), f4, c4)
  <2>1. Singles(PmuPlan, w4, 10, t4)
    BY DEF Singles, Family, PmuPlan, Word, WordsAt, ArrayAt
  <2>2. f3 \intersect t4 = {}
    OBVIOUS
  <2> HIDE DEF f3, c3, w4, t4
  <2> QED
    BY <1>0, <1>3, <2>1, <2>2, NextPlain
<1> HIDE DEF b4
<1>5. Listing(b5, Planned(f5, PmuPlan), f5, c5)
  <2>1. FamilyFits(PmuPlan, "pmceid", 2, 0, 1)
    BY DEF FamilyFits, Family, PmuPlan, WordsAt, ArrayAt
  <2>2. f4 \intersect {"pmceid"} = {}
    OBVIOUS
  <2> HIDE DEF f4, c4
  <2> QED
    BY <1>0, <1>4, <2>1, <2>2, NextNumbered
<1> HIDE DEF b5
<1>6. Listing(b6, Planned(f6, PmuPlan), f6, c6)
  <2>1. Singles(PmuPlan, w6, 12, t6)
    BY DEF Singles, Family, PmuPlan, Word, WordsAt, ArrayAt
  <2>2. f5 \intersect t6 = {}
    OBVIOUS
  <2> HIDE DEF f5, c5, w6, t6
  <2> QED
    BY <1>0, <1>5, <2>1, <2>2, NextPlain
<1> HIDE DEF b6
<1>7. Listing(b7, Planned(f7, PmuPlan), f7, c7)
  <2>1. FamilyFits(PmuPlan, "pmcid", 4, 0, 3)
    BY DEF FamilyFits, Family, PmuPlan, WordsAt, ArrayAt
  <2>2. f6 \intersect {"pmcid"} = {}
    OBVIOUS
  <2> HIDE DEF f6, c6
  <2> QED
    BY <1>0, <1>6, <2>1, <2>2, NextNumbered
<1> HIDE DEF b7, f7, c7
<1> QED
  BY <1>7, <1>a, <1>b

\* The sorts of the loop over the arrays of 16 words.
LEMMA EpuSortsFit ==
    SortsFit(EpuPlan, <<Sort("epsmcr", "scu_ctrl", 0)>> \o Same(<<"epecr", "epacr", "epgacr">>),
             4, 16, {"scu_ctrl", "epecr", "epacr", "epgacr"},
             {"epsmcr", "epecr", "epacr", "epgacr"})
<1> DEFINE first == <<Sort("epsmcr", "scu_ctrl", 0)>>
           rest  == Same(<<"epecr", "epacr", "epgacr">>)
           S == {Sort("epsmcr", "scu_ctrl", 0), Sort("epecr", "epecr", 0),
                 Sort("epacr", "epacr", 0), Sort("epgacr", "epgacr", 0)}
<1>1. /\ rest[1] = Sort("epecr", "epecr", 0) /\ rest[2] = Sort("epacr", "epacr", 0)
      /\ rest[3] = Sort("epgacr", "epgacr", 0)
      /\ rest = [k \in 1 .. 3 |-> rest[k]]
  BY DEF Same
<1> HIDE DEF rest
<1>2. rest \in Seq(S) /\ Len(rest) = 3
  <2>1. \A k \in 1 .. 3 : rest[k] \in S
    BY <1>1
  <2> HIDE DEF S
  <2>2. [k \in 1 .. 3 |-> rest[k]] \in Seq(S) /\ Len([k \in 1 .. 3 |-> rest[k]]) = 3
    BY <2>1
  <2> QED
    BY <1>1, <2>2
<1>3. first \in Seq(S) /\ Len(first) = 1 /\ first[1] = Sort("epsmcr", "scu_ctrl", 0)
  OBVIOUS
<1> HIDE DEF first, S
<1> DEFINE s == first \o rest
<1>4. /\ Len(s) = Len(first) + Len(rest)
      /\ \A k \in 1 .. Len(first) + Len(rest) :
            s[k] = IF k <= Len(first) THEN first[k] ELSE rest[k - Len(first)]
  BY <1>2, <1>3, ConcatProperties
<1> HIDE DEF s
<1>5. /\ s[1] = Sort("epsmcr", "scu_ctrl", 0) /\ s[2] = Sort("epecr", "epecr", 0)
      /\ s[3] = Sort("epacr", "epacr", 0) /\ s[4] = Sort("epgacr", "epgacr", 0)
      /\ Len(s) = 4
  <2>1. Len(first) + Len(rest) = 4
    BY <1>2, <1>3
  <2>2. \A k \in 1 .. 4 : s[k] = IF k <= 1 THEN first[k] ELSE rest[k - 1]
    BY <1>3, <1>4, <2>1
  <2>3. s[1] = first[1] /\ s[2] = rest[1] /\ s[3] = rest[2] /\ s[4] = rest[3]
    BY <2>2
  <2> QED
    BY <1>1, <1>3, <1>4, <2>1, <2>3
<1>6. SortsFit(EpuPlan, s, 4, 16, {"scu_ctrl", "epecr", "epacr", "epgacr"},
               {"epsmcr", "epecr", "epacr", "epgacr"})
  BY <1>5 DEF SortsFit, Sort, Family, EpuPlan, WordsAt, ArrayAt
<1> QED
  BY <1>6 DEF s, first, rest

\* The stems of the files of the EPU before those that are numbered downwards;
\* scu_ctrl goes by another name.
EpuStems == (DOMAIN EpuPlan \ {"scu_ctrl", "eprsrv", "ephsr"}) \union {"epsmcr"}

\* The files of the EPU before those that are numbered downwards.
LEMMA EpuFilesBegin ==
    \E b : /\ Listing(b, Planned(DOMAIN EpuPlan \ {"eprsrv", "ephsr"}, EpuPlan), EpuStems, 267)
           /\ epu_files = b \o Downwards(epu_v2, "eprsrv", 60) \o Downwards(epu_v2, "ephsr", 4)
<1> DEFINE w1 == <<"epgcr", "epesr", "epctrisr", "epctrcsr">>
           t1 == {"epgcr", "epesr", "epctrisr", "epctrcsr"}
           b1 == Plain(epu_v2, w1)
           f1 == t1
           s1 == t1
           c1 == 4
           b2 == b1 \o Numbered(epu_v2, "episr", 0, 3)
           f2 == f1 \union {"episr"}
           s2 == s1 \union {"episr"}
           c2 == c1 + 4
           o3 == Same(<<"epimcr", "epccr", "epcmpr", "epctr", "epcapr">>)
           t3 == {"epimcr", "epccr", "epcmpr", "epctr", "epcapr"}
           b3 == b2 \o Loop(epu_v2, o3, 0, 31, 0)
           f3 == f2 \union t3
           s3 == s2 \union t3
           c3 == c2 + 32 * 5
           o4 == <<Sort("epsmcr", "scu_ctrl", 0)>> \o Same(<<"epecr", "epacr", "epgacr">>)
           t4 == {"scu_ctrl", "epecr", "epacr", "epgacr"}
           u4 == {"epsmcr", "epecr", "epacr", "epgacr"}
           b4 == b3 \o Loop(epu_v2, o4, 0, 15, 0)
           f4 == f3 \union t4
           s4 == s3 \union u4
           c4 == c3 + 16 * 4
           b5 == b4 \o Numbered(epu_v2, "epctrgcr", 0, 3)
           f5 == f4 \union {"epctrgcr"}
           s5 == s4 \union {"epctrgcr"}
           c5 == c4 + 4
           b6 == b5 \o Numbered(epu_v2, "epegcr", 0, 2)
           f6 == f5 \union {"epegcr"}
           s6 == s5 \union {"epegcr"}
           c6 == c5 + 3
           b7 == b6 \o Plain(epu_v2, <<"epxtrigcr">>)
           f7 == f6 \union {"epxtrigcr"}
           s7 == s6 \union {"epxtrigcr"}
           c7 == c6 + 1
           b8 == b7 \o Numbered(epu_v2, "epevtcr", 0, 9)
           f8 == f7 \union {"epevtcr"}
           s8 == s7 \union {"epevtcr"}
           c8 == c7 + 10
           b9 == b8 \o Plain(epu_v2, <<"epfsmsr0">>)
           f9 == f8 \union {"epfsmsr0"}
           s9 == s8 \union {"epfsmsr0"}
           c9 == c8 + 1
           o10 == Same(<<"epfsmcmpr", "epfsmcr">>)
           t10 == {"epfsmcmpr", "epfsmcr"}
           b10 == b9 \o Loop(epu_v2, o10, 0, 7, 0)
           f10 == f9 \union t10
           s10 == s9 \union t10
           c10 == c9 + 8 * 2
<1>0. AllAt(epu_v2, EpuPlan)
  BY EpuWalk, WalkedAll
<1>a. epu_files = b10 \o Downwards(epu_v2, "eprsrv", 60) \o Downwards(epu_v2, "ephsr", 4)
  BY DEF epu_files
<1>b. f10 = DOMAIN EpuPlan \ {"eprsrv", "ephsr"} /\ c10 = 267
  BY DEF EpuPlan
<1>c. s10 = EpuStems
  BY DEF EpuStems, EpuPlan
<1>1. Listing(b1, Planned(f1, EpuPlan), s1, c1)
  <2>1. Singles(EpuPlan, w1, 4, t1)
    BY DEF Singles, Family, EpuPlan, Word, WordsAt, ArrayAt
  <2> QED
    BY <1>0, <2>1, PlainFiles
<1> HIDE DEF b1
<1>2. Listing(b2, Planned(f2, EpuPlan), s2, c2)
  <2>1. FamilyFits(EpuPlan, "episr", 4, 0, 3)
    BY DEF FamilyFits, Family, EpuPlan, WordsAt, ArrayAt
  <2>2. s1 \intersect {"episr"} = {}
    OBVIOUS
  <2> HIDE DEF f1, c1, s1
  <2> QED
    BY <1>0, <1>1, <2>1, <2>2, NextNumbered
<1> HIDE DEF b2
<1>3. Listing(b3, Planned(f3, EpuPlan), s3, c3)
  <2>1. SortsFit(EpuPlan, o3, 5, 32, t3, t3)
    BY DEF SortsFit, Same, Sort, Family, EpuPlan, WordsAt, ArrayAt
  <2>2. s2 \intersect t3 = {}
    OBVIOUS
  <2>3. 0 <= 31 /\ 32 = 31 - 0 + 1
    OBVIOUS
  <2> HIDE DEF f2, c2, s2, o3, t3
  <2> QED
    BY <1>0, <1>2, <2>1, <2>2, <2>3, NextLoop
<1> HIDE DEF b3
<1>4. Listing(b4, Planned(f4, EpuPlan), s4, c4)
  <2>1. SortsFit(EpuPlan, o4, 4, 16, t4, u4)
    BY EpuSortsFit
  <2>2. s3 \intersect u4 = {}
    OBVIOUS
  <2>3. 0 <= 15 /\ 16 = 15 - 0 + 1
    OBVIOUS
  <2> HIDE DEF f3, c3, s3, o4, t4, u4
  <2> QED
    BY <1>0, <1>3, <2>1, <2>2, <2>3, NextLoop
<1> HIDE DEF b4
<1>5. Listing(b5, Planned(f5, EpuPlan), s5, c5)
  <2>1. FamilyFits(EpuPlan, "epctrgcr", 4, 0, 3)
    BY DEF FamilyFits, Family, EpuPlan, WordsAt, ArrayAt
  <2>2. s4 \intersect {"epctrgcr"} = {}
    OBVIOUS
  <2> HIDE DEF f4, c4, s4
  <2> QED
    BY <1>0, <1>4, <2>1, <2>2, NextNumbered
<1> HIDE DEF b5
<1>6. Listing(b6, Planned(f6, EpuPlan), s6, c6)
  <2>1. FamilyFits(EpuPlan, "epegcr", 3, 0, 2)
    BY DEF FamilyFits, Family, EpuPlan, WordsAt, ArrayAt
  <2>2. s5 \intersect {"epegcr"} = {}
    OBVIOUS
  <2> HIDE DEF f5, c5, s5
  <2> QED
    BY <1>0, <1>5, <2>1, <2>2, NextNumbered
<1> HIDE DEF b6
<1>7. Listing(b7, Planned(f7, EpuPlan), s7, c7)
  <2>1. Singles(EpuPlan, <<"epxtrigcr">>, 1, {"epxtrigcr"})
    BY DEF Singles, Family, EpuPlan, Word, WordsAt, ArrayAt
  <2>2. s6 \intersect {"epxtrigcr"} = {}
    OBVIOUS
  <2> HIDE DEF f6, c6, s6
  <2> QED
    BY <1>0, <1>6, <2>1, <2>2, NextPlain
<1> HIDE DEF b7
<1>8. Listing(b8, Planned(f8, EpuPlan), s8, c8)
  <2>1. FamilyFits(EpuPlan, "epevtcr", 10, 0, 9)
    BY DEF FamilyFits, Family, EpuPlan, WordsAt, ArrayAt
  <2>2. s7 \intersect {"epevtcr"} = {}
    OBVIOUS
  <2> HIDE DEF f7, c7, s7
  <2> QED
    BY <1>0, <1>7, <2>1, <2>2, NextNumbered
<1> HIDE DEF b8
<1>9. Listing(b9, Planned(f9, EpuPlan), s9, c9)
  <2>1. Singles(EpuPlan, <<"epfsmsr0">>, 1, {"epfsmsr0"})
    BY DEF Singles, Family, EpuPlan, Word, WordsAt, ArrayAt
  <2>2. s8 \intersect {"epfsmsr0"} = {}
    OBVIOUS
  <2> HIDE DEF f8, c8, s8
  <2> QED
    BY <1>0, <1>8, <2>1, <2>2, NextPlain
<1> HIDE DEF b9
<1>10. Listing(b10, Planned(f10, EpuPlan), s10, c10)
  <2>1. SortsFit(EpuPlan, o10, 2, 8, t10, t10)
    BY DEF SortsFit, Same, Sort, Family, EpuPlan, WordsAt, ArrayAt
  <2>2. s9 \intersect t10 = {}
    OBVIOUS
  <2>3. 0 <= 7 /\ 8 = 7 - 0 + 1
    OBVIOUS
  <2> HIDE DEF f9, c9, s9, o10, t10
  <2> QED
    BY <1>0, <1>9, <2>1, <2>2, <2>3, NextLoop
<1> HIDE DEF b10, f10, c10, s10
<1> QED
  BY <1>10, <1>a, <1>b, <1>c

\* The files of the EPU.
LEMMA EpuFiles ==
    Listing(epu_files, Planned(DOMAIN EpuPlan, EpuPlan),
            EpuStems \union {"eprsrv"} \union {"ephsr"}, 331)
<1> DEFINE D == DOMAIN EpuPlan \ {"eprsrv", "ephsr"}
           D2 == D \union {"eprsrv"}
           T2 == EpuStems \union {"eprsrv"}
<1>1. PICK b : /\ Listing(b, Planned(D, EpuPlan), EpuStems, 267)
               /\ epu_files = b \o Downwards(epu_v2, "eprsrv", 60)
                                  \o Downwards(epu_v2, "ephsr", 4)
  BY EpuFilesBegin
<1>2. AllAt(epu_v2, EpuPlan)
  BY EpuWalk, WalkedAll
<1>3. /\ "eprsrv" \in DOMAIN EpuPlan /\ Family(EpuPlan["eprsrv"], 60)
      /\ "ephsr" \in DOMAIN EpuPlan /\ Family(EpuPlan["ephsr"], 4)
  BY DEF Family, EpuPlan, WordsAt, ArrayAt
<1>4. D2 \union {"ephsr"} = DOMAIN EpuPlan
  BY DEF EpuPlan
<1>5. EpuStems \intersect {"eprsrv"} = {} /\ T2 \intersect {"ephsr"} = {}
  BY DEF EpuStems
<1> DEFINE b2 == b \o Downwards(epu_v2, "eprsrv", 60)
           c1 == 267
           c2 == c1 + 60
<1>6. Listing(b2, Planned(D2, EpuPlan), T2, c2)
  <2>1. Listing(b, Planned(D, EpuPlan), EpuStems, c1)
    BY <1>1
  <2> HIDE DEF D, c1
  <2> QED
    BY <1>2, <1>3, <1>5, <2>1, NextDownwards
<1> HIDE DEF D2, T2
<1>7. Listing(b2 \o Downwards(epu_v2, "ephsr", 4), Planned(D2 \union {"ephsr"}, EpuPlan),
              T2 \union {"ephsr"}, c2 + 4)
  <2> HIDE DEF b2, c2
  <2> QED
    BY <1>2, <1>3, <1>5, <1>6, NextDownwards
<1>8. c2 + 4 = 331
  OBVIOUS
<1> HIDE DEF c2
<1> QED
  BY <1>1, <1>4, <1>7, <1>8 DEF b2, T2

\* The files of the GDI but for those of the comparators.
LEMMA GdiFilesBegin ==
    Listing(Plain(gdi, <<"gdcr", "gdsr", "gdrescr1", "gdrescr2">>)
                \o Numbered(gdi, "gdpescr", 0, 31),
            Planned(DOMAIN GdiPlan \ {"gdgpc"}, GdiPlan),
            DOMAIN GdiPlan \ {"gdgpc"}, 36)
<1> DEFINE w1 == <<"gdcr", "gdsr", "gdrescr1", "gdrescr2">>
           t1 == {"gdcr", "gdsr", "gdrescr1", "gdrescr2"}
           b1 == Plain(gdi, w1)
           f1 == t1
           c1 == 4
           b2 == b1 \o Numbered(gdi, "gdpescr", 0, 31)
           f2 == f1 \union {"gdpescr"}
           c2 == c1 + 32
<1>0. AllAt(gdi, GdiPlan)
  BY GdiWalk, WalkedAll
<1>a. b2 = Plain(gdi, <<"gdcr", "gdsr", "gdrescr1", "gdrescr2">>)
              \o Numbered(gdi, "gdpescr", 0, 31)
  OBVIOUS
<1>b. f2 = DOMAIN GdiPlan \ {"gdgpc"} /\ c2 = 36
  BY DEF GdiPlan
<1>1. Listing(b1, Planned(f1, GdiPlan), f1, c1)
  <2>1. Singles(GdiPlan, w1, 4, t1)
    BY DEF Singles, Family, GdiPlan, Word, WordsAt, ArrayAt
  <2> QED
    BY <1>0, <2>1, PlainFiles
<1> HIDE DEF b1
<1>2. Listing(b2, Planned(f2, GdiPlan), f2, c2)
  <2>1. FamilyFits(GdiPlan, "gdpescr", 32, 0, 31)
    BY DEF FamilyFits, Family, GdiPlan, WordsAt, ArrayAt
  <2>2. f1 \intersect {"gdpescr"} = {}
    OBVIOUS
  <2> HIDE DEF f1, c1
  <2> QED
    BY <1>0, <1>1, <2>1, <2>2, NextNumbered
<1> HIDE DEF b2, f2, c2
<1> QED
  BY <1>2, <1>a, <1>b

\* Three files for each comparator, the one after it: the loop starts at 1 and
\* uses its variable as the index (dcsr_gdi.c:46).
LEMMA ComparatorFiles ==
    Listing(Loop(gdi, <<Sort("gdgpccr", "gdgpc", 0), Sort("gdgpcmr", "gdgpc", 4),
                        Sort("gdgpcvr", "gdgpc", 8)>>, 1, 8, 0),
            Span(ArrayAt(\h310, 8, 16, 12)), {"gdgpccr", "gdgpcmr", "gdgpcvr"}, 24)
<1> DEFINE sorts == <<Sort("gdgpccr", "gdgpc", 0), Sort("gdgpcmr", "gdgpc", 4),
                      Sort("gdgpcvr", "gdgpc", 8)>>
           s == Loop(gdi, sorts, 1, 8, 0)
           file(i, k) == Element(gdi, sorts[k].stem, i, sorts[k].field, i - 0, sorts[k].part)
<1>1. AtPlace(gdi, "gdgpc", ArrayAt(\h300, 8, 16, 12))
  <2>1. "gdgpc" \in DOMAIN GdiPlan /\ GdiPlan["gdgpc"] = ArrayAt(\h300, 8, 16, 12)
    BY DEF GdiPlan
  <2> QED
    BY <2>1, GdiWalk, WalkedPlaces
<1>2. /\ Len(sorts) = 3
      /\ \A k \in 1 .. 3 : sorts[k].field = "gdgpc" /\ sorts[k].part = 4 * (k - 1)
      /\ \A k \in 1 .. 3 : sorts[k].stem \in {"gdgpccr", "gdgpcmr", "gdgpcvr"}
      /\ \A j, k \in 1 .. 3 : sorts[j].stem = sorts[k].stem => j = k
  BY DEF Sort
<1> HIDE DEF sorts
<1>3. /\ IsList(s) /\ DOMAIN s = 1 .. 24
      /\ \A f \in Range(s) : \E i \in 1 .. 8, k \in 1 .. 3 : f = file(i, k)
      /\ \A i \in 1 .. 8, k \in 1 .. 3 : \E f \in Range(s) : f = file(i, k)
  <2>1. Makes(s, gdi, sorts, 3, 1, 8, 0)
    <3>1. 3 \in 1 .. 5 /\ 1 \in Nat /\ 8 \in Nat /\ 1 <= 8
      OBVIOUS
    <3> HIDE DEF s
    <3>2. s = Loop(gdi, sorts, 1, 8, 0)
      BY DEF s
    <3> QED
      BY <1>2, <3>1, <3>2, LoopFiles
  <2>2. (8 - 1 + 1) * 3 = 24
    OBVIOUS
  <2> HIDE DEF s
  <2> QED
    BY <2>1, <2>2 DEF Makes
<1> HIDE DEF s
<1>4. ASSUME NEW i \in 1 .. 8, NEW k \in 1 .. 3
      PROVE  /\ file(i, k).stem = sorts[k].stem /\ file(i, k).num = i
             /\ file(i, k).at = \h310 + (i - 1) * 16 + 4 * (k - 1)
  <2> DEFINE elem == i - 0
             part == 4 * (k - 1)
             p == ArrayAt(\h300, 8, 16, 12)
  <2>1. Element(gdi, sorts[k].stem, i, "gdgpc", elem, part)
           = [stem |-> sorts[k].stem, num |-> i, field |-> "gdgpc",
              at |-> p.at + elem * p.stride + part]
    <3> HIDE DEF elem, part, p
    <3>1. AtPlace(gdi, "gdgpc", p)
      BY <1>1 DEF p
    <3> QED
      BY <3>1, ElementAt
  <2>2. p.at = \h300 /\ p.stride = 16
    BY DEF ArrayAt
  <2>3. file(i, k) = Element(gdi, sorts[k].stem, i, "gdgpc", elem, part)
    BY <1>2
  <2> HIDE DEF p, file
  <2>4. \h300 + elem * 16 + part = \h310 + (i - 1) * 16 + 4 * (k - 1)
    OBVIOUS
  <2> QED
    BY <2>1, <2>2, <2>3, <2>4
<1> HIDE DEF file
<1>5. Span(ArrayAt(\h310, 8, 16, 12)) = {\h310 + i * 16 + 4 * w : i \in 0 .. 7, w \in 0 .. 2}
  BY DEF Span, ArrayAt
<1> DEFINE R == Span(ArrayAt(\h310, 8, 16, 12))
<1>6. ASSUME NEW f \in Range(s)
      PROVE  f.at \in R /\ f.stem \in {"gdgpccr", "gdgpcmr", "gdgpcvr"}
  <2>1. PICK i \in 1 .. 8, k \in 1 .. 3 : f = file(i, k)
    BY <1>3
  <2>2. f.stem = sorts[k].stem /\ f.at = \h310 + (i - 1) * 16 + 4 * (k - 1)
    BY <1>4, <2>1
  <2>3. i - 1 \in 0 .. 7 /\ k - 1 \in 0 .. 2
    OBVIOUS
  <2> QED
    BY <1>2, <1>5, <2>2, <2>3
<1>7. ASSUME NEW at \in R PROVE \E f \in Range(s) : f.at = at
  <2>1. PICK i \in 0 .. 7, w \in 0 .. 2 : at = \h310 + i * 16 + 4 * w
    BY <1>5
  <2>2. i + 1 \in 1 .. 8 /\ (i + 1) - 1 = i /\ w + 1 \in 1 .. 3 /\ (w + 1) - 1 = w
    OBVIOUS
  <2>3. file(i + 1, w + 1).at = at
    BY <1>4, <2>1, <2>2
  <2>4. PICK f \in Range(s) : f = file(i + 1, w + 1)
    BY <1>3, <2>2
  <2> QED
    BY <2>3, <2>4
<1>8. ASSUME NEW f \in Range(s), NEW g \in Range(s) PROVE InOrder(f, g)
  <2>1. PICK i \in 1 .. 8, k \in 1 .. 3 : f = file(i, k)
    BY <1>3
  <2>2. PICK j \in 1 .. 8, h \in 1 .. 3 : g = file(j, h)
    BY <1>3
  <2>3. f.stem = g.stem => k = h
    BY <1>2, <1>4, <2>1, <2>2
  <2>4. f.stem \notin {"eprsrv", "ephsr"}
    BY <1>6
  <2>5. k = h /\ f.num < g.num => f.at < g.at
    BY <1>4, <2>1, <2>2
  <2> QED
    BY <2>3, <2>4, <2>5 DEF InOrder
<1> QED
  BY <1>3, <1>6, <1>7, <1>8 DEF Listing, s, sorts

\* The registers that the files of the GDI show, and how many they are.
GdiShown == Planned(DOMAIN GdiPlan \ {"gdgpc"}, GdiPlan) \union Span(ArrayAt(\h310, 8, 16, 12))

\* They are all different, and end before \h390.
LEMMA GdiFiles ==
    /\ \E stems : Listing(gdi_files, GdiShown, stems, 60)
    /\ Counted(GdiShown, 60, \h390)
<1> DEFINE D == DOMAIN GdiPlan \ {"gdgpc"}
           A == Planned(D, GdiPlan)
           B == Span(ArrayAt(\h310, 8, 16, 12))
           T == {"gdgpccr", "gdgpcmr", "gdgpcvr"}
           a == Plain(gdi, <<"gdcr", "gdsr", "gdrescr1", "gdrescr2">>)
                    \o Numbered(gdi, "gdpescr", 0, 31)
           b == Loop(gdi, <<Sort("gdgpccr", "gdgpc", 0), Sort("gdgpcmr", "gdgpc", 4),
                            Sort("gdgpcvr", "gdgpc", 8)>>, 1, 8, 0)
<1>1. gdi_files = a \o b
  BY DEF gdi_files
<1>2. Listing(a, A, D, 36) /\ Listing(b, B, T, 24)
  BY GdiFilesBegin, ComparatorFiles
<1>3. D \intersect T = {}
  BY DEF GdiPlan
<1>4. Counted(A, 36, \h300)
  <2>1. PICK part : Walked(part, \h300, D, 36, GdiPlan)
    BY GdiBegins
  <2> HIDE DEF D
  <2> QED
    BY <2>1, WalkedRegisters
<1> HIDE DEF D, A, T, a, b
<1>5. Listing(a \o b, A \union B, D \union T, 36 + 24)
  <2> HIDE DEF B
  <2> QED
    BY <1>2, <1>3, ListingJoin
<1>6. Counted(A \union B, 60, \h390)
  <2>1. Counted(A, 36, \h310)
    BY <1>4, CountedFurther
  <2>2. Shaped(16, 12)
    BY DEF Shaped
  <2>3. Counted(A \union B, 36 + 8 * (12 \div 4), \h310 + 8 * 16)
    <3> DEFINE n == 36
               at == \h310
               m == 8
               stride == 16
               used == 12
    <3>1. n \in Nat /\ at \in Nat /\ m \in Nat /\ Counted(A, n, at) /\ Shaped(stride, used)
      BY <2>1, <2>2
    <3> HIDE DEF n, at, m, stride, used, B
    <3>2. Counted(A \union Span(ArrayAt(at, m, stride, used)),
                  n + m * (used \div 4), at + m * stride)
      BY <3>1, OneSpan
    <3> QED
      BY <3>2 DEF n, at, m, stride, used, B
  <2>4. 36 + 8 * (12 \div 4) = 60 /\ \h310 + 8 * 16 = \h390
    OBVIOUS
  <2> HIDE DEF B
  <2> QED
    BY <2>3, <2>4
<1>7. GdiShown = A \union B
  BY DEF GdiShown, A, B, D
<1>8. 36 + 24 = 60
  OBVIOUS
<1> HIDE DEF B
<1> QED
  BY <1>1, <1>5, <1>6, <1>7, <1>8

----------------------------------------------------------------------------
(* The files of a device are its registers.                                *)

\* A set of so many registers, each shown by one file.
Shows(s, registers) ==
    /\ {f.at : f \in ToSet(s)} = registers
    /\ Cardinality(registers) = Len(s)
    /\ \A f, g \in ToSet(s) : InOrder(f, g)

\* A list that has the registers of a set of as many elements is one.
LEMMA ListingShows ==
    \A s, registers, stems, n, end :
        Listing(s, registers, stems, n) /\ Counted(registers, n, end) => Shows(s, registers)
<1> SUFFICES ASSUME NEW s, NEW registers, NEW stems, NEW n, NEW end,
                    Listing(s, registers, stems, n), Counted(registers, n, end)
             PROVE  Shows(s, registers)
  OBVIOUS
<1>1. ToSet(s) = Range(s)
  BY DEF ToSet, Range
<1>2. /\ IsList(s) /\ n \in Nat /\ DOMAIN s = 1 .. n
      /\ \A f \in Range(s) : f.at \in registers
      /\ \A at \in registers : \E f \in Range(s) : f.at = at
      /\ \A f, g \in Range(s) : InOrder(f, g)
  BY DEF Listing
<1>3. Len(s) = n
  <2>1. PICK m \in Nat : s = [k \in 1 .. m |-> s[k]]
    BY <1>2 DEF IsList
  <2> DEFINE S == Range(s)
  <2>2. \A k \in 1 .. m : s[k] \in S
    BY <2>1 DEF Range
  <2> HIDE DEF S
  <2>3. [k \in 1 .. m |-> s[k]] \in Seq(S)
    BY <2>2
  <2>4. s \in Seq(S)
    BY <2>1, <2>3
  <2>5. Len(s) \in Nat /\ DOMAIN s = 1 .. Len(s)
    BY <2>4
  <2> QED
    BY <1>2, <2>5
<1>4. {f.at : f \in Range(s)} = registers
  BY <1>2
<1>5. Cardinality(registers) = n
  BY DEF Counted
<1>6. \A f, g \in ToSet(s) : InOrder(f, g)
  BY <1>1, <1>2
<1>7. {f.at : f \in ToSet(s)} = registers
  BY <1>1, <1>4
<1> QED
  BY <1>3, <1>5, <1>6, <1>7 DEF Shows

\* All but the GDI: the files show the registers of the layout.
LEMMA AllShown ==
    \A kind \in Kinds \ {"gdi"} : Shows(files[kind], RegistersOf(layout[kind]))
<1> TAKE kind \in Kinds \ {"gdi"}
<1>1. \A s, l, size, count, plan, stems :
          Walked(l, size, DOMAIN plan, count, plan)
          /\ Listing(s, Planned(DOMAIN plan, plan), stems, count)
          => Shows(s, RegistersOf(l))
  <2> TAKE s, l, size, count, plan, stems
  <2> HAVE Walked(l, size, DOMAIN plan, count, plan)
           /\ Listing(s, Planned(DOMAIN plan, plan), stems, count)
  <2> DEFINE seen == DOMAIN plan
  <2>1. Walked(l, size, seen, count, plan) /\ Listing(s, Planned(seen, plan), stems, count)
    OBVIOUS
  <2> HIDE DEF seen
  <2>2. RegistersOf(l) = Planned(seen, plan) /\ Counted(Planned(seen, plan), count, size)
    BY <2>1, WalkedRegisters
  <2> QED
    BY <2>1, <2>2, ListingShows
<1>2. CASE kind \in {"etf", "etr"}
  <2>1. files[kind] = etf_files /\ layout[kind] = etf
    BY <1>2 DEF files, layout, etr_files, etr
  <2> QED
    BY <1>1, <2>1, EtfWalk, EtfFiles
<1>3. CASE kind = "etm"
  <2>1. files[kind] = etm_files /\ layout[kind] = etm
    BY <1>3 DEF files, layout
  <2> QED
    BY <1>1, <2>1, EtmWalk, EtmFiles
<1>4. CASE kind = "cstf"
  <2>1. files[kind] = cstf_files /\ layout[kind] = funnel
    BY <1>4 DEF files, layout
  <2> QED
    BY <1>1, <2>1, FunnelWalk, FunnelFiles
<1>5. CASE kind = "epu"
  <2>1. files[kind] = epu_files /\ layout[kind] = epu_v2
    BY <1>5 DEF files, layout
  <2> QED
    BY <1>1, <2>1, EpuWalk, EpuFiles
<1>6. CASE kind = "core"
  <2>1. files[kind] = core_files /\ layout[kind] = core_pmu
    BY <1>6 DEF files, layout
  <2> QED
    BY <1>1, <2>1, PmuWalk, PmuFiles
<1>7. kind \in {"etf", "etr", "etm", "cstf", "epu", "core"}
  BY DEF Kinds, layout
<1> QED
  BY <1>2, <1>3, <1>4, <1>5, <1>6, <1>7

\* The files of the GDI, each of the comparators' one further.
Further(at) == IF at >= \h300 THEN at + 16 ELSE at

\* Each register of the GDI has its file there.
LEMMA GdiIsShown ==
    Shows(gdi_files, {Further(at) : at \in RegistersOf(gdi)})
<1> DEFINE D == DOMAIN GdiPlan \ {"gdgpc"}
           A == Planned(D, GdiPlan)
           S == Span(ArrayAt(\h300, 8, 16, 12))
           B == Span(ArrayAt(\h310, 8, 16, 12))
<1>1. /\ S = {\h300 + i * 16 + 4 * w : i \in 0 .. 7, w \in 0 .. 2}
      /\ B = {\h310 + i * 16 + 4 * w : i \in 0 .. 7, w \in 0 .. 2}
  BY DEF Span, ArrayAt
<1>2. \A at \in A : at \in Nat /\ at < \h300
  <2>1. PICK part : Walked(part, \h300, D, 36, GdiPlan)
    BY GdiBegins
  <2> HIDE DEF D
  <2>2. Counted(A, 36, \h300)
    BY <2>1, WalkedRegisters
  <2> HIDE DEF A
  <2> QED
    BY <2>2 DEF Counted
<1>3. RegistersOf(gdi) = A \union S
  <2>1. RegistersOf(gdi) = Planned(DOMAIN GdiPlan, GdiPlan)
    BY GdiWalk, WalkedRegisters
  <2>2. DOMAIN GdiPlan = D \union {"gdgpc"} /\ GdiPlan["gdgpc"] = ArrayAt(\h300, 8, 16, 12)
    BY DEF GdiPlan
  <2> HIDE DEF D
  <2>3. Planned({"gdgpc"}, GdiPlan) = S
    BY <2>2 DEF Planned
  <2> QED
    BY <2>1, <2>2, <2>3, PlannedUnion
<1>4. GdiShown = A \union B
  BY DEF GdiShown
<1> HIDE DEF D, A, S, B
<1>5. \A at \in A : Further(at) = at
  BY <1>2 DEF Further
<1>6. ASSUME NEW at \in S PROVE Further(at) \in B
  <2>1. PICK i \in 0 .. 7, w \in 0 .. 2 : at = \h300 + i * 16 + 4 * w
    BY <1>1
  <2>2. at >= \h300 /\ at + 16 = \h310 + i * 16 + 4 * w
    BY <2>1
  <2> QED
    BY <1>1, <2>2 DEF Further
<1>7. ASSUME NEW at \in B PROVE \E x \in S : at = Further(x)
  <2>1. PICK i \in 0 .. 7, w \in 0 .. 2 : at = \h310 + i * 16 + 4 * w
    BY <1>1
  <2> DEFINE x == \h300 + i * 16 + 4 * w
  <2>2. x \in S
    BY <1>1
  <2>3. x >= \h300 /\ x + 16 = at
    BY <2>1
  <2> HIDE DEF x
  <2> QED
    BY <2>2, <2>3 DEF Further
<1> HIDE DEF Further
<1>8. {Further(at) : at \in RegistersOf(gdi)} = GdiShown
  BY <1>3, <1>4, <1>5, <1>6, <1>7
<1>9. Shows(gdi_files, GdiShown)
  BY GdiFiles, ListingShows
<1> QED
  BY <1>8, <1>9

\* One file for each register, in the order of the addresses.
LEMMA FilesShow ==
    \A kind \in Kinds : OneFileEach(kind) /\ \A f, g \in ToSet(files[kind]) : InOrder(f, g)
<1> TAKE kind \in Kinds
<1>1. CASE kind = "gdi"
  <2>1. files[kind] = gdi_files /\ layout[kind] = gdi
    BY <1>1 DEF files, layout
  <2> DEFINE R == RegistersOf(layout[kind])
             s == files[kind]
             shown == {f.at : f \in ToSet(s)}
  <2>2. Shows(s, {Further(at) : at \in R})
    BY <2>1, GdiIsShown
  <2> HIDE DEF R, s
  <2>3. /\ shown = {Further(at) : at \in R} /\ Cardinality(shown) = Len(s)
        /\ \A f, g \in ToSet(s) : InOrder(f, g)
    BY <2>2 DEF Shows
  <2> HIDE DEF shown
  <2>4. {Further(at) : at \in R}
           = {IF kind = "gdi" /\ at >= \h300 THEN at + 16 ELSE at : at \in R}
    BY <1>1 DEF Further
  <2>5. OneFileEach(kind)
    BY <2>3, <2>4, Zenon DEF OneFileEach, R, s, shown
  <2> QED
    BY <2>3, <2>5 DEF s
<1>2. CASE kind # "gdi"
  <2> DEFINE R == RegistersOf(layout[kind])
             s == files[kind]
             shown == {f.at : f \in ToSet(s)}
  <2>1. Shows(s, R)
    BY <1>2, AllShown
  <2> HIDE DEF R, s
  <2>2. /\ shown = R /\ Cardinality(shown) = Len(s)
        /\ \A f, g \in ToSet(s) : InOrder(f, g)
    BY <2>1 DEF Shows
  <2> HIDE DEF shown
  <2>3. R = {IF kind = "gdi" /\ at >= \h300 THEN at + 16 ELSE at : at \in R}
    BY <1>2
  <2>4. shown = {IF kind = "gdi" /\ at >= \h300 THEN at + 16 ELSE at : at \in R}
    BY <2>2, <2>3
  <2>5. OneFileEach(kind)
    BY <2>2, <2>4, Zenon DEF OneFileEach, R, s, shown
  <2> QED
    BY <2>2, <2>5 DEF s
<1> QED
  BY <1>1, <1>2

\* On every device tree the driver loads with: the files of each device show each
\* of its registers once, the numbers of a family in the order of the addresses,
\* and nothing else; only those of the GDI's comparators are each one comparator
\* too far (dcsr_*.c, dcsr_gdi.c:46).
THEOREM FilesRight == Spec => []FilesAreRegisters
<1>1. Typed => FilesAreRegisters
  <2> SUFFICES ASSUME Typed, NEW kind \in {d.kind : d \in ToSet(dirs)}
               PROVE  OneFileEach(kind) /\ \A f, g \in ToSet(files[kind]) : InOrder(f, g)
    BY DEF FilesAreRegisters
  <2>1. kind \in Kinds
    BY DirsAreKinds
  <2> QED
    BY <2>1, FilesShow
<1> QED
  BY <1>1, AlwaysTyped, PTL

----------------------------------------------------------------------------
(* The files of the reserved registers.                                    *)

\* The files eprsrv show the reserved registers, each under its number counted
\* downwards from the last (dcsr_epu.c:114-117).
LEMMA EprsrvFilesAre ==
    \A f \in EprsrvFiles :
        f.num \in 0 .. 59 /\ f.at = EprsrvStart + 4 * (59 - f.num)
<1> DEFINE r == Downwards(epu_v2, "eprsrv", 60)
           h == Downwards(epu_v2, "ephsr", 4)
<1>1. PICK b : /\ Listing(b, Planned(DOMAIN EpuPlan \ {"eprsrv", "ephsr"}, EpuPlan),
                          EpuStems, 267)
               /\ epu_files = b \o r \o h
  BY EpuFilesBegin
<1>2. AllAt(epu_v2, EpuPlan)
  BY EpuWalk, WalkedAll
<1>3. /\ "eprsrv" \in DOMAIN EpuPlan /\ Family(EpuPlan["eprsrv"], 60)
      /\ "ephsr" \in DOMAIN EpuPlan /\ Family(EpuPlan["ephsr"], 4)
  BY DEF Family, EpuPlan, WordsAt, ArrayAt
<1>4. /\ Listing(r, Planned({"eprsrv"}, EpuPlan), {"eprsrv"}, 60)
      /\ Listing(h, Planned({"ephsr"}, EpuPlan), {"ephsr"}, 4)
  BY <1>2, <1>3, DownwardsListing
<1>5. ASSUME NEW f \in Range(r)
      PROVE  f.num \in 0 .. 59 /\ f.at = EprsrvStart + 4 * (59 - f.num)
  <2> DEFINE at(i) == OffsetAt(epu_v2, IndexOf(epu_v2, "eprsrv"))
                      + (i - 1) * epu_v2[IndexOf(epu_v2, "eprsrv")].stride + 0
  <2>1. r = [i \in 1 .. 60 |->
               [stem |-> "eprsrv", num |-> 60 - i, field |-> "eprsrv", at |-> at(i)]]
    BY DEF Downwards, Element
  <2>2. \A i \in 1 .. 60 : at(i) = EprsrvStart + 4 * (59 - (60 - i))
    BY EpuMap DEF EprsrvStart, OffsetOf
  <2> HIDE DEF r, at
  <2>3. PICK i \in 1 .. 60 : f = r[i]
    BY <2>1 DEF Range
  <2>4. f.num = 60 - i /\ f.at = EprsrvStart + 4 * (59 - (60 - i))
    BY <2>1, <2>2, <2>3
  <2>5. 60 - i \in 0 .. 59
    OBVIOUS
  <2> QED
    BY <2>4, <2>5
<1> HIDE DEF r, h
<1>6. Range(epu_files) = Range(b) \union Range(r) \union Range(h)
  <2>1. IsList(b) /\ IsList(r) /\ IsList(h)
    BY <1>1, <1>4 DEF Listing
  <2>2. IsList(b \o r) /\ Range(b \o r) = Range(b) \union Range(r)
    BY <2>1, ListConcat
  <2> QED
    BY <1>1, <2>1, <2>2, ListConcat
<1>7. /\ \A f \in Range(b) : f.stem # "eprsrv"
      /\ \A f \in Range(h) : f.stem # "eprsrv"
  BY <1>1, <1>4 DEF Listing, EpuStems
<1>8. EprsrvFiles \subseteq Range(r)
  <2>1. \A f \in EprsrvFiles : f \in Range(epu_files) /\ f.stem = "eprsrv"
    BY DEF EprsrvFiles, files, Range
  <2> QED
    BY <1>6, <1>7, <2>1
<1> QED
  BY <1>5, <1>8

----------------------------------------------------------------------------
(* The EPU from the device tree to its directory.                          *)

\* There is one device at most, and its first range is the EPU's.
OneEpu ==
    /\ \A j \in 1 .. Len(devs) : devs[j].kind = "epu" =>
          devs[j].ptr[0] \in {Null, <<"epu", 1, 0>>} /\ Done("epu", 1)
    /\ \A j, k \in 1 .. Len(devs) : devs[j].kind = "epu" /\ devs[k].kind = "epu" => j = k

\* Its directory shows the range that ls_dbg_epu_ptr points to, that of a device
\* which has had its turn.
ShownEpu ==
    \A x \in 1 .. Len(dirs) : dirs[x].kind = "epu" =>
        /\ dirs[x].base = epu_ptr
        /\ \E j \in 1 .. Len(devs) : /\ devs[j].kind = "epu" /\ devs[j].ptr[0] = epu_ptr
                                     /\ pc = "files" => j < np

LEMMA EpuInit == Init => OneEpu /\ ShownEpu
  BY DEF Init, OneEpu, ShownEpu

\* A device at the head of the list.
LEMMA HeadOf ==
    ASSUME NEW list \in Seq(Device), NEW d \in Device, NEW long, long = <<d>> \o list
    PROVE  \A j \in 1 .. Len(long) :
              \/ j = 1 /\ long[j] = d
              \/ j - 1 \in 1 .. Len(list) /\ long[j] = list[j - 1]
<1> DEFINE one == <<d>>
<1>1. one \in Seq(Device) /\ Len(one) = 1 /\ one[1] = d
  OBVIOUS
<1>2. Len(list) \in Nat
  OBVIOUS
<1> HIDE DEF one
<1>3. /\ Len(one \o list) = Len(one) + Len(list)
      /\ \A j \in 1 .. Len(one) + Len(list) :
            (one \o list)[j] = IF j <= Len(one) THEN one[j] ELSE list[j - Len(one)]
  BY <1>1, ConcatProperties
<1>4. long = one \o list
  BY DEF one
<1>5. Len(long) = 1 + Len(list)
  BY <1>1, <1>3, <1>4
<1>6. ASSUME NEW j \in 1 .. Len(long)
      PROVE  \/ j = 1 /\ long[j] = d
             \/ j - 1 \in 1 .. Len(list) /\ long[j] = list[j - 1]
  <2>1. j \in 1 .. Len(one) + Len(list)
    BY <1>1, <1>5
  <2>2. long[j] = IF j <= Len(one) THEN one[j] ELSE list[j - Len(one)]
    BY <1>3, <1>4, <2>1
  <2>3. CASE j = 1
    BY <1>1, <2>2, <2>3
  <2>4. CASE j # 1
    <3>1. j - 1 \in 1 .. Len(list) /\ ~ (j <= 1)
      BY <1>2, <1>5, <2>4
    <3> QED
      BY <1>1, <2>2, <3>1
  <2> QED
    BY <2>3, <2>4
<1> QED
  BY <1>6

LEMMA AddDeviceEpu ==
    ASSUME Typed, Staged, OneEpu, FitsEpu(tree), AddDevice
    PROVE  OneEpu' /\ ShownEpu'
<1> DEFINE kind == Order[nk]
           device(mapped) ==
               [kind |-> kind,
                ptr  |-> [i \in 0 .. MAX_MEM_RANGE - 1 |->
                             IF i \in mapped THEN <<kind, np, i>> ELSE Null]]
<1>1. /\ pc = "adding" /\ np <= Len(tree[kind]) /\ kind \in Kinds /\ tree \in Trees
      /\ np \in Nat \ {0} /\ nk \in 1 .. 7
      /\ np' = np + 1 /\ UNCHANGED <<tree, pc, nk, misc, dirs, epu_ptr>>
  BY OrderOfKinds DEF AddDevice, Typed
<1>2. PICK mapped \in SUBSET Ranges(tree[kind][np]) : devs' = <<device(mapped)>> \o devs
  BY DEF AddDevice
<1> DEFINE d == device(mapped)
<1>3. d \in Device
  BY <1>1, DeviceTyped
<1>4. d.kind = kind /\ d.ptr[0] \in {Null, <<kind, np, 0>>}
  BY DEF MAX_MEM_RANGE
<1> HIDE DEF d, device, kind
<1>5. \A j \in 1 .. Len(devs') :
         \/ j = 1 /\ devs'[j] = d
         \/ j - 1 \in 1 .. Len(devs) /\ devs'[j] = devs[j - 1]
  <2>1. devs \in Seq(Device)
    BY DEF Typed
  <2>2. devs' = <<d>> \o devs
    BY <1>2 DEF d
  <2> QED
    BY <1>3, <2>1, <2>2, HeadOf
<1>6. kind = "epu" => np = 1
  <2>1. Len(tree.epu) \in Nat /\ Len(tree.epu) <= 1
    BY <1>1, KindsAre, TreeTyped DEF FitsEpu
  <2> QED
    BY <1>1, <2>1
<1>7. Done("epu", 1) => Done("epu", 1)'
  BY <1>1 DEF Done
<1>8. kind = "epu" => Done("epu", 1)'
  <2> SUFFICES ASSUME kind = "epu" PROVE Done("epu", 1)'
    OBVIOUS
  <2>1. nk \in 1 .. nk' /\ Order[nk] = "epu" /\ 1 < np'
    BY <1>1, <1>6 DEF kind
  <2> QED
    BY <2>1 DEF Done
<1>9. kind = "epu" => ~ Done("epu", 1)
  <2> SUFFICES ASSUME kind = "epu", Done("epu", 1) PROVE FALSE
    OBVIOUS
  <2>1. PICK p \in 1 .. nk : Order[p] = "epu" /\ (p = nk => 1 < np)
    BY <1>1 DEF Done
  <2>2. p = nk
    BY <1>1, <2>1, OrderOfKinds DEF kind
  <2> QED
    BY <1>6, <2>1, <2>2
<1>10. ASSUME NEW j \in 1 .. Len(devs'), devs'[j].kind = "epu"
       PROVE  devs'[j].ptr[0] \in {Null, <<"epu", 1, 0>>} /\ Done("epu", 1)'
  <2>1. CASE j = 1 /\ devs'[j] = d
    BY <1>4, <1>6, <1>8, <1>10, <2>1
  <2>2. CASE j - 1 \in 1 .. Len(devs) /\ devs'[j] = devs[j - 1]
    BY <1>7, <1>10, <2>2 DEF OneEpu
  <2> QED
    BY <1>5, <2>1, <2>2
<1>11. ASSUME NEW j \in 1 .. Len(devs'), NEW k \in 1 .. Len(devs'),
              devs'[j].kind = "epu", devs'[k].kind = "epu"
       PROVE  j = k
  <2>1. \A x \in 1 .. Len(devs) : devs[x].kind = "epu" => kind # "epu"
    BY <1>9 DEF OneEpu
  <2>2. \/ j = 1 /\ kind = "epu"
        \/ j - 1 \in 1 .. Len(devs) /\ devs[j - 1].kind = "epu"
    BY <1>4, <1>5, <1>11
  <2>3. \/ k = 1 /\ kind = "epu"
        \/ k - 1 \in 1 .. Len(devs) /\ devs[k - 1].kind = "epu"
    BY <1>4, <1>5, <1>11
  <2>4. CASE kind = "epu"
    BY <2>1, <2>2, <2>3, <2>4
  <2>5. CASE kind # "epu"
    <3>1. j - 1 = k - 1
      BY <2>2, <2>3, <2>5 DEF OneEpu
    <3> QED
      BY <3>1
  <2> QED
    BY <2>4, <2>5
<1>12. OneEpu'
  BY <1>10, <1>11 DEF OneEpu
<1>13. ShownEpu'
  <2>1. dirs = <<>>
    BY <1>1 DEF Staged
  <2>2. dirs' = <<>>
    BY <1>1, <2>1
  <2> QED
    BY <2>2 DEF ShownEpu
<1> QED
  BY <1>12, <1>13

\* The steps after which there are no directories.
LEMMA EpuGone ==
    ASSUME OneEpu, dirs' = <<>>, devs' = <<>> \/ devs' = devs,
           Done("epu", 1) => Done("epu", 1)'
    PROVE  OneEpu' /\ ShownEpu'
<1>1. CASE devs' = <<>>
  BY <1>1 DEF OneEpu, ShownEpu
<1>2. CASE devs' = devs
  BY <1>2 DEF OneEpu, ShownEpu
<1> QED
  BY <1>1, <1>2

\* The steps that leave the devices, the directories and the pointer alone.
LEMMA EpuKept ==
    ASSUME OneEpu, ShownEpu, UNCHANGED <<devs, dirs, epu_ptr>>,
           pc' \notin {"adding", "files"}
    PROVE  OneEpu' /\ ShownEpu'
<1>1. OneEpu'
  BY DEF OneEpu, Done
<1>2. ShownEpu'
  BY DEF ShownEpu
<1> QED
  BY <1>1, <1>2

\* The directories of a device are of its kind, and the EPU's shows its first
\* range.
LEMMA NewDirsAre ==
    ASSUME NEW dev \in Device, NEW k \in 1 .. Len(NewDirs(dev))
    PROVE  /\ NewDirs(dev)[k].kind = dev.kind
           /\ dev.kind = "epu" => NewDirs(dev)[k].base = dev.ptr[0]
<1> DEFINE all   == DirsOf(dev.kind)
           taken == {j \in DOMAIN all : <<dev.kind, all[j].dir>> \in Made}
           upto  == IF taken = {} THEN Len(all) ELSE Min(taken) - 1
           new   == [j \in 1 .. upto |->
                        [kind |-> dev.kind, dir |-> all[j].dir,
                         base |-> dev.ptr[all[j].range],
                         at |-> all[j].base, whole |-> TRUE]]
<1>1. NewDirs(dev) = new
  BY DEF NewDirs
<1>2. new \in Seq(Shown) /\ Len(new) <= Len(all)
  BY <1>1, NewDirsTyped
<1> HIDE DEF upto, all
<1>3. k \in 1 .. upto /\ k \in 1 .. Len(new) /\ Len(new) \in Nat
  <2>1. DOMAIN new = 1 .. upto
    OBVIOUS
  <2> HIDE DEF new
  <2>2. DOMAIN new = 1 .. Len(new) /\ Len(new) \in Nat
    BY <1>2
  <2>3. k \in 1 .. Len(new)
    BY <1>1
  <2> QED
    BY <2>1, <2>2, <2>3
<1>4. new[k].kind = dev.kind /\ new[k].base = dev.ptr[all[k].range]
  BY <1>3
<1>5. ASSUME dev.kind = "epu" PROVE all[k].range = 0
  <2>1. all = <<[dir |-> 0, range |-> 0, base |-> 0]>>
    BY <1>5 DEF all, DirsOf, Dir
  <2>2. k = 1
    <3>1. Len(all) = 1
      BY <2>1
    <3> HIDE DEF new
    <3> QED
      BY <1>2, <1>3, <3>1
  <2> QED
    BY <2>1, <2>2
<1> QED
  BY <1>1, <1>4, <1>5

LEMMA CreateFilesEpu ==
    ASSUME Typed, OneEpu, ShownEpu, CreateFiles
    PROVE  OneEpu' /\ ShownEpu'
<1> DEFINE dev == devs[np]
           new == NewDirs(dev)
           cut(j) == [SubSeq(new, 1, j) EXCEPT ![j].whole = FALSE]
           OfDev(s) == \A k \in 1 .. Len(s) :
                          /\ s[k].kind = dev.kind
                          /\ dev.kind = "epu" => s[k].base = dev.ptr[0]
<1>1. devs \in Seq(Device) /\ np \in 1 .. Len(devs) /\ dirs \in Seq(Shown) /\ np \in Nat
  BY DEF CreateFiles, Typed
<1>2. dev \in Device
  BY <1>1, ElementOfSeq
<1>3. new \in Seq(Shown) /\ OfDev(new)
  BY <1>2, NewDirsTyped, NewDirsAre
<1>4. \A j \in DOMAIN new : cut(j) \in Seq(Shown) /\ OfDev(cut(j))
  <2> TAKE j \in DOMAIN new
  <2> DEFINE part == SubSeq(new, 1, j)
  <2> HIDE DEF new, dev
  <2>1. j \in 1 .. Len(new) /\ Len(new) \in Nat
    BY <1>3
  <2>2. /\ part \in Seq(Shown) /\ Len(part) = j
        /\ \A k \in 1 .. j : part[k] = new[k]
    BY <1>3, <2>1, SubSeqProperties
  <2> HIDE DEF part
  <2>3. part[j] \in Shown
    BY <2>1, <2>2
  <2>4. [part[j] EXCEPT !.whole = FALSE] \in Shown
    BY <2>3 DEF Shown
  <2> DEFINE shorter == [part EXCEPT ![j] = [part[j] EXCEPT !.whole = FALSE]]
  <2>5. shorter \in Seq(Shown)
    BY <2>1, <2>2, <2>4, ExceptSeq
  <2>6. Len(shorter) = j
    BY <2>1, <2>2
  <2>7. ASSUME NEW k \in 1 .. j
        PROVE  shorter[k].kind = new[k].kind /\ shorter[k].base = new[k].base
    <3>1. part[k] \in Shown /\ part[k] = new[k] /\ DOMAIN part = 1 .. j
      BY <2>1, <2>2
    <3>2. shorter[k] = IF k = j THEN [part[k] EXCEPT !.whole = FALSE] ELSE part[k]
      BY <3>1
    <3> QED
      BY <3>1, <3>2 DEF Shown
  <2>8. \A k \in 1 .. j : k \in 1 .. Len(new)
    BY <2>1
  <2>9. OfDev(shorter)
    BY <1>3, <2>6, <2>7, <2>8
  <2> QED
    BY <2>5, <2>9 DEF part
<1> HIDE DEF new, cut
<1>5. /\ pc = "files" /\ np' = np + 1 /\ UNCHANGED <<pc, devs>>
      /\ epu_ptr' = IF dev.kind = "epu" THEN dev.ptr[0] ELSE epu_ptr
      /\ dirs' = dirs \/ \E s \in Seq(Shown) : OfDev(s) /\ dirs' = dirs \o s
  <2> HIDE DEF dev
  <2>1. /\ \/ dirs' = dirs \o new /\ UNCHANGED failures
           \/ /\ failures < MaxFailures
              /\ failures' = failures + 1
              /\ dirs' = dirs \/ \E j \in DOMAIN new : dirs' = dirs \o cut(j)
    BY DEF CreateFiles, new, cut, dev
  <2>2. dirs' = dirs \/ dirs' = dirs \o new \/ \E j \in DOMAIN new : dirs' = dirs \o cut(j)
    BY <2>1
  <2>3. dirs' = dirs \/ \E s \in Seq(Shown) : OfDev(s) /\ dirs' = dirs \o s
    <3> HIDE DEF OfDev
    <3> QED
      BY <1>3, <1>4, <2>2
  <2> QED
    BY <2>3 DEF CreateFiles, dev
<1>6. OneEpu'
  BY <1>5 DEF OneEpu, Done
<1>7. ASSUME NEW x \in 1 .. Len(dirs')
      PROVE  \/ \E y \in 1 .. Len(dirs) : dirs'[x] = dirs[y]
             \/ /\ dirs'[x].kind = dev.kind
                /\ dev.kind = "epu" => dirs'[x].base = dev.ptr[0]
  <2> HIDE DEF dev
  <2>1. CASE dirs' = dirs
    BY <2>1
  <2>2. ASSUME NEW s \in Seq(Shown), OfDev(s), dirs' = dirs \o s
        PROVE  \/ \E y \in 1 .. Len(dirs) : dirs'[x] = dirs[y]
               \/ /\ dirs'[x].kind = dev.kind
                  /\ dev.kind = "epu" => dirs'[x].base = dev.ptr[0]
    <3>1. /\ Len(dirs') = Len(dirs) + Len(s)
          /\ \A k \in 1 .. Len(dirs) + Len(s) :
                dirs'[k] = IF k <= Len(dirs) THEN dirs[k] ELSE s[k - Len(dirs)]
      BY <1>1, <2>2, ConcatProperties
    <3>2. Len(dirs) \in Nat /\ Len(s) \in Nat
      BY <1>1
    <3>3. CASE x <= Len(dirs)
      BY <3>1, <3>2, <3>3
    <3>4. CASE ~ (x <= Len(dirs))
      <4>1. x - Len(dirs) \in 1 .. Len(s)
        BY <3>1, <3>2, <3>4
      <4>2. dirs'[x] = s[x - Len(dirs)]
        BY <3>1, <3>4
      <4> QED
        BY <2>2, <4>1, <4>2
    <3> QED
      BY <3>3, <3>4
  <2> HIDE DEF OfDev
  <2> QED
    BY <1>5, <2>1, <2>2
<1>8. ASSUME NEW x \in 1 .. Len(dirs'), dirs'[x].kind = "epu"
      PROVE  /\ dirs'[x].base = epu_ptr'
             /\ \E j \in 1 .. Len(devs') :
                   /\ devs'[j].kind = "epu" /\ devs'[j].ptr[0] = epu_ptr'
                   /\ pc' = "files" => j < np'
  <2>1. CASE dev.kind = "epu"
    <3>1. \A y \in 1 .. Len(dirs) : dirs[y].kind # "epu"
      <4> SUFFICES ASSUME NEW y \in 1 .. Len(dirs), dirs[y].kind = "epu" PROVE FALSE
        OBVIOUS
      <4>1. PICK j \in 1 .. Len(devs) : devs[j].kind = "epu" /\ j < np
        BY <1>5 DEF ShownEpu
      <4>2. j = np
        BY <1>1, <2>1, <4>1 DEF OneEpu
      <4> QED
        BY <1>1, <4>1, <4>2
    <3>2. dirs'[x].base = dev.ptr[0]
      BY <1>7, <1>8, <2>1, <3>1
    <3>3. np < np' /\ epu_ptr' = dev.ptr[0]
      BY <1>1, <1>5, <2>1
    <3> QED
      BY <1>1, <1>5, <2>1, <3>2, <3>3
  <2>2. CASE dev.kind # "epu"
    <3>1. PICK y \in 1 .. Len(dirs) : dirs'[x] = dirs[y]
      BY <1>7, <1>8, <2>2
    <3>2. /\ dirs[y].base = epu_ptr
          /\ \E j \in 1 .. Len(devs) : /\ devs[j].kind = "epu" /\ devs[j].ptr[0] = epu_ptr
                                       /\ pc = "files" => j < np
      BY <1>8, <3>1 DEF ShownEpu
    <3>3. epu_ptr' = epu_ptr /\ \A j \in 1 .. Len(devs) : j < np => j < np'
      BY <1>1, <1>5, <2>2
    <3> QED
      BY <1>5, <3>1, <3>2, <3>3
  <2> QED
    BY <2>1, <2>2
<1>9. ShownEpu'
  BY <1>8 DEF ShownEpu
<1> QED
  BY <1>6, <1>9

LEMMA EpuNext ==
    ASSUME Typed, Staged, OneEpu, ShownEpu, FitsEpu(tree), [Next]_vars
    PROVE  OneEpu' /\ ShownEpu'
<1>1. CASE AddDevice
  BY <1>1, AddDeviceEpu
<1>2. CASE SkipDevice
  <2>1. /\ pc = "adding" /\ np \in Nat /\ np' = np + 1
        /\ UNCHANGED <<pc, nk, devs, misc, dirs>>
    BY <1>2 DEF SkipDevice, Typed
  <2>2. dirs' = <<>>
    BY <2>1 DEF Staged
  <2>3. Done("epu", 1) => Done("epu", 1)'
    BY <2>1 DEF Done
  <2> QED
    BY <2>1, <2>2, <2>3, EpuGone
<1>3. CASE NextKind
  <2>1. /\ pc = "adding" /\ nk \in 1 .. 7 /\ UNCHANGED <<devs, misc, dirs>>
        /\ nk' = nk + 1 \/ pc' = "root"
    BY <1>3 DEF NextKind, Typed
  <2>2. dirs' = <<>>
    BY <2>1 DEF Staged
  <2>3. ASSUME Done("epu", 1) PROVE Done("epu", 1)'
    <3>1. PICK p \in 1 .. nk : Order[p] = "epu"
      BY <2>1, <2>3 DEF Done
    <3>2. CASE nk' = nk + 1
      <4>1. p \in 1 .. nk' /\ p # nk'
        BY <2>1, <3>2
      <4> QED
        BY <3>1, <4>1 DEF Done
    <3>3. CASE pc' = "root"
      BY <3>3 DEF Done
    <3> QED
      BY <2>1, <3>2, <3>3
  <2> QED
    BY <2>1, <2>2, <2>3, EpuGone
<1>4. CASE Fail /\ pc \in {"root", "misc"}
  <2>1. pc' = "vcounters" /\ devs' = <<>> /\ dirs' = dirs
    BY <1>4 DEF Fail, RemoveDevices
  <2>2. dirs' = <<>>
    BY <1>4, <2>1 DEF Staged
  <2> QED
    BY <2>1, <2>2, EpuGone DEF Done
<1>5. CASE CreateRoot /\ ~Fail
  <2>1. pc' = "misc" /\ UNCHANGED <<devs, dirs, epu_ptr>>
    BY <1>5 DEF CreateRoot
  <2> QED
    BY <2>1, EpuKept
<1>6. CASE RegAccessInit /\ ~Fail
  <2>1. pc = "misc" /\ pc' = "files" /\ UNCHANGED <<devs, dirs>>
    BY <1>6 DEF RegAccessInit
  <2>2. dirs' = <<>>
    BY <2>1 DEF Staged
  <2> QED
    BY <2>1, <2>2, EpuGone DEF Done
<1>7. CASE CreateFiles
  BY <1>7, CreateFilesEpu
<1>8. CASE Probed
  <2>1. pc' = "vcounters" /\ UNCHANGED <<devs, dirs, epu_ptr>>
    BY <1>8 DEF Probed
  <2> QED
    BY <2>1, EpuKept
<1>9. CASE VcountersInit
  <2>1. pc' \in {"live", "broken"} /\ UNCHANGED <<devs, dirs, epu_ptr>>
    BY <1>9 DEF VcountersInit
  <2> QED
    BY <2>1, EpuKept
<1>10. CASE UNCHANGED vars
  BY <1>10 DEF vars, OneEpu, ShownEpu, Done
<1> QED
  BY <1>1, <1>2, <1>3, <1>4, <1>5, <1>6, <1>7, <1>8, <1>9, <1>10
     DEF Next, CreateRoot, RegAccessInit

----------------------------------------------------------------------------
(* What the three ways to a reserved register reach.                       *)

\* The range of the EPU has its entry under the EPU's id.
LEMMA EntryOfEpu ==
    ASSUME Typed, Accounted, Complete, FitsEpu(tree), <<"epu", 1, 0>> \in MappedRanges
    PROVE  maps[Id.epu].base = <<"epu", 1, 0>> /\ maps[Id.epu].size >= \h1000
<1>1. PICK id \in Entries : maps[id].base = <<"epu", 1, 0>>
  BY DEF Complete
<1>2. PICK k \in Kinds, n \in Nat, i \in Nat : Stands(id, k, n, i)
  BY DEF Accounted
<1>3. /\ n \in 1 .. Len(tree[k]) /\ i \in Ranges(tree[k][n])
      /\ maps[id].base = <<k, n, i>> /\ maps[id].size = tree[k][n][i + 1]
      /\ Id[k] <= id /\ \A other \in Kinds : Id[other] > Id[k] => id < Id[other]
  BY <1>2 DEF Stands
<1>4. k = "epu" /\ n = 1 /\ i = 0
  BY <1>1, <1>3
<1>5. id = Id.epu
  <2>1. "gdi" \in Kinds /\ Id.epu = 7 /\ Id["gdi"] = 8 /\ id \in Int
    BY KindsAre DEF Id, Entries
  <2> QED
    BY <1>3, <1>4, <2>1
<1>6. tree.epu[1][1] >= \h1000
  <2>1. 1 \in DOMAIN tree.epu /\ 0 \in Ranges(tree.epu[1])
    BY <1>3, <1>4, KindsAre, TreeTyped DEF Typed
  <2> QED
    BY <2>1, EpuMap DEF FitsEpu
<1> QED
  BY <1>1, <1>3, <1>4, <1>5, <1>6

LEMMA ReservationsMeet ==
    ASSUME Typed, Staged, Table, OneEpu, ShownEpu, FitsEpu(tree)
    PROVE  ReservationsMeetFiles
<1> SUFFICES ASSUME NEW d \in ToSet(dirs), d.kind = "epu", d.base # Null,
                    NEW grp \in DOMAIN ResourceOffset, NEW f \in EprsrvFiles,
                    f.num = ResourceOffset[grp]
             PROVE  /\ Locate(Id.epu, f.at) = ResourceWord(grp)
                    /\ d.base = ResourceWord(grp).base
  BY DEF ReservationsMeetFiles
<1>1. PICK x \in 1 .. Len(dirs) : d = dirs[x]
  BY DEF ToSet
<1>2. /\ d.base = epu_ptr
      /\ \E j \in 1 .. Len(devs) : devs[j].kind = "epu" /\ devs[j].ptr[0] = epu_ptr
  BY <1>1 DEF ShownEpu
<1>3. PICK j \in 1 .. Len(devs) : devs[j].kind = "epu" /\ devs[j].ptr[0] = epu_ptr
  BY <1>2
<1>4. epu_ptr = <<"epu", 1, 0>>
  BY <1>2, <1>3 DEF OneEpu
<1>5. epu_ptr \in MappedRanges
  <2>1. devs[j] \in ToSet(devs) /\ 0 \in 0 .. MAX_MEM_RANGE - 1
    BY DEF ToSet, MAX_MEM_RANGE
  <2> QED
    BY <1>2, <1>3, <2>1 DEF MappedRanges
<1>6. Accounted /\ Complete
  <2>1. dirs # <<>>
    BY <1>1
  <2> QED
    BY <2>1 DEF Staged, Table, Active
<1>7. maps[Id.epu].base = epu_ptr /\ maps[Id.epu].size >= \h1000
  BY <1>4, <1>5, <1>6, EntryOfEpu
<1>8. f.num \in 0 .. 59 /\ f.at = \hf00 + 4 * (59 - f.num)
  BY EprsrvFilesAre, EpuMap
<1>9. f.at \in Nat /\ f.at < \h1000
  <2>1. \A num, at : num \in 0 .. 59 /\ at = \hf00 + 4 * (59 - num) => at \in Nat /\ at < \h1000
    OBVIOUS
  <2> QED
    BY <1>8, <2>1
<1>10. Locate(Id.epu, f.at) = Found(Id.epu, f.at)
  <2>1. Id.epu \in 0 .. NUM_IDS - 1
    BY DEF Id, NUM_IDS, VCOUNT, NUM_IO_IDS
  <2>2. maps[Id.epu].size \in Nat
    BY <2>1, <1>9, LocateIs
  <2>3. ~ (f.at >= maps[Id.epu].size)
    BY <1>7, <1>9, <2>2
  <2> QED
    BY <1>9, <2>1, <2>3, LocateIs
<1>11. Found(Id.epu, f.at) = [ret |-> "ok", base |-> epu_ptr, at |-> f.at]
  BY <1>7 DEF Found
<1>12. ResourceWord(grp) = [ret |-> "ok", base |-> epu_ptr, at |-> f.at]
  <2>1. EprsrvStart + 4 * ResourceIndex(ResourceOffset[grp]) = f.at
    BY <1>8, EpuMap DEF ResourceIndex
  <2> QED
    BY <2>1 DEF ResourceWord
<1> QED
  BY <1>2, <1>10, <1>11, <1>12

\* For device trees that fit the ids and have at most one EPU, large enough for
\* its map, and whatever has failed: a bit reserved through the ioctl is a bit of
\* the word that the file eprsrv of the group's number shows and that a register
\* ioctl at that file's offset reaches (reg_access.c:241-275, dcsr_epu.c:55, 114).
THEOREM ReservationsRight ==
    ASSUME \A t \in Trees : FitsIds(t) /\ FitsEpu(t)
    PROVE  Spec => []ReservationsMeetFiles
<1> DEFINE Inv == Typed /\ Staged /\ Table /\ OneEpu /\ ShownEpu
<1>1. Init => Inv
  BY TypedInit, TableInit, EpuInit
<1>2. Inv /\ [Next]_vars => Inv'
  <2> SUFFICES ASSUME Inv, [Next]_vars PROVE Inv'
    OBVIOUS
  <2>1. Typed' /\ Staged'
    BY TypedNext
  <2>2. FitsIds(tree) /\ FitsEpu(tree)
    BY DEF Typed
  <2>3. Table'
    BY <2>1, <2>2, TableNext
  <2>4. OneEpu' /\ ShownEpu'
    BY <2>2, EpuNext
  <2> QED
    BY <2>1, <2>3, <2>4
<1>3. Inv => ReservationsMeetFiles
  <2> SUFFICES ASSUME Inv PROVE ReservationsMeetFiles
    OBVIOUS
  <2>1. FitsEpu(tree)
    BY DEF Typed
  <2> QED
    BY <2>1, ReservationsMeet
<1> QED
  BY <1>1, <1>2, <1>3, PTL DEF Spec

----------------------------------------------------------------------------
(* The files and the ioctls.  While nothing has failed, the ranges of a    *)
(* kind with one node have the first ids of the kind, its device has all   *)
(* of them mapped, and each of its directories shows one.                  *)

IndexFull == failures = 0 /\ pc = "adding" => index = np - 1

EntriesFull ==
    failures = 0 /\ Active =>
        \A k \in Kinds : Len(tree[k]) = 1 /\ Done(k, 1) =>
            \A i \in Ranges(tree[k][1]) :
                maps[Id[k] + i] = [base |-> <<k, 1, i>>, size |-> tree[k][1][i + 1]]

DevFull(d) ==
    Len(tree[d.kind]) = 1 =>
        \A i \in Ranges(tree[d.kind][1]) : d.ptr[i] = <<d.kind, 1, i>>

DevsFull == failures = 0 => \A j \in 1 .. Len(devs) : DevFull(devs[j])

DirFull(x) ==
    Len(tree[x.kind]) = 1 =>
        \E place \in ToSet(DirsOf(x.kind)) :
            /\ x.dir = place.dir /\ x.at = place.base
            /\ place.range \in Ranges(tree[x.kind][1]) => x.base = <<x.kind, 1, place.range>>

DirsFull == failures = 0 => \A j \in 1 .. Len(dirs) : DirFull(dirs[j])

Full == IndexFull /\ EntriesFull /\ DevsFull /\ DirsFull

LEMMA FullInit == Init => Full
<1> SUFFICES ASSUME Init PROVE Full
  OBVIOUS
<1>1. /\ index = 0 /\ np = 1 /\ nk = 1 /\ pc = "adding"
      /\ Len(devs) = 0 /\ Len(dirs) = 0
  BY DEF Init
<1>2. \A k : ~ Done(k, 1)
  BY <1>1 DEF Done
<1> QED
  BY <1>1, <1>2 DEF Full, IndexFull, EntriesFull, DevsFull, DirsFull

\* Where the entries of a first node are.
LEMMA FirstIds ==
    ASSUME tree \in Trees, FitsIds(tree), NEW k \in Kinds, Len(tree[k]) = 1,
           NEW i \in Ranges(tree[k][1])
    PROVE  /\ Id[k] + i \in 0 .. NUM_IO_IDS - 1
           /\ Id[k] <= Id[k] + i
           /\ \A other \in Kinds : Id[other] > Id[k] => Id[k] + i < Id[other]
<1>1. 1 \in DOMAIN tree[k]
  BY TreeTyped
<1>2. /\ Id[k] + 1 - 1 + i < NUM_IO_IDS
      /\ \A other \in Kinds : Id[other] > Id[k] => Id[k] + 1 - 1 + i < Id[other]
  BY <1>1 DEF FitsIds
<1>3. Id[k] \in Nat /\ \A other \in Kinds : Id[other] \in Nat
  BY IdsApart
<1>4. i \in Nat
  BY RangesOfNode
<1>5. Id[k] + 1 - 1 + i = Id[k] + i
  BY <1>3, <1>4
<1> QED
  BY <1>2, <1>3, <1>4, <1>5 DEF NUM_IO_IDS

\* A node of which nothing has failed has all its ranges mapped.
LEMMA NoneFailed ==
    ASSUME Typed, NEW k, NEW mapped, AddedTo(k, mapped), Headed(k, mapped), failures' = 0
    PROVE  failures = 0 /\ mapped = Ranges(tree[k][np])
<1> DEFINE ranges == Ranges(tree[k][np])
<1>1. IsFiniteSet(ranges) /\ mapped \in SUBSET ranges
  BY RangesOfNode DEF AddedTo
<1> HIDE DEF ranges
<1>2. /\ Cardinality(ranges) \in Nat /\ Cardinality(mapped) \in Nat
      /\ Cardinality(mapped) <= Cardinality(ranges)
      /\ Cardinality(mapped) = Cardinality(ranges) => mapped = ranges
  BY <1>1, FS_Subset, FS_CardinalityType
<1>3. failures \in Nat
  BY FailuresAssumption DEF Typed
<1>4. 0 = failures + (Cardinality(ranges) - Cardinality(mapped))
  BY DEF Headed, ranges
<1>5. failures = 0 /\ Cardinality(mapped) = Cardinality(ranges)
  BY <1>2, <1>3, <1>4
<1> QED
  BY <1>2, <1>5 DEF ranges

LEMMA AddDeviceFull ==
    ASSUME Typed, Staged, Full, FitsIds(tree), AddDevice
    PROVE  Full'
<1> SUFFICES ASSUME failures' = 0
             PROVE  IndexFull' /\ EntriesFull' /\ DevsFull' /\ DirsFull'
  BY DEF Full, IndexFull, EntriesFull, DevsFull, DirsFull
<1>1. PICK mapped : AddedTo(Order[nk], mapped) /\ Headed(Order[nk], mapped)
  BY AddDeviceAdds
<1>2. failures = 0 /\ mapped = Ranges(tree[Order[nk]][np])
  BY <1>1, NoneFailed
<1>3. PICK k, n0 : k = Order[nk] /\ n0 = np
  OBVIOUS
<1>4. /\ k \in Kinds /\ pc = "adding" /\ n0 \in 1 .. Len(tree[k])
      /\ UNCHANGED <<tree, pc, nk, misc>> /\ np' = n0 + 1 /\ index' = index + 1
      /\ \A i \in mapped :
            maps'[Id[k] + index + i] = [base |-> <<k, n0, i>>, size |-> tree[k][n0][i + 1]]
      /\ \A id \in 0 .. NUM_IO_IDS - 1 :
            (\A i \in mapped : id # Id[k] + index + i) => maps'[id] = maps[id]
  BY <1>1, <1>3 DEF AddedTo
<1>5. PICK d \in Device : /\ d.kind = k /\ \A i \in mapped : d.ptr[i] = <<k, n0, i>>
                          /\ devs' = <<d>> \o devs
  BY <1>1, <1>3 DEF Headed
<1>6. /\ index = n0 - 1 /\ tree \in Trees /\ n0 \in Nat /\ nk \in 1 .. 7
      /\ devs \in Seq(Device) /\ np = n0
  BY <1>2, <1>3, <1>4 DEF Full, IndexFull, Typed
<1>7. Len(tree[k]) = 1 => n0 = 1 /\ index = 0
  BY <1>4, <1>6
<1>8. IndexFull'
  BY <1>4, <1>6 DEF IndexFull
<1>9. EntriesFull'
  <2> SUFFICES ASSUME NEW j \in Kinds, Len(tree[j]) = 1, Done(j, 1)',
                      NEW i \in Ranges(tree[j][1])
               PROVE  maps'[Id[j] + i] = [base |-> <<j, 1, i>>, size |-> tree[j][1][i + 1]]
    BY <1>4 DEF EntriesFull
  <2>1. CASE j = k
    <3>1. n0 = 1 /\ index = 0 /\ i \in mapped
      BY <1>2, <1>3, <1>7, <2>1
    <3>2. Id[k] \in Nat /\ i \in Nat
      BY <1>4, IdsApart, RangesOfNode
    <3>3. Id[k] + index + i = Id[j] + i
      BY <2>1, <3>1, <3>2
    <3> QED
      BY <1>4, <2>1, <3>1, <3>3
  <2>2. CASE j # k
    <3>1. Done(j, 1)
      <4>1. PICK p \in 1 .. nk : Order[p] = j
        BY <1>4 DEF Done
      <4>2. p # nk
        BY <1>3, <2>2, <4>1
      <4> QED
        BY <4>1, <4>2 DEF Done
    <3>2. maps[Id[j] + i] = [base |-> <<j, 1, i>>, size |-> tree[j][1][i + 1]]
      BY <1>2, <1>4, <3>1 DEF Full, EntriesFull, Active
    <3>3. /\ Id[j] + i \in 0 .. NUM_IO_IDS - 1 /\ Id[j] <= Id[j] + i
          /\ \A other \in Kinds : Id[other] > Id[j] => Id[j] + i < Id[other]
      BY <1>6, FirstIds
    <3>4. ASSUME NEW x \in mapped, Id[j] + i = Id[k] + index + x PROVE FALSE
      <4>1. np <= Len(tree[k])
        BY <1>4, <1>6, TreeTyped
      <4>2. \A other \in Kinds : Id[other] > Id[k] => Id[k] + index + x < Id[other]
        BY <1>2, <1>3, <1>4, <4>1, NextIds
      <4>3. x \in Nat /\ Id[k] \in Nat /\ index \in Nat
        BY <1>2, <1>4, RangesOfNode, IdsApart DEF Typed
      <4>4. Id[k] <= Id[k] + index + x
        BY <4>3
      <4> DEFINE id == Id[j] + i
      <4>5. /\ id \in Nat /\ Id[j] <= id /\ Id[k] <= id
            /\ \A other \in Kinds : Id[other] > Id[j] => id < Id[other]
            /\ \A other \in Kinds : Id[other] > Id[k] => id < Id[other]
        BY <3>3, <3>4, <4>2, <4>4
      <4> HIDE DEF id
      <4>6. j = k
        BY <1>4, <4>5, KindOfId
      <4> QED
        BY <2>2, <4>6
    <3>5. maps'[Id[j] + i] = maps[Id[j] + i]
      BY <1>4, <3>3, <3>4
    <3> QED
      BY <3>2, <3>5
  <2> QED
    BY <2>1, <2>2
<1>10. DevsFull'
  <2>1. DevFull(d)
    BY <1>2, <1>3, <1>5, <1>7 DEF DevFull
  <2>2. \A j \in 1 .. Len(devs') :
           \/ j = 1 /\ devs'[j] = d
           \/ j - 1 \in 1 .. Len(devs) /\ devs'[j] = devs[j - 1]
    BY <1>5, <1>6, HeadOf
  <2>3. \A j \in 1 .. Len(devs) : DevFull(devs[j])
    BY <1>2 DEF Full, DevsFull
  <2>4. ASSUME NEW j \in 1 .. Len(devs') PROVE DevFull(devs'[j])
    BY <2>1, <2>2, <2>3
  <2>5. ASSUME NEW j \in 1 .. Len(devs') PROVE DevFull(devs[j])'
    BY <1>4, <2>4 DEF DevFull
  <2> QED
    BY <2>5 DEF DevsFull
<1>11. DirsFull'
  <2>1. Len(dirs') = 0
    <3>1. dirs' = dirs
      BY DEF AddDevice
    <3> QED
      BY <1>4, <3>1 DEF Staged
  <2> QED
    BY <2>1 DEF DirsFull
<1> QED
  BY <1>8, <1>9, <1>10, <1>11

\* What stays when the tree, the entries of the ranges and the nodes that have
\* been looked at do.
LEMMA EntriesKept ==
    ASSUME Typed, EntriesFull, FitsIds(tree), UNCHANGED <<tree, failures>>, Active' => Active,
           \A id \in 0 .. NUM_IO_IDS - 1 : maps'[id] = maps[id],
           \A k \in Kinds : Len(tree[k]) = 1 /\ Done(k, 1)' => Done(k, 1)
    PROVE  EntriesFull'
<1> SUFFICES ASSUME failures = 0, Active', NEW k \in Kinds, Len(tree[k]) = 1, Done(k, 1)',
                    NEW i \in Ranges(tree[k][1])
             PROVE  maps'[Id[k] + i] = [base |-> <<k, 1, i>>, size |-> tree[k][1][i + 1]]
  BY DEF EntriesFull
<1>1. maps[Id[k] + i] = [base |-> <<k, 1, i>>, size |-> tree[k][1][i + 1]]
  BY DEF EntriesFull
<1>2. Id[k] + i \in 0 .. NUM_IO_IDS - 1
  BY FirstIds DEF Typed
<1> QED
  BY <1>1, <1>2

LEMMA ListsKept ==
    ASSUME Full, UNCHANGED <<tree, failures>>, devs' = devs \/ devs' = <<>>
    PROVE  DevsFull' /\ (dirs' = dirs => DirsFull')
<1>1. DevsFull'
  <2>1. CASE devs' = devs
    BY <2>1 DEF Full, DevsFull, DevFull
  <2>2. CASE devs' = <<>>
    BY <2>2 DEF DevsFull
  <2> QED
    BY <2>1, <2>2
<1>2. dirs' = dirs => DirsFull'
  BY DEF Full, DirsFull, DirFull
<1> QED
  BY <1>1, <1>2

LEMMA NextKindFull ==
    ASSUME Typed, Full, FitsIds(tree), NextKind
    PROVE  Full'
<1>1. /\ pc = "adding" /\ nk \in 1 .. 7 /\ np > Len(tree[Order[nk]])
      /\ np' = 1 /\ index' = 0 /\ Len(Order) = 7
      /\ UNCHANGED <<tree, devs, dirs, maps, misc, failures>>
      /\ \/ nk' = nk + 1
         \/ nk = 7 /\ pc' = "root"
  BY OrderOfKinds DEF NextKind, FirstIndex, Typed
<1>2. ASSUME NEW k \in Kinds, Len(tree[k]) = 1, Done(k, 1)' PROVE Done(k, 1)
  <2>1. CASE nk' = nk + 1 /\ pc' = "adding"
    <3>1. PICK p \in 1 .. nk' : Order[p] = k /\ (p = nk' => 1 < np')
      BY <1>2, <2>1 DEF Done
    <3>2. p \in 1 .. nk
      BY <1>1, <2>1, <3>1
    <3>3. p = nk => 1 < np
      BY <1>1, <1>2, <3>1
    <3> QED
      BY <3>1, <3>2, <3>3 DEF Done
  <2>2. CASE nk = 7
    <3>1. PICK p \in 1 .. 7 : Order[p] = k
      BY OrderOfKinds
    <3>2. p = nk => 1 < np
      BY <1>1, <1>2, <3>1
    <3> QED
      BY <2>2, <3>1, <3>2 DEF Done
  <2>3. pc' = "adding" \/ nk = 7
    BY <1>1, OrderOfKinds DEF NextKind
  <2> QED
    BY <1>1, <2>1, <2>2, <2>3
<1>3. EntriesFull'
  BY <1>1, <1>2, EntriesKept DEF Full, Active
<1>4. IndexFull'
  BY <1>1 DEF IndexFull
<1>5. DevsFull' /\ DirsFull'
  BY <1>1, ListsKept
<1> QED
  BY <1>3, <1>4, <1>5 DEF Full

\* The steps after which something has failed.
LEMMA FailedFull ==
    ASSUME Typed, failures' = failures + 1
    PROVE  Full'
<1>1. failures' # 0
  BY FailuresAssumption DEF Typed
<1> QED
  BY <1>1 DEF Full, IndexFull, EntriesFull, DevsFull, DirsFull

\* The steps that leave the devices and the entries of the ranges alone.
LEMMA RestFull ==
    ASSUME Typed, Full, FitsIds(tree), UNCHANGED <<tree, devs, failures>>,
           \A id \in 0 .. NUM_IO_IDS - 1 : maps'[id] = maps[id],
           pc # "adding", pc' # "adding", Active' => Active
    PROVE  IndexFull' /\ EntriesFull' /\ DevsFull' /\ (dirs' = dirs => DirsFull')
<1>1. IndexFull'
  BY DEF IndexFull
<1>2. \A k \in Kinds : Done(k, 1)
  BY DEF Done
<1>3. EntriesFull'
  BY <1>2, EntriesKept DEF Full
<1>4. DevsFull' /\ (dirs' = dirs => DirsFull')
  BY ListsKept
<1> QED
  BY <1>1, <1>3, <1>4

LEMMA NewDirsFull ==
    ASSUME NEW dev \in Device, DevFull(dev), NEW x \in 1 .. Len(NewDirs(dev))
    PROVE  DirFull(NewDirs(dev)[x])
<1> DEFINE all   == DirsOf(dev.kind)
           taken == {j \in DOMAIN all : <<dev.kind, all[j].dir>> \in Made}
           upto  == IF taken = {} THEN Len(all) ELSE Min(taken) - 1
           new   == [j \in 1 .. upto |->
                        [kind |-> dev.kind, dir |-> all[j].dir,
                         base |-> dev.ptr[all[j].range],
                         at |-> all[j].base, whole |-> TRUE]]
<1>1. NewDirs(dev) = new
  BY DEF NewDirs
<1>2. new \in Seq(Shown) /\ Len(new) <= Len(all)
  BY <1>1, NewDirsTyped
<1>3. dev.kind \in Kinds
  BY DEF Device
<1>4. DOMAIN all = 1 .. Len(all) /\ Len(all) \in Nat
  BY <1>3, DirsTyped
<1> HIDE DEF upto, all
<1>5. x \in 1 .. upto /\ x \in 1 .. Len(new) /\ Len(new) \in Nat
  <2>1. DOMAIN new = 1 .. upto
    OBVIOUS
  <2> HIDE DEF new
  <2>2. DOMAIN new = 1 .. Len(new) /\ Len(new) \in Nat
    BY <1>2
  <2>3. x \in 1 .. Len(new)
    BY <1>1
  <2> QED
    BY <2>1, <2>2, <2>3
<1>6. /\ new[x].kind = dev.kind /\ new[x].dir = all[x].dir
      /\ new[x].base = dev.ptr[all[x].range] /\ new[x].at = all[x].base
  BY <1>5
<1> HIDE DEF new
<1>7. x \in DOMAIN all
  BY <1>2, <1>4, <1>5
<1>8. all[x] \in ToSet(DirsOf(dev.kind))
  BY <1>7 DEF ToSet, all
<1> QED
  BY <1>1, <1>6, <1>8 DEF DirFull, DevFull

LEMMA CreateFilesFull ==
    ASSUME Typed, Full, FitsIds(tree), CreateFiles
    PROVE  Full'
<1>1. CASE failures' = failures + 1
  BY <1>1, FailedFull
<1>2. CASE failures' # failures + 1
  <2> DEFINE dev == devs[np]
             new == NewDirs(dev)
  <2>1. devs \in Seq(Device) /\ np \in 1 .. Len(devs) /\ dirs \in Seq(Shown)
    BY DEF CreateFiles, Typed
  <2>2. dev \in Device
    BY <2>1, ElementOfSeq
  <2>3. new \in Seq(Shown)
    BY <2>2, NewDirsTyped
  <2>4. /\ pc = "files" /\ UNCHANGED <<tree, pc, devs, maps, misc, failures>>
        /\ dirs' = dirs \o new
    BY <1>2 DEF CreateFiles
  <2>5. IndexFull' /\ EntriesFull' /\ DevsFull'
    BY <2>4, RestFull DEF Active
  <2>6. ASSUME failures = 0, NEW x \in 1 .. Len(dirs') PROVE DirFull(dirs'[x])
    <3>1. DevFull(dev)
      BY <2>1, <2>6 DEF Full, DevsFull
    <3>2. \A y \in 1 .. Len(new) : DirFull(new[y])
      BY <2>2, <3>1, NewDirsFull
    <3>3. \A y \in 1 .. Len(dirs) : DirFull(dirs[y])
      BY <2>6 DEF Full, DirsFull
    <3> HIDE DEF new, dev
    <3>4. /\ Len(dirs') = Len(dirs) + Len(new)
          /\ \A k \in 1 .. Len(dirs) + Len(new) :
                dirs'[k] = IF k <= Len(dirs) THEN dirs[k] ELSE new[k - Len(dirs)]
      BY <2>1, <2>3, <2>4, ConcatProperties
    <3>5. Len(dirs) \in Nat /\ Len(new) \in Nat
      BY <2>1, <2>3
    <3>6. CASE x <= Len(dirs)
      <4>1. x \in 1 .. Len(dirs) /\ dirs'[x] = dirs[x]
        BY <3>4, <3>5, <3>6
      <4> QED
        BY <3>3, <4>1
    <3>7. CASE ~ (x <= Len(dirs))
      <4>1. x - Len(dirs) \in 1 .. Len(new) /\ dirs'[x] = new[x - Len(dirs)]
        BY <3>4, <3>5, <3>7
      <4> QED
        BY <3>2, <4>1
    <3> QED
      BY <3>6, <3>7
  <2>7. ASSUME failures = 0, NEW x \in 1 .. Len(dirs') PROVE DirFull(dirs[x])'
    BY <2>4, <2>6, <2>7 DEF DirFull
  <2>8. DirsFull'
    BY <2>4, <2>7 DEF DirsFull
  <2> QED
    BY <2>5, <2>8 DEF Full
<1> QED
  BY <1>1, <1>2

LEMMA FullNext ==
    ASSUME Typed, Staged, Full, FitsIds(tree), [Next]_vars
    PROVE  Full'
<1>1. CASE AddDevice
  BY <1>1, AddDeviceFull
<1>2. CASE SkipDevice
  BY <1>2, FailedFull DEF SkipDevice
<1>3. CASE NextKind
  BY <1>3, NextKindFull
<1>4. CASE Fail
  BY <1>4, FailedFull DEF Fail
<1>5. CASE CreateRoot /\ ~Fail
  <2>1. /\ pc = "root" /\ pc' = "misc"
        /\ UNCHANGED <<tree, devs, maps, misc, dirs, failures>>
    BY <1>5 DEF CreateRoot
  <2> QED
    BY <2>1, RestFull DEF Active, Full
<1>6. CASE RegAccessInit /\ ~Fail
  <2>1. /\ pc = "misc" /\ pc' = "files" /\ UNCHANGED <<tree, devs, maps, dirs, failures>>
    BY <1>6 DEF RegAccessInit
  <2> QED
    BY <2>1, RestFull DEF Active, Full
<1>7. CASE CreateFiles
  BY <1>7, CreateFilesFull
<1>8. CASE Probed
  <2>1. /\ pc = "files" /\ pc' = "vcounters"
        /\ UNCHANGED <<tree, devs, maps, misc, dirs, failures>>
    BY <1>8 DEF Probed
  <2> QED
    BY <2>1, RestFull DEF Active, Full
<1>9. CASE VcountersInit
  <2>1. /\ pc = "vcounters" /\ pc' \in {"live", "broken"}
        /\ UNCHANGED <<tree, devs, misc, dirs>>
    BY <1>9 DEF VcountersInit
  <2>2. CASE failures' = failures + 1
    BY <2>2, FailedFull
  <2>3. CASE maps' = AddMap(maps, VCOUNT, RamBase, SizeOf(vcounters)) /\ UNCHANGED failures
    <3>1. \A id \in 0 .. NUM_IO_IDS - 1 : id # VCOUNT /\ id \in 0 .. NUM_IDS - 1
      BY DEF VCOUNT, NUM_IDS, NUM_IO_IDS
    <3>2. maps \in [0 .. NUM_IDS - 1 -> Entry]
      BY DEF Typed
    <3>3. \A id \in 0 .. NUM_IO_IDS - 1 : maps'[id] = maps[id]
      BY <2>3, <3>1, <3>2 DEF AddMap
    <3> QED
      BY <2>1, <2>3, <3>3, RestFull DEF Active, Full
  <2> QED
    BY <1>9, <2>2, <2>3 DEF VcountersInit
<1>10. CASE UNCHANGED vars
  <2>1. UNCHANGED <<tree, pc, nk, np, index, devs, maps, misc, dirs, failures>>
    BY <1>10 DEF vars
  <2>2. (Active' <=> Active) /\ \A k \in Kinds : Done(k, 1)' <=> Done(k, 1)
    BY <2>1 DEF Active, Done
  <2>3. EntriesFull'
    BY <2>1, <2>2, EntriesKept DEF Full
  <2>4. DevsFull' /\ DirsFull'
    BY <2>1, ListsKept
  <2>5. IndexFull'
    BY <2>1 DEF Full, IndexFull
  <2> QED
    BY <2>3, <2>4, <2>5 DEF Full
<1> QED
  BY <1>1, <1>2, <1>3, <1>4, <1>5, <1>6, <1>7, <1>8, <1>9, <1>10
     DEF Next, CreateRoot, RegAccessInit

\* A pair of directories.
LEMMA PairOfDirs ==
    ASSUME NEW first \in Nat, NEW second \in Nat, NEW base \in Nat,
           NEW place \in ToSet(Dir(0, first, 0) \o Dir(1, second, base))
    PROVE  \/ place.dir = 0 /\ place.range = first
           \/ place.dir = 1 /\ place.range = second
<1> DEFINE a == Dir(0, first, 0)
           b == Dir(1, second, base)
           Place == [dir : Nat, range : Nat, base : Nat]
<1>1. /\ a \in Seq(Place) /\ Len(a) = 1 /\ a[1].dir = 0 /\ a[1].range = first
      /\ b \in Seq(Place) /\ Len(b) = 1 /\ b[1].dir = 1 /\ b[1].range = second
  BY DEF Dir
<1> HIDE DEF a, b, Place
<1>2. /\ a \o b \in Seq(Place) /\ Len(a \o b) = Len(a) + Len(b)
      /\ \A j \in 1 .. Len(a) + Len(b) :
            (a \o b)[j] = IF j <= Len(a) THEN a[j] ELSE b[j - Len(a)]
  BY <1>1, ConcatProperties
<1>3. PICK j \in 1 .. Len(a \o b) : place = (a \o b)[j]
  BY <1>2 DEF ToSet, a, b
<1>4. j = 1 \/ j = 2
  BY <1>1, <1>2, <1>3
<1> QED
  BY <1>1, <1>2, <1>3, <1>4

\* The id that a file and the ioctl agree on is that of the range the directory
\* shows.
LEMMA RangeOfDir ==
    ASSUME NEW k \in Kinds, NEW place \in ToSet(DirsOf(k)),
           ~ (k \in {"etm", "cstf"} /\ place.dir = 1)
    PROVE  place.range = IF k = "core" THEN 0 ELSE place.dir
<1>1. CASE k = "etf"
  <2>1. DirsOf(k) = Dir(0, 0, 0) \o Dir(1, 1, 0)
    BY <1>1 DEF DirsOf, OwnRange
  <2>2. \/ place.dir = 0 /\ place.range = 0
        \/ place.dir = 1 /\ place.range = 1
    BY <2>1, PairOfDirs
  <2> QED
    BY <1>1, <2>2
<1>2. CASE k \in {"etm", "cstf"}
  <2>1. DirsOf(k) = Dir(0, 0, 0) \o Dir(1, 0, 0)
    BY <1>2 DEF DirsOf
  <2>2. place.dir \in {0, 1} /\ place.range = 0
    BY <2>1, PairOfDirs
  <2> QED
    BY <1>2, <2>2
<1>3. CASE k = "core"
  <2>1. DirsOf(k) = Dir(0, 0, 0) \o Dir(1, 0, PmuSize)
    BY <1>3 DEF DirsOf
  <2>2. place.range = 0
    BY <2>1, PairOfDirs DEF PmuSize
  <2> QED
    BY <1>3, <2>2
<1>4. CASE k \notin {"etf", "etm", "cstf", "core"}
  <2>1. DirsOf(k) = <<[dir |-> 0, range |-> 0, base |-> 0]>>
    BY <1>4 DEF DirsOf, Dir
  <2> QED
    BY <1>4, <2>1 DEF ToSet
<1> QED
  BY <1>1, <1>2, <1>3, <1>4

LEMMA FilesMeet ==
    ASSUME Typed, Staged, Full, FitsIds(tree), FitsFiles(tree)
    PROVE  FilesMeetIoctls
<1> SUFFICES ASSUME misc, failures = 0, NEW d \in ToSet(dirs), Len(tree[d.kind]) = 1,
                    ~ShowsAnother(d), NEW f \in ToSet(files[d.kind])
             PROVE  /\ Locate(IdOfDir(d), d.at + f.at).ret = "ok"
                    /\ Locate(IdOfDir(d), d.at + f.at).base = d.base
  BY DEF FilesMeetIoctls
<1>1. PICK x \in 1 .. Len(dirs) : d = dirs[x]
  BY DEF ToSet
<1>2. d \in Shown
  BY <1>1, ElementOfSeq DEF Typed
<1>3. PICK k : k = d.kind
  OBVIOUS
<1>4. k \in Kinds /\ tree \in Trees /\ Len(tree[k]) = 1
  BY <1>2, <1>3 DEF Shown, Typed
<1>5. PICK place \in ToSet(DirsOf(k)) :
         /\ d.dir = place.dir /\ d.at = place.base
         /\ place.range \in Ranges(tree[k][1]) => d.base = <<k, 1, place.range>>
  BY <1>1, <1>3, <1>4 DEF Full, DirsFull, DirFull
<1> DEFINE i == place.range
<1>6. i \in Ranges(tree[k][1]) /\ d.at + f.at \in 0 .. tree[k][1][i + 1] - 1
  BY <1>3, <1>4, <1>5 DEF FitsFiles
<1>7. IdOfDir(d) = Id[k] + i
  BY <1>3, <1>4, <1>5, RangeOfDir DEF ShowsAnother, IdOfDir
<1>8. pc # "adding"
  BY DEF Staged
<1>9. maps[Id[k] + i] = [base |-> <<k, 1, i>>, size |-> tree[k][1][i + 1]]
  BY <1>4, <1>6, <1>8 DEF Full, EntriesFull, Active, Done
<1>10. Id[k] + i \in 0 .. NUM_IO_IDS - 1
  BY <1>4, <1>6, FirstIds
<1> DEFINE id == Id[k] + i
           offset == d.at + f.at
<1>11. maps[id].base = d.base /\ maps[id].size = tree[k][1][i + 1]
  BY <1>5, <1>6, <1>9
<1>12. tree[k][1][i + 1] \in Nat
  <2>1. 1 \in 1 .. Len(tree[k])
    BY <1>4
  <2> QED
    BY <1>4, <1>6, <2>1, TreeTyped DEF Size
<1> HIDE DEF id, offset, i
<1>13. offset \in Nat /\ ~ (offset >= maps[id].size)
  BY <1>6, <1>11, <1>12 DEF offset
<1>14. id \in 0 .. NUM_IDS - 1
  BY <1>10 DEF id, NUM_IDS, VCOUNT, NUM_IO_IDS
<1>15. Locate(id, offset) = Found(id, offset)
  BY <1>13, <1>14, LocateIs
<1>16. Found(id, offset).ret = "ok" /\ Found(id, offset).base = d.base
  BY <1>11 DEF Found
<1> QED
  BY <1>7, <1>15, <1>16 DEF id, offset

\* For device trees that fit the ids, and give each kind with one node the ranges
\* its files show: once loaded without a failure, a file and the ioctl with the
\* id and the offset of its register reach the same word, but for the second
\* directories of the ETM and the funnels (dcsr_etf.c:33, dcsr_etm.c:29,
\* dcsr_cstf.c:29).
THEOREM FilesAgree ==
    ASSUME \A t \in Trees : FitsIds(t) /\ FitsFiles(t)
    PROVE  Spec => []FilesMeetIoctls
<1> DEFINE Inv == Typed /\ Staged /\ Full
<1>1. Init => Inv
  BY TypedInit, FullInit
<1>2. Inv /\ [Next]_vars => Inv'
  <2> SUFFICES ASSUME Inv, [Next]_vars PROVE Inv'
    OBVIOUS
  <2>1. Typed' /\ Staged'
    BY TypedNext
  <2>2. FitsIds(tree)
    BY DEF Typed
  <2>3. Full'
    BY <2>2, FullNext
  <2> QED
    BY <2>1, <2>3
<1>3. Inv => FilesMeetIoctls
  <2> SUFFICES ASSUME Inv PROVE FilesMeetIoctls
    OBVIOUS
  <2>1. FitsIds(tree) /\ FitsFiles(tree)
    BY DEF Typed
  <2> QED
    BY <2>1, FilesMeet
<1> QED
  BY <1>1, <1>2, <1>3, PTL DEF Spec

=============================================================================
