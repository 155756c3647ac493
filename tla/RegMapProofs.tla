---------------------------- MODULE RegMapProofs ----------------------------
(***************************************************************************)
(* Theorems about Devices and RegMap, for any set of device trees and any  *)
(* number of failures.                                                     *)
(***************************************************************************)
EXTENDS RegMap, LayoutProofs, FiniteSetTheorems

----------------------------------------------------------------------------
(* The kinds of devices, their ids and the order in which they are looked  *)
(* for.                                                                    *)

LEMMA KindsAre == Kinds = {"etf", "etr", "etm", "cstf", "epu", "gdi", "core"}
  BY DEF Kinds, layout

\* Each kind has an id of its own.
LEMMA IdsApart ==
    /\ \A k \in Kinds : Id[k] \in 0 .. NUM_IO_IDS - 1
    /\ \A j, k \in Kinds : Id[j] = Id[k] => j = k
  BY KindsAre DEF Id, NUM_IO_IDS

\* Each kind is looked for, once.
LEMMA OrderOfKinds ==
    /\ Len(Order) = 7
    /\ \A j \in 1 .. 7 : Order[j] \in Kinds
    /\ \A k \in Kinds : \E j \in 1 .. 7 : Order[j] = k
    /\ \A i, j \in 1 .. 7 : Order[i] = Order[j] => i = j
  BY KindsAre DEF Order

\* The next whole word.
LEMMA WordsApart ==
    \A x, y \in Nat : x % 4 = 0 /\ y % 4 = 0 /\ x < y => x + 4 <= y
  OBVIOUS

\* A set of numbers with an element has a least one.
LEMMA LeastOf ==
    ASSUME NEW S, S \subseteq Nat, S # {}
    PROVE  Min(S) \in S
<1> DEFINE R == OpToRel(<, Nat)
<1>1. IsWellFoundedOn(R, Nat)
  BY NatLessThanWellFounded
<1>2. \A x, y \in S : <<y, x>> \in R <=> y < x
  BY DEF OpToRel
<1> HIDE DEF R
<1>3. PICK x \in S : \A y \in S : ~ (<<y, x>> \in R)
  BY <1>1, WFMin
<1>4. ASSUME NEW y \in S PROVE x <= y
  <2>1. x \in Nat /\ y \in Nat
    OBVIOUS
  <2>2. ~ (y < x)
    BY <1>2, <1>3
  <2> QED
    BY <2>1, <2>2
<1> QED
  BY <1>4 DEF Min

LEMMA RangesOfNode ==
    ASSUME NEW node
    PROVE  Ranges(node) \subseteq 0 .. 1 /\ IsFiniteSet(Ranges(node))
<1>1. Ranges(node) \subseteq 0 .. 1
  BY DEF Ranges, MAX_MEM_RANGE
<1> QED
  BY <1>1, FS_BoundedSetOfNaturals

----------------------------------------------------------------------------
(* Types.  The devices, the directories and the table in detail; a probe   *)
(* that has failed leaves neither a device nor a directory.                *)

Address == (Kinds \X Nat \X Nat) \union {Null}
Device  == [kind : Kinds, ptr : [0 .. 1 -> Address]]
Size    == {n \in Nat : n % 4 = 0}
Entry   == [base : Address \union {RamBase}, size : Size]
Shown   == [kind : Kinds, dir : {0, 1}, base : Address, at : Nat, whole : BOOLEAN]

Typed ==
    /\ tree \in Trees
    /\ pc \in {"adding", "root", "misc", "files", "vcounters", "live", "broken"}
    /\ nk \in 1 .. 7
    /\ np \in Nat \ {0}
    /\ index \in Nat
    /\ pc = "adding" => index < np
    /\ devs \in Seq(Device)
    /\ maps \in [0 .. NUM_IDS - 1 -> Entry]
    /\ misc \in BOOLEAN
    /\ dirs \in Seq(Shown)
    /\ failures \in 0 .. MaxFailures

Staged ==
    /\ pc \in {"adding", "root", "misc"} => ~misc
    /\ pc = "files" => misc
    /\ ~misc => dirs = <<>>
    /\ pc \in {"vcounters", "live", "broken"} /\ ~misc => devs = <<>>
    /\ pc = "live" => maps[VCOUNT] = [base |-> RamBase, size |-> SizeOf(vcounters)]

\* What a tree holds for a kind.
LEMMA TreeTyped ==
    ASSUME NEW t \in Trees, NEW k \in Kinds
    PROVE  /\ t[k] \in Seq(Seq(Nat))
           /\ \A n \in 1 .. Len(t[k]) :
                 /\ t[k][n] \in Seq(Nat)
                 /\ \A i \in Ranges(t[k][n]) :
                       t[k][n][i + 1] \in Size /\ t[k][n][i + 1] > 0
<1>1. t[k] \in Seq(Seq(Nat))
  BY TreesAssumption
<1>2. ASSUME NEW n \in 1 .. Len(t[k])
      PROVE  t[k][n] \in Seq(Nat) /\ n \in DOMAIN t[k]
  BY <1>1
<1>3. ASSUME NEW n \in 1 .. Len(t[k]), NEW i \in Ranges(t[k][n])
      PROVE  t[k][n][i + 1] \in Size /\ t[k][n][i + 1] > 0
  <2>1. i + 1 \in DOMAIN t[k][n]
    BY <1>2 DEF Ranges, MAX_MEM_RANGE
  <2>2. t[k][n][i + 1] \in Nat
    BY <1>2, <2>1
  <2>3. t[k][n][i + 1] > 0 /\ t[k][n][i + 1] % 4 = 0
    BY <1>2, <2>1, TreesAssumption
  <2> QED
    BY <2>2, <2>3 DEF Size
<1> QED
  BY <1>1, <1>2, <1>3

\* An entry is changed or it is not.
LEMMA AddMapTyped ==
    ASSUME NEW m \in [0 .. NUM_IDS - 1 -> Entry], NEW id \in Int,
           NEW base \in Address \union {RamBase}, NEW size \in Size
    PROVE  AddMap(m, id, base, size) \in [0 .. NUM_IDS - 1 -> Entry]
  BY DEF AddMap, Entry

\* The directories a device makes are of its kind.
LEMMA DirsTyped ==
    ASSUME NEW k \in Kinds
    PROVE  DirsOf(k) \in Seq([dir : {0, 1}, range : 0 .. 1, base : Nat])
<1> DEFINE Place == [dir : {0, 1}, range : 0 .. 1, base : Nat]
<1>1. \A d \in {0, 1}, i \in 0 .. 1, b \in Nat : Dir(d, i, b) \in Seq(Place)
  <2> TAKE d \in {0, 1}, i \in 0 .. 1, b \in Nat
  <2> DEFINE place == [dir |-> d, range |-> i, base |-> b]
  <2>1. place \in Place
    OBVIOUS
  <2> HIDE DEF place, Place
  <2>2. <<place>> \in Seq(Place)
    BY <2>1
  <2> QED
    BY <2>2 DEF Dir, place
<1>2. OwnRange(0) = 0 /\ OwnRange(1) = 1 /\ PmuSize \in Nat
  BY DEF OwnRange, PmuSize
<1> HIDE DEF Place
<1>3. \A a, b \in Seq(Place) : a \o b \in Seq(Place)
  BY ConcatProperties
<1>4. DirsOf(k) \in {Dir(0, OwnRange(0), 0) \o Dir(1, OwnRange(1), 0),
                     Dir(0, 0, 0) \o Dir(1, 0, 0), Dir(0, 0, 0) \o Dir(1, 0, PmuSize),
                     Dir(0, 0, 0)}
  BY DEF DirsOf
<1>5. /\ Dir(0, OwnRange(0), 0) \in Seq(Place) /\ Dir(1, OwnRange(1), 0) \in Seq(Place)
      /\ Dir(0, 0, 0) \in Seq(Place) /\ Dir(1, 0, 0) \in Seq(Place)
      /\ Dir(1, 0, PmuSize) \in Seq(Place)
  BY <1>1, <1>2
<1> QED
  BY <1>3, <1>4, <1>5 DEF Place

LEMMA NewDirsTyped ==
    ASSUME NEW dev \in Device
    PROVE  /\ NewDirs(dev) \in Seq(Shown)
           /\ Len(NewDirs(dev)) <= Len(DirsOf(dev.kind))
<1> DEFINE all   == DirsOf(dev.kind)
           taken == {j \in DOMAIN all : <<dev.kind, all[j].dir>> \in Made}
           upto  == IF taken = {} THEN Len(all) ELSE Min(taken) - 1
           new   == [j \in 1 .. upto |->
                        [kind |-> dev.kind, dir |-> all[j].dir,
                         base |-> dev.ptr[all[j].range],
                         at |-> all[j].base, whole |-> TRUE]]
<1>1. dev.kind \in Kinds /\ dev.ptr \in [0 .. 1 -> Address]
  BY DEF Device
<1>2. all \in Seq([dir : {0, 1}, range : 0 .. 1, base : Nat])
  BY <1>1, DirsTyped
<1> HIDE DEF all
<1>3. Len(all) \in Nat /\ DOMAIN all = 1 .. Len(all)
  BY <1>2
<1>4. upto \in 0 .. Len(all)
  <2>1. CASE taken = {}
    BY <1>3, <2>1
  <2>2. CASE taken # {}
    <3>1. taken \subseteq 1 .. Len(all)
      BY <1>3
    <3> HIDE DEF taken
    <3>2. Min(taken) \in taken
      <4>1. taken \subseteq Nat
        BY <1>3, <3>1
      <4> QED
        BY <2>2, <4>1, LeastOf
    <3>3. Min(taken) \in 1 .. Len(all)
      BY <3>1, <3>2
    <3>4. upto = Min(taken) - 1
      BY <2>2
    <3> HIDE DEF upto
    <3> QED
      BY <1>3, <3>3, <3>4
  <2> QED
    BY <2>1, <2>2
<1> HIDE DEF upto
<1>5. \A j \in 1 .. upto : all[j].dir \in {0, 1} /\ all[j].range \in 0 .. 1 /\ all[j].base \in Nat
  <2> TAKE j \in 1 .. upto
  <2> DEFINE Place == [dir : {0, 1}, range : 0 .. 1, base : Nat]
  <2>1. j \in 1 .. Len(all)
    BY <1>3, <1>4
  <2>2. all \in Seq(Place)
    BY <1>2
  <2>3. all[j] \in Place
    <3> HIDE DEF Place
    <3> QED
      BY <2>1, <2>2
  <2> QED
    BY <2>3
<1>6. \A j \in 1 .. upto : new[j] \in Shown
  BY <1>1, <1>5 DEF Shown
<1>7. new \in Seq(Shown) /\ Len(new) <= Len(all)
  BY <1>3, <1>4, <1>6
<1> QED
  BY <1>7 DEF NewDirs, all, upto

----------------------------------------------------------------------------
(* Each step keeps the types.                                              *)

\* What a device can be entered as, and how much of it can fail.
LEMMA DeviceTyped ==
    ASSUME Typed, pc = "adding", np <= Len(tree[Order[nk]]),
           NEW mapped \in SUBSET Ranges(tree[Order[nk]][np])
    PROVE  /\ [kind |-> Order[nk],
               ptr  |-> [i \in 0 .. MAX_MEM_RANGE - 1 |->
                            IF i \in mapped THEN <<Order[nk], np, i>> ELSE Null]] \in Device
           /\ Cardinality(Ranges(tree[Order[nk]][np])) - Cardinality(mapped) \in Nat
           /\ \A i \in mapped : /\ i \in 0 .. 1
                                 /\ <<Order[nk], np, i>> \in Address
                                 /\ tree[Order[nk]][np][i + 1] \in Size
                                 /\ EntryOf(Id[Order[nk]], index, i) \in Nat
<1> DEFINE kind == Order[nk]
           node == tree[Order[nk]][np]
<1>1. kind \in Kinds
  BY OrderOfKinds DEF Typed
<1>2. Ranges(node) \subseteq 0 .. 1 /\ IsFiniteSet(Ranges(node))
  BY RangesOfNode
<1>3. \A i \in mapped : i \in 0 .. 1 /\ i \in Nat
  BY <1>2
<1>4. np \in Nat /\ index \in Nat
  BY DEF Typed
<1>5. \A i \in mapped : <<kind, np, i>> \in Address
  BY <1>1, <1>3, <1>4 DEF Address
<1>6. Null \in Address
  BY DEF Address
<1>7. [kind |-> kind,
       ptr  |-> [i \in 0 .. MAX_MEM_RANGE - 1 |->
                    IF i \in mapped THEN <<kind, np, i>> ELSE Null]] \in Device
  <2>1. \A i \in 0 .. 1 : (IF i \in mapped THEN <<kind, np, i>> ELSE Null) \in Address
    BY <1>5, <1>6
  <2>2. MAX_MEM_RANGE - 1 = 1
    BY DEF MAX_MEM_RANGE
  <2>3. [i \in 0 .. MAX_MEM_RANGE - 1 |->
           IF i \in mapped THEN <<kind, np, i>> ELSE Null] \in [0 .. 1 -> Address]
    BY <2>1, <2>2
  <2> QED
    BY <1>1, <2>3 DEF Device
<1>8. Cardinality(Ranges(node)) - Cardinality(mapped) \in Nat
  <2>1. /\ IsFiniteSet(mapped)
        /\ Cardinality(mapped) <= Cardinality(Ranges(node))
    BY <1>2, FS_Subset
  <2>2. Cardinality(mapped) \in Nat /\ Cardinality(Ranges(node)) \in Nat
    BY <1>2, <2>1, FS_CardinalityType
  <2> QED
    BY <2>1, <2>2
<1>9. \A i \in mapped : tree[kind][np][i + 1] \in Size
  <2>1. tree \in Trees /\ np \in 1 .. Len(tree[kind])
    <3>1. Len(tree[kind]) \in Nat
      BY <1>1, TreeTyped DEF Typed
    <3> QED
      BY <3>1 DEF Typed
  <2>2. \A i \in Ranges(tree[kind][np]) : tree[kind][np][i + 1] \in Size
    BY <1>1, <2>1, TreeTyped
  <2> QED
    BY <2>2
<1>10. \A i \in mapped : EntryOf(Id[kind], index, i) \in Nat
  <2>1. Id[kind] \in Nat
    BY <1>1, IdsApart
  <2> QED
    BY <1>3, <1>4, <2>1 DEF EntryOf
<1> QED
  BY <1>3, <1>5, <1>7, <1>8, <1>9, <1>10

LEMMA TypedInit == Init => Typed /\ Staged
<1> SUFFICES ASSUME Init PROVE Typed /\ Staged
  OBVIOUS
<1>1. NoMapInfo \in Entry
  BY DEF NoMapInfo, Entry, Address, Size
<1>2. maps \in [0 .. NUM_IDS - 1 -> Entry]
  BY <1>1 DEF Init
<1>3. 0 \in 0 .. MaxFailures
  BY FailuresAssumption
<1>4. devs \in Seq(Device) /\ dirs \in Seq(Shown)
  BY DEF Init
<1>5. /\ tree \in Trees /\ pc = "adding" /\ nk = 1 /\ np = 1 /\ index = 0
      /\ misc = FALSE /\ dirs = <<>> /\ failures = 0
  BY DEF Init
<1>a. /\ nk \in 1 .. 7 /\ np \in Nat \ {0} /\ index \in Nat /\ index < np
      /\ failures \in 0 .. MaxFailures
      /\ pc \in {"adding", "root", "misc", "files", "vcounters", "live", "broken"}
  BY <1>3, <1>5
<1>b. misc \in BOOLEAN
  BY <1>5
<1>6. Typed
  BY <1>2, <1>4, <1>5, <1>a, <1>b DEF Typed
<1>7. Staged
  BY <1>5 DEF Init, Staged
<1> QED
  BY <1>6, <1>7

\* What AddDevice does for range i of a node.
Enter(m, k, n, first, node, mapped, i) ==
    IF i \in Recorded(node, mapped)
    THEN AddMap(m, EntryOf(Id[k], first, i), <<k, n, i>>, node[i + 1])
    ELSE m

LEMMA EnteredTyped ==
    ASSUME NEW k \in Kinds, NEW n \in Nat, NEW first \in Nat, NEW node, NEW mapped,
           \A i \in mapped : /\ i \in 0 .. 1
                             /\ <<k, n, i>> \in Address
                             /\ node[i + 1] \in Size
                             /\ EntryOf(Id[k], first, i) \in Nat
    PROVE  \A m \in [0 .. NUM_IDS - 1 -> Entry], i \in 0 .. 1 :
              Enter(m, k, n, first, node, mapped, i) \in [0 .. NUM_IDS - 1 -> Entry]
<1> TAKE m \in [0 .. NUM_IDS - 1 -> Entry], i \in 0 .. 1
<1>1. CASE i \in mapped
  <2>1. /\ <<k, n, i>> \in Address \union {RamBase}
        /\ node[i + 1] \in Size
        /\ EntryOf(Id[k], first, i) \in Int
    BY <1>1
  <2>2. AddMap(m, EntryOf(Id[k], first, i), <<k, n, i>>, node[i + 1])
           \in [0 .. NUM_IDS - 1 -> Entry]
    BY <2>1, AddMapTyped
  <2> QED
    BY <1>1, <2>2 DEF Recorded, Enter
<1>2. CASE i \notin mapped
  BY <1>2 DEF Recorded, Enter
<1> QED
  BY <1>1, <1>2

LEMMA AddDeviceTyped == Typed /\ Staged /\ AddDevice => Typed' /\ Staged'
<1> SUFFICES ASSUME Typed, Staged, AddDevice PROVE Typed' /\ Staged'
  OBVIOUS
<1> DEFINE kind == Order[nk]
           node == tree[Order[nk]][np]
           place(mapped, i) == IF i \in mapped THEN <<kind, np, i>> ELSE Null
           device(mapped) ==
               [kind |-> kind,
                ptr  |-> [i \in 0 .. MAX_MEM_RANGE - 1 |->
                             IF i \in mapped THEN <<kind, np, i>> ELSE Null]]
           failed(mapped) == Cardinality(Ranges(node)) - Cardinality(mapped)
           enter(m, mapped, i) == Enter(m, kind, np, index, node, mapped, i)
<1>1. /\ pc = "adding" /\ np <= Len(tree[kind])
      /\ kind \in Kinds /\ np \in Nat /\ index \in Nat
      /\ maps \in [0 .. NUM_IDS - 1 -> Entry]
  BY OrderOfKinds DEF AddDevice, Typed
<1>2. PICK mapped \in SUBSET Ranges(node) :
         /\ failures + failed(mapped) <= MaxFailures
         /\ failures' = failures + failed(mapped)
         /\ maps' = enter(enter(maps, mapped, 0), mapped, 1)
         /\ devs' = <<device(mapped)>> \o devs
         /\ failures' = failures + (Cardinality(Ranges(node)) - Cardinality(mapped))
  BY DEF AddDevice, Enter
<1>3. /\ device(mapped) \in Device
      /\ failed(mapped) \in Nat
      /\ \A i \in mapped : /\ i \in 0 .. 1
                            /\ <<kind, np, i>> \in Address
                            /\ node[i + 1] \in Size
                            /\ EntryOf(Id[kind], index, i) \in Nat
  BY <1>1, DeviceTyped
<1> HIDE DEF device, failed, node
<1>4. maps' \in [0 .. NUM_IDS - 1 -> Entry]
  <2>1. \A m \in [0 .. NUM_IDS - 1 -> Entry], i \in 0 .. 1 :
           enter(m, mapped, i) \in [0 .. NUM_IDS - 1 -> Entry]
    <3> HIDE DEF kind
    <3> QED
      BY <1>1, <1>3, EnteredTyped
  <2> HIDE DEF enter
  <2>2. enter(enter(maps, mapped, 0), mapped, 1) \in [0 .. NUM_IDS - 1 -> Entry]
    BY <1>1, <2>1
  <2> QED
    BY <1>2, <2>2
<1>5. devs' \in Seq(Device)
  <2>1. <<device(mapped)>> \in Seq(Device)
    BY <1>3
  <2> QED
    BY <1>2, <2>1, ConcatProperties DEF Typed
<1>6. failures' \in 0 .. MaxFailures
  BY <1>2, <1>3, FailuresAssumption DEF Typed
<1>7. /\ index' = index + 1 /\ np' = np + 1
      /\ UNCHANGED <<tree, pc, nk, misc, dirs, epu_ptr>>
  BY DEF AddDevice
<1>8. Typed'
  BY <1>1, <1>4, <1>5, <1>6, <1>7 DEF Typed
<1>9. Staged'
  BY <1>1, <1>7 DEF Staged
<1> QED
  BY <1>8, <1>9

LEMMA SkipDeviceTyped == Typed /\ Staged /\ SkipDevice => Typed' /\ Staged'
  BY FailuresAssumption DEF Typed, Staged, SkipDevice

LEMMA NextKindTyped == Typed /\ Staged /\ NextKind => Typed' /\ Staged'
<1> SUFFICES ASSUME Typed, Staged, NextKind PROVE Typed' /\ Staged'
  OBVIOUS
<1>1. nk' \in 1 .. 7 /\ pc' \in {"adding", "root"}
  BY OrderOfKinds DEF Typed, NextKind
<1>2. np' = 1 /\ index' = 0
  BY DEF NextKind, FirstIndex
<1>3. pc = "adding" /\ UNCHANGED <<tree, devs, maps, misc, dirs, epu_ptr, failures>>
  BY DEF NextKind
<1> QED
  BY <1>1, <1>2, <1>3 DEF Typed, Staged

LEMMA FailTyped ==
    ASSUME Typed, Staged, pc \in {"root", "misc"}, Fail
    PROVE  Typed' /\ Staged'
<1>1. devs' = <<>> /\ <<>> \in Seq(Device)
  BY DEF Fail, RemoveDevices
<1>2. failures' \in 0 .. MaxFailures
  BY FailuresAssumption DEF Fail, Typed
<1> QED
  BY <1>1, <1>2 DEF Typed, Staged, Fail

LEMMA CreateRootTyped == Typed /\ Staged /\ CreateRoot => Typed' /\ Staged'
<1> SUFFICES ASSUME Typed, Staged, CreateRoot PROVE Typed' /\ Staged'
  OBVIOUS
<1>1. CASE Fail
  BY <1>1, FailTyped DEF CreateRoot
<1>2. CASE pc' = "misc" /\ UNCHANGED <<tree, nk, np, index, devs, maps, misc, dirs, epu_ptr, failures>>
  BY <1>2 DEF CreateRoot, Typed, Staged
<1> QED
  BY <1>1, <1>2 DEF CreateRoot

LEMMA RegAccessInitTyped == Typed /\ Staged /\ RegAccessInit => Typed' /\ Staged'
<1> SUFFICES ASSUME Typed, Staged, RegAccessInit PROVE Typed' /\ Staged'
  OBVIOUS
<1>1. CASE Fail
  BY <1>1, FailTyped DEF RegAccessInit
<1>2. CASE /\ misc' = TRUE
           /\ pc' = "files" /\ np' = 1
           /\ UNCHANGED <<tree, nk, index, devs, maps, dirs, epu_ptr, failures>>
  BY <1>2 DEF RegAccessInit, Typed, Staged
<1> QED
  BY <1>1, <1>2 DEF RegAccessInit

LEMMA CreateFilesTyped == Typed /\ Staged /\ CreateFiles => Typed' /\ Staged'
<1> SUFFICES ASSUME Typed, Staged, CreateFiles PROVE Typed' /\ Staged'
  OBVIOUS
<1> DEFINE new == NewDirs(devs[np])
           cut(j) == [SubSeq(new, 1, j) EXCEPT ![j].whole = FALSE]
<1>1. devs[np] \in Device
  <2>1. devs \in Seq(Device) /\ np \in 1 .. Len(devs)
    BY DEF CreateFiles, Typed
  <2> HIDE DEF new
  <2> QED
    BY <2>1, ElementOfSeq
<1>2. new \in Seq(Shown)
  BY <1>1, NewDirsTyped
<1>3. \A j \in DOMAIN new : cut(j) \in Seq(Shown)
  <2> TAKE j \in DOMAIN new
  <2> DEFINE part == SubSeq(new, 1, j)
  <2> HIDE DEF new
  <2>1. j \in 1 .. Len(new) /\ Len(new) \in Nat
    BY <1>2
  <2>2. part \in Seq(Shown) /\ Len(part) = j
    BY <1>2, <2>1, SubSeqProperties
  <2> HIDE DEF part
  <2>3. part[j] \in Shown
    BY <2>1, <2>2
  <2>4. [part[j] EXCEPT !.whole = FALSE] \in Shown
    BY <2>3 DEF Shown
  <2>5. [part EXCEPT ![j] = [part[j] EXCEPT !.whole = FALSE]] \in Seq(Shown)
    BY <2>1, <2>2, <2>4, ExceptSeq
  <2> QED
    BY <2>5 DEF part
<1> HIDE DEF new, cut
<1>4. /\ pc = "files" /\ np' = np + 1
      /\ UNCHANGED <<tree, pc, nk, index, devs, maps, misc>>
      /\ \/ dirs' = dirs \o new /\ UNCHANGED failures
         \/ /\ failures < MaxFailures
            /\ failures' = failures + 1
            /\ dirs' = dirs \/ \E j \in DOMAIN new : dirs' = dirs \o cut(j)
  BY DEF CreateFiles, new, cut
<1>5. dirs' \in Seq(Shown)
  <2>1. dirs \in Seq(Shown)
    BY DEF Typed
  <2>2. \A x \in Seq(Shown) : dirs \o x \in Seq(Shown)
    BY <2>1, ConcatProperties
  <2> QED
    BY <1>2, <1>3, <1>4, <2>1, <2>2
<1>6. failures' \in 0 .. MaxFailures
  BY <1>4, FailuresAssumption DEF Typed
<1>7. misc
  BY <1>4 DEF Staged
<1> QED
  BY <1>4, <1>5, <1>6, <1>7 DEF Typed, Staged

LEMMA ProbedTyped == Typed /\ Staged /\ Probed => Typed' /\ Staged'
  BY DEF Typed, Staged, Probed

LEMMA VcountersInitTyped == Typed /\ Staged /\ VcountersInit => Typed' /\ Staged'
<1> SUFFICES ASSUME Typed, Staged, VcountersInit PROVE Typed' /\ Staged'
  OBVIOUS
<1>1. /\ pc = "vcounters"
      /\ UNCHANGED <<tree, nk, np, index, devs, misc, dirs, epu_ptr>>
  BY DEF VcountersInit
<1>2. CASE /\ maps' = AddMap(maps, VCOUNT, RamBase, SizeOf(vcounters))
           /\ pc' = "live" /\ UNCHANGED failures
  <2>1. maps \in [0 .. NUM_IDS - 1 -> Entry] /\ VCOUNT \in 0 .. NUM_IDS - 1
    BY DEF Typed, VCOUNT, NUM_IDS, NUM_IO_IDS
  <2>2. SizeOf(vcounters) \in Size
    BY VcountersOffsets DEF Size
  <2>3. maps' \in [0 .. NUM_IDS - 1 -> Entry]
    <3>1. VCOUNT \in Int /\ RamBase \in Address \union {RamBase}
      BY DEF VCOUNT, NUM_IO_IDS
    <3>2. AddMap(maps, VCOUNT, RamBase, SizeOf(vcounters)) \in [0 .. NUM_IDS - 1 -> Entry]
      BY <2>1, <2>2, <3>1, AddMapTyped
    <3> QED
      BY <1>2, <3>2
  <2>4. maps'[VCOUNT] = [base |-> RamBase, size |-> SizeOf(vcounters)]
    BY <1>2, <2>1 DEF AddMap
  <2> QED
    BY <1>1, <1>2, <2>3, <2>4 DEF Typed, Staged
<1>3. CASE /\ failures < MaxFailures
           /\ failures' = failures + 1
           /\ pc' = "broken" /\ UNCHANGED maps
  BY <1>1, <1>3, FailuresAssumption DEF Typed, Staged
<1> QED
  BY <1>2, <1>3 DEF VcountersInit

LEMMA TypedNext == Typed /\ Staged /\ [Next]_vars => Typed' /\ Staged'
<1>1. Typed /\ Staged /\ UNCHANGED vars => Typed' /\ Staged'
  BY DEF Typed, Staged, vars
<1> QED
  BY <1>1, AddDeviceTyped, SkipDeviceTyped, NextKindTyped, CreateRootTyped,
     RegAccessInitTyped, CreateFilesTyped, ProbedTyped, VcountersInitTyped
     DEF Next

LEMMA AlwaysTyped == Spec => [](Typed /\ Staged)
  BY TypedInit, TypedNext, PTL DEF Spec

\* The types hold at every step of the loading, whatever fails (ls_dbg.c).
THEOREM TypesOfTable == Spec => []TypeOK
<1>1. Typed => TypeOK
  <2> SUFFICES ASSUME Typed PROVE TypeOK
    OBVIOUS
  <2>1. \A d \in ToSet(devs) : d.kind \in Kinds
    <3>1. \A j \in 1 .. Len(devs) : devs[j] \in Device
      BY DEF Typed
    <3>2. \A d \in ToSet(devs) : d \in Device
      BY <3>1 DEF ToSet, Typed
    <3> QED
      BY <3>2 DEF Device
  <2>2. \A d \in ToSet(dirs) : d.kind \in Kinds /\ d.dir \in {0, 1}
    <3>1. \A j \in 1 .. Len(dirs) : dirs[j] \in Shown
      BY DEF Typed
    <3>2. \A d \in ToSet(dirs) : d \in Shown
      BY <3>1 DEF ToSet, Typed
    <3> QED
      BY <3>2 DEF Shown
  <2>3. nk \in DOMAIN Order
    BY OrderOfKinds DEF Typed, Order
  <2>4. DOMAIN maps = 0 .. NUM_IDS - 1
    BY DEF Typed
  <2> QED
    BY <2>1, <2>2, <2>3, <2>4 DEF Typed, TypeOK
<1> QED
  BY <1>1, AlwaysTyped, PTL

----------------------------------------------------------------------------
(* The ioctls.                                                             *)

\* Where the map of an id is looked for.
LEMMA LocateIs ==
    ASSUME Typed
    PROVE  /\ \A id \in 0 .. NUM_IDS - 1, offset \in Nat :
                 /\ maps[id].size \in Nat
                 /\ maps[id].size % 4 = 0
                 /\ Locate(id, offset) = IF offset >= maps[id].size THEN Failed("EFAULT")
                                         ELSE Found(id, offset)
           /\ \A id \in Nat, offset \in Nat :
                 id >= NUM_IDS => Locate(id, offset) = Failed("EINVAL")
<1>1. \A id \in 0 .. NUM_IDS - 1 : maps[id].size \in Nat /\ maps[id].size % 4 = 0
  <2>1. \A id \in 0 .. NUM_IDS - 1 : maps[id] \in Entry
    BY DEF Typed
  <2> QED
    BY <2>1 DEF Entry, Size
<1>2. \A id \in 0 .. NUM_IDS - 1 : id \in 0 .. NUM_IO_IDS - 1 \/ id \in VCOUNT .. NUM_IDS - 1
  BY DEF VCOUNT, NUM_IO_IDS, NUM_IDS
<1>3. \A id \in Nat : id >= NUM_IDS => id \notin 0 .. NUM_IO_IDS - 1
                                     /\ id \notin VCOUNT .. NUM_IDS - 1
  BY DEF VCOUNT, NUM_IO_IDS, NUM_IDS
<1> QED
  BY <1>1, <1>2, <1>3 DEF Locate, FindMap, IsIoMapped, Beyond

LEMMA DispatchIs ==
    \A at \in Nat :
        Dispatch(at) = IF at < 4 THEN <<"vcntctrl", at>>
                       ELSE IF at < 72 THEN <<"vcntrepecr", (at - 4) \div 4>>
                       ELSE IF at < 328 THEN <<"vcntr", at - 72>>
                       ELSE <<"vcntrcapt", at - 328>>
<1> TAKE at \in Nat
<1>1. Dispatch(at) = CASE at < 4 -> <<"vcntctrl", at>>
                       [] 4 <= at /\ at < 72 -> <<"vcntrepecr", (at - 4) \div 4>>
                       [] 72 <= at /\ at < 328 -> <<"vcntr", at - 72>>
                       [] OTHER -> <<"vcntrcapt", at - 328>>
  BY VcountersNamed DEF Dispatch, VcntrStart
<1> QED
  BY <1>1

\* Every call: any id, any offset of a word, any contents of the EPU.
EveryRequest ==
    Requests(Nat, {offset \in Nat : offset % 4 = 0}, 0 .. 7, SUBSET (0 .. 31))

LEMMA RequestHas ==
    ASSUME NEW r \in EveryRequest
    PROVE  /\ r.id \in Nat /\ r.offset \in Nat /\ r.offset % 4 = 0
           /\ r.reg_size \in {8, 32, 64} /\ r.cmd \in {"read", "write"}
           /\ r.ctcc \in 0 .. 7 /\ r.group \in SUBSET (0 .. 31)
           /\ r.args \in BOOLEAN /\ r.buffer \in BOOLEAN
  BY DEF EveryRequest, Requests

\* The requests that are tried by TLC are among them.
LEMMA TriedRequests ==
    ASSUME Typed, NEW id \in 0 .. NUM_IDS
    PROVE  Requests({id}, Boundary(MapSize(id)), {0, 1}, {{}, {31}}) \subseteq EveryRequest
<1>1. MapSize(id) \in Nat /\ MapSize(id) % 4 = 0
  <2>1. id < NUM_IDS => id \in 0 .. NUM_IDS - 1
    BY DEF NUM_IDS, VCOUNT, NUM_IO_IDS
  <2> QED
    BY <2>1, LocateIs DEF MapSize
<1>2. ASSUME NEW size \in Nat, size % 4 = 0, NEW offset \in Boundary(size)
      PROVE  offset \in Nat /\ offset % 4 = 0
  <2>1. offset \in Nat /\ offset \in {0, 4, 64, 72, size - 4, size, size + 4, \h100000}
    BY SMT DEF Boundary
  <2> QED
    BY <1>2, <2>1, SMT
<1>3. id \in Nat /\ {0, 1} \subseteq 0 .. 7 /\ {{}, {31}} \subseteq SUBSET (0 .. 31)
  BY DEF NUM_IDS, VCOUNT, NUM_IO_IDS
<1>4. \A offset \in Boundary(MapSize(id)) : offset \in Nat /\ offset % 4 = 0
  BY <1>1, <1>2
<1>5. Boundary(MapSize(id)) \subseteq {offset \in Nat : offset % 4 = 0}
  BY <1>4
<1> QED
  BY <1>3, <1>5 DEF EveryRequest, Requests

\* A word of the EPU is reached if the map of the EPU goes that far.
LEMMA EpuLocated ==
    ASSUME Typed, NEW offset \in Nat
    PROVE  /\ maps[Id.epu].size \in Nat
           /\ Locate(Id.epu, offset).ret = "ok" <=> offset < maps[Id.epu].size
<1>1. Id.epu \in 0 .. NUM_IDS - 1
  BY DEF Id, NUM_IDS, VCOUNT, NUM_IO_IDS
<1>2. /\ maps[Id.epu].size \in Nat
      /\ Locate(Id.epu, offset) = IF offset >= maps[Id.epu].size THEN Failed("EFAULT")
                                  ELSE Found(Id.epu, offset)
  BY <1>1, LocateIs
<1>3. Failed("EFAULT").ret = "EFAULT" /\ Found(Id.epu, offset).ret = "ok"
  BY DEF Failed, Found
<1> QED
  BY <1>2, <1>3

\* When the handlers of vcntrepecr succeed.
LEMMA EventsServed ==
    ASSUME Typed, NEW event \in 0 .. 16, NEW ctcc \in 0 .. 7, NEW group \in SUBSET (0 .. 31)
    PROVE  /\ maps[Id.epu].size = 0
                 => ~EpuReached(ReadAccesses(event)) /\ ~EpuReached(WriteAccesses(event, ctcc, group))
           /\ WholeEpu
                 => /\ EpuReached(ReadAccesses(event))
                    /\ EpuReached(WriteAccesses(event, ctcc, group)) <=> ctcc = 0
<1>1. \h300 + 4 * event \in Nat /\ \h480 + 4 * event \in Nat
  OBVIOUS
<1>2. SizeOf(epu_v2) = \h1000
  BY EpuWalk, WalkedGaps
<1>3. \A k \in group : k \in 0 .. 31
  OBVIOUS
<1>4. ASSUME maps[Id.epu].size = 0
      PROVE  ~EpuReached(ReadAccesses(event)) /\ ~EpuReached(WriteAccesses(event, ctcc, group))
  <2>1. ~(Locate(Id.epu, \h300 + 4 * event).ret = "ok")
    BY <1>1, <1>4, EpuLocated
  <2> QED
    BY <2>1 DEF EpuReached, ReadAccesses, WriteAccesses, EPECR
<1>5. ASSUME WholeEpu, NEW offset \in Nat, offset < \h1000
      PROVE  Locate(Id.epu, offset).ret = "ok"
  <2>1. maps[Id.epu].size \in Nat /\ \h1000 <= maps[Id.epu].size
    BY <1>2, <1>5, EpuLocated DEF WholeEpu
  <2> QED
    BY <1>5, <2>1, EpuLocated
<1>6. ASSUME WholeEpu PROVE EpuReached(ReadAccesses(event))
  BY <1>1, <1>5, <1>6 DEF EpuReached, ReadAccesses, EPECR
<1>7. ASSUME WholeEpu, ctcc = 0 PROVE EpuReached(WriteAccesses(event, ctcc, group))
  <2> SUFFICES ASSUME NEW offset \in WriteAccesses(event, ctcc, group)
               PROVE  offset \in Nat /\ offset < \h1000
    BY <1>5, <1>7 DEF EpuReached
  <2>1. \/ offset \in {\h480 + 4 * event, \h540 + ctcc * GroupStride,
                       \h300 + 4 * event, \h030}
        \/ \E k \in group : offset = \hB00 + 4 * k
        \/ \E n \in {0} \union {k + 1 : k \in group} : offset = \h030 + 4 * n
    BY DEF WriteAccesses, EPECR, EPGACR, EPCTRGCR, EPCAPR, EPCTRISR
  <2>2. CASE offset \in {\h480 + 4 * event, \h540 + ctcc * GroupStride,
                        \h300 + 4 * event, \h030}
    <3>1. ctcc * GroupStride = 0
      BY <1>7, SMT DEF GroupStride
    <3> QED
      BY <1>7, <2>2, <3>1
  <2>3. ASSUME NEW k \in group, offset = \hB00 + 4 * k
        PROVE  offset \in Nat /\ offset < \h1000
    BY <1>3, <2>3
  <2>4. ASSUME NEW n \in {0} \union {k + 1 : k \in group}, offset = \h030 + 4 * n
        PROVE  offset \in Nat /\ offset < \h1000
    <3>1. n \in 0 .. 32
      BY <1>3
    <3> QED
      BY <2>4, <3>1
  <2> QED
    BY <2>1, <2>2, <2>3, <2>4
<1>8. ASSUME WholeEpu, ctcc # 0 PROVE ~EpuReached(WriteAccesses(event, ctcc, group))
  <2> DEFINE offset == \h540 + ctcc * GroupStride
  <2>1. offset \in Nat /\ offset > GroupStride
    BY <1>8, SMT DEF GroupStride
  <2>2. offset \in WriteAccesses(event, ctcc, group)
    BY DEF WriteAccesses, EPCTRGCR
  <2> HIDE DEF offset
  <2>3. maps[Id.epu].size \in Nat /\ maps[Id.epu].size <= GroupStride
    BY <1>8, <2>1, EpuLocated DEF WholeEpu
  <2>4. ~(Locate(Id.epu, offset).ret = "ok")
    <3>1. GroupStride \in Nat
      BY SMT DEF GroupStride
    <3> QED
      BY <2>1, <2>3, <3>1, EpuLocated
  <2> QED
    BY <2>2, <2>4 DEF EpuReached
<1> QED
  BY <1>4, <1>6, <1>7, <1>8

\* What a call returns, from what is found and what the handler returns.
LEMMA AnswerIs ==
    ASSUME Typed, NEW r \in EveryRequest
    PROVE  /\ ~r.args => reg_access(r).ret = "EFAULT"
           /\ r.args /\ r.reg_size = 8 => reg_access(r).ret = "EINVAL"
           /\ r.args /\ r.reg_size # 8 /\ ~r.buffer /\ r.cmd = "write"
                 => reg_access(r).ret = "EFAULT"
           /\ r.args /\ r.reg_size # 8 /\ ~r.buffer /\ r.cmd = "read"
                 => reg_access(r).ret = IF Internal(r).ret = "ok" THEN "EFAULT"
                                        ELSE Internal(r).ret
           /\ r.args /\ r.reg_size # 8 /\ r.buffer => reg_access(r) = Internal(r)
<1>1. r.reg_size \in {8, 32, 64} /\ r.cmd \in {"read", "write"}
  BY RequestHas
<1>2. Failed("EFAULT").ret = "EFAULT" /\ Failed("EINVAL").ret = "EINVAL"
  BY DEF Failed
<1> QED
  BY <1>1, <1>2 DEF reg_access

\* What is found, and what the handler makes of it.
LEMMA InternalIs ==
    ASSUME Typed, NEW r \in EveryRequest
    PROVE  /\ r.id >= NUM_IDS => Internal(r).ret = "EINVAL"
           /\ r.id < NUM_IDS /\ r.offset >= maps[r.id].size => Internal(r).ret = "EFAULT"
           /\ r.id < NUM_IDS /\ r.offset < maps[r.id].size /\ ~NamesEvent(r)
                 => Internal(r) = Found(r.id, r.offset)
           /\ r.id < NUM_IDS /\ r.offset < maps[r.id].size /\ NamesEvent(r)
                 => \E event \in 0 .. 16 :
                       Internal(r) =
                          IF EpuReached(IF r.cmd = "read" THEN ReadAccesses(event)
                                        ELSE WriteAccesses(event, r.ctcc, r.group))
                          THEN Found(r.id, r.offset) ELSE Failed("EFAULT")
<1> DEFINE found == Locate(r.id, r.offset)
<1>1. r.id \in Nat /\ r.offset \in Nat /\ r.offset % 4 = 0
  BY RequestHas
<1>2. /\ Failed("EFAULT").ret = "EFAULT" /\ Failed("EINVAL").ret = "EINVAL"
      /\ Found(r.id, r.offset).ret = "ok" /\ Found(r.id, r.offset).at = r.offset
  BY DEF Failed, Found
<1>3. ASSUME r.id >= NUM_IDS PROVE Internal(r).ret = "EINVAL"
  <2>1. found = Failed("EINVAL")
    BY <1>1, <1>3, LocateIs
  <2> QED
    BY <1>2, <2>1 DEF Internal
<1>4. ASSUME r.id < NUM_IDS
      PROVE  /\ r.id \in 0 .. NUM_IDS - 1 /\ maps[r.id].size \in Nat
             /\ found = IF r.offset >= maps[r.id].size THEN Failed("EFAULT")
                        ELSE Found(r.id, r.offset)
  <2>1. r.id \in 0 .. NUM_IDS - 1
    BY <1>1, <1>4 DEF NUM_IDS, VCOUNT, NUM_IO_IDS
  <2> QED
    BY <1>1, <2>1, LocateIs
<1>5. ASSUME r.id < NUM_IDS, r.offset >= maps[r.id].size PROVE Internal(r).ret = "EFAULT"
  <2>1. found = Failed("EFAULT")
    BY <1>4, <1>5
  <2> QED
    BY <1>2, <2>1 DEF Internal
<1>6. ASSUME r.id < NUM_IDS, r.offset < maps[r.id].size PROVE found = Found(r.id, r.offset)
  BY <1>1, <1>4, <1>6
<1>7. Dispatch(r.offset) = IF r.offset < 4 THEN <<"vcntctrl", r.offset>>
                           ELSE IF r.offset < 72 THEN <<"vcntrepecr", (r.offset - 4) \div 4>>
                           ELSE IF r.offset < 328 THEN <<"vcntr", r.offset - 72>>
                           ELSE <<"vcntrcapt", r.offset - 328>>
  BY <1>1, DispatchIs
<1>8. NamesEvent(r) <=> r.id = VCOUNT /\ 4 <= r.offset /\ r.offset < 72
  BY VcountersNamed DEF NamesEvent
<1>9. r.id < NUM_IDS => (IsIoMapped(r.id) <=> r.id # VCOUNT)
  BY <1>1 DEF IsIoMapped, NUM_IDS, VCOUNT, NUM_IO_IDS
<1>10. ASSUME r.id < NUM_IDS, r.offset < maps[r.id].size, ~NamesEvent(r)
       PROVE  Internal(r) = Found(r.id, r.offset)
  <2>1. CASE r.id # VCOUNT
    BY <1>2, <1>6, <1>9, <1>10, <2>1 DEF Internal
  <2>2. CASE r.id = VCOUNT
    <3>1. Dispatch(r.offset)[1] # "vcntrepecr"
      BY <1>1, <1>7, <1>8, <1>10, <2>2
    <3>2. Handled(r, Found(r.id, r.offset)) = Found(r.id, r.offset)
      BY <1>2, <3>1 DEF Handled
    <3> QED
      BY <1>2, <1>6, <1>9, <1>10, <3>2, <2>2 DEF Internal
  <2> QED
    BY <2>1, <2>2
<1>11. ASSUME r.id < NUM_IDS, r.offset < maps[r.id].size, NamesEvent(r)
       PROVE  \E event \in 0 .. 16 :
                 Internal(r) =
                    IF EpuReached(IF r.cmd = "read" THEN ReadAccesses(event)
                                  ELSE WriteAccesses(event, r.ctcc, r.group))
                    THEN Found(r.id, r.offset) ELSE Failed("EFAULT")
  <2> DEFINE event == (r.offset - 4) \div 4
  <2>1. event \in 0 .. 16
    BY <1>1, <1>8, <1>11
  <2>2. Dispatch(r.offset)[1] = "vcntrepecr" /\ Dispatch(r.offset)[2] = event
    BY <1>1, <1>7, <1>8, <1>11
  <2> HIDE DEF event
  <2>3. Handled(r, Found(r.id, r.offset)) =
           IF EpuReached(IF r.cmd = "read" THEN ReadAccesses(event)
                         ELSE WriteAccesses(event, r.ctcc, r.group))
           THEN Found(r.id, r.offset) ELSE Failed("EFAULT")
    BY <1>2, <2>2 DEF Handled
  <2>4. Internal(r) = Handled(r, Found(r.id, r.offset))
    BY <1>2, <1>6, <1>8, <1>9, <1>11 DEF Internal
  <2> QED
    BY <2>1, <2>3, <2>4
<1> QED
  BY <1>3, <1>5, <1>10, <1>11

\* One call, whatever it asks for.
LEMMA CallReaches ==
    ASSUME Typed, NEW r \in EveryRequest
    PROVE  ReachesItsWord(r) /\ ServesLegal(r) /\ RefusesRightly(r)
<1>1. /\ r.id \in Nat /\ r.offset \in Nat /\ r.offset % 4 = 0
      /\ r.cmd \in {"read", "write"} /\ r.ctcc \in 0 .. 7 /\ r.group \in SUBSET (0 .. 31)
  BY RequestHas
<1>2. r.args \in BOOLEAN /\ r.buffer \in BOOLEAN /\ NUM_IDS \in Nat
  BY RequestHas DEF NUM_IDS, VCOUNT, NUM_IO_IDS
<1>3. r.id < NUM_IDS => /\ MapSize(r.id) = maps[r.id].size /\ maps[r.id].size \in Nat
                        /\ maps[r.id].size % 4 = 0
  <2>1. r.id < NUM_IDS => r.id \in 0 .. NUM_IDS - 1
    BY <1>1 DEF NUM_IDS, VCOUNT, NUM_IO_IDS
  <2> QED
    BY <2>1, LocateIs DEF MapSize
<1>4. r.id < NUM_IDS => (r.offset < maps[r.id].size <=> r.offset + 4 <= maps[r.id].size)
  BY <1>1, <1>3, WordsApart
<1>5. /\ Found(r.id, r.offset).ret = "ok" /\ Found(r.id, r.offset).at = r.offset
      /\ Found(r.id, r.offset).base = maps[r.id].base /\ Failed("EFAULT").ret = "EFAULT"
  BY DEF Found, Failed
<1>6. Legal(r) <=> /\ r.args /\ r.buffer /\ r.reg_size # 8
                   /\ r.id < NUM_IDS /\ r.offset < maps[r.id].size
  BY <1>3, <1>4 DEF Legal
<1>7. Internal(r).ret = "ok" => /\ r.id < NUM_IDS /\ r.offset < maps[r.id].size
                                /\ Internal(r) = Found(r.id, r.offset)
  BY <1>1, <1>2, <1>3, <1>5, InternalIs
<1>8. Internal(r).ret = "EINVAL" <=> r.id >= NUM_IDS
  BY <1>1, <1>2, <1>3, <1>5, InternalIs
<1>9. ReachesItsWord(r)
  <2> SUFFICES ASSUME reg_access(r).ret = "ok"
               PROVE  /\ Legal(r)
                      /\ reg_access(r).base = maps[r.id].base
                      /\ reg_access(r).at = r.offset
                      /\ \/ r.offset + AccessBytes(r.id, r.offset) <= maps[r.id].size
                         \/ r.id = VCOUNT /\ r.offset + 4 = maps[VCOUNT].size
    BY DEF ReachesItsWord
  <2>1. r.args /\ r.reg_size # 8 /\ r.buffer
    BY <1>1, <1>2, AnswerIs
  <2>2. reg_access(r) = Internal(r)
    BY <2>1, AnswerIs
  <2>3. /\ r.id < NUM_IDS /\ r.offset < maps[r.id].size
        /\ reg_access(r) = Found(r.id, r.offset)
    BY <1>7, <2>2
  <2>4. CASE AccessBytes(r.id, r.offset) = 4
    BY <1>4, <1>5, <1>6, <2>1, <2>3, <2>4
  <2>5. CASE AccessBytes(r.id, r.offset) # 4
    <3>1. AccessBytes(r.id, r.offset) = 8 /\ ~IsIoMapped(r.id)
      BY <2>5 DEF AccessBytes
    <3>2. r.id = VCOUNT
      BY <1>1, <2>3, <3>1 DEF IsIoMapped, NUM_IDS, VCOUNT, NUM_IO_IDS
    <3>3. r.offset + 4 = maps[r.id].size \/ r.offset + 8 <= maps[r.id].size
      BY <1>1, <1>3, <1>4, <2>3
    <3> QED
      BY <1>5, <1>6, <2>1, <2>3, <3>1, <3>2, <3>3
  <2> QED
    BY <2>4, <2>5
<1>10. ServesLegal(r)
  <2> SUFFICES ASSUME Legal(r)
               PROVE  /\ ~NamesEvent(r) => reg_access(r).ret = "ok"
                      /\ NamesEvent(r) /\ maps[Id.epu].size = 0
                            => reg_access(r).ret = "EFAULT"
                      /\ NamesEvent(r) /\ WholeEpu
                            => (reg_access(r).ret = "ok" <=> r.cmd = "read" \/ r.ctcc = 0)
    BY DEF ServesLegal
  <2>1. reg_access(r) = Internal(r) /\ r.id < NUM_IDS /\ r.offset < maps[r.id].size
    BY <1>6, AnswerIs
  <2>2. CASE ~NamesEvent(r)
    BY <1>5, <2>1, <2>2, InternalIs
  <2>3. CASE NamesEvent(r)
    <3>1. PICK event \in 0 .. 16 :
             Internal(r) = IF EpuReached(IF r.cmd = "read" THEN ReadAccesses(event)
                                         ELSE WriteAccesses(event, r.ctcc, r.group))
                           THEN Found(r.id, r.offset) ELSE Failed("EFAULT")
      BY <2>1, <2>3, InternalIs
    <3>2. /\ maps[Id.epu].size = 0
                => /\ ~EpuReached(ReadAccesses(event))
                   /\ ~EpuReached(WriteAccesses(event, r.ctcc, r.group))
          /\ WholeEpu
                => /\ EpuReached(ReadAccesses(event))
                   /\ EpuReached(WriteAccesses(event, r.ctcc, r.group)) <=> r.ctcc = 0
      BY <1>1, EventsServed
    <3>3. CASE r.cmd = "read"
      BY <1>5, <2>1, <2>3, <3>1, <3>2, <3>3
    <3>4. CASE r.cmd = "write"
      BY <1>5, <2>1, <2>3, <3>1, <3>2, <3>4
    <3> QED
      BY <1>1, <3>3, <3>4
  <2> QED
    BY <2>2, <2>3
<1>11. RefusesRightly(r)
  <2>1. r.reg_size # 8 /\ r.args /\ ~r.buffer /\ r.cmd = "read"
           => (reg_access(r).ret = "EINVAL" <=> r.id >= NUM_IDS)
    BY <1>8, AnswerIs
  <2>2. r.reg_size # 8 /\ r.args /\ r.buffer
           => (reg_access(r).ret = "EINVAL" <=> r.id >= NUM_IDS)
    BY <1>8, AnswerIs
  <2> QED
    BY <1>1, <1>2, <2>1, <2>2, AnswerIs DEF RefusesRightly
<1> QED
  BY <1>9, <1>10, <1>11

\* Whatever is mapped, and so whatever has failed: every call, for any id, any
\* offset of a word and any contents of the EPU, reaches the word it names or
\* fails as it should, and what the handlers return is not lost
\* (reg_access.c:66-212, 376-405; vir_cntrs.c:356-413).
THEOREM IoctlsReach ==
    /\ Spec => []IoctlReachesRegister
    /\ Spec => [](\A r \in EveryRequest :
                     ReachesItsWord(r) /\ ServesLegal(r) /\ RefusesRightly(r))
<1>1. Typed => \A r \in EveryRequest :
                  ReachesItsWord(r) /\ ServesLegal(r) /\ RefusesRightly(r)
  BY CallReaches
<1>2. Typed => IoctlReachesRegister
  <2> SUFFICES ASSUME Typed, NEW id \in 0 .. NUM_IDS,
                      NEW r \in Requests({id}, Boundary(MapSize(id)), {0, 1}, {{}, {31}})
               PROVE  ReachesItsWord(r) /\ ServesLegal(r) /\ RefusesRightly(r)
    BY DEF IoctlReachesRegister
  <2>1. r \in EveryRequest
    BY TriedRequests
  <2> QED
    BY <2>1, CallReaches
<1> QED
  BY <1>1, <1>2, AlwaysTyped, PTL

----------------------------------------------------------------------------
(* The virtual counters.                                                   *)

\* Once the module is loaded, each element of struct vcounters is found through
\* the ioctl and dispatched to itself, whatever has failed in probe
\* (vir_cntrs.c:356-413, 586).
THEOREM DispatchRight == Spec => []DispatchHitsElement
<1>1. Typed /\ Staged => DispatchHitsElement
  <2> SUFFICES ASSUME Typed, Staged, pc = "live",
                      NEW n \in {m \in DOMAIN vcounters : vcounters[m].name # "reserved"},
                      NEW j \in 0 .. vcounters[n].n - 1
               PROVE  LET f == vcounters[n]
                          found == Locate(VCOUNT, OffsetAt(vcounters, n) + j * f.stride)
                      IN  /\ found.ret = "ok" /\ found.base = RamBase
                          /\ Dispatch(found.at)
                                = <<f.name, IF f.name = "vcntrepecr" THEN j ELSE j * f.stride>>
    BY DEF DispatchHitsElement
  <2> DEFINE at == OffsetAt(vcounters, n) + j * vcounters[n].stride
  <2>1. n \in {1, 2, 4, 5}
    BY VcountersFields
  <2>2. /\ at \in Nat /\ at < 584
        /\ Dispatch(at) = <<vcounters[n].name,
                            IF vcounters[n].name = "vcntrepecr" THEN j
                            ELSE j * vcounters[n].stride>>
    <3>1. CASE n = 1
      <4>1. at = 0 /\ j = 0
        BY <3>1, VcountersFields, VcountersOffsets
      <4> QED
        BY <3>1, <4>1, VcountersFields, DispatchIs
    <3>2. CASE n = 2
      <4>1. at = 4 + j * 4 /\ j \in 0 .. 15
        BY <3>2, VcountersFields, VcountersOffsets
      <4>2. (4 + j * 4 - 4) \div 4 = j
        BY <4>1
      <4> HIDE DEF at
      <4> QED
        BY <3>2, <4>1, <4>2, VcountersFields, DispatchIs
    <3>3. CASE n = 4
      <4>1. at = 72 + j * 8 /\ j \in 0 .. 31
        BY <3>3, VcountersFields, VcountersOffsets
      <4> HIDE DEF at
      <4> QED
        BY <3>3, <4>1, VcountersFields, DispatchIs
    <3>4. CASE n = 5
      <4>1. at = 328 + j * 8 /\ j \in 0 .. 31
        BY <3>4, VcountersFields, VcountersOffsets
      <4> HIDE DEF at
      <4> QED
        BY <3>4, <4>1, VcountersFields, DispatchIs
    <3> QED
      BY <2>1, <3>1, <3>2, <3>3, <3>4
  <2>3. maps[VCOUNT] = [base |-> RamBase, size |-> 584]
    BY VcountersOffsets DEF Staged
  <2>4. VCOUNT \in 0 .. NUM_IDS - 1
    BY DEF VCOUNT, NUM_IDS, NUM_IO_IDS
  <2> HIDE DEF at
  <2>5. Locate(VCOUNT, at) = Found(VCOUNT, at)
    BY <2>2, <2>3, <2>4, LocateIs
  <2> QED
    BY <2>2, <2>3, <2>5 DEF Found, at
<1> QED
  BY <1>1, AlwaysTyped, PTL

----------------------------------------------------------------------------
(* The table of maps.  While devices are added, and for as long as the     *)
(* ioctls can be called, each entry stands for a range that is mapped, and *)
(* each such range has an entry, the only one with its address.  A step    *)
(* keeps this because the next ids are free: those of the other kinds lie  *)
(* below or above, those of the same kind below (Below).                   *)

Active == pc \in {"adding", "root", "misc"} \/ misc

\* The node has been looked at.
Done(k, n) == pc = "adding" => \E j \in 1 .. nk : Order[j] = k /\ (j = nk => n < np)

Stands(id, k, n, i) ==
    /\ n \in 1 .. Len(tree[k]) /\ i \in Ranges(tree[k][n])
    /\ maps[id] = [base |-> <<k, n, i>>, size |-> tree[k][n][i + 1]]
    /\ <<k, n, i>> \in MappedRanges
    /\ Id[k] <= id
    /\ \A other \in Kinds : Id[other] > Id[k] => id < Id[other]
    /\ Done(k, n)

Accounted == \A id \in Entries : \E k \in Kinds, n, i \in Nat : Stands(id, k, n, i)

Complete == \A r \in MappedRanges : \E id \in Entries : maps[id].base = r

Distinct == \A a, b \in Entries : maps[a].base = maps[b].base => a = b

Below ==
    pc = "adding" /\ np <= Len(tree[Order[nk]]) =>
        \A id \in Entries : maps[id].base[1] = Order[nk] => id < Id[Order[nk]] + index

Table == Active => Accounted /\ Complete /\ Distinct /\ Below

\* The ranges of a list of devices.
Mapped(list) ==
    {d.ptr[i] : d \in ToSet(list), i \in 0 .. MAX_MEM_RANGE - 1} \ {Null}

LEMMA NotNull == \A k, n, i : <<k, n, i>> # Null
  BY DEF Null

LEMMA MappedIs ==
    ASSUME NEW list \in Seq(Device)
    PROVE  \A r : r \in Mapped(list) <=>
                /\ r # Null
                /\ \E j \in 1 .. Len(list), i \in 0 .. 1 : list[j].ptr[i] = r
<1>1. \A d : d \in ToSet(list) <=> \E j \in 1 .. Len(list) : d = list[j]
  BY DEF ToSet
<1>2. 0 .. MAX_MEM_RANGE - 1 = 0 .. 1
  BY DEF MAX_MEM_RANGE
<1> QED
  BY <1>1, <1>2 DEF Mapped

\* A device at the head of the list adds the ranges of its own.
LEMMA MappedAdd ==
    ASSUME NEW list \in Seq(Device), NEW d \in Device
    PROVE  \A r : r \in Mapped(<<d>> \o list) <=>
                \/ r \in Mapped(list)
                \/ r # Null /\ \E i \in 0 .. 1 : d.ptr[i] = r
<1> DEFINE long == <<d>> \o list
<1>1. /\ <<d>> \in Seq(Device) /\ Len(<<d>>) = 1 /\ <<d>>[1] = d
      /\ Len(list) \in Nat
  OBVIOUS
<1>2. /\ long \in Seq(Device) /\ Len(long) = 1 + Len(list)
      /\ long[1] = d
      /\ \A j \in 1 .. Len(list) : long[1 + j] = list[j]
  BY <1>1, ConcatProperties
<1> HIDE DEF long
<1>3. \A r : r \in Mapped(long) <=>
         r # Null /\ \E j \in 1 .. Len(long), i \in 0 .. 1 : long[j].ptr[i] = r
  BY <1>2, MappedIs
<1>4. \A r : r \in Mapped(list) <=>
         r # Null /\ \E j \in 1 .. Len(list), i \in 0 .. 1 : list[j].ptr[i] = r
  BY MappedIs
<1>5. ASSUME NEW r, NEW j \in 1 .. Len(long), NEW i \in 0 .. 1, long[j].ptr[i] = r
      PROVE  \/ \E x \in 1 .. Len(list), y \in 0 .. 1 : list[x].ptr[y] = r
             \/ \E y \in 0 .. 1 : d.ptr[y] = r
  <2>1. CASE j = 1
    BY <1>2, <1>5, <2>1
  <2>2. CASE j # 1
    <3>1. j - 1 \in 1 .. Len(list) /\ long[j] = list[j - 1]
      <4>1. j - 1 \in 1 .. Len(list) /\ 1 + (j - 1) = j
        BY <1>1, <1>2, <2>2
      <4> QED
        BY <1>2, <4>1
    <3> QED
      BY <1>5, <3>1
  <2> QED
    BY <2>1, <2>2
<1>6. ASSUME NEW r, NEW j \in 1 .. Len(list), NEW i \in 0 .. 1, list[j].ptr[i] = r
      PROVE  \E x \in 1 .. Len(long), y \in 0 .. 1 : long[x].ptr[y] = r
  <2>1. 1 + j \in 1 .. Len(long) /\ long[1 + j] = list[j]
    BY <1>1, <1>2
  <2> QED
    BY <1>6, <2>1
<1>7. ASSUME NEW r, NEW i \in 0 .. 1, d.ptr[i] = r
      PROVE  \E x \in 1 .. Len(long), y \in 0 .. 1 : long[x].ptr[y] = r
  <2>1. 1 \in 1 .. Len(long)
    BY <1>1, <1>2
  <2> QED
    BY <1>2, <1>7, <2>1
<1> QED
  BY <1>3, <1>4, <1>5, <1>6, <1>7 DEF long

\* What a node can be entered with.
Enterable(k, n, first, node, mapped) ==
    \A i \in mapped : /\ i \in 0 .. 1
                      /\ <<k, n, i>> \in Address
                      /\ node[i + 1] \in Size
                      /\ EntryOf(Id[k], first, i) \in Nat
                      /\ Id[k] + first + i \in 0 .. NUM_IO_IDS - 1

Entered(both, m, k, n, first, node, mapped) ==
    /\ \A i \in mapped :
          both[Id[k] + first + i] = [base |-> <<k, n, i>>, size |-> node[i + 1]]
    /\ \A id \in 0 .. NUM_IDS - 1 :
          (\A i \in mapped : id # Id[k] + first + i) => both[id] = m[id]

\* What it does to the table: both ranges have their entries, and the others
\* are as before.
LEMMA EnterBoth ==
    ASSUME NEW k \in Kinds, NEW n \in Nat, NEW first \in Nat, NEW node, NEW mapped,
           Enterable(k, n, first, node, mapped),
           NEW m \in [0 .. NUM_IDS - 1 -> Entry]
    PROVE  Entered(Enter(Enter(m, k, n, first, node, mapped, 0),
                         k, n, first, node, mapped, 1),
                   m, k, n, first, node, mapped)
<1> DEFINE one == Enter(m, k, n, first, node, mapped, 0)
           both == Enter(one, k, n, first, node, mapped, 1)
           new(i) == [base |-> <<k, n, i>>, size |-> node[i + 1]]
<1> DEFINE enter(table, i) == Enter(table, k, n, first, node, mapped, i)
<1>a. \A table \in [0 .. NUM_IDS - 1 -> Entry], i \in 0 .. 1 :
         enter(table, i) \in [0 .. NUM_IDS - 1 -> Entry]
  <2>1. \A i \in mapped : /\ i \in 0 .. 1
                          /\ <<k, n, i>> \in Address
                          /\ node[i + 1] \in Size
                          /\ EntryOf(Id[k], first, i) \in Nat
    BY DEF Enterable
  <2> QED
    BY <2>1, EnteredTyped
<1>b. \A table \in [0 .. NUM_IDS - 1 -> Entry], i \in 0 .. 1, id \in 0 .. NUM_IDS - 1 :
         enter(table, i)[id] =
            IF i \in mapped /\ id = Id[k] + first + i THEN new(i) ELSE table[id]
  BY DEF Enter, Recorded, AddMap, EntryOf
<1>c. one = enter(m, 0) /\ both = enter(one, 1)
  OBVIOUS
<1>d. \A i \in mapped : i \in 0 .. 1 /\ Id[k] + first + i \in 0 .. NUM_IO_IDS - 1
  BY DEF Enterable
<1> HIDE DEF one, both, new, enter
<1>1. one \in [0 .. NUM_IDS - 1 -> Entry]
  BY <1>a, <1>c
<1>2. \A id \in 0 .. NUM_IDS - 1 :
         one[id] = IF 0 \in mapped /\ id = Id[k] + first + 0 THEN new(0) ELSE m[id]
  <2> TAKE id \in 0 .. NUM_IDS - 1
  <2>1. 0 \in 0 .. 1
    OBVIOUS
  <2>2. enter(m, 0)[id] = IF 0 \in mapped /\ id = Id[k] + first + 0 THEN new(0) ELSE m[id]
    BY <1>b, <2>1
  <2> QED
    BY <1>c, <2>2
<1>3. \A id \in 0 .. NUM_IDS - 1 :
         both[id] = IF 1 \in mapped /\ id = Id[k] + first + 1 THEN new(1) ELSE one[id]
  BY <1>1, <1>b, <1>c
<1>4. Id[k] \in Nat
  BY IdsApart
<1>5. ASSUME NEW i \in mapped PROVE both[Id[k] + first + i] = new(i)
  <2>1. Id[k] + first + i \in 0 .. NUM_IDS - 1
    BY <1>d DEF NUM_IDS, VCOUNT, NUM_IO_IDS
  <2>2. CASE i = 0
    <3>1. Id[k] + first + 0 # Id[k] + first + 1
      BY <1>4
    <3> QED
      BY <1>2, <1>3, <1>5, <2>1, <2>2, <3>1
  <2>3. CASE i = 1
    BY <1>3, <1>5, <2>1, <2>3
  <2>4. i = 0 \/ i = 1
    <3>1. i \in 0 .. 1
      BY <1>d
    <3> QED
      BY <3>1
  <2> QED
    BY <2>2, <2>3, <2>4
<1>6. ASSUME NEW id \in 0 .. NUM_IDS - 1, \A i \in mapped : id # Id[k] + first + i
      PROVE  both[id] = m[id]
  BY <1>2, <1>3, <1>6
<1> QED
  BY <1>5, <1>6 DEF Entered, both, one, new

\* The ids of the next node: in the table, below those of the next kind, and
\* only the last node of a kind has two ranges.
LEMMA NextIds ==
    ASSUME Typed, FitsIds(tree), pc = "adding", np <= Len(tree[Order[nk]]),
           NEW i \in Ranges(tree[Order[nk]][np])
    PROVE  /\ Id[Order[nk]] + index + i \in 0 .. NUM_IO_IDS - 1
           /\ \A other \in Kinds :
                 Id[other] > Id[Order[nk]] => Id[Order[nk]] + index + i < Id[other]
           /\ np < Len(tree[Order[nk]]) => i = 0
<1> DEFINE k == Order[nk]
<1>1. k \in Kinds /\ tree \in Trees
  BY OrderOfKinds DEF Typed
<1>2. tree[k] \in Seq(Seq(Nat))
  BY <1>1, TreeTyped
<1>3. np \in DOMAIN tree[k]
  BY <1>2 DEF Typed
<1>4. /\ i \in 0 .. 1
      /\ np < Len(tree[k]) => i = 0
  <2>1. np < Len(tree[k]) => Len(tree[k][np]) <= 1
    BY <1>1, <1>3 DEF FitsIds
  <2>2. i \in 0 .. 1 /\ i < Len(tree[k][np])
    BY DEF Ranges, MAX_MEM_RANGE
  <2>3. Len(tree[k][np]) \in Nat
    BY <1>2, <1>3
  <2> QED
    BY <2>1, <2>2, <2>3
<1>5. /\ Id[k] + np - 1 + i < NUM_IO_IDS
      /\ \A other \in Kinds : Id[other] > Id[k] => Id[k] + np - 1 + i < Id[other]
  BY <1>1, <1>3 DEF FitsIds
<1>6. Id[k] \in Nat /\ \A other \in Kinds : Id[other] \in Nat
  BY <1>1, IdsApart
<1>7. index \in Nat /\ np \in Nat /\ index < np
  BY DEF Typed
<1> DEFINE id == Id[k] + index + i
<1>8. id \in Nat /\ id <= Id[k] + np - 1 + i
  BY <1>4, <1>6, <1>7
<1>9. NUM_IO_IDS = 10
  BY DEF NUM_IO_IDS
<1>10. id \in 0 .. NUM_IO_IDS - 1
  <2> HIDE DEF id
  <2>1. Id[k] + np - 1 + i \in Int
    BY <1>4, <1>6, <1>7
  <2> QED
    BY <1>5, <1>8, <1>9, <2>1
<1>11. ASSUME NEW other \in Kinds, Id[other] > Id[k] PROVE id < Id[other]
  <2>1. Id[k] + np - 1 + i < Id[other]
    BY <1>5, <1>11
  <2>2. Id[k] + np - 1 + i \in Int /\ Id[other] \in Nat
    BY <1>4, <1>6, <1>7
  <2> HIDE DEF id
  <2> QED
    BY <1>8, <2>1, <2>2
<1> QED
  BY <1>4, <1>10, <1>11

\* An id is taken by one kind only.
LEMMA KindOfId ==
    ASSUME NEW j \in Kinds, NEW k \in Kinds, NEW id \in Nat,
           Id[j] <= id, Id[k] <= id,
           \A other \in Kinds : Id[other] > Id[j] => id < Id[other],
           \A other \in Kinds : Id[other] > Id[k] => id < Id[other]
    PROVE  j = k
<1>1. Id[j] \in Nat /\ Id[k] \in Nat
  BY IdsApart
<1>2. ~ (Id[j] > Id[k]) /\ ~ (Id[k] > Id[j])
  BY <1>1
<1>3. Id[j] = Id[k]
  BY <1>1, <1>2
<1> QED
  BY <1>3, IdsApart

\* A step of AddDevice, seen through the table: which ranges and which ids are
\* new, and that the ids were free.
AddedTo(k, mapped) ==
    /\ k = Order[nk] /\ k \in Kinds /\ pc = "adding" /\ np \in 1 .. Len(tree[k])
    /\ mapped \subseteq Ranges(tree[k][np])
    /\ UNCHANGED <<tree, pc, nk, misc>> /\ np' = np + 1 /\ index' = index + 1
    /\ \A r : r \in MappedRanges' <=>
                 r \in MappedRanges \/ \E i \in mapped : r = <<k, np, i>>
    /\ \A i \in mapped :
          /\ Id[k] + index + i \in 0 .. NUM_IO_IDS - 1
          /\ maps'[Id[k] + index + i] = [base |-> <<k, np, i>>, size |-> tree[k][np][i + 1]]
    /\ \A id \in 0 .. NUM_IO_IDS - 1 :
          (\A i \in mapped : id # Id[k] + index + i) => maps'[id] = maps[id]

\* The device at the head of the list, and how many of its ranges have failed.
Headed(k, mapped) ==
    /\ failures' = failures + (Cardinality(Ranges(tree[k][np])) - Cardinality(mapped))
    /\ \E d \in Device : /\ d.kind = k /\ \A i \in mapped : d.ptr[i] = <<k, np, i>>
                         /\ devs' = <<d>> \o devs

LEMMA AddDeviceAdds ==
    ASSUME Typed, FitsIds(tree), AddDevice
    PROVE  \E mapped : AddedTo(Order[nk], mapped) /\ Headed(Order[nk], mapped)
<1> DEFINE k == Order[nk]
           node == tree[Order[nk]][np]
           device(mapped) ==
               [kind |-> k,
                ptr  |-> [i \in 0 .. MAX_MEM_RANGE - 1 |->
                             IF i \in mapped THEN <<k, np, i>> ELSE Null]]
           enter(m, mapped, i) == Enter(m, k, np, index, node, mapped, i)
<1>1. /\ pc = "adding" /\ np <= Len(tree[k])
      /\ k \in Kinds /\ np \in Nat \ {0} /\ index \in Nat
      /\ maps \in [0 .. NUM_IDS - 1 -> Entry]
      /\ devs \in Seq(Device) /\ tree \in Trees
  BY OrderOfKinds DEF AddDevice, Typed
<1>2. PICK mapped \in SUBSET Ranges(node) :
         /\ maps' = enter(enter(maps, mapped, 0), mapped, 1)
         /\ devs' = <<device(mapped)>> \o devs
         /\ failures' = failures + (Cardinality(Ranges(node)) - Cardinality(mapped))
  BY DEF AddDevice, Enter
<1>3. /\ device(mapped) \in Device
      /\ \A i \in mapped : /\ i \in 0 .. 1
                            /\ <<k, np, i>> \in Address
                            /\ node[i + 1] \in Size
                            /\ EntryOf(Id[k], index, i) \in Nat
  BY <1>1, DeviceTyped
<1>4. \A i \in mapped : Id[k] + index + i \in 0 .. NUM_IO_IDS - 1
  <2>1. \A i \in Ranges(node) : Id[k] + index + i \in 0 .. NUM_IO_IDS - 1
    BY <1>1, NextIds
  <2> QED
    BY <2>1
<1>5. \A r : r \in MappedRanges' <=>
              r \in MappedRanges \/ \E i \in mapped : r = <<k, np, i>>
  <2>1. MappedRanges = Mapped(devs) /\ MappedRanges' = Mapped(<<device(mapped)>> \o devs)
    BY <1>2 DEF MappedRanges, Mapped
  <2>2. \A r : (r # Null /\ \E i \in 0 .. 1 : device(mapped).ptr[i] = r)
                <=> \E i \in mapped : r = <<k, np, i>>
    <3>1. \A i \in 0 .. 1 :
             device(mapped).ptr[i] = IF i \in mapped THEN <<k, np, i>> ELSE Null
      BY DEF MAX_MEM_RANGE
    <3>2. \A i \in mapped : i \in 0 .. 1
      BY <1>3
    <3> HIDE DEF device
    <3> QED
      BY <3>1, <3>2, NotNull
  <2> HIDE DEF device
  <2>3. \A r : r \in Mapped(<<device(mapped)>> \o devs) <=>
                \/ r \in Mapped(devs)
                \/ r # Null /\ \E i \in 0 .. 1 : device(mapped).ptr[i] = r
    BY <1>1, <1>3, MappedAdd
  <2> QED
    BY <2>1, <2>2, <2>3
<1> DEFINE both == enter(enter(maps, mapped, 0), mapped, 1)
<1>6. /\ \A i \in mapped :
            both[Id[k] + index + i] = [base |-> <<k, np, i>>, size |-> node[i + 1]]
      /\ \A id \in 0 .. NUM_IDS - 1 :
            (\A i \in mapped : id # Id[k] + index + i) => both[id] = maps[id]
  <2> HIDE DEF k, node, device
  <2>1. both = Enter(Enter(maps, k, np, index, node, mapped, 0), k, np, index, node, mapped, 1)
    OBVIOUS
  <2> HIDE DEF both, enter
  <2>2. Enterable(k, np, index, node, mapped)
    BY <1>3, <1>4 DEF Enterable
  <2>3. k \in Kinds /\ np \in Nat /\ index \in Nat /\ maps \in [0 .. NUM_IDS - 1 -> Entry]
    BY <1>1
  <2>4. Entered(both, maps, k, np, index, node, mapped)
    BY <2>1, <2>2, <2>3, EnterBoth
  <2> QED
    BY <2>4 DEF Entered
<1>7. both = maps'
  BY <1>2
<1>8. \A id \in 0 .. NUM_IO_IDS - 1 : id \in 0 .. NUM_IDS - 1
  BY DEF NUM_IDS, VCOUNT, NUM_IO_IDS
<1>9. np \in 1 .. Len(tree[k])
  <2>1. Len(tree[k]) \in Nat
    BY <1>1, TreeTyped
  <2> QED
    BY <1>1, <2>1
<1>10. UNCHANGED <<tree, pc, nk, misc>> /\ np' = np + 1 /\ index' = index + 1
  BY DEF AddDevice
<1>11. /\ device(mapped).kind = k
       /\ \A i \in mapped : device(mapped).ptr[i] = <<k, np, i>>
  BY <1>3 DEF MAX_MEM_RANGE
<1> HIDE DEF both, device, enter
<1>12. AddedTo(k, mapped)
  BY <1>1, <1>4, <1>5, <1>6, <1>7, <1>8, <1>9, <1>10 DEF AddedTo
<1>13. Headed(k, mapped)
  BY <1>2, <1>3, <1>11 DEF Headed
<1> QED
  BY <1>12, <1>13

LEMMA TableInit == Init => Table
<1> SUFFICES ASSUME Init PROVE Table
  OBVIOUS
<1>1. Entries = {}
  <2>1. \A id \in 0 .. NUM_IO_IDS - 1 : maps[id] = NoMapInfo
    BY DEF Init, NUM_IDS, VCOUNT, NUM_IO_IDS
  <2> QED
    BY <2>1 DEF Entries, NoMapInfo
<1>2. MappedRanges = {}
  <2>1. devs = <<>>
    BY DEF Init
  <2> QED
    BY <2>1 DEF MappedRanges, ToSet
<1> QED
  BY <1>1, <1>2 DEF Table, Accounted, Complete, Distinct, Below

\* Nothing stands at the ids of the node that is being added.
LEMMA FreeIds ==
    ASSUME Typed, Table, FitsIds(tree), NEW mapped, AddedTo(Order[nk], mapped),
           NEW i \in mapped
    PROVE  Id[Order[nk]] + index + i \notin Entries
<1> DEFINE k  == Order[nk]
           id == Id[k] + index + i
<1> SUFFICES ASSUME id \in Entries PROVE FALSE
  OBVIOUS
<1>1. /\ pc = "adding" /\ k \in Kinds /\ np \in 1 .. Len(tree[k])
      /\ i \in Ranges(tree[k][np])
  BY DEF AddedTo
<1>2. /\ id \in 0 .. NUM_IO_IDS - 1
      /\ \A other \in Kinds : Id[other] > Id[k] => id < Id[other]
  BY <1>1, NextIds
<1>3. index \in Nat /\ i \in Nat /\ Id[k] \in Nat
  BY <1>1, IdsApart DEF Typed, Ranges, MAX_MEM_RANGE
<1>4. Accounted /\ Below
  BY <1>1 DEF Table, Active
<1> HIDE DEF k
<1>5. PICK j \in Kinds, n \in Nat, x \in Nat : Stands(id, j, n, x)
  BY <1>4 DEF Accounted
<1>6. /\ Id[j] <= id /\ maps[id].base[1] = j
      /\ \A other \in Kinds : Id[other] > Id[j] => id < Id[other]
  BY <1>5 DEF Stands
<1>7. Id[k] <= id /\ id \in Nat
  BY <1>3
<1>8. j = k
  <2> HIDE DEF id
  <2> QED
    BY <1>1, <1>2, <1>6, <1>7, KindOfId
<1>9. id < Id[k] + index
  <2> HIDE DEF id
  <2>1. np <= Len(tree[k])
    BY <1>1, TreeTyped DEF Typed
  <2> QED
    BY <1>1, <1>4, <1>6, <1>8, <2>1 DEF Below, k
<1> QED
  BY <1>3, <1>9

LEMMA AddDeviceTable ==
    ASSUME Typed, Typed', Table, FitsIds(tree), AddDevice
    PROVE  Table'
<1>1. PICK mapped : AddedTo(Order[nk], mapped)
  BY AddDeviceAdds
<1>k. PICK k, n0, first : k = Order[nk] /\ n0 = np /\ first = index
  OBVIOUS
<1> DEFINE id(i)  == Id[k] + first + i
           new(i) == [base |-> <<k, n0, i>>, size |-> tree[k][n0][i + 1]]
<1>2. /\ k \in Kinds /\ pc = "adding" /\ n0 \in 1 .. Len(tree[k])
      /\ mapped \subseteq Ranges(tree[k][n0])
      /\ UNCHANGED <<tree, pc, nk, misc>> /\ np' = n0 + 1 /\ index' = first + 1
  BY <1>1, <1>k DEF AddedTo
<1>3. \A r : r \in MappedRanges' <=>
              r \in MappedRanges \/ \E i \in mapped : r = <<k, n0, i>>
  BY <1>1, <1>k DEF AddedTo
<1>4. \A i \in mapped :
         /\ id(i) \in 0 .. NUM_IO_IDS - 1
         /\ maps'[id(i)] = new(i)
  BY <1>1, <1>k DEF AddedTo
<1>n. \A i : new(i).base = <<k, n0, i>> /\ new(i).size = tree[k][n0][i + 1]
  OBVIOUS
<1>5. \A i \in mapped : id(i) \notin Entries
  BY <1>1, <1>k, FreeIds
<1>6. \A x \in 0 .. NUM_IO_IDS - 1 : (\A i \in mapped : x # id(i)) => maps'[x] = maps[x]
  BY <1>1, <1>k DEF AddedTo
<1>7. \A i \in mapped :
         /\ i \in Nat
         /\ tree[k][n0][i + 1] > 0
         /\ n0 < Len(tree[k]) => i = 0
         /\ \A other \in Kinds : Id[other] > Id[k] => id(i) < Id[other]
  <2>0. tree \in Trees
    BY DEF Typed
  <2>1. \A i \in Ranges(tree[k][n0]) : i \in Nat
    BY RangesOfNode
  <2>2. \A i \in Ranges(tree[k][n0]) : tree[k][n0][i + 1] > 0
    BY <1>2, <2>0, TreeTyped
  <2>3. n0 <= Len(tree[k])
    <3>1. Len(tree[k]) \in Nat
      BY <1>2, <2>0, TreeTyped
    <3> QED
      BY <1>2, <3>1
  <2>4. \A i \in Ranges(tree[k][n0]) :
           /\ n0 < Len(tree[k]) => i = 0
           /\ \A other \in Kinds : Id[other] > Id[k] => id(i) < Id[other]
    BY <1>2, <1>k, <2>3, NextIds
  <2> QED
    BY <1>2, <2>1, <2>2, <2>4
<1>8. Accounted /\ Complete /\ Distinct /\ Below
  BY <1>2 DEF Table, Active
<1>9. nk \in 1 .. 7 /\ first \in Nat /\ n0 \in Nat /\ Id[k] \in Nat
  BY <1>2, <1>k, IdsApart DEF Typed
<1>a. \A i \in mapped : id(i) >= Id[k]
  BY <1>7, <1>9
<1>b. \A i, j \in mapped : id(i) = id(j) => i = j
  BY <1>7, <1>9
<1>c. \A i \in mapped : n0 + 1 <= Len(tree[k]) => id(i) < Id[k] + (first + 1)
  <2>1. Len(tree[k]) \in Nat
    BY <1>2, TreeTyped DEF Typed
  <2> QED
    BY <1>7, <1>9, <2>1
<1> HIDE DEF id, new
<1>10. /\ \A x \in Entries : x \in Entries' /\ maps'[x] = maps[x]
       /\ \A i \in mapped : id(i) \in Entries'
       /\ \A x \in Entries' : x \in Entries \/ \E i \in mapped : x = id(i)
  <2>1. \A x \in Entries : maps'[x] = maps[x] /\ x \in 0 .. NUM_IO_IDS - 1
    BY <1>5, <1>6 DEF Entries
  <2>2. \A x \in Entries : x \in Entries'
    BY <2>1 DEF Entries
  <2>3. \A i \in mapped : id(i) \in Entries'
    <3> TAKE i \in mapped
    <3>1. id(i) \in 0 .. NUM_IO_IDS - 1 /\ maps'[id(i)].size = tree[k][n0][i + 1]
      BY <1>4, <1>n
    <3>2. tree[k][n0][i + 1] > 0
      BY <1>7
    <3> QED
      BY <3>1, <3>2 DEF Entries
  <2>4. ASSUME NEW x \in Entries', \A i \in mapped : x # id(i) PROVE x \in Entries
    <3>1. x \in 0 .. NUM_IO_IDS - 1 /\ maps'[x].size > 0
      BY DEF Entries
    <3>2. maps'[x] = maps[x]
      BY <1>6, <2>4, <3>1
    <3> QED
      BY <3>1, <3>2 DEF Entries
  <2> QED
    BY <2>1, <2>2, <2>3, <2>4
<1>11. ASSUME NEW x \in Entries, NEW j \in Kinds, NEW n \in Nat, NEW i \in Nat,
              Stands(x, j, n, i)
       PROVE  Stands(x, j, n, i)' /\ <<j, n, i>> # <<k, n0, 0>> /\ (j = k => n < n0)
  <2>1. Done(j, n) /\ Done(j, n)' /\ (j = k => n < n0)
    <3>1. PICK p \in 1 .. nk : Order[p] = j /\ (p = nk => n < n0)
      BY <1>2, <1>11, <1>k DEF Stands, Done
    <3>2. j = k => p = nk
      <4>1. p \in 1 .. 7
        BY <1>9
      <4> QED
        BY <1>9, <1>k, <3>1, <4>1, OrderOfKinds
    <3>3. n < n0 => n < np'
      BY <1>2, <1>9
    <3>4. nk' = nk
      BY <1>2
    <3> QED
      BY <1>11, <3>1, <3>2, <3>3, <3>4 DEF Stands, Done
  <2>2. maps'[x] = maps[x] /\ tree' = tree
    BY <1>2, <1>10
  <2>3. <<j, n, i>> \in MappedRanges'
    BY <1>3, <1>11 DEF Stands
  <2>4. <<j, n, i>> # <<k, n0, 0>>
    BY <1>9, <2>1
  <2> QED
    BY <1>11, <2>1, <2>2, <2>3, <2>4 DEF Stands
<1>12. ASSUME NEW i \in mapped
       PROVE  Stands(id(i), k, n0, i)'
  <2>1. Done(k, n0)'
    <3>1. nk \in 1 .. nk' /\ n0 < np'
      BY <1>2, <1>9
    <3>2. Order[nk] = k
      BY <1>k
    <3> QED
      BY <3>1, <3>2 DEF Done
  <2>2. /\ n0 \in 1 .. Len(tree'[k]) /\ i \in Ranges(tree'[k][n0])
        /\ maps'[id(i)] = [base |-> <<k, n0, i>>, size |-> tree'[k][n0][i + 1]]
    BY <1>2, <1>4 DEF new
  <2>3. <<k, n0, i>> \in MappedRanges'
    BY <1>3
  <2>4. Id[k] <= id(i)
    BY <1>4, <1>9, <1>a
  <2> QED
    BY <1>7, <2>1, <2>2, <2>3, <2>4 DEF Stands
<1>13. Accounted'
  <2> SUFFICES ASSUME NEW x \in Entries'
               PROVE  \E j \in Kinds, n, i \in Nat : Stands(x, j, n, i)'
    BY DEF Accounted
  <2>1. CASE x \in Entries
    <3>1. PICK j \in Kinds, n \in Nat, i \in Nat : Stands(x, j, n, i)
      BY <1>8, <2>1 DEF Accounted
    <3>2. Stands(x, j, n, i)'
      BY <1>11, <2>1, <3>1
    <3> QED
      BY <3>2
  <2>2. CASE x \notin Entries
    <3>1. PICK i \in mapped : x = id(i)
      BY <1>10, <2>2
    <3>2. Stands(x, k, n0, i)' /\ i \in Nat /\ n0 \in Nat /\ k \in Kinds
      BY <1>2, <1>7, <1>9, <1>12, <3>1
    <3> QED
      BY <3>2
  <2> QED
    BY <2>1, <2>2
<1>14. Complete'
  <2> SUFFICES ASSUME NEW r \in MappedRanges'
               PROVE  \E x \in Entries' : maps'[x].base = r
    BY DEF Complete
  <2>1. CASE r \in MappedRanges
    BY <1>8, <1>10, <2>1 DEF Complete
  <2>2. CASE r \notin MappedRanges
    <3>1. PICK i \in mapped : r = <<k, n0, i>>
      BY <1>3, <2>2
    <3> QED
      BY <1>4, <1>10, <1>n, <3>1
  <2> QED
    BY <2>1, <2>2
<1>15. Distinct'
  <2> SUFFICES ASSUME NEW a \in Entries', NEW b \in Entries', maps'[a].base = maps'[b].base
               PROVE  a = b
    BY DEF Distinct
  <2>1. ASSUME NEW x \in Entries, NEW i \in mapped PROVE maps'[x].base # maps'[id(i)].base
    <3>1. PICK j \in Kinds, n \in Nat, y \in Nat : Stands(x, j, n, y)
      BY <1>8, <2>1 DEF Accounted
    <3>2. j = k => n < n0
      BY <1>11, <3>1
    <3>3. maps'[x].base = <<j, n, y>>
      BY <1>10, <3>1 DEF Stands
    <3>4. maps'[id(i)].base = <<k, n0, i>>
      BY <1>4, <1>n
    <3> QED
      BY <1>9, <3>2, <3>3, <3>4
  <2>2. CASE a \in Entries /\ b \in Entries
    BY <1>8, <1>10, <2>2 DEF Distinct
  <2>3. CASE a \in Entries /\ b \notin Entries
    BY <1>10, <2>1, <2>3
  <2>4. CASE a \notin Entries /\ b \in Entries
    BY <1>10, <2>1, <2>4
  <2>5. CASE a \notin Entries /\ b \notin Entries
    <3>1. PICK i \in mapped, j \in mapped : a = id(i) /\ b = id(j)
      BY <1>10, <2>5
    <3>2. <<k, n0, i>> = <<k, n0, j>>
      BY <1>4, <1>n, <3>1
    <3> QED
      BY <3>1, <3>2
  <2> QED
    BY <2>2, <2>3, <2>4, <2>5
<1>16. Below'
  <2> SUFFICES ASSUME np' <= Len(tree'[Order[nk']]), NEW x \in Entries',
                      maps'[x].base[1] = Order[nk']
               PROVE  x < Id[Order[nk']] + index'
    BY DEF Below
  <2>1. /\ Order[nk'] = k /\ index' = first + 1 /\ n0 + 1 <= Len(tree[k])
    BY <1>2, <1>k
  <2>2. CASE x \in Entries
    <3>1. maps[x].base[1] = k
      BY <1>10, <2>1, <2>2
    <3>2. n0 <= Len(tree[k])
      <4>1. Len(tree[k]) \in Nat
        BY <1>2, TreeTyped DEF Typed
      <4> QED
        BY <1>9, <2>1, <4>1
    <3>3. x < Id[k] + first
      BY <1>2, <1>8, <2>2, <3>1, <3>2, <1>k DEF Below
    <3>4. x \in Nat
      BY <2>2 DEF Entries
    <3> QED
      BY <1>9, <2>1, <3>3, <3>4
  <2>3. CASE x \notin Entries
    <3>1. PICK i \in mapped : x = id(i)
      BY <1>10, <2>3
    <3> QED
      BY <1>c, <2>1, <3>1
  <2> QED
    BY <2>2, <2>3
<1> QED
  BY <1>13, <1>14, <1>15, <1>16 DEF Table

\* What of the table stays when the tree, the devices and the entries of the
\* ranges do, and the nodes that have been looked at still count.
LEMMA TableKept ==
    ASSUME Accounted, Complete, Distinct,
           UNCHANGED <<tree, devs>>,
           \A id \in 0 .. NUM_IO_IDS - 1 : maps'[id] = maps[id],
           \A k \in Kinds, n \in Nat : Done(k, n) => Done(k, n)'
    PROVE  Accounted' /\ Complete' /\ Distinct' /\ Entries' = Entries
<1>1. Entries' = Entries /\ MappedRanges' = MappedRanges
  BY DEF Entries, MappedRanges
<1>2. \A id \in Entries : maps'[id] = maps[id]
  BY DEF Entries
<1>3. ASSUME NEW id \in Entries, NEW k \in Kinds, NEW n \in Nat, NEW i \in Nat,
             Stands(id, k, n, i)
      PROVE  Stands(id, k, n, i)'
  BY <1>1, <1>2, <1>3 DEF Stands
<1>4. Accounted'
  BY <1>1, <1>3 DEF Accounted
<1>5. Complete'
  BY <1>1, <1>2 DEF Complete
<1>6. Distinct'
  BY <1>1, <1>2 DEF Distinct
<1> QED
  BY <1>1, <1>4, <1>5, <1>6

LEMMA SkipDeviceTable ==
    ASSUME Typed, Table, SkipDevice
    PROVE  Table'
<1>1. /\ pc = "adding" /\ np \in Nat /\ np' = np + 1
      /\ np <= Len(tree[Order[nk]]) /\ Len(tree[Order[nk]]) \in Nat
      /\ UNCHANGED <<tree, pc, nk, index, devs, maps>>
  <2>1. Len(tree[Order[nk]]) \in Nat
    BY OrderOfKinds, TreeTyped DEF Typed
  <2> QED
    BY <2>1 DEF Typed, SkipDevice
<1>2. Accounted /\ Complete /\ Distinct /\ Below
  BY <1>1 DEF Table, Active
<1>3. \A k \in Kinds, n \in Nat : Done(k, n) => Done(k, n)'
  BY <1>1 DEF Done
<1>4. Accounted' /\ Complete' /\ Distinct' /\ Entries' = Entries
  BY <1>1, <1>2, <1>3, TableKept
<1>5. Below'
  BY <1>1, <1>2, <1>4 DEF Below
<1> QED
  BY <1>4, <1>5 DEF Table

LEMMA NextKindTable ==
    ASSUME Typed, Table, NextKind
    PROVE  Table'
<1>1. /\ pc = "adding" /\ nk \in 1 .. 7 /\ np' = 1
      /\ UNCHANGED <<tree, devs, maps>>
      /\ \/ nk' = nk + 1 /\ nk' \in 1 .. 7 /\ pc' = "adding"
         \/ pc' = "root"
  BY OrderOfKinds DEF Typed, NextKind
<1>2. Accounted /\ Complete /\ Distinct
  BY <1>1 DEF Table, Active
<1>3. ASSUME NEW k \in Kinds, NEW n \in Nat, Done(k, n) PROVE Done(k, n)'
  <2> SUFFICES ASSUME pc' = "adding"
               PROVE  \E j \in 1 .. nk' : Order[j] = k /\ (j = nk' => n < np')
    BY DEF Done
  <2>1. PICK j \in 1 .. nk : Order[j] = k
    BY <1>1, <1>3 DEF Done
  <2>2. j \in 1 .. nk' /\ j # nk'
    BY <1>1
  <2> QED
    BY <2>1, <2>2
<1>4. Accounted' /\ Complete' /\ Distinct' /\ Entries' = Entries
  BY <1>1, <1>2, <1>3, TableKept
<1>5. Below'
  <2> SUFFICES ASSUME pc' = "adding", NEW id \in Entries,
                      maps[id].base[1] = Order[nk']
               PROVE  FALSE
    BY <1>1, <1>4 DEF Below
  <2>1. PICK k \in Kinds, n \in Nat, i \in Nat : Stands(id, k, n, i)
    BY <1>2 DEF Accounted
  <2>2. maps[id].base[1] = k
    BY <2>1 DEF Stands
  <2>3. PICK j \in 1 .. nk : Order[j] = k
    BY <1>1, <2>1 DEF Stands, Done
  <2>4. j \in 1 .. 7 /\ nk' \in 1 .. 7 /\ j # nk'
    BY <1>1
  <2> QED
    BY <2>2, <2>3, <2>4, OrderOfKinds
<1> QED
  BY <1>4, <1>5 DEF Table

\* The steps that leave the devices and the entries of the ranges alone.
LEMMA RestTable ==
    ASSUME Table, UNCHANGED <<tree, devs>>,
           \A id \in 0 .. NUM_IO_IDS - 1 : maps'[id] = maps[id],
           pc' # "adding", Active' => Active /\ pc # "adding"
    PROVE  Table'
<1> SUFFICES ASSUME Active' PROVE Accounted' /\ Complete' /\ Distinct' /\ Below'
  BY DEF Table
<1>1. Accounted /\ Complete /\ Distinct
  BY DEF Table
<1>2. \A k \in Kinds, n \in Nat : Done(k, n) => Done(k, n)'
  BY DEF Done
<1>3. Accounted' /\ Complete' /\ Distinct'
  BY <1>1, <1>2, TableKept
<1> QED
  BY <1>3 DEF Below

LEMMA VcountersInitTable ==
    ASSUME Typed, Table, VcountersInit
    PROVE  Table'
<1>1. \A id \in 0 .. NUM_IO_IDS - 1 : maps'[id] = maps[id]
  <2>1. \A id \in 0 .. NUM_IO_IDS - 1 : id # VCOUNT /\ id \in 0 .. NUM_IDS - 1
    BY DEF VCOUNT, NUM_IDS, NUM_IO_IDS
  <2>2. maps \in [0 .. NUM_IDS - 1 -> Entry]
    BY DEF Typed
  <2>3. CASE maps' = AddMap(maps, VCOUNT, RamBase, SizeOf(vcounters))
    BY <2>1, <2>2, <2>3 DEF AddMap
  <2>4. CASE UNCHANGED maps
    BY <2>4
  <2> QED
    BY <2>3, <2>4 DEF VcountersInit
<1>2. /\ UNCHANGED <<tree, devs, misc>> /\ pc' \in {"live", "broken"}
      /\ pc = "vcounters"
  BY DEF VcountersInit
<1>3. Active' => Active /\ pc # "adding"
  BY <1>2 DEF Active
<1> QED
  BY <1>1, <1>2, <1>3, RestTable

LEMMA TableNext ==
    ASSUME Typed, Typed', Staged, Table, FitsIds(tree), [Next]_vars
    PROVE  Table' /\ tree' = tree
<1>1. CASE AddDevice
  BY <1>1, AddDeviceTable DEF AddDevice
<1>2. CASE SkipDevice
  BY <1>2, SkipDeviceTable DEF SkipDevice
<1>3. CASE NextKind
  BY <1>3, NextKindTable DEF NextKind
<1>4. CASE Fail /\ pc \in {"root", "misc"}
  BY <1>4 DEF Fail, Table, Active, Staged
<1>5. CASE CreateRoot /\ ~Fail
  <2>1. /\ pc = "root" /\ pc' = "misc"
        /\ UNCHANGED <<tree, nk, np, index, devs, maps, misc, dirs, epu_ptr, failures>>
    BY <1>5 DEF CreateRoot
  <2> QED
    BY <2>1, RestTable DEF Active
<1>6. CASE RegAccessInit /\ ~Fail
  <2>1. /\ pc = "misc" /\ pc' = "files" /\ UNCHANGED <<tree, devs, maps>>
    BY <1>6 DEF RegAccessInit
  <2> QED
    BY <2>1, RestTable DEF Active
<1>7. CASE CreateFiles
  <2>1. pc = "files" /\ UNCHANGED <<tree, pc, devs, maps, misc>>
    BY <1>7 DEF CreateFiles
  <2> QED
    BY <2>1, RestTable DEF Active
<1>8. CASE Probed
  <2>1. /\ pc = "files" /\ pc' = "vcounters" /\ UNCHANGED <<tree, devs, maps, misc>>
    BY <1>8 DEF Probed
  <2> QED
    BY <2>1, RestTable DEF Active
<1>9. CASE VcountersInit
  BY <1>9, VcountersInitTable DEF VcountersInit
<1>10. CASE UNCHANGED vars
  <2>1. UNCHANGED <<tree, pc, nk, np, index, devs, maps, misc>>
    BY <1>10 DEF vars
  <2>2. (Active' <=> Active) /\ \A k \in Kinds, n \in Nat : Done(k, n) => Done(k, n)'
    BY <2>1 DEF Active, Done
  <2>3. CASE ~Active
    BY <2>1, <2>2, <2>3 DEF Table
  <2>4. CASE Active
    <3>1. Accounted /\ Complete /\ Distinct /\ Below
      BY <2>4 DEF Table
    <3>2. Accounted' /\ Complete' /\ Distinct' /\ Entries' = Entries
      BY <2>1, <2>2, <3>1, TableKept
    <3>3. Below'
      BY <2>1, <3>1, <3>2 DEF Below
    <3> QED
      BY <2>1, <3>2, <3>3 DEF Table
  <2> QED
    BY <2>3, <2>4
<1> QED
  BY <1>1, <1>2, <1>3, <1>4, <1>5, <1>6, <1>7, <1>8, <1>9, <1>10
     DEF Next, CreateRoot, RegAccessInit

\* What is known of the table while the ioctls can be called.
LEMMA TableMeans == Typed /\ Table => EntriesAreRanges
<1> SUFFICES ASSUME Typed, Table, misc PROVE EntriesAreRanges
  BY DEF EntriesAreRanges
<1>1. Accounted /\ Complete /\ Distinct
  BY DEF Table, Active
<1>2. ASSUME NEW r \in MappedRanges
      PROVE  Cardinality({id \in Entries : maps[id].base = r}) = 1
  <2>1. PICK id \in Entries : maps[id].base = r
    BY <1>1 DEF Complete
  <2>2. {x \in Entries : maps[x].base = r} = {id}
    BY <1>1, <2>1 DEF Distinct
  <2> QED
    BY <2>2, FS_Singleton
<1>3. ASSUME NEW id \in Entries
      PROVE  /\ maps[id].base \in MappedRanges
             /\ LET r == maps[id].base
                IN  /\ maps[id].size = tree[r[1]][r[2]][r[3] + 1]
                    /\ Id[r[1]] <= id
                    /\ \A kind \in Kinds : Id[kind] <= id => Id[kind] <= Id[r[1]]
  <2>1. PICK k \in Kinds, n \in Nat, i \in Nat : Stands(id, k, n, i)
    BY <1>1 DEF Accounted
  <2>2. /\ maps[id].base = <<k, n, i>> /\ maps[id].size = tree[k][n][i + 1]
        /\ <<k, n, i>> \in MappedRanges /\ Id[k] <= id
        /\ \A other \in Kinds : Id[other] > Id[k] => id < Id[other]
    BY <2>1 DEF Stands
  <2>3. \A other \in Kinds : Id[other] <= id => Id[other] <= Id[k]
    <3>1. id \in Nat /\ Id[k] \in Nat /\ \A other \in Kinds : Id[other] \in Nat
      BY IdsApart DEF Entries
    <3> QED
      BY <2>2, <3>1
  <2>4. <<k, n, i>>[1] = k /\ <<k, n, i>>[2] = n /\ <<k, n, i>>[3] = i
    OBVIOUS
  <2> QED
    BY <2>2, <2>3, <2>4
<1> QED
  BY <1>2, <1>3 DEF EntriesAreRanges

\* For device trees that fit the ids, and whatever has failed: while the ioctls
\* can be called, each range that is mapped has one entry, of its own size, and
\* each entry stands for a range that is mapped, of the kind that the id is for
\* (ls_dbg.c:78-127, 201-202).
THEOREM TableRight ==
    ASSUME \A t \in Trees : FitsIds(t)
    PROVE  Spec => []EntriesAreRanges
<1> DEFINE Inv == Typed /\ Staged /\ Table
<1>1. Init => Inv
  BY TypedInit, TableInit
<1>2. Inv /\ [Next]_vars => Inv'
  <2> SUFFICES ASSUME Inv, [Next]_vars PROVE Inv'
    OBVIOUS
  <2>1. Typed' /\ Staged'
    BY TypedNext
  <2>2. FitsIds(tree)
    BY DEF Typed
  <2>3. Table'
    BY <2>1, <2>2, TableNext
  <2> QED
    BY <2>1, <2>3
<1>3. Inv => EntriesAreRanges
  BY TableMeans
<1> QED
  BY <1>1, <1>2, <1>3, PTL DEF Spec

=============================================================================
