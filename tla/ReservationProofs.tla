-------------------------- MODULE ReservationProofs --------------------------
(***************************************************************************)
(* Theorems about Reservation, for any number of tools and any groups of   *)
(* at most 32 resources whose registers differ.                            *)
(***************************************************************************)
EXTENDS Reservation, TLAPS

----------------------------------------------------------------------------
(* Registers and resources.                                                *)

\* Two groups never share a register.
LEMMA RegisterInjective ==
    ASSUME NEW g \in Groups, NEW h \in Groups
    PROVE  Register(g) = Register(h) => g = h
  BY GroupsAssumption DEF Register

\* A resource is set when its bit is.
LEMMA TakenBit ==
    ASSUME NEW r \in Resources
    PROVE  r \in Taken <=> r.idx \in eprsrv[Register(r.grp)]
<1>1. r \in [grp : Groups, idx : 0 .. 31]
  BY DEF Resources
<1>2. r \in Taken <=> \E g \in Groups : \E i \in eprsrv[Register(g)] :
                          r = [grp |-> g, idx |-> i]
  BY DEF Taken
<1>3. r.grp \in Groups /\ r = [grp |-> r.grp, idx |-> r.idx]
  BY <1>1
<1> QED
  BY <1>2, <1>3

\* A bit below the size of its group stands for a resource.
LEMMA BitsResources ==
    ASSUME NEW bits, \A g \in Groups : bits[Register(g)] \subseteq 0 .. Size[g] - 1
    PROVE  UNION {{[grp |-> g, idx |-> i] : i \in bits[Register(g)]} : g \in Groups}
               \subseteq Resources
<1> SUFFICES ASSUME NEW g \in Groups, NEW i \in bits[Register(g)]
             PROVE  [grp |-> g, idx |-> i] \in Resources
  OBVIOUS
<1>1. i \in 0 .. Size[g] - 1 /\ Size[g] \in 1 .. 32
  BY GroupsAssumption
<1>2. i \in 0 .. 31 /\ i < Size[g]
  BY <1>1
<1> QED
  BY <1>2 DEF Resources

----------------------------------------------------------------------------
(* The invariant: the lock is with the call inside the critical section, a *)
(* call there has passed the checks, and what it has read of the register  *)
(* is what the register still holds when it writes.                        *)

Inside == {"read", "write", "unlock"}

HolderOnly == \A c \in Clients : pc[c] \in Inside => reg_acc_lock = c

ChecksPassed ==
    \A c \in Clients :
        /\ pc[c] \in {"idle", "unlock"} <=> req[c] = NoRequest
        /\ pc[c] \in {"lock", "read", "write"} =>
               Resource(req[c]) \in Resources /\ req[c].cmd \in {"RESERVE", "RELINQ"}

ReadIsCurrent ==
    \A c \in Clients :
        pc[c] = "write" => /\ prev[c] = eprsrv[Register(req[c].grp)]
                           /\ Allowed(req[c], prev[c])

LockInv == TypeOK /\ HolderOnly /\ ChecksPassed /\ ReadIsCurrent

\* What WriteBit does to the resources: its own is taken or given back, and no
\* other changes.
LEMMA WriteEffect ==
    ASSUME LockInv, NEW c \in Clients, WriteBit(c)
    PROVE  LET r == Resource(req[c])
           IN  /\ r \in Resources
               /\ req[c].cmd \in {"RESERVE", "RELINQ"}
               /\ r \in Taken <=> req[c].cmd = "RELINQ"
               /\ \A s \in Resources :
                     s \in Taken' <=> IF s = r THEN req[c].cmd = "RESERVE"
                                               ELSE s \in Taken
<1> DEFINE r == Resource(req[c])
           reg == eprsrv[Register(r.grp)]
<1>1. /\ pc[c] = "write" /\ r \in Resources
      /\ req[c].cmd \in {"RESERVE", "RELINQ"}
      /\ prev[c] = reg /\ Allowed(req[c], reg)
  <2>1. r.grp = req[c].grp
    BY DEF Resource
  <2> QED
    BY <2>1 DEF LockInv, ChecksPassed, ReadIsCurrent, WriteBit
<1>2. r.grp \in Groups /\ r.idx \in 0 .. 31 /\ r.grp = req[c].grp /\ r.idx = req[c].idx
  BY <1>1 DEF Resources, Resource
<1>3. r \in Taken <=> req[c].cmd = "RELINQ"
  BY <1>1, <1>2, TakenBit DEF Allowed
<1>4. eprsrv' = [eprsrv EXCEPT ![Register(r.grp)] =
                    IF req[c].cmd = "RESERVE" THEN reg \union {r.idx} ELSE reg \ {r.idx}]
  BY <1>1, <1>2 DEF WriteBit, NewValue
<1>5. eprsrv \in [Registers -> SUBSET (0 .. 31)] /\ Register(r.grp) \in Registers
  BY <1>2 DEF LockInv, TypeOK, Registers
<1>6. ASSUME NEW s \in Resources
      PROVE  s \in Taken' <=> IF s = r THEN req[c].cmd = "RESERVE" ELSE s \in Taken
  <2>1. s \in Taken' <=> s.idx \in eprsrv'[Register(s.grp)]
    <3>1. s \in Taken' <=> \E g \in Groups : \E i \in eprsrv'[Register(g)] :
                               s = [grp |-> g, idx |-> i]
      BY DEF Taken
    <3>2. s.grp \in Groups /\ s = [grp |-> s.grp, idx |-> s.idx]
      BY DEF Resources
    <3> QED
      BY <3>1, <3>2
  <2>2. s \in Taken <=> s.idx \in eprsrv[Register(s.grp)]
    BY TakenBit
  <2>3. s.grp \in Groups /\ Register(s.grp) \in Registers
        /\ s = [grp |-> s.grp, idx |-> s.idx]
    BY DEF Resources, Registers
  <2>4. r = [grp |-> r.grp, idx |-> r.idx]
    BY DEF Resource
  <2>5. CASE s.grp = r.grp
    <3>1. eprsrv'[Register(s.grp)] =
              IF req[c].cmd = "RESERVE" THEN reg \union {r.idx} ELSE reg \ {r.idx}
      BY <1>4, <1>5, <2>5
    <3>2. s = r <=> s.idx = r.idx
      BY <2>3, <2>4, <2>5
    <3> HIDE DEF r
    <3> QED
      BY <1>1, <2>1, <2>2, <2>5, <3>1, <3>2
  <2>6. CASE s.grp # r.grp
    <3>1. Register(s.grp) # Register(r.grp)
      BY <1>2, <2>3, <2>6, RegisterInjective
    <3> QED
      BY <1>4, <1>5, <2>1, <2>2, <2>3, <2>6, <3>1
  <2> QED
    BY <2>5, <2>6
<1> QED
  BY <1>1, <1>3, <1>6

----------------------------------------------------------------------------
(* The invariant holds.                                                    *)

LEMMA LockInit == Init => LockInv
<1> SUFFICES ASSUME Init PROVE LockInv
  OBVIOUS
<1>1. TypeOK
  <2>1. \A g \in Groups : Register(g) \in Registers /\ Size[g] \in 1 .. 32
    BY GroupsAssumption DEF Registers
  <2> QED
    BY <2>1 DEF Init, TypeOK, NoAnswer, Codes
<1> QED
  BY <1>1 DEF Init, LockInv, HolderOnly, ChecksPassed, ReadIsCurrent, Inside

\* An outcome keeps the types.
LEMMA SettleTypes ==
    ASSUME TypeOK, NEW c \in Clients, NEW code \in Codes, NEW usage \in SUBSET (0 .. 31),
           NEW l \in {"idle", "unlock"}, Settle(c, code, usage, l),
           UNCHANGED <<eprsrv, reg_acc_lock, held, strays>>
    PROVE  TypeOK'
<1>1. [code |-> code, usage |-> usage] \in [code : Codes, usage : SUBSET (0 .. 31)]
  OBVIOUS
<1> DEFINE answer == [code |-> code, usage |-> usage]
<1>2. ans' = [ans EXCEPT ![c] = answer]
  BY DEF Settle
<1> HIDE DEF answer
<1>3. ans' \in [Clients -> [code : Codes, usage : SUBSET (0 .. 31)]]
  BY <1>1, <1>2 DEF TypeOK, answer
<1>4. /\ pc' \in [Clients -> {"idle", "check", "lock", "read", "write", "unlock"}]
      /\ req' \in [Clients -> Requests \union {NoRequest}]
      /\ prev' \in [Clients -> SUBSET (0 .. 31)]
  BY DEF TypeOK, Settle
<1> QED
  BY <1>3, <1>4 DEF TypeOK

\* A step of c that leaves the registers and the lock alone and stays outside
\* the critical section.
LEMMA LockQuiet ==
    ASSUME LockInv, TypeOK', NEW c \in Clients, UNCHANGED <<eprsrv, reg_acc_lock>>,
           pc[c] \notin {"lock", "read", "write"}, pc'[c] \in {"idle", "check"},
           pc'[c] = "idle" <=> req'[c] = NoRequest,
           \A d \in Clients \ {c} : UNCHANGED <<pc[d], req[d], prev[d]>>
    PROVE  LockInv'
  BY DEF LockInv, HolderOnly, ChecksPassed, ReadIsCurrent, Inside, Allowed

LEMMA LockNext == LockInv /\ [Next]_vars => LockInv'
<1> SUFFICES ASSUME LockInv, [Next]_vars PROVE LockInv'
  OBVIOUS
<1>a. TypeOK /\ HolderOnly /\ ChecksPassed /\ ReadIsCurrent
  BY DEF LockInv
<1>b. NoRequest \notin Requests
  BY RequestsAssumption
<1>1. ASSUME NEW c \in Clients, Call(c) PROVE LockInv'
  <2>1. TypeOK'
    BY <1>1, <1>a DEF Call, TypeOK, NoAnswer, Codes
  <2>2. pc'[c] = "check" /\ req'[c] # NoRequest
    BY <1>1, <1>a, <1>b DEF Call, TypeOK
  <2> QED
    BY <1>1, <1>a, <2>1, <2>2, LockQuiet DEF Call, TypeOK
<1>2. ASSUME NEW c \in Clients, Fault(c) \/ Reject(c) \/ RejectCommand(c)
      PROVE LockInv'
  <2>1. PICK code \in {"EFAULT", "EINVAL", "ENOTTY"} : Settle(c, code, {}, "idle")
    BY <1>2 DEF Fault, Reject, RejectCommand
  <2>2. pc[c] = "check" /\ UNCHANGED <<eprsrv, reg_acc_lock, held, strays>>
    BY <1>2 DEF Fault, Reject, RejectCommand
  <2>3. TypeOK'
    BY <1>a, <2>1, <2>2, SettleTypes DEF Codes
  <2> QED
    BY <1>a, <2>1, <2>2, <2>3, LockQuiet DEF Settle, TypeOK
<1>3. ASSUME NEW c \in Clients, GetUsage(c) PROVE LockInv'
  <2>1. eprsrv[Register(req[c].grp)] \in SUBSET (0 .. 31)
    <3>1. Resource(req[c]).grp \in Groups
      BY <1>3 DEF GetUsage, Resources
    <3> QED
      BY <1>a, <3>1 DEF TypeOK, Registers, Resource
  <2>2. PICK code \in Codes, usage \in SUBSET (0 .. 31) : Settle(c, code, usage, "idle")
    BY <1>3, <2>1 DEF GetUsage, Codes
  <2>3. pc[c] = "check" /\ UNCHANGED <<eprsrv, reg_acc_lock, held, strays>>
    BY <1>3 DEF GetUsage
  <2>4. TypeOK'
    BY <1>a, <2>2, <2>3, SettleTypes
  <2> QED
    BY <1>a, <2>2, <2>3, <2>4, LockQuiet DEF Settle, TypeOK
<1>3a. ASSUME NEW c \in Clients, Enter(c) PROVE LockInv'
  BY <1>3a, <1>a
  DEF Enter, LockInv, TypeOK, HolderOnly, ChecksPassed, ReadIsCurrent, Inside, Allowed
<1>4. ASSUME NEW c \in Clients, Lock(c) PROVE LockInv'
  <2>1. reg_acc_lock = Free /\ \A d \in Clients : pc[d] \notin Inside
    BY <1>4, <1>a, ClientsAssumption DEF Lock, LockFree, HolderOnly
  <2> QED
    BY <1>4, <1>a, <2>1
    DEF Lock, LockFree, LockInv, TypeOK, HolderOnly, ChecksPassed, ReadIsCurrent, Inside
<1>5. ASSUME NEW c \in Clients, ReadBit(c) PROVE LockInv'
  <2>1. eprsrv[Register(req[c].grp)] \in SUBSET (0 .. 31)
    <3>1. Resource(req[c]).grp \in Groups
      BY <1>5, <1>a DEF ReadBit, ChecksPassed, Resources
    <3> QED
      BY <1>a, <3>1 DEF TypeOK, Registers, Resource
  <2>2. CASE Allowed(req[c], eprsrv[Register(req[c].grp)])
    <3>1. /\ prev' = [prev EXCEPT ![c] = eprsrv[Register(req[c].grp)]]
          /\ pc' = [pc EXCEPT ![c] = "write"]
          /\ pc[c] = "read"
          /\ UNCHANGED <<eprsrv, reg_acc_lock, req, ans, held, strays>>
      BY <1>5, <2>2 DEF ReadBit
    <3>2. TypeOK'
      BY <1>a, <2>1, <3>1 DEF TypeOK
    <3>3. HolderOnly' /\ ChecksPassed'
      BY <1>a, <3>1 DEF TypeOK, HolderOnly, ChecksPassed, Inside
    <3>4. ReadIsCurrent'
      BY <1>a, <2>2, <3>1 DEF TypeOK, ReadIsCurrent, Allowed
    <3> QED
      BY <3>2, <3>3, <3>4 DEF LockInv
  <2>3. CASE ~Allowed(req[c], eprsrv[Register(req[c].grp)])
    <3>1. PICK code \in {"EBUSY", "EPERM"} : Settle(c, code, {}, "unlock")
      BY <1>5, <2>3 DEF ReadBit
    <3>2. pc[c] = "read" /\ UNCHANGED <<eprsrv, reg_acc_lock, held, strays>>
      BY <1>5 DEF ReadBit
    <3>3. TypeOK'
      BY <1>a, <3>1, <3>2, SettleTypes DEF Codes
    <3>4. HolderOnly' /\ ChecksPassed' /\ ReadIsCurrent'
      BY <1>a, <3>1, <3>2
      DEF Settle, TypeOK, HolderOnly, ChecksPassed, ReadIsCurrent, Inside, Allowed
    <3> QED
      BY <3>3, <3>4 DEF LockInv
  <2> QED
    BY <2>2, <2>3
<1>6. ASSUME NEW c \in Clients, WriteBit(c) PROVE LockInv'
  <2> DEFINE r == Resource(req[c])
             value == IF req[c].cmd = "RESERVE" THEN prev[c] \union {r.idx}
                                                ELSE prev[c] \ {r.idx}
  <2>1. /\ pc[c] = "write" /\ r \in Resources
        /\ prev[c] = eprsrv[Register(r.grp)]
        /\ eprsrv' = [eprsrv EXCEPT ![Register(r.grp)] = value]
        /\ Settle(c, "ok", {}, "unlock")
        /\ reg_acc_lock' = reg_acc_lock
    <3>1. r.grp = req[c].grp /\ r.idx = req[c].idx
      BY DEF Resource
    <3> QED
      BY <1>6, <1>a, <3>1 DEF WriteBit, NewValue, ChecksPassed, ReadIsCurrent
  <2>2. r.grp \in Groups /\ r.idx \in 0 .. 31 /\ r.idx \in 0 .. Size[r.grp] - 1
    <3>1. r.grp \in Groups /\ r.idx \in 0 .. 31 /\ r.idx < Size[r.grp]
      BY <2>1 DEF Resources
    <3>2. Size[r.grp] \in 1 .. 32
      BY <3>1, GroupsAssumption
    <3> QED
      BY <3>1, <3>2
  <2>3. TypeOK'
    <3>1. value \subseteq 0 .. 31 /\ value \subseteq 0 .. Size[r.grp] - 1
          /\ Register(r.grp) \in Registers
      BY <1>a, <2>1, <2>2 DEF TypeOK, Registers
    <3>2. eprsrv' \in [Registers -> SUBSET (0 .. 31)]
      BY <1>a, <2>1, <3>1 DEF TypeOK
    <3>3. ASSUME NEW g \in Groups PROVE eprsrv'[Register(g)] \subseteq 0 .. Size[g] - 1
      <4>1. CASE g = r.grp
        BY <1>a, <2>1, <3>1, <4>1 DEF TypeOK
      <4>2. CASE g # r.grp
        <5>1. Register(g) # Register(r.grp)
          BY <2>2, <4>2, RegisterInjective
        <5> QED
          BY <1>a, <2>1, <3>1, <5>1 DEF TypeOK
      <4> QED
        BY <4>1, <4>2
    <3>4. /\ pc' \in [Clients -> {"idle", "check", "lock", "read", "write", "unlock"}]
          /\ req' \in [Clients -> Requests \union {NoRequest}]
          /\ prev' \in [Clients -> SUBSET (0 .. 31)]
          /\ ans' \in [Clients -> [code : Codes, usage : SUBSET (0 .. 31)]]
          /\ reg_acc_lock' \in Clients \union {Free}
      BY <1>a, <2>1 DEF TypeOK, Settle, Codes
    <3>5. held' \in [Clients -> SUBSET Resources] /\ strays' \subseteq Resources
      <4> HIDE DEF r
      <4> QED
        BY <1>6, <1>a, <2>1 DEF WriteBit, TypeOK, r
    <3> QED
      BY <3>2, <3>3, <3>4, <3>5 DEF TypeOK
  <2>4. \A d \in Clients \ {c} : pc[d] \notin Inside
    BY <1>a, <2>1 DEF HolderOnly, Inside
  <2>5. HolderOnly' /\ ChecksPassed' /\ ReadIsCurrent'
    BY <1>a, <2>1, <2>4
    DEF Settle, TypeOK, HolderOnly, ChecksPassed, ReadIsCurrent, Inside
  <2> QED
    BY <2>3, <2>5 DEF LockInv
<1>7. ASSUME NEW c \in Clients, Unlock(c) PROVE LockInv'
  <2>1. \A d \in Clients \ {c} : pc[d] \notin Inside
    BY <1>7, <1>a DEF Unlock, HolderOnly, Inside
  <2> QED
    BY <1>7, <1>a, <2>1
    DEF Unlock, LockInv, TypeOK, HolderOnly, ChecksPassed, ReadIsCurrent, Inside, Allowed
<1>8. CASE UNCHANGED vars
  BY <1>8, <1>a
  DEF vars, LockInv, TypeOK, HolderOnly, ChecksPassed, ReadIsCurrent, Allowed
<1> QED
  BY <1>1, <1>2, <1>3, <1>3a, <1>4, <1>5, <1>6, <1>7, <1>8 DEF Next, Step

\* Every reachable state is well typed, and no bit beyond a group's size is
\* ever set in its register.
THEOREM ReservationTypes == Spec => []TypeOK
  BY LockInit, LockNext, PTL DEF Spec, LockInv

----------------------------------------------------------------------------
(* Owners.                                                                 *)

OwnerInv == LockInv /\ OneOwner /\ BitsHaveOwners

LEMMA OwnerInit == Init => OwnerInv
<1> SUFFICES ASSUME Init PROVE OwnerInv
  OBVIOUS
<1>1. LockInv
  BY LockInit
<1>2. \A r \in Resources : r \notin Taken
  <2>1. \A r \in Resources : Register(r.grp) \in Registers
    BY DEF Resources, Registers
  <2> QED
    BY <2>1, TakenBit DEF Init
<1> QED
  BY <1>1, <1>2 DEF Init, OwnerInv, OneOwner, BitsHaveOwners

LEMMA OwnerNext == OwnerInv /\ [Next]_vars => OwnerInv'
<1> SUFFICES ASSUME OwnerInv, [Next]_vars PROVE OwnerInv'
  OBVIOUS
<1>a. LockInv /\ LockInv' /\ TypeOK /\ OneOwner /\ BitsHaveOwners
  BY LockNext DEF OwnerInv, LockInv
<1>1. CASE UNCHANGED <<eprsrv, held, strays>>
  BY <1>1, <1>a DEF OwnerInv, OneOwner, BitsHaveOwners, Taken
<1>2. ASSUME NEW c \in Clients, WriteBit(c) PROVE OwnerInv'
  <2> DEFINE r == Resource(req[c])
  <2>1. /\ r \in Resources
        /\ req[c].cmd \in {"RESERVE", "RELINQ"}
        /\ r \in Taken <=> req[c].cmd = "RELINQ"
        /\ \A s \in Resources :
               s \in Taken' <=> IF s = r THEN req[c].cmd = "RESERVE" ELSE s \in Taken
    BY <1>2, <1>a, WriteEffect
  <2>2. /\ held' = [held EXCEPT ![c] = IF req[c].cmd = "RESERVE"
                                        THEN @ \union {r} ELSE @ \ {r}]
        /\ strays' = IF req[c].cmd # "RESERVE" /\ r \notin held[c]
                         THEN strays \union {r} ELSE strays
    BY <1>2 DEF WriteBit
  <2>3. held \in [Clients -> SUBSET Resources]
    BY <1>a DEF TypeOK
  <2> HIDE DEF r
  <2>4. CASE req[c].cmd = "RESERVE"
    <3>1. r \notin strays => \A d \in Clients : r \notin held[d]
      BY <1>a, <2>1, <2>4 DEF BitsHaveOwners
    <3>2. OneOwner'
      BY <1>a, <2>2, <2>3, <2>4, <3>1 DEF OneOwner
    <3>3. BitsHaveOwners'
      BY <1>a, <2>1, <2>2, <2>3, <2>4 DEF BitsHaveOwners
    <3> QED
      BY <1>a, <3>2, <3>3 DEF OwnerInv
  <2>5. CASE req[c].cmd = "RELINQ"
    <3>1. OneOwner'
      BY <1>a, <2>2, <2>3, <2>5 DEF OneOwner
    <3>2. ASSUME NEW s \in Resources, s \notin strays'
          PROVE  s \in Taken' <=> \E d \in Clients : s \in held'[d]
      <4>1. CASE s = r
        <5>1. r \in held[c] /\ r \notin strays
          BY <2>2, <2>5, <3>2, <4>1
        <5>2. \A d \in Clients \ {c} : r \notin held[d]
          BY <1>a, <5>1 DEF OneOwner
        <5> QED
          BY <2>1, <2>2, <2>3, <2>5, <4>1, <5>2
      <4>2. CASE s # r
        <5>1. s \in Taken <=> \E d \in Clients : s \in held[d]
          BY <1>a, <2>2, <3>2 DEF BitsHaveOwners
        <5> QED
          BY <2>1, <2>2, <2>3, <2>5, <4>2, <5>1
      <4> QED
        BY <4>1, <4>2
    <3>3. BitsHaveOwners'
      BY <3>2 DEF BitsHaveOwners
    <3> QED
      BY <1>a, <3>1, <3>3 DEF OwnerInv
  <2> QED
    BY <2>1, <2>4, <2>5
<1>3. ASSUME NEW c \in Clients, ~WriteBit(c), Call(c) \/ Step(c) \/ Lock(c)
      PROVE  UNCHANGED <<eprsrv, held, strays>>
  BY <1>3
  DEF Call, Step, Fault, Reject, RejectCommand, GetUsage, Enter, Lock, ReadBit, Unlock
<1> QED
  BY <1>1, <1>2, <1>3 DEF Next, vars

\* No resource has two owners, whatever the interleaving of the calls, as long
\* as nobody gives back what another tool holds.
THEOREM OneOwnerEach == Spec => []OneOwner
  BY OwnerInit, OwnerNext, PTL DEF Spec, OwnerInv

\* The bits of the registers are the resources the tools hold.
THEOREM BitsShowOwners == Spec => []BitsHaveOwners
  BY OwnerInit, OwnerNext, PTL DEF Spec, OwnerInv

----------------------------------------------------------------------------
(* The refinement: Reservation implements the safety part of Semaphores.   *)

SemaphoreSafety == Semaphore!Init /\ [][Semaphore!Next]_(Semaphore!vars)

LEMMA SemaphoreInit == Init => Semaphore!Init
<1> SUFFICES ASSUME Init PROVE Semaphore!Init
  OBVIOUS
<1>1. Taken = {}
  <2>1. \A g \in Groups : Register(g) \in Registers
    BY DEF Registers
  <2> QED
    BY <2>1 DEF Init, Taken
<1> QED
  BY <1>1 DEF Init, NoAnswer, Semaphore!Init, Semaphore!NoAnswer

\* Every step of Reservation is a step or a stutter of Semaphores: a call that
\* fails its test takes effect when it reads the register, one that passes it
\* when it writes the register back.
LEMMA SemaphoreNext ==
    ASSUME LockInv, LockInv', [Next]_vars
    PROVE  [Semaphore!Next]_(Semaphore!vars)
<1> USE DEF Semaphore!vars
<1>a. TypeOK /\ HolderOnly /\ ChecksPassed /\ ReadIsCurrent
  BY DEF LockInv
<1>b. eprsrv' = eprsrv => Taken' = Taken
  BY DEF Taken
<1>c. Taken \subseteq Resources /\ Taken' \subseteq Resources
  <2>1. TypeOK'
    BY DEF LockInv
  <2>2. \A g \in Groups : eprsrv[Register(g)] \subseteq 0 .. Size[g] - 1
    BY <1>a DEF TypeOK
  <2>3. \A g \in Groups : eprsrv'[Register(g)] \subseteq 0 .. Size[g] - 1
    BY <2>1 DEF TypeOK
  <2>4. Taken \subseteq Resources
    BY <2>2, BitsResources DEF Taken
  <2>5. Taken' \subseteq Resources
    BY <2>3, BitsResources DEF Taken
  <2> QED
    BY <2>4, <2>5
<1>1. ASSUME NEW c \in Clients, Call(c) PROVE [Semaphore!Next]_(Semaphore!vars)
  <2>1. Semaphore!Ask(c)
    BY <1>1, <1>a, <1>b DEF Call, ChecksPassed, NoAnswer, Semaphore!Ask, Semaphore!NoAnswer
  <2> QED
    BY <2>1 DEF Semaphore!Next
<1>2. ASSUME NEW c \in Clients, Fault(c) \/ Reject(c) \/ RejectCommand(c)
      PROVE  [Semaphore!Next]_(Semaphore!vars)
  <2>1. req[c] # NoRequest
    BY <1>2, <1>a DEF Fault, Reject, RejectCommand, ChecksPassed
  <2>2. Semaphore!Refuse(c)
    BY <1>2, <1>b, <2>1
    DEF Fault, Reject, RejectCommand, Settle, Resource,
        Semaphore!Refuse, Semaphore!Reply, Semaphore!Resource
  <2> QED
    BY <2>2 DEF Semaphore!Next, Semaphore!Finish
<1>3. ASSUME NEW c \in Clients, GetUsage(c) PROVE [Semaphore!Next]_(Semaphore!vars)
  <2> DEFINE r == Resource(req[c])
  <2>1. /\ r \in Resources /\ req[c].cmd = "GET_USAGE" /\ req[c] # NoRequest
        /\ Taken' = Taken
    BY <1>3, <1>a, <1>b DEF GetUsage, ChecksPassed
  <2>2. CASE Settle(c, "ok", eprsrv[Register(req[c].grp)], "idle")
    <3>1. {s.idx : s \in {t \in Taken : t.grp = r.grp}} = eprsrv[Register(req[c].grp)]
      <4>1. r.grp \in Groups /\ r.grp = req[c].grp
        BY <2>1 DEF Resources, Resource
      <4>2. ASSUME NEW t \in Taken, t.grp = r.grp
            PROVE  t.idx \in eprsrv[Register(req[c].grp)]
        BY <1>c, <4>1, <4>2, TakenBit
      <4>3. ASSUME NEW i \in eprsrv[Register(req[c].grp)]
            PROVE  [grp |-> r.grp, idx |-> i] \in Taken
        BY <4>1, <4>3 DEF Taken
      <4>4. ASSUME NEW i \in eprsrv[Register(req[c].grp)]
            PROVE  \E s \in {t \in Taken : t.grp = r.grp} : i = s.idx
        <5> DEFINE t == [grp |-> r.grp, idx |-> i]
        <5>1. t \in Taken /\ t.grp = r.grp /\ t.idx = i
          BY <4>3, <4>4
        <5> QED
          BY <5>1
      <4> QED
        BY <4>2, <4>4
    <3>2. Semaphore!Serve(c, r)
      BY <2>1, <2>2, <3>1
      DEF Settle, Resource, Semaphore!Serve, Semaphore!Reply, Semaphore!Resource
    <3> QED
      BY <2>1, <3>2 DEF Semaphore!Next, Semaphore!Finish
  <2>3. CASE Settle(c, "EINVAL", {}, "idle") \/ Settle(c, "EFAULT", {}, "idle")
    <3>1. Semaphore!Refuse(c)
      BY <2>1, <2>3 DEF Settle, Semaphore!Refuse, Semaphore!Reply
    <3> QED
      BY <3>1 DEF Semaphore!Next, Semaphore!Finish
  <2> QED
    BY <1>3, <2>2, <2>3 DEF GetUsage
<1>4. ASSUME NEW c \in Clients, Enter(c) \/ Lock(c) \/ Unlock(c)
      PROVE  [Semaphore!Next]_(Semaphore!vars)
  BY <1>4, <1>b DEF Enter, Lock, Unlock
<1>5. ASSUME NEW c \in Clients, ReadBit(c) PROVE [Semaphore!Next]_(Semaphore!vars)
  <2> DEFINE r == Resource(req[c])
  <2>1. /\ r \in Resources /\ r.grp = req[c].grp /\ r.idx = req[c].idx
        /\ req[c].cmd \in {"RESERVE", "RELINQ"} /\ req[c] # NoRequest
        /\ r = Semaphore!Resource(req[c])
        /\ Taken' = Taken
    BY <1>5, <1>a, <1>b DEF ReadBit, ChecksPassed, Resource, Semaphore!Resource
  <2>2. CASE Allowed(req[c], eprsrv[Register(req[c].grp)])
    BY <1>5, <2>1, <2>2 DEF ReadBit
  <2>3. CASE ~Allowed(req[c], eprsrv[Register(req[c].grp)])
    <3>1. r \in Taken <=> req[c].cmd = "RESERVE"
      BY <2>1, <2>3, TakenBit DEF Allowed
    <3>2. Settle(c, IF req[c].cmd = "RESERVE" THEN "EBUSY" ELSE "EPERM", {}, "unlock")
      BY <1>5, <2>3 DEF ReadBit
    <3> HIDE DEF r
    <3>3. Semaphore!Serve(c, r)
      <4>1. CASE req[c].cmd = "RESERVE"
        BY <2>1, <3>1, <3>2, <4>1 DEF Settle, Semaphore!Serve, Semaphore!Reply
      <4>2. CASE req[c].cmd = "RELINQ"
        BY <2>1, <3>1, <3>2, <4>2 DEF Settle, Semaphore!Serve, Semaphore!Reply
      <4> QED
        BY <2>1, <4>1, <4>2
    <3> QED
      BY <2>1, <3>3 DEF Semaphore!Next, Semaphore!Finish
  <2> QED
    BY <2>2, <2>3
<1>6. ASSUME NEW c \in Clients, WriteBit(c) PROVE [Semaphore!Next]_(Semaphore!vars)
  <2> DEFINE r == Resource(req[c])
  <2>1. /\ r \in Resources
        /\ req[c].cmd \in {"RESERVE", "RELINQ"}
        /\ r \in Taken <=> req[c].cmd = "RELINQ"
        /\ \A s \in Resources :
               s \in Taken' <=> IF s = r THEN req[c].cmd = "RESERVE" ELSE s \in Taken
    BY <1>6, WriteEffect
  <2>2. r = Semaphore!Resource(req[c]) /\ req[c] # NoRequest
    BY <1>6, <1>a DEF WriteBit, ChecksPassed, Resource, Semaphore!Resource
  <2>3. Settle(c, "ok", {}, "unlock")
    BY <1>6 DEF WriteBit
  <2> HIDE DEF r
  <2>4. Semaphore!Serve(c, r)
    <3>1. CASE req[c].cmd = "RESERVE"
      <4>1. Taken' = Taken \union {r}
        BY <1>c, <2>1, <3>1
      <4> QED
        BY <2>1, <2>2, <2>3, <3>1, <4>1 DEF Settle, Semaphore!Serve, Semaphore!Reply
    <3>2. CASE req[c].cmd = "RELINQ"
      <4>1. Taken' = Taken \ {r}
        BY <1>c, <2>1, <3>2
      <4> QED
        BY <2>1, <2>2, <2>3, <3>2, <4>1 DEF Settle, Semaphore!Serve, Semaphore!Reply
    <3> QED
      BY <2>1, <3>1, <3>2
  <2> QED
    BY <2>1, <2>4 DEF Semaphore!Next, Semaphore!Finish
<1>7. CASE UNCHANGED vars
  BY <1>7, <1>b DEF vars
<1> QED
  BY <1>1, <1>2, <1>3, <1>4, <1>5, <1>6, <1>7 DEF Next, Step

\* The reservation ioctls act as semaphores.
THEOREM ImplementsSemaphores == Spec => SemaphoreSafety
<1>1. LockInv /\ [Next]_vars => LockInv'
  BY LockNext
<1>2. LockInv /\ LockInv' /\ [Next]_vars => [Semaphore!Next]_(Semaphore!vars)
  BY SemaphoreNext
<1> QED
  BY <1>1, <1>2, LockInit, SemaphoreInit, PTL DEF Spec, SemaphoreSafety

=============================================================================
