----------------------------- MODULE Reservation -----------------------------
(***************************************************************************)
(* The resource reservations of ls-dbg (resource_reserve in                *)
(* src/ls-dbg/module/reg_access.c).  A reservation is a bit of one of the  *)
(* EPU's general-purpose eprsrv registers; tools set, clear and read the   *)
(* bits through ioctls.  The driver reads the register, computes and       *)
(* writes it back under reg_acc_lock.                                      *)
(*                                                                         *)
(* A register is the set of its bits that are 1.  The EPU is mapped, and   *)
(* no tool goes round the ioctls with a plain write of the register.       *)
(***************************************************************************)
EXTENDS Naturals

CONSTANTS
    Clients,           \* the tools that have /dev/ls-dbg open
    Free,              \* the value of reg_acc_lock when nobody holds it
    Groups,            \* RESOURCE_GROUP_ID
    Size,              \* how many resources each group has
    Offset,            \* LS_DBG_EPU_*_RES_OFFSET_IND of each group
    Requests,          \* what the tools ask for: records [cmd, grp, idx]
    NoRequest          \* the request of a tool that is not in a call

\* EPU_V2_NO_RESRV_REGS - 1 - offset: the register that holds a group's bits
Register(g) == 59 - Offset[g]
Registers   == {Register(g) : g \in Groups}

Resource(r) == [grp |-> r.grp, idx |-> r.idx]

\* Mutant: the test of the index is off by one
ResourcesPastEnd ==
    {r \in [grp : Groups, idx : 0 .. 31] : r.idx <= Size[r.grp]}

\* The switch over the groups lets a known group and an index below its size pass
Resources == {r \in [grp : Groups, idx : 0 .. 31] : r.idx < Size[r.grp]}

ASSUME ClientsAssumption == Free \notin Clients
ASSUME GroupsAssumption ==
    /\ Size \in [Groups -> 1 .. 32]
    /\ Offset \in [Groups -> 0 .. 59]
    /\ \A g, h \in Groups : Offset[g] = Offset[h] => g = h
ASSUME RequestsAssumption ==
    /\ \A r \in Requests : r.cmd \in {"RESERVE", "RELINQ", "GET_USAGE", "other"}
                           /\ r.idx \in Nat
    /\ NoRequest \notin Requests

VARIABLES
    eprsrv,            \* hardware: the registers that hold the bits
    reg_acc_lock,      \* the spin lock: Free or its holder
    pc,                \* where each call is
    req,               \* its reserv structure and cmd
    prev,              \* prev_val: what it has read of the register
    ans,               \* its outcome: [code, usage]
    held,              \* ghost: what each tool was granted and has not given back
    strays             \* ghost: resources relinquished by a tool that held none

vars == <<eprsrv, reg_acc_lock, pc, req, prev, ans, held, strays>>

NoAnswer == [code |-> "none", usage |-> {}]

Init ==
    /\ eprsrv = [n \in Registers |-> {}]
    /\ reg_acc_lock = Free
    /\ pc = [c \in Clients |-> "idle"]
    /\ req = [c \in Clients |-> NoRequest]
    /\ prev = [c \in Clients |-> {}]
    /\ ans = [c \in Clients |-> NoAnswer]
    /\ held = [c \in Clients |-> {}]
    /\ strays = {}

----------------------------------------------------------------------------

\* Mutant: RESERVE waits, with the lock, for a bit that is set
SettleWaiting(c, code, usage, l) ==
    IF code = "EBUSY" THEN UNCHANGED <<ans, req, prev, pc>>
    ELSE /\ ans' = [ans EXCEPT ![c] = [code |-> code, usage |-> usage]]
         /\ req' = [req EXCEPT ![c] = NoRequest]
         /\ prev' = [prev EXCEPT ![c] = {}]
         /\ pc' = [pc EXCEPT ![c] = l]

\* The outcome of c's call is settled; it goes on at label l
Settle(c, code, usage, l) ==
    /\ ans' = [ans EXCEPT ![c] = [code |-> code, usage |-> usage]]
    /\ req' = [req EXCEPT ![c] = NoRequest]
    /\ prev' = [prev EXCEPT ![c] = {}]
    /\ pc' = [pc EXCEPT ![c] = l]

\* The ioctl is entered
Call(c) ==
    /\ pc[c] = "idle"
    /\ \E r \in Requests : req' = [req EXCEPT ![c] = r]
    /\ ans' = [ans EXCEPT ![c] = NoAnswer]
    /\ pc' = [pc EXCEPT ![c] = "check"]
    /\ UNCHANGED <<eprsrv, reg_acc_lock, prev, held, strays>>

\* copy_from_user of the argument fails: no lock is asked for
Fault(c) ==
    /\ pc[c] = "check"
    /\ Settle(c, "EFAULT", {}, "idle")
    /\ UNCHANGED <<eprsrv, reg_acc_lock, held, strays>>

\* The switch over the groups: an unknown group or an index beyond the group's
\* size is -EINVAL, whatever the command is
Reject(c) ==
    /\ pc[c] = "check"
    /\ Resource(req[c]) \notin Resources
    /\ Settle(c, "EINVAL", {}, "idle")
    /\ UNCHANGED <<eprsrv, reg_acc_lock, held, strays>>

\* A command that is none of the three is -ENOTTY
RejectCommand(c) ==
    /\ pc[c] = "check"
    /\ Resource(req[c]) \in Resources
    /\ req[c].cmd = "other"
    /\ Settle(c, "ENOTTY", {}, "idle")
    /\ UNCHANGED <<eprsrv, reg_acc_lock, held, strays>>

\* GET_USAGE reads the register once, without the lock.  It fails on a null
\* buffer (EINVAL) or on one that put_user cannot write (EFAULT).
GetUsage(c) ==
    /\ pc[c] = "check"
    /\ Resource(req[c]) \in Resources
    /\ req[c].cmd = "GET_USAGE"
    /\ \/ Settle(c, "ok", eprsrv[Register(req[c].grp)], "idle")
       \/ Settle(c, "EINVAL", {}, "idle")
       \/ Settle(c, "EFAULT", {}, "idle")
    /\ UNCHANGED <<eprsrv, reg_acc_lock, held, strays>>

\* RESERVE and RELINQ have passed the switch and go for the lock; from here on
\* there is no way back without it
Enter(c) ==
    /\ pc[c] = "check"
    /\ Resource(req[c]) \in Resources
    /\ req[c].cmd \in {"RESERVE", "RELINQ"}
    /\ pc' = [pc EXCEPT ![c] = "lock"]
    /\ UNCHANGED <<eprsrv, reg_acc_lock, req, prev, ans, held, strays>>

\* Mutant: the lock does not exclude
LockIgnored == TRUE

LockFree == reg_acc_lock = Free

Lock(c) ==
    /\ pc[c] = "lock"
    /\ LockFree
    /\ reg_acc_lock' = c
    /\ pc' = [pc EXCEPT ![c] = "read"]
    /\ UNCHANGED <<eprsrv, req, prev, ans, held, strays>>

\* Mutant: RESERVE does not look at the bit
AllowedAnyway(r, value) == r.cmd = "RESERVE" \/ r.idx \in value

\* Whether the bit that was read lets the request through
Allowed(r, value) ==
    IF r.cmd = "RESERVE" THEN r.idx \notin value ELSE r.idx \in value

\* ioread32 and the test of the bit: -EBUSY for a bit that is set already,
\* -EPERM for one that is clear already
ReadBit(c) ==
    LET value == eprsrv[Register(req[c].grp)]
    IN  /\ pc[c] = "read"
        /\ IF Allowed(req[c], value)
           THEN /\ prev' = [prev EXCEPT ![c] = value]
                /\ pc' = [pc EXCEPT ![c] = "write"]
                /\ UNCHANGED <<req, ans>>
           ELSE Settle(c, IF req[c].cmd = "RESERVE" THEN "EBUSY" ELSE "EPERM", {},
                       "unlock")
        /\ UNCHANGED <<eprsrv, reg_acc_lock, held, strays>>

\* The register as it was read, with the one bit changed
NewValue(c) ==
    IF req[c].cmd = "RESERVE" THEN prev[c] \union {req[c].idx}
                              ELSE prev[c] \ {req[c].idx}

\* iowrite32 of the whole register
WriteBit(c) ==
    LET r    == Resource(req[c])
        sets == req[c].cmd = "RESERVE"
    IN  /\ pc[c] = "write"
        /\ eprsrv' = [eprsrv EXCEPT ![Register(r.grp)] = NewValue(c)]
        /\ Settle(c, "ok", {}, "unlock")
        /\ held' = [held EXCEPT ![c] = IF sets THEN @ \union {r} ELSE @ \ {r}]
        /\ strays' = IF ~sets /\ r \notin held[c] THEN strays \union {r} ELSE strays
        /\ UNCHANGED reg_acc_lock

Unlock(c) ==
    /\ pc[c] = "unlock"
    /\ reg_acc_lock' = Free
    /\ pc' = [pc EXCEPT ![c] = "idle"]
    /\ UNCHANGED <<eprsrv, req, prev, ans, held, strays>>

Step(c) ==
    \/ Fault(c) \/ Reject(c) \/ RejectCommand(c) \/ GetUsage(c) \/ Enter(c)
    \/ ReadBit(c) \/ WriteBit(c) \/ Unlock(c)

Next == \E c \in Clients : Call(c) \/ Step(c) \/ Lock(c)

\* A call that has been entered runs on, except while it spins for the lock; the
\* ticket lock passes nobody over
Fairness == \A c \in Clients : WF_vars(Step(c)) /\ SF_vars(Lock(c))

Spec     == Init /\ [][Next]_vars
FairSpec == Spec /\ Fairness

----------------------------------------------------------------------------
(* Properties.                                                             *)

\* The resources whose bit is set
Taken ==
    UNION {{[grp |-> g, idx |-> i] : i \in eprsrv[Register(g)]} : g \in Groups}

Semaphore == INSTANCE Semaphores WITH taken <- Taken

Codes == {"none", "ok", "EBUSY", "EPERM", "EINVAL", "EFAULT", "ENOTTY"}

\* Every variable stays in its type; in a register, only the bits that stand
\* for a resource of its group are ever set.
TypeOK ==
    /\ eprsrv \in [Registers -> SUBSET (0 .. 31)]
    /\ \A g \in Groups : eprsrv[Register(g)] \subseteq 0 .. Size[g] - 1
    /\ reg_acc_lock \in Clients \union {Free}
    /\ pc \in [Clients -> {"idle", "check", "lock", "read", "write", "unlock"}]
    /\ req \in [Clients -> Requests \union {NoRequest}]
    /\ prev \in [Clients -> SUBSET (0 .. 31)]
    /\ ans \in [Clients -> [code : Codes, usage : SUBSET (0 .. 31)]]
    /\ held \in [Clients -> SUBSET Resources]
    /\ strays \subseteq Resources

\* The read-modify-write of a register is atomic with respect to the other
\* calls (reg_access.c:285-295, 307-319) and every call returns: the ioctls are
\* the semaphores VCOUNTER.txt describes.
ActsAsSemaphores == Semaphore!Spec

\* As long as nobody gives back what another tool holds, no resource has two
\* owners, although the driver keeps no owner and only a bit (lines 288-317).
OneOwner ==
    \A c, d \in Clients : c # d => held[c] \intersect held[d] \subseteq strays

\* A tool that holds a resource finds its bit set, and a set bit has an owner:
\* no write of a neighbouring bit undoes a reservation or resurrects one.
BitsHaveOwners ==
    \A r \in Resources \ strays : r \in Taken <=> \E c \in Clients : r \in held[c]
============================================================================
