----------------------------- MODULE Semaphores -----------------------------
(***************************************************************************)
(* What the reservation ioctls of ls-dbg promise their callers             *)
(* (VCOUNTER.txt 56-61, "reservation registers that act as semaphores"):   *)
(* every call is answered, as if it took effect in one step between being  *)
(* made and being answered.                                                *)
(*                                                                         *)
(* Reservation implements this module.                                     *)
(***************************************************************************)
EXTENDS Naturals

CONSTANTS
    Clients,
    Resources,         \* records [grp, idx]
    Requests,          \* records [cmd, grp, idx]
    NoRequest          \* the request of a client that is not in a call

VARIABLES
    taken,             \* the resources in use
    req,               \* the request of each client
    ans                \* the last answer of each client: [code, usage]

vars == <<taken, req, ans>>

Resource(r) == [grp |-> r.grp, idx |-> r.idx]

NoAnswer == [code |-> "none", usage |-> {}]

Init ==
    /\ taken = {}
    /\ req = [c \in Clients |-> NoRequest]
    /\ ans = [c \in Clients |-> NoAnswer]

Ask(c) ==
    /\ req[c] = NoRequest
    /\ \E r \in Requests : req' = [req EXCEPT ![c] = r]
    /\ ans' = [ans EXCEPT ![c] = NoAnswer]
    /\ UNCHANGED taken

Reply(c, code, usage) ==
    /\ req' = [req EXCEPT ![c] = NoRequest]
    /\ ans' = [ans EXCEPT ![c] = [code |-> code, usage |-> usage]]

\* A call with a wrong argument changes nothing.  Whether the buffers of a
\* client can be accessed is not known here.
Refuse(c) ==
    /\ req[c] # NoRequest
    /\ \/ Reply(c, "EFAULT", {})
       \/ /\ Resource(req[c]) \notin Resources \/ req[c].cmd = "GET_USAGE"
          /\ Reply(c, "EINVAL", {})
       \/ /\ Resource(req[c]) \in Resources /\ req[c].cmd = "other"
          /\ Reply(c, "ENOTTY", {})
    /\ UNCHANGED taken

Serve(c, r) ==
    /\ req[c] # NoRequest
    /\ r = Resource(req[c])
    /\ r \in Resources
    /\ \/ /\ req[c].cmd = "RESERVE"
          /\ Reply(c, IF r \in taken THEN "EBUSY" ELSE "ok", {})
          /\ taken' = taken \union {r}
       \/ /\ req[c].cmd = "RELINQ"
          /\ Reply(c, IF r \in taken THEN "ok" ELSE "EPERM", {})
          /\ taken' = taken \ {r}
       \/ /\ req[c].cmd = "GET_USAGE"
          /\ Reply(c, "ok", {s.idx : s \in {t \in taken : t.grp = r.grp}})
          /\ UNCHANGED taken

Finish(c) == Refuse(c) \/ \E r \in Resources : Serve(c, r)

Next == \E c \in Clients : Ask(c) \/ Finish(c)

Spec ==
    /\ Init
    /\ [][Next]_vars
    /\ \A c \in Clients : WF_vars(Finish(c))
============================================================================
