-------------------------- MODULE OverflowCounter --------------------------
(***************************************************************************)
(* What a virtual counter of ls-dbg promises (VCOUNTER.txt, vir_cntrs.h    *)
(* 43-47): beside every hardware counter there is a software counter that  *)
(* holds its overflows.  Overflows occur; each is counted once, some time  *)
(* later; a user may write the software counter, which then counts on from *)
(* the value written.                                                      *)
(*                                                                         *)
(* VirCntrs implements this module.                                        *)
(***************************************************************************)
EXTENDS Naturals

CONSTANT Counters

VARIABLES
    due,           \* what the counter would show if every overflow were counted
    count,         \* what it shows
    exact          \* whether due is defined: see Lose

vars == <<due, count, exact>>

Init ==
    /\ due = [c \in Counters |-> 0]
    /\ count = [c \in Counters |-> 0]
    /\ exact = [c \in Counters |-> TRUE]

Overflow(c) ==
    /\ due' = [due EXCEPT ![c] = @ + 1]
    /\ UNCHANGED <<count, exact>>

Count(c) ==
    /\ exact[c]
    /\ count[c] < due[c]
    /\ count' = [count EXCEPT ![c] = @ + 1]
    /\ UNCHANGED <<due, exact>>

\* A write of the counter; the overflows not counted yet stay due
Write(c) ==
    /\ exact' = [exact EXCEPT ![c] = TRUE]
    /\ count'[c] \in Nat
    /\ due'[c] \in {count'[c], count'[c] + 1, count'[c] + 2}
    /\ \A d \in Counters \ {c} : due'[d] = due[d] /\ count'[d] = count[d]

\* The counter runs over, or a write hits an increment: what it shows until
\* the next write is anyone's guess
Lose(c) ==
    /\ exact' = [exact EXCEPT ![c] = FALSE]
    /\ count'[c] \in Nat /\ due'[c] \in Nat
    /\ \A d \in Counters \ {c} : due'[d] = due[d] /\ count'[d] = count[d]

Next == \E c \in Counters : Overflow(c) \/ Count(c) \/ Write(c) \/ Lose(c)

Spec ==
    /\ Init
    /\ [][Next]_vars
    /\ \A c \in Counters : WF_vars(Count(c))
============================================================================
