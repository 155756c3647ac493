------------------------------ MODULE IrqLine ------------------------------
(***************************************************************************)
(* What ls-dbg promises of the overflow interrupt (vir_cntrs.c:495, 527):  *)
(* the EPU is told to raise it only once a handler is registered, and is   *)
(* told to stop before the handler is freed.                               *)
(*                                                                         *)
(* Lifecycle implements this module.                                       *)
(***************************************************************************)

VARIABLE line      \* "free": no handler, "quiet": handled but not raised,
                   \* "raised": handled and raised by the EPU

Trans(from, to) == line = from /\ line' = to

Init == line = "free"

Register == Trans("free", "quiet")
TurnOn   == Trans("quiet", "raised")
TurnOff  == Trans("raised", "quiet")
Unhook   == Trans("quiet", "free")

Next == Register \/ TurnOn \/ TurnOff \/ Unhook

Spec == Init /\ [][Next]_line
============================================================================
