------------------------------ MODULE MCRegMap ------------------------------
(* Values of the constants of RegMap for TLC.                              *)
EXTENDS RegMap

\* The shape the directories of dcsr_*.c and the ids are made for: one node of
\* each kind, two ranges for the kinds with two ids
MCFullTree ==
    [etf |-> <<<<4096, 4096>>>>, etr |-> <<<<4096>>>>, etm |-> <<<<4096, 12288>>>>,
     cstf |-> <<<<4096, 4096>>>>, epu |-> <<<<4096>>>>, gdi |-> <<<<4096>>>>,
     core |-> <<<<32768>>>>]

\* Without EPU and trace buffers
MCPartTree == [MCFullTree EXCEPT !.epu = <<>>, !.etf = <<>>]

\* Two nodes of one range
MCPairTree == [MCFullTree EXCEPT !.etm = <<<<4096>>, <<8192>>>>]

MCTrees == {MCFullTree, MCPartTree, MCPairTree}

\* The three fit the ids, the EPU and the files, which the theorems about the
\* table, the reservations and the files ask for
ASSUME TreesFit == \A t \in MCTrees : FitsIds(t) /\ FitsEpu(t) /\ FitsFiles(t)
=============================================================================
