---------------------------- MODULE MCVirCntrs ----------------------------
(* Values of the constants of VirCntrs for TLC.                            *)
EXTENDS VirCntrs

\* Event 1 is routed to group 0, event 2 to group 1
MCCtcc == [e \in Events |-> e - 1]

\* Group 0 holds every counter, group 1 the first one, the others are empty
MCEpctrgcr ==
    [g \in 0 .. 3 |-> IF g = 0 THEN Counters ELSE IF g = 1 THEN {0} ELSE {}]

\* The words after EPCTRISR are reserved or EPCTRCSR, which flags the counters
\* captured: nothing, or every counter
MCOtherWords == {{}, Counters}

\* The words after EPCTRISR read as zero, so that only EPCTRISR itself matters
MCNoWords == {{}}

=============================================================================
