--------------------------- MODULE MCReservation ---------------------------
(* Values of the constants of Reservation for TLC: two of the groups with  *)
(* their sizes and registers, and requests on both sides of a group's end. *)
EXTENDS Reservation

MCGroups == {"COUNTER", "GDPESCR"}
MCSize   == [g \in MCGroups |-> IF g = "COUNTER" THEN 32 ELSE 16]
MCOffset == [g \in MCGroups |-> IF g = "COUNTER" THEN 0 ELSE 32]

\* Two neighbours in one register, which tools take, give back and look at; the
\* last bit of another register and the index beyond it; a group and a command
\* that do not exist
MCRequests ==
    [cmd : {"RESERVE", "RELINQ"}, grp : {"COUNTER"}, idx : {30, 31}]
      \union [cmd : {"GET_USAGE", "other"}, grp : {"COUNTER"}, idx : {0}]
      \union [cmd : {"RESERVE"}, grp : {"GDPESCR"}, idx : {15, 16}]
      \union [cmd : {"RELINQ"}, grp : {"unknown"}, idx : {0}]

=============================================================================
