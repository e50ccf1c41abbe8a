-------------------------- MODULE MCRevocationIndex --------------------------
(* Values for checking RevocationIndex with TLC. *)
EXTENDS RevocationIndex

MCRegistry == {"full", "large"}
MCMaximum == [r \in MCRegistry |-> IF r = "full" THEN 3 ELSE 6]
MCCounters == {c \in [MCRegistry -> 1 .. 7] : \A r \in MCRegistry : c[r] <= MCMaximum[r] + 1}
MCReservation == [registry : MCRegistry, count : {1, 2}]
MCAnswer == {{}} \cup {n .. m : n \in 1 .. 6, m \in 1 .. 6}
==============================================================================
