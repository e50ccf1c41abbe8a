------------------------- MODULE MCSessionAdmission -------------------------
(* Values for checking SessionAdmission with TLC. *)
EXTENDS SessionAdmission, TLC

CONSTANTS p1, p2, v1, i1, i2
(* The scan with reference 1 at p1 bears the reference of the checkout there. *)
Sent(kind, point, ref, ip) == [kind |-> kind, point |-> point, ref |-> ref, ip |-> ip]
MCRequest == {Sent("scan", p1, 1, i1), Sent("scan", p1, 2, i2), Sent("scan", p2, 1, i1),
              Sent("checkout", p1, 1, i1), Sent("claim", p1, 1, i1)}
MCVendorOf == [p \in {p1, p2} |-> v1]
Callers == Permutations(Caller)
==============================================================================
