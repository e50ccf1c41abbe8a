--------------------------- MODULE MCTrustPolicy ---------------------------
(* Values for checking TrustPolicy with TLC. *)
EXTENDS TrustPolicy, TLC

CONSTANTS d1, d2, n1, p1, p2
Sent(kind, point_, definition, makeDefault) ==
  [kind |-> kind, point |-> point_, definition |-> definition, makeDefault |-> makeDefault]
Registrations == {Sent("register", p1, d1, FALSE), Sent("register", p1, d2, TRUE)}
MCRequest == Registrations \cup
  {Sent("did", p1, None, FALSE), Sent("setup", p1, d2, FALSE), Sent("register", p1, n1, FALSE),
   Sent("create", p1, None, FALSE), Sent("update", p1, d2, FALSE), Sent("use", p2, None, FALSE)}
MCConfigured == <<d1, d2>>
Callers == Permutations(Caller)
==============================================================================
