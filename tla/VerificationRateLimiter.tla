----------------------- MODULE VerificationRateLimiter -----------------------
(* verificationRateLimiter.ts: sliding windows over the attempts of one     *)
(* caller address and over those at one service point.  The attempts are    *)
(* kept in memory only.  An attempt is its time and its number among the    *)
(* attempts of that time: the code's lists are never looked at in order.    *)
EXTENDS Integers, FiniteSets

CONSTANTS
  Ip, Point,
  PerIp, PerServicePoint,  \* how many attempts each window admits
  Window                   \* windowMs, in clock units

ASSUME LimitsAssumption == PerIp \in Nat /\ PerServicePoint \in Nat /\ Window \in Nat \ {0}

NoAttempts == [ip |-> [i \in Ip |-> {}], point |-> [p \in Point |-> {}]]

(* Mutant: the window forgets an attempt one unit early.                    *)
RecentShort(attempts, now) == {a \in attempts : a.time > now - Window + 1}

(* The attempts after the cutoff.                                           *)
Recent(attempts, now) == {a \in attempts : a.time > now - Window}

Admits(attempts, limit, now) == Cardinality(Recent(attempts, now)) < limit

(* record(): a refusal leaves the map as it was.                            *)
Recorded(attempts, limit, now) ==
  LET attempt == [time |-> now, nth |-> Cardinality({a \in attempts : a.time = now})]
  IN IF Admits(attempts, limit, now) THEN Recent(attempts, now) \cup {attempt} ELSE attempts

(* check(): the address first; what it recorded stays when the service      *)
(* point refuses.                                                           *)
Check(memory, ip, point, now) ==
  LET ipAdmits == Admits(memory.ip[ip], PerIp, now)
      pointAdmits == Admits(memory.point[point], PerServicePoint, now)
  IN [admitted |-> ipAdmits /\ pointAdmits,
      memory |-> [ip |-> [memory.ip EXCEPT ![ip] = Recorded(@, PerIp, now)],
                  point |-> IF ipAdmits
                              THEN [memory.point EXCEPT ![point] = Recorded(@, PerServicePoint, now)]
                              ELSE memory.point]]
==============================================================================
