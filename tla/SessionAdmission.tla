--------------------------- MODULE SessionAdmission ---------------------------
(***************************************************************************)
(* Who may start a verification: static scans, checkout sessions and their *)
(* claims, while service points are switched on and off, vendors are       *)
(* suspended and reinstated, and sessions end (startSession,               *)
(* createCheckoutSession and the beginning of claimCheckoutSession in      *)
(* verificationService.ts).  What becomes of an admitted session is        *)
(* VerificationSession's subject; here it ends at some time.               *)
(*                                                                         *)
(* A step is what happens between two awaits.  The wallet routes and the   *)
(* verifier routes each have a service of their own, so scans run one      *)
(* after the other and so do checkouts, but each beside the other and      *)
(* beside claims.                                                          *)
(***************************************************************************)
EXTENDS VerificationRateLimiter, Sequences

CONSTANTS
  Caller,       \* requests that may be in progress at once
  Request,      \* the requests portal and wallets may send: [kind, point, ref, ip]
  Vendor, VendorOf,
  SessionTtl,   \* VERIFICATION_SESSION_TTL_MINUTES, in clock units
  MaxPending,   \* maxPendingPerServicePoint
  MaxRequests,  \* bound: how many requests are sent
  MaxTime,      \* bound: the clock stops here
  MaxSwitches,  \* bound: how often points are switched and suspensions change
  MaxTroubles   \* bound: how many calls fail and how often the process stops

ASSUME AdmissionAssumption ==
  /\ VendorOf \in [Point -> Vendor]
  /\ \A r \in Request : r.kind \in {"scan", "checkout", "claim"} /\ r.point \in Point /\ r.ip \in Ip
  /\ SessionTtl \in Nat \ {0} /\ MaxPending \in Nat
  /\ MaxRequests \in Nat /\ MaxTime \in Nat /\ MaxSwitches \in Nat /\ MaxTroubles \in Nat

VARIABLES
  clock,
  active,     \* the service points that are switched on
  suspended,  \* the suspended vendors
  sessions,   \* the saved sessions, oldest first: [kind, point, ref, expiresAt, pending, claimed]
  attempts,   \* the limiter's memory
  lock,       \* creationQueue of each service, by the kind of request it creates for
  job,        \* the request each caller is waiting for
  admitted,   \* history: the attempts the limiter admitted since the start
  requests, switches, troubles

vars == <<clock, active, suspended, sessions, attempts, lock, job, admitted, requests, switches, troubles>>

Idle == [at |-> "idle"]

Init ==
  /\ clock = 0 /\ active = Point /\ suspended = {} /\ sessions = <<>>
  /\ attempts = NoAttempts /\ admitted = <<>>
  /\ lock = [kind \in {"scan", "checkout"} |-> <<>>]
  /\ job = [c \in Caller |-> Idle]
  /\ requests = 0 /\ switches = 0 /\ troubles = 0

(* History: what a request in progress has seen of its service point: at    *)
(* some moment switched on, at some moment not suspended.                   *)
SeenNow(p, on, barred) ==
  {s \in {"active", "not suspended"} :
     IF s = "active" THEN p \in on ELSE VendorOf[p] \notin barred}

Ask(c, r) ==
  /\ job[c] = Idle /\ requests < MaxRequests
  /\ job' = [job EXCEPT ![c] = [at |-> "asked", r |-> r, active |-> FALSE, createdAt |-> 0,
                                seen |-> SeenNow(r.point, active, suspended)]]
  /\ lock' = IF r.kind = "claim" THEN lock ELSE [lock EXCEPT ![r.kind] = Append(@, c)]
  /\ requests' = requests + 1
  /\ UNCHANGED <<clock, active, suspended, sessions, attempts, admitted, switches, troubles>>

(* Mutant: the creation lock is gone.                                       *)
AnyTurn(c) == TRUE

(* withCreationLock.                                                        *)
MyTurn(c) == job[c].r.kind # "claim" => Head(lock[job[c].r.kind]) = c

Goto(c, at) == job' = [job EXCEPT ![c].at = at]

(* An answer or an error; the lock goes to the next request.                *)
End(c) ==
  /\ job' = [job EXCEPT ![c] = Idle]
  /\ lock' = [kind \in DOMAIN lock |->
                IF lock[kind] # <<>> /\ Head(lock[kind]) = c THEN Tail(lock[kind]) ELSE lock[kind]]

Expired(s) == clock >= s.expiresAt

-----------------------------------------------------------------------------

(* claimCheckoutSession reads the session first; its reference is its       *)
(* checkout's.                                                              *)
Named(r) == {n \in DOMAIN sessions : sessions[n].kind = "checkout" /\ sessions[n].point = r.point
                                       /\ sessions[n].ref = r.ref}

FindSession(c) ==
  /\ job[c].at = "asked" /\ job[c].r.kind = "claim"
  /\ \E n \in Named(job[c].r) : ~Expired(sessions[n])
  /\ Goto(c, "session found")
  /\ UNCHANGED <<clock, active, suspended, sessions, attempts, lock, admitted, requests, switches, troubles>>

(* The service point is read before the suspension is, and its switch is    *)
(* looked at after both.                                                    *)
FindPoint(c) ==
  /\ job[c].at = (IF job[c].r.kind = "claim" THEN "session found" ELSE "asked") /\ MyTurn(c)
  /\ job' = [job EXCEPT ![c].at = "point found", ![c].active = job[c].r.point \in active]
  /\ UNCHANGED <<clock, active, suspended, sessions, attempts, lock, admitted, requests, switches, troubles>>

(* Mutant: the switch of the service point is forgotten.                    *)
SuspendedOnly(j) == VendorOf[j.r.point] \in suspended

(* assertVendorVerificationAllowed, and the point's switch.                 *)
Barred(j) == VendorOf[j.r.point] \in suspended \/ ~j.active

Allow(c) ==
  /\ job[c].at = "point found" /\ ~Barred(job[c])
  /\ Goto(c, "allowed")
  /\ UNCHANGED <<clock, active, suspended, sessions, attempts, lock, admitted, requests, switches, troubles>>

(* Sessions at the service point of a request and with its reference: the   *)
(* clientRequestId, which a checkout's session has too ("checkout:" and its *)
(* id).  findSessionByCheckout finds checkouts only, by their checkoutId;   *)
(* findSessionByClientRequest finds a checkout's session as well.           *)
Answers(n, r) ==
  /\ sessions[n].point = r.point /\ sessions[n].ref = r.ref
  /\ r.kind = "checkout" => sessions[n].kind = "checkout"

(* Mutant: a reference whose session has ended may be used again.           *)
ExistingUnexpired(r) == {n \in DOMAIN sessions : Answers(n, r) /\ ~Expired(sessions[n])}

Existing(r) == {n \in DOMAIN sessions : Answers(n, r)}

(* The store answers with the oldest.                                       *)
Oldest(r) == sessions[CHOOSE n \in Existing(r) : \A m \in Existing(r) : n <= m]

(* A retry is answered with the session it started, and a scan that bears a *)
(* checkout's reference with the checkout's, or, while that is unclaimed,   *)
(* with an error (startResponse).                                           *)
Replay(c) ==
  /\ job[c].at = "allowed" /\ job[c].r.kind # "claim"
  /\ Existing(job[c].r) # {} /\ (job[c].r.kind = "scan" => ~Expired(Oldest(job[c].r)))
  /\ End(c)
  /\ UNCHANGED <<clock, active, suspended, sessions, attempts, admitted, requests, switches, troubles>>

(* pendingSessions counts checkouts as well.                                *)
PendingAt(p) ==
  {n \in DOMAIN sessions : sessions[n].point = p /\ sessions[n].pending /\ ~Expired(sessions[n])}

Busy(p) == Cardinality(PendingAt(p)) >= MaxPending

(* A new scan passes the pending bound and the limiter, or is refused, in   *)
(* which case the limiter may still have recorded it.                       *)
AdmitScan(c) ==
  LET r == job[c].r
      check == Check(attempts, r.ip, r.point, clock)
  IN /\ job[c].at = "allowed" /\ r.kind = "scan" /\ Existing(r) = {} /\ ~Busy(r.point)
     /\ attempts' = check.memory
     /\ \/ /\ check.admitted
           /\ admitted' = Append(admitted, [ip |-> r.ip, point |-> r.point, time |-> clock])
           /\ Goto(c, "admitted") /\ UNCHANGED lock
        \/ ~check.admitted /\ End(c) /\ UNCHANGED admitted
     /\ UNCHANGED <<clock, active, suspended, sessions, requests, switches, troubles>>

AdmitCheckout(c) ==
  /\ job[c].at = "allowed" /\ job[c].r.kind = "checkout" /\ Existing(job[c].r) = {}
  /\ Goto(c, "admitted")
  /\ UNCHANGED <<clock, active, suspended, sessions, attempts, lock, admitted, requests, switches, troubles>>

(* The policy, and for a scan the exchange, then the record's dates.        *)
Prepare(c) ==
  /\ job[c].at = "admitted"
  /\ job' = [job EXCEPT ![c].at = "prepared", ![c].createdAt = clock]
  /\ UNCHANGED <<clock, active, suspended, sessions, attempts, lock, admitted, requests, switches, troubles>>

Insert(c) ==
  /\ job[c].at = "prepared"
  /\ sessions' = Append(sessions, [kind |-> job[c].r.kind, point |-> job[c].r.point, ref |-> job[c].r.ref,
                                   expiresAt |-> job[c].createdAt + SessionTtl,
                                   pending |-> TRUE, claimed |-> FALSE])
  /\ End(c)
  /\ UNCHANGED <<clock, active, suspended, attempts, admitted, requests, switches, troubles>>

(* claimSession: a compare-and-set on the saved session.                    *)
Claim(c) ==
  /\ job[c].at = "allowed" /\ job[c].r.kind = "claim"
  /\ \E n \in Named(job[c].r) :
       ~sessions[n].claimed /\ sessions' = [sessions EXCEPT ![n].claimed = TRUE]
  /\ End(c)
  /\ UNCHANGED <<clock, active, suspended, attempts, admitted, requests, switches, troubles>>

(* The error answers of the three operations.                               *)
Refuse(c) ==
  LET r == job[c].r
  IN /\ \/ job[c].at = "asked" /\ r.kind = "claim" /\ \A n \in Named(r) : Expired(sessions[n])
        \/ job[c].at = "point found" /\ Barred(job[c])
        \/ /\ job[c].at = "allowed" /\ r.kind = "scan"
           /\ IF Existing(r) = {} THEN Busy(r.point) ELSE Expired(Oldest(r))
        \/ job[c].at = "allowed" /\ r.kind = "claim" /\ \A n \in Named(r) : sessions[n].claimed
     /\ End(c)
     /\ UNCHANGED <<clock, active, suspended, sessions, attempts, admitted, requests, switches, troubles>>

(* The store, the ledger or Credo refuses.                                  *)
Fail(c) ==
  /\ job[c] # Idle /\ MyTurn(c)
  /\ troubles < MaxTroubles /\ troubles' = troubles + 1
  /\ End(c)
  /\ UNCHANGED <<clock, active, suspended, sessions, attempts, admitted, requests, switches>>

-----------------------------------------------------------------------------

Crash ==
  /\ troubles < MaxTroubles /\ troubles' = troubles + 1
  /\ attempts' = NoAttempts /\ admitted' = <<>>
  /\ lock' = [kind \in DOMAIN lock |-> <<>>] /\ job' = [c \in Caller |-> Idle]
  /\ UNCHANGED <<clock, active, suspended, sessions, requests, switches>>

(* updateServicePoint, suspendVendor and reinstateVendor.                   *)
Switch(on, barred) ==
  /\ switches < MaxSwitches /\ switches' = switches + 1
  /\ active' = on /\ suspended' = barred
  /\ job' = [c \in Caller |->
               IF job[c] = Idle THEN Idle
               ELSE [job[c] EXCEPT !.seen = @ \cup SeenNow(job[c].r.point, on, barred)]]
  /\ UNCHANGED <<clock, sessions, attempts, lock, admitted, requests, troubles>>

Administrate ==
  \/ \E p \in Point : Switch(IF p \in active THEN active \ {p} ELSE active \cup {p}, suspended)
  \/ \E v \in Vendor : Switch(active, IF v \in suspended THEN suspended \ {v} ELSE suspended \cup {v})

(* A wallet's answer, the cleanup timer or a poll ends a session.           *)
Decide(n) ==
  /\ sessions[n].pending
  /\ sessions' = [sessions EXCEPT ![n].pending = FALSE]
  /\ UNCHANGED <<clock, active, suspended, attempts, lock, job, admitted, requests, switches, troubles>>

Tick ==
  /\ clock < MaxTime /\ clock' = clock + 1
  /\ UNCHANGED <<active, suspended, sessions, attempts, lock, job, admitted, requests, switches, troubles>>

Step(c) ==
  /\ job[c] # Idle
  /\ \/ FindSession(c) \/ FindPoint(c) \/ Allow(c) \/ Replay(c) \/ AdmitScan(c) \/ AdmitCheckout(c)
     \/ Prepare(c) \/ Insert(c) \/ Claim(c) \/ Refuse(c) \/ Fail(c)

Next ==
  \/ Tick \/ Crash \/ Administrate
  \/ \E n \in DOMAIN sessions : Decide(n)
  \/ \E c \in Caller : Step(c) \/ \E r \in Request : Ask(c, r)

Spec == Init /\ [][Next]_vars

-----------------------------------------------------------------------------

(* At no time has a service point more unfinished scans than its bound: the *)
(* count and the insertion lie several awaits apart, and checkouts and ends *)
(* of sessions run in between (startSession, withCreationLock).             *)
PendingBounded ==
  \A p \in Point : Cardinality({n \in PendingAt(p) : sessions[n].kind = "scan"}) <= MaxPending

(* However often a scan or a checkout is retried, at once, later, after a   *)
(* restart or after its session has expired, it has one session             *)
(* (startSession, createCheckoutSession).                                   *)
OnePerReference ==
  \A m, n \in DOMAIN sessions :
    /\ sessions[m].kind = sessions[n].kind /\ sessions[m].point = sessions[n].point
    /\ sessions[m].ref = sessions[n].ref
    => m = n

(* A request during all of which its service point was switched off, or its *)
(* vendor suspended, neither creates nor claims a session, although the two *)
(* are read at different times (assertVendorVerificationAllowed).           *)
BarredRefused ==
  [][\A c \in Caller :
       sessions' # sessions /\ job[c] # Idle /\ job'[c] = Idle =>
         job[c].seen = {"active", "not suspended"}]_vars

(* Between restarts no window of the configured length ever admits more     *)
(* scans of an address, or at a service point, than configured: attempts at *)
(* the edges of the window count once (check, record).                      *)
RateKept ==
  \A t \in 0 .. clock :
    LET in == {n \in DOMAIN admitted : t - Window < admitted[n].time /\ admitted[n].time <= t}
    IN /\ \A p \in Point : Cardinality({n \in in : admitted[n].point = p}) <= PerServicePoint
       /\ \A i \in Ip : Cardinality({n \in in : admitted[n].ip = i}) <= PerIp
==============================================================================
