--------------------------- MODULE SessionContract ---------------------------
(***************************************************************************)
(* What the agent promises about one verification session, whatever polls, *)
(* events, claims and cleanup runs work on it at once: it is asked for     *)
(* once, gets at most one proof exchange, is decided once, and removed     *)
(* when its visibility window is over; the portal hears of what was        *)
(* decided, and of the fields only inside the window.  Every step is one   *)
(* change of one session.  VerificationSession implements it.              *)
(***************************************************************************)
EXTENDS Integers

CONSTANTS
  Session, Exchange,
  None,         \* stands for an absent exchange
  Lifetime,     \* from the request to its expiry
  Visibility    \* from the decision to the end of the window

VARIABLES
  clock,
  session,  \* what is known of each session
  told      \* what the portal has heard of: [session, decision, completedAt, attributes]

Never == -1
Outcome == {"Approved", "Declined", "Expired", "Failed"}

Unasked ==
  [kind |-> "NONE", claimed |-> FALSE, exchange |-> None, expiresAt |-> Never,
   decision |-> "Pending", completedAt |-> Never, visibleUntil |-> Never, removed |-> FALSE]

Init == clock = 0 /\ session = [s \in Session |-> Unasked] /\ told = {}

Tick == clock' = clock + 1 /\ UNCHANGED <<session, told>>

Become(s, new) == session' = [session EXCEPT ![s] = new] /\ UNCHANGED <<clock, told>>

Unlinked(e) == \A s \in Session : session[s].exchange # e

(* A scan gets its exchange with the request; a checkout is asked for first,*)
(* and is linked to an exchange after it has been claimed.                  *)
AskScan(s, e) ==
  /\ session[s] = Unasked /\ Unlinked(e)
  /\ \E asked \in 0 .. clock :
       Become(s, [Unasked EXCEPT !.kind = "STATIC", !.exchange = e, !.expiresAt = asked + Lifetime])

AskCheckout(s) ==
  /\ session[s] = Unasked
  /\ Become(s, [Unasked EXCEPT !.kind = "CHECKOUT", !.expiresAt = clock + Lifetime])

Claim(s) ==
  /\ session[s].kind = "CHECKOUT" /\ ~session[s].claimed
  /\ Become(s, [session[s] EXCEPT !.claimed = TRUE])

(* A claim is slow: the request may have expired before it is done.         *)
Claimable(s) ==
  session[s].claimed /\ session[s].exchange = None /\ session[s].decision \in {"Pending", "Expired"}

Link(s, e) ==
  /\ Claimable(s) /\ Unlinked(e)
  /\ Become(s, [session[s] EXCEPT !.exchange = e])

FailClaim(s) ==
  /\ Claimable(s)
  /\ Become(s, [session[s] EXCEPT !.decision = "Failed", !.completedAt = clock])

(* Without an exchange a request can only expire, and it expires when it    *)
(* says so.                                                                 *)
Decide(s, outcome, at) ==
  /\ session[s].kind # "NONE" /\ session[s].decision = "Pending"
  /\ session[s].exchange = None => outcome = "Expired"
  /\ outcome = "Expired" => at = session[s].expiresAt
  /\ Become(s, [session[s] EXCEPT !.decision = outcome, !.completedAt = at, !.visibleUntil = at + Visibility])

Remove(s) ==
  /\ session[s].visibleUntil # Never /\ session[s].visibleUntil <= clock
  /\ Become(s, [session[s] EXCEPT !.removed = TRUE])

Tell(s, attributes) ==
  /\ session[s].exchange # None /\ session[s].decision # "Pending"
  /\ attributes => clock < session[s].visibleUntil
  /\ told' = told \cup {[session |-> s, decision |-> session[s].decision,
                         completedAt |-> session[s].completedAt, attributes |-> attributes]}
  /\ UNCHANGED <<clock, session>>

Next ==
  \/ Tick
  \/ \E s \in Session :
       \/ AskCheckout(s) \/ Claim(s) \/ FailClaim(s) \/ Remove(s)
       \/ \E e \in Exchange : AskScan(s, e) \/ Link(s, e)
       \/ \E outcome \in Outcome, at \in 0 .. clock : Decide(s, outcome, at)
       \/ \E attributes \in BOOLEAN : Tell(s, attributes)

Spec == Init /\ [][Next]_<<clock, session, told>>
=============================================================================
