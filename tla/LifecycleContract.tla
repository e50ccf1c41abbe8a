-------------------------- MODULE LifecycleContract --------------------------
(***************************************************************************)
(* What the agent promises the portal about the lifecycle of a credential: *)
(* it is active, suspended or revoked; every change takes the next         *)
(* revision; revocation is final; and the portal only ever hears of states *)
(* the credential was in.  CredentialLifecycle implements it.              *)
(***************************************************************************)
EXTENDS Naturals

CONSTANT Credential
VARIABLES
  current,  \* the state each credential is in
  told      \* the states the portal has heard of, in answers or webhooks

Status == {"ACTIVE", "SUSPENDED", "REVOKED"}

(* README, suspension and revocation: only a suspended credential can be   *)
(* reactivated, and a revoked one stays revoked.                           *)
MayBecome(old, new) ==
  \/ old = "ACTIVE" /\ new \in {"SUSPENDED", "REVOKED"}
  \/ old = "SUSPENDED" /\ new \in {"ACTIVE", "REVOKED"}

Init ==
  /\ current \in [Credential -> [status : Status, previous : {"none"}, revision : {0}]]
  /\ told = {}

Change(c, new) ==
  /\ MayBecome(current[c].status, new)
  /\ current' = [current EXCEPT ![c] = [status |-> new, previous |-> current[c].status,
                                        revision |-> current[c].revision + 1]]
  /\ UNCHANGED told

Tell(c) ==
  /\ told' = told \cup {[credential |-> c, state |-> current[c]]}
  /\ UNCHANGED current

Next == \E c \in Credential : Tell(c) \/ \E new \in Status : Change(c, new)

Spec == Init /\ [][Next]_<<current, told>>
=============================================================================
