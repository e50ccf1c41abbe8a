---------------------------- MODULE IssuanceSetup ----------------------------
(***************************************************************************)
(* How a university gets what it issues with: the issuer DID               *)
(* (didService.ts), and schema, credential definition, revocation registry *)
(* and first status list, registered one after the other on the ledger     *)
(* (issuanceSetupService.ts, schemaService.ts).  The ledger and Credo's    *)
(* wallet are external: a registration finishes, with or without the       *)
(* identifier or timestamp the next stage needs, fails, or is left waiting *)
(* for someone else, in which case it may or may not take effect.          *)
(*                                                                         *)
(* Left out: names, versions and tags; a setup is named by the definition  *)
(* it makes.                                                               *)
(***************************************************************************)
EXTENDS Integers, Sequences, FiniteSets

CONSTANTS
  Caller,       \* requests that may be in progress at once
  Definition,   \* credential definitions,
  Revocable,    \* those that support revocation,
  Prepared,     \* and those set up completely before
  Request,      \* the requests that may come: [kind, point, definition, makeDefault]
  MaxRequests,  \* bound: how many requests are sent
  MaxTroubles   \* bound: how many calls fail and how often the process stops

ASSUME SetupAssumption ==
  /\ Revocable \subseteq Definition /\ Prepared \subseteq Definition
  /\ MaxRequests \in Nat /\ MaxTroubles \in Nat

VARIABLES
  ledger,      \* what is on the ledger: [object, of]
  dids,        \* the issuer DIDs in Credo's wallet, numbered by the request that made them
  overlapped,  \* history: did two creations of a DID overlap?
  told,        \* history: how setups ended
  job,         \* the request each caller is waiting for
  requests, troubles

setupVars == <<ledger, dids, overlapped, told, job, requests, troubles>>

Idle == [at |-> "idle"]

(* setup: the objects to register, in order.                                *)
Stages(d) == IF d \in Revocable THEN <<"schema", "definition", "registry", "list">> ELSE <<"schema", "definition">>

Complete(d) == {[object |-> s, of |-> d] : s \in {Stages(d)[n] : n \in DOMAIN Stages(d)}}

SetupInit ==
  /\ ledger = UNION {Complete(d) : d \in Prepared}
  /\ dids = {} /\ overlapped = FALSE /\ told = {}
  /\ job = [c \in Caller |-> Idle] /\ requests = 0 /\ troubles = 0

Goto(c, at) == job' = [job EXCEPT ![c].at = at]
End(c) == job' = [job EXCEPT ![c] = Idle]

At(c, kind, at) == job[c] # Idle /\ job[c].kind = kind /\ job[c].at = at

-----------------------------------------------------------------------------

(* Mutant: a registration that did not fail counts as finished.             *)
FinishedOrWaiting(state) == state # "failed"

(* assertFinished, and the check of the identifier or timestamp after it.   *)
RegistrationState == {"finished", "incomplete", "failed", "waiting"}
Finished(state) == state = "finished"

(* What became of the setup: all of it; the schema and the definition, whose *)
(* identifiers the error of the revocation setup carries; or an error.      *)
Outcome(stage) == IF stage \in {"registry", "list"} THEN "partial" ELSE "failed"

Register(c, state) ==
  LET d == job[c].definition
      stage == Stages(d)[job[c].stage]
      registered == ledger \cup {[object |-> stage, of |-> d]}
  IN /\ At(c, "setup", "asked")
     /\ CASE state = "finished" -> ledger' = registered /\ UNCHANGED troubles
          [] state = "incomplete" -> troubles < MaxTroubles /\ troubles' = troubles + 1 /\ ledger' = registered
          [] state = "failed" -> troubles < MaxTroubles /\ troubles' = troubles + 1 /\ UNCHANGED ledger
          [] state = "waiting" -> /\ troubles < MaxTroubles /\ troubles' = troubles + 1
                                  /\ ledger' \in {ledger, registered}
     /\ IF Finished(state) /\ job[c].stage < Len(Stages(d))
          THEN job' = [job EXCEPT ![c].stage = @ + 1] /\ UNCHANGED told
          ELSE /\ told' = told \cup {[definition |-> d,
                                      outcome |-> IF Finished(state) THEN "complete" ELSE Outcome(stage)]}
               /\ End(c)
     /\ UNCHANGED <<dids, overlapped, requests>>

-----------------------------------------------------------------------------

(* Mutant: the issuer DID is not looked up.                                 *)
NeverThere == FALSE

(* getIssuerDid finds one, or refuses several.                              *)
DidThere == dids # {}

LookForDid(c) ==
  /\ At(c, "did", "asked")
  /\ IF DidThere THEN End(c) ELSE Goto(c, "registering")
  /\ UNCHANGED <<ledger, dids, overlapped, told, requests, troubles>>

(* The ledger's registration endpoint is asked with a new key.              *)
RegisterDid(c) ==
  /\ At(c, "did", "registering") /\ Goto(c, "importing")
  /\ UNCHANGED <<ledger, dids, overlapped, told, requests, troubles>>

ImportDid(c) ==
  /\ At(c, "did", "importing")
  /\ dids' = dids \cup {job[c].number} /\ End(c)
  /\ UNCHANGED <<ledger, overlapped, told, requests, troubles>>

-----------------------------------------------------------------------------

(* A call of any other kind to Credo, the ledger or a file fails.           *)
Fail(c) ==
  /\ job[c] # Idle /\ job[c].kind # "setup"
  /\ troubles < MaxTroubles /\ troubles' = troubles + 1 /\ End(c)
  /\ UNCHANGED <<ledger, dids, overlapped, told, requests>>

Crash ==
  /\ troubles < MaxTroubles /\ troubles' = troubles + 1
  /\ job' = [c \in Caller |-> Idle]
  /\ UNCHANGED <<ledger, dids, overlapped, told, requests>>

Creating(c) == job[c] # Idle /\ job[c].kind = "did"

(* A request begins: what all its steps need to remember.                   *)
Ask(c, r, wanted) ==
  /\ job[c] = Idle /\ requests < MaxRequests
  /\ job' = [job EXCEPT ![c] = [at |-> "asked", number |-> requests, kind |-> r.kind, point |-> r.point,
                                definition |-> r.definition, makeDefault |-> r.makeDefault, stage |-> 1,
                                wanted |-> wanted, chosen |-> wanted, boot |-> 0, wasDefault |-> FALSE]]
  /\ overlapped' = (overlapped \/ (r.kind = "did" /\ \E e \in Caller : Creating(e)))
  /\ requests' = requests + 1
  /\ UNCHANGED <<ledger, dids, told, troubles>>

SetupStep(c) ==
  \/ \E state \in RegistrationState : Register(c, state)
  \/ LookForDid(c) \/ RegisterDid(c) \/ ImportDid(c) \/ Fail(c)

-----------------------------------------------------------------------------

(* Whoever is told that a setup is complete can issue and revoke with it,   *)
(* and the identifiers in the error of a partial setup exist on the ledger: *)
(* an object left waiting for an endorser, or without its identifier, is    *)
(* never reported (assertFinished, setup).                                  *)
SetupTruthful ==
  \A t \in told :
    /\ t.outcome = "complete" => Complete(t.definition) \subseteq ledger
    /\ t.outcome = "partial" => {[object |-> s, of |-> t.definition] : s \in {"schema", "definition"}} \subseteq ledger

(* Failed, repeated and interrupted creations leave the agent with at most  *)
(* one issuer DID, unless two of them overlapped: getIssuerDid and the      *)
(* import are several awaits apart and nothing queues them (didService.ts). *)
DidsOnce == Cardinality(dids) <= 1 \/ overlapped
==============================================================================
