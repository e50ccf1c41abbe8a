----------------------------- MODULE TrustPolicy -----------------------------
(***************************************************************************)
(* Which credential definitions the verifier trusts, which is the default, *)
(* and which one each service point asks for: the registration of trusted  *)
(* definitions, their bootstrap from the configuration, and the selection  *)
(* for new, updated and used service points (verificationService.ts) over  *)
(* the saved policies and service points (verificationStore.ts), beside    *)
(* the setups that put definitions on the ledger.                          *)
(*                                                                         *)
(* A step is what happens between two awaits.  No lock covers more than    *)
(* one store operation here.  A crash loses the requests in progress.      *)
(***************************************************************************)
EXTENDS IssuanceSetup

CONSTANTS
  Point,       \* service points,
  Unbound,     \* and those saved by an older version, without a definition
  Configured,  \* VERIFIER_TRUSTED_CREDENTIAL_DEFINITION_IDS, a sequence
  None         \* stands for no definition, and for a service point that does not exist

Kind == {"did", "setup", "register", "create", "update", "use"}

ASSUME PolicyAssumption ==
  /\ Configured \in Seq(Definition) /\ None \notin Definition /\ Unbound \subseteq Point
  /\ Request \subseteq [kind : Kind, point : Point, definition : Definition \cup {None}, makeDefault : BOOLEAN]

VARIABLES
  policies,  \* trustedCredentialDefinitions, in the order of the file: [id, isDefault]
  point      \* the service points: None, or [definition]

vars == <<setupVars, policies, point>>

Init ==
  /\ SetupInit /\ policies = <<>>
  /\ point = [p \in Point |-> IF p \in Unbound THEN [definition |-> None] ELSE None]

HasDefault(list) == \E n \in DOMAIN list : list[n].isDefault
Trusted == {policies[n].id : n \in DOMAIN policies}

(* selectTrustedCredentialDefinition: the wanted definition, else the first *)
(* default, else the only one; None is a refusal.                           *)
Selection(list, wanted) ==
  LET Fits(n) == IF wanted # None THEN list[n].id = wanted ELSE list[n].isDefault \/ Len(list) = 1
      first == {n \in DOMAIN list : Fits(n) /\ \A m \in 1 .. n - 1 : ~Fits(m)}
  IN IF first = {} THEN None ELSE list[CHOOSE n \in first : TRUE].id

Exists(p) == point[p] # None

(* A request; one that uses a service point (a scan or a claim) has read it. *)
Arrive(c, r) ==
  /\ r.kind = "use" => Exists(r.point)
  /\ Ask(c, r, IF r.kind = "use" THEN point[r.point].definition ELSE r.definition)
  /\ UNCHANGED <<policies, point>>

-----------------------------------------------------------------------------
(* Registration of a trusted definition.                                    *)

Registering(c) == \/ At(c, "register", "asked")
                  \/ job[c] # Idle /\ job[c].at = "bootstrapping"

(* findTrustedCredentialDefinition.                                         *)
FindPolicy(c) ==
  /\ Registering(c)
  /\ job' = [job EXCEPT ![c].at = "policy found",
               ![c].wasDefault = \E n \in DOMAIN policies :
                                   policies[n].id = job[c].definition /\ policies[n].isDefault]
  /\ UNCHANGED <<ledger, dids, overlapped, told, requests, troubles, policies, point>>

(* The definition and its schema are on the ledger; as a mutant, all that   *)
(* is asked of them.                                                        *)
OnLedger(d) == {[object |-> s, of |-> d] : s \in {"schema", "definition"}} \subseteq ledger

(* What registerTrustedCredentialDefinition requires of a definition.       *)
Resolvable(d) == d \in Revocable /\ OnLedger(d)

(* A definition that cannot be resolved ends the request, also one that was *)
(* to bootstrap the others.                                                 *)
Resolve(c) ==
  /\ job[c] # Idle /\ job[c].at = "policy found"
  /\ IF Resolvable(job[c].definition) THEN Goto(c, "resolved") ELSE End(c)
  /\ UNCHANGED <<ledger, dids, overlapped, told, requests, troubles, policies, point>>

(* Mutant: a plain registration takes the default away.                     *)
OnlyWhenAsked(makeDefault, wasDefault, isDefault) == makeDefault

StaysDefault(makeDefault, wasDefault, isDefault) == makeDefault \/ wasDefault \/ isDefault

(* upsertTrustedCredentialDefinition: replace or append the policy, and     *)
(* with a new default take the flag from all others and move the service    *)
(* points that have the first old default.                                  *)
Upsert(d, makeDefault, wasDefault) ==
  LET was == [n \in DOMAIN policies |-> [policies[n] EXCEPT !.isDefault = @ /\ ~makeDefault]]
      IsDefault(n) == n \in DOMAIN was /\ was[n].isDefault
      record(n) == [id |-> d, isDefault |-> StaysDefault(makeDefault, wasDefault, IsDefault(n))]
      previous == IF makeDefault /\ HasDefault(policies)
                    THEN Head(SelectSeq(policies, LAMBDA x : x.isDefault)).id ELSE None
  IN /\ policies' = IF d \in Trusted
                      THEN [n \in DOMAIN was |-> IF was[n].id = d THEN record(n) ELSE was[n]]
                      ELSE Append(was, record(Len(was) + 1))
     /\ point' = [p \in Point |->
                    IF Exists(p) /\ previous # None /\ point[p].definition = previous
                      THEN [definition |-> d] ELSE point[p]]

Save(c) ==
  /\ job[c] # Idle /\ job[c].at = "resolved"
  /\ Upsert(job[c].definition, job[c].makeDefault, job[c].wasDefault)
  /\ IF job[c].kind = "register" THEN End(c) ELSE Goto(c, "asked")
  /\ UNCHANGED <<ledger, dids, overlapped, told, requests, troubles>>

-----------------------------------------------------------------------------
(* Selection for a service point: kinds "create", "update" and "use".       *)

(* ensureConfiguredPolicies: an empty list is filled from the configuration, *)
(* one registration after the other, until all are there.                   *)
Bootstraps(c) == job[c].boot < Len(Configured) /\ (job[c].boot > 0 \/ policies = <<>>)

ListPolicies(c) ==
  /\ job[c] # Idle /\ job[c].kind \in {"create", "update", "use"} /\ job[c].at = "asked"
  /\ IF Bootstraps(c)
       THEN job' = [job EXCEPT ![c].at = "bootstrapping", ![c].boot = @ + 1,
                      ![c].definition = Configured[job[c].boot + 1], ![c].makeDefault = ~HasDefault(policies)]
     ELSE IF Selection(policies, job[c].wanted) = None THEN End(c)
     ELSE job' = [job EXCEPT ![c].at = "selected", ![c].chosen = Selection(policies, job[c].wanted)]
  /\ UNCHANGED <<ledger, dids, overlapped, told, requests, troubles, policies, point>>

(* createServicePoint inserts, unless the point exists; updateServicePoint  *)
(* replaces the definition, and so does policyForServicePoint for a point   *)
(* it read without one.                                                     *)
Bind(c) ==
  LET p == job[c].point
      writes == CASE job[c].kind = "create" -> ~Exists(p)
                  [] job[c].kind = "update" -> Exists(p)
                  [] job[c].kind = "use" -> job[c].wanted = None
  IN /\ job[c] # Idle /\ job[c].at = "selected"
     /\ point' = IF writes THEN [point EXCEPT ![p] = [definition |-> job[c].chosen]] ELSE point
     /\ End(c)
     /\ UNCHANGED <<ledger, dids, overlapped, told, requests, troubles, policies>>

-----------------------------------------------------------------------------

PolicyStep(c) == FindPolicy(c) \/ Resolve(c) \/ Save(c) \/ ListPolicies(c) \/ Bind(c)

Next ==
  \/ Crash /\ UNCHANGED <<policies, point>>
  \/ \E c \in Caller :
       \/ SetupStep(c) /\ UNCHANGED <<policies, point>>
       \/ PolicyStep(c)
       \/ \E r \in Request : Arrive(c, r)

Spec == Init /\ [][Next]_vars

-----------------------------------------------------------------------------

(* Once there is a default there is always one, in every state a crash can  *)
(* leave behind: moving it, registering the default again and an            *)
(* interrupted bootstrap never leave new service points without a policy    *)
(* (upsertTrustedCredentialDefinition, selectTrustedCredentialDefinition).  *)
DefaultKept == [][HasDefault(policies) => HasDefault(policies')]_policies

(* Every definition a service point asks for is trusted, and every trusted  *)
(* one can be resolved and revoked, although selection, registration and    *)
(* setup interleave (selectTrustedCredentialDefinition, policyForServicePoint, *)
(* registerTrustedCredentialDefinition).                                    *)
PointsTrusted ==
  /\ \A p \in Point : Exists(p) => point[p].definition \in Trusted \cup {None}
  /\ \A d \in Trusted : d \in Revocable /\ OnLedger(d)

(* Only one definition is the default: "Refuse an unknown definition or an  *)
(* ambiguous default rather than silently trusting another issuer".         *)
AtMostOneDefault ==
  \A m, n \in DOMAIN policies : policies[m].isDefault /\ policies[n].isDefault => m = n
==============================================================================
