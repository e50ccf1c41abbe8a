------------------------- MODULE TrustPolicyProofs -------------------------
(***************************************************************************)
(* The trust policies and the setup of an issuer, and after them what      *)
(* setups report and how many issuer DIDs there are, for any definitions,  *)
(* service points, requests, failures and restarts.                        *)
(***************************************************************************)
EXTENDS TrustPolicy, FiniteSetTheorems, TLAPS

Policy == [id : Definition, isDefault : BOOLEAN]
Place == {"asked", "registering", "importing", "bootstrapping", "policy found", "resolved", "selected"}
Maybe == Definition \cup {None}
Job == [at : Place, number : Nat, kind : Kind, point : Point, definition : Maybe, makeDefault : BOOLEAN,
        stage : Nat, wanted : Maybe, chosen : Maybe, boot : Nat, wasDefault : BOOLEAN]

Typed ==
  /\ policies \in Seq(Policy)
  /\ point \in [Point -> {None} \cup [definition : Maybe]]
  /\ job \in [Caller -> {Idle} \cup Job]
  /\ requests \in Nat

(* What a request in progress has found out still holds: the definition it  *)
(* selected is trusted, the one it resolved can be resolved.                *)
Found ==
  \A c \in Caller :
    /\ job[c].at = "selected" => job[c].chosen \in Trusted
    /\ job[c].at = "resolved" => Resolvable(job[c].definition)

Sound == Typed /\ PointsTrusted /\ Found

(* A request that is not idle has all its fields.                           *)
LEMMA JobShape ==
  ASSUME Typed, NEW c \in Caller
  PROVE  /\ job[c] # Idle <=> job[c].at # "idle"
         /\ job[c] # Idle => job[c] \in Job
  <1>1. \A j \in Job : j.at # "idle"
    BY DEF Job, Place
  <1>2. Idle.at = "idle"
    BY DEF Idle
  <1> QED
    BY <1>1, <1>2 DEF Typed

(* One request moves on, the others stay.                                   *)
LEMMA OneJob ==
  ASSUME Typed, NEW c \in Caller, NEW new \in {Idle} \cup Job, job' = [job EXCEPT ![c] = new]
  PROVE  /\ job' \in [Caller -> {Idle} \cup Job]
         /\ \A d \in Caller : job'[d] = IF d = c THEN new ELSE job[d]
  BY DEF Typed

(* A request that moves on without selecting or resolving anything.         *)
LEMMA SoundQuiet ==
  ASSUME Sound, job' \in [Caller -> {Idle} \cup Job], requests' \in Nat,
         ledger \subseteq ledger', UNCHANGED <<policies, point>>,
         \A c \in Caller : job'[c].at \in {"selected", "resolved"} => job'[c] = job[c]
  PROVE  Sound'
  <1>1. Trusted' = Trusted
    BY DEF Trusted
  <1>2. \A d : OnLedger(d) => OnLedger(d)'
    BY DEF OnLedger
  <1>3. \A d : Resolvable(d) => Resolvable(d)'
    BY <1>2 DEF Resolvable
  <1>4. PointsTrusted'
    BY <1>1, <1>2 DEF Sound, PointsTrusted, Exists
  <1>5. Found'
    BY <1>1, <1>3 DEF Sound, Found
  <1> QED
    BY <1>4, <1>5 DEF Sound, Typed

(* A request only goes on to another place.                                 *)
LEMMA GotoQuiet ==
  ASSUME Sound, NEW c \in Caller, job[c] # Idle, NEW at \in Place \ {"selected", "resolved"}, Goto(c, at),
         UNCHANGED <<policies, point, requests>>, ledger \subseteq ledger'
  PROVE  Sound'
  <1> DEFINE new == [job[c] EXCEPT !.at = at]
  <1>1. new \in Job /\ new.at = at
    BY JobShape DEF Sound, Job
  <1>2. job' = [job EXCEPT ![c] = new]
    BY DEF Goto
  <1>3. job' \in [Caller -> {Idle} \cup Job] /\ \A d \in Caller : job'[d] = IF d = c THEN new ELSE job[d]
    BY <1>1, <1>2, OneJob DEF Sound
  <1> QED
    BY <1>1, <1>3, SoundQuiet DEF Sound, Typed

(* A request ends.                                                          *)
LEMMA EndQuiet ==
  ASSUME Sound, NEW c \in Caller, End(c), UNCHANGED <<policies, point, requests>>, ledger \subseteq ledger'
  PROVE  Sound'
  <1>1. job' \in [Caller -> {Idle} \cup Job] /\ \A d \in Caller : job'[d] = IF d = c THEN Idle ELSE job[d]
    BY OneJob DEF Sound, End
  <1>2. Idle.at = "idle"
    BY DEF Idle
  <1> QED
    BY <1>1, <1>2, SoundQuiet DEF Sound, Typed

-----------------------------------------------------------------------------

(* Nothing is trusted or in progress at first.                              *)
LEMMA SoundInit == Init => Sound
  <1> SUFFICES ASSUME Init PROVE Sound
    OBVIOUS
  <1>1. policies = <<>> /\ DOMAIN policies = {} /\ policies \in Seq(Policy)
    BY DEF Init
  <1>2. \A p \in Point : Exists(p) => point[p].definition = None
    BY DEF Init, Exists
  <1>3. PointsTrusted
    BY <1>1, <1>2 DEF PointsTrusted, Trusted
  <1>4. Found
    BY DEF Init, SetupInit, Found, Idle
  <1> QED
    BY <1>1, <1>3, <1>4 DEF Sound, Typed, Init, SetupInit, Maybe

(* Setups only add to the ledger.                                           *)
LEMMA SoundSetup ==
  ASSUME Sound, NEW c \in Caller, SetupStep(c), UNCHANGED <<policies, point>>
  PROVE  Sound'
  <1>1. ASSUME NEW state \in RegistrationState, Register(c, state) PROVE Sound'
    <2> DEFINE new == [job[c] EXCEPT !.stage = @ + 1]
    <2>1. ledger \subseteq ledger' /\ requests' = requests /\ job[c] # Idle /\ job[c].at = "asked"
      BY <1>1 DEF Register, RegistrationState, At
    <2>2. CASE End(c)
      BY <2>1, <2>2, EndQuiet
    <2>3. CASE job' = [job EXCEPT ![c] = new]
      <3>1. new \in Job /\ new.at = "asked"
        BY <2>1, JobShape DEF Sound, Job
      <3>2. job' \in [Caller -> {Idle} \cup Job] /\ \A d \in Caller : job'[d] = IF d = c THEN new ELSE job[d]
        BY <2>3, <3>1, OneJob DEF Sound
      <3> QED
        BY <2>1, <3>1, <3>2, SoundQuiet DEF Sound, Typed
    <2> QED
      BY <1>1, <2>2, <2>3 DEF Register
  <1>2. CASE LookForDid(c) \/ RegisterDid(c) \/ ImportDid(c)
    BY <1>2, GotoQuiet, EndQuiet DEF LookForDid, RegisterDid, ImportDid, At, Place
  <1>3. CASE Fail(c)
    BY <1>3, EndQuiet DEF Fail
  <1> QED
    BY <1>1, <1>2, <1>3 DEF SetupStep

(* A crash forgets the requests in progress.                                *)
LEMMA SoundCrash ==
  ASSUME Sound, Crash, UNCHANGED <<policies, point>>
  PROVE  Sound'
  <1>1. Idle.at = "idle" /\ job' \in [Caller -> {Idle} \cup Job]
    BY DEF Crash, Idle
  <1> QED
    BY <1>1, SoundQuiet DEF Crash, Sound, Typed

(* A request begins.                                                        *)
LEMMA SoundArrive ==
  ASSUME Sound, NEW c \in Caller, NEW r \in Request, Arrive(c, r)
  PROVE  Sound'
  <1> DEFINE wanted == IF r.kind = "use" THEN point[r.point].definition ELSE r.definition
             new == [at |-> "asked", number |-> requests, kind |-> r.kind, point |-> r.point,
                     definition |-> r.definition, makeDefault |-> r.makeDefault, stage |-> 1,
                     wanted |-> wanted, chosen |-> wanted, boot |-> 0, wasDefault |-> FALSE]
  <1>1. r \in [kind : Kind, point : Point, definition : Maybe, makeDefault : BOOLEAN]
    BY PolicyAssumption DEF Maybe
  <1>2. wanted \in Maybe
    BY <1>1 DEF Arrive, Exists, Sound, Typed
  <1>3. new \in Job /\ new.at = "asked"
    BY <1>1, <1>2 DEF Sound, Typed, Job, Place
  <1>4. job' = [job EXCEPT ![c] = new] /\ requests' = requests + 1 /\ ledger' = ledger /\ UNCHANGED <<policies, point>>
    BY DEF Arrive, Ask
  <1>5. job' \in [Caller -> {Idle} \cup Job] /\ \A d \in Caller : job'[d] = IF d = c THEN new ELSE job[d]
    BY <1>3, <1>4, OneJob DEF Sound
  <1> QED
    BY <1>3, <1>4, <1>5, SoundQuiet DEF Sound, Typed

(* Looking for a policy, and resolving the definition.                      *)
LEMMA SoundResolve ==
  ASSUME Sound, NEW c \in Caller, FindPolicy(c) \/ Resolve(c)
  PROVE  Sound'
  <1>1. CASE FindPolicy(c)
    <2> DEFINE was == \E n \in DOMAIN policies : policies[n].id = job[c].definition /\ policies[n].isDefault
               new == [job[c] EXCEPT !.at = "policy found", !.wasDefault = was]
    <2>1. job[c] # Idle
      BY <1>1 DEF FindPolicy, Registering, At
    <2>2. new \in Job /\ new.at = "policy found"
      BY <2>1, JobShape DEF Sound, Job, Place
    <2>3. job' = [job EXCEPT ![c] = new]
      BY <1>1 DEF FindPolicy
    <2>4. job' \in [Caller -> {Idle} \cup Job] /\ \A d \in Caller : job'[d] = IF d = c THEN new ELSE job[d]
      BY <2>2, <2>3, OneJob DEF Sound
    <2> QED
      BY <1>1, <2>2, <2>4, SoundQuiet DEF FindPolicy, Sound, Typed
  <1>2. CASE Resolve(c) /\ ~Resolvable(job[c].definition)
    BY <1>2, EndQuiet DEF Resolve
  <1>3. CASE Resolve(c) /\ Resolvable(job[c].definition)
    <2> DEFINE new == [job[c] EXCEPT !.at = "resolved"]
    <2>1. new \in Job /\ new.at = "resolved" /\ new.definition = job[c].definition
      BY <1>3, JobShape DEF Resolve, Sound, Job, Place
    <2>2. job' = [job EXCEPT ![c] = new]
      BY <1>3 DEF Resolve, Goto
    <2>3. job' \in [Caller -> {Idle} \cup Job] /\ \A d \in Caller : job'[d] = IF d = c THEN new ELSE job[d]
      BY <2>1, <2>2, OneJob DEF Sound
    <2>4. UNCHANGED <<policies, point, ledger, requests>>
      BY <1>3 DEF Resolve
    <2>5. PointsTrusted' /\ Trusted' = Trusted
      BY <2>4 DEF Sound, PointsTrusted, Trusted, Exists, OnLedger
    <2>6. \A d : Resolvable(d) => Resolvable(d)'
      BY <2>4 DEF Resolvable, OnLedger
    <2>7. Found'
      BY <1>3, <2>1, <2>3, <2>5, <2>6 DEF Sound, Found
    <2> QED
      BY <2>3, <2>4, <2>5, <2>7 DEF Sound, Typed
  <1> QED
    BY <1>1, <1>2, <1>3

(* What the file holds after a registration: all the definitions it held,   *)
(* and the new one; one that had a default still has one.                   *)
LEMMA UpsertKeeps ==
  ASSUME policies \in Seq(Policy), NEW d \in Definition, NEW makeDefault \in BOOLEAN, NEW wasDefault \in BOOLEAN,
         Upsert(d, makeDefault, wasDefault)
  PROVE  /\ policies' \in Seq(Policy)
         /\ Trusted' = Trusted \cup {d}
         /\ HasDefault(policies) => HasDefault(policies')
  <1> DEFINE was == [n \in DOMAIN policies |-> [policies[n] EXCEPT !.isDefault = @ /\ ~makeDefault]]
             IsDefault(n) == n \in DOMAIN was /\ was[n].isDefault
             record(n) == [id |-> d, isDefault |-> StaysDefault(makeDefault, wasDefault, IsDefault(n))]
             replaced == [n \in DOMAIN was |-> IF was[n].id = d THEN record(n) ELSE was[n]]
             appended == Append(was, record(Len(was) + 1))
  <1>1. policies' = IF d \in Trusted THEN replaced ELSE appended
    BY DEF Upsert
  <1>2. DOMAIN policies = 1 .. Len(policies) /\ Len(policies) \in Nat
    OBVIOUS
  <1>3. \A n \in DOMAIN policies : policies[n] \in Policy
    OBVIOUS
  <1>4. \A n \in DOMAIN policies :
          /\ was[n] \in Policy /\ was[n].id = policies[n].id
          /\ was[n].isDefault = (policies[n].isDefault /\ ~makeDefault)
    BY <1>3 DEF Policy
  <1>5. was \in Seq(Policy) /\ Len(was) = Len(policies) /\ DOMAIN was = DOMAIN policies
    <2>1. DOMAIN was = 1 .. Len(policies) /\ was = [n \in 1 .. Len(policies) |-> was[n]]
      BY <1>2
    <2> HIDE DEF was
    <2>2. was \in [1 .. Len(policies) -> Policy]
      BY <1>2, <1>4, <2>1
    <2> QED
      BY <1>2, <2>1, <2>2
  <1>6. \A n : record(n) \in Policy /\ record(n).id = d
               /\ (record(n).isDefault <=> (makeDefault \/ wasDefault \/ IsDefault(n)))
    BY DEF Policy, StaysDefault
  <1> HIDE DEF was, record, IsDefault
  <1>7. CASE d \in Trusted
    <2>1. policies' = replaced
      BY <1>1, <1>7
    <2>2. DOMAIN policies' = DOMAIN policies /\ \A n \in DOMAIN policies :
            policies'[n] = IF policies[n].id = d THEN record(n) ELSE was[n]
      BY <1>4, <1>5, <2>1
    <2>3. policies' \in Seq(Policy)
      BY <1>2, <1>4, <1>5, <1>6, <2>1
    <2>4. \A n \in DOMAIN policies : policies'[n].id = policies[n].id
      BY <1>4, <1>6, <2>2
    <2>5. Trusted' = Trusted
      BY <2>2, <2>4 DEF Trusted
    <2>6. ASSUME HasDefault(policies) PROVE HasDefault(policies')
      <3>1. CASE makeDefault
        <4>1. PICK n \in DOMAIN policies : policies[n].id = d
          BY <1>7 DEF Trusted
        <4> QED
          BY <1>6, <2>2, <3>1, <4>1 DEF HasDefault
      <3>2. CASE ~makeDefault
        <4>1. PICK n \in DOMAIN policies : policies[n].isDefault
          BY <2>6 DEF HasDefault
        <4>2. was[n].isDefault /\ IsDefault(n)
          BY <1>4, <1>5, <3>2, <4>1 DEF IsDefault
        <4> QED
          BY <1>6, <2>2, <4>1, <4>2 DEF HasDefault
      <3> QED
        BY <3>1, <3>2
    <2> QED
      BY <1>7, <2>3, <2>5, <2>6
  <1>8. CASE d \notin Trusted
    <2> DEFINE new == record(Len(was) + 1)
    <2>1. policies' = Append(was, new)
      BY <1>1, <1>8
    <2>2. new \in Policy /\ new.id = d /\ (makeDefault => new.isDefault)
      BY <1>6
    <2> HIDE DEF new
    <2>3. policies' \in Seq(Policy)
      BY <1>5, <2>1, <2>2
    <2>4. /\ DOMAIN policies' = 1 .. Len(policies) + 1 /\ policies'[Len(policies) + 1] = new
          /\ \A n \in DOMAIN policies : n \in DOMAIN policies' /\ policies'[n] = was[n]
      BY <1>2, <1>5, <2>1, <2>2
    <2>5. \A n \in DOMAIN policies' : n \in DOMAIN policies \/ n = Len(policies) + 1
      BY <1>2, <2>4
    <2>6. Len(policies) + 1 \in DOMAIN policies'
      BY <1>2, <2>4
    <2>7. Trusted' = Trusted \cup {d}
      BY <1>4, <2>2, <2>4, <2>5, <2>6 DEF Trusted
    <2>8. ASSUME HasDefault(policies) PROVE HasDefault(policies')
      <3>1. CASE makeDefault
        BY <2>2, <2>4, <2>6, <3>1 DEF HasDefault
      <3>2. CASE ~makeDefault
        BY <1>4, <2>4, <2>8, <3>2 DEF HasDefault
      <3> QED
        BY <3>1, <3>2
    <2> QED
      BY <2>3, <2>7, <2>8
  <1> QED
    BY <1>7, <1>8

(* A saved policy is one that was resolved.                                 *)
LEMMA SoundSave ==
  ASSUME Sound, NEW c \in Caller, Save(c)
  PROVE  Sound' /\ (HasDefault(policies) => HasDefault(policies'))
  <1>1. job[c] \in Job /\ job[c].at = "resolved" /\ Resolvable(job[c].definition)
    BY JobShape DEF Save, Sound, Found
  <1>2. PICK d \in Definition, makeDefault \in BOOLEAN, wasDefault \in BOOLEAN :
          d = job[c].definition /\ makeDefault = job[c].makeDefault /\ wasDefault = job[c].wasDefault
    BY <1>1, SetupAssumption DEF Job, Resolvable
  <1>3. Upsert(d, makeDefault, wasDefault) /\ policies \in Seq(Policy)
    BY <1>2 DEF Save, Sound, Typed
  <1>4. policies' \in Seq(Policy) /\ Trusted' = Trusted \cup {d} /\ (HasDefault(policies) => HasDefault(policies'))
    BY <1>3, UpsertKeeps
  <1>5. \A p \in Point : point'[p] = point[p] \/ point'[p] = [definition |-> d]
    BY <1>3 DEF Upsert, Sound, Typed
  <1>6. point' \in [Point -> {None} \cup [definition : Maybe]]
    <2>1. DOMAIN point' = Point /\ point' = [p \in Point |-> point'[p]]
      BY <1>3 DEF Upsert
    <2>2. [definition |-> d] \in [definition : Maybe]
      BY DEF Maybe
    <2> QED
      BY <1>5, <2>1, <2>2 DEF Sound, Typed
  <1>7. UNCHANGED <<ledger, requests>>
    BY DEF Save
  <1>8. PointsTrusted'
    <2>1. \A x \in Trusted' : x \in Revocable /\ OnLedger(x)'
      BY <1>1, <1>2, <1>4, <1>7 DEF Sound, PointsTrusted, Resolvable, OnLedger
    <2>2. ASSUME NEW p \in Point, Exists(p)' PROVE point'[p].definition \in Trusted' \cup {None}
      <3>1. CASE point'[p] = [definition |-> d]
        BY <1>4, <3>1
      <3>2. CASE point'[p] = point[p]
        BY <1>4, <2>2, <3>2 DEF Sound, PointsTrusted, Exists
      <3> QED
        BY <1>5, <3>1, <3>2
    <2> QED
      BY <2>1, <2>2 DEF PointsTrusted
  <1> DEFINE new == IF job[c].kind = "register" THEN Idle ELSE [job[c] EXCEPT !.at = "asked"]
  <1>9. new \in {Idle} \cup Job /\ new.at \notin {"selected", "resolved"}
    BY <1>1 DEF Job, Place, Idle
  <1>10. job' = [job EXCEPT ![c] = new]
    BY DEF Save, End, Goto
  <1>11. job' \in [Caller -> {Idle} \cup Job] /\ \A e \in Caller : job'[e] = IF e = c THEN new ELSE job[e]
    BY <1>9, <1>10, OneJob DEF Sound
  <1>12. Found'
    <2>1. \A x : Resolvable(x) => Resolvable(x)'
      BY <1>7 DEF Resolvable, OnLedger
    <2> HIDE DEF new
    <2> QED
      BY <1>4, <1>9, <1>11, <2>1 DEF Sound, Found
  <1> QED
    BY <1>4, <1>6, <1>7, <1>8, <1>11, <1>12 DEF Sound, Typed

(* A selection is one of the list.                                          *)
LEMMA SelectionTrusted ==
  ASSUME NEW wanted, Selection(policies, wanted) # None
  PROVE  Selection(policies, wanted) \in Trusted
  BY DEF Selection, Trusted

(* Listing the policies selects a trusted one, or goes to bootstrap them.   *)
LEMMA SoundList ==
  ASSUME Sound, NEW c \in Caller, ListPolicies(c)
  PROVE  Sound'
  <1>1. job[c] \in Job /\ UNCHANGED <<ledger, requests, policies, point>>
    BY JobShape DEF ListPolicies, Sound
  <1>2. CASE End(c)
    BY <1>1, <1>2, EndQuiet
  <1>3. CASE ~End(c) /\ Bootstraps(c)
    <2> DEFINE makeDefault == ~HasDefault(policies)
               definition == Configured[job[c].boot + 1]
               boot == job[c].boot + 1
               new == [job[c] EXCEPT !.at = "bootstrapping", !.boot = boot,
                         !.definition = definition, !.makeDefault = makeDefault]
    <2>1. Configured[job[c].boot + 1] \in Definition
      BY <1>1, <1>3, PolicyAssumption DEF Bootstraps, Job
    <2>2. new \in Job /\ new.at = "bootstrapping"
      <3>1. makeDefault \in BOOLEAN
        BY DEF HasDefault
      <3>2. definition \in Maybe /\ "bootstrapping" \in Place
        BY <2>1 DEF Place, Maybe
      <3>3. boot \in Nat
        BY <1>1 DEF Job
      <3> HIDE DEF makeDefault, boot, definition
      <3> QED
        BY <1>1, <3>1, <3>2, <3>3 DEF Job
    <2>3. job' = [job EXCEPT ![c] = new]
      BY <1>3 DEF ListPolicies
    <2>4. job' \in [Caller -> {Idle} \cup Job] /\ \A d \in Caller : job'[d] = IF d = c THEN new ELSE job[d]
      BY <2>2, <2>3, OneJob DEF Sound
    <2> QED
      BY <1>1, <2>2, <2>4, SoundQuiet DEF Sound, Typed
  <1>4. CASE ~End(c) /\ ~Bootstraps(c)
    <2> DEFINE chosen == Selection(policies, job[c].wanted)
               new == [job[c] EXCEPT !.at = "selected", !.chosen = chosen]
    <2>1. job' = [job EXCEPT ![c] = new] /\ chosen # None
      BY <1>4 DEF ListPolicies
    <2>2. chosen \in Trusted
      BY <2>1, SelectionTrusted
    <2>3. Trusted \subseteq Definition
      BY SetupAssumption DEF Sound, PointsTrusted
    <2> HIDE DEF chosen
    <2>4. new \in Job /\ new.at = "selected" /\ new.chosen = chosen
      BY <1>1, <2>2, <2>3 DEF Job, Place, Maybe
    <2>5. job' \in [Caller -> {Idle} \cup Job] /\ \A d \in Caller : job'[d] = IF d = c THEN new ELSE job[d]
      BY <2>1, <2>4, OneJob DEF Sound
    <2>6. PointsTrusted' /\ Trusted' = Trusted
      BY <1>1 DEF Sound, PointsTrusted, Trusted, Exists, OnLedger
    <2>7. \A d : Resolvable(d) => Resolvable(d)'
      BY <1>1 DEF Resolvable, OnLedger
    <2>8. Found'
      BY <2>2, <2>4, <2>5, <2>6, <2>7 DEF Sound, Found
    <2> QED
      BY <1>1, <2>5, <2>6, <2>8 DEF Sound, Typed
  <1> QED
    BY <1>2, <1>3, <1>4

(* A service point is bound to what was selected, which is still trusted.   *)
LEMMA SoundBind ==
  ASSUME Sound, NEW c \in Caller, Bind(c)
  PROVE  Sound'
  <1>1. job[c] \in Job /\ job[c].chosen \in Trusted
    BY JobShape DEF Bind, Sound, Found
  <1>2. Trusted \subseteq Definition
    BY SetupAssumption DEF Sound, PointsTrusted
  <1>3. UNCHANGED <<ledger, requests, policies>> /\ End(c)
    BY DEF Bind
  <1>4. PICK x \in Trusted : x = job[c].chosen
    BY <1>1
  <1>5. point' = point \/ point' = [point EXCEPT ![job[c].point] = [definition |-> x]]
    BY <1>4 DEF Bind
  <1>6. point' \in [Point -> {None} \cup [definition : Maybe]]
    BY <1>2, <1>5 DEF Sound, Typed, Maybe
  <1>7. \A p \in Point : point'[p] = point[p] \/ point'[p] = [definition |-> x]
    BY <1>5 DEF Sound, Typed
  <1>8. Trusted' = Trusted /\ x \in Trusted
    BY <1>3 DEF Trusted
  <1>9. PointsTrusted'
    <2>1. ASSUME NEW p \in Point, Exists(p)' PROVE point'[p].definition \in Trusted' \cup {None}
      BY <1>7, <1>8, <2>1 DEF Sound, PointsTrusted, Exists
    <2> QED
      BY <1>3, <1>8, <2>1 DEF Sound, PointsTrusted, OnLedger
  <1>10. job' \in [Caller -> {Idle} \cup Job] /\ \A d \in Caller : job'[d] = IF d = c THEN Idle ELSE job[d]
    BY <1>3, OneJob DEF Sound, End
  <1>11. Found'
    BY <1>3, <1>8, <1>10 DEF Sound, Found, Resolvable, OnLedger, Idle
  <1> QED
    BY <1>3, <1>6, <1>9, <1>10, <1>11 DEF Sound, Typed

(* Every step keeps the invariant, and a default.                           *)
LEMMA SoundNext == Sound /\ [Next]_vars => Sound' /\ (HasDefault(policies) => HasDefault(policies'))
  <1> SUFFICES ASSUME Sound, [Next]_vars PROVE Sound' /\ (HasDefault(policies) => HasDefault(policies'))
    OBVIOUS
  <1>1. CASE Crash /\ UNCHANGED <<policies, point>>
    BY <1>1, SoundCrash
  <1>2. ASSUME NEW c \in Caller, SetupStep(c), UNCHANGED <<policies, point>>
        PROVE  Sound' /\ (HasDefault(policies) => HasDefault(policies'))
    BY <1>2, SoundSetup
  <1>3. ASSUME NEW c \in Caller, PolicyStep(c)
        PROVE  Sound' /\ (HasDefault(policies) => HasDefault(policies'))
    <2>1. CASE Save(c)
      BY <2>1, SoundSave
    <2>2. CASE ~Save(c)
      <3>1. Sound'
        BY <1>3, <2>2, SoundResolve, SoundList, SoundBind DEF PolicyStep
      <3>2. UNCHANGED policies
        BY <1>3, <2>2 DEF PolicyStep, FindPolicy, Resolve, ListPolicies, Bind
      <3> QED
        BY <3>1, <3>2
    <2> QED
      BY <2>1, <2>2
  <1>4. ASSUME NEW c \in Caller, NEW r \in Request, Arrive(c, r)
        PROVE  Sound' /\ (HasDefault(policies) => HasDefault(policies'))
    BY <1>4, SoundArrive DEF Arrive
  <1>5. CASE UNCHANGED vars
    <2>1. UNCHANGED <<policies, point, job, requests, ledger>>
      BY <1>5 DEF vars, setupVars
    <2> QED
      BY <2>1, SoundQuiet DEF Sound, Typed
  <1> QED
    BY <1>1, <1>2, <1>3, <1>4, <1>5 DEF Next

(* Every definition a service point asks for is trusted, and every trusted  *)
(* one can be resolved and revoked (selectTrustedCredentialDefinition,      *)
(* policyForServicePoint, registerTrustedCredentialDefinition).             *)
THEOREM ServicePointsTrusted == Spec => []PointsTrusted
  <1>1. Sound => PointsTrusted
    BY DEF Sound
  <1> QED
    BY <1>1, SoundInit, SoundNext, PTL DEF Spec

(* Once there is a default there is always one                              *)
(* (upsertTrustedCredentialDefinition).                                     *)
THEOREM DefaultStays == Spec => DefaultKept
  <1>1. Sound /\ [Next]_vars => [HasDefault(policies) => HasDefault(policies')]_policies
    BY SoundNext
  <1> QED
    BY <1>1, SoundInit, SoundNext, PTL DEF Spec, DefaultKept

-----------------------------------------------------------------------------

(* What a setup in progress has registered so far is on the ledger.         *)
Progress ==
  \A c \in Caller : job[c] # Idle /\ job[c].kind = "setup" =>
    LET d == job[c].definition
    IN /\ job[c].stage \in 1 .. Len(Stages(d))
       /\ \A n \in 1 .. job[c].stage - 1 : [object |-> Stages(d)[n], of |-> d] \in ledger

(* Creations of a DID that did not overlap: only one is in progress, and    *)
(* past its check there is no DID yet.                                      *)
OneCreation ==
  /\ \A c, e \in Caller : Creating(c) /\ Creating(e) => c = e
  /\ \A c \in Caller : Creating(c) /\ job[c].at \in {"registering", "importing"} => dids = {}
  /\ \E x : dids \subseteq {x}

Truthful == Sound /\ Progress /\ SetupTruthful /\ (overlapped \/ OneCreation)

(* A request ends, or goes on without touching a setup or a DID.            *)
Kept(e) ==
  \/ job'[e] = Idle
  \/ /\ job[e] # Idle /\ job'[e].kind = job[e].kind /\ job'[e].stage = job[e].stage
     /\ job'[e].kind = "setup" => job'[e].definition = job[e].definition
     /\ job'[e].at \in {"registering", "importing"} => job'[e].at = job[e].at

(* The stages of a setup, in their order.                                   *)
LEMMA StagesInOrder ==
  ASSUME NEW d
  PROVE  /\ Len(Stages(d)) \in {2, 4} /\ DOMAIN Stages(d) = 1 .. Len(Stages(d))
         /\ Stages(d)[1] = "schema" /\ Stages(d)[2] = "definition"
         /\ \A n \in DOMAIN Stages(d) : Stages(d)[n] \in {"registry", "list"} => n > 2
  <1>1. CASE d \in Revocable
    <2>1. Stages(d) = <<"schema", "definition", "registry", "list">>
      BY <1>1 DEF Stages
    <2> QED
      BY <2>1
  <1>2. CASE d \notin Revocable
    <2>1. Stages(d) = <<"schema", "definition">>
      BY <1>2 DEF Stages
    <2> QED
      BY <2>1
  <1> QED
    BY <1>1, <1>2

(* What is on the ledger stays there, and with it what was reported.        *)
LEMMA TruthStays ==
  ASSUME SetupTruthful, ledger \subseteq ledger', told' = told
  PROVE  SetupTruthful'
  BY DEF SetupTruthful, Complete

(* Steps that concern neither a setup nor a DID.                            *)
LEMMA KeptQuiet ==
  ASSUME Progress, SetupTruthful, overlapped \/ OneCreation,
         \A e \in Caller : Kept(e),
         ledger \subseteq ledger', UNCHANGED <<dids, told, overlapped>>
  PROVE  Progress' /\ SetupTruthful' /\ (overlapped \/ OneCreation)'
  <1>1. Progress'
    BY DEF Progress, Kept
  <1>2. ASSUME OneCreation PROVE OneCreation'
    <2>1. \A c \in Caller : Creating(c)' => Creating(c)
      BY DEF Creating, Kept
    <2>2. \A c \in Caller : Creating(c)' /\ job'[c].at \in {"registering", "importing"} =>
            job'[c].at = job[c].at
      BY DEF Creating, Kept
    <2> QED
      BY <1>2, <2>1, <2>2 DEF OneCreation
  <1> QED
    BY <1>1, <1>2, TruthStays

(* Ends, crashes, selections and registrations are such steps.              *)
LEMMA EndKept ==
  ASSUME Sound, NEW c \in Caller, End(c)
  PROVE  \A e \in Caller : Kept(e)
  <1>1. \A d \in Caller : job'[d] = IF d = c THEN Idle ELSE job[d]
    BY OneJob DEF Sound, End
  <1> QED
    BY <1>1 DEF Kept

(* A request with only its place, or things no setup uses, changed.         *)
LEMMA JobKept ==
  ASSUME Sound, NEW c \in Caller, NEW new \in Job, job[c] # Idle, job' = [job EXCEPT ![c] = new],
         new.kind = job[c].kind, new.stage = job[c].stage,
         new.kind = "setup" => new.definition = job[c].definition,
         new.at \notin {"registering", "importing"}
  PROVE  \A e \in Caller : Kept(e)
  <1>1. \A d \in Caller : job'[d] = IF d = c THEN new ELSE job[d]
    BY OneJob DEF Sound
  <1> QED
    BY <1>1 DEF Kept

(* Policies and service points change beside the setups.                    *)
LEMMA PolicyKept ==
  ASSUME Sound, NEW c \in Caller, PolicyStep(c)
  PROVE  \A e \in Caller : Kept(e)
  <1>1. CASE End(c)
    BY <1>1, EndKept
  <1>2. CASE ~End(c) /\ FindPolicy(c)
    <2> DEFINE was == \E n \in DOMAIN policies : policies[n].id = job[c].definition /\ policies[n].isDefault
               new == [job[c] EXCEPT !.at = "policy found", !.wasDefault = was]
    <2>1. job[c] # Idle /\ job' = [job EXCEPT ![c] = new]
      BY <1>2 DEF FindPolicy, Registering, At
    <2>2. new \in Job /\ new.at = "policy found" /\ new.kind = job[c].kind /\ new.stage = job[c].stage
          /\ new.definition = job[c].definition
      BY <2>1, JobShape DEF Sound, Job, Place
    <2> QED
      BY <2>1, <2>2, JobKept
  <1>3. CASE ~End(c) /\ (Resolve(c) \/ Save(c))
    <2>1. PICK at \in {"resolved", "asked"} : Goto(c, at)
      BY <1>3 DEF Resolve, Save
    <2> DEFINE new == [job[c] EXCEPT !.at = at]
    <2>2. job[c] # Idle /\ job' = [job EXCEPT ![c] = new]
      BY <1>3, <2>1 DEF Resolve, Save, Goto
    <2>3. new \in Job /\ new.at = at /\ new.kind = job[c].kind /\ new.stage = job[c].stage
          /\ new.definition = job[c].definition
      BY <2>2, JobShape DEF Sound, Job, Place
    <2> QED
      BY <2>1, <2>2, <2>3, JobKept
  <1>4. CASE ~End(c) /\ ListPolicies(c)
    <2>1. job[c] \in Job /\ job[c].kind # "setup" /\ Sound'
      BY <1>4, JobShape, SoundList DEF ListPolicies, Sound
    <2>2. job'[c] \in {Idle} \cup Job /\ \A e \in Caller : e # c => job'[e] = job[e]
      BY <1>4, <2>1 DEF ListPolicies, Sound, Typed
    <2>3. job'[c].kind = job[c].kind /\ job'[c].stage = job[c].stage
          /\ job'[c].at \in {"bootstrapping", "selected"}
      BY <1>4, <2>1 DEF ListPolicies, Sound, Typed, Job
    <2> QED
      BY <1>4, <2>1, <2>2, <2>3 DEF Kept, ListPolicies
  <1>5. ~End(c) => ~Bind(c)
    BY DEF Bind
  <1> QED
    BY <1>1, <1>2, <1>3, <1>4, <1>5 DEF PolicyStep

-----------------------------------------------------------------------------

(* A setup goes on to its next object, or tells how it ended.               *)
LEMMA TruthfulRegister ==
  ASSUME Truthful, NEW c \in Caller, NEW state \in RegistrationState, Register(c, state)
  PROVE  Progress' /\ SetupTruthful' /\ (overlapped \/ OneCreation)'
  <1> DEFINE d == job[c].definition
             stage == Stages(d)[job[c].stage]
             here == [object |-> stage, of |-> d]
  <1>1. job[c] # Idle /\ job[c].kind = "setup" /\ job[c].at = "asked" /\ job[c] \in Job
    BY JobShape DEF Register, At, Truthful, Sound
  <1>2. ledger \subseteq ledger' /\ (Finished(state) => here \in ledger')
    BY DEF Register, Finished, RegistrationState
  <1>3. /\ job[c].stage \in 1 .. Len(Stages(d))
        /\ \A n \in 1 .. job[c].stage - 1 : [object |-> Stages(d)[n], of |-> d] \in ledger
    BY <1>1 DEF Truthful, Progress
  <1>4. Len(Stages(d)) \in {2, 4} /\ DOMAIN Stages(d) = 1 .. Len(Stages(d))
        /\ Stages(d)[1] = "schema" /\ Stages(d)[2] = "definition"
        /\ \A n \in DOMAIN Stages(d) : Stages(d)[n] \in {"registry", "list"} => n > 2
    BY StagesInOrder
  <1>5. UNCHANGED <<dids, overlapped>>
    BY DEF Register
  <1>6. CASE Finished(state) /\ job[c].stage < Len(Stages(d))
    <2> DEFINE new == [job[c] EXCEPT !.stage = @ + 1]
    <2>1. job' = [job EXCEPT ![c] = new] /\ told' = told
      BY <1>6 DEF Register
    <2>2. new \in Job /\ new.stage = job[c].stage + 1 /\ new.definition = d /\ new.kind = "setup" /\ new.at = "asked"
      BY <1>1 DEF Job
    <2>3. \A e \in Caller : job'[e] = IF e = c THEN new ELSE job[e]
      BY <2>1, <2>2, OneJob DEF Truthful, Sound
    <2>4. new.stage \in 1 .. Len(Stages(d))
      BY <1>3, <1>4, <1>6, <2>2
    <2>5. \A n \in 1 .. new.stage - 1 : [object |-> Stages(d)[n], of |-> d] \in ledger'
      <3> SUFFICES ASSUME NEW n \in 1 .. new.stage - 1 PROVE [object |-> Stages(d)[n], of |-> d] \in ledger'
        OBVIOUS
      <3>1. n = job[c].stage \/ n \in 1 .. job[c].stage - 1
        BY <1>3, <1>4, <2>2
      <3> QED
        BY <1>2, <1>3, <1>6, <3>1
    <2> HIDE DEF new
    <2>6. Progress'
      <3> SUFFICES ASSUME NEW e \in Caller, job'[e] # Idle, job'[e].kind = "setup"
                   PROVE  /\ job'[e].stage \in 1 .. Len(Stages(job'[e].definition))
                          /\ \A n \in 1 .. job'[e].stage - 1 :
                               [object |-> Stages(job'[e].definition)[n], of |-> job'[e].definition] \in ledger'
        BY DEF Progress, Stages
      <3>1. CASE e = c
        BY <2>2, <2>3, <2>4, <2>5, <3>1
      <3>2. CASE e # c
        BY <1>2, <2>3, <3>2 DEF Truthful, Progress
      <3> QED
        BY <3>1, <3>2
    <2>7. \A e \in Caller : Creating(e)' => Creating(e) /\ job'[e].at = job[e].at
      BY <2>2, <2>3 DEF Creating
    <2>8. OneCreation => OneCreation'
      BY <1>5, <2>7 DEF OneCreation
    <2> QED
      BY <1>2, <1>5, <2>1, <2>6, <2>8, TruthStays DEF Truthful
  <1>7. CASE ~(Finished(state) /\ job[c].stage < Len(Stages(d)))
    <2> DEFINE outcome == IF Finished(state) THEN "complete" ELSE Outcome(stage)
    <2>1. End(c) /\ told' = told \cup {[definition |-> d, outcome |-> outcome]}
      BY <1>7 DEF Register
    <2>2. ASSUME outcome = "complete" PROVE Complete(d) \subseteq ledger'
      <3>1. Finished(state) /\ job[c].stage = Len(Stages(d))
        <4>1. Outcome(stage) # "complete"
          BY DEF Outcome
        <4> QED
          BY <1>3, <1>4, <1>7, <2>2, <4>1
      <3>2. \A n \in DOMAIN Stages(d) : [object |-> Stages(d)[n], of |-> d] \in ledger'
        <4> SUFFICES ASSUME NEW n \in DOMAIN Stages(d) PROVE [object |-> Stages(d)[n], of |-> d] \in ledger'
          OBVIOUS
        <4>1. n = job[c].stage \/ n \in 1 .. job[c].stage - 1
          BY <1>4, <3>1
        <4> QED
          BY <1>2, <1>3, <3>1, <4>1
      <3> QED
        BY <3>2 DEF Complete
    <2>3. ASSUME outcome = "partial"
          PROVE  {[object |-> s, of |-> d] : s \in {"schema", "definition"}} \subseteq ledger'
      <3>1. stage \in {"registry", "list"}
        BY <2>3 DEF Outcome
      <3>2. job[c].stage > 2
        BY <1>3, <1>4, <3>1
      <3>3. 1 \in 1 .. job[c].stage - 1 /\ 2 \in 1 .. job[c].stage - 1
        BY <1>3, <1>4, <3>2
      <3> QED
        BY <1>2, <1>3, <1>4, <3>3
    <2>4. SetupTruthful'
      <3> SUFFICES ASSUME NEW t \in told'
                   PROVE  /\ t.outcome = "complete" => Complete(t.definition) \subseteq ledger'
                          /\ t.outcome = "partial" =>
                               {[object |-> s, of |-> t.definition] : s \in {"schema", "definition"}} \subseteq ledger'
        BY DEF SetupTruthful, Complete, Stages
      <3>1. CASE t \in told
        BY <1>2, <3>1 DEF Truthful, SetupTruthful
      <3>2. CASE t = [definition |-> d, outcome |-> outcome]
        BY <2>2, <2>3, <3>2
      <3> QED
        BY <2>1, <3>1, <3>2
    <2>5. \A e \in Caller : job'[e] = IF e = c THEN Idle ELSE job[e]
      BY <2>1, OneJob DEF End, Truthful, Sound
    <2>6. Progress'
      BY <1>2, <2>5 DEF Truthful, Progress, Stages
    <2>7. \A e \in Caller : Creating(e)' => Creating(e) /\ job'[e].at = job[e].at
      BY <2>5 DEF Creating
    <2>8. OneCreation => OneCreation'
      BY <1>5, <2>7 DEF OneCreation
    <2> QED
      BY <1>5, <2>4, <2>6, <2>8 DEF Truthful
  <1> QED
    BY <1>6, <1>7

(* The creation of a DID: nothing is there past the check, so the import    *)
(* is the first, if no other creation runs.                                 *)
LEMMA TruthfulDid ==
  ASSUME Truthful, NEW c \in Caller, LookForDid(c) \/ RegisterDid(c) \/ ImportDid(c)
  PROVE  Progress' /\ SetupTruthful' /\ (overlapped \/ OneCreation)'
  <1>1. job[c] # Idle /\ job[c].kind = "did" /\ Creating(c) /\ UNCHANGED <<ledger, overlapped, told>>
        /\ job[c] \in Job
    BY JobShape DEF LookForDid, RegisterDid, ImportDid, At, Creating, Truthful, Sound
  <1>2. CASE End(c) /\ UNCHANGED dids
    BY <1>1, <1>2, EndKept, KeptQuiet DEF Truthful
  <1>3. CASE ImportDid(c)
    <2>1. \A e \in Caller : job'[e] = IF e = c THEN Idle ELSE job[e]
      BY <1>3, OneJob DEF ImportDid, End, Truthful, Sound
    <2>2. Progress'
      BY <1>1, <2>1 DEF Truthful, Progress, Stages
    <2>3. ASSUME OneCreation PROVE OneCreation'
      <3>1. dids = {}
        BY <1>1, <1>3, <2>3 DEF OneCreation, ImportDid, At
      <3>2. dids' \subseteq {job[c].number}
        BY <1>3, <3>1 DEF ImportDid
      <3>3. \A e \in Caller : ~Creating(e)'
        BY <1>1, <2>1, <2>3 DEF OneCreation, Creating
      <3> QED
        BY <3>2, <3>3 DEF OneCreation
    <2> QED
      BY <1>1, <2>2, <2>3, TruthStays DEF Truthful
  <1>4. ASSUME NEW at \in {"registering", "importing"}, Goto(c, at), UNCHANGED dids,
               OneCreation => dids = {}
        PROVE  Progress' /\ SetupTruthful' /\ (overlapped \/ OneCreation)'
    <2> DEFINE new == [job[c] EXCEPT !.at = at]
    <2>1. new \in Job /\ new.kind = "did" /\ new # Idle
      <3>1. new \in Job /\ new.kind = "did" /\ new.at = at
        BY <1>1 DEF Job, Place
      <3> QED
        BY <3>1 DEF Idle
    <2>2. \A e \in Caller : job'[e] = IF e = c THEN new ELSE job[e]
      BY <1>4, <2>1, OneJob DEF Goto, Truthful, Sound
    <2> HIDE DEF new
    <2>3. Progress'
      BY <1>1, <2>1, <2>2 DEF Truthful, Progress, Stages
    <2>4. \A e \in Caller : Creating(e)' => Creating(e)
      BY <1>1, <2>2 DEF Creating
    <2>5. OneCreation => OneCreation'
      BY <1>4, <2>4 DEF OneCreation
    <2> QED
      BY <1>1, <2>3, <2>5, TruthStays DEF Truthful
  <1>5. CASE LookForDid(c) /\ Goto(c, "registering")
    <2>1. CASE dids = {}
      BY <1>4, <1>5, <2>1 DEF LookForDid
    <2>2. CASE dids # {}
      BY <1>2, <1>5, <2>2 DEF LookForDid, DidThere
    <2> QED
      BY <2>1, <2>2
  <1>6. CASE RegisterDid(c)
    <2>1. OneCreation => dids = {}
      BY <1>1, <1>6 DEF OneCreation, RegisterDid, At
    <2> QED
      BY <1>4, <1>6, <2>1 DEF RegisterDid
  <1> QED
    BY <1>2, <1>3, <1>5, <1>6 DEF LookForDid

(* A request begins; a creation beside another one is recorded.             *)
LEMMA TruthfulArrive ==
  ASSUME Truthful, NEW c \in Caller, NEW r \in Request, Arrive(c, r)
  PROVE  Progress' /\ SetupTruthful' /\ (overlapped \/ OneCreation)'
  <1> DEFINE wanted == IF r.kind = "use" THEN point[r.point].definition ELSE r.definition
             new == [at |-> "asked", number |-> requests, kind |-> r.kind, point |-> r.point,
                     definition |-> r.definition, makeDefault |-> r.makeDefault, stage |-> 1,
                     wanted |-> wanted, chosen |-> wanted, boot |-> 0, wasDefault |-> FALSE]
  <1>1. job[c] = Idle /\ job' = [job EXCEPT ![c] = new] /\ UNCHANGED <<ledger, dids, told>>
        /\ overlapped' = (overlapped \/ (r.kind = "did" /\ \E e \in Caller : Creating(e)))
    BY DEF Arrive, Ask
  <1>2. new.stage = 1 /\ new.at = "asked" /\ new.kind = r.kind
    OBVIOUS
  <1> HIDE DEF new
  <1>3. \A e \in Caller : job'[e] = IF e = c THEN new ELSE job[e]
    BY <1>1 DEF Truthful, Sound, Typed
  <1>4. Progress'
    <2> SUFFICES ASSUME NEW e \in Caller, job'[e] # Idle, job'[e].kind = "setup"
                 PROVE  /\ job'[e].stage \in 1 .. Len(Stages(job'[e].definition))
                        /\ \A n \in 1 .. job'[e].stage - 1 :
                             [object |-> Stages(job'[e].definition)[n], of |-> job'[e].definition] \in ledger'
      BY DEF Progress, Stages
    <2>1. CASE e = c
      <3>1. job'[e].stage = 1 /\ Len(Stages(job'[e].definition)) \in {2, 4}
        BY <1>2, <1>3, <2>1, StagesInOrder
      <3> QED
        BY <3>1
    <2>2. CASE e # c
      BY <1>1, <1>3, <2>2 DEF Truthful, Progress
    <2> QED
      BY <2>1, <2>2
  <1>5. ASSUME OneCreation, ~overlapped' PROVE OneCreation'
    <2>1. \A e \in Caller \ {c} : Creating(e)' = Creating(e)
      BY <1>3 DEF Creating
    <2>2. Creating(c)' => \A e \in Caller : ~Creating(e)
      BY <1>1, <1>2, <1>3, <1>5 DEF Creating
    <2>3. \A e \in Caller : Creating(e)' /\ job'[e].at \in {"registering", "importing"} => Creating(e) /\ job'[e] = job[e]
      BY <1>2, <1>3, <2>1
    <2> QED
      BY <1>1, <1>5, <2>1, <2>2, <2>3 DEF OneCreation
  <1> QED
    BY <1>1, <1>4, <1>5, TruthStays DEF Truthful

(* At first only the prepared definitions are on the ledger.                *)
LEMMA TruthfulInit == Init => Truthful
  <1> SUFFICES ASSUME Init PROVE Truthful
    OBVIOUS
  <1>1. \A c \in Caller : job[c] = Idle
    BY DEF Init, SetupInit
  <1>2. dids = {} /\ told = {}
    BY DEF Init, SetupInit
  <1>3. Progress
    BY <1>1 DEF Progress
  <1>4. OneCreation
    BY <1>1, <1>2 DEF OneCreation, Creating
  <1>5. SetupTruthful
    BY <1>2 DEF SetupTruthful
  <1> QED
    BY <1>3, <1>4, <1>5, SoundInit DEF Truthful

(* Every step keeps the invariant.                                          *)
LEMMA TruthfulNext == Truthful /\ [Next]_vars => Truthful'
  <1> SUFFICES ASSUME Truthful, [Next]_vars PROVE Truthful'
    OBVIOUS
  <1>1. Sound'
    BY SoundNext DEF Truthful
  <1> SUFFICES Progress' /\ SetupTruthful' /\ (overlapped \/ OneCreation)'
    BY <1>1 DEF Truthful
  <1>2. CASE Crash
    <2>1. \A e \in Caller : Kept(e)
      BY <1>2 DEF Crash, Kept
    <2> QED
      BY <1>2, <2>1, KeptQuiet DEF Crash, Truthful
  <1>3. ASSUME NEW c \in Caller, SetupStep(c)
        PROVE  Progress' /\ SetupTruthful' /\ (overlapped \/ OneCreation)'
    <2>1. CASE Fail(c)
      BY <2>1, EndKept, KeptQuiet DEF Fail, Truthful
    <2> QED
      BY <1>3, <2>1, TruthfulRegister, TruthfulDid DEF SetupStep
  <1>4. ASSUME NEW c \in Caller, PolicyStep(c)
        PROVE  Progress' /\ SetupTruthful' /\ (overlapped \/ OneCreation)'
    <2>1. UNCHANGED <<ledger, dids, told, overlapped>>
      BY <1>4 DEF PolicyStep, FindPolicy, Resolve, Save, ListPolicies, Bind
    <2> QED
      BY <1>4, <2>1, PolicyKept, KeptQuiet DEF Truthful
  <1>5. ASSUME NEW c \in Caller, NEW r \in Request, Arrive(c, r)
        PROVE  Progress' /\ SetupTruthful' /\ (overlapped \/ OneCreation)'
    BY <1>5, TruthfulArrive
  <1>6. CASE UNCHANGED vars
    <2>1. UNCHANGED <<job, ledger, dids, told, overlapped>>
      BY <1>6 DEF vars, setupVars
    <2>2. \A e \in Caller : Kept(e)
      BY <2>1 DEF Kept
    <2> QED
      BY <2>1, <2>2, KeptQuiet DEF Truthful
  <1> QED
    BY <1>2, <1>3, <1>4, <1>5, <1>6 DEF Next

(* Whoever is told that a setup is complete can issue and revoke with it,   *)
(* and the identifiers in the error of a partial setup exist (setup,        *)
(* assertFinished).                                                         *)
THEOREM SetupsTruthful == Spec => []SetupTruthful
  <1>1. Truthful => SetupTruthful
    BY DEF Truthful
  <1> QED
    BY <1>1, TruthfulInit, TruthfulNext, PTL DEF Spec

(* Failed, repeated and interrupted creations leave at most one issuer DID, *)
(* unless two of them overlapped (getIssuerDid, the import).                *)
THEOREM OneIssuerDid == Spec => []DidsOnce
  <1>1. ASSUME Truthful PROVE DidsOnce
    <2>1. CASE overlapped
      BY <2>1 DEF DidsOnce
    <2>2. CASE OneCreation
      <3>1. PICK x : dids \subseteq {x}
        BY <2>2 DEF OneCreation
      <3>2. dids = {} \/ dids = {x}
        BY <3>1
      <3>3. Cardinality({}) = 0 /\ Cardinality({x}) = 1
        BY FS_EmptySet, FS_Singleton
      <3> QED
        BY <3>2, <3>3 DEF DidsOnce
    <2> QED
      BY <1>1, <2>1, <2>2 DEF Truthful
  <1> QED
    BY <1>1, TruthfulInit, TruthfulNext, PTL DEF Spec
=============================================================================
