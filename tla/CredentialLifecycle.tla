------------------------- MODULE CredentialLifecycle -------------------------
(***************************************************************************)
(* Suspending, reactivating and revoking issued credentials: every call    *)
(* waits for its turn, reads the saved record, updates the public status   *)
(* list, saves the new record and tells the portal.  The ledger, the file  *)
(* and the portal share no transaction, so a call may fail between any two *)
(* of them.  Translated from services/revocationService.ts and             *)
(* services/credentialLifecycleStore.ts.                                   *)
(*                                                                         *)
(* A step is what happens between two awaits.  A ledger timestamp is the   *)
(* number of updates the credential's index has had; an event identifier   *)
(* is the number of the random identifiers drawn for the credential.  Left *)
(* out: reasons and dates, and other credentials' indexes in the same      *)
(* registry.                                                               *)
(***************************************************************************)
EXTENDS Integers, Sequences, FiniteSets

CONSTANTS
  Credential,   \* credential exchange identifiers
  Revocable,    \* the credentials whose Credo record has revocation metadata
  Historic,     \* the credentials an older version may have saved a record for
  Caller,       \* slots for calls in progress
  Expected,     \* the revisions callers may expect
  MaxRevision,  \* bound: no call is accepted that might exceed this revision
  MaxTroubles   \* bound: how many calls fail and how often the process crashes, in all

ASSUME CredentialsAssumption == Historic \subseteq Credential /\ Revocable \subseteq Credential
ASSUME ExpectedAssumption == Expected \subseteq Nat
ASSUME BoundsAssumption == MaxRevision \in Nat /\ MaxTroubles \in Nat

VARIABLES
  record,   \* the lifecycle file
  list,     \* each credential's entry in the public status list
  drawn,    \* how many event identifiers have been drawn
  call,     \* what each caller's request is doing
  queue,    \* the calls that have been accepted, the running one first
  told,     \* the records the portal has received, in answers or webhooks
  troubles  \* failed calls and crashes so far

vars == <<record, list, drawn, call, queue, told, troubles>>

Status == {"ACTIVE", "SUSPENDED", "REVOKED"}
Operation == {"get", "suspend", "reactivate", "revoke"}
AnyRevision == -1          \* no expected revision
Unversioned == -1  \* the revision of a record saved by an older version
BaselineEvent == 0

(* `reactivated` says that reactivatedAt is set, listedAt is the            *)
(* statusListTimestamp (0 when absent).                                     *)
LifecycleRecord ==
  [status : Status \cup {"none"}, previous : Status \cup {"none"}, revision : Nat \cup {Unversioned},
   event : Nat, reactivated : BOOLEAN, listedAt : Nat]
NoRecord ==
  [status |-> "none", previous |-> "none", revision |-> 0, event |-> BaselineEvent,
   reactivated |-> FALSE, listedAt |-> 0]
Baseline == [NoRecord EXCEPT !.status = "ACTIVE"]

(* A credential without a record is active. *)
StatusOf(saved) == IF saved.status = "none" THEN "ACTIVE" ELSE saved.status

(* What older versions saved: no revision and no event identity. *)
Historical(status, reactivated) ==
  [NoRecord EXCEPT !.status = status, !.reactivated = reactivated, !.revision = Unversioned,
                   !.listedAt = IF status = "ACTIVE" /\ ~reactivated THEN 0 ELSE 1]

(* readAll: a record of an older version becomes revision zero. *)
NotMigrated(saved) == saved
Migrated(saved) ==
  IF saved.revision = Unversioned THEN [saved EXCEPT !.revision = 0, !.event = BaselineEvent] ELSE saved

Step == {"idle", "waiting", "publish", "save", "answer"}
CallRecord ==
  [pc : Step, op : Operation, credential : Credential \cup {"none"}, expected : Nat \cup {AnyRevision},
   seen : LifecycleRecord, listedAt : Nat]
Idle ==
  [pc |-> "idle", op |-> "get", credential |-> "none", expected |-> AnyRevision,
   seen |-> NoRecord, listedAt |-> 0]

Init ==
  /\ record \in [Credential -> {NoRecord} \cup {Historical(s, r) : s \in Status, r \in BOOLEAN}]
  /\ \A c \in Credential \ Historic : record[c] = NoRecord
  /\ list = [c \in Credential |-> [revoked |-> record[c].status \in {"SUSPENDED", "REVOKED"},
                                   version |-> record[c].listedAt]]
  /\ drawn = [c \in Credential |-> BaselineEvent]
  /\ call = [k \in Caller |-> Idle]
  /\ queue = <<>> /\ told = {} /\ troubles = 0

At(k, step) == call[k].pc = step
Told(c, saved) == told' \in {told, told \cup {[credential |-> c, record |-> saved]}}

-----------------------------------------------------------------------------
(* withLock: a call runs when the calls before it have ended, and its end,  *)
(* good or bad, lets the next one run.                                      *)
Request(k, op, c, expected) ==
  /\ At(k, "idle")
  /\ op = "get" => expected = AnyRevision
  /\ op # "get" => record[c].revision + Cardinality({x \in Caller : ~At(x, "idle")}) < MaxRevision
  /\ call' = [call EXCEPT ![k] = [Idle EXCEPT !.pc = "waiting", !.op = op, !.credential = c,
                                              !.expected = expected]]
  /\ queue' = Append(queue, k)
  /\ UNCHANGED <<record, list, drawn, told, troubles>>

AnyTurn(k) == TRUE
MyTurn(k) == queue # <<>> /\ Head(queue) = k

Finish(k) ==
  /\ call' = [call EXCEPT ![k] = Idle]
  /\ queue' = Tail(queue)

StayQueued(k) == call' = [call EXCEPT ![k] = Idle] /\ UNCHANGED queue
Fail(k) == Finish(k)

(* The call's credential cannot be managed, or it changed since the portal  *)
(* scheduled the call.                                                      *)
Missing(k, saved) == saved = NoRecord /\ call[k].credential \notin Revocable
Conflicts(k, saved) == call[k].expected # AnyRevision /\ call[k].expected # saved.revision

(* lifecycleSnapshot and idempotentResult: the saved record is the answer.  *)
Completed(op, saved) ==
  \/ op = "get" /\ saved # NoRecord
  \/ op = "suspend" /\ saved.status = "SUSPENDED"
  \/ op = "revoke" /\ saved.status = "REVOKED"
  \/ op = "reactivate" /\ saved.status = "ACTIVE" /\ saved.reactivated

(* assertTransition. *)
OnlyReactivationChecked(op, saved) == op = "reactivate" => saved.status = "SUSPENDED"
Permitted(op, saved) ==
  /\ op # "get" => StatusOf(saved) # "REVOKED"
  /\ op = "reactivate" => saved.status = "SUSPENDED"

(* The index of a suspended credential is revoked already. *)
NothingToPublish(op, saved) == saved.status = "SUSPENDED" \/ op = "get"
AlreadyListed(op, saved) == (op = "revoke" /\ saved.status = "SUSPENDED") \/ op = "get"

(* The file and, for a new credential, its Credo record are read; what      *)
(* follows up to the ledger update runs without waiting.                    *)
Lookup(k) ==
  LET c == call[k].credential  op == call[k].op  saved == Migrated(record[c]) IN
  /\ At(k, "waiting") /\ MyTurn(k)
  /\ record' = [x \in Credential |-> Migrated(record[x])]
  /\ IF Missing(k, saved) \/ Conflicts(k, saved) \/ ~(Completed(op, saved) \/ Permitted(op, saved))
       THEN Fail(k) /\ UNCHANGED told
     ELSE IF Completed(op, saved)
       THEN Finish(k) /\ Told(c, saved)
     ELSE /\ call' = [call EXCEPT ![k].pc = IF AlreadyListed(op, saved) THEN "save" ELSE "publish",
                                  ![k].seen = saved, ![k].listedAt = saved.listedAt]
          /\ UNCHANGED <<queue, told>>
  /\ UNCHANGED <<list, drawn, troubles>>

(* publishStatusListUpdate: reactivation marks the index issued again.      *)
Listed(k) ==
  list' = [list EXCEPT ![call[k].credential] = [revoked |-> call[k].op # "reactivate", version |-> @.version + 1]]

Publish(k) ==
  /\ At(k, "publish") /\ MyTurn(k)
  /\ Listed(k)
  /\ call' = [call EXCEPT ![k].pc = "save", ![k].listedAt = list[call[k].credential].version + 1]
  /\ UNCHANGED <<record, drawn, queue, told, troubles>>

Target(op) == CASE op = "suspend" -> "SUSPENDED" [] op = "revoke" -> "REVOKED" [] OTHER -> "ACTIVE"

SameRevision(op, seen, listedAt, event) ==
  [status |-> Target(op), previous |-> StatusOf(seen), revision |-> seen.revision, event |-> event,
   reactivated |-> seen.reactivated \/ op = "reactivate", listedAt |-> listedAt]
Changed(op, seen, listedAt, event) ==
  [status |-> Target(op), previous |-> StatusOf(seen), revision |-> seen.revision + 1, event |-> event,
   reactivated |-> seen.reactivated \/ op = "reactivate", listedAt |-> listedAt]

Save(k) ==
  LET c == call[k].credential  op == call[k].op
      next == IF op = "get" THEN Baseline ELSE Changed(op, call[k].seen, call[k].listedAt, drawn[c] + 1)
  IN
  /\ At(k, "save") /\ MyTurn(k)
  /\ record' = [record EXCEPT ![c] = next]
  /\ drawn' = IF op = "get" THEN drawn ELSE [drawn EXCEPT ![c] = @ + 1]
  /\ call' = [call EXCEPT ![k].pc = "answer", ![k].seen = next]
  /\ UNCHANGED <<list, queue, told, troubles>>

(* The webhook, one attempt, and the answer; either may get lost. *)
Answer(k) ==
  /\ At(k, "answer") /\ MyTurn(k)
  /\ Finish(k) /\ Told(call[k].credential, call[k].seen)
  /\ UNCHANGED <<record, list, drawn, troubles>>

-----------------------------------------------------------------------------
(* A ledger call that fails may have reached the ledger: it may finish      *)
(* without a timestamp, or its answer may get lost.                         *)
LedgerReached(k) == At(k, "publish") /\ Listed(k)

CallFails(k) ==
  /\ At(k, "waiting") \/ At(k, "publish") \/ At(k, "save")
  /\ MyTurn(k) /\ troubles < MaxTroubles /\ troubles' = troubles + 1
  /\ LedgerReached(k) \/ UNCHANGED list
  /\ Fail(k)
  /\ UNCHANGED <<record, drawn, told>>

(* The process stops and is started again: the calls and their queue are    *)
(* gone.                                                                    *)
Crash ==
  /\ troubles < MaxTroubles /\ troubles' = troubles + 1
  /\ (\E k \in Caller : LedgerReached(k)) \/ UNCHANGED list
  /\ call' = [k \in Caller |-> Idle] /\ queue' = <<>>
  /\ UNCHANGED <<record, drawn, told>>

CallStep(k) == Lookup(k) \/ Publish(k) \/ Save(k) \/ Answer(k)

Next ==
  \/ \E k \in Caller :
       \/ \E op \in Operation, c \in Credential, e \in Expected \cup {AnyRevision} : Request(k, op, c, e)
       \/ CallStep(k)
       \/ CallFails(k)
  \/ Crash

Spec == Init /\ [][Next]_vars

(* Credo, the ledger and the portal's endpoint answer in the end, or fail.  *)
FairSpec == Spec /\ \A k \in Caller : WF_vars(CallStep(k))

-----------------------------------------------------------------------------
(* Every variable keeps its type; the portal sees versioned records only.   *)
TypeOK ==
  /\ record \in [Credential -> LifecycleRecord]
  /\ list \in [Credential -> [revoked : BOOLEAN, version : Nat]]
  /\ drawn \in [Credential -> Nat]
  /\ call \in [Caller -> CallRecord]
  /\ \A k \in Caller : /\ ~At(k, "idle") => call[k].credential \in Credential
                       /\ call[k].seen.revision \in Nat
  /\ queue \in Seq(Caller)
  /\ told \subseteq [credential : Credential, record : {r \in LifecycleRecord : r.revision \in Nat}]
  /\ troubles \in Nat

(* changeLifecycle orders ledger, file and webhook: a saved record that     *)
(* knows of the last update of its index agrees with the public list, and   *)
(* as long as no call has failed every record between two calls does know.  *)
ListMatches ==
  \A c \in Credential :
    LET current == record[c].listedAt = list[c].version IN
    /\ current => (list[c].revoked <=> StatusOf(record[c]) # "ACTIVE")
    /\ troubles = 0 /\ (\A k \in Caller : ~At(k, "save")) => current

(* "Returning the same revision and event ID lets the portal recognize a    *)
(* retry": whatever answers and webhooks got through, before or after       *)
(* failed calls and restarts, one revision of a credential is one event     *)
(* and one status, and each change is told as following the one before.     *)
ToldConsistently ==
  \A m, n \in told : m.credential = n.credential =>
    /\ m.record.revision = n.record.revision => m = n
    /\ m.record.revision = n.record.revision + 1 => m.record.previous = n.record.status

(* docs/r03-r05-contracts.md, "a stale revision returns 409 before a ledger *)
(* operation": a call that expects a revision changes ledger and file only  *)
(* while the record still is at that revision.                              *)
ExpectationKept ==
  [][\A k \in Caller :
       LET c == call[k].credential IN
       call'[k] # call[k] /\ call[k].pc \in {"publish", "save"} /\ call[k].expected # AnyRevision
         => record[c].revision = call[k].expected]_vars

(* "A failed request must not leave the queue rejected and block later      *)
(* requests": every call ends.                                              *)
EveryCallEnds == \A k \in Caller : ~At(k, "idle") ~> At(k, "idle")

(* The lifecycle as the portal sees it. *)
Current(saved) ==
  [status |-> StatusOf(saved), previous |-> saved.previous, revision |-> Migrated(saved).revision]
Contract ==
  INSTANCE LifecycleContract WITH
    current <- [c \in Credential |-> Current(record[c])],
    told <- {[credential |-> m.credential, state |-> Current(m.record)] : m \in told}
ImplementsContract == Contract!Spec

-----------------------------------------------------------------------------
(* changeLifecycle: "Suspension already marks the index as revoked", so     *)
(* revoking a suspended credential publishes nothing.                       *)
RevokedIsListed ==
  \A c \in Credential : record[c].status = "REVOKED" => list[c].revoked
=============================================================================
