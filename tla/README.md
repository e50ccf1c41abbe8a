# A TLA+ model of the UNIFY agent service

The agent service issues AnonCreds student credentials and verifies them for
vendors. This directory holds TLA+ modules translated from its source, the TLC
configurations that check them and TLAPS proofs about them. File names below
are relative to `src/src/` of the repository.

## The system

One Node.js process. Handlers run concurrently but only interleave at `await`;
state lives in memory (queues, rate limits), in small JSON files, each behind a
queue of operations (`withLock`) and replaced by a rename, in Credo's own
database (proof, credential and out-of-band records) and on the ledger. There
is no transaction over two of these.

| Component | State | Operations | Interacts with |
| --- | --- | --- | --- |
| Verification sessions (`services/verificationService.ts`) | creation queue | start a scan, create/claim a checkout, poll, clean up | store, Credo, wallets, portal |
| Verification store (`services/verificationStore.ts`) | service points, suspensions, trusted definitions, sessions | queued read-modify-write of one file | verification service |
| Decision rules (`services/verificationDecision.ts`, `credentialValidity.ts`) | none | evidence + policy + clock -> decision | called by every synchronisation |
| Proof events (`events/proofEvents.ts`) | none | Credo event -> synchronise -> webhook | sessions, portal |
| Cleanup timer (`services/verificationCleanup.ts`) | timer | start a run every minute | sessions |
| Service points, suspension, trust policies | in the store | register, enable, suspend, select the policy | sessions |
| Rate limiter (`services/verificationRateLimiter.ts`) | two maps of timestamps | check and record | start of a scan |
| Credential lifecycle (`services/revocationService.ts`, `credentialLifecycleStore.ts`) | lifecycle file, call queue | read, suspend, reactivate, revoke | ledger, portal |
| Revocation indexes (`services/revocationIndexStore.ts`) | next index per registry | reserve a range | batch issuance |
| Batch issuance (`services/credentialService.ts`, `batchConcurrency.ts`) | none | create offers with bounded concurrency | Credo, indexes |
| Activation links (`services/activationLinkService.ts`, `activationStore.ts`) | issued links, idempotency keys | issue, replay, redeem | offers, wallets |
| Issuer DID and issuance setup (`services/didService.ts`, `issuanceSetupService.ts`, `schemaService.ts`) | Credo's records, ledger | create once, reuse | ledger |
| Routes, middleware, configuration, agent wiring, status, other events | none of their own | parse, authenticate, format, forward | everything |

What is hard here: requests, events and overlapping cleanup runs act on stale
snapshots of one session; a claim spans four awaits; Credo and the file can
disagree after a failure; deadlines race answers; the ledger, the lifecycle
file and the portal are updated one after the other; webhooks are sent once and
may get lost; the process may stop anywhere. `PROJECT.json` lists these
hazards at their lines.

Correctness, per component:

- decisions: approval exactly for verified, trusted, complete, currently valid
  evidence; a failed revocation check is never blamed on the credential;
- sessions: one proof exchange per session; a decision stays; nothing a task
  saved is lost to another's stale snapshot; evidence stays until the window
  ends, fields are disclosed only inside it; everything is decided and removed
  in the end;
- lifecycle: list, file and portal agree; one revision is one change and one
  event; revocation is final; stale calls are refused before the ledger;
- admission: one session per reference, however it is retried; no more
  unfinished scans at a service point than its bound; the rate limits hold in
  every window; who was barred all along creates and claims nothing;
- policies: a default, once there is one, is never lost; service points only
  ask for trusted definitions, and those can be resolved and revoked;
- setup: what is reported is on the ledger; one issuer DID, unless creations
  overlap;
- files: to its callers a store operation happens at once and alone, or not at
  all; every operation ends;
- indexes: never given out twice, never outside the registry;
- activation links: one offer per idempotency key, a link works until its
  expiry, students get their own offers, every batch ends.

## Modules

| Module | What it is |
| --- | --- |
| `VerificationDecision` | the pure decision rules |
| `DecisionRules` | a declarative reading of the rules, for evidence evaluated again while time passes; extends `VerificationDecision` |
| `MCVerificationDecision` | messages and dates for TLC |
| `DecisionRulesProofs` | theorems about `DecisionRules` |
| `SessionContract` | what the agent promises of one session (abstract specification) |
| `VerificationSession` | sessions from scan or checkout to removal, with all concurrent tasks; extends `VerificationDecision`, implements `SessionContract` |
| `MCVerificationSession` | evidence and failures for TLC |
| `VerificationSessionProofs` | theorems about `VerificationSession`, the refinement included |
| `LifecycleContract` | what the lifecycle promises the portal (abstract specification) |
| `CredentialLifecycle` | calls, queue, ledger update, file, webhook; implements `LifecycleContract` |
| `MCCredentialLifecycle` | instance for TLC |
| `CredentialLifecycleProofs` | theorems about `CredentialLifecycle`, the refinement included |
| `AtomicFile` | what a store promises its callers (abstract specification) |
| `OperationQueue` | the queue and file replacement of all four stores, for any operation; implements `AtomicFile` |
| `RevocationIndex` | the operation of the index store; extends `OperationQueue` |
| `MCRevocationIndex` | two registries and their reservations for TLC |
| `OperationQueueProofs`, `RevocationIndexProofs` | theorems about both |
| `ActivationLinks` | batches of offers and activation links, from request to resolution |
| `MCActivationLinks` | the batches for TLC |
| `ActivationLinksProofs` | theorems about `ActivationLinks` |
| `VerificationRateLimiter` | the two sliding windows, as operators |
| `SessionAdmission` | who may start, create or claim a session; extends `VerificationRateLimiter` |
| `MCSessionAdmission` | the requests for TLC |
| `SessionAdmissionProofs` | theorems about `SessionAdmission` |
| `IssuanceSetup` | issuer DID and the setup of a definition |
| `TrustPolicy` | registration, bootstrap and selection of trusted definitions, beside setups; extends `IssuanceSetup` |
| `MCTrustPolicy` | definitions and requests for TLC |
| `TrustPolicyProofs` | theorems about `TrustPolicy` and `IssuanceSetup` |

### VerificationSession and the code

`store` is the sessions of the store file, `proofRecord` and `invitation` are
Credo's records, `task` holds every request, event handler and cleanup run in
progress together with the snapshot it works on. A step runs from one `await`
to the next; a store operation is one step, because the store queues them.

- `StartSession`, `StartInsert` : `startSession`; `StartSessionAgain` its replay.
- `CreateCheckoutSession`, then `ClaimCheckout`, `ClaimGate`, `ClaimSave`,
  `ClaimExchange`, `ClaimLink`, `ClaimFail`: `claimCheckoutSession`, one action
  per awaited call, the last its error handler.
- `PollStatus`, `HandleProofEvent` and a visit of the cleanup run lead into
  `SyncProof`, `SyncEvaluate`, `SyncCommit`: `syncSession`. `SyncVerdict` is
  computed from the snapshot, `ApplyVerdict` is the queued update, applied to
  what the store holds by then.
- `SyncReply`: the webhook of `proofEvents.ts`, which may get lost.
- `AnswerReader`, `AnswerList`, `AnswerResult`, `Sent`: what `getWalletResult`,
  `getResult`, `getInPersonDetails` and `listSessions` do with the status that
  `syncSession` returns. Details of scans carry the fields it returned; the list
  drops a session whose window closed while it was put together; the wallet's
  result is refused once the window saved last is over. A handler at
  `"disclosed"` has just given fields, or the decision, away.
- `CleanupLists`, `CleanupContinues`, `CleanCheck`, `CleanProof`,
  `CleanInvitation`, `CleanMark`: `runCleanup`.
- `CallFails`, `LeaveProofBehind`, `CleanupListFails`, `Crash`: throwing calls
  and restarts. `WalletPresents`, `CredoCompletes`, `ExchangeFails` are Credo
  and the wallet, outside the repository: an event carries the record as it was.

The creation lock belongs to one service instance. Wallet and verifier routes
have an instance each, so scans exclude each other but not checkouts; so do
`MayStart` and `CreateCheckoutSession`. Whether a service point may be used is
a free choice in `ClaimGate` and in not taking `StartSession`; what decides it
is `SessionAdmission`'s subject.

### CredentialLifecycle and the code

`record` is the lifecycle file, `list` the credential's entry in the public
status list with the number of its updates as the timestamp, `queue` the
promise chain of `RevocationService.withLock` (the routes create one
instance). `Lookup` reads (and migrates) the file and makes every check of
`changeLifecycle` and `lifecycleSnapshot`, which run without waiting;
`Publish` updates the list, `Save` writes the file, `Answer` sends the webhook
and the answer. `CallFails` may have reached the ledger.

### OperationQueue, RevocationIndex and the code

`verificationStore.ts`, `activationStore.ts`, `revocationIndexStore.ts` and
`credentialLifecycleStore.ts` share one pattern: `withLock` chains operations,
`readState` reads and parses the document, `writeState` writes a temporary file
and renames it. `file` and `temp` are the two documents, `queue` the chain,
`call` what each caller waits for: `Ask`, `Load` (read and compute, no `await`
in between), `BeginWrite` and `FinishWrite` (the process may stop with a part
written), `Rename`, `Return`, `Fail`, `Crash`. The operation is the constant
`Result`; `RevocationIndex!ReserveRange` is `reserveRange`. Since
`OperationQueue` implements `AtomicFile`, all other modules take an operation
of a store as one step. The stores differ in what they refuse: a document that
parses but lacks its list is refused by three of them, while
`activationStore.ts` (142) reads it as empty, like a missing one (`Missing`).
The lookups of `activationStore.ts` (83-108) read the file without queueing; a
rename replaces it as a whole, so they too see a whole document, and
`OperationQueue` leaves them out.

### ActivationLinks and the code

`activations` is the activation file, `nextIndex` the registry's counter,
`exchanges` Credo's offers, `queue` the `operationQueue` of the link service.
`Lookup`, `Reserve`, `OfferMade`/`OfferFailed`, `Save`, `Answer` follow
`createBatchActivationLinks` and `createBatchOfferInvitations` from `await` to
`await`; plain offers skip the file. `Running` are the workers of
`mapWithConcurrency`: a worker that is done takes the next student, so results
arrive in any order the workers allow. `Resolve` is what the wallet's request
is answered with. The single offer and the single link are batches of one.

### SessionAdmission, VerificationRateLimiter and the code

`FindSession`, `FindPoint`, `Allow`, `Replay`, `AdmitScan`, `AdmitCheckout`,
`Prepare`, `Insert`, `Claim` and `Refuse` are the awaits of `startSession`,
`createCheckoutSession` and the first half of `claimCheckoutSession`; `lock` is
the `creationQueue` of each service instance (wallet routes and verifier routes
build one each). A checkout's session also has a `clientRequestId`, so a scan
that bears it finds the checkout's session (`Existing`) and is answered with
that or, before it is claimed, with an error. `Check` is `VerificationRateLimiter.check`, which records the
address even when the service point's window refuses. Administration
(`updateServicePoint`, `suspendVendor`, `reinstateVendor`), the end of a
session and the clock run beside. `seen` and `admitted` are history variables.

### IssuanceSetup, TrustPolicy and the code

`job` is the request each caller waits for. `Register` is one stage of
`IssuanceSetupService.setup` (schema, definition, registry, list) with the
states a registration may be left in, finished without an identifier or
timestamp among them; `LookForDid`, `RegisterDid`, `ImportDid`
are `createIssuerDid`. `FindPolicy`, `Resolve`, `Save` are
`registerTrustedCredentialDefinition`, where `Upsert` is the store's
`upsertTrustedCredentialDefinition` with the service points it moves;
`ListPolicies` is `ensureConfiguredPolicies` and the selection, which returns
to the list after each definition it bootstraps; `Bind` writes the service
point. The list of policies, the service points and the ledger are read at
different awaits, and nothing locks them together.

## Runs

| Run | Instance | Shows |
| --- | --- | --- |
| `DecisionRules` | all evidence over 6 protocol states, 2 definitions, 5 dates each, 5 messages, times 0..3 | the rules equal their declarative reading; outcomes are complete; verdicts only age forward |
| `CheckoutClaims` | 1 checkout, 2 handlers, 2 exchanges, 2 presentations, 1 failure outcome, times 0..3, 2 troubles | single exchange, ownership, justified approvals, webhooks agree with the store, decisions final, nothing lost |
| `StaticScan` | 1 scan, 1 handler, 2 overlapping cleanup runs, every failure outcome, times 0..3 | the same for scans and stale listings: evidence kept, nothing lost |
| `MixedSessions` | 1 scan and 1 checkout, 1 handler, 1 cleanup run, times 0..2 | a run that visits several sessions from one listing takes the material of none too early; each session keeps its contract; webhooks, details and lists disclose fields only inside the window |
| `LiveCheckout` | 1 checkout, 1 handler, 1 cleanup run, times 0..2, 1 trouble, fair | a checkout is decided, also when its claim orphaned it, and its material is removed in the end, also after a crash between the two deletions |
| `LifecycleCalls` | 2 credentials (one not revocable), 2 callers, revisions to 3, 1 trouble, fair | list, file and portal agree; contract; queue never stuck |
| `IndexReservations` | 3 callers, 4 operations, registries of 3 and 6, batches of 1 and 2, 2 troubles, fair | disjoint ranges; the file is atomic; the queue never sticks |
| `ActivationBatches` | 2 callers, 3 batches (up to 3 students, 2 workers), registry of 5, times 0..1, 1 trouble, fair | one offer per key, links resolve, offers match, batches end |
| `Admission` | 2 callers, 3 requests at 2 points from 2 addresses, limits of 1, window 2, lifetime 3, times 0..3, 2 switches, 1 trouble | pending bound, one session per reference, rates, barred requests |
| `TrustPolicies` | 2 callers, 4 requests, 3 definitions (2 revocable, 2 prepared, 2 configured), 2 points, 1 trouble | service points trusted, default kept, setups truthful, one DID |
| `TornReactivation`, `TwoDefaults` | smallest instances | disagreements between code and comments, below |

Bounds. `LastCreation` lets sessions start at time 0 only; with a lifetime and
a visibility window of one unit each, time 3 is past every deadline, so every
order of a deadline and an answer occurs. `Reader` names the readers that are
followed after `syncSession`: all of them in the safety runs, none in
`LiveCheckout`, whose properties end with the saved record and which is only
small enough for the liveness checker without them. That run follows a
checkout, which can be orphaned; setting `Checkout = {}` in its cfg makes the
session a scan, and the model checker then confirms both properties for it, in
the same bounds. Two handlers suffice for the races of
one claim with another task, two cleanup runs for stale listings. `MaxTroubles`
counts failing calls and crashes together; `MaxRevision` limits accepted calls,
never running ones. Symmetry permutes handlers, cleaners, exchanges and callers
in runs without liveness. Three callers at the index file give one operation
that runs, one that waits and one that arrives; a registry of 3 is full after
two batches, one of 6 is not. In `Admission` the window is shorter than the
lifetime and both end within the times, so a scan may be retried before and
after its window, its session and its suspension end. Three batches let a key
be sent again while its first batch runs, after it failed and after its link
expired. Four requests are enough for a registration between another one's
look-up and its save, with a service point bound before and after. Runs without
a call that is always possible switch deadlock checking off: when the bounds
are reached and nobody asks for anything, the system rests.

Fairness. `VerificationSession!FairSpec`: the clock advances, the timer starts
cleanup runs for ever (`setInterval`), a begun handler goes on (the event loop
runs settled promises). Wallet, Credo, portal and requests need not do
anything. `CredentialLifecycle!FairSpec`: a running call goes on, that is,
Credo, the ledger and the portal's endpoint answer or fail in the end. In the
live runs reads fail only a bounded number of times; a presentation that Credo
can never read would keep its session pending. `OperationQueue!Spec` and
`ActivationLinks!Spec` ask the same of a running operation and batch: calls to
the disk, Credo and the ledger return or fail in the end, and Node runs what
they settle.

Disagreements the violation runs show:

1. `TornReactivation`, `RevokedIsListed`: revoking a credential whose
   reactivation reached the ledger but not the file publishes nothing, and the
   credential stays valid in the public list (`revocationService.ts:110`,
   comment at 108). `docs/r03-r05-contracts.md:11` knows that recovery from a
   ledger success followed by a local failure is still to come (R18); the
   comment at 108 is wrong until then.
2. `TwoDefaults`, `AtMostOneDefault`: a registration carries over the default
   flag it read before its awaits; if another registration moved the default
   meanwhile, two definitions are the default and selection takes the first
   (`verificationService.ts:1045`, comment at 920).

Further differences the models contain and no property claims away, because a
property about them would fail by the shape of the code:

- expiry is checked before two awaits, so a claim can be saved after it
  (`verificationService.ts:291`, `README.md:315`);
- the claim's error handler overwrites a saved `Expired`
  (`verificationService.ts:333`, `docs/r03-r05-contracts.md:7`), which
  `DecisionsFinal` names as its exception (so that document's "first terminal
  verification decision stays stable" is not shown for such a checkout), and
  sets no visibility deadline, so cleanup never visits the session again (332)
  and its wallet can read the result for ever, against the comment at 453;
- the bound on pending sessions is tested by scans only (`startSession`);
  `createCheckoutSession` inserts without looking at it, so checkouts can push
  the total of a service point beyond it, although `README.md:183` says
  "Maximum concurrent pending sessions per service point" and the comment at
  `verificationService.ts:387` "bound unfinished work per service point".
  `PendingBounded` therefore speaks of scans;
- a damaged activation file that still parses counts as empty
  (`activationStore.ts:142`), although the comment at 126 says that malformed
  saved data is rejected;
- an exchange that could not be linked stays in Credo
  (`verificationService.ts:321`, comment at 870);
- an exchange linked after cleanup marked its session is never removed
  (`verificationService.ts:565`, `README.md:302`);
- an interrupted bootstrap is not resumed, because the list is then no longer
  empty (`verificationService.ts:789`);
- two overlapping creations leave two issuer DIDs (`didService.ts:20`), which
  `DidsOnce` names as its exception;
- activation links may be used any number of times until they expire, although
  `activationStore.ts:2` calls them single-use and
  `walletActivationService.ts:2` says an invitation is released once.

## Proofs

`VerificationSessionProofs`, for any sessions, exchanges, handlers, cleaners,
evidence and bounds, from the module's assumptions (disjoint names, natural
numbers, typed evidence):

- `TypeCorrect`: `Spec => []TypeOK`, by one lemma per group of actions.
- `OneExchangePerSession`: `Spec => [](ClaimOwnership /\ SingleExchange)`.
  `SingleExchange` alone is not inductive: that a claim creates no second
  exchange depends on where its handler is. `ClaimOwnership` says that a
  claimed checkout has at most one handler between claim and link, and no
  exchange before it creates one. Most steps are `Quiet` and keep both at once;
  the steps of a scan and a claim are proved one by one.
- `NoWriteLost`, `DecisionsStand`: `NothingLost` and `DecisionsFinal`. Tasks
  write what they made of a snapshot, so the argument is about what may happen
  to a record meanwhile: `Evolves` is an order on records, `Sound` what every
  record satisfies, and `RecordsInv` says that each snapshot evolves into the
  saved record (`Snapshot`), that a verdict about to be committed fits an
  undecided record (`Fits`), and that a checkout being claimed is still open
  (`ClaimOpen`). Every step makes each record evolve (`StoreEvolves`), and both
  properties are read off that.
- `WebhooksTrue`, `DisclosedInWindow`: `WebhooksMatchStore` and
  `DisclosureInWindow`. Details of a scan leave in the step that looks at the
  window (`DetailsTimely`); a list and a wallet's result leave in a later step,
  and are in time because the decided snapshot they are made from and the saved
  record agree on the window (`AnswersTimely`). For webhooks `NoticesSound` adds that a task that will notify the
  portal holds a decided snapshot of a session with an exchange. Of such a
  session a decision is final: the exception of `DecisionsFinal` needs a
  checkout that was never linked.
- `ApprovalsJustified`: `ApprovalJustified`. Evidence is read at one `await` and
  committed at a later one. `EvidenceSound` says that what a synchronisation
  read of a finished exchange is what Credo still holds, unless cleanup deleted
  it, that an event carries such a record, and that a verdict to approve is
  backed by it when it is committed (`Backed`). The exchanges only move forward
  (`ExchangesEvolve`), so a backed approval stays so.
- `MaterialStaysInWindow`: `MaterialKept`. `MaterialSound` adds that an exchange
  belongs to the one session it was made for and that a cleanup run about to
  delete one does so for a record whose window is over. With `DecisionsFinal`
  for the window, a stale listing cannot delete too early.

- `SessionImplementsContract`: `Spec => ImplementsSessionContract`. In
  `SessionContract` a session has no snapshots, tasks or proof records: it is
  asked for, claimed, linked to an exchange nobody else has, decided and removed,
  one step each, and the portal is told what it was decided to be. Only seven
  kinds of steps of the code show there (`VisibleSteps`). `TimesSound` adds what
  the contract says about times: a verdict about to be committed is of a moment
  that has come, and an expiry of the moment the request expired (`Due`); the
  window is over from its check until the mark (`Marking`). A commit that finds
  the session decided, or decides nothing, is a stutter, which is what makes
  stale snapshots harmless.

The layers are proved one on top of the other: `RecordsHold`, on it
`NoticesHold` and `EvidenceHolds`, on that `MaterialHolds`, and all of them with
`TimesSound` are `PromisesHold`. The `MixedSessions` run checks the refinement
with both kinds of sessions but without failures, which the theorem covers.

`DecisionRulesProofs`, for any definitions, policies, fields, dates and times:

- `ApprovalExact`, `RevocationNamed`, `OutcomesComplete`, `VerdictsOnlyAge`:
  `ApprovedExactlyWhenJustified`, `RevocationClassified`, `OutcomeComplete` and
  `VerdictsAgeForward`. The rules are pure, so the invariant is the type of the
  evidence; the work is in lemmas about `CredentialValidityFailure`, `Refusal`
  and `EvaluateVerification`. That verdicts age needs a clock that moves by one
  unit: a longer step may lead from not yet valid to expired at once.

`CredentialLifecycleProofs`, for any credentials, callers and bounds:

- `LifecycleTypeCorrect`: `Spec => []TypeOK`.
- `LifecycleImplementsContract`: `Spec => Contract!Spec`. The invariant `Turns`
  says that a call past its lookup is at the head of the queue, that the record
  it has read is still the saved one, and that the checks it passed still hold
  of it; then saving is the change the contract allows, and everything else
  is telling or a stutter.
- `ExpectationsKept`: `ExpectationKept`. `Expectations` says that a call that
  works expects the revision it has read; `Turns` carries that to the saved
  record, whatever was saved while the call was waiting.
- `PortalHistoryConsistent`: `ToldConsistently`. What was told says nothing of
  the record the next answer tells, so `History` relates every told record to
  the saved one: it is that record or of an earlier revision, and the saved one
  names the status before it (`Known`).
- `ListAgrees`: `ListMatches`. `Listing` adds the record about to be saved,
  which has to agree with the list already, and that nobody has seen a later
  update than there was (`Agrees`).

`OperationQueueProofs`, for any callers, operations, contents and faults:

- `QueueSerial`: `Spec => [](TypeOK /\ Alone)`; `Alone` says that a caller past
  its read is at the head of the queue.
- `QueueImplementsAtomicFile`: `Spec => ImplementsAtomicFile`, the abstract
  specification's own steps included. The invariant `Serial` adds to `Alone`
  that what a caller computed is still what it would compute from the file
  (`Fresh`), and that what it is about to rename is the whole of it (`Ready`);
  so a rename, or a read that changes nothing, is the abstract operation, and
  every other step a stutter, an error or a restart.

`RevocationIndexProofs`, for any registries and sizes:

- `ReservationsUnique`: `Spec => []IndexesUnique`. The invariant `Given` says
  that every range given out, or on its way to its caller, lies below the saved
  counter; with `Serial` the next range starts at the counter.

`SessionAdmissionProofs`, for any callers, requests, limits, switches and faults:

- `RetriesShareSession`, `PendingNeverAbove`, `BarredNeverAdmitted`:
  `OnePerReference`, `PendingBounded` and `BarredRefused`. None is inductive:
  the invariant `Orderly` adds that whoever is past its read of the service
  point is at the head of its lock (`Turn`), that what an admitted request
  found absent, and the room it found, are still so (`Room`), and that its
  history covers what it passed (`Saw`). Sessions that end or expire only make
  room (`NothingCreated`).

- `RateNeverAbove`: `RateKept`, for any limits and window length. The next scan
  is admitted by what the two maps remember, not by what was admitted; so
  `Rated` says that a window remembers at least as many scans as were admitted
  in it, whenever it ends (`Tally`), and at most its limit (`Memory`). An
  address whose scan the service point refuses is remembered without an
  admission, hence "at least". The cardinalities are those of sets of attempts:
  the limiter never looks at the order of its lists, and the module keeps none.

`ActivationLinksProofs`, for any students, batches, registry sizes, numbers of
workers and faults:

- `OneExchangePerKey`, `LinksStayGood`, `OffersReachTheirStudents`:
  `OneOfferPerKey`, `LinksResolve` and `OffersMatch`. They share the invariant
  `Inv`: batches of links run one after the other (`Serial`); what a batch found
  and made are offers to its students, each a new exchange (`BatchesHold`); the
  indexes it still holds are nobody else's (`IndexesHold`); the file has one
  record for each token, and what a batch in its turn looked up is still what
  the file says (`FileHolds`); what was answered is filed until the expiry it
  was told (`AnswersHold`). `SaveMany` and the indexes number the positions of a
  batch with `Rank`; that a rank is taken once and every rank is taken
  (`RankNumbers`) follows from the library's facts about injections.

`TrustPolicyProofs`, for any definitions, service points, requests and faults:

- `ServicePointsTrusted`, `DefaultStays`: `PointsTrusted` and `DefaultKept`.
  The invariant `Sound` adds that a selected definition is still trusted when
  it is bound and a resolved one still resolvable when it is saved (`Found`):
  policies are never removed and the ledger only grows.
- `SetupsTruthful`, `OneIssuerDid`: `SetupTruthful` and `DidsOnce`. The
  invariant `Truthful` adds that the stages behind a setup are on the ledger
  (`Progress`) and that, without overlap, no DID exists behind the look-up of
  the only creation (`OneCreation`).

Every invariant and every action property of the passing runs is proved, and
the three refinements. Only model-checked are the liveness properties
(`EventuallyDecided`, `EventuallyRemoved`, `EveryCallEnds`, `EveryOperationEnds`,
`EveryBatchEnds`): fairness and ENABLED are out of the prover's reach. No
assumption is made about the bounds beyond their being natural numbers, so the
theorems hold whatever the bounds are.

## Not modelled, and the plan

Not modelled because they only translate, format or forward, and keep no state
between two awaits: routes, middleware and validation (what services rely on is
an assumption of the modules), agent wiring and tails files, status and
connection queries, credential and connection events (one event, one webhook),
the request and signature of a webhook. Configuration values are constants; of
the start-up only what a restart keeps is modelled. Listings of service points
and sessions read the file once. Other indexes of a credential's registry are
left out of `CredentialLifecycle`: its status list is one entry per credential.

Left to prove, in this order:

1. that `ActivationLinks` and `SessionAdmission`, whose store operations are
   single steps, hold of a store that implements `AtomicFile`;
2. the safety halves of the liveness properties: who is at the head of a queue
   always has a step to take, as an invariant in place of ENABLED.
