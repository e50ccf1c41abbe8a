------------------------- MODULE VerificationSession -------------------------
(***************************************************************************)
(* The life of verification sessions: how a static scan or a claimed       *)
(* checkout gets its Credo proof exchange, how polls, proof events and the *)
(* cleanup timer synchronise the saved decision with the exchange, and how *)
(* the exchange is removed after the visibility window.                    *)
(* Translated from services/verificationService.ts, verificationStore.ts,  *)
(* verificationCleanup.ts and events/proofEvents.ts.                       *)
(*                                                                         *)
(* Every request, event and cleanup run is a task.  A step of a task is    *)
(* what happens between two awaits; one store operation is atomic because  *)
(* the store queues them and replaces its file in one rename.  Everything  *)
(* else interleaves.  A crash loses tasks and pending events; the store    *)
(* and Credo's records survive.                                            *)
(*                                                                         *)
(* Left out: which service point may start sessions (a refusal is a free   *)
(* choice here), policy changes, the reported `state` text, updatedAt.     *)
(***************************************************************************)
EXTENDS VerificationDecision, FiniteSets

CONSTANTS
  Session,           \* session identifiers
  Checkout,          \* the sessions created for a checkout; the others are static scans
  Proof,             \* identifiers of Credo proof records
  None,              \* stands for an absent identifier
  Handler,           \* slots for HTTP requests and event handlers in progress
  Cleaner,           \* slots for cleanup runs in progress (the timer does not wait for one)
  SessionTtl,        \* VERIFICATION_SESSION_TTL_MINUTES, in clock units
  ResultVisibility,  \* VERIFICATION_RESULT_VISIBILITY_MINUTES, in clock units
  Presentation,      \* the presentations wallets may send
  FailedExchange,    \* the ways a wallet's answer may fail: [state, isVerified, phrases]
  TrustedDefinition, \* the definition every session's policy trusts,
  RequiredFields,    \* the fields it requires,
  LegacyAllowed,     \* and whether it may omit the validity dates
  Reader,            \* bound: the readers whose answers are followed: of "details", "list", "result"
  LastCreation,      \* bound: no session is created after this time
  MaxTime,           \* bound: the clock stops here
  MaxTroubles        \* bound: how many calls may fail and how often the process may crash, in all

ASSUME NamesAssumption ==
  /\ Handler \cap Cleaner = {} /\ Checkout \subseteq Session
  /\ None \notin Proof \cup Session
ASSUME NumbersAssumption ==
  /\ SessionTtl \in Nat \ {0} /\ ResultVisibility \in Nat \ {0}
  /\ LastCreation \in Nat /\ MaxTime \in Nat /\ MaxTroubles \in Nat
ASSUME EvidenceAssumption ==
  /\ LegacyAllowed \in BOOLEAN
  /\ FailedExchange \subseteq [state : ProtocolState \ {"unknown", "done"}, isVerified : {"unset", "no"},
                               phrases : SUBSET Phrase]
  /\ \A e \in Presentation :
       e.revealed \in BOOLEAN /\ e.validFrom \in DateField /\ e.expiresAt \in DateField

VARIABLES
  clock,         \* the server's clock
  store,         \* the saved session records
  proofRecord,   \* Credo's proof repository
  presentation,  \* what the wallet of an exchange presented
  invitation,    \* is the exchange's out-of-band record in Credo's repository?
  madeFor,       \* history: the session an exchange was created for
  delivered,     \* exchanges whose invitation reached a wallet
  events,        \* proof state changes no handler has picked up yet
  task,          \* what each handler and cleaner is doing
  sweep,         \* the session snapshots a cleanup run still has to visit
  webhooks,      \* the verification.completed webhooks the portal received
  troubles       \* failed calls and crashes so far

credo == <<proofRecord, presentation, invitation, madeFor, delivered>>
vars == <<clock, store, credo, events, task, sweep, webhooks, troubles>>

Task == Handler \cup Cleaner
Never == -1
Moment == Nat \cup {Never}

(* verificationTypes.ts; isVerified, claimedAt and the like are optional.   *)
(* A static session is saved with its exchange.                             *)
SessionRecord ==
  {r \in [mode : {"NONE", "STATIC", "CHECKOUT"}, claimedAt : Moment, proof : Proof \cup {None},
          expiresAt : Moment, decision : Decision, failureCode : FailureCode, isVerified : Verified,
          completedAt : Moment, visibleUntil : Moment, removed : BOOLEAN] :
     r.mode = "STATIC" => r.proof # None}

NoSession ==
  [mode |-> "NONE", claimedAt |-> Never, proof |-> None, expiresAt |-> Never,
   decision |-> "Pending", failureCode |-> NoFailure, isVerified |-> "unset",
   completedAt |-> Never, visibleUntil |-> Never, removed |-> FALSE]

Exists(s) == store[s].mode # "NONE"

(* Credo's proof exchange record, and what findById gives when there is none. *)
ProofRecord ==
  [state : ProtocolState, isVerified : Verified, phrases : SUBSET Phrase, updatedAt : Nat]
NoRecord == [state |-> "unknown", isVerified |-> "unset", phrases |-> {}, updatedAt |-> 0]
Held(p) == proofRecord[p].state # "unknown"

(* What presentationFor returns when there is nothing to read. *)
NoPresentation ==
  [definitions |-> {}, revealed |-> FALSE, fields |-> {}, validFrom |-> Absent, expiresAt |-> Absent]

Verdict ==
  [decision : Decision, failureCode : FailureCode, attributes : BOOLEAN, isVerified : Verified,
   completedAt : Moment, visibleUntil : Moment]
NoVerdict ==
  [decision |-> "Pending", failureCode |-> NoFailure, attributes |-> FALSE,
   isVerified |-> "unset", completedAt |-> Never, visibleUntil |-> Never]

Step ==
  {"idle", "start-insert",
   "claim-gate", "claim-save", "claim-exchange", "claim-link", "claim-fail",
   "sync-proof", "sync-evaluate", "sync-commit", "sync-reply",
   "answer-result", "answer-list", "disclosed",
   "clean-check", "clean-proof", "clean-invitation", "clean-mark"}

(* A task in progress: which session it is about, the snapshot of it that   *)
(* it has seen, the exchange it created, the proof record it was given or   *)
(* has read, the verdict it is about to commit, a time it took, and whether *)
(* it handles an event.                                                     *)
TaskRecord ==
  {r \in [pc : Step, session : Session \cup {None}, seen : SessionRecord, proof : Proof \cup {None},
          evidence : ProofRecord, verdict : Verdict, stamp : Moment, notify : BOOLEAN] :
     /\ r.pc # "idle" => r.session # None
     /\ r.pc \in {"start-insert", "claim-link"} => r.proof # None
     /\ r.pc = "sync-reply" => IsTerminal(r.seen.decision)}
Idle ==
  [pc |-> "idle", session |-> None, seen |-> NoSession, proof |-> None,
   evidence |-> NoRecord, verdict |-> NoVerdict, stamp |-> Never, notify |-> FALSE]

Webhook ==
  [session : Session, decision : Terminal, completedAt : Moment, attributes : BOOLEAN]

Init ==
  /\ clock = 0
  /\ store = [s \in Session |-> NoSession]
  /\ proofRecord = [p \in Proof |-> NoRecord]
  /\ presentation = [p \in Proof |-> NoPresentation]
  /\ invitation = [p \in Proof |-> FALSE]
  /\ madeFor = [p \in Proof |-> None]
  /\ delivered = {} /\ events = {} /\ webhooks = {}
  /\ task = [t \in Task |-> Idle]
  /\ sweep = [c \in Cleaner |-> {}]
  /\ troubles = 0

At(t, step) == task[t].pc = step
Begin(t, with) == task' = [task EXCEPT ![t] = with]
Continue(t, step) == task' = [task EXCEPT ![t].pc = step]
Finish(t) == task' = [task EXCEPT ![t] = Idle]

-----------------------------------------------------------------------------
(* Time passes. *)
Tick ==
  /\ clock < MaxTime /\ clock' = clock + 1
  /\ UNCHANGED <<store, credo, events, task, sweep, webhooks, troubles>>

(* A checkout session is saved without a proof exchange.  The whole        *)
(* creation runs under the creation lock and writes once.                  *)
CreateCheckoutSession(s) ==
  /\ s \in Checkout /\ ~Exists(s) /\ clock <= LastCreation
  /\ store' = [store EXCEPT ![s] = [NoSession EXCEPT !.mode = "CHECKOUT",
                                                     !.expiresAt = clock + SessionTtl]]
  /\ UNCHANGED <<clock, credo, events, task, sweep, webhooks, troubles>>

(* Credo's event for a new record finds no session and is left out. *)
NewExchange(s, p) ==
  /\ madeFor[p] = None
  /\ proofRecord' = [proofRecord EXCEPT ![p] = [NoRecord EXCEPT !.state = "request-sent", !.updatedAt = clock]]
  /\ madeFor' = [madeFor EXCEPT ![p] = s]

(* A static scan creates its exchange first and saves the session with it;  *)
(* a start that is refused or fails before that leaves no trace.  The       *)
(* creation lock admits one scan at a time.                                 *)
MayStart(h, s) ==
  /\ At(h, "idle") /\ s \in Session \ Checkout /\ ~Exists(s) /\ clock <= LastCreation
  /\ \A p \in Proof : madeFor[p] # s
  /\ \A g \in Handler : ~At(g, "start-insert")

StartSession(h, s, p) ==
  /\ MayStart(h, s) /\ NewExchange(s, p)
  /\ invitation' = [invitation EXCEPT ![p] = TRUE]
  /\ Begin(h, [Idle EXCEPT !.pc = "start-insert", !.session = s, !.proof = p, !.stamp = clock])
  /\ UNCHANGED <<clock, store, presentation, delivered, events, sweep, webhooks, troubles>>

(* startResponse: the invitation reaches the wallet, or the response fails  *)
(* or gets lost.  It is sent at once when the session has been saved.       *)
Respond(p) == delivered' \in {delivered, delivered \cup {p}}

StartInsert(h) ==
  LET s == task[h].session IN
  /\ At(h, "start-insert")
  /\ store' = [store EXCEPT ![s] = [NoSession EXCEPT !.mode = "STATIC", !.proof = task[h].proof,
                                      !.expiresAt = task[h].stamp + SessionTtl]]
  /\ Respond(task[h].proof) /\ Finish(h)
  /\ UNCHANGED <<clock, proofRecord, presentation, invitation, madeFor, events, sweep, webhooks, troubles>>

(* A repeated scan gets the same invitation again while the session lives,  *)
(* also that of a linked checkout, if it names the checkout's reference.    *)
StartSessionAgain(s) ==
  /\ store[s].proof # None /\ clock < store[s].expiresAt
  /\ invitation[store[s].proof] /\ delivered' = delivered \cup {store[s].proof}
  /\ UNCHANGED <<clock, store, proofRecord, presentation, invitation, madeFor, events, task, sweep, webhooks, troubles>>

(* The claim of a checkout first reads the session and checks its expiry.  *)
ClaimCheckout(h, s) ==
  /\ At(h, "idle") /\ store[s].mode = "CHECKOUT" /\ clock < store[s].expiresAt
  /\ Begin(h, [Idle EXCEPT !.pc = "claim-gate", !.session = s])
  /\ UNCHANGED <<clock, store, credo, events, sweep, webhooks, troubles>>

(* The service point and its vendor's suspension are read; both may refuse. *)
(* claimedAt is taken here, when the store operation is queued.             *)
ClaimGate(h) ==
  /\ At(h, "claim-gate")
  /\ \/ Begin(h, [task[h] EXCEPT !.pc = "claim-save", !.stamp = clock])
     \/ Finish(h)
  /\ UNCHANGED <<clock, store, credo, events, sweep, webhooks, troubles>>

(* claimSession: a matching token claims a session once. *)
ClaimAgain(record, tokenMatches) == tokenMatches
MayClaim(record, tokenMatches) == tokenMatches /\ record.claimedAt = Never

ClaimSave(h) ==
  LET s == task[h].session IN
  /\ At(h, "claim-save")
  /\ \E tokenMatches \in BOOLEAN :
       IF MayClaim(store[s], tokenMatches)
         THEN /\ store' = [store EXCEPT ![s].claimedAt = task[h].stamp]
              /\ Begin(h, [task[h] EXCEPT !.pc = "claim-exchange", !.stamp = Never])
         ELSE Finish(h) /\ UNCHANGED store
  /\ UNCHANGED <<clock, credo, events, sweep, webhooks, troubles>>

(* The claimed session gets its proof record and invitation. *)
ClaimExchange(h, p) ==
  /\ At(h, "claim-exchange") /\ NewExchange(task[h].session, p)
  /\ invitation' = [invitation EXCEPT ![p] = TRUE]
  /\ Begin(h, [task[h] EXCEPT !.pc = "claim-link", !.proof = p])
  /\ UNCHANGED <<clock, store, presentation, delivered, events, sweep, webhooks, troubles>>

(* createProofExchange: when the invitation cannot be created the proof     *)
(* record is deleted again, but an error of that deletion is swallowed.     *)
LeaveProofBehind(h, s, p) ==
  /\ troubles + 2 <= MaxTroubles /\ troubles' = troubles + 2
  /\ NewExchange(s, p)
  /\ \/ At(h, "claim-exchange") /\ task[h].session = s /\ Continue(h, "claim-fail")
     \/ MayStart(h, s) /\ UNCHANGED task
  /\ UNCHANGED <<clock, store, presentation, invitation, delivered, events, sweep, webhooks>>

ClaimLink(h) ==
  /\ At(h, "claim-link")
  /\ store' = [store EXCEPT ![task[h].session].proof = task[h].proof]
  /\ Respond(task[h].proof) /\ Finish(h)
  /\ UNCHANGED <<clock, proofRecord, presentation, invitation, madeFor, events, sweep, webhooks, troubles>>

(* The claim's error handler: the record fails whatever it holds by now.   *)
FailedClaim(record) ==
  [record EXCEPT !.decision = "Failed", !.failureCode = "CREDO_PROTOCOL_ERROR", !.completedAt = clock]

ClaimFail(h) ==
  LET s == task[h].session IN
  /\ At(h, "claim-fail")
  /\ store' = [store EXCEPT ![s] = FailedClaim(store[s])]
  /\ Finish(h)
  /\ UNCHANGED <<clock, credo, events, sweep, webhooks, troubles>>

-----------------------------------------------------------------------------
(* syncSession.  It works on the snapshot it was given and on the proof    *)
(* record it was given or reads.                                           *)

(* A reader (getWalletResult, getResult, getInPersonDetails, listSessions)  *)
(* has found the session.  Which reader it is shows when it answers.        *)
PollStatus(h, s) ==
  /\ At(h, "idle") /\ Exists(s)
  /\ Begin(h, [Idle EXCEPT !.pc = "sync-proof", !.session = s, !.seen = store[s]])
  /\ UNCHANGED <<clock, store, credo, events, sweep, webhooks, troubles>>

(* handleProofStateChanged; a record of no session is ignored. *)
HandleProofEvent(h, e) ==
  /\ At(h, "idle") /\ events' = events \ {e}
  /\ IF \E s \in Session : store[s].proof = e.proof
       THEN \E s \in Session :
              /\ store[s].proof = e.proof
              /\ Begin(h, [Idle EXCEPT !.pc = "sync-proof", !.session = s, !.seen = store[s],
                                       !.evidence = e.record, !.notify = TRUE])
       ELSE UNCHANGED task
  /\ UNCHANGED <<clock, store, credo, sweep, webhooks, troubles>>

(* proofEvents.ts: the portal hears of decided sessions only. *)
NotifiesAlways(t, record) == task[t].notify
Notifies(t, record) ==
  task[t].notify /\ IsTerminal(record.decision) /\ record.completedAt # Never

(* The status of a session shows the fields while their window is open.    *)
DetailsVisible(record) == record.visibleUntil = Never \/ clock < record.visibleUntil

(* The fields of the session leave the service, or its decision does        *)
(* because a wallet asked for it.                                           *)
Disclose(h, fields) ==
  Begin(h, [Idle EXCEPT !.pc = "disclosed", !.session = task[h].session, !.verdict.attributes = fields])

(* getResult leaves the fields out, getInPersonDetails has them of scans,   *)
(* listSessions waits for the other sessions it lists, and getWalletResult  *)
(* reads the session once more (before its decision nothing depends on it). *)
AnswerReader(h, record, fields) ==
  \/ Finish(h)
  \/ "details" \in Reader /\ record.mode = "STATIC" /\ fields /\ Disclose(h, TRUE)
  \/ /\ "list" \in Reader /\ fields
     /\ Begin(h, [Idle EXCEPT !.pc = "answer-list", !.session = task[h].session, !.seen = record])
  \/ /\ "result" \in Reader /\ IsTerminal(record.decision)
     /\ Begin(h, [Idle EXCEPT !.pc = "answer-result", !.session = task[h].session])

(* What a task does with the record its synchronisation ended with: a       *)
(* cleanup run goes on, an event may notify the portal, a reader answers.   *)
AfterSync(t, record, verdict) ==
  IF t \in Cleaner THEN Begin(t, [Idle EXCEPT !.pc = "clean-check", !.session = task[t].session, !.seen = record])
  ELSE IF Notifies(t, record)
    THEN Begin(t, [Idle EXCEPT !.pc = "sync-reply", !.session = task[t].session, !.seen = record,
                               !.verdict.attributes = verdict.attributes])
  ELSE IF task[t].notify THEN Finish(t)
  ELSE AnswerReader(t, record, verdict.attributes /\ DetailsVisible(record))

SyncProof(t) ==
  LET seen == task[t].seen
      read == IF seen.proof = None THEN NoRecord ELSE proofRecord[seen.proof]
  IN
  /\ At(t, "sync-proof")
  /\ IF seen.removed
       THEN AfterSync(t, seen, NoVerdict)
       ELSE Begin(t, [task[t] EXCEPT !.pc = "sync-evaluate",
                                     !.evidence = IF task[t].notify THEN @ ELSE read])
  /\ UNCHANGED <<clock, store, credo, events, sweep, webhooks, troubles>>

(* The request expired, unless the exchange finished in time and is only   *)
(* noticed late.                                                           *)
FinishedAnyTime(seen, evidence) ==
  /\ seen.decision = "Pending" /\ clock >= seen.expiresAt
  /\ evidence.state # "done"
ExpiresOnceClaimed(seen, evidence) ==
  /\ seen.decision = "Pending" /\ clock >= seen.expiresAt /\ seen.proof # None
  /\ ~(evidence.state = "done" /\ evidence.updatedAt <= seen.expiresAt)
RequestExpired(seen, evidence) ==
  /\ seen.decision = "Pending" /\ clock >= seen.expiresAt
  /\ ~(evidence.state = "done" /\ evidence.updatedAt <= seen.expiresAt)

(* A checkout waits for its claim. *)
AwaitingFirstClaim(seen) == seen.mode = "CHECKOUT" /\ seen.proof = None /\ seen.claimedAt = Never
AwaitingClaim(seen) == seen.mode = "CHECKOUT" /\ seen.proof = None

(* The input of evaluateVerification. *)
Evidence(seen, evidence, shown) ==
  LET expired == RequestExpired(seen, evidence)
      missing == evidence = NoRecord /\ ~expired /\ ~AwaitingClaim(seen)
  IN [state       |-> IF missing THEN "abandoned" ELSE evidence.state,
      isVerified  |-> IF evidence.isVerified = "unset" THEN seen.isVerified ELSE evidence.isVerified,
      phrases     |-> evidence.phrases,
      definitions |-> shown.definitions,
      trusted     |-> {TrustedDefinition},
      required    |-> RequiredFields,
      revealed    |-> shown.revealed,
      fields      |-> shown.fields,
      validFrom   |-> shown.validFrom,
      expiresAt   |-> shown.expiresAt,
      now         |-> clock,
      legacy      |-> LegacyAllowed,
      expired     |-> expired]

(* A decided session keeps its decision; the fields it can still show are  *)
(* returned beside it.                                                     *)
SyncVerdict(seen, evidence, shown) ==
  LET evaluation ==
        IF IsTerminal(seen.decision)
          THEN [decision |-> seen.decision, failureCode |-> seen.failureCode, attributes |-> shown.revealed]
          ELSE EvaluateVerification(Evidence(seen, evidence, shown))
      becameTerminal == IsTerminal(evaluation.decision) /\ seen.completedAt = Never
      terminalAt == IF RequestExpired(seen, evidence) THEN seen.expiresAt ELSE clock
  IN [decision     |-> evaluation.decision,
      failureCode  |-> evaluation.failureCode,
      attributes   |-> evaluation.attributes,
      isVerified   |-> evidence.isVerified,
      completedAt  |-> IF becameTerminal THEN terminalAt ELSE seen.completedAt,
      visibleUntil |-> IF becameTerminal THEN terminalAt + ResultVisibility ELSE seen.visibleUntil]

(* The presentation is read only for a verified, finished proof, and       *)
(* cannot be read once the record is gone.                                 *)
ReadsPresentation(t) ==
  /\ task[t].seen.proof # None
  /\ task[t].evidence.state = "done" /\ task[t].evidence.isVerified = "yes"

SyncEvaluate(t) ==
  LET seen == task[t].seen
      shown == IF ReadsPresentation(t) THEN presentation[seen.proof] ELSE NoPresentation
  IN
  /\ At(t, "sync-evaluate")
  /\ IF ReadsPresentation(t) /\ ~Held(seen.proof)
       THEN Finish(t)
       ELSE Begin(t, [Idle EXCEPT !.pc = "sync-commit", !.session = task[t].session, !.notify = task[t].notify,
                                  !.verdict = SyncVerdict(seen, task[t].evidence, shown)])
  /\ UNCHANGED <<clock, store, credo, events, sweep, webhooks, troubles>>

(* What the queued update does to the record it finds: a decided record    *)
(* stays, and absent fields of the verdict overwrite nothing.              *)
OverwriteDecided(record, v) ==
  [record EXCEPT !.decision = v.decision, !.failureCode = v.failureCode,
                 !.completedAt = v.completedAt, !.visibleUntil = v.visibleUntil]
ForgetTheRest(record, v) ==
  [NoSession EXCEPT !.mode = record.mode, !.expiresAt = record.expiresAt, !.decision = v.decision,
                    !.completedAt = v.completedAt, !.visibleUntil = v.visibleUntil]
ApplyVerdict(record, v) ==
  IF IsTerminal(record.decision) THEN record
  ELSE [record EXCEPT
         !.decision = v.decision,
         !.failureCode = IF v.failureCode = NoFailure THEN @ ELSE v.failureCode,
         !.isVerified = IF v.isVerified = "unset" THEN @ ELSE v.isVerified,
         !.completedAt = IF v.completedAt = Never THEN @ ELSE v.completedAt,
         !.visibleUntil = IF v.visibleUntil = Never THEN @ ELSE v.visibleUntil]

SyncCommit(t) ==
  LET s == task[t].session
      updated == ApplyVerdict(store[s], task[t].verdict)
  IN
  /\ At(t, "sync-commit")
  /\ store' = [store EXCEPT ![s] = updated]
  /\ AfterSync(t, updated, task[t].verdict)
  /\ UNCHANGED <<clock, credo, events, sweep, webhooks, troubles>>

(* The portal is notified once; the attempt may fail.                       *)
SyncReply(h) ==
  LET seen == task[h].seen IN
  /\ At(h, "sync-reply") /\ Finish(h)
  /\ webhooks' \in {webhooks, webhooks \cup
       {[session |-> task[h].session, decision |-> seen.decision, completedAt |-> seen.completedAt,
         attributes |-> task[h].verdict.attributes /\ DetailsVisible(seen)]}}
  /\ UNCHANGED <<clock, store, credo, events, sweep, troubles>>

(* listSessions leaves out the sessions whose window has closed meanwhile.  *)
ListedAsShown(record) == TRUE
Listed(record) ==
  \/ ~IsTerminal(record.decision) \/ record.completedAt = Never
  \/ clock < record.completedAt + ResultVisibility

AnswerList(h) ==
  /\ At(h, "answer-list")
  /\ IF Listed(task[h].seen) THEN Disclose(h, TRUE) ELSE Finish(h)
  /\ UNCHANGED <<clock, store, credo, events, sweep, webhooks, troubles>>

(* getWalletResult refuses the result when the window has closed, and tells *)
(* the decision it got before otherwise.                                    *)
AnswerResult(h) ==
  /\ At(h, "answer-result")
  /\ IF DetailsVisible(store[task[h].session]) THEN Disclose(h, FALSE) ELSE Finish(h)
  /\ UNCHANGED <<clock, store, credo, events, sweep, webhooks, troubles>>

Sent(h) ==
  /\ At(h, "disclosed") /\ Finish(h)
  /\ UNCHANGED <<clock, store, credo, events, sweep, webhooks, troubles>>

-----------------------------------------------------------------------------
(* runCleanup: the sessions are listed once and visited from that list.     *)
Visit(c, item) ==
  Begin(c, [Idle EXCEPT !.pc = "sync-proof", !.session = item.session, !.seen = item.record])

CleanupLists(c) ==
  LET listed == {[session |-> s, record |-> store[s]] : s \in {x \in Session : Exists(x)}} IN
  /\ At(c, "idle") /\ sweep[c] = {}
  /\ \E first \in listed : Visit(c, first) /\ sweep' = [sweep EXCEPT ![c] = listed \ {first}]
  /\ UNCHANGED <<clock, store, credo, events, webhooks, troubles>>

CleanupContinues(c, item) ==
  /\ At(c, "idle") /\ Visit(c, item)
  /\ sweep' = [sweep EXCEPT ![c] = @ \ {item}]
  /\ UNCHANGED <<clock, store, credo, events, webhooks, troubles>>

WindowSkipped(status, latest) ==
  ~latest.removed /\ IsTerminal(status.decision) /\ latest.visibleUntil # Never
ApprovedWindowOver(status, latest) ==
  /\ ~latest.removed /\ status.decision = "Approved"
  /\ latest.visibleUntil # Never /\ clock >= latest.visibleUntil
WindowOver(status, latest) ==
  /\ ~latest.removed /\ IsTerminal(status.decision)
  /\ latest.visibleUntil # Never /\ clock >= latest.visibleUntil

CleanCheck(c) ==
  LET latest == store[task[c].session] IN
  /\ At(c, "clean-check")
  /\ IF WindowOver(task[c].seen, latest)
       THEN Begin(c, [Idle EXCEPT !.pc = "clean-proof", !.session = task[c].session, !.proof = latest.proof])
       ELSE Finish(c)
  /\ UNCHANGED <<clock, store, credo, events, sweep, webhooks, troubles>>

CleanProof(c) ==
  LET p == task[c].proof IN
  /\ At(c, "clean-proof")
  /\ proofRecord' = IF p = None THEN proofRecord ELSE [proofRecord EXCEPT ![p] = NoRecord]
  /\ Continue(c, "clean-invitation")
  /\ UNCHANGED <<clock, store, presentation, invitation, madeFor, delivered, events, sweep, webhooks, troubles>>

CleanInvitation(c) ==
  LET p == task[c].proof IN
  /\ At(c, "clean-invitation")
  /\ invitation' = IF p = None THEN invitation ELSE [invitation EXCEPT ![p] = FALSE]
  /\ Continue(c, "clean-mark")
  /\ UNCHANGED <<clock, store, proofRecord, presentation, madeFor, delivered, events, sweep, webhooks, troubles>>

CleanMark(c) ==
  /\ At(c, "clean-mark")
  /\ store' = [store EXCEPT ![task[c].session].removed = TRUE]
  /\ Finish(c)
  /\ UNCHANGED <<clock, credo, events, sweep, webhooks, troubles>>

-----------------------------------------------------------------------------
(* A store or Credo call of a task throws.  Creating and saving the claimed *)
(* exchange have an error handler, reading the policy just before has not;  *)
(* everything else gives up: a request is answered with the error, a        *)
(* cleanup run goes on with its next session.                               *)
Failing(t) ==
  \/ task[t].pc \in {"start-insert", "claim-gate", "claim-save", "claim-exchange",
                     "claim-link", "claim-fail", "sync-proof", "sync-commit",
                     "answer-result", "answer-list",
                     "clean-check", "clean-proof", "clean-invitation", "clean-mark"}
  \/ At(t, "sync-evaluate") /\ ReadsPresentation(t)

CallFails(t) ==
  /\ Failing(t) /\ troubles < MaxTroubles /\ troubles' = troubles + 1
  /\ \/ task[t].pc \in {"claim-exchange", "claim-link"} /\ Continue(t, "claim-fail")
     \/ task[t].pc # "claim-link" /\ Finish(t)
  /\ UNCHANGED <<clock, store, credo, events, sweep, webhooks>>

(* The process stops and is started again. *)
Restart ==
  /\ task' = [t \in Task |-> Idle]
  /\ sweep' = [c \in Cleaner |-> {}]
  /\ events' = {}
  /\ UNCHANGED <<clock, store, credo, webhooks>>

Crash ==
  /\ troubles < MaxTroubles /\ troubles' = troubles + 1 /\ Restart

(* The listing is outside runCleanup's error handler and nobody handles    *)
(* the rejected promise: the process exits.                                *)
CleanupListFails(c) ==
  /\ At(c, "idle") /\ sweep[c] = {}
  /\ troubles < MaxTroubles /\ troubles' = troubles + 1 /\ Restart

-----------------------------------------------------------------------------
(* Credo and the wallet (outside this repository).  Each change of a proof *)
(* record raises an event that carries the record as it is then.           *)
Advance(p, record) ==
  /\ proofRecord' = [proofRecord EXCEPT ![p] = record]
  /\ events' = events \cup {[proof |-> p, record |-> record]}
  /\ UNCHANGED <<clock, store, invitation, madeFor, delivered, task, sweep, webhooks, troubles>>

WalletPresents(p, shown) ==
  /\ p \in delivered /\ proofRecord[p].state = "request-sent"
  /\ presentation' = [presentation EXCEPT ![p] = shown]
  /\ Advance(p, [NoRecord EXCEPT !.state = "presentation-received", !.isVerified = "yes", !.updatedAt = clock])

ExchangeFails(p, outcome) ==
  /\ p \in delivered /\ proofRecord[p].state = "request-sent"
  /\ UNCHANGED presentation
  /\ Advance(p, [state |-> outcome.state, isVerified |-> outcome.isVerified,
                 phrases |-> outcome.phrases, updatedAt |-> clock])

CredoCompletes(p) ==
  /\ proofRecord[p].state = "presentation-received" /\ proofRecord[p].isVerified = "yes"
  /\ UNCHANGED presentation
  /\ Advance(p, [proofRecord[p] EXCEPT !.state = "done", !.updatedAt = clock])

-----------------------------------------------------------------------------
Sync(t) == SyncProof(t) \/ SyncEvaluate(t) \/ SyncCommit(t)
Answer(h) == AnswerList(h) \/ AnswerResult(h) \/ Sent(h)

(* The steps a handler takes once it has begun; they run without waiting   *)
(* for anyone.                                                             *)
HandlerStep(h) ==
  \/ StartInsert(h)
  \/ ClaimGate(h) \/ ClaimSave(h) \/ ClaimLink(h) \/ ClaimFail(h)
  \/ \E p \in Proof : ClaimExchange(h, p)
  \/ Sync(h) \/ SyncReply(h) \/ Answer(h)

Request(h) ==
  \/ \E s \in Session, p \in Proof : StartSession(h, s, p)
  \/ \E s \in Session : ClaimCheckout(h, s) \/ PollStatus(h, s)
  \/ \E e \in events : HandleProofEvent(h, e)

CleanerStep(c) ==
  \/ CleanupLists(c) \/ \E item \in sweep[c] : CleanupContinues(c, item)
  \/ Sync(c) \/ CleanCheck(c) \/ CleanProof(c) \/ CleanInvitation(c) \/ CleanMark(c)

Wallet(p) ==
  \/ \E shown \in Presentation : WalletPresents(p, shown)
  \/ CredoCompletes(p)
  \/ \E outcome \in FailedExchange : ExchangeFails(p, outcome)

Trouble ==
  \/ Crash
  \/ \E t \in Task : CallFails(t)
  \/ \E h \in Handler, s \in Session, p \in Proof : LeaveProofBehind(h, s, p)
  \/ \E c \in Cleaner : CleanupListFails(c)

Next ==
  \/ Tick
  \/ \E s \in Session : CreateCheckoutSession(s) \/ StartSessionAgain(s)
  \/ \E h \in Handler : Request(h) \/ HandlerStep(h)
  \/ \E c \in Cleaner : CleanerStep(c)
  \/ \E p \in Proof : Wallet(p)
  \/ Trouble

Spec == Init /\ [][Next]_vars

(* Time passes, the timer starts cleanup runs for ever, and no request is   *)
(* left half-way by the event loop.  Nobody else has to do anything.        *)
FairSpec ==
  /\ Spec /\ WF_vars(Tick)
  /\ \A c \in Cleaner : WF_vars(CleanerStep(c))
  /\ \A h \in Handler : WF_vars(HandlerStep(h))

-----------------------------------------------------------------------------
(* Every variable keeps its type. *)
TypeOK ==
  /\ clock \in Nat
  /\ store \in [Session -> SessionRecord]
  /\ proofRecord \in [Proof -> ProofRecord]
  /\ presentation \in [Proof -> Presentation \cup {NoPresentation}]
  /\ invitation \in [Proof -> BOOLEAN]
  /\ madeFor \in [Proof -> Session \cup {None}]
  /\ delivered \subseteq Proof
  /\ events \subseteq [proof : Proof, record : ProofRecord]
  /\ task \in [Task -> TaskRecord]
  /\ sweep \in [Cleaner -> SUBSET [session : Session, record : SessionRecord]]
  /\ webhooks \subseteq Webhook
  /\ troubles \in Nat

(* syncSession, "enforces expiry, the service-point policy, trusted         *)
(* credential definitions": whatever polls, events and cleanup runs raced,  *)
(* an approved session has a verified proof that finished by its deadline,  *)
(* from the trusted definition, valid at the saved completion time.         *)
ApprovalJustified ==
  \A s \in Session :
    LET session == store[s]  record == proofRecord[session.proof]  shown == presentation[session.proof]
    IN session.decision = "Approved" =>
         /\ session.proof # None
         /\ Held(session.proof) =>
              record.state = "done" /\ record.isVerified = "yes" /\ record.updatedAt <= session.expiresAt
         /\ shown.definitions = {TrustedDefinition} /\ RequiredFields \subseteq shown.fields
         /\ CredentialValidityFailure(shown.validFrom, shown.expiresAt, session.completedAt, LegacyAllowed) = NoFailure

(* store.claimSession is "one queued file update": a checkout never gets a  *)
(* second proof exchange, whatever claims overlap, fail or are retried, and *)
(* no exchange is made for a checkout nobody claimed.                       *)
SingleExchange ==
  /\ \A p, q \in Proof : madeFor[p] = madeFor[q] /\ madeFor[p] # None => p = q
  /\ \A p \in Proof, s \in Checkout : madeFor[p] = s => store[s].claimedAt # Never

(* Why: from the write that marks a checkout claimed until the exchange is  *)
(* linked or the claim has failed, one handler owns the checkout, and no    *)
(* exchange exists while it still has to create one.                        *)
Claiming(h) == task[h].pc \in {"claim-exchange", "claim-link", "claim-fail"}
ClaimOwnership ==
  /\ \A s \in Session :
       /\ store[s].mode = "CHECKOUT" => s \in Checkout
       /\ store[s].claimedAt # Never => store[s].mode = "CHECKOUT"
  /\ \A h \in Handler :
       /\ At(h, "start-insert") => task[h].session \in Session \ Checkout
       /\ At(h, "claim-gate") \/ At(h, "claim-save") \/ Claiming(h) => store[task[h].session].mode = "CHECKOUT"
       /\ At(h, "claim-save") => task[h].stamp # Never
       /\ Claiming(h) => store[task[h].session].claimedAt # Never
       /\ At(h, "claim-exchange") => \A p \in Proof : madeFor[p] # task[h].session
  /\ \A g, h \in Handler : Claiming(g) /\ Claiming(h) /\ task[g].session = task[h].session => g = h

(* proofEvents.ts derives the event identity from the saved completion time *)
(* "so the portal can recognize repeated notifications": however late a     *)
(* webhook was sent and whatever raced, it agrees with the stored session.  *)
WebhooksMatchStore ==
  \A w \in webhooks : w.decision = store[w.session].decision /\ w.completedAt = store[w.session].completedAt

(* runCleanup removes material only "after the visibility window ends": a   *)
(* linked exchange leaves Credo only once its session is decided and the    *)
(* window of the decision that stands is over.                              *)
MaterialKept ==
  \A s \in Session :
    LET session == store[s] IN
    session.proof # None /\ ~Held(session.proof) =>
      IsTerminal(session.decision) /\ session.visibleUntil # Never /\ clock >= session.visibleUntil

(* A decided session stays as it was decided, even under stale snapshots;   *)
(* only the error handler of a claim still under way may turn an expiry     *)
(* into a failure.  Its visibility window, once set, never moves.           *)
DecisionsFinal ==
  [][\A s \in Session :
       LET old == store[s]  new == store'[s] IN
       /\ IsTerminal(old.decision) =>
            \/ new.decision = old.decision /\ new.completedAt = old.completedAt
            \/ old.decision = "Expired" /\ new.decision = "Failed" /\ old.mode = "CHECKOUT"
       /\ old.visibleUntil # Never => new.visibleUntil = old.visibleUntil]_vars

(* The queued updates spread the record they find, not the snapshot they    *)
(* started from: no step loses a claim, a linked exchange or the removal    *)
(* mark another task has saved.                                             *)
NothingLost ==
  [][\A s \in Session :
       LET old == store[s]  new == store'[s] IN
       /\ old.mode # "NONE" => new.mode = old.mode /\ new.expiresAt = old.expiresAt
       /\ old.claimedAt # Never => new.claimedAt = old.claimedAt
       /\ old.proof # None => new.proof = old.proof
       /\ old.removed => new.removed]_vars

(* README, static verification 6: "Protected verifier endpoints may show    *)
(* disclosed attributes for the configured visibility window", and          *)
(* getWalletResult refuses "access after the visibility window closes".     *)
(* By webhook, in-person details or list, fields leave the service only     *)
(* while the window of the decision that was saved is open, and a wallet is *)
(* told a decision only until the window that was saved ends, although each *)
(* answer is put together from a proof and a record read earlier.           *)
WindowOpen(session) == IsTerminal(session.decision) /\ clock < session.completedAt + ResultVisibility
DisclosureInWindow ==
  [][/\ \A r \in webhooks' \ webhooks : r.attributes => WindowOpen(store[r.session])
     /\ \A h \in Handler :
          LET answer == task'[h]  session == store'[answer.session] IN
          answer.pc = "disclosed" /\ task[h] # answer =>
            IF answer.verdict.attributes THEN WindowOpen(session)
            ELSE session.visibleUntil # Never => clock < session.visibleUntil]_vars

(* Every session is decided in the end, without the wallet or the portal    *)
(* doing anything, after any crash: the cleanup timer sees to it.           *)
EventuallyDecided == \A s \in Session : Exists(s) ~> IsTerminal(store[s].decision)

(* README, static verification 6: "cleanup then deletes the Credo proof and *)
(* OOB records".  It does for every decided scan, and for every checkout    *)
(* decided by its proof (whose window the bounded clock sees ending).  The  *)
(* run has one checkout; with Checkout = {} it has one scan.                *)
MaterialGone(s) ==
  store[s].removed /\ (store[s].proof # None => ~Held(store[s].proof) /\ ~invitation[store[s].proof])
EventuallyRemoved ==
  \A s \in Session :
    (/\ IsTerminal(store[s].decision) /\ store[s].visibleUntil <= MaxTime
     /\ store[s].mode = "STATIC" \/ store[s].decision \in {"Approved", "Declined"}) ~> MaterialGone(s)

(* What the wallet, the vendor and the portal rely on, of each session.     *)
Public(record) ==
  [kind |-> record.mode, claimed |-> record.claimedAt # Never, exchange |-> record.proof,
   expiresAt |-> record.expiresAt, decision |-> record.decision, completedAt |-> record.completedAt,
   visibleUntil |-> record.visibleUntil, removed |-> record.removed]
Contract ==
  INSTANCE SessionContract WITH
    Exchange <- Proof, Lifetime <- SessionTtl, Visibility <- ResultVisibility,
    session <- [s \in Session |-> Public(store[s])], told <- webhooks

(* However claims, polls, proof events and cleanup runs interleave, fail or *)
(* are cut off by a crash, a session changes as if each of them ran alone:  *)
(* the queued updates of the store are all the coordination they need.      *)
ImplementsSessionContract == Contract!Spec
=============================================================================
