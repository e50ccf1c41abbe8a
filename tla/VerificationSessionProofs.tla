---------------------- MODULE VerificationSessionProofs ----------------------
(***************************************************************************)
(* Proofs about VerificationSession for any sets of sessions, proofs and   *)
(* tasks, any times and any number of failures: its types, that a checkout *)
(* never gets a second proof exchange, that no write of a record is lost   *)
(* and no decision taken back, that an approval rests on the evidence      *)
(* Credo holds, that webhooks tell what was saved, and that disclosed      *)
(* attributes and proof material stay within their window.                 *)
(***************************************************************************)
EXTENDS VerificationSession, TLAPS

(* The evaluation always yields one of the decisions and failure codes.     *)
LEMMA EvaluationType ==
  ASSUME NEW input, input.phrases \subseteq Phrase
  PROVE  /\ EvaluateVerification(input).decision \in Decision
         /\ EvaluateVerification(input).failureCode \in FailureCode
         /\ EvaluateVerification(input).attributes \in BOOLEAN
  <1>1. \A c \in FailureCode : Refusal(input.phrases, c) \in FailureCode
    BY DEF Refusal, RevocationFailureFromError, FailureCode, NoFailure
  <1>2. CredentialValidityFailure(input.validFrom, input.expiresAt, input.now, input.legacy) \in FailureCode
    BY DEF CredentialValidityFailure, FailureCode, NoFailure
  <1>3. /\ EvaluatePresentation(input).decision \in Decision
        /\ EvaluatePresentation(input).failureCode \in FailureCode
        /\ EvaluatePresentation(input).attributes \in BOOLEAN
    BY <1>2 DEF EvaluatePresentation, Decided, Decision, Terminal, FailureCode, NoFailure
  <1>4. /\ Refusal(input.phrases, "CREDO_PROTOCOL_ERROR") \in FailureCode
        /\ Refusal(input.phrases, "PROOF_NOT_VERIFIED") \in FailureCode
    BY <1>1 DEF FailureCode
  <1>5. CASE input.expired
    BY <1>5 DEF EvaluateVerification, Decided, Decision, Terminal, FailureCode
  <1>6. CASE ~input.expired /\ input.state = "abandoned"
    BY <1>4, <1>6 DEF EvaluateVerification, Decided, Decision, Terminal
  <1>7. CASE ~input.expired /\ input.state # "abandoned"
    BY <1>3, <1>4, <1>7 DEF EvaluateVerification, Decided, Decision, Terminal, FailureCode, NoFailure
  <1> QED
    BY <1>5, <1>6, <1>7

-----------------------------------------------------------------------------
(* The values tasks and sessions start from have their types. *)
LEMMA StartTypes ==
  /\ NoSession \in SessionRecord /\ NoRecord \in ProofRecord
  /\ NoVerdict \in Verdict /\ Idle \in TaskRecord
  <1>1. NoSession \in SessionRecord
    BY DEF NoSession, SessionRecord, Moment, Never, Decision, Terminal, FailureCode, NoFailure, Verified
  <1>2. NoRecord \in ProofRecord
    BY DEF NoRecord, ProofRecord, ProtocolState, Verified
  <1>3. NoVerdict \in Verdict
    BY DEF NoVerdict, Verdict, Moment, Never, Decision, FailureCode, NoFailure, Verified
  <1>4. Idle \in TaskRecord
    BY <1>1, <1>2, <1>3 DEF Idle, TaskRecord, Step, Moment, Never
  <1> QED
    BY <1>1, <1>2, <1>3, <1>4

(* Evaluating typed evidence gives a typed verdict. *)
LEMMA VerdictType ==
  ASSUME NEW seen \in SessionRecord, NEW evidence \in ProofRecord, NEW shown,
         shown.revealed \in BOOLEAN, clock \in Nat
  PROVE  SyncVerdict(seen, evidence, shown) \in Verdict
  <1> DEFINE input == Evidence(seen, evidence, shown)
             evaluation ==
               IF IsTerminal(seen.decision)
                 THEN [decision |-> seen.decision, failureCode |-> seen.failureCode, attributes |-> shown.revealed]
                 ELSE EvaluateVerification(input)
  <1>1. input.phrases \subseteq Phrase
    BY DEF Evidence, ProofRecord
  <1>2. /\ evaluation.decision \in Decision /\ evaluation.failureCode \in FailureCode
        /\ evaluation.attributes \in BOOLEAN
    BY <1>1, EvaluationType DEF SessionRecord
  <1>3. /\ evidence.isVerified \in Verified /\ ResultVisibility \in Nat
        /\ seen.completedAt \in Moment /\ seen.visibleUntil \in Moment /\ seen.expiresAt \in Moment
    BY NumbersAssumption DEF SessionRecord, ProofRecord
  <1>4. /\ clock \in Moment /\ clock + ResultVisibility \in Moment
        /\ seen.expiresAt + ResultVisibility \in Moment
    BY <1>3, NumbersAssumption DEF Moment, Never
  <1> HIDE DEF evaluation
  <1>5. SyncVerdict(seen, evidence, shown) =
          LET becameTerminal == IsTerminal(evaluation.decision) /\ seen.completedAt = Never
              terminalAt == IF RequestExpired(seen, evidence) THEN seen.expiresAt ELSE clock
          IN [decision |-> evaluation.decision, failureCode |-> evaluation.failureCode,
              attributes |-> evaluation.attributes, isVerified |-> evidence.isVerified,
              completedAt |-> IF becameTerminal THEN terminalAt ELSE seen.completedAt,
              visibleUntil |-> IF becameTerminal THEN terminalAt + ResultVisibility ELSE seen.visibleUntil]
    BY DEF SyncVerdict, evaluation
  <1> QED
    BY <1>2, <1>3, <1>4, <1>5 DEF Verdict

(* Committing a typed verdict keeps a session record a session record. *)
LEMMA ApplyType ==
  ASSUME NEW record \in SessionRecord, NEW v \in Verdict
  PROVE  ApplyVerdict(record, v) \in SessionRecord
  BY DEF ApplyVerdict, SessionRecord, Verdict

-----------------------------------------------------------------------------
(* What the building blocks of the actions do to the tasks. *)
LEMMA BeginType ==
  ASSUME task \in [Task -> TaskRecord], NEW t \in Task, NEW r \in TaskRecord, Begin(t, r)
  PROVE  task' \in [Task -> TaskRecord]
  BY DEF Begin

(* A task that ends is idle. *)
LEMMA FinishType ==
  ASSUME task \in [Task -> TaskRecord], NEW t \in Task, Finish(t)
  PROVE  task' \in [Task -> TaskRecord]
  BY StartTypes DEF Finish

(* A task that goes on keeps its record and still knows its session. *)
LEMMA ContinueType ==
  ASSUME task \in [Task -> TaskRecord], NEW t \in Task, ~At(t, "idle"), NEW step, Continue(t, step),
         step \in Step \ {"idle", "start-insert", "claim-link", "sync-reply"}
  PROVE  task' \in [Task -> TaskRecord]
  <1>1. task[t] \in TaskRecord /\ task[t].pc # "idle"
    BY DEF At
  <1>2. [task[t] EXCEPT !.pc = step] \in TaskRecord
    BY <1>1 DEF TaskRecord
  <1> QED
    BY <1>2 DEF Continue

(* A task in progress is about a session. *)
LEMMA TaskSession ==
  ASSUME task \in [Task -> TaskRecord], NEW t \in Task, ~At(t, "idle")
  PROVE  task[t].session \in Session
  BY DEF TaskRecord, At

(* What a task becomes when its synchronisation has ended with a record,    *)
(* fields telling whether the status of the session shows any.              *)
Follows(t, record, fields, r) ==
  /\ r.pc \in {"clean-check", "sync-reply", "answer-list", "answer-result", "disclosed"}
  /\ r.session = task[t].session
  /\ r.pc \in {"clean-check", "sync-reply", "answer-list"} => r.seen = record
  /\ r.pc = "sync-reply" => Notifies(t, record)
  /\ r.pc \in {"answer-list", "disclosed"} => fields
Ended(t, record, fields) == Finish(t) \/ \E r \in TaskRecord : Begin(t, r) /\ Follows(t, record, fields, r)

(* Where a synchronisation leaves its task. *)
LEMMA AfterSyncEnds ==
  ASSUME task \in [Task -> TaskRecord], NEW t \in Task, ~At(t, "idle"),
         NEW record \in SessionRecord, NEW verdict \in Verdict, AfterSync(t, record, verdict)
  PROVE  Ended(t, record, verdict.attributes /\ DetailsVisible(record))
  <1> DEFINE fields == verdict.attributes /\ DetailsVisible(record)
             clean == [Idle EXCEPT !.pc = "clean-check", !.session = task[t].session, !.seen = record]
             notice == [Idle EXCEPT !.pc = "sync-reply", !.session = task[t].session, !.seen = record,
                                    !.verdict.attributes = verdict.attributes]
             list == [Idle EXCEPT !.pc = "answer-list", !.session = task[t].session, !.seen = record]
             result == [Idle EXCEPT !.pc = "answer-result", !.session = task[t].session]
             sent == [Idle EXCEPT !.pc = "disclosed", !.session = task[t].session, !.verdict.attributes = TRUE]
  <1>1. task[t].session \in Session
    BY TaskSession
  <1>2. clean \in TaskRecord /\ list \in TaskRecord /\ result \in TaskRecord
    BY <1>1, StartTypes, NamesAssumption DEF TaskRecord, Step, Idle
  <1>3. ASSUME IsTerminal(record.decision) PROVE notice \in TaskRecord
    <2>1. [NoVerdict EXCEPT !.attributes = verdict.attributes] \in Verdict
      BY StartTypes DEF Verdict
    <2> QED
      BY <1>1, <1>3, <2>1, StartTypes, NamesAssumption DEF TaskRecord, Step, Idle
  <1>4. sent \in TaskRecord
    <2>1. [NoVerdict EXCEPT !.attributes = TRUE] \in Verdict
      BY StartTypes DEF Verdict
    <2> QED
      BY <1>1, <2>1, StartTypes, NamesAssumption DEF TaskRecord, Step, Idle
  <1>5. /\ clean.pc = "clean-check" /\ clean.session = task[t].session /\ clean.seen = record
        /\ notice.pc = "sync-reply" /\ notice.session = task[t].session /\ notice.seen = record
        /\ list.pc = "answer-list" /\ list.session = task[t].session /\ list.seen = record
        /\ result.pc = "answer-result" /\ result.session = task[t].session
        /\ sent.pc = "disclosed" /\ sent.session = task[t].session
    BY DEF Idle
  <1>6. \/ Finish(t) \/ Begin(t, clean)
        \/ Begin(t, notice) /\ Notifies(t, record)
        \/ fields /\ (Begin(t, list) \/ Begin(t, sent))
        \/ Begin(t, result)
    BY DEF AfterSync, AnswerReader, Disclose
  <1> HIDE DEF fields, clean, notice, list, result, sent
  <1>7. /\ Follows(t, record, fields, clean) /\ Follows(t, record, fields, result)
        /\ Notifies(t, record) => Follows(t, record, fields, notice)
        /\ fields => Follows(t, record, fields, list) /\ Follows(t, record, fields, sent)
    BY <1>5 DEF Follows
  <1>8. Notifies(t, record) => notice \in TaskRecord
    BY <1>3 DEF Notifies
  <1>9. Ended(t, record, fields)
    BY <1>2, <1>4, <1>6, <1>7, <1>8 DEF Ended
  <1> QED
    BY <1>9 DEF fields

(* So it stays typed. *)
LEMMA AfterSyncType ==
  ASSUME task \in [Task -> TaskRecord], NEW t \in Task, ~At(t, "idle"),
         NEW record \in SessionRecord, NEW verdict \in Verdict, AfterSync(t, record, verdict)
  PROVE  task' \in [Task -> TaskRecord]
  BY AfterSyncEnds, BeginType, FinishType DEF Ended

(* A new exchange is recorded with its types. *)
LEMMA NewExchangeType ==
  ASSUME TypeOK, NEW s \in Session, NEW p \in Proof, NewExchange(s, p)
  PROVE  proofRecord' \in [Proof -> ProofRecord] /\ madeFor' \in [Proof -> Session \cup {None}]
  <1>1. [NoRecord EXCEPT !.state = "request-sent", !.updatedAt = clock] \in ProofRecord
    BY DEF TypeOK, NoRecord, ProofRecord, ProtocolState, Verified
  <1> QED
    BY <1>1 DEF NewExchange, TypeOK

-----------------------------------------------------------------------------
(* The type invariant, action by action. *)
LEMMA RequestTypes ==
  ASSUME TypeOK, NEW h \in Handler, Request(h)
  PROVE  TypeOK'
  <1> USE StartTypes, NamesAssumption, NumbersAssumption
  <1>1. h \in Task /\ task \in [Task -> TaskRecord] /\ store \in [Session -> SessionRecord] /\ clock \in Nat
    BY DEF Task, TypeOK
  <1>2. ASSUME NEW s \in Session, NEW p \in Proof, StartSession(h, s, p) PROVE TypeOK'
    <2>1. [Idle EXCEPT !.pc = "start-insert", !.session = s, !.proof = p, !.stamp = clock] \in TaskRecord
      BY <1>1 DEF TaskRecord, Step, Idle, Moment
    <2>2. task' \in [Task -> TaskRecord]
      BY <1>1, <1>2, <2>1, BeginType DEF StartSession
    <2>3. proofRecord' \in [Proof -> ProofRecord] /\ madeFor' \in [Proof -> Session \cup {None}]
      BY <1>2, NewExchangeType DEF StartSession
    <2> QED
      BY <1>2, <2>2, <2>3 DEF StartSession, TypeOK
  <1>3. ASSUME NEW s \in Session, ClaimCheckout(h, s) PROVE TypeOK'
    <2>1. [Idle EXCEPT !.pc = "claim-gate", !.session = s] \in TaskRecord
      BY DEF TaskRecord, Step, Idle
    <2>2. task' \in [Task -> TaskRecord]
      BY <1>1, <1>3, <2>1, BeginType DEF ClaimCheckout
    <2> QED
      BY <1>3, <2>2 DEF ClaimCheckout, TypeOK, credo
  <1>4. ASSUME NEW s \in Session, PollStatus(h, s) PROVE TypeOK'
    <2>1. [Idle EXCEPT !.pc = "sync-proof", !.session = s, !.seen = store[s]] \in TaskRecord
      BY <1>1 DEF TaskRecord, Step, Idle
    <2>2. task' \in [Task -> TaskRecord]
      BY <1>1, <1>4, <2>1, BeginType DEF PollStatus
    <2> QED
      BY <1>4, <2>2 DEF PollStatus, TypeOK, credo
  <1>5. ASSUME NEW e \in events, HandleProofEvent(h, e) PROVE TypeOK'
    <2>1. e.record \in ProofRecord
      BY DEF TypeOK
    <2>2. \A s \in Session :
            [Idle EXCEPT !.pc = "sync-proof", !.session = s, !.seen = store[s],
                         !.evidence = e.record, !.notify = TRUE] \in TaskRecord
      BY <1>1, <2>1 DEF TaskRecord, Step, Idle
    <2>3. task' \in [Task -> TaskRecord]
      BY <1>1, <1>5, <2>2, BeginType DEF HandleProofEvent
    <2> QED
      BY <1>5, <2>3 DEF HandleProofEvent, TypeOK, credo
  <1> QED
    BY <1>2, <1>3, <1>4, <1>5 DEF Request

(* The steps of a scan and of a claim keep the types. *)
LEMMA StartAndClaimTypes ==
  ASSUME TypeOK, NEW h \in Handler,
         \/ StartInsert(h) \/ ClaimGate(h) \/ ClaimSave(h) \/ ClaimLink(h) \/ ClaimFail(h)
         \/ \E p \in Proof : ClaimExchange(h, p)
  PROVE  TypeOK'
  <1> USE StartTypes, NamesAssumption, NumbersAssumption
  <1>1. h \in Task /\ task \in [Task -> TaskRecord] /\ store \in [Session -> SessionRecord] /\ clock \in Nat
    BY DEF Task, TypeOK
  <1>2. CASE StartInsert(h)
    <2>1. task[h].proof \in Proof /\ task[h].stamp + SessionTtl \in Moment
      BY <1>1, <1>2 DEF StartInsert, At, TaskRecord, Moment, Never
    <2>2. [NoSession EXCEPT !.mode = "STATIC", !.proof = task[h].proof,
                            !.expiresAt = task[h].stamp + SessionTtl] \in SessionRecord
      BY <2>1 DEF SessionRecord, NoSession
    <2>3. task' \in [Task -> TaskRecord]
      BY <1>1, <1>2, FinishType DEF StartInsert
    <2> QED
      BY <1>2, <2>1, <2>2, <2>3 DEF StartInsert, Respond, TypeOK
  <1>3. CASE ClaimGate(h)
    <2>1. [task[h] EXCEPT !.pc = "claim-save", !.stamp = clock] \in TaskRecord
      BY <1>1, <1>3 DEF ClaimGate, At, TaskRecord, Step, Moment
    <2>2. task' \in [Task -> TaskRecord]
      BY <1>1, <1>3, <2>1, BeginType, FinishType DEF ClaimGate
    <2> QED
      BY <1>3, <2>2 DEF ClaimGate, TypeOK, credo
  <1>4. CASE ClaimSave(h)
    <2>1. task[h] \in TaskRecord /\ task[h].pc = "claim-save" /\ task[h].session \in Session
      BY <1>1, <1>4, TaskSession DEF ClaimSave, At
    <2>2. /\ [task[h] EXCEPT !.pc = "claim-exchange", !.stamp = Never] \in TaskRecord
          /\ task[h].stamp \in Moment
      BY <2>1 DEF TaskRecord, Step, Moment
    <2>3. task' \in [Task -> TaskRecord]
      BY <1>1, <1>4, <2>2, BeginType, FinishType DEF ClaimSave
    <2>4. [store[task[h].session] EXCEPT !.claimedAt = task[h].stamp] \in SessionRecord
      BY <1>1, <2>1, <2>2 DEF SessionRecord
    <2>5. store' \in [Session -> SessionRecord]
      BY <1>1, <1>4, <2>1, <2>4 DEF ClaimSave
    <2> QED
      BY <1>4, <2>3, <2>5 DEF ClaimSave, TypeOK, credo
  <1>5. CASE ClaimLink(h)
    <2>1. task[h].proof \in Proof /\ task[h].session \in Session
      BY <1>1, <1>5, TaskSession DEF ClaimLink, At, TaskRecord
    <2>2. [store[task[h].session] EXCEPT !.proof = task[h].proof] \in SessionRecord
      BY <1>1, <2>1 DEF SessionRecord
    <2>3. task' \in [Task -> TaskRecord]
      BY <1>1, <1>5, FinishType DEF ClaimLink
    <2> QED
      BY <1>5, <2>1, <2>2, <2>3 DEF ClaimLink, Respond, TypeOK
  <1>6. CASE ClaimFail(h)
    <2>1. task[h].session \in Session
      BY <1>1, <1>6, TaskSession DEF ClaimFail, At
    <2>2. FailedClaim(store[task[h].session]) \in SessionRecord
      BY <1>1, <2>1 DEF FailedClaim, SessionRecord, Decision, Terminal, FailureCode, Moment
    <2>3. task' \in [Task -> TaskRecord]
      BY <1>1, <1>6, FinishType DEF ClaimFail
    <2> QED
      BY <1>6, <2>2, <2>3 DEF ClaimFail, TypeOK, credo
  <1>7. ASSUME NEW p \in Proof, ClaimExchange(h, p) PROVE TypeOK'
    <2>1. task[h].session \in Session /\ task[h] \in TaskRecord /\ task[h].pc = "claim-exchange"
      BY <1>1, <1>7, TaskSession DEF ClaimExchange, At
    <2>2. [task[h] EXCEPT !.pc = "claim-link", !.proof = p] \in TaskRecord
      BY <2>1 DEF TaskRecord, Step
    <2>3. task' \in [Task -> TaskRecord]
      BY <1>1, <1>7, <2>2, BeginType DEF ClaimExchange
    <2>4. proofRecord' \in [Proof -> ProofRecord] /\ madeFor' \in [Proof -> Session \cup {None}]
      BY <1>7, <2>1, NewExchangeType DEF ClaimExchange
    <2> QED
      BY <1>7, <2>3, <2>4 DEF ClaimExchange, TypeOK
  <1> QED
    BY <1>2, <1>3, <1>4, <1>5, <1>6, <1>7

(* So do the steps of a synchronisation, which commit typed verdicts only. *)
LEMMA SyncTypes ==
  ASSUME TypeOK, NEW t \in Task, Sync(t)
  PROVE  TypeOK'
  <1> USE StartTypes, NamesAssumption
  <1>1. task \in [Task -> TaskRecord] /\ store \in [Session -> SessionRecord] /\ clock \in Nat
    BY DEF TypeOK
  <1>2. /\ task[t] \in TaskRecord /\ task[t].pc # "idle" /\ ~At(t, "idle") /\ task[t].session \in Session
        /\ task[t].seen \in SessionRecord /\ task[t].evidence \in ProofRecord /\ task[t].verdict \in Verdict
    BY <1>1, TaskSession DEF Sync, SyncProof, SyncEvaluate, SyncCommit, At, TaskRecord
  <1>3. CASE SyncProof(t)
    <2> DEFINE read == IF task[t].seen.proof = None THEN NoRecord ELSE proofRecord[task[t].seen.proof]
               evidence == IF task[t].notify THEN task[t].evidence ELSE read
               next == [task[t] EXCEPT !.pc = "sync-evaluate", !.evidence = evidence]
    <2>1. evidence \in ProofRecord
      BY <1>2 DEF TypeOK, SessionRecord
    <2>2. next \in TaskRecord
      <3> HIDE DEF evidence
      <3> QED
        BY <1>2, <2>1 DEF TaskRecord, Step
    <2>3. ASSUME task[t].seen.removed PROVE task' \in [Task -> TaskRecord]
      BY <1>1, <1>2, <1>3, <2>3, AfterSyncType DEF SyncProof
    <2>4. ASSUME ~task[t].seen.removed PROVE task' \in [Task -> TaskRecord]
      <3>1. Begin(t, next)
        BY <1>3, <2>4 DEF SyncProof, Begin
      <3> QED
        BY <1>1, <2>2, <3>1, BeginType
    <2>5. task' \in [Task -> TaskRecord]
      BY <2>3, <2>4
    <2> QED
      BY <1>3, <2>5 DEF SyncProof, TypeOK, credo
  <1>4. CASE SyncEvaluate(t)
    <2> DEFINE shown == IF ReadsPresentation(t) THEN presentation[task[t].seen.proof] ELSE NoPresentation
               next == [Idle EXCEPT !.pc = "sync-commit", !.session = task[t].session, !.notify = task[t].notify,
                                    !.verdict = SyncVerdict(task[t].seen, task[t].evidence, shown)]
    <2>1. shown.revealed \in BOOLEAN
      <3>1. CASE ReadsPresentation(t)
        <4>1. task[t].seen.proof \in Proof
          BY <1>2, <3>1 DEF ReadsPresentation, SessionRecord
        <4>2. shown \in Presentation \cup {NoPresentation}
          BY <3>1, <4>1 DEF TypeOK
        <4> HIDE DEF shown
        <4>3. shown \in Presentation \/ shown = NoPresentation
          BY <4>2
        <4>4. \A e \in Presentation : e.revealed \in BOOLEAN
          BY EvidenceAssumption
        <4>5. NoPresentation.revealed \in BOOLEAN
          BY DEF NoPresentation
        <4> QED
          BY <4>3, <4>4, <4>5, Zenon
      <3>2. CASE ~ReadsPresentation(t)
        BY <3>2 DEF NoPresentation
      <3> QED
        BY <3>1, <3>2
    <2>2. SyncVerdict(task[t].seen, task[t].evidence, shown) \in Verdict
      BY <1>1, <1>2, <2>1, VerdictType
    <2>3. next \in TaskRecord
      BY <1>2, <2>2 DEF TaskRecord, Step, Idle
    <2>4. task' \in [Task -> TaskRecord]
      BY <1>1, <1>4, <2>3, BeginType, FinishType DEF SyncEvaluate
    <2> QED
      BY <1>4, <2>4 DEF SyncEvaluate, TypeOK, credo
  <1>5. CASE SyncCommit(t)
    <2>1. ApplyVerdict(store[task[t].session], task[t].verdict) \in SessionRecord
      BY <1>1, <1>2, ApplyType
    <2>2. task' \in [Task -> TaskRecord]
      BY <1>1, <1>2, <1>5, <2>1, AfterSyncType DEF SyncCommit
    <2> QED
      BY <1>5, <2>1, <2>2 DEF SyncCommit, TypeOK, credo
  <1> QED
    BY <1>3, <1>4, <1>5 DEF Sync

(* The webhook of a notification carries a terminal decision. *)
LEMMA ReplyTypes ==
  ASSUME TypeOK, NEW h \in Handler, SyncReply(h)
  PROVE  TypeOK'
  <1>1. h \in Task /\ task \in [Task -> TaskRecord]
    BY DEF Task, TypeOK
  <1> DEFINE seen == task[h].seen
             notice == [session |-> task[h].session, decision |-> seen.decision, completedAt |-> seen.completedAt,
                        attributes |-> task[h].verdict.attributes /\ DetailsVisible(seen)]
  <1>2. /\ task[h].session \in Session /\ IsTerminal(seen.decision)
        /\ seen \in SessionRecord /\ task[h].verdict \in Verdict
    BY <1>1, TaskSession DEF SyncReply, At, TaskRecord
  <1>3. seen.completedAt \in Moment /\ seen.decision \in Terminal
    BY <1>2 DEF SessionRecord, Decision, IsTerminal
  <1>4. (task[h].verdict.attributes /\ DetailsVisible(seen)) \in BOOLEAN
    OBVIOUS
  <1>5. notice \in Webhook
    BY <1>2, <1>3, <1>4 DEF Webhook
  <1>6. task' \in [Task -> TaskRecord]
    BY <1>1, FinishType DEF SyncReply
  <1>7. webhooks' \subseteq Webhook
    <2>1. webhooks' \in {webhooks, webhooks \cup {notice}}
      BY DEF SyncReply
    <2> HIDE DEF notice
    <2> QED
      BY <1>5, <2>1 DEF TypeOK
  <1> QED
    BY <1>6, <1>7 DEF SyncReply, TypeOK, credo

(* An answer is given or refused. *)
LEMMA AnswerEnds ==
  ASSUME task \in [Task -> TaskRecord], NEW h \in Handler, Answer(h)
  PROVE  /\ Finish(h) \/ \E r \in TaskRecord : Begin(h, r) /\ r.pc = "disclosed"
         /\ UNCHANGED <<clock, store, credo, events, sweep, webhooks, troubles>>
  <1>1. h \in Task
    BY DEF Task
  <1>2. ASSUME NEW fields \in BOOLEAN, Disclose(h, fields), ~At(h, "idle")
        PROVE  \E r \in TaskRecord : Begin(h, r) /\ r.pc = "disclosed"
    <2> DEFINE r == [Idle EXCEPT !.pc = "disclosed", !.session = task[h].session, !.verdict.attributes = fields]
    <2>1. task[h].session \in Session
      BY <1>1, <1>2, TaskSession
    <2>2. [NoVerdict EXCEPT !.attributes = fields] \in Verdict
      BY StartTypes DEF Verdict
    <2>3. r \in TaskRecord /\ r.pc = "disclosed"
      BY <2>1, <2>2, StartTypes, NamesAssumption DEF TaskRecord, Step, Idle
    <2>4. Begin(h, r)
      BY <1>2 DEF Disclose
    <2> QED
      BY <2>3, <2>4
  <1>3. \/ Finish(h)
        \/ ~At(h, "idle") /\ (Disclose(h, TRUE) \/ Disclose(h, FALSE))
    BY DEF Answer, AnswerList, AnswerResult, Sent, At
  <1>4. UNCHANGED <<clock, store, credo, events, sweep, webhooks, troubles>>
    BY DEF Answer, AnswerList, AnswerResult, Sent
  <1> QED
    BY <1>2, <1>3, <1>4

(* So it changes nothing but the task. *)
LEMMA AnswerTypes ==
  ASSUME TypeOK, NEW h \in Handler, Answer(h)
  PROVE  TypeOK'
  <1>1. task \in [Task -> TaskRecord] /\ h \in Task
    BY DEF TypeOK, Task
  <1>2. task' \in [Task -> TaskRecord]
    BY <1>1, AnswerEnds, BeginType, FinishType
  <1>3. UNCHANGED <<clock, store, credo, events, sweep, webhooks, troubles>>
    BY <1>1, AnswerEnds
  <1> QED
    BY <1>2, <1>3 DEF TypeOK, credo

(* The steps of a cleanup run visit typed snapshots of sessions. *)
LEMMA CleanerTypes ==
  ASSUME TypeOK, NEW c \in Cleaner, CleanerStep(c)
  PROVE  TypeOK'
  <1> USE StartTypes, NamesAssumption
  <1>1. c \in Task /\ task \in [Task -> TaskRecord] /\ store \in [Session -> SessionRecord]
    BY DEF Task, TypeOK
  <1>2. ASSUME NEW s \in Session, NEW record \in SessionRecord
        PROVE  [Idle EXCEPT !.pc = "sync-proof", !.session = s, !.seen = record] \in TaskRecord
    BY DEF TaskRecord, Step, Idle
  <1>3. CASE CleanupLists(c)
    <2> DEFINE listed == {[session |-> s, record |-> store[s]] : s \in {x \in Session : Exists(x)}}
    <2>1. listed \subseteq [session : Session, record : SessionRecord]
      BY <1>1
    <2>2. PICK first \in listed : Visit(c, first) /\ sweep' = [sweep EXCEPT ![c] = listed \ {first}]
      BY <1>3 DEF CleanupLists
    <2>3. task' \in [Task -> TaskRecord]
      <3>1. first.session \in Session /\ first.record \in SessionRecord
        BY <2>1, <2>2
      <3> HIDE DEF listed
      <3> QED
        BY <1>1, <1>2, <2>2, <3>1, BeginType DEF Visit
    <2>4. listed \ {first} \in SUBSET [session : Session, record : SessionRecord]
      BY <2>1
    <2>5. sweep' \in [Cleaner -> SUBSET [session : Session, record : SessionRecord]]
      <3> HIDE DEF listed
      <3> QED
        BY <2>2, <2>4 DEF TypeOK
    <2> QED
      BY <1>3, <2>3, <2>5 DEF CleanupLists, TypeOK, credo
  <1>4. ASSUME NEW item \in sweep[c], CleanupContinues(c, item) PROVE TypeOK'
    <2>1. item.session \in Session /\ item.record \in SessionRecord
      BY DEF TypeOK
    <2>2. task' \in [Task -> TaskRecord]
      BY <1>1, <1>2, <1>4, <2>1, BeginType DEF CleanupContinues, Visit
    <2>3. sweep[c] \ {item} \in SUBSET [session : Session, record : SessionRecord]
      BY DEF TypeOK
    <2>4. sweep' \in [Cleaner -> SUBSET [session : Session, record : SessionRecord]]
      BY <1>4, <2>3 DEF CleanupContinues, TypeOK
    <2> QED
      BY <1>4, <2>2, <2>4 DEF CleanupContinues, TypeOK, credo
  <1>5. CASE Sync(c)
    BY <1>1, <1>5, SyncTypes
  <1>6. ASSUME ~At(c, "idle") PROVE task[c].session \in Session /\ task[c] \in TaskRecord
    BY <1>1, <1>6, TaskSession
  <1>7. CASE CleanCheck(c)
    <2> DEFINE latest == store[task[c].session]
               next == [Idle EXCEPT !.pc = "clean-proof", !.session = task[c].session, !.proof = latest.proof]
    <2>1. task[c].session \in Session
      BY <1>6, <1>7 DEF CleanCheck, At
    <2>2. latest.proof \in Proof \cup {None}
      BY <1>1, <2>1 DEF SessionRecord
    <2>3. next \in TaskRecord
      BY <2>1, <2>2 DEF TaskRecord, Step, Idle
    <2>4. task' \in [Task -> TaskRecord]
      BY <1>1, <1>7, <2>3, BeginType, FinishType DEF CleanCheck
    <2> QED
      BY <1>7, <2>4 DEF CleanCheck, TypeOK, credo
  <1>8. CASE CleanProof(c)
    <2>1. task' \in [Task -> TaskRecord]
      BY <1>1, <1>8, ContinueType DEF CleanProof, At, Step
    <2> QED
      BY <1>8, <2>1 DEF CleanProof, TypeOK
  <1>9. CASE CleanInvitation(c)
    <2>1. task' \in [Task -> TaskRecord]
      BY <1>1, <1>9, ContinueType DEF CleanInvitation, At, Step
    <2> QED
      BY <1>9, <2>1 DEF CleanInvitation, TypeOK
  <1>10. CASE CleanMark(c)
    <2>1. task[c].session \in Session
      BY <1>6, <1>10 DEF CleanMark, At
    <2>2. [store[task[c].session] EXCEPT !.removed = TRUE] \in SessionRecord
      BY <1>1, <2>1 DEF SessionRecord
    <2>3. task' \in [Task -> TaskRecord]
      BY <1>1, <1>10, FinishType DEF CleanMark
    <2> QED
      BY <1>10, <2>2, <2>3 DEF CleanMark, TypeOK, credo
  <1> QED
    BY <1>3, <1>4, <1>5, <1>7, <1>8, <1>9, <1>10 DEF CleanerStep

(* The wallet and Credo write typed proof records and raise typed events. *)
LEMMA WalletTypes ==
  ASSUME TypeOK, NEW p \in Proof, Wallet(p)
  PROVE  TypeOK'
  <1>1. ASSUME NEW record \in ProofRecord, Advance(p, record)
        PROVE  /\ proofRecord' \in [Proof -> ProofRecord]
               /\ events' \subseteq [proof : Proof, record : ProofRecord]
    BY <1>1 DEF Advance, TypeOK
  <1>2. ASSUME NEW shown \in Presentation, WalletPresents(p, shown) PROVE TypeOK'
    <2> DEFINE record == [NoRecord EXCEPT !.state = "presentation-received", !.isVerified = "yes", !.updatedAt = clock]
    <2>1. record \in ProofRecord
      BY DEF TypeOK, NoRecord, ProofRecord, ProtocolState, Verified
    <2>2. Advance(p, record)
      BY <1>2 DEF WalletPresents
    <2> HIDE DEF record
    <2> QED
      BY <1>1, <1>2, <2>1, <2>2 DEF WalletPresents, Advance, TypeOK
  <1>3. ASSUME NEW outcome \in FailedExchange, ExchangeFails(p, outcome) PROVE TypeOK'
    <2> DEFINE record == [state |-> outcome.state, isVerified |-> outcome.isVerified,
                          phrases |-> outcome.phrases, updatedAt |-> clock]
    <2>1. /\ outcome.state \in ProtocolState /\ outcome.isVerified \in {"unset", "no"}
          /\ outcome.phrases \subseteq Phrase
      BY EvidenceAssumption
    <2>2. record \in ProofRecord
      BY <2>1 DEF TypeOK, ProofRecord, Verified
    <2>3. Advance(p, record)
      BY <1>3 DEF ExchangeFails
    <2> HIDE DEF record
    <2> QED
      BY <1>1, <1>3, <2>2, <2>3 DEF ExchangeFails, Advance, TypeOK
  <1>4. CASE CredoCompletes(p)
    <2> DEFINE record == [proofRecord[p] EXCEPT !.state = "done", !.updatedAt = clock]
    <2>1. record \in ProofRecord
      BY DEF TypeOK, ProofRecord, ProtocolState
    <2>2. Advance(p, record)
      BY <1>4 DEF CredoCompletes
    <2> HIDE DEF record
    <2> QED
      BY <1>1, <1>4, <2>1, <2>2 DEF CredoCompletes, Advance, TypeOK
  <1> QED
    BY <1>2, <1>3, <1>4 DEF Wallet

(* Failing calls and restarts leave typed, mostly idle, tasks. *)
LEMMA TroubleTypes ==
  ASSUME TypeOK, Trouble
  PROVE  TypeOK'
  <1> USE StartTypes, NumbersAssumption
  <1>1. task \in [Task -> TaskRecord] /\ troubles \in Nat
    BY DEF TypeOK
  <1>2. ASSUME Restart, troubles' = troubles + 1 PROVE TypeOK'
    BY <1>1, <1>2 DEF Restart, TypeOK, credo
  <1>3. ASSUME NEW t \in Task, CallFails(t) PROVE TypeOK'
    <2>1. task' \in [Task -> TaskRecord]
      BY <1>1, <1>3, ContinueType, FinishType DEF CallFails, At, Step
    <2> QED
      BY <1>1, <1>3, <2>1 DEF CallFails, TypeOK, credo
  <1>4. ASSUME NEW h \in Handler, NEW s \in Session, NEW p \in Proof, LeaveProofBehind(h, s, p) PROVE TypeOK'
    <2>1. proofRecord' \in [Proof -> ProofRecord] /\ madeFor' \in [Proof -> Session \cup {None}]
      BY <1>4, NewExchangeType DEF LeaveProofBehind
    <2>2. task' \in [Task -> TaskRecord]
      BY <1>1, <1>4, ContinueType DEF LeaveProofBehind, At, Step, Task
    <2> QED
      BY <1>1, <1>4, <2>1, <2>2 DEF LeaveProofBehind, TypeOK
  <1> QED
    BY <1>2, <1>3, <1>4 DEF Trouble, Crash, CleanupListFails

(* Time, the creation of a checkout and a repeated scan. *)
LEMMA OtherTypes ==
  ASSUME TypeOK, Tick \/ \E s \in Session : CreateCheckoutSession(s) \/ StartSessionAgain(s)
  PROVE  TypeOK'
  <1> USE NumbersAssumption
  <1>1. clock \in Nat /\ store \in [Session -> SessionRecord]
    BY DEF TypeOK
  <1>2. CASE Tick
    BY <1>1, <1>2 DEF Tick, TypeOK, credo
  <1>3. ASSUME NEW s \in Session, CreateCheckoutSession(s) PROVE TypeOK'
    <2>1. clock + SessionTtl \in Moment
      BY <1>1 DEF Moment
    <2>2. [NoSession EXCEPT !.mode = "CHECKOUT", !.expiresAt = clock + SessionTtl] \in SessionRecord
      BY <2>1, StartTypes DEF SessionRecord
    <2> QED
      BY <1>1, <1>3, <2>2 DEF CreateCheckoutSession, TypeOK, credo
  <1>4. ASSUME NEW s \in Session, StartSessionAgain(s) PROVE TypeOK'
    <2>1. store[s].proof \in Proof
      BY <1>1, <1>4, NamesAssumption DEF StartSessionAgain, SessionRecord
    <2> QED
      BY <1>4, <2>1 DEF StartSessionAgain, TypeOK
  <1> QED
    BY <1>2, <1>3, <1>4

(* The empty store is typed. *)
LEMMA InitTypes == Init => TypeOK
  BY StartTypes DEF Init, TypeOK

(* Every step keeps the types. *)
LEMMA NextTypes == TypeOK /\ [Next]_vars => TypeOK'
  <1> SUFFICES ASSUME TypeOK, [Next]_vars PROVE TypeOK'
    OBVIOUS
  <1>1. CASE UNCHANGED vars
    BY <1>1 DEF vars, credo, TypeOK
  <1>2. ASSUME NEW h \in Handler, HandlerStep(h) PROVE TypeOK'
    <2>1. h \in Task
      BY DEF Task
    <2> QED
      BY <1>2, <2>1, StartAndClaimTypes, SyncTypes, ReplyTypes, AnswerTypes DEF HandlerStep
  <1> QED
    BY <1>1, <1>2, OtherTypes, RequestTypes, CleanerTypes, WalletTypes, TroubleTypes DEF Next

(* Whatever the constants, every reachable state is well typed.  The parts  *)
(* that matter later: a running task is about a session, a task about to    *)
(* link an exchange has one, and only decided sessions are notified.        *)
THEOREM TypeCorrect == Spec => []TypeOK
  BY InitTypes, NextTypes, PTL DEF Spec

-----------------------------------------------------------------------------
(* SingleExchange.  It is not inductive: that a claim creates no second     *)
(* exchange depends on what its handler has already done.  ClaimOwnership   *)
(* says that, and the two together are.                                     *)
ClaimInv == TypeOK /\ ClaimOwnership /\ SingleExchange

(* What ClaimOwnership says of one handler and of two.                      *)
HandlerOwns(h) ==
  /\ At(h, "start-insert") => task[h].session \in Session \ Checkout
  /\ At(h, "claim-gate") \/ At(h, "claim-save") \/ Claiming(h) => store[task[h].session].mode = "CHECKOUT"
  /\ At(h, "claim-save") => task[h].stamp # Never
  /\ Claiming(h) => store[task[h].session].claimedAt # Never
  /\ At(h, "claim-exchange") => \A p \in Proof : madeFor[p] # task[h].session
SessionsOwned ==
  \A s \in Session : /\ store[s].mode = "CHECKOUT" => s \in Checkout
                     /\ store[s].claimedAt # Never => store[s].mode = "CHECKOUT"
OneOwner ==
  \A g, h \in Handler : Claiming(g) /\ Claiming(h) /\ task[g].session = task[h].session => g = h

(* ClaimOwnership is exactly these parts: about the records, about one      *)
(* handler, and about two.                                                  *)
LEMMA OwnershipParts ==
  ClaimOwnership <=> SessionsOwned /\ (\A h \in Handler : HandlerOwns(h)) /\ OneOwner
  BY DEF ClaimOwnership, SessionsOwned, HandlerOwns, OneOwner

(* A step that neither creates an exchange nor starts or advances a claim   *)
(* (it may end or fail one) keeps the invariant.                            *)
Quiet ==
  /\ madeFor' = madeFor
  /\ \A s \in Session : store'[s].mode = store[s].mode /\ store'[s].claimedAt = store[s].claimedAt
  /\ \A h \in Handler :
       \/ task'[h] = task[h]
       \/ task'[h].pc \notin {"start-insert", "claim-gate", "claim-save",
                              "claim-exchange", "claim-link", "claim-fail"}
       \/ Claiming(h) /\ task'[h].pc = "claim-fail" /\ task'[h].session = task[h].session

(* Polls, webhooks, cleanup and the wallet take quiet steps only. *)
LEMMA QuietKeeps ==
  ASSUME ClaimInv, Quiet
  PROVE  ClaimOwnership' /\ SingleExchange'
  <1>1. /\ SessionsOwned /\ OneOwner /\ SingleExchange /\ task \in [Task -> TaskRecord]
        /\ \A h \in Handler : HandlerOwns(h)
    BY OwnershipParts DEF ClaimInv, TypeOK
  <1>2. SessionsOwned'
    BY <1>1 DEF SessionsOwned, Quiet
  <1>3. ASSUME NEW h \in Handler, Claiming(h)' PROVE Claiming(h) /\ task'[h].session = task[h].session
    BY <1>3 DEF Claiming, Quiet
  <1>4. OneOwner'
    BY <1>1, <1>3 DEF OneOwner
  <1>5. ASSUME NEW h \in Handler PROVE HandlerOwns(h)'
    <2>1. CASE task'[h] = task[h]
      <3>1. h \in Task
        BY DEF Task
      <3>2. task[h].pc # "idle" => task[h].session \in Session
        BY <1>1, <3>1 DEF TaskRecord
      <3> QED
        BY <1>1, <2>1, <3>2 DEF HandlerOwns, Quiet, At, Claiming
    <2>2. CASE task'[h].pc \notin {"start-insert", "claim-gate", "claim-save",
                                   "claim-exchange", "claim-link", "claim-fail"}
      BY <2>2 DEF HandlerOwns, At, Claiming
    <2>3. CASE Claiming(h) /\ task'[h].pc = "claim-fail" /\ task'[h].session = task[h].session
      <3>1. task[h].session \in Session
        BY <1>1, <2>3 DEF Task, TaskRecord, Claiming
      <3> QED
        BY <1>1, <2>3, <3>1 DEF HandlerOwns, Quiet, At, Claiming
    <2> QED
      BY <2>1, <2>2, <2>3 DEF Quiet
  <1>6. SingleExchange'
    <2>1. \A s \in Checkout : s \in Session
      BY NamesAssumption
    <2> QED
      BY <1>1, <2>1 DEF SingleExchange, Quiet
  <1> QED
    BY <1>2, <1>4, <1>5, <1>6 DEF ClaimOwnership, SessionsOwned, HandlerOwns, OneOwner

(* A new exchange goes to a session that has none and, for a checkout, to   *)
(* one that has been claimed; then exchanges stay single.                   *)
LEMMA NewExchangeSingle ==
  ASSUME SingleExchange, madeFor \in [Proof -> Session \cup {None}],
         NEW s \in Session, NEW p \in Proof, NewExchange(s, p),
         \A q \in Proof : madeFor[q] # s,
         s \in Checkout => store[s].claimedAt # Never,
         store' = store
  PROVE  SingleExchange'
  <1>1. \A q \in Proof : madeFor'[q] = IF q = p THEN s ELSE madeFor[q]
    BY DEF NewExchange
  <1> QED
    BY <1>1 DEF SingleExchange

(* Beginning a request keeps the ownership and the single exchange. *)
LEMMA RequestClaims ==
  ASSUME ClaimInv, NEW h \in Handler, Request(h)
  PROVE  ClaimOwnership' /\ SingleExchange'
  <1>1. /\ SessionsOwned /\ OneOwner /\ SingleExchange
        /\ \A g \in Handler : HandlerOwns(g)
        /\ task \in [Task -> TaskRecord] /\ store \in [Session -> SessionRecord]
        /\ madeFor \in [Proof -> Session \cup {None}] /\ h \in Task /\ Handler \subseteq Task
    BY OwnershipParts DEF ClaimInv, TypeOK, Task
  <1>2. ASSUME NEW s \in Session, NEW p \in Proof, StartSession(h, s, p)
        PROVE  ClaimOwnership' /\ SingleExchange'
    <2>1. /\ task' = [task EXCEPT ![h] = [Idle EXCEPT !.pc = "start-insert", !.session = s, !.proof = p, !.stamp = clock]]
          /\ store' = store /\ s \notin Checkout /\ \A q \in Proof : madeFor[q] # s
          /\ \A q \in Proof : madeFor'[q] = IF q = p THEN s ELSE madeFor[q]
      BY <1>1, <1>2 DEF StartSession, MayStart, Begin, NewExchange
    <2>2. task'[h].pc = "start-insert" /\ task'[h].session = s /\ ~Claiming(h)'
      BY <1>1, <2>1 DEF Idle, Claiming
    <2>3. \A g \in Handler : g # h => task'[g] = task[g]
      BY <1>1, <2>1
    <2>4. SessionsOwned' /\ OneOwner'
      BY <1>1, <2>1, <2>2, <2>3 DEF SessionsOwned, OneOwner, Claiming
    <2>5. ASSUME NEW g \in Handler PROVE HandlerOwns(g)'
      <3>1. CASE g = h
        BY <2>1, <2>2, <3>1 DEF HandlerOwns, At, Claiming
      <3>2. CASE g # h
        <4>1. At(g, "claim-exchange") => task[g].session \in Checkout
          BY <1>1 DEF HandlerOwns, SessionsOwned, At, Claiming, TaskRecord
        <4> QED
          BY <1>1, <2>1, <2>3, <3>2, <4>1 DEF HandlerOwns, At, Claiming
      <3> QED
        BY <3>1, <3>2
    <2>6. SingleExchange'
      BY <1>1, <1>2, <2>1, NewExchangeSingle DEF StartSession
    <2> QED
      BY <2>4, <2>5, <2>6 DEF ClaimOwnership, SessionsOwned, HandlerOwns, OneOwner
  <1>3. ASSUME NEW s \in Session, ClaimCheckout(h, s)
        PROVE  ClaimOwnership' /\ SingleExchange'
    <2>1. /\ task' = [task EXCEPT ![h] = [Idle EXCEPT !.pc = "claim-gate", !.session = s]]
          /\ store' = store /\ madeFor' = madeFor /\ store[s].mode = "CHECKOUT"
      BY <1>3 DEF ClaimCheckout, Begin, credo
    <2>2. task'[h].pc = "claim-gate" /\ task'[h].session = s /\ ~Claiming(h)'
      BY <1>1, <2>1 DEF Idle, Claiming
    <2>3. \A g \in Handler : g # h => task'[g] = task[g]
      BY <1>1, <2>1
    <2>4. SessionsOwned' /\ OneOwner' /\ SingleExchange'
      BY <1>1, <2>1, <2>2, <2>3 DEF SessionsOwned, OneOwner, Claiming, SingleExchange
    <2>5. ASSUME NEW g \in Handler PROVE HandlerOwns(g)'
      <3>1. CASE g = h
        BY <2>1, <2>2, <3>1 DEF HandlerOwns, At, Claiming
      <3>2. CASE g # h
        BY <1>1, <2>1, <2>3, <3>2 DEF HandlerOwns, At, Claiming
      <3> QED
        BY <3>1, <3>2
    <2> QED
      BY <2>4, <2>5 DEF ClaimOwnership, SessionsOwned, HandlerOwns, OneOwner
  <1>4. ASSUME \/ \E s \in Session : PollStatus(h, s)
               \/ \E e \in events : HandleProofEvent(h, e)
        PROVE  ClaimOwnership' /\ SingleExchange'
    <2>1. ASSUME NEW r, r.pc = "sync-proof", Begin(h, r)
          PROVE  task'[h].pc = "sync-proof" /\ \A g \in Handler : g # h => task'[g] = task[g]
      BY <1>1, <2>1 DEF Begin
    <2>2. \A s \in Session : [Idle EXCEPT !.pc = "sync-proof", !.session = s, !.seen = store[s]].pc = "sync-proof"
      BY DEF Idle
    <2>3. \A s \in Session, e \in events :
            [Idle EXCEPT !.pc = "sync-proof", !.session = s, !.seen = store[s],
                         !.evidence = e.record, !.notify = TRUE].pc = "sync-proof"
      BY DEF Idle
    <2>4. \A g \in Handler : g # h => task'[g] = task[g]
      BY <1>4, <2>1, <2>2, <2>3, Zenon DEF PollStatus, HandleProofEvent
    <2>5. task'[h].pc = "sync-proof" \/ task' = task
      BY <1>4, <2>1, <2>2, <2>3, Zenon DEF PollStatus, HandleProofEvent
    <2>6. madeFor' = madeFor /\ store' = store
      BY <1>4 DEF PollStatus, HandleProofEvent, credo
    <2>7. Quiet
      BY <2>4, <2>5, <2>6 DEF Quiet
    <2> QED
      BY <2>7, QuietKeeps
  <1> QED
    BY <1>2, <1>3, <1>4 DEF Request

(* Beginning, continuing or ending one task leaves the others alone.        *)
LEMMA OneTask ==
  ASSUME task \in [Task -> TaskRecord], NEW t \in Task
  PROVE  /\ \A r : Begin(t, r) => task'[t] = r /\ \A g \in Task \ {t} : task'[g] = task[g]
         /\ Finish(t) => task'[t] = Idle /\ \A g \in Task \ {t} : task'[g] = task[g]
         /\ \A step : Continue(t, step) => /\ task'[t].pc = step /\ task'[t].session = task[t].session
                                           /\ task'[t].stamp = task[t].stamp
                                           /\ \A g \in Task \ {t} : task'[g] = task[g]
  <1>1. \A step : Continue(t, step) => task'[t] = [task[t] EXCEPT !.pc = step]
    BY DEF Continue
  <1>2. \A step : [task[t] EXCEPT !.pc = step].pc = step
                  /\ [task[t] EXCEPT !.pc = step].session = task[t].session
                  /\ [task[t] EXCEPT !.pc = step].stamp = task[t].stamp
    BY DEF TaskRecord
  <1> QED
    BY <1>1, <1>2 DEF Begin, Finish, Continue

(* An idle task is at no step of a claim. *)
LEMMA IdlePc == Idle.pc = "idle"
  BY DEF Idle

(* Synchronisations and cleanup steps are quiet. *)
LEMMA SyncQuiet ==
  ASSUME ClaimInv, NEW t \in Task, Sync(t)
  PROVE  Quiet
  <1>1. task \in [Task -> TaskRecord] /\ store \in [Session -> SessionRecord] /\ Handler \subseteq Task
    BY DEF ClaimInv, TypeOK, Task
  <1>2. /\ task[t].session \in Session /\ madeFor' = madeFor
        /\ store[task[t].session] \in SessionRecord
    BY <1>1, TaskSession DEF Sync, SyncProof, SyncEvaluate, SyncCommit, At, credo
  <1> DEFINE Ends == {"idle", "clean-check", "sync-reply", "answer-list", "answer-result", "disclosed"}
  <1>3. ASSUME NEW record \in SessionRecord, NEW verdict \in Verdict, AfterSync(t, record, verdict), ~At(t, "idle")
        PROVE  /\ task'[t].pc \in Ends
               /\ \A g \in Task \ {t} : task'[g] = task[g]
    <2>1. \/ Finish(t) \/ \E r : Begin(t, r) /\ r.pc \in Ends \ {"idle"}
      BY <1>1, <1>3, AfterSyncEnds DEF Ended, Follows
    <2> QED
      BY <1>1, <2>1, OneTask, IdlePc
  <1>7. ~At(t, "idle") /\ task[t].seen \in SessionRecord /\ task[t].verdict \in Verdict
    BY <1>1 DEF Sync, SyncProof, SyncEvaluate, SyncCommit, At, TaskRecord
  <1>4. CASE SyncProof(t)
    <2>1. [task[t] EXCEPT !.pc = "sync-evaluate",
                          !.evidence = IF task[t].notify THEN task[t].evidence
                                       ELSE IF task[t].seen.proof = None THEN NoRecord
                                            ELSE proofRecord[task[t].seen.proof]].pc = "sync-evaluate"
      BY <1>1 DEF TaskRecord
    <2>2. /\ task'[t].pc \in Ends \cup {"sync-evaluate"}
          /\ \A g \in Task \ {t} : task'[g] = task[g]
      <3>1. CASE task[t].seen.removed
        <4>1. AfterSync(t, task[t].seen, NoVerdict)
          BY <1>4, <3>1 DEF SyncProof
        <4> QED
          BY <1>3, <1>7, <4>1, StartTypes
      <3>2. CASE ~task[t].seen.removed
        <4> DEFINE next == [task[t] EXCEPT !.pc = "sync-evaluate",
                                           !.evidence = IF task[t].notify THEN task[t].evidence
                                                        ELSE IF task[t].seen.proof = None THEN NoRecord
                                                             ELSE proofRecord[task[t].seen.proof]]
        <4>1. Begin(t, next)
          BY <1>4, <3>2 DEF SyncProof
        <4>2. next.pc = "sync-evaluate"
          BY <2>1
        <4> HIDE DEF next
        <4> QED
          BY <1>1, <4>1, <4>2, OneTask
      <3> QED
        BY <3>1, <3>2
    <2> QED
      BY <1>1, <1>2, <1>4, <2>2 DEF SyncProof, Quiet
  <1>5. CASE SyncEvaluate(t)
    <2> DEFINE shown == IF ReadsPresentation(t) THEN presentation[task[t].seen.proof] ELSE NoPresentation
               next == [Idle EXCEPT !.pc = "sync-commit", !.session = task[t].session, !.notify = task[t].notify,
                                    !.verdict = SyncVerdict(task[t].seen, task[t].evidence, shown)]
    <2>1. next.pc = "sync-commit" /\ (Begin(t, next) \/ Finish(t))
      BY <1>5 DEF SyncEvaluate, Idle
    <2>2. /\ task'[t].pc \in {"idle", "sync-commit"}
          /\ \A g \in Task \ {t} : task'[g] = task[g]
      <3> HIDE DEF next
      <3> QED
        BY <1>1, <2>1, OneTask, IdlePc
    <2> QED
      BY <1>1, <1>2, <1>5, <2>2 DEF SyncEvaluate, Quiet
  <1>6. CASE SyncCommit(t)
    <2>1. /\ task'[t].pc \in Ends
          /\ \A g \in Task \ {t} : task'[g] = task[g]
      BY <1>2, <1>3, <1>6, <1>7, ApplyType DEF SyncCommit
    <2>2. \A v : /\ ApplyVerdict(store[task[t].session], v).mode = store[task[t].session].mode
                 /\ ApplyVerdict(store[task[t].session], v).claimedAt = store[task[t].session].claimedAt
      BY <1>2 DEF ApplyVerdict, SessionRecord
    <2>3. \A s \in Session : store'[s].mode = store[s].mode /\ store'[s].claimedAt = store[s].claimedAt
      BY <1>1, <1>2, <1>6, <2>2 DEF SyncCommit
    <2> QED
      BY <1>1, <1>2, <2>1, <2>3 DEF Quiet
  <1> QED
    BY <1>4, <1>5, <1>6 DEF Sync

(* So are the steps of a cleanup run. *)
LEMMA CleanerQuiet ==
  ASSUME ClaimInv, NEW c \in Cleaner, CleanerStep(c)
  PROVE  Quiet
  <1>1. /\ task \in [Task -> TaskRecord] /\ store \in [Session -> SessionRecord]
        /\ c \in Task /\ Handler \subseteq Task \ {c}
    BY NamesAssumption DEF ClaimInv, TypeOK, Task
  <1>2. CASE Sync(c)
    BY <1>1, <1>2, SyncQuiet
  <1>3. ASSUME \/ CleanupLists(c) \/ \E item \in sweep[c] : CleanupContinues(c, item)
               \/ CleanCheck(c) \/ CleanProof(c) \/ CleanInvitation(c) \/ CleanMark(c)
        PROVE  \A g \in Handler : task'[g] = task[g]
    BY <1>1, <1>3, OneTask DEF CleanupLists, CleanupContinues, Visit, CleanCheck, CleanProof, CleanInvitation, CleanMark
  <1>4. CASE \/ CleanupLists(c) \/ \E item \in sweep[c] : CleanupContinues(c, item)
             \/ CleanCheck(c) \/ CleanProof(c) \/ CleanInvitation(c)
    <2>1. store' = store /\ madeFor' = madeFor
      BY <1>4 DEF CleanupLists, CleanupContinues, CleanCheck, CleanProof, CleanInvitation, credo
    <2> QED
      BY <1>3, <1>4, <2>1 DEF Quiet
  <1>5. CASE CleanMark(c)
    <2>1. \A s \in Session : store'[s].mode = store[s].mode /\ store'[s].claimedAt = store[s].claimedAt
      BY <1>1, <1>5 DEF CleanMark, SessionRecord
    <2> QED
      BY <1>3, <1>5, <2>1 DEF CleanMark, Quiet, credo
  <1> QED
    BY <1>2, <1>4, <1>5 DEF CleanerStep

(* The steps of a claim hand the ownership on and end it. *)
LEMMA HandlerClaims ==
  ASSUME ClaimInv, NEW h \in Handler, HandlerStep(h)
  PROVE  ClaimOwnership' /\ SingleExchange'
  <1>1. /\ SessionsOwned /\ OneOwner /\ SingleExchange
        /\ \A g \in Handler : HandlerOwns(g)
        /\ task \in [Task -> TaskRecord] /\ store \in [Session -> SessionRecord]
        /\ madeFor \in [Proof -> Session \cup {None}] /\ clock \in Nat
        /\ h \in Task /\ Handler \subseteq Task
    BY OwnershipParts DEF ClaimInv, TypeOK, Task
  <1> DEFINE s == task[h].session
  <1>2. ~At(h, "idle") => s \in Session /\ store[s] \in SessionRecord /\ task[h] \in TaskRecord
    BY <1>1, TaskSession
  <1>3. \A g \in Handler : HandlerOwns(g) /\ task[g].pc \in {"claim-gate", "claim-save", "claim-exchange",
                                                               "claim-link", "claim-fail"}
          => task[g].session \in Session /\ task[g].session \in Checkout
    BY <1>1, TaskSession DEF HandlerOwns, SessionsOwned, At, Claiming
  <1>4. CASE StartInsert(h)
    <2>1. /\ s \in Session \ Checkout /\ madeFor' = madeFor /\ task'[h].pc = "idle"
          /\ \A g \in Handler : g # h => task'[g] = task[g]
      BY <1>1, <1>4, OneTask, IdlePc DEF StartInsert, HandlerOwns
    <2>2. /\ \A r \in Session : r # s => store'[r] = store[r]
          /\ store'[s].mode = "STATIC" /\ store'[s].claimedAt = Never
      BY <1>1, <1>4, <2>1 DEF StartInsert, NoSession
    <2>3. SessionsOwned' /\ OneOwner'
      BY <1>1, <2>1, <2>2 DEF SessionsOwned, OneOwner, Claiming
    <2>4. SingleExchange'
      BY <1>1, <2>1, <2>2, NamesAssumption DEF SingleExchange
    <2>5. ASSUME NEW g \in Handler PROVE HandlerOwns(g)'
      BY <1>1, <1>3, <2>1, <2>2 DEF HandlerOwns, At, Claiming
    <2> QED
      BY <2>3, <2>4, <2>5 DEF ClaimOwnership, SessionsOwned, HandlerOwns, OneOwner
  <1>5. CASE ClaimGate(h)
    <2>1. /\ store' = store /\ madeFor' = madeFor /\ s \in Session /\ task[h].pc = "claim-gate"
          /\ \A g \in Handler : g # h => task'[g] = task[g]
      BY <1>1, <1>2, <1>5, OneTask DEF ClaimGate, At, credo
    <2>2. CASE Finish(h)
      BY <1>1, <2>1, <2>2, OneTask, IdlePc, QuietKeeps DEF Quiet
    <2>3. CASE Begin(h, [task[h] EXCEPT !.pc = "claim-save", !.stamp = clock])
      <3>1. task'[h].pc = "claim-save" /\ task'[h].session = s /\ task'[h].stamp # Never
        BY <1>1, <1>2, <2>1, <2>3 DEF Begin, At, TaskRecord, Never
      <3>2. SessionsOwned' /\ OneOwner' /\ SingleExchange'
        BY <1>1, <2>1, <3>1 DEF SessionsOwned, OneOwner, Claiming, SingleExchange
      <3>3. ASSUME NEW g \in Handler PROVE HandlerOwns(g)'
        BY <1>1, <2>1, <3>1 DEF HandlerOwns, At, Claiming
      <3> QED
        BY <3>2, <3>3 DEF ClaimOwnership, SessionsOwned, HandlerOwns, OneOwner
    <2> QED
      BY <1>5, <2>2, <2>3 DEF ClaimGate
  <1>6. CASE ClaimSave(h)
    <2>1. /\ madeFor' = madeFor /\ s \in Session /\ s \in Checkout /\ task[h].pc = "claim-save"
          /\ store[s].mode = "CHECKOUT" /\ task[h].stamp # Never
          /\ \A g \in Handler : g # h => task'[g] = task[g]
      BY <1>1, <1>2, <1>3, <1>6, OneTask DEF ClaimSave, At, HandlerOwns, credo
    <2>2. CASE Finish(h) /\ UNCHANGED store
      BY <1>1, <2>1, <2>2, OneTask, IdlePc, QuietKeeps DEF Quiet
    <2>3. CASE /\ store[s].claimedAt = Never
               /\ store' = [store EXCEPT ![s].claimedAt = task[h].stamp]
               /\ Begin(h, [task[h] EXCEPT !.pc = "claim-exchange", !.stamp = Never])
      <3>1. task'[h].pc = "claim-exchange" /\ task'[h].session = s
        BY <1>1, <1>2, <2>1, <2>3 DEF Begin, At, TaskRecord
      <3>2. /\ \A r \in Session : r # s => store'[r] = store[r]
            /\ store'[s].mode = "CHECKOUT" /\ store'[s].claimedAt # Never
        BY <1>1, <1>2, <2>1, <2>3 DEF SessionRecord, At
      <3>3. \A p \in Proof : madeFor[p] # s
        BY <1>1, <2>1, <2>3 DEF SingleExchange
      <3>4. \A g \in Handler : Claiming(g) => task[g].session # s
        BY <1>1, <2>3 DEF HandlerOwns
      <3>5. SessionsOwned' /\ OneOwner'
        BY <1>1, <2>1, <3>1, <3>2, <3>4 DEF SessionsOwned, OneOwner, Claiming
      <3>6. SingleExchange'
        BY <1>1, <2>1, <3>2, NamesAssumption DEF SingleExchange
      <3>7. ASSUME NEW g \in Handler PROVE HandlerOwns(g)'
        <4>1. CASE g = h
          BY <2>1, <3>1, <3>2, <3>3, <4>1 DEF HandlerOwns, At, Claiming
        <4>2. CASE g # h
          BY <1>1, <1>3, <2>1, <3>2, <4>2 DEF HandlerOwns, At, Claiming
        <4> QED
          BY <4>1, <4>2
      <3> QED
        BY <3>5, <3>6, <3>7 DEF ClaimOwnership, SessionsOwned, HandlerOwns, OneOwner
    <2> QED
      BY <1>6, <2>2, <2>3 DEF ClaimSave, MayClaim
  <1>7. ASSUME NEW p \in Proof, ClaimExchange(h, p)
        PROVE  ClaimOwnership' /\ SingleExchange'
    <2>1. /\ store' = store /\ s \in Session /\ s \in Checkout /\ task[h].pc = "claim-exchange"
          /\ store[s].claimedAt # Never /\ \A q \in Proof : madeFor[q] # s
          /\ \A q \in Proof : madeFor'[q] = IF q = p THEN s ELSE madeFor[q]
          /\ \A g \in Handler : g # h => task'[g] = task[g]
      BY <1>1, <1>2, <1>3, <1>7, OneTask DEF ClaimExchange, NewExchange, At, Claiming, HandlerOwns
    <2>2. task'[h].pc = "claim-link" /\ task'[h].session = s
      BY <1>1, <1>2, <1>7, <2>1 DEF ClaimExchange, Begin, At, TaskRecord
    <2>3. SingleExchange'
      BY <1>1, <1>7, <2>1, NewExchangeSingle DEF ClaimExchange
    <2>4. SessionsOwned' /\ OneOwner'
      BY <1>1, <2>1, <2>2 DEF SessionsOwned, OneOwner, Claiming
    <2>5. ASSUME NEW g \in Handler PROVE HandlerOwns(g)'
      <3>1. CASE g = h
        BY <1>1, <2>1, <2>2, <3>1 DEF HandlerOwns, At, Claiming
      <3>2. CASE g # h
        <4>1. At(g, "claim-exchange") => task[g].session # s
          BY <1>1, <2>1, <3>2 DEF OneOwner, At, Claiming
        <4> QED
          BY <1>1, <2>1, <3>2, <4>1 DEF HandlerOwns, At, Claiming
      <3> QED
        BY <3>1, <3>2
    <2> QED
      BY <2>3, <2>4, <2>5 DEF ClaimOwnership, SessionsOwned, HandlerOwns, OneOwner
  <1>8. CASE ClaimLink(h) \/ ClaimFail(h)
    <2>1. s \in Session /\ store[s] \in SessionRecord
      BY <1>2, <1>8 DEF ClaimLink, ClaimFail, At
    <2>2. \A r \in Session : store'[r].mode = store[r].mode /\ store'[r].claimedAt = store[r].claimedAt
      <3>1. CASE ClaimLink(h)
        BY <1>1, <2>1, <3>1 DEF ClaimLink, SessionRecord
      <3>2. CASE ClaimFail(h)
        <4>1. /\ FailedClaim(store[s]).mode = store[s].mode
              /\ FailedClaim(store[s]).claimedAt = store[s].claimedAt
          BY <2>1 DEF FailedClaim, SessionRecord
        <4> QED
          BY <1>1, <2>1, <3>2, <4>1 DEF ClaimFail
      <3> QED
        BY <1>8, <3>1, <3>2
    <2>3. madeFor' = madeFor /\ Finish(h)
      BY <1>8 DEF ClaimLink, ClaimFail, credo
    <2>4. task'[h].pc = "idle" /\ \A g \in Handler : g # h => task'[g] = task[g]
      BY <1>1, <2>3, OneTask, IdlePc
    <2> QED
      BY <2>2, <2>3, <2>4, QuietKeeps DEF Quiet
  <1>9. CASE Sync(h)
    BY <1>1, <1>9, SyncQuiet, QuietKeeps
  <1>10. CASE SyncReply(h)
    BY <1>1, <1>10, OneTask, IdlePc, QuietKeeps DEF SyncReply, Quiet, credo
  <1>11. CASE Answer(h)
    <2>1. /\ task'[h].pc \in {"idle", "disclosed"} /\ \A g \in Task \ {h} : task'[g] = task[g]
          /\ UNCHANGED <<store, credo>>
      BY <1>1, <1>11, AnswerEnds, OneTask, IdlePc
    <2> QED
      BY <1>1, <2>1, QuietKeeps DEF Quiet, credo
  <1> QED
    BY <1>4, <1>5, <1>6, <1>7, <1>8, <1>9, <1>10, <1>11 DEF HandlerStep

(* A failing call ends a claim or sends it to its error handler. *)
LEMMA TroubleClaims ==
  ASSUME ClaimInv, Trouble
  PROVE  ClaimOwnership' /\ SingleExchange'
  <1>1. /\ SessionsOwned /\ OneOwner /\ SingleExchange
        /\ \A g \in Handler : HandlerOwns(g)
        /\ task \in [Task -> TaskRecord] /\ store \in [Session -> SessionRecord]
        /\ madeFor \in [Proof -> Session \cup {None}] /\ Handler \subseteq Task
    BY OwnershipParts DEF ClaimInv, TypeOK, Task
  <1>2. CASE Restart
    <2>1. \A g \in Handler : task'[g].pc = "idle"
      BY <1>1, <1>2, IdlePc DEF Restart
    <2> QED
      BY <1>2, <2>1, QuietKeeps DEF Restart, Quiet, credo
  <1>3. ASSUME NEW t \in Task, CallFails(t) PROVE ClaimOwnership' /\ SingleExchange'
    <2>1. store' = store /\ madeFor' = madeFor /\ \A g \in Task \ {t} : task'[g] = task[g]
      BY <1>1, <1>3, OneTask DEF CallFails, credo
    <2>2. \/ task'[t].pc = "idle"
          \/ /\ task[t].pc \in {"claim-exchange", "claim-link"}
             /\ task'[t].pc = "claim-fail" /\ task'[t].session = task[t].session
      BY <1>1, <1>3, OneTask, IdlePc DEF CallFails
    <2> QED
      BY <1>1, <2>1, <2>2, QuietKeeps DEF Quiet, Claiming
  <1>4. ASSUME NEW h \in Handler, NEW s \in Session, NEW p \in Proof, LeaveProofBehind(h, s, p)
        PROVE  ClaimOwnership' /\ SingleExchange'
    <2>1. /\ store' = store /\ h \in Task
          /\ \A q \in Proof : madeFor'[q] = IF q = p THEN s ELSE madeFor[q]
      BY <1>1, <1>4 DEF LeaveProofBehind, NewExchange
    <2>2. CASE /\ task[h].pc = "claim-exchange" /\ task[h].session = s
               /\ Continue(h, "claim-fail")
      <3>1. /\ store[s].claimedAt # Never /\ \A q \in Proof : madeFor[q] # s
            /\ store[s].mode = "CHECKOUT"
        BY <1>1, <2>2 DEF HandlerOwns, At, Claiming
      <3>2. /\ task'[h].pc = "claim-fail" /\ task'[h].session = s
            /\ \A g \in Handler : g # h => task'[g] = task[g]
        BY <1>1, <2>1, <2>2, OneTask
      <3>3. SingleExchange'
        BY <1>1, <1>4, <2>1, <3>1, NewExchangeSingle DEF LeaveProofBehind
      <3>4. SessionsOwned' /\ OneOwner'
        BY <1>1, <2>1, <2>2, <3>2 DEF SessionsOwned, OneOwner, Claiming
      <3>5. ASSUME NEW g \in Handler PROVE HandlerOwns(g)'
        <4>1. CASE g = h
          BY <2>1, <3>1, <3>2, <4>1 DEF HandlerOwns, At, Claiming
        <4>2. CASE g # h
          <5>1. At(g, "claim-exchange") => task[g].session # s
            BY <1>1, <2>2, <4>2 DEF OneOwner, At, Claiming
          <5> QED
            BY <1>1, <2>1, <3>2, <4>2, <5>1 DEF HandlerOwns, At, Claiming
        <4> QED
          BY <4>1, <4>2
      <3> QED
        BY <3>3, <3>4, <3>5 DEF ClaimOwnership, SessionsOwned, HandlerOwns, OneOwner
    <2>3. CASE MayStart(h, s) /\ UNCHANGED task
      <3>1. s \notin Checkout /\ \A q \in Proof : madeFor[q] # s
        BY <2>3 DEF MayStart
      <3>2. SingleExchange'
        BY <1>1, <1>4, <2>1, <3>1, NewExchangeSingle DEF LeaveProofBehind
      <3>3. ASSUME NEW g \in Handler PROVE HandlerOwns(g)'
        <4>1. At(g, "claim-exchange") => task[g].session \in Checkout
          BY <1>1, TaskSession DEF HandlerOwns, SessionsOwned, At, Claiming
        <4> QED
          BY <1>1, <2>1, <2>3, <3>1, <4>1 DEF HandlerOwns, At, Claiming
      <3>4. SessionsOwned' /\ OneOwner'
        BY <1>1, <2>1, <2>3 DEF SessionsOwned, OneOwner, Claiming
      <3> QED
        BY <3>2, <3>3, <3>4 DEF ClaimOwnership, SessionsOwned, HandlerOwns, OneOwner
    <2> QED
      BY <1>4, <2>2, <2>3 DEF LeaveProofBehind, At
  <1> QED
    BY <1>2, <1>3, <1>4 DEF Trouble, Crash, CleanupListFails

(* The creation of a checkout finds no claim and no exchange of it; time    *)
(* and repeated scans are quiet.                                            *)
LEMMA OtherClaims ==
  ASSUME ClaimInv, Tick \/ \E s \in Session : CreateCheckoutSession(s) \/ StartSessionAgain(s)
  PROVE  ClaimOwnership' /\ SingleExchange'
  <1>1. /\ SessionsOwned /\ OneOwner /\ SingleExchange
        /\ \A g \in Handler : HandlerOwns(g)
        /\ task \in [Task -> TaskRecord] /\ store \in [Session -> SessionRecord] /\ Handler \subseteq Task
    BY OwnershipParts DEF ClaimInv, TypeOK, Task
  <1>2. CASE Tick \/ \E s \in Session : StartSessionAgain(s)
    <2>1. madeFor' = madeFor /\ store' = store /\ task' = task
      BY <1>2 DEF Tick, StartSessionAgain, credo
    <2> QED
      BY <2>1, QuietKeeps DEF Quiet
  <1>3. ASSUME NEW s \in Session, CreateCheckoutSession(s) PROVE ClaimOwnership' /\ SingleExchange'
    <2>1. /\ task' = task /\ madeFor' = madeFor /\ s \in Checkout /\ store[s].mode = "NONE"
          /\ \A r \in Session : r # s => store'[r] = store[r]
          /\ store'[s].mode = "CHECKOUT" /\ store'[s].claimedAt = Never
      BY <1>1, <1>3 DEF CreateCheckoutSession, Exists, NoSession, credo
    <2>2. store[s].claimedAt = Never
      BY <1>1, <2>1 DEF SessionsOwned
    <2>3. SessionsOwned' /\ OneOwner' /\ SingleExchange'
      BY <1>1, <2>1, <2>2, NamesAssumption DEF SessionsOwned, OneOwner, Claiming, SingleExchange
    <2>4. ASSUME NEW g \in Handler PROVE HandlerOwns(g)'
      <3>1. At(g, "claim-gate") \/ At(g, "claim-save") \/ Claiming(g) => task[g].session \in Session
        BY <1>1, TaskSession DEF At, Claiming
      <3> QED
        BY <1>1, <2>1, <2>2, <3>1 DEF HandlerOwns, At, Claiming
    <2> QED
      BY <2>3, <2>4 DEF ClaimOwnership, SessionsOwned, HandlerOwns, OneOwner
  <1> QED
    BY <1>2, <1>3

(* The wallet and Credo never touch a claim. *)
LEMMA WalletQuiet ==
  ASSUME NEW p \in Proof, Wallet(p)
  PROVE  Quiet
  BY DEF Wallet, WalletPresents, ExchangeFails, CredoCompletes, Advance, Quiet

(* Nothing is claimed and no exchange exists in the beginning. *)
LEMMA InitClaims == Init => ClaimOwnership /\ SingleExchange
  BY NamesAssumption DEF Init, ClaimOwnership, SingleExchange, At, Claiming, Idle, NoSession, Task

(* The inductive step of both properties together. *)
LEMMA NextClaims == ClaimInv /\ [Next]_vars => ClaimInv'
  <1> SUFFICES ASSUME ClaimInv, [Next]_vars PROVE ClaimOwnership' /\ SingleExchange'
    BY NextTypes DEF ClaimInv
  <1>1. CASE UNCHANGED vars
    BY <1>1, QuietKeeps DEF vars, credo, Quiet
  <1>2. ASSUME NEW c \in Cleaner, CleanerStep(c) PROVE ClaimOwnership' /\ SingleExchange'
    BY <1>2, CleanerQuiet, QuietKeeps
  <1>3. ASSUME NEW p \in Proof, Wallet(p) PROVE ClaimOwnership' /\ SingleExchange'
    BY <1>3, WalletQuiet, QuietKeeps
  <1> QED
    BY <1>1, <1>2, <1>3, OtherClaims, RequestClaims, HandlerClaims, TroubleClaims DEF Next

(* A checkout never gets a second proof exchange, and none before it is     *)
(* claimed: for any number of overlapping claims, failed calls and crashes. *)
THEOREM OneExchangePerSession == Spec => [](ClaimOwnership /\ SingleExchange)
  <1>1. Init => ClaimInv
    BY InitTypes, InitClaims DEF ClaimInv
  <1>2. ClaimInv => ClaimOwnership /\ SingleExchange
    BY DEF ClaimInv
  <1> QED
    BY <1>1, <1>2, NextClaims, PTL DEF Spec

(***************************************************************************)
(* What the saved records may become.  Tasks work on snapshots of records, *)
(* so everything below rests on how a record may evolve while a snapshot   *)
(* of it is in use.                                                        *)
(***************************************************************************)

(* A checkout nobody has linked an exchange to. *)
Unlinked(r) == r.mode = "CHECKOUT" /\ r.proof = None

(* A record that a claim under way may still link or fail. *)
Open(r) == Unlinked(r) /\ r.decision \in {"Pending", "Expired"}

(* What the writers of a record, taken together, make of it.  Only a claim  *)
(* that fails leaves a decided record without its visibility window.        *)
Sound(r) ==
  /\ r.mode = "NONE" => r = NoSession
  /\ r.mode # "NONE" => r.expiresAt # Never
  /\ r.mode = "CHECKOUT" /\ r.claimedAt = Never => Open(r)
  /\ Unlinked(r) => r.decision \in {"Pending", "Expired", "Failed"} /\ r.isVerified = "unset"
  /\ ~IsTerminal(r.decision) => r.completedAt = Never /\ r.visibleUntil = Never
  /\ IsTerminal(r.decision) =>
       /\ r.completedAt # Never
       /\ r.visibleUntil = r.completedAt + ResultVisibility \/ (Unlinked(r) /\ r.decision = "Failed")

(* How a record may change: what it has been given it keeps, and a decided  *)
(* record stays decided as it was, except for an expired checkout whose     *)
(* claim fails.                                                             *)
Evolves(old, new) ==
  \/ old = NoSession
  \/ /\ old.mode # "NONE" /\ new.mode = old.mode /\ new.expiresAt = old.expiresAt
     /\ old.claimedAt # Never => new.claimedAt = old.claimedAt
     /\ old.proof # None => new.proof = old.proof
     /\ old.removed => new.removed
     /\ IsTerminal(old.decision) =>
          \/ new.decision = old.decision /\ new.completedAt = old.completedAt
          \/ old.decision = "Expired" /\ new.decision = "Failed" /\ Unlinked(old)
     /\ old.visibleUntil # Never => new.visibleUntil = old.visibleUntil

(* What a task remembers of a record was once the record. *)
Snapshot(seen, r) == seen.mode # "NONE" /\ Sound(seen) /\ Evolves(seen, r)

(* A verdict that may be written to an undecided record. *)
Fits(v, r) ==
  /\ ~IsTerminal(v.decision) => v.completedAt = Never /\ v.visibleUntil = Never
  /\ IsTerminal(v.decision) => v.completedAt # Never /\ v.visibleUntil = v.completedAt + ResultVisibility
  /\ Unlinked(r) => v.decision \in {"Pending", "Expired"} /\ v.isVerified = "unset"

(* What a task in progress relies on, r being the record of its session. *)
JobOK(j, r) ==
  /\ j.pc \in {"sync-proof", "sync-evaluate", "clean-check"} => Snapshot(j.seen, r)
  /\ j.pc \in {"sync-proof", "sync-evaluate"} /\ j.seen.proof = None => j.evidence = NoRecord
  /\ j.pc = "sync-commit" => r.mode # "NONE" /\ (~IsTerminal(r.decision) => Fits(j.verdict, r))
  /\ j.pc \in {"clean-proof", "clean-invitation", "clean-mark"} => r.mode # "NONE"

(* A session being claimed is open, one being started does not exist yet,   *)
(* and one scan is started at a time.                                       *)
ClaimOpen(h) == Claiming(h) => Open(store[task[h].session])
StartFresh(h) ==
  At(h, "start-insert") => ~Exists(task[h].session) /\ \A g \in Handler : At(g, "start-insert") => g = h

JobsSound == \A t \in Task : JobOK(task[t], store[task[t].session])
ClaimsOpen == \A h \in Handler : ClaimOpen(h) /\ StartFresh(h)
SweepsSound == \A c \in Cleaner : \A item \in sweep[c] : Snapshot(item.record, store[item.session])
RecordsInv ==
  /\ \A s \in Session : Sound(store[s])
  /\ JobsSound /\ ClaimsOpen /\ SweepsSound

-----------------------------------------------------------------------------
(* A sound record may stay as it is. *)
LEMMA EvolvesSelf ==
  ASSUME NEW r, Sound(r)
  PROVE  Evolves(r, r)
  BY DEF Evolves, Sound

(* Two changes in a row are a change. *)
LEMMA EvolvesOn ==
  ASSUME NEW r1, NEW r2, NEW r3, Evolves(r1, r2), Evolves(r2, r3)
  PROVE  Evolves(r1, r3)
  <1>1. CASE r1 = NoSession
    BY <1>1 DEF Evolves
  <1>2. CASE r1 # NoSession
    <2>1. r2 # NoSession
      BY <1>2 DEF Evolves, NoSession
    <2> QED
      BY <1>2, <2>1 DEF Evolves, IsTerminal, Unlinked
  <1> QED
    BY <1>1, <1>2

(* What a task relies on survives whatever the others do to its record. *)
LEMMA JobStable ==
  ASSUME NEW j, NEW r1, NEW r2, JobOK(j, r1), Evolves(r1, r2)
  PROVE  JobOK(j, r2)
  <1>1. \A seen : Snapshot(seen, r1) => Snapshot(seen, r2)
    BY EvolvesOn DEF Snapshot
  <1>2. r1.mode # "NONE" => r2.mode = r1.mode
    BY DEF Evolves, NoSession
  <1>3. r1.mode # "NONE" /\ ~IsTerminal(r2.decision) => ~IsTerminal(r1.decision)
    BY DEF Evolves, NoSession, IsTerminal
  <1>4. r1.mode # "NONE" /\ Unlinked(r2) => Unlinked(r1)
    BY DEF Evolves, NoSession, Unlinked
  <1>5. \A v : r1.mode # "NONE" /\ Fits(v, r1) => Fits(v, r2)
    BY <1>4 DEF Fits
  <1> QED
    BY <1>1, <1>2, <1>3, <1>5 DEF JobOK

-----------------------------------------------------------------------------
(* The writers of a record, one by one.  A created record is sound. *)
LEMMA NewRecordSound ==
  ASSUME NEW r \in SessionRecord, r.mode # "NONE", r.expiresAt # Never, r.claimedAt = Never,
         r.decision = "Pending", r.isVerified = "unset", r.completedAt = Never, r.visibleUntil = Never,
         r.mode = "CHECKOUT" => r.proof = None
  PROVE  Sound(r) /\ Evolves(NoSession, r)
  BY DEF Sound, Open, Unlinked, IsTerminal, Evolves

(* claimSession marks a checkout that is still open. *)
LEMMA ClaimedSound ==
  ASSUME NEW r \in SessionRecord, Sound(r), r.mode = "CHECKOUT", r.claimedAt = Never,
         NEW stamp \in Moment, stamp # Never,
         NEW new, new = [r EXCEPT !.claimedAt = stamp]
  PROVE  Sound(new) /\ Evolves(r, new) /\ Open(new)
  <1>1. /\ new.mode = r.mode /\ new.claimedAt = stamp /\ new.proof = r.proof /\ new.expiresAt = r.expiresAt
        /\ new.decision = r.decision /\ new.isVerified = r.isVerified /\ new.completedAt = r.completedAt
        /\ new.visibleUntil = r.visibleUntil /\ new.removed = r.removed
    BY DEF SessionRecord
  <1> QED
    BY <1>1 DEF Sound, Open, Unlinked, Evolves

(* The claim links its exchange. *)
LEMMA LinkedSound ==
  ASSUME NEW r \in SessionRecord, Sound(r), Open(r), r.claimedAt # Never, NEW p \in Proof,
         NEW new, new = [r EXCEPT !.proof = p]
  PROVE  Sound(new) /\ Evolves(r, new)
  <1>1. /\ new.mode = r.mode /\ new.claimedAt = r.claimedAt /\ new.proof = p /\ new.expiresAt = r.expiresAt
        /\ new.decision = r.decision /\ new.isVerified = r.isVerified /\ new.completedAt = r.completedAt
        /\ new.visibleUntil = r.visibleUntil /\ new.removed = r.removed
    BY DEF SessionRecord
  <1>2. p # None
    BY NamesAssumption
  <1> QED
    BY <1>1, <1>2 DEF Sound, Open, Unlinked, Evolves

(* The claim's error handler fails a record nobody else has decided. *)
LEMMA FailedSound ==
  ASSUME NEW r \in SessionRecord, Sound(r), Open(r), r.claimedAt # Never, clock \in Nat,
         NEW new, new = FailedClaim(r)
  PROVE  Sound(new) /\ Evolves(r, new)
  <1>1. /\ new.mode = r.mode /\ new.claimedAt = r.claimedAt /\ new.proof = r.proof /\ new.expiresAt = r.expiresAt
        /\ new.decision = "Failed" /\ new.isVerified = r.isVerified /\ new.completedAt = clock
        /\ new.visibleUntil = r.visibleUntil /\ new.removed = r.removed
    BY DEF SessionRecord, FailedClaim
  <1>2. clock # Never
    BY DEF Never
  <1> QED
    BY <1>1, <1>2 DEF Sound, Open, Unlinked, Evolves, IsTerminal

(* A synchronisation commits its verdict, or finds the record decided. *)
LEMMA VerdictSound ==
  ASSUME NEW r \in SessionRecord, Sound(r), r.mode # "NONE", NEW v \in Verdict,
         ~IsTerminal(r.decision) => Fits(v, r),
         NEW new, new = ApplyVerdict(r, v)
  PROVE  Sound(new) /\ Evolves(r, new) /\ (Open(r) => Open(new))
  <1>1. CASE IsTerminal(r.decision)
    BY <1>1, EvolvesSelf DEF ApplyVerdict
  <1>2. CASE ~IsTerminal(r.decision)
    <2>1. /\ new.mode = r.mode /\ new.claimedAt = r.claimedAt /\ new.proof = r.proof
          /\ new.expiresAt = r.expiresAt /\ new.removed = r.removed
      BY <1>2 DEF SessionRecord, ApplyVerdict
    <2>2. /\ new.decision = v.decision
          /\ new.isVerified = IF v.isVerified = "unset" THEN r.isVerified ELSE v.isVerified
          /\ new.completedAt = IF v.completedAt = Never THEN r.completedAt ELSE v.completedAt
          /\ new.visibleUntil = IF v.visibleUntil = Never THEN r.visibleUntil ELSE v.visibleUntil
      BY <1>2 DEF SessionRecord, ApplyVerdict
    <2>3. /\ Fits(v, r) /\ r.completedAt = Never /\ r.visibleUntil = Never
      BY <1>2 DEF Sound
    <2>4. new.completedAt = v.completedAt /\ new.visibleUntil = v.visibleUntil
      BY <2>2, <2>3
    <2>5. Open(r) => Open(new)
      BY <2>1, <2>2, <2>3 DEF Open, Unlinked, Fits
    <2>6. Sound(new)
      BY <2>1, <2>2, <2>3, <2>4, <2>5 DEF Sound, Open, Unlinked, Fits
    <2>7. Evolves(r, new)
      BY <1>2, <2>1, <2>3 DEF Evolves
    <2> QED
      BY <2>5, <2>6, <2>7
  <1> QED
    BY <1>1, <1>2

(* Cleanup marks the record. *)
LEMMA MarkedSound ==
  ASSUME NEW r \in SessionRecord, Sound(r), r.mode # "NONE",
         NEW new, new = [r EXCEPT !.removed = TRUE]
  PROVE  Sound(new) /\ Evolves(r, new) /\ (Open(r) => Open(new))
  <1>1. /\ new.mode = r.mode /\ new.claimedAt = r.claimedAt /\ new.proof = r.proof /\ new.expiresAt = r.expiresAt
        /\ new.decision = r.decision /\ new.isVerified = r.isVerified /\ new.completedAt = r.completedAt
        /\ new.visibleUntil = r.visibleUntil /\ new.removed = TRUE
    BY DEF SessionRecord
  <1> QED
    BY <1>1 DEF Sound, Open, Unlinked, Evolves

(* Evaluating a snapshot gives a verdict that fits the undecided record it  *)
(* was taken from: a checkout without an exchange can only be awaited or    *)
(* expire.                                                                  *)
LEMMA EvaluationFits ==
  ASSUME NEW seen \in SessionRecord, Sound(seen), seen.mode # "NONE", ~IsTerminal(seen.decision),
         NEW evidence \in ProofRecord, seen.proof = None => evidence = NoRecord,
         NEW shown, shown.revealed \in BOOLEAN, clock \in Nat
  PROVE  Fits(SyncVerdict(seen, evidence, shown), seen)
  <1> DEFINE input == Evidence(seen, evidence, shown)
             evaluation == EvaluateVerification(input)
             expired == RequestExpired(seen, evidence)
             terminalAt == IF expired THEN seen.expiresAt ELSE clock
             v == SyncVerdict(seen, evidence, shown)
  <1>1. seen.completedAt = Never /\ seen.visibleUntil = Never /\ seen.expiresAt # Never
    BY DEF Sound
  <1>2. seen.expiresAt \in Nat /\ terminalAt \in Nat
    BY <1>1 DEF SessionRecord, Moment
  <1>3. Unlinked(seen) => evaluation.decision \in {"Pending", "Expired"} /\ evidence.isVerified = "unset"
    <2> SUFFICES ASSUME Unlinked(seen)
                 PROVE  evaluation.decision \in {"Pending", "Expired"} /\ evidence.isVerified = "unset"
      OBVIOUS
    <2>1. evidence = NoRecord /\ seen.isVerified = "unset" /\ AwaitingClaim(seen)
      BY DEF Unlinked, Sound, AwaitingClaim
    <2>2. input.expired = expired /\ input.state = "unknown" /\ input.isVerified = "unset"
      BY <2>1 DEF Evidence, NoRecord
    <2> HIDE DEF input
    <2>3. evaluation.decision \in {"Pending", "Expired"}
      BY <2>2 DEF EvaluateVerification, Decided
    <2> QED
      BY <2>1, <2>3 DEF NoRecord
  <1>4. /\ v.decision = evaluation.decision /\ v.isVerified = evidence.isVerified
        /\ v.completedAt = IF IsTerminal(evaluation.decision) THEN terminalAt ELSE Never
        /\ v.visibleUntil = IF IsTerminal(evaluation.decision) THEN terminalAt + ResultVisibility ELSE Never
    <2> HIDE DEF evaluation, terminalAt
    <2>1. v = [decision |-> evaluation.decision, failureCode |-> evaluation.failureCode,
               attributes |-> evaluation.attributes, isVerified |-> evidence.isVerified,
               completedAt |-> IF IsTerminal(evaluation.decision) THEN terminalAt ELSE Never,
               visibleUntil |-> IF IsTerminal(evaluation.decision) THEN terminalAt + ResultVisibility ELSE Never]
      BY <1>1 DEF SyncVerdict, evaluation, terminalAt
    <2> QED
      BY <2>1
  <1> HIDE DEF evaluation, terminalAt, v
  <1>5. terminalAt # Never
    BY <1>2 DEF Never
  <1>6. Fits(v, seen)
    BY <1>3, <1>4, <1>5 DEF Fits
  <1> QED
    BY <1>6 DEF v

(* The verdict still fits what the record has become, if it is undecided.   *)
LEMMA FitsLater ==
  ASSUME NEW seen, seen.mode # "NONE", NEW r, Evolves(seen, r), ~IsTerminal(r.decision), NEW v
  PROVE  ~IsTerminal(seen.decision) /\ (Fits(v, seen) => Fits(v, r))
  BY DEF Evolves, NoSession, IsTerminal, Fits, Unlinked

-----------------------------------------------------------------------------
(* What a step may do to the records. *)
StoreEvolves == \A s \in Session : Evolves(store[s], store'[s]) /\ Sound(store'[s])

(* A step that saves nothing. *)
LEMMA NoWrite ==
  ASSUME \A s \in Session : Sound(store[s]), store' = store
  PROVE  StoreEvolves
  BY EvolvesSelf DEF StoreEvolves

(* A step that saves one record. *)
LEMMA OneWrite ==
  ASSUME \A s \in Session : Sound(store[s]), store \in [Session -> SessionRecord],
         NEW s \in Session, NEW new, store' = [store EXCEPT ![s] = new],
         Evolves(store[s], new), Sound(new)
  PROVE  StoreEvolves /\ store'[s] = new /\ \A x \in Session \ {s} : store'[x] = store[x]
  <1>1. store'[s] = new /\ \A x \in Session \ {s} : store'[x] = store[x]
    OBVIOUS
  <1>2. \A x \in Session : x = s \/ x \in Session \ {s}
    OBVIOUS
  <1> QED
    BY <1>1, <1>2, EvolvesSelf DEF StoreEvolves

(* What is left to show of a step whose records evolve: the task that takes *)
(* it, and the claims.                                                      *)
LEMMA RecordsKept ==
  ASSUME TypeOK, RecordsInv, StoreEvolves, ClaimsOpen',
         \A t \in Task : task'[t] = task[t] \/ JobOK(task'[t], store'[task'[t].session]),
         \A c \in Cleaner : \A item \in sweep'[c] :
           item \in sweep[c] \/ Snapshot(item.record, store'[item.session])
  PROVE  RecordsInv'
  <1>1. \A s \in Session : Sound(store'[s])
    BY DEF StoreEvolves
  <1>2. ASSUME NEW t \in Task PROVE JobOK(task'[t], store'[task'[t].session])
    <2>1. CASE task[t].pc = "idle" /\ task'[t] = task[t]
      BY <2>1 DEF JobOK
    <2>2. CASE task[t].pc # "idle" /\ task'[t] = task[t]
      <3>1. task[t].session \in Session
        BY <2>2, TaskSession DEF TypeOK, At
      <3>2. JobOK(task[t], store[task[t].session])
        BY DEF RecordsInv, JobsSound
      <3>3. Evolves(store[task[t].session], store'[task[t].session])
        BY <3>1 DEF StoreEvolves
      <3>4. JobOK(task[t], store'[task[t].session])
        BY <3>2, <3>3, JobStable
      <3> QED
        BY <2>2, <3>4
    <2> QED
      BY <2>1, <2>2
  <1>3. ASSUME NEW c \in Cleaner, NEW item \in sweep'[c] PROVE Snapshot(item.record, store'[item.session])
    <2>1. ASSUME item \in sweep[c] PROVE Snapshot(item.record, store'[item.session])
      <3>1. item.session \in Session /\ Snapshot(item.record, store[item.session])
        BY <2>1 DEF RecordsInv, SweepsSound, TypeOK
      <3> QED
        BY <3>1, EvolvesOn DEF Snapshot, StoreEvolves
    <2> QED
      BY <2>1
  <1> QED
    BY <1>1, <1>2, <1>3 DEF RecordsInv, JobsSound, SweepsSound

(* A step that neither starts a session nor begins, links or fails a claim. *)
Steady ==
  /\ \A s \in Session : /\ store'[s].mode = store[s].mode
                        /\ Open(store[s]) => Open(store'[s])
  /\ \A h \in Handler :
       \/ task'[h] = task[h]
       \/ Claiming(h) /\ task'[h].session = task[h].session /\ task'[h].pc # "start-insert"
       \/ task'[h].pc \notin {"start-insert", "claim-exchange", "claim-link", "claim-fail"}

(* Such a step leaves the claims as they were. *)
LEMMA SteadyOpen ==
  ASSUME TypeOK, RecordsInv, Steady
  PROVE  ClaimsOpen'
  <1>1. \A h \in Handler : ClaimOpen(h) /\ StartFresh(h)
    BY DEF RecordsInv, ClaimsOpen
  <1>2. \A h \in Handler : task[h].pc # "idle" => task[h].session \in Session
    BY TaskSession DEF TypeOK, Task, At
  <1>3. ASSUME NEW h \in Handler PROVE ClaimOpen(h)'
    BY <1>1, <1>2, <1>3 DEF ClaimOpen, Steady, Claiming
  <1>4. \A h \in Handler : At(h, "start-insert")' => At(h, "start-insert") /\ task'[h] = task[h]
    BY DEF Steady, At, Claiming
  <1>5. ASSUME NEW h \in Handler PROVE StartFresh(h)'
    <2>1. At(h, "start-insert") => task[h].session \in Session
      BY <1>2 DEF At
    <2> QED
      BY <1>1, <1>4, <2>1 DEF StartFresh, Exists, Steady
  <1> QED
    BY <1>3, <1>5 DEF ClaimsOpen

(* The quiet steps that leave open sessions open are steady. *)
LEMMA QuietSteady ==
  ASSUME Quiet, \A s \in Session : Open(store[s]) => Open(store'[s])
  PROVE  Steady
  BY DEF Quiet, Steady

(* Steady steps of tasks that are about no snapshot, or about a good one. *)
LEMMA SteadyKeeps ==
  ASSUME TypeOK, RecordsInv, StoreEvolves, Steady,
         NEW t \in Task, \A g \in Task \ {t} : task'[g] = task[g],
         JobOK(task'[t], store'[task'[t].session]), sweep' = sweep
  PROVE  RecordsInv'
  <1>1. ClaimsOpen'
    BY SteadyOpen
  <1>2. \A g \in Task : task'[g] = task[g] \/ JobOK(task'[g], store'[task'[g].session])
    BY Zenon
  <1> QED
    BY <1>1, <1>2, RecordsKept

-----------------------------------------------------------------------------
(* The steps, action by action: records evolve and tasks stay sound. *)
LEMMA RequestRecords ==
  ASSUME ClaimInv, RecordsInv, NEW h \in Handler, Request(h)
  PROVE  RecordsInv' /\ StoreEvolves
  <1>1. /\ TypeOK /\ task \in [Task -> TaskRecord] /\ store \in [Session -> SessionRecord]
        /\ h \in Task /\ Handler \subseteq Task /\ \A s \in Session : Sound(store[s])
    BY DEF ClaimInv, TypeOK, Task, RecordsInv
  <1>2. store' = store /\ sweep' = sweep /\ StoreEvolves
    BY <1>1, NoWrite DEF Request, StartSession, ClaimCheckout, PollStatus, HandleProofEvent
  <1>3. ASSUME NEW r, Begin(h, r) \/ UNCHANGED task, r.pc \in {"claim-gate", "sync-proof"},
               JobOK(r, store[r.session])
        PROVE  RecordsInv'
    <2>1. /\ \A g \in Task \ {h} : task'[g] = task[g]
          /\ task'[h] = r \/ task'[h] = task[h]
      BY <1>1, <1>3, OneTask
    <2>2. Steady
      BY <1>1, <1>2, <1>3, <2>1 DEF Steady
    <2>3. JobOK(task'[h], store'[task'[h].session])
      BY <1>1, <1>2, <1>3, <2>1 DEF RecordsInv, JobsSound
    <2> QED
      BY <1>1, <1>2, <2>1, <2>2, <2>3, SteadyKeeps
  <1>4. ASSUME NEW s \in Session, store[s].mode # "NONE" PROVE Snapshot(store[s], store[s])
    BY <1>1, <1>4, EvolvesSelf DEF Snapshot
  <1>5. ASSUME NEW s \in Session, NEW p \in Proof, StartSession(h, s, p) PROVE RecordsInv'
    <2> DEFINE r == [Idle EXCEPT !.pc = "start-insert", !.session = s, !.proof = p, !.stamp = clock]
    <2>1. Begin(h, r) /\ ~Exists(s) /\ \A g \in Handler : ~At(g, "start-insert")
      BY <1>5 DEF StartSession, MayStart
    <2>2. r.pc = "start-insert" /\ r.session = s
      BY DEF Idle
    <2> HIDE DEF r
    <2>3. task'[h] = r /\ \A g \in Task \ {h} : task'[g] = task[g]
      BY <1>1, <2>1, OneTask
    <2>4. ASSUME NEW g \in Handler PROVE ClaimOpen(g)' /\ StartFresh(g)'
      BY <1>1, <1>2, <2>1, <2>2, <2>3 DEF ClaimOpen, StartFresh, Claiming, At, Exists, RecordsInv, ClaimsOpen
    <2>5. JobOK(task'[h], store'[task'[h].session])
      BY <2>2, <2>3 DEF JobOK
    <2>6. \A g \in Task : task'[g] = task[g] \/ JobOK(task'[g], store'[task'[g].session])
      BY <2>3, <2>5, Zenon
    <2> QED
      BY <1>1, <1>2, <2>4, <2>6, RecordsKept DEF ClaimsOpen
  <1>6. ASSUME NEW s \in Session, ClaimCheckout(h, s) PROVE RecordsInv'
    <2> DEFINE r == [Idle EXCEPT !.pc = "claim-gate", !.session = s]
    <2>1. Begin(h, r) /\ r.pc = "claim-gate"
      BY <1>6 DEF ClaimCheckout, Idle
    <2> HIDE DEF r
    <2>2. JobOK(r, store[r.session])
      BY <2>1 DEF JobOK
    <2> QED
      BY <1>3, <2>1, <2>2
  <1>7. ASSUME NEW s \in Session, PollStatus(h, s) PROVE RecordsInv'
    <2> DEFINE r == [Idle EXCEPT !.pc = "sync-proof", !.session = s, !.seen = store[s]]
    <2>1. Begin(h, r) /\ store[s].mode # "NONE"
      BY <1>7 DEF PollStatus, Exists
    <2>2. r.pc = "sync-proof" /\ r.session = s /\ r.seen = store[s] /\ r.evidence = NoRecord
      BY DEF Idle
    <2> HIDE DEF r
    <2>3. JobOK(r, store[r.session])
      BY <1>4, <2>1, <2>2 DEF JobOK
    <2> QED
      BY <1>3, <2>1, <2>2, <2>3
  <1>8. ASSUME NEW e \in events, HandleProofEvent(h, e) PROVE RecordsInv'
    <2>1. e.proof \in Proof
      BY <1>1 DEF TypeOK
    <2>2. CASE UNCHANGED task
      <3>1. ClaimsOpen'
        BY <1>1, <1>2, <2>2, SteadyOpen DEF Steady
      <3> QED
        BY <1>1, <1>2, <2>2, <3>1, RecordsKept
    <2>3. ASSUME NEW s \in Session, store[s].proof = e.proof,
                 Begin(h, [Idle EXCEPT !.pc = "sync-proof", !.session = s, !.seen = store[s],
                                       !.evidence = e.record, !.notify = TRUE])
          PROVE  RecordsInv'
      <3> DEFINE r == [Idle EXCEPT !.pc = "sync-proof", !.session = s, !.seen = store[s],
                                   !.evidence = e.record, !.notify = TRUE]
      <3>1. Begin(h, r)
        BY <2>3
      <3>2. r.pc = "sync-proof" /\ r.session = s /\ r.seen = store[s]
        BY DEF Idle
      <3>3. store[s].proof # None /\ store[s].mode # "NONE"
        BY <1>1, <2>1, <2>3, NamesAssumption DEF Sound, NoSession
      <3> HIDE DEF r
      <3>4. JobOK(r, store[r.session])
        BY <1>4, <3>2, <3>3 DEF JobOK
      <3> QED
        BY <1>3, <3>1, <3>2, <3>4
    <2> QED
      BY <1>8, <2>2, <2>3 DEF HandleProofEvent
  <1> QED
    BY <1>2, <1>5, <1>6, <1>7, <1>8 DEF Request

(* A session is inserted by the one scan that is starting. *)
LEMMA StartInsertRecords ==
  ASSUME ClaimInv, RecordsInv, NEW h \in Handler, StartInsert(h)
  PROVE  RecordsInv' /\ StoreEvolves
  <1> DEFINE s == task[h].session
  <1>1. /\ TypeOK /\ task \in [Task -> TaskRecord] /\ store \in [Session -> SessionRecord]
        /\ h \in Task /\ Handler \subseteq Task /\ \A x \in Session : Sound(store[x])
    BY DEF ClaimInv, TypeOK, Task, RecordsInv
  <1>2. /\ s \in Session /\ task[h].proof \in Proof /\ task[h].stamp + SessionTtl \in Nat
        /\ store[s].mode = "NONE" /\ \A g \in Handler : At(g, "start-insert") => g = h
    <2>1. At(h, "start-insert") /\ task[h] \in TaskRecord
      BY <1>1 DEF StartInsert
    <2>2. s \in Session /\ task[h].proof \in Proof
      BY <1>1, <2>1 DEF TaskRecord, At
    <2>3. task[h].stamp \in Moment
      BY <2>1 DEF TaskRecord
    <2>4. task[h].stamp + SessionTtl \in Nat
      BY <2>3, NumbersAssumption DEF Moment, Never
    <2>5. ~Exists(s) /\ \A g \in Handler : At(g, "start-insert") => g = h
      BY <2>1 DEF RecordsInv, ClaimsOpen, StartFresh
    <2> QED
      BY <2>2, <2>4, <2>5 DEF Exists
  <1> DEFINE new == [NoSession EXCEPT !.mode = "STATIC", !.proof = task[h].proof,
                                      !.expiresAt = task[h].stamp + SessionTtl]
  <1>3. /\ new \in SessionRecord /\ new.mode = "STATIC" /\ new.claimedAt = Never
        /\ new.expiresAt = task[h].stamp + SessionTtl /\ new.decision = "Pending"
        /\ new.isVerified = "unset" /\ new.completedAt = Never /\ new.visibleUntil = Never
    <2>1. task[h].proof # None /\ task[h].stamp + SessionTtl \in Moment
      BY <1>2, NamesAssumption DEF Moment
    <2> QED
      BY <1>2, <2>1, StartTypes DEF NoSession, SessionRecord
  <1>4. store' = [store EXCEPT ![s] = new]
    BY DEF StartInsert
  <1> HIDE DEF new
  <1>5. Sound(new) /\ Evolves(store[s], new)
    <2>1. task[h].stamp + SessionTtl # Never
      BY <1>2 DEF Never
    <2>2. store[s] = NoSession
      BY <1>1, <1>2 DEF Sound
    <2> QED
      BY <1>3, <2>1, <2>2, NewRecordSound
  <1>6. /\ StoreEvolves /\ store'[s] = new /\ \A x \in Session \ {s} : store'[x] = store[x]
    BY <1>1, <1>2, <1>4, <1>5, OneWrite
  <1>7. task'[h] = Idle /\ \A g \in Task \ {h} : task'[g] = task[g]
    BY <1>1, OneTask DEF StartInsert
  <1>8. ASSUME NEW g \in Handler PROVE ClaimOpen(g)' /\ StartFresh(g)'
    <2>1. ~At(g, "start-insert")'
      BY <1>1, <1>2, <1>7, IdlePc DEF At
    <2>2. Claiming(g)' => g # h /\ task'[g] = task[g] /\ Claiming(g) /\ task[g].session \in Session
      BY <1>1, <1>7, IdlePc, TaskSession DEF Claiming, At
    <2>3. Claiming(g) => Open(store[task[g].session])
      BY DEF RecordsInv, ClaimsOpen, ClaimOpen
    <2>4. ~Open(store[s])
      BY <1>2 DEF Open, Unlinked
    <2> QED
      BY <1>6, <2>1, <2>2, <2>3, <2>4 DEF ClaimOpen, StartFresh
  <1>9. \A g \in Task : task'[g] = task[g] \/ JobOK(task'[g], store'[task'[g].session])
    BY <1>7, IdlePc DEF JobOK
  <1> QED
    BY <1>1, <1>6, <1>8, <1>9, RecordsKept DEF ClaimsOpen, StartInsert

(* A claim passes its gate, is saved by one handler only, and gets its      *)
(* exchange.                                                                *)
LEMMA ClaimRecords ==
  ASSUME ClaimInv, RecordsInv, NEW h \in Handler,
         ClaimGate(h) \/ ClaimSave(h) \/ \E p \in Proof : ClaimExchange(h, p)
  PROVE  RecordsInv' /\ StoreEvolves
  <1> DEFINE s == task[h].session
  <1>1. /\ TypeOK /\ task \in [Task -> TaskRecord] /\ store \in [Session -> SessionRecord] /\ sweep' = sweep
        /\ h \in Task /\ Handler \subseteq Task /\ \A x \in Session : Sound(store[x])
    BY DEF ClaimInv, TypeOK, Task, RecordsInv, ClaimGate, ClaimSave, ClaimExchange
  <1>2. s \in Session /\ store[s] \in SessionRecord /\ task[h] \in TaskRecord
    BY <1>1, TaskSession DEF ClaimGate, ClaimSave, ClaimExchange, At
  <1>3. ASSUME store' = store, \A g \in Task \ {h} : task'[g] = task[g],
               \/ task'[h].pc \in {"idle", "claim-save"}
               \/ Claiming(h) /\ task'[h].session = s /\ task'[h].pc = "claim-link"
        PROVE  RecordsInv' /\ StoreEvolves
    <2>1. Steady
      BY <1>1, <1>3 DEF Steady
    <2>2. JobOK(task'[h], store'[task'[h].session])
      BY <1>3 DEF JobOK
    <2> QED
      BY <1>1, <1>3, <2>1, <2>2, NoWrite, SteadyKeeps
  <1>4. CASE ClaimGate(h)
    <2> DEFINE r == [task[h] EXCEPT !.pc = "claim-save", !.stamp = clock]
    <2>1. r.pc = "claim-save" /\ (Begin(h, r) \/ Finish(h)) /\ store' = store
      BY <1>2, <1>4 DEF ClaimGate, TaskRecord
    <2> HIDE DEF r
    <2> QED
      BY <1>1, <1>3, <2>1, OneTask, IdlePc
  <1>5. ASSUME NEW p \in Proof, ClaimExchange(h, p) PROVE RecordsInv' /\ StoreEvolves
    <2> DEFINE r == [task[h] EXCEPT !.pc = "claim-link", !.proof = p]
    <2>1. r.pc = "claim-link" /\ r.session = s /\ Begin(h, r) /\ store' = store /\ Claiming(h)
      BY <1>2, <1>5 DEF ClaimExchange, TaskRecord, Claiming, At
    <2> HIDE DEF r
    <2> QED
      BY <1>1, <1>3, <2>1, OneTask
  <1>6. CASE ClaimSave(h)
    <2>1. CASE Finish(h) /\ UNCHANGED store
      BY <1>1, <1>3, <2>1, OneTask, IdlePc
    <2>2. ASSUME store[s].claimedAt = Never,
                 store' = [store EXCEPT ![s].claimedAt = task[h].stamp],
                 Begin(h, [task[h] EXCEPT !.pc = "claim-exchange", !.stamp = Never])
          PROVE  RecordsInv' /\ StoreEvolves
      <3> DEFINE r == [task[h] EXCEPT !.pc = "claim-exchange", !.stamp = Never]
                 new == [store[s] EXCEPT !.claimedAt = task[h].stamp]
      <3>1. store[s].mode = "CHECKOUT" /\ task[h].stamp # Never /\ task[h].stamp \in Moment
        BY <1>2, <1>6 DEF ClaimSave, ClaimInv, ClaimOwnership, TaskRecord
      <3>2. Sound(new) /\ Evolves(store[s], new) /\ Open(new)
        BY <1>1, <1>2, <2>2, <3>1, ClaimedSound
      <3>3. r.pc = "claim-exchange" /\ r.session = s /\ Begin(h, r) /\ store' = [store EXCEPT ![s] = new]
        BY <1>2, <2>2 DEF TaskRecord
      <3>4. new.mode = store[s].mode
        BY <1>2 DEF SessionRecord
      <3> HIDE DEF r, new
      <3>5. StoreEvolves /\ store'[s] = new /\ \A x \in Session \ {s} : store'[x] = store[x]
        BY <1>1, <1>2, <3>2, <3>3, OneWrite
      <3>6. task'[h] = r /\ \A g \in Task \ {h} : task'[g] = task[g]
        BY <1>1, <3>3, OneTask
      <3>7. ASSUME NEW g \in Handler PROVE ClaimOpen(g)' /\ StartFresh(g)'
        <4>1. CASE g = h
          BY <3>2, <3>3, <3>5, <3>6, <4>1 DEF ClaimOpen, StartFresh, At
        <4>2. CASE g # h
          <5>1. task'[g] = task[g] /\ (task[g].pc # "idle" => task[g].session \in Session)
            BY <1>1, <3>6, <4>2, TaskSession DEF At
          <5>2. ClaimOpen(g) /\ StartFresh(g)
            BY DEF RecordsInv, ClaimsOpen
          <5>3. ClaimOpen(g)'
            BY <3>2, <3>5, <5>1, <5>2 DEF ClaimOpen, Claiming
          <5>4. At(g, "start-insert") => \A x \in Handler : At(x, "start-insert")' => x = g
            BY <1>1, <3>3, <3>6, <5>2 DEF StartFresh, At
          <5>5. StartFresh(g)'
            BY <3>4, <3>5, <5>1, <5>2, <5>4 DEF StartFresh, At, Exists
          <5> QED
            BY <5>3, <5>5
        <4> QED
          BY <4>1, <4>2
      <3>8. \A g \in Task : task'[g] = task[g] \/ JobOK(task'[g], store'[task'[g].session])
        BY <3>3, <3>6 DEF JobOK
      <3> QED
        BY <1>1, <3>5, <3>7, <3>8, RecordsKept DEF ClaimsOpen
    <2> QED
      BY <1>6, <2>1, <2>2 DEF ClaimSave, MayClaim
  <1> QED
    BY <1>4, <1>5, <1>6

(* The owner of a claim links the exchange, or fails the session. *)
LEMMA ClaimEndRecords ==
  ASSUME ClaimInv, RecordsInv, NEW h \in Handler, ClaimLink(h) \/ ClaimFail(h)
  PROVE  RecordsInv' /\ StoreEvolves
  <1> DEFINE s == task[h].session
  <1>1. /\ TypeOK /\ task \in [Task -> TaskRecord] /\ store \in [Session -> SessionRecord] /\ sweep' = sweep
        /\ h \in Task /\ Handler \subseteq Task /\ \A x \in Session : Sound(store[x]) /\ clock \in Nat
    BY DEF ClaimInv, TypeOK, Task, RecordsInv, ClaimLink, ClaimFail
  <1>2. s \in Session /\ store[s] \in SessionRecord /\ task[h] \in TaskRecord /\ Claiming(h)
    BY <1>1, TaskSession DEF ClaimLink, ClaimFail, At, Claiming
  <1>3. Open(store[s]) /\ store[s].claimedAt # Never
    BY <1>2 DEF RecordsInv, ClaimsOpen, ClaimOpen, ClaimInv, ClaimOwnership
  <1>4. \E new : /\ store' = [store EXCEPT ![s] = new]
                 /\ Sound(new) /\ Evolves(store[s], new) /\ new.mode = store[s].mode
    <2>1. CASE ClaimLink(h)
      <3> DEFINE new == [store[s] EXCEPT !.proof = task[h].proof]
      <3>1. task[h].proof \in Proof
        BY <1>2, <2>1 DEF ClaimLink, At, TaskRecord
      <3>2. Sound(new) /\ Evolves(store[s], new)
        BY <1>1, <1>2, <1>3, <3>1, LinkedSound
      <3>3. store' = [store EXCEPT ![s] = new] /\ new.mode = store[s].mode
        BY <1>2, <2>1 DEF ClaimLink, SessionRecord
      <3> HIDE DEF new
      <3> QED
        BY <3>2, <3>3
    <2>2. CASE ClaimFail(h)
      <3> DEFINE new == FailedClaim(store[s])
      <3>1. Sound(new) /\ Evolves(store[s], new)
        BY <1>1, <1>2, <1>3, FailedSound
      <3>2. store' = [store EXCEPT ![s] = new] /\ new.mode = store[s].mode
        BY <1>2, <2>2 DEF ClaimFail, FailedClaim, SessionRecord
      <3> HIDE DEF new
      <3> QED
        BY <3>1, <3>2
    <2> QED
      BY <2>1, <2>2
  <1>5. PICK new : /\ store' = [store EXCEPT ![s] = new]
                   /\ Sound(new) /\ Evolves(store[s], new) /\ new.mode = store[s].mode
    BY <1>4
  <1>6. StoreEvolves /\ store'[s] = new /\ \A x \in Session \ {s} : store'[x] = store[x]
    BY <1>1, <1>2, <1>5, OneWrite
  <1>7. task'[h] = Idle /\ \A g \in Task \ {h} : task'[g] = task[g]
    BY <1>1, OneTask DEF ClaimLink, ClaimFail
  <1>8. ASSUME NEW g \in Handler PROVE ClaimOpen(g)' /\ StartFresh(g)'
    <2>1. CASE g = h
      BY <1>7, <2>1, IdlePc DEF ClaimOpen, StartFresh, Claiming, At
    <2>2. CASE g # h
      <3>1. task'[g] = task[g] /\ (task[g].pc # "idle" => task[g].session \in Session)
        BY <1>1, <1>7, <2>2, TaskSession DEF At
      <3>2. ClaimOpen(g) /\ StartFresh(g)
        BY DEF RecordsInv, ClaimsOpen
      <3>3. Claiming(g) => task[g].session # s
        BY <1>2, <2>2 DEF ClaimInv, ClaimOwnership
      <3>4. ClaimOpen(g)'
        BY <1>6, <3>1, <3>2, <3>3 DEF ClaimOpen, Claiming
      <3>5. \A x \in Handler : At(x, "start-insert")' => At(x, "start-insert")
        BY <1>1, <1>7, IdlePc DEF At
      <3>6. StartFresh(g)'
        BY <1>5, <1>6, <3>1, <3>2, <3>5 DEF StartFresh, At, Exists
      <3> QED
        BY <3>4, <3>6
    <2> QED
      BY <2>1, <2>2
  <1>9. \A g \in Task : task'[g] = task[g] \/ JobOK(task'[g], store'[task'[g].session])
    BY <1>7, IdlePc DEF JobOK
  <1> QED
    BY <1>1, <1>6, <1>8, <1>9, RecordsKept DEF ClaimsOpen

(* What a synchronisation ends with is a snapshot of the record. *)
LEMMA AfterSyncJob ==
  ASSUME task \in [Task -> TaskRecord], NEW t \in Task, ~At(t, "idle"),
         NEW record \in SessionRecord, NEW verdict \in Verdict, AfterSync(t, record, verdict),
         Snapshot(record, store'[task[t].session])
  PROVE  /\ JobOK(task'[t], store'[task'[t].session])
         /\ \A g \in Task \ {t} : task'[g] = task[g]
  <1> DEFINE fields == verdict.attributes /\ DetailsVisible(record)
  <1>1. Ended(t, record, fields)
    BY AfterSyncEnds
  <1> HIDE DEF fields
  <1>2. \/ task'[t] = Idle
        \/ Follows(t, record, fields, task'[t])
    BY <1>1, OneTask DEF Ended
  <1>3. \A g \in Task \ {t} : task'[g] = task[g]
    BY <1>1, OneTask DEF Ended
  <1> QED
    BY <1>2, <1>3, IdlePc DEF JobOK, Follows

(* A synchronisation commits a verdict that fits the record it finds, or    *)
(* leaves a decided one.                                                    *)
LEMMA SyncRecords ==
  ASSUME ClaimInv, RecordsInv, NEW t \in Task, Sync(t)
  PROVE  RecordsInv' /\ StoreEvolves
  <1> DEFINE s == task[t].session
             seen == task[t].seen
  <1>1. /\ TypeOK /\ task \in [Task -> TaskRecord] /\ store \in [Session -> SessionRecord] /\ sweep' = sweep
        /\ clock \in Nat /\ \A x \in Session : Sound(store[x])
    BY DEF ClaimInv, TypeOK, RecordsInv, Sync, SyncProof, SyncEvaluate, SyncCommit
  <1>2. /\ s \in Session /\ store[s] \in SessionRecord /\ task[t] \in TaskRecord
        /\ seen \in SessionRecord /\ task[t].evidence \in ProofRecord /\ task[t].verdict \in Verdict
        /\ ~At(t, "idle")
    BY <1>1, TaskSession DEF Sync, SyncProof, SyncEvaluate, SyncCommit, At, TaskRecord
  <1>3. Quiet
    BY SyncQuiet
  <1>4. JobOK(task[t], store[s])
    BY DEF RecordsInv, JobsSound
  <1>5. ASSUME store' = store, \A g \in Task \ {t} : task'[g] = task[g], JobOK(task'[t], store'[task'[t].session])
        PROVE  RecordsInv' /\ StoreEvolves
    BY <1>1, <1>3, <1>5, NoWrite, QuietSteady, SteadyKeeps
  <1>6. CASE SyncProof(t)
    <2>1. Snapshot(seen, store[s]) /\ (seen.proof = None => task[t].evidence = NoRecord) /\ store' = store
      BY <1>4, <1>6 DEF SyncProof, At, JobOK
    <2>2. CASE AfterSync(t, seen, NoVerdict)
      BY <1>1, <1>2, <1>5, <2>1, <2>2, AfterSyncJob, StartTypes
    <2> DEFINE read == IF seen.proof = None THEN NoRecord ELSE proofRecord[seen.proof]
               evidence == IF task[t].notify THEN task[t].evidence ELSE read
               r == [task[t] EXCEPT !.pc = "sync-evaluate", !.evidence = evidence]
    <2>3. CASE Begin(t, r)
      <3>1. seen.proof = None => evidence = NoRecord
        BY <2>1
      <3> HIDE DEF evidence
      <3>2. r.pc = "sync-evaluate" /\ r.session = s /\ r.seen = seen /\ r.evidence = evidence
        BY <1>2 DEF TaskRecord
      <3> HIDE DEF r
      <3>3. JobOK(r, store'[r.session])
        BY <2>1, <3>1, <3>2 DEF JobOK
      <3>4. task'[t] = r /\ \A g \in Task \ {t} : task'[g] = task[g]
        BY <1>1, <2>3, OneTask
      <3> QED
        BY <1>5, <2>1, <3>3, <3>4
    <2> QED
      BY <1>6, <2>2, <2>3 DEF SyncProof, Begin
  <1>7. CASE SyncEvaluate(t)
    <2> DEFINE shown == IF ReadsPresentation(t) THEN presentation[seen.proof] ELSE NoPresentation
               v == SyncVerdict(seen, task[t].evidence, shown)
               r == [Idle EXCEPT !.pc = "sync-commit", !.session = s, !.notify = task[t].notify, !.verdict = v]
    <2>1. Snapshot(seen, store[s]) /\ (seen.proof = None => task[t].evidence = NoRecord) /\ store' = store
      BY <1>4, <1>7 DEF SyncEvaluate, At, JobOK
    <2>2. Begin(t, r) \/ Finish(t)
      BY <1>7 DEF SyncEvaluate
    <2>3. shown.revealed \in BOOLEAN
      <3>1. NoPresentation.revealed \in BOOLEAN /\ \A e \in Presentation : e.revealed \in BOOLEAN
        BY EvidenceAssumption DEF NoPresentation
      <3>2. ReadsPresentation(t) => presentation[seen.proof] \in Presentation \cup {NoPresentation}
        BY <1>1, <1>2 DEF ReadsPresentation, SessionRecord, TypeOK
      <3>3. shown \in Presentation \cup {NoPresentation}
        BY <3>2
      <3> HIDE DEF shown
      <3> QED
        BY <3>1, <3>3, Zenon
    <2>4. ~IsTerminal(store[s].decision) => Fits(v, store[s])
      <3> SUFFICES ASSUME ~IsTerminal(store[s].decision) PROVE Fits(v, store[s])
        OBVIOUS
      <3>1. seen.mode # "NONE" /\ Sound(seen) /\ Evolves(seen, store[s])
        BY <2>1 DEF Snapshot
      <3>2. ~IsTerminal(seen.decision)
        BY <3>1, FitsLater
      <3> HIDE DEF shown
      <3>3. Fits(v, seen)
        BY <1>1, <1>2, <2>1, <2>3, <3>1, <3>2, EvaluationFits
      <3> HIDE DEF v
      <3> QED
        BY <3>1, <3>3, FitsLater
    <2>5. store[s].mode # "NONE"
      BY <2>1 DEF Snapshot, Evolves, NoSession
    <2>6. r.pc = "sync-commit" /\ r.session = s /\ r.verdict = v
      BY DEF Idle
    <2> HIDE DEF r, v
    <2>7. JobOK(r, store'[r.session])
      BY <2>1, <2>4, <2>5, <2>6 DEF JobOK
    <2>8. task'[t] \in {r, Idle} /\ \A g \in Task \ {t} : task'[g] = task[g]
      BY <1>1, <2>2, OneTask
    <2>9. JobOK(task'[t], store'[task'[t].session])
      BY <2>7, <2>8, IdlePc DEF JobOK
    <2> QED
      BY <1>5, <2>1, <2>8, <2>9
  <1>8. CASE SyncCommit(t)
    <2> DEFINE new == ApplyVerdict(store[s], task[t].verdict)
    <2>1. store[s].mode # "NONE" /\ (~IsTerminal(store[s].decision) => Fits(task[t].verdict, store[s]))
      BY <1>4, <1>8 DEF SyncCommit, At, JobOK
    <2>2. Sound(new) /\ Evolves(store[s], new) /\ (Open(store[s]) => Open(new))
      BY <1>1, <1>2, <2>1, VerdictSound
    <2>3. store' = [store EXCEPT ![s] = new] /\ AfterSync(t, new, task[t].verdict)
      BY <1>8 DEF SyncCommit
    <2>9. new \in SessionRecord
      BY <1>2, ApplyType
    <2> HIDE DEF new
    <2>4. StoreEvolves /\ store'[s] = new /\ \A x \in Session \ {s} : store'[x] = store[x]
      BY <1>1, <1>2, <2>2, <2>3, OneWrite
    <2>5. new.mode # "NONE"
      BY <2>1, <2>2 DEF Evolves, NoSession
    <2>6. Snapshot(new, store'[s])
      BY <2>2, <2>4, <2>5, EvolvesSelf DEF Snapshot
    <2>7. /\ JobOK(task'[t], store'[task'[t].session])
          /\ \A g \in Task \ {t} : task'[g] = task[g]
      BY <1>1, <1>2, <2>3, <2>6, <2>9, AfterSyncJob
    <2>8. Steady
      BY <1>3, <2>2, <2>4, QuietSteady
    <2> QED
      BY <1>1, <2>4, <2>7, <2>8, SteadyKeeps
  <1> QED
    BY <1>6, <1>7, <1>8 DEF Sync

(* A handler's steps. *)
LEMMA HandlerRecords ==
  ASSUME ClaimInv, RecordsInv, NEW h \in Handler, HandlerStep(h)
  PROVE  RecordsInv' /\ StoreEvolves
  <1>1. /\ TypeOK /\ task \in [Task -> TaskRecord] /\ h \in Task /\ Handler \subseteq Task
        /\ \A x \in Session : Sound(store[x])
    BY DEF ClaimInv, TypeOK, Task, RecordsInv
  <1>2. CASE SyncReply(h)
    <2>1. /\ store' = store /\ sweep' = sweep /\ task'[h] = Idle
          /\ \A g \in Task \ {h} : task'[g] = task[g]
      BY <1>1, <1>2, OneTask DEF SyncReply
    <2>2. Steady /\ JobOK(task'[h], store'[task'[h].session])
      BY <1>1, <2>1, IdlePc DEF Steady, JobOK
    <2> QED
      BY <1>1, <2>1, <2>2, NoWrite, SteadyKeeps
  <1>3. CASE Answer(h)
    <2>1. /\ store' = store /\ sweep' = sweep /\ task'[h].pc \in {"idle", "disclosed"}
          /\ \A g \in Task \ {h} : task'[g] = task[g]
      BY <1>1, <1>3, AnswerEnds, OneTask, IdlePc
    <2>2. Steady /\ JobOK(task'[h], store'[task'[h].session])
      BY <1>1, <2>1 DEF Steady, JobOK
    <2> QED
      BY <1>1, <2>1, <2>2, NoWrite, SteadyKeeps
  <1> QED
    BY <1>1, <1>2, <1>3, StartInsertRecords, ClaimRecords, ClaimEndRecords, SyncRecords DEF HandlerStep

(* A cleanup run visits snapshots and marks what it has removed. *)
LEMMA CleanerRecords ==
  ASSUME ClaimInv, RecordsInv, NEW c \in Cleaner, CleanerStep(c)
  PROVE  RecordsInv' /\ StoreEvolves
  <1> DEFINE s == task[c].session
  <1>1. /\ TypeOK /\ task \in [Task -> TaskRecord] /\ store \in [Session -> SessionRecord]
        /\ c \in Task /\ \A x \in Session : Sound(store[x])
    BY DEF ClaimInv, TypeOK, Task, RecordsInv
  <1>2. Quiet
    BY CleanerQuiet
  <1>3. ~At(c, "idle") => s \in Session /\ task[c] \in TaskRecord /\ store[s] \in SessionRecord
    BY <1>1, TaskSession
  <1>4. ASSUME store' = store PROVE Steady /\ StoreEvolves /\ ClaimsOpen'
    BY <1>1, <1>2, <1>4, NoWrite, QuietSteady, SteadyOpen
  <1>5. ASSUME NEW x \in Session, NEW record, Snapshot(record, store[x]), store' = store,
               Begin(c, [Idle EXCEPT !.pc = "sync-proof", !.session = x, !.seen = record])
        PROVE  \A g \in Task : task'[g] = task[g] \/ JobOK(task'[g], store'[task'[g].session])
    <2> DEFINE r == [Idle EXCEPT !.pc = "sync-proof", !.session = x, !.seen = record]
    <2>1. r.pc = "sync-proof" /\ r.session = x /\ r.seen = record /\ r.evidence = NoRecord /\ Begin(c, r)
      BY <1>5 DEF Idle
    <2> HIDE DEF r
    <2>2. task'[c] = r /\ \A g \in Task \ {c} : task'[g] = task[g]
      BY <1>1, <2>1, OneTask
    <2>3. JobOK(r, store'[r.session])
      BY <1>5, <2>1 DEF JobOK
    <2> QED
      BY <2>2, <2>3
  <1>6. CASE CleanupLists(c)
    <2> DEFINE listed == {[session |-> x, record |-> store[x]] : x \in {y \in Session : Exists(y)}}
    <2>1. PICK first \in listed : Visit(c, first) /\ sweep' = [sweep EXCEPT ![c] = listed \ {first}]
      BY <1>6 DEF CleanupLists
    <2>2. ASSUME NEW item \in listed PROVE item.session \in Session /\ Snapshot(item.record, store[item.session])
      BY <1>1, EvolvesSelf DEF Snapshot, Exists
    <2>3. store' = store
      BY <1>6 DEF CleanupLists
    <2>4. first \in listed
      BY <2>1
    <2> HIDE DEF listed
    <2>5. \A g \in Task : task'[g] = task[g] \/ JobOK(task'[g], store'[task'[g].session])
      BY <1>5, <2>1, <2>2, <2>3, <2>4 DEF Visit
    <2>6. \A d \in Cleaner : \A item \in sweep'[d] :
            item \in sweep[d] \/ Snapshot(item.record, store'[item.session])
      BY <1>1, <2>1, <2>2, <2>3 DEF TypeOK
    <2> QED
      BY <1>1, <1>4, <2>3, <2>5, <2>6, RecordsKept
  <1>7. ASSUME NEW item \in sweep[c], CleanupContinues(c, item) PROVE RecordsInv' /\ StoreEvolves
    <2>1. item.session \in Session /\ Snapshot(item.record, store[item.session]) /\ store' = store
      BY <1>1, <1>7 DEF TypeOK, RecordsInv, SweepsSound, CleanupContinues
    <2>2. \A g \in Task : task'[g] = task[g] \/ JobOK(task'[g], store'[task'[g].session])
      BY <1>5, <1>7, <2>1 DEF Visit, CleanupContinues
    <2>3. \A d \in Cleaner : \A i \in sweep'[d] : i \in sweep[d] \/ Snapshot(i.record, store'[i.session])
      BY <1>1, <1>7 DEF TypeOK, CleanupContinues
    <2> QED
      BY <1>1, <1>4, <2>1, <2>2, <2>3, RecordsKept
  <1>8. CASE CleanCheck(c)
    <2> DEFINE r == [Idle EXCEPT !.pc = "clean-proof", !.session = s, !.proof = store[s].proof]
    <2>1. Snapshot(task[c].seen, store[s]) /\ store' = store /\ sweep' = sweep /\ s \in Session
      BY <1>1, <1>3, <1>8 DEF CleanCheck, At, RecordsInv, JobsSound, JobOK
    <2>2. store[s].mode # "NONE"
      BY <2>1 DEF Snapshot, Evolves, NoSession
    <2>3. r.pc = "clean-proof" /\ r.session = s /\ (Begin(c, r) \/ Finish(c))
      BY <1>8 DEF CleanCheck, Idle
    <2> HIDE DEF r
    <2>4. task'[c] \in {r, Idle} /\ \A g \in Task \ {c} : task'[g] = task[g]
      BY <1>1, <2>3, OneTask
    <2>5. JobOK(task'[c], store'[task'[c].session])
      BY <2>1, <2>2, <2>3, <2>4, IdlePc DEF JobOK
    <2> QED
      BY <1>1, <1>4, <2>1, <2>4, <2>5, SteadyKeeps
  <1>9. CASE CleanProof(c) \/ CleanInvitation(c)
    <2>1. store' = store /\ sweep' = sweep /\ store[s].mode # "NONE"
      BY <1>1, <1>9 DEF CleanProof, CleanInvitation, At, RecordsInv, JobsSound, JobOK
    <2>2. /\ task'[c].pc \in {"clean-invitation", "clean-mark"} /\ task'[c].session = s
          /\ \A g \in Task \ {c} : task'[g] = task[g]
      BY <1>1, <1>9, OneTask DEF CleanProof, CleanInvitation
    <2>3. JobOK(task'[c], store'[task'[c].session])
      BY <2>1, <2>2 DEF JobOK
    <2> QED
      BY <1>1, <1>4, <2>1, <2>2, <2>3, SteadyKeeps
  <1>10. CASE CleanMark(c)
    <2> DEFINE new == [store[s] EXCEPT !.removed = TRUE]
    <2>1. s \in Session /\ store[s] \in SessionRecord /\ store[s].mode # "NONE" /\ sweep' = sweep
      BY <1>1, <1>3, <1>10 DEF CleanMark, At, RecordsInv, JobsSound, JobOK
    <2>2. Sound(new) /\ Evolves(store[s], new) /\ (Open(store[s]) => Open(new))
      BY <1>1, <2>1, MarkedSound
    <2>3. store' = [store EXCEPT ![s] = new]
      BY <1>10 DEF CleanMark
    <2> HIDE DEF new
    <2>4. StoreEvolves /\ store'[s] = new /\ \A x \in Session \ {s} : store'[x] = store[x]
      BY <1>1, <2>1, <2>2, <2>3, OneWrite
    <2>5. task'[c] = Idle /\ \A g \in Task \ {c} : task'[g] = task[g]
      BY <1>1, <1>10, OneTask DEF CleanMark
    <2>6. JobOK(task'[c], store'[task'[c].session])
      BY <2>5, IdlePc DEF JobOK
    <2>7. Steady
      BY <1>2, <2>2, <2>4, QuietSteady
    <2> QED
      BY <1>1, <2>1, <2>4, <2>5, <2>6, <2>7, SteadyKeeps
  <1>11. CASE Sync(c)
    BY <1>1, <1>11, SyncRecords
  <1> QED
    BY <1>6, <1>7, <1>8, <1>9, <1>10, <1>11 DEF CleanerStep

(* Failures and restarts save nothing and leave no task half-way. *)
LEMMA TroubleRecords ==
  ASSUME ClaimInv, RecordsInv, Trouble
  PROVE  RecordsInv' /\ StoreEvolves
  <1>1. /\ TypeOK /\ task \in [Task -> TaskRecord] /\ Handler \subseteq Task
        /\ \A x \in Session : Sound(store[x])
    BY DEF ClaimInv, TypeOK, Task, RecordsInv
  <1>2. store' = store /\ StoreEvolves
    <2>1. store' = store
      BY DEF Trouble, Crash, CleanupListFails, Restart, CallFails, LeaveProofBehind
    <2> QED
      BY <1>1, <2>1, NoWrite
  <1>3. CASE Restart
    <2>1. /\ \A g \in Task : task'[g] = Idle
          /\ \A c \in Cleaner : sweep'[c] = {}
      BY <1>3 DEF Restart
    <2>2. Steady /\ \A g \in Task : JobOK(task'[g], store'[task'[g].session])
      BY <1>1, <1>2, <2>1, IdlePc DEF Steady, JobOK
    <2> QED
      BY <1>1, <1>2, <2>1, <2>2, SteadyOpen, RecordsKept
  <1>4. ASSUME NEW t \in Task, CallFails(t) PROVE RecordsInv'
    <2>1. sweep' = sweep /\ \A g \in Task \ {t} : task'[g] = task[g]
      BY <1>1, <1>4, OneTask DEF CallFails
    <2>2. \/ task'[t].pc = "idle"
          \/ task[t].pc \in {"claim-exchange", "claim-link"} /\ task'[t].pc = "claim-fail"
             /\ task'[t].session = task[t].session
      BY <1>1, <1>4, OneTask, IdlePc DEF CallFails
    <2>3. Steady /\ JobOK(task'[t], store'[task'[t].session])
      BY <1>1, <1>2, <2>1, <2>2 DEF Steady, Claiming, JobOK
    <2> QED
      BY <1>1, <1>2, <2>1, <2>3, SteadyKeeps
  <1>5. ASSUME NEW h \in Handler, NEW s \in Session, NEW p \in Proof, LeaveProofBehind(h, s, p)
        PROVE  RecordsInv'
    <2>1. h \in Task /\ sweep' = sweep
      BY <1>1, <1>5 DEF LeaveProofBehind
    <2>2. CASE At(h, "claim-exchange") /\ Continue(h, "claim-fail")
      <3>1. /\ task'[h].pc = "claim-fail" /\ task'[h].session = task[h].session
            /\ \A g \in Task \ {h} : task'[g] = task[g]
        BY <1>1, <2>1, <2>2, OneTask
      <3>2. Steady /\ JobOK(task'[h], store'[task'[h].session])
        BY <1>1, <1>2, <2>2, <3>1 DEF Steady, Claiming, At, JobOK
      <3> QED
        BY <1>1, <1>2, <2>1, <3>1, <3>2, SteadyKeeps
    <2>3. CASE UNCHANGED task
      <3>1. Steady
        BY <1>2, <2>3 DEF Steady
      <3> QED
        BY <1>1, <1>2, <2>1, <2>3, <3>1, SteadyOpen, RecordsKept
    <2> QED
      BY <1>5, <2>2, <2>3 DEF LeaveProofBehind
  <1> QED
    BY <1>2, <1>3, <1>4, <1>5 DEF Trouble, Crash, CleanupListFails

(* A step that changes neither records, tasks nor lists of a cleanup run. *)
LEMMA IdleRecords ==
  ASSUME TypeOK, RecordsInv, UNCHANGED <<store, task, sweep>>
  PROVE  RecordsInv' /\ StoreEvolves
  <1>1. StoreEvolves /\ Steady
    BY NoWrite DEF RecordsInv, Steady
  <1> QED
    BY <1>1, SteadyOpen, RecordsKept

(* A checkout is created where nothing was. *)
LEMMA CreateRecords ==
  ASSUME ClaimInv, RecordsInv, NEW s \in Session, CreateCheckoutSession(s)
  PROVE  RecordsInv' /\ StoreEvolves
  <1>1. /\ TypeOK /\ store \in [Session -> SessionRecord] /\ \A x \in Session : Sound(store[x])
        /\ clock \in Nat /\ task' = task /\ sweep' = sweep
    BY DEF ClaimInv, TypeOK, RecordsInv, CreateCheckoutSession
  <1> DEFINE new == [NoSession EXCEPT !.mode = "CHECKOUT", !.expiresAt = clock + SessionTtl]
  <1>2. clock + SessionTtl \in Moment /\ clock + SessionTtl # Never
    BY <1>1, NumbersAssumption DEF Moment, Never
  <1>3. /\ new \in SessionRecord /\ new.mode = "CHECKOUT" /\ new.claimedAt = Never
        /\ new.expiresAt = clock + SessionTtl /\ new.decision = "Pending" /\ new.proof = None
        /\ new.isVerified = "unset" /\ new.completedAt = Never /\ new.visibleUntil = Never
    BY <1>2, StartTypes DEF NoSession, SessionRecord
  <1>4. store' = [store EXCEPT ![s] = new] /\ store[s].mode = "NONE" /\ s \in Checkout
    BY DEF CreateCheckoutSession, Exists
  <1> HIDE DEF new
  <1>5. Sound(new) /\ Evolves(store[s], new)
    <2>1. store[s] = NoSession
      BY <1>1, <1>4 DEF Sound
    <2> QED
      BY <1>2, <1>3, <2>1, NewRecordSound
  <1>6. StoreEvolves /\ store'[s] = new /\ \A x \in Session \ {s} : store'[x] = store[x]
    BY <1>1, <1>4, <1>5, OneWrite
  <1>7. ASSUME NEW g \in Handler PROVE ClaimOpen(g)' /\ StartFresh(g)'
    <2>1. ClaimOpen(g) /\ StartFresh(g)
      BY DEF RecordsInv, ClaimsOpen
    <2>2. task[g].pc # "idle" => task[g].session \in Session
      BY <1>1, TaskSession DEF TypeOK, Task, At
    <2>3. At(g, "start-insert") => task[g].session \in Session \ Checkout
      BY DEF ClaimInv, ClaimOwnership
    <2>4. ~Open(store[s])
      BY <1>4 DEF Open, Unlinked
    <2>5. ClaimOpen(g)'
      BY <1>1, <1>6, <2>1, <2>2, <2>4 DEF ClaimOpen, Claiming
    <2>6. StartFresh(g)'
      BY <1>1, <1>4, <1>6, <2>1, <2>3 DEF StartFresh, At, Exists
    <2> QED
      BY <2>5, <2>6
  <1> QED
    BY <1>1, <1>6, <1>7, RecordsKept DEF ClaimsOpen

(* The inductive step, which also says how the records move. *)
LEMMA NextRecords == ClaimInv /\ RecordsInv /\ [Next]_vars => RecordsInv' /\ StoreEvolves
  <1> SUFFICES ASSUME ClaimInv, RecordsInv, [Next]_vars PROVE RecordsInv' /\ StoreEvolves
    OBVIOUS
  <1>1. TypeOK
    BY DEF ClaimInv
  <1>2. CASE UNCHANGED vars
    BY <1>1, <1>2, IdleRecords DEF vars
  <1>3. CASE Tick \/ \E s \in Session : StartSessionAgain(s)
    BY <1>1, <1>3, IdleRecords DEF Tick, StartSessionAgain
  <1>4. CASE \E p \in Proof : Wallet(p)
    BY <1>1, <1>4, IdleRecords DEF Wallet, WalletPresents, ExchangeFails, CredoCompletes, Advance
  <1> QED
    BY <1>2, <1>3, <1>4, CreateRecords, RequestRecords, HandlerRecords, CleanerRecords, TroubleRecords DEF Next

(* Nothing is saved and nothing runs in the beginning. *)
LEMMA InitRecords == Init => RecordsInv
  <1> SUFFICES ASSUME Init PROVE RecordsInv
    OBVIOUS
  <1>1. /\ \A s \in Session : store[s] = NoSession
        /\ \A t \in Task : task[t] = Idle
        /\ \A c \in Cleaner : sweep[c] = {}
    BY DEF Init
  <1>2. Sound(NoSession)
    BY DEF Sound, NoSession, Open, Unlinked, IsTerminal
  <1>3. \A t \in Task : JobOK(task[t], store[task[t].session])
    BY <1>1, IdlePc DEF JobOK
  <1>4. ASSUME NEW h \in Handler PROVE ClaimOpen(h) /\ StartFresh(h)
    BY <1>1, IdlePc DEF ClaimOpen, StartFresh, Claiming, At, Task
  <1> QED
    BY <1>1, <1>2, <1>3, <1>4 DEF RecordsInv, JobsSound, ClaimsOpen, SweepsSound

(* The records layer, with the claims it rests on, holds for ever. *)
RecordsHold == ClaimInv /\ RecordsInv

(* It holds at first, and every step keeps it and lets the records evolve. *)
LEMMA RecordsAlways ==
  /\ Init => RecordsHold
  /\ RecordsHold /\ [Next]_vars => RecordsHold' /\ StoreEvolves
  BY InitTypes, InitClaims, InitRecords, NextClaims, NextRecords DEF RecordsHold, ClaimInv

(* Queued updates read the record again: no step of any task, however stale *)
(* its snapshot, loses a claim, a linked exchange or the removal mark.      *)
THEOREM NoWriteLost == Spec => NothingLost
  <1> DEFINE Kept ==
        \A s \in Session :
          LET old == store[s]  new == store'[s] IN
          /\ old.mode # "NONE" => new.mode = old.mode /\ new.expiresAt = old.expiresAt
          /\ old.claimedAt # Never => new.claimedAt = old.claimedAt
          /\ old.proof # None => new.proof = old.proof
          /\ old.removed => new.removed
  <1>1. StoreEvolves => Kept
    <2> SUFFICES ASSUME StoreEvolves, NEW s \in Session
                 PROVE  /\ store[s].mode # "NONE" => store'[s].mode = store[s].mode /\ store'[s].expiresAt = store[s].expiresAt
                        /\ store[s].claimedAt # Never => store'[s].claimedAt = store[s].claimedAt
                        /\ store[s].proof # None => store'[s].proof = store[s].proof
                        /\ store[s].removed => store'[s].removed
      BY Zenon
    <2>1. Evolves(store[s], store'[s])
      BY DEF StoreEvolves
    <2> QED
      BY <2>1 DEF Evolves, NoSession
  <1>2. RecordsHold /\ [Next]_vars => RecordsHold' /\ [Kept]_vars
    BY <1>1, RecordsAlways
  <1>3. Init => RecordsHold
    BY RecordsAlways
  <1> HIDE DEF Kept
  <1>4. Spec => [][Kept]_vars
    BY <1>2, <1>3, PTL DEF Spec
  <1> QED
    BY <1>4 DEF Kept, NothingLost

(* A decided session stays as it was decided, except that a claim under way *)
(* may fail an expired checkout, and a visibility window never moves.       *)
THEOREM DecisionsStand == Spec => DecisionsFinal
  <1> DEFINE Final ==
        \A s \in Session :
          LET old == store[s]  new == store'[s] IN
          /\ IsTerminal(old.decision) =>
               \/ new.decision = old.decision /\ new.completedAt = old.completedAt
               \/ old.decision = "Expired" /\ new.decision = "Failed" /\ old.mode = "CHECKOUT"
          /\ old.visibleUntil # Never => new.visibleUntil = old.visibleUntil
  <1>1. StoreEvolves => Final
    <2> SUFFICES ASSUME StoreEvolves, NEW s \in Session
                 PROVE  /\ IsTerminal(store[s].decision) =>
                             \/ store'[s].decision = store[s].decision /\ store'[s].completedAt = store[s].completedAt
                             \/ store[s].decision = "Expired" /\ store'[s].decision = "Failed" /\ store[s].mode = "CHECKOUT"
                        /\ store[s].visibleUntil # Never => store'[s].visibleUntil = store[s].visibleUntil
      BY Zenon
    <2>1. Evolves(store[s], store'[s])
      BY DEF StoreEvolves
    <2> QED
      BY <2>1 DEF Evolves, NoSession, Unlinked, IsTerminal
  <1>2. RecordsHold /\ [Next]_vars => RecordsHold' /\ [Final]_vars
    BY <1>1, RecordsAlways
  <1>3. Init => RecordsHold
    BY RecordsAlways
  <1> HIDE DEF Final
  <1>4. Spec => [][Final]_vars
    BY <1>2, <1>3, PTL DEF Spec
  <1> QED
    BY <1>4 DEF Final, DecisionsFinal
-----------------------------------------------------------------------------
(* What a step may do to a task, as far as the next invariants go: start    *)
(* from nothing, synchronise, pick up an event, get or insert an exchange,  *)
(* look at a window, answer, or go where they say nothing.                  *)
Watched ==
  {"sync-proof", "sync-evaluate", "sync-commit", "sync-reply", "answer-list", "disclosed",
   "start-insert", "claim-link", "clean-proof"}
Moves(t) ==
  \/ task'[t] = task[t] \/ task'[t].pc \notin Watched
  \/ /\ task'[t].pc = "sync-proof" /\ ~task'[t].notify /\ task'[t].evidence = NoRecord
  \/ Sync(t)
  \/ t \in Handler /\ \E e \in events : HandleProofEvent(t, e)
  \/ t \in Handler /\ \E s \in Session, p \in Proof : StartSession(t, s, p)
  \/ t \in Handler /\ \E p \in Proof : ClaimExchange(t, p)
  \/ t \in Cleaner /\ CleanCheck(t)
  \/ t \in Handler /\ task'[t].pc = "disclosed" /\ (AnswerList(t) \/ AnswerResult(t))

(* Every step moves every task so. *)
LEMMA TaskMoves ==
  ASSUME TypeOK, [Next]_vars, NEW g \in Task
  PROVE  Moves(g)
  <1>1. /\ task \in [Task -> TaskRecord] /\ Handler \subseteq Task /\ Cleaner \subseteq Task
        /\ Idle.pc \notin Watched
    BY DEF TypeOK, Task, Idle, Watched
  <1>2. ASSUME NEW t \in Task, \E r : Begin(t, r) /\ r.pc \notin Watched PROVE Moves(g)
    BY <1>1, <1>2, OneTask DEF Moves
  <1>3. ASSUME NEW t \in Task, Finish(t) PROVE Moves(g)
    BY <1>1, <1>3, OneTask DEF Moves
  <1>4. ASSUME NEW t \in Task, NEW step, Continue(t, step), step \notin Watched PROVE Moves(g)
    BY <1>1, <1>4, OneTask DEF Moves
  <1>5. ASSUME task' = task PROVE Moves(g)
    BY <1>5 DEF Moves
  <1>6. ASSUME NEW t \in Task, NEW x, NEW record,
               Begin(t, [Idle EXCEPT !.pc = "sync-proof", !.session = x, !.seen = record])
        PROVE  Moves(g)
    <2> DEFINE r == [Idle EXCEPT !.pc = "sync-proof", !.session = x, !.seen = record]
    <2>1. r.pc = "sync-proof" /\ ~r.notify /\ r.evidence = NoRecord /\ Begin(t, r)
      BY <1>6 DEF Idle
    <2> HIDE DEF r
    <2> QED
      BY <1>1, <2>1, OneTask DEF Moves
  <1>7. ASSUME NEW h \in Handler, Request(h) PROVE Moves(g)
    <2>1. ASSUME NEW s \in Session, ClaimCheckout(h, s) PROVE Moves(g)
      <3>1. [Idle EXCEPT !.pc = "claim-gate", !.session = s].pc = "claim-gate"
        BY DEF Idle
      <3> QED
        BY <1>1, <1>2, <2>1, <3>1 DEF ClaimCheckout, Watched
    <2>2. ASSUME NEW s \in Session, PollStatus(h, s) PROVE Moves(g)
      BY <1>1, <1>6, <2>2 DEF PollStatus
    <2>3. ASSUME \/ \E e \in events : HandleProofEvent(h, e)
                 \/ \E s \in Session, p \in Proof : StartSession(h, s, p)
          PROVE  Moves(g)
      <3>1. CASE g = h
        BY <2>3, <3>1 DEF Moves
      <3>2. CASE g # h
        <4>1. task' = task \/ \E r : Begin(h, r)
          BY <2>3 DEF HandleProofEvent, StartSession
        <4> QED
          BY <1>1, <3>2, <4>1, OneTask DEF Moves
      <3> QED
        BY <3>1, <3>2
    <2> QED
      BY <1>7, <2>1, <2>2, <2>3 DEF Request
  <1>8. ASSUME NEW t \in Task, Sync(t) PROVE Moves(g)
    <2>1. CASE g = t
      BY <1>8, <2>1 DEF Moves
    <2>2. CASE g # t
      <3>1. Finish(t) \/ \E r : Begin(t, r)
        BY <1>8 DEF Sync, SyncProof, SyncEvaluate, SyncCommit, AfterSync, AnswerReader, Disclose
      <3> QED
        BY <1>1, <2>2, <3>1, OneTask DEF Moves
    <2> QED
      BY <2>1, <2>2
  <1>9. ASSUME NEW h \in Handler, HandlerStep(h) PROVE Moves(g)
    <2>1. task[h].pc # "idle" => task[h] \in TaskRecord
      BY <1>1
    <2>2. CASE ClaimGate(h)
      <3>1. [task[h] EXCEPT !.pc = "claim-save", !.stamp = clock].pc = "claim-save"
        BY <1>1 DEF TaskRecord
      <3> QED
        BY <1>1, <1>2, <1>3, <2>2, <3>1 DEF ClaimGate, Watched
    <2>3. CASE ClaimSave(h)
      <3>1. [task[h] EXCEPT !.pc = "claim-exchange", !.stamp = Never].pc = "claim-exchange"
        BY <1>1 DEF TaskRecord
      <3> QED
        BY <1>1, <1>2, <1>3, <2>3, <3>1 DEF ClaimSave, Watched
    <2>4. ASSUME NEW p \in Proof, ClaimExchange(h, p) PROVE Moves(g)
      BY <1>1, <2>4, OneTask DEF Moves, ClaimExchange
    <2>5. CASE Answer(h)
      <3>1. Finish(h) \/ \E r : Begin(h, r) /\ r.pc = "disclosed"
        BY <1>1, <2>5, AnswerEnds
      <3>2. CASE Finish(h)
        BY <1>1, <1>3, <3>2
      <3>3. ASSUME ~Finish(h) PROVE Moves(g)
        <4>1. (AnswerList(h) \/ AnswerResult(h)) /\ task'[h].pc = "disclosed" /\ \A x \in Task \ {h} : task'[x] = task[x]
          BY <1>1, <2>5, <3>1, <3>3, OneTask DEF Answer, Sent
        <4> QED
          BY <4>1 DEF Moves
      <3> QED
        BY <3>2, <3>3
    <2> QED
      BY <1>1, <1>3, <1>8, <1>9, <2>2, <2>3, <2>4, <2>5 DEF HandlerStep, StartInsert, ClaimLink, ClaimFail, SyncReply
  <1>10. ASSUME NEW c \in Cleaner, CleanerStep(c) PROVE Moves(g)
    <2>1. CASE CleanCheck(c)
      <3>1. Finish(c) \/ \E r : Begin(c, r)
        BY <2>1 DEF CleanCheck
      <3> QED
        BY <1>1, <2>1, <3>1, OneTask DEF Moves
    <2>2. CASE CleanProof(c) \/ CleanInvitation(c) \/ CleanMark(c)
      BY <1>1, <1>3, <1>4, <2>2 DEF CleanProof, CleanInvitation, CleanMark, Watched
    <2>3. CASE CleanupLists(c) \/ \E item \in sweep[c] : CleanupContinues(c, item)
      BY <1>1, <1>6, <2>3 DEF CleanupLists, CleanupContinues, Visit
    <2> QED
      BY <1>1, <1>8, <1>10, <2>1, <2>2, <2>3 DEF CleanerStep
  <1>11. ASSUME Trouble PROVE Moves(g)
    <2>1. ASSUME Restart PROVE Moves(g)
      BY <1>1, <2>1 DEF Restart, Moves
    <2>2. ASSUME NEW t \in Task, CallFails(t) PROVE Moves(g)
      BY <1>3, <1>4, <2>2 DEF CallFails, Watched
    <2>3. ASSUME NEW h \in Handler, NEW s \in Session, NEW p \in Proof, LeaveProofBehind(h, s, p) PROVE Moves(g)
      BY <1>1, <1>4, <1>5, <2>3 DEF LeaveProofBehind, Watched
    <2> QED
      BY <1>11, <2>1, <2>2, <2>3 DEF Trouble, Crash, CleanupListFails
  <1>12. ASSUME \/ Tick \/ UNCHANGED vars \/ \E p \in Proof : Wallet(p)
                \/ \E s \in Session : CreateCheckoutSession(s) \/ StartSessionAgain(s)
         PROVE  Moves(g)
    <2>1. task' = task
      BY <1>12 DEF Tick, vars, Wallet, WalletPresents, ExchangeFails, CredoCompletes, Advance,
                   CreateCheckoutSession, StartSessionAgain
    <2> QED
      BY <1>5, <2>1
  <1> QED
    BY <1>7, <1>9, <1>10, <1>11, <1>12 DEF Next

(* Where a synchronisation leaves its task, whatever it ends with. *)
SyncEnds == {"clean-check", "sync-reply", "answer-list", "answer-result", "disclosed", "idle"}
LEMMA AfterSyncPc ==
  ASSUME task \in [Task -> TaskRecord], NEW t \in Task, NEW record, NEW verdict, AfterSync(t, record, verdict)
  PROVE  task'[t].pc \in SyncEnds
  <1> DEFINE clean == [Idle EXCEPT !.pc = "clean-check", !.session = task[t].session, !.seen = record]
             notice == [Idle EXCEPT !.pc = "sync-reply", !.session = task[t].session, !.seen = record,
                                    !.verdict.attributes = verdict.attributes]
             list == [Idle EXCEPT !.pc = "answer-list", !.session = task[t].session, !.seen = record]
             result == [Idle EXCEPT !.pc = "answer-result", !.session = task[t].session]
             sent == [Idle EXCEPT !.pc = "disclosed", !.session = task[t].session, !.verdict.attributes = TRUE]
  <1>1. /\ clean.pc = "clean-check" /\ notice.pc = "sync-reply" /\ list.pc = "answer-list"
        /\ result.pc = "answer-result" /\ sent.pc = "disclosed"
    BY DEF Idle
  <1>2. Finish(t) \/ Begin(t, clean) \/ Begin(t, notice) \/ Begin(t, list) \/ Begin(t, result) \/ Begin(t, sent)
    BY DEF AfterSync, AnswerReader, Disclose
  <1> HIDE DEF clean, notice, list, result, sent
  <1> QED
    BY <1>1, <1>2, OneTask, IdlePc DEF SyncEnds

(* Where each of its steps leaves it. *)
LEMMA SyncPc ==
  ASSUME task \in [Task -> TaskRecord], NEW t \in Task, Sync(t)
  PROVE  task'[t].pc \in SyncEnds \cup {"sync-evaluate", "sync-commit"}
  <1>1. ASSUME NEW record, NEW verdict, AfterSync(t, record, verdict)
        PROVE  task'[t].pc \in SyncEnds
    BY <1>1, AfterSyncPc
  <1>2. CASE SyncProof(t)
    <2> DEFINE next == [task[t] EXCEPT !.pc = "sync-evaluate",
                          !.evidence = IF task[t].notify THEN @
                                       ELSE IF task[t].seen.proof = None THEN NoRecord
                                            ELSE proofRecord[task[t].seen.proof]]
    <2>1. next.pc = "sync-evaluate"
      BY DEF TaskRecord
    <2>2. Begin(t, next) \/ AfterSync(t, task[t].seen, NoVerdict)
      BY <1>2 DEF SyncProof
    <2> HIDE DEF next
    <2> QED
      BY <1>1, <2>1, <2>2, OneTask
  <1>3. CASE SyncEvaluate(t)
    <2> DEFINE v == SyncVerdict(task[t].seen, task[t].evidence,
                      IF ReadsPresentation(t) THEN presentation[task[t].seen.proof] ELSE NoPresentation)
               next == [Idle EXCEPT !.pc = "sync-commit", !.session = task[t].session,
                                    !.notify = task[t].notify, !.verdict = v]
    <2>1. next.pc = "sync-commit"
      BY DEF Idle
    <2>2. Begin(t, next) \/ Finish(t)
      BY <1>3 DEF SyncEvaluate
    <2> HIDE DEF next
    <2> QED
      BY <2>1, <2>2, OneTask, IdlePc DEF SyncEnds
  <1>4. CASE SyncCommit(t)
    BY <1>1, <1>4 DEF SyncCommit
  <1> QED
    BY <1>2, <1>3, <1>4 DEF Sync

(* A proof event starts one, if its record belongs to a session. *)
LEMMA EventPc ==
  ASSUME task \in [Task -> TaskRecord], NEW t \in Task, NEW e, HandleProofEvent(t, e)
  PROVE  task' = task \/ task'[t].pc = "sync-proof"
  <1>1. ASSUME NEW x, Begin(t, [Idle EXCEPT !.pc = "sync-proof", !.session = x, !.seen = store[x],
                                            !.evidence = e.record, !.notify = TRUE])
        PROVE  task'[t].pc = "sync-proof"
    <2> DEFINE next == [Idle EXCEPT !.pc = "sync-proof", !.session = x, !.seen = store[x],
                                    !.evidence = e.record, !.notify = TRUE]
    <2>1. next.pc = "sync-proof" /\ Begin(t, next)
      BY <1>1 DEF Idle
    <2> HIDE DEF next
    <2> QED
      BY <2>1, OneTask
  <1> QED
    BY <1>1 DEF HandleProofEvent

(* Which steps save a record. *)
LEMMA RecordSteps ==
  ASSUME [Next]_vars
  PROVE  \/ store' = store
         \/ \E s \in Session : CreateCheckoutSession(s)
         \/ \E h \in Handler : StartInsert(h) \/ ClaimSave(h) \/ ClaimLink(h) \/ ClaimFail(h)
         \/ \E t \in Task : SyncCommit(t)
         \/ \E c \in Cleaner : CleanMark(c)
  <1>1. CASE \/ Tick \/ UNCHANGED vars \/ Trouble
             \/ \E s \in Session : StartSessionAgain(s)
             \/ \E p \in Proof : Wallet(p)
    BY <1>1 DEF Tick, vars, StartSessionAgain, Wallet, WalletPresents, ExchangeFails, CredoCompletes, Advance,
                Trouble, Crash, CleanupListFails, Restart, CallFails, LeaveProofBehind
  <1>2. ASSUME NEW h \in Handler, Request(h) PROVE store' = store
    BY <1>2 DEF Request, StartSession, ClaimCheckout, PollStatus, HandleProofEvent
  <1>3. ASSUME NEW t \in Task, Sync(t) PROVE store' = store \/ SyncCommit(t)
    BY <1>3 DEF Sync, SyncProof, SyncEvaluate
  <1>4. ASSUME NEW h \in Handler, HandlerStep(h)
        PROVE  \/ store' = store
               \/ StartInsert(h) \/ ClaimSave(h) \/ ClaimLink(h) \/ ClaimFail(h) \/ SyncCommit(h)
    <2>1. h \in Task
      BY DEF Task
    <2> QED
      BY <1>3, <1>4, <2>1 DEF HandlerStep, ClaimGate, ClaimExchange, SyncReply, Answer, AnswerList, AnswerResult, Sent
  <1>5. ASSUME NEW c \in Cleaner, CleanerStep(c) PROVE store' = store \/ SyncCommit(c) \/ CleanMark(c)
    <2>1. c \in Task
      BY DEF Task
    <2> QED
      BY <1>3, <1>5, <2>1 DEF CleanerStep, CleanupLists, CleanupContinues, CleanCheck, CleanProof, CleanInvitation
  <1>6. Handler \subseteq Task /\ Cleaner \subseteq Task
    BY DEF Task
  <1> QED
    BY <1>1, <1>2, <1>4, <1>5, <1>6 DEF Next

(* So for Credo's records and the events of their changes. *)
LEMMA ExchangeSteps ==
  ASSUME TypeOK, [Next]_vars
  PROVE  \/ UNCHANGED <<proofRecord, presentation, madeFor>> /\ events' \subseteq events
         \/ \E s \in Session, p \in Proof : NewExchange(s, p) /\ UNCHANGED <<presentation, events>>
         \/ \E p \in Proof : Wallet(p)
         \/ \E c \in Cleaner : CleanProof(c)
  <1> DEFINE Still == UNCHANGED <<proofRecord, presentation, madeFor>> /\ events' \subseteq events
             Made == \E s \in Session, p \in Proof : NewExchange(s, p) /\ UNCHANGED <<presentation, events>>
  <1>1. CASE \/ Tick \/ UNCHANGED vars
             \/ \E s \in Session : CreateCheckoutSession(s) \/ StartSessionAgain(s)
    BY <1>1 DEF Tick, vars, credo, CreateCheckoutSession, StartSessionAgain
  <1>2. ASSUME Trouble PROVE Still \/ Made
    BY <1>2 DEF Trouble, Crash, CleanupListFails, Restart, CallFails, LeaveProofBehind, credo
  <1>3. ASSUME NEW h \in Handler, Request(h) PROVE Still \/ Made
    <2>1. ASSUME NEW s \in Session, NEW p \in Proof, StartSession(h, s, p) PROVE Made
      BY <2>1 DEF StartSession
    <2>2. ASSUME \/ \E s \in Session : ClaimCheckout(h, s) \/ PollStatus(h, s)
                 \/ \E e \in events : HandleProofEvent(h, e)
          PROVE  Still
      BY <2>2 DEF ClaimCheckout, PollStatus, HandleProofEvent, credo
    <2> QED
      BY <1>3, <2>1, <2>2 DEF Request
  <1>4. ASSUME NEW t \in Task, Sync(t) PROVE Still
    BY <1>4 DEF Sync, SyncProof, SyncEvaluate, SyncCommit, credo
  <1>5. ASSUME NEW h \in Handler, HandlerStep(h) PROVE Still \/ Made
    <2>1. ASSUME NEW p \in Proof, ClaimExchange(h, p) PROVE Made
      <3>1. task[h].session \in Session
        BY <2>1, TaskSession DEF ClaimExchange, At, Task, TypeOK
      <3> QED
        BY <2>1, <3>1 DEF ClaimExchange
    <2>2. ASSUME \/ StartInsert(h) \/ ClaimGate(h) \/ ClaimSave(h) \/ ClaimLink(h) \/ ClaimFail(h)
                 \/ SyncReply(h) \/ Answer(h)
          PROVE  Still
      BY <2>2 DEF StartInsert, ClaimGate, ClaimSave, ClaimLink, ClaimFail, SyncReply,
                  Answer, AnswerList, AnswerResult, Sent, credo
    <2>3. h \in Task
      BY DEF Task
    <2> QED
      BY <1>4, <1>5, <2>1, <2>2, <2>3 DEF HandlerStep
  <1>6. ASSUME NEW c \in Cleaner, CleanerStep(c) PROVE Still \/ CleanProof(c)
    <2>1. c \in Task
      BY DEF Task
    <2> QED
      BY <1>4, <1>6, <2>1 DEF CleanerStep, CleanupLists, CleanupContinues, CleanCheck, CleanInvitation, CleanMark, credo
  <1> QED
    BY <1>1, <1>2, <1>3, <1>5, <1>6 DEF Next

(* Only an event handler that is done notifies the portal. *)
LEMMA WebhookSteps ==
  ASSUME [Next]_vars
  PROVE  webhooks' = webhooks \/ \E h \in Handler : SyncReply(h)
  <1>1. ASSUME NEW h \in Handler, Request(h) PROVE webhooks' = webhooks
    BY <1>1 DEF Request, StartSession, ClaimCheckout, PollStatus, HandleProofEvent
  <1>2. ASSUME NEW t, Sync(t) PROVE webhooks' = webhooks
    BY <1>2 DEF Sync, SyncProof, SyncEvaluate, SyncCommit
  <1>3. ASSUME NEW h \in Handler, HandlerStep(h) PROVE webhooks' = webhooks \/ SyncReply(h)
    BY <1>2, <1>3 DEF HandlerStep, StartInsert, ClaimGate, ClaimSave, ClaimLink, ClaimFail, ClaimExchange,
                      Answer, AnswerList, AnswerResult, Sent
  <1>4. ASSUME NEW c \in Cleaner, CleanerStep(c) PROVE webhooks' = webhooks
    BY <1>2, <1>4 DEF CleanerStep, CleanupLists, CleanupContinues, CleanCheck, CleanProof, CleanInvitation, CleanMark
  <1>5. ASSUME \/ Tick \/ UNCHANGED vars \/ Trouble \/ \E p \in Proof : Wallet(p)
               \/ \E s \in Session : CreateCheckoutSession(s) \/ StartSessionAgain(s)
        PROVE  webhooks' = webhooks
    BY <1>5 DEF Tick, vars, CreateCheckoutSession, StartSessionAgain, Wallet, WalletPresents, ExchangeFails,
                CredoCompletes, Advance, Trouble, Crash, CleanupListFails, Restart, CallFails, LeaveProofBehind
  <1> QED
    BY <1>1, <1>3, <1>4, <1>5 DEF Next

(* Only the tick of the clock moves it. *)
LEMMA ClockMoves == [Next]_vars => clock' = clock \/ Tick
  <1> SUFFICES ASSUME [Next]_vars PROVE clock' = clock \/ Tick
    OBVIOUS
  <1>1. ASSUME NEW h \in Handler, Request(h) PROVE clock' = clock
    BY <1>1 DEF Request, StartSession, ClaimCheckout, PollStatus, HandleProofEvent
  <1>2. ASSUME NEW t, Sync(t) PROVE clock' = clock
    BY <1>2 DEF Sync, SyncProof, SyncEvaluate, SyncCommit
  <1>3. ASSUME NEW h \in Handler, HandlerStep(h) PROVE clock' = clock
    BY <1>2, <1>3 DEF HandlerStep, StartInsert, ClaimGate, ClaimSave, ClaimLink, ClaimFail, ClaimExchange, SyncReply,
                      Answer, AnswerList, AnswerResult, Sent
  <1>4. ASSUME NEW c \in Cleaner, CleanerStep(c) PROVE clock' = clock
    BY <1>2, <1>4 DEF CleanerStep, CleanupLists, CleanupContinues, CleanCheck, CleanProof, CleanInvitation, CleanMark
  <1>5. ASSUME \/ UNCHANGED vars \/ Trouble \/ \E p \in Proof : Wallet(p)
               \/ \E s \in Session : CreateCheckoutSession(s) \/ StartSessionAgain(s)
        PROVE  clock' = clock
    BY <1>5 DEF vars, CreateCheckoutSession, StartSessionAgain, Wallet, WalletPresents, ExchangeFails,
                CredoCompletes, Advance, Trouble, Crash, CleanupListFails, Restart, CallFails, LeaveProofBehind
  <1> QED
    BY <1>1, <1>3, <1>4, <1>5 DEF Next

(* Time never runs backwards. *)
LEMMA ClockSteps ==
  ASSUME TypeOK, [Next]_vars
  PROVE  clock \in Nat /\ clock' \in Nat /\ clock' >= clock
  BY ClockMoves DEF TypeOK, Tick

(* The tasks that begin with an exchange, or look at a window. *)
LEMMA BegunTasks ==
  ASSUME task \in [Task -> TaskRecord], NEW t \in Task
  PROVE  /\ \A s, p : StartSession(t, s, p) =>
              task'[t].pc = "start-insert" /\ task'[t].session = s /\ task'[t].proof = p
         /\ \A p : ClaimExchange(t, p) =>
              /\ task'[t].pc = "claim-link" /\ task'[t].proof = p
              /\ task'[t].session = task[t].session
         /\ CleanCheck(t) =>
              \/ task'[t].pc = "idle"
              \/ /\ WindowOver(task[t].seen, store[task[t].session]) /\ task'[t].pc = "clean-proof"
                 /\ task'[t].session = task[t].session /\ task'[t].proof = store[task[t].session].proof
  <1>1. ASSUME NEW s, NEW p, StartSession(t, s, p)
        PROVE  task'[t].pc = "start-insert" /\ task'[t].session = s /\ task'[t].proof = p
    <2> DEFINE r == [Idle EXCEPT !.pc = "start-insert", !.session = s, !.proof = p, !.stamp = clock]
    <2>1. Begin(t, r) /\ r.pc = "start-insert" /\ r.session = s /\ r.proof = p
      BY <1>1 DEF StartSession, Idle
    <2> HIDE DEF r
    <2> QED
      BY <2>1, OneTask
  <1>2. ASSUME NEW p, ClaimExchange(t, p)
        PROVE  task'[t].pc = "claim-link" /\ task'[t].proof = p /\ task'[t].session = task[t].session
    <2> DEFINE r == [task[t] EXCEPT !.pc = "claim-link", !.proof = p]
    <2>1. Begin(t, r) /\ r.pc = "claim-link" /\ r.session = task[t].session /\ r.proof = p
      BY <1>2 DEF ClaimExchange, TaskRecord
    <2> HIDE DEF r
    <2> QED
      BY <2>1, OneTask
  <1>3. ASSUME CleanCheck(t)
        PROVE  \/ task'[t].pc = "idle"
               \/ /\ WindowOver(task[t].seen, store[task[t].session]) /\ task'[t].pc = "clean-proof"
                  /\ task'[t].session = task[t].session /\ task'[t].proof = store[task[t].session].proof
    <2> DEFINE s == task[t].session
               r == [Idle EXCEPT !.pc = "clean-proof", !.session = s, !.proof = store[s].proof]
    <2>1. r.pc = "clean-proof" /\ r.session = s /\ r.proof = store[s].proof
      BY DEF Idle
    <2>2. (WindowOver(task[t].seen, store[s]) /\ Begin(t, r)) \/ Finish(t)
      BY <1>3 DEF CleanCheck
    <2> HIDE DEF r
    <2> QED
      BY <2>1, <2>2, OneTask, IdlePc
  <1> QED
    BY <1>1, <1>2, <1>3

-----------------------------------------------------------------------------
(* Webhooks and answers.  Only the synchronisation of a session with an     *)
(* exchange notifies the portal or has fields, and what the record of such  *)
(* a session says of its decision is final.                                 *)
Told(w, r) == r.proof # None /\ w.decision = r.decision /\ w.completedAt = r.completedAt
NoticeOK(j, r) ==
  /\ j.pc \in {"sync-proof", "sync-evaluate"} /\ j.notify => j.seen.proof # None
  /\ j.pc = "sync-commit" /\ (j.notify \/ j.verdict.attributes) => r.proof # None
  /\ j.pc = "sync-commit" /\ j.verdict.attributes => IsTerminal(j.verdict.decision)
  /\ j.pc \in {"sync-reply", "answer-list"} =>
       IsTerminal(j.seen.decision) /\ Told(j.seen, r) /\ j.seen.visibleUntil = r.visibleUntil
NoticesSound ==
  /\ \A t \in Task : NoticeOK(task[t], store[task[t].session])
  /\ \A w \in webhooks : Told(w, store[w.session])

(* A decided record with an exchange has its visibility window. *)
LEMMA WindowSet ==
  ASSUME NEW r \in SessionRecord, Sound(r), r.proof # None, IsTerminal(r.decision)
  PROVE  /\ r.completedAt \in Nat /\ r.visibleUntil = r.completedAt + ResultVisibility
         /\ r.visibleUntil # Never
  <1>1. r.completedAt \in Nat
    BY DEF Sound, SessionRecord, Moment
  <1>2. r.visibleUntil = r.completedAt + ResultVisibility
    BY DEF Sound, Unlinked
  <1> QED
    BY <1>1, <1>2, NumbersAssumption DEF Never

(* So what was told of it, by a snapshot or a webhook, stays true. *)
LEMMA ToldStable ==
  ASSUME NEW r1 \in SessionRecord, Sound(r1), NEW r2, Evolves(r1, r2), NEW w, IsTerminal(w.decision), Told(w, r1)
  PROVE  Told(w, r2) /\ r2.visibleUntil = r1.visibleUntil
  <1>1. r1.proof # None /\ IsTerminal(r1.decision) /\ r1 # NoSession /\ ~Unlinked(r1)
    BY DEF Told, NoSession, Unlinked
  <1>2. r1.visibleUntil # Never
    BY <1>1, WindowSet
  <1> QED
    BY <1>1, <1>2 DEF Told, Evolves

(* A task's notice stays right whatever the others save. *)
LEMMA NoticeStable ==
  ASSUME NEW j, NEW r1 \in SessionRecord, Sound(r1), NEW r2, Evolves(r1, r2), NoticeOK(j, r1)
  PROVE  NoticeOK(j, r2)
  <1>1. r1.proof # None => r2.proof # None
    BY DEF Evolves, NoSession
  <1>2. j.pc \in {"sync-reply", "answer-list"} => Told(j.seen, r2) /\ j.seen.visibleUntil = r2.visibleUntil
    BY ToldStable DEF NoticeOK
  <1> QED
    BY <1>1, <1>2 DEF NoticeOK

(* What a synchronisation ends with is what it may tell. *)
LEMMA AfterSyncNotice ==
  ASSUME task \in [Task -> TaskRecord], NEW t \in Task, ~At(t, "idle"),
         NEW record \in SessionRecord, NEW verdict \in Verdict, AfterSync(t, record, verdict),
         task[t].notify \/ verdict.attributes => record.proof # None,
         verdict.attributes => IsTerminal(record.decision),
         IsTerminal(record.decision) /\ record.proof # None =>
           Told(record, store'[task[t].session]) /\ record.visibleUntil = store'[task[t].session].visibleUntil
  PROVE  NoticeOK(task'[t], store'[task'[t].session])
  <1> DEFINE fields == verdict.attributes /\ DetailsVisible(record)
  <1>1. Ended(t, record, fields)
    BY AfterSyncEnds
  <1>2. fields => verdict.attributes
    OBVIOUS
  <1> HIDE DEF fields
  <1>3. task'[t] = Idle \/ Follows(t, record, fields, task'[t])
    BY <1>1, OneTask DEF Ended
  <1> QED
    BY <1>2, <1>3, IdlePc DEF NoticeOK, Notifies, Follows

(* The fields of a verdict come from a presentation and are those of a      *)
(* decided session.                                                         *)
LEMMA FieldsRead ==
  ASSUME NEW seen, NEW evidence, NEW shown, SyncVerdict(seen, evidence, shown).attributes
  PROVE  shown.revealed /\ IsTerminal(SyncVerdict(seen, evidence, shown).decision)
  <1> DEFINE input == Evidence(seen, evidence, shown)
             v == SyncVerdict(seen, evidence, shown)
  <1>1. CASE IsTerminal(seen.decision)
    <2>1. v.attributes = shown.revealed /\ v.decision = seen.decision
      BY <1>1 DEF SyncVerdict
    <2> HIDE DEF v
    <2>2. v.attributes
      BY DEF v
    <2> QED
      BY <1>1, <2>1, <2>2, Zenon DEF v
  <1>2. CASE ~IsTerminal(seen.decision)
    <2>1. v.attributes = EvaluateVerification(input).attributes /\ v.decision = EvaluateVerification(input).decision
      BY <1>2 DEF SyncVerdict
    <2>2. EvaluateVerification(input).attributes
      BY <2>1, Zenon
    <2>3. input.revealed = shown.revealed
      BY DEF Evidence
    <2> HIDE DEF input, v
    <2>4. EvaluateVerification(input) = EvaluatePresentation(input)
      BY <2>2 DEF EvaluateVerification, Decided
    <2>5. RequiredRevealed(input) /\ EvaluatePresentation(input).decision = "Approved"
      BY <2>2, <2>4 DEF EvaluatePresentation, Decided
    <2>6. input.revealed
      BY <2>5, Zenon DEF RequiredRevealed
    <2>7. shown.revealed
      BY <2>3, <2>6, Zenon
    <2> QED
      BY <2>1, <2>4, <2>5, <2>7 DEF IsTerminal, Terminal, v
  <1> QED
    BY <1>1, <1>2

(* The inductive step. *)
LEMMA NextNotices ==
  ASSUME RecordsHold, NoticesSound, [Next]_vars
  PROVE  NoticesSound'
  <1>1. /\ TypeOK /\ task \in [Task -> TaskRecord] /\ store \in [Session -> SessionRecord]
        /\ \A s \in Session : Sound(store[s])
    BY DEF RecordsHold, ClaimInv, TypeOK, RecordsInv
  <1>2. StoreEvolves
    BY RecordsAlways
  <1>3. ASSUME NEW t \in Task PROVE NoticeOK(task'[t], store'[task'[t].session])
    <2> DEFINE s == task[t].session
               seen == task[t].seen
    <2>1. ~At(t, "idle") => s \in Session /\ Sound(store[s]) /\ Evolves(store[s], store'[s]) /\ store[s] \in SessionRecord
      BY <1>1, <1>2, TaskSession DEF StoreEvolves
    <2>2. NoticeOK(task[t], store[s]) /\ JobOK(task[t], store[s])
      BY DEF NoticesSound, RecordsHold, RecordsInv, JobsSound
    <2>3. CASE task'[t] = task[t]
      <3>1. CASE At(t, "idle")
        BY <2>3, <3>1 DEF NoticeOK, At
      <3>2. CASE ~At(t, "idle")
        <4>1. NoticeOK(task[t], store'[s])
          BY <2>1, <2>2, <3>2, NoticeStable
        <4> QED
          BY <2>3, <4>1
      <3> QED
        BY <3>1, <3>2
    <2>4. CASE SyncProof(t)
      <3>1. store' = store /\ Snapshot(seen, store[s]) /\ (task[t].notify => seen.proof # None) /\ s \in Session
        BY <2>1, <2>2, <2>4 DEF SyncProof, At, JobOK, NoticeOK
      <3>2. CASE AfterSync(t, seen, NoVerdict)
        <4>1. seen \in SessionRecord /\ Sound(seen) /\ Evolves(seen, store[s])
          BY <1>1, <3>1 DEF Snapshot, TaskRecord
        <4>3. ~At(t, "idle") /\ NoVerdict \in Verdict /\ ~NoVerdict.attributes
          BY <2>4, StartTypes DEF SyncProof, At, NoVerdict
        <4>2. IsTerminal(seen.decision) /\ seen.proof # None =>
                Told(seen, store[s]) /\ seen.visibleUntil = store[s].visibleUntil
          BY <4>1, ToldStable DEF Told
        <4> QED
          BY <1>1, <3>1, <3>2, <4>1, <4>2, <4>3, AfterSyncNotice
      <3>3. CASE ~AfterSync(t, seen, NoVerdict)
        <4> DEFINE r == [task[t] EXCEPT !.pc = "sync-evaluate",
                           !.evidence = IF task[t].notify THEN @
                                        ELSE IF seen.proof = None THEN NoRecord ELSE proofRecord[seen.proof]]
        <4>1. Begin(t, r)
          BY <2>4, <3>3 DEF SyncProof
        <4>2. r.pc = "sync-evaluate" /\ r.seen = seen /\ r.notify = task[t].notify
          BY <1>1 DEF TaskRecord
        <4> HIDE DEF r
        <4>3. task'[t] = r
          BY <1>1, <4>1, OneTask
        <4> QED
          BY <3>1, <4>2, <4>3 DEF NoticeOK
      <3> QED
        BY <3>2, <3>3
    <2>5. CASE SyncEvaluate(t)
      <3> DEFINE shown == IF ReadsPresentation(t) THEN presentation[seen.proof] ELSE NoPresentation
                 v == SyncVerdict(seen, task[t].evidence, shown)
                 r == [Idle EXCEPT !.pc = "sync-commit", !.session = s, !.notify = task[t].notify, !.verdict = v]
      <3>1. store' = store /\ Snapshot(seen, store[s]) /\ (task[t].notify => seen.proof # None)
        BY <2>2, <2>5 DEF SyncEvaluate, At, JobOK, NoticeOK
      <3>6. ASSUME v.attributes PROVE seen.proof # None /\ IsTerminal(v.decision)
        <4>1. shown.revealed /\ IsTerminal(v.decision)
          BY <3>6, FieldsRead
        <4>2. ReadsPresentation(t)
          BY <4>1 DEF NoPresentation
        <4> QED
          BY <4>1, <4>2 DEF ReadsPresentation
      <3> HIDE DEF v
      <3>2. task[t].notify \/ v.attributes => store[s].proof # None
        BY <3>1, <3>6 DEF Snapshot, Evolves, NoSession
      <3>3. Begin(t, r) \/ Finish(t)
        BY <2>5 DEF SyncEvaluate, v
      <3>4. r.pc = "sync-commit" /\ r.session = s /\ r.notify = task[t].notify /\ r.verdict = v
        BY DEF Idle
      <3> HIDE DEF r
      <3>5. task'[t] \in {r, Idle}
        BY <1>1, <3>3, OneTask
      <3> QED
        BY <3>1, <3>2, <3>4, <3>5, <3>6, IdlePc DEF NoticeOK
    <2>6. CASE SyncCommit(t)
      <3> DEFINE new == ApplyVerdict(store[s], task[t].verdict)
      <3>5. ~At(t, "idle") /\ task[t].verdict \in Verdict /\ store[s] \in SessionRecord /\ s \in Session
        BY <1>1, <2>1, <2>6 DEF SyncCommit, At, TaskRecord
      <3>1. AfterSync(t, new, task[t].verdict) /\ store'[s] = new /\ new \in SessionRecord
        BY <1>1, <2>6, <3>5, ApplyType DEF SyncCommit
      <3>2. task[t].notify \/ task[t].verdict.attributes => store[s].proof # None
        BY <2>2, <2>6 DEF SyncCommit, At, NoticeOK
      <3>6. task[t].verdict.attributes => IsTerminal(new.decision)
        <4>1. task[t].verdict.attributes => IsTerminal(task[t].verdict.decision)
          BY <2>2, <2>6 DEF SyncCommit, At, NoticeOK
        <4>2. ~IsTerminal(store[s].decision) => new.decision = task[t].verdict.decision
          BY <3>5 DEF ApplyVerdict, SessionRecord
        <4> QED
          BY <4>1, <4>2 DEF ApplyVerdict
      <3> HIDE DEF new
      <3>3. task[t].notify \/ task[t].verdict.attributes => new.proof # None
        BY <2>1, <3>1, <3>2, <3>5 DEF Evolves, NoSession
      <3>4. IsTerminal(new.decision) /\ new.proof # None =>
              Told(new, store'[s]) /\ new.visibleUntil = store'[s].visibleUntil
        BY <3>1 DEF Told
      <3> QED
        BY <1>1, <3>1, <3>3, <3>4, <3>5, <3>6, AfterSyncNotice
    <2>7. ASSUME NEW e \in events, HandleProofEvent(t, e) PROVE NoticeOK(task'[t], store'[task'[t].session])
      <3>1. CASE UNCHANGED task
        BY <2>3, <3>1
      <3>2. ASSUME NEW x \in Session, store[x].proof = e.proof,
                   Begin(t, [Idle EXCEPT !.pc = "sync-proof", !.session = x, !.seen = store[x],
                                         !.evidence = e.record, !.notify = TRUE])
            PROVE  NoticeOK(task'[t], store'[task'[t].session])
        <4> DEFINE r == [Idle EXCEPT !.pc = "sync-proof", !.session = x, !.seen = store[x],
                                     !.evidence = e.record, !.notify = TRUE]
        <4>1. r.pc = "sync-proof" /\ r.seen = store[x] /\ Begin(t, r)
          BY <3>2 DEF Idle
        <4>2. e.proof # None
          BY <1>1, NamesAssumption DEF TypeOK
        <4> HIDE DEF r
        <4>3. task'[t] = r
          BY <1>1, <4>1, OneTask
        <4> QED
          BY <3>2, <4>1, <4>2, <4>3 DEF NoticeOK
      <3> QED
        BY <2>7, <3>1, <3>2 DEF HandleProofEvent
    <2>8. CASE task'[t].pc \notin {"sync-proof", "sync-evaluate", "sync-commit", "sync-reply", "answer-list"}
      BY <2>8 DEF NoticeOK
    <2>9. CASE task'[t].pc = "sync-proof" /\ ~task'[t].notify
      BY <2>9 DEF NoticeOK
    <2>10. CASE \/ \E x \in Session, p \in Proof : StartSession(t, x, p)
                \/ \E p \in Proof : ClaimExchange(t, p)
                \/ CleanCheck(t)
      <3>1. task'[t].pc \in {"start-insert", "claim-link", "clean-proof", "idle"}
        BY <1>1, <2>10, BegunTasks
      <3> QED
        BY <2>8, <3>1
    <2> QED
      BY <1>1, <2>3, <2>4, <2>5, <2>6, <2>7, <2>8, <2>9, <2>10, TaskMoves DEF Moves, Sync, Watched
  <1>4. ASSUME NEW w \in webhooks' PROVE Told(w, store'[w.session])
    <2>1. ASSUME w \in webhooks PROVE Told(w, store'[w.session])
      <3>1. w.session \in Session /\ IsTerminal(w.decision) /\ Told(w, store[w.session])
        BY <1>1, <2>1 DEF TypeOK, Webhook, Terminal, IsTerminal, NoticesSound
      <3> QED
        BY <1>1, <1>2, <3>1, ToldStable DEF StoreEvolves
    <2>2. ASSUME NEW h \in Handler, SyncReply(h), w \notin webhooks PROVE Told(w, store'[w.session])
      <3>1. /\ w.session = task[h].session /\ w.decision = task[h].seen.decision
            /\ w.completedAt = task[h].seen.completedAt /\ store' = store
        BY <2>2 DEF SyncReply
      <3>2. Told(task[h].seen, store[task[h].session])
        BY <2>2 DEF SyncReply, At, NoticesSound, NoticeOK, Task
      <3> QED
        BY <3>1, <3>2 DEF Told
    <2> QED
      BY <2>1, <2>2, WebhookSteps
  <1> QED
    BY <1>3, <1>4 DEF NoticesSound

(* Nothing is told in the beginning. *)
LEMMA InitNotices == Init => NoticesSound
  BY IdlePc DEF Init, NoticesSound, NoticeOK

(* With the layers below it. *)
NoticesHold == RecordsHold /\ NoticesSound

(* They hold at first and every step keeps them. *)
LEMMA NoticesAlways == (Init => NoticesHold) /\ (NoticesHold /\ [Next]_vars => NoticesHold')
  BY RecordsAlways, InitNotices, NextNotices DEF NoticesHold

(* Whatever polls, events, claims and cleanup runs race and however late a  *)
(* webhook is sent, it agrees with what the session is then and later.      *)
THEOREM WebhooksTrue == Spec => []WebhooksMatchStore
  <1>1. NoticesHold => WebhooksMatchStore
    BY DEF NoticesHold, NoticesSound, Told, WebhooksMatchStore
  <1> QED
    BY <1>1, NoticesAlways, PTL DEF Spec

(* Such a record has an open window as long as it shows its details.        *)
LEMMA OpenWindow ==
  ASSUME NEW r \in SessionRecord, Sound(r), r.proof # None, IsTerminal(r.decision), DetailsVisible(r)
  PROVE  WindowOpen(r)
  BY WindowSet DEF DetailsVisible, WindowOpen

(* A webhook carries fields only then. *)
LEMMA ReplyTimely ==
  ASSUME NoticesHold, NEW h \in Handler, SyncReply(h), NEW r \in webhooks' \ webhooks, r.attributes
  PROVE  WindowOpen(store[r.session])
  <1> DEFINE s == task[h].session
             seen == task[h].seen
  <1>1. r.session = s /\ DetailsVisible(seen)
    <2> DEFINE shows == task[h].verdict.attributes /\ DetailsVisible(seen)
    <2>1. r = [session |-> s, decision |-> seen.decision, completedAt |-> seen.completedAt, attributes |-> shows]
      BY DEF SyncReply
    <2> HIDE DEF shows
    <2>2. r.session = s /\ r.attributes = shows
      BY <2>1
    <2>3. shows
      BY <2>2, Zenon
    <2> QED
      BY <2>2, <2>3 DEF shows
  <1>2. /\ task \in [Task -> TaskRecord] /\ store \in [Session -> SessionRecord] /\ h \in Task
        /\ At(h, "sync-reply") /\ \A x \in Session : Sound(store[x])
    BY DEF NoticesHold, RecordsHold, ClaimInv, TypeOK, RecordsInv, SyncReply, Task
  <1>3. s \in Session /\ store[s] \in SessionRecord /\ Sound(store[s])
    BY <1>2, TaskSession DEF At
  <1>4. IsTerminal(seen.decision) /\ Told(seen, store[s]) /\ seen.visibleUntil = store[s].visibleUntil
    BY <1>2 DEF NoticesHold, NoticesSound, NoticeOK, At
  <1> QED
    BY <1>1, <1>3, <1>4, OpenWindow DEF Told, DetailsVisible

(* A task about to send an answer, session being the record of its session: *)
(* fields are sent in the window, and a decision not after its end.         *)
TimelyAnswer(answer, session) ==
  IF answer.verdict.attributes THEN WindowOpen(session)
  ELSE session.visibleUntil # Never => clock < session.visibleUntil

(* Fields go out at the end of a synchronisation only while they show. *)
LEMMA DetailsTimely ==
  ASSUME NoticesHold, NoticesHold', NEW t \in Task, Sync(t), task'[t].pc = "disclosed"
  PROVE  TimelyAnswer(task'[t], store'[task'[t].session])
  <1> DEFINE s == task[t].session
  <1>1. /\ task \in [Task -> TaskRecord] /\ store \in [Session -> SessionRecord]
        /\ store' \in [Session -> SessionRecord] /\ \A x \in Session : Sound(store'[x])
    BY DEF NoticesHold, RecordsHold, ClaimInv, TypeOK, RecordsInv
  <1>2. /\ ~At(t, "idle") /\ task[t].seen \in SessionRecord /\ task[t].verdict \in Verdict
        /\ s \in Session /\ store[s] \in SessionRecord
    BY <1>1, TaskSession DEF Sync, SyncProof, SyncEvaluate, SyncCommit, At, TaskRecord
  <1>3. ASSUME NEW record \in SessionRecord, NEW verdict \in Verdict, AfterSync(t, record, verdict)
        PROVE  verdict.attributes /\ DetailsVisible(record) /\ task'[t].session = s
    <2> DEFINE fields == verdict.attributes /\ DetailsVisible(record)
    <2>1. Ended(t, record, fields)
      BY <1>1, <1>2, <1>3, AfterSyncEnds
    <2> HIDE DEF fields
    <2>2. fields /\ task'[t].session = s
      BY <1>1, <2>1, OneTask, IdlePc DEF Ended, Follows
    <2> QED
      BY <2>2 DEF fields
  <1>4. CASE SyncProof(t)
    <2>1. ~NoVerdict.attributes
      BY DEF NoVerdict
    <2>2. ~AfterSync(t, task[t].seen, NoVerdict)
      BY <1>2, <1>3, <2>1, StartTypes
    <2> DEFINE r == [task[t] EXCEPT !.pc = "sync-evaluate",
                       !.evidence = IF task[t].notify THEN @
                                    ELSE IF task[t].seen.proof = None THEN NoRecord
                                         ELSE proofRecord[task[t].seen.proof]]
    <2>3. Begin(t, r) /\ r.pc = "sync-evaluate"
      BY <1>1, <1>4, <2>2 DEF SyncProof, TaskRecord
    <2> HIDE DEF r
    <2> QED
      BY <1>1, <2>3, OneTask
  <1>5. CASE SyncEvaluate(t)
    <2> DEFINE v == SyncVerdict(task[t].seen, task[t].evidence,
                      IF ReadsPresentation(t) THEN presentation[task[t].seen.proof] ELSE NoPresentation)
               r == [Idle EXCEPT !.pc = "sync-commit", !.session = s, !.notify = task[t].notify, !.verdict = v]
    <2>1. r.pc = "sync-commit" /\ (Begin(t, r) \/ Finish(t))
      BY <1>5 DEF SyncEvaluate, Idle
    <2> HIDE DEF r
    <2> QED
      BY <1>1, <2>1, OneTask, IdlePc
  <1>6. CASE SyncCommit(t)
    <2> DEFINE new == ApplyVerdict(store[s], task[t].verdict)
    <2>1. new \in SessionRecord /\ AfterSync(t, new, task[t].verdict) /\ store'[s] = new
      BY <1>1, <1>2, <1>6, ApplyType DEF SyncCommit
    <2>2. task[t].verdict.attributes => store[s].proof # None /\ IsTerminal(task[t].verdict.decision)
      BY <1>6 DEF SyncCommit, At, NoticesHold, NoticesSound, NoticeOK
    <2>3. new.proof = store[s].proof /\ (IsTerminal(store[s].decision) => new.decision = store[s].decision)
          /\ (~IsTerminal(store[s].decision) => new.decision = task[t].verdict.decision)
      BY <1>2 DEF ApplyVerdict, SessionRecord
    <2> HIDE DEF new
    <2>4. task[t].verdict.attributes /\ DetailsVisible(new) /\ task'[t].session = s
      BY <1>2, <1>3, <2>1
    <2>5. Sound(new) /\ new.proof # None /\ IsTerminal(new.decision)
      BY <1>1, <1>2, <2>1, <2>2, <2>3, <2>4
    <2>6. WindowOpen(new) /\ (new.visibleUntil # Never => clock < new.visibleUntil)
      BY <2>1, <2>4, <2>5, OpenWindow DEF DetailsVisible
    <2> QED
      BY <2>1, <2>4, <2>6 DEF TimelyAnswer
  <1> QED
    BY <1>4, <1>5, <1>6 DEF Sync

(* A list leaves out what is over by then, and so is a wallet refused.      *)
LEMMA AnswersTimely ==
  ASSUME NoticesHold, NEW h \in Handler, AnswerList(h) \/ AnswerResult(h), task'[h].pc = "disclosed"
  PROVE  TimelyAnswer(task'[h], store'[task'[h].session])
  <1> DEFINE s == task[h].session
             seen == task[h].seen
  <1>1. /\ task \in [Task -> TaskRecord] /\ store \in [Session -> SessionRecord] /\ h \in Task /\ store' = store
        /\ ~At(h, "idle") /\ \A x \in Session : Sound(store[x])
    BY DEF NoticesHold, RecordsHold, ClaimInv, TypeOK, RecordsInv, Task, AnswerList, AnswerResult, At
  <1>2. s \in Session /\ store[s] \in SessionRecord /\ Sound(store[s])
    BY <1>1, TaskSession
  <1>3. ASSUME NEW fields, Disclose(h, fields)
        PROVE  task'[h].session = s /\ task'[h].verdict.attributes = fields
    <2> DEFINE r == [Idle EXCEPT !.pc = "disclosed", !.session = s, !.verdict.attributes = fields]
    <2>1. Begin(h, r) /\ r.session = s /\ r.verdict.attributes = fields
      BY <1>3 DEF Disclose, Idle, NoVerdict
    <2> HIDE DEF r
    <2> QED
      BY <1>1, <2>1, OneTask
  <1>4. CASE AnswerList(h)
    <2>1. Listed(seen) /\ Disclose(h, TRUE)
      BY <1>1, <1>4, OneTask, IdlePc DEF AnswerList
    <2>2. IsTerminal(seen.decision) /\ Told(seen, store[s])
      BY <1>1, <1>4 DEF AnswerList, At, NoticesHold, NoticesSound, NoticeOK
    <2>3. store[s].completedAt \in Nat
      BY <1>2, <2>2, WindowSet DEF Told
    <2>4. WindowOpen(store[s])
      BY <2>1, <2>2, <2>3 DEF Listed, Told, WindowOpen, Never
    <2>5. task'[h].session = s /\ task'[h].verdict.attributes = TRUE
      BY <1>3, <2>1
    <2> QED
      BY <1>1, <2>4, <2>5 DEF TimelyAnswer
  <1>5. CASE AnswerResult(h)
    <2>1. DetailsVisible(store[s]) /\ Disclose(h, FALSE)
      BY <1>1, <1>5, OneTask, IdlePc DEF AnswerResult
    <2>2. task'[h].session = s /\ task'[h].verdict.attributes = FALSE
      BY <1>3, <2>1
    <2> QED
      BY <1>1, <2>1, <2>2 DEF TimelyAnswer, DetailsVisible
  <1> QED
    BY <1>4, <1>5

(* Whatever an answer or a webhook was put together from, fields leave the  *)
(* service only while the window of the session as it is saved is open, and *)
(* a wallet is told a decision only until the end of that window.           *)
THEOREM DisclosedInWindow == Spec => DisclosureInWindow
  <1> DEFINE Timely ==
        /\ \A r \in webhooks' \ webhooks : r.attributes => WindowOpen(store[r.session])
        /\ \A h \in Handler :
             task'[h].pc = "disclosed" /\ task[h] # task'[h] => TimelyAnswer(task'[h], store'[task'[h].session])
  <1>1. NoticesHold /\ [Next]_vars => Timely
    <2> SUFFICES ASSUME NoticesHold, [Next]_vars PROVE Timely
      OBVIOUS
    <2>1. ASSUME NEW r \in webhooks' \ webhooks, r.attributes PROVE WindowOpen(store[r.session])
      BY <2>1, WebhookSteps, ReplyTimely
    <2>2. ASSUME NEW h \in Handler, task'[h].pc = "disclosed", task[h] # task'[h]
          PROVE  TimelyAnswer(task'[h], store'[task'[h].session])
      <3>1. TypeOK /\ h \in Task /\ h \notin Cleaner /\ NoticesHold'
        BY NoticesAlways, NamesAssumption DEF NoticesHold, RecordsHold, ClaimInv, Task
      <3>2. task \in [Task -> TaskRecord]
        BY <3>1 DEF TypeOK
      <3>3. ~\E e \in events : HandleProofEvent(h, e)
        BY <2>2, <3>1, <3>2, EventPc
      <3>4. /\ ~\E s \in Session, p \in Proof : StartSession(h, s, p)
            /\ ~\E p \in Proof : ClaimExchange(h, p)
        BY <2>2, <3>1, <3>2, BegunTasks
      <3>5. Sync(h) \/ AnswerList(h) \/ AnswerResult(h)
        BY <2>2, <3>1, <3>3, <3>4, TaskMoves DEF Moves, Watched
      <3> QED
        BY <2>2, <3>1, <3>5, DetailsTimely, AnswersTimely
    <2> QED
      BY <2>1, <2>2
  <1>2. NoticesHold /\ [Next]_vars => NoticesHold' /\ [Timely]_vars
    BY <1>1, NoticesAlways
  <1>3. Init => NoticesHold
    BY NoticesAlways
  <1> HIDE DEF Timely
  <1>4. Spec => [][Timely]_vars
    BY <1>2, <1>3, PTL DEF Spec
  <1> QED
    BY <1>4 DEF Timely, TimelyAnswer, DisclosureInWindow

-----------------------------------------------------------------------------
(* Approvals.  What a synchronisation has read of a finished proof is final *)
(* (later the record can only be deleted), so a verdict that was justified  *)
(* by it still is when it is committed, and afterwards.                     *)
Finished(p, e) == madeFor[p] # None /\ proofRecord[p] \in {e, NoRecord}
Backed(p, deadline, at) ==
  /\ p # None /\ madeFor[p] # None /\ proofRecord[p].state \in {"done", "unknown"}
  /\ Held(p) => proofRecord[p].isVerified = "yes" /\ proofRecord[p].updatedAt <= deadline
  /\ presentation[p].definitions = {TrustedDefinition} /\ RequiredFields \subseteq presentation[p].fields
  /\ CredentialValidityFailure(presentation[p].validFrom, presentation[p].expiresAt, at, LegacyAllowed) = NoFailure

ExchangesSound ==
  \A p \in Proof : /\ madeFor[p] = None => proofRecord[p] = NoRecord
                   /\ ~Held(p) => proofRecord[p] = NoRecord
                   /\ proofRecord[p].updatedAt <= clock
EventOK(e) ==
  /\ e.record.updatedAt <= clock /\ madeFor[e.proof] # None
  /\ e.record.state = "done" => Finished(e.proof, e.record)
ReadingOK(j) ==
  j.pc \in {"sync-proof", "sync-evaluate"} =>
    /\ j.evidence.updatedAt <= clock
    /\ j.evidence.state = "done" => j.seen.proof # None /\ Finished(j.seen.proof, j.evidence)
VerdictOK(j, r) ==
  j.pc = "sync-commit" /\ j.verdict.decision = "Approved" /\ ~IsTerminal(r.decision) =>
    Backed(r.proof, r.expiresAt, j.verdict.completedAt)
ApprovalOK(r) == r.decision = "Approved" => Backed(r.proof, r.expiresAt, r.completedAt)

EvidenceSound ==
  /\ ExchangesSound
  /\ \A e \in events : EventOK(e)
  /\ \A t \in Task : ReadingOK(task[t]) /\ VerdictOK(task[t], store[task[t].session])
  /\ \A s \in Session : ApprovalOK(store[s])

(* How Credo's records change: an exchange stays with its session, and once *)
(* it is done it can only be deleted.                                       *)
ExchangesEvolve ==
  \A p \in Proof :
    madeFor[p] # None =>
      /\ madeFor'[p] = madeFor[p]
      /\ proofRecord[p].state \in {"done", "unknown"} =>
           presentation'[p] = presentation[p] /\ proofRecord'[p] \in {proofRecord[p], NoRecord}

(* The wallet and Credo take an exchange that is not done further. *)
LEMMA WalletAdvances ==
  ASSUME TypeOK, NEW p \in Proof, Wallet(p)
  PROVE  /\ proofRecord[p].state \in {"request-sent", "presentation-received"}
         /\ \E r : Advance(p, r) /\ r.updatedAt = clock /\ r.state # "unknown"
         /\ \A q \in Proof \ {p} : presentation'[q] = presentation[q]
  <1>1. ASSUME NEW shown, WalletPresents(p, shown)
        PROVE  \E r : Advance(p, r) /\ r.updatedAt = clock /\ r.state # "unknown"
    <2>1. WITNESS [NoRecord EXCEPT !.state = "presentation-received", !.isVerified = "yes", !.updatedAt = clock]
    <2> QED
      BY <1>1 DEF WalletPresents, NoRecord
  <1>2. ASSUME CredoCompletes(p)
        PROVE  \E r : Advance(p, r) /\ r.updatedAt = clock /\ r.state # "unknown"
    <2>1. WITNESS [proofRecord[p] EXCEPT !.state = "done", !.updatedAt = clock]
    <2> QED
      BY <1>2 DEF CredoCompletes, ProofRecord, TypeOK
  <1>3. ASSUME NEW outcome \in FailedExchange, ExchangeFails(p, outcome)
        PROVE  \E r : Advance(p, r) /\ r.updatedAt = clock /\ r.state # "unknown"
    <2>1. WITNESS [state |-> outcome.state, isVerified |-> outcome.isVerified,
                   phrases |-> outcome.phrases, updatedAt |-> clock]
    <2> QED
      BY <1>3, EvidenceAssumption DEF ExchangeFails
  <1>4. \A q \in Proof \ {p} : presentation'[q] = presentation[q]
    BY DEF Wallet, WalletPresents, ExchangeFails, CredoCompletes, TypeOK
  <1> QED
    BY <1>1, <1>2, <1>3, <1>4 DEF Wallet, WalletPresents, ExchangeFails, CredoCompletes

(* So they do in every step. *)
LEMMA ExchangesMove ==
  ASSUME TypeOK, ExchangesSound, \A e \in events : EventOK(e), [Next]_vars
  PROVE  ExchangesEvolve /\ ExchangesSound'
  <1>1. clock \in Nat /\ clock' \in Nat /\ clock' >= clock
    BY ClockSteps
  <1>2. /\ proofRecord \in [Proof -> ProofRecord] /\ madeFor \in [Proof -> Session \cup {None}]
        /\ \A p \in Proof : proofRecord[p].updatedAt \in Nat
    BY DEF TypeOK, ProofRecord
  <1>3. NoRecord.state = "unknown" /\ NoRecord.updatedAt = 0
    BY DEF NoRecord
  <1>4. CASE UNCHANGED <<proofRecord, presentation, madeFor>>
    BY <1>1, <1>2, <1>4 DEF ExchangesEvolve, ExchangesSound, Held
  <1>5. ASSUME NEW s \in Session, NEW p \in Proof, NewExchange(s, p), UNCHANGED presentation
        PROVE  ExchangesEvolve /\ ExchangesSound'
    <2> DEFINE r == [NoRecord EXCEPT !.state = "request-sent", !.updatedAt = clock]
    <2>1. r.state = "request-sent" /\ r.updatedAt = clock
      BY DEF NoRecord
    <2> HIDE DEF r
    <2>2. /\ madeFor[p] = None /\ madeFor'[p] = s /\ proofRecord'[p] = r /\ s # None
          /\ \A q \in Proof \ {p} : madeFor'[q] = madeFor[q] /\ proofRecord'[q] = proofRecord[q]
      BY <1>2, <1>5, NamesAssumption DEF NewExchange, r
    <2> QED
      BY <1>1, <1>2, <1>5, <2>1, <2>2 DEF ExchangesEvolve, ExchangesSound, Held
  <1>6. ASSUME NEW c \in Cleaner, CleanProof(c) PROVE ExchangesEvolve /\ ExchangesSound'
    <2>1. /\ UNCHANGED <<presentation, madeFor, clock>>
          /\ \A p \in Proof : proofRecord'[p] \in {proofRecord[p], NoRecord}
      BY <1>2, <1>6 DEF CleanProof
    <2> QED
      BY <1>1, <1>2, <1>3, <2>1 DEF ExchangesEvolve, ExchangesSound, Held
  <1>7. ASSUME NEW p \in Proof, Wallet(p) PROVE ExchangesEvolve /\ ExchangesSound'
    <2>1. /\ proofRecord[p].state \in {"request-sent", "presentation-received"}
          /\ \E r : Advance(p, r) /\ r.updatedAt = clock /\ r.state # "unknown"
          /\ \A q \in Proof \ {p} : presentation'[q] = presentation[q]
      BY <1>7, WalletAdvances
    <2>2. PICK r : Advance(p, r) /\ r.updatedAt = clock /\ r.state # "unknown"
      BY <2>1
    <2>3. /\ UNCHANGED madeFor /\ proofRecord'[p] = r
          /\ \A q \in Proof \ {p} : proofRecord'[q] = proofRecord[q]
      BY <1>2, <2>2 DEF Advance
    <2>4. madeFor[p] # None
      BY <1>3, <2>1 DEF ExchangesSound
    <2> QED
      BY <1>1, <1>2, <2>1, <2>2, <2>3, <2>4 DEF ExchangesEvolve, ExchangesSound, Held
  <1> QED
    BY <1>4, <1>5, <1>6, <1>7, ExchangeSteps

(* What has been read of a finished proof, and what it backs, stays. *)
LEMMA EvidenceStable ==
  ASSUME ExchangesEvolve, NEW p \in Proof
  PROVE  /\ \A e : e.state = "done" /\ Finished(p, e) => Finished(p, e)'
         /\ \A deadline, at : Backed(p, deadline, at) => Backed(p, deadline, at)'
  <1>1. NoRecord.state = "unknown"
    BY DEF NoRecord
  <1> QED
    BY <1>1 DEF ExchangesEvolve, Finished, Backed, Held

(* Events carry the record as it is when they are raised. *)
LEMMA EventsMove ==
  ASSUME TypeOK, ExchangesSound, \A e \in events : EventOK(e), [Next]_vars, NEW e \in events'
  PROVE  EventOK(e)'
  <1>1. clock \in Nat /\ clock' \in Nat /\ clock' >= clock
    BY ClockSteps
  <1>2. ExchangesEvolve /\ ExchangesSound'
    BY ExchangesMove
  <1>3. ASSUME e \in events PROVE EventOK(e)'
    <2>1. e.proof \in Proof /\ e.record.updatedAt \in Nat
      BY <1>3 DEF TypeOK, ProofRecord
    <2>2. EventOK(e)
      BY <1>3
    <2>3. madeFor'[e.proof] # None
      BY <1>2, <2>1, <2>2 DEF EventOK, ExchangesEvolve
    <2>4. e.record.state = "done" => Finished(e.proof, e.record)'
      BY <1>2, <2>1, <2>2, EvidenceStable DEF EventOK
    <2>5. e.record.updatedAt <= clock'
      BY <1>1, <2>1, <2>2 DEF EventOK
    <2> QED
      BY <2>3, <2>4, <2>5 DEF EventOK
  <1>4. ASSUME NEW p \in Proof, Wallet(p), e \notin events PROVE EventOK(e)'
    <2>1. e.proof = p /\ e.record = proofRecord'[p] /\ madeFor' = madeFor /\ Held(p)
      BY <1>4 DEF Wallet, WalletPresents, ExchangeFails, CredoCompletes, Advance, TypeOK, Held
    <2>2. madeFor[p] # None
      BY <2>1 DEF ExchangesSound, Held, NoRecord
    <2> QED
      BY <1>2, <2>1, <2>2 DEF EventOK, Finished, ExchangesSound
  <1>5. ASSUME NEW c \in Cleaner, CleanProof(c) PROVE e \in events
    BY <1>5 DEF CleanProof
  <1> QED
    BY <1>3, <1>4, <1>5, ExchangeSteps

(* evaluateVerification approves nothing but complete evidence. *)
LEMMA ApprovedInput ==
  ASSUME NEW input, EvaluateVerification(input).decision = "Approved"
  PROVE  /\ ~input.expired /\ input.state = "done" /\ input.isVerified = "yes"
         /\ AllTrusted(input) /\ RequiredRevealed(input)
         /\ CredentialValidityFailure(input.validFrom, input.expiresAt, input.now, input.legacy) = NoFailure
  <1>1. ~input.expired /\ input.state # "abandoned"
    BY DEF EvaluateVerification, Decided
  <1>2. input.state = "done" /\ input.isVerified = "yes" /\ EvaluatePresentation(input).decision = "Approved"
    BY <1>1 DEF EvaluateVerification, Decided
  <1>3. AllTrusted(input) /\ RequiredRevealed(input)
    BY <1>2 DEF EvaluatePresentation, Decided
  <1> QED
    BY <1>1, <1>2, <1>3 DEF EvaluatePresentation, Decided

(* So of an undecided session a synchronisation approves only what a proof  *)
(* that finished in time has shown.                                         *)
LEMMA ApprovedVerdict ==
  ASSUME NEW seen \in SessionRecord, ~IsTerminal(seen.decision), seen.completedAt = Never,
         NEW evidence \in ProofRecord, evidence.updatedAt <= clock, clock \in Nat, NEW shown,
         SyncVerdict(seen, evidence, shown).decision = "Approved"
  PROVE  /\ evidence.state = "done" /\ evidence.updatedAt <= seen.expiresAt
         /\ shown.definitions # {} /\ shown.definitions \subseteq {TrustedDefinition}
         /\ RequiredFields \subseteq shown.fields
         /\ CredentialValidityFailure(shown.validFrom, shown.expiresAt, clock, LegacyAllowed) = NoFailure
         /\ SyncVerdict(seen, evidence, shown).completedAt = clock
  <1> DEFINE input == Evidence(seen, evidence, shown)
             evaluation == EvaluateVerification(input)
             expired == RequestExpired(seen, evidence)
  <1>1. /\ input.expired = expired /\ input.definitions = shown.definitions
        /\ input.trusted = {TrustedDefinition} /\ input.required = RequiredFields
        /\ input.fields = shown.fields /\ input.validFrom = shown.validFrom
        /\ input.expiresAt = shown.expiresAt /\ input.now = clock /\ input.legacy = LegacyAllowed
        /\ input.state \in {"abandoned", evidence.state}
    BY DEF Evidence
  <1> HIDE DEF input
  <1>2. /\ SyncVerdict(seen, evidence, shown).decision = evaluation.decision
        /\ IsTerminal(evaluation.decision) /\ ~expired => SyncVerdict(seen, evidence, shown).completedAt = clock
    <2> HIDE DEF evaluation, expired
    <2>1. SyncVerdict(seen, evidence, shown) =
            LET terminalAt == IF expired THEN seen.expiresAt ELSE clock IN
            [decision |-> evaluation.decision, failureCode |-> evaluation.failureCode,
             attributes |-> evaluation.attributes, isVerified |-> evidence.isVerified,
             completedAt |-> IF IsTerminal(evaluation.decision) THEN terminalAt ELSE seen.completedAt,
             visibleUntil |-> IF IsTerminal(evaluation.decision) THEN terminalAt + ResultVisibility
                              ELSE seen.visibleUntil]
      BY DEF SyncVerdict, evaluation, expired, input
    <2> QED
      BY <2>1
  <1>3. /\ ~input.expired /\ input.state = "done" /\ AllTrusted(input) /\ RequiredRevealed(input)
        /\ CredentialValidityFailure(input.validFrom, input.expiresAt, input.now, input.legacy) = NoFailure
    BY <1>2, ApprovedInput
  <1>4. evidence.state = "done" /\ ~expired
    BY <1>1, <1>3, Zenon
  <1>5. evidence.updatedAt <= seen.expiresAt
    <2>1. evidence.updatedAt \in Int /\ seen.expiresAt \in Int
      BY DEF ProofRecord, SessionRecord, Moment, Never
    <2>2. seen.decision = "Pending"
      BY DEF IsTerminal
    <2> QED
      BY <1>4, <2>1, <2>2 DEF RequestExpired
  <1>6. SyncVerdict(seen, evidence, shown).completedAt = clock
    BY <1>2, <1>4 DEF IsTerminal
  <1> QED
    BY <1>1, <1>3, <1>4, <1>5, <1>6 DEF AllTrusted, RequiredRevealed

(* A session gets its exchange when a scan is inserted or a claim linked,   *)
(* and becomes approved by the commit of a synchronisation.                 *)
LEMMA RecordWrites ==
  ASSUME TypeOK, RecordsInv, [Next]_vars, NEW s \in Session
  PROVE  /\ \/ store'[s].proof = store[s].proof
            \/ \E h \in Handler : /\ StartInsert(h) \/ ClaimLink(h)
                                  /\ task[h].session = s /\ store'[s].proof = task[h].proof
         /\ store'[s].decision = "Approved" =>
              \/ store[s].decision = "Approved"
              \/ \E t \in Task : SyncCommit(t) /\ task[t].session = s
  <1> DEFINE Linked == \E h \in Handler : /\ StartInsert(h) \/ ClaimLink(h)
                                          /\ task[h].session = s /\ store'[s].proof = task[h].proof
             Committed == \E t \in Task : SyncCommit(t) /\ task[t].session = s
             Goal == /\ store'[s].proof = store[s].proof \/ Linked
                     /\ store'[s].decision = "Approved" => store[s].decision = "Approved" \/ Committed
  <1>1. store \in [Session -> SessionRecord] /\ task \in [Task -> TaskRecord] /\ Handler \subseteq Task
    BY DEF TypeOK, Task
  <1> HIDE DEF Linked, Committed
  <1>2. ASSUME NEW x \in Session, NEW new, store' = [store EXCEPT ![x] = new],
               new.proof = store[x].proof \/ (s = x => Linked),
               new.decision \in {"Pending", "Failed", store[x].decision} \/ (s = x => Committed)
        PROVE  Goal
    BY <1>1, <1>2
  <1>3. ASSUME store' = store PROVE Goal
    BY <1>3
  <1>4. ASSUME NEW x \in Session, CreateCheckoutSession(x) PROVE Goal
    <2> DEFINE new == [NoSession EXCEPT !.mode = "CHECKOUT", !.expiresAt = clock + SessionTtl]
    <2>1. store[x].proof = None
      BY <1>4 DEF CreateCheckoutSession, Exists, RecordsInv, Sound, NoSession
    <2>2. new.decision = "Pending" /\ new.proof = None /\ store' = [store EXCEPT ![x] = new]
      BY <1>4 DEF CreateCheckoutSession, NoSession
    <2> HIDE DEF new, Goal
    <2> QED
      BY <1>2, <2>1, <2>2
  <1>5. ASSUME NEW h \in Handler, StartInsert(h) \/ ClaimSave(h) \/ ClaimLink(h) \/ ClaimFail(h) PROVE Goal
    <2> DEFINE x == task[h].session
    <2>1. x \in Session
      BY <1>1, <1>5, TaskSession DEF StartInsert, ClaimSave, ClaimLink, ClaimFail, At
    <2>2. store[x] \in SessionRecord
      BY <1>1, <2>1
    <2>3. ASSUME StartInsert(h) PROVE Goal
      <3> DEFINE new == [NoSession EXCEPT !.mode = "STATIC", !.proof = task[h].proof,
                                          !.expiresAt = task[h].stamp + SessionTtl]
      <3>1. new.decision = "Pending" /\ new.proof = task[h].proof /\ store' = [store EXCEPT ![x] = new]
        BY <2>3 DEF StartInsert, NoSession
      <3> HIDE DEF new
      <3>2. s = x => Linked
        BY <1>1, <2>1, <2>3, <3>1 DEF Linked
      <3> HIDE DEF Goal
      <3> QED
        BY <1>2, <2>1, <3>1, <3>2
    <2>4. ASSUME ClaimSave(h) PROVE Goal
      <3> DEFINE new == [store[x] EXCEPT !.claimedAt = task[h].stamp]
      <3>1. /\ new.decision = store[x].decision /\ new.proof = store[x].proof
            /\ (store' = store \/ store' = [store EXCEPT ![x] = new])
        BY <2>2, <2>4 DEF ClaimSave, SessionRecord
      <3> HIDE DEF new, Goal
      <3> QED
        BY <1>2, <1>3, <2>1, <3>1
    <2>5. ASSUME ClaimLink(h) PROVE Goal
      <3> DEFINE new == [store[x] EXCEPT !.proof = task[h].proof]
      <3>1. new.decision = store[x].decision /\ new.proof = task[h].proof /\ store' = [store EXCEPT ![x] = new]
        BY <2>2, <2>5 DEF ClaimLink, SessionRecord
      <3> HIDE DEF new
      <3>2. s = x => Linked
        BY <1>1, <2>1, <2>5, <3>1 DEF Linked
      <3> HIDE DEF Goal
      <3> QED
        BY <1>2, <2>1, <3>1, <3>2
    <2>6. ASSUME ClaimFail(h) PROVE Goal
      <3> DEFINE new == FailedClaim(store[x])
      <3>1. new.decision = "Failed" /\ new.proof = store[x].proof /\ store' = [store EXCEPT ![x] = new]
        BY <2>2, <2>6 DEF ClaimFail, FailedClaim, SessionRecord
      <3> HIDE DEF new, Goal
      <3> QED
        BY <1>2, <2>1, <3>1
    <2> HIDE DEF Goal
    <2> QED
      BY <1>5, <2>3, <2>4, <2>5, <2>6
  <1>6. ASSUME NEW c \in Cleaner, CleanMark(c) PROVE Goal
    <2> DEFINE x == task[c].session
               new == [store[x] EXCEPT !.removed = TRUE]
    <2>1. x \in Session
      BY <1>1, <1>6, TaskSession DEF CleanMark, At, Task
    <2>2. new.decision = store[x].decision /\ new.proof = store[x].proof /\ store' = [store EXCEPT ![x] = new]
      BY <1>1, <1>6, <2>1 DEF CleanMark, SessionRecord
    <2> HIDE DEF new, Goal
    <2> QED
      BY <1>2, <2>1, <2>2
  <1>7. ASSUME NEW t \in Task, SyncCommit(t) PROVE Goal
    <2> DEFINE x == task[t].session
               new == ApplyVerdict(store[x], task[t].verdict)
    <2>1. x \in Session
      BY <1>1, <1>7, TaskSession DEF SyncCommit, At
    <2>2. new.proof = store[x].proof /\ store' = [store EXCEPT ![x] = new]
      BY <1>1, <1>7, <2>1 DEF SyncCommit, ApplyVerdict, SessionRecord
    <2>3. s = x => Committed
      BY <1>7 DEF Committed
    <2> HIDE DEF new, Goal
    <2> QED
      BY <1>2, <2>1, <2>2, <2>3
  <1>8. Goal
    <2> HIDE DEF Goal
    <2> QED
      BY <1>3, <1>4, <1>5, <1>6, <1>7, RecordSteps
  <1> QED
    BY <1>8 DEF Linked, Committed

(* An approval stands with its evidence. *)
LEMMA ApprovalStable ==
  ASSUME ExchangesEvolve, NEW r1 \in SessionRecord, r1.decision = "Approved", ApprovalOK(r1),
         NEW r2, Evolves(r1, r2)
  PROVE  ApprovalOK(r2)'
  <1>1. Backed(r1.proof, r1.expiresAt, r1.completedAt) /\ r1.proof \in Proof
    BY DEF ApprovalOK, Backed, SessionRecord
  <1>2. Backed(r1.proof, r1.expiresAt, r1.completedAt)'
    BY <1>1, EvidenceStable
  <1>3. /\ r2.proof = r1.proof /\ r2.expiresAt = r1.expiresAt /\ r2.completedAt = r1.completedAt
    BY <1>1, NamesAssumption DEF Evolves, NoSession, IsTerminal
  <1> QED
    BY <1>2, <1>3 DEF ApprovalOK

(* So does a verdict that still has to be committed. *)
LEMMA VerdictStable ==
  ASSUME ExchangesEvolve, NEW j, NEW r1 \in SessionRecord, j.pc = "sync-commit" => r1.mode # "NONE",
         VerdictOK(j, r1), NEW r2, Evolves(r1, r2)
  PROVE  VerdictOK(j, r2)'
  <1> SUFFICES ASSUME j.pc = "sync-commit", j.verdict.decision = "Approved", ~IsTerminal(r2.decision)
               PROVE  Backed(r2.proof, r2.expiresAt, j.verdict.completedAt)'
    BY DEF VerdictOK
  <1>1. ~IsTerminal(r1.decision) /\ r2.expiresAt = r1.expiresAt /\ (r1.proof # None => r2.proof = r1.proof)
    BY DEF Evolves, NoSession, IsTerminal
  <1>2. Backed(r1.proof, r1.expiresAt, j.verdict.completedAt)
    BY <1>1 DEF VerdictOK
  <1>3. r1.proof \in Proof
    BY <1>2 DEF Backed, SessionRecord
  <1>4. Backed(r1.proof, r1.expiresAt, j.verdict.completedAt)'
    BY <1>2, <1>3, EvidenceStable
  <1> QED
    BY <1>1, <1>3, <1>4, NamesAssumption

(* A verdict that approves is backed by what the evaluation has read. *)
LEMMA EvaluateBacks ==
  ASSUME RecordsHold, EvidenceSound, ExchangesEvolve, NEW t \in Task, SyncEvaluate(t),
         NEW j, j = task'[t], NEW r, r = store'[j.session]
  PROVE  VerdictOK(j, r)' /\ j.pc \in {"sync-commit", "idle"}
  <1> DEFINE s == task[t].session
             seen == task[t].seen
             evidence == task[t].evidence
             shown == IF ReadsPresentation(t) THEN presentation[seen.proof] ELSE NoPresentation
             v == SyncVerdict(seen, evidence, shown)
             next == [Idle EXCEPT !.pc = "sync-commit", !.session = s, !.notify = task[t].notify, !.verdict = v]
  <1>1. /\ TypeOK /\ task \in [Task -> TaskRecord] /\ store \in [Session -> SessionRecord] /\ clock \in Nat
        /\ At(t, "sync-evaluate") /\ store' = store
    BY DEF RecordsHold, ClaimInv, TypeOK, SyncEvaluate
  <1>2. /\ s \in Session /\ store[s] \in SessionRecord /\ seen \in SessionRecord /\ evidence \in ProofRecord
    BY <1>1, TaskSession DEF At, TaskRecord
  <1>3. Snapshot(seen, store[s]) /\ (seen.proof = None => evidence = NoRecord)
    BY <1>1 DEF RecordsHold, RecordsInv, JobsSound, JobOK, At
  <1>4. /\ evidence.updatedAt <= clock
        /\ evidence.state = "done" => seen.proof # None /\ Finished(seen.proof, evidence)
    BY <1>1 DEF EvidenceSound, ReadingOK, At
  <1>5. CASE Finish(t)
    BY <1>1, <1>5, OneTask, IdlePc DEF VerdictOK
  <1>6. CASE Begin(t, next) /\ ~(ReadsPresentation(t) /\ ~Held(seen.proof))
    <2>1. next.pc = "sync-commit" /\ next.session = s /\ next.verdict = v
      BY DEF Idle
    <2> HIDE DEF next
    <2>2. j = next /\ r = store[s]
      BY <1>1, <1>6, <2>1, OneTask
    <2> SUFFICES ASSUME j.verdict.decision = "Approved", ~IsTerminal(r.decision)
                 PROVE  Backed(r.proof, r.expiresAt, j.verdict.completedAt)'
      BY <2>1, <2>2, Zenon DEF VerdictOK
    <2>3. seen.mode # "NONE" /\ Sound(seen) /\ Evolves(seen, store[s])
      BY <1>3 DEF Snapshot
    <2>4. ~IsTerminal(seen.decision) /\ seen.completedAt = Never /\ v.decision = "Approved"
      BY <2>1, <2>2, <2>3, FitsLater DEF Sound
    <2> HIDE DEF shown
    <2>5. /\ evidence.state = "done" /\ evidence.updatedAt <= seen.expiresAt
          /\ shown.definitions # {} /\ shown.definitions \subseteq {TrustedDefinition}
          /\ RequiredFields \subseteq shown.fields
          /\ CredentialValidityFailure(shown.validFrom, shown.expiresAt, clock, LegacyAllowed) = NoFailure
          /\ v.completedAt = clock
      BY <1>1, <1>2, <1>4, <2>4, ApprovedVerdict
    <2> HIDE DEF v
    <2>6. ReadsPresentation(t) /\ shown = presentation[seen.proof]
      BY <2>5 DEF shown, NoPresentation
    <2>7. seen.proof \in Proof /\ Finished(seen.proof, evidence) /\ Held(seen.proof) /\ evidence.isVerified = "yes"
      BY <1>2, <1>4, <1>6, <2>5, <2>6 DEF ReadsPresentation, SessionRecord
    <2>8. proofRecord[seen.proof] = evidence
      BY <2>7 DEF Finished, Held, NoRecord
    <2>9. Backed(seen.proof, seen.expiresAt, clock)
      BY <2>5, <2>6, <2>7, <2>8, NamesAssumption DEF Backed, Finished
    <2>10. r.proof = seen.proof /\ r.expiresAt = seen.expiresAt /\ j.verdict.completedAt = clock
      BY <2>1, <2>2, <2>3, <2>5, <2>7, NamesAssumption DEF Evolves, NoSession
    <2>11. r.proof \in Proof /\ Backed(r.proof, r.expiresAt, j.verdict.completedAt)
      BY <2>7, <2>9, <2>10
    <2> QED
      BY <2>11, EvidenceStable
  <1> QED
    BY <1>5, <1>6, <1>1, OneTask, IdlePc DEF SyncEvaluate, Idle

(* What a synchronisation is given or reads of a finished proof is final. *)
LEMMA ReadingsMove ==
  ASSUME RecordsHold, EvidenceSound, [Next]_vars, NEW t \in Task, NEW j, j = task'[t]
  PROVE  ReadingOK(j)'
  <1>1. /\ TypeOK /\ task \in [Task -> TaskRecord] /\ store \in [Session -> SessionRecord]
        /\ ExchangesSound /\ (\A e \in events : EventOK(e)) /\ ReadingOK(task[t])
        /\ proofRecord \in [Proof -> ProofRecord]
    BY DEF RecordsHold, ClaimInv, TypeOK, EvidenceSound
  <1>2. ExchangesEvolve /\ clock \in Nat /\ clock' \in Nat /\ clock' >= clock
    BY <1>1, ExchangesMove, ClockSteps
  <1>3. ASSUME NEW seen, NEW evidence \in ProofRecord, seen.proof # None => seen.proof \in Proof,
               evidence.updatedAt <= clock,
               evidence.state = "done" => seen.proof # None /\ Finished(seen.proof, evidence),
               j.seen = seen, j.evidence = evidence
        PROVE  ReadingOK(j)'
    <2>1. evidence.updatedAt \in Nat
      BY DEF ProofRecord
    <2>2. evidence.updatedAt <= clock'
      BY <1>2, <1>3, <2>1
    <2>3. evidence.state = "done" => Finished(seen.proof, evidence)'
      BY <1>2, <1>3, EvidenceStable
    <2> QED
      BY <1>3, <2>2, <2>3 DEF ReadingOK
  <1>4. NoRecord \in ProofRecord /\ NoRecord.state = "unknown" /\ NoRecord.updatedAt = 0
    BY StartTypes DEF NoRecord
  <1>5. ASSUME task[t].pc # "idle"
        PROVE  /\ task[t].seen \in SessionRecord /\ task[t].evidence \in ProofRecord
               /\ task[t].seen.proof # None => task[t].seen.proof \in Proof
    BY <1>1, <1>5 DEF TaskRecord, SessionRecord
  <1>6. CASE j.pc \notin {"sync-proof", "sync-evaluate"}
    BY <1>6 DEF ReadingOK
  <1>7. CASE task'[t] = task[t]
    <2>1. CASE task[t].pc \in {"sync-proof", "sync-evaluate"}
      BY <1>1, <1>3, <1>5, <1>7, <2>1 DEF ReadingOK
    <2> QED
      BY <1>6, <1>7, <2>1
  <1>8. CASE j.pc = "sync-proof" /\ j.evidence = NoRecord
    BY <1>2, <1>4, <1>8 DEF ReadingOK
  <1>9. CASE SyncProof(t)
    <2> DEFINE seen == task[t].seen
               read == IF seen.proof = None THEN NoRecord ELSE proofRecord[seen.proof]
               evidence == IF task[t].notify THEN task[t].evidence ELSE read
               next == [task[t] EXCEPT !.pc = "sync-evaluate", !.evidence = evidence]
    <2>1. CASE AfterSync(t, seen, NoVerdict)
      <3>1. j.pc \in SyncEnds
        BY <1>1, <2>1, AfterSyncPc
      <3> QED
        BY <1>6, <3>1 DEF SyncEnds
    <2>2. CASE Begin(t, next)
      <3>1. task[t].pc = "sync-proof" /\ task[t] \in TaskRecord
        BY <1>1, <1>9 DEF SyncProof, At
      <3>2. next.seen = seen /\ next.evidence = evidence
        BY <3>1 DEF TaskRecord
      <3>3. j.seen = seen /\ j.evidence = evidence
        <4> HIDE DEF next
        <4> QED
          BY <1>1, <2>2, <3>2, OneTask
      <3>4. /\ read \in ProofRecord /\ read.updatedAt <= clock
            /\ read.state = "done" => seen.proof # None /\ Finished(seen.proof, read)
        <4>1. CASE seen.proof = None
          BY <1>2, <1>4, <4>1
        <4>2. CASE seen.proof # None
          <5>1. seen.proof \in Proof /\ read = proofRecord[seen.proof]
            BY <1>5, <3>1, <4>2
          <5> QED
            BY <1>1, <1>4, <4>2, <5>1 DEF ExchangesSound, Finished
        <4> QED
          BY <4>1, <4>2
      <3> HIDE DEF read
      <3>5. /\ evidence \in ProofRecord /\ evidence.updatedAt <= clock
            /\ evidence.state = "done" => seen.proof # None /\ Finished(seen.proof, evidence)
        BY <1>1, <1>5, <3>1, <3>4 DEF ReadingOK
      <3> HIDE DEF evidence
      <3> QED
        BY <1>3, <1>5, <3>1, <3>3, <3>5
    <2> QED
      BY <1>9, <2>1, <2>2 DEF SyncProof, Begin
  <1>10. CASE SyncEvaluate(t)
    BY <1>2, <1>6, <1>10, EvaluateBacks
  <1>11. CASE SyncCommit(t)
    <2>1. j.pc \in SyncEnds
      BY <1>1, <1>11, AfterSyncPc DEF SyncCommit
    <2> QED
      BY <1>6, <2>1 DEF SyncEnds
  <1>12. ASSUME NEW e \in events, HandleProofEvent(t, e) PROVE ReadingOK(j)'
    <2>1. CASE UNCHANGED task
      BY <1>7, <2>1
    <2>2. ASSUME NEW x \in Session, store[x].proof = e.proof,
                 Begin(t, [Idle EXCEPT !.pc = "sync-proof", !.session = x, !.seen = store[x],
                                       !.evidence = e.record, !.notify = TRUE])
          PROVE  ReadingOK(j)'
      <3> DEFINE next == [Idle EXCEPT !.pc = "sync-proof", !.session = x, !.seen = store[x],
                                      !.evidence = e.record, !.notify = TRUE]
      <3>1. next.seen = store[x] /\ next.evidence = e.record /\ Begin(t, next)
        BY <2>2 DEF Idle
      <3> HIDE DEF next
      <3>2. j.seen = store[x] /\ j.evidence = e.record
        BY <1>1, <3>1, OneTask
      <3>3. e.record \in ProofRecord /\ e.proof \in Proof /\ EventOK(e) /\ e.proof # None
        BY <1>1, NamesAssumption DEF TypeOK
      <3> QED
        BY <1>3, <2>2, <3>2, <3>3 DEF EventOK
    <2> QED
      BY <1>12, <2>1, <2>2 DEF HandleProofEvent
  <1>13. CASE \/ \E s \in Session, p \in Proof : StartSession(t, s, p)
              \/ \E p \in Proof : ClaimExchange(t, p)
              \/ CleanCheck(t)
    BY <1>1, <1>6, <1>13, BegunTasks
  <1> QED
    BY <1>1, <1>6, <1>7, <1>8, <1>9, <1>10, <1>11, <1>12, <1>13, TaskMoves DEF Moves, Sync, Watched

(* Verdicts and approvals, in a step of any task. *)
LEMMA VerdictsMove ==
  ASSUME RecordsHold, EvidenceSound, [Next]_vars, NEW t \in Task,
         NEW j, j = task'[t], NEW r, r = store'[j.session]
  PROVE  VerdictOK(j, r)'
  <1>1. /\ TypeOK /\ task \in [Task -> TaskRecord] /\ store \in [Session -> SessionRecord]
        /\ StoreEvolves /\ VerdictOK(task[t], store[task[t].session]) /\ JobOK(task[t], store[task[t].session])
    BY RecordsAlways DEF RecordsHold, ClaimInv, TypeOK, EvidenceSound, RecordsInv, JobsSound
  <1>2. ExchangesEvolve
    BY <1>1, ExchangesMove DEF EvidenceSound
  <1>3. CASE j.pc # "sync-commit"
    BY <1>3 DEF VerdictOK
  <1>4. CASE task'[t] = task[t] /\ j.pc = "sync-commit"
    <2>1. /\ j = task[t] /\ j.session \in Session /\ store[j.session] \in SessionRecord
          /\ store[j.session].mode # "NONE" /\ Evolves(store[j.session], r) /\ VerdictOK(j, store[j.session])
      BY <1>1, <1>4, TaskSession DEF At, StoreEvolves, JobOK
    <2> QED
      BY <1>2, <2>1, VerdictStable
  <1>5. CASE SyncEvaluate(t)
    BY <1>2, <1>5, EvaluateBacks
  <1>6. CASE SyncProof(t)
    <2> DEFINE next == [task[t] EXCEPT !.pc = "sync-evaluate",
                          !.evidence = IF task[t].notify THEN @
                                       ELSE IF task[t].seen.proof = None THEN NoRecord
                                            ELSE proofRecord[task[t].seen.proof]]
    <2>1. next.pc = "sync-evaluate"
      BY <1>1 DEF TaskRecord
    <2>2. Begin(t, next) \/ AfterSync(t, task[t].seen, NoVerdict)
      BY <1>6 DEF SyncProof
    <2> HIDE DEF next
    <2> QED
      BY <1>1, <1>3, <2>1, <2>2, OneTask, AfterSyncPc DEF SyncEnds
  <1>7. CASE SyncCommit(t)
    BY <1>1, <1>3, <1>7, AfterSyncPc DEF SyncCommit, SyncEnds
  <1>8. ASSUME NEW e \in events, HandleProofEvent(t, e) PROVE VerdictOK(j, r)'
    <2>1. ASSUME NEW x, Begin(t, [Idle EXCEPT !.pc = "sync-proof", !.session = x, !.seen = store[x],
                                              !.evidence = e.record, !.notify = TRUE])
          PROVE  VerdictOK(j, r)'
      <3> DEFINE next == [Idle EXCEPT !.pc = "sync-proof", !.session = x, !.seen = store[x],
                                      !.evidence = e.record, !.notify = TRUE]
      <3>1. next.pc = "sync-proof" /\ Begin(t, next)
        BY <2>1 DEF Idle
      <3> HIDE DEF next
      <3> QED
        BY <1>1, <1>3, <3>1, OneTask
    <2> QED
      BY <1>3, <1>4, <1>8, <2>1 DEF HandleProofEvent
  <1>9. CASE \/ \E s \in Session, p \in Proof : StartSession(t, s, p)
             \/ \E p \in Proof : ClaimExchange(t, p)
             \/ CleanCheck(t)
    BY <1>1, <1>3, <1>9, BegunTasks
  <1> QED
    BY <1>1, <1>3, <1>4, <1>5, <1>6, <1>7, <1>8, <1>9, TaskMoves DEF Moves, Sync, Watched

(* An approval that was there stands; a new one was justified before it was *)
(* committed.                                                               *)
LEMMA ApprovalsMove ==
  ASSUME RecordsHold, EvidenceSound, [Next]_vars, NEW s \in Session, NEW r, r = store'[s]
  PROVE  ApprovalOK(r)'
  <1>1. /\ TypeOK /\ task \in [Task -> TaskRecord] /\ store \in [Session -> SessionRecord]
        /\ StoreEvolves /\ ApprovalOK(store[s])
    BY RecordsAlways DEF RecordsHold, ClaimInv, TypeOK, EvidenceSound
  <1>2. ExchangesEvolve
    BY <1>1, ExchangesMove DEF EvidenceSound
  <1>3. CASE store[s].decision = "Approved"
    BY <1>1, <1>2, <1>3, ApprovalStable DEF StoreEvolves
  <1>4. CASE store[s].decision # "Approved" /\ r.decision = "Approved"
    <2>1. PICK t \in Task : SyncCommit(t) /\ task[t].session = s
      BY <1>1, <1>4, RecordWrites DEF RecordsHold
    <2> DEFINE v == task[t].verdict
    <2>2. /\ At(t, "sync-commit") /\ JobOK(task[t], store[s]) /\ VerdictOK(task[t], store[s])
          /\ task[t] \in TaskRecord /\ store[s] \in SessionRecord
      BY <1>1, <2>1 DEF SyncCommit, RecordsHold, RecordsInv, JobsSound, EvidenceSound
    <2>3. r = ApplyVerdict(store[s], v)
      BY <1>1, <2>1 DEF SyncCommit
    <2>4. ~IsTerminal(store[s].decision) /\ v.decision = "Approved"
      <3>1. ~IsTerminal(store[s].decision)
        BY <1>4, <2>3 DEF ApplyVerdict
      <3> QED
        BY <1>4, <2>2, <2>3, <3>1 DEF ApplyVerdict, SessionRecord
    <2>5. v.completedAt # Never
      BY <2>2, <2>4 DEF JobOK, Fits, At, IsTerminal
    <2>6. r.proof = store[s].proof /\ r.expiresAt = store[s].expiresAt /\ r.completedAt = v.completedAt
      BY <2>2, <2>3, <2>4, <2>5 DEF ApplyVerdict, SessionRecord
    <2>7. Backed(r.proof, r.expiresAt, r.completedAt)
      BY <2>2, <2>4, <2>6 DEF VerdictOK, At
    <2>8. r.proof \in Proof
      BY <2>2, <2>6, <2>7 DEF Backed, SessionRecord
    <2> QED
      BY <1>2, <2>7, <2>8, EvidenceStable DEF ApprovalOK
  <1>5. CASE r.decision # "Approved"
    BY <1>5 DEF ApprovalOK
  <1> QED
    BY <1>3, <1>4, <1>5

(* The inductive step. *)
LEMMA NextEvidence ==
  ASSUME RecordsHold, EvidenceSound, [Next]_vars
  PROVE  EvidenceSound'
  <1>1. TypeOK /\ ExchangesSound /\ \A e \in events : EventOK(e)
    BY DEF RecordsHold, ClaimInv, EvidenceSound
  <1>2. ExchangesSound'
    BY <1>1, ExchangesMove
  <1>3. \A e \in events' : EventOK(e)'
    BY <1>1, EventsMove
  <1>4. ASSUME NEW t \in Task
        PROVE  (ReadingOK(task[t]) /\ VerdictOK(task[t], store[task[t].session]))'
    <2>1. \A j : j = task'[t] => ReadingOK(j)'
      BY ReadingsMove
    <2>2. \A j, r : j = task'[t] /\ r = store'[j.session] => VerdictOK(j, r)'
      BY VerdictsMove
    <2> QED
      BY <2>1, <2>2, Zenon
  <1>5. ASSUME NEW s \in Session PROVE ApprovalOK(store[s])'
    <2>1. \A r : r = store'[s] => ApprovalOK(r)'
      BY ApprovalsMove
    <2> QED
      BY <2>1, Zenon
  <1> QED
    BY <1>2, <1>3, <1>4, <1>5 DEF EvidenceSound

(* Nothing is approved in the beginning, and no exchange exists. *)
LEMMA InitEvidence == Init => EvidenceSound
  <1> SUFFICES ASSUME Init PROVE EvidenceSound
    OBVIOUS
  <1>1. /\ clock = 0 /\ events = {} /\ \A p \in Proof : proofRecord[p] = NoRecord
        /\ \A t \in Task : task[t] = Idle
        /\ \A s \in Session : store[s] = NoSession
    BY DEF Init
  <1>2. NoRecord.updatedAt = 0 /\ NoSession.decision = "Pending"
    BY DEF NoRecord, NoSession
  <1> QED
    BY <1>1, <1>2, IdlePc DEF EvidenceSound, ExchangesSound, EventOK, ReadingOK, VerdictOK, ApprovalOK

(* With the layers below it. *)
EvidenceHolds == RecordsHold /\ EvidenceSound

(* They hold at first and every step keeps them. *)
LEMMA EvidenceAlways == (Init => EvidenceHolds) /\ (EvidenceHolds /\ [Next]_vars => EvidenceHolds')
  BY RecordsAlways, InitEvidence, NextEvidence DEF EvidenceHolds

(* Whatever polls, events and cleanup runs raced and however old what they  *)
(* had read, an approved session has a verified proof that finished by its  *)
(* deadline, from the trusted definition, valid when it was completed.      *)
THEOREM ApprovalsJustified == Spec => []ApprovalJustified
  <1>1. EvidenceHolds => ApprovalJustified
    BY DEF EvidenceHolds, EvidenceSound, ApprovalOK, Backed, Held, ApprovalJustified
  <1> QED
    BY <1>1, EvidenceAlways, PTL DEF Spec

-----------------------------------------------------------------------------
(* Proof material.  An exchange belongs to one session, so cleanup, which   *)
(* removes the exchange of a record whose window is over, never removes one *)
(* that another session or a claim under way relies on.                     *)
Over(r) == IsTerminal(r.decision) /\ r.visibleUntil # Never /\ clock >= r.visibleUntil
LinkOK(s) == store[s].proof # None => madeFor[store[s].proof] = s
Carried(j) ==
  j.pc \in {"start-insert", "claim-link"} => j.proof # None /\ Held(j.proof) /\ madeFor[j.proof] = j.session
Removing(j, r) == j.pc = "clean-proof" /\ j.proof # None => r.proof = j.proof /\ Over(r)
MaterialSound ==
  /\ \A s \in Session : LinkOK(s)
  /\ \A h \in Handler : Carried(task[h])
  /\ \A c \in Cleaner : Removing(task[c], store[task[c].session])
  /\ MaterialKept

(* An exchange disappears from Credo by a cleanup run that means it. *)
LEMMA HeldUntilRemoved ==
  ASSUME TypeOK, [Next]_vars, NEW p \in Proof, Held(p), ~Held(p)'
  PROVE  \E c \in Cleaner : CleanProof(c) /\ task[c].proof = p
  <1>1. proofRecord \in [Proof -> ProofRecord]
    BY DEF TypeOK
  <1>2. ~UNCHANGED proofRecord
    BY DEF Held
  <1>3. ASSUME NEW s, NEW q \in Proof, NewExchange(s, q) PROVE FALSE
    <2> DEFINE r == [NoRecord EXCEPT !.state = "request-sent", !.updatedAt = clock]
    <2>1. r.state = "request-sent" /\ proofRecord' = [proofRecord EXCEPT ![q] = r]
      BY <1>3 DEF NewExchange, NoRecord
    <2> HIDE DEF r
    <2> QED
      BY <1>1, <2>1 DEF Held
  <1>4. ASSUME NEW q \in Proof, Wallet(q) PROVE FALSE
    <2>1. PICK r : Advance(q, r) /\ r.state # "unknown"
      BY <1>4, WalletAdvances
    <2> QED
      BY <1>1, <2>1 DEF Held, Advance
  <1>5. ASSUME NEW c \in Cleaner, CleanProof(c) PROVE task[c].proof = p
    BY <1>1, <1>5 DEF CleanProof, Held
  <1> QED
    BY <1>2, <1>3, <1>4, <1>5, ExchangeSteps

(* A window that is over stays over. *)
LEMMA OverStable ==
  ASSUME TypeOK, [Next]_vars, NEW r1 \in SessionRecord, Over(r1), NEW r2 \in SessionRecord, Evolves(r1, r2)
  PROVE  Over(r2)'
  <1>1. clock \in Nat /\ clock' \in Nat /\ clock' >= clock
    BY ClockSteps
  <1>2. r1 # NoSession
    BY DEF Over, NoSession
  <1>3. IsTerminal(r2.decision) /\ r2.visibleUntil = r1.visibleUntil
    BY <1>2 DEF Over, Evolves, IsTerminal
  <1>4. r1.visibleUntil \in Int
    BY DEF SessionRecord, Moment, Never
  <1> QED
    BY <1>1, <1>3, <1>4 DEF Over

(* The facts of the layers below that the steps use. *)
LEMMA MaterialFacts ==
  ASSUME EvidenceHolds, MaterialSound, [Next]_vars
  PROVE  /\ TypeOK /\ TypeOK' /\ RecordsInv /\ StoreEvolves /\ ExchangesEvolve
         /\ task \in [Task -> TaskRecord] /\ Handler \subseteq Task /\ Cleaner \subseteq Task
         /\ \A s \in Session : store[s] \in SessionRecord /\ store'[s] \in SessionRecord
         /\ \A h \in Handler : task[h].pc \in {"start-insert", "claim-link"} =>
              /\ task[h].session \in Session /\ task[h].proof \in Proof
              /\ store[task[h].session].proof = None
  <1>1. /\ TypeOK /\ TypeOK' /\ RecordsInv /\ StoreEvolves
        /\ task \in [Task -> TaskRecord] /\ Handler \subseteq Task /\ Cleaner \subseteq Task
    BY RecordsAlways DEF EvidenceHolds, RecordsHold, ClaimInv, TypeOK, Task
  <1>2. ExchangesEvolve
    BY <1>1, ExchangesMove DEF EvidenceHolds, EvidenceSound
  <1>3. \A s \in Session : store[s] \in SessionRecord /\ store'[s] \in SessionRecord
    BY <1>1 DEF TypeOK
  <1>4. ASSUME NEW h \in Handler, task[h].pc \in {"start-insert", "claim-link"}
        PROVE  task[h].session \in Session /\ task[h].proof \in Proof /\ store[task[h].session].proof = None
    <2>1. task[h].session \in Session /\ task[h].proof \in Proof
      BY <1>1, <1>4 DEF TaskRecord
    <2>2. CASE task[h].pc = "start-insert"
      <3>1. ~Exists(task[h].session)
        BY <1>1, <2>2 DEF RecordsInv, ClaimsOpen, StartFresh, At
      <3> QED
        BY <1>1, <2>1, <3>1 DEF Exists, RecordsInv, Sound, NoSession
    <2>3. CASE task[h].pc = "claim-link"
      BY <1>1, <2>1, <2>3 DEF RecordsInv, ClaimsOpen, ClaimOpen, Claiming, Open, Unlinked
    <2> QED
      BY <1>4, <2>1, <2>2, <2>3
  <1> QED
    BY <1>1, <1>2, <1>3, <1>4

(* A record is given the exchange that was made for it. *)
LEMMA LinksMove ==
  ASSUME EvidenceHolds, MaterialSound, [Next]_vars, NEW s \in Session
  PROVE  LinkOK(s)'
  <1>1. /\ TypeOK /\ RecordsInv /\ StoreEvolves /\ ExchangesEvolve
        /\ store[s] \in SessionRecord /\ store'[s] \in SessionRecord /\ LinkOK(s)
    BY MaterialFacts DEF MaterialSound
  <1>2. CASE store'[s].proof = store[s].proof
    <2>1. store[s].proof # None => store[s].proof \in Proof /\ madeFor[store[s].proof] = s
      BY <1>1 DEF SessionRecord, LinkOK
    <2> QED
      BY <1>1, <1>2, <2>1, NamesAssumption DEF LinkOK, ExchangesEvolve
  <1>3. ASSUME NEW h \in Handler, StartInsert(h) \/ ClaimLink(h), task[h].session = s,
               store'[s].proof = task[h].proof
        PROVE  LinkOK(s)'
    <2>1. task[h].proof \in Proof /\ madeFor[task[h].proof] = s
      BY <1>3, MaterialFacts DEF MaterialSound, Carried, StartInsert, ClaimLink, At
    <2> QED
      BY <1>1, <1>3, <2>1, NamesAssumption DEF LinkOK, ExchangesEvolve
  <1> QED
    BY <1>1, <1>2, <1>3, RecordWrites

(* The exchange a scan or a claim is about to save is still there. *)
LEMMA CarriedMove ==
  ASSUME EvidenceHolds, MaterialSound, [Next]_vars, NEW h \in Handler, NEW j, j = task'[h]
  PROVE  Carried(j)'
  <1>1. /\ TypeOK /\ ExchangesEvolve /\ task \in [Task -> TaskRecord] /\ h \in Task /\ Cleaner \subseteq Task
        /\ madeFor \in [Proof -> Session \cup {None}] /\ proofRecord \in [Proof -> ProofRecord]
    BY MaterialFacts DEF TypeOK
  <1>2. CASE j.pc \notin {"start-insert", "claim-link"}
    BY <1>2 DEF Carried
  <1>3. CASE task'[h] = task[h] /\ j.pc \in {"start-insert", "claim-link"}
    <2>1. /\ j = task[h] /\ j.session \in Session /\ j.proof \in Proof /\ store[j.session].proof = None
          /\ Held(j.proof) /\ madeFor[j.proof] = j.session
      BY <1>3, MaterialFacts DEF MaterialSound, Carried
    <2>2. Held(j.proof)'
      <3> SUFFICES ASSUME ~Held(j.proof)' PROVE FALSE
        OBVIOUS
      <3>1. PICK c \in Cleaner : CleanProof(c) /\ task[c].proof = j.proof
        BY <1>1, <2>1, HeldUntilRemoved
      <3>2. task[c].session \in Session /\ store[task[c].session].proof = j.proof
        BY <1>1, <2>1, <3>1, NamesAssumption, TaskSession DEF MaterialSound, Removing, CleanProof, At
      <3>3. madeFor[j.proof] = task[c].session
        BY <2>1, <3>2, NamesAssumption DEF MaterialSound, LinkOK
      <3> QED
        BY <2>1, <3>2, <3>3, NamesAssumption
    <2>3. madeFor'[j.proof] = j.session
      BY <1>1, <2>1, NamesAssumption DEF ExchangesEvolve
    <2> QED
      BY <2>1, <2>2, <2>3, NamesAssumption DEF Carried
  <1>4. ASSUME NEW s, NEW p \in Proof, NewExchange(s, p), j.proof = p, j.session = s PROVE Carried(j)'
    <2> DEFINE r == [NoRecord EXCEPT !.state = "request-sent", !.updatedAt = clock]
    <2>1. r.state = "request-sent" /\ proofRecord' = [proofRecord EXCEPT ![p] = r]
      BY <1>4 DEF NewExchange, NoRecord
    <2> HIDE DEF r
    <2>2. Held(p)' /\ madeFor'[p] = s
      BY <1>1, <1>4, <2>1 DEF Held, NewExchange
    <2> QED
      BY <1>4, <2>2, NamesAssumption DEF Carried
  <1>5. ASSUME NEW s \in Session, NEW p \in Proof, StartSession(h, s, p) PROVE Carried(j)'
    BY <1>1, <1>4, <1>5, BegunTasks DEF StartSession
  <1>6. ASSUME NEW p \in Proof, ClaimExchange(h, p) PROVE Carried(j)'
    BY <1>1, <1>4, <1>6, BegunTasks DEF ClaimExchange
  <1>7. CASE Sync(h) \/ \E e \in events : HandleProofEvent(h, e)
    <2>1. task' = task \/ j.pc \notin {"start-insert", "claim-link"}
      BY <1>1, <1>7, SyncPc, EventPc DEF SyncEnds
    <2> QED
      BY <1>2, <1>3, <2>1
  <1> QED
    BY <1>1, <1>2, <1>3, <1>5, <1>6, <1>7, TaskMoves, NamesAssumption DEF Moves, Watched

(* A cleanup run removes the exchange of a record whose window is over. *)
LEMMA RemovingMoves ==
  ASSUME EvidenceHolds, MaterialSound, [Next]_vars, NEW c \in Cleaner,
         NEW j, j = task'[c], NEW r, r = store'[j.session]
  PROVE  Removing(j, r)'
  <1>1. /\ TypeOK /\ RecordsInv /\ StoreEvolves /\ task \in [Task -> TaskRecord] /\ c \in Task
        /\ \A s \in Session : store[s] \in SessionRecord /\ store'[s] \in SessionRecord
        /\ Removing(task[c], store[task[c].session])
    BY MaterialFacts DEF MaterialSound
  <1>2. CASE j.pc # "clean-proof"
    BY <1>2 DEF Removing
  <1>3. CASE task'[c] = task[c] /\ j.pc = "clean-proof" /\ j.proof # None
    <2>1. j = task[c] /\ j.session \in Session /\ Removing(j, store[j.session])
      BY <1>1, <1>3, TaskSession DEF At
    <2>2. /\ store[j.session].proof = j.proof /\ Over(store[j.session]) /\ Evolves(store[j.session], r)
          /\ store[j.session] \in SessionRecord /\ r \in SessionRecord
      BY <1>1, <1>3, <2>1 DEF Removing, StoreEvolves
    <2>3. Over(r)'
      BY <1>1, <2>2, OverStable
    <2>4. r.proof = j.proof
      BY <1>3, <2>2 DEF Evolves, NoSession
    <2> QED
      BY <2>3, <2>4 DEF Removing
  <1>4. CASE CleanCheck(c) /\ j.pc = "clean-proof"
    <2> DEFINE s == task[c].session
    <2>1. /\ WindowOver(task[c].seen, store[s]) /\ j.session = s /\ j.proof = store[s].proof
          /\ store' = store /\ clock' = clock /\ s \in Session
      BY <1>1, <1>4, BegunTasks, TaskSession, IdlePc DEF CleanCheck, At
    <2>2. Sound(store[s])
      BY <1>1, <2>1 DEF RecordsInv
    <2>3. Over(store[s])
      BY <2>1, <2>2 DEF WindowOver, Over, Sound
    <2> QED
      BY <2>1, <2>3 DEF Removing, Over
  <1>5. CASE Sync(c)
    BY <1>1, <1>2, <1>5, SyncPc DEF SyncEnds
  <1>6. CASE task'[c] = task[c] /\ j.proof = None
    BY <1>6 DEF Removing
  <1> QED
    BY <1>1, <1>2, <1>3, <1>4, <1>5, <1>6, TaskMoves, NamesAssumption DEF Moves, Watched

(* So a linked exchange leaves Credo after the window only. *)
LEMMA MaterialStays ==
  ASSUME EvidenceHolds, MaterialSound, [Next]_vars, NEW s \in Session,
         store'[s].proof # None, ~Held(store[s].proof)'
  PROVE  Over(store[s])'
  <1>1. /\ TypeOK /\ TypeOK' /\ RecordsInv /\ StoreEvolves /\ ExchangesEvolve
        /\ store[s] \in SessionRecord /\ store'[s] \in SessionRecord /\ Evolves(store[s], store'[s])
    BY MaterialFacts DEF StoreEvolves
  <1>2. PICK r2 : r2 = store'[s]
    OBVIOUS
  <1>3. ASSUME Over(store[s]) PROVE Over(store[s])'
    <2>1. Over(r2)'
      BY <1>1, <1>2, <1>3, OverStable
    <2> QED
      BY <1>2, <2>1 DEF Over
  <1>4. CASE store'[s].proof = store[s].proof
    <2>1. PICK p \in Proof : p = store[s].proof
      BY <1>1, <1>4 DEF SessionRecord
    <2>2. CASE Held(p)
      <3>1. PICK c \in Cleaner : CleanProof(c) /\ task[c].proof = p
        BY <1>1, <1>4, <2>1, <2>2, HeldUntilRemoved DEF Held
      <3>2. Removing(task[c], store[task[c].session]) /\ At(c, "clean-proof") /\ p # None /\ task[c].session \in Session
        BY <1>1, <2>1, <3>1, NamesAssumption, TaskSession, MaterialFacts DEF MaterialSound, CleanProof, At
      <3>3. store[task[c].session].proof = p /\ Over(store[task[c].session])
        BY <3>1, <3>2 DEF Removing, At
      <3>4. task[c].session = s
        BY <2>1, <3>2, <3>3 DEF MaterialSound, LinkOK
      <3> QED
        BY <1>3, <3>3, <3>4
    <2>3. CASE ~Held(p)
      <3>1. Over(store[s])
        BY <1>4, <2>1, <2>3 DEF MaterialSound, MaterialKept, Over
      <3> QED
        BY <1>3, <3>1
    <2> QED
      BY <2>2, <2>3
  <1>5. ASSUME NEW h \in Handler, StartInsert(h) \/ ClaimLink(h), store'[s].proof = task[h].proof PROVE FALSE
    <2>1. Held(task[h].proof) /\ proofRecord' = proofRecord
      BY <1>5 DEF MaterialSound, Carried, StartInsert, ClaimLink, At
    <2> QED
      BY <1>5, <2>1 DEF Held
  <1> QED
    BY <1>1, <1>4, <1>5, RecordWrites

(* The inductive step. *)
LEMMA NextMaterial ==
  ASSUME EvidenceHolds, MaterialSound, [Next]_vars
  PROVE  MaterialSound'
  <1>1. \A s \in Session : LinkOK(s)'
    BY LinksMove
  <1>2. ASSUME NEW h \in Handler PROVE Carried(task[h])'
    <2>1. \A j : j = task'[h] => Carried(j)'
      BY CarriedMove
    <2> QED
      BY <2>1, Zenon
  <1>3. ASSUME NEW c \in Cleaner PROVE Removing(task[c], store[task[c].session])'
    <2>1. \A j, r : j = task'[c] /\ r = store'[j.session] => Removing(j, r)'
      BY RemovingMoves
    <2> QED
      BY <2>1, Zenon
  <1>4. MaterialKept'
    BY MaterialStays DEF MaterialKept, Over
  <1> QED
    BY <1>1, <1>2, <1>3, <1>4 DEF MaterialSound

(* There is nothing to remove in the beginning. *)
LEMMA InitMaterial == Init => MaterialSound
  BY IdlePc, NamesAssumption DEF Init, MaterialSound, LinkOK, Carried, Removing, MaterialKept, NoSession, Task

(* With the layers below it. *)
MaterialHolds == EvidenceHolds /\ MaterialSound

(* They hold at first and every step keeps them. *)
LEMMA MaterialAlways == (Init => MaterialHolds) /\ (MaterialHolds /\ [Next]_vars => MaterialHolds')
  BY EvidenceAlways, InitMaterial, NextMaterial DEF MaterialHolds

(* Whatever cleanup runs, claims and polls overlap, a linked exchange       *)
(* leaves Credo only once its session is decided and its window is over.    *)
THEOREM MaterialStaysInWindow == Spec => []MaterialKept
  <1>1. MaterialHolds => MaterialKept
    BY DEF MaterialHolds, MaterialSound
  <1> QED
    BY <1>1, MaterialAlways, PTL DEF Spec

-----------------------------------------------------------------------------
(* VerificationSession implements SessionContract.  For that the times of a *)
(* verdict have to be right when it is committed, and a window that a       *)
(* cleanup run found over has to be over when it marks the session.         *)
Marks == {"clean-proof", "clean-invitation", "clean-mark"}
Stamped(j) == j.pc = "start-insert" => j.stamp \in 0 .. clock
Due(j, r) ==
  j.pc = "sync-commit" /\ IsTerminal(j.verdict.decision) /\ ~IsTerminal(r.decision) =>
    /\ j.verdict.completedAt \in 0 .. clock
    /\ j.verdict.decision = "Expired" => j.verdict.completedAt = r.expiresAt
Marking(j, r) == j.pc \in Marks => Over(r)
TimesSound ==
  /\ \A h \in Handler : Stamped(task[h])
  /\ \A t \in Task : Due(task[t], store[task[t].session])
  /\ \A c \in Cleaner : Marking(task[c], store[task[c].session])

(* Only a request that expired is decided to be expired. *)
LEMMA ExpiredInput ==
  ASSUME NEW input, EvaluateVerification(input).decision = "Expired"
  PROVE  input.expired
  BY DEF EvaluateVerification, EvaluatePresentation, Decided

(* A verdict on an undecided session takes its time from the clock, or from *)
(* the expiry that has passed.                                              *)
LEMMA VerdictTime ==
  ASSUME NEW seen \in SessionRecord, Sound(seen), seen.mode # "NONE", ~IsTerminal(seen.decision), clock \in Nat,
         NEW evidence, NEW shown, NEW v, v = SyncVerdict(seen, evidence, shown), IsTerminal(v.decision)
  PROVE  v.completedAt \in 0 .. clock /\ (v.decision = "Expired" => v.completedAt = seen.expiresAt)
  <1> DEFINE input == Evidence(seen, evidence, shown)
             evaluation == EvaluateVerification(input)
             expired == RequestExpired(seen, evidence)
             terminalAt == IF expired THEN seen.expiresAt ELSE clock
  <1>1. seen.completedAt = Never /\ seen.expiresAt \in Nat
    BY DEF Sound, SessionRecord, Moment
  <1>2. v.decision = evaluation.decision /\ v.completedAt = terminalAt
    <2> HIDE DEF evaluation, terminalAt
    <2>1. v = [decision |-> evaluation.decision, failureCode |-> evaluation.failureCode,
               attributes |-> evaluation.attributes, isVerified |-> evidence.isVerified,
               completedAt |-> IF IsTerminal(evaluation.decision) THEN terminalAt ELSE seen.completedAt,
               visibleUntil |-> IF IsTerminal(evaluation.decision) THEN terminalAt + ResultVisibility
                                ELSE seen.visibleUntil]
      BY <1>1 DEF SyncVerdict, evaluation, terminalAt
    <2> QED
      BY <2>1
  <1>3. input.expired = expired
    BY DEF Evidence
  <1> HIDE DEF input
  <1>4. v.decision = "Expired" => expired
    BY <1>2, <1>3, ExpiredInput, Zenon
  <1>5. expired => seen.expiresAt <= clock
    BY <1>1 DEF RequestExpired
  <1> HIDE DEF expired
  <1> QED
    BY <1>1, <1>2, <1>4, <1>5

(* The time a scan is asked for has come when it is saved. *)
LEMMA StampsMove ==
  ASSUME RecordsHold, TimesSound, [Next]_vars, NEW h \in Handler, NEW j, j = task'[h]
  PROVE  Stamped(j)'
  <1>1. /\ TypeOK /\ task \in [Task -> TaskRecord] /\ h \in Task /\ Cleaner \subseteq Task
        /\ clock \in Nat /\ clock' \in Nat /\ clock' >= clock
    BY ClockSteps DEF RecordsHold, ClaimInv, TypeOK, Task
  <1>2. CASE j.pc # "start-insert"
    BY <1>2 DEF Stamped
  <1>3. CASE task'[h] = task[h]
    <2>1. Stamped(j)
      BY <1>3 DEF TimesSound
    <2> QED
      BY <1>1, <2>1 DEF Stamped
  <1>4. ASSUME NEW s \in Session, NEW p \in Proof, StartSession(h, s, p) PROVE Stamped(j)'
    <2> DEFINE r == [Idle EXCEPT !.pc = "start-insert", !.session = s, !.proof = p, !.stamp = clock]
    <2>1. Begin(h, r) /\ r.stamp = clock
      BY <1>4 DEF StartSession, Idle
    <2> HIDE DEF r
    <2>2. j.stamp = clock
      BY <1>1, <2>1, OneTask
    <2> QED
      BY <1>1, <2>2 DEF Stamped
  <1>5. CASE Sync(h)
    BY <1>1, <1>2, <1>5, SyncPc DEF SyncEnds
  <1>6. ASSUME NEW e \in events, HandleProofEvent(h, e) PROVE Stamped(j)'
    BY <1>1, <1>2, <1>3, <1>6, EventPc
  <1>7. ASSUME NEW p \in Proof, ClaimExchange(h, p) PROVE Stamped(j)'
    BY <1>1, <1>2, <1>7, BegunTasks
  <1> QED
    BY <1>1, <1>2, <1>3, <1>4, <1>5, <1>6, <1>7, TaskMoves, NamesAssumption DEF Moves, Watched

(* The evaluation of a snapshot gives a verdict whose time is right for the *)
(* record as it is then.                                                    *)
LEMMA EvaluateDue ==
  ASSUME RecordsHold, NEW t \in Task, SyncEvaluate(t), NEW j, j = task'[t], NEW r, r = store'[j.session]
  PROVE  Due(j, r)'
  <1> DEFINE s == task[t].session
             seen == task[t].seen
             evidence == task[t].evidence
             shown == IF ReadsPresentation(t) THEN presentation[seen.proof] ELSE NoPresentation
             v == SyncVerdict(seen, evidence, shown)
             next == [Idle EXCEPT !.pc = "sync-commit", !.session = s, !.notify = task[t].notify, !.verdict = v]
  <1>1. /\ TypeOK /\ task \in [Task -> TaskRecord] /\ store \in [Session -> SessionRecord] /\ clock \in Nat
        /\ At(t, "sync-evaluate") /\ store' = store /\ clock' = clock
    BY DEF RecordsHold, ClaimInv, TypeOK, SyncEvaluate
  <1>2. s \in Session /\ store[s] \in SessionRecord /\ seen \in SessionRecord /\ Snapshot(seen, store[s])
    BY <1>1, TaskSession DEF At, TaskRecord, RecordsHold, RecordsInv, JobsSound, JobOK
  <1>3. CASE Finish(t)
    BY <1>1, <1>3, OneTask, IdlePc DEF Due
  <1>4. CASE Begin(t, next)
    <2>1. next.pc = "sync-commit" /\ next.session = s /\ next.verdict = v
      BY DEF Idle
    <2> HIDE DEF next, shown
    <2>2. j = next /\ r = store[s]
      BY <1>1, <1>4, <2>1, OneTask
    <2> SUFFICES ASSUME IsTerminal(v.decision), ~IsTerminal(r.decision)
                 PROVE  v.completedAt \in 0 .. clock /\ (v.decision = "Expired" => v.completedAt = r.expiresAt)
      BY <1>1, <2>1, <2>2 DEF Due
    <2>3. /\ seen.mode # "NONE" /\ Sound(seen) /\ ~IsTerminal(seen.decision)
          /\ r.expiresAt = seen.expiresAt
      BY <1>2, <2>2 DEF Snapshot, Evolves, NoSession, IsTerminal
    <2>4. v.completedAt \in 0 .. clock /\ (v.decision = "Expired" => v.completedAt = seen.expiresAt)
      <3> DEFINE w == v
      <3>1. w = SyncVerdict(seen, evidence, shown)
        OBVIOUS
      <3> QED
        BY <1>1, <1>2, <2>3, <3>1, VerdictTime
    <2> QED
      BY <2>3, <2>4
  <1> QED
    BY <1>1, <1>3, <1>4 DEF SyncEvaluate

(* It stays right until it is committed. *)
LEMMA DueMoves ==
  ASSUME RecordsHold, TimesSound, [Next]_vars, NEW t \in Task, NEW j, j = task'[t], NEW r, r = store'[j.session]
  PROVE  Due(j, r)'
  <1>1. /\ TypeOK /\ task \in [Task -> TaskRecord] /\ store \in [Session -> SessionRecord]
        /\ StoreEvolves /\ JobOK(task[t], store[task[t].session]) /\ Due(task[t], store[task[t].session])
        /\ clock \in Nat /\ clock' \in Nat /\ clock' >= clock
    BY RecordsAlways, ClockSteps DEF RecordsHold, ClaimInv, TypeOK, RecordsInv, JobsSound, TimesSound
  <1>2. CASE j.pc # "sync-commit"
    BY <1>2 DEF Due
  <1>3. CASE task'[t] = task[t] /\ j.pc = "sync-commit"
    <2>1. /\ j = task[t] /\ j.session \in Session /\ store[j.session].mode # "NONE"
          /\ Evolves(store[j.session], r) /\ Due(j, store[j.session])
      BY <1>1, <1>3, TaskSession DEF At, StoreEvolves, JobOK
    <2> SUFFICES ASSUME IsTerminal(j.verdict.decision), ~IsTerminal(r.decision)
                 PROVE  /\ j.verdict.completedAt \in 0 .. clock'
                        /\ j.verdict.decision = "Expired" => j.verdict.completedAt = r.expiresAt
      BY DEF Due
    <2>2. ~IsTerminal(store[j.session].decision) /\ r.expiresAt = store[j.session].expiresAt
      BY <2>1 DEF Evolves, NoSession, IsTerminal
    <2> QED
      BY <1>1, <1>3, <2>1, <2>2 DEF Due
  <1>4. CASE SyncEvaluate(t)
    BY <1>4, EvaluateDue
  <1>5. CASE SyncProof(t)
    <2> DEFINE next == [task[t] EXCEPT !.pc = "sync-evaluate",
                          !.evidence = IF task[t].notify THEN @
                                       ELSE IF task[t].seen.proof = None THEN NoRecord
                                            ELSE proofRecord[task[t].seen.proof]]
    <2>1. next.pc = "sync-evaluate"
      BY <1>1 DEF TaskRecord
    <2>2. Begin(t, next) \/ AfterSync(t, task[t].seen, NoVerdict)
      BY <1>5 DEF SyncProof
    <2> HIDE DEF next
    <2> QED
      BY <1>1, <1>2, <2>1, <2>2, OneTask, AfterSyncPc DEF SyncEnds
  <1>6. CASE SyncCommit(t)
    BY <1>1, <1>2, <1>6, AfterSyncPc DEF SyncCommit, SyncEnds
  <1>7. ASSUME NEW e \in events, HandleProofEvent(t, e) PROVE Due(j, r)'
    BY <1>1, <1>2, <1>3, <1>7, EventPc
  <1>8. CASE \/ \E s \in Session, p \in Proof : StartSession(t, s, p)
             \/ \E p \in Proof : ClaimExchange(t, p)
             \/ CleanCheck(t)
    BY <1>1, <1>2, <1>8, BegunTasks
  <1> QED
    BY <1>1, <1>2, <1>3, <1>4, <1>5, <1>6, <1>7, <1>8, TaskMoves DEF Moves, Sync, Watched

(* A cleanup run gets to removing and marking step by step. *)
LEMMA MarkSteps ==
  ASSUME TypeOK, [Next]_vars, NEW c \in Cleaner, task'[c].pc \in Marks
  PROVE  task'[c] = task[c] \/ CleanCheck(c) \/ CleanProof(c) \/ CleanInvitation(c)
  <1> DEFINE Goal == task'[c] = task[c] \/ CleanCheck(c) \/ CleanProof(c) \/ CleanInvitation(c)
  <1>1. /\ task \in [Task -> TaskRecord] /\ Handler \subseteq Task /\ Cleaner \subseteq Task /\ c \notin Handler
        /\ Idle.pc \notin Marks
    BY NamesAssumption, IdlePc DEF TypeOK, Task, Marks
  <1>2. ASSUME NEW t \in Task, t # c, Finish(t) \/ (\E r : Begin(t, r)) \/ (\E step : Continue(t, step))
        PROVE  Goal
    BY <1>1, <1>2, OneTask
  <1>3. ASSUME task' = task PROVE Goal
    BY <1>3
  <1>4. ASSUME NEW h \in Handler, Request(h) PROVE Goal
    <2>1. task' = task \/ Finish(h) \/ \E r : Begin(h, r)
      BY <1>4 DEF Request, StartSession, ClaimCheckout, PollStatus, HandleProofEvent
    <2> QED
      BY <1>1, <1>2, <1>3, <2>1
  <1>5. ASSUME NEW t \in Task, Sync(t) PROVE Goal
    <2>1. Finish(t) \/ \E r : Begin(t, r)
      BY <1>5 DEF Sync, SyncProof, SyncEvaluate, SyncCommit, AfterSync, AnswerReader, Disclose
    <2>2. t # c
      BY <1>1, <1>5, SyncPc DEF Marks, SyncEnds
    <2> QED
      BY <1>2, <2>1, <2>2
  <1>6. ASSUME NEW h \in Handler, HandlerStep(h) PROVE Goal
    <2>1. Sync(h) \/ Finish(h) \/ \E r : Begin(h, r)
      BY <1>6 DEF HandlerStep, StartInsert, ClaimGate, ClaimSave, ClaimLink, ClaimFail, ClaimExchange, SyncReply,
                  Answer, AnswerList, AnswerResult, Sent, Disclose
    <2> QED
      BY <1>1, <1>2, <1>5, <2>1
  <1>7. ASSUME NEW d \in Cleaner, CleanerStep(d) PROVE Goal
    <2>1. ASSUME NEW item, Visit(d, item) PROVE Goal
      <3> DEFINE r == [Idle EXCEPT !.pc = "sync-proof", !.session = item.session, !.seen = item.record]
      <3>1. Begin(d, r) /\ r.pc = "sync-proof"
        BY <2>1 DEF Visit, Idle
      <3> HIDE DEF r
      <3> QED
        BY <1>1, <1>2, <3>1, OneTask DEF Marks
    <2>2. CASE CleanCheck(d) \/ CleanProof(d) \/ CleanInvitation(d)
      <3>1. Finish(d) \/ (\E r : Begin(d, r)) \/ \E step : Continue(d, step)
        BY <2>2 DEF CleanCheck, CleanProof, CleanInvitation
      <3> QED
        BY <1>1, <1>2, <2>2, <3>1
    <2>3. CASE CleanMark(d)
      BY <1>1, <1>2, <2>3, OneTask DEF CleanMark
    <2> QED
      BY <1>1, <1>5, <1>7, <2>1, <2>2, <2>3 DEF CleanerStep, CleanupLists, CleanupContinues
  <1>8. ASSUME Trouble PROVE Goal
    <2>1. ~Restart
      BY <1>1 DEF Restart
    <2>2. ASSUME NEW t \in Task, CallFails(t) PROVE Goal
      BY <1>1, <1>2, <2>2, OneTask DEF CallFails, Marks
    <2>3. ASSUME NEW h \in Handler, NEW s \in Session, NEW p \in Proof, LeaveProofBehind(h, s, p) PROVE Goal
      BY <1>1, <1>2, <1>3, <2>3 DEF LeaveProofBehind
    <2> QED
      BY <1>8, <2>1, <2>2, <2>3 DEF Trouble, Crash, CleanupListFails
  <1>9. ASSUME \/ Tick \/ UNCHANGED vars \/ \E p \in Proof : Wallet(p)
               \/ \E s \in Session : CreateCheckoutSession(s) \/ StartSessionAgain(s)
        PROVE  Goal
    <2>1. task' = task
      BY <1>9 DEF Tick, vars, Wallet, WalletPresents, ExchangeFails, CredoCompletes, Advance,
                  CreateCheckoutSession, StartSessionAgain
    <2> QED
      BY <1>3, <2>1
  <1> QED
    BY <1>4, <1>6, <1>7, <1>8, <1>9 DEF Next

(* From the check of the window on, it is over. *)
LEMMA MarkingMoves ==
  ASSUME RecordsHold, TimesSound, [Next]_vars, NEW c \in Cleaner,
         NEW j, j = task'[c], NEW r, r = store'[j.session]
  PROVE  Marking(j, r)'
  <1>1. /\ TypeOK /\ StoreEvolves /\ RecordsInv /\ task \in [Task -> TaskRecord] /\ c \in Task
        /\ \A s \in Session : store[s] \in SessionRecord /\ store'[s] \in SessionRecord
        /\ Marking(task[c], store[task[c].session])
    BY RecordsAlways DEF RecordsHold, ClaimInv, TypeOK, TimesSound, Task
  <1> SUFFICES ASSUME j.pc \in Marks PROVE Over(r)'
    BY DEF Marking
  <1>2. ASSUME task[c].pc \in Marks, j.session = task[c].session PROVE Over(r)'
    <2>1. j.session \in Session /\ Over(store[j.session])
      BY <1>1, <1>2, TaskSession DEF At, Marks, Marking
    <2>2. Evolves(store[j.session], r) /\ store[j.session] \in SessionRecord /\ r \in SessionRecord
      BY <1>1, <2>1 DEF StoreEvolves
    <2> QED
      BY <1>1, <2>1, <2>2, OverStable
  <1>3. CASE task'[c] = task[c]
    BY <1>2, <1>3
  <1>4. CASE CleanProof(c) \/ CleanInvitation(c)
    <2>1. task[c].pc \in Marks
      BY <1>4 DEF CleanProof, CleanInvitation, At, Marks
    <2>2. j.session = task[c].session
      BY <1>1, <1>4, OneTask DEF CleanProof, CleanInvitation
    <2> QED
      BY <1>2, <2>1, <2>2
  <1>5. CASE CleanCheck(c)
    <2> DEFINE s == task[c].session
    <2>1. /\ WindowOver(task[c].seen, store[s]) /\ j.session = s
          /\ store' = store /\ clock' = clock /\ s \in Session
      BY <1>1, <1>5, BegunTasks, TaskSession DEF CleanCheck, At, Marks
    <2>2. Sound(store[s])
      BY <1>1, <2>1 DEF RecordsInv
    <2>3. Over(store[s])
      BY <2>1, <2>2 DEF WindowOver, Over, Sound
    <2> QED
      BY <2>1, <2>3 DEF Over
  <1> QED
    BY <1>1, <1>3, <1>4, <1>5, MarkSteps

(* The inductive step. *)
LEMMA NextTimes ==
  ASSUME RecordsHold, TimesSound, [Next]_vars
  PROVE  TimesSound'
  <1>1. ASSUME NEW h \in Handler PROVE Stamped(task[h])'
    <2>1. \A j : j = task'[h] => Stamped(j)'
      BY StampsMove
    <2> QED
      BY <2>1, Zenon
  <1>2. ASSUME NEW t \in Task PROVE Due(task[t], store[task[t].session])'
    <2>1. \A j, r : j = task'[t] /\ r = store'[j.session] => Due(j, r)'
      BY DueMoves
    <2> QED
      BY <2>1, Zenon
  <1>3. ASSUME NEW c \in Cleaner PROVE Marking(task[c], store[task[c].session])'
    <2>1. \A j, r : j = task'[c] /\ r = store'[j.session] => Marking(j, r)'
      BY MarkingMoves
    <2> QED
      BY <2>1, Zenon
  <1> QED
    BY <1>1, <1>2, <1>3 DEF TimesSound

(* Nothing is under way in the beginning. *)
LEMMA InitTimes == Init => TimesSound
  BY IdlePc DEF Init, TimesSound, Stamped, Due, Marking, Marks, Task

(* What the refinement rests on: the notices and the proof material with    *)
(* their layers, and the times.                                             *)
PromisesHold == NoticesHold /\ MaterialHolds /\ TimesSound

(* They hold at first and every step keeps them. *)
LEMMA PromisesAlways == (Init => PromisesHold) /\ (PromisesHold /\ [Next]_vars => PromisesHold')
  BY NoticesAlways, MaterialAlways, InitTimes, NextTimes DEF PromisesHold, NoticesHold

(* The state the contract sees, and a step it does not see.                 *)
PublicView == [s \in Session |-> Public(store[s])]
Stutters == UNCHANGED <<clock, PublicView, webhooks>>

(* What the other layers say of the session a handler or cleaner works on.  *)
LEMMA PromiseFacts ==
  ASSUME PromisesHold
  PROVE  /\ TypeOK /\ RecordsHold /\ ClaimOwnership /\ ClaimsOpen
         /\ task \in [Task -> TaskRecord] /\ Handler \subseteq Task /\ Cleaner \subseteq Task /\ clock \in Nat
         /\ store \in [Session -> SessionRecord] /\ \A s \in Session : Sound(store[s])
         /\ \A t \in Task : ~At(t, "idle") =>
              /\ task[t].session \in Session /\ store[task[t].session] \in SessionRecord
              /\ JobOK(task[t], store[task[t].session])
  <1>1. /\ TypeOK /\ RecordsHold /\ ClaimOwnership /\ ClaimsOpen /\ JobsSound
        /\ \A s \in Session : Sound(store[s])
    BY DEF PromisesHold, NoticesHold, RecordsHold, ClaimInv, RecordsInv
  <1> QED
    BY <1>1, TaskSession DEF TypeOK, Task, JobsSound

(* What the contract knows of a record, field by field. *)
Known(kind, claimed, exchange, expiresAt, decision, completedAt, visibleUntil, removed) ==
  [kind |-> kind, claimed |-> claimed, exchange |-> exchange, expiresAt |-> expiresAt, decision |-> decision,
   completedAt |-> completedAt, visibleUntil |-> visibleUntil, removed |-> removed]

(* What the writers of a record change of it. *)
LEMMA PublicChanges ==
  ASSUME NEW r \in SessionRecord, NEW new
  PROVE  /\ \A stamp : stamp # Never /\ new = [r EXCEPT !.claimedAt = stamp] =>
              Public(new) = [Public(r) EXCEPT !.claimed = TRUE]
         /\ \A p : new = [r EXCEPT !.proof = p] => Public(new) = [Public(r) EXCEPT !.exchange = p]
         /\ new = [r EXCEPT !.removed = TRUE] => Public(new) = [Public(r) EXCEPT !.removed = TRUE]
  <1> DEFINE c == r.claimedAt # Never
  <1>1. \A y : /\ [Public(r) EXCEPT !.claimed = y] =
                    Known(r.mode, y, r.proof, r.expiresAt, r.decision, r.completedAt, r.visibleUntil, r.removed)
               /\ [Public(r) EXCEPT !.exchange = y] =
                    Known(r.mode, c, y, r.expiresAt, r.decision, r.completedAt, r.visibleUntil, r.removed)
               /\ [Public(r) EXCEPT !.removed = y] =
                    Known(r.mode, c, r.proof, r.expiresAt, r.decision, r.completedAt, r.visibleUntil, y)
    BY DEF Public, Known
  <1>2. ASSUME NEW stamp, stamp # Never, new = [r EXCEPT !.claimedAt = stamp]
        PROVE  Public(new) = [Public(r) EXCEPT !.claimed = TRUE]
    <2>1. Public(new) = Known(r.mode, TRUE, r.proof, r.expiresAt, r.decision, r.completedAt, r.visibleUntil, r.removed)
      BY <1>2 DEF Public, Known, SessionRecord
    <2> QED
      BY <1>1, <2>1, Zenon
  <1>3. ASSUME NEW p, new = [r EXCEPT !.proof = p] PROVE Public(new) = [Public(r) EXCEPT !.exchange = p]
    <2>1. Public(new) = Known(r.mode, c, p, r.expiresAt, r.decision, r.completedAt, r.visibleUntil, r.removed)
      BY <1>3 DEF Public, Known, SessionRecord
    <2> QED
      BY <1>1, <2>1, Zenon
  <1>4. ASSUME new = [r EXCEPT !.removed = TRUE] PROVE Public(new) = [Public(r) EXCEPT !.removed = TRUE]
    <2>1. Public(new) = Known(r.mode, c, r.proof, r.expiresAt, r.decision, r.completedAt, r.visibleUntil, TRUE)
      BY <1>4 DEF Public, Known, SessionRecord
    <2> QED
      BY <1>1, <2>1, Zenon
  <1> QED
    BY <1>2, <1>3, <1>4, Zenon

(* A decision changes several fields of what is known. *)
DecidedTo(known, d, at, until, new) ==
  new = [known EXCEPT !.decision = d, !.completedAt = at, !.visibleUntil = until]

(* The end of a claim changes two. *)
LEMMA PublicEnded ==
  ASSUME NEW r, NEW d, NEW at
  PROVE  [Public(r) EXCEPT !.decision = d, !.completedAt = at] =
           Known(r.mode, r.claimedAt # Never, r.proof, r.expiresAt, d, at, r.visibleUntil, r.removed)
  <1> DEFINE After(a) == Known(r.mode, r.claimedAt # Never, r.proof, r.expiresAt, d, a, r.visibleUntil, r.removed)
  <1>1. [Public(r) EXCEPT !.decision = d] = After(r.completedAt)
    BY DEF Public, Known
  <1>2. [After(r.completedAt) EXCEPT !.completedAt = at] = After(at)
    BY DEF Known
  <1>3. \A x, y, z : x = y /\ [y EXCEPT !.completedAt = at] = z => [x EXCEPT !.completedAt = at] = z
    BY Zenon
  <1> HIDE DEF After
  <1>4. [Public(r) EXCEPT !.decision = d, !.completedAt = at] = After(at)
    BY <1>1, <1>2, <1>3, Zenon
  <1> QED
    BY <1>4 DEF After

(* A verdict changes three. *)
LEMMA PublicDecides ==
  ASSUME NEW r, NEW new, NEW d, NEW at, NEW until,
         new.mode = r.mode, new.claimedAt = r.claimedAt, new.proof = r.proof, new.expiresAt = r.expiresAt,
         new.decision = d, new.completedAt = at, new.visibleUntil = until, new.removed = r.removed
  PROVE  DecidedTo(Public(r), d, at, until, Public(new))
  <1> DEFINE After(u) == Known(r.mode, r.claimedAt # Never, r.proof, r.expiresAt, d, at, u, r.removed)
             ended == [Public(r) EXCEPT !.decision = d, !.completedAt = at]
  <1>1. Public(new) = After(until)
    BY DEF Public, Known
  <1>2. ended = After(r.visibleUntil)
    BY PublicEnded, Zenon
  <1>3. [After(r.visibleUntil) EXCEPT !.visibleUntil = until] = After(until)
    BY DEF Known
  <1> HIDE DEF After
  <1>4. \A x, y : x = y => [x EXCEPT !.visibleUntil = until] = [y EXCEPT !.visibleUntil = until]
    BY Zenon
  <1>5. [ended EXCEPT !.visibleUntil = until] = Public(new)
    <2> HIDE DEF ended
    <2> QED
      BY <1>1, <1>2, <1>3, <1>4, Zenon
  <1> QED
    BY <1>5, Zenon DEF DecidedTo

(* What a failed claim makes of the record. *)
LEMMA PublicFailed ==
  ASSUME NEW r \in SessionRecord
  PROVE  Public(FailedClaim(r)) = [Public(r) EXCEPT !.decision = "Failed", !.completedAt = clock]
  <1>1. Public(FailedClaim(r)) =
            Known(r.mode, r.claimedAt # Never, r.proof, r.expiresAt, "Failed", clock, r.visibleUntil, r.removed)
    BY DEF FailedClaim, Public, Known, SessionRecord
  <1>2. [Public(r) EXCEPT !.decision = "Failed", !.completedAt = clock] =
            Known(r.mode, r.claimedAt # Never, r.proof, r.expiresAt, "Failed", clock, r.visibleUntil, r.removed)
    BY PublicEnded, Zenon
  <1> QED
    BY <1>1, <1>2

(* What the request for a session makes of none. *)
LEMMA PublicAsked ==
  ASSUME NEW k, NEW p, NEW at
  PROVE  /\ [Contract!Unasked EXCEPT !.kind = k, !.expiresAt = at] =
              Known(k, FALSE, None, at, "Pending", Never, Never, FALSE)
         /\ [Contract!Unasked EXCEPT !.kind = k, !.exchange = p, !.expiresAt = at] =
              Known(k, FALSE, p, at, "Pending", Never, Never, FALSE)
  <1>1. PICK no, d, n, z : no = FALSE /\ d = "Pending" /\ n = Never /\ z = "NONE"
    BY Zenon
  <1> DEFINE After(l, q, a) == Known(l, no, q, a, d, n, n, no)
  <1>2. Contract!Unasked = After(z, None, n)
    BY <1>1 DEF Contract!Unasked, Contract!Never, Never, Known
  <1>3. /\ [After(z, None, n) EXCEPT !.kind = k] = After(k, None, n)
        /\ [After(k, None, n) EXCEPT !.exchange = p] = After(k, p, n)
        /\ \A q : [After(k, q, n) EXCEPT !.expiresAt = at] = After(k, q, at)
    BY DEF Known
  <1>4. \A u, x, y, w : u = x /\ [x EXCEPT !.kind = k] = y =>
          /\ [u EXCEPT !.kind = k, !.expiresAt = at] = [y EXCEPT !.expiresAt = at]
          /\ [y EXCEPT !.exchange = p] = w =>
               [u EXCEPT !.kind = k, !.exchange = p, !.expiresAt = at] = [w EXCEPT !.expiresAt = at]
    BY Zenon
  <1> HIDE DEF After
  <1>5. /\ [Contract!Unasked EXCEPT !.kind = k, !.expiresAt = at] = After(k, None, at)
        /\ [Contract!Unasked EXCEPT !.kind = k, !.exchange = p, !.expiresAt = at] = After(k, p, at)
    BY <1>2, <1>3, <1>4, Zenon
  <1> QED
    BY <1>1, <1>5 DEF After

(* A step that saves one record changes one session. *)
LEMMA OnePublicChange ==
  ASSUME TypeOK, NEW s \in Session, NEW new, store' = [store EXCEPT ![s] = new], UNCHANGED <<clock, webhooks>>
  PROVE  Contract!Become(s, Public(new))
  <1>1. store \in [Session -> SessionRecord]
    BY DEF TypeOK
  <1>2. [x \in Session |-> Public(store'[x])] = [[x \in Session |-> Public(store[x])] EXCEPT ![s] = Public(new)]
    BY <1>1
  <1> QED
    BY <1>2 DEF Contract!Become

(* Most steps change nothing that anybody relies on. *)
LEMMA VisibleSteps ==
  ASSUME TypeOK, [Next]_vars
  PROVE  \/ UNCHANGED <<clock, store, webhooks>> \/ Tick
         \/ \E s \in Session : CreateCheckoutSession(s)
         \/ \E h \in Handler : StartInsert(h) \/ ClaimSave(h) \/ ClaimLink(h) \/ ClaimFail(h) \/ SyncReply(h)
         \/ \E t \in Task : SyncCommit(t)
         \/ \E c \in Cleaner : CleanMark(c)
  BY ClockMoves, RecordSteps, WebhookSteps

(* A checkout is asked for. *)
LEMMA AskCheckoutStep ==
  ASSUME PromisesHold, NEW s \in Session, CreateCheckoutSession(s)
  PROVE  Contract!AskCheckout(s)
  <1> DEFINE new == [NoSession EXCEPT !.mode = "CHECKOUT", !.expiresAt = clock + SessionTtl]
  <1>1. store[s] = NoSession
    BY PromiseFacts DEF CreateCheckoutSession, Exists, Sound
  <1>2. Contract!Become(s, Public(new))
    BY PromiseFacts, OnePublicChange DEF CreateCheckoutSession
  <1>3. Public(NoSession) = Contract!Unasked
    BY DEF Public, NoSession, Contract!Unasked, Contract!Never, Never
  <1>4. Public(new) = [Contract!Unasked EXCEPT !.kind = "CHECKOUT", !.expiresAt = clock + SessionTtl]
    <2>1. Public(new) = Known("CHECKOUT", FALSE, None, clock + SessionTtl, "Pending", Never, Never, FALSE)
      BY DEF Public, NoSession, Known
    <2>2. [Contract!Unasked EXCEPT !.kind = "CHECKOUT", !.expiresAt = clock + SessionTtl] =
            Known("CHECKOUT", FALSE, None, clock + SessionTtl, "Pending", Never, Never, FALSE)
      BY PublicAsked, Zenon
    <2> QED
      BY <2>1, <2>2, Zenon
  <1> HIDE DEF new
  <1> QED
    BY <1>1, <1>2, <1>3, <1>4 DEF Contract!AskCheckout

(* No other session has the exchange a scan or a claim is about to save. *)
LEMMA ExchangeIsNew ==
  ASSUME PromisesHold, NEW h \in Handler, task[h].pc \in {"start-insert", "claim-link"}
  PROVE  task[h].proof \in Proof /\ Contract!Unlinked(task[h].proof)
  <1> DEFINE s == task[h].session
             p == task[h].proof
  <1>1. /\ p \in Proof /\ s \in Session /\ madeFor[p] = s /\ \A x \in Session : LinkOK(x)
        /\ (task[h].pc = "start-insert" => ~Exists(s)) /\ (task[h].pc = "claim-link" => Open(store[s]))
    <2>1. task[h] \in TaskRecord /\ h \in Task /\ ~At(h, "idle")
      BY PromiseFacts DEF At
    <2>2. p \in Proof /\ s \in Session
      BY <2>1, PromiseFacts DEF TaskRecord
    <2>3. madeFor[p] = s /\ \A x \in Session : LinkOK(x)
      BY DEF PromisesHold, MaterialHolds, MaterialSound, Carried
    <2>4. (task[h].pc = "start-insert" => ~Exists(s)) /\ (task[h].pc = "claim-link" => Open(store[s]))
      BY PromiseFacts DEF ClaimsOpen, ClaimOpen, StartFresh, Claiming, At
    <2> QED
      BY <2>2, <2>3, <2>4
  <1>2. store[s].proof = None
    BY <1>1, PromiseFacts DEF Exists, Sound, NoSession, Open, Unlinked
  <1>3. \A x \in Session : store[x].proof # p
    BY <1>1, <1>2, NamesAssumption DEF LinkOK
  <1>4. \A x \in Session : Public(store[x]).exchange = store[x].proof
    BY DEF Public
  <1> QED
    BY <1>1, <1>3, <1>4 DEF Contract!Unlinked

(* A scan is asked for, with its exchange. *)
LEMMA AskScanStep ==
  ASSUME PromisesHold, NEW h \in Handler, StartInsert(h)
  PROVE  \E s \in Session, e \in Proof : Contract!AskScan(s, e)
  <1> DEFINE s == task[h].session
             p == task[h].proof
             asked == task[h].stamp
             new == [NoSession EXCEPT !.mode = "STATIC", !.proof = p, !.expiresAt = asked + SessionTtl]
  <1>1. /\ s \in Session /\ store[s] = NoSession /\ asked \in 0 .. clock
        /\ p \in Proof /\ Contract!Unlinked(p)
    <2>1. task[h].pc = "start-insert" /\ h \in Task
      BY PromiseFacts DEF StartInsert, At
    <2>2. s \in Session
      BY <2>1, PromiseFacts DEF At
    <2>3. ~Exists(s) /\ asked \in 0 .. clock
      BY <2>1, PromiseFacts DEF ClaimsOpen, StartFresh, At, PromisesHold, TimesSound, Stamped
    <2> QED
      BY <2>1, <2>2, <2>3, PromiseFacts, ExchangeIsNew DEF Exists, Sound
  <1>2. Contract!Become(s, Public(new))
    BY <1>1, PromiseFacts, OnePublicChange DEF StartInsert
  <1>3. Public(NoSession) = Contract!Unasked
    BY DEF Public, NoSession, Contract!Unasked, Contract!Never, Never
  <1>4. Public(new) =
          [Contract!Unasked EXCEPT !.kind = "STATIC", !.exchange = p, !.expiresAt = asked + SessionTtl]
    <2>1. Public(new) = Known("STATIC", FALSE, p, asked + SessionTtl, "Pending", Never, Never, FALSE)
      BY DEF Public, NoSession, Known
    <2>2. [Contract!Unasked EXCEPT !.kind = "STATIC", !.exchange = p, !.expiresAt = asked + SessionTtl] =
            Known("STATIC", FALSE, p, asked + SessionTtl, "Pending", Never, Never, FALSE)
      BY PublicAsked, Zenon
    <2> QED
      BY <2>1, <2>2, Zenon
  <1> HIDE DEF new
  <1>5. Contract!AskScan(s, p)
    BY <1>1, <1>2, <1>3, <1>4 DEF Contract!AskScan
  <1> QED
    BY <1>1, <1>5

(* A checkout is claimed, once. *)
LEMMA ClaimStep ==
  ASSUME PromisesHold, NEW h \in Handler, ClaimSave(h)
  PROVE  Stutters \/ \E s \in Session : Contract!Claim(s)
  <1> DEFINE s == task[h].session
             r == store[s]
             new == [r EXCEPT !.claimedAt = task[h].stamp]
  <1>1. /\ s \in Session /\ r \in SessionRecord /\ r.mode = "CHECKOUT" /\ task[h].stamp # Never
        /\ UNCHANGED <<clock, webhooks>>
    BY PromiseFacts DEF ClaimSave, At, ClaimOwnership
  <1>2. CASE store' = store
    BY <1>1, <1>2 DEF Stutters, PublicView
  <1>3. CASE r.claimedAt = Never /\ store' = [store EXCEPT ![s] = new]
    <2>1. Contract!Become(s, Public(new))
      BY <1>1, <1>3, PromiseFacts, OnePublicChange
    <2>2. Public(r).kind = "CHECKOUT" /\ Public(r).claimed = FALSE
      BY <1>1, <1>3 DEF Public
    <2>3. Public(new) = [Public(r) EXCEPT !.claimed = TRUE]
      BY <1>1, PublicChanges, Zenon
    <2>4. Contract!Claim(s)
      BY <1>1, <2>1, <2>2, <2>3 DEF Contract!Claim
    <2> QED
      BY <1>1, <2>4
  <1>4. store' = store \/ (r.claimedAt = Never /\ store' = [store EXCEPT ![s] = new])
    BY DEF ClaimSave, MayClaim
  <1> QED
    BY <1>2, <1>3, <1>4

(* A claim under way may be finished or may fail. *)
LEMMA ClaimableNow ==
  ASSUME PromisesHold, NEW h \in Handler, Claiming(h)
  PROVE  /\ task[h].session \in Session /\ store[task[h].session] \in SessionRecord
         /\ Contract!Claimable(task[h].session)
  <1> DEFINE s == task[h].session
             r == store[s]
  <1>1. s \in Session /\ r \in SessionRecord /\ r.claimedAt # Never /\ Open(r)
    BY PromiseFacts DEF Claiming, At, ClaimOwnership, ClaimsOpen, ClaimOpen
  <1>2. Public(r).claimed /\ Public(r).exchange = None /\ Public(r).decision \in {"Pending", "Expired"}
    BY <1>1 DEF Public, Open, Unlinked
  <1> QED
    BY <1>1, <1>2 DEF Contract!Claimable

(* It links its exchange. *)
LEMMA LinkStep ==
  ASSUME PromisesHold, NEW h \in Handler, ClaimLink(h)
  PROVE  \E s \in Session, e \in Proof : Contract!Link(s, e)
  <1> DEFINE s == task[h].session
             p == task[h].proof
             new == [store[s] EXCEPT !.proof = p]
  <1>1. /\ s \in Session /\ store[s] \in SessionRecord /\ Contract!Claimable(s)
        /\ p \in Proof /\ Contract!Unlinked(p)
    BY ClaimableNow, ExchangeIsNew DEF ClaimLink, At, Claiming
  <1>2. store' = [store EXCEPT ![s] = new] /\ UNCHANGED <<clock, webhooks>>
    BY DEF ClaimLink
  <1>3. Contract!Become(s, Public(new))
    BY <1>1, <1>2, PromiseFacts, OnePublicChange
  <1>4. Public(new) = [Public(store[s]) EXCEPT !.exchange = p]
    BY <1>1, PublicChanges, Zenon
  <1>5. Contract!Link(s, p)
    BY <1>1, <1>3, <1>4 DEF Contract!Link
  <1> QED
    BY <1>1, <1>5

(* Or it fails the session. *)
LEMMA FailClaimStep ==
  ASSUME PromisesHold, NEW h \in Handler, ClaimFail(h)
  PROVE  \E s \in Session : Contract!FailClaim(s)
  <1> DEFINE s == task[h].session
             new == FailedClaim(store[s])
  <1>1. s \in Session /\ store[s] \in SessionRecord /\ Contract!Claimable(s)
    BY ClaimableNow DEF ClaimFail, At, Claiming
  <1>2. Contract!Become(s, Public(new))
    BY <1>1, PromiseFacts, OnePublicChange DEF ClaimFail
  <1>3. Public(new) = [Public(store[s]) EXCEPT !.decision = "Failed", !.completedAt = clock]
    BY <1>1, PublicFailed
  <1>4. Contract!FailClaim(s)
    BY <1>1, <1>2, <1>3 DEF Contract!FailClaim
  <1> QED
    BY <1>1, <1>4

(* A commit decides the session, unless it is decided or nothing is known. *)
LEMMA DecideStep ==
  ASSUME PromisesHold, NEW t \in Task, SyncCommit(t)
  PROVE  Stutters \/ \E s \in Session : \E outcome \in Contract!Outcome, at \in 0 .. clock : Contract!Decide(s, outcome, at)
  <1> DEFINE s == task[t].session
             r == store[s]
             v == task[t].verdict
             new == ApplyVerdict(r, v)
  <1>1. /\ s \in Session /\ r \in SessionRecord /\ Sound(r) /\ JobOK(task[t], r) /\ task[t].pc = "sync-commit"
        /\ store' = [store EXCEPT ![s] = new] /\ UNCHANGED <<clock, webhooks>>
        /\ store \in [Session -> SessionRecord] /\ v \in Verdict /\ Due(task[t], r)
    BY PromiseFacts DEF SyncCommit, At, TaskRecord, PromisesHold, TimesSound
  <1>2. CASE IsTerminal(r.decision)
    <2>1. store' = store
      BY <1>1, <1>2 DEF ApplyVerdict
    <2> QED
      BY <1>1, <2>1 DEF Stutters, PublicView
  <1>3. CASE ~IsTerminal(r.decision)
    <2>1. r.mode # "NONE" /\ Fits(v, r) /\ r.completedAt = Never /\ r.visibleUntil = Never /\ r.decision = "Pending"
      BY <1>1, <1>3 DEF JobOK, Sound, SessionRecord, Decision, IsTerminal
    <2>2. /\ new.mode = r.mode /\ new.claimedAt = r.claimedAt /\ new.proof = r.proof
          /\ new.expiresAt = r.expiresAt /\ new.removed = r.removed
          /\ new.decision = v.decision
          /\ new.completedAt = IF v.completedAt = Never THEN r.completedAt ELSE v.completedAt
          /\ new.visibleUntil = IF v.visibleUntil = Never THEN r.visibleUntil ELSE v.visibleUntil
      BY <1>1, <1>3 DEF SessionRecord, ApplyVerdict
    <2> HIDE DEF new
    <2>3. new.completedAt = v.completedAt /\ new.visibleUntil = v.visibleUntil
      BY <2>1, <2>2
    <2>4. CASE ~IsTerminal(v.decision)
      <3>1. v.decision = "Pending" /\ v.completedAt = Never /\ v.visibleUntil = Never
        BY <1>1, <2>1, <2>4 DEF Fits, Verdict, Decision, IsTerminal
      <3>2. Public(new) = Public(r)
        BY <2>1, <2>2, <2>3, <3>1 DEF Public
      <3>3. \A x \in Session : Public(store'[x]) = Public(store[x])
        BY <1>1, <3>2
      <3> QED
        BY <1>1, <3>3 DEF Stutters, PublicView
    <2>5. CASE IsTerminal(v.decision)
      <3> DEFINE at == v.completedAt
      <3>1. /\ at \in 0 .. clock /\ v.decision \in Contract!Outcome /\ v.visibleUntil = at + ResultVisibility
            /\ v.decision = "Expired" => at = r.expiresAt
        BY <1>1, <1>3, <2>1, <2>5 DEF Due, Fits, Contract!Outcome, IsTerminal, Verdict, Decision, Terminal
      <3>2. r.proof = None => v.decision = "Expired"
        BY <1>1, <2>1, <2>5 DEF Fits, Unlinked, SessionRecord, IsTerminal
      <3>3. Public(new) = [Public(r) EXCEPT !.decision = v.decision, !.completedAt = at,
                                            !.visibleUntil = at + ResultVisibility]
        <4>1. DecidedTo(Public(r), v.decision, at, at + ResultVisibility, Public(new))
          BY <2>2, <2>3, <3>1, PublicDecides
        <4> QED
          BY <4>1, Zenon DEF DecidedTo
      <3>4. Contract!Become(s, Public(new))
        BY <1>1, PromiseFacts, OnePublicChange
      <3>5. /\ Public(r).kind # "NONE" /\ Public(r).decision = "Pending"
            /\ Public(r).exchange = r.proof /\ Public(r).expiresAt = r.expiresAt
        BY <2>1 DEF Public
      <3>6. Contract!Decide(s, v.decision, at)
        BY <1>1, <3>1, <3>2, <3>3, <3>4, <3>5 DEF Contract!Decide
      <3> QED
        BY <1>1, <3>1, <3>6
    <2> QED
      BY <2>4, <2>5
  <1> QED
    BY <1>2, <1>3

(* Cleanup marks a session whose window is over. *)
LEMMA RemoveStep ==
  ASSUME PromisesHold, NEW c \in Cleaner, CleanMark(c)
  PROVE  \E s \in Session : Contract!Remove(s)
  <1> DEFINE s == task[c].session
             new == [store[s] EXCEPT !.removed = TRUE]
  <1>1. s \in Session /\ store[s] \in SessionRecord /\ Over(store[s])
    BY PromiseFacts DEF CleanMark, At, PromisesHold, TimesSound, Marking, Marks
  <1>2. Contract!Become(s, Public(new))
    BY <1>1, PromiseFacts, OnePublicChange DEF CleanMark
  <1>3. Public(new) = [Public(store[s]) EXCEPT !.removed = TRUE]
    BY <1>1, PublicChanges, Zenon
  <1>4. Public(store[s]).visibleUntil # Contract!Never /\ Public(store[s]).visibleUntil <= clock
    <2>1. store[s].visibleUntil \in Int /\ clock \in Int
      BY <1>1, PromiseFacts DEF SessionRecord, Moment, Never
    <2> QED
      BY <1>1, <2>1 DEF Over, Public, Contract!Never, Never
  <1>5. Contract!Remove(s)
    BY <1>1, <1>2, <1>3, <1>4 DEF Contract!Remove
  <1> QED
    BY <1>1, <1>5

(* The portal hears what is saved, and of the fields in the window. *)
LEMMA TellStep ==
  ASSUME PromisesHold, NEW h \in Handler, SyncReply(h)
  PROVE  Stutters \/ \E s \in Session : \E attributes \in BOOLEAN : Contract!Tell(s, attributes)
  <1> DEFINE s == task[h].session
             seen == task[h].seen
             r == store[s]
             shows == task[h].verdict.attributes /\ DetailsVisible(seen)
  <1>1. /\ task[h].pc = "sync-reply" /\ s \in Session /\ r \in SessionRecord /\ Sound(r) /\ NoticeOK(task[h], r)
        /\ UNCHANGED <<clock, store>>
    BY PromiseFacts DEF SyncReply, At, PromisesHold, NoticesHold, NoticesSound
  <1>2. /\ r.proof # None /\ IsTerminal(r.decision) /\ seen.decision = r.decision
        /\ seen.completedAt = r.completedAt /\ seen.visibleUntil = r.visibleUntil
    BY <1>1 DEF NoticeOK, Told
  <1>3. shows => clock < r.visibleUntil
    BY <1>1, <1>2, WindowSet DEF DetailsVisible
  <1>4. shows \in BOOLEAN
    OBVIOUS
  <1>5. CASE webhooks' = webhooks
    BY <1>1, <1>5 DEF Stutters, PublicView
  <1>6. CASE webhooks' = webhooks \cup {[session |-> s, decision |-> seen.decision,
                                         completedAt |-> seen.completedAt, attributes |-> shows]}
    <2> HIDE DEF shows
    <2>1. /\ Public(r).exchange = r.proof /\ Public(r).decision = r.decision
          /\ Public(r).completedAt = r.completedAt /\ Public(r).visibleUntil = r.visibleUntil
      BY DEF Public
    <2>2. webhooks' = webhooks \cup {[session |-> s, decision |-> Public(r).decision,
                                      completedAt |-> Public(r).completedAt, attributes |-> shows]}
      BY <1>2, <1>6, <2>1
    <2>3. Public(r).exchange # None /\ Public(r).decision # "Pending" /\ (shows => clock < Public(r).visibleUntil)
      BY <1>2, <1>3, <2>1 DEF IsTerminal, Terminal
    <2>4. Contract!Tell(s, shows)
      BY <1>1, <2>2, <2>3 DEF Contract!Tell
    <2> QED
      BY <1>1, <1>4, <2>4
  <1> QED
    BY <1>5, <1>6 DEF SyncReply

(* Every step is a step of the contract, or none. *)
LEMMA NextContract ==
  ASSUME PromisesHold, [Next]_vars
  PROVE  Contract!Next \/ Stutters
  <1>1. CASE UNCHANGED <<clock, store, webhooks>>
    BY <1>1 DEF Stutters, PublicView
  <1>2. CASE Tick
    <2>1. Contract!Tick
      BY <1>2 DEF Tick, Contract!Tick
    <2> QED
      BY <2>1 DEF Contract!Next
  <1>3. ASSUME NEW s \in Session, CreateCheckoutSession(s) PROVE Contract!Next
    BY <1>3, AskCheckoutStep DEF Contract!Next
  <1>4. ASSUME NEW h \in Handler, StartInsert(h) PROVE Contract!Next
    BY <1>4, AskScanStep DEF Contract!Next
  <1>5. ASSUME NEW h \in Handler, ClaimSave(h) PROVE Contract!Next \/ Stutters
    BY <1>5, ClaimStep DEF Contract!Next
  <1>6. ASSUME NEW h \in Handler, ClaimLink(h) PROVE Contract!Next
    BY <1>6, LinkStep DEF Contract!Next
  <1>7. ASSUME NEW h \in Handler, ClaimFail(h) PROVE Contract!Next
    BY <1>7, FailClaimStep DEF Contract!Next
  <1>8. ASSUME NEW h \in Handler, SyncReply(h) PROVE Contract!Next \/ Stutters
    BY <1>8, TellStep DEF Contract!Next
  <1>9. ASSUME NEW t \in Task, SyncCommit(t) PROVE Contract!Next \/ Stutters
    BY <1>9, DecideStep DEF Contract!Next
  <1>10. ASSUME NEW c \in Cleaner, CleanMark(c) PROVE Contract!Next
    BY <1>10, RemoveStep DEF Contract!Next
  <1> QED
    BY <1>1, <1>2, <1>3, <1>4, <1>5, <1>6, <1>7, <1>8, <1>9, <1>10, PromiseFacts, VisibleSteps

(* Nobody has asked for anything in the beginning. *)
LEMMA InitContract == Init => Contract!Init
  <1>1. Public(NoSession) = Contract!Unasked
    BY DEF Public, NoSession, Contract!Unasked, Contract!Never, Never
  <1> QED
    BY <1>1 DEF Init, Contract!Init

(* However the requests, events and cleanup runs of all sessions interleave,*)
(* fail or are cut off by a crash, each session changes as its contract     *)
(* allows: one exchange, one decision, no exchange of another session, and  *)
(* removal and disclosure on the right side of the window.                  *)
THEOREM SessionImplementsContract == Spec => ImplementsSessionContract
  <1>1. PromisesHold /\ [Next]_vars => [Contract!Next]_<<clock, [s \in Session |-> Public(store[s])], webhooks>>
    BY NextContract DEF Stutters, PublicView
  <1> QED
    BY <1>1, PromisesAlways, InitContract, PTL DEF Spec, ImplementsSessionContract, Contract!Spec
=============================================================================
