---------------------- MODULE CredentialLifecycleProofs ----------------------
(***************************************************************************)
(* CredentialLifecycle implements LifecycleContract, keeps the portal's    *)
(* expectations and history, and keeps file and public list together, for  *)
(* any credentials, callers and numbers of failures.                       *)
(***************************************************************************)
EXTENDS CredentialLifecycle, TLAPS

(* The values the actions build are lifecycle records; what they build from *)
(* versioned records is versioned.                                          *)
LEMMA RecordTypes ==
  /\ NoRecord \in LifecycleRecord /\ Baseline \in LifecycleRecord
  /\ NoRecord.revision \in Nat /\ Baseline.revision \in Nat
  /\ \A s \in Status, b \in BOOLEAN : Historical(s, b) \in LifecycleRecord
  /\ Idle \in CallRecord
  BY DEF NoRecord, Baseline, LifecycleRecord, Historical, Idle, CallRecord, Step, Operation,
         Status, BaselineEvent, Unversioned, AnyRevision

(* Migration keeps a record a record and gives it a version. *)
LEMMA MigratedType ==
  ASSUME NEW saved \in LifecycleRecord
  PROVE  Migrated(saved) \in LifecycleRecord /\ Migrated(saved).revision \in Nat
  BY DEF Migrated, LifecycleRecord, Unversioned, BaselineEvent

(* A change of a versioned record is a versioned record. *)
LEMMA ChangedType ==
  ASSUME NEW seen \in LifecycleRecord, seen.revision \in Nat, NEW op \in Operation,
         NEW listedAt \in Nat, NEW event \in Nat
  PROVE  /\ Changed(op, seen, listedAt, event) \in LifecycleRecord
         /\ Changed(op, seen, listedAt, event).revision \in Nat
  <1>1. Target(op) \in Status
    BY DEF Target, Status, Operation
  <1>2. StatusOf(seen) \in Status
    BY DEF StatusOf, LifecycleRecord, Status
  <1>3. seen.revision + 1 \in Nat /\ (seen.reactivated \/ op = "reactivate") \in BOOLEAN
    BY DEF LifecycleRecord
  <1> QED
    BY <1>1, <1>2, <1>3 DEF Changed, LifecycleRecord

(* The end of a call leaves typed calls and a typed queue. *)
LEMMA FinishType ==
  ASSUME TypeOK, NEW k \in Caller, MyTurn(k), Finish(k)
  PROVE  /\ call' \in [Caller -> CallRecord] /\ queue' \in Seq(Caller)
         /\ \A x \in Caller : /\ call'[x].pc # "idle" => call'[x].credential \in Credential
                              /\ call'[x].seen.revision \in Nat
  <1>1. Tail(queue) \in Seq(Caller)
    BY DEF TypeOK, MyTurn
  <1>2. Idle.seen.revision \in Nat /\ Idle.pc = "idle"
    BY DEF Idle, NoRecord
  <1> QED
    BY <1>1, <1>2, RecordTypes DEF TypeOK, Finish, At

(* What the portal is told is a versioned record. *)
LEMMA ToldType ==
  ASSUME TypeOK, NEW c \in Credential, NEW saved \in LifecycleRecord, saved.revision \in Nat, Told(c, saved)
  PROVE  told' \subseteq [credential : Credential, record : {r \in LifecycleRecord : r.revision \in Nat}]
  BY DEF TypeOK, Told

-----------------------------------------------------------------------------
(* Every saved record is typed in the beginning, historical or absent.      *)
LEMMA InitTypes == Init => TypeOK
  <1> SUFFICES ASSUME Init PROVE TypeOK
    OBVIOUS
  <1>1. record \in [Credential -> LifecycleRecord]
    BY RecordTypes DEF Init
  <1>2. \A c \in Credential : record[c].listedAt \in Nat
    BY <1>1 DEF LifecycleRecord
  <1>3. list \in [Credential -> [revoked : BOOLEAN, version : Nat]]
    BY <1>2 DEF Init
  <1>4. Idle.pc = "idle" /\ Idle.seen.revision \in Nat
    BY DEF Idle, NoRecord
  <1> QED
    BY <1>1, <1>3, <1>4, RecordTypes DEF Init, TypeOK, At, BaselineEvent

(* A request waits in the queue. *)
LEMMA RequestTypes ==
  ASSUME TypeOK, NEW k \in Caller, NEW op \in Operation, NEW c \in Credential,
         NEW e \in Expected \cup {AnyRevision}, Request(k, op, c, e)
  PROVE  TypeOK'
  <1> DEFINE new == [Idle EXCEPT !.pc = "waiting", !.op = op, !.credential = c, !.expected = e]
  <1>1. e \in Nat \cup {AnyRevision}
    BY ExpectedAssumption
  <1>2. new \in CallRecord /\ new.credential = c /\ new.seen.revision \in Nat
    BY <1>1, RecordTypes DEF CallRecord, Step, Idle, NoRecord
  <1>3. call' \in [Caller -> CallRecord]
    BY <1>2 DEF Request, TypeOK
  <1>4. \A x \in Caller : call'[x] = IF x = k THEN new ELSE call[x]
    BY DEF Request, TypeOK
  <1>5. \A x \in Caller : /\ call'[x].pc # "idle" => call'[x].credential \in Credential
                          /\ call'[x].seen.revision \in Nat
    BY <1>2, <1>4 DEF TypeOK, At
  <1>6. queue' \in Seq(Caller)
    BY DEF Request, TypeOK
  <1> QED
    BY <1>3, <1>5, <1>6 DEF Request, TypeOK, At

(* The steps of a running call. *)
LEMMA StepTypes ==
  ASSUME TypeOK, NEW k \in Caller, CallStep(k)
  PROVE  TypeOK'
  <1> DEFINE c == call[k].credential
             op == call[k].op
  <1>1. call[k] \in CallRecord /\ record \in [Credential -> LifecycleRecord] /\ op \in Operation
    BY DEF TypeOK, CallRecord
  <1>2. ~At(k, "idle") => c \in Credential /\ record[c] \in LifecycleRecord /\ list[c].version \in Nat /\ drawn[c] \in Nat
    BY DEF TypeOK
  <1>3. CASE Lookup(k)
    <2>1. c \in Credential /\ MyTurn(k)
      BY <1>2, <1>3 DEF Lookup, At
    <2>2. record' \in [Credential -> LifecycleRecord]
      BY <1>1, <1>3, MigratedType DEF Lookup
    <2> DEFINE saved == Migrated(record[c])
    <2>3. saved \in LifecycleRecord /\ saved.revision \in Nat
      BY <1>1, <2>1, MigratedType
    <2>4. CASE Finish(k) /\ (UNCHANGED told \/ Told(c, saved))
      <3>1. told' \subseteq [credential : Credential, record : {r \in LifecycleRecord : r.revision \in Nat}]
        BY <2>1, <2>3, <2>4, ToldType DEF TypeOK
      <3> QED
        BY <1>3, <2>1, <2>2, <2>4, <3>1, FinishType DEF Lookup, TypeOK, At
    <2>5. CASE /\ call' = [call EXCEPT ![k].pc = IF AlreadyListed(op, saved) THEN "save" ELSE "publish",
                                       ![k].seen = saved, ![k].listedAt = saved.listedAt]
               /\ UNCHANGED <<queue, told>>
      <3> DEFINE new == [call[k] EXCEPT !.pc = IF AlreadyListed(op, saved) THEN "save" ELSE "publish",
                                        !.seen = saved, !.listedAt = saved.listedAt]
      <3>1. saved.listedAt \in Nat
        BY <2>3 DEF LifecycleRecord
      <3>2. new \in CallRecord /\ new.credential = c /\ new.seen = saved
        BY <1>1, <2>3, <3>1 DEF CallRecord, Step
      <3>3. call' = [call EXCEPT ![k] = new]
        BY <1>1, <2>5 DEF TypeOK, CallRecord
      <3> HIDE DEF new
      <3>4. call' \in [Caller -> CallRecord]
        BY <3>2, <3>3 DEF TypeOK
      <3>5. \A x \in Caller : /\ call'[x].pc # "idle" => call'[x].credential \in Credential
                              /\ call'[x].seen.revision \in Nat
        BY <2>1, <2>3, <3>2, <3>3 DEF TypeOK, At
      <3> QED
        BY <1>3, <2>2, <2>5, <3>4, <3>5 DEF Lookup, TypeOK, At
    <2> QED
      BY <1>3, <2>4, <2>5 DEF Lookup, Fail
  <1>4. CASE Publish(k)
    <2>1. c \in Credential /\ list[c].version + 1 \in Nat
      BY <1>2, <1>4 DEF Publish, At
    <2>2. list' \in [Credential -> [revoked : BOOLEAN, version : Nat]]
      BY <1>4, <2>1 DEF Publish, Listed, TypeOK
    <2> DEFINE new == [call[k] EXCEPT !.pc = "save", !.listedAt = list[c].version + 1]
    <2>3. new \in CallRecord /\ new.credential = c /\ new.seen = call[k].seen
      BY <1>1, <2>1 DEF CallRecord, Step
    <2>4. call' = [call EXCEPT ![k] = new]
      BY <1>1, <1>4 DEF Publish, TypeOK, CallRecord
    <2> HIDE DEF new
    <2>5. call' \in [Caller -> CallRecord]
      BY <2>3, <2>4 DEF TypeOK
    <2>6. \A x \in Caller : /\ call'[x].pc # "idle" => call'[x].credential \in Credential
                            /\ call'[x].seen.revision \in Nat
      BY <2>1, <2>3, <2>4 DEF TypeOK, At
    <2> QED
      BY <1>4, <2>2, <2>5, <2>6 DEF Publish, TypeOK, At
  <1>5. CASE Save(k)
    <2> DEFINE next == IF op = "get" THEN Baseline
                       ELSE Changed(op, call[k].seen, call[k].listedAt, drawn[c] + 1)
               new == [call[k] EXCEPT !.pc = "answer", !.seen = next]
    <2>1. c \in Credential /\ drawn[c] + 1 \in Nat
      BY <1>2, <1>5 DEF Save, At
    <2>2. call[k].seen \in LifecycleRecord /\ call[k].seen.revision \in Nat /\ call[k].listedAt \in Nat
      BY <1>1 DEF TypeOK, CallRecord
    <2>3. next \in LifecycleRecord /\ next.revision \in Nat
      BY <1>1, <2>1, <2>2, ChangedType, RecordTypes
    <2>4. record' = [record EXCEPT ![c] = next] /\ call' = [call EXCEPT ![k].pc = "answer", ![k].seen = next]
      BY <1>5 DEF Save
    <2>5. drawn' \in [Credential -> Nat]
      BY <1>5, <2>1 DEF Save, TypeOK
    <2> HIDE DEF next
    <2>6. record' \in [Credential -> LifecycleRecord]
      BY <2>3, <2>4 DEF TypeOK
    <2>7. new \in CallRecord /\ new.credential = c /\ new.seen = next
      BY <1>1, <2>3 DEF CallRecord, Step
    <2>8. call' = [call EXCEPT ![k] = new]
      BY <1>1, <2>4 DEF TypeOK, CallRecord
    <2> HIDE DEF new
    <2>9. call' \in [Caller -> CallRecord]
      BY <2>7, <2>8 DEF TypeOK
    <2>10. \A x \in Caller : /\ call'[x].pc # "idle" => call'[x].credential \in Credential
                             /\ call'[x].seen.revision \in Nat
      BY <2>1, <2>3, <2>7, <2>8 DEF TypeOK, At
    <2> QED
      BY <1>5, <2>5, <2>6, <2>9, <2>10 DEF Save, TypeOK, At
  <1>6. CASE Answer(k)
    <2>1. c \in Credential /\ call[k].seen \in LifecycleRecord /\ call[k].seen.revision \in Nat /\ MyTurn(k)
      BY <1>1, <1>2, <1>6 DEF Answer, At, TypeOK, CallRecord
    <2>2. told' \subseteq [credential : Credential, record : {r \in LifecycleRecord : r.revision \in Nat}]
      BY <1>6, <2>1, ToldType DEF Answer
    <2> QED
      BY <1>6, <2>1, <2>2, FinishType DEF Answer, TypeOK, At
  <1> QED
    BY <1>3, <1>4, <1>5, <1>6 DEF CallStep

(* A failing call or a crash may have updated the list. *)
LEMMA TroubleTypes ==
  ASSUME TypeOK, Crash \/ \E k \in Caller : CallFails(k)
  PROVE  TypeOK'
  <1>1. ASSUME NEW k \in Caller, LedgerReached(k)
        PROVE  list' \in [Credential -> [revoked : BOOLEAN, version : Nat]]
    <2>1. call[k].credential \in Credential /\ list[call[k].credential].version + 1 \in Nat
      BY <1>1 DEF LedgerReached, At, TypeOK
    <2> QED
      BY <1>1, <2>1 DEF LedgerReached, Listed, TypeOK
  <1>2. troubles' \in Nat
    BY DEF Crash, CallFails, TypeOK
  <1>3. CASE Crash
    <2>1. list' \in [Credential -> [revoked : BOOLEAN, version : Nat]]
      BY <1>1, <1>3 DEF Crash, TypeOK
    <2>2. Idle.pc = "idle" /\ Idle.seen.revision \in Nat
      BY DEF Idle, NoRecord
    <2>3. <<>> \in Seq(Caller)
      OBVIOUS
    <2> QED
      BY <1>2, <1>3, <2>1, <2>2, <2>3, RecordTypes DEF Crash, TypeOK, At
  <1>4. ASSUME NEW k \in Caller, CallFails(k)
        PROVE  TypeOK'
    <2>1. list' \in [Credential -> [revoked : BOOLEAN, version : Nat]]
      BY <1>1, <1>4 DEF CallFails, TypeOK
    <2> QED
      BY <1>2, <1>4, <2>1, FinishType DEF CallFails, Fail, TypeOK, At
  <1> QED
    BY <1>3, <1>4

(* Every step keeps the types. *)
LEMMA NextTypes == TypeOK /\ [Next]_vars => TypeOK'
  <1> SUFFICES ASSUME TypeOK, [Next]_vars PROVE TypeOK'
    OBVIOUS
  <1>1. CASE UNCHANGED vars
    BY <1>1 DEF vars, TypeOK, At
  <1>2. CASE Next
    BY <1>2, RequestTypes, StepTypes, TroubleTypes DEF Next
  <1> QED
    BY <1>1, <1>2

(* Every reachable state is well typed, historical records and crashes      *)
(* included; what the portal hears of always carries a revision.            *)
THEOREM LifecycleTypeCorrect == Spec => []TypeOK
  BY InitTypes, NextTypes, PTL DEF Spec

-----------------------------------------------------------------------------
(* Between the moment a call has read its record and its end nobody else    *)
(* changes that record: only the call at the head of the queue runs.        *)
Running(k) == call[k].pc \in {"publish", "save", "answer"}
Turns ==
  \A k \in Caller : Running(k) =>
    /\ MyTurn(k)
    /\ call[k].seen = record[call[k].credential]
    /\ call[k].pc # "answer" =>
         Permitted(call[k].op, call[k].seen) /\ ~Completed(call[k].op, call[k].seen)

(* Nobody runs in the beginning. *)
LEMMA InitTurns == Init => Turns
  BY DEF Init, Turns, Running, Idle

(* A call that ends leaves nobody running. *)
LEMMA FinishTurns ==
  ASSUME TypeOK, Turns, NEW k \in Caller, MyTurn(k), Finish(k)
  PROVE  Turns'
  <1>1. Idle.pc = "idle"
    BY DEF Idle
  <1>2. ASSUME NEW x \in Caller, Running(x)' PROVE FALSE
    <2>1. x # k /\ call'[x] = call[x]
      BY <1>1, <1>2 DEF Finish, Running, TypeOK
    <2>2. MyTurn(x)
      BY <1>2, <2>1 DEF Turns, Running
    <2> QED
      BY <2>1, <2>2 DEF MyTurn
  <1> QED
    BY <1>2 DEF Turns

(* The call whose turn it is may go on: the others are not running. *)
LEMMA StepTurns ==
  ASSUME TypeOK, Turns, NEW k \in Caller, CallStep(k)
  PROVE  Turns'
  <1> DEFINE c == call[k].credential
             op == call[k].op
  <1>1. MyTurn(k) /\ c \in Credential /\ call[k] \in CallRecord /\ call \in [Caller -> CallRecord]
    BY DEF CallStep, Lookup, Publish, Save, Answer, TypeOK, At
  <1>2. \A x \in Caller : Running(x) => x = k
    BY <1>1 DEF Turns, MyTurn
  <1>3. CASE Lookup(k)
    <2> DEFINE saved == Migrated(record[c])
    <2>1. CASE Finish(k)
      BY <1>1, <2>1, FinishTurns
    <2>2. CASE /\ call' = [call EXCEPT ![k].pc = IF AlreadyListed(op, saved) THEN "save" ELSE "publish",
                                       ![k].seen = saved, ![k].listedAt = saved.listedAt]
               /\ queue' = queue /\ Permitted(op, saved) /\ ~Completed(op, saved)
      <3>1. record'[c] = saved
        BY <1>1, <1>3 DEF Lookup
      <3>2. call'[k].seen = saved /\ call'[k].credential = c /\ call'[k].op = op /\ call'[k].pc \in {"save", "publish"}
        BY <1>1, <2>2 DEF CallRecord
      <3>3. \A x \in Caller \ {k} : call'[x] = call[x]
        BY <1>1, <2>2
      <3> HIDE DEF saved
      <3> QED
        BY <1>1, <1>2, <2>2, <3>1, <3>2, <3>3 DEF Turns, Running, MyTurn
    <2> QED
      BY <1>3, <2>1, <2>2 DEF Lookup, Fail
  <1>4. CASE Publish(k)
    <2>1. call'[k].pc = "save" /\ call'[k].seen = call[k].seen /\ call'[k].credential = c /\ call'[k].op = op
      BY <1>1, <1>4 DEF Publish, CallRecord
    <2>2. \A x \in Caller \ {k} : call'[x] = call[x]
      BY <1>1, <1>4 DEF Publish
    <2>3. Running(k) /\ call[k].pc # "answer"
      BY <1>4 DEF Publish, At, Running
    <2> QED
      BY <1>1, <1>2, <1>4, <2>1, <2>2, <2>3 DEF Publish, Turns, Running, MyTurn
  <1>5. CASE Save(k)
    <2>1. record'[c] = call'[k].seen /\ call'[k].pc = "answer" /\ call'[k].credential = c
      BY <1>1, <1>5 DEF Save, CallRecord, TypeOK
    <2>2. \A x \in Caller \ {k} : call'[x] = call[x]
      BY <1>1, <1>5 DEF Save
    <2>3. queue' = queue
      BY <1>5 DEF Save
    <2> QED
      BY <1>1, <1>2, <2>1, <2>2, <2>3 DEF Turns, Running, MyTurn
  <1>6. CASE Answer(k)
    BY <1>1, <1>6, FinishTurns DEF Answer
  <1> QED
    BY <1>3, <1>4, <1>5, <1>6 DEF CallStep

(* A request queues behind the running call; a crash ends them all. *)
LEMMA NextTurns == TypeOK /\ Turns /\ [Next]_vars => Turns'
  <1> SUFFICES ASSUME TypeOK, Turns, [Next]_vars PROVE Turns'
    OBVIOUS
  <1>1. CASE UNCHANGED vars
    BY <1>1 DEF vars, Turns, Running, MyTurn
  <1>2. ASSUME NEW k \in Caller, NEW op \in Operation, NEW c \in Credential,
               NEW e \in Expected \cup {AnyRevision}, Request(k, op, c, e)
        PROVE  Turns'
    <2>1. \A x \in Caller : Running(x)' => Running(x) /\ call'[x] = call[x]
      BY <1>2 DEF Request, Running, TypeOK
    <2>2. queue # <<>> => queue' # <<>> /\ Head(queue') = Head(queue)
      BY <1>2 DEF Request, TypeOK
    <2> QED
      BY <1>2, <2>1, <2>2 DEF Request, Turns, MyTurn, Running
  <1>3. ASSUME NEW k \in Caller, CallFails(k)
        PROVE  Turns'
    BY <1>3, FinishTurns DEF CallFails, Fail
  <1>4. CASE Crash
    BY <1>4 DEF Crash, Turns, Running, Idle
  <1> QED
    BY <1>1, <1>2, <1>3, <1>4, StepTurns DEF Next

-----------------------------------------------------------------------------
(* The refinement.  A lookup, a request, a failure and the save of a        *)
(* baseline leave the state of every credential; the save of a change is    *)
(* the change; an answer or webhook that gets through tells of it.          *)
View == [c \in Credential |-> Current(record[c])]
Heard == {[credential |-> m.credential, state |-> Current(m.record)] : m \in told}

(* Migration does not change how a record is seen. *)
LEMMA MigratedView ==
  ASSUME NEW saved \in LifecycleRecord
  PROVE  Current(Migrated(saved)) = Current(saved)
  BY DEF Current, Migrated, StatusOf, LifecycleRecord, Unversioned

(* A call the code lets through makes a change the contract allows. *)
LEMMA ChangeAllowed ==
  ASSUME NEW op \in Operation \ {"get"}, NEW seen \in LifecycleRecord, seen.revision \in Nat,
         Permitted(op, seen), ~Completed(op, seen), NEW listedAt, NEW event
  PROVE  /\ Contract!MayBecome(Current(seen).status, Target(op))
         /\ Target(op) \in Status
         /\ Current(Changed(op, seen, listedAt, event)) =
              [status |-> Target(op), previous |-> Current(seen).status, revision |-> Current(seen).revision + 1]
  <1>1. seen.revision # Unversioned /\ seen.revision + 1 # Unversioned
    BY DEF Unversioned
  <1>2. seen.status \in Status \cup {"none"}
    BY DEF LifecycleRecord
  <1>3. Target(op) \in Status
    BY DEF Target, Status, Operation
  <1>4. Contract!MayBecome(StatusOf(seen), Target(op))
    BY <1>2 DEF Contract!MayBecome, Target, Operation, StatusOf, Permitted, Completed, Status
  <1>5. Target(op) # "none"
    BY <1>3 DEF Status
  <1> QED
    BY <1>1, <1>3, <1>4, <1>5 DEF Current, Changed, Migrated, StatusOf

(* The first states agree: nothing has been told, and a record of an older  *)
(* version counts as revision zero.                                         *)
LEMMA InitContract == Init => Contract!Init
  <1> SUFFICES ASSUME Init PROVE Contract!Init
    OBVIOUS
  <1>1. ASSUME NEW c \in Credential
        PROVE  Current(record[c]) \in [status : Contract!Status, previous : {"none"}, revision : {0}]
    <2>1. record[c] \in {NoRecord} \cup {Historical(s, r) : s \in Status, r \in BOOLEAN}
      BY DEF Init
    <2>2. CASE record[c] = NoRecord
      BY <2>2 DEF Current, StatusOf, Migrated, NoRecord, Contract!Status, Unversioned
    <2>3. ASSUME NEW s \in Status, NEW r \in BOOLEAN, record[c] = Historical(s, r)
          PROVE  Current(record[c]) \in [status : Contract!Status, previous : {"none"}, revision : {0}]
      BY <2>3 DEF Current, StatusOf, Migrated, Historical, NoRecord, Contract!Status, Status, Unversioned
    <2> QED
      BY <2>1, <2>2, <2>3
  <1>2. {[credential |-> m.credential, state |-> Current(m.record)] : m \in told} = {}
    BY DEF Init
  <1> QED
    BY <1>1, <1>2 DEF Contract!Init

(* Telling of a record that is seen as the current one is a contract step.  *)
LEMMA TellStep ==
  ASSUME TypeOK, NEW c \in Credential, NEW saved, Current(saved) = Current(record[c]),
         Told(c, saved), View' = View
  PROVE  Contract!Next \/ UNCHANGED <<View, Heard>>
  <1>1. CASE told' = told
    BY <1>1 DEF Heard, Current, StatusOf, Migrated
  <1>2. CASE told' = told \cup {[credential |-> c, record |-> saved]}
    <2> DEFINE item == [credential |-> c, record |-> saved]
               Seen(m) == [credential |-> m.credential, state |-> Current(m.record)]
    <2>1. Heard' = Heard \cup {[credential |-> c, state |-> View[c]]}
      <3>1. Heard = {Seen(m) : m \in told} /\ Heard' = {Seen(m) : m \in told \cup {item}}
        BY <1>2 DEF Heard
      <3>2. item.credential = c /\ item.record = saved
        OBVIOUS
      <3>3. Seen(item) = [credential |-> c, state |-> View[c]]
        BY <3>2 DEF View
      <3> HIDE DEF Seen, item
      <3>4. Heard' = Heard \cup {Seen(item)}
        BY <3>1
      <3> QED
        BY <3>3, <3>4
    <2>2. Contract!Tell(c)
      BY <2>1 DEF Contract!Tell, View, Heard
    <2> QED
      BY <2>2 DEF Contract!Next
  <1> QED
    BY <1>1, <1>2 DEF Told

(* When every record is seen as before and nothing is told, it is a stutter. *)
LEMMA SameView ==
  ASSUME \A c \in Credential : Current(record'[c]) = Current(record[c])
  PROVE  View' = View
  BY DEF View

(* The steps of a running call. *)
LEMMA StepContract ==
  ASSUME TypeOK, Turns, NEW k \in Caller, CallStep(k)
  PROVE  Contract!Next \/ UNCHANGED <<View, Heard>>
  <1> DEFINE c == call[k].credential
             op == call[k].op
  <1>1. c \in Credential /\ call[k] \in CallRecord /\ record \in [Credential -> LifecycleRecord]
    BY DEF CallStep, Lookup, Publish, Save, Answer, TypeOK, At
  <1>2. UNCHANGED told => UNCHANGED Heard
    BY DEF Heard
  <1>3. CASE Lookup(k)
    <2> DEFINE saved == Migrated(record[c])
    <2>1. \A x \in Credential : Current(record'[x]) = Current(record[x])
      BY <1>1, <1>3, MigratedView DEF Lookup
    <2>2. View' = View
      BY <2>1, SameView
    <2>3. Current(saved) = Current(record[c])
      BY <1>1, MigratedView
    <2>4. UNCHANGED told \/ Told(c, saved)
      BY <1>3 DEF Lookup
    <2> QED
      BY <1>1, <1>2, <2>2, <2>3, <2>4, TellStep
  <1>4. CASE Publish(k)
    <2>1. UNCHANGED record /\ UNCHANGED told
      BY <1>4 DEF Publish
    <2> QED
      BY <1>2, <2>1, SameView
  <1>5. CASE Save(k)
    <2> DEFINE seen == call[k].seen
    <2>1. /\ seen = record[c] /\ Permitted(op, seen) /\ ~Completed(op, seen)
          /\ seen \in LifecycleRecord /\ seen.revision \in Nat /\ op \in Operation
      BY <1>1, <1>5 DEF Save, At, Turns, Running, TypeOK, CallRecord
    <2>2. UNCHANGED told
      BY <1>5 DEF Save
    <2>3. CASE op = "get"
      <3>1. record[c] = NoRecord
        BY <2>1, <2>3 DEF Completed
      <3>2. record' = [record EXCEPT ![c] = Baseline]
        BY <1>5, <2>3 DEF Save
      <3>3. Current(Baseline) = Current(NoRecord)
        BY DEF Current, Baseline, NoRecord, StatusOf, Migrated, Unversioned
      <3> QED
        BY <1>1, <1>2, <2>2, <3>1, <3>2, <3>3, SameView
    <2>4. CASE op # "get"
      <3> DEFINE next == Changed(op, seen, call[k].listedAt, drawn[c] + 1)
      <3>1. record' = [record EXCEPT ![c] = next]
        BY <1>5, <2>4 DEF Save
      <3>2. /\ Contract!MayBecome(View[c].status, Target(op)) /\ Target(op) \in Status
            /\ Current(next) = [status |-> Target(op), previous |-> View[c].status,
                                revision |-> View[c].revision + 1]
        BY <1>1, <2>1, <2>4, ChangeAllowed DEF View
      <3> HIDE DEF next
      <3>3. View' = [View EXCEPT ![c] = Current(next)]
        BY <1>1, <3>1 DEF View
      <3>4. Contract!Change(c, Target(op))
        BY <1>2, <2>2, <3>2, <3>3 DEF Contract!Change, View, Heard
      <3> QED
        BY <1>1, <3>2, <3>4 DEF Contract!Next, Contract!Status, Status
    <2> QED
      BY <2>3, <2>4
  <1>6. CASE Answer(k)
    <2>1. call[k].seen = record[c]
      BY <1>6 DEF Answer, At, Turns, Running
    <2>2. View' = View
      BY <1>6, SameView DEF Answer
    <2> QED
      BY <1>1, <1>6, <2>1, <2>2, TellStep DEF Answer
  <1> QED
    BY <1>3, <1>4, <1>5, <1>6 DEF CallStep

(* Every step is a step of the contract or leaves what the portal sees. *)
LEMMA NextContract == TypeOK /\ Turns /\ [Next]_vars => [Contract!Next]_<<View, Heard>>
  <1> SUFFICES ASSUME TypeOK, Turns, [Next]_vars PROVE Contract!Next \/ UNCHANGED <<View, Heard>>
    OBVIOUS
  <1>1. UNCHANGED told => UNCHANGED Heard
    BY DEF Heard
  <1>2. CASE \E k \in Caller : CallStep(k)
    BY <1>2, StepContract
  <1>3. CASE UNCHANGED <<record, told>>
    BY <1>1, <1>3, SameView
  <1> QED
    BY <1>2, <1>3 DEF Next, Request, CallFails, Crash, vars

(* The agent implements the lifecycle it promises: whatever calls overlap,  *)
(* fail or are cut off, a credential only makes the allowed changes, one    *)
(* revision each, revocation is final, and the portal hears of nothing that *)
(* was not saved.                                                           *)
THEOREM LifecycleImplementsContract == Spec => ImplementsContract
  <1>1. Init => Turns /\ TypeOK
    BY InitTurns, InitTypes
  <1>2. Turns /\ TypeOK /\ [Next]_vars => Turns' /\ TypeOK'
    BY NextTurns, NextTypes
  <1>3. Turns /\ TypeOK /\ [Next]_vars =>
          [Contract!Next]_<<[c \in Credential |-> Current(record[c])],
                            {[credential |-> m.credential, state |-> Current(m.record)] : m \in told}>>
    BY NextContract DEF View, Heard
  <1> QED
    BY <1>1, <1>2, <1>3, InitContract, PTL DEF Spec, ImplementsContract, Contract!Spec

-----------------------------------------------------------------------------
(* What a caller expects of the revision holds of the record the call works *)
(* on.  With Turns it holds of the saved record too, whatever was saved     *)
(* while the call was waiting.                                              *)
Expectations ==
  \A k \in Caller :
    Running(k) /\ call[k].pc # "answer" /\ call[k].expected # AnyRevision
      => call[k].expected = call[k].seen.revision

(* Only the lookup lets a call start to work, and it compares; the calls    *)
(* that wait or end say nothing.                                            *)
LEMMA NextExpectations == TypeOK /\ Expectations /\ [Next]_vars => Expectations'
  <1> SUFFICES ASSUME TypeOK, Expectations, [Next]_vars PROVE Expectations'
    OBVIOUS
  <1>1. Idle.pc = "idle"
    BY DEF Idle
  <1>2. ASSUME NEW k \in Caller, NEW new, call' = [call EXCEPT ![k] = new],
               new.pc \in {"publish", "save"} /\ new.expected # AnyRevision => new.expected = new.seen.revision
        PROVE  Expectations'
    <2>1. \A x \in Caller : call'[x] = IF x = k THEN new ELSE call[x]
      BY <1>2 DEF TypeOK
    <2> QED
      BY <1>2, <2>1 DEF Expectations, Running
  <1>3. ASSUME NEW k \in Caller, Finish(k)
        PROVE  Expectations'
    BY <1>1, <1>2, <1>3 DEF Finish
  <1>4. ASSUME NEW k \in Caller, Lookup(k)
        PROVE  Expectations'
    <2> DEFINE saved == Migrated(record[call[k].credential])
               new == [call[k] EXCEPT !.pc = IF AlreadyListed(call[k].op, saved) THEN "save" ELSE "publish",
                                      !.seen = saved, !.listedAt = saved.listedAt]
    <2>1. CASE ~Conflicts(k, saved) /\ call' = [call EXCEPT ![k] = new]
      <3>1. new.expected = call[k].expected /\ new.seen = saved
        BY DEF TypeOK, CallRecord
      <3> HIDE DEF new, saved
      <3> QED
        BY <1>2, <2>1, <3>1 DEF Conflicts
    <2>2. \/ Finish(k)
          \/ ~Conflicts(k, saved) /\ call' = [call EXCEPT ![k] = new]
      BY <1>4 DEF Lookup, Fail, TypeOK, CallRecord
    <2> QED
      BY <1>3, <2>1, <2>2
  <1>5. ASSUME NEW k \in Caller, Publish(k)
        PROVE  Expectations'
    <2> DEFINE new == [call[k] EXCEPT !.pc = "save", !.listedAt = list[call[k].credential].version + 1]
    <2>1. call' = [call EXCEPT ![k] = new] /\ new.expected = call[k].expected /\ new.seen = call[k].seen
      BY <1>5 DEF Publish, TypeOK, CallRecord
    <2>2. Running(k) /\ call[k].pc # "answer"
      BY <1>5 DEF Publish, At, Running
    <2> HIDE DEF new
    <2> QED
      BY <1>2, <2>1, <2>2 DEF Expectations
  <1>6. ASSUME NEW k \in Caller, Save(k)
        PROVE  Expectations'
    <2> DEFINE next == IF call[k].op = "get" THEN Baseline
                       ELSE Changed(call[k].op, call[k].seen, call[k].listedAt, drawn[call[k].credential] + 1)
               new == [call[k] EXCEPT !.pc = "answer", !.seen = next]
    <2>1. call' = [call EXCEPT ![k].pc = "answer", ![k].seen = next]
      BY <1>6 DEF Save
    <2> HIDE DEF next
    <2>2. call' = [call EXCEPT ![k] = new] /\ new.pc = "answer"
      BY <2>1 DEF TypeOK, CallRecord
    <2> HIDE DEF new
    <2> QED
      BY <1>2, <2>2
  <1>7. ASSUME NEW k \in Caller, NEW op \in Operation, NEW c \in Credential,
               NEW e \in Expected \cup {AnyRevision}, Request(k, op, c, e)
        PROVE  Expectations'
    <2> DEFINE new == [Idle EXCEPT !.pc = "waiting", !.op = op, !.credential = c, !.expected = e]
    <2>1. call' = [call EXCEPT ![k] = new] /\ new.pc = "waiting"
      BY <1>7 DEF Request, Idle
    <2> HIDE DEF new
    <2> QED
      BY <1>2, <2>1
  <1>8. CASE Crash
    BY <1>1, <1>8 DEF Crash, Expectations, Running
  <1>9. CASE UNCHANGED vars
    BY <1>9 DEF vars, Expectations, Running
  <1> QED
    BY <1>3, <1>4, <1>5, <1>6, <1>7, <1>8, <1>9 DEF Next, CallStep, Answer, CallFails, Fail

(* A call that expects a revision updates the list or the file only while   *)
(* the saved record is at that revision, however many calls queued before   *)
(* it and whichever of them failed.                                         *)
THEOREM ExpectationsKept == Spec => ExpectationKept
  <1> DEFINE Kept == \A k \in Caller :
               LET c == call[k].credential IN
               call'[k] # call[k] /\ call[k].pc \in {"publish", "save"} /\ call[k].expected # AnyRevision
                 => record[c].revision = call[k].expected
             Hold == TypeOK /\ Turns /\ Expectations
  <1>1. Init => Hold
    BY InitTypes, InitTurns DEF Init, Expectations, Running, Idle
  <1>2. Hold /\ [Next]_vars => Hold' /\ [Kept]_vars
    <2>1. Hold => Kept
      BY DEF Turns, Expectations, Running
    <2> HIDE DEF Kept
    <2> QED
      BY <2>1, NextTypes, NextTurns, NextExpectations
  <1> HIDE DEF Kept, Hold
  <1>3. Spec => [][Kept]_vars
    BY <1>1, <1>2, PTL DEF Spec
  <1> QED
    BY <1>3 DEF Kept, ExpectationKept

-----------------------------------------------------------------------------
(* What the portal was told against the saved record.  `saved` is a record  *)
(* as readAll returns it: a told record is the saved one or belongs to an   *)
(* earlier revision, and the saved one names the status before it.          *)
Known(m, saved) ==
  /\ m.record.status # "none"
  /\ m.record.revision < saved.revision \/ m.record = saved
  /\ m.record.revision + 1 = saved.revision => saved.previous = m.record.status

(* ToldConsistently is not inductive: it says nothing of the saved record,  *)
(* which the next answer may tell.                                          *)
History ==
  /\ \A c \in Credential : record[c].status = "none" => record[c] = NoRecord
  /\ \A k \in Caller : At(k, "answer") => call[k].seen.status # "none"
  /\ \A m \in told : Known(m, Migrated(record[m.credential]))
  /\ ToldConsistently

(* Migration of an absent or a versioned record changes nothing, a migrated *)
(* record has its status and is not migrated again.                         *)
LEMMA MigratedTwice ==
  /\ Migrated(NoRecord) = NoRecord
  /\ \A saved \in LifecycleRecord :
       /\ saved.revision \in Nat => Migrated(saved) = saved
       /\ Migrated(Migrated(saved)) = Migrated(saved)
       /\ Migrated(saved).status = saved.status
       /\ Migrated(saved).listedAt = saved.listedAt
       /\ StatusOf(Migrated(saved)) = StatusOf(saved)
  <1>1. Migrated(NoRecord) = NoRecord
    BY DEF Migrated, NoRecord, Unversioned
  <1>2. ASSUME NEW saved \in LifecycleRecord
        PROVE  /\ saved.revision \in Nat => Migrated(saved) = saved
               /\ Migrated(saved).status = saved.status
               /\ Migrated(saved).listedAt = saved.listedAt
    BY DEF Migrated, Unversioned, LifecycleRecord
  <1>3. ASSUME NEW saved \in LifecycleRecord
        PROVE  /\ Migrated(Migrated(saved)) = Migrated(saved)
               /\ StatusOf(Migrated(saved)) = StatusOf(saved)
    BY <1>2, MigratedType DEF StatusOf
  <1> QED
    BY <1>1, <1>2, <1>3

(* Telling the saved record keeps the portal's history consistent.          *)
LEMMA TellHistory ==
  ASSUME TypeOK, History, NEW c \in Credential, NEW saved, saved = Migrated(record[c]),
         saved.status # "none", Told(c, saved)
  PROVE  /\ \A m \in told' : Known(m, Migrated(record[m.credential]))
         /\ ToldConsistently'
  <1> DEFINE item == [credential |-> c, record |-> saved]
  <1>1. saved \in LifecycleRecord /\ saved.revision \in Nat
    BY MigratedType DEF TypeOK
  <1>2. item.credential = c /\ item.record = saved /\ Known(item, saved)
    BY <1>1 DEF Known
  <1>3. \A m \in told : /\ Known(m, Migrated(record[m.credential]))
                        /\ m.record.revision \in Nat /\ m = [credential |-> m.credential, record |-> m.record]
    BY DEF History, TypeOK
  <1>4. \A m, n \in told : m.credential = n.credential =>
          /\ m.record.revision = n.record.revision => m = n
          /\ m.record.revision = n.record.revision + 1 => m.record.previous = n.record.status
    BY DEF History, ToldConsistently
  <1>5. \A m \in told : m.credential = c =>
          /\ m.record.revision = saved.revision => m = item
          /\ m.record.revision # saved.revision + 1
          /\ saved.revision = m.record.revision + 1 => saved.previous = m.record.status
    <2>1. ASSUME NEW m \in told, m.credential = c
          PROVE  /\ m.record.revision = saved.revision => m = item
                 /\ m.record.revision # saved.revision + 1
                 /\ saved.revision = m.record.revision + 1 => saved.previous = m.record.status
      <3>1. Known(m, saved) /\ m.record.revision \in Nat
        BY <1>3, <2>1
      <3>2. m.record = saved => m = item
        BY <1>3, <2>1
      <3> HIDE DEF item
      <3> QED
        BY <1>1, <3>1, <3>2 DEF Known
    <2> HIDE DEF item
    <2> QED
      BY <2>1
  <1>6. told' \subseteq told \cup {item}
    BY DEF Told
  <1> HIDE DEF item
  <1>7. \A m \in told' : Known(m, Migrated(record[m.credential]))
    BY <1>2, <1>3, <1>6
  <1>8. saved.revision # saved.revision + 1
    BY <1>1
  <1>9. \A m, n \in told' : m.credential = n.credential =>
          /\ m.record.revision = n.record.revision => m = n
          /\ m.record.revision = n.record.revision + 1 => m.record.previous = n.record.status
    BY <1>2, <1>4, <1>5, <1>6, <1>8
  <1> QED
    BY <1>7, <1>9 DEF ToldConsistently

(* Saving a baseline finds nothing told; saving a change starts the next    *)
(* revision from the record the portal may have been told of last.          *)
LEMMA SaveHistory ==
  ASSUME TypeOK, Turns, History, NEW k \in Caller, Save(k)
  PROVE  History'
  <1> DEFINE c == call[k].credential
             op == call[k].op
             seen == call[k].seen
             next == IF op = "get" THEN Baseline ELSE Changed(op, seen, call[k].listedAt, drawn[c] + 1)
  <1>1. /\ c \in Credential /\ op \in Operation /\ seen = record[c]
        /\ seen \in LifecycleRecord /\ seen.revision \in Nat /\ ~Completed(op, seen)
    BY DEF Save, At, Turns, Running, TypeOK, CallRecord
  <1>2. record' = [record EXCEPT ![c] = next] /\ call' = [call EXCEPT ![k].pc = "answer", ![k].seen = next]
    BY DEF Save
  <1>3. next.status # "none" /\ Migrated(next) = next
    BY <1>1 DEF Baseline, NoRecord, Changed, Target, Operation, Migrated, Unversioned
  <1>4. ASSUME NEW m \in told, m.credential = c
        PROVE  Known(m, next)
    <2>1. Known(m, seen) /\ m.record.revision \in Nat
      BY <1>1, <1>4, MigratedTwice DEF History, TypeOK
    <2>2. CASE op = "get"
      <3>1. seen = NoRecord
        BY <1>1, <2>2 DEF Completed
      <3> QED
        BY <2>1, <3>1 DEF Known, NoRecord
    <2>3. CASE op # "get"
      <3>1. next.revision = seen.revision + 1 /\ next.previous = StatusOf(seen)
        BY <2>3 DEF Changed
      <3> HIDE DEF next, seen
      <3>2. m.record.revision < next.revision
        BY <1>1, <2>1, <3>1 DEF Known
      <3>3. m.record.revision + 1 = next.revision => next.previous = m.record.status
        BY <1>1, <2>1, <3>1 DEF Known, StatusOf
      <3> QED
        BY <2>1, <3>2, <3>3 DEF Known
    <2> QED
      BY <2>2, <2>3
  <1> HIDE DEF next
  <1>5. \A x \in Credential : record'[x] = IF x = c THEN next ELSE record[x]
    BY <1>2 DEF TypeOK
  <1>6. \A x \in Caller : call'[x].pc = "answer" => call'[x].seen.status # "none"
    <2>1. call'[k].seen = next /\ \A x \in Caller \ {k} : call'[x] = call[x]
      BY <1>2 DEF TypeOK, CallRecord
    <2> QED
      BY <1>3, <2>1 DEF History, At
  <1>7. told' = told
    BY DEF Save
  <1>8. \A m \in told : Known(m, Migrated(record'[m.credential]))
    <2>1. \A m \in told : m.credential \in Credential
      BY DEF TypeOK
    <2> QED
      BY <1>3, <1>4, <1>5, <2>1 DEF History
  <1>9. \A x \in Credential : record'[x].status = "none" => record'[x] = NoRecord
    BY <1>3, <1>5 DEF History
  <1> QED
    BY <1>6, <1>7, <1>8, <1>9 DEF History, ToldConsistently, At

(* A lookup migrates the file and tells what it found; an answer tells what *)
(* is saved.  A read of an absent record is never told.                     *)
LEMMA StepHistory ==
  ASSUME TypeOK, Turns, History, NEW k \in Caller, CallStep(k)
  PROVE  History'
  <1> DEFINE c == call[k].credential
             op == call[k].op
  <1>1. /\ c \in Credential /\ call[k] \in CallRecord /\ call \in [Caller -> CallRecord]
        /\ record \in [Credential -> LifecycleRecord]
    BY DEF CallStep, Lookup, Publish, Save, Answer, TypeOK, At
  <1>2. Idle.pc = "idle"
    BY DEF Idle
  <1>3. CASE Lookup(k)
    <2> DEFINE saved == Migrated(record[c])
    <2>1. \A x \in Credential : record'[x] = Migrated(record[x])
      BY <1>3 DEF Lookup
    <2>2. \A x \in Credential : Migrated(record'[x]) = Migrated(record[x])
      BY <1>1, <2>1, MigratedTwice
    <2>3. \A x \in Credential : record'[x].status = "none" => record'[x] = NoRecord
      BY <1>1, <2>1, MigratedTwice DEF History
    <2>4. \A x \in Caller : call'[x].pc = "answer" => call'[x].seen.status # "none"
      <3>1. \/ call' = [call EXCEPT ![k] = Idle]
            \/ call' = [call EXCEPT ![k].pc = IF AlreadyListed(op, saved) THEN "save" ELSE "publish",
                                    ![k].seen = saved, ![k].listedAt = saved.listedAt]
        BY <1>3 DEF Lookup, Fail, Finish
      <3> HIDE DEF saved
      <3>2. call'[k].pc # "answer" /\ \A x \in Caller \ {k} : call'[x] = call[x]
        BY <1>1, <1>2, <3>1 DEF CallRecord
      <3> QED
        BY <3>2 DEF History, At
    <2>5. UNCHANGED told \/ (Completed(op, saved) /\ Told(c, saved))
      BY <1>3 DEF Lookup
    <2>6. ASSUME Completed(op, saved)
          PROVE  saved.status # "none"
      <3>1. saved.status = "none" => saved = NoRecord
        BY <1>1, MigratedTwice DEF History
      <3> QED
        BY <2>6, <3>1 DEF Completed
    <2>7. /\ \A m \in told' : Known(m, Migrated(record[m.credential]))
          /\ ToldConsistently'
      <3>1. CASE UNCHANGED told
        BY <3>1 DEF History, ToldConsistently
      <3>2. CASE Completed(op, saved) /\ Told(c, saved)
        <4> HIDE DEF c
        <4> QED
          BY <1>1, <2>6, <3>2, TellHistory
      <3> QED
        BY <2>5, <3>1, <3>2
    <2>8. \A m \in told' : m.credential \in Credential
      BY NextTypes DEF Next, TypeOK
    <2>9. \A m \in told' : Known(m, Migrated(record'[m.credential]))
      BY <2>2, <2>7, <2>8
    <2> QED
      BY <2>3, <2>4, <2>7, <2>9 DEF History, At
  <1>4. CASE Publish(k)
    <2>1. call'[k].pc = "save" /\ \A x \in Caller \ {k} : call'[x] = call[x]
      BY <1>1, <1>4 DEF Publish, CallRecord
    <2>2. record' = record /\ told' = told
      BY <1>4 DEF Publish
    <2> QED
      BY <2>1, <2>2 DEF History, At, ToldConsistently
  <1>5. CASE Save(k)
    BY <1>5, SaveHistory
  <1>6. CASE Answer(k)
    <2>1. call[k].seen = record[c] /\ call[k].seen.status # "none" /\ call[k].seen.revision \in Nat
      BY <1>6 DEF Answer, At, Turns, Running, History, TypeOK
    <2>2. call[k].seen = Migrated(record[c])
      BY <1>1, <2>1, MigratedTwice
    <2>3. /\ \A m \in told' : Known(m, Migrated(record[m.credential]))
          /\ ToldConsistently'
      BY <1>1, <1>6, <2>1, <2>2, TellHistory DEF Answer
    <2>4. record' = record /\ \A x \in Caller : call'[x].pc = "answer" => call'[x] = call[x]
      BY <1>1, <1>2, <1>6 DEF Answer, Finish
    <2> QED
      BY <2>3, <2>4 DEF History, At
  <1> QED
    BY <1>3, <1>4, <1>5, <1>6 DEF CallStep

(* A request, a failure or a crash tells and saves nothing. *)
LEMMA NextHistory == TypeOK /\ Turns /\ History /\ [Next]_vars => History'
  <1> SUFFICES ASSUME TypeOK, Turns, History, [Next]_vars PROVE History'
    OBVIOUS
  <1>1. CASE \E k \in Caller : CallStep(k)
    BY <1>1, StepHistory
  <1>2. CASE UNCHANGED <<record, told>> /\ \A x \in Caller : call'[x].pc = "answer" => call'[x] = call[x]
    BY <1>2 DEF History, At, ToldConsistently
  <1>3. ASSUME NEW k \in Caller, NEW op \in Operation, NEW c \in Credential,
               NEW e \in Expected \cup {AnyRevision}, Request(k, op, c, e)
        PROVE  History'
    <2>1. \A x \in Caller : call'[x].pc = "answer" => call'[x] = call[x]
      BY <1>3 DEF Request, TypeOK, Idle
    <2> QED
      BY <1>2, <1>3, <2>1 DEF Request
  <1>4. ASSUME NEW k \in Caller, CallFails(k)
        PROVE  History'
    BY <1>2, <1>4 DEF CallFails, Fail, Finish, TypeOK, Idle
  <1>5. CASE Crash
    BY <1>2, <1>5 DEF Crash, Idle
  <1> QED
    BY <1>1, <1>2, <1>3, <1>4, <1>5 DEF Next, vars

(* A record found at the start is absent or has a status. *)
LEMMA FirstRecords ==
  ASSUME Init, NEW c \in Credential
  PROVE  record[c] = NoRecord \/ record[c].status \in Status
  <1>1. \A s \in Status, r \in BOOLEAN : Historical(s, r).status = s
    BY DEF Historical, NoRecord
  <1> QED
    BY <1>1 DEF Init

(* Whatever answers and webhooks got through, one revision of a credential  *)
(* is one record and each change is told as following the one before: the   *)
(* portal can deduplicate and order what it hears by revision.              *)
THEOREM PortalHistoryConsistent == Spec => []ToldConsistently
  <1>1. Init => TypeOK /\ Turns /\ History
    <2> SUFFICES ASSUME Init PROVE History
      BY InitTypes, InitTurns
    <2>1. \A c \in Credential : record[c].status = "none" => record[c] = NoRecord
      BY FirstRecords DEF Status
    <2> QED
      BY <2>1 DEF Init, History, ToldConsistently, At, Idle
  <1>2. TypeOK /\ Turns /\ History /\ [Next]_vars => TypeOK' /\ Turns' /\ History'
    BY NextTypes, NextTurns, NextHistory
  <1>3. History => ToldConsistently
    BY DEF History
  <1> QED
    BY <1>1, <1>2, <1>3, PTL DEF Spec

-----------------------------------------------------------------------------
(* What is known of a list entry by somebody who saw its update number      *)
(* `listedAt` and believes the credential has the status.                   *)
Agrees(listedAt, status, entry) ==
  /\ listedAt <= entry.version
  /\ listedAt = entry.version => (entry.revoked <=> status # "ACTIVE")

(* ListMatches is not inductive: the record about to be saved has to agree  *)
(* with the list as well, and nobody may have seen an update to come.       *)
Listing ==
  /\ \A c \in Credential :
       /\ Agrees(record[c].listedAt, StatusOf(record[c]), list[c])
       /\ troubles = 0 => \/ record[c].listedAt = list[c].version
                          \/ \E k \in Caller : At(k, "save") /\ call[k].credential = c
  /\ \A k \in Caller : At(k, "publish") => call[k].op # "get"
  /\ \A k \in Caller : At(k, "save") =>
       /\ Agrees(call[k].listedAt, Target(call[k].op), list[call[k].credential])
       /\ troubles = 0 => call[k].listedAt = list[call[k].credential].version
       /\ call[k].op = "get" => call[k].listedAt = 0

(* An entry that is updated again is newer than what anybody has seen.      *)
LEMMA NewerEntry ==
  ASSUME NEW listedAt \in Nat, NEW status, NEW entry, entry.version \in Nat,
         Agrees(listedAt, status, entry), NEW new, new.version = entry.version + 1
  PROVE  Agrees(listedAt, status, new)
  BY DEF Agrees

(* The index gets listed as the call's target status asks for.              *)
LEMMA ListedEntry ==
  ASSUME TypeOK, NEW k \in Caller, At(k, "publish"), call[k].op # "get", Listed(k)
  PROVE  LET c == call[k].credential IN
         /\ c \in Credential
         /\ \A x \in Credential \ {c} : list'[x] = list[x]
         /\ list'[c].version = list[c].version + 1
         /\ list'[c].revoked <=> Target(call[k].op) # "ACTIVE"
  <1> DEFINE c == call[k].credential
  <1>1. c \in Credential /\ call[k].op \in {"suspend", "reactivate", "revoke"}
    BY DEF At, TypeOK, CallRecord, Operation
  <1>2. /\ \A x \in Credential \ {c} : list'[x] = list[x]
        /\ list'[c].version = list[c].version + 1
        /\ list'[c].revoked = (call[k].op # "reactivate")
    BY <1>1 DEF Listed, TypeOK
  <1>3. call[k].op # "reactivate" <=> Target(call[k].op) # "ACTIVE"
    BY <1>1 DEF Target
  <1> QED
    BY <1>1, <1>2, <1>3

(* The parts of Listing about the records survive when the list is updated  *)
(* or left and the records keep their status and what they know of it.      *)
LEMMA RecordsAgree ==
  ASSUME TypeOK, Listing, NEW c \in Credential,
         record'[c].listedAt = record[c].listedAt, StatusOf(record'[c]) = StatusOf(record[c]),
         list'[c] = list[c] \/ list'[c].version = list[c].version + 1
  PROVE  Agrees(record'[c].listedAt, StatusOf(record'[c]), list'[c])
  <1>1. record[c].listedAt \in Nat /\ list[c].version \in Nat
    BY DEF TypeOK, LifecycleRecord
  <1>2. Agrees(record[c].listedAt, StatusOf(record[c]), list[c])
    BY DEF Listing
  <1> QED
    BY <1>1, <1>2, NewerEntry

(* A call that finds nothing to publish works from a record whose index is  *)
(* listed as the target status asks for.                                    *)
LEMMA LookupListing ==
  ASSUME TypeOK, Turns, Listing, History, NEW k \in Caller, Lookup(k)
  PROVE  Listing'
  <1> DEFINE c == call[k].credential
             op == call[k].op
             saved == Migrated(record[c])
  <1>1. /\ c \in Credential /\ op \in Operation /\ call[k].pc = "waiting"
        /\ record \in [Credential -> LifecycleRecord]
    BY DEF Lookup, At, TypeOK, CallRecord
  <1>2. list' = list /\ troubles' = troubles /\ \A x \in Credential : record'[x] = Migrated(record[x])
    BY DEF Lookup
  <1>3. \A x \in Credential : record'[x].listedAt = record[x].listedAt /\ StatusOf(record'[x]) = StatusOf(record[x])
    BY <1>1, <1>2, MigratedTwice
  <1>4. \A x \in Credential : Agrees(record'[x].listedAt, StatusOf(record'[x]), list'[x])
    BY <1>2, <1>3, RecordsAgree
  <1>5. /\ \A x \in Caller \ {k} : call'[x] = call[x]
        /\ call'[k].pc \in {"idle", "publish", "save"}
        /\ call'[k].pc # "idle" =>
             /\ call'[k].op = op /\ call'[k].credential = c /\ call'[k].listedAt = saved.listedAt
             /\ call'[k].pc = "save" <=> AlreadyListed(op, saved)
             /\ ~Completed(op, saved)
    <2>1. \/ call' = [call EXCEPT ![k] = Idle]
          \/ /\ ~Completed(op, saved)
             /\ call' = [call EXCEPT ![k].pc = IF AlreadyListed(op, saved) THEN "save" ELSE "publish",
                                     ![k].seen = saved, ![k].listedAt = saved.listedAt]
      BY DEF Lookup, Fail, Finish
    <2>2. Idle.pc = "idle"
      BY DEF Idle
    <2> HIDE DEF saved
    <2> QED
      BY <2>1, <2>2 DEF TypeOK, CallRecord
  <1>6. saved.listedAt = record[c].listedAt /\ StatusOf(saved) = StatusOf(record[c]) /\ saved.status = record[c].status
    BY <1>1, MigratedTwice
  <1>7. CASE call'[k].pc = "save"
    <2>1. op = "get" \/ (op = "revoke" /\ saved.status = "SUSPENDED")
      BY <1>5, <1>7 DEF AlreadyListed
    <2>2. op = "get" => saved = NoRecord
      BY <1>5, <1>7 DEF Completed
    <2>3. (StatusOf(saved) # "ACTIVE") <=> (Target(op) # "ACTIVE")
      BY <2>1, <2>2 DEF StatusOf, NoRecord, Target
    <2>4. op = "get" => saved.listedAt = 0
      BY <2>2 DEF NoRecord
    <2>5. Agrees(saved.listedAt, Target(op), list[c])
      BY <1>1, <1>6, <2>3 DEF Listing, Agrees
    <2>6. ASSUME troubles = 0
          PROVE  saved.listedAt = list[c].version
      <3>1. \A x \in Caller : ~(At(x, "save") /\ call[x].credential = c)
        <4>1. \A x \in Caller : Running(x) => x = k
          BY DEF Turns, Lookup, MyTurn
        <4> QED
          BY <1>1, <4>1 DEF Running, At
      <3> QED
        BY <1>1, <1>6, <2>6, <3>1 DEF Listing
    <2> HIDE DEF saved
    <2> QED
      BY <1>1, <1>2, <1>3, <1>4, <1>5, <1>7, <2>4, <2>5, <2>6 DEF Listing, At
  <1>8. CASE call'[k].pc # "save"
    <2>1. call'[k].pc = "publish" => op # "get"
      BY <1>5 DEF AlreadyListed
    <2> HIDE DEF saved
    <2> QED
      BY <1>1, <1>2, <1>3, <1>4, <1>5, <1>8, <2>1 DEF Listing, At
  <1> QED
    BY <1>7, <1>8

(* The ledger update makes the call the one that knows of it.               *)
LEMMA PublishListing ==
  ASSUME TypeOK, Turns, Listing, NEW k \in Caller, Publish(k)
  PROVE  Listing'
  <1> DEFINE c == call[k].credential
             op == call[k].op
  <1>1. /\ At(k, "publish") /\ op # "get" /\ c \in Credential
        /\ list[c].version \in Nat /\ record' = record /\ troubles' = troubles
    BY DEF Publish, Listing, At, TypeOK
  <1>2. /\ \A x \in Credential \ {c} : list'[x] = list[x]
        /\ list'[c].version = list[c].version + 1
        /\ list'[c].revoked <=> Target(op) # "ACTIVE"
    BY <1>1, ListedEntry DEF Publish
  <1>3. \A x \in Credential : Agrees(record'[x].listedAt, StatusOf(record'[x]), list'[x])
    BY <1>1, <1>2, RecordsAgree
  <1>4. /\ \A x \in Caller \ {k} : call'[x] = call[x] /\ ~At(x, "save")
        /\ call'[k].pc = "save" /\ call'[k].op = op /\ call'[k].credential = c
        /\ call'[k].listedAt = list[c].version + 1
    <2>1. \A x \in Caller : Running(x) => x = k
      BY DEF Turns, Publish, MyTurn
    <2> QED
      BY <2>1 DEF Publish, TypeOK, CallRecord, Running, At
  <1>5. Agrees(list[c].version + 1, Target(op), list'[c])
    BY <1>1, <1>2 DEF Agrees
  <1>6. \A x \in Credential : troubles = 0 =>
          \/ record[x].listedAt = list'[x].version
          \/ \E y \in Caller : call'[y].pc = "save" /\ call'[y].credential = x
    BY <1>2, <1>4 DEF Listing, At
  <1> QED
    BY <1>1, <1>2, <1>3, <1>4, <1>5, <1>6 DEF Listing, At

(* The saved record knows what its call knew.                               *)
LEMMA SaveListing ==
  ASSUME TypeOK, Turns, Listing, NEW k \in Caller, Save(k)
  PROVE  Listing'
  <1> DEFINE c == call[k].credential
             op == call[k].op
             next == IF op = "get" THEN Baseline
                     ELSE Changed(op, call[k].seen, call[k].listedAt, drawn[c] + 1)
  <1>1. At(k, "save") /\ c \in Credential /\ list' = list /\ troubles' = troubles
    BY DEF Save, At, TypeOK
  <1>2. /\ Agrees(call[k].listedAt, Target(op), list[c])
        /\ troubles = 0 => call[k].listedAt = list[c].version
        /\ op = "get" => call[k].listedAt = 0
    BY <1>1 DEF Listing
  <1>3. next.listedAt = call[k].listedAt /\ StatusOf(next) = Target(op)
    BY <1>2 DEF Baseline, NoRecord, Changed, StatusOf, Target
  <1>4. record' = [record EXCEPT ![c] = next] /\ call' = [call EXCEPT ![k].pc = "answer", ![k].seen = next]
    BY DEF Save
  <1> HIDE DEF next
  <1>5. \A x \in Credential : record'[x] = IF x = c THEN next ELSE record[x]
    BY <1>4 DEF TypeOK
  <1>6. /\ \A x \in Caller \ {k} : call'[x] = call[x] /\ ~At(x, "save")
        /\ call'[k].pc = "answer"
    <2>1. \A x \in Caller : Running(x) => x = k
      BY DEF Turns, Save, MyTurn
    <2> QED
      BY <1>4, <2>1 DEF TypeOK, CallRecord, Running, At
  <1>7. ASSUME NEW x \in Credential
        PROVE  /\ Agrees(record'[x].listedAt, StatusOf(record'[x]), list[x])
               /\ troubles = 0 => record'[x].listedAt = list[x].version
    <2>1. CASE x = c
      BY <1>2, <1>3, <1>5, <2>1
    <2>2. CASE x # c
      BY <1>5, <1>6, <2>2 DEF Listing
    <2> QED
      BY <2>1, <2>2
  <1>8. \A x \in Caller : call'[x].pc # "save" /\ (call'[x].pc = "publish" => call'[x].op # "get")
    BY <1>6 DEF Listing, At
  <1> QED
    BY <1>1, <1>7, <1>8 DEF Listing, At

(* Calls that wait, end or fail leave the records: an update of the list    *)
(* that no call gets to know is one of a failure.                           *)
LEMMA OtherListing ==
  ASSUME TypeOK, Listing, record' = record,
         \/ list' = list
         \/ (troubles' # 0 /\ \E k \in Caller : LedgerReached(k)),
         troubles' = 0 => troubles = 0,
         \A x \in Caller : call'[x].pc \in {"publish", "save"} => call'[x] = call[x] /\ list' = list,
         \A x \in Caller : troubles' = 0 /\ At(x, "save") => call'[x] = call[x]
  PROVE  Listing'
  <1>1. \A x \in Credential : list'[x] = list[x] \/ list'[x].version = list[x].version + 1
    BY ListedEntry DEF LedgerReached, Listing
  <1>2. \A x \in Credential : Agrees(record'[x].listedAt, StatusOf(record'[x]), list'[x])
    BY <1>1, RecordsAgree
  <1>3. \A x \in Credential : troubles' = 0 =>
          \/ record[x].listedAt = list'[x].version
          \/ \E y \in Caller : call'[y].pc = "save" /\ call'[y].credential = x
    BY DEF Listing, At
  <1>4. \A x \in Caller : call'[x].pc = "publish" => call'[x].op # "get"
    BY DEF Listing, At
  <1>5. \A x \in Caller : call'[x].pc = "save" =>
          /\ Agrees(call'[x].listedAt, Target(call'[x].op), list'[call'[x].credential])
          /\ troubles' = 0 => call'[x].listedAt = list'[call'[x].credential].version
          /\ call'[x].op = "get" => call'[x].listedAt = 0
    BY DEF Listing, At
  <1> QED
    BY <1>2, <1>3, <1>4, <1>5 DEF Listing, At

(* Every step keeps what is known of the list true.                         *)
LEMMA NextListing == TypeOK /\ Turns /\ History /\ Listing /\ [Next]_vars => Listing'
  <1> SUFFICES ASSUME TypeOK, Turns, History, Listing, [Next]_vars PROVE Listing'
    OBVIOUS
  <1>1. Idle.pc = "idle" /\ troubles \in Nat
    BY DEF Idle, TypeOK
  <1>2. ASSUME NEW k \in Caller, CallStep(k)
        PROVE  Listing'
    <2>1. CASE Answer(k)
      <3>1. \A x \in Caller : x # k => call'[x] = call[x]
        BY <2>1 DEF Answer, Finish
      <3>2. call[k].pc = "answer" /\ call'[k].pc = "idle"
        BY <1>1, <2>1 DEF Answer, Finish, At, TypeOK
      <3>3. record' = record /\ list' = list /\ troubles' = troubles
        BY <2>1 DEF Answer
      <3> QED
        BY <3>1, <3>2, <3>3, OtherListing DEF At
    <2> QED
      BY <1>2, <2>1, LookupListing, PublishListing, SaveListing DEF CallStep
  <1>3. ASSUME NEW k \in Caller, NEW op \in Operation, NEW c \in Credential,
               NEW e \in Expected \cup {AnyRevision}, Request(k, op, c, e)
        PROVE  Listing'
    <2>1. \A x \in Caller : x # k => call'[x] = call[x]
      BY <1>3 DEF Request
    <2>2. call[k].pc = "idle" /\ call'[k].pc = "waiting"
      BY <1>3 DEF Request, At, TypeOK, Idle
    <2>3. record' = record /\ list' = list /\ troubles' = troubles
      BY <1>3 DEF Request
    <2> QED
      BY <2>1, <2>2, <2>3, OtherListing DEF At
  <1>4. ASSUME NEW k \in Caller, CallFails(k)
        PROVE  Listing'
    <2>1. troubles' # 0 /\ record' = record /\ (list' = list \/ LedgerReached(k))
      BY <1>1, <1>4 DEF CallFails
    <2>2. (\A x \in Caller : x # k => call'[x] = call[x]) /\ call'[k].pc = "idle"
      BY <1>1, <1>4 DEF CallFails, Fail, Finish, TypeOK
    <2>3. \A x \in Caller : Running(x) => x = k
      BY <1>4 DEF Turns, CallFails, MyTurn
    <2>4. \A x \in Caller : call'[x].pc \notin {"publish", "save"}
      BY <2>2, <2>3 DEF Running
    <2> QED
      BY <2>1, <2>4, OtherListing
  <1>5. CASE Crash
    <2>1. troubles' # 0 /\ record' = record /\ (list' = list \/ \E k \in Caller : LedgerReached(k))
      BY <1>1, <1>5 DEF Crash
    <2>2. \A x \in Caller : call'[x].pc = "idle"
      BY <1>1, <1>5 DEF Crash
    <2> QED
      BY <2>1, <2>2, OtherListing
  <1>6. CASE UNCHANGED vars
    BY <1>6, OtherListing DEF vars
  <1> QED
    BY <1>2, <1>3, <1>4, <1>5, <1>6 DEF Next

(* A saved record that knows of the last update of its index agrees with    *)
(* the public status list, and while no call has failed and nothing has     *)
(* crashed every record that no call is about to replace does know.         *)
THEOREM ListAgrees == Spec => []ListMatches
  <1>1. Init => TypeOK /\ Turns /\ History /\ Listing
    <2> SUFFICES ASSUME Init PROVE History /\ Listing
      BY InitTypes, InitTurns
    <2>1. ASSUME NEW c \in Credential
          PROVE  /\ record[c].status = "none" => record[c] = NoRecord
                 /\ Agrees(record[c].listedAt, StatusOf(record[c]), list[c])
                 /\ record[c].listedAt = list[c].version
      <3>1. list[c].version = record[c].listedAt /\ (list[c].revoked = (record[c].status \in {"SUSPENDED", "REVOKED"}))
        BY DEF Init
      <3>2. record[c].listedAt \in Nat
        BY InitTypes DEF TypeOK, LifecycleRecord
      <3>3. (record[c].status \in {"SUSPENDED", "REVOKED"}) <=> StatusOf(record[c]) # "ACTIVE"
        BY FirstRecords DEF StatusOf, NoRecord, Status
      <3>4. record[c].status = "none" => record[c] = NoRecord
        BY FirstRecords DEF Status
      <3>5. list[c].revoked <=> StatusOf(record[c]) # "ACTIVE"
        BY <3>1, <3>3, Zenon
      <3>6. record[c].listedAt <= list[c].version
        BY <3>1, <3>2
      <3> QED
        BY <3>1, <3>4, <3>5, <3>6, Zenon DEF Agrees
    <2> QED
      BY <2>1 DEF Init, History, Listing, ToldConsistently, At, Idle
  <1>2. TypeOK /\ Turns /\ History /\ Listing /\ [Next]_vars => TypeOK' /\ Turns' /\ History' /\ Listing'
    BY NextTypes, NextTurns, NextHistory, NextListing
  <1>3. Listing => ListMatches
    BY DEF Listing, Agrees, ListMatches
  <1> QED
    BY <1>1, <1>2, <1>3, PTL DEF Spec
=============================================================================
