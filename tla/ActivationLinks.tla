--------------------------- MODULE ActivationLinks ---------------------------
(***************************************************************************)
(* Batches of credential offers and the activation links students get for  *)
(* them: activationLinkService.ts, the records of activationStore.ts, the  *)
(* offers and revocation indexes of credentialService.ts, the workers of   *)
(* batchConcurrency.ts and the resolution in walletActivationService.ts.   *)
(*                                                                         *)
(* A step is what happens between two awaits; one operation of a JSON      *)
(* store is one step (OperationQueue shows why it may be).  Batches of     *)
(* links run one after the other, batches of plain offers beside them, and *)
(* every batch offers with several workers.  A crash loses the requests in *)
(* progress; the activation file, the index file and Credo's exchanges     *)
(* survive.                                                                *)
(*                                                                         *)
(* Left out: attributes, names and addresses, batches without a registry,  *)
(* and an exchange whose invitation failed, which reaches nobody.          *)
(***************************************************************************)
EXTENDS Integers, Sequences, FiniteSetsExt

CONSTANTS
  Caller,       \* requests that may be in progress at once
  Keyed,        \* students with an idempotency key, each its own,
  Unkeyed,      \* and students without one
  Request,      \* the batches the portal may send: [kind, batch], for links or plain offers
  Concurrency,  \* config.activations.batchConcurrency
  Maximum,      \* maxCredNum of the revocation registry, an exclusive bound
  Ttl,          \* ACTIVATION_TOKEN_TTL_HOURS, in clock units
  MaxRequests,  \* bound: how many batches are sent
  MaxTime,      \* bound: the clock stops here
  MaxTroubles   \* bound: how many calls fail and how often the process stops

Student == Keyed \cup Unkeyed

(* The route refuses an empty batch and a key that occurs twice.            *)
Acceptable(batch) ==
  /\ batch # <<>>
  /\ \A i, j \in DOMAIN batch : batch[i] = batch[j] /\ batch[i] \in Keyed => i = j

ASSUME RequestAssumption ==
  \A r \in Request : r.kind \in {"links", "offers"} /\ r.batch \in Seq(Student) /\ Acceptable(r.batch)
ASSUME NumbersAssumption ==
  /\ Keyed \cap Unkeyed = {}
  /\ Concurrency \in Nat \ {0} /\ Maximum \in Nat \ {0, 1} /\ Ttl \in Nat \ {0}
  /\ MaxRequests \in Nat /\ MaxTime \in Nat /\ MaxTroubles \in Nat

VARIABLES
  clock,
  activations,  \* the activation file: a sequence of records
  nextIndex,    \* the registry's counter in the revocation index file
  exchanges,    \* Credo: the offers created, in order: [student, index]
  queue,        \* operationQueue of the service: batches of links, in order
  job,          \* the request each caller is waiting for
  answered,     \* history: the offers callers were told of
  requests, troubles

vars == <<clock, activations, nextIndex, exchanges, queue, job, answered, requests, troubles>>

Absent == [exchange |-> 0]
Pending == -1
Failed == 0

Idle == [at |-> "idle"]
Asked(r) == [at |-> "asked", kind |-> r.kind, batch |-> r.batch, time |-> 0,
             found |-> <<>>, first |-> 0, results |-> <<>>]

Init ==
  /\ clock = 0 /\ activations = <<>> /\ nextIndex = 1 /\ exchanges = <<>>
  /\ queue = <<>> /\ job = [c \in Caller |-> Idle] /\ answered = {}
  /\ requests = 0 /\ troubles = 0

(* The place of a position among those of a set, in their order.            *)
Rank(i, S) == Cardinality({m \in S : m <= i})
InOrder(f, S) == [k \in 1 .. Cardinality(S) |-> f[CHOOSE i \in S : Rank(i, S) = k]]

(* tokenForIdempotencyKey derives the token from the key; other tokens are  *)
(* random, as unique as the exchange they are made for.                     *)
TokenFor(student, exchange) ==
  IF student \in Keyed THEN [derived |-> TRUE, from |-> student] ELSE [derived |-> FALSE, from |-> exchange]

Record(student, exchange, expiresAt) ==
  [student |-> student, token |-> TokenFor(student, exchange), exchange |-> exchange, expiresAt |-> expiresAt]

(* findByIdempotencyKeyHashes: of several records with one key, the last.   *)
FindByKey(student) ==
  LET found == {n \in DOMAIN activations : activations[n].student = student}
  IN IF student \in Keyed /\ found # {} THEN activations[Max(found)] ELSE Absent

(* findByToken and the expiry check of resolve: the exchange the wallet is  *)
(* sent to, 0 for a refusal.                                                *)
Resolve(token) ==
  LET found == {n \in DOMAIN activations : activations[n].token = token}
      first == activations[Min(found)]
  IN IF found # {} /\ clock < first.expiresAt THEN first.exchange ELSE 0

(* createBatchActivationLinks queues a batch; createBatchOfferInvitations   *)
(* runs at once.                                                            *)
Ask(c, r) ==
  /\ job[c] = Idle /\ requests < MaxRequests
  /\ job' = [job EXCEPT ![c] = Asked(r)]
  /\ queue' = IF r.kind = "links" THEN Append(queue, c) ELSE queue
  /\ requests' = requests + 1
  /\ UNCHANGED <<clock, activations, nextIndex, exchanges, answered, troubles>>

(* Mutant: batches of links overlap.                                        *)
AnyTurn(c) == TRUE

MyTurn(c) == job[c].kind = "links" => queue # <<>> /\ Head(queue) = c

(* Look up the keys of the batch and take the batch's time.                 *)
Lookup(c) ==
  /\ job[c].at = "asked" /\ MyTurn(c)
  /\ job' = [job EXCEPT ![c].at = "looked up", ![c].time = clock,
               ![c].found = [i \in DOMAIN job[c].batch |->
                               IF job[c].kind = "links" THEN FindByKey(job[c].batch[i]) ELSE Absent]]
  /\ UNCHANGED <<clock, activations, nextIndex, exchanges, queue, answered, requests, troubles>>

(* studentsToIssue: the positions of the batch that need a new offer.       *)
ToIssue(j) == {i \in DOMAIN j.batch : j.found[i] = Absent}

RegistryFull(j) == nextIndex + Cardinality(ToIssue(j)) > Maximum

(* prepareRevocationIndexes: one index per missing offer, all or none; and  *)
(* nothing when none is missing.                                            *)
Reserve(c) ==
  LET n == Cardinality(ToIssue(job[c]))
  IN /\ job[c].at = "looked up" /\ (n = 0 \/ ~RegistryFull(job[c]))
     /\ nextIndex' = nextIndex + n
     /\ job' = [job EXCEPT ![c].at = "offering", ![c].first = nextIndex,
                  ![c].results = [i \in ToIssue(job[c]) |-> Pending]]
     /\ UNCHANGED <<clock, activations, exchanges, queue, answered, requests, troubles>>

(* mapWithConcurrency: the offers being made now; every worker that is done *)
(* takes the next student.                                                  *)
Running(j) ==
  LET done == Cardinality({i \in DOMAIN j.results : j.results[i] # Pending})
  IN {i \in DOMAIN j.results : j.results[i] = Pending /\ Rank(i, DOMAIN j.results) <= Concurrency + done}

(* Mutant: results in the order in which the workers finish.                *)
FinishingOrder(j, i) == Min({k \in DOMAIN j.results : j.results[k] = Pending})

(* Where the result of the offer for the i-th student goes: "write the      *)
(* result at that index to preserve input order".                           *)
Slot(j, i) == i

(* createOfferInvitationWithRevocation ends; a failure is this student's.   *)
OfferMade(c, i) ==
  /\ job[c].at = "offering" /\ i \in Running(job[c])
  /\ exchanges' = Append(exchanges, [student |-> job[c].batch[i],
                                     index |-> job[c].first + Rank(i, ToIssue(job[c])) - 1])
  /\ job' = [job EXCEPT ![c].results[Slot(job[c], i)] = Len(exchanges) + 1]
  /\ UNCHANGED <<clock, activations, nextIndex, queue, answered, requests, troubles>>

OfferFailed(c, i) ==
  /\ job[c].at = "offering" /\ i \in Running(job[c])
  /\ troubles < MaxTroubles /\ troubles' = troubles + 1
  /\ job' = [job EXCEPT ![c].results[Slot(job[c], i)] = Failed]
  /\ UNCHANGED <<clock, activations, nextIndex, exchanges, queue, answered, requests>>

(* The exchange of each student of the batch, found or made; Failed for a   *)
(* student whose offer failed.                                              *)
Outcome(j, i) ==
  IF j.found[i] # Absent THEN j.found[i].exchange ELSE j.results[i]

Successes(j) == {i \in DOMAIN j.batch : Outcome(j, i) # Failed}

(* recordsToSave: replayed records with a new expiry, and new ones.         *)
RecordsToSave(j) == [i \in Successes(j) |-> Record(j.batch[i], Outcome(j, i), j.time + Ttl)]

(* Mutant: replayed records are appended as well.                           *)
AppendAll(saved, records) == saved \o InOrder(records, DOMAIN records)

(* saveMany: replace the records the file has, append the others.           *)
SaveMany(saved, records) ==
  LET Same(n) == {i \in DOMAIN records : records[i].exchange = saved[n].exchange}
      added == {i \in DOMAIN records : \A n \in DOMAIN saved : i \notin Same(n)}
  IN [n \in DOMAIN saved |-> IF Same(n) = {} THEN saved[n] ELSE records[Max(Same(n))]]
       \o InOrder(records, added)

Save(c) ==
  /\ job[c].at = "offering" /\ Running(job[c]) = {}
  /\ activations' = IF job[c].kind = "links" THEN SaveMany(activations, RecordsToSave(job[c])) ELSE activations
  /\ job' = [job EXCEPT ![c].at = "saved"]
  /\ UNCHANGED <<clock, nextIndex, exchanges, queue, answered, requests, troubles>>

Leave(c) ==
  /\ job' = [job EXCEPT ![c] = Idle]
  /\ queue' = IF job[c].kind = "links" THEN Tail(queue) ELSE queue

(* The answer lists the offers in the order of the students.                *)
Answer(c) ==
  /\ job[c].at = "saved"
  /\ LET records == RecordsToSave(job[c])
     IN answered' = answered \cup {[kind |-> job[c].kind, record |-> records[i]] : i \in DOMAIN records}
  /\ Leave(c)
  /\ UNCHANGED <<clock, activations, nextIndex, exchanges, requests, troubles>>

(* Mutant: a failed batch keeps its place in the queue.                     *)
StayQueued(c) == job' = [job EXCEPT ![c] = Idle] /\ UNCHANGED queue

(* A failed batch makes room for the next one.                              *)
AfterFailure(c) == Leave(c)

(* The registry has too few indexes left, or a call to a file or the ledger *)
(* fails: the whole batch does.                                             *)
Fail(c) ==
  /\ \/ job[c].at = "looked up" /\ ToIssue(job[c]) # {} /\ RegistryFull(job[c]) /\ UNCHANGED troubles
     \/ /\ \/ job[c].kind = "links" /\ job[c].at = "asked" /\ MyTurn(c)
           \/ job[c].at = "looked up" /\ ToIssue(job[c]) # {}
           \/ /\ job[c].kind = "links" /\ job[c].at = "offering"
              /\ Running(job[c]) = {} /\ Successes(job[c]) # {}
        /\ troubles < MaxTroubles /\ troubles' = troubles + 1
  /\ AfterFailure(c)
  /\ UNCHANGED <<clock, activations, nextIndex, exchanges, answered, requests>>

Crash ==
  /\ troubles < MaxTroubles /\ troubles' = troubles + 1
  /\ queue' = <<>> /\ job' = [c \in Caller |-> Idle]
  /\ UNCHANGED <<clock, activations, nextIndex, exchanges, answered, requests>>

Tick ==
  /\ clock < MaxTime /\ clock' = clock + 1
  /\ UNCHANGED <<activations, nextIndex, exchanges, queue, job, answered, requests, troubles>>

Offer(c) == \E i \in DOMAIN job[c].results : OfferMade(c, i) \/ OfferFailed(c, i)

Step(c) ==
  /\ job[c] # Idle
  /\ Lookup(c) \/ Reserve(c) \/ Offer(c) \/ Save(c) \/ Answer(c) \/ Fail(c)

Next ==
  \/ Crash \/ Tick
  \/ \E c \in Caller : Step(c) \/ \E r \in Request : Ask(c, r)

(* Every call to Credo, the ledger and the files returns in the end.        *)
Spec == Init /\ [][Next]_vars /\ \A c \in Caller : WF_vars(Step(c))

-----------------------------------------------------------------------------

(* A request key names one instruction: whatever is retried, repeated,      *)
(* interrupted by a restart or sent twice at once, every link the portal is *)
(* told for it leads to one and the same exchange (operationQueue,          *)
(* findByIdempotencyKeyHashes).                                             *)
OneOfferPerKey ==
  \A a, b \in answered :
    a.kind = "links" /\ b.kind = "links" /\ a.record.student = b.record.student /\ a.record.student \in Keyed =>
      a.record.exchange = b.record.exchange

(* A link the portal was told of works until the expiry it was told, and    *)
(* leads to the exchange it was told: no other batch, replay, crash or      *)
(* failed save takes it away (saveMany, resolve).                           *)
LinksResolve ==
  \A a \in answered :
    a.kind = "links" /\ clock < a.record.expiresAt => Resolve(a.record.token) = a.record.exchange

(* Students get their own offers, whatever the order in which the workers   *)
(* finish and whichever offers fail, and no two offers share an index of    *)
(* the registry (mapWithConcurrency, createBatchOfferResults).              *)
OffersMatch ==
  /\ \A a \in answered : exchanges[a.record.exchange].student = a.record.student
  /\ \A m, n \in DOMAIN exchanges :
       /\ exchanges[m].index \in 1 .. Maximum - 1
       /\ exchanges[m].index = exchanges[n].index => m = n

(* Every batch is answered or refused, unless the process stops: its        *)
(* workers come to an end, and a batch that fails does not keep the next    *)
(* one waiting.                                                             *)
EveryBatchEnds == \A c \in Caller : job[c] # Idle ~> job[c] = Idle
==============================================================================
