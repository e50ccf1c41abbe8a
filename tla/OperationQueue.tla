--------------------------- MODULE OperationQueue ---------------------------
(***************************************************************************)
(* The queue and the file replacement that all four stores of the agent    *)
(* share (withLock, readState and writeState of verificationStore.ts, and  *)
(* their copies in activationStore.ts, revocationIndexStore.ts and         *)
(* credentialLifecycleStore.ts).  An operation reads the whole document,   *)
(* and, if it changes it, writes a temporary file and renames it over the  *)
(* old one.  Any of these calls may fail, and the process may stop between *)
(* any two of them; the files survive.  The activation store's two lookups *)
(* (findByToken, findByIdempotencyKeyHashes) do not queue: they read the   *)
(* file once, whole, whoever is writing, and are left out here.            *)
(***************************************************************************)
EXTENDS Integers, Sequences

CONSTANTS
  Caller,        \* requests that may use the store at once
  Operation,     \* the operations of the store, with their parameters
  Contents,      \* what a whole file may hold
  Empty,         \* what a missing file counts as
  Answer,        \* what an operation may answer
  Result(_, _),  \* Result(op, contents): [writes, contents, answer]
  MaxCalls,      \* bound: how many operations are asked for in all
  MaxTroubles    \* bound: how many calls to the disk fail and how often the process stops

ASSUME QueueNumbers == MaxCalls \in Nat /\ MaxTroubles \in Nat
ASSUME ResultAssumption ==
  /\ Empty \in Contents
  /\ \A op \in Operation, c \in Contents :
       /\ Result(op, c) \in [writes : BOOLEAN, contents : Contents, answer : Answer]
       /\ ~Result(op, c).writes => Result(op, c).contents = c

VARIABLES
  file,      \* the document at the configured path
  temp,      \* the temporary document being written
  queue,     \* operationQueue: the callers whose operation has not settled, in order
  call,      \* what each caller is waiting for
  returned,  \* history: the answers callers received
  asked,     \* how many operations were asked for
  troubles   \* failures and stops so far

vars == <<file, temp, queue, call, returned, asked, troubles>>

(* A missing file counts as empty; in the activation store so does a        *)
(* document that has no list of activations (readAll).                      *)
Missing == [state |-> "missing", contents |-> Empty]
Torn == [state |-> "torn", contents |-> Empty]
Whole(c) == [state |-> "whole", contents |-> c]
Document == {Missing, Torn} \cup {Whole(c) : c \in Contents}

Idle == [at |-> "idle"]
Queued(op) == [at |-> "queued", op |-> op]
Holding(at, op, result) == [at |-> at, op |-> op, result |-> result]
Results == [writes : BOOLEAN, contents : Contents, answer : Answer]
Call == {Idle} \cup [at : {"queued"}, op : Operation]
               \cup [at : {"changed", "writing", "written", "settled"}, op : Operation, result : Results]

(* The document, the queue and the calls are well-formed.                   *)
TypeOK ==
  /\ file \in Document /\ temp \in Document
  /\ queue \in Seq(Caller) /\ call \in [Caller -> Call]
  /\ returned \in Seq([op : Operation, answer : Answer])
  /\ asked \in 0..MaxCalls /\ troubles \in 0..MaxTroubles

(* On the first boot there is no file; what is there may also be damaged.   *)
Init ==
  /\ file \in {Missing, Torn} /\ temp = Missing
  /\ queue = <<>> /\ call = [c \in Caller |-> Idle]
  /\ returned = <<>> /\ asked = 0 /\ troubles = 0

(* withLock: chain the operation after the previous one.                    *)
Ask(c, op) ==
  /\ call[c] = Idle /\ asked < MaxCalls
  /\ call' = [call EXCEPT ![c] = Queued(op)]
  /\ queue' = Append(queue, c)
  /\ asked' = asked + 1
  /\ UNCHANGED <<file, temp, returned, troubles>>

(* Mutant: an operation runs as soon as it is asked for.                    *)
AnyTurn(c) == TRUE

MyTurn(c) == queue # <<>> /\ Head(queue) = c

Move(c, at) == call' = [call EXCEPT ![c] = Holding(at, call[c].op, call[c].result)]

(* readState, and the operation itself, which runs without an await up to   *)
(* its write.  A document that is not whole is refused (see Fail).          *)
Load(c) ==
  /\ call[c].at = "queued" /\ MyTurn(c) /\ file.state # "torn"
  /\ LET result == Result(call[c].op, file.contents)
     IN call' = [call EXCEPT ![c] = Holding(IF result.writes THEN "changed" ELSE "settled",
                                            call[c].op, result)]
  /\ UNCHANGED <<file, temp, queue, returned, asked, troubles>>

(* Mutant: the document is written at its own path.                         *)
InPlace(document) == file' = document /\ UNCHANGED temp

(* writeState: writeFile leaves a part of the document, then all of it, at  *)
(* the temporary path.                                                      *)
WriteTo(document) == temp' = document /\ UNCHANGED file

BeginWrite(c) ==
  /\ call[c].at = "changed"
  /\ WriteTo(Torn) /\ Move(c, "writing")
  /\ UNCHANGED <<queue, returned, asked, troubles>>

FinishWrite(c) ==
  /\ call[c].at = "writing"
  /\ WriteTo(Whole(call[c].result.contents)) /\ Move(c, "written")
  /\ UNCHANGED <<queue, returned, asked, troubles>>

Rename(c) ==
  /\ call[c].at = "written"
  /\ file' = temp /\ temp' = Missing /\ Move(c, "settled")
  /\ UNCHANGED <<queue, returned, asked, troubles>>

(* The promise settles: the caller hears of it and the next one may run.    *)
Leave(c) ==
  /\ queue' = Tail(queue)
  /\ call' = [call EXCEPT ![c] = Idle]

Return(c) ==
  /\ call[c].at = "settled"
  /\ returned' = Append(returned, [op |-> call[c].op, answer |-> call[c].result.answer])
  /\ Leave(c)
  /\ UNCHANGED <<file, temp, asked, troubles>>

(* Mutant: a failed operation poisons the queue.                            *)
StayQueued(c) == call' = [call EXCEPT ![c] = Idle] /\ UNCHANGED queue

(* A read of a document that does not parse, or of one that the store's     *)
(* readState refuses, or a read, write or rename that the disk refuses,     *)
(* rejects this operation only.                                             *)
AfterFailure(c) == Leave(c)

Fail(c) ==
  /\ MyTurn(c) /\ call[c].at # "settled"
  /\ \/ file.state = "torn" /\ call[c].at = "queued" /\ UNCHANGED troubles
     \/ troubles < MaxTroubles /\ troubles' = troubles + 1
  /\ AfterFailure(c)
  /\ UNCHANGED <<file, temp, returned, asked>>

Crash ==
  /\ troubles < MaxTroubles /\ troubles' = troubles + 1
  /\ queue' = <<>> /\ call' = [c \in Caller |-> Idle]
  /\ UNCHANGED <<file, temp, returned, asked>>

Step(c) == Load(c) \/ BeginWrite(c) \/ FinishWrite(c) \/ Rename(c) \/ Return(c) \/ Fail(c)

Next == Crash \/ \E c \in Caller : Step(c) \/ \E op \in Operation : Ask(c, op)

(* The event loop runs every operation whose turn it is; callers ask when   *)
(* they like.                                                               *)
Spec == Init /\ [][Next]_vars /\ \A c \in Caller : WF_vars(Step(c))

Abstract == INSTANCE AtomicFile WITH
  contents <- file.contents,
  call <- [c \in Caller |->
             CASE call[c].at = "idle" -> [at |-> "idle"]
               [] call[c].at = "settled" -> [at |-> "done", op |-> call[c].op, answer |-> call[c].result.answer]
               [] OTHER -> [at |-> "asked", op |-> call[c].op]]

(* To its callers the file behaves as if every operation happened at once   *)
(* and alone, or not at all: no interleaving, failure or crash loses an     *)
(* update or shows a partly written document.                               *)
ImplementsAtomicFile == Abstract!Spec

(* "A failed operation must not poison the queue": whoever asks gets an     *)
(* answer or an error, unless the process stops.                            *)
EveryOperationEnds == \A c \in Caller : call[c] # Idle ~> call[c] = Idle

==============================================================================
