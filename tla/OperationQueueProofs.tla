------------------------ MODULE OperationQueueProofs ------------------------
(***************************************************************************)
(* OperationQueue implements AtomicFile, for any callers, operations and   *)
(* contents, and any number of failures and restarts.                      *)
(***************************************************************************)
EXTENDS OperationQueue, TLAPS

(* A caller past its turn: it has read the document.                        *)
Running(c) == call[c].at \in {"changed", "writing", "written", "settled"}

(* One operation at a time, by the queue; what it computed from the         *)
(* document is still what it would compute from it now; and what it renames *)
(* is the whole of what it computed.                                        *)
Alone == \A c \in Caller : Running(c) => MyTurn(c)
Fresh ==
  \A c \in Caller :
    call[c].at \in {"changed", "writing", "written"} =>
      call[c].result = Result(call[c].op, file.contents) /\ call[c].result.writes
Ready ==
  \A c \in Caller : call[c].at = "written" => temp = Whole(call[c].result.contents)

Serial == TypeOK /\ Alone /\ Fresh /\ Ready

(* The documents and calls the actions build are well-formed.               *)
LEMMA Shapes ==
  /\ Missing \in Document /\ Torn \in Document /\ \A x \in Contents : Whole(x) \in Document
  /\ Idle \in Call /\ Idle.at = "idle"
  /\ \A d \in Document : d.contents \in Contents
  <1>1. Missing \in Document /\ Torn \in Document /\ \A x \in Contents : Whole(x) \in Document
    BY DEF Document
  <1>2. Idle \in Call /\ Idle.at = "idle"
    BY DEF Call, Idle
  <1>3. Missing.contents = Empty /\ Torn.contents = Empty /\ \A x \in Contents : Whole(x).contents = x
    BY DEF Missing, Torn, Whole
  <1>4. \A d \in Document : d = Missing \/ d = Torn \/ \E x \in Contents : d = Whole(x)
    BY DEF Document
  <1>5. \A d \in Document : d.contents \in Contents
    BY <1>3, <1>4, ResultAssumption
  <1> QED
    BY <1>1, <1>2, <1>5

(* What a call carries at each of its points.                               *)
LEMMA CallShape ==
  ASSUME NEW x \in Call
  PROVE  /\ x.at \in {"idle", "queued", "changed", "writing", "written", "settled"}
         /\ x.at = "idle" => x = Idle
         /\ x.at # "idle" => x.op \in Operation
         /\ x.at \notin {"idle", "queued"} => x.result \in Results
  BY DEF Call, Idle

(* What a caller past its read carries.                                     *)
LEMMA HoldingShape ==
  ASSUME NEW at \in {"changed", "writing", "written", "settled"}, NEW op \in Operation, NEW result \in Results
  PROVE  /\ Holding(at, op, result) \in Call
         /\ Holding(at, op, result).at = at /\ Holding(at, op, result).op = op
         /\ Holding(at, op, result).result = result
  BY DEF Holding, Call

(* What a caller that waits carries.                                        *)
LEMMA QueuedShape ==
  ASSUME NEW op \in Operation
  PROVE  Queued(op) \in Call /\ Queued(op).at = "queued" /\ Queued(op).op = op
  BY DEF Queued, Call

(* Any operation on any document has a typed result.                        *)
LEMMA ResultShape ==
  ASSUME NEW op \in Operation, NEW d \in Document
  PROVE  /\ d.contents \in Contents /\ Result(op, d.contents) \in Results
         /\ Result(op, d.contents).contents \in Contents /\ Result(op, d.contents).writes \in BOOLEAN
         /\ Result(op, d.contents).answer \in Answer
         /\ ~Result(op, d.contents).writes => Result(op, d.contents).contents = d.contents
  BY Shapes, ResultAssumption DEF Results

-----------------------------------------------------------------------------
(* The strengthened invariant, one lemma per group of actions.              *)

(* There is no caller at the start.                                         *)
LEMMA SerialInit == Init => Serial
  BY Shapes, QueueNumbers DEF Init, Serial, TypeOK, Alone, Fresh, Ready, Running, Document, Missing, Torn, Idle

(* Whoever asks goes to the end of the queue.                               *)
LEMMA SerialAsk ==
  ASSUME Serial, NEW c \in Caller, NEW op \in Operation, Ask(c, op)
  PROVE  Serial'
  <1>1. \A d \in Caller : call'[d] = IF d = c THEN Queued(op) ELSE call[d]
    BY DEF Ask, Serial, TypeOK
  <1>2. TypeOK'
    <2>1. call' \in [Caller -> Call] /\ queue' \in Seq(Caller)
      BY QueuedShape DEF Ask, Serial, TypeOK
    <2> QED
      BY <2>1, QueueNumbers DEF Ask, Serial, TypeOK
  <1>3. Alone'
    <2> SUFFICES ASSUME NEW d \in Caller, Running(d)' PROVE MyTurn(d)'
      BY DEF Alone
    <2>1. d # c /\ Running(d)
      BY <1>1, QueuedShape DEF Running
    <2>2. queue \in Seq(Caller) /\ queue # <<>> /\ Head(queue) = d
      BY <2>1 DEF Serial, TypeOK, Alone, MyTurn
    <2>3. queue' = Append(queue, c)
      BY DEF Ask
    <2> QED
      BY <2>2, <2>3 DEF MyTurn
  <1>4. Fresh' /\ Ready'
    BY <1>1, QueuedShape DEF Ask, Serial, Fresh, Ready
  <1> QED
    BY <1>2, <1>3, <1>4 DEF Serial

(* A caller that leaves takes its place at the head of the queue with it:   *)
(* nobody else was running.                                                 *)
LEMMA SerialLeave ==
  ASSUME Serial, NEW c \in Caller, MyTurn(c), Leave(c), UNCHANGED <<file, temp>>,
         returned' \in Seq([op : Operation, answer : Answer]),
         asked' \in 0..MaxCalls, troubles' \in 0..MaxTroubles
  PROVE  Serial'
  <1>1. \A d \in Caller : call'[d] = IF d = c THEN Idle ELSE call[d]
    BY DEF Leave, Serial, TypeOK
  <1>2. \A d \in Caller : ~Running(d)'
    BY <1>1, Shapes DEF Running, Serial, Alone, MyTurn
  <1>3. call' \in [Caller -> Call]
    BY Shapes DEF Leave, Serial, TypeOK
  <1>4. queue' \in Seq(Caller)
    BY DEF Leave, MyTurn, Serial, TypeOK
  <1>5. TypeOK'
    BY <1>3, <1>4 DEF Serial, TypeOK
  <1> QED
    BY <1>2, <1>5 DEF Serial, Alone, Fresh, Ready, Running

(* Whoever reads is alone.                                                  *)
LEMMA SerialLoad ==
  ASSUME Serial, NEW c \in Caller, Load(c)
  PROVE  Serial'
  <1> DEFINE result == Result(call[c].op, file.contents)
             at == IF result.writes THEN "changed" ELSE "settled"
  <1>1. call[c] \in Call /\ call[c].op \in Operation /\ file \in Document /\ call[c].at = "queued" /\ MyTurn(c)
    BY CallShape DEF Load, Serial, TypeOK
  <1>2. result \in Results
    BY <1>1, ResultShape
  <1>3. Holding(at, call[c].op, result) \in Call
    BY <1>1, <1>2, HoldingShape
  <1>4. \A d \in Caller : call'[d] = IF d = c THEN Holding(at, call[c].op, result) ELSE call[d]
    BY DEF Load, Serial, TypeOK
  <1>5. TypeOK'
    BY <1>3 DEF Load, Serial, TypeOK
  <1>6. \A d \in Caller \ {c} : ~Running(d)
    BY <1>1 DEF Serial, Alone, MyTurn
  <1>7. Alone'
    BY <1>1, <1>4, <1>6 DEF Alone, Running, MyTurn, Load
  <1>8. Holding(at, call[c].op, result).at = at /\ Holding(at, call[c].op, result).op = call[c].op
        /\ Holding(at, call[c].op, result).result = result
    BY <1>1, <1>2, HoldingShape
  <1>9. file' = file
    BY DEF Load
  <1>10. Fresh'
    BY <1>4, <1>6, <1>8, <1>9 DEF Fresh, Running
  <1>11. Ready'
    BY <1>4, <1>6, <1>8 DEF Ready, Running
  <1> QED
    BY <1>5, <1>7, <1>10, <1>11 DEF Serial

(* The three steps of replacing the document.                               *)
LEMMA SerialWrite ==
  ASSUME Serial, NEW c \in Caller, BeginWrite(c) \/ FinishWrite(c) \/ Rename(c)
  PROVE  Serial'
  <1> DEFINE at == IF BeginWrite(c) THEN "writing" ELSE IF FinishWrite(c) THEN "written" ELSE "settled"
             held == Holding(at, call[c].op, call[c].result)
  <1>1. /\ call[c] \in Call /\ call[c].op \in Operation /\ call[c].result \in Results
        /\ MyTurn(c) /\ call[c].result = Result(call[c].op, file.contents) /\ call[c].result.writes
    BY CallShape DEF BeginWrite, FinishWrite, Rename, Serial, TypeOK, Alone, Fresh, Running
  <1>2. call[c].result.contents \in Contents
    BY <1>1 DEF Results
  <1>3. call' = [call EXCEPT ![c] = held] /\ UNCHANGED <<queue, returned, asked, troubles>>
    BY DEF BeginWrite, FinishWrite, Rename, Move
  <1>4. held \in Call /\ held.at = at /\ held.op = call[c].op /\ held.result = call[c].result
    BY <1>1, HoldingShape
  <1>5. \A d \in Caller : call'[d] = IF d = c THEN held ELSE call[d]
    BY <1>3 DEF Serial, TypeOK
  <1>6. file' \in Document /\ temp' \in Document
    BY <1>2, Shapes DEF BeginWrite, FinishWrite, Rename, WriteTo, Serial, TypeOK
  <1>7. TypeOK'
    BY <1>3, <1>4, <1>6 DEF Serial, TypeOK
  <1>8. \A d \in Caller \ {c} : ~Running(d)
    BY <1>1 DEF Serial, Alone, MyTurn
  <1>9. Alone'
    BY <1>1, <1>3, <1>5, <1>8 DEF Alone, Running, MyTurn
  <1>10. Fresh'
    <2>1. at # "settled" => file' = file
      BY DEF BeginWrite, FinishWrite, WriteTo
    <2> QED
      BY <1>1, <1>4, <1>5, <1>8, <2>1 DEF Fresh, Running
  <1>11. Ready'
    <2>1. at = "written" => temp' = Whole(call[c].result.contents)
      BY DEF FinishWrite, WriteTo
    <2> QED
      BY <1>4, <1>5, <1>8, <2>1 DEF Ready, Running
  <1> QED
    BY <1>7, <1>9, <1>10, <1>11 DEF Serial

(* An operation returns or fails.                                           *)
LEMMA SerialEnd ==
  ASSUME Serial, NEW c \in Caller, Return(c) \/ Fail(c)
  PROVE  Serial'
  <1>1. CASE Return(c)
    <2>1. call[c] \in Call /\ call[c].op \in Operation /\ call[c].result \in Results /\ MyTurn(c)
      BY <1>1, CallShape DEF Return, Serial, TypeOK, Alone, Running
    <2>2. returned' \in Seq([op : Operation, answer : Answer])
      BY <1>1, <2>1 DEF Return, Serial, TypeOK, Results
    <2> QED
      BY <1>1, <2>1, <2>2, SerialLeave DEF Return, Serial, TypeOK
  <1>2. CASE Fail(c)
    <2>1. troubles' \in 0..MaxTroubles
      BY <1>2, QueueNumbers DEF Fail, Serial, TypeOK
    <2> QED
      BY <1>2, <2>1, SerialLeave DEF Fail, AfterFailure, Serial, TypeOK
  <1> QED
    BY <1>1, <1>2

(* A restart leaves no caller.                                              *)
LEMMA SerialCrash == Serial /\ Crash => Serial'
  <1> SUFFICES ASSUME Serial, Crash PROVE Serial'
    OBVIOUS
  <1>1. \A c \in Caller : call'[c] = Idle
    BY DEF Crash
  <1>2. TypeOK'
    BY Shapes, QueueNumbers DEF Crash, Serial, TypeOK
  <1> QED
    BY <1>1, <1>2, Shapes DEF Serial, Alone, Fresh, Ready, Running

(* Every step keeps the invariant.                                          *)
LEMMA SerialNext == Serial /\ [Next]_vars => Serial'
  <1> SUFFICES ASSUME Serial, [Next]_vars PROVE Serial'
    OBVIOUS
  <1>1. CASE Crash
    BY <1>1, SerialCrash
  <1>2. ASSUME NEW c \in Caller, Step(c) PROVE Serial'
    BY <1>2, SerialLoad, SerialWrite, SerialEnd DEF Step
  <1>3. ASSUME NEW c \in Caller, NEW op \in Operation, Ask(c, op) PROVE Serial'
    BY <1>3, SerialAsk
  <1>4. CASE UNCHANGED vars
    BY <1>4 DEF vars, Serial, TypeOK, Alone, Fresh, Ready, Running, MyTurn
  <1> QED
    BY <1>1, <1>2, <1>3, <1>4 DEF Next

(* In every reachable state the document, the queue and the calls are       *)
(* well-formed, and at most one operation is between its read and its end   *)
(* (withLock, readState, writeState).                                       *)
THEOREM QueueSerial == Spec => [](TypeOK /\ Alone)
  <1>1. Serial => TypeOK /\ Alone
    BY DEF Serial
  <1> QED
    BY <1>1, SerialInit, SerialNext, PTL DEF Spec

-----------------------------------------------------------------------------
(* The refinement: reading without writing, and renaming, are the moment at *)
(* which an operation happens; asking and ending are themselves; everything *)
(* else changes nothing a caller can see.                                   *)

Shown(x) ==
  CASE x.at = "idle" -> [at |-> "idle"]
    [] x.at = "settled" -> [at |-> "done", op |-> x.op, answer |-> x.result.answer]
    [] OTHER -> [at |-> "asked", op |-> x.op]

View == [c \in Caller |-> Shown(call[c])]

(* What a caller sees of each point of its call.                            *)
LEMMA ShownShape ==
  ASSUME NEW x
  PROVE  /\ x.at = "idle" => Shown(x) = [at |-> "idle"]
         /\ x.at = "settled" => Shown(x) = [at |-> "done", op |-> x.op, answer |-> x.result.answer]
         /\ x.at \in {"queued", "changed", "writing", "written"} => Shown(x) = [at |-> "asked", op |-> x.op]
  <1>1. CASE x.at = "idle"
    BY <1>1 DEF Shown
  <1>2. CASE x.at = "settled"
    BY <1>2 DEF Shown
  <1>3. CASE x.at # "idle" /\ x.at # "settled"
    BY <1>3 DEF Shown
  <1> QED
    BY <1>1, <1>2, <1>3

(* One caller at a time changes what is seen of the calls.                  *)
LEMMA ViewStep ==
  ASSUME Serial, NEW c \in Caller, NEW new, call' = [call EXCEPT ![c] = new]
  PROVE  View' = [View EXCEPT ![c] = Shown(new)]
  <1>1. \A d \in Caller : call'[d] = IF d = c THEN new ELSE call[d]
    BY DEF Serial, TypeOK
  <1> QED
    BY <1>1 DEF View, Shown

(* Initial states map to initial states,                                    *)
LEMMA InitMaps == Init => Abstract!Init
  <1> SUFFICES ASSUME Init PROVE Abstract!Init
    OBVIOUS
  <1>1. file.contents = Empty
    BY DEF Init, Missing, Torn
  <1>2. \A c \in Caller : call[c].at = "idle"
    BY DEF Init, Idle
  <1> QED
    BY <1>1, <1>2 DEF Abstract!Init, Abstract!Idle

(* asking to asking,                                                        *)
LEMMA AskMaps ==
  ASSUME Serial, NEW c \in Caller, NEW op \in Operation, Ask(c, op)
  PROVE  Abstract!Ask(c, op)
  <1>1. View' = [View EXCEPT ![c] = [at |-> "asked", op |-> op]] /\ View[c] = [at |-> "idle"]
    <2>1. View' = [View EXCEPT ![c] = Shown(Queued(op))]
      BY ViewStep DEF Ask
    <2>2. Shown(Queued(op)) = [at |-> "asked", op |-> op]
      BY ShownShape, QueuedShape
    <2>3. View[c] = [at |-> "idle"]
      BY ShownShape, Shapes DEF Ask, View
    <2> QED
      BY <2>1, <2>2, <2>3
  <1>2. file' = file
    BY DEF Ask
  <1> QED
    BY <1>1, <1>2 DEF View, Shown, Abstract!Ask, Abstract!Idle, Abstract!Asked

(* and an end to an end.                                                    *)
LEMMA EndMaps ==
  ASSUME Serial, NEW c \in Caller, Leave(c), call[c].at # "idle", UNCHANGED file
  PROVE  Abstract!End(c)
  <1>1. View' = [View EXCEPT ![c] = [at |-> "idle"]] /\ View[c] # [at |-> "idle"]
    <2>1. View' = [View EXCEPT ![c] = [at |-> "idle"]]
      <3>1. Shown(Idle) = [at |-> "idle"]
        BY ShownShape, Shapes
      <3>2. call' = [call EXCEPT ![c] = Idle]
        BY DEF Leave
      <3> QED
        BY <3>1, <3>2, ViewStep
    <2>2. View[c].at \in {"done", "asked"}
      BY ShownShape, CallShape DEF View, Serial, TypeOK
    <2> QED
      BY <2>1, <2>2
  <1> QED
    BY <1>1 DEF View, Shown, Abstract!End, Abstract!Idle

(* A step that performs the operation of a caller.                          *)
LEMMA PerformMaps ==
  ASSUME Serial, NEW c \in Caller, NEW op \in Operation, NEW result \in Results,
         call[c].at \notin {"idle", "settled"}, call[c].op = op, result = Result(op, file.contents),
         call' = [call EXCEPT ![c] = Holding("settled", op, result)],
         file'.contents = result.contents
  PROVE  Abstract!Perform(c, op)
  <1>1. View[c] = [at |-> "asked", op |-> op]
    BY ShownShape, CallShape DEF View, Serial, TypeOK
  <1> DEFINE new == Holding("settled", op, result)
  <1>2. Shown(new) = [at |-> "done", op |-> op, answer |-> result.answer]
    BY ShownShape, HoldingShape
  <1>3. View' = [View EXCEPT ![c] = Shown(new)]
    BY ViewStep
  <1> QED
    BY <1>1, <1>2, <1>3 DEF View, Shown, Abstract!Perform, Abstract!Asked, Abstract!Done

(* A step of an operation that is neither its reading nor its end.          *)
LEMMA SilentMaps ==
  ASSUME Serial, NEW c \in Caller, NEW at \in {"changed", "writing", "written"},
         NEW op \in Operation, NEW result \in Results,
         call[c].at \notin {"idle", "settled"}, call[c].op = op,
         call' = [call EXCEPT ![c] = Holding(at, op, result)], file'.contents = file.contents
  PROVE  UNCHANGED Abstract!vars
  <1>1. View[c] = [at |-> "asked", op |-> op]
    BY ShownShape, CallShape DEF View, Serial, TypeOK
  <1> DEFINE new == Holding(at, op, result)
  <1>2. Shown(new) = [at |-> "asked", op |-> op]
    BY ShownShape, HoldingShape
  <1>3. View' = [View EXCEPT ![c] = Shown(new)]
    BY ViewStep
  <1>4. View' = View
    BY <1>1, <1>2, <1>3 DEF View
  <1> QED
    BY <1>4 DEF View, Shown, Abstract!vars

(* The steps of a call, one by one.                                         *)
LEMMA StepMaps ==
  ASSUME Serial, NEW c \in Caller, Step(c)
  PROVE  [Abstract!Next]_(Abstract!vars)
  <1>1. CASE Load(c)
    <2>1. call[c] \in Call /\ call[c].op \in Operation /\ file \in Document /\ call[c].at = "queued"
      BY <1>1, CallShape DEF Load, Serial, TypeOK
    <2>2. PICK op \in Operation : op = call[c].op
      BY <2>1
    <2>3. PICK result \in Results : result = Result(op, file.contents)
      BY <2>1, ResultShape
    <2>4. (~result.writes => result.contents = file.contents) /\ result.writes \in BOOLEAN
      BY <2>1, <2>3, ResultShape
    <2>5. CASE ~result.writes
      <3>1. call' = [call EXCEPT ![c] = Holding("settled", op, result)] /\ file'.contents = result.contents
        BY <1>1, <2>2, <2>3, <2>4, <2>5 DEF Load
      <3>2. Abstract!Perform(c, op)
        BY <2>1, <2>2, <2>3, <3>1, PerformMaps
      <3> QED
        BY <3>2 DEF Abstract!Next
    <2>6. CASE result.writes
      <3>1. call' = [call EXCEPT ![c] = Holding("changed", op, result)] /\ file'.contents = file.contents
        BY <1>1, <2>2, <2>3, <2>6 DEF Load
      <3> QED
        BY <2>1, <2>2, <3>1, SilentMaps
    <2> QED
      BY <2>4, <2>5, <2>6
  <1>2. CASE BeginWrite(c) \/ FinishWrite(c) \/ Rename(c)
    <2>1. /\ call[c] \in Call /\ call[c].op \in Operation /\ call[c].result \in Results
          /\ call[c].at \notin {"idle", "settled"} /\ call[c].result = Result(call[c].op, file.contents)
      BY <1>2, CallShape DEF BeginWrite, FinishWrite, Rename, Serial, TypeOK, Fresh
    <2> PICK op \in Operation, result \in Results : op = call[c].op /\ result = call[c].result
      BY <2>1
    <2>2. CASE BeginWrite(c)
      BY <2>1, <2>2, SilentMaps DEF BeginWrite, WriteTo, Move
    <2>3. CASE FinishWrite(c)
      BY <2>1, <2>3, SilentMaps DEF FinishWrite, WriteTo, Move
    <2>4. CASE Rename(c)
      <3>1. file' = Whole(call[c].result.contents)
        BY <2>4 DEF Rename, Serial, Ready
      <3>2. file'.contents = call[c].result.contents
        BY <3>1 DEF Whole
      <3>3. Abstract!Perform(c, op)
        BY <2>1, <2>4, <3>2, PerformMaps DEF Rename, Move
      <3> QED
        BY <3>3 DEF Abstract!Next
    <2> QED
      BY <1>2, <2>2, <2>3, <2>4
  <1>3. CASE Return(c) \/ Fail(c)
    <2>1. Leave(c) /\ UNCHANGED file
      BY <1>3 DEF Return, Fail, AfterFailure
    <2>2. CASE call[c].at # "idle"
      BY <2>1, <2>2, EndMaps DEF Abstract!Next
    <2>3. CASE call[c].at = "idle"
      <3>1. call' = call
        BY <2>1, <2>3, CallShape DEF Leave, Serial, TypeOK
      <3> QED
        BY <2>1, <3>1 DEF Abstract!vars
    <2> QED
      BY <2>2, <2>3
  <1> QED
    BY <1>1, <1>2, <1>3 DEF Step

(* Every step is a step of the atomic file, or changes nothing of it.       *)
LEMMA NextMaps == Serial /\ [Next]_vars => [Abstract!Next]_(Abstract!vars)
  <1> SUFFICES ASSUME Serial, [Next]_vars PROVE [Abstract!Next]_(Abstract!vars)
    OBVIOUS
  <1>1. CASE Crash
    <2>1. \A c \in Caller : call'[c].at = "idle"
      BY <1>1 DEF Crash, Idle
    <2>2. View' = [c \in Caller |-> [at |-> "idle"]]
      BY <2>1, ShownShape DEF View
    <2>3. Abstract!Restart
      BY <1>1, <2>2 DEF View, Shown, Crash, Abstract!Restart, Abstract!Idle
    <2> QED
      BY <2>3 DEF Abstract!Next
  <1>2. ASSUME NEW c \in Caller, Step(c) PROVE [Abstract!Next]_(Abstract!vars)
    BY <1>2, StepMaps
  <1>3. ASSUME NEW c \in Caller, NEW op \in Operation, Ask(c, op) PROVE [Abstract!Next]_(Abstract!vars)
    BY <1>3, AskMaps DEF Abstract!Next
  <1>4. CASE UNCHANGED vars
    BY <1>4 DEF vars, Abstract!vars
  <1> QED
    BY <1>1, <1>2, <1>3, <1>4 DEF Next

(* To its callers the file behaves as if every operation happened at once   *)
(* and alone, or not at all, whatever fails and whenever the process stops  *)
(* (withLock, readState, writeState).                                       *)
THEOREM QueueImplementsAtomicFile == Spec => ImplementsAtomicFile
  <1> USE DEF ImplementsAtomicFile, Abstract!Spec
  <1> QED
    BY SerialInit, SerialNext, InitMaps, NextMaps, PTL DEF Spec
=============================================================================
