------------------------ MODULE RevocationIndexProofs ------------------------
(***************************************************************************)
(* The indexes of every registry are given out once, for any registries    *)
(* and bounds, callers, failures and restarts.                             *)
(***************************************************************************)
EXTENDS RevocationIndex, OperationQueueProofs

(* A range of the size the operation asked for that fits its registry.      *)
FittingRange(op, answer) ==
  \E n \in 1 .. Maximum[op.registry] - op.count : answer = n .. n + op.count - 1

(* Answered or about to be: nothing, or a range below the counter.          *)
Spent(op, answer) ==
  answer = {} \/ (FittingRange(op, answer) /\ \A i \in answer : i < file.contents[op.registry])

(* Every range given out lies below the counter of its registry, and so     *)
(* does the one on its way to a caller, which nobody else has.              *)
Given ==
  /\ \A i \in DOMAIN returned : Spent(returned[i].op, returned[i].answer)
  /\ \A c \in Caller : call[c].at = "settled" =>
       /\ Spent(call[c].op, call[c].result.answer)
       /\ \A i \in DOMAIN returned :
            returned[i].op.registry = call[c].op.registry =>
              returned[i].answer \cap call[c].result.answer = {}

Distinct == Serial /\ Given /\ IndexesUnique

(* What a reservation does to a counter.                                    *)
LEMMA Reservation ==
  ASSUME NEW op \in Operation, NEW counters \in Contents
  PROVE  LET result == Result(op, counters)  next == counters[op.registry] IN
         /\ op.registry \in Registry /\ op.count \in Nat \ {0} /\ next \in Nat \ {0}
         /\ result.writes =>
              /\ FittingRange(op, result.answer) /\ result.answer = next .. next + op.count - 1
              /\ result.contents = [counters EXCEPT ![op.registry] = next + op.count]
         /\ ~result.writes => result.answer = {}
  <1>1. op \in [registry : Registry, count : Nat \ {0}] /\ counters \in [Registry -> Nat \ {0}]
    BY StoreAssumption DEF Counters
  <1>2. Maximum[op.registry] \in Nat
    BY <1>1, RegistryAssumption
  <1>3. Result(op, counters) = ReserveRange(op, counters)
    BY StoreAssumption
  <1>4. CASE Fits(op.registry, counters[op.registry], op.count)
    <2>1. counters[op.registry] \in 1 .. Maximum[op.registry] - op.count
      BY <1>1, <1>2, <1>4 DEF Fits
    <2> QED
      BY <1>1, <1>3, <1>4, <2>1 DEF ReserveRange, FittingRange
  <1>5. CASE ~Fits(op.registry, counters[op.registry], op.count)
    BY <1>1, <1>3, <1>5 DEF ReserveRange
  <1> QED
    BY <1>4, <1>5

(* Nobody was told of an index at the start.                                *)
LEMMA DistinctInit == Init => Distinct
  <1> SUFFICES ASSUME Init PROVE Distinct
    OBVIOUS
  <1>1. DOMAIN returned = {} /\ \A c \in Caller : call[c].at # "settled"
    BY DEF Init, Idle
  <1> QED
    BY <1>1, SerialInit DEF Distinct, Given, IndexesUnique

(* What was given out stays below counters that only grow.                  *)
LEMMA SpentStays ==
  ASSUME NEW op \in Operation, NEW answer, Spent(op, answer),
         NEW old \in Counters, NEW new \in Counters, old = file.contents, new = file'.contents,
         \A r \in Registry : old[r] <= new[r]
  PROVE  answer = {} \/ (FittingRange(op, answer) /\ \A i \in answer : i < file'.contents[op.registry])
  <1>1. op.registry \in Registry /\ op.count \in Nat
    BY StoreAssumption
  <1>2. Maximum[op.registry] \in Nat /\ old[op.registry] \in Nat /\ new[op.registry] \in Nat
    BY <1>1, RegistryAssumption DEF Counters
  <1>3. CASE FittingRange(op, answer) /\ \A i \in answer : i < file.contents[op.registry]
    <2>1. PICK n \in 1 .. Maximum[op.registry] - op.count : answer = n .. n + op.count - 1
      BY <1>3 DEF FittingRange
    <2>2. \A i \in answer : i \in Int /\ i < new[op.registry]
      BY <1>1, <1>2, <1>3, <2>1
    <2> QED
      BY <1>3, <2>2
  <1> QED
    BY <1>3 DEF Spent

(* A step that tells nobody and settles nothing.                            *)
LEMMA DistinctQuiet ==
  ASSUME Distinct, Serial', UNCHANGED <<file, returned>>,
         \A c \in Caller : call'[c].at = "settled" => call'[c] = call[c]
  PROVE  Distinct'
  BY DEF Distinct, Given, IndexesUnique, Spent

(* A read settles a refused reservation, which holds no index.              *)
LEMMA DistinctLoad ==
  ASSUME Distinct, NEW c \in Caller, Load(c)
  PROVE  Distinct'
  <1> DEFINE result == Result(call[c].op, file.contents)
  <1>1. Serial'
    BY SerialLoad DEF Distinct
  <1>2. call[c].op \in Operation /\ file.contents \in Contents /\ result \in Results
    BY CallShape, ResultShape DEF Load, Distinct, Serial, TypeOK
  <1>3. \A d \in Caller : d # c => call'[d] = call[d]
    BY DEF Load, Distinct, Serial, TypeOK
  <1>4. call'[c] = Holding(IF result.writes THEN "changed" ELSE "settled", call[c].op, result)
    BY DEF Load, Distinct, Serial, TypeOK
  <1>5. call'[c].at = "settled" => call'[c].result.answer = {}
    <2>1. (~result.writes => result.answer = {}) /\ result.writes \in BOOLEAN
      BY <1>2, Reservation DEF Results
    <2>2. CASE result.writes
      BY <1>2, <1>4, <2>2, HoldingShape
    <2>3. CASE ~result.writes
      BY <1>2, <1>4, <2>1, <2>3, HoldingShape
    <2> QED
      BY <2>1, <2>2, <2>3
  <1>6. Given'
    BY <1>3, <1>5 DEF Distinct, Given, Spent, Load
  <1> QED
    BY <1>1, <1>6 DEF Distinct, IndexesUnique, Load

(* A rename settles a reservation above everything given out before.        *)
LEMMA DistinctRename ==
  ASSUME Distinct, NEW c \in Caller, Rename(c)
  PROVE  Distinct'
  <1> DEFINE op == call[c].op
             answer == call[c].result.answer
             next == file.contents[op.registry]
  <1>1. Serial' /\ returned' = returned
    BY SerialWrite DEF Distinct, Rename
  <1>2. /\ call[c] \in Call /\ op \in Operation /\ call[c].result \in Results /\ file \in Document
        /\ call[c].result = Result(op, file.contents) /\ call[c].result.writes
        /\ file' = Whole(call[c].result.contents) /\ MyTurn(c)
    BY CallShape DEF Rename, Distinct, Serial, TypeOK, Fresh, Ready, Alone, Running
  <1>3. file.contents \in Contents /\ file.contents \in Counters
    BY <1>2, Shapes, StoreAssumption
  <1>4. /\ op.registry \in Registry /\ op.count \in Nat \ {0} /\ next \in Nat \ {0}
        /\ FittingRange(op, answer) /\ answer = next .. next + op.count - 1
        /\ call[c].result.contents = [file.contents EXCEPT ![op.registry] = next + op.count]
    BY <1>2, <1>3, Reservation
  <1>5. file'.contents = [file.contents EXCEPT ![op.registry] = next + op.count]
    BY <1>2, <1>4 DEF Whole
  <1>6. file'.contents \in Counters /\ \A r \in Registry : file.contents[r] <= file'.contents[r]
    <2>1. next + op.count \in Nat \ {0}
      BY <1>4
    <2>2. \A r \in Registry : file'.contents[r] = IF r = op.registry THEN next + op.count ELSE file.contents[r]
      BY <1>3, <1>5 DEF Counters
    <2>3. \A r \in Registry : file.contents[r] \in Nat
      BY <1>3 DEF Counters
    <2>4. file'.contents \in Counters
      BY <1>3, <1>5, <2>1 DEF Counters
    <2>5. ASSUME NEW r \in Registry PROVE file.contents[r] <= file'.contents[r]
      <3>1. CASE r = op.registry
        BY <1>4, <2>2, <3>1
      <3>2. CASE r # op.registry
        BY <2>2, <2>3, <3>2
      <3> QED
        BY <3>1, <3>2
    <2> QED
      BY <2>4, <2>5
  <1>7. \A i \in DOMAIN returned : returned[i].op \in Operation
    <2> DEFINE Told == [op : Operation, answer : Answer]
    <2>1. returned \in Seq(Told)
      BY DEF Distinct, Serial, TypeOK
    <2>2. \A x \in Told : x.op \in Operation
      OBVIOUS
    <2> HIDE DEF Told
    <2>3. \A i \in DOMAIN returned : returned[i] \in Told
      BY <2>1
    <2> QED
      BY <2>2, <2>3
  <1>8. \A i \in DOMAIN returned : Spent(returned[i].op, returned[i].answer)'
    BY <1>1, <1>3, <1>6, <1>7, SpentStays DEF Distinct, Given, Spent
  <1>9. \A d \in Caller : d # c => call'[d] = call[d] /\ call[d].at # "settled"
    BY <1>2 DEF Rename, Move, Distinct, Serial, TypeOK, Alone, MyTurn, Running
  <1>10. call'[c].op = op /\ call'[c].result.answer = answer
    BY <1>2, HoldingShape DEF Rename, Move, Distinct, Serial, TypeOK
  <1>11. Spent(call[c].op, call[c].result.answer)'
    <2>1. file'.contents[op.registry] = next + op.count
      BY <1>3, <1>4, <1>5 DEF Counters
    <2>2. \A i \in answer : i < file'.contents[op.registry]
      BY <1>4, <2>1
    <2>3. call'[c].op.registry = op.registry
      BY <1>10
    <2> QED
      BY <1>4, <1>10, <2>2, <2>3 DEF Spent
  <1>12. \A i \in DOMAIN returned : returned[i].op.registry = op.registry => returned[i].answer \cap answer = {}
    BY <1>4 DEF Distinct, Given, Spent
  <1>13. Given'
    BY <1>1, <1>8, <1>9, <1>10, <1>11, <1>12 DEF Given
  <1> QED
    BY <1>1, <1>13 DEF Distinct, IndexesUnique

(* An answer joins those that were given.                                   *)
LEMMA DistinctReturn ==
  ASSUME Distinct, NEW c \in Caller, Return(c)
  PROVE  Distinct'
  <1> DEFINE new == [op |-> call[c].op, answer |-> call[c].result.answer]
  <1>1. Serial'
    BY SerialEnd DEF Distinct
  <1>2. /\ returned' = Append(returned, new) /\ file' = file /\ MyTurn(c)
        /\ returned \in Seq([op : Operation, answer : Answer]) /\ call[c].at = "settled"
    BY DEF Return, Distinct, Serial, TypeOK, Alone, Running
  <1>3. call[c] \in Call /\ new \in [op : Operation, answer : Answer]
    BY <1>2, CallShape DEF Distinct, Serial, TypeOK, Results
  <1>4. Spent(new.op, new.answer) /\ \A i \in DOMAIN returned :
          returned[i].op.registry = new.op.registry => returned[i].answer \cap new.answer = {}
    BY <1>2 DEF Distinct, Given
  <1>5. /\ DOMAIN returned = 1 .. Len(returned) /\ Len(returned) \in Nat
        /\ DOMAIN returned' = 1 .. Len(returned) + 1
        /\ \A i \in DOMAIN returned : returned'[i] = returned[i]
        /\ returned'[Len(returned) + 1] = new
    BY <1>2, <1>3
  <1>6. \A i \in DOMAIN returned' : i = Len(returned) + 1 \/ i \in DOMAIN returned
    BY <1>5
  <1>7. \A d \in Caller : call'[d].at # "settled"
    BY <1>2, Shapes DEF Return, Leave, Distinct, Serial, TypeOK, Alone, MyTurn, Running
  <1>8. \A i \in DOMAIN returned' : Spent(returned[i].op, returned[i].answer)'
    BY <1>2, <1>4, <1>5, <1>6 DEF Distinct, Given, Spent
  <1>9. Given'
    BY <1>7, <1>8 DEF Given
  <1>10. IndexesUnique'
    <2> SUFFICES ASSUME NEW i \in DOMAIN returned'
        PROVE  LET r == returned'[i].op.registry
               IN /\ returned'[i].answer = {} \/ FittingRange(returned'[i].op, returned'[i].answer)
                  /\ \A j \in 1 .. i - 1 : returned'[j].op.registry = r =>
                       returned'[i].answer \cap returned'[j].answer = {}
      BY DEF IndexesUnique, FittingRange
    <2>1. returned'[i].answer = {} \/ FittingRange(returned'[i].op, returned'[i].answer)
      BY <1>8 DEF Spent
    <2>2. ASSUME NEW j \in 1 .. i - 1, returned'[j].op.registry = returned'[i].op.registry
          PROVE  returned'[i].answer \cap returned'[j].answer = {}
      <3>1. j \in DOMAIN returned /\ returned'[j] = returned[j]
        BY <1>5, <1>6
      <3>2. CASE i \in DOMAIN returned
        BY <1>5, <2>2, <3>1, <3>2 DEF Distinct, IndexesUnique
      <3>3. CASE i = Len(returned) + 1
        BY <1>4, <1>5, <2>2, <3>1, <3>3
      <3> QED
        BY <1>6, <3>2, <3>3
    <2> QED
      BY <2>1, <2>2
  <1> QED
    BY <1>1, <1>9, <1>10 DEF Distinct

(* Every step keeps the invariant.                                          *)
LEMMA DistinctNext == Distinct /\ [Next]_vars => Distinct'
  <1> SUFFICES ASSUME Distinct, [Next]_vars PROVE Distinct'
    OBVIOUS
  <1>1. Serial'
    BY SerialNext DEF Distinct
  <1>2. CASE Crash
    BY <1>1, <1>2, DistinctQuiet, Shapes DEF Crash
  <1>3. ASSUME NEW c \in Caller, Load(c) PROVE Distinct'
    BY <1>3, DistinctLoad
  <1>4. ASSUME NEW c \in Caller, BeginWrite(c) \/ FinishWrite(c) PROVE Distinct'
    <2>1. call[c] \in Call /\ call[c].op \in Operation /\ call[c].result \in Results
      BY <1>4, CallShape DEF BeginWrite, FinishWrite, Distinct, Serial, TypeOK
    <2>2. \A d \in Caller : call'[d].at = "settled" => call'[d] = call[d]
      BY <1>4, <2>1, HoldingShape DEF BeginWrite, FinishWrite, Move, Distinct, Serial, TypeOK
    <2> QED
      BY <1>1, <1>4, <2>2, DistinctQuiet DEF BeginWrite, FinishWrite, WriteTo
  <1>5. ASSUME NEW c \in Caller, Rename(c) PROVE Distinct'
    BY <1>5, DistinctRename
  <1>6. ASSUME NEW c \in Caller, Return(c) PROVE Distinct'
    BY <1>6, DistinctReturn
  <1>7. ASSUME NEW c \in Caller, Fail(c) PROVE Distinct'
    <2>1. \A d \in Caller : call'[d].at = "settled" => call'[d] = call[d]
      BY <1>7, Shapes DEF Fail, AfterFailure, Leave, Distinct, Serial, TypeOK
    <2> QED
      BY <1>1, <1>7, <2>1, DistinctQuiet DEF Fail
  <1>8. ASSUME NEW c \in Caller, NEW op \in Operation, Ask(c, op) PROVE Distinct'
    <2>1. \A d \in Caller : call'[d].at = "settled" => call'[d] = call[d]
      BY <1>8, QueuedShape DEF Ask, Distinct, Serial, TypeOK
    <2> QED
      BY <1>1, <1>8, <2>1, DistinctQuiet DEF Ask
  <1>9. CASE UNCHANGED vars
    BY <1>1, <1>9, DistinctQuiet DEF vars
  <1> QED
    BY <1>2, <1>3, <1>4, <1>5, <1>6, <1>7, <1>8, <1>9 DEF Next, Step

(* No two credentials ever get the same index of a registry, none index 0   *)
(* or one beyond the registry, and every request gets as many as it asked   *)
(* for or none (reserveRange under withLock and writeState).                *)
THEOREM ReservationsUnique == Spec => []IndexesUnique
  <1>1. Distinct => IndexesUnique
    BY DEF Distinct
  <1> QED
    BY <1>1, DistinctInit, DistinctNext, PTL DEF Spec
==============================================================================
