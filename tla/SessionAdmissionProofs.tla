------------------------ MODULE SessionAdmissionProofs ------------------------
(***************************************************************************)
(* The admission of sessions, and after it the windows of the rate         *)
(* limiter, for any callers, requests, service points, addresses, limits,  *)
(* failures and restarts.                                                  *)
(***************************************************************************)
EXTENDS SessionAdmission, FiniteSetTheorems, TLAPS

Queued == {"scan", "checkout"}
Ref == {r.ref : r \in Request}
Session == [kind : Queued, point : Point, ref : Ref, expiresAt : Nat, pending : BOOLEAN, claimed : BOOLEAN]
Sight == {"active", "not suspended"}
Created == {"admitted", "prepared"}
Past == {"point found", "allowed"} \cup Created
Place == {"asked", "session found"} \cup Past
Job == [at : Place, r : Request, active : BOOLEAN, createdAt : Nat, seen : SUBSET Sight]

Typed ==
  /\ clock \in Nat
  /\ sessions \in Seq(Session)
  /\ lock \in [Queued -> Seq(Caller)]
  /\ job \in [Caller -> {Idle} \cup Job]

(* Whoever creates something is in the queue, and at its head from the      *)
(* moment it has read its service point.                                    *)
Turn(j, c) ==
  j # Idle /\ j.r.kind # "claim" =>
    /\ \E m \in DOMAIN lock[j.r.kind] : lock[j.r.kind][m] = c
    /\ j.at \in Past => Head(lock[j.r.kind]) = c

(* What a request has seen covers what it has read and passed.              *)
Saw(j) ==
  j # Idle =>
    /\ SeenNow(j.r.point, active, suspended) \subseteq j.seen
    /\ j.at \in Past /\ j.active => "active" \in j.seen
    /\ j.at \in {"allowed"} \cup Created => j.seen = Sight

Scans(p) == {n \in PendingAt(p) : sessions[n].kind = "scan"}

(* The sessions of the same kind, service point and reference.              *)
Started(r) == {n \in DOMAIN sessions : sessions[n].kind = r.kind /\ sessions[n].point = r.point
                                          /\ sessions[n].ref = r.ref}

(* What an admitted request wants to create is still not there, and a scan  *)
(* still has room.                                                          *)
Room(j) ==
  j # Idle /\ j.at \in Created =>
    /\ j.r.kind \in Queued
    /\ Started(j.r) = {}
    /\ j.r.kind = "scan" => Cardinality(Scans(j.r.point)) < MaxPending

Calm == Typed /\ OnePerReference /\ PendingBounded
Good(j, c) == Turn(j, c) /\ Saw(j) /\ Room(j)
Orderly == Calm /\ \A c \in Caller : Good(job[c], c)

-----------------------------------------------------------------------------
(* The counting of sessions.                                                *)

(* Only finitely many scans are pending.                                    *)
LEMMA ScansFinite ==
  ASSUME Typed, NEW p
  PROVE  IsFiniteSet(Scans(p)) /\ Cardinality(Scans(p)) \in Nat /\ IsFiniteSet(PendingAt(p))
         /\ Cardinality(Scans(p)) <= Cardinality(PendingAt(p)) /\ Cardinality(PendingAt(p)) \in Nat
  <1>1. DOMAIN sessions = 1 .. Len(sessions) /\ Len(sessions) \in Nat
    BY DEF Typed
  <1>2. IsFiniteSet(1 .. Len(sessions))
    BY <1>1, FS_Interval
  <1>3. PendingAt(p) \in SUBSET (1 .. Len(sessions)) /\ Scans(p) \in SUBSET PendingAt(p)
    BY <1>1 DEF PendingAt, Scans
  <1>4. IsFiniteSet(PendingAt(p))
    BY <1>2, <1>3, FS_Subset
  <1>5. IsFiniteSet(Scans(p)) /\ Cardinality(Scans(p)) <= Cardinality(PendingAt(p))
    BY <1>3, <1>4, FS_Subset
  <1> QED
    BY <1>4, <1>5, FS_CardinalityType

(* Time passes, sessions are decided or claimed: nothing is created.        *)
LEMMA NothingCreated ==
  ASSUME Calm, Typed', clock <= clock', DOMAIN sessions' = DOMAIN sessions,
         \A n \in DOMAIN sessions :
           /\ sessions'[n].kind = sessions[n].kind /\ sessions'[n].point = sessions[n].point
           /\ sessions'[n].ref = sessions[n].ref /\ sessions'[n].expiresAt = sessions[n].expiresAt
           /\ sessions'[n].pending => sessions[n].pending
  PROVE  Calm' /\ \A j : Room(j) => Room(j)'
  <1>1. \A p : Scans(p)' \subseteq Scans(p)
    <2> SUFFICES ASSUME NEW p, NEW n \in Scans(p)' PROVE n \in Scans(p)
      OBVIOUS
    <2>1. n \in DOMAIN sessions /\ sessions'[n].point = p /\ sessions'[n].pending /\ sessions'[n].kind = "scan"
          /\ ~(clock' >= sessions'[n].expiresAt)
      BY DEF Scans, PendingAt, Expired
    <2>2. clock \in Nat /\ clock' \in Nat /\ sessions[n].expiresAt \in Nat
      <3>1. sessions[n] \in Session /\ clock \in Nat /\ clock' \in Nat
        BY <2>1 DEF Typed, Calm
      <3> QED
        BY <3>1 DEF Session
    <2>3. ~(clock >= sessions[n].expiresAt)
      BY <2>1, <2>2
    <2> QED
      BY <2>1, <2>3 DEF Scans, PendingAt, Expired
  <1>2. \A p : Cardinality(Scans(p)') <= Cardinality(Scans(p)) /\ Cardinality(Scans(p)') \in Nat
               /\ Cardinality(Scans(p)) \in Nat
    <2> SUFFICES ASSUME NEW p
                 PROVE  Cardinality(Scans(p)') <= Cardinality(Scans(p)) /\ Cardinality(Scans(p)') \in Nat
                        /\ Cardinality(Scans(p)) \in Nat
      OBVIOUS
    <2>1. IsFiniteSet(Scans(p)) /\ Scans(p)' \in SUBSET Scans(p) /\ Cardinality(Scans(p)) \in Nat
      BY <1>1, ScansFinite DEF Calm
    <2> QED
      BY <2>1, FS_Subset, FS_CardinalityType
  <1>3. PendingBounded'
    <2> SUFFICES ASSUME NEW p \in Point PROVE Cardinality(Scans(p)') <= MaxPending
      BY DEF PendingBounded, Scans
    <2>1. Cardinality(Scans(p)) <= MaxPending
      BY DEF Calm, PendingBounded, Scans
    <2> QED
      BY <1>2, <2>1, AdmissionAssumption
  <1>4. OnePerReference'
    BY DEF Calm, OnePerReference
  <1>5. \A r : Started(r)' = Started(r)
    BY DEF Started
  <1>6. ASSUME NEW j, Room(j) PROVE Room(j)'
    BY <1>2, <1>5, <1>6, AdmissionAssumption DEF Room
  <1> QED
    BY <1>3, <1>4, <1>6 DEF Calm

-----------------------------------------------------------------------------
(* Who moves.                                                               *)

(* Requests that are not idle have all their fields.                        *)
LEMMA JobShape ==
  ASSUME Typed, NEW c \in Caller
  PROVE  /\ job[c] # Idle <=> job[c].at # "idle"
         /\ job[c] # Idle => job[c] \in Job /\ job[c].r.kind \in Queued \cup {"claim"}
  <1>1. \A j \in Job : j.at # "idle"
    BY DEF Job, Place, Past, Created
  <1>2. Idle.at = "idle"
    BY DEF Idle
  <1>3. \A j \in Job : j.r.kind \in Queued \cup {"claim"}
    BY AdmissionAssumption DEF Job, Queued
  <1> QED
    BY <1>1, <1>2, <1>3 DEF Typed

(* A request is idle: nothing is asked of it.                               *)
LEMMA IdleGood == ASSUME NEW c PROVE Good(Idle, c) /\ Good(Idle, c)'
  BY DEF Good, Turn, Saw, Room

(* One request moves on under the same lock.                                *)
LEMMA Moves ==
  ASSUME Orderly, NEW c \in Caller, NEW new \in Job, job' = [job EXCEPT ![c] = new],
         Calm', UNCHANGED <<lock, active, suspended>>,
         Good(new, c)', \A j : Room(j) => Room(j)'
  PROVE  Orderly'
  <1>1. \A d \in Caller : job'[d] = IF d = c THEN new ELSE job[d]
    BY DEF Orderly, Calm, Typed
  <1>2. ASSUME NEW d \in Caller, d # c, NEW j, j = job[d] PROVE Good(j, d)'
    <2>1. Good(j, d)
      BY <1>2 DEF Orderly
    <2> QED
      BY <2>1 DEF Good, Turn, Saw, SeenNow
  <1>3. \A d \in Caller : Good(job[d], d)'
    BY <1>1, <1>2
  <1> QED
    BY <1>3 DEF Orderly

(* One request ends and leaves the lock to the next.                        *)
LEMMA Ends ==
  ASSUME Orderly, NEW c \in Caller, End(c), UNCHANGED <<active, suspended>>, Calm',
         \A d \in Caller \ {c}, j \in Job : j = job[d] /\ Room(j) => Room(j)'
  PROVE  Orderly'
  <1>1. \A d \in Caller : job'[d] = IF d = c THEN Idle ELSE job[d]
    BY DEF End, Orderly, Calm, Typed
  <1>2. ASSUME NEW d \in Caller, d # c, NEW j, j = job[d] PROVE Turn(j, d)'
    <2> SUFFICES ASSUME j # Idle, j.r.kind # "claim" PROVE Turn(j, d)'
      BY DEF Turn
    <2>1. PICK kind \in Queued : kind = j.r.kind
      BY <1>2, JobShape DEF Orderly, Calm
    <2>2. PICK queue \in Seq(Caller) : queue = lock[kind]
      BY <2>1 DEF Orderly, Calm, Typed
    <2>3. lock'[kind] = IF queue # <<>> /\ Head(queue) = c THEN Tail(queue) ELSE queue
      BY <2>2 DEF End, Orderly, Calm, Typed
    <2>4. (\E m \in DOMAIN queue : queue[m] = d) /\ (j.at \in Past => Head(queue) = d)
      BY <1>2, <2>1, <2>2 DEF Orderly, Good, Turn
    <2>5. PICK m \in DOMAIN queue : queue[m] = d
      BY <2>4
    <2>6. CASE Head(queue) = c
      <3>1. lock'[kind] = Tail(queue) /\ m > 1 /\ m \in 1 .. Len(queue)
        BY <1>2, <2>3, <2>5, <2>6
      <3>2. m - 1 \in DOMAIN Tail(queue) /\ Tail(queue)[m - 1] = d
        BY <2>5, <3>1
      <3>3. j.at \notin Past
        BY <1>2, <2>4, <2>6
      <3> QED
        BY <2>1, <3>1, <3>2, <3>3 DEF Turn
    <2>7. CASE Head(queue) # c
      BY <2>1, <2>3, <2>4, <2>7 DEF Turn
    <2> QED
      BY <2>6, <2>7
  <1>3. ASSUME NEW d \in Caller, d # c, NEW j, j = job[d] PROVE Good(j, d)'
    <2>1. Good(j, d)
      BY <1>3 DEF Orderly
    <2>2. Room(j)'
      BY <1>3, <2>1, JobShape DEF Orderly, Calm, Good, Room
    <2> QED
      BY <1>2, <1>3, <2>1, <2>2 DEF Good, Saw, SeenNow
  <1>4. \A d \in Caller : Good(job[d], d)'
    BY <1>1, <1>3, IdleGood
  <1> QED
    BY <1>4 DEF Orderly

(* When a request ends its fields and those of the lock stay well typed.    *)
LEMMA EndTyped ==
  ASSUME Typed, NEW c \in Caller, End(c)
  PROVE  job' \in [Caller -> {Idle} \cup Job] /\ lock' \in [Queued -> Seq(Caller)]
  <1>1. \A kind \in Queued : lock[kind] \in Seq(Caller)
    BY DEF Typed
  <1>2. \A kind \in Queued : lock[kind] # <<>> => Tail(lock[kind]) \in Seq(Caller)
    BY <1>1
  <1>3. \A kind \in Queued :
          (IF lock[kind] # <<>> /\ Head(lock[kind]) = c THEN Tail(lock[kind]) ELSE lock[kind]) \in Seq(Caller)
    BY <1>1, <1>2
  <1> QED
    BY <1>3 DEF End, Typed

(* A request that ends without touching a session.                          *)
LEMMA EndsQuietly ==
  ASSUME Orderly, NEW c \in Caller, End(c), UNCHANGED <<clock, active, suspended, sessions>>
  PROVE  Orderly'
  <1>1. Typed'
    BY EndTyped DEF Orderly, Calm, Typed
  <1>2. Calm' /\ \A j : Room(j) => Room(j)'
    BY <1>1, NothingCreated DEF Orderly, Calm, Typed
  <1> QED
    BY <1>2, Ends

(* A request that goes to another place without touching a session.         *)
LEMMA MovesQuietly ==
  ASSUME Orderly, NEW c \in Caller, job[c] # Idle, NEW new \in Job, job' = [job EXCEPT ![c] = new],
         UNCHANGED <<clock, lock, active, suspended, sessions>>,
         Good(new, c)
  PROVE  Orderly'
  <1>1. Typed'
    BY DEF Orderly, Calm, Typed
  <1>2. Calm' /\ \A j : Room(j) => Room(j)'
    BY <1>1, NothingCreated DEF Orderly, Calm, Typed
  <1>3. Good(new, c)'
    BY <1>2 DEF Good, Turn, Saw
  <1> QED
    BY <1>2, <1>3, Moves

-----------------------------------------------------------------------------
(* The steps of a request.                                                  *)

(* A request arrives and queues.                                            *)
LEMMA OrderlyAsk ==
  ASSUME Orderly, NEW c \in Caller, NEW r \in Request, Ask(c, r)
  PROVE  Orderly'
  <1> DEFINE new == [at |-> "asked", r |-> r, active |-> FALSE, createdAt |-> 0,
                     seen |-> SeenNow(r.point, active, suspended)]
  <1>1. new \in Job /\ new # Idle
    <2>1. new \in Job
      BY DEF Job, Place, SeenNow, Sight
    <2> QED
      BY <2>1 DEF Idle
  <1>2. job[c] = Idle /\ UNCHANGED <<clock, active, suspended, sessions>>
    BY DEF Ask
  <1>3. \A d \in Caller : job'[d] = IF d = c THEN new ELSE job[d]
    BY DEF Ask, Orderly, Calm, Typed
  <1>4. lock' = IF r.kind = "claim" THEN lock ELSE [lock EXCEPT ![r.kind] = Append(@, c)]
    BY DEF Ask
  <1>5. r.kind # "claim" => r.kind \in Queued
    BY AdmissionAssumption DEF Queued
  <1>6. lock' \in [Queued -> Seq(Caller)]
    BY <1>4, <1>5 DEF Orderly, Calm, Typed
  <1>7. Typed'
    BY <1>1, <1>2, <1>6 DEF Ask, Orderly, Calm, Typed
  <1>8. Calm' /\ \A j : Room(j) => Room(j)'
    BY <1>2, <1>7, NothingCreated DEF Orderly, Calm, Typed
  <1>9. ASSUME NEW d \in Caller, d # c, NEW j, j = job[d] PROVE Turn(j, d)'
    <2> SUFFICES ASSUME j # Idle, j.r.kind # "claim" PROVE Turn(j, d)'
      BY DEF Turn
    <2>1. PICK kind \in Queued : kind = j.r.kind
      BY <1>9, JobShape DEF Orderly, Calm
    <2>2. PICK queue \in Seq(Caller) : queue = lock[kind]
      BY <2>1 DEF Orderly, Calm, Typed
    <2>3. lock'[kind] = queue \/ lock'[kind] = Append(queue, c)
      BY <1>4, <1>5, <2>2 DEF Orderly, Calm, Typed
    <2>4. (\E m \in DOMAIN queue : queue[m] = d) /\ (j.at \in Past => Head(queue) = d)
      BY <1>9, <2>1, <2>2 DEF Orderly, Good, Turn
    <2>5. PICK m \in DOMAIN queue : queue[m] = d
      BY <2>4
    <2>6. m \in DOMAIN Append(queue, c) /\ Append(queue, c)[m] = d /\ Head(Append(queue, c)) = Head(queue)
      BY <2>5
    <2> QED
      BY <2>1, <2>3, <2>4, <2>6 DEF Turn
  <1>10. ASSUME NEW d \in Caller, d # c, NEW j, j = job[d] PROVE Good(j, d)'
    <2>1. Good(j, d)
      BY <1>10 DEF Orderly
    <2> QED
      BY <1>2, <1>8, <1>9, <1>10, <2>1 DEF Good, Saw, SeenNow
  <1>11. ASSUME NEW j, j = new PROVE Good(j, c)'
    <2>1. j.at = "asked" /\ j.r = r /\ j.seen = SeenNow(r.point, active, suspended)
      BY <1>11
    <2> HIDE DEF new
    <2>2. ASSUME r.kind # "claim" PROVE \E m \in DOMAIN lock'[r.kind] : lock'[r.kind][m] = c
      <3>1. lock'[r.kind] = Append(lock[r.kind], c) /\ lock[r.kind] \in Seq(Caller)
        BY <1>4, <1>5, <2>2 DEF Orderly, Calm, Typed
      <3>2. Len(lock[r.kind]) + 1 \in DOMAIN lock'[r.kind] /\ lock'[r.kind][Len(lock[r.kind]) + 1] = c
        BY <3>1
      <3> QED
        BY <3>2
    <2>3. j.at \notin Past
      BY <2>1 DEF Past, Created
    <2>4. Turn(j, c)'
      BY <2>1, <2>2, <2>3 DEF Turn
    <2>5. Saw(j)' /\ Room(j)'
      BY <1>2, <2>1, <2>3 DEF Saw, SeenNow, Room, Past, Created
    <2> QED
      BY <2>4, <2>5 DEF Good
  <1> HIDE DEF new
  <1>12. \A d \in Caller : Good(job[d], d)'
    BY <1>3, <1>10, <1>11
  <1> QED
    BY <1>8, <1>12 DEF Orderly

(* Up to its admission a request only reads.                                *)
LEMMA OrderlyRead ==
  ASSUME Orderly, NEW c \in Caller, job[c] # Idle, FindSession(c) \/ FindPoint(c) \/ Allow(c)
  PROVE  Orderly'
  <1>1. job[c] \in Job /\ job[c].r.kind \in Queued \cup {"claim"} /\ Good(job[c], c)
    BY JobShape DEF Orderly, Calm
  <1>2. UNCHANGED <<clock, lock, active, suspended, sessions>>
    BY DEF FindSession, FindPoint, Allow
  <1>3. CASE FindSession(c)
    <2> DEFINE new == [job[c] EXCEPT !.at = "session found"]
    <2>1. new \in Job /\ new.at = "session found" /\ new.r = job[c].r /\ new.seen = job[c].seen
      BY <1>1 DEF Job, Place
    <2>2. job' = [job EXCEPT ![c] = new]
      BY <1>3 DEF FindSession, Goto
    <2> HIDE DEF new
    <2>3. Good(new, c)
      BY <1>1, <2>1 DEF Good, Turn, Saw, Room, Past, Created
    <2> QED
      BY <1>2, <2>1, <2>2, <2>3, MovesQuietly
  <1>4. CASE FindPoint(c)
    <2>0. PICK on \in BOOLEAN : on <=> job[c].r.point \in active
      OBVIOUS
    <2> DEFINE new == [job[c] EXCEPT !.at = "point found", !.active = on]
    <2>1. new \in Job /\ new.at = "point found" /\ new.r = job[c].r /\ new.seen = job[c].seen /\ new.active = on
      BY <1>1 DEF Job, Place, Past
    <2>2. job' = [job EXCEPT ![c] = new] /\ MyTurn(c)
      BY <1>4, <2>0 DEF FindPoint
    <2> HIDE DEF new
    <2>3. Turn(new, c)
      BY <1>1, <2>1, <2>2 DEF Good, Turn, MyTurn
    <2>4. Saw(new) /\ Room(new)
      BY <1>1, <2>0, <2>1 DEF Good, Saw, SeenNow, Room, Created
    <2> QED
      BY <1>2, <2>1, <2>2, <2>3, <2>4, MovesQuietly DEF Good
  <1>5. CASE Allow(c)
    <2> DEFINE new == [job[c] EXCEPT !.at = "allowed"]
    <2>1. new \in Job /\ new.at = "allowed" /\ new.r = job[c].r /\ new.seen = job[c].seen /\ new.active = job[c].active
      BY <1>1 DEF Job, Place, Past
    <2>2. job' = [job EXCEPT ![c] = new] /\ job[c].at = "point found" /\ job[c].active
          /\ VendorOf[job[c].r.point] \notin suspended
      BY <1>5 DEF Allow, Goto, Barred
    <2> HIDE DEF new
    <2>3. job[c].seen = Sight
      BY <1>1, <2>2 DEF Good, Saw, SeenNow, Past, Job, Sight
    <2>4. Good(new, c)
      BY <1>1, <2>1, <2>2, <2>3 DEF Good, Turn, Saw, Room, Past, Created
    <2> QED
      BY <1>2, <2>1, <2>2, <2>4, MovesQuietly
  <1> QED
    BY <1>3, <1>4, <1>5

(* The checks before a session is created.                                  *)
LEMMA OrderlyAdmit ==
  ASSUME Orderly, NEW c \in Caller, job[c] # Idle, AdmitScan(c) \/ AdmitCheckout(c) \/ Prepare(c)
  PROVE  Orderly'
  <1>1. job[c] \in Job /\ Good(job[c], c) /\ job[c].at \in {"allowed", "admitted"}
    BY JobShape DEF Orderly, Calm, AdmitScan, AdmitCheckout, Prepare
  <1>2. UNCHANGED <<clock, active, suspended, sessions>>
    BY DEF AdmitScan, AdmitCheckout, Prepare
  <1>3. CASE End(c)
    BY <1>2, <1>3, EndsQuietly
  <1>4. CASE Goto(c, "admitted") /\ UNCHANGED lock /\ (AdmitScan(c) \/ AdmitCheckout(c))
    <2> DEFINE new == [job[c] EXCEPT !.at = "admitted"]
    <2>1. new \in Job /\ new.at = "admitted" /\ new.r = job[c].r /\ new.seen = job[c].seen /\ new.active = job[c].active
      BY <1>1 DEF Job, Place, Past, Created
    <2>2. job' = [job EXCEPT ![c] = new] /\ job[c].at = "allowed"
      BY <1>4 DEF Goto, AdmitScan, AdmitCheckout
    <2> HIDE DEF new
    <2>3. Turn(new, c) /\ Saw(new)
      BY <1>1, <2>1, <2>2 DEF Good, Turn, Saw, Past, Created
    <2>4. Started(job[c].r) = {} /\ job[c].r.kind \in Queued
          /\ (job[c].r.kind = "scan" => ~Busy(job[c].r.point))
      BY <1>4 DEF AdmitScan, AdmitCheckout, Queued, Existing, Answers, Started
    <2>5. job[c].r.kind = "scan" => Cardinality(Scans(job[c].r.point)) < MaxPending
      BY <2>4, ScansFinite, AdmissionAssumption DEF Busy, Orderly, Calm
    <2>6. Room(new)
      BY <2>1, <2>4, <2>5 DEF Room
    <2> QED
      BY <1>2, <1>4, <2>1, <2>2, <2>3, <2>6, MovesQuietly DEF Good
  <1>5. CASE Prepare(c)
    <2> DEFINE new == [job[c] EXCEPT !.at = "prepared", !.createdAt = clock]
    <2>1. new \in Job /\ new.at = "prepared" /\ new.r = job[c].r /\ new.seen = job[c].seen /\ new.active = job[c].active
      BY <1>1 DEF Job, Place, Past, Created, Orderly, Calm, Typed
    <2>2. job' = [job EXCEPT ![c] = new] /\ job[c].at = "admitted" /\ UNCHANGED lock
      BY <1>5 DEF Prepare
    <2> HIDE DEF new
    <2>3. Good(new, c)
      BY <1>1, <2>1, <2>2 DEF Good, Turn, Saw, Room, Past, Created
    <2> QED
      BY <1>2, <2>1, <2>2, <2>3, MovesQuietly
  <1> QED
    BY <1>3, <1>4, <1>5 DEF AdmitScan, AdmitCheckout

(* The session an admitted request inserts is new, and there was room.      *)
LEMMA OrderlyInsert ==
  ASSUME Orderly, NEW c \in Caller, job[c] # Idle, Insert(c)
  PROVE  Orderly'
  <1> DEFINE r == job[c].r
             next == Len(sessions) + 1
             session == [kind |-> r.kind, point |-> r.point, ref |-> r.ref,
                         expiresAt |-> job[c].createdAt + SessionTtl, pending |-> TRUE, claimed |-> FALSE]
  <1>1. job[c] \in Job /\ Turn(job[c], c) /\ Room(job[c]) /\ job[c].at = "prepared"
    BY JobShape DEF Orderly, Calm, Good, Insert
  <1>2. /\ r.kind \in Queued /\ Started(r) = {} /\ Head(lock[r.kind]) = c
        /\ r.kind = "scan" => Cardinality(Scans(r.point)) < MaxPending
    BY <1>1 DEF Room, Turn, Created, Past, Queued
  <1>3. session \in Session
    <2>1. r \in Request /\ job[c].createdAt \in Nat /\ SessionTtl \in Nat
      BY <1>1, AdmissionAssumption DEF Job
    <2>2. r.point \in Point /\ r.ref \in Ref /\ job[c].createdAt + SessionTtl \in Nat
      BY <2>1, AdmissionAssumption DEF Ref
    <2> QED
      BY <1>2, <2>2 DEF Session
  <1>4. sessions' = Append(sessions, session) /\ End(c) /\ UNCHANGED <<clock, active, suspended>>
    BY DEF Insert
  <1>5. session.kind = r.kind /\ session.point = r.point /\ session.ref = r.ref
    OBVIOUS
  <1> HIDE DEF session
  <1>6. sessions \in Seq(Session) /\ Len(sessions) \in Nat /\ DOMAIN sessions = 1 .. Len(sessions)
    BY DEF Orderly, Calm, Typed
  <1>7. /\ DOMAIN sessions' = 1 .. next /\ sessions'[next] = session
        /\ \A n \in DOMAIN sessions : n \in DOMAIN sessions' /\ sessions'[n] = sessions[n]
        /\ sessions' \in Seq(Session)
    BY <1>3, <1>4, <1>6
  <1>8. \A n \in DOMAIN sessions' : n \in DOMAIN sessions \/ n = next
    BY <1>6, <1>7
  <1>9. Typed'
    BY <1>4, <1>7, EndTyped DEF Orderly, Calm, Typed
  <1>10. OnePerReference'
    <2> SUFFICES ASSUME NEW m \in DOMAIN sessions', NEW n \in DOMAIN sessions',
                        sessions'[m].kind = sessions'[n].kind, sessions'[m].point = sessions'[n].point,
                        sessions'[m].ref = sessions'[n].ref
                 PROVE  m = n
      BY DEF OnePerReference
    <2>1. \A x \in DOMAIN sessions :
            ~(sessions[x].kind = r.kind /\ sessions[x].point = r.point /\ sessions[x].ref = r.ref)
      BY <1>2 DEF Started
    <2>2. CASE m \in DOMAIN sessions /\ n \in DOMAIN sessions
      BY <1>7, <2>2 DEF Orderly, Calm, OnePerReference
    <2>3. CASE m = next \/ n = next
      BY <1>5, <1>7, <1>8, <2>1, <2>3
    <2> QED
      BY <1>8, <2>2, <2>3
  <1>11. \A p : Scans(p)' \subseteq Scans(p) \cup (IF r.kind = "scan" /\ r.point = p THEN {next} ELSE {})
    BY <1>4, <1>5, <1>7, <1>8 DEF Scans, PendingAt, Expired
  <1>12. \A p : r.kind # "scan" \/ r.point # p =>
                  Cardinality(Scans(p)') <= Cardinality(Scans(p)) /\ Cardinality(Scans(p)') \in Nat
                  /\ Cardinality(Scans(p)) \in Nat
    <2> SUFFICES ASSUME NEW p, r.kind # "scan" \/ r.point # p
                 PROVE  Cardinality(Scans(p)') <= Cardinality(Scans(p)) /\ Cardinality(Scans(p)') \in Nat
                        /\ Cardinality(Scans(p)) \in Nat
      OBVIOUS
    <2>1. IsFiniteSet(Scans(p)) /\ Scans(p)' \in SUBSET Scans(p) /\ Cardinality(Scans(p)) \in Nat
      BY <1>11, ScansFinite DEF Orderly, Calm
    <2> QED
      BY <2>1, FS_Subset, FS_CardinalityType
  <1>13. PendingBounded'
    <2> SUFFICES ASSUME NEW p \in Point PROVE Cardinality(Scans(p)') <= MaxPending
      BY DEF PendingBounded, Scans
    <2>1. CASE r.kind # "scan" \/ r.point # p
      <3>1. Cardinality(Scans(p)) <= MaxPending
        BY DEF Orderly, Calm, PendingBounded, Scans
      <3> QED
        BY <1>12, <2>1, <3>1, AdmissionAssumption
    <2>2. CASE r.kind = "scan" /\ r.point = p
      <3> DEFINE more == Scans(p) \cup {next}
      <3>1. IsFiniteSet(Scans(p)) /\ Cardinality(Scans(p)) \in Nat /\ Cardinality(Scans(p)) < MaxPending
        BY <1>2, <2>2, ScansFinite DEF Orderly, Calm
      <3>2. IsFiniteSet(more) /\ Cardinality(more) <= Cardinality(Scans(p)) + 1
        <4>1. IsFiniteSet(more) /\ Cardinality(more) =
                IF next \in Scans(p) THEN Cardinality(Scans(p)) ELSE Cardinality(Scans(p)) + 1
          BY <3>1, FS_AddElement
        <4> QED
          BY <3>1, <4>1
      <3>3. Scans(p)' \in SUBSET more
        BY <1>11, <2>2
      <3>4. Cardinality(Scans(p)') <= Cardinality(more) /\ Cardinality(Scans(p)') \in Nat /\ Cardinality(more) \in Nat
        BY <3>2, <3>3, FS_Subset, FS_CardinalityType
      <3> HIDE DEF more
      <3> QED
        BY <3>1, <3>2, <3>4, AdmissionAssumption
    <2> QED
      BY <2>1, <2>2
  <1>14. ASSUME NEW d \in Caller \ {c}, NEW j \in Job, j = job[d], Room(j) PROVE Room(j)'
    <2> SUFFICES ASSUME j # Idle, j.at \in Created PROVE Room(j)'
      BY DEF Room
    <2>1. j.r.kind \in Queued /\ Started(j.r) = {} /\ Turn(j, d)
      BY <1>14 DEF Room, Orderly, Good
    <2>2. Head(lock[j.r.kind]) = d
      BY <2>1 DEF Turn, Past, Queued
    <2>3. j.r.kind # r.kind
      BY <1>2, <2>2
    <2>4. Started(j.r)' = {}
      <3>1. \A n \in DOMAIN sessions :
              ~(sessions[n].kind = j.r.kind /\ sessions[n].point = j.r.point /\ sessions[n].ref = j.r.ref)
        BY <2>1 DEF Started
      <3>2. \A n \in DOMAIN sessions' :
              ~(sessions'[n].kind = j.r.kind /\ sessions'[n].point = j.r.point /\ sessions'[n].ref = j.r.ref)
        BY <1>5, <1>7, <1>8, <2>3, <3>1
      <3> QED
        BY <3>2 DEF Started
    <2>5. j.r.kind = "scan" => Cardinality(Scans(j.r.point)') < MaxPending
      <3> SUFFICES ASSUME j.r.kind = "scan" PROVE Cardinality(Scans(j.r.point)') < MaxPending
        OBVIOUS
      <3>1. PICK p : p = j.r.point
        OBVIOUS
      <3>2. Cardinality(Scans(p)') <= Cardinality(Scans(p))
            /\ Cardinality(Scans(p)') \in Nat /\ Cardinality(Scans(p)) \in Nat
        BY <1>12, <2>3
      <3>3. Cardinality(Scans(p)) < MaxPending
        BY <1>14, <3>1 DEF Room
      <3> QED
        BY <3>1, <3>2, <3>3, AdmissionAssumption
    <2> QED
      BY <2>1, <2>4, <2>5 DEF Room
  <1> QED
    BY <1>4, <1>9, <1>10, <1>13, <1>14, Ends DEF Calm

(* A claim marks a session and ends.                                        *)
LEMMA OrderlyClaim ==
  ASSUME Orderly, NEW c \in Caller, Claim(c)
  PROVE  Orderly'
  <1>1. PICK n \in DOMAIN sessions : sessions' = [sessions EXCEPT ![n].claimed = TRUE]
    BY DEF Claim, Named
  <1>2. sessions[n] \in Session /\ sessions \in Seq(Session)
    BY DEF Orderly, Calm, Typed
  <1>3. [sessions[n] EXCEPT !.claimed = TRUE] \in Session
    BY <1>2 DEF Session
  <1>4. sessions' \in Seq(Session) /\ DOMAIN sessions' = DOMAIN sessions
    BY <1>1, <1>2, <1>3
  <1>5. End(c) /\ UNCHANGED <<clock, active, suspended>>
    BY DEF Claim
  <1>6. Typed'
    BY <1>4, <1>5, EndTyped DEF Orderly, Calm, Typed
  <1>7. \A m \in DOMAIN sessions :
           /\ sessions'[m].kind = sessions[m].kind /\ sessions'[m].point = sessions[m].point
           /\ sessions'[m].ref = sessions[m].ref /\ sessions'[m].expiresAt = sessions[m].expiresAt
           /\ sessions'[m].pending => sessions[m].pending
    BY <1>1, <1>2 DEF Session
  <1>8. clock <= clock'
    BY <1>5 DEF Orderly, Calm, Typed
  <1>9. Calm' /\ \A j : Room(j) => Room(j)'
    BY <1>4, <1>6, <1>7, <1>8, NothingCreated DEF Orderly
  <1> QED
    BY <1>5, <1>9, Ends

-----------------------------------------------------------------------------
(* What happens around the requests.                                        *)

(* A crash forgets requests and queues, not sessions.                       *)
LEMMA OrderlyCrash ==
  ASSUME Orderly, Crash
  PROVE  Orderly'
  <1>1. UNCHANGED <<clock, sessions>> /\ job' = [c \in Caller |-> Idle]
    BY DEF Crash
  <1>2. Typed'
    BY <1>1 DEF Crash, Orderly, Calm, Typed
  <1>3. Calm'
    BY <1>1, <1>2, NothingCreated DEF Orderly, Calm, Typed
  <1> QED
    BY <1>1, <1>3, IdleGood DEF Orderly

(* Requests in progress see what is switched.                               *)
LEMMA OrderlySwitch ==
  ASSUME Orderly, NEW on, NEW barred, Switch(on, barred)
  PROVE  Orderly'
  <1> DEFINE now(c) == SeenNow(job[c].r.point, on, barred)
             new(c) == [job[c] EXCEPT !.seen = @ \cup now(c)]
  <1>1. UNCHANGED <<clock, sessions, lock>> /\ active' = on /\ suspended' = barred
    BY DEF Switch
  <1>2. job' = [c \in Caller |-> IF job[c] = Idle THEN Idle ELSE new(c)]
    BY DEF Switch
  <1>3. ASSUME NEW c \in Caller, job[c] # Idle
        PROVE  /\ new(c) \in Job /\ new(c).at = job[c].at /\ new(c).r = job[c].r /\ new(c).active = job[c].active
               /\ new(c).seen = job[c].seen \cup now(c) /\ new(c) # Idle
    <2>1. job[c] \in Job
      BY <1>3, JobShape DEF Orderly, Calm
    <2>2. now(c) \subseteq Sight
      BY DEF SeenNow, Sight
    <2> HIDE DEF now
    <2>3. /\ new(c) \in Job /\ new(c).at = job[c].at /\ new(c).r = job[c].r /\ new(c).active = job[c].active
          /\ new(c).seen = job[c].seen \cup now(c)
      BY <2>1, <2>2 DEF Job
    <2> QED
      BY <1>3, <2>1, <2>3, JobShape DEF Idle, Job, Place, Past, Created
  <1> HIDE DEF new
  <1>4. Typed'
    BY <1>1, <1>2, <1>3 DEF Orderly, Calm, Typed
  <1>5. Calm' /\ \A j : Room(j) => Room(j)'
    BY <1>1, <1>4, NothingCreated DEF Orderly, Calm, Typed
  <1>6. ASSUME NEW c \in Caller, job[c] # Idle, NEW j, j = new(c) PROVE Good(j, c)'
    <2>1. Good(job[c], c)
      BY DEF Orderly
    <2>2. j.at = job[c].at /\ j.r = job[c].r /\ j.active = job[c].active /\ j # Idle /\ j \in Job
          /\ j.seen = job[c].seen \cup SeenNow(j.r.point, on, barred)
      BY <1>3, <1>6
    <2>3. Turn(j, c)'
      BY <1>1, <1>6, <2>1, <2>2 DEF Good, Turn
    <2>4. Room(j)'
      <3>1. Room(j)
        BY <1>6, <2>1, <2>2 DEF Good, Room
      <3> QED
        BY <1>5, <3>1
    <2>5. Saw(j)'
      <3>1. SeenNow(j.r.point, on, barred) \subseteq Sight /\ job[c].seen \subseteq Sight
        BY <1>6, JobShape DEF Orderly, Calm, Job, SeenNow, Sight
      <3>2. Saw(job[c])
        BY <2>1 DEF Good
      <3> QED
        BY <1>1, <1>6, <2>2, <3>1, <3>2 DEF Saw, SeenNow
    <2> QED
      BY <2>3, <2>4, <2>5 DEF Good
  <1>7. \A c \in Caller : Good(job[c], c)'
    BY <1>2, <1>6, IdleGood
  <1> QED
    BY <1>5, <1>7 DEF Orderly

(* Sessions are decided and time passes beside the requests.                *)
LEMMA OrderlyBeside ==
  ASSUME Orderly, Tick \/ \E n \in DOMAIN sessions : Decide(n)
  PROVE  Orderly'
  <1>1. UNCHANGED <<lock, job, active, suspended>> /\ clock' \in Nat /\ clock <= clock'
    BY DEF Tick, Decide, Orderly, Calm, Typed
  <1>2. /\ DOMAIN sessions' = DOMAIN sessions /\ sessions' \in Seq(Session)
        /\ \A m \in DOMAIN sessions :
             /\ sessions'[m].kind = sessions[m].kind /\ sessions'[m].point = sessions[m].point
             /\ sessions'[m].ref = sessions[m].ref /\ sessions'[m].expiresAt = sessions[m].expiresAt
             /\ sessions'[m].pending => sessions[m].pending
    <2>1. CASE Tick
      BY <2>1 DEF Tick, Orderly, Calm, Typed
    <2>2. CASE \E n \in DOMAIN sessions : Decide(n)
      <3>1. PICK n \in DOMAIN sessions : sessions' = [sessions EXCEPT ![n].pending = FALSE]
        BY <2>2 DEF Decide
      <3>2. sessions[n] \in Session /\ sessions \in Seq(Session)
        BY DEF Orderly, Calm, Typed
      <3>3. [sessions[n] EXCEPT !.pending = FALSE] \in Session
        BY <3>2 DEF Session
      <3>4. DOMAIN sessions' = DOMAIN sessions /\ sessions' \in Seq(Session)
        BY <3>1, <3>2, <3>3
      <3> QED
        BY <3>1, <3>2, <3>4 DEF Session
    <2> QED
      BY <2>1, <2>2
  <1>3. Typed'
    BY <1>1, <1>2 DEF Orderly, Calm, Typed
  <1>4. Calm' /\ \A j : Room(j) => Room(j)'
    BY <1>1, <1>2, <1>3, NothingCreated DEF Orderly
  <1> QED
    BY <1>1, <1>4 DEF Orderly, Good, Turn, Saw

(* At first nothing is saved and nobody asks.                               *)
LEMMA OrderlyInit == Init => Orderly
  <1> SUFFICES ASSUME Init PROVE Orderly
    OBVIOUS
  <1>1. Typed
    BY DEF Init, Typed, Queued
  <1>2. OnePerReference
    BY DEF Init, OnePerReference
  <1>3. PendingBounded
    <2> SUFFICES ASSUME NEW p \in Point PROVE Cardinality(Scans(p)) <= MaxPending
      BY DEF PendingBounded, Scans
    <2>1. Scans(p) = {}
      BY DEF Init, Scans, PendingAt
    <2> QED
      BY <2>1, FS_EmptySet, AdmissionAssumption
  <1>4. \A c \in Caller : job[c] = Idle
    BY DEF Init
  <1> QED
    BY <1>1, <1>2, <1>3, <1>4, IdleGood DEF Orderly, Calm

(* Every step keeps the invariant.                                          *)
LEMMA OrderlyNext == Orderly /\ [Next]_vars => Orderly'
  <1> SUFFICES ASSUME Orderly, [Next]_vars PROVE Orderly'
    OBVIOUS
  <1>1. ASSUME NEW c \in Caller, Step(c) PROVE Orderly'
    <2>1. CASE Replay(c) \/ Refuse(c) \/ Fail(c)
      BY <2>1, EndsQuietly DEF Replay, Refuse, Fail
    <2> QED
      BY <1>1, <2>1, OrderlyRead, OrderlyAdmit, OrderlyInsert, OrderlyClaim DEF Step
  <1>2. CASE Administrate
    BY <1>2, OrderlySwitch DEF Administrate
  <1>3. CASE UNCHANGED vars
    <2>1. UNCHANGED <<clock, active, suspended, sessions, lock, job>>
      BY <1>3 DEF vars
    <2>2. Calm' /\ \A j : Room(j) => Room(j)'
      BY <2>1, NothingCreated DEF Orderly, Calm, Typed
    <2> QED
      BY <2>1, <2>2 DEF Orderly, Good, Turn, Saw
  <1> QED
    BY <1>1, <1>2, <1>3, OrderlyCrash, OrderlyBeside, OrderlyAsk DEF Next

-----------------------------------------------------------------------------

(* However often a scan or a checkout is retried, it has one session        *)
(* (startSession, createCheckoutSession, withCreationLock).                 *)
THEOREM RetriesShareSession == Spec => []OnePerReference
  <1>1. Orderly => OnePerReference
    BY DEF Orderly, Calm
  <1> QED
    BY <1>1, OrderlyInit, OrderlyNext, PTL DEF Spec

(* At no time has a service point more unfinished scans than its bound      *)
(* (startSession, withCreationLock).                                        *)
THEOREM PendingNeverAbove == Spec => []PendingBounded
  <1>1. Orderly => PendingBounded
    BY DEF Orderly, Calm
  <1> QED
    BY <1>1, OrderlyInit, OrderlyNext, PTL DEF Spec

(* A request during all of which its service point was switched off, or its *)
(* vendor suspended, neither creates nor claims a session                   *)
(* (assertVendorVerificationAllowed).                                       *)
THEOREM BarredNeverAdmitted == Spec => BarredRefused
  <1> DEFINE Refused == \A c \in Caller : sessions' # sessions /\ job[c] # Idle /\ job'[c] = Idle =>
                          job[c].seen = {"active", "not suspended"}
  <1>1. ASSUME Orderly, [Next]_vars PROVE Refused
    <2>1. ASSUME NEW c \in Caller, Step(c), sessions' # sessions
          PROVE  job[c].seen = Sight /\ \A d \in Caller : d # c => job'[d] = job[d]
      <3>1. (Insert(c) \/ Claim(c)) /\ job[c] # Idle
        BY <2>1 DEF Step, FindSession, FindPoint, Allow, Replay, AdmitScan, AdmitCheckout, Prepare, Refuse, Fail
      <3>2. job[c].at \in {"allowed"} \cup Created /\ End(c)
        BY <3>1 DEF Insert, Claim, Created
      <3>3. Saw(job[c])
        BY <1>1 DEF Orderly, Good
      <3>4. \A d \in Caller : d # c => job'[d] = job[d]
        BY <1>1, <3>2 DEF End, Orderly, Calm, Typed
      <3> QED
        BY <3>1, <3>2, <3>3, <3>4 DEF Saw
    <2>2. ASSUME NEW c \in Caller, Step(c) PROVE Refused
      BY <2>1, <2>2 DEF Sight
    <2>3. CASE \E n \in DOMAIN sessions : Decide(n)
      BY <2>3 DEF Decide
    <2>4. CASE Tick \/ Crash \/ Administrate \/ \E c \in Caller, r \in Request : Ask(c, r)
      BY <2>4 DEF Tick, Crash, Administrate, Switch, Ask
    <2>5. CASE UNCHANGED vars
      BY <2>5 DEF vars
    <2> QED
      BY <1>1, <2>2, <2>3, <2>4, <2>5 DEF Next
  <1>2. Orderly /\ [Next]_vars => [Refused]_vars
    BY <1>1
  <1> QED
    BY <1>2, OrderlyInit, OrderlyNext, PTL DEF Spec, BarredRefused

-----------------------------------------------------------------------------
(* The rate limiter.  For an address or a service point, `held` is what its *)
(* window remembers and `mine` are its places in `log`, the admitted scans. *)
Attempt == [time : Nat, nth : Nat]
Entry == [ip : Ip, point : Point, time : Nat]

(* The attempts of one time are numbered, so that the next one is new, and  *)
(* the window does not hold more than its limit.                            *)
Memory(held, limit, now) ==
  /\ held \in SUBSET Attempt /\ IsFiniteSet(held)
  /\ \A a \in held : a.nth < Cardinality({b \in held : b.time = a.time})
  /\ Cardinality(Recent(held, now)) <= limit

(* Whatever window ends now or later, as many scans of it are remembered as *)
(* were admitted.                                                           *)
Tally(held, mine, log, now) ==
  \A t \in Nat : now <= t =>
    Cardinality({n \in mine : log[n].time > t - Window}) <= Cardinality(Recent(held, t))

Places(log, field, key) == {n \in DOMAIN log : log[n][field] = key}

(* RateKept is not inductive: the next scan is admitted by what the windows *)
(* remember, not by what was admitted.                                      *)
Rated ==
  /\ clock \in Nat /\ admitted \in Seq(Entry)
  /\ attempts.ip \in [Ip -> SUBSET Attempt] /\ attempts.point \in [Point -> SUBSET Attempt]
  /\ \A i \in Ip : /\ Memory(attempts.ip[i], PerIp, clock)
                   /\ Tally(attempts.ip[i], Places(admitted, "ip", i), admitted, clock)
  /\ \A p \in Point : /\ Memory(attempts.point[p], PerServicePoint, clock)
                      /\ Tally(attempts.point[p], Places(admitted, "point", p), admitted, clock)
  /\ RateKept

(* A later window holds no more than an earlier one.                        *)
LEMMA WindowShrinks ==
  ASSUME NEW held \in SUBSET Attempt, IsFiniteSet(held), NEW now \in Nat, NEW t \in Nat, now <= t
  PROVE  /\ Recent(held, t) \subseteq Recent(held, now)
         /\ IsFiniteSet(Recent(held, t)) /\ IsFiniteSet(Recent(held, now))
         /\ Cardinality(Recent(held, t)) <= Cardinality(Recent(held, now))
         /\ Cardinality(Recent(held, t)) \in Nat /\ Cardinality(Recent(held, now)) \in Nat
  <1>1. Recent(held, t) \subseteq Recent(held, now)
    BY LimitsAssumption DEF Recent, Attempt
  <1>2. Recent(held, now) \in SUBSET held /\ Recent(held, t) \in SUBSET held
    BY DEF Recent
  <1>3. IsFiniteSet(Recent(held, t)) /\ IsFiniteSet(Recent(held, now))
    BY <1>2, FS_Subset
  <1>4. Cardinality(Recent(held, t)) <= Cardinality(Recent(held, now))
    BY <1>1, <1>3, FS_Subset
  <1> QED
    BY <1>1, <1>3, <1>4, FS_CardinalityType

(* What a window records: never more than its limit, and an admitted        *)
(* attempt on top of what it held.                                          *)
LEMMA RecordedMemory ==
  ASSUME NEW now \in Nat, NEW limit \in Nat, NEW held, Memory(held, limit, now),
         NEW r, r = Recorded(held, limit, now)
  PROVE  /\ Memory(r, limit, now)
         /\ \A t \in Nat : now <= t =>
              Cardinality(Recent(r, t)) = Cardinality(Recent(held, t)) +
                IF Admits(held, limit, now) /\ now > t - Window THEN 1 ELSE 0
  <1>1. CASE ~Admits(held, limit, now)
    <2>1. r = held
      BY <1>1 DEF Recorded
    <2>2. \A t \in Nat : now <= t => Cardinality(Recent(held, t)) \in Nat
      BY WindowShrinks DEF Memory
    <2> QED
      BY <1>1, <2>1, <2>2
  <1>2. CASE Admits(held, limit, now)
    <2> DEFINE same(x, t) == {a \in x : a.time = t}
               c == Cardinality(same(held, now))
               new == [time |-> now, nth |-> c]
    <2>1. r = Recent(held, now) \cup {new}
      BY <1>2 DEF Recorded
    <2>2. /\ held \in SUBSET Attempt /\ IsFiniteSet(held)
          /\ \A a \in held : a.nth < Cardinality(same(held, a.time))
      BY DEF Memory
    <2>3. \A t : IsFiniteSet(same(held, t)) /\ Cardinality(same(held, t)) \in Nat
      <3>1. \A t : same(held, t) \in SUBSET held
        OBVIOUS
      <3> HIDE DEF same
      <3> QED
        BY <2>2, <3>1, FS_Subset, FS_CardinalityType
    <2>4. new.time = now /\ new.nth = c /\ c \in Nat /\ new \in Attempt
      BY <2>3 DEF Attempt
    <2> HIDE DEF new
    <2>5. new \notin held
      <3> SUFFICES ASSUME new \in held PROVE FALSE
        OBVIOUS
      <3>1. c < c
        BY <2>2, <2>4
      <3> QED
        BY <2>4, <3>1
    <2>6. r \in SUBSET Attempt /\ IsFiniteSet(r)
      <3>1. Recent(held, now) \in SUBSET held
        BY DEF Recent
      <3>2. IsFiniteSet(Recent(held, now))
        BY <2>2, <3>1, FS_Subset
      <3> QED
        BY <2>1, <2>2, <2>4, <3>1, <3>2, FS_AddElement
    <2>7. now > now - Window
      BY LimitsAssumption
    <2>8. ASSUME NEW t \in Nat, now <= t
          PROVE  Cardinality(Recent(r, t)) = Cardinality(Recent(held, t)) + IF now > t - Window THEN 1 ELSE 0
      <3>1. /\ Recent(held, t) \subseteq Recent(held, now) /\ IsFiniteSet(Recent(held, t))
            /\ Cardinality(Recent(held, t)) \in Nat
        BY <2>2, <2>8, WindowShrinks
      <3>2. Recent(r, t) = Recent(held, t) \cup IF now > t - Window THEN {new} ELSE {}
        BY <2>1, <2>4, <3>1 DEF Recent
      <3>3. new \notin Recent(held, t)
        BY <2>5 DEF Recent
      <3>4. Cardinality(Recent(held, t) \cup {new}) = Cardinality(Recent(held, t)) + 1
        BY <3>1, <3>3, FS_AddElement
      <3> QED
        BY <3>1, <3>2, <3>4
    <2>9. Cardinality(Recent(r, now)) <= limit
      <3>1. Cardinality(Recent(r, now)) = Cardinality(Recent(held, now)) + 1
        BY <2>7, <2>8
      <3>2. Cardinality(Recent(held, now)) \in Nat /\ Cardinality(Recent(held, now)) < limit
        BY <1>2, <2>2, WindowShrinks DEF Admits
      <3> QED
        BY <3>1, <3>2
    <2>10. ASSUME NEW a \in r
           PROVE  a.nth < Cardinality(same(r, a.time))
      <3>1. CASE a.time # now
        <4>1. a \in held /\ a.time > now - Window
          BY <2>1, <2>4, <3>1 DEF Recent
        <4>2. same(r, a.time) = same(held, a.time)
          BY <2>1, <2>4, <3>1, <4>1 DEF Recent
        <4> QED
          BY <2>2, <4>1, <4>2
      <3>2. CASE a.time = now
        <4>1. same(r, now) = same(held, now) \cup {new}
          BY <2>1, <2>4, <2>7 DEF Recent
        <4>2. new \notin same(held, now)
          BY <2>5
        <4> HIDE DEF same
        <4>3. Cardinality(same(r, now)) = c + 1
          BY <2>3, <4>1, <4>2, FS_AddElement
        <4>4. a.nth \in Nat
          BY <2>6 DEF Attempt
        <4>5. a # new => a \in held /\ a.nth < c
          BY <2>1, <2>2, <3>2 DEF Recent
        <4> QED
          BY <2>4, <3>2, <4>3, <4>4, <4>5
      <3> QED
        BY <3>1, <3>2
    <2> QED
      BY <1>2, <2>6, <2>8, <2>9, <2>10 DEF Memory
  <1> QED
    BY <1>1, <1>2

(* A scan that both windows admit is in the log of its address and of its   *)
(* service point; a recorded attempt that is not admitted does not harm.    *)
LEMMA TallyRecorded ==
  ASSUME NEW now \in Nat, NEW limit \in Nat, NEW held, Memory(held, limit, now),
         NEW log \in Seq(Entry), NEW field \in {"ip", "point"}, NEW key,
         Tally(held, Places(log, field, key), log, now),
         NEW entry \in Entry, entry.time = now,
         NEW log2, log2 = log \/ (log2 = Append(log, entry) /\ (entry[field] = key => Admits(held, limit, now))),
         NEW r, r = Recorded(held, limit, now) \/ (r = held /\ (log2 = log \/ entry[field] # key))
  PROVE  Tally(r, Places(log2, field, key), log2, now)
  <1> DEFINE In(l, t) == {n \in Places(l, field, key) : l[n].time > t - Window}
  <1>1. Len(log) \in Nat /\ DOMAIN log = 1 .. Len(log)
    OBVIOUS
  <1>2. ASSUME NEW t \in Nat, now <= t
        PROVE  Cardinality(In(log2, t)) <= Cardinality(Recent(r, t))
    <2>1. /\ IsFiniteSet(In(log, t)) /\ Cardinality(In(log, t)) \in Nat
          /\ Cardinality(In(log, t)) <= Cardinality(Recent(held, t)) /\ Cardinality(Recent(held, t)) \in Nat
      <3>1. In(log, t) \in SUBSET (1 .. Len(log))
        BY <1>1 DEF Places
      <3>2. Cardinality(In(log, t)) <= Cardinality(Recent(held, t))
        BY <1>2 DEF Tally
      <3> HIDE DEF In
      <3>3. IsFiniteSet(In(log, t)) /\ Cardinality(In(log, t)) \in Nat
        <4>1. IsFiniteSet(1 .. Len(log))
          BY <1>1, FS_Interval
        <4>2. IsFiniteSet(In(log, t))
          BY <3>1, <4>1, FS_Subset
        <4> QED
          BY <4>2, FS_CardinalityType
      <3>4. Cardinality(Recent(held, t)) \in Nat
        BY <1>2, WindowShrinks DEF Memory
      <3> QED
        BY <3>2, <3>3, <3>4
    <2>2. r = Recorded(held, limit, now) =>
            Cardinality(Recent(r, t)) = Cardinality(Recent(held, t)) +
              IF Admits(held, limit, now) /\ now > t - Window THEN 1 ELSE 0
      BY <1>2, RecordedMemory
    <2>3. CASE log2 = log \/ entry[field] # key
      <3>1. In(log2, t) = In(log, t)
        BY <1>1, <2>3 DEF Places
      <3>2. Cardinality(Recent(r, t)) >= Cardinality(Recent(held, t))
        BY <2>1, <2>2
      <3> HIDE DEF In
      <3> QED
        BY <2>1, <2>2, <3>1, <3>2
    <2>4. CASE log2 # log /\ entry[field] = key
      <3>1. log2 = Append(log, entry) /\ Admits(held, limit, now) /\ r = Recorded(held, limit, now)
        BY <2>4
      <3>2. In(log2, t) = In(log, t) \cup IF now > t - Window THEN {Len(log) + 1} ELSE {}
        <4>1. DOMAIN log2 = 1 .. Len(log) + 1 /\ log2[Len(log) + 1] = entry
          BY <1>1, <3>1
        <4>2. \A n \in 1 .. Len(log) : log2[n] = log[n]
          BY <3>1
        <4> QED
          BY <1>1, <2>4, <4>1, <4>2 DEF Places
      <3>3. Len(log) + 1 \notin In(log, t)
        BY <1>1 DEF Places
      <3> HIDE DEF In
      <3>4. Cardinality(In(log2, t)) = Cardinality(In(log, t)) + IF now > t - Window THEN 1 ELSE 0
        <4>1. Cardinality(In(log, t) \cup {Len(log) + 1}) = Cardinality(In(log, t)) + 1
          BY <2>1, <3>3, FS_AddElement
        <4>2. CASE now > t - Window
          <5>1. In(log2, t) = In(log, t) \cup {Len(log) + 1}
            BY <3>2, <4>2
          <5> QED
            BY <4>1, <4>2, <5>1
        <4>3. CASE ~(now > t - Window)
          <5>1. In(log2, t) = In(log, t) \cup {}
            BY <3>2, <4>3, Zenon
          <5>2. In(log2, t) = In(log, t)
            BY <5>1
          <5> QED
            BY <2>1, <4>3, <5>2
        <4> QED
          BY <4>2, <4>3
      <3> QED
        BY <2>1, <2>2, <3>1, <3>4
    <2> QED
      BY <2>3, <2>4
  <1> QED
    BY <1>2 DEF Tally

(* The window that ends now admitted no more than its limit.                *)
LEMMA NowKept ==
  ASSUME NEW now \in Nat, NEW limit \in Nat, NEW held, Memory(held, limit, now),
         NEW log \in Seq(Entry), NEW field, NEW key, Tally(held, Places(log, field, key), log, now),
         NEW in, in \subseteq {n \in Places(log, field, key) : log[n].time > now - Window}
  PROVE  Cardinality(in) <= limit
  <1> DEFINE all == {n \in Places(log, field, key) : log[n].time > now - Window}
  <1>1. Cardinality(all) <= Cardinality(Recent(held, now)) /\ Cardinality(Recent(held, now)) <= limit
    BY DEF Tally, Memory
  <1>2. Cardinality(Recent(held, now)) \in Nat
    BY WindowShrinks DEF Memory
  <1>3. all \in SUBSET (1 .. Len(log)) /\ Len(log) \in Nat
    BY DEF Places
  <1>4. in \in SUBSET all
    OBVIOUS
  <1> HIDE DEF all
  <1>5. IsFiniteSet(all)
    <2>1. IsFiniteSet(1 .. Len(log))
      BY <1>3, FS_Interval
    <2> QED
      BY <1>3, <2>1, FS_Subset
  <1>6. Cardinality(in) <= Cardinality(all) /\ Cardinality(in) \in Nat /\ Cardinality(all) \in Nat
    BY <1>4, <1>5, FS_Subset, FS_CardinalityType
  <1> QED
    BY <1>1, <1>2, <1>6

(* The windows that ended before are as they were.                          *)
LEMMA KeptOnce ==
  ASSUME Rated, clock' \in {clock, clock + 1},
         \/ admitted' = admitted
         \/ \E e \in Entry : clock' = clock /\ e.time = clock /\ admitted' = Append(admitted, e),
         admitted' \in Seq(Entry),
         \A i \in Ip : /\ Memory(attempts'.ip[i], PerIp, clock')
                       /\ Tally(attempts'.ip[i], Places(admitted', "ip", i), admitted', clock'),
         \A p \in Point : /\ Memory(attempts'.point[p], PerServicePoint, clock')
                          /\ Tally(attempts'.point[p], Places(admitted', "point", p), admitted', clock')
  PROVE  RateKept'
  <1> DEFINE In(log, t) == {n \in DOMAIN log : t - Window < log[n].time /\ log[n].time <= t}
  <1>1. clock' \in Nat /\ clock \in Nat /\ admitted \in Seq(Entry)
    BY DEF Rated
  <1>2. ASSUME NEW t \in 0 .. clock'
        PROVE  /\ \A p \in Point : Cardinality({n \in In(admitted', t) : admitted'[n].point = p}) <= PerServicePoint
               /\ \A i \in Ip : Cardinality({n \in In(admitted', t) : admitted'[n].ip = i}) <= PerIp
    <2>1. CASE t = clock'
      <3>1. \A p : {n \in In(admitted', t) : admitted'[n].point = p}
                     \subseteq {n \in Places(admitted', "point", p) : admitted'[n].time > clock' - Window}
        BY <1>1, <2>1 DEF Places, Entry
      <3>2. \A i : {n \in In(admitted', t) : admitted'[n].ip = i}
                     \subseteq {n \in Places(admitted', "ip", i) : admitted'[n].time > clock' - Window}
        BY <1>1, <2>1 DEF Places, Entry
      <3> HIDE DEF In
      <3>3. ASSUME NEW p \in Point
            PROVE  Cardinality({n \in In(admitted', t) : admitted'[n].point = p}) <= PerServicePoint
        BY <1>1, <3>1, NowKept, LimitsAssumption
      <3>4. ASSUME NEW i \in Ip
            PROVE  Cardinality({n \in In(admitted', t) : admitted'[n].ip = i}) <= PerIp
        BY <1>1, <3>2, NowKept, LimitsAssumption
      <3> QED
        BY <3>3, <3>4
    <2>2. CASE t # clock'
      <3>1. t \in 0 .. clock
        BY <1>1, <2>2
      <3>2. In(admitted', t) = In(admitted, t) /\ \A n \in In(admitted, t) : admitted'[n] = admitted[n]
        <4>1. CASE admitted' = admitted
          BY <4>1
        <4>2. ASSUME NEW e \in Entry, clock' = clock, e.time = clock, admitted' = Append(admitted, e)
              PROVE  In(admitted', t) = In(admitted, t) /\ \A n \in In(admitted, t) : admitted'[n] = admitted[n]
          <5>1. /\ DOMAIN admitted = 1 .. Len(admitted) /\ Len(admitted) \in Nat
                /\ DOMAIN admitted' = 1 .. Len(admitted) + 1 /\ admitted'[Len(admitted) + 1] = e
                /\ \A n \in 1 .. Len(admitted) : admitted'[n] = admitted[n]
            BY <1>1, <4>2
          <5>2. t < e.time /\ t \in Nat /\ e.time \in Nat
            BY <1>1, <2>2, <3>1, <4>2
          <5> QED
            BY <5>1, <5>2
        <4> QED
          BY <4>1, <4>2
      <3>3. /\ \A p \in Point : Cardinality({n \in In(admitted, t) : admitted[n].point = p}) <= PerServicePoint
            /\ \A i \in Ip : Cardinality({n \in In(admitted, t) : admitted[n].ip = i}) <= PerIp
        BY <3>1 DEF Rated, RateKept
      <3>4. /\ \A p : {n \in In(admitted', t) : admitted'[n].point = p} = {n \in In(admitted, t) : admitted[n].point = p}
            /\ \A i : {n \in In(admitted', t) : admitted'[n].ip = i} = {n \in In(admitted, t) : admitted[n].ip = i}
        BY <3>2
      <3> QED
        BY <3>3, <3>4
    <2> QED
      BY <2>1, <2>2
  <1> QED
    BY <1>2 DEF RateKept

(* The limiter's check of a new scan.                                       *)
LEMMA RatedScan ==
  ASSUME Rated, Orderly, NEW c \in Caller, job[c] # Idle, AdmitScan(c)
  PROVE  Rated'
  <1> DEFINE r == job[c].r
             entry == [ip |-> r.ip, point |-> r.point, time |-> clock]
             ipAdmits == Admits(attempts.ip[r.ip], PerIp, clock)
             pointAdmits == Admits(attempts.point[r.point], PerServicePoint, clock)
  <1>1. /\ r.ip \in Ip /\ r.point \in Point /\ clock \in Nat /\ clock' = clock
        /\ admitted \in Seq(Entry) /\ entry \in Entry
        /\ attempts.ip \in [Ip -> SUBSET Attempt] /\ attempts.point \in [Point -> SUBSET Attempt]
    <2>1. r \in Request
      BY JobShape DEF Orderly, Calm, Job
    <2> QED
      BY <2>1, AdmissionAssumption DEF Rated, AdmitScan, Entry
  <1>2. /\ attempts'.ip = [attempts.ip EXCEPT ![r.ip] = Recorded(attempts.ip[r.ip], PerIp, clock)]
        /\ attempts'.point = IF ipAdmits
             THEN [attempts.point EXCEPT ![r.point] = Recorded(attempts.point[r.point], PerServicePoint, clock)]
             ELSE attempts.point
        /\ \/ ipAdmits /\ pointAdmits /\ admitted' = Append(admitted, entry)
           \/ admitted' = admitted
    BY DEF AdmitScan, Check
  <1>3. entry.ip = r.ip /\ entry.point = r.point /\ entry.time = clock
    OBVIOUS
  <1> HIDE DEF r, entry
  <1>4. admitted' \in Seq(Entry)
    BY <1>1, <1>2
  <1>5. PerIp \in Nat /\ PerServicePoint \in Nat
    BY LimitsAssumption
  <1>6. ASSUME NEW i \in Ip
        PROVE  /\ Memory(attempts'.ip[i], PerIp, clock)
               /\ Tally(attempts'.ip[i], Places(admitted', "ip", i), admitted', clock)
    <2>1. Memory(attempts.ip[i], PerIp, clock) /\ Tally(attempts.ip[i], Places(admitted, "ip", i), admitted, clock)
      BY DEF Rated
    <2>2. attempts'.ip[i] = IF i = r.ip THEN Recorded(attempts.ip[i], PerIp, clock) ELSE attempts.ip[i]
      BY <1>1, <1>2
    <2>3. Memory(attempts'.ip[i], PerIp, clock)
      BY <1>1, <1>5, <2>1, <2>2, RecordedMemory
    <2>4. admitted' = admitted \/ (admitted' = Append(admitted, entry) /\
                                     (entry["ip"] = i => Admits(attempts.ip[i], PerIp, clock)))
      BY <1>2, <1>3
    <2>5. \/ attempts'.ip[i] = Recorded(attempts.ip[i], PerIp, clock)
          \/ attempts'.ip[i] = attempts.ip[i] /\ (admitted' = admitted \/ entry["ip"] # i)
      BY <1>3, <2>2
    <2>6. Tally(attempts'.ip[i], Places(admitted', "ip", i), admitted', clock)
      BY <1>1, <1>3, <1>5, <2>1, <2>4, <2>5, TallyRecorded
    <2> QED
      BY <2>3, <2>6
  <1>7. ASSUME NEW p \in Point
        PROVE  /\ Memory(attempts'.point[p], PerServicePoint, clock)
               /\ Tally(attempts'.point[p], Places(admitted', "point", p), admitted', clock)
    <2>1. /\ Memory(attempts.point[p], PerServicePoint, clock)
          /\ Tally(attempts.point[p], Places(admitted, "point", p), admitted, clock)
      BY DEF Rated
    <2>2. attempts'.point[p] = IF ipAdmits /\ p = r.point
                                 THEN Recorded(attempts.point[p], PerServicePoint, clock) ELSE attempts.point[p]
      BY <1>1, <1>2
    <2>3. Memory(attempts'.point[p], PerServicePoint, clock)
      BY <1>1, <1>5, <2>1, <2>2, RecordedMemory
    <2>4. admitted' = admitted \/ (admitted' = Append(admitted, entry) /\
                                     (entry["point"] = p => Admits(attempts.point[p], PerServicePoint, clock)))
      BY <1>2, <1>3
    <2>5. \/ attempts'.point[p] = Recorded(attempts.point[p], PerServicePoint, clock)
          \/ attempts'.point[p] = attempts.point[p] /\ (admitted' = admitted \/ entry["point"] # p)
      BY <1>2, <1>3, <2>2
    <2>6. Tally(attempts'.point[p], Places(admitted', "point", p), admitted', clock)
      BY <1>1, <1>3, <1>5, <2>1, <2>4, <2>5, TallyRecorded
    <2> QED
      BY <2>3, <2>6
  <1>8. attempts'.ip \in [Ip -> SUBSET Attempt] /\ attempts'.point \in [Point -> SUBSET Attempt]
    <2>1. DOMAIN attempts'.ip = Ip /\ DOMAIN attempts'.point = Point
      BY <1>1, <1>2
    <2>2. \A i \in Ip : attempts'.ip[i] \in SUBSET Attempt
      BY <1>6 DEF Memory
    <2>3. \A p \in Point : attempts'.point[p] \in SUBSET Attempt
      BY <1>7 DEF Memory
    <2>4. attempts'.ip = [i \in Ip |-> attempts'.ip[i]] /\ attempts'.point = [p \in Point |-> attempts'.point[p]]
      BY <1>1, <1>2
    <2> QED
      BY <2>2, <2>3, <2>4
  <1>9. RateKept'
    BY <1>1, <1>2, <1>3, <1>4, <1>6, <1>7, KeptOnce
  <1> QED
    BY <1>1, <1>4, <1>6, <1>7, <1>8, <1>9 DEF Rated

(* Time passes.                                                             *)
LEMMA RatedTick ==
  ASSUME Rated, Tick
  PROVE  Rated'
  <1>1. clock \in Nat /\ clock' = clock + 1 /\ attempts' = attempts /\ admitted' = admitted
    BY DEF Tick, Rated
  <1>2. ASSUME NEW held, NEW limit \in Nat, Memory(held, limit, clock)
        PROVE  Memory(held, limit, clock')
    <2>1. /\ Cardinality(Recent(held, clock')) <= Cardinality(Recent(held, clock))
          /\ Cardinality(Recent(held, clock')) \in Nat /\ Cardinality(Recent(held, clock)) \in Nat
      BY <1>1, <1>2, WindowShrinks DEF Memory
    <2> QED
      BY <1>2, <2>1 DEF Memory
  <1>3. ASSUME NEW held, NEW mine, Tally(held, mine, admitted, clock)
        PROVE  Tally(held, mine, admitted, clock')
    BY <1>1, <1>3 DEF Tally
  <1>4. \A i \in Ip : /\ Memory(attempts.ip[i], PerIp, clock')
                      /\ Tally(attempts.ip[i], Places(admitted, "ip", i), admitted, clock')
    BY <1>2, <1>3, LimitsAssumption DEF Rated
  <1>5. \A p \in Point : /\ Memory(attempts.point[p], PerServicePoint, clock')
                         /\ Tally(attempts.point[p], Places(admitted, "point", p), admitted, clock')
    BY <1>2, <1>3, LimitsAssumption DEF Rated
  <1>6. RateKept'
    BY <1>1, <1>4, <1>5, KeptOnce DEF Rated
  <1> QED
    BY <1>1, <1>4, <1>5, <1>6 DEF Rated

(* After a start nothing is remembered and nothing counts as admitted.      *)
LEMMA RatedStart == clock \in Nat /\ attempts = NoAttempts /\ admitted = <<>> => Rated
  <1> SUFFICES ASSUME clock \in Nat, attempts = NoAttempts, admitted = <<>> PROVE Rated
    OBVIOUS
  <1>1. \A t : Recent({}, t) = {}
    BY DEF Recent
  <1>2. \A t : Cardinality(Recent({}, t)) = 0
    BY <1>1, FS_EmptySet
  <1>3. \A limit \in Nat : Memory({}, limit, clock)
    BY <1>2, FS_EmptySet DEF Memory
  <1>4. \A field, key : Places(admitted, field, key) = {}
    BY DEF Places
  <1>5. Tally({}, {}, admitted, clock)
    BY <1>2, FS_EmptySet DEF Tally
  <1>6. RateKept
    <2>1. ASSUME NEW t, NEW key
          PROVE  /\ {n \in {m \in DOMAIN admitted : t - Window < admitted[m].time /\ admitted[m].time <= t} : admitted[n].point = key} = {}
                 /\ {n \in {m \in DOMAIN admitted : t - Window < admitted[m].time /\ admitted[m].time <= t} : admitted[n].ip = key} = {}
      OBVIOUS
    <2> QED
      BY <2>1, FS_EmptySet, LimitsAssumption DEF RateKept
  <1>7. \A i \in Ip : attempts.ip[i] = {}
    BY DEF NoAttempts
  <1>8. \A p \in Point : attempts.point[p] = {}
    BY DEF NoAttempts
  <1>9. attempts.ip \in [Ip -> SUBSET Attempt] /\ attempts.point \in [Point -> SUBSET Attempt]
    BY DEF NoAttempts
  <1>10. \A i \in Ip : /\ Memory(attempts.ip[i], PerIp, clock)
                       /\ Tally(attempts.ip[i], Places(admitted, "ip", i), admitted, clock)
    BY <1>3, <1>4, <1>5, <1>7, LimitsAssumption
  <1>11. \A p \in Point : /\ Memory(attempts.point[p], PerServicePoint, clock)
                          /\ Tally(attempts.point[p], Places(admitted, "point", p), admitted, clock)
    BY <1>3, <1>4, <1>5, <1>8, LimitsAssumption
  <1>12. admitted \in Seq(Entry)
    OBVIOUS
  <1> QED
    BY <1>6, <1>9, <1>10, <1>11, <1>12 DEF Rated

(* Only new scans, time and restarts concern the limiter.                   *)
LEMMA RatedNext == Rated /\ Orderly /\ [Next]_vars => Rated'
  <1> SUFFICES ASSUME Rated, Orderly, [Next]_vars PROVE Rated'
    OBVIOUS
  <1>1. CASE UNCHANGED <<clock, attempts, admitted>>
    <2>1. RateKept'
      BY <1>1 DEF Rated, RateKept
    <2> QED
      BY <1>1, <2>1 DEF Rated
  <1>2. CASE Crash
    <2>1. clock' \in Nat /\ attempts' = NoAttempts /\ admitted' = <<>>
      BY <1>2 DEF Crash, Rated
    <2>2. (clock \in Nat /\ attempts = NoAttempts /\ admitted = <<>> => Rated)'
      BY RatedStart, PTL
    <2> QED
      BY <2>1, <2>2 DEF NoAttempts
  <1>3. ASSUME NEW c \in Caller, Step(c)
        PROVE  Rated'
    <2>1. CASE AdmitScan(c)
      BY <1>3, <2>1, RatedScan DEF Step
    <2> QED
      BY <1>1, <1>3, <2>1 DEF Step, FindSession, FindPoint, Allow, Replay, AdmitCheckout, Prepare, Insert,
                              Claim, Refuse, Fail
  <1> QED
    BY <1>1, <1>2, <1>3, RatedTick DEF Next, vars, Administrate, Switch, Decide, Ask

(* Between restarts no window of the configured length ever admits more     *)
(* scans of an address, or at a service point, than configured, whichever   *)
(* of the two refuses and however many attempts fall into one instant       *)
(* (check, record).                                                         *)
THEOREM RateNeverAbove == Spec => []RateKept
  <1>1. Init => Rated
    BY RatedStart DEF Init
  <1>2. Rated => RateKept
    BY DEF Rated
  <1> QED
    BY <1>1, <1>2, RatedNext, OrderlyInit, OrderlyNext, PTL DEF Spec
=============================================================================
