----------------------- MODULE ActivationLinksProofs -----------------------
(***************************************************************************)
(* The batches of credential offers and their activation links, for any    *)
(* callers, students, requests, sizes, failures and restarts.              *)
(*                                                                         *)
(* None of the three properties is inductive: what is answered depends on  *)
(* what a batch looked up and made, that on the file and on the indexes    *)
(* reserved, and the file on batches of links running one after the other. *)
(* Inv, below, says all of it.  Counting the workers and putting results   *)
(* in order is done by cardinality arguments about Rank.                   *)
(***************************************************************************)
EXTENDS ActivationLinks, FiniteSetTheorems, TLAPS

Place == {"asked", "looked up", "offering", "saved"}
Token == {TokenFor(s, e) : s \in Student, e \in Nat}
File == [student : Student, token : Token, exchange : Nat, expiresAt : Nat]
Results == UNION {[S -> Int] : S \in SUBSET Nat}
Job == [at : Place, kind : {"links", "offers"}, batch : Seq(Student), time : Nat, found : Seq(File \cup {Absent}),
        first : Nat, results : Results]

(* A batch in progress has all its fields, and no key twice.                *)
Requested(j) == j \in Job /\ Acceptable(j.batch)

Typed ==
  /\ clock \in Nat /\ activations \in Seq(File)
  /\ exchanges \in Seq([student : Student, index : Nat]) /\ nextIndex \in Nat
  /\ queue \in Seq(Caller)
  /\ job \in [Caller -> {Idle} \cup Job]
  /\ \A c \in Caller : job[c] # Idle => Requested(job[c])

(* Batches of links run one after the other.                                *)
Serial ==
  \A c \in Caller : job[c] # Idle /\ job[c].kind = "links" /\ job[c].at # "asked" => queue # <<>> /\ Head(queue) = c

(* Exchange e of those made is an offer to the student.                     *)
Of(student, e, made) == e \in DOMAIN made /\ made[e].student = student

(* What a batch has found and made are offers to its students, each new one *)
(* an exchange of its own.                                                  *)
Prepared(j, now, made) ==
  /\ j.time <= now /\ DOMAIN j.found = DOMAIN j.batch
  /\ \A i \in DOMAIN j.batch :
       j.found[i] # Absent => j.batch[i] \in Keyed /\ Of(j.batch[i], j.found[i].exchange, made)
Offered(j, made) ==
  /\ DOMAIN j.results = ToIssue(j)
  /\ \A i \in ToIssue(j) : j.results[i] \in {Pending, Failed} \/ Of(j.batch[i], j.results[i], made)
  /\ \A i, k \in ToIssue(j) : j.results[i] = j.results[k] => i = k \/ j.results[i] \in {Pending, Failed}
  /\ j.at = "saved" => \A i \in ToIssue(j) : j.results[i] # Pending

BatchesHold ==
  \A c \in Caller : job[c] # Idle /\ job[c].at # "asked" =>
    /\ Prepared(job[c], clock, exchanges)
    /\ job[c].at # "looked up" => Offered(job[c], exchanges)

(* The indexes a batch still holds are nobody else's.                       *)
Holds(j, made, next) ==
  /\ j.first >= 1 /\ j.first + Cardinality(ToIssue(j)) <= next
  /\ \A i \in ToIssue(j), n \in DOMAIN made :
       j.results[i] = Pending => made[n].index # j.first + Rank(i, ToIssue(j)) - 1
Apart(j, k) ==
  j.first + Cardinality(ToIssue(j)) <= k.first \/ k.first + Cardinality(ToIssue(k)) <= j.first

IndexesHold ==
  /\ nextIndex \in 1 .. Maximum
  /\ \A n \in DOMAIN exchanges : exchanges[n].index \in 1 .. nextIndex - 1
  /\ \A m, n \in DOMAIN exchanges : exchanges[m].index = exchanges[n].index => m = n
  /\ \A c \in Caller : job[c].at = "offering" => Holds(job[c], exchanges, nextIndex)
  /\ \A c, e \in Caller : job[c].at = "offering" /\ job[e].at = "offering" => c = e \/ Apart(job[c], job[e])

(* The file holds one record for each token, of an offer to its student.    *)
Filed(saved, now, made) ==
  /\ \A n \in DOMAIN saved :
       /\ saved[n].token = TokenFor(saved[n].student, saved[n].exchange)
       /\ Of(saved[n].student, saved[n].exchange, made) /\ saved[n].expiresAt <= now + Ttl
  /\ \A m, n \in DOMAIN saved : saved[m].token = saved[n].token => m = n

(* What a batch in its turn looked up is still what the file says.          *)
Current(j, saved) ==
  /\ \A n \in DOMAIN saved : saved[n].expiresAt <= j.time + Ttl
  /\ \A i \in DOMAIN j.batch, n \in DOMAIN saved :
       j.batch[i] \in Keyed /\ saved[n].student = j.batch[i] => j.found[i].exchange = saved[n].exchange

(* The file has a record of exchange e that expires at t or later.          *)
Kept(e, t, saved) == \E n \in DOMAIN saved : saved[n].exchange = e /\ t <= saved[n].expiresAt

FileHolds ==
  /\ Filed(activations, clock, exchanges)
  /\ \A c \in Caller :
       job[c] # Idle /\ job[c].kind = "links" =>
         /\ job[c].at \in {"looked up", "offering"} => Current(job[c], activations)
         /\ job[c].at = "saved" =>
              \A i \in Successes(job[c]) : Kept(Outcome(job[c], i), job[c].time + Ttl, activations)

AnswersHold ==
  \A a \in answered :
    /\ a.record.token = TokenFor(a.record.student, a.record.exchange)
    /\ a.record.expiresAt \in Nat
    /\ a.record.student \in Student /\ Of(a.record.student, a.record.exchange, exchanges)
    /\ a.kind = "links" => Kept(a.record.exchange, a.record.expiresAt, activations)

-----------------------------------------------------------------------------
(* Ranks number the members of a finite set from one, each once.            *)
LEMMA RankNumbers ==
  ASSUME NEW S \in SUBSET Nat, IsFiniteSet(S)
  PROVE  /\ Cardinality(S) \in Nat
         /\ \A i \in S : Rank(i, S) \in 1 .. Cardinality(S)
         /\ \A i, k \in S : Rank(i, S) = Rank(k, S) => i = k
         /\ \A n \in 1 .. Cardinality(S) : \E i \in S : Rank(i, S) = n
  <1> DEFINE Upto(i) == {m \in S : m <= i}
  <1>1. Cardinality(S) \in Nat
    BY FS_CardinalityType
  <1>2. ASSUME NEW i \in S
        PROVE  IsFiniteSet(Upto(i)) /\ Rank(i, S) = Cardinality(Upto(i)) /\ Rank(i, S) \in 1 .. Cardinality(S)
    <2>1. Upto(i) \in SUBSET S /\ Upto(i) # {}
      BY <1>2
    <2>2. IsFiniteSet(Upto(i)) /\ Cardinality(Upto(i)) <= Cardinality(S)
      BY <2>1, FS_Subset
    <2>3. Rank(i, S) = Cardinality(Upto(i))
      BY DEF Rank
    <2> HIDE DEF Upto
    <2>4. Cardinality(Upto(i)) \in Nat /\ Cardinality(Upto(i)) # 0
      BY <2>1, <2>2, FS_CardinalityType, FS_EmptySet
    <2> QED
      BY <1>1, <2>2, <2>3, <2>4
  <1>3. ASSUME NEW i \in S, NEW k \in S, i < k
        PROVE  Rank(i, S) # Rank(k, S)
    <2>0. i \in Nat /\ k \in Nat /\ \A m \in S : m \in Nat /\ (m <= i => m <= k)
      BY <1>3
    <2>1. Upto(i) \in SUBSET Upto(k) /\ k \in Upto(k) /\ k \notin Upto(i)
      <3>1. ~(k <= i) /\ k <= k
        BY <1>3, <2>0
      <3> QED
        BY <2>0, <3>1
    <2>2. IsFiniteSet(Upto(k)) /\ Rank(i, S) = Cardinality(Upto(i)) /\ Rank(k, S) = Cardinality(Upto(k))
      BY <1>2
    <2> HIDE DEF Upto
    <2>3. Cardinality(Upto(k)) = Cardinality(Upto(i)) => Upto(k) = Upto(i)
      BY <2>1, <2>2, FS_Subset
    <2> QED
      BY <2>1, <2>2, <2>3
  <1>4. \A i, k \in S : Rank(i, S) = Rank(k, S) => i = k
    BY <1>3
  <1> DEFINE f == [i \in S |-> Rank(i, S)]
  <1>5. f \in Injection(S, 1 .. Cardinality(S))
    <2>1. \A i \in S : f[i] = Rank(i, S)
      OBVIOUS
    <2>2. f \in [S -> 1 .. Cardinality(S)]
      BY <1>2
    <2> HIDE DEF f
    <2> QED
      BY <1>4, <2>1, <2>2 DEF Injection, IsInjective
  <1>6. IsFiniteSet(1 .. Cardinality(S)) /\ Cardinality(1 .. Cardinality(S)) = Cardinality(S)
    <2>1. /\ IsFiniteSet(1 .. Cardinality(S))
          /\ Cardinality(1 .. Cardinality(S)) = IF 1 > Cardinality(S) THEN 0 ELSE Cardinality(S) - 1 + 1
      BY <1>1, FS_Interval
    <2> QED
      BY <1>1, <2>1
  <1>7. f \in Surjection(S, 1 .. Cardinality(S))
    <2> HIDE DEF f
    <2> QED
      BY <1>5, <1>6, FS_Injection
  <1>8. \A n \in 1 .. Cardinality(S) : \E i \in S : Rank(i, S) = n
    BY <1>7 DEF Surjection
  <1> QED
    BY <1>1, <1>2, <1>4, <1>8

(* Putting a function in the order of its arguments loses and repeats       *)
(* nothing.                                                                 *)
Lists(s, f, S) ==
  /\ DOMAIN s = 1 .. Cardinality(S) /\ Len(s) = Cardinality(S)
  /\ \A k \in 1 .. Cardinality(S) : \E i \in S : Rank(i, S) = k /\ s[k] = f[i]
  /\ \A i \in S : Rank(i, S) \in 1 .. Cardinality(S) /\ s[Rank(i, S)] = f[i]

LEMMA InOrderLists ==
  ASSUME NEW S \in SUBSET Nat, IsFiniteSet(S), NEW R, NEW f, \A i \in S : f[i] \in R
  PROVE  InOrder(f, S) \in Seq(R) /\ Lists(InOrder(f, S), f, S)
  <1>1. /\ Cardinality(S) \in Nat
        /\ \A i \in S : Rank(i, S) \in 1 .. Cardinality(S)
        /\ \A i, k \in S : Rank(i, S) = Rank(k, S) => i = k
        /\ \A n \in 1 .. Cardinality(S) : \E i \in S : Rank(i, S) = n
    BY RankNumbers
  <1>2. ASSUME NEW k \in 1 .. Cardinality(S)
        PROVE  \E i \in S : Rank(i, S) = k /\ InOrder(f, S)[k] = f[i]
    <2>1. InOrder(f, S)[k] = f[CHOOSE i \in S : Rank(i, S) = k]
      BY DEF InOrder
    <2> QED
      BY <1>1, <1>2, <2>1, Zenon
  <1>3. ASSUME NEW i \in S
        PROVE  InOrder(f, S)[Rank(i, S)] = f[i]
    BY <1>1, <1>2
  <1>4. DOMAIN InOrder(f, S) = 1 .. Cardinality(S)
    BY DEF InOrder
  <1>5. \A k \in 1 .. Cardinality(S) : InOrder(f, S)[k] \in R
    BY <1>2
  <1>6. InOrder(f, S) = [k \in 1 .. Cardinality(S) |-> InOrder(f, S)[k]]
    BY DEF InOrder
  <1>7. InOrder(f, S) \in [1 .. Cardinality(S) -> R]
    <2> HIDE DEF InOrder
    <2> QED
      BY <1>5, <1>6, Zenon
  <1>8. InOrder(f, S) \in Seq(R) /\ Len(InOrder(f, S)) = Cardinality(S)
    BY <1>1, <1>7
  <1> QED
    BY <1>1, <1>2, <1>3, <1>4, <1>8, Zenon DEF Lists

(* The workers stop only when every offer has a result.                     *)
LEMMA AllDone ==
  ASSUME NEW j, DOMAIN j.results \in SUBSET Nat, IsFiniteSet(DOMAIN j.results), Running(j) = {}
  PROVE  \A i \in DOMAIN j.results : j.results[i] # Pending
  <1> DEFINE S == DOMAIN j.results
             P == {i \in S : j.results[i] = Pending}
             D == {i \in S : j.results[i] # Pending}
  <1>1. SUFFICES ASSUME P # {}
                 PROVE  FALSE
    OBVIOUS
  <1> S \in SUBSET Nat /\ IsFiniteSet(S)
    OBVIOUS
  <1>a. P \in SUBSET S /\ D \in SUBSET S /\ P \cup D = S /\ P \cap D = {}
    OBVIOUS
  <1>b. \A i \in P : ~(Rank(i, S) <= Concurrency + Cardinality(D))
    BY Zenon DEF Running
  <1> HIDE DEF S, P, D
  <1>3. /\ Cardinality(S) \in Nat
        /\ \A i \in S : Rank(i, S) \in 1 .. Cardinality(S)
        /\ \A i, k \in S : Rank(i, S) = Rank(k, S) => i = k
    BY RankNumbers
  <1>4. IsFiniteSet(P) /\ IsFiniteSet(D)
    BY <1>a, FS_Subset
  <1>5. Cardinality(P) \in Nat /\ Cardinality(D) \in Nat /\ Cardinality(P) # 0
    BY <1>1, <1>4, FS_CardinalityType, FS_EmptySet
  <1>6. Cardinality(S) = Cardinality(P) + Cardinality(D) - 0
    <2>1. Cardinality(P \cup D) = Cardinality(P) + Cardinality(D) - Cardinality(P \cap D)
      BY <1>4, FS_Union
    <2>2. Cardinality(P \cap D) = 0
      BY <1>a, FS_EmptySet, Zenon
    <2> QED
      BY <1>a, <2>1, <2>2, Zenon
  <1> DEFINE late == Concurrency + Cardinality(D) + 1 .. Cardinality(S)
             f == [i \in P |-> Rank(i, S)]
  <1>7. Concurrency \in Nat \ {0}
    BY NumbersAssumption
  <1>8. f \in [P -> late]
    BY <1>a, <1>b, <1>3, <1>5, <1>7
  <1>9. IsFiniteSet(late) /\ Cardinality(late) < Cardinality(P)
    <2> DEFINE a == Concurrency + Cardinality(D) + 1
               b == Cardinality(S)
    <2>1. a \in Int /\ b \in Int
      BY <1>3, <1>5, <1>7
    <2> HIDE DEF a, b
    <2>2. IsFiniteSet(a .. b) /\ Cardinality(a .. b) = IF a > b THEN 0 ELSE b - a + 1
      BY <2>1, FS_Interval
    <2> USE DEF a, b
    <2> QED
      BY <1>5, <1>6, <1>7, <2>2
  <1>10. \A i, k \in P : f[i] = f[k] => i = k
    BY <1>a, <1>3
  <1> HIDE DEF f, late
  <1>11. \E x, y \in P : x # y /\ f[x] = f[y]
    BY <1>4, <1>8, <1>9, FS_PigeonHole
  <1> QED
    BY <1>10, <1>11

-----------------------------------------------------------------------------
(* The activation file.                                                     *)
LEMMA OnlyOne ==
  ASSUME NEW x \in Int
  PROVE  Max({x}) = x /\ Min({x}) = x
  BY DEF Max, Min

(* A key has at most one record, and the look-up finds it.                  *)
LEMMA FoundByKey ==
  ASSUME activations \in Seq(File), Filed(activations, clock, exchanges), exchanges \in Seq([student : Student, index : Nat]),
         NEW student \in Student, NEW r, r = FindByKey(student)
  PROVE  /\ r \in File \cup {Absent}
         /\ r # Absent => student \in Keyed /\ Of(student, r.exchange, exchanges)
         /\ \A n \in DOMAIN activations :
              student \in Keyed /\ activations[n].student = student => r.exchange = activations[n].exchange
  <1> DEFINE found == {n \in DOMAIN activations : activations[n].student = student}
  <1>1. CASE student \in Keyed /\ found # {}
    <2>1. PICK n \in found : TRUE
      BY <1>1
    <2>2. ASSUME NEW m \in found
          PROVE  m = n
      <3>1. activations[m].token = activations[n].token
        BY <1>1, <2>1 DEF Filed, TokenFor
      <3> QED
        BY <2>1, <3>1 DEF Filed
    <2>3. found = {n}
      BY <2>1, <2>2
    <2>4. Max(found) = n
      BY <2>1, <2>3, OnlyOne
    <2>5. r = activations[n]
      BY <1>1, <2>4 DEF FindByKey
    <2>6. r \in File /\ Of(student, r.exchange, exchanges)
      BY <2>1, <2>5 DEF Filed
    <2> QED
      BY <1>1, <2>2, <2>5, <2>6
  <1>2. CASE ~(student \in Keyed /\ found # {})
    <2>1. r = Absent
      BY <1>2 DEF FindByKey
    <2> QED
      BY <1>2, <2>1
  <1> QED
    BY <1>1, <1>2

(* A link leads where its record says, until it expires.                    *)
LEMMA ResolvesTo ==
  ASSUME activations \in Seq(File), Filed(activations, clock, exchanges),
         NEW n \in DOMAIN activations, clock < activations[n].expiresAt
  PROVE  Resolve(activations[n].token) = activations[n].exchange
  <1> DEFINE found == {m \in DOMAIN activations : activations[m].token = activations[n].token}
  <1>1. found = {n}
    BY DEF Filed
  <1>2. Min(found) = n
    <2>1. n \in Int
      OBVIOUS
    <2> QED
      BY <1>1, <2>1, OnlyOne, Zenon
  <1> QED
    BY <1>1, <1>2 DEF Resolve

(* Saving replaces the records of the same exchanges and appends the        *)
(* others, each once.                                                       *)
Merged(r, saved, records, S) ==
  /\ r \in Seq(File) /\ DOMAIN saved \subseteq DOMAIN r
  /\ \A n \in DOMAIN saved :
       \/ r[n] = saved[n]
       \/ \E i \in S : r[n] = records[i] /\ records[i].exchange = saved[n].exchange
  /\ \A n \in DOMAIN r \ DOMAIN saved :
       \E i \in S : r[n] = records[i] /\ \A m \in DOMAIN saved : saved[m].exchange # records[i].exchange
  /\ \A i \in S : \E n \in DOMAIN r : r[n] = records[i]
  /\ \A m, n \in DOMAIN r \ DOMAIN saved : r[m].exchange = r[n].exchange => m = n

LEMMA SavedMany ==
  ASSUME NEW saved \in Seq(File), NEW S \in SUBSET Nat, IsFiniteSet(S),
         NEW records, DOMAIN records = S, \A i \in S : records[i] \in File,
         \A i, k \in S : records[i].exchange = records[k].exchange => i = k,
         NEW r, r = SaveMany(saved, records)
  PROVE  Merged(r, saved, records, S)
  <1> DEFINE Same(n) == {i \in S : records[i].exchange = saved[n].exchange}
             added == {i \in S : \A n \in DOMAIN saved : i \notin Same(n)}
             old == [n \in DOMAIN saved |-> IF Same(n) = {} THEN saved[n] ELSE records[Max(Same(n))]]
             new == InOrder(records, added)
  <1>1. r = old \o new
    BY Zenon DEF SaveMany
  <1>2. Len(saved) \in Nat /\ DOMAIN saved = 1 .. Len(saved)
    OBVIOUS
  <1>3. ASSUME NEW n \in DOMAIN saved, NEW i \in Same(n)
        PROVE  old[n] = records[i]
    <2>1. Same(n) = {i}
      BY <1>3
    <2>2. Max(Same(n)) = i
      BY <2>1, OnlyOne
    <2> QED
      BY <1>3, <2>2
  <1>4. ASSUME NEW n \in DOMAIN saved
        PROVE  /\ old[n] \in File
               /\ old[n] = saved[n] \/ \E i \in S : old[n] = records[i] /\ records[i].exchange = saved[n].exchange
    <2>1. CASE Same(n) = {}
      BY <2>1
    <2>2. CASE Same(n) # {}
      <3>1. PICK i \in Same(n) : TRUE
        BY <2>2
      <3>2. old[n] = records[i]
        BY <1>3, <3>1
      <3> QED
        BY <3>1, <3>2
    <2> QED
      BY <2>1, <2>2
  <1>5. old \in Seq(File) /\ Len(old) = Len(saved) /\ DOMAIN old = DOMAIN saved
    <2>1. DOMAIN old = DOMAIN saved /\ \A n \in DOMAIN saved : old[n] \in File
      BY <1>4
    <2>2. old = [n \in DOMAIN saved |-> old[n]]
      OBVIOUS
    <2> HIDE DEF old
    <2>3. old \in [1 .. Len(saved) -> File]
      BY <1>2, <2>1, <2>2
    <2> QED
      BY <1>2, <2>3
  <1>6. added \in SUBSET S /\ added \in SUBSET Nat /\ \A i \in added : records[i] \in File
    OBVIOUS
  <1>7. IsFiniteSet(added)
    BY <1>6, FS_Subset
  <1> HIDE DEF added
  <1>8. /\ new \in Seq(File) /\ DOMAIN new = 1 .. Cardinality(added) /\ Len(new) = Cardinality(added)
        /\ \A k \in 1 .. Cardinality(added) : \E i \in added : Rank(i, added) = k /\ new[k] = records[i]
        /\ \A i \in added : Rank(i, added) \in 1 .. Cardinality(added) /\ new[Rank(i, added)] = records[i]
    <2> HIDE DEF new
    <2>1. InOrder(records, added) \in Seq(File) /\ Lists(InOrder(records, added), records, added)
      BY <1>6, <1>7, InOrderLists, Zenon
    <2> QED
      BY <2>1, Zenon DEF new, Lists
  <1> HIDE DEF old, new
  <1>9. /\ r \in Seq(File) /\ DOMAIN r = 1 .. Len(saved) + Len(new)
        /\ \A n \in DOMAIN saved : r[n] = old[n]
        /\ \A n \in DOMAIN r \ DOMAIN saved : n - Len(saved) \in DOMAIN new /\ r[n] = new[n - Len(saved)]
        /\ \A k \in DOMAIN new : Len(saved) + k \in DOMAIN r /\ r[Len(saved) + k] = new[k]
    BY <1>1, <1>2, <1>5, <1>8
  <1>10. DOMAIN saved \subseteq DOMAIN r
    BY <1>2, <1>8, <1>9
  <1>11. ASSUME NEW n \in DOMAIN r \ DOMAIN saved
         PROVE  \E i \in added : Rank(i, added) = n - Len(saved) /\ r[n] = records[i]
    <2>1. n - Len(saved) \in 1 .. Cardinality(added) /\ r[n] = new[n - Len(saved)]
      BY <1>8, <1>9
    <2> QED
      BY <1>8, <2>1
  <1>12. \A i \in added : \A m \in DOMAIN saved : saved[m].exchange # records[i].exchange
    BY <1>6 DEF added
  <1>13. ASSUME NEW i \in S
         PROVE  \E n \in DOMAIN r : r[n] = records[i]
    <2>1. CASE i \in added
      BY <1>8, <1>9, <2>1
    <2>2. CASE i \notin added
      <3>1. PICK n \in DOMAIN saved : i \in Same(n)
        BY <2>2 DEF added
      <3>2. old[n] = records[i]
        BY <1>3, <3>1
      <3> QED
        BY <1>9, <1>10, <3>2
    <2> QED
      BY <2>1, <2>2
  <1>14. ASSUME NEW m \in DOMAIN r \ DOMAIN saved, NEW n \in DOMAIN r \ DOMAIN saved, r[m].exchange = r[n].exchange
         PROVE  m = n
    <2>1. PICK i \in added : Rank(i, added) = m - Len(saved) /\ r[m] = records[i]
      BY <1>11
    <2>2. PICK k \in added : Rank(k, added) = n - Len(saved) /\ r[n] = records[k]
      BY <1>11
    <2>3. i = k
      BY <1>6, <1>14, <2>1, <2>2
    <2>4. m \in Int /\ n \in Int
      BY <1>9
    <2> QED
      BY <1>2, <2>1, <2>2, <2>3, <2>4
  <1>15. \A n \in DOMAIN saved :
           r[n] = saved[n] \/ \E i \in S : r[n] = records[i] /\ records[i].exchange = saved[n].exchange
    BY <1>4, <1>9
  <1>16. \A n \in DOMAIN r \ DOMAIN saved :
           \E i \in S : r[n] = records[i] /\ \A m \in DOMAIN saved : saved[m].exchange # records[i].exchange
    BY <1>6, <1>11, <1>12
  <1> QED
    BY <1>9, <1>10, <1>13, <1>14, <1>15, <1>16, Zenon DEF Merged

-----------------------------------------------------------------------------
(* What each step of a batch does to it.                                    *)
LEMMA JobShape ==
  ASSUME NEW j \in {Idle} \cup Job
  PROVE  /\ j # Idle => j \in Job
         /\ j.at \in Place => j # Idle
         /\ j # Idle => j.at \in Place
  <1>1. Idle.at = "idle" /\ "idle" \notin Place
    BY DEF Idle, Place
  <1>2. j \in Job => j.at \in Place
    BY DEF Job
  <1> QED
    BY <1>1, <1>2

LEMMA ToIssueFinite ==
  ASSUME NEW j \in Job
  PROVE  ToIssue(j) \in SUBSET Nat /\ IsFiniteSet(ToIssue(j)) /\ Cardinality(ToIssue(j)) \in Nat
  <1>1. DOMAIN j.batch = 1 .. Len(j.batch) /\ Len(j.batch) \in Nat
    BY DEF Job
  <1>2. IsFiniteSet(DOMAIN j.batch)
    BY <1>1, FS_Interval
  <1>3. ToIssue(j) \in SUBSET DOMAIN j.batch
    BY DEF ToIssue
  <1>4. IsFiniteSet(ToIssue(j))
    BY <1>2, <1>3, FS_Subset
  <1> QED
    BY <1>1, <1>3, <1>4, FS_CardinalityType

(* A step of c, which leaves the requests of the others alone and does not  *)
(* change what was asked for.                                               *)
Alone(c) ==
  /\ job[c] \in Job /\ job'[c] \in Job
  /\ job' = [job EXCEPT ![c] = job'[c]] /\ DOMAIN job' = Caller
  /\ \A e \in Caller : e # c => job'[e] = job[e]
  /\ job'[c].kind = job[c].kind /\ job'[c].batch = job[c].batch

LEMMA LookupStep ==
  ASSUME Typed, NEW c \in Caller, Lookup(c), Filed(activations, clock, exchanges)
  PROVE  /\ Alone(c) /\ job[c].at = "asked" /\ MyTurn(c)
         /\ job'[c].at = "looked up" /\ job'[c].time = clock
         /\ job'[c].found = [i \in DOMAIN job[c].batch |->
                               IF job[c].kind = "links" THEN FindByKey(job[c].batch[i]) ELSE Absent]
  <1>1. job[c] \in Job /\ job \in [Caller -> {Idle} \cup Job] /\ clock \in Nat /\ job[c].batch \in Seq(Student)
    BY JobShape DEF Lookup, Typed, Place, Job
  <1> DEFINE f == [i \in DOMAIN job[c].batch |->
                     IF job[c].kind = "links" THEN FindByKey(job[c].batch[i]) ELSE Absent]
  <1>2. f \in Seq(File \cup {Absent})
    <2>1. \A i \in DOMAIN job[c].batch : f[i] \in File \cup {Absent}
      <3>1. SUFFICES ASSUME NEW i \in DOMAIN job[c].batch
                     PROVE  FindByKey(job[c].batch[i]) \in File \cup {Absent}
        OBVIOUS
      <3>2. job[c].batch[i] \in Student
        BY <1>1, <3>1
      <3> QED
        BY <3>2, FoundByKey DEF Typed
    <2>2. f = [i \in DOMAIN job[c].batch |-> f[i]] /\ DOMAIN job[c].batch = 1 .. Len(job[c].batch) /\ Len(job[c].batch) \in Nat
      BY <1>1
    <2> HIDE DEF f
    <2>3. f \in [1 .. Len(job[c].batch) -> File \cup {Absent}]
      BY <2>1, <2>2
    <2> QED
      BY <2>2, <2>3
  <1>3. job' = [job EXCEPT ![c] = [job[c] EXCEPT !.at = "looked up", !.time = clock, !.found = f]]
    BY <1>1, Zenon DEF Lookup
  <1> HIDE DEF f
  <1>4. job'[c] = [job[c] EXCEPT !.at = "looked up", !.time = clock, !.found = f]
    BY <1>1, <1>3
  <1>5. /\ job'[c].at = "looked up" /\ job'[c].time = clock /\ job'[c].found = f
        /\ job'[c].kind = job[c].kind /\ job'[c].batch = job[c].batch /\ job'[c] \in Job
    BY <1>1, <1>2, <1>4 DEF Job, Place
  <1>6. Alone(c)
    BY <1>1, <1>3, <1>4, <1>5 DEF Alone
  <1> QED
    BY <1>5, <1>6 DEF Lookup, f

LEMMA ReserveStep ==
  ASSUME Typed, NEW c \in Caller, Reserve(c)
  PROVE  /\ Alone(c) /\ job[c].at = "looked up" /\ job'[c].at = "offering"
         /\ job'[c].time = job[c].time /\ job'[c].found = job[c].found /\ job'[c].first = nextIndex
         /\ job'[c].results = [i \in ToIssue(job[c]) |-> Pending]
         /\ nextIndex' = nextIndex + Cardinality(ToIssue(job[c]))
         /\ Cardinality(ToIssue(job[c])) = 0 \/ ~(nextIndex + Cardinality(ToIssue(job[c])) > Maximum)
  <1>1. /\ job[c] \in Job /\ job \in [Caller -> {Idle} \cup Job] /\ nextIndex \in Nat
        /\ job[c].batch \in Seq(Student)
    BY JobShape DEF Reserve, Typed, Place, Job
  <1> DEFINE f == [i \in ToIssue(job[c]) |-> Pending]
  <1>2. f \in Results
    <2>1. ToIssue(job[c]) \in SUBSET Nat
      BY <1>1 DEF ToIssue
    <2>2. f \in [ToIssue(job[c]) -> Int]
      BY DEF Pending
    <2> HIDE DEF f
    <2> QED
      BY <2>1, <2>2, Zenon DEF Results
  <1>3. job' = [job EXCEPT ![c] = [job[c] EXCEPT !.at = "offering", !.first = nextIndex, !.results = f]]
    BY <1>1, Zenon DEF Reserve
  <1> HIDE DEF f
  <1>4. job'[c] = [job[c] EXCEPT !.at = "offering", !.first = nextIndex, !.results = f]
    BY <1>1, <1>3
  <1>5. /\ job'[c].at = "offering" /\ job'[c].first = nextIndex /\ job'[c].results = f
        /\ job'[c].kind = job[c].kind /\ job'[c].batch = job[c].batch /\ job'[c] \in Job
        /\ job'[c].time = job[c].time /\ job'[c].found = job[c].found
    BY <1>1, <1>2, <1>4 DEF Job, Place
  <1>6. Alone(c)
    BY <1>1, <1>3, <1>4, <1>5 DEF Alone
  <1>7. /\ job[c].at = "looked up" /\ nextIndex' = nextIndex + Cardinality(ToIssue(job[c]))
        /\ Cardinality(ToIssue(job[c])) = 0 \/ ~(nextIndex + Cardinality(ToIssue(job[c])) > Maximum)
    BY Zenon DEF Reserve, RegistryFull
  <1> QED
    BY <1>5, <1>6, <1>7 DEF f

(* An offer that is made is the next exchange; one that fails leaves a mark *)
(* in the place of its student.                                             *)
Finished(c, i, result) ==
  /\ Alone(c) /\ job[c].at = "offering" /\ job'[c].at = "offering"
  /\ job'[c].time = job[c].time /\ job'[c].found = job[c].found /\ job'[c].first = job[c].first
  /\ i \in DOMAIN job[c].results /\ job[c].results[i] = Pending
  /\ DOMAIN job'[c].results = DOMAIN job[c].results /\ job'[c].results[i] = result
  /\ \A k \in DOMAIN job[c].results : k # i => job'[c].results[k] = job[c].results[k]

LEMMA OfferStep ==
  ASSUME Typed, NEW c \in Caller, NEW i, OfferMade(c, i) \/ OfferFailed(c, i)
  PROVE  \/ Finished(c, i, Failed) /\ exchanges' = exchanges
         \/ /\ Finished(c, i, Len(exchanges) + 1)
            /\ exchanges' = Append(exchanges, [student |-> job[c].batch[i],
                                               index |-> job[c].first + Rank(i, ToIssue(job[c])) - 1])
  <1>1. job[c] \in Job /\ job \in [Caller -> {Idle} \cup Job] /\ Len(exchanges) \in Nat /\ job[c].at = "offering"
    <2>1. job[c].at = "offering"
      BY Zenon DEF OfferMade, OfferFailed
    <2>2. job \in [Caller -> {Idle} \cup Job] /\ Len(exchanges) \in Nat
      BY DEF Typed
    <2> QED
      BY <2>1, <2>2, JobShape DEF Place
  <1>2. i \in DOMAIN job[c].results /\ job[c].results[i] = Pending
    BY Zenon DEF OfferMade, OfferFailed, Running
  <1>3. job[c].results \in Results
    BY <1>1 DEF Job
  <1>4. ASSUME NEW result \in Int, job' = [job EXCEPT ![c].results[Slot(job[c], i)] = result]
        PROVE  Finished(c, i, result)
    <2> DEFINE f == [job[c].results EXCEPT ![i] = result]
    <2>1. job' = [job EXCEPT ![c] = [job[c] EXCEPT !.results = f]]
      BY <1>1, <1>4 DEF Slot
    <2>2. PICK S \in SUBSET Nat : job[c].results \in [S -> Int]
      BY <1>3 DEF Results
    <2>3. f \in [S -> Int]
      BY <1>2, <1>4, <2>2
    <2>4. f \in Results
      BY <2>3 DEF Results
    <2>5. DOMAIN f = DOMAIN job[c].results /\ f[i] = result /\ \A k \in DOMAIN job[c].results : k # i => f[k] = job[c].results[k]
      BY <1>2, <2>2
    <2> HIDE DEF f
    <2>6. job'[c] = [job[c] EXCEPT !.results = f]
      BY <1>1, <2>1
    <2>7. /\ job'[c].at = "offering" /\ job'[c].first = job[c].first /\ job'[c].results = f
          /\ job'[c].kind = job[c].kind /\ job'[c].batch = job[c].batch /\ job'[c] \in Job
          /\ job'[c].time = job[c].time /\ job'[c].found = job[c].found
      BY <1>1, <2>4, <2>6 DEF Job
    <2>8. Alone(c)
      BY <1>1, <2>1, <2>6, <2>7 DEF Alone
    <2> QED
      BY <1>1, <1>2, <2>5, <2>7, <2>8 DEF Finished
  <1>5. CASE OfferMade(c, i)
    <2>1. job' = [job EXCEPT ![c].results[Slot(job[c], i)] = Len(exchanges) + 1]
      BY <1>5, Zenon DEF OfferMade
    <2>2. PICK n \in Int : n = Len(exchanges) + 1
      BY <1>1
    <2>3. Finished(c, i, n)
      BY <1>4, <2>1, <2>2
    <2>4. Finished(c, i, Len(exchanges) + 1)
      BY <2>2, <2>3 DEF Finished
    <2> QED
      BY <1>5, <2>4, Zenon DEF OfferMade
  <1>6. CASE OfferFailed(c, i)
    <2>1. job' = [job EXCEPT ![c].results[Slot(job[c], i)] = Failed] /\ exchanges' = exchanges
      BY <1>6, Zenon DEF OfferFailed
    <2>2. Failed \in Int
      BY DEF Failed
    <2> QED
      BY <1>4, <2>1, <2>2
  <1> QED
    BY <1>5, <1>6

LEMMA SaveStep ==
  ASSUME Typed, NEW c \in Caller, Save(c)
  PROVE  /\ Alone(c) /\ job[c].at = "offering" /\ job'[c].at = "saved"
         /\ job'[c].time = job[c].time /\ job'[c].found = job[c].found
         /\ job'[c].first = job[c].first /\ job'[c].results = job[c].results
  <1>1. job[c] \in Job /\ job \in [Caller -> {Idle} \cup Job] /\ job[c].at = "offering"
    BY JobShape DEF Save, Typed, Place, Job
  <1>2. job' = [job EXCEPT ![c] = [job[c] EXCEPT !.at = "saved"]]
    BY <1>1 DEF Save
  <1>3. job'[c] = [job[c] EXCEPT !.at = "saved"]
    BY <1>1, <1>2
  <1>4. /\ job'[c].at = "saved" /\ job'[c].first = job[c].first /\ job'[c].results = job[c].results
        /\ job'[c].kind = job[c].kind /\ job'[c].batch = job[c].batch /\ job'[c] \in Job
        /\ job'[c].time = job[c].time /\ job'[c].found = job[c].found
    BY <1>1, <1>3 DEF Job, Place
  <1>5. Alone(c)
    BY <1>1, <1>2, <1>3, <1>4 DEF Alone
  <1> QED
    BY <1>1, <1>4, <1>5

-----------------------------------------------------------------------------
(* What a batch saves and answers.                                          *)
Made == Seq([student : Student, index : Nat])

(* The workers are done with a batch.                                       *)
Complete(j, now, made) ==
  /\ Requested(j) /\ Prepared(j, now, made) /\ Offered(j, made)
  /\ \A i \in ToIssue(j) : j.results[i] # Pending

LEMMA RecordSaved ==
  ASSUME NEW made \in Made, NEW now \in Nat, NEW j, Complete(j, now, made), NEW i \in Successes(j), NEW r, r = RecordsToSave(j)[i]
  PROVE  /\ i \in DOMAIN j.batch /\ r \in File /\ r.student = j.batch[i] /\ r.exchange = Outcome(j, i)
         /\ r.token = TokenFor(r.student, r.exchange) /\ r.expiresAt = j.time + Ttl
         /\ Of(r.student, r.exchange, made)
         /\ r.exchange = IF j.found[i] # Absent THEN j.found[i].exchange ELSE j.results[i]
  <1>1. i \in DOMAIN j.batch /\ Outcome(j, i) # Failed
    BY DEF Successes
  <1>2. j \in Job /\ j.batch \in Seq(Student) /\ j.time \in Nat /\ j.batch[i] \in Student
    BY <1>1 DEF Complete, Requested, Job
  <1>3. r = Record(j.batch[i], Outcome(j, i), j.time + Ttl)
    BY DEF RecordsToSave
  <1>4. Of(j.batch[i], Outcome(j, i), made)
    <2>1. CASE j.found[i] # Absent
      BY <1>1, <2>1 DEF Complete, Prepared, Outcome
    <2>2. CASE j.found[i] = Absent
      <3>1. i \in ToIssue(j) /\ Outcome(j, i) = j.results[i]
        BY <1>1, <2>2 DEF ToIssue, Outcome
      <3> QED
        BY <1>1, <3>1 DEF Complete, Offered
    <2> QED
      BY <2>1, <2>2
  <1>5. Outcome(j, i) \in Nat
    BY <1>4 DEF Of, Made
  <1>6. /\ r.student = j.batch[i] /\ r.exchange = Outcome(j, i) /\ r.expiresAt = j.time + Ttl
        /\ r.token = TokenFor(r.student, r.exchange)
    BY <1>3 DEF Record
  <1>7. r.token \in Token
    BY <1>2, <1>5, <1>6 DEF Token
  <1>8. r \in File
    BY <1>2, <1>3, <1>5, <1>6, <1>7, NumbersAssumption DEF File, Record
  <1> QED
    BY <1>1, <1>4, <1>6, <1>8 DEF Outcome

(* No two of them are of one exchange.                                      *)
LEMMA RecordsDiffer ==
  ASSUME NEW made \in Made, NEW now \in Nat, NEW j, Complete(j, now, made), NEW i \in Successes(j), NEW k \in Successes(j),
         RecordsToSave(j)[i].exchange = RecordsToSave(j)[k].exchange
  PROVE  i = k
  <1> DEFINE r == RecordsToSave(j)[i]
             s == RecordsToSave(j)[k]
  <1>1. /\ i \in DOMAIN j.batch /\ r.student = j.batch[i] /\ Of(r.student, r.exchange, made)
        /\ r.exchange = IF j.found[i] # Absent THEN j.found[i].exchange ELSE j.results[i]
    BY RecordSaved
  <1>2. /\ k \in DOMAIN j.batch /\ s.student = j.batch[k] /\ Of(s.student, s.exchange, made)
        /\ s.exchange = IF j.found[k] # Absent THEN j.found[k].exchange ELSE j.results[k]
    BY RecordSaved
  <1> HIDE DEF r, s
  <1>3. r.exchange = s.exchange
    BY DEF r, s
  <1>4. j.batch[i] = j.batch[k]
    BY <1>1, <1>2, <1>3 DEF Of
  <1>5. CASE j.batch[i] \in Keyed
    BY <1>1, <1>2, <1>4, <1>5 DEF Complete, Requested, Acceptable
  <1>6. CASE j.batch[i] \notin Keyed
    <2>1. i \in ToIssue(j) /\ k \in ToIssue(j)
      BY <1>1, <1>2, <1>4, <1>6 DEF Complete, Prepared, ToIssue
    <2>2. j.results[i] = j.results[k] /\ j.results[i] \in Nat \ {0}
      BY <1>1, <1>2, <1>3, <2>1 DEF ToIssue, Of, Made
    <2> QED
      BY <2>1, <2>2 DEF Complete, Offered, Pending, Failed
  <1> QED
    BY <1>5, <1>6

(* So saving them gives a file that has every record, and none was lost.    *)
LEMMA SavedRecords ==
  ASSUME NEW made \in Made, NEW now \in Nat, NEW j, Complete(j, now, made), NEW saved \in Seq(File),
         Filed(saved, now, made), Current(j, saved),
         NEW r, r = SaveMany(saved, RecordsToSave(j))
  PROVE  /\ r \in Seq(File) /\ Filed(r, now, made)
         /\ \A i \in Successes(j) : Kept(Outcome(j, i), j.time + Ttl, r)
         /\ \A e, t \in Nat : Kept(e, t, saved) => Kept(e, t, r)
  <1> DEFINE S == Successes(j)
             records == RecordsToSave(j)
  <1>1. S \in SUBSET Nat /\ IsFiniteSet(S)
    <2>1. j.batch \in Seq(Student)
      BY DEF Complete, Requested, Job
    <2>2. DOMAIN j.batch = 1 .. Len(j.batch) /\ Len(j.batch) \in Nat
      BY <2>1
    <2>3. S \in SUBSET DOMAIN j.batch
      BY DEF Successes
    <2>4. IsFiniteSet(DOMAIN j.batch)
      BY <2>2, FS_Interval
    <2> HIDE DEF S
    <2> QED
      BY <2>2, <2>3, <2>4, FS_Subset
  <1>2. DOMAIN records = S
    BY DEF RecordsToSave
  <1>3. \A i \in S :
          /\ i \in DOMAIN j.batch /\ records[i] \in File /\ records[i].student = j.batch[i]
          /\ records[i].token = TokenFor(records[i].student, records[i].exchange) /\ records[i].expiresAt = j.time + Ttl
          /\ Of(records[i].student, records[i].exchange, made)
          /\ records[i].exchange = IF j.found[i] # Absent THEN j.found[i].exchange ELSE j.results[i]
    BY RecordSaved
  <1>4. \A i, k \in S : records[i].exchange = records[k].exchange => i = k
    BY RecordsDiffer
  <1>5. r = SaveMany(saved, records)
    OBVIOUS
  <1> HIDE DEF S, records
  <1>6. /\ r \in Seq(File) /\ DOMAIN saved \subseteq DOMAIN r
        /\ \A n \in DOMAIN saved :
             \/ r[n] = saved[n]
             \/ \E i \in S : r[n] = records[i] /\ records[i].exchange = saved[n].exchange
        /\ \A n \in DOMAIN r \ DOMAIN saved :
             \E i \in S : r[n] = records[i] /\ \A m \in DOMAIN saved : saved[m].exchange # records[i].exchange
        /\ \A i \in S : \E n \in DOMAIN r : r[n] = records[i]
        /\ \A m, n \in DOMAIN r \ DOMAIN saved : r[m].exchange = r[n].exchange => m = n
    <2>1. \A i \in S : records[i] \in File
      BY <1>3, Zenon
    <2>2. Merged(r, saved, records, S)
      BY <1>1, <1>2, <1>4, <1>5, <2>1, SavedMany, Zenon
    <2> QED
      BY <2>2, Zenon DEF Merged
  <1>7. j.time \in Nat /\ j.time <= now /\ Ttl \in Nat
    BY NumbersAssumption DEF Complete, Requested, Prepared, Job
  <1> DEFINE Fits(n) ==
               /\ r[n] \in File /\ r[n].token = TokenFor(r[n].student, r[n].exchange)
               /\ Of(r[n].student, r[n].exchange, made) /\ r[n].expiresAt <= now + Ttl
               /\ n \in DOMAIN saved =>
                    /\ r[n].exchange = saved[n].exchange /\ r[n].student = saved[n].student
                    /\ r[n].token = saved[n].token /\ saved[n].expiresAt <= r[n].expiresAt
  <1>8. ASSUME NEW n \in DOMAIN r
        PROVE  Fits(n)
    <2>1. r[n] \in File
      BY <1>6
    <2>2. CASE n \in DOMAIN saved /\ r[n] = saved[n]
      BY <2>1, <2>2 DEF Filed, File
    <2>3. ASSUME NEW i \in S, r[n] = records[i], n \in DOMAIN saved => records[i].exchange = saved[n].exchange
          PROVE  Fits(n)
      <3>1. r[n].expiresAt = j.time + Ttl /\ r[n].expiresAt <= now + Ttl
        BY <1>3, <1>7, <2>3
      <3>2. ASSUME n \in DOMAIN saved
            PROVE  r[n].student = saved[n].student /\ r[n].token = saved[n].token /\ saved[n].expiresAt <= r[n].expiresAt
        <4>1. saved[n].token = TokenFor(saved[n].student, saved[n].exchange) /\ Of(saved[n].student, saved[n].exchange, made)
          BY <3>2 DEF Filed
        <4>2. r[n].student = saved[n].student
          BY <1>3, <2>3, <3>2, <4>1 DEF Of
        <4>3. saved[n].expiresAt <= j.time + Ttl
          BY <3>2 DEF Current
        <4> QED
          BY <1>3, <2>3, <3>1, <3>2, <4>1, <4>2, <4>3
      <3> QED
        BY <1>3, <2>1, <2>3, <3>1, <3>2
    <2>4. CASE n \in DOMAIN saved /\ r[n] # saved[n]
      BY <1>6, <2>3, <2>4
    <2>5. CASE n \notin DOMAIN saved
      BY <1>6, <2>3, <2>5
    <2> QED
      BY <2>2, <2>4, <2>5
  <1>9. ASSUME NEW n \in DOMAIN r \ DOMAIN saved, NEW m \in DOMAIN saved
        PROVE  r[n].token # r[m].token
    <2>1. PICK i \in S : r[n] = records[i] /\ saved[m].exchange # records[i].exchange
      BY <1>6
    <2>2. /\ r[m].token = TokenFor(saved[m].student, saved[m].exchange) /\ saved[m].student = r[m].student
          /\ Of(saved[m].student, saved[m].exchange, made)
      BY <1>6, <1>8
    <2>3. /\ i \in DOMAIN j.batch /\ r[n].student = j.batch[i] /\ r[n].token = TokenFor(r[n].student, r[n].exchange)
          /\ r[n].exchange = IF j.found[i] # Absent THEN j.found[i].exchange ELSE j.results[i]
          /\ r[n].exchange # saved[m].exchange
      BY <1>3, <2>1
    <2>4. ASSUME j.batch[i] \in Keyed, saved[m].student = j.batch[i]
          PROVE  FALSE
      <3>1. j.found[i].exchange = saved[m].exchange
        BY <2>3, <2>4 DEF Current
      <3>2. saved[m].exchange # 0
        BY <2>2 DEF Of, Made
      <3>3. j.found[i] # Absent
        BY <3>1, <3>2 DEF Absent
      <3> QED
        BY <2>3, <3>1, <3>3
    <2> QED
      BY <2>2, <2>3, <2>4 DEF TokenFor
  <1>10. ASSUME NEW m \in DOMAIN r, NEW n \in DOMAIN r, r[m].token = r[n].token
         PROVE  m = n
    <2>1. CASE m \in DOMAIN saved /\ n \in DOMAIN saved
      <3>1. saved[m].token = saved[n].token
        BY <1>8, <1>10, <2>1
      <3> QED
        BY <2>1, <3>1 DEF Filed
    <2>2. CASE m \notin DOMAIN saved /\ n \notin DOMAIN saved
      <3>1. PICK i \in S : r[m] = records[i]
        BY <1>6, <2>2
      <3>2. PICK k \in S : r[n] = records[k]
        BY <1>6, <2>2
      <3>3. /\ i \in DOMAIN j.batch /\ k \in DOMAIN j.batch
            /\ TokenFor(j.batch[i], records[i].exchange) = TokenFor(j.batch[k], records[k].exchange)
        BY <1>3, <1>10, <3>1, <3>2
      <3>4. (j.batch[i] \in Keyed /\ j.batch[i] = j.batch[k]) \/ records[i].exchange = records[k].exchange
        BY <3>3 DEF TokenFor
      <3>5. records[i].exchange = records[k].exchange
        BY <3>3, <3>4 DEF Complete, Requested, Acceptable
      <3> QED
        BY <1>6, <2>2, <3>1, <3>2, <3>5
    <2> QED
      BY <1>9, <1>10, <2>1, <2>2
  <1>11. Filed(r, now, made)
    BY <1>8, <1>10 DEF Filed
  <1>12. \A i \in S : Kept(Outcome(j, i), j.time + Ttl, r)
    <2>1. SUFFICES ASSUME NEW i \in S
                   PROVE  Kept(Outcome(j, i), j.time + Ttl, r)
      OBVIOUS
    <2>2. PICK n \in DOMAIN r : r[n] = records[i]
      BY <1>6
    <2>3. records[i].expiresAt \in Nat /\ records[i].expiresAt = j.time + Ttl
      BY <1>3, <1>7
    <2>4. records[i].exchange = Outcome(j, i)
      BY <1>3 DEF Outcome
    <2> QED
      BY <2>2, <2>3, <2>4 DEF Kept
  <1>13. ASSUME NEW e \in Nat, NEW t \in Nat, Kept(e, t, saved)
         PROVE  Kept(e, t, r)
    <2>1. PICK n \in DOMAIN saved : saved[n].exchange = e /\ t <= saved[n].expiresAt
      BY <1>13 DEF Kept
    <2>2. n \in DOMAIN r /\ r[n].exchange = e /\ saved[n].expiresAt <= r[n].expiresAt /\ r[n] \in File
      BY <1>6, <1>8, <2>1
    <2>3. saved[n] \in File
      BY <2>1
    <2>4. saved[n].expiresAt \in Nat /\ r[n].expiresAt \in Nat
      BY <2>2, <2>3 DEF File
    <2> QED
      BY <2>1, <2>2, <2>4 DEF Kept
  <1> QED
    BY <1>6, <1>11, <1>12, <1>13 DEF S, records

-----------------------------------------------------------------------------
Inv == Typed /\ Serial /\ BatchesHold /\ IndexesHold /\ FileHolds /\ AnswersHold

(* A request that came or went; the others and the queue behind it stay.    *)
LEMMA AskStep ==
  ASSUME Typed, NEW c \in Caller, NEW r \in Request, Ask(c, r)
  PROVE  /\ job[c] = Idle /\ job' \in [Caller -> {Idle} \cup Job]
         /\ job'[c].at = "asked" /\ Requested(job'[c]) /\ job'[c].kind = r.kind
         /\ \A e \in Caller : e # c => job'[e] = job[e]
         /\ queue' \in Seq(Caller) /\ (queue # <<>> => queue' # <<>> /\ Head(queue') = Head(queue))
         /\ UNCHANGED <<clock, activations, nextIndex, exchanges, answered>>
  <1>1. job \in [Caller -> {Idle} \cup Job] /\ queue \in Seq(Caller)
    BY DEF Typed
  <1>2. job' = [job EXCEPT ![c] = Asked(r)]
    BY DEF Ask
  <1>3. Requested(Asked(r)) /\ Asked(r).at = "asked" /\ Asked(r).kind = r.kind
    <2>1. r.kind \in {"links", "offers"} /\ r.batch \in Seq(Student) /\ Acceptable(r.batch)
      BY RequestAssumption
    <2>2. <<>> \in Results
      <3>1. <<>> \in [{} -> Int] /\ {} \in SUBSET Nat
        OBVIOUS
      <3> QED
        BY <3>1 DEF Results
    <2>3. Asked(r) \in Job
      BY <2>1, <2>2 DEF Asked, Job, Place
    <2> QED
      BY <2>1, <2>3 DEF Asked, Requested
  <1>4. job'[c] = Asked(r) /\ job' \in [Caller -> {Idle} \cup Job] /\ \A e \in Caller : e # c => job'[e] = job[e]
    BY <1>1, <1>2, <1>3 DEF Requested
  <1>5. queue' = queue \/ queue' = Append(queue, c)
    BY DEF Ask
  <1>6. queue' \in Seq(Caller) /\ (queue # <<>> => queue' # <<>> /\ Head(queue') = Head(queue))
    BY <1>1, <1>5
  <1> QED
    BY <1>3, <1>4, <1>6 DEF Ask

LEMMA LeaveStep ==
  ASSUME Typed, Serial, NEW c \in Caller, Leave(c), job[c] # Idle,
         job[c].kind = "links" => queue # <<>> /\ Head(queue) = c
  PROVE  /\ job' \in [Caller -> {Idle} \cup Job] /\ job'[c] = Idle
         /\ \A e \in Caller : e # c => job'[e] = job[e]
         /\ queue' \in Seq(Caller) /\ Serial'
  <1>1. job \in [Caller -> {Idle} \cup Job] /\ queue \in Seq(Caller)
    BY DEF Typed
  <1>2. /\ job' = [job EXCEPT ![c] = Idle]
        /\ queue' = IF job[c].kind = "links" THEN Tail(queue) ELSE queue
    BY DEF Leave
  <1>3. /\ job' \in [Caller -> {Idle} \cup Job] /\ job'[c] = Idle
        /\ \A e \in Caller : e # c => job'[e] = job[e]
    BY <1>1, <1>2
  <1>4. queue' \in Seq(Caller)
    BY <1>1, <1>2
  <1>5. Serial'
    <2>1. SUFFICES ASSUME NEW e \in Caller, job'[e] # Idle, job'[e].kind = "links", job'[e].at # "asked"
                   PROVE  queue' # <<>> /\ Head(queue') = e
      BY Zenon DEF Serial
    <2>2. job'[e] = job[e] /\ e # c
      BY <1>3, <2>1
    <2>3. queue # <<>> /\ Head(queue) = e
      BY <2>1, <2>2 DEF Serial
    <2> QED
      BY <1>2, <2>2, <2>3
  <1> QED
    BY <1>3, <1>4, <1>5

(* A batch ends in its turn.                                                *)
LEMMA EndStep ==
  ASSUME Typed, Serial, NEW c \in Caller, Answer(c) \/ Fail(c)
  PROVE  /\ job[c] # Idle /\ job' \in [Caller -> {Idle} \cup Job] /\ job'[c] = Idle
         /\ \A e \in Caller : e # c => job'[e] = job[e]
         /\ queue' \in Seq(Caller) /\ Serial'
         /\ UNCHANGED <<clock, activations, nextIndex, exchanges>>
  <1>1. Leave(c) /\ UNCHANGED <<clock, activations, nextIndex, exchanges>>
    BY Zenon DEF Answer, Fail, AfterFailure
  <1>2. \/ job[c].at = "saved" \/ job[c].at = "looked up" \/ job[c].at = "offering"
        \/ (job[c].at = "asked" /\ MyTurn(c))
    BY Zenon DEF Answer, Fail
  <1>3. job[c] # Idle
    <2>1. job[c] \in {Idle} \cup Job
      BY DEF Typed
    <2> QED
      BY <1>2, <2>1, JobShape DEF Place
  <1>4. job[c].kind = "links" => queue # <<>> /\ Head(queue) = c
    BY <1>2, <1>3 DEF Serial, MyTurn
  <1> QED
    BY <1>1, <1>3, <1>4, LeaveStep, Zenon

Acts(c) == Lookup(c) \/ Reserve(c) \/ (\E i : OfferMade(c, i) \/ OfferFailed(c, i)) \/ Save(c)

LEMMA ActStep ==
  ASSUME Inv, NEW c \in Caller, Acts(c)
  PROVE  /\ Alone(c) /\ UNCHANGED <<clock, queue>>
         /\ job[c].at \in {"looked up", "offering"} \/ (job[c].at = "asked" /\ MyTurn(c))
         /\ exchanges' = exchanges \/ \E x \in [student : Student, index : Nat] : exchanges' = Append(exchanges, x)
  <1>1. Typed /\ Filed(activations, clock, exchanges)
    BY DEF Inv, FileHolds
  <1>2. CASE Lookup(c)
    BY <1>1, <1>2, LookupStep DEF Lookup
  <1>3. CASE Reserve(c)
    BY <1>1, <1>3, ReserveStep DEF Reserve
  <1>4. ASSUME NEW i, OfferMade(c, i) \/ OfferFailed(c, i)
        PROVE  /\ Alone(c) /\ UNCHANGED <<clock, queue>> /\ job[c].at = "offering"
               /\ exchanges' = exchanges \/ \E x \in [student : Student, index : Nat] : exchanges' = Append(exchanges, x)
    <2>1. Alone(c) /\ job[c].at = "offering"
      BY <1>1, <1>4, OfferStep DEF Finished
    <2>2. UNCHANGED <<clock, queue>>
      BY <1>4 DEF OfferMade, OfferFailed
    <2>3. \/ exchanges' = exchanges
          \/ exchanges' = Append(exchanges, [student |-> job[c].batch[i],
                                             index |-> job[c].first + Rank(i, ToIssue(job[c])) - 1])
      BY <1>1, <1>4, OfferStep
    <2>4. i \in ToIssue(job[c]) /\ job[c] \in Job /\ job[c].batch \in Seq(Student)
      <3>1. i \in DOMAIN job[c].results
        BY <1>4, Zenon DEF OfferMade, OfferFailed, Running
      <3>2. job[c] \in Job
        BY <2>1 DEF Alone
      <3>3. job[c] # Idle /\ DOMAIN job[c].results = ToIssue(job[c])
        BY <2>1, <3>2, JobShape DEF Inv, BatchesHold, Offered, Place
      <3> QED
        BY <3>1, <3>2, <3>3 DEF Job
    <2>5. job[c].batch[i] \in Student
      BY <2>4 DEF ToIssue
    <2>6. job[c].first + Rank(i, ToIssue(job[c])) - 1 \in Nat
      <3>1. ToIssue(job[c]) \in SUBSET Nat /\ IsFiniteSet(ToIssue(job[c]))
        BY <2>4, ToIssueFinite
      <3>2. Rank(i, ToIssue(job[c])) \in Nat \ {0}
        BY <2>4, <3>1, RankNumbers
      <3>3. job[c].first \in Nat
        BY <2>4 DEF Job
      <3> QED
        BY <3>2, <3>3
    <2> QED
      BY <2>1, <2>2, <2>3, <2>5, <2>6
  <1>5. CASE Save(c)
    BY <1>1, <1>5, SaveStep DEF Save
  <1> QED
    BY <1>2, <1>3, <1>4, <1>5 DEF Acts

(* What a step may do to the clock, to the exchanges and to each batch.     *)
Grown(made, more) == \A n \in DOMAIN made : n \in DOMAIN more /\ more[n] = made[n]

LEMMA Moves ==
  ASSUME Inv, [Next]_vars
  PROVE  /\ clock' \in Nat /\ clock <= clock'
         /\ exchanges' \in Made /\ Grown(exchanges, exchanges')
         /\ job' \in [Caller -> {Idle} \cup Job] /\ queue' \in Seq(Caller)
         /\ \A e \in Caller :
              \/ job'[e] = Idle
              \/ job'[e].at = "asked" /\ Requested(job'[e])
              \/ job'[e] = job[e]
              \/ Acts(e)
         /\ Serial'
  <1> DEFINE Moved == /\ job' \in [Caller -> {Idle} \cup Job] /\ queue' \in Seq(Caller)
                      /\ \A e \in Caller :
                           \/ job'[e] = Idle
                           \/ job'[e].at = "asked" /\ Requested(job'[e])
                           \/ job'[e] = job[e]
                           \/ Acts(e)
                      /\ Serial'
             Still == clock' = clock /\ exchanges' = exchanges
  <1>1. Typed /\ Serial
    BY DEF Inv
  <1>2. /\ clock \in Nat /\ exchanges \in Made /\ queue \in Seq(Caller)
        /\ job \in [Caller -> {Idle} \cup Job]
    BY <1>1 DEF Typed, Made
  <1>b. Still => exchanges' \in Made /\ Grown(exchanges, exchanges') /\ clock' \in Nat /\ clock <= clock'
    BY <1>2 DEF Grown
  <1>a. ASSUME job' = job, queue' = queue
        PROVE  Moved
    <2>1. Serial'
      BY <1>1, <1>a DEF Serial
    <2> QED
      BY <1>2, <1>a, <2>1
  <1>3. CASE UNCHANGED vars
    BY <1>3, <1>a, <1>b DEF vars
  <1>4. CASE Crash
    <2>1. job' = [c \in Caller |-> Idle] /\ queue' = <<>> /\ Still
      BY <1>4 DEF Crash
    <2>2. \A c \in Caller : job'[c] = Idle
      BY <2>1
    <2>3. Serial'
      BY <2>2 DEF Serial
    <2>4. job' \in [Caller -> {Idle} \cup Job] /\ queue' \in Seq(Caller)
      BY <2>1
    <2> QED
      BY <1>b, <2>1, <2>2, <2>3, <2>4
  <1>5. CASE Tick
    <2>1. Moved
      BY <1>5, <1>a DEF Tick
    <2>2. exchanges' \in Made /\ Grown(exchanges, exchanges') /\ clock' \in Nat /\ clock <= clock'
      BY <1>2, <1>5 DEF Tick, Grown
    <2> HIDE DEF Moved
    <2> QED
      BY <2>1, <2>2 DEF Moved
  <1>6. ASSUME NEW c \in Caller, NEW r \in Request, Ask(c, r)
        PROVE  Moved /\ Still
    <2>1. /\ job[c] = Idle /\ job' \in [Caller -> {Idle} \cup Job]
          /\ job'[c].at = "asked" /\ Requested(job'[c])
          /\ \A e \in Caller : e # c => job'[e] = job[e]
          /\ queue' \in Seq(Caller) /\ (queue # <<>> => queue' # <<>> /\ Head(queue') = Head(queue))
          /\ Still
      BY <1>1, <1>6, AskStep
    <2> QED
      BY <1>1, <2>1 DEF Serial
  <1>7. ASSUME NEW c \in Caller, Answer(c) \/ Fail(c)
        PROVE  Moved /\ Still
    <2>1. /\ job' \in [Caller -> {Idle} \cup Job] /\ job'[c] = Idle
          /\ \A e \in Caller : e # c => job'[e] = job[e]
          /\ queue' \in Seq(Caller) /\ Serial' /\ Still
      BY <1>1, <1>7, EndStep
    <2> QED
      BY <2>1
  <1>8. ASSUME NEW c \in Caller, Acts(c)
        PROVE  Moved /\ clock' = clock /\ exchanges' \in Made /\ Grown(exchanges, exchanges')
    <2>1. /\ Alone(c) /\ clock' = clock /\ queue' = queue
          /\ job[c].at \in {"looked up", "offering"} \/ (job[c].at = "asked" /\ MyTurn(c))
          /\ exchanges' = exchanges \/ \E x \in [student : Student, index : Nat] : exchanges' = Append(exchanges, x)
      BY <1>8, ActStep
    <2>2. exchanges' \in Made /\ Grown(exchanges, exchanges')
      <3>1. CASE exchanges' = exchanges
        BY <1>2, <3>1 DEF Grown
      <3>2. ASSUME NEW x \in [student : Student, index : Nat], exchanges' = Append(exchanges, x)
            PROVE  exchanges' \in Made /\ Grown(exchanges, exchanges')
        BY <1>2, <3>2 DEF Made, Grown
      <3> QED
        BY <2>1, <3>1, <3>2
    <2>3. /\ job[c] # Idle /\ job' \in [Caller -> {Idle} \cup Job] /\ job'[c].kind = job[c].kind
          /\ \A e \in Caller : e # c => job'[e] = job[e]
      <3>1. job[c] # Idle
        BY <1>2, <2>1, JobShape DEF Place
      <3>2. job' = [job EXCEPT ![c] = job'[c]] /\ job'[c] \in Job
        BY <2>1 DEF Alone
      <3> QED
        BY <1>2, <2>1, <3>1, <3>2 DEF Alone
    <2>4. job[c].kind = "links" => queue # <<>> /\ Head(queue) = c
      BY <1>1, <2>1, <2>3 DEF Serial, MyTurn
    <2>5. Serial'
      BY <1>1, <2>1, <2>3, <2>4 DEF Serial
    <2> QED
      BY <1>2, <1>8, <2>1, <2>2, <2>3, <2>5
  <1>9. ASSUME NEW c \in Caller, Step(c)
        PROVE  Answer(c) \/ Fail(c) \/ Acts(c)
    BY <1>9, Zenon DEF Step, Offer, Acts
  <1> HIDE DEF Moved
  <1>11. CASE Next
    <2>1. CASE Crash \/ Tick
      BY <1>4, <1>5, <2>1
    <2>2. ASSUME NEW c \in Caller, NEW r \in Request, Ask(c, r)
          PROVE  Moved /\ exchanges' \in Made /\ Grown(exchanges, exchanges') /\ clock' \in Nat /\ clock <= clock'
      BY <1>b, <1>6, <2>2
    <2>3. ASSUME NEW c \in Caller, Step(c)
          PROVE  Moved /\ exchanges' \in Made /\ Grown(exchanges, exchanges') /\ clock' \in Nat /\ clock <= clock'
      BY <1>2, <1>b, <1>7, <1>8, <1>9, <2>3
    <2> USE DEF Moved
    <2> QED
      BY <1>11, <2>1, <2>2, <2>3, Zenon DEF Next
  <1> QED
    BY <1>3, <1>11

LEMMA StillPrepared ==
  ASSUME NEW now \in Nat, NEW later \in Nat, now <= later, NEW made, NEW more, Grown(made, more),
         NEW j \in Job
  PROVE  /\ Prepared(j, now, made) => Prepared(j, later, more)
         /\ Offered(j, made) => Offered(j, more)
  <1>1. \A student, e : Of(student, e, made) => Of(student, e, more)
    BY DEF Of, Grown
  <1>2. Prepared(j, now, made) => Prepared(j, later, more)
    BY <1>1 DEF Prepared, Job
  <1>3. Offered(j, made) => Offered(j, more)
    BY <1>1, Zenon DEF Offered
  <1> QED
    BY <1>2, <1>3

LEMMA BatchesNext ==
  ASSUME Inv, [Next]_vars
  PROVE  BatchesHold'
  <1>1. /\ clock \in Nat /\ clock' \in Nat /\ clock <= clock'
        /\ exchanges \in Made /\ exchanges' \in Made /\ Grown(exchanges, exchanges')
        /\ job \in [Caller -> {Idle} \cup Job] /\ job' \in [Caller -> {Idle} \cup Job]
        /\ Typed /\ Filed(activations, clock, exchanges)
    BY Moves DEF Inv, Typed, Made, FileHolds
  <1> DEFINE Fine(j) == /\ Prepared(j, clock', exchanges')
                        /\ j.at # "looked up" => Offered(j, exchanges')
  <1>2. SUFFICES ASSUME NEW e \in Caller, job'[e] # Idle, job'[e].at # "asked"
                 PROVE  Fine(job'[e])
    BY Zenon DEF BatchesHold
  <1>3. ASSUME job[e] # Idle, job[e].at # "asked"
        PROVE  /\ job[e] \in Job /\ Requested(job[e])
               /\ Prepared(job[e], clock, exchanges) /\ Prepared(job[e], clock', exchanges')
               /\ job[e].at # "looked up" => Offered(job[e], exchanges) /\ Offered(job[e], exchanges')
    <2>1. job[e] \in Job /\ Requested(job[e])
      BY <1>1, <1>3 DEF Typed
    <2>2. Prepared(job[e], clock, exchanges) /\ (job[e].at # "looked up" => Offered(job[e], exchanges))
      BY <1>3 DEF Inv, BatchesHold
    <2> QED
      BY <1>1, <2>1, <2>2, StillPrepared
  <1>4. CASE job'[e] = job[e]
    BY <1>2, <1>3, <1>4
  <1>5. CASE Lookup(e)
    <2> DEFINE j == job[e]
               k == job'[e]
    <2>1. /\ Alone(e) /\ j.at = "asked" /\ k.at = "looked up" /\ k.time = clock
          /\ k.found = [i \in DOMAIN j.batch |-> IF j.kind = "links" THEN FindByKey(j.batch[i]) ELSE Absent]
      BY <1>1, <1>5, LookupStep
    <2>2. k.batch = j.batch /\ j \in Job /\ clock' = clock /\ exchanges' = exchanges
      BY <1>5, <2>1 DEF Alone, Lookup
    <2>3. ASSUME NEW i \in DOMAIN k.batch, k.found[i] # Absent
          PROVE  k.batch[i] \in Keyed /\ Of(k.batch[i], k.found[i].exchange, exchanges)
      <3>1. k.batch[i] \in Student
        BY <2>2, <2>3 DEF Job
      <3>2. k.found[i] = FindByKey(k.batch[i])
        BY <2>1, <2>2, <2>3
      <3> QED
        BY <1>1, <2>3, <3>1, <3>2, FoundByKey DEF Typed
    <2>4. DOMAIN k.found = DOMAIN k.batch
      BY <2>1, <2>2
    <2>5. Prepared(k, clock, exchanges)
      <3>1. clock <= clock
        BY <1>1
      <3>2. k.time <= clock
        BY <2>1, <3>1, Zenon
      <3> QED
        BY <2>3, <2>4, <3>2, Zenon DEF Prepared
    <2> QED
      BY <2>1, <2>2, <2>5
  <1>6. CASE Reserve(e)
    <2> DEFINE j == job[e]
               k == job'[e]
    <2>1. /\ Alone(e) /\ j.at = "looked up" /\ k.at = "offering" /\ k.time = j.time /\ k.found = j.found
          /\ k.results = [i \in ToIssue(j) |-> Pending]
      BY <1>1, <1>6, ReserveStep
    <2>2. k.batch = j.batch /\ j \in Job /\ j # Idle
      BY <1>1, <2>1, JobShape DEF Alone, Place
    <2>3. Prepared(j, clock', exchanges')
      BY <1>3, <2>1, <2>2
    <2>4. Prepared(k, clock', exchanges')
      BY <2>1, <2>2, <2>3 DEF Prepared
    <2>5. ToIssue(k) = ToIssue(j)
      BY <2>1, <2>2 DEF ToIssue
    <2>6. Offered(k, exchanges')
      BY <2>1, <2>5 DEF Offered
    <2> QED
      BY <2>4, <2>6
  <1>7. ASSUME NEW n, OfferMade(e, n) \/ OfferFailed(e, n)
        PROVE  Fine(job'[e])
    <2> DEFINE j == job[e]
               k == job'[e]
    <2>1. PICK result : /\ Finished(e, n, result)
                        /\ \/ result = Failed
                           \/ /\ result = Len(exchanges) + 1
                              /\ exchanges' = Append(exchanges, [student |-> j.batch[n],
                                                                 index |-> j.first + Rank(n, ToIssue(j)) - 1])
      <3>1. CASE Finished(e, n, Failed)
        BY <3>1, Zenon
      <3>2. CASE ~Finished(e, n, Failed)
        <4>1. /\ Finished(e, n, Len(exchanges) + 1)
              /\ exchanges' = Append(exchanges, [student |-> j.batch[n], index |-> j.first + Rank(n, ToIssue(j)) - 1])
          BY <1>1, <1>7, <3>2, OfferStep
        <4> QED
          BY <4>1, Zenon
      <3> QED
        BY <3>1, <3>2
    <2>2. /\ Alone(e) /\ j.at = "offering" /\ k.at = "offering" /\ k.time = j.time /\ k.found = j.found
          /\ n \in DOMAIN j.results /\ j.results[n] = Pending
          /\ DOMAIN k.results = DOMAIN j.results /\ k.results[n] = result
          /\ \A m \in DOMAIN j.results : m # n => k.results[m] = j.results[m]
      BY <2>1 DEF Finished
    <2>3. k.batch = j.batch /\ j \in Job /\ j # Idle
      BY <1>1, <2>2, JobShape DEF Alone, Place
    <2>4. Prepared(j, clock', exchanges') /\ Offered(j, exchanges) /\ Offered(j, exchanges')
      BY <1>3, <2>2, <2>3
    <2>5. Prepared(k, clock', exchanges')
      BY <2>2, <2>3, <2>4 DEF Prepared
    <2>6. ToIssue(k) = ToIssue(j) /\ DOMAIN j.results = ToIssue(j)
      BY <2>2, <2>3, <2>4 DEF ToIssue, Offered
    <2>7. result \in {Pending, Failed} \/ Of(j.batch[n], result, exchanges')
      BY <1>1, <2>1 DEF Of, Made
    <2>8. \A m \in ToIssue(j) : j.results[m] = result => result \in {Pending, Failed}
      <3>1. SUFFICES ASSUME NEW m \in ToIssue(j), j.results[m] = result, result # Failed
                     PROVE  result = Pending
        OBVIOUS
      <3>2. ~Of(j.batch[m], result, exchanges)
        BY <1>1, <2>1, <3>1 DEF Of, Made
      <3> QED
        BY <2>4, <3>1, <3>2 DEF Offered
    <2> HIDE DEF j, k
    <2>9. Offered(k, exchanges')
      <3>1. \A i \in ToIssue(k) : k.results[i] \in {Pending, Failed} \/ Of(k.batch[i], k.results[i], exchanges')
        BY <2>2, <2>3, <2>4, <2>6, <2>7, Zenon DEF Offered
      <3>2. \A i, m \in ToIssue(k) : k.results[i] = k.results[m] => i = m \/ k.results[i] \in {Pending, Failed}
        BY <2>2, <2>4, <2>6, <2>8 DEF Offered
      <3> QED
        BY <2>2, <2>6, <3>1, <3>2 DEF Offered
    <2> QED
      BY <2>5, <2>9 DEF k
  <1>8. CASE Save(e)
    <2> DEFINE j == job[e]
               k == job'[e]
    <2>1. /\ Alone(e) /\ j.at = "offering" /\ k.at = "saved" /\ k.time = j.time /\ k.found = j.found
          /\ k.results = j.results
      BY <1>1, <1>8, SaveStep
    <2>2. k.batch = j.batch /\ j \in Job /\ j # Idle
      BY <1>1, <2>1, JobShape DEF Alone, Place
    <2>3. Prepared(j, clock', exchanges') /\ Offered(j, exchanges')
      BY <1>3, <2>1, <2>2
    <2>4. ToIssue(k) = ToIssue(j) /\ DOMAIN j.results = ToIssue(j)
      BY <2>1, <2>2, <2>3 DEF ToIssue, Offered
    <2>5. Prepared(k, clock', exchanges')
      BY <2>1, <2>2, <2>3 DEF Prepared
    <2>6. \A i \in DOMAIN j.results : j.results[i] # Pending
      <3>1. DOMAIN j.results \in SUBSET Nat /\ IsFiniteSet(DOMAIN j.results)
        BY <2>2, <2>4, ToIssueFinite
      <3>2. Running(j) = {}
        BY <1>8 DEF Save
      <3> QED
        BY <3>1, <3>2, AllDone
    <2>7. Offered(k, exchanges')
      BY <2>1, <2>2, <2>3, <2>4, <2>6 DEF Offered
    <2> QED
      BY <2>5, <2>7
  <1> QED
    BY <1>2, <1>4, <1>5, <1>6, <1>7, <1>8, Moves DEF Acts

(* The batches that still make offers hold no more indexes than before.     *)
LEMMA IndexesQuiet ==
  ASSUME IndexesHold, exchanges' = exchanges, nextIndex' = nextIndex,
         \A e \in Caller : job'[e].at = "offering" =>
           /\ job[e].at = "offering" /\ job'[e].first = job[e].first /\ ToIssue(job'[e]) = ToIssue(job[e])
           /\ \A i \in ToIssue(job[e]) : job'[e].results[i] = Pending => job[e].results[i] = Pending
  PROVE  IndexesHold'
  <1>1. ASSUME NEW e \in Caller, job'[e].at = "offering"
        PROVE  Holds(job'[e], exchanges', nextIndex')
    <2>1. Holds(job[e], exchanges, nextIndex)
      BY <1>1 DEF IndexesHold
    <2> QED
      BY <1>1, <2>1 DEF Holds
  <1>2. ASSUME NEW c \in Caller, NEW e \in Caller, job'[c].at = "offering", job'[e].at = "offering", c # e
        PROVE  Apart(job'[c], job'[e])
    <2>1. Apart(job[c], job[e])
      BY <1>2 DEF IndexesHold
    <2> QED
      BY <1>2, <2>1 DEF Apart
  <1> QED
    BY <1>1, <1>2 DEF IndexesHold

LEMMA IndexesReserve ==
  ASSUME Inv, NEW c \in Caller, Reserve(c)
  PROVE  IndexesHold'
  <1> DEFINE j == job[c]
             k == job'[c]
             n == Cardinality(ToIssue(job[c]))
  <1>1. Typed /\ IndexesHold /\ nextIndex \in 1 .. Maximum /\ nextIndex \in Nat /\ Maximum \in Nat
    BY NumbersAssumption DEF Inv, IndexesHold, Typed
  <1>2. /\ Alone(c) /\ j.at = "looked up" /\ k.at = "offering" /\ k.found = j.found /\ k.first = nextIndex
        /\ k.results = [i \in ToIssue(j) |-> Pending] /\ nextIndex' = nextIndex + n
        /\ n = 0 \/ ~(nextIndex + n > Maximum)
    BY <1>1, ReserveStep
  <1>3. exchanges' = exchanges
    BY DEF Reserve
  <1>4. j \in Job /\ k \in Job /\ k.batch = j.batch /\ \A e \in Caller : e # c => job'[e] = job[e]
    BY <1>2 DEF Alone
  <1>5. ToIssue(k) = ToIssue(j) /\ n \in Nat /\ ToIssue(j) \in SUBSET Nat /\ IsFiniteSet(ToIssue(j))
    BY <1>2, <1>4, ToIssueFinite DEF ToIssue
  <1> HIDE DEF j, k, n
  <1>6. nextIndex' = nextIndex + n /\ nextIndex' \in 1 .. Maximum /\ nextIndex' \in Nat /\ nextIndex <= nextIndex'
    <2>1. nextIndex' = nextIndex + n /\ (n = 0 \/ ~(nextIndex + n > Maximum)) /\ n \in Nat
      BY <1>2, <1>5, Zenon
    <2> QED
      BY <1>1, <2>1
  <1>7. Cardinality(ToIssue(k)) = n /\ Cardinality(ToIssue(j)) = n
    BY <1>5 DEF n, j
  <1>8. /\ \A m \in DOMAIN exchanges : exchanges[m].index \in 1 .. nextIndex - 1
        /\ \A l, m \in DOMAIN exchanges : exchanges[l].index = exchanges[m].index => l = m
        /\ \A e \in Caller : job[e].at = "offering" => Holds(job[e], exchanges, nextIndex)
        /\ \A d, e \in Caller : job[d].at = "offering" /\ job[e].at = "offering" => d = e \/ Apart(job[d], job[e])
    BY <1>1 DEF IndexesHold
  <1>9. \A m \in DOMAIN exchanges : exchanges[m].index \in 1 .. nextIndex' - 1
    BY <1>1, <1>6, <1>8
  <1>10. Holds(k, exchanges, nextIndex')
    <2>1. ASSUME NEW i \in ToIssue(k), NEW m \in DOMAIN exchanges
          PROVE  exchanges[m].index # k.first + Rank(i, ToIssue(k)) - 1
      <3>1. Rank(i, ToIssue(k)) \in Nat \ {0}
        BY <1>5, <2>1, RankNumbers
      <3>2. exchanges[m].index < nextIndex /\ exchanges[m].index \in Nat
        BY <1>1, <1>8
      <3>3. k.first = nextIndex
        BY <1>2
      <3> QED
        BY <1>1, <3>1, <3>2, <3>3
    <2>2. k.first >= 1 /\ k.first + Cardinality(ToIssue(k)) <= nextIndex'
      <3>1. k.first = nextIndex
        BY <1>2
      <3> QED
        BY <1>1, <1>5, <1>6, <1>7, <3>1
    <2> QED
      BY <2>1, <2>2 DEF Holds
  <1>11. ASSUME NEW e \in Caller, e # c, job'[e].at = "offering"
         PROVE  Holds(job'[e], exchanges, nextIndex') /\ Apart(job'[e], k) /\ Apart(k, job'[e])
    <2>1. job'[e] = job[e] /\ Holds(job[e], exchanges, nextIndex)
      BY <1>4, <1>8, <1>11
    <2>2. job[e] \in Job
      <3>1. job[e] \in {Idle} \cup Job
        BY <1>1 DEF Typed
      <3> QED
        BY <1>11, <2>1, <3>1, JobShape DEF Place
    <2>3. Cardinality(ToIssue(job[e])) \in Nat /\ job[e].first \in Nat
      BY <2>2, ToIssueFinite DEF Job
    <2>4. job[e].first >= 1 /\ job[e].first + Cardinality(ToIssue(job[e])) <= nextIndex
      BY <2>1 DEF Holds
    <2>5. Apart(job[e], k) /\ Apart(k, job[e])
      BY <1>2, <2>4 DEF Apart
    <2>7. job[e].first + Cardinality(ToIssue(job[e])) <= nextIndex'
      BY <1>1, <1>6, <2>3, <2>4
    <2>8. Holds(job[e], exchanges, nextIndex')
      BY <2>1, <2>4, <2>7 DEF Holds
    <2> QED
      BY <2>1, <2>5, <2>8
  <1>12. \A e \in Caller : job'[e].at = "offering" => Holds(job'[e], exchanges', nextIndex')
    BY <1>3, <1>10, <1>11 DEF k
  <1>13. \A d, e \in Caller : job'[d].at = "offering" /\ job'[e].at = "offering" => d = e \/ Apart(job'[d], job'[e])
    BY <1>4, <1>8, <1>11 DEF k
  <1> QED
    BY <1>3, <1>6, <1>8, <1>9, <1>12, <1>13 DEF IndexesHold

(* An offer uses the index its student's batch reserved for it.             *)
LEMMA IndexesOffer ==
  ASSUME Inv, NEW c \in Caller, NEW i, OfferMade(c, i) \/ OfferFailed(c, i)
  PROVE  IndexesHold'
  <1> DEFINE j == job[c]
             k == job'[c]
             x == [student |-> job[c].batch[i], index |-> job[c].first + Rank(i, ToIssue(job[c])) - 1]
  <1>1. Typed /\ IndexesHold /\ nextIndex \in 1 .. Maximum /\ nextIndex \in Nat /\ exchanges \in Made
    BY DEF Inv, IndexesHold, Typed, Made
  <1>2. nextIndex' = nextIndex
    BY DEF OfferMade, OfferFailed
  <1>3. \/ Finished(c, i, Failed) /\ exchanges' = exchanges
        \/ Finished(c, i, Len(exchanges) + 1) /\ exchanges' = Append(exchanges, x)
    BY <1>1, OfferStep
  <1>4. /\ Alone(c) /\ j.at = "offering" /\ k.at = "offering" /\ k.found = j.found /\ k.first = j.first
        /\ i \in DOMAIN j.results /\ j.results[i] = Pending
        /\ \A m \in DOMAIN j.results : m # i => k.results[m] = j.results[m]
        /\ k.results[i] = Failed \/ k.results[i] = Len(exchanges) + 1
    BY <1>3 DEF Finished
  <1>5. j \in Job /\ k \in Job /\ k.batch = j.batch /\ \A e \in Caller : e # c => job'[e] = job[e]
    BY <1>4 DEF Alone
  <1>6. DOMAIN j.results = ToIssue(j) /\ ToIssue(k) = ToIssue(j)
    <2>1. j # Idle
      BY <1>4, <1>5, JobShape DEF Place
    <2>2. Offered(j, exchanges)
      BY <1>4, <2>1 DEF Inv, BatchesHold
    <2> QED
      BY <1>4, <1>5, <2>2 DEF Offered, ToIssue
  <1>7. ToIssue(j) \in SUBSET Nat /\ IsFiniteSet(ToIssue(j)) /\ Cardinality(ToIssue(j)) \in Nat /\ j.first \in Nat
    BY <1>5, ToIssueFinite DEF Job
  <1> HIDE DEF j, k, x
  <1>8. k.results[i] # Pending
    BY <1>1, <1>4 DEF Pending, Failed, Made
  <1>9. CASE exchanges' = exchanges
    <2>1. \A e \in Caller : job'[e].at = "offering" =>
            /\ job[e].at = "offering" /\ job'[e].first = job[e].first /\ ToIssue(job'[e]) = ToIssue(job[e])
            /\ \A m \in ToIssue(job[e]) : job'[e].results[m] = Pending => job[e].results[m] = Pending
      BY <1>4, <1>5, <1>6 DEF j, k
    <2> QED
      BY <1>1, <1>2, <1>9, <2>1, IndexesQuiet
  <1>10. CASE exchanges' = Append(exchanges, x)
    <2>1. /\ \A m \in DOMAIN exchanges : exchanges[m].index \in 1 .. nextIndex - 1
          /\ \A l, m \in DOMAIN exchanges : exchanges[l].index = exchanges[m].index => l = m
          /\ \A e \in Caller : job[e].at = "offering" => Holds(job[e], exchanges, nextIndex)
          /\ \A d, e \in Caller : job[d].at = "offering" /\ job[e].at = "offering" => d = e \/ Apart(job[d], job[e])
      BY <1>1 DEF IndexesHold
    <2>2. Holds(j, exchanges, nextIndex)
      BY <1>4, <2>1 DEF j
    <2>3. /\ Rank(i, ToIssue(j)) \in 1 .. Cardinality(ToIssue(j))
          /\ \A m \in ToIssue(j) : Rank(m, ToIssue(j)) \in 1 .. Cardinality(ToIssue(j))
          /\ \A m \in ToIssue(j) : Rank(m, ToIssue(j)) = Rank(i, ToIssue(j)) => m = i
      BY <1>4, <1>6, <1>7, RankNumbers
    <2>4. x.index = j.first + Rank(i, ToIssue(j)) - 1
      BY DEF x, j
    <2>5. x.index \in 1 .. nextIndex - 1 /\ \A m \in DOMAIN exchanges : exchanges[m].index # x.index
      <3>1. j.first >= 1 /\ j.first + Cardinality(ToIssue(j)) <= nextIndex
        BY <2>2 DEF Holds
      <3>2. \A m \in DOMAIN exchanges : exchanges[m].index # x.index
        BY <1>4, <1>6, <2>2, <2>4 DEF Holds
      <3> QED
        BY <1>1, <1>7, <2>3, <2>4, <3>1, <3>2
    <2>6. /\ DOMAIN exchanges' = DOMAIN exchanges \cup {Len(exchanges) + 1}
          /\ \A m \in DOMAIN exchanges : exchanges'[m] = exchanges[m]
          /\ exchanges'[Len(exchanges) + 1] = x
      BY <1>1, <1>10 DEF Made
    <2>7. \A m \in DOMAIN exchanges' : exchanges'[m].index \in 1 .. nextIndex' - 1
      BY <1>2, <2>1, <2>5, <2>6
    <2>8. \A l, m \in DOMAIN exchanges' : exchanges'[l].index = exchanges'[m].index => l = m
      BY <2>1, <2>5, <2>6
    <2>9. Holds(k, exchanges', nextIndex')
      <3>1. ASSUME NEW m \in ToIssue(k), NEW l \in DOMAIN exchanges', k.results[m] = Pending
            PROVE  exchanges'[l].index # k.first + Rank(m, ToIssue(k)) - 1
        <4>1. m # i /\ m \in ToIssue(j) /\ j.results[m] = Pending
          BY <1>4, <1>6, <1>8, <3>1
        <4>2. j.first + Rank(m, ToIssue(j)) - 1 # x.index
          BY <1>7, <2>3, <2>4, <4>1
        <4>3. \A n \in DOMAIN exchanges : exchanges[n].index # j.first + Rank(m, ToIssue(j)) - 1
          BY <2>2, <4>1 DEF Holds
        <4> QED
          BY <1>4, <1>6, <2>6, <4>2, <4>3
      <3> QED
        BY <1>2, <1>4, <1>6, <2>2, <3>1 DEF Holds
    <2>10. ASSUME NEW e \in Caller, e # c, job'[e].at = "offering"
           PROVE  Holds(job'[e], exchanges', nextIndex') /\ Apart(job'[e], k) /\ Apart(k, job'[e])
      <3>1. job'[e] = job[e] /\ Holds(job[e], exchanges, nextIndex) /\ Apart(job[e], j) /\ Apart(j, job[e])
        BY <1>4, <1>5, <2>1, <2>10 DEF j
      <3>2. job[e] \in Job
        <4>1. job[e] \in {Idle} \cup Job
          BY <1>1 DEF Typed
        <4> QED
          BY <2>10, <3>1, <4>1, JobShape DEF Place
      <3> DEFINE S == ToIssue(job[e])
      <3>3. S \in SUBSET Nat /\ IsFiniteSet(S) /\ Cardinality(S) \in Nat /\ job[e].first \in Nat
        BY <3>2, ToIssueFinite DEF Job
      <3>4. \A m \in S : Rank(m, S) \in 1 .. Cardinality(S)
        BY <3>3, RankNumbers
      <3>5. \/ j.first + Cardinality(ToIssue(j)) <= job[e].first
            \/ job[e].first + Cardinality(S) <= j.first
        BY <3>1 DEF Apart
      <3> HIDE DEF S
      <3>6. \A m \in S : x.index # job[e].first + Rank(m, S) - 1
        BY <1>7, <2>3, <2>4, <3>3, <3>4, <3>5
      <3>7. \A m \in S, l \in DOMAIN exchanges' :
              job[e].results[m] = Pending => exchanges'[l].index # job[e].first + Rank(m, S) - 1
        BY <2>6, <3>1, <3>6 DEF Holds, S
      <3>8. Holds(job[e], exchanges', nextIndex')
        BY <1>2, <3>1, <3>7 DEF Holds, S
      <3> QED
        BY <1>4, <1>6, <3>1, <3>8 DEF Apart
    <2>11. \A e \in Caller : job'[e].at = "offering" => Holds(job'[e], exchanges', nextIndex')
      BY <2>9, <2>10 DEF k
    <2>12. \A d, e \in Caller : job'[d].at = "offering" /\ job'[e].at = "offering" => d = e \/ Apart(job'[d], job'[e])
      BY <1>5, <2>1, <2>10 DEF k
    <2> QED
      BY <1>1, <1>2, <2>7, <2>8, <2>11, <2>12 DEF IndexesHold
  <1> QED
    BY <1>3, <1>9, <1>10

LEMMA IndexesNext ==
  ASSUME Inv, [Next]_vars
  PROVE  IndexesHold'
  <1>1. CASE \E c \in Caller : Reserve(c) \/ \E i : OfferMade(c, i) \/ OfferFailed(c, i)
    BY <1>1, IndexesReserve, IndexesOffer
  <1>2. CASE ~(\E c \in Caller : Reserve(c) \/ \E i : OfferMade(c, i) \/ OfferFailed(c, i))
    <2>1. exchanges' = exchanges /\ nextIndex' = nextIndex
      <3>1. CASE Next
        BY <1>2, <3>1 DEF Next, Step, Offer, Crash, Tick, Ask, Lookup, Save, Answer, Fail
      <3>2. CASE UNCHANGED vars
        BY <3>2 DEF vars
      <3> QED
        BY <3>1, <3>2
    <2>2. ASSUME NEW e \in Caller, job'[e].at = "offering"
          PROVE  job'[e] = job[e]
      <3>1. job'[e] # Idle
        BY <2>2 DEF Idle
      <3>2. CASE Lookup(e)
        BY <2>2, <3>2, LookupStep DEF Inv, FileHolds
      <3>3. CASE Save(e)
        BY <2>2, <3>3, SaveStep DEF Inv
      <3> QED
        BY <1>2, <2>2, <3>1, <3>2, <3>3, Moves DEF Acts
    <2> QED
      BY <2>1, <2>2, IndexesQuiet DEF Inv
  <1> QED
    BY <1>1, <1>2

-----------------------------------------------------------------------------
LEMMA CompleteBatch ==
  ASSUME Inv, NEW c \in Caller, Save(c) \/ job[c].at = "saved"
  PROVE  Complete(job[c], clock, exchanges)
  <1>1. job[c] \in {Idle} \cup Job /\ (job[c] # Idle => Requested(job[c]))
    BY DEF Inv, Typed
  <1>2. job[c].at \in {"offering", "saved"}
    BY DEF Save
  <1>3. job[c] # Idle
    BY <1>1, <1>2, JobShape DEF Place
  <1>4. job[c] \in Job /\ Requested(job[c]) /\ Prepared(job[c], clock, exchanges) /\ Offered(job[c], exchanges)
    BY <1>1, <1>2, <1>3 DEF Inv, BatchesHold
  <1>5. CASE Save(c)
    <2>1. DOMAIN job[c].results \in SUBSET Nat /\ IsFiniteSet(DOMAIN job[c].results)
      BY <1>4, ToIssueFinite DEF Offered
    <2>2. Running(job[c]) = {}
      BY <1>5 DEF Save
    <2>3. \A i \in DOMAIN job[c].results : job[c].results[i] # Pending
      BY <2>1, <2>2, AllDone
    <2> QED
      BY <1>4, <2>3 DEF Complete, Offered
  <1>6. CASE job[c].at = "saved"
    BY <1>4, <1>6 DEF Complete, Offered
  <1> QED
    BY <1>5, <1>6

(* What saving a batch of links does to the file.                           *)
LEMMA SavedBatch ==
  ASSUME Inv, NEW c \in Caller, Save(c), job[c].kind = "links"
  PROVE  /\ activations' \in Seq(File) /\ Filed(activations', clock, exchanges)
         /\ \A i \in Successes(job[c]) : Kept(Outcome(job[c], i), job[c].time + Ttl, activations')
         /\ \A e, t \in Nat : Kept(e, t, activations) => Kept(e, t, activations')
  <1>1. Complete(job[c], clock, exchanges)
    BY CompleteBatch
  <1>2. /\ exchanges \in Made /\ clock \in Nat /\ activations \in Seq(File) /\ Filed(activations, clock, exchanges)
        /\ job[c] \in {Idle} \cup Job
    BY DEF Inv, Typed, Made, FileHolds
  <1>3. job[c].at = "offering" /\ activations' = SaveMany(activations, RecordsToSave(job[c]))
    BY DEF Save
  <1>4. job[c] # Idle
    BY <1>2, <1>3, JobShape DEF Place
  <1>5. Current(job[c], activations)
    BY <1>3, <1>4 DEF Inv, FileHolds
  <1> DEFINE r == SaveMany(activations, RecordsToSave(job[c]))
  <1>6. /\ r \in Seq(File) /\ Filed(r, clock, exchanges)
        /\ \A i \in Successes(job[c]) : Kept(Outcome(job[c], i), job[c].time + Ttl, r)
        /\ \A e, t \in Nat : Kept(e, t, activations) => Kept(e, t, r)
    BY <1>1, <1>2, <1>5, SavedRecords
  <1> HIDE DEF r
  <1>7. activations' = r
    BY <1>3 DEF r
  <1> QED
    BY <1>6, <1>7

(* Nothing but a batch of links touches the file.                           *)
LEMMA FileSteps ==
  ASSUME [Next]_vars
  PROVE  \/ activations' = activations
         \/ \E c \in Caller : Save(c) /\ job[c].kind = "links"
  <1>1. CASE Next
    BY <1>1 DEF Next, Step, Offer, Crash, Tick, Ask, Lookup, Reserve, OfferMade, OfferFailed, Save, Answer, Fail
  <1>2. CASE UNCHANGED vars
    BY <1>2 DEF vars
  <1> QED
    BY <1>1, <1>2

LEMMA TypedNext ==
  ASSUME Inv, [Next]_vars
  PROVE  Typed'
  <1>1. /\ clock' \in Nat /\ exchanges' \in Made /\ queue' \in Seq(Caller) /\ job' \in [Caller -> {Idle} \cup Job]
        /\ \A e \in Caller :
             \/ job'[e] = Idle \/ (job'[e].at = "asked" /\ Requested(job'[e])) \/ job'[e] = job[e] \/ Acts(e)
    BY Moves
  <1>2. nextIndex' \in Nat
    <2>1. nextIndex' \in 1 .. Maximum
      BY IndexesNext DEF IndexesHold
    <2> QED
      BY <2>1, NumbersAssumption
  <1>3. activations' \in Seq(File)
    <2>1. activations \in Seq(File)
      BY DEF Inv, Typed
    <2> QED
      BY <2>1, FileSteps, SavedBatch
  <1>4. ASSUME NEW e \in Caller, job'[e] # Idle
        PROVE  Requested(job'[e])
    <2>1. CASE job'[e] = job[e]
      BY <1>4, <2>1 DEF Inv, Typed
    <2>2. CASE Acts(e)
      <3>1. job'[e] \in Job /\ job[e] \in Job /\ job'[e].batch = job[e].batch
        BY <2>2, ActStep DEF Alone
      <3>2. job[e] # Idle
        BY <3>1 DEF Job, Idle
      <3> QED
        BY <3>1, <3>2 DEF Inv, Typed, Requested
    <2> QED
      BY <1>1, <1>4, <2>1, <2>2
  <1> QED
    BY <1>1, <1>2, <1>3, <1>4 DEF Typed, Made

LEMMA FileNext ==
  ASSUME Inv, [Next]_vars
  PROVE  FileHolds'
  <1>1. /\ clock \in Nat /\ clock' \in Nat /\ clock <= clock' /\ Grown(exchanges, exchanges')
        /\ Typed /\ Typed' /\ Serial /\ Filed(activations, clock, exchanges) /\ activations \in Seq(File)
    BY Moves, TypedNext DEF Inv, Typed, FileHolds
  <1> DEFINE Fine(e) ==
               job'[e] # Idle /\ job'[e].kind = "links" =>
                 /\ job'[e].at \in {"looked up", "offering"} => Current(job'[e], activations')
                 /\ job'[e].at = "saved" =>
                      \A i \in Successes(job'[e]) : Kept(Outcome(job'[e], i), job'[e].time + Ttl, activations')
  <1>2. CASE activations' = activations
    <2>1. Filed(activations', clock', exchanges')
      <3>1. \A student, e : Of(student, e, exchanges) => Of(student, e, exchanges')
        BY <1>1 DEF Of, Grown
      <3>2. \A n \in DOMAIN activations : activations[n].expiresAt <= clock + Ttl => activations[n].expiresAt <= clock' + Ttl
        <4>1. \A n \in DOMAIN activations : activations[n].expiresAt \in Nat
          <5>1. \A n \in DOMAIN activations : activations[n] \in File
            BY <1>1
          <5> QED
            BY <5>1 DEF File
        <4> QED
          BY <1>1, <4>1, NumbersAssumption
      <3> QED
        BY <1>1, <1>2, <3>1, <3>2, Zenon DEF Filed
    <2>2. ASSUME NEW e \in Caller
          PROVE  Fine(e)
      <3>1. job[e] \in {Idle} \cup Job
        BY <1>1 DEF Typed
      <3>2. job[e].at \in Place => job[e] # Idle
        BY <3>1, JobShape
      <3>3. CASE job'[e] = job[e]
        BY <1>2, <3>3 DEF Inv, FileHolds
      <3>4. CASE Lookup(e)
        <4> DEFINE j == job[e]
                   k == job'[e]
        <4>1. /\ Alone(e) /\ k.at = "looked up" /\ k.time = clock
              /\ k.found = [i \in DOMAIN j.batch |-> IF j.kind = "links" THEN FindByKey(j.batch[i]) ELSE Absent]
          BY <1>1, <3>4, LookupStep
        <4>2. k.batch = j.batch /\ k.kind = j.kind /\ j \in Job
          BY <4>1 DEF Alone
        <4>3. ASSUME k.kind = "links"
              PROVE  Current(k, activations)
          <5>1. \A n \in DOMAIN activations : activations[n].expiresAt <= k.time + Ttl
            BY <1>1, <4>1 DEF Filed
          <5>2. ASSUME NEW i \in DOMAIN k.batch, NEW n \in DOMAIN activations,
                       k.batch[i] \in Keyed, activations[n].student = k.batch[i]
                PROVE  k.found[i].exchange = activations[n].exchange
            <6>1. k.batch[i] \in Student
              BY <4>2, <5>2 DEF Job
            <6>2. k.found[i] = FindByKey(k.batch[i])
              BY <4>1, <4>2, <4>3, <5>2
            <6> QED
              BY <1>1, <5>2, <6>1, <6>2, FoundByKey DEF Typed
          <5> HIDE DEF k
          <5> QED
            BY <5>1, <5>2 DEF Current
        <4> QED
          BY <1>2, <4>1, <4>3
      <3>5. CASE Reserve(e)
        <4>1. /\ Alone(e) /\ job[e].at = "looked up" /\ job'[e].at = "offering"
              /\ job'[e].time = job[e].time /\ job'[e].found = job[e].found
          BY <1>1, <3>5, ReserveStep
        <4>2. job[e] # Idle /\ job'[e].kind = job[e].kind /\ job'[e].batch = job[e].batch
          BY <3>2, <4>1 DEF Alone, Place
        <4>3. job[e].kind = "links" => Current(job[e], activations)
          BY <4>1, <4>2 DEF Inv, FileHolds
        <4>4. Current(job[e], activations) => Current(job'[e], activations)
          BY <4>1, <4>2, Zenon DEF Current
        <4> QED
          BY <1>2, <4>1, <4>2, <4>3, <4>4
      <3>6. ASSUME NEW n, OfferMade(e, n) \/ OfferFailed(e, n)
            PROVE  Fine(e)
        <4>1. /\ Alone(e) /\ job[e].at = "offering" /\ job'[e].at = "offering"
              /\ job'[e].time = job[e].time /\ job'[e].found = job[e].found
          BY <1>1, <3>6, OfferStep DEF Finished
        <4>2. job[e] # Idle /\ job'[e].kind = job[e].kind /\ job'[e].batch = job[e].batch
          BY <3>2, <4>1 DEF Alone, Place
        <4>3. job[e].kind = "links" => Current(job[e], activations)
          BY <4>1, <4>2 DEF Inv, FileHolds
        <4>4. Current(job[e], activations) => Current(job'[e], activations)
          BY <4>1, <4>2, Zenon DEF Current
        <4> QED
          BY <1>2, <4>1, <4>2, <4>3, <4>4
      <3>7. CASE Save(e)
        <4>1. /\ Alone(e) /\ job[e].at = "offering" /\ job'[e].at = "saved"
              /\ job'[e].time = job[e].time /\ job'[e].found = job[e].found /\ job'[e].results = job[e].results
          BY <1>1, <3>7, SaveStep
        <4>2. job[e].kind = "links" =>
                \A i \in Successes(job[e]) : Kept(Outcome(job[e], i), job[e].time + Ttl, activations')
          BY <3>7, SavedBatch
        <4>3. Successes(job'[e]) = Successes(job[e]) /\ \A i : Outcome(job'[e], i) = Outcome(job[e], i)
          BY <4>1 DEF Alone, Successes, Outcome
        <4> QED
          BY <4>1, <4>2, <4>3 DEF Alone
      <3>8. CASE job'[e].at = "asked"
        BY <3>8
      <3> QED
        BY <3>3, <3>4, <3>5, <3>6, <3>7, <3>8, Moves DEF Acts
    <2> QED
      BY <2>1, <2>2 DEF FileHolds
  <1>3. ASSUME NEW c \in Caller, Save(c), job[c].kind = "links"
        PROVE  FileHolds'
    <2>1. /\ Alone(c) /\ job[c].at = "offering" /\ job'[c].at = "saved"
          /\ job'[c].time = job[c].time /\ job'[c].found = job[c].found /\ job'[c].results = job[c].results
      BY <1>1, <1>3, SaveStep
    <2>2. clock' = clock /\ exchanges' = exchanges
      BY <1>3 DEF Save
    <2>3. /\ Filed(activations', clock, exchanges)
          /\ \A i \in Successes(job[c]) : Kept(Outcome(job[c], i), job[c].time + Ttl, activations')
      BY <1>3, SavedBatch
    <2>4. Successes(job'[c]) = Successes(job[c]) /\ \A i : Outcome(job'[c], i) = Outcome(job[c], i)
      BY <2>1 DEF Alone, Successes, Outcome
    <2>5. ASSUME NEW e \in Caller, e # c, job[e] # Idle, job[e].kind = "links"
          PROVE  job[e].at = "asked"
      <3>1. job[c] # Idle
        BY <2>1, JobShape DEF Alone, Place
      <3> QED
        BY <1>1, <1>3, <2>1, <2>5, <3>1 DEF Serial
    <2>6. ASSUME NEW e \in Caller
          PROVE  Fine(e)
      <3>1. CASE e = c
        BY <2>1, <2>3, <2>4, <3>1
      <3>2. CASE e # c
        BY <2>1, <2>5, <3>2 DEF Alone
      <3> QED
        BY <3>1, <3>2
    <2> QED
      BY <2>2, <2>3, <2>6 DEF FileHolds
  <1> QED
    BY <1>2, <1>3, FileSteps

LEMMA AnswersNext ==
  ASSUME Inv, [Next]_vars
  PROVE  AnswersHold'
  <1>1. Grown(exchanges, exchanges')
    BY Moves
  <1>2. exchanges \in Made /\ clock \in Nat
    BY DEF Inv, Typed, Made
  <1>3. \A student, e : Of(student, e, exchanges) => Of(student, e, exchanges')
    BY <1>1 DEF Of, Grown
  <1>4. \A e, t \in Nat : Kept(e, t, activations) => Kept(e, t, activations')
    BY FileSteps, SavedBatch
  <1> DEFINE Told(a) ==
               /\ a.record.token = TokenFor(a.record.student, a.record.exchange)
               /\ a.record.expiresAt \in Nat
               /\ a.record.student \in Student /\ Of(a.record.student, a.record.exchange, exchanges)
               /\ a.kind = "links" => Kept(a.record.exchange, a.record.expiresAt, activations)
  <1>5. \A a \in answered' : Told(a)
    <2>1. \A a \in answered : Told(a)
      BY DEF Inv, AnswersHold
    <2>2. ASSUME NEW c \in Caller, Answer(c)
          PROVE  \A a \in answered' : Told(a)
      <3> DEFINE j == job[c]
                 records == RecordsToSave(j)
      <3>1. j.at = "saved" /\ answered' = answered \cup {[kind |-> j.kind, record |-> records[i]] : i \in DOMAIN records}
        BY <2>2 DEF Answer
      <3>2. Complete(j, clock, exchanges) /\ DOMAIN records = Successes(j)
        BY <3>1, CompleteBatch DEF RecordsToSave
      <3>3. ASSUME NEW i \in Successes(j)
            PROVE  Told([kind |-> j.kind, record |-> records[i]])
        <4>1. /\ records[i] \in File /\ records[i].exchange = Outcome(j, i)
              /\ records[i].token = TokenFor(records[i].student, records[i].exchange)
              /\ records[i].expiresAt = j.time + Ttl /\ Of(records[i].student, records[i].exchange, exchanges)
          BY <1>2, <3>2, <3>3, RecordSaved
        <4>2. records[i].student \in Student /\ records[i].expiresAt \in Nat
          BY <4>1 DEF File
        <4>3. j.kind = "links" => Kept(Outcome(j, i), j.time + Ttl, activations)
          <5>1. j # Idle
            BY <3>1 DEF Idle
          <5> QED
            BY <3>1, <3>3, <5>1 DEF Inv, FileHolds
        <4> HIDE DEF j, records
        <4> QED
          BY <4>1, <4>2, <4>3
      <3> HIDE DEF Told, records
      <3> QED
        BY <2>1, <3>1, <3>2, <3>3
    <2>3. ASSUME ~\E c \in Caller : Answer(c)
          PROVE  answered' = answered
      <3>1. CASE Next
        BY <2>3, <3>1 DEF Next, Step, Offer, Crash, Tick, Ask, Lookup, Reserve, OfferMade, OfferFailed, Save, Fail
      <3>2. CASE UNCHANGED vars
        BY <3>2 DEF vars
      <3> QED
        BY <3>1, <3>2
    <2> QED
      BY <2>1, <2>2, <2>3
  <1>6. SUFFICES ASSUME NEW a \in answered'
                 PROVE  /\ a.record.token = TokenFor(a.record.student, a.record.exchange)
                        /\ a.record.expiresAt \in Nat
                        /\ a.record.student \in Student /\ Of(a.record.student, a.record.exchange, exchanges')
                        /\ a.kind = "links" => Kept(a.record.exchange, a.record.expiresAt, activations')
    BY Zenon DEF AnswersHold
  <1>7. Told(a)
    BY <1>5, <1>6
  <1>8. a.record.exchange \in Nat
    BY <1>2, <1>7 DEF Of, Made
  <1> QED
    BY <1>3, <1>4, <1>7, <1>8

-----------------------------------------------------------------------------
LEMMA InvInit == Init => Inv
  <1> SUFFICES ASSUME Init
               PROVE  Inv
    OBVIOUS
  <1>1. /\ clock = 0 /\ activations = <<>> /\ nextIndex = 1 /\ exchanges = <<>> /\ queue = <<>>
        /\ job = [c \in Caller |-> Idle] /\ answered = {}
    BY DEF Init
  <1>2. \A c \in Caller : job[c] = Idle /\ job[c].at # "offering"
    BY <1>1 DEF Idle
  <1>3. Typed
    BY <1>1, <1>2 DEF Typed
  <1>4. Serial /\ BatchesHold /\ AnswersHold
    BY <1>1, <1>2 DEF Serial, BatchesHold, AnswersHold
  <1>5. IndexesHold
    BY <1>1, <1>2, NumbersAssumption DEF IndexesHold
  <1>6. FileHolds
    BY <1>1, <1>2 DEF FileHolds, Filed
  <1> QED
    BY <1>3, <1>4, <1>5, <1>6 DEF Inv

LEMMA InvNext == Inv /\ [Next]_vars => Inv'
  <1> SUFFICES ASSUME Inv, [Next]_vars
               PROVE  Inv'
    OBVIOUS
  <1>1. Typed' /\ Serial' /\ BatchesHold' /\ IndexesHold' /\ FileHolds' /\ AnswersHold'
    BY TypedNext, Moves, BatchesNext, IndexesNext, FileNext, AnswersNext
  <1> QED
    BY <1>1 DEF Inv

LEMMA InvHolds == Spec => []Inv
  BY InvInit, InvNext, PTL DEF Spec

(* What the portal was told of a link is in the file, in one record.        *)
LEMMA LinkRecorded ==
  ASSUME Inv, NEW a \in answered, a.kind = "links"
  PROVE  \E n \in DOMAIN activations :
           /\ activations[n].exchange = a.record.exchange /\ a.record.expiresAt <= activations[n].expiresAt
           /\ activations[n].student = a.record.student /\ activations[n].token = a.record.token
           /\ activations[n].expiresAt \in Nat /\ a.record.expiresAt \in Nat
  <1>1. /\ a.record.token = TokenFor(a.record.student, a.record.exchange) /\ a.record.expiresAt \in Nat
        /\ Of(a.record.student, a.record.exchange, exchanges)
        /\ Kept(a.record.exchange, a.record.expiresAt, activations)
    BY DEF Inv, AnswersHold
  <1>2. PICK n \in DOMAIN activations :
          activations[n].exchange = a.record.exchange /\ a.record.expiresAt <= activations[n].expiresAt
    BY <1>1 DEF Kept
  <1>3. /\ activations[n].token = TokenFor(activations[n].student, activations[n].exchange)
        /\ Of(activations[n].student, activations[n].exchange, exchanges)
    BY DEF Inv, FileHolds, Filed
  <1>4. activations[n].student = a.record.student
    BY <1>1, <1>2, <1>3 DEF Of
  <1>5. activations[n] \in File
    BY DEF Inv, Typed
  <1> QED
    BY <1>1, <1>2, <1>3, <1>4, <1>5 DEF File

(* However often and however late an instruction is repeated, the links     *)
(* told for its key lead to one exchange (operationQueue,                   *)
(* findByIdempotencyKeyHashes).                                             *)
THEOREM OneExchangePerKey == Spec => []OneOfferPerKey
  <1>1. Inv => OneOfferPerKey
    <2>1. SUFFICES ASSUME Inv, NEW a \in answered, NEW b \in answered, a.kind = "links", b.kind = "links",
                          a.record.student = b.record.student, a.record.student \in Keyed
                   PROVE  a.record.exchange = b.record.exchange
      BY DEF OneOfferPerKey
    <2>2. PICK m \in DOMAIN activations :
            activations[m].exchange = a.record.exchange /\ activations[m].token = a.record.token
      BY <2>1, LinkRecorded
    <2>3. PICK n \in DOMAIN activations :
            activations[n].exchange = b.record.exchange /\ activations[n].token = b.record.token
      BY <2>1, LinkRecorded
    <2>4. a.record.token = b.record.token
      BY <2>1 DEF Inv, AnswersHold, TokenFor
    <2>5. m = n
      BY <2>1, <2>2, <2>3, <2>4 DEF Inv, FileHolds, Filed
    <2> QED
      BY <2>2, <2>3, <2>5
  <1> QED
    BY <1>1, InvHolds, PTL

(* A link that was told works until the expiry that was told with it and    *)
(* leads to the exchange that was told (saveMany, resolve).                 *)
THEOREM LinksStayGood == Spec => []LinksResolve
  <1>1. Inv => LinksResolve
    <2>1. SUFFICES ASSUME Inv, NEW a \in answered, a.kind = "links", clock < a.record.expiresAt
                   PROVE  Resolve(a.record.token) = a.record.exchange
      BY DEF LinksResolve
    <2>2. /\ activations \in Seq(File) /\ Filed(activations, clock, exchanges) /\ clock \in Nat
      BY <2>1 DEF Inv, Typed, FileHolds
    <2>3. PICK n \in DOMAIN activations :
            /\ activations[n].exchange = a.record.exchange /\ a.record.expiresAt <= activations[n].expiresAt
            /\ activations[n].token = a.record.token
            /\ activations[n].expiresAt \in Nat /\ a.record.expiresAt \in Nat
      BY <2>1, LinkRecorded
    <2>4. clock < activations[n].expiresAt
      BY <2>1, <2>2, <2>3
    <2>5. Resolve(activations[n].token) = activations[n].exchange
      BY <2>2, <2>4, ResolvesTo
    <2> QED
      BY <2>3, <2>5
  <1> QED
    BY <1>1, InvHolds, PTL

(* Every student is told of an offer made to that student, and every offer  *)
(* has an index of the registry of its own (mapWithConcurrency,             *)
(* createBatchOfferResults, prepareRevocationIndexes).                      *)
THEOREM OffersReachTheirStudents == Spec => []OffersMatch
  <1>1. Inv => OffersMatch
    <2>1. SUFFICES ASSUME Inv
                   PROVE  OffersMatch
      OBVIOUS
    <2>2. \A a \in answered : exchanges[a.record.exchange].student = a.record.student
      BY <2>1 DEF Inv, AnswersHold, Of
    <2>3. /\ nextIndex \in 1 .. Maximum /\ Maximum \in Nat
          /\ \A n \in DOMAIN exchanges : exchanges[n].index \in 1 .. nextIndex - 1
          /\ \A m, n \in DOMAIN exchanges : exchanges[m].index = exchanges[n].index => m = n
      BY <2>1, NumbersAssumption DEF Inv, IndexesHold
    <2>4. \A n \in DOMAIN exchanges : exchanges[n].index \in 1 .. Maximum - 1
      BY <2>3
    <2> QED
      BY <2>2, <2>3, <2>4 DEF OffersMatch
  <1> QED
    BY <1>1, InvHolds, PTL

=============================================================================
