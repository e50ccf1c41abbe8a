--------------------------- MODULE RevocationIndex ---------------------------
(* The allocation of status-list indexes to credentials: the operation of   *)
(* revocationIndexStore.ts, run under the queue every store uses.  The file *)
(* keeps one next index per registry; a registry it does not name starts at *)
(* index 1.                                                                 *)
EXTENDS OperationQueue

CONSTANTS
  Registry,  \* revocation registries
  Maximum    \* the maximumCredentialNumber of each registry, an exclusive bound

ASSUME RegistryAssumption == Maximum \in [Registry -> Nat \ {0}]

Counters == [Registry -> Nat \ {0}]
NoneReserved == [r \in Registry |-> 1]

(* Mutant: the bound taken as inclusive.                                    *)
FitsInclusive(r, next, count) == next + count <= Maximum[r] + 1

(* "Credo treats maxCredNum as an exclusive upper bound".                   *)
Fits(r, next, count) == next + count <= Maximum[r]

(* reserveRange(registry, count): the reserved indexes, {} for a refusal.   *)
ReserveRange(op, counters) ==
  LET next == counters[op.registry]
  IN IF Fits(op.registry, next, op.count)
       THEN [writes |-> TRUE, contents |-> [counters EXCEPT ![op.registry] = next + op.count],
             answer |-> next .. next + op.count - 1]
       ELSE [writes |-> FALSE, contents |-> counters, answer |-> {}]

ASSUME StoreAssumption ==
  /\ Operation \subseteq [registry : Registry, count : Nat \ {0}]
  /\ Contents \subseteq Counters /\ Empty = NoneReserved
  /\ \A op \in Operation, c \in Contents : Result(op, c) = ReserveRange(op, c)

(* No two credentials ever get the same index of a registry, none the       *)
(* reserved index 0 or one beyond the registry, and a request gets as many  *)
(* as it asked for or none: concurrent batches, failed ones and restarts    *)
(* included (reserveRange, withLock, writeState).                           *)
IndexesUnique ==
  \A i \in DOMAIN returned :
    LET r == returned[i].op.registry
    IN /\ returned[i].answer = {} \/ \E n \in 1 .. Maximum[r] - returned[i].op.count :
                                       returned[i].answer = n .. n + returned[i].op.count - 1
       /\ \A j \in 1 .. i - 1 :
            returned[j].op.registry = r => returned[i].answer \cap returned[j].answer = {}
==============================================================================
