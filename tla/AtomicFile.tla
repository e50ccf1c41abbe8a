----------------------------- MODULE AtomicFile -----------------------------
(* What a store promises the rest of the agent about its JSON file: an      *)
(* operation that was asked for happens at once and answers from the        *)
(* contents it found, or fails and changes nothing; a restart forgets the   *)
(* callers and keeps the contents.                                          *)
CONSTANTS Caller, Operation, Contents, Empty, Result(_, _)

VARIABLES contents, call

vars == <<contents, call>>

Idle == [at |-> "idle"]
Asked(op) == [at |-> "asked", op |-> op]
Done(op, answer) == [at |-> "done", op |-> op, answer |-> answer]

Init == contents = Empty /\ call = [c \in Caller |-> Idle]

Ask(c, op) ==
  /\ call[c] = Idle
  /\ call' = [call EXCEPT ![c] = Asked(op)]
  /\ UNCHANGED contents

Perform(c, op) ==
  /\ call[c] = Asked(op)
  /\ contents' = Result(op, contents).contents
  /\ call' = [call EXCEPT ![c] = Done(op, Result(op, contents).answer)]

(* An error of the disk, or the answer on its way back to the caller.       *)
End(c) ==
  /\ call[c] # Idle
  /\ call' = [call EXCEPT ![c] = Idle]
  /\ UNCHANGED contents

Restart == call' = [c \in Caller |-> Idle] /\ UNCHANGED contents

Next == Restart \/ \E c \in Caller : End(c) \/ \E op \in Operation : Ask(c, op) \/ Perform(c, op)

Spec == Init /\ [][Next]_vars
==============================================================================
