---------------------------- MODULE DecisionRules ----------------------------
(***************************************************************************)
(* What the decision rules of VerificationDecision promise.  One piece of  *)
(* evidence is evaluated again and again while time passes, as polls,      *)
(* events and cleanup runs do, and its request expires at some point.      *)
(***************************************************************************)
EXTENDS VerificationDecision

CONSTANTS
  Definition,   \* the credential definitions a presentation may name,
  Trusted,      \* and those the policy of the service point trusts
  Field,        \* the fields a presentation may reveal,
  Required,     \* and those the service point asks for
  Message,      \* Credo's error messages, each the set of known phrases it includes
  Date,         \* what a date field of a credential may be
  LastTime      \* bound: the clock stops here

ASSUME RulesAssumption ==
  /\ Trusted \subseteq Definition /\ Required \subseteq Field
  /\ Message \subseteq SUBSET Phrase /\ Date \subseteq DateField /\ LastTime \in Nat

VARIABLE input

(* What presentationFor can return: nothing, or the group it found. *)
Revealed == {[revealed |-> FALSE, fields |-> {}]} \cup [revealed : {TRUE}, fields : SUBSET Field]

Input(state, verified, phrases, definitions, group, from, to, legacy) ==
  [state |-> state, isVerified |-> verified, phrases |-> phrases, definitions |-> definitions,
   trusted |-> Trusted, required |-> Required, revealed |-> group.revealed,
   fields |-> group.fields, validFrom |-> from, expiresAt |-> to, now |-> 0, legacy |-> legacy,
   expired |-> FALSE]

Init ==
  \E state \in ProtocolState, verified \in Verified, phrases \in Message,
     definitions \in SUBSET Definition, group \in Revealed, from \in Date, to \in Date, legacy \in BOOLEAN :
       input = Input(state, verified, phrases, definitions, group, from, to, legacy)

TimePasses == input.now < LastTime /\ input' = [input EXCEPT !.now = @ + 1]
RequestExpires == ~input.expired /\ input' = [input EXCEPT !.expired = TRUE]
Next == TimePasses \/ RequestExpires

Spec == Init /\ [][Next]_input

result == EvaluateVerification(input)

-----------------------------------------------------------------------------

(* Decision rules of the README and r03-r05-contracts: approval exactly for *)
(* verified, trusted, complete evidence that is valid now.                  *)
Justified ==
  /\ ~input.expired /\ input.state = "done" /\ input.isVerified = "yes"
  /\ input.definitions # {} /\ \A d \in input.definitions : d \in Trusted
  /\ input.revealed /\ \A f \in Required : f \in input.fields
  /\ \/ input.legacy /\ {input.validFrom.form, input.expiresAt.form} = {"absent"}
     \/ /\ {input.validFrom.form, input.expiresAt.form} = {"instant"}
        /\ input.validFrom.at <= input.now /\ input.now < input.expiresAt.at
ApprovedExactlyWhenJustified == (result.decision = "Approved") <=> Justified

(* revocationFailureFromError: a credential reported as no longer current   *)
(* is declined as such even when the message mentions revocation, and a     *)
(* check that could not be made is never blamed on the credential.          *)
RevocationClassified ==
  LET notCurrent == input.phrases \cap NotCurrentPhrase # {} IN
  ~input.expired /\ (input.state \in {"abandoned", "declined"} \/ input.isVerified = "no") =>
    /\ notCurrent <=> result.failureCode = "CREDENTIAL_NOT_CURRENT"
    /\ notCurrent => result.decision = "Declined"
    /\ ~notCurrent /\ input.phrases # {} => result.failureCode = "REVOCATION_CHECK_FAILED"

(* README: "terminal outcomes are normalized ... with stable failure codes":*)
(* every outcome but an approval carries one, also when no phrase list      *)
(* names the message; a pending session has none, and only an approval      *)
(* releases fields.                                                         *)
OutcomeComplete ==
  /\ result.decision \in {"Approved", "Pending"} <=> result.failureCode = NoFailure
  /\ result.attributes <=> result.decision = "Approved"

(* "validFrom <= now < expiresAt" by server time: evaluated again later the *)
(* same evidence moves at most from not-yet-valid through approved to       *)
(* expired, and no other refusal is ever lifted by waiting.                 *)
VerdictsAgeForward ==
  [][LET later == EvaluateVerification(input') IN
     \/ input'.expired
     \/ later = result
     \/ result.failureCode = "CREDENTIAL_NOT_YET_VALID" /\ later.decision = "Approved"
     \/ result.decision = "Approved" /\ later.failureCode = "CREDENTIAL_EXPIRED"]_input
=============================================================================
