------------------------ MODULE VerificationDecision ------------------------
(***************************************************************************)
(* The pure part of the verifier: how protocol evidence, the policy of a   *)
(* service point and the server's clock are reduced to one decision.       *)
(* Translated from services/verificationDecision.ts and                    *)
(* services/credentialValidity.ts.                                         *)
(*                                                                         *)
(* An error message is the set of the known phrases its lower-cased text   *)
(* includes; a date field of a credential is absent, malformed or an       *)
(* instant; of the revealed fields it matters only which carry a non-empty *)
(* value.                                                                  *)
(***************************************************************************)
EXTENDS Integers

(* The decisions a session can hold.  All but Pending are terminal. *)
Terminal == {"Approved", "Declined", "Expired", "Failed"}
Decision == Terminal \cup {"Pending"}
IsTerminal(decision) == decision # "Pending"

(* The failure codes the verifier assigns; an absent code is "none". *)
NoFailure == "none"
FailureCode ==
  {NoFailure, "CREDO_PROTOCOL_ERROR", "CREDENTIAL_NOT_CURRENT", "CREDENTIAL_EXPIRED",
   "CREDENTIAL_NOT_YET_VALID", "CREDENTIAL_VALIDITY_INVALID", "PROOF_NOT_VERIFIED",
   "PROOF_REQUEST_EXPIRED", "REQUIRED_ATTRIBUTE_MISSING", "REVOCATION_CHECK_FAILED",
   "UNTRUSTED_CREDENTIAL_DEFINITION"}

(* The states of a Credo proof exchange, and the optional isVerified of    *)
(* its record.  "unknown" stands for a session state that names no         *)
(* protocol state (awaiting-claim, claiming).                              *)
ProtocolState ==
  {"unknown", "request-sent", "presentation-received", "done", "abandoned", "declined"}
Verified == {"unset", "yes", "no"}

(* The phrases of Credo's messages that report the credential itself as no *)
(* longer current, and those that say only that the check did not work.    *)
NotCurrentPhrase ==
  {"credential is revoked", "credential was revoked", "credential is suspended",
   "does not satisfy the non-revocation", "does not satisfy the non_revocation"}
CheckFailedPhrase == {"revocation", "tails file", "tails location", "status list"}
Phrase == NotCurrentPhrase \cup CheckFailedPhrase

DateField == [form : {"absent", "malformed", "instant"}, at : Int]
Absent == [form |-> "absent", at |-> 0]
Malformed == [form |-> "malformed", at |-> 0]
Instant(n) == [form |-> "instant", at |-> n]

-----------------------------------------------------------------------------
(* A credential is valid from its inclusive start to its exclusive end;    *)
(* only a legacy definition may omit both dates.                           *)
ValidityIgnoringOrder(validFrom, expiresAt, now, legacy) ==
  IF legacy /\ validFrom.form = "absent" /\ expiresAt.form = "absent" THEN NoFailure
  ELSE IF validFrom.form # "instant" \/ expiresAt.form # "instant"
         THEN "CREDENTIAL_VALIDITY_INVALID"
  ELSE IF now < validFrom.at THEN "CREDENTIAL_NOT_YET_VALID"
  ELSE IF now >= expiresAt.at THEN "CREDENTIAL_EXPIRED"
  ELSE NoFailure

CredentialValidityFailure(validFrom, expiresAt, now, legacy) ==
  IF legacy /\ validFrom.form = "absent" /\ expiresAt.form = "absent" THEN NoFailure
  ELSE IF \/ validFrom.form # "instant" \/ expiresAt.form # "instant"
          \/ validFrom.at >= expiresAt.at
         THEN "CREDENTIAL_VALIDITY_INVALID"
  ELSE IF now < validFrom.at THEN "CREDENTIAL_NOT_YET_VALID"
  ELSE IF now >= expiresAt.at THEN "CREDENTIAL_EXPIRED"
  ELSE NoFailure

(* A message that reports the credential wins over one that only mentions  *)
(* revocation: every such report contains a word of the second list too.   *)
RevocationMentionFirst(phrases) ==
  IF phrases \cap CheckFailedPhrase # {} THEN "REVOCATION_CHECK_FAILED"
  ELSE IF phrases \cap NotCurrentPhrase # {} THEN "CREDENTIAL_NOT_CURRENT"
  ELSE NoFailure

RevocationFailureFromError(phrases) ==
  IF phrases \cap NotCurrentPhrase # {} THEN "CREDENTIAL_NOT_CURRENT"
  ELSE IF phrases \cap CheckFailedPhrase # {} THEN "REVOCATION_CHECK_FAILED"
  ELSE NoFailure

(* A code for the message, or the given one when the message says nothing. *)
NoDefault(phrases, default) == RevocationFailureFromError(phrases)
Refusal(phrases, default) ==
  IF RevocationFailureFromError(phrases) = NoFailure
    THEN default ELSE RevocationFailureFromError(phrases)

(* Every definition of the presentation is trusted, and there is one. *)
SomeTrusted(input) == input.definitions \cap input.trusted # {}
AllTrusted(input) == input.definitions # {} /\ input.definitions \subseteq input.trusted

(* The presentation revealed the student group with every required field.  *)
RequiredRevealed(input) == input.revealed /\ input.required \subseteq input.fields

Decided(decision, failureCode) ==
  [decision |-> decision, failureCode |-> failureCode, attributes |-> FALSE]

(* The verdict on complete, cryptographically verified evidence. *)
EvaluatePresentation(input) ==
  LET validity == CredentialValidityFailure(input.validFrom, input.expiresAt, input.now, input.legacy)
  IN IF ~AllTrusted(input) THEN Decided("Declined", "UNTRUSTED_CREDENTIAL_DEFINITION")
     ELSE IF ~RequiredRevealed(input) THEN Decided("Declined", "REQUIRED_ATTRIBUTE_MISSING")
     ELSE IF validity # NoFailure THEN Decided("Declined", validity)
     ELSE [decision |-> "Approved", failureCode |-> NoFailure, attributes |-> TRUE]

(* evaluateVerification: expiry of the request first, then what the        *)
(* protocol reports, then the evidence itself.                             *)
EvaluateVerification(input) ==
  IF input.expired THEN Decided("Expired", "PROOF_REQUEST_EXPIRED")
  ELSE IF input.state = "abandoned" THEN
    LET code == Refusal(input.phrases, "CREDO_PROTOCOL_ERROR")
    IN Decided(IF code = "CREDENTIAL_NOT_CURRENT" THEN "Declined" ELSE "Failed", code)
  ELSE IF input.state = "declined" \/ input.isVerified = "no" THEN
    Decided("Declined", Refusal(input.phrases, "PROOF_NOT_VERIFIED"))
  ELSE IF input.state # "done" \/ input.isVerified # "yes" THEN Decided("Pending", NoFailure)
  ELSE EvaluatePresentation(input)
=============================================================================
