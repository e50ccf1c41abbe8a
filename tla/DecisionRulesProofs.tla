------------------------- MODULE DecisionRulesProofs -------------------------
(***************************************************************************)
(* The decision rules, for any definitions and policies, fields, messages, *)
(* dates and times.                                                        *)
(***************************************************************************)
EXTENDS DecisionRules, TLAPS

(* The evidence is of the kinds its parts may have.                         *)
Evidence ==
  [state : ProtocolState, isVerified : Verified, phrases : SUBSET Phrase, definitions : SUBSET Definition,
   trusted : {Trusted}, required : {Required}, revealed : BOOLEAN, fields : SUBSET Field,
   validFrom : DateField, expiresAt : DateField, now : Int, legacy : BOOLEAN, expired : BOOLEAN]

TypeOK == input \in Evidence

(* Time and the expiry of the request are all that changes.                 *)
SameEvidence(i, k) ==
  /\ k.state = i.state /\ k.isVerified = i.isVerified /\ k.phrases = i.phrases
  /\ k.definitions = i.definitions /\ k.trusted = i.trusted /\ k.required = i.required
  /\ k.revealed = i.revealed /\ k.fields = i.fields /\ k.validFrom = i.validFrom
  /\ k.expiresAt = i.expiresAt /\ k.legacy = i.legacy

LEMMA EvidenceStays ==
  ASSUME NEW i \in Evidence, NEW k,
         k = [i EXCEPT !.now = @ + 1] \/ k = [i EXCEPT !.expired = TRUE]
  PROVE  /\ k \in Evidence /\ SameEvidence(i, k)
         /\ k.now \in {i.now, i.now + 1} /\ (k.expired = i.expired \/ k.expired = TRUE)
  <1>1. CASE k = [i EXCEPT !.now = @ + 1]
    <2>1. i.now + 1 \in Int
      BY DEF Evidence
    <2>2. k \in Evidence
      BY <1>1, <2>1 DEF Evidence
    <2>3. SameEvidence(i, k) /\ k.now = i.now + 1 /\ k.expired = i.expired
      BY <1>1 DEF Evidence, SameEvidence
    <2> QED
      BY <2>2, <2>3, Zenon
  <1>2. CASE k = [i EXCEPT !.expired = TRUE]
    <2>1. k \in Evidence
      BY <1>2 DEF Evidence
    <2>2. SameEvidence(i, k) /\ k.now = i.now /\ k.expired = TRUE
      BY <1>2 DEF Evidence, SameEvidence
    <2> QED
      BY <2>1, <2>2, Zenon
  <1> QED
    BY <1>1, <1>2, Zenon

LEMMA EvidenceInit == Init => TypeOK
  <1> SUFFICES ASSUME NEW state \in ProtocolState, NEW verified \in Verified, NEW phrases \in Message,
                      NEW definitions \in SUBSET Definition, NEW group \in Revealed, NEW from \in Date,
                      NEW to \in Date, NEW legacy \in BOOLEAN,
                      input = Input(state, verified, phrases, definitions, group, from, to, legacy)
               PROVE  TypeOK
    BY DEF Init
  <1>1. group.revealed \in BOOLEAN /\ group.fields \in SUBSET Field
    <2>1. CASE group = [revealed |-> FALSE, fields |-> {}]
      BY <2>1
    <2>2. CASE group \in [revealed : {TRUE}, fields : SUBSET Field]
      BY <2>2
    <2> QED
      BY <2>1, <2>2 DEF Revealed
  <1>2. phrases \in SUBSET Phrase /\ from \in DateField /\ to \in DateField
    BY RulesAssumption
  <1> QED
    BY <1>1, <1>2 DEF TypeOK, Evidence, Input

LEMMA EvidenceHolds == Spec => []TypeOK
  <1>1. TypeOK /\ [Next]_input => TypeOK'
    BY EvidenceStays DEF TypeOK, Next, TimePasses, RequestExpires
  <1> QED
    BY <1>1, EvidenceInit, PTL DEF Spec

-----------------------------------------------------------------------------
(* The verdict on complete evidence, and the code of a refusal.             *)
InForce(from, to, now, legacy) ==
  \/ legacy /\ {from.form, to.form} = {"absent"}
  \/ {from.form, to.form} = {"instant"} /\ from.at <= now /\ now < to.at

LEMMA ValidityRule ==
  ASSUME NEW from \in DateField, NEW to \in DateField, NEW now \in Int, NEW legacy \in BOOLEAN,
         NEW code, code = CredentialValidityFailure(from, to, now, legacy)
  PROVE  /\ code \in {NoFailure, "CREDENTIAL_VALIDITY_INVALID", "CREDENTIAL_NOT_YET_VALID", "CREDENTIAL_EXPIRED"}
         /\ (code = NoFailure) <=> InForce(from, to, now, legacy)
  <1>1. from.at \in Int /\ to.at \in Int /\ from.form \in {"absent", "malformed", "instant"}
        /\ to.form \in {"absent", "malformed", "instant"}
    BY DEF DateField
  <1>2. {from.form, to.form} = {"absent"} <=> from.form = "absent" /\ to.form = "absent"
    OBVIOUS
  <1>3. {from.form, to.form} = {"instant"} <=> from.form = "instant" /\ to.form = "instant"
    OBVIOUS
  <1> QED
    BY <1>1, <1>2, <1>3 DEF CredentialValidityFailure, NoFailure, InForce

(* In one unit of time a credential that is not yet valid can become valid, *)
(* and a valid one expire.                                                  *)
LEMMA ValidityAges ==
  ASSUME NEW from \in DateField, NEW to \in DateField, NEW now \in Int, NEW later \in {now, now + 1},
         NEW legacy \in BOOLEAN,
         NEW code, code = CredentialValidityFailure(from, to, now, legacy),
         NEW next, next = CredentialValidityFailure(from, to, later, legacy)
  PROVE  \/ next = code
         \/ code = "CREDENTIAL_NOT_YET_VALID" /\ next = NoFailure
         \/ code = NoFailure /\ next = "CREDENTIAL_EXPIRED"
  <1>1. from.at \in Int /\ to.at \in Int
    BY DEF DateField
  <1> QED
    BY <1>1 DEF CredentialValidityFailure, NoFailure

(* The codes a refusal can carry.                                           *)
LEMMA RefusalCode ==
  ASSUME NEW phrases \in SUBSET Phrase, NEW default, default # NoFailure, default # "CREDENTIAL_NOT_CURRENT",
         NEW code, code = Refusal(phrases, default)
  PROVE  /\ code # NoFailure
         /\ phrases \cap NotCurrentPhrase # {} <=> code = "CREDENTIAL_NOT_CURRENT"
         /\ phrases \cap NotCurrentPhrase = {} /\ phrases # {} => code = "REVOCATION_CHECK_FAILED"
  <1>1. CASE phrases \cap NotCurrentPhrase # {}
    BY <1>1 DEF Refusal, RevocationFailureFromError, NoFailure
  <1>2. CASE phrases \cap NotCurrentPhrase = {}
    <2>1. phrases # {} => phrases \cap CheckFailedPhrase # {}
      BY <1>2 DEF Phrase
    <2> QED
      BY <1>2, <2>1 DEF Refusal, RevocationFailureFromError, NoFailure
  <1> QED
    BY <1>1, <1>2

-----------------------------------------------------------------------------
(* Evidence that every test of the rules lets through.                      *)
Accepted(i, validity) ==
  /\ ~i.expired /\ i.state = "done" /\ i.isVerified = "yes"
  /\ AllTrusted(i) /\ RequiredRevealed(i) /\ validity = NoFailure

(* The rules approve such evidence and no other; a verdict that neither     *)
(* approves nor waits has a code, and only an approval releases fields.     *)
LEMMA Approval ==
  ASSUME NEW i \in Evidence, NEW v, v = EvaluateVerification(i),
         NEW validity, validity = CredentialValidityFailure(i.validFrom, i.expiresAt, i.now, i.legacy)
  PROVE  /\ (v.decision = "Approved") <=> Accepted(i, validity)
         /\ v.attributes <=> v.decision = "Approved"
         /\ v.decision \in {"Approved", "Pending"} <=> v.failureCode = NoFailure
  <1> DEFINE refused == Decided("Declined", Refusal(i.phrases, "PROOF_NOT_VERIFIED"))
             code == Refusal(i.phrases, "CREDO_PROTOCOL_ERROR")
             approved == [decision |-> "Approved", failureCode |-> NoFailure, attributes |-> TRUE]
  <1>1. i.phrases \in SUBSET Phrase
    BY DEF Evidence
  <1>2. code # NoFailure /\ Refusal(i.phrases, "PROOF_NOT_VERIFIED") # NoFailure
    BY <1>1, RefusalCode DEF NoFailure
  <1> HIDE DEF code
  <1>3. CASE i.expired
    BY <1>3 DEF EvaluateVerification, Decided, Accepted, NoFailure
  <1>4. CASE ~i.expired /\ i.state = "abandoned"
    BY <1>2, <1>4 DEF EvaluateVerification, Decided, Accepted, NoFailure, code
  <1>5. CASE ~i.expired /\ i.state # "abandoned" /\ (i.state = "declined" \/ i.isVerified = "no")
    BY <1>2, <1>5 DEF EvaluateVerification, Decided, Accepted, NoFailure
  <1>6. CASE /\ ~i.expired /\ i.state \notin {"abandoned", "declined"} /\ i.isVerified # "no"
             /\ i.state # "done" \/ i.isVerified # "yes"
    BY <1>6 DEF EvaluateVerification, Decided, Accepted, NoFailure
  <1>7. CASE ~i.expired /\ i.state = "done" /\ i.isVerified = "yes"
    <2>1. v = EvaluatePresentation(i)
      BY <1>7, Zenon DEF EvaluateVerification
    <2>2. CASE ~AllTrusted(i) \/ ~RequiredRevealed(i)
      BY <2>1, <2>2 DEF EvaluatePresentation, Decided, Accepted, NoFailure
    <2>3. CASE AllTrusted(i) /\ RequiredRevealed(i) /\ validity # NoFailure
      <3>1. v = Decided("Declined", validity)
        BY <2>1, <2>3, Zenon DEF EvaluatePresentation
      <3> QED
        BY <2>3, <3>1 DEF Decided, Accepted
    <2>4. CASE AllTrusted(i) /\ RequiredRevealed(i) /\ validity = NoFailure
      BY <1>7, <2>1, <2>4 DEF EvaluatePresentation, Accepted
    <2> QED
      BY <2>2, <2>3, <2>4
  <1>8. i.isVerified \in {"unset", "yes", "no"}
    BY DEF Evidence, Verified
  <1> QED
    BY <1>3, <1>4, <1>5, <1>6, <1>7, <1>8

-----------------------------------------------------------------------------
(* Approval exactly for verified, trusted and complete evidence that is     *)
(* valid now (evaluateVerification, credentialValidityFailure).             *)
THEOREM ApprovalExact == Spec => []ApprovedExactlyWhenJustified
  <1>1. TypeOK => ApprovedExactlyWhenJustified
    <2> DEFINE validity == CredentialValidityFailure(input.validFrom, input.expiresAt, input.now, input.legacy)
    <2>1. SUFFICES ASSUME TypeOK
                   PROVE  (result.decision = "Approved") <=> Justified
      BY Zenon DEF ApprovedExactlyWhenJustified
    <2>2. input \in Evidence
      BY <2>1 DEF TypeOK
    <2>3. (result.decision = "Approved") <=> Accepted(input, validity)
      BY <2>2, Approval, Zenon DEF result
    <2>4. /\ input.validFrom \in DateField /\ input.expiresAt \in DateField /\ input.now \in Int
          /\ input.legacy \in BOOLEAN /\ input.trusted = Trusted /\ input.required = Required
      BY <2>2 DEF Evidence
    <2>5. (validity = NoFailure) <=> InForce(input.validFrom, input.expiresAt, input.now, input.legacy)
      BY <2>4, ValidityRule, SMTT(20)
    <2>6. AllTrusted(input) <=> input.definitions # {} /\ \A d \in input.definitions : d \in Trusted
      BY <2>4 DEF AllTrusted
    <2>7. RequiredRevealed(input) <=> input.revealed /\ \A f \in Required : f \in input.fields
      BY <2>4, Zenon DEF RequiredRevealed
    <2> HIDE DEF validity
    <2> QED
      BY <2>3, <2>5, <2>6, <2>7, Zenon DEF Accepted, Justified, InForce
  <1> QED
    BY <1>1, EvidenceHolds, PTL

(* A credential that is no longer current is declined as such, and a check  *)
(* that did not work is not blamed on it (revocationFailureFromError).      *)
THEOREM RevocationNamed == Spec => []RevocationClassified
  <1>1. TypeOK => RevocationClassified
    <2>1. SUFFICES ASSUME TypeOK, input.state \in {"abandoned", "declined"} \/ input.isVerified = "no",
                          ~input.expired
                   PROVE  /\ input.phrases \cap NotCurrentPhrase # {} <=> result.failureCode = "CREDENTIAL_NOT_CURRENT"
                          /\ input.phrases \cap NotCurrentPhrase # {} => result.decision = "Declined"
                          /\ ~(input.phrases \cap NotCurrentPhrase # {}) /\ input.phrases # {} =>
                               result.failureCode = "REVOCATION_CHECK_FAILED"
      BY Zenon DEF RevocationClassified
    <2>2. input.phrases \in SUBSET Phrase
      BY <2>1 DEF TypeOK, Evidence
    <2>3. ASSUME NEW default \in {"CREDO_PROTOCOL_ERROR", "PROOF_NOT_VERIFIED"}
          PROVE  /\ input.phrases \cap NotCurrentPhrase # {} <=> Refusal(input.phrases, default) = "CREDENTIAL_NOT_CURRENT"
                 /\ input.phrases \cap NotCurrentPhrase = {} /\ input.phrases # {} =>
                      Refusal(input.phrases, default) = "REVOCATION_CHECK_FAILED"
      BY <2>2, <2>3, RefusalCode DEF NoFailure
    <2>4. CASE input.state = "abandoned"
      BY <2>1, <2>3, <2>4 DEF result, EvaluateVerification, Decided
    <2>5. CASE input.state # "abandoned"
      BY <2>1, <2>3, <2>5 DEF result, EvaluateVerification, Decided
    <2> QED
      BY <2>1, <2>4, <2>5
  <1> QED
    BY <1>1, EvidenceHolds, PTL

(* Every outcome but an approval has a code, a pending session none, and    *)
(* only an approval releases fields (evaluateVerification).                 *)
THEOREM OutcomesComplete == Spec => []OutcomeComplete
  <1>1. TypeOK => OutcomeComplete
    BY Approval DEF TypeOK, OutcomeComplete, result
  <1> QED
    BY <1>1, EvidenceHolds, PTL

(* Waiting only takes a verdict from not yet valid through approved to      *)
(* expired: it never lifts another refusal (credentialValidityFailure).     *)
THEOREM VerdictsOnlyAge == Spec => VerdictsAgeForward
  <1> DEFINE Ages == LET later == EvaluateVerification(input') IN
                       \/ input'.expired
                       \/ later = result
                       \/ result.failureCode = "CREDENTIAL_NOT_YET_VALID" /\ later.decision = "Approved"
                       \/ result.decision = "Approved" /\ later.failureCode = "CREDENTIAL_EXPIRED"
  <1>1. TypeOK /\ [Next]_input => [Ages]_input
    <2>1. SUFFICES ASSUME TypeOK, Next, ~input'.expired
                   PROVE  Ages
      OBVIOUS
    <2> DEFINE i == input
               k == input'
               code == CredentialValidityFailure(i.validFrom, i.expiresAt, i.now, i.legacy)
               next == CredentialValidityFailure(k.validFrom, k.expiresAt, k.now, k.legacy)
    <2>2. /\ i \in Evidence /\ k \in Evidence /\ SameEvidence(i, k) /\ k.now \in {i.now, i.now + 1}
          /\ k.expired = i.expired \/ k.expired = TRUE
      BY <2>1, EvidenceStays DEF TypeOK, Next, TimePasses, RequestExpires
    <2>3. ~i.expired /\ ~k.expired
      BY <2>1, <2>2, Zenon
    <2>4. CASE ~(i.state = "done" /\ i.isVerified = "yes")
      BY <2>2, <2>3, <2>4, Zenon DEF SameEvidence, EvaluateVerification, result
    <2>5. CASE i.state = "done" /\ i.isVerified = "yes"
      <3>1. result = EvaluatePresentation(i) /\ EvaluateVerification(k) = EvaluatePresentation(k)
        BY <2>2, <2>3, <2>5, Zenon DEF SameEvidence, EvaluateVerification, result
      <3>2. (AllTrusted(k) <=> AllTrusted(i)) /\ (RequiredRevealed(k) <=> RequiredRevealed(i))
        BY <2>2, Zenon DEF SameEvidence, AllTrusted, RequiredRevealed
      <3>3. \/ next = code
            \/ code = "CREDENTIAL_NOT_YET_VALID" /\ next = NoFailure
            \/ code = NoFailure /\ next = "CREDENTIAL_EXPIRED"
        <4>1. i.validFrom \in DateField /\ i.expiresAt \in DateField /\ i.now \in Int /\ i.legacy \in BOOLEAN
          BY <2>2 DEF Evidence
        <4>2. next = CredentialValidityFailure(i.validFrom, i.expiresAt, k.now, i.legacy)
          BY <2>2, Zenon DEF SameEvidence
        <4> QED
          BY <2>2, <4>1, <4>2, ValidityAges
      <3> HIDE DEF code, next
      <3>4. CASE next = code \/ ~AllTrusted(i) \/ ~RequiredRevealed(i)
        BY <3>1, <3>2, <3>4 DEF EvaluatePresentation, code, next
      <3>5. CASE AllTrusted(i) /\ RequiredRevealed(i) /\ code = "CREDENTIAL_NOT_YET_VALID" /\ next = NoFailure
        BY <3>1, <3>2, <3>5 DEF EvaluatePresentation, code, next, Decided, NoFailure
      <3>6. CASE AllTrusted(i) /\ RequiredRevealed(i) /\ code = NoFailure /\ next = "CREDENTIAL_EXPIRED"
        BY <3>1, <3>2, <3>6 DEF EvaluatePresentation, code, next, Decided, NoFailure
      <3> QED
        BY <3>3, <3>4, <3>5, <3>6
    <2> QED
      BY <2>4, <2>5
  <1> HIDE DEF Ages
  <1>2. Spec => [][Ages]_input
    BY <1>1, EvidenceHolds, PTL DEF Spec
  <1> QED
    BY <1>2 DEF Ages, VerdictsAgeForward
=============================================================================
