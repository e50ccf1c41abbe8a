----------------------- MODULE MCVerificationDecision -----------------------
(* Values for checking DecisionRules with TLC. *)
EXTENDS DecisionRules

(* The real messages: a report of a credential that is not current may      *)
(* mention the revocation machinery as well.                                *)
MCMessage ==
  {{}, {"credential was revoked"}, {"does not satisfy the non-revocation", "revocation"},
   {"tails file"}, {"revocation", "status list"}}

MCDate == {Absent, Malformed, Instant(1), Instant(2), Instant(3)}
=============================================================================
