------------------------ MODULE MCVerificationSession ------------------------
(* Values for checking VerificationSession with TLC. *)
EXTENDS VerificationSession, TLC

(* One credential that satisfies the policy while the clock is below its    *)
(* end, and one of an untrusted definition.                                 *)
Credential(definition, end) ==
  [definitions |-> {definition}, revealed |-> TRUE, fields |-> {"studentNumber"},
   validFrom |-> Instant(0), expiresAt |-> Instant(end)]
MCTrusted == "unify"
MCRequired == {"studentNumber"}
MCPresentation == {Credential("unify", 3), Credential("other", 9)}
ShortLived == {Credential("unify", 1)}
OnePresentation == {Credential("unify", 3)}
Outcome(state, isVerified, phrases) == [state |-> state, isVerified |-> isVerified, phrases |-> phrases]
AllFailures == {Outcome("abandoned", "unset", {"credential is revoked"}), Outcome("declined", "unset", {}),
                Outcome("presentation-received", "no", {})}
OneFailure == {Outcome("abandoned", "unset", {})}
NoFailures == {}

Exchanges == Permutations(Proof) \cup Permutations(Handler) \cup Permutations(Cleaner)
==============================================================================
