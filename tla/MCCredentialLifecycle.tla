------------------------ MODULE MCCredentialLifecycle ------------------------
(* Values for checking CredentialLifecycle with TLC. *)
EXTENDS CredentialLifecycle, TLC

Callers == Permutations(Caller)
==============================================================================
