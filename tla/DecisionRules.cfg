\* Every small piece of evidence, evaluated at every time.
CONSTANTS
  Definition = {"unify", "other"}
  Trusted = {"unify"}
  Field = {"studentNumber"}
  Required = {"studentNumber"}
  Message <- MCMessage
  Date <- MCDate
  LastTime = 3
SPECIFICATION Spec
INVARIANTS ApprovedExactlyWhenJustified RevocationClassified OutcomeComplete
PROPERTIES VerdictsAgeForward
CHECK_DEADLOCK FALSE
