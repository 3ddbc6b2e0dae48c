SPECIFICATION Spec
CONSTANTS
  ann = ann
  bob = bob
  subA = subA
  subB = subB
  old = old
  Nobody = Nobody
  Emails = {ann, bob}
  Subjects = {subA, subB}
  Calls = {c1, c2}
  OldAccounts <- MCNoAccounts
  Inputs <- MCSignUp
INVARIANT
  ActivationFailureIsReal
