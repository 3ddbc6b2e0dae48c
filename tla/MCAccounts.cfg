SPECIFICATION Spec
CONSTANTS
  ann = ann
  bob = bob
  subA = subA
  subB = subB
  old = old
  Nobody = Nobody
  Emails = {ann, bob}
  Subjects = {subA, subB}
  Calls = {c1, c2, c3}
  OldAccounts <- MCOldAccounts
  Inputs <- MCAll
SYMMETRY MCSymmetry
INVARIANTS
  SessionsAreOfActive
  OneSessionUnlessOverlap
  SignedUpCanActivate
  PhoneNotForgotten
  LogoutIsFinal
