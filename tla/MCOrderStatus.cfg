SPECIFICATION FairSpec
CONSTANTS
  o1 = o1
  Orders = {o1}
  Updates = {u1, u2, u3}
  Asked <- MCAsked
INVARIANTS
  OneWinnerPerVersion
  UpdatedIsRecorded
  MailIsTrueAndUnique
PROPERTIES
  LifecycleSpec
  UpdateIsAnswered
