SPECIFICATION FairSpec
CONSTANTS
  o1 = o1
  cus = cus
  adm = adm
  Orders = {o1}
  Users = {cus, adm}
  CustomerOf <- MCCustomerOf
  Grantable <- MCGrantable
  Followed <- MCFollowed
  Phones <- MCPhones
  SmsEnabled = TRUE
INVARIANTS
  TypeOK
  CopiesAreBounded
  EveryAdminIsTried
  SmsIsInternational
PROPERTIES
  TaskEnds
