SPECIFICATION Spec
CONSTANTS
  here = here
  there = there
  adm = adm
  usr = usr
  Requests = {r1, r2}
  Asked <- MCAsked
  Addresses = {here, there}
  Users = {adm, usr}
  Activated = {adm}
  Grantees = {adm}
  Rate = 1
  Cost = 2
  Capacity = 2
  IdleLimit = 2
  MaxTime = 3
INVARIANT
  AdminRoutesAreAdminOnly
