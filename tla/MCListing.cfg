SPECIFICATION Spec
CONSTANTS
  a = a
  b = b
  c = c
  p = p
  q = q
  r = r
  ann = ann
  bob = bob
  Orders = {a, b, c}
  OwnerOf <- MCOwnerOf
  SizeOf <- MCSizeOf
  Products = {p, q, r}
  NameOf <- MCNameOf
  Queries <- MCQueries
  Sizes = {0, 1, 2}
  MaxTime = 1
INVARIANTS
  TypeOK
  WalkMissesNothing
  RepeatedOnlyIfPushed
  QuietWalkIsExact
