SPECIFICATION Spec
CONSTANTS
  o1 = o1
  o2 = o2
  Root = Root
  Calls = {c1, c2, c3}
  Old = {o1, o2}
  Asked <- MCAsked
  Names <- MCNames
  Lower <- MCLower
  Shelf <- MCShelf
SYMMETRY MCSymmetry
INVARIANTS
  TypeOK
  TablesAreSound
  OneWinnerPerVersion
  AverageCountsEachOnce
PROPERTIES
  UnsentFieldsKept
