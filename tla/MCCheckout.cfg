SPECIFICATION FairSpec
CONSTANTS
  Requests = {r1, r2}
  Products <- MCProducts
  Carts <- MCCarts
  Stock0 <- MCStock0
  Price <- MCPrice
  MaxTotal <- MCMaxTotal
INVARIANTS
  TypeOK
  ShelfLossIsSold
  UncontendedExact
  RefusedLeavesNoTrace
  ConfirmedIsComplete
  TotalIsSumOfLines
PROPERTIES
  AcceptedIsAnswered
