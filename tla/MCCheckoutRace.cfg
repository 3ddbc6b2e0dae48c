SPECIFICATION Spec
CONSTANTS
  Requests = {r1, r2}
  Products <- MCProducts
  Carts <- MCDistinctCarts
  Stock0 <- MCStock0
  Price <- MCPrice
  MaxTotal <- MCMaxTotal
INVARIANT
  NoOversell
