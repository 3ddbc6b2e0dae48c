----------------------------- MODULE MCCheckout -----------------------------
(* Checkout on a small shop: products 1 and 2 exist, product 9 does not.   *)
EXTENDS Checkout, TLC

I(p, q) == [product |-> p, qty |-> q]

MCProducts == {1, 2}
MCStock0   == (1 :> 3) @@ (2 :> 1)
MCPrice    == (1 :> 2) @@ (2 :> 5)
MCMaxTotal == 9

\* One line, two products in both orders, the same product twice and three
\* times, an unknown product, a zero quantity, an empty cart, and a total above
\* MCMaxTotal.
MCCarts == { <<I(1, 1)>>, <<I(1, 2)>>, <<I(1, 2), I(2, 1)>>, <<I(2, 1), I(1, 1)>>,
             <<I(1, 2), I(1, 1)>>, <<I(1, 1), I(2, 1), I(1, 1)>>, <<I(1, 1), I(1, 1), I(1, 1)>>,
             <<I(1, 3), I(2, 1)>>, <<I(2, 1), I(9, 1)>>, <<I(1, 0)>>, <<>> }

\* Carts without a product on two lines, for the race alone.
MCDistinctCarts == { <<I(1, 2)>>, <<I(1, 1), I(2, 1)>> }
=============================================================================
