----------------------------- MODULE MCCatalog -----------------------------
EXTENDS Catalog, TLC

CONSTANTS o1, o2

\* Two names that differ by case, one that differs from both.
MCNames == {"", "Tea", "tea", "Rum"}
MCLower == [n \in MCNames |-> IF n = "Tea" THEN "tea" ELSE n]
MCShelf == {[id |-> "p", name |-> "Rum", category |-> o1, price |-> 2]}

Create(n, p)        == [kind |-> "create", name |-> n, parent |-> p]
Update(i, v, n, p)  == [kind |-> "update", id |-> i, version |-> v, name |-> n, parent |-> p]
Delete(i)           == [kind |-> "delete", id |-> i]
AverageOf(i)        == [kind |-> "average", id |-> i]
AddProduct(n, i, p) == [kind |-> "product", name |-> n, category |-> i, price |-> p]

\* Renames that race moves and deletions, both moves a ring needs, clashes of
\* names, products against the deletion of their category.
MCAsked ==
  { Create("tea", Root), Create("Rum", o2), Delete(o1),
    Update(o1, 1, "Tea", Unsent), Update(o1, 1, Unsent, o2),
    Update(o2, 1, Unsent, o1), Update(o2, 2, "", Root), Delete(o2), AverageOf(o1),
    AddProduct("Tea", o2, 3) }

\* The calls of the ring alone.
MCRing == {Update(o1, 1, Unsent, o2), Update(o2, 1, Unsent, o1), AverageOf(o1)}

MCSymmetry == Permutations(Calls)
=============================================================================
