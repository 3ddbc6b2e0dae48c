----------------------------- MODULE MCListing -----------------------------
EXTENDS Listing

CONSTANTS a, b, c, p, q, r, ann, bob

\* Two orders of ann, and one of bob none of whose items was stored; three
\* products, two of one name in different categories.
MCOwnerOf == [o \in {a, b, c} |-> IF o = c THEN bob ELSE ann]
MCSizeOf  == [o \in {a, b, c} |-> IF o = a THEN 2 ELSE IF o = b THEN 1 ELSE 0]
MCNameOf  == [x \in {p, q, r} |-> IF x = p THEN 2 ELSE 1]

List(of, user) == [of |-> of, user |-> user, status |-> "PROCESSING"]
MCQueries == {List("all", NoUser), List("user", ann), List("status", NoUser),
              List("products", NoUser)}
=============================================================================
