---------------------------- MODULE MCOrderStatus ---------------------------
EXTENDS OrderStatus

CONSTANT o1

Ask(s, v) == [order |-> o1, status |-> s, version |-> v]

\* Every move of the life cycle at its version, cancellations at each version,
\* a move back, a version the order never has, and a word that is no status.
MCAsked == { Ask("PROCESSING", 1), Ask("SHIPPED", 2), Ask("DELIVERED", 3),
             Ask("PLACED", 2), Ask("PROCESSING", 7), Ask("LOST", 1) }
           \cup {Ask("CANCELLED", v) : v \in 1 .. 3}
=============================================================================
