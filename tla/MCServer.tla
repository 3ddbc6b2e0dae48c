------------------------------ MODULE MCServer ------------------------------
EXTENDS Server, TLC

CONSTANTS r1, r2, r3, t1, t2, t3

\* r1 places an order and starts two notifications, r2 changes a status and
\* starts one, r3 starts none.
MCStarter == (t1 :> r1) @@ (t2 :> r1) @@ (t3 :> r2)
=============================================================================
