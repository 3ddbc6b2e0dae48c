----------------------------- MODULE MCPipeline -----------------------------
EXTENDS Pipeline

CONSTANTS here, there, adm, usr

Ask(a, u, t) == [address |-> a, user |-> u, route |-> t]

\* One request empties the bucket of an address; the other arrives when it
\* was refilled or forgotten, or before.  adm is active, usr is not.
MCAsked == { Ask(here, adm, "admin"), Ask(here, adm, "orderAdmin"),
             Ask(here, usr, "member"), Ask(there, "anonymous", "member"),
             Ask(there, "anonymous", "public") }
=============================================================================
