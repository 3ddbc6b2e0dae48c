----------------------------- MODULE MCAccounts -----------------------------
EXTENDS Accounts, TLC

CONSTANTS ann, bob, subA, subB, old

Callback(e, s, v) == [kind |-> "callback", email |-> e, subject |-> s, valid |-> v]
With(k, id)       == [kind |-> k, token |-> id]

\* ann has no account: she signs up, activates with any call's token and logs
\* in; under a subject that may be bob's, or with claims that are not valid.
MCNoAccounts == {}
MCSignUp == { Callback(ann, subA, TRUE), Callback(ann, subB, TRUE),
              Callback(ann, subA, FALSE) }
            \cup {With("activate", c) : c \in Calls}

\* bob has an account and a session, and logs out of this or a newer one.
MCOldAccounts == {[email |-> bob, subject |-> subB, token |-> old]}
MCAll == MCSignUp
         \cup { Callback(bob, subB, TRUE) }
         \cup {With(k, old) : k \in {"phone", "touch", "logout"}}
         \cup {With("logout", c) : c \in Calls}

MCSymmetry == Permutations(Calls)
=============================================================================
