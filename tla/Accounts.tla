------------------------------ MODULE Accounts ------------------------------
(***************************************************************************)
(* Accounts and sessions: sign-up and login through the OAuth callback,    *)
(* activation, profile update and logout (cmd/api/authentication.go) over  *)
(* the tables users and tokens (internal/data/users.go, tokens.go).        *)
(*                                                                         *)
(* As everywhere in the program no transaction is opened: one statement is *)
(* one action and commits alone, and a statement whose answer is lost      *)
(* (acked = FALSE) has taken effect all the same.  UpdateUser writes back  *)
(* the whole row read earlier, WHERE the version is still the one read.    *)
(*                                                                         *)
(* activateUserHandler shares its variable err with the e-mail task it     *)
(* starts: the closure assigns it and the handler's := reuses it.          *)
(*                                                                         *)
(* A call stores at most one token, so the call stands for the token's id. *)
(***************************************************************************)
EXTENDS Integers

CONSTANTS Emails,      \* the e-mail addresses (CITEXT UNIQUE) of accounts
          Subjects,    \* the OIDC subjects (UNIQUE)
          Calls,       \* the requests that are ever sent
          OldAccounts, \* accounts with a session: [email, subject, token]
          Inputs,      \* what a request may carry
          Nobody       \* who a call is about before it has found out

OldIds == {a.token : a \in OldAccounts}
Ids    == Calls \cup OldIds
Scopes == {"activation", "authentication"}
Token  == [id : Ids, scope : Scopes, owner : Emails]

CallbackInput == [kind : {"callback"}, email : Emails, subject : Subjects,
                  valid : BOOLEAN]   \* valid: ValidateUser accepts the claims
TokenInput    == [kind : {"activate", "phone", "touch", "logout"}, token : Ids]

ASSUME InputsAssumption == Inputs \subseteq CallbackInput \cup TokenInput
ASSUME OldAccountsAssumption ==
  /\ OldAccounts \subseteq [email : Emails, subject : Subjects, token : OldIds]
  /\ \A a, b \in OldAccounts :
       a.email = b.email \/ a.subject = b.subject \/ a.token = b.token => a = b
  /\ Calls \cap OldIds = {}

ASSUME NobodyAssumption == Nobody \notin Emails \cup Calls

(* A row of users; version 0 stands for no row.  A phone number is the     *)
(* call that stored it, Nobody where there is none.                         *)
Phones == Calls \cup {Nobody}
Row    == [active : BOOLEAN, version : Nat, phone : Phones]
NoRow  == [active |-> FALSE, version |-> 0, phone |-> Nobody]

VARIABLES
  users,      \* the rows of users, by e-mail
  subjects,   \* the pairs <<email, oidc_sub>> of those rows
  tokens,     \* the rows of tokens
  expired,    \* the ids of tokens whose expiry has passed
  input,      \* the decoded request of each call
  pc,         \* where the handler of each call stands
  who,        \* the account the call is about
  seen,       \* the row of users the call read last
  err,        \* err of activateUserHandler: TRUE when it holds an error
  mailing,    \* activations whose e-mail task is running
  answer,     \* the HTTP answer
  broken,     \* history: calls a statement of which returned an error
  linked,     \* history: accounts an activation token was ever stored for
  overlapped  \* history: accounts with two logins between delete and insert

tables  == <<users, subjects, tokens, expired>>
locals  == <<input, who, seen>>
history == <<linked, overlapped>>
vars    == <<users, subjects, tokens, expired, input, pc, who, seen, err,
             mailing, answer, broken, linked, overlapped>>

Phases  == {"new", "lookup", "insert", "relookup", "issueLink", "readLink",
            "activate", "dropLinks", "purge", "issue", "check", "authenticate",
            "read", "save", "logout", "done", "dead"}
Answers == {"none", "unauthorized", "inactive", "signedUp", "loggedIn", "invalid",
            "conflict", "updated", "loggedOut", "failed"}

TypeOK ==
  /\ users \in [Emails -> Row]
  /\ subjects \subseteq Emails \X Subjects
  /\ tokens \subseteq Token
  /\ expired \subseteq Ids
  /\ input \in [Calls -> Inputs]
  /\ pc \in [Calls -> Phases]
  /\ who \in [Calls -> Emails \cup {Nobody}]
  /\ seen \in [Calls -> Row]
  /\ err \in [Calls -> BOOLEAN]
  /\ mailing \subseteq Calls
  /\ answer \in [Calls -> Answers]
  /\ broken \subseteq Calls
  /\ linked \subseteq Emails
  /\ overlapped \subseteq Emails

(* The old accounts were created and activated, hence version 2.           *)
Init ==
  /\ users = [e \in Emails |->
                IF \E a \in OldAccounts : a.email = e
                  THEN [active |-> TRUE, version |-> 2, phone |-> Nobody]
                  ELSE NoRow]
  /\ subjects = {<<a.email, a.subject>> : a \in OldAccounts}
  /\ tokens = {[id |-> a.token, scope |-> "authentication", owner |-> a.email] :
                 a \in OldAccounts}
  /\ expired = {}
  /\ input \in [Calls -> Inputs]
  /\ pc = [c \in Calls |-> "new"]
  /\ who = [c \in Calls |-> Nobody]
  /\ seen = [c \in Calls |-> NoRow]
  /\ err = [c \in Calls |-> FALSE]
  /\ mailing = {}
  /\ answer = [c \in Calls |-> "none"]
  /\ broken = {}
  /\ linked = {a.email : a \in OldAccounts}
  /\ overlapped = {}

-----------------------------------------------------------------------------
(* Ways to leave a step.  "locals" and "err" are left to the action.       *)

Goto(c, l) == pc' = [pc EXCEPT ![c] = l] /\ UNCHANGED <<answer, broken>>

Answer(c, a) ==
  /\ pc' = [pc EXCEPT ![c] = "done"]
  /\ answer' = [answer EXCEPT ![c] = a]
  /\ UNCHANGED broken

(* The handler is activateUserHandler inside its "authToken, err :=".      *)
Generating(c) == input[c].kind = "activate" /\ pc[c] \in {"purge", "issue"}

StatementErrorAnswer == "failed"

(* A statement of c returned an error.  The authentication middleware      *)
(* makes 401 of it, every other place 500; in the generation of the token  *)
(* of an activation the error goes through err first.                      *)
Broken(c) ==
  /\ broken' = broken \cup {c}
  /\ IF Generating(c)
       THEN /\ pc' = [pc EXCEPT ![c] = "check"]
            /\ err' = [err EXCEPT ![c] = TRUE]
            /\ UNCHANGED answer
       ELSE /\ pc' = [pc EXCEPT ![c] = "done"]
            /\ answer' = [answer EXCEPT ![c] =
                 IF pc[c] = "authenticate" THEN "unauthorized"
                                           ELSE StatementErrorAnswer]
            /\ UNCHANGED err

(* The end of a statement: on to l with err nil, or an error.              *)
Acked(c, acked, l) == IF acked THEN Goto(c, l) /\ UNCHANGED err ELSE Broken(c)

Exists(e) == users[e].version > 0

See(c, e) ==
  /\ who' = [who EXCEPT ![c] = e]
  /\ seen' = [seen EXCEPT ![c] = users[e]]
  /\ UNCHANGED input

(* The row of e was read; what follows is for activated accounts only.     *)
AdmitAnyone(c, e, l) == See(c, e) /\ Goto(c, l)
Admit(c, e, l) ==
  /\ See(c, e)
  /\ IF users[e].active THEN Goto(c, l) ELSE Answer(c, "inactive")

(* GetForToken: the unexpired token of that scope.                         *)
Valid(id, scope) ==
  {t \in tokens : t.id = id /\ t.scope = scope /\ id \notin expired}

(* What DeleteAllForUser deletes.                                          *)
ExpiredForUser(e, scope) ==
  {t \in tokens : t.owner = e /\ t.scope = scope /\ t.id \in expired}
AllForUser(e, scope) == {t \in tokens : t.owner = e /\ t.scope = scope}

-----------------------------------------------------------------------------
(* Each kind of request starts at its own first statement.                 *)

FirstStep(kind) ==
  IF kind = "callback" THEN "lookup"
  ELSE IF kind = "activate" THEN "readLink" ELSE "authenticate"

Receive(c) ==
  /\ pc[c] = "new"
  /\ Goto(c, FirstStep(input[c].kind))
  /\ UNCHANGED <<tables, locals, err, mailing, history>>

-----------------------------------------------------------------------------
(* createAuthenticationApiKeyHandler, handleOAuthSignup, handleOAuthLogin. *)

LookupKnown(c) ==
  /\ pc[c] = "lookup"
  /\ Exists(input[c].email)
  /\ Admit(c, input[c].email, "purge")
  /\ UNCHANGED <<tables, err, mailing, history>>

LookupUnknown(c) ==
  /\ pc[c] = "lookup"
  /\ ~ Exists(input[c].email)
  /\ IF input[c].valid THEN Goto(c, "insert") ELSE Answer(c, "unauthorized")
  /\ UNCHANGED <<tables, locals, err, mailing, history>>

(* CreateNewUser meets the unique e-mail: another request made the account *)
(* since the lookup; read it and log in.                                   *)
InsertDuplicate(c) ==
  /\ pc[c] = "insert"
  /\ Exists(input[c].email)
  /\ Goto(c, "relookup")
  /\ UNCHANGED <<tables, locals, err, mailing, history>>

Relookup(c) ==
  /\ pc[c] = "relookup"
  /\ Admit(c, input[c].email, "purge")
  /\ UNCHANGED <<tables, err, mailing, history>>

SubjectTaken(c) == \E e \in Emails : <<e, input[c].subject>> \in subjects

(* CreateNewUser meets the unique oidc_sub: a server error.                *)
InsertRefused(c) ==
  /\ pc[c] = "insert"
  /\ ~ Exists(input[c].email)
  /\ SubjectTaken(c)
  /\ Broken(c)
  /\ UNCHANGED <<tables, locals, mailing, history>>

NewUser == [active |-> FALSE, version |-> 1, phone |-> Nobody]

InsertUser(c, acked) ==
  LET e == input[c].email
  IN  /\ pc[c] = "insert"
      /\ ~ Exists(e)
      /\ ~ SubjectTaken(c)
      /\ users' = [users EXCEPT ![e] = NewUser]
      /\ subjects' = subjects \cup {<<e, input[c].subject>>}
      /\ Acked(c, acked, "issueLink")
      /\ UNCHANGED <<tokens, expired, locals, mailing, history>>

LinkScope == "activation"

(* Tokens.New with the scope activation, the welcome e-mail, 201.          *)
IssueLink(c, acked) ==
  LET e == input[c].email
  IN  /\ pc[c] = "issueLink"
      /\ tokens' = tokens \cup {[id |-> c, scope |-> LinkScope, owner |-> e]}
      /\ linked' = linked \cup {e}
      /\ IF acked THEN Answer(c, "signedUp") /\ UNCHANGED err ELSE Broken(c)
      /\ UNCHANGED <<users, subjects, expired, locals, mailing, overlapped>>

-----------------------------------------------------------------------------
(* activateUserHandler.                                                    *)

ReadLinkMissing(c) ==
  /\ pc[c] = "readLink"
  /\ Valid(input[c].token, "activation") = {}
  /\ Answer(c, "invalid")
  /\ UNCHANGED <<tables, locals, err, mailing, history>>

ReadLink(c) ==
  /\ pc[c] = "readLink"
  /\ \E t \in Valid(input[c].token, "activation") : See(c, t.owner)
  /\ Goto(c, "activate")
  /\ UNCHANGED <<tables, err, mailing, history>>

(* UPDATE users ... WHERE id AND version: the row as read but for one      *)
(* field; no row back is an edit conflict.                                 *)
VersionStale(c) == TRUE
VersionStill(c) == users[who[c]].version = seen[c].version

UpdateUser(c, active, phone) ==
  /\ VersionStill(c)
  /\ users' = [users EXCEPT ![who[c]] = [active |-> active, phone |-> phone,
                                       version |-> @.version + 1]]
  /\ UNCHANGED <<subjects, tokens, expired, locals, mailing, history>>

EditConflict(c) ==
  /\ pc[c] \in {"activate", "save"}
  /\ ~ VersionStill(c)
  /\ Answer(c, "conflict")
  /\ UNCHANGED <<tables, locals, err, mailing, history>>

ActiveAsRead(c) == seen[c].active
ActiveNow(c) == TRUE

Activate(c, acked) ==
  /\ pc[c] = "activate"
  /\ UpdateUser(c, ActiveNow(c), seen[c].phone)
  /\ Acked(c, acked, "dropLinks")

(* Delete the account's activation tokens, start the e-mail task.          *)
DropLinks(c, acked) ==
  /\ pc[c] = "dropLinks"
  /\ tokens' = tokens \ AllForUser(who[c], "activation")
  /\ mailing' = IF acked THEN mailing \cup {c} ELSE mailing
  /\ Acked(c, acked, "purge")
  /\ UNCHANGED <<users, subjects, expired, locals, history>>

(* Send returns: the task assigns its result to the handler's err.         *)
MailReturns(c, failed) ==
  /\ c \in mailing
  /\ mailing' = mailing \ {c}
  /\ err' = [err EXCEPT ![c] = failed]
  /\ UNCHANGED <<tables, locals, pc, answer, broken, history>>

(* "if err != nil" after the generation.  When the task has reset err      *)
(* although the generation failed (c is in broken then), the handler reads *)
(* a nil token and recoverPanic answers 500 all the same.                  *)
CheckErr(c) ==
  /\ pc[c] = "check"
  /\ Answer(c, IF err[c] \/ c \in broken THEN "failed" ELSE "loggedIn")
  /\ UNCHANGED <<tables, locals, err, mailing, history>>

-----------------------------------------------------------------------------
(* generateUserAuthenticationToken: delete the old tokens, store a new one.*)

BetweenPurgeAndIssue(e) == \E c \in Calls : pc[c] = "issue" /\ who[c] = e

Purge(c, acked) ==
  /\ pc[c] = "purge"
  /\ tokens' = tokens \ AllForUser(who[c], "authentication")
  /\ overlapped' = IF BetweenPurgeAndIssue(who[c])
                     THEN overlapped \cup {who[c]} ELSE overlapped
  /\ Acked(c, acked, "issue")
  /\ UNCHANGED <<users, subjects, expired, locals, mailing, linked>>

SessionScope == "authentication"

(* A login answers with the token; an activation still looks at err.       *)
Issue(c, acked) ==
  /\ pc[c] = "issue"
  /\ tokens' = tokens \cup {[id |-> c, scope |-> SessionScope, owner |-> who[c]]}
  /\ IF ~ acked THEN Broken(c)
     ELSE /\ err' = [err EXCEPT ![c] = FALSE]
          /\ IF Generating(c) THEN Goto(c, "check") ELSE Answer(c, "loggedIn")
  /\ UNCHANGED <<users, subjects, expired, locals, mailing, history>>

-----------------------------------------------------------------------------
(* Requests with a session token: authenticate and requireActivatedUser,   *)
(* then updateUserInfo or logoutUserHandler.                               *)

SessionStep(kind) == IF kind = "logout" THEN "logout" ELSE "read"

AuthenticateMissing(c) ==
  /\ pc[c] = "authenticate"
  /\ Valid(input[c].token, "authentication") = {}
  /\ Answer(c, "unauthorized")
  /\ UNCHANGED <<tables, locals, err, mailing, history>>

Authenticate(c) ==
  /\ pc[c] = "authenticate"
  /\ \E t \in Valid(input[c].token, "authentication") :
       Admit(c, t.owner, SessionStep(input[c].kind))
  /\ UNCHANGED <<tables, err, mailing, history>>

(* GetUserByID: the row the update starts from.                            *)
ReadUser(c) ==
  /\ pc[c] = "read"
  /\ See(c, who[c])
  /\ Goto(c, "save")
  /\ UNCHANGED <<tables, err, mailing, history>>

(* "phone" carries a phone number; "touch" has none and writes the row     *)
(* back as it was read.                                                    *)
SaveUser(c, acked) ==
  /\ pc[c] = "save"
  /\ UpdateUser(c, seen[c].active,
                IF input[c].kind = "phone" THEN c ELSE seen[c].phone)
  /\ IF acked THEN Answer(c, "updated") /\ UNCHANGED err ELSE Broken(c)

Logout(c, acked) ==
  /\ pc[c] = "logout"
  /\ tokens' = tokens \ AllForUser(who[c], "authentication")
  /\ IF acked THEN Answer(c, "loggedOut") /\ UNCHANGED err ELSE Broken(c)
  /\ UNCHANGED <<users, subjects, expired, locals, mailing, history>>

-----------------------------------------------------------------------------
(* A statement fails without effect.                                       *)
StatementFails(c) ==
  /\ pc[c] \notin {"new", "check", "done", "dead"}
  /\ Broken(c)
  /\ UNCHANGED <<tables, locals, mailing, history>>

(* The process serving c is killed, and with it its e-mail task.           *)
Crash(c) ==
  /\ pc[c] \notin {"new", "done", "dead"}
  /\ pc' = [pc EXCEPT ![c] = "dead"]
  /\ mailing' = mailing \ {c}
  /\ UNCHANGED <<tables, locals, err, answer, broken, history>>

(* The expiry of a stored token passes.                                    *)
Expire(id) ==
  /\ id \notin expired
  /\ \E t \in tokens : t.id = id
  /\ expired' = expired \cup {id}
  /\ UNCHANGED <<users, subjects, tokens, locals, pc, err, mailing, answer,
                 broken, history>>

(* Calls is finite: when each has ended nothing is left to do.             *)
AllEnded ==
  /\ \A c \in Calls : pc[c] \in {"done", "dead"}
  /\ UNCHANGED vars

SignUpOrLogin(c) ==
  \/ LookupKnown(c) \/ LookupUnknown(c) \/ InsertDuplicate(c) \/ Relookup(c)
  \/ InsertRefused(c)
  \/ \E acked \in BOOLEAN :
       InsertUser(c, acked) \/ IssueLink(c, acked) \/ Purge(c, acked) \/ Issue(c, acked)

Activation(c) ==
  \/ ReadLinkMissing(c) \/ ReadLink(c) \/ EditConflict(c) \/ CheckErr(c)
  \/ \E acked \in BOOLEAN : Activate(c, acked) \/ DropLinks(c, acked)

WithSession(c) ==
  \/ AuthenticateMissing(c) \/ Authenticate(c) \/ ReadUser(c)
  \/ \E acked \in BOOLEAN : SaveUser(c, acked) \/ Logout(c, acked)

Handle(c) == SignUpOrLogin(c) \/ Activation(c) \/ WithSession(c) \/ StatementFails(c)

Next ==
  \/ \E c \in Calls :
       \/ Receive(c) \/ Handle(c) \/ Crash(c)
       \/ \E failed \in BOOLEAN : MailReturns(c, failed)
  \/ \E id \in Ids : Expire(id)
  \/ AllEnded

Spec == Init /\ [][Next]_vars

-----------------------------------------------------------------------------
Of(e, scope) == {t \in tokens : t.owner = e /\ t.scope = scope}

(* A session belongs to an activated account, although the account was     *)
(* read some statements before the session was stored                      *)
(* (generateUserAuthenticationToken after GetByEmail or UpdateUser).       *)
SessionsAreOfActive ==
  \A t \in tokens : t.scope = "authentication" => users[t.owner].active

(* generateUserAuthenticationToken deletes before it inserts, so an        *)
(* account no two logins of which overlapped between the two statements    *)
(* has one session at most, whatever was lost or crashed.                  *)
OneSessionUnlessOverlap ==
  \A e \in Emails \ overlapped : \A s, t \in Of(e, "authentication") : s = t

(* Who signed up can activate: an account an activation token was ever    *)
(* stored for, the answer 201 lost or not, is active or has such a token   *)
(* still stored, and nobody is answered 201 without one.  The links are    *)
(* deleted by activateUserHandler only, in a statement after the update.   *)
(* (A link that was not used in time is stored still, and of no use.)      *)
SignedUpCanActivate ==
  /\ \A c \in Calls : answer[c] = "signedUp" => input[c].email \in linked
  /\ \A e \in linked : users[e].active \/ Of(e, "activation") # {}

(* A phone number whose update was answered 200 is never lost to another   *)
(* request that writes back the row it read before (UpdateUser's version). *)
PhoneNotForgotten ==
  \A c \in Calls :
    answer[c] = "updated" /\ input[c].kind = "phone"
      => users[who[c]].phone # Nobody

(* After a logout was answered the presented token is gone and stays so,   *)
(* whichever logins of the account race it (logoutUserHandler).            *)
LogoutIsFinal ==
  \A c \in Calls :
    answer[c] = "loggedOut" => \A t \in tokens : t.id # input[c].token

-----------------------------------------------------------------------------
(* A promise the code does not keep (see README, findings).                *)

(* "Error generating authentication token for activated user": an          *)
(* activation fails for an error of one of its statements only.            *)
ActivationFailureIsReal ==
  \A c \in Calls :
    input[c].kind = "activate" /\ answer[c] = "failed" => c \in broken
=============================================================================
