--------------------------- MODULE AccountsProofs ---------------------------
(***************************************************************************)
(* Theorems about Accounts for any number of calls, e-mails, subjects and  *)
(* earlier accounts.  The inductive invariant has six parts: the types,    *)
(* what is known of an account at each phase of a call (CallInv), what a   *)
(* stored token says of its owner and its issuer (TokenInv), why no new    *)
(* session can follow a logged-out one (LogoutInv), the single session of  *)
(* an account without overlap (SessionInv), and the promises themselves.   *)
(***************************************************************************)
EXTENDS Accounts, TLAPS

SignUpPhases == {"lookup", "insert", "relookup", "issueLink"}
LinkPhases   == {"readLink", "activate", "dropLinks", "check"}
UserPhases   == {"authenticate", "read", "save"}
Ended        == {"check", "done", "dead"}

(* Each phase belongs to a kind of request.                                *)
KindOK(c) ==
  /\ pc[c] \in SignUpPhases => input[c].kind = "callback"
  /\ pc[c] \in LinkPhases => input[c].kind = "activate"
  /\ pc[c] \in UserPhases => input[c].kind \in {"phone", "touch", "logout"}
  /\ pc[c] = "logout" => input[c].kind = "logout"
  /\ answer[c] # "none" => pc[c] = "done"
  /\ answer[c] = "signedUp" => input[c].kind = "callback"
  /\ answer[c] = "loggedOut" => input[c].kind = "logout"
  /\ answer[c] = "updated" => who[c] \in Emails

(* What a call has read holds of the account until it writes, or else the  *)
(* version has moved on.                                                   *)
CallOK(c) ==
  /\ pc[c] \in {"relookup", "issueLink"} => Exists(input[c].email)
  /\ pc[c] \in {"activate", "save"} =>
       /\ who[c] \in Emails
       /\ 0 < seen[c].version
       /\ seen[c].version <= users[who[c]].version
       /\ VersionStill(c) => seen[c] = users[who[c]]
  /\ pc[c] \in {"dropLinks", "purge", "issue", "read", "save", "logout"} =>
       who[c] \in Emails /\ users[who[c]].active
  /\ pc[c] = "save" => seen[c].active

CallInv == \A c \in Calls : KindOK(c) /\ CallOK(c)

TokenOK(t) ==
  /\ Exists(t.owner)
  /\ t.scope = "authentication" => users[t.owner].active
  /\ t.id \in Calls => pc[t.id] \in Ended

TokenInv ==
  /\ \A e \in Emails : ~ Exists(e) => users[e] = NoRow
  /\ \A t \in tokens : TokenOK(t)
  /\ \A s, t \in tokens : s.id = t.id => s = t

(* The call that issued the presented session has ended, so the token      *)
(* cannot come back once it is deleted.                                    *)
LogoutOK(c) ==
  /\ pc[c] = "logout" \/ answer[c] = "loggedOut"
       => (input[c].token \in Calls => pc[input[c].token] \in Ended)
  /\ pc[c] = "logout" =>
       \A t \in tokens : t.id = input[c].token
                           => t.owner = who[c] /\ t.scope = "authentication"

LogoutInv == \A c \in Calls : LogoutOK(c)

AtIssue(c, e) == pc[c] = "issue" /\ who[c] = e

SessionInv ==
  \A e \in Emails \ overlapped :
    /\ \A c, d \in Calls : AtIssue(c, e) /\ AtIssue(d, e) => c = d
    /\ \A c \in Calls : AtIssue(c, e) => Of(e, "authentication") = {}
    /\ \A s, t \in Of(e, "authentication") : s = t

Promises ==
  SignedUpCanActivate /\ PhoneNotForgotten /\ LogoutIsFinal

IInv == TypeOK /\ CallInv /\ TokenInv /\ LogoutInv /\ SessionInv /\ Promises

-----------------------------------------------------------------------------
(* The shape of a step: it is a step of one call c, which touches no other *)
(* call, moves c to one of L and may answer one of A.                      *)

Moves(c, L, A) ==
  /\ \E l \in L : pc' = [pc EXCEPT ![c] = l]
  /\ \/ answer' = answer
     \/ \E a \in A : /\ answer' = [answer EXCEPT ![c] = a]
                     /\ pc' = [pc EXCEPT ![c] = "done"]
  /\ broken' \in {broken, broken \cup {c}}
  /\ err' \in {err, [err EXCEPT ![c] = TRUE], [err EXCEPT ![c] = FALSE]}

(* A row of users changes only with a new version and keeps what it has    *)
(* won: being active, having a phone number.                               *)
UsersGrow ==
  \A e \in Emails :
    \/ users'[e] = users[e]
    \/ /\ users'[e].version > users[e].version
       /\ users[e].active => users'[e].active
       /\ users[e].phone # Nobody => users'[e].phone # Nobody

CallAt(c) == KindOK(c) /\ CallOK(c) /\ LogoutOK(c)

LEMMA InputKinds ==
  ASSUME NEW c \in Calls, TypeOK
  PROVE  /\ input[c].kind = "callback" =>
              input[c].email \in Emails /\ input[c].subject \in Subjects
         /\ input[c].kind # "callback" => input[c].token \in Ids
BY InputsAssumption DEF TypeOK, CallbackInput, TokenInput

LEMMA BrokenMoves ==
  ASSUME NEW c, Broken(c)
  PROVE  IF Generating(c) THEN Moves(c, {"check"}, {})
                          ELSE Moves(c, {"done"}, {"failed", "unauthorized"})
<1>1. CASE Generating(c)
  BY <1>1 DEF Broken, Moves
<1>2. CASE ~ Generating(c)
  BY <1>2 DEF Broken, Moves, StatementErrorAnswer
<1>. QED
  BY <1>1, <1>2

LEMMA MovesTypes ==
  ASSUME TypeOK, NEW c \in Calls, NEW L \in SUBSET Phases, NEW A \in SUBSET Answers,
         Moves(c, L, A)
  PROVE  /\ pc' \in [Calls -> Phases]
         /\ answer' \in [Calls -> Answers]
         /\ broken' \subseteq Calls
         /\ err' \in [Calls -> BOOLEAN]
         /\ \E l \in L : pc'[c] = l
         /\ answer'[c] \in A \cup {answer[c]}
         /\ answer'[c] # answer[c] => pc'[c] = "done"
         /\ \A d \in Calls \ {c} : pc'[d] = pc[d] /\ answer'[d] = answer[d]
<1>1. PICK l \in L : pc' = [pc EXCEPT ![c] = l]
  BY DEF Moves
<1>2. /\ pc' \in [Calls -> Phases]
      /\ pc'[c] = l
      /\ \A d \in Calls \ {c} : pc'[d] = pc[d]
  BY <1>1 DEF TypeOK
<1>3. /\ broken' \subseteq Calls
      /\ err' \in [Calls -> BOOLEAN]
  BY DEF Moves, TypeOK
<1>4. CASE answer' = answer
  BY <1>2, <1>3, <1>4 DEF TypeOK
<1>5. CASE \E a \in A : /\ answer' = [answer EXCEPT ![c] = a]
                        /\ pc' = [pc EXCEPT ![c] = "done"]
  <2>1. PICK a \in A : /\ answer' = [answer EXCEPT ![c] = a]
                       /\ pc' = [pc EXCEPT ![c] = "done"]
    BY <1>5
  <2>2. pc'[c] = "done"
    BY <2>1 DEF TypeOK
  <2>. QED
    BY <1>2, <1>3, <2>1, <2>2 DEF TypeOK
<1>. QED
  BY <1>4, <1>5 DEF Moves

-----------------------------------------------------------------------------
(* The frames: what a step of c leaves true of everybody else.             *)

Step(c) ==
  /\ TypeOK'
  /\ UNCHANGED input
  /\ \A d \in Calls \ {c} :
       pc'[d] = pc[d] /\ who'[d] = who[d] /\ seen'[d] = seen[d] /\ answer'[d] = answer[d]
  /\ pc[c] \notin {"done", "dead"}
  /\ pc[c] = "check" => pc'[c] \in Ended

LEMMA CallFrame ==
  ASSUME IInv, NEW c \in Calls, Step(c), UsersGrow, KindOK(c)', CallOK(c)'
  PROVE  CallInv'
<1> SUFFICES ASSUME NEW d \in Calls, d # c PROVE KindOK(d)' /\ CallOK(d)'
  BY DEF CallInv
<1>1. KindOK(d) /\ CallOK(d) /\ TypeOK /\ TypeOK'
  BY DEF IInv, CallInv, Step
<1>2. UNCHANGED <<pc[d], who[d], seen[d], answer[d], input>>
  BY DEF Step
<1>3. KindOK(d)'
  BY <1>1, <1>2 DEF KindOK
<1>4. (pc[d] \in {"relookup", "issueLink"} => Exists(input[d].email))'
  <2> SUFFICES ASSUME pc[d] \in {"relookup", "issueLink"}
               PROVE  Exists(input[d].email)'
    BY <1>2
  <2>1. input[d].email \in Emails /\ Exists(input[d].email)
    BY <1>1, InputKinds DEF KindOK, CallOK, SignUpPhases
  <2>2. PICK e \in Emails : e = input[d].email
    BY <2>1
  <2>3. users[e] \in Row /\ users'[e] \in Row
    BY <1>1 DEF TypeOK
  <2>. QED
    BY <1>2, <2>1, <2>2, <2>3 DEF Exists, UsersGrow, Row
<1>5. CASE who[d] \in Emails
  <2>1. PICK e \in Emails : e = who[d]
    BY <1>5
  <2>2. users[e] \in Row /\ users'[e] \in Row /\ seen[d] \in Row
    BY <1>1 DEF TypeOK
  <2>3. CASE users'[e] = users[e]
    <3>1. CallOK(d)'
      BY <1>1, <1>2, <1>4, <2>1, <2>3 DEF CallOK, VersionStill
    <3>. QED
      BY <1>3, <3>1
  <2>4. CASE /\ users'[e].version > users[e].version
             /\ users[e].active => users'[e].active
    <3>1. users[e].version \in Nat /\ users'[e].version \in Nat /\ seen[d].version \in Nat
      BY <2>2 DEF Row
    <3>2. pc[d] \in {"activate", "save"} =>
            /\ seen[d].version <= users'[e].version
            /\ seen[d].version # users'[e].version
            /\ 0 < seen[d].version
      BY <1>1, <2>1, <2>4, <3>1 DEF CallOK
    <3>3. pc[d] \in {"dropLinks", "purge", "issue", "read", "save", "logout"} =>
            users'[e].active
      BY <1>1, <2>1, <2>4 DEF CallOK
    <3>4. pc[d] = "save" => seen[d].active
      BY <1>1 DEF CallOK
    <3>. QED
      BY <1>2, <1>3, <1>4, <1>5, <2>1, <3>2, <3>3, <3>4 DEF CallOK, VersionStill
  <2>. QED
    BY <1>3, <2>3, <2>4 DEF UsersGrow
<1>6. CASE who[d] \notin Emails
  BY <1>1, <1>2, <1>3, <1>4, <1>6 DEF CallOK
<1>. QED
  BY <1>5, <1>6

LEMMA EndedStay ==
  ASSUME IInv, NEW c \in Calls, Step(c), NEW d \in Calls, pc[d] \in Ended
  PROVE  pc'[d] \in Ended
BY DEF Step, Ended

(* One stored token, kept by a step that lets rows grow only.              *)
LEMMA TokenKept ==
  ASSUME IInv, NEW c \in Calls, Step(c), UsersGrow, NEW t \in tokens
  PROVE  TokenOK(t)'
<1>1. t \in Token /\ TypeOK /\ TypeOK' /\ TokenOK(t)
  BY DEF IInv, TypeOK, TokenInv, Step
<1>2. t.owner \in Emails
  BY <1>1 DEF Token
<1>3. users[t.owner] \in Row /\ users'[t.owner] \in Row
  BY <1>1, <1>2 DEF TypeOK
<1>4. Exists(t.owner)' /\ (t.scope = "authentication" => users'[t.owner].active)
  BY <1>1, <1>2, <1>3 DEF UsersGrow, Row, TokenOK, Exists
<1>5. t.id \in Calls => pc'[t.id] \in Ended
  BY <1>1, EndedStay DEF TokenOK
<1>. QED
  BY <1>4, <1>5 DEF TokenOK

LEMMA NoRowKept ==
  ASSUME IInv, TypeOK', UsersGrow
  PROVE  \A e \in Emails : ~ Exists(e)' => users'[e] = NoRow
<1> TAKE e \in Emails
<1>1. users[e] \in Row /\ users'[e] \in Row
  BY DEF IInv, TypeOK
<1>2. ~ Exists(e) => users[e] = NoRow
  BY DEF IInv, TokenInv
<1>. QED
  BY <1>1, <1>2 DEF UsersGrow, Exists, Row

LEMMA TokenFrame ==
  ASSUME IInv, NEW c \in Calls, Step(c), UsersGrow, tokens' \subseteq tokens
  PROVE  TokenInv'
<1>1. \A t \in tokens' : TokenOK(t)'
  BY TokenKept
<1>2. \A s, t \in tokens' : s.id = t.id => s = t
  BY DEF IInv, TokenInv
<1>. QED
  BY <1>1, <1>2, NoRowKept DEF TokenInv, Step

LEMMA LogoutFrame ==
  ASSUME IInv, NEW c \in Calls, Step(c), tokens' \subseteq tokens, LogoutOK(c)'
  PROVE  LogoutInv'
<1> SUFFICES ASSUME NEW d \in Calls, d # c PROVE LogoutOK(d)'
  BY DEF LogoutInv
<1>1. LogoutOK(d)
  BY DEF IInv, LogoutInv
<1>2. UNCHANGED <<pc[d], who[d], answer[d], input>>
  BY DEF Step
<1>. QED
  BY <1>1, <1>2, EndedStay DEF LogoutOK

LEMMA SessionFrame ==
  ASSUME IInv, NEW c \in Calls, Step(c), tokens' \subseteq tokens,
         UNCHANGED overlapped, pc'[c] # "issue"
  PROVE  SessionInv'
<1> SUFFICES ASSUME NEW e \in Emails \ overlapped
             PROVE  /\ \A d, f \in Calls : AtIssue(d, e)' /\ AtIssue(f, e)' => d = f
                    /\ \A d \in Calls : AtIssue(d, e)' => Of(e, "authentication")' = {}
                    /\ \A s, t \in Of(e, "authentication")' : s = t
  BY DEF SessionInv
<1>1. \A d \in Calls : AtIssue(d, e)' => AtIssue(d, e)
  BY DEF AtIssue, Step
<1>2. Of(e, "authentication")' \subseteq Of(e, "authentication")
  BY DEF Of
<1>. QED
  BY <1>1, <1>2 DEF IInv, SessionInv

LEMMA PromisesFrame ==
  ASSUME IInv, NEW c \in Calls, Step(c), UsersGrow,
         tokens' \subseteq tokens, UNCHANGED linked,
         \A t \in tokens : t.scope = "activation" /\ ~ users'[t.owner].active
                             => t \in tokens',
         answer'[c] # "signedUp",
         answer'[c] = "updated" /\ input[c].kind = "phone"
           => users'[who'[c]].phone # Nobody,
         answer'[c] = "loggedOut" => \A t \in tokens' : t.id # input[c].token
  PROVE  Promises'
<1>1. \A d \in Calls \ {c} : UNCHANGED <<answer[d], who[d]>>
  BY DEF Step
<1>2. TypeOK /\ TypeOK' /\ UNCHANGED input
  BY DEF IInv, Step
<1>3. SignedUpCanActivate'
  <2>1. \A d \in Calls : answer'[d] = "signedUp" => input[d].email \in linked
    BY <1>1 DEF IInv, Promises, SignedUpCanActivate
  <2>2. ASSUME NEW e \in linked, ~ users'[e].active
        PROVE  Of(e, "activation")' # {}
    <3>1. e \in Emails
      BY <1>2 DEF TypeOK
    <3>2. ~ users[e].active
      BY <1>2, <2>2, <3>1 DEF UsersGrow, TypeOK, Row
    <3>3. PICK t \in tokens : t.owner = e /\ t.scope = "activation"
      BY <3>2 DEF IInv, Promises, SignedUpCanActivate, Of
    <3>. QED
      BY <2>2, <3>3 DEF Of
  <2>. QED
    BY <1>2, <2>1, <2>2 DEF SignedUpCanActivate
<1>4. PhoneNotForgotten'
  <2> SUFFICES ASSUME NEW d \in Calls, answer'[d] = "updated",
                      input[d].kind = "phone", d # c
               PROVE  users'[who'[d]].phone # Nobody
    BY <1>2 DEF PhoneNotForgotten
  <2>1. answer[d] = "updated" /\ who'[d] = who[d]
    BY <1>1
  <2>2. who[d] \in Emails /\ users[who[d]].phone # Nobody
    BY <2>1 DEF IInv, CallInv, KindOK, Promises, PhoneNotForgotten
  <2>. QED
    BY <2>1, <2>2 DEF UsersGrow
<1>5. LogoutIsFinal'
  BY <1>1, <1>2 DEF LogoutIsFinal, IInv, Promises
<1>. QED
  BY <1>3, <1>4, <1>5 DEF Promises

LEMMA UsersStay ==
  ASSUME UNCHANGED users
  PROVE  UsersGrow
BY DEF UsersGrow

(* A step that stores no token and reaches no insertion of one.            *)
LEMMA ShrinkStep ==
  ASSUME IInv, NEW c \in Calls, Step(c), UsersGrow, tokens' \subseteq tokens,
         UNCHANGED history,
         \A t \in tokens : t.scope = "activation" /\ ~ users'[t.owner].active
                             => t \in tokens',
         KindOK(c)', CallOK(c)', LogoutOK(c)', pc'[c] # "issue",
         answer'[c] # "signedUp",
         answer'[c] = "updated" /\ input[c].kind = "phone"
           => users'[who'[c]].phone # Nobody,
         answer'[c] = "loggedOut" => \A t \in tokens' : t.id # input[c].token
  PROVE  IInv'
<1>1. CallInv' /\ TokenInv'
  BY CallFrame, TokenFrame
<1>2. LogoutInv' /\ SessionInv'
  BY LogoutFrame, SessionFrame DEF history
<1>3. Promises'
  BY PromisesFrame DEF history
<1>. QED
  BY <1>1, <1>2, <1>3 DEF IInv, Step

(* A step that changes no table.                                           *)
LEMMA QuietStep ==
  ASSUME IInv, NEW c \in Calls, Step(c), UNCHANGED <<users, tokens, history>>,
         KindOK(c)', CallOK(c)', LogoutOK(c)', pc'[c] # "issue",
         answer'[c] \notin {"signedUp", "updated", "loggedOut"}
  PROVE  IInv'
BY UsersStay, ShrinkStep

QuietPhases == {"lookup", "readLink", "authenticate", "insert", "relookup",
                "check", "done", "dead"}
QuietAnswers == {"unauthorized", "inactive", "loggedIn", "invalid", "conflict", "failed"}

(* ... nor anything the call has read.                                     *)
LEMMA QuietMove ==
  ASSUME IInv, NEW c \in Calls, UNCHANGED <<tables, locals, history>>,
         mailing' \subseteq mailing, pc[c] \notin {"done", "dead"},
         NEW L \in SUBSET QuietPhases, NEW A \in SUBSET QuietAnswers, Moves(c, L, A),
         pc[c] = "check" => L \subseteq Ended,
         "relookup" \in L => Exists(input[c].email),
         KindOK(c)'
  PROVE  IInv'
<1>1. TypeOK /\ KindOK(c)
  BY DEF IInv, CallInv
<1>2. /\ L \in SUBSET Phases
      /\ A \in SUBSET Answers
  BY DEF QuietPhases, QuietAnswers, Phases, Answers
<1>3. /\ pc' \in [Calls -> Phases]
      /\ answer' \in [Calls -> Answers]
      /\ broken' \subseteq Calls
      /\ err' \in [Calls -> BOOLEAN]
      /\ pc'[c] \in L
      /\ answer'[c] \in A \cup {answer[c]}
      /\ \A d \in Calls \ {c} : pc'[d] = pc[d] /\ answer'[d] = answer[d]
  BY <1>1, <1>2, MovesTypes
<1>4. TypeOK'
  BY <1>1, <1>3 DEF TypeOK, tables, locals, history
<1>5. Step(c)
  BY <1>3, <1>4 DEF Step, locals
<1>6. answer[c] = "none"
  BY <1>1 DEF KindOK
<1>7. CallOK(c)' /\ LogoutOK(c)' /\ pc'[c] # "issue"
      /\ answer'[c] \notin {"signedUp", "updated", "loggedOut"}
  <2>1. (pc[c] \in {"relookup", "issueLink"} => Exists(input[c].email))'
    BY <1>3 DEF Exists, QuietPhases, tables, locals
  <2>. QED
    BY <1>3, <1>6, <2>1 DEF CallOK, LogoutOK, QuietPhases, QuietAnswers
<1>. QED
  BY <1>5, <1>7, QuietStep DEF tables, history

-----------------------------------------------------------------------------
(* One lemma per step that leaves the tables alone.                        *)

LEMMA KindStays ==
  ASSUME IInv, NEW c \in Calls
  PROVE  TypeOK /\ KindOK(c) /\ CallOK(c) /\ LogoutOK(c)
BY DEF IInv, CallInv, LogoutInv

LEMMA ReceiveStep ==
  ASSUME IInv, NEW c \in Calls, Receive(c)
  PROVE  IInv'
<1>1. PICK l \in {"lookup", "readLink", "authenticate"} :
        /\ pc' = [pc EXCEPT ![c] = l]
        /\ l = FirstStep(input[c].kind)
  BY DEF Receive, Goto, FirstStep
<1>2. input[c].kind \in {"callback", "activate", "phone", "touch", "logout"}
  BY InputsAssumption, KindStays DEF TypeOK, CallbackInput, TokenInput
<1>3. Moves(c, {l}, {})
  BY <1>1 DEF Receive, Goto, Moves
<1>4. pc'[c] = l
  BY <1>1, KindStays DEF TypeOK
<1>5. answer'[c] = "none" /\ input' = input
  BY KindStays DEF Receive, Goto, KindOK, locals
<1>6. KindOK(c)'
  BY <1>1, <1>2, <1>4, <1>5 DEF KindOK, SignUpPhases, LinkPhases, UserPhases, FirstStep
<1>. QED
  BY <1>3, <1>6, QuietMove DEF Receive, QuietPhases

(* Answering, or going to an uneventful phase of the same kind.            *)
LEMMA QuietEnd ==
  ASSUME IInv, NEW c \in Calls, UNCHANGED <<tables, locals, history>>,
         mailing' \subseteq mailing, pc[c] \notin {"done", "dead"},
         NEW A \in SUBSET QuietAnswers, NEW l \in {"done", "dead"}, Moves(c, {l}, A)
  PROVE  IInv'
<1>1. pc'[c] = l /\ answer'[c] \in A \cup {answer[c]} /\ answer[c] = "none"
      /\ (answer'[c] # answer[c] => pc'[c] = "done")
  BY KindStays, MovesTypes DEF KindOK, Phases, Answers, QuietAnswers
<1>2. KindOK(c)'
  BY <1>1 DEF KindOK, SignUpPhases, LinkPhases, UserPhases, QuietAnswers
<1>. QED
  BY <1>2, QuietMove DEF QuietPhases, Ended

LEMMA AnswerStep ==
  ASSUME IInv, NEW c \in Calls, UNCHANGED <<tables, locals, history, err, mailing>>,
         pc[c] \notin {"done", "dead"}, NEW a \in QuietAnswers, Answer(c, a)
  PROVE  IInv'
<1>1. Moves(c, {"done"}, {a})
  BY DEF Answer, Moves
<1>. QED
  BY <1>1, QuietEnd

LEMMA BrokenStep ==
  ASSUME IInv, NEW c \in Calls, UNCHANGED <<tables, locals, history>>,
         mailing' \subseteq mailing, pc[c] \notin {"check", "done", "dead"}, Broken(c)
  PROVE  IInv'
<1>1. CASE Generating(c)
  <2>1. Moves(c, {"check"}, {})
    BY <1>1, BrokenMoves
  <2>2. pc'[c] = "check" /\ answer'[c] = answer[c] /\ answer[c] = "none"
    BY <2>1, KindStays, MovesTypes DEF KindOK, Phases, Answers
  <2>3. KindOK(c)'
    BY <1>1, <2>2 DEF KindOK, SignUpPhases, LinkPhases, UserPhases, Generating, locals
  <2>. QED
    BY <2>1, <2>3, QuietMove DEF QuietPhases
<1>2. CASE ~ Generating(c)
  <2>1. Moves(c, {"done"}, {"failed", "unauthorized"})
    BY <1>2, BrokenMoves
  <2>. QED
    BY <2>1, QuietEnd DEF QuietAnswers
<1>. QED
  BY <1>1, <1>2

LEMMA GotoStep ==
  ASSUME IInv, NEW c \in Calls, UNCHANGED <<tables, locals, history, err, mailing>>,
         pc[c] \in SignUpPhases, NEW l \in {"insert", "relookup"}, Goto(c, l),
         l = "relookup" => Exists(input[c].email)
  PROVE  IInv'
<1>1. Moves(c, {l}, {})
  BY DEF Goto, Moves
<1>2. pc'[c] = l /\ answer'[c] = "none" /\ input[c].kind = "callback"
  BY KindStays DEF Goto, TypeOK, KindOK, SignUpPhases
<1>3. KindOK(c)'
  BY <1>2 DEF KindOK, SignUpPhases, LinkPhases, UserPhases, locals
<1>. QED
  BY <1>1, <1>3, QuietMove DEF QuietPhases, SignUpPhases

SeePhases == {"purge", "read", "logout", "activate", "save", "done"}

(* Reading the row of an account.                                          *)
LEMMA SeeStep ==
  ASSUME IInv, NEW c \in Calls, NEW e \in Emails, Exists(e), See(c, e),
         UNCHANGED <<tables, mailing, history>>,
         pc[c] \notin {"check", "done", "dead"},
         NEW l \in SeePhases, NEW A \in SUBSET QuietAnswers, Moves(c, {l}, A),
         l \notin {"activate", "done"} => users[e].active,
         KindOK(c)', LogoutOK(c)'
  PROVE  IInv'
<1>1. TypeOK /\ KindOK(c) /\ answer[c] = "none"
  BY KindStays DEF KindOK
<1>2. {l} \in SUBSET Phases /\ A \in SUBSET Answers
  BY DEF SeePhases, QuietAnswers, Phases, Answers
<1>3. /\ pc' \in [Calls -> Phases]
      /\ answer' \in [Calls -> Answers]
      /\ broken' \subseteq Calls
      /\ err' \in [Calls -> BOOLEAN]
      /\ pc'[c] = l
      /\ answer'[c] \in A \cup {answer[c]}
      /\ \A d \in Calls \ {c} : pc'[d] = pc[d] /\ answer'[d] = answer[d]
  BY <1>1, <1>2, MovesTypes
<1>4. /\ who' \in [Calls -> Emails \cup {Nobody}]
      /\ seen' \in [Calls -> Row]
      /\ who'[c] = e /\ seen'[c] = users[e]
      /\ \A d \in Calls \ {c} : who'[d] = who[d] /\ seen'[d] = seen[d]
      /\ input' = input
  BY <1>1 DEF See, TypeOK
<1>5. TypeOK'
  BY <1>1, <1>3, <1>4 DEF TypeOK, tables, history
<1>6. Step(c)
  BY <1>3, <1>4, <1>5 DEF Step
<1>7. CallOK(c)'
  <2>1. users' = users /\ users[e].version \in Nat /\ users[e].version > 0
    BY <1>1 DEF tables, TypeOK, Row, Exists
  <2>. QED
    BY <1>3, <1>4, <2>1 DEF CallOK, VersionStill, SeePhases
<1>8. pc'[c] # "issue" /\ answer'[c] \notin {"signedUp", "updated", "loggedOut"}
  BY <1>1, <1>3 DEF SeePhases, QuietAnswers
<1>. QED
  BY <1>6, <1>7, <1>8, QuietStep DEF tables, history

(* Admit: on for an active account, otherwise an answer.                   *)
LEMMA AdmitStep ==
  ASSUME IInv, NEW c \in Calls, NEW e \in Emails, Exists(e),
         NEW l \in {"purge", "read", "logout"}, Admit(c, e, l),
         UNCHANGED <<tables, err, mailing, history>>,
         pc[c] \notin {"check", "done", "dead"},
         l # "purge" => input[c].kind \in {"phone", "touch", "logout"},
         l = "logout" => /\ input[c].kind = "logout"
                         /\ input[c].token \in Calls => pc[input[c].token] \in Ended
                         /\ \A t \in tokens : t.id = input[c].token =>
                              t.owner = e /\ t.scope = "authentication"
  PROVE  IInv'
<1>1. TypeOK /\ KindOK(c) /\ answer[c] = "none"
  BY KindStays DEF KindOK
<1>2. See(c, e) /\ input' = input /\ who'[c] = e
  BY <1>1 DEF Admit, See, TypeOK
<1>3. CASE users[e].active
  <2>1. Goto(c, l)
    BY <1>3 DEF Admit
  <2>2. Moves(c, {l}, {})
    BY <2>1 DEF Goto, Moves
  <2>3. pc'[c] = l /\ answer'[c] = "none"
    BY <1>1, <2>1 DEF Goto, TypeOK
  <2>4. KindOK(c)'
    BY <1>2, <2>3 DEF KindOK, SignUpPhases, LinkPhases, UserPhases
  <2>5. LogoutOK(c)'
    <3> SUFFICES ASSUME l = "logout" PROVE LogoutOK(c)'
      BY <2>3 DEF LogoutOK
    <3>1. input[c].token \in Calls /\ input[c].token # c =>
            pc'[input[c].token] \in Ended
      BY <2>1 DEF Goto, Ended, TypeOK
    <3>2. input[c].token # c
      BY DEF Ended, TypeOK
    <3>. QED
      BY <1>2, <2>3, <3>1, <3>2 DEF LogoutOK, tables
  <2>6. l \in SeePhases /\ {} \in SUBSET QuietAnswers
    BY DEF SeePhases
  <2>. QED
    BY <1>2, <1>3, <2>2, <2>4, <2>5, <2>6, SeeStep
<1>4. CASE ~ users[e].active
  <2>1. Answer(c, "inactive")
    BY <1>4 DEF Admit
  <2>2. Moves(c, {"done"}, {"inactive"})
    BY <2>1 DEF Answer, Moves
  <2>3. pc'[c] = "done" /\ answer'[c] = "inactive"
    BY <1>1, <2>1 DEF Answer, TypeOK
  <2>4. KindOK(c)' /\ LogoutOK(c)'
    BY <2>3 DEF KindOK, LogoutOK, SignUpPhases, LinkPhases, UserPhases
  <2>. QED
    BY <1>2, <2>2, <2>4, SeeStep DEF SeePhases, QuietAnswers
<1>. QED
  BY <1>3, <1>4

-----------------------------------------------------------------------------
(* The steps that change a table.  Each starts from what Acked or Answer   *)
(* does to the call's place.                                               *)

LEMMA AckedMoves ==
  ASSUME NEW c \in Calls, NEW acked \in BOOLEAN, NEW l, Acked(c, acked, l)
  PROVE  \/ Moves(c, {l}, {})
         \/ Moves(c, {"done"}, {"failed", "unauthorized"})
         \/ Moves(c, {"check"}, {}) /\ Generating(c)
<1>1. CASE acked
  BY <1>1 DEF Acked, Goto, Moves
<1>2. CASE ~ acked
  BY <1>2, BrokenMoves DEF Acked
<1>. QED
  BY <1>1, <1>2

LEMMA AnsweredMoves ==
  ASSUME NEW c \in Calls, NEW acked \in BOOLEAN, NEW a,
         IF acked THEN Answer(c, a) /\ UNCHANGED err ELSE Broken(c),
         ~ Generating(c)
  PROVE  Moves(c, {"done"}, {a, "failed", "unauthorized"})
<1>1. CASE acked
  BY <1>1 DEF Answer, Moves
<1>2. CASE ~ acked
  <2>1. Moves(c, {"done"}, {"failed", "unauthorized"})
    BY <1>2, BrokenMoves
  <2>. QED
    BY <2>1 DEF Moves
<1>. QED
  BY <1>1, <1>2

(* What such a move tells of the state after it.                           *)
LEMMA AfterMove ==
  ASSUME IInv, NEW c \in Calls, pc[c] \notin {"check", "done", "dead"}, UNCHANGED locals,
         NEW L \in SUBSET Phases, NEW A \in SUBSET Answers, Moves(c, L, A),
         mailing' \subseteq Calls,
         users' \in [Emails -> Row], subjects' \subseteq Emails \X Subjects,
         tokens' \subseteq Token, expired' \subseteq Ids,
         linked' \subseteq Emails, overlapped' \subseteq Emails
  PROVE  /\ Step(c)
         /\ pc'[c] \in L
         /\ answer'[c] \in A \cup {"none"}
         /\ answer'[c] # "none" => pc'[c] = "done"
         /\ input' = input /\ who' = who /\ seen' = seen
<1>1. TypeOK /\ KindOK(c) /\ answer[c] = "none"
  BY KindStays DEF KindOK
<1>2. /\ pc' \in [Calls -> Phases]
      /\ answer' \in [Calls -> Answers]
      /\ broken' \subseteq Calls
      /\ err' \in [Calls -> BOOLEAN]
      /\ pc'[c] \in L
      /\ answer'[c] \in A \cup {answer[c]}
      /\ answer'[c] # answer[c] => pc'[c] = "done"
      /\ \A d \in Calls \ {c} : pc'[d] = pc[d] /\ answer'[d] = answer[d]
  BY <1>1, MovesTypes
<1>3. TypeOK'
  BY <1>1, <1>2 DEF TypeOK, locals
<1>. QED
  BY <1>1, <1>2, <1>3 DEF Step, locals

LEMMA InsertUserStep ==
  ASSUME IInv, NEW c \in Calls, NEW acked \in BOOLEAN, InsertUser(c, acked)
  PROVE  IInv'
<1> DEFINE e == input[c].email
<1>1. TypeOK /\ pc[c] = "insert" /\ input[c].kind = "callback" /\ ~ Generating(c)
  BY KindStays DEF InsertUser, KindOK, SignUpPhases, Generating
<1>2. e \in Emails /\ input[c].subject \in Subjects /\ users[e] = NoRow
  BY <1>1, InputKinds DEF InsertUser, IInv, TokenInv
<1>3. /\ users' = [users EXCEPT ![e] = NewUser]
      /\ subjects' = subjects \cup {<<e, input[c].subject>>}
      /\ UNCHANGED <<tokens, expired, locals, mailing, history>>
  BY DEF InsertUser
<1>4. users' \in [Emails -> Row] /\ users'[e] = NewUser
      /\ \A f \in Emails \ {e} : users'[f] = users[f]
  BY <1>1, <1>2, <1>3 DEF TypeOK, NewUser, Row, Phones
<1>5. UsersGrow
  BY <1>2, <1>4 DEF UsersGrow, NoRow, NewUser
<1>6. PICK l \in {"issueLink", "done"} :
        Moves(c, {l}, {"failed", "unauthorized"})
  <2>1. Moves(c, {"issueLink"}, {}) \/ Moves(c, {"done"}, {"failed", "unauthorized"})
    BY <1>1, AckedMoves DEF InsertUser
  <2>2. Moves(c, {"issueLink"}, {}) => Moves(c, {"issueLink"}, {"failed", "unauthorized"})
    BY DEF Moves
  <2>. QED
    BY <2>1, <2>2
<1>7. /\ Step(c) /\ pc'[c] = l /\ answer'[c] \in {"none", "failed", "unauthorized"}
      /\ answer'[c] # "none" => pc'[c] = "done"
      /\ input' = input
  <2>1. {l} \in SUBSET Phases /\ {"failed", "unauthorized"} \in SUBSET Answers
    BY DEF Phases, Answers
  <2>2. /\ mailing' \subseteq Calls /\ subjects' \subseteq Emails \X Subjects
        /\ tokens' \subseteq Token /\ expired' \subseteq Ids
        /\ linked' \subseteq Emails /\ overlapped' \subseteq Emails
    BY <1>1, <1>2, <1>3 DEF TypeOK, history
  <2>3. UNCHANGED locals /\ pc[c] \notin {"done", "dead", "check"}
    BY <1>1, <1>3
  <2>4. /\ Step(c) /\ pc'[c] \in {l}
        /\ answer'[c] \in {"failed", "unauthorized"} \cup {"none"}
        /\ answer'[c] # "none" => pc'[c] = "done"
        /\ input' = input
    BY <1>4, <1>6, <2>1, <2>2, <2>3, AfterMove
  <2>. QED
    BY <2>4
<1>8. KindOK(c)' /\ CallOK(c)' /\ LogoutOK(c)'
  BY <1>1, <1>4, <1>7 DEF KindOK, CallOK, LogoutOK, SignUpPhases, LinkPhases, UserPhases,
                          Exists, NewUser
<1>. QED
  BY <1>3, <1>5, <1>7, <1>8, ShrinkStep DEF history

(* A write of the row read before, by a call that saw it unchanged: the    *)
(* row grows and the call moves on.                                        *)
LEMMA UpdateGrows ==
  ASSUME IInv, NEW c \in Calls, pc[c] \in {"activate", "save"},
         NEW a \in BOOLEAN, NEW n \in Phones, UpdateUser(c, a, n),
         seen[c].active => a, seen[c].phone # Nobody => n # Nobody
  PROVE  /\ users' \in [Emails -> Row]
         /\ UsersGrow
         /\ users'[who[c]].active = a
         /\ users'[who[c]].phone = n
         /\ who[c] \in Emails
         /\ UNCHANGED <<subjects, tokens, expired, locals, mailing, history>>
         /\ subjects \subseteq Emails \X Subjects /\ tokens \subseteq Token
         /\ expired \subseteq Ids /\ mailing \subseteq Calls
         /\ linked \subseteq Emails /\ overlapped \subseteq Emails
<1>1. TypeOK /\ CallOK(c)
  BY KindStays
<1>2. who[c] \in Emails /\ seen[c] = users[who[c]]
  BY <1>1 DEF CallOK, UpdateUser
<1>3. PICK e \in Emails : e = who[c]
  BY <1>2
<1>4. users \in [Emails -> Row] /\ users[e].version \in Nat
  BY <1>1 DEF TypeOK, Row
<1>5. users' = [users EXCEPT ![e] = [active |-> a, phone |-> n,
                                     version |-> users[e].version + 1]]
  BY <1>3, <1>4 DEF UpdateUser
<1>6. [active |-> a, phone |-> n, version |-> users[e].version + 1] \in Row
  BY <1>4 DEF Row
<1>7. /\ users' \in [Emails -> Row]
      /\ users'[e] = [active |-> a, phone |-> n, version |-> users[e].version + 1]
      /\ \A f \in Emails \ {e} : users'[f] = users[f]
  BY <1>4, <1>5, <1>6
<1>8. UsersGrow
  BY <1>2, <1>3, <1>4, <1>7 DEF UsersGrow
<1>. QED
  BY <1>1, <1>2, <1>3, <1>7, <1>8 DEF UpdateUser, TypeOK

LEMMA ActivateStep ==
  ASSUME IInv, NEW c \in Calls, NEW acked \in BOOLEAN, Activate(c, acked)
  PROVE  IInv'
<1>1. TypeOK /\ pc[c] = "activate" /\ input[c].kind = "activate" /\ ~ Generating(c)
      /\ seen[c].phone \in Phones
  BY KindStays DEF Activate, KindOK, LinkPhases, Generating, TypeOK, Row
<1>2. /\ users' \in [Emails -> Row] /\ UsersGrow
      /\ who[c] \in Emails /\ users'[who[c]].active
      /\ UNCHANGED <<subjects, tokens, expired, locals, mailing, history>>
      /\ subjects \subseteq Emails \X Subjects /\ tokens \subseteq Token
      /\ expired \subseteq Ids /\ mailing \subseteq Calls
      /\ linked \subseteq Emails /\ overlapped \subseteq Emails
  <2>1. UpdateUser(c, TRUE, seen[c].phone)
    BY DEF Activate, ActiveNow
  <2>2. pc[c] \in {"activate", "save"} /\ TRUE \in BOOLEAN
    BY <1>1
  <2>3. /\ users' \in [Emails -> Row] /\ UsersGrow
        /\ who[c] \in Emails /\ users'[who[c]].active = TRUE
        /\ UNCHANGED <<subjects, tokens, expired, locals, mailing, history>>
        /\ subjects \subseteq Emails \X Subjects /\ tokens \subseteq Token
        /\ expired \subseteq Ids /\ mailing \subseteq Calls
        /\ linked \subseteq Emails /\ overlapped \subseteq Emails
    BY <1>1, <2>1, <2>2, UpdateGrows, Zenon
  <2>. QED
    BY <2>3
<1>3. Moves(c, {"dropLinks", "done"}, {"failed", "unauthorized"})
  <2>1. Moves(c, {"dropLinks"}, {}) \/ Moves(c, {"done"}, {"failed", "unauthorized"})
    BY <1>1, AckedMoves DEF Activate
  <2>. QED
    BY <2>1 DEF Moves
<1>4. {"dropLinks", "done"} \in SUBSET Phases
      /\ {"failed", "unauthorized"} \in SUBSET Answers
  BY DEF Phases, Answers
<1>5. UNCHANGED <<locals, history>> /\ pc[c] \notin {"check", "done", "dead"}
  BY <1>1, <1>2
<1>6. /\ Step(c) /\ pc'[c] \in {"dropLinks", "done"}
      /\ answer'[c] \in {"failed", "unauthorized"} \cup {"none"}
      /\ answer'[c] # "none" => pc'[c] = "done"
      /\ input' = input /\ who' = who /\ seen' = seen
  BY <1>2, <1>3, <1>4, <1>5, AfterMove DEF history
<1>7. KindOK(c)' /\ CallOK(c)' /\ LogoutOK(c)'
  BY <1>1, <1>2, <1>6 DEF KindOK, CallOK, LogoutOK, SignUpPhases, LinkPhases, UserPhases
<1>. QED
  BY <1>2, <1>6, <1>7, ShrinkStep DEF history

LEMMA SaveUserStep ==
  ASSUME IInv, NEW c \in Calls, NEW acked \in BOOLEAN, SaveUser(c, acked)
  PROVE  IInv'
<1> DEFINE n == IF input[c].kind = "phone" THEN c ELSE seen[c].phone
<1>1. TypeOK /\ pc[c] = "save" /\ ~ Generating(c) /\ seen[c].active
      /\ seen[c].active \in BOOLEAN
      /\ input[c].kind \in {"phone", "touch", "logout"}
  BY KindStays DEF SaveUser, KindOK, CallOK, UserPhases, Generating, TypeOK, Row
<1>2. n \in Phones /\ (input[c].kind = "phone" => n # Nobody)
      /\ (seen[c].phone # Nobody => n # Nobody)
  BY <1>1, NobodyAssumption DEF TypeOK, Row, Phones
<1>3. UpdateUser(c, TRUE, n)
  <2>1. UpdateUser(c, seen[c].active, n)
    BY DEF SaveUser
  <2>2. seen[c].active = TRUE
    BY <1>1
  <2>. QED
    BY <2>1, <2>2
<1> HIDE DEF n
<1>4. /\ users' \in [Emails -> Row] /\ UsersGrow
      /\ who[c] \in Emails /\ users'[who[c]].phone = n
      /\ UNCHANGED <<subjects, tokens, expired, locals, mailing, history>>
      /\ subjects \subseteq Emails \X Subjects /\ tokens \subseteq Token
      /\ expired \subseteq Ids /\ mailing \subseteq Calls
      /\ linked \subseteq Emails /\ overlapped \subseteq Emails
  BY <1>1, <1>2, <1>3, UpdateGrows
<1>5. Moves(c, {"done"}, {"updated", "failed", "unauthorized"})
  BY <1>1, AnsweredMoves DEF SaveUser
<1>6. {"done"} \in SUBSET Phases
      /\ {"updated", "failed", "unauthorized"} \in SUBSET Answers
  BY DEF Phases, Answers
<1>7. UNCHANGED <<locals, history>> /\ pc[c] \notin {"check", "done", "dead"}
  BY <1>1, <1>4
<1>8. /\ Step(c) /\ pc'[c] \in {"done"}
      /\ answer'[c] \in {"updated", "failed", "unauthorized"} \cup {"none"}
      /\ input' = input /\ who' = who /\ seen' = seen
  BY <1>4, <1>5, <1>6, <1>7, AfterMove DEF history
<1>9. KindOK(c)' /\ CallOK(c)' /\ LogoutOK(c)'
  BY <1>4, <1>8 DEF KindOK, CallOK, LogoutOK, SignUpPhases, LinkPhases, UserPhases
<1>. QED
  BY <1>2, <1>4, <1>8, <1>9, ShrinkStep DEF history

LEMMA DropLinksStep ==
  ASSUME IInv, NEW c \in Calls, NEW acked \in BOOLEAN, DropLinks(c, acked)
  PROVE  IInv'
<1>1. TypeOK /\ pc[c] = "dropLinks" /\ input[c].kind = "activate" /\ ~ Generating(c)
      /\ who[c] \in Emails /\ users[who[c]].active
  BY KindStays DEF DropLinks, KindOK, CallOK, LinkPhases, Generating
<1>2. /\ UNCHANGED <<users, subjects, expired, locals, history>>
      /\ mailing' \subseteq Calls
      /\ tokens' = tokens \ AllForUser(who[c], "activation")
  BY <1>1 DEF DropLinks, TypeOK
<1>3. Moves(c, {"purge", "done"}, {"failed", "unauthorized"})
  <2>1. Moves(c, {"purge"}, {}) \/ Moves(c, {"done"}, {"failed", "unauthorized"})
    BY <1>1, AckedMoves DEF DropLinks
  <2>. QED
    BY <2>1 DEF Moves
<1>4. {"purge", "done"} \in SUBSET Phases
      /\ {"failed", "unauthorized"} \in SUBSET Answers
  BY DEF Phases, Answers
<1>5. UNCHANGED <<locals, history>> /\ pc[c] \notin {"check", "done", "dead"}
  BY <1>1, <1>2
<1>6. /\ users' \in [Emails -> Row] /\ subjects' \subseteq Emails \X Subjects
      /\ tokens' \subseteq Token /\ expired' \subseteq Ids
      /\ linked' \subseteq Emails /\ overlapped' \subseteq Emails
  BY <1>1, <1>2 DEF TypeOK, history
<1>7. /\ Step(c) /\ pc'[c] \in {"purge", "done"}
      /\ answer'[c] \in {"failed", "unauthorized"} \cup {"none"}
      /\ answer'[c] # "none" => pc'[c] = "done"
      /\ input' = input /\ who' = who /\ seen' = seen
  BY <1>2, <1>3, <1>4, <1>5, <1>6, AfterMove
<1>8. KindOK(c)' /\ CallOK(c)' /\ LogoutOK(c)'
  BY <1>1, <1>2, <1>7 DEF KindOK, CallOK, LogoutOK, SignUpPhases, LinkPhases, UserPhases
<1>9. /\ tokens' \subseteq tokens
      /\ \A t \in tokens : t.scope = "activation" /\ ~ users'[t.owner].active
                             => t \in tokens'
  BY <1>1, <1>2 DEF AllForUser
<1>. QED
  BY <1>2, <1>7, <1>8, <1>9, UsersStay, ShrinkStep DEF history

LEMMA LogoutStep ==
  ASSUME IInv, NEW c \in Calls, NEW acked \in BOOLEAN, Logout(c, acked)
  PROVE  IInv'
<1>1. TypeOK /\ pc[c] = "logout" /\ input[c].kind = "logout" /\ ~ Generating(c)
      /\ LogoutOK(c)
  BY KindStays DEF Logout, KindOK, Generating
<1>2. /\ UNCHANGED <<users, subjects, expired, locals, mailing, history>>
      /\ tokens' = tokens \ AllForUser(who[c], "authentication")
  BY DEF Logout
<1>3. Moves(c, {"done"}, {"loggedOut", "failed", "unauthorized"})
  BY <1>1, AnsweredMoves DEF Logout
<1>4. {"done"} \in SUBSET Phases
      /\ {"loggedOut", "failed", "unauthorized"} \in SUBSET Answers
  BY DEF Phases, Answers
<1>5. UNCHANGED <<locals, history>> /\ pc[c] \notin {"check", "done", "dead"}
  BY <1>1, <1>2
<1>6. /\ users' \in [Emails -> Row] /\ subjects' \subseteq Emails \X Subjects
      /\ tokens' \subseteq Token /\ expired' \subseteq Ids /\ mailing' \subseteq Calls
      /\ linked' \subseteq Emails /\ overlapped' \subseteq Emails
  BY <1>1, <1>2 DEF TypeOK, history
<1>7. /\ Step(c) /\ pc'[c] \in {"done"}
      /\ answer'[c] \in {"loggedOut", "failed", "unauthorized"} \cup {"none"}
      /\ input' = input
  BY <1>2, <1>3, <1>4, <1>5, <1>6, AfterMove
<1>8. KindOK(c)' /\ CallOK(c)'
  BY <1>1, <1>7 DEF KindOK, CallOK, SignUpPhases, LinkPhases, UserPhases
<1>9. LogoutOK(c)'
  <2>1. input[c].token \in Calls => pc'[input[c].token] \in Ended
    BY <1>1, <1>7, EndedStay DEF LogoutOK
  <2>. QED
    BY <1>7, <2>1 DEF LogoutOK
<1>10. \A t \in tokens' : t.id # input[c].token
  BY <1>1, <1>2 DEF LogoutOK, AllForUser
<1>11. /\ tokens' \subseteq tokens
       /\ \A t \in tokens : t.scope = "activation" => t \in tokens'
  BY <1>2 DEF AllForUser
<1>. QED
  BY <1>2, <1>7, <1>8, <1>9, <1>10, <1>11, UsersStay, ShrinkStep DEF history

LEMMA PurgeStep ==
  ASSUME IInv, NEW c \in Calls, NEW acked \in BOOLEAN, Purge(c, acked)
  PROVE  IInv'
<1>1. TypeOK /\ KindOK(c) /\ pc[c] = "purge"
      /\ who[c] \in Emails /\ users[who[c]].active
  BY KindStays DEF Purge, CallOK
<1>2. /\ UNCHANGED <<users, subjects, expired, locals, mailing, linked>>
      /\ tokens' = tokens \ AllForUser(who[c], "authentication")
      /\ overlapped' = IF BetweenPurgeAndIssue(who[c])
                         THEN overlapped \cup {who[c]} ELSE overlapped
  BY DEF Purge
<1>3. PICK l \in {"issue", "check", "done"} :
        /\ Moves(c, {l}, {"failed", "unauthorized"})
        /\ l = "check" => Generating(c)
  <2>1. \/ Moves(c, {"issue"}, {})
        \/ Moves(c, {"done"}, {"failed", "unauthorized"})
        \/ Moves(c, {"check"}, {}) /\ Generating(c)
    BY AckedMoves DEF Purge
  <2>2. /\ Moves(c, {"issue"}, {}) => Moves(c, {"issue"}, {"failed", "unauthorized"})
        /\ Moves(c, {"check"}, {}) => Moves(c, {"check"}, {"failed", "unauthorized"})
    BY DEF Moves
  <2>. QED
    BY <2>1, <2>2
<1>4. {l} \in SUBSET Phases /\ {"failed", "unauthorized"} \in SUBSET Answers
  BY DEF Phases, Answers
<1>5. UNCHANGED locals /\ pc[c] \notin {"check", "done", "dead"}
  BY <1>1, <1>2
<1>6. /\ users' \in [Emails -> Row] /\ subjects' \subseteq Emails \X Subjects
      /\ tokens' \subseteq Token /\ expired' \subseteq Ids /\ mailing' \subseteq Calls
      /\ linked' \subseteq Emails /\ overlapped' \subseteq Emails
  BY <1>1, <1>2 DEF TypeOK
<1>7. /\ Step(c) /\ pc'[c] \in {l}
      /\ answer'[c] \in {"failed", "unauthorized"} \cup {"none"}
      /\ answer'[c] # "none" => pc'[c] = "done"
      /\ input' = input /\ who' = who /\ seen' = seen
  BY <1>3, <1>4, <1>5, <1>6, AfterMove
<1>8. KindOK(c)' /\ CallOK(c)' /\ LogoutOK(c)'
  <2>1. l = "check" => input[c].kind = "activate"
    BY <1>3 DEF Generating
  <2>. QED
    BY <1>1, <1>2, <1>7, <2>1 DEF KindOK, CallOK, LogoutOK, SignUpPhases, LinkPhases,
                                  UserPhases
<1>9. /\ tokens' \subseteq tokens /\ UsersGrow
      /\ \A t \in tokens : t.scope = "activation" => t \in tokens'
  BY <1>2, UsersStay DEF AllForUser
<1>10. CallInv' /\ TokenInv' /\ LogoutInv' /\ Promises'
  BY <1>2, <1>7, <1>8, <1>9, CallFrame, TokenFrame, LogoutFrame, PromisesFrame
<1>11. SessionInv'
  <2> SUFFICES ASSUME NEW e \in Emails, e \notin overlapped'
               PROVE  /\ \A d, f \in Calls : AtIssue(d, e)' /\ AtIssue(f, e)' => d = f
                      /\ \A d \in Calls : AtIssue(d, e)' => Of(e, "authentication")' = {}
                      /\ \A s, t \in Of(e, "authentication")' : s = t
    BY DEF SessionInv
  <2>1. e \notin overlapped
    BY <1>2
  <2>2. \A d \in Calls \ {c} : AtIssue(d, e)' <=> AtIssue(d, e)
    BY <1>7 DEF AtIssue, Step
  <2>3. Of(e, "authentication")' \subseteq Of(e, "authentication")
    BY <1>9 DEF Of
  <2>4. CASE e = who[c]
    <3>1. \A d \in Calls : ~ AtIssue(d, e)
      BY <1>2, <2>4 DEF BetweenPurgeAndIssue, AtIssue
    <3>2. Of(e, "authentication")' = {}
      BY <1>2, <2>4 DEF Of, AllForUser
    <3>. QED
      BY <2>2, <3>1, <3>2
  <2>5. CASE e # who[c]
    <3>1. ~ AtIssue(c, e)'
      BY <1>7, <2>5 DEF AtIssue
    <3>. QED
      BY <2>1, <2>2, <2>3, <3>1 DEF IInv, SessionInv
  <2>. QED
    BY <2>4, <2>5
<1>. QED
  BY <1>7, <1>10, <1>11 DEF IInv, Step

(* What storing a token under the id of a call in progress leaves true.    *)
LEMMA StoreFrame ==
  ASSUME IInv, NEW c \in Calls, Step(c), UNCHANGED users, pc[c] \notin Ended,
         NEW s \in Token, s.id = c, tokens' = tokens \cup {s},
         pc'[c] \in Ended, Exists(s.owner),
         s.scope = "authentication" => users[s.owner].active,
         LogoutOK(c)', answer'[c] \notin {"updated", "loggedOut"},
         answer'[c] = "signedUp" => input[c].email \in linked',
         linked \subseteq linked',
         \A e \in linked' \ linked : s.owner = e /\ s.scope = "activation"
  PROVE  TokenInv' /\ LogoutInv' /\ Promises'
<1>1. \A t \in tokens : t.id # c
  BY DEF IInv, TokenInv, TokenOK
<1>2. UsersGrow /\ TypeOK /\ TypeOK' /\ input' = input
  BY UsersStay DEF IInv, Step
<1>3. \A d \in Calls \ {c} : UNCHANGED <<pc[d], who[d], answer[d]>>
  BY DEF Step
<1>4. TokenInv'
  <2>1. TokenOK(s)'
    BY DEF TokenOK, Exists
  <2>2. \A t \in tokens : TokenOK(t)'
    BY <1>2, TokenKept
  <2>3. \A t, u \in tokens' : t.id = u.id => t = u
    BY <1>1 DEF IInv, TokenInv
  <2>. QED
    BY <1>2, <2>1, <2>2, <2>3, NoRowKept DEF TokenInv
<1>5. LogoutInv'
  <2> SUFFICES ASSUME NEW d \in Calls, d # c PROVE LogoutOK(d)'
    BY DEF LogoutInv
  <2>1. LogoutOK(d)
    BY DEF IInv, LogoutInv
  <2>2. pc[d] = "logout" \/ answer[d] = "loggedOut" => input[d].token # c
    BY <2>1 DEF LogoutOK
  <2>. QED
    BY <1>2, <1>3, <2>1, <2>2, EndedStay DEF LogoutOK
<1>6. LogoutIsFinal'
  <2> SUFFICES ASSUME NEW d \in Calls, d # c, answer'[d] = "loggedOut"
               PROVE  \A t \in tokens' : t.id # input[d].token
    BY <1>2 DEF LogoutIsFinal
  <2>1. answer[d] = "loggedOut" /\ LogoutOK(d)
    BY <1>3 DEF IInv, LogoutInv
  <2>2. input[d].token # c
    BY <2>1 DEF LogoutOK
  <2>. QED
    BY <2>1, <2>2 DEF IInv, Promises, LogoutIsFinal
<1>7. SignedUpCanActivate'
  <2>1. \A d \in Calls : answer'[d] = "signedUp" => input[d].email \in linked'
    BY <1>3 DEF IInv, Promises, SignedUpCanActivate
  <2>2. ASSUME NEW e \in linked', ~ users[e].active
        PROVE  Of(e, "activation")' # {}
    <3>1. \E t \in tokens' : t.owner = e /\ t.scope = "activation"
      <4>1. CASE e \in linked
        BY <2>2, <4>1 DEF IInv, Promises, SignedUpCanActivate, Of
      <4>2. CASE e \notin linked
        BY <4>2
      <4>. QED
        BY <4>1, <4>2
    <3>. QED
      BY <3>1 DEF Of
  <2>. QED
    BY <1>2, <2>1, <2>2 DEF SignedUpCanActivate
<1>8. PhoneNotForgotten'
  BY <1>2, <1>3 DEF PhoneNotForgotten, IInv, Promises
<1>. QED
  BY <1>4, <1>5, <1>6, <1>7, <1>8 DEF Promises

LEMMA IssueLinkStep ==
  ASSUME IInv, NEW c \in Calls, NEW acked \in BOOLEAN, IssueLink(c, acked)
  PROVE  IInv'
<1> DEFINE s == [id |-> c, scope |-> "activation", owner |-> input[c].email]
<1>1. TypeOK /\ pc[c] = "issueLink" /\ input[c].kind = "callback" /\ ~ Generating(c)
      /\ Exists(input[c].email) /\ input[c].email \in Emails
  BY KindStays, InputKinds DEF IssueLink, KindOK, CallOK, SignUpPhases, Generating
<1>2. /\ UNCHANGED <<users, subjects, expired, locals, mailing, overlapped>>
      /\ tokens' = tokens \cup {s}
      /\ linked' = linked \cup {input[c].email}
  BY DEF IssueLink, LinkScope
<1>3. s \in Token /\ s.id = c /\ s.owner = input[c].email /\ s.scope = "activation"
  BY <1>1 DEF Token, Ids, Scopes
<1> HIDE DEF s
<1>4. Moves(c, {"done"}, {"signedUp", "failed", "unauthorized"})
  BY <1>1, AnsweredMoves DEF IssueLink
<1>5. {"done"} \in SUBSET Phases
      /\ {"signedUp", "failed", "unauthorized"} \in SUBSET Answers
  BY DEF Phases, Answers
<1>6. UNCHANGED locals /\ pc[c] \notin {"check", "done", "dead"}
  BY <1>1, <1>2
<1>7. /\ users' \in [Emails -> Row] /\ subjects' \subseteq Emails \X Subjects
      /\ tokens' \subseteq Token /\ expired' \subseteq Ids /\ mailing' \subseteq Calls
      /\ linked' \subseteq Emails /\ overlapped' \subseteq Emails
  BY <1>1, <1>2, <1>3 DEF TypeOK
<1>8. /\ Step(c) /\ pc'[c] \in {"done"}
      /\ answer'[c] \in {"signedUp", "failed", "unauthorized"} \cup {"none"}
      /\ input' = input
  BY <1>4, <1>5, <1>6, <1>7, AfterMove
<1>9. KindOK(c)' /\ CallOK(c)' /\ LogoutOK(c)'
  BY <1>1, <1>8 DEF KindOK, CallOK, LogoutOK, SignUpPhases, LinkPhases, UserPhases
<1>10. TokenInv' /\ LogoutInv' /\ Promises'
  <2>1. pc[c] \notin Ended /\ pc'[c] \in Ended
        /\ answer'[c] \notin {"updated", "loggedOut"}
    BY <1>1, <1>8 DEF Ended
  <2>. QED
    BY <1>1, <1>2, <1>3, <1>8, <1>9, <2>1, StoreFrame
<1>11. CallInv'
  BY <1>2, <1>8, <1>9, UsersStay, CallFrame
<1>12. SessionInv'
  <2>1. \A e \in Emails : Of(e, "authentication")' = Of(e, "authentication")
    BY <1>2, <1>3 DEF Of
  <2>2. \A d \in Calls, e \in Emails : AtIssue(d, e)' => AtIssue(d, e)
    BY <1>8 DEF AtIssue, Step
  <2>. QED
    BY <1>2, <2>1, <2>2 DEF IInv, SessionInv
<1>. QED
  BY <1>8, <1>10, <1>11, <1>12 DEF IInv, Step

LEMMA IssueStep ==
  ASSUME IInv, NEW c \in Calls, NEW acked \in BOOLEAN, Issue(c, acked)
  PROVE  IInv'
<1> DEFINE s == [id |-> c, scope |-> "authentication", owner |-> who[c]]
<1>1. TypeOK /\ KindOK(c) /\ pc[c] = "issue" /\ who[c] \in Emails /\ users[who[c]].active
  BY KindStays DEF Issue, CallOK
<1>2. /\ UNCHANGED <<users, subjects, expired, locals, mailing, history>>
      /\ tokens' = tokens \cup {s}
  BY DEF Issue, SessionScope
<1>3. s \in Token /\ s.id = c /\ s.owner = who[c] /\ s.scope = "authentication"
  BY <1>1 DEF Token, Ids, Scopes
<1> HIDE DEF s
<1>4. PICK l \in {"check", "done"} :
        /\ Moves(c, {l}, {"loggedIn", "failed", "unauthorized"})
        /\ l = "check" => Generating(c)
  <2>1. CASE ~ acked
    <3>1. IF Generating(c) THEN Moves(c, {"check"}, {})
                           ELSE Moves(c, {"done"}, {"failed", "unauthorized"})
      BY <2>1, BrokenMoves DEF Issue
    <3>2. Moves(c, {"check"}, {}) => Moves(c, {"check"}, {"loggedIn", "failed", "unauthorized"})
      BY DEF Moves
    <3>3. Moves(c, {"done"}, {"failed", "unauthorized"})
            => Moves(c, {"done"}, {"loggedIn", "failed", "unauthorized"})
      BY DEF Moves
    <3>. QED
      BY <3>1, <3>2, <3>3
  <2>2. CASE acked /\ Generating(c)
    <3>1. Goto(c, "check") /\ err' = [err EXCEPT ![c] = FALSE]
      BY <2>2 DEF Issue
    <3>2. Moves(c, {"check"}, {"loggedIn", "failed", "unauthorized"})
      BY <3>1 DEF Goto, Moves
    <3>. QED
      BY <2>2, <3>2
  <2>3. CASE acked /\ ~ Generating(c)
    <3>1. Answer(c, "loggedIn") /\ err' = [err EXCEPT ![c] = FALSE]
      BY <2>3 DEF Issue
    <3>2. Moves(c, {"done"}, {"loggedIn", "failed", "unauthorized"})
      BY <3>1 DEF Answer, Moves
    <3>. QED
      BY <3>2
  <2>. QED
    BY <2>1, <2>2, <2>3
<1>5. {l} \in SUBSET Phases
      /\ {"loggedIn", "failed", "unauthorized"} \in SUBSET Answers
  BY DEF Phases, Answers
<1>6. UNCHANGED locals /\ pc[c] \notin {"check", "done", "dead"}
  BY <1>1, <1>2
<1>7. /\ users' \in [Emails -> Row] /\ subjects' \subseteq Emails \X Subjects
      /\ tokens' \subseteq Token /\ expired' \subseteq Ids /\ mailing' \subseteq Calls
      /\ linked' \subseteq Emails /\ overlapped' \subseteq Emails
  BY <1>1, <1>2, <1>3 DEF TypeOK, history
<1>8. /\ Step(c) /\ pc'[c] \in {l}
      /\ answer'[c] \in {"loggedIn", "failed", "unauthorized"} \cup {"none"}
      /\ answer'[c] # "none" => pc'[c] = "done"
      /\ input' = input /\ who' = who
  BY <1>4, <1>5, <1>6, <1>7, AfterMove
<1>9. KindOK(c)' /\ CallOK(c)' /\ LogoutOK(c)'
  <2>1. l = "check" => input[c].kind = "activate"
    BY <1>4 DEF Generating
  <2>. QED
    BY <1>1, <1>8, <2>1 DEF KindOK, CallOK, LogoutOK, SignUpPhases, LinkPhases, UserPhases
<1>10. Exists(who[c])
  BY <1>1 DEF IInv, TokenInv, NoRow
<1>11. TokenInv' /\ LogoutInv' /\ Promises'
  <2>1. pc[c] \notin Ended /\ pc'[c] \in Ended
        /\ answer'[c] \notin {"updated", "loggedOut", "signedUp"}
    BY <1>1, <1>8 DEF Ended
  <2>. QED
    BY <1>1, <1>2, <1>3, <1>8, <1>9, <1>10, <2>1, StoreFrame DEF history
<1>12. CallInv'
  BY <1>2, <1>8, <1>9, UsersStay, CallFrame
<1>13. SessionInv'
  <2> SUFFICES ASSUME NEW e \in Emails \ overlapped
               PROVE  /\ \A d, f \in Calls : AtIssue(d, e)' /\ AtIssue(f, e)' => d = f
                      /\ \A d \in Calls : AtIssue(d, e)' => Of(e, "authentication")' = {}
                      /\ \A t, u \in Of(e, "authentication")' : t = u
    BY <1>2 DEF SessionInv, history
  <2>1. \A d \in Calls : AtIssue(d, e)' => d # c /\ AtIssue(d, e)
    BY <1>8 DEF AtIssue, Step
  <2>2. CASE e = who[c]
    <3>1. AtIssue(c, e)
      BY <1>1, <2>2 DEF AtIssue
    <3>2. Of(e, "authentication") = {} /\ \A d \in Calls : ~ AtIssue(d, e)'
      BY <2>1, <3>1 DEF IInv, SessionInv
    <3>3. Of(e, "authentication")' \subseteq {s}
      BY <1>2, <3>2 DEF Of
    <3>. QED
      BY <3>2, <3>3
  <2>3. CASE e # who[c]
    <3>1. Of(e, "authentication")' = Of(e, "authentication")
      BY <1>2, <1>3, <2>3 DEF Of
    <3>. QED
      BY <2>1, <3>1 DEF IInv, SessionInv
  <2>. QED
    BY <2>2, <2>3
<1>. QED
  BY <1>8, <1>11, <1>12, <1>13 DEF IInv, Step

-----------------------------------------------------------------------------
(* Steps that are not a handler's.                                         *)

LEMMA OutsideStep ==
  ASSUME IInv, TypeOK',
         UNCHANGED <<users, tokens, input, pc, who, seen, answer, history>>
  PROVE  IInv'
<1>1. CallInv'
  BY DEF IInv, CallInv, KindOK, CallOK, Exists, VersionStill
<1>2. TokenInv' /\ LogoutInv'
  BY DEF IInv, TokenInv, TokenOK, LogoutInv, LogoutOK, Exists
<1>3. SessionInv'
  BY DEF IInv, SessionInv, AtIssue, Of, history
<1>4. Promises'
  BY DEF IInv, Promises, SignedUpCanActivate, PhoneNotForgotten, LogoutIsFinal, Of, history
<1>. QED
  BY <1>1, <1>2, <1>3, <1>4 DEF IInv

LEMMA MailStep ==
  ASSUME IInv, NEW c \in Calls, NEW failed \in BOOLEAN, MailReturns(c, failed)
  PROVE  IInv'
<1>1. TypeOK'
  BY DEF IInv, TypeOK, MailReturns, tables, locals, history
<1>. QED
  BY <1>1, OutsideStep DEF MailReturns, tables, locals, history

LEMMA ExpireStep ==
  ASSUME IInv, NEW id \in Ids, Expire(id)
  PROVE  IInv'
<1>1. TypeOK'
  BY DEF IInv, TypeOK, Expire, locals, history
<1>. QED
  BY <1>1, OutsideStep DEF Expire, locals, history

LEMMA InitInv == Init => IInv
<1> SUFFICES ASSUME Init PROVE IInv
  OBVIOUS
<1>1. TypeOK
  <2>1. users \in [Emails -> Row]
    BY DEF Init, Row, NoRow, Phones
  <2>2. subjects \subseteq Emails \X Subjects /\ tokens \subseteq Token
    BY OldAccountsAssumption DEF Init, Token, Ids, OldIds, Scopes
  <2>3. linked \subseteq Emails
    BY OldAccountsAssumption DEF Init
  <2>4. who \in [Calls -> Emails \cup {Nobody}] /\ seen \in [Calls -> Row]
    BY DEF Init, Row, NoRow, Phones
  <2>. QED
    BY <2>1, <2>2, <2>3, <2>4 DEF Init, TypeOK, Phases, Answers
<1>2. \A c \in Calls : pc[c] = "new" /\ answer[c] = "none"
  BY DEF Init
<1>3. CallInv /\ LogoutInv
  BY <1>2 DEF CallInv, KindOK, CallOK, LogoutInv, LogoutOK, SignUpPhases, LinkPhases,
              UserPhases
<1>4. \A t \in tokens : \E a \in OldAccounts :
        /\ t = [id |-> a.token, scope |-> "authentication", owner |-> a.email]
        /\ a.email \in Emails /\ a.token \in OldIds
  BY OldAccountsAssumption DEF Init
<1>5. TokenInv
  <2>1. \A e \in Emails : ~ Exists(e) => users[e] = NoRow
    BY DEF Init, Exists
  <2>2. ASSUME NEW t \in tokens PROVE TokenOK(t)
    <3>1. PICK a \in OldAccounts :
            /\ t = [id |-> a.token, scope |-> "authentication", owner |-> a.email]
            /\ a.email \in Emails /\ a.token \in OldIds
      BY <1>4
    <3>2. users[a.email] = [active |-> TRUE, version |-> 2, phone |-> Nobody]
      BY <3>1 DEF Init
    <3>. QED
      BY <3>1, <3>2, OldAccountsAssumption DEF TokenOK, Exists
  <2>3. \A s, t \in tokens : s.id = t.id => s = t
    BY <1>4, OldAccountsAssumption
  <2>. QED
    BY <2>1, <2>2, <2>3 DEF TokenInv
<1>6. SessionInv
  <2>1. \A c \in Calls, e \in Emails : ~ AtIssue(c, e)
    BY <1>2 DEF AtIssue
  <2>2. \A s, t \in tokens : s.owner = t.owner => s = t
    BY <1>4, OldAccountsAssumption
  <2>. QED
    BY <2>1, <2>2 DEF SessionInv, Of
<1>7. Promises
  <2>1. \A e \in linked : users[e].active
    BY OldAccountsAssumption DEF Init
  <2>. QED
    BY <1>2, <2>1 DEF Promises, SignedUpCanActivate, PhoneNotForgotten, LogoutIsFinal
<1>. QED
  BY <1>1, <1>3, <1>5, <1>6, <1>7 DEF IInv

LEMMA SignUpOrLoginStep ==
  ASSUME IInv, NEW c \in Calls, SignUpOrLogin(c)
  PROVE  IInv'
<1>1. pc[c] \in SignUpPhases => input[c].kind = "callback" /\ input[c].email \in Emails
  BY KindStays, InputKinds DEF KindOK
<1>2. CASE LookupKnown(c)
  BY <1>1, <1>2, AdmitStep DEF LookupKnown, SignUpPhases
<1>3. CASE LookupUnknown(c)
  <2>1. CASE input[c].valid
    BY <1>3, <2>1, GotoStep DEF LookupUnknown, SignUpPhases
  <2>2. CASE ~ input[c].valid
    BY <1>3, <2>2, AnswerStep DEF LookupUnknown, QuietAnswers
  <2>. QED
    BY <2>1, <2>2
<1>4. CASE InsertDuplicate(c)
  BY <1>4, GotoStep DEF InsertDuplicate, SignUpPhases
<1>5. CASE Relookup(c)
  <2>1. Exists(input[c].email)
    BY <1>5, KindStays DEF Relookup, CallOK
  <2>. QED
    BY <1>1, <1>5, <2>1, AdmitStep DEF Relookup, SignUpPhases
<1>6. CASE InsertRefused(c)
  BY <1>6, BrokenStep DEF InsertRefused
<1>7. ASSUME NEW acked \in BOOLEAN,
             InsertUser(c, acked) \/ IssueLink(c, acked) \/ Purge(c, acked) \/ Issue(c, acked)
      PROVE  IInv'
  BY <1>7, InsertUserStep, IssueLinkStep, PurgeStep, IssueStep
<1>. QED
  BY <1>2, <1>3, <1>4, <1>5, <1>6, <1>7 DEF SignUpOrLogin

LEMMA ActivationStep ==
  ASSUME IInv, NEW c \in Calls, Activation(c)
  PROVE  IInv'
<1>1. CASE ReadLinkMissing(c)
  BY <1>1, AnswerStep DEF ReadLinkMissing, QuietAnswers
<1>2. CASE ReadLink(c)
  <2>1. PICK t \in tokens : t.scope = "activation" /\ See(c, t.owner)
    BY <1>2 DEF ReadLink, Valid
  <2>2. t.owner \in Emails /\ Exists(t.owner)
    BY DEF IInv, TypeOK, Token, TokenInv, TokenOK
  <2>3. Moves(c, {"activate"}, {})
    BY <1>2 DEF ReadLink, Goto, Moves
  <2>4. TypeOK /\ answer[c] = "none" /\ input[c].kind = "activate"
    BY <1>2, KindStays DEF ReadLink, KindOK, LinkPhases
  <2>5. pc'[c] = "activate" /\ answer'[c] = "none" /\ input' = input
    BY <1>2, <2>1, <2>4 DEF ReadLink, Goto, See, TypeOK
  <2>6. KindOK(c)' /\ LogoutOK(c)'
    BY <2>4, <2>5 DEF KindOK, LogoutOK, SignUpPhases, LinkPhases, UserPhases
  <2>7. "activate" \in SeePhases /\ {} \in SUBSET QuietAnswers
    BY DEF SeePhases
  <2>. QED
    BY <1>2, <2>1, <2>2, <2>3, <2>6, <2>7, SeeStep DEF ReadLink
<1>3. CASE EditConflict(c)
  BY <1>3, AnswerStep DEF EditConflict, QuietAnswers
<1>4. CASE CheckErr(c)
  BY <1>4, AnswerStep DEF CheckErr, QuietAnswers
<1>5. ASSUME NEW acked \in BOOLEAN, Activate(c, acked) \/ DropLinks(c, acked)
      PROVE  IInv'
  BY <1>5, ActivateStep, DropLinksStep
<1>. QED
  BY <1>1, <1>2, <1>3, <1>4, <1>5 DEF Activation

LEMMA WithSessionStep ==
  ASSUME IInv, NEW c \in Calls, WithSession(c)
  PROVE  IInv'
<1>1. CASE AuthenticateMissing(c)
  BY <1>1, AnswerStep DEF AuthenticateMissing, QuietAnswers
<1>2. CASE Authenticate(c)
  <2> DEFINE l == SessionStep(input[c].kind)
  <2>1. PICK t \in tokens : /\ t.id = input[c].token /\ t.scope = "authentication"
                            /\ Admit(c, t.owner, l)
    BY <1>2 DEF Authenticate, Valid
  <2>2. t.owner \in Emails /\ TokenOK(t)
    BY DEF IInv, TypeOK, Token, TokenInv
  <2>3. input[c].kind \in {"phone", "touch", "logout"}
    BY <1>2, KindStays DEF Authenticate, KindOK, UserPhases
  <2>4. l \in {"purge", "read", "logout"} /\ l # "purge"
        /\ (l = "logout" => input[c].kind = "logout")
    BY DEF SessionStep
  <2>5. /\ input[c].token \in Calls => pc[input[c].token] \in Ended
        /\ \A u \in tokens : u.id = input[c].token =>
             u.owner = t.owner /\ u.scope = "authentication"
    BY <2>1, <2>2 DEF TokenOK, IInv, TokenInv
  <2> HIDE DEF l
  <2>. QED
    BY <1>2, <2>1, <2>2, <2>3, <2>4, <2>5, AdmitStep DEF Authenticate, TokenOK
<1>3. CASE ReadUser(c)
  <2>1. TypeOK /\ answer[c] = "none" /\ who[c] \in Emails /\ users[who[c]].active
        /\ input[c].kind \in {"phone", "touch", "logout"}
    BY <1>3, KindStays DEF ReadUser, KindOK, CallOK, UserPhases
  <2>2. Exists(who[c])
    BY <2>1 DEF IInv, TokenInv, NoRow
  <2>3. Moves(c, {"save"}, {})
    BY <1>3 DEF ReadUser, Goto, Moves
  <2>4. pc'[c] = "save" /\ answer'[c] = "none" /\ input' = input
    BY <1>3, <2>1 DEF ReadUser, Goto, See, TypeOK
  <2>5. KindOK(c)' /\ LogoutOK(c)'
    BY <2>1, <2>4 DEF KindOK, LogoutOK, SignUpPhases, LinkPhases, UserPhases
  <2>6. "save" \in SeePhases /\ {} \in SUBSET QuietAnswers
    BY DEF SeePhases
  <2>. QED
    BY <1>3, <2>1, <2>2, <2>3, <2>5, <2>6, SeeStep DEF ReadUser
<1>4. ASSUME NEW acked \in BOOLEAN, SaveUser(c, acked) \/ Logout(c, acked)
      PROVE  IInv'
  BY <1>4, SaveUserStep, LogoutStep
<1>. QED
  BY <1>1, <1>2, <1>3, <1>4 DEF WithSession

LEMMA CrashStep ==
  ASSUME IInv, NEW c \in Calls, Crash(c)
  PROVE  IInv'
<1>1. Moves(c, {"dead"}, {})
  BY DEF Crash, Moves
<1>. QED
  BY <1>1, QuietEnd DEF Crash

LEMMA NextStep ==
  ASSUME IInv, [Next]_vars
  PROVE  IInv'
<1>1. ASSUME NEW c \in Calls, Receive(c) \/ Handle(c) \/ Crash(c)
      PROVE  IInv'
  <2>1. CASE StatementFails(c)
    BY <2>1, BrokenStep DEF StatementFails
  <2>. QED
    BY <1>1, <2>1, ReceiveStep, SignUpOrLoginStep, ActivationStep, WithSessionStep,
       CrashStep DEF Handle
<1>2. ASSUME NEW c \in Calls, NEW failed \in BOOLEAN, MailReturns(c, failed)
      PROVE  IInv'
  BY <1>2, MailStep
<1>3. ASSUME NEW id \in Ids, Expire(id) PROVE IInv'
  BY <1>3, ExpireStep
<1>4. CASE UNCHANGED vars
  <2>1. TypeOK'
    BY <1>4 DEF IInv, TypeOK, vars
  <2>. QED
    BY <1>4, <2>1, OutsideStep DEF vars, history
<1>. QED
  BY <1>1, <1>2, <1>3, <1>4 DEF Next, AllEnded

-----------------------------------------------------------------------------
(* The theorems.                                                           *)

(* The parts of the invariant hold at first and survive every step.        *)
THEOREM Invariance == Spec => []IInv
<1>1. IInv /\ [Next]_vars => IInv'
  BY NextStep
<1>. QED
  BY <1>1, InitInv, PTL DEF Spec

(* Every row, token and local keeps its type.                              *)
THEOREM TypeCorrect == Spec => []TypeOK
<1>1. IInv => TypeOK
  BY DEF IInv
<1>. QED
  BY <1>1, Invariance, PTL

(* No session is ever stored for an account that is not activated.         *)
THEOREM SessionsAreOfActiveThm == Spec => []SessionsAreOfActive
<1>1. IInv => SessionsAreOfActive
  BY DEF IInv, TokenInv, TokenOK, SessionsAreOfActive
<1>. QED
  BY <1>1, Invariance, PTL

(* Only two overlapping logins can leave an account two sessions.          *)
THEOREM OneSessionUnlessOverlapThm == Spec => []OneSessionUnlessOverlap
<1>1. IInv => OneSessionUnlessOverlap
  BY DEF IInv, SessionInv, OneSessionUnlessOverlap
<1>. QED
  BY <1>1, Invariance, PTL

(* An account a link was made for, whoever was answered 201 among them,    *)
(* can be activated until it is.                                           *)
THEOREM SignedUpCanActivateThm == Spec => []SignedUpCanActivate
<1>1. IInv => SignedUpCanActivate
  BY DEF IInv, Promises
<1>. QED
  BY <1>1, Invariance, PTL

(* The version of a row protects a stored phone number.                    *)
THEOREM PhoneNotForgottenThm == Spec => []PhoneNotForgotten
<1>1. IInv => PhoneNotForgotten
  BY DEF IInv, Promises
<1>. QED
  BY <1>1, Invariance, PTL

(* A logged-out token never comes back.                                    *)
THEOREM LogoutIsFinalThm == Spec => []LogoutIsFinal
<1>1. IInv => LogoutIsFinal
  BY DEF IInv, Promises
<1>. QED
  BY <1>1, Invariance, PTL
=============================================================================
