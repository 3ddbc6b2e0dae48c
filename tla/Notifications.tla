---------------------------- MODULE Notifications ----------------------------
(***************************************************************************)
(* What is sent about an order (cmd/api/orders.go): the background tasks   *)
(* that createOrderHandler and updateOrderStatusHandler start, with        *)
(* Mailer.Send (internal/mailer) and SMSService.Send (internal/sms).       *)
(*                                                                         *)
(* A task reads the order, its customer and, for the administrators'       *)
(* e-mail, the rows of users with permissions, each in a statement of its  *)
(* own while permissions and phone numbers change; it keeps what it does   *)
(* in memory only.  An attempt to send an e-mail may deliver it and still  *)
(* report an error, after which the e-mail is sent again.                  *)
(***************************************************************************)
EXTENDS Integers, Sequences, FiniteSets, SequencesExt

CONSTANTS Orders,      \* the orders that are ever placed
          Users,       \* users, who have one e-mail address each
          CustomerOf,  \* who placed each order
          Grantable,   \* bound: the pairs of a user and a code ever granted
          Followed,    \* bound: the sets of kinds of tasks watched together
          Phones,      \* phone numbers as typed, sequences of characters
          SmsEnabled   \* whether the three settings of Twilio are there

Kinds    == {"confirm", "admin", "sms", "status"}
Tasks    == Orders \X Kinds
Attempts == 3

ASSUME NotificationsAssumption ==
  /\ CustomerOf \in [Orders -> Users]
  /\ IsFiniteSet(Grantable) /\ \A g \in Grantable : g[1] \in Users
  /\ SmsEnabled \in BOOLEAN
  /\ Followed \subseteq SUBSET Kinds
  /\ << >> \in Phones /\ \A p \in Phones : Len(p) \in Nat

VARIABLES
  followed, \* the kinds watched in this behaviour: tasks share only what they read
  placed,   \* orders that were answered 201
  grants,   \* users_permissions
  phone,    \* users.phone_number of the customers, << >> where there is none
  stage,    \* where each task stands
  queue,    \* addresses a task has still to send to, the current one first
  tries,    \* attempts that failed for the current address
  number,   \* the phone number a task has read
  asked,    \* history: the users the administrators' task read
  copies,   \* messages delivered, by task and user
  outcome,  \* what a task logged about a user
  dialled   \* the number an SMS was sent to

memory == <<queue, tries, number, asked>>
world  == <<copies, outcome, dialled>>
tables == <<placed, grants, phone>>
vars   == <<followed, tables, stage, memory, world>>

Customers == {CustomerOf[o] : o \in Orders}

Stages == {"idle", "order", "customer", "supers", "send", "sms", "done", "dead"}

TypeOK ==
  /\ followed \in Followed
  /\ placed \subseteq Orders
  /\ grants \subseteq Grantable
  /\ phone \in [Customers -> Phones]
  /\ stage \in [Tasks -> Stages]
  /\ queue \in [Tasks -> Seq(Users)]
  /\ \A t \in Tasks : (stage[t] = "send") <=> (queue[t] # << >>)
  /\ tries \in [Tasks -> 0 .. Attempts - 1]
  /\ number \in [Tasks -> Phones]
  /\ asked \in [Tasks -> SUBSET Users]
  /\ copies \in [Tasks -> [Users -> Nat]]
  /\ outcome \in [Tasks -> [Users -> {"none", "sent", "error"}]]
  /\ DOMAIN dialled = Tasks

Init ==
  /\ followed \in Followed
  /\ placed = {}
  /\ grants \in SUBSET Grantable
  /\ phone \in [Customers -> Phones]
  /\ stage = [t \in Tasks |-> "idle"]
  /\ queue = [t \in Tasks |-> << >>]
  /\ tries = [t \in Tasks |-> 0]
  /\ number = [t \in Tasks |-> << >>]
  /\ asked = [t \in Tasks |-> {}]
  /\ copies = [t \in Tasks |-> [u \in Users |-> 0]]
  /\ outcome = [t \in Tasks |-> [u \in Users |-> "none"]]
  /\ dialled = [t \in Tasks |-> << >>]

-----------------------------------------------------------------------------
Customer(t) == CustomerOf[t[1]]
Kind(t)     == t[2]

Goto(t, s) == stage' = [stage EXCEPT ![t] = s]

(* createOrderHandler, after CreateOrder returned: three tasks.            *)
PlaceOrder(o) ==
  /\ o \notin placed
  /\ placed' = placed \cup {o}
  /\ stage' = [t \in Tasks |-> IF t[1] = o /\ Kind(t) \in followed \ {"status"}
                               THEN "order" ELSE stage[t]]
  /\ UNCHANGED <<followed, grants, phone, memory, world>>

(* updateOrderStatusHandler, after UpdateOrderStatus returned.             *)
ChangeStatus(o) ==
  /\ o \in placed /\ "status" \in followed
  /\ stage[<<o, "status">>] = "idle"
  /\ Goto(<<o, "status">>, "order")
  /\ UNCHANGED <<followed, tables, memory, world>>

(* GetOrderWithItems: no rows would be ErrOrderNotFound, but those of the  *)
(* order were stored before the task was started.                          *)
RowsOf(t) == {t[1]} \cap placed

ReadOrder(t) ==
  /\ stage[t] = "order"
  /\ RowsOf(t) # {}
  /\ Goto(t, "customer")
  /\ UNCHANGED <<followed, tables, memory, world>>

(* GetUserByID, and what each kind of task does next.                      *)
PhoneOf(t) == phone[Customer(t)]

ReadAddress(t) ==
  /\ stage[t] = "customer"
  /\ Kind(t) \in {"confirm", "status"}
  /\ Goto(t, "send")
  /\ queue' = [queue EXCEPT ![t] = <<Customer(t)>>]
  /\ UNCHANGED <<followed, tables, tries, number, asked, world>>

ReadCustomer(t) ==
  /\ stage[t] = "customer"
  /\ Kind(t) = "admin"
  /\ Goto(t, "supers")
  /\ UNCHANGED <<followed, tables, memory, world>>

ReadPhone(t) ==
  /\ stage[t] = "customer"
  /\ Kind(t) = "sms"
  /\ Goto(t, IF PhoneOf(t) # << >> /\ SmsEnabled THEN "sms" ELSE "done")
  /\ number' = [number EXCEPT ![t] = PhoneOf(t)]
  /\ UNCHANGED <<followed, tables, queue, tries, asked, world>>

(* GetAllSuperUsersWithPermissions: a row for every permission of a user,  *)
(* in any order; then the map of addresses met so far.                     *)
EveryRow(rows) == rows
Unique(rows) ==
  LET met[n \in 0 .. Len(rows)] ==
        IF n = 0 THEN << >>
        ELSE LET sofar == met[n - 1]
             IN  IF Contains(sofar, rows[n]) THEN sofar ELSE Append(sofar, rows[n])
  IN  met[Len(rows)]

PermissionRows == SetToSeqs(grants)
SuperUsers(rows) == [n \in 1 .. Len(rows) |-> rows[n][1]]

ReadSupers(t) ==
  /\ stage[t] = "supers"
  /\ \E rows \in PermissionRows : queue' = [queue EXCEPT ![t] = Unique(SuperUsers(rows))]
  /\ asked' = [asked EXCEPT ![t] = {g[1] : g \in grants}]
  /\ Goto(t, IF grants = {} THEN "done" ELSE "send")
  /\ UNCHANGED <<followed, tables, tries, number, world>>

(* A failed read is logged, and the task is over.                          *)
StartOver(t) == Goto(t, "order")
GiveUp(t) == Goto(t, "done")

ReadFails(t) ==
  /\ stage[t] \in {"order", "customer", "supers"}
  /\ GiveUp(t)
  /\ UNCHANGED <<followed, tables, memory, world>>

-----------------------------------------------------------------------------
Deliver(t, u) == copies' = [copies EXCEPT ![t][u] = @ + 1]
Log(t, u, result) == outcome' = [outcome EXCEPT ![t][u] = result]

(* Send has returned for the first address of the queue: the caller logs   *)
(* the result and goes on to the next one.                                 *)
StopAtFailure(t, result) == IF result = "error" THEN << >> ELSE Tail(queue[t])
NextAddress(t, result) == Tail(queue[t])

Returns(t, result) ==
  LET rest == NextAddress(t, result)
  IN  /\ Log(t, Head(queue[t]), result)
      /\ queue' = [queue EXCEPT ![t] = rest]
      /\ tries' = [tries EXCEPT ![t] = 0]
      /\ Goto(t, IF rest = << >> THEN "done" ELSE "send")

(* A template cannot be read or executed: Send returns before any attempt. *)
TemplateFails(t) ==
  /\ stage[t] = "send" /\ tries[t] = 0
  /\ Returns(t, "error")
  /\ UNCHANGED <<followed, tables, number, asked, copies, dialled>>

AttemptSucceeds(t) ==
  /\ stage[t] = "send"
  /\ Deliver(t, Head(queue[t]))
  /\ Returns(t, "sent")
  /\ UNCHANGED <<followed, tables, number, asked, dialled>>

(* DialAndSend returns an error, with the message delivered or not; after  *)
(* the third time Send returns it.                                         *)
LastError == "error"
OneMoreRetry(t) == tries[t] + 1 <= Attempts
MayRetry(t) == tries[t] + 1 < Attempts

AttemptFails(t) ==
  /\ stage[t] = "send"
  /\ Deliver(t, Head(queue[t])) \/ UNCHANGED copies
  /\ IF MayRetry(t)
       THEN /\ tries' = [tries EXCEPT ![t] = tries[t] + 1]
            /\ UNCHANGED <<stage, queue, outcome>>
       ELSE Returns(t, LastError)
  /\ UNCHANGED <<followed, tables, number, asked, dialled>>

(* formatPhoneNumber: keep digits and plus signs; a number of ten or more  *)
(* that starts with 0, and one of nine, is taken for a Kenyan one.         *)
Digits  == {"0", "1", "2", "3", "4", "5", "6", "7", "8", "9"}
Kenya   == <<"+", "2", "5", "4">>
Cleaned(p) ==
  LET kept[n \in 0 .. Len(p)] ==
        IF n = 0 THEN << >>
        ELSE IF p[n] \in Digits \cup {"+"} THEN Append(kept[n - 1], p[n]) ELSE kept[n - 1]
  IN  kept[Len(p)]
ZeroKept(p) == Kenya \o p
TrunkDropped(p) == Kenya \o Tail(p)

FormatPhoneNumber(typed) ==
  LET p == Cleaned(typed)
  IN  CASE Len(p) >= 10 /\ p[1] = "0" -> TrunkDropped(p)
        [] Len(p) = 9 /\ p[1] # "+"   -> Kenya \o p
        [] OTHER                      -> p

(* SendOrderConfirmation: one request to the provider, which may have been *)
(* carried out although it reports an error.                               *)
ProviderAnswers(t, u) ==
  \/ Deliver(t, u) /\ Log(t, u, "sent")
  \/ Deliver(t, u) /\ Log(t, u, "error")
  \/ Log(t, u, "error") /\ UNCHANGED copies

SendSms(t) ==
  /\ stage[t] = "sms"
  /\ dialled' = [dialled EXCEPT ![t] = FormatPhoneNumber(number[t])]
  /\ ProviderAnswers(t, Customer(t))
  /\ Goto(t, "done")
  /\ UNCHANGED <<followed, tables, memory>>

-----------------------------------------------------------------------------
(* What changes meanwhile.                                                 *)
Grant(g) ==
  /\ g \notin grants
  /\ grants' = grants \cup {g}
  /\ UNCHANGED <<followed, placed, phone, stage, memory, world>>

Revoke(g) ==
  /\ g \in grants
  /\ grants' = grants \ {g}
  /\ UNCHANGED <<followed, placed, phone, stage, memory, world>>

(* updateUserInfo.                                                         *)
ChangePhone(u, p) ==
  /\ p # phone[u]
  /\ phone' = [phone EXCEPT ![u] = p]
  /\ UNCHANGED <<followed, placed, grants, stage, memory, world>>

(* The process dies and starts again: running tasks are gone for good.     *)
Running(t) == stage[t] \notin {"idle", "done", "dead"}
Crash ==
  /\ stage' = [t \in Tasks |-> IF Running(t) THEN "dead" ELSE stage[t]]
  /\ queue' = [t \in Tasks |-> << >>]
  /\ tries' = [t \in Tasks |-> 0]
  /\ UNCHANGED <<followed, tables, number, asked, world>>

Work(t) ==
  \/ ReadOrder(t) \/ ReadAddress(t) \/ ReadCustomer(t) \/ ReadPhone(t)
  \/ ReadSupers(t) \/ ReadFails(t)
  \/ TemplateFails(t) \/ AttemptSucceeds(t) \/ AttemptFails(t) \/ SendSms(t)

Next ==
  \/ \E o \in Orders : PlaceOrder(o) \/ ChangeStatus(o)
  \/ \E t \in Tasks : Work(t)
  \/ \E g \in Grantable : Grant(g) \/ Revoke(g)
  \/ \E u \in Customers, p \in Phones : ChangePhone(u, p)
  \/ Crash

Spec == Init /\ [][Next]_vars

(* Every task is a goroutine; statements have a context of 5 s, the dialer *)
(* a timeout of 5 s, and the provider's client one of its own.             *)
FairSpec == Spec /\ \A t \in Tasks : WF_vars(Work(t))

-----------------------------------------------------------------------------
(* Whatever errors a delivered message is followed by, nobody gets more    *)
(* than three copies of an e-mail, whatever number of permissions makes    *)
(* them an administrator, and nobody two of an SMS.                        *)
CopiesAreBounded ==
  \A t \in Tasks, u \in Users :
    copies[t][u] <= IF Kind(t) = "sms" THEN 1 ELSE Attempts

(* The failure of one administrator's e-mail stops no other's: a task that *)
(* came to send and was not killed has logged a result for every user it   *)
(* read, and for nobody else, later changes of permissions notwithstanding.*)
EveryAdminIsTried ==
  \A t \in Tasks :
    Kind(t) = "admin" /\ stage[t] = "done" /\ asked[t] # {} =>
      {u \in Users : outcome[t][u] # "none"} = asked[t]

(* An SMS goes to the number the customer had when the task read it, in    *)
(* the international form for every way a Kenyan number is usually typed.  *)
Usual(p) ==
  LET c == Cleaned(p)
  IN  \/ Len(c) = 10 /\ c[1] = "0"
      \/ Len(c) = 9 /\ c[1] \in Digits
      \/ Len(c) = 13 /\ SubSeq(c, 1, 4) = Kenya
SmsIsInternational ==
  \A t \in Tasks :
    dialled[t] # << >> /\ Usual(number[t]) =>
      LET c == Cleaned(number[t])
      IN  dialled[t] = Kenya \o SubSeq(c, Len(c) - 8, Len(c))

(* Every task comes to its end, unless its process dies first.             *)
TaskEnds ==
  \A t \in Tasks : stage[t] = "order" ~> stage[t] \in {"done", "dead"}
=============================================================================
