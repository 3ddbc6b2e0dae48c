----------------------------- MODULE OrderStatus ----------------------------
(***************************************************************************)
(* Changing the status of an order: updateOrderStatusHandler               *)
(* (cmd/api/orders.go) and OrderModel.UpdateOrderStatus                    *)
(* (internal/data/orders.go), many requests at once, on any replica.       *)
(*                                                                         *)
(* UpdateOrderStatus reads the order, compares the version the client sent *)
(* and checks the transition against the status it read; then one          *)
(* statement writes the new status WHERE the version is still that one.    *)
(* The read and the write are separate statements.  After the answer is    *)
(* decided a background task mails the new status to the customer.         *)
(***************************************************************************)
EXTENDS Integers, Sequences, FiniteSets

CONSTANTS Orders,   \* the ids orders may get
          Updates,  \* the PATCH requests that are ever sent
          Asked     \* what they may ask: [order, status, version]

Statuses == {"PLACED", "PROCESSING", "SHIPPED", "DELIVERED", "CANCELLED"}
Request  == [order : Orders, status : STRING, version : Int]

ASSUME AskedAssumption == Asked \subseteq Request

VARIABLES
  status,   \* orders.status, "NONE" where there is no row
  version,  \* orders.version, 0 where there is no row
  pc,       \* where the handler of each update stands
  req,      \* the decoded request of each update
  answer,   \* the HTTP answer
  due,      \* updates whose status e-mail was started and is not sent yet
  sent,     \* updates whose status e-mail was sent
  held,     \* history: the statuses each order has had, by version
  applied   \* history: updates whose write took effect

row  == <<status, version, held>>
vars == <<status, version, pc, req, answer, due, sent, held, applied>>

Phases  == {"new", "read", "write", "reply", "done", "dead"}
Answers == {"none", "invalid", "notfound", "conflict", "failed", "updated"}

TypeOK ==
  /\ status \in [Orders -> Statuses \cup {"NONE"}]
  /\ version \in [Orders -> Nat]
  /\ pc \in [Updates -> Phases]
  /\ req \in [Updates -> Request]
  /\ answer \in [Updates -> Answers]
  /\ due \subseteq Updates
  /\ sent \subseteq Updates
  /\ held \in [Orders -> Seq(Statuses)]
  /\ applied \subseteq Updates

Init ==
  /\ status = [o \in Orders |-> "NONE"]
  /\ version = [o \in Orders |-> 0]
  /\ pc = [u \in Updates |-> "new"]
  /\ req \in [Updates -> Asked]
  /\ answer = [u \in Updates |-> "none"]
  /\ due = {}
  /\ sent = {}
  /\ held = [o \in Orders |-> <<>>]
  /\ applied = {}

-----------------------------------------------------------------------------
(* The INSERT of CreateOrder: status PLACED, version by default 1.         *)
FirstStatus == "PLACED"

Place(o) ==
  /\ status[o] = "NONE"
  /\ status' = [status EXCEPT ![o] = FirstStatus]
  /\ version' = [version EXCEPT ![o] = 1]
  /\ held' = [held EXCEPT ![o] = <<FirstStatus>>]
  /\ UNCHANGED <<pc, req, answer, due, sent, applied>>

(* isValidStatusTransition.                                                *)
ValidTransition(from, to) ==
  \/ from = "PLACED" /\ to \in {"PROCESSING", "CANCELLED"}
  \/ from = "PROCESSING" /\ to \in {"SHIPPED", "CANCELLED"}
  \/ from = "SHIPPED" /\ to = "DELIVERED"

Answer(u, a) ==
  /\ pc' = [pc EXCEPT ![u] = "done"]
  /\ answer' = [answer EXCEPT ![u] = a]
  /\ UNCHANGED <<req, due, sent>>

(* Decode the request and ValidateOrderStatus.                             *)
Receive(u) ==
  /\ pc[u] = "new"
  /\ IF req[u].status \in Statuses
       THEN /\ pc' = [pc EXCEPT ![u] = "read"]
            /\ UNCHANGED <<req, answer, due, sent>>
       ELSE Answer(u, "invalid")
  /\ UNCHANGED <<row, applied>>

(* GetOrderById and what UpdateOrderStatus decides on the row it returned. *)
VersionUnchecked(u) == TRUE
VersionMatches(u) == version[req[u].order] = req[u].version

ReadMissing(u) ==
  /\ pc[u] = "read"
  /\ status[req[u].order] = "NONE"
  /\ Answer(u, "notfound")
  /\ UNCHANGED <<row, applied>>

ReadConflict(u) ==
  /\ pc[u] = "read"
  /\ status[req[u].order] # "NONE"
  /\ ~ VersionMatches(u)
  /\ Answer(u, "conflict")
  /\ UNCHANGED <<row, applied>>

ReadIllegal(u) ==
  /\ pc[u] = "read"
  /\ status[req[u].order] # "NONE"
  /\ VersionMatches(u)
  /\ ~ ValidTransition(status[req[u].order], req[u].status)
  /\ Answer(u, "invalid")
  /\ UNCHANGED <<row, applied>>

ReadOk(u) ==
  /\ pc[u] = "read"
  /\ status[req[u].order] # "NONE"
  /\ VersionMatches(u)
  /\ ValidTransition(status[req[u].order], req[u].status)
  /\ pc' = [pc EXCEPT ![u] = "write"]
  /\ UNCHANGED <<row, req, answer, due, sent, applied>>

(* UPDATE ... SET status, version = version + 1 WHERE id AND version.      *)
WriteHitsAnyVersion(u) == TRUE
WriteHits(u) == version[req[u].order] = req[u].version

SameVersion(o) == version[o]
NextVersion(o) == version[o] + 1

WriteOk(u, acked) ==
  LET o == req[u].order
  IN  /\ pc[u] = "write"
      /\ WriteHits(u)
      /\ status' = [status EXCEPT ![o] = req[u].status]
      /\ version' = [version EXCEPT ![o] = NextVersion(o)]
      /\ held' = [held EXCEPT ![o] = Append(@, req[u].status)]
      /\ applied' = applied \cup {u}
      /\ IF acked
           THEN /\ pc' = [pc EXCEPT ![u] = "reply"]
                /\ UNCHANGED <<req, answer, due, sent>>
           ELSE Answer(u, "failed")

WriteConflict(u) ==
  /\ pc[u] = "write"
  /\ ~ WriteHits(u)
  /\ Answer(u, "conflict")
  /\ UNCHANGED <<row, applied>>

SwallowedError == "none"
StatementErrorAnswer == "failed"

(* A statement fails without effect (timeout, lost connection).            *)
StatementFails(u) ==
  /\ pc[u] \in {"read", "write"}
  /\ Answer(u, StatementErrorAnswer)
  /\ UNCHANGED <<row, applied>>

(* Start the status e-mail in the background, answer 200.                  *)
Reply(u) ==
  /\ pc[u] = "reply"
  /\ pc' = [pc EXCEPT ![u] = "done"]
  /\ answer' = [answer EXCEPT ![u] = "updated"]
  /\ due' = due \cup {u}
  /\ UNCHANGED <<row, req, sent, applied>>

(* The process serving u is killed.                                        *)
Crash(u) ==
  /\ pc[u] \in {"read", "write", "reply"}
  /\ pc' = [pc EXCEPT ![u] = "dead"]
  /\ UNCHANGED <<row, req, answer, due, sent, applied>>

(* sendOrderStatusUpdateEmail: it announces the status the update asked    *)
(* for, whatever the order's status has become; or it fails, or its        *)
(* process dies, and the e-mail is never sent.                             *)
MailStatus(u) ==
  /\ u \in due
  /\ due' = due \ {u}
  /\ sent' = sent \cup {u}
  /\ UNCHANGED <<row, pc, req, answer, applied>>

MailLost(u) ==
  /\ u \in due
  /\ due' = due \ {u}
  /\ UNCHANGED <<row, pc, req, answer, sent, applied>>

(* Updates is finite: when each has ended nothing is left to do.           *)
AllEnded ==
  /\ \A o \in Orders : status[o] # "NONE"
  /\ \A u \in Updates : pc[u] \in {"done", "dead"}
  /\ due = {}
  /\ UNCHANGED vars

Handle(u) ==
  \/ ReadMissing(u) \/ ReadConflict(u) \/ ReadIllegal(u) \/ ReadOk(u)
  \/ WriteConflict(u) \/ \E acked \in BOOLEAN : WriteOk(u, acked)
  \/ StatementFails(u) \/ Reply(u)

Task(u) == MailStatus(u) \/ MailLost(u)

Next ==
  \/ \E o \in Orders : Place(o)
  \/ \E u \in Updates : Receive(u) \/ Handle(u) \/ Crash(u) \/ Task(u)
  \/ AllEnded

Spec == Init /\ [][Next]_vars

(* A handler and a background task that have started run to an end: each   *)
(* statement has a 10 s context, each e-mail a bounded number of attempts. *)
FairSpec == Spec /\ \A u \in Updates : WF_vars(Handle(u)) /\ WF_vars(Task(u))

-----------------------------------------------------------------------------
(* The status of an order follows the life cycle, although the transition  *)
(* was checked on a row that may have changed before the write.            *)
Lifecycle == INSTANCE OrderLifecycle WITH Orders <- Orders, status <- status
LifecycleSpec == Lifecycle!Spec

(* The version tells the status: 1, 2, 3 and 4 are PLACED, PROCESSING,     *)
(* SHIPPED and DELIVERED unless the last move was a cancellation.  Hence   *)
(* at most three updates of an order ever take effect.                     *)
VersionTellsStatus ==
  \A o \in Orders :
    /\ version[o] = 0 => status[o] = "NONE"
    /\ version[o] = 1 => status[o] = "PLACED"
    /\ version[o] = 2 => status[o] \in {"PROCESSING", "CANCELLED"}
    /\ version[o] = 3 => status[o] \in {"SHIPPED", "CANCELLED"}
    /\ version[o] = 4 => status[o] = "DELIVERED"
    /\ version[o] <= 4

(* Of all the updates sent for one version of an order at most one takes   *)
(* effect, counting those whose client was told otherwise: a retry after a *)
(* lost answer is never applied twice.                                     *)
OneWinnerPerVersion ==
  \A u, v \in applied :
    req[u].order = req[v].order /\ req[u].version = req[v].version => u = v

(* Whoever is answered 200 made the change: the order had the status they  *)
(* asked for as the version after the one they named.                      *)
UpdatedIsRecorded ==
  \A u \in Updates :
    answer[u] = "updated" =>
      LET h == held[req[u].order]
          n == req[u].version
      IN  n + 1 \in DOMAIN h /\ h[n + 1] = req[u].status

(* A status e-mail tells of a status the order had, and no two e-mails     *)
(* tell the same customer the same status of the same order.               *)
MailIsTrueAndUnique ==
  /\ \A u \in due \cup sent :
       \E k \in DOMAIN held[req[u].order] :
         held[req[u].order][k] = req[u].status
  /\ \A u, v \in due \cup sent :
       req[u].order = req[v].order /\ req[u].status = req[v].status => u = v

(* An update in progress is answered, unless its process dies.             *)
UpdateIsAnswered ==
  \A u \in Updates :
    pc[u] \in {"read", "write", "reply"} ~> (answer[u] # "none" \/ pc[u] = "dead")
=============================================================================
