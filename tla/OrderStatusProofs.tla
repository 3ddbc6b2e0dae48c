-------------------------- MODULE OrderStatusProofs -------------------------
(***************************************************************************)
(* Theorems about OrderStatus for any orders, any number of updates and    *)
(* anything they may ask.  The key part of the inductive invariant is      *)
(* PendingInv: an update about to write either finds the very row version  *)
(* it checked the transition on, or finds a higher one and will miss.      *)
(***************************************************************************)
EXTENDS OrderStatus, TLAPS

(* The version is the number of statuses held so far, the last of which is *)
(* the current one.                                                        *)
HeldInv ==
  \A o \in Orders :
    /\ version[o] = Len(held[o])
    /\ version[o] # 0 => status[o] = held[o][version[o]]

(* A status is held at one version only: the order of the life cycle fixes *)
(* it, and a cancellation is the last thing that happens.                  *)
StatusOnce(h) ==
  \A k \in 1 .. Len(h) :
    /\ h[k] = "PLACED" => k = 1
    /\ h[k] = "PROCESSING" => k = 2
    /\ h[k] = "SHIPPED" => k = 3
    /\ h[k] = "DELIVERED" => k = 4
    /\ h[k] = "CANCELLED" => k = Len(h)

HistoryInv == \A o \in Orders : StatusOnce(held[o])

(* The transition an update checked is still the one it would make, or the *)
(* version it checked is gone for good.                                    *)
PendingInv ==
  \A u \in Updates :
    pc[u] = "write" =>
      LET o == req[u].order
      IN  /\ req[u].status \in Statuses
          /\ req[u].version <= version[o]
          /\ status[o] # "NONE"
          /\ req[u].version = version[o] => ValidTransition(status[o], req[u].status)

(* An applied update left its mark in the history at the version after the *)
(* one it named, and no other update did.                                  *)
AppliedInv ==
  /\ \A u \in applied :
       LET h == held[req[u].order]
           n == req[u].version
       IN  /\ n \in Nat /\ n + 1 \in DOMAIN h /\ h[n + 1] = req[u].status
           /\ pc[u] \in {"reply", "done", "dead"}
  /\ OneWinnerPerVersion

(* Only updates that took effect are answered 200 or mailed about.         *)
AnswerInv ==
  /\ \A u \in Updates : pc[u] = "reply" \/ answer[u] = "updated" => u \in applied
  /\ due \cup sent \subseteq applied

IInv ==
  /\ TypeOK /\ VersionTellsStatus /\ HeldInv /\ HistoryInv
  /\ PendingInv /\ AppliedInv /\ AnswerInv

-----------------------------------------------------------------------------
(* The updates' steps that leave every row as it is.                       *)

RowKept(u) ==
  \/ Receive(u) \/ ReadMissing(u) \/ ReadConflict(u) \/ ReadIllegal(u)
  \/ ReadOk(u) \/ WriteConflict(u) \/ StatementFails(u) \/ Reply(u) \/ Crash(u)
  \/ MailStatus(u) \/ MailLost(u)

LEMMA NextCases ==
  ASSUME [Next]_vars
  PROVE  \/ \E o \in Orders : Place(o)
         \/ \E u \in Updates : RowKept(u)
         \/ \E u \in Updates, acked \in BOOLEAN : WriteOk(u, acked)
         \/ UNCHANGED vars
  BY DEF Next, Handle, Task, RowKept, AllEnded

(* What such a step does to the update that takes it: it goes on to the    *)
(* write only after checking the row, and it answers 200 or starts an      *)
(* e-mail only after the write.                                            *)
Effect(u) ==
  /\ UNCHANGED <<status, version, held, applied, req>>
  /\ \E x \in Phases : pc' = [pc EXCEPT ![u] = x]
  /\ \E a \in Answers : answer' = [answer EXCEPT ![u] = a]
  /\ pc'[u] = "write" =>
       \/ pc[u] = "write"
       \/ /\ status[req[u].order] # "NONE"
          /\ req[u].version = version[req[u].order]
          /\ ValidTransition(status[req[u].order], req[u].status)
  /\ pc'[u] = "reply" => pc[u] = "reply"
  /\ pc[u] \in {"reply", "done", "dead"} => pc'[u] \in {"reply", "done", "dead"}
  /\ answer'[u] = "updated" => answer[u] = "updated" \/ pc[u] = "reply"
  /\ due' \subseteq due \cup {u}
  /\ sent' \subseteq sent \cup {u}
  /\ u \in due' \cup sent' => pc[u] = "reply" \/ u \in due \cup sent

LEMMA RowKeptEffect ==
  ASSUME TypeOK, NEW u \in Updates, RowKept(u)
  PROVE  Effect(u)
<1>. USE DEF TypeOK, Effect, row
<1>0. /\ pc' = pc => pc' = [pc EXCEPT ![u] = pc[u]]
      /\ answer' = answer => answer' = [answer EXCEPT ![u] = answer[u]]
  OBVIOUS
<1>1. CASE Receive(u)
  <2>1. CASE req[u].status \in Statuses
    BY <1>0, <1>1, <2>1 DEF Receive, Phases
  <2>2. CASE req[u].status \notin Statuses
    BY <1>1, <2>2 DEF Receive, Answer, Phases, Answers
  <2>. QED
    BY <2>1, <2>2
<1>2. CASE ReadMissing(u) \/ ReadConflict(u) \/ ReadIllegal(u) \/ WriteConflict(u)
  BY <1>2 DEF ReadMissing, ReadConflict, ReadIllegal, WriteConflict, Answer,
              Phases, Answers
<1>3. CASE ReadOk(u)
  BY <1>0, <1>3 DEF ReadOk, VersionMatches, Phases
<1>4. CASE StatementFails(u)
  BY <1>4 DEF StatementFails, StatementErrorAnswer, Answer, Phases, Answers
<1>5. CASE Reply(u)
  BY <1>5 DEF Reply, Phases, Answers
<1>6. CASE Crash(u)
  BY <1>0, <1>6 DEF Crash, Phases
<1>7. CASE MailStatus(u) \/ MailLost(u)
  BY <1>0, <1>7 DEF MailStatus, MailLost
<1>. QED
  BY <1>1, <1>2, <1>3, <1>4, <1>5, <1>6, <1>7 DEF RowKept

-----------------------------------------------------------------------------

LEMMA InitInv == Init => IInv
<1>. SUFFICES ASSUME Init PROVE IInv
  OBVIOUS
<1>. USE DEF Init
<1>1. TypeOK
  BY AskedAssumption DEF TypeOK, Phases, Answers
<1>2. VersionTellsStatus /\ HeldInv /\ HistoryInv
  BY DEF VersionTellsStatus, HeldInv, HistoryInv, StatusOnce
<1>3. PendingInv /\ AppliedInv /\ AnswerInv
  BY DEF PendingInv, AppliedInv, OneWinnerPerVersion, AnswerInv
<1>. QED
  BY <1>1, <1>2, <1>3 DEF IInv

LEMMA VersionRange ==
  ASSUME TypeOK, VersionTellsStatus, NEW o \in Orders
  PROVE  /\ version[o] \in {0, 1, 2, 3, 4}
         /\ status[o] = "NONE" => version[o] = 0
         /\ ValidTransition(status[o], "PROCESSING") => version[o] = 1
         /\ ValidTransition(status[o], "SHIPPED") => version[o] = 2
         /\ ValidTransition(status[o], "DELIVERED") => version[o] = 3
         /\ ValidTransition(status[o], "CANCELLED") => version[o] \in {1, 2}
<1>1. version[o] \in {0, 1, 2, 3, 4}
  BY DEF TypeOK, VersionTellsStatus
<1>. QED
  BY <1>1 DEF VersionTellsStatus, ValidTransition

(* The three kinds of step, one lemma each.                                *)

LEMMA PlaceStep ==
  ASSUME IInv, NEW o \in Orders, Place(o)
  PROVE  IInv'
<1>. USE DEF IInv
<1>1. /\ version[o] = 0 /\ Len(held[o]) = 0
      /\ status' = [status EXCEPT ![o] = "PLACED"]
      /\ version' = [version EXCEPT ![o] = 1]
      /\ held' = [held EXCEPT ![o] = <<"PLACED">>]
      /\ UNCHANGED <<pc, req, answer, due, sent, applied>>
  BY VersionRange DEF Place, FirstStatus, HeldInv, TypeOK
<1>2. TypeOK'
  BY <1>1 DEF TypeOK, Statuses
<1>3. VersionTellsStatus'
  BY <1>1 DEF TypeOK, VersionTellsStatus
<1>4. HeldInv' /\ HistoryInv'
  BY <1>1 DEF TypeOK, HeldInv, HistoryInv, StatusOnce
<1>5. PendingInv'
  BY <1>1 DEF TypeOK, PendingInv, Place
<1>6. AppliedInv'
  <2>1. ASSUME NEW u \in applied PROVE req[u].order # o
    BY <1>1, <2>1 DEF AppliedInv, TypeOK
  <2>. QED
    BY <1>1, <2>1 DEF TypeOK, AppliedInv, OneWinnerPerVersion, Request
<1>7. AnswerInv'
  BY <1>1 DEF AnswerInv
<1>. QED
  BY <1>2, <1>3, <1>4, <1>5, <1>6, <1>7

LEMMA RowKeptStep ==
  ASSUME IInv, NEW u \in Updates, RowKept(u)
  PROVE  IInv'
<1>. USE DEF IInv
<1>1. Effect(u)
  BY RowKeptEffect
<1>2. TypeOK'
  BY <1>1 DEF Effect, TypeOK
<1>3. VersionTellsStatus' /\ HeldInv' /\ HistoryInv'
  BY <1>1 DEF Effect, VersionTellsStatus, HeldInv, HistoryInv, StatusOnce
<1>4. PendingInv'
  <2>. SUFFICES ASSUME NEW v \in Updates, pc'[v] = "write"
                PROVE  LET o == req[v].order
                       IN  /\ req[v].status \in Statuses
                           /\ req[v].version <= version[o]
                           /\ status[o] # "NONE"
                           /\ req[v].version = version[o] =>
                                ValidTransition(status[o], req[v].status)
    BY <1>1 DEF Effect, PendingInv, ValidTransition
  <2>1. CASE pc[v] = "write"
    BY <2>1 DEF PendingInv
  <2>2. CASE pc[v] # "write"
    <3>1. v = u
      BY <1>1, <2>2 DEF Effect, TypeOK
    <3>. QED
      BY <1>1, <2>2, <3>1 DEF Effect, ValidTransition, Statuses, TypeOK, Request
  <2>. QED
    BY <2>1, <2>2
<1>5. AppliedInv'
  BY <1>1 DEF Effect, AppliedInv, OneWinnerPerVersion, TypeOK
<1>6. AnswerInv'
  BY <1>1 DEF Effect, AnswerInv, TypeOK
<1>. QED
  BY <1>2, <1>3, <1>4, <1>5, <1>6

LEMMA WriteStep ==
  ASSUME IInv, NEW u \in Updates, NEW acked \in BOOLEAN, WriteOk(u, acked)
  PROVE  IInv'
<1>. USE DEF IInv
<1>. DEFINE o == req[u].order
            s == req[u].status
            n == version[o]
<1>1. /\ o \in Orders /\ s \in Statuses /\ n \in Nat \ {0}
      /\ req[u].version = n /\ pc[u] = "write"
      /\ ValidTransition(status[o], s)
      /\ n = Len(held[o]) /\ held[o] \in Seq(Statuses)
  <2>1. o \in Orders /\ pc[u] = "write" /\ req[u].version = n
    BY DEF WriteOk, WriteHits, TypeOK, Request
  <2>2. s \in Statuses /\ ValidTransition(status[o], s) /\ status[o] # "NONE"
    BY <2>1 DEF PendingInv
  <2>3. n \in Nat /\ n # 0
    BY <2>1, <2>2 DEF TypeOK, VersionTellsStatus
  <2>. QED
    BY <2>1, <2>2, <2>3 DEF HeldInv, TypeOK
<1>2. /\ status' = [status EXCEPT ![o] = s]
      /\ version' = [version EXCEPT ![o] = n + 1]
      /\ held' = [held EXCEPT ![o] = Append(held[o], s)]
      /\ applied' = applied \cup {u}
      /\ UNCHANGED <<req, due, sent>>
  BY DEF WriteOk, NextVersion, Answer
<1>3. /\ \/ pc' = [pc EXCEPT ![u] = "reply"] /\ answer' = answer
         \/ pc' = [pc EXCEPT ![u] = "done"] /\ answer' = [answer EXCEPT ![u] = "failed"]
  BY DEF WriteOk, Answer
<1>4. /\ Append(held[o], s) \in Seq(Statuses)
      /\ Len(Append(held[o], s)) = n + 1
      /\ Append(held[o], s)[n + 1] = s
      /\ \A k \in 1 .. n : Append(held[o], s)[k] = held[o][k]
  BY <1>1
<1>. HIDE DEF o, s, n
<1>5. TypeOK'
  <2>1. /\ status' \in [Orders -> Statuses \cup {"NONE"}]
        /\ version' \in [Orders -> Nat]
        /\ held' \in [Orders -> Seq(Statuses)]
    BY <1>1, <1>2, <1>4 DEF TypeOK
  <2>2. pc' \in [Updates -> Phases] /\ answer' \in [Updates -> Answers]
    BY <1>3 DEF TypeOK, Phases, Answers
  <2>. QED
    BY <1>2, <2>1, <2>2 DEF TypeOK
<1>6. VersionTellsStatus'
  <2>1. s \in {"PROCESSING", "SHIPPED", "DELIVERED", "CANCELLED"}
    BY <1>1 DEF ValidTransition
  <2>2. /\ n = version[o]
        /\ s = "PROCESSING" => n = 1
        /\ s = "SHIPPED" => n = 2
        /\ s = "DELIVERED" => n = 3
        /\ s = "CANCELLED" => n \in {1, 2}
    BY <1>1, VersionRange DEF n
  <2>3. status'[o] = s /\ version'[o] = n + 1
    BY <1>1, <1>2 DEF TypeOK
  <2>4. ASSUME NEW x \in Orders, x # o
        PROVE  status'[x] = status[x] /\ version'[x] = version[x]
    BY <1>2, <2>4 DEF TypeOK
  <2>. QED
    BY <1>1, <2>1, <2>2, <2>3, <2>4 DEF VersionTellsStatus
<1>7. HeldInv'
  BY <1>1, <1>2, <1>4 DEF TypeOK, HeldInv
<1>8. PendingInv'
  <2>. SUFFICES ASSUME NEW v \in Updates, pc'[v] = "write"
                PROVE  LET x == req[v].order
                       IN  /\ req[v].status \in Statuses
                           /\ req[v].version <= version'[x]
                           /\ status'[x] # "NONE"
                           /\ req[v].version = version'[x] =>
                                ValidTransition(status'[x], req[v].status)
    BY <1>2 DEF PendingInv, ValidTransition
  <2>1. pc[v] = "write"
    BY <1>1, <1>3 DEF TypeOK
  <2>2. /\ req[v].order \in Orders /\ req[v].version \in Int
        /\ version[req[v].order] \in Nat
    BY DEF TypeOK, Request
  <2>3. CASE req[v].order = o
    BY <1>1, <1>2, <2>1, <2>2, <2>3 DEF PendingInv, TypeOK, Statuses, n
  <2>4. CASE req[v].order # o
    BY <1>2, <2>1, <2>2, <2>4 DEF PendingInv, TypeOK
  <2>. QED
    BY <2>3, <2>4
<1>9. AppliedInv'
  <2>1. ASSUME NEW v \in applied
        PROVE  /\ req[v].version \in Nat
               /\ req[v].version + 1 \in DOMAIN held'[req[v].order]
               /\ held'[req[v].order][req[v].version + 1] = req[v].status
               /\ pc'[v] \in {"reply", "done", "dead"}
               /\ req[v].order = o => req[v].version < n
               /\ v # u
    <3>1. /\ req[v].version \in Nat
          /\ req[v].version + 1 \in DOMAIN held[req[v].order]
          /\ held[req[v].order][req[v].version + 1] = req[v].status
          /\ pc[v] \in {"reply", "done", "dead"}
          /\ v \in Updates /\ req[v].order \in Orders
      BY DEF AppliedInv, TypeOK, Request
    <3>2. v # u
      BY <1>1, <3>1
    <3>3. CASE req[v].order = o
      BY <1>1, <1>2, <1>3, <1>4, <3>1, <3>2, <3>3 DEF TypeOK
    <3>4. CASE req[v].order # o
      BY <1>1, <1>2, <1>3, <3>1, <3>2, <3>4 DEF TypeOK
    <3>. QED
      BY <3>1, <3>2, <3>3, <3>4
  <2>2. /\ req[u].version \in Nat
        /\ req[u].version + 1 \in DOMAIN held'[req[u].order]
        /\ held'[req[u].order][req[u].version + 1] = req[u].status
        /\ pc'[u] \in {"reply", "done", "dead"}
    BY <1>1, <1>2, <1>3, <1>4 DEF TypeOK, o, s
  <2>3. OneWinnerPerVersion'
    BY <1>1, <1>2, <2>1 DEF AppliedInv, OneWinnerPerVersion, o
  <2>. QED
    BY <1>2, <2>1, <2>2, <2>3 DEF AppliedInv
<1>10. AnswerInv'
  BY <1>2, <1>3 DEF AnswerInv, TypeOK
<1>11. HistoryInv'
  <2>1. StatusOnce(Append(held[o], s))
    <3>1. /\ s \in {"PROCESSING", "SHIPPED", "DELIVERED", "CANCELLED"}
          /\ s = "PROCESSING" => n = 1
          /\ s = "SHIPPED" => n = 2
          /\ s = "DELIVERED" => n = 3
      BY <1>1, VersionRange DEF n, ValidTransition
    <3>2. \A k \in 1 .. n : held[o][k] # "CANCELLED"
      <4>1. status[o] = held[o][n] /\ status[o] # "CANCELLED"
        BY <1>1 DEF HeldInv, ValidTransition, n
      <4>. QED
        BY <1>1, <4>1 DEF HistoryInv, StatusOnce
    <3>3. ASSUME NEW k \in 1 .. n
          PROVE  /\ held[o][k] = "PLACED" => k = 1
                 /\ held[o][k] = "PROCESSING" => k = 2
                 /\ held[o][k] = "SHIPPED" => k = 3
                 /\ held[o][k] = "DELIVERED" => k = 4
      BY <1>1 DEF HistoryInv, StatusOnce
    <3>. DEFINE h == Append(held[o], s)
    <3>4. /\ Len(h) = n + 1 /\ h[n + 1] = s
          /\ \A k \in 1 .. n : h[k] = held[o][k]
          /\ \A k \in 1 .. n + 1 : k \in 1 .. n \/ k = n + 1
      BY <1>1, <1>4
    <3>. HIDE DEF h
    <3>5. StatusOnce(h)
      BY <3>1, <3>2, <3>3, <3>4 DEF StatusOnce
    <3>. QED
      BY <3>5 DEF h
  <2>2. ASSUME NEW x \in Orders
        PROVE  held'[x] = IF x = o THEN Append(held[o], s) ELSE held[x]
    BY <1>1, <1>2 DEF TypeOK
  <2>. QED
    BY <2>1, <2>2 DEF HistoryInv
<1>. QED
  BY <1>5, <1>6, <1>7, <1>8, <1>9, <1>10, <1>11

-----------------------------------------------------------------------------
(* The theorems.                                                           *)

(* The whole invariant.                                                    *)
THEOREM Invariance == Spec => []IInv
<1>1. IInv /\ [Next]_vars => IInv'
  <2>. SUFFICES ASSUME IInv, [Next]_vars PROVE IInv'
    OBVIOUS
  <2>1. CASE UNCHANGED vars
    BY <2>1 DEF vars, IInv, TypeOK, VersionTellsStatus, HeldInv, HistoryInv,
                StatusOnce, PendingInv, AppliedInv, OneWinnerPerVersion,
                AnswerInv, ValidTransition
  <2>. QED
    BY <2>1, NextCases, PlaceStep, RowKeptStep, WriteStep
<1>. QED
  BY <1>1, InitInv, PTL DEF Spec

(* Rows, requests and answers keep their types.                            *)
THEOREM TypeCorrect == Spec => []TypeOK
  BY Invariance, PTL DEF IInv

(* The version of an order determines its status up to cancellation, so no *)
(* order ever takes more than three updates.                               *)
THEOREM VersionTellsStatusThm == Spec => []VersionTellsStatus
  BY Invariance, PTL DEF IInv

(* Of any number of updates sent for one version at most one is applied.   *)
THEOREM OneWinnerPerVersionThm == Spec => []OneWinnerPerVersion
  BY Invariance, PTL DEF IInv, AppliedInv

(* An update answered 200 is in the order's history where it should be.    *)
THEOREM UpdatedIsRecordedThm == Spec => []UpdatedIsRecorded
<1>1. IInv => UpdatedIsRecorded
  BY DEF IInv, AnswerInv, AppliedInv, UpdatedIsRecorded
<1>. QED
  BY <1>1, Invariance, PTL

LEMMA StatusOnceUnique ==
  ASSUME NEW h, StatusOnce(h), NEW j \in 1 .. Len(h), NEW k \in 1 .. Len(h),
         h[j] = h[k], h[j] \in Statuses
  PROVE  j = k
  BY DEF StatusOnce, Statuses

(* A status e-mail never invents a status and is never sent twice.         *)
THEOREM MailIsTrueAndUniqueThm == Spec => []MailIsTrueAndUnique
<1>1. ASSUME IInv, NEW u \in due \cup sent
      PROVE  /\ u \in applied /\ req[u].order \in Orders
             /\ req[u].version \in Nat
             /\ req[u].version + 1 \in 1 .. Len(held[req[u].order])
             /\ req[u].version + 1 \in DOMAIN held[req[u].order]
             /\ held[req[u].order][req[u].version + 1] = req[u].status
             /\ req[u].status \in Statuses
  <2>1. u \in applied /\ u \in Updates
    BY <1>1 DEF IInv, AnswerInv, TypeOK
  <2>2. req[u].order \in Orders /\ held[req[u].order] \in Seq(Statuses)
    BY <1>1, <2>1 DEF IInv, TypeOK, Request
  <2>. QED
    BY <1>1, <2>1, <2>2 DEF IInv, AppliedInv
<1>2. ASSUME IInv, NEW u \in due \cup sent, NEW v \in due \cup sent,
             req[u].order = req[v].order, req[u].status = req[v].status
      PROVE  u = v
  <2>1. req[u].version + 1 = req[v].version + 1
    <3>1. StatusOnce(held[req[u].order])
      BY <1>1, <1>2 DEF IInv, HistoryInv
    <3>. DEFINE h == held[req[u].order]
                j == req[u].version + 1
                k == req[v].version + 1
    <3>2. /\ j \in 1 .. Len(h) /\ h[j] = req[u].status
          /\ h[j] \in Statuses
      BY <1>1, <1>2
    <3>3. k \in 1 .. Len(h) /\ h[k] = req[v].status
      BY <1>1, <1>2
    <3>. HIDE DEF h, j, k
    <3>4. h[j] = h[k]
      BY <1>2, <3>2, <3>3
    <3>5. StatusOnce(h)
      BY <3>1 DEF h
    <3>6. j = k
      BY <3>2, <3>3, <3>4, <3>5, StatusOnceUnique
    <3>. QED
      BY <3>6 DEF j, k
  <2>2. req[u].version = req[v].version
    BY <1>1, <1>2, <2>1
  <2>. QED
    BY <1>1, <1>2, <2>2 DEF IInv, AppliedInv, OneWinnerPerVersion
<1>3. IInv => MailIsTrueAndUnique
  BY <1>1, <1>2 DEF MailIsTrueAndUnique
<1>. QED
  BY <1>3, Invariance, PTL

(* UpdateOrderStatus implements the order life cycle: every change of a    *)
(* status is a placement or a legal move, whatever interleaves between the *)
(* check of the transition and the write.                                  *)
THEOREM ImplementsLifecycle == Spec => LifecycleSpec
<1>1. Init => Lifecycle!Init
  BY DEF Init, Lifecycle!Init
<1>2. IInv /\ [Next]_vars => [Lifecycle!Next]_status
  <2>. SUFFICES ASSUME IInv, [Next]_vars
                PROVE  Lifecycle!Next \/ UNCHANGED status
    OBVIOUS
  <2>1. ASSUME NEW o \in Orders, Place(o)
        PROVE  Lifecycle!Next
    BY <2>1 DEF Place, FirstStatus, Lifecycle!Next, Lifecycle!Place
  <2>2. ASSUME NEW u \in Updates, RowKept(u)
        PROVE  UNCHANGED status
    BY <2>2, RowKeptEffect DEF Effect, IInv
  <2>3. ASSUME NEW u \in Updates, NEW acked \in BOOLEAN, WriteOk(u, acked)
        PROVE  Lifecycle!Next
    <3>. DEFINE o == req[u].order
                s == req[u].status
    <3>1. /\ o \in Orders /\ s \in Statuses
          /\ ValidTransition(status[o], s)
          /\ status' = [status EXCEPT ![o] = s]
      BY <2>3 DEF WriteOk, WriteHits, IInv, PendingInv, TypeOK, Request
    <3>2. s \in Lifecycle!Allowed(status[o])
      BY <3>1 DEF ValidTransition, Lifecycle!Allowed
    <3>. QED
      BY <3>1, <3>2 DEF Lifecycle!Next, Lifecycle!Move, Lifecycle!Statuses, Statuses
  <2>4. CASE UNCHANGED vars
    BY <2>4 DEF vars
  <2>. QED
    BY <2>1, <2>2, <2>3, <2>4, NextCases
<1>. QED
  BY <1>1, <1>2, Invariance, PTL DEF Spec, LifecycleSpec, Lifecycle!Spec
=============================================================================
