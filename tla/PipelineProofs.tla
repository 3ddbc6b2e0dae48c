--------------------------- MODULE PipelineProofs ---------------------------
(***************************************************************************)
(* Theorems about Pipeline for any requests, addresses, users and rates.   *)
(* The limiter is shown to take the steps of TokenBucket, and its bound is *)
(* proved over those steps; the gates need to know where a request stands  *)
(* when permissions change; and what one counter of the metrics is ahead   *)
(* of the next are the requests between the two additions (CountInv).      *)
(***************************************************************************)
EXTENDS Pipeline, SequenceTheorems, FiniteSetTheorems, TLAPS

(* An entry was refilled no later than it was used, and used no later than *)
(* now.                                                                    *)
TimeInv ==
  \A a \in Addresses : bucket[a].last <= bucket[a].seen /\ bucket[a].seen <= now

(* What was let through since any moment, with what may still be at once.  *)
RateInv ==
  \A a \in Addresses : \A s \in 0 .. now :
    Cost * (passed[a] - before[a][s]) + Level(a) <= Capacity + Rate * (now - s)

(* Who holds the permission while a request of theirs runs is recorded,    *)
(* and nobody else comes to the handler.                                   *)
Holds(r) == <<req[r].user, "admin:write">> \in grants

EntitledInv ==
  \A r \in Requests :
    /\ pc[r] = "new" => answer[r] = "none"
    /\ Running(r) /\ Holds(r) => r \in entitled
    /\ req[r].route = "admin" /\ pc[r] = "handle" => r \in entitled
    /\ req[r].route = "admin" /\ answer[r] = "handled" => r \in entitled

-----------------------------------------------------------------------------
(* Arithmetic of the refill.                                               *)

LEMMA RefillType ==
  ASSUME NEW d \in Nat
  PROVE  Rate * d \in Nat
  BY PipelineAssumption

LEMMA RefillNext ==
  ASSUME NEW d \in Int
  PROVE  Rate * (d + 1) = Rate * d + Rate
  BY PipelineAssumption

LEMMA RefillGrows ==
  ASSUME NEW d \in Nat, NEW e \in Nat, d <= e
  PROVE  Rate * d <= Rate * e
<1>1. PICK k \in Nat : e = d + k
  <2>1. e - d \in Nat /\ e = d + (e - d)
    OBVIOUS
  <2>. QED
    BY <2>1
<1>2. Rate * e = Rate * d + Rate * k
  BY <1>1, PipelineAssumption
<1>3. Rate * d \in Nat /\ Rate * k \in Nat
  BY RefillType
<1>. QED
  BY <1>2, <1>3

LEMMA CostNext ==
  ASSUME NEW n \in Int
  PROVE  Cost * (n + 1) = Cost * n + Cost /\ Cost * n \in Int
  BY PipelineAssumption

LEMMA EntryType ==
  ASSUME TypeOK, TimeInv, NEW a \in Addresses
  PROVE  /\ bucket[a].tokens \in 0 .. Capacity
         /\ bucket[a].last \in Nat /\ bucket[a].seen \in Nat /\ now \in Nat
         /\ bucket[a].last <= bucket[a].seen /\ bucket[a].seen <= now
         /\ now - bucket[a].last \in Nat
  BY PipelineAssumption DEF TypeOK, TimeInv, Entry

LEMMA LevelType ==
  ASSUME TypeOK, TimeInv, NEW a \in Addresses
  PROVE  Level(a) \in 0 .. Capacity
<1>1. Rate * (now - bucket[a].last) \in Nat
  BY EntryType, RefillType
<1>. QED
  BY <1>1, EntryType, PipelineAssumption DEF Level, Capped

LEMMA EntrySeen ==
  ASSUME TypeOK, NEW a \in Addresses
  PROVE  /\ SeenNow(a) \in Entry /\ SeenNow(a).seen = now
         /\ SeenNow(a).last = bucket[a].last /\ SeenNow(a).tokens = bucket[a].tokens
<1>1. bucket[a] \in Entry /\ now \in 0 .. MaxTime
  BY DEF TypeOK
<1>. QED
  BY <1>1 DEF SeenNow, Entry

LEMMA EntryTaken ==
  ASSUME TypeOK, NEW a \in Addresses, NEW n \in 0 .. Capacity
  PROVE  LET e == [SeenNow(a) EXCEPT !.tokens = n, !.last = now]
         IN  e \in Entry /\ e.tokens = n /\ e.last = now /\ e.seen = now
<1>1. SeenNow(a) \in Entry /\ SeenNow(a).seen = now /\ now \in 0 .. MaxTime
  BY EntrySeen DEF TypeOK
<1>. QED
  BY <1>1 DEF Entry

-----------------------------------------------------------------------------
(* Types.                                                                  *)

LEMMA TypeInit == Init => TypeOK /\ TimeInv /\ EntitledInv
<1>. SUFFICES ASSUME Init PROVE TypeOK /\ TimeInv /\ EntitledInv
  OBVIOUS
<1>1. Fresh \in Entry /\ MaxTime \in Nat
  BY PipelineAssumption DEF Fresh, Entry
<1>2. TypeOK
  BY <1>1, PipelineAssumption DEF Init, TypeOK, Codes, Phases, Statuses
<1>3. TimeInv
  BY DEF Init, TimeInv, Fresh
<1>4. EntitledInv
  BY DEF Init, EntitledInv, Running
<1>. QED
  BY <1>2, <1>3, <1>4

(* The steps that leave the clock and the limiter alone.                   *)
Elsewhere == UNCHANGED <<now, limiter, before>>

LimiterStep(r) == LimitAllows(r) \/ LimitRefuses(r)
GateStep(r) ==
  \/ IdentifyFails(r) \/ Identify(r) \/ RefuseAnonymous(r) \/ RefuseInactive(r)
  \/ HasPermission(r) \/ PermissionsFail(r) \/ Handle(r) \/ Panic(r)
CountStep(r) == CountSent(r) \/ CountStatus(r)

LEMMA NextCases ==
  ASSUME [Next]_vars
  PROVE  \/ \E r \in Requests : Arrive(r) \/ LimiterStep(r) \/ GateStep(r) \/ CountStep(r)
         \/ Cleanup \/ Tick
         \/ \E u \in Grantees : \/ \E codes \in SUBSET Codes : Grant(u, codes)
                                \/ \E c \in Codes : Revoke(u, c)
         \/ UNCHANGED vars
  BY DEF Next, Serve, LimiterStep, GateStep, CountStep, AllEnded

(* A gate sends a request on, or answers it.                               *)
LEMMA GateMoves ==
  ASSUME NEW r \in Requests, GateStep(r)
  PROVE  /\ pc[r] \in {"identify", "permission", "handle"}
         /\ UNCHANGED <<now, limiter, before, rights, counters, req>>
         /\ \/ \E p \in {"permission", "handle"} : pc' = [pc EXCEPT ![r] = p] /\ UNCHANGED answer
            \/ /\ pc' = [pc EXCEPT ![r] = "sent"]
               /\ \E s \in Statuses \ {"limited"} :
                    /\ answer' = [answer EXCEPT ![r] = s]
                    /\ s = "handled" => pc[r] = "handle"
  BY DEF GateStep, IdentifyFails, Identify, RefuseAnonymous, RefuseInactive, HasPermission,
         PermissionsFail, Handle, Panic, Goto, Answer, RecoverInside, Statuses

LEMMA TypeStep ==
  ASSUME TypeOK, TimeInv, [Next]_vars
  PROVE  TypeOK' /\ TimeInv'
<1>. USE DEF TypeOK
<1>1. ASSUME NEW r \in Requests, Arrive(r)
      PROVE  TypeOK' /\ TimeInv'
  BY <1>1 DEF Arrive, limiter, Phases, TimeInv
<1>2. ASSUME NEW r \in Requests, LimiterStep(r)
      PROVE  TypeOK' /\ TimeInv'
  <2>. DEFINE a == req[r].address
  <2>1. a \in Addresses
    BY DEF Request
  <2>2. Level(a) \in 0 .. Capacity /\ bucket[a] \in Entry /\ Cost \in Nat
    BY <2>1, LevelType, PipelineAssumption
  <2>3. \A b \in Addresses : bucket[b].last <= bucket[b].seen /\ bucket[b].seen <= now
    BY DEF TimeInv
  <2>4. CASE LimitAllows(r)
    <3>. DEFINE e == [SeenNow(a) EXCEPT !.tokens = Level(a) - Cost, !.last = now]
    <3>1. e \in Entry /\ e.last = now /\ e.seen = now
      <4>1. Level(a) >= Cost
        BY <2>4 DEF LimitAllows, Allow
      <4>2. \A n \in 0 .. Capacity : n >= Cost => n - Cost \in 0 .. Capacity
        BY PipelineAssumption
      <4>3. Level(a) - Cost \in 0 .. Capacity
        BY <2>2, <4>1, <4>2
      <4>. QED
        BY <2>1, <4>3, EntryTaken
    <3>2. bucket' = [bucket EXCEPT ![a] = e]
      BY <2>4 DEF LimitAllows
    <3>3. /\ known' \subseteq Addresses /\ passed' \in [Addresses -> Nat]
          /\ pc' = [pc EXCEPT ![r] = "identify"]
          /\ UNCHANGED <<now, before, rights, counters, req, answer>>
      BY <2>1, <2>4 DEF LimitAllows, Goto
    <3>. HIDE DEF a, e
    <3>. QED
      <4>1. bucket' \in [Addresses -> Entry]
        BY <2>1, <3>1, <3>2
      <4>2. TimeInv'
        BY <2>1, <2>3, <3>1, <3>2, <3>3 DEF TimeInv
      <4>3. TypeOK'
        BY <3>3, <4>1 DEF Phases, rights, counters
      <4>. QED
        BY <4>2, <4>3
  <2>5. CASE LimitRefuses(r)
    <3>1. bucket' = [bucket EXCEPT ![a] = SeenNow(a)]
      BY <2>5 DEF LimitRefuses
    <3>2. /\ known' \subseteq Addresses
          /\ pc' = [pc EXCEPT ![r] = "sent"] /\ answer' = [answer EXCEPT ![r] = "limited"]
          /\ UNCHANGED <<now, passed, before, rights, counters, req>>
      BY <2>1, <2>5 DEF LimitRefuses, Answer
    <3>. HIDE DEF a
    <3>3. /\ SeenNow(a) \in Entry /\ SeenNow(a).seen = now
          /\ SeenNow(a).last = bucket[a].last /\ bucket[a].last <= now
      BY <2>1, EntrySeen, EntryType
    <3>. QED
      <4>1. bucket' \in [Addresses -> Entry]
        BY <2>1, <3>1, <3>3
      <4>2. TimeInv'
        BY <2>1, <2>3, <3>1, <3>2, <3>3 DEF TimeInv
      <4>3. TypeOK'
        BY <3>2, <4>1 DEF Phases, Statuses, rights, counters
      <4>. QED
        BY <4>2, <4>3
  <2>. QED
    BY <1>2, <2>4, <2>5 DEF LimiterStep
<1>3. ASSUME NEW r \in Requests, GateStep(r)
      PROVE  TypeOK' /\ TimeInv'
  <2>1. UNCHANGED <<now, limiter, before, rights, counters, req>>
    BY <1>3, GateMoves
  <2>2. pc' \in [Requests -> Phases]
    <3>1. \E p \in {"permission", "handle", "sent"} : pc' = [pc EXCEPT ![r] = p]
      BY <1>3, GateMoves
    <3>. QED
      BY <3>1 DEF Phases
  <2>3. answer' \in [Requests -> Statuses \cup {"none"}]
    <3>1. answer' = answer \/ \E s \in Statuses : answer' = [answer EXCEPT ![r] = s]
      BY <1>3, GateMoves
    <3>. QED
      BY <3>1
  <2>. QED
    BY <2>1, <2>2, <2>3 DEF limiter, rights, counters, TimeInv
<1>4. ASSUME NEW r \in Requests, CountStep(r)
      PROVE  TypeOK' /\ TimeInv'
  <2>1. CASE CountSent(r)
    BY <2>1 DEF CountSent, limiter, rights, Phases, TimeInv
  <2>2. CASE CountStatus(r)
    <3>1. byStatus' \in [Statuses -> Nat]
      <4>. DEFINE s == answer[r]
      <4>1. byStatus' = [byStatus EXCEPT ![s] = byStatus[s] + 1]
        BY <2>2 DEF CountStatus
      <4>2. byStatus \in [Statuses -> Nat]
        OBVIOUS
      <4>. HIDE DEF s, TypeOK
      <4>3. CASE s \in Statuses
        <5>1. byStatus[s] + 1 \in Nat
          BY <4>2, <4>3
        <5>. QED
          BY <4>1, <4>2, <5>1
      <4>4. CASE s \notin Statuses
        BY <4>1, <4>2, <4>4
      <4>. QED
        BY <4>3, <4>4
    <3>2. pc' \in [Requests -> Phases]
      BY <2>2 DEF CountStatus, Phases
    <3>. QED
      BY <2>2, <3>1, <3>2 DEF CountStatus, limiter, rights, TimeInv
  <2>. QED
    BY <1>4, <2>1, <2>2 DEF CountStep
<1>5. CASE Cleanup
  <2>1. Fresh \in Entry /\ Fresh.last = 0 /\ Fresh.seen = 0 /\ now >= 0
    BY PipelineAssumption DEF Fresh, Entry
  <2>. QED
    BY <1>5, <2>1 DEF Cleanup, rights, counters, TimeInv
<1>6. CASE Tick
  <2>1. now + 1 \in 0 .. MaxTime
    BY <1>6, PipelineAssumption DEF Tick
  <2>2. before' \in [Addresses -> [0 .. MaxTime -> Nat]]
    BY <1>6 DEF Tick
  <2>3. TimeInv'
    BY <1>6, EntryType DEF Tick, limiter, TimeInv
  <2>. QED
    BY <1>6, <2>1, <2>2, <2>3 DEF Tick, limiter, rights, counters
<1>7. ASSUME NEW u \in Grantees, NEW codes \in SUBSET Codes, Grant(u, codes)
      PROVE  TypeOK' /\ TimeInv'
  BY <1>7 DEF Grant, Added, limiter, counters, TimeInv
<1>8. ASSUME NEW u \in Grantees, NEW c \in Codes, Revoke(u, c)
      PROVE  TypeOK' /\ TimeInv'
  BY <1>8 DEF Revoke, Removed, limiter, counters, TimeInv
<1>9. CASE UNCHANGED vars
  BY <1>9 DEF vars, limiter, rights, counters, TimeInv
<1>. QED
  BY <1>1, <1>2, <1>3, <1>4, <1>5, <1>6, <1>7, <1>8, <1>9, NextCases

(* Every variable of the middleware keeps its type; in particular no       *)
(* bucket is ever overdrawn and no clock of an entry is ahead.             *)
THEOREM TypeCorrect == Spec => [](TypeOK /\ TimeInv)
<1>1. TypeOK /\ TimeInv /\ [Next]_vars => (TypeOK /\ TimeInv)'
  BY TypeStep
<1>. QED
  BY <1>1, TypeInit, PTL DEF Spec

-----------------------------------------------------------------------------
(* The limiter takes the steps of TokenBucket.                             *)

SameLevels == \A a \in Addresses : Level(a)' = Level(a)

LEMMA LevelFrame ==
  ASSUME UNCHANGED <<now, bucket>>
  PROVE  SameLevels
  BY DEF SameLevels, Level

LEMMA RefusedLevels ==
  ASSUME TypeOK, NEW r \in Requests, LimitRefuses(r)
  PROVE  SameLevels
<1>. SUFFICES ASSUME NEW b \in Addresses PROVE Level(b)' = Level(b)
  BY DEF SameLevels
<1>1. PICK a \in Addresses : a = req[r].address
  BY DEF TypeOK, Request
<1>2. bucket' = [bucket EXCEPT ![a] = SeenNow(a)] /\ now' = now
  BY <1>1 DEF LimitRefuses
<1>3. SeenNow(a).last = bucket[a].last /\ SeenNow(a).tokens = bucket[a].tokens
  BY <1>1, EntrySeen
<1>4. bucket'[b].tokens = bucket[b].tokens /\ bucket'[b].last = bucket[b].last
  BY <1>1, <1>2, <1>3 DEF TypeOK
<1>. QED
  BY <1>2, <1>4 DEF Level

Takes(a) ==
  /\ Level(a) >= Cost /\ Level(a)' = Level(a) - Cost
  /\ \A b \in Addresses \ {a} : Level(b)' = Level(b)
  /\ passed' = [passed EXCEPT ![a] = @ + 1]
  /\ UNCHANGED <<now, before>>

LEMMA AllowedLevels ==
  ASSUME TypeOK, TimeInv, NEW r \in Requests, LimitAllows(r)
  PROVE  \E a \in Addresses : Takes(a)
<1>1. PICK a \in Addresses : a = req[r].address
  BY DEF TypeOK, Request
<1>2. PICK n : n = Level(a) - Cost
  OBVIOUS
<1>3. PICK e : e = [SeenNow(a) EXCEPT !.tokens = n, !.last = now]
  OBVIOUS
<1>4. /\ Level(a) >= Cost /\ bucket' = [bucket EXCEPT ![a] = e]
      /\ passed' = [passed EXCEPT ![a] = @ + 1] /\ UNCHANGED <<now, before>>
  BY <1>1, <1>2, <1>3 DEF LimitAllows, Allow
<1>5. n \in 0 .. Capacity
  BY <1>2, <1>4, LevelType, PipelineAssumption
<1>6. e.tokens = n /\ e.last = now
  BY <1>3, <1>5, EntryTaken
<1>7. bucket'[a] = e /\ \A b \in Addresses \ {a} : bucket'[b] = bucket[b]
  BY <1>4 DEF TypeOK
<1>8. now - now = 0 /\ Rate * 0 = 0
  BY PipelineAssumption DEF TypeOK
<1>9. Level(a)' = n
  <2>1. Level(a)' = Capped(n + Rate * (now - now))
    BY <1>4, <1>6, <1>7 DEF Level
  <2>. QED
    BY <1>5, <1>8, <2>1, PipelineAssumption DEF Capped
<1>10. \A b \in Addresses \ {a} : Level(b)' = Level(b)
  BY <1>4, <1>7 DEF Level
<1>11. Takes(a)
  BY <1>2, <1>4, <1>9, <1>10 DEF Takes
<1>. QED
  BY <1>11

(* An entry that is dropped had been full for long (RefillAssumption).     *)
LEMMA CleanupLevels ==
  ASSUME TypeOK, TimeInv, Cleanup
  PROVE  SameLevels
<1>. SUFFICES ASSUME NEW a \in Addresses PROVE Level(a)' = Level(a)
  BY DEF SameLevels
<1>1. now' = now
  BY DEF Cleanup
<1>2. CASE a \in known /\ Idle(a)
  <2>1. bucket'[a] = Fresh
    BY <1>2 DEF Cleanup, TypeOK
  <2>2. now - bucket[a].last >= IdleLimit
    BY <1>2, EntryType, PipelineAssumption DEF Idle
  <2>3. Capacity <= Rate * (now - bucket[a].last)
    <3>1. Rate * IdleLimit <= Rate * (now - bucket[a].last)
      BY <2>2, EntryType, RefillGrows, PipelineAssumption
    <3>2. Rate * IdleLimit \in Nat /\ Rate * (now - bucket[a].last) \in Nat
      BY EntryType, RefillType, PipelineAssumption
    <3>. QED
      BY <3>1, <3>2, RefillAssumption, PipelineAssumption
  <2>4. Level(a) = Capacity
    <3>1. Rate * (now - bucket[a].last) \in Nat
      BY EntryType, RefillType
    <3>. QED
      <4>1. \A t \in 0 .. Capacity, x \in Nat : Capacity <= x => Capped(t + x) = Capacity
        BY PipelineAssumption DEF Capped
      <4>. QED
        BY <2>3, <3>1, <4>1, EntryType DEF Level
  <2>5. Level(a)' = Capacity
    <3>1. Rate * (now - 0) \in Nat
      BY EntryType, RefillType
    <3>2. Level(a)' = Capped(Capacity + Rate * (now - 0))
      BY <1>1, <2>1 DEF Level, Fresh
    <3>. QED
      BY <3>1, <3>2, PipelineAssumption DEF Capped
  <2>. QED
    BY <2>4, <2>5
<1>3. CASE ~ (a \in known /\ Idle(a))
  <2>1. bucket'[a] = bucket[a]
    BY <1>3 DEF Cleanup, TypeOK
  <2>. QED
    BY <1>1, <2>1 DEF Level
<1>. QED
  BY <1>2, <1>3

LEMMA TickLevels ==
  ASSUME TypeOK, TimeInv, Tick, NEW a \in Addresses
  PROVE  Level(a)' = Capped(Level(a) + Rate)
<1>. DEFINE d == now - bucket[a].last
<1>1. d \in Nat /\ bucket[a].tokens \in 0 .. Capacity
  BY EntryType
<1>2. now' - bucket'[a].last = d + 1 /\ bucket'[a] = bucket[a]
  <2>1. now' = now + 1 /\ bucket' = bucket
    BY DEF Tick, limiter
  <2>. QED
    BY <2>1, EntryType
<1>. HIDE DEF d
<1>3. Rate * (d + 1) = Rate * d + Rate /\ Rate * d \in Nat
  BY <1>1, RefillNext, RefillType
<1>4. Level(a) = Capped(bucket[a].tokens + Rate * d)
  BY DEF Level, d
<1>5. Level(a)' = Capped(bucket[a].tokens + Rate * (d + 1))
  BY <1>2 DEF Level
<1>. QED
  BY <1>1, <1>3, <1>4, <1>5, PipelineAssumption DEF Capped

(* Every step is a step of TokenBucket or leaves its variables alone.      *)
Stutter == SameLevels /\ UNCHANGED <<now, passed, before>>

LEMMA BucketCases ==
  ASSUME TypeOK, TimeInv, [Next]_vars
  PROVE  Stutter \/ Tick \/ \E a \in Addresses : Takes(a)
<1>1. ASSUME NEW r \in Requests, Arrive(r) \/ GateStep(r) \/ CountStep(r)
      PROVE  Stutter
  <2>1. UNCHANGED <<now, bucket, passed, before>>
    <3>1. UNCHANGED <<now, limiter, before>>
      BY <1>1, GateMoves DEF Arrive, CountStep, CountSent, CountStatus
    <3>. QED
      BY <3>1 DEF limiter
  <2>. QED
    BY <2>1, LevelFrame DEF Stutter
<1>2. ASSUME NEW r \in Requests, LimitAllows(r)
      PROVE  \E a \in Addresses : Takes(a)
  BY <1>2, AllowedLevels
<1>3. ASSUME NEW r \in Requests, LimitRefuses(r)
      PROVE  Stutter
  BY <1>3, RefusedLevels DEF LimitRefuses, Stutter
<1>4. CASE Cleanup
  BY <1>4, CleanupLevels DEF Cleanup, Stutter
<1>5. ASSUME NEW u \in Grantees,
             \/ \E codes \in SUBSET Codes : Grant(u, codes)
             \/ \E c \in Codes : Revoke(u, c)
      PROVE  Stutter
  BY <1>5, LevelFrame DEF Grant, Revoke, limiter, Stutter
<1>6. CASE UNCHANGED vars
  BY <1>6, LevelFrame DEF vars, limiter, Stutter
<1>. QED
  BY <1>1, <1>2, <1>3, <1>4, <1>5, <1>6, NextCases DEF LimiterStep

LEMMA InitLevels ==
  ASSUME Init, NEW a \in Addresses
  PROVE  Level(a) = Capacity
<1>1. Rate * (0 - 0) = 0
  BY PipelineAssumption
<1>. QED
  BY <1>1, PipelineAssumption DEF Init, Fresh, Level, Capped

LEMMA BucketInit == Init => Bucket!Init
<1>. SUFFICES ASSUME Init PROVE Bucket!Init
  OBVIOUS
<1>1. [a \in Addresses |-> Level(a)] = [a \in Addresses |-> Capacity]
  BY InitLevels
<1>. QED
  BY <1>1 DEF Init, Bucket!Init

LEMMA BucketStep ==
  ASSUME TypeOK, TimeInv, [Next]_vars
  PROVE  [Bucket!Next]_<<now, [a \in Addresses |-> Level(a)], passed, before>>
<1>. DEFINE lv == [a \in Addresses |-> Level(a)]
<1>0. lv' = [a \in Addresses |-> Level(a)']
  OBVIOUS
<1>1. CASE Stutter
  <2>1. lv' = lv
    BY <1>0, <1>1 DEF Stutter, SameLevels
  <2>. QED
    BY <1>1, <2>1 DEF Stutter
<1>2. CASE Tick
  <2>1. lv' = [a \in Addresses |-> Bucket!Capped(lv[a] + Rate)]
    BY <1>0, <1>2, TickLevels DEF Capped, Bucket!Capped
  <2>2. Bucket!Tick
    BY <1>2, <2>1 DEF Tick, limiter, Bucket!Tick
  <2>. QED
    BY <2>2 DEF Bucket!Next
<1>3. ASSUME NEW a \in Addresses, Takes(a)
      PROVE  Bucket!Take(a)
  <2>1. lv' = [lv EXCEPT ![a] = lv[a] - Cost]
    BY <1>0, <1>3 DEF Takes
  <2>. QED
    BY <1>3, <2>1 DEF Takes, Bucket!Take
<1>. QED
  BY <1>1, <1>2, <1>3, BucketCases DEF Bucket!Next

(* The limiter of the middleware, with its late refills and its forgotten  *)
(* addresses, implements a bucket per address that is never forgotten.     *)
THEOREM ImplementsBucket == Spec => BucketSpec
<1>1. TypeOK /\ TimeInv /\ [Next]_vars
      => [Bucket!Next]_<<now, [a \in Addresses |-> Level(a)], passed, before>>
  BY BucketStep
<1>. QED
  BY <1>1, BucketInit, TypeCorrect, PTL DEF Spec, BucketSpec, Bucket!Spec

-----------------------------------------------------------------------------
(* The bound, over the steps of the bucket.                                *)

LEMMA RateInit == Init => RateInv
<1>. SUFFICES ASSUME Init, NEW a \in Addresses, NEW s \in 0 .. now
              PROVE  Cost * (passed[a] - before[a][s]) + Level(a) <= Capacity + Rate * (now - s)
  BY DEF RateInv
<1>1. now = 0 /\ s = 0 /\ MaxTime \in Nat
  BY PipelineAssumption DEF Init
<1>2. passed[a] - before[a][s] = 0 /\ now - s = 0
  BY <1>1 DEF Init
<1>3. Cost * 0 = 0 /\ Rate * 0 = 0
  BY PipelineAssumption
<1>. QED
  BY <1>2, <1>3, InitLevels, PipelineAssumption

LEMMA RateStep ==
  ASSUME TypeOK, TimeInv, RateInv, TypeOK', TimeInv', [Next]_vars
  PROVE  RateInv'
<1>. SUFFICES ASSUME NEW a \in Addresses, NEW s \in 0 .. now'
              PROVE  Cost * (passed'[a] - before'[a][s]) + Level(a)' <= Capacity + Rate * (now' - s)
  BY DEF RateInv
<1>0. /\ passed[a] \in Nat /\ now \in 0 .. MaxTime /\ MaxTime \in Nat
      /\ \A t \in 0 .. MaxTime : before[a][t] \in Nat
      /\ Level(a) \in 0 .. Capacity /\ Cost \in Nat /\ Rate \in Nat /\ Capacity \in Nat
  BY LevelType, PipelineAssumption DEF TypeOK
<1>1. CASE Stutter
  BY <1>1 DEF Stutter, SameLevels, RateInv
<1>2. CASE Tick
  <2>1. /\ now' = now + 1 /\ now < MaxTime /\ passed' = passed
        /\ before'[a] = [before[a] EXCEPT ![now + 1] = passed[a]]
    BY <1>2 DEF Tick, limiter
  <2>2. Level(a)' <= Level(a) + Rate /\ Level(a)' <= Capacity /\ Level(a)' \in Nat
    BY <1>0, <1>2, TickLevels DEF Capped
  <2>3. CASE s = now + 1
    <3>1. before'[a][s] = passed[a]
      BY <1>0, <2>1, <2>3 DEF TypeOK
    <3>2. passed'[a] - before'[a][s] = 0 /\ now' - s = 0
      BY <1>0, <2>1, <2>3, <3>1
    <3>3. Cost * 0 = 0 /\ Rate * 0 = 0
      BY <1>0
    <3>. QED
      BY <1>0, <2>2, <3>2, <3>3
  <2>4. CASE s # now + 1
    <3>1. s \in 0 .. now /\ now' - s = (now - s) + 1
      BY <1>0, <2>1, <2>4
    <3>2. before'[a][s] = before[a][s] /\ before[a][s] \in Nat
      BY <1>0, <2>1, <2>4, <3>1 DEF TypeOK
    <3>3. PICK n \in Int : n = Cost * (passed[a] - before[a][s])
      BY <1>0, <3>2
    <3>4. PICK d \in Nat : d = Rate * (now - s)
      BY <1>0, <3>1, RefillType
    <3>5. n + Level(a) <= Capacity + d
      BY <3>1, <3>3, <3>4 DEF RateInv
    <3>6. Rate * (now' - s) = d + Rate
      BY <1>0, <3>1, <3>4, RefillNext
    <3>7. Cost * (passed'[a] - before'[a][s]) = n
      BY <2>1, <3>2, <3>3
    <3>. QED
      BY <1>0, <2>2, <3>3, <3>4, <3>5, <3>6, <3>7
  <2>. QED
    BY <2>3, <2>4
<1>3. ASSUME NEW b \in Addresses, Takes(b)
      PROVE  Cost * (passed'[a] - before'[a][s]) + Level(a)' <= Capacity + Rate * (now' - s)
  <2>1. UNCHANGED <<now, before>> /\ passed' = [passed EXCEPT ![b] = passed[b] + 1]
    BY <1>3 DEF Takes
  <2>2. CASE a # b
    <3>1. Level(a)' = Level(a) /\ passed'[a] = passed[a]
      BY <1>3, <2>1, <2>2 DEF Takes, TypeOK
    <3>. QED
      BY <2>1, <3>1 DEF RateInv
  <2>3. CASE a = b
    <3>1. Level(a)' = Level(a) - Cost /\ passed'[a] = passed[a] + 1
      BY <1>3, <2>1, <2>3 DEF Takes, TypeOK
    <3>2. before[a][s] \in Nat /\ s \in 0 .. now
      BY <1>0, <2>1
    <3>3. PICK k \in Int : k = passed[a] - before[a][s]
      BY <1>0, <3>2
    <3>4. passed'[a] - before'[a][s] = k + 1
      BY <1>0, <2>1, <3>1, <3>2, <3>3
    <3>5. Cost * (k + 1) = Cost * k + Cost /\ Cost * k \in Int
      BY CostNext
    <3>6. PICK d \in Nat : d = Rate * (now - s)
      BY <1>0, <3>2, RefillType
    <3>7. Cost * k + Level(a) <= Capacity + d
      BY <3>2, <3>3, <3>6 DEF RateInv
    <3>. QED
      BY <1>0, <2>1, <3>1, <3>4, <3>5, <3>6, <3>7
  <2>. QED
    BY <2>2, <2>3
<1>. QED
  BY <1>1, <1>2, <1>3, BucketCases

(* From any moment on, no more requests of an address are let through than *)
(* a full burst and the rate times the time since.                         *)
THEOREM RateIsBoundedThm == Spec => []RateIsBounded
<1>1. TypeOK /\ TimeInv /\ RateInv /\ (TypeOK /\ TimeInv)' /\ [Next]_vars => RateInv'
  BY RateStep
<1>2. ASSUME TypeOK, TimeInv, RateInv PROVE RateIsBounded
  <2>. SUFFICES ASSUME NEW a \in Addresses, NEW s \in 0 .. now
                PROVE  Cost * (passed[a] - before[a][s]) <= Capacity + Rate * (now - s)
    BY DEF RateIsBounded
  <2>1. /\ passed[a] \in Nat /\ before[a][s] \in Nat /\ Level(a) \in Nat
        /\ now - s \in Nat /\ Capacity \in Nat /\ Cost \in Nat
    BY <1>2, LevelType, PipelineAssumption DEF TypeOK
  <2>2. PICK n \in Int : n = Cost * (passed[a] - before[a][s])
    BY <2>1
  <2>3. PICK d \in Nat : d = Rate * (now - s)
    BY <2>1, RefillType
  <2>4. n + Level(a) <= Capacity + d
    BY <1>2, <2>2, <2>3 DEF RateInv
  <2>. QED
    BY <2>1, <2>2, <2>3, <2>4
<1>. QED
  BY <1>1, <1>2, RateInit, TypeCorrect, PTL DEF Spec

-----------------------------------------------------------------------------
(* Permissions that come and go while requests run.                        *)

LEMMA AdminIsGated ==
  ASSUME NEW r \in Requests, req[r].route = "admin"
  PROVE  IsGated(r, "permission")
<1>1. GatesOf("admin") = Append(Member, "permission")
  BY DEF GatesOf
<1>2. 3 \in DOMAIN GatesOf("admin") /\ GatesOf("admin")[3] = "permission"
  <2>. DEFINE Gates == {"signedIn", "active", "permission"}
  <2>1. Member \in Seq(Gates) /\ Len(Member) = 2 /\ "permission" \in Gates
    BY DEF Member
  <2>. HIDE DEF Gates
  <2>2. /\ GatesOf("admin") \in Seq(Gates)
        /\ Len(GatesOf("admin")) = Len(Member) + 1
        /\ GatesOf("admin")[Len(Member) + 1] = "permission"
    <3>1. ASSUME NEW S, NEW s \in Seq(S), NEW e \in S
          PROVE  /\ Append(s, e) \in Seq(S) /\ Len(Append(s, e)) = Len(s) + 1
                 /\ Append(s, e)[Len(s) + 1] = e
      BY AppendProperties
    <3>2. PICK m : m = Member
      OBVIOUS
    <3>3. PICK g \in Gates : g = "permission"
      BY <2>1
    <3>4. m \in Seq(Gates)
      BY <2>1, <3>2
    <3>5. GatesOf("admin") = Append(m, g)
      BY <1>1, <3>2, <3>3
    <3>. QED
      BY <3>1, <3>2, <3>3, <3>4, <3>5
  <2>. QED
    BY <2>1, <2>2
<1>. QED
  BY <1>2 DEF IsGated

LEMMA OnlyAdminIsGated ==
  ASSUME TypeOK, NEW r \in Requests, IsGated(r, "permission")
  PROVE  req[r].route = "admin"
<1>1. req[r].route \in Routes
  BY DEF TypeOK, Request
<1>2. Member \in Seq({"signedIn", "active"})
  BY DEF Member
<1>3. Member \o Member \in Seq({"signedIn", "active"})
  BY <1>2, ConcatProperties
<1>4. ASSUME NEW s \in Seq({"signedIn", "active"}), NEW k \in DOMAIN s PROVE s[k] # "permission"
  BY ElementOfSeq
<1>5. ASSUME req[r].route # "admin" PROVE FALSE
  <2>1. PICK k \in DOMAIN GatesOf(req[r].route) : GatesOf(req[r].route)[k] = "permission"
    BY DEF IsGated
  <2>2. CASE req[r].route = "public"
    <3>1. GatesOf(req[r].route) = << >>
      BY <2>2 DEF GatesOf
    <3>. QED
      BY <2>1, <3>1
  <2>3. CASE req[r].route = "member"
    <3>1. GatesOf(req[r].route) = Member
      BY <2>3 DEF GatesOf
    <3>. QED
      BY <2>1, <3>1, <1>2, <1>4
  <2>4. CASE req[r].route = "orderAdmin"
    <3>1. GatesOf(req[r].route) = Member \o Member
      BY <2>4 DEF GatesOf
    <3>. QED
      BY <2>1, <3>1, <1>3, <1>4
  <2>. QED
    BY <1>1, <1>5, <2>2, <2>3, <2>4 DEF Routes
<1>. QED
  BY <1>5

LEMMA EntitledStep ==
  ASSUME TypeOK, EntitledInv, [Next]_vars
  PROVE  EntitledInv'
<1>. SUFFICES ASSUME NEW q \in Requests
              PROVE  /\ pc'[q] = "new" => answer'[q] = "none"
                     /\ Running(q)' /\ Holds(q)' => q \in entitled'
                     /\ req'[q].route = "admin" /\ pc'[q] = "handle" => q \in entitled'
                     /\ req'[q].route = "admin" /\ answer'[q] = "handled" => q \in entitled'
  BY DEF EntitledInv
<1>0. /\ pc[q] = "new" => answer[q] = "none"
      /\ Running(q) /\ Holds(q) => q \in entitled
      /\ req[q].route = "admin" /\ pc[q] = "handle" => q \in entitled
      /\ req[q].route = "admin" /\ answer[q] = "handled" => q \in entitled
  BY DEF EntitledInv
<1>. USE DEF Running, Holds
<1>1. ASSUME NEW r \in Requests, Arrive(r)
      PROVE  /\ pc'[q] = "new" => answer'[q] = "none"
             /\ Running(q)' /\ Holds(q)' => q \in entitled'
             /\ req'[q].route = "admin" /\ pc'[q] = "handle" => q \in entitled'
             /\ req'[q].route = "admin" /\ answer'[q] = "handled" => q \in entitled'
  BY <1>0, <1>1 DEF Arrive, TypeOK
<1>2. ASSUME NEW r \in Requests, LimiterStep(r) \/ CountStep(r)
      PROVE  /\ pc'[q] = "new" => answer'[q] = "none"
             /\ Running(q)' /\ Holds(q)' => q \in entitled'
             /\ req'[q].route = "admin" /\ pc'[q] = "handle" => q \in entitled'
             /\ req'[q].route = "admin" /\ answer'[q] = "handled" => q \in entitled'
  <2>1. /\ UNCHANGED <<grants, entitled, req>>
        /\ \/ pc[r] = "limit" /\ pc' = [pc EXCEPT ![r] = "identify"] /\ answer' = answer
           \/ /\ pc[r] = "limit" /\ pc' = [pc EXCEPT ![r] = "sent"]
              /\ answer' = [answer EXCEPT ![r] = "limited"]
           \/ pc[r] = "sent" /\ pc' = [pc EXCEPT ![r] = "status"] /\ answer' = answer
           \/ pc[r] = "status" /\ pc' = [pc EXCEPT ![r] = "done"] /\ answer' = answer
    BY <1>2 DEF LimiterStep, LimitAllows, LimitRefuses, Goto, Answer, CountStep, CountSent,
                CountStatus, rights
  <2>. QED
    BY <1>0, <2>1 DEF TypeOK
<1>3. ASSUME NEW r \in Requests, GateStep(r)
      PROVE  /\ pc'[q] = "new" => answer'[q] = "none"
             /\ Running(q)' /\ Holds(q)' => q \in entitled'
             /\ req'[q].route = "admin" /\ pc'[q] = "handle" => q \in entitled'
             /\ req'[q].route = "admin" /\ answer'[q] = "handled" => q \in entitled'
  <2>1. UNCHANGED <<grants, entitled, req>>
    BY <1>3, GateMoves DEF rights
  <2>2. pc[r] \in {"identify", "permission", "handle"}
    BY <1>3, GateMoves
  <2>3. CASE pc' = [pc EXCEPT ![r] = "permission"] /\ UNCHANGED answer
    BY <1>0, <2>1, <2>2, <2>3 DEF TypeOK
  <2>4. CASE pc' = [pc EXCEPT ![r] = "handle"] /\ UNCHANGED answer
    <3>1. pc'[r] = "handle"
      BY <2>4 DEF TypeOK
    <3>2. req[r].route = "admin" => pc[r] = "permission" /\ Holds(r)
      <4>1. CASE Identify(r)
        BY <3>1, <4>1, AdminIsGated DEF Identify, Goto, TypeOK
      <4>2. CASE HasPermission(r)
        BY <3>1, <4>2 DEF HasPermission, Include, PermissionsOf, Goto, Answer, TypeOK
      <4>3. ~ (IdentifyFails(r) \/ RefuseAnonymous(r) \/ RefuseInactive(r)
                \/ PermissionsFail(r) \/ Handle(r) \/ Panic(r))
        BY <3>1 DEF IdentifyFails, RefuseAnonymous, RefuseInactive, PermissionsFail, Handle,
                    Panic, RecoverInside, Answer, TypeOK
      <4>. QED
        BY <1>3, <4>1, <4>2, <4>3 DEF GateStep
    <3>3. req[r].route = "admin" => r \in entitled
      BY <3>2 DEF EntitledInv
    <3>. QED
      BY <1>0, <2>1, <2>2, <2>4, <3>3 DEF TypeOK
  <2>5. ASSUME NEW s \in Statuses, pc' = [pc EXCEPT ![r] = "sent"],
               answer' = [answer EXCEPT ![r] = s], s = "handled" => pc[r] = "handle"
        PROVE  /\ pc'[q] = "new" => answer'[q] = "none"
               /\ Running(q)' /\ Holds(q)' => q \in entitled'
               /\ req'[q].route = "admin" /\ pc'[q] = "handle" => q \in entitled'
               /\ req'[q].route = "admin" /\ answer'[q] = "handled" => q \in entitled'
    BY <1>0, <2>1, <2>2, <2>5 DEF TypeOK
  <2>. QED
    BY <1>3, <2>3, <2>4, <2>5, GateMoves
<1>4. CASE Cleanup \/ Tick \/ UNCHANGED vars
  <2>1. UNCHANGED <<rights, pc, req, answer>>
    BY <1>4 DEF Cleanup, Tick, vars
  <2>. QED
    BY <1>0, <2>1 DEF rights
<1>5. ASSUME NEW u \in Grantees, NEW codes \in SUBSET Codes, Grant(u, codes)
      PROVE  /\ pc'[q] = "new" => answer'[q] = "none"
             /\ Running(q)' /\ Holds(q)' => q \in entitled'
             /\ req'[q].route = "admin" /\ pc'[q] = "handle" => q \in entitled'
             /\ req'[q].route = "admin" /\ answer'[q] = "handled" => q \in entitled'
  <2>1. UNCHANGED <<pc, req, answer>> /\ entitled \subseteq entitled'
    BY <1>5 DEF Grant
  <2>2. Holds(q)' => Holds(q) \/ (req[q].user = u /\ "admin:write" \in codes)
    BY <1>5, <2>1 DEF Grant, Added
  <2>3. Running(q) /\ req[q].user = u /\ "admin:write" \in codes => q \in entitled'
    BY <1>5 DEF Grant
  <2>. QED
    BY <1>0, <2>1, <2>2, <2>3
<1>6. ASSUME NEW u \in Grantees, NEW c \in Codes, Revoke(u, c)
      PROVE  /\ pc'[q] = "new" => answer'[q] = "none"
             /\ Running(q)' /\ Holds(q)' => q \in entitled'
             /\ req'[q].route = "admin" /\ pc'[q] = "handle" => q \in entitled'
             /\ req'[q].route = "admin" /\ answer'[q] = "handled" => q \in entitled'
  BY <1>0, <1>6 DEF Revoke, Removed
<1>. QED
  BY <1>1, <1>2, <1>3, <1>4, <1>5, <1>6, NextCases

(* A handler behind requirePermission runs only for a user who held the    *)
(* permission at some moment of the request, whoever grants and revokes    *)
(* meanwhile.                                                              *)
THEOREM HandledWereEntitledThm == Spec => []HandledWereEntitled
<1>1. TypeOK /\ EntitledInv /\ [Next]_vars => EntitledInv'
  BY EntitledStep
<1>2. TypeOK /\ EntitledInv => HandledWereEntitled
  BY OnlyAdminIsGated DEF EntitledInv, HandledWereEntitled
<1>. QED
  BY <1>1, <1>2, TypeInit, TypeCorrect, PTL DEF Spec

-----------------------------------------------------------------------------
(* The counters.  What one counter is ahead of the next are the requests   *)
(* between the two additions: they are finitely many, for they arrived one *)
(* by one, however many may still come.                                    *)
Unsent    == {r \in Requests : pc[r] \in {"limit", "identify", "permission", "handle", "sent"}}
Uncounted == {r \in Requests : pc[r] = "status"}

CountInv ==
  /\ IsFiniteSet(Unsent) /\ IsFiniteSet(Uncounted)
  /\ received = sent + Cardinality(Unsent)
  /\ sent = ByAll + Cardinality(Uncounted)
  /\ \A r \in Requests : pc[r] \in {"sent", "status"} => answer[r] \in Statuses

LEMMA ByAllType == ASSUME TypeOK PROVE ByAll \in Nat
<1>1. \A s \in Statuses : byStatus[s] \in Nat
  BY DEF TypeOK
<1>. QED
  BY <1>1 DEF ByAll, Statuses

LEMMA CountInit == Init => CountInv
<1>. SUFFICES ASSUME Init PROVE CountInv
  OBVIOUS
<1>1. Unsent = {} /\ Uncounted = {}
  BY DEF Init, Unsent, Uncounted
<1>2. Cardinality({}) = 0 /\ IsFiniteSet({})
  BY FS_EmptySet
<1>3. ByAll = 0
  BY DEF Init, ByAll, Statuses
<1>. QED
  BY <1>1, <1>2, <1>3 DEF Init, CountInv

(* A step that sends or counts nothing and keeps every request on its side *)
(* of the two additions.                                                   *)
LEMMA CountFrame ==
  ASSUME CountInv, UNCHANGED counters,
         \A q \in Requests :
           \/ pc'[q] = pc[q] /\ answer'[q] = answer[q]
           \/ /\ pc[q] \in {"limit", "identify", "permission", "handle"}
              /\ \/ pc'[q] \in {"identify", "permission", "handle"}
                 \/ pc'[q] = "sent" /\ answer'[q] \in Statuses
  PROVE  CountInv'
<1>1. Unsent' = Unsent /\ Uncounted' = Uncounted
  BY DEF Unsent, Uncounted
<1>2. ByAll' = ByAll
  BY DEF ByAll, counters
<1>. QED
  BY <1>1, <1>2 DEF CountInv, counters

LEMMA CountStepInv ==
  ASSUME TypeOK, CountInv, [Next]_vars
  PROVE  CountInv'
<1>0. /\ IsFiniteSet(Unsent) /\ IsFiniteSet(Uncounted)
      /\ Cardinality(Unsent) \in Nat /\ Cardinality(Uncounted) \in Nat
      /\ received = sent + Cardinality(Unsent)
      /\ sent = ByAll + Cardinality(Uncounted)
      /\ received \in Nat /\ sent \in Nat /\ ByAll \in Nat
  BY ByAllType, FS_CardinalityType DEF CountInv, TypeOK
<1>1. ASSUME NEW r \in Requests, Arrive(r)
      PROVE  CountInv'
  <2>1. r \notin Unsent /\ Unsent' = Unsent \cup {r} /\ Uncounted' = Uncounted
    BY <1>1 DEF Arrive, Unsent, Uncounted, TypeOK
  <2>2. IsFiniteSet(Unsent') /\ Cardinality(Unsent') = Cardinality(Unsent) + 1
    BY <1>0, <2>1, FS_AddElement
  <2>3. received' = received + 1 /\ sent' = sent /\ ByAll' = ByAll
    BY <1>1 DEF Arrive, ByAll
  <2>4. \A q \in Requests : pc'[q] \in {"sent", "status"} => answer'[q] \in Statuses
    BY <1>1 DEF Arrive, CountInv, TypeOK
  <2>. QED
    BY <1>0, <2>1, <2>2, <2>3, <2>4 DEF CountInv
<1>2. ASSUME NEW r \in Requests, LimiterStep(r)
      PROVE  CountInv'
  <2>1. /\ pc[r] = "limit" /\ UNCHANGED counters
        /\ \/ pc' = [pc EXCEPT ![r] = "identify"] /\ answer' = answer
           \/ pc' = [pc EXCEPT ![r] = "sent"] /\ answer' = [answer EXCEPT ![r] = "limited"]
    BY <1>2 DEF LimiterStep, LimitAllows, LimitRefuses, Goto, Answer
  <2>. QED
    BY <2>1, CountFrame DEF TypeOK, Statuses
<1>3. ASSUME NEW r \in Requests, GateStep(r)
      PROVE  CountInv'
  <2>1. pc[r] \in {"identify", "permission", "handle"} /\ UNCHANGED counters
    BY <1>3, GateMoves
  <2>2. CASE \E p \in {"permission", "handle"} : pc' = [pc EXCEPT ![r] = p] /\ UNCHANGED answer
    BY <2>1, <2>2, CountFrame DEF TypeOK
  <2>3. ASSUME NEW s \in Statuses, pc' = [pc EXCEPT ![r] = "sent"],
               answer' = [answer EXCEPT ![r] = s]
        PROVE  CountInv'
    BY <2>1, <2>3, CountFrame DEF TypeOK
  <2>. QED
    BY <1>3, <2>2, <2>3, GateMoves
<1>4. ASSUME NEW r \in Requests, CountSent(r)
      PROVE  CountInv'
  <2>1. /\ r \in Unsent /\ r \notin Uncounted
        /\ Unsent' = Unsent \ {r} /\ Uncounted' = Uncounted \cup {r}
    BY <1>4 DEF CountSent, Unsent, Uncounted, TypeOK
  <2>2. /\ IsFiniteSet(Unsent') /\ Cardinality(Unsent') = Cardinality(Unsent) - 1
        /\ IsFiniteSet(Uncounted') /\ Cardinality(Uncounted') = Cardinality(Uncounted) + 1
    BY <1>0, <2>1, FS_AddElement, FS_RemoveElement
  <2>3. received' = received /\ sent' = sent + 1 /\ ByAll' = ByAll
    BY <1>4 DEF CountSent, ByAll
  <2>4. \A q \in Requests : pc'[q] \in {"sent", "status"} => answer'[q] \in Statuses
    BY <1>4 DEF CountSent, CountInv, TypeOK
  <2>. QED
    BY <1>0, <2>1, <2>2, <2>3, <2>4 DEF CountInv
<1>5. ASSUME NEW r \in Requests, CountStatus(r)
      PROVE  CountInv'
  <2>1. /\ r \in Uncounted /\ Unsent' = Unsent /\ Uncounted' = Uncounted \ {r}
    BY <1>5 DEF CountStatus, Unsent, Uncounted, TypeOK
  <2>2. IsFiniteSet(Uncounted') /\ Cardinality(Uncounted') = Cardinality(Uncounted) - 1
    BY <1>0, <2>1, FS_RemoveElement
  <2>3. received' = received /\ sent' = sent
    BY <1>5 DEF CountStatus
  <2>4. ByAll' = ByAll + 1
    <3>1. PICK s \in Statuses : s = answer[r]
      BY <1>5 DEF CountStatus, CountInv
    <3>2. byStatus' = [byStatus EXCEPT ![s] = byStatus[s] + 1]
      BY <1>5, <3>1 DEF CountStatus
    <3>3. \A t \in Statuses : /\ byStatus[t] \in Nat
                              /\ byStatus'[t] = IF t = s THEN byStatus[t] + 1 ELSE byStatus[t]
      BY <3>2 DEF TypeOK
    <3>. QED
      BY <3>3 DEF ByAll, Statuses
  <2>5. \A q \in Requests : pc'[q] \in {"sent", "status"} => answer'[q] \in Statuses
    BY <1>5 DEF CountStatus, CountInv, TypeOK
  <2>. QED
    BY <1>0, <2>1, <2>2, <2>3, <2>4, <2>5 DEF CountInv
<1>6. CASE Cleanup \/ Tick \/ UNCHANGED vars
  BY <1>6, CountFrame DEF Cleanup, Tick, vars, counters
<1>7. ASSUME NEW u \in Grantees, NEW codes \in SUBSET Codes, Grant(u, codes)
      PROVE  CountInv'
  BY <1>7, CountFrame DEF Grant
<1>8. ASSUME NEW u \in Grantees, NEW c \in Codes, Revoke(u, c)
      PROVE  CountInv'
  BY <1>8, CountFrame DEF Revoke
<1>. QED
  BY <1>1, <1>2, <1>3, <1>4, <1>5, <1>6, <1>7, <1>8, NextCases DEF CountStep

(* The counters of /debug/vars never claim more answers than requests, and *)
(* agree whenever no request is under way, for any number of requests,     *)
(* whichever gate refused them or panic ended them.                        *)
THEOREM CountersAgreeThm == Spec => []CountersAgree
<1>1. TypeOK /\ CountInv /\ [Next]_vars => CountInv'
  BY CountStepInv
<1>2. ASSUME TypeOK, CountInv PROVE CountersAgree
  <2>1. Cardinality(Unsent) \in Nat /\ Cardinality(Uncounted) \in Nat
    BY <1>2, FS_CardinalityType DEF CountInv
  <2>2. ByAll <= sent /\ sent <= received
    BY <1>2, <2>1, ByAllType DEF CountInv, TypeOK
  <2>3. ASSUME \A r \in Requests : pc[r] \in {"new", "done"}
        PROVE  ByAll = sent /\ sent = received
    <3>1. Unsent = {} /\ Uncounted = {}
      BY <2>3 DEF Unsent, Uncounted
    <3>2. Cardinality(Unsent) = 0 /\ Cardinality(Uncounted) = 0
      BY <3>1, FS_EmptySet
    <3>. QED
      BY <1>2, <3>2, ByAllType DEF CountInv, TypeOK
  <2>. QED
    BY <2>2, <2>3 DEF CountersAgree
<1>. QED
  BY <1>1, <1>2, CountInit, TypeCorrect, PTL DEF Spec
=============================================================================
