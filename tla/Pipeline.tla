------------------------------ MODULE Pipeline ------------------------------
(***************************************************************************)
(* The middleware every request of one process passes (cmd/api/routes.go   *)
(* and middleware.go), in the order of alice.New and router.Use:           *)
(*   metrics, recoverPanic, rateLimit, authenticate, then the gates of the *)
(*   route and its handler.                                                *)
(* The limiter's table is shared by all requests and by the goroutine that *)
(* cleans it; permissions are rows that change while requests run.         *)
(***************************************************************************)
EXTENDS Integers, Sequences, FiniteSets

CONSTANTS Requests,   \* the requests that ever reach the process
          Asked,      \* what they may be: [address, user, route]
          Addresses,  \* client addresses, as realip finds them
          Users,      \* users with a session
          Activated,  \* those whose account is active
          Grantees,   \* bound: the users who are ever given permissions
          Rate,       \* tokens a bucket gains in a unit of time
          Cost,       \* tokens a request takes (Rate / Cost is limiter-rps)
          Capacity,   \* tokens a full bucket holds (over Cost: limiter-burst)
          IdleLimit,  \* the three minutes after which an address is forgotten
          MaxTime     \* bound: the clock stops here

Routes  == {"public", "member", "admin", "orderAdmin"}
Request == [address : Addresses, user : Users \cup {"anonymous", "rejected"}, route : Routes]
Codes   == {"admin:read", "admin:write"}

ASSUME PipelineAssumption ==
  /\ Asked \subseteq Request
  /\ Activated \subseteq Users /\ Grantees \subseteq Users
  /\ Rate \in Nat /\ Cost \in Nat /\ Capacity \in Nat /\ MaxTime \in Nat
  /\ IdleLimit \in Nat
  /\ Cost <= Capacity

(* The default flags (5 a second, bursts of 10) refill a bucket long       *)
(* before its address is forgotten.                                        *)
ASSUME RefillAssumption == Capacity <= Rate * IdleLimit

VARIABLES
  now,       \* the clock
  known,     \* addresses in the limiter's table
  bucket,    \* the limiter's entry of each: [tokens, last, seen]
  passed,    \* history: requests let through by the limiter
  before,    \* history: how many of them before each time
  grants,    \* users_permissions: pairs of a user and a code
  entitled,  \* history: requests whose user held admin:write while they ran
  pc,        \* where each request stands
  req,       \* the request
  answer,    \* the status it is answered
  received,  \* total_requests_received
  sent,      \* total_responses_sent
  byStatus   \* total_responses_sent_by_status

limiter  == <<known, bucket, passed>>
rights   == <<grants, entitled>>
counters == <<received, sent, byStatus>>
vars == <<now, limiter, before, rights, pc, req, answer, counters>>

Entry    == [tokens : 0 .. Capacity, last : 0 .. MaxTime, seen : 0 .. MaxTime]
Fresh    == [tokens |-> Capacity, last |-> 0, seen |-> 0]
Phases   == {"new", "limit", "identify", "permission", "handle", "sent", "status", "done"}
Statuses == {"handled", "limited", "unauthorized", "locked", "forbidden", "failed"}

TypeOK ==
  /\ now \in 0 .. MaxTime
  /\ known \subseteq Addresses
  /\ bucket \in [Addresses -> Entry]
  /\ passed \in [Addresses -> Nat]
  /\ before \in [Addresses -> [0 .. MaxTime -> Nat]]
  /\ grants \subseteq Grantees \X Codes
  /\ entitled \subseteq Requests
  /\ pc \in [Requests -> Phases]
  /\ req \in [Requests -> Request]
  /\ answer \in [Requests -> Statuses \cup {"none"}]
  /\ received \in Nat
  /\ sent \in Nat
  /\ byStatus \in [Statuses -> Nat]

Init ==
  /\ now = 0
  /\ known = {}
  /\ bucket = [a \in Addresses |-> Fresh]
  /\ passed = [a \in Addresses |-> 0]
  /\ before = [a \in Addresses |-> [t \in 0 .. MaxTime |-> 0]]
  /\ grants \in SUBSET (Grantees \X {"admin:write"})
  /\ entitled = {}
  /\ pc = [r \in Requests |-> "new"]
  /\ req \in [Requests -> Asked]
  /\ answer = [r \in Requests |-> "none"]
  /\ received = 0
  /\ sent = 0
  /\ byStatus = [s \in Statuses |-> 0]

-----------------------------------------------------------------------------
(* metrics, before it calls the rest of the chain.                         *)
Arrive(r) ==
  /\ pc[r] = "new"
  /\ pc' = [pc EXCEPT ![r] = "limit"]
  /\ received' = received + 1
  /\ entitled' = IF <<req[r].user, "admin:write">> \in grants
                   THEN entitled \cup {r} ELSE entitled
  /\ UNCHANGED <<now, limiter, before, grants, req, answer, sent, byStatus>>

(* The response is written; the chain returns to metrics.                  *)
Answer(r, s) ==
  /\ pc' = [pc EXCEPT ![r] = "sent"]
  /\ answer' = [answer EXCEPT ![r] = s]
  /\ UNCHANGED req

Goto(r, phase) ==
  /\ pc' = [pc EXCEPT ![r] = phase]
  /\ UNCHANGED <<req, answer>>

(* limiter.Allow (golang.org/x/time/rate): the bucket is brought up to     *)
(* date when it is used, and written only if the request may pass.         *)
Capped(n) == IF n > Capacity THEN Capacity ELSE n
Level(a)  == Capped(bucket[a].tokens + Rate * (now - bucket[a].last))
Allow(a)  == Level(a) >= Cost

(* The entry of an address, made when there is none, with its time of      *)
(* last use.                                                               *)
SeenOnce(a) == bucket[a]
SeenNow(a) == [bucket[a] EXCEPT !.seen = now]

(* rateLimit, between mu.Lock and mu.Unlock.                               *)
LimitAllows(r) ==
  LET a == req[r].address
  IN  /\ pc[r] = "limit"
      /\ Allow(a)
      /\ known' = known \cup {a}
      /\ bucket' = [bucket EXCEPT ![a] =
                      [SeenNow(a) EXCEPT !.tokens = Level(a) - Cost, !.last = now]]
      /\ passed' = [passed EXCEPT ![a] = @ + 1]
      /\ Goto(r, "identify")
      /\ UNCHANGED <<now, before, rights, counters>>

LimitRefuses(r) ==
  LET a == req[r].address
  IN  /\ pc[r] = "limit"
      /\ ~ Allow(a)
      /\ known' = known \cup {a}
      /\ bucket' = [bucket EXCEPT ![a] = SeenNow(a)]
      /\ Answer(r, "limited")
      /\ UNCHANGED <<now, passed, before, rights, counters>>

(* The cleanup goroutine: one pass under the mutex, at any time.           *)
IdleSoon(a) == now - bucket[a].seen > 0
Idle(a) == now - bucket[a].seen > IdleLimit

Cleanup ==
  LET gone == {a \in known : Idle(a)}
  IN  /\ gone # {}
      /\ known' = known \ gone
      /\ bucket' = [a \in Addresses |-> IF a \in gone THEN Fresh ELSE bucket[a]]
      /\ UNCHANGED <<now, passed, before, rights, pc, req, answer, counters>>

Tick ==
  /\ now < MaxTime
  /\ now' = now + 1
  /\ before' = [a \in Addresses |-> [before[a] EXCEPT ![now + 1] = passed[a]]]
  /\ UNCHANGED <<limiter, rights, pc, req, answer, counters>>

-----------------------------------------------------------------------------
(* The chains of routes.go.  orderRoutes is given dynamicMiddleware where  *)
(* the other routers get the permission middleware, so its administrative  *)
(* routes pass the same two gates twice.                                   *)
Member == <<"signedIn", "active">>
GatesOf(route) ==
  CASE route = "public"     -> << >>
    [] route = "member"     -> Member
    [] route = "admin"      -> Append(Member, "permission")
    [] route = "orderAdmin" -> Member \o Member

IsGated(r, gate) == \E k \in DOMAIN GatesOf(req[r].route) : GatesOf(req[r].route)[k] = gate

(* authenticate: without a header the user is anonymous; a header that is  *)
(* malformed, a token nobody has, and a failed statement are all 401.      *)
IdentifyFails(r) ==
  /\ pc[r] = "identify"
  /\ req[r].user # "anonymous"
  /\ Answer(r, "unauthorized")
  /\ UNCHANGED <<now, limiter, before, rights, counters>>

(* Otherwise requireAuthenticatedUser and requireActivatedUser follow,     *)
(* which look at the user in memory only.                                  *)
NotSignedIn(r) == IsGated(r, "signedIn") /\ req[r].user = "anonymous"
NotActive(r)   == IsGated(r, "active") /\ req[r].user \notin Activated

Identify(r) ==
  /\ pc[r] = "identify"
  /\ req[r].user # "rejected"
  /\ ~ NotSignedIn(r) /\ ~ NotActive(r)
  /\ Goto(r, IF IsGated(r, "permission") THEN "permission" ELSE "handle")
  /\ UNCHANGED <<now, limiter, before, rights, counters>>

RefuseAnonymous(r) ==
  /\ pc[r] = "identify"
  /\ NotSignedIn(r)
  /\ Answer(r, "unauthorized")
  /\ UNCHANGED <<now, limiter, before, rights, counters>>

RefuseInactive(r) ==
  /\ pc[r] = "identify"
  /\ req[r].user \in Users
  /\ NotActive(r)
  /\ Answer(r, "locked")
  /\ UNCHANGED <<now, limiter, before, rights, counters>>

(* requirePermission("admin:write"): GetAllPermissionsForUser and Include. *)
PermissionsOf(u) == {c \in Codes : <<u, c>> \in grants}
IncludeAny(codes, c) == codes # {}
Include(codes, c) == c \in codes

HasPermission(r) ==
  /\ pc[r] = "permission"
  /\ IF Include(PermissionsOf(req[r].user), "admin:write")
       THEN Goto(r, "handle")
       ELSE Answer(r, "forbidden")
  /\ UNCHANGED <<now, limiter, before, rights, counters>>

PermissionsFail(r) ==
  /\ pc[r] = "permission"
  /\ Answer(r, "failed")
  /\ UNCHANGED <<now, limiter, before, rights, counters>>

(* The handler answers, or panics and recoverPanic answers for it.  Since  *)
(* recoverPanic is inside metrics, both return there.                      *)
Handle(r) ==
  /\ pc[r] = "handle"
  /\ Answer(r, "handled")
  /\ UNCHANGED <<now, limiter, before, rights, counters>>

RecoverNowhere(r) ==
  /\ pc' = [pc EXCEPT ![r] = "done"]
  /\ UNCHANGED <<req, answer>>
RecoverOutside(r) ==
  /\ pc' = [pc EXCEPT ![r] = "done"]
  /\ answer' = [answer EXCEPT ![r] = "failed"]
  /\ UNCHANGED req
RecoverInside(r) == Answer(r, "failed")

Panic(r) ==
  /\ pc[r] = "handle"
  /\ RecoverInside(r)
  /\ UNCHANGED <<now, limiter, before, rights, counters>>

(* metrics, after the chain returned: two atomic additions.                *)
CountSent(r) ==
  /\ pc[r] = "sent"
  /\ pc' = [pc EXCEPT ![r] = "status"]
  /\ sent' = sent + 1
  /\ UNCHANGED <<now, limiter, before, rights, req, answer, received, byStatus>>

CountStatus(r) ==
  /\ pc[r] = "status"
  /\ pc' = [pc EXCEPT ![r] = "done"]
  /\ byStatus' = [byStatus EXCEPT ![answer[r]] = @ + 1]
  /\ UNCHANGED <<now, limiter, before, rights, req, answer, received, sent>>

-----------------------------------------------------------------------------
(* AddPermissionsForUser: one INSERT of all codes asked, which the primary *)
(* key refuses as a whole when the user has one of them.                   *)
Running(r) == pc[r] \in {"limit", "identify", "permission", "handle"}
Added(u, codes) == grants \cup ({u} \X codes)

Grant(u, codes) ==
  /\ codes # {}
  /\ \A c \in codes : <<u, c>> \notin grants
  /\ grants' = Added(u, codes)
  /\ entitled' = entitled \cup
       {r \in Requests : Running(r) /\ req[r].user = u /\ "admin:write" \in codes}
  /\ UNCHANGED <<now, limiter, before, pc, req, answer, counters>>

(* DeletePermissionsForUser.                                               *)
Removed(u, c) == grants \ {<<u, c>>}

Revoke(u, c) ==
  /\ <<u, c>> \in grants
  /\ grants' = Removed(u, c)
  /\ UNCHANGED <<now, limiter, before, entitled, pc, req, answer, counters>>

(* Requests is finite: when each has ended the process just waits.         *)
AllEnded ==
  /\ \A r \in Requests : pc[r] = "done"
  /\ UNCHANGED vars

Serve(r) ==
  \/ LimitAllows(r) \/ LimitRefuses(r) \/ IdentifyFails(r) \/ Identify(r)
  \/ RefuseAnonymous(r) \/ RefuseInactive(r)
  \/ HasPermission(r) \/ PermissionsFail(r) \/ Handle(r) \/ Panic(r) \/ CountSent(r) \/ CountStatus(r)

Next ==
  \/ \E r \in Requests : Arrive(r) \/ Serve(r)
  \/ Cleanup \/ Tick
  \/ \E u \in Grantees : \/ \E codes \in SUBSET Codes : Grant(u, codes)
                         \/ \E c \in Codes : Revoke(u, c)
  \/ AllEnded

Spec == Init /\ [][Next]_vars

(* net/http runs every request's goroutine, the mutex is released by its   *)
(* holder in the same step, and each statement has a context of 3 s or so. *)
(* Not so the calls to the identity provider of the sign-in handler, whose *)
(* context is context.Background(): nothing makes a public handler return. *)
AwaitsProvider(r) == pc[r] = "handle" /\ req[r].route = "public"
FairSpec == Spec /\ \A r \in Requests : WF_vars(~ AwaitsProvider(r) /\ Serve(r))

-----------------------------------------------------------------------------
(* The table with its late refills and its forgotten addresses behaves as  *)
(* if every address had a bucket for ever.                                 *)
Bucket == INSTANCE TokenBucket WITH level <- [a \in Addresses |-> Level(a)]
BucketSpec == Bucket!Spec

(* What an operator sets the two flags for: from any moment s on, no more  *)
(* requests of an address are let through than a full burst and the rate   *)
(* times the time since.                                                   *)
RateIsBounded ==
  \A a \in Addresses : \A s \in 0 .. now :
    Cost * (passed[a] - before[a][s]) <= Capacity + Rate * (now - s)

(* A handler behind requirePermission, which are those that change the     *)
(* catalogue, runs only for a user who held the permission at some moment  *)
(* of this very request: a revocation that was done before the request     *)
(* arrived is never overlooked.                                            *)
HandledWereEntitled ==
  \A r \in Requests :
    IsGated(r, "permission") /\ answer[r] = "handled" => r \in entitled

(* What routes.go and orders.go say of all routes they call "admin only",  *)
(* those of orders included: nobody without the permission is served       *)
(* there.  It fails, for orderRoutes is handed another chain.              *)
AdminRoutesAreAdminOnly ==
  \A r \in Requests :
    req[r].route \in {"admin", "orderAdmin"} /\ answer[r] = "handled" => r \in entitled

(* The counters shown by /debug/vars never claim more than happened, and   *)
(* agree whenever no request is between arrival and the last count, panics *)
(* and refusals included.                                                  *)
ByAll == byStatus["handled"] + byStatus["limited"] + byStatus["unauthorized"]
           + byStatus["locked"] + byStatus["forbidden"] + byStatus["failed"]
CountersAgree ==
  /\ ByAll <= sent /\ sent <= received
  /\ (\A r \in Requests : pc[r] \in {"new", "done"}) =>
       ByAll = sent /\ sent = received

(* Every request that arrived is answered and counted, panics and errors   *)
(* included, unless its handler waits for the identity provider, and then  *)
(* if it ever returns.                                                     *)
RequestIsCounted ==
  \A r \in Requests :
    pc[r] # "new" ~> (pc[r] = "done" /\ answer[r] # "none") \/ AwaitsProvider(r)
=============================================================================
