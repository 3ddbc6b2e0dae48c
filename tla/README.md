# Formal models of SavannaCart

SavannaCart is an e-commerce API in Go over PostgreSQL: customers sign in through
an OAuth provider, place orders, are told of them by e-mail and SMS, and
administrators move orders along and keep the catalogue. This directory holds TLA+
models of it, TLC configurations that check them on small instances, and proofs,
checked by TLAPS, that the main properties hold for every value of the constants.

The one fact that shapes everything: **the program never opens a database
transaction**. `database.Queries` is used directly on the connection pool, so
every SQL statement commits by itself, and the statements of concurrent requests
interleave, in one process and across the replicas of the chart
(`savannacart/values.yaml`). A model's action is therefore one statement together
with the Go code up to the next one, and the models share three conventions:

* a statement may fail without effect (`StatementFails`: context deadline, no
  connection);
* its effect may be committed and its result lost, after which the program takes its
  error path (`acked = FALSE`, `Took`);
* the process serving a request may die between any two statements (`Crash`). Its
  memory is gone and its rows stay.

## 1. Inventory

| component | state | operations | hard behaviour | correct when |
|---|---|---|---|---|
| Checkout (`cmd/api/orders.go`, `internal/data/orders.go`) | `products.stock_quantity`, `orders`, `order_items`; the snapshot map of one request | `createOrderHandler`, `CreateOrder`, `CheckProductAvailability` | check and write are apart, the write is an absolute value; partial orders; crashes | stock is neither invented nor oversold, answers agree with what is stored, totals are sums |
| Order status (same files) | `orders.status`, `orders.version` | `updateOrderStatusHandler`, `UpdateOrderStatus` | read, check, conditional write; retries; tasks that mail an old status | life cycle respected, one winner per version, answers true |
| Accounts and sessions (`cmd/api/authentication.go`, `internal/data/users.go`, `tokens.go`) | `users`, `tokens`; a variable shared between a handler and its task | OAuth callback, activation, profile update, logout | duplicate sign-up, delete-then-insert of sessions, stale rows written back, a data race on `err` | sessions only for active accounts, activation always possible, acknowledged changes kept |
| Server life cycle (`cmd/api/server.go`, `helpers.go`) | listener, connections, `app.wg`, the shutdown goroutine | `server`, `background` | shutdown against handlers and tasks, panics, the 20 s limit | a clean exit loses nothing, the wait misses no task, the exit comes |
| Request pipeline (`middleware.go`, `routes.go`) | the limiter's table, counters, `users_permissions` | `metrics`, `recoverPanic`, `rateLimit` and its cleanup, `authenticate`, the gates of each router | the cleanup goroutine and permission changes against running requests, panics | bounded rate, no unentitled request handled, counters agree |
| Catalogue (`categories.go`, `products.go`) | `categories`, `products` | create, update, delete a category; create a product; average price | read then conditional write; a deletion that changes children without their version; rings | tables sound, updates honest, the average finite and exact |
| Notifications (`cmd/api/orders.go`, `mailer.go`, `sms.go`) | tasks in memory | confirmation, administrators' mail, SMS, status mail, `Mailer.Send` | three attempts, unacknowledged delivery, one failing recipient, rows that change between reads | copies bounded, every administrator tried, right number |
| Lists and statistics (`orders.go`, `products.go`, `filters.go`) | none of their own | paged lists, grouping, metadata; statistics | OFFSET over joined rows of a list that changes | a walk misses nothing unless orders leave, and repeats only what was pushed on |

Components interact through the database (all handlers), through
`app.background` and `app.wg` (handlers start tasks, the server waits for them),
and through the middleware (which decides who reaches the other handlers).
`PROJECT.json` lists every component, modelled or not, and the hazards with the
line each bites at.

## 2. The modules

| module | models | abstracts |
|---|---|---|
| `Checkout` | placing an order | prices are numbers, a request is the id of its order; product rows are never deleted or repriced by the program, so they are constants |
| `OrderLifecycle`, `OrderStatus` | the promise about an order's status; status updates, which implement it | who may call it (`Pipeline`) |
| `Accounts` | accounts and sessions | tokens are named by the call that stored them, a phone number by the call that set it; the provider's exchange ends in an input |
| `Server` | one process from start to exit | one connection per request; handlers are reduced to the tasks they start |
| `TokenBucket`, `Pipeline` | the promise of the rate limiter; the middleware, which implements it | a handler answers, panics or answers an error; time is a counter |
| `Catalog` | categories and products | descriptions; names fall together under a function `Lower` |
| `Notifications` | the background tasks of an order | the texts; a mail server delivers or not, reports or not |
| `Listing` | walks through the paged lists | the columns shown; the statistics |
| `*Proofs` | theorems about `Checkout`, `OrderStatus`, `Accounts`, `Server`, `Pipeline`, `Catalog`, `Listing`, `Notifications` | - |
| `MC*` | the finite instances for TLC | - |

**Checkout.** `pc` walks through `check` (first loop), `header` (INSERT into orders),
`line` and `stock` (the two statements of the second loop), `reply`. `snap` is
`productAvailabilityMap`: `CheckOk` caches the stock it saw and a later line of the
same product replaces it, `WriteStock` writes `snap - qty` whatever the stock has
become; `StockRefused` is the CHECK of `stock_quantity`, `HeaderRefused` the width of
`total_kes`. The two queries of `CheckProductAvailability` are one action because the
second reads only constants. `sold` and `contended` are history: units whose stock
write was executed, and products checked while another write of them was due.

**OrderStatus.** `ReadMissing`, `ReadConflict`, `ReadIllegal`, `ReadOk` are what
`UpdateOrderStatus` decides on the row it reads; `WriteOk` and `WriteConflict` are the
conditional UPDATE. `due` and `sent` are the mail tasks. `held` and `applied` are
history. With `status` mapped to itself, the module refines `OrderLifecycle`.

**Accounts.** The OAuth callback is `LookupKnown/LookupUnknown`, `InsertUser` (or
`InsertDuplicate` and `Relookup`, or `InsertRefused` by the subject), `IssueLink`; a
login ends in `Purge` and `Issue`, the two statements of
`generateUserAuthenticationToken`. Activation is `ReadLink`, `Activate`, `DropLinks`,
then the same two, then `CheckErr`. `err` is the variable of `activateUserHandler`
that its e-mail task assigns in `MailReturns`, at any time up to the test: this race is
in the code, and the model leaves its outcome open. Requests with a session start with
`Authenticate` (both middlewares in one action: one statement). `Expire` lets any token
expire at any time.

**Server.** `stopper` is the shutdown goroutine (`signal`, `drain`, `tasks`, `again`,
`reported`), `main` the main goroutine. What `Shutdown` waits for is external code; it
is modelled from the documentation of `http.ConnState`: connections that are idle or
closed do not hold it, new ones do for 5 s. `ListenFails` is any other error of
`ListenAndServe`.

**Pipeline.** A request goes through `limit`, `identify`, `permission`, `handle`, and the
answer back up through `recoverPanic` to `metrics`, which counts it in two additions (`sent`,
`status`), in the order of `alice.New` and `router.Use`. `known` is the limiter's map and
`bucket` the entry of each address: tokens, the time of their last refill and `lastSeen`. An
entry is refilled when it is used, as `rate.Limiter` does, and `Cleanup` is the goroutine that
forgets forgets addresses. `Level(a)` is what an address could use now, all of it when it is not in the
map: with `level <- [a \in Addresses |-> Level(a)]` the module implements `TokenBucket`, whose
buckets are never forgotten. `GatesOf` gives each group of routes the gates it has in the code; `orderAdmin`
are the order routes that the repository calls admin only and that have those of a member.

**Catalog.** `Grown` starts from any two old categories that creations can have made. An
update is `ReadCategory` (the row with the version of the URL, merged with what was sent)
and `WriteCategory` (the UPDATE with that version) or `WriteRefused`; every other handler is
one statement. `DeleteCategory` includes what the foreign keys do in the same statement:
RESTRICT for products, SET NULL for children, and the unique index over the result.
`LevelsOf` is the recursive query level by level, with its UNION ALL.

**Notifications.** A task of `Tasks` goes through its reads (`order`, `customer`, `supers`) to
`send` or `sms`. `AttemptSucceeds` delivers and reports so, `AttemptFails` reports an error with
the message delivered or not; three failures end one address and `NextAddress` goes on. `Unique`
is the map of addresses that the administrators' task fills, `FormatPhoneNumber` the cases of its
namesake on a number taken as a sequence of characters. Permissions and phone numbers change
between any two steps, and `Crash` ends every running task.

**Listing.** `Rows` is the join, `Sorted` every order the ORDER BY leaves open, `GetPage`
takes one page and groups it into a map as `GetAllOrders` does. A client starts at page 1 and
follows `last_page` while orders, items, products and statuses are stored. A new order may have any
second: `created_at` is rounded to the nearest one, the clock may be set back, and a statement may
become visible after a later one. `left` is history: whether an order left the list (its status
changed) during the walk.

## 3. Runs

| run | instance | asks |
|---|---|---|
| `MCCheckout` | 2 requests, 2 products (stock 3 and 1), 11 carts: one line, two products in both orders, a product twice and three times, more than there is, an unknown product, zero quantity, empty, above `MaxTotal`; fair | `TypeOK`, `ShelfLossIsSold`, `UncontendedExact`, `RefusedLeavesNoTrace`, `ConfirmedIsComplete`, `TotalIsSumOfLines`, `AcceptedIsAnswered` |
| `MCOrderStatus` | 1 order, 3 updates: each move of the life cycle at its version, cancellations at versions 1..3, a move back, an unknown version, a word that is no status; fair | `OneWinnerPerVersion`, `UpdatedIsRecorded`, `MailIsTrueAndUnique`, `LifecycleSpec`, `UpdateIsAnswered` |
| `MCAccounts` | 3 calls of any kind, 2 addresses, one with an account and a session; symmetric | `SessionsAreOfActive`, `OneSessionUnlessOverlap`, `SignedUpCanActivate`, `PhoneNotForgotten`, `LogoutIsFinal` |
| `MCServer` | 3 requests that start 2, 1 and 0 tasks; fair | `CleanExitLosesNothing`, `NoTaskStartsLate`, `SignalEndsServer` |
| `MCPipeline` | 2 requests, 2 addresses, 2 users (one active and grantable), permission-gated, order administration, member and public routes, buckets of one request refilled in two ticks, forgotten after two, three ticks; fair | `RateIsBounded`, `HandledWereEntitled`, `CountersAgree`, `BucketSpec`, `RequestIsCounted` |
| `MCCatalog` | 3 calls out of ten that race, two old categories, one product, names that differ by case; symmetric | `TypeOK`, `TablesAreSound`, `OneWinnerPerVersion`, `AverageCountsEachOnce`, `UnsentFieldsKept` |
| `MCNotifications` | 1 order with its tasks, in three groups; an administrator with both permissions, a customer who may become one, four ways to have a phone number; fair | `TypeOK`, `CopiesAreBounded`, `EveryAdminIsTried`, `SmsIsInternational`, `TaskEnds` |
| `MCListing` | lists of everybody, one user, one status, products; page sizes 0, 1, 2; three orders of 2, 1 and 0 items that may have either of two seconds, every move of the life cycle (the status list is the middle status, which orders enter and leave), three products | `TypeOK`, `WalkMissesNothing`, `RepeatedOnlyIfPushed`, `QuietWalkIsExact` |
| `MCCheckoutRace`, `MCActivationError`, `MCOrderAdmin`, `MCCategoryRing` | 2 or 3 calls, or the instance of `MCPipeline` | the findings of section 4 |

Why the bounds are enough. Every conflict in this code is between two requests over
one row (stock, version, account, category); where there is a third it lets a bystander act in
between or a second conflict follow the first. Stock 3 against quantities of 1, 2 and 3 gives
carts that fit once, fit twice and never fit together; `MaxTotal` is 9, so that one cart is
refused. A life cycle has three moves, so three updates can carry an order to its end. In
`MCPipeline` a bucket refills exactly as long as an address is remembered, the tightest case the
assumption allows; both an empty and a forgotten bucket are met within three ticks. In
`MCCatalog` two moves make a ring and the third call meets it. The tasks of an order share only
what they read, so `MCNotifications` watches them in groups. In `MCListing` the pages of one and two
rows cut an order of two items apart. Bounds other than the finite sets are
`MaxTime` (the clock of `Pipeline`, the seconds of `created_at` in `Listing`), `Grantees`, `Grantable`, `Followed`, and `Watched` (only what the client's list
is made of changes).
A run may end because the sets of requests are finite; self-loops (`AllEnded`, `Gone`,
`Finished`) stand for that, so deadlock is checked everywhere. `MCPipeline`, `MCCatalog` and `MCListing` take a
minute or two each on two workers, the others less.

The type invariants of `OrderStatus`, `Accounts`, `Server` and `Pipeline` are in no run because
theorems state them for every instance.

Fairness. `FairSpec` asks weak fairness of the handlers that only run statements, of each
background task and of the server's own goroutines, nothing else: Go runs a started goroutine,
each statement has a context of 3, 5 or 10 s, the mailer makes three attempts with a dial
timeout, the SMS client has an HTTP timeout, and the limiter's mutex is released by its holder
in the same step. The sign-in handler is no such handler: its calls to the identity provider
have the context `context.Background()` (`authentication.go:311`), so `Pipeline` asks nothing of the
handler of a public route (`AwaitsProvider`) and `RequestIsCounted` excepts a request that is there.
`Server` asks nothing of any handler or connection: after a signal the 20 s limit ends the
process without them. No client has to send a request, no administrator a
signal, and nothing has to crash. Where a process may die, the liveness property says
"or the process died"; `Pipeline` is one process while it lives.

## 4. What does not hold

* `NoOversell` (`MCCheckoutRace`): two orders check the same stock, both write
  "what I saw minus mine"; stock 3, two orders of 2, four units sold and one left on the shelf.
* `ActivationFailureIsReal` (`MCActivationError`): the activation succeeded, its e-mail
  did not, and the client is answered 500 through the shared `err`.
* `AdminRoutesAreAdminOnly` (`MCOrderAdmin`): an activated user without any permission is served by the
  list of all orders, the statistics and the status update. `routes.go:111` calls them "admin only
  routes", `orders.go:16`, `101` and `254` "(admin only)", and `orderRoutes` names its parameter
  `adminPermissionMiddleware`; `routes.go:42` passes it the dynamic chain. `HandledWereEntitled` says
  of the routes that do have the permission gate, those of the catalogue, that it holds.
* `AverageIsAnswered` (`MCCategoryRing`): two categories, each moved below the other by requests
  of their own (in turn or at once). The query for the average price goes round until its
  10 s context ends it and the handler answers 500, though nothing failed before.

The same overselling needs no concurrency when a cart names a product on two lines: each
line is checked against the full stock and both lines write from the one cached value. `MCCheckout`
has such carts, and `contended` counts them as an overlap. `UncontendedExact` is the positive
counterpart: these overlaps are the *only* ways stock goes wrong. For a product that was never
checked while a write of it was due, the shelf is exact after any failures and crashes, and it is
not oversold.

Observations that no run states, because nothing in the repository promises otherwise or because reading one
function shows all there is to see:

* the order confirmation announces the status `PENDING`, which no order ever has (`PLACED`);
* a failure between `CreateNewUser` and `Tokens.New` (`authentication.go:437`) leaves an account that is told
  for ever to click a link nobody made, and no route makes another. `SignedUpCanActivate` shows that this is
  the only way but expiry: an account that ever had a link keeps one until it is active, and nobody is answered
  201 without one. An expired link is not renewed either;
* cancelling an order returns nothing to the stock, and status e-mails of successive updates may
  arrive in either order;
* a failure between the statements of an order leaves an order without some or all of its lines,
  which every list shows;
* the list of one status is left by orders while it is walked through, and the walk then misses some
  (`WalkMissesNothing`: nothing is missed otherwise);
* `formatPhoneNumber` "ensures the phone number is in international format" (`sms.go:141`), but 254712345678 fits
  none of its cases and is sent as it stands; `SmsIsInternational` is about the other usual forms;
* a write to a category that another update got ahead of is answered 500, not 409;
* a provider account whose e-mail address changed meets the unique `oidc_sub` and is answered 500;
* the `name` filter of the order list is applied to the status, the `sort` values it accepts are not
  used by the query, and an `end_date` is its midnight, so that day's orders are outside;
* without an `end_date` the statistics end at an unrounded `time.Now()` (`orders.go:130`), while `created_at` is rounded
  to the nearest second, so an order of this very half second may not be counted yet;
* the e-mail task of a sign-up shares `err` too, but its handler reads it no more.

## 5. What is proved

TLAPS proves the following for every value of the constants, under the named assumptions of the
modules (`ProductsAssumption`, `PipelineAssumption`, ...): ids are naturals, carts are sequences of
items, stock and prices are naturals, old accounts are pairwise different, inputs have the form the
decoders give them, and what one database or one process holds at a time (the tasks of `Server`, the
category ids and old products of `Catalog`, the permissions that may be granted) is finite. The sets of
requests are arbitrary everywhere else. Every safety property that a passing run checks is proved.

* **Checkout.** The inductive invariant is `TypeOK /\ CartInv /\ ShelfInv /\ UncontendedInv`,
  and beside it `StoredInv`.
  `CartInv` says what the phases know: the cart is valid, `idx` is inside it, and every line
  before it (or every line, past the check) is of an existing product, so `snap` and `NewStock`
  make sense. `ShelfInv` bounds the snapshots from both sides: a snapshot still to be written from
  is at most the opening stock, and its loss against the opening stock is at most what was sold
  when it was taken. That is why a stale write can only put units back that were sold
  (`ShelfLossIsSold`), never more than there were (`ShelfWithinOpening`). `UncontendedInv` says that
  while a write of an uncontended product is due, it is the only one and the snapshot equals the
  shelf; `UncontendedExact` and `UncontendedNotOversold` follow. `StoredInv` says which rows a
  request has stored in each phase, which gives `RefusedLeavesNoTrace` and `ConfirmedIsComplete`.
  `TotalInv` says that `total` is the value of the items checked so far; with `StoredInv`, by which the
  stored lines are the first items of the same cart, it gives `TotalIsSumOfLines`: the two sums are of
  different loops, with failures in between.
* **OrderStatus.** `HeldInv` and `HistoryInv` tie the row to its history: the version is the history's
  length, the status its last entry, and no status occurs twice. `PendingInv` says that an update
  about to write has checked a transition that is still the one it would make, or that its version
  is gone for good; `AppliedInv` that an applied update is the entry after the version it named, and no other
  update is; `AnswerInv` that only applied updates are answered 200 or mailed about. They give
  `VersionTellsStatus`, `OneWinnerPerVersion`, `UpdatedIsRecorded`, `MailIsTrueAndUnique` and the step
  simulation `ImplementsLifecycle`.
* **Accounts.** `CallInv` says what each call knows at each statement; `TokenInv` that a token belongs to an
  existing account, a session to an active one, and that the call that stored a token has ended but for its
  last test; `SessionInv` that in an account without overlapping logins one call at most stands
  between the two statements, and finds no session there; `LogoutInv` that the presented token cannot be
  stored again. `linked` remembers the accounts a link was ever stored for, the answer lost or not; with `TokenInv`
  and `CallInv` it gives `SignedUpCanActivate`, since the only step that deletes links is taken by a call whose account
  is active. They carry the five theorems.
* **Server.** `PhaseInv`: with each phase of the shutdown goroutine one more thing is secured,
  the listener closed, then no connection to serve, then no task running. A task can only be
  started by an active connection, so none starts late.
* **Pipeline.** `TimeInv` orders the times of an entry. With it every step of the limiter maps to a step
  of `TokenBucket` or a stutter (`ImplementsBucket`): refilling late gives what refilling at each tick
  would, and an address is forgotten only when its bucket is full again. That is where
  `RefillAssumption` is needed (a bucket refills before the three minutes are over, which the default flags satisfy by far). `RateInv`
  strengthens the rate bound by what is still in the bucket. `EntitledInv` follows a request's user through the
  gates while grants change. `CountInv` says that each counter is ahead of the next by exactly the requests
  between the two additions, finitely many at any time however many may come; `CountersAgree` follows, for
  a panic passes through the same two additions as an answer.
* **Catalog.** `Sound` is kept by the constraints themselves. `WriteInv` says what a handler about to
  write knows: either the row has a later version, or it still has everything the handler read, except
  that a parent may have been deleted since (`Gone`), in which case the foreign key refuses the write.
  This is the argument that a deletion may change children without touching their version.
  `AppliedInv` says that an update that took effect left a later version. They give `TablesAreSound`,
  `OneWinnerPerVersion` and `UnsentFieldsKept`. For the average, `LevelIsUp` says that level `n` of the
  recursive query holds the categories from which `n` steps up lead to the one asked for. On a ring every
  level holds a category of the ring, so the query does not end (`RingNeverEnds`); conversely, when it
  has not ended after as many levels as there are ids, some category was met twice, by the pigeonhole principle,
  and the one asked for is on a ring (`EndlessIsRing`). Off a ring the levels are disjoint and together are the
  subtree, and a count or a total is additive over disjoint sets (`SumOfParts`): `AverageCountsEachOnce`.
* **Listing.** The place of a row, in every enumeration that the ORDER BY allows, is the number of rows
  before it, unless it ties with another (`PlaceOf`). `PlaceInv` compares that number with the offset of the next
  page: a row of `base` was shown or is still to come, and one that is still to come was shown at most as
  often as the lists changed (`pushed`). While no order leaves the list (`left`) the number never falls (`BeforeGrows`,
  `SelectedGrows`: a change of status then only adds orders); the
  delicate case is an order without items, whose row gives way to those of its items. The page that
  `calculateMetadata` calls the last reaches the last row. From this and `WalkInv` (what was shown
  belongs to the order it was shown under) follow `WalkMissesNothing`, `RepeatedOnlyIfPushed` and `QuietWalkIsExact`. `OffsetFits`: the bounds of `ValidateFilters` keep every offset within int32; TLC's own
  integers are too narrow to state it.
* **Notifications.** `MailInv` ties, for each task, the queue of addresses to what was logged and delivered: the
  queue has no address twice, only its head may have copies, at most one for each failed attempt, and the users
  with a result are those read minus those in the queue. `CopiesAreBounded` and `EveryAdminIsTried` follow.
  That the queue has no address twice although the query returns one row for each permission is a
  fact about the recursive `Unique`; that `Cleaned` leaves only digits and plus signs is another, and with it
  the cases of `FormatPhoneNumber` give `SmsIsInternational` for numbers of any length.

Two kinds of lemma recur in the proof modules. The induction theorems of the library take an
operator as a parameter, which none of the installed provers can instantiate; `NatInduct` and `SubsetInduct` state
induction for a *set* of naturals or of subsets instead, from the well-foundedness theorems, and can be cited.
With them come the laws of sums over finite sets (`SumEmpty`, `SumStep`, `SumCongruence`, `SumRemove`, `SumUnion`)
and the existence of functions defined by recursion (`RecursionOn`, `RecursionNat`). For their sake the models
write recursion as recursive functions and sums as `SumFunction`.

Only model-checked: the liveness properties (`AcceptedIsAnswered`, `UpdateIsAnswered`, `SignalEndsServer`,
`RequestIsCounted`, `TaskEnds`), since fairness is out of the provers' reach. The four violated properties of
section 4 are counterexamples and need no proof.

## 6. Not modelled

* The paged list of categories: its query filters and cuts like those of `Listing`, and nothing is joined.
* The statistics of orders (`GetOrderStatistics`): one SELECT with counts and sums, no state, nothing between two steps.
* The identity provider and the OIDC exchange: external; a callback begins when its claims are known.
* JSON decoding: it fails before anything happens. What validation refuses is in the guards.
* Configuration, logging, the opening of the database, CORS: start-up code or headers, no state others depend on.
* E-mail templates, container, chart and migration scripts; queries that nothing calls
  (`GetAllPermissions`, `GetProductById`, `GetProductByIdOnly`).
* A client that repeats `POST /orders` after a lost answer: nothing in the protocol tells the repeat
  from a second order.

## 7. Running

`tlc -config <run>.cfg <module>.tla` checks one run (the module of each run is in
`PROJECT.json`); `tlapm <module>Proofs.tla` checks the proofs, a few minutes for the longest.
