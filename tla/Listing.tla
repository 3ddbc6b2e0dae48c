------------------------------- MODULE Listing -------------------------------
(***************************************************************************)
(* Reading lists page by page while they grow: the orders of everybody, of *)
(* one user or of one status (cmd/api/orders.go, internal/data/orders.go), *)
(* and the products (internal/data/products.go), with internal/data/       *)
(* filters.go.                                                             *)
(*                                                                         *)
(* A page of orders is cut from the rows of orders LEFT JOIN order_items,  *)
(* newest order first and then by item, NULL last; its rows are grouped by *)
(* order afterwards.  An order is stored before its items, one statement   *)
(* each, so a page may show it with some of them or none.                  *)
(***************************************************************************)
EXTENDS Integers, Sequences, FiniteSets, SequencesExt, FiniteSetsExt

CONSTANTS Orders,    \* the orders that are ever placed
          OwnerOf,   \* who places each
          SizeOf,    \* how many items each has
          Products,  \* the products that are ever created
          NameOf,    \* their names, as places in the alphabet
          Queries,   \* the lists a client may walk through
          Sizes,     \* page sizes it may ask for
          MaxTime    \* bound: the seconds in which orders are placed

Statuses == {"PLACED", "PROCESSING", "SHIPPED", "DELIVERED", "CANCELLED"}
NoUser   == "nobody"
Query    == [of : {"all", "user", "status", "products"},
             user : {OwnerOf[o] : o \in Orders} \cup {NoUser}, status : Statuses]

ASSUME ListingAssumption ==
  /\ SizeOf \in [Orders -> Nat]
  /\ NameOf \in [Products -> Nat]
  /\ Orders \cap Products = {}
  /\ Queries \subseteq Query
  /\ Sizes \subseteq Nat /\ MaxTime \in Nat

VARIABLES
  at,        \* orders.created_at, rounded to a second (TIMESTAMP(0))
  status,    \* orders.status
  lines,     \* order_items: the order of each item, by the item's id
  created,   \* products
  query,     \* the list the client walks through
  size,      \* its page size
  page,      \* the page it asks for next
  phase,     \* where its walk stands
  responses, \* the pages it was shown
  base,      \* history: rows that could be shown when it started
  pushed,    \* history: statements that changed the lists since
  left       \* history: whether an order left the list since

tables == <<at, status, lines, created>>
walk   == <<query, size, page, phase, responses, base, pushed, left>>
vars   == <<tables, walk>>

\* A row is an order, or a product, with an item of it or 0 (NULL).
Entries == Orders \cup Products
Row     == Entries \X Nat
Stored  == DOMAIN at

TypeOK ==
  /\ Stored \subseteq Orders /\ at \in [Stored -> 0 .. MaxTime]
  /\ status \in [Stored -> Statuses]
  /\ lines \in Seq(Stored)
  /\ created \subseteq Products
  /\ query \in Queries
  /\ size \in Sizes
  /\ page \in Nat \ {0}
  /\ phase \in {"start", "walking", "done", "notfound", "invalid"}
  /\ base \subseteq Row
  /\ pushed \in Nat
  /\ left \in BOOLEAN
  /\ \A k \in DOMAIN responses :
       LET shown == responses[k]
       IN  /\ DOMAIN shown \subseteq Entries
           /\ Cardinality(DOMAIN shown) \in 1 .. size
           /\ \A e \in DOMAIN shown : Cardinality(shown[e]) <= size

Init ==
  /\ at = << >>
  /\ status = << >>
  /\ lines = << >>
  /\ created = {}
  /\ query \in Queries
  /\ size \in Sizes
  /\ page = 1
  /\ phase = "start"
  /\ responses = << >>
  /\ base = {}
  /\ pushed = 0
  /\ left = FALSE

-----------------------------------------------------------------------------
(* The statements that change the lists.  NOW() is the time the statement  *)
(* started, rounded to the nearest second, by a clock that may be set      *)
(* back.  Other statements may have become visible since, so created_at    *)
(* says nothing of the order in which rows become visible: any second.     *)
Extended(f, x, v) == [y \in DOMAIN f \cup {x} |-> IF y = x THEN v ELSE f[y]]

Changed(leaves) ==
  /\ pushed' = IF phase = "walking" THEN pushed + 1 ELSE pushed
  /\ left' = (left \/ (phase = "walking" /\ leaves))
  /\ UNCHANGED <<query, size, page, phase, responses, base>>

\* Bound: only what the client's list is made of changes, and until it is read.
Watched(lists) == query.of \in lists /\ phase \in {"start", "walking"}

CreateOrder(o) ==
  /\ Watched({"all", "user", "status"})
  /\ o \notin Stored
  /\ \E t \in 0 .. MaxTime : at' = Extended(at, o, t)
  /\ status' = Extended(status, o, "PLACED")
  /\ Changed(FALSE)
  /\ UNCHANGED <<lines, created>>

LinesOf(o) == {n \in DOMAIN lines : lines[n] = o}

CreateOrderItem(o) ==
  /\ Watched({"all", "user", "status"})
  /\ o \in Stored
  /\ Cardinality(LinesOf(o)) < SizeOf[o]
  /\ lines' = Append(lines, o)
  /\ Changed(FALSE)
  /\ UNCHANGED <<at, status, created>>

Transitions == {<<"PLACED", "PROCESSING">>, <<"PLACED", "CANCELLED">>,
                <<"PROCESSING", "SHIPPED">>, <<"PROCESSING", "CANCELLED">>,
                <<"SHIPPED", "DELIVERED">>}

UpdateOrderStatus(o) ==
  /\ Watched({"status"})
  /\ o \in Stored
  /\ \E s \in Statuses : <<status[o], s>> \in Transitions
                        /\ status' = [status EXCEPT ![o] = s]
  /\ Changed(query.of = "status" /\ status[o] = query.status)
  /\ UNCHANGED <<at, lines, created>>

CreateProduct(p) ==
  /\ Watched({"products"})
  /\ p \notin created
  /\ created' = created \cup {p}
  /\ Changed(FALSE)
  /\ UNCHANGED <<at, status, lines>>

-----------------------------------------------------------------------------
(* The queries: WHERE, the joins, ORDER BY.                                *)
Selected ==
  {o \in Stored : \/ query.of = "all"
                  \/ query.of = "user" /\ OwnerOf[o] = query.user
                  \/ query.of = "status" /\ status[o] = query.status}

ProductRows == created \X {0}
OrderRows(o) == IF LinesOf(o) = {} THEN {<<o, 0>>} ELSE {o} \X LinesOf(o)
Rows == IF query.of = "products" THEN ProductRows ELSE UNION {OrderRows(o) : o \in Selected}

Precedes(r, s) ==
  IF query.of = "products" THEN NameOf[r[1]] < NameOf[s[1]]
  ELSE \/ at[r[1]] > at[s[1]]
       \/ at[r[1]] = at[s[1]] /\ r[2] # 0 /\ (s[2] = 0 \/ r[2] < s[2])

\* Rows that precede each other in neither way come in any order.
Sorted == {s \in SetToSeqs(Rows) :
             \A i, j \in DOMAIN s : i < j => ~ Precedes(s[j], s[i])}

(* ValidateFilters: 422 unless both are in range.                          *)
ValidFilters(pg, sz) == pg > 0 /\ pg <= 10000000 /\ sz > 0 /\ sz <= 100

(* filters.offset and calculateMetadata.                                   *)
OffsetByPage(pg, sz) == pg * sz
OffsetOverlapping(pg, sz) == (pg - 1) * (sz - 1)
Offset(pg, sz) == (pg - 1) * sz
LimitPlusOne(sz) == sz + 1
Limit(sz) == sz
LastPage(records, sz) == (records + sz - 1) \div sz

(* The rows of a page, grouped by order: a map from each order met to its  *)
(* items; products are populated one by one.                               *)
LastItemOnly(rows) ==
  [e \in {rows[k][1] : k \in DOMAIN rows} |->
     {rows[k][2] : k \in {k \in DOMAIN rows :
                            rows[k][1] = e /\ \A j \in DOMAIN rows : rows[j][1] = e => j <= k}} \ {0}]
Grouped(rows) ==
  [e \in {rows[k][1] : k \in DOMAIN rows} |->
     {rows[k][2] : k \in {k \in DOMAIN rows : rows[k][1] = e}} \ {0}]
Populated(rows) == [e \in {rows[k][1] : k \in DOMAIN rows} |-> {}]
Response(rows) == IF query.of = "products" THEN Populated(rows) ELSE Grouped(rows)

(* getAllOrdersHandler, getUserOrdersHandler and getAllProductsHandler for *)
(* a client that starts at page 1 and follows metadata.last_page.  An      *)
(* empty page of orders has no metadata, one of products is a 404; both    *)
(* end the walk.                                                           *)
AsksBadly ==
  /\ phase = "start"
  /\ ~ ValidFilters(page, size)
  /\ phase' = "invalid"
  /\ UNCHANGED <<tables, query, size, page, responses, base, pushed, left>>

Starts ==
  /\ phase = "start"
  /\ ValidFilters(page, size)
  /\ phase' = "walking"
  /\ base' = {r \in Rows : query.of = "products" \/ r[2] # 0}
  /\ pushed' = 0
  /\ left' = FALSE
  /\ UNCHANGED <<tables, query, size, page, responses>>

EndOf(cut) == IF query.of = "products" /\ cut = << >> THEN "notfound" ELSE "done"

GetPage ==
  /\ phase = "walking"
  /\ \E rows \in Sorted :
       LET first == Offset(page, size) + 1
           cut   == SubSeq(rows, first, Min({Len(rows), first + Limit(size) - 1}))
           more  == cut # << >> /\ page < LastPage(Len(rows), size)
       IN  /\ responses' = IF cut = << >> THEN responses ELSE Append(responses, Response(cut))
           /\ page' = IF more THEN page + 1 ELSE page
           /\ phase' = IF more THEN "walking" ELSE EndOf(cut)
  /\ UNCHANGED <<tables, query, size, base, pushed, left>>

Finished ==
  /\ phase \in {"done", "notfound", "invalid"}
  /\ UNCHANGED vars

Next ==
  \/ \E o \in Orders : CreateOrder(o) \/ CreateOrderItem(o) \/ UpdateOrderStatus(o)
  \/ \E p \in Products : CreateProduct(p)
  \/ AsksBadly \/ Starts \/ GetPage
  \/ Finished

Spec == Init /\ [][Next]_vars
-----------------------------------------------------------------------------
Shows(response, r) ==
  r[1] \in DOMAIN response /\ (r[2] = 0 \/ r[2] \in response[r[1]])
TimesShown(r) == Cardinality({k \in DOMAIN responses : Shows(responses[k], r)})
Tied(r) == \E s \in Rows \ {r} : ~ Precedes(r, s) /\ ~ Precedes(s, r)

(* A list that only grows moves its rows to later pages, never to earlier  *)
(* ones: whoever reads it to its last page has seen every item that was    *)
(* stored when the walk began, items of half-stored orders and orders of   *)
(* the same second included.  Orders leave only the list of one status:    *)
(* without that, it may change as it likes and nothing is missed either.   *)
WalkMissesNothing ==
  phase = "done" /\ ~ left =>
    \A r \in base : TimesShown(r) > 0 \/ Tied(r)

(* A row is repeated only when rows that came meanwhile pushed it on: an   *)
(* undisturbed walk shows every row once.                                  *)
RepeatedOnlyIfPushed ==
  \A r \in base : TimesShown(r) <= 1 + pushed \/ Tied(r)

(* An item is shown under the order it belongs to, and the pages of an     *)
(* undisturbed walk show whole orders between them.                        *)
QuietWalkIsExact ==
  phase = "done" /\ pushed = 0 /\ query.of # "products" =>
    \A o \in Selected :
      UNION {responses[k][o] : k \in {k \in DOMAIN responses : o \in DOMAIN responses[k]}} = LinesOf(o)
=============================================================================
