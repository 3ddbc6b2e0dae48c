------------------------------ MODULE Checkout ------------------------------
(***************************************************************************)
(* Placing an order: createOrderHandler (cmd/api/orders.go) and            *)
(* OrderModel.CreateOrder (internal/data/orders.go) over the tables        *)
(* products, orders and order_items.                                       *)
(*                                                                         *)
(* CreateOrder opens no transaction, so every SQL statement commits alone: *)
(* one statement is one action, and the statements of concurrent requests  *)
(* interleave freely.  A request first checks every line of the cart and   *)
(* caches the stock it saw per product (productAvailabilityMap), then      *)
(* inserts the order, then for each line inserts the order item and writes *)
(* "cached stock - quantity" over products.stock_quantity.                 *)
(*                                                                         *)
(* A request places at most one order, so the request stands for the id of *)
(* that order.  No statement of the program changes the price of a product *)
(* or deletes a product, so Products and Price are constants and the two   *)
(* reads of CheckProductAvailability (stock, then price) are one action.   *)
(***************************************************************************)
EXTENDS Integers, Sequences, FiniteSets, FiniteSetsExt

CONSTANTS Requests,   \* the POST /orders requests that are ever sent
          Products,   \* the ids that have a row in products
          Carts,      \* the item lists a client may send
          Stock0,     \* stock_quantity of each product at the start
          Price,      \* price_kes of each product
          MaxTotal    \* the largest value orders.total_kes can hold

Item == [product : Nat, qty : Int]
Line == [product : Products, qty : Nat \ {0}, price : Nat]

ASSUME ProductsAssumption == Products \subseteq Nat
ASSUME CartsAssumption    == Carts \subseteq Seq(Item)
ASSUME StockAssumption    == Stock0 \in [Products -> Nat]
ASSUME PriceAssumption    == Price \in [Products -> Nat]
ASSUME MaxTotalAssumption == MaxTotal \in Nat

VARIABLES
  stock,      \* products.stock_quantity
  orders,     \* the rows of orders, as [request, total]
  lines,      \* the rows of order_items of each order, in insertion order
  pc,         \* where the handler of each request stands
  cart,       \* req.Items
  idx,        \* index of the item the current loop of CreateOrder is at
  snap,       \* productAvailabilityMap: the stock seen when p was last checked
  total,      \* totalAmount
  answer,     \* the HTTP answer the client got
  announced,  \* requests whose three background notifications were started
  sold,       \* history: units of p in lines whose stock write was executed
  contended   \* history: products checked while a stock write of theirs was due

tables  == <<stock, orders, lines>>
locals  == <<pc, cart, idx, snap, total>>
history == <<sold, contended>>
vars    == <<stock, orders, lines, pc, cart, idx, snap, total, answer,
             announced, sold, contended>>

Phases  == {"new", "check", "header", "line", "stock", "reply", "done", "dead"}
Answers == {"none", "invalid", "notfound", "insufficient", "failed", "created"}

TypeOK ==
  /\ stock \in [Products -> Nat]
  /\ orders \subseteq [request : Requests, total : Nat]
  /\ lines \in [Requests -> Seq(Line)]
  /\ pc \in [Requests -> Phases]
  /\ cart \in [Requests -> Seq(Item)]
  /\ idx \in [Requests -> Nat \ {0}]
  /\ snap \in [Requests -> [Products -> Nat]]
  /\ total \in [Requests -> Nat]
  /\ answer \in [Requests -> Answers]
  /\ announced \subseteq Requests
  /\ sold \in [Products -> Nat]
  /\ contended \subseteq Products

Init ==
  /\ stock = Stock0
  /\ orders = {}
  /\ lines = [r \in Requests |-> <<>>]
  /\ pc = [r \in Requests |-> "new"]
  /\ cart = [r \in Requests |-> <<>>]
  /\ idx = [r \in Requests |-> 1]
  /\ snap = [r \in Requests |-> [p \in Products |-> 0]]
  /\ total = [r \in Requests |-> 0]
  /\ answer = [r \in Requests |-> "none"]
  /\ announced = {}
  /\ sold = [p \in Products |-> 0]
  /\ contended = {}

-----------------------------------------------------------------------------
(* The request's place in its cart.                                        *)

InFlight(r) == pc[r] \notin {"new", "done", "dead"}

CurrentItem(r) == cart[r][idx[r]]

AtLastItemEarly(r) == idx[r] >= Len(cart[r]) - 1
AtLastItem(r) == idx[r] = Len(cart[r])

(* Line i of r's cart was checked and its stock write is still to come.    *)
WriteDue(r, i) ==
  /\ i \in DOMAIN cart[r]
  /\ \/ pc[r] = "check" /\ i < idx[r]
     \/ pc[r] = "header"
     \/ pc[r] \in {"line", "stock"} /\ i >= idx[r]

SomeWriteDue(p) ==
  \E r \in Requests : \E i \in DOMAIN cart[r] :
    WriteDue(r, i) /\ cart[r][i].product = p

-----------------------------------------------------------------------------
(* createOrderHandler up to CreateOrder: decode, validate.                 *)

ValidItem(item) == item.product > 0 /\ item.qty > 0

ValidCart(c) == Len(c) > 0 /\ \A i \in DOMAIN c : ValidItem(c[i])

Receive(r, c) ==
  /\ pc[r] = "new"
  /\ cart' = [cart EXCEPT ![r] = c]
  /\ IF ValidCart(c)
       THEN /\ pc' = [pc EXCEPT ![r] = "check"]
            /\ UNCHANGED answer
       ELSE /\ pc' = [pc EXCEPT ![r] = "done"]
            /\ answer' = [answer EXCEPT ![r] = "invalid"]
  /\ UNCHANGED <<tables, idx, snap, total, announced, history>>

(* The handler leaves with an error answer; whatever the statements before *)
(* it wrote stays in the database.                                         *)
AnswerError(r, a) ==
  /\ pc' = [pc EXCEPT ![r] = "done"]
  /\ answer' = [answer EXCEPT ![r] = a]
  /\ UNCHANGED <<cart, idx, snap, total, announced>>

-----------------------------------------------------------------------------
(* First loop of CreateOrder: check each line, cache what was seen.        *)

CheckMissing(r) ==
  /\ pc[r] = "check"
  /\ CurrentItem(r).product \notin Products
  /\ AnswerError(r, "notfound")
  /\ UNCHANGED <<tables, history>>

(* The is_available column of the query CheckProductAvailability.          *)
IsAvailable(r) == stock[CurrentItem(r).product] >= CurrentItem(r).qty

CheckShort(r) ==
  /\ pc[r] = "check"
  /\ CurrentItem(r).product \in Products
  /\ ~ IsAvailable(r)
  /\ AnswerError(r, "insufficient")
  /\ UNCHANGED <<tables, history>>

ItemTotal(r) == Price[CurrentItem(r).product] * CurrentItem(r).qty

TotalLastOnly(r) == ItemTotal(r)
NewTotal(r) == total[r] + ItemTotal(r)

CheckOk(r) ==
  LET p == CurrentItem(r).product
  IN  /\ pc[r] = "check"
      /\ p \in Products
      /\ IsAvailable(r)
      /\ snap' = [snap EXCEPT ![r][p] = stock[p]]
      /\ total' = [total EXCEPT ![r] = NewTotal(r)]
      /\ IF AtLastItem(r)
           THEN /\ pc' = [pc EXCEPT ![r] = "header"]
                /\ idx' = [idx EXCEPT ![r] = 1]
           ELSE /\ idx' = [idx EXCEPT ![r] = @ + 1]
                /\ UNCHANGED pc
      /\ contended' = IF SomeWriteDue(p) THEN contended \cup {p} ELSE contended
      /\ UNCHANGED <<tables, cart, answer, announced, sold>>

-----------------------------------------------------------------------------
(* The INSERT into orders.  "acked" says whether the statement's result    *)
(* reached the program: a statement cut off by the 10 s context or a lost  *)
(* connection may have been committed all the same.                        *)

Fits(t) == t <= MaxTotal

InsertHeader(r, acked) ==
  /\ pc[r] = "header"
  /\ Fits(total[r])
  /\ orders' = orders \cup {[request |-> r, total |-> total[r]]}
  /\ IF acked
       THEN /\ pc' = [pc EXCEPT ![r] = "line"]
            /\ UNCHANGED <<cart, idx, snap, total, answer, announced>>
       ELSE AnswerError(r, "failed")
  /\ UNCHANGED <<stock, lines, history>>

(* total_kes overflows NUMERIC(14,2): Postgres refuses the row.            *)
HeaderRefused(r) ==
  /\ pc[r] = "header"
  /\ ~ Fits(total[r])
  /\ AnswerError(r, "failed")
  /\ UNCHANGED <<tables, history>>

-----------------------------------------------------------------------------
(* Second loop of CreateOrder: insert the item, overwrite the stock.       *)

InsertLine(r, acked) ==
  LET item == CurrentItem(r)
  IN  /\ pc[r] = "line"
      /\ lines' = [lines EXCEPT ![r] =
                     Append(@, [product |-> item.product, qty |-> item.qty,
                                price |-> Price[item.product]])]
      /\ IF acked
           THEN /\ pc' = [pc EXCEPT ![r] = "stock"]
                /\ UNCHANGED <<cart, idx, snap, total, answer, announced>>
           ELSE AnswerError(r, "failed")
      /\ UNCHANGED <<stock, orders, history>>

NewStockWholeCart(r) ==
  LET p == CurrentItem(r).product
  IN  snap[r][p] - MapThenSumSet(LAMBDA i : cart[r][i].qty,
                                 {i \in DOMAIN cart[r] : cart[r][i].product = p})
NewStockUnchanged(r) == snap[r][CurrentItem(r).product]
NewStock(r) == snap[r][CurrentItem(r).product] - CurrentItem(r).qty

(* CHECK (stock_quantity >= 0).                                            *)
NoStockCheck(v) == TRUE
StockCheck(v) == v >= 0

WriteStock(r, acked) ==
  LET p == CurrentItem(r).product
  IN  /\ pc[r] = "stock"
      /\ StockCheck(NewStock(r))
      /\ stock' = [stock EXCEPT ![p] = NewStock(r)]
      /\ sold' = [sold EXCEPT ![p] = @ + CurrentItem(r).qty]
      /\ IF ~ acked
           THEN AnswerError(r, "failed")
           ELSE /\ IF AtLastItem(r)
                     THEN /\ pc' = [pc EXCEPT ![r] = "reply"]
                          /\ UNCHANGED idx
                     ELSE /\ pc' = [pc EXCEPT ![r] = "line"]
                          /\ idx' = [idx EXCEPT ![r] = @ + 1]
                /\ UNCHANGED <<cart, snap, total, answer, announced>>
      /\ UNCHANGED <<orders, lines, contended>>

(* The database refuses a negative stock; CreateOrder returns the error    *)
(* with the order and some of its lines already stored.                    *)
RefusedWriteAsShort == "insufficient"
RefusedWriteAnswer == "failed"

StockRefused(r) ==
  /\ pc[r] = "stock"
  /\ ~ StockCheck(NewStock(r))
  /\ AnswerError(r, RefusedWriteAnswer)
  /\ UNCHANGED <<tables, history>>

-----------------------------------------------------------------------------
(* Any statement may fail without effect: timeout, connection, no row back.*)

SwallowedError == "none"
StatementErrorAnswer == "failed"

StatementFails(r) ==
  /\ pc[r] \in {"check", "header", "line", "stock"}
  /\ AnswerError(r, StatementErrorAnswer)
  /\ UNCHANGED <<tables, history>>

(* The rest of createOrderHandler: start the confirmation e-mail, the      *)
(* administrators' e-mail and the SMS in the background, then answer 201.  *)
Reply(r) ==
  /\ pc[r] = "reply"
  /\ announced' = announced \cup {r}
  /\ answer' = [answer EXCEPT ![r] = "created"]
  /\ pc' = [pc EXCEPT ![r] = "done"]
  /\ UNCHANGED <<tables, cart, idx, snap, total, history>>

(* The process serving r is killed: its memory is gone, its rows stay.     *)
Crash(r) ==
  /\ InFlight(r)
  /\ pc' = [pc EXCEPT ![r] = "dead"]
  /\ UNCHANGED <<tables, cart, idx, snap, total, answer, announced, history>>

(* Requests is finite: when each one has ended nothing is left to do.      *)
AllEnded ==
  /\ \A r \in Requests : pc[r] \in {"done", "dead"}
  /\ UNCHANGED vars

Handle(r) ==
  \/ CheckMissing(r) \/ CheckShort(r) \/ CheckOk(r)
  \/ HeaderRefused(r) \/ StockRefused(r)
  \/ \E acked \in BOOLEAN :
       InsertHeader(r, acked) \/ InsertLine(r, acked) \/ WriteStock(r, acked)
  \/ StatementFails(r)
  \/ Reply(r)

Next ==
  \/ \E r \in Requests :
       \/ \E c \in Carts : Receive(r, c)
       \/ Handle(r)
       \/ Crash(r)
  \/ AllEnded

Spec == Init /\ [][Next]_vars

(* The server runs a handler it has started, and every statement of it     *)
(* ends within the context's 10 s; nothing obliges a client to send or a   *)
(* process to crash.                                                       *)
FairSpec == Spec /\ \A r \in Requests : WF_vars(Handle(r))

-----------------------------------------------------------------------------
(* What a request leaves behind.                                           *)

HeaderOf(r) == {o \in orders : o.request = r}

LineOf(item) == [product |-> item.product, qty |-> item.qty,
                 price |-> Price[item.product]]

LinesValue(s) == SumFunction([i \in DOMAIN s |-> s[i].qty * s[i].price])

Complete(r) ==
  /\ Cardinality(HeaderOf(r)) = 1
  /\ Len(lines[r]) = Len(cart[r])
  /\ \A i \in DOMAIN cart[r] : lines[r][i] = LineOf(cart[r][i])

(* A stale snapshot can lose decrements but never invents one: no more     *)
(* units are gone from the shelf than were sold (CreateOrder's overwrite   *)
(* of stock_quantity by cached stock minus quantity).                      *)
ShelfLossIsSold == \A p \in Products : Stock0[p] - stock[p] <= sold[p]

(* The shelf never shows more than the opening stock, although a stale     *)
(* write may raise it.                                                     *)
ShelfWithinOpening == \A p \in Products : stock[p] <= Stock0[p]

(* Stock is kept exactly for every product never checked while another     *)
(* write of it was due, neither by another request nor by an earlier line  *)
(* of the same cart: these two overlaps are all that CreateOrder's missing *)
(* transaction costs, whatever fails or crashes.                           *)
UncontendedExact ==
  \A p \in Products \ contended : Stock0[p] - stock[p] = sold[p]

(* A request answered 422 (invalid, unknown product, short stock) has left *)
(* no order and no line: CreateOrder checks all lines before it writes.    *)
RefusedLeavesNoTrace ==
  \A r \in Requests :
    answer[r] \in {"invalid", "notfound", "insufficient"}
      => HeaderOf(r) = {} /\ lines[r] = <<>>

(* Whoever was told 201, and whoever is notified in the background, has an *)
(* order with every requested line at the product's price.                 *)
ConfirmedIsComplete ==
  \A r \in Requests : answer[r] = "created" \/ r \in announced => Complete(r)

(* Stored lines are those of an order that exists, never exceed the cart,  *)
(* and once all are stored the order's total is their sum.                 *)
TotalIsSumOfLines ==
  \A r \in Requests :
    /\ Len(lines[r]) <= Len(cart[r])
    /\ lines[r] # <<>> => HeaderOf(r) # {}
    /\ lines[r] # <<>> /\ Len(lines[r]) = Len(cart[r])
         => \A o \in HeaderOf(r) : o.total = LinesValue(lines[r])

(* A request that was accepted is answered, unless its process dies: every *)
(* path of CreateOrder and of the handler ends in a response.              *)
AcceptedIsAnswered ==
  \A r \in Requests :
    InFlight(r) ~> (answer[r] # "none" \/ pc[r] = "dead")

-----------------------------------------------------------------------------
(* A promise the code does not keep (see README, findings): no more units  *)
(* of a product are sold than there were, the check of                     *)
(* CheckProductAvailability, "checks if a product has sufficient stock".   *)
NoOversell == \A p \in Products : sold[p] <= Stock0[p]
=============================================================================
