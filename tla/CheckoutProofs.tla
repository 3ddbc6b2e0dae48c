--------------------------- MODULE CheckoutProofs ---------------------------
(***************************************************************************)
(* Theorems about Checkout for any number of requests, any products and    *)
(* carts.  The inductive invariant has four parts: the types, the shape of *)
(* a request's cart in each phase, a bound on every cached stock value     *)
(* that will still be written (ShelfInv), and its exact value for the      *)
(* products that no two due writes ever shared (UncontendedInv).  On top   *)
(* of it: the rows a request has stored in each phase (StoredInv), and the *)
(* total as the sum of the items checked (TotalInv), for which sums over   *)
(* finite sets are first given the laws they need, by induction.           *)
(***************************************************************************)
EXTENDS Checkout, Functions, FiniteSetTheorems, WellFoundedInduction, TLAPS

(* A request in flight has a valid cart and stands at one of its items;    *)
(* the items it has checked are products.                                  *)
CartOK(r) ==
  /\ pc[r] = "new" => idx[r] = 1
  /\ InFlight(r) => ValidCart(cart[r]) /\ idx[r] \in 1 .. Len(cart[r])
  /\ pc[r] = "check" =>
       \A i \in 1 .. idx[r] - 1 : cart[r][i].product \in Products
  /\ pc[r] \in {"header", "line", "stock"} =>
       \A i \in 1 .. Len(cart[r]) : cart[r][i].product \in Products

CartInv == \A r \in Requests : CartOK(r)

(* Line i of r's cart will still overwrite the stock of p.                 *)
Due(r, i, p) == WriteDue(r, i) /\ cart[r][i].product = p

ShelfInv ==
  \A p \in Products :
    /\ Stock0[p] - stock[p] <= sold[p]
    /\ stock[p] <= Stock0[p]
    /\ \A r \in Requests : \A i \in DOMAIN cart[r] :
         Due(r, i, p) => /\ Stock0[p] - snap[r][p] <= sold[p]
                         /\ snap[r][p] <= Stock0[p]

UncontendedInv ==
  \A p \in Products \ contended :
    /\ Stock0[p] - stock[p] = sold[p]
    /\ \A r \in Requests : \A i \in DOMAIN cart[r] :
         Due(r, i, p) =>
           /\ snap[r][p] = stock[p]
           /\ \A q \in Requests : \A j \in DOMAIN cart[q] :
                Due(q, j, p) => q = r /\ j = i

IInv == TypeOK /\ CartInv /\ ShelfInv /\ UncontendedInv

-----------------------------------------------------------------------------
(* The steps by which a request ends without touching a table.             *)

EndsQuietly(r) ==
  /\ pc[r] \notin {"new", "done", "dead"}
  /\ \/ pc' = [pc EXCEPT ![r] = "done"]
     \/ pc' = [pc EXCEPT ![r] = "dead"]
  /\ answer' = answer \/ \E a \in Answers : answer' = [answer EXCEPT ![r] = a]
  /\ announced' \subseteq announced \cup {r}
  /\ UNCHANGED <<tables, cart, idx, snap, total, history>>

QuietEnd(r) ==
  \/ CheckMissing(r) \/ CheckShort(r) \/ HeaderRefused(r) \/ StockRefused(r)
  \/ StatementFails(r) \/ Reply(r) \/ Crash(r)

LEMMA QuietEndEnds ==
  ASSUME NEW r \in Requests, TypeOK, QuietEnd(r)
  PROVE  EndsQuietly(r)
  BY DEF QuietEnd, EndsQuietly, CheckMissing, CheckShort, HeaderRefused,
         StockRefused, StatementFails, Reply, Crash, AnswerError, InFlight,
         Answers, StatementErrorAnswer, RefusedWriteAnswer, TypeOK

LEMMA NextCases ==
  ASSUME Next
  PROVE  \/ \E r \in Requests :
              \/ \E c \in Carts : Receive(r, c)
              \/ QuietEnd(r)
              \/ CheckOk(r)
              \/ \E acked \in BOOLEAN :
                   InsertHeader(r, acked) \/ InsertLine(r, acked)
                                          \/ WriteStock(r, acked)
         \/ UNCHANGED vars
  BY DEF Next, Handle, QuietEnd, AllEnded

(* Where a request stands in its cart, from the types and CartInv.         *)
LEMMA CurrentItemType ==
  ASSUME TypeOK, CartInv, NEW r \in Requests, InFlight(r)
  PROVE  /\ idx[r] \in 1 .. Len(cart[r])
         /\ CurrentItem(r) \in Item
         /\ CurrentItem(r).qty \in Nat \ {0}
         /\ Len(cart[r]) \in Nat
         /\ DOMAIN cart[r] = 1 .. Len(cart[r])
<1>1. cart[r] \in Seq(Item) /\ idx[r] \in 1 .. Len(cart[r]) /\ ValidCart(cart[r])
  BY DEF TypeOK, CartInv, CartOK
<1>2. cart[r][idx[r]] \in Item /\ ValidItem(cart[r][idx[r]])
  BY <1>1 DEF ValidCart
<1>3. Len(cart[r]) \in Nat /\ DOMAIN cart[r] = 1 .. Len(cart[r])
  BY <1>1
<1>4. cart[r][idx[r]].qty \in Nat \ {0}
  BY <1>2 DEF ValidItem, Item
<1>. QED
  BY <1>1, <1>2, <1>3, <1>4 DEF CurrentItem

-----------------------------------------------------------------------------
(* Type correctness.                                                       *)

LEMMA InitInv == Init => IInv
<1>. SUFFICES ASSUME Init PROVE IInv
  OBVIOUS
<1>. USE DEF Init
<1>1. TypeOK
  BY StockAssumption DEF TypeOK, Phases, Answers
<1>2. CartInv
  BY DEF CartInv, CartOK, InFlight
<1>3. ShelfInv /\ UncontendedInv
  BY StockAssumption DEF ShelfInv, UncontendedInv, Due, WriteDue
<1>. QED
  BY <1>1, <1>2, <1>3 DEF IInv

LEMMA TypeStep ==
  ASSUME TypeOK, CartInv, [Next]_vars
  PROVE  TypeOK'
<1>. USE DEF TypeOK
<1>1. ASSUME NEW r \in Requests, NEW c \in Carts, Receive(r, c)
      PROVE  TypeOK'
  BY <1>1, CartsAssumption
     DEF Receive, Phases, Answers, tables, history
<1>2. ASSUME NEW r \in Requests, QuietEnd(r)
      PROVE  TypeOK'
  <2>1. EndsQuietly(r)
    BY <1>2, QuietEndEnds
  <2>2. pc' \in [Requests -> Phases]
    BY <2>1 DEF EndsQuietly, Phases
  <2>3. answer' \in [Requests -> Answers]
    BY <2>1 DEF EndsQuietly
  <2>4. announced' \subseteq Requests /\ UNCHANGED <<tables, cart, idx, snap, total, history>>
    BY <2>1 DEF EndsQuietly
  <2>. QED
    BY <2>2, <2>3, <2>4 DEF tables, history
<1>3. ASSUME NEW r \in Requests, CheckOk(r)
      PROVE  TypeOK'
  <2>. DEFINE item == CurrentItem(r)
  <2>1. CurrentItem(r).qty \in Nat /\ idx[r] \in Nat \ {0} /\ CurrentItem(r).product \in Products
    BY <1>3, CurrentItemType DEF CheckOk, InFlight
  <2>2. NewTotal(r) \in Nat
    <3>1. Price[item.product] \in Nat
      BY <2>1, PriceAssumption
    <3>2. Price[item.product] * item.qty \in Nat
      BY <2>1, <3>1
    <3>. QED
      BY <3>2 DEF NewTotal, ItemTotal
  <2>3. snap' \in [Requests -> [Products -> Nat]] /\ contended' \subseteq Products
    BY <1>3, <2>1 DEF CheckOk
  <2>4. total' \in [Requests -> Nat]
    BY <1>3, <2>2 DEF CheckOk
  <2>5. pc' \in [Requests -> Phases] /\ idx' \in [Requests -> Nat \ {0}]
    <3>1. CASE AtLastItem(r)
      <4>1. /\ pc' = [pc EXCEPT ![r] = "header"]
            /\ idx' = [idx EXCEPT ![r] = 1]
        BY <1>3, <3>1 DEF CheckOk
      <4>. QED
        BY <4>1 DEF Phases
    <3>2. CASE ~ AtLastItem(r)
      BY <1>3, <2>1, <3>2 DEF CheckOk
    <3>. QED
      BY <3>1, <3>2
  <2>. QED
    BY <1>3, <2>3, <2>4, <2>5 DEF CheckOk, tables
<1>4. ASSUME NEW r \in Requests, NEW acked \in BOOLEAN, InsertHeader(r, acked)
      PROVE  TypeOK'
  <2>1. orders' \subseteq [request : Requests, total : Nat]
    BY <1>4 DEF InsertHeader
  <2>2. CASE acked
    BY <1>4, <2>1, <2>2 DEF InsertHeader, Phases, history
  <2>3. CASE ~ acked
    BY <1>4, <2>1, <2>3 DEF InsertHeader, AnswerError, Phases, Answers, history
  <2>. QED
    BY <2>2, <2>3
<1>5. ASSUME NEW r \in Requests, NEW acked \in BOOLEAN, InsertLine(r, acked)
      PROVE  TypeOK'
  <2>. DEFINE item == CurrentItem(r)
              row  == [product |-> item.product, qty |-> item.qty,
                       price |-> Price[item.product]]
  <2>1. /\ item.qty \in Nat \ {0}
        /\ item.product \in Products
    BY <1>5, CurrentItemType DEF InsertLine, InFlight, CartInv, CartOK, CurrentItem
  <2>2. row \in Line
    BY <2>1, PriceAssumption DEF Line
  <2>3. lines' = [lines EXCEPT ![r] = Append(lines[r], row)]
    BY <1>5 DEF InsertLine
  <2>4. lines' \in [Requests -> Seq(Line)]
    BY <2>2, <2>3
  <2>. QED
    BY <1>5, <2>4 DEF InsertLine, AnswerError, Phases, Answers, history
<1>6. ASSUME NEW r \in Requests, NEW acked \in BOOLEAN, WriteStock(r, acked)
      PROVE  TypeOK'
  <2>. DEFINE item == CurrentItem(r)
  <2>1. /\ item.qty \in Nat \ {0}
        /\ item.product \in Products
        /\ idx[r] \in Nat \ {0}
    BY <1>6, CurrentItemType DEF WriteStock, InFlight, CartInv, CartOK, CurrentItem
  <2>2. NewStock(r) \in Nat
    BY <1>6, <2>1 DEF WriteStock, NewStock, StockCheck
  <2>3. /\ stock' \in [Products -> Nat]
        /\ sold' \in [Products -> Nat]
    <3>1. /\ stock' = [stock EXCEPT ![item.product] = NewStock(r)]
          /\ sold' = [sold EXCEPT ![item.product] = sold[item.product] + item.qty]
      BY <1>6 DEF WriteStock
    <3>2. sold[item.product] + item.qty \in Nat
      BY <2>1
    <3>. HIDE DEF item
    <3>. QED
      BY <2>1, <2>2, <3>1, <3>2
  <2>4. CASE ~ acked
    <3>1. /\ AnswerError(r, "failed")
          /\ UNCHANGED <<orders, lines, contended>>
      BY <1>6, <2>4 DEF WriteStock
    <3>. QED
      BY <2>3, <3>1 DEF AnswerError, Phases, Answers
  <2>5. CASE acked /\ AtLastItem(r)
    <3>1. /\ pc' = [pc EXCEPT ![r] = "reply"]
          /\ UNCHANGED <<idx, cart, snap, total, answer, announced>>
          /\ UNCHANGED <<orders, lines, contended>>
      BY <1>6, <2>5 DEF WriteStock
    <3>. QED
      BY <2>3, <3>1 DEF Phases
  <2>6. CASE acked /\ ~ AtLastItem(r)
    <3>1. /\ pc' = [pc EXCEPT ![r] = "line"]
          /\ idx' = [idx EXCEPT ![r] = idx[r] + 1]
          /\ UNCHANGED <<cart, snap, total, answer, announced>>
          /\ UNCHANGED <<orders, lines, contended>>
      BY <1>6, <2>6 DEF WriteStock
    <3>2. idx' \in [Requests -> Nat \ {0}]
      BY <2>1, <3>1
    <3>3. pc' \in [Requests -> Phases]
      BY <3>1 DEF Phases
    <3>. QED
      BY <2>3, <3>1, <3>2, <3>3
  <2>. QED
    BY <2>4, <2>5, <2>6
<1>7. CASE UNCHANGED vars
  BY <1>7 DEF vars
<1>. QED
  BY <1>1, <1>2, <1>3, <1>4, <1>5, <1>6, <1>7, NextCases

LEMMA CartFrame ==
  ASSUME NEW q, CartOK(q),
         pc'[q] = pc[q], cart'[q] = cart[q], idx'[q] = idx[q]
  PROVE  CartOK(q)'
  BY DEF CartOK, InFlight

LEMMA CartStep ==
  ASSUME TypeOK, CartInv, [Next]_vars
  PROVE  CartInv'
<1>. SUFFICES ASSUME NEW q \in Requests PROVE CartOK(q)'
  BY DEF CartInv
<1>0. CartOK(q)
  BY DEF CartInv
<1>1. ASSUME NEW r \in Requests, NEW c \in Carts, Receive(r, c)
      PROVE  CartOK(q)'
  <2>1. CASE q = r
    <3>1. /\ cart'[r] = c /\ idx'[r] = 1 /\ c \in Seq(Item)
          /\ pc'[r] = IF ValidCart(c) THEN "check" ELSE "done"
      BY <1>0, <1>1, <2>1, CartsAssumption DEF Receive, TypeOK, CartOK
    <3>. QED
      BY <2>1, <3>1 DEF CartOK, InFlight, ValidCart
  <2>2. CASE q # r
    BY <1>0, <1>1, <2>2, CartFrame DEF Receive, TypeOK
  <2>. QED
    BY <2>1, <2>2
<1>2. ASSUME NEW r \in Requests, QuietEnd(r)
      PROVE  CartOK(q)'
  <2>1. EndsQuietly(r)
    BY <1>2, QuietEndEnds
  <2>2. CASE q = r
    BY <2>1, <2>2 DEF EndsQuietly, TypeOK, CartOK, InFlight
  <2>3. CASE q # r
    BY <1>0, <2>1, <2>3, CartFrame DEF EndsQuietly, TypeOK
  <2>. QED
    BY <2>2, <2>3
<1>3. ASSUME NEW r \in Requests, CheckOk(r)
      PROVE  CartOK(q)'
  <2>1. CASE q = r
    <3>1. /\ idx[r] \in 1 .. Len(cart[r])
          /\ Len(cart[r]) \in Nat
          /\ cart[r][idx[r]].product \in Products
          /\ ValidCart(cart[r])
          /\ \A i \in 1 .. idx[r] - 1 : cart[r][i].product \in Products
          /\ cart' = cart
      BY <1>0, <1>3, <2>1, CurrentItemType
         DEF CheckOk, InFlight, CurrentItem, CartOK
    <3>2. CASE AtLastItem(r)
      <4>1. pc'[r] = "header" /\ idx'[r] = 1 /\ idx[r] = Len(cart[r])
        BY <1>3, <3>2 DEF CheckOk, AtLastItem, TypeOK
      <4>. QED
        BY <2>1, <3>1, <4>1 DEF CartOK, InFlight
    <3>3. CASE ~ AtLastItem(r)
      <4>1. pc'[r] = "check" /\ idx'[r] = idx[r] + 1 /\ idx[r] # Len(cart[r])
        BY <1>3, <3>3 DEF CheckOk, AtLastItem, TypeOK
      <4>. QED
        BY <2>1, <3>1, <4>1 DEF CartOK, InFlight
    <3>. QED
      BY <3>2, <3>3
  <2>2. CASE q # r
    BY <1>0, <1>3, <2>2, CartFrame DEF CheckOk, TypeOK
  <2>. QED
    BY <2>1, <2>2
<1>4. ASSUME NEW r \in Requests, NEW acked \in BOOLEAN,
             InsertHeader(r, acked) \/ InsertLine(r, acked)
      PROVE  CartOK(q)'
  <2>1. cart' = cart /\ idx' = idx /\ pc[r] \in {"header", "line"}
    BY <1>4 DEF InsertHeader, InsertLine, AnswerError
  <2>2. \/ pc' = [pc EXCEPT ![r] = "line"]
        \/ pc' = [pc EXCEPT ![r] = "stock"]
        \/ pc' = [pc EXCEPT ![r] = "done"]
    BY <1>4 DEF InsertHeader, InsertLine, AnswerError
  <2>3. CASE q = r
    BY <1>0, <2>1, <2>2, <2>3 DEF CartOK, InFlight, TypeOK
  <2>4. CASE q # r
    BY <1>0, <2>1, <2>2, <2>4, CartFrame DEF TypeOK
  <2>. QED
    BY <2>3, <2>4
<1>5. ASSUME NEW r \in Requests, NEW acked \in BOOLEAN, WriteStock(r, acked)
      PROVE  CartOK(q)'
  <2>1. /\ idx[r] \in 1 .. Len(cart[r]) /\ Len(cart[r]) \in Nat
        /\ cart' = cart /\ pc[r] = "stock"
    BY <1>5, CurrentItemType DEF WriteStock, AnswerError, InFlight
  <2>2. \/ pc' = [pc EXCEPT ![r] = "done"] /\ idx' = idx
        \/ pc' = [pc EXCEPT ![r] = "reply"] /\ idx' = idx
        \/ /\ pc' = [pc EXCEPT ![r] = "line"]
           /\ idx' = [idx EXCEPT ![r] = idx[r] + 1]
           /\ idx[r] # Len(cart[r])
    BY <1>5 DEF WriteStock, AnswerError, AtLastItem
  <2>3. CASE q = r
    BY <1>0, <2>1, <2>2, <2>3 DEF CartOK, InFlight, TypeOK
  <2>4. CASE q # r
    BY <1>0, <2>1, <2>2, <2>4, CartFrame DEF TypeOK
  <2>. QED
    BY <2>3, <2>4
<1>6. CASE UNCHANGED vars
  BY <1>0, <1>6, CartFrame DEF vars
<1>. QED
  BY <1>1, <1>2, <1>3, <1>4, <1>5, <1>6, NextCases

-----------------------------------------------------------------------------
(* The shelf.  A step that changes neither the stock nor a snapshot, and   *)
(* makes no further write due, disturbs neither part of the invariant.     *)

LEMMA ShelfFrame ==
  ASSUME ShelfInv, UncontendedInv,
         UNCHANGED <<stock, snap, sold, contended>>,
         \A r \in Requests : \A i \in DOMAIN cart'[r] : \A p \in Products :
           Due(r, i, p)' => i \in DOMAIN cart[r] /\ Due(r, i, p)
  PROVE  ShelfInv' /\ UncontendedInv'
<1>1. ShelfInv'
  BY DEF ShelfInv
<1>2. UncontendedInv'
  BY DEF UncontendedInv
<1>. QED
  BY <1>1, <1>2

(* A successful check makes exactly the checked line due.                  *)
LEMMA CheckOkDue ==
  ASSUME TypeOK, CartInv, NEW r \in Requests, CheckOk(r),
         NEW q \in Requests, NEW i \in DOMAIN cart'[q], NEW p \in Products,
         Due(q, i, p)'
  PROVE  /\ i \in DOMAIN cart[q]
         /\ \/ Due(q, i, p)
            \/ q = r /\ i = idx[r] /\ p = CurrentItem(r).product
<1>1. cart' = cart /\ idx[r] \in 1 .. Len(cart[r]) /\ Len(cart[r]) \in Nat
      /\ DOMAIN cart[r] = 1 .. Len(cart[r]) /\ pc[r] = "check"
  BY CurrentItemType DEF CheckOk, InFlight
<1>2. CASE q # r
  BY <1>1, <1>2 DEF CheckOk, TypeOK, Due, WriteDue
<1>3. CASE q = r
  <2>1. i \in 1 .. Len(cart[r]) /\ cart[r][i].product = p
    BY <1>1, <1>3 DEF Due
  <2>2. i <= idx[r]
    <3>1. CASE AtLastItem(r)
      BY <1>1, <2>1, <3>1 DEF AtLastItem
    <3>2. CASE ~ AtLastItem(r)
      <4>1. pc'[r] = "check" /\ idx'[r] = idx[r] + 1
        BY <1>1, <3>2 DEF CheckOk, TypeOK
      <4>. QED
        BY <1>1, <1>3, <2>1, <4>1 DEF Due, WriteDue
    <3>. QED
      BY <3>1, <3>2
  <2>3. CASE i = idx[r]
    BY <1>1, <1>3, <2>1, <2>3 DEF CurrentItem
  <2>4. CASE i < idx[r]
    BY <1>1, <1>3, <2>1, <2>4 DEF Due, WriteDue
  <2>. QED
    BY <1>1, <2>1, <2>2, <2>3, <2>4
<1>. QED
  BY <1>2, <1>3

(* A stock write makes exactly the written line no longer due.             *)
LEMMA WriteStockDue ==
  ASSUME TypeOK, CartInv, NEW r \in Requests, NEW acked \in BOOLEAN,
         WriteStock(r, acked),
         NEW q \in Requests, NEW i \in DOMAIN cart'[q], NEW p \in Products,
         Due(q, i, p)'
  PROVE  i \in DOMAIN cart[q] /\ Due(q, i, p) /\ ~ (q = r /\ i = idx[r])
<1>1. cart' = cart /\ idx[r] \in 1 .. Len(cart[r]) /\ Len(cart[r]) \in Nat
      /\ DOMAIN cart[r] = 1 .. Len(cart[r]) /\ pc[r] = "stock"
  BY CurrentItemType DEF WriteStock, InFlight, AnswerError
<1>2. \/ pc' = [pc EXCEPT ![r] = "done"] /\ idx' = idx
      \/ pc' = [pc EXCEPT ![r] = "reply"] /\ idx' = idx
      \/ /\ pc' = [pc EXCEPT ![r] = "line"]
         /\ idx' = [idx EXCEPT ![r] = idx[r] + 1]
  BY DEF WriteStock, AnswerError
<1>3. CASE q # r
  BY <1>1, <1>2, <1>3 DEF TypeOK, Due, WriteDue
<1>4. CASE q = r
  <2>1. pc'[r] = "line" /\ idx'[r] = idx[r] + 1
    BY <1>2, <1>4 DEF TypeOK, Due, WriteDue
  <2>2. i \in 1 .. Len(cart[r]) /\ i >= idx[r] + 1 /\ cart[r][i].product = p
    BY <1>1, <1>4, <2>1 DEF Due, WriteDue
  <2>. QED
    BY <1>1, <1>4, <2>2 DEF Due, WriteDue
<1>. QED
  BY <1>3, <1>4

LEMMA ShelfStep ==
  ASSUME TypeOK, CartInv, ShelfInv, UncontendedInv, [Next]_vars
  PROVE  ShelfInv' /\ UncontendedInv'
<1>1. ASSUME NEW r \in Requests, NEW c \in Carts, Receive(r, c)
      PROVE  ShelfInv' /\ UncontendedInv'
  <2>1. ASSUME NEW q \in Requests, NEW i \in DOMAIN cart'[q], NEW p \in Products,
               Due(q, i, p)'
        PROVE  i \in DOMAIN cart[q] /\ Due(q, i, p)
    <3>1. CASE q = r
      <4>1. /\ idx'[r] = 1 /\ cart'[r] \in Seq(Item)
            /\ pc'[r] \in {"check", "done"}
        BY <1>1, CartsAssumption DEF Receive, TypeOK, CartInv, CartOK
      <4>. QED
        BY <2>1, <3>1, <4>1 DEF Due, WriteDue
    <3>2. CASE q # r
      BY <1>1, <2>1, <3>2 DEF Receive, TypeOK, Due, WriteDue
    <3>. QED
      BY <3>1, <3>2
  <2>. QED
    BY <1>1, <2>1, ShelfFrame DEF Receive, tables, history
<1>2. ASSUME NEW r \in Requests, QuietEnd(r)
      PROVE  ShelfInv' /\ UncontendedInv'
  <2>1. EndsQuietly(r)
    BY <1>2, QuietEndEnds
  <2>2. \A q \in Requests : \A i \in DOMAIN cart'[q] : \A p \in Products :
          Due(q, i, p)' => i \in DOMAIN cart[q] /\ Due(q, i, p)
    BY <2>1 DEF EndsQuietly, TypeOK, Due, WriteDue
  <2>. QED
    BY <2>1, <2>2, ShelfFrame DEF EndsQuietly, tables, history
<1>3. ASSUME NEW r \in Requests, CheckOk(r)
      PROVE  ShelfInv' /\ UncontendedInv'
  <2>. DEFINE p0 == CurrentItem(r).product
  <2>1. /\ p0 \in Products
        /\ snap' = [snap EXCEPT ![r][p0] = stock[p0]]
        /\ contended' = IF SomeWriteDue(p0) THEN contended \cup {p0} ELSE contended
        /\ UNCHANGED <<stock, sold>>
    BY <1>3 DEF CheckOk, tables
  <2>. HIDE DEF p0
  <2>2. ASSUME NEW q \in Requests, NEW i \in DOMAIN cart'[q], NEW p \in Products,
               Due(q, i, p)'
        PROVE  \/ i \in DOMAIN cart[q] /\ Due(q, i, p) /\ snap'[q][p] = snap[q][p]
               \/ q = r /\ i = idx[r] /\ p = p0 /\ snap'[q][p] = stock[p]
               \/ /\ i \in DOMAIN cart[q] /\ Due(q, i, p)
                  /\ p = p0 /\ snap'[q][p] = stock[p]
    BY <1>3, <2>1, <2>2, CheckOkDue DEF TypeOK, p0
  <2>3. ShelfInv'
    BY <2>1, <2>2 DEF ShelfInv
  <2>4. ASSUME NEW p \in Products \ contended'
        PROVE  /\ Stock0[p] - stock'[p] = sold'[p]
               /\ \A q \in Requests : \A i \in DOMAIN cart'[q] :
                    Due(q, i, p)' =>
                      /\ snap'[q][p] = stock'[p]
                      /\ \A s \in Requests : \A j \in DOMAIN cart'[s] :
                           Due(s, j, p)' => s = q /\ j = i
    <3>1. p \in Products \ contended
      BY <2>1, <2>4
    <3>2. CASE p = p0
      <4>1. \A q \in Requests : \A i \in DOMAIN cart[q] : ~ Due(q, i, p)
        BY <2>1, <2>4, <3>2 DEF SomeWriteDue, Due
      <4>2. \A q \in Requests : \A i \in DOMAIN cart'[q] :
              Due(q, i, p)' => q = r /\ i = idx[r] /\ snap'[q][p] = stock[p]
        BY <2>2, <4>1
      <4>. QED
        BY <2>1, <3>1, <4>2 DEF UncontendedInv
    <3>3. CASE p # p0
      <4>1. \A q \in Requests : \A i \in DOMAIN cart'[q] : Due(q, i, p)' =>
              i \in DOMAIN cart[q] /\ Due(q, i, p) /\ snap'[q][p] = snap[q][p]
        BY <2>2, <3>3
      <4>. QED
        BY <2>1, <3>1, <4>1 DEF UncontendedInv
    <3>. QED
      BY <3>2, <3>3
  <2>. QED
    BY <2>3, <2>4 DEF UncontendedInv
<1>4. ASSUME NEW r \in Requests, NEW acked \in BOOLEAN,
             InsertHeader(r, acked) \/ InsertLine(r, acked)
      PROVE  ShelfInv' /\ UncontendedInv'
  <2>1. /\ UNCHANGED <<stock, snap, sold, contended, cart, idx>>
        /\ pc[r] = "header" \/ pc[r] = "line"
    BY <1>4 DEF InsertHeader, InsertLine, AnswerError, history
  <2>2. \/ pc' = [pc EXCEPT ![r] = "done"]
        \/ pc[r] = "header" /\ pc' = [pc EXCEPT ![r] = "line"]
        \/ pc[r] = "line" /\ pc' = [pc EXCEPT ![r] = "stock"]
    BY <1>4 DEF InsertHeader, InsertLine, AnswerError
  <2>3. \A q \in Requests : \A i \in DOMAIN cart'[q] : \A p \in Products :
          Due(q, i, p)' => i \in DOMAIN cart[q] /\ Due(q, i, p)
    BY <2>1, <2>2 DEF TypeOK, Due, WriteDue
  <2>. QED
    BY <2>1, <2>3, ShelfFrame
<1>5. ASSUME NEW r \in Requests, NEW acked \in BOOLEAN, WriteStock(r, acked)
      PROVE  ShelfInv' /\ UncontendedInv'
  <2>. DEFINE p0 == CurrentItem(r).product
              n  == CurrentItem(r).qty
  <2>1. /\ idx[r] \in DOMAIN cart[r] /\ cart[r][idx[r]].product = p0
        /\ p0 \in Products /\ n \in Nat
        /\ pc[r] = "stock"
    BY <1>5, CurrentItemType DEF WriteStock, InFlight, CartInv, CartOK, CurrentItem
  <2>2. Due(r, idx[r], p0)
    BY <2>1 DEF Due, WriteDue, TypeOK
  <2>3. /\ stock' = [stock EXCEPT ![p0] = snap[r][p0] - n]
        /\ sold' = [sold EXCEPT ![p0] = sold[p0] + n]
        /\ UNCHANGED <<snap, contended>>
    BY <1>5 DEF WriteStock, NewStock, AnswerError
  <2>. HIDE DEF p0, n
  <2>4. ASSUME NEW q \in Requests, NEW i \in DOMAIN cart'[q], NEW p \in Products,
               Due(q, i, p)'
        PROVE  i \in DOMAIN cart[q] /\ Due(q, i, p) /\ ~ (q = r /\ i = idx[r])
    BY <1>5, <2>4, WriteStockDue
  <2>5. ASSUME NEW p \in Products
        PROVE  /\ stock[p] \in Nat /\ sold[p] \in Nat /\ Stock0[p] \in Nat
               /\ snap[r][p] \in Nat
               /\ stock'[p] = IF p = p0 THEN snap[r][p] - n ELSE stock[p]
               /\ sold'[p] = IF p = p0 THEN sold[p] + n ELSE sold[p]
    <3>1. stock[p] \in Nat /\ sold[p] \in Nat /\ snap[r][p] \in Nat
          /\ p \in DOMAIN stock /\ p \in DOMAIN sold
      BY DEF TypeOK
    <3>2. Stock0[p] \in Nat
      BY StockAssumption
    <3>3. /\ stock'[p] = IF p = p0 THEN snap[r][p] - n ELSE stock[p]
          /\ sold'[p] = IF p = p0 THEN sold[p] + n ELSE sold[p]
      BY <2>3, <3>1
    <3>. QED
      BY <3>1, <3>2, <3>3
  <2>6. ASSUME NEW p \in Products
        PROVE  /\ Stock0[p] - stock'[p] <= sold'[p]
               /\ stock'[p] <= Stock0[p]
               /\ sold[p] <= sold'[p]
    <3>1. p = p0 => Stock0[p] - snap[r][p] <= sold[p] /\ snap[r][p] <= Stock0[p]
      BY <2>1, <2>2 DEF ShelfInv
    <3>2. Stock0[p] - stock[p] <= sold[p] /\ stock[p] <= Stock0[p]
      BY DEF ShelfInv
    <3>. QED
      BY <2>1, <2>5, <3>1, <3>2
  <2>7. ASSUME NEW p \in Products, NEW q \in Requests, NEW i \in DOMAIN cart'[q],
               Due(q, i, p)'
        PROVE  Stock0[p] - snap'[q][p] <= sold'[p] /\ snap'[q][p] <= Stock0[p]
    <3>1. Stock0[p] - snap[q][p] <= sold[p] /\ snap[q][p] <= Stock0[p]
      BY <2>4, <2>7 DEF ShelfInv
    <3>2. snap[q][p] \in Nat
      BY DEF TypeOK
    <3>3. sold'[p] \in Nat
      BY <2>1, <2>5
    <3>. QED
      BY <2>3, <2>5, <2>6, <3>1, <3>2, <3>3
  <2>8. ShelfInv'
    BY <2>6, <2>7 DEF ShelfInv
  <2>9. ASSUME NEW p \in Products \ contended'
        PROVE  /\ Stock0[p] - stock'[p] = sold'[p]
               /\ \A q \in Requests : \A i \in DOMAIN cart'[q] :
                    Due(q, i, p)' =>
                      /\ snap'[q][p] = stock'[p]
                      /\ \A s \in Requests : \A j \in DOMAIN cart'[s] :
                           Due(s, j, p)' => s = q /\ j = i
    <3>1. p \in Products \ contended /\ Stock0[p] - stock[p] = sold[p]
      BY <2>3, <2>9 DEF UncontendedInv
    <3>2. CASE p = p0
      <4>1. snap[r][p] = stock[p]
        BY <2>1, <2>2, <3>1, <3>2 DEF UncontendedInv
      <4>2. \A q \in Requests : \A i \in DOMAIN cart'[q] : ~ Due(q, i, p)'
        BY <2>1, <2>2, <2>4, <3>1, <3>2 DEF UncontendedInv
      <4>. QED
        BY <2>1, <2>5, <3>1, <3>2, <4>1, <4>2
    <3>3. CASE p # p0
      BY <2>3, <2>4, <2>5, <3>1, <3>3 DEF UncontendedInv
    <3>. QED
      BY <3>2, <3>3
  <2>. QED
    BY <2>8, <2>9 DEF UncontendedInv
<1>6. CASE UNCHANGED vars
  BY <1>6, ShelfFrame DEF vars, Due, WriteDue
<1>. QED
  BY <1>1, <1>2, <1>3, <1>4, <1>5, <1>6, NextCases

-----------------------------------------------------------------------------
(* The rows a request leaves.  In each phase it is known exactly which     *)
(* rows of orders and order_items a request has stored.                    *)

HeaderRow(r) == [request |-> r, total |-> total[r]]

StoredOK(r) ==
  /\ pc[r] \in {"new", "check", "header"} => HeaderOf(r) = {} /\ lines[r] = <<>>
  /\ pc[r] = "header" => idx[r] = 1
  /\ pc[r] \in {"line", "stock", "reply"} => HeaderOf(r) = {HeaderRow(r)}
  /\ pc[r] = "line" => Len(lines[r]) = idx[r] - 1
  /\ pc[r] = "stock" => Len(lines[r]) = idx[r]
  /\ pc[r] = "reply" => Len(lines[r]) = Len(cart[r])
  /\ \A i \in 1 .. Len(lines[r]) : lines[r][i] = LineOf(cart[r][i])
  /\ answer[r] # "none" => pc[r] = "done"
  /\ r \in announced => answer[r] = "created"
  /\ answer[r] = "created" => HeaderOf(r) = {HeaderRow(r)} /\ Len(lines[r]) = Len(cart[r])
  /\ answer[r] \in {"invalid", "notfound", "insufficient"} =>
       HeaderOf(r) = {} /\ lines[r] = <<>>

StoredInv == \A r \in Requests : StoredOK(r)

(* What a step of one request leaves alone of another.                     *)
LEMMA StoredFrame ==
  ASSUME NEW q \in Requests, StoredOK(q),
         pc'[q] = pc[q], idx'[q] = idx[q], cart'[q] = cart[q], total'[q] = total[q],
         lines'[q] = lines[q], answer'[q] = answer[q],
         q \in announced' <=> q \in announced,
         {o \in orders' : o.request = q} = HeaderOf(q)
  PROVE  StoredOK(q)'
  BY DEF StoredOK, HeaderOf, HeaderRow, LineOf

(* A request that ends with an answer, or dies, keeps what it stored.      *)
LEMMA EndStored ==
  ASSUME NEW r \in Requests, TypeOK, StoredOK(r), InFlight(r), UNCHANGED <<tables, cart, idx, total>>,
         pc' = [pc EXCEPT ![r] = "done"] \/ pc' = [pc EXCEPT ![r] = "dead"],
         \/ UNCHANGED <<answer, announced>>
         \/ pc'[r] = "done" /\ answer'[r] = "failed" /\ UNCHANGED announced
         \/ /\ pc'[r] = "done" /\ UNCHANGED announced
            /\ answer'[r] \in {"notfound", "insufficient"} /\ pc[r] = "check"
         \/ /\ pc'[r] = "done" /\ announced' = announced \cup {r}
            /\ answer'[r] = "created" /\ pc[r] = "reply"
  PROVE  StoredOK(r)'
<1>1. pc'[r] \in {"done", "dead"} /\ pc[r] \notin {"new", "done", "dead"} /\ answer[r] = "none"
  BY DEF TypeOK, InFlight, StoredOK
<1>2. r \notin announced
  BY <1>1 DEF StoredOK
<1>. QED
  BY <1>1, <1>2 DEF StoredOK, HeaderOf, HeaderRow, LineOf, tables

LEMMA StoredStep ==
  ASSUME TypeOK, CartInv, StoredInv, [Next]_vars
  PROVE  StoredInv'
<1>. SUFFICES ASSUME NEW q \in Requests PROVE StoredOK(q)'
  BY DEF StoredInv
<1>0. StoredOK(q)
  BY DEF StoredInv
<1>1. ASSUME NEW r \in Requests, NEW c \in Carts, Receive(r, c)
      PROVE  StoredOK(q)'
  <2>1. CASE q = r
    <3>1. pc[r] = "new" /\ HeaderOf(r) = {} /\ lines[r] = <<>>
          /\ answer[r] = "none" /\ r \notin announced
      BY <1>0, <1>1, <2>1 DEF Receive, StoredOK
    <3>2. /\ lines'[r] = <<>> /\ orders' = orders /\ announced' = announced
          /\ \/ pc'[r] = "check" /\ answer'[r] = "none"
             \/ pc'[r] = "done" /\ answer'[r] = "invalid"
      BY <1>1, <3>1 DEF Receive, tables, TypeOK
    <3>. QED
      BY <2>1, <3>1, <3>2 DEF StoredOK, HeaderOf
  <2>2. CASE q # r
    BY <1>0, <1>1, <2>2, StoredFrame DEF Receive, tables, HeaderOf, TypeOK
  <2>. QED
    BY <2>1, <2>2
<1>2. ASSUME NEW r \in Requests, QuietEnd(r)
      PROVE  StoredOK(q)'
  <2>1. CASE q = r
    BY <1>0, <1>2, <2>1, EndStored
       DEF QuietEnd, CheckMissing, CheckShort, HeaderRefused, StockRefused, StatementFails,
           Reply, Crash, AnswerError, StatementErrorAnswer, RefusedWriteAnswer, InFlight,
           TypeOK
  <2>2. CASE q # r
    <3>1. EndsQuietly(r) /\ (announced' = announced \/ announced' = announced \cup {r})
      BY <1>2, QuietEndEnds DEF QuietEnd, CheckMissing, CheckShort, HeaderRefused,
         StockRefused, StatementFails, Reply, Crash, AnswerError
    <3>. QED
      BY <1>0, <2>2, <3>1, StoredFrame DEF EndsQuietly, tables, HeaderOf, TypeOK
  <2>. QED
    BY <2>1, <2>2
<1>3. ASSUME NEW r \in Requests, CheckOk(r)
      PROVE  StoredOK(q)'
  <2>1. CASE q = r
    <3>1. pc[r] = "check" /\ UNCHANGED <<tables, cart, answer, announced>>
          /\ \/ pc' = [pc EXCEPT ![r] = "header"] /\ idx' = [idx EXCEPT ![r] = 1]
             \/ pc' = pc
      BY <1>3 DEF CheckOk
    <3>2. pc'[r] \in {"check", "header"} /\ HeaderOf(r) = {} /\ lines[r] = <<>>
          /\ answer[r] = "none" /\ r \notin announced
          /\ (pc'[r] = "header" => idx'[r] = 1)
      BY <1>0, <2>1, <3>1 DEF StoredOK, TypeOK
    <3>3. /\ HeaderOf(r)' = {} /\ lines'[r] = <<>>
          /\ answer'[r] = "none" /\ r \notin announced'
      BY <3>1, <3>2 DEF tables, HeaderOf
    <3>. QED
      BY <2>1, <3>2, <3>3 DEF StoredOK
  <2>2. CASE q # r
    BY <1>0, <1>3, <2>2, StoredFrame DEF CheckOk, tables, HeaderOf, TypeOK
  <2>. QED
    BY <2>1, <2>2
<1>4. ASSUME NEW r \in Requests, NEW acked \in BOOLEAN, InsertHeader(r, acked)
      PROVE  StoredOK(q)'
  <2>0. /\ orders' = orders \cup {HeaderRow(r)} /\ pc[r] = "header"
        /\ UNCHANGED <<cart, idx, total, lines, announced>>
        /\ \/ pc' = [pc EXCEPT ![r] = "line"] /\ answer' = answer
           \/ pc' = [pc EXCEPT ![r] = "done"] /\ answer' = [answer EXCEPT ![r] = "failed"]
    BY <1>4 DEF InsertHeader, AnswerError, HeaderRow
  <2>1. CASE q = r
    <3>1. HeaderOf(r) = {} /\ lines[r] = <<>> /\ answer[r] = "none" /\ r \notin announced /\ idx[r] = 1
      BY <1>0, <2>0, <2>1 DEF StoredOK, CartInv, CartOK, InFlight
    <3>2. HeaderOf(r)' = {HeaderRow(r)} /\ HeaderRow(r)' = HeaderRow(r)
      BY <2>0, <3>1 DEF HeaderOf, HeaderRow
    <3>3. \/ pc'[r] = "line" /\ answer'[r] = "none"
          \/ pc'[r] = "done" /\ answer'[r] = "failed"
      BY <2>0, <3>1 DEF TypeOK
    <3>. QED
      BY <2>0, <2>1, <3>1, <3>2, <3>3 DEF StoredOK
  <2>2. CASE q # r
    <3>1. {o \in orders' : o.request = q} = HeaderOf(q)
      BY <2>0, <2>2 DEF HeaderOf, HeaderRow
    <3>. QED
      BY <1>0, <2>0, <2>2, <3>1, StoredFrame DEF TypeOK
  <2>. QED
    BY <2>1, <2>2
<1>5. ASSUME NEW r \in Requests, NEW acked \in BOOLEAN, InsertLine(r, acked)
      PROVE  StoredOK(q)'
  <2>. DEFINE row == LineOf(CurrentItem(r))
  <2>0. /\ lines' = [lines EXCEPT ![r] = Append(lines[r], row)] /\ pc[r] = "line"
        /\ UNCHANGED <<cart, idx, total, orders, announced>>
        /\ \/ pc' = [pc EXCEPT ![r] = "stock"] /\ answer' = answer
           \/ pc' = [pc EXCEPT ![r] = "done"] /\ answer' = [answer EXCEPT ![r] = "failed"]
    BY <1>5 DEF InsertLine, AnswerError, LineOf
  <2>1. CASE q = r
    <3>1. /\ HeaderOf(r) = {HeaderRow(r)} /\ answer[r] = "none" /\ r \notin announced
          /\ Len(lines[r]) = idx[r] - 1 /\ lines[r] \in Seq(Line)
          /\ \A i \in 1 .. Len(lines[r]) : lines[r][i] = LineOf(cart[r][i])
      BY <1>0, <2>0, <2>1 DEF StoredOK, TypeOK
    <3>2. row = LineOf(cart[r][idx[r]])
      BY DEF CurrentItem
    <3>. HIDE DEF row
    <3>3. /\ lines'[r] = Append(lines[r], row) /\ Len(lines'[r]) = idx[r]
          /\ \A i \in 1 .. idx[r] : lines'[r][i] = LineOf(cart[r][i])
      <4>1. lines'[r] = Append(lines[r], row)
        BY <2>0 DEF TypeOK
      <4>2. idx[r] \in Nat \ {0} /\ Len(lines[r]) = idx[r] - 1
        BY <3>1 DEF TypeOK
      <4>3. Len(Append(lines[r], row)) = Len(lines[r]) + 1
            /\ \A i \in 1 .. Len(lines[r]) + 1 :
                 Append(lines[r], row)[i] = IF i <= Len(lines[r]) THEN lines[r][i] ELSE row
        <5>1. ASSUME NEW S, NEW s \in Seq(S), NEW e
              PROVE  Len(Append(s, e)) = Len(s) + 1
                     /\ \A i \in 1 .. Len(s) + 1 :
                          Append(s, e)[i] = IF i <= Len(s) THEN s[i] ELSE e
          OBVIOUS
        <5>. QED
          BY <3>1, <5>1
      <4>. QED
        BY <3>1, <3>2, <4>1, <4>2, <4>3
    <3>4. HeaderOf(r)' = {HeaderRow(r)} /\ HeaderRow(r)' = HeaderRow(r)
      BY <2>0, <3>1 DEF HeaderOf, HeaderRow
    <3>5. \/ pc'[r] = "stock" /\ answer'[r] = "none"
          \/ pc'[r] = "done" /\ answer'[r] = "failed"
      BY <2>0, <3>1 DEF TypeOK
    <3>. QED
      BY <2>0, <2>1, <3>1, <3>3, <3>4, <3>5 DEF StoredOK, LineOf
  <2>2. CASE q # r
    BY <1>0, <2>0, <2>2, StoredFrame DEF TypeOK, HeaderOf
  <2>. QED
    BY <2>1, <2>2
<1>6. ASSUME NEW r \in Requests, NEW acked \in BOOLEAN, WriteStock(r, acked)
      PROVE  StoredOK(q)'
  <2>0. /\ UNCHANGED <<cart, total, orders, lines, announced>> /\ pc[r] = "stock"
        /\ \/ /\ pc' = [pc EXCEPT ![r] = "done"] /\ idx' = idx
              /\ answer' = [answer EXCEPT ![r] = "failed"]
           \/ /\ pc' = [pc EXCEPT ![r] = "reply"] /\ idx' = idx
              /\ idx[r] = Len(cart[r]) /\ answer' = answer
           \/ /\ pc' = [pc EXCEPT ![r] = "line"] /\ answer' = answer
              /\ idx' = [idx EXCEPT ![r] = idx[r] + 1]
    BY <1>6 DEF WriteStock, AnswerError, AtLastItem
  <2>1. CASE q = r
    <3>1. /\ HeaderOf(r) = {HeaderRow(r)} /\ answer[r] = "none" /\ r \notin announced
          /\ Len(lines[r]) = idx[r] /\ idx[r] \in Nat
      BY <1>0, <2>0, <2>1 DEF StoredOK, TypeOK
    <3>2. HeaderOf(r)' = {HeaderRow(r)} /\ HeaderRow(r)' = HeaderRow(r)
      BY <2>0, <3>1 DEF HeaderOf, HeaderRow
    <3>3. \/ pc'[r] = "done" /\ answer'[r] = "failed"
          \/ pc'[r] = "reply" /\ answer'[r] = "none" /\ idx[r] = Len(cart[r])
          \/ pc'[r] = "line" /\ answer'[r] = "none" /\ idx'[r] = idx[r] + 1
      BY <2>0, <3>1 DEF TypeOK
    <3>. QED
      BY <1>0, <2>0, <2>1, <3>1, <3>2, <3>3 DEF StoredOK, LineOf
  <2>2. CASE q # r
    BY <1>0, <2>0, <2>2, StoredFrame DEF TypeOK, HeaderOf
  <2>. QED
    BY <2>1, <2>2
<1>7. CASE UNCHANGED vars
  BY <1>0, <1>7, StoredFrame DEF vars, HeaderOf
<1>. QED
  BY <1>1, <1>2, <1>3, <1>4, <1>5, <1>6, <1>7, NextCases

LEMMA StoredInit == Init => StoredInv
  BY DEF Init, StoredInv, StoredOK, HeaderOf

-----------------------------------------------------------------------------
(* Induction, stated for sets of naturals so that it can be instantiated.  *)

LEMMA LeastNat ==
  ASSUME NEW S, S \subseteq Nat, S # {}
  PROVE  \E n \in S : \A m \in S : n <= m
<1>1. \E x \in S : \A y \in S : ~ (<<y, x>> \in OpToRel(<, Nat))
  BY NatLessThanWellFounded, WFMin, Zenon
<1>2. \E x \in S : \A y \in S : ~ (y < x)
  BY <1>1 DEF OpToRel
<1>. QED
  BY <1>2

LEMMA NatInduct ==
  ASSUME NEW S, 0 \in S, \A n \in Nat : n \in S => n + 1 \in S
  PROVE  Nat \subseteq S
<1>. SUFFICES ASSUME Nat \ S # {} PROVE FALSE
  OBVIOUS
<1>1. PICK n \in Nat \ S : \A m \in Nat \ S : n <= m
  BY LeastNat
<1>2. n # 0 /\ n - 1 \in Nat /\ n - 1 \in S
  BY <1>1
<1>. QED
  BY <1>1, <1>2

(* SumFunctionOnSet folds a function over a finite set: it takes out one   *)
(* element after the other (Pick), so its partial sums solve a recursion.  *)

Pick(S) == CHOOSE x \in S : TRUE
Partial(f, S, g, T) == IF T = {} THEN 0 ELSE f[Pick(T)] + g[T \ {Pick(T)}]
Partials(f, S) == CHOOSE g : g = [T \in SUBSET S |-> Partial(f, S, g, T)]

LEMMA SumIsPartial ==
  ASSUME NEW f, NEW S PROVE SumFunctionOnSet(f, S) = Partials(f, S)[S]
  BY DEF SumFunctionOnSet, FoldFunctionOnSet, MapThenFoldSet, Partials, Partial, Pick

LEMMA PickTaken ==
  ASSUME NEW S, IsFiniteSet(S), S # {}
  PROVE  /\ Pick(S) \in S /\ IsFiniteSet(S \ {Pick(S)})
         /\ Cardinality(S) \in Nat \ {0}
         /\ Cardinality(S \ {Pick(S)}) = Cardinality(S) - 1
<1>1. Pick(S) \in S
  BY DEF Pick
<1>. QED
  BY <1>1, FS_RemoveElement, FS_CardinalityType, FS_EmptySet

(* The fold's recursion has a solution, built up by cardinality.           *)
LEMMA PartialsDefined ==
  ASSUME NEW f, NEW S, IsFiniteSet(S)
  PROVE  \A T \in SUBSET S : Partials(f, S)[T] = Partial(f, S, Partials(f, S), T)
<1>. DEFINE Solves(g, n) == /\ DOMAIN g = SUBSET S
                            /\ \A T \in SUBSET S : Cardinality(T) <= n => g[T] = Partial(f, S, g, T)
            Good == {n \in Nat : \E g : Solves(g, n)}
<1>0. \A T \in SUBSET S : /\ IsFiniteSet(T) /\ Cardinality(T) \in Nat
                            /\ Cardinality(T) <= Cardinality(S)
  BY FS_Subset, FS_CardinalityType
<1>1. 0 \in Good
  <2>1. Solves([T \in SUBSET S |-> 0], 0)
    BY <1>0, FS_EmptySet DEF Partial
  <2>. QED
    BY <2>1
<1>2. ASSUME NEW n \in Nat, n \in Good PROVE n + 1 \in Good
  <2>1. PICK g : Solves(g, n)
    BY <1>2
  <2>. DEFINE h == [T \in SUBSET S |-> IF Cardinality(T) <= n THEN g[T] ELSE Partial(f, S, g, T)]
  <2>2. ASSUME NEW T \in SUBSET S, Cardinality(T) <= n + 1
        PROVE  h[T] = Partial(f, S, h, T)
    <3>1. CASE T = {}
      <4>1. Cardinality(T) <= n
        BY <3>1, FS_EmptySet
      <4>. QED
        BY <2>1, <3>1, <4>1 DEF Partial
    <3>2. CASE T # {}
      <4>1. /\ T \ {Pick(T)} \in SUBSET S
            /\ Cardinality(T \ {Pick(T)}) <= n
        BY <1>0, <2>2, <3>2, PickTaken
      <4>2. h[T \ {Pick(T)}] = g[T \ {Pick(T)}]
        BY <4>1
      <4>3. Partial(f, S, h, T) = Partial(f, S, g, T)
        BY <4>2 DEF Partial
      <4>. QED
        BY <2>1, <4>3
    <3>. QED
      BY <3>1, <3>2
  <2>3. Solves(h, n + 1)
    BY <2>2
  <2>4. \E k : Solves(k, n + 1)
    <3>. HIDE DEF h
    <3>. QED
      BY <2>3
  <2>. QED
    BY <2>4
<1>3. Cardinality(S) \in Good
  <2>1. Nat \subseteq Good
    <3>. HIDE DEF Good
    <3>. QED
      BY <1>1, <1>2, NatInduct
  <2>. QED
    BY <2>1, FS_CardinalityType
<1>4. PICK g : Solves(g, Cardinality(S))
  BY <1>3
<1>5. \A T \in SUBSET S : g[T] = Partial(f, S, g, T)
  BY <1>0, <1>4
<1>6. \E h : h = [T \in SUBSET S |-> Partial(f, S, h, T)]
  <2>1. PICK h : h = [T \in SUBSET S |-> g[T]]
    OBVIOUS
  <2>2. ASSUME NEW T \in SUBSET S PROVE h[T] = Partial(f, S, h, T)
    <3>1. h[T] = Partial(f, S, g, T)
      BY <1>5, <2>1
    <3>2. T # {} => h[T \ {Pick(T)}] = g[T \ {Pick(T)}]
      BY <2>1
    <3>. QED
      BY <3>1, <3>2 DEF Partial
  <2>3. h = [T \in SUBSET S |-> Partial(f, S, h, T)]
    BY <2>1, <2>2
  <2>. QED
    BY <2>3
<1>7. Partials(f, S) = [T \in SUBSET S |-> Partial(f, S, Partials(f, S), T)]
  BY <1>6 DEF Partials
<1>. QED
  BY <1>7

(* A set of subsets that holds of T once it holds of the smaller ones.     *)
LEMMA SubsetInduct ==
  ASSUME NEW S, IsFiniteSet(S), NEW Good,
         \A T \in SUBSET S : (\A U \in SUBSET T : U # T => U \in Good) => T \in Good
  PROVE  \A T \in SUBSET S : T \in Good
<1>. DEFINE Upto == {n \in Nat : \A T \in SUBSET S : Cardinality(T) <= n => T \in Good}
<1>0. \A T \in SUBSET S : IsFiniteSet(T) /\ Cardinality(T) \in Nat
  BY FS_Subset, FS_CardinalityType
<1>1. \A T \in SUBSET S : \A U :
        U \in SUBSET T /\ U # T => U \in SUBSET S /\ Cardinality(U) < Cardinality(T)
  BY <1>0, FS_Subset
<1>2. 0 \in Upto
  BY <1>0, <1>1
<1>3. ASSUME NEW n \in Nat, n \in Upto PROVE n + 1 \in Upto
  <2>1. ASSUME NEW T \in SUBSET S, Cardinality(T) <= n + 1 PROVE T \in Good
    <3>1. ASSUME NEW U \in SUBSET T, U # T PROVE U \in Good
      <4>1. U \in SUBSET S /\ Cardinality(U) < Cardinality(T)
        BY <1>1, <3>1
      <4>2. Cardinality(U) <= n
        BY <1>0, <2>1, <4>1
      <4>. QED
        BY <1>3, <4>1, <4>2
    <3>. QED
      BY <3>1
  <2>. QED
    BY <2>1
<1>4. Nat \subseteq Upto
  <2>. HIDE DEF Upto
  <2>. QED
    BY <1>2, <1>3, NatInduct
<1>. QED
  BY <1>0, <1>4

LEMMA PartialsAgree ==
  ASSUME NEW f, NEW S, IsFiniteSet(S), NEW R \in SUBSET S
  PROVE  Partials(f, S)[R] = SumFunctionOnSet(f, R)
<1>0. IsFiniteSet(R)
  BY FS_Subset
<1>. DEFINE Good == {T \in SUBSET R : Partials(f, S)[T] = Partials(f, R)[T]}
<1>1. ASSUME NEW T \in SUBSET R, \A U \in SUBSET T : U # T => U \in Good
      PROVE  T \in Good
  <2>1. /\ Partials(f, S)[T] = Partial(f, S, Partials(f, S), T)
        /\ Partials(f, R)[T] = Partial(f, R, Partials(f, R), T)
    BY <1>0, PartialsDefined
  <2>2. T # {} => T \ {Pick(T)} \in SUBSET T /\ T \ {Pick(T)} # T
    BY DEF Pick
  <2>3. T # {} => Partials(f, S)[T \ {Pick(T)}] = Partials(f, R)[T \ {Pick(T)}]
    BY <1>1, <2>2
  <2>. QED
    BY <2>1, <2>3 DEF Partial
<1>2. R \in Good
  <2>. HIDE DEF Good
  <2>. QED
    BY <1>0, <1>1, SubsetInduct
<1>. QED
  BY <1>2, SumIsPartial

LEMMA SumStep ==
  ASSUME NEW f, NEW S, IsFiniteSet(S)
  PROVE  /\ S = {} => SumFunctionOnSet(f, S) = 0
         /\ S # {} => SumFunctionOnSet(f, S) = f[Pick(S)] + SumFunctionOnSet(f, S \ {Pick(S)})
<1>1. SumFunctionOnSet(f, S) = Partial(f, S, Partials(f, S), S)
  BY SumIsPartial, PartialsDefined
<1>2. Partials(f, S)[S \ {Pick(S)}] = SumFunctionOnSet(f, S \ {Pick(S)})
  BY PartialsAgree
<1>. QED
  BY <1>1, <1>2 DEF Partial

LEMMA SumEmpty == ASSUME NEW f PROVE SumFunctionOnSet(f, {}) = 0
  BY SumStep, FS_EmptySet

LEMMA SumCongruence ==
  ASSUME NEW S, IsFiniteSet(S), NEW f, NEW g, \A s \in S : f[s] = g[s]
  PROVE  SumFunctionOnSet(f, S) = SumFunctionOnSet(g, S)
<1>. DEFINE Good == {T \in SUBSET S : SumFunctionOnSet(f, T) = SumFunctionOnSet(g, T)}
<1>1. ASSUME NEW T \in SUBSET S, \A U \in SUBSET T : U # T => U \in Good
      PROVE  T \in Good
  <2>0. IsFiniteSet(T)
    BY FS_Subset
  <2>1. CASE T = {}
    BY <2>1, SumEmpty
  <2>2. CASE T # {}
    <3>1. Pick(T) \in T /\ T \ {Pick(T)} \in Good
      BY <1>1, <2>2 DEF Pick
    <3>. QED
      BY <2>0, <2>2, <3>1, SumStep
  <2>. QED
    BY <2>1, <2>2
<1>2. S \in Good
  <2>. HIDE DEF Good
  <2>. QED
    BY <1>1, SubsetInduct
<1>. QED
  BY <1>2

LEMMA SumType ==
  ASSUME NEW S, IsFiniteSet(S), NEW f, \A s \in S : f[s] \in Nat
  PROVE  SumFunctionOnSet(f, S) \in Nat
<1>. DEFINE Good == {T \in SUBSET S : SumFunctionOnSet(f, T) \in Nat}
<1>1. ASSUME NEW T \in SUBSET S, \A U \in SUBSET T : U # T => U \in Good
      PROVE  T \in Good
  <2>0. IsFiniteSet(T)
    BY FS_Subset
  <2>1. CASE T = {}
    BY <2>1, SumEmpty
  <2>2. CASE T # {}
    <3>1. Pick(T) \in T /\ T \ {Pick(T)} \in Good
      BY <1>1, <2>2 DEF Pick
    <3>. QED
      BY <2>0, <2>2, <3>1, SumStep
  <2>. QED
    BY <2>1, <2>2
<1>2. S \in Good
  <2>. HIDE DEF Good
  <2>. QED
    BY <1>1, SubsetInduct
<1>. QED
  BY <1>2

(* Any element may be taken out of the sum first.                          *)
LEMMA SumRemove ==
  ASSUME NEW S, IsFiniteSet(S), NEW f, \A s \in S : f[s] \in Nat, NEW x \in S
  PROVE  SumFunctionOnSet(f, S) = f[x] + SumFunctionOnSet(f, S \ {x})
<1>. DEFINE Good == {T \in SUBSET S : \A y \in T :
                       SumFunctionOnSet(f, T) = f[y] + SumFunctionOnSet(f, T \ {y})}
<1>1. ASSUME NEW T \in SUBSET S, \A U \in SUBSET T : U # T => U \in Good
      PROVE  T \in Good
  <2>. SUFFICES ASSUME NEW y \in T
                PROVE  SumFunctionOnSet(f, T) = f[y] + SumFunctionOnSet(f, T \ {y})
    OBVIOUS
  <2>. DEFINE p == Pick(T)
  <2>0. p \in T /\ IsFiniteSet(T) /\ IsFiniteSet(T \ {y})
    BY FS_Subset DEF Pick
  <2>1. SumFunctionOnSet(f, T) = f[p] + SumFunctionOnSet(f, T \ {p})
    BY <2>0, SumStep
  <2>2. CASE y # p
    <3>1. SumFunctionOnSet(f, T \ {p}) = f[y] + SumFunctionOnSet(f, (T \ {p}) \ {y})
      BY <1>1, <2>0, <2>2
    <3>2. SumFunctionOnSet(f, T \ {y}) = f[p] + SumFunctionOnSet(f, (T \ {y}) \ {p})
      BY <1>1, <2>0, <2>2
    <3>3. (T \ {p}) \ {y} = (T \ {y}) \ {p}
      OBVIOUS
    <3>4. SumFunctionOnSet(f, (T \ {y}) \ {p}) \in Nat /\ f[p] \in Nat /\ f[y] \in Nat
      BY <2>0, SumType, FS_Subset
    <3>. QED
      BY <2>1, <3>1, <3>2, <3>3, <3>4
  <2>. QED
    BY <2>1, <2>2
<1>2. S \in Good
  <2>. HIDE DEF Good
  <2>. QED
    BY <1>1, SubsetInduct
<1>. QED
  BY <1>2

-----------------------------------------------------------------------------
(* The total.  CreateOrder adds up the lines as it checks them and stores  *)
(* the sum before any line: ItemValues is what each item of a cart costs,  *)
(* CartValue(r, n) what the first n items of r's cart cost together.       *)

ItemValues(c) == [i \in DOMAIN c |-> Price[c[i].product] * c[i].qty]
CartValue(r, n) == SumFunctionOnSet(ItemValues(cart[r]), 1 .. n)

TotalOK(r) ==
  /\ pc[r] = "new" => total[r] = 0
  /\ pc[r] = "check" => total[r] = CartValue(r, idx[r] - 1)
  /\ pc[r] \in {"header", "line", "stock", "reply"} =>
       total[r] = CartValue(r, Len(cart[r]))
  /\ \A o \in HeaderOf(r) : o.total = CartValue(r, Len(cart[r]))
  /\ Len(lines[r]) <= Len(cart[r])
  /\ lines[r] # <<>> => HeaderOf(r) # {}

TotalInv == \A r \in Requests : TotalOK(r)

LEMMA TotalFrame ==
  ASSUME NEW q \in Requests, TotalOK(q),
         pc'[q] = pc[q], idx'[q] = idx[q], cart'[q] = cart[q], total'[q] = total[q],
         lines'[q] = lines[q], {o \in orders' : o.request = q} = HeaderOf(q)
  PROVE  TotalOK(q)'
  BY DEF TotalOK, CartValue, HeaderOf

(* One more checked item adds its price times its quantity.                *)
LEMMA CartValueStep ==
  ASSUME TypeOK, CartInv, NEW r \in Requests, pc[r] = "check",
         CurrentItem(r).product \in Products
  PROVE  /\ CartValue(r, idx[r]) = CartValue(r, idx[r] - 1) + ItemTotal(r)
         /\ ItemTotal(r) \in Nat
<1>. DEFINE f == ItemValues(cart[r])
            n == idx[r]
<1>1. /\ n \in 1 .. Len(cart[r]) /\ DOMAIN cart[r] = 1 .. Len(cart[r])
      /\ Len(cart[r]) \in Nat /\ ValidCart(cart[r])
      /\ cart[r] \in Seq(Item)
      /\ \A i \in 1 .. n - 1 : cart[r][i].product \in Products
  BY CurrentItemType DEF InFlight, CartInv, CartOK, TypeOK
<1>2. ASSUME NEW i \in 1 .. n PROVE f[i] \in Nat
  <2>1. i \in DOMAIN cart[r] /\ cart[r][i].product \in Products
    BY <1>1 DEF CurrentItem
  <2>2. cart[r][i] \in Item /\ ValidItem(cart[r][i])
    BY <1>1, <2>1 DEF ValidCart
  <2>3. cart[r][i].qty \in Nat
    BY <2>2 DEF ValidItem, Item
  <2>4. Price[cart[r][i].product] \in Nat
    BY <2>1, PriceAssumption
  <2>5. \A a, b \in Nat : a * b \in Nat
    OBVIOUS
  <2>. QED
    BY <2>1, <2>3, <2>4, <2>5 DEF ItemValues
<1>3. /\ IsFiniteSet(1 .. n) /\ IsFiniteSet(1 .. n - 1)
      /\ (1 .. n) \ {n} = 1 .. n - 1 /\ n \in 1 .. n
  <2>1. n \in Nat \ {0} /\ n - 1 \in Int
    BY <1>1
  <2>2. ASSUME NEW m \in Int PROVE IsFiniteSet(1 .. m)
    BY FS_Interval
  <2>3. ASSUME NEW m \in Nat \ {0} PROVE (1 .. m) \ {m} = 1 .. m - 1 /\ m \in 1 .. m
    OBVIOUS
  <2>. HIDE DEF n
  <2>. QED
    BY <2>1, <2>2, <2>3
<1>4. SumFunctionOnSet(f, 1 .. n) = f[n] + SumFunctionOnSet(f, 1 .. n - 1)
  <2>1. \A i \in 1 .. n : f[i] \in Nat
    BY <1>2
  <2>. HIDE DEF f, n
  <2>2. SumFunctionOnSet(f, 1 .. n) = f[n] + SumFunctionOnSet(f, (1 .. n) \ {n})
    BY <1>3, <2>1, SumRemove
  <2>. QED
    BY <1>3, <2>2
<1>5. SumFunctionOnSet(f, 1 .. n - 1) \in Nat
  <2>1. \A i \in 1 .. n - 1 : f[i] \in Nat
    BY <1>1, <1>2
  <2>. HIDE DEF f, n
  <2>. QED
    BY <1>3, <2>1, SumType
<1>6. f[n] = ItemTotal(r) /\ f[n] \in Nat
  <2>1. n \in DOMAIN cart[r] /\ f[n] \in Nat
    BY <1>1, <1>2, <1>3
  <2>. QED
    BY <2>1 DEF ItemValues, ItemTotal, CurrentItem
<1>. QED
  BY <1>4, <1>5, <1>6 DEF CartValue

LEMMA TotalStep ==
  ASSUME TypeOK, CartInv, StoredInv, TotalInv, [Next]_vars
  PROVE  TotalInv'
<1>. SUFFICES ASSUME NEW q \in Requests PROVE TotalOK(q)'
  BY DEF TotalInv
<1>0. TotalOK(q) /\ StoredOK(q) /\ CartOK(q)
  BY DEF TotalInv, StoredInv, CartInv
<1>1. ASSUME NEW r \in Requests, NEW c \in Carts, Receive(r, c)
      PROVE  TotalOK(q)'
  <2>1. CASE q = r
    <3>1. HeaderOf(r)' = {} /\ lines'[r] = <<>> /\ total'[r] = 0 /\ idx'[r] = 1
          /\ cart'[r] = c /\ Len(c) \in Nat /\ pc'[r] \in {"check", "done"}
      BY <1>0, <1>1, <2>1, CartsAssumption
         DEF Receive, StoredOK, TotalOK, CartOK, HeaderOf, tables, TypeOK
    <3>2. CartValue(r, idx[r] - 1)' = 0
      <4>1. 1 .. idx'[r] - 1 = {}
        BY <3>1
      <4>. QED
        BY <4>1, SumEmpty DEF CartValue
    <3>. QED
      BY <2>1, <3>1, <3>2 DEF TotalOK
  <2>2. CASE q # r
    BY <1>0, <1>1, <2>2, TotalFrame DEF Receive, tables, HeaderOf, TypeOK
  <2>. QED
    BY <2>1, <2>2
<1>2. ASSUME NEW r \in Requests, QuietEnd(r)
      PROVE  TotalOK(q)'
  <2>1. EndsQuietly(r)
    BY <1>2, QuietEndEnds
  <2>2. CASE q = r
    BY <1>0, <2>1, <2>2 DEF EndsQuietly, tables, TotalOK, HeaderOf, CartValue, TypeOK
  <2>3. CASE q # r
    BY <1>0, <2>1, <2>3, TotalFrame DEF EndsQuietly, tables, HeaderOf, TypeOK
  <2>. QED
    BY <2>2, <2>3
<1>3. ASSUME NEW r \in Requests, CheckOk(r)
      PROVE  TotalOK(q)'
  <2>1. CASE q = r
    <3>1. /\ pc[r] = "check" /\ CurrentItem(r).product \in Products
          /\ UNCHANGED <<tables, cart>>
          /\ total'[r] = total[r] + ItemTotal(r)
          /\ \/ pc'[r] = "header" /\ idx[r] = Len(cart[r])
             \/ pc'[r] = "check" /\ idx'[r] = idx[r] + 1
      BY <1>3 DEF CheckOk, NewTotal, AtLastItem, TypeOK
    <3>2. total'[r] = CartValue(r, idx[r])
      BY <1>0, <2>1, <3>1, CartValueStep DEF TotalOK
    <3>3. idx[r] \in Nat \ {0} /\ idx[r] + 1 - 1 = idx[r]
      BY DEF TypeOK
    <3>4. CartValue(r, Len(cart[r]))' = CartValue(r, Len(cart[r]))
          /\ (idx'[r] = idx[r] + 1 => CartValue(r, idx[r] - 1)' = CartValue(r, idx[r]))
      BY <3>1, <3>3 DEF CartValue
    <3>. QED
      BY <1>0, <2>1, <3>1, <3>2, <3>4 DEF TotalOK, HeaderOf, tables
  <2>2. CASE q # r
    BY <1>0, <1>3, <2>2, TotalFrame DEF CheckOk, tables, HeaderOf, TypeOK
  <2>. QED
    BY <2>1, <2>2
<1>4. ASSUME NEW r \in Requests, NEW acked \in BOOLEAN, InsertHeader(r, acked)
      PROVE  TotalOK(q)'
  <2>0. /\ orders' = orders \cup {HeaderRow(r)} /\ pc[r] = "header"
        /\ UNCHANGED <<cart, idx, total, lines>>
        /\ pc' = [pc EXCEPT ![r] = "line"] \/ pc' = [pc EXCEPT ![r] = "done"]
    BY <1>4 DEF InsertHeader, AnswerError, HeaderRow
  <2>1. CASE q = r
    <3>1. HeaderOf(r) = {} /\ HeaderOf(r)' = {HeaderRow(r)}
      BY <1>0, <2>0, <2>1 DEF HeaderOf, HeaderRow, StoredOK
    <3>2. pc'[r] \in {"line", "done"} /\ HeaderRow(r).total = total[r]
      BY <2>0 DEF TypeOK, HeaderRow
    <3>. QED
      BY <1>0, <2>0, <2>1, <3>1, <3>2 DEF TotalOK, CartValue
  <2>2. CASE q # r
    <3>1. {o \in orders' : o.request = q} = HeaderOf(q)
      BY <2>0, <2>2 DEF HeaderOf, HeaderRow
    <3>. QED
      BY <1>0, <2>0, <2>2, <3>1, TotalFrame DEF TypeOK
  <2>. QED
    BY <2>1, <2>2
<1>5. ASSUME NEW r \in Requests, NEW acked \in BOOLEAN, InsertLine(r, acked)
      PROVE  TotalOK(q)'
  <2>. DEFINE row == LineOf(CurrentItem(r))
  <2>0. /\ lines' = [lines EXCEPT ![r] = Append(lines[r], row)] /\ pc[r] = "line"
        /\ UNCHANGED <<cart, idx, total, orders>>
        /\ pc' = [pc EXCEPT ![r] = "stock"] \/ pc' = [pc EXCEPT ![r] = "done"]
    BY <1>5 DEF InsertLine, AnswerError, LineOf
  <2>1. CASE q = r
    <3>1. /\ HeaderOf(r) # {} /\ Len(lines[r]) = idx[r] - 1 /\ lines[r] \in Seq(Line)
          /\ idx[r] \in 1 .. Len(cart[r]) /\ Len(cart[r]) \in Nat
      <4>1. InFlight(r)
        BY <2>0 DEF InFlight
      <4>2. idx[r] \in 1 .. Len(cart[r]) /\ Len(cart[r]) \in Nat
        BY <4>1, CurrentItemType
      <4>3. HeaderOf(r) = {HeaderRow(r)} /\ Len(lines[r]) = idx[r] - 1
        BY <1>0, <2>0, <2>1 DEF StoredOK
      <4>. QED
        BY <4>2, <4>3 DEF TypeOK
    <3>2. Len(lines'[r]) = idx[r]
      <4>1. lines'[r] = Append(lines[r], row)
        BY <2>0 DEF TypeOK
      <4>2. ASSUME NEW S, NEW s \in Seq(S), NEW e PROVE Len(Append(s, e)) = Len(s) + 1
        OBVIOUS
      <4>. QED
        BY <3>1, <4>1, <4>2
    <3>3. pc'[r] \in {"stock", "done"}
      BY <2>0 DEF TypeOK
    <3>. QED
      BY <1>0, <2>0, <2>1, <3>1, <3>2, <3>3 DEF TotalOK, CartValue, HeaderOf
  <2>2. CASE q # r
    BY <1>0, <2>0, <2>2, TotalFrame DEF TypeOK, HeaderOf
  <2>. QED
    BY <2>1, <2>2
<1>6. ASSUME NEW r \in Requests, NEW acked \in BOOLEAN, WriteStock(r, acked)
      PROVE  TotalOK(q)'
  <2>0. /\ UNCHANGED <<cart, total, orders, lines>> /\ pc[r] = "stock"
        /\ \/ pc' = [pc EXCEPT ![r] = "done"] /\ idx' = idx
           \/ pc' = [pc EXCEPT ![r] = "reply"] /\ idx' = idx
           \/ pc' = [pc EXCEPT ![r] = "line"] /\ idx' = [idx EXCEPT ![r] = idx[r] + 1]
    BY <1>6 DEF WriteStock, AnswerError
  <2>1. CASE q = r
    <3>1. pc'[r] \in {"line", "reply", "done"}
      BY <2>0 DEF TypeOK
    <3>. QED
      BY <1>0, <2>0, <2>1, <3>1 DEF TotalOK, CartValue, HeaderOf
  <2>2. CASE q # r
    BY <1>0, <2>0, <2>2, TotalFrame DEF TypeOK, HeaderOf
  <2>. QED
    BY <2>1, <2>2
<1>7. CASE UNCHANGED vars
  BY <1>0, <1>7, TotalFrame DEF vars, HeaderOf
<1>. QED
  BY <1>1, <1>2, <1>3, <1>4, <1>5, <1>6, <1>7, NextCases

LEMMA TotalInit == Init => TotalInv
  BY DEF Init, TotalInv, TotalOK, HeaderOf

(* When every line is stored their values are those of the cart's items.   *)
LEMMA LinesValueIsCartValue ==
  ASSUME TypeOK, StoredInv, NEW r \in Requests, Len(lines[r]) = Len(cart[r])
  PROVE  LinesValue(lines[r]) = CartValue(r, Len(cart[r]))
<1>. DEFINE f == ItemValues(cart[r])
            g == [i \in DOMAIN lines[r] |-> lines[r][i].qty * lines[r][i].price]
            n == Len(cart[r])
<1>1. /\ lines[r] \in Seq(Line) /\ cart[r] \in Seq(Item) /\ n \in Nat
      /\ DOMAIN lines[r] = 1 .. n /\ DOMAIN cart[r] = 1 .. n
      /\ \A i \in 1 .. n : lines[r][i] = LineOf(cart[r][i])
  BY DEF TypeOK, StoredInv, StoredOK
<1>2. ASSUME NEW i \in 1 .. n PROVE g[i] = f[i]
  <2>1. lines[r][i] \in Line /\ lines[r][i] = LineOf(cart[r][i])
    BY <1>1
  <2>2. /\ lines[r][i].qty = cart[r][i].qty
        /\ lines[r][i].price = Price[cart[r][i].product]
        /\ lines[r][i].qty \in Int /\ lines[r][i].price \in Int
    BY <2>1 DEF LineOf, Line
  <2>3. \A a, b \in Int : a * b = b * a
    OBVIOUS
  <2>4. g[i] = lines[r][i].qty * lines[r][i].price
        /\ f[i] = Price[cart[r][i].product] * cart[r][i].qty
    BY <1>1 DEF ItemValues
  <2>. QED
    BY <2>2, <2>3, <2>4
<1>3. SumFunctionOnSet(g, 1 .. n) = SumFunctionOnSet(f, 1 .. n)
  <2>1. IsFiniteSet(1 .. n)
    BY <1>1, FS_Interval
  <2>. HIDE DEF f, g, n
  <2>. QED
    BY <1>2, <2>1, SumCongruence
<1>4. LinesValue(lines[r]) = SumFunctionOnSet(g, DOMAIN g) /\ DOMAIN g = 1 .. n
  BY <1>1 DEF LinesValue, SumFunction
<1>. QED
  BY <1>3, <1>4 DEF CartValue

-----------------------------------------------------------------------------
(* The theorems.                                                           *)

(* The four parts together hold initially and survive every step.          *)
THEOREM Invariance == Spec => []IInv
<1>1. IInv /\ [Next]_vars => IInv'
  BY TypeStep, CartStep, ShelfStep DEF IInv
<1>. QED
  BY <1>1, InitInv, PTL DEF Spec

(* Every table and local keeps its type: in particular stock_quantity is   *)
(* never negative and never wraps.                                         *)
THEOREM TypeCorrect == Spec => []TypeOK
  BY Invariance, PTL DEF IInv

(* However requests interleave, fail or crash, CreateOrder's overwrites    *)
(* never take more units off the shelf than were sold.                     *)
THEOREM ShelfLossIsSoldThm == Spec => []ShelfLossIsSold
<1>1. IInv => ShelfLossIsSold
  BY DEF IInv, ShelfInv, ShelfLossIsSold
<1>. QED
  BY <1>1, Invariance, PTL

(* A stale write may raise the stock, but never above the opening stock.   *)
THEOREM ShelfWithinOpeningThm == Spec => []ShelfWithinOpening
<1>1. IInv => ShelfWithinOpening
  BY DEF IInv, ShelfInv, ShelfWithinOpening
<1>. QED
  BY <1>1, Invariance, PTL

(* The stock of a product whose writes never overlapped is exact.          *)
THEOREM UncontendedExactThm == Spec => []UncontendedExact
<1>1. IInv => UncontendedExact
  BY DEF IInv, UncontendedInv, UncontendedExact
<1>. QED
  BY <1>1, Invariance, PTL

(* Hence such a product is never oversold: only an overlap of two checks   *)
(* can make CreateOrder sell more than there was.                          *)
THEOREM UncontendedNotOversold ==
  Spec => [](\A p \in Products \ contended : sold[p] <= Stock0[p])
<1>1. IInv => \A p \in Products \ contended : sold[p] <= Stock0[p]
  BY StockAssumption DEF IInv, TypeOK, UncontendedInv
<1>. QED
  BY <1>1, Invariance, PTL

LEMMA StoredInvariance == Spec => []StoredInv
<1>1. IInv /\ StoredInv /\ [Next]_vars => StoredInv'
  BY StoredStep DEF IInv
<1>. QED
  BY <1>1, StoredInit, Invariance, PTL DEF Spec

(* Whoever is answered 422 left neither an order nor a line behind,        *)
(* whatever other requests did meanwhile.                                  *)
THEOREM RefusedLeavesNoTraceThm == Spec => []RefusedLeavesNoTrace
<1>1. StoredInv => RefusedLeavesNoTrace
  BY DEF StoredInv, StoredOK, RefusedLeavesNoTrace
<1>. QED
  BY <1>1, StoredInvariance, PTL

(* Whoever is answered 201 or notified has one order with every line of    *)
(* the cart at the product's price.                                        *)
THEOREM ConfirmedIsCompleteThm == Spec => []ConfirmedIsComplete
<1>1. ASSUME TypeOK, StoredInv PROVE ConfirmedIsComplete
  <2>. SUFFICES ASSUME NEW r \in Requests, answer[r] = "created" \/ r \in announced
                PROVE  Complete(r)
    BY DEF ConfirmedIsComplete
  <2>1. /\ HeaderOf(r) = {HeaderRow(r)} /\ Len(lines[r]) = Len(cart[r])
        /\ \A i \in 1 .. Len(lines[r]) : lines[r][i] = LineOf(cart[r][i])
    BY <1>1 DEF StoredInv, StoredOK
  <2>2. Cardinality(HeaderOf(r)) = 1
    BY <2>1, FS_Singleton
  <2>3. DOMAIN cart[r] = 1 .. Len(cart[r])
    BY <1>1 DEF TypeOK
  <2>. QED
    BY <2>1, <2>2, <2>3 DEF Complete
<1>. QED
  BY <1>1, StoredInvariance, TypeCorrect, PTL

LEMMA TotalInvariance == Spec => []TotalInv
<1>1. IInv /\ StoredInv /\ TotalInv /\ [Next]_vars => TotalInv'
  BY TotalStep DEF IInv
<1>. QED
  BY <1>1, TotalInit, Invariance, StoredInvariance, PTL DEF Spec

(* Lines belong to a stored order and never exceed the cart; once all are  *)
(* stored, the total CreateOrder wrote before any of them is the sum of    *)
(* their values, for carts of any length.                                  *)
THEOREM TotalIsSumOfLinesThm == Spec => []TotalIsSumOfLines
<1>1. ASSUME TypeOK, StoredInv, TotalInv PROVE TotalIsSumOfLines
  BY <1>1, LinesValueIsCartValue DEF TotalInv, TotalOK, TotalIsSumOfLines
<1>. QED
  BY <1>1, TypeCorrect, StoredInvariance, TotalInvariance, PTL
=============================================================================
