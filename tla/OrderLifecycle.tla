--------------------------- MODULE OrderLifecycle ---------------------------
(***************************************************************************)
(* What the order service promises about the status of an order: it is     *)
(* placed once and from then on moves along the transitions of             *)
(* isValidStatusTransition (internal/data/orders.go), one at a time.       *)
(***************************************************************************)
CONSTANT Orders   \* the ids orders may get

VARIABLE status   \* the status of each order, "NONE" before it is placed

Statuses == {"PLACED", "PROCESSING", "SHIPPED", "DELIVERED", "CANCELLED"}

(* validTransitions.                                                       *)
Allowed(s) ==
  CASE s = "PLACED"     -> {"PROCESSING", "CANCELLED"}
    [] s = "PROCESSING" -> {"SHIPPED", "CANCELLED"}
    [] s = "SHIPPED"    -> {"DELIVERED"}
    [] OTHER            -> {}

Init == status = [o \in Orders |-> "NONE"]

Place(o) ==
  /\ status[o] = "NONE"
  /\ status' = [status EXCEPT ![o] = "PLACED"]

Move(o, s) ==
  /\ s \in Allowed(status[o])
  /\ status' = [status EXCEPT ![o] = s]

Next == \E o \in Orders : Place(o) \/ \E s \in Statuses : Move(o, s)

Spec == Init /\ [][Next]_status
=============================================================================
