------------------------------ MODULE Settlement ------------------------------
(***************************************************************************)
(* What the payment worker promises about orders, however often an order's *)
(* event is delivered and whatever fails: a pending order is settled once, *)
(* by one step that either confirms it or cancels it and puts exactly its  *)
(* items back in the stock.  Other traffic moves the stock too.            *)
(***************************************************************************)
EXTENDS Integers

CONSTANTS Orders, Products, MaxQty,
          Bought  \* units of each product in each order

VARIABLES status, stock

vars == <<status, stock>>

Init ==
  /\ status \in [Orders -> {"none", "pending"}]
  /\ stock \in [Products -> 0..MaxQty]

Confirm(o) ==
  /\ status[o] = "pending"
  /\ status' = [status EXCEPT ![o] = "CONFIRMED"]
  /\ UNCHANGED stock

Cancel(o) ==
  /\ status[o] = "pending"
  /\ status' = [status EXCEPT ![o] = "CANCELLED"]
  /\ stock' = [p \in Products |-> stock[p] + Bought[o][p]]

Trade(p) ==
  /\ \E qty \in 0..MaxQty : stock' = [stock EXCEPT ![p] = qty]
  /\ UNCHANGED status

Next == (\E o \in Orders : Confirm(o) \/ Cancel(o)) \/ \E p \in Products : Trade(p)

Spec == Init /\ [][Next]_vars
=============================================================================
