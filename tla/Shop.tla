---------------------------------- MODULE Shop ----------------------------------
(***************************************************************************)
(* What checkout and payment promise together, without transactions, locks *)
(* or messages: an order is placed once under its key and takes its lines  *)
(* from the stock; later it is confirmed, or cancelled and its lines put   *)
(* back; nothing else moves the stock but a restock.                       *)
(***************************************************************************)
EXTENDS Integers

CONSTANTS Orders, Keys, Products, Lines, MaxQty

VARIABLES
  key,     \* the Idempotency-Key each order would be placed under
  status,  \* "none", "pending", "CONFIRMED" or "CANCELLED"
  bought,  \* the lines of each order that was placed
  stock

vars == <<key, status, bought, stock>>

NoLine == [p \in Products |-> 0]

Init ==
  /\ key \in [Orders -> Keys]
  /\ status = [o \in Orders |-> "none"]
  /\ bought = [o \in Orders |-> NoLine]
  /\ stock \in [Products -> 0..MaxQty]

Place(o, line) ==
  /\ \A x \in Orders : key[x] = key[o] => status[x] = "none"
  /\ \A p \in Products : line[p] <= stock[p]
  /\ status' = [status EXCEPT ![o] = "pending"]
  /\ bought' = [bought EXCEPT ![o] = line]
  /\ stock' = [p \in Products |-> stock[p] - line[p]]
  /\ UNCHANGED key

Settle(o, result) ==
  /\ status[o] = "pending"
  /\ status' = [status EXCEPT ![o] = result]
  /\ stock' = IF result = "CANCELLED" THEN [p \in Products |-> stock[p] + bought[o][p]] ELSE stock
  /\ UNCHANGED <<key, bought>>

Restock(p, qty) ==
  /\ stock[p] + qty <= MaxQty
  /\ stock' = [stock EXCEPT ![p] = @ + qty]
  /\ UNCHANGED <<key, status, bought>>

Next ==
  \/ \E o \in Orders :
       (\E line \in Lines : Place(o, line)) \/ Settle(o, "CONFIRMED") \/ Settle(o, "CANCELLED")
  \/ \E p \in Products, qty \in 1..MaxQty : Restock(p, qty)

Spec == Init /\ [][Next]_vars
=============================================================================
