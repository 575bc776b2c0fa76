------------------------------- MODULE OrderBook -------------------------------
(***************************************************************************)
(* What POST /checkout promises, without transactions or locks: under each *)
(* Idempotency-Key at most one order is ever placed, it takes its lines    *)
(* from the stock in the same step, every successful answer to the key     *)
(* names that order, and a call that is refused or cut off is at worst     *)
(* answered with an error.                                                 *)
(***************************************************************************)
EXTENDS Naturals

CONSTANTS Requests, Keys, Products, Lines, MaxQty, None, Error

VARIABLES
  key,     \* the Idempotency-Key of each call
  placed,  \* the order placed under each key, or None
  stock,   \* units of each product not yet sold
  answer   \* what each call was told: an order, Error or None

vars == <<key, placed, stock, answer>>

Init ==
  /\ key \in [Requests -> Keys]
  /\ placed = [k \in Keys |-> None]
  /\ stock \in [Products -> 0..MaxQty]
  /\ answer = [r \in Requests |-> None]

\* A call places the key's order, which it names.
Place(r, line) ==
  /\ placed[key[r]] = None
  /\ answer[r] = None
  /\ \E p \in Products : line[p] > 0
  /\ \A p \in Products : line[p] <= stock[p]
  /\ placed' = [placed EXCEPT ![key[r]] = r]
  /\ stock' = [p \in Products |-> stock[p] - line[p]]
  /\ UNCHANGED <<key, answer>>

Accept(r) ==
  /\ answer[r] = None
  /\ placed[key[r]] # None
  /\ answer' = [answer EXCEPT ![r] = placed[key[r]]]
  /\ UNCHANGED <<key, placed, stock>>

Refuse(r) ==
  /\ answer[r] = None
  /\ answer' = [answer EXCEPT ![r] = Error]
  /\ UNCHANGED <<key, placed, stock>>

Restock(p, qty) ==
  /\ stock[p] + qty <= MaxQty
  /\ stock' = [stock EXCEPT ![p] = @ + qty]
  /\ UNCHANGED <<key, placed, answer>>

Next ==
  \/ \E r \in Requests : Accept(r) \/ Refuse(r) \/ \E line \in Lines : Place(r, line)
  \/ \E p \in Products, qty \in 1..MaxQty : Restock(p, qty)

Spec == Init /\ [][Next]_vars
=============================================================================
