------------------------------ MODULE MCShutdown ------------------------------
(***************************************************************************)
(* A small instance of WorkerShutdown for TLC: one order's event and a     *)
(* message without an order.                                               *)
(***************************************************************************)
EXTENDS WorkerShutdown, TLC

CONSTANTS m1, m2, o1

OneItem     == o1 :> <<[product |-> 1, qty |-> 1]>>
WithInvalid == (m1 :> o1) @@ (m2 :> Invalid)
=============================================================================
