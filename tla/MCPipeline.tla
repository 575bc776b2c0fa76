------------------------------- MODULE MCPipeline -------------------------------
(***************************************************************************)
(* A small instance of Pipeline for TLC.                                   *)
(***************************************************************************)
EXTENDS Pipeline, TLC

CONSTANTS u1, u2, c1, c2, k1, k2, r1, r2

MCCartOwner == (c1 :> u1) @@ (c2 :> u2)

\* Two customers with a cart of both products, filled in opposite orders, who
\* send a key each or the same one.
MCCartOf == (r1 :> c1) @@ (r2 :> c2)
MCCalls ==
  {[user |-> u1, cart |-> c1, key |-> k1]} \cup {[user |-> u2, cart |-> c2, key |-> k] : k \in Keys}
MCCartRows ==
  LET Row(p) == [product |-> p, qty |-> 1]
  IN  (c1 :> <<Row(1), Row(2)>>) @@ (c2 :> <<Row(2), Row(1)>>)
OneLine == {[p \in Products |-> 1]}
=============================================================================
