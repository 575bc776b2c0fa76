-------------------------------- MODULE MCCart --------------------------------
(***************************************************************************)
(* Small instances of Cart for TLC.                                        *)
(***************************************************************************)
EXTENDS Cart, TLC

CONSTANTS u1, u2, c1, c2, c3, p1

\* Two carts for the user who checks out and comes back, one for the other.
MCCartOwner == (c1 :> u1) @@ (c2 :> u1) @@ (c3 :> u2)

Call(op, u, qty) == [op |-> op, user |-> u, product |-> p1, qty |-> qty]

MCCalls == {Call("add", u1, 1), Call("add", u1, 2), Call("add", u2, 1), Call("remove", u1, 1)}

Symmetry == Permutations(Requests)
=============================================================================
