------------------------------ MODULE MCCheckout ------------------------------
(***************************************************************************)
(* Small instances of Checkout for TLC.                                    *)
(***************************************************************************)
EXTENDS Checkout, TLC

CONSTANTS u1, u2, c1, c2, k1, k2

MCCartOwner == (c1 :> u1) @@ (c2 :> u2)

Call(u, c, k) == [user |-> u, cart |-> c, key |-> k]

\* A user's call and its retry under a second key, another user's call under
\* either key, and a call for somebody else's cart.
AllCalls == {Call(u1, c1, k1), Call(u1, c1, k2), Call(u2, c2, k2), Call(u2, c1, k2)}

\* Two users racing for the stock, each with a key of their own.
RacingCalls == {Call(u1, c1, k1), Call(u2, c2, k2)}

\* One call and the same call again, under one key.
RetriedCalls == {Call(u1, c1, k1)}

\* One cart sent under two keys.
TwoKeyCalls == {Call(u1, c1, k1), Call(u1, c1, k2)}

\* One unit of both products, or of either.
MixedLines == {l \in [Products -> 0..1] : \E p \in Products : l[p] = 1}
OneLine  == {[p \in Products |-> 1]}
WithEmpty == {[p \in Products |-> 0], [p \in Products |-> 1]}

Symmetry == Permutations(Requests)
=============================================================================
