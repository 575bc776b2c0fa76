------------------------------- MODULE MCPayment -------------------------------
(***************************************************************************)
(* Small instances of Payment for TLC.                                     *)
(***************************************************************************)
EXTENDS Payment, TLC

CONSTANTS m1, m2, m3, o1, o2

Item(p) == [product |-> p, qty |-> 1]
OneItem == o1 :> <<Item(1)>>
\* Two orders of the same products in opposite order.
Crosswise == (o1 :> <<Item(1), Item(2)>>) @@ (o2 :> <<Item(2), Item(1)>>)

OneMessage == m1 :> o1
Duplicate  == (m1 :> o1) @@ (m2 :> o1) @@ (m3 :> o2)

Symmetry == Permutations(Workers)
=============================================================================
