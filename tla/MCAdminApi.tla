------------------------------- MODULE MCAdminApi -------------------------------
(***************************************************************************)
(* A small instance of AdminApi for TLC.                                   *)
(***************************************************************************)
EXTENDS AdminApi, TLC

CONSTANTS c1, p0

Row(s, n) == [sku |-> s, price |-> n]
MCOldRow == Row("a", 0)

\* A creation under a new sku or a taken one, patches of either column and
\* restocks, of the old product or the one c1 may create.
MCInputs ==
  {[op |-> "create", row |-> Row(s, 0)] : s \in {"a", "b"}}
  \cup {[op |-> "patch", id |-> p0, patch |-> [price |-> n]] : n \in 1..2}
  \cup {[op |-> "patch", id |-> c1, patch |-> [price |-> 1]]}
  \cup {[op |-> "patch", id |-> p0, patch |-> [sku |-> "b"]]}
  \cup {[op |-> "restock", id |-> p, qty |-> n] : p \in {p0, c1}, n \in 1..2}
=============================================================================
