--------------------------------- MODULE Catalog ---------------------------------
(***************************************************************************)
(* The admin's writes: POST and PATCH /admin/products                      *)
(* (services/product.service.js) and POST /admin/inventory/restock         *)
(* (services/inventory.service.js).                                        *)
(*                                                                         *)
(* Every statement runs on the pool and commits by itself, so each one is  *)
(* a step, and a call of two statements may stop between them.  What was   *)
(* sent to Postgres may be executed after its connection is lost or the    *)
(* process has ended, when the call is answered, or will never be.  Input  *)
(* that is refused before the first statement changes nothing and is left  *)
(* out.  A product is named by the call that creates it, or is an old one. *)
(***************************************************************************)
EXTENDS Naturals, Functions

CONSTANTS
  Calls,
  Ids,      \* products: those the calls may create, and old ones
  Inputs,   \* what clients send: [op |-> "create", row], ["patch", id, patch] or
            \* ["restock", id, qty]
  OldRow, OldQty,  \* the old products
  MaxQty,   \* largest value of the integer column available_qty
  None      \* no row, no answer

VARIABLES
  products,  \* id -> row (a function of its columns) or None
  stock,     \* inventory: id -> available_qty or None
  input,     \* each call's input
  earlier,   \* history: the calls acknowledged before each one was sent
  pc,        \* idle, the statement sent to Postgres, "executed" when that was the
             \* last one, or done
  answer     \* "ok", "notFound", "error", None, or "lost" with the process

Id(c) == input[c].id
Of(op) == {c \in Calls : input[c].op = op}
First == [create |-> "insert", patch |-> "update", restock |-> "find"]
Running == {c \in Calls : pc[c] # "idle" /\ answer[c] = None}
Acknowledged == {c \in Calls : answer[c] = "ok"}

Goto(c, phase) == pc' = [pc EXCEPT ![c] = phase] /\ UNCHANGED <<input, earlier, answer>>
Answer(c, what) == answer' = [answer EXCEPT ![c] = what] /\ UNCHANGED <<input, earlier>>
End(c, what) == Answer(c, what) /\ pc' = [pc EXCEPT ![c] = "done"]

Init ==
  /\ products = [p \in Ids |-> IF p \in Calls THEN None ELSE OldRow]
  /\ stock = [p \in Ids |-> IF p \in Calls THEN None ELSE OldQty]
  /\ input \in [Calls -> Inputs]
  /\ earlier = [c \in Calls |-> {}]
  /\ pc = [c \in Calls |-> "idle"]
  /\ answer = [c \in Calls |-> None]

-----------------------------------------------------------------------------
(* The statements, when they succeed. *)

\* The unique index on sku.
Insertable(p, row) ==
  \A q \in Ids \ {p} : products[q] # None => products[q].sku # row.sku

InsertProduct(c) ==
  /\ pc[c] = "insert"
  /\ Insertable(c, input[c].row)
  /\ products' = [products EXCEPT ![c] = input[c].row]
  /\ UNCHANGED stock

\* INSERT ... ON CONFLICT (product_id) DO NOTHING
InsertStock(c) ==
  /\ pc[c] = "insertStock"
  /\ stock' = [stock EXCEPT ![c] = IF @ = None THEN 0 ELSE @]
  /\ UNCHANGED products

\* Mutant: the columns that are not given are written back as read earlier.
PatchedStale(row, patch) ==
  [f \in DOMAIN row |-> IF f \in DOMAIN patch THEN patch[f] ELSE OldRow[f]]

\* UPDATE products SET only the given columns.
Patched(row, patch) ==
  [f \in DOMAIN row |-> IF f \in DOMAIN patch THEN patch[f] ELSE row[f]]

UpdateProduct(c) ==
  /\ pc[c] = "update"
  /\ products[Id(c)] # None
  /\ LET row == Patched(products[Id(c)], input[c].patch)
     IN  Insertable(Id(c), row) /\ products' = [products EXCEPT ![Id(c)] = row]
  /\ UNCHANGED stock

\* Mutant: SET available_qty = $1
RestockOverwrites(c) ==
  /\ pc[c] = "restock" /\ stock[Id(c)] # None
  /\ stock' = [stock EXCEPT ![Id(c)] = input[c].qty]
  /\ UNCHANGED products

\* UPDATE inventory SET available_qty = available_qty + $1
Restock(c) ==
  /\ pc[c] = "restock"
  /\ stock[Id(c)] # None /\ stock[Id(c)] + input[c].qty <= MaxQty
  /\ stock' = [stock EXCEPT ![Id(c)] = @ + input[c].qty]
  /\ UNCHANGED products

-----------------------------------------------------------------------------
(* The calls. *)

Start(c) ==
  /\ pc[c] = "idle"
  /\ pc' = [pc EXCEPT ![c] = First[input[c].op]]
  /\ earlier' = [earlier EXCEPT ![c] = Acknowledged]
  /\ UNCHANGED <<products, stock, input, answer>>

\* Mutant: the call answers without its second statement.
CreateHalf(c) == c \in Running /\ InsertProduct(c) /\ Goto(c, "executed")

Create(c) == c \in Running /\ InsertProduct(c) /\ Goto(c, "insertStock")

LastStatement(c) ==
  /\ c \in Running
  /\ InsertStock(c) \/ UpdateProduct(c) \/ Restock(c)
  /\ Goto(c, "executed")

Succeed(c) ==
  c \in Running /\ pc[c] = "executed" /\ Answer(c, "ok") /\ UNCHANGED <<products, stock, pc>>

FindProduct(c) ==
  /\ c \in Running /\ pc[c] = "find" /\ products[Id(c)] # None
  /\ Goto(c, "restock")
  /\ UNCHANGED <<products, stock>>

\* 404 "Product not found" or "Inventory not found".
NotFound(c) ==
  /\ c \in Running
  /\ \/ pc[c] \in {"update", "find"} /\ products[Id(c)] = None
     \/ pc[c] = "restock" /\ stock[Id(c)] = None
  /\ End(c, "notFound")
  /\ UNCHANGED <<products, stock>>

\* Postgres refuses the statement: the unique index, a number out of range.
StatementFails(c) ==
  c \in Running /\ pc[c] # "executed" /\ End(c, "error") /\ UNCHANGED <<products, stock>>

\* The query rejects, wherever Postgres is with the statement.
ConnectionLost(c) == c \in Running /\ Answer(c, "error") /\ UNCHANGED <<products, stock, pc>>

\* The process ends with calls in flight, wherever Postgres is with theirs.
Crash ==
  /\ answer' = [c \in Calls |-> IF c \in Running THEN "lost" ELSE answer[c]]
  /\ UNCHANGED <<products, stock, input, earlier, pc>>

\* Postgres executes a statement nobody waits for any more.
Orphaned(c) ==
  /\ answer[c] \in {"error", "lost"}
  /\ InsertProduct(c) \/ InsertStock(c) \/ UpdateProduct(c) \/ Restock(c)
  /\ Goto(c, "executed")

Step(c) ==
  \/ Create(c) \/ LastStatement(c) \/ Succeed(c) \/ FindProduct(c) \/ NotFound(c)
  \/ StatementFails(c) \/ ConnectionLost(c) \/ Orphaned(c)

-----------------------------------------------------------------------------
(* Properties. *)

\* "Ensure an inventory row exists (one-to-one)": a product is without one only
\* while its creation is under way, or for good when that failed or was cut off.
EveryProductStocked ==
  \A c \in Calls : products[c] # None /\ stock[c] = None =>
    pc[c] = "insertStock" \/ answer[c] \in {"error", "lost"}

\* A column that an executed patch set holds its value, or that of another patch
\* of this column: of one that was not acknowledged before this one was sent.
\* So patches of other columns undo nothing, and an acknowledged patch is
\* never undone by an older one, except one that had been reported as failed.
PatchesKept ==
  \A c \in Of("patch") : pc[c] = "executed" =>
    \A f \in DOMAIN input[c].patch :
      \E d \in Of("patch") \ earlier[c] :
        /\ Id(d) = Id(c) /\ f \in DOMAIN input[d].patch
        /\ products[Id(c)][f] = input[d].patch[f]

\* Units restocked over p by some calls.
Restocked(p, calls) ==
  SumFunctionOnSet([c \in Of("restock") |-> input[c].qty], {c \in Of("restock") \cap calls : Id(c) = p})

\* An executed call whose answer is under way, and those that may have been
\* executed: their clients got an error or lost the process.
Uncertain == {c \in Calls : pc[c] = "executed" \/ answer[c] \in {"error", "lost"}}

\* Every acknowledged restock is in the stock, and nothing is but the restocks
\* that were acknowledged, will be, or ended without saying: each at most once.
RestocksAddUp ==
  \A p \in Ids : stock[p] # None =>
    LET before == IF p \in Calls THEN 0 ELSE OldQty
    IN  /\ stock[p] >= before + Restocked(p, Acknowledged)
        /\ stock[p] <= before + Restocked(p, Acknowledged \cup Uncertain)
=============================================================================
