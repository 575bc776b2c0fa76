------------------------------- MODULE Checkout -------------------------------
(***************************************************************************)
(* POST /checkout (services/checkout.service.js) as concurrent requests    *)
(* over the Postgres tables it reads and writes, and the publication of    *)
(* the order's event after COMMIT (services/order-events.publisher.js).    *)
(*                                                                         *)
(* Every await is a point where another request may run, so every          *)
(* statement that reads, locks or commits is an action.  The database runs *)
(* at READ COMMITTED: a plain SELECT sees the committed rows, a statement  *)
(* that locks or writes a row first waits for the transaction holding it,  *)
(* and a transaction's own writes become visible at its COMMIT.  The table *)
(* variables below hold COMMITTED rows; what a transaction has written but *)
(* not committed is determined by its pc and the cart lines it read.       *)
(***************************************************************************)
EXTENDS Naturals, FiniteSets, Functions

CONSTANTS
  Requests,     \* POST /checkout calls; a call also names the order it may insert
  Users, Keys, Carts,
  Products,     \* product ids: numbers, since rows are locked in id order
  CartOwner,    \* carts.user_id
  Calls,        \* the (user, cart, key) arguments clients send
  Lines,        \* the contents a cart may have: product -> qty, 0 when absent
  MaxQty,       \* largest value of the integer column available_qty
  PoolMax,      \* connections of the pg Pool
  MaxRetries,   \* SQS_SEND_MAX_RETRIES
  QueueUrlSet,  \* whether SQS_QUEUE_URL is set
  None,         \* no row, no lock holder, no answer yet
  Placeholder,  \* the '{}' response of a key in progress
  Error         \* the call was answered with an error

ASSUME ConstantsOK ==
  /\ Products \subseteq Nat
  /\ CartOwner \in [Carts -> Users]
  /\ Calls \subseteq [user : Users, cart : Carts, key : Keys]
  /\ Lines \subseteq [Products -> Nat]
  /\ MaxQty \in Nat /\ PoolMax \in Nat \ {0} /\ MaxRetries \in Nat
  /\ QueueUrlSet \in BOOLEAN

ASSUME SpecialValues ==
  /\ {None, Placeholder, Error} \cap Requests = {}
  /\ None # Placeholder /\ None # Error /\ Placeholder # Error

\* The products are the rows of a table.
ASSUME FinitelyMany == IsFiniteSet(Products)

VARIABLES
  idem,        \* idempotency_keys: key -> order in its response, Placeholder or None
  cartStatus,  \* carts.status; "absent" before the row exists
  cartItems,   \* cart_items: cart -> product -> qty
  avail,       \* inventory.available_qty
  order,       \* orders.status; "none" before the row exists
  keyLock,     \* holder of the row lock of a key (or its uncommitted insert)
  stockLock,   \* holder of the row lock of a product's inventory
  cartLock,    \* holder of the row lock of a cart
  pc,          \* where each call is
  arg,         \* the call's arguments
  items,       \* the cart lines the call read; once committed, its order_items
  attempt,     \* publish attempts that failed so far
  reply,       \* what the client was answered: an order, Error, or None
  queue,       \* messages SQS accepted for each order
  stocked      \* history: units ever put in available_qty (initial and restocked)

tables == <<idem, cartStatus, cartItems, avail, order>>
locks  == <<keyLock, stockLock, cartLock>>
vars   == <<idem, cartStatus, cartItems, avail, order, keyLock, stockLock, cartLock,
            pc, arg, items, attempt, reply, queue, stocked>>

-----------------------------------------------------------------------------
(* The phases of a call. *)

InTxn      == {"insertKey", "lockKey", "readCart", "lockStock", "markCart", "commit"}
WithClient == InTxn \cup {"publish", "rollback", "cleanup", "broken"}
Over       == {"done", "lost"}
Phases     == WithClient \cup Over \cup {"idle"}

\* pool.connect() and pool.query() wait while every connection is checked out.
FreeClient == Cardinality({r \in Requests : pc[r] \in WithClient}) < PoolMax

Key(r)    == arg[r].key
Cart(r)   == arg[r].cart
Wanted(r) == {p \in Products : items[r][p] > 0}

Goto(r, phase)  == pc' = [pc EXCEPT ![r] = phase]
Answer(r, what) == reply' = [reply EXCEPT ![r] = what]

\* The locks left once the transactions in gone have ended.
Freed(lock, gone) ==
  [x \in DOMAIN lock |-> IF lock[x] \in gone THEN None ELSE lock[x]]

EndTxns(gone) ==
  /\ keyLock' = Freed(keyLock, gone)
  /\ stockLock' = Freed(stockLock, gone)
  /\ cartLock' = Freed(cartLock, gone)

Init ==
  /\ idem = [k \in Keys |-> None]
  /\ cartStatus = [c \in Carts |-> "open"]
  /\ cartItems \in [Carts -> Lines]
  /\ avail \in [Products -> 0..MaxQty]
  /\ order = [r \in Requests |-> "none"]
  /\ keyLock = [k \in Keys |-> None]
  /\ stockLock = [p \in Products |-> None]
  /\ cartLock = [c \in Carts |-> None]
  /\ pc = [r \in Requests |-> "idle"]
  /\ arg \in [Requests -> Calls]
  /\ items = [r \in Requests |-> [p \in Products |-> 0]]
  /\ attempt = [r \in Requests |-> 0]
  /\ reply = [r \in Requests |-> None]
  /\ queue = [r \in Requests |-> 0]
  /\ stocked = avail

-----------------------------------------------------------------------------
(* The transaction. *)

\* pool.connect() and BEGIN.
Connect(r) ==
  /\ pc[r] = "idle"
  /\ FreeClient
  /\ Goto(r, "insertKey")
  /\ UNCHANGED <<tables, locks, arg, items, attempt, reply, queue, stocked>>

\* Mutant: the INSERT does not wait for a concurrent holder of the key.
NoWait(r) == TRUE

KeyFree(r) == keyLock[Key(r)] = None

\* Mutant: the INSERT runs on the pool, outside the transaction.
InsertKeyOnPool(r) ==
  /\ pc[r] = "insertKey"
  /\ idem' = [idem EXCEPT ![Key(r)] = IF @ = None THEN Placeholder ELSE @]
  /\ Goto(r, "lockKey")
  /\ UNCHANGED <<cartStatus, cartItems, avail, order, locks, arg, items, attempt, reply,
                 queue, stocked>>

\* INSERT ... ON CONFLICT DO NOTHING: a committed row makes it a no-op, another
\* transaction's uncommitted row makes it wait for that transaction's end.
InsertKey(r) ==
  /\ pc[r] = "insertKey"
  /\ \/ /\ idem[Key(r)] # None
        /\ UNCHANGED keyLock
     \/ /\ idem[Key(r)] = None
        /\ KeyFree(r)
        /\ keyLock' = [keyLock EXCEPT ![Key(r)] = r]
  /\ Goto(r, "lockKey")
  /\ UNCHANGED <<tables, stockLock, cartLock, arg, items, attempt, reply, queue, stocked>>

\* SELECT response ... FOR UPDATE.  A saved response ends the call: COMMIT and
\* return it.  Otherwise the key is this transaction's to complete (its own
\* uncommitted row is already locked, and a missing row locks nothing).
LockKey(r) ==
  /\ pc[r] = "lockKey"
  /\ idem[Key(r)] # None => KeyFree(r)
  /\ \/ /\ idem[Key(r)] \in Requests
        /\ Answer(r, idem[Key(r)])
        /\ Goto(r, "done")
        /\ UNCHANGED keyLock
     \/ /\ idem[Key(r)] \notin Requests
        /\ keyLock' = [keyLock EXCEPT ![Key(r)] = IF idem[Key(r)] = None THEN @ ELSE r]
        /\ Goto(r, "readCart")
        /\ UNCHANGED reply
  /\ UNCHANGED <<tables, stockLock, cartLock, arg, items, attempt, queue, stocked>>

\* What getCartForCheckout must return for the call to go on.
CartAccepted(r) ==
  /\ cartStatus[Cart(r)] = "open"
  /\ CartOwner[Cart(r)] = arg[r].user
  /\ \E p \in Products : cartItems[Cart(r)][p] > 0

\* getCartForCheckout takes no lock: the checks and the lines are those of the
\* committed cart at this instant.
ReadCart(r) ==
  /\ pc[r] = "readCart"
  /\ \/ /\ CartAccepted(r)
        /\ items' = [items EXCEPT ![r] = cartItems[Cart(r)]]
        /\ Goto(r, "lockStock")
     \/ /\ ~CartAccepted(r)
        /\ Goto(r, "rollback")
        /\ UNCHANGED items
  /\ UNCHANGED <<tables, locks, arg, attempt, reply, queue, stocked>>

\* Mutant: the rows are locked in any order.
AnyRow(r, p) == TRUE

NextRow(r, p) == \A q \in Wanted(r) : q < p => stockLock[q] = r

\* SELECT ... FROM inventory ... ORDER BY product_id FOR UPDATE: the rows are
\* locked one at a time, in id order.
LockStock(r, p) ==
  /\ pc[r] = "lockStock"
  /\ p \in Wanted(r)
  /\ stockLock[p] = None
  /\ NextRow(r, p)
  /\ stockLock' = [stockLock EXCEPT ![p] = r]
  /\ UNCHANGED <<tables, keyLock, cartLock, pc, arg, items, attempt, reply, queue, stocked>>

\* Mutant: the stock is decreased without a check.
Unchecked(r) == TRUE

Covered(r) == \A p \in Wanted(r) : items[r][p] <= avail[p]

\* Mutant: the SELECT of the stock has no FOR UPDATE.
Unlocked(r) == TRUE

StockHeld(r) == \A p \in Wanted(r) : stockLock[p] = r

\* The stock check on the locked rows; when it passes, the UPDATEs of
\* available_qty and the INSERTs of the order and its items, all uncommitted.
DecreaseStock(r) ==
  /\ pc[r] = "lockStock"
  /\ StockHeld(r)
  /\ \/ Covered(r) /\ Goto(r, "markCart")
     \/ ~Covered(r) /\ Goto(r, "rollback")
  /\ UNCHANGED <<tables, locks, arg, items, attempt, reply, queue, stocked>>

\* UPDATE carts SET status = 'checked_out' WHERE id = ..., whatever its status.
MarkCart(r) ==
  /\ pc[r] = "markCart"
  /\ cartLock[Cart(r)] = None
  /\ cartLock' = [cartLock EXCEPT ![Cart(r)] = r]
  /\ Goto(r, "commit")
  /\ UNCHANGED <<tables, keyLock, stockLock, arg, items, attempt, reply, queue, stocked>>

\* Mutant: the response is not saved under the key.
NoResponse(r) == Placeholder

Response(r) == r

\* The response is saved under the key, if the transaction holds its row, and the
\* transaction's writes appear.
CommitTables(r) ==
  /\ idem' = [idem EXCEPT ![Key(r)] = IF keyLock[Key(r)] = r THEN Response(r) ELSE @]
  /\ avail' = [p \in Products |-> avail[p] - items[r][p]]
  /\ order' = [order EXCEPT ![r] = "pending"]
  /\ cartStatus' = [cartStatus EXCEPT ![Cart(r)] = "checked_out"]
  /\ EndTxns({r})

Commit(r) ==
  /\ pc[r] = "commit"
  /\ CommitTables(r)
  /\ Goto(r, "publish")
  /\ UNCHANGED <<cartItems, arg, items, attempt, reply, queue, stocked>>

-----------------------------------------------------------------------------
(* publishCheckoutSucceeded, while the call still holds its client. *)

PublishSkipped(r) ==
  /\ pc[r] = "publish"
  /\ ~QueueUrlSet
  /\ Answer(r, r)
  /\ Goto(r, "done")
  /\ UNCHANGED <<tables, locks, arg, items, attempt, queue, stocked>>

\* Mutant: the event may be sent before COMMIT.
SendBeforeCommit(r) ==
  /\ pc[r] = "commit"
  /\ QueueUrlSet
  /\ queue[r] = 0
  /\ queue' = [queue EXCEPT ![r] = @ + 1]
  /\ UNCHANGED <<tables, locks, pc, arg, items, attempt, reply, stocked>>

SendOk(r) ==
  /\ pc[r] = "publish"
  /\ QueueUrlSet
  /\ queue' = [queue EXCEPT ![r] = @ + 1]
  /\ Answer(r, r)
  /\ Goto(r, "done")
  /\ UNCHANGED <<tables, locks, arg, items, attempt, stocked>>

\* A send that throws, whether or not SQS had accepted the message: another
\* attempt, or past MaxRetries the error is logged and the call still succeeds.
SendFails(r) ==
  /\ pc[r] = "publish"
  /\ QueueUrlSet
  /\ \E stored \in {0, 1} : queue' = [queue EXCEPT ![r] = @ + stored]
  /\ \/ /\ attempt[r] < MaxRetries
        /\ attempt' = [attempt EXCEPT ![r] = @ + 1]
        /\ UNCHANGED <<pc, reply>>
     \/ /\ attempt[r] >= MaxRetries
        /\ Answer(r, r)
        /\ Goto(r, "done")
        /\ UNCHANGED attempt
  /\ UNCHANGED <<tables, locks, arg, items, stocked>>

-----------------------------------------------------------------------------
(* Errors. *)

\* Any statement of the transaction may throw into the catch block.
QueryFails(r) ==
  /\ pc[r] \in InTxn
  /\ Goto(r, "rollback")
  /\ UNCHANGED <<tables, locks, arg, items, attempt, reply, queue, stocked>>

\* Mutant: the client is released without a ROLLBACK.
RollbackForgotten(r) ==
  /\ pc[r] = "rollback"
  /\ Goto(r, "cleanup")
  /\ UNCHANGED <<tables, locks, arg, items, attempt, reply, queue, stocked>>

Rollback(r) ==
  /\ pc[r] = "rollback"
  /\ EndTxns({r})
  /\ Goto(r, "cleanup")
  /\ UNCHANGED <<tables, arg, items, attempt, reply, queue, stocked>>

\* Mutant: the DELETE has no condition on the response.
AnyResponse(r) == TRUE

InProgress(r) == idem[Key(r)] = Placeholder

\* pool.query(DELETE ... WHERE key = ... AND response = '{}') needs a second
\* client while the first is still checked out; its own failure is ignored.
Cleanup(r) ==
  /\ pc[r] = "cleanup"
  /\ FreeClient
  /\ \/ /\ InProgress(r) => KeyFree(r)
        /\ idem' = [idem EXCEPT ![Key(r)] = IF InProgress(r) THEN None ELSE @]
     \/ UNCHANGED idem
  /\ Answer(r, Error)
  /\ Goto(r, "done")
  /\ UNCHANGED <<cartStatus, cartItems, avail, order, locks, arg, items, attempt, queue, stocked>>

\* The connection dies: the server ends the transaction, and in the client the
\* ROLLBACK of the catch block will throw too.
ConnectionLost(r) ==
  /\ pc[r] \in InTxn \cup {"rollback"}
  /\ EndTxns({r})
  /\ Goto(r, "broken")
  /\ UNCHANGED <<tables, arg, items, attempt, reply, queue, stocked>>

\* Mutant: a COMMIT without an answer is taken for a failure and repeated.
CommitRepeated(r) ==
  /\ pc[r] = "commit" /\ CommitTables(r)
  /\ UNCHANGED <<pc, cartItems, arg, items, attempt, reply, queue, stocked>>

\* The connection dies after the server executed COMMIT and before its answer.
CommitUnacked(r) ==
  /\ pc[r] = "commit"
  /\ CommitTables(r)
  /\ Goto(r, "broken")
  /\ UNCHANGED <<cartItems, arg, items, attempt, reply, queue, stocked>>

\* The ROLLBACK that throws leaves the catch block before the DELETE.
RollbackThrows(r) ==
  /\ pc[r] = "broken"
  /\ Answer(r, Error)
  /\ Goto(r, "done")
  /\ UNCHANGED <<tables, locks, arg, items, attempt, queue, stocked>>

\* The API process dies (or its shutdown grace ends) with calls in flight.
Crash ==
  LET down == {r \in Requests : pc[r] \in WithClient}
  IN  /\ down # {}
      /\ EndTxns(down)
      /\ pc' = [r \in Requests |-> IF r \in down THEN "lost" ELSE pc[r]]
      /\ UNCHANGED <<tables, arg, items, attempt, reply, queue, stocked>>

\* POST /admin/inventory/restock: one UPDATE, which waits for the row and fails
\* when the sum is out of the integer's range.
Restock(p, qty) ==
  /\ stockLock[p] = None
  /\ avail[p] + qty <= MaxQty
  /\ avail' = [avail EXCEPT ![p] = @ + qty]
  /\ stocked' = [stocked EXCEPT ![p] = @ + qty]
  /\ UNCHANGED <<idem, cartStatus, cartItems, order, locks, pc, arg, items, attempt, reply, queue>>

\* Every call has been answered or lost, and the program idles.
Quiet == (\A r \in Requests : pc[r] \in Over) /\ UNCHANGED vars

-----------------------------------------------------------------------------
\* What the event loop and the database do by themselves for a call.
Step(r) ==
  \/ InsertKey(r) \/ LockKey(r) \/ ReadCart(r)
  \/ (\E p \in Products : LockStock(r, p))
  \/ DecreaseStock(r) \/ MarkCart(r) \/ Commit(r)
  \/ PublishSkipped(r) \/ SendOk(r) \/ SendFails(r)
  \/ Rollback(r) \/ Cleanup(r) \/ RollbackThrows(r)

Fault(r) == QueryFails(r) \/ ConnectionLost(r) \/ CommitUnacked(r)

Next ==
  \/ \E r \in Requests : Connect(r) \/ Step(r) \/ Fault(r)
  \/ Crash
  \/ \E p \in Products, qty \in 1..MaxQty : Restock(p, qty)
  \/ Quiet

Spec == Init /\ [][Next]_vars

\* A started call keeps going; clients, faults and restocks owe nothing.
FairSpec == Spec /\ \A r \in Requests : WF_vars(Step(r))

-----------------------------------------------------------------------------
(* Properties. *)

\* Every variable keeps its type.  For avail this is the column's CHECK
\* (available_qty >= 0), which no interleaving of calls ever has to enforce.
TypeOK ==
  /\ idem \in [Keys -> Requests \cup {None, Placeholder}]
  /\ cartStatus \in [Carts -> {"absent", "open", "checked_out"}]
  /\ cartItems \in [Carts -> Lines]
  /\ avail \in [Products -> 0..MaxQty]
  /\ order \in [Requests -> {"none", "pending"}]
  /\ keyLock \in [Keys -> Requests \cup {None}]
  /\ stockLock \in [Products -> Requests \cup {None}]
  /\ cartLock \in [Carts -> Requests \cup {None}]
  /\ pc \in [Requests -> Phases]
  /\ arg \in [Requests -> Calls]
  /\ items \in [Requests -> [Products -> Nat]]
  /\ attempt \in [Requests -> 0..MaxRetries]
  /\ reply \in [Requests -> Requests \cup {None, Error}]
  /\ queue \in [Requests -> Nat]
  /\ stocked \in [Products -> Nat]

\* Calls sharing an Idempotency-Key, concurrent, retried or cut off, insert at
\* most one order between them.
OneOrderPerKey ==
  \A r, s \in Requests :
    order[r] # "none" /\ order[s] # "none" /\ Key(r) = Key(s) => r = s

\* A checkout's writes appear together or not at all: the order, the response
\* saved under its key and the closed cart; and no placeholder row is ever
\* committed, whatever fails (so the catch block's DELETE finds nothing).
AllOrNothing ==
  /\ \A r \in Requests :
       order[r] # "none" => idem[Key(r)] = r /\ cartStatus[Cart(r)] = "checked_out"
  /\ \A k \in Keys :
       idem[k] # None => idem[k] \in Requests /\ order[idem[k]] # "none"

\* Every successful answer to a key names the one order saved under that key.
SameReplyPerKey ==
  \A r \in Requests : reply[r] \in Requests => idem[Key(r)] = reply[r]

\* From the stock check to COMMIT a call holds every row it will decrement and
\* the rows still cover its lines, however long it waits for the cart row.
StockStaysCovered ==
  \A r \in Requests : pc[r] \in {"markCart", "commit"} =>
    \A p \in Wanted(r) : stockLock[p] = r /\ items[r][p] <= avail[p]

\* Units are neither lost nor invented: what was ever put on the shelf is on it
\* or in an order, in every state, with transactions open, failing or cut off.
StockConserved ==
  \A p \in Products :
    avail[p] + SumFunctionOnSet([r \in Requests |-> items[r][p]],
                                {r \in Requests : order[r] # "none"}) = stocked[p]

\* An event is never in the queue before the order it names is committed.
MessageHasOrder ==
  \A r \in Requests : queue[r] > 0 => order[r] = "pending"

\* r waits for a lock s holds.
WaitsFor(r, s) ==
  /\ r # s
  /\ \/ pc[r] = "insertKey" /\ idem[Key(r)] = None /\ keyLock[Key(r)] = s
     \/ pc[r] = "lockKey" /\ idem[Key(r)] # None /\ keyLock[Key(r)] = s
     \/ /\ pc[r] = "lockStock"
        /\ \E p \in Wanted(r) : stockLock[p] = s /\ NextRow(r, p)
     \/ pc[r] = "markCart" /\ cartLock[Cart(r)] = s

\* No set of checkouts can wait for each other: keys, then inventory in id
\* order, then the cart.
NoLockCycle ==
  \A S \in (SUBSET Requests) \ {{}} : \E r \in S : \A s \in S : ~WaitsFor(r, s)

\* Every call that got a connection is answered, unless the process dies.
EveryCallAnswered ==
  \A r \in Requests : pc[r] = "insertKey" ~> pc[r] \in Over

\* An order is only made from a cart that is open: the code's own check, "Cart
\* is not open", read as a statement about the commit.
OrderFromOpenCart ==
  [][\A r \in Requests :
       order[r] = "none" /\ order'[r] = "pending" => cartStatus[Cart(r)] = "open"]_vars

\* A refused checkout is answered (400, 403, 404): its transaction ends in
\* the catch block and the call returns.
RefusalAnswered ==
  \A r \in Requests : pc[r] = "rollback" ~> pc[r] \in Over

\* The API publishes the event of every order it commits.
EveryOrderPublished ==
  \A r \in Requests : order[r] = "pending" ~> queue[r] > 0

-----------------------------------------------------------------------------
\* What a client may rely on: each call is one atomic step of the order book.
Book == INSTANCE OrderBook WITH
  key    <- [r \in Requests |-> Key(r)],
  placed <- [k \in Keys |-> IF idem[k] \in Requests THEN idem[k] ELSE None],
  stock  <- avail,
  answer <- reply

ImplementsBook == Book!Spec
=============================================================================
