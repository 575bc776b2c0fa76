# Formal model of the shop backend

The program is a small shop: a Node/Express API over Postgres, and a payment
worker fed by an SQS queue. This directory holds TLA+ modules that model its
checkout, carts, payment and admin calls, TLC configurations that check them on
small instances, and TLAPS proofs of the checkout for instances of any size.
`PROJECT.json` maps each definition to the source lines it models.

Paths below are relative to the repository; "actions" are those of the module
under discussion.

## 1. The system

| Component | Source | State it keeps | Operations |
|---|---|---|---|
| Checkout | `src/services/checkout.service.js`, `src/repositories/order.repo.js`, `inventory.repo.js` | `idempotency_keys`, `orders`, `order_items`, `carts.status`, `inventory` | `POST /checkout`: one transaction, then the publication of its event |
| Event publisher | `src/services/order-events.publisher.js` | none (messages go to SQS) | `publishCheckoutSucceeded`, with retries |
| Cart | `src/services/cart.service.js`, `src/repositories/cart.repo.js` | `carts`, `cart_items` | add item, remove item |
| Payment settlement | `src/services/payment-worker.service.js` | `orders.status`, `inventory` | `processOrderPayment`: confirm, or cancel and restore the stock |
| Payment worker | `src/workers/payment.worker.js` | its batch; SQS keeps the messages and the DLQ | poll, process, delete, move to the DLQ, shut down |
| Inventory administration | `src/services/inventory.service.js` | `inventory` | restock |
| Catalog | `src/services/product.service.js` | `products` | create, patch, list |
| Order queries | `src/services/order.service.js` | none | reads |
| Authentication | `src/services/auth.service.js`, middleware | none (signed tokens) | issue, verify |
| HTTP server, logging | `src/server.js`, `src/app.js`, middlewares | none | routing, shutdown |
| Connection pool | `src/db/pool.js` | checked-out clients (10 at most by default) | connect, query, release, end |
| Schema | `migrations/` | unique keys, CHECKs, integer columns | |

How they interact. The API calls share nothing but the database and the pool;
any of them runs between any two awaits of another. The API and the worker
share the `orders` and `inventory` rows, and the queue: checkout sends
`{ orderId }` after its COMMIT while still holding its pool client, and the
worker, which may be several processes, receives it at least once. Carts are
filled by one service and closed by another.

What is hard about it:

- *Concurrency.* Postgres runs at READ COMMITTED. Correctness rests on which
  statements lock which rows (`ON CONFLICT` and `FOR UPDATE` on the key,
  `FOR UPDATE` on stock rows in product order, nothing on the cart) and on two
  unique indexes.
- *Failure.* Any statement may throw, a connection may die with the COMMIT's
  answer on its way, the ROLLBACK may throw, a process may stop anywhere.
- *Delivery.* Messages are duplicated, delayed, redelivered while their first
  delivery is still being worked on. `withTimeout` rejects without cancelling
  the transaction it waited for.
- *Limits.* The pool, the retry ceilings, and `integer` columns.

What makes each component correct:

- checkout: one order per Idempotency-Key, one answer per key, all or none of
  a transaction's writes, stock never oversold or lost, no lock cycles, every
  call answered;
- publisher: no event before its order is committed (that every order gets an
  event is promised by the documentation and false, see section 6);
- cart: one open cart per user, no lost updates of quantities, an avoidable
  conflict is avoided;
- settlement: each order settled at most once, its stock restored exactly when
  and as often as it is cancelled;
- worker: no message lost before it is settled or given up, none given up before
  the ceiling, every message comes to an end.

- worker stop: it ends, and costs no message a retry that a fault does not
  explain;
- catalog and inventory administration: a product is created with its inventory
  row or the call fails; an acknowledged patch or restock is not undone, except
  that a patch of the same column that was reported as failed may still come
  late; every acknowledged restock counts once, any other at most once;
- authentication: a token is good for its lifetime, counted in whole seconds,
  and no longer;
- the API and the worker together: no unit of stock is lost between the shelf,
  an order and its cancellation; no lock outlives its transaction; every call
  and every event ends although the two deadlock over the stock.

The `hazards` of `PROJECT.json` list each of these at the line where it bites,
with the properties that would catch it going wrong.

## 2. Modules

| Module | Contents |
|---|---|
| `Checkout` | the checkout transaction, its error paths and the publisher, as concurrent calls |
| `OrderBook` | abstract: what `POST /checkout` promises, each call an atomic step |
| `CheckoutProofs` | the inductive invariant of `Checkout` and the theorems that follow from it |
| `CheckoutRefinement` | proof that `Checkout` implements `OrderBook` |
| `SumTheorems` | what sums over finite sets do when a term or a member changes |
| `Cart` | add and remove as sequences of autocommitted statements, beside checkouts |
| `CartProofs` | proofs about `Cart` |
| `Payment` | settlement transactions, worker loops, SQS and the DLQ |
| `Settlement` | abstract: an order is settled once, atomically |
| `PaymentProofs` | proofs about `Payment`, and that it implements `Settlement` |
| `WorkerShutdown` | extends `Payment`: the stop of a worker over everything `Payment` does |
| `ShutdownProofs` | that the promises of `Payment` survive the stop, and what a stop costs |
| `Pipeline` | `Checkout` and `Payment` composed over `orders`, `inventory` and the queue |
| `Shop` | abstract: an order placed, settled and, when cancelled, its stock put back |
| `PipelineProofs` | proofs about the composition, and that it implements `Shop` |
| `Auth` | logins, tokens and the clock |
| `Catalog` | creations, patches and restocks, statement by statement |
| `AdminApi` | `Catalog` behind the checks of `Auth`, over processes that restart |
| `AdminProofs` | proofs about `AdminApi` |
| `MCCheckout`, `MCCart`, `MCPayment`, `MCShutdown`, `MCPipeline`, `MCAdminApi` | model values, argument sets and symmetry for TLC |

### Checkout

The table variables (`idem`, `cartStatus`, `cartItems`, `avail`, `order`) hold
*committed* rows. What a transaction has written and not committed follows from
its `pc` and from `items[r]`, the lines it read, so it is not stored; row locks
(`keyLock`, `stockLock`, `cartLock`) are. An uncommitted insert of a key is the
key's lock with no committed row, which is how a concurrent `INSERT ... ON
CONFLICT` sees it. Each statement that reads, locks or commits is an action:

`Connect` (pool client, BEGIN) → `InsertKey` → `LockKey` (a saved response ends
the call here) → `ReadCart` (no lock; open, owned, not empty) → `LockStock` (one
row at a time in id order) → `DecreaseStock` (the check, then the UPDATEs and
the inserts of the order) → `MarkCart` → `Commit` → `SendOk` / `SendFails` /
`PublishSkipped`.

Errors: `QueryFails` → `Rollback` → `Cleanup` (the DELETE of the placeholder,
on a *second* pool client while the first is held) is the catch block.
`ConnectionLost` and `CommitUnacked` end in `RollbackThrows`, which skips the
DELETE. `Crash` stops the process with everything in flight. `Restock` is the
admin call. A retry by the client is simply another call with the same key.
A call names the order it may insert, so `order[r]` is the orders table.
`stocked` is a history variable, the units ever put on the shelf.

### Cart

`Start`, `Find`, `CreateCart`, `Refind`, then `Write` (an `Upsert` or
`DeleteRow`) or `RowMissing`; `QueryFails` and `WriteUnacked` are the ways a
statement fails. The partial unique index is the guard of `CreateCart`. The
checkout appears as the two instants these tables can see: `CheckoutReads` and
`CheckoutEnds`. `moved` and `closedAt` are history variables: what a call's
statement really changed, and which carts were closed before it began.

### Payment

A worker (`wpc`, `cur`, `batch`) handles its batch one message at a time. The
transaction for a message is a *job* of its own, named by its receipt
`<<message, receive count>>`, because `withTimeout` may leave it running.
Job actions: `LockOrder`, `RestoreItem` (one inventory row after the other, in
order_items order), `CommitJob`, `JobFails`, `CommitUnacked`, and
`DeadlockVictim` for the transaction Postgres aborts. `Trade` stands for the
checkouts and restocks that move the stock meanwhile. Worker actions:
`Receive`, `Begin`, `JobAnswers`, `TimesOut`, `Delete`, `SendToDlq` and their
failures. SQS is modelled from its use: `HandOut` counts a receive and hides the
message, `VisibilityExpires` / `ExpiresEarly` show it again, `Deleted` with a
stale receipt may or may not work.

The payment result is a free choice, which covers both payment modes (the random
one and the rule on the order id).

### WorkerShutdown

`life` is added to `Payment`: a process is `running`, `draining` (the signal has
cleared `keepRunning`) or `ending` (`pool.end()` was called). The loop sees the
cleared flag only between two polls (`LoopEnds`), so a batch of a poll that was
open at the signal is handled whole, also while the pool is ending, when
`pool.connect()` rejects (`BeginRefused`: `Payment`'s `Take` with a job that
has failed already). `EndPool` is the end of the drain; the grace period may be
shorter than any processing, so it needs no guard. `Exit` waits until no
transaction of the process holds a client, those that timed out included, which
is when `pool.end()` resolves; the process then exits at once, whatever the loop
is doing, and a new one starts. A message whose last receive meets the ended
pool is parked without a try; the run shows that it is parked all the same and
not lost.

### Pipeline

`C == INSTANCE Checkout` and `P == INSTANCE Payment` with `status` for `order`,
the calls as orders, the cart rows as order items, and the pair of an order and
the number of its send as a message. `order`, `avail` and `stockLock` are shared.
Every step of a call is conjoined with `Deliver`, which queues the message
its send produced. `Payment`'s `Trade` is not used: the
checkouts are here. `DeadlockVictim` is Postgres' detection over the waits of
both. `Shop` is what the whole promises: the mapping takes `key`, `status` and
`stock` from the tables, and what an order bought from the lines its call read.

### Auth, Catalog, AdminApi

A token is a record: role, expiry in whole seconds, the secret that signed it,
and the instant of the login (a history field the check does not read). `clock`
counts ticks, several to a second, so that a login and a check fall on either
side of a second. `Catalog` has a call per `createProduct` (`Create`, then
`LastStatement`), `updateProduct` (`LastStatement`) and `restock` (`FindProduct`,
then `LastStatement`). Each statement autocommits, and being executed is a step
apart from being answered (`Succeed`): the connection may be lost before or after
it (`ConnectionLost`), and so may the process (`Crash`). What Postgres was sent by
then it may still execute, at any later time, or never (`Orphaned`); a statement
it refuses has no effect (`StatementFails`). `earlier` is a history variable: which
calls had been acknowledged when a call was sent. A product is named by the call
that creates it. In `AdminApi` a call starts with `Admit` or `Refuse`, after which the token
is not looked at again, and `Restart` ends the process with the calls in
flight; the next one may have another `JWT_SECRET`, or none.

## 3. Runs

| Run | Checks | Shows |
|---|---|---|
| `checkout_safety` | `TypeOK`, `OneOrderPerKey`, `AllOrNothing`, `SameReplyPerKey`, `StockStaysCovered`, `MessageHasOrder`, `StockConserved`, `ImplementsBook` | the checkout's promises under three concurrent calls |
| `checkout_locks` | `NoLockCycle` | three calls over two products, in any combination of lines, never deadlock; also the branch without a queue URL |
| `cart_calls` | `TypeOK`, `OneOpenCartPerUser`, `ConflictOnlyAfterCheckout`, `UnitsAccounted` | racing adds and removals beside checkouts |
| `payment_duplicates` | `TypeOK`, `NoneLost`, `SettledOnce`, `ImplementsSettlement` | duplicates, redeliveries, timed-out jobs and deadlocking cancellations settle each order once |
| `worker_stop` | `NoneLost`, `ParkedAfterRetries`, `RetriesBounded`, `EveryMessageEnds`, `StopEnds` | a worker with a DLQ, told to stop at any point of a batch, with an invalid body in it |
| `pipeline` | `NoStrayLocks`, `UnitsConserved`, `ImplementsShop`, `EveryCallAnswered`, `EveryEventEnds` | API and worker together, with deadlocks between cancellations and checkouts, one key or two, no DLQ |
| `admin_api` | `TokenLifetime`, `EveryProductStocked`, `PatchesKept`, `RestocksAddUp` | two admin calls over failing statements, lost connections, statements executed late, expiring tokens and restarts |
| `checkout_two_keys` | `OrderFromOpenCart` violated | section 6 |
| `checkout_pool` | `RefusalAnswered` violated | section 6 |
| `checkout_publish` | `EveryOrderPublished` violated | section 6 |
| `cart_closed` | `OnlyOpenCartsChange` violated | section 6 |
| `payment_parked` | `ParkedOrdersUnsettled` violated | section 6 |

### Bounds, and why they are enough

- *Checkout:* a race over a key needs two calls, and a third that waits behind
  them and takes the key over or replays; three calls also let one user's key be
  another's stock competitor. `AllCalls` holds a call, the same call under a
  second key, another user's call under that second key, and a call for somebody
  else's cart. `MaxQty` 2 with one-unit lines gives sold-out, exactly enough and
  more than enough, and a full integer column for `Restock`. One product is enough
  where lock order does not matter; `checkout_locks` and `pipeline` have two,
  the first with every non-empty combination of lines. `MaxRetries` 1 has a first, a
  last and a failed attempt. Two *different* payloads under one key
  are included: the code replays the saved response whatever the cart.
- *Cart:* three calls out of four kinds, two carts for the user who comes back
  after a checkout. `MaxQty` 4 lets the sum of adds overflow the column.
- *Payment:* `payment_duplicates` has two workers, two messages for one order and a
  third for an order of the same two products the other way round, one fault,
  batches of one and a retry ceiling of 1; `worker_stop` has one worker, batches
  of two with one invalid message, two faults (a stop and a timeout, say)
  and a ceiling of 2, so that a message is retried before it is given up.
  `MaxFaults` bounds how often something goes wrong in a behaviour
  (a throw, a lost answer, a timeout, an early visibility expiry, a crash, a stop);
  failures that are not faults (integer overflow, deadlock) are unbounded.
  `Receipts` ends at `MaxReceiveCount + MaxFaults` since a message that is
  received at the ceiling without a fault is given up.
- *Pipeline:* two calls whose carts hold the same two products in opposite order
  of insertion, under one key or two; one unit of each fits the column, so the second call
  either finds no stock, or a cancellation finds the column full again after a
  restock. API faults are not counted, the worker's are (`MaxFaults` 1).
  `MaxRetries` 0 here: more than one event per order is the matter of
  `payment_duplicates`.
- *Admin:* two calls over an old product with one unit and one that may be
  created; restocks of 1 and 2 and `MaxQty` 3, so that two restocks of one
  product both succeed or the second one overflows; patches of the old product set
  one of two prices, so that two patches of a column are told apart. `ExpiresIn` 2 seconds of two ticks each and
  `MaxClock` 5: the whole life of a token issued in mid-second. `MaxTokens`
  bounds the logins; two calls may share a token.
- No counter other than these is bounded: `queue` and `attempt` are bounded by
  the code's own retry limit, `dlq` by the faults.
- Symmetry is used over calls or workers in runs that check safety only.

Each property of a passing run comes with a mutant: a plausible bug, written
as an operator next to the definition it replaces, under which the run fails.

### Fairness

Only liveness runs use it.

- *Checkout:* `WF_vars(Step(r))` for each call. The event loop and the database
  resume a call whose statement can proceed; Postgres queues lock waiters, and
  weak fairness asks less than that. Nothing makes clients start calls
  (`Connect`), nor faults, crashes or restocks happen. `pipeline` gives
  the pool a client more than there are calls, since otherwise `EveryCallAnswered`
  is false (finding `checkout_pool`).
- *Payment:* `WF_vars(JobStep(c))`: a started transaction runs on.
  `WF_vars(WorkerStep(w))`: the loop polls, handles and answers; a crashed worker
  is replaced. `WF_vars(VisibilityExpires(m))`: SQS shows an undeleted message
  again once nobody handles it.

- *WorkerShutdown:* as in `Payment` for `LoopStep`, `JobProceeds` and `Reappeared`,
  and `WF` of `EndPool` (the grace period passes) and of `Exit` (`pool.end()`
  resolves, the process is restarted). Nothing makes a signal come.
- *Pipeline:* weak fairness of the *disjunction* over all calls, over all jobs,
  over all workers and over all hidden messages: of those that can go on, one
  does. This is less than the two modules assume, and enough because the
  instance starts finitely many calls. Postgres resolves deadlocks (`WF` of
  `DeadlockVictim`).
- `EveryCallAnswered` speaks of calls that have their connection, and a crashed
  process counts as an end: the client sees its connection closed.

## 4. Proofs

Every safety property, action property and refinement that a passing run
checks on its instance is also a theorem, for arbitrary sets of calls, users,
keys, carts, products, orders, messages and workers and any bounds.

### Assumptions

TLC evaluates all of them in the runs.

- `ConstantsOK` of each module: the types of the constants. A call's quantity is
  positive, as the validation has it.
- `SpecialValues` of `Checkout`, `HoldersApart` of `Pipeline`: the values for "none",
  "placeholder" and "error" are distinct and no calls, and calls and jobs, which
  both hold stock locks in `Pipeline`, are not each other.
- `FinitelyMany` of `Checkout` (products) and `Cart` (calls and carts): sums range
  over these, and the lock order of the stock needs a last row.
- `OneRowPerProduct` of `Payment`: an order names a product in one line, since a
  cart has one row per product (the unique index of `cart_items`). The model
  locks and checks a row for one line of the order and adds its units at the
  commit, which is only then what the code's UPDATEs add up to.
- `InputsOK` of `AdminApi`: creations carry all columns, patches some, restocks a
  positive quantity.

### Checkout

`CheckoutProofs` proves `Spec => []IInv` and from it `TypeCorrect`, `OneOrder`,
`Atomicity`, `SameReply`, `StockCovered` and `MessagesHaveOrders`.
The properties are not inductive. From `OneOrderPerKey` alone nothing
says that a call about to commit is not the second one for its key: that it is
the first was decided when it found no response and kept the key's lock. `IInv`
therefore adds

- `KeyHeld`: a call between its key's SELECT and its COMMIT holds the key's row,
  and nothing is saved under the key;
- `SavedIsOrder`, `OrderIsSaved`: the committed tables agree in both
  directions;
- `PublishHasOrder`: a publishing call has committed.

The steps: `TypeStep` (with `StockStaysCovered`, which keeps `avail` in its range
at a commit), `OnlyCommitWrites` (apart from commits no action changes
the key, order and cart tables, so the DELETE of the catch block never
finds a row: no placeholder is ever committed), `KeyStep`, `SavedStep`,
`PublishStep`, `StockStep` and `ReplyStep`.

`DeadlockFree` is `[]NoLockCycle`. `LInv` says which phases may hold a lock of each
tier (key, stock, cart), and that the rows a call holds while it still locks
stock are all those it wants below the next. In a set of calls that all wait for
one another nobody waits for a cart, whose holder takes no further lock; those
that wait for a key wait for a call that waits for stock; and the one that waits
for the stock row with the highest id waits for a call that waits for a higher
one.

`Conservation` is `[]StockConserved`: `CInv` adds to `IInv` that the placed orders
are finitely many, so that their sum is defined by what it adds.

`CheckoutRefinement` proves `Spec => ImplementsBook`. The mapping reads the
order under a key from `idem`, the stock from `avail`, the answer from `reply`.
It needs two more invariants: a call is answered as its last act
(`AnsweredLast`), and what a call buys is a non-empty content of a cart
(`LinesRead`). A commit, acknowledged or not, is `Place`; an answer is `Accept`
or `Refuse`; a restock is `Restock`; everything else stutters.

### Cart

`CInv` proves `TypeCorrect`, `OneOpenCart` and `ConflictExplained`. That a second
look comes up empty only after a checkout depends on what the first statement
met: `WinnerExists` keeps, between the two, that the cart which beat the call was
not closed when the call began and still exists, open or closed. `UInv` adds
that a call moves units only as it ends (`MovedLast`), from which `UnitsAdd`
follows: each step changes at most one term of each sum by the same quantity.

### Payment

`PInv` proves `TypeCorrect`, `NoMessageLost`, `ParkedLate`, the action property
`SettledForGood` and, since these facts are what the mapping needs, the
`Refinement` to `Settlement`. Two decisions are made early and used late:

- `OrderHeld`: a job past its SELECT FOR UPDATE holds its order, which is still
  pending, so no duplicate and no timed-out job settles it twice;
- `MessageKnown`: what the worker knows of its message at each phase (the order is
  settled before the delete, the receive count is at the ceiling before the send,
  a copy is parked before the purge), although jobs go on beside it;
- `ReceiptsFresh`: SQS never hands out one receipt twice, so an answer belongs to
  the delivery it is taken for;
- `StockFits`: a row locked by a cancellation has room for its units.

### The worker's stop

`WorkerShutdown` adds actions to all of `Payment`'s, and `ShutdownProofs` shows that
they keep `PInv` (`StopLosesNone`, `StopParksLate`). `RetriesAccounted` is about
counts: a fault allows one more delivery, and a stop is charged when the signal
comes although messages are lost only at the exit. `TriesInv` counts deliveries
together with the stopping workers, and asks for one less of a message that may
be delivered again.

### Pipeline

`HInv` says of every transaction what it holds. It repeats `KeyHeld` and
`OrderHeld` for the shared tables, where an order does not stay pending and a
lock may be a job's, and adds

- `Covered`: after a checkout's stock check its rows stay locked and sufficient,
  although jobs put units back;
- `LinesAreRows`: the lines an order was placed with are the rows of its cart,
  which is what a cancellation puts back;
- `NoStrayLocks`: itself inductive once a job's phase is tied to its locks.

The actions of the two programs are first reduced to a few shapes (`ApiMoves`,
`WorkerMoves`), each saying what a step of that kind may do to the shared tables;
the invariant is proved against the shapes. From it come `LocksEnd`,
`UnitsStay` (a sum over the orders not cancelled) and `ShopRefinement`: a commit of a
checkout is `Place`, of a job `Settle`, a restock is `Restock`, the rest stutters.

### Administration

`AInv` proves `Lifetime`, `ProductsStocked` and `PatchesStay`. A token's lifetime is
a matter of whole seconds against ticks (`TokensDated`). For patches, an
acknowledged call has been executed (`OnItsWay`), so one that Postgres executes
only now is in nobody's `earlier`; and nobody patches a product before its
creation has run (`BornFirst`). `BInv` adds the exact sum: the
stock is what was there plus the restocks *executed* (`ExactlyOnce`), for finitely
many calls sent. `Restocks` follows (`Between`), since the calls executed lie
between those acknowledged and those that may have been.

### Sums

The invariants that add up quantities use `SumFunctionOnSet` of the community
modules, a recursive function over subsets. `SumTheorems` proves what a sum does
when a member is added or one term changes, that a sum of naturals is one, and
that it grows with the set. Induction over the set is out of reach (the library's induction
theorems take an operator as a parameter); instead, a set for which the law
fails would have a smallest subset for which it fails, by the well-foundedness
of the strict subset relation on finite sets, and that one contradicts itself.

### Only model-checked

Liveness: `EveryCallAnswered`, `EveryMessageEnds`, `EveryEventEnds` and `StopEnds`.
Fairness and ENABLED are beyond the prover. The five properties the code
violates (section 6) are counterexamples, with nothing to prove.

## 5. What is left out

- Prices and totals. `total_price` is `decimal(10,2)` against products' `decimal(12,2)`
  and is computed from prices read with the cart; no state but the order
  depends on it. An overflow of it is one of the failures of `QueryFails`.
- Request validation (types and presence of ids, quantities, the header):
  answered before any state is touched. Products are never deleted, so the cart's
  product lookup finds what it found before.
- Delays: poll waits, publish backoff, request timeouts. An HTTP timeout
  does not stop a call; the client that gives up and retries is another call.
- The API's pool limit outside `checkout_pool`: `pipeline` has a client more than
  calls, so its liveness says nothing of a full pool (hazard of the catch block).
- The worker's pool limit: one job at a time per worker and timed-out ones on top
  stay below its ten clients in the situations modelled.
- The graceful part of the API's shutdown: `server.close` lets calls finish before
  the pool ends, which is a behaviour without a crash; its forced exit is `Crash`.
- The unique ids of `order_items` lines: a cart has one row per product, hence
  so has an order.
- Repair of a product whose creation stopped half-way: no operation of the API
  inserts the missing inventory row, a second creation is refused by the sku's
  unique index, a restock is answered 404. `EveryProductStocked` therefore
  claims only that such a creation was never reported as done.
- What a token looks like: base64, JSON, HMAC. A signature is the secret it was
  made with. `nbf` is checked by the code and never issued.
- The variants of `createOrderWithItems` and `decreaseInventoryForCheckout` that
  open a transaction of their own: no caller uses them.
- Order queries and the other reads, HTTP routing and logging: no state of
  their own; see the notes of the components in `PROJECT.json`.

## 6. Where the code and its documentation disagree

1. *One cart, two orders* (`checkout_two_keys`). The cart's status is checked
   on an unlocked read (`checkout.service.js:41`) and set without a condition
   (`order.repo.js:69`). Two calls for one cart under two keys both commit.
2. *A full pool of refused calls stops the API* (`checkout_pool`). The catch
   block's DELETE needs a second client (`checkout.service.js:95`) before the
   first is released in `finally`.
3. *Orders without an event* (`checkout_publish`). `README.md:38` has the API publish
   every order; a failed publication is only logged, a lost COMMIT answer or a
   crash skips it, and a retry returns the saved response without publishing.
4. *Items in closed carts* (`cart_closed`). `README.md:191` adds to the user's *open*
   cart; find and write are two statements.
5. *Settled orders in the DLQ* (`payment_parked`). `README.md:42` parks messages
   whose processing keeps failing; the catch also covers the
   DeleteMessage after a successful settlement and a lost COMMIT answer.

## 7. Plan

Done: `OrderBook`, `Checkout`; `Cart`; `Settlement`, `Payment`;
`WorkerShutdown`; `Shop`, `Pipeline`; `Auth`, `Catalog`, `AdminApi`; their runs;
and a theorem for every safety property, action property and refinement that a
passing run checks.

Next:

1. `Storefront`: `Cart` and `Checkout` over the same carts: which items go
   missing between a checkout's read and its commit.
2. Theorems no run asks for and a reader would: `Payment` under `WorkerShutdown`
   still implements `Settlement`; `OneOrderPerKey` and `AllOrNothing` in
   `Pipeline`, where orders do not stay pending.
3. The locks of `Pipeline`: which circles of waiting calls and jobs are
   possible at all, as the counterpart of `DeadlockFree`.

## 8. Running

    tlc -workers 2 -config CheckoutSafety.cfg MCCheckout.tla
    for m in SumTheorems CheckoutProofs CheckoutRefinement CartProofs PaymentProofs \
             ShutdownProofs PipelineProofs AdminProofs; do tlapm $m.tla; done

`PROJECT.json` lists the module and configuration of every run; the slowest
passing one takes two to three minutes with two workers, the longest proof
(`PipelineProofs`) about as long.
