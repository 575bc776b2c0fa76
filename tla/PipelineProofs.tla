----------------------------- MODULE PipelineProofs -----------------------------
(***************************************************************************)
(* Proofs about Pipeline, the API and the workers together, for any number *)
(* of calls, workers, messages and products.                               *)
(*                                                                         *)
(* Checkout and Payment meet in the orders, the stock and the locks on it. *)
(* HInv says of each transaction, whichever program runs it, what it holds *)
(* and what that protects: a checkout's key until it has an order, the     *)
(* rows its lines were checked on, the order a job is about to settle.     *)
(***************************************************************************)
EXTENDS Pipeline, SumTheorems

-----------------------------------------------------------------------------
(* The inductive invariant. *)

Receipts == P!Receipts
Order(c) == c[1][1]   \* the order a receipt's message names

Typed ==
  /\ idem \in [Keys -> Requests \cup {None, Placeholder}]
  /\ order \in [Requests -> {"none", "pending", "CONFIRMED", "CANCELLED"}]
  /\ avail \in [Products -> Nat] /\ stocked \in [Products -> Nat]
  /\ keyLock \in [Keys -> Requests \cup {None}]
  /\ stockLock \in [Products -> Requests \cup Receipts \cup {None}]
  /\ orderLock \in [Requests -> Receipts \cup {None}]
  /\ pc \in [Requests -> C!Phases]
  /\ arg \in [Requests -> Calls]
  /\ items \in [Requests -> [Products -> Nat]]
  /\ job \in [Receipts -> P!Phases]
  /\ batch \in [Workers -> SUBSET Receipts]
  /\ count \in [Messages -> Nat]

\* Nobody writes to the carts of this model: each call reads its cart's rows.
CartsAsFilled ==
  /\ cartItems = [c \in Carts |-> Line(c)] /\ cartItems \in [Carts -> Lines]
  /\ \A r \in Requests : C!Cart(r) = CartOf[r]

\* Past the SELECT FOR UPDATE of its key a call holds the key's row.
Holding == {"readCart", "lockStock", "markCart", "commit"}

\* A call working under a key holds its lock, and nothing is saved under it.
KeyHeld ==
  \A r \in Requests :
    /\ pc[r] \in Holding => keyLock[C!Key(r)] = r /\ idem[C!Key(r)] = None
    /\ pc[r] = "lockKey" /\ idem[C!Key(r)] = None => keyLock[C!Key(r)] = r

\* What is saved under a key is an order, and no placeholder.
SavedIsOrder == \A k \in Keys : idem[k] # None => idem[k] \in Requests

\* An order is saved under its key, whatever becomes of it.
OrderIsSaved == \A r \in Requests : order[r] # "none" => idem[C!Key(r)] = r

\* From its stock check on a call holds the rows, and they cover its lines,
\* although jobs and restocks add to others.
Checked == {"markCart", "commit"}
Covered ==
  \A r \in Requests : pc[r] \in Checked =>
    \A p \in C!Wanted(r) : stockLock[p] = r /\ items[r][p] <= avail[p]

\* A call's lines, and its order's items, are its cart's rows: a cancellation
\* puts back what the checkout took.
LinesAreRows ==
  \A r \in Requests :
    pc[r] \in {"lockStock"} \cup Checked \/ order[r] # "none" => items[r] = Line(CartOf[r])

\* A job that settles an order holds it, and it is pending.
OrderHeld ==
  \A c \in Receipts : job[c] \in {"restore", "confirm"} =>
    orderLock[Order(c)] = c /\ order[Order(c)] = "pending"

\* A receipt is used once.
ReceiptsFresh ==
  /\ \A c \in Receipts : job[c] # "none" => c[2] <= count[c[1]]
  /\ \A w \in Workers : \A c \in batch[w] : job[c] = "none" /\ c[2] <= count[c[1]]
  /\ \A w, v \in Workers : w # v => batch[w] \cap batch[v] = {}

\* Orders are finitely many at any time.
Sold == {r \in Requests : order[r] \in {"pending", "CONFIRMED"}}

HInv ==
  /\ Typed /\ CartsAsFilled
  /\ KeyHeld /\ SavedIsOrder /\ OrderIsSaved
  /\ Covered /\ LinesAreRows
  /\ OrderHeld /\ ReceiptsFresh
  /\ NoStrayLocks
  /\ IsFiniteSet(Sold) /\ UnitsConserved

-----------------------------------------------------------------------------
(* The steps of the API, by what they do to orders, stock and locks. *)

\* The phases in which a call may hold stock rows.
Locking == {"lockStock", "markCart", "commit", "rollback"}

\* Call r goes on to a phase: what it must have to be there.
Walks(r, phase) ==
  /\ pc' = [pc EXCEPT ![r] = phase]
  /\ UNCHANGED <<idem, order, avail, stocked, stockLock>>
  /\ \/ items' = items
     \/ pc[r] = "readCart" /\ items' = [items EXCEPT ![r] = cartItems[C!Cart(r)]]
  /\ \/ keyLock' = keyLock
     \/ keyLock[C!Key(r)] = None /\ keyLock' = [keyLock EXCEPT ![C!Key(r)] = r]
  /\ phase \in Holding =>
       pc[r] \in Holding \/ (keyLock'[C!Key(r)] = r /\ idem[C!Key(r)] = None)
  /\ phase = "lockKey" /\ idem[C!Key(r)] = None => keyLock'[C!Key(r)] = r
  /\ pc[r] \in Locking => phase \in Locking
  /\ phase \in Checked =>
       pc[r] \in Checked \/ (pc[r] # "readCart" /\ C!StockHeld(r) /\ C!Covered(r))
  /\ phase \in {"lockStock"} \cup Checked =>
       \/ pc[r] \in {"lockStock"} \cup Checked
       \/ items' = [items EXCEPT ![r] = cartItems[C!Cart(r)]]

\* Call r locks the next stock row.
LocksRow(r, p) ==
  /\ pc[r] = "lockStock" /\ stockLock[p] = None
  /\ stockLock' = [stockLock EXCEPT ![p] = r]
  /\ UNCHANGED <<idem, order, avail, stocked, keyLock, pc, items>>

Commits(r, phase) ==
  /\ pc[r] = "commit" /\ phase \in {"publish", "broken"}
  /\ C!CommitTables(r)
  /\ pc' = [pc EXCEPT ![r] = phase]
  /\ UNCHANGED <<items, stocked>>

\* The transactions of some calls end without a commit.
Ends(gone) ==
  /\ C!EndTxns(gone)
  /\ pc' \in [Requests -> C!Phases]
  /\ \A r \in Requests \ gone : pc'[r] = pc[r]
  /\ \A r \in gone : pc'[r] \notin Holding \cup Locking \cup {"lockKey"}
  /\ UNCHANGED <<idem, order, avail, stocked, items>>

Restocks(p, qty) ==
  /\ avail[p] + qty <= MaxQty
  /\ avail' = [avail EXCEPT ![p] = @ + qty]
  /\ stocked' = [stocked EXCEPT ![p] = @ + qty]
  /\ UNCHANGED <<idem, order, keyLock, stockLock, pc, items>>

ApiMoves ==
  /\ UNCHANGED <<arg, cartItems, orderLock, job, batch, count>>
  /\ \/ \E r \in Requests, phase \in C!Phases : Walks(r, phase) \/ Commits(r, phase)
     \/ \E r \in Requests, p \in Products : LocksRow(r, p)
     \/ \E gone \in SUBSET Requests : Ends(gone)
     \/ \E p \in Products, qty \in 1..MaxQty : Restocks(p, qty)

\* What holds of every call: it is typed, and its lookups are in range.
LEMMA CallTyped ==
  ASSUME Typed, NEW r \in Requests
  PROVE  C!Key(r) \in Keys /\ C!Cart(r) \in Carts /\ pc[r] \in C!Phases
<1>1. arg[r] \in [user : Users, cart : Carts, key : Keys]
  BY ConstantsOK DEF Typed
<1> QED
  BY <1>1 DEF Typed, C!Key, C!Cart

\* A call's own step: it walks on, locks a row, commits or ends.
LEMMA CallMoves ==
  ASSUME Typed, KeyHeld, SavedIsOrder, NEW r \in Requests,
         C!Connect(r) \/ C!Step(r) \/ C!Fault(r)
  PROVE  /\ UNCHANGED <<arg, cartItems>>
         /\ \/ \E phase \in C!Phases : Walks(r, phase) \/ Commits(r, phase)
            \/ \E p \in Products : LocksRow(r, p)
            \/ Ends({r})
<1> USE HoldersApart, CallTyped
    DEF C!tables, C!locks, C!Goto, C!Answer, Locking, Holding, Checked,
        C!Phases, C!WithClient, C!InTxn, C!Over
<1> DEFINE Goal == /\ UNCHANGED <<arg, cartItems>>
                   /\ \/ \E phase \in C!Phases : Walks(r, phase) \/ Commits(r, phase)
                      \/ \E p \in Products : LocksRow(r, p)
                      \/ Ends({r})
<1>1. CASE C!Connect(r)
  <2>1. Walks(r, "insertKey") /\ UNCHANGED <<arg, cartItems>>
    BY <1>1 DEF C!Connect, Walks
  <2> QED
    BY <2>1
<1>2. CASE C!InsertKey(r)
  <2>1. Walks(r, "lockKey") /\ UNCHANGED <<arg, cartItems>>
    BY <1>2 DEF C!InsertKey, C!KeyFree, Walks, Typed
  <2> QED
    BY <2>1
<1>3. CASE C!LockKey(r)
  <2>1. CASE idem[C!Key(r)] \in Requests
    <3>1. Walks(r, "done") /\ UNCHANGED <<arg, cartItems>>
      BY <1>3, <2>1 DEF C!LockKey, Walks
    <3> QED
      BY <3>1
  <2>2. CASE idem[C!Key(r)] \notin Requests
    <3>1. idem[C!Key(r)] = None /\ keyLock[C!Key(r)] = r
      BY <1>3, <2>2 DEF C!LockKey, SavedIsOrder, KeyHeld
    <3>2. keyLock' = keyLock
      BY <1>3, <2>2, <3>1 DEF C!LockKey, Typed
    <3>3. Walks(r, "readCart") /\ UNCHANGED <<arg, cartItems>>
      BY <1>3, <2>2, <3>1, <3>2 DEF C!LockKey, Walks
    <3> QED
      BY <3>3
  <2> QED
    BY <2>1, <2>2
<1>4. CASE C!ReadCart(r)
  <2>1. Walks(r, "lockStock") \/ Walks(r, "rollback")
    BY <1>4 DEF C!ReadCart, Walks
  <2>2. UNCHANGED <<arg, cartItems>>
    BY <1>4 DEF C!ReadCart
  <2> QED
    BY <2>1, <2>2
<1>5. CASE \E p \in Products : C!LockStock(r, p)
  BY <1>5 DEF C!LockStock, LocksRow
<1>6. CASE C!DecreaseStock(r)
  <2>1. Walks(r, "markCart") \/ Walks(r, "rollback")
    BY <1>6 DEF C!DecreaseStock, Walks
  <2>2. UNCHANGED <<arg, cartItems>>
    BY <1>6 DEF C!DecreaseStock
  <2> QED
    BY <2>1, <2>2
<1>7. CASE C!MarkCart(r)
  <2>1. Walks(r, "commit") /\ UNCHANGED <<arg, cartItems>>
    BY <1>7 DEF C!MarkCart, Walks
  <2> QED
    BY <2>1
<1>8. CASE C!Commit(r) \/ C!CommitUnacked(r)
  <2>1. Commits(r, "publish") \/ Commits(r, "broken")
    BY <1>8 DEF C!Commit, C!CommitUnacked, Commits
  <2>2. UNCHANGED <<arg, cartItems>>
    BY <1>8 DEF C!Commit, C!CommitUnacked
  <2> QED
    BY <2>1, <2>2
<1>9. CASE C!PublishSkipped(r) \/ C!SendOk(r) \/ C!RollbackThrows(r)
  <2>1. Walks(r, "done") /\ UNCHANGED <<arg, cartItems>>
    BY <1>9 DEF C!PublishSkipped, C!SendOk, C!RollbackThrows, Walks
  <2> QED
    BY <2>1
<1>10. CASE C!SendFails(r)
  <2>1. pc' = [pc EXCEPT ![r] = "done"] \/ pc' = [pc EXCEPT ![r] = "publish"]
    BY <1>10 DEF C!SendFails, Typed
  <2>2. Walks(r, "done") \/ Walks(r, "publish")
    BY <1>10, <2>1 DEF C!SendFails, Walks
  <2>3. UNCHANGED <<arg, cartItems>>
    BY <1>10 DEF C!SendFails
  <2> QED
    BY <2>2, <2>3
<1>11. CASE C!Cleanup(r)
  <2>1. idem[C!Key(r)] # Placeholder
    BY DEF SavedIsOrder
  <2>2. idem' = idem
    BY <1>11, <2>1 DEF C!Cleanup, C!InProgress, Typed
  <2>3. Walks(r, "done") /\ UNCHANGED <<arg, cartItems>>
    BY <1>11, <2>2 DEF C!Cleanup, Walks
  <2> QED
    BY <2>3
<1>12. CASE C!QueryFails(r)
  <2>1. Walks(r, "rollback") /\ UNCHANGED <<arg, cartItems>>
    BY <1>12 DEF C!QueryFails, Walks
  <2> QED
    BY <2>1
<1>13. CASE C!Rollback(r) \/ C!ConnectionLost(r)
  <2>1. Ends({r}) /\ UNCHANGED <<arg, cartItems>>
    BY <1>13 DEF C!Rollback, C!ConnectionLost, Ends, Typed
  <2> QED
    BY <2>1
<1> QED
  BY <1>1, <1>2, <1>3, <1>4, <1>5, <1>6, <1>7, <1>8, <1>9, <1>10, <1>11, <1>12, <1>13
     DEF C!Step, C!Fault

\* The API's steps, calls and all.
LEMMA ApiSteps ==
  ASSUME Typed, KeyHeld, SavedIsOrder,
         \/ Api
         \/ \E r \in Requests : CallStep(r) \/ (C!QueryFails(r) /\ UNCHANGED <<worker, place, faults>>)
  PROVE  ApiMoves
<1> USE DEF worker
<1>1. ASSUME NEW r \in Requests, C!Connect(r) \/ C!Step(r) \/ C!Fault(r), UNCHANGED worker
      PROVE  ApiMoves
  <2>1. /\ UNCHANGED <<arg, cartItems>>
        /\ \/ \E phase \in C!Phases : Walks(r, phase) \/ Commits(r, phase)
           \/ \E p \in Products : LocksRow(r, p)
           \/ Ends({r})
    BY <1>1, CallMoves
  <2>2. {r} \in SUBSET Requests
    OBVIOUS
  <2> QED
    BY <1>1, <2>1, <2>2 DEF ApiMoves
<1>2. ASSUME C!Crash, UNCHANGED worker PROVE ApiMoves
  <2> DEFINE down == {r \in Requests : pc[r] \in C!WithClient}
  <2>1. Ends(down) /\ UNCHANGED <<arg, cartItems>>
    BY <1>2 DEF C!Crash, Ends, Typed, C!tables, C!Phases, C!Over, Locking, Holding
  <2> QED
    BY <1>2, <2>1 DEF ApiMoves
<1>3. ASSUME NEW p \in Products, NEW qty \in 1..MaxQty, C!Restock(p, qty), UNCHANGED worker
      PROVE  ApiMoves
  <2>1. Restocks(p, qty) /\ UNCHANGED <<arg, cartItems>>
    BY <1>3 DEF C!Restock, Restocks, C!locks
  <2> QED
    BY <1>3, <2>1 DEF ApiMoves
<1> QED
  BY <1>1, <1>2, <1>3 DEF Api, CallStep, C!Fault

-----------------------------------------------------------------------------
(* The steps of the workers. *)

\* A job locks its order, and may go on to settle it.
LocksOrder(c) ==
  /\ job[c] = "lock"
  /\ \/ job' = [job EXCEPT ![c] = "ok"] /\ UNCHANGED orderLock
     \/ /\ orderLock[Order(c)] = None /\ order[Order(c)] = "pending"
        /\ orderLock' = [orderLock EXCEPT ![Order(c)] = c]
        /\ \E phase \in {"restore", "confirm"} : job' = [job EXCEPT ![c] = phase]
  /\ UNCHANGED <<order, avail, stockLock, batch, count>>

\* A job locks a stock row.
TakesRow(c) ==
  /\ job[c] = "restore"
  /\ \E p : stockLock[p] = None /\ stockLock' = [stockLock EXCEPT ![p] = c]
  /\ UNCHANGED <<order, avail, orderLock, job, batch, count>>

\* The transactions of some jobs end without a commit.
Fails(gone) ==
  /\ P!EndTxns(gone)
  /\ job' = [c \in Receipts |-> IF c \in gone THEN "failed" ELSE job[c]]
  /\ batch' = batch \/ \E w \in Workers : batch' = [batch EXCEPT ![w] = {}]
  /\ UNCHANGED <<order, avail, count>>

Settles(c, phase) ==
  /\ P!Settle(c)
  /\ phase \in {"ok", "failed"} /\ job' = [job EXCEPT ![c] = phase]
  /\ UNCHANGED <<batch, count>>

\* A worker starts the job of a receipt of its batch.
Starts(w, c) ==
  /\ c \in batch[w]
  /\ batch' = [batch EXCEPT ![w] = @ \ {c}]
  /\ job' = [job EXCEPT ![c] = "lock"]
  /\ UNCHANGED <<order, avail, orderLock, stockLock, count>>

\* SQS hands out messages, to a worker or in a response that is lost.
HandsOut(S) ==
  /\ S \in SUBSET Messages
  /\ \A m \in S : <<m, count[m] + 1>> \in Receipts
  /\ count' = [m \in Messages |-> IF m \in S THEN count[m] + 1 ELSE count[m]]
  /\ \/ batch' = batch
     \/ \E w \in Workers : batch' = [batch EXCEPT ![w] = {<<m, count[m] + 1>> : m \in S}]
  /\ UNCHANGED <<order, avail, orderLock, stockLock, job>>

InTxn == {c \in Receipts : job[c] \in P!InTxn}

WorkerMoves ==
  /\ UNCHANGED <<idem, keyLock, pc, arg, items, cartItems, stocked>>
  /\ \/ \E c \in Receipts : LocksOrder(c) \/ TakesRow(c)
     \/ \E c \in Receipts, phase \in {"ok", "failed"} : Settles(c, phase)
     \/ \E gone \in SUBSET InTxn : Fails(gone)
     \/ \E w \in Workers, c \in Receipts : Starts(w, c)
     \/ \E S \in SUBSET Messages : HandsOut(S)
     \/ UNCHANGED <<order, avail, orderLock, stockLock, job, batch, count>>

\* A receipt names a message, that names an order.
LEMMA ReceiptNames ==
  ASSUME NEW c \in Receipts
  PROVE  /\ P!Msg(c) = c[1] /\ c[1] \in Messages /\ c[2] \in Nat /\ c = <<c[1], c[2]>>
         /\ P!Order(c) = Order(c) /\ Order(c) \in Requests
         /\ c \notin Requests /\ c # None
<1>1. c[1] \in Messages /\ c[2] \in Nat /\ c = <<c[1], c[2]>>
  BY ConstantsOK DEF Receipts, P!Receipts
<1>2. c[1][1] \in Requests
  BY <1>1 DEF Messages
<1> QED
  BY <1>1, <1>2, HoldersApart DEF P!Msg, P!Order, Order, Receipts

\* A failing job rolls back and leaves the rest to the other transactions.
LEMMA FailMoves ==
  ASSUME Typed, NEW c \in InTxn, P!EndTxns({c}), P!JobTo(c, "failed"),
         UNCHANGED <<order, avail, batch, count>>
  PROVE  \E gone \in SUBSET InTxn : Fails(gone)
<1>1. job' = [d \in Receipts |-> IF d \in {c} THEN "failed" ELSE job[d]]
  BY DEF P!JobTo, Typed, InTxn
<1>2. Fails({c}) /\ {c} \in SUBSET InTxn
  BY <1>1 DEF Fails
<1> QED
  BY <1>2

LEMMA JobMoves ==
  ASSUME Typed, UNCHANGED api, NEW c \in Receipts,
         P!JobStep(c) \/ P!JobFails(c) \/ P!CommitUnacked(c)
  PROVE  WorkerMoves
<1> USE DEF api, worker, P!tables, P!locks, P!sqs, P!worker, P!InTxn, InTxn
<1>1. CASE P!LockOrder(c)
  <2>1. LocksOrder(c)
    BY <1>1, ReceiptNames DEF P!LockOrder, P!OrderFree, P!Pending, P!JobTo, LocksOrder
  <2> QED
    BY <2>1 DEF WorkerMoves
<1>2. ASSUME NEW i, i \in DOMAIN P!Items(c), P!RestoreItem(c, i) PROVE WorkerMoves
  <2>1. job[c] = "restore" /\ UNCHANGED <<order, avail, batch, count>>
    BY <1>2 DEF P!RestoreItem, P!NextItem
  <2>2. CASE P!Fits(P!Items(c)[i])
    <3>1. TakesRow(c)
      BY <1>2, <2>1, <2>2 DEF P!RestoreItem, TakesRow
    <3> QED
      BY <3>1 DEF WorkerMoves
  <2>3. CASE ~P!Fits(P!Items(c)[i])
    <3>1. P!EndTxns({c}) /\ P!JobTo(c, "failed") /\ c \in InTxn
      BY <1>2, <2>1, <2>3 DEF P!RestoreItem
    <3> QED
      BY <2>1, <3>1, FailMoves DEF WorkerMoves
  <2> QED
    BY <2>2, <2>3
<1>3. CASE P!CommitJob(c) \/ P!CommitUnacked(c)
  <2>1. Settles(c, "ok") \/ Settles(c, "failed")
    BY <1>3 DEF P!CommitJob, P!CommitUnacked, P!JobTo, Settles
  <2> QED
    BY <2>1 DEF WorkerMoves
<1>4. CASE P!JobFails(c) \/ P!DeadlockVictim(c)
  <2>1. c \in InTxn
    BY <1>4 DEF P!JobFails, P!DeadlockVictim
  <2>2. P!EndTxns({c}) /\ P!JobTo(c, "failed") /\ UNCHANGED <<order, avail, batch, count>>
    BY <1>4 DEF P!JobFails, P!DeadlockVictim, P!Aborted
  <2> QED
    BY <2>1, <2>2, FailMoves DEF WorkerMoves
<1> QED
  BY <1>1, <1>2, <1>3, <1>4 DEF P!JobStep

LEMMA LoopMoves ==
  ASSUME Typed, UNCHANGED api, NEW w \in Workers,
         \/ P!WorkerStep(w) \/ P!ReceiveLost(w) \/ P!TimesOut(w)
         \/ P!DeleteFails(w) \/ P!SendToDlqFails(w) \/ P!Crash(w)
  PROVE  WorkerMoves
<1> USE DEF api, worker, P!tables, P!locks, P!sqs, P!worker
<1>1. CASE P!Receive(w) \/ P!ReceiveLost(w)
  <2>1. PICK S \in SUBSET Messages :
          /\ P!HandOut(S)
          /\ batch' = batch \/ batch' = [batch EXCEPT ![w] = {<<m, count[m] + 1>> : m \in S}]
    BY <1>1 DEF P!Receive, P!ReceiveLost
  <2>2. UNCHANGED <<order, avail, orderLock, stockLock, job>>
    BY <1>1 DEF P!Receive, P!ReceiveLost
  <2>3. HandsOut(S)
    BY <2>1, <2>2 DEF P!HandOut, HandsOut, Receipts
  <2> QED
    BY <2>3 DEF WorkerMoves
<1>2. CASE P!Begin(w)
  <2>1. PICK c \in batch[w] :
          /\ batch' = [batch EXCEPT ![w] = @ \ {c}]
          /\ P!Order(c) # Invalid => job' = [job EXCEPT ![c] = "lock"]
    BY <1>2 DEF P!Begin, P!Take, P!JobTo
  <2>2. c \in Receipts
    BY DEF Typed
  <2>3. P!Order(c) # Invalid
    BY <2>2, ReceiptNames, HoldersApart
  <2>4. UNCHANGED <<order, avail, orderLock, stockLock, count>>
    BY <1>2 DEF P!Begin, P!Take
  <2>5. Starts(w, c)
    BY <2>1, <2>3, <2>4 DEF Starts
  <2> QED
    BY <2>2, <2>5 DEF WorkerMoves
<1>3. CASE P!Crash(w)
  <2>1. Fails(P!Running(w))
    BY <1>3 DEF P!Crash, P!NewProcess, Fails, Receipts
  <2>2. P!Running(w) \in SUBSET InTxn
    BY DEF P!Running, InTxn, Receipts
  <2> QED
    BY <2>1, <2>2 DEF WorkerMoves
<1>4. CASE \/ P!BatchDone(w) \/ P!JobAnswers(w) \/ P!Delete(w) \/ P!SendToDlq(w)
           \/ P!TimesOut(w) \/ P!DeleteFails(w) \/ P!SendToDlqFails(w)
  <2>1. UNCHANGED <<order, avail, orderLock, stockLock, job, batch, count>>
    BY <1>4 DEF P!BatchDone, P!JobAnswers, P!Delete, P!SendToDlq, P!TimesOut, P!DeleteFails,
       P!SendToDlqFails
  <2> QED
    BY <2>1 DEF WorkerMoves
<1> QED
  BY <1>1, <1>2, <1>3, <1>4 DEF P!WorkerStep

\* The workers' steps, jobs, messages and all.
LEMMA WorkerSteps ==
  ASSUME Typed, UNCHANGED api,
         P!Consume \/ \E c \in InTxn : P!Aborted(c)
  PROVE  WorkerMoves
<1> USE DEF api, worker, P!tables, P!locks, P!sqs, P!worker
<1>1. ASSUME NEW m, P!VisibilityExpires(m) \/ P!ExpiresEarly(m) PROVE WorkerMoves
  BY <1>1 DEF P!VisibilityExpires, P!ExpiresEarly, P!Reappears, WorkerMoves
<1>2. ASSUME NEW c \in InTxn, P!Aborted(c) PROVE WorkerMoves
  BY <1>2, FailMoves DEF P!Aborted, WorkerMoves
<1> QED
  BY <1>1, <1>2, JobMoves, LoopMoves DEF P!Consume, Receipts

\* Every step is the API's or a worker's, or changes nothing.
LEMMA Steps ==
  ASSUME Typed, KeyHeld, SavedIsOrder, [Next]_vars
  PROVE  ApiMoves \/ WorkerMoves
<1>1. ASSUME NEW t \in Requests \cup P!Receipts, DeadlockVictim(t) PROVE ApiMoves \/ WorkerMoves
  <2>1. CASE t \in Requests
    <3>1. C!QueryFails(t) /\ UNCHANGED <<worker, place, faults>>
      BY <1>1, <2>1, HoldersApart DEF DeadlockVictim
    <3> QED
      BY <2>1, <3>1, ApiSteps
  <2>2. CASE t \in P!Receipts
    <3>1. P!Aborted(t) /\ UNCHANGED api /\ t \in Waiting
      BY <1>1, <2>2, HoldersApart DEF DeadlockVictim
    <3>2. t \in InTxn
      BY <2>2, <3>1, HoldersApart DEF Waiting, InTxn, P!InTxn, Receipts
    <3> QED
      BY <3>1, <3>2, WorkerSteps
  <2> QED
    BY <2>1, <2>2
<1>2. CASE UNCHANGED vars
  BY <1>2 DEF vars, api, worker, WorkerMoves
<1> QED
  BY <1>1, <1>2, ApiSteps, WorkerSteps DEF Next, Quiet

-----------------------------------------------------------------------------
(* The invariant, part by part. *)

\* A settlement changes the order its job holds, and the stock by its items.
LEMMA SettleMoves ==
  ASSUME Typed, CartsAsFilled, OrderHeld, LinesAreRows, NEW c \in Receipts, P!Settle(c)
  PROVE  /\ job[c] \in {"confirm", "restore"} /\ Order(c) \in Requests
         /\ order[Order(c)] = "pending"
         /\ \/ job[c] = "confirm" /\ avail' = avail
               /\ order' = [order EXCEPT ![Order(c)] = "CONFIRMED"]
            \/ /\ order' = [order EXCEPT ![Order(c)] = "CANCELLED"]
               /\ avail' = [p \in Products |-> avail[p] + items[Order(c)][p]]
         /\ avail' \in [Products -> Nat] /\ \A p \in Products : avail'[p] >= avail[p]
<1>1. job[c] \in {"confirm", "restore"} /\ Order(c) \in Requests /\ P!Order(c) = Order(c)
  BY ReceiptNames DEF P!Settle
<1>2. order[Order(c)] = "pending"
  BY <1>1 DEF OrderHeld
<1>3. \A p \in Products : P!Units(Order(c), p) = items[Order(c)][p] /\ items[Order(c)][p] \in Nat
  <2>1. items[Order(c)] = Line(CartOf[Order(c)])
    BY <1>1, <1>2 DEF LinesAreRows
  <2>2. \A p \in Products : P!Units(Order(c), p) = Line(CartOf[Order(c)])[p]
    BY <1>1 DEF P!Units, Line
  <2> QED
    BY <1>1, <2>1, <2>2 DEF Typed
<1>4. CASE job[c] = "confirm" /\ avail' = avail /\ order' = [order EXCEPT ![Order(c)] = "CONFIRMED"]
  BY <1>1, <1>2, <1>4 DEF Typed
<1>5. CASE /\ order' = [order EXCEPT ![Order(c)] = "CANCELLED"]
           /\ avail' = [p \in Products |-> avail[p] + P!Units(Order(c), p)]
  <2>1. avail' = [p \in Products |-> avail[p] + items[Order(c)][p]]
    BY <1>3, <1>5
  <2>2. avail' \in [Products -> Nat] /\ \A p \in Products : avail'[p] >= avail[p]
    BY <1>3, <2>1 DEF Typed
  <2> QED
    BY <1>1, <1>2, <1>5, <2>1, <2>2
<1> QED
  BY <1>1, <1>4, <1>5 DEF P!Settle

\* A commit leaves no row below zero.
LEMMA CommitTypes ==
  ASSUME Typed, Covered, NEW r \in Requests, pc[r] = "commit", C!CommitTables(r)
  PROVE  /\ avail' = [p \in Products |-> avail[p] - items[r][p]]
         /\ avail' \in [Products -> Nat]
         /\ \A p \in Products : items[r][p] \in Nat /\ items[r][p] <= avail[p]
<1>1. \A p \in Products : items[r][p] \in Nat /\ items[r][p] <= avail[p]
  BY DEF Typed, Covered, C!Wanted, Checked
<1>2. avail' = [p \in Products |-> avail[p] - items[r][p]]
  BY DEF C!CommitTables
<1> QED
  BY <1>1, <1>2 DEF Typed

LEMMA TypedStep ==
  ASSUME HInv, ApiMoves \/ WorkerMoves
  PROVE  Typed'
<1> USE DEF HInv
<1>1. CASE ApiMoves
  <2> USE DEF ApiMoves
  <2>1. ASSUME NEW r \in Requests, NEW phase \in C!Phases, Walks(r, phase) PROVE Typed'
    <3>1. items' \in [Requests -> [Products -> Nat]]
      <4>1. cartItems[C!Cart(r)] \in [Products -> Nat]
        BY CallTyped, ConstantsOK DEF CartsAsFilled
      <4> QED
        BY <2>1, <4>1 DEF Walks, Typed
    <3>2. keyLock' \in [Keys -> Requests \cup {None}]
      BY <2>1 DEF Walks, Typed
    <3> QED
      BY <1>1, <2>1, <3>1, <3>2 DEF Walks, Typed
  <2>2. ASSUME NEW r \in Requests, NEW phase \in C!Phases, Commits(r, phase) PROVE Typed'
    <3>1. avail' \in [Products -> Nat]
      BY <2>2, CommitTypes DEF Commits
    <3>2. /\ keyLock' \in [Keys -> Requests \cup {None}]
          /\ stockLock' \in [Products -> Requests \cup Receipts \cup {None}]
      BY <2>2 DEF Commits, C!CommitTables, C!EndTxns, C!Freed, Typed
    <3>3. idem' \in [Keys -> Requests \cup {None, Placeholder}]
      BY <2>2 DEF Commits, C!CommitTables, C!Response, Typed
    <3> QED
      BY <1>1, <2>2, <3>1, <3>2, <3>3 DEF Commits, C!CommitTables, Typed
  <2>3. ASSUME NEW r \in Requests, NEW p \in Products, LocksRow(r, p) PROVE Typed'
    BY <1>1, <2>3 DEF LocksRow, Typed
  <2>4. ASSUME NEW gone \in SUBSET Requests, Ends(gone) PROVE Typed'
    <3>1. /\ keyLock' \in [Keys -> Requests \cup {None}]
          /\ stockLock' \in [Products -> Requests \cup Receipts \cup {None}]
      BY <2>4 DEF Ends, C!EndTxns, C!Freed, Typed
    <3> QED
      BY <1>1, <2>4, <3>1 DEF Ends, Typed
  <2>5. ASSUME NEW p \in Products, NEW qty \in 1..MaxQty, Restocks(p, qty) PROVE Typed'
    BY <1>1, <2>5, ConstantsOK DEF Restocks, Typed
  <2> QED
    BY <1>1, <2>1, <2>2, <2>3, <2>4, <2>5
<1>2. CASE WorkerMoves
  <2> USE DEF WorkerMoves
  <2>1. ASSUME NEW c \in Receipts, LocksOrder(c) PROVE Typed'
    <3>1. Order(c) \in Requests
      BY ReceiptNames
    <3>2. orderLock' \in [Requests -> Receipts \cup {None}]
      BY <2>1, <3>1 DEF LocksOrder, Typed
    <3>3. job' \in [Receipts -> P!Phases]
      <4>1. \E phase \in {"ok", "restore", "confirm"} : job' = [job EXCEPT ![c] = phase]
        BY <2>1 DEF LocksOrder
      <4> QED
        BY <4>1 DEF Typed, P!Phases, P!InTxn
    <3> QED
      BY <1>2, <2>1, <3>2, <3>3 DEF LocksOrder, Typed
  <2>2. ASSUME NEW c \in Receipts, TakesRow(c) PROVE Typed'
    <3>1. stockLock' \in [Products -> Requests \cup Receipts \cup {None}]
      BY <2>2 DEF TakesRow, Typed
    <3> QED
      BY <1>2, <2>2, <3>1 DEF TakesRow, Typed
  <2>3. ASSUME NEW c \in Receipts, NEW phase \in {"ok", "failed"}, Settles(c, phase) PROVE Typed'
    <3>1. /\ avail' \in [Products -> Nat]
          /\ order' \in [Requests -> {"none", "pending", "CONFIRMED", "CANCELLED"}]
      BY <2>3, SettleMoves DEF Settles, Typed
    <3>2. /\ orderLock' \in [Requests -> Receipts \cup {None}]
          /\ stockLock' \in [Products -> Requests \cup Receipts \cup {None}]
      BY <2>3 DEF Settles, P!Settle, P!EndTxns, P!Freed, Typed
    <3>3. job' \in [Receipts -> P!Phases]
      BY <2>3 DEF Settles, Typed, P!Phases
    <3> QED
      BY <1>2, <2>3, <3>1, <3>2, <3>3 DEF Settles, Typed
  <2>4. ASSUME NEW gone \in SUBSET InTxn, Fails(gone) PROVE Typed'
    <3>1. /\ orderLock' \in [Requests -> Receipts \cup {None}]
          /\ stockLock' \in [Products -> Requests \cup Receipts \cup {None}]
      BY <2>4 DEF Fails, P!EndTxns, P!Freed, Typed
    <3>2. job' \in [Receipts -> P!Phases] /\ batch' \in [Workers -> SUBSET Receipts]
      BY <2>4 DEF Fails, Typed, P!Phases
    <3> QED
      BY <1>2, <2>4, <3>1, <3>2 DEF Fails, Typed
  <2>5. ASSUME NEW w \in Workers, NEW c \in Receipts, Starts(w, c) PROVE Typed'
    BY <1>2, <2>5 DEF Starts, Typed, P!Phases, P!InTxn
  <2>6. ASSUME NEW S \in SUBSET Messages, HandsOut(S) PROVE Typed'
    <3>1. count' \in [Messages -> Nat] /\ batch' \in [Workers -> SUBSET Receipts]
      BY <2>6 DEF HandsOut, Typed
    <3> QED
      BY <1>2, <2>6, <3>1 DEF HandsOut, Typed
  <2>7. CASE UNCHANGED <<order, avail, orderLock, stockLock, job, batch, count>>
    BY <1>2, <2>7 DEF Typed
  <2> QED
    BY <1>2, <2>1, <2>2, <2>3, <2>4, <2>5, <2>6, <2>7
<1> QED
  BY <1>1, <1>2

\* No worker places an order.
LEMMA WorkersPlaceNone ==
  ASSUME HInv, WorkerMoves, NEW r \in Requests, order'[r] # "none"
  PROVE  order[r] # "none"
<1>1. ASSUME NEW c \in Receipts, NEW phase \in {"ok", "failed"}, Settles(c, phase)
      PROVE  order[r] # "none"
  BY <1>1, SettleMoves DEF HInv, Settles, Typed
<1> QED
  BY <1>1 DEF WorkerMoves, LocksOrder, TakesRow, Fails, Starts, HandsOut

\* The keys: of those who hold them only a commit saves an order.
LEMMA KeysStep ==
  ASSUME HInv, ApiMoves \/ WorkerMoves
  PROVE  CartsAsFilled' /\ KeyHeld' /\ SavedIsOrder' /\ OrderIsSaved'
<1> USE DEF HInv, C!Key, C!Cart
<1>0. /\ \A r \in Requests : arg[r].key \in Keys
      /\ arg' = arg /\ cartItems' = cartItems
  BY CallTyped DEF ApiMoves, WorkerMoves
<1>1. CartsAsFilled'
  BY <1>0 DEF CartsAsFilled
<1>2. ASSUME NEW r \in Requests, NEW phase \in C!Phases, Walks(r, phase)
      PROVE  KeyHeld' /\ SavedIsOrder' /\ OrderIsSaved'
  <2>1. \A s \in Requests \ {r} : pc'[s] = pc[s] /\ (keyLock[arg[s].key] = s => keyLock'[arg[s].key] = s)
    BY <1>0, <1>2, HoldersApart DEF Walks, Typed
  <2>2. pc'[r] = phase /\ (keyLock[arg[r].key] = r => keyLock'[arg[r].key] = r)
    BY <1>0, <1>2, HoldersApart DEF Walks, Typed
  <2>3. KeyHeld'
    BY <1>0, <1>2, <2>1, <2>2 DEF Walks, KeyHeld
  <2> QED
    BY <1>0, <1>2, <2>3 DEF Walks, SavedIsOrder, OrderIsSaved
<1>3. ASSUME NEW r \in Requests, NEW phase \in C!Phases, Commits(r, phase)
      PROVE  KeyHeld' /\ SavedIsOrder' /\ OrderIsSaved'
  <2>1. keyLock[arg[r].key] = r /\ idem[arg[r].key] = None /\ pc[r] = "commit"
    BY <1>3 DEF Commits, KeyHeld, Holding
  <2>2. idem' = [idem EXCEPT ![arg[r].key] = r] /\ order' = [order EXCEPT ![r] = "pending"]
    BY <1>3, <2>1 DEF Commits, C!CommitTables, C!Response
  <2>3. SavedIsOrder' /\ OrderIsSaved'
    BY <1>0, <2>1, <2>2, HoldersApart DEF SavedIsOrder, OrderIsSaved, Typed
  <2>4. \A s \in Requests \ {r} : keyLock[arg[s].key] = s => keyLock'[arg[s].key] = s
    BY <1>0, <1>3 DEF Commits, C!CommitTables, C!EndTxns, C!Freed, Typed
  <2>5. /\ pc'[r] \notin Holding \cup {"lockKey"}
        /\ \A s \in Requests \ {r} : pc'[s] = pc[s]
    BY <1>3 DEF Commits, Holding, Typed
  <2>6. \A s \in Requests \ {r} : /\ idem'[arg[s].key] = None => idem[arg[s].key] = None
                                  /\ keyLock[arg[s].key] = s => idem'[arg[s].key] = idem[arg[s].key]
    BY <1>0, <2>1, <2>2, HoldersApart DEF Typed
  <2>7. KeyHeld'
    BY <1>0, <2>4, <2>5, <2>6 DEF KeyHeld
  <2> QED
    BY <2>3, <2>7
<1>4. ASSUME NEW r \in Requests, NEW p \in Products, LocksRow(r, p)
      PROVE  KeyHeld' /\ SavedIsOrder' /\ OrderIsSaved'
  BY <1>0, <1>4 DEF LocksRow, KeyHeld, SavedIsOrder, OrderIsSaved
<1>5. ASSUME NEW gone \in SUBSET Requests, Ends(gone)
      PROVE  KeyHeld' /\ SavedIsOrder' /\ OrderIsSaved'
  <2>1. \A s \in Requests \ gone : keyLock[arg[s].key] = s => keyLock'[arg[s].key] = s
    BY <1>0, <1>5 DEF Ends, C!EndTxns, C!Freed, Typed
  <2> QED
    BY <1>0, <1>5, <2>1 DEF Ends, KeyHeld, SavedIsOrder, OrderIsSaved
<1>6. ASSUME NEW p \in Products, NEW qty \in 1..MaxQty, Restocks(p, qty)
      PROVE  KeyHeld' /\ SavedIsOrder' /\ OrderIsSaved'
  BY <1>0, <1>6 DEF Restocks, KeyHeld, SavedIsOrder, OrderIsSaved
<1>7. ASSUME WorkerMoves
      PROVE  KeyHeld' /\ SavedIsOrder' /\ OrderIsSaved'
  <2>1. \A r \in Requests : order'[r] # "none" => order[r] # "none"
    BY <1>7, WorkersPlaceNone
  <2> QED
    BY <1>0, <1>7, <2>1 DEF WorkerMoves, KeyHeld, SavedIsOrder, OrderIsSaved
<1> QED
  BY <1>1, <1>2, <1>3, <1>4, <1>5, <1>6, <1>7 DEF ApiMoves

\* The stock: a row a checkout has checked changes only under its own lock, but
\* for restocks and cancellations, which add to it.
LEMMA CoveredStep ==
  ASSUME HInv, ApiMoves \/ WorkerMoves
  PROVE  Covered'
<1> USE DEF HInv, C!Wanted
<1> DEFINE Fine(s) == pc'[s] \in Checked =>
             \A p \in Products : items'[s][p] > 0 => stockLock'[p] = s /\ items'[s][p] <= avail'[p]
<1>1. ASSUME NEW r \in Requests, NEW phase \in C!Phases, Walks(r, phase), NEW s \in Requests
      PROVE  Fine(s)
  <2>1. CASE s # r
    <3>1. pc'[s] = pc[s] /\ items'[s] = items[s]
      BY <1>1, <2>1 DEF Walks, Typed
    <3> QED
      BY <1>1, <3>1 DEF Walks, Covered
  <2>2. CASE s = r /\ phase \in Checked
    <3>1. pc'[r] = phase /\ pc[r] # "readCart" /\ items' = items
      BY <1>1, <2>2 DEF Walks, Typed, Checked
    <3>2. \A p \in Products : items[r][p] > 0 => stockLock[p] = r /\ items[r][p] <= avail[p]
      BY <1>1, <2>2 DEF Walks, Covered, C!StockHeld, C!Covered
    <3> QED
      BY <1>1, <2>2, <3>1, <3>2 DEF Walks
  <2>3. CASE s = r /\ phase \notin Checked
    BY <1>1, <2>3 DEF Walks, Typed
  <2> QED
    BY <2>1, <2>2, <2>3
<1>2. ASSUME NEW r \in Requests, NEW phase \in C!Phases, Commits(r, phase), NEW s \in Requests
      PROVE  Fine(s)
  <2> SUFFICES ASSUME pc'[s] \in Checked, NEW p \in Products, items'[s][p] > 0
               PROVE  stockLock'[p] = s /\ items'[s][p] <= avail'[p]
    OBVIOUS
  <2>1. s # r /\ pc[s] \in Checked /\ items' = items
    BY <1>2 DEF Commits, Typed, Checked
  <2>2. stockLock[p] = s /\ items[s][p] <= avail[p]
    BY <2>1 DEF Covered
  <2>3. items[r][p] = 0
    BY <1>2, <2>1, <2>2 DEF Commits, Covered, Checked, Typed
  <2>4. stockLock'[p] = s
    BY <1>2, <2>1, <2>2 DEF Commits, C!CommitTables, C!EndTxns, C!Freed, Typed
  <2>5. avail'[p] = avail[p] - 0
    BY <1>2, <2>3 DEF Commits, C!CommitTables
  <2> QED
    BY <2>1, <2>2, <2>4, <2>5 DEF Typed
<1>3. ASSUME NEW r \in Requests, NEW q \in Products, LocksRow(r, q), NEW s \in Requests
      PROVE  Fine(s)
  BY <1>3, HoldersApart DEF LocksRow, Covered, Typed
<1>4. ASSUME NEW gone \in SUBSET Requests, Ends(gone), NEW s \in Requests
      PROVE  Fine(s)
  <2>1. CASE s \in gone
    BY <1>4, <2>1 DEF Ends, Checked, Locking
  <2>2. CASE s \notin gone
    <3>1. \A p \in Products : stockLock[p] = s => stockLock'[p] = s
      BY <1>4, <2>2 DEF Ends, C!EndTxns, C!Freed, Typed
    <3> QED
      BY <1>4, <2>2, <3>1 DEF Ends, Covered
  <2> QED
    BY <2>1, <2>2
<1>5. ASSUME NEW q \in Products, NEW qty \in 1..MaxQty, Restocks(q, qty), NEW s \in Requests
      PROVE  Fine(s)
  <2>1. \A p \in Products : avail'[p] >= avail[p] /\ items[s][p] \in Nat /\ {avail[p], avail'[p]} \subseteq Nat
    BY <1>5, ConstantsOK DEF Restocks, Typed
  <2> QED
    BY <1>5, <2>1 DEF Restocks, Covered
<1>6. ASSUME WorkerMoves, NEW s \in Requests
      PROVE  Fine(s)
  <2> SUFFICES ASSUME pc[s] \in Checked, NEW p \in Products, items[s][p] > 0
               PROVE  stockLock'[p] = s /\ items[s][p] <= avail'[p]
    BY <1>6 DEF WorkerMoves
  <2>1. stockLock[p] = s /\ items[s][p] <= avail[p] /\ items[s][p] \in Nat /\ avail[p] \in Nat
    BY DEF Covered, Typed
  <2>2. stockLock'[p] = s
    <3>1. \A c \in Receipts : s # c /\ s # None
      BY ReceiptNames, HoldersApart
    <3>2. ASSUME NEW gone \in SUBSET Receipts, P!EndTxns(gone) PROVE stockLock'[p] = s
      BY <2>1, <3>1, <3>2 DEF P!EndTxns, P!Freed, Typed
    <3>3. ASSUME NEW c \in Receipts, Settles(c, "ok") \/ Settles(c, "failed") PROVE stockLock'[p] = s
      BY <3>2, <3>3 DEF Settles, P!Settle
    <3>4. ASSUME NEW gone \in SUBSET InTxn, Fails(gone) PROVE stockLock'[p] = s
      BY <3>2, <3>4 DEF Fails, InTxn
    <3>5. ASSUME NEW c \in Receipts, TakesRow(c) PROVE stockLock'[p] = s
      BY <2>1, <3>1, <3>5 DEF TakesRow, Typed
    <3> QED
      BY <1>6, <2>1, <3>3, <3>4, <3>5 DEF WorkerMoves, LocksOrder, Starts, HandsOut
  <2>3. avail'[p] \in Nat /\ avail'[p] >= avail[p]
    <3>1. ASSUME NEW c \in Receipts, Settles(c, "ok") \/ Settles(c, "failed")
          PROVE  avail'[p] \in Nat /\ avail'[p] >= avail[p]
      BY <3>1, SettleMoves DEF Settles
    <3> QED
      BY <1>6, <2>1, <3>1 DEF WorkerMoves, LocksOrder, TakesRow, Fails, Starts, HandsOut
  <2> QED
    BY <2>1, <2>2, <2>3
<1>7. \A s \in Requests : Fine(s)
  BY <1>1, <1>2, <1>3, <1>4, <1>5, <1>6 DEF ApiMoves
<1> QED
  BY <1>7 DEF Covered

\* The lines: a call reads its cart's rows once, before its order exists.
LEMMA LinesStep ==
  ASSUME HInv, ApiMoves \/ WorkerMoves
  PROVE  LinesAreRows'
<1> USE DEF HInv
<1> DEFINE Read == {"lockStock"} \cup Checked
<1>1. ASSUME NEW r \in Requests, NEW phase \in C!Phases, Walks(r, phase)
      PROVE  LinesAreRows'
  <2>1. \A s \in Requests \ {r} : items'[s] = items[s] /\ pc'[s] = pc[s]
    BY <1>1 DEF Walks, Typed
  <2>2. C!Cart(r) \in Carts /\ cartItems[C!Cart(r)] = Line(CartOf[r])
    BY CallTyped DEF CartsAsFilled
  <2>3. pc'[r] \in Read \/ order'[r] # "none" => items'[r] = Line(CartOf[r])
    <3>1. CASE items' = items
      <4>1. pc'[r] = phase /\ order' = order
        BY <1>1 DEF Walks, Typed
      <4>2. CASE phase \in Read /\ pc[r] \notin Read
        <5>1. items' = [items EXCEPT ![r] = cartItems[C!Cart(r)]]
          BY <1>1, <4>2 DEF Walks
        <5> QED
          BY <2>2, <5>1 DEF Typed
      <4> QED
        BY <3>1, <4>1, <4>2 DEF LinesAreRows
    <3>2. CASE items' = [items EXCEPT ![r] = cartItems[C!Cart(r)]]
      BY <2>2, <3>2 DEF Typed
    <3> QED
      BY <1>1, <3>1, <3>2 DEF Walks
  <2> QED
    BY <1>1, <2>1, <2>3 DEF Walks, LinesAreRows
<1>2. ASSUME NEW r \in Requests, NEW phase \in C!Phases, Commits(r, phase)
      PROVE  LinesAreRows'
  <2>1. items' = items /\ pc[r] = "commit" /\ pc'[r] \notin Read
    BY <1>2 DEF Commits, Typed, Checked
  <2>2. \A s \in Requests \ {r} : pc'[s] = pc[s] /\ order'[s] = order[s]
    BY <1>2 DEF Commits, C!CommitTables, Typed
  <2> QED
    BY <2>1, <2>2 DEF LinesAreRows, Checked
<1>3. ASSUME NEW gone \in SUBSET Requests, Ends(gone)
      PROVE  LinesAreRows'
  BY <1>3 DEF Ends, LinesAreRows, Checked, Locking
<1>4. ASSUME WorkerMoves
      PROVE  LinesAreRows'
  <2>1. \A r \in Requests : order'[r] # "none" => order[r] # "none"
    BY <1>4, WorkersPlaceNone
  <2> QED
    BY <1>4, <2>1 DEF WorkerMoves, LinesAreRows
<1> QED
  BY <1>1, <1>2, <1>3, <1>4 DEF ApiMoves, LocksRow, Restocks, LinesAreRows

\* The orders: two jobs never settle the same one.
LEMMA OrderHeldStep ==
  ASSUME HInv, ApiMoves \/ WorkerMoves
  PROVE  OrderHeld'
<1> USE DEF HInv
<1>0. \A c \in Receipts : Order(c) \in Requests /\ c # None
  BY ReceiptNames
<1>1. ASSUME ApiMoves PROVE OrderHeld'
  <2>1. \A r \in Requests : order[r] = "pending" => order'[r] = "pending"
    <3>1. ASSUME NEW s \in Requests, NEW phase \in C!Phases, Commits(s, phase),
                 NEW r \in Requests, order[r] = "pending"
          PROVE  order'[r] = "pending"
      BY <3>1 DEF Commits, C!CommitTables, Typed
    <3> QED
      BY <1>1, <3>1 DEF ApiMoves, Walks, LocksRow, Ends, Restocks
  <2> QED
    BY <1>0, <1>1, <2>1 DEF ApiMoves, OrderHeld
<1>2. ASSUME NEW c \in Receipts, LocksOrder(c) PROVE OrderHeld'
  <2>1. CASE job' = [job EXCEPT ![c] = "ok"] /\ UNCHANGED orderLock
    BY <1>2, <2>1 DEF LocksOrder, OrderHeld, Typed
  <2>2. CASE orderLock[Order(c)] = None
    <3>1. \A d \in Receipts : job[d] \in {"restore", "confirm"} => Order(d) # Order(c)
      BY <1>0, <2>2 DEF OrderHeld
    <3>2. \A d \in Receipts \ {c} : job'[d] = job[d]
      BY <1>2 DEF LocksOrder, Typed
    <3>3. CASE orderLock' = [orderLock EXCEPT ![Order(c)] = c] /\ order[Order(c)] = "pending"
      BY <1>0, <1>2, <3>1, <3>2, <3>3 DEF LocksOrder, OrderHeld, Typed
    <3> QED
      BY <1>2, <2>1, <3>3 DEF LocksOrder
  <2> QED
    BY <1>2, <2>1, <2>2 DEF LocksOrder
<1>3. ASSUME NEW c \in Receipts, NEW phase \in {"ok", "failed"}, Settles(c, phase) PROVE OrderHeld'
  <2>1. orderLock[Order(c)] = c
    BY <1>3, SettleMoves DEF Settles, OrderHeld
  <2> SUFFICES ASSUME NEW d \in Receipts, job'[d] \in {"restore", "confirm"}
               PROVE  orderLock'[Order(d)] = d /\ order'[Order(d)] = "pending"
    BY DEF OrderHeld
  <2>2. d # c /\ job[d] \in {"restore", "confirm"}
    BY <1>3 DEF Settles, Typed
  <2>3. orderLock[Order(d)] = d /\ order[Order(d)] = "pending" /\ Order(d) # Order(c)
    BY <2>1, <2>2 DEF OrderHeld
  <2>4. order'[Order(d)] = order[Order(d)]
    BY <1>0, <1>3, <2>3, SettleMoves DEF Settles, Typed
  <2>5. orderLock'[Order(d)] = d
    BY <1>0, <1>3, <2>2, <2>3 DEF Settles, P!Settle, P!EndTxns, P!Freed, Typed
  <2> QED
    BY <2>3, <2>4, <2>5
<1>4. ASSUME NEW gone \in SUBSET InTxn, Fails(gone) PROVE OrderHeld'
  <2> SUFFICES ASSUME NEW d \in Receipts, job'[d] \in {"restore", "confirm"}
               PROVE  orderLock'[Order(d)] = d /\ order'[Order(d)] = "pending"
    BY DEF OrderHeld
  <2>1. d \notin gone /\ job[d] \in {"restore", "confirm"}
    BY <1>4 DEF Fails, Typed
  <2> QED
    BY <1>0, <1>4, <2>1 DEF Fails, OrderHeld, P!EndTxns, P!Freed, Typed
<1>5. ASSUME NEW w \in Workers, NEW c \in Receipts, Starts(w, c) PROVE OrderHeld'
  BY <1>5 DEF Starts, OrderHeld, Typed
<1>6. CASE WorkerMoves
  BY <1>2, <1>3, <1>4, <1>5, <1>6 DEF WorkerMoves, TakesRow, HandsOut, OrderHeld
<1> QED
  BY <1>1, <1>6

\* The receipts: SQS numbers its deliveries, so that none is handed out twice.
LEMMA FreshStep ==
  ASSUME HInv, ApiMoves \/ WorkerMoves
  PROVE  ReceiptsFresh'
<1> USE DEF HInv
<1>0. \A c \in Receipts : c[1] \in Messages /\ c[2] \in Nat
  BY ReceiptNames
<1>1. ASSUME UNCHANGED <<batch, count>>,
             \A c \in Receipts : job'[c] = "none" <=> job[c] = "none"
      PROVE  ReceiptsFresh'
  BY <1>1 DEF ReceiptsFresh, Typed
<1>2. ASSUME NEW gone \in SUBSET InTxn, Fails(gone) PROVE ReceiptsFresh'
  <2>1. \A c \in Receipts : job'[c] = "none" <=> job[c] = "none"
    BY <1>2 DEF Fails, InTxn, P!InTxn
  <2>2. \A w \in Workers : batch'[w] \subseteq batch[w]
    BY <1>2 DEF Fails, Typed
  <2>3. count' = count
    BY <1>2 DEF Fails
  <2>4. \A w \in Workers : \A c \in batch[w] : c \in Receipts
    BY DEF Typed
  <2> QED
    BY <2>1, <2>2, <2>3, <2>4 DEF ReceiptsFresh
<1>3. ASSUME NEW w \in Workers, NEW c \in Receipts, Starts(w, c) PROVE ReceiptsFresh'
  <2>1. /\ count' = count /\ c \in batch[w]
        /\ \A d \in Receipts : d # c => job'[d] = job[d]
        /\ batch'[w] = batch[w] \ {c} /\ \A v \in Workers \ {w} : batch'[v] = batch[v]
    BY <1>3 DEF Starts, Typed
  <2>2. \A v \in Workers : c \notin batch'[v] /\ batch'[v] \subseteq batch[v]
    BY <2>1 DEF ReceiptsFresh
  <2>3. \A v \in Workers : \A d \in batch[v] : d \in Receipts
    BY DEF Typed
  <2> QED
    BY <2>1, <2>2, <2>3 DEF ReceiptsFresh
<1>4. ASSUME NEW S \in SUBSET Messages, HandsOut(S) PROVE ReceiptsFresh'
  <2> DEFINE new == {<<m, count[m] + 1>> : m \in S}
  <2>1. /\ \A m \in Messages : count'[m] \in Nat /\ count'[m] >= count[m] /\ count[m] \in Nat
        /\ \A m \in S : count'[m] = count[m] + 1
        /\ job' = job
    BY <1>4 DEF HandsOut, Typed
  <2>2. ASSUME NEW c \in new
        PROVE  /\ c \in Receipts /\ c[2] = count[c[1]] + 1 /\ c[2] <= count'[c[1]]
               /\ job[c] = "none" /\ \A w \in Workers : c \notin batch[w]
    <3>1. PICK m \in S : c = <<m, count[m] + 1>>
      BY <2>2
    <3>2. c \in Receipts /\ c[1] = m /\ c[2] = count[m] + 1 /\ ~(c[2] <= count[m])
      BY <1>4, <2>1, <3>1 DEF HandsOut
    <3> QED
      BY <2>1, <3>1, <3>2 DEF ReceiptsFresh
  <2>3. \A c \in Receipts : c[2] <= count[c[1]] => c[2] <= count'[c[1]]
    BY <1>0, <2>1
  <2>4. \A w \in Workers : batch[w] \subseteq Receipts
    BY DEF Typed
  <2> HIDE DEF new
  <2>5. CASE batch' = batch
    BY <2>1, <2>3, <2>4, <2>5 DEF ReceiptsFresh
  <2>6. ASSUME NEW w \in Workers, batch' = [batch EXCEPT ![w] = new] PROVE ReceiptsFresh'
    <3>1. batch'[w] = new /\ \A v \in Workers \ {w} : batch'[v] = batch[v]
      BY <2>6 DEF Typed
    <3>2. \A c \in Receipts : job'[c] # "none" => c[2] <= count'[c[1]]
      BY <2>1, <2>3 DEF ReceiptsFresh
    <3>3. \A v \in Workers : \A c \in batch'[v] : job'[c] = "none" /\ c[2] <= count'[c[1]]
      BY <2>1, <2>2, <2>3, <2>4, <3>1 DEF ReceiptsFresh
    <3>4. \A v, u \in Workers : v # u => batch'[v] \cap batch'[u] = {}
      BY <2>2, <3>1 DEF ReceiptsFresh
    <3> QED
      BY <3>2, <3>3, <3>4 DEF ReceiptsFresh
  <2> QED
    BY <1>4, <2>5, <2>6 DEF HandsOut, new
<1>5. CASE ApiMoves
  BY <1>1, <1>5 DEF ApiMoves
<1>6. ASSUME NEW c \in Receipts, LocksOrder(c) PROVE ReceiptsFresh'
  <2>1. \A d \in Receipts : job'[d] = "none" <=> job[d] = "none"
    BY <1>6 DEF LocksOrder, Typed
  <2> QED
    BY <1>1, <1>6, <2>1 DEF LocksOrder
<1>7. ASSUME NEW c \in Receipts, NEW phase \in {"ok", "failed"}, Settles(c, phase)
      PROVE  ReceiptsFresh'
  <2>1. \A d \in Receipts : job'[d] = "none" <=> job[d] = "none"
    BY <1>7 DEF Settles, P!Settle, Typed
  <2> QED
    BY <1>1, <1>7, <2>1 DEF Settles
<1>8. CASE WorkerMoves
  BY <1>1, <1>2, <1>3, <1>4, <1>6, <1>7, <1>8 DEF WorkerMoves, TakesRow
<1> QED
  BY <1>5, <1>8

\* The locks: they end with their transactions, whichever way those end.
LEMMA StrayStep ==
  ASSUME HInv, ApiMoves \/ WorkerMoves
  PROVE  NoStrayLocks'
<1> USE DEF HInv
<1> DEFINE Held(p, t) == \/ t = None
                         \/ t \in Requests /\ pc[t] \in Locking
                         \/ t \in Receipts /\ job[t] = "restore"
           Settling(r) == orderLock[r] # None => job[orderLock[r]] \in {"restore", "confirm"}
<1>1. /\ \A p \in Products : Held(p, stockLock[p])
      /\ \A r \in Requests : Settling(r)
  BY DEF NoStrayLocks, Locking, Receipts
<1>2. \A c \in Receipts : c \notin Requests /\ c # None /\ Order(c) \in Requests
  BY ReceiptNames
<1> SUFFICES /\ \A p \in Products : Held(p, stockLock[p])'
             /\ \A r \in Requests : Settling(r)'
  BY DEF NoStrayLocks, Locking, Receipts
<1>3. ASSUME ApiMoves
      PROVE  /\ \A p \in Products : Held(p, stockLock[p])'
             /\ \A r \in Requests : Settling(r)'
  <2> USE DEF ApiMoves
  <2>1. \A r \in Requests : Settling(r)'
    BY <1>1, <1>3
  <2>2. ASSUME NEW r \in Requests, NEW phase \in C!Phases, Walks(r, phase), NEW p \in Products
        PROVE  Held(p, stockLock[p])'
    BY <1>1, <1>3, <2>2 DEF Walks, Typed
  <2>3. ASSUME NEW r \in Requests, NEW phase \in C!Phases, Commits(r, phase), NEW p \in Products
        PROVE  Held(p, stockLock[p])'
    <3>1. stockLock'[p] = IF stockLock[p] = r THEN None ELSE stockLock[p]
      BY <2>3 DEF Commits, C!CommitTables, C!EndTxns, C!Freed, Typed
    <3>2. \A s \in Requests \ {r} : pc'[s] = pc[s]
      BY <2>3 DEF Commits, Typed
    <3> QED
      BY <1>1, <1>3, <3>1, <3>2
  <2>4. ASSUME NEW r \in Requests, NEW q \in Products, LocksRow(r, q), NEW p \in Products
        PROVE  Held(p, stockLock[p])'
    BY <1>1, <1>3, <2>4 DEF LocksRow, Typed, Locking
  <2>5. ASSUME NEW gone \in SUBSET Requests, Ends(gone), NEW p \in Products
        PROVE  Held(p, stockLock[p])'
    <3>1. stockLock'[p] = IF stockLock[p] \in gone THEN None ELSE stockLock[p]
      BY <2>5 DEF Ends, C!EndTxns, C!Freed, Typed
    <3> QED
      BY <1>1, <1>3, <2>5, <3>1 DEF Ends
  <2>6. ASSUME NEW q \in Products, NEW qty \in 1..MaxQty, Restocks(q, qty), NEW p \in Products
        PROVE  Held(p, stockLock[p])'
    BY <1>1, <1>3, <2>6 DEF Restocks
  <2> QED
    BY <1>3, <2>1, <2>2, <2>3, <2>4, <2>5, <2>6
<1>4. ASSUME WorkerMoves
      PROVE  /\ \A p \in Products : Held(p, stockLock[p])'
             /\ \A r \in Requests : Settling(r)'
  <2> USE DEF WorkerMoves
  <2>1. ASSUME NEW gone \in SUBSET Receipts, P!EndTxns(gone),
               \A c \in Receipts \ gone : job'[c] = job[c]
        PROVE  /\ \A p \in Products : Held(p, stockLock[p])'
               /\ \A r \in Requests : Settling(r)'
    <3>1. /\ \A p \in Products : stockLock'[p] = IF stockLock[p] \in gone THEN None ELSE stockLock[p]
          /\ \A r \in Requests : orderLock'[r] = IF orderLock[r] \in gone THEN None ELSE orderLock[r]
      BY <2>1 DEF P!EndTxns, P!Freed, Typed
    <3>2. \A r \in Requests : orderLock[r] \in Receipts \cup {None}
      BY DEF Typed
    <3> QED
      BY <1>1, <1>4, <2>1, <3>1, <3>2
  <2>2. ASSUME NEW c \in Receipts, LocksOrder(c)
        PROVE  /\ \A p \in Products : Held(p, stockLock[p])'
               /\ \A r \in Requests : Settling(r)'
    <3>1. /\ \A d \in Receipts \ {c} : job'[d] = job[d]
          /\ job[c] = "lock" /\ stockLock' = stockLock
      BY <2>2 DEF LocksOrder, Typed
    <3>2. \A p \in Products : Held(p, stockLock[p])'
      BY <1>1, <1>4, <3>1
    <3>3. ASSUME NEW r \in Requests PROVE Settling(r)'
      <4>1. orderLock[r] \in Receipts \cup {None}
        BY DEF Typed
      <4>2. CASE orderLock' = orderLock
        BY <1>1, <3>1, <4>1, <4>2
      <4>3. CASE /\ orderLock' = [orderLock EXCEPT ![Order(c)] = c]
                 /\ job'[c] \in {"restore", "confirm"}
        <5>1. orderLock'[r] \in {c, orderLock[r]}
          BY <1>2, <4>3 DEF Typed
        <5> QED
          BY <1>1, <3>1, <4>1, <4>3, <5>1
      <4> QED
        BY <2>2, <4>2, <4>3 DEF LocksOrder, Typed
    <3> QED
      BY <3>2, <3>3
  <2>3. ASSUME NEW c \in Receipts, TakesRow(c)
        PROVE  /\ \A p \in Products : Held(p, stockLock[p])'
               /\ \A r \in Requests : Settling(r)'
    BY <1>1, <1>4, <2>3 DEF TakesRow, Typed
  <2>4. ASSUME NEW c \in Receipts, NEW phase \in {"ok", "failed"}, Settles(c, phase)
        PROVE  /\ \A p \in Products : Held(p, stockLock[p])'
               /\ \A r \in Requests : Settling(r)'
    <3>1. P!EndTxns({c}) /\ \A d \in Receipts \ {c} : job'[d] = job[d]
      BY <2>4 DEF Settles, P!Settle, Typed
    <3> QED
      BY <2>1, <3>1
  <2>5. ASSUME NEW gone \in SUBSET InTxn, Fails(gone)
        PROVE  /\ \A p \in Products : Held(p, stockLock[p])'
               /\ \A r \in Requests : Settling(r)'
    BY <2>1, <2>5 DEF Fails, InTxn
  <2>6. ASSUME NEW w \in Workers, NEW c \in Receipts, Starts(w, c)
        PROVE  /\ \A p \in Products : Held(p, stockLock[p])'
               /\ \A r \in Requests : Settling(r)'
    <3>1. job[c] = "none" /\ \A d \in Receipts \ {c} : job'[d] = job[d]
      BY <2>6 DEF Starts, ReceiptsFresh, Typed
    <3>2. \A r \in Requests : orderLock[r] \in Receipts \cup {None}
      BY DEF Typed
    <3> QED
      BY <1>1, <1>4, <2>6, <3>1, <3>2 DEF Starts
  <2> QED
    BY <1>1, <1>4, <2>2, <2>3, <2>4, <2>5, <2>6 DEF HandsOut
<1> QED
  BY <1>3, <1>4

-----------------------------------------------------------------------------
(* The units. *)

Taken(p) == [r \in Requests |-> items[r][p]]

\* A commit's order is a new one.
LEMMA CommitPlaces ==
  ASSUME HInv, NEW r \in Requests, NEW phase, Commits(r, phase)
  PROVE  /\ order' = [order EXCEPT ![r] = "pending"] /\ order[r] = "none"
         /\ \A s \in Requests : C!Key(s) = C!Key(r) => order[s] = "none"
         /\ avail' = [p \in Products |-> avail[p] - items[r][p]]
         /\ \A p \in Products : items[r][p] \in Nat /\ items[r][p] <= avail[p]
<1>1. idem[C!Key(r)] = None
  BY DEF Commits, HInv, KeyHeld, Holding
<1>2. \A s \in Requests : C!Key(s) = C!Key(r) => order[s] = "none"
  BY <1>1, HoldersApart DEF HInv, OrderIsSaved
<1> QED
  BY <1>2, CommitTypes DEF Commits, C!CommitTables, HInv

\* The sum of the lines sold is a number, and the same if the orders and their
\* lines are.
LEMMA SoldSame ==
  ASSUME HInv, NEW p \in Products
  PROVE  /\ \A s \in Sold : Taken(p)[s] \in Int
         /\ SumFunctionOnSet(Taken(p), Sold) \in Int
         /\ Sold' = Sold /\ (\A s \in Sold : items'[s] = items[s]) =>
              SumFunctionOnSet(Taken(p)', Sold') = SumFunctionOnSet(Taken(p), Sold)
<1>1. \A s \in Sold : Taken(p)[s] \in Int
  BY DEF HInv, Typed, Sold, Taken
<1>2. SumFunctionOnSet(Taken(p), Sold) \in Int
  BY <1>1, SumSame DEF HInv
<1>3. ASSUME Sold' = Sold, \A s \in Sold : items'[s] = items[s]
      PROVE  SumFunctionOnSet(Taken(p)', Sold') = SumFunctionOnSet(Taken(p), Sold)
  <2>1. \A s \in Sold : Taken(p)[s] \in Int /\ Taken(p)'[s] = Taken(p)[s]
    BY <1>1, <1>3 DEF Taken, Sold
  <2>2. IsFiniteSet(Sold)
    BY DEF HInv
  <2>3. SumFunctionOnSet(Taken(p)', Sold) = SumFunctionOnSet(Taken(p), Sold)
    BY ONLY <2>1, <2>2, SumSame
  <2> QED
    BY <1>3, <2>3
<1> QED
  BY <1>1, <1>2, <1>3

\* The units only move between the shelf and the orders.
LEMMA UnitsStep ==
  ASSUME HInv, ApiMoves \/ WorkerMoves
  PROVE  IsFiniteSet(Sold)' /\ UnitsConserved'
<1> DEFINE Units(p) == avail[p] + SumFunctionOnSet(Taken(p), Sold) = stocked[p]
<1>1. IsFiniteSet(Sold) /\ \A p \in Products : Units(p)
  BY DEF HInv, UnitsConserved, Taken, Sold
<1> SUFFICES IsFiniteSet(Sold)' /\ \A p \in Products : Units(p)'
  BY DEF UnitsConserved, Taken, Sold
<1>2. ASSUME Sold' = Sold, \A s \in Sold : items'[s] = items[s], UNCHANGED <<avail, stocked>>
      PROVE  IsFiniteSet(Sold)' /\ \A p \in Products : Units(p)'
  BY <1>1, <1>2, SoldSame
<1>3. ASSUME NEW r \in Requests, NEW phase \in C!Phases, Walks(r, phase)
      PROVE  IsFiniteSet(Sold)' /\ \A p \in Products : Units(p)'
  <2>1. Sold' = Sold /\ UNCHANGED <<avail, stocked>>
    BY <1>3 DEF Walks, Sold
  <2>2. ASSUME NEW s \in Sold PROVE items'[s] = items[s]
    <3>1. CASE items' = items
      BY <3>1
    <3>2. CASE items' = [items EXCEPT ![r] = cartItems[C!Cart(r)]]
      <4>1. items[s] = Line(CartOf[s]) /\ cartItems[C!Cart(r)] = Line(CartOf[r])
        BY CallTyped DEF HInv, LinesAreRows, CartsAsFilled, Sold
      <4> QED
        BY <3>2, <4>1 DEF HInv, Typed, Sold
    <3> QED
      BY <1>3, <3>1, <3>2 DEF Walks
  <2> QED
    BY <1>2, <2>1, <2>2
<1>4. ASSUME NEW r \in Requests, NEW phase \in C!Phases, Commits(r, phase)
      PROVE  IsFiniteSet(Sold)' /\ \A p \in Products : Units(p)'
  <2>1. r \notin Sold /\ Sold' = Sold \cup {r}
    BY <1>4, CommitPlaces DEF HInv, Typed, Sold
  <2>2. IsFiniteSet(Sold)'
    BY <1>1, <2>1, FS_AddElement
  <2>3. ASSUME NEW p \in Products PROVE Units(p)'
    <3>1. /\ Taken(p)' = Taken(p) /\ Taken(p)[r] = items[r][p] /\ stocked' = stocked
          /\ avail'[p] = avail[p] - items[r][p] /\ items[r][p] \in Nat
      BY <1>4, CommitPlaces DEF Commits, Taken
    <3>2. SumFunctionOnSet(Taken(p), Sold') = SumFunctionOnSet(Taken(p), Sold) + Taken(p)[r]
      <4>1. Taken(p)[r] \in Int /\ \A s \in Sold : Taken(p)[s] \in Int
        BY <3>1, SoldSame
      <4> QED
        BY ONLY <1>1, <2>1, <4>1, SumJoin
    <3>3. SumFunctionOnSet(Taken(p), Sold) \in Int /\ avail[p] \in Int
      BY SoldSame DEF HInv, Typed
    <3> QED
      BY <1>1, <3>1, <3>2, <3>3
  <2> QED
    BY <2>2, <2>3
<1>5. ASSUME NEW q \in Products, NEW qty \in 1..MaxQty, Restocks(q, qty)
      PROVE  IsFiniteSet(Sold)' /\ \A p \in Products : Units(p)'
  <2>1. Sold' = Sold /\ items' = items
    BY <1>5 DEF Restocks, Sold
  <2>2. ASSUME NEW p \in Products PROVE Units(p)'
    <3>1. /\ SumFunctionOnSet(Taken(p)', Sold') = SumFunctionOnSet(Taken(p), Sold)
          /\ SumFunctionOnSet(Taken(p), Sold) \in Int
      BY <2>1, SoldSame
    <3>2. \E n \in Nat : avail'[p] = avail[p] + n /\ stocked'[p] = stocked[p] + n
      <4>1. CASE p = q
        BY <1>5, <4>1, ConstantsOK DEF Restocks, HInv, Typed
      <4>2. CASE p # q
        <5>1. avail'[p] = avail[p] + 0 /\ stocked'[p] = stocked[p] + 0
          BY <1>5, <4>2 DEF Restocks, HInv, Typed
        <5> QED
          BY <5>1
      <4> QED
        BY <4>1, <4>2
    <3> QED
      BY <1>1, <3>1, <3>2 DEF HInv, Typed
  <2> QED
    BY <1>1, <2>1, <2>2
<1>6. ASSUME NEW c \in Receipts, NEW phase \in {"ok", "failed"}, Settles(c, phase),
             UNCHANGED <<items, stocked>>
      PROVE  IsFiniteSet(Sold)' /\ \A p \in Products : Units(p)'
  <2> DEFINE o == Order(c)
  <2>1. o \in Requests /\ order[o] = "pending" /\ o \in Sold
    BY <1>6, SettleMoves DEF HInv, Settles, Sold
  <2>2. CASE avail' = avail /\ order' = [order EXCEPT ![o] = "CONFIRMED"]
    <3>1. Sold' = Sold
      BY <2>1, <2>2 DEF HInv, Typed, Sold
    <3> QED
      BY <1>2, <1>6, <2>2, <3>1
  <2>3. CASE /\ order' = [order EXCEPT ![o] = "CANCELLED"]
             /\ avail' = [p \in Products |-> avail[p] + items[o][p]]
    <3>1. Sold' = Sold \ {o}
      BY <2>1, <2>3 DEF HInv, Typed, Sold
    <3>2. IsFiniteSet(Sold)'
      BY <1>1, <3>1, FS_RemoveElement
    <3>3. ASSUME NEW p \in Products PROVE Units(p)'
      <4>1. /\ Taken(p)' = Taken(p) /\ Taken(p)[o] = items[o][p]
            /\ avail'[p] = avail[p] + items[o][p]
        BY <1>6, <2>1, <2>3 DEF Taken
      <4>2. \A s \in Sold : Taken(p)[s] \in Int
        BY SoldSame
      <4> HIDE DEF o
      <4>3. SumFunctionOnSet(Taken(p), Sold) = SumFunctionOnSet(Taken(p), Sold \ {o}) + Taken(p)[o]
        BY ONLY <1>1, <2>1, <4>2, SumAdd
      <4>4. SumFunctionOnSet(Taken(p), Sold \ {o}) \in Int
        BY <3>1, <3>2, <4>2, SumSame
      <4>5. items[o][p] \in Nat /\ avail[p] \in Nat
        BY <2>1 DEF HInv, Typed
      <4> QED
        BY <1>1, <1>6, <3>1, <4>1, <4>3, <4>4, <4>5
    <3> QED
      BY <3>2, <3>3
  <2> QED
    BY <1>6, <2>2, <2>3, SettleMoves DEF HInv, Settles
<1>7. CASE ApiMoves
  <2>1. ASSUME UNCHANGED <<order, items, avail, stocked>>
        PROVE  IsFiniteSet(Sold)' /\ \A p \in Products : Units(p)'
    BY <1>2, <2>1 DEF Sold
  <2> QED
    BY <1>3, <1>4, <1>5, <1>7, <2>1 DEF ApiMoves, LocksRow, Ends
<1>8. CASE WorkerMoves
  <2>1. ASSUME UNCHANGED <<order, items, avail, stocked>>
        PROVE  IsFiniteSet(Sold)' /\ \A p \in Products : Units(p)'
    BY <1>2, <2>1 DEF Sold
  <2> QED
    BY <1>6, <1>8, <2>1 DEF WorkerMoves, LocksOrder, TakesRow, Fails, Starts, HandsOut
<1> QED
  BY <1>7, <1>8

-----------------------------------------------------------------------------
(* The theorems. *)

\* Nobody holds anything at first, and all units are on the shelf.
LEMMA InitHInv == Init => HInv
<1> SUFFICES ASSUME Init PROVE HInv
  OBVIOUS
<1> USE DEF Init, C!Init
<1>1. Typed
  BY ConstantsOK DEF Typed, C!Phases, P!Phases, Receipts
<1>2. CartsAsFilled
  BY DEF CartsAsFilled
<1>3. KeyHeld /\ SavedIsOrder /\ OrderIsSaved /\ Covered /\ LinesAreRows
  BY CallTyped, <1>1 DEF KeyHeld, SavedIsOrder, OrderIsSaved, Covered, LinesAreRows, Holding, Checked
<1>4. OrderHeld /\ ReceiptsFresh /\ NoStrayLocks
  BY DEF OrderHeld, ReceiptsFresh, NoStrayLocks, Receipts
<1>5. IsFiniteSet(Sold) /\ UnitsConserved
  <2>1. Sold = {}
    BY DEF Sold
  <2>2. \A p \in Products : SumFunctionOnSet([r \in Requests |-> items[r][p]], Sold) = 0
    BY <2>1, FS_EmptySet, SumUnfold
  <2>3. \A p \in Products : avail[p] + 0 = stocked[p]
    BY <1>1 DEF Typed
  <2> QED
    BY <2>1, <2>2, <2>3, FS_EmptySet DEF UnitsConserved, Sold
<1> QED
  BY <1>1, <1>2, <1>3, <1>4, <1>5 DEF HInv

\* HInv holds in every reachable state.
THEOREM Invariance == Spec => []HInv
<1>1. HInv /\ [Next]_vars => HInv'
  <2> SUFFICES ASSUME HInv, [Next]_vars PROVE HInv'
    OBVIOUS
  <2>1. ApiMoves \/ WorkerMoves
    BY Steps DEF HInv
  <2>2. Typed' /\ CartsAsFilled' /\ KeyHeld' /\ SavedIsOrder' /\ OrderIsSaved'
    BY <2>1, TypedStep, KeysStep
  <2>3. Covered' /\ LinesAreRows' /\ OrderHeld' /\ ReceiptsFresh'
    BY <2>1, CoveredStep, LinesStep, OrderHeldStep, FreshStep
  <2>4. NoStrayLocks' /\ IsFiniteSet(Sold)' /\ UnitsConserved'
    BY <2>1, StrayStep, UnitsStep
  <2> QED
    BY <2>2, <2>3, <2>4 DEF HInv
<1> QED
  BY InitHInv, <1>1, PTL DEF Spec

\* No row of the orders or the inventory stays locked when the transaction that
\* locked it is over, whichever process ran it.
THEOREM LocksEnd == Spec => []NoStrayLocks
<1>1. HInv => NoStrayLocks
  BY DEF HInv
<1> QED
  BY Invariance, <1>1, PTL

\* What was ever stocked is on the shelf or in an order that is not cancelled,
\* with checkouts and workers running at the same time.
THEOREM UnitsStay == Spec => []UnitsConserved
<1>1. HInv => UnitsConserved
  BY DEF HInv
<1> QED
  BY Invariance, <1>1, PTL

-----------------------------------------------------------------------------
(* The refinement: checkouts and jobs together are the shop. *)

\* The shop's state is made of the tables and the calls' arguments.
LEMMA ShopStays ==
  ASSUME HInv, arg' = arg, UNCHANGED <<order, avail>>,
         \A r \in Requests : order[r] # "none" => items'[r] = items[r]
  PROVE  UNCHANGED TheShop!vars
<1>1. [r \in Requests |-> C!Key(r)]' = [r \in Requests |-> C!Key(r)]
  BY DEF C!Key
<1>2. [r \in Requests |-> [p \in Products |-> IF order[r] = "none" THEN 0 ELSE items[r][p]]]'
        = [r \in Requests |-> [p \in Products |-> IF order[r] = "none" THEN 0 ELSE items[r][p]]]
  OBVIOUS
<1> QED
  BY <1>1, <1>2 DEF TheShop!vars

LEMMA ShopInit == Init => TheShop!Init
<1> SUFFICES ASSUME Init PROVE TheShop!Init
  OBVIOUS
<1>1. HInv
  BY InitHInv
<1>2. [r \in Requests |-> C!Key(r)] \in [Requests -> Keys]
  BY <1>1, CallTyped DEF HInv
<1> QED
  BY <1>2 DEF Init, C!Init, TheShop!Init, TheShop!NoLine

\* A commit places the order, with its cart's rows.
LEMMA ShopPlaces ==
  ASSUME HInv, NEW r \in Requests, NEW phase, Commits(r, phase), arg' = arg
  PROVE  \E line \in Lines : TheShop!Place(r, line)
<1> USE DEF HInv
<1>1. items[r] = Line(CartOf[r]) /\ items[r] \in [Products -> Nat]
  BY DEF Commits, LinesAreRows, Checked, Typed
<1>2. items[r] \in Lines
  <2>1. C!Cart(r) \in Carts /\ C!Cart(r) = CartOf[r]
    BY CallTyped DEF CartsAsFilled
  <2>2. cartItems[C!Cart(r)] \in Lines /\ cartItems[C!Cart(r)] = Line(C!Cart(r))
    BY <2>1 DEF CartsAsFilled
  <2> QED
    BY <1>1, <2>1, <2>2
<1>3. /\ order' = [order EXCEPT ![r] = "pending"] /\ order[r] = "none"
      /\ \A s \in Requests : C!Key(s) = C!Key(r) => order[s] = "none"
      /\ avail' = [p \in Products |-> avail[p] - items[r][p]]
      /\ \A p \in Products : items[r][p] <= avail[p]
      /\ items' = items
  BY CommitPlaces DEF Commits
<1> DEFINE key == [s \in Requests |-> C!Key(s)]
           bought == [s \in Requests |-> [p \in Products |-> IF order[s] = "none" THEN 0 ELSE items[s][p]]]
<1>4. key' = key
  BY DEF C!Key
<1>5. bought' = [bought EXCEPT ![r] = items[r]]
  <2>1. \A s \in Requests \ {r} : order'[s] = order[s]
    BY <1>3 DEF Typed
  <2>2. \A s \in Requests \ {r} : bought'[s] = bought[s]
    BY <1>3, <2>1
  <2>3. order'[r] = "pending"
    BY <1>3 DEF Typed
  <2>4. bought'[r] = items[r]
    BY <1>1, <1>3, <2>3
  <2>5. bought' \in [Requests -> [Products -> Nat]] /\ bought \in [Requests -> [Products -> Nat]]
    BY <1>3 DEF Typed
  <2> HIDE DEF bought
  <2> QED
    BY <2>2, <2>4, <2>5
<1>6. PICK line \in Lines : line = items[r]
  BY <1>2
<1>7. TheShop!Place(r, line)
  BY <1>3, <1>4, <1>5, <1>6 DEF TheShop!Place
<1> QED
  BY <1>7

\* A job's commit settles the order it holds, and puts its lines back or not.
LEMMA ShopSettles ==
  ASSUME HInv, NEW c \in Receipts, NEW phase \in {"ok", "failed"}, Settles(c, phase),
         UNCHANGED <<arg, items>>
  PROVE  \E result \in {"CONFIRMED", "CANCELLED"} : TheShop!Settle(Order(c), result)
<1> USE DEF HInv
<1> DEFINE o == Order(c)
           key == [s \in Requests |-> C!Key(s)]
           bought == [s \in Requests |-> [p \in Products |-> IF order[s] = "none" THEN 0 ELSE items[s][p]]]
<1>1. /\ o \in Requests /\ order[o] = "pending"
      /\ \/ avail' = avail /\ order' = [order EXCEPT ![o] = "CONFIRMED"]
         \/ /\ order' = [order EXCEPT ![o] = "CANCELLED"]
            /\ avail' = [p \in Products |-> avail[p] + items[o][p]]
  BY SettleMoves DEF Settles
<1>2. key' = key
  BY DEF C!Key
<1>3. bought' = bought
  <2>1. \A s \in Requests : order'[s] = "none" <=> order[s] = "none"
    BY <1>1 DEF Typed
  <2> QED
    BY <2>1
<1>4. \A p \in Products : bought[o][p] = items[o][p]
  BY <1>1
<1>5. CASE avail' = avail /\ order' = [order EXCEPT ![o] = "CONFIRMED"]
  BY <1>1, <1>2, <1>3, <1>5 DEF TheShop!Settle
<1>6. CASE /\ order' = [order EXCEPT ![o] = "CANCELLED"]
           /\ avail' = [p \in Products |-> avail[p] + items[o][p]]
  <2>1. avail' = [p \in Products |-> avail[p] + bought[o][p]]
    BY <1>4, <1>6
  <2> QED
    BY <1>1, <1>2, <1>3, <1>6, <2>1 DEF TheShop!Settle
<1> QED
  BY <1>1, <1>5, <1>6

\* Every step of the system is one of the shop, or changes nothing of it.
LEMMA ShopStep == HInv /\ [Next]_vars => [TheShop!Next]_(TheShop!vars)
<1> SUFFICES ASSUME HInv, [Next]_vars PROVE TheShop!Next \/ UNCHANGED TheShop!vars
  OBVIOUS
<1>1. ApiMoves \/ WorkerMoves
  BY Steps DEF HInv
<1>2. arg' = arg
  BY <1>1 DEF ApiMoves, WorkerMoves
<1>3. ASSUME UNCHANGED <<order, avail, items>> PROVE UNCHANGED TheShop!vars
  BY <1>2, <1>3, ShopStays
<1>4. ASSUME NEW r \in Requests, NEW phase \in C!Phases, Walks(r, phase)
      PROVE  UNCHANGED TheShop!vars
  <2>1. ASSUME NEW s \in Requests, order[s] # "none" PROVE items'[s] = items[s]
    <3>1. CASE items' = items
      BY <3>1
    <3>2. CASE items' = [items EXCEPT ![r] = cartItems[C!Cart(r)]]
      <4>1. items[s] = Line(CartOf[s]) /\ cartItems[C!Cart(r)] = Line(CartOf[r])
        BY <2>1, CallTyped DEF HInv, LinesAreRows, CartsAsFilled
      <4> QED
        BY <3>2, <4>1 DEF HInv, Typed
    <3> QED
      BY <1>4, <3>1, <3>2 DEF Walks
  <2> QED
    BY <1>2, <1>4, <2>1, ShopStays DEF Walks
<1>5. ASSUME NEW r \in Requests, NEW phase \in C!Phases, Commits(r, phase)
      PROVE  TheShop!Next
  BY <1>2, <1>5, ShopPlaces DEF TheShop!Next
<1>6. ASSUME NEW p \in Products, NEW qty \in 1..MaxQty, Restocks(p, qty)
      PROVE  TheShop!Next
  <2>1. [r \in Requests |-> C!Key(r)]' = [r \in Requests |-> C!Key(r)]
    BY <1>2 DEF C!Key
  <2>2. TheShop!Restock(p, qty)
    BY <1>6, <2>1 DEF Restocks, TheShop!Restock
  <2> QED
    BY <2>2 DEF TheShop!Next
<1>7. ASSUME NEW c \in Receipts, NEW phase \in {"ok", "failed"}, Settles(c, phase), items' = items
      PROVE  TheShop!Next
  <2>1. Order(c) \in Requests
    BY ReceiptNames
  <2> QED
    BY <1>2, <1>7, <2>1, ShopSettles DEF TheShop!Next
<1>8. CASE ApiMoves
  BY <1>3, <1>4, <1>5, <1>6, <1>8 DEF ApiMoves, LocksRow, Ends
<1>9. CASE WorkerMoves
  BY <1>3, <1>7, <1>9 DEF WorkerMoves, LocksOrder, TakesRow, Fails, Starts, HandsOut
<1> QED
  BY <1>1, <1>8, <1>9

\* The API and the workers together are the shop: an order is placed once under
\* its key, settled once, and nothing else moves the stock but a restock.
THEOREM ShopRefinement == Spec => ImplementsShop
<1>1. HInv /\ [Next]_vars => [TheShop!Next]_(TheShop!vars)
  BY ShopStep
<1> QED
  BY ShopInit, <1>1, Invariance, PTL DEF Spec, ImplementsShop, TheShop!Spec
=============================================================================
