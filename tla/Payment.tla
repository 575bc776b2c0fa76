-------------------------------- MODULE Payment --------------------------------
(***************************************************************************)
(* The payment worker: workers/payment.worker.js receives the checkout     *)
(* events from SQS and services/payment-worker.service.js settles each     *)
(* order in a transaction.                                                 *)
(*                                                                         *)
(* A worker handles its batch one message at a time.  The transaction it   *)
(* starts for a message is a job of its own: withTimeout stops waiting for *)
(* a slow one but does not stop it, so it may still commit later.  A job   *)
(* is named by the receipt it was started for: <<message, receive count>>. *)
(* The table variables hold committed rows.                                *)
(***************************************************************************)
EXTENDS Naturals, Sequences, FiniteSets

CONSTANTS
  Workers,          \* worker processes
  Messages,         \* messages ever sent to the queue (two may name one order)
  Orders, Products,
  MsgOrder,         \* the orderId in a message's body, or Invalid
  OrderItems,       \* order_items by id: a sequence of [product, qty]
  MaxQty,           \* largest value of the integer column available_qty
  MaxBatch,         \* SQS_POLL_MAX_MESSAGES
  MaxReceiveCount,  \* SQS_WORKER_MAX_RECEIVE_COUNT
  DlqUrlSet,        \* whether SQS_DLQ_URL is set
  MaxFaults,        \* bound: faults a behaviour may contain
  None,             \* no lock holder, no receipt
  Invalid           \* a body without a positive integer orderId

\* Every receipt past MaxReceiveCount is the work of a fault.
Receipts == Messages \X (1..(MaxReceiveCount + MaxFaults))

ASSUME ConstantsOK ==
  /\ MsgOrder \in [Messages -> Orders \cup {Invalid}] /\ Invalid \notin Orders
  /\ OrderItems \in [Orders -> Seq([product : Products, qty : Nat \ {0}])]
  /\ MaxQty \in Nat /\ MaxFaults \in Nat
  /\ MaxBatch \in Nat \ {0} /\ MaxReceiveCount \in Nat \ {0}
  /\ DlqUrlSet \in BOOLEAN
  /\ None \notin Receipts

\* order_items copies cart_items, whose rows are unique by cart and product.
ASSUME OneRowPerProduct ==
  \A o \in Orders : \A i, j \in DOMAIN OrderItems[o] :
    OrderItems[o][i].product = OrderItems[o][j].product => i = j

VARIABLES
  status,     \* orders.status; "none" for an id without a row
  avail,      \* inventory.available_qty
  orderLock,  \* holder of the row lock of an order
  stockLock,  \* holder of the row lock of a product's inventory
  job,        \* the phase of each receipt's transaction
  runner,     \* the worker process running it
  place,      \* where SQS has a message: queued, inFlight (invisible) or gone
  count,      \* its ApproximateReceiveCount
  dlq,        \* copies of it in the dead-letter queue
  wpc,        \* where each worker is
  cur,        \* the receipt it is handling
  batch,      \* receipts of its batch not yet handled
  faults      \* faults left

tables == <<status, avail>>
locks  == <<orderLock, stockLock>>
sqs    == <<place, count, dlq>>
worker == <<wpc, cur, batch>>
vars   == <<status, avail, orderLock, stockLock, job, runner, place, count, dlq,
            wpc, cur, batch, faults>>

Msg(c)    == c[1]
Order(c)  == MsgOrder[Msg(c)]
Items(c)  == IF Order(c) = Invalid THEN <<>> ELSE OrderItems[Order(c)]
InTxn     == {"lock", "restore", "confirm"}
Settled   == {"CONFIRMED", "CANCELLED"}
Phases    == InTxn \cup {"none", "ok", "failed"}
WPhases   == {"poll", "next", "wait", "delete", "send", "purge"}

\* The quantity of p in order o.
Units(o, p) ==
  IF \E i \in DOMAIN OrderItems[o] : OrderItems[o][i].product = p
  THEN OrderItems[o][CHOOSE i \in DOMAIN OrderItems[o] : OrderItems[o][i].product = p].qty
  ELSE 0

Fault == faults > 0 /\ faults' = faults - 1
Freed(lock, gone) == [x \in DOMAIN lock |-> IF lock[x] \in gone THEN None ELSE lock[x]]
EndTxns(gone) == orderLock' = Freed(orderLock, gone) /\ stockLock' = Freed(stockLock, gone)
JobTo(c, phase) == job' = [job EXCEPT ![c] = phase]
WorkerTo(w, phase) == wpc' = [wpc EXCEPT ![w] = phase]

Init ==
  /\ status \in [Orders -> {"none", "pending"}]
  /\ avail \in [Products -> 0..MaxQty]
  /\ orderLock = [o \in Orders |-> None]
  /\ stockLock = [p \in Products |-> None]
  /\ job = [c \in Receipts |-> "none"]
  /\ runner = [c \in Receipts |-> None]
  /\ place = [m \in Messages |-> "queued"]
  /\ count = [m \in Messages |-> 0]
  /\ dlq = [m \in Messages |-> 0]
  /\ wpc = [w \in Workers |-> "poll"]
  /\ cur = [w \in Workers |-> None]
  /\ batch = [w \in Workers |-> {}]
  /\ faults = MaxFaults

-----------------------------------------------------------------------------
(* processOrderPayment. *)

\* Mutant: the order is settled whatever its status.
AnyStatus(c) == TRUE

Pending(c) == status[Order(c)] = "pending"

\* Mutant: the SELECT of the order has no FOR UPDATE.
NoOrderLock(c) == TRUE

OrderFree(c) == orderLock[Order(c)] = None

\* BEGIN and SELECT ... FOR UPDATE of the order.  A missing or already settled
\* order ends the job; a pending one gets a payment result.
LockOrder(c) ==
  /\ job[c] = "lock"
  /\ OrderFree(c)
  /\ \/ ~Pending(c) /\ JobTo(c, "ok") /\ UNCHANGED orderLock
     \/ /\ Pending(c)
        /\ orderLock' = [orderLock EXCEPT ![Order(c)] = c]
        /\ \E result \in {"confirm", "restore"} : JobTo(c, result)
  /\ UNCHANGED <<tables, stockLock, sqs, runner, worker, faults>>

\* restoreInventoryForItems updates one row after the other, in order_items id
\* order: item i is the next one.
NextItem(c, i) ==
  /\ job[c] = "restore"
  /\ i \in DOMAIN Items(c)
  /\ stockLock[Items(c)[i].product] # c
  /\ \A j \in 1..(i - 1) : stockLock[Items(c)[j].product] = c

\* Mutant: the column is wider than the integer the model's MaxQty stands for.
AlwaysFits(item) == TRUE

Fits(item) == avail[item.product] + item.qty <= MaxQty

RestoreItem(c, i) ==
  LET item == Items(c)[i]
  IN  /\ NextItem(c, i)
      /\ stockLock[item.product] = None
      /\ IF Fits(item)
         THEN /\ stockLock' = [stockLock EXCEPT ![item.product] = c]
              /\ UNCHANGED <<orderLock, job>>
         ELSE EndTxns({c}) /\ JobTo(c, "failed")   \* integer out of range
      /\ UNCHANGED <<tables, sqs, runner, worker, faults>>

\* The status UPDATE and COMMIT.
Settle(c) ==
  /\ \/ /\ job[c] = "confirm"
        /\ status' = [status EXCEPT ![Order(c)] = "CONFIRMED"]
        /\ UNCHANGED avail
     \/ /\ job[c] = "restore"
        /\ \A i \in DOMAIN Items(c) : stockLock[Items(c)[i].product] = c
        /\ status' = [status EXCEPT ![Order(c)] = "CANCELLED"]
        /\ avail' = [p \in Products |-> avail[p] + Units(Order(c), p)]
  /\ EndTxns({c})

CommitJob(c) ==
  /\ Settle(c)
  /\ JobTo(c, "ok")
  /\ UNCHANGED <<sqs, runner, worker, faults>>

\* Mutant: the client goes back to the pool without a ROLLBACK.
JobFailsOpen(c) == Fault /\ job[c] \in InTxn /\ JobTo(c, "failed")
                   /\ UNCHANGED <<tables, locks, sqs, runner, worker>>

\* A query or the ROLLBACK throws; the server ends the transaction.
JobFails(c) ==
  /\ Fault
  /\ job[c] \in InTxn
  /\ EndTxns({c})
  /\ JobTo(c, "failed")
  /\ UNCHANGED <<tables, sqs, runner, worker>>

\* The connection is lost after the server executed COMMIT.
CommitUnacked(c) ==
  /\ Fault
  /\ Settle(c)
  /\ JobTo(c, "failed")
  /\ UNCHANGED <<sqs, runner, worker>>

WaitsFor(c, d) ==
  \E i \in DOMAIN Items(c) : NextItem(c, i) /\ stockLock[Items(c)[i].product] = d

\* The server aborts c's transaction.
Aborted(c) ==
  /\ EndTxns({c})
  /\ JobTo(c, "failed")
  /\ UNCHANGED <<tables, sqs, runner, worker, faults>>

\* Postgres fails one transaction of a cycle of waiting transactions.
DeadlockVictim(c) ==
  /\ \E S \in SUBSET {d \in Receipts : job[d] = "restore"} :
       /\ c \in S
       /\ \A d \in S : (\E e \in S : WaitsFor(d, e)) /\ (\E e \in S : WaitsFor(e, d))
  /\ Aborted(c)

\* Checkouts and restocks change the stock as well, under the row lock.
Trade(p) ==
  /\ stockLock[p] = None
  /\ \E qty \in {avail[p] - 1, avail[p] + 1} \cap 0..MaxQty :
       avail' = [avail EXCEPT ![p] = qty]
  /\ UNCHANGED <<status, locks, job, sqs, runner, worker, faults>>

-----------------------------------------------------------------------------
(* pollOnce and processOneMessage. *)

\* SQS hands out queued messages, which become invisible, and counts it.
HandOut(S) ==
  /\ S # {} /\ Cardinality(S) <= MaxBatch
  /\ \A m \in S : place[m] = "queued" /\ <<m, count[m] + 1>> \in Receipts
  /\ place' = [m \in Messages |-> IF m \in S THEN "inFlight" ELSE place[m]]
  /\ count' = [m \in Messages |-> IF m \in S THEN count[m] + 1 ELSE count[m]]
  /\ UNCHANGED dlq

Receive(w) ==
  /\ wpc[w] = "poll"
  /\ \E S \in SUBSET Messages :
       HandOut(S) /\ batch' = [batch EXCEPT ![w] = {<<m, count[m] + 1>> : m \in S}]
  /\ WorkerTo(w, "next")
  /\ UNCHANGED <<tables, locks, job, runner, cur, faults>>

\* The response is lost, or comes after pollTimeoutMs.
ReceiveLost(w) ==
  /\ Fault
  /\ wpc[w] = "poll"
  /\ \E S \in SUBSET Messages : HandOut(S)
  /\ UNCHANGED <<tables, locks, job, runner, worker>>

\* The next message of the batch, its job in the given phase: an invalid body
\* goes straight to the DLQ.
Take(w, phase) ==
  /\ wpc[w] = "next"
  /\ \E c \in batch[w] :
       /\ cur' = [cur EXCEPT ![w] = c]
       /\ batch' = [batch EXCEPT ![w] = @ \ {c}]
       /\ IF Order(c) = Invalid
          THEN WorkerTo(w, "send") /\ UNCHANGED <<job, runner>>
          ELSE /\ WorkerTo(w, "wait")
               /\ JobTo(c, phase)
               /\ runner' = [runner EXCEPT ![c] = w]
  /\ UNCHANGED <<tables, locks, sqs, faults>>

Begin(w) == Take(w, "lock")

BatchDone(w) ==
  /\ wpc[w] = "next" /\ batch[w] = {}
  /\ WorkerTo(w, "poll")
  /\ cur' = [cur EXCEPT ![w] = None]
  /\ UNCHANGED <<tables, locks, job, runner, sqs, batch, faults>>

\* Mutants: off by one at the retry ceiling, either way.
CeilingEarly(n) == n + 1 >= MaxReceiveCount
CeilingLate(n)  == n > MaxReceiveCount

AtCeiling(n) == n >= MaxReceiveCount

\* The catch around processing and deleting: at the retry ceiling the message
\* is given up, below it the message waits for its visibility timeout.
GiveUpOrRetry(w) == WorkerTo(w, IF AtCeiling(cur[w][2]) THEN "send" ELSE "next")

\* Mutant: the message is deleted in a finally block, processed or not.
Returned(w) == job[cur[w]] \in {"ok", "failed"}

Succeeded(w) == job[cur[w]] = "ok"

\* Mutant: withTimeout clears its timer when the job fails, and never rejects.
NeverRejects(w) == FALSE

Rejected(w) == job[cur[w]] = "failed"

\* The promise the worker awaits: the job's, as long as it is in time.
JobAnswers(w) ==
  /\ wpc[w] = "wait"
  /\ \/ Succeeded(w) /\ WorkerTo(w, "delete")
     \/ Rejected(w) /\ GiveUpOrRetry(w)
  /\ UNCHANGED <<tables, locks, job, runner, sqs, cur, batch, faults>>

\* withTimeout rejects; the job goes on.
TimesOut(w) ==
  /\ Fault
  /\ wpc[w] = "wait" /\ job[cur[w]] \in InTxn
  /\ GiveUpOrRetry(w)
  /\ UNCHANGED <<tables, locks, job, runner, sqs, cur, batch>>

\* DeleteMessage with receipt c: SQS may ignore a receipt that is not the last.
Deleted(c) ==
  \/ place' = [place EXCEPT ![Msg(c)] = "gone"]
  \/ c[2] # count[Msg(c)] /\ UNCHANGED place

Delete(w) ==
  /\ wpc[w] \in {"delete", "purge"}
  /\ Deleted(cur[w])
  /\ WorkerTo(w, "next")
  /\ UNCHANGED <<tables, locks, job, runner, count, dlq, cur, batch, faults>>

\* DeleteMessage throws, whether or not SQS executed it.  After processing the
\* same catch handles it; after a DLQ send it is only logged.
DeleteFails(w) ==
  /\ Fault
  /\ \/ wpc[w] = "delete" /\ GiveUpOrRetry(w)
     \/ wpc[w] = "purge" /\ WorkerTo(w, "next")
  /\ Deleted(cur[w]) \/ UNCHANGED place
  /\ UNCHANGED <<tables, locks, job, runner, count, dlq, cur, batch>>

\* moveToDlqAndDelete up to its delete; without a DLQ the message is dropped.
SendToDlq(w) ==
  /\ wpc[w] = "send"
  /\ dlq' = [dlq EXCEPT ![Msg(cur[w])] = @ + IF DlqUrlSet THEN 1 ELSE 0]
  /\ WorkerTo(w, "purge")
  /\ UNCHANGED <<tables, locks, job, runner, place, count, cur, batch, faults>>

\* The send to the DLQ throws, whether or not SQS accepted it: only logged.
SendToDlqFails(w) ==
  /\ Fault
  /\ wpc[w] = "send" /\ DlqUrlSet
  /\ \E stored \in {0, 1} : dlq' = [dlq EXCEPT ![Msg(cur[w])] = @ + stored]
  /\ WorkerTo(w, "next")
  /\ UNCHANGED <<tables, locks, job, runner, place, count, cur, batch>>

-----------------------------------------------------------------------------
Held(m) ==
  \E w \in Workers :
    \/ <<m, count[m]>> \in batch[w]
    \/ cur[w] = <<m, count[m]>> /\ wpc[w] \notin {"poll", "next"}

Reappears(m) ==
  /\ place[m] = "inFlight"
  /\ place' = [place EXCEPT ![m] = "queued"]
  /\ UNCHANGED <<tables, locks, job, count, dlq, runner, worker>>

\* The visibility timeout passes after the worker has left the message...
VisibilityExpires(m) == ~Held(m) /\ Reappears(m) /\ UNCHANGED faults

\* ... or while it is still being handled or waits in the batch.
ExpiresEarly(m) == Fault /\ Held(m) /\ Reappears(m)

\* The transactions w's process runs.
Running(w) == {c \in Receipts : runner[c] = w /\ job[c] \in InTxn}

\* w's process has ended and another one starts with nothing in hand.
NewProcess(w) ==
  /\ WorkerTo(w, "poll")
  /\ cur' = [cur EXCEPT ![w] = None]
  /\ batch' = [batch EXCEPT ![w] = {}]

\* A worker process dies and is replaced; its transactions are rolled back.
Crash(w) ==
  /\ Fault
  /\ wpc[w] # "poll" \/ Running(w) # {}
  /\ EndTxns(Running(w))
  /\ job' = [c \in Receipts |-> IF c \in Running(w) THEN "failed" ELSE job[c]]
  /\ NewProcess(w)
  /\ UNCHANGED <<tables, runner, sqs>>

-----------------------------------------------------------------------------
JobStep(c) ==
  \/ LockOrder(c) \/ (\E i \in DOMAIN Items(c) : RestoreItem(c, i))
  \/ CommitJob(c) \/ DeadlockVictim(c)

WorkerStep(w) ==
  \/ Receive(w) \/ Begin(w) \/ BatchDone(w)
  \/ JobAnswers(w) \/ Delete(w) \/ SendToDlq(w)

\* All that happens to messages and their jobs.
Consume ==
  \/ \E c \in Receipts : JobStep(c) \/ JobFails(c) \/ CommitUnacked(c)
  \/ \E w \in Workers :
       \/ WorkerStep(w) \/ ReceiveLost(w) \/ TimesOut(w)
       \/ DeleteFails(w) \/ SendToDlqFails(w) \/ Crash(w)
  \/ \E m \in Messages : VisibilityExpires(m) \/ ExpiresEarly(m)

Next == Consume \/ \E p \in Products : Trade(p)

Spec == Init /\ [][Next]_vars

\* Workers poll and handle what they receive, started transactions run on, and
\* SQS shows a message again that was not deleted.
FairSpec ==
  /\ Spec
  /\ \A c \in Receipts : WF_vars(JobStep(c))
  /\ \A w \in Workers : WF_vars(WorkerStep(w))
  /\ \A m \in Messages : WF_vars(VisibilityExpires(m))

-----------------------------------------------------------------------------
(* Properties. *)

\* Every variable keeps its type, the stock within its column's CHECK and range.
TypeOK ==
  /\ status \in [Orders -> {"none", "pending"} \cup Settled]
  /\ avail \in [Products -> 0..MaxQty]
  /\ orderLock \in [Orders -> Receipts \cup {None}]
  /\ stockLock \in [Products -> Receipts \cup {None}]
  /\ job \in [Receipts -> Phases]
  /\ runner \in [Receipts -> Workers \cup {None}]
  /\ place \in [Messages -> {"queued", "inFlight", "gone"}]
  /\ count \in [Messages -> 0..(MaxReceiveCount + MaxFaults)]
  /\ dlq \in [Messages -> Nat]
  /\ wpc \in [Workers -> WPhases]
  /\ cur \in [Workers -> Receipts \cup {None}]
  /\ batch \in [Workers -> SUBSET Receipts]
  /\ faults \in 0..MaxFaults

\* A settled order stays as it was settled, although duplicates of its event,
\* redeliveries and jobs the worker no longer waits for keep arriving at it.
SettledOnce ==
  [][\A o \in Orders : status[o] \in Settled => status'[o] = status[o]]_vars

\* A message only leaves the queue when its order needs it no more, or when it
\* was given up: a copy is in the DLQ or, without a DLQ, it was received
\* MaxReceiveCount times or had no order at all.
NoneLost ==
  \A m \in Messages : place[m] = "gone" =>
    \/ MsgOrder[m] \in Orders /\ status[MsgOrder[m]] # "pending"
    \/ dlq[m] > 0
    \/ ~DlqUrlSet /\ (MsgOrder[m] = Invalid \/ count[m] >= MaxReceiveCount)

\* Only a message that was received MaxReceiveCount times, or has no order in
\* its body, is put in the DLQ.
ParkedAfterRetries ==
  \A m \in Messages :
    dlq[m] > 0 => MsgOrder[m] = Invalid \/ count[m] >= MaxReceiveCount

\* Faults that end are survived: every message finally leaves the queue, its
\* order settled or the message given up.
EveryMessageEnds ==
  \A m \in Messages : <>(place[m] = "gone")

\* Only a message whose processing keeps failing is moved to the DLQ: not one
\* whose order is settled.
ParkedOrdersUnsettled ==
  [][\A m \in Messages :
       dlq'[m] > dlq[m] /\ MsgOrder[m] \in Orders => status[MsgOrder[m]] \notin Settled]_vars

-----------------------------------------------------------------------------
\* What the rest of the shop may rely on.
Orderly == INSTANCE Settlement WITH
  stock  <- avail,
  Bought <- [o \in Orders |-> [p \in Products |-> Units(o, p)]]

ImplementsSettlement == Orderly!Spec
=============================================================================
