----------------------------- MODULE PaymentProofs -----------------------------
(***************************************************************************)
(* Proofs about Payment, for any number of workers, messages, orders and   *)
(* products.                                                               *)
(*                                                                         *)
(* That a duplicate, a redelivery or a job nobody waits for any more finds *)
(* its order settled is decided when the job locks the order and true when *)
(* it commits; that a message leaves the queue for a reason is decided     *)
(* when its job answers and acted on several steps later.  PInv carries    *)
(* both from the one step to the other.                                    *)
(*                                                                         *)
(* The lemmas are stated action by action and allow the phase "ended" of   *)
(* WorkerShutdown, whose worker does all that Payment's does.              *)
(***************************************************************************)
EXTENDS Payment, TLAPS

-----------------------------------------------------------------------------
(* The inductive invariant. *)

\* TypeOK, but for a loop that has ended.
Typed ==
  /\ status \in [Orders -> {"none", "pending"} \cup Settled]
  /\ avail \in [Products -> 0..MaxQty]
  /\ orderLock \in [Orders -> Receipts \cup {None}]
  /\ stockLock \in [Products -> Receipts \cup {None}]
  /\ job \in [Receipts -> Phases]
  /\ runner \in [Receipts -> Workers \cup {None}]
  /\ place \in [Messages -> {"queued", "inFlight", "gone"}]
  /\ count \in [Messages -> 0..(MaxReceiveCount + MaxFaults)]
  /\ dlq \in [Messages -> Nat]
  /\ wpc \in [Workers -> WPhases \cup {"ended"}]
  /\ cur \in [Workers -> Receipts \cup {None}]
  /\ batch \in [Workers -> SUBSET Receipts]
  /\ faults \in 0..MaxFaults

\* A job past the SELECT FOR UPDATE holds its order, which is still pending; a
\* job that answered the worker left its order settled, or found none.
OrderHeld ==
  \A c \in Receipts :
    /\ job[c] # "none" => Order(c) \in Orders
    /\ job[c] \in {"restore", "confirm"} =>
         orderLock[Order(c)] = c /\ status[Order(c)] = "pending"
    /\ job[c] = "ok" => status[Order(c)] # "pending"

\* A locked stock row belongs to a job that puts items back, and has room for
\* them.
StockFits ==
  \A p \in Products : stockLock[p] # None =>
    /\ job[stockLock[p]] = "restore"
    /\ avail[p] + Units(Order(stockLock[p]), p) <= MaxQty

\* A receipt is used once: SQS counts every one it hands out, a batch holds
\* those no job was started for, and no two workers hold the same.
ReceiptsFresh ==
  /\ \A c \in Receipts : job[c] # "none" => c[2] <= count[Msg(c)]
  /\ \A w \in Workers : \A c \in batch[w] : job[c] = "none" /\ c[2] <= count[Msg(c)]
  /\ \A w, v \in Workers : w # v => batch[w] \cap batch[v] = {}

GivenUp(m) == MsgOrder[m] = Invalid \/ count[m] >= MaxReceiveCount

\* What a worker knows of the message it handles, at each of its phases.
Knows(w) ==
  wpc[w] \in {"wait", "delete", "send", "purge"} =>
    LET c == cur[w]
    IN  /\ c \in Receipts /\ c[2] <= count[Msg(c)]
        /\ wpc[w] \in {"wait", "delete"} => Order(c) \in Orders
        /\ wpc[w] = "delete" => status[Order(c)] # "pending"
        /\ wpc[w] = "send" => GivenUp(Msg(c))
        /\ wpc[w] = "purge" => dlq[Msg(c)] > 0 \/ (~DlqUrlSet /\ GivenUp(Msg(c)))

MessageKnown == \A w \in Workers : Knows(w)

PInv ==
  /\ Typed
  /\ OrderHeld
  /\ StockFits
  /\ ReceiptsFresh
  /\ MessageKnown
  /\ NoneLost
  /\ ParkedAfterRetries

-----------------------------------------------------------------------------
(* Lemmas about the operators. *)

\* A receipt names a message and the number of its delivery.
LEMMA ReceiptParts ==
  ASSUME NEW c \in Receipts
  PROVE  /\ Msg(c) \in Messages
         /\ c[2] \in Nat /\ c[2] <= MaxReceiveCount + MaxFaults
         /\ c = <<Msg(c), c[2]>>
         /\ Order(c) \in Orders \cup {Invalid}
  BY ConstantsOK DEF Receipts, Msg, Order

\* The elements of a sequence are of its type.
LEMMA SeqElements ==
  ASSUME NEW S, NEW s \in Seq(S), NEW i \in DOMAIN s
  PROVE  s[i] \in S
  OBVIOUS

\* An order's items are of its products, and Units sums up the one row of each.
LEMMA ItemUnits ==
  ASSUME NEW o \in Orders
  PROVE  /\ \A i \in DOMAIN OrderItems[o] :
              LET item == OrderItems[o][i]
              IN  item.product \in Products /\ item.qty \in Nat /\ Units(o, item.product) = item.qty
         /\ \A p \in Products : Units(o, p) \in Nat
         /\ \A p \in Products :
              Units(o, p) # 0 => \E i \in DOMAIN OrderItems[o] : OrderItems[o][i].product = p
<1>1. OrderItems[o] \in Seq([product : Products, qty : Nat \ {0}])
  BY ConstantsOK
<1>2. \A i \in DOMAIN OrderItems[o] :
        OrderItems[o][i].product \in Products /\ OrderItems[o][i].qty \in Nat
  <2> TAKE i \in DOMAIN OrderItems[o]
  <2>1. OrderItems[o][i] \in [product : Products, qty : Nat \ {0}]
    BY <1>1, SeqElements
  <2> QED
    BY <2>1
<1>3. ASSUME NEW i \in DOMAIN OrderItems[o]
      PROVE  Units(o, OrderItems[o][i].product) = OrderItems[o][i].qty
  <2> DEFINE p == OrderItems[o][i].product
             j == CHOOSE k \in DOMAIN OrderItems[o] : OrderItems[o][k].product = p
  <2>1. j \in DOMAIN OrderItems[o] /\ OrderItems[o][j].product = p
    OBVIOUS
  <2>2. j = i
    BY <2>1, OneRowPerProduct
  <2>3. Units(o, p) = OrderItems[o][j].qty
    BY <2>1 DEF Units
  <2> QED
    BY <2>2, <2>3
<1>4. \A p \in Products : Units(o, p) \in Nat
  BY <1>2, <1>3 DEF Units
<1>5. ASSUME NEW p \in Products, Units(o, p) # 0
      PROVE  \E i \in DOMAIN OrderItems[o] : OrderItems[o][i].product = p
  BY <1>5 DEF Units
<1> QED
  BY <1>2, <1>3, <1>4, <1>5

\* Ending transactions frees their locks and no other.
LEMMA FreedLocks ==
  ASSUME NEW D, NEW lock \in [D -> Receipts \cup {None}], NEW gone
  PROVE  /\ Freed(lock, gone) \in [D -> Receipts \cup {None}]
         /\ \A x \in D : /\ lock[x] \notin gone => Freed(lock, gone)[x] = lock[x]
                         /\ lock[x] \in gone => Freed(lock, gone)[x] = None
  BY DEF Freed

-----------------------------------------------------------------------------
(* The jobs. *)

\* What a job does disturbs neither the queue nor a worker: settled orders stay
\* settled, and a job never returns to the batch.
LEMMA JobFrame ==
  ASSUME PInv, Typed', UNCHANGED <<sqs, worker>>,
         \A o \in Orders : status[o] # "pending" => status'[o] # "pending",
         \A c \in Receipts : job'[c] = "none" <=> job[c] = "none"
  PROVE  ReceiptsFresh' /\ MessageKnown' /\ NoneLost' /\ ParkedAfterRetries'
<1> USE DEF sqs, worker
<1>1. ReceiptsFresh'
  BY DEF PInv, ReceiptsFresh, Typed
<1>2. MessageKnown'
  BY DEF PInv, MessageKnown, Knows, GivenUp, Order
<1>3. NoneLost' /\ ParkedAfterRetries'
  BY DEF PInv, NoneLost, ParkedAfterRetries
<1> QED
  BY <1>1, <1>2, <1>3

\* LockOrder: a pending order is locked, and no other job can have it then.
LEMMA LockOrderStep ==
  ASSUME PInv, NEW c \in Receipts, LockOrder(c)
  PROVE  PInv'
<1> USE DEF tables, sqs, worker, JobTo
<1>1. /\ job[c] = "lock" /\ Order(c) \in Orders
      /\ UNCHANGED <<tables, stockLock, sqs, runner, worker, faults>>
  BY DEF LockOrder, PInv, OrderHeld
<1>2. \A d \in Receipts : job[d] \in {"restore", "confirm"} => Order(d) # Order(c)
  BY ConstantsOK DEF LockOrder, OrderFree, PInv, OrderHeld
<1>3. PICK phase \in {"ok", "confirm", "restore"} :
        /\ job' = [job EXCEPT ![c] = phase]
        /\ \/ phase = "ok" /\ status[Order(c)] # "pending" /\ UNCHANGED orderLock
           \/ /\ phase # "ok" /\ status[Order(c)] = "pending"
              /\ orderLock' = [orderLock EXCEPT ![Order(c)] = c]
  BY DEF LockOrder, Pending
<1>4. Typed'
  BY <1>1, <1>3 DEF PInv, Typed, Phases, InTxn
<1>5. OrderHeld'
  BY <1>1, <1>2, <1>3 DEF PInv, OrderHeld, Typed, Order
<1>6. StockFits'
  BY <1>1, <1>3 DEF PInv, StockFits, Typed, Order
<1>7. ReceiptsFresh' /\ MessageKnown' /\ NoneLost' /\ ParkedAfterRetries'
  BY <1>1, <1>3, <1>4, JobFrame DEF PInv, Typed
<1> QED
  BY <1>4, <1>5, <1>6, <1>7 DEF PInv

\* Transactions that fail give their locks back; the tables stay as they are.
LEMMA FailStep ==
  ASSUME PInv, NEW gone \in SUBSET {c \in Receipts : job[c] \in InTxn},
         EndTxns(gone), job' = [c \in Receipts |-> IF c \in gone THEN "failed" ELSE job[c]],
         faults' \in 0..MaxFaults, UNCHANGED <<tables, runner>>
  PROVE  /\ OrderHeld' /\ StockFits'
         /\ UNCHANGED <<sqs, worker>> => PInv'
<1> USE DEF tables, EndTxns
<1>1. /\ orderLock' \in [Orders -> Receipts \cup {None}]
      /\ stockLock' \in [Products -> Receipts \cup {None}]
      /\ job' \in [Receipts -> Phases]
  BY FreedLocks DEF PInv, Typed, Phases
<1>2. OrderHeld'
  BY FreedLocks DEF PInv, Typed, OrderHeld, Order, InTxn
<1>3. StockFits'
  <2> SUFFICES ASSUME NEW p \in Products, stockLock'[p] # None
               PROVE  /\ job'[stockLock'[p]] = "restore"
                      /\ avail'[p] + Units(Order(stockLock'[p]), p) <= MaxQty
    BY DEF StockFits, Order
  <2>1. stockLock'[p] = stockLock[p] /\ stockLock[p] \notin gone /\ stockLock[p] \in Receipts
    BY FreedLocks DEF PInv, Typed
  <2> QED
    BY <2>1 DEF PInv, StockFits
<1>4. ASSUME UNCHANGED <<sqs, worker>> PROVE PInv'
  <2>1. Typed'
    BY <1>1, <1>4 DEF PInv, Typed, sqs, worker
  <2>2. \A c \in Receipts : job'[c] = "none" <=> job[c] = "none"
    BY DEF InTxn
  <2> QED
    BY <1>2, <1>3, <1>4, <2>1, <2>2, JobFrame DEF PInv
<1> QED
  BY <1>2, <1>3, <1>4

\* RestoreItem: the row of the next item is locked if the units fit in it, and
\* otherwise the transaction fails.
LEMMA RestoreItemStep ==
  ASSUME PInv, NEW c \in Receipts, NEW i \in DOMAIN Items(c), RestoreItem(c, i)
  PROVE  PInv'
<1> DEFINE item == Items(c)[i]
<1>1. /\ job[c] = "restore" /\ stockLock[item.product] = None
      /\ UNCHANGED <<tables, sqs, runner, worker, faults>>
  BY DEF RestoreItem, NextItem
<1>2. Order(c) \in Orders /\ Items(c) = OrderItems[Order(c)]
  BY <1>1, ConstantsOK DEF PInv, OrderHeld, Items
<1>3. item.product \in Products /\ Units(Order(c), item.product) = item.qty
  BY <1>2, ItemUnits
<1>4. CASE Fits(item)
  <2>1. stockLock' = [stockLock EXCEPT ![item.product] = c] /\ UNCHANGED <<orderLock, job>>
    BY <1>4 DEF RestoreItem
  <2>2. avail[item.product] + Units(Order(c), item.product) <= MaxQty
    BY <1>3, <1>4 DEF Fits
  <2>3. Typed'
    BY <1>1, <1>3, <2>1 DEF PInv, Typed, tables, sqs, worker
  <2>4. OrderHeld'
    BY <1>1, <2>1 DEF PInv, OrderHeld, Order, tables
  <2>5. StockFits'
    BY <1>1, <1>3, <2>1, <2>2 DEF PInv, Typed, StockFits, Order, tables
  <2> QED
    BY <1>1, <2>1, <2>3, <2>4, <2>5, JobFrame DEF PInv, tables
<1>5. CASE ~Fits(item)
  <2>1. EndTxns({c}) /\ job' = [job EXCEPT ![c] = "failed"]
    BY <1>5 DEF RestoreItem, JobTo
  <2>2. {c} \in SUBSET {d \in Receipts : job[d] \in InTxn}
    BY <1>1 DEF InTxn
  <2>3. job' = [d \in Receipts |-> IF d \in {c} THEN "failed" ELSE job[d]]
    BY <2>1 DEF PInv, Typed
  <2>4. faults' \in 0..MaxFaults /\ UNCHANGED <<tables, runner, sqs, worker>>
    BY <1>1 DEF PInv, Typed
  <2> QED
    BY <2>1, <2>2, <2>3, <2>4, FailStep
<1> QED
  BY <1>4, <1>5

\* A transaction that fails on its own.
LEMMA AbortStep ==
  ASSUME PInv, NEW c \in Receipts, job[c] \in InTxn, EndTxns({c}), JobTo(c, "failed"),
         faults' \in 0..MaxFaults, UNCHANGED <<tables, sqs, runner, worker>>
  PROVE  PInv'
<1>1. {c} \in SUBSET {d \in Receipts : job[d] \in InTxn}
  OBVIOUS
<1>2. job' = [d \in Receipts |-> IF d \in {c} THEN "failed" ELSE job[d]]
  BY DEF PInv, Typed, JobTo
<1> QED
  BY <1>1, <1>2, FailStep

\* What a settlement does to the tables: one pending order is settled, and the
\* rows that get units back are locked by the job and have room.
LEMMA SettleTables ==
  ASSUME PInv, NEW c \in Receipts, Settle(c)
  PROVE  /\ job[c] \in {"restore", "confirm"} /\ Order(c) \in Orders
         /\ status[Order(c)] = "pending"
         /\ \/ job[c] = "confirm" /\ status' = [status EXCEPT ![Order(c)] = "CONFIRMED"]
            \/ job[c] = "restore" /\ status' = [status EXCEPT ![Order(c)] = "CANCELLED"]
         /\ avail' \in [Products -> 0..MaxQty]
         /\ \A p \in Products : stockLock[p] # c => avail'[p] = avail[p]
<1>1. job[c] \in {"restore", "confirm"}
  BY DEF Settle
<1>2. Order(c) \in Orders /\ status[Order(c)] = "pending" /\ Items(c) = OrderItems[Order(c)]
  BY <1>1, ConstantsOK DEF PInv, OrderHeld, Items
<1>3. CASE /\ job[c] = "restore"
           /\ \A i \in DOMAIN Items(c) : stockLock[Items(c)[i].product] = c
           /\ status' = [status EXCEPT ![Order(c)] = "CANCELLED"]
           /\ avail' = [p \in Products |-> avail[p] + Units(Order(c), p)]
  <2>1. ASSUME NEW p \in Products, Units(Order(c), p) # 0
        PROVE  stockLock[p] = c /\ avail[p] + Units(Order(c), p) <= MaxQty
    <3>1. stockLock[p] = c
      BY <1>2, <1>3, <2>1, ItemUnits
    <3> QED
      BY <3>1, ConstantsOK DEF PInv, StockFits
  <2>2. \A p \in Products : /\ avail[p] \in 0..MaxQty
                            /\ Units(Order(c), p) \in Nat
    BY <1>2, ItemUnits DEF PInv, Typed
  <2>3. \A p \in Products : stockLock[p] # c => avail'[p] = avail[p]
    BY <1>3, <2>1, <2>2
  <2>4. avail' \in [Products -> 0..MaxQty]
    <3>1. \A p \in Products : avail[p] + Units(Order(c), p) \in 0..MaxQty
      BY <2>1, <2>2, ConstantsOK
    <3> QED
      BY <1>3, <3>1
  <2> QED
    BY <1>2, <1>3, <2>3, <2>4
<1>4. CASE /\ job[c] = "confirm"
           /\ status' = [status EXCEPT ![Order(c)] = "CONFIRMED"] /\ UNCHANGED avail
  BY <1>2, <1>4 DEF PInv, Typed
<1> QED
  BY <1>3, <1>4 DEF Settle

\* A settlement, whether or not the worker's process hears of it.
LEMMA SettleStep ==
  ASSUME PInv, NEW c \in Receipts, Settle(c), NEW phase \in {"ok", "failed"}, JobTo(c, phase),
         faults' \in 0..MaxFaults, UNCHANGED <<sqs, runner, worker>>
  PROVE  PInv'
<1> USE SettleTables DEF JobTo
<1>1. EndTxns({c})
  BY DEF Settle
<1>2. Typed'
  BY <1>1, FreedLocks DEF PInv, Typed, EndTxns, Phases, Settled, sqs, worker
<1>3. OrderHeld'
  <2>1. \A d \in Receipts : d # c /\ job[d] \in {"restore", "confirm"} =>
          Order(d) # Order(c) /\ orderLock'[Order(d)] = d
    BY <1>1, FreedLocks DEF PInv, Typed, OrderHeld, EndTxns
  <2>2. \A d \in Receipts : job'[d] = IF d = c THEN phase ELSE job[d]
    BY DEF PInv, Typed
  <2>3. status'[Order(c)] # "pending" /\ \A o \in Orders : o # Order(c) => status'[o] = status[o]
    BY DEF PInv, Typed
  <2> QED
    BY <2>1, <2>2, <2>3 DEF PInv, OrderHeld, Order
<1>4. StockFits'
  <2> SUFFICES ASSUME NEW p \in Products, stockLock'[p] # None
               PROVE  /\ job'[stockLock'[p]] = "restore"
                      /\ avail'[p] + Units(Order(stockLock'[p]), p) <= MaxQty
    BY DEF StockFits, Order
  <2>1. stockLock'[p] = stockLock[p] /\ stockLock[p] # c /\ stockLock[p] \in Receipts
    BY <1>1, FreedLocks DEF PInv, Typed, EndTxns
  <2> QED
    BY <2>1 DEF PInv, StockFits, Typed
<1>5. ReceiptsFresh' /\ MessageKnown' /\ NoneLost' /\ ParkedAfterRetries'
  <2>1. \A o \in Orders : status[o] # "pending" => status'[o] # "pending"
    BY DEF PInv, Typed
  <2>2. \A d \in Receipts : job'[d] = "none" <=> job[d] = "none"
    BY DEF PInv, Typed
  <2> QED
    BY <1>2, <2>1, <2>2, JobFrame
<1> QED
  BY <1>2, <1>3, <1>4, <1>5 DEF PInv

\* Every step of a job, with or without a fault, keeps the invariant.
LEMMA JobSteps ==
  ASSUME PInv, NEW c \in Receipts, JobStep(c) \/ JobFails(c) \/ CommitUnacked(c)
  PROVE  PInv'
<1>1. ASSUME NEW i \in DOMAIN Items(c), RestoreItem(c, i) PROVE PInv'
  BY <1>1, RestoreItemStep
<1>2. CASE CommitJob(c)
  BY <1>2, SettleStep DEF CommitJob, PInv, Typed
<1>3. CASE DeadlockVictim(c)
  BY <1>3, AbortStep DEF DeadlockVictim, Aborted, InTxn, PInv, Typed
<1>4. CASE JobFails(c)
  BY <1>4, AbortStep, ConstantsOK DEF JobFails, Fault, PInv, Typed
<1>5. CASE CommitUnacked(c)
  BY <1>5, SettleStep, ConstantsOK DEF CommitUnacked, Fault, PInv, Typed
<1> QED
  BY <1>1, <1>2, <1>3, <1>4, <1>5, LockOrderStep DEF JobStep

-----------------------------------------------------------------------------
(* The workers and the queue. *)

\* Steps that leave the tables, locks and jobs alone leave the jobs' invariants
\* alone.
LEMMA JobsUntouched ==
  ASSUME PInv, UNCHANGED <<tables, locks, job>>
  PROVE  OrderHeld' /\ StockFits'
  BY DEF PInv, OrderHeld, StockFits, Order, tables, locks

\* What a worker knows outlives a step of another: deliveries and DLQ copies
\* only get more.
LEMMA KnowsOn ==
  ASSUME PInv, NEW v \in Workers, Typed', UNCHANGED tables,
         wpc'[v] = wpc[v] /\ cur'[v] = cur[v],
         \A m \in Messages : count[m] <= count'[m] /\ dlq[m] <= dlq'[m]
  PROVE  Knows(v)'
<1>1. Knows(v)
  BY DEF PInv, MessageKnown
<1> QED
  BY <1>1, ReceiptParts, ConstantsOK DEF PInv, Typed, Knows, GivenUp, tables, Order

\* A step of one worker only needs a look at that worker.
LEMMA OthersKnow ==
  ASSUME PInv, NEW w \in Workers, Typed', UNCHANGED tables,
         \A v \in Workers \ {w} : wpc'[v] = wpc[v] /\ cur'[v] = cur[v],
         \A m \in Messages : count[m] <= count'[m] /\ dlq[m] <= dlq'[m],
         Knows(w)'
  PROVE  MessageKnown'
  BY KnowsOn DEF MessageKnown

\* The first receipt handed out for a delivery is new, and what was true of the
\* deliveries before stays true.
LEMMA HandOutFresh ==
  ASSUME PInv, NEW S \in SUBSET Messages, HandOut(S)
  PROVE  /\ place' \in [Messages -> {"queued", "inFlight", "gone"}]
         /\ count' \in [Messages -> 0..(MaxReceiveCount + MaxFaults)]
         /\ dlq' = dlq
         /\ \A m \in Messages : count[m] <= count'[m] /\ (place'[m] = "gone" => place[m] = "gone")
         /\ \A m \in S : /\ <<m, count[m] + 1>> \in Receipts /\ count'[m] = count[m] + 1
                         /\ job[<<m, count[m] + 1>>] = "none"
                         /\ \A w \in Workers : <<m, count[m] + 1>> \notin batch[w]
<1>1. \A m \in S : <<m, count[m] + 1>> \in Receipts /\ count[m] + 1 <= MaxReceiveCount + MaxFaults
  BY DEF HandOut, Receipts
<1>2. \A m \in S : /\ job[<<m, count[m] + 1>>] = "none"
                   /\ \A w \in Workers : <<m, count[m] + 1>> \notin batch[w]
  BY <1>1 DEF PInv, Typed, ReceiptsFresh, Msg
<1>3. /\ place' \in [Messages -> {"queued", "inFlight", "gone"}]
      /\ count' \in [Messages -> 0..(MaxReceiveCount + MaxFaults)]
  <2>1. place' \in [Messages -> {"queued", "inFlight", "gone"}]
    BY DEF HandOut, PInv, Typed
  <2>2. \A m \in Messages : (IF m \in S THEN count[m] + 1 ELSE count[m]) \in 0..(MaxReceiveCount + MaxFaults)
    <3> TAKE m \in Messages
    <3>1. count[m] \in 0..(MaxReceiveCount + MaxFaults)
      BY DEF PInv, Typed
    <3>2. m \in S => count[m] + 1 <= MaxReceiveCount + MaxFaults
      BY <1>1
    <3> QED
      BY <3>1, <3>2, ConstantsOK
  <2> QED
    BY <2>1, <2>2 DEF HandOut
<1> QED
  BY <1>1, <1>2, <1>3 DEF HandOut, PInv, Typed

\* A delivery, to a worker or to nobody, loses no message.
LEMMA HandOutKeeps ==
  ASSUME PInv, NEW S \in SUBSET Messages, HandOut(S), UNCHANGED tables
  PROVE  NoneLost' /\ ParkedAfterRetries'
<1>1. \A m \in Messages : /\ count[m] \in Nat /\ count'[m] \in Nat /\ count[m] <= count'[m]
                          /\ place'[m] = "gone" => place[m] = "gone"
                          /\ dlq'[m] = dlq[m]
  BY HandOutFresh DEF PInv, Typed
<1>2. \A m \in Messages : count[m] >= MaxReceiveCount => count'[m] >= MaxReceiveCount
  BY <1>1, ConstantsOK
<1> QED
  BY <1>1, <1>2 DEF PInv, NoneLost, ParkedAfterRetries, tables

\* Receive: the batch holds receipts nobody else has.
LEMMA ReceiveStep ==
  ASSUME PInv, NEW w \in Workers, Receive(w)
  PROVE  PInv'
<1> USE DEF tables, locks, WorkerTo
<1>1. PICK S \in SUBSET Messages :
        HandOut(S) /\ batch' = [batch EXCEPT ![w] = {<<m, count[m] + 1>> : m \in S}]
  BY DEF Receive
<1>2. /\ wpc' = [wpc EXCEPT ![w] = "next"]
      /\ UNCHANGED <<tables, locks, job, runner, cur, faults>>
  BY DEF Receive
<1>3. Typed'
  <2>1. batch' \in [Workers -> SUBSET Receipts]
    BY <1>1, HandOutFresh DEF PInv, Typed
  <2> QED
    BY <1>1, <1>2, <2>1, HandOutFresh DEF PInv, Typed, WPhases
<1>4. ReceiptsFresh'
  <2>1. \A c \in Receipts : job'[c] # "none" => c[2] <= count'[Msg(c)]
    BY <1>1, <1>2, HandOutFresh, ReceiptParts DEF PInv, Typed, ReceiptsFresh
  <2>2. \A v \in Workers \ {w} : batch'[v] = batch[v]
    BY <1>1 DEF PInv, Typed
  <2>3. batch'[w] = {<<m, count[m] + 1>> : m \in S}
    BY <1>1 DEF PInv, Typed
  <2>4. ASSUME NEW v \in Workers, NEW c \in batch'[v]
        PROVE  job'[c] = "none" /\ c[2] <= count'[Msg(c)]
    <3>1. CASE v = w
      <4>1. PICK m \in S : c = <<m, count[m] + 1>>
        BY <2>3, <2>4, <3>1
      <4> QED
        BY <1>1, <1>2, <4>1, HandOutFresh DEF Msg, PInv, Typed
    <3>2. CASE v # w
      <4>1. c \in batch[v] /\ c \in Receipts
        BY <2>2, <2>4, <3>2 DEF PInv, Typed
      <4>2. job[c] = "none" /\ c[2] <= count[Msg(c)]
        BY <4>1 DEF PInv, ReceiptsFresh
      <4> QED
        BY <1>1, <1>2, <4>1, <4>2, HandOutFresh, ReceiptParts DEF PInv, Typed
    <3> QED
      BY <3>1, <3>2
  <2>5. \A v, u \in Workers : v # u => batch'[v] \cap batch'[u] = {}
    <3>1. \A v \in Workers \ {w} : batch'[w] \cap batch[v] = {}
      BY <1>1, <2>3, HandOutFresh
    <3> QED
      BY <2>2, <3>1 DEF PInv, ReceiptsFresh
  <2> QED
    BY <2>1, <2>4, <2>5 DEF ReceiptsFresh
<1>5. MessageKnown'
  <2>1. Knows(w)'
    BY <1>2 DEF Knows, PInv, Typed
  <2>2. \A m \in Messages : count[m] <= count'[m] /\ dlq[m] <= dlq'[m]
    BY <1>1, HandOutFresh DEF PInv, Typed
  <2> QED
    BY <1>2, <1>3, <2>1, <2>2, OthersKnow DEF PInv, Typed
<1> QED
  BY <1>1, <1>2, <1>3, <1>4, <1>5, JobsUntouched, HandOutKeeps DEF PInv

\* A delivery nobody gets, to a worker that goes on or to a process that ends.
LEMMA LostHandOutStep ==
  ASSUME PInv, NEW S \in SUBSET Messages, HandOut(S), faults' \in 0..MaxFaults,
         UNCHANGED <<tables, locks, job, runner>>,
         UNCHANGED worker \/ \E w \in Workers : NewProcess(w)
  PROVE  PInv'
<1> USE DEF tables, locks, worker, NewProcess, WorkerTo
<1>1. Typed'
  BY HandOutFresh DEF PInv, Typed, WPhases
<1>2. \A v \in Workers : batch'[v] \subseteq batch[v]
  BY DEF PInv, Typed
<1>3. ReceiptsFresh'
  <2>1. \A c \in Receipts : c[2] <= count[Msg(c)] => c[2] <= count'[Msg(c)]
    BY HandOutFresh, ReceiptParts DEF PInv, Typed
  <2> QED
    BY <1>1, <1>2, <2>1 DEF PInv, Typed, ReceiptsFresh
<1>4. MessageKnown'
  <2>1. \A m \in Messages : count[m] <= count'[m] /\ dlq[m] <= dlq'[m]
    BY HandOutFresh DEF PInv, Typed
  <2>2. \A v \in Workers : wpc'[v] = "poll" \/ (wpc'[v] = wpc[v] /\ cur'[v] = cur[v])
    BY DEF PInv, Typed
  <2>3. \A v \in Workers : wpc'[v] = "poll" => Knows(v)'
    BY DEF Knows
  <2> QED
    BY <1>1, <2>1, <2>2, <2>3, KnowsOn DEF MessageKnown
<1> QED
  BY <1>1, <1>3, <1>4, JobsUntouched, HandOutKeeps DEF PInv

\* The next message of a batch: its job is a new one.  In the phase "failed" it
\* never got a client.
LEMMA TakeStep ==
  ASSUME PInv, NEW w \in Workers, NEW phase \in {"lock", "failed"}, Take(w, phase)
  PROVE  PInv'
<1> USE DEF tables, locks, sqs, WorkerTo, JobTo
<1>1. PICK c \in batch[w] :
        /\ cur' = [cur EXCEPT ![w] = c]
        /\ batch' = [batch EXCEPT ![w] = @ \ {c}]
        /\ IF Order(c) = Invalid
           THEN wpc' = [wpc EXCEPT ![w] = "send"] /\ UNCHANGED <<job, runner>>
           ELSE /\ wpc' = [wpc EXCEPT ![w] = "wait"]
                /\ job' = [job EXCEPT ![c] = phase]
                /\ runner' = [runner EXCEPT ![c] = w]
  BY DEF Take
<1>2. UNCHANGED <<tables, locks, sqs, faults>>
  BY DEF Take
<1>3. /\ c \in Receipts /\ job[c] = "none" /\ c[2] <= count[Msg(c)]
      /\ \A v \in Workers : v # w => c \notin batch[v]
  BY DEF PInv, Typed, ReceiptsFresh
<1>4. \A d \in Receipts : d # c => job'[d] = job[d]
  BY <1>1 DEF PInv, Typed
<1>5. job'[c] # "none" => Order(c) \in Orders /\ job'[c] \in {"lock", "failed"}
  BY <1>1, <1>3, ReceiptParts DEF PInv, Typed
<1>6. Typed'
  BY <1>1, <1>2, <1>3 DEF PInv, Typed, Phases, InTxn, WPhases
<1>7. OrderHeld' /\ StockFits'
  <2>1. OrderHeld'
    BY <1>2, <1>4, <1>5 DEF PInv, OrderHeld, Order
  <2>2. StockFits'
    BY <1>2, <1>3, <1>4 DEF PInv, Typed, StockFits, Order
  <2> QED
    BY <2>1, <2>2
<1>8. ReceiptsFresh'
  <2>1. \A v \in Workers : batch'[v] \subseteq batch[v] /\ c \notin batch'[v]
    BY <1>1, <1>3 DEF PInv, Typed
  <2> QED
    BY <1>2, <1>3, <1>4, <2>1 DEF PInv, Typed, ReceiptsFresh
<1>9. MessageKnown'
  <2>1. Knows(w)'
    BY <1>1, <1>2, <1>3, ReceiptParts DEF PInv, Typed, Knows, GivenUp, Order
  <2>2. \A v \in Workers \ {w} : wpc'[v] = wpc[v] /\ cur'[v] = cur[v]
    BY <1>1 DEF PInv, Typed
  <2> QED
    BY <1>2, <1>6, <2>1, <2>2, OthersKnow DEF PInv, Typed
<1> QED
  BY <1>2, <1>6, <1>7, <1>8, <1>9 DEF PInv, NoneLost, ParkedAfterRetries

\* The steps of a worker in the middle of a message that start no job: enough
\* that it knows what its next phase needs, and that the queue keeps its part.
LEMMA HandleStep ==
  ASSUME PInv, NEW w \in Workers, NEW phase \in WPhases, WorkerTo(w, phase),
         UNCHANGED <<tables, locks, job, runner, count, cur, batch>>, faults' \in 0..MaxFaults,
         place' \in [Messages -> {"queued", "inFlight", "gone"}],
         dlq' \in [Messages -> Nat], \A m \in Messages : dlq[m] <= dlq'[m],
         Knows(w)', NoneLost', ParkedAfterRetries'
  PROVE  PInv'
<1> USE DEF tables, locks, WorkerTo
<1>1. Typed'
  BY DEF PInv, Typed
<1>2. ReceiptsFresh'
  BY DEF PInv, ReceiptsFresh
<1>3. MessageKnown'
  BY <1>1, OthersKnow DEF PInv, Typed
<1> QED
  BY <1>1, <1>2, <1>3, JobsUntouched DEF PInv

\* The catch: at the retry ceiling the message may be given up.
LEMMA GiveUpStep ==
  ASSUME PInv, NEW w \in Workers, wpc[w] \in {"wait", "delete"}, GiveUpOrRetry(w),
         UNCHANGED <<tables, locks, job, runner, count, dlq, cur, batch>>, faults' \in 0..MaxFaults,
         place' \in [Messages -> {"queued", "inFlight", "gone"}], NoneLost'
  PROVE  PInv'
<1>1. /\ cur[w] \in Receipts /\ cur[w][2] <= count[Msg(cur[w])]
      /\ cur[w][2] \in Nat /\ Msg(cur[w]) \in Messages
  BY ReceiptParts DEF PInv, MessageKnown, Knows
<1>2. PICK phase \in {"send", "next"} :
        WorkerTo(w, phase) /\ (phase = "send" => cur[w][2] >= MaxReceiveCount)
  BY DEF GiveUpOrRetry, AtCeiling
<1>3. count[Msg(cur[w])] \in Nat
  BY <1>1 DEF PInv, Typed
<1>4. Knows(w)'
  BY <1>1, <1>2, <1>3, ConstantsOK DEF Knows, GivenUp, WorkerTo, PInv, Typed
<1>5. ParkedAfterRetries'
  BY DEF PInv, ParkedAfterRetries
<1> QED
  BY <1>2, <1>4, <1>5, HandleStep DEF WPhases, PInv, Typed

\* A message only goes when its worker knows why it may.
LEMMA DeletedKnown ==
  ASSUME PInv, NEW w \in Workers, wpc[w] \in {"delete", "purge"},
         Deleted(cur[w]) \/ UNCHANGED place, UNCHANGED <<tables, count, dlq>>
  PROVE  place' \in [Messages -> {"queued", "inFlight", "gone"}] /\ NoneLost'
<1> USE DEF tables
<1>1. /\ cur[w] \in Receipts /\ Msg(cur[w]) \in Messages
      /\ Order(cur[w]) = MsgOrder[Msg(cur[w])]
      /\ wpc[w] = "delete" => Order(cur[w]) \in Orders /\ status[Order(cur[w])] # "pending"
      /\ wpc[w] = "purge" =>
           dlq[Msg(cur[w])] > 0 \/ (~DlqUrlSet /\ GivenUp(Msg(cur[w])))
  BY ReceiptParts DEF PInv, MessageKnown, Knows, Order
<1>2. place' = place \/ place' = [place EXCEPT ![Msg(cur[w])] = "gone"]
  BY DEF Deleted
<1>3. place' \in [Messages -> {"queued", "inFlight", "gone"}]
  BY <1>2 DEF PInv, Typed
<1>4. ASSUME NEW m \in Messages, place'[m] = "gone"
      PROVE  \/ MsgOrder[m] \in Orders /\ status[MsgOrder[m]] # "pending"
             \/ dlq[m] > 0
             \/ ~DlqUrlSet /\ (MsgOrder[m] = Invalid \/ count[m] >= MaxReceiveCount)
  <2>1. CASE place[m] = "gone"
    BY <2>1 DEF PInv, NoneLost
  <2>2. CASE m = Msg(cur[w])
    BY <1>1, <2>2 DEF GivenUp
  <2> QED
    BY <1>2, <1>4, <2>1, <2>2 DEF PInv, Typed
<1> QED
  BY <1>3, <1>4 DEF NoneLost

\* What a worker does with the message in its hands, with or without a fault.
LEMMA MessageSteps ==
  ASSUME PInv, NEW w \in Workers,
         \/ JobAnswers(w) \/ Delete(w) \/ SendToDlq(w)
         \/ TimesOut(w) \/ DeleteFails(w) \/ SendToDlqFails(w)
  PROVE  PInv'
<1>1. Knows(w) /\ NoneLost /\ ParkedAfterRetries
  BY DEF PInv, MessageKnown
<1>2. place \in [Messages -> {"queued", "inFlight", "gone"}] /\ dlq \in [Messages -> Nat]
  BY DEF PInv, Typed
<1>3. faults' = faults \/ Fault => faults' \in 0..MaxFaults
  BY ConstantsOK DEF PInv, Typed, Fault
<1>4. CASE JobAnswers(w)
  <2>1. /\ wpc[w] = "wait" /\ cur[w] \in Receipts
        /\ UNCHANGED <<tables, locks, job, runner, sqs, cur, batch, faults>>
    BY <1>1, <1>4 DEF JobAnswers, Knows
  <2>2. NoneLost' /\ ParkedAfterRetries'
    BY <1>1, <2>1 DEF NoneLost, ParkedAfterRetries, tables, sqs
  <2>3. CASE Succeeded(w) /\ WorkerTo(w, "delete")
    <3>1. Order(cur[w]) \in Orders /\ status[Order(cur[w])] # "pending"
      BY <2>1, <2>3 DEF PInv, OrderHeld, Succeeded
    <3>2. Knows(w)'
      BY <1>1, <2>1, <2>3, <3>1 DEF Knows, WorkerTo, PInv, Typed, Order, tables, sqs
    <3> QED
      BY <1>2, <1>3, <2>1, <2>2, <2>3, <3>2, HandleStep DEF WPhases, sqs, PInv, Typed
  <2>4. CASE GiveUpOrRetry(w)
    BY <1>2, <1>3, <2>1, <2>2, <2>4, GiveUpStep DEF sqs
  <2> QED
    BY <1>4, <2>3, <2>4 DEF JobAnswers
<1>5. CASE TimesOut(w)
  <2>1. NoneLost'
    BY <1>1, <1>5 DEF TimesOut, NoneLost, tables, sqs
  <2> QED
    BY <1>2, <1>3, <1>5, <2>1, GiveUpStep DEF TimesOut, sqs
<1>6. CASE Delete(w) \/ (DeleteFails(w) /\ WorkerTo(w, "next"))
  <2>1. /\ wpc[w] \in {"delete", "purge"} /\ WorkerTo(w, "next")
        /\ UNCHANGED <<tables, locks, job, runner, count, dlq, cur, batch>>
        /\ Deleted(cur[w]) \/ UNCHANGED place
    BY <1>6 DEF Delete, DeleteFails
  <2>2. NoneLost' /\ place' \in [Messages -> {"queued", "inFlight", "gone"}]
    BY <2>1, DeletedKnown
  <2>3. ParkedAfterRetries'
    BY <1>1, <2>1 DEF ParkedAfterRetries
  <2>4. Knows(w)'
    BY <2>1 DEF Knows, WorkerTo, PInv, Typed
  <2>5. faults' \in 0..MaxFaults
    BY <1>3, <1>6 DEF Delete, DeleteFails
  <2> QED
    BY <1>2, <2>1, <2>2, <2>3, <2>4, <2>5, HandleStep DEF WPhases
<1>7. CASE DeleteFails(w) /\ wpc[w] = "delete" /\ GiveUpOrRetry(w)
  <2>1. NoneLost' /\ place' \in [Messages -> {"queued", "inFlight", "gone"}]
    BY <1>7, DeletedKnown DEF DeleteFails
  <2> QED
    BY <1>3, <1>7, <2>1, GiveUpStep DEF DeleteFails
<1>8. ASSUME NEW stored \in {0, 1}, wpc[w] = "send",
             dlq' = [dlq EXCEPT ![Msg(cur[w])] = @ + stored], faults' \in 0..MaxFaults,
             UNCHANGED <<tables, locks, job, runner, place, count, cur, batch>>,
             NEW phase \in {"purge", "next"}, WorkerTo(w, phase),
             phase = "purge" => stored = 1 \/ ~DlqUrlSet
      PROVE  PInv'
  <2>1. /\ cur[w] \in Receipts /\ Msg(cur[w]) \in Messages /\ GivenUp(Msg(cur[w]))
        /\ cur[w][2] <= count[Msg(cur[w])]
    BY <1>1, <1>8, ReceiptParts DEF Knows
  <2>2. /\ dlq' \in [Messages -> Nat]
        /\ \A m \in Messages : dlq[m] <= dlq'[m]
        /\ \A m \in Messages : m # Msg(cur[w]) => dlq'[m] = dlq[m]
        /\ dlq'[Msg(cur[w])] = dlq[Msg(cur[w])] + stored
    BY <1>2, <1>8, <2>1
  <2>3. NoneLost' /\ ParkedAfterRetries'
    BY <1>1, <1>2, <1>8, <2>1, <2>2 DEF NoneLost, ParkedAfterRetries, tables, GivenUp
  <2>4. wpc'[w] = phase /\ cur'[w] = cur[w]
    BY <1>8 DEF WorkerTo, PInv, Typed
  <2>5. phase = "purge" => dlq'[Msg(cur[w])] > 0 \/ ~DlqUrlSet
    BY <1>2, <1>8, <2>1, <2>2
  <2>6. Knows(w)'
    BY <1>8, <2>1, <2>4, <2>5 DEF Knows, GivenUp
  <2> QED
    BY <1>2, <1>8, <2>2, <2>3, <2>6, HandleStep DEF WPhases
<1>9. CASE SendToDlq(w)
  <2>1. CASE DlqUrlSet
    BY <1>3, <1>8, <1>9, <2>1 DEF SendToDlq
  <2>2. CASE ~DlqUrlSet
    BY <1>3, <1>8, <1>9, <2>2 DEF SendToDlq
  <2> QED
    BY <2>1, <2>2
<1>10. CASE SendToDlqFails(w)
  BY <1>3, <1>8, <1>10 DEF SendToDlqFails
<1> QED
  BY <1>4, <1>5, <1>6, <1>7, <1>9, <1>10 DEF DeleteFails

\* A worker that has nothing in hand any more: the end of a batch, of its loop
\* or of its process.
LEMMA IdleStep ==
  ASSUME PInv, NEW w \in Workers, NEW phase \in {"poll", "ended"}, WorkerTo(w, phase),
         cur' = [cur EXCEPT ![w] = None],
         batch' = batch \/ batch' = [batch EXCEPT ![w] = {}],
         UNCHANGED <<tables, sqs, runner>>, faults' \in 0..MaxFaults,
         orderLock' \in [Orders -> Receipts \cup {None}],
         stockLock' \in [Products -> Receipts \cup {None}],
         job' \in [Receipts -> Phases],
         \A c \in Receipts : job'[c] = "none" <=> job[c] = "none",
         OrderHeld', StockFits'
  PROVE  PInv'
<1> USE DEF tables, sqs, WorkerTo
<1>1. Typed'
  BY DEF PInv, Typed, WPhases
<1>2. ReceiptsFresh'
  <2>1. \A v \in Workers : batch'[v] \subseteq batch[v]
    BY DEF PInv, Typed
  <2> QED
    BY <1>1, <2>1 DEF PInv, Typed, ReceiptsFresh
<1>3. Knows(w)'
  BY DEF Knows, PInv, Typed
<1>4. MessageKnown'
  BY <1>1, <1>3, OthersKnow DEF PInv, Typed
<1> QED
  BY <1>1, <1>2, <1>4 DEF PInv, NoneLost, ParkedAfterRetries

\* A worker whose batch is handled polls again.
LEMMA BatchDoneStep ==
  ASSUME PInv, NEW w \in Workers, BatchDone(w)
  PROVE  PInv'
  BY IdleStep, JobsUntouched DEF BatchDone, PInv, Typed, tables, locks

\* A crash fails every transaction of the process, and leaves its messages to
\* their visibility timeout.
LEMMA CrashStep ==
  ASSUME PInv, NEW w \in Workers, Crash(w)
  PROVE  PInv'
<1>1. /\ Running(w) \in SUBSET {c \in Receipts : job[c] \in InTxn}
      /\ EndTxns(Running(w))
      /\ job' = [c \in Receipts |-> IF c \in Running(w) THEN "failed" ELSE job[c]]
      /\ UNCHANGED <<tables, runner, sqs>> /\ faults' \in 0..MaxFaults
  BY ConstantsOK DEF Crash, Running, Fault, PInv, Typed
<1>2. OrderHeld' /\ StockFits'
  BY <1>1, FailStep
<1>3. /\ orderLock' \in [Orders -> Receipts \cup {None}]
      /\ stockLock' \in [Products -> Receipts \cup {None}]
  BY <1>1, FreedLocks DEF EndTxns, PInv, Typed
<1>4. job' \in [Receipts -> Phases]
  BY <1>1 DEF PInv, Typed, Phases
<1>5. \A c \in Receipts : job'[c] = "none" <=> job[c] = "none"
  BY <1>1 DEF InTxn
<1> QED
  BY <1>1, <1>2, <1>3, <1>4, <1>5, IdleStep DEF Crash, NewProcess

\* A message that reappears changes nothing but its place.
LEMMA ReappearStep ==
  ASSUME PInv, NEW m \in Messages, VisibilityExpires(m) \/ ExpiresEarly(m)
  PROVE  PInv'
<1>1. /\ place' = [place EXCEPT ![m] = "queued"]
      /\ UNCHANGED <<tables, locks, job, count, dlq, runner, worker>>
      /\ faults' \in 0..MaxFaults
  BY ConstantsOK DEF VisibilityExpires, ExpiresEarly, Reappears, Fault, PInv, Typed
<1> USE <1>1 DEF tables, locks, worker
<1>2. Typed' /\ ReceiptsFresh'
  BY DEF PInv, Typed, ReceiptsFresh
<1>3. MessageKnown'
  BY DEF PInv, MessageKnown, Knows, GivenUp, Order
<1>4. NoneLost' /\ ParkedAfterRetries'
  BY DEF PInv, Typed, NoneLost, ParkedAfterRetries
<1> QED
  BY <1>2, <1>3, <1>4, JobsUntouched DEF PInv

\* A checkout or a restock cannot touch a row a job put aside.
LEMMA TradeStep ==
  ASSUME PInv, NEW p \in Products, Trade(p)
  PROVE  PInv'
<1>1. PICK qty \in 0..MaxQty : avail' = [avail EXCEPT ![p] = qty]
  BY DEF Trade
<1>2. stockLock[p] = None /\ UNCHANGED <<status, locks, job, sqs, runner, worker, faults>>
  BY DEF Trade
<1> USE <1>1, <1>2 DEF locks, sqs, worker
<1>3. Typed'
  BY DEF PInv, Typed
<1>4. OrderHeld' /\ StockFits'
  BY DEF PInv, Typed, OrderHeld, StockFits, Order
<1> QED
  BY <1>3, <1>4, JobFrame DEF PInv

-----------------------------------------------------------------------------
(* The theorems. *)

\* PInv holds at first: nothing is received, locked or settled.
LEMMA InitPInv == Init => PInv
<1> SUFFICES ASSUME Init PROVE PInv
  OBVIOUS
<1> USE ConstantsOK DEF Init
<1>1. Typed
  BY DEF Typed, Phases, WPhases
<1>2. OrderHeld /\ StockFits /\ ReceiptsFresh
  BY DEF OrderHeld, StockFits, ReceiptsFresh
<1>3. MessageKnown /\ NoneLost /\ ParkedAfterRetries
  BY DEF MessageKnown, Knows, NoneLost, ParkedAfterRetries
<1> QED
  BY <1>1, <1>2, <1>3 DEF PInv

\* Whatever fails, every step keeps the invariant.
LEMMA NextPInv == PInv /\ [Next]_vars => PInv'
<1> SUFFICES ASSUME PInv, [Next]_vars PROVE PInv'
  OBVIOUS
<1>1. CASE \E c \in Receipts : JobStep(c) \/ JobFails(c) \/ CommitUnacked(c)
  BY <1>1, JobSteps
<1>2. ASSUME NEW w \in Workers, WorkerStep(w) PROVE PInv'
  BY <1>2, ReceiveStep, TakeStep, BatchDoneStep, MessageSteps DEF WorkerStep, Begin
<1>3. ASSUME NEW w \in Workers,
             ReceiveLost(w) \/ TimesOut(w) \/ DeleteFails(w) \/ SendToDlqFails(w) \/ Crash(w)
      PROVE  PInv'
  <2>1. CASE ReceiveLost(w)
    BY <2>1, LostHandOutStep, ConstantsOK DEF ReceiveLost, Fault, PInv, Typed
  <2> QED
    BY <1>3, <2>1, MessageSteps, CrashStep
<1>4. CASE \E m \in Messages : VisibilityExpires(m) \/ ExpiresEarly(m)
  BY <1>4, ReappearStep
<1>5. CASE \E p \in Products : Trade(p)
  BY <1>5, TradeStep
<1>6. CASE UNCHANGED vars
  <2>1. UNCHANGED <<tables, locks, job, runner, sqs, worker, faults>>
    BY <1>6 DEF vars, tables, locks, sqs, worker
  <2>2. Typed'
    BY <2>1 DEF PInv, Typed, tables, locks, sqs, worker
  <2> QED
    BY <2>1, <2>2, JobsUntouched, JobFrame DEF PInv, tables
<1> QED
  BY <1>1, <1>2, <1>3, <1>4, <1>5, <1>6 DEF Next, Consume

\* PInv holds in every reachable state.
THEOREM Invariance == Spec => []PInv
  BY InitPInv, NextPInv, PTL DEF Spec

\* No message leaves the queue with its order still waiting, unless it was
\* given up: whatever the workers, their jobs, SQS and the visibility timeouts
\* do to each other.
THEOREM NoMessageLost == Spec => []NoneLost
  BY Invariance, PTL DEF PInv

\* A message with an order is not parked before its last allowed delivery.
THEOREM ParkedLate == Spec => []ParkedAfterRetries
  BY Invariance, PTL DEF PInv

NoneEnded == wpc \in [Workers -> WPhases]

\* Without a shutdown no loop ends.
LEMMA LoopsGoOn == NoneEnded /\ [Next]_vars => NoneEnded'
<1> SUFFICES ASSUME NoneEnded, [Next]_vars PROVE NoneEnded'
  OBVIOUS
<1>1. \/ UNCHANGED wpc
      \/ \E w \in Workers : \E phase \in WPhases : WorkerTo(w, phase)
  BY DEF Next, Consume, JobStep, LockOrder, RestoreItem, CommitJob, DeadlockVictim, Aborted,
     JobFails, CommitUnacked, WorkerStep, Receive, Begin, Take, BatchDone, JobAnswers, Delete,
     SendToDlq, ReceiveLost, TimesOut, DeleteFails, SendToDlqFails, Crash, NewProcess,
     GiveUpOrRetry, VisibilityExpires, ExpiresEarly, Reappears, Trade, vars, worker, WPhases
<1> QED
  BY <1>1 DEF WorkerTo, NoneEnded

\* The columns keep their types; in particular no restored order takes
\* available_qty out of the column's range.
THEOREM TypeCorrect == Spec => []TypeOK
<1>1. Init => NoneEnded
  BY DEF Init, NoneEnded, WPhases
<1>2. PInv /\ NoneEnded => TypeOK
  BY DEF PInv, NoneEnded, Typed, TypeOK
<1> QED
  BY Invariance, LoopsGoOn, <1>1, <1>2, PTL DEF Spec

\* Only a job's settlement touches an order, and besides it only a trade the
\* stock.
LEMMA TablesStep ==
  ASSUME [Next]_vars
  PROVE  \/ UNCHANGED tables
         \/ \E c \in Receipts : Settle(c)
         \/ \E p \in Products : Trade(p)
  BY DEF Next, Consume, JobStep, LockOrder, RestoreItem, CommitJob, DeadlockVictim, Aborted,
     JobFails, CommitUnacked, WorkerStep, Receive, Begin, Take, BatchDone, JobAnswers, Delete,
     SendToDlq, ReceiveLost, TimesOut, DeleteFails, SendToDlqFails, Crash,
     VisibilityExpires, ExpiresEarly, Reappears, vars, tables

\* An order is settled at most once, however many messages, deliveries and
\* timed-out jobs race to settle it.
THEOREM SettledForGood == Spec => SettledOnce
<1>1. ASSUME PInv, [Next]_vars, NEW o \in Orders, status[o] \in Settled
      PROVE  status'[o] = status[o]
  <2>1. ASSUME NEW c \in Receipts, Settle(c) PROVE status'[o] = status[o]
    BY <1>1, <2>1, SettleTables DEF PInv, Typed, Settled
  <2> QED
    BY <1>1, <2>1, TablesStep DEF tables, Trade
<1>2. PInv /\ [Next]_vars
        => [\A o \in Orders : status[o] \in Settled => status'[o] = status[o]]_vars
  BY <1>1
<1> QED
  BY Invariance, <1>2, PTL DEF Spec, SettledOnce

-----------------------------------------------------------------------------
(* The refinement of Settlement. *)

\* The concurrent, repeated, failing jobs look like one atomic settlement of
\* each order.
THEOREM Refinement == Spec => ImplementsSettlement
<1>1. Init => Orderly!Init
  BY DEF Init, Orderly!Init
<1>2. ASSUME PInv, [Next]_vars PROVE [Orderly!Next]_Orderly!vars
  <2>1. CASE UNCHANGED tables
    BY <2>1 DEF tables, Orderly!vars
  <2>2. ASSUME NEW p \in Products, Trade(p) PROVE Orderly!Next
    <3>1. Orderly!Trade(p)
      BY <2>2 DEF Trade, Orderly!Trade
    <3> QED
      BY <3>1 DEF Orderly!Next
  <2>3. ASSUME NEW c \in Receipts, Settle(c) PROVE Orderly!Next
    <3>1. Order(c) \in Orders /\ status[Order(c)] = "pending"
      BY <1>2, <2>3, SettleTables
    <3>2. Orderly!Confirm(Order(c)) \/ Orderly!Cancel(Order(c))
      BY <2>3, <3>1 DEF Settle, Orderly!Confirm, Orderly!Cancel
    <3> QED
      BY <3>1, <3>2 DEF Orderly!Next
  <2> QED
    BY <1>2, <2>1, <2>2, <2>3, TablesStep
<1> QED
  BY Invariance, <1>1, <1>2, PTL DEF Spec, ImplementsSettlement, Orderly!Spec
=============================================================================
