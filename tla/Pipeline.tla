-------------------------------- MODULE Pipeline --------------------------------
(***************************************************************************)
(* The API and the payment workers as they run together: Checkout and      *)
(* Payment over one orders table and one inventory table, with a queue     *)
(* that holds what the publisher sent.                                     *)
(*                                                                         *)
(* An order is named by the call that inserts it, a message by its order   *)
(* and the number of the send.  In Payment, orders exist beforehand and    *)
(* the stock moves at random; here both are the work of the checkouts.     *)
(***************************************************************************)
EXTENDS Naturals, Sequences, FiniteSets, Functions

CONSTANTS
  Requests, Users, Keys, Carts, Products, CartOwner, Calls, Lines, MaxQty,
  PoolMax, MaxRetries, QueueUrlSet, None, Placeholder, Error,          \* of Checkout
  Workers, MaxBatch, MaxReceiveCount, DlqUrlSet, MaxFaults, Invalid,   \* of Payment
  CartOf,    \* the cart each call is sent for
  CartRows   \* its cart_items by id: a sequence of [product, qty]

VARIABLES
  idem, cartStatus, cartItems, keyLock, cartLock, pc, arg, items, attempt, reply,
  queue, stocked,                                                      \* of Checkout
  orderLock, job, runner, place, count, dlq, wpc, cur, batch, faults,  \* of Payment
  order, avail, stockLock                                              \* of both

api    == <<idem, cartStatus, cartItems, keyLock, cartLock, pc, arg, items, attempt,
            reply, queue, stocked>>
worker == <<orderLock, job, runner, count, dlq, wpc, cur, batch>>
vars   == <<api, worker, place, faults, order, avail, stockLock>>

Messages == Requests \X (1..(MaxRetries + 1))

C == INSTANCE Checkout
P == INSTANCE Payment WITH
  status     <- order,
  Orders     <- Requests,
  MsgOrder   <- [m \in Messages |-> m[1]],
  OrderItems <- [r \in Requests |-> CartRows[CartOf[r]]]

ASSUME ConstantsOK ==
  /\ Calls \subseteq [user : Users, cart : Carts, key : Keys]
  /\ Lines \subseteq [Products -> Nat]
  /\ {MaxQty, MaxRetries, MaxReceiveCount, MaxFaults} \subseteq Nat

\* A transaction, a lock's holder, is a checkout's call or a job's receipt.
ASSUME HoldersApart ==
  /\ Requests \cap P!Receipts = {}
  /\ {None, Placeholder, Invalid} \cap Requests = {} /\ None \notin P!Receipts
  /\ None # Placeholder

\* A cart's rows as quantities by product.
Line(c) ==
  [p \in Products |->
     IF \E i \in DOMAIN CartRows[c] : CartRows[c][i].product = p
     THEN CartRows[c][CHOOSE i \in DOMAIN CartRows[c] : CartRows[c][i].product = p].qty
     ELSE 0]

Init ==
  /\ C!Init
  /\ \A r \in Requests : C!Cart(r) = CartOf[r]
  /\ cartItems = [c \in Carts |-> Line(c)]
  /\ orderLock = [r \in Requests |-> None]
  /\ job = [c \in P!Receipts |-> "none"]
  /\ runner = [c \in P!Receipts |-> None]
  /\ place = [m \in Messages |-> "unsent"]
  /\ count = [m \in Messages |-> 0]
  /\ dlq = [m \in Messages |-> 0]
  /\ wpc = [w \in Workers |-> "poll"]
  /\ cur = [w \in Workers |-> None]
  /\ batch = [w \in Workers |-> {}]
  /\ faults = MaxFaults

-----------------------------------------------------------------------------
\* SQS queues what this step made it accept.
Deliver ==
  place' = [m \in Messages |->
              IF m[2] \in (queue[m[1]] + 1)..queue'[m[1]] THEN "queued" ELSE place[m]]

CallStep(r) == C!Step(r) /\ Deliver /\ UNCHANGED <<worker, faults>>

Api ==
  \/ \E r \in Requests : C!Connect(r) /\ UNCHANGED <<worker, place, faults>>
  \/ \E p \in Products, qty \in 1..MaxQty : C!Restock(p, qty) /\ UNCHANGED <<worker, place, faults>>
  \/ /\ (\E r \in Requests : C!Fault(r)) \/ C!Crash
     /\ UNCHANGED <<worker, place, faults>>

JobStep(c)    == P!JobStep(c) /\ UNCHANGED api
WorkerStep(w) == P!WorkerStep(w) /\ UNCHANGED api
Reappears(m)  == P!VisibilityExpires(m) /\ UNCHANGED api

\* Checkouts and jobs wait for each other's stock rows.
WaitsFor(t, u) ==
  IF t \in Requests THEN C!WaitsFor(t, u) ELSE P!WaitsFor(t, u)

Waiting == {r \in Requests : pc[r] \in {"lockStock", "markCart"}}
           \cup {c \in P!Receipts : job[c] = "restore"}

\* Of a cycle of waiting transactions Postgres aborts one: a checkout's
\* statement throws, a job is rolled back.
DeadlockVictim(t) ==
  /\ \E S \in SUBSET Waiting :
       /\ t \in S
       /\ \A u \in S : (\E v \in S : WaitsFor(u, v)) /\ (\E v \in S : WaitsFor(v, u))
  /\ \/ t \in Requests /\ C!QueryFails(t) /\ UNCHANGED <<worker, place, faults>>
     \/ t \in P!Receipts /\ P!Aborted(t) /\ UNCHANGED api

Quiet ==
  /\ \A r \in Requests : pc[r] \in C!Over
  /\ \A m \in Messages : place[m] \in {"unsent", "gone"}
  /\ UNCHANGED vars

Next ==
  \/ Api \/ \E r \in Requests : CallStep(r)
  \/ P!Consume /\ UNCHANGED api
  \/ \E t \in Requests \cup P!Receipts : DeadlockVictim(t)
  \/ Quiet

Spec == Init /\ [][Next]_vars

\* Less than Checkout and Payment assume: of the calls, of the jobs, of the
\* workers and of the hidden messages that can go on, one does.  Postgres
\* resolves every deadlock.
FairSpec ==
  /\ Spec
  /\ WF_vars(\E r \in Requests : CallStep(r))
  /\ WF_vars(\E c \in P!Receipts : JobStep(c))
  /\ WF_vars(\E w \in Workers : WorkerStep(w))
  /\ WF_vars(\E m \in Messages : Reappears(m))
  /\ WF_vars(\E t \in Requests \cup P!Receipts : DeadlockVictim(t))

-----------------------------------------------------------------------------
(* Properties. *)

\* No row lock outlives its transaction, whichever process ran it and however
\* it ended: a lost one would stop every later sale of the product.
NoStrayLocks ==
  /\ \A p \in Products : LET t == stockLock[p] IN
       \/ t = None
       \/ t \in Requests /\ pc[t] \in {"lockStock", "markCart", "commit", "rollback"}
       \/ t \in P!Receipts /\ job[t] = "restore"
  /\ \A r \in Requests : orderLock[r] # None => job[orderLock[r]] \in {"restore", "confirm"}

\* From the shelf through the order to its confirmation or back to the shelf,
\* no unit is lost and none appears.
UnitsConserved ==
  \A p \in Products :
    avail[p] + SumFunctionOnSet([r \in Requests |-> items[r][p]],
                                {r \in Requests : order[r] \in {"pending", "CONFIRMED"}})
      = stocked[p]

\* Every event SQS accepted leaves the queue for good, although cancellations
\* and checkouts deadlock over the stock.
EveryEventEnds == \A m \in Messages : place[m] = "queued" ~> place[m] = "gone"

\* Every started checkout is answered, although workers hold its stock rows and
\* deadlock with it.
EveryCallAnswered == C!EveryCallAnswered

-----------------------------------------------------------------------------
\* What the shop promises as a whole.
TheShop == INSTANCE Shop WITH
  Orders <- Requests,
  key    <- [r \in Requests |-> C!Key(r)],
  status <- order,
  bought <- [r \in Requests |-> [p \in Products |-> IF order[r] = "none" THEN 0 ELSE items[r][p]]],
  stock  <- avail

ImplementsShop == TheShop!Spec
=============================================================================
