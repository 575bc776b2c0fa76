--------------------------- MODULE CheckoutRefinement ---------------------------
(***************************************************************************)
(* Checkout implements OrderBook: seen through the refinement mapping,     *)
(* every step of every call is one atomic step of the order book or none.  *)
(* A commit is the order's placement, an answer its acceptance or refusal; *)
(* all the locking, reading and failing in between is invisible.           *)
(***************************************************************************)
EXTENDS CheckoutProofs

\* A call is answered once, as the last thing it does.
AnsweredLast == \A r \in Requests : reply[r] # None => pc[r] = "done"

\* What a call buys is the content of a cart, and not nothing.
LinesRead ==
  \A r \in Requests : pc[r] \in {"lockStock", "markCart", "commit"} =>
    items[r] \in Lines /\ Wanted(r) # {}

RInv == IInv /\ AnsweredLast /\ LinesRead

-----------------------------------------------------------------------------
\* Nothing happens to a call after its answer.
LEMMA AnsweredStep ==
  ASSUME TypeOK, AnsweredLast, [Next]_vars
  PROVE  AnsweredLast'
<1> USE SpecialValues DEF tables, locks, Goto, Answer
<1>1. ASSUME UNCHANGED reply, \A s \in Requests : pc[s] = "done" => pc'[s] = "done"
      PROVE  AnsweredLast'
  BY <1>1 DEF AnsweredLast
<1>2. ASSUME NEW r \in Requests, NEW what,
             reply' = [reply EXCEPT ![r] = what], pc' = [pc EXCEPT ![r] = "done"]
      PROVE  AnsweredLast'
  BY <1>2 DEF AnsweredLast, TypeOK
<1>3. CASE \E r \in Requests :
             \/ Connect(r) \/ InsertKey(r) \/ ReadCart(r)
             \/ (\E p \in Products : LockStock(r, p)) \/ DecreaseStock(r) \/ MarkCart(r)
             \/ Commit(r) \/ CommitUnacked(r)
             \/ QueryFails(r) \/ Rollback(r) \/ ConnectionLost(r)
  BY <1>1, <1>3 DEF Connect, InsertKey, ReadCart, LockStock, DecreaseStock, MarkCart,
     Commit, CommitUnacked, QueryFails, Rollback, ConnectionLost, TypeOK, InTxn
<1>4. ASSUME NEW r \in Requests, LockKey(r) PROVE AnsweredLast'
  <2>1. CASE Answer(r, idem[Key(r)]) /\ Goto(r, "done")
    BY <1>2, <2>1
  <2>2. CASE Goto(r, "readCart") /\ UNCHANGED reply
    BY <1>1, <1>4, <2>2 DEF LockKey, TypeOK
  <2> QED
    BY <1>4, <2>1, <2>2 DEF LockKey
<1>5. ASSUME NEW r \in Requests, SendFails(r) PROVE AnsweredLast'
  BY <1>1, <1>2, <1>5 DEF SendFails
<1>6. ASSUME NEW r \in Requests, PublishSkipped(r) \/ SendOk(r) \/ Cleanup(r) \/ RollbackThrows(r)
      PROVE  AnsweredLast'
  BY <1>2, <1>6 DEF PublishSkipped, SendOk, Cleanup, RollbackThrows
<1>7. CASE Crash
  BY <1>1, <1>7 DEF Crash, WithClient, InTxn, TypeOK
<1>8. CASE (\E p \in Products, qty \in 1..MaxQty : Restock(p, qty)) \/ UNCHANGED vars
  BY <1>1, <1>8 DEF Restock, vars
<1> QED
  BY <1>3, <1>4, <1>5, <1>6, <1>7, <1>8 DEF Next, Step, Fault, Quiet

\* What a call buys stays what it read from its cart.
LEMMA LinesStep ==
  ASSUME TypeOK, LinesRead, [Next]_vars
  PROVE  LinesRead'
<1> USE SpecialValues DEF tables, locks, Goto, Answer, Wanted
<1> DEFINE Buying == {"lockStock", "markCart", "commit"}
<1>1. ASSUME UNCHANGED items, \A s \in Requests : pc'[s] \in Buying => pc[s] \in Buying
      PROVE  LinesRead'
  BY <1>1 DEF LinesRead
<1>2. ASSUME NEW r \in Requests, ReadCart(r) PROVE LinesRead'
  <2>1. CASE CartAccepted(r) /\ items' = [items EXCEPT ![r] = cartItems[Cart(r)]]
                             /\ pc' = [pc EXCEPT ![r] = "lockStock"]
    <3>1. Cart(r) \in Carts
      BY ConstantsOK DEF TypeOK, Cart
    <3>2. cartItems[Cart(r)] \in Lines /\ \E p \in Products : cartItems[Cart(r)][p] > 0
      BY <2>1, <3>1 DEF CartAccepted, TypeOK
    <3> QED
      BY <2>1, <3>2 DEF LinesRead, TypeOK
  <2>2. CASE pc' = [pc EXCEPT ![r] = "rollback"] /\ UNCHANGED items
    BY <1>1, <2>2 DEF TypeOK
  <2> QED
    BY <1>2, <2>1, <2>2 DEF ReadCart
<1>3. CASE \E r \in Requests :
             \/ Connect(r) \/ InsertKey(r) \/ LockKey(r)
             \/ (\E p \in Products : LockStock(r, p)) \/ DecreaseStock(r) \/ MarkCart(r)
             \/ Commit(r) \/ CommitUnacked(r)
  BY <1>1, <1>3 DEF Connect, InsertKey, LockKey, LockStock, DecreaseStock, MarkCart,
     Commit, CommitUnacked, TypeOK
<1>4. CASE \E r \in Requests :
             \/ PublishSkipped(r) \/ SendOk(r) \/ SendFails(r)
             \/ QueryFails(r) \/ Rollback(r) \/ Cleanup(r) \/ ConnectionLost(r) \/ RollbackThrows(r)
  BY <1>1, <1>4 DEF PublishSkipped, SendOk, SendFails, QueryFails, Rollback, Cleanup,
     ConnectionLost, RollbackThrows, TypeOK
<1>5. CASE Crash \/ (\E p \in Products, qty \in 1..MaxQty : Restock(p, qty)) \/ UNCHANGED vars
  BY <1>1, <1>5 DEF Crash, Restock, vars, TypeOK
<1> QED
  BY <1>2, <1>3, <1>4, <1>5 DEF Next, Step, Fault, Quiet

\* The refinement mapping is sound in every reachable state.
THEOREM RefinementInvariance == Spec => []RInv
<1>1. Init => AnsweredLast /\ LinesRead
  BY DEF Init, AnsweredLast, LinesRead
<1>2. IInv /\ AnsweredLast /\ LinesRead /\ [Next]_vars => AnsweredLast' /\ LinesRead'
  BY AnsweredStep, LinesStep DEF IInv
<1> QED
  BY Invariance, <1>1, <1>2, PTL DEF Spec, RInv

-----------------------------------------------------------------------------
\* A state starts as an order book without orders.
LEMMA RefinedInit == Init => Book!Init
<1> SUFFICES ASSUME Init PROVE Book!Init
  OBVIOUS
<1>1. \A r \in Requests : Key(r) \in Keys
  BY ConstantsOK DEF Init, Key
<1>2. [k \in Keys |-> IF idem[k] \in Requests THEN idem[k] ELSE None] = [k \in Keys |-> None]
  BY SpecialValues DEF Init
<1> QED
  BY <1>1, <1>2 DEF Init, Book!Init

\* A commit places the key's order.
LEMMA RefinedCommit ==
  ASSUME RInv, NEW r \in Requests, pc[r] = "commit", CommitTables(r), UNCHANGED <<arg, reply>>,
         NEW line \in Lines, line = items[r]
  PROVE  Book!Place(r, line)
<1> USE SpecialValues DEF Key
<1>1. arg[r].key \in Keys
  BY ConstantsOK DEF RInv, IInv, TypeOK
<1>2. keyLock[Key(r)] = r /\ idem[Key(r)] = None
  BY DEF RInv, IInv, KeyHeld, Holding
<1>3. \E p \in Products : items[r][p] > 0
  BY DEF RInv, LinesRead, Wanted
<1>4. \A p \in Products : items[r][p] <= avail[p]
  BY DEF RInv, IInv, TypeOK, StockStaysCovered, Wanted
<1>5. reply[r] = None
  BY DEF RInv, AnsweredLast
<1>6. idem' = [idem EXCEPT ![Key(r)] = r]
  BY <1>2 DEF CommitTables, Response
<1> DEFINE placed == [k \in Keys |-> IF idem[k] \in Requests THEN idem[k] ELSE None]
<1>7. placed' = [placed EXCEPT ![Key(r)] = r]
  BY <1>1, <1>6 DEF RInv, IInv, TypeOK
<1> QED
  BY <1>1, <1>2, <1>3, <1>4, <1>5, <1>7 DEF Book!Place, CommitTables

\* An answer naming the key's order accepts the call, an error refuses it.
LEMMA RefinedAnswer ==
  ASSUME RInv, NEW r \in Requests, pc[r] # "done", UNCHANGED <<idem, arg, avail>>,
         NEW what, reply' = [reply EXCEPT ![r] = what],
         what = Error \/ (what \in Requests /\ what = idem[Key(r)])
  PROVE  Book!Next
<1> USE SpecialValues DEF Key
<1>1. arg[r].key \in Keys
  BY ConstantsOK DEF RInv, IInv, TypeOK
<1>2. reply[r] = None
  BY DEF RInv, AnsweredLast
<1>3. CASE what = Error
  <2>1. Book!Refuse(r)
    BY <1>2, <1>3 DEF Book!Refuse
  <2> QED
    BY <2>1 DEF Book!Next
<1>4. CASE what \in Requests /\ what = idem[Key(r)]
  <2>1. Book!Accept(r)
    BY <1>1, <1>2, <1>4 DEF Book!Accept
  <2> QED
    BY <2>1 DEF Book!Next
<1> QED
  BY <1>3, <1>4

\* Every step of a call is a step of the order book or changes nothing in it.
LEMMA RefinedStep ==
  ASSUME RInv, [Next]_vars
  PROVE  [Book!Next]_Book!vars
<1> USE SpecialValues DEF tables, locks, Goto, Answer
<1>1. ASSUME UNCHANGED <<idem, arg, avail, reply>> PROVE UNCHANGED Book!vars
  BY <1>1 DEF Book!vars, Key
<1>2. ASSUME NEW r \in Requests, Commit(r) \/ CommitUnacked(r) PROVE Book!Next
  <2>1. pc[r] = "commit" /\ CommitTables(r) /\ UNCHANGED <<arg, reply>>
    BY <1>2 DEF Commit, CommitUnacked
  <2>2. PICK line \in Lines : line = items[r]
    BY <2>1 DEF RInv, LinesRead
  <2>3. Book!Place(r, line)
    BY <2>1, <2>2, RefinedCommit
  <2> QED
    BY <2>3 DEF Book!Next
<1>3. ASSUME NEW r \in Requests, LockKey(r) PROVE [Book!Next]_Book!vars
  <2>1. CASE UNCHANGED reply
    BY <1>1, <1>3, <2>1 DEF LockKey
  <2>2. CASE idem[Key(r)] \in Requests /\ reply' = [reply EXCEPT ![r] = idem[Key(r)]]
    BY <1>3, <2>2, RefinedAnswer DEF LockKey
  <2> QED
    BY <1>3, <2>1, <2>2 DEF LockKey
<1>4. ASSUME NEW r \in Requests, PublishSkipped(r) \/ SendOk(r) \/ SendFails(r)
      PROVE  [Book!Next]_Book!vars
  <2>1. idem[Key(r)] = r
    BY <1>4 DEF PublishSkipped, SendOk, SendFails, RInv, IInv, PublishHasOrder, OrderIsSaved
  <2>2. UNCHANGED <<idem, arg, avail>> /\ pc[r] # "done"
    BY <1>4 DEF PublishSkipped, SendOk, SendFails
  <2>3. CASE reply' = [reply EXCEPT ![r] = r]
    BY <2>1, <2>2, <2>3, RefinedAnswer
  <2>4. CASE UNCHANGED reply
    BY <1>1, <2>2, <2>4
  <2> QED
    BY <1>4, <2>3, <2>4 DEF PublishSkipped, SendOk, SendFails
<1>5. ASSUME NEW r \in Requests, Cleanup(r) \/ RollbackThrows(r) PROVE [Book!Next]_Book!vars
  <2>1. Key(r) \in Keys /\ idem[Key(r)] # Placeholder
    BY ConstantsOK DEF RInv, IInv, TypeOK, SavedIsOrder, Key
  <2>2. UNCHANGED <<idem, arg, avail>> /\ reply' = [reply EXCEPT ![r] = Error] /\ pc[r] # "done"
    BY <1>5, <2>1 DEF Cleanup, InProgress, RollbackThrows, RInv, IInv, TypeOK
  <2> QED
    BY <2>2, RefinedAnswer
<1>6. ASSUME NEW p \in Products, NEW qty \in 1..MaxQty, Restock(p, qty) PROVE Book!Next
  <2>1. Book!Restock(p, qty)
    BY <1>6 DEF Restock, Book!Restock, Key
  <2> QED
    BY <2>1 DEF Book!Next
<1>7. CASE \E r \in Requests :
             \/ Connect(r) \/ InsertKey(r) \/ ReadCart(r)
             \/ (\E p \in Products : LockStock(r, p)) \/ DecreaseStock(r) \/ MarkCart(r)
             \/ QueryFails(r) \/ Rollback(r) \/ ConnectionLost(r)
  BY <1>1, <1>7 DEF Connect, InsertKey, ReadCart, LockStock, DecreaseStock, MarkCart,
     QueryFails, Rollback, ConnectionLost
<1>8. CASE Crash \/ UNCHANGED vars
  BY <1>1, <1>8 DEF Crash, vars
<1> QED
  BY <1>2, <1>3, <1>4, <1>5, <1>6, <1>7, <1>8 DEF Next, Step, Fault, Quiet

\* Checkout implements the order book: concurrent, retried and failing calls
\* look like atomic ones.
THEOREM Refinement == Spec => ImplementsBook
<1>1. RInv /\ [Next]_vars => [Book!Next]_Book!vars
  BY RefinedStep
<1> QED
  BY RefinedInit, RefinementInvariance, <1>1, PTL DEF ImplementsBook, Spec, Book!Spec
=============================================================================
