----------------------------- MODULE CheckoutProofs -----------------------------
(***************************************************************************)
(* Proofs about Checkout, for any number of requests, keys, carts and      *)
(* products.                                                               *)
(*                                                                         *)
(* The safety properties of Checkout are not inductive: that a commit      *)
(* cannot give a key its second order follows from the key's row lock,     *)
(* which the call took long before.  IInv adds what a call at each phase   *)
(* holds and knows.  Deadlock freedom (LInv) and the conservation of stock *)
(* (CInv) have invariants of their own, in sections of their own.          *)
(***************************************************************************)
EXTENDS Checkout, SumTheorems

-----------------------------------------------------------------------------
(* The inductive invariant. *)

\* Past the SELECT FOR UPDATE of its key a call holds the key's row.
Holding == {"readCart", "lockStock", "markCart", "commit"}

\* A call working under a key holds its lock, and nothing is saved under it.
KeyHeld ==
  \A r \in Requests :
    /\ pc[r] \in Holding => keyLock[Key(r)] = r /\ idem[Key(r)] = None
    /\ pc[r] = "lockKey" /\ idem[Key(r)] = None => keyLock[Key(r)] = r

\* What is saved under a key is an order of that key, and committed.
SavedIsOrder ==
  \A k \in Keys : idem[k] # None =>
    idem[k] \in Requests /\ Key(idem[k]) = k /\ order[idem[k]] = "pending"

\* A committed order is saved under its key and its cart is closed.
OrderIsSaved ==
  \A r \in Requests : order[r] # "none" =>
    idem[Key(r)] = r /\ cartStatus[Cart(r)] = "checked_out"

\* Only a call whose order is committed publishes.
PublishHasOrder ==
  \A r \in Requests : pc[r] = "publish" => order[r] = "pending"

IInv ==
  /\ TypeOK
  /\ KeyHeld
  /\ SavedIsOrder
  /\ OrderIsSaved
  /\ PublishHasOrder
  /\ StockStaysCovered
  /\ SameReplyPerKey
  /\ MessageHasOrder

-----------------------------------------------------------------------------
(* The initial states and the step. *)

\* Before any call starts, every part of IInv holds.
LEMMA InitIInv == Init => IInv
  BY ConstantsOK, SpecialValues
     DEF Init, IInv, TypeOK, KeyHeld, SavedIsOrder, OrderIsSaved, PublishHasOrder,
         StockStaysCovered, SameReplyPerKey, MessageHasOrder, Phases, WithClient, InTxn,
         Over, Holding, Key, Cart

\* Ending transactions leaves a lock table well typed.
LEMMA FreedType ==
  ASSUME NEW D, NEW lock \in [D -> Requests \cup {None}], NEW gone
  PROVE  /\ Freed(lock, gone) \in [D -> Requests \cup {None}]
         /\ \A x \in D : lock[x] \notin gone => Freed(lock, gone)[x] = lock[x]
  BY DEF Freed

\* No step breaks a type: avail stays in range because a commit only takes
\* what the transaction still covers.
LEMMA TypeStep == TypeOK /\ StockStaysCovered /\ [Next]_vars => TypeOK'
<1> SUFFICES ASSUME TypeOK, StockStaysCovered, [Next]_vars PROVE TypeOK'
  OBVIOUS
<1> USE ConstantsOK, SpecialValues
    DEF tables, locks, Goto, Answer, Phases, WithClient, InTxn, Over, Key, Cart
<1>1. ASSUME NEW r \in Requests, Connect(r) PROVE TypeOK'
  BY <1>1 DEF TypeOK, Connect
<1>2. ASSUME NEW r \in Requests, InsertKey(r) PROVE TypeOK'
  BY <1>2 DEF TypeOK, InsertKey
<1>3. ASSUME NEW r \in Requests, LockKey(r) PROVE TypeOK'
  <2>1. Key(r) \in Keys
    BY DEF TypeOK
  <2>2. \/ keyLock' = keyLock
        \/ keyLock' = [keyLock EXCEPT ![Key(r)] = r]
    BY <1>3, <2>1 DEF TypeOK, LockKey
  <2>3. keyLock' \in [Keys -> Requests \cup {None}]
    BY <2>1, <2>2 DEF TypeOK
  <2>4. pc' \in [Requests -> Phases]
    <3>1. \/ pc' = [pc EXCEPT ![r] = "done"]
          \/ pc' = [pc EXCEPT ![r] = "readCart"]
      BY <1>3 DEF LockKey
    <3> QED
      BY <3>1 DEF TypeOK
  <2>5. reply' \in [Requests -> Requests \cup {None, Error}]
    <3>1. CASE reply' = reply
      BY <3>1 DEF TypeOK
    <3>2. CASE idem[Key(r)] \in Requests /\ reply' = [reply EXCEPT ![r] = idem[Key(r)]]
      BY <3>2 DEF TypeOK
    <3> QED
      BY <1>3, <3>1, <3>2 DEF LockKey
  <2> QED
    BY <1>3, <2>3, <2>4, <2>5 DEF TypeOK, LockKey
<1>4. ASSUME NEW r \in Requests, ReadCart(r) PROVE TypeOK'
  <2>1. Cart(r) \in Carts
    BY DEF TypeOK
  <2>2. cartItems[Cart(r)] \in [Products -> Nat]
    BY <2>1 DEF TypeOK
  <2>3. items' \in [Requests -> [Products -> Nat]] /\ pc' \in [Requests -> Phases]
    BY <1>4, <2>2 DEF TypeOK, ReadCart
  <2> QED
    BY <1>4, <2>3 DEF TypeOK, ReadCart
<1>5. ASSUME NEW r \in Requests, NEW p \in Products, LockStock(r, p) PROVE TypeOK'
  BY <1>5 DEF TypeOK, LockStock
<1>6. ASSUME NEW r \in Requests, DecreaseStock(r) PROVE TypeOK'
  BY <1>6 DEF TypeOK, DecreaseStock
<1>7. ASSUME NEW r \in Requests, MarkCart(r) PROVE TypeOK'
  BY <1>7 DEF TypeOK, MarkCart
<1>8. ASSUME NEW r \in Requests, CommitTables(r), pc[r] = "commit",
             pc' = [pc EXCEPT ![r] = "publish"] \/ pc' = [pc EXCEPT ![r] = "broken"],
             UNCHANGED <<cartItems, arg, items, attempt, reply, queue, stocked>>
      PROVE TypeOK'
  <2>1. \A p \in Products : items[r][p] \in Nat /\ items[r][p] <= avail[p]
    BY <1>8 DEF TypeOK, StockStaysCovered, Wanted
  <2>2. avail' \in [Products -> 0..MaxQty]
    BY <1>8, <2>1 DEF TypeOK, CommitTables, Response
  <2> QED
    BY <1>8, <2>2, FreedType DEF TypeOK, CommitTables, Response, EndTxns
<1>9. ASSUME NEW r \in Requests, PublishSkipped(r) PROVE TypeOK'
  BY <1>9 DEF TypeOK, PublishSkipped
<1>10. ASSUME NEW r \in Requests, SendOk(r) PROVE TypeOK'
  BY <1>10 DEF TypeOK, SendOk
<1>11. ASSUME NEW r \in Requests, SendFails(r) PROVE TypeOK'
  <2>1. queue' \in [Requests -> Nat]
    BY <1>11 DEF TypeOK, SendFails
  <2>2. /\ attempt' \in [Requests -> 0..MaxRetries]
        /\ pc' \in [Requests -> Phases]
        /\ reply' \in [Requests -> Requests \cup {None, Error}]
    <3>1. CASE /\ attempt[r] < MaxRetries
               /\ attempt' = [attempt EXCEPT ![r] = @ + 1]
               /\ UNCHANGED <<pc, reply>>
      BY <3>1 DEF TypeOK
    <3>2. CASE /\ UNCHANGED attempt
               /\ pc' = [pc EXCEPT ![r] = "done"]
               /\ reply' = [reply EXCEPT ![r] = r]
      BY <3>2 DEF TypeOK
    <3> QED
      BY <1>11, <3>1, <3>2 DEF SendFails
  <2> QED
    BY <1>11, <2>1, <2>2 DEF TypeOK, SendFails
<1>12. ASSUME NEW r \in Requests, QueryFails(r) PROVE TypeOK'
  BY <1>12 DEF TypeOK, QueryFails
<1>13. ASSUME NEW r \in Requests, Rollback(r) PROVE TypeOK'
  BY <1>13, FreedType DEF TypeOK, Rollback, EndTxns
<1>14. ASSUME NEW r \in Requests, Cleanup(r) PROVE TypeOK'
  <2>1. idem' \in [Keys -> Requests \cup {None, Placeholder}]
    BY <1>14 DEF TypeOK, Cleanup
  <2> QED
    BY <1>14, <2>1 DEF TypeOK, Cleanup
<1>15. ASSUME NEW r \in Requests, ConnectionLost(r) PROVE TypeOK'
  BY <1>15, FreedType DEF TypeOK, ConnectionLost, EndTxns
<1>16. ASSUME NEW r \in Requests, RollbackThrows(r) PROVE TypeOK'
  BY <1>16 DEF TypeOK, RollbackThrows
<1>17. CASE Crash
  <2>1. pc' \in [Requests -> Phases]
    BY <1>17 DEF TypeOK, Crash
  <2>2. /\ keyLock' \in [Keys -> Requests \cup {None}]
        /\ stockLock' \in [Products -> Requests \cup {None}]
        /\ cartLock' \in [Carts -> Requests \cup {None}]
    BY <1>17, FreedType DEF TypeOK, Crash, EndTxns
  <2> QED
    BY <1>17, <2>1, <2>2 DEF TypeOK, Crash
<1>18. ASSUME NEW p \in Products, NEW qty \in 1..MaxQty, Restock(p, qty) PROVE TypeOK'
  BY <1>18 DEF TypeOK, Restock
<1>19. CASE UNCHANGED vars
  BY <1>19 DEF TypeOK, vars
<1> QED
  BY <1>1, <1>2, <1>3, <1>4, <1>5, <1>6, <1>7, <1>8, <1>9, <1>10, <1>11, <1>12, <1>13,
     <1>14, <1>15, <1>16, <1>17, <1>18, <1>19
     DEF Next, Step, Fault, Commit, CommitUnacked, Quiet

\* Only a commit changes what is saved: the DELETE of a refused call finds no
\* placeholder, since none is ever committed.
LEMMA OnlyCommitWrites ==
  ASSUME TypeOK, SavedIsOrder, [Next]_vars
  PROVE  /\ arg' = arg
         /\ \/ UNCHANGED <<idem, cartStatus, order>>
            \/ \E r \in Requests :
                 /\ pc[r] = "commit" /\ CommitTables(r)
                 /\ \/ pc' = [pc EXCEPT ![r] = "publish"]
                    \/ pc' = [pc EXCEPT ![r] = "broken"]
                 /\ UNCHANGED <<items, reply, queue>>
<1> USE SpecialValues DEF tables, locks, Goto, Answer
<1>1. CASE \E r \in Requests : Commit(r) \/ CommitUnacked(r)
  BY <1>1 DEF Commit, CommitUnacked
<1>2. ASSUME NEW r \in Requests, Cleanup(r) PROVE UNCHANGED <<idem, cartStatus, order, arg>>
  <2>1. Key(r) \in Keys /\ idem[Key(r)] # Placeholder
    BY ConstantsOK DEF TypeOK, SavedIsOrder, Key
  <2> QED
    BY <1>2, <2>1 DEF Cleanup, InProgress, TypeOK
<1>3. CASE \E r \in Requests :
             \/ Connect(r) \/ InsertKey(r) \/ LockKey(r) \/ ReadCart(r)
             \/ (\E p \in Products : LockStock(r, p)) \/ DecreaseStock(r) \/ MarkCart(r)
             \/ PublishSkipped(r) \/ SendOk(r) \/ SendFails(r)
             \/ QueryFails(r) \/ Rollback(r) \/ ConnectionLost(r) \/ RollbackThrows(r)
  BY <1>3 DEF Connect, InsertKey, LockKey, ReadCart, LockStock, DecreaseStock, MarkCart,
     PublishSkipped, SendOk, SendFails, QueryFails, Rollback, ConnectionLost, RollbackThrows
<1>4. CASE Crash \/ (\E p \in Products, qty \in 1..MaxQty : Restock(p, qty)) \/ UNCHANGED vars
  BY <1>4 DEF Crash, Restock, vars
<1> QED
  BY <1>1, <1>2, <1>3, <1>4 DEF Next, Step, Fault, Quiet

\* A call keeps its key's lock, and the key stays free of answers, until it commits.
LEMMA KeyStep ==
  ASSUME TypeOK, KeyHeld, SavedIsOrder, [Next]_vars
  PROVE  KeyHeld'
<1> USE SpecialValues DEF tables, locks, Goto, Answer, Holding, Key
<1>0. /\ \A r \in Requests : arg[r].key \in Keys
      /\ arg' = arg
  BY ConstantsOK, OnlyCommitWrites DEF TypeOK
<1>1. ASSUME NEW r \in Requests, InsertKey(r) PROVE KeyHeld'
  BY <1>1, <1>0 DEF InsertKey, KeyFree, KeyHeld, TypeOK
<1>2. ASSUME NEW r \in Requests, LockKey(r) PROVE KeyHeld'
  <2>1. CASE pc' = [pc EXCEPT ![r] = "done"] /\ UNCHANGED <<idem, keyLock>>
    BY <2>1, <1>0 DEF KeyHeld, TypeOK
  <2>2. CASE idem[Key(r)] = None /\ pc' = [pc EXCEPT ![r] = "readCart"] /\ UNCHANGED <<idem, keyLock>>
    BY <1>2, <2>2, <1>0 DEF LockKey, KeyHeld, TypeOK
  <2> QED
    BY <1>2, <2>1, <2>2, <1>0 DEF LockKey, SavedIsOrder, TypeOK
<1>3. ASSUME NEW r \in Requests, pc[r] = "commit", CommitTables(r),
             \/ pc' = [pc EXCEPT ![r] = "publish"]
             \/ pc' = [pc EXCEPT ![r] = "broken"]
      PROVE  KeyHeld'
  <2>1. keyLock[Key(r)] = r
    BY <1>3 DEF KeyHeld
  <2>2. ASSUME NEW s \in Requests, s # r, keyLock[Key(s)] = s
        PROVE  keyLock'[Key(s)] = s /\ idem'[Key(s)] = idem[Key(s)]
    BY <1>3, <2>1, <2>2, <1>0 DEF CommitTables, Response, EndTxns, Freed, TypeOK
  <2>3. \A s \in Requests : s # r => (idem'[Key(s)] = None => idem[Key(s)] = None)
    BY <1>3, <1>0 DEF CommitTables, Response, TypeOK
  <2>4. /\ pc'[r] \notin Holding \cup {"lockKey"}
        /\ \A s \in Requests : s # r => pc'[s] = pc[s]
    BY <1>3 DEF TypeOK
  <2>5. ASSUME NEW s \in Requests, pc'[s] \in Holding
        PROVE  keyLock'[Key(s)] = s /\ idem'[Key(s)] = None
    BY <2>2, <2>4, <2>5 DEF KeyHeld
  <2>6. ASSUME NEW s \in Requests, pc'[s] = "lockKey", idem'[Key(s)] = None
        PROVE  keyLock'[Key(s)] = s
    BY <2>2, <2>3, <2>4, <2>6 DEF KeyHeld
  <2> QED
    BY <2>5, <2>6, <1>0 DEF KeyHeld
<1>4. ASSUME NEW gone \in SUBSET Requests, UNCHANGED idem, EndTxns(gone),
             \A s \in Requests \ gone : pc'[s] = pc[s],
             \A s \in gone : pc'[s] \notin Holding \cup {"lockKey"}
      PROVE  KeyHeld'
  BY <1>4, <1>0 DEF KeyHeld, EndTxns, Freed, TypeOK
<1>5. ASSUME NEW r \in Requests, UNCHANGED <<idem, keyLock>>,
             \A s \in Requests \ {r} : pc'[s] = pc[s],
             pc'[r] \in Holding => pc[r] \in Holding,
             pc'[r] = "lockKey" => pc[r] = "lockKey"
      PROVE  KeyHeld'
  BY <1>5, <1>0 DEF KeyHeld, TypeOK
<1>6. CASE \E r \in Requests : Rollback(r) \/ ConnectionLost(r)
  <2>1. PICK r \in Requests : Rollback(r) \/ ConnectionLost(r)
    BY <1>6
  <2>2. /\ EndTxns({r}) /\ UNCHANGED <<idem, avail, items>>
        /\ pc' = [pc EXCEPT ![r] = "cleanup"] \/ pc' = [pc EXCEPT ![r] = "broken"]
    BY <2>1 DEF Rollback, ConnectionLost
  <2>3. \A s \in Requests \ {r} : pc'[s] = pc[s]
    BY <2>2 DEF TypeOK
  <2>4. pc'[r] \in {"cleanup", "broken"}
    BY <2>2 DEF TypeOK
  <2> QED
    BY <1>4, <2>2, <2>3, <2>4
<1>7. CASE Crash
  BY <1>4, <1>7 DEF Crash, TypeOK
<1>8. ASSUME NEW r \in Requests,
             \/ Connect(r) \/ ReadCart(r) \/ (\E p \in Products : LockStock(r, p))
             \/ DecreaseStock(r) \/ MarkCart(r)
             \/ PublishSkipped(r) \/ SendOk(r) \/ SendFails(r)
             \/ QueryFails(r) \/ RollbackThrows(r)
      PROVE  KeyHeld'
  BY <1>5, <1>8 DEF Connect, ReadCart, LockStock, DecreaseStock, MarkCart,
     PublishSkipped, SendOk, SendFails, QueryFails, RollbackThrows, TypeOK
<1>9. ASSUME NEW r \in Requests, Cleanup(r) PROVE KeyHeld'
  <2>1. idem[Key(r)] # Placeholder
    BY <1>0 DEF SavedIsOrder
  <2>2. UNCHANGED idem
    BY <1>9, <1>0, <2>1 DEF Cleanup, InProgress, KeyFree, TypeOK
  <2> QED
    BY <1>5, <1>9, <2>2 DEF Cleanup, InProgress, TypeOK
<1>10. CASE (\E p \in Products, qty \in 1..MaxQty : Restock(p, qty)) \/ UNCHANGED vars
  BY <1>10, <1>0 DEF Restock, vars, KeyHeld
<1> QED
  BY <1>1, <1>2, <1>3, <1>6, <1>7, <1>8, <1>9, <1>10
     DEF Next, Step, Fault, Quiet, Commit, CommitUnacked

\* The tables stay consistent with each other, and no key is answered twice.
LEMMA SavedStep ==
  ASSUME TypeOK, KeyHeld, SavedIsOrder, OrderIsSaved, [Next]_vars
  PROVE  /\ SavedIsOrder' /\ OrderIsSaved'
         /\ \A s \in Requests : order[s] = "pending" => order'[s] = "pending"
         /\ \A k \in Keys : idem[k] # None => idem'[k] = idem[k]
<1> USE SpecialValues DEF Key, Cart
<1>0. /\ \A r \in Requests : arg[r].key \in Keys /\ arg[r].cart \in Carts
      /\ arg' = arg
  BY ConstantsOK, OnlyCommitWrites DEF TypeOK
<1>1. CASE UNCHANGED <<idem, cartStatus, order>>
  BY <1>1, <1>0 DEF SavedIsOrder, OrderIsSaved
<1>2. ASSUME NEW r \in Requests, pc[r] = "commit", CommitTables(r)
      PROVE  /\ SavedIsOrder' /\ OrderIsSaved'
             /\ \A s \in Requests : order[s] = "pending" => order'[s] = "pending"
             /\ \A k \in Keys : idem[k] # None => idem'[k] = idem[k]
  <2>1. keyLock[Key(r)] = r /\ idem[Key(r)] = None
    BY <1>2 DEF KeyHeld, Holding
  <2>2. /\ idem' = [idem EXCEPT ![Key(r)] = r]
        /\ order' = [order EXCEPT ![r] = "pending"]
        /\ cartStatus' = [cartStatus EXCEPT ![Cart(r)] = "checked_out"]
    BY <1>2, <2>1 DEF CommitTables, Response
  <2>3. SavedIsOrder'
    BY <2>1, <2>2, <1>0 DEF SavedIsOrder, TypeOK
  <2>4. OrderIsSaved'
    BY <2>1, <2>2, <1>0 DEF OrderIsSaved, TypeOK
  <2> QED
    BY <2>1, <2>2, <2>3, <2>4, <1>0 DEF TypeOK
<1> QED
  BY <1>1, <1>2, OnlyCommitWrites

\* A call reaches the publication only through its own commit.
LEMMA PublishStep ==
  ASSUME TypeOK, KeyHeld, SavedIsOrder, OrderIsSaved, PublishHasOrder, [Next]_vars
  PROVE  PublishHasOrder'
<1> USE SpecialValues DEF tables, locks, Goto, Answer, Key, Cart
<1>1. \A s \in Requests : order[s] = "pending" => order'[s] = "pending"
  BY SavedStep
<1>2. ASSUME NEW r \in Requests, Commit(r) \/ CommitUnacked(r) PROVE PublishHasOrder'
  <2>1. order'[r] = "pending" /\ (\A s \in Requests \ {r} : pc'[s] = pc[s])
    BY <1>2 DEF Commit, CommitUnacked, CommitTables, TypeOK
  <2> QED
    BY <1>1, <2>1 DEF PublishHasOrder
<1>3. ASSUME NEW r \in Requests,
             \/ Connect(r) \/ InsertKey(r) \/ LockKey(r) \/ ReadCart(r)
             \/ (\E p \in Products : LockStock(r, p)) \/ DecreaseStock(r) \/ MarkCart(r)
             \/ PublishSkipped(r) \/ SendOk(r) \/ SendFails(r)
             \/ QueryFails(r) \/ Rollback(r) \/ Cleanup(r) \/ ConnectionLost(r) \/ RollbackThrows(r)
      PROVE  PublishHasOrder'
  <2>1. \A s \in Requests : pc'[s] = "publish" => pc[s] = "publish"
    BY <1>3 DEF Connect, InsertKey, LockKey, ReadCart, LockStock, DecreaseStock, MarkCart,
       PublishSkipped, SendOk, SendFails, QueryFails, Rollback, Cleanup, ConnectionLost,
       RollbackThrows, TypeOK
  <2> QED
    BY <1>1, <2>1 DEF PublishHasOrder
<1>4. CASE Crash \/ (\E p \in Products, qty \in 1..MaxQty : Restock(p, qty)) \/ UNCHANGED vars
  BY <1>4, <1>1 DEF Crash, Restock, vars, PublishHasOrder, TypeOK
<1> QED
  BY <1>2, <1>3, <1>4 DEF Next, Step, Fault, Quiet

\* Only the holder of a stock row changes it, except for a restock, which adds.
LEMMA StockStep ==
  ASSUME TypeOK, StockStaysCovered, [Next]_vars
  PROVE  StockStaysCovered'
<1> USE SpecialValues DEF tables, locks, Goto, Answer, Wanted
<1> DEFINE Checked == {"markCart", "commit"}
<1>1. ASSUME NEW r \in Requests, pc[r] = "commit", CommitTables(r), UNCHANGED items,
             \/ pc' = [pc EXCEPT ![r] = "publish"]
             \/ pc' = [pc EXCEPT ![r] = "broken"]
      PROVE  StockStaysCovered'
  <2> SUFFICES ASSUME NEW s \in Requests, pc'[s] \in Checked, NEW p \in Products, items[s][p] > 0
               PROVE  stockLock'[p] = s /\ items[s][p] <= avail'[p]
    BY <1>1 DEF StockStaysCovered
  <2>1. s # r /\ pc[s] \in Checked
    BY <1>1 DEF TypeOK
  <2>2. stockLock[p] = s /\ items[s][p] <= avail[p]
    BY <2>1 DEF StockStaysCovered
  <2>3. items[r][p] = 0
    BY <1>1, <2>1, <2>2 DEF StockStaysCovered, TypeOK
  <2> QED
    BY <1>1, <2>1, <2>2, <2>3 DEF CommitTables, EndTxns, Freed, TypeOK
<1>2. ASSUME NEW gone \in SUBSET Requests, UNCHANGED <<avail, items>>, EndTxns(gone),
             \A s \in Requests \ gone : pc'[s] = pc[s],
             \A s \in gone : pc'[s] \notin Checked
      PROVE  StockStaysCovered'
  BY <1>2 DEF StockStaysCovered, EndTxns, Freed, TypeOK
<1>3. ASSUME NEW r \in Requests, UNCHANGED <<avail, items, stockLock>>,
             \A s \in Requests \ {r} : pc'[s] = pc[s],
             pc'[r] \in Checked => pc[r] \in Checked
      PROVE  StockStaysCovered'
  BY <1>3 DEF StockStaysCovered, TypeOK
<1>4. CASE \E r \in Requests : Rollback(r) \/ ConnectionLost(r)
  <2>1. PICK r \in Requests : Rollback(r) \/ ConnectionLost(r)
    BY <1>4
  <2>2. /\ EndTxns({r}) /\ UNCHANGED <<idem, avail, items>>
        /\ pc' = [pc EXCEPT ![r] = "cleanup"] \/ pc' = [pc EXCEPT ![r] = "broken"]
    BY <2>1 DEF Rollback, ConnectionLost
  <2>3. \A s \in Requests \ {r} : pc'[s] = pc[s]
    BY <2>2 DEF TypeOK
  <2>4. pc'[r] \in {"cleanup", "broken"}
    BY <2>2 DEF TypeOK
  <2> QED
    BY <1>2, <2>2, <2>3, <2>4
<1>5. CASE Crash
  BY <1>2, <1>5 DEF Crash, TypeOK
<1>6. ASSUME NEW r \in Requests,
             \/ Connect(r) \/ InsertKey(r) \/ LockKey(r) \/ MarkCart(r)
             \/ PublishSkipped(r) \/ SendOk(r) \/ SendFails(r)
             \/ QueryFails(r) \/ Cleanup(r) \/ RollbackThrows(r)
      PROVE  StockStaysCovered'
  BY <1>3, <1>6 DEF Connect, InsertKey, LockKey, MarkCart, PublishSkipped, SendOk,
     SendFails, QueryFails, Cleanup, RollbackThrows, TypeOK
<1>7. ASSUME NEW r \in Requests, ReadCart(r) PROVE StockStaysCovered'
  <2> SUFFICES ASSUME NEW s \in Requests, pc'[s] \in Checked, NEW p \in Products, items'[s][p] > 0
               PROVE  stockLock'[p] = s /\ items'[s][p] <= avail'[p]
    BY DEF StockStaysCovered
  <2>1. pc' = [pc EXCEPT ![r] = "lockStock"] \/ pc' = [pc EXCEPT ![r] = "rollback"]
    BY <1>7 DEF ReadCart
  <2>2. s # r /\ pc[s] \in Checked
    BY <2>1 DEF TypeOK
  <2>3. items' = items \/ items' = [items EXCEPT ![r] = cartItems[Cart(r)]]
    BY <1>7 DEF ReadCart
  <2>4. items'[s] = items[s]
    BY <2>2, <2>3 DEF TypeOK
  <2> QED
    BY <1>7, <2>2, <2>4 DEF ReadCart, StockStaysCovered
<1>8. ASSUME NEW r \in Requests, NEW p \in Products, LockStock(r, p) PROVE StockStaysCovered'
  BY <1>8 DEF LockStock, StockStaysCovered, TypeOK
<1>9. ASSUME NEW r \in Requests, DecreaseStock(r) PROVE StockStaysCovered'
  <2>1. CASE pc' = [pc EXCEPT ![r] = "markCart"] /\ \A p \in Wanted(r) : items[r][p] <= avail[p]
    BY <1>9, <2>1 DEF DecreaseStock, StockHeld, Covered, StockStaysCovered, TypeOK
  <2>2. CASE pc' = [pc EXCEPT ![r] = "rollback"]
    BY <1>3, <1>9, <2>2 DEF DecreaseStock, TypeOK
  <2> QED
    BY <1>9, <2>1, <2>2 DEF DecreaseStock, Covered, Goto
<1>10. ASSUME NEW p \in Products, NEW qty \in 1..MaxQty, Restock(p, qty) PROVE StockStaysCovered'
  BY <1>10 DEF Restock, StockStaysCovered, TypeOK
<1>11. CASE UNCHANGED vars
  BY <1>11 DEF vars, StockStaysCovered
<1> QED
  BY <1>1, <1>4, <1>5, <1>6, <1>7, <1>8, <1>9, <1>10, <1>11
     DEF Next, Step, Fault, Quiet, Commit, CommitUnacked

\* An order is only named to a client, or in an event, once it is committed.
LEMMA ReplyStep ==
  ASSUME IInv, [Next]_vars
  PROVE  SameReplyPerKey' /\ MessageHasOrder'
<1> USE SpecialValues DEF tables, locks, Goto, Key, Cart
<1>0. /\ \A r \in Requests : arg[r].key \in Keys
      /\ arg' = arg
  BY ConstantsOK, OnlyCommitWrites DEF TypeOK, IInv
<1>1. /\ \A s \in Requests : order[s] = "pending" => order'[s] = "pending"
      /\ \A k \in Keys : idem[k] # None => idem'[k] = idem[k]
  BY SavedStep DEF IInv
<1>2. ASSUME \A s \in Requests :
               /\ reply'[s] \in {reply[s], Error} \/ (reply'[s] \in Requests /\ reply'[s] = idem[Key(s)])
               /\ queue'[s] = queue[s] \/ order[s] = "pending"
      PROVE  SameReplyPerKey' /\ MessageHasOrder'
  <2> SUFFICES ASSUME NEW s \in Requests
               PROVE  /\ reply'[s] \in Requests => idem'[Key(s)] = reply'[s]
                      /\ queue'[s] > 0 => order'[s] = "pending"
    BY <1>0 DEF SameReplyPerKey, MessageHasOrder
  <2>1. reply'[s] \in Requests => idem[Key(s)] = reply'[s]
    BY <1>2 DEF IInv, SameReplyPerKey
  <2>2. reply'[s] \in Requests => idem[Key(s)] # None
    BY <2>1
  <2>3. queue'[s] > 0 => order[s] = "pending"
    BY <1>2 DEF IInv, MessageHasOrder
  <2> QED
    BY <1>0, <1>1, <2>1, <2>2, <2>3
<1>3. CASE UNCHANGED <<reply, queue>>
  BY <1>2, <1>3
<1>4. ASSUME NEW r \in Requests, LockKey(r) PROVE SameReplyPerKey' /\ MessageHasOrder'
  BY <1>2, <1>4 DEF LockKey, Answer, IInv, TypeOK
<1>5. ASSUME NEW r \in Requests, PublishSkipped(r) \/ SendOk(r) \/ SendFails(r)
      PROVE  SameReplyPerKey' /\ MessageHasOrder'
  <2>1. idem[Key(r)] = r /\ order[r] = "pending"
    BY <1>5 DEF PublishSkipped, SendOk, SendFails, IInv, PublishHasOrder, OrderIsSaved
  <2>2. \A s \in Requests \ {r} : reply'[s] = reply[s] /\ queue'[s] = queue[s]
    BY <1>5 DEF PublishSkipped, SendOk, SendFails, Answer, IInv, TypeOK
  <2>3. reply'[r] = reply[r] \/ reply'[r] = r
    BY <1>5 DEF PublishSkipped, SendOk, SendFails, Answer, IInv, TypeOK
  <2> QED
    BY <1>2, <2>1, <2>2, <2>3
<1>6. ASSUME NEW r \in Requests, Cleanup(r) \/ RollbackThrows(r)
      PROVE  SameReplyPerKey' /\ MessageHasOrder'
  BY <1>2, <1>6 DEF Cleanup, RollbackThrows, Answer, IInv, TypeOK
<1>7. CASE \E r \in Requests :
             \/ Connect(r) \/ InsertKey(r) \/ ReadCart(r)
             \/ (\E p \in Products : LockStock(r, p)) \/ DecreaseStock(r) \/ MarkCart(r)
             \/ Commit(r) \/ CommitUnacked(r)
             \/ QueryFails(r) \/ Rollback(r) \/ ConnectionLost(r)
  BY <1>3, <1>7 DEF Connect, InsertKey, ReadCart, LockStock, DecreaseStock, MarkCart,
     Commit, CommitUnacked, QueryFails, Rollback, ConnectionLost
<1>8. CASE Crash \/ (\E p \in Products, qty \in 1..MaxQty : Restock(p, qty)) \/ UNCHANGED vars
  BY <1>3, <1>8 DEF Crash, Restock, vars
<1> QED
  BY <1>4, <1>5, <1>6, <1>7, <1>8 DEF Next, Step, Fault, Quiet

-----------------------------------------------------------------------------
(* The theorems. *)

\* IInv holds in every reachable state.
THEOREM Invariance == Spec => []IInv
<1>1. IInv /\ [Next]_vars => IInv'
  <2> SUFFICES ASSUME IInv, [Next]_vars PROVE IInv'
    OBVIOUS
  <2>1. TypeOK' /\ KeyHeld' /\ StockStaysCovered'
    BY TypeStep, KeyStep, StockStep DEF IInv
  <2>2. SavedIsOrder' /\ OrderIsSaved' /\ PublishHasOrder'
    BY SavedStep, PublishStep DEF IInv
  <2> QED
    BY <2>1, <2>2, ReplyStep DEF IInv
<1> QED
  BY InitIInv, <1>1, PTL DEF Spec

\* The columns keep their types; in particular no interleaving of checkouts and
\* restocks takes available_qty below zero.
THEOREM TypeCorrect == Spec => []TypeOK
  BY Invariance, PTL DEF IInv

\* Whatever calls share an Idempotency-Key, and whatever fails, at most one
\* order is ever inserted under it.
THEOREM OneOrder == Spec => []OneOrderPerKey
<1>1. IInv => OneOrderPerKey
  BY DEF IInv, OrderIsSaved, OneOrderPerKey
<1> QED
  BY Invariance, <1>1, PTL

\* The order, the response saved under its key and the closed cart appear
\* together, and no placeholder row is ever committed.
THEOREM Atomicity == Spec => []AllOrNothing
<1>1. IInv => AllOrNothing
  BY SpecialValues DEF IInv, OrderIsSaved, SavedIsOrder, AllOrNothing
<1> QED
  BY Invariance, <1>1, PTL

\* All successful answers to one key name the same order.
THEOREM SameReply == Spec => []SameReplyPerKey
  BY Invariance, PTL DEF IInv

\* From the stock check to COMMIT the checked rows stay locked and sufficient.
THEOREM StockCovered == Spec => []StockStaysCovered
  BY Invariance, PTL DEF IInv

\* No event is sent for an order that is not committed.
THEOREM MessagesHaveOrders == Spec => []MessageHasOrder
  BY Invariance, PTL DEF IInv

-----------------------------------------------------------------------------
(* Checkouts never deadlock.  A call takes its locks in three tiers: the   *)
(* key's row, the inventory rows in the order of their ids, the cart's     *)
(* row.  LInv says who may hold a lock of each tier and, for the           *)
(* inventory, that the rows a call holds while it locks are a prefix of    *)
(* those it wants.  Among calls that all wait for each other, one that     *)
(* waits for the inventory row of the highest id waits for a call that     *)
(* waits for a higher one.                                                 *)

HoldsCart  == {"commit", "rollback"}
HoldsStock == {"lockStock", "markCart"} \cup HoldsCart
HoldsKey   == {"lockKey", "readCart"} \cup HoldsStock

\* A call holds the row of no key but its own.
KeyOwners ==
  \A k \in Keys, s \in Requests : keyLock[k] = s => Key(s) = k /\ pc[s] \in HoldsKey

\* A call that still locks inventory has every row it wants below one it holds.
StockOwners ==
  \A p \in Products, s \in Requests : stockLock[p] = s =>
    /\ pc[s] \in HoldsStock
    /\ pc[s] = "lockStock" => NextRow(s, p)

\* The cart comes last: after its row a call takes no other lock.
CartOwners ==
  \A c \in Carts, s \in Requests : cartLock[c] = s => pc[s] \in HoldsCart

LInv == TypeOK /\ KeyOwners /\ StockOwners /\ CartOwners

LEMMA InitLInv == Init => LInv
  BY InitIInv, SpecialValues DEF Init, IInv, LInv, KeyOwners, StockOwners, CartOwners

\* A call's arguments never change.
LEMMA ArgStep == TypeOK /\ [Next]_vars => arg' = arg
  BY DEF Next, Step, Fault, Quiet, vars, tables, locks, Connect, InsertKey, LockKey, ReadCart,
     LockStock, DecreaseStock, MarkCart, Commit, PublishSkipped, SendOk, SendFails, QueryFails,
     Rollback, Cleanup, ConnectionLost, CommitUnacked, RollbackThrows, Crash, Restock

\* What the end of transactions leaves in a lock table.
LEMMA FreedHolders ==
  ASSUME NEW lock, NEW gone, NEW x \in DOMAIN lock, NEW s \in Requests,
         Freed(lock, gone)[x] = s
  PROVE  s # None => lock[x] = s /\ s \notin gone
  BY DEF Freed

\* The actions that end the transaction of a call, or of every call with a client.
Ends(gone) ==
  /\ EndTxns(gone)
  /\ \A s \in Requests \ gone : pc'[s] = pc[s]
  /\ items' = items

LEMMA EndingSteps ==
  ASSUME TypeOK,
         \/ \E r \in Requests : Commit(r) \/ CommitUnacked(r) \/ Rollback(r) \/ ConnectionLost(r)
         \/ Crash
  PROVE  \E gone : Ends(gone)
<1>1. ASSUME NEW r \in Requests,
             Commit(r) \/ CommitUnacked(r) \/ Rollback(r) \/ ConnectionLost(r)
      PROVE  Ends({r})
  BY <1>1 DEF TypeOK, Ends, Commit, CommitUnacked, CommitTables, Rollback, ConnectionLost, Goto
<1>2. ASSUME Crash PROVE Ends({r \in Requests : pc[r] \in WithClient})
  BY <1>2 DEF Ends, Crash
<1> QED
  BY <1>1, <1>2

\* The end of transactions takes their locks away and leaves the other calls be.
LEMMA EndingKeepsOwners ==
  ASSUME TypeOK, KeyOwners, StockOwners, CartOwners, arg' = arg, NEW gone, Ends(gone)
  PROVE  KeyOwners' /\ StockOwners' /\ CartOwners'
<1>1. /\ DOMAIN keyLock = Keys /\ DOMAIN stockLock = Products /\ DOMAIN cartLock = Carts
      /\ None \notin Requests
  BY SpecialValues DEF TypeOK
<1>2. /\ \A k \in Keys, s \in Requests : keyLock'[k] = s => keyLock[k] = s /\ s \notin gone
      /\ \A p \in Products, s \in Requests :
           stockLock'[p] = s => stockLock[p] = s /\ s \notin gone
      /\ \A c \in Carts, s \in Requests : cartLock'[c] = s => cartLock[c] = s /\ s \notin gone
  BY <1>1, FreedHolders DEF Ends, EndTxns
<1>3. \A p \in Products, s \in Requests :
        stockLock[p] = s /\ s \notin gone => stockLock'[p] = s
  BY <1>1 DEF Ends, EndTxns, Freed
<1>4. KeyOwners'
  BY <1>2 DEF KeyOwners, Key, Ends
<1>5. StockOwners'
  BY <1>2, <1>3 DEF StockOwners, NextRow, Wanted, Ends
<1>6. CartOwners'
  BY <1>2 DEF CartOwners, Ends
<1> QED
  BY <1>4, <1>5, <1>6

\* A call that moves on keeps the locks it has: each phase of the transaction may
\* hold what the phase before it held.
LEMMA MovingKeepsOwners ==
  ASSUME TypeOK, KeyOwners, StockOwners, CartOwners, arg' = arg, NEW r \in Requests,
         UNCHANGED <<keyLock, stockLock, cartLock>>,
         \/ Connect(r) \/ InsertKey(r) \/ LockKey(r) \/ ReadCart(r) \/ DecreaseStock(r)
         \/ PublishSkipped(r) \/ SendOk(r) \/ SendFails(r) \/ QueryFails(r) \/ Cleanup(r)
         \/ RollbackThrows(r)
  PROVE  KeyOwners' /\ StockOwners' /\ CartOwners'
<1>1. /\ \A s \in Requests : pc'[s] = pc[s] \/ s = r
      /\ pc[r] \in HoldsKey => pc'[r] \in HoldsKey \/ keyLock[Key(r)] # r
      /\ pc[r] \in HoldsStock => pc'[r] \in HoldsStock /\ pc'[r] # "lockStock"
      /\ pc[r] \in HoldsCart => pc'[r] \in HoldsCart
      /\ \/ items' = items
         \/ pc[r] = "readCart" /\ \A s \in Requests \ {r} : items'[s] = items[s]
  BY SpecialValues DEF TypeOK, tables, locks, Goto, Answer, Phases, WithClient, InTxn, Over,
     HoldsKey, HoldsStock, HoldsCart, Connect, InsertKey, LockKey, ReadCart, DecreaseStock,
     PublishSkipped, SendOk, SendFails, QueryFails, Cleanup, RollbackThrows, KeyFree
<1>2. KeyOwners'
  BY <1>1 DEF KeyOwners, Key
<1>3. StockOwners'
  BY <1>1 DEF StockOwners, NextRow, Wanted, HoldsStock, HoldsCart
<1>4. CartOwners'
  BY <1>1 DEF CartOwners
<1> QED
  BY <1>2, <1>3, <1>4

\* A call that takes a row lock found the row free, and takes it in its turn.
LEMMA LockingKeepsOwners ==
  ASSUME TypeOK, KeyOwners, StockOwners, CartOwners, arg' = arg, NEW r \in Requests,
         \/ InsertKey(r) \/ LockKey(r) \/ MarkCart(r) \/ \E p \in Products : LockStock(r, p)
  PROVE  KeyOwners' /\ StockOwners' /\ CartOwners'
<1> USE SpecialValues DEF TypeOK, tables, locks, Goto, Answer, HoldsKey, HoldsStock, HoldsCart
<1>1. CASE InsertKey(r) \/ LockKey(r)
  <2>1. CASE UNCHANGED keyLock
    BY <1>1, <2>1, MovingKeepsOwners DEF InsertKey, LockKey
  <2>2. CASE /\ keyLock' = [keyLock EXCEPT ![Key(r)] = r]
             /\ pc' = [pc EXCEPT ![r] = "lockKey"] \/ pc' = [pc EXCEPT ![r] = "readCart"]
             /\ pc[r] \in {"insertKey", "lockKey"}
             /\ UNCHANGED <<stockLock, cartLock, items>>
    <3>1. KeyOwners'
      BY <2>2, ConstantsOK DEF KeyOwners, Key
    <3>2. StockOwners'
      <4>1. /\ \A p \in Products : stockLock[p] # r
            /\ \A s \in Requests \ {r} : pc'[s] = pc[s]
        BY <2>2 DEF StockOwners
      <4> QED
        BY <2>2, <4>1 DEF StockOwners, NextRow, Wanted
    <3>3. CartOwners'
      <4>1. /\ \A c \in Carts : cartLock[c] # r
            /\ \A s \in Requests \ {r} : pc'[s] = pc[s]
        BY <2>2 DEF CartOwners
      <4> QED
        BY <2>2, <4>1 DEF CartOwners
    <3> QED
      BY <3>1, <3>2, <3>3
  <2> QED
    BY <1>1, <2>1, <2>2 DEF InsertKey, LockKey
<1>2. CASE MarkCart(r)
  <2>1. KeyOwners'
    BY <1>2 DEF MarkCart, KeyOwners, Key
  <2>2. StockOwners'
    BY <1>2 DEF MarkCart, StockOwners, NextRow, Wanted
  <2>3. CartOwners'
    BY <1>2 DEF MarkCart, CartOwners
  <2> QED
    BY <2>1, <2>2, <2>3
<1>3. ASSUME NEW p \in Products, LockStock(r, p) PROVE KeyOwners' /\ StockOwners' /\ CartOwners'
  <2>1. KeyOwners' /\ CartOwners'
    BY <1>3 DEF LockStock, KeyOwners, Key, CartOwners
  <2>2. StockOwners'
    BY <1>3 DEF LockStock, StockOwners, NextRow, Wanted
  <2> QED
    BY <2>1, <2>2
<1> QED
  BY <1>1, <1>2, <1>3

LEMMA LInvStep == LInv /\ [Next]_vars /\ TypeOK' => LInv'
<1> SUFFICES ASSUME LInv, [Next]_vars, TypeOK'
             PROVE  KeyOwners' /\ StockOwners' /\ CartOwners'
  BY DEF LInv
<1>0. arg' = arg
  BY ArgStep DEF LInv
<1>1. CASE \/ \E r \in Requests :
                Commit(r) \/ CommitUnacked(r) \/ Rollback(r) \/ ConnectionLost(r)
           \/ Crash
  BY <1>0, <1>1, EndingSteps, EndingKeepsOwners DEF LInv
<1>2. ASSUME NEW r \in Requests,
             \/ InsertKey(r) \/ LockKey(r) \/ MarkCart(r) \/ \E p \in Products : LockStock(r, p)
      PROVE  KeyOwners' /\ StockOwners' /\ CartOwners'
  BY <1>0, <1>2, LockingKeepsOwners DEF LInv
<1>3. ASSUME NEW r \in Requests,
             \/ Connect(r) \/ ReadCart(r) \/ DecreaseStock(r) \/ PublishSkipped(r) \/ SendOk(r)
             \/ SendFails(r) \/ QueryFails(r) \/ Cleanup(r) \/ RollbackThrows(r)
      PROVE  KeyOwners' /\ StockOwners' /\ CartOwners'
  <2>1. UNCHANGED <<keyLock, stockLock, cartLock>>
    BY <1>3 DEF locks, Connect, ReadCart, DecreaseStock, PublishSkipped, SendOk, SendFails,
       QueryFails, Cleanup, RollbackThrows
  <2> QED
    BY <1>0, <1>3, <2>1, MovingKeepsOwners DEF LInv
<1>4. CASE UNCHANGED vars \/ \E p \in Products, qty \in 1..MaxQty : Restock(p, qty)
  BY <1>4 DEF LInv, KeyOwners, StockOwners, CartOwners, NextRow, Wanted, Key, Restock, vars, locks
<1> QED
  BY <1>1, <1>2, <1>3, <1>4 DEF Next, Step, Fault, Quiet

\* Of any rows of the inventory one has the highest id.
LEMMA HighestRow ==
  ASSUME NEW W \in SUBSET Products, W # {}
  PROVE  \E p \in W : \A q \in W : ~(p < q)
<1> DEFINE Above(p) == {q \in Products : p < q}
           T == {Above(p) : p \in W}
<1>1. IsWellFoundedOn(StrictSubsetOrdering(Products), SUBSET Products)
  BY FinitelyMany, FS_StrictSubsetOrderingWellFounded, FS_FiniteSubsetsOfFinite
<1>2. T \subseteq SUBSET Products /\ T # {}
  OBVIOUS
<1> HIDE DEF T
<1>3. PICK x \in T : \A y \in T : ~(<<y, x>> \in StrictSubsetOrdering(Products))
  BY <1>1, <1>2, WFMin
<1>4. PICK p \in W : x = Above(p)
  BY <1>3 DEF T
<1>5. ASSUME NEW q \in W, p < q PROVE FALSE
  <2>1. Above(q) \subseteq Above(p) /\ Above(q) # Above(p)
    <3>1. p \in Nat /\ q \in Nat /\ q \in Products /\ Products \subseteq Nat
      BY ConstantsOK
    <3>2. q \in Above(p) /\ q \notin Above(q)
      BY <1>5, <3>1
    <3>3. \A m \in Products : q < m => p < m
      BY <1>5, <3>1
    <3> QED
      BY <3>2, <3>3
  <2>2. Above(q) \in T /\ Above(q) \in SUBSET Products /\ Above(p) \in SUBSET Products
    BY DEF T
  <2>3. <<Above(q), Above(p)>> \in StrictSubsetOrdering(Products)
    BY <2>1, <2>2 DEF StrictSubsetOrdering
  <2> QED
    BY <1>3, <1>4, <2>2, <2>3
<1> QED
  BY <1>5

\* A call that waits for a lock waits for the holder of the next lock it needs.
LEMMA WaitersTier ==
  ASSUME LInv, NEW r \in Requests, NEW s \in Requests, WaitsFor(r, s)
  PROVE  \/ /\ pc[r] \in {"insertKey", "lockKey"}
            /\ keyLock[Key(s)] = s /\ pc[s] \in HoldsKey
         \/ /\ pc[r] = "lockStock" /\ pc[s] \in HoldsStock
            /\ \E p \in Wanted(r) : stockLock[p] = s /\ NextRow(r, p)
         \/ pc[r] = "markCart" /\ pc[s] \in HoldsCart
<1>1. Key(r) \in Keys /\ Cart(r) \in Carts /\ Wanted(r) \subseteq Products
  BY ConstantsOK DEF LInv, TypeOK, Key, Cart, Wanted
<1> QED
  BY <1>1 DEF LInv, KeyOwners, StockOwners, CartOwners, WaitsFor

\* Every state that keeps the tiers is free of deadlock: of calls that all wait
\* for one another none is at the cart, hence all that hold inventory want more
\* of it, and none of them waits for the highest row they wait for.
LEMMA TiersForbidCycles == LInv => NoLockCycle
<1> SUFFICES ASSUME LInv, NEW S \in SUBSET Requests, S # {},
                    \A r \in S : \E s \in S : WaitsFor(r, s)
             PROVE  FALSE
  BY DEF NoLockCycle
<1>1. \A r \in S : pc[r] \in {"insertKey", "lockKey", "lockStock", "markCart"}
  BY DEF WaitsFor
<1>2. \A r \in S : pc[r] # "markCart"
  BY <1>1, WaitersTier DEF HoldsCart
<1>3. \E r \in S : pc[r] = "lockStock"
  <2>1. PICK r \in S : TRUE
    OBVIOUS
  <2>2. PICK s \in S : WaitsFor(r, s)
    OBVIOUS
  <2>3. CASE keyLock[Key(s)] = s /\ pc[s] \in HoldsKey
    <3>1. pc[s] # "lockKey"
      BY <2>3 DEF WaitsFor
    <3> QED
      BY <1>1, <1>2, <2>3, <3>1 DEF HoldsKey, HoldsStock, HoldsCart
  <2> QED
    BY <1>2, <2>2, <2>3, WaitersTier
<1> DEFINE Awaited == {p \in Products :
                         \E r, s \in S : /\ pc[r] = "lockStock" /\ p \in Wanted(r)
                                         /\ stockLock[p] = s /\ r # s}
<1>4. Awaited # {}
  <2>1. PICK r \in S : pc[r] = "lockStock"
    BY <1>3
  <2>2. PICK s \in S : WaitsFor(r, s)
    OBVIOUS
  <2> QED
    BY <2>1, <2>2 DEF WaitsFor, Wanted
<1>5. PICK p \in Awaited : \A q \in Awaited : ~(p < q)
  <2> HIDE DEF Awaited
  <2>1. Awaited \in SUBSET Products
    BY DEF Awaited
  <2> QED
    BY <1>4, <2>1, HighestRow
<1>6. PICK r \in S, s \in S : pc[r] = "lockStock" /\ p \in Wanted(r) /\ stockLock[p] = s /\ r # s
  OBVIOUS
<1>7. pc[s] = "lockStock" /\ NextRow(s, p)
  <2>1. pc[s] \in HoldsStock /\ (pc[s] = "lockStock" => NextRow(s, p))
    BY <1>6 DEF LInv, StockOwners
  <2> QED
    BY <1>1, <1>2, <2>1 DEF HoldsStock, HoldsCart
<1>8. PICK t \in S : WaitsFor(s, t)
  OBVIOUS
<1>9. PICK q \in Wanted(s) : stockLock[q] = t /\ s # t
  BY <1>7, <1>8 DEF WaitsFor
<1>10. q \in Awaited /\ q \in Products
  BY <1>7, <1>9 DEF Wanted
<1>11. ~(q < p)
  BY <1>7, <1>9 DEF NextRow
<1>12. q # p
  BY <1>6, <1>9
<1> QED
  BY <1>5, <1>10, <1>11, <1>12, ConstantsOK

\* Every behaviour of the code keeps the tiers, whatever calls arrive, fail or
\* are cut off.
THEOREM LockInvariance == Spec => []LInv
<1>1. Init => LInv
  BY InitLInv
<1>2. LInv /\ [Next]_vars /\ TypeOK' => LInv'
  BY LInvStep
<1>3. Spec => []TypeOK
  BY TypeCorrect
<1> QED
  BY <1>1, <1>2, <1>3, PTL DEF Spec

\* Concurrent checkouts never wait for each other in a circle: ORDER BY
\* product_id with FOR UPDATE, after the key and before the cart, excludes it.
THEOREM DeadlockFree == Spec => []NoLockCycle
  BY LockInvariance, TiersForbidCycles, PTL

-----------------------------------------------------------------------------
(* No unit is lost.  The sum in StockConserved grows by a call's lines when *)
(* the call commits, the one step that takes them from the shelf; the lines *)
(* of an order that is in the sum never change again, and there are never   *)
(* more than finitely many orders, however many calls may come.             *)

Placed  == {r \in Requests : order[r] # "none"}
Sold(p) == [r \in Requests |-> items[r][p]]

CInv == IInv /\ IsFiniteSet(Placed) /\ StockConserved

LEMMA InitCInv == Init => CInv
<1> SUFFICES ASSUME Init PROVE IsFiniteSet(Placed) /\ StockConserved
  BY InitIInv DEF CInv
<1>1. Placed = {} /\ IsFiniteSet(Placed)
  <2>1. Placed = {}
    BY DEF Init, Placed
  <2> QED
    BY <2>1, FS_EmptySet
<1>2. ASSUME NEW p \in Products
      PROVE  avail[p] + SumFunctionOnSet(Sold(p), Placed) = stocked[p]
  <2>1. SumFunctionOnSet(Sold(p), Placed) = 0
    BY <1>1, SumUnfold
  <2>2. avail[p] \in Nat /\ stocked[p] = avail[p]
    BY ConstantsOK DEF Init
  <2> QED
    BY <2>1, <2>2
<1> QED
  BY <1>1, <1>2 DEF StockConserved, Placed, Sold

\* A commit adds one order to the sum and takes its lines from the shelf.
LEMMA CommitConserves ==
  ASSUME CInv, NEW r \in Requests, pc[r] = "commit", CommitTables(r),
         UNCHANGED <<items, stocked>>
  PROVE  IsFiniteSet(Placed)' /\ StockConserved'
<1> USE DEF CInv, IInv
<1>1. r \notin Placed /\ Placed' = Placed \cup {r}
  <2>1. order[r] = "none"
    BY SpecialValues DEF KeyHeld, Holding, OrderIsSaved, Key
  <2> QED
    BY <2>1 DEF CommitTables, Placed, TypeOK
<1>2. IsFiniteSet(Placed)'
  BY <1>1, FS_AddElement
<1>3. ASSUME NEW p \in Products
      PROVE  (avail[p] + SumFunctionOnSet(Sold(p), Placed) = stocked[p])'
  <2>1. /\ items[r][p] \in Nat /\ avail[p] \in Nat /\ stocked[p] \in Nat
        /\ \A x \in Placed : Sold(p)[x] \in Int
        /\ \A x \in Placed : Sold(p)'[x] = Sold(p)[x]
        /\ Sold(p)'[r] = items[r][p]
    BY ConstantsOK DEF TypeOK, Sold, Placed
  <2>2. SumFunctionOnSet(Sold(p)', Placed') = SumFunctionOnSet(Sold(p), Placed) + items[r][p]
    <3>1. IsFiniteSet(Placed) /\ Sold(p)'[r] \in Int
      BY <2>1
    <3> QED
      BY ONLY <1>1, <2>1, <3>1, SumJoin
  <2>3. SumFunctionOnSet(Sold(p), Placed) \in Int
    BY <2>1, SumSame
  <2>4. avail[p] + SumFunctionOnSet(Sold(p), Placed) = stocked[p]
    BY DEF StockConserved, Sold, Placed
  <2>5. avail'[p] = avail[p] - items[r][p] /\ stocked'[p] = stocked[p]
    BY DEF CommitTables
  <2> QED
    BY <2>1, <2>2, <2>3, <2>4, <2>5
<1> QED
  BY <1>2, <1>3 DEF StockConserved, Sold, Placed

\* A step that commits nothing moves no unit into an order or out of one.
LEMMA OthersConserve ==
  ASSUME CInv, UNCHANGED order, \A r \in Placed : items'[r] = items[r],
         \/ UNCHANGED <<avail, stocked>>
         \/ \E p \in Products, qty \in 1..MaxQty : Restock(p, qty)
  PROVE  IsFiniteSet(Placed)' /\ StockConserved'
<1> USE DEF CInv, IInv
<1>1. Placed' = Placed
  BY DEF Placed
<1>2. ASSUME NEW p \in Products
      PROVE  (avail[p] + SumFunctionOnSet(Sold(p), Placed) = stocked[p])'
  <2>1. /\ \A x \in Placed : Sold(p)[x] \in Int /\ Sold(p)'[x] = Sold(p)[x]
        /\ avail[p] \in Nat /\ stocked[p] \in Nat
    BY ConstantsOK DEF TypeOK, Sold, Placed
  <2>2. /\ SumFunctionOnSet(Sold(p), Placed) \in Int
        /\ SumFunctionOnSet(Sold(p)', Placed) = SumFunctionOnSet(Sold(p), Placed)
    BY <2>1, SumSame
  <2>3. avail[p] + SumFunctionOnSet(Sold(p), Placed) = stocked[p]
    BY DEF StockConserved, Sold, Placed
  <2>4. PICK n \in Nat : avail'[p] = avail[p] + n /\ stocked'[p] = stocked[p] + n
    <3>1. CASE UNCHANGED <<avail, stocked>>
      BY <2>1, <3>1
    <3>2. ASSUME NEW q \in Products, NEW qty \in 1..MaxQty, Restock(q, qty)
          PROVE  \E n \in Nat : avail'[p] = avail[p] + n /\ stocked'[p] = stocked[p] + n
      <4>1. CASE p = q
        BY <2>1, <3>2, <4>1, ConstantsOK DEF Restock, TypeOK
      <4>2. CASE p # q
        <5>1. avail'[p] = avail[p] + 0 /\ stocked'[p] = stocked[p] + 0
          BY <2>1, <3>2, <4>2 DEF Restock, TypeOK
        <5> QED
          BY <5>1
      <4> QED
        BY <4>1, <4>2
    <3> QED
      BY <3>1, <3>2
  <2>5. avail'[p] + SumFunctionOnSet(Sold(p)', Placed) = stocked'[p]
    BY <2>1, <2>2, <2>3, <2>4
  <2> QED
    BY <1>1, <2>5
<1> QED
  BY <1>1, <1>2 DEF StockConserved, Sold, Placed

LEMMA CInvStep == CInv /\ [Next]_vars => IsFiniteSet(Placed)' /\ StockConserved'
<1> SUFFICES ASSUME CInv, [Next]_vars PROVE IsFiniteSet(Placed)' /\ StockConserved'
  OBVIOUS
<1> USE DEF CInv, IInv, tables, locks
<1>1. CASE \E r \in Requests : Commit(r) \/ CommitUnacked(r)
  BY <1>1, CommitConserves DEF Commit, CommitUnacked
<1>2. ASSUME NEW r \in Requests, ReadCart(r) PROVE IsFiniteSet(Placed)' /\ StockConserved'
  <2>1. r \notin Placed
    BY <1>2, SpecialValues DEF ReadCart, KeyHeld, Holding, OrderIsSaved, Placed, Key
  <2>2. UNCHANGED <<order, avail, stocked>> /\ \A s \in Placed : items'[s] = items[s]
    BY <1>2, <2>1 DEF ReadCart, TypeOK, Placed
  <2> QED
    BY <2>2, OthersConserve
<1>3. CASE \E r \in Requests :
             \/ Connect(r) \/ InsertKey(r) \/ LockKey(r)
             \/ (\E p \in Products : LockStock(r, p)) \/ DecreaseStock(r) \/ MarkCart(r)
             \/ PublishSkipped(r) \/ SendOk(r) \/ SendFails(r) \/ QueryFails(r) \/ Rollback(r)
             \/ Cleanup(r) \/ ConnectionLost(r) \/ RollbackThrows(r)
  <2>1. UNCHANGED <<order, avail, stocked, items>>
    BY <1>3 DEF Connect, InsertKey, LockKey, LockStock, DecreaseStock, MarkCart, PublishSkipped,
       SendOk, SendFails, QueryFails, Rollback, Cleanup, ConnectionLost, RollbackThrows
  <2> QED
    BY <2>1, OthersConserve
<1>4. CASE Crash \/ UNCHANGED vars
  <2>1. UNCHANGED <<order, avail, stocked, items>>
    BY <1>4 DEF Crash, vars
  <2> QED
    BY <2>1, OthersConserve
<1>5. CASE \E p \in Products, qty \in 1..MaxQty : Restock(p, qty)
  <2>1. UNCHANGED <<order, items>>
    BY <1>5 DEF Restock
  <2> QED
    BY <1>5, <2>1, OthersConserve
<1> QED
  BY <1>1, <1>2, <1>3, <1>4, <1>5 DEF Next, Step, Fault, Quiet

\* For every product, the units ever put on the shelf are on it or in an order,
\* whatever calls run, fail half-way or are cut off around their COMMIT.
THEOREM Conservation == Spec => []StockConserved
<1>1. Init => CInv
  BY InitCInv
<1>2. IInv /\ IInv' /\ CInv /\ [Next]_vars => CInv'
  BY CInvStep DEF CInv
<1>3. CInv => StockConserved
  BY DEF CInv
<1>4. CInv => IInv
  BY DEF CInv
<1>5. Spec => []IInv
  BY Invariance
<1> QED
  BY <1>1, <1>2, <1>3, <1>4, <1>5, PTL DEF Spec
=============================================================================
