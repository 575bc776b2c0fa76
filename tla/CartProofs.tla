------------------------------- MODULE CartProofs -------------------------------
(***************************************************************************)
(* Proofs about Cart, for any number of calls, users, carts and products.  *)
(*                                                                         *)
(* What a call's earlier statement found out may be stale when the next    *)
(* one runs; CInv says what survives: the cart that beat a call in the     *)
(* race to create one is open or was closed since the call began.  UInv    *)
(* adds that a call moves units only as it ends.                           *)
(***************************************************************************)
EXTENDS Cart, SumTheorems

-----------------------------------------------------------------------------
(* The inductive invariant. *)

\* A cart that was closed when a call began is still closed.
ClosedStay ==
  \A r \in Requests : \A c \in closedAt[r] : cartStatus[c] = "checked_out"

\* A call that lost the race lost it to a cart of its user that was not closed
\* when the call began.
WinnerExists ==
  \A r \in Requests : pc[r] = "refind" =>
    \E c \in Carts \ closedAt[r] :
      CartOwner[c] = User(r) /\ cartStatus[c] \in {"open", "checked_out"}

\* A call is answered last.
AnsweredLast == \A r \in Requests : pc[r] # "done" => reply[r] = None

CInv ==
  /\ TypeOK
  /\ OneOpenCartPerUser
  /\ ClosedStay
  /\ WinnerExists
  /\ AnsweredLast
  /\ ConflictOnlyAfterCheckout

-----------------------------------------------------------------------------
(* The steps, by what they do to the carts. *)

\* What a call's own arguments are made of.
LEMMA CallTyped ==
  ASSUME TypeOK, NEW r \in Requests
  PROVE  /\ User(r) \in Users /\ Product(r) \in Products /\ arg[r].qty \in Nat
         /\ \A c \in Carts : CartOwner[c] \in Users
<1>1. arg[r] \in [op : {"add", "remove"}, user : Users, product : Products, qty : Nat \ {0}]
  BY ConstantsOK DEF TypeOK
<1> QED
  BY <1>1, ConstantsOK DEF User, Product

\* The type invariant needs nothing else.
LEMMA TypeStep ==
  ASSUME TypeOK, [Next]_vars
  PROVE  TypeOK'
<1> USE DEF tables, Goto, Answer, Phases
<1>1. ASSUME NEW r \in Requests, Start(r) PROVE TypeOK'
  BY <1>1 DEF TypeOK, Start, ClosedCarts, User
<1>2. ASSUME NEW r \in Requests, NEW c \in Carts, CartOwner[c] = User(r), Take(r, c),
             cartStatus' \in [Carts -> {"absent", "open", "checked_out"}],
             UNCHANGED <<cartItems, arg, read, moved, closedAt>>
      PROVE  TypeOK'
  BY <1>2 DEF TypeOK, Take, User
<1>3. ASSUME NEW r \in Requests, NEW phase \in {"create", "refind", "done"}, Goto(r, phase),
             UNCHANGED reply \/ \E what \in {"notFound", "conflict"} : reply' = [reply EXCEPT ![r] = what],
             UNCHANGED <<tables, arg, cart, read, moved, closedAt>>
      PROVE  TypeOK'
  BY <1>3 DEF TypeOK, User
<1>4. ASSUME NEW r \in Requests, Find(r) \/ CreateCart(r) \/ Refind(r) PROVE TypeOK'
  <2>1. cartStatus' \in [Carts -> {"absent", "open", "checked_out"}]
    BY <1>4 DEF Find, CreateCart, Refind, TypeOK
  <2>2. CASE \E c \in Carts : CartOwner[c] = User(r) /\ Take(r, c)
    BY <1>2, <1>4, <2>1, <2>2 DEF Find, CreateCart, Refind
  <2>3. CASE /\ UNCHANGED <<cart, cartStatus>>
             /\ \/ Goto(r, "create") /\ UNCHANGED reply
                \/ RaceLost(r)
                \/ Answer(r, "notFound") \/ Answer(r, "conflict")
    BY <1>3, <1>4, <2>3 DEF Find, CreateCart, Refind, RaceLost
  <2> QED
    BY <1>4, <2>2, <2>3 DEF Find, Found, CreateCart, Refind, OpenCarts
<1>5. ASSUME NEW r \in Requests, Upsert(r) \/ DeleteRow(r),
             NEW what \in {"ok", "error"}, Answer(r, what),
             UNCHANGED <<cartStatus, arg, cart, read, closedAt>>
      PROVE  TypeOK'
  <2>1. cart[r] \in Carts /\ Product(r) \in Products /\ arg[r].qty \in Nat
    BY <1>5, CallTyped DEF Upsert, DeleteRow, TypeOK
  <2>2. cartItems[cart[r]] \in [Products -> 0..MaxQty] /\ MaxQty \in Nat
    BY <2>1, ConstantsOK DEF TypeOK
  <2>3. PICK qty \in 0..MaxQty : cartItems' = [cartItems EXCEPT ![cart[r]][Product(r)] = qty]
    BY <1>5, <2>1, <2>2 DEF Upsert, DeleteRow, Added, TypeOK
  <2>4. cartItems' \in [Carts -> [Products -> 0..MaxQty]]
    BY <2>1, <2>2, <2>3 DEF TypeOK
  <2>5. moved' \in [Requests -> Nat]
    BY <1>5, <2>1, <2>2 DEF Upsert, DeleteRow, TypeOK
  <2> QED
    BY <1>5, <2>4, <2>5 DEF TypeOK, User
<1>6. ASSUME NEW r \in Requests, RowMissing(r) \/ QueryFails(r) PROVE TypeOK'
  BY <1>6 DEF TypeOK, RowMissing, QueryFails, User
<1>7. ASSUME NEW c \in Carts, CheckoutReads(c) \/ CheckoutEnds(c) PROVE TypeOK'
  BY <1>7 DEF TypeOK, CheckoutReads, CheckoutEnds, User
<1>8. CASE UNCHANGED vars
  BY <1>8 DEF TypeOK, vars, User
<1> QED
  BY <1>1, <1>5, <1>6, <1>7, <1>8, <1>4 DEF Next, Quiet, Write, WriteUnacked

\* A cart is created or closed, and closed carts stay closed.
LEMMA StatusStep ==
  ASSUME TypeOK, [Next]_vars
  PROVE  /\ \/ UNCHANGED cartStatus
            \/ \E r \in Requests, c \in Carts :
                 /\ Insertable(User(r)) /\ cartStatus[c] = "absent" /\ CartOwner[c] = User(r)
                 /\ cartStatus' = [cartStatus EXCEPT ![c] = "open"]
            \/ \E c \in Carts : cartStatus' = [cartStatus EXCEPT ![c] = "checked_out"]
         /\ \A c \in Carts : cartStatus[c] = "checked_out" => cartStatus'[c] = "checked_out"
         /\ arg' = arg
<1>1. /\ \/ UNCHANGED cartStatus
         \/ \E r \in Requests, c \in Carts :
              /\ Insertable(User(r)) /\ cartStatus[c] = "absent" /\ CartOwner[c] = User(r)
              /\ cartStatus' = [cartStatus EXCEPT ![c] = "open"]
         \/ \E c \in Carts : cartStatus' = [cartStatus EXCEPT ![c] = "checked_out"]
      /\ arg' = arg
  BY DEF Next, Quiet, Start, Find, CreateCart, Refind, Write, RowMissing, QueryFails,
     WriteUnacked, CheckoutReads, CheckoutEnds, vars, tables
<1> QED
  BY <1>1 DEF TypeOK

\* The unique index on open carts does what the name says.
LEMMA OneOpenStep ==
  ASSUME TypeOK, OneOpenCartPerUser, [Next]_vars
  PROVE  OneOpenCartPerUser'
  BY StatusStep DEF TypeOK, OneOpenCartPerUser, Insertable, OpenCarts

\* The carts closed at a call's start are recorded once.
LEMMA ClosedStep ==
  ASSUME TypeOK, ClosedStay, [Next]_vars
  PROVE  ClosedStay'
<1>1. ASSUME NEW r \in Requests, Start(r) PROVE ClosedStay'
  BY <1>1 DEF Start, ClosedCarts, ClosedStay, TypeOK, tables
<1>2. CASE UNCHANGED closedAt
  BY <1>2, StatusStep DEF ClosedStay, TypeOK
<1> QED
  BY <1>1, <1>2 DEF Next, Quiet, Find, CreateCart, Refind, Write, RowMissing, QueryFails,
     WriteUnacked, CheckoutReads, CheckoutEnds, vars

\* The cart that won a race can be closed but not disappear.
LEMMA WinnerStep ==
  ASSUME TypeOK, ClosedStay, WinnerExists, [Next]_vars
  PROVE  WinnerExists'
<1>1. \A c \in Carts : cartStatus[c] \in {"open", "checked_out"}
                         => cartStatus'[c] \in {"open", "checked_out"}
  BY StatusStep DEF TypeOK
<1>2. arg' = arg
  BY StatusStep
<1>3. ASSUME NEW r \in Requests, CreateCart(r) PROVE WinnerExists'
  <2>1. closedAt' = closedAt /\ \A s \in Requests \ {r} : pc'[s] = pc[s]
    BY <1>3 DEF CreateCart, Take, RaceLost, Goto, TypeOK
  <2>2. ASSUME pc'[r] = "refind"
        PROVE  \E c \in Carts \ closedAt[r] :
                 CartOwner[c] = User(r) /\ cartStatus[c] \in {"open", "checked_out"}
    <3>1. ~Insertable(User(r))
      BY <1>3, <2>2 DEF CreateCart, Take, Goto, TypeOK
    <3>2. PICK c \in Carts : CartOwner[c] = User(r) /\ cartStatus[c] = "open"
      BY <3>1 DEF Insertable, OpenCarts
    <3> QED
      BY <3>2 DEF ClosedStay
  <2> QED
    BY <1>1, <1>2, <2>1, <2>2 DEF WinnerExists, User
<1>4. CASE /\ UNCHANGED closedAt
           /\ \A s \in Requests : pc'[s] = "refind" => pc[s] = "refind"
  BY <1>1, <1>2, <1>4 DEF WinnerExists, User
<1>5. ASSUME NEW r \in Requests, Start(r) PROVE WinnerExists'
  <2>1. \A s \in Requests : pc'[s] = "refind" => s # r /\ pc[s] = "refind"
    BY <1>5 DEF Start, Goto, TypeOK
  <2>2. \A s \in Requests \ {r} : closedAt'[s] = closedAt[s]
    BY <1>5 DEF Start, TypeOK
  <2> QED
    BY <1>1, <1>2, <2>1, <2>2 DEF WinnerExists, User
<1>6. ASSUME NEW r \in Requests,
             \/ Find(r) \/ Refind(r) \/ Write(r) \/ RowMissing(r) \/ QueryFails(r) \/ WriteUnacked(r)
      PROVE  WinnerExists'
  BY <1>4, <1>6 DEF Find, Refind, Write, RowMissing, QueryFails, WriteUnacked, Take, Goto,
     Answer, TypeOK
<1>7. CASE (\E c \in Carts : CheckoutReads(c) \/ CheckoutEnds(c)) \/ UNCHANGED vars
  BY <1>4, <1>7 DEF CheckoutReads, CheckoutEnds, vars
<1> QED
  BY <1>3, <1>5, <1>6, <1>7 DEF Next, Quiet

\* A conflict is answered when the winner is found no longer open.
LEMMA ConflictStep ==
  ASSUME CInv, [Next]_vars
  PROVE  ConflictOnlyAfterCheckout'
<1> USE DEF CInv
<1>1. arg' = arg /\ \A c \in Carts : cartStatus[c] = "checked_out" => cartStatus'[c] = "checked_out"
  BY StatusStep
<1>2. CASE /\ UNCHANGED closedAt
           /\ \A s \in Requests : reply'[s] = "conflict" => reply[s] = "conflict"
  BY <1>1, <1>2 DEF ConflictOnlyAfterCheckout, ClosedCarts, User
<1>3. ASSUME NEW r \in Requests, Refind(r) PROVE ConflictOnlyAfterCheckout'
  <2>1. closedAt' = closedAt /\ \A s \in Requests \ {r} : reply'[s] = reply[s]
    BY <1>3 DEF Refind, Take, Answer, TypeOK
  <2>2. CASE OpenCarts(User(r)) = {}
    <3>1. PICK c \in Carts \ closedAt[r] :
            CartOwner[c] = User(r) /\ cartStatus[c] \in {"open", "checked_out"}
      BY <1>3 DEF Refind, WinnerExists
    <3>2. cartStatus[c] = "checked_out"
      BY <2>2, <3>1 DEF OpenCarts
    <3> QED
      BY <1>1, <2>1, <3>1, <3>2 DEF ConflictOnlyAfterCheckout, ClosedCarts, User
  <2>3. CASE UNCHANGED reply
    BY <1>2, <2>1, <2>3
  <2> QED
    BY <1>3, <2>2, <2>3 DEF Refind, Take
<1>4. ASSUME NEW r \in Requests, Start(r) PROVE ConflictOnlyAfterCheckout'
  <2>1. reply' = reply /\ pc[r] = "idle" /\ \A s \in Requests \ {r} : closedAt'[s] = closedAt[s]
    BY <1>4 DEF Start, TypeOK
  <2>2. reply[r] = None
    BY <2>1 DEF AnsweredLast
  <2> QED
    BY <1>1, <2>1, <2>2, ConstantsOK DEF ConflictOnlyAfterCheckout, ClosedCarts, User
<1>5. ASSUME NEW r \in Requests,
             \/ Find(r) \/ CreateCart(r) \/ Write(r) \/ RowMissing(r) \/ QueryFails(r)
             \/ WriteUnacked(r)
      PROVE  ConflictOnlyAfterCheckout'
  BY <1>2, <1>5 DEF Find, CreateCart, RaceLost, Write, RowMissing, QueryFails, WriteUnacked, Take,
     Answer, TypeOK
<1>6. CASE (\E c \in Carts : CheckoutReads(c) \/ CheckoutEnds(c)) \/ UNCHANGED vars
  BY <1>2, <1>6 DEF CheckoutReads, CheckoutEnds, vars
<1> QED
  BY <1>3, <1>4, <1>5, <1>6 DEF Next, Quiet

\* Every answer ends its call.
LEMMA AnswerStep ==
  ASSUME TypeOK, AnsweredLast, [Next]_vars
  PROVE  AnsweredLast'
<1>1. ASSUME NEW r \in Requests, pc[r] # "done", \A s \in Requests \ {r} : pc'[s] = pc[s],
             \/ reply' = reply
             \/ pc'[r] = "done" /\ \A s \in Requests \ {r} : reply'[s] = reply[s]
      PROVE  AnsweredLast'
  BY <1>1 DEF AnsweredLast
<1>2. ASSUME NEW r \in Requests,
             \/ Start(r) \/ Find(r) \/ CreateCart(r) \/ Refind(r)
             \/ Write(r) \/ RowMissing(r) \/ QueryFails(r) \/ WriteUnacked(r)
      PROVE  AnsweredLast'
  BY <1>1, <1>2 DEF Start, Find, CreateCart, RaceLost, Refind, Write, RowMissing, QueryFails,
     WriteUnacked, Upsert, DeleteRow, Take, Goto, Answer, TypeOK
<1>3. CASE (\E c \in Carts : CheckoutReads(c) \/ CheckoutEnds(c)) \/ UNCHANGED vars
  BY <1>3 DEF CheckoutReads, CheckoutEnds, vars, AnsweredLast
<1> QED
  BY <1>2, <1>3 DEF Next, Quiet

-----------------------------------------------------------------------------
(* The theorems. *)

\* There are no carts and no answers at first.
LEMMA InitCInv == Init => CInv
  BY ConstantsOK DEF Init, CInv, TypeOK, Phases, OneOpenCartPerUser, ClosedStay, WinnerExists,
     AnsweredLast, ConflictOnlyAfterCheckout

\* CInv holds in every reachable state.
THEOREM Invariance == Spec => []CInv
<1>1. CInv /\ [Next]_vars => CInv'
  BY TypeStep, OneOpenStep, ClosedStep, WinnerStep, ConflictStep, AnswerStep DEF CInv
<1> QED
  BY InitCInv, <1>1, PTL DEF Spec

\* The columns keep their types, and a call only writes to a cart of its user.
THEOREM TypeCorrect == Spec => []TypeOK
  BY Invariance, PTL DEF CInv

\* However many calls race to create it, a user has one open cart.
THEOREM OneOpenCart == Spec => []OneOpenCartPerUser
  BY Invariance, PTL DEF CInv

\* The one retry of a lost race fails only when a checkout comes between.
THEOREM ConflictExplained == Spec => []ConflictOnlyAfterCheckout
  BY Invariance, PTL DEF CInv

-----------------------------------------------------------------------------
(* The units: a call's statement changes one row of one cart of its own    *)
(* user, and its share of the user's sum, by the same number.              *)

\* A call has moved nothing before it ends.
MovedLast == \A r \in Requests : pc[r] # "done" => moved[r] = 0

\* The sums of UnitsAccounted.
Did(op, u, p)  == {r \in Requests : arg[r].op = op /\ User(r) = u /\ Product(r) = p}
Owned(u)       == {c \in Carts : CartOwner[c] = u}
Column(p)      == [c \in Carts |-> cartItems[c][p]]
Moved(op, u, p) == SumFunctionOnSet(moved, Did(op, u, p))
InCarts(u, p)   == SumFunctionOnSet(Column(p), Owned(u))

UInv == CInv /\ MovedLast /\ UnitsAccounted

\* They are sums of natural numbers over finite sets.
LEMMA SumsTyped ==
  ASSUME TypeOK, NEW u \in Users, NEW p \in Products, NEW op
  PROVE  /\ IsFiniteSet(Did(op, u, p)) /\ IsFiniteSet(Owned(u))
         /\ \A c \in Carts : Column(p)[c] \in Nat
         /\ Moved(op, u, p) \in Nat /\ InCarts(u, p) \in Nat
<1>1. IsFiniteSet(Did(op, u, p)) /\ IsFiniteSet(Owned(u))
  BY FinitelyMany, FS_Subset DEF Did, Owned
<1>2. \A c \in Carts : Column(p)[c] \in Nat
  BY ConstantsOK DEF Column, TypeOK
<1>3. \A r \in Requests : moved[r] \in Nat
  BY DEF TypeOK
<1>4. Moved(op, u, p) \in Nat
  BY <1>1, <1>3, SumNat DEF Moved, Did
<1>5. InCarts(u, p) \in Nat
  BY <1>1, <1>2, SumNat DEF InCarts, Owned
<1> QED
  BY <1>1, <1>2, <1>4, <1>5

\* Nothing counted changes where neither moved nor the row's column does.
LEMMA SumsStay ==
  ASSUME TypeOK, TypeOK', arg' = arg, NEW u \in Users, NEW p \in Products, NEW op
  PROVE  /\ (\A r \in Did(op, u, p) : moved'[r] = moved[r]) =>
               Moved(op, u, p)' = Moved(op, u, p)
         /\ (\A c \in Owned(u) : cartItems'[c][p] = cartItems[c][p]) =>
               InCarts(u, p)' = InCarts(u, p)
<1>1. Did(op, u, p)' = Did(op, u, p) /\ Owned(u)' = Owned(u)
  BY DEF Did, Owned, User, Product
<1>2. ASSUME \A r \in Did(op, u, p) : moved'[r] = moved[r]
      PROVE  Moved(op, u, p)' = Moved(op, u, p)
  <2>1. \A r \in Did(op, u, p) : moved[r] \in Int /\ moved'[r] = moved[r]
    BY <1>2 DEF TypeOK, Did
  <2> QED
    BY <1>1, <2>1, SumsTyped, SumSame DEF Moved
<1>3. ASSUME \A c \in Owned(u) : cartItems'[c][p] = cartItems[c][p]
      PROVE  InCarts(u, p)' = InCarts(u, p)
  <2>1. \A c \in Owned(u) : Column(p)[c] \in Nat
    BY SumsTyped DEF Owned
  <2>2. \A c \in Owned(u) : Column(p)[c] \in Int /\ Column(p)'[c] = Column(p)[c]
    BY <1>3, <2>1 DEF Column, Owned
  <2> QED
    BY <1>1, <2>2, SumsTyped, SumSame DEF InCarts
<1> QED
  BY <1>2, <1>3

\* What a write does to its row and to moved.
LEMMA Writes ==
  ASSUME TypeOK, MovedLast, NEW r \in Requests, Upsert(r) \/ DeleteRow(r)
  PROVE  /\ cart[r] \in Carts /\ CartOwner[cart[r]] = User(r)
         /\ \A c \in Carts, p \in Products :
              c # cart[r] \/ p # Product(r) => cartItems'[c][p] = cartItems[c][p]
         /\ moved[r] = 0 /\ \A s \in Requests \ {r} : moved'[s] = moved[s]
         /\ \/ /\ arg[r].op = "add"
               /\ cartItems'[cart[r]][Product(r)] = cartItems[cart[r]][Product(r)] + moved'[r]
            \/ /\ arg[r].op = "remove"
               /\ cartItems'[cart[r]][Product(r)] + moved'[r] = cartItems[cart[r]][Product(r)]
<1>1. /\ cart[r] \in Carts /\ CartOwner[cart[r]] = User(r) /\ moved[r] = 0
      /\ Product(r) \in Products
  BY CallTyped DEF Upsert, DeleteRow, TypeOK, MovedLast
<1>2. cartItems[cart[r]] \in [Products -> 0..MaxQty] /\ MaxQty \in Nat
  BY <1>1, ConstantsOK DEF TypeOK
<1>3. CASE Upsert(r)
  BY <1>1, <1>2, <1>3 DEF Upsert, Added, TypeOK
<1>4. CASE DeleteRow(r)
  BY <1>1, <1>2, <1>4 DEF DeleteRow, TypeOK
<1> QED
  BY <1>1, <1>3, <1>4

\* A write moves its units into or out of a cart of the call's own user.
LEMMA WriteAccounted ==
  ASSUME UInv, TypeOK', arg' = arg, NEW r \in Requests, Upsert(r) \/ DeleteRow(r)
  PROVE  UnitsAccounted'
<1> SUFFICES ASSUME NEW u \in Users, NEW p \in Products
             PROVE  Moved("add", u, p)' = InCarts(u, p)' + Moved("remove", u, p)'
  BY DEF UnitsAccounted, Moved, InCarts, Did, Owned, Column
<1> USE DEF UInv, CInv
<1>1. Moved("add", u, p) = InCarts(u, p) + Moved("remove", u, p)
  BY DEF UnitsAccounted, Moved, InCarts, Did, Owned, Column
<1>2. CASE User(r) # u \/ Product(r) # p
  <2>1. \A op : \A s \in Did(op, u, p) : moved'[s] = moved[s]
    BY <1>2, Writes DEF Did
  <2>2. \A c \in Owned(u) : cartItems'[c][p] = cartItems[c][p]
    BY <1>2, Writes DEF Owned
  <2> QED
    BY <1>1, <2>1, <2>2, SumsStay
<1>3. CASE User(r) = u /\ Product(r) = p
  <2> DEFINE own == cart[r]
             row == cartItems[own][p]
             new == cartItems'[own][p]
  <2>1. /\ own \in Carts /\ own \in Owned(u) /\ r \in Did(arg[r].op, u, p)
        /\ {row, new, moved[r], moved'[r]} \subseteq Nat
    <3>1. own \in Carts /\ CartOwner[own] = u
      BY <1>3, Writes
    <3> QED
      BY <1>3, <3>1, ConstantsOK DEF Owned, Did, TypeOK
  <2>2. InCarts(u, p)' = InCarts(u, p) + new - row
    <3>1. \A c \in Owned(u) : Column(p)[c] \in Int /\ Column(p)'[c] \in Int
      BY ConstantsOK DEF Owned, Column, TypeOK
    <3>2. \A c \in Owned(u) \ {own} : Column(p)'[c] = Column(p)[c]
      BY Writes DEF Owned, Column
    <3>3. SumFunctionOnSet(Column(p)', Owned(u)) =
            SumFunctionOnSet(Column(p), Owned(u)) + Column(p)'[own] - Column(p)[own]
      <4>1. own \in Owned(u) /\ IsFiniteSet(Owned(u))
        BY <2>1, SumsTyped
      <4> HIDE DEF own
      <4> QED
        BY ONLY <3>1, <3>2, <4>1, SumUpdate
    <3>4. Owned(u)' = Owned(u)
      BY DEF Owned
    <3> QED
      BY <2>1, <3>3, <3>4 DEF InCarts, Column
  <2>3. Moved(arg[r].op, u, p)' = Moved(arg[r].op, u, p) + moved'[r]
    <3> DEFINE D == Did(arg[r].op, u, p)
    <3>1. /\ \A s \in D : moved[s] \in Int /\ moved'[s] \in Int
          /\ \A s \in D \ {r} : moved'[s] = moved[s]
      BY Writes DEF Did, TypeOK
    <3>2. IsFiniteSet(D) /\ r \in D /\ moved[r] = 0
      BY <2>1, SumsTyped, Writes
    <3> HIDE DEF D
    <3>3. SumFunctionOnSet(moved', D) = SumFunctionOnSet(moved, D) + moved'[r] - moved[r]
      BY ONLY <3>1, <3>2, SumUpdate
    <3>4. SumFunctionOnSet(moved, D) \in Int
      BY <3>1, <3>2, SumSame
    <3>5. Moved(arg[r].op, u, p) = SumFunctionOnSet(moved, D)
          /\ Moved(arg[r].op, u, p)' = SumFunctionOnSet(moved', D)
      BY DEF D, Moved, Did, User, Product
    <3> QED
      BY <2>1, <3>2, <3>3, <3>4, <3>5
  <2>4. ASSUME NEW op, op # arg[r].op PROVE Moved(op, u, p)' = Moved(op, u, p)
    <3>1. \A s \in Did(op, u, p) : moved'[s] = moved[s]
      BY <2>4, Writes DEF Did
    <3> QED
      BY <3>1, SumsStay
  <2>5. /\ InCarts(u, p) \in Nat
        /\ Moved("add", u, p) \in Nat /\ Moved("remove", u, p) \in Nat
    BY SumsTyped
  <2>6. CASE arg[r].op = "add" /\ new = row + moved'[r]
    <3>1. /\ Moved("add", u, p)' = Moved("add", u, p) + moved'[r]
          /\ Moved("remove", u, p)' = Moved("remove", u, p)
      BY <2>3, <2>4, <2>6
    <3> QED
      BY <1>1, <2>1, <2>2, <2>5, <2>6, <3>1
  <2>7. CASE arg[r].op = "remove" /\ new + moved'[r] = row
    <3>1. /\ Moved("add", u, p)' = Moved("add", u, p)
          /\ Moved("remove", u, p)' = Moved("remove", u, p) + moved'[r]
      BY <2>3, <2>4, <2>7
    <3> QED
      BY <1>1, <2>1, <2>2, <2>5, <2>7, <3>1
  <2> QED
    BY <1>3, <2>6, <2>7, Writes
<1> QED
  BY <1>2, <1>3

\* Only a write, acknowledged or not, moves units.
LEMMA UnitsStep ==
  ASSUME UInv, [Next]_vars
  PROVE  MovedLast' /\ UnitsAccounted'
<1> USE DEF UInv, CInv
<1>1. TypeOK' /\ arg' = arg
  BY TypeStep, StatusStep
<1>2. ASSUME UNCHANGED <<cartItems, moved>> PROVE UnitsAccounted'
  <2>1. \A u \in Users, p \in Products : \A op :
          Moved(op, u, p)' = Moved(op, u, p) /\ InCarts(u, p)' = InCarts(u, p)
    BY <1>1, <1>2, SumsStay
  <2>2. ASSUME NEW u \in Users, NEW p \in Products
        PROVE  Moved("add", u, p)' = InCarts(u, p)' + Moved("remove", u, p)'
    <3>1. Moved("add", u, p) = InCarts(u, p) + Moved("remove", u, p)
      BY DEF UnitsAccounted, Moved, InCarts, Did, Owned, Column
    <3> QED
      BY <2>1, <3>1
  <2> QED
    BY <2>2 DEF UnitsAccounted, Moved, InCarts, Did, Owned, Column
<1>3. ASSUME NEW r \in Requests, \A s \in Requests \ {r} : pc'[s] = pc[s] /\ moved'[s] = moved[s],
             pc[r] # "done", pc'[r] = "done" \/ moved' = moved
      PROVE  MovedLast'
  BY <1>3 DEF MovedLast
<1>4. ASSUME NEW r \in Requests, Write(r) \/ WriteUnacked(r)
      PROVE  MovedLast' /\ UnitsAccounted'
  <2>1. UnitsAccounted'
    BY <1>1, <1>4, WriteAccounted DEF Write, WriteUnacked
  <2>2. pc[r] = "write" /\ pc'[r] = "done" /\ \A s \in Requests \ {r} : pc'[s] = pc[s]
    BY <1>4 DEF Write, WriteUnacked, Upsert, DeleteRow, Answer, Goto, TypeOK
  <2>3. \A s \in Requests \ {r} : moved'[s] = moved[s]
    BY <1>4 DEF Write, WriteUnacked, Upsert, DeleteRow, TypeOK
  <2> QED
    BY <1>3, <2>1, <2>2, <2>3
<1>5. ASSUME NEW r \in Requests,
             Start(r) \/ Find(r) \/ CreateCart(r) \/ Refind(r) \/ RowMissing(r) \/ QueryFails(r)
      PROVE  MovedLast' /\ UNCHANGED <<cartItems, moved>>
  <2>1. /\ pc[r] # "done" /\ UNCHANGED <<cartItems, moved>>
        /\ \A s \in Requests \ {r} : pc'[s] = pc[s]
    BY <1>5 DEF Start, Find, CreateCart, RaceLost, Refind, RowMissing, QueryFails, Take, Goto,
       Answer, tables, TypeOK
  <2> QED
    BY <1>3, <2>1
<1>6. ASSUME (\E c \in Carts : CheckoutReads(c) \/ CheckoutEnds(c)) \/ UNCHANGED vars
      PROVE  MovedLast' /\ UNCHANGED <<cartItems, moved>>
  BY <1>6 DEF CheckoutReads, CheckoutEnds, vars, tables, MovedLast
<1> QED
  BY <1>2, <1>4, <1>5, <1>6 DEF Next, Quiet

\* The carts are empty and nothing has moved at first.
LEMMA InitUInv == Init => UInv
<1> SUFFICES ASSUME Init PROVE UInv
  OBVIOUS
<1>1. TypeOK /\ MovedLast
  BY InitCInv DEF Init, CInv, MovedLast
<1>3. ASSUME NEW u \in Users, NEW p \in Products, NEW op
      PROVE  Moved(op, u, p) = 0 /\ InCarts(u, p) = 0
  <2>1. /\ \A r \in Did(op, u, p) : moved[r] = 0
        /\ \A c \in Owned(u) : Column(p)[c] = 0
    BY DEF Init, Did, Owned, Column
  <2> QED
    BY <1>1, <2>1, SumsTyped, SumZero DEF Moved, InCarts
<1>4. UnitsAccounted
  <2>1. \A u \in Users, p \in Products :
          Moved("add", u, p) = 0 /\ Moved("remove", u, p) = 0 /\ InCarts(u, p) = 0
    BY <1>3
  <2> QED
    BY <2>1 DEF UnitsAccounted, Moved, InCarts, Did, Owned, Column
<1> QED
  BY <1>1, <1>4, InitCInv DEF UInv

\* What a user's calls put in and did not take out is in the user's carts,
\* whichever calls ran between whose statements and whichever were lost.
THEOREM UnitsAdd == Spec => []UnitsAccounted
<1>1. UInv /\ [Next]_vars => UInv'
  BY UnitsStep, TypeStep, OneOpenStep, ClosedStep, WinnerStep, ConflictStep, AnswerStep
     DEF UInv, CInv
<1>2. UInv => UnitsAccounted
  BY DEF UInv
<1> QED
  BY InitUInv, <1>1, <1>2, PTL DEF Spec
=============================================================================
