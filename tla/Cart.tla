--------------------------------- MODULE Cart ---------------------------------
(***************************************************************************)
(* POST /cart/items and DELETE /cart/items/:productId                      *)
(* (services/cart.service.js over repositories/cart.repo.js) as concurrent *)
(* calls, beside the checkouts that close carts.                           *)
(*                                                                         *)
(* A call is a sequence of autocommitted statements, each an action: what  *)
(* one statement found may have changed when the next one runs.            *)
(***************************************************************************)
EXTENDS Naturals, FiniteSets, Functions

CONSTANTS
  Requests,   \* cart calls
  Users, Carts, Products,
  CartOwner,  \* carts.user_id
  Calls,      \* the calls clients make: op, user, product and qty
  MaxQty,     \* largest value of the integer column cart_items.qty
  None        \* no cart, no answer yet

ASSUME ConstantsOK ==
  /\ CartOwner \in [Carts -> Users]
  /\ Calls \subseteq [op : {"add", "remove"}, user : Users, product : Products, qty : Nat \ {0}]
  /\ MaxQty \in Nat
  /\ None \notin {"ok", "notFound", "conflict", "error"}

\* Calls and carts are many, but never infinitely many.
ASSUME FinitelyMany == IsFiniteSet(Requests) /\ IsFiniteSet(Carts)

VARIABLES
  cartStatus,  \* carts.status; "absent" before the row exists
  cartItems,   \* cart_items.qty, 0 when there is no row
  pc,          \* where each call is
  arg,         \* the call's arguments
  cart,        \* the cart the call found or created
  reply,       \* how the call was answered, or None
  read,        \* carts whose checkout has read them and not yet committed
  moved,       \* history: units the call's statement put in or took out
  closedAt     \* history: the user's carts already closed when the call began

tables == <<cartStatus, cartItems>>
vars   == <<cartStatus, cartItems, pc, arg, cart, reply, read, moved, closedAt>>

Phases == {"idle", "find", "create", "refind", "write", "done"}

User(r)    == arg[r].user
Product(r) == arg[r].product

OpenCarts(u)   == {c \in Carts : CartOwner[c] = u /\ cartStatus[c] = "open"}
ClosedCarts(u) == {c \in Carts : CartOwner[c] = u /\ cartStatus[c] = "checked_out"}

Goto(r, phase) == pc' = [pc EXCEPT ![r] = phase]
Answer(r, what) ==
  /\ reply' = [reply EXCEPT ![r] = what]
  /\ Goto(r, "done")

\* The statement found or made cart c; the call goes on to write its item.
Take(r, c) ==
  /\ cart' = [cart EXCEPT ![r] = c]
  /\ Goto(r, "write")
  /\ UNCHANGED reply

Init ==
  /\ cartStatus = [c \in Carts |-> "absent"]
  /\ cartItems = [c \in Carts |-> [p \in Products |-> 0]]
  /\ pc = [r \in Requests |-> "idle"]
  /\ arg \in [Requests -> Calls]
  /\ cart = [r \in Requests |-> None]
  /\ reply = [r \in Requests |-> None]
  /\ read = {}
  /\ moved = [r \in Requests |-> 0]
  /\ closedAt = [r \in Requests |-> {}]

-----------------------------------------------------------------------------
Start(r) ==
  /\ pc[r] = "idle"
  /\ Goto(r, "find")
  /\ closedAt' = [closedAt EXCEPT ![r] = ClosedCarts(User(r))]
  /\ UNCHANGED <<tables, arg, cart, reply, read, moved>>

\* Mutant: the SELECT does not filter on the user.
AnyOpenCart(r) == {c \in Carts : cartStatus[c] = "open"}

Found(r) == OpenCarts(User(r))

\* findOpenCartByUserId.  Without an open cart an add goes on to create one and
\* a removal is answered 404.
Find(r) ==
  /\ pc[r] = "find"
  /\ \/ \E c \in Found(r) : Take(r, c)
     \/ /\ Found(r) = {}
        /\ UNCHANGED cart
        /\ \/ arg[r].op = "add" /\ Goto(r, "create") /\ UNCHANGED reply
           \/ arg[r].op = "remove" /\ Answer(r, "notFound")
  /\ UNCHANGED <<tables, arg, read, moved, closedAt>>

\* Mutant: there is no unique index on open carts.
Unindexed(u) == TRUE

\* The partial unique index lets an insert pass.
Insertable(u) == OpenCarts(u) = {}

\* Mutant: the unique violation is rethrown without looking again.
RaceRethrown(r) == Answer(r, "conflict")

RaceLost(r) == Goto(r, "refind") /\ UNCHANGED reply

\* createCart: the index on open carts rejects a second one, and the call looks
\* for the cart that beat it.
CreateCart(r) ==
  /\ pc[r] = "create"
  /\ \/ /\ Insertable(User(r))
        /\ \E c \in Carts :
             /\ cartStatus[c] = "absent" /\ CartOwner[c] = User(r)
             /\ cartStatus' = [cartStatus EXCEPT ![c] = "open"]
             /\ Take(r, c)
     \/ ~Insertable(User(r)) /\ RaceLost(r) /\ UNCHANGED <<cartStatus, cart>>
  /\ UNCHANGED <<cartItems, arg, read, moved, closedAt>>

\* The second findOpenCartByUserId; when it finds nothing the unique violation
\* itself is rethrown (409).
Refind(r) ==
  /\ pc[r] = "refind"
  /\ \/ \E c \in OpenCarts(User(r)) : Take(r, c)
     \/ OpenCarts(User(r)) = {} /\ Answer(r, "conflict") /\ UNCHANGED cart
  /\ UNCHANGED <<tables, arg, read, moved, closedAt>>

\* Mutant: the upsert sets the quantity instead of adding to it.
Overwritten(old, qty) == qty

Added(old, qty) == old + qty

\* addOrUpdateCartItem: the upsert adds to the row's quantity, in the cart the
\* call found, whatever the cart's status is by now.
Upsert(r) ==
  /\ pc[r] = "write" /\ arg[r].op = "add"
  /\ cartItems[cart[r]][Product(r)] + arg[r].qty <= MaxQty
  /\ cartItems' = [cartItems EXCEPT ![cart[r]][Product(r)] = Added(@, arg[r].qty)]
  /\ moved' = [moved EXCEPT ![r] = arg[r].qty]

\* removeCartItem: the row is deleted and its quantity returned.
DeleteRow(r) ==
  /\ pc[r] = "write" /\ arg[r].op = "remove"
  /\ cartItems[cart[r]][Product(r)] > 0
  /\ cartItems' = [cartItems EXCEPT ![cart[r]][Product(r)] = 0]
  /\ moved' = [moved EXCEPT ![r] = cartItems[cart[r]][Product(r)]]

Write(r) ==
  /\ Upsert(r) \/ DeleteRow(r)
  /\ Answer(r, "ok")
  /\ UNCHANGED <<cartStatus, arg, cart, read, closedAt>>

\* DELETE finds no row: 404.
RowMissing(r) ==
  /\ pc[r] = "write" /\ arg[r].op = "remove"
  /\ cartItems[cart[r]][Product(r)] = 0
  /\ Answer(r, "notFound")
  /\ UNCHANGED <<tables, arg, cart, read, moved, closedAt>>

\* A statement throws (a lost connection, or a quantity out of range), or the
\* process dies: the call ends, and what it already did stays.
QueryFails(r) ==
  /\ pc[r] \notin {"idle", "done"}
  /\ Answer(r, "error")
  /\ UNCHANGED <<tables, arg, cart, read, moved, closedAt>>

\* The connection is lost after the server executed the write.
WriteUnacked(r) ==
  /\ Upsert(r) \/ DeleteRow(r)
  /\ Answer(r, "error")
  /\ UNCHANGED <<cartStatus, arg, cart, read, closedAt>>

-----------------------------------------------------------------------------
\* A checkout of cart c, as these tables see it: it reads the open cart without
\* a lock and, some statements later, marks it and commits, or fails.
CheckoutReads(c) ==
  /\ cartStatus[c] = "open"
  /\ \E p \in Products : cartItems[c][p] > 0
  /\ c \notin read
  /\ read' = read \cup {c}
  /\ UNCHANGED <<tables, pc, arg, cart, reply, moved, closedAt>>

CheckoutEnds(c) ==
  /\ c \in read
  /\ read' = read \ {c}
  /\ \/ cartStatus' = [cartStatus EXCEPT ![c] = "checked_out"]
     \/ UNCHANGED cartStatus
  /\ UNCHANGED <<cartItems, pc, arg, cart, reply, moved, closedAt>>

Quiet == (\A r \in Requests : pc[r] = "done") /\ UNCHANGED vars

Next ==
  \/ \E r \in Requests :
       \/ Start(r) \/ Find(r) \/ CreateCart(r) \/ Refind(r)
       \/ Write(r) \/ RowMissing(r) \/ QueryFails(r) \/ WriteUnacked(r)
  \/ \E c \in Carts : CheckoutReads(c) \/ CheckoutEnds(c)
  \/ Quiet

Spec == Init /\ [][Next]_vars

-----------------------------------------------------------------------------
(* Properties. *)

\* Every variable keeps its type; a call that writes has a cart of its user's.
TypeOK ==
  /\ cartStatus \in [Carts -> {"absent", "open", "checked_out"}]
  /\ cartItems \in [Carts -> [Products -> 0..MaxQty]]
  /\ pc \in [Requests -> Phases]
  /\ arg \in [Requests -> Calls]
  /\ cart \in [Requests -> Carts \cup {None}]
  /\ reply \in [Requests -> {None, "ok", "notFound", "conflict", "error"}]
  /\ read \subseteq Carts
  /\ moved \in [Requests -> Nat]
  /\ closedAt \in [Requests -> SUBSET Carts]
  /\ \A r \in Requests :
       pc[r] = "write" => cart[r] \in Carts /\ CartOwner[cart[r]] = User(r)

\* However calls race to create it, a user has at most one open cart, so that
\* every call that looks for it finds the same one.
OneOpenCartPerUser ==
  \A c, d \in Carts :
    cartStatus[c] = "open" /\ cartStatus[d] = "open" /\ CartOwner[c] = CartOwner[d] => c = d

\* No add is swallowed by a concurrent one and no unit leaves twice: what a
\* user's calls put in, less what they took out, is in the user's carts.
UnitsAccounted ==
  \A u \in Users, p \in Products :
    LET did(op)   == {r \in Requests : arg[r].op = op /\ User(r) = u /\ Product(r) = p}
        units(op) == SumFunctionOnSet(moved, did(op))
        inCarts   == SumFunctionOnSet([c \in Carts |-> cartItems[c][p]],
                                      {c \in Carts : CartOwner[c] = u})
    IN  units("add") = inCarts + units("remove")

\* The retry after a lost race is enough unless the winner's cart has been
\* checked out meanwhile: an add is answered 409 only if one of the user's carts
\* was closed while the call ran.
ConflictOnlyAfterCheckout ==
  \A r \in Requests :
    reply[r] = "conflict" => ClosedCarts(User(r)) \ closedAt[r] # {}

\* The calls only change the contents of carts that are open ("Add item to user
\* open cart", "Remove item from user open cart").
OnlyOpenCartsChange ==
  [][\A c \in Carts : cartItems'[c] # cartItems[c] => cartStatus[c] = "open"]_vars
=============================================================================
