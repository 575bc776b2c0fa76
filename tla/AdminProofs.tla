------------------------------- MODULE AdminProofs -------------------------------
(***************************************************************************)
(* Proofs about AdminApi, for any number of calls, tokens, products and    *)
(* restarts, any lifetime of a token and any resolution of the clock.      *)
(*                                                                         *)
(* None of the properties proved here is inductive.  AInv adds when a      *)
(* token was dated, how far a call must be to have its answer, that a      *)
(* statement is one of its call's operation, and that a product is absent  *)
(* until its creation has run.                                             *)
(***************************************************************************)
EXTENDS AdminApi, SumTheorems

-----------------------------------------------------------------------------
(* The inductive invariant. *)

Statements == {"insert", "insertStock", "update", "find", "restock"}
Phases     == {"idle", "executed", "done"} \cup Statements
Answers    == {"ok", "notFound", "error", "lost", "refused"}

Typed ==
  /\ clock \in Nat
  /\ input \in [Calls -> Inputs]
  /\ earlier \in [Calls -> SUBSET Calls]
  /\ pc \in [Calls -> Phases]
  /\ answer \in [Calls -> Answers \cup {None}]
  /\ stock \in [Ids -> Nat \cup {None}]
  /\ DOMAIN products = Ids

\* A row has the columns of the table.
RowsWhole == \A p \in Ids : products[p] # None => DOMAIN products[p] = DOMAIN OldRow

\* A token is signed, and expires a lifetime after the second of its login.
TokensDated ==
  \A t \in tokens :
    /\ t.key # Unset
    /\ t.at \in Nat /\ t.at <= clock
    /\ t.exp = (t.at \div TicksPerSecond) + ExpiresIn

\* A statement is one of its call's operation; a call that was acknowledged has
\* been executed, now and when a later one was sent.
OnItsWay ==
  \A c \in Calls :
    /\ pc[c] \in {"insert", "insertStock"} => input[c].op = "create"
    /\ pc[c] = "update" => input[c].op = "patch"
    /\ pc[c] \in {"find", "restock"} => input[c].op = "restock"
    /\ pc[c] = "idle" => answer[c] = None
    /\ answer[c] = "ok" => pc[c] = "executed"
    /\ earlier[c] \subseteq K!Acknowledged

Unborn(p) == p \in Calls /\ pc[p] \in {"idle", "insert"}

\* A product is absent until its creation has run, so no patch can name it before.
BornFirst ==
  /\ \A p \in Ids : Unborn(p) => products[p] = None
  /\ \A c \in K!Of("patch") : pc[c] = "executed" => ~Unborn(K!Id(c))

AInv ==
  /\ Typed
  /\ RowsWhole
  /\ TokensDated
  /\ OnItsWay
  /\ BornFirst
  /\ EveryProductStocked
  /\ PatchesKept

LEMMA InitAInv == Init => AInv
<1> SUFFICES ASSUME Init PROVE AInv
  OBVIOUS
<1> USE ConstantsOK DEF Init, A!Init, K!Init
<1>1. Typed /\ RowsWhole /\ TokensDated /\ OnItsWay
  BY DEF Typed, RowsWhole, TokensDated, OnItsWay, Phases, Answers, K!Acknowledged
<1>2. BornFirst
  BY DEF BornFirst, Unborn, K!Of, K!Id
<1>3. EveryProductStocked /\ PatchesKept
  BY DEF EveryProductStocked, K!EveryProductStocked, PatchesKept, K!PatchesKept, K!Of
<1> QED
  BY <1>1, <1>2, <1>3 DEF AInv

-----------------------------------------------------------------------------
(* The steps, by what they do to the catalog. *)

\* A call is sent.
Starts(c) ==
  /\ pc[c] = "idle"
  /\ pc' = [pc EXCEPT ![c] = K!First[input[c].op]]
  /\ earlier' = [earlier EXCEPT ![c] = K!Acknowledged]
  /\ UNCHANGED <<products, stock, input, answer>>

\* Postgres executes call c's statement, whether or not somebody waits for it.
Writes(c, phase) ==
  /\ K!InsertProduct(c) \/ K!InsertStock(c) \/ K!UpdateProduct(c) \/ K!Restock(c)
  /\ \/ phase = "executed" /\ (K!InsertProduct(c) => answer[c] \in {"error", "lost"})
     \/ phase = "insertStock" /\ K!InsertProduct(c)
  /\ pc' = [pc EXCEPT ![c] = phase]
  /\ UNCHANGED <<input, earlier, answer>>

Finds(c) ==
  /\ pc[c] = "find" /\ pc' = [pc EXCEPT ![c] = "restock"]
  /\ UNCHANGED <<products, stock, input, earlier, answer>>

\* What an answer takes: a success that the statement was executed, any other one
\* without a failure that the call is at no creation.
Told(c) ==
  /\ answer[c] = None /\ answer'[c] \in Answers
  /\ pc'[c] \in {pc[c], "done"}
  /\ pc'[c] # "idle"
  /\ pc[c] = "executed" => pc'[c] = "executed"
  /\ answer'[c] = "ok" => pc[c] = "executed"
  /\ pc[c] = "insertStock" => answer'[c] \in {"error", "lost"}

\* Some calls get an answer or lose their process; at most one of them had not
\* been sent.
Tells ==
  /\ pc' \in [Calls -> Phases] /\ answer' \in [Calls -> Answers \cup {None}]
  /\ \A c \in Calls : Told(c) \/ (pc'[c] = pc[c] /\ answer'[c] = answer[c])
  /\ \E c : \A d \in Calls \ {c} : pc[d] = "idle" => pc'[d] = "idle"
  /\ UNCHANGED <<products, stock, input, earlier>>

Moves ==
  \/ UNCHANGED catalog \/ Tells
  \/ \E c \in Calls : Starts(c) \/ Finds(c) \/ \E phase \in Phases : Writes(c, phase)

LEMMA CallMoves ==
  ASSUME Typed, OnItsWay, NEW c \in Calls, K!Step(c)
  PROVE  Moves
<1> USE ConstantsOK DEF Phases, Statements, Answers
<1>1. ASSUME K!Answer(c, "ok") \/ K!Answer(c, "error"), c \in K!Running, UNCHANGED <<products, stock, pc>>,
             answer'[c] = "ok" => pc[c] = "executed",
             pc[c] = "insertStock" => answer'[c] = "error"
      PROVE  Tells
  BY <1>1 DEF K!Answer, K!Running, Tells, Told, Typed
<1>2. ASSUME K!End(c, "notFound") \/ K!End(c, "error"), c \in K!Running, UNCHANGED <<products, stock>>,
             pc[c] # "executed", pc[c] = "insertStock" => answer'[c] = "error"
      PROVE  Tells
  BY <1>2 DEF K!End, K!Answer, K!Running, Tells, Told, Typed
<1>3. CASE K!Succeed(c) \/ K!ConnectionLost(c)
  BY <1>1, <1>3 DEF K!Succeed, K!ConnectionLost, K!Answer, Typed, Moves
<1>4. CASE K!NotFound(c) \/ K!StatementFails(c)
  BY <1>2, <1>4 DEF K!NotFound, K!StatementFails, K!End, K!Answer, Typed, Moves
<1>5. CASE K!FindProduct(c)
  BY <1>5 DEF K!FindProduct, K!Goto, Finds, Moves
<1>6. CASE K!Create(c)
  <2>1. Writes(c, "insertStock")
    BY <1>6 DEF K!Create, K!Goto, Writes
  <2> QED
    BY <2>1 DEF Moves
<1>7. CASE K!LastStatement(c)
  <2>1. ~K!InsertProduct(c)
    BY <1>7 DEF K!LastStatement, K!InsertProduct, K!InsertStock, K!UpdateProduct, K!Restock
  <2>2. Writes(c, "executed")
    BY <1>7, <2>1 DEF K!LastStatement, K!Goto, Writes
  <2> QED
    BY <2>2 DEF Moves
<1>8. CASE K!Orphaned(c)
  <2>1. Writes(c, "executed")
    BY <1>8 DEF K!Orphaned, K!Goto, Writes
  <2> QED
    BY <2>1 DEF Moves
<1> QED
  BY <1>3, <1>4, <1>5, <1>6, <1>7, <1>8 DEF K!Step

LEMMA Steps ==
  ASSUME Typed, OnItsWay, [Next]_vars
  PROVE  Moves
<1> USE ConstantsOK DEF vars, catalog
<1>1. CASE UNCHANGED catalog
  BY <1>1 DEF Moves
<1>2. ASSUME NEW c \in Calls, Admit(c) PROVE Moves
  BY <1>2 DEF Admit, K!Start, Starts, Moves
<1>3. ASSUME NEW c \in Calls, Refuse(c) PROVE Moves
  BY <1>3 DEF Refuse, K!End, K!Answer, OnItsWay, Typed, Tells, Told, Moves, Phases, Answers
<1>4. CASE Restart
  BY <1>4 DEF Restart, K!Crash, K!Running, Typed, Tells, Told, Moves, Phases, Answers
<1> QED
  BY <1>1, <1>2, <1>3, <1>4, CallMoves DEF Next

\* What a call writes: its own new row, its own inventory row, or a row that is
\* there.
LEMMA CallWrites ==
  ASSUME Typed, OnItsWay, NEW c \in Calls, NEW phase, Writes(c, phase)
  PROVE  /\ \/ products' = products
            \/ /\ pc[c] = "insert" /\ DOMAIN input[c].row = DOMAIN OldRow
               /\ products' = [products EXCEPT ![c] = input[c].row]
            \/ /\ pc[c] = "update" /\ K!Id(c) \in Ids /\ products[K!Id(c)] # None
               /\ products' = [products EXCEPT
                                 ![K!Id(c)] = K!Patched(products[K!Id(c)], input[c].patch)]
         /\ \/ stock' = stock
            \/ \E p \in Ids, n \in Nat : stock' = [stock EXCEPT ![p] = n]
         /\ pc[c] \in Statements
         /\ pc[c] = "insertStock" => stock'[c] # None
         /\ pc[c] = "update" => K!UpdateProduct(c)
         /\ pc[c] = "insert" => K!InsertProduct(c)
         /\ answer[c] # "ok"
<1> USE ConstantsOK, InputsOK DEF Statements
<1>0. input[c] \in Inputs /\ c \in Ids
  BY DEF Typed
<1>1. CASE K!InsertProduct(c)
  BY <1>0, <1>1 DEF K!InsertProduct, OnItsWay
<1>2. CASE K!InsertStock(c)
  <2>1. /\ pc[c] = "insertStock" /\ products' = products
        /\ stock' = [stock EXCEPT ![c] = IF stock[c] = None THEN 0 ELSE stock[c]]
    BY <1>2 DEF K!InsertStock
  <2>2. (IF stock[c] = None THEN 0 ELSE stock[c]) \in Nat
    BY <1>0 DEF Typed
  <2>3. stock'[c] \in Nat
    BY <1>0, <2>1, <2>2 DEF Typed
  <2>4. answer[c] # "ok"
    BY <2>1 DEF OnItsWay
  <2> QED
    BY <1>0, <2>1, <2>2, <2>3, <2>4
<1>3. CASE K!UpdateProduct(c)
  BY <1>0, <1>3 DEF K!UpdateProduct, OnItsWay, K!Id
<1>4. CASE K!Restock(c)
  <2>1. K!Id(c) \in Ids /\ stock[K!Id(c)] \in Nat /\ input[c].qty \in Nat /\ pc[c] = "restock"
    BY <1>0, <1>4 DEF K!Restock, OnItsWay, Typed, K!Id
  <2>2. stock[K!Id(c)] + input[c].qty \in Nat
    BY <2>1
  <2>3. /\ stock' = [stock EXCEPT ![K!Id(c)] = stock[K!Id(c)] + input[c].qty]
        /\ products' = products
    BY <1>4 DEF K!Restock
  <2> QED
    BY <2>1, <2>2, <2>3 DEF OnItsWay
<1> QED
  BY <1>1, <1>2, <1>3, <1>4 DEF Writes

-----------------------------------------------------------------------------
(* Each part of AInv is kept. *)

LEMMA TypedStep ==
  ASSUME Typed, RowsWhole, OnItsWay, [Next]_vars
  PROVE  Typed' /\ RowsWhole' /\ OnItsWay'
<1>1. clock' \in Nat
  BY DEF Typed, Next, vars, auth, A!Tick, A!Login, Admit, Refuse, Restart
<1> USE ConstantsOK DEF Phases, Statements, Answers
<1>2. CASE UNCHANGED catalog
  BY <1>1, <1>2 DEF catalog, Typed, RowsWhole, OnItsWay, K!Acknowledged
<1>3. ASSUME NEW c \in Calls, Starts(c) PROVE Typed' /\ RowsWhole' /\ OnItsWay'
  <2>1. input[c].op \in {"create", "patch", "restock"}
    BY InputsOK DEF Typed
  <2>2. \/ input[c].op = "create" /\ K!First[input[c].op] = "insert"
        \/ input[c].op = "patch" /\ K!First[input[c].op] = "update"
        \/ input[c].op = "restock" /\ K!First[input[c].op] = "find"
    BY <2>1 DEF K!First
  <2>3. K!Acknowledged \subseteq Calls
    BY DEF K!Acknowledged
  <2> QED
    BY <1>1, <1>3, <2>2, <2>3 DEF Starts, Typed, RowsWhole, OnItsWay, K!Acknowledged
<1>4. ASSUME NEW c \in Calls, Finds(c) PROVE Typed' /\ RowsWhole' /\ OnItsWay'
  BY <1>1, <1>4 DEF Finds, Typed, RowsWhole, OnItsWay, K!Acknowledged
<1>5. CASE Tells
  BY <1>1, <1>5 DEF Tells, Told, Typed, RowsWhole, OnItsWay, K!Acknowledged
<1>6. ASSUME NEW c \in Calls, NEW phase \in Phases, Writes(c, phase)
      PROVE  Typed' /\ RowsWhole' /\ OnItsWay'
  <2>1. Typed'
    <3>1. /\ pc' \in [Calls -> Phases] /\ answer' \in [Calls -> Answers \cup {None}]
          /\ input' \in [Calls -> Inputs] /\ earlier' \in [Calls -> SUBSET Calls]
      BY <1>6 DEF Typed, Writes
    <3>2. stock' \in [Ids -> Nat \cup {None}]
      BY <1>6, CallWrites DEF Typed
    <3>3. DOMAIN products' = Ids
      BY <1>6, CallWrites DEF Typed
    <3> QED
      BY <1>1, <3>1, <3>2, <3>3 DEF Typed
  <2>2. RowsWhole'
    BY <1>6, CallWrites DEF Typed, RowsWhole, K!Patched
  <2>3. OnItsWay'
    BY <1>6, CallWrites DEF Typed, OnItsWay, Writes, K!InsertProduct, K!Acknowledged
  <2> QED
    BY <2>1, <2>2, <2>3
<1> QED
  BY <1>2, <1>3, <1>4, <1>5, <1>6, Steps DEF Moves

\* Time passes and logins are dated by the clock.
LEMMA DatedStep ==
  ASSUME Typed, TokensDated, [Next]_vars
  PROVE  TokensDated'
<1> USE DEF vars, auth, catalog
<1>1. CASE A!Tick
  BY <1>1 DEF A!Tick, Typed, TokensDated
<1>2. ASSUME NEW r \in Roles, A!Login(r) PROVE TokensDated'
  BY <1>2 DEF A!Login, A!Now, Typed, TokensDated
<1>3. CASE UNCHANGED <<clock, tokens>>
  BY <1>3 DEF TokensDated
<1> QED
  BY <1>1, <1>2, <1>3 DEF Next, Admit, Refuse, Restart

\* A product is absent until its creation has run.
LEMMA BornStep ==
  ASSUME Typed, OnItsWay, BornFirst, Moves
  PROVE  BornFirst'
<1> USE DEF Phases, Statements
<1>1. CASE UNCHANGED catalog
  BY <1>1 DEF catalog, BornFirst, Unborn, K!Of, K!Id
<1>2. ASSUME UNCHANGED <<products, input>>,
             \A d \in Calls : pc'[d] \in {"idle", "insert"} => pc[d] \in {"idle", "insert"},
             \A d \in Calls : pc'[d] = "executed" => pc[d] = "executed"
      PROVE  BornFirst'
  BY <1>2 DEF BornFirst, Unborn, K!Of, K!Id
<1>3. ASSUME NEW c \in Calls, Starts(c) PROVE BornFirst'
  <2>1. input[c].op \in {"create", "patch", "restock"}
    BY InputsOK DEF Typed
  <2>2. K!First[input[c].op] # "executed"
    BY <2>1 DEF K!First
  <2> QED
    BY <1>2, <1>3, <2>2 DEF Starts, Typed
<1>4. ASSUME NEW c \in Calls, Finds(c) PROVE BornFirst'
  BY <1>2, <1>4 DEF Finds, Typed
<1>5. CASE Tells
  BY <1>2, <1>5 DEF Tells, Told
<1>6. ASSUME NEW c \in Calls, NEW phase \in Phases, Writes(c, phase) PROVE BornFirst'
  <2>1. /\ input' = input /\ pc'[c] \in {"executed", "insertStock"}
        /\ \A d \in Calls \ {c} : pc'[d] = pc[d]
    BY <1>6 DEF Writes, Typed
  <2>2. \A p \in Calls : Unborn(p)' => Unborn(p) /\ p # c
    BY <2>1 DEF Unborn
  <2>3. ASSUME NEW p \in Ids, Unborn(p)' PROVE products'[p] = None
    <3>1. products[p] = None /\ p # c
      BY <2>2, <2>3 DEF BornFirst, Unborn
    <3> QED
      BY <1>6, <3>1, CallWrites DEF Typed
  <2>4. ASSUME NEW d \in K!Of("patch"), pc'[d] = "executed" PROVE ~Unborn(K!Id(d))'
    <3>0. K!Id(d)' = K!Id(d) /\ d \in Calls
      BY <2>1 DEF K!Id, K!Of
    <3>1. CASE d # c
      <4>1. ~Unborn(K!Id(d))
        BY <2>1, <2>4, <3>0, <3>1 DEF BornFirst
      <4> QED
        BY <2>2, <3>0, <4>1 DEF Unborn
    <3>2. CASE d = c
      <4>1. pc[c] = "update"
        BY <1>6, <3>2, CallWrites DEF K!Of, OnItsWay, Writes, K!UpdateProduct, K!InsertStock,
           K!Restock, K!InsertProduct
      <4>2. products[K!Id(c)] # None /\ K!Id(c) \in Ids
        BY <1>6, <4>1, CallWrites, InputsOK DEF K!UpdateProduct, OnItsWay, Typed, K!Id
      <4>3. ~Unborn(K!Id(c))
        BY <4>2 DEF BornFirst
      <4> QED
        BY <2>2, <3>0, <3>2, <4>3 DEF Unborn
    <3> QED
      BY <3>1, <3>2
  <2>5. K!Of("patch")' = K!Of("patch")
    BY <2>1 DEF K!Of
  <2> QED
    BY <2>3, <2>4, <2>5 DEF BornFirst
<1> QED
  BY <1>1, <1>3, <1>4, <1>5, <1>6 DEF Moves

\* A product stays without an inventory row only when its creation failed.
LEMMA StockedStep ==
  ASSUME Typed, OnItsWay, EveryProductStocked, Moves
  PROVE  EveryProductStocked'
<1> USE ConstantsOK DEF EveryProductStocked, K!EveryProductStocked
<1>1. CASE UNCHANGED catalog
  BY <1>1 DEF catalog
<1>2. ASSUME NEW c \in Calls, Starts(c) \/ Finds(c) PROVE EveryProductStocked'
  BY <1>2 DEF Starts, Finds, OnItsWay, Typed
<1>3. CASE Tells
  BY <1>3 DEF Tells, Told
<1>4. ASSUME NEW c \in Calls, NEW phase \in Phases, Writes(c, phase) PROVE EveryProductStocked'
  <2>1. \A d \in Calls : stock'[d] = None => stock[d] = None
    BY <1>4, CallWrites DEF Typed
  <2>2. \A d \in Calls \ {c} : products'[d] # None => products[d] # None
    BY <1>4, CallWrites DEF Typed
  <2>3. answer' = answer /\ \A d \in Calls \ {c} : pc'[d] = pc[d]
    BY <1>4 DEF Writes, Typed
  <2>4. ASSUME products'[c] # None, stock'[c] = None
        PROVE  pc'[c] = "insertStock" \/ answer'[c] \in {"error", "lost"}
    <3>1. CASE pc[c] = "insert"
      BY <1>4, <3>1, CallWrites DEF Writes, Typed
    <3>2. CASE pc[c] # "insert"
      <4>1. products[c] # None /\ stock[c] = None /\ pc[c] # "insertStock"
        BY <1>4, <2>1, <2>4, <3>2, CallWrites DEF Typed
      <4> QED
        BY <2>3, <4>1
    <3> QED
      BY <3>1, <3>2
  <2> QED
    BY <2>1, <2>2, <2>3, <2>4
<1> QED
  BY <1>1, <1>2, <1>3, <1>4 DEF Moves

\* One call's patch holds: what PatchesKept says of call c and column f.
Holds(c, f) ==
  \E d \in K!Of("patch") \ earlier[c] :
    /\ K!Id(d) = K!Id(c) /\ f \in DOMAIN input[d].patch
    /\ products[K!Id(c)][f] = input[d].patch[f]

\* The patch that is executed now was not acknowledged before any other call was
\* sent, and leaves the columns alone that it does not set.
LEMMA PatchedStep ==
  ASSUME Typed, RowsWhole, OnItsWay, BornFirst, PatchesKept,
         NEW c \in Calls, NEW phase \in Phases, Writes(c, phase)
  PROVE  PatchesKept'
<1> USE ConstantsOK
<1>0. /\ input' = input /\ earlier' = earlier /\ \A d \in Calls \ {c} : pc'[d] = pc[d]
      /\ K!Of("patch")' = K!Of("patch") /\ \A d : K!Id(d)' = K!Id(d)
      /\ \A d \in Calls : c \notin earlier[d]
  <2>1. /\ input' = input /\ earlier' = earlier
        /\ \A d \in Calls \ {c} : pc'[d] = pc[d]
    BY DEF Writes, Typed
  <2>2. answer[c] # "ok"
    BY CallWrites
  <2> QED
    BY <2>1, <2>2 DEF K!Of, K!Id, OnItsWay, K!Acknowledged
<1> SUFFICES ASSUME NEW d \in K!Of("patch"), pc'[d] = "executed", NEW f \in DOMAIN input[d].patch
             PROVE  Holds(d, f)'
  BY <1>0 DEF PatchesKept, K!PatchesKept, K!Of, Holds
<1>1. d \in Calls /\ K!Id(d) \in Ids /\ f \in DOMAIN OldRow
  BY InputsOK DEF K!Of, K!Id, Typed
<1>2. ASSUME pc[c] = "update", K!Id(c) = K!Id(d), f \in DOMAIN input[c].patch
      PROVE  Holds(d, f)'
  <2>1. /\ products' = [products EXCEPT
               ![K!Id(c)] = K!Patched(products[K!Id(c)], input[c].patch)]
        /\ products[K!Id(c)] # None
    BY <1>2, CallWrites DEF K!UpdateProduct
  <2>2. f \in DOMAIN products[K!Id(c)] /\ K!Id(c) \in DOMAIN products
    BY <1>1, <1>2, <2>1 DEF RowsWhole, Typed
  <2>3. products'[K!Id(c)] = K!Patched(products[K!Id(c)], input[c].patch)
    BY <2>1, <2>2
  <2>4. products'[K!Id(c)][f] = input[c].patch[f]
    BY <1>2, <2>2, <2>3 DEF K!Patched
  <2>5. c \in K!Of("patch") \ earlier[d]
    BY <1>0, <1>1, <1>2 DEF OnItsWay, K!Of
  <2> QED
    BY <1>0, <1>2, <2>4, <2>5 DEF Holds
<1>3. ASSUME d # c, products'[K!Id(d)][f] = products[K!Id(d)][f] PROVE Holds(d, f)'
  <2>1. pc[d] = "executed"
    BY <1>0, <1>1, <1>3
  <2>2. Holds(d, f)
    BY <2>1 DEF PatchesKept, K!PatchesKept, Holds
  <2> QED
    BY <1>0, <1>3, <2>2 DEF Holds
<1>4. CASE d = c
  <2>1. pc[c] = "update"
    BY <1>4, CallWrites DEF K!Of, OnItsWay, Writes, K!UpdateProduct, K!InsertStock,
       K!Restock, K!InsertProduct
  <2> QED
    BY <1>2, <1>4, <2>1
<1>5. CASE d # c
  <2>1. ~Unborn(K!Id(d))
    BY <1>0, <1>1, <1>5 DEF BornFirst
  <2>2. CASE products'[K!Id(d)] = products[K!Id(d)]
    BY <1>3, <1>5, <2>2
  <2>3. CASE products'[K!Id(d)] # products[K!Id(d)]
    <3>1. ~(pc[c] = "insert")
      <4>1. ASSUME pc[c] = "insert" PROVE FALSE
        <5>1. c # K!Id(d)
          BY <2>1, <4>1 DEF Unborn
        <5> QED
          BY <1>1, <2>3, <4>1, <5>1, CallWrites DEF Typed
      <4> QED
        BY <4>1
    <3>2. /\ pc[c] = "update" /\ K!Id(c) = K!Id(d)
          /\ products' = [products EXCEPT
               ![K!Id(c)] = K!Patched(products[K!Id(c)], input[c].patch)]
          /\ products[K!Id(c)] # None
      BY <1>1, <2>3, <3>1, CallWrites DEF Typed
    <3>3. CASE f \in DOMAIN input[c].patch
      BY <1>2, <3>2, <3>3
    <3>4. CASE f \notin DOMAIN input[c].patch
      <4>1. f \in DOMAIN products[K!Id(d)] /\ K!Id(d) \in DOMAIN products
        BY <1>1, <3>2 DEF RowsWhole, Typed
      <4>2. products'[K!Id(d)] = K!Patched(products[K!Id(d)], input[c].patch)
        BY <3>2, <4>1
      <4>3. products'[K!Id(d)][f] = products[K!Id(d)][f]
        BY <3>4, <4>1, <4>2 DEF K!Patched
      <4> QED
        BY <1>3, <1>5, <4>3
    <3> QED
      BY <3>3, <3>4
  <2> QED
    BY <2>2, <2>3
<1> QED
  BY <1>4, <1>5

\* Calls that are sent, answered or cut off undo no patch.
LEMMA KeptStep ==
  ASSUME Typed, RowsWhole, OnItsWay, BornFirst, PatchesKept, Moves
  PROVE  PatchesKept'
<1>1. ASSUME UNCHANGED <<products, input>>,
             \A d \in Calls : pc'[d] = "executed" => pc[d] = "executed" /\ earlier'[d] = earlier[d]
      PROVE  PatchesKept'
  BY <1>1 DEF PatchesKept, K!PatchesKept, K!Of, K!Id
<1>2. CASE UNCHANGED catalog
  BY <1>1, <1>2 DEF catalog
<1>3. ASSUME NEW c \in Calls, Starts(c) PROVE PatchesKept'
  <2>1. input[c].op \in {"create", "patch", "restock"}
    BY InputsOK DEF Typed
  <2>2. K!First[input[c].op] # "executed"
    BY <2>1 DEF K!First
  <2> QED
    BY <1>1, <1>3, <2>2 DEF Starts, Typed
<1>4. ASSUME NEW c \in Calls, Finds(c) PROVE PatchesKept'
  BY <1>1, <1>4 DEF Finds, Typed
<1>5. CASE Tells
  BY <1>1, <1>5 DEF Tells, Told
<1> QED
  BY <1>2, <1>3, <1>4, <1>5, PatchedStep DEF Moves

\* Two instants a, n (a login and now) fall into seconds that differ by less than
\* their distance and one second more.
LEMMA Seconds ==
  ASSUME NEW d \in Nat \ {0}, NEW a \in Nat, NEW n \in Nat, a <= n, NEW e \in Nat \ {0}
  PROVE  /\ (a \div d) + e > (n \div d) => n - a < e * d
         /\ n - a <= (e - 1) * d => (a \div d) + e > (n \div d)
<1> DEFINE i == a \div d
           j == n \div d
<1>1. /\ i \in Nat /\ j \in Nat
      /\ i * d <= a /\ a < i * d + d
      /\ j * d <= n /\ n < j * d + d
  OBVIOUS
<1> HIDE DEF i, j
<1>2. ASSUME i + e > j PROVE n - a < e * d
  <2>1. j + 1 <= i + e
    BY <1>1, <1>2
  <2>2. (j + 1) * d <= (i + e) * d
    BY <1>1, <2>1
  <2>3. (j + 1) * d = j * d + d /\ (i + e) * d = i * d + e * d
    BY <1>1
  <2> QED
    BY <1>1, <2>2, <2>3
<1>3. ASSUME n - a <= (e - 1) * d, ~(i + e > j) PROVE FALSE
  <2>1. (i + e) * d <= j * d
    BY <1>1, <1>3
  <2>2. (i + e) * d = i * d + e * d /\ (e - 1) * d = e * d - d
    BY <1>1
  <2> QED
    BY <1>1, <1>3, <2>1, <2>2
<1> QED
  BY <1>2, <1>3 DEF i, j

\* A token dated at its login is accepted for its lifetime and no longer.
LEMMA DatedLives == Typed /\ TokensDated => TokenLifetime
<1> SUFFICES ASSUME Typed, TokensDated, NEW t \in tokens, t.key = secret
             PROVE  /\ A!Verifies(t) => clock - t.at < ExpiresIn * TicksPerSecond
                    /\ clock - t.at <= (ExpiresIn - 1) * TicksPerSecond => A!Verifies(t)
  BY DEF TokenLifetime, A!TokenLifetime
<1> DEFINE Early == (t.at \div TicksPerSecond) + ExpiresIn > (clock \div TicksPerSecond)
<1>1. A!Verifies(t) <=> Early
  BY DEF A!Verifies, A!Now, TokensDated
<1>2. /\ Early => clock - t.at < ExpiresIn * TicksPerSecond
      /\ clock - t.at <= (ExpiresIn - 1) * TicksPerSecond => Early
  <2>1. /\ TicksPerSecond \in Nat \ {0} /\ ExpiresIn \in Nat \ {0} /\ clock \in Nat
        /\ t.at \in Nat /\ t.at <= clock
    BY ConstantsOK DEF Typed, TokensDated
  <2> QED
    BY <2>1, Seconds
<1> HIDE DEF Early
<1> QED
  BY <1>1, <1>2

-----------------------------------------------------------------------------
(* The theorems. *)

LEMMA AInvStep == AInv /\ [Next]_vars => AInv'
<1> SUFFICES ASSUME AInv, [Next]_vars PROVE AInv'
  OBVIOUS
<1>1. Moves
  BY Steps DEF AInv
<1> QED
  BY <1>1, TypedStep, DatedStep, BornStep, StockedStep, KeptStep DEF AInv

\* Every behaviour keeps AInv, whatever calls, logins, errors and restarts come.
THEOREM Invariance == Spec => []AInv
  BY InitAInv, AInvStep, PTL DEF Spec

\* A token is accepted for all of its lifetime but the last second and never
\* longer, for any lifetime, and whatever part of a second the login fell in.
THEOREM Lifetime == Spec => []TokenLifetime
<1>1. AInv => TokenLifetime
  BY DatedLives DEF AInv
<1> QED
  BY <1>1, Invariance, PTL

\* createProduct leaves no product without its inventory row, unless the second
\* of its two statements failed or was cut off.
THEOREM ProductsStocked == Spec => []EveryProductStocked
<1>1. AInv => EveryProductStocked
  BY DEF AInv
<1> QED
  BY <1>1, Invariance, PTL

\* A column holds what an executed PATCH set, or a PATCH of the same column that
\* was not acknowledged before it was sent, even if statements are executed
\* after their process has ended.
THEOREM PatchesStay == Spec => []PatchesKept
<1>1. AInv => PatchesKept
  BY DEF AInv
<1> QED
  BY <1>1, Invariance, PTL

-----------------------------------------------------------------------------
(* Restocks add up.  A stock is exactly what it began with and the executed  *)
(* restocks: at least the acknowledged ones, and none that cannot have been. *)

Executed == {c \in Calls : pc[c] = "executed"}
Sent     == {c \in Calls : pc[c] # "idle"}
Units    == [c \in K!Of("restock") |-> input[c].qty]
Counted(p, calls) == {c \in K!Of("restock") \cap calls : K!Id(c) = p}
Before(p) == IF p \in Calls THEN 0 ELSE OldQty

\* No restock is executed before the inventory row is there.
RowFirst == \A c \in K!Of("restock") \cap Executed : stock[K!Id(c)] # None

Exact(p) == stock[p] # None => stock[p] = Before(p) + K!Restocked(p, Executed)
ExactlyOnce == \A p \in Ids : Exact(p)

BInv == AInv /\ IsFiniteSet(Sent) /\ RowFirst /\ ExactlyOnce

\* Catalog sums as every module does.
LEMMA CatalogSums == \A g, S : K!SumFunctionOnSet(g, S) = SumFunctionOnSet(g, S)
  BY DEF K!SumFunctionOnSet, SumFunctionOnSet, K!FoldFunctionOnSet, FoldFunctionOnSet,
     K!MapThenFoldSet, MapThenFoldSet

\* What a product's sum is made of.
LEMMA CountedUnits ==
  ASSUME Typed, IsFiniteSet(Sent), NEW p, NEW calls \in SUBSET Sent
  PROVE  /\ K!Restocked(p, calls) = SumFunctionOnSet(Units, Counted(p, calls))
         /\ IsFiniteSet(Counted(p, calls)) /\ K!Restocked(p, calls) \in Nat
         /\ \A c \in Counted(p, calls) : Units[c] \in Nat
<1>1. IsFiniteSet(Counted(p, calls))
  <2>1. Counted(p, calls) \in SUBSET Sent
    BY DEF Counted
  <2> QED
    BY <2>1, FS_Subset
<1>2. \A c \in Counted(p, calls) : Units[c] \in Nat
  BY InputsOK DEF Counted, Units, K!Of, Typed
<1>3. K!Restocked(p, calls) = SumFunctionOnSet(Units, Counted(p, calls))
  BY CatalogSums DEF K!Restocked, Units, Counted
<1> QED
  BY <1>1, <1>2, <1>3, SumNat

\* A step after which the same restocks have been executed changes no sum.
LEMMA SameSum ==
  ASSUME input' = input, K!Of("restock") \cap Executed' = K!Of("restock") \cap Executed, NEW p
  PROVE  K!Restocked(p, Executed)' = K!Restocked(p, Executed)
<1>1. K!Of("restock")' = K!Of("restock") /\ Units' = Units /\ \A c : K!Id(c)' = K!Id(c)
  BY DEF K!Of, Units, K!Id
<1>2. Counted(p, Executed)' = Counted(p, Executed)
  BY <1>1 DEF Counted
<1>3. /\ K!Restocked(p, Executed) = SumFunctionOnSet(Units, Counted(p, Executed))
      /\ K!Restocked(p, Executed)' = SumFunctionOnSet(Units', Counted(p, Executed)')
  BY CatalogSums DEF K!Restocked, Units, Counted
<1> QED
  BY <1>1, <1>2, <1>3

\* A restock that is executed joins its product's sum and no other.
LEMMA JoinedSum ==
  ASSUME Typed, IsFiniteSet(Sent), NEW c \in K!Of("restock"), c \notin Executed,
         input' = input, Executed' = Executed \cup {c}, NEW p
  PROVE  K!Restocked(p, Executed)' =
           K!Restocked(p, Executed) + IF K!Id(c) = p THEN input[c].qty ELSE 0
<1>1. K!Of("restock")' = K!Of("restock") /\ Units' = Units /\ \A d : K!Id(d)' = K!Id(d)
  BY DEF K!Of, Units, K!Id
<1>2. /\ K!Restocked(p, Executed) = SumFunctionOnSet(Units, Counted(p, Executed))
      /\ K!Restocked(p, Executed)' = SumFunctionOnSet(Units', Counted(p, Executed)')
  BY CatalogSums DEF K!Restocked, Units, Counted
<1>3. /\ IsFiniteSet(Counted(p, Executed)) /\ K!Restocked(p, Executed) \in Nat
      /\ \A x \in Counted(p, Executed) : Units[x] \in Int
  <2>1. Executed \in SUBSET Sent
    BY DEF Executed, Sent
  <2> QED
    BY <2>1, CountedUnits
<1>4. Units[c] = input[c].qty /\ Units[c] \in Int /\ c \notin Counted(p, Executed)
  BY InputsOK DEF Units, K!Of, Typed, Counted
<1>5. CASE K!Id(c) = p
  <2>1. Counted(p, Executed)' = Counted(p, Executed) \cup {c}
    BY <1>1, <1>5 DEF Counted
  <2>2. SumFunctionOnSet(Units, Counted(p, Executed)') =
          SumFunctionOnSet(Units, Counted(p, Executed)) + Units[c]
    BY ONLY <1>3, <1>4, <2>1, SumJoin
  <2> QED
    BY <1>1, <1>2, <1>4, <1>5, <2>2
<1>6. CASE K!Id(c) # p
  <2>1. Counted(p, Executed)' = Counted(p, Executed)
    BY <1>1, <1>6 DEF Counted
  <2> QED
    BY <1>1, <1>2, <1>3, <1>6, <2>1
<1> QED
  BY <1>5, <1>6

\* A product without an inventory row has no executed restock.
LEMMA NothingCounted ==
  ASSUME RowFirst, NEW p \in Ids, stock[p] = None
  PROVE  K!Restocked(p, Executed) = 0
<1>1. Counted(p, Executed) = {}
  BY DEF Counted, RowFirst
<1>2. SumFunctionOnSet(Units, {}) = 0
  BY FS_EmptySet, SumUnfold
<1> QED
  BY <1>1, <1>2, CatalogSums DEF K!Restocked, Units, Counted

LEMMA InitBInv == Init => BInv
<1> SUFFICES ASSUME Init PROVE IsFiniteSet(Sent) /\ RowFirst /\ ExactlyOnce
  BY InitAInv DEF BInv
<1>1. /\ \A c \in Calls : pc[c] = "idle"
      /\ \A p \in Ids : stock[p] = IF p \in Calls THEN None ELSE OldQty
  BY DEF Init, K!Init
<1>2. Sent = {} /\ Executed = {}
  BY <1>1 DEF Sent, Executed
<1>3. RowFirst
  BY <1>2 DEF RowFirst
<1>4. ASSUME NEW p PROVE K!Restocked(p, Executed) = 0
  <2>1. Counted(p, Executed) = {}
    BY <1>2 DEF Counted
  <2>2. SumFunctionOnSet(Units, {}) = 0
    BY FS_EmptySet, SumUnfold
  <2> QED
    BY <2>1, <2>2, CatalogSums DEF K!Restocked, Units, Counted
<1>5. ExactlyOnce
  BY <1>1, <1>4, ConstantsOK DEF ExactlyOnce, Exact, Before
<1> QED
  BY <1>2, <1>3, <1>5, FS_EmptySet

\* What the execution of call c's statement does to the stock of p.
LEMMA StockMoves ==
  ASSUME Typed, OnItsWay, NEW c \in Calls, NEW phase, Writes(c, phase), NEW p \in Ids
  PROVE  /\ c \notin Executed
         /\ \/ c \in K!Of("restock") /\ K!Restock(c) /\ phase = "executed"
            \/ c \notin K!Of("restock")
         /\ \/ stock'[p] = stock[p] /\ ~(c \in K!Of("restock") /\ K!Id(c) = p)
            \/ stock[p] = None /\ stock'[p] = 0 /\ c = p /\ c \notin K!Of("restock")
            \/ /\ c \in K!Of("restock") /\ K!Id(c) = p
               /\ stock[p] \in Nat /\ stock'[p] = stock[p] + input[c].qty
<1> USE ConstantsOK DEF Executed
<1>0. input[c] \in Inputs /\ c \in Ids
  BY DEF Typed
<1>1. CASE K!InsertProduct(c)
  BY <1>1 DEF K!InsertProduct, OnItsWay, K!Of
<1>2. CASE K!InsertStock(c)
  BY <1>0, <1>2 DEF K!InsertStock, Typed, OnItsWay, K!Of
<1>3. CASE K!UpdateProduct(c)
  BY <1>3 DEF K!UpdateProduct, OnItsWay, K!Of
<1>4. CASE K!Restock(c)
  <2>1. pc[c] = "restock" /\ input[c].op = "restock" /\ K!Id(c) \in Ids /\ stock[K!Id(c)] \in Nat
    BY <1>0, <1>4, InputsOK DEF K!Restock, OnItsWay, Typed, K!Id
  <2>2. stock' = [stock EXCEPT ![K!Id(c)] = stock[K!Id(c)] + input[c].qty]
    BY <1>4 DEF K!Restock
  <2>3. phase = "executed"
    BY <2>1 DEF Writes, K!InsertProduct
  <2> QED
    BY <1>4, <2>1, <2>2, <2>3 DEF K!Of, Typed
<1> QED
  BY <1>1, <1>2, <1>3, <1>4 DEF Writes

\* An executed statement keeps every stock equal to its sum.
LEMMA RestockedStep ==
  ASSUME BInv, NEW c \in Calls, NEW phase \in Phases, Writes(c, phase)
  PROVE  RowFirst' /\ ExactlyOnce'
<1> USE ConstantsOK DEF BInv, AInv
<1>0. /\ input' = input /\ input[c] \in Inputs /\ \A d \in Calls \ {c} : pc'[d] = pc[d]
      /\ pc'[c] = phase /\ K!Of("restock")' = K!Of("restock") /\ \A d : K!Id(d)' = K!Id(d)
  BY DEF Writes, Typed, K!Of, K!Id
<1>1. RowFirst'
  <2> SUFFICES ASSUME NEW d \in K!Of("restock"), d \in Executed' PROVE stock'[K!Id(d)] # None
    BY <1>0 DEF RowFirst
  <2>1. K!Id(d) \in Ids /\ d \in Calls
    BY InputsOK DEF K!Of, K!Id, Typed
  <2>2. CASE d = c
    <3>1. K!Restock(c) /\ input[c].qty \in Nat
      BY <1>0, <2>1, <2>2, StockMoves, InputsOK DEF K!Of
    <3> QED
      BY <1>0, <2>1, <2>2, <3>1 DEF K!Restock, Typed
  <2>3. CASE d # c
    <3>1. stock[K!Id(d)] # None
      BY <1>0, <2>1, <2>3 DEF RowFirst, Executed
    <3> QED
      BY <2>1, <3>1, CallWrites DEF Typed
  <2> QED
    BY <2>2, <2>3
<1>2. ASSUME NEW p \in Ids PROVE Exact(p)'
  <2>1. /\ Exact(p) /\ Before(p)' = Before(p) /\ Before(p) \in Nat
        /\ stock[p] \in Nat \cup {None}
    BY DEF ExactlyOnce, Before, Typed
  <2>2. K!Restocked(p, Executed) \in Nat
    <3>1. Executed \in SUBSET Sent
      BY DEF Executed, Sent
    <3> QED
      BY <3>1, CountedUnits
  <2>3. CASE c \in K!Of("restock")
    <3>1. Executed' = Executed \cup {c} /\ c \notin Executed /\ input[c].qty \in Nat
      BY <1>0, <2>3, StockMoves, InputsOK DEF Executed, K!Of
    <3>2. K!Restocked(p, Executed)' =
            K!Restocked(p, Executed) + IF K!Id(c) = p THEN input[c].qty ELSE 0
      BY <1>0, <2>3, <3>1, JoinedSum
    <3>3. CASE K!Id(c) = p
      <4>1. stock[p] \in Nat /\ stock'[p] = stock[p] + input[c].qty
        BY <2>3, <3>3, StockMoves
      <4>2. stock[p] = Before(p) + K!Restocked(p, Executed)
        BY <2>1, <4>1 DEF Exact
      <4> QED
        BY <2>1, <2>2, <3>1, <3>2, <3>3, <4>1, <4>2 DEF Exact
    <3>4. CASE K!Id(c) # p
      <4>1. stock'[p] = stock[p]
        BY <2>3, <3>4, StockMoves
      <4> QED
        BY <2>1, <2>2, <3>2, <3>4, <4>1 DEF Exact
    <3> QED
      BY <3>3, <3>4
  <2>4. CASE c \notin K!Of("restock")
    <3>1. K!Restocked(p, Executed)' = K!Restocked(p, Executed)
      <4>1. K!Of("restock") \cap Executed' = K!Of("restock") \cap Executed
        BY <1>0, <2>4 DEF Executed, K!Of
      <4> QED
        BY <1>0, <4>1, SameSum
    <3>2. CASE stock'[p] = stock[p]
      BY <2>1, <3>1, <3>2 DEF Exact
    <3>3. CASE stock[p] = None /\ stock'[p] = 0 /\ c = p
      <4>1. K!Restocked(p, Executed) = 0 /\ Before(p) = 0
        BY <3>3, NothingCounted DEF Before
      <4> QED
        BY <2>1, <3>1, <3>3, <4>1 DEF Exact
    <3> QED
      BY <2>4, <3>2, <3>3, StockMoves
  <2> QED
    BY <2>3, <2>4
<1> QED
  BY <1>1, <1>2 DEF ExactlyOnce

LEMMA BInvStep ==
  ASSUME BInv, [Next]_vars
  PROVE  IsFiniteSet(Sent)' /\ RowFirst' /\ ExactlyOnce'
<1> USE DEF BInv, AInv
<1>0. Moves
  BY Steps
<1>1. IsFiniteSet(Sent)'
  <2>1. ASSUME NEW c, Sent' \subseteq Sent \cup {c} PROVE IsFiniteSet(Sent)'
    <3>1. IsFiniteSet(Sent \cup {c})
      BY FS_AddElement
    <3> QED
      BY <2>1, <3>1, FS_Subset
  <2>2. CASE UNCHANGED catalog
    BY <2>2 DEF catalog, Sent
  <2>3. ASSUME NEW c \in Calls, Starts(c) \/ Finds(c) \/ (\E phase \in Phases : Writes(c, phase))
        PROVE  IsFiniteSet(Sent)'
    BY <2>1, <2>3 DEF Starts, Finds, Writes, Sent, Typed
  <2>4. CASE Tells
    <3>1. PICK c : \A d \in Calls \ {c} : pc[d] = "idle" => pc'[d] = "idle"
      BY <2>4 DEF Tells
    <3>2. Sent' \subseteq Sent \cup {c}
      BY <3>1 DEF Sent
    <3> QED
      BY <2>1, <3>2
  <2> QED
    BY <1>0, <2>2, <2>3, <2>4 DEF Moves
<1>2. ASSUME UNCHANGED <<stock, input>>, Executed' = Executed PROVE RowFirst' /\ ExactlyOnce'
  <2>1. RowFirst'
    BY <1>2 DEF RowFirst, K!Of, K!Id
  <2>2. \A p : K!Restocked(p, Executed)' = K!Restocked(p, Executed)
    BY <1>2, SameSum
  <2> QED
    BY <1>2, <2>1, <2>2 DEF ExactlyOnce, Exact, Before
<1>3. ASSUME UNCHANGED catalog \/ Tells PROVE RowFirst' /\ ExactlyOnce'
  <2>1. CASE UNCHANGED catalog
    BY <1>2, <2>1 DEF catalog, Executed
  <2>2. CASE Tells
    <3>1. \A c \in Calls : pc'[c] = "executed" <=> pc[c] = "executed"
      BY <2>2 DEF Tells, Told
    <3> QED
      BY <1>2, <2>2, <3>1 DEF Tells, Executed
  <2> QED
    BY <1>3, <2>1, <2>2
<1>4. ASSUME NEW c \in Calls, Starts(c) \/ Finds(c) PROVE RowFirst' /\ ExactlyOnce'
  <2>1. input[c].op \in {"create", "patch", "restock"}
    BY InputsOK DEF Typed
  <2>2. K!First[input[c].op] # "executed"
    BY <2>1 DEF K!First
  <2> QED
    BY <1>2, <1>4, <2>2 DEF Starts, Finds, Executed, Typed
<1> QED
  BY <1>0, <1>1, <1>3, <1>4, RestockedStep DEF Moves

\* The exact sum lies between what the answers allow.
LEMMA Between == BInv => RestocksAddUp
<1> SUFFICES ASSUME BInv, NEW p \in Ids, stock[p] # None
             PROVE  /\ stock[p] >= Before(p) + K!Restocked(p, K!Acknowledged)
                    /\ stock[p] <= Before(p) + K!Restocked(p, K!Acknowledged \cup K!Uncertain)
  BY DEF RestocksAddUp, K!RestocksAddUp, Before
<1> USE ConstantsOK DEF BInv, AInv
<1>1. /\ K!Acknowledged \in SUBSET Executed /\ Executed \in SUBSET (K!Acknowledged \cup K!Uncertain)
      /\ K!Acknowledged \cup K!Uncertain \in SUBSET Sent
  BY DEF K!Acknowledged, K!Uncertain, Executed, Sent, OnItsWay
<1>2. ASSUME NEW S \in SUBSET Sent, NEW T \in SUBSET Sent, S \in SUBSET T
      PROVE  K!Restocked(p, S) <= K!Restocked(p, T) /\ K!Restocked(p, S) \in Nat /\ K!Restocked(p, T) \in Nat
  <2>1. Counted(p, S) \in SUBSET Counted(p, T)
    BY <1>2 DEF Counted
  <2>2. /\ K!Restocked(p, S) = SumFunctionOnSet(Units, Counted(p, S)) /\ K!Restocked(p, S) \in Nat
        /\ K!Restocked(p, T) = SumFunctionOnSet(Units, Counted(p, T)) /\ K!Restocked(p, T) \in Nat
        /\ IsFiniteSet(Counted(p, T)) /\ \A c \in Counted(p, T) : Units[c] \in Nat
    BY CountedUnits
  <2> QED
    BY <2>1, <2>2, SumSubset
<1>3. /\ K!Restocked(p, K!Acknowledged) <= K!Restocked(p, Executed)
      /\ K!Restocked(p, Executed) <= K!Restocked(p, K!Acknowledged \cup K!Uncertain)
      /\ K!Restocked(p, K!Acknowledged) \in Nat /\ K!Restocked(p, Executed) \in Nat
      /\ K!Restocked(p, K!Acknowledged \cup K!Uncertain) \in Nat
  BY <1>1, <1>2
<1>4. stock[p] = Before(p) + K!Restocked(p, Executed) /\ Before(p) \in Nat
  BY DEF ExactlyOnce, Exact, Before
<1> QED
  BY <1>3, <1>4

\* Every acknowledged restock is in the stock exactly once, and one that ended
\* without saying at most once, although Postgres may execute it after the
\* process has ended.
THEOREM Restocks == Spec => []RestocksAddUp
<1>1. Init => BInv
  BY InitBInv
<1>2. BInv /\ [Next]_vars => BInv'
  BY AInvStep, BInvStep DEF BInv
<1> QED
  BY <1>1, <1>2, Between, PTL DEF Spec
=============================================================================
