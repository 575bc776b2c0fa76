-------------------------------- MODULE AdminApi --------------------------------
(***************************************************************************)
(* The admin routes as app.js mounts them: every call under /admin passes  *)
(* requireAuth and requireRole("admin") once, at its start, and then runs  *)
(* its handler.  Auth and Catalog over one server process, which may end   *)
(* (server.js) and come back with another JWT_SECRET.                      *)
(***************************************************************************)
EXTENDS Naturals

CONSTANTS
  Roles, Secrets, Unset, ExpiresIn, TicksPerSecond, MaxClock, MaxTokens,  \* of Auth
  Calls, Ids, Inputs, OldRow, OldQty, MaxQty, None                        \* of Catalog

ASSUME ConstantsOK ==
  /\ Unset \notin Secrets
  /\ {ExpiresIn, TicksPerSecond} \subseteq Nat \ {0}
  /\ {MaxClock, MaxTokens, OldQty, MaxQty} \subseteq Nat
  /\ Calls \subseteq Ids
  /\ None \notin Nat \cup {"ok", "notFound", "error", "lost", "refused"}

\* What the services let through: a row has every column, a patch only columns,
\* and a restock a quantity above 0.
ASSUME InputsOK ==
  \A i \in Inputs :
    \/ i.op = "create" /\ DOMAIN i.row = DOMAIN OldRow
    \/ i.op = "patch" /\ i.id \in Ids /\ DOMAIN i.patch \subseteq DOMAIN OldRow
    \/ i.op = "restock" /\ i.id \in Ids /\ i.qty \in Nat \ {0}

VARIABLES
  clock, secret, tokens,
  products, stock, input, earlier, pc, answer

auth    == <<clock, secret, tokens>>
catalog == <<products, stock, input, earlier, pc, answer>>
vars    == <<auth, catalog>>

A == INSTANCE Auth
K == INSTANCE Catalog

Init == A!Init /\ K!Init

Admit(c) == (\E t \in tokens : A!MayAdminister(t)) /\ K!Start(c) /\ UNCHANGED auth

\* 401 or 403, and 500 while JWT_SECRET is not configured.
Refuse(c) ==
  /\ pc[c] = "idle"
  /\ K!End(c, "refused")
  /\ UNCHANGED <<auth, products, stock>>

\* The process ends, by a signal, its grace period or a crash, and another one
\* reads its environment.
Restart ==
  /\ secret' \in Secrets \cup {Unset}
  /\ K!Crash
  /\ UNCHANGED <<clock, tokens>>

Next ==
  \/ (A!Tick \/ \E r \in Roles : A!Login(r)) /\ UNCHANGED catalog
  \/ \E c \in Calls : Admit(c) \/ Refuse(c) \/ (K!Step(c) /\ UNCHANGED auth)
  \/ Restart

Spec == Init /\ [][Next]_vars

-----------------------------------------------------------------------------
(* Properties. *)

\* A token of this process's secret is accepted for its lifetime, to the second.
TokenLifetime == A!TokenLifetime

EveryProductStocked == K!EveryProductStocked
PatchesKept         == K!PatchesKept
RestocksAddUp       == K!RestocksAddUp
=============================================================================
