---------------------------------- MODULE Auth ----------------------------------
(***************************************************************************)
(* Access tokens: services/auth.service.js issues them and                 *)
(* middlewares/auth.middleware.js checks them on every admin call.         *)
(*                                                                         *)
(* Nothing is stored: a token is a signed record, here a member of the     *)
(* set of tokens clients hold.  Its seconds are whole ones while the clock *)
(* runs on in between, so clock counts ticks, several to a second.  A      *)
(* login with wrong credentials answers 400 or 401 and issues nothing.     *)
(***************************************************************************)
EXTENDS Naturals, FiniteSets

CONSTANTS
  Roles,           \* the demo users, named by their role
  Secrets,         \* values JWT_SECRET may have
  Unset,           \* JWT_SECRET is not configured
  ExpiresIn,       \* JWT_EXPIRES_IN_SECONDS
  TicksPerSecond,
  MaxClock,        \* bound: ticks a behaviour lasts
  MaxTokens        \* bound: logins a behaviour contains

VARIABLES
  clock,   \* Date.now()
  secret,  \* JWT_SECRET of the running process
  tokens   \* issued so far: [role, exp, key, and the instant of the login]

Now == clock \div TicksPerSecond

Init ==
  /\ clock = 0
  /\ secret \in Secrets \cup {Unset}
  /\ tokens = {}

Tick == clock < MaxClock /\ clock' = clock + 1 /\ UNCHANGED <<secret, tokens>>

Login(role) ==
  /\ secret # Unset
  /\ Cardinality(tokens) < MaxTokens
  /\ tokens' = tokens \cup
       {[role |-> role, exp |-> Now + ExpiresIn, key |-> secret, at |-> clock]}
  /\ UNCHANGED <<clock, secret>>

\* Mutant: a token is good through the second it expires in.
VerifiesTooLong(t) == secret # Unset /\ t.key = secret /\ t.exp >= Now

\* requireAuth: signed with the secret of this process, and not expired.
Verifies(t) == secret # Unset /\ t.key = secret /\ t.exp > Now

\* requireRole("admin")
MayAdminister(t) == Verifies(t) /\ t.role = "admin"

-----------------------------------------------------------------------------
\* A token is accepted for less than expiresIn after its login, and for all of
\* it but the last second, on whichever side of a second the instants fall.
TokenLifetime ==
  \A t \in tokens : t.key = secret =>
    LET age == clock - t.at
    IN  /\ Verifies(t) => age < ExpiresIn * TicksPerSecond
        /\ age <= (ExpiresIn - 1) * TicksPerSecond => Verifies(t)
=============================================================================
