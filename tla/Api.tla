-------------------------------- MODULE Api --------------------------------
(***************************************************************************)
(* The way of a request through the API, as far as it decides what a       *)
(* service may do: the token, the role read from the database, the gate of *)
(* the route, and the outcome (middlewares/auth.middleware.ts,             *)
(* middlewares/role.middleware.ts, utils/jwt.util.ts, the routes and       *)
(* controllers of api/v1).  Accounts, Tasks and Catalogue add the services *)
(* behind the gate, BackOffice puts them together.                         *)
(*                                                                         *)
(* MAuthToken awaits the database; between its read and the first call of  *)
(* the service, other requests run.  A request that the API key, a header, *)
(* the validator or an expired token turns back changes nothing.  The rate *)
(* limiter is RequestQueue's.                                              *)
(***************************************************************************)
EXTENDS Naturals, Sequences

CONSTANTS
  Requests,  \* requests; each is sent once
  Seed,      \* the accounts the seeder makes
  Names,     \* user names as they are stored
  Nothing    \* no token, or a field that is not in the body

Roles == {"user", "admin", "superadmin"}

\* A password is named after the request that chose it; "seed" for others.
Account == [name : Names, role : Roles, password : Requests \cup {"seed"}]

\* What a token says: the account, and its role when it logged in.
Token == [account : Nat \ {0}, role : Roles]

VARIABLES
  accounts,  \* the rows of users, in id order: a sequence of Account
  tokens,    \* the tokens handed out: a set of Token
  requests,  \* what each request's handler holds: [pc, ask, token, role]
  since,     \* history: the roles that the sender of a request has had
             \* since it was sent
  rivals     \* history: the requests that were in flight together with it

api == <<requests, since, rivals>>

\* taken: a UNIQUE column has refused the row.
Ended == {"ok", "failed", "taken"}

\* A handler is idle, sent (on its way to MAuthToken), admitted (past the
\* gate), writing (its service has read and checked what it needs), or ended.
\* ask is what the request asks for; role is req.user.role.
Idle == [pc |-> "idle", ask |-> [kind |-> "nothing"], token |-> Nothing,
         role |-> Nothing]

\* The seeded accounts have logged in.
ApiInit ==
  /\ accounts = Seed
  /\ tokens = {[account |-> i, role |-> Seed[i].role] : i \in 1..Len(Seed)}
  /\ requests = [r \in Requests |-> Idle]
  /\ since = [r \in Requests |-> {}]
  /\ rivals = [r \in Requests |-> {}]

At(r, pc) == requests[r].pc = pc
Kind(r) == requests[r].ask.kind
Ask(r) == requests[r].ask
Sender(r) == requests[r].token.account
InFlight(r) == requests[r].pc \notin Ended \cup {"idle"}
Goto(r, pc) == requests' = [requests EXCEPT ![r].pc = pc]

Meets(r) == [s \in Requests |->
  IF s = r THEN {q \in Requests \ {r} : InFlight(q)}
  ELSE IF InFlight(s) THEN rivals[s] \cup {r} ELSE rivals[s]]

\* A request on a route behind MAuthToken.
Send(r, ask) ==
  /\ At(r, "idle")
  /\ \E k \in tokens :
       /\ requests' = [requests EXCEPT ![r] =
            [pc |-> "sent", ask |-> ask, token |-> k, role |-> Nothing]]
       /\ since' = [since EXCEPT ![r] = {accounts[k.account].role}]
  /\ rivals' = Meets(r)

\* A request on an open route, taken up by its service.
SendOpen(r, ask) ==
  /\ At(r, "idle")
  /\ requests' = [requests EXCEPT ![r] =
       [pc |-> "admitted", ask |-> ask, token |-> Nothing, role |-> Nothing]]
  /\ rivals' = Meets(r)
  /\ UNCHANGED since

\* The gates of the routes.
Permits(role, kind) ==
  CASE kind = "changeRole" -> role = "superadmin"
    [] kind \in {"createProduct", "deleteProduct"} ->
         role \in {"admin", "superadmin"}
    [] OTHER -> TRUE

\* Mutant: the role is taken from the token.
RoleByToken(r) == requests[r].token.role

\* The role of the account as MAuthToken finds it in the database.
RoleNow(r) == accounts[Sender(r)].role

\* MAuthToken, and MCheckRole right after it.
Authenticate(r) ==
  /\ At(r, "sent")
  /\ requests' = [requests EXCEPT
       ![r].pc = IF Permits(RoleNow(r), Kind(r)) THEN "admitted" ELSE "failed",
       ![r].role = RoleNow(r)]
  /\ UNCHANGED <<since, rivals>>

Fails(r) ==
  /\ Goto(r, "failed")
  /\ UNCHANGED <<since, rivals>>

\* MApiKey or MAuthToken turns the request back: a header is missing or
\* wrong, the token has expired, or the database fails.
Rejected(r) == At(r, "sent") /\ Fails(r)

\* The validator of the route turns its body back.
Invalid(r) == At(r, "admitted") /\ Fails(r)

\* The service throws, wherever it is, and MErrorHandler answers.
Aborted(r) == requests[r].pc \in {"admitted", "writing"} /\ Fails(r)

Answer(r, pc) ==
  /\ Goto(r, pc)
  /\ UNCHANGED <<since, rivals>>
=============================================================================
