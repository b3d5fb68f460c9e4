------------------------------ MODULE Accounts ------------------------------
(***************************************************************************)
(* Registration, login and roles (api/v1/auth/auth.service.ts,             *)
(* api/v1/users/users.service.ts).  Accounts are never deleted.            *)
(***************************************************************************)
EXTENDS Api

CONSTANTS
  Spellings,  \* user names as people type them
  Normal      \* Normal[s]: s in lower case and trimmed

ASSUME AccountsAssumption ==
  /\ Normal \in [Spellings -> Names]
  /\ Seed \in Seq(Account) \ {<<>>}

Name(r) == Normal[Ask(r).spelling]

\* findUnique by user name.
NameFree(n) == \A i \in 1..Len(accounts) : accounts[i].name # n

Register(r) ==
  \E s \in Spellings : SendOpen(r, [kind |-> "register", spelling |-> s])

\* SRegisterUser looks the name up.
RegisterRead(r) ==
  /\ At(r, "admitted")
  /\ Kind(r) = "register"
  /\ Answer(r, IF NameFree(Name(r)) THEN "writing" ELSE "failed")
  /\ UNCHANGED <<accounts, tokens>>

\* Mutant: the column is not UNIQUE.
NameNotUnique(n) == TRUE

\* users.username is UNIQUE.
NameUnique(n) == NameFree(n)

\* The account is created with the role "user".
RegisterWrite(r) ==
  /\ At(r, "writing")
  /\ Kind(r) = "register"
  /\ IF NameUnique(Name(r))
       THEN /\ accounts' = Append(accounts,
                 [name |-> Name(r), role |-> "user", password |-> r])
            /\ Answer(r, "ok")
       ELSE /\ Answer(r, "taken")
            /\ UNCHANGED accounts
  /\ UNCHANGED tokens

\* The account that a name and a password open.
Opened(s, password) == {i \in 1..Len(accounts) :
  accounts[i].name = Normal[s] /\ accounts[i].password = password}

\* CLoginUser answers with the token.
LoggedIn(r) ==
  requests' = [requests EXCEPT ![r].pc = "ok", ![r].ask = [kind |-> "login"]]

\* SLoginUser reads once.  The token it signs names the role of that moment.
Login(r) ==
  /\ At(r, "idle")
  /\ \E s \in Spellings, password \in Requests :
       /\ Opened(s, password) # {}
       /\ tokens' = tokens \cup
            {[account |-> i, role |-> accounts[i].role] : i \in Opened(s, password)}
  /\ LoggedIn(r)
  /\ UNCHANGED <<accounts, since, rivals>>

ChangeRole(r) ==
  \E i \in 1..Len(accounts), role \in Roles :
    /\ Send(r, [kind |-> "changeRole", account |-> i, role |-> role])
    /\ UNCHANGED <<accounts, tokens>>

\* SChangeUserRole: the account and the role it reads first are never
\* deleted.  Who asks, and whether anybody is left who may, is not asked.
WriteRole(r) ==
  /\ At(r, "admitted")
  /\ Kind(r) = "changeRole"
  /\ accounts' = [accounts EXCEPT ![Ask(r).account].role = Ask(r).role]
  /\ since' = [q \in Requests |->
       IF InFlight(q) /\ requests[q].token # Nothing /\ Sender(q) = Ask(r).account
         THEN since[q] \cup {Ask(r).role} ELSE since[q]]
  /\ Goto(r, "ok")
  /\ UNCHANGED <<tokens, rivals>>

AccountsStep(r) ==
  \/ Register(r) /\ UNCHANGED <<accounts, tokens>>
  \/ RegisterRead(r) \/ RegisterWrite(r) \/ Login(r)
  \/ ChangeRole(r) \/ WriteRole(r)

-----------------------------------------------------------------------------
\* However registrations of one name race, and however it is spelled, the one
\* that was answered with success has the account: its password opens an
\* account under every spelling of the name, and no other password does.
RegisteredCanLogIn ==
  \A r \in Requests : Kind(r) = "register" /\ At(r, "ok") =>
    \A s \in Spellings : Normal[s] = Name(r) =>
      /\ Opened(s, r) # {}
      /\ \A q \in Requests \ {r} : Opened(s, q) = {}
=============================================================================
