-------------------------- MODULE BackOfficeProofs --------------------------
(***************************************************************************)
(* Theorems about BackOffice, for every set of requests, accounts, names   *)
(* and bodies: RegisteredCanLogIn, EveryChangePermitted, TakenByRival and  *)
(* UndoneOnlyByRivals.                                                     *)
(***************************************************************************)
EXTENDS BackOffice, SequenceTheorems, TLAPS

\* What a request may ask for, as far as a service uses it.
Asking(a) ==
  /\ a.kind = "register" => a.spelling \in Spellings
  /\ a.kind = "changeRole" => a.role \in Roles

Shaped(x) == x = [pc |-> x.pc, ask |-> x.ask, token |-> x.token, role |-> x.role]

RequestTypes ==
  /\ requests = [r \in Requests |-> requests[r]]
  /\ \A r \in Requests : Shaped(requests[r]) /\ Asking(Ask(r))
  /\ since \in [Requests -> SUBSET Roles] /\ rivals \in [Requests -> SUBSET Requests]

AccountTypes ==
  /\ accounts \in Seq(Account)
  /\ \A k \in tokens : k.account \in 1..Len(accounts)

Row(x) == x = [owner |-> x.owner, text |-> x.text, done |-> x.done]

TaskTypes ==
  /\ nextTask \in Nat \ {0} /\ last \in Seq([Fields -> Requests \cup {Nothing}])
  /\ Len(last) = nextTask - 1
  /\ DOMAIN tasks \in SUBSET (1..nextTask - 1)
  /\ tasks = [t \in DOMAIN tasks |-> tasks[t]] /\ \A t \in DOMAIN tasks : Row(tasks[t])
  /\ seen = [r \in Requests |-> seen[r]]
  /\ \A s \in Requests : At(s, "writing") /\ Kind(s) = "updateTask" => Row(seen[s])

Product == [code : Nat, deleted : BOOLEAN]
CatalogueTypes == catalogue \in Seq(Product) /\ drawn \in [Requests -> Nat]

Types == RequestTypes /\ AccountTypes /\ TaskTypes /\ CatalogueTypes

\* Two requests in flight at the same time are rivals.
Together ==
  \A r, s \in Requests : r # s /\ InFlight(r) /\ InFlight(s) => s \in rivals[r]

TypeInv == Types /\ Together

\* The one account of a name that is registered.
HasAccount(r) ==
  \E i \in 1..Len(accounts) :
    /\ accounts[i].name = Name(r) /\ accounts[i].password = r
    /\ \A j \in 1..Len(accounts) : accounts[j].name = Name(r) => j = i

NameInv ==
  \A r \in Requests : Kind(r) = "register" /\ At(r, "ok") => HasAccount(r)

\* The role that a request was judged by is one its sender has had since it
\* was sent.
Signed(r) == requests[r].token # Nothing
Judged(r) ==
  /\ At(r, "idle") => ~Signed(r)
  /\ Signed(r) => Sender(r) \in 1..Len(accounts)
  /\ Signed(r) /\ InFlight(r) => RoleNow(r) \in since[r]
  /\ Signed(r) /\ requests[r].pc \in {"admitted", "writing"} =>
       requests[r].role \in since[r] /\ Permits(requests[r].role, Kind(r))
  /\ Signed(r) /\ At(r, "writing") => requests[r].role \in Entitled(r)
  /\ Signed(r) /\ At(r, "ok") => since[r] \cap Entitled(r) # {}
RoleInv == \A r \in Requests : Judged(r)

\* Codes are given out in order, and a request holds at most the next one.
CodeInv ==
  /\ Len(catalogue) > 0
  /\ \A i \in 1..Len(catalogue) : catalogue[i].code = i
  /\ \A r \in Requests : At(r, "writing") /\ Kind(r) = "createProduct" =>
       drawn[r] \in 1..(Len(catalogue) + 1)

\* What a request found free is free, or a rival has taken it.
SameThing(s, r) ==
  /\ At(s, "ok") /\ Kind(s) = Kind(r)
  /\ Kind(r) = "register" => Name(s) = Name(r)
  /\ Kind(r) = "createProduct" => drawn[s] = drawn[r]
Lost(r) == \E s \in rivals[r] : SameThing(s, r)
Unspent(r) ==
  /\ Kind(r) = "register" => NameFree(Name(r))
  /\ Kind(r) = "createProduct" => ProductCodeUnique(drawn[r])

RaceInv ==
  \A r \in Requests :
    /\ At(r, "writing") /\ Kind(r) \in {"register", "createProduct"} =>
         Unspent(r) \/ Lost(r)
    /\ At(r, "taken") => Lost(r)

\* What an update has read is what the last update wrote, or they are rivals.
Wrote(r, t) == Kind(r) = "updateTask" /\ Ask(r).task = t /\ At(r, "ok")
Undone(r, t) == \E s \in rivals[r] : Wrote(s, t)

LastInv ==
  \A t \in 1..nextTask - 1, f \in Fields :
    LET r == last[t][f] IN r # Nothing => Wrote(r, t) /\ Ask(r).body[f] # Nothing

ReadInv ==
  \A s \in Requests : At(s, "writing") /\ Kind(s) = "updateTask" =>
    \A f \in Fields :
      LET t == Ask(s).task
          r == last[t][f]
      IN t \in DOMAIN tasks /\ r # Nothing =>
           s \in rivals[r] \/ seen[s][f] = Ask(r).body[f] \/ Undone(r, t)

TaskInv == LastInv /\ UndoneOnlyByRivals /\ ReadInv

-----------------------------------------------------------------------------
(* How requests move.                                                      *)

\* Only request r changes, and keeps its shape.
Moves(r) ==
  /\ requests' = [q \in Requests |-> requests'[q]]
  /\ \A q \in Requests : q # r => requests'[q] = requests[q]
  /\ Shaped(requests'[r])

\* r goes on to pc: what it asks for, its token and role stay.
Goes(r, pc) ==
  /\ Moves(r) /\ At(r, pc)' /\ Ask(r)' = Ask(r)
  /\ requests'[r].token = requests[r].token /\ requests'[r].role = requests[r].role

Sends(r) ==
  \E k \in tokens :
    /\ At(r, "idle") /\ Moves(r) /\ At(r, "sent")' /\ requests'[r].token = k
    /\ since' = [since EXCEPT ![r] = {accounts[k.account].role}]
    /\ rivals' = Meets(r)
    /\ Kind(r)' \notin {"register", "login"} /\ Asking(Ask(r)')

Opens(r) ==
  /\ At(r, "idle") /\ Moves(r) /\ At(r, "admitted")' /\ requests'[r].token = Nothing
  /\ since' = since /\ rivals' = Meets(r)
  /\ Kind(r)' = "register" /\ Asking(Ask(r)')

LogsIn(r) ==
  /\ At(r, "idle") /\ Moves(r) /\ At(r, "ok")'
  /\ requests'[r].token = requests[r].token
  /\ since' = since /\ rivals' = rivals
  /\ Kind(r)' = "login" /\ Asking(Ask(r)')

Proceeds(r) ==
  \E p \in {"writing", "failed", "ok", "taken"} :
    /\ requests[r].pc \in {"sent", "admitted", "writing"}
    /\ Goes(r, p) /\ rivals' = rivals

LEMMA ShapedPc ==
  ASSUME NEW x, Shaped(x), NEW p
  PROVE  /\ Shaped([x EXCEPT !.pc = p]) /\ [x EXCEPT !.pc = p].pc = p
         /\ [x EXCEPT !.pc = p].ask = x.ask /\ [x EXCEPT !.pc = p].token = x.token
         /\ [x EXCEPT !.pc = p].role = x.role
  <1> DEFINE y == [pc |-> x.pc, ask |-> x.ask, token |-> x.token, role |-> x.role]
             z == [pc |-> p, ask |-> x.ask, token |-> x.token, role |-> x.role]
  <1>1. x = y /\ [y EXCEPT !.pc = p] = z
    BY DEF Shaped
  <1>2. [x EXCEPT !.pc = p] = z
    BY <1>1
  <1>3. Shaped(z) /\ z.pc = p /\ z.ask = x.ask /\ z.token = x.token /\ z.role = x.role
    BY DEF Shaped
  <1> HIDE DEF z
  <1> QED BY <1>2, <1>3

LEMMA NewShape ==
  ASSUME NEW p, NEW a, NEW k, NEW o
  PROVE  LET z == [pc |-> p, ask |-> a, token |-> k, role |-> o]
         IN  Shaped(z) /\ z.pc = p /\ z.ask = a /\ z.token = k /\ z.role = o
  BY DEF Shaped

\* Writing one request.
LEMMA Write ==
  ASSUME RequestTypes, NEW r \in Requests, NEW x, Shaped(x),
         requests' = [requests EXCEPT ![r] = x]
  PROVE  Moves(r) /\ requests'[r] = x
  BY DEF RequestTypes, Moves

LEMMA GotoEffect ==
  ASSUME RequestTypes, NEW r \in Requests, NEW p, Goto(r, p)
  PROVE  Goes(r, p)
  <1> DEFINE x == [requests[r] EXCEPT !.pc = p]
  <1>1. Shaped(requests[r])
    BY DEF RequestTypes
  <1>2. /\ Shaped(x) /\ x.pc = p /\ x.ask = requests[r].ask
        /\ x.token = requests[r].token /\ x.role = requests[r].role
    BY <1>1, ShapedPc
  <1>3. requests' = [requests EXCEPT ![r] = x]
    BY DEF Goto
  <1> HIDE DEF x
  <1>4. Moves(r) /\ requests'[r] = x
    BY <1>2, <1>3, Write
  <1> QED BY <1>2, <1>4 DEF Goes, At, Ask

LEMMA SendEffect ==
  ASSUME RequestTypes, NEW r \in Requests, NEW a, Asking(a),
         a.kind \notin {"register", "login"}, Send(r, a)
  PROVE  Sends(r) /\ Ask(r)' = a
  <1>1. PICK k \in tokens :
          /\ requests' = [requests EXCEPT ![r] =
               [pc |-> "sent", ask |-> a, token |-> k, role |-> Nothing]]
          /\ since' = [since EXCEPT ![r] = {accounts[k.account].role}]
    BY DEF Send
  <1> DEFINE x == [pc |-> "sent", ask |-> a, token |-> k, role |-> Nothing]
  <1>2. Shaped(x) /\ x.pc = "sent" /\ x.ask = a /\ x.token = k
    BY NewShape
  <1>3. requests' = [requests EXCEPT ![r] = x]
    BY <1>1
  <1> HIDE DEF x
  <1>4. Moves(r) /\ requests'[r] = x
    BY <1>2, <1>3, Write
  <1>5. Ask(r)' = a /\ Kind(r)' = a.kind /\ At(r, "sent")'
    BY <1>2, <1>4 DEF Ask, Kind, At
  <1> QED BY <1>1, <1>2, <1>4, <1>5 DEF Sends, Send

LEMMA ShapedRole ==
  ASSUME NEW x, Shaped(x), NEW o
  PROVE  /\ Shaped([x EXCEPT !.role = o]) /\ [x EXCEPT !.role = o].pc = x.pc
         /\ [x EXCEPT !.role = o].ask = x.ask /\ [x EXCEPT !.role = o].token = x.token
         /\ [x EXCEPT !.role = o].role = o
  <1> DEFINE y == [pc |-> x.pc, ask |-> x.ask, token |-> x.token, role |-> x.role]
             z == [pc |-> x.pc, ask |-> x.ask, token |-> x.token, role |-> o]
  <1>1. x = y /\ [y EXCEPT !.role = o] = z
    BY DEF Shaped
  <1>2. [x EXCEPT !.role = o] = z
    BY <1>1
  <1>3. /\ Shaped(z) /\ z.pc = x.pc /\ z.ask = x.ask /\ z.token = x.token /\ z.role = o
    BY DEF Shaped
  <1> HIDE DEF z
  <1> QED BY <1>2, <1>3

LEMMA AuthenticateEffect ==
  ASSUME RequestTypes, NEW r \in Requests, Authenticate(r)
  PROVE  /\ At(r, "sent") /\ Moves(r) /\ since' = since /\ rivals' = rivals
         /\ \/ At(r, "admitted")' /\ Permits(RoleNow(r), Kind(r))
            \/ At(r, "failed")'
         /\ Ask(r)' = Ask(r) /\ requests'[r].token = requests[r].token
         /\ requests'[r].role = RoleNow(r)
  <1> DEFINE p == IF Permits(RoleNow(r), Kind(r)) THEN "admitted" ELSE "failed"
             y == [requests[r] EXCEPT !.pc = p]
             x == [y EXCEPT !.role = RoleNow(r)]
  <1>1. requests' = [requests EXCEPT ![r] = x]
    BY DEF Authenticate
  <1>2. (p = "admitted" /\ Permits(RoleNow(r), Kind(r))) \/ p = "failed"
    OBVIOUS
  <1>3. Shaped(requests[r])
    BY DEF RequestTypes
  <1> HIDE DEF p
  <1>4. /\ Shaped(y) /\ y.pc = p /\ y.ask = requests[r].ask
        /\ y.token = requests[r].token
    BY <1>3, ShapedPc
  <1> HIDE DEF y
  <1>5. /\ Shaped(x) /\ x.pc = p /\ x.ask = requests[r].ask
        /\ x.token = requests[r].token /\ x.role = RoleNow(r)
    BY <1>4, ShapedRole
  <1> HIDE DEF x
  <1>6. Moves(r) /\ requests'[r] = x
    BY <1>1, <1>5, Write
  <1> QED BY <1>2, <1>5, <1>6 DEF Authenticate, At, Ask

LEMMA LoginEffect ==
  ASSUME RequestTypes, NEW r \in Requests, Login(r)
  PROVE  LogsIn(r)
  <1> DEFINE a == [kind |-> "login"]
             x == [pc |-> "ok", ask |-> a, token |-> requests[r].token,
                   role |-> requests[r].role]
             y == [pc |-> requests[r].pc, ask |-> requests[r].ask,
                   token |-> requests[r].token, role |-> requests[r].role]
  <1>1. Shaped(x) /\ x.pc = "ok" /\ x.ask = a /\ x.token = requests[r].token
    BY NewShape
  <1>2. a.kind = "login" /\ Asking(a)
    BY DEF Asking
  <1> HIDE DEF a
  <1>3. requests[r] = y
    BY DEF RequestTypes, Shaped
  <1>4. requests' = [requests EXCEPT ![r] = [[requests[r] EXCEPT !.pc = "ok"] EXCEPT !.ask = a]]
    BY DEF Login, LoggedIn, a
  <1>5. [[y EXCEPT !.pc = "ok"] EXCEPT !.ask = a] = x
    <2>1. [y EXCEPT !.pc = "ok"] = [pc |-> "ok", ask |-> requests[r].ask,
             token |-> requests[r].token, role |-> requests[r].role]
      OBVIOUS
    <2> DEFINE z == [pc |-> "ok", ask |-> requests[r].ask,
             token |-> requests[r].token, role |-> requests[r].role]
    <2>2. [z EXCEPT !.ask = a] = x
      OBVIOUS
    <2> QED BY <2>1, <2>2
  <1> HIDE DEF x, y
  <1>6. requests' = [requests EXCEPT ![r] = x]
    BY <1>3, <1>4, <1>5
  <1>7. Moves(r) /\ requests'[r] = x
    BY <1>1, <1>6, Write
  <1> QED BY <1>1, <1>2, <1>7 DEF Login, LogsIn, At, Ask, Kind

\* Every step of a request is one of these.
LEMMA StepOutcome ==
  ASSUME RequestTypes, NEW r \in Requests, Step(r)
  PROVE  \/ Sends(r) /\ (ChangeRole(r) \/ CreateTask(r) \/ ChangeTask(r)
                           \/ CreateProduct(r) \/ DeleteProduct(r))
         \/ Opens(r) /\ Register(r)
         \/ LogsIn(r) /\ Login(r)
         \/ Authenticate(r)
         \/ Proceeds(r)
  <1>1. ASSUME ChangeRole(r) PROVE Sends(r)
    <2>1. PICK i \in 1..Len(accounts), role \in Roles :
            Send(r, [kind |-> "changeRole", account |-> i, role |-> role])
      BY <1>1 DEF ChangeRole
    <2>2. Asking([kind |-> "changeRole", account |-> i, role |-> role])
      BY DEF Asking
    <2> QED BY <2>1, <2>2, SendEffect
  <1>2. ASSUME CreateTask(r) PROVE Sends(r)
    <2>1. PICK x \in Texts, d \in BOOLEAN :
            Send(r, [kind |-> "createTask", text |-> x, done |-> d])
      BY <1>2 DEF CreateTask
    <2> DEFINE a == [kind |-> "createTask", text |-> x, done |-> d]
    <2>2. Asking(a) /\ a.kind \notin {"register", "login"}
      BY DEF Asking
    <2> HIDE DEF a
    <2>3. Send(r, a)
      BY <2>1 DEF a
    <2> QED BY <2>2, <2>3, SendEffect
  <1>3. ASSUME ChangeTask(r) PROVE Sends(r)
    <2>1. PICK t \in 1..nextTask - 1 :
            \/ Send(r, [kind |-> "deleteTask", task |-> t])
            \/ \E b \in Bodies : Send(r, [kind |-> "updateTask", task |-> t, body |-> b])
      BY <1>3 DEF ChangeTask
    <2>2. Asking([kind |-> "deleteTask", task |-> t])
      BY DEF Asking
    <2>3. \A b : Asking([kind |-> "updateTask", task |-> t, body |-> b])
      BY DEF Asking
    <2> QED BY <2>1, <2>2, <2>3, SendEffect
  <1>4. ASSUME CreateProduct(r) PROVE Sends(r)
    <2>1. Asking([kind |-> "createProduct"])
      BY DEF Asking
    <2> QED BY <1>4, <2>1, SendEffect DEF CreateProduct
  <1>5. ASSUME DeleteProduct(r) PROVE Sends(r)
    <2>1. PICK i \in 1..Len(catalogue) : Send(r, [kind |-> "deleteProduct", product |-> i])
      BY <1>5 DEF DeleteProduct
    <2>2. Asking([kind |-> "deleteProduct", product |-> i])
      BY DEF Asking
    <2> QED BY <2>1, <2>2, SendEffect
  <1>6. ASSUME Register(r) PROVE Opens(r)
    <2>1. PICK s \in Spellings : SendOpen(r, [kind |-> "register", spelling |-> s])
      BY <1>6 DEF Register
    <2> DEFINE a == [kind |-> "register", spelling |-> s]
               x == [pc |-> "admitted", ask |-> a, token |-> Nothing, role |-> Nothing]
    <2>2. Asking(a) /\ a.kind = "register"
      BY DEF Asking
    <2>3. requests' = [requests EXCEPT ![r] = x]
      BY <2>1 DEF SendOpen
    <2> HIDE DEF a
    <2>4. Shaped(x) /\ x.pc = "admitted" /\ x.ask = a /\ x.token = Nothing
      BY NewShape
    <2> HIDE DEF x
    <2>5. Moves(r) /\ requests'[r] = x
      BY <2>3, <2>4, Write
    <2> QED BY <2>1, <2>2, <2>4, <2>5 DEF SendOpen, Opens, At, Ask, Kind
  <1>7. \A p \in {"writing", "failed", "ok", "taken"} :
          Goto(r, p) /\ requests[r].pc \in {"sent", "admitted", "writing"}
            /\ rivals' = rivals => Proceeds(r)
    BY GotoEffect DEF Proceeds
  <1>8. ASSUME RegisterRead(r) \/ RegisterWrite(r) \/ WriteRole(r) PROVE Proceeds(r)
    BY <1>7, <1>8 DEF RegisterRead, RegisterWrite, WriteRole, At, Answer
  <1>9. ASSUME WriteNewTask(r) \/ ReadTask(r) \/ WriteTask(r) \/ RemoveTask(r) PROVE Proceeds(r)
    BY <1>7, <1>9 DEF WriteNewTask, ReadTask, WriteTask, RemoveTask, At, Answer
  <1>10. ASSUME DrawProductCode(r) \/ WriteProduct(r) \/ RemoveProduct(r) PROVE Proceeds(r)
    BY <1>7, <1>10 DEF DrawProductCode, WriteProduct, RemoveProduct, At, Answer
  <1>11. ASSUME Rejected(r) \/ Invalid(r) \/ Aborted(r) PROVE Proceeds(r)
    BY <1>7, <1>11 DEF Rejected, Invalid, Aborted, At, Fails
  <1> QED
    BY <1>1, <1>2, <1>3, <1>4, <1>5, <1>6, <1>8, <1>9, <1>10, <1>11, LoginEffect
    DEF Step, AccountsStep, TasksStep, CatalogueStep

\* A request that has been sent keeps what it asks for, and its token; once
\* answered it does not move.
LEMMA Motion ==
  ASSUME RequestTypes, NEW r \in Requests, Step(r)
  PROVE  /\ Moves(r)
         /\ \/ At(r, "idle")
            \/ /\ requests[r].pc \in {"sent", "admitted", "writing"}
               /\ Ask(r)' = Ask(r) /\ requests'[r].token = requests[r].token
               /\ rivals' = rivals
               /\ requests'[r].pc \in {"admitted", "writing", "failed", "ok", "taken"}
         /\ \A q \in Requests : q # r =>
              /\ Ask(q)' = Ask(q) /\ Kind(q)' = Kind(q) /\ requests'[q] = requests[q]
              /\ InFlight(q)' = InFlight(q)
  <1>1. Moves(r)
    BY StepOutcome, AuthenticateEffect DEF Sends, Opens, LogsIn, Proceeds, Goes
  <1>2. CASE Sends(r) \/ Opens(r) \/ LogsIn(r)
    BY <1>1, <1>2 DEF Sends, Opens, LogsIn, Moves, Ask, Kind, InFlight
  <1>3. CASE Authenticate(r)
    BY <1>1, <1>3, AuthenticateEffect DEF Moves, Ask, Kind, InFlight, At
  <1>4. CASE Proceeds(r)
    BY <1>1, <1>4 DEF Proceeds, Goes, Moves, Ask, Kind, InFlight, At
  <1> QED BY <1>2, <1>3, <1>4, StepOutcome

LEMMA AccountAt ==
  ASSUME AccountTypes, NEW i \in 1..Len(accounts)
  PROVE  accounts[i] \in Account /\ accounts[i].role \in Roles /\ accounts[i].name \in Names
  <1>1. accounts[i] \in Account
    BY ElementOfSeq DEF AccountTypes
  <1> QED BY <1>1 DEF Account

LEMMA OnlyWriteRole ==
  ASSUME RequestTypes, NEW r \in Requests, Step(r), ~Sends(r), ~WriteRole(r)
  PROVE  since' = since
  <1>1. CASE Opens(r) \/ LogsIn(r) \/ Authenticate(r)
    BY <1>1, AuthenticateEffect DEF Opens, LogsIn
  <1>2. CASE RegisterRead(r) \/ RegisterWrite(r)
    BY <1>2 DEF RegisterRead, RegisterWrite, Answer
  <1>3. CASE WriteNewTask(r) \/ ReadTask(r) \/ WriteTask(r) \/ RemoveTask(r)
    BY <1>3 DEF WriteNewTask, ReadTask, WriteTask, RemoveTask, Answer
  <1>4. CASE DrawProductCode(r) \/ WriteProduct(r) \/ RemoveProduct(r)
    BY <1>4 DEF DrawProductCode, WriteProduct, RemoveProduct, Answer
  <1>5. CASE Rejected(r) \/ Invalid(r) \/ Aborted(r)
    BY <1>5 DEF Rejected, Invalid, Aborted, Fails
  <1>6. CASE ~At(r, "idle")
    BY <1>1, <1>2, <1>3, <1>4, <1>5, <1>6
    DEF Step, AccountsStep, TasksStep, CatalogueStep, Register, SendOpen, Login,
        ChangeRole, CreateTask, ChangeTask, CreateProduct, DeleteProduct, Send
  <1>7. CASE At(r, "idle")
    BY <1>1, <1>7, StepOutcome DEF Proceeds, At
  <1> QED BY <1>6, <1>7

\* The sender's roles are only added to while the request is in flight.
LEMMA SinceChange ==
  ASSUME Types, NEW r \in Requests, Step(r)
  PROVE  /\ since' \in [Requests -> SUBSET Roles]
         /\ \A q \in Requests : q # r \/ ~At(r, "idle") => since[q] \subseteq since'[q]
         /\ Sends(r) => since'[r] = {accounts[requests'[r].token.account].role}
  <1>t. since \in [Requests -> SUBSET Roles]
    BY DEF Types, RequestTypes
  <1>1. CASE Sends(r)
    <2>1. PICK k \in tokens : /\ requests'[r].token = k
                              /\ since' = [since EXCEPT ![r] = {accounts[k.account].role}]
                              /\ At(r, "idle")
      BY <1>1 DEF Sends
    <2>2. accounts[k.account].role \in Roles
      BY AccountAt DEF Types, AccountTypes
    <2> QED BY <1>t, <2>1, <2>2
  <1>2. CASE ~Sends(r) /\ ~WriteRole(r)
    <2>1. since' = since
      BY <1>2, OnlyWriteRole DEF Types
    <2> QED BY <1>t, <1>2, <2>1
  <1>3. CASE WriteRole(r)
    <2>1. Ask(r).role \in Roles /\ ~At(r, "idle") /\ ~Sends(r)
      BY <1>3 DEF WriteRole, Types, RequestTypes, Asking, Kind, Ask, At, Sends
    <2>2. since' = [q \in Requests |->
             IF InFlight(q) /\ requests[q].token # Nothing /\ Sender(q) = Ask(r).account
               THEN since[q] \cup {Ask(r).role} ELSE since[q]]
      BY <1>3 DEF WriteRole
    <2> QED BY <1>t, <2>1, <2>2
  <1> QED BY <1>1, <1>2, <1>3

LEMMA RivalsChange ==
  ASSUME RequestTypes, NEW r \in Requests, Step(r)
  PROVE  /\ rivals' \in [Requests -> SUBSET Requests]
         /\ \A q \in Requests : q # r \/ ~At(r, "idle") => rivals[q] \subseteq rivals'[q]
         /\ Sends(r) \/ Opens(r) => rivals' = Meets(r)
         /\ LogsIn(r) => rivals' = rivals
  <1>t. rivals \in [Requests -> SUBSET Requests]
    BY DEF RequestTypes
  <1>1. CASE rivals' = rivals
    BY <1>1, <1>t DEF Sends, Opens
  <1>2. CASE rivals' = Meets(r) /\ At(r, "idle")
    BY <1>2, <1>t DEF Meets, LogsIn
  <1>3. rivals' = rivals \/ (rivals' = Meets(r) /\ At(r, "idle"))
    <2>1. CASE Sends(r) \/ Opens(r) \/ LogsIn(r)
      BY <2>1 DEF Sends, Opens, LogsIn
    <2>2. CASE Authenticate(r) \/ Proceeds(r)
      BY <2>2, AuthenticateEffect DEF Proceeds
    <2> QED BY <2>1, <2>2, StepOutcome
  <1> QED BY <1>1, <1>2, <1>3 DEF Sends, Opens, LogsIn

LEMMA RequestTypesStep ==
  ASSUME Types, NEW r \in Requests, Step(r)
  PROVE  RequestTypes'
  <1>t. RequestTypes
    BY DEF Types
  <1>1. requests' = [q \in Requests |-> requests'[q]]
    BY <1>t, Motion DEF Moves
  <1>2. \A q \in Requests : Shaped(requests'[q])
    BY <1>t, Motion DEF Moves, RequestTypes
  <1>3. ASSUME NEW q \in Requests PROVE Asking(Ask(q)')
    <2>1. CASE q # r
      BY <1>t, <2>1, Motion DEF RequestTypes
    <2>2. CASE q = r
      <3>1. Asking(Ask(r)') \/ Ask(r)' = Ask(r)
        BY <1>t, StepOutcome, AuthenticateEffect DEF Sends, Opens, LogsIn, Proceeds, Goes
      <3> QED BY <1>t, <2>2, <3>1 DEF RequestTypes
    <2> QED BY <2>1, <2>2
  <1>4. since' \in [Requests -> SUBSET Roles] /\ rivals' \in [Requests -> SUBSET Requests]
    BY <1>t, SinceChange, RivalsChange
  <1> QED BY <1>1, <1>2, <1>3, <1>4 DEF RequestTypes, Shaped, Asking

-----------------------------------------------------------------------------
(* Types.                                                                  *)

\* What becomes of the accounts: one more, or another role for one of them.
LEMMA AccountsChange ==
  ASSUME Types, NEW r \in Requests, Step(r)
  PROVE  \/ UNCHANGED accounts
         \/ /\ RegisterWrite(r) /\ At(r, "ok")' /\ NameFree(Name(r))
            /\ accounts' = Append(accounts, [name |-> Name(r), role |-> "user", password |-> r])
            /\ [name |-> Name(r), role |-> "user", password |-> r] \in Account
         \/ /\ WriteRole(r) /\ Ask(r).role \in Roles
            /\ accounts' = [accounts EXCEPT ![Ask(r).account].role = Ask(r).role]
  <1>1. CASE RegisterWrite(r)
    <2>1. Name(r) \in Names
      BY <1>1, AccountsAssumption
      DEF RegisterWrite, Types, RequestTypes, Asking, Ask, Kind, Name
    <2>2. [name |-> Name(r), role |-> "user", password |-> r] \in Account
      BY <2>1 DEF Account, Roles
    <2>3. \A p : Goto(r, p) => At(r, p)'
      BY GotoEffect DEF Types, Goes
    <2> QED BY <1>1, <2>2, <2>3 DEF RegisterWrite, NameUnique, Answer
  <1>2. CASE WriteRole(r)
    BY <1>2 DEF WriteRole, Types, RequestTypes, Asking, Ask, Kind
  <1>3. CASE ~RegisterWrite(r) /\ ~WriteRole(r)
    BY <1>3 DEF Step, AccountsStep, RegisterRead, Login, ChangeRole
  <1> QED BY <1>1, <1>2, <1>3

\* Rows keep their place, and change nothing but their role.
LEMMA AccountsGrow ==
  ASSUME Types, NEW r \in Requests, Step(r)
  PROVE  /\ accounts' \in Seq(Account) /\ Len(accounts') \in Nat
         /\ Len(accounts) \in Nat /\ Len(accounts) <= Len(accounts')
         /\ \A i \in 1..Len(accounts) : /\ accounts'[i].name = accounts[i].name
                                        /\ accounts'[i].password = accounts[i].password
         /\ ~WriteRole(r) => \A i \in 1..Len(accounts) : accounts'[i] = accounts[i]
         /\ WriteRole(r) => \A i \in 1..Len(accounts) :
              accounts'[i].role = IF i = Ask(r).account THEN Ask(r).role ELSE accounts[i].role
         /\ ~RegisterWrite(r) => Len(accounts') = Len(accounts)
  <1>t. accounts \in Seq(Account) /\ Len(accounts) \in Nat
        /\ \A i \in 1..Len(accounts) : accounts[i] \in Account
    BY LenProperties, ElementOfSeq DEF Types, AccountTypes
  <1>w. RegisterWrite(r) => ~WriteRole(r)
    BY DEF RegisterWrite, WriteRole, At
  <1>1. CASE UNCHANGED accounts
    <2>1. CASE ~WriteRole(r)
      BY <1>1, <1>t, <2>1
    <2>2. CASE WriteRole(r)
      <3>1. \A i \in 1..Len(accounts) : i = Ask(r).account => accounts[i].role = Ask(r).role
        <4>1. accounts' = [accounts EXCEPT ![Ask(r).account].role = Ask(r).role]
          BY <2>2 DEF WriteRole
        <4> QED BY <1>1, <1>t, <4>1 DEF Account
      <3> QED BY <1>1, <1>t, <2>2, <3>1
    <2> QED BY <2>1, <2>2
  <1>2. ASSUME RegisterWrite(r), NEW a \in Account, accounts' = Append(accounts, a)
        PROVE  /\ accounts' \in Seq(Account) /\ Len(accounts') = Len(accounts) + 1
               /\ accounts'[Len(accounts) + 1] = a
               /\ \A i \in 1..Len(accounts) : accounts'[i] = accounts[i]
    BY <1>t, <1>2, AppendProperties
  <1>3. ASSUME WriteRole(r), Ask(r).role \in Roles,
               accounts' = [accounts EXCEPT ![Ask(r).account].role = Ask(r).role]
        PROVE  /\ accounts' \in Seq(Account) /\ Len(accounts') = Len(accounts)
               /\ \A i \in 1..Len(accounts) :
                    /\ accounts'[i].name = accounts[i].name
                    /\ accounts'[i].password = accounts[i].password
                    /\ accounts'[i].role = IF i = Ask(r).account THEN Ask(r).role
                                           ELSE accounts[i].role
    <2> DEFINE n == Ask(r).role
               m == Ask(r).account
    <2>1. \A x \in Account : /\ [x EXCEPT !.role = n] \in Account
                             /\ [x EXCEPT !.role = n].role = n
                             /\ [x EXCEPT !.role = n].name = x.name
                             /\ [x EXCEPT !.role = n].password = x.password
      BY <1>3 DEF Account
    <2>2. accounts' = [accounts EXCEPT ![m] = [accounts[m] EXCEPT !.role = n]]
      BY <1>3
    <2> HIDE DEF m, n
    <2>3. CASE m \in 1..Len(accounts)
      BY <1>t, <2>1, <2>2, <2>3, ExceptSeq, ElementOfSeq DEF n, m
    <2>4. CASE m \notin 1..Len(accounts)
      <3>1. accounts' = accounts
        BY <1>t, <2>2, <2>4, LenProperties
      <3> QED BY <1>t, <2>4, <3>1 DEF m
    <2> QED BY <2>3, <2>4
  <1>4. CASE RegisterWrite(r) /\ ~UNCHANGED accounts
    <2>1. PICK a \in Account : accounts' = Append(accounts, a)
      BY <1>w, <1>4, AccountsChange
    <2>2. /\ accounts' \in Seq(Account) /\ Len(accounts') = Len(accounts) + 1
          /\ \A i \in 1..Len(accounts) : accounts'[i] = accounts[i]
      BY <1>2, <1>4, <2>1
    <2> QED BY <1>t, <1>w, <1>4, <2>2
  <1>5. CASE WriteRole(r) /\ ~UNCHANGED accounts
    <2>1. /\ Ask(r).role \in Roles
          /\ accounts' = [accounts EXCEPT ![Ask(r).account].role = Ask(r).role]
      BY <1>w, <1>5, AccountsChange
    <2>2. /\ accounts' \in Seq(Account) /\ Len(accounts') = Len(accounts)
          /\ \A i \in 1..Len(accounts) :
               /\ accounts'[i].name = accounts[i].name
               /\ accounts'[i].password = accounts[i].password
               /\ accounts'[i].role = IF i = Ask(r).account THEN Ask(r).role
                                      ELSE accounts[i].role
      BY <1>3, <1>5, <2>1
    <2> QED BY <1>t, <1>w, <1>5, <2>2
  <1> QED BY <1>1, <1>4, <1>5, AccountsChange

LEMMA AnswerEffect ==
  ASSUME RequestTypes, NEW r \in Requests, NEW p, Answer(r, p)
  PROVE  /\ Goes(r, p) /\ since' = since /\ rivals' = rivals
         /\ At(r, p)' /\ \A q : At(r, q)' => q = p
  BY GotoEffect DEF Answer, Goes, At

\* Who begins to write has read, and keeps what it found.
LEMMA BeginsToWrite ==
  ASSUME RequestTypes, NEW r \in Requests, Step(r), At(r, "writing")'
  PROVE  /\ Goes(r, "writing") /\ At(r, "admitted")
         /\ since' = since /\ rivals' = rivals
         /\ \/ RegisterRead(r) /\ NameFree(Name(r))
            \/ DrawProductCode(r)
            \/ /\ ReadTask(r) /\ Existing(Ask(r).task) /\ MayChange(r, Ask(r).task)
               /\ seen' = [seen EXCEPT ![r] = tasks[Ask(r).task]]
  <1>a. \A p : Answer(r, p) => p = "writing" /\ Goes(r, p) /\ since' = since /\ rivals' = rivals
    BY AnswerEffect
  <1>1. ASSUME RegisterWrite(r) \/ WriteNewTask(r) \/ WriteTask(r) \/ RemoveTask(r)
                 \/ WriteProduct(r) \/ RemoveProduct(r)
        PROVE FALSE
    BY <1>a, <1>1
    DEF RegisterWrite, WriteNewTask, WriteTask, RemoveTask, WriteProduct, RemoveProduct
  <1>2. ~(Rejected(r) \/ Invalid(r) \/ Aborted(r) \/ WriteRole(r))
    BY GotoEffect DEF Rejected, Invalid, Aborted, Fails, WriteRole, Goes, At
  <1>3. ~(Sends(r) \/ Opens(r) \/ LogsIn(r) \/ Authenticate(r))
    BY AuthenticateEffect DEF Sends, Opens, LogsIn, At
  <1>4. CASE RegisterRead(r)
    BY <1>a, <1>4 DEF RegisterRead
  <1>5. CASE DrawProductCode(r)
    BY <1>a, <1>5 DEF DrawProductCode
  <1>6. CASE ReadTask(r)
    BY <1>a, <1>6 DEF ReadTask
  <1>7. Proceeds(r)
    BY <1>3, StepOutcome
  <1>8. ~At(r, "idle")
    BY <1>7 DEF Proceeds, At
  <1> QED
    BY <1>1, <1>2, <1>3, <1>4, <1>5, <1>6, <1>8
    DEF Step, AccountsStep, TasksStep, CatalogueStep, Register, SendOpen, Login,
        ChangeRole, CreateTask, ChangeTask, CreateProduct, DeleteProduct, Send

\* Who succeeds has written.
LEMMA Succeeds ==
  ASSUME RequestTypes, NEW r \in Requests, Step(r), At(r, "ok")'
  PROVE  \/ Login(r) /\ LogsIn(r)
         \/ /\ Goes(r, "ok") /\ rivals' = rivals /\ ~At(r, "idle")
            /\ \/ WriteRole(r)
               \/ since' = since /\
                  \/ RegisterWrite(r) /\ NameFree(Name(r))
                  \/ WriteNewTask(r) \/ RemoveTask(r) \/ RemoveProduct(r)
                  \/ WriteTask(r) /\ Existing(Ask(r).task)
                  \/ WriteProduct(r) /\ ProductCodeUnique(drawn[r])
  <1>a. \A p : Answer(r, p) => p = "ok" /\ Goes(r, p) /\ since' = since /\ rivals' = rivals
    BY AnswerEffect
  <1>1. ASSUME RegisterRead(r) \/ DrawProductCode(r) \/ ReadTask(r) PROVE FALSE
    BY <1>a, <1>1 DEF RegisterRead, DrawProductCode, ReadTask
  <1>2. ~(Rejected(r) \/ Invalid(r) \/ Aborted(r))
    BY GotoEffect DEF Rejected, Invalid, Aborted, Fails, Goes, At
  <1>3. ~(Sends(r) \/ Opens(r) \/ Authenticate(r))
    BY AuthenticateEffect DEF Sends, Opens, At
  <1>4. CASE WriteRole(r)
    BY <1>4, GotoEffect DEF WriteRole, At
  <1>5. CASE RegisterWrite(r)
    BY <1>a, <1>5 DEF RegisterWrite, NameUnique, At
  <1>6. CASE WriteNewTask(r) \/ RemoveTask(r) \/ RemoveProduct(r)
    BY <1>a, <1>6 DEF WriteNewTask, RemoveTask, RemoveProduct, At
  <1>7. CASE WriteTask(r)
    BY <1>a, <1>7 DEF WriteTask, At
  <1>8. CASE WriteProduct(r)
    BY <1>a, <1>8 DEF WriteProduct, At
  <1>9. CASE Proceeds(r)
    <2>1. ~At(r, "idle")
      BY <1>9 DEF Proceeds, At
    <2> QED
      BY <1>1, <1>2, <1>3, <1>4, <1>5, <1>6, <1>7, <1>8, <2>1
      DEF Step, AccountsStep, TasksStep, CatalogueStep, Register, SendOpen, Login,
          ChangeRole, CreateTask, ChangeTask, CreateProduct, DeleteProduct, Send
  <1> QED BY <1>3, <1>9, StepOutcome

\* Who is told that a name or a code is taken has found it taken.
LEMMA Taken ==
  ASSUME RequestTypes, NEW r \in Requests, Step(r), At(r, "taken")'
  PROVE  /\ Goes(r, "taken") /\ rivals' = rivals /\ At(r, "writing")
         /\ \/ RegisterWrite(r) /\ ~NameFree(Name(r))
            \/ WriteProduct(r) /\ ~ProductCodeUnique(drawn[r])
  <1>a. \A p : Answer(r, p) => p = "taken" /\ Goes(r, p) /\ rivals' = rivals
    BY AnswerEffect
  <1>1. ASSUME \/ RegisterRead(r) \/ DrawProductCode(r) \/ ReadTask(r) \/ WriteNewTask(r)
               \/ WriteTask(r) \/ RemoveTask(r) \/ RemoveProduct(r)
        PROVE FALSE
    BY <1>a, <1>1
    DEF RegisterRead, DrawProductCode, ReadTask, WriteNewTask, WriteTask, RemoveTask, RemoveProduct
  <1>2. ~(Rejected(r) \/ Invalid(r) \/ Aborted(r) \/ WriteRole(r))
    BY GotoEffect DEF Rejected, Invalid, Aborted, Fails, WriteRole, Goes, At
  <1>3. ~(Sends(r) \/ Opens(r) \/ LogsIn(r) \/ Authenticate(r))
    BY AuthenticateEffect DEF Sends, Opens, LogsIn, At
  <1>4. CASE RegisterWrite(r)
    BY <1>a, <1>4 DEF RegisterWrite, NameUnique
  <1>5. CASE WriteProduct(r)
    BY <1>a, <1>5 DEF WriteProduct
  <1>6. ~At(r, "idle")
    BY <1>3, StepOutcome DEF Proceeds, At
  <1> QED
    BY <1>1, <1>2, <1>3, <1>4, <1>5, <1>6
    DEF Step, AccountsStep, TasksStep, CatalogueStep, Register, SendOpen, Login,
        ChangeRole, CreateTask, ChangeTask, CreateProduct, DeleteProduct, Send

LEMMA AccountTypesStep ==
  ASSUME Types, NEW r \in Requests, Step(r)
  PROVE  AccountTypes'
  <1>1. /\ accounts' \in Seq(Account) /\ Len(accounts') \in Nat
        /\ Len(accounts) \in Nat /\ Len(accounts) <= Len(accounts')
    BY AccountsGrow
  <1>2. \A k \in tokens' : k.account \in 1..Len(accounts)
    <2>1. CASE tokens' = tokens
      BY <2>1 DEF Types, AccountTypes
    <2>2. CASE Login(r)
      <3>1. PICK s \in Spellings, password \in Requests :
              tokens' = tokens \cup
                {[account |-> i, role |-> accounts[i].role] : i \in Opened(s, password)}
        BY <2>2 DEF Login
      <3> QED BY <3>1 DEF Opened, Types, AccountTypes
    <2>3. tokens' = tokens \/ Login(r)
      BY DEF Step, AccountsStep, RegisterRead, RegisterWrite, ChangeRole, WriteRole
    <2> QED BY <2>1, <2>2, <2>3
  <1> QED BY <1>1, <1>2 DEF AccountTypes

LEMMA RowExcept ==
  ASSUME NEW b, NEW x, Row(x)
  PROVE  /\ Row(Merged(b, x)) /\ Merged(b, x).owner = x.owner
         /\ Merged(b, x).text = IF b.text = Nothing THEN x.text ELSE b.text
         /\ Merged(b, x).done = IF b.done = Nothing THEN x.done ELSE b.done
  <1> DEFINE u == IF b.text = Nothing THEN x.text ELSE b.text
             v == IF b.done = Nothing THEN x.done ELSE b.done
             w == [owner |-> x.owner, text |-> x.text, done |-> x.done]
             y == [owner |-> x.owner, text |-> u, done |-> x.done]
             z == [owner |-> x.owner, text |-> u, done |-> v]
  <1>1. Merged(b, x) = [[x EXCEPT !.text = IF b.text = Nothing THEN x.text ELSE b.text]
                         EXCEPT !.done = IF b.done = Nothing THEN x.done ELSE b.done]
    <2>1. [w EXCEPT !.text = u].done = x.done
      OBVIOUS
    <2>2. x = w
      BY DEF Row
    <2> HIDE DEF w, u
    <2> DEFINE m == [x EXCEPT !.text = u]
    <2>3. m.done = x.done
      BY <2>1, <2>2
    <2>4. Merged(b, x) = [x EXCEPT !.text = IF b.text = Nothing THEN x.text ELSE b.text,
                                   !.done = IF b.done = Nothing THEN x.done ELSE b.done]
      BY <2>3 DEF Merged, m, u
    <2> QED BY <2>4
  <1>2. x = w
    BY DEF Row
  <1>3. Row(z) /\ z.owner = x.owner /\ z.text = u /\ z.done = v
    BY DEF Row
  <1>4. [w EXCEPT !.text = u] = y
    OBVIOUS
  <1>5. [y EXCEPT !.done = v] = z
    OBVIOUS
  <1>6. Merged(b, x) = [[w EXCEPT !.text = u] EXCEPT !.done = v]
    BY <1>1, <1>2
  <1>7. Merged(b, x) = z
    BY <1>4, <1>5, <1>6
  <1> HIDE DEF z
  <1> QED BY <1>3, <1>7

\* What becomes of the tasks.
LEMMA TasksChange ==
  ASSUME NEW r \in Requests, Step(r)
  PROVE  \/ UNCHANGED taskVars
         \/ WriteNewTask(r) \/ ReadTask(r) \/ WriteTask(r) \/ RemoveTask(r)
  BY DEF Step, TasksStep

\* What an update is about to write back is a row.
LEMMA SeenRows ==
  ASSUME Types, NEW r \in Requests, Step(r)
  PROVE  /\ seen' = [q \in Requests |-> seen'[q]]
         /\ \A q \in Requests : At(q, "writing")' /\ Kind(q)' = "updateTask" => Row(seen'[q])
         /\ \A q \in Requests : q # r => seen'[q] = seen[q]
         /\ ~ReadTask(r) => seen' = seen
  <1>t. /\ RequestTypes /\ seen = [q \in Requests |-> seen[q]]
        /\ \A t \in DOMAIN tasks : Row(tasks[t])
        /\ \A q \in Requests : At(q, "writing") /\ Kind(q) = "updateTask" => Row(seen[q])
    BY DEF Types, TaskTypes
  <1>1. ~ReadTask(r) => seen' = seen
    BY TasksChange DEF taskVars, WriteNewTask, WriteTask, RemoveTask
  <1>2. seen' = seen \/ seen' = [seen EXCEPT ![r] = tasks[Ask(r).task]]
    BY <1>1 DEF ReadTask
  <1>3. seen' = [q \in Requests |-> seen'[q]] /\ \A q \in Requests : q # r => seen'[q] = seen[q]
    BY <1>t, <1>2
  <1>4. ASSUME NEW q \in Requests, At(q, "writing")', Kind(q)' = "updateTask"
        PROVE Row(seen'[q])
    <2>1. CASE q # r
      BY <1>3, <1>4, <1>t, <2>1, Motion DEF At
    <2>2. CASE q = r
      <3>1. Goes(r, "writing")
            /\ \/ RegisterRead(r) \/ DrawProductCode(r)
               \/ /\ Existing(Ask(r).task)
                  /\ seen' = [seen EXCEPT ![r] = tasks[Ask(r).task]]
        BY <1>4, <1>t, <2>2, BeginsToWrite
      <3>2. Kind(r) = "updateTask"
        BY <1>4, <2>2, <3>1 DEF Goes, Kind, Ask
      <3>3. seen'[r] = tasks[Ask(r).task] /\ Ask(r).task \in DOMAIN tasks
        BY <1>t, <3>1, <3>2 DEF RegisterRead, DrawProductCode, Existing
      <3> QED BY <1>t, <2>2, <3>3
    <2> QED BY <2>1, <2>2
  <1> QED BY <1>1, <1>3, <1>4

LEMMA TaskTypesStep ==
  ASSUME Types, NEW r \in Requests, Step(r)
  PROVE  TaskTypes'
  <1> DEFINE L == [Fields -> Requests \cup {Nothing}]
  <1>t. /\ nextTask \in Nat \ {0} /\ last \in Seq(L) /\ Len(last) = nextTask - 1
        /\ DOMAIN tasks \in SUBSET (1..nextTask - 1)
        /\ tasks = [t \in DOMAIN tasks |-> tasks[t]] /\ \A t \in DOMAIN tasks : Row(tasks[t])
        /\ seen = [q \in Requests |-> seen[q]]
        /\ \A q \in Requests : At(q, "writing") /\ Kind(q) = "updateTask" => Row(seen[q])
    BY DEF Types, TaskTypes
  <1>s. /\ seen' = [q \in Requests |-> seen'[q]]
        /\ \A q \in Requests : At(q, "writing")' /\ Kind(q)' = "updateTask" => Row(seen'[q])
    BY SeenRows
  <1>n. NoUpdate \in L
    BY DEF NoUpdate
  <1>1. CASE UNCHANGED taskVars
    BY <1>1, <1>t, <1>s DEF taskVars, TaskTypes, Row
  <1>2. CASE WriteNewTask(r)
    <2> DEFINE x == [owner |-> Sender(r), text |-> Ask(r).text, done |-> Ask(r).done]
    <2>1. Row(x)
      BY DEF Row
    <2> HIDE DEF x
    <2>2. /\ tasks' = [t \in DOMAIN tasks \cup {nextTask} |-> IF t = nextTask THEN x ELSE tasks[t]]
          /\ last' = Append(last, NoUpdate) /\ nextTask' = nextTask + 1 /\ seen' = seen
      BY <1>2 DEF WriteNewTask, x
    <2>3. DOMAIN tasks' = DOMAIN tasks \cup {nextTask} /\ \A t \in DOMAIN tasks' : Row(tasks'[t])
      BY <1>t, <2>1, <2>2
    <2>4. tasks' = [t \in DOMAIN tasks' |-> tasks'[t]]
      BY <2>2
    <2>5. last' \in Seq(L) /\ Len(last') = Len(last) + 1
      BY <1>t, <1>n, <2>2, AppendProperties
    <2>6. DOMAIN tasks' \in SUBSET (1..nextTask' - 1)
      BY <1>t, <2>2, <2>3
    <2>7. nextTask' \in Nat \ {0} /\ Len(last') = nextTask' - 1
      BY <1>t, <2>2, <2>5
    <2>8. \A t \in DOMAIN tasks' : Row(tasks'[t])
      BY <2>3
    <2> QED BY <1>s, <2>4, <2>5, <2>6, <2>7, <2>8 DEF TaskTypes, Row
  <1>3. CASE ReadTask(r)
    <2>1. UNCHANGED <<tasks, nextTask, last>>
      BY <1>3 DEF ReadTask
    <2>2. seen' = seen \/ seen' = [seen EXCEPT ![r] = tasks[Ask(r).task]]
      BY <1>3 DEF ReadTask
    <2>3. seen' = [q \in Requests |-> seen'[q]]
      BY <1>t, <2>2
    <2> QED BY <1>t, <1>s, <2>1, <2>3 DEF TaskTypes, Row
  <1>5. CASE RemoveTask(r)
    <2>1. UNCHANGED <<nextTask, seen, last>>
      BY <1>5 DEF RemoveTask
    <2>2. tasks' = tasks \/ tasks' = [t \in DOMAIN tasks \ {Ask(r).task} |-> tasks[t]]
      BY <1>5 DEF RemoveTask
    <2>3. /\ tasks' = [t \in DOMAIN tasks' |-> tasks'[t]] /\ \A t \in DOMAIN tasks' : Row(tasks'[t])
          /\ DOMAIN tasks' \subseteq DOMAIN tasks
      BY <1>t, <2>2
    <2> QED BY <1>t, <1>s, <2>1, <2>3 DEF TaskTypes, Row
  <1>4. CASE WriteTask(r)
    <2> DEFINE t == Ask(r).task
               b == Ask(r).body
               x == Merged(b, seen[r])
               l == [f \in Fields |-> IF b[f] = Nothing THEN last[t][f] ELSE r]
    <2>1. nextTask' = nextTask /\ seen' = seen
      BY <1>4 DEF WriteTask
    <2>2. CASE UNCHANGED <<tasks, last>>
      BY <1>t, <1>s, <2>1, <2>2 DEF TaskTypes, Row
    <2>3. CASE ~UNCHANGED <<tasks, last>>
      <3>1. /\ tasks' = [tasks EXCEPT ![t] = x] /\ last' = [last EXCEPT ![t] = l]
            /\ t \in DOMAIN tasks
        BY <1>4, <2>3 DEF WriteTask, Existing
      <3>2. l \in L
        <4>1. t \in 1..Len(last)
          BY <1>t, <3>1
        <4>2. last[t] \in L
          BY <1>t, <4>1, ElementOfSeq
        <4> QED BY <4>2
      <3>3. Row(x)
        BY <1>4, <1>t, RowExcept DEF WriteTask
      <3> HIDE DEF t, x, l, L
      <3>4. last' \in Seq(L) /\ Len(last') = Len(last)
        BY <1>t, <3>1, <3>2, ExceptSeq
      <3>5. /\ tasks' = [u \in DOMAIN tasks' |-> tasks'[u]] /\ DOMAIN tasks' = DOMAIN tasks
            /\ \A u \in DOMAIN tasks' : Row(tasks'[u])
        BY <1>t, <3>1, <3>3
      <3> QED BY <1>t, <1>s, <2>1, <3>4, <3>5 DEF TaskTypes, Row, L
    <2> QED BY <2>2, <2>3
  <1> QED
    BY <1>1, <1>2, <1>3, <1>4, <1>5, TasksChange

\* What becomes of the products: rows are only added, and keep their code.
LEMMA CatalogueGrows ==
  ASSUME Types, NEW r \in Requests, Step(r)
  PROVE  /\ catalogue' \in Seq(Product) /\ Len(catalogue') \in Nat /\ Len(catalogue) \in Nat
         /\ \A i \in 1..Len(catalogue) : catalogue'[i].code = catalogue[i].code
         /\ \/ Len(catalogue') = Len(catalogue)
            \/ /\ WriteProduct(r) /\ ProductCodeUnique(drawn[r]) /\ At(r, "ok")'
               /\ Len(catalogue') = Len(catalogue) + 1
               /\ catalogue'[Len(catalogue) + 1].code = drawn[r]
         /\ WriteProduct(r) /\ At(r, "ok")' => Len(catalogue') = Len(catalogue) + 1
  <1>t. /\ RequestTypes /\ catalogue \in Seq(Product) /\ drawn \in [Requests -> Nat]
        /\ Len(catalogue) \in Nat /\ \A i \in 1..Len(catalogue) : catalogue[i] \in Product
    BY LenProperties, ElementOfSeq DEF Types, CatalogueTypes
  <1>1. CASE WriteProduct(r)
    <2>1. CASE ~ProductCodeUnique(drawn[r])
      <3>1. catalogue' = catalogue /\ Answer(r, "taken")
        BY <1>1, <2>1 DEF WriteProduct
      <3>2. ~At(r, "ok")'
        BY <1>t, <3>1, AnswerEffect
      <3> QED BY <1>t, <3>1, <3>2
    <2>2. CASE ProductCodeUnique(drawn[r])
      <3> DEFINE a == [code |-> drawn[r], deleted |-> FALSE]
      <3>1. a \in Product /\ a.code = drawn[r]
        BY <1>t DEF Product
      <3>2. catalogue' = Append(catalogue, a) /\ Answer(r, "ok")
        BY <1>1, <2>2 DEF WriteProduct
      <3> HIDE DEF a
      <3>3. /\ catalogue' \in Seq(Product) /\ Len(catalogue') = Len(catalogue) + 1
            /\ catalogue'[Len(catalogue) + 1] = a
            /\ \A i \in 1..Len(catalogue) : catalogue'[i] = catalogue[i]
        BY <1>t, <3>1, <3>2, AppendProperties
      <3>4. At(r, "ok")'
        BY <1>t, <3>2, AnswerEffect
      <3> QED BY <1>1, <1>t, <2>2, <3>1, <3>3, <3>4
    <2> QED BY <2>1, <2>2
  <1>2. CASE RemoveProduct(r) /\ ~UNCHANGED catalogue
    <2> DEFINE m == Ask(r).product
    <2>1. catalogue' = [catalogue EXCEPT ![m] = [catalogue[m] EXCEPT !.deleted = TRUE]]
      BY <1>2 DEF RemoveProduct
    <2>2. \A x \in Product : /\ [x EXCEPT !.deleted = TRUE] \in Product
                             /\ [x EXCEPT !.deleted = TRUE].code = x.code
      BY DEF Product
    <2>n. ~WriteProduct(r)
      BY <1>2 DEF WriteProduct, RemoveProduct, At
    <2> HIDE DEF m
    <2>3. CASE m \in 1..Len(catalogue)
      <3> DEFINE y == [catalogue[m] EXCEPT !.deleted = TRUE]
      <3>1. y \in Product /\ y.code = catalogue[m].code
        BY <1>t, <2>2, <2>3
      <3>2. catalogue' = [catalogue EXCEPT ![m] = y]
        BY <2>1
      <3> HIDE DEF y
      <3>3. /\ catalogue' \in Seq(Product) /\ Len(catalogue') = Len(catalogue)
            /\ \A i \in 1..Len(catalogue) : catalogue'[i] = IF i = m THEN y ELSE catalogue[i]
        BY <1>t, <2>3, <3>1, <3>2, ExceptSeq
      <3>4. \A i \in 1..Len(catalogue) : catalogue'[i].code = catalogue[i].code
        BY <3>1, <3>3
      <3> QED BY <1>t, <2>n, <3>3, <3>4
    <2>4. CASE m \notin 1..Len(catalogue)
      <3>1. catalogue' = catalogue
        BY <1>t, <2>1, <2>4, LenProperties
      <3> QED BY <1>t, <2>n, <3>1
    <2> QED BY <2>3, <2>4
  <1>3. CASE ~WriteProduct(r) /\ UNCHANGED catalogue
    BY <1>3, <1>t
  <1>4. WriteProduct(r) \/ RemoveProduct(r) \/ UNCHANGED catalogue
    BY DEF Step, CatalogueStep, catalogueVars, DrawProductCode
  <1> QED BY <1>1, <1>2, <1>3, <1>4 DEF WriteProduct, RemoveProduct, At

LEMMA DrawnChange ==
  ASSUME Types, NEW r \in Requests, Step(r)
  PROVE  /\ drawn' \in [Requests -> Nat]
         /\ \A q \in Requests : q # r => drawn'[q] = drawn[q]
         /\ DrawProductCode(r) => drawn'[r] = NextProductCode /\ catalogue' = catalogue
         /\ ~DrawProductCode(r) => drawn' = drawn
         /\ NextProductCode \in Nat
  <1>t. /\ catalogue \in Seq(Product) /\ drawn \in [Requests -> Nat]
        /\ Len(catalogue) \in Nat /\ \A i \in 1..Len(catalogue) : catalogue[i] \in Product
    BY LenProperties, ElementOfSeq DEF Types, CatalogueTypes
  <1>1. NextProductCode \in Nat
    <2>1. CASE catalogue = <<>>
      BY <2>1 DEF NextProductCode
    <2>2. CASE catalogue # <<>>
      <3>1. catalogue[Len(catalogue)] \in Product
        BY <1>t, <2>2, EmptySeq
      <3> QED BY <2>2, <3>1 DEF NextProductCode, Product
    <2> QED BY <2>1, <2>2
  <1>2. CASE DrawProductCode(r)
    BY <1>1, <1>2, <1>t DEF DrawProductCode
  <1>3. CASE ~DrawProductCode(r)
    <2>1. drawn' = drawn
      BY <1>3 DEF Step, CatalogueStep, catalogueVars, WriteProduct, RemoveProduct
    <2> QED BY <1>1, <1>3, <1>t, <2>1
  <1> QED BY <1>2, <1>3

LEMMA TogetherStep ==
  ASSUME TypeInv, NEW r \in Requests, Step(r)
  PROVE  Together'
  <1> SUFFICES ASSUME NEW p \in Requests, NEW q \in Requests, p # q,
                      InFlight(p)', InFlight(q)'
               PROVE  q \in rivals'[p]
    BY DEF Together
  <1>t. RequestTypes /\ Types
    BY DEF TypeInv, Types
  <1>1. CASE r \notin {p, q} \/ ~At(r, "idle")
    <2>1. InFlight(p) /\ InFlight(q)
      BY <1>1, <1>t, Motion DEF InFlight, Ended
    <2>2. q \in rivals[p]
      BY <2>1 DEF TypeInv, Together
    <2>3. rivals[p] \subseteq rivals'[p]
      BY <1>1, <1>t, RivalsChange
    <2> QED BY <2>2, <2>3
  <1>2. CASE r \in {p, q} /\ At(r, "idle")
    <2>1. Sends(r) \/ Opens(r)
      BY <1>2, <1>t, StepOutcome, AuthenticateEffect DEF LogsIn, Proceeds, InFlight, Ended, At
    <2>2. rivals' = Meets(r)
      BY <1>t, <2>1, RivalsChange
    <2>3. \A s \in Requests : s # r => InFlight(s)' = InFlight(s)
      BY <1>t, Motion
    <2> QED BY <1>2, <2>2, <2>3 DEF Meets
  <1> QED BY <1>1, <1>2

LEMMA InitTypes ==
  ASSUME Init
  PROVE  TypeInv
  <1> USE DEF Init
  <1>1. RequestTypes /\ Together
    <2>1. requests = [r \in Requests |-> Idle]
      BY DEF ApiInit
    <2>2. Shaped(Idle) /\ Idle.pc = "idle" /\ Idle.ask = [kind |-> "nothing"]
      BY NewShape DEF Idle
    <2>3. Asking([kind |-> "nothing"])
      BY DEF Asking
    <2>4. RequestTypes
      BY <2>1, <2>2, <2>3 DEF ApiInit, RequestTypes, Ask
    <2>5. Together
      BY <2>1, <2>2 DEF Together, InFlight
    <2> QED BY <2>4, <2>5
  <1>2. AccountTypes
    BY AccountsAssumption DEF ApiInit, AccountTypes
  <1>3. TaskTypes
    <2>1. NoUpdate \in [Fields -> Requests \cup {Nothing}]
      BY DEF NoUpdate
    <2>2. last = [t \in 1..1 |-> NoUpdate] /\ nextTask = 2
      <3>1. 1..1 = {1}
        OBVIOUS
      <3> QED BY <3>1 DEF TasksInit
    <2> HIDE DEF Init
    <2>3. last \in Seq([Fields -> Requests \cup {Nothing}]) /\ Len(last) = 1
      BY <2>1, <2>2
    <2>4. /\ DOMAIN tasks = {1} /\ tasks = [t \in DOMAIN tasks |-> tasks[t]]
          /\ \A t \in DOMAIN tasks : Row(tasks[t])
      BY DEF Init, TasksInit, Row
    <2>5. seen = [r \in Requests |-> seen[r]]
      BY DEF Init, TasksInit
    <2>6. \A r \in Requests : ~At(r, "writing")
      BY DEF Init, ApiInit, Idle, At
    <2> QED BY <2>2, <2>3, <2>4, <2>5, <2>6 DEF TaskTypes
  <1>4. CatalogueTypes
    BY DEF CatalogueInit, CatalogueTypes, Product
  <1> QED BY <1>1, <1>2, <1>3, <1>4 DEF TypeInv, Types

LEMMA TypeInvStep ==
  ASSUME TypeInv, [Next]_vars
  PROVE  TypeInv'
  <1>1. ASSUME NEW r \in Requests, Step(r) PROVE TypeInv'
    <2>1. CatalogueTypes'
      BY <1>1, CatalogueGrows, DrawnChange DEF TypeInv, CatalogueTypes
    <2> QED
      BY <1>1, <2>1, RequestTypesStep, AccountTypesStep, TaskTypesStep, TogetherStep
      DEF TypeInv, Types
  <1>2. CASE UNCHANGED vars
    <2>1. UNCHANGED requests /\ UNCHANGED since /\ UNCHANGED rivals
          /\ UNCHANGED accounts /\ UNCHANGED tokens
      BY <1>2 DEF vars, api
    <2>2. RequestTypes' /\ Together'
      BY <2>1 DEF TypeInv, Types, RequestTypes, Together, Shaped, Asking, Ask, InFlight
    <2>3. AccountTypes'
      BY <2>1 DEF TypeInv, Types, AccountTypes
    <2>4. TaskTypes'
      BY <1>2, <2>1 DEF vars, taskVars, TypeInv, Types, TaskTypes, Row, At, Kind
    <2>5. CatalogueTypes'
      BY <1>2 DEF vars, catalogueVars, TypeInv, Types, CatalogueTypes
    <2> QED BY <2>2, <2>3, <2>4, <2>5 DEF TypeInv, Types
  <1> QED BY <1>1, <1>2 DEF Next

-----------------------------------------------------------------------------
(* Registration.                                                           *)

\* The account that a registration adds.
LEMMA NewAccount ==
  ASSUME Types, NEW r \in Requests, Step(r), RegisterWrite(r), NameFree(Name(r))
  PROVE  /\ Len(accounts') = Len(accounts) + 1
         /\ accounts'[Len(accounts) + 1] = [name |-> Name(r), role |-> "user", password |-> r]
         /\ \A i \in 1..Len(accounts) : accounts'[i] = accounts[i]
  <1>1. accounts' = Append(accounts, [name |-> Name(r), role |-> "user", password |-> r])
    BY DEF RegisterWrite, NameUnique
  <1>2. accounts \in Seq(Account)
    BY DEF Types, AccountTypes
  <1>3. [name |-> Name(r), role |-> "user", password |-> r] \in Account
    <2>1. Name(r) \in Names
      BY AccountsAssumption DEF RegisterWrite, Types, RequestTypes, Asking, Ask, Kind, Name
    <2> QED BY <2>1 DEF Account, Roles
  <1> DEFINE a == [name |-> Name(r), role |-> "user", password |-> r]
  <1> HIDE DEF a
  <1>4. accounts' = Append(accounts, a) /\ a \in Account
    BY <1>1, <1>3 DEF a
  <1>5. /\ Len(accounts') = Len(accounts) + 1 /\ accounts'[Len(accounts) + 1] = a
        /\ \A i \in 1..Len(accounts) : accounts'[i] = accounts[i]
    BY <1>2, <1>4, AppendProperties
  <1> QED BY <1>5 DEF a

LEMMA AccountKept ==
  ASSUME Types, NEW r \in Requests, Step(r), NEW p \in Requests, HasAccount(p),
         Ask(p)' = Ask(p)
  PROVE  HasAccount(p)'
  <1>n. Name(p)' = Name(p)
    BY DEF Name
  <1>g. /\ Len(accounts') \in Nat /\ Len(accounts) \in Nat /\ Len(accounts) <= Len(accounts')
        /\ \A i \in 1..Len(accounts) : /\ accounts'[i].name = accounts[i].name
                                       /\ accounts'[i].password = accounts[i].password
        /\ ~RegisterWrite(r) => Len(accounts') = Len(accounts)
    BY AccountsGrow
  <1>1. PICK i \in 1..Len(accounts) :
          /\ accounts[i].name = Name(p) /\ accounts[i].password = p
          /\ \A j \in 1..Len(accounts) : accounts[j].name = Name(p) => j = i
    BY DEF HasAccount
  <1>2. i \in 1..Len(accounts') /\ accounts'[i].name = Name(p) /\ accounts'[i].password = p
    BY <1>1, <1>g
  <1>3. ASSUME NEW j \in 1..Len(accounts'), accounts'[j].name = Name(p) PROVE j = i
    <2>1. CASE j <= Len(accounts)
      BY <1>1, <1>3, <1>g, <2>1
    <2>2. CASE j > Len(accounts)
      <3>1. RegisterWrite(r)
        BY <1>g, <2>2
      <3>2. NameFree(Name(r))
        BY <1>g, <2>2, <3>1 DEF RegisterWrite, NameUnique
      <3>n. /\ Len(accounts') = Len(accounts) + 1
            /\ accounts'[Len(accounts) + 1] = [name |-> Name(r), role |-> "user", password |-> r]
        BY <3>1, <3>2, NewAccount
      <3>3. j = Len(accounts) + 1 /\ accounts'[j].name = Name(r)
        BY <1>g, <2>2, <3>n
      <3>4. Name(r) # Name(p)
        BY <1>1, <3>2 DEF NameFree
      <3> QED BY <1>3, <3>3, <3>4
    <2> QED BY <1>g, <2>1, <2>2
  <1> QED BY <1>n, <1>2, <1>3 DEF HasAccount

LEMMA NameInvStep ==
  ASSUME TypeInv, NameInv, [Next]_vars
  PROVE  NameInv'
  <1>1. ASSUME NEW r \in Requests, Step(r), NEW p \in Requests,
               Kind(p)' = "register", At(p, "ok")'
        PROVE  HasAccount(p)'
    <2>t. Types /\ RequestTypes
      BY DEF TypeInv, Types
    <2>1. CASE p # r
      <3>1. Ask(p)' = Ask(p) /\ Kind(p) = "register" /\ At(p, "ok")
        BY <1>1, <2>t, <2>1, Motion DEF At
      <3> QED BY <1>1, <2>t, <3>1, AccountKept DEF NameInv
    <2>2. CASE p = r
      <3>1. \/ Login(r) /\ LogsIn(r)
            \/ /\ Goes(r, "ok")
               /\ \/ RegisterWrite(r) /\ NameFree(Name(r))
                  \/ WriteRole(r)
                  \/ WriteNewTask(r) \/ RemoveTask(r) \/ RemoveProduct(r)
                  \/ WriteTask(r) \/ WriteProduct(r)
        BY <1>1, <2>t, <2>2, Succeeds
      <3>2. ~LogsIn(r)
        BY <1>1, <2>2 DEF LogsIn
      <3>3. Ask(r)' = Ask(r) /\ Kind(r) = "register"
        BY <1>1, <2>2, <3>1, <3>2 DEF Goes, Kind, Ask
      <3>4. RegisterWrite(r) /\ NameFree(Name(r))
        BY <3>1, <3>2, <3>3
        DEF WriteRole, WriteNewTask, RemoveTask, RemoveProduct, WriteTask, WriteProduct
      <3>5. /\ Len(accounts') = Len(accounts) + 1
            /\ accounts'[Len(accounts) + 1] = [name |-> Name(r), role |-> "user", password |-> r]
            /\ \A i \in 1..Len(accounts) : accounts'[i] = accounts[i]
        BY <1>1, <2>t, <3>4, NewAccount
      <3>6. Name(r)' = Name(r) /\ Len(accounts) \in Nat
        BY <1>1, <2>t, <3>3, AccountsGrow DEF Name
      <3> DEFINE n == Len(accounts) + 1
      <3>7. n \in 1..Len(accounts') /\ accounts'[n].name = Name(r) /\ accounts'[n].password = r
        BY <3>5, <3>6
      <3>8. \A j \in 1..Len(accounts') : accounts'[j].name = Name(r) => j = n
        BY <3>4, <3>5, <3>6 DEF NameFree
      <3> QED BY <2>2, <3>6, <3>7, <3>8 DEF HasAccount
    <2> QED BY <2>1, <2>2
  <1>2. CASE UNCHANGED vars
    BY <1>2 DEF vars, api, NameInv, HasAccount, Kind, At, Name, Ask
  <1> QED BY <1>1, <1>2 DEF Next, NameInv

LEMMA TypesHold == Spec => []TypeInv
  BY InitTypes, TypeInvStep, PTL DEF Spec

\* Whoever was told that their registration succeeded can log in under every
\* spelling of the name, with their own password only: SRegisterUser's lookup
\* and insert, raced by any number of registrations and role changes.
THEOREM RegisteredLogIn == Spec => []RegisteredCanLogIn
  <1>1. Init => NameInv
    BY DEF Init, ApiInit, Idle, NameInv, At
  <1>2. TypeInv /\ NameInv => RegisteredCanLogIn
    <2> SUFFICES ASSUME NameInv, NEW r \in Requests, Kind(r) = "register", At(r, "ok"),
                        NEW s \in Spellings, Normal[s] = Name(r)
                 PROVE  Opened(s, r) # {} /\ \A q \in Requests \ {r} : Opened(s, q) = {}
      BY DEF RegisteredCanLogIn
    <2>1. HasAccount(r)
      BY DEF NameInv
    <2> QED BY <2>1 DEF HasAccount, Opened
  <1> QED BY <1>1, <1>2, TypesHold, NameInvStep, PTL DEF Spec

-----------------------------------------------------------------------------
(* Roles.                                                                  *)

\* The role of an account only changes when somebody changes it.
LEMMA RoleNowStep ==
  ASSUME Types, NEW r \in Requests, Step(r), NEW p \in Requests,
         Sender(p) \in 1..Len(accounts), Sender(p)' = Sender(p)
  PROVE  /\ Sender(p)' \in 1..Len(accounts')
         /\ RoleNow(p)' = IF WriteRole(r) /\ Sender(p) = Ask(r).account
                            THEN Ask(r).role ELSE RoleNow(p)
  <1>1. /\ Len(accounts') \in Nat /\ Len(accounts) \in Nat /\ Len(accounts) <= Len(accounts')
        /\ ~WriteRole(r) => \A i \in 1..Len(accounts) : accounts'[i] = accounts[i]
        /\ WriteRole(r) => \A i \in 1..Len(accounts) :
             accounts'[i].role = IF i = Ask(r).account THEN Ask(r).role ELSE accounts[i].role
    BY AccountsGrow
  <1>2. RoleNow(p)' = accounts'[Sender(p)].role
    BY DEF RoleNow
  <1>3. RoleNow(p) = accounts[Sender(p)].role
    BY DEF RoleNow
  <1>4. CASE WriteRole(r)
    BY <1>1, <1>2, <1>3, <1>4
  <1>5. CASE ~WriteRole(r)
    BY <1>1, <1>2, <1>3, <1>5
  <1>6. Sender(p)' \in 1..Len(accounts')
    BY <1>1
  <1> QED BY <1>4, <1>5, <1>6

\* Others go on being judged by roles they have had.
LEMMA OthersJudged ==
  ASSUME TypeInv, NEW r \in Requests, Step(r), NEW p \in Requests, p # r, Judged(p)
  PROVE  Judged(p)'
  <1>t. Types /\ RequestTypes
    BY DEF TypeInv, Types
  <1>1. requests'[p] = requests[p] /\ seen'[p] = seen[p] /\ since[p] \subseteq since'[p]
    BY <1>t, Motion, SeenRows, SinceChange
  <1>2. /\ Signed(p)' = Signed(p) /\ InFlight(p)' = InFlight(p) /\ Kind(p)' = Kind(p)
        /\ Sender(p)' = Sender(p) /\ Entitled(p)' = Entitled(p)
        /\ \A pc : At(p, pc)' = At(p, pc)
    BY <1>1 DEF Signed, InFlight, Kind, Sender, Entitled, At
  <1>3. ASSUME Signed(p) PROVE Sender(p)' \in 1..Len(accounts')
    BY <1>2, <1>3, <1>t, RoleNowStep DEF Judged
  <1>4. ASSUME Signed(p), InFlight(p) PROVE RoleNow(p)' \in since'[p]
    <2>1. RoleNow(p)' = IF WriteRole(r) /\ Sender(p) = Ask(r).account
                          THEN Ask(r).role ELSE RoleNow(p)
      BY <1>2, <1>4, <1>t, RoleNowStep DEF Judged
    <2>2. RoleNow(p) \in since[p]
      BY <1>4 DEF Judged
    <2>3. WriteRole(r) /\ Sender(p) = Ask(r).account => Ask(r).role \in since'[p]
      BY <1>4 DEF WriteRole, Signed
    <2> QED BY <1>1, <2>1, <2>2, <2>3
  <1>5. requests[p].pc = requests'[p].pc /\ requests[p].role = requests'[p].role
    BY <1>1
  <1> QED BY <1>1, <1>2, <1>3, <1>4, <1>5 DEF Judged

\* Whom MAuthToken lets pass has the role it read.
LEMMA StepperJudged ==
  ASSUME TypeInv, NEW r \in Requests, Step(r), Judged(r)
  PROVE  Judged(r)'
  <1>t. Types /\ RequestTypes
    BY DEF TypeInv, Types
  <1>1. CASE Sends(r)
    <2>1. PICK k \in tokens : /\ requests'[r].token = k /\ At(r, "idle") /\ At(r, "sent")'
                              /\ since' = [since EXCEPT ![r] = {accounts[k.account].role}]
      BY <1>1 DEF Sends
    <2>2. accounts' = accounts
      BY <1>t, <2>1, AccountsChange DEF RegisterWrite, WriteRole, At
    <2>3. Sender(r)' = k.account /\ k.account \in 1..Len(accounts)
      BY <2>1 DEF Sender, TypeInv, Types, AccountTypes
    <2>4. RoleNow(r)' \in since'[r]
      BY <2>1, <2>2, <2>3 DEF RoleNow, TypeInv, Types, RequestTypes
    <2>5. Sender(r)' \in 1..Len(accounts')
      BY <2>2, <2>3
    <2>6. requests'[r].pc = "sent"
      BY <2>1 DEF At
    <2> QED BY <2>4, <2>5, <2>6 DEF Judged, At
  <1>2. CASE Opens(r) \/ LogsIn(r)
    <2>1. ~Signed(r)' /\ ~At(r, "idle")'
      BY <1>2 DEF Opens, LogsIn, Signed, At, Judged
    <2> QED BY <2>1 DEF Judged
  <1>3. ASSUME ~At(r, "idle"), Signed(r), Sender(r)' = Sender(r)
        PROVE  /\ Sender(r)' \in 1..Len(accounts')
               /\ InFlight(r) /\ ~WriteRole(r) => RoleNow(r)' \in since[r]
    BY <1>3, <1>t, RoleNowStep DEF Judged
  <1>4. CASE Authenticate(r)
    <2>1. /\ At(r, "sent") /\ since' = since
          /\ \/ At(r, "admitted")' /\ Permits(RoleNow(r), Kind(r))
             \/ At(r, "failed")'
          /\ Kind(r)' = Kind(r) /\ requests'[r].token = requests[r].token
          /\ requests'[r].role = RoleNow(r)
      BY <1>4, <1>t, AuthenticateEffect DEF Kind, Ask
    <2>2. Sender(r)' = Sender(r) /\ Signed(r)' = Signed(r) /\ InFlight(r) /\ ~At(r, "idle")
      BY <2>1 DEF Sender, Signed, InFlight, Ended, At
    <2>3. ~WriteRole(r)
      BY <2>1 DEF WriteRole, At
    <2>4. Signed(r) => RoleNow(r) \in since[r]
      BY <2>2 DEF Judged
    <2>5. requests'[r].pc \in {"admitted", "failed"}
      BY <2>1 DEF At
    <2> QED BY <1>3, <2>1, <2>2, <2>3, <2>4, <2>5 DEF Judged, At, InFlight, Ended
  <1>5. CASE Proceeds(r)
    <2>1. PICK pc \in {"writing", "failed", "ok", "taken"} :
            requests[r].pc \in {"sent", "admitted", "writing"} /\ Goes(r, pc)
      BY <1>5 DEF Proceeds
    <2>2. /\ Sender(r)' = Sender(r) /\ Signed(r)' = Signed(r) /\ Kind(r)' = Kind(r)
          /\ InFlight(r) /\ ~At(r, "idle") /\ requests'[r].pc = pc
          /\ requests'[r].role = requests[r].role
      BY <2>1 DEF Sender, Signed, InFlight, Ended, At, Goes, Kind, Ask
    <2>p. since[r] \subseteq since'[r] /\ since[r] \subseteq Roles
      BY <1>t, <2>2, SinceChange DEF RequestTypes
    <2>3. CASE ~Signed(r) \/ pc \in {"failed", "taken"}
      BY <1>3, <2>2, <2>3 DEF Judged, At, InFlight, Ended
    <2>4. CASE Signed(r) /\ pc = "writing"
      <3>1. /\ At(r, "admitted") /\ since' = since
            /\ \/ RegisterRead(r) \/ DrawProductCode(r)
               \/ /\ MayChange(r, Ask(r).task)
                  /\ seen' = [seen EXCEPT ![r] = tasks[Ask(r).task]]
        BY <1>t, <2>2, <2>4, BeginsToWrite DEF At
      <3>2. requests[r].role \in since[r] /\ Permits(requests[r].role, Kind(r))
        BY <2>4, <3>1 DEF Judged, At
      <3>3. Kind(r) \in {"updateTask", "deleteTask"} =>
              requests[r].role = "superadmin" \/ seen'[r].owner = Sender(r)
        BY <1>t, <3>1 DEF RegisterRead, DrawProductCode, MayChange, Types, TaskTypes
      <3>4. requests[r].role \in Entitled(r)'
        BY <2>2, <2>p, <3>2, <3>3 DEF Entitled
      <3>5. ~WriteRole(r)
        BY <2>1, <2>4, GotoEffect, <1>t DEF WriteRole, Goes, At
      <3> QED BY <1>3, <2>2, <2>4, <3>1, <3>2, <3>4, <3>5 DEF Judged, At
    <2>5. CASE Signed(r) /\ pc = "ok"
      <3>1. \/ Login(r) \/ WriteRole(r) \/ RegisterWrite(r) \/ WriteNewTask(r)
            \/ RemoveTask(r) \/ RemoveProduct(r) \/ WriteTask(r) \/ WriteProduct(r)
        BY <1>t, <2>2, <2>5, Succeeds DEF At
      <3>2. CASE WriteRole(r) \/ WriteNewTask(r) \/ RemoveProduct(r)
        <4>1. At(r, "admitted") /\ Kind(r) \notin {"updateTask", "deleteTask"}
          BY <3>2 DEF WriteRole, WriteNewTask, RemoveProduct
        <4>2. requests[r].role \in since[r] /\ Permits(requests[r].role, Kind(r))
          BY <2>5, <4>1 DEF Judged, At
        <4>3. requests[r].role \in Entitled(r)'
          BY <2>2, <2>p, <4>1, <4>2 DEF Entitled
        <4> QED BY <1>3, <2>2, <2>5, <2>p, <4>2, <4>3 DEF Judged, At, InFlight, Ended
      <3>3. CASE RegisterWrite(r) \/ RemoveTask(r) \/ WriteTask(r) \/ WriteProduct(r)
        <4>1. At(r, "writing") /\ ~ReadTask(r)
          BY <3>3 DEF RegisterWrite, RemoveTask, WriteTask, WriteProduct, ReadTask, At
        <4>2. requests[r].role \in since[r] /\ requests[r].role \in Entitled(r)
          BY <2>5, <4>1 DEF Judged, At
        <4>3. seen'[r] = seen[r]
          BY <1>t, <4>1, SeenRows
        <4>4. requests[r].role \in Entitled(r)'
          BY <2>2, <4>2, <4>3 DEF Entitled
        <4> QED BY <1>3, <2>2, <2>5, <2>p, <4>2, <4>4 DEF Judged, At, InFlight, Ended
      <3> QED BY <2>2, <3>1, <3>2, <3>3 DEF Login
    <2> QED BY <2>3, <2>4, <2>5
  <1> QED BY <1>t, <1>1, <1>2, <1>4, <1>5, StepOutcome

LEMMA RoleInvStep ==
  ASSUME TypeInv, RoleInv, [Next]_vars
  PROVE  RoleInv'
  <1>1. ASSUME NEW r \in Requests, Step(r) PROVE RoleInv'
    BY <1>1, OthersJudged, StepperJudged DEF RoleInv
  <1>2. CASE UNCHANGED vars
    BY <1>2
    DEF vars, api, taskVars, RoleInv, Judged, At, Signed, Sender, InFlight, RoleNow,
        Kind, Ask, Entitled
  <1> QED BY <1>1, <1>2 DEF Next

\* Every change was permitted by a role its sender has had since it was sent:
\* MAuthToken reads the role from the database, and the services judge by what
\* it read, whatever the token says and whoever changes roles meanwhile.
THEOREM ChangesArePermitted == Spec => []EveryChangePermitted
  <1>1. Init => RoleInv
    <2> SUFFICES ASSUME Init, NEW r \in Requests PROVE Judged(r)
      BY DEF RoleInv
    <2>1. requests[r].pc = "idle" /\ requests[r].token = Nothing
      BY DEF Init, ApiInit, Idle
    <2> QED BY <2>1 DEF Judged, Signed, At, InFlight
  <1>2. RoleInv => EveryChangePermitted
    BY DEF RoleInv, Judged, Signed, EveryChangePermitted
  <1> QED BY <1>1, <1>2, TypesHold, RoleInvStep, PTL DEF Spec

-----------------------------------------------------------------------------
(* Names and codes that are taken.                                         *)

LEMMA CodeInvStep ==
  ASSUME TypeInv, CodeInv, [Next]_vars
  PROVE  CodeInv'
  <1>1. ASSUME NEW r \in Requests, Step(r) PROVE CodeInv'
    <2>t. Types /\ RequestTypes /\ drawn \in [Requests -> Nat]
      BY DEF TypeInv, Types, CatalogueTypes
    <2>g. /\ Len(catalogue') \in Nat /\ Len(catalogue) \in Nat
          /\ \A i \in 1..Len(catalogue) : catalogue'[i].code = catalogue[i].code
          /\ \/ Len(catalogue') = Len(catalogue)
             \/ /\ WriteProduct(r) /\ ProductCodeUnique(drawn[r])
                /\ Len(catalogue') = Len(catalogue) + 1
                /\ catalogue'[Len(catalogue) + 1].code = drawn[r]
      BY <1>1, <2>t, CatalogueGrows
    <2>1. ASSUME WriteProduct(r), ProductCodeUnique(drawn[r])
          PROVE  drawn[r] = Len(catalogue) + 1
      <3>1. drawn[r] \in 1..(Len(catalogue) + 1)
        BY <1>1, <2>1 DEF WriteProduct, CodeInv
      <3>2. drawn[r] \notin 1..Len(catalogue)
        BY <2>1 DEF ProductCodeUnique, CodeInv
      <3> QED BY <2>g, <3>1, <3>2
    <2>2. Len(catalogue') > 0 /\ \A i \in 1..Len(catalogue') : catalogue'[i].code = i
      BY <2>g, <2>1 DEF CodeInv
    <2>3. ASSUME NEW p \in Requests, At(p, "writing")', Kind(p)' = "createProduct"
          PROVE  drawn'[p] \in 1..(Len(catalogue') + 1)
      <3>1. CASE p # r
        <4>1. At(p, "writing") /\ Kind(p) = "createProduct" /\ drawn'[p] = drawn[p]
          BY <1>1, <2>3, <2>t, <3>1, Motion, DrawnChange DEF At
        <4> QED BY <2>g, <4>1 DEF CodeInv
      <3>2. CASE p = r
        <4>1. Goes(r, "writing") /\ (RegisterRead(r) \/ DrawProductCode(r) \/ ReadTask(r))
          BY <1>1, <2>3, <2>t, <3>2, BeginsToWrite
        <4>2. Kind(r) = "createProduct"
          BY <2>3, <3>2, <4>1 DEF Goes, Kind, Ask
        <4>3. DrawProductCode(r)
          BY <4>1, <4>2 DEF RegisterRead, ReadTask
        <4>4. drawn'[r] = NextProductCode
          BY <1>1, <2>t, <4>3, DrawnChange
        <4>5. NextProductCode = Len(catalogue) + 1
          <5>1. Len(catalogue) > 0 /\ catalogue # <<>>
            BY <2>t, EmptySeq DEF CodeInv, Types, CatalogueTypes
          <5> QED BY <2>g, <5>1 DEF NextProductCode, CodeInv
        <4> QED BY <2>g, <3>2, <4>4, <4>5
      <3> QED BY <3>1, <3>2
    <2> QED BY <2>2, <2>3 DEF CodeInv
  <1>2. CASE UNCHANGED vars
    BY <1>2 DEF vars, api, catalogueVars, CodeInv, At, Kind
  <1> QED BY <1>1, <1>2 DEF Next

\* What a rival has taken stays taken by it.
LEMMA LostStays ==
  ASSUME TypeInv, NEW r \in Requests, Step(r), NEW p \in Requests, Lost(p),
         ~At(p, "idle"), p # r \/ ~DrawProductCode(r)
  PROVE  Lost(p)'
  <1>t. Types /\ RequestTypes /\ rivals \in [Requests -> SUBSET Requests]
    BY DEF TypeInv, Types, RequestTypes
  <1>1. PICK s \in rivals[p] : SameThing(s, p)
    BY DEF Lost
  <1>2. s \in Requests /\ s # r
    BY <1>1, <1>t, Motion DEF SameThing, At
  <1>3. requests'[s] = requests[s] /\ drawn'[s] = drawn[s]
    BY <1>2, <1>t, Motion, DrawnChange
  <1>4. Ask(p)' = Ask(p) /\ drawn'[p] = drawn[p]
    BY <1>t, Motion, DrawnChange DEF At
  <1>5. s \in rivals'[p]
    BY <1>1, <1>t, RivalsChange
  <1>6. SameThing(s, p)'
    BY <1>1, <1>3, <1>4 DEF SameThing, At, Kind, Ask, Name
  <1> QED BY <1>5, <1>6 DEF Lost

\* What was found free stays free, unless the step takes it.
LEMMA UnspentStep ==
  ASSUME TypeInv, NEW r \in Requests, Step(r), NEW p \in Requests, p # r,
         Unspent(p), At(p, "writing"), Kind(p) \in {"register", "createProduct"}
  PROVE  Unspent(p)' \/ Lost(p)'
  <1>t. Types /\ RequestTypes
    BY DEF TypeInv, Types
  <1>1. Ask(p)' = Ask(p) /\ Kind(p)' = Kind(p) /\ drawn'[p] = drawn[p] /\ Name(p)' = Name(p)
    BY <1>t, Motion, DrawnChange DEF Name
  <1>r. ASSUME At(r, "writing") PROVE r \in rivals'[p]
    <2>1. InFlight(r) /\ InFlight(p)
      BY <1>r DEF InFlight, Ended, At
    <2>2. r \in rivals[p]
      BY <2>1 DEF TypeInv, Together
    <2> QED BY <1>t, <2>2, RivalsChange
  <1>2. CASE Kind(p) = "register"
    <2>g. /\ Len(accounts') \in Nat /\ Len(accounts) \in Nat /\ Len(accounts) <= Len(accounts')
          /\ \A i \in 1..Len(accounts) : accounts'[i].name = accounts[i].name
          /\ ~RegisterWrite(r) => Len(accounts') = Len(accounts)
      BY <1>t, AccountsGrow
    <2>f. NameFree(Name(p))
      BY <1>2 DEF Unspent
    <2>1. CASE Len(accounts') = Len(accounts)
      <3>1. NameFree(Name(p))'
        BY <1>1, <2>1, <2>f, <2>g DEF NameFree
      <3> QED BY <1>1, <1>2, <3>1 DEF Unspent
    <2>2. CASE RegisterWrite(r) /\ Len(accounts') # Len(accounts)
      <3>1. NameFree(Name(r)) /\ Answer(r, "ok") /\ At(r, "writing") /\ Kind(r) = "register"
        BY <2>2 DEF RegisterWrite, NameUnique
      <3>2. Goes(r, "ok") /\ At(r, "ok")'
        BY <1>t, <3>1, AnswerEffect
      <3>3. /\ Len(accounts') = Len(accounts) + 1
            /\ accounts'[Len(accounts) + 1].name = Name(r)
        <4>1. /\ Len(accounts') = Len(accounts) + 1
              /\ accounts'[Len(accounts) + 1] =
                   [name |-> Name(r), role |-> "user", password |-> r]
          BY <1>t, <2>2, <3>1, NewAccount
        <4> QED BY <4>1
      <3>4. CASE Name(r) = Name(p)
        <4>1. SameThing(r, p)'
          BY <1>1, <1>2, <3>1, <3>2, <3>4 DEF SameThing, Goes, Kind, Ask, Name
        <4> QED BY <1>r, <3>1, <4>1 DEF Lost
      <3>5. CASE Name(r) # Name(p)
        <4>1. NameFree(Name(p))'
          BY <1>1, <2>f, <2>g, <3>3, <3>5 DEF NameFree
        <4> QED BY <1>1, <1>2, <4>1 DEF Unspent
      <3> QED BY <3>4, <3>5
    <2> QED BY <2>g, <2>1, <2>2
  <1>3. CASE Kind(p) = "createProduct"
    <2>g. /\ Len(catalogue') \in Nat /\ Len(catalogue) \in Nat
          /\ \A i \in 1..Len(catalogue) : catalogue'[i].code = catalogue[i].code
          /\ \/ Len(catalogue') = Len(catalogue)
             \/ /\ WriteProduct(r) /\ At(r, "ok")'
                /\ Len(catalogue') = Len(catalogue) + 1
                /\ catalogue'[Len(catalogue) + 1].code = drawn[r]
      BY <1>t, CatalogueGrows
    <2>f. ProductCodeUnique(drawn[p])
      BY <1>3 DEF Unspent
    <2>1. CASE Len(catalogue') = Len(catalogue)
      <3>1. ProductCodeUnique(drawn[p])'
        BY <1>1, <2>1, <2>f, <2>g DEF ProductCodeUnique
      <3> QED BY <1>1, <1>3, <3>1 DEF Unspent
    <2>2. CASE WriteProduct(r) /\ Len(catalogue') # Len(catalogue)
      <3>1. At(r, "writing") /\ Kind(r) = "createProduct" /\ drawn'[r] = drawn[r] /\ At(r, "ok")'
        BY <2>2, <2>g DEF WriteProduct
      <3>2. Kind(r)' = Kind(r)
        BY <1>t, <3>1, Motion DEF At, Kind, Ask
      <3>4. CASE drawn[r] = drawn[p]
        <4>1. SameThing(r, p)'
          BY <1>1, <1>3, <3>1, <3>2, <3>4 DEF SameThing
        <4> QED BY <1>r, <3>1, <4>1 DEF Lost
      <3>5. CASE drawn[r] # drawn[p]
        <4>1. ProductCodeUnique(drawn[p])'
          BY <1>1, <2>2, <2>f, <2>g, <3>5 DEF ProductCodeUnique
        <4> QED BY <1>1, <1>3, <4>1 DEF Unspent
      <3> QED BY <3>4, <3>5
    <2> QED BY <2>g, <2>1, <2>2
  <1> QED BY <1>2, <1>3

LEMMA RaceInvStep ==
  ASSUME TypeInv, CodeInv, RaceInv, [Next]_vars
  PROVE  RaceInv'
  <1>1. ASSUME NEW r \in Requests, Step(r) PROVE RaceInv'
    <2>t. Types /\ RequestTypes
      BY DEF TypeInv, Types
    <2>1. ASSUME NEW p \in Requests, At(p, "writing")', Kind(p)' \in {"register", "createProduct"}
          PROVE  Unspent(p)' \/ Lost(p)'
      <3>1. CASE p # r
        <4>1. At(p, "writing") /\ Kind(p) \in {"register", "createProduct"} /\ ~At(p, "idle")
          BY <1>1, <2>1, <2>t, <3>1, Motion DEF At
        <4> QED BY <1>1, <3>1, <4>1, LostStays, UnspentStep DEF RaceInv
      <3>2. CASE p = r
        <4>1. /\ Goes(r, "writing")
              /\ \/ RegisterRead(r) /\ NameFree(Name(r))
                 \/ DrawProductCode(r) \/ ReadTask(r)
          BY <1>1, <2>1, <2>t, <3>2, BeginsToWrite
        <4>2. Kind(r)' = Kind(r) /\ Name(r)' = Name(r)
          BY <4>1 DEF Goes, Kind, Ask, Name
        <4>3. CASE RegisterRead(r) /\ NameFree(Name(r))
          <5>1. NameFree(Name(r))' /\ Kind(r)' = "register"
            BY <4>2, <4>3 DEF RegisterRead, NameFree
          <5> QED BY <3>2, <5>1 DEF Unspent
        <4>4. CASE DrawProductCode(r)
          <5>1. /\ drawn'[r] = NextProductCode /\ catalogue' = catalogue
                /\ Kind(r)' = "createProduct"
            BY <1>1, <2>t, <4>2, <4>4, DrawnChange DEF DrawProductCode
          <5>2. Len(catalogue) \in Nat /\ Len(catalogue) > 0 /\ catalogue # <<>>
            BY <2>t, EmptySeq, LenProperties DEF CodeInv, Types, CatalogueTypes
          <5>3. NextProductCode = Len(catalogue) + 1
            BY <5>2 DEF NextProductCode, CodeInv
          <5>4. ProductCodeUnique(drawn[r])'
            BY <5>1, <5>2, <5>3 DEF ProductCodeUnique, CodeInv
          <5> QED BY <3>2, <5>1, <5>4 DEF Unspent
        <4>5. CASE ReadTask(r)
          BY <2>1, <3>2, <4>2, <4>5 DEF ReadTask
        <4> QED BY <4>1, <4>3, <4>4, <4>5
      <3> QED BY <3>1, <3>2
    <2>2. ASSUME NEW p \in Requests, At(p, "taken")' PROVE Lost(p)'
      <3>1. CASE p # r
        <4>1. At(p, "taken") /\ ~At(p, "idle")
          BY <1>1, <2>2, <2>t, <3>1, Motion DEF At
        <4> QED BY <1>1, <3>1, <4>1, LostStays DEF RaceInv
      <3>2. CASE p = r
        <4>1. /\ At(r, "writing")
              /\ \/ RegisterWrite(r) /\ ~NameFree(Name(r))
                 \/ WriteProduct(r) /\ ~ProductCodeUnique(drawn[r])
          BY <1>1, <2>2, <2>t, <3>2, Taken
        <4>2. Kind(r) \in {"register", "createProduct"} /\ ~Unspent(r)
          BY <4>1 DEF RegisterWrite, WriteProduct, Unspent
        <4>3. Lost(r) /\ ~At(r, "idle") /\ ~DrawProductCode(r)
          BY <1>1, <4>1, <4>2 DEF RaceInv, DrawProductCode, At
        <4> QED BY <1>1, <3>2, <4>3, LostStays
      <3> QED BY <3>1, <3>2
    <2> QED BY <2>1, <2>2 DEF RaceInv
  <1>2. CASE UNCHANGED vars
    BY <1>2
    DEF vars, api, catalogueVars, RaceInv, Unspent, Lost, SameThing, NameFree,
        ProductCodeUnique, At, Kind, Ask, Name
  <1> QED BY <1>1, <1>2 DEF Next

\* A name or a code that was found free is refused as taken only because a
\* request in flight at the same time took it: the UNIQUE columns behind
\* SRegisterUser and generateProductCode.
THEOREM TakenOnlyByRivals == Spec => []TakenByRival
  <1>1. Init => CodeInv /\ RaceInv
    <2> SUFFICES ASSUME Init PROVE CodeInv /\ RaceInv
      OBVIOUS
    <2>1. \A r \in Requests : requests[r].pc = "idle"
      BY DEF Init, ApiInit, Idle
    <2>2. Len(catalogue) = 1 /\ catalogue[1].code = 1
      BY DEF Init, CatalogueInit
    <2> HIDE DEF Init
    <2> QED BY <2>1, <2>2 DEF CodeInv, RaceInv, At
  <1>2. RaceInv => TakenByRival
    BY DEF RaceInv, Lost, SameThing, TakenByRival
  <1> QED BY <1>1, <1>2, TypesHold, CodeInvStep, RaceInvStep, PTL DEF Spec

-----------------------------------------------------------------------------
(* Tasks.                                                                  *)

\* The last update of a field is the one before, none, or the one that writes.
LEMMA LastChange ==
  ASSUME TypeInv, NEW r \in Requests, Step(r), NEW t \in 1..nextTask' - 1, NEW f \in Fields
  PROVE  \/ /\ t \in 1..nextTask - 1 /\ last'[t][f] = last[t][f]
            /\ ~(WriteTask(r) /\ At(r, "ok")' /\ t = Ask(r).task /\ Ask(r).body[f] # Nothing)
         \/ t = nextTask /\ last'[t][f] = Nothing
         \/ /\ WriteTask(r) /\ At(r, "ok")' /\ t = Ask(r).task /\ Existing(t)
            /\ Ask(r).body[f] # Nothing /\ last'[t][f] = r
  <1> DEFINE L == [Fields -> Requests \cup {Nothing}]
  <1>t. /\ RequestTypes /\ nextTask \in Nat \ {0} /\ last \in Seq(L) /\ Len(last) = nextTask - 1
        /\ DOMAIN tasks \subseteq 1..nextTask - 1
    BY DEF TypeInv, Types, TaskTypes
  <1>1. CASE WriteNewTask(r)
    <2>1. last' = Append(last, NoUpdate) /\ nextTask' = nextTask + 1
      BY <1>1 DEF WriteNewTask
    <2>2. NoUpdate \in L /\ NoUpdate[f] = Nothing
      BY DEF NoUpdate
    <2>3. last'[nextTask] = NoUpdate /\ \A i \in 1..nextTask - 1 : last'[i] = last[i]
      BY <1>t, <2>1, <2>2, AppendProperties
    <2>4. ~WriteTask(r)
      BY <1>1 DEF WriteNewTask, WriteTask, At
    <2> QED BY <1>t, <2>1, <2>2, <2>3, <2>4
  <1>2. CASE WriteTask(r) /\ Existing(Ask(r).task)
    <2> DEFINE u == Ask(r).task
               b == Ask(r).body
               l == [g \in Fields |-> IF b[g] = Nothing THEN last[u][g] ELSE r]
    <2>1. Existing(u) /\ last' = [last EXCEPT ![u] = l] /\ Answer(r, "ok") /\ nextTask' = nextTask
      BY <1>2 DEF WriteTask
    <2>2. u \in 1..Len(last) /\ u \in 1..nextTask - 1
      BY <1>t, <2>1 DEF Existing
    <2>3. l \in L
      <3>1. last[u] \in L
        BY <1>t, <2>2, ElementOfSeq
      <3> QED BY <3>1
    <2>l. l[f] = IF b[f] = Nothing THEN last[u][f] ELSE r
      OBVIOUS
    <2> HIDE DEF l
    <2>4. \A i \in 1..Len(last) : last'[i] = IF i = u THEN l ELSE last[i]
      BY <1>t, <2>1, <2>2, <2>3, ExceptSeq
    <2>5. At(r, "ok")'
      BY <1>t, <2>1, AnswerEffect
    <2>6. t \in 1..nextTask - 1 /\ t \in 1..Len(last)
      BY <1>t, <2>1
    <2>7. CASE t = u
      <3>1. last'[t][f] = IF b[f] = Nothing THEN last[t][f] ELSE r
        BY <2>4, <2>6, <2>7, <2>l
      <3> QED BY <1>2, <2>1, <2>5, <2>6, <2>7, <3>1
    <2>8. CASE t # u
      BY <2>4, <2>6, <2>8
    <2> QED BY <2>7, <2>8
  <1>3. CASE WriteTask(r) /\ ~Existing(Ask(r).task)
    <2>1. last' = last /\ nextTask' = nextTask /\ Answer(r, "failed")
      BY <1>3 DEF WriteTask
    <2>2. ~At(r, "ok")'
      BY <1>t, <2>1, AnswerEffect
    <2> QED BY <2>1, <2>2
  <1>4. CASE last' = last /\ nextTask' = nextTask /\ ~WriteTask(r)
    BY <1>4
  <1>5. WriteNewTask(r) \/ WriteTask(r) \/ (last' = last /\ nextTask' = nextTask)
    BY TasksChange DEF taskVars, ReadTask, RemoveTask
  <1> QED BY <1>1, <1>2, <1>3, <1>4, <1>5

\* What has been written stays written, and what is undone stays undone.
LEMMA WroteStays ==
  ASSUME TypeInv, NEW r \in Requests, Step(r), NEW p \in Requests, NEW t, Wrote(p, t)
  PROVE  /\ Wrote(p, t)' /\ p # r /\ Ask(p)' = Ask(p) /\ rivals[p] \subseteq rivals'[p]
         /\ Undone(p, t) => Undone(p, t)'
  <1>t. RequestTypes /\ rivals \in [Requests -> SUBSET Requests]
    BY DEF TypeInv, Types, RequestTypes
  <1>1. \A q \in Requests : Wrote(q, t) => q # r /\ Wrote(q, t)' /\ requests'[q] = requests[q]
    BY <1>t, Motion DEF Wrote, At, Kind, Ask
  <1>2. rivals[p] \subseteq rivals'[p]
    BY <1>1, <1>t, RivalsChange
  <1>3. Undone(p, t) => Undone(p, t)'
    BY <1>1, <1>2, <1>t DEF Undone
  <1> QED BY <1>1, <1>2, <1>3 DEF Ask

LEMMA LastInvStep ==
  ASSUME TypeInv, LastInv, NEW r \in Requests, Step(r)
  PROVE  LastInv'
  <1> SUFFICES ASSUME NEW t \in 1..nextTask' - 1, NEW f \in Fields, NEW p,
                      last'[t][f] = p, p # Nothing
               PROVE  Wrote(p, t)' /\ Ask(p)'.body[f] # Nothing
    BY DEF LastInv, Wrote, Kind, At, Ask
  <1>t. RequestTypes
    BY DEF TypeInv, Types
  <1>1. CASE t \in 1..nextTask - 1 /\ last'[t][f] = last[t][f]
    <2>1. Wrote(p, t) /\ Ask(p).body[f] # Nothing
      BY <1>1 DEF LastInv
    <2>2. p \in Requests
      <3>1. last[t] \in [Fields -> Requests \cup {Nothing}]
        BY <1>1, ElementOfSeq DEF TypeInv, Types, TaskTypes
      <3> QED BY <1>1, <3>1
    <2>3. Wrote(p, t)' /\ Ask(p)' = Ask(p)
      BY <2>1, <2>2, WroteStays
    <2> QED BY <2>1, <2>3
  <1>2. CASE /\ WriteTask(r) /\ At(r, "ok")' /\ t = Ask(r).task
             /\ Ask(r).body[f] # Nothing /\ last'[t][f] = r
    <2>1. Ask(r)' = Ask(r)
      BY <1>2, <1>t, Motion DEF WriteTask, At
    <2> QED BY <1>2, <2>1 DEF WriteTask, Wrote, Kind, Ask
  <1> QED BY <1>1, <1>2, LastChange

\* What becomes of a row: it stays, it is new, or an update has written it.
LEMMA RowChange ==
  ASSUME TypeInv, NEW r \in Requests, Step(r), NEW t \in DOMAIN tasks', NEW f \in Fields
  PROVE  \/ /\ t \in DOMAIN tasks /\ tasks'[t] = tasks[t]
            /\ ~(WriteTask(r) /\ At(r, "ok")' /\ t = Ask(r).task)
         \/ t = nextTask /\ t \notin DOMAIN tasks
         \/ /\ WriteTask(r) /\ At(r, "ok")' /\ t = Ask(r).task /\ t \in DOMAIN tasks
            /\ tasks'[t][f] = IF Ask(r).body[f] = Nothing THEN seen[r][f] ELSE Ask(r).body[f]
  <1>t. /\ RequestTypes /\ nextTask \in Nat \ {0} /\ DOMAIN tasks \subseteq 1..nextTask - 1
        /\ tasks = [u \in DOMAIN tasks |-> tasks[u]]
        /\ \A q \in Requests : At(q, "writing") /\ Kind(q) = "updateTask" => Row(seen[q])
    BY DEF TypeInv, Types, TaskTypes
  <1>1. CASE WriteTask(r)
    <2>1. CASE ~Existing(Ask(r).task)
      <3>1. tasks' = tasks /\ Answer(r, "failed")
        BY <1>1, <2>1 DEF WriteTask
      <3>2. ~At(r, "ok")'
        BY <1>t, <3>1, AnswerEffect
      <3> QED BY <3>1, <3>2
    <2>2. CASE Existing(Ask(r).task)
      <3> DEFINE x == Merged(Ask(r).body, seen[r])
      <3>1. /\ Answer(r, "ok") /\ tasks' = [tasks EXCEPT ![Ask(r).task] = x]
            /\ Row(seen[r]) /\ Ask(r).task \in DOMAIN tasks
        BY <1>1, <1>t, <2>2 DEF WriteTask, Existing
      <3>2. x[f] = IF Ask(r).body[f] = Nothing THEN seen[r][f] ELSE Ask(r).body[f]
        <4>1. /\ x.text = IF Ask(r).body.text = Nothing THEN seen[r].text ELSE Ask(r).body.text
              /\ x.done = IF Ask(r).body.done = Nothing THEN seen[r].done ELSE Ask(r).body.done
          BY <3>1, RowExcept
        <4> HIDE DEF x
        <4> QED BY <4>1 DEF Fields
      <3>3. At(r, "ok")'
        BY <1>t, <3>1, AnswerEffect
      <3> HIDE DEF x
      <3>4. DOMAIN tasks' = DOMAIN tasks /\ tasks'[t] = IF t = Ask(r).task THEN x ELSE tasks[t]
        BY <1>t, <3>1
      <3> QED BY <1>1, <3>1, <3>2, <3>3, <3>4
    <2> QED BY <2>1, <2>2
  <1>2. CASE WriteNewTask(r)
    <2>1. ~WriteTask(r)
      BY <1>2 DEF WriteNewTask, WriteTask, At
    <2>2. t \in DOMAIN tasks \cup {nextTask} /\ (t # nextTask => tasks'[t] = tasks[t])
      BY <1>2 DEF WriteNewTask
    <2> QED BY <1>t, <2>1, <2>2
  <1>3. CASE RemoveTask(r)
    <2>1. ~WriteTask(r)
      BY <1>3 DEF RemoveTask, WriteTask
    <2>2. tasks' = tasks \/ tasks' = [u \in DOMAIN tasks \ {Ask(r).task} |-> tasks[u]]
      BY <1>3 DEF RemoveTask
    <2> QED BY <2>1, <2>2
  <1>4. CASE tasks' = tasks /\ ~WriteTask(r)
    BY <1>4
  <1>5. WriteTask(r) \/ WriteNewTask(r) \/ RemoveTask(r) \/ (tasks' = tasks /\ ~WriteTask(r))
    BY TasksChange DEF taskVars, ReadTask
  <1> QED BY <1>1, <1>2, <1>3, <1>4, <1>5

\* The last update p of field f of task t, if a row still stands for it.
LEMMA LastWrote ==
  ASSUME TypeInv, LastInv, NEW t \in DOMAIN tasks, NEW f \in Fields, last[t][f] # Nothing
  PROVE  last[t][f] \in Requests /\ Wrote(last[t][f], t)
  <1>1. t \in 1..nextTask - 1 /\ Len(last) = nextTask - 1
    BY DEF TypeInv, Types, TaskTypes
  <1>2. last[t] \in [Fields -> Requests \cup {Nothing}]
    BY <1>1, ElementOfSeq DEF TypeInv, Types, TaskTypes
  <1> QED BY <1>1, <1>2 DEF LastInv

\* UndoneOnlyByRivals, with Undone.
Stands(t, f) ==
  last[t][f] # Nothing /\ tasks[t][f] # Ask(last[t][f]).body[f] => Undone(last[t][f], t)

LEMMA StandsIs == UndoneOnlyByRivals <=> \A t \in DOMAIN tasks, f \in Fields : Stands(t, f)
  BY DEF UndoneOnlyByRivals, Stands, Undone, Wrote

LEMMA StandsStep ==
  ASSUME TypeInv, TaskInv, NEW r \in Requests, Step(r), NEW t \in DOMAIN tasks', NEW f \in Fields
  PROVE  Stands(t, f)'
  <1> SUFFICES ASSUME NEW p, last'[t][f] = p, p # Nothing, tasks'[t][f] # Ask(p)'.body[f]
               PROVE  Undone(p, t)'
    BY DEF Stands, Undone, Wrote, Ask, Kind, At
  <1>t. /\ Types /\ RequestTypes /\ LastInv /\ DOMAIN tasks \subseteq 1..nextTask - 1
        /\ nextTask \in Nat \ {0} /\ DOMAIN tasks' \subseteq 1..nextTask' - 1
    BY TaskTypesStep DEF TypeInv, Types, TaskInv, TaskTypes
  <1>l. \/ /\ t \in 1..nextTask - 1 /\ last'[t][f] = last[t][f]
           /\ ~(WriteTask(r) /\ At(r, "ok")' /\ t = Ask(r).task /\ Ask(r).body[f] # Nothing)
        \/ t = nextTask /\ last'[t][f] = Nothing
        \/ /\ WriteTask(r) /\ At(r, "ok")' /\ t = Ask(r).task /\ Existing(t)
           /\ Ask(r).body[f] # Nothing /\ last'[t][f] = r
    BY <1>t, LastChange
  <1>a. ASSUME t \in DOMAIN tasks, last'[t][f] = last[t][f]
        PROVE  /\ p \in Requests /\ Wrote(p, t) /\ Wrote(p, t)' /\ p # r /\ Ask(p)' = Ask(p)
               /\ rivals[p] \subseteq rivals'[p] /\ (Undone(p, t) => Undone(p, t)')
    <2>1. p \in Requests /\ Wrote(p, t)
      BY <1>a, <1>t, LastWrote
    <2> QED BY <2>1, WroteStays
  <1>1. CASE WriteTask(r) /\ At(r, "ok")' /\ t = Ask(r).task /\ t \in DOMAIN tasks
    <2>0. tasks'[t][f] = IF Ask(r).body[f] = Nothing THEN seen[r][f] ELSE Ask(r).body[f]
      BY <1>1, <1>t, RowChange
    <2>1. CASE Ask(r).body[f] # Nothing /\ last'[t][f] = r
      <3>1. Ask(r)' = Ask(r)
        BY <1>1, <1>t, Motion DEF WriteTask, At
      <3> QED BY <2>0, <2>1, <3>1
    <2>2. CASE last'[t][f] = last[t][f] /\ (Ask(r).body[f] = Nothing)
      <3>1. tasks'[t][f] = seen[r][f] /\ seen[r][f] # Ask(p).body[f]
        BY <1>a, <1>1, <2>0, <2>2
      <3>2. r \in rivals[p] \/ Undone(p, t)
        BY <1>1, <2>2, <3>1 DEF TaskInv, ReadInv, WriteTask
      <3>3. Wrote(r, t)'
        <4>1. Ask(r)' = Ask(r)
          BY <1>1, <1>t, Motion DEF WriteTask, At
        <4> QED BY <1>1, <4>1 DEF WriteTask, Wrote, Kind, Ask
      <3> QED BY <1>a, <1>1, <2>2, <3>2, <3>3 DEF Undone
    <2> QED BY <1>l, <1>1, <1>t, <2>1, <2>2
  <1>2. CASE t = nextTask /\ t \notin DOMAIN tasks
    BY <1>l, <1>t, <1>2 DEF Existing
  <1>3. CASE t \in DOMAIN tasks /\ tasks'[t] = tasks[t]
             /\ ~(WriteTask(r) /\ At(r, "ok")' /\ t = Ask(r).task)
    <2>1. last'[t][f] = last[t][f]
      BY <1>l, <1>t, <1>3
    <2>2. Stands(t, f)
      BY <1>3, StandsIs DEF TaskInv
    <2>3. tasks[t][f] # Ask(p).body[f]
      BY <1>3, <1>a, <2>1
    <2> QED BY <1>3, <1>a, <2>1, <2>2, <2>3 DEF Stands
  <1> QED BY <1>1, <1>2, <1>3, RowChange

\* What an update has read is what the last update wrote, or they are rivals.
LEMMA ReadStands ==
  ASSUME TypeInv, TaskInv, NEW r \in Requests, Step(r), NEW s \in Requests, NEW f \in Fields,
         At(s, "writing")', Kind(s)' = "updateTask", NEW t, t = Ask(s)'.task,
         t \in DOMAIN tasks', NEW p, p = last'[t][f], p # Nothing
  PROVE  s \in rivals'[p] \/ seen'[s][f] = Ask(p)'.body[f] \/ Undone(p, t)'
  <1>t. /\ Types /\ RequestTypes /\ LastInv /\ DOMAIN tasks \subseteq 1..nextTask - 1
        /\ nextTask \in Nat \ {0} /\ DOMAIN tasks' \subseteq 1..nextTask' - 1
        /\ seen = [q \in Requests |-> seen[q]]
    BY TaskTypesStep DEF TypeInv, Types, TaskInv, TaskTypes
  <1>l. \/ t \in 1..nextTask - 1 /\ last'[t][f] = last[t][f]
        \/ t = nextTask /\ last'[t][f] = Nothing
        \/ WriteTask(r) /\ At(r, "ok")' /\ last'[t][f] = r
    BY <1>t, LastChange
  <1>d. t \in 1..nextTask - 1 => t \in DOMAIN tasks
    BY <1>t, RowChange
  <1>a. ASSUME t \in DOMAIN tasks, last'[t][f] = last[t][f]
        PROVE  /\ p \in Requests /\ Wrote(p, t) /\ p # r /\ Ask(p)' = Ask(p)
               /\ rivals[p] \subseteq rivals'[p] /\ (Undone(p, t) => Undone(p, t)')
    <2>1. p \in Requests /\ Wrote(p, t)
      BY <1>a, <1>t, LastWrote
    <2> QED BY <2>1, WroteStays
  <1>1. CASE s # r
    <2>1. At(s, "writing") /\ Kind(s) = "updateTask" /\ Ask(s)' = Ask(s) /\ seen'[s] = seen[s]
      BY <1>t, <1>1, Motion, SeenRows DEF At
    <2>2. CASE t \in 1..nextTask - 1 /\ last'[t][f] = last[t][f]
      <3>1. t \in DOMAIN tasks /\ t = Ask(s).task
        BY <1>d, <2>1, <2>2
      <3>2. s \in rivals[p] \/ seen[s][f] = Ask(p).body[f] \/ Undone(p, t)
        BY <2>1, <2>2, <3>1 DEF TaskInv, ReadInv
      <3> QED BY <1>a, <2>1, <2>2, <3>1, <3>2
    <2>3. CASE WriteTask(r) /\ last'[t][f] = r
      <3>1. InFlight(r) /\ InFlight(s) /\ ~At(r, "idle")
        BY <2>1, <2>3 DEF WriteTask, InFlight, Ended, At
      <3>2. s \in rivals[r]
        BY <1>1, <3>1 DEF TypeInv, Together
      <3>3. rivals[r] \subseteq rivals'[r]
        BY <1>t, <3>1, RivalsChange
      <3> QED BY <2>3, <3>2, <3>3
    <2> QED BY <1>l, <2>2, <2>3
  <1>2. CASE s = r
    <2>1. /\ Goes(r, "writing")
          /\ \/ RegisterRead(r) \/ DrawProductCode(r)
             \/ /\ ReadTask(r) /\ Existing(Ask(r).task)
                /\ seen' = [seen EXCEPT ![r] = tasks[Ask(r).task]]
      BY <1>t, <1>2, BeginsToWrite
    <2>2. Kind(r) = "updateTask" /\ t = Ask(r).task
      BY <1>2, <2>1 DEF Goes, Kind, Ask
    <2>3. ReadTask(r) /\ t \in DOMAIN tasks /\ seen'[r] = tasks[t]
      BY <1>t, <2>1, <2>2 DEF RegisterRead, DrawProductCode, Existing
    <2>4. last'[t][f] = last[t][f]
      BY <2>3 DEF ReadTask
    <2>5. Stands(t, f)
      BY <2>3, StandsIs DEF TaskInv
    <2> QED BY <1>2, <1>a, <2>3, <2>4, <2>5 DEF Stands
  <1> QED BY <1>1, <1>2

LEMMA TaskInvStep ==
  ASSUME TypeInv, TaskInv, [Next]_vars
  PROVE  TaskInv'
  <1>1. ASSUME NEW r \in Requests, Step(r) PROVE TaskInv'
    <2>1. LastInv'
      BY <1>1, LastInvStep DEF TaskInv
    <2>2. UndoneOnlyByRivals'
      <3>1. \A t \in DOMAIN tasks', f \in Fields : Stands(t, f)'
        BY <1>1, StandsStep
      <3> QED BY <3>1 DEF UndoneOnlyByRivals, Stands, Undone, Wrote
    <2>3. ASSUME NEW s \in Requests, At(s, "writing")', Kind(s)' = "updateTask", NEW f \in Fields,
                 NEW t, t = Ask(s)'.task, NEW p, p = last'[t][f], t \in DOMAIN tasks', p # Nothing
          PROVE  s \in rivals'[p] \/ seen'[s][f] = Ask(p)'.body[f] \/ Undone(p, t)'
      BY <1>1, <2>3, ReadStands
    <2>4. ReadInv'
      BY <2>3 DEF ReadInv, Undone, Wrote, Ask, Kind, At
    <2> QED BY <2>1, <2>2, <2>4 DEF TaskInv
  <1>2. CASE UNCHANGED vars
    <2>0. UNCHANGED <<requests, rivals, tasks, nextTask, seen, last>>
      BY <1>2 DEF vars, api, taskVars
    <2>1. LastInv'
      BY <2>0 DEF TaskInv, LastInv, Wrote, At, Kind, Ask
    <2>2. UndoneOnlyByRivals'
      BY <2>0 DEF TaskInv, UndoneOnlyByRivals, At, Kind, Ask
    <2>3. ReadInv'
      <3> SUFFICES ASSUME NEW s \in Requests, At(s, "writing")', Kind(s)' = "updateTask",
                          NEW f \in Fields, NEW t, t = Ask(s)'.task, NEW p, p = last'[t][f],
                          t \in DOMAIN tasks', p # Nothing
                   PROVE  s \in rivals'[p] \/ seen'[s][f] = Ask(p)'.body[f] \/ Undone(p, t)'
        BY DEF ReadInv, Undone, Wrote, At, Kind, Ask
      <3>1. At(s, "writing") /\ Kind(s) = "updateTask" /\ t = Ask(s).task /\ p = last[t][f]
        BY <2>0 DEF At, Kind, Ask
      <3>2. s \in rivals[p] \/ seen[s][f] = Ask(p).body[f] \/ Undone(p, t)
        BY <2>0, <3>1 DEF TaskInv, ReadInv
      <3> QED BY <2>0, <3>2 DEF Undone, Wrote, At, Kind, Ask
    <2> QED BY <2>1, <2>2, <2>3 DEF TaskInv
  <1> QED BY <1>1, <1>2 DEF Next

\* SUpdateTask writes back every field of the row it has read, yet an answered
\* update is only ever undone by one that was in flight at the same time, or
\* overwritten by a later one that names the field.
THEOREM UndoneByRivals == Spec => []UndoneOnlyByRivals
  <1>1. Init => TaskInv
    <2> SUFFICES ASSUME Init PROVE TaskInv
      OBVIOUS
    <2>1. /\ \A r \in Requests : ~At(r, "writing")
          /\ DOMAIN tasks = {1} /\ nextTask = 2 /\ last = [t \in {1} |-> NoUpdate]
      BY DEF Init, ApiInit, TasksInit, Idle, At
    <2>2. \A f \in Fields : last[1][f] = Nothing
      BY <2>1 DEF NoUpdate
    <2>3. \A t \in 1..nextTask - 1 : t = 1
      BY <2>1
    <2> HIDE DEF Init
    <2>4. LastInv
      BY <2>2, <2>3 DEF LastInv
    <2>5. UndoneOnlyByRivals
      BY <2>1, <2>2 DEF UndoneOnlyByRivals
    <2>6. ReadInv
      BY <2>1 DEF ReadInv
    <2> QED BY <2>4, <2>5, <2>6 DEF TaskInv
  <1>2. TaskInv => UndoneOnlyByRivals
    BY DEF TaskInv
  <1> QED BY <1>1, <1>2, TypesHold, TaskInvStep, PTL DEF Spec
=============================================================================
