------------------------- MODULE OrderTransactions -------------------------
(***************************************************************************)
(* What Orders takes for one step, the transactions of SCreateOrder and    *)
(* SCancelOrder, statement by statement (api/v1/orders/orders.service.ts,  *)
(* utils/codeGenerator.util.ts, the UNIQUE codes of schema.prisma), over a *)
(* connection pool of bounded size.                                        *)
(*                                                                         *)
(* An interactive transaction keeps a connection from its begin to its     *)
(* end.  generateOrderCode runs on the global client inside it, so for the *)
(* length of that query the handler needs a second connection.             *)
(*                                                                         *)
(* PostgreSQL and Prisma are external and modelled from how the code uses  *)
(* them, at READ COMMITTED: an UPDATE locks its row until the transaction  *)
(* ends and starts from the newest committed version; an INSERT draws its  *)
(* id first and then waits for any open transaction that has inserted the  *)
(* same UNIQUE code; of transactions that wait for each other in a circle  *)
(* one is aborted.  Prisma gives up waiting for a connection after a while *)
(* (maxWait, pool_timeout) and rolls back a transaction that is open too   *)
(* long (timeout): its handler learns of it at its next statement.         *)
(*                                                                         *)
(* Inserting the items and reading the order back wait for nothing and are *)
(* part of the statements around them.  One order is cancelled by one      *)
(* request at a time: Orders looks at more.                                *)
(***************************************************************************)
EXTENDS Integers, Sequences, FiniteSets, Functions

CONSTANTS
  Products,   \* product ids
  InitStock,  \* InitStock[p]: the units of p at the start
  Carts,      \* what the items of a POST /orders may be
  Creates,    \* requests POST /orders
  Cancels,    \* requests POST /orders/:orderId/cancel
  PoolSize,   \* connections in the pool (connection_limit)
  Nobody      \* holds a row that is not locked

Requests == Creates \cup Cancels
Line == [product : Products, quantity : Nat \ {0}]

ASSUME OrderTransactionsAssumption ==
  /\ InitStock \in [Products -> Nat]
  /\ Carts # {} /\ Carts \subseteq Seq(Line) \ {<<>>}
  /\ Creates \cap Cancels = {} /\ IsFiniteSet(Requests)
  /\ PoolSize \in Nat \ {0}
  /\ Nobody \notin Requests

VARIABLES
  free,     \* connections that no transaction holds
  open,     \* requests whose transaction is open in the database
  stock,    \* products.stock, committed
  version,  \* the newest version of it, written by whoever has locked the row
  lock,     \* lock[p]: the request whose transaction has locked row p
  orders,   \* the committed rows of orders, in the order of their commits
  nextId,   \* the sequence that orders.id is drawn from
  handlers  \* what each request's handler holds between two awaits

rows == <<stock, version, lock>>
vars == <<free, open, rows, orders, nextId, handlers>>

\* begin: waits for a connection to open its transaction.  draw: for one to
\* read the newest code.  insert, check: inserts the order, its id is drawn.
\* lines: updates the stock of line next.
Ended == {"ok", "failed"}
Pc == {"idle", "begin", "draw", "insert", "check", "lines"} \cup Ended

Handler == [pc : Pc, cart : Carts, next : Nat \ {0}, code : Nat, id : Nat]
OrderRow == [id : Nat, code : Nat, cart : Carts,
             status : {"PENDING", "CANCELLED"}]

\* Types: what the pool, the rows and the handlers may be.
TypeOK ==
  /\ free \in 0..PoolSize
  /\ open \subseteq Requests
  /\ stock \in [Products -> Int]
  /\ version \in [Products -> Int]
  /\ lock \in [Products -> Requests \cup {Nobody}]
  /\ orders \in Seq(OrderRow)
  /\ nextId \in Nat
  /\ handlers \in [Requests -> Handler]

\* A handler that has not begun or has ended holds nothing.
Holding(pc) ==
  [pc |-> pc, cart |-> CHOOSE c \in Carts : TRUE, next |-> 1, code |-> 0, id |-> 0]

Init ==
  /\ free = PoolSize
  /\ open = {}
  /\ stock = InitStock
  /\ version = InitStock
  /\ lock = [p \in Products |-> Nobody]
  /\ orders = <<>>
  /\ nextId = 1
  /\ handlers = [t \in Requests |-> Holding("idle")]

At(t, pc) == handlers[t].pc = pc
Goto(t, pc) == handlers' = [handlers EXCEPT ![t].pc = pc]
End(t, pc) == handlers' = [handlers EXCEPT ![t] = Holding(pc)]
InFlight(t) == handlers[t].pc \notin Ended \cup {"idle"}

-----------------------------------------------------------------------------
(* The requests.                                                           *)

\* SCreateOrder has validated its lines.
Order(t, c) ==
  /\ t \in Creates
  /\ At(t, "idle")
  /\ handlers' = [handlers EXCEPT ![t].pc = "begin", ![t].cart = c]
  /\ UNCHANGED <<free, open, rows, orders, nextId>>

\* SCancelOrder has read the order and its items.
Cancel(t, i) ==
  /\ t \in Cancels
  /\ At(t, "idle")
  /\ orders[i].status = "PENDING"
  /\ \A u \in Cancels : InFlight(u) => handlers[u].id # orders[i].id
  /\ handlers' = [handlers EXCEPT ![t].pc = "begin",
                    ![t].cart = orders[i].cart, ![t].id = orders[i].id]
  /\ UNCHANGED <<free, open, rows, orders, nextId>>

-----------------------------------------------------------------------------
(* Connections.                                                            *)

\* The transaction of t, if it is open, ends: its connection and its row
\* locks are free.
Unlocked(t) == [p \in Products |-> IF lock[p] = t THEN Nobody ELSE lock[p]]

Release(t) ==
  /\ open' = open \ {t}
  /\ free' = IF t \in open THEN free + 1 ELSE free
  /\ lock' = Unlocked(t)

\* What it wrote is gone.
Reverted(ts) == [p \in Products |-> IF lock[p] \in ts THEN stock[p] ELSE version[p]]

RollBack(t) ==
  /\ Release(t)
  /\ version' = Reverted({t})
  /\ UNCHANGED <<stock, orders, nextId>>

\* prisma.$transaction: BEGIN.
Begin(t) ==
  /\ At(t, "begin")
  /\ free > 0
  /\ free' = free - 1
  /\ open' = open \cup {t}
  /\ Goto(t, IF t \in Creates THEN "draw" ELSE "lines")
  /\ UNCHANGED <<rows, orders, nextId>>

\* No connection within maxWait: the transactions here have taken them all, or
\* other queries of the process, which borrow connections too, were quicker.
BeginTimesOut(t) ==
  /\ At(t, "begin")
  /\ End(t, "failed")
  /\ UNCHANGED <<free, open, rows, orders, nextId>>

\* One more than the code of the row with the greatest id.
NextCode ==
  IF orders = <<>> THEN 1
  ELSE LET newest == CHOOSE i \in 1..Len(orders) :
                       \A j \in 1..Len(orders) : orders[j].id <= orders[i].id
       IN  orders[newest].code + 1

\* generateOrderCode, on another connection that is free again afterwards.
DrawCode(t) ==
  /\ At(t, "draw")
  /\ free > 0
  /\ handlers' = [handlers EXCEPT ![t].pc = "insert", ![t].code = NextCode]
  /\ UNCHANGED <<free, open, rows, orders, nextId>>

\* Mutant: the query waits for a connection as long as it takes.
DrawNeverTimesOut(t) == FALSE

\* No connection within pool_timeout, likewise: the callback throws.
DrawTimesOut(t) ==
  /\ At(t, "draw")
  /\ End(t, "failed")
  /\ RollBack(t)

\* The transaction has been open too long; its handler does not know yet.
TimeOut(t) ==
  /\ t \in open
  /\ RollBack(t)
  /\ UNCHANGED handlers

\* A statement of a transaction that has timed out throws.
StatementRefused(t) ==
  /\ handlers[t].pc \in {"insert", "check", "lines"}
  /\ t \notin open
  /\ End(t, "failed")
  /\ UNCHANGED <<free, open, rows, orders, nextId>>

-----------------------------------------------------------------------------
(* The statements.                                                         *)

\* tx.order.create draws the id; it stays used whatever becomes of the row.
Insert(t) ==
  /\ At(t, "insert")
  /\ t \in open
  /\ handlers' = [handlers EXCEPT ![t].pc = "check", ![t].id = nextId]
  /\ nextId' = nextId + 1
  /\ UNCHANGED <<free, open, rows, orders>>

\* The code is in a row another open transaction has inserted.
Contested(t) ==
  \E u \in Creates \cap open :
    u # t /\ At(u, "lines") /\ handlers[u].code = handlers[t].code

Taken(c) == \E i \in 1..Len(orders) : orders[i].code = c

\* Mutant: the index is asked for committed rows only.
InsertAcceptedUncontested(t) ==
  /\ At(t, "check")
  /\ t \in open
  /\ ~Taken(handlers[t].code)
  /\ Goto(t, "lines")
  /\ UNCHANGED <<free, open, rows, orders, nextId>>

\* The UNIQUE index has no other row with this code.
InsertAccepted(t) ==
  /\ At(t, "check")
  /\ t \in open
  /\ ~Taken(handlers[t].code)
  /\ ~Contested(t)
  /\ Goto(t, "lines")
  /\ UNCHANGED <<free, open, rows, orders, nextId>>

InsertRejected(t) ==
  /\ At(t, "check")
  /\ t \in open
  /\ Taken(handlers[t].code)
  /\ End(t, "failed")
  /\ RollBack(t)

LinesRemain(t) == handlers[t].next <= Len(handlers[t].cart)
NextLine(t) == handlers[t].cart[handlers[t].next]
Change(t) == IF t \in Creates THEN 0 - NextLine(t).quantity
             ELSE NextLine(t).quantity

\* Mutant: the new stock is computed from the committed one, whoever has
\* the row.
UpdateRowUnlocked(t) ==
  LET p == NextLine(t).product IN
  /\ At(t, "lines")
  /\ t \in open
  /\ LinesRemain(t)
  /\ version' = [version EXCEPT ![p] = stock[p] + Change(t)]
  /\ lock' = [lock EXCEPT ![p] = t]
  /\ handlers' = [handlers EXCEPT ![t].next = @ + 1]
  /\ UNCHANGED <<free, open, stock, orders, nextId>>

\* tx.product.update, an increment or a decrement: it waits for the row and
\* starts from its newest version.
UpdateRow(t) ==
  LET p == NextLine(t).product IN
  /\ At(t, "lines")
  /\ t \in open
  /\ LinesRemain(t)
  /\ lock[p] \in {t, Nobody}
  /\ version' = [version EXCEPT ![p] = @ + Change(t)]
  /\ lock' = [lock EXCEPT ![p] = t]
  /\ handlers' = [handlers EXCEPT ![t].next = @ + 1]
  /\ UNCHANGED <<free, open, stock, orders, nextId>>

\* The row of orders that t's transaction leaves behind.
Committed(t) ==
  IF t \in Creates
    THEN Append(orders, [id |-> handlers[t].id, code |-> handlers[t].code,
                         cart |-> handlers[t].cart, status |-> "PENDING"])
    ELSE [i \in DOMAIN orders |->
            IF orders[i].id = handlers[t].id
              THEN [orders[i] EXCEPT !.status = "CANCELLED"] ELSE orders[i]]

Commit(t) ==
  /\ At(t, "lines")
  /\ t \in open
  /\ ~LinesRemain(t)
  /\ orders' = Committed(t)
  /\ stock' = [p \in Products |-> IF lock[p] = t THEN version[p] ELSE stock[p]]
  /\ Release(t)
  /\ End(t, "ok")
  /\ UNCHANGED <<version, nextId>>

\* t waits for the row that u has locked.
WaitsFor(t, u) ==
  /\ At(t, "lines")
  /\ t \in open
  /\ LinesRemain(t)
  /\ lock[NextLine(t).product] = u
  /\ u # t

\* A circle of transactions that wait for each other.
Circle(ts) ==
  \A t \in ts : (\E u \in ts : WaitsFor(t, u)) /\ (\E u \in ts : WaitsFor(u, t))

\* The database finds the circle and aborts one of them.
DeadlockAborts(t) ==
  /\ \E ts \in SUBSET Requests : t \in ts /\ Circle(ts)
  /\ End(t, "failed")
  /\ RollBack(t)

\* The process dies, and with it every connection.
Crash ==
  /\ \E t \in Requests : InFlight(t)
  /\ handlers' = [t \in Requests |->
       IF InFlight(t) THEN Holding("failed") ELSE handlers[t]]
  /\ open' = {}
  /\ free' = PoolSize
  /\ lock' = [p \in Products |-> Nobody]
  /\ version' = stock
  /\ UNCHANGED <<stock, orders, nextId>>

-----------------------------------------------------------------------------
Step(t) ==
  \/ Begin(t) \/ BeginTimesOut(t) \/ DrawCode(t) \/ DrawTimesOut(t)
  \/ Insert(t) \/ InsertAccepted(t) \/ InsertRejected(t)
  \/ UpdateRow(t) \/ DeadlockAborts(t) \/ Commit(t) \/ StatementRefused(t)

Next ==
  \/ \E t \in Requests :
       \/ \E c \in Carts : Order(t, c)
       \/ \E i \in 1..Len(orders) : Cancel(t, i)
       \/ Step(t) \/ TimeOut(t)
  \/ Crash

Spec == Init /\ [][Next]_vars

\* A statement that need not wait is answered; the two waits for a
\* connection are bounded, and the database looks for circles.  Nothing is
\* assumed of the timeout of a transaction.
FairSpec == Spec /\ \A t \in Requests : WF_vars(Step(t))

-----------------------------------------------------------------------------
(* Properties.                                                             *)

\* Codes are handed out without gap or repetition, in the order of the
\* commits and in the order of the ids alike, although an id is drawn before
\* the insert waits for the code, and aborted inserts leave gaps in the ids.
CodesFollowIds ==
  \A i \in 1..Len(orders) :
    /\ orders[i].code = i
    /\ \A j \in 1..i - 1 : orders[j].id < orders[i].id

UnitsOf(cart) ==
  [p \in Products |->
     SumFunctionOnSet([i \in DOMAIN cart |-> cart[i].quantity],
                      {i \in DOMAIN cart : cart[i].product = p})]

\* The statements of a transaction come to the one step that Orders takes it
\* for: an order leaves stock with all its lines or with none, a
\* cancellation brings all of them back or none, and no update of a stock
\* is lost to a concurrent one.
BookOf(os) ==
  [i \in 1..Len(os) |-> [units |-> UnitsOf(os[i].cart), status |-> os[i].status]]
Book == INSTANCE OrderBook WITH book <- BookOf(orders), disputed <- {}
BookSpec == Book!Spec

\* No set of concurrent orders keeps the pool for ever, though each may hold
\* a connection and wait for another one, and no two keep each other waiting
\* for rows: every request taken up ends, and again and again none is in
\* flight.
RequestsEnd == []<>(\A t \in Requests : ~InFlight(t))
=============================================================================
