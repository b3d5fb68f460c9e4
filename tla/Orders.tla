------------------------------- MODULE Orders -------------------------------
(***************************************************************************)
(* The order service and the product rows it shares with the product       *)
(* service (api/v1/orders/orders.service.ts, api/v1/products/             *)
(* products.service.ts, utils/codeGenerator.util.ts).                      *)
(*                                                                         *)
(* A handler is an async function: it runs from one await to the next, so  *)
(* every database read, every transaction and every queue call is a step   *)
(* of its own and handlers interleave between them.  A prisma.$transaction *)
(* is one step, its commit; generateOrderCode reads outside the            *)
(* transaction and is a step before it.                                    *)
(*                                                                         *)
(* A request is used once: CreateReqs, AdminReqs and EditReqs bound how    *)
(* many of each kind arrive.  Prices are left out (an order's total never  *)
(* feeds back into a guard, except that a total too large for              *)
(* DECIMAL(10,2) aborts the transaction, one of the causes of AbortOrder). *)
(***************************************************************************)
EXTENDS Integers, Sequences, Functions

CONSTANTS
  Products,      \* product ids
  Users,         \* accounts
  Role,          \* Role[u]: the role the middleware read for u's request
  Carts,         \* the bodies a POST /orders may carry: sequences of lines
  InitStock,     \* InitStock[p]: the units of p at the start
  StockEdits,    \* the values a product update may write into stock
  CreateReqs,    \* requests POST /orders
  AdminReqs,     \* requests to cancel an order or to set its status
  EditReqs       \* requests to update or delete a product

Statuses == {"PENDING", "PROCESSING", "COMPLETED", "CANCELLED"}
Terminal == {"COMPLETED", "CANCELLED"}

\* A product row's status column: 0 deleted, 1 active, 2 inactive.
ProductStatuses == 0..2

\* "This field is not in the request body."
Keep == -1

Line == [product : Products, quantity : Nat \ {0}]

NoUnits == [p \in Products |-> 0]

ASSUME OrdersAssumption ==
  /\ Products # {} /\ Users # {} /\ Carts # {}
  /\ Role \in [Users -> {"user", "admin", "superadmin"}]
  /\ Carts \subseteq Seq(Line) \ {<<>>}
  /\ InitStock \in [Products -> Nat]
  /\ StockEdits \subseteq Nat

VARIABLES
  stock,       \* products.stock, by product
  prodStatus,  \* products.status
  deletedAt,   \* products.deletedAt # null
  orders,      \* the committed rows of orders, in id order
  jobs,        \* orders whose processing job the queue accepted
  mails,       \* [order, status]: status-update mails the queue accepted
  mailKeys,    \* <<user, order>>: mail keys the queue still knows
  creates,     \* what each POST /orders handler holds between two awaits
  admins,      \* the same for the cancel and status handlers
  edits,       \* the same for the product update and delete handlers
  overtaken    \* history: the cancel and status requests on whose order
               \* another one wrote between their check and their write

products == <<stock, prodStatus, deletedAt>>
queue == <<jobs, mails, mailKeys>>
vars == <<products, orders, queue, creates, admins, edits, overtaken>>

-----------------------------------------------------------------------------
(* Records.                                                                *)

\* A row of orders with its order_items: units[p] is the quantity of p over
\* all the items of the order.
OrderRow == [code : Nat, user : Users, units : [Products -> Nat],
             status : Statuses, cancelledAt : BOOLEAN]

CreatePc == {"idle", "reading", "inTx", "committed", "ok", "failed", "lost"}
AdminPc == {"idle", "cancelling", "updating", "mailing", "ok", "failed", "lost"}
EditPc == {"idle", "updating", "deleting", "ok", "failed", "lost"}

\* A handler has ended: it answered, or died with its process.
Ended == {"ok", "failed", "lost"}

\* next is the loop variable over the items, units what the lines read so
\* far come to, code the generated order code, order the row committed (0:
\* none).  gone is history, not code: the products that had been deleted
\* when the request arrived.
CreateCtx == [pc : CreatePc, user : Users, cart : Carts, next : Nat \ {0},
              units : [Products -> Nat], code : Nat, order : Nat,
              gone : SUBSET Products]

\* keyUser is the user id that goes into the mail's idempotency key.
AdminCtx == [pc : AdminPc, order : Nat, status : Statuses, keyUser : Users]

EditCtx == [pc : EditPc, product : Products, stock : Nat \cup {Keep},
            status : ProductStatuses \cup {Keep}]

TypeOK ==
  /\ stock \in [Products -> Int]
  /\ prodStatus \in [Products -> ProductStatuses]
  /\ deletedAt \in [Products -> BOOLEAN]
  /\ orders \in Seq(OrderRow)
  /\ jobs \subseteq Nat
  /\ mails \subseteq [order : Nat, status : Statuses]
  /\ mailKeys \subseteq Users \X Nat
  /\ creates \in [CreateReqs -> CreateCtx]
  /\ admins \in [AdminReqs -> AdminCtx]
  /\ edits \in [EditReqs -> EditCtx]
  /\ overtaken \subseteq AdminReqs

\* What the fields of an idle handler hold is never read.
Init ==
  /\ stock = InitStock
  /\ prodStatus = [p \in Products |-> 1]
  /\ deletedAt = [p \in Products |-> FALSE]
  /\ orders = <<>>
  /\ jobs = {}
  /\ mails = {}
  /\ mailKeys = {}
  /\ creates = [r \in CreateReqs |->
       [pc |-> "idle", user |-> CHOOSE u \in Users : TRUE,
        cart |-> CHOOSE c \in Carts : TRUE, next |-> 1, units |-> NoUnits,
        code |-> 0, order |-> 0, gone |-> {}]]
  /\ admins = [a \in AdminReqs |->
       [pc |-> "idle", order |-> 0, status |-> "PENDING",
        keyUser |-> CHOOSE u \in Users : TRUE]]
  /\ edits = [e \in EditReqs |->
       [pc |-> "idle", product |-> CHOOSE p \in Products : TRUE,
        stock |-> Keep, status |-> Keep]]
  /\ overtaken = {}

-----------------------------------------------------------------------------
(* POST /orders: SCreateOrder.                                             *)

\* Only a regular user may order.
CreateStart(r, u, c) ==
  /\ creates[r].pc = "idle"
  /\ Role[u] = "user"
  /\ creates' = [creates EXCEPT
       ![r].pc = "reading", ![r].user = u, ![r].cart = c,
       ![r].gone = {p \in Products : deletedAt[p]}]
  /\ UNCHANGED <<products, orders, queue, admins, edits, overtaken>>

CreateRefused(r, u) ==
  /\ creates[r].pc = "idle"
  /\ Role[u] # "user"
  /\ creates' = [creates EXCEPT ![r].pc = "failed"]
  /\ UNCHANGED <<products, orders, queue, admins, edits, overtaken>>

\* Mutant: the status column alone is asked.
AvailableByStatus(p) == prodStatus[p] = 1

\* The where clause of the product read.
Available(p) == ~deletedAt[p] /\ prodStatus[p] = 1

NextLine(r) == creates[r].cart[creates[r].next]
LinesRemain(r) == creates[r].next <= Len(creates[r].cart)

\* One turn of the loop over the items.  The stock is compared with this
\* line's quantity alone; nothing is reserved.
ReadLine(r) ==
  /\ creates[r].pc = "reading"
  /\ LinesRemain(r)
  /\ Available(NextLine(r).product)
  /\ stock[NextLine(r).product] >= NextLine(r).quantity
  /\ creates' = [creates EXCEPT
       ![r].next = @ + 1,
       ![r].units[NextLine(r).product] = @ + NextLine(r).quantity]
  /\ UNCHANGED <<products, orders, queue, admins, edits, overtaken>>

RefuseLine(r) ==
  /\ creates[r].pc = "reading"
  /\ LinesRemain(r)
  /\ \/ ~Available(NextLine(r).product)
     \/ stock[NextLine(r).product] < NextLine(r).quantity
  /\ creates' = [creates EXCEPT ![r].pc = "failed"]
  /\ UNCHANGED <<products, orders, queue, admins, edits, overtaken>>

\* generateOrderCode: one more than the number in the newest order's code.
NextCode == IF orders = <<>> THEN 1 ELSE orders[Len(orders)].code + 1

\* The transaction opens, and the code is read over another connection: it
\* sees what is committed and locks nothing.
DrawCode(r) ==
  /\ creates[r].pc = "reading"
  /\ ~LinesRemain(r)
  /\ creates' = [creates EXCEPT ![r].pc = "inTx", ![r].code = NextCode]
  /\ UNCHANGED <<products, orders, queue, admins, edits, overtaken>>

\* Mutant: the column is not UNIQUE.
CodeNotUnique(c) == TRUE

\* orders.code is UNIQUE.
CodeFree(c) == \A i \in 1..Len(orders) : orders[i].code # c

\* The transaction commits: the order and its items are inserted and the
\* stock of each item goes down, with no condition on what is left.
CommitOrder(r) ==
  /\ creates[r].pc = "inTx"
  /\ CodeFree(creates[r].code)
  /\ orders' = Append(orders,
       [code |-> creates[r].code, user |-> creates[r].user,
        units |-> creates[r].units, status |-> "PENDING",
        cancelledAt |-> FALSE])
  /\ stock' = [p \in Products |-> stock[p] - creates[r].units[p]]
  /\ creates' = [creates EXCEPT ![r].pc = "committed",
                                ![r].order = Len(orders) + 1]
  /\ UNCHANGED <<prodStatus, deletedAt, queue, admins, edits, overtaken>>

\* Mutant: the handler starts the transaction again, with no end to it.
AbortOrderRetries(r) ==
  /\ creates[r].pc = "inTx"
  /\ creates' = [creates EXCEPT ![r].pc = "reading"]
  /\ UNCHANGED <<products, orders, queue, admins, edits, overtaken>>

\* It rolls back: the code is taken, the total does not fit, the
\* interactive transaction times out or the database fails.
AbortOrder(r) ==
  /\ creates[r].pc = "inTx"
  /\ creates' = [creates EXCEPT ![r].pc = "failed"]
  /\ UNCHANGED <<products, orders, queue, admins, edits, overtaken>>

\* addOrderProcessingJob under the key order:{id}:process.
QueueOrderJob(r) ==
  /\ creates[r].pc = "committed"
  /\ jobs' = jobs \cup {creates[r].order}
  /\ creates' = [creates EXCEPT ![r].pc = "ok"]
  /\ UNCHANGED <<products, orders, mails, mailKeys, admins, edits, overtaken>>

\* Mutant: the error of the queue is swallowed.
OrderJobRefusedSilently(r) ==
  /\ creates[r].pc = "committed"
  /\ creates' = [creates EXCEPT ![r].pc = "ok"]
  /\ UNCHANGED <<products, orders, queue, admins, edits, overtaken>>

\* The queue throws (it was cleared by a shutdown, or Redis refuses the
\* write): the handler answers 400, and the order stays committed.
OrderJobRefused(r) ==
  /\ creates[r].pc = "committed"
  /\ creates' = [creates EXCEPT ![r].pc = "failed"]
  /\ UNCHANGED <<products, orders, queue, admins, edits, overtaken>>

CreateStep(r) ==
  \/ ReadLine(r) \/ RefuseLine(r) \/ DrawCode(r) \/ CommitOrder(r)
  \/ AbortOrder(r) \/ QueueOrderJob(r) \/ OrderJobRefused(r)

-----------------------------------------------------------------------------
(* Cancelling an order and setting its status: SCancelOrder and            *)
(* SUpdateOrderStatus.                                                     *)

IsAdmin(u) == Role[u] \in {"admin", "superadmin"}

\* The order was checked and is still to be written.
Writing(a) == admins[a].pc \in {"cancelling", "updating"}

\* Those whose check a write of a makes stale.
Overtakes(a) ==
  {b \in AdminReqs \ {a} : Writing(b) /\ admins[b].order = admins[a].order}

\* Mutant: the guard forgets that a cancelled order is final.
ChangeableUnlessCompleted(o) ==
  o \in 1..Len(orders) /\ orders[o].status # "COMPLETED"

\* The order exists and is neither completed nor cancelled.
Changeable(o) == o \in 1..Len(orders) /\ orders[o].status \notin Terminal

\* Both handlers refuse on the same conditions, after the same read.  (A
\* status outside Statuses is refused before it.)
AdminRefused(a, u, o) ==
  /\ admins[a].pc = "idle"
  /\ ~IsAdmin(u) \/ ~Changeable(o)
  /\ admins' = [admins EXCEPT ![a].pc = "failed"]
  /\ UNCHANGED <<products, orders, queue, creates, edits, overtaken>>

\* The order is read and its status is checked.
CancelRead(a, u, o) ==
  /\ admins[a].pc = "idle"
  /\ IsAdmin(u)
  /\ Changeable(o)
  /\ admins' = [admins EXCEPT
       ![a] = [pc |-> "cancelling", order |-> o, status |-> "CANCELLED",
               keyUser |-> orders[o].user]]
  /\ UNCHANGED <<products, orders, queue, creates, edits, overtaken>>

\* Mutant: the units are not given back.
CancelCommitKeepsUnits(a) ==
  /\ admins[a].pc = "cancelling"
  /\ orders' = [orders EXCEPT ![admins[a].order].status = "CANCELLED",
                              ![admins[a].order].cancelledAt = TRUE]
  /\ admins' = [admins EXCEPT ![a].pc = "mailing"]
  /\ overtaken' = overtaken \cup Overtakes(a)
  /\ UNCHANGED <<products, queue, creates, edits>>

\* The transaction: the row is found by id alone, its status is not looked
\* at again, and every item's quantity goes back to stock.
CancelCommit(a) ==
  /\ admins[a].pc = "cancelling"
  /\ orders' = [orders EXCEPT ![admins[a].order].status = "CANCELLED",
                              ![admins[a].order].cancelledAt = TRUE]
  /\ stock' = [p \in Products |-> stock[p] + orders[admins[a].order].units[p]]
  /\ admins' = [admins EXCEPT ![a].pc = "mailing"]
  /\ overtaken' = overtaken \cup Overtakes(a)
  /\ UNCHANGED <<prodStatus, deletedAt, queue, creates, edits>>

\* The mail about a new status is keyed by the administrator's own id.
StatusRead(a, u, o, s) ==
  /\ admins[a].pc = "idle"
  /\ IsAdmin(u)
  /\ Changeable(o)
  /\ admins' = [admins EXCEPT
       ![a] = [pc |-> "updating", order |-> o, status |-> s, keyUser |-> u]]
  /\ UNCHANGED <<products, orders, queue, creates, edits, overtaken>>

\* Mutant: the status update dates a cancellation, and stock does not follow.
StatusWriteDates(a) ==
  /\ admins[a].pc = "updating"
  /\ orders' = [orders EXCEPT
       ![admins[a].order].status = admins[a].status,
       ![admins[a].order].cancelledAt = @ \/ admins[a].status = "CANCELLED"]
  /\ admins' = [admins EXCEPT ![a].pc = "mailing"]
  /\ overtaken' = overtaken \cup Overtakes(a)
  /\ UNCHANGED <<products, queue, creates, edits>>

\* Any status may be written, CANCELLED included: neither stock nor
\* cancelledAt follows it.
StatusWrite(a) ==
  /\ admins[a].pc = "updating"
  /\ orders' = [orders EXCEPT ![admins[a].order].status = admins[a].status]
  /\ admins' = [admins EXCEPT ![a].pc = "mailing"]
  /\ overtaken' = overtaken \cup Overtakes(a)
  /\ UNCHANGED <<products, queue, creates, edits>>

\* Mutant: a write that failed is mailed about.
AdminWriteFailsSilently(a) ==
  /\ Writing(a)
  /\ admins' = [admins EXCEPT ![a].pc = "mailing"]
  /\ UNCHANGED <<products, orders, queue, creates, edits, overtaken>>

\* The database fails, or the transaction rolls back.
AdminWriteFails(a) ==
  /\ Writing(a)
  /\ admins' = [admins EXCEPT ![a].pc = "failed"]
  /\ UNCHANGED <<products, orders, queue, creates, edits, overtaken>>

MailKey(a) == <<admins[a].keyUser, admins[a].order>>

\* addEmailJob: a key that is marked as processed, or that is the id of a
\* job BullMQ still holds, adds nothing, and the handler answers all the
\* same.
QueueMail(a) ==
  /\ admins[a].pc = "mailing"
  /\ mails' = IF MailKey(a) \in mailKeys THEN mails
              ELSE mails \cup {[order |-> admins[a].order,
                                status |-> admins[a].status]}
  /\ mailKeys' = mailKeys \cup {MailKey(a)}
  /\ admins' = [admins EXCEPT ![a].pc = "ok"]
  /\ UNCHANGED <<products, orders, jobs, creates, edits, overtaken>>

MailRefused(a) ==
  /\ admins[a].pc = "mailing"
  /\ admins' = [admins EXCEPT ![a].pc = "failed"]
  /\ UNCHANGED <<products, orders, queue, creates, edits, overtaken>>

AdminStep(a) ==
  \/ CancelCommit(a) \/ StatusWrite(a) \/ AdminWriteFails(a)
  \/ QueueMail(a) \/ MailRefused(a)

\* A day after the mail was sent the mark and the finished job expire.
ForgetMailKey(k) ==
  /\ k \in mailKeys
  /\ mailKeys' = mailKeys \ {k}
  /\ UNCHANGED <<products, orders, jobs, mails, creates, admins, edits, overtaken>>

-----------------------------------------------------------------------------
(* Updating and deleting a product: SUpdateProduct and SDeleteProduct.     *)

\* The check of both handlers.
Editable(p) == ~deletedAt[p] /\ prodStatus[p] # 0

EditRefused(e, p) ==
  /\ edits[e].pc = "idle"
  /\ ~Editable(p)
  /\ edits' = [edits EXCEPT ![e].pc = "failed"]
  /\ UNCHANGED <<products, orders, queue, creates, admins, overtaken>>

UpdateRead(e, p, n, s) ==
  /\ edits[e].pc = "idle"
  /\ Editable(p)
  /\ edits' = [edits EXCEPT
       ![e] = [pc |-> "updating", product |-> p, stock |-> n, status |-> s]]
  /\ UNCHANGED <<products, orders, queue, creates, admins, overtaken>>

\* Mutant: a field that is not in the body overwrites its column.
WrittenAlways(old, new) == new

\* Only the fields of the body are written, stock as an absolute value.
Written(old, new) == IF new = Keep THEN old ELSE new

UpdateWrite(e) ==
  /\ edits[e].pc = "updating"
  /\ stock' = [stock EXCEPT ![edits[e].product] = Written(@, edits[e].stock)]
  /\ prodStatus' = [prodStatus EXCEPT
                      ![edits[e].product] = Written(@, edits[e].status)]
  /\ edits' = [edits EXCEPT ![e].pc = "ok"]
  /\ UNCHANGED <<deletedAt, orders, queue, creates, admins, overtaken>>

DeleteRead(e, p) ==
  /\ edits[e].pc = "idle"
  /\ Editable(p)
  /\ edits' = [edits EXCEPT
       ![e] = [pc |-> "deleting", product |-> p, stock |-> Keep,
               status |-> Keep]]
  /\ UNCHANGED <<products, orders, queue, creates, admins, overtaken>>

DeleteWrite(e) ==
  /\ edits[e].pc = "deleting"
  /\ deletedAt' = [deletedAt EXCEPT ![edits[e].product] = TRUE]
  /\ prodStatus' = [prodStatus EXCEPT ![edits[e].product] = 0]
  /\ edits' = [edits EXCEPT ![e].pc = "ok"]
  /\ UNCHANGED <<stock, orders, queue, creates, admins, overtaken>>

EditFails(e) ==
  /\ edits[e].pc \in {"updating", "deleting"}
  /\ edits' = [edits EXCEPT ![e].pc = "failed"]
  /\ UNCHANGED <<products, orders, queue, creates, admins, overtaken>>

EditStep(e) == UpdateWrite(e) \/ DeleteWrite(e) \/ EditFails(e)

-----------------------------------------------------------------------------
(* The process dies (or a shutdown exits it): every handler in flight is   *)
(* gone with what it held; what was committed or queued stays.             *)

Lose(ctxs) == [x \in DOMAIN ctxs |->
  IF ctxs[x].pc \in Ended \cup {"idle"} THEN ctxs[x]
  ELSE [ctxs[x] EXCEPT !.pc = "lost"]]

Crash ==
  /\ creates' = Lose(creates)
  /\ admins' = Lose(admins)
  /\ edits' = Lose(edits)
  /\ <<creates, admins, edits>>' # <<creates, admins, edits>>
  /\ UNCHANGED <<products, orders, queue, overtaken>>

-----------------------------------------------------------------------------
Arrive ==
  \/ \E r \in CreateReqs, u \in Users :
       CreateRefused(r, u) \/ \E c \in Carts : CreateStart(r, u, c)
  \/ \E a \in AdminReqs, u \in Users, o \in 1..Len(orders) + 1 :
       \/ AdminRefused(a, u, o)
       \/ CancelRead(a, u, o)
       \/ \E s \in Statuses : StatusRead(a, u, o, s)
  \/ \E e \in EditReqs, p \in Products :
       \/ EditRefused(e, p)
       \/ DeleteRead(e, p)
       \/ \E n \in StockEdits \cup {Keep}, s \in ProductStatuses \cup {Keep} :
            UpdateRead(e, p, n, s)

Next ==
  \/ Arrive
  \/ \E r \in CreateReqs : CreateStep(r)
  \/ \E a \in AdminReqs : AdminStep(a)
  \/ \E e \in EditReqs : EditStep(e)
  \/ \E k \in mailKeys : ForgetMailKey(k)
  \/ Crash

Spec == Init /\ [][Next]_vars

\* A handler that is running is resumed when its await settles, and the
\* drivers settle every call; that requests arrive, and that keys expire,
\* is nobody's promise.
FairSpec ==
  /\ Spec
  /\ \A r \in CreateReqs : WF_vars(CreateStep(r))
  /\ \A a \in AdminReqs : WF_vars(AdminStep(a))
  /\ \A e \in EditReqs : WF_vars(EditStep(e))

-----------------------------------------------------------------------------
(* Properties.                                                             *)

\* Order codes are handed out without gap or repetition, in the order of the
\* rows, although generateOrderCode reads outside the transaction and two
\* handlers may hold the same code: the UNIQUE column turns the second back.
CodesConsecutive == \A i \in 1..Len(orders) : orders[i].code = i

\* The units of p that the orders hold: those of every order whose stock was
\* not given back by a cancellation.
Held(p) == SumFunctionOnSet([i \in 1..Len(orders) |-> orders[i].units[p]],
                            {i \in 1..Len(orders) : ~orders[i].cancelledAt})

\* Whatever races, no unit disappears: what is on hand and what the orders
\* hold never come to less than the initial stock.  (Racing administrators
\* may make it more: see StockLedger.)  For a shop whose stock is not edited.
NoStockLost == \A p \in Products : stock[p] + Held(p) >= InitStock[p]

\* The orders that two requests changed at once: one wrote after the other had
\* checked the status and before it wrote.
Disputed == {admins[a].order : a \in overtaken}

\* Units are made by racing administrators only: of a product of which no
\* order is disputed every unit is on hand or held by one order.  An order's
\* units leave stock once and come back at most once.
StockLedger ==
  \A p \in Products :
    (\A i \in Disputed : orders[i].units[p] = 0) => stock[p] + Held(p) = InitStock[p]

\* A customer told that the order was placed has an order of their own in
\* the database with the units of the cart, and its processing job was
\* accepted; and no job was ever accepted for an order that is not there.
PlacedIsQueued ==
  /\ jobs \subseteq 1..Len(orders)
  /\ \A r \in CreateReqs : creates[r].pc = "ok" =>
       /\ creates[r].order \in jobs
       /\ orders[creates[r].order].user = creates[r].user
       /\ orders[creates[r].order].units = creates[r].units
       /\ \A s \in CreateReqs \ {r} : creates[s].order # creates[r].order

\* A product whose deletion was over before the request arrived is never
\* ordered, although an update that read the product before the deletion
\* may write its status back to active after it.
DeletedNeverOrdered ==
  \A r \in CreateReqs : creates[r].pc # "idle" =>
    \A p \in creates[r].gone : creates[r].units[p] = 0

\* A COMPLETED or CANCELLED order changes its status by one kind of step
\* only: the write of a request that had checked the status before the write
\* that ended the order, and that was in flight with it.
TerminalIsFinal ==
  [][\A i \in 1..Len(orders) :
       orders[i].status \in Terminal /\ orders'[i].status # orders[i].status =>
         \E a \in overtaken : admins[a].order = i /\ Writing(a) /\ ~Writing(a)'
    ]_vars

\* A mail that tells a customer of a final status tells the truth, for as long
\* as the order exists: the order has that status, unless it is disputed.
FinalMailsAgree ==
  \A m \in mails :
    m.status \in Terminal => orders[m.order].status = m.status \/ m.order \in Disputed

\* The order service implements the order book: what racing handlers do to
\* orders and stock could have been done by requests served one at a time,
\* and only a disputed order changes after it has ended.
BookOf(os) ==
  [i \in 1..Len(os) |-> [units |-> os[i].units, status |-> os[i].status]]
Book == INSTANCE OrderBook WITH book <- BookOf(orders), disputed <- Disputed
BookSpec == Book!Spec

\* Every request that a handler has taken up ends: it is answered, or lost
\* with the process; a code that another request took, and a queue that
\* refuses, leave nobody waiting.
RequestsEnd ==
  /\ \A r \in CreateReqs :
       (creates[r].pc # "idle") ~> (creates[r].pc \in Ended)
  /\ \A a \in AdminReqs : (admins[a].pc # "idle") ~> (admins[a].pc \in Ended)
  /\ \A e \in EditReqs : (edits[e].pc # "idle") ~> (edits[e].pc \in Ended)

-----------------------------------------------------------------------------
(* What the repository says and the code does not keep.                    *)

\* The stock check of SCreateOrder: nothing is sold that is not there.
NoOversell == \A p \in Products : stock[p] >= 0

\* A change of status that was answered with success has its mail.
ChangesAreMailed ==
  \A a \in AdminReqs :
    admins[a].pc = "ok" => [order |-> admins[a].order, status |-> admins[a].status] \in mails
=============================================================================
