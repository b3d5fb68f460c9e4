---------------------------- MODULE OrdersProofs ----------------------------
(***************************************************************************)
(* Theorems about Orders, for every number of products, users, carts and   *)
(* requests.                                                               *)
(***************************************************************************)
EXTENDS Orders, DataProofs

(***************************************************************************)
(* TypeOK alone is not inductive: the stock a cancellation writes is a     *)
(* number only because the order it cancels is a row of the table.         *)
(***************************************************************************)
AdminInFlight(a) == admins[a].pc \in {"cancelling", "updating", "mailing"}

KnownOrders ==
  \A a \in AdminReqs : AdminInFlight(a) => admins[a].order \in 1..Len(orders)

TypeInv == TypeOK /\ KnownOrders

LEMMA InitTypeInv == ASSUME Init PROVE TypeInv
  <1>1. /\ (CHOOSE u \in Users : TRUE) \in Users
        /\ (CHOOSE c \in Carts : TRUE) \in Carts
        /\ (CHOOSE p \in Products : TRUE) \in Products
    BY OrdersAssumption
  <1>2. creates \in [CreateReqs -> CreateCtx]
    BY <1>1 DEF Init, CreateCtx, CreatePc, NoUnits
  <1>3. admins \in [AdminReqs -> AdminCtx] /\ edits \in [EditReqs -> EditCtx]
    BY <1>1 DEF Init, AdminCtx, AdminPc, EditCtx, EditPc, Keep, Statuses
  <1>4. stock \in [Products -> Int] /\ orders \in Seq(OrderRow)
    BY OrdersAssumption DEF Init
  <1>5. KnownOrders
    BY DEF Init, KnownOrders, AdminInFlight
  <1> QED
    BY <1>2, <1>3, <1>4, <1>5 DEF Init, TypeInv, TypeOK, ProductStatuses

LEMMA CreateStepTypeOK ==
  ASSUME TypeOK, NEW r \in CreateReqs, CreateStep(r) PROVE TypeOK'
  <1> USE DEF TypeOK
  <1>0. creates[r] \in CreateCtx
    OBVIOUS
  <1>1. CASE ReadLine(r)
    <2>1. creates[r].cart \in Seq(Line) /\ creates[r].next \in 1..Len(creates[r].cart)
      BY <1>0, <1>1, OrdersAssumption DEF ReadLine, LinesRemain, CreateCtx
    <2>2. NextLine(r) \in Line
      BY <2>1, ElementOfSeq DEF NextLine
    <2>3. creates' \in [CreateReqs -> CreateCtx]
      BY <1>0, <1>1, <2>2 DEF ReadLine, CreateCtx, Line
    <2> QED BY <1>1, <2>3 DEF ReadLine, products, queue
  <1>2. CASE RefuseLine(r)
    BY <1>0, <1>2 DEF RefuseLine, products, queue, CreateCtx, CreatePc
  <1>3. CASE DrawCode(r)
    <2>1. NextCode \in Nat
      <3>1. CASE orders = <<>>
        BY <3>1 DEF NextCode
      <3>2. CASE orders # <<>>
        <4>1. Len(orders) \in 1..Len(orders)
          BY <3>2, EmptySeq
        <4>2. orders[Len(orders)] \in OrderRow
          BY <4>1, ElementOfSeq
        <4> QED BY <3>2, <4>2 DEF NextCode, OrderRow
      <3> QED BY <3>1, <3>2
    <2> QED
      BY <1>0, <1>3, <2>1 DEF DrawCode, products, queue, CreateCtx, CreatePc
  <1>4. CASE CommitOrder(r)
    <2>1. creates' \in [CreateReqs -> CreateCtx]
      <3>1. Len(orders) + 1 \in Nat
        BY LenProperties
      <3> QED BY <1>0, <1>4, <3>1 DEF CommitOrder, CreateCtx, CreatePc
    <2>2. stock' \in [Products -> Int]
      BY <1>0, <1>4 DEF CommitOrder, CreateCtx
    <2>3. orders' \in Seq(OrderRow)
      BY <1>0, <1>4 DEF CommitOrder, CreateCtx, OrderRow, Statuses
    <2> QED BY <1>4, <2>1, <2>2, <2>3 DEF CommitOrder, queue
  <1>5. CASE AbortOrder(r)
    BY <1>0, <1>5 DEF AbortOrder, products, queue, CreateCtx, CreatePc
  <1>6. CASE QueueOrderJob(r)
    BY <1>0, <1>6 DEF QueueOrderJob, products, queue, CreateCtx, CreatePc
  <1>7. CASE OrderJobRefused(r)
    BY <1>0, <1>7 DEF OrderJobRefused, products, queue, CreateCtx, CreatePc
  <1> QED
    BY <1>1, <1>2, <1>3, <1>4, <1>5, <1>6, <1>7 DEF CreateStep

LEMMA AdminStepTypeOK ==
  ASSUME TypeInv, NEW a \in AdminReqs, AdminStep(a) PROVE TypeOK'
  <1> USE DEF TypeInv, TypeOK
  <1> DEFINE o == admins[a].order
  <1>0. admins[a] \in AdminCtx
    OBVIOUS
  <1>v. overtaken \cup Overtakes(a) \subseteq AdminReqs
    BY DEF Overtakes
  <1>k. AdminInFlight(a) => o \in 1..Len(orders) /\ orders[o] \in OrderRow
    BY ElementOfSeq DEF KnownOrders
  <1>1. CASE CancelCommit(a)
    <2>0. o \in 1..Len(orders) /\ orders[o] \in OrderRow
      BY <1>1, <1>k DEF CancelCommit, AdminInFlight
    <2>1. admins' \in [AdminReqs -> AdminCtx]
      BY <1>0, <1>1 DEF CancelCommit, AdminCtx, AdminPc
    <2>2. orders' \in Seq(OrderRow)
      <3> DEFINE row == [orders[o] EXCEPT !.status = "CANCELLED", !.cancelledAt = TRUE]
      <3>1. row \in OrderRow
        BY <2>0 DEF OrderRow, Statuses
      <3>2. orders' = [orders EXCEPT ![o] = row]
        BY <1>1, <2>0 DEF CancelCommit
      <3> HIDE DEF row
      <3> QED BY <2>0, <3>1, <3>2, ExceptSeq
    <2>3. stock' \in [Products -> Int]
      BY <1>1, <2>0 DEF CancelCommit, OrderRow
    <2> QED BY <1>v, <1>1, <2>1, <2>2, <2>3 DEF CancelCommit, queue
  <1>2. CASE StatusWrite(a)
    <2>0. o \in 1..Len(orders) /\ orders[o] \in OrderRow
      BY <1>2, <1>k DEF StatusWrite, AdminInFlight
    <2>1. admins' \in [AdminReqs -> AdminCtx]
      BY <1>0, <1>2 DEF StatusWrite, AdminCtx, AdminPc
    <2>2. orders' \in Seq(OrderRow)
      <3> DEFINE row == [orders[o] EXCEPT !.status = admins[a].status]
      <3>1. row \in OrderRow
        BY <1>0, <2>0 DEF OrderRow, AdminCtx
      <3>2. orders' = [orders EXCEPT ![o] = row]
        BY <1>2, <2>0 DEF StatusWrite
      <3> HIDE DEF row
      <3> QED BY <2>0, <3>1, <3>2, ExceptSeq
    <2> QED BY <1>v, <1>2, <2>1, <2>2 DEF StatusWrite, products, queue
  <1>3. CASE AdminWriteFails(a)
    BY <1>0, <1>3 DEF AdminWriteFails, products, queue, AdminCtx, AdminPc
  <1>4. CASE QueueMail(a)
    <2>1. admins' \in [AdminReqs -> AdminCtx]
      BY <1>0, <1>4 DEF QueueMail, AdminCtx, AdminPc
    <2>2. /\ MailKey(a) \in Users \X Nat
          /\ [order |-> o, status |-> admins[a].status] \in
               [order : Nat, status : Statuses]
      BY <1>0 DEF MailKey, AdminCtx
    <2>3. /\ mails' \subseteq [order : Nat, status : Statuses]
          /\ mailKeys' \subseteq Users \X Nat
      BY <1>4, <2>2 DEF QueueMail
    <2> QED BY <1>4, <2>1, <2>3 DEF QueueMail, products
  <1>5. CASE MailRefused(a)
    BY <1>0, <1>5 DEF MailRefused, products, queue, AdminCtx, AdminPc
  <1> QED
    BY <1>1, <1>2, <1>3, <1>4, <1>5 DEF AdminStep

LEMMA EditStepTypeOK ==
  ASSUME TypeOK, NEW e \in EditReqs, EditStep(e) PROVE TypeOK'
  <1> USE DEF TypeOK
  <1>0. edits[e] \in EditCtx
    OBVIOUS
  <1>1. CASE UpdateWrite(e)
    <2>1. edits' \in [EditReqs -> EditCtx]
      BY <1>0, <1>1 DEF UpdateWrite, EditCtx, EditPc
    <2>2. /\ \A old \in Int : Written(old, edits[e].stock) \in Int
          /\ \A old \in ProductStatuses :
               Written(old, edits[e].status) \in ProductStatuses
      BY <1>0 DEF Written, EditCtx, Keep
    <2>3. /\ stock' \in [Products -> Int]
          /\ prodStatus' \in [Products -> ProductStatuses]
      BY <1>1, <2>2 DEF UpdateWrite
    <2> QED BY <1>1, <2>1, <2>3 DEF UpdateWrite, queue
  <1>2. CASE DeleteWrite(e)
    <2>1. edits' \in [EditReqs -> EditCtx]
      BY <1>0, <1>2 DEF DeleteWrite, EditCtx, EditPc
    <2>2. prodStatus' \in [Products -> ProductStatuses]
      <3>1. prodStatus' = [prodStatus EXCEPT ![edits[e].product] = 0]
        BY <1>2 DEF DeleteWrite
      <3>2. 0 \in ProductStatuses
        BY DEF ProductStatuses
      <3> QED BY <3>1, <3>2, Zenon
    <2>3. deletedAt' \in [Products -> BOOLEAN]
      BY <1>2, Zenon DEF DeleteWrite
    <2>4. UNCHANGED <<stock, orders, queue, creates, admins, overtaken>>
      BY <1>2 DEF DeleteWrite
    <2> QED BY <2>1, <2>2, <2>3, <2>4, Zenon DEF queue
  <1>3. CASE EditFails(e)
    BY <1>0, <1>3 DEF EditFails, products, queue, EditCtx, EditPc
  <1> QED
    BY <1>1, <1>2, <1>3 DEF EditStep

LEMMA ArriveTypeOK == ASSUME TypeInv, Arrive PROVE TypeOK'
  <1> USE DEF TypeInv, TypeOK
  <1>1. ASSUME NEW r \in CreateReqs, NEW u \in Users,
               \/ CreateRefused(r, u)
               \/ \E c \in Carts : CreateStart(r, u, c)
        PROVE  TypeOK'
    <2>1. CASE CreateRefused(r, u)
      <3> DEFINE ctx == [creates[r] EXCEPT !.pc = "failed"]
      <3>1. ctx \in CreateCtx
        BY DEF CreateCtx, CreatePc
      <3>2. /\ creates' = [creates EXCEPT ![r] = ctx]
            /\ UNCHANGED <<products, orders, queue, admins, edits, overtaken>>
        BY <2>1 DEF CreateRefused
      <3> HIDE DEF ctx
      <3>3. creates' \in [CreateReqs -> CreateCtx]
        BY <3>1, <3>2
      <3> QED BY <3>2, <3>3, Zenon DEF products, queue
    <2>2. ASSUME NEW c \in Carts, CreateStart(r, u, c) PROVE TypeOK'
      <3> DEFINE gone == {p \in Products : deletedAt[p]}
      <3>1. gone \in SUBSET Products
        OBVIOUS
      <3>2. /\ creates' = [creates EXCEPT
                 ![r].pc = "reading", ![r].user = u, ![r].cart = c,
                 ![r].gone = gone]
            /\ UNCHANGED <<products, orders, queue, admins, edits, overtaken>>
        BY <2>2 DEF CreateStart
      <3> HIDE DEF gone
      <3> DEFINE ctx == [creates[r] EXCEPT
                   !.pc = "reading", !.user = u, !.cart = c, !.gone = gone]
      <3>3. ctx \in CreateCtx
        <4>1. \A x \in CreateCtx : [x EXCEPT !.pc = "reading"] \in CreateCtx
          BY DEF CreateCtx, CreatePc
        <4>2. \A x \in CreateCtx : [x EXCEPT !.user = u] \in CreateCtx
          BY DEF CreateCtx
        <4>3. \A x \in CreateCtx : [x EXCEPT !.cart = c] \in CreateCtx
          BY DEF CreateCtx
        <4>4. \A x \in CreateCtx : [x EXCEPT !.gone = gone] \in CreateCtx
          BY <3>1 DEF CreateCtx
        <4>5. creates[r] \in CreateCtx
          OBVIOUS
        <4> QED BY <4>1, <4>2, <4>3, <4>4, <4>5
      <3>4. creates' = [creates EXCEPT ![r] = ctx]
        BY <3>2
      <3> HIDE DEF ctx
      <3>5. creates' \in [CreateReqs -> CreateCtx]
        BY <3>3, <3>4
      <3> QED BY <3>2, <3>5, Zenon DEF products, queue
    <2> QED BY <1>1, <2>1, <2>2
  <1>2. ASSUME NEW a \in AdminReqs, NEW u \in Users,
               NEW o \in 1..Len(orders) + 1,
               \/ AdminRefused(a, u, o)
               \/ CancelRead(a, u, o)
               \/ \E s \in Statuses : StatusRead(a, u, o, s)
        PROVE  TypeOK'
    <2>1. CASE AdminRefused(a, u, o)
      BY <2>1 DEF AdminRefused, products, queue, AdminCtx, AdminPc
    <2>2. CASE CancelRead(a, u, o)
      <3>1. o \in 1..Len(orders) /\ orders[o] \in OrderRow
        BY <2>2, ElementOfSeq DEF CancelRead, Changeable
      <3>2. [pc |-> "cancelling", order |-> o, status |-> "CANCELLED",
             keyUser |-> orders[o].user] \in AdminCtx
        BY <3>1, LenProperties DEF AdminCtx, AdminPc, OrderRow, Statuses
      <3>3. admins' \in [AdminReqs -> AdminCtx]
        BY <2>2, <3>2 DEF CancelRead
      <3> QED BY <2>2, <3>3 DEF CancelRead, products, queue
    <2>3. ASSUME NEW s \in Statuses, StatusRead(a, u, o, s) PROVE TypeOK'
      BY <2>3, LenProperties DEF StatusRead, products, queue, AdminCtx, AdminPc
    <2> QED BY <1>2, <2>1, <2>2, <2>3
  <1>3. ASSUME NEW e \in EditReqs, NEW p \in Products,
               \/ EditRefused(e, p)
               \/ DeleteRead(e, p)
               \/ \E n \in StockEdits \cup {Keep},
                     s \in ProductStatuses \cup {Keep} : UpdateRead(e, p, n, s)
        PROVE  TypeOK'
    <2>1. CASE EditRefused(e, p)
      BY <2>1 DEF EditRefused, products, queue, EditCtx, EditPc
    <2>2. CASE DeleteRead(e, p)
      BY <2>2 DEF DeleteRead, products, queue, EditCtx, EditPc
    <2>3. ASSUME NEW n \in StockEdits \cup {Keep},
                 NEW s \in ProductStatuses \cup {Keep}, UpdateRead(e, p, n, s)
          PROVE TypeOK'
      BY <2>3, OrdersAssumption
      DEF UpdateRead, products, queue, EditCtx, EditPc
    <2> QED BY <1>3, <2>1, <2>2, <2>3
  <1> QED
    BY <1>1, <1>2, <1>3 DEF Arrive

LEMMA LoseType ==
  ASSUME NEW S, NEW C, NEW ctxs \in [S -> C], \A c \in C : [c EXCEPT !.pc = "lost"] \in C
  PROVE  Lose(ctxs) \in [S -> C]
  BY DEF Lose

LEMMA CrashTypeOK == ASSUME TypeOK, Crash PROVE TypeOK'
  <1>1. creates' \in [CreateReqs -> CreateCtx]
    <2>1. \A c \in CreateCtx : [c EXCEPT !.pc = "lost"] \in CreateCtx
      BY DEF CreateCtx, CreatePc
    <2> QED BY <2>1, LoseType DEF TypeOK, Crash
  <1>2. admins' \in [AdminReqs -> AdminCtx]
    <2>1. \A c \in AdminCtx : [c EXCEPT !.pc = "lost"] \in AdminCtx
      BY DEF AdminCtx, AdminPc
    <2> QED BY <2>1, LoseType DEF TypeOK, Crash
  <1>3. edits' \in [EditReqs -> EditCtx]
    <2>1. \A c \in EditCtx : [c EXCEPT !.pc = "lost"] \in EditCtx
      BY DEF EditCtx, EditPc
    <2> QED BY <2>1, LoseType DEF TypeOK, Crash
  <1> QED BY <1>1, <1>2, <1>3 DEF TypeOK, Crash, products, queue

LEMMA NextTypeOK == ASSUME TypeInv, [Next]_vars PROVE TypeOK'
  <1>1. CASE Arrive
    BY <1>1, ArriveTypeOK
  <1>2. CASE \E r \in CreateReqs : CreateStep(r)
    BY <1>2, CreateStepTypeOK DEF TypeInv
  <1>3. CASE \E a \in AdminReqs : AdminStep(a)
    BY <1>3, AdminStepTypeOK
  <1>4. CASE \E e \in EditReqs : EditStep(e)
    BY <1>4, EditStepTypeOK DEF TypeInv
  <1>5. CASE \E k \in mailKeys : ForgetMailKey(k)
    BY <1>5 DEF TypeInv, TypeOK, ForgetMailKey, products
  <1>6. CASE Crash
    BY <1>6, CrashTypeOK DEF TypeInv
  <1>7. CASE UNCHANGED vars
    BY <1>7 DEF TypeInv, TypeOK, vars, products, queue
  <1> QED
    BY <1>1, <1>2, <1>3, <1>4, <1>5, <1>6, <1>7 DEF Next

(***************************************************************************)
(* The table of orders only grows, and of an existing row only the status  *)
(* and the date of cancellation change.                                    *)
(***************************************************************************)
RowsKept ==
  /\ Len(orders) \in Nat /\ Len(orders') \in Nat /\ Len(orders) <= Len(orders')
  /\ \A i \in 1..Len(orders) : /\ orders'[i].code = orders[i].code
                               /\ orders'[i].user = orders[i].user
                               /\ orders'[i].units = orders[i].units

LEMMA OrdersChange ==
  ASSUME [Next]_vars
  PROVE  \/ UNCHANGED orders
         \/ \E r \in CreateReqs : CommitOrder(r)
         \/ \E a \in AdminReqs : CancelCommit(a) \/ StatusWrite(a)
  BY DEF Next, vars, Arrive, CreateRefused, CreateStart, AdminRefused,
         CancelRead, StatusRead, EditRefused, DeleteRead, UpdateRead,
         CreateStep, ReadLine, RefuseLine, DrawCode, AbortOrder,
         QueueOrderJob, OrderJobRefused, AdminStep, AdminWriteFails,
         QueueMail, MailRefused, EditStep, UpdateWrite, DeleteWrite,
         EditFails, ForgetMailKey, Crash

\* What an administrator's write leaves of the row it changes.
LEMMA RowWritten ==
  ASSUME TypeInv, NEW a \in AdminReqs, CancelCommit(a) \/ StatusWrite(a)
  PROVE  /\ Len(orders') = Len(orders)
         /\ \A i \in 1..Len(orders) :
              /\ orders'[i].code = orders[i].code
              /\ orders'[i].user = orders[i].user
              /\ orders'[i].units = orders[i].units
              /\ i # admins[a].order => orders'[i] = orders[i]
         /\ LET o == admins[a].order IN
              /\ o \in 1..Len(orders)
              /\ orders'[o].status = IF CancelCommit(a) THEN "CANCELLED"
                                     ELSE admins[a].status
              /\ CancelCommit(a) => orders'[o].cancelledAt = TRUE
              /\ StatusWrite(a) => orders'[o].cancelledAt = orders[o].cancelledAt
  <1> USE DEF TypeInv, TypeOK
  <1> DEFINE o == admins[a].order
  <1>1. o \in 1..Len(orders)
    BY DEF KnownOrders, AdminInFlight, CancelCommit, StatusWrite
  <1>2. /\ DOMAIN orders = 1..Len(orders)
        /\ \A i \in 1..Len(orders) : orders[i] \in OrderRow
    BY ElementOfSeq, LenProperties
  <1>3. CASE CancelCommit(a)
    <2> DEFINE row == [orders[o] EXCEPT !.status = "CANCELLED", !.cancelledAt = TRUE]
    <2>1. /\ row.code = orders[o].code /\ row.user = orders[o].user
          /\ row.units = orders[o].units
          /\ row.status = "CANCELLED" /\ row.cancelledAt = TRUE
      BY <1>1, <1>2 DEF OrderRow
    <2>2. orders' = [orders EXCEPT ![o] = row] /\ ~StatusWrite(a)
      BY <1>1, <1>2, <1>3 DEF CancelCommit, StatusWrite
    <2> HIDE DEF row
    <2> QED BY <1>1, <1>2, <1>3, <2>1, <2>2, LenProperties
  <1>4. CASE StatusWrite(a)
    <2> DEFINE row == [orders[o] EXCEPT !.status = admins[a].status]
    <2>1. /\ row.code = orders[o].code /\ row.user = orders[o].user
          /\ row.units = orders[o].units
          /\ row.status = admins[a].status
          /\ row.cancelledAt = orders[o].cancelledAt
      BY <1>1, <1>2 DEF OrderRow
    <2>2. orders' = [orders EXCEPT ![o] = row] /\ ~CancelCommit(a)
      BY <1>1, <1>2, <1>4 DEF CancelCommit, StatusWrite
    <2> HIDE DEF row
    <2> QED BY <1>1, <1>2, <1>4, <2>1, <2>2, LenProperties
  <1> QED
    BY <1>3, <1>4

LEMMA RowAdded ==
  ASSUME TypeOK, NEW r \in CreateReqs, CommitOrder(r)
  PROVE  /\ Len(orders') = Len(orders) + 1
         /\ \A i \in 1..Len(orders) : orders'[i] = orders[i]
         /\ orders'[Len(orders) + 1].code = creates[r].code
         /\ orders'[Len(orders) + 1].user = creates[r].user
         /\ orders'[Len(orders) + 1].units = creates[r].units
         /\ orders'[Len(orders) + 1].status = "PENDING"
         /\ orders'[Len(orders) + 1].cancelledAt = FALSE
  BY LenProperties DEF CommitOrder, TypeOK

LEMMA OrdersGrow ==
  ASSUME TypeInv, [Next]_vars
  PROVE  /\ RowsKept
         /\ Len(orders') = Len(orders) \/ \E r \in CreateReqs : CommitOrder(r)
  <1>0. Len(orders) \in Nat
    BY LenProperties DEF TypeInv, TypeOK
  <1>1. CASE UNCHANGED orders
    BY <1>0, <1>1 DEF RowsKept
  <1>2. ASSUME NEW r \in CreateReqs, CommitOrder(r) PROVE RowsKept
    <2>1. /\ Len(orders') = Len(orders) + 1
          /\ \A i \in 1..Len(orders) : orders'[i] = orders[i]
      BY <1>2, RowAdded DEF TypeInv
    <2> QED BY <1>0, <2>1 DEF RowsKept
  <1>3. ASSUME NEW a \in AdminReqs, CancelCommit(a) \/ StatusWrite(a)
        PROVE  RowsKept /\ Len(orders') = Len(orders)
    <2>1. /\ Len(orders') = Len(orders)
          /\ \A i \in 1..Len(orders) :
               /\ orders'[i].code = orders[i].code
               /\ orders'[i].user = orders[i].user
               /\ orders'[i].units = orders[i].units
      BY <1>3, RowWritten
    <2> QED BY <1>0, <2>1 DEF RowsKept
  <1> QED
    BY <1>1, <1>2, <1>3, OrdersChange

(***************************************************************************)
(* An administrator handler in flight after a step was in flight before    *)
(* it, with the same request, or has just read its order.                  *)
(***************************************************************************)
JustRead(b) ==
  \E u \in Users, o \in 1..Len(orders) + 1 :
    \/ CancelRead(b, u, o)
    \/ \E s \in Statuses : StatusRead(b, u, o, s)

Continues(b) ==
  /\ AdminInFlight(b)
  /\ admins'[b].order = admins[b].order
  /\ Writing(b)' => UNCHANGED admins[b]

LEMMA InFlightChange ==
  ASSUME TypeOK, [Next]_vars, NEW b \in AdminReqs, AdminInFlight(b)'
  PROVE  Continues(b) \/ JustRead(b)
  <1> USE DEF TypeOK, AdminInFlight, Writing, Continues, AdminCtx
  <1>1. CASE UNCHANGED admins
    BY <1>1
  <1>2. ASSUME NEW a \in AdminReqs, AdminStep(a) PROVE Continues(b)
    <2>1. CASE CancelCommit(a)
      BY <2>1 DEF CancelCommit
    <2>2. CASE StatusWrite(a)
      BY <2>2 DEF StatusWrite
    <2>3. CASE AdminWriteFails(a)
      BY <2>3 DEF AdminWriteFails
    <2>4. CASE QueueMail(a)
      BY <2>4 DEF QueueMail
    <2>5. CASE MailRefused(a)
      BY <2>5 DEF MailRefused
    <2> QED BY <1>2, <2>1, <2>2, <2>3, <2>4, <2>5 DEF AdminStep
  <1>3. ASSUME NEW a \in AdminReqs, NEW u \in Users,
               NEW o \in 1..Len(orders) + 1, AdminRefused(a, u, o)
        PROVE  Continues(b)
    BY <1>3 DEF AdminRefused
  <1>4. ASSUME NEW a \in AdminReqs, JustRead(a)
        PROVE  Continues(b) \/ JustRead(b)
    BY <1>4 DEF JustRead, CancelRead, StatusRead
  <1>5. CASE Crash
    BY <1>5 DEF Crash, Lose, Ended
  <1> QED
    BY <1>1, <1>2, <1>3, <1>4, <1>5
    DEF JustRead, Next, vars, Arrive, CreateRefused, CreateStart, EditRefused,
        DeleteRead, UpdateRead, CreateStep, ReadLine, RefuseLine, DrawCode,
        CommitOrder, AbortOrder, QueueOrderJob, OrderJobRefused, EditStep,
        UpdateWrite, DeleteWrite, EditFails, ForgetMailKey

\* What the handler has read when it goes on to write.
LEMMA ReadOrder ==
  ASSUME TypeOK, NEW b \in AdminReqs, JustRead(b)
  PROVE  /\ admins[b].pc = "idle"
         /\ admins'[b].order \in 1..Len(orders)
         /\ orders[admins'[b].order].status \notin Terminal
         /\ UNCHANGED orders
         /\ \A c \in AdminReqs \ {b} : UNCHANGED admins[c]
  BY DEF TypeOK, JustRead, CancelRead, StatusRead, Changeable

LEMMA NextKnownOrders == ASSUME TypeInv, [Next]_vars PROVE KnownOrders'
  <1> SUFFICES ASSUME NEW b \in AdminReqs, AdminInFlight(b)'
               PROVE  admins'[b].order \in 1..Len(orders')
    BY DEF KnownOrders
  <1>1. CASE Continues(b)
    BY <1>1, OrdersGrow DEF Continues, RowsKept, TypeInv, KnownOrders
  <1>2. CASE JustRead(b)
    BY <1>2, ReadOrder DEF TypeInv
  <1> QED
    BY <1>1, <1>2, InFlightChange DEF TypeInv

\* Every state of the order service has the types declared for it, and every
\* administrator handler in flight works on a row of the table.
THEOREM TypeCorrect == Spec => []TypeInv
  <1>1. Init => TypeInv
    BY InitTypeInv
  <1>2. TypeInv /\ [Next]_vars => TypeInv'
    BY NextTypeOK, NextKnownOrders DEF TypeInv
  <1> QED
    BY <1>1, <1>2, PTL DEF Spec

\* Every variable keeps its type, whatever handlers race, fail or die.
THEOREM Typing == Spec => []TypeOK
  <1>1. TypeInv => TypeOK
    BY DEF TypeInv
  <1> QED
    BY <1>1, TypeCorrect, PTL

(***************************************************************************)
(* Order codes.  A handler may hold a code that is no longer the next one, *)
(* but never one beyond it: the UNIQUE column then leaves only the next.   *)
(***************************************************************************)
DrawnCodes ==
  \A r \in CreateReqs :
    creates[r].pc = "inTx" => creates[r].code \in 1..Len(orders) + 1

CodeInv == CodesConsecutive /\ DrawnCodes

LEMMA InitCodeInv == ASSUME Init PROVE CodeInv
  BY DEF Init, CodeInv, CodesConsecutive, DrawnCodes

LEMMA NextCodeIsNext ==
  ASSUME TypeOK, CodesConsecutive PROVE NextCode = Len(orders) + 1
  <1>1. CASE orders = <<>>
    BY <1>1 DEF NextCode
  <1>2. CASE orders # <<>>
    <2>1. Len(orders) \in 1..Len(orders)
      BY <1>2, EmptySeq DEF TypeOK
    <2> QED BY <1>2, <2>1 DEF NextCode, CodesConsecutive
  <1> QED BY <1>1, <1>2

LEMMA NextCodesConsecutive ==
  ASSUME TypeInv, CodeInv, [Next]_vars PROVE CodesConsecutive'
  <1>0. RowsKept
    BY OrdersGrow
  <1>1. CASE Len(orders') = Len(orders)
    BY <1>0, <1>1 DEF RowsKept, CodesConsecutive, CodeInv
  <1>2. ASSUME NEW r \in CreateReqs, CommitOrder(r) PROVE CodesConsecutive'
    <2>1. creates[r].code \in 1..Len(orders) + 1
      BY <1>2 DEF CommitOrder, CodeInv, DrawnCodes
    <2>2. creates[r].code \notin 1..Len(orders)
      BY <1>2 DEF CommitOrder, CodeFree, CodeInv, CodesConsecutive
    <2>3. creates[r].code = Len(orders) + 1
      BY <1>0, <2>1, <2>2 DEF RowsKept
    <2>4. /\ Len(orders') = Len(orders) + 1
          /\ orders'[Len(orders) + 1].code = Len(orders) + 1
      BY <1>2, <2>3, RowAdded DEF TypeInv
    <2> QED BY <1>0, <2>4 DEF RowsKept, CodesConsecutive, CodeInv
  <1> QED
    BY <1>1, <1>2, OrdersGrow

LEMMA NextDrawnCodes ==
  ASSUME TypeInv, CodeInv, [Next]_vars PROVE DrawnCodes'
  <1> SUFFICES ASSUME NEW q \in CreateReqs, creates'[q].pc = "inTx"
               PROVE  creates'[q].code \in 1..Len(orders') + 1
    BY DEF DrawnCodes
  <1> USE DEF TypeInv, TypeOK
  <1>0. RowsKept
    BY OrdersGrow
  <1>1. CASE creates'[q] = creates[q]
    BY <1>0, <1>1 DEF RowsKept, CodeInv, DrawnCodes
  <1>2. CASE DrawCode(q)
    <2>1. creates'[q].code = NextCode /\ UNCHANGED orders
      BY <1>2 DEF DrawCode, CreateCtx
    <2> QED BY <1>0, <2>1, NextCodeIsNext DEF CodeInv, RowsKept
  <1>3. creates'[q] = creates[q] \/ DrawCode(q)
    <2>1. CASE UNCHANGED creates
      BY <2>1
    <2>2. ASSUME NEW r \in CreateReqs, CreateStep(r) PROVE <1>3
      <3>1. CASE r # q
        BY <2>2, <3>1 DEF CreateStep, ReadLine, RefuseLine, DrawCode,
             CommitOrder, AbortOrder, QueueOrderJob, OrderJobRefused
      <3>2. CASE r = q /\ ReadLine(r)
        BY <3>2 DEF ReadLine, CreateCtx
      <3>3. CASE r = q /\ ~ReadLine(r) /\ ~DrawCode(r)
        BY <2>2, <3>3 DEF CreateStep, RefuseLine, CommitOrder, AbortOrder,
             QueueOrderJob, OrderJobRefused, CreateCtx
      <3> QED BY <3>1, <3>2, <3>3
    <2>3. ASSUME NEW r \in CreateReqs, NEW u \in Users,
                 \/ CreateRefused(r, u)
                 \/ \E c \in Carts : CreateStart(r, u, c)
          PROVE  <1>3
      <3>1. CASE CreateRefused(r, u)
        BY <3>1 DEF CreateRefused, CreateCtx
      <3>2. ASSUME NEW c \in Carts, CreateStart(r, u, c) PROVE <1>3
        BY <3>2 DEF CreateStart, CreateCtx
      <3> QED BY <2>3, <3>1, <3>2
    <2>4. CASE Crash
      BY <2>4 DEF Crash, Lose, Ended, CreateCtx
    <2> QED
      BY <2>1, <2>2, <2>3, <2>4
      DEF Next, vars, Arrive, AdminRefused, CancelRead, StatusRead,
          EditRefused, DeleteRead, UpdateRead, AdminStep, CancelCommit,
          StatusWrite, AdminWriteFails, QueueMail, MailRefused, EditStep,
          UpdateWrite, DeleteWrite, EditFails, ForgetMailKey
  <1> QED
    BY <1>1, <1>2, <1>3

\* Whatever handlers race for a code, roll back or die, the orders in the
\* database are numbered 1, 2, 3, ... in the order of their rows.
THEOREM CodesAreConsecutive == Spec => []CodesConsecutive
  <1>1. Init => CodeInv
    BY InitCodeInv
  <1>2. TypeInv /\ CodeInv /\ [Next]_vars => CodeInv'
    BY NextCodesConsecutive, NextDrawnCodes DEF CodeInv
  <1>3. CodeInv => CodesConsecutive
    BY DEF CodeInv
  <1> QED
    BY <1>1, <1>2, <1>3, TypeCorrect, PTL DEF Spec

\* What a step does to one administrator handler.
LEMMA AdminsChange ==
  ASSUME TypeOK, [Next]_vars, NEW b \in AdminReqs
  PROVE  \/ UNCHANGED admins[b]
         \/ AdminStep(b)
         \/ JustRead(b)
         \/ /\ admins[b].pc # "ok" /\ admins'[b].pc \in {"failed", "lost"}
            /\ admins'[b].order = admins[b].order
  <1> USE DEF TypeOK, AdminCtx
  <1>1. CASE UNCHANGED admins
    BY <1>1
  <1>2. ASSUME NEW a \in AdminReqs, AdminStep(a) \/ JustRead(a)
        PROVE  UNCHANGED admins[b] \/ AdminStep(b) \/ JustRead(b)
    <2>1. CASE a # b
      BY <1>2, <2>1 DEF AdminStep, CancelCommit, StatusWrite, AdminWriteFails,
                        QueueMail, MailRefused, JustRead, CancelRead, StatusRead
    <2> QED BY <1>2, <2>1
  <1>3. ASSUME NEW a \in AdminReqs, NEW u \in Users,
               NEW o \in 1..Len(orders) + 1, AdminRefused(a, u, o)
        PROVE  \/ UNCHANGED admins[b]
               \/ /\ admins[b].pc # "ok" /\ admins'[b].pc \in {"failed", "lost"}
                  /\ admins'[b].order = admins[b].order
    BY <1>3 DEF AdminRefused
  <1>4. CASE Crash
    BY <1>4 DEF Crash, Lose, Ended
  <1>5. \/ UNCHANGED admins \/ Crash
        \/ \E a \in AdminReqs : AdminStep(a) \/ JustRead(a)
        \/ \E a \in AdminReqs, u \in Users, o \in 1..Len(orders) + 1 : AdminRefused(a, u, o)
    BY DEF JustRead, Next, vars, Arrive, CreateRefused, CreateStart, EditRefused,
        DeleteRead, UpdateRead, CreateStep, ReadLine, RefuseLine, DrawCode,
        CommitOrder, AbortOrder, QueueOrderJob, OrderJobRefused, EditStep,
        UpdateWrite, DeleteWrite, EditFails, ForgetMailKey
  <1> QED
    BY <1>1, <1>2, <1>3, <1>4, <1>5

(***************************************************************************)
(* Administrators at once.  The handlers check a status and write without  *)
(* looking again; the check is stale only for those that are overtaken.    *)
(***************************************************************************)
OpenOrders ==
  \A a \in AdminReqs \ overtaken :
    Writing(a) => orders[admins[a].order].status \notin Terminal

\* A dispute is about an order that is there, and stays.
KnownDisputes ==
  \A a \in overtaken : admins[a].pc # "idle" /\ admins[a].order \in 1..Len(orders)

RaceInv == OpenOrders /\ KnownDisputes

LEMMA InitRaceInv == ASSUME Init PROVE RaceInv
  BY DEF Init, RaceInv, OpenOrders, KnownDisputes, Writing

\* Who is overtaken by a step.
LEMMA OvertakenChange ==
  ASSUME [Next]_vars
  PROVE  \/ UNCHANGED overtaken
         \/ \E a \in AdminReqs : /\ CancelCommit(a) \/ StatusWrite(a)
                                 /\ overtaken' = overtaken \cup Overtakes(a)
  BY DEF Next, vars, Arrive, CreateRefused, CreateStart, AdminRefused,
         CancelRead, StatusRead, EditRefused, DeleteRead, UpdateRead,
         CreateStep, ReadLine, RefuseLine, DrawCode, CommitOrder, AbortOrder,
         QueueOrderJob, OrderJobRefused, AdminStep, CancelCommit, StatusWrite,
         AdminWriteFails, QueueMail, MailRefused, EditStep, UpdateWrite,
         DeleteWrite, EditFails, ForgetMailKey, Crash

LEMMA NextOpenOrders ==
  ASSUME TypeInv, RaceInv, [Next]_vars PROVE OpenOrders'
  <1> SUFFICES ASSUME NEW b \in AdminReqs, b \notin overtaken', Writing(b)'
               PROVE  orders'[admins'[b].order].status \notin Terminal
    BY DEF OpenOrders
  <1> USE DEF TypeInv
  <1>1. CASE JustRead(b)
    BY <1>1, ReadOrder
  <1>2. CASE Continues(b)
    <2> DEFINE o == admins[b].order
    <2>0. b \notin overtaken
      BY OvertakenChange
    <2>1. /\ admins'[b] = admins[b] /\ Writing(b) /\ AdminInFlight(b)
          /\ o \in 1..Len(orders) /\ orders[o].status \notin Terminal
      BY <1>2, <2>0 DEF Continues, Writing, KnownOrders, RaceInv, OpenOrders
    <2>2. CASE UNCHANGED orders
      BY <2>1, <2>2
    <2>3. CASE \E r \in CreateReqs : CommitOrder(r)
      BY <2>1, <2>3, RowAdded
    <2>4. ASSUME NEW a \in AdminReqs, CancelCommit(a) \/ StatusWrite(a)
          PROVE  orders'[o].status \notin Terminal
      <3>1. AdminInFlight(a) /\ ~Writing(a)'
        <4>1. CASE CancelCommit(a)
          BY <4>1 DEF CancelCommit, AdminInFlight, Writing, TypeOK, AdminCtx
        <4>2. CASE StatusWrite(a)
          BY <4>2 DEF StatusWrite, AdminInFlight, Writing, TypeOK, AdminCtx
        <4> QED BY <2>4, <4>1, <4>2
      <3>2. b \notin Overtakes(a)
        BY <2>4 DEF CancelCommit, StatusWrite
      <3>3. admins[a].order # o
        BY <2>1, <3>1, <3>2 DEF Overtakes
      <3> QED BY <2>1, <2>4, <3>3, RowWritten
    <2> QED BY <2>1, <2>2, <2>3, <2>4, OrdersChange
  <1> QED
    BY <1>1, <1>2, InFlightChange DEF AdminInFlight, Writing

\* A request that has been taken up keeps its order.
LEMMA OrderOfRequestKept ==
  ASSUME TypeOK, [Next]_vars, NEW b \in AdminReqs, admins[b].pc # "idle"
  PROVE  admins'[b].pc # "idle" /\ admins'[b].order = admins[b].order
  <1> USE DEF TypeOK, AdminCtx
  <1>1. CASE AdminStep(b)
    BY <1>1 DEF AdminStep, CancelCommit, StatusWrite, AdminWriteFails, QueueMail, MailRefused
  <1>2. ~JustRead(b)
    BY ReadOrder
  <1> QED
    BY <1>1, <1>2, AdminsChange

LEMMA NextKnownDisputes ==
  ASSUME TypeInv, RaceInv, [Next]_vars PROVE KnownDisputes'
  <1> SUFFICES ASSUME NEW b \in overtaken'
               PROVE  admins'[b].pc # "idle" /\ admins'[b].order \in 1..Len(orders')
    BY DEF KnownDisputes
  <1>1. b \in AdminReqs /\ admins[b].pc # "idle" /\ admins[b].order \in 1..Len(orders)
    <2>1. CASE b \in overtaken
      BY <2>1 DEF RaceInv, KnownDisputes, TypeInv, TypeOK
    <2>2. CASE b \notin overtaken
      <3>1. b \in AdminReqs /\ Writing(b)
        BY <2>2, OvertakenChange DEF Overtakes
      <3> QED BY <3>1 DEF Writing, TypeInv, KnownOrders, AdminInFlight
    <2> QED BY <2>1, <2>2
  <1> QED
    BY <1>1, OrderOfRequestKept, OrdersGrow DEF TypeInv, RowsKept

LEMMA RaceInvariant == Spec => []RaceInv
  <1>1. Init => RaceInv
    BY InitRaceInv
  <1>2. TypeInv /\ RaceInv /\ [Next]_vars => RaceInv'
    BY NextOpenOrders, NextKnownDisputes DEF RaceInv
  <1> QED
    BY <1>1, <1>2, TypeCorrect, PTL DEF Spec

\* Once disputed, always disputed.
LEMMA DisputesStay ==
  ASSUME TypeInv, RaceInv, [Next]_vars
  PROVE  /\ overtaken \subseteq overtaken'
         /\ Disputed \subseteq Disputed'
         /\ Disputed \subseteq 1..Len(orders)
  <1>1. overtaken \subseteq overtaken'
    BY OvertakenChange
  <1>2. \A a \in overtaken : admins'[a].order = admins[a].order
    BY OrderOfRequestKept DEF RaceInv, KnownDisputes, TypeInv, TypeOK
  <1> QED
    BY <1>1, <1>2 DEF Disputed, RaceInv, KnownDisputes

\* What the write of one that is not overtaken finds.
LEMMA WriteFindsOpen ==
  ASSUME TypeInv, RaceInv, NEW a \in AdminReqs, CancelCommit(a) \/ StatusWrite(a)
  PROVE  /\ Writing(a)
         /\ orders[admins[a].order].status \in Terminal =>
              a \in overtaken /\ admins[a].order \in Disputed
  BY DEF RaceInv, OpenOrders, Disputed, Writing, CancelCommit, StatusWrite

FinalKept ==
  \A i \in 1..Len(orders) :
    orders[i].status \in Terminal /\ orders'[i].status # orders[i].status =>
      \E a \in overtaken : admins[a].order = i /\ Writing(a) /\ ~Writing(a)'

LEMMA NextFinalKept ==
  ASSUME TypeInv, RaceInv, [Next]_vars PROVE FinalKept
  <1>1. CASE UNCHANGED orders
    BY <1>1 DEF FinalKept
  <1>2. CASE \E r \in CreateReqs : CommitOrder(r)
    BY <1>2, RowAdded DEF FinalKept, TypeInv
  <1>3. ASSUME NEW a \in AdminReqs, CancelCommit(a) \/ StatusWrite(a)
        PROVE  FinalKept
    <2>1. ~Writing(a)'
      BY <1>3 DEF CancelCommit, StatusWrite, Writing, TypeInv, TypeOK, AdminCtx
    <2> QED BY <1>3, <2>1, WriteFindsOpen, RowWritten DEF FinalKept
  <1> QED
    BY <1>1, <1>2, <1>3, OrdersChange

\* However administrators race, only an overtaken request changes the status
\* of an order that is completed or cancelled, and only by the one write that
\* it had in flight.
THEOREM FinalUnlessOvertaken == Spec => TerminalIsFinal
  <1>1. TypeInv /\ RaceInv /\ [Next]_vars => [FinalKept]_vars
    BY NextFinalKept
  <1> QED
    BY <1>1, TypeCorrect, RaceInvariant, PTL
    DEF Spec, TerminalIsFinal, FinalKept

(***************************************************************************)
(* Refinement of the order book.                                           *)
(***************************************************************************)
BookRow == [units : [Products -> Nat], status : Statuses]

LEMMA BookOfType ==
  ASSUME NEW os \in Seq(OrderRow)
  PROVE  /\ Len(os) \in Nat
         /\ BookOf(os) \in Seq(BookRow)
         /\ Len(BookOf(os)) = Len(os)
         /\ \A i \in 1..Len(os) :
              BookOf(os)[i] = [units |-> os[i].units, status |-> os[i].status]
  <1>1. Len(os) \in Nat
    BY LenProperties
  <1>2. \A i \in 1..Len(os) :
          [units |-> os[i].units, status |-> os[i].status] \in BookRow
    <2>1. \A i \in 1..Len(os) : os[i] \in OrderRow
      BY ElementOfSeq
    <2> QED BY <2>1 DEF OrderRow, BookRow
  <1>3. BookOf(os) \in [1..Len(os) -> BookRow]
    BY <1>2 DEF BookOf
  <1>4. \A i \in 1..Len(os) :
          BookOf(os)[i] = [units |-> os[i].units, status |-> os[i].status]
    BY DEF BookOf
  <1> QED
    BY <1>1, <1>3, <1>4

LEMMA CommitPlaces ==
  ASSUME TypeOK, TypeOK', NEW r \in CreateReqs, CommitOrder(r), UNCHANGED Disputed
  PROVE  Book!Place
  <1> DEFINE row == [units |-> creates[r].units, status |-> "PENDING"]
  <1>1. row \in BookRow /\ row.units = creates[r].units
    BY DEF TypeOK, CreateCtx, BookRow, Statuses
  <1>2. /\ BookOf(orders) \in Seq(BookRow) /\ BookOf(orders') \in Seq(BookRow)
        /\ Len(BookOf(orders)) = Len(orders) /\ Len(BookOf(orders')) = Len(orders')
        /\ Len(orders) \in Nat /\ Len(orders') = Len(orders) + 1
    BY BookOfType, RowAdded DEF TypeOK
  <1>b. /\ \A i \in 1..Len(orders) : BookOf(orders)[i] =
             [units |-> orders[i].units, status |-> orders[i].status]
        /\ \A i \in 1..Len(orders') : BookOf(orders')[i] =
             [units |-> orders'[i].units, status |-> orders'[i].status]
    BY BookOfType DEF TypeOK
  <1>c. \A i \in 1..Len(orders) : BookOf(orders')[i] = BookOf(orders)[i]
    <2>1. \A i \in 1..Len(orders) : orders'[i] = orders[i]
      BY RowAdded
    <2> QED BY <1>2, <1>b, <2>1
  <1>d. BookOf(orders')[Len(orders) + 1] = row
    <2>1. /\ orders'[Len(orders) + 1].units = creates[r].units
          /\ orders'[Len(orders) + 1].status = "PENDING"
      BY RowAdded
    <2> QED BY <1>2, <1>b, <2>1
  <1>3. BookOf(orders') = Append(BookOf(orders), row)
    <2>3. /\ Append(BookOf(orders), row) \in Seq(BookRow)
          /\ Len(Append(BookOf(orders), row)) = Len(orders) + 1
          /\ \A i \in 1..Len(orders) : Append(BookOf(orders), row)[i] = BookOf(orders)[i]
          /\ Append(BookOf(orders), row)[Len(orders) + 1] = row
      <3> HIDE DEF row
      <3> QED BY <1>1, <1>2
    <2>4. \A i \in 1..Len(BookOf(orders')) : BookOf(orders')[i] = Append(BookOf(orders), row)[i]
      BY <1>2, <1>c, <1>d, <2>3
    <2> HIDE DEF row
    <2> QED BY <1>2, <2>3, <2>4, SeqEqual
  <1>4. BookOf(orders')[Len(BookOf(orders'))] = row
    BY <1>2, <1>d
  <1>5. stock' = [p \in Products |-> stock[p] - row.units[p]]
    BY <1>1 DEF CommitOrder
  <1> HIDE DEF row
  <1>6. /\ Len(BookOf(orders')) = Len(BookOf(orders)) + 1
        /\ BookOf(orders')[Len(BookOf(orders'))].units \in [Products -> Nat]
        /\ BookOf(orders') = Append(BookOf(orders),
             [units |-> BookOf(orders')[Len(BookOf(orders'))].units, status |-> "PENDING"])
        /\ stock' = [p \in Products |->
                       stock[p] - BookOf(orders')[Len(BookOf(orders'))].units[p]]
    <2>1. row \in BookRow /\ row = [units |-> row.units, status |-> "PENDING"]
      BY <1>1 DEF row
    <2> QED BY <1>2, <1>3, <1>4, <1>5, <2>1 DEF BookRow
  <1> QED
    BY <1>6 DEF Book!Place, Book!Newest

\* A write disputes no order but the one it changes.
LEMMA WriteDisputes ==
  ASSUME TypeInv, RaceInv, NEW a \in AdminReqs, CancelCommit(a) \/ StatusWrite(a)
  PROVE  Disputed' \in {Disputed, Disputed \cup {admins[a].order}}
  <1>m. admins' = [admins EXCEPT ![a].pc = "mailing"]
    BY DEF CancelCommit, StatusWrite
  <1>1. \A b \in AdminReqs : admins'[b].order = admins[b].order
    BY <1>m DEF TypeInv, TypeOK, AdminCtx
  <1>2. overtaken \subseteq AdminReqs /\ Overtakes(a) \subseteq AdminReqs
    BY DEF Overtakes, TypeInv, TypeOK
  <1>3. Disputed' = {admins[b].order : b \in overtaken \cup Overtakes(a)}
    BY <1>1, <1>2 DEF Disputed, CancelCommit, StatusWrite
  <1>4. \A b \in Overtakes(a) : admins[b].order = admins[a].order
    BY DEF Overtakes
  <1>5. CASE Overtakes(a) = {}
    BY <1>3, <1>5 DEF Disputed
  <1>6. CASE Overtakes(a) # {}
    BY <1>3, <1>4, <1>6 DEF Disputed
  <1> QED BY <1>5, <1>6

\* Other steps dispute nothing.
LEMMA DisputedUnchanged ==
  ASSUME TypeInv, RaceInv, [Next]_vars,
         \A a \in AdminReqs : ~(CancelCommit(a) \/ StatusWrite(a))
  PROVE  UNCHANGED Disputed
  <1>1. UNCHANGED overtaken
    BY OvertakenChange
  <1>2. \A a \in overtaken : admins'[a].order = admins[a].order
    BY OrderOfRequestKept DEF RaceInv, KnownDisputes, TypeInv, TypeOK
  <1> QED BY <1>1, <1>2 DEF Disputed

LEMMA WriteMoves ==
  ASSUME TypeInv, TypeOK', RaceInv, NEW a \in AdminReqs,
         CancelCommit(a) \/ StatusWrite(a)
  PROVE  \E i \in 1..Len(BookOf(orders)) :
           Book!Cancel(i) \/ \E s \in Statuses : Book!Move(i, s)
  <1> DEFINE o == admins[a].order
             s == IF CancelCommit(a) THEN "CANCELLED" ELSE admins[a].status
  <1>1. /\ Len(orders) \in Nat /\ Len(orders') = Len(orders)
        /\ BookOf(orders) \in Seq(BookRow) /\ Len(BookOf(orders)) = Len(orders)
        /\ BookOf(orders') \in Seq(BookRow) /\ Len(BookOf(orders')) = Len(orders')
    BY BookOfType, RowWritten DEF TypeInv, TypeOK
  <1>b. /\ \A i \in 1..Len(orders) : BookOf(orders)[i] =
             [units |-> orders[i].units, status |-> orders[i].status]
        /\ \A i \in 1..Len(orders') : BookOf(orders')[i] =
             [units |-> orders'[i].units, status |-> orders'[i].status]
    BY BookOfType DEF TypeInv, TypeOK
  <1>2. o \in 1..Len(orders) /\ (orders[o].status \in Terminal => o \in Disputed)
    BY RowWritten, WriteFindsOpen
  <1>3. s \in Statuses
    BY DEF TypeInv, TypeOK, AdminCtx, Statuses
  <1>4. BookOf(orders)[o] = [units |-> orders[o].units, status |-> orders[o].status]
    BY <1>2, <1>b
  <1>5. BookOf(orders') = [BookOf(orders) EXCEPT ![o].status = s]
    <2> DEFINE row == [BookOf(orders)[o] EXCEPT !.status = s]
    <2>1. row = [units |-> orders[o].units, status |-> s] /\ row \in BookRow
      BY <1>1, <1>2, <1>3, <1>4, ElementOfSeq DEF BookRow
    <2>2. BookOf(orders')[o] = row
      <3>1. orders'[o].units = orders[o].units /\ orders'[o].status = s
        BY RowWritten
      <3> QED BY <1>1, <1>2, <1>b, <2>1, <3>1
    <2>3. \A i \in 1..Len(orders) : i # o => BookOf(orders')[i] = BookOf(orders)[i]
      <3>1. \A i \in 1..Len(orders) : i # o => orders'[i] = orders[i]
        BY RowWritten
      <3> QED BY <1>1, <1>b, <3>1
    <2> HIDE DEF row, s
    <2>4. /\ [BookOf(orders) EXCEPT ![o] = row] \in Seq(BookRow)
          /\ Len([BookOf(orders) EXCEPT ![o] = row]) = Len(orders)
          /\ \A i \in 1..Len(orders) :
               [BookOf(orders) EXCEPT ![o] = row][i] = IF i = o THEN row ELSE BookOf(orders)[i]
      BY <1>1, <1>2, <2>1, ExceptSeq
    <2>5. BookOf(orders') = [BookOf(orders) EXCEPT ![o] = row]
      BY <1>1, <2>2, <2>3, <2>4, SeqEqual
    <2> QED BY <2>5 DEF row
  <1>6. Book!Open(o)
    BY <1>1, <1>2, <1>4 DEF Book!Open, Book!Terminal, Terminal
  <1>d. Book!MayDispute(o)
    BY WriteDisputes DEF Book!MayDispute
  <1>7. CASE CancelCommit(a)
    <2>1. stock' = [p \in Products |-> stock[p] + BookOf(orders)[o].units[p]]
      BY <1>4, <1>7 DEF CancelCommit
    <2>2. BookOf(orders') = [BookOf(orders) EXCEPT ![o].status = "CANCELLED"]
      BY <1>5, <1>7
    <2>3. Book!Cancel(o)
      BY <1>6, <1>d, <2>1, <2>2 DEF Book!Cancel
    <2> QED BY <1>1, <1>2, <2>3
  <1>8. CASE StatusWrite(a)
    <2>1. UNCHANGED stock
      BY <1>8 DEF StatusWrite, products
    <2>2. Book!Move(o, s)
      BY <1>5, <1>6, <1>d, <2>1 DEF Book!Move
    <2> QED BY <1>1, <1>2, <1>3, <2>2
  <1> QED
    BY <1>7, <1>8

LEMMA EditRestocks ==
  ASSUME TypeOK, NEW e \in EditReqs, UpdateWrite(e), UNCHANGED Disputed
  PROVE  [Book!Next]_(Book!bvars)
  <1> DEFINE p == edits[e].product
             n == edits[e].stock
  <1>1. /\ stock \in [Products -> Int] /\ p \in Products
        /\ n \in Nat \cup {Keep}
    BY DEF TypeOK, EditCtx
  <1>2. /\ stock' = [stock EXCEPT ![p] = Written(stock[p], n)]
        /\ UNCHANGED orders
    BY <1>1 DEF UpdateWrite
  <1>3. UNCHANGED BookOf(orders)
    BY <1>2
  <1>4. CASE n = Keep
    <2>1. UNCHANGED stock
      BY <1>1, <1>2, <1>4 DEF Written
    <2> QED BY <1>3, <2>1 DEF Book!bvars
  <1>5. CASE n # Keep
    <2>1. n \in Nat /\ stock' = [stock EXCEPT ![p] = n] /\ stock'[p] = n
      BY <1>1, <1>2, <1>5 DEF Written
    <2> HIDE DEF p, n
    <2>2. Book!Restock
      BY <1>1, <1>3, <2>1 DEF Book!Restock
    <2> QED BY <2>2 DEF Book!Next
  <1> QED
    BY <1>4, <1>5

LEMMA StockChange ==
  ASSUME [Next]_vars
  PROVE  \/ UNCHANGED <<stock, orders>>
         \/ \E r \in CreateReqs : CommitOrder(r)
         \/ \E a \in AdminReqs : CancelCommit(a) \/ StatusWrite(a)
         \/ \E e \in EditReqs : UpdateWrite(e)
  <1>1. CASE Arrive
    <2>1. ASSUME NEW r \in CreateReqs, NEW u \in Users,
                 CreateRefused(r, u) \/ \E c \in Carts : CreateStart(r, u, c)
          PROVE  UNCHANGED <<stock, orders>>
      BY <2>1 DEF CreateRefused, CreateStart, products
    <2>2. ASSUME NEW a \in AdminReqs, NEW u \in Users, NEW o \in 1..Len(orders) + 1,
                 \/ AdminRefused(a, u, o) \/ CancelRead(a, u, o)
                 \/ \E s \in Statuses : StatusRead(a, u, o, s)
          PROVE  UNCHANGED <<stock, orders>>
      BY <2>2 DEF AdminRefused, CancelRead, StatusRead, products
    <2>3. ASSUME NEW e \in EditReqs, NEW p \in Products,
                 \/ EditRefused(e, p) \/ DeleteRead(e, p)
                 \/ \E n \in StockEdits \cup {Keep}, s \in ProductStatuses \cup {Keep} :
                      UpdateRead(e, p, n, s)
          PROVE  UNCHANGED <<stock, orders>>
      BY <2>3 DEF EditRefused, DeleteRead, UpdateRead, products
    <2> QED BY <1>1, <2>1, <2>2, <2>3 DEF Arrive
  <1>2. ASSUME NEW r \in CreateReqs, CreateStep(r)
        PROVE  CommitOrder(r) \/ UNCHANGED <<stock, orders>>
    BY <1>2 DEF CreateStep, ReadLine, RefuseLine, DrawCode, AbortOrder,
                QueueOrderJob, OrderJobRefused, products
  <1>3. ASSUME NEW a \in AdminReqs, AdminStep(a)
        PROVE  CancelCommit(a) \/ StatusWrite(a) \/ UNCHANGED <<stock, orders>>
    BY <1>3 DEF AdminStep, AdminWriteFails, QueueMail, MailRefused, products
  <1>4. ASSUME NEW e \in EditReqs, EditStep(e)
        PROVE  UpdateWrite(e) \/ UNCHANGED <<stock, orders>>
    BY <1>4 DEF EditStep, DeleteWrite, EditFails, products
  <1>5. CASE UNCHANGED vars \/ Crash \/ \E k \in mailKeys : ForgetMailKey(k)
    BY <1>5 DEF vars, products, Crash, ForgetMailKey
  <1> QED
    BY <1>1, <1>2, <1>3, <1>4, <1>5 DEF Next

LEMMA NextRefinesBook ==
  ASSUME TypeInv, RaceInv, [Next]_vars, TypeOK'
  PROVE  [Book!Next]_(Book!bvars)
  <1>1. ASSUME NEW a \in AdminReqs, CancelCommit(a) \/ StatusWrite(a)
        PROVE  Book!Next
    BY <1>1, WriteMoves DEF Book!Next, Book!Statuses, Statuses
  <1>2. CASE \A a \in AdminReqs : ~(CancelCommit(a) \/ StatusWrite(a))
    <2>0. UNCHANGED Disputed
      BY <1>2, DisputedUnchanged
    <2>1. CASE UNCHANGED <<stock, orders>>
      BY <2>0, <2>1 DEF Book!bvars
    <2>2. ASSUME NEW r \in CreateReqs, CommitOrder(r) PROVE Book!Next
      BY <2>0, <2>2, CommitPlaces DEF Book!Next, TypeInv
    <2>3. ASSUME NEW e \in EditReqs, UpdateWrite(e)
          PROVE  [Book!Next]_(Book!bvars)
      BY <2>0, <2>3, EditRestocks DEF TypeInv
    <2> QED BY <1>2, <2>1, <2>2, <2>3, StockChange
  <1> QED
    BY <1>1, <1>2

\* The order service implements the order book: an order takes its units
\* once, and unless it is disputed it gives them back at most once and stays
\* what it became when it ended.
THEOREM Refinement == Spec => BookSpec
  <1>1. Init => Book!Init
    <2>1. ASSUME Init PROVE BookOf(orders) = <<>> /\ Disputed = {}
      BY <2>1 DEF Init, BookOf, Disputed
    <2> QED BY <2>1 DEF Init, Book!Init
  <1>2. TypeInv /\ TypeInv' /\ RaceInv /\ [Next]_vars
          => [Book!Next]_(Book!bvars)
    BY NextRefinesBook DEF TypeInv
  <1> QED
    BY <1>1, <1>2, TypeCorrect, RaceInvariant, PTL
    DEF Spec, BookSpec, Book!Spec

(***************************************************************************)
(* Orders that customers were told of.  That the order of a handler is     *)
(* its own row, with its user and its units, is not inductive as it        *)
(* stands: the row is committed before its job is queued, and every row    *)
(* must be told apart from those that other handlers commit later.         *)
(***************************************************************************)
Before == {"idle", "reading", "inTx"}

\* A handler that has an order has committed it: the row is there, with its
\* user and its units, and is no other handler's.
OwnRows ==
  /\ \A r \in CreateReqs : creates[r].order # 0 =>
       /\ creates[r].pc \notin Before
       /\ creates[r].order \in 1..Len(orders)
       /\ orders[creates[r].order].user = creates[r].user
       /\ orders[creates[r].order].units = creates[r].units
       /\ \A s \in CreateReqs \ {r} : creates[s].order # creates[r].order
  /\ \A r \in CreateReqs : creates[r].pc \in {"committed", "ok"} => creates[r].order # 0

OwnJobs ==
  /\ jobs \subseteq 1..Len(orders)
  /\ \A r \in CreateReqs : creates[r].pc = "ok" => creates[r].order \in jobs

PlacedInv == OwnRows /\ OwnJobs

LEMMA InitPlacedInv == ASSUME Init PROVE PlacedInv
  BY DEF Init, PlacedInv, OwnRows, OwnJobs

\* What a step does to one POST /orders handler.
Starts(q) ==
  \E u \in Users : CreateRefused(q, u) \/ \E c \in Carts : CreateStart(q, u, c)

Dies(q) ==
  /\ creates[q].pc \notin Ended \cup {"idle"}
  /\ creates'[q] = [creates[q] EXCEPT !.pc = "lost"]

LEMMA CreatesChange ==
  ASSUME TypeOK, [Next]_vars, NEW q \in CreateReqs
  PROVE  UNCHANGED creates[q] \/ CreateStep(q) \/ Starts(q) \/ Dies(q)
  <1>1. CASE UNCHANGED creates
    BY <1>1
  <1>2. ASSUME NEW r \in CreateReqs, r # q,
               \/ CreateStep(r)
               \/ Starts(r)
        PROVE  UNCHANGED creates[q]
    BY <1>2 DEF TypeOK, Starts, CreateRefused, CreateStart, CreateStep, ReadLine,
                RefuseLine, DrawCode, CommitOrder, AbortOrder, QueueOrderJob,
                OrderJobRefused
  <1>3. CASE Crash
    BY <1>3 DEF TypeOK, Crash, Lose, Dies
  <1> QED
    BY <1>1, <1>2, <1>3
    DEF Next, vars, Arrive, Starts, AdminRefused, CancelRead, StatusRead,
        EditRefused, DeleteRead, UpdateRead, AdminStep, CancelCommit,
        StatusWrite, AdminWriteFails, QueueMail, MailRefused, EditStep,
        UpdateWrite, DeleteWrite, EditFails, ForgetMailKey

\* Both leave the order and the units alone.
LEMMA StartsOrDies ==
  ASSUME TypeOK, NEW q \in CreateReqs, Starts(q) \/ Dies(q)
  PROVE  /\ creates'[q].order = creates[q].order
         /\ creates'[q].units = creates[q].units
         /\ creates'[q].pc \in {"reading", "failed", "lost"}
         /\ Starts(q) => creates[q].pc = "idle"
         /\ Dies(q) => creates[q].pc # "idle" /\ creates'[q].pc = "lost"
                       /\ creates'[q].user = creates[q].user
  <1> USE DEF TypeOK
  <1>0. creates[q] \in CreateCtx
    OBVIOUS
  <1>1. ASSUME NEW u \in Users, CreateRefused(q, u)
        PROVE  /\ creates'[q] = [creates[q] EXCEPT !.pc = "failed"]
               /\ creates[q].pc = "idle"
    BY <1>1 DEF CreateRefused
  <1>2. ASSUME NEW u \in Users, NEW c \in Carts, CreateStart(q, u, c)
        PROVE  /\ \E g : creates'[q] = [creates[q] EXCEPT
                          !.pc = "reading", !.user = u, !.cart = c, !.gone = g]
               /\ creates[q].pc = "idle"
    <2> DEFINE g == {p \in Products : deletedAt[p]}
    <2>1. /\ creates' = [creates EXCEPT ![q].pc = "reading", ![q].user = u,
                          ![q].cart = c, ![q].gone = g]
          /\ creates[q].pc = "idle"
      BY <1>2 DEF CreateStart
    <2> HIDE DEF g
    <2> QED BY <2>1
  <1>3. CASE Starts(q)
    <2>1. creates[q].pc = "idle" /\ ~Dies(q)
      BY <1>1, <1>2, <1>3 DEF Starts, Dies
    <2>2. CASE \E u \in Users : CreateRefused(q, u)
      BY <1>0, <1>1, <2>1, <2>2 DEF CreateCtx
    <2>3. CASE \E u \in Users, c \in Carts : CreateStart(q, u, c)
      <3>0. PICK u \in Users, c \in Carts : CreateStart(q, u, c)
        BY <2>3
      <3>1. PICK g : creates'[q] = [creates[q] EXCEPT
                              !.pc = "reading", !.user = u, !.cart = c, !.gone = g]
        BY <1>2, <3>0
      <3>2. /\ creates'[q].order = creates[q].order /\ creates'[q].units = creates[q].units
            /\ creates'[q].pc = "reading"
        BY <1>0, <3>1 DEF CreateCtx
      <3> QED BY <2>1, <3>2
    <2> QED BY <1>3, <2>2, <2>3 DEF Starts
  <1>4. CASE Dies(q)
    <2>1. /\ creates'[q] = [creates[q] EXCEPT !.pc = "lost"]
          /\ creates[q].pc # "idle"
      BY <1>4 DEF Dies
    <2> QED BY <1>0, <1>3, <2>1 DEF CreateCtx
  <1> QED
    BY <1>3, <1>4

\* A handler that has an order after a step had it before, and the rest of
\* what it holds with it, or has committed it.
SameOrder(q) ==
  /\ creates'[q].order = creates[q].order
  /\ creates'[q].user = creates[q].user
  /\ creates'[q].units = creates[q].units
  /\ creates'[q].pc \notin Before

Commits(q) ==
  /\ CommitOrder(q)
  /\ creates'[q].order = Len(orders) + 1
  /\ creates'[q].user = creates[q].user
  /\ creates'[q].units = creates[q].units
  /\ creates'[q].pc = "committed"

LEMMA OrderKept ==
  ASSUME TypeOK, OwnRows, [Next]_vars, NEW q \in CreateReqs
  PROVE  \/ creates[q].order # 0 /\ SameOrder(q)
         \/ creates'[q].order = creates[q].order /\ creates[q].order = 0
         \/ Commits(q)
  <1> USE DEF TypeOK, CreateCtx, OwnRows, SameOrder, Before
  <1>0. creates[q] \in CreateCtx
    OBVIOUS
  <1>1. CASE UNCHANGED creates[q]
    BY <1>1
  <1>2. CASE Starts(q)
    BY <1>2, StartsOrDies
  <1>3. CASE Dies(q)
    BY <1>3, StartsOrDies
  <1>4. CASE ReadLine(q)
    BY <1>0, <1>4 DEF ReadLine
  <1>5. CASE RefuseLine(q) \/ DrawCode(q) \/ AbortOrder(q)
    BY <1>0, <1>5 DEF RefuseLine, DrawCode, AbortOrder
  <1>6. CASE QueueOrderJob(q) \/ OrderJobRefused(q)
    BY <1>0, <1>6 DEF QueueOrderJob, OrderJobRefused
  <1>7. CASE CommitOrder(q)
    BY <1>0, <1>7 DEF CommitOrder, Commits
  <1> QED
    BY <1>1, <1>2, <1>3, <1>4, <1>5, <1>6, <1>7, CreatesChange DEF CreateStep

\* Only one handler commits in a step.
LEMMA OneCommits ==
  ASSUME TypeOK, [Next]_vars, NEW q \in CreateReqs, NEW s \in CreateReqs, q # s,
         Commits(q)
  PROVE  creates'[s] = creates[s]
  BY DEF Commits, CommitOrder, TypeOK

LEMMA NextOwnRows ==
  ASSUME TypeInv, TypeOK', PlacedInv, [Next]_vars PROVE OwnRows'
  <1> USE DEF TypeInv, PlacedInv
  <1>0. RowsKept
    BY OrdersGrow
  <1>1. ASSUME NEW q \in CreateReqs, creates'[q].order # 0
        PROVE  /\ creates'[q].pc \notin Before
               /\ creates'[q].order \in 1..Len(orders')
               /\ orders'[creates'[q].order].user = creates'[q].user
               /\ orders'[creates'[q].order].units = creates'[q].units
    <2>1. CASE Commits(q)
      <3>1. /\ Len(orders') = Len(orders) + 1
            /\ orders'[Len(orders) + 1].user = creates[q].user
            /\ orders'[Len(orders) + 1].units = creates[q].units
        BY <2>1, RowAdded DEF Commits
      <3> QED BY <1>0, <2>1, <3>1 DEF Commits, Before, RowsKept
    <2>2. CASE creates[q].order # 0 /\ SameOrder(q)
      <3>1. creates[q].order \in 1..Len(orders)
        BY <2>2 DEF OwnRows
      <3> QED BY <1>0, <2>2, <3>1 DEF SameOrder, RowsKept, OwnRows
    <2> QED BY <1>1, <2>1, <2>2, OrderKept
  <1>2. ASSUME NEW q \in CreateReqs, NEW s \in CreateReqs \ {q},
               creates'[q].order # 0
        PROVE  creates'[s].order # creates'[q].order
    <2>0. /\ creates[q] \in CreateCtx /\ creates[s] \in CreateCtx
          /\ creates[q].order \in 0..Len(orders)
          /\ creates[s].order \in 0..Len(orders)
      BY <1>0 DEF TypeOK, OwnRows, RowsKept
    <2>1. CASE Commits(q)
      <3>1. creates'[s] = creates[s]
        BY <2>1, OneCommits
      <3> QED BY <1>0, <2>0, <2>1, <3>1 DEF Commits, RowsKept
    <2>2. CASE Commits(s)
      <3>1. creates'[q] = creates[q]
        BY <2>2, OneCommits
      <3> QED BY <1>0, <2>0, <2>2, <3>1 DEF Commits, RowsKept
    <2>3. CASE ~Commits(q) /\ ~Commits(s)
      BY <1>2, <2>3, OrderKept DEF SameOrder, OwnRows
    <2> QED BY <2>1, <2>2, <2>3
  <1>3. ASSUME NEW q \in CreateReqs, creates'[q].pc \in {"committed", "ok"}
        PROVE  creates'[q].order # 0
    <2> USE DEF TypeOK, CreateCtx
    <2>0. creates[q] \in CreateCtx
      OBVIOUS
    <2>1. CASE Commits(q)
      BY <1>0, <2>0, <2>1 DEF Commits, RowsKept
    <2>2. CASE creates[q].order # 0 /\ SameOrder(q)
      BY <2>2 DEF SameOrder
    <2>3. CASE creates[q].order = 0 /\ creates'[q].order = 0
      <3>0. creates[q].pc \notin {"committed", "ok"}
        BY <2>3 DEF OwnRows
      <3>1. CASE UNCHANGED creates[q]
        BY <1>3, <3>0, <3>1
      <3>2. CASE Starts(q)
        BY <1>3, <3>2, StartsOrDies
      <3>3. CASE Dies(q)
        BY <1>3, <3>3, StartsOrDies
      <3>4. CASE CreateStep(q) /\ ~CommitOrder(q)
        BY <1>3, <2>0, <2>3, <3>0, <3>4
        DEF CreateStep, ReadLine, RefuseLine, DrawCode, AbortOrder,
            QueueOrderJob, OrderJobRefused
      <3>5. CASE CommitOrder(q)
        BY <1>0, <2>0, <2>3, <3>5 DEF CommitOrder, RowsKept
      <3> QED BY <3>1, <3>2, <3>3, <3>4, <3>5, CreatesChange
    <2> QED BY <2>1, <2>2, <2>3, OrderKept DEF Commits
  <1> QED
    BY <1>1, <1>2, <1>3 DEF OwnRows

LEMMA JobsChange ==
  ASSUME [Next]_vars
  PROVE  UNCHANGED jobs \/ \E r \in CreateReqs : QueueOrderJob(r)
  BY DEF Next, vars, queue, Arrive, CreateRefused, CreateStart, AdminRefused,
         CancelRead, StatusRead, EditRefused, DeleteRead, UpdateRead,
         CreateStep, ReadLine, RefuseLine, DrawCode, CommitOrder, AbortOrder,
         OrderJobRefused, AdminStep, CancelCommit, StatusWrite,
         AdminWriteFails, QueueMail, MailRefused, EditStep, UpdateWrite,
         DeleteWrite, EditFails, ForgetMailKey, Crash

LEMMA NextOwnJobs ==
  ASSUME TypeInv, PlacedInv, [Next]_vars PROVE OwnJobs'
  <1> USE DEF TypeInv, PlacedInv
  <1>0. RowsKept /\ jobs \subseteq jobs'
    BY OrdersGrow, JobsChange DEF QueueOrderJob
  <1>1. jobs' \subseteq 1..Len(orders')
    <2>1. \A r \in CreateReqs : QueueOrderJob(r) => creates[r].order \in 1..Len(orders)
      BY DEF QueueOrderJob, OwnRows
    <2> QED BY <1>0, <2>1, JobsChange DEF OwnJobs, QueueOrderJob, RowsKept
  <1>2. ASSUME NEW q \in CreateReqs, creates'[q].pc = "ok"
        PROVE  creates'[q].order \in jobs'
    <2> USE DEF TypeOK, CreateCtx
    <2>0. creates[q] \in CreateCtx
      OBVIOUS
    <2>1. CASE UNCHANGED creates[q]
      BY <1>0, <1>2, <2>1 DEF OwnJobs
    <2>2. CASE Starts(q)
      BY <1>2, <2>2, StartsOrDies
    <2>3. CASE Dies(q)
      BY <1>2, <2>3, StartsOrDies
    <2>4. CASE QueueOrderJob(q)
      BY <2>0, <2>4 DEF QueueOrderJob
    <2>5. CASE CreateStep(q) /\ ~QueueOrderJob(q)
      <3>1. CASE ReadLine(q)
        BY <1>2, <2>0, <3>1 DEF ReadLine
      <3>2. CASE CommitOrder(q)
        BY <1>2, <2>0, <3>2 DEF CommitOrder
      <3>3. CASE DrawCode(q)
        BY <1>2, <2>0, <3>3 DEF DrawCode
      <3>4. CASE RefuseLine(q) \/ AbortOrder(q) \/ OrderJobRefused(q)
        BY <1>2, <2>0, <3>4 DEF RefuseLine, AbortOrder, OrderJobRefused
      <3> QED BY <2>5, <3>1, <3>2, <3>3, <3>4 DEF CreateStep
    <2> QED BY <2>1, <2>2, <2>3, <2>4, <2>5, CreatesChange
  <1> QED
    BY <1>1, <1>2 DEF OwnJobs

\* A customer told that the order was placed has an order of their own, with
\* the units of the cart, and its processing job was accepted: however the
\* handlers interleave, are refused by the queue or die.
THEOREM PlacedAreQueued == Spec => []PlacedIsQueued
  <1>1. Init => PlacedInv
    BY InitPlacedInv
  <1>2. TypeInv /\ TypeInv' /\ PlacedInv /\ [Next]_vars => PlacedInv'
    BY NextOwnRows, NextOwnJobs DEF PlacedInv, TypeInv
  <1>3. PlacedInv => PlacedIsQueued
    BY DEF PlacedInv, OwnRows, OwnJobs, PlacedIsQueued
  <1> QED
    BY <1>1, <1>2, <1>3, TypeCorrect, PTL DEF Spec

(***************************************************************************)
(* Deleted products.                                                       *)
(***************************************************************************)
GoneInv ==
  /\ \A r \in CreateReqs : \A p \in creates[r].gone : deletedAt[p] /\ creates[r].units[p] = 0
  /\ \A r \in CreateReqs : creates[r].pc = "idle" => creates[r].units = NoUnits

LEMMA InitGoneInv == ASSUME Init PROVE GoneInv
  BY DEF Init, GoneInv

\* A deletion is for good.
LEMMA DeletionIsFinal ==
  ASSUME TypeOK, [Next]_vars, NEW p \in Products, deletedAt[p] PROVE deletedAt'[p]
  <1>1. CASE UNCHANGED deletedAt
    BY <1>1
  <1>2. ASSUME NEW e \in EditReqs, DeleteWrite(e) PROVE deletedAt'[p]
    BY <1>2 DEF DeleteWrite, TypeOK
  <1> QED
    BY <1>1, <1>2
    DEF Next, vars, products, Arrive, CreateRefused, CreateStart, AdminRefused,
        CancelRead, StatusRead, EditRefused, DeleteRead, UpdateRead,
        CreateStep, ReadLine, RefuseLine, DrawCode, CommitOrder, AbortOrder,
        QueueOrderJob, OrderJobRefused, AdminStep, CancelCommit, StatusWrite,
        AdminWriteFails, QueueMail, MailRefused, EditStep, UpdateWrite,
        EditFails, ForgetMailKey, Crash

LEMMA NextGoneInv == ASSUME TypeOK, GoneInv, [Next]_vars PROVE GoneInv'
  <1> USE DEF TypeOK
  <1> SUFFICES ASSUME NEW q \in CreateReqs
               PROVE  /\ \A p \in creates'[q].gone :
                           deletedAt'[p] /\ creates'[q].units[p] = 0
                      /\ creates'[q].pc = "idle" => creates'[q].units = NoUnits
    BY DEF GoneInv
  <1>0. creates[q] \in CreateCtx
    OBVIOUS
  <1>d. \A p \in Products : deletedAt[p] => deletedAt'[p]
    BY DeletionIsFinal
  <1>1. CASE /\ creates'[q].gone = creates[q].gone
             /\ creates'[q].units = creates[q].units
             /\ creates'[q].pc = "idle" => creates[q].pc = "idle"
    <2> HIDE DEF TypeOK
    <2>1. \A p \in creates[q].gone : p \in Products /\ deletedAt[p] /\ creates[q].units[p] = 0
      BY <1>0 DEF GoneInv, CreateCtx
    <2>2. \A p \in creates'[q].gone : deletedAt'[p] /\ creates'[q].units[p] = 0
      BY <1>d, <1>1, <2>1
    <2> QED BY <1>1, <2>2 DEF GoneInv
  <1>2. ASSUME NEW u \in Users, NEW c \in Carts, CreateStart(q, u, c)
        PROVE  /\ \A p \in creates'[q].gone :
                    deletedAt'[p] /\ creates'[q].units[p] = 0
               /\ creates'[q].pc = "idle" => creates'[q].units = NoUnits
    <2>1. /\ creates[q].units = NoUnits
          /\ UNCHANGED deletedAt
          /\ creates' = [creates EXCEPT ![q].pc = "reading", ![q].user = u,
               ![q].cart = c, ![q].gone = {p \in Products : deletedAt[p]}]
      BY <1>2, Zenon DEF CreateStart, GoneInv, products
    <2> DEFINE gone == {p \in Products : deletedAt[p]}
    <2>2. creates'[q].gone = gone /\ creates'[q].units = NoUnits /\ creates'[q].pc = "reading"
      <3> HIDE DEF gone
      <3>1. creates' = [creates EXCEPT ![q].pc = "reading", ![q].user = u,
               ![q].cart = c, ![q].gone = gone]
        BY <2>1 DEF gone
      <3> QED BY <1>0, <2>1, <3>1 DEF CreateCtx
    <2> QED BY <2>1, <2>2 DEF NoUnits
  <1>3. CASE ReadLine(q)
    <2> DEFINE p == NextLine(q).product
               n == NextLine(q).quantity
    <2>1. NextLine(q) \in Line
      <3>1. creates[q].cart \in Seq(Line) /\ creates[q].next \in 1..Len(creates[q].cart)
        BY <1>0, <1>3, OrdersAssumption DEF ReadLine, LinesRemain, CreateCtx
      <3> QED BY <3>1, ElementOfSeq DEF NextLine
    <2>2. p \in Products /\ ~deletedAt[p] /\ UNCHANGED deletedAt
      BY <1>3, <2>1 DEF ReadLine, Available, Line, products
    <2>3. p \notin creates[q].gone
      BY <2>2 DEF GoneInv
    <2> HIDE DEF p, n
    <2>4. creates' = [creates EXCEPT ![q].next = @ + 1, ![q].units[p] = @ + n]
      BY <1>3 DEF ReadLine, p, n
    <2>5. /\ creates'[q].gone = creates[q].gone /\ creates'[q].pc = "reading"
          /\ \A x \in Products : x # p => creates'[q].units[x] = creates[q].units[x]
      BY <1>0, <1>3, <2>4 DEF CreateCtx, ReadLine
    <2> QED BY <1>0, <2>2, <2>3, <2>5 DEF GoneInv, CreateCtx
  <1>4. CASE Starts(q)
    <2>1. CASE \E u \in Users : CreateRefused(q, u)
      <3>1. creates' = [creates EXCEPT ![q].pc = "failed"]
        BY <2>1 DEF CreateRefused
      <3>2. /\ creates'[q].gone = creates[q].gone
            /\ creates'[q].units = creates[q].units
            /\ creates'[q].pc = "failed"
        BY <1>0, <3>1 DEF CreateCtx
      <3> QED BY <1>1, <3>2
    <2> QED BY <1>2, <1>4, <2>1 DEF Starts
  <1>5. CASE Dies(q)
    BY <1>0, <1>1, <1>5 DEF Dies, CreateCtx
  <1>6. CASE CreateStep(q) /\ ~ReadLine(q)
    BY <1>0, <1>1, <1>6
    DEF CreateStep, RefuseLine, DrawCode, CommitOrder, AbortOrder,
        QueueOrderJob, OrderJobRefused, CreateCtx
  <1> QED
    BY <1>1, <1>3, <1>4, <1>5, <1>6, CreatesChange

\* A product that had been deleted before a request arrived is never ordered
\* by it, whatever a late update writes into its status column.
THEOREM DeletedAreNeverOrdered == Spec => []DeletedNeverOrdered
  <1>1. Init => GoneInv
    BY InitGoneInv
  <1>2. TypeInv /\ GoneInv /\ [Next]_vars => GoneInv'
    BY NextGoneInv DEF TypeInv
  <1>3. GoneInv => DeletedNeverOrdered
    BY DEF GoneInv, DeletedNeverOrdered
  <1> QED
    BY <1>1, <1>2, <1>3, TypeCorrect, PTL DEF Spec

(***************************************************************************)
(* Mails.                                                                  *)
(***************************************************************************)
Mail(a) == [order |-> admins[a].order, status |-> admins[a].status]

\* An answer is for good, and only QueueMail gives it.
LEMMA AnswerChange ==
  ASSUME TypeOK, [Next]_vars, NEW b \in AdminReqs
  PROVE  /\ admins[b].pc = "ok" => admins'[b] = admins[b]
         /\ admins'[b].pc = "ok" => admins[b].pc = "ok" \/ QueueMail(b)
         /\ admins'[b].pc = "mailing" =>
              UNCHANGED admins[b] \/ CancelCommit(b) \/ StatusWrite(b)
  <1> USE DEF TypeOK, AdminCtx
  <1>1. CASE CancelCommit(b) \/ StatusWrite(b)
    <2>1. /\ admins[b].pc \in {"cancelling", "updating"}
          /\ admins' = [admins EXCEPT ![b].pc = "mailing"]
      BY <1>1 DEF CancelCommit, StatusWrite
    <2> QED BY <1>1, <2>1
  <1>2. CASE AdminWriteFails(b) \/ QueueMail(b) \/ MailRefused(b)
    BY <1>2 DEF AdminWriteFails, QueueMail, MailRefused, Writing
  <1>3. CASE JustRead(b)
    BY <1>3 DEF JustRead, CancelRead, StatusRead
  <1> QED
    BY <1>1, <1>2, <1>3, AdminsChange DEF AdminStep

LEMMA MailsChange ==
  ASSUME [Next]_vars
  PROVE  \/ UNCHANGED mails /\ mailKeys' \subseteq mailKeys
         \/ \E a \in AdminReqs : QueueMail(a)
  <1>1. CASE UNCHANGED vars
    BY <1>1 DEF vars, queue
  <1>2. CASE Arrive
    BY <1>2 DEF Arrive, queue, CreateRefused, CreateStart, AdminRefused, CancelRead,
                StatusRead, EditRefused, DeleteRead, UpdateRead
  <1>3. ASSUME NEW r \in CreateReqs, CreateStep(r)
        PROVE  UNCHANGED <<mails, mailKeys>>
    BY <1>3 DEF CreateStep, queue, ReadLine, RefuseLine, DrawCode, CommitOrder, AbortOrder,
                QueueOrderJob, OrderJobRefused
  <1>4. ASSUME NEW a \in AdminReqs, AdminStep(a)
        PROVE  UNCHANGED <<mails, mailKeys>> \/ QueueMail(a)
    BY <1>4 DEF AdminStep, queue, CancelCommit, StatusWrite, AdminWriteFails, MailRefused
  <1>5. ASSUME NEW e \in EditReqs, EditStep(e)
        PROVE  UNCHANGED <<mails, mailKeys>>
    BY <1>5 DEF EditStep, queue, UpdateWrite, DeleteWrite, EditFails
  <1>6. CASE Crash \/ \E k \in mailKeys : ForgetMailKey(k)
    BY <1>6 DEF Crash, ForgetMailKey, queue
  <1> QED BY <1>1, <1>2, <1>3, <1>4, <1>5, <1>6 DEF Next

\* What QueueMail answers, and what it leaves behind.
LEMMA Mailed ==
  ASSUME TypeOK, NEW a \in AdminReqs, QueueMail(a)
  PROVE  /\ admins[a].pc = "mailing" /\ admins'[a].pc = "ok"
         /\ MailKey(a)' = MailKey(a) /\ Mail(a)' = Mail(a)
         /\ mailKeys' = mailKeys \cup {MailKey(a)}
         /\ mails \subseteq mails' /\ mails' \subseteq mails \cup {Mail(a)}
         /\ MailKey(a) \notin mailKeys => Mail(a) \in mails'
         /\ \A b \in AdminReqs : b # a => admins'[b] = admins[b]
         /\ UNCHANGED orders
  <1>1. /\ admins'[a].pc = "ok" /\ admins'[a].order = admins[a].order
        /\ admins'[a].status = admins[a].status
        /\ admins'[a].keyUser = admins[a].keyUser
    BY DEF QueueMail, TypeOK, AdminCtx
  <1> QED
    BY <1>1 DEF QueueMail, MailKey, Mail, TypeOK

\* What a mail says, or is about to say, of a final status is so.
Agrees(o, status) ==
  status \in Terminal => orders[o].status = status \/ o \in Disputed

MailInv ==
  /\ \A m \in mails : m.order \in 1..Len(orders) /\ Agrees(m.order, m.status)
  /\ \A a \in AdminReqs : admins[a].pc = "cancelling" => admins[a].status = "CANCELLED"
  /\ \A a \in AdminReqs :
       admins[a].pc = "mailing" => Agrees(admins[a].order, admins[a].status)

LEMMA InitMailInv == ASSUME Init PROVE MailInv
  BY DEF Init, MailInv

LEMMA AgreesStill ==
  ASSUME TypeInv, RaceInv, [Next]_vars, NEW o \in 1..Len(orders), NEW status,
         Agrees(o, status)
  PROVE  (orders'[o].status = status \/ o \in Disputed') \/ status \notin Terminal
  <1> SUFFICES ASSUME status \in Terminal, o \notin Disputed'
               PROVE  orders'[o].status = status
    OBVIOUS
  <1>1. orders[o].status = status /\ o \notin Disputed
    BY DisputesStay DEF Agrees
  <1>2. ~\E a \in overtaken : admins[a].order = o
    BY <1>1 DEF Disputed
  <1> QED BY <1>1, <1>2, NextFinalKept DEF FinalKept

LEMMA NextMailInv ==
  ASSUME TypeInv, RaceInv, MailInv, [Next]_vars PROVE MailInv'
  <1> USE DEF TypeInv
  <1>0. RowsKept
    BY OrdersGrow
  <1>1. \A m \in mails' : m.order \in 1..Len(orders') /\ Agrees(m.order, m.status)'
    <2>1. ASSUME NEW m \in mails
          PROVE  m.order \in 1..Len(orders') /\ Agrees(m.order, m.status)'
      BY <1>0, AgreesStill DEF RowsKept, MailInv, Agrees
    <2>2. ASSUME NEW a \in AdminReqs, QueueMail(a), NEW m, m = Mail(a)
          PROVE  m.order \in 1..Len(orders') /\ Agrees(m.order, m.status)'
      <3>1. admins[a].order \in 1..Len(orders) /\ admins[a].pc = "mailing"
        BY <2>2, Mailed DEF KnownOrders, AdminInFlight
      <3>2. Agrees(admins[a].order, admins[a].status)
        BY <3>1 DEF MailInv
      <3>3. admins[a].order \in 1..Len(orders')
        BY <1>0, <3>1 DEF RowsKept
      <3>4. \/ orders'[admins[a].order].status = admins[a].status
            \/ admins[a].order \in Disputed'
            \/ admins[a].status \notin Terminal
        BY <3>1, <3>2, AgreesStill
      <3>5. m.order = admins[a].order /\ m.status = admins[a].status
        BY <2>2 DEF Mail
      <3> QED BY <3>3, <3>4, <3>5 DEF Agrees
    <2>3. \A m \in mails' : m \in mails \/ \E a \in AdminReqs : QueueMail(a) /\ m = Mail(a)
      BY MailsChange, Mailed
    <2> QED BY <2>1, <2>2, <2>3
  <1>2. ASSUME NEW a \in AdminReqs, admins'[a].pc = "cancelling"
        PROVE  admins'[a].status = "CANCELLED"
    <2>0. \/ UNCHANGED admins[a] \/ AdminStep(a) \/ JustRead(a)
          \/ admins'[a].pc \in {"failed", "lost"}
      BY AdminsChange
    <2> USE DEF TypeOK, AdminCtx
    <2>1. CASE AdminStep(a)
      BY <1>2, <2>1 DEF AdminStep, CancelCommit, StatusWrite, AdminWriteFails,
                        QueueMail, MailRefused
    <2>2. CASE JustRead(a)
      BY <1>2, <2>2 DEF JustRead, CancelRead, StatusRead
    <2> QED BY <1>2, <2>0, <2>1, <2>2 DEF MailInv
  <1>3. ASSUME NEW a \in AdminReqs, admins'[a].pc = "mailing"
        PROVE  Agrees(admins[a].order, admins[a].status)'
    <2>1. CASE UNCHANGED admins[a]
      <3>1. admins[a].order \in 1..Len(orders) /\ Agrees(admins[a].order, admins[a].status)
        BY <1>3, <2>1 DEF MailInv, KnownOrders, AdminInFlight
      <3> QED BY <2>1, <3>1, AgreesStill DEF Agrees
    <2>2. CASE CancelCommit(a)
      <3>1. /\ admins'[a].order = admins[a].order
            /\ admins'[a].status = admins[a].status
            /\ admins[a].status = "CANCELLED"
        BY <2>2 DEF CancelCommit, TypeOK, AdminCtx, MailInv
      <3> QED BY <2>2, <3>1, RowWritten DEF Agrees
    <2>3. CASE StatusWrite(a)
      <3>1. /\ admins'[a].order = admins[a].order
            /\ admins'[a].status = admins[a].status
            /\ ~CancelCommit(a)
        BY <2>3 DEF StatusWrite, CancelCommit, TypeOK, AdminCtx
      <3> QED BY <2>3, <3>1, RowWritten DEF Agrees
    <2> QED BY <1>3, <2>1, <2>2, <2>3, AnswerChange
  <1> QED
    BY <1>1, <1>2, <1>3 DEF MailInv

\* A mail that tells of a final status tells the truth for as long as the
\* order exists, unless two requests changed the order at once.
THEOREM MailsTellTheTruth == Spec => []FinalMailsAgree
  <1>1. Init => MailInv
    BY InitMailInv
  <1>2. TypeInv /\ RaceInv /\ MailInv /\ [Next]_vars => MailInv'
    BY NextMailInv
  <1>3. MailInv => FinalMailsAgree
    BY DEF MailInv, FinalMailsAgree, Agrees
  <1> QED
    BY <1>1, <1>2, <1>3, TypeCorrect, RaceInvariant, PTL DEF Spec

(***************************************************************************)
(* Stock.  What the orders hold is a sum over the rows; a step adds a row, *)
(* dates one, or leaves the sum alone.                                     *)
(***************************************************************************)
UnitsIn(os, p) == [i \in 1..Len(os) |-> os[i].units[p]]
Undated(os) == {i \in 1..Len(os) : ~os[i].cancelledAt}
HeldIn(os, p) == SumFunctionOnSet(UnitsIn(os, p), Undated(os))

LEMMA HeldType ==
  ASSUME NEW os \in Seq(OrderRow), NEW p \in Products
  PROVE  /\ Len(os) \in Nat
         /\ IsFiniteSet(Undated(os))
         /\ \A i \in 1..Len(os) : UnitsIn(os, p)[i] = os[i].units[p] /\ UnitsIn(os, p)[i] \in Nat
         /\ HeldIn(os, p) \in Nat
  <1>1. Len(os) \in Nat
    BY LenProperties
  <1>2. IsFiniteSet(Undated(os))
    <2>1. IsFiniteSet(1..Len(os))
      BY <1>1, FS_Interval
    <2> QED BY <2>1, FS_Subset DEF Undated
  <1>3. \A i \in 1..Len(os) : UnitsIn(os, p)[i] = os[i].units[p] /\ UnitsIn(os, p)[i] \in Nat
    <2>1. \A i \in 1..Len(os) : os[i] \in OrderRow
      BY ElementOfSeq
    <2> QED BY <2>1 DEF UnitsIn, OrderRow
  <1>4. HeldIn(os, p) \in Nat
    <2>1. \A i \in Undated(os) : UnitsIn(os, p)[i] \in Nat
      BY <1>3 DEF Undated
    <2> QED BY <1>2, <2>1, SumNat DEF HeldIn
  <1> QED BY <1>1, <1>2, <1>3, <1>4

\* ns has the rows of os, with other statuses.
LEMMA HeldKept ==
  ASSUME NEW os \in Seq(OrderRow), NEW ns \in Seq(OrderRow), NEW p \in Products,
         Len(ns) = Len(os),
         \A i \in 1..Len(os) : ns[i].units = os[i].units,
         \A i \in 1..Len(os) : ns[i].cancelledAt = os[i].cancelledAt
  PROVE  HeldIn(ns, p) = HeldIn(os, p)
  <1>1. UnitsIn(ns, p) = UnitsIn(os, p) /\ Undated(ns) = Undated(os)
    BY DEF UnitsIn, Undated
  <1> QED BY <1>1 DEF HeldIn

\* ns is os with one row more.
LEMMA HeldAdded ==
  ASSUME NEW os \in Seq(OrderRow), NEW ns \in Seq(OrderRow), NEW p \in Products,
         Len(ns) = Len(os) + 1,
         \A i \in 1..Len(os) : ns[i] = os[i],
         ~ns[Len(os) + 1].cancelledAt
  PROVE  HeldIn(ns, p) = HeldIn(os, p) + ns[Len(os) + 1].units[p]
  <1> DEFINE S == Undated(os)
             T == Undated(ns)
             f == UnitsIn(os, p)
             g == UnitsIn(ns, p)
             n == Len(os) + 1
  <1>0. Len(os) \in Nat
    BY HeldType
  <1>1. T = S \cup {n} /\ n \notin S
    BY <1>0 DEF Undated
  <1>2. IsFiniteSet(S)
    BY HeldType
  <1>3. g[n] = ns[n].units[p] /\ g[n] \in Int
    BY <1>0, HeldType
  <1>4. \A i \in S : f[i] = g[i] /\ g[i] \in Int
    <2>1. \A i \in 1..Len(os) : f[i] = os[i].units[p] /\ f[i] \in Nat
      BY HeldType
    <2>2. \A i \in 1..Len(ns) : g[i] = ns[i].units[p]
      BY HeldType
    <2>3. S \subseteq 1..Len(os) /\ 1..Len(os) \subseteq 1..Len(ns)
      BY <1>0 DEF Undated
    <2> HIDE DEF f, g, S
    <2> QED BY <2>1, <2>2, <2>3
  <1>t. HeldIn(os, p) = SumFunctionOnSet(f, S) /\ HeldIn(ns, p) = SumFunctionOnSet(g, T)
    BY DEF HeldIn
  <1>u. HeldIn(os, p) \in Nat
    BY HeldType
  <1> HIDE DEF S, T, f, g, n
  <1>5. SumFunctionOnSet(g, S \cup {n}) = g[n] + SumFunctionOnSet(g, S)
    BY <1>1, <1>2, <1>3, <1>4, SumExtended
  <1>6. SumFunctionOnSet(f, S) = SumFunctionOnSet(g, S)
    BY <1>2, <1>4, SumAgrees
  <1> QED
    BY <1>1, <1>3, <1>5, <1>6, <1>t, <1>u DEF n

\* ns is os with the cancellation of row o dated.
LEMMA HeldReleased ==
  ASSUME NEW os \in Seq(OrderRow), NEW ns \in Seq(OrderRow), NEW p \in Products,
         NEW o \in 1..Len(os),
         Len(ns) = Len(os),
         \A i \in 1..Len(os) : ns[i].units = os[i].units,
         \A i \in 1..Len(os) : i # o => ns[i].cancelledAt = os[i].cancelledAt,
         ns[o].cancelledAt
  PROVE  /\ os[o].cancelledAt => HeldIn(ns, p) = HeldIn(os, p)
         /\ ~os[o].cancelledAt => HeldIn(ns, p) = HeldIn(os, p) - os[o].units[p]
  <1> DEFINE S == Undated(os)
             f == UnitsIn(os, p)
  <1>1. UnitsIn(ns, p) = f
    BY DEF UnitsIn
  <1>2. Undated(ns) = S \ {o}
    BY DEF Undated
  <1>3. IsFiniteSet(S) /\ f[o] = os[o].units[p] /\ f[o] \in Nat
    BY HeldType
  <1>4. \A i \in S : f[i] \in Int
    <2>1. \A i \in 1..Len(os) : f[i] \in Nat
      BY HeldType
    <2> HIDE DEF f
    <2> QED BY <2>1 DEF Undated
  <1>5. HeldIn(os, p) = SumFunctionOnSet(f, S) /\ HeldIn(ns, p) = SumFunctionOnSet(f, S \ {o})
    BY <1>1, <1>2 DEF HeldIn
  <1>6. HeldIn(os, p) \in Nat /\ HeldIn(ns, p) \in Nat
    BY HeldType
  <1>7. o \in S <=> ~os[o].cancelledAt
    BY DEF Undated
  <1> HIDE DEF S, f
  <1>8. \A e \in S : SumFunctionOnSet(f, S) = f[e] + SumFunctionOnSet(f, S \ {e})
    BY <1>3, <1>4, SumElement
  <1>9. ASSUME o \notin S PROVE S \ {o} = S
    BY <1>9
  <1>10. CASE o \in S
    BY <1>3, <1>5, <1>6, <1>7, <1>8, <1>10
  <1>11. CASE o \notin S
    BY <1>5, <1>7, <1>9, <1>11
  <1> QED
    BY <1>10, <1>11

LEMMA HeldIsIn ==
  ASSUME NEW p \in Products
  PROVE  Held(p) = HeldIn(orders, p) /\ Held(p)' = HeldIn(orders', p)
  BY DEF Held, HeldIn, UnitsIn, Undated

\* No edit in flight will write stock.
NoEdits == \A e \in EditReqs : edits[e].stock = Keep

LEMMA InitNoEdits == ASSUME Init PROVE NoEdits
  BY DEF Init, NoEdits

LEMMA NextNoEdits ==
  ASSUME TypeOK, StockEdits = {}, NoEdits, [Next]_vars PROVE NoEdits'
  <1> USE DEF TypeOK, NoEdits, EditCtx
  <1>1. CASE UNCHANGED edits
    BY <1>1
  <1>2. ASSUME NEW e \in EditReqs, NEW p \in Products,
               \/ EditRefused(e, p)
               \/ DeleteRead(e, p)
               \/ \E n \in StockEdits \cup {Keep},
                     s \in ProductStatuses \cup {Keep} : UpdateRead(e, p, n, s)
        PROVE  NoEdits'
    <2>1. CASE EditRefused(e, p)
      BY <2>1 DEF EditRefused
    <2>2. CASE DeleteRead(e, p)
      BY <2>2 DEF DeleteRead
    <2>3. ASSUME NEW s \in ProductStatuses \cup {Keep}, UpdateRead(e, p, Keep, s)
          PROVE  NoEdits'
      BY <2>3 DEF UpdateRead
    <2> QED BY <1>2, <2>1, <2>2, <2>3
  <1>3. ASSUME NEW e \in EditReqs, EditStep(e) PROVE NoEdits'
    <2>1. /\ \E pc \in EditPc : edits' = [edits EXCEPT ![e].pc = pc]
      BY <1>3 DEF EditStep, UpdateWrite, DeleteWrite, EditFails, EditPc
    <2> QED BY <2>1
  <1>4. CASE Crash
    BY <1>4 DEF Crash, Lose
  <1> QED
    BY <1>1, <1>2, <1>3, <1>4
    DEF Next, vars, Arrive, CreateRefused, CreateStart, AdminRefused,
        CancelRead, StatusRead, CreateStep, ReadLine, RefuseLine, DrawCode,
        CommitOrder, AbortOrder, QueueOrderJob, OrderJobRefused, AdminStep,
        CancelCommit, StatusWrite, AdminWriteFails, QueueMail, MailRefused,
        ForgetMailKey

\* The units on hand and those that the orders hold.
Total(p) == stock[p] + Held(p)

LEMMA TotalType == ASSUME TypeOK, NEW p \in Products PROVE Total(p) \in Int /\ Held(p) \in Nat
  BY HeldType, HeldIsIn DEF Total, TypeOK

\* A step keeps the total, except that a second cancellation of the same
\* order gives its units back again.
LEMMA TotalChange ==
  ASSUME TypeInv, TypeOK', NoEdits, [Next]_vars, NEW p \in Products
  PROVE  \/ Total(p)' = Total(p)
         \/ \E a \in AdminReqs : /\ CancelCommit(a)
                                 /\ orders[admins[a].order].cancelledAt
                                 /\ Total(p)' = Total(p) + orders[admins[a].order].units[p]
  <1> USE DEF TypeInv, TypeOK
  <1>0. /\ Held(p) = HeldIn(orders, p) /\ Held(p)' = HeldIn(orders', p)
        /\ HeldIn(orders, p) \in Nat /\ HeldIn(orders', p) \in Nat
        /\ orders \in Seq(OrderRow) /\ orders' \in Seq(OrderRow)
        /\ stock[p] \in Int /\ stock'[p] \in Int
    BY HeldType, HeldIsIn
  <1>1. CASE UNCHANGED <<stock, orders>>
    BY <1>0, <1>1 DEF Total
  <1>2. ASSUME NEW r \in CreateReqs, CommitOrder(r) PROVE Total(p)' = Total(p)
    <2>1. /\ Len(orders') = Len(orders) + 1
          /\ \A i \in 1..Len(orders) : orders'[i] = orders[i]
          /\ orders'[Len(orders) + 1].units = creates[r].units
          /\ ~orders'[Len(orders) + 1].cancelledAt
      BY <1>2, RowAdded
    <2>2. HeldIn(orders', p) = HeldIn(orders, p) + orders'[Len(orders) + 1].units[p]
      BY <1>0, <2>1, HeldAdded
    <2>3. stock'[p] = stock[p] - creates[r].units[p] /\ creates[r].units[p] \in Nat
      BY <1>2 DEF CommitOrder, CreateCtx
    <2> QED BY <1>0, <2>1, <2>2, <2>3 DEF Total
  <1>3. ASSUME NEW a \in AdminReqs, CancelCommit(a)
        PROVE  \/ Total(p)' = Total(p)
               \/ /\ orders[admins[a].order].cancelledAt
                  /\ Total(p)' = Total(p) + orders[admins[a].order].units[p]
    <2> DEFINE o == admins[a].order
    <2>1. /\ Len(orders') = Len(orders) /\ o \in 1..Len(orders)
          /\ \A i \in 1..Len(orders) : orders'[i].units = orders[i].units
          /\ \A i \in 1..Len(orders) : i # o => orders'[i] = orders[i]
          /\ orders'[o].cancelledAt = TRUE
      BY <1>3, RowWritten
    <2>2. stock'[p] = stock[p] + orders[o].units[p] /\ orders[o].units[p] \in Nat
      <3>1. orders[o] \in OrderRow
        BY <2>1, ElementOfSeq
      <3> QED BY <1>3, <3>1 DEF CancelCommit, OrderRow
    <2> HIDE DEF o
    <2>3. /\ orders[o].cancelledAt => HeldIn(orders', p) = HeldIn(orders, p)
          /\ ~orders[o].cancelledAt =>
               HeldIn(orders', p) = HeldIn(orders, p) - orders[o].units[p]
      BY <1>0, <2>1, HeldReleased
    <2>t. Total(p) = stock[p] + HeldIn(orders, p) /\ Total(p)' = stock'[p] + HeldIn(orders', p)
      BY <1>0 DEF Total
    <2>4. orders[o].cancelledAt => Total(p)' = Total(p) + orders[o].units[p]
      BY <1>0, <2>2, <2>3, <2>t
    <2>5. ~orders[o].cancelledAt => Total(p)' = Total(p)
      BY <1>0, <2>2, <2>3, <2>t
    <2> QED BY <2>4, <2>5 DEF o
  <1>4. ASSUME NEW a \in AdminReqs, StatusWrite(a) PROVE Total(p)' = Total(p)
    <2> DEFINE o == admins[a].order
    <2>1. /\ Len(orders') = Len(orders) /\ o \in 1..Len(orders)
          /\ \A i \in 1..Len(orders) : orders'[i].units = orders[i].units
          /\ \A i \in 1..Len(orders) : i # o => orders'[i] = orders[i]
          /\ orders'[o].cancelledAt = orders[o].cancelledAt
      BY <1>4, RowWritten
    <2>2. UNCHANGED stock
      BY <1>4 DEF StatusWrite, products
    <2>3. \A i \in 1..Len(orders) : orders'[i].cancelledAt = orders[i].cancelledAt
      BY <2>1
    <2> HIDE DEF o
    <2>4. HeldIn(orders', p) = HeldIn(orders, p)
      BY <1>0, <2>1, <2>3, HeldKept
    <2> QED BY <1>0, <2>2, <2>4 DEF Total
  <1>5. ASSUME NEW e \in EditReqs, UpdateWrite(e) PROVE Total(p)' = Total(p)
    <2>1. stock' = [stock EXCEPT ![edits[e].product] = stock[edits[e].product]]
      BY <1>5 DEF UpdateWrite, Written, NoEdits, EditCtx
    <2>2. stock'[p] = stock[p] /\ UNCHANGED orders
      BY <1>5, <2>1 DEF UpdateWrite
    <2> QED BY <1>0, <2>2 DEF Total
  <1> QED
    BY <1>1, <1>2, <1>3, <1>4, <1>5, StockChange

LEMMA InitTotal == ASSUME Init, NEW p \in Products PROVE Total(p) = InitStock[p]
  <1>1. HeldIn(<<>>, p) = 0
    <2>1. Undated(<<>>) = {}
      BY DEF Undated
    <2> QED BY <2>1, SumEmpty DEF HeldIn
  <1>2. Held(p) = 0 /\ stock[p] = InitStock[p] /\ InitStock[p] \in Nat
    BY <1>1, HeldIsIn, OrdersAssumption DEF Init
  <1> QED BY <1>2 DEF Total

\* In a shop whose stock is not edited no unit ever disappears, however the
\* handlers race, fail or die.
THEOREM StockIsNotLost ==
  ASSUME StockEdits = {} PROVE Spec => []NoStockLost
  <1>1. Init => NoEdits /\ NoStockLost
    <2>1. ASSUME Init PROVE NoStockLost
      BY <2>1, InitTotal, OrdersAssumption DEF NoStockLost, Total
    <2> QED BY <2>1, InitNoEdits
  <1>2. TypeInv /\ TypeInv' /\ NoEdits /\ NoStockLost /\ [Next]_vars
          => NoEdits' /\ NoStockLost'
    <2> SUFFICES ASSUME TypeInv, TypeInv', NoEdits, NoStockLost, [Next]_vars
                 PROVE  NoEdits' /\ NoStockLost'
      OBVIOUS
    <2>1. ASSUME NEW p \in Products PROVE Total(p)' >= InitStock[p]
      <3>1. InitStock[p] \in Nat /\ Total(p) \in Int /\ Total(p) >= InitStock[p]
        BY TotalType, OrdersAssumption DEF TypeInv, NoStockLost, Total
      <3>2. \A a \in AdminReqs : CancelCommit(a) => orders[admins[a].order].units[p] \in Nat
        <4>1. \A a \in AdminReqs : CancelCommit(a) => admins[a].order \in 1..Len(orders)
          BY RowWritten
        <4>2. \A i \in 1..Len(orders) : orders[i] \in OrderRow
          BY ElementOfSeq DEF TypeInv, TypeOK
        <4> QED BY <4>1, <4>2 DEF OrderRow
      <3>3. \/ Total(p)' = Total(p)
            \/ \E n \in Nat : Total(p)' = Total(p) + n
        BY <3>2, TotalChange DEF TypeInv
      <3> QED BY <3>1, <3>3
    <2> QED BY <2>1, NextNoEdits DEF NoStockLost, Total, TypeInv
  <1> QED
    BY <1>1, <1>2, TypeCorrect, PTL DEF Spec

\* Of the orders that are not disputed only a cancelled one is dated.
Dated ==
  \A i \in 1..Len(orders) :
    orders[i].cancelledAt => orders[i].status = "CANCELLED" \/ i \in Disputed

LEMMA NextDated ==
  ASSUME TypeInv, RaceInv, Dated, [Next]_vars PROVE Dated'
  <1>0. Len(orders) \in Nat /\ Disputed \subseteq Disputed'
    BY LenProperties, DisputesStay DEF TypeInv, TypeOK
  <1>1. CASE UNCHANGED orders
    BY <1>0, <1>1 DEF Dated
  <1>2. ASSUME NEW r \in CreateReqs, CommitOrder(r) PROVE Dated'
    <2>1. /\ Len(orders') = Len(orders) + 1
          /\ \A i \in 1..Len(orders) : orders'[i] = orders[i]
          /\ ~orders'[Len(orders) + 1].cancelledAt
      BY <1>2, RowAdded DEF TypeInv
    <2> QED BY <1>0, <2>1 DEF Dated
  <1>3. ASSUME NEW a \in AdminReqs, CancelCommit(a) \/ StatusWrite(a) PROVE Dated'
    <2> DEFINE o == admins[a].order
    <2>1. /\ Len(orders') = Len(orders) /\ o \in 1..Len(orders)
          /\ \A i \in 1..Len(orders) : i # o => orders'[i] = orders[i]
          /\ CancelCommit(a) => orders'[o].status = "CANCELLED"
          /\ StatusWrite(a) => orders'[o].cancelledAt = orders[o].cancelledAt
      BY <1>3, RowWritten
    <2>2. orders[o].cancelledAt => o \in Disputed
      BY <1>3, <2>1, WriteFindsOpen DEF Dated, Terminal
    <2> HIDE DEF o
    <2> QED BY <1>0, <1>3, <2>1, <2>2 DEF Dated
  <1> QED
    BY <1>1, <1>2, <1>3, OrdersChange

LEMMA NextStockLedger ==
  ASSUME TypeInv, TypeOK', RaceInv, Dated, NoEdits, StockLedger, [Next]_vars
  PROVE  StockLedger'
  <1> SUFFICES ASSUME NEW p \in Products, \A i \in Disputed' : orders'[i].units[p] = 0
               PROVE  Total(p)' = InitStock[p]
    BY DEF StockLedger, Total
  <1>1. \A i \in Disputed : i \in 1..Len(orders) /\ orders[i].units[p] = 0
    BY DisputesStay, OrdersGrow DEF RowsKept
  <1>2. ASSUME NEW a \in AdminReqs, CancelCommit(a), orders[admins[a].order].cancelledAt
        PROVE  orders[admins[a].order].units[p] = 0
    <2>1. admins[a].order \in 1..Len(orders)
      BY <1>2, RowWritten
    <2>2. admins[a].order \in Disputed
      BY <1>2, <2>1, WriteFindsOpen DEF Dated, Terminal
    <2> QED BY <1>1, <2>2
  <1>3. Total(p) \in Int
    BY TotalType DEF TypeInv
  <1>4. Total(p)' = Total(p)
    BY <1>2, <1>3, TotalChange
  <1>5. Total(p) = InitStock[p]
    BY <1>1 DEF StockLedger, Total
  <1> QED
    BY <1>4, <1>5

\* The ledger of a product balances unless one of its orders is disputed: an
\* order's units leave stock once and come back at most once.
THEOREM LedgerBalances ==
  ASSUME StockEdits = {} PROVE Spec => []StockLedger
  <1>1. Init => NoEdits /\ Dated /\ StockLedger
    <2>1. ASSUME Init PROVE StockLedger /\ Dated
      BY <2>1, InitTotal DEF StockLedger, Total, Dated, Init
    <2> QED BY <2>1, InitNoEdits
  <1>2. TypeInv /\ TypeInv' /\ RaceInv /\ (NoEdits /\ Dated /\ StockLedger) /\ [Next]_vars
          => (NoEdits /\ Dated /\ StockLedger)'
    BY NextNoEdits, NextDated, NextStockLedger DEF TypeInv
  <1> QED
    BY <1>1, <1>2, TypeCorrect, RaceInvariant, PTL DEF Spec

(***************************************************************************)
(* What NoOversell takes.  SCreateOrder compares the stock with one line   *)
(* at a time and reserves nothing, so a run shows units sold that are not  *)
(* there.  It takes an overlap: two handlers that place an order for the   *)
(* same product, or one of them and an update of that product's stock; or  *)
(* a cart that names a product twice.                                      *)
(***************************************************************************)
Placing(q) == creates[q].pc \in {"reading", "inTx"}

Names(c, p) == \E i \in 1..Len(c) : c[i].product = p

OncePerCart ==
  \A c \in Carts : \A i, j \in 1..Len(c) : c[i].product = c[j].product => i = j

\* Nobody else writes the stock of what a handler is placing an order for.
Alone ==
  \A r \in CreateReqs : Placing(r) =>
    /\ \A s \in CreateReqs \ {r} : Placing(s) =>
         \A p \in Products : ~(Names(creates[r].cart, p) /\ Names(creates[s].cart, p))
    /\ \A e \in EditReqs : edits[e].pc = "updating" /\ edits[e].stock # Keep =>
         ~Names(creates[r].cart, edits[e].product)

\* The units a handler holds are there, and are those of the lines it has read.
Covered(q) ==
  /\ creates[q].pc = "idle" => \A p \in Products : creates[q].units[p] = 0
  /\ Placing(q) => \A p \in Products : creates[q].units[p] # 0 =>
       /\ creates[q].units[p] <= stock[p]
       /\ \E i \in 1..Len(creates[q].cart) :
            i < creates[q].next /\ creates[q].cart[i].product = p

SoldInv == NoOversell /\ \A q \in CreateReqs : Covered(q)

LEMMA InitSoldInv == ASSUME Init PROVE SoldInv
  BY OrdersAssumption DEF Init, SoldInv, NoOversell, Covered, Placing, NoUnits

LEMMA CartLines ==
  ASSUME TypeOK, NEW q \in CreateReqs
  PROVE  /\ creates[q] \in CreateCtx /\ creates[q].cart \in Carts
         /\ creates[q].cart \in Seq(Line) /\ Len(creates[q].cart) \in Nat
         /\ \A i \in 1..Len(creates[q].cart) : creates[q].cart[i] \in Line
  <1>1. creates[q] \in CreateCtx /\ creates[q].cart \in Carts
    BY DEF TypeOK, CreateCtx
  <1>2. creates[q].cart \in Seq(Line)
    BY <1>1, OrdersAssumption
  <1> QED BY <1>1, <1>2, LenProperties, ElementOfSeq

\* An update and a cancellation leave stock that is there.
LEMMA CancelAdds ==
  ASSUME TypeInv, NEW a \in AdminReqs, CancelCommit(a), NEW p \in Products
  PROVE  stock'[p] >= stock[p]
  <1> DEFINE o == admins[a].order
  <1>1. o \in 1..Len(orders)
    BY RowWritten DEF TypeInv, TypeOK
  <1>2. orders[o] \in OrderRow
    BY <1>1, ElementOfSeq DEF TypeInv, TypeOK
  <1>3. stock'[p] = stock[p] + orders[o].units[p]
    BY DEF CancelCommit
  <1> HIDE DEF o
  <1>4. orders[o].units[p] \in Nat /\ stock[p] \in Int
    BY <1>2 DEF OrderRow, TypeInv, TypeOK
  <1> QED BY <1>3, <1>4

LEMMA EditSets ==
  ASSUME TypeInv, NEW e \in EditReqs, UpdateWrite(e), NEW p \in Products
  PROVE  \/ stock'[p] = stock[p]
         \/ p = edits[e].product /\ edits[e].stock # Keep /\ stock'[p] \in Nat
  <1>1. /\ stock' = [stock EXCEPT ![edits[e].product] =
                       Written(stock[edits[e].product], edits[e].stock)]
        /\ edits[e] \in EditCtx /\ stock \in [Products -> Int]
    BY DEF UpdateWrite, TypeInv, TypeOK
  <1>2. edits[e].stock \in Nat \cup {Keep}
    BY <1>1 DEF EditCtx
  <1> QED BY <1>1, <1>2 DEF Written

\* A commit takes from each product what its handler holds of it.
LEMMA CommitTakes ==
  ASSUME TypeInv, NEW r \in CreateReqs, CommitOrder(r), NEW p \in Products
  PROVE  /\ stock'[p] = stock[p] - creates[r].units[p]
         /\ creates[r].units[p] \in Nat /\ stock[p] \in Int /\ Placing(r)
  BY CartLines DEF CommitOrder, TypeInv, TypeOK, CreateCtx, Placing

\* The stock that a handler counts on stays.
LEMMA StockStays ==
  ASSUME TypeInv, SoldInv, Alone, [Next]_vars, NEW q \in CreateReqs, Placing(q),
         ~CommitOrder(q), NEW p \in Products, creates[q].units[p] # 0
  PROVE  creates[q].units[p] <= stock'[p]
  <1>1. /\ creates[q].units[p] <= stock[p] /\ creates[q].units[p] \in Nat
        /\ stock[p] \in Int /\ Names(creates[q].cart, p)
    BY CartLines DEF SoldInv, Covered, Names, CreateCtx, TypeInv, TypeOK
  <1>2. CASE UNCHANGED stock
    BY <1>1, <1>2
  <1>3. ASSUME NEW r \in CreateReqs, CommitOrder(r) PROVE stock'[p] = stock[p]
    <2>1. r # q /\ Placing(r) /\ stock'[p] = stock[p] - creates[r].units[p]
      BY <1>3, CommitTakes
    <2>2. ~Names(creates[r].cart, p)
      BY <1>1, <2>1 DEF Alone
    <2>3. creates[r].units[p] = 0
      BY <2>1, <2>2 DEF SoldInv, Covered, Names
    <2> QED BY <1>1, <2>1, <2>3
  <1>4. ASSUME NEW a \in AdminReqs, CancelCommit(a) \/ StatusWrite(a)
        PROVE  UNCHANGED stock \/ stock'[p] >= stock[p]
    BY <1>4, CancelAdds DEF StatusWrite, products
  <1>5. ASSUME NEW e \in EditReqs, UpdateWrite(e) PROVE stock'[p] = stock[p]
    <2>1. edits[e].pc = "updating"
      BY <1>5 DEF UpdateWrite
    <2>2. ~(p = edits[e].product /\ edits[e].stock # Keep)
      BY <1>1, <2>1 DEF Alone
    <2> QED BY <1>5, <2>2, EditSets
  <1>6. stock'[p] \in Int
    BY NextTypeOK DEF TypeOK
  <1> QED BY <1>1, <1>2, <1>3, <1>4, <1>5, <1>6, StockChange

LEMMA ReadCovers ==
  ASSUME OncePerCart, TypeInv, SoldInv, NEW q \in CreateReqs, ReadLine(q)
  PROVE  Covered(q)'
  <1> DEFINE b == creates[q]
             n == b.next
             l == b.cart[n]
             u == [b.units EXCEPT ![l.product] = b.units[l.product] + l.quantity]
             c == [b EXCEPT !.next = n + 1, !.units = u]
  <1>1. /\ b.pc = "reading" /\ n <= Len(b.cart) /\ stock[l.product] >= l.quantity
        /\ creates' = [creates EXCEPT ![q] = c] /\ stock' = stock
    BY DEF ReadLine, LinesRemain, NextLine, products
  <1>2. /\ b \in CreateCtx /\ b.cart \in Carts /\ Len(b.cart) \in Nat
        /\ \A i \in 1..Len(b.cart) : b.cart[i] \in Line
    BY CartLines DEF TypeInv
  <1>3. n \in 1..Len(b.cart) /\ b.units \in [Products -> Nat]
    BY <1>1, <1>2 DEF CreateCtx
  <1>4. l \in Line /\ l.product \in Products /\ l.quantity \in Nat
    BY <1>2, <1>3 DEF Line
  <1>5. creates'[q] = c
    BY <1>1 DEF TypeInv, TypeOK
  <1>6. \A p \in Products : b.units[p] # 0 =>
          /\ b.units[p] <= stock[p]
          /\ \E i \in 1..Len(b.cart) : i < n /\ b.cart[i].product = p
    BY <1>1 DEF SoldInv, Covered, Placing
  <1>7. b.units[l.product] = 0
    <2> SUFFICES ASSUME b.units[l.product] # 0 PROVE FALSE
      OBVIOUS
    <2>1. PICK i \in 1..Len(b.cart) : i < n /\ b.cart[i].product = l.product
      BY <1>4, <1>6
    <2>2. i = n
      BY <1>2, <1>3, <2>1 DEF OncePerCart
    <2> QED BY <1>3, <2>1, <2>2
  <1> HIDE DEF l
  <1>8. \A p \in Products : u[p] = IF p = l.product THEN l.quantity ELSE b.units[p]
    BY <1>3, <1>4, <1>7
  <1> HIDE DEF u
  <1>9. c.pc = "reading" /\ c.units = u /\ c.cart = b.cart /\ c.next = n + 1
    BY <1>1, <1>2 DEF CreateCtx
  <1> HIDE DEF c
  <1>10. ASSUME NEW p \in Products, u[p] # 0
         PROVE  u[p] <= stock[p] /\ \E i \in 1..Len(b.cart) : i < n + 1 /\ b.cart[i].product = p
    <2>1. CASE p = l.product
      <3>1. u[p] <= stock[p]
        BY <1>1, <1>8, <2>1
      <3>2. n < n + 1 /\ b.cart[n].product = p
        BY <1>3, <2>1 DEF l
      <3> QED BY <1>3, <3>1, <3>2
    <2>2. CASE p # l.product
      <3>1. PICK i \in 1..Len(b.cart) : i < n /\ b.cart[i].product = p
        BY <1>6, <1>8, <1>10, <2>2
      <3>2. i < n + 1
        BY <1>3, <3>1
      <3> QED BY <1>6, <1>8, <1>10, <2>2, <3>1, <3>2
    <2> QED BY <2>1, <2>2
  <1> HIDE DEF b, n
  <1> QED BY <1>1, <1>5, <1>9, <1>10 DEF Covered

LEMMA NextCovered ==
  ASSUME OncePerCart, TypeInv, SoldInv, Alone, [Next]_vars, NEW q \in CreateReqs
  PROVE  Covered(q)'
  <1>0. creates[q] \in CreateCtx /\ TypeOK /\ Covered(q)
    BY CartLines DEF TypeInv, SoldInv
  <1>1. ASSUME creates'[q].pc = creates[q].pc \/ Placing(q)', Placing(q), ~CommitOrder(q),
               creates'[q].units = creates[q].units, creates'[q].cart = creates[q].cart,
               creates'[q].next = creates[q].next
        PROVE  Covered(q)'
    BY <1>0, <1>1, StockStays DEF Covered, Placing
  <1>2. CASE UNCHANGED creates[q]
    <2>1. ~CommitOrder(q)
      BY <1>0, <1>2 DEF CommitOrder, TypeOK, CreateCtx
    <2>2. CASE Placing(q)
      BY <1>1, <1>2, <2>1, <2>2
    <2>3. CASE ~Placing(q)
      BY <1>0, <1>2, <2>3 DEF Covered, Placing
    <2> QED BY <2>2, <2>3
  <1>3. CASE Starts(q)
    <2>1. /\ creates[q].pc = "idle" /\ creates'[q].units = creates[q].units
          /\ creates'[q].pc # "idle"
      BY <1>0, <1>3, StartsOrDies
    <2> QED BY <1>0, <2>1 DEF Covered
  <1>4. CASE Dies(q)
    BY <1>0, <1>4, StartsOrDies DEF Covered, Placing
  <1>5. CASE ReadLine(q)
    BY <1>5, ReadCovers
  <1>6. CASE DrawCode(q)
    <2>1. /\ Placing(q) /\ Placing(q)' /\ ~CommitOrder(q)
          /\ creates'[q].units = creates[q].units /\ creates'[q].cart = creates[q].cart
          /\ creates'[q].next = creates[q].next
      BY <1>0, <1>6 DEF DrawCode, CommitOrder, Placing, TypeOK, CreateCtx
    <2> QED BY <1>1, <2>1
  <1>7. CASE RefuseLine(q) \/ CommitOrder(q) \/ AbortOrder(q) \/ QueueOrderJob(q)
             \/ OrderJobRefused(q)
    <2>1. creates'[q].pc \in {"failed", "committed", "ok"}
      BY <1>0, <1>7 DEF RefuseLine, CommitOrder, AbortOrder, QueueOrderJob, OrderJobRefused,
                        TypeOK, CreateCtx
    <2> QED BY <2>1 DEF Covered, Placing
  <1> QED BY <1>0, <1>2, <1>3, <1>4, <1>5, <1>6, <1>7, CreatesChange DEF CreateStep

LEMMA NextNoOversell ==
  ASSUME TypeInv, SoldInv, [Next]_vars
  PROVE  NoOversell'
  <1> SUFFICES ASSUME NEW p \in Products PROVE stock'[p] >= 0
    BY DEF NoOversell
  <1>0. stock[p] \in Int /\ stock[p] >= 0 /\ stock'[p] \in Int
    BY NextTypeOK DEF TypeInv, TypeOK, SoldInv, NoOversell
  <1>1. ASSUME NEW r \in CreateReqs, CommitOrder(r) PROVE stock'[p] >= 0
    <2>1. /\ stock'[p] = stock[p] - creates[r].units[p] /\ creates[r].units[p] \in Nat
          /\ Placing(r)
      BY <1>1, CommitTakes
    <2>2. creates[r].units[p] <= stock[p]
      BY <1>0, <2>1 DEF SoldInv, Covered
    <2> QED BY <1>0, <2>1, <2>2
  <1>2. ASSUME NEW a \in AdminReqs, CancelCommit(a) PROVE stock'[p] >= 0
    BY <1>0, <1>2, CancelAdds
  <1>3. ASSUME NEW a \in AdminReqs, StatusWrite(a) PROVE stock'[p] >= 0
    BY <1>0, <1>3 DEF StatusWrite, products
  <1>4. ASSUME NEW e \in EditReqs, UpdateWrite(e) PROVE stock'[p] >= 0
    BY <1>0, <1>4, EditSets
  <1>5. CASE UNCHANGED stock
    BY <1>0, <1>5
  <1> QED BY <1>1, <1>2, <1>3, <1>4, <1>5, StockChange

\* Nothing is sold that is not there, as the stock check of SCreateOrder
\* means, while no two handlers place orders for the same product at once, no
\* update of its stock is under way meanwhile, and no cart names a product in
\* two lines.
THEOREM OversellTakesAnOverlap ==
  ASSUME OncePerCart
  PROVE  Spec /\ []Alone => []NoOversell
  <1>1. Init => SoldInv
    BY InitSoldInv
  <1>2. TypeInv /\ SoldInv /\ Alone /\ [Next]_vars => SoldInv'
    BY NextCovered, NextNoOversell DEF SoldInv
  <1>3. SoldInv => NoOversell
    BY DEF SoldInv
  <1> QED BY <1>1, <1>2, <1>3, TypeCorrect, PTL DEF Spec
=============================================================================
