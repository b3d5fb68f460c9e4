----------------------- MODULE OrderTransactionsProofs -----------------------
(***************************************************************************)
(* Theorems about OrderTransactions, for every number of products, carts,  *)
(* requests and connections.                                               *)
(***************************************************************************)
EXTENDS OrderTransactions, DataProofs

(***************************************************************************)
(* Where a transaction can be.  Its handler is at a statement; only an     *)
(* order draws a code and inserts; rows are locked at the lines alone, and *)
(* whoever is not there yet has its first line before it.                  *)
(***************************************************************************)
InTransaction == {"draw", "insert", "check", "lines"}

Started(t) ==
  /\ t \in Cancels => handlers[t].pc \notin {"draw", "insert", "check"}
  /\ ~At(t, "lines") => handlers[t].next = 1
  /\ handlers[t].next <= Len(handlers[t].cart) + 1

Placed ==
  /\ \A t \in open : handlers[t].pc \in InTransaction
  /\ \A t \in Requests : Started(t)

Locks == \A p \in Products : lock[p] # Nobody => lock[p] \in open /\ At(lock[p], "lines")

Pool == free + Cardinality(open) = PoolSize

TypeInv == TypeOK /\ Placed /\ Locks /\ Pool

(***************************************************************************)
(* Codes and ids.                                                          *)
(***************************************************************************)
Coded(t) == handlers[t].pc \in {"insert", "check", "lines"}
Inserted(t) == handlers[t].pc \in {"check", "lines"}

\* No code is beyond the next one; the row that is being written has the
\* next one, and is the only one.
DrawnCodes == \A t \in Creates : Coded(t) => handlers[t].code \in 1..Len(orders) + 1

OneWriter ==
  \A t \in Creates \cap open : At(t, "lines") =>
    /\ handlers[t].code = Len(orders) + 1
    /\ \A u \in Creates \cap open : At(u, "lines") => u = t

\* Ids come from the sequence; one that goes with the next code was drawn
\* after the newest row's.
DrawnIds ==
  /\ \A i \in 1..Len(orders) : orders[i].id < nextId
  /\ \A t \in Creates : Inserted(t) =>
       /\ handlers[t].id < nextId
       /\ handlers[t].code = Len(orders) + 1 =>
            \A i \in 1..Len(orders) : orders[i].id < handlers[t].id

CodeInv == CodesFollowIds /\ DrawnCodes /\ OneWriter /\ DrawnIds

(***************************************************************************)
(* What the transactions have written.                                     *)
(***************************************************************************)
\* The lines of a cart up to the n-th that are about p, and their units.
LinesOf(cart, p, n) == {i \in 1..n : cart[i].product = p}
Quantities(cart) == [i \in DOMAIN cart |-> cart[i].quantity]
Units(cart, p, n) == SumFunctionOnSet(Quantities(cart), LinesOf(cart, p, n))

\* The lines that t has written.
DoneLines(t, p) == LinesOf(handlers[t].cart, p, handlers[t].next - 1)
Moved(t, p) ==
  LET units == Units(handlers[t].cart, p, handlers[t].next - 1)
  IN  IF t \in Creates THEN 0 - units ELSE units

\* Of an order that is being cancelled the row is there, and is the
\* request's own.
Cancelling ==
  /\ \A t \in Cancels : InFlight(t) => \E i \in 1..Len(orders) :
       /\ orders[i].id = handlers[t].id
       /\ orders[i].cart = handlers[t].cart
       /\ orders[i].status = "PENDING"
  /\ \A t, u \in Cancels :
       InFlight(t) /\ InFlight(u) /\ handlers[t].id = handlers[u].id => t = u

\* A row that nobody has locked has its committed version; the others have
\* what the lines so far of the transaction that locked them come to.
Versions ==
  /\ \A p \in Products : lock[p] = Nobody => version[p] = stock[p]
  /\ \A t \in open : At(t, "lines") => \A p \in Products :
       /\ DoneLines(t, p) # {} => lock[p] = t
       /\ lock[p] = t => version[p] = stock[p] + Moved(t, p)

WriteInv == Cancelling /\ Versions

-----------------------------------------------------------------------------
(* Types, connections and locks.                                           *)

LEMMA HoldingType ==
  ASSUME NEW pc \in Pc
  PROVE  /\ Holding(pc) \in Handler /\ Holding(pc).pc = pc /\ Holding(pc).next = 1
         /\ Holding(pc).cart \in Carts
  BY OrderTransactionsAssumption DEF Holding, Handler

LEMMA CartType ==
  ASSUME NEW c \in Carts
  PROVE  c \in Seq(Line) /\ Len(c) \in Nat \ {0} /\ DOMAIN c = 1..Len(c)
  <1>1. c \in Seq(Line) /\ c # <<>>
    BY OrderTransactionsAssumption
  <1> QED
    BY <1>1, EmptySeq, LenProperties

LEMMA InitTypeInv == ASSUME Init PROVE TypeInv
  <1>1. Holding("idle") \in Handler /\ Holding("idle").pc = "idle" /\ Holding("idle").next = 1
        /\ Holding("idle").cart \in Carts
    BY HoldingType DEF Pc
  <1>2. TypeOK
    BY <1>1, OrderTransactionsAssumption DEF Init, TypeOK
  <1>3. Placed
    BY <1>1, CartType DEF Init, Placed, Started, At, Requests
  <1>4. Locks /\ Pool
    BY FS_EmptySet, OrderTransactionsAssumption DEF Init, Locks, Pool
  <1> QED
    BY <1>2, <1>3, <1>4 DEF TypeInv

\* A step of t is no concern of the others.
LEMMA PlacedOfOne ==
  ASSUME Placed, open \subseteq Requests, NEW t \in Requests, open' \subseteq open \cup {t},
         \A u \in Requests \ {t} : handlers'[u] = handlers[u],
         t \in open' => handlers'[t].pc \in InTransaction, Started(t)'
  PROVE  Placed'
  <1>1. \A u \in Requests \ {t} : Started(u)'
    BY DEF Placed, Started, At
  <1>2. \A u \in open' \ {t} : handlers'[u].pc \in InTransaction
    BY DEF Placed
  <1> QED
    BY <1>1, <1>2 DEF Placed

LEMMA OpenFinite ==
  ASSUME TypeOK
  PROVE  IsFiniteSet(open) /\ Cardinality(open) \in Nat
  BY FS_Subset, FS_CardinalityType, OrderTransactionsAssumption DEF TypeOK

\* The end of a transaction gives back its connection and its rows.
LEMMA Released ==
  ASSUME TypeInv, NEW t \in Requests, Release(t)
  PROVE  /\ free' \in 0..PoolSize /\ free' + Cardinality(open') = PoolSize
         /\ open' \subseteq open /\ t \notin open'
         /\ lock' \in [Products -> Requests \cup {Nobody}]
         /\ \A p \in Products : lock'[p] # Nobody => lock'[p] = lock[p] /\ lock'[p] \in open'
         /\ \A p \in Products : lock[p] # t => lock'[p] = lock[p]
         /\ \A p \in Products : lock[p] = t => lock'[p] = Nobody
  <1> USE DEF TypeInv, TypeOK
  <1>1. IsFiniteSet(open) /\ Cardinality(open) \in Nat /\ Cardinality(open') \in Nat
    BY OpenFinite, FS_RemoveElement, FS_CardinalityType DEF Release
  <1>2. Cardinality(open') = IF t \in open THEN Cardinality(open) - 1 ELSE Cardinality(open)
    BY <1>1, FS_RemoveElement DEF Release
  <1>3. free' \in 0..PoolSize /\ free' + Cardinality(open') = PoolSize
    BY <1>1, <1>2, OrderTransactionsAssumption DEF Release, Pool
  <1>4. lock' = [p \in Products |-> IF lock[p] = t THEN Nobody ELSE lock[p]]
    BY DEF Release, Unlocked
  <1> QED
    BY <1>3, <1>4, OrderTransactionsAssumption DEF Release, Locks

LEMMA RolledBack ==
  ASSUME TypeInv, NEW t \in Requests, RollBack(t)
  PROVE  /\ version' \in [Products -> Int]
         /\ \A p \in Products : version'[p] = IF lock[p] = t THEN stock[p] ELSE version[p]
  BY DEF TypeInv, TypeOK, RollBack, Reverted

\* A request ends that has nothing open any more.
LEMMA EndTypeInv ==
  ASSUME TypeInv, NEW t \in Requests, NEW pc \in Ended, End(t, pc),
         \/ RollBack(t)
         \/ Release(t) /\ UNCHANGED <<version, nextId>> /\ stock' \in [Products -> Int]
                       /\ orders' \in Seq(OrderRow)
         \/ t \notin open /\ UNCHANGED <<free, open, rows, orders, nextId>>
  PROVE  TypeInv'
  <1> USE DEF TypeInv, TypeOK, Ended
  <1>h. /\ Holding(pc) \in Handler /\ Holding(pc).pc = pc /\ Holding(pc).next = 1
        /\ Holding(pc).cart \in Carts
    BY HoldingType DEF Pc
  <1>1. handlers' \in [Requests -> Handler] /\ handlers'[t] = Holding(pc)
        /\ \A u \in Requests \ {t} : handlers'[u] = handlers[u]
    BY <1>h DEF End
  <1>s. Started(t)'
    BY <1>h, <1>1, CartType DEF Started, At
  <1>2. CASE Release(t)
    <2>1. TypeOK'
      BY <1>1, <1>2, Released, RolledBack DEF RollBack, rows
    <2>2. Placed'
      BY <1>1, <1>2, <1>s, Released, PlacedOfOne
    <2>3. Locks' /\ Pool'
      BY <1>1, <1>2, Released DEF Locks, At, Pool
    <2> QED BY <2>1, <2>2, <2>3
  <1>3. CASE t \notin open /\ UNCHANGED <<free, open, rows, orders, nextId>>
    <2>1. TypeOK'
      BY <1>1, <1>3 DEF rows
    <2>2. Placed'
      BY <1>1, <1>3, <1>s, PlacedOfOne
    <2>3. Locks' /\ Pool'
      BY <1>1, <1>3 DEF Locks, At, Pool, rows
    <2> QED BY <2>1, <2>2, <2>3
  <1> QED
    BY <1>2, <1>3 DEF RollBack

LEMMA ArriveTypeInv ==
  ASSUME TypeInv, NEW t \in Requests,
         \/ \E c \in Carts : Order(t, c)
         \/ \E i \in 1..Len(orders) : Cancel(t, i)
  PROVE  TypeInv'
  <1> USE DEF TypeInv, TypeOK
  <1>0. At(t, "idle") /\ UNCHANGED <<free, open, rows, orders, nextId>>
    BY DEF Order, Cancel
  <1>1. PICK c \in Carts, id \in Nat :
          handlers' = [handlers EXCEPT ![t].pc = "begin", ![t].cart = c, ![t].id = id]
    <2>1. ASSUME NEW c \in Carts, Order(t, c)
          PROVE  handlers' = [handlers EXCEPT ![t].pc = "begin", ![t].cart = c,
                                              ![t].id = handlers[t].id]
      BY <2>1 DEF Order, Handler
    <2>2. \A i \in 1..Len(orders) : orders[i].cart \in Carts /\ orders[i].id \in Nat
      <3>1. \A i \in 1..Len(orders) : orders[i] \in OrderRow
        BY ElementOfSeq
      <3> QED BY <3>1 DEF OrderRow
    <2>3. handlers[t].id \in Nat
      BY DEF Handler
    <2> QED BY <2>1, <2>2, <2>3 DEF Cancel
  <1> DEFINE h == [handlers[t] EXCEPT !.pc = "begin", !.cart = c, !.id = id]
  <1>2. h \in Handler /\ h.pc = "begin" /\ h.next = 1 /\ h.cart = c
    BY <1>0 DEF Handler, Pc, Placed, Started, At
  <1>3. handlers' = [handlers EXCEPT ![t] = h]
    BY <1>1
  <1> HIDE DEF h
  <1>4. TypeOK'
    BY <1>0, <1>2, <1>3 DEF rows
  <1>5. Placed'
    <2>1. t \notin open
      BY <1>0 DEF Placed, InTransaction, At
    <2>2. Started(t)'
      BY <1>2, <1>3, CartType DEF Started, At
    <2> QED BY <1>0, <1>3, <2>1, <2>2, PlacedOfOne
  <1>6. Locks' /\ Pool'
    BY <1>0, <1>2, <1>3 DEF Locks, Pool, At, rows
  <1> QED
    BY <1>4, <1>5, <1>6

\* What a step that is neither an arrival nor an end does to the handler.
Advances(t, h) ==
  /\ h \in Handler
  /\ handlers' = [handlers EXCEPT ![t] = h]

LEMMA AdvanceTypeInv ==
  ASSUME TypeInv, NEW t \in Requests, NEW h, Advances(t, h),
         h.pc \in InTransaction, t \in Cancels => h.pc = "lines",
         h.pc # "lines" => h.next = 1, h.next <= Len(h.cart) + 1,
         At(t, "lines") => h.pc = "lines",
         UNCHANGED <<free, open, stock, orders>>, nextId' \in Nat,
         version' \in [Products -> Int], lock' \in [Products -> Requests \cup {Nobody}],
         \A p \in Products : lock'[p] = lock[p] \/ (lock'[p] = t /\ t \in open /\ h.pc = "lines")
  PROVE  TypeInv'
  <1> USE DEF TypeInv, TypeOK, Advances
  <1>0. handlers'[t] = h
    OBVIOUS
  <1>1. TypeOK'
    OBVIOUS
  <1>2. Started(t)'
    BY <1>0 DEF Started, At
  <1>3. Placed'
    BY <1>0, <1>2, PlacedOfOne
  <1>4. Locks'
    BY <1>0 DEF Locks, At
  <1>5. Pool'
    BY DEF Pool
  <1> QED
    BY <1>1, <1>3, <1>4, <1>5

LEMMA SeqOfFunction ==
  ASSUME NEW S, NEW n \in Nat, NEW f \in [1..n -> S]
  PROVE  f \in Seq(S) /\ Len(f) = n
  OBVIOUS

\* The row with the greatest id is the last one, and has the greatest code.
LEMMA NextCodeIsNext ==
  ASSUME TypeOK, CodesFollowIds PROVE NextCode = Len(orders) + 1
  <1>1. CASE orders = <<>>
    BY <1>1 DEF NextCode
  <1>2. CASE orders # <<>>
    <2> DEFINE n == Len(orders)
               Newest(i) == \A j \in 1..n : orders[j].id <= orders[i].id
    <2>1. n \in Nat \ {0}
      BY <1>2, EmptySeq DEF TypeOK
    <2>2. \A i \in 1..n : orders[i] \in OrderRow
      BY ElementOfSeq DEF TypeOK
    <2>3. \A i \in 1..n : orders[i].id \in Nat
      BY <2>2 DEF OrderRow
    <2>4. \A j \in 1..n - 1 : orders[j].id < orders[n].id
      BY <2>1 DEF CodesFollowIds
    <2>5. Newest(n)
      <3>1. \A j \in 1..n : j = n \/ j \in 1..n - 1
        BY <2>1
      <3> QED BY <2>1, <2>3, <2>4, <3>1
    <2>6. \A i \in 1..n : Newest(i) => i = n
      <3>1. \A i \in 1..n : i = n \/ i \in 1..n - 1
        BY <2>1
      <3> QED BY <2>1, <2>3, <2>4, <3>1
    <2>7. (CHOOSE i \in 1..n : Newest(i)) = n
      <3> HIDE DEF Newest
      <3> QED BY <2>1, <2>5, <2>6
    <2>8. NextCode = orders[n].code + 1
      BY <1>2, <2>7 DEF NextCode
    <2> QED BY <2>1, <2>8 DEF CodesFollowIds
  <1> QED
    BY <1>1, <1>2

\* The line that comes next.
LEMMA NextLineType ==
  ASSUME TypeOK, NEW t \in Requests, LinesRemain(t)
  PROVE  /\ handlers[t].next \in 1..Len(handlers[t].cart)
         /\ NextLine(t) \in Line /\ Change(t) \in Int
  <1>1. handlers[t].cart \in Seq(Line) /\ handlers[t].next \in Nat \ {0}
    BY CartType DEF TypeOK, Handler
  <1>2. handlers[t].next \in 1..Len(handlers[t].cart)
    BY <1>1, LenProperties DEF LinesRemain
  <1>3. NextLine(t) \in Line
    BY <1>1, <1>2, ElementOfSeq DEF NextLine
  <1> QED
    BY <1>2, <1>3 DEF Change, Line

\* The committed rows after a commit.
LEMMA CommittedType ==
  ASSUME TypeOK, NEW t \in Requests
  PROVE  /\ Committed(t) \in Seq(OrderRow)
         /\ t \in Creates =>
              /\ Len(Committed(t)) = Len(orders) + 1
              /\ \A i \in 1..Len(orders) : Committed(t)[i] = orders[i]
              /\ Committed(t)[Len(orders) + 1] =
                   [id |-> handlers[t].id, code |-> handlers[t].code,
                    cart |-> handlers[t].cart, status |-> "PENDING"]
         /\ t \notin Creates =>
              /\ Len(Committed(t)) = Len(orders)
              /\ \A i \in 1..Len(orders) : Committed(t)[i] =
                   IF orders[i].id = handlers[t].id
                     THEN [orders[i] EXCEPT !.status = "CANCELLED"] ELSE orders[i]
  <1> USE DEF TypeOK
  <1> DEFINE row == [id |-> handlers[t].id, code |-> handlers[t].code,
                     cart |-> handlers[t].cart, status |-> "PENDING"]
             new(i) == IF orders[i].id = handlers[t].id
                         THEN [orders[i] EXCEPT !.status = "CANCELLED"] ELSE orders[i]
  <1>1. CASE t \in Creates
    <2>1. row \in OrderRow
      BY DEF OrderRow, Handler
    <2>2. Committed(t) = Append(orders, row)
      BY <1>1 DEF Committed
    <2> HIDE DEF row
    <2>3. /\ Append(orders, row) \in Seq(OrderRow)
          /\ Len(Append(orders, row)) = Len(orders) + 1
          /\ \A i \in 1..Len(orders) : Append(orders, row)[i] = orders[i]
          /\ Append(orders, row)[Len(orders) + 1] = row
      BY <2>1, AppendProperties
    <2> QED BY <1>1, <2>2, <2>3 DEF row
  <1>2. CASE t \notin Creates
    <2>1. DOMAIN orders = 1..Len(orders) /\ Len(orders) \in Nat
      BY LenProperties
    <2>2. \A i \in 1..Len(orders) : orders[i] \in OrderRow
      BY ElementOfSeq
    <2>3. \A i \in 1..Len(orders) : new(i) \in OrderRow
      BY <2>2 DEF OrderRow
    <2>4. Committed(t) = [i \in 1..Len(orders) |-> new(i)]
      BY <1>2, <2>1 DEF Committed
    <2>5. Committed(t) \in [1..Len(orders) -> OrderRow] /\ DOMAIN Committed(t) = 1..Len(orders)
          /\ \A i \in 1..Len(orders) : Committed(t)[i] = new(i)
      BY <2>3, <2>4
    <2>6. Committed(t) \in Seq(OrderRow) /\ Len(Committed(t)) = Len(orders)
      BY <2>1, <2>5, SeqOfFunction
    <2> QED BY <1>2, <2>5, <2>6
  <1> QED
    BY <1>1, <1>2

LEMMA StepTypeInv ==
  ASSUME TypeInv, CodesFollowIds, NEW t \in Requests, Step(t) PROVE TypeInv'
  <1> USE DEF TypeInv, TypeOK
  <1>0. /\ handlers[t] \in Handler /\ Started(t)
        /\ t \in open => handlers[t].pc \in InTransaction
    BY DEF Placed
  <1>1. CASE Begin(t)
    <2> DEFINE h == [handlers[t] EXCEPT !.pc = IF t \in Creates THEN "draw" ELSE "lines"]
    <2>1. h \in Handler /\ h.pc \in InTransaction /\ h.next = 1 /\ h.cart = handlers[t].cart
          /\ h.pc = IF t \in Creates THEN "draw" ELSE "lines"
      BY <1>0, <1>1 DEF Handler, Pc, InTransaction, Begin, Started, At
    <2>2. handlers' = [handlers EXCEPT ![t] = h] /\ handlers'[t] = h
      BY <1>1 DEF Begin, Goto
    <2> HIDE DEF h
    <2>3. t \notin open
      BY <1>0, <1>1 DEF Begin, At, InTransaction
    <2>4. Started(t)'
      BY <2>1, <2>2, CartType, OrderTransactionsAssumption DEF Started, At, Handler
    <2>5. Placed'
      BY <1>1, <2>1, <2>2, <2>4, PlacedOfOne DEF Begin
    <2>6. Pool' /\ free' \in 0..PoolSize
      <3>1. Cardinality(open') = Cardinality(open) + 1
        BY <1>1, <2>3, OpenFinite, FS_AddElement DEF Begin
      <3>2. free' = free - 1 /\ free \in 1..PoolSize
        BY <1>1, OrderTransactionsAssumption DEF Begin
      <3> QED BY <3>1, <3>2, OpenFinite, OrderTransactionsAssumption DEF Pool
    <2>7. Locks'
      BY <1>1, <2>2, <2>3 DEF Locks, At, Begin, rows
    <2>8. TypeOK'
      BY <1>1, <2>1, <2>2, <2>6 DEF Begin, rows
    <2> QED BY <2>5, <2>6, <2>7, <2>8
  <1>2. CASE BeginTimesOut(t)
    <2>1. t \notin open
      BY <1>0, <1>2 DEF BeginTimesOut, At, InTransaction
    <2> QED BY <1>2, <2>1, EndTypeInv DEF BeginTimesOut, Ended
  <1>3. CASE DrawCode(t)
    <2> DEFINE h == [handlers[t] EXCEPT !.pc = "insert", !.code = NextCode]
    <2>1. NextCode \in Nat
      BY NextCodeIsNext, LenProperties
    <2>2. Advances(t, h)
      BY <1>0, <1>3, <2>1 DEF Advances, DrawCode, Handler, Pc
    <2>3. /\ h.pc = "insert" /\ h.next = 1 /\ h.cart = handlers[t].cart
          /\ t \notin Cancels
      BY <1>0, <1>3 DEF DrawCode, Started, At, Handler
    <2>4. h.next <= Len(h.cart) + 1
      BY <1>0, <2>3 DEF Started, DrawCode, At
    <2> HIDE DEF h
    <2>5. ~At(t, "lines") /\ UNCHANGED <<free, open, stock, version, lock, orders, nextId>>
      BY <1>3 DEF DrawCode, At, rows
    <2>6. /\ version' \in [Products -> Int] /\ lock' \in [Products -> Requests \cup {Nobody}]
          /\ nextId' \in Nat /\ h.pc \in InTransaction
      BY <2>3, <2>5 DEF InTransaction
    <2> HIDE DEF TypeInv, TypeOK
    <2> QED BY <2>2, <2>3, <2>4, <2>5, <2>6, AdvanceTypeInv
  <1>4. CASE DrawTimesOut(t)
    BY <1>4, EndTypeInv DEF DrawTimesOut, Ended
  <1>5. CASE Insert(t)
    <2> DEFINE h == [handlers[t] EXCEPT !.pc = "check", !.id = nextId]
    <2>1. Advances(t, h)
      BY <1>0, <1>5 DEF Advances, Insert, Handler, Pc
    <2>2. /\ h.pc = "check" /\ h.next = 1 /\ h.cart = handlers[t].cart
          /\ t \notin Cancels
      BY <1>0, <1>5 DEF Insert, Started, At, Handler
    <2>3. h.next <= Len(h.cart) + 1
      BY <1>0, <2>2 DEF Started, Insert, At
    <2> HIDE DEF h
    <2>4. ~At(t, "lines") /\ nextId' \in Nat
          /\ UNCHANGED <<free, open, stock, version, lock, orders>>
      BY <1>5 DEF Insert, At, rows
    <2>5. /\ version' \in [Products -> Int] /\ lock' \in [Products -> Requests \cup {Nobody}]
          /\ h.pc \in InTransaction
      BY <2>2, <2>4 DEF InTransaction
    <2> HIDE DEF TypeInv, TypeOK
    <2> QED BY <2>1, <2>2, <2>3, <2>4, <2>5, AdvanceTypeInv
  <1>6. CASE InsertAccepted(t)
    <2> DEFINE h == [handlers[t] EXCEPT !.pc = "lines"]
    <2>1. Advances(t, h)
      BY <1>0, <1>6 DEF Advances, InsertAccepted, Goto, Handler, Pc
    <2>2. h.pc = "lines" /\ h.next = handlers[t].next /\ h.cart = handlers[t].cart
      BY <1>0 DEF Handler
    <2>3. h.next <= Len(h.cart) + 1
      BY <1>0, <2>2 DEF Started
    <2> HIDE DEF h
    <2> QED BY <1>6, <2>1, <2>2, <2>3, AdvanceTypeInv DEF InsertAccepted, InTransaction, rows
  <1>7. CASE InsertRejected(t)
    BY <1>7, EndTypeInv DEF InsertRejected, Ended
  <1>8. CASE UpdateRow(t)
    <2> DEFINE h == [handlers[t] EXCEPT !.next = handlers[t].next + 1]
    <2>1. NextLine(t) \in Line /\ Change(t) \in Int /\ handlers[t].next \in 1..Len(handlers[t].cart)
      BY <1>8, NextLineType DEF UpdateRow
    <2>2. Advances(t, h)
      <3>0. handlers[t].next + 1 \in Nat \ {0}
        BY <2>1
      <3>1. h \in Handler
        BY <1>0, <3>0 DEF Handler
      <3>2. handlers' = [handlers EXCEPT ![t] = h]
        BY <1>8 DEF UpdateRow
      <3> QED BY <3>1, <3>2 DEF Advances
    <2>3. h.pc = "lines" /\ h.next = handlers[t].next + 1 /\ h.cart = handlers[t].cart
      BY <1>0, <1>8 DEF Handler, UpdateRow, At
    <2>4. h.next <= Len(h.cart) + 1
      <3>1. Len(h.cart) \in Nat
        BY <1>0, <2>3, CartType DEF Handler
      <3> QED BY <2>1, <2>3, <3>1
    <2> HIDE DEF h
    <2>5. NextLine(t).product \in Products
      BY <2>1 DEF Line
    <2>6. version' \in [Products -> Int] /\ lock' \in [Products -> Requests \cup {Nobody}]
      BY <1>8, <2>1, <2>5 DEF UpdateRow
    <2>7. \A p \in Products : lock'[p] = lock[p] \/ lock'[p] = t
      BY <1>8 DEF UpdateRow
    <2> QED BY <1>8, <2>2, <2>3, <2>4, <2>6, <2>7, AdvanceTypeInv DEF UpdateRow, InTransaction, rows
  <1>9. CASE DeadlockAborts(t)
    BY <1>9, EndTypeInv DEF DeadlockAborts, Ended
  <1>10. CASE Commit(t)
    <2>1. stock' \in [Products -> Int] /\ orders' \in Seq(OrderRow)
      BY <1>10, CommittedType DEF Commit
    <2> QED BY <1>10, <2>1, EndTypeInv DEF Commit, Ended
  <1>11. CASE StatementRefused(t)
    BY <1>11, EndTypeInv DEF StatementRefused, Ended
  <1> QED
    BY <1>1, <1>2, <1>3, <1>4, <1>5, <1>6, <1>7, <1>8, <1>9, <1>10, <1>11 DEF Step

LEMMA TimeOutTypeInv ==
  ASSUME TypeInv, NEW t \in Requests, TimeOut(t) PROVE TypeInv'
  <1> USE DEF TypeInv, TypeOK
  <1>1. Release(t) /\ RollBack(t) /\ UNCHANGED <<handlers, stock, orders, nextId>>
    BY DEF TimeOut, RollBack
  <1>2. TypeOK'
    BY <1>1, Released, RolledBack
  <1>3. Placed'
    BY <1>1, Released DEF Placed, Started, At
  <1>4. Locks' /\ Pool'
    BY <1>1, Released DEF Locks, Pool, At
  <1> QED
    BY <1>2, <1>3, <1>4

LEMMA CrashTypeInv == ASSUME TypeInv, Crash PROVE TypeInv'
  <1> USE DEF TypeInv, TypeOK
  <1>h. /\ Holding("failed") \in Handler /\ Holding("failed").pc = "failed"
        /\ Holding("failed").next = 1 /\ Holding("failed").cart \in Carts
    BY HoldingType DEF Pc, Ended
  <1>1. TypeOK'
    BY <1>h, OrderTransactionsAssumption DEF Crash
  <1>2. ASSUME NEW t \in Requests PROVE Started(t)'
    <2>1. CASE InFlight(t)
      BY <1>h, <2>1, CartType DEF Crash, Started, At
    <2>2. CASE ~InFlight(t)
      BY <2>2 DEF Crash, Placed, Started, At
    <2> QED BY <2>1, <2>2
  <1>3. Placed'
    BY <1>2 DEF Crash, Placed
  <1>4. Locks' /\ Pool'
    BY FS_EmptySet, OrderTransactionsAssumption DEF Crash, Locks, Pool
  <1> QED
    BY <1>1, <1>3, <1>4

LEMMA NextTypeInv ==
  ASSUME TypeInv, CodesFollowIds, [Next]_vars PROVE TypeInv'
  <1>1. CASE UNCHANGED vars
    BY <1>1 DEF vars, rows, TypeInv, TypeOK, Placed, Started, Locks, Pool, At
  <1> QED
    BY <1>1, ArriveTypeInv, StepTypeInv, TimeOutTypeInv, CrashTypeInv DEF Next

-----------------------------------------------------------------------------
(* Codes.                                                                  *)

LEMMA InitCodeInv == ASSUME Init PROVE CodeInv
  <1>1. Holding("idle").pc = "idle"
    BY HoldingType DEF Pc
  <1> QED
    BY <1>1 DEF Init, CodeInv, CodesFollowIds, DrawnCodes, OneWriter, DrawnIds,
        Coded, Inserted, Requests

LEMMA OrdersChange ==
  ASSUME TypeInv, [Next]_vars
  PROVE  /\ UNCHANGED orders \/ \E t \in Requests : Commit(t)
         /\ nextId' \in Nat /\ nextId' >= nextId
  <1> USE DEF TypeInv, TypeOK
  <1>1. CASE UNCHANGED <<orders, nextId>>
    BY <1>1
  <1>2. ASSUME NEW t \in Requests, Insert(t)
        PROVE  UNCHANGED orders /\ nextId' \in Nat /\ nextId' >= nextId
    BY <1>2 DEF Insert
  <1>3. ASSUME NEW t \in Requests, Commit(t) PROVE UNCHANGED nextId
    BY <1>3 DEF Commit
  <1>4. \/ UNCHANGED <<orders, nextId>>
        \/ \E t \in Requests : Insert(t) \/ Commit(t)
    BY DEF Next, vars, Order, Cancel, Step, Begin, BeginTimesOut,
        DrawCode, DrawTimesOut, InsertAccepted, InsertRejected, UpdateRow,
        DeadlockAborts, StatementRefused, TimeOut, RollBack, Crash
  <1> QED
    BY <1>1, <1>2, <1>3, <1>4

\* No commit touches the code or the id of a row that is there.
RowsKept ==
  /\ Len(orders) \in Nat /\ Len(orders') \in Nat
  /\ Len(orders) <= Len(orders')
  /\ \A i \in 1..Len(orders) : /\ orders'[i].code = orders[i].code
                               /\ orders'[i].id = orders[i].id

LEMMA CommitKeeps ==
  ASSUME TypeInv, NEW t \in Requests, Commit(t)
  PROVE  /\ RowsKept
         /\ t \in Creates => /\ Len(orders') = Len(orders) + 1
                             /\ orders'[Len(orders) + 1].code = handlers[t].code
                             /\ orders'[Len(orders) + 1].id = handlers[t].id
         /\ t \notin Creates => Len(orders') = Len(orders)
         /\ handlers'[t].pc = "ok"
         /\ \A u \in Requests \ {t} : handlers'[u] = handlers[u]
         /\ open' \subseteq open
  <1> USE DEF TypeInv, TypeOK
  <1>1. /\ orders' = Committed(t) /\ open' \subseteq open
        /\ handlers' = [handlers EXCEPT ![t] = Holding("ok")] /\ Holding("ok").pc = "ok"
    BY HoldingType DEF Commit, Release, End, Pc, Ended
  <1>2. Len(orders) \in Nat /\ \A i \in 1..Len(orders) : orders[i] \in OrderRow
    BY LenProperties, ElementOfSeq
  <1>3. handlers'[t].pc = "ok" /\ \A u \in Requests \ {t} : handlers'[u] = handlers[u]
    BY <1>1
  <1>4. CASE t \in Creates
    <2>1. /\ Len(orders') = Len(orders) + 1
          /\ \A i \in 1..Len(orders) : orders'[i] = orders[i]
          /\ orders'[Len(orders) + 1] =
                   [id |-> handlers[t].id, code |-> handlers[t].code,
                    cart |-> handlers[t].cart, status |-> "PENDING"]
      BY <1>1, <1>4, CommittedType
    <2>2. RowsKept
      BY <1>2, <2>1 DEF RowsKept
    <2> QED BY <1>1, <1>3, <1>4, <2>1, <2>2
  <1>5. CASE t \notin Creates
    <2>1. /\ Len(orders') = Len(orders)
          /\ \A i \in 1..Len(orders) : orders'[i] =
               IF orders[i].id = handlers[t].id
                 THEN [orders[i] EXCEPT !.status = "CANCELLED"] ELSE orders[i]
      BY <1>1, <1>5, CommittedType
    <2>2. \A i \in 1..Len(orders) : orders'[i].code = orders[i].code /\ orders'[i].id = orders[i].id
      BY <1>2, <2>1 DEF OrderRow
    <2>3. RowsKept
      BY <1>2, <2>1, <2>2 DEF RowsKept
    <2> QED BY <1>1, <1>3, <1>5, <2>1, <2>3
  <1> QED
    BY <1>4, <1>5

LEMMA NextKeeps == ASSUME TypeInv, [Next]_vars PROVE RowsKept
  <1>1. CASE UNCHANGED orders
    BY <1>1, LenProperties DEF RowsKept, TypeInv, TypeOK
  <1> QED
    BY <1>1, OrdersChange, CommitKeeps

\* How an order comes by its code, its id and its row's place in the index.
Writes(u) == At(u, "lines") /\ u \in open

CodeKept(u) ==
  /\ Coded(u) /\ handlers'[u].code = handlers[u].code
  /\ Inserted(u)' => Insert(u) \/ (Inserted(u) /\ handlers'[u].id = handlers[u].id)
  /\ Writes(u)' => InsertAccepted(u) \/ Writes(u)

LEMMA CodeChange ==
  ASSUME TypeInv, [Next]_vars, NEW u \in Creates
  PROVE  ~Coded(u)' \/ DrawCode(u) \/ CodeKept(u)
  <1> USE DEF TypeInv, TypeOK, Coded, Inserted, CodeKept, Writes, At
  <1>0. u \in Requests /\ u \notin Cancels /\ handlers[u] \in Handler
    BY OrderTransactionsAssumption DEF Requests
  <1>1. CASE UNCHANGED vars
    BY <1>1 DEF vars
  <1>2. CASE Crash
    <2>1. Holding("failed").pc = "failed"
      BY HoldingType DEF Pc, Ended
    <2> QED BY <1>0, <1>2, <2>1 DEF Crash, InFlight, Ended
  <1>3. ASSUME NEW t \in Requests, t # u,
               \/ \E c \in Carts : Order(t, c)
               \/ \E i \in 1..Len(orders) : Cancel(t, i)
               \/ Step(t) \/ TimeOut(t)
        PROVE  ~Coded(u)' \/ CodeKept(u)
    <2>1. handlers'[u] = handlers[u] /\ (u \in open' => u \in open)
      BY <1>0, <1>3 DEF Order, Cancel, TimeOut, Step, Begin, BeginTimesOut,
           DrawCode, DrawTimesOut, Insert, InsertAccepted, InsertRejected, UpdateRow,
           DeadlockAborts, Commit, StatementRefused, RollBack, Release, Goto, End
    <2> QED BY <2>1
  <1>4. ASSUME \/ \E c \in Carts : Order(u, c)
               \/ \E i \in 1..Len(orders) : Cancel(u, i)
               \/ Step(u) \/ TimeOut(u)
        PROVE  ~Coded(u)' \/ DrawCode(u) \/ CodeKept(u)
    <2>1. CASE \/ \E c \in Carts : Order(u, c)
               \/ \E i \in 1..Len(orders) : Cancel(u, i)
      <3>1. ASSUME NEW c \in Carts, Order(u, c) PROVE ~Coded(u)'
        BY <1>0, <3>1 DEF Order, Handler
      <3>2. ASSUME NEW i \in 1..Len(orders), Cancel(u, i) PROVE ~Coded(u)'
        BY <1>0, <3>2 DEF Cancel
      <3> QED BY <2>1, <3>1, <3>2
    <2>2. CASE Begin(u)
      BY <1>0, <2>2 DEF Begin, Goto, Handler
    <2>3. CASE Insert(u)
      BY <1>0, <2>3 DEF Insert, Handler
    <2>4. CASE InsertAccepted(u)
      BY <1>0, <2>4 DEF InsertAccepted, Goto, Handler
    <2>5. CASE UpdateRow(u)
      BY <1>0, <2>5 DEF UpdateRow, Handler
    <2>6. CASE TimeOut(u)
      BY <1>0, <2>6 DEF TimeOut, RollBack, Release
    <2>7. CASE \E pc \in Ended : End(u, pc)
      BY <1>0, <2>7, HoldingType DEF End, Ended, Pc
    <2>8. CASE DrawCode(u)
      BY <2>8
    <2> QED
      BY <1>4, <2>1, <2>2, <2>3, <2>4, <2>5, <2>6, <2>7, <2>8
      DEF Step, BeginTimesOut, DrawTimesOut, InsertRejected, DeadlockAborts,
          Commit, StatementRefused, Ended
  <1> QED
    BY <1>1, <1>2, <1>3, <1>4 DEF Next

LEMMA NextCodesFollowIds ==
  ASSUME TypeInv, CodeInv, [Next]_vars PROVE CodesFollowIds'
  <1> USE DEF TypeInv, CodeInv
  <1>0. RowsKept
    BY NextKeeps
  <1>1. CASE Len(orders') = Len(orders)
    <2>1. ASSUME NEW i \in 1..Len(orders'), NEW j \in 1..i - 1
          PROVE  orders'[i].code = i /\ orders'[j].id < orders'[i].id
      <3>1. i \in 1..Len(orders) /\ j \in 1..Len(orders)
        BY <1>0, <1>1, <2>1 DEF RowsKept
      <3> QED BY <1>0, <3>1 DEF RowsKept, CodesFollowIds
    <2>2. \A i \in 1..Len(orders') : orders'[i].code = i
      BY <1>0, <1>1 DEF RowsKept, CodesFollowIds
    <2> QED BY <2>1, <2>2 DEF CodesFollowIds
  <1>2. ASSUME NEW t \in Requests, Commit(t), t \in Creates PROVE CodesFollowIds'
    <2> DEFINE n == Len(orders) + 1
    <2>1. t \in open /\ At(t, "lines")
      BY <1>2 DEF Commit
    <2>2. /\ handlers[t].code = n
          /\ \A i \in 1..Len(orders) : orders[i].id < handlers[t].id
      BY <1>2, <2>1 DEF OneWriter, DrawnIds, Inserted, At
    <2>3. Len(orders') = n /\ orders'[n].code = n /\ orders'[n].id = handlers[t].id
      BY <1>2, <2>2, CommitKeeps
    <2>4. ASSUME NEW i \in 1..n PROVE orders'[i].code = i
      BY <1>0, <2>3 DEF RowsKept, CodesFollowIds
    <2>5. ASSUME NEW i \in 1..n, NEW j \in 1..i - 1 PROVE orders'[j].id < orders'[i].id
      <3>1. j \in 1..Len(orders) /\ orders'[j].id = orders[j].id
        BY <1>0 DEF RowsKept
      <3>2. CASE i = n
        BY <2>2, <2>3, <3>1, <3>2
      <3>3. CASE i # n
        <4>1. i \in 1..Len(orders)
          BY <1>0, <3>3 DEF RowsKept
        <4> QED BY <1>0, <3>1, <4>1 DEF RowsKept, CodesFollowIds
      <3> QED BY <3>2, <3>3
    <2> HIDE DEF n
    <2> QED BY <2>3, <2>4, <2>5 DEF CodesFollowIds
  <1> QED
    BY <1>1, <1>2, OrdersChange, CommitKeeps

LEMMA NextDrawnCodes ==
  ASSUME TypeInv, CodeInv, [Next]_vars PROVE DrawnCodes'
  <1> SUFFICES ASSUME NEW t \in Creates, Coded(t)'
               PROVE  handlers'[t].code \in 1..Len(orders') + 1
    BY DEF DrawnCodes
  <1>0. RowsKept
    BY NextKeeps
  <1>1. CASE DrawCode(t)
    <2>1. handlers'[t].code = Len(orders) + 1
      BY <1>1, NextCodeIsNext DEF DrawCode, TypeInv, TypeOK, CodeInv, Requests, Handler
    <2>2. UNCHANGED orders
      BY <1>1 DEF DrawCode
    <2> QED BY <1>0, <2>1, <2>2 DEF RowsKept
  <1>2. CASE CodeKept(t)
    <2>1. handlers'[t].code \in 1..Len(orders) + 1
      BY <1>2 DEF CodeKept, CodeInv, DrawnCodes
    <2> QED BY <1>0, <2>1 DEF RowsKept
  <1> QED
    BY <1>1, <1>2, CodeChange

\* An insert is accepted only with the next code, and only when nobody else
\* has a row with it.
LEMMA AcceptedIsNext ==
  ASSUME TypeInv, CodeInv, NEW t \in Creates, InsertAccepted(t)
  PROVE  /\ handlers[t].code = Len(orders) + 1
         /\ \A u \in Creates : Writes(u) => u = t
         /\ UNCHANGED <<orders, open>>
         /\ \A u \in Requests \ {t} : handlers'[u] = handlers[u]
  <1>1. Len(orders) \in Nat
    BY LenProperties DEF TypeInv, TypeOK
  <1>2. handlers[t].code \in 1..Len(orders) + 1
    BY DEF InsertAccepted, At, CodeInv, DrawnCodes, Coded
  <1>3. handlers[t].code \notin 1..Len(orders)
    BY DEF InsertAccepted, Taken, CodeInv, CodesFollowIds
  <1>4. handlers[t].code = Len(orders) + 1
    BY <1>1, <1>2, <1>3
  <1>5. ASSUME NEW u \in Creates, Writes(u), u # t PROVE FALSE
    BY <1>4, <1>5 DEF InsertAccepted, Contested, CodeInv, OneWriter, Writes
  <1> QED
    BY <1>4, <1>5 DEF InsertAccepted, Goto, TypeInv, TypeOK

LEMMA NextOneWriter ==
  ASSUME TypeInv, CodeInv, [Next]_vars PROVE OneWriter'
  <1>0. RowsKept
    BY NextKeeps
  <1>w. ASSUME NEW t \in Creates, Writes(t)'
        PROVE  CodeKept(t) /\ (InsertAccepted(t) \/ Writes(t))
    <2>1. Coded(t)' /\ handlers'[t].pc = "lines"
      BY <1>w DEF Writes, At, Coded
    <2>2. ~DrawCode(t)
      BY <2>1 DEF DrawCode, TypeInv, TypeOK, Requests, Handler
    <2> QED BY <1>w, <2>1, <2>2, CodeChange DEF CodeKept
  <1> SUFFICES ASSUME NEW t \in Creates, Writes(t)'
               PROVE  /\ handlers'[t].code = Len(orders') + 1
                      /\ \A u \in Creates : Writes(u)' => u = t
    BY DEF OneWriter, Writes, At
  <1>1. ASSUME NEW u \in Creates, Writes(u)', u # t PROVE FALSE
    <2>1. CASE InsertAccepted(t)
      <3>1. Writes(u)
        BY <1>1, <2>1, AcceptedIsNext DEF Writes, At, Requests
      <3> QED BY <1>1, <2>1, <3>1, AcceptedIsNext
    <2>2. CASE InsertAccepted(u)
      <3>1. Writes(t)
        BY <1>1, <2>2, AcceptedIsNext DEF Writes, At, Requests
      <3> QED BY <1>1, <2>2, <3>1, AcceptedIsNext
    <2>3. CASE Writes(t) /\ Writes(u)
      BY <1>1, <2>3 DEF CodeInv, OneWriter, Writes
    <2> QED BY <1>1, <1>w, <2>1, <2>2, <2>3
  <1>2. handlers'[t].code = Len(orders) + 1
    <2>1. handlers'[t].code = handlers[t].code
      BY <1>w DEF CodeKept
    <2>2. CASE InsertAccepted(t)
      BY <2>1, <2>2, AcceptedIsNext
    <2>3. CASE Writes(t)
      BY <2>1, <2>3 DEF CodeInv, OneWriter, Writes
    <2> QED BY <1>w, <2>2, <2>3
  <1>3. Len(orders') = Len(orders)
    <2>1. ASSUME NEW c \in Requests, Commit(c), c \in Creates PROVE FALSE
      <3>1. Writes(c) /\ handlers'[c].pc = "ok"
        BY <2>1, CommitKeeps DEF Commit, Writes
      <3>2. c # t
        BY <3>1 DEF Writes, At
      <3>3. Writes(t)
        BY <2>1, <3>2, CommitKeeps DEF Writes, At, Requests
      <3> QED BY <2>1, <3>1, <3>2, <3>3 DEF CodeInv, OneWriter, Writes
    <2> QED BY <2>1, OrdersChange, CommitKeeps
  <1> QED
    BY <1>1, <1>2, <1>3

LEMMA NextDrawnIds ==
  ASSUME TypeInv, CodeInv, [Next]_vars PROVE DrawnIds'
  <1> USE DEF CodeInv
  <1>0. RowsKept /\ nextId' \in Nat /\ nextId \in Nat /\ nextId' >= nextId
    BY NextKeeps, OrdersChange DEF TypeInv, TypeOK
  <1>t. /\ \A i \in 1..Len(orders) : orders[i].id \in Nat
        /\ \A t \in Creates : handlers[t].id \in Nat /\ handlers[t].code \in Nat
    <2>1. \A i \in 1..Len(orders) : orders[i] \in OrderRow
      BY ElementOfSeq DEF TypeInv, TypeOK
    <2> QED BY <2>1 DEF OrderRow, TypeInv, TypeOK, Handler, Requests
  <1>1. ASSUME NEW i \in 1..Len(orders') PROVE orders'[i].id < nextId'
    <2>1. CASE i \in 1..Len(orders)
      BY <1>0, <1>t, <2>1 DEF RowsKept, DrawnIds
    <2>2. CASE i \notin 1..Len(orders)
      <3>1. PICK t \in Requests : Commit(t) /\ t \in Creates
        BY <1>0, <2>2, OrdersChange, CommitKeeps
      <3>2. handlers[t].id < nextId
        BY <3>1 DEF Commit, At, DrawnIds, Inserted
      <3>3. i = Len(orders) + 1 /\ orders'[i].id = handlers[t].id
        BY <1>0, <2>2, <3>1, CommitKeeps DEF RowsKept
      <3> QED BY <1>0, <1>t, <3>1, <3>2, <3>3
    <2> QED BY <2>1, <2>2
  <1>2. ASSUME NEW t \in Creates, Inserted(t)'
        PROVE  /\ handlers'[t].id < nextId'
               /\ handlers'[t].code = Len(orders') + 1 =>
                    \A i \in 1..Len(orders') : orders'[i].id < handlers'[t].id
    <2>1. CASE Insert(t)
      <3>1. handlers'[t].id = nextId /\ nextId' = nextId + 1 /\ UNCHANGED orders
        BY <2>1 DEF Insert, TypeInv, TypeOK, Requests, Handler
      <3> QED BY <1>0, <3>1 DEF DrawnIds
    <2>2. CASE ~Insert(t)
      <3>1. ~DrawCode(t) /\ Coded(t)'
        BY <1>2 DEF DrawCode, TypeInv, TypeOK, Requests, Handler, Inserted, Coded
      <3>2. CodeKept(t) /\ Inserted(t) /\ handlers'[t].id = handlers[t].id
        BY <1>2, <2>2, <3>1, CodeChange DEF CodeKept
      <3>3. handlers'[t].id < nextId'
        BY <1>0, <1>t, <3>2 DEF DrawnIds
      <3>4. ASSUME handlers'[t].code = Len(orders') + 1, NEW i \in 1..Len(orders')
            PROVE  orders'[i].id < handlers'[t].id
        <4>1. handlers[t].code \in 1..Len(orders) + 1 /\ handlers'[t].code = handlers[t].code
          BY <3>2 DEF CodeKept, DrawnCodes
        <4>2. Len(orders') = Len(orders)
          BY <1>0, <3>4, <4>1 DEF RowsKept
        <4> QED BY <1>0, <3>2, <3>4, <4>1, <4>2 DEF RowsKept, DrawnIds
      <3> QED BY <3>3, <3>4
    <2> QED BY <2>1, <2>2
  <1> QED
    BY <1>1, <1>2 DEF DrawnIds

LEMMA TypesAndCodes == Spec => [](TypeInv /\ CodeInv)
  <1>1. Init => TypeInv /\ CodeInv
    BY InitTypeInv, InitCodeInv
  <1>2. TypeInv /\ CodeInv /\ [Next]_vars => (TypeInv /\ CodeInv)'
    BY NextTypeInv, NextCodesFollowIds, NextDrawnCodes, NextOneWriter, NextDrawnIds
    DEF CodeInv
  <1> QED
    BY <1>1, <1>2, PTL DEF Spec

\* Whichever inserts wait, fail or are aborted, the committed orders have the
\* codes 1, 2, 3, ..., and later ones have greater ids.
THEOREM CodesInOrder == Spec => []CodesFollowIds
  <1>1. CodeInv => CodesFollowIds
    BY DEF CodeInv
  <1> QED
    BY <1>1, TypesAndCodes, PTL

-----------------------------------------------------------------------------
(* The units of a cart.                                                    *)

LEMMA LinesFinite ==
  ASSUME NEW cart \in Carts, NEW p, NEW n \in 0..Len(cart)
  PROVE  /\ IsFiniteSet(LinesOf(cart, p, n)) /\ LinesOf(cart, p, n) \subseteq 1..Len(cart)
         /\ \A i \in 1..Len(cart) : /\ cart[i] \in Line
                                    /\ Quantities(cart)[i] = cart[i].quantity
                                    /\ Quantities(cart)[i] \in Nat
  <1>1. cart \in Seq(Line) /\ Len(cart) \in Nat /\ DOMAIN cart = 1..Len(cart)
    BY CartType
  <1>2. \A i \in 1..Len(cart) : cart[i] \in Line
    BY <1>1, ElementOfSeq
  <1>3. IsFiniteSet(1..n)
    BY <1>1, FS_Interval
  <1>4. IsFiniteSet(LinesOf(cart, p, n)) /\ LinesOf(cart, p, n) \subseteq 1..Len(cart)
    <2>1. LinesOf(cart, p, n) \in SUBSET (1..n)
      BY DEF LinesOf
    <2> QED BY <1>1, <1>3, <2>1, FS_Subset
  <1> QED
    BY <1>1, <1>2, <1>4 DEF Quantities, Line

LEMMA UnitsType ==
  ASSUME NEW cart \in Carts, NEW p, NEW n \in 0..Len(cart)
  PROVE  /\ Units(cart, p, n) \in Nat
         /\ LinesOf(cart, p, n) = {} => Units(cart, p, n) = 0
  <1>1. \A i \in LinesOf(cart, p, n) : Quantities(cart)[i] \in Nat
    BY LinesFinite
  <1> QED
    BY <1>1, LinesFinite, SumNat, SumEmpty DEF Units

LEMMA UnitsNext ==
  ASSUME NEW cart \in Carts, NEW p, NEW n \in 1..Len(cart)
  PROVE  /\ cart[n].product = p =>
              Units(cart, p, n) = Units(cart, p, n - 1) + cart[n].quantity
         /\ cart[n].product # p => /\ Units(cart, p, n) = Units(cart, p, n - 1)
                                   /\ LinesOf(cart, p, n) = LinesOf(cart, p, n - 1)
  <1> DEFINE before == LinesOf(cart, p, n - 1)
             q == Quantities(cart)
  <1>0. n \in Nat \ {0} /\ n - 1 \in 0..Len(cart)
    BY CartType
  <1>1. CASE cart[n].product = p
    <2>1. LinesOf(cart, p, n) = before \cup {n} /\ n \notin before
      BY <1>0, <1>1 DEF LinesOf
    <2>2. IsFiniteSet(before) /\ (\A i \in before : q[i] \in Int)
          /\ q[n] = cart[n].quantity /\ q[n] \in Int
      BY <1>0, LinesFinite
    <2> HIDE DEF before, q
    <2>3. SumFunctionOnSet(q, before \cup {n}) = q[n] + SumFunctionOnSet(q, before)
      BY <2>1, <2>2, SumExtended
    <2>4. SumFunctionOnSet(q, before) \in Int
      BY <2>2, SumType
    <2> QED BY <1>1, <2>1, <2>2, <2>3, <2>4 DEF Units, before, q
  <1>2. CASE cart[n].product # p
    <2>1. LinesOf(cart, p, n) = before
      BY <1>0, <1>2 DEF LinesOf
    <2> QED BY <1>2, <2>1 DEF Units
  <1> QED
    BY <1>1, <1>2

LEMMA UnitsOfCart ==
  ASSUME NEW cart \in Carts
  PROVE  /\ UnitsOf(cart) \in [Products -> Nat]
         /\ \A p \in Products : UnitsOf(cart)[p] = Units(cart, p, Len(cart))
  <1>1. DOMAIN cart = 1..Len(cart) /\ Len(cart) \in Nat
    BY CartType
  <1>2. UnitsOf(cart) = [p \in Products |-> Units(cart, p, Len(cart))]
    BY <1>1 DEF UnitsOf, Units, Quantities, LinesOf
  <1>3. \A p \in Products : Units(cart, p, Len(cart)) \in Nat
    BY <1>1, UnitsType
  <1> QED
    BY <1>2, <1>3

-----------------------------------------------------------------------------
(* What transactions write.                                                *)

LEMMA InitWriteInv == ASSUME Init PROVE WriteInv
  <1>1. Holding("idle").pc = "idle"
    BY HoldingType DEF Pc
  <1> QED
    BY <1>1, OrderTransactionsAssumption
    DEF Init, WriteInv, Cancelling, Versions, InFlight, Ended, Requests, At

\* A request that is in flight after a step was so before it, with the same
\* cart and the same order, or has just arrived.
FlightKept(t) ==
  /\ InFlight(t) /\ handlers'[t].cart = handlers[t].cart
  /\ t \in Cancels => handlers'[t].id = handlers[t].id

LEMMA FlightChange ==
  ASSUME TypeInv, [Next]_vars, NEW t \in Requests, InFlight(t)'
  PROVE  \/ FlightKept(t)
         \/ \E c \in Carts : Order(t, c)
         \/ \E i \in 1..Len(orders) : Cancel(t, i)
  <1> USE DEF TypeInv, TypeOK, FlightKept, InFlight, Ended
  <1>0. handlers[t] \in Handler /\ (t \in Cancels => ~At(t, "insert")) /\ Started(t)
    BY DEF Placed, Started, At
  <1>1. CASE UNCHANGED handlers[t]
    BY <1>1
  <1>2. CASE Crash
    <2>1. Holding("failed").pc = "failed"
      BY HoldingType DEF Pc
    <2> QED BY <1>2, <2>1 DEF Crash
  <1>3. ASSUME NEW u \in Requests, u # t,
               \/ \E c \in Carts : Order(u, c)
               \/ \E i \in 1..Len(orders) : Cancel(u, i)
               \/ Step(u) \/ TimeOut(u)
        PROVE  UNCHANGED handlers[t]
    BY <1>3 DEF Order, Cancel, TimeOut, Step, Begin, BeginTimesOut,
       DrawCode, DrawTimesOut, Insert, InsertAccepted, InsertRejected, UpdateRow,
       DeadlockAborts, Commit, StatementRefused, RollBack, Release, Goto, End
  <1>4. ASSUME Step(t) PROVE FlightKept(t)
    <2>1. CASE \E pc \in Ended : End(t, pc)
      BY <2>1, HoldingType DEF End, Pc
    <2>2. CASE Begin(t)
      BY <1>0, <2>2 DEF Begin, Goto, Handler, At
    <2>3. CASE DrawCode(t)
      BY <1>0, <2>3 DEF DrawCode, Handler, At
    <2>4. CASE Insert(t)
      BY <1>0, <2>4 DEF Insert, Handler, At
    <2>5. CASE InsertAccepted(t)
      BY <1>0, <2>5 DEF InsertAccepted, Goto, Handler, At
    <2>6. CASE UpdateRow(t)
      BY <1>0, <2>6 DEF UpdateRow, Handler, At
    <2> QED
      BY <1>4, <2>1, <2>2, <2>3, <2>4, <2>5, <2>6
      DEF Step, BeginTimesOut, DrawTimesOut, InsertRejected, DeadlockAborts,
          Commit, StatementRefused
  <1>5. CASE TimeOut(t)
    BY <1>5 DEF TimeOut
  <1>6. CASE UNCHANGED vars
    BY <1>6 DEF vars
  <1> QED
    BY <1>1, <1>2, <1>3, <1>4, <1>5, <1>6 DEF Next

LEMMA NextCancelling ==
  ASSUME TypeInv, WriteInv, [Next]_vars PROVE Cancelling'
  <1> USE DEF WriteInv
  <1>0. \A t \in Cancels : t \in Requests /\ t \notin Creates
    BY OrderTransactionsAssumption DEF Requests
  <1>c. ASSUME NEW t \in Cancels, InFlight(t)'
        PROVE  FlightKept(t) \/ \E i \in 1..Len(orders) : Cancel(t, i)
    BY <1>c, <1>0, FlightChange DEF Order
  <1>a. ASSUME NEW t \in Cancels, NEW i \in 1..Len(orders), Cancel(t, i)
        PROVE  /\ handlers'[t].id = orders[i].id /\ handlers'[t].cart = orders[i].cart
               /\ orders[i].status = "PENDING" /\ UNCHANGED orders
               /\ \A u \in Requests \ {t} : handlers'[u] = handlers[u]
               /\ \A u \in Cancels : InFlight(u) => handlers[u].id # orders[i].id
    BY <1>0, <1>a DEF Cancel, TypeInv, TypeOK, Handler
  <1>1. ASSUME NEW t \in Cancels, InFlight(t)'
        PROVE  \E i \in 1..Len(orders') :
                 /\ orders'[i].id = handlers'[t].id
                 /\ orders'[i].cart = handlers'[t].cart
                 /\ orders'[i].status = "PENDING"
    <2>1. CASE \E i \in 1..Len(orders) : Cancel(t, i)
      BY <1>a, <2>1
    <2>2. CASE FlightKept(t)
      <3>1. PICK i \in 1..Len(orders) : /\ orders[i].id = handlers[t].id
                                        /\ orders[i].cart = handlers[t].cart
                                        /\ orders[i].status = "PENDING"
        BY <2>2 DEF FlightKept, Cancelling
      <3>2. i \in 1..Len(orders') /\ orders'[i] = orders[i]
        <4>1. CASE UNCHANGED orders
          BY <4>1
        <4>2. ASSUME NEW c \in Requests, Commit(c) PROVE <3>2
          <5>1. /\ orders' = Committed(c) /\ InFlight(c) /\ ~InFlight(c)'
                /\ Len(orders) \in Nat
            <6>1. handlers'[c].pc = "ok"
              BY <4>2, CommitKeeps
            <6> QED BY <4>2, <6>1, LenProperties DEF Commit, InFlight, At, Ended, TypeInv, TypeOK
          <5>2. c # t
            BY <1>1, <5>1
          <5>3. CASE c \in Creates
            <6>1. /\ Len(orders') = Len(orders) + 1
                  /\ orders'[i] = orders[i]
              BY <5>1, <5>3, CommittedType DEF TypeInv
            <6> QED BY <5>1, <6>1
          <5>4. CASE c \notin Creates
            <6>1. handlers[c].id # handlers[t].id
              BY <2>2, <5>1, <5>2, <5>4 DEF FlightKept, Cancelling, Requests
            <6>2. /\ Len(orders') = Len(orders)
                  /\ orders[i].id # handlers[c].id => orders'[i] = orders[i]
              BY <5>1, <5>4, CommittedType DEF TypeInv
            <6> QED BY <3>1, <6>1, <6>2
          <5> QED BY <5>3, <5>4
        <4> QED BY <4>1, <4>2, OrdersChange
      <3> QED BY <2>2, <3>1, <3>2 DEF FlightKept
    <2> QED BY <1>1, <1>c, <2>1, <2>2
  <1>2. ASSUME NEW t \in Cancels, NEW u \in Cancels, InFlight(t)', InFlight(u)',
               handlers'[t].id = handlers'[u].id, t # u
        PROVE  FALSE
    <2>1. CASE \E i \in 1..Len(orders) : Cancel(t, i)
      <3>1. UNCHANGED handlers[u] /\ InFlight(u)
        BY <1>0, <1>2, <1>a, <2>1 DEF InFlight
      <3> QED BY <1>2, <1>a, <2>1, <3>1
    <2>2. CASE \E i \in 1..Len(orders) : Cancel(u, i)
      <3>1. UNCHANGED handlers[t] /\ InFlight(t)
        BY <1>0, <1>2, <1>a, <2>2 DEF InFlight
      <3> QED BY <1>2, <1>a, <2>2, <3>1
    <2>3. CASE FlightKept(t) /\ FlightKept(u)
      BY <1>2, <2>3 DEF FlightKept, Cancelling
    <2> QED BY <1>2, <1>c, <2>1, <2>2, <2>3
  <1> QED
    BY <1>1, <1>2 DEF Cancelling

LEMMA FirstLine ==
  ASSUME NEW t, NEW p, handlers[t].next = 1
  PROVE  DoneLines(t, p) = {}
  BY DEF DoneLines, LinesOf

\* A transaction that goes on as it is has written what it had written.
LEMMA MovedKept ==
  ASSUME NEW t, NEW p, handlers'[t] = handlers[t]
  PROVE  Moved(t, p)' = Moved(t, p) /\ DoneLines(t, p)' = DoneLines(t, p)
  BY DEF Moved, DoneLines

LEMMA VersionsUnwritten ==
  ASSUME TypeInv, Versions, UNCHANGED <<stock, version, lock>>,
         \A t \in open' : At(t, "lines")' =>
           \/ t \in open /\ At(t, "lines") /\ handlers'[t] = handlers[t]
           \/ handlers'[t].next = 1 /\ \A p \in Products : lock[p] # t
  PROVE  Versions'
  <1>1. ASSUME NEW t \in open', At(t, "lines")', NEW p \in Products
        PROVE  /\ DoneLines(t, p)' # {} => lock'[p] = t
               /\ lock'[p] = t => version'[p] = stock'[p] + Moved(t, p)'
    <2>1. CASE t \in open /\ At(t, "lines") /\ handlers'[t] = handlers[t]
      BY <2>1, MovedKept DEF Versions
    <2>2. CASE handlers'[t].next = 1 /\ \A q \in Products : lock[q] # t
      <3>1. DoneLines(t, p)' = {}
        BY <2>2 DEF DoneLines, LinesOf
      <3> QED BY <2>2, <3>1
    <2> QED BY <1>1, <2>1, <2>2
  <1> QED
    BY <1>1 DEF Versions

LEMMA VersionsRolledBack ==
  ASSUME TypeInv, Versions, NEW t \in Requests, RollBack(t),
         \A u \in Requests \ {t} : handlers'[u] = handlers[u]
  PROVE  Versions'
  <1>0. /\ UNCHANGED stock /\ open' \subseteq open /\ t \notin open' /\ open \subseteq Requests
        /\ \A p \in Products : /\ lock'[p] # Nobody => lock'[p] = lock[p] /\ lock'[p] \in open'
                               /\ lock[p] = t => lock'[p] = Nobody
                               /\ lock[p] # t => lock'[p] = lock[p]
        /\ \A p \in Products : version'[p] = IF lock[p] = t THEN stock[p] ELSE version[p]
    BY Released, RolledBack DEF RollBack, TypeInv, TypeOK
  <1>1. ASSUME NEW u \in open', At(u, "lines")', NEW p \in Products
        PROVE  /\ DoneLines(u, p)' # {} => lock'[p] = u
               /\ lock'[p] = u => version'[p] = stock'[p] + Moved(u, p)'
    <2>1. u \in open /\ u # t /\ handlers'[u] = handlers[u]
      BY <1>0
    <2>2. /\ Moved(u, p)' = Moved(u, p) /\ DoneLines(u, p)' = DoneLines(u, p)
          /\ At(u, "lines")
      BY <1>1, <2>1, MovedKept DEF At
    <2>3. u # Nobody
      BY <1>0, <2>1, OrderTransactionsAssumption
    <2> QED BY <1>0, <2>1, <2>2, <2>3 DEF Versions
  <1>2. \A p \in Products : lock'[p] = Nobody => version'[p] = stock'[p]
    BY <1>0 DEF Versions
  <1> QED
    BY <1>1, <1>2 DEF Versions

LEMMA VersionsUpdated ==
  ASSUME TypeInv, Versions, NEW t \in Requests, UpdateRow(t) PROVE Versions'
  <1> DEFINE n == handlers[t].next
             cart == handlers[t].cart
             q == NextLine(t).product
  <1>0. /\ t \in open /\ At(t, "lines") /\ cart \in Carts /\ n \in 1..Len(cart)
        /\ NextLine(t) = cart[n] /\ cart[n] \in Line /\ q \in Products
        /\ lock[q] \in {t, Nobody} /\ t # Nobody /\ open \subseteq Requests
    BY NextLineType, OrderTransactionsAssumption
    DEF UpdateRow, TypeInv, TypeOK, Handler, NextLine, Line
  <1>1. /\ version' = [version EXCEPT ![q] = version[q] + Change(t)]
        /\ lock' = [lock EXCEPT ![q] = t]
        /\ UNCHANGED <<stock, open>>
        /\ handlers'[t].pc = "lines" /\ handlers'[t].cart = cart /\ handlers'[t].next = n + 1
        /\ \A u \in Requests \ {t} : handlers'[u] = handlers[u]
    BY DEF UpdateRow, TypeInv, TypeOK, Handler, At
  <1>t. version \in [Products -> Int] /\ stock \in [Products -> Int]
        /\ lock \in [Products -> Requests \cup {Nobody}]
    BY DEF TypeInv, TypeOK
  <1>n. n \in Nat \ {0} /\ (n + 1) - 1 = n /\ n - 1 \in 0..Len(cart)
    BY <1>0, CartType
  <1>2. ASSUME NEW p \in Products
        PROVE  /\ DoneLines(t, p)' # {} => lock'[p] = t
               /\ lock'[p] = t => version'[p] = stock'[p] + Moved(t, p)'
    <2> DEFINE sign(k) == IF t \in Creates THEN 0 - k ELSE k
    <2>1. Moved(t, p) = sign(Units(cart, p, n - 1)) /\ DoneLines(t, p) = LinesOf(cart, p, n - 1)
      BY DEF Moved, DoneLines
    <2>2. Moved(t, p)' = sign(Units(cart, p, n)) /\ DoneLines(t, p)' = LinesOf(cart, p, n)
      BY <1>1, <1>n DEF Moved, DoneLines
    <2>3. /\ Units(cart, p, n - 1) \in Nat
          /\ LinesOf(cart, p, n - 1) = {} => Units(cart, p, n - 1) = 0
      BY <1>0, <1>n, UnitsType
    <2>4. CASE p # q
      <3>1. /\ Units(cart, p, n) = Units(cart, p, n - 1)
            /\ LinesOf(cart, p, n) = LinesOf(cart, p, n - 1)
        BY <1>0, <2>4, UnitsNext
      <3> QED BY <1>0, <1>1, <1>t, <2>1, <2>2, <2>4, <3>1 DEF Versions
    <2>5. CASE p = q
      <3> DEFINE k == Units(cart, p, n - 1)
                 m == cart[n].quantity
      <3>1. Units(cart, p, n) = k + m /\ m \in Nat /\ k \in Nat
        BY <1>0, <2>3, <2>5, UnitsNext DEF Line
      <3>2. Change(t) = sign(m)
        BY <1>0 DEF Change
      <3>3. version[p] = stock[p] + sign(k)
        <4>1. CASE lock[p] = t
          BY <1>0, <2>1, <4>1 DEF Versions
        <4>2. CASE lock[p] = Nobody
          <5>1. k = 0
            BY <1>0, <2>1, <2>3, <4>2 DEF Versions
          <5>2. version[p] = stock[p] /\ stock[p] \in Int
            BY <1>t, <4>2 DEF Versions
          <5> QED BY <5>1, <5>2
        <4> QED BY <1>0, <2>5, <4>1, <4>2
      <3>4. lock'[p] = t /\ version'[p] = version[p] + Change(t)
        BY <1>1, <1>t, <2>5
      <3>5. version'[p] = stock[p] + sign(k + m)
        <4> stock[p] \in Int
          BY <1>t
        <4> HIDE DEF k, m
        <4> QED BY <3>1, <3>2, <3>3, <3>4
      <3>6. stock'[p] = stock[p] /\ Moved(t, p)' = sign(k + m)
        BY <1>1, <2>2, <3>1
      <3> QED BY <3>4, <3>5, <3>6
    <2> QED BY <2>4, <2>5
  <1>3. ASSUME NEW u \in open', At(u, "lines")', u # t, NEW p \in Products
        PROVE  /\ DoneLines(u, p)' # {} => lock'[p] = u
               /\ lock'[p] = u => version'[p] = stock'[p] + Moved(u, p)'
    <2>1. /\ Moved(u, p)' = Moved(u, p) /\ DoneLines(u, p)' = DoneLines(u, p)
          /\ u \in open /\ At(u, "lines") /\ u # Nobody
      BY <1>0, <1>1, <1>3, MovedKept, OrderTransactionsAssumption DEF At
    <2>2. /\ DoneLines(u, p) # {} => lock[p] = u
          /\ lock[p] = u => version[p] = stock[p] + Moved(u, p)
      BY <2>1 DEF Versions
    <2> HIDE DEF q
    <2> QED BY <1>0, <1>1, <1>3, <1>t, <2>1, <2>2
  <1>4. \A p \in Products : lock'[p] = Nobody => version'[p] = stock'[p]
    <2> HIDE DEF q
    <2> QED BY <1>0, <1>1, <1>t DEF Versions
  <1> QED
    BY <1>2, <1>3, <1>4 DEF Versions

LEMMA VersionsCommitted ==
  ASSUME TypeInv, Versions, NEW t \in Requests, Commit(t) PROVE Versions'
  <1>0. /\ UNCHANGED version /\ open' \subseteq open /\ t \notin open' /\ open \subseteq Requests
        /\ \A p \in Products : /\ lock'[p] # Nobody => lock'[p] = lock[p] /\ lock'[p] \in open'
                               /\ lock[p] = t => lock'[p] = Nobody
                               /\ lock[p] # t => lock'[p] = lock[p]
        /\ \A p \in Products : stock'[p] = IF lock[p] = t THEN version[p] ELSE stock[p]
        /\ \A u \in Requests \ {t} : handlers'[u] = handlers[u]
    BY Released, CommitKeeps DEF Commit, TypeInv, TypeOK
  <1>1. ASSUME NEW u \in open', At(u, "lines")', NEW p \in Products
        PROVE  /\ DoneLines(u, p)' # {} => lock'[p] = u
               /\ lock'[p] = u => version'[p] = stock'[p] + Moved(u, p)'
    <2>1. u \in open /\ u # t /\ handlers'[u] = handlers[u]
      BY <1>0
    <2>2. /\ Moved(u, p)' = Moved(u, p) /\ DoneLines(u, p)' = DoneLines(u, p)
          /\ At(u, "lines")
      BY <1>1, <2>1, MovedKept DEF At
    <2>3. u # Nobody
      BY <1>0, <2>1, OrderTransactionsAssumption
    <2> QED BY <1>0, <2>1, <2>2, <2>3 DEF Versions
  <1>2. \A p \in Products : lock'[p] = Nobody => version'[p] = stock'[p]
    BY <1>0 DEF Versions
  <1> QED
    BY <1>1, <1>2 DEF Versions

LEMMA NextVersions == ASSUME TypeInv, Versions, [Next]_vars PROVE Versions'
  <1> USE DEF TypeInv, TypeOK
  <1>u. \A t \in Requests : At(t, "lines") \/ \A p \in Products : lock[p] # t
    BY OrderTransactionsAssumption DEF Locks
  <1>1. CASE UNCHANGED vars
    <2>1. \A t \in open' : At(t, "lines")' => /\ t \in open /\ At(t, "lines")
                                            /\ handlers'[t] = handlers[t]
      BY <1>1 DEF vars, At
    <2>2. UNCHANGED <<stock, version, lock>>
      BY <1>1 DEF vars, rows
    <2> QED BY <2>1, <2>2, VersionsUnwritten
  <1>2. CASE Crash
    BY <1>2, OrderTransactionsAssumption DEF Crash, Versions
  <1>3. ASSUME NEW t \in Requests,
               \/ \E c \in Carts : Order(t, c)
               \/ \E i \in 1..Len(orders) : Cancel(t, i)
               \/ BeginTimesOut(t) \/ DrawCode(t) \/ Insert(t) \/ StatementRefused(t)
        PROVE  Versions'
    <2>1. /\ UNCHANGED <<open, stock, version, lock>>
          /\ \A u \in Requests \ {t} : handlers'[u] = handlers[u]
      BY <1>3 DEF Order, Cancel, BeginTimesOut, DrawCode, Insert, StatementRefused, End, rows
    <2>2. handlers'[t].pc # "lines"
      <3>1. Holding("failed").pc = "failed"
        BY HoldingType DEF Pc, Ended
      <3>h. handlers[t] \in Handler /\ handlers = [u \in Requests |-> handlers[u]]
        OBVIOUS
      <3>2. ASSUME NEW c \in Carts, Order(t, c) PROVE handlers'[t].pc # "lines"
        BY <3>h, <3>2 DEF Order, Handler
      <3>3. ASSUME NEW i \in 1..Len(orders), Cancel(t, i) PROVE handlers'[t].pc # "lines"
        BY <3>h, <3>3 DEF Cancel, Handler
      <3>4. CASE DrawCode(t)
        BY <3>h, <3>4 DEF DrawCode, Handler
      <3>5. CASE Insert(t)
        BY <3>h, <3>5 DEF Insert, Handler
      <3>6. CASE BeginTimesOut(t) \/ StatementRefused(t)
        BY <3>1, <3>h, <3>6 DEF BeginTimesOut, StatementRefused, End
      <3> QED BY <1>3, <3>2, <3>3, <3>4, <3>5, <3>6
    <2> QED BY <2>1, <2>2, VersionsUnwritten DEF At
  <1>4. ASSUME NEW t \in Requests, Begin(t) \/ InsertAccepted(t) PROVE Versions'
    <2>1. /\ UNCHANGED <<stock, version, lock>> /\ open' \subseteq open \cup {t}
          /\ \A u \in Requests \ {t} : handlers'[u] = handlers[u]
          /\ handlers'[t].next = handlers[t].next /\ ~At(t, "lines")
      BY <1>4 DEF Begin, InsertAccepted, Goto, rows, At, Handler
    <2>2. handlers'[t].next = 1 /\ \A p \in Products : lock[p] # t
      BY <1>u, <2>1 DEF Placed, Started
    <2> QED BY <2>1, <2>2, VersionsUnwritten DEF At
  <1>5. ASSUME NEW t \in Requests,
               DrawTimesOut(t) \/ InsertRejected(t) \/ DeadlockAborts(t) \/ TimeOut(t)
        PROVE  Versions'
    <2>1. RollBack(t) /\ \A u \in Requests \ {t} : handlers'[u] = handlers[u]
      BY <1>5 DEF DrawTimesOut, InsertRejected, DeadlockAborts, TimeOut, End
    <2> QED BY <2>1, VersionsRolledBack
  <1> QED
    BY <1>1, <1>2, <1>3, <1>4, <1>5, VersionsUpdated, VersionsCommitted DEF Next, Step

LEMMA Invariant == Spec => [](TypeInv /\ CodeInv /\ WriteInv)
  <1>1. Init => WriteInv
    BY InitWriteInv
  <1>2. TypeInv /\ WriteInv /\ [Next]_vars => WriteInv'
    BY NextCancelling, NextVersions DEF WriteInv
  <1> QED
    BY <1>1, <1>2, TypesAndCodes, PTL DEF Spec

\* Every state has the types declared for it.
THEOREM Typing == Spec => []TypeOK
  <1>1. TypeInv => TypeOK
    BY DEF TypeInv
  <1> QED
    BY <1>1, TypesAndCodes, PTL

-----------------------------------------------------------------------------
(* Refinement of the order book.                                           *)

BookRow == [units : [Products -> Nat], status : {"PENDING", "CANCELLED"}]
RowOf(o) == [units |-> UnitsOf(o.cart), status |-> o.status]

LEMMA BookOfType ==
  ASSUME NEW os \in Seq(OrderRow)
  PROVE  /\ Len(os) \in Nat /\ BookOf(os) \in Seq(BookRow) /\ Len(BookOf(os)) = Len(os)
         /\ \A i \in 1..Len(os) : /\ os[i] \in OrderRow
                                  /\ BookOf(os)[i] = RowOf(os[i]) /\ RowOf(os[i]) \in BookRow
  <1>1. Len(os) \in Nat
    BY LenProperties
  <1>2. \A i \in 1..Len(os) : os[i] \in OrderRow
    BY ElementOfSeq
  <1>3. \A i \in 1..Len(os) : RowOf(os[i]) \in BookRow
    BY <1>2, UnitsOfCart DEF RowOf, BookRow, OrderRow
  <1>4. BookOf(os) = [i \in 1..Len(os) |-> RowOf(os[i])]
    BY DEF BookOf, RowOf
  <1>5. BookOf(os) \in [1..Len(os) -> BookRow]
    BY <1>3, <1>4
  <1> QED
    BY <1>1, <1>2, <1>3, <1>4, <1>5, SeqOfFunction

\* At its commit a transaction has written all the lines of its cart.
LEMMA CommitMoves ==
  ASSUME TypeInv, WriteInv, NEW t \in Requests, Commit(t)
  PROVE  LET units == UnitsOf(handlers[t].cart)
         IN  stock' = [p \in Products |->
               IF t \in Creates THEN stock[p] - units[p] ELSE stock[p] + units[p]]
  <1> DEFINE cart == handlers[t].cart
             units == UnitsOf(cart)
  <1>1. /\ cart \in Carts /\ t \in open /\ At(t, "lines") /\ handlers[t].next \in Nat \ {0}
        /\ handlers[t].next <= Len(cart) + 1 /\ ~(handlers[t].next <= Len(cart))
        /\ Len(cart) \in Nat /\ stock \in [Products -> Int]
    BY CartType DEF TypeInv, TypeOK, Handler, Placed, Started, Commit, LinesRemain
  <1>2. handlers[t].next - 1 = Len(cart)
    BY <1>1
  <1>3. ASSUME NEW p \in Products
        PROVE  (IF lock[p] = t THEN version[p] ELSE stock[p])
                 = IF t \in Creates THEN stock[p] - units[p] ELSE stock[p] + units[p]
    <2>1. units[p] = Units(cart, p, Len(cart)) /\ units[p] \in Nat
      BY <1>1, UnitsOfCart
    <2>2. /\ Moved(t, p) = IF t \in Creates THEN 0 - units[p] ELSE units[p]
          /\ DoneLines(t, p) = LinesOf(cart, p, Len(cart))
      BY <1>2, <2>1 DEF Moved, DoneLines
    <2>3. DoneLines(t, p) = {} => units[p] = 0
      <3>1. Len(cart) \in 0..Len(cart)
        BY <1>1
      <3>2. LinesOf(cart, p, Len(cart)) = {} => Units(cart, p, Len(cart)) = 0
        BY <1>1, <3>1, UnitsType
      <3> QED BY <2>1, <2>2, <3>2
    <2> HIDE DEF units
    <2> QED BY <1>1, <2>1, <2>2, <2>3 DEF WriteInv, Versions
  <1>4. stock' = [p \in Products |-> IF lock[p] = t THEN version[p] ELSE stock[p]]
    BY DEF Commit
  <1> QED
    BY <1>3, <1>4

LEMMA CommitPlaces ==
  ASSUME TypeInv, TypeOK', WriteInv, NEW t \in Requests, Commit(t), t \in Creates
  PROVE  Book!Place
  <1> DEFINE row == RowOf([id |-> handlers[t].id, code |-> handlers[t].code,
                           cart |-> handlers[t].cart, status |-> "PENDING"])
             b == BookOf(orders)
             c == BookOf(orders')
  <1>1. /\ Len(orders) \in Nat /\ b \in Seq(BookRow) /\ Len(b) = Len(orders)
        /\ c \in Seq(BookRow) /\ Len(c) = Len(orders')
        /\ \A i \in 1..Len(orders) : b[i] = RowOf(orders[i])
        /\ \A i \in 1..Len(orders') : c[i] = RowOf(orders'[i])
    BY BookOfType DEF TypeInv, TypeOK
  <1>2. /\ Len(orders') = Len(orders) + 1
        /\ \A i \in 1..Len(orders) : orders'[i] = orders[i]
        /\ orders'[Len(orders) + 1] =
                   [id |-> handlers[t].id, code |-> handlers[t].code,
                    cart |-> handlers[t].cart, status |-> "PENDING"]
    BY CommittedType DEF Commit, TypeInv
  <1>3. row \in BookRow /\ row.units = UnitsOf(handlers[t].cart) /\ row.status = "PENDING"
        /\ row = [units |-> row.units, status |-> "PENDING"]
    BY UnitsOfCart DEF RowOf, BookRow, TypeInv, TypeOK, Handler
  <1>4. c[Len(c)] = row
    BY <1>1, <1>2
  <1>5. \A i \in 1..Len(orders) : c[i] = b[i]
    BY <1>1, <1>2
  <1>6. stock' = [p \in Products |-> stock[p] - row.units[p]]
    BY <1>3, CommitMoves
  <1> HIDE DEF row, b, c
  <1>7. c = Append(b, row)
    <2>1. /\ Append(b, row) \in Seq(BookRow) /\ Len(Append(b, row)) = Len(orders) + 1
          /\ \A i \in 1..Len(orders) : Append(b, row)[i] = b[i]
          /\ Append(b, row)[Len(orders) + 1] = row
      BY <1>1, <1>3, AppendProperties
    <2>2. \A i \in 1..Len(c) : c[i] = Append(b, row)[i]
      BY <1>1, <1>2, <1>4, <1>5, <2>1
    <2> QED BY <1>1, <1>2, <1>3, <2>1, <2>2, SeqEqual
  <1>8. /\ Len(c) = Len(b) + 1
        /\ c[Len(c)].units \in [Products -> Nat]
        /\ c = Append(b, [units |-> c[Len(c)].units, status |-> "PENDING"])
        /\ stock' = [p \in Products |-> stock[p] - c[Len(c)].units[p]]
    BY <1>1, <1>2, <1>3, <1>4, <1>6, <1>7 DEF BookRow
  <1> QED
    BY <1>8 DEF Book!Place, Book!Newest, b, c

LEMMA CommitCancels ==
  ASSUME TypeInv, TypeOK', CodeInv, WriteInv, NEW t \in Requests, Commit(t), t \notin Creates
  PROVE  \E i \in 1..Len(BookOf(orders)) : Book!Cancel(i)
  <1> DEFINE b == BookOf(orders)
             c == BookOf(orders')
  <1>1. /\ Len(orders) \in Nat /\ b \in Seq(BookRow) /\ Len(b) = Len(orders)
        /\ c \in Seq(BookRow) /\ Len(c) = Len(orders')
        /\ \A i \in 1..Len(orders) : orders[i] \in OrderRow /\ b[i] = RowOf(orders[i])
        /\ \A i \in 1..Len(orders') : c[i] = RowOf(orders'[i])
    BY BookOfType DEF TypeInv, TypeOK
  <1>2. t \in Cancels /\ InFlight(t)
    BY DEF Requests, Commit, At, InFlight, Ended
  <1>3. PICK o \in 1..Len(orders) : /\ orders[o].id = handlers[t].id
                                    /\ orders[o].cart = handlers[t].cart
                                    /\ orders[o].status = "PENDING"
    BY <1>2 DEF WriteInv, Cancelling
  <1>4. ASSUME NEW i \in 1..Len(orders), orders[i].id = handlers[t].id PROVE i = o
    <2>1. orders[i].id \in Nat /\ orders[o].id \in Nat
      BY <1>1 DEF OrderRow
    <2>2. i \in 1..o - 1 \/ o \in 1..i - 1 \/ i = o
      BY <1>1
    <2> QED BY <1>3, <1>4, <2>1, <2>2 DEF CodeInv, CodesFollowIds
  <1>5. /\ Len(orders') = Len(orders)
        /\ \A i \in 1..Len(orders) : orders'[i] =
             IF i = o THEN [orders[i] EXCEPT !.status = "CANCELLED"] ELSE orders[i]
    <2>1. /\ Len(orders') = Len(orders)
          /\ \A i \in 1..Len(orders) : orders'[i] =
               IF orders[i].id = handlers[t].id
                 THEN [orders[i] EXCEPT !.status = "CANCELLED"] ELSE orders[i]
      BY CommittedType DEF Commit, TypeInv
    <2> QED BY <1>3, <1>4, <2>1
  <1> DEFINE row == [b[o] EXCEPT !.status = "CANCELLED"]
  <1>6. /\ b[o] = [units |-> UnitsOf(handlers[t].cart), status |-> "PENDING"]
        /\ b[o] \in BookRow
        /\ row = [units |-> UnitsOf(handlers[t].cart), status |-> "CANCELLED"]
        /\ row \in BookRow
    <2>1. b[o] = RowOf(orders[o]) /\ b[o] \in BookRow
      BY <1>1, ElementOfSeq
    <2>2. b[o] = [units |-> UnitsOf(handlers[t].cart), status |-> "PENDING"]
      BY <1>3, <2>1 DEF RowOf
    <2> HIDE DEF b
    <2> QED BY <2>1, <2>2 DEF BookRow
  <1>7. c[o] = row
    <2>1. RowOf(orders'[o]) = [units |-> UnitsOf(orders[o].cart), status |-> "CANCELLED"]
      BY <1>1, <1>5 DEF RowOf, OrderRow
    <2> QED BY <1>1, <1>3, <1>5, <1>6, <2>1
  <1>8. \A i \in 1..Len(orders) : i # o => c[i] = b[i]
    BY <1>1, <1>5
  <1>9. stock' = [p \in Products |-> stock[p] + b[o].units[p]]
    BY <1>2, <1>6, CommitMoves, OrderTransactionsAssumption
  <1> HIDE DEF row, b, c
  <1>10. c = [b EXCEPT ![o] = row]
    <2>1. /\ [b EXCEPT ![o] = row] \in Seq(BookRow) /\ Len([b EXCEPT ![o] = row]) = Len(b)
          /\ \A i \in 1..Len(b) : [b EXCEPT ![o] = row][i] = IF i = o THEN row ELSE b[i]
      BY <1>1, <1>6, ExceptSeq
    <2> QED BY <1>1, <1>5, <1>7, <1>8, <2>1, SeqEqual
  <1>11. o \in 1..Len(b) /\ b[o].status \notin Book!Terminal
         /\ c = [b EXCEPT ![o].status = "CANCELLED"]
    BY <1>1, <1>6, <1>10 DEF row, Book!Terminal
  <1> QED
    BY <1>9, <1>11 DEF Book!Cancel, Book!Open, Book!MayDispute, b, c

LEMMA NextRefinesBook ==
  ASSUME TypeInv, TypeOK', CodeInv, WriteInv, [Next]_vars
  PROVE  [Book!Next]_(Book!bvars)
  <1>1. CASE UNCHANGED <<stock, orders>>
    BY <1>1 DEF Book!bvars
  <1>2. ASSUME NEW t \in Requests, Commit(t) PROVE Book!Next
    BY <1>2, CommitPlaces, CommitCancels DEF Book!Next
  <1>3. UNCHANGED <<stock, orders>> \/ \E t \in Requests : Commit(t)
    BY DEF Next, vars, rows, Order, Cancel, Step, Begin, BeginTimesOut,
        DrawCode, DrawTimesOut, Insert, InsertAccepted, InsertRejected, UpdateRow,
        DeadlockAborts, StatementRefused, TimeOut, RollBack, Crash
  <1> QED
    BY <1>1, <1>2, <1>3

\* The transactions, statement by statement, implement the order book: an
\* order leaves stock with all its lines or with none, a cancellation brings
\* all of them back or none, whatever other transactions do in between and
\* however they end.
THEOREM Refinement == Spec => BookSpec
  <1>1. Init => Book!Init
    <2>1. ASSUME Init PROVE BookOf(orders) = <<>>
      BY <2>1 DEF Init, BookOf
    <2> QED BY <2>1 DEF Init, Book!Init
  <1>2. TypeInv /\ TypeInv' /\ CodeInv /\ WriteInv /\ [Next]_vars
          => [Book!Next]_(Book!bvars)
    BY NextRefinesBook DEF TypeInv
  <1> QED
    BY <1>1, <1>2, Invariant, PTL DEF Spec, BookSpec, Book!Spec
=============================================================================
