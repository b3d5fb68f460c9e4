----------------------------- MODULE OrderBook -----------------------------
(***************************************************************************)
(* What the order service promises, with every request done in one step:  *)
(* an order takes its units from stock when it is placed, a COMPLETED or   *)
(* CANCELLED order never changes again, and a cancellation gives the units *)
(* back once, at the moment it becomes final.  A disputed order, one that  *)
(* two requests changed at once, is the exception: it may be moved or      *)
(* cancelled whatever its status.                                          *)
(***************************************************************************)
EXTENDS Integers, Sequences

CONSTANTS Products, InitStock

VARIABLES
  stock,    \* units on hand
  book,     \* [units, status]: the orders placed, oldest first
  disputed  \* the numbers of the disputed orders

bvars == <<stock, book, disputed>>

Statuses == {"PENDING", "PROCESSING", "COMPLETED", "CANCELLED"}
Terminal == {"COMPLETED", "CANCELLED"}

Init == stock = InitStock /\ book = <<>> /\ disputed = {}

Newest == book'[Len(book')]

Place ==
  /\ Len(book') = Len(book) + 1
  /\ Newest.units \in [Products -> Nat]
  /\ book' = Append(book, [units |-> Newest.units, status |-> "PENDING"])
  /\ stock' = [p \in Products |-> stock[p] - Newest.units[p]]
  /\ UNCHANGED disputed

Open(i) ==
  i \in 1..Len(book) /\ (book[i].status \in Terminal => i \in disputed)

\* Another request on the order may be under way.
MayDispute(i) == disputed' \in {disputed, disputed \cup {i}}

\* An administrator sets the status; stock does not follow.
Move(i, s) ==
  /\ Open(i)
  /\ book' = [book EXCEPT ![i].status = s]
  /\ MayDispute(i)
  /\ UNCHANGED stock

Cancel(i) ==
  /\ Open(i)
  /\ book' = [book EXCEPT ![i].status = "CANCELLED"]
  /\ stock' = [p \in Products |-> stock[p] + book[i].units[p]]
  /\ MayDispute(i)

\* The product service overwrites the stock of one product.
Restock ==
  /\ \E p \in Products :
       /\ stock'[p] \in Nat
       /\ stock' = [stock EXCEPT ![p] = stock'[p]]
  /\ UNCHANGED <<book, disputed>>

Next ==
  \/ Place
  \/ \E i \in 1..Len(book) : Cancel(i) \/ \E s \in Statuses : Move(i, s)
  \/ Restock

Spec == Init /\ [][Next]_bvars
=============================================================================
