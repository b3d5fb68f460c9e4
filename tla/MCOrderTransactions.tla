------------------------ MODULE MCOrderTransactions ------------------------
(* Instances of OrderTransactions for TLC: two products, carts that take    *)
(* them in opposite orders, and a pool that three transactions exhaust.       *)
EXTENDS OrderTransactions, TLC

CONSTANTS hat, pen, r1, r2, r3, c1

MCInitStock == [p \in Products |-> 2]
Item(p) == [product |-> p, quantity |-> 1]
MCCarts == {<<Item(hat), Item(pen)>>, <<Item(pen), Item(hat)>>}
=============================================================================
