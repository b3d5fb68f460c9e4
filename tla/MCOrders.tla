------------------------------ MODULE MCOrders ------------------------------
(* Instances of Orders for TLC: two products with two units of one and one  *)
(* of the other, a customer and an administrator.                           *)
EXTENDS Orders, TLC

CONSTANTS ann, root, hat, pen, r1, r2, r3, a1, a2, a3, e1, e2

MCRole == ann :> "user" @@ root :> "admin"
MCInitStock == [p \in Products |-> IF p = hat THEN 2 ELSE 1]

Item(p, q) == [product |-> p, quantity |-> q]

\* One line, two lines, and two lines for the same product.
MCCarts == {<<Item(hat, 2)>>, <<Item(hat, 1), Item(pen, 1)>>,
            <<Item(pen, 1), Item(pen, 1)>>}
OneCart == {<<Item(hat, 1), Item(pen, 1)>>}
SmallCart == {<<Item(hat, 1)>>}

Creates == Permutations(CreateReqs)
Requests == Permutations(CreateReqs) \cup Permutations(AdminReqs)
              \cup Permutations(EditReqs)
=============================================================================
