----------------------------- MODULE Catalogue -----------------------------
(***************************************************************************)
(* Creating and deleting products (api/v1/products/products.service.ts,    *)
(* generateProductCode of utils/codeGenerator.util.ts).  Orders models     *)
(* updates and deletions against orders.                                   *)
(***************************************************************************)
EXTENDS Api

VARIABLES
  catalogue,  \* [code, deleted]: the rows of products, in id order
  drawn       \* the code that a request's service has generated

catalogueVars == <<catalogue, drawn>>

\* The seeder has made one product.
CatalogueInit ==
  /\ catalogue = <<[code |-> 1, deleted |-> FALSE]>>
  /\ drawn = [r \in Requests |-> 0]

CreateProduct(r) == Send(r, [kind |-> "createProduct"])

\* Mutant: deleted products are left out of the search.
NextProductCodeOfLive ==
  LET live == {i \in 1..Len(catalogue) : ~catalogue[i].deleted} IN
  IF live = {} THEN 1
  ELSE catalogue[CHOOSE i \in live : \A j \in live : j <= i].code + 1

\* generateProductCode: one more than in the newest row, deleted or not.
NextProductCode == IF catalogue = <<>> THEN 1 ELSE catalogue[Len(catalogue)].code + 1

DrawProductCode(r) ==
  /\ At(r, "admitted")
  /\ Kind(r) = "createProduct"
  /\ drawn' = [drawn EXCEPT ![r] = NextProductCode]
  /\ Answer(r, "writing")
  /\ UNCHANGED catalogue

\* products.code is UNIQUE, and a deleted row keeps its code.
ProductCodeUnique(c) == \A i \in 1..Len(catalogue) : catalogue[i].code # c

WriteProduct(r) ==
  /\ At(r, "writing")
  /\ Kind(r) = "createProduct"
  /\ IF ProductCodeUnique(drawn[r])
       THEN /\ catalogue' = Append(catalogue, [code |-> drawn[r], deleted |-> FALSE])
            /\ Answer(r, "ok")
       ELSE /\ Answer(r, "taken")
            /\ UNCHANGED catalogue
  /\ UNCHANGED drawn

DeleteProduct(r) ==
  \E i \in 1..Len(catalogue) : Send(r, [kind |-> "deleteProduct", product |-> i])

\* SDeleteProduct: two deletions that both find the row delete it twice,
\* which comes to the same.
RemoveProduct(r) ==
  /\ At(r, "admitted")
  /\ Kind(r) = "deleteProduct"
  /\ IF catalogue[Ask(r).product].deleted
       THEN /\ Answer(r, "failed")
            /\ UNCHANGED catalogue
       ELSE /\ catalogue' = [catalogue EXCEPT ![Ask(r).product].deleted = TRUE]
            /\ Answer(r, "ok")
  /\ UNCHANGED drawn

CatalogueStep(r) ==
  \/ (CreateProduct(r) \/ DeleteProduct(r)) /\ UNCHANGED catalogueVars
  \/ DrawProductCode(r) \/ WriteProduct(r) \/ RemoveProduct(r)
=============================================================================
