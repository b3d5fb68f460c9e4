----------------------------- MODULE Storefront -----------------------------
(***************************************************************************)
(* The cart and the checkout of one customer (app/cart/page.tsx,           *)
(* utils/helper/cart.ts, components/organisms/CartSidebar,                 *)
(* components/organisms/ProductList, components/molecules/CartItemCard and *)
(* ProductCard, createOrder of services/api/orders).                       *)
(*                                                                         *)
(* The cart is in localStorage, which the tabs of the browser share; each  *)
(* page holds the copy that loadCart made for it, and does not hear of     *)
(* changes made in another tab.  The helpers of cart.ts are synchronous: a *)
(* handler up to its first await is one action.                            *)
(*                                                                         *)
(* createOrder is a server action: the browser calls the Next.js server,   *)
(* which calls the backend.  Next.js (external) sends the actions of one   *)
(* tab one at a time, and a router.push ends some time after the call; the *)
(* page stays usable until then.  The customer's own moves from page to    *)
(* page are one step.  A click on "Buy Now" is an Add and a Visit.         *)
(***************************************************************************)
EXTENDS Naturals, Sequences, FiniteSets, Functions

CONSTANTS
  Tabs,
  Products,     \* products whose card is not out of stock
  Stock,        \* Stock[p]: the stock in the copy of p that the cart keeps
  MaxUnits,     \* bound: units of a product in the cart
  MaxLines,     \* bound: lines made
  MaxCheckouts  \* bound: checkouts begun

ASSUME StorefrontAssumption ==
  /\ Stock \in [Products -> Nat \ {0}]
  /\ {MaxUnits, MaxLines, MaxCheckouts} \subseteq Nat

VARIABLES
  cart,       \* localStorage: product -> [quantity, id] for those in the cart
  tabs,       \* the page of each tab: shop, sidebar, cart or orders
  checkouts,  \* the calls of createOrder, in the order they were made
  lastLine,   \* history: lines made so far; a line's id is its number
  removed     \* history: lines the customer has taken out

vars == <<cart, tabs, checkouts, lastLine, removed>>

Ids(c) == {c[p].id : p \in DOMAIN c}
Empty == [p \in {} |-> 0]
Calls == 1..Len(checkouts)

\* A call of createOrder is "unsent" while it waits for its turn in the tab,
\* then "processing", and "placed" when it is committed and not yet answered.
\* handleCheckout has heard of success ("ok") or of a failure ("failed"), or
\* will never hear ("lost").

\* shown is what a page that lists the cart shows; loading is the checkout
\* that keeps its button disabled, or 0; going: the tab is on its way to the
\* orders.  History, of the moment the page loaded the cart: the checkouts that
\* had succeeded (knows), the last line (seen), and the lines that had been
\* taken out by then, or on this very page (gone).  A call keeps its page's
\* seen.

\* A page that does not list the cart.
Page(name) == [page |-> name, shown |-> Empty, loading |-> 0, going |-> FALSE,
               knows |-> {}, seen |-> 0, gone |-> {}]

Ok == {i \in Calls : checkouts[i].pc = "ok"}

Init ==
  /\ cart = Empty
  /\ tabs = [t \in Tabs |-> Page("shop")]
  /\ checkouts = <<>>
  /\ lastLine = 0
  /\ removed = {}

-----------------------------------------------------------------------------
(* The cart.                                                               *)

\* Mutant: lines of which there is not enough are not loaded.
LoadAvailable(c) == Restrict(c, {p \in DOMAIN c : c[p].quantity <= Stock[p]})

\* getCart.
Load(c) == c

\* loadCart, with the cart c and the removed lines out.
Loaded(tab, c, out) ==
  [tab EXCEPT !.shown = Load(c), !.seen = lastLine, !.gone = out, !.knows = Ok]

\* updateCartItemQuantity with a positive quantity: a line that is no longer
\* in the cart stays out.
WithQuantity(c, p, n) ==
  IF p \in DOMAIN c THEN [c EXCEPT ![p].quantity = n] ELSE c

Without(c, p) == Restrict(c, DOMAIN c \ {p})

\* addToCart: one more unit in the line of the product, or a new line.
\* Nothing compares the quantity with the stock.
Add(t, p) ==
  /\ tabs[t].page = "shop"
  /\ IF p \in DOMAIN cart
       THEN /\ cart[p].quantity < MaxUnits
            /\ cart' = [cart EXCEPT ![p].quantity = @ + 1]
            /\ UNCHANGED lastLine
       ELSE /\ lastLine < MaxLines
            /\ lastLine' = lastLine + 1
            /\ cart' = [q \in DOMAIN cart \cup {p} |->
                 IF q = p THEN [quantity |-> 1, id |-> lastLine + 1] ELSE cart[q]]
  /\ UNCHANGED <<tabs, checkouts, removed>>

\* The cards of the sidebar and of the cart page.
Listed(t, p) ==
  tabs[t].page \in {"sidebar", "cart"} /\ p \in DOMAIN tabs[t].shown

\* Mutant: the page is not loaded again after a change.
UnloadedAfter(tab, c, out) == [tab EXCEPT !.gone = out]

\* handleUpdateQuantity and handleRemove end with loadCart.
LoadedAfter(tab, c, out) == Loaded(tab, c, out)

\* The buttons + and -, which count from the quantity on the page.
SetQuantity(t, p) ==
  /\ Listed(t, p)
  /\ LET shown == tabs[t].shown[p].quantity IN
     \E n \in {shown + 1, shown - 1} :
       /\ n > shown => shown < Stock[p]
       /\ n > 0
       /\ cart' = WithQuantity(cart, p, n)
  /\ tabs' = [tabs EXCEPT ![t] = LoadedAfter(@, cart', removed)]
  /\ UNCHANGED <<checkouts, lastLine, removed>>

Remove(t, p) ==
  /\ Listed(t, p)
  /\ cart' = Without(cart, p)
  /\ removed' = removed \cup (Ids(cart) \ Ids(cart'))
  /\ tabs' = [tabs EXCEPT ![t] = LoadedAfter(@, cart', removed')]
  /\ UNCHANGED <<checkouts, lastLine>>

\* "Clear Cart" of the sidebar, confirmed.
ClearCart(t) ==
  /\ tabs[t].page = "sidebar"
  /\ tabs[t].shown # Empty
  /\ cart' = Empty
  /\ removed' = removed \cup Ids(cart)
  /\ tabs' = [tabs EXCEPT ![t] = LoadedAfter(@, cart', removed')]
  /\ UNCHANGED <<checkouts, lastLine>>

\* Another page of the same tab; the page is mounted anew: it loads the cart,
\* and its button is enabled.  The sidebar opens over the shop; any other move
\* is a navigation, and overtakes a router.push under way.
Visit(t) ==
  /\ \/ /\ tabs[t].page = "sidebar"
        /\ tabs' = [tabs EXCEPT ![t] = [Page("shop") EXCEPT !.going = tabs[t].going]]
     \/ /\ tabs[t].page = "shop"
        /\ tabs' = [tabs EXCEPT ![t] = Loaded([@ EXCEPT !.page = "sidebar"], cart, removed)]
     \/ /\ tabs[t].page \in {"cart", "orders"}
        /\ tabs' = [tabs EXCEPT ![t] = Page("shop")]
     \/ /\ tabs[t].page # "cart"
        /\ tabs' = [tabs EXCEPT ![t] = Loaded(Page("cart"), cart, removed)]
  /\ UNCHANGED <<cart, checkouts, lastLine, removed>>

-----------------------------------------------------------------------------
(* The checkout.                                                           *)

\* The button is disabled while loading and for an empty cart.
MayCheckOut(tab) == tab.shown # Empty /\ tab.loading = 0

\* handleCheckout up to its await sends what the page shows: of its lines only
\* the ids are kept here.
Checkout(t) ==
  /\ tabs[t].page = "cart"
  /\ MayCheckOut(tabs[t])
  /\ Len(checkouts) < MaxCheckouts
  /\ checkouts' = Append(checkouts,
       [tab |-> t, lines |-> Ids(tabs[t].shown), seen |-> tabs[t].seen,
        pc |-> "unsent"])
  /\ tabs' = [tabs EXCEPT ![t].loading = Len(checkouts')]
  /\ UNCHANGED <<cart, lastLine, removed>>

Unanswered(c) == checkouts[c].pc \in {"unsent", "processing", "placed"}
Sent(c) == checkouts[c].pc \in {"processing", "placed"}

\* Next.js sends the call when those before it in the tab have ended.
Dispatch(c) ==
  /\ checkouts[c].pc = "unsent"
  /\ \A i \in 1..(c - 1) :
       Unanswered(i) => checkouts[i].tab # checkouts[c].tab
  /\ checkouts' = [checkouts EXCEPT ![c].pc = "processing"]
  /\ UNCHANGED <<cart, tabs, lastLine, removed>>

\* SCreateOrder commits.  It may also do so after the browser has given up,
\* which nothing here sees.
Place(c) ==
  /\ checkouts[c].pc = "processing"
  /\ checkouts' = [checkouts EXCEPT ![c].pc = "placed"]
  /\ UNCHANGED <<cart, tabs, lastLine, removed>>

\* Mutant: the cart is kept.
CartAfterSuccessKept == cart

\* clearCart, whatever is in the cart by now.
CartAfterSuccess == Empty

\* handleCheckout goes on: the order was placed.  Its page, if the tab still
\* has it, enables the button over the lines it shows; then clearCart, the
\* alert, and router.push("/orders") wherever the tab is by now.
Succeed(c) ==
  /\ checkouts[c].pc = "placed"
  /\ checkouts' = [checkouts EXCEPT ![c].pc = "ok"]
  /\ cart' = CartAfterSuccess
  /\ LET tab == tabs[checkouts[c].tab]
         enabled == IF tab.loading = c THEN 0 ELSE tab.loading
     IN  tabs' = [tabs EXCEPT ![checkouts[c].tab] =
                    [tab EXCEPT !.loading = enabled, !.going = TRUE]]
  /\ UNCHANGED <<lastLine, removed>>

\* The router.push ends.
Arrive(t) ==
  /\ tabs[t].going
  /\ tabs' = [tabs EXCEPT ![t] = Page("orders")]
  /\ UNCHANGED <<cart, checkouts, lastLine, removed>>

\* createOrder returns errorMessage(...): the backend refused; or it answered
\* 202, whose body has no queue.token, and will not run the request; or its
\* answer is lost, though the order may be placed.  The cart is kept.
AnswerFails(c) ==
  /\ Sent(c)
  /\ checkouts' = [checkouts EXCEPT ![c].pc = "failed"]
  /\ tabs' = [tabs EXCEPT ![checkouts[c].tab].loading = IF @ = c THEN 0 ELSE @]
  /\ UNCHANGED <<cart, lastLine, removed>>

\* The browser cannot reach the Next.js server, or loses its answer.  Nothing
\* catches the error: the button stays disabled.
Reject(c) ==
  /\ Sent(c)
  /\ checkouts' = [checkouts EXCEPT ![c].pc = "lost"]
  /\ UNCHANGED <<cart, tabs, lastLine, removed>>

\* The tab is reloaded: calls that were waiting are never made, the one that
\* was made goes on unheard.
Reload(t) ==
  /\ checkouts' = [c \in Calls |->
       IF checkouts[c].tab = t /\ Unanswered(c)
         THEN [checkouts[c] EXCEPT !.pc = "lost"] ELSE checkouts[c]]
  /\ tabs' = [tabs EXCEPT ![t] =
       IF @.page = "cart" THEN Loaded(Page("cart"), cart, removed)
       ELSE Page(IF @.page = "sidebar" THEN "shop" ELSE @.page)]
  /\ UNCHANGED <<cart, lastLine, removed>>

Next ==
  \/ \E t \in Tabs, p \in Products : Add(t, p) \/ SetQuantity(t, p) \/ Remove(t, p)
  \/ \E t \in Tabs : ClearCart(t) \/ Visit(t) \/ Arrive(t) \/ Checkout(t) \/ Reload(t)
  \/ \E c \in Calls :
       Dispatch(c) \/ Place(c) \/ Succeed(c) \/ AnswerFails(c) \/ Reject(c)

Spec == Init /\ [][Next]_vars

-----------------------------------------------------------------------------
(* Properties.                                                             *)

\* Lines that the customer has been told are ordered are ordered again only by
\* a page that had loaded the cart before they were told: a page of another tab,
\* or, in the tab that told them, the page that still shows them until the tab
\* reaches the orders.  (handleCheckout leaves cartItems as they were.)
AgainOnlyWhileStale ==
  [][\A d \in Calls' \ Calls : \A c \in Ok :
       LET tab == checkouts'[d].tab IN
       checkouts[c].lines \cap checkouts'[d].lines # {} =>
         /\ c \notin tabs[tab].knows
         /\ checkouts[c].tab = tab => tabs[tab].going
    ]_vars

\* A line that the customer took out on a page, or before that page loaded
\* the cart, is not in an order that the page sends; only another tab can
\* take a line out under a page that still orders it.
NotOrderedOnceOut ==
  [][\A d \in Calls' \ Calls :
       checkouts'[d].lines \cap tabs[checkouts'[d].tab].gone = {}]_vars

\* A checkout that succeeds empties the cart of more than it has ordered, but
\* what it takes without having ordered it was put into the cart after its
\* page had loaded the cart.
WipesOnlyNewer ==
  [][\A c \in Calls : Unanswered(c) /\ checkouts'[c].pc = "ok" =>
       \A p \in DOMAIN cart :
         \/ p \in DOMAIN cart' /\ cart'[p].id = cart[p].id
         \/ cart[p].id \in checkouts[c].lines
         \/ cart[p].id > checkouts[c].seen
    ]_vars
=============================================================================
