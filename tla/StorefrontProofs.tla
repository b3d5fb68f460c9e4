--------------------------- MODULE StorefrontProofs ---------------------------
(***************************************************************************)
(* Theorems about Storefront, for any number of tabs, products, units,     *)
(* lines and checkouts: AgainOnlyWhileStale, NotOrderedOnceOut and         *)
(* WipesOnlyNewer.                                                         *)
(***************************************************************************)
EXTENDS Storefront, DataProofs

\* Records, as functions on the names of their fields.
Line(x) == x = [n \in {"quantity", "id"} |-> x[n]]
Tab(x) ==
  x = [n \in {"page", "shown", "loading", "going", "knows", "seen", "gone"} |-> x[n]]
Call(x) == x = [n \in {"tab", "lines", "seen", "pc"} |-> x[n]]

Cart(c) == c = [p \in DOMAIN c |-> c[p]] /\ \A p \in DOMAIN c : Line(c[p])

Types ==
  /\ Cart(cart) /\ lastLine \in Nat
  /\ tabs = [t \in Tabs |-> tabs[t]] /\ \A t \in Tabs : Tab(tabs[t])
  /\ IsSeq(checkouts) /\ \A c \in Calls : Call(checkouts[c])

\* Lines are numbered in the order they are made; one that was ordered with
\* success, or taken out, is not in the cart.
CartInv ==
  /\ Ids(cart) \subseteq 1..lastLine /\ removed \subseteq 1..lastLine
  /\ Ids(cart) \cap removed = {}
  /\ \A c \in Ok : checkouts[c].lines \cap Ids(cart) = {}

\* A page that loaded these lines when it did, knowing k, seen and out.
Fresh(lines, k, seen, out) ==
  /\ lines \subseteq 1..lastLine
  /\ seen \in Nat /\ seen <= lastLine
  /\ k \subseteq Ok /\ \A c \in k : checkouts[c].lines \cap lines = {}
  /\ lines \cap out = {}
  /\ \A p \in DOMAIN cart : cart[p].id \in lines \/ cart[p].id > seen

TabsInv ==
  \A t \in Tabs : Fresh(Ids(tabs[t].shown), tabs[t].knows, tabs[t].seen, tabs[t].gone)
CallsInv ==
  \A c \in Calls : Fresh(checkouts[c].lines, {}, checkouts[c].seen, {})

\* A tab that still shows lines of its own checkout that has succeeded is on
\* its way to the orders.
LeavingInv ==
  \A c \in Ok, t \in Tabs :
    checkouts[c].tab = t /\ checkouts[c].lines \cap Ids(tabs[t].shown) # {}
      => tabs[t].going

Inv == Types /\ CartInv /\ TabsInv /\ CallsInv /\ LeavingInv

-----------------------------------------------------------------------------
(* Carts.                                                                  *)

LEMMA CallsAre ==
  ASSUME Types
  PROVE  Len(checkouts) \in Nat /\ DOMAIN checkouts = Calls
  BY SeqLen DEF Types, Calls

LEMMA WithQuantityKeeps ==
  ASSUME NEW c, Cart(c), NEW p, NEW n
  PROVE  LET d == WithQuantity(c, p, n)
         IN  Cart(d) /\ DOMAIN d = DOMAIN c /\ \A q \in DOMAIN c : d[q].id = c[q].id
  <1>1. CASE p \in DOMAIN c
    <2> DEFINE x == [c[p] EXCEPT !.quantity = n]
    <2>1. Line(x) /\ x.id = c[p].id
      BY <1>1 DEF Cart, Line
    <2>2. WithQuantity(c, p, n) = [c EXCEPT ![p] = x]
      BY <1>1 DEF WithQuantity
    <2> HIDE DEF x
    <2>3. Cart([c EXCEPT ![p] = x]) /\ DOMAIN [c EXCEPT ![p] = x] = DOMAIN c
      BY <2>1 DEF Cart
    <2>4. \A q \in DOMAIN c : [c EXCEPT ![p] = x][q].id = c[q].id
      BY <2>1
    <2> QED BY <2>2, <2>3, <2>4
  <1>2. CASE p \notin DOMAIN c
    BY <1>2 DEF WithQuantity
  <1> QED BY <1>1, <1>2

LEMMA WithoutKeeps ==
  ASSUME NEW c, Cart(c), NEW p
  PROVE  LET d == Without(c, p)
         IN  Cart(d) /\ DOMAIN d \subseteq DOMAIN c /\ \A q \in DOMAIN d : d[q].id = c[q].id
  BY DEF Without, Restrict, Cart

LEMMA EmptyCart == Cart(Empty) /\ DOMAIN Empty = {} /\ Ids(Empty) = {}
  BY DEF Empty, Cart, Ids

-----------------------------------------------------------------------------
(* What a step does to the cart, to the calls and to the pages.            *)

\* Lines leave the cart, stay in it, or are new.
CartMoves ==
  /\ Cart(cart') /\ lastLine' \in Nat /\ lastLine <= lastLine'
  /\ \A p \in DOMAIN cart' :
       \/ p \in DOMAIN cart /\ cart'[p].id = cart[p].id
       \/ lastLine' = lastLine + 1 /\ cart'[p].id = lastLine'
  /\ removed \subseteq removed' /\ removed' \subseteq removed \cup Ids(cart)
  /\ Ids(cart') \cap (removed' \ removed) = {}

SameCall(c) ==
  /\ checkouts'[c].lines = checkouts[c].lines /\ checkouts'[c].seen = checkouts[c].seen
  /\ checkouts'[c].tab = checkouts[c].tab

Leaves(t) == t \in Tabs => tabs'[t].going

\* Calls stay as they were made; what succeeds empties the cart and sends its
\* tab to the orders.
CallsMove ==
  /\ IsSeq(checkouts') /\ Len(checkouts') \in Nat /\ Len(checkouts) <= Len(checkouts')
  /\ \A c \in 1..Len(checkouts') : Call(checkouts'[c])
  /\ \A c \in Calls :
       /\ SameCall(c)
       /\ checkouts[c].pc = "ok" => checkouts'[c].pc = "ok"
       /\ checkouts'[c].pc = "ok" =>
            checkouts[c].pc = "ok" \/ (cart' = Empty /\ Leaves(checkouts[c].tab))
  /\ \A c \in 1..Len(checkouts') : c \notin Calls =>
       /\ checkouts'[c].pc # "ok"
       /\ \E t \in Tabs :
            /\ checkouts'[c].lines = Ids(tabs[t].shown)
            /\ checkouts'[c].seen = tabs[t].seen /\ checkouts'[c].tab = t

\* A page stays, is one without the cart, or has loaded it.
SamePage(t) ==
  /\ tabs'[t].shown = tabs[t].shown /\ tabs'[t].knows = tabs[t].knows
  /\ tabs'[t].seen = tabs[t].seen /\ tabs'[t].gone = tabs[t].gone
  /\ tabs[t].going => tabs'[t].going
BarePage(x) == x.shown = Empty /\ x.knows = {} /\ x.seen = 0 /\ x.gone = {}
LoadedPage(x, c, out) ==
  x.shown = c /\ x.knows = Ok /\ x.seen = lastLine /\ x.gone = out

TabsMove ==
  /\ tabs' = [t \in Tabs |-> tabs'[t]]
  /\ \A t \in Tabs :
       /\ Tab(tabs'[t])
       /\ \/ SamePage(t) \/ BarePage(tabs'[t])
          \/ lastLine' = lastLine /\ LoadedPage(tabs'[t], cart', removed')

Moves == CartMoves /\ CallsMove /\ TabsMove

LEMMA PageIsBare == ASSUME NEW name PROVE Tab(Page(name)) /\ BarePage(Page(name))
  BY DEF Tab, Page, BarePage

LEMMA GoingPageIsBare ==
  ASSUME NEW name, NEW g
  PROVE  Tab([Page(name) EXCEPT !.going = g]) /\ BarePage([Page(name) EXCEPT !.going = g])
  BY DEF Tab, Page, BarePage

LEMMA LoadedIs ==
  ASSUME NEW x, Tab(x), NEW c, NEW out
  PROVE  Tab(Loaded(x, c, out)) /\ LoadedPage(Loaded(x, c, out), c, out)
  BY DEF Tab, Loaded, LoadedPage, Ok, Load

LEMMA CallsStay ==
  ASSUME Types, UNCHANGED checkouts
  PROVE  CallsMove
  BY CallsAre DEF Types, CallsMove, SameCall, Calls

LEMMA TabsStay ==
  ASSUME Types, UNCHANGED tabs
  PROVE  TabsMove
  BY DEF Types, TabsMove, SamePage

LEMMA CartStays ==
  ASSUME Types, UNCHANGED <<cart, lastLine, removed>>
  PROVE  CartMoves
  BY DEF Types, CartMoves, Ids

\* One page changes.
LEMMA OneTab ==
  ASSUME Types, NEW t \in Tabs, NEW x, Tab(x), tabs' = [tabs EXCEPT ![t] = x],
         \/ BarePage(x)
         \/ lastLine' = lastLine /\ LoadedPage(x, cart', removed')
         \/ /\ x.shown = tabs[t].shown /\ x.knows = tabs[t].knows
            /\ x.seen = tabs[t].seen /\ x.gone = tabs[t].gone
            /\ tabs[t].going => x.going
  PROVE  TabsMove
  BY DEF Types, TabsMove, SamePage, BarePage, LoadedPage

\* One call goes on.
LEMMA OneCall ==
  ASSUME Types, NEW c \in Calls, NEW pc, checkouts' = [checkouts EXCEPT ![c].pc = pc],
         checkouts[c].pc # "ok", pc = "ok" => cart' = Empty /\ Leaves(checkouts[c].tab)
  PROVE  CallsMove
  <1> DEFINE x == [checkouts[c] EXCEPT !.pc = pc]
  <1>t. IsSeq(checkouts) /\ \A i \in Calls : Call(checkouts[i])
    BY DEF Types
  <1>1. /\ Call(x) /\ x.pc = pc /\ x.lines = checkouts[c].lines
        /\ x.seen = checkouts[c].seen /\ x.tab = checkouts[c].tab
    BY <1>t DEF Call
  <1>2. checkouts' = [checkouts EXCEPT ![c] = x]
    OBVIOUS
  <1> HIDE DEF x
  <1>3. /\ IsSeq(checkouts') /\ Len(checkouts') = Len(checkouts)
        /\ \A i \in 1..Len(checkouts) : checkouts'[i] = IF i = c THEN x ELSE checkouts[i]
    <2>1. IsSeq(checkouts) /\ c \in 1..Len(checkouts)
      BY <1>t DEF Calls
    <2>2. PICK d : d = checkouts'
      OBVIOUS
    <2>3. d = [checkouts EXCEPT ![c] = x]
      BY <1>2, <2>2
    <2>4. WrittenAt(checkouts, c, x, d)
      BY <2>1, <2>3, SeqWritten
    <2> QED BY <2>2, <2>4 DEF WrittenAt
  <1>4. Len(checkouts) \in Nat
    BY CallsAre
  <1> QED BY <1>t, <1>1, <1>3, <1>4 DEF CallsMove, SameCall, Calls

LEMMA AddMoves ==
  ASSUME Inv, NEW t \in Tabs, NEW p \in Products, Add(t, p)
  PROVE  Moves
  <1>t. Types
    BY DEF Inv
  <1>n. lastLine \in Nat
    BY <1>t DEF Types
  <1>1. CallsMove /\ TabsMove
    BY <1>t, CallsStay, TabsStay DEF Add
  <1>2. CASE p \in DOMAIN cart
    <2> DEFINE x == [cart[p] EXCEPT !.quantity = @ + 1]
    <2>1. Line(x) /\ x.id = cart[p].id
      BY <1>t, <1>2 DEF Types, Cart, Line
    <2>2. cart' = [cart EXCEPT ![p] = x] /\ UNCHANGED <<lastLine, removed>>
      BY <1>2 DEF Add
    <2> HIDE DEF x
    <2>3. /\ Cart(cart') /\ DOMAIN cart' = DOMAIN cart
          /\ \A q \in DOMAIN cart : cart'[q].id = cart[q].id
      BY <1>t, <2>1, <2>2 DEF Types, Cart
    <2>4. CartMoves
      BY <1>n, <2>2, <2>3 DEF CartMoves
    <2> QED BY <1>1, <2>4 DEF Moves
  <1>3. CASE p \notin DOMAIN cart
    <2> DEFINE x == [quantity |-> 1, id |-> lastLine + 1]
    <2>1. Line(x) /\ x.id = lastLine + 1
      BY DEF Line
    <2>2. cart' = [q \in DOMAIN cart \cup {p} |-> IF q = p THEN x ELSE cart[q]]
          /\ lastLine' = lastLine + 1 /\ removed' = removed
      BY <1>3 DEF Add
    <2> HIDE DEF x
    <2>3. Cart(cart') /\ DOMAIN cart' = DOMAIN cart \cup {p}
          /\ \A q \in DOMAIN cart' : cart'[q].id = IF q = p THEN lastLine + 1 ELSE cart[q].id
      BY <1>t, <2>1, <2>2 DEF Types, Cart
    <2>4. CartMoves
      BY <1>n, <2>2, <2>3 DEF CartMoves
    <2> QED BY <1>1, <2>4 DEF Moves
  <1> QED BY <1>2, <1>3

LEMMA SetQuantityMoves ==
  ASSUME Inv, NEW t \in Tabs, NEW p, SetQuantity(t, p)
  PROVE  Moves
  <1>t. Types
    BY DEF Inv
  <1>1. PICK n : cart' = WithQuantity(cart, p, n)
    BY DEF SetQuantity
  <1>2. /\ Cart(cart') /\ DOMAIN cart' = DOMAIN cart
        /\ \A q \in DOMAIN cart : cart'[q].id = cart[q].id
    BY <1>t, <1>1, WithQuantityKeeps DEF Types
  <1>3. UNCHANGED <<checkouts, lastLine, removed>>
        /\ tabs' = [tabs EXCEPT ![t] = Loaded(tabs[t], cart', removed)]
    BY DEF SetQuantity, LoadedAfter
  <1>4. CartMoves
    BY <1>t, <1>2, <1>3 DEF CartMoves, Types
  <1>5. TabsMove
    <2>1. /\ Tab(Loaded(tabs[t], cart', removed))
          /\ LoadedPage(Loaded(tabs[t], cart', removed), cart', removed)
      BY <1>t, LoadedIs DEF Types
    <2> QED BY <1>t, <1>3, <2>1, OneTab
  <1> QED BY <1>t, <1>3, <1>4, <1>5, CallsStay DEF Moves

LEMMA RemoveMoves ==
  ASSUME Inv, NEW t \in Tabs, NEW p, Remove(t, p)
  PROVE  Moves
  <1>t. Types
    BY DEF Inv
  <1>1. /\ cart' = Without(cart, p) /\ removed' = removed \cup (Ids(cart) \ Ids(cart'))
        /\ UNCHANGED <<checkouts, lastLine>>
        /\ tabs' = [tabs EXCEPT ![t] = Loaded(tabs[t], cart', removed')]
    BY DEF Remove, LoadedAfter
  <1>2. /\ Cart(cart') /\ DOMAIN cart' \subseteq DOMAIN cart
        /\ \A q \in DOMAIN cart' : cart'[q].id = cart[q].id
    BY <1>t, <1>1, WithoutKeeps DEF Types
  <1>4. CartMoves
    BY <1>t, <1>1, <1>2 DEF CartMoves, Types
  <1>5. TabsMove
    <2>1. /\ Tab(Loaded(tabs[t], cart', removed'))
          /\ LoadedPage(Loaded(tabs[t], cart', removed'), cart', removed')
      BY <1>t, LoadedIs DEF Types
    <2> QED BY <1>t, <1>1, <2>1, OneTab
  <1> QED BY <1>t, <1>1, <1>4, <1>5, CallsStay DEF Moves

LEMMA ClearCartMoves ==
  ASSUME Inv, NEW t \in Tabs, ClearCart(t)
  PROVE  Moves
  <1>t. Types
    BY DEF Inv
  <1>1. /\ cart' = Empty /\ removed' = removed \cup Ids(cart) /\ UNCHANGED <<checkouts, lastLine>>
        /\ tabs' = [tabs EXCEPT ![t] = Loaded(tabs[t], cart', removed')]
    BY DEF ClearCart, LoadedAfter
  <1>4. CartMoves
    BY <1>t, <1>1, EmptyCart DEF CartMoves, Types
  <1>5. TabsMove
    <2>1. /\ Tab(Loaded(tabs[t], cart', removed'))
          /\ LoadedPage(Loaded(tabs[t], cart', removed'), cart', removed')
      BY <1>t, LoadedIs DEF Types
    <2> QED BY <1>t, <1>1, <2>1, OneTab
  <1> QED BY <1>t, <1>1, <1>4, <1>5, CallsStay DEF Moves

LEMMA VisitMoves ==
  ASSUME Inv, NEW t \in Tabs, Visit(t)
  PROVE  Moves
  <1>t. Types
    BY DEF Inv
  <1>1. UNCHANGED <<cart, checkouts, lastLine, removed>>
    BY DEF Visit
  <1>2. ASSUME tabs' = [tabs EXCEPT ![t] = Page("shop")] PROVE TabsMove
    BY <1>t, <1>2, PageIsBare, OneTab
  <1>4. ASSUME tabs[t].page = "sidebar",
               tabs' = [tabs EXCEPT ![t] = [Page("shop") EXCEPT !.going = tabs[t].going]]
        PROVE  TabsMove
    BY <1>t, <1>4, GoingPageIsBare, OneTab
  <1>5. ASSUME tabs' = [tabs EXCEPT
                 ![t] = Loaded([tabs[t] EXCEPT !.page = "sidebar"], cart, removed)]
        PROVE  TabsMove
    <2> DEFINE x == [tabs[t] EXCEPT !.page = "sidebar"]
    <2>1. Tab(x)
      BY <1>t DEF Types, Tab
    <2> HIDE DEF x
    <2>2. Tab(Loaded(x, cart, removed)) /\ LoadedPage(Loaded(x, cart, removed), cart', removed')
      BY <1>1, <2>1, LoadedIs
    <2>3. tabs' = [tabs EXCEPT ![t] = Loaded(x, cart, removed)]
      BY <1>5 DEF x
    <2> QED BY <1>t, <1>1, <2>2, <2>3, OneTab
  <1>3. ASSUME NEW name, tabs' = [tabs EXCEPT ![t] = Loaded(Page(name), cart, removed)]
        PROVE  TabsMove
    <2>1. /\ Tab(Loaded(Page(name), cart, removed))
          /\ LoadedPage(Loaded(Page(name), cart, removed), cart', removed')
      BY <1>1, PageIsBare, LoadedIs
    <2> QED BY <1>t, <1>1, <1>3, <2>1, OneTab
  <1>6. TabsMove
    BY <1>2, <1>3, <1>4, <1>5 DEF Visit
  <1> QED BY <1>t, <1>1, <1>6, CallsStay, CartStays DEF Moves

LEMMA ArriveMoves ==
  ASSUME Inv, NEW t \in Tabs, Arrive(t)
  PROVE  Moves
  BY PageIsBare, OneTab, CallsStay, CartStays DEF Inv, Arrive, Moves

LEMMA CheckoutMoves ==
  ASSUME Inv, NEW t \in Tabs, Checkout(t)
  PROVE  Moves
  <1>t. Types /\ Len(checkouts) \in Nat
    BY CallsAre DEF Inv
  <1> DEFINE e == [tab |-> t, lines |-> Ids(tabs[t].shown), seen |-> tabs[t].seen,
                   pc |-> "unsent"]
             x == [tabs[t] EXCEPT !.loading = Len(checkouts')]
  <1>1. /\ Call(e) /\ e.lines = Ids(tabs[t].shown) /\ e.pc # "ok"
        /\ e.seen = tabs[t].seen /\ e.tab = t
    BY DEF Call
  <1>2. checkouts' = Append(checkouts, e)
    BY DEF Checkout
  <1>3. tabs' = [tabs EXCEPT ![t] = x] /\ UNCHANGED <<cart, lastLine, removed>>
    BY DEF Checkout
  <1>4. /\ Tab(x) /\ x.shown = tabs[t].shown /\ x.knows = tabs[t].knows
        /\ x.seen = tabs[t].seen /\ x.gone = tabs[t].gone /\ x.going = tabs[t].going
    BY <1>t DEF Types, Tab
  <1> HIDE DEF e, x
  <1>5. TabsMove
    BY <1>t, <1>3, <1>4, OneTab
  <1>6. /\ IsSeq(checkouts') /\ Len(checkouts') = Len(checkouts) + 1
        /\ checkouts'[Len(checkouts) + 1] = e
        /\ \A i \in 1..Len(checkouts) : checkouts'[i] = checkouts[i]
    <2>1. PICK d : d = checkouts'
      OBVIOUS
    <2>2. d = Append(checkouts, e) /\ IsSeq(checkouts)
      BY <1>t, <1>2, <2>1 DEF Types
    <2>3. Appended(checkouts, e, d)
      BY <2>2, SeqAppend
    <2> QED BY <2>1, <2>3 DEF Appended
  <1>7. CallsMove
    BY <1>t, <1>1, <1>6 DEF CallsMove, SameCall, Calls, Types
  <1> QED BY <1>t, <1>3, <1>5, <1>7, CartStays DEF Moves

LEMMA AnswersMove ==
  ASSUME Inv, NEW c \in Calls,
         Dispatch(c) \/ Place(c) \/ Succeed(c) \/ AnswerFails(c) \/ Reject(c)
  PROVE  Moves
  <1>t. Types
    BY DEF Inv
  <1>1. CASE Dispatch(c) \/ Place(c) \/ Reject(c)
    BY <1>t, <1>1, OneCall, TabsStay, CartStays DEF Moves, Dispatch, Place, Reject, Sent
  <1>2. CASE Succeed(c)
    <2> DEFINE u == checkouts[c].tab
               x == [tabs[u] EXCEPT !.loading = IF tabs[u].loading = c THEN 0 ELSE tabs[u].loading,
                                    !.going = TRUE]
    <2>1. /\ checkouts[c].pc = "placed" /\ checkouts' = [checkouts EXCEPT ![c].pc = "ok"]
          /\ cart' = Empty /\ UNCHANGED <<lastLine, removed>>
          /\ tabs' = [tabs EXCEPT ![u] = x]
      BY <1>2 DEF Succeed, CartAfterSuccess
    <2>2. u \in Tabs => /\ Tab(x) /\ x.shown = tabs[u].shown /\ x.knows = tabs[u].knows
                        /\ x.seen = tabs[u].seen /\ x.gone = tabs[u].gone /\ x.going
      BY <1>t DEF Types, Tab
    <2> HIDE DEF x
    <2>3. TabsMove
      <3>1. CASE u \in Tabs
        BY <1>t, <2>1, <2>2, <3>1, OneTab
      <3>2. CASE u \notin Tabs
        <4>1. tabs' = tabs
          BY <1>t, <2>1, <3>2 DEF Types
        <4> QED BY <1>t, <4>1, TabsStay
      <3> QED BY <3>1, <3>2
    <2>4. Leaves(u)
      BY <1>t, <2>1, <2>2 DEF Leaves, Types
    <2>5. CallsMove
      BY <1>t, <2>1, <2>4, OneCall
    <2>6. CartMoves
      BY <1>t, <2>1, EmptyCart DEF CartMoves, Types
    <2> QED BY <2>3, <2>5, <2>6 DEF Moves
  <1>3. CASE AnswerFails(c)
    <2> DEFINE u == checkouts[c].tab
               x == [tabs[u] EXCEPT !.loading = IF @ = c THEN 0 ELSE @]
    <2>1. /\ checkouts[c].pc # "ok" /\ checkouts' = [checkouts EXCEPT ![c].pc = "failed"]
          /\ UNCHANGED <<cart, lastLine, removed>> /\ tabs' = [tabs EXCEPT ![u] = x]
      BY <1>3 DEF AnswerFails, Sent
    <2>2. u \in Tabs => /\ Tab(x) /\ x.shown = tabs[u].shown /\ x.knows = tabs[u].knows
                        /\ x.seen = tabs[u].seen /\ x.gone = tabs[u].gone
                        /\ x.going = tabs[u].going
      BY <1>t DEF Types, Tab
    <2> HIDE DEF u, x
    <2>3. TabsMove
      <3>1. CASE u \in Tabs
        BY <1>t, <2>1, <2>2, <3>1, OneTab
      <3>2. CASE u \notin Tabs
        <4>1. tabs' = tabs
          BY <1>t, <2>1, <3>2 DEF Types
        <4> QED BY <1>t, <4>1, TabsStay
      <3> QED BY <3>1, <3>2
    <2>4. CallsMove
      <3>1. checkouts[c].pc # "ok" /\ checkouts' = [checkouts EXCEPT ![c].pc = "failed"]
        BY <2>1
      <3>2. "failed" # "ok"
        OBVIOUS
      <3> QED BY <1>t, <3>1, <3>2, OneCall
    <2>5. CartMoves
      BY <1>t, <2>1, CartStays
    <2> QED BY <2>3, <2>4, <2>5 DEF Moves
  <1> QED BY <1>1, <1>2, <1>3

LEMMA ReloadMoves ==
  ASSUME Inv, NEW t \in Tabs, Reload(t)
  PROVE  Moves
  <1>t. Types /\ Len(checkouts) \in Nat
    BY CallsAre DEF Inv
  <1>0. UNCHANGED <<cart, lastLine, removed>>
    BY DEF Reload
  <1> DEFINE e(c) == IF checkouts[c].tab = t /\ Unanswered(c)
                       THEN [checkouts[c] EXCEPT !.pc = "lost"] ELSE checkouts[c]
             x == IF tabs[t].page = "cart" THEN Loaded(Page("cart"), cart, removed)
                  ELSE Page(IF tabs[t].page = "sidebar" THEN "shop" ELSE tabs[t].page)
  <1>1. checkouts' = [c \in Calls |-> e(c)] /\ tabs' = [tabs EXCEPT ![t] = x]
    BY DEF Reload
  <1>2. \A c \in Calls :
          /\ Call(e(c)) /\ e(c).lines = checkouts[c].lines
          /\ e(c).seen = checkouts[c].seen /\ e(c).tab = checkouts[c].tab
          /\ (e(c).pc = "ok" <=> checkouts[c].pc = "ok")
    BY <1>t DEF Types, Call, Unanswered
  <1>3. checkouts' \in Seq({e(c) : c \in Calls}) /\ Len(checkouts') = Len(checkouts)
    <2> DEFINE S == {e(c) : c \in Calls}
    <2>1. \A c \in Calls : e(c) \in S
      OBVIOUS
    <2> HIDE DEF e, S
    <2>2. [c \in 1..Len(checkouts) |-> e(c)] \in Seq(S)
          /\ Len([c \in 1..Len(checkouts) |-> e(c)]) = Len(checkouts)
      BY <1>t, <2>1 DEF Calls
    <2> QED BY <1>1, <2>2 DEF S, Calls
  <1>4. \A c \in Calls : checkouts'[c] = e(c)
    BY <1>1
  <1> HIDE DEF e
  <1>5. CallsMove
    BY <1>t, <1>2, <1>3, <1>4 DEF CallsMove, SameCall, Calls, IsSeq
  <1>6. Tab(x) /\ (BarePage(x) \/ LoadedPage(x, cart', removed'))
    BY <1>0, PageIsBare, LoadedIs
  <1> HIDE DEF x
  <1>8. TabsMove
    BY <1>t, <1>0, <1>1, <1>6, OneTab
  <1> QED BY <1>t, <1>0, <1>5, <1>8, CartStays DEF Moves

LEMMA EveryStepMoves ==
  ASSUME Inv, [Next]_vars
  PROVE  Moves
  <1>1. CASE UNCHANGED vars
    BY <1>1, CallsStay, TabsStay, CartStays DEF vars, Moves, Inv
  <1>2. CASE Next
    BY <1>2, AddMoves, SetQuantityMoves, RemoveMoves, ClearCartMoves, VisitMoves,
       ArriveMoves, CheckoutMoves, ReloadMoves, AnswersMove DEF Next
  <1> QED BY <1>1, <1>2

-----------------------------------------------------------------------------
(* The invariant.                                                          *)

LEMMA TypesKept ==
  ASSUME Types, Moves
  PROVE  Types'
  BY DEF Types, Moves, CartMoves, CallsMove, TabsMove, Calls

\* Whoever has succeeded is a call that has, or one that now empties the cart.
LEMMA OkGrows ==
  ASSUME Types, Moves
  PROVE  /\ Ok \subseteq Ok'
         /\ \A c \in Ok' :
             /\ c \in Calls /\ SameCall(c)
             /\ c \in Ok \/ (cart' = Empty /\ Leaves(checkouts[c].tab))
  <1>1. Len(checkouts) \in Nat
    BY CallsAre
  <1> QED BY <1>1 DEF Moves, CallsMove, Ok, Calls

LEMMA CartKept ==
  ASSUME Inv, Moves
  PROVE  CartInv'
  <1>t. Types /\ CartInv /\ CartMoves /\ lastLine \in Nat
    BY DEF Inv, Moves, Types
  <1>1. Ids(cart') \subseteq 1..lastLine' /\ removed' \subseteq 1..lastLine'
    BY <1>t DEF CartInv, CartMoves, Ids
  <1>2. Ids(cart') \cap removed' = {}
    <2>1. Ids(cart') \cap removed = {}
      <3>1. \A p \in DOMAIN cart' : cart'[p].id \in Ids(cart) \/ cart'[p].id = lastLine + 1
        BY <1>t DEF CartMoves, Ids
      <3>2. \A i \in removed : i # lastLine + 1 /\ i \notin Ids(cart)
        BY <1>t DEF CartInv
      <3> QED BY <3>1, <3>2 DEF Ids
    <2> QED BY <1>t, <2>1 DEF CartMoves
  <1>3. ASSUME NEW c \in Ok' PROVE checkouts'[c].lines \cap Ids(cart') = {}
    <2>1. c \in Calls /\ checkouts'[c].lines = checkouts[c].lines /\ (c \in Ok \/ cart' = Empty)
      BY <1>t, <1>3, OkGrows DEF SameCall
    <2>2. CASE cart' = Empty
      BY <2>2, EmptyCart
    <2>3. CASE c \in Ok
      <3>1. checkouts[c].lines \subseteq 1..lastLine
        BY <2>1 DEF Inv, CallsInv, Fresh
      <3>2. \A p \in DOMAIN cart' : cart'[p].id \in Ids(cart) \/ cart'[p].id = lastLine + 1
        BY <1>t DEF CartMoves, Ids
      <3>3. \A i \in checkouts[c].lines : i # lastLine + 1 /\ i \notin Ids(cart)
        BY <1>t, <2>3, <3>1 DEF CartInv
      <3> QED BY <2>1, <3>2, <3>3 DEF Ids
    <2> QED BY <2>1, <2>2, <2>3
  <1> QED BY <1>1, <1>2, <1>3 DEF CartInv

\* What was fresh stays fresh: whatever joins the cart is newer.
LEMMA FreshStays ==
  ASSUME Inv, Moves, NEW lines, NEW k, NEW seen, NEW out, Fresh(lines, k, seen, out)
  PROVE  Fresh(lines, k, seen, out)'
  <1>t. Types /\ CartMoves /\ lastLine \in Nat /\ lastLine' \in Nat /\ lastLine <= lastLine'
    BY DEF Inv, Moves, Types, CartMoves
  <1>1. lines \subseteq 1..lastLine' /\ seen \in Nat /\ seen <= lastLine'
    BY <1>t DEF Fresh
  <1>2. k \subseteq Ok' /\ \A c \in k : checkouts'[c].lines \cap lines = {}
    <2>1. \A c \in k : c \in Ok' /\ checkouts'[c].lines = checkouts[c].lines
      BY <1>t, OkGrows DEF Fresh, SameCall
    <2> QED BY <2>1 DEF Fresh
  <1>3. \A p \in DOMAIN cart' : cart'[p].id \in lines \/ cart'[p].id > seen
    BY <1>t DEF CartMoves, Fresh
  <1> QED BY <1>1, <1>2, <1>3 DEF Fresh, Ids

LEMMA TabsKept ==
  ASSUME Inv, Moves
  PROVE  TabsInv'
  <1> SUFFICES ASSUME NEW t \in Tabs
               PROVE  Fresh(Ids(tabs[t].shown), tabs[t].knows, tabs[t].seen, tabs[t].gone)'
    BY DEF TabsInv
  <1>t. Types /\ lastLine \in Nat /\ lastLine' \in Nat /\ Types' /\ CartInv'
    BY TypesKept, CartKept DEF Inv, Moves, Types, CartMoves
  <1>m. \/ SamePage(t) \/ BarePage(tabs'[t])
        \/ lastLine' = lastLine /\ LoadedPage(tabs'[t], cart', removed')
    BY DEF Moves, TabsMove
  <1>1. CASE SamePage(t)
    <2>1. PICK l, k, s, g : /\ l = Ids(tabs[t].shown) /\ k = tabs[t].knows
                            /\ s = tabs[t].seen /\ g = tabs[t].gone
      OBVIOUS
    <2>2. Fresh(l, k, s, g)'
      BY <2>1, FreshStays DEF Inv, TabsInv
    <2> QED BY <1>1, <2>1, <2>2 DEF SamePage
  <1>2. CASE BarePage(tabs'[t])
    <2>1. Fresh(Ids(Empty), {}, 0, {})'
      <3>1. \A p \in DOMAIN cart' : cart'[p].id \in 1..lastLine'
        BY <1>t DEF CartInv, Ids
      <3>2. \A p \in DOMAIN cart' : cart'[p].id > 0
        BY <1>t, <3>1
      <3> QED BY <1>t, <3>2, EmptyCart DEF Fresh
    <2> QED BY <1>2, <2>1 DEF BarePage
  <1>3. CASE lastLine' = lastLine /\ LoadedPage(tabs'[t], cart', removed')
    <2>1. Ids(cart') \subseteq 1..lastLine' /\ Ids(cart') \cap removed' = {}
      BY <1>t DEF CartInv
    <2>2. Ok \subseteq Ok' /\ \A c \in Ok : checkouts'[c].lines \cap Ids(cart') = {}
      BY <1>t, OkGrows DEF CartInv
    <2>3. \A p \in DOMAIN cart' : cart'[p].id \in Ids(cart')
      BY DEF Ids
    <2>4. PICK l, k, n, g : l = Ids(cart') /\ k = Ok /\ n = lastLine' /\ g = removed'
      OBVIOUS
    <2>5. Fresh(l, k, n, g)'
      BY <1>t, <2>1, <2>2, <2>3, <2>4 DEF Fresh
    <2>6. /\ Ids(tabs'[t].shown) = l /\ tabs'[t].knows = k /\ tabs'[t].seen = n /\ tabs'[t].gone = g
      BY <1>3, <2>4 DEF LoadedPage
    <2> QED BY <2>5, <2>6
  <1> QED BY <1>m, <1>1, <1>2, <1>3

LEMMA CallsKept ==
  ASSUME Inv, Moves
  PROVE  CallsInv'
  <1> SUFFICES ASSUME NEW c \in Calls'
               PROVE  Fresh(checkouts[c].lines, {}, checkouts[c].seen, {})'
    BY DEF CallsInv
  <1>1. PICK l, s : /\ Fresh(l, {}, s, {})
                    /\ checkouts'[c].lines = l /\ checkouts'[c].seen = s
    <2>1. CASE c \in Calls
      BY <2>1 DEF Moves, CallsMove, SameCall, Inv, CallsInv
    <2>2. CASE c \notin Calls
      <3>1. PICK t \in Tabs : /\ checkouts'[c].lines = Ids(tabs[t].shown)
                              /\ checkouts'[c].seen = tabs[t].seen
        BY <2>2 DEF Moves, CallsMove, Calls
      <3>2. Fresh(Ids(tabs[t].shown), {}, tabs[t].seen, {})
        BY DEF Inv, TabsInv, Fresh
      <3> QED BY <3>1, <3>2
    <2> QED BY <2>1, <2>2
  <1>2. Fresh(l, {}, s, {})'
    BY <1>1, FreshStays
  <1> QED BY <1>1, <1>2

LEMMA LeavingKept ==
  ASSUME Inv, Moves
  PROVE  LeavingInv'
  <1> SUFFICES ASSUME NEW c \in Ok', NEW t \in Tabs, checkouts'[c].tab = t,
                      checkouts'[c].lines \cap Ids(tabs'[t].shown) # {}
               PROVE  tabs'[t].going
    BY DEF LeavingInv
  <1>1. /\ checkouts'[c].lines = checkouts[c].lines /\ checkouts[c].tab = t
        /\ c \in Ok \/ Leaves(t)
    BY OkGrows DEF Inv, SameCall
  <1>2. CASE Leaves(t)
    BY <1>2 DEF Leaves
  <1>3. CASE c \in Ok
    <2>1. CASE SamePage(t)
      BY <1>1, <1>3, <2>1 DEF SamePage, Inv, LeavingInv
    <2>2. CASE BarePage(tabs'[t])
      BY <2>2, EmptyCart DEF BarePage
    <2>3. CASE LoadedPage(tabs'[t], cart', removed')
      <3>1. checkouts'[c].lines \cap Ids(cart') = {}
        BY CartKept DEF CartInv
      <3> QED BY <2>3, <3>1 DEF LoadedPage
    <2> QED BY <2>1, <2>2, <2>3 DEF Moves, TabsMove
  <1> QED BY <1>1, <1>2, <1>3

LEMMA InvInit ==
  ASSUME Init
  PROVE  Inv
  <1>1. Types
    <2>1. checkouts \in Seq({}) /\ Calls = {}
      BY DEF Init, Calls
    <2> QED BY <2>1, EmptyCart, PageIsBare DEF Init, Types, IsSeq
  <1>2. CartInv
    BY EmptyCart DEF Init, CartInv, Ok, Calls
  <1>3. TabsInv
    <2>1. Fresh(Ids(Empty), {}, 0, {})
      BY EmptyCart DEF Init, Fresh
    <2> QED BY <2>1, PageIsBare DEF Init, TabsInv, BarePage
  <1>4. CallsInv
    BY DEF Init, CallsInv, Calls
  <1>5. LeavingInv
    BY DEF Init, LeavingInv, Ok, Calls
  <1> QED BY <1>1, <1>2, <1>3, <1>4, <1>5 DEF Inv

LEMMA InvHolds == Spec => []Inv
  <1>1. Inv /\ [Next]_vars => Inv'
    BY EveryStepMoves, TypesKept, CartKept, TabsKept, CallsKept, LeavingKept DEF Inv
  <1> QED BY <1>1, InvInit, PTL DEF Spec

\* What a call sends are the lines of its page.
LEMMA SentByPage ==
  ASSUME Inv, [Next]_vars, NEW d \in Calls' \ Calls
  PROVE  \E t \in Tabs : checkouts'[d].tab = t /\ checkouts'[d].lines = Ids(tabs[t].shown)
  BY EveryStepMoves DEF Moves, CallsMove, Calls

\* Lines that the customer has been told are ordered are ordered again only by
\* a page that loaded the cart before, and in the tab that told them only until
\* it reaches the orders: clearCart has emptied the cart by the time they are
\* told, and a line that is put in later has a number of its own.
THEOREM OrderedAgainOnlyWhileStale == Spec => AgainOnlyWhileStale
  <1> DEFINE Stale == \A d \in Calls' \ Calls : \A c \in Ok :
               LET tab == checkouts'[d].tab IN
               checkouts[c].lines \cap checkouts'[d].lines # {} =>
                 /\ c \notin tabs[tab].knows
                 /\ checkouts[c].tab = tab => tabs[tab].going
  <1>1. Inv /\ [Next]_vars => Stale
    <2> SUFFICES ASSUME Inv, [Next]_vars, NEW d \in Calls' \ Calls, NEW c \in Ok,
                        checkouts[c].lines \cap checkouts'[d].lines # {}
                 PROVE  LET tab == checkouts'[d].tab IN
                        /\ c \notin tabs[tab].knows
                        /\ checkouts[c].tab = tab => tabs[tab].going
      OBVIOUS
    <2>1. PICK t \in Tabs : checkouts'[d].tab = t /\ checkouts'[d].lines = Ids(tabs[t].shown)
      BY SentByPage
    <2>2. c \notin tabs[t].knows
      BY <2>1 DEF Inv, TabsInv, Fresh
    <2>3. checkouts[c].tab = t => tabs[t].going
      BY <2>1 DEF Inv, LeavingInv
    <2> QED BY <2>1, <2>2, <2>3
  <1>2. AgainOnlyWhileStale <=> [][Stale]_vars
    BY DEF AgainOnlyWhileStale
  <1>3. Inv /\ [Next]_vars => [Stale]_vars
    BY <1>1
  <1> QED BY <1>2, <1>3, InvHolds, PTL DEF Spec

\* A line that was taken out before its page loaded the cart, or on that very
\* page, is not in an order that the page sends: handleRemove and the others
\* that change a quantity end with loadCart.
THEOREM NeverOrderedOnceOut == Spec => NotOrderedOnceOut
  <1> DEFINE Left == \A d \in Calls' \ Calls :
               checkouts'[d].lines \cap tabs[checkouts'[d].tab].gone = {}
  <1>1. Inv /\ [Next]_vars => [Left]_vars
    <2> SUFFICES ASSUME Inv, [Next]_vars, NEW d \in Calls' \ Calls
                 PROVE  checkouts'[d].lines \cap tabs[checkouts'[d].tab].gone = {}
      OBVIOUS
    <2>1. PICK t \in Tabs : checkouts'[d].tab = t /\ checkouts'[d].lines = Ids(tabs[t].shown)
      BY SentByPage
    <2> QED BY <2>1 DEF Inv, TabsInv, Fresh
  <1>2. NotOrderedOnceOut <=> [][Left]_vars
    BY DEF NotOrderedOnceOut
  <1> QED BY <1>1, <1>2, InvHolds, PTL DEF Spec

\* The clearCart of a checkout that succeeds takes only what the checkout has
\* ordered, or what was put into the cart after its page had loaded it.
THEOREM OnlyNewerIsWiped == Spec => WipesOnlyNewer
  <1> DEFINE Wipes == \A c \in Calls : Unanswered(c) /\ checkouts'[c].pc = "ok" =>
               \A p \in DOMAIN cart :
                 \/ p \in DOMAIN cart' /\ cart'[p].id = cart[p].id
                 \/ cart[p].id \in checkouts[c].lines
                 \/ cart[p].id > checkouts[c].seen
  <1>1. Inv /\ [Next]_vars => [Wipes]_vars
    <2>1. Inv => Wipes
      BY DEF Inv, CallsInv, Fresh
    <2> QED BY <2>1
  <1>2. WipesOnlyNewer <=> [][Wipes]_vars
    BY DEF WipesOnlyNewer
  <1> QED BY <1>1, <1>2, InvHolds, PTL DEF Spec
=============================================================================
