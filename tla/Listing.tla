------------------------------ MODULE Listing ------------------------------
(***************************************************************************)
(* The four paged lists of the frontend: the products of the shop          *)
(* (components/organisms/ProductList), a customer's orders                 *)
(* (app/orders/page.tsx), and the administrators' tables of orders and of  *)
(* products (components/organisms/OrderManagementTable and                 *)
(* ProductManagementTable, over components/molecules/DataTable).           *)
(*                                                                         *)
(* A list is fetched again by an effect whenever its query, that is its    *)
(* debounced search, filter and page, has changed; and by the handler of a *)
(* change that succeeded, with the query of the moment of the click, which *)
(* the handler has closed over.  Fetches are server actions: Next.js       *)
(* (external) sends those of one tab one at a time.  Rows are abstracted   *)
(* to the version of the database they were read from.  The API counts     *)
(* them and reads them in two queries, without a transaction.              *)
(***************************************************************************)
EXTENDS Naturals, Sequences

CONSTANTS
  Screens,   \* which of the lists to model
  Searches,  \* what may be typed
  Filters,   \* categories, or statuses; and "all"
  Pages,     \* Pages[v][s][f]: how many pages of rows match a search and a
             \* filter in the v-th version of the database
  MaxCalls   \* bound: calls in the tab's queue when the user does something

AllScreens == {"shop", "history", "orders", "products"}
Versions == 1..Len(Pages)

ASSUME ListingAssumption ==
  /\ Screens \subseteq AllScreens
  /\ Pages \in Seq([Searches -> [Filters -> Nat]]) /\ Pages # <<>>
  /\ MaxCalls \in Nat
  /\ "" \in Searches /\ "all" \in Filters

VARIABLES
  screen,    \* the list that is on the screen
  typed,     \* the search as typed
  query,     \* [search, filter, page]: debounced search, filter and page
  shown,     \* the answer on the screen
  ready,     \* the first fetch has ended
  fetching,  \* the flag that disables the page buttons
  form,      \* a product's form, or an order's status, is open for editing
  calls,     \* the server actions of the tab, the oldest first
  version,   \* the version of the database
  last,      \* history: why the last fetch to end was made, and if it succeeded
  own,       \* history: the version that the user's last change has made
  chosen     \* history: the answer in which the page was last chosen

history == <<last, own, chosen>>
vars == <<screen, typed, query, shown, ready, fetching, form, calls, version, history>>

\* An answer: the query, the version its pages were counted in (counted) and
\* how many there were (total), the version its rows were read from.  This is
\* useState's first: no rows, one page.
NoAnswer(q) == [query |-> q, counted |-> 0, total |-> 1, version |-> 0]

\* result: "none" until the server takes up the call, "counted" in the middle
\* of a fetch, then "ok", "failed" or, when the call itself fails, "rejected".  A fetch that is
\* "ok" carries its answer; a change is a save from the form or a deletion.
Fetch(q, why) == [kind |-> "fetch", why |-> why, query |-> q, result |-> "none",
                  answer |-> NoAnswer(q)]
Change(kind, q) == [kind |-> kind, query |-> q, result |-> "none", version |-> 0]

Init ==
  /\ screen \in Screens
  /\ typed = ""
  /\ query = [search |-> "", filter |-> "all", page |-> 1]
  /\ shown = NoAnswer(query)
  /\ ready = FALSE
  /\ fetching = TRUE
  /\ form = FALSE
  /\ calls = <<Fetch(query, "effect")>>
  /\ version = 1
  /\ last = [why |-> "none", ok |-> FALSE]
  /\ own = 0
  /\ chosen = shown

-----------------------------------------------------------------------------
(* The user.                                                               *)

\* The form of a product is modal: what is behind it cannot be used.
Usable ==
  /\ ready
  /\ screen = "products" => ~form
  /\ Len(calls) < MaxCalls

\* Mutant: the filter is missing from the dependencies.
DependsNotOnFilter(q) == <<q.search, q.page>>

\* What the fetch depends on.
Depends(q) == <<q.search, q.filter, q.page>>

\* The query is q now: the effect fetches if that is a change.
Now(q) ==
  /\ query' = q
  /\ IF Depends(q) = Depends(query) THEN UNCHANGED <<calls, fetching>>
     ELSE /\ calls' = Append(calls, Fetch(q, "effect"))
          /\ fetching' = TRUE

\* Only the shop returns to the first page.
Restarted(q) == IF screen = "shop" THEN [q EXCEPT !.page = 1] ELSE q

\* A key is hit in the search field: the page changes now, the search when
\* the debouncer fires.
Type(s) ==
  /\ Usable
  /\ typed # s
  /\ typed' = s
  /\ Now(Restarted(query))
  /\ UNCHANGED <<screen, shown, ready, form, version, history>>

\* useDebounce, half a second after the last key.
Debounce ==
  /\ typed # query.search
  /\ Now([query EXCEPT !.search = typed])
  /\ UNCHANGED <<screen, typed, shown, ready, form, version, history>>

ChooseFilter(f) ==
  /\ Usable
  /\ screen # "products"
  /\ f # query.filter
  /\ Now(Restarted([query EXCEPT !.filter = f]))
  /\ UNCHANGED <<screen, typed, shown, ready, form, version, history>>

PagesOf(v, q) == Pages[v][q.search][q.filter]

\* The pages of the customers are empty without rows; the tables are not.
HasRows ==
  shown.version > 0 /\ shown.query.page <= PagesOf(shown.version, shown.query)
Paginated == shown.total > 1 /\ (screen \in {"shop", "history"} => HasRows)

\* getPageNumbers.  A long row of numbers has an ellipsis in its middle; the
\* numbers under it count as buttons here.
Numbered == 1..shown.total

\* Mutant: the next page is not guarded.
ButtonsBeyond ==
  Numbered
    \cup {n \in {query.page - 1} : query.page > 1} \cup {query.page + 1}

\* The numbered buttons, and the previous and the next page.
Buttons ==
  Numbered
    \cup {n \in {query.page - 1} : query.page > 1}
    \cup {n \in {query.page + 1} : query.page < shown.total}

GoTo(n) ==
  /\ Usable
  /\ Paginated
  /\ ~fetching
  /\ n \in Buttons
  /\ Now([query EXCEPT !.page = n])
  /\ chosen' = IF n <= shown.total THEN shown ELSE chosen
  /\ UNCHANGED <<screen, typed, shown, ready, form, version, last, own>>

\* A product, new or of a row, has a form; an order's row has one for its status.
HasForm == screen \in {"orders", "products"}

OpenForm ==
  /\ ready
  /\ HasForm
  /\ form' = ~form
  /\ UNCHANGED <<screen, typed, query, shown, ready, fetching, calls, version, history>>

\* handleSubmit and handleUpdateStatus up to the await.  Nothing keeps the
\* user from sending the form again before the answer.
Save ==
  /\ ready
  /\ form
  /\ Len(calls) < MaxCalls
  /\ calls' = Append(calls, Change("save", query))
  /\ UNCHANGED <<screen, typed, query, shown, ready, fetching, form, version, history>>

\* What is shown has rows, and each row its buttons.
RowActions == screen # "shop" /\ HasRows

\* handleDelete of the products; handleCancelOrder of the orders.
Delete ==
  /\ Usable
  /\ RowActions
  /\ calls' = Append(calls, Change("delete", query))
  /\ UNCHANGED <<screen, typed, query, shown, ready, fetching, form, version, history>>

-----------------------------------------------------------------------------
(* The server and the answers.                                             *)

Head1 == Head(calls)
Answered == Head1.result \in {"ok", "failed", "rejected"}
Served(result) == calls' = [calls EXCEPT ![1].result = result]

\* Other users change the database.
Others ==
  /\ version < Len(Pages)
  /\ version' = version + 1
  /\ UNCHANGED <<screen, typed, query, shown, ready, fetching, form, calls, history>>

\* The API counts the rows that match, and then reads those of the page.
CountRows ==
  /\ Head1.kind = "fetch"
  /\ Head1.result = "none"
  /\ calls' = [calls EXCEPT ![1].result = "counted",
       ![1].answer.counted = version, ![1].answer.total = PagesOf(version, Head1.query)]
  /\ UNCHANGED version

ReadRows ==
  /\ Head1.kind = "fetch"
  /\ Head1.result = "counted"
  /\ calls' = [calls EXCEPT ![1].result = "ok", ![1].answer.version = version]
  /\ UNCHANGED version

\* A change is made.  Orders cannot be cancelled from here: cancelOrder sends
\* PATCH, the route is POST.
ServeChange ==
  /\ Head1.kind # "fetch"
  /\ Head1.kind = "delete" => screen = "products"
  /\ version < Len(Pages)
  /\ version' = version + 1
  /\ calls' = [calls EXCEPT ![1].result = "ok", ![1].version = version + 1]

\* The backend answers with an error, or not at all; or the call of the
\* server action itself fails.
ServeFails ==
  /\ Served("failed") \/ Served("rejected")
  /\ UNCHANGED version

Serve ==
  /\ calls # <<>>
  /\ ~Answered
  /\ CountRows \/ ReadRows \/ ServeChange \/ ServeFails
  /\ UNCHANGED <<screen, typed, query, shown, ready, fetching, form, history>>

\* The fetch ends.  An error leaves the old rows; a call that is rejected
\* leaves everything, the flag included.
FetchEnds ==
  /\ Head1.kind = "fetch"
  /\ calls' = Tail(calls)
  /\ shown' = IF Head1.result = "ok" THEN Head1.answer ELSE shown
  /\ fetching' = (fetching /\ Head1.result = "rejected")
  /\ ready' = (ready \/ Head1.result # "rejected")
  /\ last' = [why |-> Head1.why, ok |-> Head1.result = "ok"]
  /\ UNCHANGED <<form, own, chosen>>

\* Mutant: the list is not fetched again.
ChangeEndsSilently ==
  /\ Head1.kind # "fetch"
  /\ calls' = Tail(calls)
  /\ form' = (form /\ ~(Head1.kind = "save" /\ Head1.result = "ok"))
  /\ own' = IF Head1.result = "ok" THEN Head1.version ELSE own
  /\ UNCHANGED <<shown, fetching, ready, last, chosen>>

\* The handler goes on.  After a success it closes the form, whichever is open
\* by now, and fetches with the query it has closed over.
ChangeEnds ==
  /\ Head1.kind # "fetch"
  /\ IF Head1.result = "ok"
       THEN /\ calls' = Append(Tail(calls), Fetch(Head1.query, "refetch"))
            /\ fetching' = TRUE
            /\ form' = (form /\ Head1.kind # "save")
            /\ own' = Head1.version
       ELSE /\ calls' = Tail(calls)
            /\ UNCHANGED <<fetching, form, own>>
  /\ UNCHANGED <<shown, ready, last, chosen>>

Deliver ==
  /\ calls # <<>>
  /\ Answered
  /\ FetchEnds \/ ChangeEnds
  /\ UNCHANGED <<screen, typed, query, version>>

Next ==
  \/ \E s \in Searches : Type(s)
  \/ \E f \in Filters : ChooseFilter(f)
  \/ \E n \in 0..(query.page + shown.total + 1) : GoTo(n)
  \/ Debounce \/ OpenForm \/ Save \/ Delete
  \/ Others \/ Serve \/ Deliver

Spec == Init /\ [][Next]_vars

-----------------------------------------------------------------------------
(* Properties.                                                             *)

\* Nothing is under way, and the last fetch was answered.
Settled == calls = <<>> /\ typed = query.search /\ last.ok

\* Fetches that overlap do not leave an older answer on the screen: once all
\* is settled the rows are those of the search, filter and page that the
\* screen shows; unless the last fetch was the one that follows a change,
\* which asks for the query of the moment of the click.
SettledShowsQuery ==
  Settled /\ last.why = "effect" => shown.query = query

\* Once all is settled the rows include what the user has changed, and been
\* told so, whichever fetches were under way meanwhile.
OwnChangeIsSeen == Settled => shown.version >= own

\* The screen stands on a page beyond the last one (where the lists of the
\* customers hide the page buttons) only if the page was chosen among rows of
\* another search or filter, or before rows went away.
PastEndExplained ==
  Settled /\ shown.query = query /\ query.page > 1 /\ query.page > shown.total =>
    \/ chosen.counted # shown.counted
    \/ chosen.query.search # query.search \/ chosen.query.filter # query.filter
=============================================================================
