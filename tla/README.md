# Verification of the shop

TLA+ modules, TLC configurations and TLAPS proofs kept beside the code of the
shop: an Express/Prisma backend (`src/backend`) with a PostgreSQL database,
Redis, BullMQ queues and Socket.IO, and a Next.js frontend (`src/frontend`).
`PROJECT.json` gives, for every definition, the lines it stands for (`map`),
the hazards the properties are aimed at, the runs, the mutants and the theorems.

    tlc -workers 2 -config orders_races.cfg MCOrders     # a run
    tlapm OrdersProofs.tla                               # the proofs of a module

## 1. The system

```
 browser                    backend process
 tabs, localStorage, cookie
    │ pages (middleware.tsx)
    ▼
 Next.js ──API key, token──▶ rate limiter ──pass──▶ role ─▶ validation ─▶ service ──▶ PostgreSQL
 server actions                  │ over                                      │ after commit
                                 ▼                                           ▼
                           request queue                        order-processing job (BullMQ)
                           (Redis list, worker                              │ fans out
                            ticks every second)                             ▼
                                                         mails, activity log, notification
```

A backend process runs the HTTP handlers, four BullMQ workers and one ticking
request-queue worker on one event loop. Handlers are async functions: they
interleave at every `await`, with each other and with those of other processes.
The Next.js server keeps no state of its own; each tab of a browser runs the
handlers of its page, which interleave with answers and with the other tabs.

### Inventory

**Order service** (`api/v1/orders/orders.service.ts`).
State: `orders`, `order_items`, `products.stock`. Operations: create, cancel,
set status, read. Calls: code generator (on a connection of its own, inside the
transaction), Prisma transactions, `addOrderProcessingJob`, `addEmailJob`. Hard:
every check is made on a row read earlier; the queue is called after the commit;
row locks and connections are waited for. Correct when stock and orders balance,
codes are consecutive, a final status stays, an order answered as placed is
queued, a mail about a final status is true, and every request is answered.
*Modelled: `Orders`, and statement by statement `OrderTransactions`; the history
query in `Listing`.*

**Product service** (`api/v1/products/products.service.ts`).
State: the product rows. Operations: create, update, soft delete, list. Hard: an
update overwrites stock and status that others changed meanwhile; codes are
drawn from a stale read; the list is counted and read in two queries. *Modelled:
update and delete in `Orders`, create and delete in `Catalogue`, the list in
`Listing`.*

**Code generators** (`utils/codeGenerator.util.ts`). No state; the next code is
computed from the newest row. *`generateOrderCode` is in `Orders` and
`OrderTransactions`, `generateProductCode` in `Catalogue`; `generateOrderItemCode`
is called by nothing.*

**Job queues and idempotency** (`jobs/queue.manager.ts`,
`services/idempotency.service.ts`, `configs/bullmq.config.ts`).
State: BullMQ's jobs, the marks `idempotency:*` in Redis (24 h). Operations:
add a job, mark, check a mark, retry, clean. Hard: the check and the add are two
calls, the effect and the mark too; a job id that exists swallows the add.
*Modelled: `OrderJobs`; the mail key of the order service in `Orders`.*

**Job processors** (`jobs/processors/job.processors.ts`). State: the handler in
progress. Hard: throws, retries, stalls, lost locks, crashes. Correct when every
order's children are added and run, or a failed job shows it. *Modelled:
`OrderJobs`.*

**Mail, activity log and notification services**. State: SMTP outbox,
`activity_logs`, `notifications`. *In the model each is one effect of a job;
reading and marking notifications, templates and SMTP are left out.*

**Rate limiter and request queue** (`middlewares/ratelimit.middleware.ts`,
`utils/queue.service.ts`, `utils/queue.worker.ts`, `api/v1/queue/queue.routes.ts`).
State: a counter with expiry per client, a list of tokens, a status and a data
key per token. Operations: count, enqueue, tick (dequeue, process, complete,
fail), poll. Hard: ticks overlap, keys expire, every step is its own Redis call,
failures let the request through. *Modelled: `RequestQueue`.*

**Start and shutdown** (`app.ts`, `jobs/queue.manager.ts`). State: which workers
and queues are open. Hard: every signal and every uncaught error enters the same
shutdown, while jobs run. Correct when no queue is closed under a job and the
shutdown ends. *Modelled: `Lifecycle`.*

**HTTP layer** (`v1.routes.ts`, API key, token, role, validation, error handler).
State: what a request's handler holds. Hard: the role is read once. *Modelled as
the way of a request to its service, `Api`; which bodies pass validation is
given by constants, wording is left out.*

**Registration, login, users, roles** (`api/v1/auth`, `api/v1/users`). State: the
`users` rows and the tokens handed out. Correct when whoever was told to be
registered can log in, and no change is made on a role its sender no longer had.
*Modelled: `Accounts`.*

**Tasks** (`api/v1/tasks`). State: the `tasks` rows. An update writes back fields
it read: updates that overlap undo each other. *Modelled: `Tasks`.*

**Job administration** (`api/v1/jobs`). *Retry and clean are actions of
`OrderJobs`; the rest reads.*

**Cart and checkout** (`app/cart/page.tsx`, `utils/helper/cart.ts`, the product
cards and the sidebar, `createOrder`). State: the cart in localStorage, each
page's copy of it, the calls under way. Hard: an order that is committed but
answered with a failure, or not at all; several tabs; a page that stays on the
screen, usable, until its navigation ends. *Modelled: `Storefront`.*

**Paged lists** (`ProductList`, `app/orders/page.tsx`, `OrderManagementTable`,
`ProductManagementTable`). State: query, debounced search, the answer shown, the
fetches under way. Hard: fetches and changes overlap. *Modelled: `Listing`.*

**Session and role management** (`middleware.tsx`, `services/session`,
`app/(auth)`, `app/role-management`, `Navbar`, `UserNav`). State: the cookie, and
what each page keeps of it. Hard: tabs share the cookie and nothing else; the
question for the session is itself a call, whose answer may be old when it
comes. *Modelled: `Session`.*

**Not modelled**: the queue watcher, unused frontend parts, seeders,
documentation, logging and tracing; section 6 says why.

## 2. What is modelled

### `Orders` — the order service and the product rows

One action per stretch of a handler between two awaits. `creates`, `admins` and
`edits` hold, per request, what the handler keeps in its local variables; `pc`
says at which await it stands.

| code | actions |
|---|---|
| `SCreateOrder` | `CreateStart`/`CreateRefused` (role), `ReadLine`/`RefuseLine` (one turn of the validation loop), `DrawCode` (`generateOrderCode`), `CommitOrder`/`AbortOrder` (the transaction), `QueueOrderJob`/`OrderJobRefused` |
| `SCancelOrder` | `CancelRead`/`AdminRefused`, `CancelCommit`/`AdminWriteFails`, `QueueMail`/`MailRefused` |
| `SUpdateOrderStatus` | `StatusRead`/`AdminRefused`, `StatusWrite`/`AdminWriteFails`, `QueueMail`/`MailRefused` |
| `SUpdateProduct`, `SDeleteProduct` | `UpdateRead`, `DeleteRead`/`EditRefused`, `UpdateWrite`, `DeleteWrite`/`EditFails` |
| expiry of a mail key | `ForgetMailKey` |
| a process stops | `Crash` |

A transaction that is committed is one step; `OrderTransactions` is the module
that looks inside. The read inside `generateOrderCode` uses the global client,
so it is a step before the commit. `overtaken` is history: the cancel and status
requests on whose order another request wrote after they had checked its status
and before they wrote. An order of such a request is `Disputed`. Nothing in the
code prevents it, and the properties say what it can do. Prices are left out: no guard reads them, and
a total that does not fit the column is one of the causes of `AbortOrder`. Row
ids are positions in `orders`.

### `OrderBook` — what the order service promises

The abstract specification: placing, moving and cancelling an order, and
setting a stock, each in one step. A final order is neither moved nor cancelled,
unless it is `disputed`, changed by two requests at once: that much the code does
not promise, and the book says so. `BookSpec` is the refinement in `Orders`, with
`book` mapped to the units and status of the committed rows and `disputed` to
`Disputed`; and again in `OrderTransactions`, with no order disputed.

### `OrderTransactions` — the transactions, statement by statement

`free` and `open` are the connection pool, `lock` and `version` the row locks of
`products` and what their holders have written, `nextId` the sequence of
`orders.id`.

| code | actions |
|---|---|
| a request reaches its transaction | `Order`, `Cancel` |
| `prisma.$transaction`: waits for a connection | `Begin`, `BeginTimesOut` (maxWait) |
| `generateOrderCode`: waits for a second one | `DrawCode`, `DrawTimesOut` (pool_timeout) |
| `tx.order.create`: draws the id, waits for a rival code | `Insert`, `InsertAccepted`, `InsertRejected` |
| `tx.product.update`, line by line | `UpdateRow` |
| commit, rollback | `Commit`, `StatementRefused`, `DeadlockAborts` |
| the transaction's timeout, a process stops | `TimeOut`, `Crash` |

PostgreSQL (READ COMMITTED) and Prisma are external.

### `OrderJobs` — an order after the commit

`jobs` is what BullMQ stores, keyed by job id (the idempotency key), `marks` the
keys set by `markAsProcessed`, `slots` the handlers in progress. BullMQ is
external and modelled from how the code uses it.

| code | actions |
|---|---|
| `addOrderProcessingJob` | `Submit` |
| a worker picks a job | `Take` |
| `isProcessed` at the head of a handler | `Check`, `CheckUnanswered` (Redis fails: false) |
| the four `add…Job` calls of the processing job, in order | `AddChild` |
| send the mail, write the row, push the notification | `Send` |
| `markAsProcessed` | `Mark` |
| return, throw | `Finish`, `Throw` |
| stalled jobs, lost locks, crash | `Recover`, `LoseLock`, `Crash` |
| `removeOnComplete`, `cleanCompleted`; `retryJob`; the 24 h of a mark | `Forget`; `RetryJob`; `Expire` |

### `RequestQueue` — the rate limiter and its queue

Every Redis call is one action. A call that fails may have been applied or not.

| code | actions |
|---|---|
| `MRateLimitWithQueue` | `Count` (INCR), `SetExpiry` (PEXPIRE), `FailOpen` |
| `enqueue` | `Push` (RPUSH), `StoreStatus`, `StoreData` (SETEX), in that order |
| `dequeue` | `Pop` (LPOP), `Fetch`/`Drop` (GET) |
| `processNextRequest`, `complete`, `fail` | `Begin`, `Complete`, `CompleteFails`, `Fail`, `TickFails` (a call fails, its SETEX applied or not) |
| `getStatus` | `Ask` (GET), `Locate` (LRANGE), `Refresh` (SETEX) |
| expiry, a process stops | `CounterExpires`, `StatusExpires`, `DataExpires`, `Crash` |

### `Lifecycle` — start and shutdown

`workers`, `busy` and `closed` are the workers, their handlers and the queues of
the process; `stops` is where each run of `gracefulShutdown` stands.

| code | actions |
|---|---|
| `initializeServices`, `server.listen` | `Start` |
| a job is added, taken, done | `AddJob`, `TakeJob`, `FinishJob` |
| `process.on("SIGTERM")`, `SIGINT`, uncaught errors | `Signal` |
| `worker.close()` waits for the handler | `WorkerCloses` |
| `QueueManager.shutdown`, queue by queue | `CloseQueue` |
| `process.exit(0)`, `process.exit(1)`, a kill | `Exit`, `ExitFailed`, `Kill` |

### `BackOffice` — users, roles, tasks and products through the API

`BackOffice` composes `Api`, the way of a request to its service, with what
three services do with it. All share `requests`: one record per request with
what its handler holds.

| module | code | actions |
|---|---|---|
| `Api` | routes, `MAuthToken`, `MCheckRole`…, `MValidation`, `MErrorHandler` | `Send`, `SendOpen` (no token needed), `Authenticate` (reads the role), `Rejected`, `Invalid`, `Aborted` (the database fails) |
| `Accounts` | `SRegisterUser` | `Register`, `RegisterRead`, `RegisterWrite` |
| | `SLoginUser`, `SChangeUserRole` | `Login`; `ChangeRole`, `WriteRole` |
| `Tasks` | `SCreateTask` | `CreateTask`, `WriteNewTask` |
| | `SUpdateTask`, `SDeleteTask` | `ChangeTask`, `ReadTask`, `WriteTask`, `RemoveTask` |
| `Catalogue` | `SCreateProduct` | `CreateProduct`, `DrawProductCode`, `WriteProduct` |
| | `SDeleteProduct` | `DeleteProduct`, `RemoveProduct` |

Passwords and tokens are model values that open exactly what they were made for.
User names are compared as the code compares them: `Normal` maps each spelling
to what is stored and looked up.

### `Storefront` — cart and checkout

`cart` is localStorage, `tabs` the page of each tab with its copy of the cart,
`checkouts` the calls of `createOrder`.

| code | actions |
|---|---|
| `addToCart`, `updateCartItemQuantity`, `removeFromCart`, `clearCart` behind their buttons | `Add`, `SetQuantity`, `Remove`, `ClearCart` |
| the user goes to another page, reloads | `Visit`, `Reload` |
| `handleCheckout` up to the await | `Checkout` |
| the server action's turn, the order | `Dispatch`, `Place` |
| the rest of `handleCheckout` | `Succeed`, `AnswerFails`, `Reject` (an error nothing catches) |
| `router.push("/orders")` ends | `Arrive` |

`Succeed` enables the button over the lines the page still shows, as
`handleCheckout` does, which leaves `cartItems` alone; `going` says that the tab
is on its way to the orders, and until `Arrive` (or a move of the customer's) the
page can be used. `Place` is `Orders`' `CommitOrder`; that a committed order may be answered with a
failure is `Orders`' `OrderJobRefused` and `Crash`.

### `Listing` — the paged lists

One of four screens, with the fetches of its tab in one queue. Rows are
abstracted to the version of the database that they were read from; `Pages` says
how many pages match in each version.

| code | actions |
|---|---|
| search field, `useDebounce`, filter, page buttons | `Type`, `Debounce`, `ChooseFilter`, `GoTo` |
| forms and row actions | `OpenForm`, `Save`, `Delete` |
| `SGetProducts`, `SGetOrderHistory` | `Serve`: `CountRows`, `ReadRows`, `ServeChange`, `ServeFails` |
| the answer reaches the handler | `Deliver`: `FetchEnds`, `ChangeEnds` |
| other users | `Others` |

### `Session` — who is logged in

`cookie` is what the tabs share, `tabs` the page of each with what it keeps of
the session, its role table and its server actions, in their order. A call waits
for its turn, is served by the Next.js server with the cookie of that moment, and
is heard by the page later; between any two of these another tab may log in or
out, or the cookie may expire.

| code | actions |
|---|---|
| an address is opened (`middleware.tsx`), a tab is reloaded | `Open` |
| a navigation within the tab ends: a link, `router.push`, back or forward | `Arrive` |
| `LoginForm`, `loginAction`, `createSession` | `Submit`; `ServeLogin`; `LoginHeard`, `LoginFails` |
| `handleLogout`, `deleteSession`; the cookie's 30 days | `Logout`, `LogoutHeard`; `Expire` |
| `getSession` of a page | `Ask`; `ServeSession`; `SessionHeard`, `SessionFails` |
| `loadData` of the role table | `Load`; `ServeLoad`; `LoadHeard`, `LoadFails` |
| `handleRoleChange`, `SChangeUserRole` | `Pick`; `ServeRole`, `FailChange`; `ChangeHeard` |
| other browsers | `Elsewhere` |

The router of Next.js may show a page that it has prefetched or kept without
asking the middleware, and asks nobody when it goes back: `Arrive` lets any page
come at any time. The bar's own session, which react-query keeps for the tab,
decides which links it offers, and `Arrive` offers them all; so it is no variable.

## 3. What the runs check

| run | instance | shows |
|---|---|---|
| `orders_races` | 2 orders, 2 administrators' requests, 3 carts, 2 products | `CodesConsecutive`, `PlacedIsQueued`, `NoStockLost`, `StockLedger` (exact balance), `FinalMailsAgree`, `TerminalIsFinal` and the refinement `BookSpec`, under every interleaving, abort, refusal and crash |
| `orders_edits` | 1 order, 1 administrator, 2 product edits, fairness | `TypeOK`, `DeletedNeverOrdered`, `RequestsEnd` |
| `order_transactions` | 3 orders, 1 cancellation, 3 connections, 2 products with 2 units, carts in opposite order, fairness | `CodesFollowIds`, the refinement `BookSpec`, `RequestsEnd` |
| `order_jobs` | 1 order, a stamped and a plain child, 2 slots, 2 attempts, 1 stall, 1 retry by hand, 2 faults, fairness | `TypeOK`, `RepeatsExplained`, `MarkedIsDone`, `OrderServed` |
| `request_queue` | 3 requests, limit 1, 2 ticks, 1 poll, 1 fault, fairness | `TypeOK`, `RunOnce`, `WindowLimit`, `WindowEnds`, `AcceptedIsServed`, `Drained` |
| `lifecycle` | 3 queues, 3 runs of the shutdown, 2 starts, fairness | `JobsUndisturbed`, `StopEnds` |
| `back_office` | 3 requests, a superadmin and a user, a name in two spellings, 3 task bodies | `RegisteredCanLogIn`, `EveryChangePermitted`, `TakenByRival`, `UndoneOnlyByRivals` |
| `storefront` | 2 tabs, 2 products (stock 1 and 2), 2 checkouts | `AgainOnlyWhileStale`, `NotOrderedOnceOut`, `WipesOnlyNewer` |
| `listing` | 4 screens, 2 searches, 2 filters, 2 versions, up to 3 pages | `SettledShowsQuery`, `OwnChangeIsSeen`, `PastEndExplained` |
| `session` | 2 tabs, 2 accounts, 2 logins, 2 role changes | `PageIsOfItsAccount`, `OwnRoleChangeShown` |

The largest runs have 6.5 million (`listing`), 4.8 million (`back_office`), 1.6
million (`session`) and 1.0 million (`orders_races`) distinct states.

Two more runs refute what a test says.

- `bug_oversell`: `NoOversell` fails, because the stock check is stale at the
  commit, so stock goes below zero. The test
  `src/backend/src/tests/orders.service.test.ts:230` says that too small a stock
  is an error.
- `bug_unmailed`: `ChangesAreMailed` fails. The key of a status mail names the
  administrator and the order, not the status (`orders.service.ts:521`), so the
  second change of an order by one administrator finds its mail's key taken: it
  is answered with success, and nobody is mailed. The script
  `src/backend/src/tests/functionals/test-email-status-update.js:253` makes two
  changes as one administrator and expects both mails.

Read together:

- Administrators race, and nothing in the code serves them one at a time. No unit
  disappears whatever they do (`NoStockLost`). Units are made, a final order
  changes, and a mail that told of a final status is belied, only through an order
  that two of their requests changed at once (`StockLedger`, `TerminalIsFinal`,
  `FinalMailsAgree`): the race that the first observation below describes, and no
  other. `NoStockLost` and `StockLedger` are stated for a shop whose stock is not
  edited: an update writes an absolute value, after which no balance is defined.
- `orders_races` takes a transaction for one step of the book, and
  `order_transactions` shows that statement by statement it is one: whichever
  waits, timeouts, deadlocks and rollbacks happen, the committed rows move as
  `OrderBook` does.
- `lifecycle` shows when a process stops, the `Crash` actions of the other
  modules what a stop in the middle of a handler leaves behind.
- `storefront` says what a customer may be surprised by. An order whose answer was
  lost, or was a failure although it is committed, can be placed again. So can one
  that the customer was told of, in two ways: another tab still shows its lines,
  or the page itself does, with its button enabled, until the navigation to the
  orders has ended. `AgainOnlyWhileStale` says that there is no third: a page
  loaded after the answer cannot, and neither can its own tab once it has moved on.

### Bounds

- Every request is used once; the sets of requests bound how many arrive. Two
  requests of a kind are what a race needs; a third lets one act on the outcome
  of two others, or go between them. `back_office` has three requests of any
  kind: a registration or an update with two rivals, or a change of role, a
  login and a change made with the token.
- Two products with two units and one: a cart can take all, some or too much of
  one, and carry two lines for one product (`MCCarts`). In `order_transactions`
  carts take the two products in opposite orders, which is what a deadlock needs.
- `PoolSize` 3: three orders hold every connection, each waiting for a second
  one; with two of them one connection is left.
- `MaxFaults` (`OrderJobs`, `RequestQueue`) bounds calls that throw, crashes,
  lost locks, expired marks and failed calls; one fault can strike in every state
  of a run without faults, and with two a second one can strike in every state
  of the recovery. Aborts, refusals and crashes in `Orders` and
  `OrderTransactions` end their requests and need no bound.
- `MaxAttempts` is 3 in the code, 2 in the instance: one more than the last is
  what separates a job that is run again from one that is dead. `MaxStalls` is
  BullMQ's 1.
- The processing job has four children in the code, two in the instance: one
  whose key is stamped and one whose key is not, which is all the model tells
  apart. `lifecycle` has three of the four queues for the same reason: the last
  is the one whose jobs add to the others.
- `MaxRequests` 1: the second request is over the limit, the third meets a queue
  that is not empty.
- `lifecycle`: `MaxJobs` 2 bounds what waits, `MaxStarts` 2 the lives of the
  process; the third run of the shutdown finds two others at different points.
- `storefront`: `MaxUnits` 2, `MaxLines` 2, `MaxCheckouts` 2: a second checkout
  of the same lines, of other lines, or from another tab.
- `listing`: `MaxCalls` 2 bounds the calls in the tab's queue when the user does
  something (a fetch that an effect causes may come on top): one fetch is under
  way while another waits behind it. Three pages let one go beyond the end, by a
  change of filter or by rows that go away.
- `session`: `MaxLogins` 2 and `MaxPicks` 2: an account replaced by another one
  while a page's question for the session is under way, and two changes of role
  that overlap, of one account or of two.

`CHECK_DEADLOCK FALSE` in every cfg: requests, logins, checkouts and starts are
bounded, so a run of the model ends when all are used. `SYMMETRY` is used in
`orders_races` and `back_office` over request identities, in
`storefront` and `session` over tabs; none of these checks liveness.

### Fairness

- `Orders`: WF on the steps of each handler in flight. Node resumes a function when its
  await settles; Prisma settles every query and ends an interactive transaction
  that takes too long; BullMQ's add waits while Redis is down and then settles.
  That requests arrive, and keys expire, is not assumed.
- `OrderTransactions`: WF on the steps of each request. A statement that need not
  wait is answered, both waits for a connection are bounded by Prisma, and
  PostgreSQL looks for circles of locks. Of the transaction's timeout nothing is
  assumed.
- `OrderJobs`: WF on a running handler (its calls settle) and on the
  stalled-job check; SF, per kind of job, on a free slot taking a job, because a
  slot may be busy again and again before it comes to that queue. Workers
  that are down are started again.
- `RequestQueue`: WF on each tick. `setInterval` starts a tick every second as
  long as a process runs. Nothing is assumed of clients.
- `Lifecycle`: WF on the handlers' end, on the workers and queues closing, and on
  the exit. A handler that hangs, or a Redis that stays away, holds the shutdown
  for ever: nothing in the code ends it.
- `BackOffice`, `Storefront`, `Listing`, `Session`: safety only, no fairness.

### Assumptions about the environment

Redis applies a call at most once (a command that the client resends after a
reconnect is not modelled); PostgreSQL runs at READ COMMITTED, and commits are
seen by later reads; two stamped keys are not drawn in the same millisecond; a
key's ten minutes are longer than a handler takes to answer once it has stored
it. Next.js sends the server actions of one tab one at a time, and attaches the
cookie of the moment of sending. Of the client's router no more is assumed than
that a tab shows one page at a time and mounts a page anew: it may have the page
prefetched or kept, and a navigation may end late or, in `Session`, at any time.
A page that the browser itself keeps for its back button is a tab that rests.
The browser runs a handler up to its await in one piece.

## 4. What is proved

Each proof module extends the module it is about; `DataProofs` holds the lemmas
that several of them cite. Two of them extend a second module beside the first:
`OrderJobsProofs` has `Lifecycle`, the process in which the jobs run, and
`ListingProofs` has `Session`, the browser that shows the lists. `Lifecycle` and
`Session` therefore name their specifications after themselves
(`LifecycleSpec`, `SessionSpec`).

A theorem holds for every value of the constants that satisfies the named
assumption of its module: any number of requests, products, connections, slots,
queues, tabs; carts are non-empty sequences of lines with a positive quantity,
initial stocks are naturals, the pool has a connection, the processing job has a
child and every set of slots or of transactions is finite. What a theorem needs
beyond that is in the last column. `MC` modules and cfgs give these constants
small values, for which TLC has checked the same properties.

| module | theorem | states | needs |
|---|---|---|---|
| `OrdersProofs` | `TypeCorrect`, `Typing` | `Spec => []TypeInv`, `[]TypeOK` | – |
| | `CodesAreConsecutive` | `[]CodesConsecutive` | – |
| | `PlacedAreQueued` | `[]PlacedIsQueued` | – |
| | `DeletedAreNeverOrdered` | `[]DeletedNeverOrdered` | – |
| | `StockIsNotLost`, `LedgerBalances` | `[]NoStockLost`, `[]StockLedger` | `StockEdits = {}` |
| | `MailsTellTheTruth` | `[]FinalMailsAgree` | – |
| | `FinalUnlessOvertaken` | `TerminalIsFinal` | – |
| | `Refinement` | `BookSpec` | – |
| | `OversellTakesAnOverlap` | `Spec /\ []Alone => []NoOversell` | `OncePerCart` |
| `OrderTransactionsProofs` | `Typing`, `CodesInOrder` | `[]TypeOK`, `[]CodesFollowIds` | – |
| | `Refinement` | `BookSpec` | – |
| `OrderJobsProofs` | `Typing`, `MarksAreDone`, `RepeatsArePaid` | `[]TypeOK`, `[]MarkedIsDone`, `[]RepeatsExplained` | – |
| | `JobsAreUndisturbed` | `[]JobsUndisturbed` | – |
| `RequestQueueProofs` | `Typing`, `NothingRunsTwice`, `WindowIsLimited`, `WindowsEnd`, `AcceptedAreServed` | `[]TypeOK`, `[]RunOnce`, `[]WindowLimit`, `[]WindowEnds`, `[]AcceptedIsServed` | – |
| `BackOfficeProofs` | `RegisteredLogIn`, `ChangesArePermitted`, `TakenOnlyByRivals`, `UndoneByRivals` | `[]RegisteredCanLogIn`, `[]EveryChangePermitted`, `[]TakenByRival`, `[]UndoneOnlyByRivals` | – |
| `StorefrontProofs` | `OrderedAgainOnlyWhileStale`, `NeverOrderedOnceOut`, `OnlyNewerIsWiped` | `AgainOnlyWhileStale`, `NotOrderedOnceOut`, `WipesOnlyNewer` | – |
| `ListingProofs` | `SettledShows`, `OwnChangesAreSeen`, `PastEndIsExplained` | `[]SettledShowsQuery`, `[]OwnChangeIsSeen`, `[]PastEndExplained` | – |
| | `PagesAreOfTheirAccount`, `OwnRoleChangesAreShown` | `[]PageIsOfItsAccount`, `[]OwnRoleChangeShown` | – |

`StockEdits = {}` (no stock is edited) is a choice of the instance, as in
`orders_races`: an edit writes an absolute value, after which there is no balance
to keep. Nothing is assumed of how many administrators act at once.
`OversellTakesAnOverlap` is the other side of `bug_oversell`, which shows that units
are sold that are not there: it says what that takes. `Alone` is a state
predicate: of a product that one handler is placing an order for, no other
handler is placing one, and no update is about to write its stock. `OncePerCart`
says that no cart names a product in two lines; the API does not refuse one that
does, and such a cart oversells by itself, because every line is compared with
the same stock.

### The invariants behind them

None of the properties is inductive by itself, except some of the types.

**`Orders`.**
- `TypeInv` is `TypeOK` and `KnownOrders`: the order that an administrator's
  handler has read is a row of the table. Without it `CancelCommit` could read
  the units of no row.
- `CodeInv` adds `DrawnCodes`: a code that a handler holds is at most one above
  the number of rows. One drawn from a stale read is then a code in use, which
  the UNIQUE column refuses, or exactly the next one.
- `PlacedInv` (`OwnRows`, `OwnJobs`): a handler past its commit has a row that no
  other handler has, with its user and units, and the queue holds only rows.
- `GoneInv`: of a product deleted before a request arrived the handler has
  collected no units, and a deletion is for good: a late update may write a
  status over it, but not bring the product back, because `Available` asks for
  `deletedAt` too.
- `RaceInv` is `OpenOrders` (a handler that was not overtaken finds the order it
  has checked still open) and `KnownDisputes` (a dispute is about an order that is
  there, and stays). A write on a final order is then the write of a handler that
  was overtaken, so its order is disputed: `TerminalIsFinal`, and the moves of
  the book, follow.
- `MailInv`: what a mail says, or a handler past its write is about to say, of a
  final status is so, or the order is disputed. For the ledger, `Dated`: of the
  orders that are not disputed only a cancelled one is dated, so its units come
  back once.
- `SoldInv` goes through the lines of a cart with its handler: of what it has
  collected there is enough, and a product with units collected is in one of the
  lines it has passed, so that the line it reads next is the first with its
  product. No step of another takes any of it as long as `Alone` holds.
- The units that orders hold (`Held`: of those not cancelled) are a fold. `DataProofs` proves
  that a fold over a finite set is the one function that satisfies the
  recursion, by a minimal counterexample in the well-founded order of strict
  inclusion, and from it what one element more, or one that changes, does to the
  sum. A step then moves the units of one product by as much as its stock.

**`OrderTransactions`.**
- `TypeInv`: `Placed` (a transaction that is open is at a statement of its
  handler), `Locks` (only one that writes its lines has rows locked) and `Pool`
  (free connections and open transactions make up the pool).
- `CodeInv`: `DrawnCodes` as above; `OneWriter` (the transaction whose insert was
  accepted has the next code, and no other is past that point: the rest wait for
  the UNIQUE index); `DrawnIds` (an id that goes with the next code was drawn
  after the newest row's).
- `WriteInv`: `Cancelling` (the row that is cancelled is pending, and nobody
  else's) and `Versions`: a row that is not locked has its committed version, a
  locked one the committed version plus what the lines so far of its holder come
  to. At the commit all lines are written, and the sum of the lines of one
  product is what `OrderBook` moves. Every other step is a stutter of the book.

**`OrderJobs`.**
- `TypeInv`: types, `Phases` (job and point of a handler fit together) and
  `Locks` (a lock is on an active job, and one handler's).
- `DoneInv`: what a handler has yet to say is already so. It reaches its mark and
  its end only after the work, and the children it has passed are handed over.
- `PaidInv`: for every child of an order, the effects so far, plus the handlers
  that are bound to have one, plus the keys that may still lead to one, stay
  within the keys made and the lapses. `RepeatsExplained` drops the middle terms,
  without which no step could be accounted for: a check turns an open key into a
  bound handler, a send a bound handler into an effect.

**`Lifecycle`.** `StopInv`: a run of `gracefulShutdown` that has come to the queues,
and a queue that is closed, have every worker closed behind them, and a closed
worker runs no job. So it does not matter how many runs there are, or that the
queues are closed one after another.

**`RequestQueue`.**
- `Window`: what was let through is the counter, cut off at the limit.
- `Place`: a token is in one place only, in the list once or held by one worker,
  and was not begun while it is there; one not yet pushed is nowhere.
- `Stored`: data exist, and are held by a worker, only for a request that has
  been answered or is about to be; a token pushed is in the list or held, unless
  a mishap befell it.

**`BackOffice`.** `TypeInv` includes `Together`: two requests in flight at the same
time are rivals of each other.
- `NameInv`: a registration that was answered has the one account of its name.
- `RoleInv`: the role a request was judged by is one its sender has had since it
  was sent, and from the gate to the write it is one that entitles to the change.
- `CodeInv` and `RaceInv`: codes are in order, and what a request found free is
  still free, or one of its rivals has taken it.
- `TaskInv`: what an update has read of a field is what the last update of the
  field wrote, or the two are rivals, or that write was undone by a rival of its
  own.

**`Storefront`.** `CartInv`: what was ordered with success, or taken out, is not in
the cart, where lines are numbered as they are made. `Fresh`, of every page and
of every call: its lines are none that it knows to be ordered or out, and a line
of the cart is one of its lines or newer than its load. `LeavingInv`: a tab that
still shows lines of a checkout of its own that has succeeded is on its way to
the orders; a page that is mounted in between has loaded a cart without them.

**`Listing`.** `InTurn`: only the first call is served. `QueryInv`: the last fetch of
an effect asks for the query on the screen, and if none is under way the last to
end did. `OwnInv`: what is read is not older than the user's last change, and as
long as the screen is older a fetch is under way, or the last one failed.
`PageInv`: the page is the first or one of the answer it was chosen in.

**`Session`.** `BrowserInv`: what was changed through a role table is in its rows,
or a load is still among the calls of its tab, or the last load failed
(`TableShows`). A page that is left takes no load with it but keeps its changes:
`Left` is proved to hold them, with the logins and logouts, in their order, and
no question for the session or the rows. For
that `DataProofs` shows that every finite set of numbers can be put in order.
`OfAccount`: a session that a page has read, or that is on its way to it, is of
the account of the cookie, or the tab was dated by a login. The answer on its way
is what makes it inductive: the page itself has read nothing yet when another tab
logs in.

### Only model-checked

- Liveness (`RequestsEnd` of both modules, `OrderServed`, `Drained`, `StopEnds`): the
  prover has no rule for fairness or ENABLED.

Every other property of the passing runs is stated by a theorem of the table
above.

## 5. Observations

Read in the code while modelling. No run refutes them; where a property makes an
exception of one, it is named.

- Two cancellations of one order that are both past the check at
  `orders.service.ts:378` both restore its stock; a status written late may also
  reopen a final order. Such an order is `Disputed`, which `StockLedger`,
  `TerminalIsFinal`, `FinalMailsAgree` and `BookSpec` except.
- `SUpdateOrderStatus` may set CANCELLED: the order is then final, with its units
  out of stock for good and without `cancelledAt`. The ledger counts them as held.
- After a success the cart page enables its button over the lines it has just
  ordered, until `router.push` ends (`cart/page.tsx:60-66`): a second click orders
  them again. `AgainOnlyWhileStale` names this window.
- A queue that refuses after the commit makes the answer a failure, though the
  order stands and no job will process it (`orders.service.ts:166`).
- The key of an activity job carries the time (`idempotency.service.ts:102`): a
  processing job that is run again logs the order again. `RepeatsExplained`
  counts it.
- `enqueue` pushes the token before it stores the data (`queue.service.ts:43`): a
  tick that is quicker finds no data and forgets the request
  (`queue.service.ts:119`), whose client holds a 202. `AcceptedIsServed` names
  this mishap among its exceptions.
- A queued request is answered COMPLETED with success though its route is never
  run (`queue.worker.ts:47`).
- The body of a 202 has `queueToken` at its top level
  (`ratelimit.middleware.ts`), `createOrder` reads `queue.token`: the page shows a
  failure, and `pollQueueStatus` is never reached.
- The frontend cancels an order with PATCH (`services/api/orders/index.ts:118`),
  the route is POST (`orders.routes.ts:158`): it always fails, and in `Listing`
  `ServeChange` leaves it out.
- A checkout whose server action rejects leaves the button disabled: no `catch`
  follows the await in `handleCheckout` (`Reject` in `Storefront`).
- The navigation bar can show the account of an earlier login, because
  react-query keeps it; a role change that fails leaves the picked role in its
  row. `PageIsOfItsAccount` is about pages, not about the bar.
- `getSession` is asked once per page, by a call: a page may show an account that
  another tab has replaced while the answer was on its way. `PageIsOfItsAccount`
  dates a page by the moment the server read the cookie.
- When `enqueue` fails after its RPUSH the request is let through although its
  token is in the list (`ratelimit.middleware.ts:126`). The queued copy is only
  simulated (`queue.worker.ts:47`), so nothing is done twice yet.
- Nothing bounds the duration of a shutdown (`app.ts:121`).

## 6. Not modelled

- **Queue watcher** (`frontend/src/services/queue/index.ts`, `hooks/useQueue.ts`,
  the socket rooms of `app.ts`). No page uses `useQueue`, so nothing of the
  program joins a room or polls. Read in it: a poll that was sent before
  `stopWatching` calls back after it and may replace a final status by an older
  one, and a reconnected socket does not join its rooms again.
- **Unused frontend parts**: the task list is on no page, `withRBAC` wraps none.
  Atoms, forms and themes are rendering.
- **Mails, activity log, notifications**: a job's one effect. Templates and SMTP
  are text and I/O; marking notifications as read is one statement each.
- **Job administration**: its reads and metrics change nothing.
- **Prices and totals**: no guard reads them. A total beyond DECIMAL(10,2) is one
  cause of an aborted transaction.
- **Seeders, API documentation, logging and tracing, the generated Prisma
  client**: start data, text, generated code. What the seeders leave is the
  initial state of `BackOffice`.
- **Read-only queries** beside those that `Listing` and `Session` show.

## 7. Plan

Done, in this order: `Orders` with `OrderBook`; `OrderJobs`; `RequestQueue`;
`OrderTransactions`; `Lifecycle`; `Api`, `Accounts`, `Tasks`, `Catalogue`,
`BackOffice`; `Storefront`; `Listing`; `Session`; and the proofs of section 4.

Every safety property that a passing run checks is proved. What could come next:
the hazards of PROJECT.json that no property covers. Each has a note; most are
what the code does, where only a change of the code would leave a property to
state (a queue that refuses after the commit, an update that overwrites stock,
the requests that the queue loses, a counter without an expiry).
