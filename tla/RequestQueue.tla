---------------------------- MODULE RequestQueue ----------------------------
(***************************************************************************)
(* The rate limiter and the queue behind it: a request over the limit is   *)
(* answered 202 with a token and waits in a Redis list, a worker takes it  *)
(* from there, and the client polls the token's status                     *)
(* (middlewares/ratelimit.middleware.ts, utils/queue.service.ts,           *)
(* utils/queue.worker.ts, api/v1/queue/queue.routes.ts).                   *)
(*                                                                         *)
(* Every Redis call is atomic and a step of its own; what lies between two *)
(* calls interleaves with every other handler, tick and process.  Redis    *)
(* applies a call once; a call that is reported as failed may or may not   *)
(* have been applied.  A request stands for its token too (a new uuid      *)
(* each), and all requests come from one client address.                   *)
(*                                                                         *)
(* The positions and waiting times told to a client are left out: nothing  *)
(* is decided by them, except that a token without a position is not       *)
(* refreshed.                                                              *)
(***************************************************************************)
EXTENDS Naturals, Sequences, Functions

CONSTANTS
  Requests,     \* requests, each with the token it would be given
  Workers,      \* ticks of queue workers that may overlap, in all processes
  Polls,        \* status requests that may be served at once
  MaxRequests,  \* requests allowed per window
  MaxFaults     \* bound: failed Redis calls and crashes

ASSUME RequestQueueAssumption ==
  /\ Requests # {} /\ Workers # {}
  /\ MaxRequests \in Nat \ {0} /\ MaxFaults \in Nat

VARIABLES
  counter,   \* ratelimit:{address}: its value and whether it has a TTL
  queue,     \* request_queue, a list of tokens
  status,    \* queue:{token}; "none": the key does not exist
  data,      \* the tokens whose queue:{token}:data exists
  handlers,  \* where the middleware stands with each request
  workers,   \* what each tick of a worker is doing
  polls,     \* what each getStatus is doing
  granted,   \* history: requests let through by the count in this window
  begun,     \* history: how often a worker began to process a token
  mishaps,   \* history: tokens that met with something nobody repairs
  faults

redis == <<counter, queue, status, data>>
history == <<granted, begun, mishaps>>
vars == <<redis, handlers, workers, polls, history, faults>>

Statuses == {"none", "WAITING", "PROCESSING", "COMPLETED", "FAILED"}

\* arrived: not yet counted.  first: counted as the first of its window.
\* over: over the limit.  pushed, stored: the token is in the list, its
\* status is stored.  queued: its data is stored too, and 202 is answered.
\* passed: handed to the route's handler.  lost: gone with the process.
HandlerPc == {"arrived", "first", "over", "pushed", "stored", "queued",
              "passed", "lost"}

Idle == [pc |-> "idle"]
WorkerCtx == [pc : {"popped", "fetched", "processing", "failing"},
              token : Requests]
PollCtx == [pc : {"waiting", "located"}, token : Requests]

\* The types of the variables; a counter that is not there has no expiry, and
\* no token is in the list twice.
TypeOK ==
  /\ counter \in [n : Nat, ttl : BOOLEAN]
  /\ counter.n = 0 => ~counter.ttl
  /\ queue \in Seq(Requests) /\ IsInjective(queue)
  /\ status \in [Requests -> Statuses]
  /\ data \subseteq Requests
  /\ handlers \in [Requests -> HandlerPc]
  /\ \A w \in Workers : workers[w] = Idle \/ workers[w] \in WorkerCtx
  /\ \A p \in Polls : polls[p] = Idle \/ polls[p] \in PollCtx
  /\ granted \in Nat
  /\ begun \in [Requests -> Nat]
  /\ mishaps \subseteq Requests
  /\ faults \in 0..MaxFaults

NoCounter == [n |-> 0, ttl |-> FALSE]

Init ==
  /\ counter = NoCounter
  /\ queue = <<>>
  /\ status = [t \in Requests |-> "none"]
  /\ data = {}
  /\ handlers = [r \in Requests |-> "arrived"]
  /\ workers = [w \in Workers |-> Idle]
  /\ polls = [p \in Polls |-> Idle]
  /\ granted = 0
  /\ begun = [t \in Requests |-> 0]
  /\ mishaps = {}
  /\ faults = 0

Fault == faults < MaxFaults /\ faults' = faults + 1

-----------------------------------------------------------------------------
(* The rate limiter: MRateLimitWithQueue and enqueue.                      *)

\* Mutant: the window is opened before the first request is counted in it.
OpensWindowEarly(n) == n = 0

\* Only the request that made the counter sets its expiry.
OpensWindow(n) == n = 1

\* Mutant: a request is compared with those before it.
VerdictBefore(n) == IF n - 1 > MaxRequests THEN "over" ELSE "passed"

\* current > maxRequests is over the limit.
Verdict(n) == IF n > MaxRequests THEN "over" ELSE "passed"

\* INCR; the answer decides what the handler does next.
Count(r) ==
  LET n == counter.n + 1
      next == IF OpensWindow(n) THEN "first" ELSE Verdict(n)
  IN
  /\ handlers[r] = "arrived"
  /\ counter' = [counter EXCEPT !.n = n]
  /\ handlers' = [handlers EXCEPT ![r] = next]
  /\ granted' = IF Verdict(n) = "passed" THEN granted + 1 ELSE granted
  /\ UNCHANGED <<queue, status, data, workers, polls, begun, mishaps, faults>>

\* PEXPIRE, which does nothing to a key that is gone.
SetExpiry(r) ==
  /\ handlers[r] = "first"
  /\ counter' = [counter EXCEPT !.ttl = counter.n > 0]
  /\ handlers' = [handlers EXCEPT ![r] = Verdict(1)]
  /\ UNCHANGED <<queue, status, data, workers, polls, history, faults>>

\* Mutant: a push that is reported as failed is made again.
PushAgain(r) ==
  /\ handlers[r] = "over"
  /\ queue' = Append(queue, r)
  /\ \E answered \in BOOLEAN :
       handlers' = [handlers EXCEPT ![r] = IF answered THEN "pushed" ELSE "over"]
  /\ UNCHANGED <<counter, status, data, workers, polls, history, faults>>

\* RPUSH: from here on a worker can take the token.
Push(r) ==
  /\ handlers[r] = "over"
  /\ queue' = Append(queue, r)
  /\ handlers' = [handlers EXCEPT ![r] = "pushed"]
  /\ UNCHANGED <<counter, status, data, workers, polls, history, faults>>

\* After LRANGE: SETEX of the status.
StoreStatus(r) ==
  /\ handlers[r] = "pushed"
  /\ status' = [status EXCEPT ![r] = "WAITING"]
  /\ handlers' = [handlers EXCEPT ![r] = "stored"]
  /\ UNCHANGED <<counter, queue, data, workers, polls, history, faults>>

\* SETEX of the request's data; then 202 Accepted, with the token.
StoreData(r) ==
  /\ handlers[r] = "stored"
  /\ data' = data \cup {r}
  /\ handlers' = [handlers EXCEPT ![r] = "queued"]
  /\ UNCHANGED <<counter, queue, status, workers, polls, history, faults>>

\* A Redis call fails: the request is allowed, wherever its token has got to.
FailOpen(r) ==
  /\ handlers[r] \in {"arrived", "first", "over", "pushed", "stored"}
  /\ Fault
  /\ handlers' = [handlers EXCEPT ![r] = "passed"]
  /\ \/ UNCHANGED data
     \/ handlers[r] = "stored" /\ data' = data \cup {r}
  /\ UNCHANGED <<counter, queue, status, workers, polls, history>>

\* The window is over.
CounterExpires ==
  /\ counter.ttl
  /\ counter' = NoCounter
  /\ granted' = 0
  /\ UNCHANGED <<queue, status, data, handlers, workers, polls, begun, mishaps,
                 faults>>

Handle(r) ==
  Count(r) \/ SetExpiry(r) \/ Push(r) \/ StoreStatus(r) \/ StoreData(r)

-----------------------------------------------------------------------------
(* The worker: processNextRequest, dequeue, processQueue.                  *)

At(w, pc) == workers[w].pc = pc
Token(w) == workers[w].token
Holds(w, t) == workers[w] # Idle /\ Token(w) = t
Move(w, pc) == workers' = [workers EXCEPT ![w].pc = pc]
Done(w) == workers' = [workers EXCEPT ![w] = Idle]
Mishap(ts) == mishaps' = mishaps \cup ts

\* Mutant: the head is read and not taken off.
PopPeeks(w) ==
  /\ workers[w] = Idle
  /\ queue # <<>>
  /\ workers' = [workers EXCEPT ![w] = [pc |-> "popped", token |-> Head(queue)]]
  /\ UNCHANGED <<redis, handlers, polls, history, faults>>

\* LPOP.  (LLEN before it only saves the call when the list is empty.)
Pop(w) ==
  /\ workers[w] = Idle
  /\ queue # <<>>
  /\ workers' = [workers EXCEPT ![w] = [pc |-> "popped", token |-> Head(queue)]]
  /\ queue' = Tail(queue)
  /\ UNCHANGED <<counter, status, data, handlers, polls, history, faults>>

\* Mutant: a token without data goes back to the end of the list.
DropRequeued(w) ==
  /\ At(w, "popped")
  /\ Token(w) \notin data
  /\ queue' = Append(queue, Token(w))
  /\ Done(w)
  /\ UNCHANGED <<counter, status, data, handlers, polls, history, faults>>

\* GET finds no data: dequeue returns null and the token is forgotten.
Drop(w) ==
  /\ At(w, "popped")
  /\ Token(w) \notin data
  /\ Done(w)
  /\ Mishap({Token(w)})
  /\ UNCHANGED <<redis, handlers, polls, granted, begun, faults>>

Fetch(w) ==
  /\ At(w, "popped")
  /\ Token(w) \in data
  /\ Move(w, "fetched")
  /\ UNCHANGED <<redis, handlers, polls, history, faults>>

\* SETEX of PROCESSING; the simulated processing runs to its end.
Begin(w) ==
  /\ At(w, "fetched")
  /\ status' = [status EXCEPT ![Token(w)] = "PROCESSING"]
  /\ begun' = [begun EXCEPT ![Token(w)] = @ + 1]
  /\ Move(w, "processing")
  /\ UNCHANGED <<counter, queue, data, handlers, polls, granted, mishaps, faults>>

\* Mutant: the result is announced and not stored.
CompleteUnstored(w) ==
  /\ At(w, "processing")
  /\ Done(w)
  /\ UNCHANGED <<redis, handlers, polls, history, faults>>

Complete(w) ==
  /\ At(w, "processing")
  /\ status' = [status EXCEPT ![Token(w)] = "COMPLETED"]
  /\ Done(w)
  /\ UNCHANGED <<counter, queue, data, handlers, polls, history, faults>>

\* SETEX of COMPLETED is reported as failed: processQueue calls fail.
CompleteFails(w) ==
  /\ At(w, "processing")
  /\ Fault
  /\ \E applied \in BOOLEAN :
       status' = IF applied THEN [status EXCEPT ![Token(w)] = "COMPLETED"]
                 ELSE status
  /\ Move(w, "failing")
  /\ UNCHANGED <<counter, queue, data, handlers, polls, history>>

Fail(w) ==
  /\ At(w, "failing")
  /\ status' = [status EXCEPT ![Token(w)] = "FAILED"]
  /\ Done(w)
  /\ UNCHANGED <<counter, queue, data, handlers, polls, history, faults>>

\* Any other call fails: the tick logs it and forgets the token.  The SETEX of
\* PROCESSING or FAILED that is reported as failed may have been applied.
TickFails(w) ==
  /\ workers[w] # Idle
  /\ ~At(w, "processing")
  /\ Fault
  /\ \/ UNCHANGED status
     \/ At(w, "fetched") /\ status' = [status EXCEPT ![Token(w)] = "PROCESSING"]
     \/ At(w, "failing") /\ status' = [status EXCEPT ![Token(w)] = "FAILED"]
  /\ Done(w)
  /\ Mishap({Token(w)})
  /\ UNCHANGED <<counter, queue, data, handlers, polls, granted, begun>>

Tick(w) ==
  Pop(w) \/ Drop(w) \/ Fetch(w) \/ Begin(w) \/ Complete(w) \/ Fail(w)

-----------------------------------------------------------------------------
(* getStatus, for a token a client was given.                              *)

\* GET; a status other than WAITING is answered as it is.
Ask(p, t) ==
  /\ polls[p] = Idle
  /\ handlers[t] = "queued"
  /\ status[t] = "WAITING"
  /\ polls' = [polls EXCEPT ![p] = [pc |-> "waiting", token |-> t]]
  /\ UNCHANGED <<redis, handlers, workers, history, faults>>

InQueue(t) == t \in Range(queue)

\* LRANGE: only a token that is in the list is refreshed.
Locate(p) ==
  /\ polls[p].pc = "waiting"
  /\ polls' = [polls EXCEPT ![p] =
       IF InQueue(@.token) THEN [@ EXCEPT !.pc = "located"] ELSE Idle]
  /\ UNCHANGED <<redis, handlers, workers, history, faults>>

\* SETEX of the status that was read, whatever it has become.
Refresh(p) ==
  /\ polls[p].pc = "located"
  /\ status' = [status EXCEPT ![polls[p].token] = "WAITING"]
  /\ IF status[polls[p].token] = "WAITING" THEN UNCHANGED mishaps
     ELSE Mishap({polls[p].token})
  /\ polls' = [polls EXCEPT ![p] = Idle]
  /\ UNCHANGED <<counter, queue, data, handlers, workers, granted, begun, faults>>

Poll(p) == Locate(p) \/ Refresh(p)

-----------------------------------------------------------------------------
(* The keys live ten minutes, longer than any handler between storing them *)
(* and its answer; the status key is renewed by every refresh.             *)

Answered(t) == handlers[t] \in {"queued", "passed", "lost"}

StatusExpires(t) ==
  /\ Answered(t)
  /\ status[t] # "none"
  /\ status' = [status EXCEPT ![t] = "none"]
  /\ UNCHANGED <<counter, queue, data, handlers, workers, polls, history, faults>>

DataExpires(t) ==
  /\ Answered(t)
  /\ t \in data
  /\ data' = data \ {t}
  /\ UNCHANGED <<counter, queue, status, handlers, workers, polls, history, faults>>

\* A process dies: what its handlers, ticks and polls held is gone.
Crash ==
  /\ Fault
  /\ handlers' = [r \in Requests |->
       IF handlers[r] \in {"arrived", "queued", "passed"} THEN handlers[r]
       ELSE "lost"]
  /\ Mishap({t \in Requests : \E w \in Workers : Holds(w, t)})
  /\ workers' = [w \in Workers |-> Idle]
  /\ polls' = [p \in Polls |-> Idle]
  /\ UNCHANGED <<redis, granted, begun>>

Next ==
  \/ \E r \in Requests : Handle(r) \/ FailOpen(r)
  \/ \E w \in Workers : Tick(w) \/ CompleteFails(w) \/ TickFails(w)
  \/ \E p \in Polls : Poll(p) \/ \E t \in Requests : Ask(p, t)
  \/ \E t \in Requests : StatusExpires(t) \/ DataExpires(t)
  \/ CounterExpires
  \/ Crash

Spec == Init /\ [][Next]_vars

\* Every process starts a worker, which ticks every second; a tick that has
\* begun goes on when its call settles.
FairSpec == Spec /\ \A w \in Workers : WF_vars(Tick(w))

-----------------------------------------------------------------------------
(* Properties.                                                             *)

\* However many ticks and processes overlap, no queued request is processed
\* twice: LPOP gives a token to one of them, and nothing puts it back.
RunOnce == \A t \in Requests : begun[t] <= 1

\* In one window the count lets at most maxRequests through, however the
\* INCR and the PEXPIRE of different requests interleave.  (A request let
\* through because Redis failed is not counted.)
WindowLimit == granted <= MaxRequests

\* The counter always comes to expire: it has its TTL, or the request that
\* made it is about to set it; only a fault in between can leave a counter
\* that stands for ever and queues every later request.
WindowEnds ==
  counter.n > 0 =>
    counter.ttl \/ faults > 0 \/ \E r \in Requests : handlers[r] = "first"

\* A request answered 202 is in the list, in the hands of a worker or has its
\* result (which expires), unless one of the named mishaps befell it: it was
\* taken before its data was stored or after it expired, a call failed or the
\* process died around it, or a late poll wrote WAITING over its status.
AcceptedIsServed ==
  \A t \in Requests :
    handlers[t] = "queued" /\ ~InQueue(t) /\ t \notin mishaps
      /\ (\A w \in Workers : ~Holds(w, t))
    => status[t] \in {"COMPLETED", "FAILED", "none"}

\* Every token in the list is taken off it, and whoever took it is done with
\* it: no token, whatever became of its data, blocks those behind it.
Drained ==
  \A t \in Requests :
    InQueue(t) ~> ~InQueue(t) /\ \A w \in Workers : ~Holds(w, t)
=============================================================================
