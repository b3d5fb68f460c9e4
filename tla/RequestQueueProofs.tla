------------------------- MODULE RequestQueueProofs -------------------------
(***************************************************************************)
(* Theorems about RequestQueue, for every number of requests, workers,     *)
(* polls, faults and every limit: TypeOK, WindowLimit, WindowEnds, RunOnce *)
(* and AcceptedIsServed.                                                   *)
(***************************************************************************)
EXTENDS RequestQueue, SequenceTheorems, TLAPS

(***************************************************************************)
(* Types.  That no token is in the list twice is not a matter of types: it *)
(* belongs to the invariant about places below.                            *)
(***************************************************************************)
Types ==
  /\ counter \in [n : Nat, ttl : BOOLEAN]
  /\ queue \in Seq(Requests)
  /\ status \in [Requests -> Statuses]
  /\ data \in SUBSET Requests
  /\ handlers \in [Requests -> HandlerPc]
  /\ workers \in [Workers -> WorkerCtx \cup {Idle}]
  /\ polls \in [Polls -> PollCtx \cup {Idle}]
  /\ granted \in Nat
  /\ begun \in [Requests -> Nat]
  /\ mishaps \in SUBSET Requests
  /\ faults \in 0..MaxFaults

Busy == {"popped", "fetched", "processing", "failing"}

\* A worker that is at some step holds a token.
LEMMA WorkerType ==
  ASSUME Types, NEW w \in Workers
  PROVE  /\ workers[w] = Idle \/ workers[w] \in WorkerCtx
         /\ workers[w].pc = "idle" <=> workers[w] = Idle
         /\ workers[w] # Idle => Token(w) \in Requests /\ workers[w].pc \in Busy
  BY DEF Types, Idle, WorkerCtx, Token, Busy

\* Moving on keeps the token.
LEMMA MoveType ==
  ASSUME Types, NEW w \in Workers, workers[w] \in WorkerCtx, NEW pc \in Busy,
         Move(w, pc)
  PROVE  /\ workers' \in [Workers -> WorkerCtx \cup {Idle}]
         /\ workers'[w].pc = pc /\ workers'[w] # Idle
         /\ Token(w)' = Token(w)
         /\ \A v \in Workers : v # w => workers'[v] = workers[v]
  <1> DEFINE ctx == [workers[w] EXCEPT !.pc = pc]
  <1>1. ctx \in WorkerCtx /\ ctx.pc = pc /\ ctx.token = workers[w].token
    BY DEF WorkerCtx, Busy
  <1>2. ctx # Idle
    BY <1>1 DEF Idle, Busy
  <1>3. workers' = [workers EXCEPT ![w] = ctx]
    BY DEF Move
  <1> HIDE DEF ctx
  <1> QED BY <1>1, <1>2, <1>3 DEF Types, Token

LEMMA DoneType ==
  ASSUME Types, NEW w \in Workers, Done(w)
  PROVE  /\ workers' \in [Workers -> WorkerCtx \cup {Idle}]
         /\ workers'[w] = Idle
         /\ \A v \in Workers : v # w => workers'[v] = workers[v]
  BY DEF Types, Done

LEMMA PopType ==
  ASSUME Types, NEW w \in Workers, Pop(w)
  PROVE  /\ Head(queue) \in Requests /\ queue' \in Seq(Requests)
         /\ workers' \in [Workers -> WorkerCtx \cup {Idle}]
         /\ workers'[w].pc = "popped" /\ workers'[w] # Idle /\ Token(w)' = Head(queue)
         /\ \A v \in Workers : v # w => workers'[v] = workers[v]
  <1>1. Head(queue) \in Requests /\ queue' \in Seq(Requests)
    BY HeadTailProperties DEF Types, Pop
  <1> DEFINE ctx == [pc |-> "popped", token |-> Head(queue)]
  <1>2. ctx \in WorkerCtx /\ ctx.pc = "popped" /\ ctx.token = Head(queue) /\ ctx # Idle
    BY <1>1 DEF WorkerCtx, Idle
  <1>3. workers' = [workers EXCEPT ![w] = ctx]
    BY DEF Pop
  <1> HIDE DEF ctx
  <1> QED BY <1>1, <1>2, <1>3 DEF Types, Token

\* What a tick does to its worker and to the list.
TickLeaves(w) ==
  /\ UNCHANGED <<counter, data, handlers, polls, granted>>
  /\ workers' \in [Workers -> WorkerCtx \cup {Idle}]
  /\ \A v \in Workers : v # w => workers'[v] = workers[v]

LEMMA TickEffect ==
  ASSUME Types, NEW w \in Workers, Tick(w) \/ CompleteFails(w) \/ TickFails(w)
  PROVE  /\ TickLeaves(w)
         /\ \/ Pop(w)
            \/ /\ At(w, "popped") /\ Token(w) \in data
               /\ workers'[w].pc = "fetched" /\ Token(w)' = Token(w)
               /\ UNCHANGED <<queue, status, begun, mishaps>>
            \/ Begin(w) /\ workers'[w].pc = "processing" /\ Token(w)' = Token(w)
            \/ /\ At(w, "processing") /\ workers'[w].pc = "failing"
               /\ Token(w)' = Token(w) /\ UNCHANGED <<queue, begun, mishaps>>
               /\ \/ UNCHANGED status
                  \/ status' = [status EXCEPT ![Token(w)] = "COMPLETED"]
            \/ /\ workers[w] # Idle /\ workers'[w] = Idle /\ UNCHANGED <<queue, begun>>
               /\ \/ /\ Token(w) \in mishaps' /\ mishaps' = mishaps \cup {Token(w)}
                     /\ \/ UNCHANGED status
                        \/ \E s \in {"PROCESSING", "FAILED"} :
                             status' = [status EXCEPT ![Token(w)] = s]
                  \/ /\ UNCHANGED mishaps
                     /\ workers[w].pc \in {"processing", "failing"}
                     /\ \E s \in {"COMPLETED", "FAILED"} :
                          status' = [status EXCEPT ![Token(w)] = s]
  <1> USE DEF redis, history, TickLeaves
  <1>0. \A pc \in Busy : At(w, pc) => workers[w] \in WorkerCtx /\ workers[w] # Idle
    BY WorkerType DEF At, Busy, Idle
  <1>1. CASE Pop(w)
    BY <1>1, PopType DEF Pop
  <1>2. CASE Drop(w)
    BY <1>0, <1>2, DoneType DEF Drop, Mishap, Busy
  <1>3. CASE Fetch(w)
    BY <1>0, <1>3, MoveType DEF Fetch, Busy
  <1>4. CASE Begin(w)
    BY <1>0, <1>4, MoveType DEF Begin, Busy
  <1>5. CASE Complete(w)
    BY <1>0, <1>5, DoneType DEF Complete, Busy, At
  <1>6. CASE Fail(w)
    BY <1>0, <1>6, DoneType DEF Fail, Busy, At
  <1>7. CASE CompleteFails(w)
    BY <1>0, <1>7, MoveType DEF CompleteFails, Busy
  <1>8. CASE TickFails(w)
    BY <1>8, DoneType DEF TickFails, Mishap
  <1> QED
    BY <1>1, <1>2, <1>3, <1>4, <1>5, <1>6, <1>7, <1>8 DEF Tick

LEMMA CounterType ==
  ASSUME NEW c \in [n : Nat, ttl : BOOLEAN]
  PROVE  /\ \A m \in Nat : /\ [c EXCEPT !.n = m] \in [n : Nat, ttl : BOOLEAN]
                           /\ [c EXCEPT !.n = m].n = m
                           /\ [c EXCEPT !.n = m].ttl = c.ttl
         /\ \A b \in BOOLEAN : /\ [c EXCEPT !.ttl = b] \in [n : Nat, ttl : BOOLEAN]
                               /\ [c EXCEPT !.ttl = b].n = c.n
                               /\ [c EXCEPT !.ttl = b].ttl = b
  OBVIOUS

LEMMA InitTypes == ASSUME Init PROVE Types
  BY RequestQueueAssumption
  DEF Init, Types, NoCounter, Statuses, HandlerPc, Idle

LEMMA HandleTypes ==
  ASSUME Types, NEW r \in Requests, Handle(r) \/ FailOpen(r) PROVE Types'
  <1> USE DEF Types, redis, history
  <1>1. CASE Count(r)
    <2> DEFINE n == counter.n + 1
    <2>0. n \in Nat
      OBVIOUS
    <2>1. [counter EXCEPT !.n = n] \in [n : Nat, ttl : BOOLEAN]
      BY <2>0, CounterType
    <2>2. (IF OpensWindow(n) THEN "first" ELSE Verdict(n)) \in HandlerPc
      BY DEF Verdict, HandlerPc
    <2> QED BY <1>1, <2>1, <2>2 DEF Count
  <1>2. CASE SetExpiry(r)
    <2>1. Verdict(1) \in HandlerPc
      BY DEF Verdict, HandlerPc
    <2> DEFINE b == counter.n > 0
    <2>2. b \in BOOLEAN /\ counter' = [counter EXCEPT !.ttl = b]
      BY <1>2 DEF SetExpiry
    <2> HIDE DEF b
    <2>3. counter' \in [n : Nat, ttl : BOOLEAN]
      BY <2>2, CounterType
    <2> QED BY <1>2, <2>1, <2>3 DEF SetExpiry
  <1>3. CASE Push(r)
    BY <1>3, AppendProperties DEF Push, HandlerPc
  <1>4. CASE StoreStatus(r)
    BY <1>4 DEF StoreStatus, HandlerPc, Statuses
  <1>5. CASE StoreData(r)
    BY <1>5 DEF StoreData, HandlerPc
  <1>6. CASE FailOpen(r)
    <2>1. handlers' \in [Requests -> HandlerPc] /\ data' \in SUBSET Requests
      BY <1>6 DEF FailOpen, HandlerPc
    <2>2. faults' \in 0..MaxFaults
      BY <1>6, RequestQueueAssumption DEF FailOpen, Fault
    <2> QED BY <1>6, <2>1, <2>2 DEF FailOpen
  <1> QED
    BY <1>1, <1>2, <1>3, <1>4, <1>5, <1>6 DEF Handle

LEMMA TickTypes ==
  ASSUME Types, NEW w \in Workers, Tick(w) \/ CompleteFails(w) \/ TickFails(w)
  PROVE  Types'
  <1>1. UNCHANGED <<counter, data, handlers, polls, granted>>
    BY TickEffect DEF TickLeaves
  <1>2. workers' \in [Workers -> WorkerCtx \cup {Idle}]
    BY TickEffect DEF TickLeaves
  <1>3. queue' \in Seq(Requests)
    <2>1. CASE Pop(w)
      BY <2>1, PopType
    <2>2. CASE ~Pop(w)
      BY <2>2 DEF Types, Tick, Drop, Fetch, Begin, Complete, Fail, CompleteFails,
                  TickFails, redis, history
    <2> QED BY <2>1, <2>2
  <1>4. status' \in [Requests -> Statuses]
    BY DEF Types, Statuses, Tick, Pop, Drop, Fetch, Begin, Complete, Fail,
           CompleteFails, TickFails, redis, history
  <1>5. begun' \in [Requests -> Nat]
    <2>1. begun' = begun \/ begun' = [begun EXCEPT ![Token(w)] = @ + 1]
      BY DEF Tick, Pop, Drop, Fetch, Begin, Complete, Fail, CompleteFails, TickFails,
             history
    <2> QED BY <2>1 DEF Types
  <1>6. mishaps' \in SUBSET Requests
    <2>1. workers[w] # Idle => Token(w) \in Requests
      BY WorkerType
    <2>2. At(w, "popped") => workers[w] # Idle
      BY DEF At, Idle
    <2> QED BY <2>1, <2>2
        DEF Types, Tick, Pop, Drop, Fetch, Begin, Complete, Fail,
            CompleteFails, TickFails, redis, history, Mishap
  <1>7. faults' \in 0..MaxFaults
    BY RequestQueueAssumption
    DEF Types, Tick, Pop, Drop, Fetch, Begin, Complete, Fail,
        CompleteFails, TickFails, redis, history, Fault
  <1> QED
    BY <1>1, <1>2, <1>3, <1>4, <1>5, <1>6, <1>7 DEF Types

LEMMA PollTypes ==
  ASSUME Types, NEW p \in Polls, Poll(p) \/ \E t \in Requests : Ask(p, t)
  PROVE  Types'
  <1> USE DEF Types, redis, history
  <1>1. polls[p] \in PollCtx \cup {Idle}
    OBVIOUS
  <1>2. ASSUME NEW t \in Requests, Ask(p, t) PROVE Types'
    <2>1. [pc |-> "waiting", token |-> t] \in PollCtx
      BY DEF PollCtx
    <2> QED BY <1>2, <2>1 DEF Ask
  <1>3. CASE Locate(p)
    <2>1. polls[p] \in PollCtx
      BY <1>1, <1>3 DEF Locate, Idle
    <2>2. [polls[p] EXCEPT !.pc = "located"] \in PollCtx
      BY <2>1 DEF PollCtx
    <2>3. polls' \in [Polls -> PollCtx \cup {Idle}]
      BY <1>3, <2>2 DEF Locate
    <2> QED BY <1>3, <2>3 DEF Locate
  <1>4. CASE Refresh(p)
    <2>1. polls[p] \in PollCtx
      BY <1>1, <1>4 DEF Refresh, Idle
    <2>2. polls[p].token \in Requests
      BY <2>1 DEF PollCtx
    <2>3. mishaps' \in SUBSET Requests /\ polls' \in [Polls -> PollCtx \cup {Idle}]
      BY <1>4, <2>2 DEF Refresh, Mishap
    <2>4. status' \in [Requests -> Statuses]
      BY <1>4 DEF Refresh, Statuses
    <2> QED BY <1>4, <2>3, <2>4 DEF Refresh
  <1> QED
    BY <1>2, <1>3, <1>4 DEF Poll

LEMMA CrashTypes == ASSUME Types, Crash PROVE Types'
  <1> USE DEF Types, redis, history
  <1>1. handlers' \in [Requests -> HandlerPc]
    BY DEF Crash, HandlerPc
  <1>2. /\ workers' \in [Workers -> WorkerCtx \cup {Idle}]
        /\ polls' \in [Polls -> PollCtx \cup {Idle}]
    BY DEF Crash
  <1>3. mishaps' \in SUBSET Requests /\ faults' \in 0..MaxFaults
    BY RequestQueueAssumption DEF Crash, Mishap, Fault
  <1> QED
    BY <1>1, <1>2, <1>3 DEF Crash

LEMMA NextTypes == ASSUME Types, [Next]_vars PROVE Types'
  <1>1. CASE \E t \in Requests : StatusExpires(t) \/ DataExpires(t)
    BY <1>1 DEF Types, StatusExpires, DataExpires, history, Statuses
  <1>2. CASE CounterExpires
    BY <1>2 DEF Types, CounterExpires, NoCounter
  <1>3. CASE UNCHANGED vars
    BY <1>3 DEF Types, vars, redis, history
  <1> QED
    BY <1>1, <1>2, <1>3, HandleTypes, TickTypes, PollTypes, CrashTypes DEF Next

(***************************************************************************)
(* The window.  What the count let through is the counter as long as that  *)
(* is under the limit; this bounds it, whoever counts when.                *)
(***************************************************************************)
Window ==
  /\ counter.n = 0 => ~counter.ttl
  /\ granted = IF counter.n <= MaxRequests THEN counter.n ELSE MaxRequests
  /\ WindowEnds

LEMMA InitWindow == ASSUME Init PROVE Window
  BY RequestQueueAssumption DEF Init, Window, WindowEnds, NoCounter

\* Every other step keeps the counter, and the request that is about to set
\* its expiry unless it is a fault.
LEMMA CounterChange ==
  ASSUME Types, [Next]_vars
  PROVE  \/ \E r \in Requests : Count(r) \/ SetExpiry(r)
         \/ CounterExpires
         \/ /\ UNCHANGED <<counter, granted>>
            /\ faults' >= faults
            /\ \/ faults' > faults
               \/ \A r \in Requests : handlers[r] = "first" => handlers'[r] = "first"
  <1> USE DEF redis, history
  <1>0. faults \in Nat
    BY RequestQueueAssumption DEF Types
  <1>1. ASSUME NEW r \in Requests,
               Push(r) \/ StoreStatus(r) \/ StoreData(r) \/ FailOpen(r)
        PROVE  /\ UNCHANGED <<counter, granted>>
               /\ faults' >= faults
               /\ \/ faults' > faults
                  \/ \A q \in Requests : handlers[q] = "first" => handlers'[q] = "first"
    BY <1>0, <1>1 DEF Types, Push, StoreStatus, StoreData, FailOpen, Fault
  <1>2. ASSUME NEW w \in Workers, Tick(w) \/ CompleteFails(w) \/ TickFails(w)
        PROVE  UNCHANGED <<counter, granted, handlers>> /\ faults' >= faults
    BY <1>0, <1>2 DEF Tick, Pop, Drop, Fetch, Begin, Complete, Fail,
                      CompleteFails, TickFails, Fault
  <1>3. ASSUME NEW p \in Polls, Poll(p) \/ \E t \in Requests : Ask(p, t)
        PROVE  UNCHANGED <<counter, granted, handlers>> /\ faults' >= faults
    BY <1>0, <1>3 DEF Poll, Locate, Refresh, Ask
  <1>4. ASSUME NEW t \in Requests, StatusExpires(t) \/ DataExpires(t)
        PROVE  UNCHANGED <<counter, granted, handlers>> /\ faults' >= faults
    BY <1>0, <1>4 DEF StatusExpires, DataExpires
  <1>5. CASE Crash
    BY <1>0, <1>5 DEF Crash, Fault
  <1>6. CASE UNCHANGED vars
    BY <1>0, <1>6 DEF vars
  <1> QED
    BY <1>1, <1>2, <1>3, <1>4, <1>5, <1>6 DEF Next, Handle

LEMMA NextWindow == ASSUME Types, Window, [Next]_vars PROVE Window'
  <1> USE RequestQueueAssumption
  <1>0. /\ counter \in [n : Nat, ttl : BOOLEAN] /\ counter.n \in Nat
        /\ granted \in Nat /\ faults \in Nat
    BY DEF Types
  <1>1. ASSUME NEW r \in Requests, Count(r) PROVE Window'
    <2>1. /\ counter'.n = counter.n + 1 /\ counter'.ttl = counter.ttl
          /\ faults' = faults
      BY <1>0, <1>1 DEF Count
    <2>2. granted' = IF counter'.n <= MaxRequests THEN counter'.n ELSE MaxRequests
      BY <1>0, <1>1, <2>1 DEF Count, Verdict, Window
    <2>3. CASE counter.n = 0
      <3>1. handlers'[r] = "first"
        BY <1>1, <2>3 DEF Count, OpensWindow, Types
      <3> QED BY <1>0, <2>1, <2>2, <3>1 DEF Window, WindowEnds
    <2>4. CASE counter.n > 0
      <3>1. \A q \in Requests : handlers[q] = "first" => handlers'[q] = "first"
        BY <1>1 DEF Count, Types
      <3> QED BY <1>0, <2>1, <2>2, <2>4, <3>1 DEF Window, WindowEnds
    <2> QED BY <1>0, <2>3, <2>4
  <1>2. ASSUME NEW r \in Requests, SetExpiry(r) PROVE Window'
    <2> DEFINE b == counter.n > 0
    <2>1. b \in BOOLEAN /\ counter' = [counter EXCEPT !.ttl = b] /\ UNCHANGED granted
      BY <1>2 DEF SetExpiry, history
    <2>0. (counter.n = 0 => ~b) /\ (counter.n > 0 => b)
      BY <1>0
    <2> HIDE DEF b
    <2>2. counter'.n = counter.n /\ counter'.ttl = b
      BY <1>0, <2>1, CounterType
    <2>3. /\ counter'.n = 0 => ~counter'.ttl
          /\ counter'.n > 0 => counter'.ttl
      BY <2>0, <2>2, Zenon
    <2>4. granted' = granted /\ counter'.n = counter.n
      BY <2>1, <2>2
    <2> QED BY <1>0, <2>3, <2>4 DEF Window, WindowEnds
  <1>3. CASE CounterExpires
    BY <1>3 DEF CounterExpires, NoCounter, Window, WindowEnds
  <1>4. CASE /\ UNCHANGED <<counter, granted>>
             /\ faults' >= faults
             /\ \/ faults' > faults
                \/ \A r \in Requests : handlers[r] = "first" => handlers'[r] = "first"
    <2>1. Types'
      BY NextTypes
    <2>2. faults' \in Nat
      BY <2>1 DEF Types
    <2> QED BY <1>0, <1>4, <2>2 DEF Window, WindowEnds
  <1> QED
    BY <1>1, <1>2, <1>3, <1>4, CounterChange

(***************************************************************************)
(* Places.  A token is with its handler, then in the list, then with one   *)
(* worker, and never goes back: so it is not begun twice.                  *)
(***************************************************************************)
NotYetQueued == {"arrived", "first", "over"}

Unheld(t) == \A w \in Workers : ~Holds(w, t)

Place ==
  /\ IsInjective(queue)
  /\ \A t \in Requests : handlers[t] \in NotYetQueued =>
       ~InQueue(t) /\ Unheld(t) /\ begun[t] = 0
  /\ \A t \in Requests : InQueue(t) => Unheld(t) /\ begun[t] = 0
  /\ \A v, w \in Workers, t \in Requests : Holds(v, t) /\ Holds(w, t) => v = w
  /\ \A w \in Workers :
       workers[w].pc \in {"popped", "fetched"} => begun[Token(w)] = 0
  /\ RunOnce

LEMMA InitPlace == ASSUME Init PROVE Place
  BY DEF Init, Place, RunOnce, IsInjective, InQueue, Range, Unheld, Holds, Idle

LEMMA HandlersChange ==
  ASSUME Types, [Next]_vars, NEW t \in Requests
  PROVE  /\ Answered(t) => handlers'[t] = handlers[t]
         /\ handlers'[t] \in NotYetQueued => handlers[t] \in NotYetQueued
         /\ handlers'[t] = "pushed" => handlers[t] = "pushed" \/ Push(t)
         /\ handlers'[t] = "stored" => handlers[t] \in {"pushed", "stored"}
         /\ handlers'[t] = "queued" => handlers[t] \in {"stored", "queued"}
  <1> USE DEF Answered, NotYetQueued, redis, history
  <1>1. CASE UNCHANGED handlers
    BY <1>1
  <1>2. ASSUME NEW r \in Requests, Handle(r) \/ FailOpen(r), r # t
        PROVE  UNCHANGED handlers[t]
    BY <1>2 DEF Types, Handle, Count, SetExpiry, Push, StoreStatus, StoreData, FailOpen
  <1>3. CASE Handle(t) \/ FailOpen(t)
    BY <1>3 DEF Types, Handle, Count, SetExpiry, Push, StoreStatus, StoreData,
                FailOpen, Verdict
  <1>4. CASE Crash
    BY <1>4 DEF Crash, Types, HandlerPc
  <1>5. \/ UNCHANGED handlers \/ Crash
        \/ \E r \in Requests : Handle(r) \/ FailOpen(r)
    BY TickEffect
    DEF Next, vars, TickLeaves, Poll, Locate, Refresh, Ask, StatusExpires,
        DataExpires, CounterExpires
  <1>6. ASSUME NEW r \in Requests, Handle(r) \/ FailOpen(r)
        PROVE  UNCHANGED handlers[t] \/ Handle(t) \/ FailOpen(t)
    BY <1>2, <1>6
  <1> QED
    BY <1>1, <1>3, <1>4, <1>5, <1>6

LEMMA PushRange ==
  ASSUME Types, NEW r \in Requests, Push(r)
  PROVE  /\ \A t \in Requests : InQueue(t)' <=> InQueue(t) \/ t = r
         /\ IsInjective(queue) /\ ~InQueue(r) => IsInjective(queue')
  <1> DEFINE n == Len(queue)
  <1>1. /\ n \in Nat /\ DOMAIN queue = 1..n
        /\ queue' = Append(queue, r) /\ Len(queue') = n + 1 /\ DOMAIN queue' = 1..(n + 1)
        /\ \A i \in 1..n : queue'[i] = queue[i]
        /\ queue'[n + 1] = r
    BY LenProperties, AppendProperties DEF Types, Push
  <1> HIDE DEF n
  <1>2. \A t \in Requests : InQueue(t)' <=> InQueue(t) \/ t = r
    <2>1. \A i \in 1..(n + 1) : i \in 1..n \/ i = n + 1
      BY <1>1
    <2>2. 1..n \subseteq 1..(n + 1) /\ n + 1 \in 1..(n + 1)
      BY <1>1
    <2> QED BY <1>1, <2>1, <2>2 DEF InQueue, Range
  <1>3. ASSUME IsInjective(queue), ~InQueue(r) PROVE IsInjective(queue')
    <2> SUFFICES ASSUME NEW a \in 1..(n + 1), NEW b \in 1..(n + 1), queue'[a] = queue'[b]
                 PROVE  a = b
      BY <1>1 DEF IsInjective
    <2>1. \A i \in 1..n : queue[i] # r
      BY <1>1, <1>3 DEF InQueue, Range
    <2> QED BY <1>1, <1>3, <2>1 DEF IsInjective
  <1> QED BY <1>2, <1>3

LEMMA PopRange ==
  ASSUME Types, IsInjective(queue), NEW w \in Workers, Pop(w)
  PROVE  /\ InQueue(Head(queue))
         /\ \A t \in Requests : InQueue(t)' <=> InQueue(t) /\ t # Head(queue)
         /\ IsInjective(queue')
  <1> DEFINE n == Len(queue)
  <1>1. /\ n \in Nat /\ n > 0 /\ DOMAIN queue = 1..n
        /\ queue' = Tail(queue) /\ Len(queue') = n - 1 /\ DOMAIN queue' = 1..(n - 1)
        /\ \A i \in 1..(n - 1) : queue'[i] = queue[i + 1]
        /\ Head(queue) = queue[1]
    BY LenProperties, EmptySeq, HeadTailProperties DEF Types, Pop
  <1> HIDE DEF n
  <1>2. InQueue(Head(queue))
    BY <1>1 DEF InQueue, Range
  <1>3. ASSUME NEW t \in Requests PROVE InQueue(t)' <=> InQueue(t) /\ t # Head(queue)
    <2>1. ASSUME NEW i \in 1..(n - 1) PROVE i + 1 \in 1..n /\ queue[i + 1] # queue[1]
      BY <1>1, <2>1 DEF IsInjective
    <2>2. ASSUME NEW i \in 1..n, i # 1 PROVE i - 1 \in 1..(n - 1) /\ queue'[i - 1] = queue[i]
      BY <1>1, <2>2
    <2>3. ASSUME InQueue(t)' PROVE InQueue(t) /\ t # Head(queue)
      <3>1. PICK i \in 1..(n - 1) : queue'[i] = t
        BY <1>1, <2>3 DEF InQueue, Range
      <3> QED BY <1>1, <2>1, <3>1 DEF InQueue, Range
    <2>4. ASSUME InQueue(t), t # Head(queue) PROVE InQueue(t)'
      <3>1. PICK i \in 1..n : queue[i] = t
        BY <1>1, <2>4 DEF InQueue, Range
      <3>2. i - 1 \in 1..(n - 1) /\ queue'[i - 1] = t
        BY <1>1, <2>2, <2>4, <3>1
      <3> QED BY <1>1, <3>2 DEF InQueue, Range
    <2> QED BY <2>3, <2>4
  <1>4. IsInjective(queue')
    <2> SUFFICES ASSUME NEW a \in 1..(n - 1), NEW b \in 1..(n - 1), queue'[a] = queue'[b]
                 PROVE  a = b
      BY <1>1 DEF IsInjective
    <2>1. a + 1 \in 1..n /\ b + 1 \in 1..n /\ queue[a + 1] = queue[b + 1]
      BY <1>1
    <2> QED BY <1>1, <2>1 DEF IsInjective
  <1> QED BY <1>2, <1>3, <1>4

\* A step that neither takes a token nor begins one.
Quiet ==
  /\ UNCHANGED <<queue, begun>>
  /\ \A w \in Workers, t \in Requests : Holds(w, t)' => Holds(w, t)
  /\ \A w \in Workers : workers'[w].pc \in {"popped", "fetched"} =>
       workers[w].pc \in {"popped", "fetched"} /\ Token(w)' = Token(w)

LEMMA TickQuiet ==
  ASSUME Types, NEW w \in Workers, Tick(w) \/ CompleteFails(w) \/ TickFails(w)
  PROVE  Quiet \/ Pop(w) \/ Begin(w)
  <1> USE DEF Quiet, Holds, Token
  <1>0. \A v \in Workers : v # w => workers'[v] = workers[v]
    BY TickEffect DEF TickLeaves
  <1>1. CASE /\ workers[w].pc \in {"popped", "processing"}
             /\ workers'[w].pc \in {"fetched", "failing"}
             /\ workers[w].pc = "processing" => workers'[w].pc = "failing"
             /\ Token(w)' = Token(w) /\ UNCHANGED <<queue, begun>>
    <2>1. workers[w] # Idle
      BY <1>1 DEF Idle
    <2> QED BY <1>0, <1>1, <2>1
  <1>2. CASE workers'[w] = Idle /\ UNCHANGED <<queue, begun>>
    <2>1. workers'[w].pc = "idle"
      BY <1>2 DEF Idle
    <2> QED BY <1>0, <1>2, <2>1
  <1>3. \/ Pop(w) \/ Begin(w)
        \/ workers'[w] = Idle /\ UNCHANGED <<queue, begun>>
        \/ /\ workers[w].pc \in {"popped", "processing"}
           /\ workers'[w].pc \in {"fetched", "failing"}
           /\ workers[w].pc = "processing" => workers'[w].pc = "failing"
           /\ Token(w)' = Token(w) /\ UNCHANGED <<queue, begun>>
    BY TickEffect DEF At
  <1> QED
    BY <1>1, <1>2, <1>3

LEMMA QuietSteps ==
  ASSUME Types, [Next]_vars
  PROVE  \/ Quiet
         \/ \E r \in Requests : Push(r)
         \/ \E w \in Workers : Pop(w) \/ Begin(w)
  <1> USE DEF redis, history
  <1>1. CASE UNCHANGED <<queue, begun, workers>>
    BY <1>1 DEF Quiet, Holds, Token
  <1>2. CASE Crash
    <2>1. \A w \in Workers : workers'[w] = Idle /\ workers'[w].pc = "idle"
      BY <1>2 DEF Crash, Idle
    <2> QED BY <1>2, <2>1 DEF Crash, Quiet, Holds
  <1>3. \/ \E w \in Workers : Tick(w) \/ CompleteFails(w) \/ TickFails(w)
        \/ \E r \in Requests : Push(r)
        \/ Crash \/ UNCHANGED <<queue, begun, workers>>
    BY DEF Next, vars, Handle, Count, SetExpiry, StoreStatus, StoreData, FailOpen,
           Poll, Locate, Refresh, Ask, StatusExpires, DataExpires, CounterExpires
  <1> QED
    BY <1>1, <1>2, <1>3, TickQuiet

LEMMA NextPlace == ASSUME Types, Place, [Next]_vars PROVE Place'
  <1>0. \A t \in Requests : handlers'[t] \in NotYetQueued => handlers[t] \in NotYetQueued
    BY HandlersChange
  <1>w. \A w \in Workers : /\ workers[w] # Idle => Token(w) \in Requests
                           /\ workers[w].pc # "idle" => workers[w] # Idle
    BY WorkerType
  <1>1. CASE Quiet
    BY <1>0, <1>1 DEF Quiet, Place, Unheld, RunOnce, InQueue
  <1>2. ASSUME NEW r \in Requests, Push(r) PROVE Place'
    <2>1. /\ handlers[r] = "over" /\ handlers'[r] = "pushed"
          /\ UNCHANGED <<workers, begun>>
      BY <1>2 DEF Push, Types, history
    <2>2. ~InQueue(r) /\ Unheld(r) /\ begun[r] = 0
      BY <2>1 DEF Place, NotYetQueued
    <2>3. /\ \A t \in Requests : InQueue(t)' <=> InQueue(t) \/ t = r
          /\ IsInjective(queue')
      BY <1>2, <2>2, PushRange DEF Place
    <2>4. \A w \in Workers, t \in Requests : Holds(w, t)' <=> Holds(w, t)
      BY <2>1 DEF Holds, Token
    <2> QED
      BY <1>0, <2>1, <2>2, <2>3, <2>4 DEF Place, Unheld, RunOnce, Token, NotYetQueued
  <1>3. ASSUME NEW w \in Workers, Pop(w) PROVE Place'
    <2> DEFINE h == Head(queue)
    <2>1. /\ h \in Requests /\ workers'[w] # Idle /\ Token(w)' = h
          /\ \A v \in Workers : v # w => workers'[v] = workers[v]
      BY <1>3, PopType
    <2>2. /\ InQueue(h) /\ IsInjective(queue')
          /\ \A t \in Requests : InQueue(t)' <=> InQueue(t) /\ t # h
      BY <1>3, PopRange DEF Place
    <2>3. UNCHANGED begun /\ workers[w] = Idle
      BY <1>3 DEF Pop, history
    <2> HIDE DEF h
    <2>4. \A t \in Requests : /\ Holds(w, t)' <=> t = h
                              /\ ~Holds(w, t)
      BY <2>1, <2>3 DEF Holds
    <2>5. \A v \in Workers, t \in Requests : v # w => (Holds(v, t)' <=> Holds(v, t))
      BY <2>1 DEF Holds, Token
    <2>6. Unheld(h) /\ begun[h] = 0
      BY <2>1, <2>2 DEF Place
    <2>7. ASSUME NEW t \in Requests
          PROVE  /\ handlers'[t] \in NotYetQueued =>
                      ~InQueue(t)' /\ Unheld(t)' /\ begun'[t] = 0
                 /\ InQueue(t)' => Unheld(t)' /\ begun'[t] = 0
      <3>1. t # h => (Unheld(t)' <=> Unheld(t))
        BY <2>4, <2>5 DEF Unheld
      <3> QED BY <1>0, <2>2, <2>3, <3>1 DEF Place
    <2>8. ASSUME NEW u \in Workers, NEW v \in Workers, NEW t \in Requests,
                 Holds(u, t)', Holds(v, t)'
          PROVE  u = v
      <3>1. CASE t = h
        BY <2>4, <2>5, <2>6, <2>8, <3>1 DEF Unheld
      <3>2. CASE t # h
        BY <2>4, <2>5, <2>8, <3>2 DEF Place
      <3> QED BY <3>1, <3>2
    <2>9. ASSUME NEW v \in Workers, workers'[v].pc \in {"popped", "fetched"}
          PROVE  begun'[Token(v)'] = 0
      BY <2>1, <2>3, <2>6, <2>9 DEF Place, Token
    <2> QED BY <2>2, <2>3, <2>7, <2>8, <2>9 DEF Place, RunOnce
  <1>4. ASSUME NEW w \in Workers, Begin(w) PROVE Place'
    <2> DEFINE k == Token(w)
    <2>1. At(w, "fetched") /\ UNCHANGED queue /\ begun' = [begun EXCEPT ![k] = @ + 1]
      BY <1>4 DEF Begin
    <2>2. workers[w] # Idle /\ k \in Requests /\ begun[k] = 0
      BY <1>w, <2>1 DEF At, Place
    <2>3. /\ workers'[w].pc = "processing" /\ workers'[w] # Idle
          /\ Token(w)' = k
          /\ \A v \in Workers : v # w => workers'[v] = workers[v]
      <3>1. workers[w] \in WorkerCtx
        BY <2>2, WorkerType
      <3> QED BY <1>4, <3>1, MoveType DEF Begin, Busy
    <2>4. begun'[k] = 1 /\ \A t \in Requests : t # k => begun'[t] = begun[t]
      BY <2>1, <2>2 DEF Types
    <2>5. Holds(w, k)
      BY <2>2 DEF Holds
    <2> HIDE DEF k
    <2>6. \A v \in Workers, t \in Requests : Holds(v, t)' <=> Holds(v, t)
      <3>1. \A t \in Requests : Holds(w, t)' <=> Holds(w, t)
        BY <2>2, <2>3 DEF Holds, k
      <3> QED BY <2>3, <3>1 DEF Holds, Token
    <2>7. \A t \in Requests : Unheld(t) => t # k
      BY <2>5 DEF Unheld
    <2>8. \A t \in Requests : Unheld(t)' <=> Unheld(t)
      BY <2>6 DEF Unheld
    <2>9. ASSUME NEW v \in Workers, workers'[v].pc \in {"popped", "fetched"}
          PROVE  begun'[Token(v)'] = 0
      <3>1. v # w /\ workers'[v] = workers[v]
        BY <2>3, <2>9
      <3>2. workers[v] # Idle /\ Token(v) \in Requests /\ Token(v)' = Token(v)
        BY <1>w, <2>9, <3>1 DEF Token, Idle
      <3>3. Token(v) # k
        BY <2>2, <2>5, <3>1, <3>2 DEF Place, Holds
      <3> QED BY <2>4, <2>9, <3>1, <3>2, <3>3 DEF Place
    <2>10. RunOnce'
      BY <2>4 DEF Place, RunOnce
    <2> QED BY <1>0, <2>1, <2>4, <2>6, <2>7, <2>8, <2>9, <2>10 DEF Place, InQueue
  <1> QED
    BY <1>1, <1>2, <1>3, <1>4, QuietSteps

(***************************************************************************)
(* What becomes of a request that was answered 202.  Its token leaves the  *)
(* list and the workers with a result, or with a mishap; and a worker goes *)
(* beyond its data only when the handler has answered, so that no handler  *)
(* writes WAITING after the result.                                        *)
(***************************************************************************)
Stored ==
  /\ \A t \in data : Answered(t)
  /\ \A w \in Workers : workers[w].pc \in {"fetched", "processing", "failing"} =>
       Answered(Token(w))
  /\ \A t \in Requests : handlers[t] \in {"pushed", "stored"} /\ t \notin mishaps =>
       InQueue(t) \/ ~Unheld(t)
  /\ AcceptedIsServed

LEMMA InitStored == ASSUME Init PROVE Stored
  BY DEF Init, Stored, AcceptedIsServed, Idle

Lodged(t) == InQueue(t) \/ ~Unheld(t)

Over(t) == status[t] \in {"COMPLETED", "FAILED", "none"}

LEMMA DataChange ==
  ASSUME Types, \A t \in data : Answered(t), [Next]_vars
  PROVE  \A t \in data' : Answered(t)'
  <1> SUFFICES ASSUME NEW t \in data' PROVE Answered(t)'
    OBVIOUS
  <1>0. t \in Requests
    BY NextTypes DEF Types
  <1>1. CASE t \in data
    BY <1>0, <1>1, HandlersChange DEF Answered
  <1>2. CASE t \notin data
    <2>1. StoreData(t) \/ FailOpen(t)
      BY <1>2, TickEffect
      DEF Next, vars, redis, history, TickLeaves, Handle, Count, SetExpiry, Push,
          StoreStatus, StoreData, FailOpen, Poll, Locate, Refresh, Ask,
          StatusExpires, DataExpires, CounterExpires, Crash
    <2> QED BY <1>0, <2>1 DEF StoreData, FailOpen, Types, Answered
  <1> QED BY <1>1, <1>2

LEMMA FetchedChange ==
  ASSUME Types, Stored, [Next]_vars, NEW w \in Workers,
         workers'[w].pc \in {"fetched", "processing", "failing"}
  PROVE  Answered(Token(w))'
  <1>1. Token(w)' = Token(w) /\ Token(w) \in Requests /\ Answered(Token(w))
    <2>1. CASE UNCHANGED workers[w]
      <3>1. workers[w] # Idle
        BY <2>1 DEF Idle
      <3> QED BY <2>1, <3>1, WorkerType DEF Stored, Token
    <2>2. CASE Tick(w) \/ CompleteFails(w) \/ TickFails(w)
      <3>1. ~Pop(w) /\ workers'[w] # Idle
        BY PopType DEF Idle
      <3>2. \/ Token(w) \in data /\ At(w, "popped") /\ Token(w)' = Token(w)
            \/ workers[w].pc \in {"fetched", "processing"} /\ Token(w)' = Token(w)
        BY <2>2, <3>1, TickEffect DEF At, Begin
      <3>3. workers[w] # Idle
        BY <3>2 DEF At, Idle
      <3> QED BY <3>2, <3>3, WorkerType DEF Stored
    <2>3. CASE Crash
      BY <2>3 DEF Crash, Idle
    <2>4. \/ UNCHANGED workers[w] \/ Crash
          \/ Tick(w) \/ CompleteFails(w) \/ TickFails(w)
      BY TickEffect
      DEF Next, vars, redis, history, TickLeaves, Handle, Count, SetExpiry, Push,
          StoreStatus, StoreData, FailOpen, Poll, Locate, Refresh, Ask,
          StatusExpires, DataExpires, CounterExpires
    <2> QED BY <2>1, <2>2, <2>3, <2>4
  <1> QED BY <1>1, HandlersChange DEF Answered

\* A step of one worker, seen from a token.
LEMMA TickLodging ==
  ASSUME Types, Place, Stored, NEW w \in Workers,
         Tick(w) \/ CompleteFails(w) \/ TickFails(w), NEW t \in Requests
  PROVE  /\ mishaps \subseteq mishaps'
         /\ Lodged(t) =>
              \/ Lodged(t)' \/ t \in mishaps'
              \/ Answered(t) /\ Over(t)'
         /\ ~Lodged(t) => UNCHANGED status[t]
  <1>0. \A v \in Workers : v # w => workers'[v] = workers[v]
    BY TickEffect DEF TickLeaves
  <1>h. \A v \in Workers : v # w => (Holds(v, t)' <=> Holds(v, t))
    BY <1>0 DEF Holds, Token
  <1>w. /\ workers[w] # Idle => Token(w) \in Requests
        /\ workers[w].pc # "idle" => workers[w] # Idle
    BY WorkerType
  <1>1. CASE Pop(w)
    <2>1. /\ \A s \in Requests : InQueue(s)' <=> InQueue(s) /\ s # Head(queue)
          /\ workers'[w] # Idle /\ Token(w)' = Head(queue)
      BY <1>1, PopType, PopRange DEF Place
    <2>2. workers[w] = Idle /\ UNCHANGED <<status, mishaps>>
      BY <1>1 DEF Pop, history
    <2>3. Lodged(t) => Lodged(t)'
      BY <1>h, <2>1, <2>2 DEF Lodged, Unheld, Holds
    <2> QED BY <2>2, <2>3
  <1>2. CASE /\ workers[w] # Idle /\ workers'[w] # Idle
             /\ Token(w)' = Token(w) /\ UNCHANGED <<queue, mishaps>>
             /\ t # Token(w) => UNCHANGED status[t]
    <2>1. Holds(w, t)' <=> Holds(w, t)
      BY <1>2 DEF Holds
    <2>2. Lodged(t)' <=> Lodged(t)
      BY <1>2, <1>h, <2>1 DEF Lodged, Unheld, InQueue
    <2>3. t = Token(w) => Lodged(t)
      BY <1>2 DEF Lodged, Unheld, Holds
    <2> QED BY <1>2, <2>2, <2>3
  <1>3. CASE /\ workers[w] # Idle /\ UNCHANGED <<queue>>
             /\ mishaps \subseteq mishaps'
             /\ t # Token(w) => UNCHANGED status[t]
             /\ \/ Token(w) \in mishaps'
                \/ /\ workers[w].pc \in {"processing", "failing"}
                   /\ t = Token(w) => Over(t)'
    <2>1. CASE t # Token(w)
      <3>1. ~Holds(w, t)
        BY <2>1 DEF Holds
      <3>2. Lodged(t) => Lodged(t)'
        BY <1>3, <1>h, <3>1 DEF Lodged, Unheld, InQueue
      <3> QED BY <1>3, <2>1, <3>2
    <2>2. CASE t = Token(w)
      <3>1. Lodged(t)
        BY <1>3, <2>2 DEF Lodged, Unheld, Holds
      <3>2. workers[w].pc \in {"processing", "failing"} => Answered(t)
        BY <2>2 DEF Stored
      <3> QED BY <1>3, <2>2, <3>1, <3>2
    <2> QED BY <2>1, <2>2
  <1>4. \/ Pop(w)
        \/ /\ workers[w] # Idle /\ workers'[w] # Idle
           /\ Token(w)' = Token(w) /\ UNCHANGED <<queue, mishaps>>
           /\ t # Token(w) => UNCHANGED status[t]
        \/ /\ workers[w] # Idle /\ UNCHANGED <<queue>>
           /\ mishaps \subseteq mishaps'
           /\ t # Token(w) => UNCHANGED status[t]
           /\ \/ Token(w) \in mishaps'
              \/ /\ workers[w].pc \in {"processing", "failing"}
                 /\ t = Token(w) => Over(t)'
    <2>1. At(w, "popped") \/ At(w, "fetched") \/ At(w, "processing") => workers[w] # Idle
      BY <1>w DEF At
    <2>2. workers'[w].pc \in Busy => workers'[w] # Idle
      BY DEF Busy, Idle
    <2>3. Begin(w) => /\ At(w, "fetched") /\ UNCHANGED <<queue, mishaps>>
                      /\ t # Token(w) => UNCHANGED status[t]
      BY DEF Begin, Types
    <2>4. \A s \in Statuses : status' = [status EXCEPT ![Token(w)] = s] =>
            (IF t = Token(w) THEN status'[t] = s ELSE UNCHANGED status[t])
      BY DEF Types
    <2> QED BY <2>1, <2>2, <2>3, <2>4, TickEffect DEF Busy, Over, Statuses
  <1> QED BY <1>1, <1>2, <1>3, <1>4

\* The same of every other step.
LEMMA OtherLodging ==
  ASSUME Types, [Next]_vars, NEW t \in Requests,
         ~ \E w \in Workers : Tick(w) \/ CompleteFails(w) \/ TickFails(w)
  PROVE  /\ mishaps \subseteq mishaps'
         /\ Lodged(t) => Lodged(t)' \/ t \in mishaps'
         /\ Push(t) => Lodged(t)'
         /\ \/ UNCHANGED status[t]
            \/ status'[t] = "none"
            \/ handlers'[t] = "stored"
            \/ t \in mishaps'
  <1> USE DEF redis, history
  <1>1. CASE UNCHANGED <<queue, workers, status, mishaps>> /\ ~Push(t)
    BY <1>1 DEF Lodged, Unheld, Holds, Token, InQueue
  <1>2. ASSUME NEW r \in Requests, Push(r)
        PROVE  /\ UNCHANGED <<workers, status, mishaps>>
               /\ Lodged(t) => Lodged(t)'
               /\ t = r => Lodged(t)'
    <2>1. UNCHANGED <<workers, status, mishaps>>
      BY <1>2 DEF Push
    <2>2. InQueue(t)' <=> InQueue(t) \/ t = r
      BY <1>2, PushRange
    <2> QED BY <2>1, <2>2 DEF Lodged, Unheld, Holds, Token
  <1>3. ASSUME NEW r \in Requests, StoreStatus(r)
        PROVE  /\ UNCHANGED <<queue, workers, mishaps>> /\ ~Push(t)
               /\ UNCHANGED status[t] \/ handlers'[t] = "stored"
    <2>1. /\ UNCHANGED <<queue, workers, mishaps>>
          /\ UNCHANGED status[t] \/ handlers'[t] = "stored"
      BY <1>3 DEF StoreStatus, Types
    <2>2. ~Push(t)
      BY <1>3, PushRange DEF StoreStatus, Push, Types
    <2> QED BY <2>1, <2>2
  <1>4. ASSUME NEW p \in Polls, Refresh(p)
        PROVE  /\ UNCHANGED <<queue, workers, handlers>> /\ mishaps \subseteq mishaps'
               /\ UNCHANGED status[t] \/ t \in mishaps'
    <2>1. polls[p].token \in mishaps' \/ status[polls[p].token] = "WAITING"
      BY <1>4 DEF Refresh, Mishap
    <2>2. /\ UNCHANGED <<queue, workers, handlers>> /\ mishaps \subseteq mishaps'
          /\ status' = [status EXCEPT ![polls[p].token] = "WAITING"]
      BY <1>4 DEF Refresh, Mishap
    <2> QED BY <2>1, <2>2 DEF Types
  <1>5. ASSUME NEW s \in Requests, StatusExpires(s)
        PROVE  /\ UNCHANGED <<queue, workers, handlers, mishaps>>
               /\ UNCHANGED status[t] \/ status'[t] = "none"
    BY <1>5 DEF StatusExpires, Types
  <1>6. CASE Crash
    <2>1. /\ UNCHANGED <<queue, status, handlers[t]>> \/ handlers'[t] = "lost"
          /\ UNCHANGED <<queue, status>> /\ mishaps \subseteq mishaps'
          /\ ~Unheld(t) => t \in mishaps'
      BY <1>6 DEF Crash, Mishap, Unheld, Types
    <2>2. ~Push(t)
      BY <1>6 DEF Crash, Push, Fault, Types
    <2> QED BY <2>1, <2>2 DEF Lodged, InQueue
  <1>7. \/ UNCHANGED <<queue, workers, status, mishaps>>
        \/ \E r \in Requests : Push(r) \/ StoreStatus(r) \/ StatusExpires(r)
        \/ \E p \in Polls : Refresh(p)
        \/ Crash
    BY DEF Next, vars, Handle, Count, SetExpiry, StoreData, FailOpen, Poll,
           Locate, Ask, DataExpires, CounterExpires
  <1>8. UNCHANGED handlers => ~Push(t)
    BY DEF Push, Types
  <1>9. UNCHANGED <<queue, workers>> => (Lodged(t)' <=> Lodged(t))
    BY DEF Lodged, Unheld, Holds, Token, InQueue
  <1>10. Push(t) => Lodged(t)'
    BY PushRange DEF Lodged
  <1> QED BY <1>2, <1>3, <1>4, <1>5, <1>6, <1>7, <1>9, <1>10

LEMMA Lodging ==
  ASSUME Types, Place, Stored, [Next]_vars, NEW t \in Requests
  PROVE  /\ mishaps \subseteq mishaps'
         /\ Lodged(t) => \/ Lodged(t)' \/ t \in mishaps'
                         \/ Answered(t) /\ Over(t)'
         /\ Push(t) => Lodged(t)'
         /\ ~Lodged(t) => \/ UNCHANGED status[t]
                          \/ status'[t] = "none"
                          \/ handlers'[t] = "stored"
                          \/ t \in mishaps'
  <1>1. ASSUME NEW w \in Workers, Tick(w) \/ CompleteFails(w) \/ TickFails(w)
        PROVE  ~Push(t)
    <2>1. UNCHANGED handlers
      BY <1>1, TickEffect DEF TickLeaves
    <2> QED BY <2>1 DEF Push, Types
  <1> QED BY <1>1, TickLodging, OtherLodging

LEMMA NextStored == ASSUME Types, Place, Stored, [Next]_vars PROVE Stored'
  <1>1. \A t \in data' : Answered(t)'
    BY DataChange DEF Stored
  <1>2. \A w \in Workers : workers'[w].pc \in {"fetched", "processing", "failing"} =>
          Answered(Token(w))'
    BY FetchedChange
  <1>3. ASSUME NEW t \in Requests, handlers'[t] \in {"pushed", "stored"}, t \notin mishaps'
        PROVE  Lodged(t)'
    <2>1. ~Answered(t)
      BY <1>3, HandlersChange DEF Answered
    <2>2. handlers[t] \in {"pushed", "stored"} \/ Push(t)
      BY <1>3, HandlersChange
    <2>3. t \notin mishaps
      BY <1>3, Lodging
    <2> QED BY <1>3, <2>1, <2>2, <2>3, Lodging DEF Stored, Lodged
  <1>4. ASSUME NEW t \in Requests, handlers'[t] = "queued", t \notin mishaps', ~Lodged(t)'
        PROVE  Over(t)'
    <2>1. handlers[t] \in {"stored", "queued"} /\ t \notin mishaps
      BY <1>4, HandlersChange, Lodging
    <2>2. CASE Lodged(t)
      BY <1>4, <2>2, Lodging
    <2>3. CASE ~Lodged(t)
      <3>1. handlers[t] = "queued"
        BY <2>1, <2>3 DEF Stored, Lodged
      <3>2. Over(t)
        BY <2>1, <2>3, <3>1 DEF Stored, AcceptedIsServed, Lodged, Unheld, Over
      <3> QED BY <1>4, <2>3, <3>2, Lodging DEF Over
    <2> QED BY <2>2, <2>3
  <1>5. AcceptedIsServed'
    BY <1>4 DEF AcceptedIsServed, Lodged, Unheld, Over
  <1> QED BY <1>1, <1>2, <1>3, <1>5 DEF Stored, Lodged

-----------------------------------------------------------------------------
Inv == Types /\ Window /\ Place /\ Stored

LEMMA Invariance == Spec => []Inv
  <1>1. Init => Inv
    BY InitTypes, InitWindow, InitPlace, InitStored DEF Inv
  <1>2. Inv /\ [Next]_vars => Inv'
    BY NextTypes, NextWindow, NextPlace, NextStored DEF Inv
  <1> QED
    BY <1>1, <1>2, PTL DEF Spec

\* Every state has the types declared for it: a counter without requests has
\* no expiry, and no token is in the list twice.
THEOREM Typing == Spec => []TypeOK
  <1>1. Inv => TypeOK
    BY DEF Inv, Types, Window, Place, TypeOK
  <1> QED
    BY <1>1, Invariance, PTL

\* Whatever overlaps, fails or dies, no queued request is processed twice.
THEOREM NothingRunsTwice == Spec => []RunOnce
  <1>1. Inv => RunOnce
    BY DEF Inv, Place
  <1> QED
    BY <1>1, Invariance, PTL

\* In one window the count lets at most MaxRequests requests through.
THEOREM WindowIsLimited == Spec => []WindowLimit
  <1>1. Inv => WindowLimit
    BY RequestQueueAssumption DEF Inv, Types, Window, WindowLimit
  <1> QED
    BY <1>1, Invariance, PTL

\* Without a fault every counter expires or has a request about to make it.
THEOREM WindowsEnd == Spec => []WindowEnds
  <1>1. Inv => WindowEnds
    BY DEF Inv, Window
  <1> QED
    BY <1>1, Invariance, PTL

\* A request answered 202 is waiting, at work or has its result, unless one
\* of the named mishaps befell it.
THEOREM AcceptedAreServed == Spec => []AcceptedIsServed
  <1>1. Inv => AcceptedIsServed
    BY DEF Inv, Stored
  <1> QED
    BY <1>1, Invariance, PTL
=============================================================================
