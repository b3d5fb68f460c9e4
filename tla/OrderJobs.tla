----------------------------- MODULE OrderJobs -----------------------------
(***************************************************************************)
(* What happens to an order after SCreateOrder has handed it to the queue: *)
(* the processing job fans out into mails, an activity log entry and a     *)
(* notification, each a job of its own (jobs/queue.manager.ts,             *)
(* jobs/processors/job.processors.ts, services/idempotency.service.ts,     *)
(* configs/bullmq.config.ts).                                              *)
(*                                                                         *)
(* BullMQ is external.  It is modelled from how the code uses it: a job id *)
(* that is already stored adds nothing, a worker holds a lock on the job   *)
(* it runs, a handler that throws is run again until its attempts are used *)
(* up, and a job whose lock is lost or whose process died is stalled: it   *)
(* goes back to the queue, while a handler that lost only its lock runs    *)
(* on.  The back-off delay is part of waiting.                             *)
(***************************************************************************)
EXTENDS Naturals, Sequences, FiniteSets, Functions

CONSTANTS
  Orders,       \* orders handed to the queue
  Steps,        \* the children of the processing job, in the code's order:
                \* <<"confirmation", "invoice", "activity", "notification">>
  Stamped,      \* the children whose key carries Date.now(): {"activity"}
  Slots,        \* handlers that may run at once, over all workers
  Serves,       \* Serves[s]: the kinds of job that slot s runs
  MaxAttempts,  \* defaultJobOptions.attempts
  MaxStalls,    \* how often BullMQ lets a job stall before it fails it
  MaxRetries,   \* bound: how often administrators retry failed jobs
  MaxFaults     \* bound: calls that throw, crashes, lost locks, expired marks
                \* and failed reads

Leaves == Range(Steps)
Kinds == Leaves \cup {"process"}

ASSUME OrderJobsAssumption ==
  /\ Steps \in Seq(Leaves) \ {<<>>}
  /\ IsFiniteSet(Slots)
  /\ Stamped \subseteq Leaves /\ "process" \notin Leaves
  /\ Serves \in [Slots -> SUBSET Kinds]
  /\ {MaxAttempts, MaxStalls, MaxRetries, MaxFaults} \subseteq Nat
  /\ MaxAttempts > 0

VARIABLES
  submitted,  \* orders whose processing job was accepted
  jobs,       \* what BullMQ stores: job id -> [state, attempts, stalls]
  marks,      \* keys marked as processed in Redis
  slots,      \* what each handler slot is doing
  drawn,      \* how many stamped keys an order's handlers have made
  sent,       \* history: effects (mails, log rows, ...) per order and leaf
  lapses,     \* history: what can make an effect happen again
  retries, faults

history == <<sent, lapses>>
vars == <<submitted, jobs, marks, slots, drawn, history, retries, faults>>

\* A job's id is its idempotency key.  The stamp of an unstamped key is 0.
Job(o, k, n) == [order |-> o, kind |-> k, stamp |-> n]
Jobs == [order : Orders, kind : Kinds, stamp : Nat]

Entry == [state : {"waiting", "active", "completed", "failed"},
          attempts : Nat, stalls : Nat]
Fresh == [state |-> "waiting", attempts |-> 0, stalls |-> 0]

\* lock: the slot still holds the lock of its job.  step: the next child of
\* the processing job.
Free == [pc |-> "free"]
Busy == [pc : {"check", "steps", "send", "mark", "finish"}, job : Jobs,
         lock : BOOLEAN, step : 1..(Len(Steps) + 1)]

\* The types of the variables; the processing job never looks for a child
\* beyond the last one.
TypeOK ==
  /\ submitted \subseteq Orders
  /\ DOMAIN jobs \subseteq Jobs /\ Range(jobs) \subseteq Entry
  /\ marks \subseteq Jobs
  /\ \A s \in Slots :
       \/ slots[s] = Free
       \/ slots[s] \in Busy /\ (slots[s].pc = "steps" => slots[s].step <= Len(Steps))
  /\ drawn \in [Orders -> Nat]
  /\ sent \in [Orders \X Leaves -> Nat]
  /\ lapses \in [Orders \X Leaves -> Nat]
  /\ retries \in 0..MaxRetries /\ faults \in 0..MaxFaults

Init ==
  /\ submitted = {}
  /\ jobs = [j \in {} |-> Fresh]
  /\ marks = {}
  /\ slots = [s \in Slots |-> Free]
  /\ drawn = [o \in Orders |-> 0]
  /\ sent = [l \in Orders \X Leaves |-> 0]
  /\ lapses = [l \in Orders \X Leaves |-> 0]
  /\ retries = 0 /\ faults = 0

-----------------------------------------------------------------------------
(* The queue.                                                              *)

Stored(j) == j \in DOMAIN jobs
State(j) == IF Stored(j) THEN jobs[j].state ELSE "none"

\* isProcessed, as an add...Job method hears it: a key that is marked may
\* still be reported unmarked, because Redis failed the call or because the
\* mark came between the call and the add.
Answers(j) == IF j \in marks THEN BOOLEAN ELSE {FALSE}

\* The add...Job methods: a key reported as marked is not added, and BullMQ
\* ignores an id it still stores, whatever became of that job.
Added(j, processed) ==
  IF processed \/ Stored(j) THEN jobs
  ELSE [i \in DOMAIN jobs \cup {j} |-> IF i = j THEN Fresh ELSE jobs[i]]

\* SCreateOrder adds the processing job, once per order.
Submit(o) ==
  /\ o \notin submitted
  /\ submitted' = submitted \cup {o}
  /\ \E known \in Answers(Job(o, "process", 0)) :
       jobs' = Added(Job(o, "process", 0), known)
  /\ UNCHANGED <<marks, slots, drawn, history, retries, faults>>

\* A worker with a free slot takes a waiting job of its queue.
Take(s, j) ==
  /\ slots[s] = Free
  /\ State(j) = "waiting"
  /\ j.kind \in Serves[s]
  /\ jobs' = [jobs EXCEPT ![j].state = "active"]
  /\ slots' = [slots EXCEPT ![s] =
       [pc |-> "check", job |-> j, lock |-> TRUE, step |-> 1]]
  /\ UNCHANGED <<submitted, marks, drawn, history, retries, faults>>

Running(s) == slots[s] # Free
JobOf(s) == slots[s].job

\* The lock of an active job was not renewed: it waits again, or fails when
\* it has stalled too often.
Stalled(e) ==
  [e EXCEPT !.stalls = @ + 1,
            !.state = IF e.stalls < MaxStalls THEN "waiting" ELSE "failed"]

Orphan(j) ==
  /\ State(j) = "active"
  /\ \A s \in Slots : Running(s) => ~(JobOf(s) = j /\ slots[s].lock)

\* The stalled-job check of a worker finds a job nobody holds.
Recover(j) ==
  /\ Orphan(j)
  /\ jobs' = [jobs EXCEPT ![j] = Stalled(@)]
  /\ UNCHANGED <<submitted, marks, slots, drawn, history, retries, faults>>

\* An entry that is completed is removed after a day, beyond a thousand
\* others, or by cleanCompleted.
Forget(j) ==
  /\ State(j) = "completed"
  /\ jobs' = [i \in DOMAIN jobs \ {j} |-> jobs[i]]
  /\ UNCHANGED <<submitted, marks, slots, drawn, history, retries, faults>>

\* retryJob, by an administrator: the attempts already made still count.
RetryJob(j) ==
  /\ State(j) = "failed"
  /\ retries < MaxRetries
  /\ retries' = retries + 1
  /\ jobs' = [jobs EXCEPT ![j].state = "waiting"]
  /\ UNCHANGED <<submitted, marks, slots, drawn, history, faults>>

-----------------------------------------------------------------------------
(* The handlers.                                                           *)

\* A repetition of l's effect has become possible.
Lapse(l) == lapses' = [lapses EXCEPT ![l] = @ + 1]
LapseOf(j) ==
  IF j.kind = "process" THEN UNCHANGED lapses ELSE Lapse(<<j.order, j.kind>>)

Fault == faults < MaxFaults /\ faults' = faults + 1

\* Every handler first asks whether its key is marked.
AfterCheck(j) == IF j.kind = "process" THEN "steps" ELSE "send"

\* Mutant: the handler does not ask.
CheckNothing(s) ==
  /\ slots[s].pc = "check"
  /\ slots' = [slots EXCEPT ![s].pc = AfterCheck(JobOf(s))]
  /\ UNCHANGED <<submitted, jobs, marks, drawn, history, retries, faults>>

Check(s) ==
  /\ slots[s].pc = "check"
  /\ slots' = [slots EXCEPT ![s].pc =
       IF JobOf(s) \in marks THEN "finish" ELSE AfterCheck(JobOf(s))]
  /\ UNCHANGED <<submitted, jobs, marks, drawn, history, retries, faults>>

\* isProcessed answers false when Redis fails it.
CheckUnanswered(s) ==
  /\ slots[s].pc = "check"
  /\ JobOf(s) \in marks
  /\ Fault
  /\ slots' = [slots EXCEPT ![s].pc = AfterCheck(JobOf(s))]
  /\ LapseOf(JobOf(s))
  /\ UNCHANGED <<submitted, jobs, marks, drawn, sent, retries>>

\* The key of order o's child k.  A stamped key is new each time (two draws
\* in the same millisecond aside).
Stamp(o, k) == IF k \in Stamped THEN drawn[o] + 1 ELSE 0

\* Mutant: one step too many.
AfterStepBeyond(n) == IF n > Len(Steps) THEN "mark" ELSE "steps"

AfterStep(n) == IF n = Len(Steps) THEN "mark" ELSE "steps"

\* The processing job adds its next child.
AddChild(s) ==
  LET o == JobOf(s).order
      k == Steps[slots[s].step]
      j == Job(o, k, Stamp(o, k))
  IN
  /\ slots[s].pc = "steps"
  /\ \E known \in Answers(j) : jobs' = Added(j, known)
  /\ drawn' = IF k \in Stamped THEN [drawn EXCEPT ![o] = @ + 1] ELSE drawn
  /\ slots' = [slots EXCEPT ![s].step = @ + 1,
                            ![s].pc = AfterStep(slots[s].step)]
  /\ UNCHANGED <<submitted, marks, history, retries, faults>>

\* A leaf has its effect: the mail is sent, the row is written.
Effect(job) == [sent EXCEPT ![<<job.order, job.kind>>] = @ + 1]

Send(s) ==
  /\ slots[s].pc = "send"
  /\ sent' = Effect(JobOf(s))
  /\ slots' = [slots EXCEPT ![s].pc = "mark"]
  /\ UNCHANGED <<submitted, jobs, marks, drawn, lapses, retries, faults>>

\* markAsProcessed.
Mark(s) ==
  /\ slots[s].pc = "mark"
  /\ marks' = marks \cup {JobOf(s)}
  /\ slots' = [slots EXCEPT ![s].pc = "finish"]
  /\ UNCHANGED <<submitted, jobs, drawn, history, retries, faults>>

\* A completed entry is never run again: how often it was tried is dropped.
Completed == [Fresh EXCEPT !.state = "completed"]

\* The handler returns.  Without the lock BullMQ refuses to complete the job.
Finish(s) ==
  /\ slots[s].pc = "finish"
  /\ jobs' = IF slots[s].lock THEN [jobs EXCEPT ![JobOf(s)] = Completed] ELSE jobs
  /\ slots' = [slots EXCEPT ![s] = Free]
  /\ UNCHANGED <<submitted, marks, drawn, history, retries, faults>>

\* An attempt has failed: the job waits for the next one or is dead.
Failed(e) ==
  [e EXCEPT !.attempts = @ + 1,
            !.state = IF e.attempts + 1 < MaxAttempts THEN "waiting"
                      ELSE "failed"]

\* Mutant: removeOnFail, so that a dead job disappears.
AfterFailureRemoved(j) ==
  IF Failed(jobs[j]).state = "failed"
    THEN [i \in DOMAIN jobs \ {j} |-> jobs[i]]
    ELSE [jobs EXCEPT ![j] = Failed(@)]

\* removeOnFail is false: a dead job stays for inspection.
AfterFailure(j) == [jobs EXCEPT ![j] = Failed(@)]

\* Mutant: the error of the effect is logged and the handler goes on.
ThrowSwallowed(s) ==
  /\ slots[s].pc = "send"
  /\ Fault
  /\ slots' = [slots EXCEPT ![s].pc = "mark"]
  /\ UNCHANGED <<submitted, jobs, marks, drawn, history, retries>>

\* A call of the handler throws: an add, the effect, or the mark.  (An effect
\* that happened but was reported as failed is a throw of the mark.)
Throw(s) ==
  /\ slots[s].pc \in {"steps", "send", "mark"}
  /\ Fault
  /\ jobs' = IF slots[s].lock THEN AfterFailure(JobOf(s)) ELSE jobs
  /\ IF slots[s].pc = "mark" THEN LapseOf(JobOf(s)) ELSE UNCHANGED lapses
  /\ slots' = [slots EXCEPT ![s] = Free]
  /\ UNCHANGED <<submitted, marks, drawn, sent, retries>>

\* The lock runs out under a handler that is still running.
LoseLock(s) ==
  /\ Running(s)
  /\ slots[s].lock
  /\ Fault
  /\ slots' = [slots EXCEPT ![s].lock = FALSE]
  /\ LapseOf(JobOf(s))
  /\ UNCHANGED <<submitted, jobs, marks, drawn, sent, retries>>

\* The process dies with every handler in it.
Unmarked(l) == Cardinality({s \in Slots : Running(s) /\ slots[s].pc = "mark" /\
                              <<JobOf(s).order, JobOf(s).kind>> = l})

Crash ==
  /\ \E s \in Slots : Running(s)
  /\ Fault
  /\ slots' = [s \in Slots |-> Free]
  /\ lapses' = [l \in DOMAIN lapses |-> lapses[l] + Unmarked(l)]
  /\ UNCHANGED <<submitted, jobs, marks, drawn, sent, retries>>

\* A mark expires a day after it was set.
Expire(j) ==
  /\ j \in marks
  /\ Fault
  /\ marks' = marks \ {j}
  /\ LapseOf(j)
  /\ UNCHANGED <<submitted, jobs, slots, drawn, sent, retries>>

-----------------------------------------------------------------------------
Work(s) ==
  Check(s) \/ CheckUnanswered(s) \/ AddChild(s) \/ Send(s) \/ Mark(s)
    \/ Finish(s) \/ Throw(s)

Next ==
  \/ \E o \in Orders : Submit(o)
  \/ \E s \in Slots : Work(s) \/ LoseLock(s)
  \/ \E s \in Slots, j \in DOMAIN jobs : Take(s, j)
  \/ \E j \in DOMAIN jobs : Recover(j) \/ Forget(j) \/ RetryJob(j)
  \/ \E j \in marks : Expire(j)
  \/ Crash

Spec == Init /\ [][Next]_vars

\* A handler's calls settle.  A free slot takes some waiting job of its
\* queues in the end, and the stalled-job check runs: the workers are up, or
\* are started again.
FairSpec ==
  /\ Spec
  /\ \A s \in Slots : WF_vars(Work(s))
  /\ \A k \in Kinds : SF_vars(\E s \in Slots, j \in DOMAIN jobs :
                                j.kind = k /\ Take(s, j))
  /\ WF_vars(\E j \in DOMAIN jobs : Recover(j))
-----------------------------------------------------------------------------
(* Properties.                                                             *)

\* The leaf jobs of order o and kind k that may exist: one per key made.
KeysMade(o, k) == IF k \in Stamped THEN drawn[o] ELSE 1

\* An effect is repeated only for a reason: beyond one effect for each key,
\* every mail, log row or notification of an order is paid for by a handler
\* that was lost (with its lock, its mark or its process) around it, a mark
\* that had expired or a check that Redis did not answer.
RepeatsExplained ==
  \A o \in Orders, k \in Leaves :
    sent[<<o, k>>] <= KeysMade(o, k) + lapses[<<o, k>>]

\* A child of the order's processing job has been handed over: it is stored
\* by the queue, or its effect has happened.
HandedOver(o, k) ==
  \/ sent[<<o, k>>] > 0
  \/ \E j \in DOMAIN jobs : j.order = o /\ j.kind = k

\* A processing job is marked, or completed, only when every child has been
\* handed over; a leaf only when its effect has happened.  A mark never
\* stands for work that is still to be done.
MarkedIsDone ==
  \A j \in marks \cup {i \in DOMAIN jobs : jobs[i].state = "completed"} :
    IF j.kind = "process" THEN \A k \in Leaves : HandedOver(j.order, k)
    ELSE sent[<<j.order, j.kind>>] > 0

\* Every order handed to the queue comes to an end an administrator can see:
\* all its mails, log rows and notifications happen, or one of its jobs is
\* among the failed ones.
OrderServed ==
  \A o \in Orders :
    (o \in submitted) ~>
      \/ \A k \in Leaves : sent[<<o, k>>] > 0
      \/ \E j \in DOMAIN jobs : j.order = o /\ jobs[j].state = "failed"
=============================================================================
