----------------------------- MODULE Lifecycle -----------------------------
(***************************************************************************)
(* Start and shutdown of a backend process (app.ts, startAllProcessors and *)
(* stopAllProcessors of jobs/processors/job.processors.ts, initialize and  *)
(* shutdown of jobs/queue.manager.ts).                                     *)
(*                                                                         *)
(* gracefulShutdown is entered by every signal and by every error that     *)
(* nothing has caught: several runs of it may be under way at once.  What  *)
(* the jobs do is OrderJobs'; here a processing job adds one job to every  *)
(* other queue and needs these queues for it.  A stop at any point of a    *)
(* handler is the Crash of the other modules.                              *)
(***************************************************************************)
EXTENDS Naturals, FiniteSets, Sequences, SequencesExt

CONSTANTS
  QueueNames,  \* the queues, in the order they are created and closed in:
               \* <<"email", "activity", "notification", "process">>
  Stops,       \* runs of gracefulShutdown in one life of the process
  MaxJobs,     \* bound: jobs counted in a queue; more are as good as MaxJobs
  MaxStarts    \* bound: starts of the process

Queues == ToSet(QueueNames)

ASSUME LifecycleAssumption ==
  /\ "process" \in Queues /\ IsInjective(QueueNames)
  /\ {MaxJobs, MaxStarts} \subseteq Nat

VARIABLES
  up,       \* the process runs
  workers,  \* the worker of each queue
  busy,     \* its handler is running a job
  closed,   \* the queues that have been closed
  stops,    \* how far each run of gracefulShutdown is
  waiting,  \* jobs that wait in Redis
  starts,
  cut       \* history: exit codes of processes that cut a handler off

lifecycleVars == <<up, workers, busy, closed, stops, waiting, starts, cut>>

\* pc "idle": not entered.  "workers": awaits stopAllProcessors.  "queues":
\* awaits QueueManager.shutdown, which has closed the first n queues.
Idle == [pc |-> "idle", n |-> 0]

Started ==
  /\ workers' = [q \in Queues |-> "on"]
  /\ closed' = {}
  /\ stops' = [s \in Stops |-> Idle]

LifecycleInit ==
  /\ up = TRUE
  /\ workers = [q \in Queues |-> "on"]
  /\ busy = [q \in Queues |-> FALSE]
  /\ closed = {}
  /\ stops = [s \in Stops |-> Idle]
  /\ waiting = [q \in Queues |-> 0]
  /\ starts = 1
  /\ cut = {}

\* initializeServices, without an await that lets a signal in: the queues are
\* there before the first worker.
Start ==
  /\ ~up
  /\ starts < MaxStarts
  /\ up' = TRUE
  /\ starts' = starts + 1
  /\ Started
  /\ UNCHANGED <<busy, waiting, cut>>

-----------------------------------------------------------------------------
(* The jobs.                                                               *)

Usable(q) == q \notin closed

\* A request, here or in another process, hands an order over.
AddJob ==
  /\ waiting["process"] < MaxJobs
  /\ waiting' = [waiting EXCEPT !["process"] = @ + 1]
  /\ UNCHANGED <<up, workers, busy, closed, stops, starts, cut>>

TakeJob(q) ==
  /\ up
  /\ workers[q] = "on"
  /\ ~busy[q]
  /\ waiting[q] > 0
  /\ waiting' = [waiting EXCEPT ![q] = @ - 1]
  /\ busy' = [busy EXCEPT ![q] = TRUE]
  /\ UNCHANGED <<up, workers, closed, stops, starts, cut>>

\* A handler returns, or has thrown for the last time.
FinishJob(q) ==
  /\ busy[q]
  /\ busy' = [busy EXCEPT ![q] = FALSE]
  /\ waiting' = [p \in Queues |->
       IF q = "process" /\ p # "process" /\ Usable(p) /\ waiting[p] < MaxJobs
         THEN waiting[p] + 1 ELSE waiting[p]]
  /\ UNCHANGED <<up, workers, closed, stops, starts, cut>>

-----------------------------------------------------------------------------
(* The shutdown.                                                           *)

Stopping == \E s \in Stops : stops[s].pc # "idle"

\* A signal, or an error nobody has caught.  worker.close() lets no more jobs
\* in; on a worker that is closing or closed it changes nothing.
Signal(s) ==
  /\ up
  /\ stops[s].pc = "idle"
  /\ stops' = [stops EXCEPT ![s].pc = "workers"]
  /\ workers' = [q \in Queues |-> IF workers[q] = "on" THEN "closing" ELSE workers[q]]
  /\ UNCHANGED <<up, busy, closed, waiting, starts, cut>>

\* A worker is closed when its handler has ended.
WorkerCloses(q) ==
  /\ up
  /\ workers[q] = "closing"
  /\ ~busy[q]
  /\ workers' = [workers EXCEPT ![q] = "closed"]
  /\ UNCHANGED <<up, busy, closed, stops, waiting, starts, cut>>

\* Mutant: stopAllProcessors is not awaited.
WorkersStoppedSoon == TRUE

WorkersStopped == \A q \in Queues : workers[q] = "closed"

\* QueueManager.shutdown closes one queue after the other.
CloseQueue(s) ==
  /\ up
  /\ \/ stops[s].pc = "workers" /\ WorkersStopped
     \/ stops[s].pc = "queues"
  /\ stops[s].n < Len(QueueNames)
  /\ stops' = [stops EXCEPT ![s] = [pc |-> "queues", n |-> @.n + 1]]
  /\ closed' = closed \cup {QueueNames[stops[s].n + 1]}
  /\ UNCHANGED <<up, workers, busy, waiting, starts, cut>>

\* The process is gone; the jobs its handlers ran stall and wait again.
Gone(code) ==
  /\ up' = FALSE
  /\ cut' = IF \E q \in Queues : busy[q] THEN cut \cup {code} ELSE cut
  /\ waiting' = [q \in Queues |-> IF busy[q] THEN waiting[q] + 1 ELSE waiting[q]]
  /\ busy' = [q \in Queues |-> FALSE]
  /\ UNCHANGED <<workers, closed, stops, starts>>

\* process.exit(0), of whichever run comes first.
Exit(s) ==
  /\ up
  /\ stops[s].n = Len(QueueNames)
  /\ Gone(0)

\* Mutant: an error of the shutdown is logged, and the process is left alive.
ExitFailedLogged(s) ==
  /\ up
  /\ stops[s].pc # "idle"
  /\ stops' = [stops EXCEPT ![s].n = Len(QueueNames) + 1]
  /\ UNCHANGED <<up, workers, busy, closed, waiting, starts, cut>>

\* A close() fails: process.exit(1), with whatever still runs.
ExitFailed(s) ==
  /\ up
  /\ stops[s].pc # "idle"
  /\ Gone(1)

Kill == up /\ Gone(137)

RunJobs(q) == TakeJob(q) \/ FinishJob(q)
Proceed(s) == CloseQueue(s) \/ Exit(s) \/ ExitFailed(s)

LifecycleNext ==
  \/ Start \/ AddJob \/ Kill
  \/ \E q \in Queues : RunJobs(q) \/ WorkerCloses(q)
  \/ \E s \in Stops : Signal(s) \/ Proceed(s)

LifecycleSpec == LifecycleInit /\ [][LifecycleNext]_lifecycleVars

\* Handlers end, as in OrderJobs; BullMQ's close() settles; and a run of
\* gracefulShutdown goes on when what it awaits has settled.  A handler that
\* hangs, or Redis that is away for good, holds the shutdown up for ever:
\* nothing in the code ends it.
LifecycleFairSpec ==
  /\ LifecycleSpec
  /\ \A q \in Queues : WF_lifecycleVars(FinishJob(q)) /\ WF_lifecycleVars(WorkerCloses(q))
  /\ \A s \in Stops : WF_lifecycleVars(CloseQueue(s)) /\ WF_lifecycleVars(Exit(s))

-----------------------------------------------------------------------------
(* Properties.                                                             *)

\* However many signals come, and whenever: while a job runs, all queues are
\* open to it, and a process that ends with code 0 cuts no job off.
JobsUndisturbed ==
  /\ up /\ (\E q \in Queues : busy[q]) => closed = {}
  /\ 0 \notin cut

\* A shutdown comes to an end, through whichever of its runs.
StopEnds == (up /\ Stopping) ~> ~up
=============================================================================
