-------------------------- MODULE OrderJobsProofs --------------------------
(***************************************************************************)
(* Theorems about OrderJobs, for every number of orders, children, slots,  *)
(* attempts, stalls, retries and faults: TypeOK, MarkedIsDone and          *)
(* RepeatsExplained.  And about Lifecycle, of the process in which these   *)
(* jobs run, for any queues and runs of the shutdown: JobsUndisturbed.     *)
(***************************************************************************)
EXTENDS OrderJobs, Lifecycle, SequenceTheorems, FiniteSetTheorems, TLAPS

Types ==
  /\ submitted \in SUBSET Orders
  /\ DOMAIN jobs \in SUBSET Jobs /\ jobs \in [DOMAIN jobs -> Entry]
  /\ marks \in SUBSET Jobs
  /\ slots \in [Slots -> Busy \cup {Free}]
  /\ drawn \in [Orders -> Nat]
  /\ sent \in [Orders \X Leaves -> Nat]
  /\ lapses \in [Orders \X Leaves -> Nat]
  /\ retries \in 0..MaxRetries /\ faults \in 0..MaxFaults

\* Which job a handler runs, and how far it has come, fit together.
Phases ==
  \A s \in Slots : Running(s) =>
    /\ slots[s].pc = "check" => slots[s].step = 1
    /\ slots[s].pc = "steps" => JobOf(s).kind = "process" /\ slots[s].step <= Len(Steps)
    /\ slots[s].pc = "send" => JobOf(s).kind \in Leaves

\* A lock is held by one handler, on a job that is active.
Locked(s) == Running(s) /\ slots[s].lock

Locks ==
  /\ \A s \in Slots : Locked(s) => State(JobOf(s)) = "active"
  /\ \A s, t \in Slots : Locked(s) /\ Locked(t) /\ JobOf(s) = JobOf(t) => s = t

TypeInv == Types /\ Phases /\ Locks

Leaf(j) == <<j.order, j.kind>>

LEMMA StepsType ==
  /\ Steps \in Seq(Leaves) /\ Len(Steps) \in Nat /\ Len(Steps) > 0
  /\ \A i \in 1..Len(Steps) : Steps[i] \in Leaves
  /\ \A k \in Leaves : \E i \in 1..Len(Steps) : Steps[i] = k
  /\ "process" \notin Leaves
  <1>1. Steps \in Seq(Leaves) /\ Steps # <<>> /\ "process" \notin Leaves
    BY OrderJobsAssumption
  <1>2. Len(Steps) \in Nat /\ Len(Steps) > 0 /\ DOMAIN Steps = 1..Len(Steps)
    BY <1>1, EmptySeq, LenProperties
  <1> QED
    BY <1>1, <1>2 DEF Leaves, Range

LEMMA NextStep ==
  ASSUME NEW k \in Nat, NEW i \in 1..(k + 1), i <= k
  PROVE  i + 1 \in 1..(k + 1)
  OBVIOUS

\* What is in a slot.
LEMMA SlotType ==
  ASSUME Types, NEW s \in Slots
  PROVE  /\ slots[s] = Free <=> slots[s].pc = "free"
         /\ Running(s) => /\ slots[s] \in Busy /\ JobOf(s) \in Jobs
                          /\ slots[s].pc \in {"check", "steps", "send", "mark", "finish"}
                          /\ slots[s].step \in 1..(Len(Steps) + 1)
  <1>1. slots[s] \in Busy \cup {Free}
    BY DEF Types
  <1>2. slots[s] \in Busy => /\ JobOf(s) \in Jobs
                             /\ slots[s].pc \in {"check", "steps", "send", "mark", "finish"}
                             /\ slots[s].step \in 1..(Len(Steps) + 1)
    BY DEF Busy, JobOf
  <1>3. Free.pc = "free"
    BY DEF Free
  <1> QED BY <1>1, <1>2, <1>3 DEF Running

\* Writing the fields of a busy slot.
LEMMA BusyPc ==
  ASSUME NEW c \in Busy, NEW p \in {"check", "steps", "send", "mark", "finish"}
  PROVE  /\ [c EXCEPT !.pc = p] \in Busy
         /\ [c EXCEPT !.pc = p].pc = p
         /\ [c EXCEPT !.pc = p].job = c.job
         /\ [c EXCEPT !.pc = p].lock = c.lock
         /\ [c EXCEPT !.pc = p].step = c.step
  BY DEF Busy

LEMMA BusyStep ==
  ASSUME NEW c \in Busy, NEW n \in 1..(Len(Steps) + 1)
  PROVE  /\ [c EXCEPT !.step = n] \in Busy
         /\ [c EXCEPT !.step = n].job = c.job
         /\ [c EXCEPT !.step = n].lock = c.lock
         /\ [c EXCEPT !.step = n].step = n
  BY DEF Busy

LEMMA BusyLock ==
  ASSUME NEW c \in Busy
  PROVE  /\ [c EXCEPT !.lock = FALSE] \in Busy
         /\ [c EXCEPT !.lock = FALSE].pc = c.pc
         /\ [c EXCEPT !.lock = FALSE].job = c.job
         /\ ~[c EXCEPT !.lock = FALSE].lock
         /\ [c EXCEPT !.lock = FALSE].step = c.step
  BY DEF Busy

LEMMA BusyNotFree == \A c \in Busy : c # Free
  BY DEF Busy, Free

\* A handler goes on: its next point and step; its job stays.
Turns(s, p, n) ==
  /\ Running(s) /\ slots' \in [Slots -> Busy \cup {Free}]
  /\ Running(s)' /\ slots'[s].pc = p /\ slots'[s].step = n
  /\ JobOf(s)' = JobOf(s)
  /\ \A t \in Slots : t # s => slots'[t] = slots[t]

Keeps(s) == slots'[s].lock = slots[s].lock

Frees(s) ==
  /\ Running(s) /\ slots' \in [Slots -> Busy \cup {Free}]
  /\ slots'[s] = Free
  /\ \A t \in Slots : t # s => slots'[t] = slots[t]

LEMMA TurnsTo ==
  ASSUME Types, NEW s \in Slots, Running(s),
         NEW p \in {"check", "steps", "send", "mark", "finish"},
         slots' = [slots EXCEPT ![s].pc = p]
  PROVE  Turns(s, p, slots[s].step) /\ Keeps(s)
  <1> DEFINE c == [slots[s] EXCEPT !.pc = p]
  <1>1. slots[s] \in Busy
    BY SlotType
  <1>2. /\ c \in Busy /\ c.pc = p /\ c.job = slots[s].job /\ c.lock = slots[s].lock
        /\ c.step = slots[s].step
    BY <1>1, BusyPc
  <1>3. slots' = [slots EXCEPT ![s] = c]
    OBVIOUS
  <1> HIDE DEF c
  <1> QED BY <1>1, <1>2, <1>3, BusyNotFree DEF Types, Turns, Keeps, Running, JobOf

LEMMA HandlerEffect ==
  ASSUME TypeInv, NEW s \in Slots
  PROVE  /\ Check(s) => Keeps(s) /\ Turns(s,
              IF JobOf(s) \in marks THEN "finish" ELSE AfterCheck(JobOf(s)),
              slots[s].step)
         /\ CheckUnanswered(s) =>
              Keeps(s) /\ Turns(s, AfterCheck(JobOf(s)), slots[s].step)
         /\ AddChild(s) =>
              Keeps(s) /\ Turns(s, AfterStep(slots[s].step), slots[s].step + 1)
         /\ Send(s) => Keeps(s) /\ Turns(s, "mark", slots[s].step)
         /\ Mark(s) => Keeps(s) /\ Turns(s, "finish", slots[s].step)
         /\ LoseLock(s) => /\ ~slots'[s].lock
                           /\ Turns(s, slots[s].pc, slots[s].step)
         /\ Finish(s) \/ Throw(s) => Frees(s)
  <1> USE DEF TypeInv
  <1>r. slots[s].pc \in {"check", "steps", "send", "mark", "finish"} => Running(s)
    BY SlotType DEF Running
  <1>1. ASSUME Check(s)
        PROVE  Keeps(s) /\ Turns(s,
              IF JobOf(s) \in marks THEN "finish" ELSE AfterCheck(JobOf(s)),
              slots[s].step)
    <2> DEFINE p == IF JobOf(s) \in marks THEN "finish" ELSE AfterCheck(JobOf(s))
    <2>1. p \in {"check", "steps", "send", "mark", "finish"}
      BY DEF AfterCheck
    <2>2. slots' = [slots EXCEPT ![s].pc = p]
      BY <1>1 DEF Check
    <2> HIDE DEF p
    <2>3. Keeps(s) /\ Turns(s, p, slots[s].step)
      BY <1>r, <1>1, <2>1, <2>2, TurnsTo DEF Check
    <2> QED BY <2>3 DEF p
  <1>2. ASSUME CheckUnanswered(s)
        PROVE  Keeps(s) /\ Turns(s, AfterCheck(JobOf(s)), slots[s].step)
    <2>1. AfterCheck(JobOf(s)) \in {"check", "steps", "send", "mark", "finish"}
      BY DEF AfterCheck
    <2> QED BY <1>r, <1>2, <2>1, TurnsTo DEF CheckUnanswered
  <1>3. ASSUME AddChild(s)
        PROVE  Keeps(s) /\ Turns(s, AfterStep(slots[s].step), slots[s].step + 1)
    <2> DEFINE p == AfterStep(slots[s].step)
               n == slots[s].step + 1
               b == [slots[s] EXCEPT !.step = n]
               c == [b EXCEPT !.pc = p]
    <2>1. p \in {"check", "steps", "send", "mark", "finish"}
      BY DEF AfterStep
    <2>2. Running(s) /\ slots[s] \in Busy
      BY <1>r, <1>3, SlotType DEF AddChild
    <2>3. n \in 1..(Len(Steps) + 1)
      <3>1. slots[s].step <= Len(Steps)
        BY <1>3, <2>2 DEF AddChild, Phases
      <3>2. slots[s].step \in 1..(Len(Steps) + 1)
        BY <2>2, SlotType
      <3>3. Len(Steps) \in Nat
        BY StepsType
      <3> QED BY <3>1, <3>2, <3>3, NextStep
    <2>4. slots' = [slots EXCEPT ![s] = c]
      BY <1>3, <2>2 DEF AddChild
    <2>5. /\ c \in Busy /\ c.pc = p /\ c.job = slots[s].job /\ c.lock = slots[s].lock
          /\ c.step = n
      <3> HIDE DEF p, n
      <3>1. b \in Busy /\ b.job = slots[s].job /\ b.lock = slots[s].lock /\ b.step = n
        BY <2>2, <2>3, BusyStep
      <3> HIDE DEF b
      <3> QED BY <2>1, <3>1, BusyPc
    <2> HIDE DEF c, b, p, n
    <2>6. Keeps(s) /\ Turns(s, p, n)
      BY <2>2, <2>4, <2>5, BusyNotFree DEF Types, Turns, Keeps, Running, JobOf
    <2> QED BY <2>6 DEF p, n
  <1>4. Send(s) => Keeps(s) /\ Turns(s, "mark", slots[s].step)
    BY <1>r, TurnsTo DEF Send
  <1>5. Mark(s) => Keeps(s) /\ Turns(s, "finish", slots[s].step)
    BY <1>r, TurnsTo DEF Mark
  <1>6. ASSUME LoseLock(s)
        PROVE  ~slots'[s].lock /\ Turns(s, slots[s].pc, slots[s].step)
    <2> DEFINE c == [slots[s] EXCEPT !.lock = FALSE]
    <2>1. slots[s] \in Busy /\ Running(s)
      BY <1>6, SlotType DEF LoseLock
    <2>2. /\ c \in Busy /\ c.pc = slots[s].pc /\ c.job = slots[s].job /\ ~c.lock
          /\ c.step = slots[s].step
      BY <2>1, BusyLock
    <2>3. slots' = [slots EXCEPT ![s] = c]
      BY <1>6 DEF LoseLock
    <2> HIDE DEF c
    <2> QED BY <2>1, <2>2, <2>3, BusyNotFree DEF Types, Turns, Running, JobOf
  <1>7. Finish(s) \/ Throw(s) => Frees(s)
    BY <1>r DEF Finish, Throw, Frees, Types
  <1> QED
    BY <1>1, <1>2, <1>3, <1>4, <1>5, <1>6, <1>7

LEMMA TakeEffect ==
  ASSUME Types, NEW s \in Slots, NEW j \in DOMAIN jobs, Take(s, j)
  PROVE  /\ slots' \in [Slots -> Busy \cup {Free}]
         /\ Running(s)' /\ ~Running(s) /\ JobOf(s)' = j
         /\ slots'[s].pc = "check" /\ slots'[s].step = 1 /\ slots'[s].lock = TRUE
         /\ \A t \in Slots : t # s => slots'[t] = slots[t]
         /\ jobs[j].state = "waiting"
         /\ jobs' = [jobs EXCEPT ![j].state = "active"]
  <1> DEFINE c == [pc |-> "check", job |-> j, lock |-> TRUE, step |-> 1]
  <1>1. /\ c \in Busy /\ c.pc = "check" /\ c.job = j /\ c.lock = TRUE /\ c.step = 1
    BY StepsType DEF Types, Busy
  <1>2. slots' = [slots EXCEPT ![s] = c] /\ slots[s] = Free
    BY DEF Take
  <1>3. jobs[j].state = "waiting" /\ jobs' = [jobs EXCEPT ![j].state = "active"]
    BY DEF Take, State, Stored
  <1> HIDE DEF c
  <1> QED BY <1>1, <1>2, <1>3, BusyNotFree DEF Types, Running, JobOf

\* What becomes of one slot in a step.
LEMMA SlotChange ==
  ASSUME TypeInv, [Next]_vars, NEW s \in Slots
  PROVE  \/ slots'[s] = slots[s]
         \/ slots'[s] = Free
         \/ \E j \in DOMAIN jobs : Take(s, j)
         \/ /\ Work(s) \/ LoseLock(s)
            /\ ~Finish(s) /\ ~Throw(s)
            /\ Running(s) /\ Running(s)' /\ JobOf(s)' = JobOf(s)
            /\ Keeps(s) \/ ~slots'[s].lock
  <1>1. CASE UNCHANGED slots
    BY <1>1
  <1>2. ASSUME NEW t \in Slots, Work(t) \/ LoseLock(t), t # s
        PROVE  slots'[s] = slots[s]
    BY <1>2, HandlerEffect DEF Work, Turns, Frees
  <1>3. CASE Work(s) \/ LoseLock(s)
    <2>1. CASE Finish(s) \/ Throw(s)
      BY <2>1, HandlerEffect DEF Frees
    <2>2. CASE ~Finish(s) /\ ~Throw(s)
      BY <1>3, <2>2, HandlerEffect DEF Work, Turns
    <2> QED BY <2>1, <2>2
  <1>4. ASSUME NEW t \in Slots, NEW j \in DOMAIN jobs, Take(t, j), t # s
        PROVE  slots'[s] = slots[s]
    BY <1>4, TakeEffect DEF TypeInv
  <1>5. CASE Crash
    BY <1>5 DEF Crash
  <1>6. \/ UNCHANGED slots \/ Crash
        \/ \E t \in Slots : Work(t) \/ LoseLock(t)
        \/ \E t \in Slots, j \in DOMAIN jobs : Take(t, j)
    BY DEF Next, vars, Submit, Recover, Forget, RetryJob, Expire
  <1> QED
    BY <1>1, <1>2, <1>3, <1>4, <1>5, <1>6

-----------------------------------------------------------------------------
\* What a step does to the entries of the queue.
Updates(j, e) ==
  j \in DOMAIN jobs /\ e \in Entry /\ jobs' = [jobs EXCEPT ![j] = e]

Adds(j) ==
  /\ j \in Jobs /\ j \notin DOMAIN jobs
  /\ DOMAIN jobs' = DOMAIN jobs \cup {j}
  /\ jobs' \in [DOMAIN jobs' -> Entry]
  /\ jobs'[j].state = "waiting"
  /\ \A i \in DOMAIN jobs : jobs'[i] = jobs[i]

LEMMA EntryType ==
  ASSUME NEW e \in Entry
  PROVE  /\ Stalled(e) \in Entry /\ Stalled(e).state \in {"waiting", "failed"}
         /\ Failed(e) \in Entry /\ Failed(e).state \in {"waiting", "failed"}
         /\ [e EXCEPT !.state = "waiting"] \in Entry
         /\ [e EXCEPT !.state = "waiting"].state = "waiting"
         /\ [e EXCEPT !.state = "active"] \in Entry
         /\ [e EXCEPT !.state = "active"].state = "active"
  <1>1. Stalled(e) \in Entry /\ Stalled(e).state \in {"waiting", "failed"}
    <2> DEFINE q == IF e.stalls < MaxStalls THEN "waiting" ELSE "failed"
    <2>1. q \in {"waiting", "failed"}
      OBVIOUS
    <2>2. Stalled(e) = [e EXCEPT !.stalls = @ + 1, !.state = q]
      BY DEF Stalled
    <2> HIDE DEF q
    <2>3. e.attempts \in Nat /\ e.stalls \in Nat
      BY DEF Entry
    <2>4. Stalled(e) = [state |-> q, attempts |-> e.attempts, stalls |-> e.stalls + 1]
      BY <2>2 DEF Entry
    <2> QED BY <2>1, <2>3, <2>4 DEF Entry
  <1>2. Failed(e) \in Entry /\ Failed(e).state \in {"waiting", "failed"}
    <2> DEFINE q == IF e.attempts + 1 < MaxAttempts THEN "waiting" ELSE "failed"
    <2>1. q \in {"waiting", "failed"}
      OBVIOUS
    <2>2. Failed(e) = [e EXCEPT !.attempts = @ + 1, !.state = q]
      BY DEF Failed
    <2> HIDE DEF q
    <2>3. e.attempts \in Nat /\ e.stalls \in Nat
      BY DEF Entry
    <2>4. Failed(e) = [state |-> q, attempts |-> e.attempts + 1, stalls |-> e.stalls]
      BY <2>2 DEF Entry
    <2> QED BY <2>1, <2>3, <2>4 DEF Entry
  <1>3. /\ [e EXCEPT !.state = "waiting"] \in Entry
        /\ [e EXCEPT !.state = "waiting"].state = "waiting"
    BY DEF Entry
  <1>4. /\ [e EXCEPT !.state = "active"] \in Entry
        /\ [e EXCEPT !.state = "active"].state = "active"
    BY DEF Entry
  <1> QED BY <1>1, <1>2, <1>3, <1>4

LEMMA NewEntries ==
  /\ Fresh \in Entry /\ Fresh.state = "waiting"
  /\ Completed \in Entry /\ Completed.state = "completed"
  BY DEF Entry, Fresh, Completed

LEMMA AddedEffect ==
  ASSUME Types, NEW j \in Jobs, NEW b \in BOOLEAN, jobs' = Added(j, b)
  PROVE  \/ UNCHANGED jobs /\ (b \/ Stored(j))
         \/ Adds(j)
  <1>1. CASE b \/ Stored(j)
    BY <1>1 DEF Added
  <1>2. CASE ~(b \/ Stored(j))
    <2>1. /\ jobs' = [i \in DOMAIN jobs \cup {j} |-> IF i = j THEN Fresh ELSE jobs[i]]
          /\ j \notin DOMAIN jobs
      BY <1>2 DEF Added, Stored
    <2> QED BY <2>1, NewEntries DEF Types, Adds
  <1> QED BY <1>1, <1>2

LEMMA UpdateEffect ==
  ASSUME Types, NEW j \in DOMAIN jobs, NEW e \in Entry, jobs' = [jobs EXCEPT ![j] = e]
  PROVE  /\ DOMAIN jobs' = DOMAIN jobs /\ jobs' \in [DOMAIN jobs' -> Entry]
         /\ jobs'[j] = e /\ \A i \in DOMAIN jobs : i # j => jobs'[i] = jobs[i]
  BY DEF Types

Removes(j) ==
  /\ j \in DOMAIN jobs /\ jobs[j].state = "completed"
  /\ DOMAIN jobs' = DOMAIN jobs \ {j}
  /\ jobs' \in [DOMAIN jobs' -> Entry]
  /\ \A i \in DOMAIN jobs' : jobs'[i] = jobs[i]

\* The key of the child that a processing job adds next.
Child(s) ==
  LET o == JobOf(s).order
      k == Steps[slots[s].step]
  IN Job(o, k, Stamp(o, k))

LEMMA ChildType ==
  ASSUME TypeInv, NEW s \in Slots, slots[s].pc = "steps"
  PROVE  /\ Running(s) /\ JobOf(s) \in Jobs /\ JobOf(s).order \in Orders
         /\ slots[s].step \in 1..Len(Steps) /\ Steps[slots[s].step] \in Leaves
         /\ Child(s) \in Jobs /\ Child(s).order = JobOf(s).order
         /\ Child(s).kind = Steps[slots[s].step]
         /\ Child(s).stamp = Stamp(JobOf(s).order, Steps[slots[s].step])
  <1> DEFINE o == JobOf(s).order
             k == Steps[slots[s].step]
  <1>1. Running(s) /\ JobOf(s) \in Jobs /\ slots[s].step \in 1..(Len(Steps) + 1)
    BY SlotType DEF Running, TypeInv
  <1>2. o \in Orders
    BY <1>1 DEF Jobs
  <1>3. slots[s].step \in 1..Len(Steps)
    BY <1>1, StepsType DEF TypeInv, Phases
  <1>4. k \in Leaves
    BY <1>3, StepsType
  <1>5. Stamp(o, k) \in Nat
    BY <1>2 DEF Stamp, TypeInv, Types
  <1>6. Child(s) = [order |-> o, kind |-> k, stamp |-> Stamp(o, k)]
    BY DEF Child, Job
  <1> HIDE DEF o, k
  <1>7. Child(s) \in Jobs /\ Child(s).order = o /\ Child(s).kind = k
        /\ Child(s).stamp = Stamp(o, k)
    BY <1>2, <1>4, <1>5, <1>6 DEF Jobs, Kinds
  <1> QED BY <1>1, <1>2, <1>3, <1>4, <1>7 DEF o, k

\* A slot that holds a lock has a job that the queue stores as active.
LEMMA LockedJob ==
  ASSUME TypeInv, NEW s \in Slots, Locked(s)
  PROVE  /\ JobOf(s) \in DOMAIN jobs /\ jobs[JobOf(s)].state = "active"
         /\ jobs[JobOf(s)] \in Entry
  BY DEF TypeInv, Types, Locks, State, Stored

LEMMA JobsEffect ==
  ASSUME TypeInv
  PROVE  /\ \A o \in Orders : Submit(o) =>
              UNCHANGED jobs \/ Adds(Job(o, "process", 0))
         /\ \A s \in Slots : AddChild(s) =>
              \/ UNCHANGED jobs /\ (Child(s) \in marks \/ Stored(Child(s)))
              \/ Adds(Child(s))
         /\ \A s \in Slots : Finish(s) \/ Throw(s) =>
              \/ ~slots[s].lock /\ UNCHANGED jobs
              \/ Locked(s) /\ Finish(s) /\ Updates(JobOf(s), Completed)
              \/ Locked(s) /\ Throw(s) /\ Updates(JobOf(s), Failed(jobs[JobOf(s)]))
         /\ \A s \in Slots, j \in DOMAIN jobs : Take(s, j) =>
              /\ jobs[j].state = "waiting"
              /\ Updates(j, [jobs[j] EXCEPT !.state = "active"])
         /\ \A j \in DOMAIN jobs :
              /\ Recover(j) => Updates(j, Stalled(jobs[j]))
              /\ RetryJob(j) => /\ jobs[j].state = "failed"
                                /\ Updates(j, [jobs[j] EXCEPT !.state = "waiting"])
              /\ Forget(j) => Removes(j)
  <1>t. Types /\ DOMAIN jobs \in SUBSET Jobs /\ \A j \in DOMAIN jobs : jobs[j] \in Entry
    BY DEF TypeInv, Types
  <1>1. ASSUME NEW o \in Orders, Submit(o)
        PROVE  UNCHANGED jobs \/ Adds(Job(o, "process", 0))
    <2>1. Job(o, "process", 0) \in Jobs
      BY DEF Job, Jobs, Kinds
    <2>2. PICK b \in BOOLEAN : jobs' = Added(Job(o, "process", 0), b)
      BY <1>1 DEF Submit, Answers
    <2> QED BY <1>t, <2>1, <2>2, AddedEffect
  <1>2. ASSUME NEW s \in Slots, AddChild(s)
        PROVE  \/ UNCHANGED jobs /\ (Child(s) \in marks \/ Stored(Child(s)))
               \/ Adds(Child(s))
    <2>1. Child(s) \in Jobs
      BY <1>2, ChildType DEF AddChild
    <2>2. PICK b \in BOOLEAN : jobs' = Added(Child(s), b) /\ (b => Child(s) \in marks)
      BY <1>2 DEF AddChild, Answers, Child
    <2> QED BY <1>t, <2>1, <2>2, AddedEffect
  <1>3. ASSUME NEW s \in Slots, Finish(s) \/ Throw(s)
        PROVE  \/ ~slots[s].lock /\ UNCHANGED jobs
               \/ Locked(s) /\ Finish(s) /\ Updates(JobOf(s), Completed)
               \/ Locked(s) /\ Throw(s) /\ Updates(JobOf(s), Failed(jobs[JobOf(s)]))
    <2>1. Running(s)
      BY <1>t, <1>3, SlotType DEF Finish, Throw, Running
    <2>2. CASE ~slots[s].lock
      BY <1>3, <2>2 DEF Finish, Throw
    <2>3. CASE slots[s].lock
      <3>1. Locked(s)
        BY <2>1, <2>3 DEF Locked
      <3>2. JobOf(s) \in DOMAIN jobs /\ jobs[JobOf(s)] \in Entry
        BY <3>1, LockedJob
      <3>3. CASE Finish(s)
        BY <2>3, <3>1, <3>2, <3>3, NewEntries DEF Finish, Updates
      <3>4. CASE Throw(s)
        <4>1. jobs' = [jobs EXCEPT ![JobOf(s)] = Failed(jobs[JobOf(s)])]
          BY <2>3, <3>4 DEF Throw, AfterFailure
        <4> QED BY <3>1, <3>2, <3>4, <4>1, EntryType DEF Updates
      <3> QED BY <1>3, <3>3, <3>4
    <2> QED BY <2>2, <2>3
  <1>4. ASSUME NEW s \in Slots, NEW j \in DOMAIN jobs, Take(s, j)
        PROVE  /\ jobs[j].state = "waiting"
               /\ Updates(j, [jobs[j] EXCEPT !.state = "active"])
    <2>1. [jobs[j] EXCEPT !.state = "active"] \in Entry
      BY <1>t, EntryType
    <2>2. jobs' = [jobs EXCEPT ![j] = [jobs[j] EXCEPT !.state = "active"]]
      BY <1>4 DEF Take
    <2> QED BY <1>4, <2>1, <2>2 DEF Take, Updates, State, Stored
  <1>5. ASSUME NEW j \in DOMAIN jobs, Recover(j)
        PROVE  Updates(j, Stalled(jobs[j]))
    <2>1. jobs' = [jobs EXCEPT ![j] = Stalled(jobs[j])]
      BY <1>5 DEF Recover
    <2> QED BY <1>t, <2>1, EntryType DEF Updates
  <1>6. ASSUME NEW j \in DOMAIN jobs, RetryJob(j)
        PROVE  /\ jobs[j].state = "failed"
               /\ Updates(j, [jobs[j] EXCEPT !.state = "waiting"])
    <2>1. [jobs[j] EXCEPT !.state = "waiting"] \in Entry
      BY <1>t, EntryType
    <2>2. jobs' = [jobs EXCEPT ![j] = [jobs[j] EXCEPT !.state = "waiting"]]
      BY <1>6 DEF RetryJob
    <2> QED BY <1>6, <2>1, <2>2 DEF RetryJob, Updates, State, Stored
  <1>7. ASSUME NEW j \in DOMAIN jobs, Forget(j)
        PROVE  Removes(j)
    BY <1>t, <1>7 DEF Forget, Removes, State, Stored
  <1> QED
    BY <1>1, <1>2, <1>3, <1>4, <1>5, <1>6, <1>7

\* The entry of j is rewritten, and j is not active any more unless it was
\* waiting: nobody held its lock, or its holder has just returned.
Shifts(j) ==
  \E e \in Entry :
    /\ Updates(j, e)
    /\ e.state # "completed"
    /\ \/ jobs[j].state \in {"waiting", "failed"}
       \/ Orphan(j)
       \/ \E s \in Slots : Locked(s) /\ JobOf(s) = j /\ slots'[s] = Free

\* What one step does to the entries of the queue.
LEMMA JobsChange ==
  ASSUME TypeInv, [Next]_vars
  PROVE  \/ UNCHANGED jobs
         \/ \E o \in Orders : Submit(o) /\ Adds(Job(o, "process", 0))
         \/ \E s \in Slots : AddChild(s) /\ Adds(Child(s))
         \/ \E s \in Slots : Finish(s) /\ Locked(s) /\ Updates(JobOf(s), Completed)
         \/ \E j \in DOMAIN jobs : Shifts(j)
         \/ \E j \in DOMAIN jobs : Forget(j) /\ Removes(j)
  <1>t. \A j \in DOMAIN jobs : jobs[j] \in Entry
    BY DEF TypeInv, Types
  <1>1. CASE \E o \in Orders : Submit(o)
    BY <1>1, JobsEffect
  <1>2. CASE \E s \in Slots : AddChild(s)
    BY <1>2, JobsEffect
  <1>3. ASSUME NEW s \in Slots, Finish(s) \/ Throw(s), ~UNCHANGED jobs
        PROVE  \/ Finish(s) /\ Locked(s) /\ Updates(JobOf(s), Completed)
               \/ \E j \in DOMAIN jobs : Shifts(j)
    <2>1. CASE Locked(s) /\ Throw(s) /\ Updates(JobOf(s), Failed(jobs[JobOf(s)]))
      <3>1. JobOf(s) \in DOMAIN jobs
        BY <2>1, LockedJob
      <3>2. slots'[s] = Free
        BY <2>1, HandlerEffect DEF Frees
      <3>3. Failed(jobs[JobOf(s)]) \in Entry /\ Failed(jobs[JobOf(s)]).state # "completed"
        BY <1>t, <3>1, EntryType
      <3> QED BY <2>1, <3>1, <3>2, <3>3 DEF Shifts
    <2> QED BY <1>3, <2>1, JobsEffect
  <1>4. ASSUME NEW s \in Slots, NEW j \in DOMAIN jobs, Take(s, j)
        PROVE  Shifts(j)
    <2>1. /\ [jobs[j] EXCEPT !.state = "active"] \in Entry
          /\ [jobs[j] EXCEPT !.state = "active"].state = "active"
      BY <1>t, EntryType
    <2>2. jobs[j].state = "waiting" /\ Updates(j, [jobs[j] EXCEPT !.state = "active"])
      BY <1>4, JobsEffect
    <2> QED BY <2>1, <2>2 DEF Shifts
  <1>5. ASSUME NEW j \in DOMAIN jobs, Recover(j)
        PROVE  Shifts(j)
    <2>1. Stalled(jobs[j]) \in Entry /\ Stalled(jobs[j]).state # "completed"
      BY <1>t, EntryType
    <2> QED BY <1>5, <2>1, JobsEffect DEF Shifts, Recover
  <1>6. ASSUME NEW j \in DOMAIN jobs, RetryJob(j)
        PROVE  Shifts(j)
    <2>1. /\ [jobs[j] EXCEPT !.state = "waiting"] \in Entry
          /\ [jobs[j] EXCEPT !.state = "waiting"].state # "completed"
      BY <1>t, EntryType
    <2> QED BY <1>6, <2>1, JobsEffect DEF Shifts
  <1>7. CASE \E j \in DOMAIN jobs : Forget(j)
    BY <1>7, JobsEffect
  <1>8. \/ UNCHANGED jobs
        \/ \E o \in Orders : Submit(o)
        \/ \E s \in Slots : AddChild(s) \/ Finish(s) \/ Throw(s)
        \/ \E s \in Slots, j \in DOMAIN jobs : Take(s, j)
        \/ \E j \in DOMAIN jobs : Recover(j) \/ Forget(j) \/ RetryJob(j)
    BY DEF Next, Work, vars, Check, CheckUnanswered, Send, Mark, LoseLock, Expire, Crash
  <1> QED
    BY <1>1, <1>2, <1>3, <1>4, <1>5, <1>6, <1>7, <1>8

-----------------------------------------------------------------------------
(* Type correctness.                                                       *)

LEMMA InitTypes == Init => TypeInv
  <1> SUFFICES ASSUME Init PROVE TypeInv
    OBVIOUS
  <1>1. \A s \in Slots : slots[s] = Free
    BY DEF Init
  <1>2. \A s \in Slots : ~Running(s) /\ ~Locked(s)
    BY <1>1 DEF Running, Locked
  <1>3. Types
    BY OrderJobsAssumption DEF Init, Types
  <1> QED BY <1>2, <1>3 DEF TypeInv, Phases, Locks

LEMMA JobsType ==
  ASSUME TypeInv, [Next]_vars
  PROVE  DOMAIN jobs' \in SUBSET Jobs /\ jobs' \in [DOMAIN jobs' -> Entry]
  <1>t. Types
    BY DEF TypeInv
  <1>1. ASSUME NEW j, NEW e, Updates(j, e)
        PROVE  DOMAIN jobs' \in SUBSET Jobs /\ jobs' \in [DOMAIN jobs' -> Entry]
    BY <1>t, <1>1, UpdateEffect DEF Updates, Types
  <1>2. ASSUME NEW j, Adds(j) \/ Removes(j)
        PROVE  DOMAIN jobs' \in SUBSET Jobs /\ jobs' \in [DOMAIN jobs' -> Entry]
    BY <1>t, <1>2 DEF Adds, Removes, Types
  <1> QED
    BY <1>t, <1>1, <1>2, JobsChange DEF Shifts, Types

LEMMA SlotsType ==
  ASSUME TypeInv, [Next]_vars
  PROVE  slots' \in [Slots -> Busy \cup {Free}]
  <1>t. Types
    BY DEF TypeInv
  <1>1. ASSUME NEW s \in Slots, Work(s) \/ LoseLock(s)
        PROVE  slots' \in [Slots -> Busy \cup {Free}]
    BY <1>1, HandlerEffect DEF Work, Turns, Frees
  <1>2. ASSUME NEW s \in Slots, NEW j \in DOMAIN jobs, Take(s, j)
        PROVE  slots' \in [Slots -> Busy \cup {Free}]
    BY <1>t, <1>2, TakeEffect
  <1>3. CASE Crash
    BY <1>3 DEF Crash
  <1>4. CASE UNCHANGED slots
    BY <1>t, <1>4 DEF Types
  <1> QED
    BY <1>1, <1>2, <1>3, <1>4
    DEF Next, vars, Submit, Recover, Forget, RetryJob, Expire

\* What a step may do to the lapses of one effect: nothing, one more, or one
\* for each handler that dies between the effect and its mark.
LapsesAt(j) ==
  IF j.kind = "process" THEN UNCHANGED lapses
  ELSE /\ lapses' \in [Orders \X Leaves -> Nat]
       /\ lapses'[Leaf(j)] = lapses[Leaf(j)] + 1
       /\ \A l \in Orders \X Leaves : l # Leaf(j) => lapses'[l] = lapses[l]

LEMMA LapseEffect ==
  ASSUME Types, NEW j \in Jobs, LapseOf(j)
  PROVE  LapsesAt(j)
  <1>1. CASE j.kind = "process"
    BY <1>1 DEF LapseOf, LapsesAt
  <1>2. CASE j.kind # "process"
    <2>1. Leaf(j) \in Orders \X Leaves
      BY <1>2 DEF Jobs, Kinds, Leaf
    <2>2. lapses' = [lapses EXCEPT ![Leaf(j)] = @ + 1]
      BY <1>2 DEF LapseOf, Lapse, Leaf
    <2> QED BY <1>2, <2>1, <2>2 DEF LapsesAt, Types
  <1> QED BY <1>1, <1>2

Dying(l) == {s \in Slots : Running(s) /\ slots[s].pc = "mark" /\
                             <<JobOf(s).order, JobOf(s).kind>> = l}

LEMMA DyingFinite ==
  ASSUME NEW l
  PROVE  /\ IsFiniteSet(Dying(l)) /\ Unmarked(l) = Cardinality(Dying(l))
         /\ Unmarked(l) \in Nat
  <1>1. Dying(l) \subseteq Slots
    BY DEF Dying
  <1>2. IsFiniteSet(Dying(l))
    BY <1>1, OrderJobsAssumption, FS_Subset
  <1>3. Unmarked(l) = Cardinality(Dying(l))
    BY DEF Unmarked, Dying
  <1> QED BY <1>2, <1>3, FS_CardinalityType

LEMMA CrashLapses ==
  ASSUME Types, Crash
  PROVE  /\ lapses' \in [Orders \X Leaves -> Nat]
         /\ \A l \in Orders \X Leaves : lapses'[l] = lapses[l] + Unmarked(l)
  <1>1. DOMAIN lapses = Orders \X Leaves /\ \A l \in Orders \X Leaves : lapses[l] \in Nat
    BY DEF Types
  <1>2. lapses' = [l \in Orders \X Leaves |-> lapses[l] + Unmarked(l)]
    BY <1>1 DEF Crash
  <1>3. \A l \in Orders \X Leaves : Unmarked(l) \in Nat
    BY DyingFinite
  <1> HIDE DEF Unmarked
  <1> QED BY <1>1, <1>2, <1>3

\* Who has lapses paid, and for which job.
LEMMA LapsesChange ==
  ASSUME TypeInv, [Next]_vars
  PROVE  \/ UNCHANGED lapses
         \/ \E s \in Slots : /\ Running(s)
                             /\ CheckUnanswered(s) \/ LoseLock(s)
                                  \/ (Throw(s) /\ slots[s].pc = "mark")
                             /\ LapsesAt(JobOf(s))
         \/ \E j \in marks : Expire(j) /\ LapsesAt(j)
         \/ Crash
  <1>t. Types
    BY DEF TypeInv
  <1>r. \A s \in Slots :
          /\ slots[s].pc \in {"check", "steps", "send", "mark", "finish"} => Running(s)
          /\ Running(s) => JobOf(s) \in Jobs
    BY <1>t, SlotType DEF Running
  <1>1. ASSUME NEW s \in Slots, CheckUnanswered(s)
        PROVE  Running(s) /\ LapsesAt(JobOf(s))
    BY <1>t, <1>r, <1>1, LapseEffect DEF CheckUnanswered
  <1>2. ASSUME NEW s \in Slots, LoseLock(s)
        PROVE  Running(s) /\ LapsesAt(JobOf(s))
    BY <1>t, <1>r, <1>2, LapseEffect DEF LoseLock
  <1>3. ASSUME NEW s \in Slots, Throw(s), ~UNCHANGED lapses
        PROVE  Running(s) /\ slots[s].pc = "mark" /\ LapsesAt(JobOf(s))
    <2>1. Running(s) /\ slots[s].pc = "mark" /\ LapseOf(JobOf(s))
      BY <1>r, <1>3 DEF Throw
    <2> QED BY <1>t, <1>r, <2>1, LapseEffect
  <1>4. ASSUME NEW j \in marks, Expire(j)
        PROVE  LapsesAt(j)
    BY <1>t, <1>4, LapseEffect DEF Expire, Types
  <1>5. \/ UNCHANGED lapses \/ Crash
        \/ \E s \in Slots : CheckUnanswered(s) \/ LoseLock(s) \/ Throw(s)
        \/ \E j \in marks : Expire(j)
    BY DEF Next, Work, vars, history, Submit, Take, Recover, Forget, RetryJob, Check,
           AddChild, Send, Mark, Finish
  <1> QED
    BY <1>1, <1>2, <1>3, <1>4, <1>5

LEMMA LapsesType ==
  ASSUME TypeInv, [Next]_vars
  PROVE  /\ lapses' \in [Orders \X Leaves -> Nat]
         /\ \A l \in Orders \X Leaves : lapses'[l] >= lapses[l]
  <1>t. Types /\ \A l \in Orders \X Leaves : lapses[l] \in Nat
    BY DEF TypeInv, Types
  <1>1. ASSUME NEW j, LapsesAt(j)
        PROVE  /\ lapses' \in [Orders \X Leaves -> Nat]
               /\ \A l \in Orders \X Leaves : lapses'[l] >= lapses[l]
    BY <1>t, <1>1 DEF LapsesAt, Types
  <1>2. ASSUME Crash
        PROVE  /\ lapses' \in [Orders \X Leaves -> Nat]
               /\ \A l \in Orders \X Leaves : lapses'[l] >= lapses[l]
    BY <1>t, <1>2, CrashLapses, DyingFinite
  <1>3. CASE UNCHANGED lapses
    BY <1>t, <1>3 DEF Types
  <1> QED
    BY <1>1, <1>2, <1>3, LapsesChange

\* Who sends, and what is counted.
LEMMA SentChange ==
  ASSUME TypeInv, [Next]_vars
  PROVE  \/ UNCHANGED sent
         \/ \E s \in Slots :
              /\ Send(s) /\ Running(s) /\ Leaf(JobOf(s)) \in Orders \X Leaves
              /\ sent' \in [Orders \X Leaves -> Nat]
              /\ sent'[Leaf(JobOf(s))] = sent[Leaf(JobOf(s))] + 1
              /\ \A l \in Orders \X Leaves : l # Leaf(JobOf(s)) => sent'[l] = sent[l]
  <1>1. ASSUME NEW s \in Slots, Send(s)
        PROVE  /\ Running(s) /\ Leaf(JobOf(s)) \in Orders \X Leaves
               /\ sent' \in [Orders \X Leaves -> Nat]
               /\ sent'[Leaf(JobOf(s))] = sent[Leaf(JobOf(s))] + 1
               /\ \A l \in Orders \X Leaves : l # Leaf(JobOf(s)) => sent'[l] = sent[l]
    <2>1. Running(s) /\ JobOf(s) \in Jobs
      BY <1>1, SlotType DEF Send, TypeInv, Running
    <2>2. JobOf(s).kind \in Leaves
      BY <1>1, <2>1 DEF TypeInv, Phases, Send
    <2>3. Leaf(JobOf(s)) \in Orders \X Leaves
      BY <2>1, <2>2 DEF Jobs, Leaf
    <2>4. sent' = [sent EXCEPT ![Leaf(JobOf(s))] = @ + 1] /\ sent \in [Orders \X Leaves -> Nat]
      BY <1>1 DEF Send, Effect, Leaf, TypeInv, Types
    <2> QED BY <2>1, <2>3, <2>4
  <1>2. UNCHANGED sent \/ \E s \in Slots : Send(s)
    BY DEF Next, Work, vars, history, Submit, Take, Recover, Forget, RetryJob, Check,
           AddChild, CheckUnanswered, Mark, Finish, Throw, LoseLock, Expire, Crash
  <1> QED
    BY <1>1, <1>2

LEMMA SentGrows ==
  ASSUME TypeInv, [Next]_vars
  PROVE  /\ sent' \in [Orders \X Leaves -> Nat]
         /\ \A l \in Orders \X Leaves : sent'[l] >= sent[l]
  <1>1. sent \in [Orders \X Leaves -> Nat]
    BY DEF TypeInv, Types
  <1> QED
    BY <1>1, SentChange

LEMMA ScalarTypes ==
  ASSUME TypeInv, [Next]_vars
  PROVE  /\ submitted' \in SUBSET Orders /\ drawn' \in [Orders -> Nat]
         /\ retries' \in 0..MaxRetries /\ faults' \in 0..MaxFaults
  <1>t. /\ submitted \in SUBSET Orders /\ drawn \in [Orders -> Nat]
        /\ retries \in 0..MaxRetries /\ faults \in 0..MaxFaults
        /\ MaxRetries \in Nat /\ MaxFaults \in Nat
    BY OrderJobsAssumption DEF TypeInv, Types
  <1>1. submitted' \in SUBSET Orders
    BY <1>t DEF Next, Work, vars, history, Submit, Take, Recover, Forget, RetryJob,
         Check, CheckUnanswered, AddChild, Send, Mark, Finish, Throw, LoseLock, Expire,
         Crash
  <1>2. drawn' \in [Orders -> Nat]
    <2>1. ASSUME NEW s \in Slots, AddChild(s) PROVE drawn' \in [Orders -> Nat]
      <3>1. JobOf(s).order \in Orders
        BY <2>1, ChildType DEF AddChild
      <3> QED BY <1>t, <2>1, <3>1 DEF AddChild
    <2> QED
      BY <1>t, <2>1 DEF Next, Work, vars, history, Submit, Take, Recover, Forget,
           RetryJob, Check, CheckUnanswered, Send, Mark, Finish, Throw, LoseLock, Expire,
           Crash
  <1>3. retries' \in 0..MaxRetries
    <2>1. UNCHANGED retries \/ (retries < MaxRetries /\ retries' = retries + 1)
      BY DEF Next, Work, vars, history, Submit, Take, Recover, Forget, RetryJob,
         Check, CheckUnanswered, AddChild, Send, Mark, Finish, Throw, LoseLock, Expire,
         Crash
    <2> QED BY <1>t, <2>1
  <1>4. faults' \in 0..MaxFaults
    <2>1. UNCHANGED faults \/ Fault
      BY DEF Next, Work, vars, history, Submit, Take, Recover, Forget, RetryJob,
         Check, CheckUnanswered, AddChild, Send, Mark, Finish, Throw, LoseLock, Expire,
         Crash
    <2> QED BY <1>t, <2>1 DEF Fault
  <1> QED BY <1>1, <1>2, <1>3, <1>4

\* Marks come from handlers that mark.
LEMMA MarksChange ==
  ASSUME TypeInv, [Next]_vars
  PROVE  \/ marks' \subseteq marks
         \/ \E s \in Slots : Mark(s) /\ Running(s) /\ marks' = marks \cup {JobOf(s)}
  <1>1. ASSUME NEW s \in Slots, Mark(s) PROVE Running(s)
    BY <1>1, SlotType DEF Mark, TypeInv, Running
  <1> QED
    BY <1>1 DEF Next, Work, vars, history, Submit, Take, Recover, Forget, RetryJob,
         Check, CheckUnanswered, AddChild, Send, Mark, Finish, Throw, LoseLock, Expire,
         Crash

LEMMA TypesStep ==
  ASSUME TypeInv, [Next]_vars
  PROVE  Types'
  <1>1. marks' \in SUBSET Jobs
    BY MarksChange, SlotType DEF TypeInv, Types
  <1> QED
    BY <1>1, ScalarTypes, JobsType, SlotsType, LapsesType, SentGrows DEF Types

LEMMA PhasesStep ==
  ASSUME TypeInv, [Next]_vars
  PROVE  Phases'
  <1>t. Types
    BY DEF TypeInv
  <1> DEFINE P(c) == /\ c.pc = "check" => c.step = 1
                     /\ c.pc = "steps" => c.job.kind = "process" /\ c.step <= Len(Steps)
                     /\ c.pc = "send" => c.job.kind \in Leaves
  <1>0. \A s \in Slots : Running(s) => P(slots[s])
    BY DEF TypeInv, Phases, JobOf
  <1> SUFFICES ASSUME NEW s \in Slots, slots'[s] # Free
               PROVE  P(slots'[s])
    BY DEF Phases, Running, JobOf
  <1>1. CASE slots'[s] = slots[s]
    <2>1. Running(s)
      BY <1>1 DEF Running
    <2> QED BY <1>0, <1>1, <2>1
  <1>2. ASSUME NEW j \in DOMAIN jobs, Take(s, j)
        PROVE  P(slots'[s])
    <2>1. slots'[s].pc = "check" /\ slots'[s].step = 1
      BY <1>t, <1>2, TakeEffect
    <2> QED BY <2>1
  <1>a. ASSUME NEW j \in Jobs PROVE \/ AfterCheck(j) = "steps" /\ j.kind = "process"
                                    \/ AfterCheck(j) = "send" /\ j.kind \in Leaves
    BY DEF AfterCheck, Jobs, Kinds
  <1>j. Running(s) => JobOf(s) \in Jobs /\ slots[s].step \in 1..(Len(Steps) + 1)
    BY <1>t, SlotType
  <1>3. CASE Check(s) \/ CheckUnanswered(s)
    <2>1. Running(s) /\ slots[s].pc = "check"
      BY <1>t, <1>3, SlotType DEF Check, CheckUnanswered, Running
    <2>2. slots[s].step = 1 /\ 1 <= Len(Steps)
      BY <1>0, <2>1, StepsType
    <2>3. /\ slots'[s].pc = "finish" \/ slots'[s].pc = AfterCheck(JobOf(s))
          /\ slots'[s].step = 1 /\ slots'[s].job = JobOf(s)
      BY <1>3, <2>2, HandlerEffect DEF Turns, JobOf
    <2> QED BY <1>a, <1>j, <2>1, <2>2, <2>3
  <1>4. CASE AddChild(s)
    <2>1. /\ slots[s].pc = "steps" /\ Running(s) /\ slots[s].step \in 1..Len(Steps)
      BY <1>4, ChildType DEF AddChild
    <2>2. slots[s].job.kind = "process"
      BY <1>0, <2>1
    <2>3. /\ slots'[s].pc = AfterStep(slots[s].step)
          /\ slots'[s].step = slots[s].step + 1 /\ slots'[s].job = slots[s].job
      BY <1>4, HandlerEffect DEF Turns, JobOf
    <2>4. \/ AfterStep(slots[s].step) = "mark"
          \/ AfterStep(slots[s].step) = "steps" /\ slots[s].step # Len(Steps)
      BY DEF AfterStep
    <2> QED BY <2>1, <2>2, <2>3, <2>4, StepsType
  <1>5. CASE Send(s) \/ Mark(s)
    BY <1>5, HandlerEffect DEF Turns
  <1>6. CASE LoseLock(s)
    <2>1. /\ Running(s) /\ slots'[s].pc = slots[s].pc /\ slots'[s].step = slots[s].step
          /\ slots'[s].job = slots[s].job
      BY <1>6, HandlerEffect DEF Turns, JobOf
    <2> QED BY <1>0, <2>1
  <1> QED
    BY <1>1, <1>2, <1>3, <1>4, <1>5, <1>6, SlotChange DEF Work

\* While a handler holds a lock and goes on, nobody touches its job.
LEMMA LockKept ==
  ASSUME TypeInv, [Next]_vars, NEW s \in Slots, Locked(s), slots'[s] # Free
  PROVE  JobOf(s) \in DOMAIN jobs' /\ jobs'[JobOf(s)].state = "active"
  <1> DEFINE j == JobOf(s)
  <1>1. j \in DOMAIN jobs /\ jobs[j].state = "active"
    BY LockedJob
  <1>2. \A t \in Slots : Locked(t) /\ JobOf(t) = j => t = s
    BY DEF TypeInv, Locks
  <1>t. Types
    BY DEF TypeInv
  <1> HIDE DEF j
  <1>3. ASSUME NEW i \in DOMAIN jobs, NEW e \in Entry, Updates(i, e), i # j
        PROVE  j \in DOMAIN jobs' /\ jobs'[j].state = "active"
    BY <1>1, <1>3, <1>t, UpdateEffect DEF Updates
  <1>4. ASSUME UNCHANGED jobs
        PROVE  j \in DOMAIN jobs' /\ jobs'[j].state = "active"
    BY <1>1, <1>4
  <1>5. ASSUME NEW i, Adds(i)
        PROVE  j \in DOMAIN jobs' /\ jobs'[j].state = "active"
    BY <1>1, <1>5 DEF Adds
  <1>6. ASSUME NEW t \in Slots, Finish(t), Locked(t), Updates(JobOf(t), Completed)
        PROVE  j \in DOMAIN jobs' /\ jobs'[j].state = "active"
    <2>1. slots'[t] = Free
      BY <1>6, HandlerEffect DEF Frees
    <2>2. JobOf(t) # j
      BY <1>2, <1>6, <2>1
    <2> QED BY <1>3, <1>6, <2>2, NewEntries, LockedJob
  <1>7. ASSUME NEW i \in DOMAIN jobs, Shifts(i)
        PROVE  j \in DOMAIN jobs' /\ jobs'[j].state = "active"
    <2>1. i # j
      <3>1. ~Orphan(j)
        BY DEF Orphan, Locked, j
      <3> QED BY <1>1, <1>2, <1>7, <3>1 DEF Shifts
    <2> QED BY <1>3, <1>7, <2>1 DEF Shifts
  <1>8. ASSUME NEW i \in DOMAIN jobs, Removes(i)
        PROVE  j \in DOMAIN jobs' /\ jobs'[j].state = "active"
    BY <1>1, <1>8 DEF Removes
  <1>9. j \in DOMAIN jobs' /\ jobs'[j].state = "active"
    BY <1>4, <1>5, <1>6, <1>7, <1>8, JobsChange
  <1> QED BY <1>9 DEF j

\* A handler that holds a lock after a step held it before on the same job,
\* or has just taken the job.
LEMMA LockedBefore ==
  ASSUME TypeInv, [Next]_vars, NEW s \in Slots, Locked(s)'
  PROVE  \/ Locked(s) /\ JobOf(s)' = JobOf(s) /\ slots'[s] # Free
         \/ \E j \in DOMAIN jobs : Take(s, j)
  <1>1. slots'[s] # Free /\ slots'[s].lock
    BY DEF Locked, Running
  <1>2. CASE slots'[s] = slots[s]
    BY <1>1, <1>2 DEF Locked, Running, JobOf
  <1>3. CASE /\ Running(s) /\ Running(s)' /\ JobOf(s)' = JobOf(s)
             /\ Keeps(s) \/ ~slots'[s].lock
    BY <1>1, <1>3 DEF Locked, Keeps
  <1> QED BY <1>1, <1>2, <1>3, SlotChange

LEMMA LocksStep ==
  ASSUME TypeInv, [Next]_vars
  PROVE  Locks'
  <1>t. Types
    BY DEF TypeInv
  <1>k. ASSUME NEW s \in Slots, NEW j \in DOMAIN jobs, Take(s, j)
        PROVE  /\ JobOf(s)' = j /\ j \in DOMAIN jobs' /\ jobs'[j].state = "active"
               /\ \A t \in Slots : t # s => slots'[t] = slots[t] /\ ~(Locked(t) /\ JobOf(t) = j)
    <2>1. /\ JobOf(s)' = j /\ jobs[j].state = "waiting" /\ jobs[j] \in Entry
          /\ jobs' = [jobs EXCEPT ![j].state = "active"]
          /\ \A t \in Slots : t # s => slots'[t] = slots[t]
      BY <1>t, <1>k, TakeEffect DEF Types
    <2>2. [jobs[j] EXCEPT !.state = "active"].state = "active"
      BY <2>1, EntryType
    <2>3. \A t \in Slots : ~(Locked(t) /\ JobOf(t) = j)
      BY <2>1, LockedJob
    <2>4. j \in DOMAIN jobs' /\ jobs'[j] = [jobs[j] EXCEPT !.state = "active"]
      BY <2>1, <1>t DEF Types
    <2> QED BY <2>1, <2>2, <2>3, <2>4
  <1>1. ASSUME NEW s \in Slots, Locked(s)'
        PROVE  JobOf(s)' \in DOMAIN jobs' /\ jobs'[JobOf(s)'].state = "active"
    BY <1>1, <1>k, LockedBefore, LockKept
  <1>2. ASSUME NEW s \in Slots, NEW t \in Slots, Locked(s)', Locked(t)', JobOf(s)' = JobOf(t)'
        PROVE  s = t
    <2>1. CASE \E j \in DOMAIN jobs : Take(s, j) \/ Take(t, j)
      <3>1. ASSUME NEW x \in Slots, NEW y \in Slots, NEW j \in DOMAIN jobs, Take(x, j), y # x,
                   Locked(y)', JobOf(y)' = JobOf(x)'
            PROVE  FALSE
        <4>1. slots'[y] = slots[y] /\ JobOf(x)' = j /\ ~(Locked(y) /\ JobOf(y) = j)
          BY <1>k, <3>1
        <4> QED BY <3>1, <4>1 DEF Locked, JobOf, Running
      <3> QED BY <1>2, <2>1, <3>1
    <2>2. CASE ~ \E j \in DOMAIN jobs : Take(s, j) \/ Take(t, j)
      <3>1. Locked(s) /\ Locked(t) /\ JobOf(s) = JobOf(t)
        BY <1>2, <2>2, LockedBefore
      <3> QED BY <3>1 DEF TypeInv, Locks
    <2> QED BY <2>1, <2>2
  <1> QED
    BY <1>1, <1>2 DEF Locks, State, Stored

LEMMA TypeStep == TypeInv /\ [Next]_vars => TypeInv'
  BY TypesStep, PhasesStep, LocksStep DEF TypeInv

LEMMA TypeInvGivesTypeOK == TypeInv => TypeOK
  <1> SUFFICES ASSUME TypeInv PROVE TypeOK
    OBVIOUS
  <1>1. Range(jobs) \subseteq Entry
    BY DEF TypeInv, Types, Range
  <1>2. \A s \in Slots :
          \/ slots[s] = Free
          \/ slots[s] \in Busy /\ (slots[s].pc = "steps" => slots[s].step <= Len(Steps))
    BY SlotType DEF TypeInv, Phases, Running
  <1> QED BY <1>1, <1>2 DEF TypeOK, TypeInv, Types

\* Every variable keeps its type, for every number of orders, children, slots
\* and faults: the processing job never looks for a child beyond the last
\* one (jobs/processors/job.processors.ts).
THEOREM Typing == Spec => []TypeOK
  <1>1. Spec => []TypeInv
    BY InitTypes, TypeStep, PTL DEF Spec
  <1> QED BY <1>1, TypeInvGivesTypeOK, PTL

-----------------------------------------------------------------------------
(* A mark stands for work that is done.                                    *)

\* Nothing is left to do under the key of j.
Done(j) ==
  IF j.kind = "process" THEN \A k \in Leaves : HandedOver(j.order, k)
  ELSE sent[Leaf(j)] > 0

Ended(j) == Stored(j) /\ jobs[j].state = "completed"

\* What a handler has yet to say is true already: it marks and completes its
\* job only after the work, and has handed over the children it has passed.
DoneInv ==
  /\ \A j \in Jobs : j \in marks \/ Ended(j) => Done(j)
  /\ \A s \in Slots : Running(s) =>
       /\ slots[s].pc \in {"mark", "finish"} => Done(JobOf(s))
       /\ slots[s].pc = "steps" =>
            \A i \in 1..(slots[s].step - 1) : HandedOver(JobOf(s).order, Steps[i])

LEMMA InitDone == Init => DoneInv
  <1> SUFFICES ASSUME Init PROVE DoneInv
    OBVIOUS
  <1>1. \A j : j \notin marks /\ ~Ended(j)
    BY DEF Init, Ended, Stored
  <1>2. \A s \in Slots : ~Running(s)
    BY DEF Init, Running
  <1> QED BY <1>1, <1>2 DEF DoneInv

LEMMA HandedOverKept ==
  ASSUME TypeInv, DoneInv, [Next]_vars, NEW o \in Orders, NEW k \in Leaves,
         HandedOver(o, k)
  PROVE  HandedOver(o, k)'
  <1>1. sent[<<o, k>>] \in Nat /\ sent'[<<o, k>>] \in Nat /\ sent'[<<o, k>>] >= sent[<<o, k>>]
    BY SentGrows DEF TypeInv, Types
  <1>2. CASE sent[<<o, k>>] > 0
    BY <1>1, <1>2 DEF HandedOver
  <1>3. ASSUME NEW j \in DOMAIN jobs, j.order = o, j.kind = k
        PROVE  HandedOver(o, k)'
    <2>1. CASE j \in DOMAIN jobs'
      BY <1>3, <2>1 DEF HandedOver
    <2>2. CASE Removes(j)
      <3>1. Ended(j) /\ j \in Jobs
        BY <2>2 DEF Removes, Ended, Stored, TypeInv, Types
      <3>2. Done(j) /\ k # "process"
        BY <3>1, StepsType DEF DoneInv
      <3>3. sent[<<o, k>>] > 0
        BY <1>3, <3>2 DEF Done, Leaf
      <3> QED BY <1>2, <3>3
    <2>3. j \in DOMAIN jobs' \/ Removes(j)
      <3>1. ASSUME NEW i, NEW e, Updates(i, e) PROVE j \in DOMAIN jobs'
        BY <3>1, UpdateEffect DEF Updates, TypeInv, Types
      <3>2. ASSUME NEW i, Adds(i) PROVE j \in DOMAIN jobs'
        BY <3>2 DEF Adds
      <3>3. ASSUME NEW i, Removes(i) PROVE j \in DOMAIN jobs' \/ Removes(j)
        BY <3>3 DEF Removes
      <3> QED BY <3>1, <3>2, <3>3, JobsChange DEF Shifts
    <2> QED BY <2>1, <2>2, <2>3
  <1> QED BY <1>2, <1>3 DEF HandedOver

LEMMA DoneKept ==
  ASSUME TypeInv, DoneInv, [Next]_vars, NEW j \in Jobs, Done(j)
  PROVE  Done(j)'
  <1>1. j.order \in Orders /\ j.kind \in Kinds
    BY DEF Jobs
  <1>2. CASE j.kind = "process"
    <2>1. ASSUME NEW k \in Leaves PROVE HandedOver(j.order, k)'
      BY <1>1, <1>2, HandedOverKept DEF Done
    <2> QED BY <1>2, <2>1 DEF Done
  <1>3. CASE j.kind # "process"
    <2>1. Leaf(j) \in Orders \X Leaves
      BY <1>1, <1>3 DEF Leaf, Kinds
    <2>2. sent[Leaf(j)] \in Nat /\ sent'[Leaf(j)] \in Nat /\ sent'[Leaf(j)] >= sent[Leaf(j)]
      BY <2>1, SentGrows DEF TypeInv, Types
    <2> QED BY <1>3, <2>2 DEF Done, Leaf
  <1> QED BY <1>2, <1>3

\* A job is completed only by a handler that has reached its end.
LEMMA EndedBefore ==
  ASSUME TypeInv, [Next]_vars, NEW j \in Jobs, Ended(j)'
  PROVE  \/ Ended(j)
         \/ \E s \in Slots : Running(s) /\ slots[s].pc = "finish" /\ JobOf(s) = j
  <1>t. Types
    BY DEF TypeInv
  <1>1. CASE UNCHANGED jobs
    BY <1>1 DEF Ended, Stored
  <1>2. ASSUME NEW i, Adds(i) PROVE Ended(j)
    BY <1>2 DEF Adds, Ended, Stored
  <1>3. ASSUME NEW s \in Slots, Finish(s), Locked(s), Updates(JobOf(s), Completed)
        PROVE  Ended(j) \/ (Running(s) /\ slots[s].pc = "finish" /\ JobOf(s) = j)
    BY <1>3, <1>t, UpdateEffect DEF Updates, Finish, Locked, Ended, Stored
  <1>4. ASSUME NEW i \in DOMAIN jobs, Shifts(i) PROVE Ended(j)
    <2>1. PICK e \in Entry : Updates(i, e) /\ e.state # "completed"
      BY <1>4 DEF Shifts
    <2> QED BY <2>1, <1>t, UpdateEffect DEF Updates, Ended, Stored
  <1>5. ASSUME NEW i, Removes(i) PROVE Ended(j)
    BY <1>5 DEF Removes, Ended, Stored
  <1> QED BY <1>1, <1>2, <1>3, <1>4, <1>5, JobsChange

\* A child that is added, was stored or was reported as marked is handed over.
LEMMA ChildHandedOver ==
  ASSUME TypeInv, DoneInv, [Next]_vars, NEW s \in Slots, AddChild(s),
         NEW o, o = JobOf(s).order, NEW n, n = slots[s].step
  PROVE  HandedOver(o, Steps[n])'
  <1> DEFINE k == Steps[n]
  <1>0. PICK j \in Jobs : j = Child(s)
    BY ChildType DEF AddChild
  <1>1. /\ o \in Orders /\ k \in Leaves /\ j \in Jobs /\ j.order = o /\ j.kind = k
        /\ k # "process"
    BY <1>0, ChildType, StepsType DEF AddChild
  <1> HIDE DEF k
  <1>2. CASE j \in marks
    <2>1. sent[<<o, k>>] > 0
      BY <1>1, <1>2 DEF DoneInv, Done, Leaf
    <2>2. HandedOver(o, k)
      BY <2>1 DEF HandedOver
    <2>3. HandedOver(o, k)'
      BY <1>1, <2>2, HandedOverKept
    <2> QED BY <2>3 DEF k
  <1>3. CASE j \in DOMAIN jobs'
    <2>1. sent' = sent /\ \E i \in DOMAIN jobs' : i.order = o /\ i.kind = k
      BY <1>1, <1>3 DEF AddChild, history
    <2> QED BY <2>1 DEF HandedOver, k
  <1>4. j \in marks \/ j \in DOMAIN jobs'
    BY <1>0, JobsEffect DEF Adds, Stored
  <1> QED BY <1>2, <1>3, <1>4

LEMMA DoneStep == TypeInv /\ DoneInv /\ [Next]_vars => DoneInv'
  <1> SUFFICES ASSUME TypeInv, DoneInv, [Next]_vars
               PROVE  DoneInv'
    OBVIOUS
  <1>t. Types /\ \A s \in Slots : Running(s) => JobOf(s) \in Jobs
    BY SlotType DEF TypeInv
  <1>1. ASSUME NEW j \in Jobs, j \in marks' \/ Ended(j)'
        PROVE  Done(j)'
    <2>1. \/ j \in marks \/ Ended(j)
          \/ \E s \in Slots : /\ Running(s) /\ slots[s].pc \in {"mark", "finish"}
                              /\ JobOf(s) = j
      BY <1>1, MarksChange, EndedBefore DEF Mark
    <2>2. Done(j)
      BY <2>1 DEF DoneInv
    <2> QED BY <2>2, DoneKept
  <1>2. ASSUME NEW s \in Slots, NEW j \in Jobs, Running(s)', JobOf(s)' = j
        PROVE  /\ slots'[s].pc \in {"mark", "finish"} => Done(j)'
               /\ slots'[s].pc = "steps" =>
                    \A i \in 1..(slots'[s].step - 1) : HandedOver(j.order, Steps[i])'
    <2>0. slots'[s] # Free /\ j.order \in Orders
      BY <1>2 DEF Running, Jobs
    <2>k. ASSUME NEW n \in Nat, n <= Len(Steps),
                 \A i \in 1..n : HandedOver(j.order, Steps[i])
          PROVE  \A i \in 1..n : HandedOver(j.order, Steps[i])'
      <3>1. \A i \in 1..n : Steps[i] \in Leaves
        BY <2>k, StepsType
      <3> QED BY <2>0, <2>k, <3>1, HandedOverKept
    <2>1. ASSUME Running(s), JobOf(s) = j, slots'[s].pc = slots[s].pc,
                 slots'[s].step = slots[s].step
          PROVE  /\ slots'[s].pc \in {"mark", "finish"} => Done(j)'
                 /\ slots'[s].pc = "steps" =>
                      \A i \in 1..(slots'[s].step - 1) : HandedOver(j.order, Steps[i])'
      <3>1. slots[s].pc \in {"mark", "finish"} => Done(j)'
        BY <2>1, DoneKept DEF DoneInv
      <3>2. ASSUME slots[s].pc = "steps"
            PROVE  \A i \in 1..(slots[s].step - 1) : HandedOver(j.order, Steps[i])'
        <4>1. slots[s].step - 1 \in Nat /\ slots[s].step - 1 <= Len(Steps)
          <5>1. slots[s].step \in 1..Len(Steps) /\ Len(Steps) \in Nat
            BY <3>2, ChildType, StepsType
          <5> QED BY <5>1
        <4>2. \A i \in 1..(slots[s].step - 1) : HandedOver(j.order, Steps[i])
          BY <2>1, <3>2 DEF DoneInv
        <4> QED BY <2>k, <4>1, <4>2
      <3> QED BY <2>1, <3>1, <3>2
    <2>2. CASE slots'[s] = slots[s]
      BY <1>2, <2>1, <2>2 DEF Running, JobOf
    <2>3. ASSUME NEW i \in DOMAIN jobs, Take(s, i)
          PROVE  slots'[s].pc = "check"
      BY <1>t, <2>3, TakeEffect
    <2>4. CASE Check(s) \/ CheckUnanswered(s)
      <3>1. Running(s) /\ slots[s].step = 1 /\ JobOf(s) = j
        BY <1>t, <1>2, <2>4, SlotType, HandlerEffect
        DEF Check, CheckUnanswered, Running, TypeInv, Phases, Turns
      <3>2. /\ slots'[s].step = 1
            /\ \/ slots'[s].pc = "finish" /\ j \in marks
               \/ slots'[s].pc = AfterCheck(j)
        BY <2>4, <3>1, HandlerEffect DEF Turns
      <3>3. j \in marks => Done(j)'
        BY DoneKept DEF DoneInv
      <3> QED BY <3>2, <3>3 DEF AfterCheck
    <2>5. CASE AddChild(s)
      <3>1. /\ slots[s].pc = "steps" /\ Running(s) /\ slots[s].step \in 1..Len(Steps)
            /\ JobOf(s) = j /\ j.kind = "process"
        BY <1>2, <2>5, ChildType, HandlerEffect DEF AddChild, Turns, TypeInv, Phases
      <3>n. PICK n \in 1..Len(Steps) : n = slots[s].step
        BY <3>1
      <3>2. slots'[s].pc = AfterStep(n) /\ slots'[s].step = n + 1
        BY <2>5, <3>n, HandlerEffect DEF Turns
      <3>3. HandedOver(j.order, Steps[n])'
        BY <2>5, <3>1, <3>n, ChildHandedOver
      <3>4. \A i \in 1..(n - 1) : HandedOver(j.order, Steps[i])'
        <4>1. n - 1 \in Nat /\ n - 1 <= Len(Steps)
          BY StepsType
        <4>2. \A i \in 1..(n - 1) : HandedOver(j.order, Steps[i])
          BY <3>1, <3>n DEF DoneInv
        <4> QED BY <2>k, <4>1, <4>2
      <3>5. \A i \in 1..n : HandedOver(j.order, Steps[i])'
        <4>1. \A i \in 1..n : i \in 1..(n - 1) \/ i = n
          OBVIOUS
        <4> QED BY <3>3, <3>4, <4>1
      <3>6. AfterStep(n) = "mark" => Done(j)'
        <4>1. AfterStep(n) = "mark" => n = Len(Steps)
          BY DEF AfterStep
        <4>2. n = Len(Steps) => \A k \in Leaves : HandedOver(j.order, k)'
          BY <3>5, StepsType
        <4> QED BY <3>1, <4>1, <4>2 DEF Done
      <3>7. AfterStep(n) \in {"mark", "steps"} /\ n + 1 - 1 = n
        BY DEF AfterStep
      <3> QED BY <3>2, <3>5, <3>6, <3>7
    <2>6. CASE Send(s)
      <3>1. /\ JobOf(s) = j /\ Running(s) /\ slots'[s].pc = "mark"
        BY <1>2, <2>6, HandlerEffect DEF Turns
      <3>2. j.kind \in Leaves /\ j.kind # "process"
        BY <2>6, <3>1, StepsType DEF Send, TypeInv, Phases
      <3>3. sent' = [sent EXCEPT ![Leaf(j)] = @ + 1] /\ Leaf(j) \in Orders \X Leaves
        BY <2>0, <2>6, <3>1, <3>2 DEF Send, Effect, Leaf
      <3>4. sent'[Leaf(j)] > 0
        BY <1>t, <3>3 DEF Types
      <3>5. Done(j)'
        BY <3>2, <3>4 DEF Done, Leaf
      <3> QED BY <3>1, <3>5
    <2>7. CASE Mark(s)
      <3>1. JobOf(s) = j /\ Running(s) /\ slots'[s].pc = "finish" /\ slots[s].pc = "mark"
        BY <1>2, <2>7, HandlerEffect DEF Turns, Mark
      <3> QED BY <3>1, DoneKept DEF DoneInv
    <2>8. CASE LoseLock(s)
      BY <1>2, <2>1, <2>8, HandlerEffect DEF Turns
    <2> QED
      BY <2>0, <2>2, <2>3, <2>4, <2>5, <2>6, <2>7, <2>8, SlotChange DEF Work
  <1>3. \A s \in Slots : Running(s)' => JobOf(s)' \in Jobs
    BY SlotsType DEF Running, JobOf, Busy
  <1> QED BY <1>1, <1>2, <1>3 DEF DoneInv

\* A mark never stands for work that is still to be done: a processing job is
\* marked or completed only when every child is stored or has had its effect,
\* a leaf only after its effect (services/idempotency.service.ts and the
\* processors of jobs/processors/job.processors.ts).
THEOREM MarksAreDone == Spec => []MarkedIsDone
  <1>1. Init => TypeInv /\ DoneInv
    BY InitTypes, InitDone
  <1>2. TypeInv /\ DoneInv /\ [Next]_vars => (TypeInv /\ DoneInv)'
    BY TypeStep, DoneStep
  <1>3. TypeInv /\ DoneInv => MarkedIsDone
    BY DEF TypeInv, Types, DoneInv, MarkedIsDone, Done, Ended, Stored, Leaf
  <1> QED BY <1>1, <1>2, <1>3, PTL DEF Spec

-----------------------------------------------------------------------------
(* Every repetition of an effect is paid for.                              *)

\* The stamps made for order o's child k.
Stamps(o, k) == IF k \in Stamped THEN 1..drawn[o] ELSE {0}
Made(j) == j.kind \in Leaves => j.stamp \in Stamps(j.order, j.kind)

\* Every job of a leaf, stored or running, has a key that was made.
KeyInv ==
  /\ \A j \in DOMAIN jobs : Made(j)
  /\ \A s \in Slots : Running(s) => Made(JobOf(s))

\* Handlers that may have the effect of leaf l whatever becomes of their job.
Bound(l) ==
  {s \in Slots : /\ Running(s) /\ Leaf(JobOf(s)) = l
                 /\ \/ slots[s].pc = "send"
                    \/ slots[s].pc = "check" /\ ~slots[s].lock}

\* Keys of order o's child k whose job may still have its effect by itself:
\* not marked, and not held by a handler that is having it or has had it.
Blocks(s, j) == Locked(s) /\ JobOf(s) = j /\ slots[s].pc \in {"send", "mark"}

Open(o, k) ==
  {j \in Jobs : /\ j.order = o /\ j.kind = k /\ j.stamp \in Stamps(o, k)
                /\ j \notin marks /\ \A s \in Slots : ~Blocks(s, j)}

\* Effects, handlers bound to have one and keys that may have one together
\* stay within the keys made and the lapses.
Paid(o, k) ==
  sent[<<o, k>>] + Cardinality(Bound(<<o, k>>)) + Cardinality(Open(o, k))
    <= KeysMade(o, k) + lapses[<<o, k>>]

PaidInv == KeyInv /\ \A o \in Orders, k \in Leaves : Paid(o, k)

-----------------------------------------------------------------------------
\* Cardinalities of sets that gain or lose an element.
LEMMA Within ==
  ASSUME NEW T, IsFiniteSet(T), NEW S, S \subseteq T
  PROVE  /\ IsFiniteSet(S) /\ Cardinality(S) <= Cardinality(T)
         /\ Cardinality(S) \in Nat /\ Cardinality(T) \in Nat
  BY FS_Subset, FS_CardinalityType

LEMMA OneMore ==
  ASSUME NEW T, IsFiniteSet(T), NEW x, NEW S, S \subseteq T \cup {x}
  PROVE  /\ Cardinality(S) <= Cardinality(T) + 1
         /\ Cardinality(S) \in Nat /\ Cardinality(T) \in Nat
  <1>1. /\ IsFiniteSet(T \cup {x}) /\ Cardinality(T) \in Nat
        /\ \/ Cardinality(T \cup {x}) = Cardinality(T)
           \/ Cardinality(T \cup {x}) = Cardinality(T) + 1
    BY FS_AddElement, FS_CardinalityType
  <1>2. Cardinality(S) <= Cardinality(T \cup {x}) /\ Cardinality(S) \in Nat
    BY <1>1, Within
  <1> QED BY <1>1, <1>2

LEMMA OneLess ==
  ASSUME NEW T, IsFiniteSet(T), NEW x \in T, NEW S, S \subseteq T \ {x}
  PROVE  /\ Cardinality(S) + 1 <= Cardinality(T)
         /\ Cardinality(S) \in Nat /\ Cardinality(T) \in Nat
  <1>1. /\ IsFiniteSet(T \ {x}) /\ Cardinality(T) \in Nat
        /\ Cardinality(T \ {x}) = Cardinality(T) - 1
    BY FS_RemoveElement, FS_CardinalityType
  <1>2. /\ Cardinality(S) <= Cardinality(T \ {x}) /\ Cardinality(S) \in Nat
    BY <1>1, Within
  <1> QED BY <1>1, <1>2

\* A set that a function covers from S has no more elements than S.
LEMMA Covered ==
  ASSUME NEW S, IsFiniteSet(S), NEW f, NEW T, \A y \in T : \E x \in S : f[x] = y
  PROVE  IsFiniteSet(T) /\ Cardinality(T) <= Cardinality(S)
  <1> DEFINE U == {x \in S : f[x] \in T}
             g == [x \in U |-> f[x]]
  <1>1. g \in Surjection(U, T)
    BY DEF Surjection
  <1>2. IsFiniteSet(U) /\ Cardinality(U) <= Cardinality(S)
    BY Within
  <1> HIDE DEF U, g
  <1>3. IsFiniteSet(T) /\ Cardinality(T) <= Cardinality(U)
    BY <1>1, <1>2, FS_Surjection
  <1> QED BY <1>2, <1>3, FS_CardinalityType

LEMMA PaidFinite ==
  ASSUME Types, NEW o \in Orders, NEW k \in Leaves
  PROVE  /\ IsFiniteSet(Bound(<<o, k>>)) /\ IsFiniteSet(Open(o, k))
         /\ Cardinality(Bound(<<o, k>>)) \in Nat /\ Cardinality(Open(o, k)) \in Nat
         /\ KeysMade(o, k) \in Nat
  <1>1. IsFiniteSet(Bound(<<o, k>>))
    BY OrderJobsAssumption, FS_Subset DEF Bound
  <1>2. drawn[o] \in Nat
    BY DEF Types
  <1>3. IsFiniteSet(Stamps(o, k))
    <2>1. IsFiniteSet(1..drawn[o])
      BY <1>2, FS_Interval
    <2> QED BY <2>1, FS_Singleton DEF Stamps
  <1> DEFINE f == [n \in Stamps(o, k) |-> Job(o, k, n)]
  <1>4. \A j \in Open(o, k) : \E n \in Stamps(o, k) : f[n] = j
    <2> SUFFICES ASSUME NEW j \in Open(o, k)
                 PROVE  j.stamp \in Stamps(o, k) /\ Job(o, k, j.stamp) = j
      OBVIOUS
    <2> QED BY DEF Open, Job, Jobs
  <1> HIDE DEF f
  <1>6. IsFiniteSet(Open(o, k))
    BY <1>3, <1>4, Covered
  <1> QED BY <1>1, <1>2, <1>6, FS_CardinalityType DEF KeysMade

LEMMA InitPaid == Init => PaidInv
  <1> SUFFICES ASSUME Init PROVE PaidInv
    OBVIOUS
  <1>1. \A s \in Slots : ~Running(s)
    BY DEF Init, Running
  <1>2. KeyInv
    BY <1>1 DEF Init, KeyInv
  <1>3. ASSUME NEW o \in Orders, NEW k \in Leaves PROVE Paid(o, k)
    <2>1. Bound(<<o, k>>) = {} /\ sent[<<o, k>>] = 0 /\ lapses[<<o, k>>] = 0
      BY <1>1 DEF Bound, Init
    <2>2. Cardinality(Bound(<<o, k>>)) = 0
      BY <2>1, FS_EmptySet
    <2>3. CASE k \in Stamped
      <3>1. KeysMade(o, k) = 0 /\ Stamps(o, k) = {}
        BY <2>3 DEF Init, KeysMade, Stamps
      <3>2. Open(o, k) = {}
        BY <3>1 DEF Open
      <3>3. Cardinality(Open(o, k)) = 0
        BY <3>2, FS_EmptySet
      <3> QED BY <2>1, <2>2, <3>1, <3>3 DEF Paid
    <2>4. CASE k \notin Stamped
      <3>1. KeysMade(o, k) = 1 /\ Stamps(o, k) = {0}
        BY <2>4 DEF KeysMade, Stamps
      <3>2. Open(o, k) \subseteq {Job(o, k, 0)}
        BY <3>1 DEF Open, Job, Jobs
      <3>3. IsFiniteSet({Job(o, k, 0)}) /\ Cardinality({Job(o, k, 0)}) = 1
        BY FS_Singleton
      <3>4. Cardinality(Open(o, k)) <= 1 /\ Cardinality(Open(o, k)) \in Nat
        BY <3>2, <3>3, Within
      <3> QED BY <2>1, <2>2, <3>1, <3>4 DEF Paid
    <2> QED BY <2>3, <2>4
  <1> QED BY <1>2, <1>3 DEF PaidInv

-----------------------------------------------------------------------------
\* Keys are made by AddChild alone.
LEMMA DrawnChange ==
  ASSUME TypeInv, [Next]_vars
  PROVE  \/ UNCHANGED drawn
         \/ \E s \in Slots : /\ AddChild(s) /\ JobOf(s).order \in Orders
                             /\ drawn' = [drawn EXCEPT ![JobOf(s).order] = @ + 1]
  <1>1. ASSUME NEW s \in Slots, AddChild(s), ~UNCHANGED drawn
        PROVE  /\ JobOf(s).order \in Orders
               /\ drawn' = [drawn EXCEPT ![JobOf(s).order] = @ + 1]
    BY <1>1, ChildType DEF AddChild
  <1>2. UNCHANGED drawn \/ \E s \in Slots : AddChild(s)
    BY DEF Next, Work, vars, history, Submit, Take, Recover, Forget, RetryJob, Check,
           CheckUnanswered, Send, Mark, Finish, Throw, LoseLock, Expire, Crash
  <1> QED BY <1>1, <1>2

LEMMA DrawnGrows ==
  ASSUME TypeInv, [Next]_vars
  PROVE  \A o \in Orders : /\ drawn[o] \in Nat /\ drawn'[o] \in Nat
                           /\ drawn'[o] >= drawn[o]
  <1>1. drawn \in [Orders -> Nat]
    BY DEF TypeInv, Types
  <1> QED BY <1>1, DrawnChange

LEMMA MadeKept ==
  ASSUME TypeInv, [Next]_vars, NEW j \in Jobs, Made(j)
  PROVE  Made(j)'
  <1>1. j.order \in Orders
    BY DEF Jobs
  <1>2. drawn[j.order] \in Nat /\ drawn'[j.order] \in Nat /\ drawn'[j.order] >= drawn[j.order]
    BY <1>1, DrawnGrows
  <1> QED BY <1>2 DEF Made, Stamps

LEMMA KeyStep == TypeInv /\ KeyInv /\ [Next]_vars => KeyInv'
  <1> SUFFICES ASSUME TypeInv, KeyInv, [Next]_vars PROVE KeyInv'
    OBVIOUS
  <1>t. Types
    BY DEF TypeInv
  <1>1. ASSUME NEW j \in DOMAIN jobs'
        PROVE  Made(j)'
    <2>0. j \in Jobs
      BY <1>1, JobsType
    <2>1. CASE j \in DOMAIN jobs
      BY <2>0, <2>1, MadeKept DEF KeyInv
    <2>2. CASE j \notin DOMAIN jobs
      <3>1. ASSUME NEW i, NEW e, Updates(i, e) PROVE FALSE
        BY <1>1, <1>t, <2>2, <3>1, UpdateEffect DEF Updates
      <3>2. ASSUME NEW i, Adds(i) PROVE j = i
        BY <1>1, <2>2, <3>2 DEF Adds
      <3>3. ASSUME NEW i, Removes(i) PROVE FALSE
        BY <1>1, <2>2, <3>3 DEF Removes
      <3>4. \/ \E o \in Orders : j = Job(o, "process", 0)
            \/ \E s \in Slots : AddChild(s) /\ j = Child(s)
        BY <1>1, <2>2, <3>1, <3>2, <3>3, JobsChange DEF Shifts
      <3>5. CASE \E o \in Orders : j = Job(o, "process", 0)
        BY <3>5, StepsType DEF Made, Job
      <3>6. ASSUME NEW s \in Slots, AddChild(s), j = Child(s)
            PROVE  Made(j)'
        <4>1. /\ j.order = JobOf(s).order /\ j.order \in Orders
              /\ j.kind = Steps[slots[s].step] /\ j.stamp = Stamp(j.order, j.kind)
          BY <3>6, ChildType DEF AddChild
        <4>2. j.kind \in Stamped => drawn' = [drawn EXCEPT ![j.order] = @ + 1]
          BY <3>6, <4>1 DEF AddChild
        <4>3. drawn[j.order] \in Nat /\ drawn \in [Orders -> Nat]
          BY <1>t, <4>1 DEF Types
        <4> QED BY <4>1, <4>2, <4>3 DEF Made, Stamps, Stamp
      <3> QED BY <3>4, <3>5, <3>6
    <2> QED BY <2>1, <2>2
  <1>2. ASSUME NEW s \in Slots, NEW j \in Jobs, Running(s)', JobOf(s)' = j
        PROVE  Made(j)'
    <2>1. (Running(s) /\ JobOf(s) = j) \/ j \in DOMAIN jobs
      <3>1. CASE slots'[s] = slots[s]
        BY <1>2, <3>1 DEF Running, JobOf
      <3>2. ASSUME NEW i \in DOMAIN jobs, Take(s, i) PROVE j = i
        BY <1>t, <1>2, <3>2, TakeEffect
      <3> QED BY <1>2, <3>1, <3>2, SlotChange DEF Running
    <2>2. Made(j)
      BY <2>1 DEF KeyInv
    <2> QED BY <2>2, MadeKept
  <1>3. \A s \in Slots : Running(s)' => JobOf(s)' \in Jobs
    BY SlotsType DEF Running, JobOf, Busy
  <1> QED BY <1>1, <1>2, <1>3 DEF KeyInv

-----------------------------------------------------------------------------
\* A step that changes slot s alone changes Bound and Open around s alone.
LEMMA OneSlot ==
  ASSUME NEW s \in Slots, \A t \in Slots : t # s => slots'[t] = slots[t]
  PROVE  /\ \A l : Bound(l)' \subseteq Bound(l) \cup {s}
         /\ \A l : s \notin Bound(l)' => Bound(l)' \subseteq Bound(l) \ {s}
         /\ \A j : (\A t \in Slots : ~Blocks(t, j))' /\ ~Blocks(s, j)
                     => \A t \in Slots : ~Blocks(t, j)
  <1>1. \A t \in Slots : t # s =>
          /\ Running(t)' = Running(t) /\ JobOf(t)' = JobOf(t)
          /\ slots'[t].pc = slots[t].pc /\ slots'[t].lock = slots[t].lock
    BY DEF Running, JobOf
  <1>2. \A l : \A t \in Slots : t # s => (t \in Bound(l)' <=> t \in Bound(l))
    BY <1>1 DEF Bound
  <1>3. \A l : Bound(l)' \subseteq Slots
    BY DEF Bound
  <1>4. \A j : \A t \in Slots : t # s => (Blocks(t, j)' <=> Blocks(t, j))
    BY <1>1 DEF Blocks, Locked
  <1> QED BY <1>2, <1>3, <1>4

\* Without a new key, keys open again only where a block or a mark ends.
LEMMA OpenChange ==
  ASSUME NEW o, NEW k, drawn' = drawn
  PROVE  \A j \in Open(o, k)' :
           \/ j \in Open(o, k)
           \/ j.order = o /\ j.kind = k
              /\ (j \in marks \/ \E s \in Slots : Blocks(s, j))
  BY DEF Open, Stamps

-----------------------------------------------------------------------------
\* The balance of one effect after a step, from what the step adds to each
\* side.
LEMMA Balance ==
  ASSUME TypeInv, [Next]_vars, NEW o \in Orders, NEW k \in Leaves, Paid(o, k),
         Cardinality(Bound(<<o, k>>)') \in Nat, Cardinality(Open(o, k)') \in Nat,
         sent'[<<o, k>>] + Cardinality(Bound(<<o, k>>)') + Cardinality(Open(o, k)')
             + KeysMade(o, k) + lapses[<<o, k>>]
           <= sent[<<o, k>>] + Cardinality(Bound(<<o, k>>)) + Cardinality(Open(o, k))
                + KeysMade(o, k)' + lapses'[<<o, k>>]
  PROVE  Paid(o, k)'
  <1>1. /\ Cardinality(Bound(<<o, k>>)) \in Nat /\ Cardinality(Open(o, k)) \in Nat
        /\ KeysMade(o, k) \in Nat
    BY PaidFinite DEF TypeInv
  <1>2. /\ sent[<<o, k>>] \in Nat /\ lapses[<<o, k>>] \in Nat
        /\ sent'[<<o, k>>] \in Nat /\ lapses'[<<o, k>>] \in Nat
    BY LapsesType, SentGrows DEF TypeInv, Types
  <1>3. KeysMade(o, k)' \in Nat
    BY DrawnGrows DEF KeysMade
  <1>4. /\ Cardinality(Bound(<<o, k>>)') = Cardinality(Bound(<<o, k>>))'
        /\ Cardinality(Open(o, k)') = Cardinality(Open(o, k))'
    OBVIOUS
  <1>5. ASSUME NEW u \in Nat, NEW v \in Nat, NEW w \in Nat, NEW x \in Nat, NEW y \in Nat,
               NEW u1 \in Nat, NEW v1 \in Nat, NEW w1 \in Nat, NEW x1 \in Nat, NEW y1 \in Nat,
               u + v + w <= x + y, u1 + v1 + w1 + x + y <= u + v + w + x1 + y1
        PROVE  u1 + v1 + w1 <= x1 + y1
    BY <1>5
  <1> HIDE DEF Bound, Open, KeysMade
  <1> QED BY <1>1, <1>2, <1>3, <1>4, <1>5 DEF Paid

\* A step without a new key, an effect or a lapse.
LEMMA Quiet ==
  ASSUME TypeInv, [Next]_vars, NEW o \in Orders, NEW k \in Leaves, Paid(o, k),
         UNCHANGED drawn, sent'[<<o, k>>] = sent[<<o, k>>],
         Bound(<<o, k>>)' \subseteq Bound(<<o, k>>), Open(o, k)' \subseteq Open(o, k)
  PROVE  Paid(o, k)'
  <1>1. IsFiniteSet(Bound(<<o, k>>)) /\ IsFiniteSet(Open(o, k)) /\ KeysMade(o, k) \in Nat
    BY PaidFinite DEF TypeInv
  <1>2. /\ Cardinality(Bound(<<o, k>>)') <= Cardinality(Bound(<<o, k>>))
        /\ Cardinality(Bound(<<o, k>>)') \in Nat /\ Cardinality(Bound(<<o, k>>)) \in Nat
    BY <1>1, Within
  <1>3. /\ Cardinality(Open(o, k)') <= Cardinality(Open(o, k))
        /\ Cardinality(Open(o, k)') \in Nat /\ Cardinality(Open(o, k)) \in Nat
    BY <1>1, Within
  <1>4. KeysMade(o, k)' = KeysMade(o, k)
    BY DEF KeysMade
  <1>5. /\ lapses'[<<o, k>>] >= lapses[<<o, k>>]
        /\ lapses'[<<o, k>>] \in Nat /\ lapses[<<o, k>>] \in Nat /\ sent[<<o, k>>] \in Nat
    BY LapsesType DEF TypeInv, Types
  <1>6. sent'[<<o, k>>] + Cardinality(Bound(<<o, k>>)') + Cardinality(Open(o, k)')
            + KeysMade(o, k) + lapses[<<o, k>>]
          <= sent[<<o, k>>] + Cardinality(Bound(<<o, k>>)) + Cardinality(Open(o, k))
               + KeysMade(o, k)' + lapses'[<<o, k>>]
    BY <1>1, <1>2, <1>3, <1>4, <1>5
  <1> QED BY <1>2, <1>3, <1>6, Balance

\* A lapse pays for one more handler or one more open key.
LEMMA Lapsing ==
  ASSUME TypeInv, [Next]_vars, NEW o \in Orders, NEW k \in Leaves, Paid(o, k),
         UNCHANGED drawn, sent'[<<o, k>>] = sent[<<o, k>>],
         lapses'[<<o, k>>] = lapses[<<o, k>>] + 1, NEW x,
         \/ /\ Bound(<<o, k>>)' \subseteq Bound(<<o, k>>) \cup {x}
            /\ Open(o, k)' \subseteq Open(o, k)
         \/ /\ Bound(<<o, k>>)' \subseteq Bound(<<o, k>>)
            /\ Open(o, k)' \subseteq Open(o, k) \cup {x}
  PROVE  Paid(o, k)'
  <1>1. IsFiniteSet(Bound(<<o, k>>)) /\ IsFiniteSet(Open(o, k)) /\ KeysMade(o, k) \in Nat
    BY PaidFinite DEF TypeInv
  <1>2. KeysMade(o, k)' = KeysMade(o, k)
    BY DEF KeysMade
  <1>3. lapses'[<<o, k>>] \in Nat /\ lapses[<<o, k>>] \in Nat /\ sent[<<o, k>>] \in Nat
    BY LapsesType DEF TypeInv, Types
  <1>4. CASE /\ Bound(<<o, k>>)' \subseteq Bound(<<o, k>>) \cup {x}
             /\ Open(o, k)' \subseteq Open(o, k)
    <2>1. /\ Cardinality(Bound(<<o, k>>)') <= Cardinality(Bound(<<o, k>>)) + 1
          /\ Cardinality(Bound(<<o, k>>)') \in Nat /\ Cardinality(Bound(<<o, k>>)) \in Nat
      BY <1>1, <1>4, OneMore
    <2>2. /\ Cardinality(Open(o, k)') <= Cardinality(Open(o, k))
          /\ Cardinality(Open(o, k)') \in Nat /\ Cardinality(Open(o, k)) \in Nat
      BY <1>1, <1>4, Within
    <2>3. sent'[<<o, k>>] + Cardinality(Bound(<<o, k>>)') + Cardinality(Open(o, k)')
              + KeysMade(o, k) + lapses[<<o, k>>]
            <= sent[<<o, k>>] + Cardinality(Bound(<<o, k>>)) + Cardinality(Open(o, k))
                 + KeysMade(o, k)' + lapses'[<<o, k>>]
      BY <1>1, <1>2, <1>3, <2>1, <2>2
    <2> QED BY <2>1, <2>2, <2>3, Balance
  <1>5. CASE /\ Bound(<<o, k>>)' \subseteq Bound(<<o, k>>)
             /\ Open(o, k)' \subseteq Open(o, k) \cup {x}
    <2>1. /\ Cardinality(Bound(<<o, k>>)') <= Cardinality(Bound(<<o, k>>))
          /\ Cardinality(Bound(<<o, k>>)') \in Nat /\ Cardinality(Bound(<<o, k>>)) \in Nat
      BY <1>1, <1>5, Within
    <2>2. /\ Cardinality(Open(o, k)') <= Cardinality(Open(o, k)) + 1
          /\ Cardinality(Open(o, k)') \in Nat /\ Cardinality(Open(o, k)) \in Nat
      BY <1>1, <1>5, OneMore
    <2>3. sent'[<<o, k>>] + Cardinality(Bound(<<o, k>>)') + Cardinality(Open(o, k)')
              + KeysMade(o, k) + lapses[<<o, k>>]
            <= sent[<<o, k>>] + Cardinality(Bound(<<o, k>>)) + Cardinality(Open(o, k))
                 + KeysMade(o, k)' + lapses'[<<o, k>>]
      BY <1>1, <1>2, <1>3, <2>1, <2>2
    <2> QED BY <2>1, <2>2, <2>3, Balance
  <1> QED BY <1>4, <1>5

-----------------------------------------------------------------------------
\* A step of the handler in slot s, seen from one effect.
LEMMA Around ==
  ASSUME NEW s \in Slots, \A t \in Slots : t # s => slots'[t] = slots[t],
         drawn' = drawn, marks \subseteq marks', NEW j, Running(s), j = JobOf(s),
         NEW o, NEW k
  PROVE  /\ Open(o, k)' \subseteq Open(o, k) \cup {j}
         /\ (Blocks(s, j) => Blocks(s, j)' \/ j \in marks') \/ Leaf(j) # <<o, k>>
              => Open(o, k)' \subseteq Open(o, k)
         /\ Leaf(j) # <<o, k>> /\ (slots'[s] = Free \/ JobOf(s)' = j)
              => Bound(<<o, k>>)' \subseteq Bound(<<o, k>>)
  <1>1. ASSUME NEW i \in Open(o, k)', i \notin Open(o, k)
        PROVE  i = j /\ Leaf(j) = <<o, k>> /\ Blocks(s, j) /\ ~Blocks(s, j)' /\ j \notin marks'
    <2>1. /\ i \in Jobs /\ i.order = o /\ i.kind = k /\ i.stamp \in Stamps(o, k)'
          /\ i \notin marks' /\ (\A t \in Slots : ~Blocks(t, i))'
      BY <1>1 DEF Open
    <2>2. Stamps(o, k)' = Stamps(o, k) /\ i \notin marks
      BY <2>1 DEF Stamps
    <2>3. ~ \A t \in Slots : ~Blocks(t, i)
      BY <1>1, <2>1, <2>2 DEF Open
    <2>4. Blocks(s, i)
      BY <2>1, <2>3, OneSlot
    <2>5. i = j
      BY <2>4 DEF Blocks
    <2>6. ~Blocks(s, i)'
      BY <2>1
    <2> QED BY <2>1, <2>4, <2>5, <2>6 DEF Leaf
  <1>2. ASSUME Leaf(j) # <<o, k>>, slots'[s] = Free \/ JobOf(s)' = j
        PROVE  Bound(<<o, k>>)' \subseteq Bound(<<o, k>>)
    <2>1. s \notin Bound(<<o, k>>)'
      BY <1>2 DEF Bound, Running, Leaf
    <2> QED BY <2>1, OneSlot
  <1> QED BY <1>1, <1>2

\* What a handler step changes besides its slot.
LEMMA HandlerFrame ==
  ASSUME TypeInv, [Next]_vars, NEW s \in Slots, Work(s) \/ LoseLock(s)
  PROVE  /\ Running(s) /\ JobOf(s) \in Jobs
         /\ \A t \in Slots : t # s => slots'[t] = slots[t]
         /\ slots'[s] = Free \/ JobOf(s)' = JobOf(s)
         /\ marks \subseteq marks'
         /\ ~AddChild(s) => UNCHANGED drawn
         /\ ~Send(s) => UNCHANGED sent
         /\ ~CheckUnanswered(s) /\ ~LoseLock(s) /\ ~(Throw(s) /\ slots[s].pc = "mark")
              => UNCHANGED lapses
  <1>1. Running(s) /\ JobOf(s) \in Jobs
    BY SlotType, HandlerEffect DEF TypeInv, Work, Turns, Frees
  <1>2. /\ \A t \in Slots : t # s => slots'[t] = slots[t]
        /\ slots'[s] = Free \/ JobOf(s)' = JobOf(s)
    BY HandlerEffect DEF Work, Turns, Frees
  <1>3. /\ marks \subseteq marks'
        /\ ~AddChild(s) => UNCHANGED drawn
        /\ ~Send(s) => UNCHANGED sent
        /\ ~CheckUnanswered(s) /\ ~LoseLock(s) /\ ~(Throw(s) /\ slots[s].pc = "mark")
              => UNCHANGED lapses
    BY DEF Work, history, Check, CheckUnanswered, AddChild, Send, Mark, Finish, Throw,
           LoseLock
  <1> QED BY <1>1, <1>2, <1>3

\* A handler of another effect, or of a processing job that makes no key.
LEMMA PaidElsewhere ==
  ASSUME TypeInv, [Next]_vars, NEW o \in Orders, NEW k \in Leaves, Paid(o, k),
         NEW s \in Slots, Work(s) \/ LoseLock(s), Leaf(JobOf(s)) # <<o, k>>,
         UNCHANGED drawn
  PROVE  Paid(o, k)'
  <1>1. PICK j : j = JobOf(s)
    OBVIOUS
  <1>2. /\ Running(s) /\ \A t \in Slots : t # s => slots'[t] = slots[t]
        /\ slots'[s] = Free \/ JobOf(s)' = j
        /\ marks \subseteq marks'
    BY <1>1, HandlerFrame
  <1>3. /\ Open(o, k)' \subseteq Open(o, k)
        /\ Bound(<<o, k>>)' \subseteq Bound(<<o, k>>)
    BY <1>1, <1>2, Around
  <1>4. sent'[<<o, k>>] = sent[<<o, k>>]
    <2>1. CASE Send(s)
      <3>1. sent' = [sent EXCEPT ![Leaf(JobOf(s))] = @ + 1]
        BY <2>1 DEF Send, Effect, Leaf
      <3> QED BY <3>1 DEF TypeInv, Types
    <2>2. CASE ~Send(s)
      BY <2>2, HandlerFrame
    <2> QED BY <2>1, <2>2
  <1> QED BY <1>3, <1>4, Quiet

\* The processing job makes the key of a stamped child.
LEMMA PaidAddChild ==
  ASSUME TypeInv, [Next]_vars, NEW o \in Orders, NEW k \in Leaves, Paid(o, k),
         NEW s \in Slots, AddChild(s), ~UNCHANGED drawn
  PROVE  Paid(o, k)'
  <1>1. PICK j : j = JobOf(s)
    OBVIOUS
  <1>2. /\ Running(s) /\ \A t \in Slots : t # s => slots'[t] = slots[t]
        /\ slots'[s] = Free \/ JobOf(s)' = j
        /\ marks' = marks /\ UNCHANGED sent
        /\ slots[s].pc = "steps"
    BY <1>1, HandlerFrame DEF Work, AddChild, history
  <1>3. j.kind = "process" /\ j.order \in Orders
    BY <1>1, <1>2, ChildType DEF TypeInv, Phases
  <1>4. drawn' = [drawn EXCEPT ![j.order] = @ + 1] /\ drawn \in [Orders -> Nat]
    BY <1>1 DEF AddChild, TypeInv, Types
  <1>5. Leaf(j) # <<o, k>>
    BY <1>3, StepsType DEF Leaf
  <1>6. Bound(<<o, k>>)' \subseteq Bound(<<o, k>>)
    <2>1. s \notin Bound(<<o, k>>)'
      BY <1>2, <1>5 DEF Bound, Running, Leaf
    <2> QED BY <1>2, <2>1, OneSlot
  <1>7. ASSUME NEW i \in Open(o, k)', i.stamp \in Stamps(o, k)
        PROVE  i \in Open(o, k)
    <2>1. /\ i \in Jobs /\ i.order = o /\ i.kind = k
          /\ i \notin marks' /\ (\A t \in Slots : ~Blocks(t, i))'
      BY <1>7 DEF Open
    <2>2. ~Blocks(s, i)
      BY <1>2 DEF Blocks
    <2>3. \A t \in Slots : ~Blocks(t, i)
      BY <1>2, <2>1, <2>2, OneSlot
    <2> QED BY <1>2, <1>7, <2>1, <2>3 DEF Open
  <1>8. \A i \in Open(o, k)' : i.stamp \in Stamps(o, k)' /\ i \in Jobs /\ i.order = o /\ i.kind = k
    BY DEF Open
  <1>9. CASE k \in Stamped /\ o = j.order
    <2>1. KeysMade(o, k)' = KeysMade(o, k) + 1 /\ KeysMade(o, k) \in Nat
      BY <1>4, <1>9 DEF KeysMade
    <2>2. Stamps(o, k)' = Stamps(o, k) \cup {drawn[o] + 1}
      BY <1>4, <1>9 DEF Stamps
    <2>3. Open(o, k)' \subseteq Open(o, k) \cup {Job(o, k, drawn[o] + 1)}
      <3>1. ASSUME NEW i \in Open(o, k)', i.stamp = drawn[o] + 1
            PROVE  i = Job(o, k, drawn[o] + 1)
        BY <1>8, <3>1 DEF Job, Jobs
      <3> QED BY <1>7, <1>8, <2>2, <3>1
    <2>4. IsFiniteSet(Bound(<<o, k>>)) /\ IsFiniteSet(Open(o, k))
      BY PaidFinite DEF TypeInv
    <2>5. /\ Cardinality(Bound(<<o, k>>)') <= Cardinality(Bound(<<o, k>>))
          /\ Cardinality(Bound(<<o, k>>)') \in Nat /\ Cardinality(Bound(<<o, k>>)) \in Nat
      BY <1>6, <2>4, Within
    <2>6. /\ Cardinality(Open(o, k)') <= Cardinality(Open(o, k)) + 1
          /\ Cardinality(Open(o, k)') \in Nat /\ Cardinality(Open(o, k)) \in Nat
      BY <2>3, <2>4, OneMore
    <2>7. /\ lapses'[<<o, k>>] >= lapses[<<o, k>>] /\ sent' = sent
          /\ lapses'[<<o, k>>] \in Nat /\ lapses[<<o, k>>] \in Nat /\ sent[<<o, k>>] \in Nat
      BY <1>2, LapsesType DEF TypeInv, Types
    <2>8. sent'[<<o, k>>] + Cardinality(Bound(<<o, k>>)') + Cardinality(Open(o, k)')
              + KeysMade(o, k) + lapses[<<o, k>>]
            <= sent[<<o, k>>] + Cardinality(Bound(<<o, k>>)) + Cardinality(Open(o, k))
                 + KeysMade(o, k)' + lapses'[<<o, k>>]
      <3> HIDE DEF Bound, Open, KeysMade
      <3> QED BY <2>1, <2>5, <2>6, <2>7
    <2> QED BY <2>5, <2>6, <2>8, Balance
  <1>10. CASE ~(k \in Stamped /\ o = j.order)
    <2>1. Stamps(o, k)' = Stamps(o, k) /\ KeysMade(o, k)' = KeysMade(o, k)
      BY <1>3, <1>4, <1>10 DEF Stamps, KeysMade
    <2>2. Open(o, k)' \subseteq Open(o, k)
      BY <1>7, <1>8, <2>1
    <2>4. IsFiniteSet(Bound(<<o, k>>)) /\ IsFiniteSet(Open(o, k)) /\ KeysMade(o, k) \in Nat
      BY PaidFinite DEF TypeInv
    <2>5. /\ Cardinality(Bound(<<o, k>>)') <= Cardinality(Bound(<<o, k>>))
          /\ Cardinality(Bound(<<o, k>>)') \in Nat /\ Cardinality(Bound(<<o, k>>)) \in Nat
      BY <1>6, <2>4, Within
    <2>6. /\ Cardinality(Open(o, k)') <= Cardinality(Open(o, k))
          /\ Cardinality(Open(o, k)') \in Nat /\ Cardinality(Open(o, k)) \in Nat
      BY <2>2, <2>4, Within
    <2>7. /\ lapses'[<<o, k>>] >= lapses[<<o, k>>] /\ sent' = sent
          /\ lapses'[<<o, k>>] \in Nat /\ lapses[<<o, k>>] \in Nat /\ sent[<<o, k>>] \in Nat
      BY <1>2, LapsesType DEF TypeInv, Types
    <2>8. sent'[<<o, k>>] + Cardinality(Bound(<<o, k>>)') + Cardinality(Open(o, k)')
              + KeysMade(o, k) + lapses[<<o, k>>]
            <= sent[<<o, k>>] + Cardinality(Bound(<<o, k>>)) + Cardinality(Open(o, k))
                 + KeysMade(o, k)' + lapses'[<<o, k>>]
      <3> HIDE DEF Bound, Open, KeysMade
      <3> QED BY <2>1, <2>4, <2>5, <2>6, <2>7
    <2> QED BY <2>5, <2>6, <2>8, Balance
  <1> QED BY <1>9, <1>10

\* A handler of the effect itself.
LEMMA PaidHandler ==
  ASSUME TypeInv, KeyInv, [Next]_vars, NEW o \in Orders, NEW k \in Leaves, Paid(o, k),
         NEW s \in Slots, Work(s) \/ LoseLock(s), Leaf(JobOf(s)) = <<o, k>>
  PROVE  Paid(o, k)'
  <1>t. Types
    BY DEF TypeInv
  <1>1. PICK j \in Jobs : j = JobOf(s)
    BY HandlerFrame
  <1>2. /\ Running(s) /\ \A t \in Slots : t # s => slots'[t] = slots[t]
        /\ slots'[s] = Free \/ JobOf(s)' = j
        /\ marks \subseteq marks'
    BY <1>1, HandlerFrame
  <1>3. j.order = o /\ j.kind = k /\ j.kind # "process" /\ j.stamp \in Stamps(o, k)
    BY <1>1, <1>2, StepsType DEF Leaf, KeyInv, Made
  <1>4. slots[s].pc # "steps"
    BY <1>1, <1>2, <1>3 DEF TypeInv, Phases
  <1>5. ~AddChild(s) /\ UNCHANGED drawn
    <2>1. ~AddChild(s)
      BY <1>4 DEF AddChild
    <2> QED BY <2>1, HandlerFrame
  <1>6. /\ Open(o, k)' \subseteq Open(o, k) \cup {j}
        /\ (Blocks(s, j) => Blocks(s, j)' \/ j \in marks')
              => Open(o, k)' \subseteq Open(o, k)
        /\ Bound(<<o, k>>)' \subseteq Bound(<<o, k>>) \cup {s}
        /\ s \notin Bound(<<o, k>>)' => Bound(<<o, k>>)' \subseteq Bound(<<o, k>>) \ {s}
    BY <1>1, <1>2, <1>5, Around, OneSlot
  <1>7. /\ slots'[s].pc = "mark" \/ slots'[s].pc = "finish" \/ slots'[s] = Free
             => s \notin Bound(<<o, k>>)'
        /\ s \in Bound(<<o, k>>) <=> \/ slots[s].pc = "send"
                                     \/ slots[s].pc = "check" /\ ~slots[s].lock
        /\ slots[s].pc \in {"check", "finish"} => ~Blocks(s, j)
    BY <1>1, <1>2, <1>3 DEF Bound, Running, Leaf, Blocks
  <1>8. IsFiniteSet(Bound(<<o, k>>)) /\ IsFiniteSet(Open(o, k)) /\ KeysMade(o, k) \in Nat
    BY <1>t, PaidFinite
  <1>9. KeysMade(o, k)' = KeysMade(o, k)
    BY <1>5 DEF KeysMade
  <1>10. /\ lapses'[<<o, k>>] >= lapses[<<o, k>>]
         /\ lapses'[<<o, k>>] \in Nat /\ lapses[<<o, k>>] \in Nat /\ sent[<<o, k>>] \in Nat
    BY LapsesType DEF TypeInv, Types
  <1>11. LapseOf(j) => lapses'[<<o, k>>] = lapses[<<o, k>>] + 1
    BY <1>t, <1>3, LapseEffect DEF LapsesAt, Leaf
  <1>c. CASE Check(s)
    <2>1. slots[s].pc = "check" /\ sent' = sent
      BY <1>c DEF Check, history
    <2>2. slots'[s].pc = IF j \in marks THEN "finish" ELSE "send"
      BY <1>c, <1>1, <1>3, HandlerEffect DEF Turns, AfterCheck
    <2>3. CASE j \in marks
      BY <1>5, <1>6, <1>7, <2>1, <2>2, <2>3, Quiet
    <2>4. CASE j \notin marks /\ ~slots[s].lock
      <3>1. s \in Bound(<<o, k>>) /\ ~Blocks(s, j)
        BY <1>7, <2>1, <2>4
      <3>2. Bound(<<o, k>>)' \subseteq Bound(<<o, k>>) /\ Open(o, k)' \subseteq Open(o, k)
        BY <1>6, <3>1
      <3> QED BY <1>5, <2>1, <3>2, Quiet
    <2>5. CASE j \notin marks /\ slots[s].lock
      <3>1. Locked(s) /\ slots'[s].lock = slots[s].lock
        BY <1>2, <1>c, <2>5, HandlerEffect DEF Locked, Keeps
      <3>2. \A t \in Slots : ~Blocks(t, j)
        <4>1. ASSUME NEW t \in Slots, Blocks(t, j) PROVE FALSE
          <5>1. t = s
            BY <1>1, <3>1, <4>1 DEF Blocks, TypeInv, Locks
          <5> QED BY <2>1, <4>1, <5>1 DEF Blocks
        <4> QED BY <4>1
      <3>3. j \in Open(o, k)
        BY <1>3, <2>5, <3>2 DEF Open
      <3>4. Blocks(s, j)'
        BY <1>2, <1>c, <2>2, <2>5, <3>1, HandlerEffect DEF Blocks, Locked, Turns, Running
      <3>5. j \notin Open(o, k)'
        BY <3>4 DEF Open
      <3>6. ~Blocks(s, j)
        BY <1>7, <2>1
      <3>7. Open(o, k)' \subseteq Open(o, k) \ {j}
        BY <1>6, <3>5, <3>6
      <3>8. /\ Cardinality(Open(o, k)') + 1 <= Cardinality(Open(o, k))
            /\ Cardinality(Open(o, k)') \in Nat /\ Cardinality(Open(o, k)) \in Nat
        BY <1>8, <3>3, <3>7, OneLess
      <3>9. /\ Cardinality(Bound(<<o, k>>)') <= Cardinality(Bound(<<o, k>>)) + 1
            /\ Cardinality(Bound(<<o, k>>)') \in Nat /\ Cardinality(Bound(<<o, k>>)) \in Nat
        BY <1>6, <1>8, OneMore
      <3>10. sent'[<<o, k>>] + Cardinality(Bound(<<o, k>>)') + Cardinality(Open(o, k)')
                 + KeysMade(o, k) + lapses[<<o, k>>]
               <= sent[<<o, k>>] + Cardinality(Bound(<<o, k>>)) + Cardinality(Open(o, k))
                    + KeysMade(o, k)' + lapses'[<<o, k>>]
        <4> HIDE DEF Bound, Open, KeysMade
        <4> QED BY <1>8, <1>9, <1>10, <2>1, <3>8, <3>9
      <3> QED BY <3>8, <3>9, <3>10, Balance
    <2> QED BY <2>3, <2>4, <2>5
  <1>u. CASE CheckUnanswered(s)
    <2>1. slots[s].pc = "check" /\ sent' = sent /\ LapseOf(j)
      BY <1>u, <1>1 DEF CheckUnanswered
    <2>2. Open(o, k)' \subseteq Open(o, k) /\ Bound(<<o, k>>)' \subseteq Bound(<<o, k>>) \cup {s}
      BY <1>6, <1>7, <2>1
    <2> QED BY <1>5, <1>11, <2>1, <2>2, Lapsing
  <1>s. CASE Send(s)
    <2>1. slots[s].pc = "send" /\ slots'[s].pc = "mark"
      BY <1>s, HandlerEffect DEF Turns, Send
    <2>2. s \in Bound(<<o, k>>) /\ Bound(<<o, k>>)' \subseteq Bound(<<o, k>>) \ {s}
      BY <1>6, <1>7, <2>1
    <2>3. Blocks(s, j) => Blocks(s, j)'
      <3>1. slots'[s].lock = slots[s].lock /\ Running(s)' /\ JobOf(s)' = JobOf(s)
        BY <1>s, HandlerEffect DEF Keeps, Turns
      <3> QED BY <1>1, <2>1, <3>1 DEF Blocks, Locked
    <2>4. Open(o, k)' \subseteq Open(o, k)
      BY <1>6, <2>3
    <2>5. sent'[<<o, k>>] = sent[<<o, k>>] + 1
      <3>1. sent' = [sent EXCEPT ![<<o, k>>] = @ + 1]
        BY <1>s, <1>1, <1>3 DEF Send, Effect
      <3> QED BY <1>t, <3>1 DEF Types
    <2>6. /\ Cardinality(Bound(<<o, k>>)') + 1 <= Cardinality(Bound(<<o, k>>))
          /\ Cardinality(Bound(<<o, k>>)') \in Nat /\ Cardinality(Bound(<<o, k>>)) \in Nat
      BY <1>8, <2>2, OneLess
    <2>7. /\ Cardinality(Open(o, k)') <= Cardinality(Open(o, k))
          /\ Cardinality(Open(o, k)') \in Nat /\ Cardinality(Open(o, k)) \in Nat
      BY <1>8, <2>4, Within
    <2>8. sent'[<<o, k>>] + Cardinality(Bound(<<o, k>>)') + Cardinality(Open(o, k)')
              + KeysMade(o, k) + lapses[<<o, k>>]
            <= sent[<<o, k>>] + Cardinality(Bound(<<o, k>>)) + Cardinality(Open(o, k))
                 + KeysMade(o, k)' + lapses'[<<o, k>>]
      <3> HIDE DEF Bound, Open, KeysMade
      <3> QED BY <1>8, <1>9, <1>10, <2>5, <2>6, <2>7
    <2> QED BY <2>6, <2>7, <2>8, Balance
  <1>m. CASE Mark(s)
    <2>1. slots'[s].pc = "finish" /\ j \in marks' /\ sent' = sent
      BY <1>m, <1>1, HandlerEffect DEF Turns, Mark, history
    <2> QED BY <1>5, <1>6, <1>7, <2>1, Quiet
  <1>f. CASE Finish(s)
    <2>1. slots'[s] = Free /\ slots[s].pc = "finish" /\ sent' = sent
      BY <1>f, HandlerEffect DEF Frees, Finish, history
    <2> QED BY <1>5, <1>6, <1>7, <2>1, Quiet
  <1>h. CASE Throw(s)
    <2>1. slots'[s] = Free /\ slots[s].pc \in {"send", "mark"} /\ sent' = sent
      BY <1>4, <1>h, HandlerEffect DEF Frees, Throw
    <2>2. CASE slots[s].pc = "mark"
      <3>1. LapseOf(j)
        BY <1>1, <1>h, <2>2 DEF Throw
      <3>2. Bound(<<o, k>>)' \subseteq Bound(<<o, k>>)
        BY <1>6, <1>7, <2>1
      <3> QED BY <1>5, <1>6, <1>11, <2>1, <3>1, <3>2, Lapsing
    <2>3. CASE slots[s].pc = "send"
      <3>1. s \in Bound(<<o, k>>) /\ Bound(<<o, k>>)' \subseteq Bound(<<o, k>>) \ {s}
        BY <1>6, <1>7, <2>1, <2>3
      <3>2. /\ Cardinality(Bound(<<o, k>>)') + 1 <= Cardinality(Bound(<<o, k>>))
            /\ Cardinality(Bound(<<o, k>>)') \in Nat /\ Cardinality(Bound(<<o, k>>)) \in Nat
        BY <1>8, <3>1, OneLess
      <3>3. /\ Cardinality(Open(o, k)') <= Cardinality(Open(o, k)) + 1
            /\ Cardinality(Open(o, k)') \in Nat /\ Cardinality(Open(o, k)) \in Nat
        BY <1>6, <1>8, OneMore
      <3>4. sent'[<<o, k>>] + Cardinality(Bound(<<o, k>>)') + Cardinality(Open(o, k)')
                + KeysMade(o, k) + lapses[<<o, k>>]
              <= sent[<<o, k>>] + Cardinality(Bound(<<o, k>>)) + Cardinality(Open(o, k))
                   + KeysMade(o, k)' + lapses'[<<o, k>>]
        <4> HIDE DEF Bound, Open, KeysMade
        <4> QED BY <1>8, <1>9, <1>10, <2>1, <3>2, <3>3
      <3> QED BY <3>2, <3>3, <3>4, Balance
    <2> QED BY <2>1, <2>2, <2>3
  <1>l. CASE LoseLock(s)
    <2>1. /\ slots'[s].pc = slots[s].pc /\ Running(s)' /\ JobOf(s)' = j /\ sent' = sent
          /\ LapseOf(j)
      BY <1>1, <1>l, HandlerEffect DEF Turns, LoseLock
    <2>2. CASE slots[s].pc = "check"
      <3>1. Open(o, k)' \subseteq Open(o, k)
        BY <1>6, <1>7, <2>2
      <3> QED BY <1>5, <1>6, <1>11, <2>1, <3>1, Lapsing
    <2>3. CASE slots[s].pc # "check"
      <3>1. slots[s].pc \in {"send", "mark", "finish"}
        BY <1>t, <1>2, <1>4, <2>3, SlotType
      <3>2. Bound(<<o, k>>)' \subseteq Bound(<<o, k>>)
        BY <1>6, <1>7, <2>1, <3>1
      <3> QED BY <1>5, <1>6, <1>11, <2>1, <3>2, Lapsing
    <2> QED BY <2>2, <2>3
  <1> QED
    BY <1>5, <1>c, <1>u, <1>s, <1>m, <1>f, <1>h, <1>l DEF Work

\* A slot takes a job: it is not bound to the effect and blocks nothing yet.
LEMMA PaidTake ==
  ASSUME TypeInv, [Next]_vars, NEW o \in Orders, NEW k \in Leaves, Paid(o, k),
         NEW s \in Slots, NEW i \in DOMAIN jobs, Take(s, i)
  PROVE  Paid(o, k)'
  <1>1. /\ \A t \in Slots : t # s => slots'[t] = slots[t]
        /\ slots'[s].pc = "check" /\ slots'[s].lock = TRUE /\ ~Running(s)
    BY TakeEffect DEF TypeInv
  <1>2. marks' = marks /\ drawn' = drawn /\ sent' = sent
    BY DEF Take, history
  <1>3. s \notin Bound(<<o, k>>)' /\ \A j : ~Blocks(s, j)
    BY <1>1 DEF Bound, Blocks, Locked
  <1>4. Bound(<<o, k>>)' \subseteq Bound(<<o, k>>)
    BY <1>1, <1>3, OneSlot
  <1>5. \A j : (\A t \in Slots : ~Blocks(t, j))' => \A t \in Slots : ~Blocks(t, j)
    BY <1>1, <1>3, OneSlot
  <1>6. Open(o, k)' \subseteq Open(o, k)
    BY <1>2, <1>5 DEF Open, Stamps
  <1> QED BY <1>2, <1>4, <1>6, Quiet

\* A mark expires: its key may be used once more.
LEMMA PaidExpire ==
  ASSUME TypeInv, [Next]_vars, NEW o \in Orders, NEW k \in Leaves, Paid(o, k),
         NEW j \in marks, Expire(j)
  PROVE  Paid(o, k)'
  <1>1. /\ slots' = slots /\ drawn' = drawn /\ sent' = sent
        /\ marks' = marks \ {j} /\ LapseOf(j) /\ j \in Jobs
    BY DEF Expire, TypeInv, Types
  <1>2. Bound(<<o, k>>)' = Bound(<<o, k>>) /\ \A i, t : Blocks(t, i)' <=> Blocks(t, i)
    BY <1>1 DEF Bound, Blocks, Locked, Running, JobOf
  <1>3. Open(o, k)' \subseteq Open(o, k) \cup {j}
    BY <1>1, <1>2 DEF Open, Stamps
  <1>4. CASE Leaf(j) = <<o, k>>
    <2>1. j.kind # "process"
      BY <1>4, StepsType DEF Leaf
    <2>2. lapses'[<<o, k>>] = lapses[<<o, k>>] + 1
      BY <1>1, <1>4, <2>1, LapseEffect DEF LapsesAt, TypeInv
    <2> QED BY <1>1, <1>2, <1>3, <2>2, Lapsing
  <1>5. CASE Leaf(j) # <<o, k>>
    <2>1. j \notin Open(o, k)'
      BY <1>5 DEF Open, Leaf
    <2> QED BY <1>1, <1>2, <1>3, <2>1, Quiet
  <1> QED BY <1>4, <1>5

\* A crash: the handlers that were having the effect no longer will, and a
\* lapse is counted for each that had had it.
LEMMA PaidCrash ==
  ASSUME TypeInv, [Next]_vars, NEW o \in Orders, NEW k \in Leaves, Paid(o, k), Crash
  PROVE  Paid(o, k)'
  <1> DEFINE l == <<o, k>>
             D == Dying(l)
             B == Bound(l)
             T == Open(o, k)' \ Open(o, k)
             f == [s \in D \cup B |-> JobOf(s)]
  <1>1. /\ \A s \in Slots : slots'[s] = Free
        /\ drawn' = drawn /\ sent' = sent /\ marks' = marks
    BY DEF Crash
  <1>2. Bound(l)' = {}
    BY <1>1 DEF Bound, Running
  <1>3. lapses'[l] = lapses[l] + Cardinality(D) /\ IsFiniteSet(D)
    BY CrashLapses, DyingFinite DEF TypeInv
  <1>4. IsFiniteSet(B) /\ IsFiniteSet(Open(o, k)) /\ KeysMade(o, k) \in Nat
    BY PaidFinite DEF TypeInv
  <1>5. KeysMade(o, k)' = KeysMade(o, k)
    BY <1>1 DEF KeysMade
  <1>6. \A j \in T : \E s \in D \cup B : f[s] = j
    <2> SUFFICES ASSUME NEW j \in Open(o, k)', j \notin Open(o, k)
                 PROVE  \E s \in D \cup B : JobOf(s) = j
      OBVIOUS
    <2>1. /\ j \in Jobs /\ j.order = o /\ j.kind = k /\ j.stamp \in Stamps(o, k)
          /\ j \notin marks
      BY <1>1 DEF Open, Stamps
    <2>2. PICK s \in Slots : Blocks(s, j)
      BY <2>1 DEF Open
    <2>3. /\ Running(s) /\ JobOf(s) = j /\ Leaf(j) = l
          /\ slots[s].pc \in {"send", "mark"}
      BY <2>1, <2>2 DEF Blocks, Locked, Leaf
    <2>4. s \in D \cup B
      BY <2>3 DEF Dying, Bound, Leaf
    <2> QED BY <2>3, <2>4
  <1> HIDE DEF f, T
  <1>7. /\ IsFiniteSet(D \cup B) /\ Cardinality(D) \in Nat /\ Cardinality(B) \in Nat
        /\ Cardinality(D \cup B) <= Cardinality(D) + Cardinality(B)
    <2> HIDE DEF D, B
    <2>1. /\ IsFiniteSet(D \cup B)
          /\ Cardinality(D \cup B) = Cardinality(D) + Cardinality(B) - Cardinality(D \cap B)
      BY <1>3, <1>4, FS_Union
    <2>2. IsFiniteSet(D \cap B)
      BY <1>3, FS_Subset
    <2> QED BY <1>3, <1>4, <2>1, <2>2, FS_CardinalityType
  <1>8. IsFiniteSet(T) /\ Cardinality(T) <= Cardinality(D \cup B) /\ Cardinality(T) \in Nat
        /\ Cardinality(D \cup B) \in Nat
    <2> HIDE DEF D, B
    <2>1. IsFiniteSet(T) /\ Cardinality(T) <= Cardinality(D \cup B)
      BY <1>6, <1>7, Covered
    <2> QED BY <1>7, <2>1, FS_CardinalityType
  <1> DEFINE U == Open(o, k) \cup T
  <1>9. /\ IsFiniteSet(U) /\ Cardinality(U) <= Cardinality(Open(o, k)) + Cardinality(T)
        /\ Cardinality(Open(o, k)) \in Nat
    <2> HIDE DEF Open
    <2>1. /\ IsFiniteSet(U)
          /\ Cardinality(U) = Cardinality(Open(o, k)) + Cardinality(T)
                                - Cardinality(Open(o, k) \cap T)
      BY <1>4, <1>8, FS_Union
    <2>2. IsFiniteSet(Open(o, k) \cap T)
      BY <1>4, FS_Subset
    <2> QED BY <1>4, <1>8, <2>1, <2>2, FS_CardinalityType
  <1>10. Open(o, k)' \subseteq U
    BY DEF T
  <1> HIDE DEF U
  <1>11. /\ Cardinality(Open(o, k)') <= Cardinality(U) /\ Cardinality(Open(o, k)') \in Nat
         /\ Cardinality(U) \in Nat
    BY <1>9, <1>10, Within
  <1>12. Cardinality(Bound(l)') = 0
    BY <1>2, FS_EmptySet
  <1>13. sent[l] \in Nat /\ lapses[l] \in Nat
    BY DEF TypeInv, Types
  <1>14. sent'[l] + Cardinality(Bound(l)') + Cardinality(Open(o, k)')
             + KeysMade(o, k) + lapses[l]
           <= sent[l] + Cardinality(Bound(l)) + Cardinality(Open(o, k))
                + KeysMade(o, k)' + lapses'[l]
    <2> HIDE DEF l, D, Bound, Open, KeysMade
    <2> QED BY <1>1, <1>3, <1>4, <1>5, <1>7, <1>8, <1>9, <1>11, <1>12, <1>13
  <1>15. Cardinality(Bound(l)') \in Nat
    BY <1>12
  <1> QED BY <1>11, <1>14, <1>15, Balance

LEMMA PaidStep == TypeInv /\ PaidInv /\ [Next]_vars => PaidInv'
  <1> SUFFICES ASSUME TypeInv, PaidInv, [Next]_vars PROVE PaidInv'
    OBVIOUS
  <1>1. KeyInv /\ KeyInv'
    BY KeyStep DEF PaidInv
  <1>2. ASSUME NEW o \in Orders, NEW k \in Leaves
        PROVE  Paid(o, k)'
    <2>0. Paid(o, k)
      BY DEF PaidInv
    <2>1. ASSUME NEW s \in Slots, Work(s) \/ LoseLock(s)
          PROVE  Paid(o, k)'
      <3>1. CASE Leaf(JobOf(s)) = <<o, k>>
        BY <1>1, <2>0, <2>1, <3>1, PaidHandler
      <3>2. CASE Leaf(JobOf(s)) # <<o, k>> /\ UNCHANGED drawn
        BY <2>0, <2>1, <3>2, PaidElsewhere
      <3>3. CASE ~UNCHANGED drawn
        <4>1. AddChild(s)
          BY <2>1, <3>3, HandlerFrame
        <4> QED BY <2>0, <3>3, <4>1, PaidAddChild
      <3> QED BY <3>1, <3>2, <3>3
    <2>2. ASSUME NEW s \in Slots, NEW j \in DOMAIN jobs, Take(s, j)
          PROVE  Paid(o, k)'
      BY <2>0, <2>2, PaidTake
    <2>3. ASSUME NEW j \in marks, Expire(j)
          PROVE  Paid(o, k)'
      BY <2>0, <2>3, PaidExpire
    <2>4. CASE Crash
      BY <2>0, <2>4, PaidCrash
    <2>5. CASE UNCHANGED <<slots, marks, drawn, sent>>
      <3>1. Bound(<<o, k>>)' = Bound(<<o, k>>)
        BY <2>5 DEF Bound, Running, JobOf
      <3>2. Open(o, k)' = Open(o, k)
        BY <2>5 DEF Open, Stamps, Blocks, Locked, Running, JobOf
      <3> QED BY <2>0, <2>5, <3>1, <3>2, Quiet
    <2>6. \/ UNCHANGED <<slots, marks, drawn, sent>> \/ Crash
          \/ \E s \in Slots : Work(s) \/ LoseLock(s)
          \/ \E s \in Slots, j \in DOMAIN jobs : Take(s, j)
          \/ \E j \in marks : Expire(j)
      BY DEF Next, vars, history, Submit, Recover, Forget, RetryJob
    <2> QED BY <2>1, <2>2, <2>3, <2>4, <2>5, <2>6
  <1> QED BY <1>1, <1>2 DEF PaidInv

\* An effect is repeated only for a reason: beyond one effect for each key
\* made, every mail, log row or notification of an order is paid for by a
\* lost lock, a mark that expired or was never set, or a check that Redis did
\* not answer (jobs/processors/job.processors.ts, services/idempotency.service.ts).
THEOREM RepeatsArePaid == Spec => []RepeatsExplained
  <1>1. Init => TypeInv /\ PaidInv
    BY InitTypes, InitPaid
  <1>2. TypeInv /\ PaidInv /\ [Next]_vars => (TypeInv /\ PaidInv)'
    BY TypeStep, PaidStep
  <1>3. TypeInv /\ PaidInv => RepeatsExplained
    <2> SUFFICES ASSUME TypeInv, PaidInv, NEW o \in Orders, NEW k \in Leaves
                 PROVE  sent[<<o, k>>] <= KeysMade(o, k) + lapses[<<o, k>>]
      BY DEF RepeatsExplained
    <2>1. /\ Cardinality(Bound(<<o, k>>)) \in Nat /\ Cardinality(Open(o, k)) \in Nat
          /\ KeysMade(o, k) \in Nat
      BY PaidFinite DEF TypeInv
    <2>2. sent[<<o, k>>] \in Nat /\ lapses[<<o, k>>] \in Nat
      BY DEF TypeInv, Types
    <2>3. Paid(o, k)
      BY DEF PaidInv
    <2> HIDE DEF Bound, Open, KeysMade
    <2> QED BY <2>1, <2>2, <2>3 DEF Paid
  <1> QED BY <1>1, <1>2, <1>3, PTL DEF Spec

-----------------------------------------------------------------------------
(* Start and shutdown: Lifecycle, of the process in which these jobs run.  *)

StopTypes ==
  /\ workers = [q \in Queues |-> workers[q]]
  /\ busy = [q \in Queues |-> busy[q]]
  /\ stops = [s \in Stops |-> stops[s]]
  /\ \A s \in Stops : stops[s] \in [pc : {"idle", "workers", "queues"}, n : Nat]

\* A run of gracefulShutdown that has come to the queues, and a queue that is
\* closed, have the workers behind them; a closed worker runs no job.
StopInv ==
  /\ StopTypes
  /\ \A s \in Stops : IF stops[s].pc = "queues" THEN WorkersStopped ELSE stops[s].n = 0
  /\ closed # {} => WorkersStopped
  /\ \A q \in Queues : workers[q] = "closed" => ~busy[q]
  /\ 0 \notin cut

LEMMA QueuesAre == Len(QueueNames) # 0
  <1>1. PICK i \in DOMAIN QueueNames : QueueNames[i] = "process"
    BY LifecycleAssumption DEF Queues, ToSet
  <1> QED BY <1>1

LEMMA StopInvInit == LifecycleInit => StopInv
  BY DEF LifecycleInit, StopInv, StopTypes, Idle, WorkersStopped

\* The process ends: with code 0 only when no job runs.
LEMMA GoneKeeps ==
  ASSUME StopInv, NEW code, Gone(code), code = 0 => WorkersStopped
  PROVE  StopInv'
  <1>1. /\ UNCHANGED <<workers, closed, stops>>
        /\ busy' = [q \in Queues |-> FALSE]
        /\ cut' = IF \E q \in Queues : busy[q] THEN cut \cup {code} ELSE cut
    BY DEF Gone
  <1>2. 0 \notin cut'
    <2>1. code = 0 => \A q \in Queues : ~busy[q]
      BY DEF StopInv, WorkersStopped
    <2> QED BY <1>1, <2>1 DEF StopInv
  <1> QED BY <1>1, <1>2 DEF StopInv, StopTypes, WorkersStopped

\* A step that starts no run of the shutdown and closes nothing.
LEMMA WorkKeeps ==
  ASSUME StopInv, StopTypes', UNCHANGED <<closed, stops, cut>>,
         \A q \in Queues : workers[q] = "closed" => workers'[q] = "closed",
         \A q \in Queues : workers'[q] = "closed" => ~busy'[q]
  PROVE  StopInv'
  BY DEF StopInv, WorkersStopped

LEMMA StopInvStep ==
  ASSUME StopInv, [LifecycleNext]_lifecycleVars
  PROVE  StopInv'
  <1> USE DEF StopInv, StopTypes
  <1>1. CASE Start
    BY <1>1 DEF Start, Started, Idle, WorkersStopped
  <1>2. CASE AddJob \/ UNCHANGED lifecycleVars
    <2>1. UNCHANGED <<workers, busy, closed, stops, cut>>
      BY <1>2 DEF AddJob, lifecycleVars
    <2> QED BY <2>1 DEF WorkersStopped
  <1>3. CASE Kill
    BY <1>3, GoneKeeps DEF Kill
  <1>4. ASSUME NEW q \in Queues, RunJobs(q) \/ WorkerCloses(q)
        PROVE  StopInv'
    <2>1. CASE TakeJob(q)
      BY <2>1, WorkKeeps DEF TakeJob
    <2>2. CASE FinishJob(q)
      BY <2>2, WorkKeeps DEF FinishJob
    <2>3. CASE WorkerCloses(q)
      BY <2>3, WorkKeeps DEF WorkerCloses
    <2> QED BY <1>4, <2>1, <2>2, <2>3 DEF RunJobs
  <1>5. ASSUME NEW s \in Stops, Signal(s) PROVE StopInv'
    <2>1. /\ stops' = [stops EXCEPT ![s].pc = "workers"] /\ stops[s].pc = "idle"
          /\ workers' = [q \in Queues |->
               IF workers[q] = "on" THEN "closing" ELSE workers[q]]
          /\ UNCHANGED <<busy, closed, cut>>
      BY <1>5 DEF Signal
    <2>2. WorkersStopped => WorkersStopped'
      BY <2>1 DEF WorkersStopped
    <2> QED BY <2>1, <2>2
  <1>6. ASSUME NEW s \in Stops, CloseQueue(s) PROVE StopInv'
    <2>1. /\ WorkersStopped
          /\ stops' = [stops EXCEPT ![s] = [pc |-> "queues", n |-> stops[s].n + 1]]
          /\ UNCHANGED <<workers, busy, cut>>
      BY <1>6 DEF CloseQueue
    <2>2. WorkersStopped'
      BY <2>1 DEF WorkersStopped
    <2> QED BY <2>1, <2>2
  <1>7. ASSUME NEW s \in Stops, Exit(s) \/ ExitFailed(s) PROVE StopInv'
    <2>1. CASE Exit(s)
      <3>1. Gone(0) /\ stops[s].n # 0
        BY <2>1, QueuesAre DEF Exit
      <3> QED BY <3>1, GoneKeeps
    <2>2. CASE ExitFailed(s)
      BY <2>2, GoneKeeps DEF ExitFailed
    <2> QED BY <1>7, <2>1, <2>2
  <1> QED
    BY <1>1, <1>2, <1>3, <1>4, <1>5, <1>6, <1>7 DEF LifecycleNext, Proceed

\* However many signals and errors enter gracefulShutdown, and whenever: while a job
\* runs, every queue is open to it, and a process that ends with code 0 cuts
\* no job off.
THEOREM JobsAreUndisturbed == LifecycleSpec => []JobsUndisturbed
  <1>1. StopInv => JobsUndisturbed
    BY DEF StopInv, JobsUndisturbed, WorkersStopped
  <1>2. StopInv /\ [LifecycleNext]_lifecycleVars => StopInv'
    BY StopInvStep
  <1> QED
    BY <1>1, <1>2, StopInvInit, PTL DEF LifecycleSpec
=============================================================================
