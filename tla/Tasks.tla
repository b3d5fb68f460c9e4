------------------------------- MODULE Tasks -------------------------------
(***************************************************************************)
(* The tasks of the users (api/v1/tasks/tasks.service.ts).  A task has two *)
(* fields here: text stands for title, description and deadline, which an  *)
(* update keeps when the body leaves them out or empty, done for status,   *)
(* which it keeps only when the body leaves it out.                        *)
(***************************************************************************)
EXTENDS Api

CONSTANTS
  Texts,   \* what a title may be
  Bodies   \* the bodies an update may carry

VARIABLES
  tasks,     \* the rows of tasks, by id: [owner, text, done]
  nextTask,  \* the sequence that ids are drawn from
  seen,      \* the row that a request's service has read
  last       \* history: last[t][f], the last update answered that named
             \* field f of task t

taskVars == <<tasks, nextTask, seen, last>>

Fields == {"text", "done"}

ASSUME TasksAssumption ==
  Bodies \subseteq [text : Texts \cup {Nothing}, done : BOOLEAN \cup {Nothing}]

NoUpdate == [f \in Fields |-> Nothing]

\* The first account has a task.
TasksInit ==
  /\ tasks = [t \in {1} |->
       [owner |-> 1, text |-> CHOOSE x \in Texts : TRUE, done |-> FALSE]]
  /\ nextTask = 2
  /\ seen = [r \in Requests |-> Nothing]
  /\ last = [t \in {1} |-> NoUpdate]

CreateTask(r) ==
  \E x \in Texts, d \in BOOLEAN :
    Send(r, [kind |-> "createTask", text |-> x, done |-> d])

\* SCreateTask, for the sender of the request.
WriteNewTask(r) ==
  /\ At(r, "admitted")
  /\ Kind(r) = "createTask"
  /\ tasks' = [t \in DOMAIN tasks \cup {nextTask} |->
       IF t = nextTask
         THEN [owner |-> Sender(r), text |-> Ask(r).text, done |-> Ask(r).done]
         ELSE tasks[t]]
  /\ last' = Append(last, NoUpdate)
  /\ nextTask' = nextTask + 1
  /\ Answer(r, "ok")
  /\ UNCHANGED seen

ChangeTask(r) ==
  \E t \in 1..nextTask - 1 :
    \/ Send(r, [kind |-> "deleteTask", task |-> t])
    \/ \E b \in Bodies : Send(r, [kind |-> "updateTask", task |-> t, body |-> b])

Existing(t) == t \in DOMAIN tasks
MayChange(r, t) ==
  requests[r].role = "superadmin" \/ tasks[t].owner = Sender(r)

\* SUpdateTask and SDeleteTask read the task and check the permission with
\* the role that MAuthToken read.
ReadTask(r) ==
  /\ At(r, "admitted")
  /\ Kind(r) \in {"updateTask", "deleteTask"}
  /\ IF Existing(Ask(r).task) /\ MayChange(r, Ask(r).task)
       THEN /\ seen' = [seen EXCEPT ![r] = tasks[Ask(r).task]]
            /\ Answer(r, "writing")
       ELSE /\ Answer(r, "failed")
            /\ UNCHANGED seen
  /\ UNCHANGED <<tasks, nextTask, last>>

\* Mutant: status falls back like the other fields do, and cannot be taken
\* back to false.
MergedByTruth(new, old) ==
  [old EXCEPT !.text = IF new.text = Nothing THEN @ ELSE new.text,
              !.done = IF new.done = TRUE THEN new.done ELSE @]

\* The row an update writes: every field, from the body or from the row read.
Merged(new, old) ==
  [old EXCEPT !.text = IF new.text = Nothing THEN @ ELSE new.text,
              !.done = IF new.done = Nothing THEN @ ELSE new.done]

\* A row that has gone meanwhile makes the update fail.
WriteTask(r) ==
  LET t == Ask(r).task
      b == Ask(r).body
  IN
  /\ At(r, "writing")
  /\ Kind(r) = "updateTask"
  /\ IF Existing(t)
       THEN /\ tasks' = [tasks EXCEPT ![t] = Merged(b, seen[r])]
            /\ last' = [last EXCEPT ![t] =
                 [f \in Fields |-> IF b[f] = Nothing THEN @[f] ELSE r]]
            /\ Answer(r, "ok")
       ELSE /\ Answer(r, "failed")
            /\ UNCHANGED <<tasks, last>>
  /\ UNCHANGED <<nextTask, seen>>

RemoveTask(r) ==
  /\ At(r, "writing")
  /\ Kind(r) = "deleteTask"
  /\ IF Existing(Ask(r).task)
       THEN /\ tasks' = [t \in DOMAIN tasks \ {Ask(r).task} |-> tasks[t]]
            /\ Answer(r, "ok")
       ELSE /\ Answer(r, "failed")
            /\ UNCHANGED tasks
  /\ UNCHANGED <<nextTask, seen, last>>

TasksStep(r) ==
  \/ (CreateTask(r) \/ ChangeTask(r)) /\ UNCHANGED taskVars
  \/ WriteNewTask(r) \/ ReadTask(r) \/ WriteTask(r) \/ RemoveTask(r)

-----------------------------------------------------------------------------
\* Updates write back what they read, so concurrent ones undo each other; but
\* only concurrent ones: what an answered update wrote in a field stands
\* until a request that was in flight together with it, or a later one that
\* names the field, writes it.
UndoneOnlyByRivals ==
  \A t \in DOMAIN tasks, f \in Fields :
    LET r == last[t][f] IN
    r # Nothing /\ tasks[t][f] # Ask(r).body[f] =>
      \E s \in rivals[r] : Kind(s) = "updateTask" /\ Ask(s).task = t /\ At(s, "ok")
=============================================================================
