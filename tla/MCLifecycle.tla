---------------------------- MODULE MCLifecycle ----------------------------
(* An instance of Lifecycle for TLC: the shutdown is begun three times, and *)
(* two queues stand beside that of the processing jobs.                     *)
EXTENDS Lifecycle

MCQueueNames == <<"email", "activity", "process">>
=============================================================================
