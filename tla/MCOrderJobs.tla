---------------------------- MODULE MCOrderJobs ----------------------------
(* Instances of OrderJobs for TLC: one order whose processing job has a     *)
(* child with a stamped key and one with a plain key.  One slot runs only   *)
(* processing jobs, the other every kind, so that two handlers of the same  *)
(* processing job, or a parent and its child, can run at once.              *)
EXTENDS OrderJobs, TLC

CONSTANTS o1, s1, s2

MCSteps == <<"activity", "notification">>
MCServes == s1 :> {"process"} @@ s2 :> Kinds
=============================================================================
