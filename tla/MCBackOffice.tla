---------------------------- MODULE MCBackOffice ----------------------------
(* Instances of BackOffice for TLC: a superadmin and a user, three requests,   *)
(* one name in two spellings.                                                 *)
EXTENDS BackOffice, TLC

CONSTANTS q1, q2, q3, root, ann, eve, Eve, milk, eggs

MCSeed == <<[name |-> root, role |-> "superadmin", password |-> "seed"],
            [name |-> ann, role |-> "user", password |-> "seed"]>>
MCNormal == eve :> eve @@ Eve :> eve
MCBodies == {[text |-> eggs, done |-> Nothing], [text |-> Nothing, done |-> TRUE],
             [text |-> milk, done |-> FALSE]}
Anyone == Permutations(Requests)
=============================================================================
