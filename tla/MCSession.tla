----------------------------- MODULE MCSession -----------------------------
(* An instance of Session for TLC: two tabs, a superadmin and a user.        *)
EXTENDS Session, TLC

CONSTANTS t1, t2, root, ann

MCInitRole == root :> "superadmin" @@ ann :> "user"
AnyTab == Permutations(Tabs)
=============================================================================
