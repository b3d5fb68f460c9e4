----------------------------- MODULE MCListing -----------------------------
(* An instance of Listing for TLC: two searches, two filters, two versions   *)
(* of a database in which a search matches up to three pages, and rows come  *)
(* and go.                                                                   *)
EXTENDS Listing, TLC

MCPages == <<("" :> ("all" :> 3 @@ "some" :> 1) @@ "x" :> ("all" :> 2 @@ "some" :> 0)),
             ("" :> ("all" :> 2 @@ "some" :> 2) @@ "x" :> ("all" :> 1 @@ "some" :> 1))>>
=============================================================================
