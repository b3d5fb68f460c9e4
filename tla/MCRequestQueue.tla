--------------------------- MODULE MCRequestQueue ---------------------------
(* Instances of RequestQueue for TLC: the window lets one request through,  *)
(* two more are queued; two ticks and one poll overlap.                     *)
EXTENDS RequestQueue, TLC
CONSTANTS r1, r2, r3, w1, w2, p1
=============================================================================
