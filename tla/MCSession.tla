----------------------------- MODULE MCSession -----------------------------
(* Constants and bounds of the Session run. *)
EXTENDS Session

CONSTANTS r1, r2, w1, w2, domain
=============================================================================
