------------------------------ MODULE MCUpgrade ------------------------------
(* Constants of the Upgrade runs. *)
EXTENDS Upgrade

CONSTANTS p1, p2, v1

TwoClicks == {p1, p2}
OneViewer == {v1}
=============================================================================
