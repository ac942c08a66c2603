----------------------------- MODULE MCMetrics -----------------------------
(* Constants and bounds of the metrics run, which also evaluates what is claimed of
   the purity report on every answer of the services. *)
EXTENDS Metrics, Purity

CONSTANTS p1, p2, v1

ASSUME ReportsAreSound == GeoFollowsVotes /\ VerdictIsConsistent
=============================================================================
