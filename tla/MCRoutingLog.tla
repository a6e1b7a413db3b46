---------------------------- MODULE MCRoutingLog ----------------------------
(* Instances of RoutingLog for TLC.                                        *)
EXTENDS RoutingLog, TLC

CONSTANTS e1, e2, e3, r1, r2
=============================================================================
