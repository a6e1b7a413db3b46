--------------------------- MODULE MCApprovalGate ---------------------------
(* Instances of ApprovalGate for TLC: two commands ask at once.            *)
EXTENDS ApprovalGate, TLC

CONSTANTS h1, h2

=============================================================================
