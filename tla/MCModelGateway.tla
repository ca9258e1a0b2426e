---------------------------- MODULE MCModelGateway ----------------------------
(* An instance of ModelGateway for TLC.                                     *)
EXTENDS ModelGateway

CONSTANTS parent, child1, child2
=============================================================================
