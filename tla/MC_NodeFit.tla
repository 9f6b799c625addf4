---------------------------- MODULE MC_NodeFit ----------------------------
(* Two tracked nodes and a name the delta does not track; resources small  *)
(* enough that availability can be negative, equal or ahead.              *)
EXTENDS NodeFit, TLC

CONSTANTS a, b, c

=============================================================================
