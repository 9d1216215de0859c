---------------------------- MODULE MCHousekeeping ----------------------------
(* Instances of Housekeeping for TLC. *)
EXTENDS Housekeeping

AllPolicies == [cleans : BOOLEAN, keepsFailed : BOOLEAN, successFor : {0, 1}]
Lines == [c \in Reports |-> CASE c = "long" -> 3 [] c = "short" -> 2 [] OTHER -> 0]
=============================================================================
