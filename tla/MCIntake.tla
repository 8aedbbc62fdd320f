------------------------------ MODULE MCIntake ------------------------------
(***************************************************************************)
(* Two people and four messages: enough for one person's group to be put   *)
(* back while the other's is triaged and more arrives from both.  The      *)
(* people are not declared symmetric: a liveness property is checked.      *)
(***************************************************************************)
EXTENDS Intake
=============================================================================
