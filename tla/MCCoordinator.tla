--------------------------- MODULE MCCoordinator ---------------------------
(***************************************************************************)
(* The two loops under the coordinator: one or two messages, plans without *)
(* steps (what a step does to the board is checked by MCDualLoop), and one *)
(* restart, after which nothing is left that a second one could find.  The *)
(* first life may be killed at any moment, or stopped as long as only one  *)
(* of the two tasks was made; the second is only killed.  MCOverlap        *)
(* has no restart and two saves of the timer at once, as when a write      *)
(* takes longer than the interval.                                         *)
(***************************************************************************)
EXTENDS Coordinator
=============================================================================
