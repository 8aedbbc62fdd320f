----------------------------- MODULE MCDualLoop -----------------------------
(***************************************************************************)
(* The two loops with two tasks: one person's message and an event or a    *)
(* goal, which the person's task outranks; plans of up to two steps with a *)
(* check for urgent work between them, one round of fixes and one revision.*)
(* With MaxActive = 1 the second task finds the board full.                *)
(***************************************************************************)
EXTENDS DualLoop
=============================================================================
