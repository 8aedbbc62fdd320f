----------------------------- MODULE MCToolLoop -----------------------------
(***************************************************************************)
(* Two steps of up to three phases, two calls and two files.  The limits   *)
(* are small enough for each of them to end a phase: the turn limit, the   *)
(* evaluations, the calls that come again, and a budget that is used up    *)
(* before the last phase.                                                  *)
(***************************************************************************)
EXTENDS ToolLoop
=============================================================================
