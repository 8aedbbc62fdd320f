----------------------------- MODULE MCIdleWork -----------------------------
(***************************************************************************)
(* A queue for one event and two events of different urgency; room for two *)
(* goals and three of them, so that a full stack has to choose; one task   *)
(* of a user between them.  An agent may close, block or start any goal.   *)
(***************************************************************************)
EXTENDS IdleWork
=============================================================================
