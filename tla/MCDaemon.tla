------------------------------ MODULE MCDaemon ------------------------------
(***************************************************************************)
(* Two people, three messages of any kind, one command that needs a yes,   *)
(* and one 8 o'clock: an error in the middle of a batch, with messages     *)
(* before and after it, and a yes that either poller may see first.        *)
(***************************************************************************)
EXTENDS Daemon
=============================================================================
