------------------------------- MODULE MCDream -------------------------------
(***************************************************************************)
(* One dream after another, and an agent that works on the tasks of the    *)
(* goals.  MCDream.cfg is about the issue log: room for one open issue,    *)
(* two issues to file, one save, no experiments.  MCStackAndTree.cfg is    *)
(* about the goals and the experiments: room for two goals and three of    *)
(* them, which grow stale, are abandoned, pruned and tidied away (that     *)
(* agents close them is left to MCIdleWork); and an experiment in each     *)
(* dream, in the agent's working tree, with git failing at times.  The     *)
(* others exhibit, with the smallest bounds, what the code does otherwise  *)
(* than its comments say.                                                  *)
(***************************************************************************)
EXTENDS Dream
=============================================================================
