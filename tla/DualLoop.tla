------------------------------ MODULE DualLoop ------------------------------
(***************************************************************************)
(* The FastLoop and the DeepLoop running as two coroutines over one        *)
(* TaskBoard (src/dual-loop/coordinator.ts, start()), with people sending  *)
(* messages and the system emitting events.  The loops never call each     *)
(* other: an action of one leaves the locals of the other alone, and they  *)
(* meet only on the board.                                                 *)
(***************************************************************************)
EXTENDS FastLoop, DeepLoop

vars == <<boardVars, fastVars, deepVars>>

Init == BoardInit /\ FastInit /\ DeepInit

UserWrites  == (\E s \in Sender : Enqueue(s)) /\ UNCHANGED deepVars
SystemEmits == PostEvent /\ UNCHANGED fastVars
FastTurn    == FastStep /\ UNCHANGED deepVars
DeepTurn    == DeepStep /\ UNCHANGED fastVars

Next == UserWrites \/ SystemEmits \/ FastTurn \/ DeepTurn

(* Both loops run until they are stopped, and every awaited call returns:  *)
(* the provider's calls and the tools time out.  Nobody has to write.      *)
Spec == Init /\ [][Next]_vars /\ WF_vars(FastTurn) /\ WF_vars(DeepTurn)

-----------------------------------------------------------------------------
(* Types: the board and the loops' program counters and locals range over  *)
(* what task-board-types.ts and the loops' classes declare.                *)
DeepPC == {"idle", "loading", "planning", "stepping", "validating", "fixing",
           "summarizing", "writing", "reviewing", "revising",
           "resummarizing", "rereviewing", "rewriting"}

DeepTypeOK ==
    /\ dpc \in DeepPC
    /\ job \in Job
    /\ revisions \in [TaskId -> Nat]
    /\ posted \in 0..MaxEvents
    /\ events \in 0..MaxEvents
    /\ goalTasks \in 0..MaxGoalTasks
    /\ edited \in SUBSET TaskId

TypeOK == BoardTypeOK /\ FastTypeOK /\ DeepTypeOK

-----------------------------------------------------------------------------
(* Safety *)

Current == IF dpc = "idle" THEN {} ELSE {job.task}

(* A task that is claimed, or in a state only work moves it out of, is the *)
(* one the DeepLoop is working on: claim, park, fail, review and the       *)
(* board's eviction never leave behind a task that claimNext() cannot      *)
(* find again.                                                             *)
NoOrphan ==
    \A t \in TaskId :
      (tasks[t].owner = "deep" \/ tasks[t].status \in Working) => t \in Current

(* A task that is done stays done, with the reply it was done with:        *)
(* eviction spares it and the DeepLoop, which never asks again before it   *)
(* writes, is through with it (task-board.ts create, deep-loop.ts          *)
(* failTask).                                                              *)
DoneIsFinal ==
    [][\A t \in TaskId : tasks[t].status = "done" =>
         /\ tasks'[t].status = "done"
         /\ tasks'[t].reply = tasks[t].reply]_vars

(* The reply to a task is sent at most once, and only for a task that is   *)
(* done with something to say; no progress update of a task is sent after  *)
(* its reply, although deliverProgressUpdates() works off a snapshot of    *)
(* the active tasks across several sends (fast-loop.ts, 497 and 560).      *)
RepliesOnce ==
    /\ \A t \in TaskId :
         /\ replies[t] <= 1
         /\ replies[t] > 0 => tasks[t].status = "done" /\ tasks[t].reply
    /\ fpc \in {"tellingPlan", "tellingSteps"} => replies[talk.task] = 0

(* A step that is done is never run again, however often its task is       *)
(* parked, resumed and revised, as long as its plan has a text             *)
(* (deep-loop.ts executePlan, 940-975).                                    *)
DoneStepsStayDone ==
    [][\A t \in TaskId : tasks[t].plan =>
         \A i \in DOMAIN tasks[t].steps :
           tasks[t].steps[i] = "done" =>
             /\ i \in DOMAIN tasks'[t].steps
             /\ tasks'[t].steps[i] = "done"]_vars

(* "Skip self-review for information-only tasks (no file modifications)."  *)
(* (deep-loop.ts, 637): a task done without a review changed no file.  The *)
(* manifest that decides is the one of the last executePlan() only, and a  *)
(* parked task starts another one.                                         *)
FilesAreReviewed ==
    \A t \in TaskId :
      tasks[t].status = "done" /\ tasks[t].skipped => t \notin edited

-----------------------------------------------------------------------------
(* Refinement *)

PhaseOf(status) ==
    IF status \in {"queued", "revision"} \cup Working THEN "open"
    ELSE IF status = "answered_directly" THEN "answered"
    ELSE status

Service == INSTANCE TaskService WITH
             Tasks <- TaskId,
             phase <- [t \in TaskId |-> PhaseOf(tasks[t].status)],
             worker <- job.task

(* The loops over the board behave as TaskService says: open tasks are     *)
(* never forgotten, one is worked on at a time, done and answered tasks    *)
(* are settled, and only the task the DeepLoop holds can be opened again.  *)
ImplementsService == Service!ServiceSpec

-----------------------------------------------------------------------------
(* Liveness *)

(* Every task is closed in the end, although urgent work parks it, a       *)
(* review sends it back, a full board evicts it and late work revives it.  *)
EveryTaskCloses ==
    \A t \in TaskId :
      tasks[t].status \in {"queued", "revision"} \cup Working
        ~> tasks[t].status \in Closed

(* A reply that is ready is handed over, whatever else the heartbeat finds *)
(* to do first.                                                            *)
EveryReplyLeaves ==
    \A t \in TaskId :
      t \in Deliverable /\ HasSender(t) ~> t \in delivered
=============================================================================
