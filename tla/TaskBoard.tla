----------------------------- MODULE TaskBoard -----------------------------
(***************************************************************************)
(* The TaskBoard (src/dual-loop/task-board.ts): the list of tasks that is  *)
(* the only channel between the FastLoop and the DeepLoop.  Every method   *)
(* is synchronous, so in Node's single thread each is one atomic change;   *)
(* the operators below are those changes, and the loops' modules use them  *)
(* inside their own actions.                                               *)
(*                                                                         *)
(* Tasks are numbered in the order create() pushes them, which is the      *)
(* order of createdAt and of the array.  The id of a task that was never   *)
(* created, or was archived, has the status "absent".                      *)
(***************************************************************************)
EXTENDS Integers, FiniteSets, Sequences

CONSTANTS
    Sender,         \* the people who write to the assistant
    NoSender,       \* the sender of a task nobody asked for
    MaxActive,      \* config.maxActiveTasks
    Projects,       \* are there projects that a task may belong to?
    MaxMessages,    \* bound: messages the environment sends
    MaxEvents,      \* bound: system events posted
    MaxGoalTasks    \* bound: tasks started from the goal stack

ASSUME BoardAssumption ==
    /\ NoSender \notin Sender
    /\ MaxActive \in Nat \ {0}
    /\ Projects \in BOOLEAN
    /\ MaxMessages \in Nat
    /\ MaxEvents \in Nat
    /\ MaxGoalTasks \in Nat

VARIABLES
    tasks,          \* [TaskId -> Task], data.tasks
    asked,          \* [TaskId -> the group of messages a task was made from]
    created,        \* how many tasks create() has made
    delivered,      \* the in-memory set this.delivered
    deliveredIds,   \* data.deliveredTaskIds, the part that is persisted
    dirty           \* this.dirty

boardVars == <<tasks, asked, created, delivered, deliveredIds, dirty>>

TaskId == 1..(MaxMessages + MaxEvents + MaxGoalTasks)

(* Messages of one person, joined into the originalMessage of one task     *)
(* whose sender that person is.  NoGroup: a task no person asked for.      *)
Message == 1..MaxMessages
Group   == [from : Sender, msgs : Seq(Message)]
NoGroup == [from |-> NoSender, msgs |-> << >>]

Working == {"planning", "implementing", "reviewing"}
Closed  == {"done", "failed", "answered_directly"}
Status  == {"absent", "queued", "revision"} \cup Working \cup Closed

StepStatus == {"pending", "in_progress", "done", "failed"}

Task == [status   : Status,
         owner    : {"none", "deep"},
         prio     : 0..2,                    \* user 0, event 1, goal 2
         origin   : {"user", "event", "goal"},
         project  : BOOLEAN,                 \* projectDir is set
         plan     : BOOLEAN,                 \* plan is a non-empty string
         planned  : BOOLEAN,                 \* planSteps is an array
         steps    : Seq(StepStatus),         \* planSteps
         files    : BOOLEAN,                 \* workspaceManifest is set
         reply    : BOOLEAN,                 \* userFacing is a non-empty string
         skipped  : BOOLEAN,                 \* reviewNotes: review skipped
         planTold : BOOLEAN,                 \* planSummaryDelivered
         told     : Nat]                     \* lastProgressStepsCompleted

(* The fields create() gives a task that has not been worked on. *)
NewTask(origin, prio) ==
    [status |-> "queued", owner |-> "none", prio |-> prio, origin |-> origin,
     project |-> FALSE, plan |-> FALSE, planned |-> FALSE, steps |-> << >>,
     files |-> FALSE, reply |-> FALSE, skipped |-> FALSE, planTold |-> FALSE,
     told |-> 0]

BoardInit ==
    /\ tasks = [t \in TaskId |->
                  [NewTask("user", 0) EXCEPT !.status = "absent"]]
    /\ asked = [t \in TaskId |-> NoGroup]
    /\ created = 0
    /\ delivered = {}
    /\ deliveredIds = {}
    /\ dirty = FALSE

-----------------------------------------------------------------------------
(* Queries *)

HasSender(t) == asked[t].from # NoSender

(* Mutant of ActiveTasks: a task that is done still counts as active.      *)
ActiveOrDone ==
    {t \in TaskId : tasks[t].status \notin {"failed", "answered_directly", "absent"}}

ActiveTasks == {t \in TaskId : tasks[t].status \notin Closed \cup {"absent"}}

(* The sort key of claimNext and getHigherPriorityTask. *)
Precedes(t, u) == \/ tasks[t].prio < tasks[u].prio
                  \/ tasks[t].prio = tasks[u].prio /\ t < u

Unclaimed(status) ==
    {t \in TaskId : tasks[t].owner = "none" /\ tasks[t].status = status}

First(S) == CHOOSE t \in S : \A u \in S \ {t} : Precedes(t, u)

(* The work that makes a task of priority p give way. *)
HigherPriority(p) == {t \in Unclaimed("queued") : tasks[t].prio < p}

(* Mutant of Deliverable: what was delivered is not left out.              *)
DeliverableAgain == {t \in TaskId : tasks[t].status = "done" /\ tasks[t].reply}

Deliverable ==
    {t \in TaskId : /\ tasks[t].status = "done"
                    /\ tasks[t].reply
                    /\ t \notin delivered}

-----------------------------------------------------------------------------
(* Updates *)

(* Mutant of Failed: the owner of a failed task is not released.           *)
FailedHeld(task) == [task EXCEPT !.status = "failed"]

Failed(task) == [task EXCEPT !.status = "failed", !.owner = "none"]

(* create() called n times in a row.  Each call made with a full board     *)
(* fails the oldest active task, so the calls together fail the oldest     *)
(* ones, as many as the number of calls made with a full board: possibly   *)
(* some of the tasks just created.                                         *)
Evicted(n) ==
    LET active == Cardinality(ActiveTasks)
        crowd  == ActiveTasks \cup (created + 1)..(created + n)
        out    == IF active >= MaxActive THEN n ELSE active + n - MaxActive
    IN  {t \in crowd : Cardinality({u \in crowd : u < t}) < out}

Create(n, task, group) ==
    LET born  == (created + 1)..(created + n)
        given == [t \in TaskId |-> IF t \in born THEN task ELSE tasks[t]]
        out   == Evicted(n)
    IN  /\ created + n \in TaskId
        /\ tasks' = [t \in TaskId |->
                       IF t \in out THEN Failed(given[t]) ELSE given[t]]
        /\ asked' = [t \in TaskId |-> IF t \in born THEN group ELSE asked[t]]
        /\ created' = created + n
        /\ dirty' = TRUE
        /\ UNCHANGED <<delivered, deliveredIds>>

(* update(), claimNext()'s assignment and parkTask(): one task replaced. *)
Put(t, task) ==
    /\ tasks' = [tasks EXCEPT ![t] = task]
    /\ dirty' = TRUE
    /\ UNCHANGED <<asked, created, delivered, deliveredIds>>

MarkDelivered(t) ==
    /\ delivered' = delivered \cup {t}
    /\ deliveredIds' = IF t \in delivered THEN deliveredIds
                       ELSE deliveredIds \cup {t}
    /\ dirty' = (dirty \/ (t \notin delivered /\ t \notin deliveredIds))
    /\ UNCHANGED <<tasks, asked, created>>

-----------------------------------------------------------------------------
BoardTypeOK ==
    /\ tasks \in [TaskId -> Task]
    /\ created \in 0..(MaxMessages + MaxEvents + MaxGoalTasks)
    /\ delivered \in SUBSET TaskId
    /\ deliveredIds \in SUBSET TaskId
    /\ dirty \in BOOLEAN
=============================================================================
