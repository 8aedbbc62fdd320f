------------------------------ MODULE DeepLoop ------------------------------
(***************************************************************************)
(* The DeepLoop (src/dual-loop/deep-loop.ts and deep-loop-events.ts): it   *)
(* claims one task at a time and plans it, executes the plan step by step, *)
(* summarizes, reviews its own work and revises it; between two steps it   *)
(* gives way to more urgent work, and when idle it turns system events and *)
(* goals into tasks.  One action runs from one await to the next (dpc      *)
(* names the await).  What an awaited model, tool or review call returns   *)
(* is chosen freely; nothing is re-read from the board after an await that *)
(* the code does not re-read.                                              *)
(***************************************************************************)
EXTENDS TaskBoard

CONSTANTS
    MaxSteps,        \* bound: steps of a plan the model returns
    PreemptEvery,    \* config.preemptCheckIntervalTurns
    MaxRevisions,    \* config.maxRevisionRounds
    MaxFixRounds,    \* maxFixRounds of executePlan()
    MaxFiles,        \* bound: how far the files of a manifest are counted
    EventsPerCheck   \* maxEventsPerCheck

ASSUME DeepAssumption ==
    /\ MaxSteps \in Nat
    /\ PreemptEvery \in Nat \ {0}
    /\ MaxRevisions \in Nat
    /\ MaxFixRounds \in Nat \ {0}
    /\ MaxFiles \in Nat \ {0}
    /\ EventsPerCheck \in Nat \ {0}

VARIABLES
    dpc,        \* the await the loop is at
    job,        \* currentTask and the locals of the handler working on it
    revisions,  \* this.revisionCounts
    posted,     \* how many events that become tasks were emitted so far
    events,     \* how many of them wait in the EventBus
    goalTasks,  \* how many tasks were started from goals
    edited      \* history: tasks one of whose steps changed files

deepVars == <<dpc, job, revisions, posted, events, goalTasks, edited>>

(* files: how many files executePlan()'s own manifest holds, up to         *)
(* MaxFiles; with two or more, calls across files are validated.           *)
Job == [task : {0} \cup TaskId, at : Nat, files : 0..MaxFiles,
        round : Nat, reply : BOOLEAN]
NoJob == [task |-> 0, at |-> 0, files |-> 0, round |-> 0, reply |-> FALSE]

DeepInit ==
    /\ dpc = "idle"
    /\ job = NoJob
    /\ revisions = [t \in TaskId |-> 0]
    /\ posted = 0
    /\ events = 0
    /\ goalTasks = 0
    /\ edited = {}

Mine == tasks[job.task]

(* The finally of processTask() and processRevision().                     *)
Finish == dpc' = "idle" /\ job' = NoJob

(* failTask(): whatever the task has become meanwhile.                     *)
FailTask(task) ==
    /\ Put(job.task, Failed(task))
    /\ revisions' = [revisions EXCEPT ![job.task] = 0]
    /\ Finish

-----------------------------------------------------------------------------
(* Executing a plan *)

(* Mutant of FirstPending: a resumed plan starts again from its first step.*)
FirstOfAll(steps) == 1

FirstPending(steps) ==
    LET pending == {i \in DOMAIN steps : steps[i] = "pending"}
    IN  IF pending = {} THEN 1
        ELSE CHOOSE i \in pending : \A j \in pending : i <= j

(* The check at the top of executePlan()'s loop, for the step numbered i   *)
(* from one: not before the first, and every PreemptEvery steps.           *)
MustYield(task, i) ==
    /\ i > 1
    /\ (i - 1) % PreemptEvery = 0
    /\ HigherPriority(task.prio) # {}

(* parkTask() and the update that follows: back in the queue, with the     *)
(* steps before i recorded as done.                                        *)
Parked(task, i) ==
    [task EXCEPT !.status = "queued", !.owner = "none",
                 !.steps = [j \in DOMAIN @ |-> IF j < i THEN "done" ELSE @[j]]]

AfterSteps(files) == IF files >= 2 THEN "validating" ELSE "summarizing"

(* From the top of the loop, before step i of the task t now holding       *)
(* `task': park it, await the step, or go on to what follows the steps.    *)
Proceed(t, task, i, files) ==
    \/ /\ i > Len(task.steps)
       /\ Put(t, task)
       /\ dpc' = AfterSteps(files)
       /\ job' = [NoJob EXCEPT !.task = t, !.at = i, !.files = files]
    \/ /\ i <= Len(task.steps)
       /\ MustYield(task, i)
       /\ Put(t, Parked(task, i))
       /\ Finish
    \/ /\ i <= Len(task.steps)
       /\ ~MustYield(task, i)
       /\ Put(t, [task EXCEPT !.steps[i] = "in_progress"])
       /\ dpc' = "stepping"
       /\ job' = [NoJob EXCEPT !.task = t, !.at = i, !.files = files]

(* The task is marked as planning; one that has a plan with text and steps *)
(* goes straight on with the first pending step, its manifest empty.       *)
BeginPlanning(t, task) ==
    IF task.plan /\ task.planned
    THEN Proceed(t, [task EXCEPT !.status = "implementing"],
                 FirstPending(task.steps), 0)
    ELSE /\ Put(t, [task EXCEPT !.status = "planning"])
         /\ dpc' = "planning"
         /\ job' = [NoJob EXCEPT !.task = t]

(* claimNext('deep', ['queued']) and processTask() up to its first await.  *)
ClaimQueued ==
    /\ dpc = "idle"
    /\ Unclaimed("queued") # {}
    /\ LET t     == First(Unclaimed("queued"))
           claim == [tasks[t] EXCEPT !.owner = "deep"]
       IN  IF claim.project /\ ~claim.files
           THEN /\ Put(t, claim)
                /\ dpc' = "loading"
                /\ job' = [NoJob EXCEPT !.task = t]
           ELSE BeginPlanning(t, claim)
    /\ UNCHANGED <<revisions, posted, events, goalTasks, edited>>

(* readProjectState() returned, with a manifest or without.                *)
ProjectLoaded ==
    /\ dpc = "loading"
    /\ \E manifest \in BOOLEAN :
         BeginPlanning(job.task, [Mine EXCEPT !.files = @ \/ manifest])
    /\ UNCHANGED <<revisions, posted, events, goalTasks, edited>>

(* planTask() returned the model's plan, whose text and list of steps may  *)
(* both be empty, or the one-step fallback.                                *)
PlanReady ==
    /\ dpc = "planning"
    /\ \E text \in BOOLEAN, n \in 0..MaxSteps :
         Proceed(job.task,
                 [Mine EXCEPT !.status = "implementing", !.plan = text,
                              !.planned = TRUE,
                              !.steps = [i \in 1..n |-> "pending"]], 1, 0)
    /\ UNCHANGED <<revisions, posted, events, goalTasks, edited>>

(* The tool loop of the step may have written files.                       *)
StepEdits(files) ==
    /\ edited' = IF files > 0 THEN edited \cup {job.task} ELSE edited

StepDone ==
    /\ dpc = "stepping"
    /\ \E files \in job.files..MaxFiles :
         /\ Proceed(job.task, [Mine EXCEPT !.steps[job.at] = "done"],
                    job.at + 1, files)
         /\ StepEdits(files)
    /\ UNCHANGED <<revisions, posted, events, goalTasks>>

StepFailed ==
    /\ dpc = "stepping"
    /\ FailTask([Mine EXCEPT !.steps[job.at] = "failed"])
    /\ UNCHANGED <<posted, events, goalTasks, edited>>

(* crossValidateAPIs() found nothing, or problems a fix step is to repair. *)
Validated ==
    /\ dpc = "validating"
    /\ \/ /\ dpc' = "summarizing"
          /\ UNCHANGED <<boardVars, job>>
       \/ /\ Put(job.task, [Mine EXCEPT !.steps = Append(@, "in_progress")])
          /\ dpc' = "fixing"
          /\ job' = [job EXCEPT !.at = Len(Mine.steps) + 1]
    /\ UNCHANGED <<revisions, posted, events, goalTasks, edited>>

(* A fix step done is validated again, up to MaxFixRounds rounds; a fix    *)
(* step that failed ends the rounds but not the task.                      *)
Fixed ==
    /\ dpc = "fixing"
    /\ \/ /\ Put(job.task, [Mine EXCEPT !.steps[job.at] = "done"])
          /\ job' = [job EXCEPT !.round = @ + 1]
          /\ dpc' = IF job.round + 1 < MaxFixRounds THEN "validating"
                    ELSE "summarizing"
       \/ /\ Put(job.task, [Mine EXCEPT !.steps[job.at] = "failed"])
          /\ dpc' = "summarizing"
          /\ UNCHANGED job
    /\ UNCHANGED <<revisions, posted, events, goalTasks, edited>>

-----------------------------------------------------------------------------
(* Review *)

(* Mutant of Submit: the task is marked done before its review.            *)
SubmitDone(project, reply) ==
    LET submitted == [Mine EXCEPT !.status = "done", !.owner = "deep",
                                  !.reply = reply, !.project = project,
                                  !.files = @ \/ job.files > 0]
    IN  IF job.files > 0
        THEN Put(job.task, submitted) /\ dpc' = "reviewing" /\ UNCHANGED job
        ELSE /\ Put(job.task, [submitted EXCEPT !.owner = "none", !.skipped = TRUE])
             /\ Finish

(* The outcome goes on the board.  Without files in the manifest of this   *)
(* run the review is skipped and the task is done at once.                 *)
Submit(project, reply) ==
    LET submitted == [Mine EXCEPT !.status = "reviewing", !.owner = "deep",
                                  !.reply = reply, !.project = project,
                                  !.files = @ \/ job.files > 0]
    IN  IF job.files > 0
        THEN /\ Put(job.task, submitted)
             /\ dpc' = "reviewing"
             /\ UNCHANGED job
        ELSE /\ Put(job.task, [submitted EXCEPT !.status = "done",
                                 !.owner = "none", !.skipped = TRUE])
             /\ Finish

(* generateSummary() returned text, possibly empty.  With files in a       *)
(* project (the task's, or the one their paths name) the project's notes   *)
(* are written next.                                                       *)
Summarized ==
    /\ dpc = "summarizing"
    /\ \E reply \in BOOLEAN, found \in {FALSE, Projects} :
         LET project == Mine.project \/ (found /\ job.files > 0)
         IN  IF project /\ job.files > 0
             THEN /\ dpc' = "writing"
                  /\ job' = [job EXCEPT !.reply = reply]
                  /\ UNCHANGED boardVars
             ELSE Submit(project, reply)
    /\ UNCHANGED <<revisions, posted, events, goalTasks, edited>>

(* writeProjectMd() and writeProjectState() returned; their errors are     *)
(* ignored.                                                                *)
ProjectWritten ==
    /\ dpc = "writing"
    /\ Submit(TRUE, job.reply)
    /\ UNCHANGED <<revisions, posted, events, goalTasks, edited>>

(* Mutant of Approved: the verdict of the review is written as the status. *)
ApprovedVerdict == [Mine EXCEPT !.status = "approved", !.owner = "none"]

Approved == [Mine EXCEPT !.status = "done", !.owner = "none"]

(* Mutant of Rejected: a task sent back for revision is not released.      *)
RejectedHeld == [Mine EXCEPT !.status = "revision"]

Rejected == [Mine EXCEPT !.status = "revision", !.owner = "none"]

(* selfReview() returned, or threw from a gate.                            *)
Reviewed ==
    /\ dpc = "reviewing"
    /\ \/ /\ \/ Put(job.task, Approved)
             \/ Put(job.task, Rejected)
          /\ Finish
          /\ UNCHANGED revisions
       \/ FailTask(Mine)
    /\ UNCHANGED <<posted, events, goalTasks, edited>>

(* claimNext('deep', ['revision']), tried when nothing is queued, and      *)
(* processRevision() up to its first await.                                *)
ClaimRevision ==
    /\ dpc = "idle"
    /\ Unclaimed("queued") = {}
    /\ Unclaimed("revision") # {}
    /\ LET t == First(Unclaimed("revision"))
           round == revisions[t] + 1
       IN  IF round > MaxRevisions
           THEN /\ Put(t, Failed(tasks[t]))
                /\ revisions' = [revisions EXCEPT ![t] = 0]
                /\ UNCHANGED <<dpc, job>>
           ELSE /\ Put(t, [tasks[t] EXCEPT !.status = "implementing",
                                           !.owner = "deep"])
                /\ revisions' = [revisions EXCEPT ![t] = round]
                /\ dpc' = "revising"
                /\ job' = [NoJob EXCEPT !.task = t]
    /\ UNCHANGED <<posted, events, goalTasks, edited>>

(* The revision's tool loop returned, and its summary is awaited.          *)
Revised ==
    /\ dpc = "revising"
    /\ \/ /\ dpc' = "resummarizing"
          /\ UNCHANGED <<boardVars, job, revisions>>
       \/ FailTask(Mine)
    /\ UNCHANGED <<posted, events, goalTasks, edited>>

Resummarized ==
    /\ dpc = "resummarizing"
    /\ \E reply \in BOOLEAN :
         Put(job.task, [Mine EXCEPT !.status = "reviewing", !.owner = "deep",
                                    !.reply = reply])
    /\ dpc' = "rereviewing"
    /\ UNCHANGED <<job, revisions, posted, events, goalTasks, edited>>

(* As Reviewed, except that the project's notes are written after the task *)
(* is done, while it is still the current task.                            *)
Rereviewed ==
    /\ dpc = "rereviewing"
    /\ \/ /\ Put(job.task, Approved)
          /\ IF Mine.project THEN dpc' = "rewriting" /\ UNCHANGED job
             ELSE Finish
          /\ UNCHANGED revisions
       \/ /\ Put(job.task, Rejected)
          /\ Finish
          /\ UNCHANGED revisions
       \/ FailTask(Mine)
    /\ UNCHANGED <<posted, events, goalTasks, edited>>

Rewritten ==
    /\ dpc = "rewriting"
    /\ Finish
    /\ UNCHANGED <<boardVars, revisions, posted, events, goalTasks, edited>>

-----------------------------------------------------------------------------
(* Idle work *)

(* EventBus.emit() of an event that is to become a task.                   *)
PostEvent ==
    /\ posted < MaxEvents
    /\ posted' = posted + 1
    /\ events' = events + 1
    /\ UNCHANGED <<boardVars, dpc, job, revisions, goalTasks, edited>>

NothingToClaim ==
    /\ dpc = "idle"
    /\ Unclaimed("queued") = {}
    /\ Unclaimed("revision") = {}

(* drainEventsToTasks(): a task for each of the next EventsPerCheck.       *)
DrainEvents ==
    /\ NothingToClaim
    /\ events > 0
    /\ LET n == IF events < EventsPerCheck THEN events ELSE EventsPerCheck
       IN  /\ Create(n, NewTask("event", 1), NoGroup)
           /\ events' = events - n
    /\ UNCHANGED <<dpc, job, revisions, posted, goalTasks, edited>>

(* checkGoalStack(): no events, a goal is open, and no goal's task is      *)
(* active.                                                                 *)
StartGoal ==
    /\ NothingToClaim
    /\ events = 0
    /\ goalTasks < MaxGoalTasks
    /\ ~\E t \in ActiveTasks : tasks[t].origin = "goal"
    /\ Create(1, NewTask("goal", 2), NoGroup)
    /\ goalTasks' = goalTasks + 1
    /\ UNCHANGED <<dpc, job, revisions, posted, events, edited>>

-----------------------------------------------------------------------------
DeepStep ==
    \/ ClaimQueued \/ ProjectLoaded \/ PlanReady \/ StepDone \/ StepFailed
    \/ Validated \/ Fixed \/ Summarized \/ ProjectWritten \/ Reviewed
    \/ ClaimRevision \/ Revised \/ Resummarized \/ Rereviewed \/ Rewritten
    \/ DrainEvents \/ StartGoal
=============================================================================
