# Casterly-Rock: the dual loop in TLA+

Casterly-Rock is a personal assistant that runs as one Node process. People
write to it over iMessage or a console. Two coroutines serve them: the
**FastLoop** triages messages, answers the easy ones and keeps people informed;
the **DeepLoop** plans, executes, reviews and revises the rest, and looks for
work of its own when there is none. They share nothing but the **TaskBoard**. A
**LoopCoordinator** starts and stops them and saves the board to disk. The
**daemon** polls the Messages database and feeds the FastLoop; once a
day, when the board has stayed empty, a **dream cycle** tidies goals and issues and
experiments on the working tree.
This directory models that core, checks it with TLC and proves its main safety
properties with TLAPS.

Paths below are relative to `src/src/` of the repository unless they start with
`docs/`.

## 1. The system: inventory

| Part | State | Operations | Interacts by |
|---|---|---|---|
| TaskBoard (`dual-loop/task-board.ts`, `task-board-types.ts`) | list of tasks, in-memory delivered set, persisted delivered ids, dirty flag | create (with eviction), update, claimNext, release, parkTask, getCompletedWithResponse, markDelivered, getHigherPriorityTask, archiveOld, load, save | synchronous calls from both loops; a file |
| FastLoop (`fast-loop.ts`) | queue of pending messages, the batch being handled | enqueueMessage, processPendingMessages, handleUserMessage, deliverResponse, deliverProgressUpdates | enqueue called by the controller; awaits the model and the transport |
| DeepLoop (`deep-loop.ts`) | current task, revision counts, locals of the running handler | processTask, planTask, executePlan, selfReview, processRevision, failTask | awaits the model, tools, reviewers |
| Tool loop (`deep-loop.ts` executeWithTools, dispatchToCoder; `reasoner-monitor.ts`) | turn, history, call counts, checkpoints, verdict; files of the step and of the plan | a turn of the model, its tool calls, evaluate, phases | awaited by the step of a plan; the model, tools, the reasoner |
| Idle work (`deep-loop-events.ts`, `autonomous/events.ts`, `autonomous/goal-stack.ts`) | event queue, goals | emit, drain, trimQueue, addGoal, getNextGoal, drainEventsToTasks, checkGoalStack | called by the DeepLoop when nothing can be claimed; goals also by the agent's tools and the dream |
| LoopCoordinator (`coordinator.ts`, `persistence/safe-write.ts`) | timers, running flag | start, stop, save timer, archive timer | owns both loops; the file system |
| Controller (`dual-loop-controller.ts`) | enabled flag | start, stop, tick, status | called by the daemon |
| DreamScheduler and phases (`dual-loop/dream-scheduler.ts`, `autonomous/dream/`) | how far the cycle is, the date of the last one | check, runDreamCycle, reorganizeGoals, runCiHealthCheck, runAutoresearch | timers, stores, git |
| IssueLog (`autonomous/issue-log.ts`) | issues, dirty flag, file | fileIssue, resolveIssue, load, save | agent's tools, dream, the coordinator's timer |
| Autoresearch (`autonomous/dream/autoresearch.ts`) | the working tree, snapshot flag | createSnapshot, restoreSnapshot, runExperiment | git; the same tree as the DeepLoop's tools |
| Daemon (`imessage/daemon.ts`), scheduler (`scheduler/`) | last row id, isPolling, jobs | poll, checkDueJobs | feeds enqueueMessage; a timer |
| Approval bridge (`approval/`) | requests, consumed rows | requestApproval, waitForApproval, tryResolveFromPoll, expireStale | a poller of its own beside the daemon's |
| ConcurrentProvider (`providers/concurrent.ts`) | slots in use | generate, generateParallel, bestOfN | awaited by both loops |
| Task runner (`tasks/`) | outcomes of a DAG of steps | runTaskPlan | concurrent batches of tools |
| Sessions, stores, memory, tools, coding modes, CI loop, infrastructure | text records and files | load, modify, save | mostly sequential |

What is hard here:

- Node is single-threaded, so code between two awaits is atomic; everything else
  interleaves. Each loop holds locals (a snapshot of tasks, a batch of messages,
  a plan index) across awaits while the other loop changes the board.
- The DeepLoop never re-reads its task before it writes; `create()` on a full
  board fails the oldest active task, even the one being worked on.
- A task can go round: parked by urgent work, sent back by a review, evicted,
  revived by a late write. It must still be claimable and must still end.
- Delivery is "mark, then send"; the mark is kept in memory and in the file, and
  rebuilt on load and on archiving.
- The file is written by a timer, and once more by `stop()`; both through the
  same temporary name, with the dirty flag cleared only after the write.

- The coder's tool loop is ended by whichever comes first of a text, a verdict, a
  circle of calls or a limit, and its budget is handed from phase to phase.
- Two pollers read the same messages, and an error ends a poll in the middle of
  a batch.
- Experiments wait for tests and a model, in a tree that others edit meanwhile.
- Queue, stack and log are bounded; each makes room in its own way.

`PROJECT.json` lists these hazards at their lines, with the properties that
cover each or the reason none does.

What makes each part correct: the board forgets no task and hands each out once;
the FastLoop loses and doubles no message, keeps each person's in order and sends
each reply once; the DeepLoop closes what it claims, redoes no finished step and
reviews what it changed; its tool loop ends within its budget and lists the files it
has written; the coordinator leaves a whole file behind and no reply is sent again
after a restart; the daemon hands each message over once, takes an answer for an answer
and the daily report up once; bounded stores give up only what is theirs to give
up; an experiment leaves the tree as it found it or better. Not all of this is so:
section 3 says what holds, of which part of it, and what was found not to.

## 2. Modules

| Module | Models | Builds on |
|---|---|---|
| `TaskBoard` | the board: one operator per method | |
| `FastLoop` | the FastLoop, one action per stretch between awaits (`fpc` names the await) | `TaskBoard` |
| `DeepLoop` | the DeepLoop and, as counters, its idle work (`dpc` names the await) | `TaskBoard` |
| `DualLoop` | both loops over one board, with messages and events; the properties and the refinement | `FastLoop`, `DeepLoop` |
| `TaskService` | what the whole promises, without loops or board | |
| `Intake` | the FastLoop's handling of messages alone, for more people and messages | `FastLoop` |
| `Coordinator` | saves, archive, stop, crash and restart around `DualLoop` | `DualLoop` |
| `ToolLoop` | how the coder carries out the steps of a plan: phases, turns, evaluations | |
| `EventBus` | the bounded priority queue of events | |
| `GoalStack` | the goals, their capacity and pruning | |
| `IdleWork` | events and goals becoming tasks, with an agent that changes goals | `EventBus`, `GoalStack` |
| `IssueLog` | the issues, their capacity and pruning, the log's file | |
| `Autoresearch` | an experiment on the working tree: snapshot, edits, restore, rescue | |
| `Dream` | the dream cycle between the DeepLoop's turns | `IdleWork`, `IssueLog`, `Autoresearch` |
| `Approval` | requests for approval and their pollers | |
| `Daemon` | the poll, commands that fail, the daily report | `Approval` |
| `Ordered` | `filter()`, defined by rank so that proofs can refer to it | |
| `DualLoop_proofs`, `Intake_proofs`, `Coordinator_proofs`, `ToolLoop_proofs`, `IdleWork_proofs`, `Dream_proofs`, `Daemon_proofs` | the theorems | the modules of those names, TLAPS |
| `Ordered_proofs` | what `Filtered` keeps, in general and of sequences with ids | `Ordered`, TLAPS |
| `MCDualLoop`, `MCIntake`, `MCCoordinator`, `MCToolLoop`, `MCIdleWork`, `MCDream`, `MCDaemon` | instances for TLC | |

How state corresponds to code. A task is a record with the fields of `Task` that
control anything: status, owner, priority, origin, the plan steps' states, and
Booleans for "has a project", "has a plan text", "has a manifest", "has a reply".
Tasks are numbered in creation order, which is the order of `createdAt` and of
the array; a task that was never created, or was archived, has the status
`absent`. `delivered` and `deliveredIds` are the in-memory set and the persisted
list, which differ after a restart. `job` holds the DeepLoop's `currentTask` and
the locals of the handler that works on it; `talk` and `batch` hold the
FastLoop's. `replies` and `edited` are history variables: how often the reply of
a task was sent, and which tasks had a step that changed files. In `Coordinator`
a save is serialized, opens the temporary file, fills it and renames it in four
actions; a saver that has the file open keeps it when another one renames it.

In `ToolLoop` the locals of `executeWithTools()` are one record (`loop`), `at` names
what is awaited or, between two awaits, what is done next; `turns`, `ran`,
`quiet`, `broke`, `noted` and `written` are history variables. A tool call is its
signature as the loop detection computes it, a file its path. What the calls of a
turn write is of three kinds (`Track`): what the file tools make, which is recorded;
what a shell command is seen to write, which is read first; and what it writes unseen,
because it failed or wrote in another way than `trackFileOperation()` looks for. In `IdleWork` a task is where
it came from, since `TaskBoard` says how tasks are told apart; an event is its type
and when it was emitted. Goals and issues are kept in the order of their last
update, which is all that pruning and staleness ask of their dates. In
`Autoresearch` the working tree is the set of kinds of uncommitted changes in it:
whose they are (an experiment's, an accepted one, other work), and where git has
them: in a tracked or new file, staged in the index, or in a file that is ignored. Restoring
takes away the first of these only. The git_commit tool is two awaits, `GitAdd` and
`Commit`, and may be given files that others have changed. In `Daemon` the inbox is the Messages
database, a row its place in it; `handed` and `told` are history variables.

How actions correspond: every action runs from the return of one await to the
next, including all board calls in between. `Proceed`, for instance, is the top
of `executePlan()`'s loop with the update of the step before it, because no await
lies between them. The steps of `ToolLoop` after the end of its loop (`EndLoop`,
`PhaseOver`, `StepOver`) follow each other without an await: nothing else, and in
particular no `ReadEnds`, can happen between them. The mutants that follow a
definition in a comment ("Mutant of ...") are plausible bugs, used to show that
each property can fail.

Abstractions:

- Time appears as a choice: which messages have waited out the coalesce window
  (`cutoff`), whether the 60 s between step updates are over, which closed tasks
  are old enough to archive (any set of them, except the DeepLoop's task).
- What models, tools and reviewers return is chosen freely, errors included.
- A manifest is its size up to `MaxFiles`; its paths matter only in that two
  files or more are cross-validated.
- In `DeepLoop` only events that become tasks count, and a drained batch of nothing
  but skipped event types, followed by a goal in the same check, is left out;
  `IdleWork` has both.
- `ToolLoop` does the calls of a turn in one step, since nothing looks at the
  files of the step before all are done; a file of a shell command whose read ends
  in the same turn is one of those the turn has created.
- In `Dream` reading the issue log is one step; writing it is two. An issue has
  the priority its filer gives it. Phases that write only their own files
  (consolidation, self-model, retrospective) change nothing here.
- A poll reads all rows up to the newest at once, as `getMessagesSince()` does;
  what a command answers is left out, but it may throw.
- The save timer starts a save whenever the board is dirty, whether or not its last
  one is over, with at most as many under way as `TimerSave` has members.
  `TimerSavesAreSafe` and its theorem speak of one at a time (`OneTimerSave`: a
  write takes less than the 30 s between two), exhibit 5 in section 3 is of two. The final
  save of `stop()` does not wait for the timer's, as in the code.
- Errors thrown by a send do not reach the FastLoop: the controller's delivery
  function catches them.

Not reachable, so not modelled: `reviewTask()` of the FastLoop has no caller; the
restart path of `runWithRestart()` needs `run()` to reject, and both `run()`
methods catch every error of a turn; `preempt()` of the dream has no caller, nor
has the phase budget that only a preempted cycle needs.

External, so chosen freely: nothing in `src/` emits an event or asks for an
approval today (the chat pipeline would; the daemon does not call it); people,
goals added from outside the dream.

## 3. What TLC checks

| Run | Properties | Shows |
|---|---|---|
| `dualloop` | TypeOK, NoOrphan, RepliesOnce, DoneIsFinal, DoneStepsStayDone | both loops, a person's task and an event's task, room for both |
| `dualloop_live` | NoOrphan, ImplementsService, EveryTaskCloses, EveryReplyLeaves | a person's task and a goal's task, room for one: eviction of the task under work; refinement and progress |
| `intake` | NoMessageLost, NotOvertaken, EveryMessageTaken | two people, four messages, every interleaving with a batch: nothing is lost or doubled, a task does not hold older messages of a person than their task before it, and all end up in tasks. Of the order within a task, see exhibit 3 |
| `coordinator` | RecordedReplyRests, DueAgainByArchiving, TimerSavesAreSafe | two tasks, saves that may fail, archive, a graceful stop, a kill at any moment, restart: what the persisted record says was sent is not sent again, what is marked in memory only falls due again only when a process that was started again archives (exhibit 4), and saves of the timer that do not overlap are safe (of others, see exhibit 5) |
| `tool_loop` | TypeOK, TurnsWithinBudget, NoEndlessRepeat, BarrenPhaseEnds, NoFileForgotten, PlanEnds | two steps of up to three phases, any calls and any verdicts; what a step has recorded enters the manifest (of what it has not, see exhibits 8 and 9) |
| `idle_work` | IdleTypeOK, UrgentEventHeard, NextGoalIsTried | a full queue, a full stack, an agent that changes goals: the most urgent event and the next goal get their task; an event may give way to others of its own type only (which, see finding 3) |
| `dream` | NoDuplicateIssue, GraveIssuesStay | dreams that file issues, an agent that files and resolves, a save and reloads of the log |
| `stack_and_tree` | TypeOK, RejectedIsGone, AcceptedChangeStays, OpenGoalsStay, UsersGoalsStay | dreams with an experiment each, an agent that edits, stages and commits in the same tree, a git that fails: what a restore owes to tracked files that are not staged (of the others, see exhibit 7), and that it never takes an accepted change. The stack between the idle loop, the agent and the dreams: what takes an open goal off it; the dream's reorganization does, users' goals included (exhibit 6) |
| `daemon` | DaemonTypeOK, HandedOnce, AnswerIsNotATask, ReportedOnce, EveryMessageHeard, ReportIsTaken | two people, two pollers, polls that end with an error, a daily report |
| `unreviewed` | FilesAreReviewed (violated) | see finding 1 |
| `work_reverted` | OnlyTrialsReverted (violated) | see finding 2 |
| `newest_dropped` | OldestDropped (violated) | see finding 3 |

Bounds. `MaxMessages`, `MaxEvents` and `MaxGoalTasks` bound the environment; two
tasks of different priority are enough for preemption, eviction and the snapshot
of `deliverProgressUpdates()` to meet, since each of these involves two tasks.
`MaxSteps = 2` gives one check for urgent work between steps (`PreemptEvery = 1`),
`MaxRevisions = 1` one revision and one refusal of another, `MaxFixRounds = 1` one
round of fixes, `MaxFiles = 2` both sides of the cross-validation test.
`MaxActive = 1` fills the board with one task. `Intake` needs two people and two
messages of each for a group to be put back while another is triaged and to be
joined with later messages. After one restart nothing is left in the state that
a second one would meet for the first time, so `MaxBoots = 1`; the runs of
`Coordinator` use plans without steps, since what a step does to the board does
not matter to a save; `Stops = {0}` and
`StopsAfter = {0, 1}` let the first life be stopped as well as killed, the former as
long as one of the two tasks at most was made; the other may be made by the loops' last
turns or after the restart.

`ToolLoop` has two calls (one that comes again and one between), two files (one
of a tool and one of a shell, or two steps' files) and three phases, with four
turns in all, so that the budget can be spent before the last phase; the loop
threshold, the break limit, the stall threshold and the evaluations are small
enough for each of them to end a phase within those turns, and `Steps = 2` lets a
read land in the next step. `IdleWork` has room for one event and gets two, room for
two goals and gets three: each bound is crossed once. `Dream` has any number of days,
so that a dream meets what those before it left, and two sets of bounds, as its parts
share no state but the DeepLoop's being idle: room for one open issue and two to
file, without experiments; room for two goals and three of them, with one experiment a
dream (that an agent closes goals is left to `idle_work`). The configurations that refute something have the smallest bounds
that let it happen; `MCOverlap` has two saves of the timer at once. `Daemon` has three messages, so that one that fails has one before and one
after it, one request, and one 8 o'clock. Deadlock is not checked: with a bounded
environment the systems come to rest with nothing left to do.

Fairness. Liveness is checked under weak fairness of steps the process itself
takes: each loop's next step (`FastTurn`, `DeepTurn`, in `Intake` `IntakeTurn`),
`Claim`, `IdleCheck` and `Finish` in `IdleWork`, the coder's next step in `ToolLoop`
(`CoderTurn`), the poll's in `Daemon` (`PollStep`). The loops run until they are
stopped and catch every error, the timers fire, and what they await returns: model
calls, tools and evaluations are under timeouts. That a task is finished
(`Finish`) is what `EveryTaskCloses` and `PlanEnds` show of the DeepLoop. Nothing is
assumed of people, of events or of an agent's tools. No strong fairness is used,
and no fairness of single outcomes: reviews may reject for ever, the reasoner may
always say "continue", every wrap-up may fail, every command may throw, and the
counters must end it.

Refinement. `ImplementsService` is `TaskService!ServiceSpec` under the mapping of
statuses to phases and of `job.task` to the worker. It says what the design relies
on: an open task is never dropped without being closed, one is worked on at a
time, done and answered tasks are settled, and only a task held by the DeepLoop
when it was evicted can be opened again.

### Findings

Each is refuted by a run.

1. `deep-loop.ts:637`: a comment says the review is skipped for tasks that modify no
   files. The manifest consulted is that of the last run of `executePlan()`, so a
   task parked after writing files and resumed may be done without a review.
2. `autonomous/dream/autoresearch.ts:466`: taking a change back with `git checkout -- .`
   and `git clean -fd` is said to be safe because the tree was clean when the
   experiment began. The DeepLoop may have started on a task since; what it has
   edited in the same tree goes too.
3. `autonomous/events.ts:419`: a full queue is said to drop "oldest low-priority events"
   (409, 213). It drops the newest of the least urgent, which may be the one that is
   being emitted.

### Exhibits

Further disagreements with a comment, a doc or a design note. Each is stated in its
module and refuted in seconds by a configuration kept beside it
(`tlc -config MCRecovery.cfg MCCoordinator`); what does hold in its place is a property of
the runs above or a theorem.

1. `docs/archive/dual-loop-architecture.md:1325` (`InterruptedTasksRecover`,
   `MCRecovery.cfg`): interrupted tasks are said to be queued again on restart. The code
   leaves them claimed, and nothing finds them. `OrphansNeedRestart` is proved.
2. `deep-loop.ts:1807` (`StuckPhaseIsLast`, `MCStuckGoesOn.cfg`): the coder's phases are
   said to proceed only when the reasoner confirms the one before. A phase broken off
   because "the model is stuck and won't recover" (2106) sets no verdict, and a loop
   without one counts as complete (2248-2251): the next phase begins.
3. `fast-loop.ts:239` (`InOrderInTask`, `MCReordered.cfg`): `docs/stack-testing.md:565`
   expects messages to be "processed in order when queued". A group that must wait goes
   to the end of the queue, behind what its person has written meanwhile, and the next
   batch joins both in that order: the later message comes first in the task's text.
   `NotOvertaken` holds between tasks.
4. `task-board.ts:501` (`OldRepliesRest`, `MCRedelivered.cfg`): old replies are said not to
   be delivered again after a restart (379, `coordinator.ts:239`). The marks that are to
   prevent it are in memory only, and the first `archiveOld()` that removes a task
   forgets them: a closed task whose mark was never saved is due again, also one whose
   reply was sent just before a kill. `DueAgainByArchiving` says that this is the only way.
5. `safe-write.ts:28` (`NeverHalfWritten`, `MCOverlap.cfg`): "readers never see a
   half-written file" (5-6). All saves share one temporary name and the timer does not
   wait for its last save: of two that overlap, one may rename what the other has half
   written. `TimerSavesAreSafe` holds of saves that do not overlap.
6. `autonomous/dream/runner.ts:1040` (`AgentDecides`, `MCGoalsPruned.cfg`): of stale goals
   "the agent decides whether to reprioritize or prune them" (`goal-stack.ts:19`). The
   dream removes them all, users' goals included, without an agent. `OpenGoalsStay` and
   `UsersGoalsStay` say what else may.
7. `autonomous/dream/autoresearch.ts:467` (`NothingRejectedStays`, `MCRejectedStays.cfg`):
   "Hard-reset to HEAD" (465), "Always reverts on test regression" (19).
   `git checkout -- .` restores from the index and `git clean -fd` spares ignored files:
   what is staged or ignored stays. `RejectedIsGone` holds of the rest.
8. `deep-loop.ts:2539` (`ManifestIsAccurate`, `MCManifest.cfg`): shell commands are looked at
   "so the manifest stays accurate" (2530). A command that failed is not, nor is any but
   the first file of one.
9. `deep-loop.ts:2629` (`ListedByReview`, `MCLateRead.cfg`): a file that a shell command
   wrote is read in the background, since it need only be in the manifest "by review
   time" (2626). After the last step nobody takes it over. `NoFileForgotten` holds of what a
   step has recorded.

Seen while reading, and stated here or as hazards only:

- `coordinator.stop()` saves the board before the loops' last turns end, and a save
  clears the dirty flag after its write; its final save can also open the temporary
  file that a timer's save is about to rename. Both show in `Coordinator` after a
  `Stop`. Today they have no effect: the shutdown of iMessage mode
  (`daemon.ts:950-980`) never calls `controller.stop()`, and closing the console calls
  it without waiting and then exits, so a process always ends as if it were killed.
- A reply that was ready but not yet sent at a crash is marked delivered on
  restart, which holds it back until an archiving forgets the mark (exhibit 4). A batch
  with no group past its window is retried with no sleep. A plan with an empty
  text is planned again after a park, and its done steps are run again.
- Every dream, and every status report on issues, loads the issue log from its
  file: what was filed since the last save is forgotten.
- An accepted experiment is not committed, so the next one is refused, because the tree is
  not clean, until somebody commits.
- When an approval's own poller has taken a yes, the daemon's poll offers it to
  the bridge all the same, so that one yes can approve a second waiting request of
  the same person.
- In console mode the job checker has no guard against overlapping itself
  (`daemon.ts:727`), which `ReportedOnce` needs. After a restart the daemon starts at
  the newest row: what was written meanwhile is not heard, by intent.
- A turn of the coder that is answered with a nudge is not looked at by the stall
  detection; only the turn limit ends a model that writes code into its text.

## 4. What is proved

For every value of the constants that the modules' named assumptions allow:

| Theorem | Module | Says |
|---|---|---|
| `Invariant` | `DualLoop_proofs` | `Spec => []IInv` |
| `TypeCorrect` | | `Spec => []TypeOK` |
| `NoTaskOrphaned` | | `Spec => []NoOrphan` |
| `DoneForGood` | | `Spec => DoneIsFinal` |
| `RepliesSentOnce` | | `Spec => []RepliesOnce` |
| `StepsDoneOnce` | | `Spec => DoneStepsStayDone` |
| `ServiceImplemented` | | `Spec => ImplementsService` |
| `MessagesServed` | | `Spec => [](NoMessageLost /\ NotOvertaken)` |
| `EveryMessageKept` | `Intake_proofs` | `IntakeSpec => []NoMessageLost` |
| `NobodyOvertaken` | | `IntakeSpec => []NotOvertaken` |
| `RecordedReplyStays` | `Coordinator_proofs` | `CoordinatorSpec => RecordedReplyRests` |
| `RedeliveryNeedsRestart` | | `CoordinatorSpec => DueAgainByArchiving` |
| `FileStaysWhole` | | `CoordinatorSpec => TimerSavesAreSafe` |
| `OrphansNeedRestart` | | `CoordinatorSpec => [](boots = 0 => InterruptedTasksRecover)` |
| `LoopIsTyped` | `ToolLoop_proofs` | `Spec => []TypeOK` |
| `StepsAreBounded` | | `Spec => []TurnsWithinBudget` |
| `RepeatsAreBounded` | | `Spec => []NoEndlessRepeat` |
| `BarrenPhasesEnd` | | `Spec => []BarrenPhaseEnds` |
| `FilesAreKept` | | `Spec => []NoFileForgotten` |
| `IdleTypes` | `IdleWork_proofs` | `IdleSpec => []IdleTypeOK` |
| `ResearchInvariant` | `Dream_proofs` | `Spec => []ResearchInv` |
| `RejectedGone` | | `Spec => []RejectedIsGone` |
| `AcceptedStays` | | `Spec => AcceptedChangeStays` |
| `NoIssueTwice` | | `Spec => []NoDuplicateIssue` |
| `GraveIssuesKept` | | `Spec => GraveIssuesStay` |
| `DreamTypes` | | `Spec => []TypeOK` |
| `OpenGoalsKept` | | `Spec => OpenGoalsStay` |
| `UsersGoalsKept` | | `Spec => UsersGoalsStay` |
| `RowsHandedOnce` | `Daemon_proofs` | `DaemonSpec => []HandedOnce` |
| `ReportsTakenOnce` | | `DaemonSpec => []ReportedOnce` |
| `AnswersAreNoTasks` | | `DaemonSpec => []AnswerIsNotATask` |
| `DaemonTypes` | | `DaemonSpec => []DaemonTypeOK` |

The assumptions are those the modules state of their constants: numbers that
are natural, limits that are not zero where the code divides by them or counts
up to them, `NoSender` not a sender, a finite set of paths.

**The two loops.** `IInv` is what everything about tasks rests on. It is the
conjunction of

- `Core`: the board's types; the types of `dpc` and `job`; `FreshIds` (an id not yet
  given out is `absent`, so `create()` overwrites nothing); and `JobOK`
  (the DeepLoop is idle exactly when it holds no task, and the task it holds is not
  settled before its notes are being rewritten: it may have been failed by the
  board, but nobody else has finished or claimed it);
- `RestOK`: types of the remaining variables of the DeepLoop, and that no more
  events wait than were posted;
- `TalkOK`: what the FastLoop is telling is about a task.

One lemma per action shows that it keeps `IInv`, and that the step is a `LegalStep`,
which says four things of it. `DoneStays`: done tasks are left alone, although the
DeepLoop writes without looking, because the task in its hands cannot be done
(`JobOK`). `NoNewOrphan`: a task that is claimed or at work, and not in the
DeepLoop's hands, was so before. `GoneStays`: an id that was given out and has no
task gets none. `ServiceStep`: the step is one of `TaskService` or a stutter.
`NoOrphan`, `DoneIsFinal` and the refinement follow. `NoNewOrphan` is stated of a
step and not of states because it also holds after a restart, when `NoOrphan` does
not. `RepliesOnce` then needs that a reply that was sent is marked
delivered and its task done (`RepliesOK`), which is inductive relative to `IInv`.

*Steps of plans.* `StepsOK`: if a task that waits, or that was claimed and whose
project is still being loaded, has a plan, that plan has a step such that all before
it are done and it and all behind it are pending (`Resumable`); while a step runs, the
steps before it are done and those behind it pending (`StepsInHand`). A revision
appends a step, so it does not disturb this.

*Messages.* In `Intake_proofs` a message has one place: the queue, the batch or the
group in hand (which count as one), or a task. `MessageInv` says that every message
that has arrived is at exactly one place (`OnePlace`, `Covered`), and that of two
messages of one person at different places the one nearer to the tasks was
written earlier (`InOrder`). One lemma, `MoveKeeps`, says that these three survive
when each person's messages move by a function of the places that changes no order;
the rest of the proof shows that grouping by sender, putting back, taking into hand
and making a task are such moves. `MessagesServed` carries it over to the two loops
together: the DeepLoop makes tasks that stand for no message.

**The coordinator.** Four kinds of boards exist at once: memory, the file, the
temporary file, and the copies the saves work on. `CoordInv` adds to `IInv`

- `RecordsOK`: an id that any of these boards remembers as delivered is remembered
  in memory, or its task is gone from memory and will not come back (`Known`); and no
  board has a task with an id not given out yet. This is what survives `archiveOld()`,
  which drops ids from the record, and a restart, which makes the file's record the
  one in memory;
- `FilesOK`, for a life in which `stop()` was not called and the timer has one save at
  a time (`OneTimerSave`): the one save there can be has the temporary file to itself,
  and of file, copy and memory each is a later board than the one before (`Follows`).

A reply is sent only for a task that is done and not in `delivered`: neither is true of
an id in the record. `OrphansNeedRestart` is what holds of exhibit 1, and
`RedeliveryNeedsRestart` of exhibit 4: before the first restart the marks in memory
are those of the record (`RecordedSoFar`), so archiving forgets none of a task that is
left; and a start marks every closed task, so that nothing is due right after it. Of
overlapping saves nothing is proved (exhibit 5).

**The tool loop.** `Inv` counts turns. While a phase is under way, its limit is what the
phases before have left of the budget, and the turns taken in the step are at
most those the phases before have reported, the history of this one, and one for
each phase before (`BudgetOK`): the last text of a phase, or the turn that was
broken off, does not enter the history, and that is the one turn per further phase
by which a step may exceed its budget. `RepeatOK` says that what was carried out
was counted. `QuietOK` says that turns without a new file are paid for: up to the
stall threshold they are free, and each further one costs an evaluation, of
which there are `MaxCheckpoints`; it relies on the stall test being a lower bound for
`quiet`, since a file that is read in the background counts as new. `NoFileForgotten` is
inductive with the types: what a step has recorded (`noted`) moves from the step's list
to the manifest and is dropped from neither before the other has it.

**Idle work.** `IdleInv`: the queue is finite and within its limit; the goals have
different ids, all below the next one; the DeepLoop has one task in hand at most.
`trimQueue()` is shown to leave at most the limit by counting: what it keeps maps
injectively to the ranks up to the limit. For the stack each operation
(`Updated`, `Pruned`, making room, appending) has a lemma that says which open goals
are left; pruning cannot take one because it only filters places of closed goals. What
becomes of goals is stated and proved of `Dream`, which has all the steps that change them.

**The dream.** `DreamInv` is `IdleInv` with the log's, the experiments' and the
scheduler's invariants; each part is kept by the steps of all the others.
`LogInv` says that memory, file and the copies of saves are all logs in order
(`LogOK`): ids below the next one and at most one open issue of a title. A reload
then brings in nothing new. `ResearchInv` says that a snapshot is on record from the
start of an experiment until its change is accepted or taken back, that a tracked file
that is not staged holds an experiment's change only while one is on record, and that an
accepted change in such a file and a snapshot exclude each other: a snapshot is only ever
recorded of a tree in which `git status` finds nothing. Nothing is claimed of staged and
ignored files; restoring does not touch them. For `OpenGoalsStay` and `UsersGoalsStay` the
dream's steps join those of the idle loop: `StaleGoals` is a prefix of the open goals, as
they are kept in the order of their last update, and the goals for issues are the system's
own, which a full stack refuses rather than makes room for.

**The daemon.** `RowsInv`: the poll's next row is the one after the last that counts as
read, while it reads messages, and no row handed over is newer than that. `ReportInv`:
reports not yet due have not
been taken up, and while a check is under way it is the only one and is for the report
that is due, which needs the guard of `isPolling`. `AnswersInv` adds to
`RowsInv` what the two pollers know of each other: a row that answered a request
has been consumed and not handed over, and no row handed over is one that the
poller of a pending request could still take for an answer. `RangesOK` has the types
that are left.

The prover has no definition of `SelectSeq` and `SortSeq` and cannot use the
library's induction. So `filter()` is defined by rank in `Ordered`, and the few
inductions over places of a sequence are done with the least element of the set
of places where a claim fails.

Only model-checked: the liveness properties (`EveryTaskCloses`, `EveryReplyLeaves`,
`EveryMessageTaken`, `PlanEnds`, `UrgentEventHeard`, `NextGoalIsTried`,
`EveryMessageHeard`, `ReportIsTaken`), which are out of the prover's reach. All other
properties of the passing runs are theorems. That the properties of the findings and the exhibits
fail is shown by TLC's counterexamples.

## 5. Not modelled, and the plan

Done: the board, both loops with their refinement, intake, coordinator; the tool
loop; idle work; the dream with the issue log and the experiments; the daemon with
the approval bridge and the daily report; the proofs above.

Next, in this order:

1. `ConcurrentProvider`: slots, timeouts, best-of-N. The task runner's batches. The
   session reset. Console mode with its unguarded checker.
2. Proofs: that the loops under the coordinator still implement `TaskService` between
   a restart and the next archive; that `IdleWork` is what `DualLoop` sees of events
   and goals.

Partly modelled, and what is missing:

- DeepLoop: tool loops without checkpoints (planning, review), the mode without a
  toolkit, the learning of skills.
- Scheduler: one-shot jobs and static reminders, which only the chat pipeline's
  tools create; the calendar of cron expressions.
- Daemon: console mode, start-up, shutdown, the guard on what people write.
- Dream: the scheduler's own file, the phases that write only theirs.

Left out for good: prompt assembly, parsing of model output, memory scoring and
consolidation, repository maps, training, logging and status reports, the single
agent loop that the dual loop replaced. They compute text or numbers from text and
keep no state that another part races for.
