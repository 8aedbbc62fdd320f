-------------------------- MODULE DualLoop_proofs --------------------------
(***************************************************************************)
(* Proofs about DualLoop, for every number of people, messages, events,    *)
(* goals, plan steps and rounds.  Most follow from one inductive           *)
(* invariant, IInv: what the DeepLoop holds is a task that exists and is   *)
(* not done, whatever the board has done to it since it was claimed.  With *)
(* it come LegalStep, what each step is to the tasks that are done or      *)
(* claimed and to TaskService, which DualLoop implements; StepsOK, for the *)
(* steps of plans; RepliesOK, for what is sent; and MessageInv of          *)
(* Intake_proofs, for the messages.                                        *)
(***************************************************************************)
EXTENDS DualLoop, Intake_proofs

(* What the FastLoop remembers of the task it is telling somebody about.   *)
TalkOK ==
    /\ talk \in [task : {0} \cup TaskId, count : Nat, rest : SUBSET TaskId]
    /\ fpc \in {"tellingPlan", "tellingSteps"} => talk.task \in TaskId

(* Ids not given out yet have no task. *)
FreshIds == \A t \in TaskId : t > created => tasks[t].status = "absent"

(* The states in which the DeepLoop may find the task it works on: the     *)
(* last one if create() failed it, "queued" while its project is loaded.   *)
Held == Working \cup {"queued", "failed"}

JobOK ==
    /\ dpc = "idle" => job = NoJob
    /\ dpc # "idle" => job.task \in TaskId
    /\ dpc \notin {"idle", "rewriting"} => tasks[job.task].status \in Held
    /\ dpc = "rewriting" => /\ tasks[job.task].status = "done"
                            /\ tasks[job.task].owner = "none"

(* What the actions that work on tasks have to keep.                       *)
Core == /\ BoardTypeOK
        /\ dpc \in DeepPC
        /\ job \in Job
        /\ FreshIds
        /\ JobOK

(* The rest of the DeepLoop's variables: their types, and an event waits   *)
(* only after it was posted.                                               *)
RestOK == /\ revisions \in [TaskId -> Nat]
          /\ posted \in 0..MaxEvents
          /\ events \in 0..MaxEvents
          /\ goalTasks \in 0..MaxGoalTasks
          /\ edited \in SUBSET TaskId
          /\ events <= posted

IInv == Core /\ RestOK /\ TalkOK

(* What DoneIsFinal says of one step. *)
DoneStays ==
    \A t \in TaskId : tasks[t].status = "done" =>
      /\ tasks'[t].status = "done"
      /\ tasks'[t].reply = tasks[t].reply

(* The phases of TaskService that the statuses on the board stand for, and *)
(* what ImplementsService says of one step.                                *)
Phase == [t \in TaskId |-> PhaseOf(tasks[t].status)]
ServiceStep == Service!ServiceNext \/ UNCHANGED Service!serviceVars

(* A task that is claimed, or in the middle of its work, and not in the    *)
(* DeepLoop's hands.                                                       *)
Orphaned(t) == /\ tasks[t].owner = "deep" \/ tasks[t].status \in Working
               /\ t \notin Current

NoNewOrphan == \A t \in TaskId : Orphaned(t)' => Orphaned(t)

(* An id that was given out and has no task on the board has none again.   *)
GoneStays ==
    /\ created' \in Nat /\ created <= created'
    /\ \A t \in TaskId :
         t <= created /\ tasks[t].status = "absent" => tasks'[t].status = "absent"

LegalStep == DoneStays /\ ServiceStep /\ NoNewOrphan /\ GoneStays

(* What the actions that do not work on a task do to the plans: nothing.   *)
SamePlan(f, g) == f.plan = g.plan /\ f.planned = g.planned /\ f.steps = g.steps

PlansKept ==
    \A t \in TaskId :
      \/ /\ SamePlan(tasks'[t], tasks[t])
         /\ tasks'[t].status \in {tasks[t].status, "failed"}
      \/ /\ tasks[t].status = "absent"
         /\ tasks'[t].status # "absent"
         /\ ~tasks'[t].plan

-----------------------------------------------------------------------------
(* Numbers and choices *)

(* Ids of tasks are positive numbers; 0 stands for no task.                *)
LEMMA TaskIds == TaskId \subseteq Nat \ {0} /\ 0 \notin TaskId
BY BoardAssumption DEF TaskId

(* First() chooses a task of the set it is given, which claimNext() tests  *)
(* for emptiness before.                                                   *)
LEMMA FirstIsOne ==
  ASSUME BoardTypeOK, NEW S \in SUBSET TaskId, S # {}
  PROVE  First(S) \in S
<1> DEFINE Of(p) == {t \in S : tasks[t].prio = p}
<1>1. \A t \in S : tasks[t].prio \in 0..2
  BY DEF BoardTypeOK, Task
<1>2. PICK p \in 0..2 : Of(p) # {} /\ \A q \in 0..2 : q < p => Of(q) = {}
  <2>1. CASE Of(0) # {}
    BY <2>1
  <2>2. CASE Of(0) = {} /\ Of(1) # {}
    BY <2>2
  <2>3. CASE Of(0) = {} /\ Of(1) = {}
    BY <1>1, <2>3
  <2> QED
    BY <2>1, <2>2, <2>3
<1>3. PICK t \in Of(p) : \A u \in Of(p) : t <= u
  BY <1>2, LeastElement, TaskIds
<1>4. ASSUME NEW u \in S \ {t}
      PROVE  Precedes(t, u)
  <2>1. tasks[u].prio \in 0..2 /\ ~ (tasks[u].prio < p)
    BY <1>1, <1>2
  <2>2. CASE tasks[u].prio = p
    BY <1>3, <2>2, TaskIds DEF Precedes
  <2>3. CASE p < tasks[u].prio
    BY <1>3, <2>3 DEF Precedes
  <2> QED
    BY <2>1, <2>2, <2>3
<1> QED
  BY <1>3, <1>4 DEF First

(* executePlan() starts at a step counted from one. *)
LEMMA FirstPendingIsStep ==
  ASSUME NEW steps \in Seq(StepStatus)
  PROVE  FirstPending(steps) \in Nat \ {0}
<1> DEFINE pending_ == {i \in DOMAIN steps : steps[i] = "pending"}
<1>1. pending_ \in SUBSET Nat /\ pending_ \subseteq Nat \ {0}
  OBVIOUS
<1>2. CASE pending_ = {}
  BY <1>2 DEF FirstPending
<1>3. CASE pending_ # {}
  <2>1. \E i \in pending_ : \A j \in pending_ : i <= j
    BY <1>1, <1>3, LeastElement
  <2>2. FirstPending(steps) \in pending_
    BY <1>3, <2>1 DEF FirstPending
  <2> QED
    BY <1>1, <2>2
<1> QED
  BY <1>2, <1>3

-----------------------------------------------------------------------------
(* The board *)

(* create() makes a queued task that nobody has claimed.                   *)
LEMMA NewTaskIsTask ==
  ASSUME NEW origin \in {"user", "event", "goal"}, NEW prio \in 0..2
  PROVE  /\ NewTask(origin, prio) \in Task
         /\ NewTask(origin, prio).status = "queued"
         /\ NewTask(origin, prio).owner = "none"
         /\ ~NewTask(origin, prio).plan
BY DEF NewTask, Task, Status, StepStatus

(* A task that fails is released by the same update.                       *)
LEMMA FailedIsTask ==
  ASSUME NEW task \in Task
  PROVE  /\ Failed(task) \in Task
         /\ Failed(task).status = "failed"
         /\ Failed(task).owner = "none"
         /\ SamePlan(Failed(task), task)
BY DEF Failed, Task, Status, Closed, SamePlan

(* One field of a task replaced.  SMT is slow to see through an EXCEPT on  *)
(* an expression, so these facts are stated for a task with a name.        *)
LEMMA StatusUpdate ==
  ASSUME NEW task \in Task, NEW status \in Status
  PROVE  /\ [task EXCEPT !.status = status] \in Task
         /\ [task EXCEPT !.status = status].status = status
         /\ SamePlan([task EXCEPT !.status = status], task)
         /\ [task EXCEPT !.status = status].owner = task.owner
BY DEF Task, SamePlan

(* The Boolean fields of a task say nothing of its status or its owner.    *)
LEMMA FlagUpdates ==
  ASSUME NEW task \in Task, NEW b \in BOOLEAN
  PROVE  /\ [task EXCEPT !.reply = b] \in Task
         /\ [task EXCEPT !.reply = b].status = task.status
         /\ [task EXCEPT !.reply = b].owner = task.owner
         /\ SamePlan([task EXCEPT !.reply = b], task)
         /\ [task EXCEPT !.project = b] \in Task
         /\ [task EXCEPT !.project = b].status = task.status
         /\ [task EXCEPT !.project = b].owner = task.owner
         /\ SamePlan([task EXCEPT !.project = b], task)
         /\ [task EXCEPT !.planTold = b] \in Task
         /\ [task EXCEPT !.planTold = b].status = task.status
         /\ [task EXCEPT !.planTold = b].owner = task.owner
         /\ [task EXCEPT !.planTold = b].reply = task.reply
         /\ SamePlan([task EXCEPT !.planTold = b], task)
BY DEF Task, SamePlan

(* Nor does the number of steps its sender was told of.                    *)
LEMMA ToldUpdate ==
  ASSUME NEW task \in Task, NEW n \in Nat
  PROVE  /\ [task EXCEPT !.told = n] \in Task
         /\ [task EXCEPT !.told = n].status = task.status
         /\ [task EXCEPT !.told = n].owner = task.owner
         /\ [task EXCEPT !.told = n].reply = task.reply
         /\ SamePlan([task EXCEPT !.told = n], task)
BY DEF Task, SamePlan

(* update() and its like replace one task and touch no other.              *)
LEMMA PutTypes ==
  ASSUME BoardTypeOK, NEW t \in TaskId, NEW task \in Task, Put(t, task)
  PROVE  /\ BoardTypeOK'
         /\ created' = created
         /\ tasks'[t] = task
         /\ \A u \in TaskId : u # t => tasks'[u] = tasks[u]
BY DEF Put, BoardTypeOK

(* What create() does to one task: nothing, or it makes it, and may fail it *)
(* at once, or it fails one that is active.                                *)
CreateTouches(t, task) ==
    \/ tasks'[t] = tasks[t]
    \/ tasks[t].status = "absent" /\ tasks'[t] \in {task, Failed(task)}
    \/ /\ tasks[t].status \notin Closed \cup {"absent"}
       /\ tasks'[t] = Failed(tasks[t])

(* create() gives ids that were not in use to new tasks, one at least, and *)
(* otherwise only fails tasks that were active.                            *)
LEMMA CreateFacts ==
  ASSUME BoardTypeOK, FreshIds, NEW n \in Nat \ {0}, NEW task \in Task, NEW group,
         Create(n, task, group)
  PROVE  /\ BoardTypeOK'
         /\ FreshIds'
         /\ GoneStays
         /\ \A t \in TaskId : CreateTouches(t, task)
         /\ \E t \in TaskId : /\ tasks[t].status = "absent"
                              /\ tasks'[t] \in {task, Failed(task)}
<1> DEFINE born == (created + 1)..(created + n)
           given == [t \in TaskId |-> IF t \in born THEN task ELSE tasks[t]]
           out == Evicted(n)
<1>1. created \in Nat /\ created + n \in TaskId
  BY DEF Create, BoardTypeOK
<1>2. tasks' = [t \in TaskId |-> IF t \in out THEN Failed(given[t]) ELSE given[t]]
  BY DEF Create
<1>3. out \subseteq ActiveTasks \cup born
  BY DEF Evicted
<1>4. given \in [TaskId -> Task]
  BY DEF BoardTypeOK
<1>5. tasks' \in [TaskId -> Task]
  BY <1>2, <1>4, FailedIsTask
<1>6. BoardTypeOK'
  BY <1>1, <1>5 DEF Create, BoardTypeOK, TaskId
<1>7. FreshIds'
  <2> SUFFICES ASSUME NEW t \in TaskId, t > created'
               PROVE  tasks'[t].status = "absent"
    BY DEF FreshIds
  <2>1. created' = created + n /\ t > created /\ t \notin born
    BY <1>1, TaskIds DEF Create
  <2>2. tasks[t].status = "absent" /\ t \notin out
    BY <1>3, <2>1 DEF FreshIds, ActiveTasks
  <2> QED
    BY <1>2, <2>1, <2>2
<1>8. ASSUME NEW t \in born
      PROVE  tasks[t].status = "absent" /\ tasks'[t] \in {task, Failed(task)}
  <2>1. t \in TaskId
    BY <1>1, BoardAssumption DEF TaskId
  <2>2. tasks[t].status = "absent"
    BY <1>1, <2>1, TaskIds DEF FreshIds
  <2> QED
    BY <1>2, <2>1, <2>2
<1>9. ASSUME NEW t \in TaskId
      PROVE  CreateTouches(t, task)
  <2>1. CASE t \in born
    BY <1>8, <2>1 DEF CreateTouches
  <2>2. CASE t \notin born /\ t \in out
    <3>1. tasks[t].status \notin Closed \cup {"absent"}
      BY <1>3, <2>2 DEF ActiveTasks
    <3>2. tasks'[t] = Failed(tasks[t])
      BY <1>2, <2>2
    <3> QED
      BY <3>1, <3>2 DEF CreateTouches
  <2>3. CASE t \notin born /\ t \notin out
    BY <1>2, <2>3 DEF CreateTouches
  <2> QED
    BY <2>1, <2>2, <2>3
<1>10. created + 1 \in born /\ created + 1 \in TaskId
  BY <1>1, BoardAssumption DEF TaskId
<1>11. GoneStays
  <2> SUFFICES ASSUME NEW t \in TaskId, t <= created, tasks[t].status = "absent"
               PROVE  tasks'[t].status = "absent"
    BY <1>1 DEF GoneStays, Create
  <2>1. t \notin born /\ t \notin out
    BY <1>1, <1>3, TaskIds DEF ActiveTasks
  <2> QED
    BY <1>2, <2>1
<1> QED
  BY <1>6, <1>7, <1>8, <1>9, <1>10, <1>11

-----------------------------------------------------------------------------
(* The abstract service: what a step of the loops is to TaskService.       *)

(* A step that leaves the phases and the worker alone is a stutter.        *)
LEMMA ServiceRests ==
  ASSUME Phase' = Phase, job'.task = job.task
  PROVE  ServiceStep
BY DEF ServiceStep, Service!serviceVars, Phase

(* What the worker does to its task, open or failed, is to write to it or  *)
(* to close it, and it may let go of the task then.                        *)
LEMMA ServiceWorks ==
  ASSUME NEW t \in TaskId, job.task = t, Phase[t] \in {"open", "failed"},
         NEW end \in {"open", "failed", "done"}, Phase' = [Phase EXCEPT ![t] = end],
         job'.task \in {t, 0}
  PROVE  ServiceStep
<1>1. CASE end = "open"
  BY <1>1 DEF ServiceStep, Service!ServiceNext, Service!Write, Phase
<1>2. CASE end # "open"
  BY <1>2 DEF ServiceStep, Service!ServiceNext, Service!Close, Phase
<1> QED
  BY <1>1, <1>2

(* An open task that is taken stays open, or is given up at once.          *)
LEMMA ServiceTakes ==
  ASSUME NEW t \in TaskId, job.task = 0, Phase[t] = "open",
         \/ Phase' = Phase /\ job'.task \in {t, 0}
         \/ Phase' = [Phase EXCEPT ![t] = "failed"] /\ job'.task = 0
  PROVE  ServiceStep
<1>1. CASE job'.task = job.task /\ Phase' = Phase
  BY <1>1, ServiceRests
<1>2. CASE Phase' = Phase /\ job'.task = t
  BY <1>2 DEF ServiceStep, Service!ServiceNext, Service!Take, Phase
<1>3. CASE Phase' = [Phase EXCEPT ![t] = "failed"] /\ job'.task = 0
  BY <1>3 DEF ServiceStep, Service!ServiceNext, Service!Take, Phase
<1> QED
  BY <1>1, <1>2, <1>3

(* A worker that is through with its task leaves it.                       *)
LEMMA ServiceLeaves ==
  ASSUME NEW t \in TaskId, job.task = t, Phase[t] # "open", Phase' = Phase,
         job'.task = 0
  PROVE  ServiceStep
BY DEF ServiceStep, Service!ServiceNext, Service!Leave, Phase

(* create() admits tasks, and fails open ones to make room.                *)
LEMMA ServiceAdmits ==
  ASSUME BoardTypeOK, NEW task \in Task, task.status \in {"queued", "answered_directly"},
         \A t \in TaskId : CreateTouches(t, task),
         \E t \in TaskId : /\ tasks[t].status = "absent"
                          /\ tasks'[t] \in {task, Failed(task)},
         job'.task = job.task
  PROVE  ServiceStep
<1> DEFINE born == {t \in TaskId : /\ tasks[t].status = "absent"
                                   /\ tasks'[t] \in {task, Failed(task)}}
           out  == {t \in TaskId : /\ tasks[t].status # tasks'[t].status
                                   /\ tasks'[t].status = "failed"}
           kind == IF task.status = "queued" THEN "open" ELSE "answered"
<1>1. Failed(task).status = "failed"
  BY FailedIsTask
<1>2. ASSUME NEW t \in TaskId
      PROVE  tasks[t] \in Task /\ Failed(tasks[t]).status = "failed"
  BY <1>2, FailedIsTask DEF BoardTypeOK
<1>3. born \in (SUBSET TaskId) \ {{}} /\ out \in SUBSET TaskId
  OBVIOUS
<1>4. \A t \in born : Phase[t] = "absent"
  BY DEF Phase, PhaseOf, Working
<1>5. ASSUME NEW t \in out
      PROVE  t \in born \/ Phase[t] = "open"
  <2>1. CreateTouches(t, task) /\ tasks[t].status \in Status
    BY <1>2 DEF Task
  <2>2. CASE tasks[t].status \notin Closed \cup {"absent"}
    BY <2>1, <2>2 DEF Phase, PhaseOf, Status, Closed
  <2>3. CASE tasks[t].status \in Closed \cup {"absent"}
    BY <2>1, <2>3 DEF CreateTouches
  <2> QED
    BY <2>2, <2>3
<1>6. ASSUME NEW t \in TaskId
      PROVE  PhaseOf(tasks'[t].status) = IF t \in out THEN "failed"
                                         ELSE IF t \in born THEN kind
                                         ELSE Phase[t]
  <2>1. CreateTouches(t, task)
    OBVIOUS
  <2>2. CASE t \in out
    BY <2>2 DEF PhaseOf, Working
  <2>3. CASE t \notin out /\ t \in born
    <3>1. tasks'[t].status = task.status
      BY <1>1, <2>3
    <3> QED
      BY <2>3, <3>1 DEF PhaseOf, Working
  <2>4. CASE t \notin out /\ t \notin born
    <3>1. tasks'[t].status = tasks[t].status
      BY <1>2, <2>1, <2>4 DEF CreateTouches
    <3> QED
      BY <2>4, <3>1 DEF Phase
  <2> QED
    BY <2>2, <2>3, <2>4
<1>7. kind \in {"open", "answered"}
  OBVIOUS
<1> HIDE DEF born, out, kind
<1>8. Phase' = [t \in TaskId |-> IF t \in out THEN "failed"
                                ELSE IF t \in born THEN kind
                                ELSE Phase[t]]
  BY <1>6 DEF Phase
<1> QED
  BY <1>3, <1>4, <1>5, <1>7, <1>8
  DEF ServiceStep, Service!ServiceNext, Service!Admit, Phase

-----------------------------------------------------------------------------
(* What an action of the DeepLoop does to the task t: it puts a new value  *)
(* and lets go of the task, or puts one and keeps the task in its hand.    *)
LetsGo(t) ==
    \E new \in Task : /\ Put(t, new)
                      /\ new.owner = "none"
                      /\ new.status \in {"queued", "revision", "done", "failed"}
                      /\ Finish
Keeps(t) ==
    \E new \in Task : /\ Put(t, new)
                      /\ IF dpc' = "rewriting"
                         THEN new.status = "done" /\ new.owner = "none"
                         ELSE new.status \in Held
                      /\ job' \in Job
                      /\ job'.task = t
                      /\ dpc' \in DeepPC \ {"idle"}

(* Between two tasks the DeepLoop has a job in hand that names no task.    *)
LEMMA NoJobIsJob == NoJob \in Job /\ NoJob.task = 0
BY DeepAssumption DEF NoJob, Job

(* The statuses of a task that is open to the service.                     *)
Open == {"queued", "revision"} \cup Working

(* What an idle DeepLoop takes is open, and stays open or is given up.     *)
TakesOpen(t) ==
    /\ tasks[t].status \in Open
    /\ \/ tasks'[t].status \in Open
       \/ tasks'[t].status = "failed" /\ dpc' = "idle"

(* If a task is written only while the DeepLoop holds it, or when the loop *)
(* is idle and takes it, and never when it is done, all is well.           *)
LEMMA WriteKeepsCore ==
  ASSUME Core, NEW t \in TaskId,
         (dpc = "idle" /\ TakesOpen(t)) \/ (dpc # "idle" /\ job.task = t),
         tasks[t].status \notin {"done", "absent"},
         dpc # "idle" => tasks[t].status \in Held,
         LetsGo(t) \/ Keeps(t)
  PROVE  Core' /\ LegalStep
<1>1. PICK new \in Task :
        /\ Put(t, new)
        /\ \/ /\ new.owner = "none"
              /\ new.status \in {"queued", "revision", "done", "failed"}
              /\ dpc' = "idle" /\ job' = NoJob
           \/ /\ IF dpc' = "rewriting"
                 THEN new.status = "done" /\ new.owner = "none"
                 ELSE new.status \in Held
              /\ job' \in Job
              /\ job'.task = t
              /\ dpc' \in DeepPC \ {"idle"}
  BY DEF LetsGo, Keeps, Finish
<1>2. /\ BoardTypeOK'
      /\ created' = created
      /\ tasks'[t] = new
      /\ \A u \in TaskId : u # t => tasks'[u] = tasks[u]
  BY <1>1, PutTypes DEF Core
<1>3. DoneStays
  BY <1>2 DEF DoneStays
<1>4. dpc' \in DeepPC /\ job' \in Job
  BY <1>1, NoJobIsJob DEF DeepPC
<1>5. FreshIds'
  <2>1. t <= created
    BY TaskIds DEF Core, FreshIds, BoardTypeOK
  <2> QED
    BY <1>2, <2>1, TaskIds DEF Core, FreshIds, BoardTypeOK
<1>6. JobOK'
  BY <1>1, <1>2 DEF JobOK
<1>7. NoNewOrphan
  <2> SUFFICES ASSUME NEW u \in TaskId,
                      tasks'[u].owner = "deep" \/ tasks'[u].status \in Working,
                      u \notin Current'
               PROVE  Orphaned(u)
    BY DEF NoNewOrphan, Orphaned
  <2>1. u # t
    <3>1. ASSUME u = t PROVE dpc' # "idle" /\ job'.task = t
      BY <1>1, <1>2, <3>1 DEF Working
    <3> QED
      BY <3>1 DEF Current
  <2> QED
    BY <1>2, <2>1 DEF Orphaned, Current
<1>8. ServiceStep
  <2>1. PhaseOf(tasks[t].status) = Phase[t]
    BY DEF Phase
  <2>2. Phase' = [Phase EXCEPT ![t] = PhaseOf(new.status)]
    BY <1>2 DEF Phase
  <2>3. job'.task \in {t, 0}
    BY <1>1, NoJobIsJob
  <2>4. CASE dpc = "idle"
    <3>1. job.task = 0
      BY <2>4, NoJobIsJob DEF Core, JobOK
    <3>2. tasks[t].status \in Open /\ Phase[t] = "open"
      BY <2>1, <2>4 DEF TakesOpen, Open, PhaseOf
    <3>3. CASE new.status \in Open
      <4>1. Phase' = Phase
        BY <2>1, <2>2, <3>2, <3>3 DEF Open, PhaseOf, Phase
      <4> QED
        BY <2>3, <3>1, <3>2, <4>1, ServiceTakes
    <3>4. CASE new.status = "failed" /\ dpc' = "idle"
      <4>1. PhaseOf(new.status) = "failed" /\ job'.task = 0
        BY <1>1, <3>4, NoJobIsJob DEF PhaseOf, Working
      <4> QED
        BY <2>2, <3>1, <3>2, <4>1, ServiceTakes
    <3> QED
      BY <1>2, <2>4, <3>3, <3>4 DEF TakesOpen
  <2>5. CASE dpc # "idle"
    <3>1. job.task = t /\ Phase[t] \in {"open", "failed"}
      BY <2>1, <2>5 DEF PhaseOf, Held
    <3>2. PhaseOf(new.status) \in {"open", "failed", "done"}
      BY <1>1 DEF PhaseOf, Held
    <3> QED
      BY <2>2, <2>3, <3>1, <3>2, ServiceWorks
  <2> QED
    BY <2>4, <2>5
<1>9. GoneStays
  BY <1>2 DEF GoneStays, Core, BoardTypeOK
<1> QED
  BY <1>2, <1>3, <1>4, <1>5, <1>6, <1>7, <1>8, <1>9 DEF Core, LegalStep

(* Taking a task that waits is such a step.                                *)
LEMMA TakingKeepsCore ==
  ASSUME Core, dpc = "idle", NEW t \in TaskId,
         tasks[t].status \in {"queued", "revision"},
         \/ tasks'[t].status \in Open
         \/ tasks'[t].status = "failed" /\ dpc' = "idle",
         LetsGo(t) \/ Keeps(t)
  PROVE  Core' /\ LegalStep
<1>1. TakesOpen(t)
  BY DEF TakesOpen, Open
<1>2. tasks[t].status \notin {"done", "absent"}
  OBVIOUS
<1>3. (dpc = "idle" /\ TakesOpen(t)) \/ (dpc # "idle" /\ job.task = t)
  BY <1>1
<1>4. dpc # "idle" => tasks[t].status \in Held
  OBVIOUS
<1> QED
  BY <1>2, <1>3, <1>4, WriteKeepsCore

(* create() never claims, and never touches what is done.                  *)
LEMMA CreateKeepsCore ==
  ASSUME Core, NEW n \in Nat \ {0}, NEW task \in Task, NEW group,
         task.owner = "none", task.status \in {"queued", "answered_directly"},
         ~task.plan, Create(n, task, group), UNCHANGED <<dpc, job>>
  PROVE  Core' /\ LegalStep /\ PlansKept
<1>1. /\ BoardTypeOK'
      /\ FreshIds'
      /\ GoneStays
      /\ \A t \in TaskId : CreateTouches(t, task)
      /\ \E t \in TaskId : /\ tasks[t].status = "absent"
                           /\ tasks'[t] \in {task, Failed(task)}
  BY CreateFacts DEF Core
<1>2. ASSUME NEW t \in TaskId
      PROVE  \/ tasks'[t] = tasks[t]
             \/ /\ tasks[t].status = "absent"
                /\ tasks'[t].owner = "none"
                /\ tasks'[t].status \in {task.status, "failed"}
             \/ /\ tasks[t].status \notin Closed
                /\ tasks'[t].owner = "none"
                /\ tasks'[t].status = "failed"
  <2>1. CreateTouches(t, task) /\ tasks[t] \in Task
    BY <1>1 DEF Core, BoardTypeOK
  <2> QED
    BY <2>1, FailedIsTask DEF CreateTouches
<1>3. DoneStays
  BY <1>2 DEF DoneStays, Closed
<1>4. JobOK'
  BY <1>2 DEF Core, JobOK, Held, Working, Closed
<1>5. NoNewOrphan
  BY <1>2 DEF NoNewOrphan, Orphaned, Current, Working
<1>6. ServiceStep
  BY <1>1, ServiceAdmits DEF Core
<1>7. PlansKept
  <2> SUFFICES ASSUME NEW t \in TaskId
               PROVE  \/ /\ SamePlan(tasks'[t], tasks[t])
                         /\ tasks'[t].status \in {tasks[t].status, "failed"}
                      \/ /\ tasks[t].status = "absent"
                         /\ tasks'[t].status # "absent"
                         /\ ~tasks'[t].plan
    BY DEF PlansKept
  <2>1. CreateTouches(t, task) /\ tasks[t] \in Task
    BY <1>1 DEF Core, BoardTypeOK
  <2>2. CASE tasks'[t] = tasks[t]
    BY <2>2 DEF SamePlan
  <2>3. CASE tasks[t].status = "absent" /\ tasks'[t] \in {task, Failed(task)}
    BY <2>3, FailedIsTask DEF SamePlan
  <2>4. CASE tasks'[t] = Failed(tasks[t])
    BY <2>1, <2>4, FailedIsTask
  <2> QED
    BY <2>1, <2>2, <2>3, <2>4 DEF CreateTouches
<1> QED
  BY <1>1, <1>3, <1>4, <1>5, <1>6, <1>7 DEF Core, LegalStep

-----------------------------------------------------------------------------
(* The FastLoop's steps *)

(* A progress update changes nothing of a task but what was told of it.    *)
Alike(f, g) ==
    \A t \in TaskId : /\ f[t].status = g[t].status
                      /\ f[t].owner = g[t].owner
                      /\ f[t].reply = g[t].reply
                      /\ SamePlan(f[t], g[t])

(* The steps of a plan that are done can be counted.                       *)
LEMMA StepsDoneIsNat ==
  ASSUME BoardTypeOK, NEW t \in TaskId
  PROVE  StepsDone(t) \in Nat
<1> DEFINE all == 1..Len(tasks[t].steps)
           S == {i \in DOMAIN tasks[t].steps : tasks[t].steps[i] = "done"}
<1>1. tasks[t].steps \in Seq(StepStatus)
  BY DEF BoardTypeOK, Task
<1>2. S \subseteq all /\ Len(tasks[t].steps) \in Nat
  BY <1>1
<1>3. IsFiniteSet(all)
  BY <1>2, FS_Interval
<1>4. IsFiniteSet(S)
  BY <1>2, <1>3, FS_Subset
<1> QED
  BY <1>4, FS_CardinalityType DEF StepsDone

(* Telling somebody of a plan or of its steps changes what was told, no    *)
(* more.                                                                   *)
LEMMA TellFacts ==
  ASSUME BoardTypeOK, NEW S \in SUBSET TaskId, NEW board \in [TaskId -> Task],
         Alike(board, tasks), Tell(S, board)
  PROVE  /\ tasks' \in [TaskId -> Task]
         /\ Alike(tasks', tasks)
         /\ dirty' \in BOOLEAN
         /\ TalkOK'
<1>1. PICK t \in S :
        /\ talk' = [task |-> t, count |-> StepsDone(t), rest |-> {u \in S : u > t}]
        /\ tasks' = board \/ tasks' = [board EXCEPT ![t].planTold = TRUE]
        /\ dirty' = (dirty \/ tasks' # tasks)
  BY DEF Tell
<1>2. TalkOK'
  BY <1>1, StepsDoneIsNat DEF TalkOK
<1> DEFINE told == [board[t] EXCEPT !.planTold = TRUE]
<1>3. /\ told \in Task
      /\ told.status = board[t].status
      /\ told.owner = board[t].owner
      /\ told.reply = board[t].reply
      /\ SamePlan(told, board[t])
  BY FlagUpdates
<1>4. tasks' = board \/ tasks' = [board EXCEPT ![t] = told]
  BY <1>1
<1> HIDE DEF told
<1>5. tasks' \in [TaskId -> Task] /\ Alike(tasks', board)
  BY <1>3, <1>4 DEF Alike, SamePlan
<1> QED
  BY <1>1, <1>2, <1>5 DEF Alike, SamePlan, BoardTypeOK

(* What only changes what was told of tasks keeps Core.                    *)
LEMMA AlikeKeepsCore ==
  ASSUME Core, tasks' \in [TaskId -> Task], Alike(tasks', tasks),
         dirty' \in BOOLEAN,
         UNCHANGED <<created, delivered, deliveredIds, dpc, job>>
  PROVE  Core' /\ LegalStep /\ PlansKept
<1>1. BoardTypeOK'
  BY DEF Core, BoardTypeOK
<1>2. FreshIds' /\ JobOK'
  BY DEF Core, FreshIds, JobOK, Alike
<1>3. NoNewOrphan /\ GoneStays
  BY DEF Core, BoardTypeOK, NoNewOrphan, Orphaned, GoneStays, Current, Alike
<1>4. DoneStays
  BY DEF DoneStays, Alike
<1>5. ServiceStep
  BY ServiceRests DEF Phase, Alike
<1>6. PlansKept
  BY DEF PlansKept, Alike
<1> QED
  BY <1>1, <1>2, <1>3, <1>4, <1>5, <1>6 DEF Core, LegalStep

(* Nothing changes if nothing happens to the tasks and to the job.         *)
LEMMA QuietKeepsCore ==
  ASSUME Core, BoardTypeOK', UNCHANGED <<tasks, created, dpc, job>>
  PROVE  Core' /\ LegalStep /\ PlansKept
<1>1. FreshIds' /\ JobOK' /\ DoneStays
  BY DEF Core, FreshIds, JobOK, DoneStays
<1>2. NoNewOrphan /\ GoneStays
  BY DEF Core, BoardTypeOK, NoNewOrphan, Orphaned, GoneStays, Current
<1>3. ServiceStep
  BY ServiceRests DEF Phase
<1>4. PlansKept
  BY DEF PlansKept, SamePlan
<1> QED
  BY <1>1, <1>2, <1>3, <1>4 DEF Core, LegalStep

(* The FastLoop makes tasks, and otherwise only says what it has told of   *)
(* them.                                                                   *)
LEMMA FastKeepsCore ==
  ASSUME Core, TalkOK, FastTurn
  PROVE  Core' /\ LegalStep /\ PlansKept /\ TalkOK'
<1>0. UNCHANGED <<dpc, job>>
  BY DEF FastTurn, deepVars
<1>1. ASSUME UNCHANGED boardVars
      PROVE  Core' /\ LegalStep /\ PlansKept
  BY <1>0, <1>1, QuietKeepsCore DEF Core, BoardTypeOK, boardVars
<1>2. CASE StartBatch
  BY <1>1, <1>2 DEF StartBatch, NextGroup, TalkOK
<1>3. CASE AnswerDirectly
  <2> DEFINE task == [NewTask("user", 0) EXCEPT !.status = "answered_directly",
                                                !.reply = TRUE]
  <2>1. /\ task \in Task
        /\ task.status = "answered_directly"
        /\ task.owner = "none"
        /\ ~task.plan
    <3> DEFINE new == NewTask("user", 0)
               answered == [new EXCEPT !.status = "answered_directly"]
    <3>1. new \in Task /\ new.owner = "none" /\ ~new.plan
      BY NewTaskIsTask
    <3> HIDE DEF new
    <3>2. /\ answered \in Task
          /\ answered.status = "answered_directly"
          /\ answered.owner = "none"
          /\ ~answered.plan
      BY <3>1, StatusUpdate DEF Status, Closed, SamePlan
    <3> HIDE DEF answered
    <3>3. /\ [answered EXCEPT !.reply = TRUE] \in Task
          /\ [answered EXCEPT !.reply = TRUE].status = "answered_directly"
          /\ [answered EXCEPT !.reply = TRUE].owner = "none"
          /\ ~[answered EXCEPT !.reply = TRUE].plan
      BY <3>2, FlagUpdates DEF SamePlan
    <3> QED
      BY <3>3 DEF new, answered
  <2>2. Create(1, task, hand)
    BY <1>3 DEF AnswerDirectly
  <2> HIDE DEF task
  <2>3. Core' /\ LegalStep /\ PlansKept
    BY <1>0, <2>1, <2>2, CreateKeepsCore
  <2>4. TalkOK'
    BY <1>3 DEF AnswerDirectly, TalkOK
  <2> QED
    BY <2>3, <2>4
<1>4. CASE Escalate
  <2>1. PICK project \in BOOLEAN :
          Create(1, [NewTask("user", 0) EXCEPT !.project = project], hand)
    BY <1>4, BoardAssumption DEF Escalate
  <2> DEFINE task == [NewTask("user", 0) EXCEPT !.project = project]
  <2>2. /\ task \in Task /\ task.status = "queued" /\ task.owner = "none"
        /\ ~task.plan
    <3> DEFINE new == NewTask("user", 0)
    <3>1. /\ new \in Task /\ new.status = "queued" /\ new.owner = "none"
          /\ ~new.plan
      BY NewTaskIsTask
    <3> HIDE DEF new
    <3>2. /\ [new EXCEPT !.project = project] \in Task
          /\ [new EXCEPT !.project = project].status = "queued"
          /\ [new EXCEPT !.project = project].owner = "none"
          /\ ~[new EXCEPT !.project = project].plan
      BY <3>1, FlagUpdates DEF SamePlan
    <3> QED
      BY <3>2 DEF new
  <2>3. Create(1, task, hand)
    BY <2>1
  <2> HIDE DEF task
  <2>4. Core' /\ LegalStep /\ PlansKept
    BY <1>0, <2>2, <2>3, CreateKeepsCore
  <2>5. TalkOK'
    BY <1>4 DEF Escalate, TalkOK
  <2> QED
    BY <2>4, <2>5
<1>5. CASE Replied
  BY <1>1, <1>5 DEF Replied, NextGroup, TalkOK
<1>6. CASE DeliverResponse
  <2> DEFINE t == Oldest(Deliverable)
  <2>1. t \in TaskId
    <3>1. Deliverable \in SUBSET Nat /\ Deliverable # {}
      BY <1>6, TaskIds DEF DeliverResponse, Deliverable
    <3>2. \E u \in Deliverable : \A v \in Deliverable : u <= v
      BY <3>1, LeastElement
    <3> QED
      BY <3>2 DEF Oldest, Deliverable
  <2>2. MarkDelivered(t)
    BY <1>6 DEF DeliverResponse
  <2>3. fpc' \in {fpc, "delivering"} /\ talk' \in {talk, [NoTalk EXCEPT !.task = t]}
    BY <1>6 DEF DeliverResponse
  <2>4. fpc = "idle"
    BY <1>6 DEF DeliverResponse, QuietHeartbeat
  <2>5. TalkOK'
    BY <2>1, <2>3, <2>4 DEF TalkOK, NoTalk
  <2>6. Core' /\ LegalStep /\ PlansKept
    <3>1. BoardTypeOK' /\ UNCHANGED <<tasks, created>>
      BY <2>1, <2>2 DEF MarkDelivered, Core, BoardTypeOK
    <3> QED
      BY <1>0, <3>1, QuietKeepsCore
  <2> QED
    BY <2>5, <2>6
<1>7. CASE ResponseSent
  BY <1>1, <1>7 DEF ResponseSent, TalkOK, NoTalk
<1>8. CASE StartProgress
  <2>1. /\ Tell(ActiveTasks, tasks)
        /\ UNCHANGED <<created, delivered, deliveredIds>>
    BY <1>8 DEF StartProgress
  <2>2. ActiveTasks \in SUBSET TaskId /\ Alike(tasks, tasks)
    BY DEF ActiveTasks, Alike, SamePlan
  <2>3. /\ tasks' \in [TaskId -> Task] /\ Alike(tasks', tasks)
        /\ dirty' \in BOOLEAN /\ TalkOK'
    BY <2>1, <2>2, TellFacts DEF Core, BoardTypeOK
  <2> QED
    BY <1>0, <2>1, <2>3, AlikeKeepsCore
<1>9. CASE ProgressSent
  <2> DEFINE board ==
        IF fpc = "tellingSteps" /\ tasks[talk.task].status # "absent"
        THEN [tasks EXCEPT ![talk.task].told = talk.count] ELSE tasks
  <2>1. talk.task \in TaskId /\ talk.count \in Nat /\ talk.rest \in SUBSET TaskId
    BY <1>9 DEF ProgressSent, TalkOK
  <2>2. tasks \in [TaskId -> Task]
    BY DEF Core, BoardTypeOK
  <2> DEFINE told == [tasks[talk.task] EXCEPT !.told = talk.count]
  <2>3. /\ told \in Task
        /\ told.status = tasks[talk.task].status
        /\ told.owner = tasks[talk.task].owner
        /\ told.reply = tasks[talk.task].reply
        /\ SamePlan(told, tasks[talk.task])
    BY <2>1, <2>2, ToldUpdate
  <2>4. board \in [TaskId -> Task] /\ Alike(board, tasks)
    <3>1. board = tasks \/ board = [tasks EXCEPT ![talk.task] = told]
      OBVIOUS
    <3> HIDE DEF told, board
    <3> QED
      BY <2>1, <2>2, <2>3, <3>1 DEF Alike, SamePlan
  <2>5. /\ \/ Tell(talk.rest, board)
           \/ /\ fpc' = "idle" /\ talk' = NoTalk
              /\ tasks' = board
              /\ dirty' = (dirty \/ tasks' # tasks)
        /\ UNCHANGED <<created, delivered, deliveredIds>>
    BY <1>9 DEF ProgressSent
  <2> HIDE DEF board
  <2>6. /\ tasks' \in [TaskId -> Task] /\ Alike(tasks', tasks)
        /\ dirty' \in BOOLEAN /\ TalkOK'
    <3>1. CASE Tell(talk.rest, board)
      BY <2>1, <2>4, <3>1, TellFacts DEF Core
    <3>2. CASE /\ fpc' = "idle" /\ talk' = NoTalk
               /\ tasks' = board
               /\ dirty' = (dirty \/ tasks' # tasks)
      BY <2>4, <3>2 DEF TalkOK, NoTalk, Core, BoardTypeOK
    <3> QED
      BY <2>5, <3>1, <3>2
  <2> QED
    BY <1>0, <2>5, <2>6, AlikeKeepsCore
<1> QED
  BY <1>2, <1>3, <1>4, <1>5, <1>6, <1>7, <1>8, <1>9 DEF FastTurn, FastStep

-----------------------------------------------------------------------------
(* The DeepLoop's steps *)

(* The job with which a plan's execution begins.                           *)
LEMMA JobStarted ==
  ASSUME NEW t \in TaskId, NEW i \in Nat, NEW files \in 0..MaxFiles
  PROVE  /\ [NoJob EXCEPT !.task = t, !.at = i, !.files = files] \in Job
         /\ [NoJob EXCEPT !.task = t, !.at = i, !.files = files].task = t
<1>1. ASSUME NEW one \in Job
      PROVE  /\ [one EXCEPT !.task = t, !.at = i, !.files = files] \in Job
             /\ [one EXCEPT !.task = t, !.at = i, !.files = files].task = t
  BY DEF Job
<1> QED
  BY <1>1, NoJobIsJob, Zenon

(* The job of a task that was just claimed.                                *)
LEMMA JobTaken ==
  ASSUME NEW t \in TaskId
  PROVE  /\ [NoJob EXCEPT !.task = t] \in Job
         /\ [NoJob EXCEPT !.task = t].task = t
<1>1. ASSUME NEW one \in Job
      PROVE  /\ [one EXCEPT !.task = t] \in Job
             /\ [one EXCEPT !.task = t].task = t
  BY DEF Job
<1> QED
  BY <1>1, NoJobIsJob, Zenon

(* A step of a plan replaced: the plan is still a plan, the status the     *)
(* same.                                                                   *)
LEMMA StepUpdate ==
  ASSUME NEW task \in Task, NEW i \in Nat, NEW step \in StepStatus
  PROVE  /\ [task EXCEPT !.steps[i] = step] \in Task
         /\ [task EXCEPT !.steps[i] = step].status = task.status
<1> DEFINE old == task.steps
           steps == [old EXCEPT ![i] = step]
<1>1. steps \in Seq(StepStatus)
  <2>1. old \in Seq(StepStatus)
    BY DEF Task
  <2> HIDE DEF old
  <2>2. Len(old) \in Nat /\ old \in [1..Len(old) -> StepStatus]
    BY <2>1
  <2>3. steps \in [1..Len(old) -> StepStatus]
    BY <2>2
  <2> HIDE DEF steps
  <2> QED
    BY <2>2, <2>3
<1> QED
  BY <1>1 DEF Task

(* A fix step added: the plan is still a plan, the status the same.        *)
LEMMA StepAppended ==
  ASSUME NEW task \in Task, NEW step \in StepStatus
  PROVE  /\ [task EXCEPT !.steps = Append(@, step)] \in Task
         /\ [task EXCEPT !.steps = Append(@, step)].status = task.status
<1>1. Append(task.steps, step) \in Seq(StepStatus)
  BY DEF Task
<1> QED
  BY <1>1 DEF Task

(* parkTask() gives the task back to the queue unclaimed.                  *)
LEMMA ParkedIsTask ==
  ASSUME NEW task \in Task, NEW i \in Nat
  PROVE  /\ Parked(task, i) \in Task
         /\ Parked(task, i).status = "queued"
         /\ Parked(task, i).owner = "none"
<1> DEFINE steps == [j \in DOMAIN task.steps |-> IF j < i THEN "done" ELSE task.steps[j]]
<1>1. steps \in Seq(StepStatus)
  BY DEF Task, StepStatus
<1> QED
  BY <1>1 DEF Parked, Task, Status

(* At the top of executePlan()'s loop a task is parked or stays in hand.   *)
LEMMA ProceedFacts ==
  ASSUME NEW t \in TaskId, NEW task \in Task, task.status \in Held,
         NEW i \in Nat, NEW files \in 0..MaxFiles, Proceed(t, task, i, files)
  PROVE  LetsGo(t) \/ Keeps(t)
<1>1. CASE /\ Put(t, task)
           /\ dpc' = AfterSteps(files)
           /\ job' = [NoJob EXCEPT !.task = t, !.at = i, !.files = files]
  <2>1. job' \in Job /\ job'.task = t
    BY <1>1, JobStarted, Zenon
  <2> QED
    BY <1>1, <2>1 DEF Keeps, AfterSteps, DeepPC
<1>2. CASE Put(t, Parked(task, i)) /\ Finish
  BY <1>2, ParkedIsTask DEF LetsGo
<1>3. CASE /\ Put(t, [task EXCEPT !.steps[i] = "in_progress"])
           /\ dpc' = "stepping"
           /\ job' = [NoJob EXCEPT !.task = t, !.at = i, !.files = files]
  <2> DEFINE new == [task EXCEPT !.steps[i] = "in_progress"]
  <2>1. new \in Task /\ new.status \in Held
    BY StepUpdate DEF StepStatus
  <2>2. job' \in Job /\ job'.task = t
    BY <1>3, JobStarted, Zenon
  <2> QED
    BY <1>3, <2>1, <2>2 DEF Keeps, DeepPC
<1> QED
  BY <1>1, <1>2, <1>3 DEF Proceed

(* A task that was claimed is planned, resumed, or parked at once.         *)
LEMMA BeginPlanningFacts ==
  ASSUME NEW t \in TaskId, NEW task \in Task, BeginPlanning(t, task)
  PROVE  LetsGo(t) \/ Keeps(t)
<1>1. CASE task.plan /\ task.planned
  <2> DEFINE new == [task EXCEPT !.status = "implementing"]
  <2>1. new \in Task /\ new.status \in Held
    BY StatusUpdate DEF Status, Working, Held
  <2>2. FirstPending(task.steps) \in Nat
    BY FirstPendingIsStep DEF Task
  <2>3. Proceed(t, new, FirstPending(task.steps), 0)
    BY <1>1 DEF BeginPlanning
  <2> HIDE DEF new
  <2> QED
    BY <2>1, <2>2, <2>3, ProceedFacts, DeepAssumption
<1>2. CASE ~ (task.plan /\ task.planned)
  <2> DEFINE new == [task EXCEPT !.status = "planning"]
  <2>1. new \in Task /\ new.status \in Held
    BY StatusUpdate DEF Status, Working, Held
  <2>2. Put(t, new) /\ dpc' = "planning" /\ job' = [NoJob EXCEPT !.task = t]
    BY <1>2 DEF BeginPlanning
  <2>3. job' \in Job /\ job'.task = t
    BY <2>2, JobTaken
  <2> QED
    BY <2>1, <2>2, <2>3 DEF Keeps, DeepPC
<1> QED
  BY <1>1, <1>2

(* Whether it is planned, resumed or parked, the task is open then.        *)
LEMMA BeginPlanningOpens ==
  ASSUME BoardTypeOK, NEW t \in TaskId, NEW task \in Task, BeginPlanning(t, task)
  PROVE  tasks'[t].status \in Open
<1>1. CASE task.plan /\ task.planned
  <2> DEFINE new == [task EXCEPT !.status = "implementing"]
             i == FirstPending(task.steps)
             begun == [new EXCEPT !.steps[i] = "in_progress"]
  <2>1. new \in Task /\ new.status = "implementing"
    BY StatusUpdate DEF Status, Working
  <2>2. i \in Nat
    BY FirstPendingIsStep DEF Task
  <2>3. Put(t, new) \/ Put(t, Parked(new, i)) \/ Put(t, begun)
    BY <1>1 DEF BeginPlanning, Proceed
  <2> HIDE DEF new, i
  <2>4. begun \in Task /\ begun.status = "implementing"
    BY <2>1, <2>2, StepUpdate DEF StepStatus
  <2>5. Parked(new, i) \in Task /\ Parked(new, i).status = "queued"
    BY <2>1, <2>2, ParkedIsTask
  <2> HIDE DEF begun
  <2> QED
    BY <2>1, <2>3, <2>4, <2>5, PutTypes DEF Open, Working
<1>2. CASE ~ (task.plan /\ task.planned)
  <2>1. Put(t, [task EXCEPT !.status = "planning"])
    BY <1>2 DEF BeginPlanning
  <2>2. /\ [task EXCEPT !.status = "planning"] \in Task
        /\ [task EXCEPT !.status = "planning"].status = "planning"
    BY StatusUpdate DEF Status, Working
  <2> QED
    BY <2>1, <2>2, PutTypes DEF Open, Working
<1> QED
  BY <1>1, <1>2

(* failTask() lets go of the task.                                         *)
LEMMA FailTaskFacts ==
  ASSUME NEW task \in Task, FailTask(task)
  PROVE  LetsGo(job.task)
BY FailedIsTask DEF FailTask, LetsGo

(* An action that works on the current task and ends in one of the ways    *)
(* above keeps Core.                                                       *)
LEMMA WorkKeepsCore ==
  ASSUME Core, dpc \notin {"idle", "rewriting"},
         LetsGo(job.task) \/ Keeps(job.task)
  PROVE  Core' /\ LegalStep
<1>1. job.task \in TaskId /\ tasks[job.task].status \in Held
  BY DEF Core, JobOK
<1>2. tasks[job.task].status \notin {"done", "absent"}
  BY <1>1 DEF Held, Working
<1> QED
  BY <1>1, <1>2, WriteKeepsCore

(* The task that is being worked on. *)
LEMMA MineIsHeld ==
  ASSUME Core, dpc \notin {"idle", "rewriting"}
  PROVE  /\ job.task \in TaskId
         /\ Mine \in Task
         /\ Mine.status \in Held
         /\ job \in Job
         /\ job.at \in Nat /\ job.files \in 0..MaxFiles
BY DEF Core, JobOK, BoardTypeOK, Mine, Job

(* Claiming a queued task: the one way from idle to work on it.            *)
LEMMA ClaimQueuedKeepsCore ==
  ASSUME Core, ClaimQueued
  PROVE  Core' /\ LegalStep
<1> DEFINE t == First(Unclaimed("queued"))
           claim == [tasks[t] EXCEPT !.owner = "deep"]
<1>1. t \in TaskId /\ tasks[t].status = "queued" /\ dpc = "idle"
  <2>1. Unclaimed("queued") \in SUBSET TaskId /\ Unclaimed("queued") # {}
    BY DEF ClaimQueued, Unclaimed
  <2>2. t \in Unclaimed("queued")
    BY <2>1, FirstIsOne DEF Core
  <2> QED
    BY <2>2 DEF Unclaimed, ClaimQueued
<1>2. claim \in Task /\ claim.status = "queued"
  <2>1. tasks[t] \in Task
    BY <1>1 DEF Core, BoardTypeOK
  <2> HIDE DEF t
  <2> QED
    BY <1>1, <2>1 DEF Task
<1>3. \/ /\ Put(t, claim)
         /\ dpc' = "loading"
         /\ job' = [NoJob EXCEPT !.task = t]
      \/ BeginPlanning(t, claim)
  BY DEF ClaimQueued
<1> HIDE DEF t, claim
<1>4. CASE /\ Put(t, claim)
           /\ dpc' = "loading"
           /\ job' = [NoJob EXCEPT !.task = t]
  <2>1. job' \in Job /\ job'.task = t
    BY <1>1, <1>4, JobTaken, Zenon
  <2>2. Keeps(t)
    BY <1>2, <1>4, <2>1 DEF Keeps, DeepPC, Held
  <2>3. tasks'[t].status = "queued"
    BY <1>1, <1>2, <1>4, PutTypes DEF Core
  <2>4. tasks'[t].status \in Open
    BY <2>3 DEF Open
  <2> QED
    BY <1>1, <2>2, <2>4, TakingKeepsCore
<1>5. CASE BeginPlanning(t, claim)
  <2>1. LetsGo(t) \/ Keeps(t)
    BY <1>1, <1>2, <1>5, BeginPlanningFacts
  <2>2. tasks'[t].status \in Open
    BY <1>1, <1>2, <1>5, BeginPlanningOpens DEF Core
  <2> QED
    BY <1>1, <2>1, <2>2, TakingKeepsCore
<1> QED
  BY <1>3, <1>4, <1>5

(* Loading the project's files takes the task on to its planning.          *)
LEMMA ProjectLoadedKeepsCore ==
  ASSUME Core, ProjectLoaded
  PROVE  Core' /\ LegalStep
<1>1. dpc = "loading"
  BY DEF ProjectLoaded
<1>2. job.task \in TaskId /\ Mine \in Task
  BY <1>1, MineIsHeld
<1>3. PICK manifest \in BOOLEAN :
        BeginPlanning(job.task, [Mine EXCEPT !.files = @ \/ manifest])
  BY DEF ProjectLoaded
<1>4. [Mine EXCEPT !.files = @ \/ manifest] \in Task
  BY <1>2 DEF Task
<1>5. LetsGo(job.task) \/ Keeps(job.task)
  BY <1>2, <1>3, <1>4, BeginPlanningFacts
<1> QED
  BY <1>1, <1>5, WorkKeepsCore

(* A new plan is executed from its first step.                             *)
LEMMA PlanReadyKeepsCore ==
  ASSUME Core, PlanReady
  PROVE  Core' /\ LegalStep
<1>1. dpc = "planning"
  BY DEF PlanReady
<1>2. job.task \in TaskId /\ Mine \in Task
  BY <1>1, MineIsHeld
<1>3. PICK text \in BOOLEAN, n \in 0..MaxSteps :
        Proceed(job.task,
                [Mine EXCEPT !.status = "implementing", !.plan = text,
                             !.planned = TRUE,
                             !.steps = [i \in 1..n |-> "pending"]], 1, 0)
  BY DEF PlanReady
<1> DEFINE new == [Mine EXCEPT !.status = "implementing", !.plan = text,
                              !.planned = TRUE,
                              !.steps = [i \in 1..n |-> "pending"]]
<1>4. new \in Task /\ new.status \in Held
  <2>1. n \in Nat /\ "pending" \in StepStatus
    BY DeepAssumption DEF StepStatus
  <2>2. [i \in 1..n |-> "pending"] \in Seq(StepStatus)
    BY <2>1
  <2> QED
    BY <1>2, <2>2 DEF Task, Status, Working, Held
<1>5. Proceed(job.task, new, 1, 0)
  BY <1>3
<1> HIDE DEF new
<1>6. LetsGo(job.task) \/ Keeps(job.task)
  BY <1>2, <1>4, <1>5, ProceedFacts, DeepAssumption
<1> QED
  BY <1>1, <1>6, WorkKeepsCore

(* After a step the next one is begun, or the task is parked.              *)
LEMMA StepDoneKeepsCore ==
  ASSUME Core, StepDone
  PROVE  Core' /\ LegalStep
<1>1. dpc = "stepping"
  BY DEF StepDone
<1>2. /\ job.task \in TaskId
      /\ Mine \in Task /\ Mine.status \in Held
      /\ job.at \in Nat /\ job.files \in 0..MaxFiles
  BY <1>1, MineIsHeld
<1> DEFINE new == [Mine EXCEPT !.steps[job.at] = "done"]
<1>3. PICK files \in job.files..MaxFiles : Proceed(job.task, new, job.at + 1, files)
  BY DEF StepDone
<1>4. new \in Task /\ new.status \in Held
  BY <1>2, StepUpdate DEF StepStatus
<1>5. job.at + 1 \in Nat /\ files \in 0..MaxFiles
  BY <1>2, DeepAssumption
<1> HIDE DEF new
<1>6. LetsGo(job.task) \/ Keeps(job.task)
  BY <1>2, <1>3, <1>4, <1>5, ProceedFacts
<1> QED
  BY <1>1, <1>6, WorkKeepsCore

(* The ways in which a task fails in the DeepLoop's hands.                 *)
LEMMA FailingKeepsCore ==
  ASSUME Core, dpc \notin {"idle", "rewriting"}, NEW task \in Task, FailTask(task)
  PROVE  Core' /\ LegalStep
BY FailTaskFacts, WorkKeepsCore

(* A step that fails fails its task.                                       *)
LEMMA StepFailedKeepsCore ==
  ASSUME Core, StepFailed
  PROVE  Core' /\ LegalStep
<1>1. dpc = "stepping" /\ FailTask([Mine EXCEPT !.steps[job.at] = "failed"])
  BY DEF StepFailed
<1>2. [Mine EXCEPT !.steps[job.at] = "failed"] \in Task
  BY <1>1, MineIsHeld, StepUpdate DEF StepStatus
<1> QED
  BY <1>1, <1>2, FailingKeepsCore

(* Only the await the loop is at changes, and perhaps what it remembers.   *)
LEMMA WaitingKeepsCore ==
  ASSUME Core, dpc \notin {"idle", "rewriting"}, UNCHANGED boardVars,
         job' \in Job, job'.task = job.task, dpc' \in DeepPC \ {"idle", "rewriting"}
  PROVE  Core' /\ LegalStep
<1>1. BoardTypeOK' /\ FreshIds' /\ JobOK' /\ DoneStays
  BY DEF Core, BoardTypeOK, FreshIds, JobOK, DoneStays, boardVars
<1>2. NoNewOrphan /\ GoneStays
  BY DEF Core, BoardTypeOK, NoNewOrphan, Orphaned, GoneStays, Current, boardVars
<1>3. ServiceStep
  BY ServiceRests DEF Phase, boardVars
<1> QED
  BY <1>1, <1>2, <1>3 DEF Core, LegalStep

(* Validation leaves the task as it is, or adds a fix step.                *)
LEMMA ValidatedKeepsCore ==
  ASSUME Core, Validated
  PROVE  Core' /\ LegalStep
<1>1. /\ dpc = "validating"
      /\ job.task \in TaskId
      /\ Mine \in Task /\ Mine.status \in Held
      /\ job \in Job
  BY MineIsHeld DEF Validated
<1>2. CASE dpc' = "summarizing" /\ UNCHANGED <<boardVars, job>>
  BY <1>1, <1>2, WaitingKeepsCore DEF DeepPC
<1>3. CASE /\ Put(job.task, [Mine EXCEPT !.steps = Append(@, "in_progress")])
           /\ dpc' = "fixing"
           /\ job' = [job EXCEPT !.at = Len(Mine.steps) + 1]
  <2> DEFINE new == [Mine EXCEPT !.steps = Append(@, "in_progress")]
  <2>1. new \in Task /\ new.status \in Held
    BY <1>1, StepAppended DEF StepStatus
  <2>2. Len(Mine.steps) + 1 \in Nat
    BY <1>1 DEF Task
  <2>3. job' \in Job /\ job'.task = job.task
    BY <1>1, <1>3, <2>2 DEF Job
  <2>4. Put(job.task, new)
    BY <1>3
  <2> HIDE DEF new
  <2>5. Keeps(job.task)
    BY <1>3, <2>1, <2>3, <2>4 DEF Keeps, DeepPC
  <2> QED
    BY <1>1, <2>5, WorkKeepsCore
<1> QED
  BY <1>2, <1>3 DEF Validated

(* A fix step ends well or badly, and the task goes on either way.         *)
LEMMA FixedKeepsCore ==
  ASSUME Core, Fixed
  PROVE  Core' /\ LegalStep
<1>1. /\ dpc = "fixing"
      /\ job.task \in TaskId
      /\ Mine \in Task /\ Mine.status \in Held
      /\ job \in Job /\ job.at \in Nat
  BY MineIsHeld DEF Fixed
<1>2. PICK step \in StepStatus :
        Put(job.task, [Mine EXCEPT !.steps[job.at] = step])
  BY DEF Fixed, StepStatus
<1> DEFINE new == [Mine EXCEPT !.steps[job.at] = step]
<1>3. new \in Task /\ new.status \in Held
  BY <1>1, StepUpdate
<1>4. dpc' \in DeepPC \ {"idle", "rewriting"}
  BY DEF Fixed, DeepPC
<1>5. job' = job \/ job' = [job EXCEPT !.round = @ + 1]
  BY DEF Fixed
<1>6. job' \in Job /\ job'.task = job.task
  BY <1>1, <1>5 DEF Job
<1>7. Put(job.task, new)
  BY <1>2
<1> HIDE DEF new
<1>8. Keeps(job.task)
  BY <1>3, <1>4, <1>6, <1>7 DEF Keeps
<1> QED
  BY <1>1, <1>8, WorkKeepsCore

(* The outcome is put up for review, or the task is done at once.          *)
LEMMA SubmitKeepsCore ==
  ASSUME Core, dpc \notin {"idle", "rewriting"},
         NEW project \in BOOLEAN, NEW reply \in BOOLEAN, Submit(project, reply)
  PROVE  Core' /\ LegalStep
<1>1. job.task \in TaskId /\ Mine \in Task /\ job \in Job
  BY MineIsHeld
<1> DEFINE submitted == [Mine EXCEPT !.status = "reviewing", !.owner = "deep",
                                    !.reply = reply, !.project = project,
                                    !.files = @ \/ job.files > 0]
           closed == [submitted EXCEPT !.status = "done", !.owner = "none",
                                       !.skipped = TRUE]
<1>2. submitted \in Task /\ submitted.status \in Held
  <2> DEFINE files == Mine.files \/ job.files > 0
  <2>1. ASSUME NEW some \in BOOLEAN
        PROVE  LET new == [Mine EXCEPT !.status = "reviewing", !.owner = "deep",
                                       !.reply = reply, !.project = project,
                                       !.files = some]
               IN  new \in Task /\ new.status \in Held
    BY <1>1 DEF Task, Status, Working, Held
  <2>2. files \in BOOLEAN
    OBVIOUS
  <2> QED
    BY <2>1, <2>2, Zenon
<1>3. \/ Put(job.task, submitted) /\ dpc' = "reviewing" /\ UNCHANGED job
      \/ Put(job.task, closed) /\ Finish
  BY DEF Submit
<1> HIDE DEF submitted
<1>4. closed \in Task /\ closed.status = "done" /\ closed.owner = "none"
  BY <1>2 DEF Task, Status, Closed
<1> HIDE DEF closed
<1>5. LetsGo(job.task) \/ Keeps(job.task)
  BY <1>1, <1>2, <1>3, <1>4 DEF LetsGo, Keeps, DeepPC
<1> QED
  BY <1>5, WorkKeepsCore

(* After the summary come the project's notes or the outcome.              *)
LEMMA SummarizedKeepsCore ==
  ASSUME Core, Summarized
  PROVE  Core' /\ LegalStep
<1>1. dpc = "summarizing" /\ Mine \in Task /\ job \in Job
  BY MineIsHeld DEF Summarized
<1>2. PICK reply \in BOOLEAN, project \in BOOLEAN :
        \/ /\ dpc' = "writing"
           /\ job' = [job EXCEPT !.reply = reply]
           /\ UNCHANGED boardVars
        \/ Submit(project, reply)
  <2>1. PICK reply \in BOOLEAN, found \in {FALSE, Projects} :
          LET project == Mine.project \/ (found /\ job.files > 0)
          IN  IF project /\ job.files > 0
              THEN /\ dpc' = "writing"
                   /\ job' = [job EXCEPT !.reply = reply]
                   /\ UNCHANGED boardVars
              ELSE Submit(project, reply)
    BY DEF Summarized
  <2> DEFINE project == Mine.project \/ (found /\ job.files > 0)
  <2>2. project \in BOOLEAN
    OBVIOUS
  <2> QED
    BY <2>1, <2>2
<1>3. CASE /\ dpc' = "writing"
           /\ job' = [job EXCEPT !.reply = reply]
           /\ UNCHANGED boardVars
  <2>1. job' \in Job /\ job'.task = job.task
    BY <1>1, <1>3 DEF Job
  <2> QED
    BY <1>1, <1>3, <2>1, WaitingKeepsCore DEF DeepPC
<1>4. CASE Submit(project, reply)
  BY <1>1, <1>4, SubmitKeepsCore
<1> QED
  BY <1>2, <1>3, <1>4

(* After the project's notes comes the outcome.                            *)
LEMMA ProjectWrittenKeepsCore ==
  ASSUME Core, ProjectWritten
  PROVE  Core' /\ LegalStep
<1>1. dpc = "writing" /\ job.reply \in BOOLEAN /\ Submit(TRUE, job.reply)
  BY DEF ProjectWritten, Core, Job
<1> QED
  BY <1>1, SubmitKeepsCore

(* The verdicts of a review. *)
LEMMA Verdicts ==
  ASSUME Mine \in Task
  PROVE  /\ Approved \in Task /\ Approved.status = "done" /\ Approved.owner = "none"
         /\ Rejected \in Task /\ Rejected.status = "revision" /\ Rejected.owner = "none"
BY DEF Approved, Rejected, Task, Status, Closed

(* A review ends with the task done, sent back or failed, and released.    *)
LEMMA ReviewedKeepsCore ==
  ASSUME Core, Reviewed
  PROVE  Core' /\ LegalStep
<1>1. dpc = "reviewing" /\ job.task \in TaskId /\ Mine \in Task
  BY MineIsHeld DEF Reviewed
<1>2. CASE (Put(job.task, Approved) \/ Put(job.task, Rejected)) /\ Finish
  <2>1. LetsGo(job.task)
    BY <1>1, <1>2, Verdicts DEF LetsGo
  <2> QED
    BY <1>1, <2>1, WorkKeepsCore
<1>3. CASE FailTask(Mine)
  BY <1>1, <1>3, FailingKeepsCore
<1> QED
  BY <1>2, <1>3 DEF Reviewed

(* A task sent back is claimed again, or failed after too many rounds.     *)
LEMMA ClaimRevisionKeepsCore ==
  ASSUME Core, ClaimRevision
  PROVE  Core' /\ LegalStep
<1> DEFINE t == First(Unclaimed("revision"))
           new == [tasks[t] EXCEPT !.status = "implementing", !.owner = "deep"]
<1>1. t \in TaskId /\ tasks[t].status = "revision" /\ dpc = "idle"
  <2>1. Unclaimed("revision") \in SUBSET TaskId /\ Unclaimed("revision") # {}
    BY DEF ClaimRevision, Unclaimed
  <2>2. t \in Unclaimed("revision")
    BY <2>1, FirstIsOne DEF Core
  <2> QED
    BY <2>2 DEF Unclaimed, ClaimRevision
<1>2. \/ Put(t, Failed(tasks[t])) /\ UNCHANGED <<dpc, job>>
      \/ /\ Put(t, new)
         /\ dpc' = "revising"
         /\ job' = [NoJob EXCEPT !.task = t]
  BY DEF ClaimRevision
<1> HIDE DEF t
<1>3. tasks[t] \in Task
  BY <1>1 DEF Core, BoardTypeOK
<1>4. CASE Put(t, Failed(tasks[t])) /\ UNCHANGED <<dpc, job>>
  <2>1. Finish
    BY <1>1, <1>4 DEF Finish, Core, JobOK
  <2>2. LetsGo(t)
    BY <1>3, <1>4, <2>1, FailedIsTask DEF LetsGo
  <2>3. tasks'[t].status = "failed" /\ dpc' = "idle"
    BY <1>1, <1>3, <1>4, PutTypes, FailedIsTask DEF Core
  <2> QED
    BY <1>1, <2>2, <2>3, TakingKeepsCore
<1>5. CASE /\ Put(t, new)
           /\ dpc' = "revising"
           /\ job' = [NoJob EXCEPT !.task = t]
  <2>1. new \in Task /\ new.status \in Working
    BY <1>3 DEF Task, Status, Working
  <2>2. job' \in Job /\ job'.task = t
    BY <1>1, <1>5, JobTaken, Zenon
  <2>3. Put(t, new)
    BY <1>5
  <2> HIDE DEF new
  <2>4. Keeps(t)
    BY <1>5, <2>1, <2>2, <2>3 DEF Keeps, DeepPC, Held
  <2>5. tasks'[t].status \in Open
    BY <1>1, <2>1, <2>3, PutTypes DEF Core, Open
  <2> QED
    BY <1>1, <2>4, <2>5, TakingKeepsCore
<1> QED
  BY <1>2, <1>4, <1>5

(* A revision is summarized, or fails its task.                            *)
LEMMA RevisedKeepsCore ==
  ASSUME Core, Revised
  PROVE  Core' /\ LegalStep
<1>1. dpc = "revising" /\ Mine \in Task /\ job \in Job
  BY MineIsHeld DEF Revised
<1>2. CASE dpc' = "resummarizing" /\ UNCHANGED <<boardVars, job>>
  BY <1>1, <1>2, WaitingKeepsCore DEF DeepPC
<1>3. CASE FailTask(Mine)
  BY <1>1, <1>3, FailingKeepsCore
<1> QED
  BY <1>2, <1>3 DEF Revised

(* The revised outcome is put up for review.                               *)
LEMMA ResummarizedKeepsCore ==
  ASSUME Core, Resummarized
  PROVE  Core' /\ LegalStep
<1>1. dpc = "resummarizing" /\ Mine \in Task /\ job \in Job
  BY MineIsHeld DEF Resummarized
<1>2. PICK reply \in BOOLEAN :
        Put(job.task, [Mine EXCEPT !.status = "reviewing", !.owner = "deep",
                                   !.reply = reply])
  BY DEF Resummarized
<1> DEFINE new == [Mine EXCEPT !.status = "reviewing", !.owner = "deep",
                              !.reply = reply]
<1>3. new \in Task /\ new.status \in Held
  BY <1>1 DEF Task, Status, Working, Held
<1>4. Put(job.task, new) /\ dpc' = "rereviewing" /\ job' = job
  BY <1>2 DEF Resummarized
<1> HIDE DEF new
<1>5. Keeps(job.task)
  BY <1>1, <1>3, <1>4 DEF Keeps, DeepPC
<1> QED
  BY <1>1, <1>5, WorkKeepsCore

(* As a review; a task with a project stays current while it is written.   *)
LEMMA RereviewedKeepsCore ==
  ASSUME Core, Rereviewed
  PROVE  Core' /\ LegalStep
<1>1. dpc = "rereviewing" /\ Mine \in Task /\ job \in Job
  BY MineIsHeld DEF Rereviewed
<1>2. CASE Put(job.task, Approved) /\ dpc' = "rewriting" /\ UNCHANGED job
  <2>1. Keeps(job.task)
    BY <1>1, <1>2, Verdicts DEF Keeps, DeepPC
  <2> QED
    BY <1>1, <2>1, WorkKeepsCore
<1>3. CASE (Put(job.task, Approved) \/ Put(job.task, Rejected)) /\ Finish
  <2>1. LetsGo(job.task)
    BY <1>1, <1>3, Verdicts DEF LetsGo
  <2> QED
    BY <1>1, <2>1, WorkKeepsCore
<1>4. CASE FailTask(Mine)
  BY <1>1, <1>4, FailingKeepsCore
<1> QED
  BY <1>2, <1>3, <1>4 DEF Rereviewed

(* The task done before its project was written is let go of.              *)
LEMMA RewrittenKeepsCore ==
  ASSUME Core, Rewritten
  PROVE  Core' /\ LegalStep
<1>1. dpc = "rewriting" /\ Finish /\ UNCHANGED boardVars
  BY DEF Rewritten
<1>2. BoardTypeOK' /\ FreshIds' /\ JobOK' /\ DoneStays
  BY <1>1 DEF Core, BoardTypeOK, FreshIds, JobOK, DoneStays, Finish, boardVars
<1>3. NoNewOrphan /\ GoneStays
  BY <1>1 DEF Core, BoardTypeOK, NoNewOrphan, Orphaned, GoneStays, JobOK, Current,
              Finish, Working, boardVars
<1>4. dpc' \in DeepPC /\ job' \in Job
  BY <1>1, NoJobIsJob DEF Finish, DeepPC
<1>5. ServiceStep
  <2>1. job.task \in TaskId /\ tasks[job.task].status = "done"
    BY DEF Core, JobOK, Rewritten
  <2>2. Phase[job.task] = "done" /\ Phase' = Phase
    BY <1>1, <2>1 DEF Phase, PhaseOf, Working, boardVars
  <2> QED
    BY <1>1, <2>1, <2>2, ServiceLeaves, NoJobIsJob DEF Finish
<1> QED
  BY <1>2, <1>3, <1>4, <1>5 DEF Core, LegalStep

(* Tasks made from waiting events keep Core, and those events are gone.    *)
LEMMA DrainEventsKeepsCore ==
  ASSUME Core, RestOK, DrainEvents
  PROVE  Core' /\ LegalStep /\ PlansKept /\ RestOK'
<1> DEFINE n == IF events < EventsPerCheck THEN events ELSE EventsPerCheck
<1>1. n \in Nat \ {0} /\ n <= events
  BY DeepAssumption, BoardAssumption DEF RestOK, DrainEvents
<1>2. /\ Create(n, NewTask("event", 1), NoGroup)
      /\ events' = events - n
      /\ UNCHANGED <<dpc, job, revisions, posted, goalTasks, edited>>
  BY DEF DrainEvents
<1> HIDE DEF n
<1>3. /\ NewTask("event", 1) \in Task
      /\ NewTask("event", 1).status = "queued"
      /\ NewTask("event", 1).owner = "none"
      /\ ~NewTask("event", 1).plan
  BY NewTaskIsTask
<1>4. Core' /\ LegalStep /\ PlansKept
  BY <1>1, <1>2, <1>3, CreateKeepsCore
<1>5. RestOK'
  BY <1>1, <1>2, BoardAssumption DEF RestOK
<1> QED
  BY <1>4, <1>5

(* A task made from a goal keeps Core.                                     *)
LEMMA StartGoalKeepsCore ==
  ASSUME Core, RestOK, StartGoal
  PROVE  Core' /\ LegalStep /\ PlansKept /\ RestOK'
<1>1. /\ Create(1, NewTask("goal", 2), NoGroup)
      /\ goalTasks < MaxGoalTasks
      /\ goalTasks' = goalTasks + 1
      /\ UNCHANGED <<dpc, job, revisions, posted, events, edited>>
  BY DEF StartGoal
<1>2. /\ NewTask("goal", 2) \in Task
      /\ NewTask("goal", 2).status = "queued"
      /\ NewTask("goal", 2).owner = "none"
      /\ ~NewTask("goal", 2).plan
  BY NewTaskIsTask
<1>3. Core' /\ LegalStep /\ PlansKept
  BY <1>1, <1>2, CreateKeepsCore
<1>4. RestOK'
  BY <1>1, BoardAssumption DEF RestOK
<1> QED
  BY <1>3, <1>4

(* Revisions are counted for tasks only, and only tasks are edited.        *)
LEMMA RevisionsCounted ==
  ASSUME Core, RestOK, DeepStep, ~DrainEvents, ~StartGoal
  PROVE  RestOK'
<1>1. /\ UNCHANGED <<posted, events, goalTasks>>
      /\ \/ UNCHANGED edited
         \/ dpc = "stepping" /\ edited' \in {edited, edited \cup {job.task}}
  BY DEF DeepStep, ClaimQueued, ProjectLoaded, PlanReady, StepDone, StepEdits,
         StepFailed, Validated, Fixed, Summarized, ProjectWritten, Reviewed,
         ClaimRevision, Revised, Resummarized, Rereviewed, Rewritten
<1>2. edited' \in SUBSET TaskId
  <2>1. dpc = "stepping" => job.task \in TaskId
    BY MineIsHeld
  <2> QED
    BY <1>1, <2>1 DEF RestOK
<1>3. revisions' \in [TaskId -> Nat]
  <2>1. CASE UNCHANGED revisions
    BY <2>1 DEF RestOK
  <2>2. CASE revisions' = [revisions EXCEPT ![job.task] = 0]
    BY <2>2 DEF RestOK
  <2>3. CASE ClaimRevision
    <3> DEFINE t == First(Unclaimed("revision"))
    <3>1. t \in TaskId
      <4>1. Unclaimed("revision") \in SUBSET TaskId /\ Unclaimed("revision") # {}
        BY <2>3 DEF ClaimRevision, Unclaimed
      <4> QED
        BY <4>1, FirstIsOne DEF Core
    <3>2. \/ revisions' = [revisions EXCEPT ![t] = 0]
          \/ revisions' = [revisions EXCEPT ![t] = revisions[t] + 1]
      BY <2>3 DEF ClaimRevision
    <3> HIDE DEF t
    <3>3. revisions[t] + 1 \in Nat
      BY <3>1 DEF RestOK
    <3> QED
      BY <3>1, <3>2, <3>3 DEF RestOK
  <2> QED
    BY <2>1, <2>2, <2>3
    DEF DeepStep, FailTask, ClaimQueued, ProjectLoaded, PlanReady, StepDone,
        StepFailed, Validated, Fixed, Summarized, ProjectWritten, Reviewed,
        Revised, Resummarized, Rereviewed, Rewritten
<1> QED
  BY <1>1, <1>2, <1>3 DEF RestOK

(* Every step of the DeepLoop keeps what IInv says of it and of the board. *)
LEMMA DeepKeepsCore ==
  ASSUME Core, RestOK, DeepStep
  PROVE  Core' /\ LegalStep /\ RestOK'
<1>1. CASE DrainEvents
  BY <1>1, DrainEventsKeepsCore
<1>2. CASE StartGoal
  BY <1>2, StartGoalKeepsCore
<1>3. CASE ~DrainEvents /\ ~StartGoal
  <2>1. Core' /\ LegalStep
    BY <1>3, ClaimQueuedKeepsCore, ProjectLoadedKeepsCore, PlanReadyKeepsCore,
       StepDoneKeepsCore, StepFailedKeepsCore, ValidatedKeepsCore,
       FixedKeepsCore, SummarizedKeepsCore, ProjectWrittenKeepsCore,
       ReviewedKeepsCore, ClaimRevisionKeepsCore, RevisedKeepsCore,
       ResummarizedKeepsCore, RereviewedKeepsCore, RewrittenKeepsCore
    DEF DeepStep
  <2>2. RestOK'
    BY <1>3, RevisionsCounted
  <2> QED
    BY <2>1, <2>2
<1> QED
  BY <1>1, <1>2, <1>3

-----------------------------------------------------------------------------
(* The inductive invariant *)

(* Both loops idle over an empty board: nothing is in hand.                *)
LEMMA EmptyBoardIInv ==
  ASSUME tasks = [t \in TaskId |-> [NewTask("user", 0) EXCEPT !.status = "absent"]],
         created = 0, delivered = {}, deliveredIds = {}, dirty \in BOOLEAN,
         FastInit, DeepInit
  PROVE  IInv /\ NoOrphan
<1> DEFINE new == NewTask("user", 0)
           absent == [new EXCEPT !.status = "absent"]
<1>1. absent \in Task /\ absent.status = "absent" /\ absent.owner = "none"
  <2>1. new \in Task /\ new.owner = "none"
    BY NewTaskIsTask
  <2> HIDE DEF new
  <2> QED
    BY <2>1, StatusUpdate DEF Status
<1>2. tasks = [t \in TaskId |-> absent]
  OBVIOUS
<1> HIDE DEF new, absent
<1>3. BoardTypeOK
  <2>1. tasks \in [TaskId -> Task]
    BY <1>1, <1>2
  <2>2. 0 \in 0..(MaxMessages + MaxEvents + MaxGoalTasks)
    BY BoardAssumption
  <2> QED
    BY <2>1, <2>2 DEF BoardTypeOK
<1>4. dpc = "idle" /\ job = NoJob
  BY DEF DeepInit
<1>5. FreshIds /\ NoOrphan /\ JobOK
  BY <1>1, <1>2, <1>4 DEF FreshIds, NoOrphan, Working, JobOK
<1>6. Core
  BY <1>3, <1>4, <1>5, NoJobIsJob DEF Core, DeepPC
<1>7. RestOK
  BY BoardAssumption DEF DeepInit, RestOK
<1>8. TalkOK
  BY DEF FastInit, TalkOK, NoTalk
<1> QED
  BY <1>5, <1>6, <1>7, <1>8 DEF IInv

(* So the loops start.                                                     *)
LEMMA InitIInv ==
  ASSUME Init
  PROVE  IInv /\ NoOrphan
BY EmptyBoardIInv DEF Init, BoardInit

(* IInv is inductive, and no step undoes what is done.                     *)
LEMMA NextIInv ==
  ASSUME IInv, [Next]_vars
  PROVE  IInv' /\ LegalStep
<1>0. Core /\ RestOK /\ TalkOK
  BY DEF IInv
<1>1. ASSUME UNCHANGED <<boardVars, dpc, job>>
      PROVE  Core' /\ LegalStep
  BY <1>0, <1>1, QuietKeepsCore DEF Core, BoardTypeOK, boardVars
<1>2. CASE UserWrites
  <2>1. UNCHANGED <<boardVars, deepVars, talk, fpc>>
    BY <1>2 DEF UserWrites, Enqueue
  <2>2. Core' /\ LegalStep
    BY <1>1, <2>1 DEF deepVars
  <2>3. RestOK' /\ TalkOK'
    BY <1>0, <2>1 DEF RestOK, TalkOK, deepVars
  <2> QED
    BY <2>2, <2>3 DEF IInv
<1>3. CASE SystemEmits
  <2>1. Core' /\ LegalStep
    BY <1>1, <1>3 DEF SystemEmits, PostEvent
  <2>2. RestOK'
    BY <1>0, <1>3, BoardAssumption DEF SystemEmits, PostEvent, RestOK
  <2>3. TalkOK'
    BY <1>0, <1>3 DEF SystemEmits, fastVars, TalkOK
  <2> QED
    BY <2>1, <2>2, <2>3 DEF IInv
<1>4. CASE FastTurn
  <2>1. Core' /\ LegalStep /\ TalkOK'
    BY <1>0, <1>4, FastKeepsCore
  <2>2. RestOK'
    BY <1>0, <1>4 DEF FastTurn, deepVars, RestOK
  <2> QED
    BY <2>1, <2>2 DEF IInv
<1>5. CASE DeepTurn
  <2>1. Core' /\ LegalStep /\ RestOK'
    BY <1>0, <1>5, DeepKeepsCore DEF DeepTurn
  <2>2. TalkOK'
    BY <1>0, <1>5 DEF DeepTurn, fastVars, TalkOK
  <2> QED
    BY <2>1, <2>2 DEF IInv
<1>6. CASE UNCHANGED vars
  <2>1. Core' /\ LegalStep
    BY <1>1, <1>6 DEF vars, deepVars
  <2>2. RestOK' /\ TalkOK'
    BY <1>0, <1>6 DEF vars, deepVars, fastVars, RestOK, TalkOK
  <2> QED
    BY <2>1, <2>2 DEF IInv
<1> QED
  BY <1>2, <1>3, <1>4, <1>5, <1>6 DEF Next

(* IInv holds in every state the two loops reach.                          *)
THEOREM Invariant == Spec => []IInv
<1>1. Init => IInv
  BY InitIInv
<1>2. IInv /\ [Next]_vars => IInv'
  BY NextIInv
<1> QED
  BY <1>1, <1>2, PTL DEF Spec

(* No task is ever claimed, or in the middle of its work, unless the       *)
(* DeepLoop is working on it: claim, park, review, revision, failure and   *)
(* eviction lose no task, however many there are.                          *)
THEOREM NoTaskOrphaned == Spec => []NoOrphan
<1>1. Init => NoOrphan
  BY InitIInv
<1>2. IInv /\ NoOrphan /\ [Next]_vars => NoOrphan'
  <2>1. NoOrphan <=> \A t \in TaskId : ~Orphaned(t)
    BY DEF NoOrphan, Orphaned
  <2>2. NoOrphan' <=> \A t \in TaskId : ~Orphaned(t)'
    BY DEF NoOrphan, Orphaned
  <2> QED
    BY <2>1, <2>2, NextIInv DEF LegalStep, NoNewOrphan
<1> QED
  BY <1>1, <1>2, Invariant, PTL DEF Spec

(* A task that is done keeps its status and its reply for good: neither an *)
(* eviction nor a late step of the DeepLoop touches it.                    *)
THEOREM DoneForGood == Spec => DoneIsFinal
<1>1. IInv /\ [Next]_vars =>
        [\A t \in TaskId : tasks[t].status = "done" =>
           /\ tasks'[t].status = "done"
           /\ tasks'[t].reply = tasks[t].reply]_vars
  BY NextIInv DEF LegalStep, DoneStays
<1> QED
  BY <1>1, Invariant, PTL DEF Spec, DoneIsFinal

(* The loops over the board implement TaskService, for any number of       *)
(* tasks: work is only ever taken on open tasks, by one worker, which      *)
(* alone may open a task again that the board has failed.                  *)
THEOREM ServiceImplemented == Spec => ImplementsService
<1>1. Init => Service!ServiceInit
  <2>1. ASSUME Init
        PROVE  tasks = [t \in TaskId |-> [NewTask("user", 0) EXCEPT !.status = "absent"]]
    BY <2>1 DEF Init, BoardInit
  <2>2. [NewTask("user", 0) EXCEPT !.status = "absent"].status = "absent"
    BY DEF NewTask
  <2>3. Init => Phase = [t \in TaskId |-> "absent"]
    BY <2>1, <2>2 DEF Phase, PhaseOf, Working
  <2>4. Init => job.task = 0
    BY NoJobIsJob DEF Init, DeepInit
  <2> QED
    BY <2>3, <2>4 DEF Service!ServiceInit, Phase
<1>2. IInv /\ [Next]_vars => [Service!ServiceNext]_(Service!serviceVars)
  BY NextIInv DEF LegalStep, ServiceStep
<1> QED
  BY <1>1, <1>2, Invariant, PTL DEF Spec, ImplementsService, Service!ServiceSpec

-----------------------------------------------------------------------------
(* Steps: what executePlan() runs is always the first step that is not     *)
(* done, and no later step was tried before; so the steps it overwrites    *)
(* are never done.                                                         *)

(* What DoneStepsStayDone says of one task in one step.                    *)
KeepsDone(old, new) ==
    old.plan => \A i \in DOMAIN old.steps :
                  old.steps[i] = "done" => /\ i \in DOMAIN new.steps
                                           /\ new.steps[i] = "done"

StepsKept == \A t \in TaskId : KeepsDone(tasks[t], tasks'[t])

(* The steps before i are done, the others have not been tried.            *)
DoneBefore(task, i) ==
    \A j \in DOMAIN task.steps :
      task.steps[j] = IF j < i THEN "done" ELSE "pending"

(* A plan that can be taken up again has a step left.                      *)
Resumable(task) == \E i \in DOMAIN task.steps : DoneBefore(task, i)

(* What is known of the steps of the task in hand.                         *)
StepsInHand ==
    /\ dpc \notin {"idle", "loading"} => Mine.status # "queued"
    /\ dpc = "planning" => ~Mine.plan
    /\ dpc = "stepping" =>
         /\ job.at \in DOMAIN Mine.steps
         /\ \A j \in DOMAIN Mine.steps :
              Mine.steps[j] = IF j < job.at THEN "done"
                              ELSE IF j = job.at THEN "in_progress" ELSE "pending"
    /\ dpc = "fixing" => /\ job.at \in DOMAIN Mine.steps
                         /\ Mine.steps[job.at] = "in_progress"

(* A task whose plan executePlan() may still take up: it waits, or it was  *)
(* claimed and its project is being loaded.                                *)
ToResume(t) == tasks[t].status = "queued" \/ (dpc = "loading" /\ job.task = t)

StepsOK ==
    /\ \A t \in TaskId :
         /\ tasks[t].plan => tasks[t].planned
         /\ tasks[t].status = "absent" => ~tasks[t].plan
         /\ ToResume(t) /\ tasks[t].plan => Resumable(tasks[t])
    /\ StepsInHand

(* The step a resumed plan begins with is the first that is not done.      *)
LEMMA FirstPendingResumes ==
  ASSUME NEW task \in Task, Resumable(task)
  PROVE  /\ FirstPending(task.steps) \in DOMAIN task.steps
         /\ DoneBefore(task, FirstPending(task.steps))
<1>1. PICK k \in DOMAIN task.steps : DoneBefore(task, k)
  BY DEF Resumable
<1>2. task.steps \in Seq(StepStatus)
  BY DEF Task
<1> DEFINE pending_ == {i \in DOMAIN task.steps : task.steps[i] = "pending"}
<1>3. k \in pending_ /\ \A j \in pending_ : k <= j
  BY <1>1, <1>2 DEF DoneBefore
<1>4. \A i \in pending_ : (\A j \in pending_ : i <= j) => i = k
  BY <1>2, <1>3
<1>5. FirstPending(task.steps) = k
  BY <1>3, <1>4 DEF FirstPending
<1> QED
  BY <1>1, <1>5

(* A task with the same plan has its steps done and to do alike.           *)
LEMMA SamePlanFacts ==
  ASSUME NEW old, NEW new, SamePlan(new, old)
  PROVE  /\ KeepsDone(old, new)
         /\ Resumable(old) => Resumable(new)
         /\ (old.plan => old.planned) => (new.plan => new.planned)
         /\ ~old.plan => ~new.plan
BY DEF SamePlan, KeepsDone, Resumable, DoneBefore

(* A step that leaves plans alone and does not work on a task.             *)
LEMMA PlansKeptKeepsSteps ==
  ASSUME Core, StepsOK, PlansKept, UNCHANGED <<dpc, job>>
  PROVE  StepsOK' /\ StepsKept
<1>1. ASSUME NEW t \in TaskId
      PROVE  /\ tasks'[t].plan => tasks'[t].planned
             /\ tasks'[t].status = "absent" => ~tasks'[t].plan
             /\ ToResume(t)' /\ tasks'[t].plan => Resumable(tasks[t])'
             /\ KeepsDone(tasks[t], tasks'[t])
  <2>1. /\ tasks[t].plan => tasks[t].planned
        /\ tasks[t].status = "absent" => ~tasks[t].plan
        /\ ToResume(t) /\ tasks[t].plan => Resumable(tasks[t])
    BY DEF StepsOK
  <2>2. CASE /\ SamePlan(tasks'[t], tasks[t])
             /\ tasks'[t].status \in {tasks[t].status, "failed"}
    <3>1. ToResume(t)' => ToResume(t)
      BY <2>2 DEF ToResume
    <3>2. tasks'[t].plan => tasks[t].plan
      BY <2>2 DEF SamePlan
    <3> QED
      BY <2>1, <2>2, <3>1, <3>2, SamePlanFacts
  <2>3. CASE tasks[t].status = "absent" /\ tasks'[t].status # "absent" /\ ~tasks'[t].plan
    BY <2>1, <2>3 DEF KeepsDone
  <2> QED
    BY <2>2, <2>3 DEF PlansKept
<1>2. StepsInHand'
  <2>1. CASE dpc = "idle"
    BY <2>1 DEF StepsInHand
  <2>2. CASE dpc # "idle"
    <3>1. job.task \in TaskId /\ Mine.status # "absent"
      BY <2>2 DEF Core, JobOK, Held, Working, Mine
    <3>2. SamePlan(Mine', Mine) /\ Mine'.status \in {Mine.status, "failed"}
      BY <3>1 DEF PlansKept, Mine
    <3> QED
      BY <3>2 DEF StepsOK, StepsInHand, SamePlan
  <2> QED
    BY <2>1, <2>2
<1> QED
  BY <1>1, <1>2 DEF StepsOK, StepsKept

(* An update of the task in hand, or of the one taken, keeps StepsOK if it *)
(* leaves the task with a plan that is whole, and nothing done undone.     *)
LEMMA WriteKeepsSteps ==
  ASSUME Core, StepsOK, NEW t \in TaskId, NEW new \in Task, Put(t, new),
         KeepsDone(tasks[t], new),
         new.plan => new.planned,
         new.status # "absent",
         (new.status = "queued" \/ dpc' = "loading") /\ new.plan => Resumable(new),
         dpc' = "idle" \/ job'.task = t,
         StepsInHand'
  PROVE  StepsOK' /\ StepsKept
<1>1. tasks'[t] = new /\ \A u \in TaskId : u # t => tasks'[u] = tasks[u]
  BY PutTypes DEF Core
<1>2. ASSUME NEW u \in TaskId
      PROVE  /\ tasks'[u].plan => tasks'[u].planned
             /\ tasks'[u].status = "absent" => ~tasks'[u].plan
             /\ ToResume(u)' /\ tasks'[u].plan => Resumable(tasks[u])'
             /\ KeepsDone(tasks[u], tasks'[u])
  <2>1. CASE u = t
    BY <1>1, <2>1 DEF ToResume
  <2>2. CASE u # t
    <3>1. tasks'[u] = tasks[u]
      BY <1>1, <2>2
    <3>2. /\ tasks[u].plan => tasks[u].planned
          /\ tasks[u].status = "absent" => ~tasks[u].plan
          /\ ToResume(u) /\ tasks[u].plan => Resumable(tasks[u])
      BY DEF StepsOK
    <3>3. ToResume(u)' => ToResume(u)
      BY <2>2, <3>1 DEF ToResume
    <3> QED
      BY <3>1, <3>2, <3>3 DEF KeepsDone
  <2> QED
    BY <2>1, <2>2
<1> QED
  BY <1>2 DEF StepsOK, StepsKept
(* A task whose plan does not change, given up or left in a state in which *)
(* no step of a plan is run.                                               *)
LEMMA OtherWorkKeepsSteps ==
  ASSUME Core, StepsOK, NEW t \in TaskId, NEW new \in Task, Put(t, new),
         SamePlan(new, tasks[t]),
         new.status \notin {"absent", "queued"},
         dpc' \notin {"loading", "planning", "stepping", "fixing"},
         dpc' = "idle" \/ job'.task = t
  PROVE  StepsOK' /\ StepsKept
<1>1. KeepsDone(tasks[t], new) /\ (new.plan => new.planned)
  BY SamePlanFacts DEF StepsOK
<1>2. tasks'[t] = new
  BY PutTypes DEF Core
<1>3. StepsInHand'
  BY <1>2 DEF StepsInHand, Mine
<1> QED
  BY <1>1, <1>3, WriteKeepsSteps

(* From the top of executePlan()'s loop, before step i: those before it    *)
(* are done, it and the later ones have not been tried.                    *)
LEMMA ProceedKeepsSteps ==
  ASSUME Core, StepsOK, NEW t \in TaskId, NEW task \in Task,
         NEW i \in Nat \ {0}, NEW files, Proceed(t, task, i, files),
         DoneBefore(task, i), KeepsDone(tasks[t], task), task.plan => task.planned,
         task.status \notin {"absent", "queued"}
  PROVE  StepsOK' /\ StepsKept
<1>0. task.steps \in Seq(StepStatus)
  BY DEF Task
<1>1. CASE /\ Put(t, task)
           /\ dpc' = AfterSteps(files)
           /\ job' = [NoJob EXCEPT !.task = t, !.at = i, !.files = files]
  <2>1. tasks'[t] = task
    BY <1>1, PutTypes DEF Core
  <2>2. job'.task = t /\ dpc' \in {"validating", "summarizing"}
    BY <1>1 DEF NoJob, AfterSteps
  <2>3. StepsInHand'
    BY <2>1, <2>2 DEF StepsInHand, Mine
  <2> QED
    BY <1>1, <2>2, <2>3, WriteKeepsSteps
<1>2. CASE i <= Len(task.steps) /\ Put(t, Parked(task, i)) /\ Finish
  <2> DEFINE new == Parked(task, i)
  <2>1. new \in Task /\ new.status = "queued"
    BY ParkedIsTask
  <2>2. /\ new.plan = task.plan /\ new.planned = task.planned
        /\ new.steps = [j \in DOMAIN task.steps |->
                          IF j < i THEN "done" ELSE task.steps[j]]
    BY DEF Parked, Task
  <2> HIDE DEF new
  <2>3. new.steps = task.steps
    BY <1>0, <2>2 DEF DoneBefore
  <2>4. KeepsDone(tasks[t], new)
    BY <2>2, <2>3 DEF KeepsDone
  <2>5. i \in DOMAIN new.steps /\ DoneBefore(new, i)
    BY <1>0, <1>2, <2>3 DEF DoneBefore
  <2>6. Resumable(new)
    BY <2>5 DEF Resumable
  <2>7. dpc' = "idle" /\ StepsInHand'
    BY <1>2 DEF Finish, StepsInHand
  <2>8. Put(t, new)
    BY <1>2 DEF new
  <2> QED
    BY <2>1, <2>2, <2>4, <2>6, <2>7, <2>8, WriteKeepsSteps
<1>3. CASE /\ i <= Len(task.steps)
           /\ Put(t, [task EXCEPT !.steps[i] = "in_progress"])
           /\ dpc' = "stepping"
           /\ job' = [NoJob EXCEPT !.task = t, !.at = i, !.files = files]
  <2> DEFINE new == [task EXCEPT !.steps[i] = "in_progress"]
  <2>1. new \in Task /\ new.status = task.status
    BY StepUpdate DEF StepStatus
  <2>2. /\ new.plan = task.plan /\ new.planned = task.planned
        /\ new.steps = [task.steps EXCEPT ![i] = "in_progress"]
    BY DEF Task
  <2>3. Put(t, new)
    BY <1>3
  <2> HIDE DEF new
  <2>4. /\ DOMAIN new.steps = DOMAIN task.steps
        /\ i \in DOMAIN task.steps
        /\ \A j \in DOMAIN new.steps :
             new.steps[j] = IF j < i THEN "done"
                            ELSE IF j = i THEN "in_progress" ELSE "pending"
    BY <1>0, <1>3, <2>2 DEF DoneBefore
  <2>5. KeepsDone(tasks[t], new)
    BY <2>4 DEF KeepsDone, DoneBefore
  <2>6. tasks'[t] = new /\ job'.task = t /\ job'.at = i
    BY <1>3, <2>1, <2>3, PutTypes DEF Core, NoJob
  <2>7. StepsInHand'
    BY <1>3, <2>1, <2>4, <2>6 DEF StepsInHand, Mine
  <2> QED
    BY <1>3, <2>1, <2>2, <2>3, <2>5, <2>6, <2>7, WriteKeepsSteps
<1> QED
  BY <1>1, <1>2, <1>3 DEF Proceed

(* A plan that is taken up goes on where it stopped; without one the task  *)
(* is planned anew.                                                        *)
LEMMA BeginPlanningKeepsSteps ==
  ASSUME Core, StepsOK, NEW t \in TaskId, NEW task \in Task, BeginPlanning(t, task),
         SamePlan(task, tasks[t]), ToResume(t)
  PROVE  StepsOK' /\ StepsKept
<1>1. /\ KeepsDone(tasks[t], task)
      /\ task.plan => task.planned
      /\ task.plan => Resumable(task)
  <2>1. (tasks[t].plan => tasks[t].planned) /\ (tasks[t].plan => Resumable(tasks[t]))
    BY DEF StepsOK
  <2> QED
    BY <2>1, SamePlanFacts
<1>2. CASE task.plan /\ task.planned
  <2> DEFINE new == [task EXCEPT !.status = "implementing"]
             i == FirstPending(task.steps)
  <2>1. new \in Task /\ new.status = "implementing" /\ SamePlan(new, task)
    BY StatusUpdate DEF Status, Working
  <2>2. Proceed(t, new, i, 0)
    BY <1>2 DEF BeginPlanning
  <2>3. i \in Nat \ {0} /\ DoneBefore(task, i)
    BY <1>1, <1>2, FirstPendingIsStep, FirstPendingResumes DEF Task
  <2> HIDE DEF new, i
  <2>4. DoneBefore(new, i) /\ KeepsDone(tasks[t], new) /\ (new.plan => new.planned)
    BY <1>1, <2>1, <2>3 DEF SamePlan, DoneBefore, KeepsDone
  <2> QED
    BY <2>1, <2>2, <2>3, <2>4, ProceedKeepsSteps
<1>3. CASE ~ (task.plan /\ task.planned)
  <2> DEFINE new == [task EXCEPT !.status = "planning"]
  <2>1. new \in Task /\ new.status = "planning" /\ SamePlan(new, task)
    BY StatusUpdate DEF Status, Working
  <2>2. Put(t, new) /\ dpc' = "planning" /\ job' = [NoJob EXCEPT !.task = t]
    BY <1>3 DEF BeginPlanning
  <2> HIDE DEF new
  <2>3. ~task.plan /\ ~new.plan
    BY <1>1, <1>3, <2>1 DEF SamePlan
  <2>4. KeepsDone(tasks[t], new)
    BY <1>1, <2>1 DEF SamePlan, KeepsDone
  <2>5. tasks'[t] = new /\ job'.task = t
    BY <2>1, <2>2, PutTypes DEF Core, NoJob
  <2>6. StepsInHand'
    BY <2>1, <2>2, <2>3, <2>5 DEF StepsInHand, Mine
  <2> QED
    BY <2>1, <2>2, <2>3, <2>4, <2>5, <2>6, WriteKeepsSteps
<1> QED
  BY <1>2, <1>3

(* The task in hand fails, its steps as they are or the one that was run   *)
(* failed.                                                                 *)
LEMMA FailTaskKeepsSteps ==
  ASSUME Core, StepsOK, dpc \notin {"idle", "rewriting"}, NEW task \in Task,
         FailTask(task), KeepsDone(Mine, task), task.plan => task.planned
  PROVE  StepsOK' /\ StepsKept
<1>1. Failed(task) \in Task /\ Failed(task).status = "failed" /\ SamePlan(Failed(task), task)
  BY FailedIsTask
<1>2. KeepsDone(tasks[job.task], Failed(task)) /\ (Failed(task).plan => Failed(task).planned)
  BY <1>1 DEF SamePlan, KeepsDone, Mine
<1>3. Put(job.task, Failed(task)) /\ dpc' = "idle"
  BY DEF FailTask, Finish
<1>4. StepsInHand'
  BY <1>3 DEF StepsInHand
<1>5. job.task \in TaskId
  BY MineIsHeld
<1> QED
  BY <1>1, <1>2, <1>3, <1>4, <1>5, WriteKeepsSteps

(* Claiming a task, and loading its project, lead to its plan.             *)
LEMMA ClaimsKeepSteps ==
  ASSUME Core, StepsOK, ClaimQueued \/ ProjectLoaded
  PROVE  StepsOK' /\ StepsKept
<1>1. CASE ClaimQueued
  <2> DEFINE t == First(Unclaimed("queued"))
             claim == [tasks[t] EXCEPT !.owner = "deep"]
  <2>1. t \in TaskId /\ tasks[t].status = "queued"
    <3>1. Unclaimed("queued") \in SUBSET TaskId /\ Unclaimed("queued") # {}
      BY <1>1 DEF ClaimQueued, Unclaimed
    <3>2. t \in Unclaimed("queued")
      BY <3>1, FirstIsOne DEF Core
    <3> QED
      BY <3>2 DEF Unclaimed
  <2>2. \/ /\ Put(t, claim)
           /\ dpc' = "loading"
           /\ job' = [NoJob EXCEPT !.task = t]
        \/ BeginPlanning(t, claim)
    BY <1>1 DEF ClaimQueued
  <2> HIDE DEF t
  <2>3. /\ claim \in Task /\ claim.status = "queued"
        /\ SamePlan(claim, tasks[t])
    <3>1. tasks[t] \in Task
      BY <2>1 DEF Core, BoardTypeOK
    <3> QED
      BY <2>1, <3>1 DEF Task, SamePlan
  <2>4. ToResume(t) /\ (tasks[t].plan => Resumable(tasks[t]))
    BY <2>1 DEF ToResume, StepsOK
  <2> HIDE DEF claim
  <2>5. CASE /\ Put(t, claim)
             /\ dpc' = "loading"
             /\ job' = [NoJob EXCEPT !.task = t]
    <3>1. KeepsDone(tasks[t], claim) /\ (claim.plan => claim.planned)
      BY <2>1, <2>3, SamePlanFacts DEF StepsOK
    <3>2. claim.plan => Resumable(claim)
      BY <2>3, <2>4, SamePlanFacts DEF SamePlan
    <3>3. job'.task = t
      BY <2>5 DEF NoJob
    <3>4. StepsInHand'
      BY <2>5 DEF StepsInHand
    <3> QED
      BY <2>1, <2>3, <2>5, <3>1, <3>2, <3>3, <3>4, WriteKeepsSteps
  <2> QED
    BY <2>1, <2>2, <2>3, <2>4, <2>5, BeginPlanningKeepsSteps
<1>2. CASE ProjectLoaded
  <2>1. job.task \in TaskId /\ Mine \in Task /\ ToResume(job.task)
    BY <1>2, MineIsHeld DEF ProjectLoaded, ToResume
  <2>2. PICK manifest \in BOOLEAN :
          BeginPlanning(job.task, [Mine EXCEPT !.files = @ \/ manifest])
    BY <1>2 DEF ProjectLoaded
  <2> DEFINE loaded == [Mine EXCEPT !.files = @ \/ manifest]
  <2>3. loaded \in Task /\ SamePlan(loaded, tasks[job.task])
    BY <2>1 DEF Task, SamePlan, Mine
  <2>4. BeginPlanning(job.task, loaded)
    BY <2>2
  <2> HIDE DEF loaded
  <2> QED
    BY <2>1, <2>3, <2>4, BeginPlanningKeepsSteps
<1> QED
  BY <1>1, <1>2

(* A new plan is made only for a task that has none.                       *)
LEMMA PlanReadyKeepsSteps ==
  ASSUME Core, StepsOK, PlanReady
  PROVE  StepsOK' /\ StepsKept
<1>1. job.task \in TaskId /\ Mine \in Task
  BY MineIsHeld DEF PlanReady
<1>2. PICK text \in BOOLEAN, n \in 0..MaxSteps :
        Proceed(job.task,
                [Mine EXCEPT !.status = "implementing", !.plan = text,
                             !.planned = TRUE,
                             !.steps = [i \in 1..n |-> "pending"]], 1, 0)
  BY DEF PlanReady
<1> DEFINE steps == [i \in 1..n |-> "pending"]
           new == [Mine EXCEPT !.status = "implementing", !.plan = text,
                               !.planned = TRUE, !.steps = steps]
<1>3. steps \in Seq(StepStatus) /\ DOMAIN steps = 1..n
  <2>1. n \in Nat /\ "pending" \in StepStatus
    BY DeepAssumption DEF StepStatus
  <2> QED
    BY <2>1
<1>4. \A j \in DOMAIN steps : steps[j] = IF j < 1 THEN "done" ELSE "pending"
  <2>1. n \in Nat
    BY DeepAssumption
  <2> QED
    BY <2>1
<1>5. Proceed(job.task, new, 1, 0)
  BY <1>2
<1> HIDE DEF steps
<1>6. /\ new \in Task /\ new.status = "implementing"
      /\ new.planned /\ new.steps = steps
  BY <1>1, <1>3 DEF Task, Status, Working
<1> HIDE DEF new
<1>7. DoneBefore(new, 1)
  BY <1>4, <1>6 DEF DoneBefore
<1>8. KeepsDone(tasks[job.task], new)
  BY DEF PlanReady, StepsOK, StepsInHand, KeepsDone, Mine
<1> QED
  BY <1>1, <1>5, <1>6, <1>7, <1>8, ProceedKeepsSteps

(* The step that was run is done, or fails its task.                       *)
LEMMA StepKeepsSteps ==
  ASSUME Core, StepsOK, StepDone \/ StepFailed
  PROVE  StepsOK' /\ StepsKept
<1>1. /\ dpc = "stepping" /\ job.task \in TaskId
      /\ Mine \in Task /\ Mine.status \in Held
      /\ job.at \in Nat /\ Mine.steps \in Seq(StepStatus)
  BY MineIsHeld DEF StepDone, StepFailed, Task
<1>2. /\ Mine.status # "queued"
      /\ job.at \in DOMAIN Mine.steps
      /\ \A j \in DOMAIN Mine.steps :
           Mine.steps[j] = IF j < job.at THEN "done"
                           ELSE IF j = job.at THEN "in_progress" ELSE "pending"
      /\ Mine.plan => Mine.planned
  BY <1>1 DEF StepsOK, StepsInHand, Mine
<1>3. ASSUME NEW step \in {"done", "failed"}
      PROVE  LET new == [Mine EXCEPT !.steps[job.at] = step]
             IN  /\ new \in Task /\ new.status = Mine.status
                 /\ new.plan = Mine.plan /\ new.planned = Mine.planned
                 /\ new.steps = [Mine.steps EXCEPT ![job.at] = step]
                 /\ KeepsDone(Mine, new)
  <2> DEFINE new == [Mine EXCEPT !.steps[job.at] = step]
  <2>1. new \in Task /\ new.status = Mine.status
    BY <1>1, StepUpdate DEF StepStatus
  <2>2. /\ new.plan = Mine.plan /\ new.planned = Mine.planned
        /\ new.steps = [Mine.steps EXCEPT ![job.at] = step]
    BY <1>1 DEF Task
  <2> HIDE DEF new
  <2>3. KeepsDone(Mine, new)
    BY <1>1, <1>2, <2>2 DEF KeepsDone
  <2> QED
    BY <2>1, <2>2, <2>3 DEF new
<1>4. CASE StepDone
  <2> DEFINE new == [Mine EXCEPT !.steps[job.at] = "done"]
  <2>1. PICK files \in job.files..MaxFiles : Proceed(job.task, new, job.at + 1, files)
    BY <1>4 DEF StepDone
  <2>2. /\ new \in Task /\ new.status = Mine.status
        /\ new.plan = Mine.plan /\ new.planned = Mine.planned
        /\ new.steps = [Mine.steps EXCEPT ![job.at] = "done"]
        /\ KeepsDone(Mine, new)
    BY <1>3
  <2> HIDE DEF new
  <2>3. DoneBefore(new, job.at + 1)
    BY <1>1, <1>2, <2>2 DEF DoneBefore
  <2>4. new.status \notin {"absent", "queued"} /\ job.at + 1 \in Nat \ {0}
    BY <1>1, <1>2, <2>2 DEF Held, Working
  <2>5. KeepsDone(tasks[job.task], new)
    BY <2>2 DEF Mine
  <2> QED
    BY <1>1, <1>2, <2>1, <2>2, <2>3, <2>4, <2>5, ProceedKeepsSteps
<1>5. CASE StepFailed
  <2> DEFINE new == [Mine EXCEPT !.steps[job.at] = "failed"]
  <2>1. FailTask(new)
    BY <1>5 DEF StepFailed
  <2>2. /\ new \in Task /\ KeepsDone(Mine, new)
        /\ new.plan = Mine.plan /\ new.planned = Mine.planned
    BY <1>3
  <2> HIDE DEF new
  <2> QED
    BY <1>1, <1>2, <2>1, <2>2, FailTaskKeepsSteps
<1> QED
  BY <1>4, <1>5

(* Only the await the loop is at changes, and the board does not.          *)
LEMMA WaitingKeepsSteps ==
  ASSUME Core, StepsOK, dpc \notin {"idle", "loading"}, UNCHANGED boardVars,
         job'.task = job.task,
         dpc' \notin {"loading", "planning", "stepping", "fixing"}
  PROVE  StepsOK' /\ StepsKept
<1>1. UNCHANGED tasks
  BY DEF boardVars
<1>2. Mine.status # "queued" /\ Mine' = Mine
  BY <1>1 DEF StepsOK, StepsInHand, Mine
<1>3. StepsInHand'
  BY <1>2 DEF StepsInHand
<1>4. \A t \in TaskId : KeepsDone(tasks[t], tasks[t])
  BY DEF KeepsDone
<1>5. \A t \in TaskId : ToResume(t)' => ToResume(t)
  BY <1>1 DEF ToResume
<1> QED
  BY <1>1, <1>3, <1>4, <1>5 DEF StepsOK, StepsKept, Resumable, DoneBefore

(* A fix step is added behind the plan's own, and its outcome recorded.    *)
LEMMA FixesKeepSteps ==
  ASSUME Core, StepsOK, Validated \/ Fixed
  PROVE  StepsOK' /\ StepsKept
<1>1. /\ dpc \in {"validating", "fixing"} /\ job.task \in TaskId
      /\ Mine \in Task /\ Mine.status \in Held
      /\ job \in Job /\ job.at \in Nat /\ Mine.steps \in Seq(StepStatus)
  BY MineIsHeld DEF Validated, Fixed, Task
<1>2. Mine.status # "queued" /\ (Mine.plan => Mine.planned)
  BY <1>1 DEF StepsOK, StepsInHand, Mine
<1>3. CASE dpc' = "summarizing" /\ UNCHANGED <<boardVars, job>>
  BY <1>1, <1>3, WaitingKeepsSteps
<1>4. CASE /\ Put(job.task, [Mine EXCEPT !.steps = Append(@, "in_progress")])
           /\ dpc' = "fixing"
           /\ job' = [job EXCEPT !.at = Len(Mine.steps) + 1]
  <2> DEFINE new == [Mine EXCEPT !.steps = Append(@, "in_progress")]
  <2>1. /\ new \in Task /\ new.status = Mine.status
        /\ new.plan = Mine.plan /\ new.planned = Mine.planned
        /\ new.steps = Append(Mine.steps, "in_progress")
    BY <1>1, StepAppended DEF StepStatus, Task
  <2>2. Put(job.task, new)
    BY <1>4
  <2> HIDE DEF new
  <2>3. KeepsDone(tasks[job.task], new)
    BY <1>1, <2>1 DEF KeepsDone, Mine
  <2>4. job'.task = job.task /\ job'.at = Len(Mine.steps) + 1
    BY <1>1, <1>4 DEF Job
  <2>5. tasks'[job.task] = new
    BY <1>1, <2>1, <2>2, PutTypes DEF Core
  <2>6. StepsInHand'
    BY <1>1, <1>2, <1>4, <2>1, <2>4, <2>5 DEF StepsInHand, Mine
  <2> QED
    BY <1>1, <1>2, <1>4, <2>1, <2>2, <2>3, <2>4, <2>6, WriteKeepsSteps DEF Held, Working
<1>5. CASE Fixed
  <2>1. PICK step \in {"done", "failed"} :
          Put(job.task, [Mine EXCEPT !.steps[job.at] = step])
    BY <1>5 DEF Fixed
  <2> DEFINE new == [Mine EXCEPT !.steps[job.at] = step]
  <2>2. /\ new \in Task /\ new.status = Mine.status
        /\ new.plan = Mine.plan /\ new.planned = Mine.planned
        /\ new.steps = [Mine.steps EXCEPT ![job.at] = step]
    BY <1>1, StepUpdate DEF StepStatus, Task
  <2>3. Put(job.task, new)
    BY <2>1
  <2> HIDE DEF new
  <2>4. Mine.steps[job.at] = "in_progress"
    BY <1>5 DEF Fixed, StepsOK, StepsInHand
  <2>5. KeepsDone(tasks[job.task], new)
    BY <1>1, <2>2, <2>4 DEF KeepsDone, Mine
  <2>6. job'.task = job.task /\ dpc' \in {"validating", "summarizing"}
    BY <1>1, <1>5 DEF Fixed, Job
  <2>7. tasks'[job.task] = new
    BY <1>1, <2>2, <2>3, PutTypes DEF Core
  <2>8. StepsInHand'
    BY <1>2, <2>2, <2>6, <2>7 DEF StepsInHand, Mine
  <2> QED
    BY <1>1, <1>2, <2>2, <2>3, <2>5, <2>6, <2>8, WriteKeepsSteps DEF Held, Working
<1> QED
  BY <1>3, <1>4, <1>5 DEF Validated

(* Submitting the outcome touches no step.                                 *)
LEMMA SubmitKeepsSteps ==
  ASSUME Core, StepsOK, dpc \in {"summarizing", "writing"},
         NEW project \in BOOLEAN, NEW reply \in BOOLEAN, Submit(project, reply)
  PROVE  StepsOK' /\ StepsKept
<1>1. job.task \in TaskId /\ Mine \in Task
  BY MineIsHeld
<1> DEFINE submitted == [Mine EXCEPT !.status = "reviewing", !.owner = "deep",
                                    !.reply = reply, !.project = project,
                                    !.files = @ \/ job.files > 0]
           closed == [submitted EXCEPT !.status = "done", !.owner = "none",
                                       !.skipped = TRUE]
<1>2. /\ submitted \in Task /\ submitted.status = "reviewing"
      /\ SamePlan(submitted, tasks[job.task])
  <2> DEFINE files == Mine.files \/ job.files > 0
  <2>1. ASSUME NEW some \in BOOLEAN
        PROVE  LET new == [Mine EXCEPT !.status = "reviewing", !.owner = "deep",
                                       !.reply = reply, !.project = project,
                                       !.files = some]
               IN  /\ new \in Task /\ new.status = "reviewing"
                   /\ SamePlan(new, Mine)
    BY <1>1 DEF Task, Status, Working, SamePlan
  <2>2. files \in BOOLEAN
    OBVIOUS
  <2> QED
    BY <2>1, <2>2, Zenon DEF Mine
<1>3. \/ Put(job.task, submitted) /\ dpc' = "reviewing" /\ UNCHANGED job
      \/ Put(job.task, closed) /\ Finish
  BY DEF Submit
<1> HIDE DEF submitted
<1>4. closed \in Task /\ closed.status = "done" /\ SamePlan(closed, tasks[job.task])
  BY <1>2 DEF Task, Status, Closed, SamePlan
<1> HIDE DEF closed
<1> QED
  BY <1>1, <1>2, <1>3, <1>4, OtherWorkKeepsSteps DEF Finish

(* Nor does the summary, whatever is written about the project.            *)
LEMMA SummaryKeepsSteps ==
  ASSUME Core, StepsOK, Summarized \/ ProjectWritten
  PROVE  StepsOK' /\ StepsKept
<1>1. dpc \in {"summarizing", "writing"} /\ Mine \in Task /\ job \in Job
  BY MineIsHeld DEF Summarized, ProjectWritten
<1>2. \/ /\ dpc' = "writing"
         /\ job' \in {[job EXCEPT !.reply = TRUE], [job EXCEPT !.reply = FALSE]}
         /\ UNCHANGED boardVars
      \/ \E project, reply \in BOOLEAN : Submit(project, reply)
  <2>1. CASE Summarized
    <3>1. PICK reply \in BOOLEAN, found \in {FALSE, Projects} :
            LET project == Mine.project \/ (found /\ job.files > 0)
            IN  IF project /\ job.files > 0
                THEN /\ dpc' = "writing"
                     /\ job' = [job EXCEPT !.reply = reply]
                     /\ UNCHANGED boardVars
                ELSE Submit(project, reply)
      BY <2>1 DEF Summarized
    <3> DEFINE project == Mine.project \/ (found /\ job.files > 0)
    <3>2. project \in BOOLEAN
      OBVIOUS
    <3> QED
      BY <3>1, <3>2
  <2>2. CASE ProjectWritten
    <3>1. Submit(TRUE, job.reply) /\ job.reply \in BOOLEAN
      BY <1>1, <2>2 DEF ProjectWritten, Job
    <3> QED
      BY <3>1
  <2> QED
    BY <2>1, <2>2
<1>3. CASE /\ dpc' = "writing"
           /\ job' \in {[job EXCEPT !.reply = TRUE], [job EXCEPT !.reply = FALSE]}
           /\ UNCHANGED boardVars
  <2>1. job'.task = job.task
    BY <1>1, <1>3 DEF Job
  <2> QED
    BY <1>1, <1>3, <2>1, WaitingKeepsSteps
<1> QED
  BY <1>1, <1>2, <1>3, SubmitKeepsSteps

(* The verdicts leave the plan alone.                                      *)
LEMMA VerdictsKeepPlans ==
  ASSUME Mine \in Task
  PROVE  SamePlan(Approved, tasks[job.task]) /\ SamePlan(Rejected, tasks[job.task])
BY DEF Approved, Rejected, Task, SamePlan, Mine

(* A task that is in hand fails with its plan as it is.                    *)
LEMMA FailMineKeepsSteps ==
  ASSUME Core, StepsOK, dpc \notin {"idle", "rewriting"}, FailTask(Mine)
  PROVE  StepsOK' /\ StepsKept
<1>1. Mine \in Task /\ (Mine.plan => Mine.planned) /\ KeepsDone(Mine, Mine)
  BY MineIsHeld DEF StepsOK, Mine, KeepsDone
<1> QED
  BY <1>1, FailTaskKeepsSteps

(* Reviews and revisions run no step of the plan.                          *)
LEMMA ReviewsKeepSteps ==
  ASSUME Core, StepsOK,
         Reviewed \/ ClaimRevision \/ Revised \/ Resummarized \/ Rereviewed \/ Rewritten
  PROVE  StepsOK' /\ StepsKept
<1>1. CASE Reviewed \/ Rereviewed
  <2>1. dpc \in {"reviewing", "rereviewing"} /\ job.task \in TaskId /\ Mine \in Task
    BY <1>1, MineIsHeld DEF Reviewed, Rereviewed
  <2>2. \/ Put(job.task, Approved) \/ Put(job.task, Rejected)
        \/ FailTask(Mine)
    BY <1>1 DEF Reviewed, Rereviewed
  <2>3. FailTask(Mine) \/ Finish \/ (dpc' = "rewriting" /\ UNCHANGED job)
    BY <1>1 DEF Reviewed, Rereviewed
  <2>4. CASE FailTask(Mine)
    BY <2>1, <2>4, FailMineKeepsSteps
  <2>5. CASE ~FailTask(Mine)
    BY <2>1, <2>2, <2>3, <2>5, Verdicts, VerdictsKeepPlans, OtherWorkKeepsSteps
    DEF Finish
  <2> QED
    BY <2>4, <2>5
<1>2. CASE ClaimRevision
  <2> DEFINE t == First(Unclaimed("revision"))
             new == [tasks[t] EXCEPT !.status = "implementing", !.owner = "deep"]
  <2>1. t \in TaskId /\ dpc = "idle"
    <3>1. Unclaimed("revision") \in SUBSET TaskId /\ Unclaimed("revision") # {}
      BY <1>2 DEF ClaimRevision, Unclaimed
    <3>2. t \in Unclaimed("revision")
      BY <3>1, FirstIsOne DEF Core
    <3> QED
      BY <1>2, <3>2 DEF Unclaimed, ClaimRevision
  <2>2. \/ Put(t, Failed(tasks[t])) /\ UNCHANGED <<dpc, job>>
        \/ /\ Put(t, new)
           /\ dpc' = "revising"
           /\ job' = [NoJob EXCEPT !.task = t]
    BY <1>2 DEF ClaimRevision
  <2> HIDE DEF t
  <2>3. tasks[t] \in Task
    BY <2>1 DEF Core, BoardTypeOK
  <2>4. /\ Failed(tasks[t]) \in Task /\ Failed(tasks[t]).status = "failed"
        /\ SamePlan(Failed(tasks[t]), tasks[t])
    BY <2>3, FailedIsTask
  <2>5. new \in Task /\ new.status = "implementing" /\ SamePlan(new, tasks[t])
    BY <2>3 DEF Task, Status, Working, SamePlan
  <2> HIDE DEF new
  <2>6. CASE Put(t, Failed(tasks[t])) /\ UNCHANGED <<dpc, job>>
    BY <2>1, <2>4, <2>6, OtherWorkKeepsSteps
  <2>7. CASE Put(t, new) /\ dpc' = "revising" /\ job' = [NoJob EXCEPT !.task = t]
    <3>1. job'.task = t
      BY <2>7 DEF NoJob
    <3> QED
      BY <2>1, <2>5, <2>7, <3>1, OtherWorkKeepsSteps
  <2> QED
    BY <2>2, <2>6, <2>7
<1>3. CASE Revised
  BY <1>3, WaitingKeepsSteps, FailMineKeepsSteps DEF Revised
<1>4. CASE Resummarized
  <2>1. job.task \in TaskId /\ Mine \in Task
    BY <1>4, MineIsHeld DEF Resummarized
  <2>2. PICK reply \in BOOLEAN :
          Put(job.task, [Mine EXCEPT !.status = "reviewing", !.owner = "deep",
                                     !.reply = reply])
    BY <1>4 DEF Resummarized
  <2> DEFINE new == [Mine EXCEPT !.status = "reviewing", !.owner = "deep",
                                 !.reply = reply]
  <2>3. /\ new \in Task /\ new.status = "reviewing"
        /\ SamePlan(new, tasks[job.task])
    BY <2>1 DEF Task, Status, Working, SamePlan, Mine
  <2>4. Put(job.task, new) /\ dpc' = "rereviewing" /\ job' = job
    BY <1>4, <2>2 DEF Resummarized
  <2> HIDE DEF new
  <2> QED
    BY <2>1, <2>3, <2>4, OtherWorkKeepsSteps
<1>5. CASE Rewritten
  <2>1. UNCHANGED tasks /\ dpc' = "idle"
    BY <1>5 DEF Rewritten, boardVars, Finish
  <2>2. \A t \in TaskId : KeepsDone(tasks[t], tasks[t])
    BY DEF KeepsDone
  <2>3. \A t \in TaskId : ToResume(t)' => ToResume(t)
    BY <2>1 DEF ToResume
  <2>4. StepsInHand'
    BY <2>1 DEF StepsInHand
  <2> QED
    BY <2>1, <2>2, <2>3, <2>4 DEF StepsOK, StepsKept, Resumable, DoneBefore
<1> QED
  BY <1>1, <1>2, <1>3, <1>4, <1>5

(* StepsOK is inductive relative to IInv, and no step undoes a step that   *)
(* is done.                                                                *)
LEMMA NextSteps ==
  ASSUME IInv, StepsOK, [Next]_vars
  PROVE  StepsOK' /\ StepsKept
<1>0. Core /\ RestOK /\ TalkOK
  BY DEF IInv
<1>1. CASE DeepTurn /\ ~DrainEvents /\ ~StartGoal
  BY <1>0, <1>1, ClaimsKeepSteps, PlanReadyKeepsSteps, StepKeepsSteps,
     FixesKeepSteps, SummaryKeepsSteps, ReviewsKeepSteps DEF DeepTurn, DeepStep
<1>2. CASE DrainEvents \/ StartGoal
  <2>1. PlansKept /\ UNCHANGED <<dpc, job>>
    BY <1>0, <1>2, DrainEventsKeepsCore, StartGoalKeepsCore DEF DrainEvents, StartGoal
  <2> QED
    BY <1>0, <2>1, PlansKeptKeepsSteps
<1>3. CASE FastTurn
  <2>1. PlansKept /\ UNCHANGED <<dpc, job>>
    BY <1>0, <1>3, FastKeepsCore DEF FastTurn, deepVars
  <2> QED
    BY <1>0, <2>1, PlansKeptKeepsSteps
<1>4. CASE UserWrites \/ SystemEmits \/ UNCHANGED vars
  <2>1. UNCHANGED <<tasks, dpc, job>>
    BY <1>4 DEF UserWrites, Enqueue, SystemEmits, PostEvent, vars, boardVars, deepVars
  <2>2. PlansKept
    BY <2>1 DEF PlansKept, SamePlan
  <2> QED
    BY <1>0, <2>1, <2>2, PlansKeptKeepsSteps
<1> QED
  BY <1>1, <1>2, <1>3, <1>4 DEF Next

(* A step that is done is never run again, and never becomes undone, while *)
(* its task is parked, claimed, resumed, validated, reviewed and revised.  *)
THEOREM StepsDoneOnce == Spec => DoneStepsStayDone
<1>1. Init => StepsOK
  <2> SUFFICES ASSUME Init
               PROVE  StepsOK
    OBVIOUS
  <2>1. \A t \in TaskId : tasks[t] = [NewTask("user", 0) EXCEPT !.status = "absent"]
    BY DEF Init, BoardInit
  <2>2. \A t \in TaskId : tasks[t].status = "absent" /\ ~tasks[t].plan
    BY <2>1 DEF NewTask
  <2>3. dpc = "idle"
    BY DEF Init, DeepInit
  <2> QED
    BY <2>2, <2>3 DEF StepsOK, StepsInHand
<1>2. IInv /\ StepsOK /\ [Next]_vars => StepsOK'
  BY NextSteps
<1>3. IInv /\ StepsOK /\ [Next]_vars =>
        [\A t \in TaskId : tasks[t].plan =>
           \A i \in DOMAIN tasks[t].steps :
             tasks[t].steps[i] = "done" =>
               /\ i \in DOMAIN tasks'[t].steps
               /\ tasks'[t].steps[i] = "done"]_vars
  BY NextSteps DEF StepsKept, KeepsDone
<1> QED
  BY <1>1, <1>2, <1>3, Invariant, PTL DEF Spec, DoneStepsStayDone

-----------------------------------------------------------------------------
(* Replies: deliverResponse() remembers a task before it sends, and what   *)
(* was sent is of a task that is done, so no progress of it is sent later. *)
RepliesOK ==
    /\ replies \in [TaskId -> Nat]
    /\ \A t \in TaskId :
         /\ replies[t] <= 1
         /\ replies[t] > 0 => /\ t \in delivered
                              /\ tasks[t].status = "done"
                              /\ tasks[t].reply
    /\ fpc \in {"tellingPlan", "tellingSteps"} => replies[talk.task] = 0

(* Nothing but the FastLoop's delivery touches the set of what it sent.    *)
LEMMA DeepDeliversNothing ==
  ASSUME DeepStep
  PROVE  UNCHANGED <<delivered, deliveredIds>>
<1>1. ASSUME NEW t, NEW task, Put(t, task)
      PROVE  UNCHANGED <<delivered, deliveredIds>>
  BY <1>1 DEF Put
<1>2. ASSUME NEW n, NEW task, NEW group, Create(n, task, group)
      PROVE  UNCHANGED <<delivered, deliveredIds>>
  BY <1>2 DEF Create
<1>3. ASSUME UNCHANGED boardVars
      PROVE  UNCHANGED <<delivered, deliveredIds>>
  BY <1>3 DEF boardVars
<1>4. ASSUME NEW t, NEW task, NEW i, NEW files, Proceed(t, task, i, files)
      PROVE  UNCHANGED <<delivered, deliveredIds>>
  BY <1>1, <1>4 DEF Proceed
<1>5. ASSUME NEW t, NEW task, BeginPlanning(t, task)
      PROVE  UNCHANGED <<delivered, deliveredIds>>
  BY <1>1, <1>4, <1>5 DEF BeginPlanning
<1>6. ASSUME NEW task, FailTask(task)
      PROVE  UNCHANGED <<delivered, deliveredIds>>
  BY <1>1, <1>6 DEF FailTask
<1>7. ASSUME NEW project, NEW reply, Submit(project, reply)
      PROVE  UNCHANGED <<delivered, deliveredIds>>
  BY <1>1, <1>7 DEF Submit
<1>8. CASE ClaimQueued \/ ProjectLoaded \/ PlanReady \/ StepDone \/ StepFailed
  BY <1>1, <1>4, <1>5, <1>6, <1>8
  DEF ClaimQueued, ProjectLoaded, PlanReady, StepDone, StepFailed
<1>9. CASE Validated \/ Fixed \/ Summarized \/ ProjectWritten
  BY <1>1, <1>3, <1>7, <1>9 DEF Validated, Fixed, Summarized, ProjectWritten
<1>10. CASE Reviewed \/ ClaimRevision \/ Revised \/ Resummarized \/ Rereviewed
            \/ Rewritten
  BY <1>1, <1>3, <1>6, <1>10
  DEF Reviewed, ClaimRevision, Revised, Resummarized, Rereviewed, Rewritten
<1>11. CASE DrainEvents \/ StartGoal
  BY <1>2, <1>11 DEF DrainEvents, StartGoal
<1> QED
  BY <1>8, <1>9, <1>10, <1>11 DEF DeepStep

(* A step that sends no reply keeps RepliesOK, if a task it starts to tell *)
(* about was still being implemented.                                      *)
LEMMA QuietKeepsReplies ==
  ASSUME RepliesOK, DoneStays, UNCHANGED <<replies, delivered>>,
         \/ UNCHANGED <<fpc, talk>>
         \/ fpc' \notin {"tellingPlan", "tellingSteps"}
         \/ talk'.task \in TaskId /\ tasks[talk'.task].status = "implementing"
  PROVE  RepliesOK'
<1>1. \A t \in TaskId :
        /\ replies'[t] <= 1
        /\ replies'[t] > 0 => /\ t \in delivered'
                              /\ tasks'[t].status = "done"
                              /\ tasks'[t].reply
  BY DEF RepliesOK, DoneStays
<1>2. ASSUME NEW t \in TaskId, tasks[t].status = "implementing"
      PROVE  replies[t] = 0
  BY <1>2 DEF RepliesOK
<1>3. fpc' \in {"tellingPlan", "tellingSteps"} => replies'[talk'.task] = 0
  BY <1>2 DEF RepliesOK
<1> QED
  BY <1>1, <1>3 DEF RepliesOK

(* A progress update is of a task that is being implemented when it is     *)
(* sent.                                                                   *)
LEMMA TellsOfImplementing ==
  ASSUME NEW S \in SUBSET TaskId, NEW board, Tell(S, board)
  PROVE  talk'.task \in TaskId /\ tasks[talk'.task].status = "implementing"
BY DEF Tell, PlanIsNews, StepsAreNews, InProgress

(* A reply is sent only if its task was not marked, and it is marked       *)
(* first.                                                                  *)
LEMMA DeliveryKeepsReplies ==
  ASSUME RepliesOK, DoneStays, DeliverResponse
  PROVE  RepliesOK'
<1> DEFINE t == Oldest(Deliverable)
<1>1. t \in Deliverable
  <2>1. Deliverable \in SUBSET Nat /\ Deliverable # {}
    BY TaskIds DEF DeliverResponse, Deliverable
  <2>2. \E u \in Deliverable : \A v \in Deliverable : u <= v
    BY <2>1, LeastElement
  <2> QED
    BY <2>2 DEF Oldest
<1>2. /\ delivered' = delivered \cup {t}
      /\ UNCHANGED tasks
      /\ \/ UNCHANGED <<fpc, talk, replies>>
         \/ fpc' = "delivering" /\ replies' = [replies EXCEPT ![t] = @ + 1]
  BY DEF DeliverResponse, MarkDelivered
<1>3. t \in TaskId /\ t \notin delivered /\ tasks[t].status = "done" /\ tasks[t].reply
  BY <1>1 DEF Deliverable
<1> HIDE DEF t
<1>4. replies[t] = 0
  BY <1>3 DEF RepliesOK
<1>5. CASE UNCHANGED <<fpc, talk, replies>>
  BY <1>2, <1>5 DEF RepliesOK
<1>6. CASE fpc' = "delivering" /\ replies' = [replies EXCEPT ![t] = @ + 1]
  <2>1. replies' = [replies EXCEPT ![t] = 1]
    BY <1>4, <1>6
  <2>2. replies' \in [TaskId -> Nat]
    BY <2>1 DEF RepliesOK
  <2>3. ASSUME NEW u \in TaskId
        PROVE  /\ replies'[u] <= 1
               /\ replies'[u] > 0 => /\ u \in delivered'
                                     /\ tasks'[u].status = "done"
                                     /\ tasks'[u].reply
    <3>1. CASE u = t
      BY <1>2, <1>3, <2>1, <3>1 DEF RepliesOK
    <3>2. CASE u # t
      BY <1>2, <2>1, <3>2 DEF RepliesOK
    <3> QED
      BY <3>1, <3>2
  <2> QED
    BY <1>6, <2>2, <2>3 DEF RepliesOK
<1> QED
  BY <1>2, <1>5, <1>6

(* RepliesOK is inductive relative to IInv.                                *)
LEMMA NextReplies ==
  ASSUME IInv, RepliesOK, [Next]_vars
  PROVE  RepliesOK'
<1>1. DoneStays
  BY NextIInv DEF LegalStep
<1>2. CASE UserWrites
  BY <1>1, <1>2, QuietKeepsReplies DEF UserWrites, Enqueue, boardVars
<1>3. CASE SystemEmits
  BY <1>1, <1>3, QuietKeepsReplies DEF SystemEmits, PostEvent, boardVars, fastVars
<1>4. CASE DeepTurn
  BY <1>1, <1>4, DeepDeliversNothing, QuietKeepsReplies DEF DeepTurn, fastVars
<1>5. CASE UNCHANGED vars
  BY <1>1, <1>5, QuietKeepsReplies DEF vars, boardVars, fastVars
<1>6. CASE FastTurn
  <2>1. CASE DeliverResponse
    BY <1>1, <2>1, DeliveryKeepsReplies
  <2>2. CASE StartBatch \/ Replied \/ ResponseSent
    <3>1. UNCHANGED <<delivered, replies>>
      BY <2>2 DEF StartBatch, Replied, ResponseSent, boardVars
    <3>2. fpc' \in {"idle", "triaging"}
      BY <2>2 DEF StartBatch, Replied, ResponseSent, NextGroup
    <3> QED
      BY <1>1, <3>1, <3>2, QuietKeepsReplies
  <2>3. CASE AnswerDirectly \/ Escalate
    <3>1. UNCHANGED <<delivered, replies>> /\ fpc' = "replying"
      BY <2>3 DEF AnswerDirectly, Escalate, Create
    <3> QED
      BY <1>1, <3>1, QuietKeepsReplies
  <2>4. CASE StartProgress
    <3>1. Tell(ActiveTasks, tasks) /\ UNCHANGED <<delivered, replies>>
      BY <2>4 DEF StartProgress
    <3>2. ActiveTasks \in SUBSET TaskId
      BY DEF ActiveTasks
    <3> QED
      BY <1>1, <3>1, <3>2, TellsOfImplementing, QuietKeepsReplies
  <2>5. CASE ProgressSent
    <3>1. talk.rest \in SUBSET TaskId
      BY DEF IInv, TalkOK
    <3>2. PICK board : Tell(talk.rest, board) \/ fpc' = "idle"
      BY <2>5 DEF ProgressSent
    <3>3. UNCHANGED <<delivered, replies>>
      BY <2>5 DEF ProgressSent
    <3>4. CASE Tell(talk.rest, board)
      BY <1>1, <3>1, <3>3, <3>4, TellsOfImplementing, QuietKeepsReplies
    <3>5. CASE fpc' = "idle"
      BY <1>1, <3>3, <3>5, QuietKeepsReplies
    <3> QED
      BY <3>2, <3>4, <3>5
  <2> QED
    BY <1>6, <2>1, <2>2, <2>3, <2>4, <2>5 DEF FastTurn, FastStep
<1> QED
  BY <1>2, <1>3, <1>4, <1>5, <1>6 DEF Next

(* RepliesOK holds in every state of the two loops.                        *)
LEMMA RepliesCounted == Spec => []RepliesOK
<1>1. Init => RepliesOK
  BY DEF Init, FastInit, RepliesOK
<1>2. IInv /\ RepliesOK /\ [Next]_vars => RepliesOK'
  BY NextReplies
<1> QED
  BY <1>1, <1>2, Invariant, PTL DEF Spec

(* A task's reply is sent at most once, when it is done and has one, and   *)
(* no progress of the task is sent after it.                               *)
THEOREM RepliesSentOnce == Spec => []RepliesOnce
<1>1. RepliesOK => RepliesOnce
  BY DEF RepliesOK, RepliesOnce
<1> QED
  BY <1>1, RepliesCounted, PTL

-----------------------------------------------------------------------------
(* Messages, with the DeepLoop at work and replies being sent: MessageInv  *)
(* of Intake_proofs, and the types of what it does not speak of.           *)
LoopTypes ==
    /\ fpc \in {"idle", "triaging", "replying", "delivering",
                "tellingPlan", "tellingSteps"}
    /\ cutoff \in 0..MaxMessages

(* The DeepLoop makes tasks, if any, that no person asked for.             *)
LEMMA DeepAsksNothing ==
  ASSUME DeepStep, events \in Nat
  PROVE  \/ UNCHANGED <<asked, created>>
         \/ \E n \in Nat, task \in {NewTask("event", 1), NewTask("goal", 2)} :
              Create(n, task, NoGroup)
<1> DEFINE Same == UNCHANGED <<asked, created>>
<1>1. ASSUME NEW t, NEW task, Put(t, task)
      PROVE  Same
  BY <1>1 DEF Put
<1>2. ASSUME UNCHANGED boardVars
      PROVE  Same
  BY <1>2 DEF boardVars
<1>3. ASSUME NEW t, NEW task, NEW i, NEW files, Proceed(t, task, i, files)
      PROVE  Same
  BY <1>1, <1>3 DEF Proceed
<1>4. ASSUME NEW t, NEW task, BeginPlanning(t, task)
      PROVE  Same
  BY <1>1, <1>3, <1>4 DEF BeginPlanning
<1>5. ASSUME NEW task, FailTask(task)
      PROVE  Same
  BY <1>1, <1>5 DEF FailTask
<1>6. ASSUME NEW project, NEW reply, Submit(project, reply)
      PROVE  Same
  BY <1>1, <1>6 DEF Submit
<1> HIDE DEF Same
<1>7. CASE ClaimQueued \/ ProjectLoaded \/ PlanReady \/ StepDone \/ StepFailed
  <2>1. Same
    BY <1>1, <1>3, <1>4, <1>5, <1>7
    DEF ClaimQueued, ProjectLoaded, PlanReady, StepDone, StepFailed
  <2> QED
    BY <2>1 DEF Same
<1>8. CASE Validated \/ Fixed \/ Summarized \/ ProjectWritten
  <2>1. Same
    BY <1>1, <1>2, <1>6, <1>8 DEF Validated, Fixed, Summarized, ProjectWritten
  <2> QED
    BY <2>1 DEF Same
<1>9. CASE Reviewed \/ ClaimRevision \/ Revised \/ Resummarized \/ Rereviewed
           \/ Rewritten
  <2>1. Same
    BY <1>1, <1>2, <1>5, <1>9
    DEF Reviewed, ClaimRevision, Revised, Resummarized, Rereviewed, Rewritten
  <2> QED
    BY <2>1 DEF Same
<1>10. ASSUME DrainEvents
       PROVE  \E n \in Nat : Create(n, NewTask("event", 1), NoGroup)
  BY <1>10, DeepAssumption DEF DrainEvents
<1>11. CASE StartGoal
  BY <1>11 DEF StartGoal
<1>12. CASE DrainEvents
  BY <1>10, <1>12
<1> QED
  BY <1>7, <1>8, <1>9, <1>11, <1>12 DEF DeepStep

(* MessageInv and LoopTypes are inductive, given the other types.          *)
LEMMA NextMessages ==
  ASSUME IInv, MessageInv, LoopTypes, [Next]_vars
  PROVE  MessageInv' /\ LoopTypes'
<1>1. CASE UserWrites
  <2>1. PICK s \in Sender : Enqueue(s)
    BY <1>1 DEF UserWrites
  <2>2. LoopTypes'
    BY <2>1 DEF Enqueue, LoopTypes
  <2> QED
    BY <2>1, <2>2, EnqueueKeepsMessages
<1>2. CASE SystemEmits \/ UNCHANGED vars
  <2>1. UNCHANGED <<boardVars, fastVars>>
    BY <1>2 DEF SystemEmits, PostEvent, vars
  <2>2. LoopTypes'
    BY <2>1 DEF fastVars, LoopTypes
  <2> QED
    BY <2>1, <2>2, QuietKeepsMessages DEF boardVars, fastVars
<1>3. CASE DeepTurn
  <2>1. UNCHANGED fastVars /\ DeepStep
    BY <1>3 DEF DeepTurn
  <2>2. LoopTypes'
    BY <2>1 DEF fastVars, LoopTypes
  <2>3. CASE UNCHANGED <<asked, created>>
    BY <2>1, <2>2, <2>3, QuietKeepsMessages DEF fastVars
  <2>4. CASE \E n \in Nat, task \in {NewTask("event", 1), NewTask("goal", 2)} :
               Create(n, task, NoGroup)
    BY <2>1, <2>2, <2>4, OtherTasksKeepMessages
  <2>5. events \in Nat
    BY DEF IInv, RestOK
  <2> QED
    BY <2>1, <2>3, <2>4, <2>5, DeepAsksNothing
<1>4. CASE FastTurn
  <2>1. CASE StartBatch
    <3>1. PICK cut \in 1..arrived : NextGroup(<< >>, GroupsOf(pending), cut)
      BY <2>1 DEF StartBatch
    <3>2. fpc' \in {"idle", "triaging"} /\ cutoff' \in {0, cut}
      BY <3>1 DEF NextGroup
    <3>3. LoopTypes'
      BY <3>2, BoardAssumption DEF LoopTypes, MessageInv, MessageTypes
    <3> QED
      BY <2>1, <3>3, BatchKeepsMessages
  <2>2. CASE Replied
    <3>1. fpc' \in {"idle", "triaging"} /\ cutoff' \in {0, cutoff}
      BY <2>2 DEF Replied, NextGroup
    <3>2. LoopTypes'
      BY <3>1, BoardAssumption DEF LoopTypes
    <3> QED
      BY <2>2, <3>2, BatchKeepsMessages
  <2>3. CASE AnswerDirectly \/ Escalate
    <3>1. LoopTypes'
      BY <2>3 DEF AnswerDirectly, Escalate, LoopTypes
    <3> QED
      BY <2>3, <3>1, TriageKeepsMessages
  <2>4. CASE DeliverResponse \/ ResponseSent \/ StartProgress \/ ProgressSent
    <3>1. /\ UNCHANGED <<asked, created, arrived, pending, batch, hand, cutoff>>
          /\ fpc \notin {"triaging", "replying"}
      BY <2>4 DEF DeliverResponse, ResponseSent, StartProgress, ProgressSent,
           MarkDelivered, QuietHeartbeat, boardVars
    <3>2. fpc' \in {"idle", "delivering", "tellingPlan", "tellingSteps"}
      BY <2>4 DEF DeliverResponse, ResponseSent, StartProgress, ProgressSent,
           Tell, QuietHeartbeat
    <3>3. LoopTypes'
      BY <3>1, <3>2 DEF LoopTypes
    <3> QED
      BY <3>1, <3>2, <3>3, QuietKeepsMessages
  <2> QED
    BY <1>4, <2>1, <2>2, <2>3, <2>4 DEF FastTurn, FastStep
<1> QED
  BY <1>1, <1>2, <1>3, <1>4 DEF Next

(* MessageInv holds in every state of the two loops.                       *)
LEMMA Messages == Spec => [](MessageInv /\ LoopTypes)
<1>1. Init => MessageInv /\ LoopTypes
  BY InitMessages, BoardAssumption DEF Init, FastInit, LoopTypes
<1>2. IInv /\ MessageInv /\ LoopTypes /\ [Next]_vars => MessageInv' /\ LoopTypes'
  BY NextMessages
<1> QED
  BY <1>1, <1>2, Invariant, PTL DEF Spec

(* No message is lost or handled twice, and none overtakes another of the  *)
(* same person, also while the DeepLoop makes tasks of its own, evicts     *)
(* others and replies are sent (fast-loop.ts, 213-249 and 470-560).        *)
THEOREM MessagesServed == Spec => [](NoMessageLost /\ NotOvertaken)
BY Messages, MessagesInOnePlace, MessagesInOrder, PTL

(* Type correctness: the board's and both loops' variables stay in the     *)
(* types task-board-types.ts, fast-loop.ts and deep-loop.ts give them.     *)
THEOREM TypeCorrect == Spec => []TypeOK
<1>1. IInv => BoardTypeOK /\ DeepTypeOK
  BY DEF IInv, Core, RestOK, DeepTypeOK
<1>2. IInv /\ MessageInv /\ LoopTypes /\ RepliesOK => FastTypeOK
  BY DEF IInv, TalkOK, MessageInv, MessageTypes, QueuedMessage, LoopTypes,
         RepliesOK, FastTypeOK
<1> QED
  BY <1>1, <1>2, Invariant, Messages, RepliesCounted, PTL DEF TypeOK
=============================================================================
