------------------------------ MODULE FastLoop ------------------------------
(***************************************************************************)
(* The FastLoop (src/dual-loop/fast-loop.ts): it coalesces and triages the *)
(* messages people send, answers them or puts a task on the board, and     *)
(* sends out the replies and the progress of the tasks the DeepLoop works  *)
(* on.  One action runs from one await of the code to the next; while an   *)
(* await is pending (fpc names it) messages arrive and the DeepLoop runs.  *)
(*                                                                         *)
(* A message is its place in the order of arrival.  Date.now() appears as  *)
(* a cutoff: at the start of a batch the messages up to the cutoff have    *)
(* waited out messageCoalesceMs, the later ones have not.                  *)
(***************************************************************************)
EXTENDS TaskBoard, SequencesExt, Ordered

VARIABLES
    arrived,    \* how many messages enqueueMessage() has been given
    pending,    \* this.pendingMessages
    fpc,        \* the await the loop is at
    batch,      \* the groups of bySender not handled yet
    cutoff,     \* now - messageCoalesceMs of this batch
    hand,       \* the group handleUserMessage() is working on
    talk,       \* the task being told about, and what deliver() was given
    replies     \* history: how often the reply of a task was sent

fastVars == <<arrived, pending, fpc, batch, cutoff, hand, talk, replies>>

NoTalk  == [task |-> 0, count |-> 0, rest |-> {}]

FastInit ==
    /\ arrived = 0
    /\ pending = << >>
    /\ fpc = "idle"
    /\ batch = << >>
    /\ cutoff = 0
    /\ hand = NoGroup
    /\ talk = NoTalk
    /\ replies = [t \in TaskId |-> 0]

-----------------------------------------------------------------------------
(* Message intake *)

(* A message reaches enqueueMessage(): only between two turns of the event *)
(* loop, that is whenever the loop sleeps or awaits.                       *)
Enqueue(s) ==
    /\ arrived < MaxMessages
    /\ arrived' = arrived + 1
    /\ pending' = Append(pending, [n |-> arrived + 1, from |-> s])
    /\ UNCHANGED <<boardVars, fpc, batch, cutoff, hand, talk, replies>>

(* Mutant of GroupsOf: messages are not joined, each is a group.           *)
GroupPerMessage(queue) ==
    [i \in DOMAIN queue |-> [from |-> queue[i].from, msgs |-> <<queue[i].n>>]]

(* bySender: one group per sender, in the order the senders first appear.  *)
GroupsOf(queue) ==
    LET places   == [s \in Sender |-> {i \in DOMAIN queue : queue[i].from = s}]
        numbers  == [i \in DOMAIN queue |-> queue[i].n]
        bySender == [s \in Sender |->
                       [from |-> s, msgs |-> Filtered(numbers, places[s])]]
        firsts   == Filtered(queue, {i \in DOMAIN queue :
                               \A j \in places[queue[i].from] : i <= j})
    IN  [k \in DOMAIN firsts |-> bySender[firsts[k].from]]

(* The code takes the last message of a group for the newest one.          *)
Ready(group, cut) == Last(group.msgs) <= cut

(* Mutant of PutBack: only the newest message goes back.                   *)
PutBackNewest(group) == <<[n |-> Last(group.msgs), from |-> group.from]>>

PutBack(group) ==
    [i \in DOMAIN group.msgs |-> [n |-> group.msgs[i], from |-> group.from]]

(* From one group to the next: the groups not ready go back to the end of  *)
(* the queue as it is now, up to the first ready group, whose triage is    *)
(* then awaited; without one the batch is over.                            *)
NextGroup(queue, groups, cut) ==
    LET k      == SelectInSeq(groups, LAMBDA g : Ready(g, cut))
        waits  == IF k = 0 THEN groups ELSE SubSeq(groups, 1, k - 1)
    IN  /\ pending' = queue \o FlattenSeq([i \in DOMAIN waits |->
                                             PutBack(waits[i])])
        /\ batch' = IF k = 0 THEN << >> ELSE SubSeq(groups, k + 1, Len(groups))
        /\ hand' = IF k = 0 THEN NoGroup ELSE groups[k]
        /\ cutoff' = IF k = 0 THEN 0 ELSE cut
        /\ fpc' = IF k = 0 THEN "idle" ELSE "triaging"

(* processPendingMessages().  When no group is ready the loop comes round  *)
(* at once, with no await that lets anything else run, until one is: so a  *)
(* batch starts with at least one ready group.                             *)
StartBatch ==
    /\ fpc = "idle"
    /\ pending # << >>
    /\ \E cut \in 1..arrived :
         LET groups == GroupsOf(pending)
         IN  /\ \E k \in DOMAIN groups : Ready(groups[k], cut)
             /\ NextGroup(<< >>, groups, cut)
    /\ UNCHANGED <<boardVars, arrived, talk, replies>>

(* The triage call answered: the reply is part of the task, which is       *)
(* closed from the start, and its delivery is awaited.                     *)
AnswerDirectly ==
    /\ fpc = "triaging"
    /\ Create(1, [NewTask("user", 0) EXCEPT !.status = "answered_directly",
                                         !.reply = TRUE], hand)
    /\ fpc' = "replying"
    /\ hand' = NoGroup
    /\ UNCHANGED <<arrived, pending, batch, cutoff, talk, replies>>

(* The triage call asked for deep work, failed or timed out: a queued task *)
(* and an acknowledgment.  matchedProject may name a project.              *)
Escalate ==
    /\ fpc = "triaging"
    /\ \E project \in {FALSE, Projects} :
         Create(1, [NewTask("user", 0) EXCEPT !.project = project], hand)
    /\ fpc' = "replying"
    /\ hand' = NoGroup
    /\ UNCHANGED <<arrived, pending, batch, cutoff, talk, replies>>

(* Mutant of Replied: the loop goes on only if the batch has another group.*)
RepliedInBatch ==
    /\ fpc = "replying"
    /\ batch # << >>
    /\ NextGroup(pending, batch, cutoff)
    /\ UNCHANGED <<boardVars, arrived, talk, replies>>

(* deliver() of the answer or of the acknowledgment returned.              *)
Replied ==
    /\ fpc = "replying"
    /\ NextGroup(pending, batch, cutoff)
    /\ UNCHANGED <<boardVars, arrived, talk, replies>>

-----------------------------------------------------------------------------
(* Delivery of replies *)

QuietHeartbeat == fpc = "idle" /\ pending = << >>

Oldest(S) == CHOOSE t \in S : \A u \in S : t <= u

(* deliverResponse() marks the task first, then awaits the send; a task    *)
(* without a sender is only marked.                                        *)
DeliverResponse ==
    /\ QuietHeartbeat
    /\ Deliverable # {}
    /\ LET t == Oldest(Deliverable)
       IN  /\ MarkDelivered(t)
           /\ IF ~HasSender(t)
              THEN UNCHANGED <<fpc, talk, replies>>
              ELSE /\ fpc' = "delivering"
                   /\ talk' = [NoTalk EXCEPT !.task = t]
                   /\ replies' = [replies EXCEPT ![t] = @ + 1]
    /\ UNCHANGED <<arrived, pending, batch, cutoff, hand>>

(* The send ended.  An error in it is swallowed by the delivery function   *)
(* (dual-loop-controller.ts), and nothing tries again.                     *)
ResponseSent ==
    /\ fpc = "delivering"
    /\ fpc' = "idle"
    /\ talk' = NoTalk
    /\ UNCHANGED <<boardVars, arrived, pending, batch, cutoff, hand, replies>>

-----------------------------------------------------------------------------
(* Progress updates *)

StepsDone(t) == Cardinality({i \in DOMAIN tasks[t].steps :
                               tasks[t].steps[i] = "done"})

InProgress(t) == /\ HasSender(t)
                 /\ tasks[t].status = "implementing"
                 /\ Len(tasks[t].steps) > 1

PlanIsNews(t)  == InProgress(t) /\ ~tasks[t].planTold
StepsAreNews(t) == /\ InProgress(t)
                   /\ tasks[t].planTold
                   /\ StepsDone(t) > tasks[t].told

(* The 60 s between two step updates apply once one was sent.              *)
MustTell(t) == PlanIsNews(t) \/ (StepsAreNews(t) /\ tasks[t].told = 0)

(* From here to the next send: `board' is the table so far, and the first  *)
(* task of S with news that may be sent is told; the tasks passed over     *)
(* have none, or none that may be sent yet.                                *)
Tell(S, board) ==
    \E t \in S :
      /\ PlanIsNews(t) \/ StepsAreNews(t)
      /\ \A u \in S : u < t => ~MustTell(u)
      /\ talk' = [task |-> t, count |-> StepsDone(t),
                  rest |-> {u \in S : u > t}]
      /\ IF PlanIsNews(t)
         THEN /\ fpc' = "tellingPlan"
              /\ tasks' = [board EXCEPT ![t].planTold = TRUE]
         ELSE /\ fpc' = "tellingSteps"
              /\ tasks' = board
      /\ dirty' = (dirty \/ tasks' # tasks)

(* deliverProgressUpdates() goes over the tasks active when it starts.     *)
StartProgress ==
    /\ QuietHeartbeat
    /\ Deliverable = {}
    /\ Tell(ActiveTasks, tasks)
    /\ UNCHANGED <<asked, created, delivered, deliveredIds, arrived, pending,
                   batch, cutoff, hand, replies>>

(* The send of a progress message ended.  After a step update the count    *)
(* taken before the send is recorded, if the task is still on the board;   *)
(* then the rest of the snapshot is visited, as the board shows it now.    *)
ProgressSent ==
    /\ fpc \in {"tellingPlan", "tellingSteps"}
    /\ LET board == IF fpc = "tellingSteps" /\ tasks[talk.task].status # "absent"
                    THEN [tasks EXCEPT ![talk.task].told = talk.count]
                    ELSE tasks
       IN  \/ Tell(talk.rest, board)
           \/ /\ \A u \in talk.rest : ~MustTell(u)
              /\ fpc' = "idle"
              /\ talk' = NoTalk
              /\ tasks' = board
              /\ dirty' = (dirty \/ tasks' # tasks)
    /\ UNCHANGED <<asked, created, delivered, deliveredIds, arrived, pending,
                   batch, cutoff, hand, replies>>

-----------------------------------------------------------------------------
FastStep ==
    \/ StartBatch \/ AnswerDirectly \/ Escalate \/ Replied
    \/ DeliverResponse \/ ResponseSent
    \/ StartProgress \/ ProgressSent

(* Types: what the class of the FastLoop declares.                         *)
FastTypeOK ==
    /\ asked \in [TaskId -> Group \cup {NoGroup}]
    /\ arrived \in 0..MaxMessages
    /\ pending \in Seq([n : Message, from : Sender])
    /\ fpc \in {"idle", "triaging", "replying", "delivering",
                "tellingPlan", "tellingSteps"}
    /\ batch \in Seq(Group)
    /\ cutoff \in 0..MaxMessages
    /\ hand \in Group \cup {NoGroup}
    /\ talk \in [task : {0} \cup TaskId, count : Nat, rest : SUBSET TaskId]
    /\ replies \in [TaskId -> Nat]
=============================================================================
