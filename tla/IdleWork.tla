------------------------------ MODULE IdleWork ------------------------------
(***************************************************************************)
(* What the DeepLoop does when nobody has asked it for anything            *)
(* (src/dual-loop/deep-loop-events.ts, and the turn of deep-loop.ts run()  *)
(* that calls it): events become tasks, and when there are none the next   *)
(* goal does.  How a task is carried out is the subject of DeepLoop.tla;   *)
(* here a task is where it came from, and while one is worked on the       *)
(* agent's tools may change the goals.                                     *)
(***************************************************************************)
EXTENDS EventBus, GoalStack

CONSTANTS
    EventsPerCheck,     \* config.maxEventsPerCheck
    GoalUpdates,        \* bound: the statuses that an agent gives to goals
    MaxUserTasks        \* bound: how many tasks users ask for

ASSUME IdleAssumption ==
    /\ EventsPerCheck \in Nat \ {0}
    /\ GoalUpdates \subseteq GoalStatus
    /\ MaxUserTasks \in Nat

VARIABLES
    board,      \* the active tasks
    inHand,     \* the one the DeepLoop works on, if any
    asked       \* how many tasks users have asked for

idleVars == <<queue, emitted, stack, board, inHand, asked>>

Task == [origin : {"user", "event", "goal"}, of : Nat]

IdleTypeOK ==
    /\ queue \subseteq Event /\ Cardinality(queue) <= MaxQueueSize
    /\ emitted \in 0..MaxEmitted
    /\ stack.goals \in Seq(Goal) /\ stack.nextId \in 1..MaxGoals + 1
    /\ \A i, j \in 1..Len(stack.goals) :
         i # j => stack.goals[i].id # stack.goals[j].id
    /\ board \subseteq Task
    /\ inHand \subseteq board /\ Cardinality(inHand) <= 1
    /\ asked \in 0..MaxUserTasks

IdleInit ==
    /\ BusInit /\ GoalInit
    /\ board = {} /\ inHand = {} /\ asked = 0

-----------------------------------------------------------------------------
UserAsks ==
    /\ asked < MaxUserTasks
    /\ asked' = asked + 1
    /\ board' = board \cup {[origin |-> "user", of |-> asked + 1]}
    /\ UNCHANGED <<queue, emitted, stack, inHand>>

SystemEmits ==
    /\ \E type \in EventTypes : Emit(type)
    /\ UNCHANGED <<stack, board, inHand, asked>>

(* addGoal() from outside the dream cycle; a goal of an event is treated   *)
(* like a user's.                                                          *)
GoalIsAdded ==
    /\ \E source \in {"user", "self"} : AddGoal(source, 1, NoIssue)
    /\ UNCHANGED <<queue, emitted, board, inHand, asked>>

(* The events of these types are left to others.                           *)
Skipped == {"user_message", "scheduled"}

TasksOf(events) ==
    {[origin |-> "event", of |-> e.at] : e \in {f \in events : f.type \notin Skipped}}

(* Mutant of HasGoalTask: it asks the stack, not the board.                *)
HasGoalInProgress == \E g \in Goals : g.status = "in_progress"

HasGoalTask == \E t \in board : t.origin = "goal"

(* claimNext(); which task comes first is modelled in TaskBoard.           *)
Claim ==
    /\ inHand = {}
    /\ \E t \in board : inHand' = {t}
    /\ UNCHANGED <<queue, emitted, stack, board, asked>>

(* runIdleCheck(), with no task to claim.  The goal is only given another  *)
(* attempt: its status is left to the agent.                               *)
IdleCheck ==
    /\ board = {}
    /\ LET taken == Drained(EventsPerCheck)
           picked == IF TasksOf(taken) = {} /\ ~HasGoalTask THEN NextGoals ELSE {}
       IN /\ queue' = queue \ taken
          /\ board' = TasksOf(taken) \cup {[origin |-> "goal", of |-> g.id] : g \in picked}
          /\ IF picked = {} THEN UNCHANGED stack ELSE \E g \in picked : Touch(g)
    /\ UNCHANGED <<emitted, inHand, asked>>

(* The update_goal tool: any goal, to any status or with new notes.        *)
AgentUpdatesGoal ==
    /\ inHand # {}
    /\ \E g \in Goals : Touch(g) \/ \E status \in GoalUpdates : SetStatus(g, status)
    /\ UNCHANGED <<queue, emitted, board, inHand, asked>>

(* Mutant of Finish: the DeepLoop holds on to a task that is closed.       *)
FinishHolding ==
    /\ inHand # {}
    /\ board' = board \ inHand
    /\ UNCHANGED <<queue, emitted, stack, inHand, asked>>

(* The task is done, answered or given up.                                 *)
Finish ==
    /\ inHand # {}
    /\ board' = board \ inHand
    /\ inHand' = {}
    /\ UNCHANGED <<queue, emitted, stack, asked>>

IdleNext ==
    \/ UserAsks \/ SystemEmits \/ GoalIsAdded
    \/ Claim \/ IdleCheck \/ AgentUpdatesGoal \/ Finish

(* The DeepLoop runs on, and the work on a task comes to an end: its turns *)
(* are limited.                                                            *)
IdleSpec ==
    /\ IdleInit /\ [][IdleNext]_idleVars
    /\ WF_idleVars(Claim) /\ WF_idleVars(IdleCheck) /\ WF_idleVars(Finish)

-----------------------------------------------------------------------------
(* An event of the most urgent type that occurs, once in the queue,        *)
(* becomes a task, whatever goals there are to work on, or is displaced by *)
(* events of its own type when they are all that the queue holds; none is  *)
(* lost to a less urgent one (events.ts trimQueue, deep-loop-events.ts     *)
(* runIdleCheck).  Which of its own type gives way is the next property.   *)
UrgentEventHeard ==
    \A e \in Event :
      (/\ e \in queue /\ e.type \notin Skipped
       /\ \A type \in EventTypes : Urgency[e.type] <= Urgency[type])
        ~> \/ [origin |-> "event", of |-> e.at] \in board
           \/ /\ e \notin queue /\ Cardinality(queue) = MaxQueueSize
              /\ \A f \in queue : f.type = e.type

(* "Trim the queue to maxQueueSize by dropping oldest low-priority events" *)
(* (events.ts, 409; also 172 and 213): of the events of one type, those    *)
(* that an emit() drops are older than those that it leaves.               *)
OldestDropped ==
    [][\A type \in EventTypes :
         Emit(type) =>
           \A e \in (queue \cup {[type |-> type, at |-> emitted']}) \ queue',
              f \in queue' :
             e.type = f.type => e.at < f.at]_idleVars

(* The goal that is next gets its task, unless it is closed, blocked or    *)
(* overtaken first; a goal that is in progress does not stand in its own   *)
(* way (deep-loop-events.ts checkGoalStack).                               *)
NextGoalIsTried ==
    \A id \in 1..MaxGoals :
      (\E g \in NextGoals : g.id = id)
        ~> \/ [origin |-> "goal", of |-> id] \in board
           \/ ~ \E g \in NextGoals : g.id = id
=============================================================================
