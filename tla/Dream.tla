------------------------------- MODULE Dream -------------------------------
(***************************************************************************)
(* The dream cycle (src/dual-loop/dream-scheduler.ts and the phases of     *)
(* src/autonomous/dream/runner.ts that change shared state), which runs    *)
(* between the awaits of the DeepLoop: goals are reorganized, issues filed *)
(* for what is fragile or fails, and experiments made on the working tree. *)
(* preempt() has no caller, so a cycle that has begun is not preempted.    *)
(***************************************************************************)
EXTENDS IdleWork, IssueLog, Autoresearch

VARIABLES
    dream,      \* how far the scheduler is
    dreamt      \* lastDreamDate is today

dreamVars == <<dream, dreamt>>
vars == <<idleVars, issueVars, researchVars, dreamVars>>

Init ==
    /\ IdleInit /\ IssueInit /\ ResearchInit
    /\ dream = "awake" /\ dreamt = FALSE

-----------------------------------------------------------------------------
(* check(): once a day, when two checks that are far enough apart find the *)
(* board empty and none between them finds it not.                         *)
Doze ==
    /\ dream = "awake" /\ ~dreamt /\ board = {}
    /\ dream' = "dozing"
    /\ UNCHANGED <<idleVars, issueVars, researchVars, dreamt>>

Rouse ==
    /\ dream = "dozing" /\ ~dreamt /\ board # {}
    /\ dream' = "awake"
    /\ UNCHANGED <<idleVars, issueVars, researchVars, dreamt>>

(* runDreamCycle() loads the issue log again; reading the file is one step *)
(* here.                                                                   *)
FallAsleep ==
    /\ dream = "dozing" /\ ~dreamt /\ board = {}
    /\ LoadIssues
    /\ dream' = "loaded"
    /\ UNCHANGED <<idleVars, researchVars, dreamt>>

-----------------------------------------------------------------------------
GoalPriority == [critical |-> 2, high |-> 3, medium |-> 5, low |-> 7]

(* A goal for an issue that no open goal names, by its id or its title.    *)
WithGoalFor(st, i) ==
    IF \E g \in OpenOf(st.goals) : g.about.id = i.id \/ g.about.title = i.title
    THEN st
    ELSE WithGoal(st, "self", GoalPriority[TitlePriority[i.title]],
                  [id |-> i.id, title |-> i.title])

(* ... for one issue after another.                                        *)
WithGoalsFor(st, issues) ==
    LET after[k \in 0..Len(issues)] ==
            IF k = 0 THEN st ELSE WithGoalFor(after[k - 1], issues[k])
    IN after[Len(issues)]

(* The open goals of a stack's first n: those not updated for some time.   *)
StaleGoals(n) == OpenOf(SubSeq(stack.goals, 1, n))

(* reorganizeGoals(): stale goals are removed, and every open issue gets a *)
(* goal, the gravest first.  The goal in hand was updated when its task    *)
(* was made.                                                               *)
Reorganize ==
    /\ dream = "loaded"
    /\ \E n \in 0..Len(stack.goals) :
         LET stale == StaleGoals(n)
             kept == {k \in DOMAIN stack.goals : stack.goals[k] \notin stale}
             rest == [stack EXCEPT !.goals = Filtered(@, kept)]
         IN /\ \A g \in stale : [origin |-> "goal", of |-> g.id] \notin board
            /\ stack' = WithGoalsFor(rest, ByGravity)
    /\ stack'.nextId <= MaxGoals + 1
    /\ dream' = "reorganized"
    /\ UNCHANGED <<queue, emitted, board, inHand, asked,
                   issueVars, researchVars, dreamt>>

(* The exploration finds fragile code, and files it if no issue, open or   *)
(* closed, is about it.                                                    *)
Explore ==
    /\ dream = "reorganized"
    /\ \/ UNCHANGED issueVars
       \/ /\ "fragile" \in Titles
          /\ \A i \in IssuesOf(log) : i.title # "fragile"
          /\ FileIssue("fragile")
    /\ dream' = "explored"
    /\ UNCHANGED <<idleVars, researchVars, dreamt>>

(* runCiHealthCheck(), once the tests have run: a failure that no open     *)
(* issue is about is filed, with a goal to fix it that names no issue.     *)
HealthCheck ==
    /\ dream = "explored"
    /\ \/ UNCHANGED <<issueVars, stack>>
       \/ /\ "test" \in Titles
          /\ \A i \in OpenIssues : i.title # "test"
          /\ FileIssue("test")
          /\ AddGoal("self", 2, NoIssue)
    /\ dream' = "checked"
    /\ UNCHANGED <<queue, emitted, board, inHand, asked, researchVars, dreamt>>

(* generateHypotheses(): one for each open issue about a test or fragile   *)
(* code; with none there is no research.                                   *)
Research ==
    /\ dream = "checked"
    /\ LET ideas == Cardinality({i \in OpenIssues : i.title \in {"test", "fragile"}})
       IN /\ StartResearch(IF ideas < MaxExperiments THEN ideas ELSE MaxExperiments)
          /\ dream' = IF ideas > 0 THEN "researching" ELSE "resting"
    /\ UNCHANGED <<idleVars, issueVars, dreamt>>

Experiments ==
    /\ dream = "researching"
    /\ ExperimentStep
    /\ UNCHANGED <<idleVars, issueVars, dreamVars>>

(* The cycle is over; when the ledger could not be written after the       *)
(* experiments, the date is not set and the next check starts another.     *)
WakeUp ==
    /\ \/ dream = "resting" /\ dreamt' = TRUE
       \/ /\ dream = "researching" /\ trial = "none" /\ left = 0
          /\ dreamt' \in {TRUE, dreamt}
    /\ dream' = "awake"
    /\ UNCHANGED <<idleVars, issueVars, researchVars>>

NewDay ==
    /\ dreamt
    /\ dreamt' = FALSE
    /\ UNCHANGED <<idleVars, issueVars, researchVars, dream>>

DreamStep ==
    \/ Doze \/ Rouse \/ FallAsleep
    \/ Reorganize \/ Explore \/ HealthCheck \/ Research \/ Experiments \/ WakeUp

-----------------------------------------------------------------------------
IdleStep(A) == A /\ UNCHANGED <<issueVars, researchVars, dreamVars>>

(* The tools of the agent that works on a task: issues and files.          *)
AgentActs ==
    /\ inHand # {}
    /\ \/ /\ \/ \E title \in Titles : FileIssue(title)
             \/ \E i \in IssuesOf(log) : ResolveIssue(i)
          /\ UNCHANGED researchVars
       \/ /\ WorkEdits \/ GitAdd \/ Commit
          /\ UNCHANGED issueVars
    /\ UNCHANGED <<idleVars, dreamVars>>

(* The save timer.                                                         *)
SaveIssues ==
    /\ StartIssueSave \/ EndIssueSave
    /\ UNCHANGED <<idleVars, researchVars, dreamVars>>

(* getStatusReport('issues'): somebody asks for the list of issues.        *)
ShowIssues ==
    /\ LoadIssues
    /\ UNCHANGED <<idleVars, researchVars, dreamVars>>

Next ==
    \/ IdleStep(IdleNext)
    \/ AgentActs \/ SaveIssues \/ ShowIssues
    \/ DreamStep \/ NewDay

Spec == Init /\ [][Next]_vars
-----------------------------------------------------------------------------
(* Types: what the stores and the scheduler hold.                          *)
TypeOK ==
    /\ IdleTypeOK
    /\ log \in Log /\ logFile \in Log /\ logDirty \in BOOLEAN /\ logSave \subseteq Log
    /\ saves \in 0..MaxSaves
    /\ ResearchTypeOK
    /\ dream \in {"awake", "dozing", "loaded", "reorganized", "explored",
                 "checked", "researching", "resting"}
    /\ dreamt \in BOOLEAN

(* At most one open issue is about the same thing, whoever files it and    *)
(* whatever the log is loaded from (issue-log.ts fileIssue).               *)
NoDuplicateIssue ==
    \A i, j \in OpenIssues : i.title = j.title => i = j

(* A grave issue is closed by an agent that works on a task and by nothing *)
(* else: room for what a dream finds is made at the cost of issues of low  *)
(* priority only (issue-log.ts fileIssue).  Loading the log again is       *)
(* another matter.                                                         *)
GraveIssuesStay ==
    [][inHand = {} /\ log' # logFile =>
         \A i \in OpenIssues :
           TitlePriority[i.title] # "low" =>
             \E j \in IssuesOf(log') : j.id = i.id /\ j.open]_vars

(* The positions of the open goals that a step takes off the stack, and    *)
(* the step of the dream that tidies the stack up.                         *)
OpenGone == {k \in DOMAIN stack.goals :
               /\ IsOpen(stack.goals[k])
               /\ \A h \in Goals' : h.id # stack.goals[k].id}
Reorganizing == dream = "loaded" /\ dream' = "reorganized"

(* An open goal leaves the stack in two ways only: as one of the system's  *)
(* own that a full stack gives up for a new one, or as a stale one in the  *)
(* dream's reorganization, which leaves none that is staler.  The pruning  *)
(* that follows every new goal takes closed goals (goal-stack.ts addGoal,  *)
(* pruneOldGoals; runner.ts reorganizeGoals).                              *)
OpenGoalsStay ==
    [][stack' # stack => \A k \in OpenGone :
         \/ stack.goals[k].source = "self" /\ Cardinality(OpenGoals) >= MaxOpenGoals
         \/ Reorganizing /\ \A i \in 1..k : IsOpen(stack.goals[i]) => i \in OpenGone]_vars

(* While no task is in hand a goal of a user or an event is closed by      *)
(* nobody, and removed by the dream's reorganization only: neither a full  *)
(* stack that takes in more goals nor the goals that a dream adds close it *)
(* (goal-stack.ts addGoal; runner.ts reorganizeGoals, runCiHealthCheck).   *)
UsersGoalsStay ==
    [][stack' # stack /\ inHand = {} =>
         \A k \in DOMAIN stack.goals :
           IsOpen(stack.goals[k]) /\ stack.goals[k].source # "self" =>
             \/ \E h \in Goals' : h.id = stack.goals[k].id /\ IsOpen(h)
             \/ Reorganizing /\ k \in OpenGone]_vars

(* "stale goals get a flag, and the agent decides whether to reprioritize  *)
(* or prune them" (goal-stack.ts, 17-20): what a user asked for stays on   *)
(* the stack as long as no agent has a task in hand.                       *)
AgentDecides ==
    [][inHand = {} =>
         \A g \in OpenGoals : g.source = "user" =>
           \E h \in Goals' : h.id = g.id]_vars
=============================================================================
