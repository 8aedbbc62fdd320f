----------------------------- MODULE GoalStack -----------------------------
(***************************************************************************)
(* The GoalStack (src/autonomous/goal-stack.ts): what the system wants to  *)
(* work on next.  The goals are kept in the order of their last update,    *)
(* which is all that pruning and staleness ask of `updated'; ids grow, so  *)
(* they give the order of creation.  Texts and the count of attempts are   *)
(* left out; `about' is the issue that the description names.              *)
(***************************************************************************)
EXTENDS Integers, Sequences, FiniteSets, Ordered

CONSTANTS
    MaxOpenGoals,   \* config.maxOpenGoals
    MaxTotalGoals,  \* config.maxTotalGoals
    MaxGoals        \* bound: how many goals are ever added

ASSUME GoalAssumption ==
    /\ MaxOpenGoals \in Nat \ {0}
    /\ MaxTotalGoals \in Nat \ {0}
    /\ MaxGoals \in Nat

VARIABLE stack      \* data: the goals and the next id

GoalSource == {"user", "self", "event"}
GoalStatus == {"pending", "in_progress", "blocked", "done", "abandoned"}

(* What the issues that goals can be about are called; "none" is for none. *)
About == [id : Nat, title : {"none", "report", "test", "fragile"}]

Goal == [id : 1..MaxGoals, source : GoalSource, priority : Nat,
         status : GoalStatus, about : About]
NoIssue == [id |-> 0, title |-> "none"]

IsOpen(g) == g.status \notin {"done", "abandoned"}
InSeq(gs) == {gs[i] : i \in 1..Len(gs)}
OpenOf(gs) == {g \in InSeq(gs) : IsOpen(g)}

Goals == InSeq(stack.goals)
OpenGoals == OpenOf(stack.goals)

(* getOpenGoals(): the lower number first, then the older goal.            *)
Ahead(g, h) ==
    \/ g.priority < h.priority
    \/ g.priority = h.priority /\ g.id < h.id

MostUrgent(S) == CHOOSE g \in S : \A h \in S \ {g} : Ahead(g, h)

(* getNextGoal(): one in progress is gone on with, else the first pending. *)
NextGoals ==
    LET at(status) == {g \in OpenGoals : g.status = status}
    IN IF at("in_progress") # {} THEN {MostUrgent(at("in_progress"))}
       ELSE IF at("pending") # {} THEN {MostUrgent(at("pending"))} ELSE {}

(* Any update of a goal sets its `updated' to now.                         *)
Updated(gs, g) == Append(Filtered(gs, {i \in DOMAIN gs : gs[i].id # g.id}), g)

(* Mutant of Pruned: the oldest goals go, open or not.                     *)
PrunedAny(gs) ==
    IF Len(gs) <= MaxTotalGoals THEN gs
    ELSE SubSeq(gs, Len(gs) - MaxTotalGoals + 1, Len(gs))

(* pruneOldGoals(): beyond the total, the closed goals updated longest ago *)
(* go; open goals stay even if that is not enough.                         *)
Pruned(gs) ==
    LET excess == Len(gs) - MaxTotalGoals
        closedUpTo(i) == Cardinality({j \in 1..i : ~IsOpen(gs[j])})
    IN Filtered(gs, {i \in DOMAIN gs : IsOpen(gs[i]) \/ closedUpTo(i) > excess})

(* Mutant of Abandonable: any open goal makes room, the least urgent first.*)
AbandonableAny(gs) ==
    {g \in OpenOf(gs) : \A h \in OpenOf(gs) : h.priority <= g.priority}

(* The goals of the system's own that make room: the least urgent.         *)
Abandonable(gs) ==
    LET own == {g \in OpenOf(gs) : g.source = "self"}
    IN {g \in own : \A h \in own : h.priority <= g.priority}

(* addGoal(): at capacity a goal of the system's own is refused; a goal of *)
(* a user or an event has the oldest of the least urgent own goals         *)
(* abandoned, and is added in any case.                                    *)
WithGoal(st, source, priority, about) ==
    LET full == Cardinality(OpenOf(st.goals)) >= MaxOpenGoals
        room == IF full THEN Abandonable(st.goals) ELSE {}
        roomy == IF room = {} THEN st.goals
                 ELSE Updated(st.goals, [MostUrgent(room) EXCEPT !.status = "abandoned"])
        new == [id |-> st.nextId, source |-> source, priority |-> priority,
                status |-> "pending", about |-> about]
    IN IF full /\ source = "self" THEN st
       ELSE [goals |-> Pruned(Append(roomy, new)), nextId |-> st.nextId + 1]

AddGoal(source, priority, about) ==
    /\ stack' = WithGoal(stack, source, priority, about)
    /\ stack'.nextId <= MaxGoals + 1

(* updateGoalStatus(), completeGoal(): any status can follow any other.    *)
SetStatus(g, status) ==
    stack' = [stack EXCEPT !.goals = Updated(@, [g EXCEPT !.status = status])]

(* recordAttempt(), updateNotes(): only the time of the update counts.     *)
Touch(g) == stack' = [stack EXCEPT !.goals = Updated(@, g)]

GoalInit == stack = [goals |-> << >>, nextId |-> 1]
=============================================================================
