--------------------------- MODULE IdleWork_proofs ---------------------------
(***************************************************************************)
(* Proofs about the events and the goals, for any sizes of the queue and   *)
(* of the stack and any number of events, goals and tasks: the queue never *)
(* outgrows its limit, and which goals a full stack and its pruning may    *)
(* take.                                                                   *)
(***************************************************************************)
EXTENDS IdleWork, Ordered_proofs

-----------------------------------------------------------------------------
(* The queue of events *)

(* The types of events have an urgency each.                               *)
LEMMA UrgencyOrders ==
  /\ \A type \in DOMAIN Urgency : Urgency[type] \in Nat
  /\ \A t, u \in DOMAIN Urgency : Urgency[t] = Urgency[u] => t = u
BY DEF Urgency

(* So compareEventPriority() puts any two events in order.                 *)
LEMMA BeforeOrders ==
  /\ \A e, f \in Event : e # f => Before(e, f) \/ Before(f, e)
  /\ \A e, f, g \in Event : Before(e, f) /\ Before(f, g) => Before(e, g)
  /\ \A e \in Event : ~Before(e, e)
<1>1. \A e \in Event : /\ e.type \in DOMAIN Urgency /\ Urgency[e.type] \in Nat
                       /\ e.at \in Nat
  BY BusAssumption, UrgencyOrders DEF Event
<1>2. \A e, f \in Event : e.type = f.type /\ e.at = f.at => e = f
  BY DEF Event
<1>3. ASSUME NEW e \in Event, NEW f \in Event, e # f
      PROVE  Before(e, f) \/ Before(f, e)
  <2>1. CASE Urgency[e.type] = Urgency[f.type]
    BY <1>1, <1>2, <1>3, <2>1, UrgencyOrders DEF Before
  <2>2. CASE Urgency[e.type] # Urgency[f.type]
    BY <1>1, <2>2 DEF Before
  <2> QED
    BY <2>1, <2>2
<1>4. ASSUME NEW e \in Event, NEW f \in Event, NEW g \in Event,
             Before(e, f), Before(f, g)
      PROVE  Before(e, g)
  BY <1>1, <1>4 DEF Before
<1>5. \A e \in Event : ~Before(e, e)
  BY <1>1 DEF Before
<1> QED
  BY <1>3, <1>4, <1>5

(* The foremost n of some events are n events at most.                     *)
LEMMA ForemostFits ==
  ASSUME NEW S \in SUBSET Event, IsFiniteSet(S), NEW n \in Nat
  PROVE  /\ Foremost(n, S) \subseteq S
         /\ IsFiniteSet(Foremost(n, S))
         /\ Cardinality(Foremost(n, S)) <= n
<1> DEFINE ahead(e) == {f \in S : Before(f, e)}
           front == Foremost(n, S)
           place == [e \in front |-> Cardinality(ahead(e)) + 1]
<1>1. front = {e \in S : Cardinality(ahead(e)) < n}
  BY DEF Foremost
<1>2. \A e \in S : IsFiniteSet(ahead(e)) /\ Cardinality(ahead(e)) \in Nat
  <2> TAKE e \in S
  <2>1. ahead(e) \in SUBSET S
    OBVIOUS
  <2> HIDE DEF ahead
  <2> QED
    BY <2>1, FS_Subset, FS_CardinalityType
<1>3. ASSUME NEW e \in S, NEW f \in S, Before(e, f)
      PROVE  Cardinality(ahead(e)) < Cardinality(ahead(f))
  <2>1. ahead(e) \in SUBSET ahead(f) /\ e \in ahead(f) /\ e \notin ahead(e)
    BY <1>3, BeforeOrders
  <2>2. /\ Cardinality(ahead(e)) <= Cardinality(ahead(f))
        /\ Cardinality(ahead(f)) = Cardinality(ahead(e)) => ahead(f) = ahead(e)
    <3>1. IsFiniteSet(ahead(f))
      BY <1>2
    <3> HIDE DEF ahead
    <3> QED
      BY <2>1, <3>1, FS_Subset
  <2>3. Cardinality(ahead(e)) \in Nat /\ Cardinality(ahead(f)) \in Nat
    BY <1>2
  <2> HIDE DEF ahead
  <2> QED
    BY <2>1, <2>2, <2>3
<1> HIDE DEF ahead, front
<1>4. place \in [front -> 1..n]
  BY <1>1, <1>2
<1>5. ASSUME NEW e \in front, NEW f \in front, place[e] = place[f]
      PROVE  e = f
  <2>1. /\ e \in S /\ f \in S /\ e \in Event /\ f \in Event
        /\ Cardinality(ahead(e)) = Cardinality(ahead(f))
        /\ Cardinality(ahead(e)) \in Nat
    BY <1>1, <1>2, <1>5
  <2>2. ~Before(e, f) /\ ~Before(f, e)
    BY <1>3, <2>1
  <2> QED
    BY <2>1, <2>2, BeforeOrders
<1>6. place \in Injection(front, 1..n)
  BY <1>4, <1>5 DEF Injection, IsInjective
<1>7. IsFiniteSet(1..n) /\ Cardinality(1..n) = n
  BY FS_Interval
<1>8. IsFiniteSet(front) /\ Cardinality(front) <= n
  <2> HIDE DEF place
  <2> QED
    BY <1>6, <1>7, FS_Injection
<1> QED
  BY <1>1, <1>8 DEF front

(* What the queue keeps to.                                                *)
QueueOK ==
    /\ queue \in SUBSET Event
    /\ IsFiniteSet(queue)
    /\ Cardinality(queue) <= MaxQueueSize
    /\ emitted \in 0..MaxEmitted

(* A new event is trimmed to the limit, drained ones leave the rest.       *)
LEMMA EmitKeepsQueue ==
  ASSUME QueueOK, NEW type \in EventTypes, Emit(type)
  PROVE  QueueOK'
<1> DEFINE new == [type |-> type, at |-> emitted + 1]
           more == queue \cup {new}
<1>1. /\ emitted' \in 0..MaxEmitted /\ new \in Event
      /\ queue' = Foremost(MaxQueueSize, more)
  BY BusAssumption DEF QueueOK, Emit, Trimmed, Event
<1> HIDE DEF new
<1>2. more \in SUBSET Event /\ IsFiniteSet(more)
  BY <1>1, FS_AddElement DEF QueueOK
<1> HIDE DEF more
<1> QED
  BY <1>1, <1>2, ForemostFits, BusAssumption DEF QueueOK

(* drain() takes events out of the queue and puts in none.                 *)
LEMMA DrainKeepsQueue ==
  ASSUME QueueOK, queue' = queue \ Drained(EventsPerCheck), emitted' = emitted
  PROVE  QueueOK' /\ Drained(EventsPerCheck) \subseteq queue
<1>1. queue' \in SUBSET queue
  OBVIOUS
<1>2. IsFiniteSet(queue') /\ Cardinality(queue') <= Cardinality(queue)
  BY <1>1, FS_Subset DEF QueueOK
<1>3. Cardinality(queue) \in Nat /\ Cardinality(queue') \in Nat
  BY <1>2, FS_CardinalityType DEF QueueOK
<1> QED
  BY <1>1, <1>2, <1>3, BusAssumption DEF QueueOK, Drained, Foremost

-----------------------------------------------------------------------------
(* The stack of goals.  A fold over the stack may go past MaxGoals before  *)
(* the guard of its action sees it, hence the unbounded ids.               *)
AnyGoal == [id : Nat \ {0}, source : GoalSource, priority : Nat,
            status : GoalStatus, about : About]

GoalsOK(gs) == gs \in Seq(AnyGoal) /\ DistinctIds(gs)

StackOK(st) ==
    /\ st \in [goals : Seq(AnyGoal), nextId : Nat \ {0}]
    /\ DistinctIds(st.goals)
    /\ \A g \in InSeq(st.goals) : g.id < st.nextId

(* InSeq() is the set of a sequence's elements.                            *)
LEMMA InSeqIsRange ==
  ASSUME NEW T, NEW gs \in Seq(T)
  PROVE  InSeq(gs) = Range(gs) /\ InSeq(gs) \subseteq T
BY DEF InSeq, Range

(* What the fields of a goal are.                                          *)
LEMMA GoalFields ==
  ASSUME NEW gs, GoalsOK(gs)
  PROVE  \A g \in InSeq(gs) : g \in AnyGoal /\ g.priority \in Nat /\ g.id \in Nat \ {0}
<1>1. \A g \in InSeq(gs) : g \in AnyGoal
  BY InSeqIsRange DEF GoalsOK
<1> QED
  BY <1>1 DEF AnyGoal

(* Some goals have a most urgent one.                                      *)
LEMMA MostUrgentIsOne ==
  ASSUME NEW gs, GoalsOK(gs), NEW S \in SUBSET InSeq(gs), S # {}
  PROVE  MostUrgent(S) \in S
<1> DEFINE priorities == {g.priority : g \in S}
<1>1. \A g \in S : g.priority \in Nat /\ g.id \in Nat
  BY GoalFields
<1>2. PICK p \in priorities : \A q \in priorities : p <= q
  <2>1. priorities \in SUBSET Nat /\ priorities # {}
    BY <1>1
  <2> HIDE DEF priorities
  <2> QED
    BY <2>1, LeastElement
<1> DEFINE ids == {g.id : g \in {h \in S : h.priority = p}}
<1>3. PICK i \in ids : \A j \in ids : i <= j
  <2>1. ids \in SUBSET Nat /\ ids # {}
    BY <1>1
  <2> HIDE DEF ids
  <2> QED
    BY <2>1, LeastElement
<1>4. PICK g \in S : g.priority = p /\ g.id = i
  BY <1>3
<1>5. ASSUME NEW h \in S \ {g}
      PROVE  Ahead(g, h)
  <2>1. h.priority \in priorities
    OBVIOUS
  <2>2. p <= h.priority /\ h.priority \in Nat /\ p \in Nat /\ h.id \in Nat /\ i \in Nat
    BY <1>1, <1>2, <1>4, <2>1
  <2>3. CASE h.priority = p
    <3>1. i <= h.id
      BY <1>3, <2>3
    <3>2. h.id # g.id
      BY <1>4, OneOfEachId, InSeqIsRange DEF GoalsOK
    <3> QED
      BY <1>4, <2>2, <2>3, <3>1, <3>2 DEF Ahead
  <2>4. CASE h.priority # p
    BY <1>4, <2>2, <2>4 DEF Ahead
  <2> QED
    BY <2>3, <2>4
<1> QED
  BY <1>5 DEF MostUrgent

(* An update puts one goal in the place of that with its id.               *)
LEMMA UpdatedGoals ==
  ASSUME NEW gs, GoalsOK(gs), NEW g \in AnyGoal
  PROVE  /\ GoalsOK(Updated(gs, g))
         /\ InSeq(Updated(gs, g)) = {h \in InSeq(gs) : h.id # g.id} \cup {g}
<1>1. /\ Updated(gs, g) \in Seq(AnyGoal)
      /\ DistinctIds(Updated(gs, g))
      /\ Range(Updated(gs, g)) = {h \in Range(gs) : h.id # g.id} \cup {g}
  BY OneRewritten DEF GoalsOK, Updated
<1> QED
  BY <1>1, InSeqIsRange DEF GoalsOK

(* A goal of a new id joins the others.                                    *)
LEMMA AddedGoal ==
  ASSUME NEW gs, GoalsOK(gs), NEW g \in AnyGoal, \A h \in InSeq(gs) : h.id # g.id
  PROVE  /\ GoalsOK(Append(gs, g))
         /\ InSeq(Append(gs, g)) = InSeq(gs) \cup {g}
<1>1. \A h \in Range(gs) : h.id # g.id
  BY InSeqIsRange DEF GoalsOK
<1>2. Append(gs, g) \in Seq(AnyGoal) /\ DistinctIds(Append(gs, g))
  BY <1>1, AppendedId DEF GoalsOK
<1>3. Range(Append(gs, g)) = Range(gs) \cup {g}
  BY RangeAppend DEF GoalsOK
<1> QED
  BY <1>2, <1>3, InSeqIsRange DEF GoalsOK

(* Goals filtered out leave the others as they are.                        *)
LEMMA FilteredGoals ==
  ASSUME NEW gs, GoalsOK(gs), NEW places \in SUBSET (DOMAIN gs)
  PROVE  /\ GoalsOK(Filtered(gs, places))
         /\ InSeq(Filtered(gs, places)) = {gs[i] : i \in places}
<1>1. /\ Filtered(gs, places) \in Seq(AnyGoal)
      /\ Range(Filtered(gs, places)) = {gs[i] : i \in places}
      /\ DistinctIds(Filtered(gs, places))
  BY FilteredKeeps, FilteredIds DEF GoalsOK
<1> QED
  BY <1>1, InSeqIsRange DEF GoalsOK

(* Pruning takes no goal that is open (goal-stack.ts, pruneOldGoals).      *)
LEMMA PrunedGoals ==
  ASSUME NEW gs, GoalsOK(gs)
  PROVE  /\ GoalsOK(Pruned(gs))
         /\ InSeq(Pruned(gs)) \subseteq InSeq(gs)
         /\ OpenOf(gs) \subseteq InSeq(Pruned(gs))
<1> DEFINE closedUpTo(i) == Cardinality({j \in 1..i : ~IsOpen(gs[j])})
           kept == {i \in DOMAIN gs : \/ IsOpen(gs[i])
                                      \/ closedUpTo(i) > Len(gs) - MaxTotalGoals}
<1>1. Pruned(gs) = Filtered(gs, kept)
  BY Zenon DEF Pruned
<1>2. kept \in SUBSET (DOMAIN gs) /\ \A i \in DOMAIN gs : IsOpen(gs[i]) => i \in kept
  OBVIOUS
<1> HIDE DEF kept
<1>3. GoalsOK(Pruned(gs)) /\ InSeq(Pruned(gs)) = {gs[i] : i \in kept}
  BY <1>1, <1>2, FilteredGoals
<1>4. InSeq(gs) = {gs[i] : i \in DOMAIN gs}
  BY DEF InSeq, GoalsOK
<1> QED
  BY <1>2, <1>3, <1>4 DEF OpenOf

(* addGoal(): what becomes of a stack.  A goal that is open stays as it is *)
(* unless it is of the system's own and the stack is full.                 *)
LEMMA WithGoalKeeps ==
  ASSUME NEW st, StackOK(st), NEW source \in GoalSource, NEW priority \in Nat,
         NEW about \in About
  PROVE  LET new == WithGoal(st, source, priority, about)
         IN  /\ StackOK(new)
             /\ new.nextId \in {st.nextId, st.nextId + 1}
             /\ \A g \in OpenOf(st.goals) :
                  \/ g \in InSeq(new.goals)
                  \/ /\ g.source = "self"
                     /\ Cardinality(OpenOf(st.goals)) >= MaxOpenGoals
<1> DEFINE gs == st.goals
           full == Cardinality(OpenOf(gs)) >= MaxOpenGoals
           room == IF full THEN Abandonable(gs) ELSE {}
           given_up == [MostUrgent(room) EXCEPT !.status = "abandoned"]
           roomy == IF room = {} THEN gs ELSE Updated(gs, given_up)
           goal == [id |-> st.nextId, source |-> source, priority |-> priority,
                    status |-> "pending", about |-> about]
           result == WithGoal(st, source, priority, about)
<1>1. result = IF full /\ source = "self" THEN st
               ELSE [goals |-> Pruned(Append(roomy, goal)), nextId |-> st.nextId + 1]
  BY Zenon DEF WithGoal
<1>2. /\ GoalsOK(gs) /\ st.nextId \in Nat \ {0}
      /\ \A g \in InSeq(gs) : g \in AnyGoal /\ g.id < st.nextId
  <2>1. GoalsOK(gs)
    BY DEF StackOK, GoalsOK
  <2> QED
    BY <2>1, InSeqIsRange DEF StackOK, GoalsOK
<1>3. room \in SUBSET InSeq(gs) /\ \A g \in room : g.source = "self" /\ full
  BY DEF Abandonable, OpenOf
<1> HIDE DEF result, room
<1>4. ASSUME room # {}
      PROVE  /\ GoalsOK(roomy)
             /\ \A h \in InSeq(roomy) : h.id < st.nextId
             /\ \A g \in InSeq(gs) : (g.source = "self" /\ full) \/ g \in InSeq(roomy)
  <2> DEFINE one == MostUrgent(room)
  <2>1. one \in room
    BY <1>2, <1>3, <1>4, MostUrgentIsOne
  <2>2. one \in AnyGoal /\ one.id < st.nextId /\ one \in InSeq(gs)
    BY <1>2, <1>3, <2>1
  <2> HIDE DEF one
  <2>3. /\ [one EXCEPT !.status = "abandoned"] \in AnyGoal
        /\ [one EXCEPT !.status = "abandoned"].id = one.id
    BY <2>2 DEF AnyGoal, GoalStatus
  <2>4. given_up \in AnyGoal /\ given_up.id = one.id
    BY <2>3 DEF one
  <2> HIDE DEF given_up
  <2>5. /\ GoalsOK(roomy)
        /\ InSeq(roomy) = {h \in InSeq(gs) : h.id # one.id} \cup {given_up}
    BY <1>2, <1>4, <2>4, UpdatedGoals
  <2>6. \A g \in InSeq(gs) : g.id = one.id => g = one
    BY <1>2, <2>2, OneOfEachId, InSeqIsRange DEF GoalsOK
  <2> HIDE DEF roomy, gs
  <2> QED
    BY <1>2, <1>3, <2>1, <2>2, <2>4, <2>5, <2>6
<1>5. /\ GoalsOK(roomy)
      /\ \A h \in InSeq(roomy) : h.id < st.nextId
      /\ \A g \in InSeq(gs) : (g.source = "self" /\ full) \/ g \in InSeq(roomy)
  BY <1>2, <1>4
<1> HIDE DEF roomy
<1>6. goal \in AnyGoal /\ goal.id = st.nextId
  BY <1>2 DEF AnyGoal, GoalStatus
<1> HIDE DEF goal
<1>7. /\ GoalsOK(Append(roomy, goal))
      /\ InSeq(Append(roomy, goal)) = InSeq(roomy) \cup {goal}
  <2>1. \A h \in InSeq(roomy) : h.id \in Nat
    BY <1>5, GoalFields
  <2>2. \A h \in InSeq(roomy) : h.id # goal.id
    BY <1>2, <1>5, <1>6, <2>1
  <2> QED
    BY <1>5, <1>6, <2>2, AddedGoal
<1> DEFINE more == Append(roomy, goal)
<1> HIDE DEF more
<1>8. /\ GoalsOK(Pruned(more))
      /\ InSeq(Pruned(more)) \subseteq InSeq(more)
      /\ OpenOf(more) \subseteq InSeq(Pruned(more))
  BY <1>7, PrunedGoals DEF more
<1>9. CASE full /\ source = "self"
  BY <1>1, <1>9 DEF result, OpenOf
<1>10. CASE ~(full /\ source = "self")
  <2>1. result = [goals |-> Pruned(more), nextId |-> st.nextId + 1]
    BY <1>1, <1>10 DEF more
  <2>2. StackOK(result)
    <3>1. \A h \in InSeq(more) : h.id \in Nat /\ h.id < st.nextId + 1
      <4>1. \A h \in InSeq(more) : h.id \in Nat
        BY <1>7, GoalFields DEF more
      <4> QED
        BY <1>2, <1>5, <1>6, <1>7, <4>1 DEF more
    <3> QED
      BY <1>2, <1>8, <2>1, <3>1 DEF StackOK, GoalsOK
  <2>3. ASSUME NEW g \in OpenOf(gs)
        PROVE  g \in InSeq(Pruned(more)) \/ (g.source = "self" /\ full)
    BY <1>5, <1>7, <1>8, <2>3 DEF OpenOf, more
  <2> HIDE DEF full, gs
  <2> QED
    BY <2>1, <2>2, <2>3 DEF result, full, gs
<1> QED
  BY <1>9, <1>10

(* A stack that has only got more goals, later ones, and lost closed ones. *)
Grown(st, new) ==
    /\ OpenOf(st.goals) \subseteq InSeq(new.goals)
    /\ \A h \in InSeq(new.goals) : h \in InSeq(st.goals) \/ st.nextId <= h.id
    /\ st.nextId <= new.nextId

(* It may lose and get more.                                               *)
LEMMA GrownOn ==
  ASSUME NEW st, NEW mid, NEW new, StackOK(st), StackOK(mid), StackOK(new),
         Grown(st, mid), Grown(mid, new)
  PROVE  Grown(st, new)
<1>1. /\ GoalsOK(new.goals) /\ GoalsOK(mid.goals)
      /\ st.nextId \in Nat /\ mid.nextId \in Nat /\ new.nextId \in Nat
  BY DEF StackOK, GoalsOK
<1>2. /\ \A h \in InSeq(new.goals) : h.id \in Nat
      /\ \A h \in InSeq(mid.goals) : h.id \in Nat
  BY <1>1, GoalFields
<1> QED
  BY <1>1, <1>2 DEF Grown, OpenOf

(* addGoal() of one of the system's own: a full stack refuses it, and no   *)
(* other goal is touched.                                                  *)
LEMMA OwnGoalAdds ==
  ASSUME NEW st, StackOK(st), NEW priority \in Nat, NEW about \in About
  PROVE  Grown(st, WithGoal(st, "self", priority, about))
<1> DEFINE gs == st.goals
           full == Cardinality(OpenOf(gs)) >= MaxOpenGoals
           goal == [id |-> st.nextId, source |-> "self", priority |-> priority,
                    status |-> "pending", about |-> about]
           more == Append(gs, goal)
           result == WithGoal(st, "self", priority, about)
<1>1. result = IF full THEN st
               ELSE [goals |-> Pruned(more), nextId |-> st.nextId + 1]
  BY Zenon DEF WithGoal
<1>2. GoalsOK(gs) /\ st.nextId \in Nat \ {0} /\ \A h \in InSeq(gs) : h.id < st.nextId
  BY DEF StackOK, GoalsOK
<1>3. goal \in AnyGoal /\ goal.id = st.nextId
  BY <1>2 DEF AnyGoal, GoalStatus, GoalSource
<1> HIDE DEF goal, result, full
<1>4. GoalsOK(more) /\ InSeq(more) = InSeq(gs) \cup {goal}
  <2>1. \A h \in InSeq(gs) : h.id \in Nat
    BY <1>2, GoalFields
  <2>2. \A h \in InSeq(gs) : h.id # goal.id
    BY <1>2, <1>3, <2>1
  <2> QED
    BY <1>2, <1>3, <2>2, AddedGoal
<1> HIDE DEF more
<1>5. InSeq(Pruned(more)) \subseteq InSeq(more) /\ OpenOf(more) \subseteq InSeq(Pruned(more))
  BY <1>4, PrunedGoals
<1>6. CASE full
  BY <1>1, <1>2, <1>6 DEF Grown, OpenOf, result
<1>7. CASE ~full
  <2>1. result.goals = Pruned(more) /\ result.nextId = st.nextId + 1
    BY <1>1, <1>7
  <2>2. OpenOf(gs) \subseteq InSeq(result.goals)
    BY <1>4, <1>5, <2>1 DEF OpenOf
  <2>3. \A h \in InSeq(result.goals) : h \in InSeq(gs) \/ st.nextId <= h.id
    BY <1>2, <1>3, <1>4, <1>5, <2>1
  <2> QED
    BY <1>2, <2>1, <2>2, <2>3 DEF Grown, result
<1> QED
  BY <1>6, <1>7

-----------------------------------------------------------------------------
(* What the idle loop keeps to.                                            *)
BoardOK ==
    /\ board \subseteq Task
    /\ inHand = {} \/ \E t \in board : inHand = {t}
    /\ asked \in 0..MaxUserTasks

GoalsInv == StackOK(stack) /\ stack.nextId <= MaxGoals + 1

IdleInv == QueueOK /\ GoalsInv /\ BoardOK

(* What the actions may do to a goal that is open: it keeps its id and its *)
(* source, and while no task is in hand its status too.                    *)
GoalKept(g) ==
    \/ \E h \in Goals' : /\ h.id = g.id /\ h.source = g.source
                         /\ inHand = {} => h = g
    \/ g.source = "self" /\ Cardinality(OpenGoals) >= MaxOpenGoals

GoalsKept == \A g \in OpenGoals : GoalKept(g)

(* The goals in the stack are goals.                                       *)
LEMMA GoalsTyped ==
  ASSUME GoalsInv
  PROVE  /\ GoalsOK(stack.goals)
         /\ \A g \in Goals : g \in AnyGoal /\ g.id < stack.nextId
         /\ OpenGoals \subseteq Goals
<1>1. GoalsOK(stack.goals)
  BY DEF GoalsInv, StackOK, GoalsOK
<1> QED
  BY <1>1, InSeqIsRange DEF GoalsInv, StackOK, GoalsOK, Goals, OpenGoals, OpenOf

(* Actions that leave the stack alone leave the goals alone.               *)
LEMMA SameGoals ==
  ASSUME stack' = stack
  PROVE  GoalsKept
BY DEF GoalsKept, GoalKept, OpenGoals, OpenOf, Goals

(* An update keeps the stack in order, and every goal but the one updated. *)
LEMMA UpdateKeepsGoals ==
  ASSUME GoalsInv, NEW g \in Goals, NEW new \in AnyGoal,
         new.id = g.id, new.source = g.source, inHand = {} => new = g,
         stack' = [stack EXCEPT !.goals = Updated(@, new)]
  PROVE  GoalsInv' /\ GoalsKept
<1>1. /\ GoalsOK(stack.goals) /\ OpenGoals \subseteq Goals
      /\ g.id < stack.nextId
      /\ \A h \in Goals : h \in AnyGoal /\ h.id < stack.nextId
  BY GoalsTyped
<1>2. /\ GoalsOK(Updated(stack.goals, new))
      /\ InSeq(Updated(stack.goals, new)) = {h \in Goals : h.id # new.id} \cup {new}
  BY <1>1, UpdatedGoals DEF Goals
<1>3. /\ stack'.goals = Updated(stack.goals, new) /\ stack'.nextId = stack.nextId
      /\ stack' \in [goals : Seq(AnyGoal), nextId : Nat \ {0}]
  BY <1>2 DEF GoalsInv, StackOK, GoalsOK
<1>4. GoalsInv'
  BY <1>1, <1>2, <1>3 DEF GoalsInv, StackOK, GoalsOK
<1>5. ASSUME NEW h \in OpenGoals
      PROVE  GoalKept(h)
  <2>1. CASE h.id # g.id
    BY <1>1, <1>2, <1>3, <2>1 DEF GoalKept, Goals
  <2>2. CASE h.id = g.id
    <3>1. h = g
      BY <1>1, <2>2, OneOfEachId, InSeqIsRange DEF GoalsOK, Goals
    <3> QED
      BY <1>2, <1>3, <3>1 DEF GoalKept, Goals
  <2> QED
    BY <2>1, <2>2
<1> QED
  BY <1>4, <1>5 DEF GoalsKept

(* A goal that is touched is updated and nothing else.                     *)
LEMMA TouchKeepsGoals ==
  ASSUME GoalsInv, NEW g \in Goals, Touch(g)
  PROVE  GoalsInv' /\ GoalsKept
BY GoalsTyped, UpdateKeepsGoals DEF Touch

(* A status that is set keeps the stack in order and loses no goal.        *)
LEMMA StatusKeepsGoals ==
  ASSUME GoalsInv, inHand # {}, NEW g \in Goals, NEW status \in GoalStatus,
         SetStatus(g, status)
  PROVE  GoalsInv' /\ GoalsKept
<1> DEFINE new == [g EXCEPT !.status = status]
<1>1. new \in AnyGoal /\ new.id = g.id /\ new.source = g.source
  BY GoalsTyped DEF AnyGoal
<1>2. stack' = [stack EXCEPT !.goals = Updated(@, new)]
  BY DEF SetStatus
<1> HIDE DEF new
<1> QED
  BY <1>1, <1>2, UpdateKeepsGoals

(* Nor does a goal that is added, pruning included.                        *)
LEMMA AddingKeepsGoals ==
  ASSUME GoalsInv, NEW source \in GoalSource, NEW priority \in Nat,
         NEW about \in About,
         AddGoal(source, priority, about)
  PROVE  GoalsInv' /\ GoalsKept
<1>1. /\ stack' = WithGoal(stack, source, priority, about)
      /\ stack'.nextId <= MaxGoals + 1
  BY DEF AddGoal
<1>2. /\ StackOK(stack')
      /\ \A g \in OpenOf(stack.goals) :
           \/ g \in InSeq(stack'.goals)
           \/ /\ g.source = "self"
              /\ Cardinality(OpenOf(stack.goals)) >= MaxOpenGoals
  BY <1>1, WithGoalKeeps, Zenon DEF GoalsInv
<1>3. GoalsInv'
  BY <1>1, <1>2 DEF GoalsInv, StackOK
<1> QED
  BY <1>2, <1>3 DEF GoalsKept, GoalKept, OpenGoals, Goals

-----------------------------------------------------------------------------
(* IdleInv holds at the start, and every action keeps it and the goals.    *)
LEMMA InitIdle ==
  ASSUME IdleInit
  PROVE  IdleInv
<1>1. QueueOK
  BY FS_EmptySet, BusAssumption DEF IdleInit, BusInit, QueueOK
<1>2. GoalsInv
  BY GoalAssumption DEF IdleInit, GoalInit, GoalsInv, StackOK, DistinctIds, InSeq
<1>3. BoardOK
  BY IdleAssumption DEF IdleInit, BoardOK
<1> QED
  BY <1>1, <1>2, <1>3 DEF IdleInv

(* An idle check makes tasks of what it has taken from the queue, or of a  *)
(* goal that is in the stack.                                              *)
LEMMA CheckKeeps ==
  ASSUME IdleInv, IdleCheck
  PROVE  IdleInv' /\ GoalsKept
<1> DEFINE taken == Drained(EventsPerCheck)
           picked == IF TasksOf(taken) = {} /\ ~HasGoalTask THEN NextGoals ELSE {}
<1>1. /\ board = {} /\ queue' = queue \ taken
      /\ board' = TasksOf(taken) \cup {[origin |-> "goal", of |-> g.id] : g \in picked}
      /\ IF picked = {} THEN UNCHANGED stack ELSE \E g \in picked : Touch(g)
      /\ emitted' = emitted /\ inHand' = inHand /\ asked' = asked
  BY DEF IdleCheck
<1>2. QueueOK' /\ taken \subseteq queue
  BY <1>1, DrainKeepsQueue DEF IdleInv
<1>3. picked \subseteq Goals
  <2>1. \A S \in SUBSET Goals : S # {} => MostUrgent(S) \in S
    BY GoalsTyped, MostUrgentIsOne DEF IdleInv, Goals
  <2>2. OpenGoals \subseteq Goals
    BY GoalsTyped DEF IdleInv
  <2> QED
    BY <2>1, <2>2 DEF NextGoals
<1>4. TasksOf(taken) \subseteq Task
  <2>1. \A e \in queue : e.at \in Nat
    BY BusAssumption DEF IdleInv, QueueOK, Event
  <2> QED
    BY <1>2, <2>1 DEF TasksOf, Task
<1> HIDE DEF picked, taken
<1>5. {[origin |-> "goal", of |-> g.id] : g \in picked} \subseteq Task
  <2>1. \A g \in picked : g.id \in Nat
    BY <1>3, GoalsTyped, GoalFields DEF IdleInv, Goals
  <2> QED
    BY <2>1 DEF Task
<1>6. BoardOK'
  BY <1>1, <1>4, <1>5 DEF IdleInv, BoardOK
<1>7. GoalsInv' /\ GoalsKept
  <2>1. CASE stack' = stack
    BY <2>1, SameGoals DEF IdleInv, GoalsInv, StackOK
  <2>2. CASE \E g \in picked : Touch(g)
    BY <1>3, <2>2, TouchKeepsGoals DEF IdleInv
  <2> QED
    BY <1>1, <2>1, <2>2
<1> QED
  BY <1>2, <1>6, <1>7 DEF IdleInv

(* IdleInv is inductive, and no step of idle work loses a goal.            *)
LEMMA IdleNextKeeps ==
  ASSUME IdleInv, IdleNext
  PROVE  IdleInv' /\ GoalsKept
<1>0. QueueOK /\ GoalsInv /\ BoardOK
  BY DEF IdleInv
<1>1. stack' = stack => GoalsInv' /\ GoalsKept
  BY <1>0, SameGoals DEF GoalsInv, StackOK
<1>2. UNCHANGED <<queue, emitted>> => QueueOK'
  BY <1>0 DEF QueueOK
<1>3. UNCHANGED <<board, inHand, asked>> => BoardOK'
  BY <1>0 DEF BoardOK
<1>4. CASE UserAsks
  <2>1. BoardOK'
    BY <1>0, <1>4, IdleAssumption DEF UserAsks, BoardOK, Task
  <2> QED
    BY <1>1, <1>2, <1>4, <2>1 DEF UserAsks, IdleInv
<1>5. CASE SystemEmits
  <2>1. QueueOK'
    BY <1>0, <1>5, EmitKeepsQueue DEF SystemEmits
  <2> QED
    BY <1>1, <1>3, <1>5, <2>1 DEF SystemEmits, IdleInv
<1>6. CASE GoalIsAdded
  <2>1. PICK source \in {"user", "self"} : AddGoal(source, 1, NoIssue)
    BY <1>6 DEF GoalIsAdded
  <2>2. source \in GoalSource
    BY DEF GoalSource
  <2>3. NoIssue \in About
    BY DEF NoIssue, About
  <2>4. GoalsInv' /\ GoalsKept
    BY <1>0, <2>1, <2>2, <2>3, AddingKeepsGoals
  <2> QED
    BY <1>2, <1>3, <1>6, <2>4 DEF GoalIsAdded, IdleInv
<1>7. CASE Claim
  <2>1. BoardOK'
    BY <1>0, <1>7 DEF Claim, BoardOK
  <2> QED
    BY <1>1, <1>2, <1>7, <2>1 DEF Claim, IdleInv
<1>8. CASE IdleCheck
  BY <1>8, CheckKeeps
<1>9. CASE AgentUpdatesGoal
  <2>1. PICK g \in Goals : Touch(g) \/ \E status \in GoalUpdates : SetStatus(g, status)
    BY <1>9 DEF AgentUpdatesGoal
  <2>2. inHand # {}
    BY <1>9 DEF AgentUpdatesGoal
  <2>3. GoalsInv' /\ GoalsKept
    BY <1>0, <2>1, <2>2, TouchKeepsGoals, StatusKeepsGoals, IdleAssumption
  <2> QED
    BY <1>2, <1>3, <1>9, <2>3 DEF AgentUpdatesGoal, IdleInv
<1>10. CASE Finish
  <2>1. BoardOK'
    BY <1>0, <1>10 DEF Finish, BoardOK
  <2> QED
    BY <1>1, <1>2, <1>10, <2>1 DEF Finish, IdleInv
<1> QED
  BY <1>4, <1>5, <1>6, <1>7, <1>8, <1>9, <1>10 DEF IdleNext

(* The same with stuttering.                                               *)
LEMMA IdleStepKeeps ==
  ASSUME IdleInv, [IdleNext]_idleVars
  PROVE  IdleInv' /\ GoalsKept
<1>1. CASE UNCHANGED idleVars
  <2>1. IdleInv'
    BY <1>1 DEF idleVars, IdleInv, QueueOK, GoalsInv, StackOK, BoardOK
  <2> QED
    BY <1>1, <2>1, SameGoals DEF idleVars
<1> QED
  BY <1>1, IdleNextKeeps

(* IdleInv holds in every state, for any sizes of queue and stack.         *)
THEOREM IdleInvariant == IdleSpec => []IdleInv
<1>1. IdleInit => IdleInv
  BY InitIdle
<1>2. IdleInv /\ [IdleNext]_idleVars => IdleInv'
  BY IdleStepKeeps
<1> QED
  BY <1>1, <1>2, PTL DEF IdleSpec

(* The types that IdleInv implies: no id is given twice, and the queue is  *)
(* never longer than its limit.                                            *)
LEMMA IdleInvTypes == IdleInv => IdleTypeOK
<1> SUFFICES ASSUME IdleInv PROVE IdleTypeOK
  OBVIOUS
<1>1. /\ queue \subseteq Event /\ Cardinality(queue) <= MaxQueueSize
      /\ emitted \in 0..MaxEmitted
  BY DEF IdleInv, QueueOK
<1>2. stack.goals \in Seq(Goal)
  <2>1. stack.goals \in Seq(AnyGoal) /\ GoalsInv /\ stack.nextId \in Nat
    BY DEF IdleInv, GoalsInv, StackOK
  <2>2. \A i \in 1..Len(stack.goals) : stack.goals[i] \in Goals
    BY DEF Goals, InSeq
  <2>3. \A g \in Goals : g \in Goal
    <3>1. \A g \in Goals : /\ g \in AnyGoal /\ g.id < stack.nextId
                           /\ g.id \in Nat \ {0}
      BY <2>1, GoalsTyped, GoalFields DEF Goals
    <3>2. \A g \in Goals : g.id \in 1..MaxGoals
      BY <2>1, <3>1, GoalAssumption DEF GoalsInv
    <3> QED
      BY <3>1, <3>2 DEF AnyGoal, Goal
  <2> QED
    BY <2>1, <2>2, <2>3
<1>3. stack.nextId \in 1..MaxGoals + 1
  BY GoalAssumption DEF IdleInv, GoalsInv, StackOK
<1>4. \A i, j \in 1..Len(stack.goals) :
        i # j => stack.goals[i].id # stack.goals[j].id
  BY DEF IdleInv, GoalsInv, StackOK, DistinctIds
<1>5. board \subseteq Task /\ inHand \subseteq board /\ asked \in 0..MaxUserTasks
  BY DEF IdleInv, BoardOK
<1>6. Cardinality(inHand) <= 1
  <2>1. Cardinality({}) = 0 /\ \A t : Cardinality({t}) = 1
    BY FS_EmptySet, FS_Singleton
  <2> QED
    BY <2>1 DEF IdleInv, BoardOK
<1> QED
  BY <1>1, <1>2, <1>3, <1>4, <1>5, <1>6 DEF IdleTypeOK

(* Types, and what goes beyond them: trimQueue() holds the queue at its    *)
(* limit (events.ts), no two goals share an id (goal-stack.ts), and the    *)
(* DeepLoop has one task in hand at most.                                  *)
THEOREM IdleTypes == IdleSpec => []IdleTypeOK
BY IdleInvariant, IdleInvTypes, PTL
=============================================================================
