------------------------------ MODULE EventBus ------------------------------
(***************************************************************************)
(* The EventBus (src/autonomous/events.ts): a bounded priority queue.  An  *)
(* event is its type and when it was emitted.  Every reader sorts the      *)
(* queue by compareEventPriority(), so the queue is a set; handlers and    *)
(* the payload of events are left out (a handler that throws is caught).   *)
(***************************************************************************)
EXTENDS Integers, FiniteSets

CONSTANTS
    EventTypes,     \* the types of events that are emitted
    MaxQueueSize,   \* config.maxQueueSize
    MaxEmitted      \* bound: how many events are emitted

VARIABLES
    queue,      \* the events waiting
    emitted     \* how many events were emitted so far

busVars == <<queue, emitted>>

Urgency == [user_message |-> 0, test_failed |-> 1, build_error |-> 2,
            file_changed |-> 3, git_push |-> 4, issue_stale |-> 5, scheduled |-> 6]

ASSUME BusAssumption ==
    /\ EventTypes \subseteq DOMAIN Urgency
    /\ MaxQueueSize \in Nat \ {0}
    /\ MaxEmitted \in Nat

Event == [type : EventTypes, at : 1..MaxEmitted]

(* compareEventPriority(): the more urgent type first, then the older.     *)
Before(e, f) ==
    \/ Urgency[e.type] < Urgency[f.type]
    \/ Urgency[e.type] = Urgency[f.type] /\ e.at < f.at

(* The first n events of S in that order.                                  *)
Foremost(n, S) == {e \in S : Cardinality({f \in S : Before(f, e)}) < n}

BusInit == queue = {} /\ emitted = 0

(* Mutant of Trimmed: the queue is cut to size before it is sorted.        *)
TrimmedUnsorted(S) ==
    IF Cardinality(S) <= MaxQueueSize THEN S
    ELSE {e \in S : Cardinality({f \in S : f.at > e.at}) < MaxQueueSize}

(* trimQueue(): what is beyond the size is cut off the end of the sorted   *)
(* queue: of the least urgent type the newest, be it the event that has    *)
(* just come in.                                                           *)
Trimmed(S) == Foremost(MaxQueueSize, S)

Emit(type) ==
    /\ emitted < MaxEmitted
    /\ emitted' = emitted + 1
    /\ queue' = Trimmed(queue \cup {[type |-> type, at |-> emitted + 1]})

(* drain(n) takes the foremost n events and leaves the others.             *)
Drained(n) == Foremost(n, queue)
=============================================================================
