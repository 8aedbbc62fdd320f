------------------------------ MODULE Approval ------------------------------
(***************************************************************************)
(* The approval bridge and its store (src/approval/bridge.ts, store.ts): a *)
(* command waits for a yes of the person who asked for it.  Two pollers    *)
(* look for it, the daemon's and one for each request that waits, both in  *)
(* the Messages database, of which this is a view: a row is its place in   *)
(* the inbox.  Who asks is outside: the chat pipeline, which the daemon    *)
(* does not use today.                                                     *)
(***************************************************************************)
EXTENDS Integers, Sequences, FiniteSets

CONSTANTS
    Person,         \* who writes
    Kinds,          \* what they write
    MaxRequests     \* bound: how many commands need approval

ASSUME ApprovalAssumption ==
    /\ Kinds \subseteq {"task", "command", "yes", "no"}
    /\ MaxRequests \in Nat

VARIABLES
    inbox,      \* the messages in the database
    requests,   \* the store, and the poller of each request
    consumed    \* consumedRowIds

approvalVars == <<inbox, requests, consumed>>

StatusOf(kind) == IF kind = "yes" THEN "approved" ELSE "denied"

(* A request's status and the row that answered it, and for its poller     *)
(* whether it still runs and up to which row it has read.                  *)
Request == [recipient : Person, status : {"pending", "approved", "denied", "timed_out"},
            row : Nat, waiting : BOOLEAN, read : Nat]

ApprovalInit == inbox = << >> /\ requests = << >> /\ consumed = {}

Resolved(i, status, row) == [requests[i] EXCEPT !.status = status, !.row = row]

(* getPending(): the first that waits for an answer of this person.        *)
Pending(person) ==
    LET open == {i \in DOMAIN requests :
                   requests[i].recipient = person /\ requests[i].status = "pending"}
    IN {i \in open : \A j \in open : i <= j}

(* requestApproval() and the start of waitForApproval().                   *)
RequestApproval(person) ==
    /\ Len(requests) < MaxRequests
    /\ requests' = Append(requests,
         [recipient |-> person, status |-> "pending", row |-> 0,
          waiting |-> TRUE, read |-> Len(inbox)])
    /\ UNCHANGED <<inbox, consumed>>

(* A turn of waitForApproval(): everything the person has written is       *)
(* consumed, up to the first answer; without one the poller sleeps again,  *)
(* or its time is over.                                                    *)
WaiterTurn(i) ==
    LET new == {r \in DOMAIN inbox : r > requests[i].read
                                     /\ inbox[r].from = requests[i].recipient}
        answers == {r \in new : inbox[r].kind \in {"yes", "no"}}
        first == {r \in answers : \A a \in answers : r <= a}
    IN /\ requests[i].waiting
       /\ IF requests[i].status # "pending"
          THEN /\ requests' = [requests EXCEPT ![i].waiting = FALSE]
               /\ UNCHANGED consumed
          ELSE \/ \E r \in first :
                    /\ requests' = [requests EXCEPT ![i] =
                         [Resolved(i, StatusOf(inbox[r].kind), r) EXCEPT !.waiting = FALSE]]
                    /\ consumed' = consumed \cup {n \in new : n <= r}
               \/ /\ answers = {}
                  /\ consumed' = consumed \cup new
                  /\ \/ requests' = [requests EXCEPT ![i].read = Len(inbox)]
                     \/ requests' = [requests EXCEPT ![i] =
                          [Resolved(i, "timed_out", 0) EXCEPT !.waiting = FALSE]]
       /\ UNCHANGED inbox

(* tryResolveFromPoll()                                                    *)
IsAnswer(r) == inbox[r].kind \in {"yes", "no"} /\ Pending(inbox[r].from) # {}

TryResolve(r) ==
    /\ \E i \in Pending(inbox[r].from) :
         requests' = [requests EXCEPT ![i] = Resolved(i, StatusOf(inbox[r].kind), r)]
    /\ consumed' = consumed \cup {r}
    /\ UNCHANGED inbox

(* expireStale(): those whose time is over.                                *)
ExpireStale ==
    /\ \E stale \in SUBSET {i \in DOMAIN requests : requests[i].status = "pending"} :
         requests' = [i \in DOMAIN requests |->
                        IF i \in stale THEN Resolved(i, "timed_out", 0) ELSE requests[i]]
    /\ UNCHANGED <<inbox, consumed>>
=============================================================================
