---------------------------- MODULE Daemon_proofs ----------------------------
(***************************************************************************)
(* Proofs about Daemon, for any people, messages, requests and days: what  *)
(* the poll hands over, and how often it sends a report.                   *)
(***************************************************************************)
EXTENDS Daemon, Ordered_proofs

(* While a poll is at its messages, the next row is the one after the last *)
(* that counts as read; nothing behind that has been handed over.          *)
RowsOK ==
    /\ lastRow \in Nat
    /\ DOMAIN poll = {"at", "next", "upTo"}
    /\ poll.at \in {"messages", "answering"} => poll.next = lastRow + 1
    /\ handed \in Seq(Nat)
    /\ \A i \in DOMAIN handed : handed[i] >= 1 /\ handed[i] <= lastRow

RowsInv == RowsOK /\ HandedOnce

(* A row that is handed over is the next one.                              *)
LEMMA HandleKeeps == ASSUME RowsInv, HandleMessage PROVE RowsInv'
  <1> DEFINE r == poll.next
             on == [poll EXCEPT !.next = r + 1]
  <1>1. /\ r = lastRow + 1 /\ r \in Nat /\ lastRow \in Nat
        /\ lastRow' = r
        /\ poll' = on \/ poll' = [on EXCEPT !.at = "answering"]
        /\ handed' = handed \/ handed' = Append(handed, r)
    BY DEF HandleMessage, Advanced, RowsInv, RowsOK
  <1>2. DOMAIN poll' = {"at", "next", "upTo"} /\ poll'.next = lastRow' + 1
    BY <1>1 DEF RowsInv, RowsOK
  <1>3. CASE handed' = handed
    BY <1>1, <1>2, <1>3 DEF RowsInv, RowsOK, HandedOnce
  <1>4. CASE handed' = Append(handed, r)
    <2>1. /\ handed' \in Seq(Nat)
          /\ DOMAIN handed' = 1..Len(handed) + 1
          /\ handed'[Len(handed) + 1] = r
          /\ \A i \in DOMAIN handed : handed'[i] = handed[i]
          /\ DOMAIN handed = 1..Len(handed) /\ Len(handed) \in Nat
      BY <1>1, <1>4 DEF RowsInv, RowsOK
    <2>2. \A i \in DOMAIN handed : handed[i] \in Nat /\ handed[i] >= 1 /\ handed[i] < r
      BY <1>1 DEF RowsInv, RowsOK
    <2>3. \A i \in DOMAIN handed' : handed'[i] >= 1 /\ handed'[i] <= lastRow'
      <3> SUFFICES ASSUME NEW i \in DOMAIN handed'
                   PROVE  handed'[i] >= 1 /\ handed'[i] <= lastRow'
        OBVIOUS
      <3>1. CASE i = Len(handed) + 1
        BY <1>1, <2>1, <3>1
      <3>2. CASE i \in DOMAIN handed
        BY <1>1, <2>1, <2>2, <3>2
      <3> QED
        BY <2>1, <3>1, <3>2
    <2>4. HandedOnce'
      <3> SUFFICES ASSUME NEW i \in DOMAIN handed', NEW j \in DOMAIN handed', i < j
                   PROVE  handed'[i] < handed'[j]
        BY DEF HandedOnce
      <3>1. CASE j = Len(handed) + 1
        BY <2>1, <2>2, <3>1
      <3>2. CASE j \in DOMAIN handed
        BY <2>1, <3>2 DEF RowsInv, HandedOnce
      <3> QED
        BY <2>1, <3>1, <3>2
    <2> QED
      BY <1>1, <1>2, <2>1, <2>3, <2>4 DEF RowsInv, RowsOK
  <1> QED
    BY <1>1, <1>3, <1>4

(* A poll that starts, ends or waits leaves the rows alone.                *)
LEMMA PollKeeps ==
    ASSUME RowsInv, UNCHANGED <<lastRow, handed>>,
           DOMAIN poll' = {"at", "next", "upTo"},
           \/ poll'.at \notin {"messages", "answering"}
           \/ poll'.next = lastRow + 1
    PROVE  RowsInv'
  BY DEF RowsInv, RowsOK, HandedOnce

(* RowsInv is inductive.                                                   *)
LEMMA RowsStepKeeps == ASSUME RowsInv, [DaemonNext]_vars PROVE RowsInv'
  <1>1. CASE HandleMessage
    BY <1>1, HandleKeeps
  <1>2. CASE StartPoll
    BY <1>2, PollKeeps DEF StartPoll
  <1>3. CASE CommandAnswered
    <2>1. /\ poll' = [poll EXCEPT !.at = "messages"] \/ poll' = Off
          /\ poll.next = lastRow + 1
          /\ UNCHANGED <<lastRow, handed>>
      BY <1>3 DEF CommandAnswered, RowsInv, RowsOK
    <2> QED
      BY <2>1, PollKeeps DEF Off, RowsInv, RowsOK
  <1>4. CASE CheckJobs
    <2>1. /\ poll' = [poll EXCEPT !.at = "jobs"] \/ poll' = Off
          /\ UNCHANGED <<lastRow, handed>>
      BY <1>4 DEF CheckJobs, EndPoll
    <2> QED
      BY <2>1, PollKeeps DEF Off, RowsInv, RowsOK
  <1>5. CASE ReportSent
    <2>1. poll' = Off /\ UNCHANGED <<lastRow, handed>>
      BY <1>5 DEF ReportSent, EndPoll
    <2> QED
      BY <2>1, PollKeeps DEF Off
  <1>6. CASE SomebodyWrites \/ PersonAsks \/ WaiterWakes \/ EightOClock \/ UNCHANGED vars
    <2>1. UNCHANGED <<poll, lastRow, handed>>
      BY <1>6 DEF SomebodyWrites, PersonAsks, WaiterWakes, EightOClock, vars, daemonVars
    <2> QED
      BY <2>1 DEF RowsInv, RowsOK, HandedOnce
  <1> QED
    BY <1>1, <1>2, <1>3, <1>4, <1>5, <1>6 DEF DaemonNext, PollStep

(* Every row is handed over at most once and in order, whatever fails in a *)
(* poll (daemon.ts, 843-849).                                              *)
THEOREM RowsHandedOnce == DaemonSpec => []HandedOnce
  <1>1. DaemonInit => RowsInv
    BY DEF DaemonInit, RowsInv, RowsOK, HandedOnce, Off
  <1>2. RowsInv /\ [DaemonNext]_vars => RowsInv'
    BY RowsStepKeeps
  <1>3. RowsInv => HandedOnce
    BY DEF RowsInv
  <1> QED
    BY <1>1, <1>2, <1>3, PTL DEF DaemonSpec

-----------------------------------------------------------------------------
(* At most one check of the jobs is under way, for the report that is due, *)
(* and only while the poll waits for it; what is due was not taken up yet. *)
ReportInv ==
    /\ today \in Nat /\ due \in Nat
    /\ told \in [Day -> Nat]
    /\ \A d \in Day : told[d] <= 1
    /\ \A d \in Day : d >= due => told[d] = 0
    /\ \/ checks = << >>
       \/ /\ poll.at = "jobs"
          /\ checks = <<[now |-> checks[1].now, for |-> due]>>
          /\ checks[1].now \in Nat /\ due <= checks[1].now

(* The report is sent: its job is over for the day.                        *)
LEMMA CheckEnds == ASSUME ReportInv, ReportSent PROVE ReportInv'
  <1>1. PICK k \in DOMAIN checks : EndCheck(k)
    BY DEF ReportSent
  <1>2. k = 1 /\ checks[1].for = due /\ checks[1].now \in Nat /\ due <= checks[1].now
    BY <1>1 DEF ReportInv
  <1>3. checks' = << >>
    BY <1>1, <1>2 DEF ReportInv, EndCheck, RemoveAt
  <1>4. /\ due' = checks[1].now + 1
        /\ told' = [told EXCEPT ![due] = @ + 1]
        /\ today' = today
    BY <1>1, <1>2 DEF EndCheck, NextFireTime, ReportSent
  <1>5. \A d \in Day : d \in Nat
    BY DaemonAssumption DEF Day
  <1>6. told' \in [Day -> Nat]
    <2>1. \A d \in Day : told'[d] \in Nat
      BY <1>4 DEF ReportInv
    <2> QED
      BY <1>4, <2>1, Zenon DEF ReportInv
  <1>7. \A d \in Day : told'[d] <= 1
    BY <1>4, <1>5 DEF ReportInv
  <1>8. \A d \in Day : d >= due' => told'[d] = 0
    BY <1>2, <1>4, <1>5 DEF ReportInv
  <1> QED
    BY <1>2, <1>3, <1>4, <1>6, <1>7, <1>8 DEF ReportInv

(* A check takes a day up only after the days before it.                   *)
LEMMA CheckStarts == ASSUME ReportInv, CheckJobs PROVE ReportInv'
  <1>1. checks = << >> /\ UNCHANGED <<today, due, told>>
    BY DEF ReportInv, CheckJobs
  <1>2. CASE IsDue /\ StartCheck /\ poll' = [poll EXCEPT !.at = "jobs"]
    <2>1. checks' = <<[now |-> today, for |-> due]>>
      BY <1>1, <1>2 DEF StartCheck
    <2>2. poll'.at = "jobs"
      BY <1>2 DEF CheckJobs
    <2> QED
      BY <1>1, <1>2, <2>1, <2>2 DEF ReportInv, IsDue
  <1>3. CASE UNCHANGED checks
    BY <1>1, <1>3 DEF ReportInv
  <1> QED
    BY <1>2, <1>3 DEF CheckJobs

(* ReportInv is inductive.                                                 *)
LEMMA ReportStepKeeps == ASSUME ReportInv, [DaemonNext]_vars PROVE ReportInv'
  <1>1. CASE ReportSent
    BY <1>1, CheckEnds
  <1>2. CASE CheckJobs
    BY <1>2, CheckStarts
  <1>3. CASE StartPoll \/ HandleMessage \/ CommandAnswered
    <2>1. poll.at # "jobs"
      BY <1>3 DEF StartPoll, HandleMessage, CommandAnswered, Off
    <2>2. UNCHANGED <<today, due, checks, told>>
      BY <1>3 DEF StartPoll, HandleMessage, CommandAnswered
    <2> QED
      BY <2>1, <2>2 DEF ReportInv
  <1>4. CASE EightOClock
    BY <1>4 DEF EightOClock, ReportInv
  <1>5. CASE SomebodyWrites \/ PersonAsks \/ WaiterWakes \/ UNCHANGED vars
    <2>1. UNCHANGED daemonVars
      BY <1>5 DEF SomebodyWrites, PersonAsks, WaiterWakes, vars, daemonVars
    <2> QED
      BY <2>1 DEF daemonVars, ReportInv
  <1> QED
    BY <1>1, <1>2, <1>3, <1>4, <1>5 DEF DaemonNext, PollStep

(* No report is taken up twice while one poll at a time checks the jobs        *)
(* (daemon.ts isPolling, checker.ts checkDueJobs).                         *)
THEOREM ReportsTakenOnce == DaemonSpec => []ReportedOnce
  <1>1. DaemonInit => ReportInv
    BY DEF DaemonInit, ReportInv
  <1>2. ReportInv /\ [DaemonNext]_vars => ReportInv'
    BY ReportStepKeeps
  <1>3. ReportInv => ReportedOnce
    BY DEF ReportInv, ReportedOnce
  <1> QED
    BY <1>1, <1>2, <1>3, PTL DEF DaemonSpec

-----------------------------------------------------------------------------
(* No answer that came in since a pending request's poller last looked was *)
(* handed over, and what answered a request is marked as consumed.         *)
AnswersOK ==
    /\ inbox \in Seq([from : Person, kind : Kinds])
    /\ requests \in Seq(Request)
    /\ lastRow <= Len(inbox) /\ poll.upTo <= Len(inbox) /\ poll.upTo \in Nat
    /\ \A i \in DOMAIN requests, h \in Range(handed) :
         requests[i].status = "pending" =>
           ~ /\ h > requests[i].read
             /\ inbox[h].from = requests[i].recipient
             /\ inbox[h].kind \in {"yes", "no"}
    /\ \A i \in DOMAIN requests :
         requests[i].row # 0 =>
           requests[i].row \in consumed /\ requests[i].row \notin Range(handed)

AnswersInv == RowsInv /\ AnswersOK

(* The rows handed over are rows of the inbox.                             *)
LEMMA HandedRows ==
    ASSUME AnswersInv, NEW h \in Range(handed)
    PROVE  h \in Nat /\ h >= 1 /\ h <= Len(inbox)
  <1>1. PICK i \in DOMAIN handed : h = handed[i]
    BY Zenon DEF Range
  <1>2. h \in Nat /\ h >= 1 /\ h <= lastRow
    BY <1>1 DEF AnswersInv, RowsInv, RowsOK
  <1> QED
    BY <1>2 DEF AnswersInv, AnswersOK, RowsInv, RowsOK

(* A request that stays as it is, is resolved by a consumed row or by      *)
(* none, or whose poller has read everything, keeps the invariant.         *)
LEMMA UpdateKeeps ==
    ASSUME AnswersInv,
           requests' \in Seq(Request), DOMAIN requests' = DOMAIN requests,
           consumed \subseteq consumed',
           UNCHANGED <<inbox, handed>>, lastRow' <= Len(inbox),
           poll'.upTo \in Nat, poll'.upTo <= Len(inbox),
           \A i \in DOMAIN requests :
             \/ requests'[i] = requests[i]
             \/ /\ requests'[i].status # "pending"
                /\ requests'[i].row # 0 =>
                     requests'[i].row \in consumed' /\ requests'[i].row \notin Range(handed)
             \/ /\ requests'[i].read = Len(inbox)
                /\ requests'[i].row = requests[i].row
    PROVE  AnswersOK'
  <1>1. \A i \in DOMAIN requests', h \in Range(handed) :
          requests'[i].status = "pending" =>
            ~ /\ h > requests'[i].read
              /\ inbox[h].from = requests'[i].recipient
              /\ inbox[h].kind \in {"yes", "no"}
    <2> SUFFICES ASSUME NEW i \in DOMAIN requests', NEW h \in Range(handed),
                        requests'[i].status = "pending",
                        h > requests'[i].read,
                        inbox[h].from = requests'[i].recipient,
                        inbox[h].kind \in {"yes", "no"}
                 PROVE  FALSE
      OBVIOUS
    <2>1. h \in Nat /\ h <= Len(inbox) /\ Len(inbox) \in Nat
      BY HandedRows DEF AnswersInv, AnswersOK
    <2>2. CASE requests'[i] = requests[i]
      BY <2>2 DEF AnswersInv, AnswersOK
    <2>3. CASE requests'[i].read = Len(inbox)
      BY <2>1, <2>3
    <2> QED
      BY <2>2, <2>3
  <1>2. \A i \in DOMAIN requests' :
          requests'[i].row # 0 =>
            requests'[i].row \in consumed' /\ requests'[i].row \notin Range(handed)
    BY DEF AnswersInv, AnswersOK
  <1> QED
    BY <1>1, <1>2 DEF AnswersInv, AnswersOK

(* What one request becomes, in place of all of them.                      *)
LEMMA OneUpdate ==
    ASSUME requests \in Seq(Request), NEW i \in DOMAIN requests, NEW q \in Request
    PROVE  /\ [requests EXCEPT ![i] = q] \in Seq(Request)
           /\ DOMAIN [requests EXCEPT ![i] = q] = DOMAIN requests
           /\ [requests EXCEPT ![i] = q][i] = q
           /\ \A j \in DOMAIN requests : j # i => [requests EXCEPT ![i] = q][j] = requests[j]
  OBVIOUS

(* Requests that expire have no answer.                                    *)
LEMMA ExpireKeeps ==
    ASSUME AnswersInv, ExpireStale, UNCHANGED <<handed, lastRow>>,
           poll'.upTo \in Nat, poll'.upTo <= Len(inbox)
    PROVE  AnswersOK'
  <1>1. PICK stale \in SUBSET {i \in DOMAIN requests : requests[i].status = "pending"} :
          requests' = [i \in DOMAIN requests |->
                         IF i \in stale THEN Resolved(i, "timed_out", 0) ELSE requests[i]]
    BY DEF ExpireStale
  <1>2. /\ requests \in Seq(Request)
        /\ UNCHANGED <<inbox, consumed>>
    BY DEF ExpireStale, AnswersInv, AnswersOK
  <1>3. ASSUME NEW i \in DOMAIN requests
        PROVE  /\ Resolved(i, "timed_out", 0) \in Request
               /\ Resolved(i, "timed_out", 0).status = "timed_out"
               /\ Resolved(i, "timed_out", 0).row = 0
    <2>1. requests[i] \in Request
      BY <1>2
    <2> QED
      BY <2>1 DEF Resolved, Request
  <1>4. DOMAIN requests' = DOMAIN requests /\ requests' \in Seq(Request)
    BY <1>1, <1>2, <1>3
  <1>5. ASSUME NEW i \in DOMAIN requests
        PROVE  \/ requests'[i] = requests[i]
               \/ requests'[i].status # "pending" /\ requests'[i].row = 0
    <2>1. CASE i \in stale
      <3>1. requests'[i] = Resolved(i, "timed_out", 0)
        BY <1>1, <2>1
      <3> QED
        BY <1>3, <3>1
    <2>2. CASE i \notin stale
      BY <1>1, <2>2
    <2> QED
      BY <2>1, <2>2
  <1>6. lastRow' <= Len(inbox) /\ consumed \subseteq consumed'
    BY <1>2 DEF AnswersInv, AnswersOK
  <1>7. \A i \in DOMAIN requests :
          \/ requests'[i] = requests[i]
          \/ /\ requests'[i].status # "pending"
             /\ requests'[i].row # 0 =>
                  requests'[i].row \in consumed' /\ requests'[i].row \notin Range(handed)
    BY <1>5
  <1> QED
    BY <1>2, <1>4, <1>6, <1>7, UpdateKeeps

(* Who has a pending request has a first one (store.ts getPending).        *)
LEMMA PendingFound ==
    ASSUME NEW person, requests \in Seq(Request), NEW i \in DOMAIN requests,
           requests[i].recipient = person, requests[i].status = "pending"
    PROVE  Pending(person) # {}
  <1> DEFINE open == {j \in DOMAIN requests :
                        requests[j].recipient = person /\ requests[j].status = "pending"}
  <1>1. open \in SUBSET Nat /\ open # {}
    OBVIOUS
  <1> HIDE DEF open
  <1>2. PICK n \in open : \A m \in open : n <= m
    BY <1>1, LeastElement
  <1> QED
    BY <1>2 DEF Pending, open

(* A row that is handed over answers nothing that is still pending, and    *)
(* has answered nothing (daemon.ts, 909-923).                              *)
LEMMA HandedOverKeeps ==
    ASSUME AnswersInv, poll.at = "messages", poll.next <= poll.upTo,
           ~IsAnswer(poll.next), poll.next \notin consumed,
           handed' = Append(handed, poll.next), lastRow' = poll.next,
           poll'.upTo = poll.upTo, UNCHANGED approvalVars
    PROVE  AnswersOK'
  <1> DEFINE r == poll.next
  <1>1. r \in Nat /\ handed \in Seq(Nat) /\ Range(handed') = Range(handed) \cup {r}
    BY RangeAppend DEF AnswersInv, RowsInv, RowsOK
  <1>2. UNCHANGED <<inbox, requests, consumed>>
    BY DEF approvalVars
  <1>3. ASSUME NEW i \in DOMAIN requests, NEW h \in Range(handed'),
               requests[i].status = "pending"
        PROVE  ~ /\ h > requests[i].read
                 /\ inbox[h].from = requests[i].recipient
                 /\ inbox[h].kind \in {"yes", "no"}
    <2>1. CASE h \in Range(handed)
      BY <1>3, <2>1 DEF AnswersInv, AnswersOK
    <2>2. CASE h = r
      BY <1>3, <2>2, PendingFound DEF AnswersInv, AnswersOK, IsAnswer
    <2> QED
      BY <1>1, <2>1, <2>2
  <1>4. \A i \in DOMAIN requests :
          requests[i].row # 0 => requests[i].row \in consumed /\ requests[i].row \notin Range(handed')
    BY <1>1 DEF AnswersInv, AnswersOK
  <1>5. lastRow' <= Len(inbox) /\ poll'.upTo <= Len(inbox) /\ poll'.upTo \in Nat
    BY <1>1 DEF AnswersInv, AnswersOK
  <1> QED
    BY <1>2, <1>3, <1>4, <1>5 DEF AnswersInv, AnswersOK

(* What the daemon's own poll resolves a request by is behind every row it *)
(* has handed over (bridge.ts tryResolveFromPoll).                         *)
LEMMA AnswerKeeps ==
    ASSUME AnswersInv, poll.at = "messages", poll.next <= poll.upTo,
           TryResolve(poll.next), UNCHANGED handed, lastRow' = poll.next,
           poll'.upTo = poll.upTo
    PROVE  AnswersOK'
  <1> DEFINE r == poll.next
  <1>1. /\ r \in Nat /\ r = lastRow + 1 /\ r <= Len(inbox)
        /\ r \notin Range(handed)
    <2>1. \A h \in Range(handed) : h <= lastRow
      BY Zenon DEF Range, AnswersInv, RowsInv, RowsOK
    <2> QED
      BY <2>1 DEF AnswersInv, AnswersOK, RowsInv, RowsOK
  <1>2. PICK i \in Pending(inbox[r].from) :
          requests' = [requests EXCEPT ![i] = Resolved(i, StatusOf(inbox[r].kind), r)]
    BY DEF TryResolve
  <1>3. /\ i \in DOMAIN requests /\ requests \in Seq(Request)
        /\ consumed' = consumed \cup {r} /\ UNCHANGED inbox
        /\ StatusOf(inbox[r].kind) \in {"approved", "denied"}
    BY <1>2 DEF Pending, TryResolve, StatusOf, AnswersInv, AnswersOK
  <1> DEFINE q == Resolved(i, StatusOf(inbox[r].kind), r)
  <1>4. q \in Request /\ q.status # "pending" /\ q.row = r
    <2>1. requests[i] \in Request
      BY <1>3
    <2> QED
      BY <1>1, <1>3, <2>1 DEF Resolved, Request
  <1> HIDE DEF q
  <1>5. /\ requests' \in Seq(Request) /\ DOMAIN requests' = DOMAIN requests
        /\ requests'[i] = q
        /\ \A j \in DOMAIN requests : j # i => requests'[j] = requests[j]
    BY <1>2, <1>3, <1>4, OneUpdate DEF q
  <1>6. lastRow' <= Len(inbox) /\ poll'.upTo <= Len(inbox) /\ poll'.upTo \in Nat
    BY <1>1 DEF AnswersInv, AnswersOK
  <1>7. ASSUME NEW j \in DOMAIN requests
        PROVE  \/ requests'[j] = requests[j]
               \/ /\ requests'[j].status # "pending"
                  /\ requests'[j].row # 0 =>
                       requests'[j].row \in consumed' /\ requests'[j].row \notin Range(handed)
    <2>1. CASE j = i
      BY <1>1, <1>3, <1>4, <1>5, <2>1
    <2>2. CASE j # i
      BY <1>5, <2>2
    <2> QED
      BY <2>1, <2>2
  <1>8. consumed \subseteq consumed' /\ UNCHANGED <<inbox, handed>>
    BY <1>3
  <1> QED
    BY <1>5, <1>6, <1>7, <1>8, UpdateKeeps

(* A turn of a request's own poller: the answer it takes is one it had not *)
(* read, so no row handed over (bridge.ts waitForApproval).                *)
LEMMA WaiterKeeps ==
    ASSUME AnswersInv, NEW i \in DOMAIN requests, WaiterTurn(i), UNCHANGED daemonVars
    PROVE  AnswersOK'
  <1> DEFINE new == {r \in DOMAIN inbox : r > requests[i].read
                                          /\ inbox[r].from = requests[i].recipient}
             answers == {r \in new : inbox[r].kind \in {"yes", "no"}}
             taken(r) == [Resolved(i, StatusOf(inbox[r].kind), r) EXCEPT !.waiting = FALSE]
             late == [Resolved(i, "timed_out", 0) EXCEPT !.waiting = FALSE]
             still == [requests[i] EXCEPT !.waiting = FALSE]
             seen == [requests[i] EXCEPT !.read = Len(inbox)]
  <1>1. /\ requests \in Seq(Request) /\ requests[i] \in Request /\ Len(inbox) \in Nat
        /\ UNCHANGED <<inbox, handed, lastRow, poll>>
        /\ lastRow' <= Len(inbox)
        /\ poll'.upTo \in Nat /\ poll'.upTo <= Len(inbox)
        /\ consumed \subseteq consumed'
    BY DEF AnswersInv, AnswersOK, WaiterTurn, daemonVars
  <1>2. \/ requests[i].status # "pending" /\ requests' = [requests EXCEPT ![i] = still]
        \/ /\ requests[i].status = "pending"
           /\ \E r \in answers : /\ requests' = [requests EXCEPT ![i] = taken(r)]
                                 /\ r \in consumed'
        \/ requests' = [requests EXCEPT ![i] = seen]
        \/ requests' = [requests EXCEPT ![i] = late]
    BY <1>1 DEF WaiterTurn
  <1>3. ASSUME NEW q \in Request, requests' = [requests EXCEPT ![i] = q],
               \/ q.status = requests[i].status /\ q.status # "pending" /\ q.row = requests[i].row
               \/ /\ q.status # "pending"
                  /\ q.row # 0 => q.row \in consumed' /\ q.row \notin Range(handed)
               \/ q.read = Len(inbox) /\ q.row = requests[i].row
        PROVE  AnswersOK'
    <2>1. /\ requests' \in Seq(Request) /\ DOMAIN requests' = DOMAIN requests
          /\ requests'[i] = q
          /\ \A j \in DOMAIN requests : j # i => requests'[j] = requests[j]
      BY <1>1, <1>3, OneUpdate
    <2>2. requests[i].row # 0 => requests[i].row \in consumed' /\ requests[i].row \notin Range(handed)
      BY <1>1 DEF AnswersInv, AnswersOK
    <2>3. ASSUME NEW j \in DOMAIN requests
          PROVE  \/ requests'[j] = requests[j]
                 \/ /\ requests'[j].status # "pending"
                    /\ requests'[j].row # 0 =>
                         requests'[j].row \in consumed' /\ requests'[j].row \notin Range(handed)
                 \/ /\ requests'[j].read = Len(inbox)
                    /\ requests'[j].row = requests[j].row
      <3>1. CASE j = i
        BY <1>3, <2>1, <2>2, <3>1
      <3>2. CASE j # i
        BY <2>1, <3>2
      <3> QED
        BY <3>1, <3>2
    <2> QED
      BY <1>1, <2>1, <2>3, UpdateKeeps
  <1>4. ASSUME requests[i].status # "pending", requests' = [requests EXCEPT ![i] = still]
        PROVE  AnswersOK'
    <2>1. /\ still \in Request /\ still.status = requests[i].status
          /\ still.row = requests[i].row
      BY <1>1 DEF Request
    <2> QED
      BY <1>3, <1>4, <2>1
  <1>5. ASSUME requests[i].status = "pending", NEW r \in answers,
               requests' = [requests EXCEPT ![i] = taken(r)], r \in consumed'
        PROVE  AnswersOK'
    <2>1. r \in Nat /\ StatusOf(inbox[r].kind) \in {"approved", "denied"}
      BY DEF StatusOf, AnswersInv, AnswersOK
    <2>2. taken(r) \in Request /\ taken(r).status # "pending" /\ taken(r).row = r
      BY <1>1, <2>1 DEF Resolved, Request
    <2>3. r \notin Range(handed)
      BY <1>5 DEF AnswersInv, AnswersOK
    <2> HIDE DEF taken
    <2> QED
      BY <1>3, <1>5, <2>2, <2>3
  <1>6. ASSUME requests' = [requests EXCEPT ![i] = seen] PROVE AnswersOK'
    <2>1. seen \in Request /\ seen.read = Len(inbox) /\ seen.row = requests[i].row
      BY <1>1 DEF Request
    <2> HIDE DEF seen
    <2> QED
      BY <1>3, <1>6, <2>1
  <1>7. ASSUME requests' = [requests EXCEPT ![i] = late] PROVE AnswersOK'
    <2>1. late \in Request /\ late.status # "pending" /\ late.row = 0
      BY <1>1 DEF Resolved, Request
    <2> HIDE DEF late
    <2> QED
      BY <1>3, <1>7, <2>1
  <1> QED
    BY <1>2, <1>4, <1>5, <1>6, <1>7

(* A new request's poller starts behind everything that was written.       *)
LEMMA RequestKeeps ==
    ASSUME AnswersInv, NEW person \in Person, RequestApproval(person), UNCHANGED daemonVars
    PROVE  AnswersOK'
  <1> DEFINE q == [recipient |-> person, status |-> "pending", row |-> 0,
                   waiting |-> TRUE, read |-> Len(inbox)]
             n == Len(requests) + 1
  <1>1. /\ requests \in Seq(Request) /\ requests' = Append(requests, q) /\ q \in Request
        /\ UNCHANGED <<inbox, consumed, handed, lastRow, poll>> /\ Len(inbox) \in Nat
    BY DEF RequestApproval, daemonVars, AnswersInv, AnswersOK, Request
  <1>2. /\ requests' \in Seq(Request) /\ DOMAIN requests' = DOMAIN requests \cup {n}
        /\ \A i \in DOMAIN requests : requests'[i] = requests[i]
        /\ requests'[n] = q
    BY <1>1
  <1>3. ASSUME NEW i \in DOMAIN requests', NEW h \in Range(handed),
               requests'[i].status = "pending"
        PROVE  ~ /\ h > requests'[i].read
                 /\ inbox[h].from = requests'[i].recipient
                 /\ inbox[h].kind \in {"yes", "no"}
    <2>1. CASE i = n
      BY <1>1, <1>2, <2>1, HandedRows
    <2>2. CASE i \in DOMAIN requests
      BY <1>2, <1>3, <2>2 DEF AnswersInv, AnswersOK
    <2> QED
      BY <1>2, <2>1, <2>2
  <1>4. ASSUME NEW i \in DOMAIN requests', requests'[i].row # 0
        PROVE  requests'[i].row \in consumed /\ requests'[i].row \notin Range(handed)
    <2>1. CASE i = n
      BY <1>2, <1>4, <2>1
    <2>2. CASE i \in DOMAIN requests
      BY <1>2, <1>4, <2>2 DEF AnswersInv, AnswersOK
    <2> QED
      BY <1>2, <2>1, <2>2
  <1> QED
    BY <1>1, <1>2, <1>3, <1>4 DEF AnswersInv, AnswersOK

(* A new message leaves the rows before it as they are.                    *)
LEMMA WritingKeeps == ASSUME AnswersInv, SomebodyWrites PROVE AnswersOK'
  <1>1. PICK m \in [from : Person, kind : Kinds] : inbox' = Append(inbox, m)
    BY DEF SomebodyWrites
  <1>2. /\ inbox' \in Seq([from : Person, kind : Kinds])
        /\ Len(inbox') = Len(inbox) + 1 /\ Len(inbox) \in Nat
        /\ \A h \in 1..Len(inbox) : inbox'[h] = inbox[h]
    BY <1>1 DEF AnswersInv, AnswersOK
  <1>3. UNCHANGED <<requests, consumed, handed, lastRow, poll>>
    BY DEF SomebodyWrites, daemonVars
  <1>4. \A h \in Range(handed) : inbox'[h] = inbox[h]
    <2> SUFFICES ASSUME NEW h \in Range(handed) PROVE inbox'[h] = inbox[h]
      OBVIOUS
    <2>1. h \in 1..Len(inbox)
      BY <1>2, HandedRows
    <2> QED
      BY <1>2, <2>1
  <1>5. lastRow' <= Len(inbox') /\ poll'.upTo <= Len(inbox')
    BY <1>2, <1>3 DEF AnswersInv, AnswersOK, RowsInv, RowsOK
  <1> QED
    BY <1>2, <1>3, <1>4, <1>5 DEF AnswersInv, AnswersOK

(* Nothing changes but where the poll is.                                  *)
LEMMA RestKeeps ==
    ASSUME AnswersInv, UNCHANGED <<approvalVars, handed>>,
           lastRow' <= Len(inbox), poll'.upTo \in Nat, poll'.upTo <= Len(inbox)
    PROVE  AnswersOK'
  BY DEF AnswersInv, AnswersOK, approvalVars

(* AnswersInv is inductive.                                                *)
LEMMA AnswersStepKeep == ASSUME AnswersInv, [DaemonNext]_vars PROVE AnswersInv'
  <1>1. RowsInv'
    BY RowsStepKeeps DEF AnswersInv
  <1> SUFFICES AnswersOK'
    BY <1>1 DEF AnswersInv
  <1>2. /\ lastRow <= Len(inbox) /\ poll.upTo \in Nat /\ poll.upTo <= Len(inbox)
        /\ Len(inbox) \in Nat
    BY DEF AnswersInv, AnswersOK
  <1>3. CASE HandleMessage
    <2> DEFINE r == poll.next
    <2>1. /\ poll.at = "messages" /\ r <= poll.upTo /\ lastRow' = r
          /\ poll'.upTo = poll.upTo /\ lastRow' <= Len(inbox)
      <3> DEFINE on == [poll EXCEPT !.next = r + 1]
      <3>1. /\ poll.at = "messages" /\ r <= poll.upTo /\ lastRow' = r
            /\ poll' = on \/ poll' = [on EXCEPT !.at = "answering"]
        BY <1>3 DEF HandleMessage, Advanced
      <3>2. DOMAIN poll = {"at", "next", "upTo"} /\ r = lastRow + 1 /\ lastRow \in Nat
        BY <3>1 DEF AnswersInv, RowsInv, RowsOK
      <3>3. poll'.upTo = poll.upTo
        BY <3>1, <3>2
      <3> QED
        BY <1>2, <3>1, <3>2, <3>3
    <2>2. CASE UNCHANGED <<approvalVars, handed>>
      <3>1. poll'.upTo \in Nat /\ poll'.upTo <= Len(inbox)
        BY <1>2, <2>1
      <3> QED
        BY <2>1, <2>2, <3>1, RestKeeps
    <2>3. CASE TryResolve(r) /\ UNCHANGED handed
      BY <2>1, <2>3, AnswerKeeps
    <2>4. CASE /\ inbox[r].kind # "command" /\ ~IsAnswer(r) /\ ~PassedOver(r)
               /\ handed' = Append(handed, r) /\ UNCHANGED approvalVars
      BY <2>1, <2>4, HandedOverKeeps DEF PassedOver
    <2> QED
      BY <1>3, <2>2, <2>3, <2>4 DEF HandleMessage
  <1>4. CASE StartPoll \/ CommandAnswered \/ EightOClock \/ UNCHANGED vars
    <2>1. UNCHANGED <<approvalVars, handed, lastRow>>
      BY <1>4 DEF StartPoll, CommandAnswered, EightOClock, vars, daemonVars
    <2>2. poll'.upTo \in {poll.upTo, Len(inbox), 0}
      <3>1. CASE StartPoll
        BY <3>1 DEF StartPoll
      <3>2. CASE CommandAnswered
        <4>1. DOMAIN poll = {"at", "next", "upTo"}
          BY DEF AnswersInv, RowsInv, RowsOK
        <4>2. poll' = [poll EXCEPT !.at = "messages"] \/ poll' = Off
          BY <3>2 DEF CommandAnswered
        <4> QED
          BY <4>1, <4>2 DEF Off
      <3>3. CASE EightOClock \/ UNCHANGED vars
        BY <3>3 DEF EightOClock, vars, daemonVars
      <3> QED
        BY <1>4, <3>1, <3>2, <3>3
    <2> QED
      BY <1>2, <2>1, <2>2, RestKeeps
  <1>5. CASE CheckJobs
    <2>1. CASE IsDue /\ UNCHANGED approvalVars /\ poll' = [poll EXCEPT !.at = "jobs"]
      <3>1. poll'.upTo = poll.upTo
        BY <2>1 DEF AnswersInv, RowsInv, RowsOK
      <3>2. UNCHANGED <<approvalVars, handed>> /\ lastRow' <= Len(inbox)
        BY <1>2, <1>5, <2>1 DEF CheckJobs
      <3>3. poll'.upTo \in Nat /\ poll'.upTo <= Len(inbox)
        BY <1>2, <3>1
      <3> QED
        BY <3>2, <3>3, RestKeeps
    <2>2. CASE EndPoll
      BY <1>2, <1>5, <2>2, ExpireKeeps DEF CheckJobs, EndPoll, Off
    <2> QED
      BY <1>5, <2>1, <2>2 DEF CheckJobs
  <1>6. CASE ReportSent
    BY <1>2, <1>6, ExpireKeeps DEF ReportSent, EndPoll, Off
  <1>7. CASE SomebodyWrites
    BY <1>7, WritingKeeps
  <1>8. CASE PersonAsks
    BY <1>8, RequestKeeps DEF PersonAsks
  <1>9. CASE WaiterWakes
    BY <1>9, WaiterKeeps DEF WaiterWakes
  <1> QED
    BY <1>3, <1>4, <1>5, <1>6, <1>7, <1>8, <1>9 DEF DaemonNext, PollStep

(* The message that resolved a request is never handed over as a task too, *)
(* whichever poller saw it first (bridge.ts, daemon.ts, 909-923).          *)
THEOREM AnswersAreNoTasks == DaemonSpec => []AnswerIsNotATask
  <1>1. DaemonInit => AnswersInv
    BY DEF DaemonInit, ApprovalInit, Off, AnswersInv, AnswersOK, RowsInv, RowsOK, HandedOnce
  <1>2. AnswersInv /\ [DaemonNext]_vars => AnswersInv'
    BY AnswersStepKeep
  <1>3. AnswersInv => AnswerIsNotATask
    BY DEF AnswersInv, AnswersOK, AnswerIsNotATask
  <1> QED
    BY <1>1, <1>2, <1>3, PTL DEF DaemonSpec
-----------------------------------------------------------------------------
(* What the invariants above do not say of the variables' types.  A check  *)
(* has started by today, so it puts the report off to tomorrow at most.    *)
RangesOK ==
    /\ Len(inbox) <= MaxWritten /\ consumed \subseteq DOMAIN inbox
    /\ poll \in [at : {"off", "messages", "answering", "jobs"}, next : Nat, upTo : Nat]
    /\ today \in 0..MaxDays /\ due \in Day
    /\ checks # << >> => checks[1].now <= today

DaemonInv == AnswersInv /\ ReportInv /\ RangesOK

(* The rows that a person's messages have are rows of the inbox.           *)
LEMMA ConsumedRows ==
    ASSUME AnswersInv, RangesOK, NEW i \in DOMAIN requests, WaiterTurn(i)
    PROVE  consumed' \subseteq DOMAIN inbox
  <1> DEFINE new == {r \in DOMAIN inbox : r > requests[i].read
                                          /\ inbox[r].from = requests[i].recipient}
  <1>1. new \subseteq DOMAIN inbox
    OBVIOUS
  <1>2. \/ consumed' = consumed
        \/ consumed' = consumed \cup new
        \/ \E r : consumed' = consumed \cup {n \in new : n <= r}
    BY DEF WaiterTurn
  <1> HIDE DEF new
  <1> QED
    BY <1>1, <1>2 DEF RangesOK

(* What is left of the types is inductive too.                             *)
LEMMA RangesStepKeep == ASSUME DaemonInv, [DaemonNext]_vars PROVE RangesOK'
  <1> USE DEF DaemonInv
  <1>1. CASE SomebodyWrites
    <2>1. PICK m \in [from : Person, kind : Kinds] : inbox' = Append(inbox, m)
      BY <1>1 DEF SomebodyWrites
    <2>2. /\ inbox \in Seq([from : Person, kind : Kinds])
          /\ Len(inbox) \in Nat /\ MaxWritten \in Nat /\ Len(inbox) < MaxWritten
      BY <1>1, DaemonAssumption DEF SomebodyWrites, AnswersInv, AnswersOK
    <2>3. /\ Len(inbox') = Len(inbox) + 1
          /\ DOMAIN inbox \subseteq DOMAIN inbox'
      BY <2>1, <2>2
    <2>4. UNCHANGED <<consumed, poll, today, due, checks>>
      BY <1>1 DEF SomebodyWrites, daemonVars
    <2> QED
      BY <2>2, <2>3, <2>4 DEF RangesOK
  <1>2. CASE PersonAsks
    <2>1. UNCHANGED <<inbox, consumed, poll, today, due, checks>>
      BY <1>2 DEF PersonAsks, RequestApproval, daemonVars
    <2> QED
      BY <2>1 DEF RangesOK
  <1>3. CASE WaiterWakes
    <2>1. UNCHANGED <<inbox, poll, today, due, checks>>
      BY <1>3 DEF WaiterWakes, WaiterTurn, daemonVars
    <2>2. consumed' \subseteq DOMAIN inbox
      BY <1>3, ConsumedRows DEF WaiterWakes
    <2> QED
      BY <2>1, <2>2 DEF RangesOK
  <1>4. CASE StartPoll
    <2>1. UNCHANGED <<inbox, consumed, today, due, checks>>
      BY <1>4 DEF StartPoll, approvalVars
    <2>2. lastRow \in Nat /\ Len(inbox) \in Nat
      BY DEF AnswersInv, AnswersOK, RowsInv, RowsOK
    <2>3. poll' \in [at : {"messages"}, next : Nat, upTo : Nat]
      BY <1>4, <2>2 DEF StartPoll
    <2> QED
      BY <2>1, <2>3 DEF RangesOK
  <1>5. CASE HandleMessage
    <2> DEFINE r == poll.next
    <2>1. /\ r \in Nat /\ r = lastRow + 1 /\ lastRow \in Nat
          /\ r <= poll.upTo /\ poll.upTo <= Len(inbox) /\ poll.upTo \in Nat
          /\ inbox \in Seq([from : Person, kind : Kinds])
      BY <1>5 DEF HandleMessage, AnswersInv, AnswersOK, RowsInv, RowsOK, RangesOK
    <2>2. r \in DOMAIN inbox
      BY <2>1
    <2>3. /\ consumed' = consumed \/ consumed' = consumed \cup {r}
          /\ UNCHANGED <<inbox, today, due, checks>>
      BY <1>5 DEF HandleMessage, TryResolve, approvalVars
    <2> DEFINE on == [poll EXCEPT !.next = r + 1]
    <2>4. poll' = on \/ poll' = [on EXCEPT !.at = "answering"]
      BY <1>5 DEF HandleMessage
    <2>5. /\ poll \in [at : {"off", "messages", "answering", "jobs"}, next : Nat, upTo : Nat]
          /\ r + 1 \in Nat
      BY <2>1 DEF RangesOK
    <2>6. on \in [at : {"off", "messages", "answering", "jobs"}, next : Nat, upTo : Nat]
      BY <2>5
    <2> HIDE DEF on
    <2>7. poll' \in [at : {"off", "messages", "answering", "jobs"}, next : Nat, upTo : Nat]
      BY <2>4, <2>6
    <2> QED
      BY <2>2, <2>3, <2>7 DEF RangesOK
  <1>6. CASE CommandAnswered
    BY <1>6 DEF CommandAnswered, approvalVars, Off, RangesOK
  <1>7. CASE CheckJobs
    <2>1. UNCHANGED <<inbox, consumed, today, due>>
      BY <1>7 DEF CheckJobs, EndPoll, ExpireStale, approvalVars
    <2>2. poll' \in [at : {"off", "jobs"}, next : Nat, upTo : Nat]
      BY <1>7 DEF CheckJobs, EndPoll, Off, RangesOK
    <2>3. checks' # << >> => checks'[1].now <= today
      <3>1. CASE StartCheck
        <4>1. checks = << >>
          BY <1>7 DEF CheckJobs, ReportInv
        <4>2. checks' = <<[now |-> today, for |-> due]>>
          BY <3>1, <4>1 DEF StartCheck
        <4> QED
          BY <4>2 DEF RangesOK
      <3>2. CASE UNCHANGED checks
        BY <3>2 DEF RangesOK
      <3> QED
        BY <1>7, <3>1, <3>2 DEF CheckJobs
    <2> QED
      BY <2>1, <2>2, <2>3 DEF RangesOK
  <1>8. CASE ReportSent
    <2>1. PICK k \in DOMAIN checks : EndCheck(k)
      BY <1>8 DEF ReportSent
    <2>2. k = 1 /\ checks[1].now \in Nat /\ checks # << >>
      BY <2>1 DEF ReportInv
    <2>3. checks' = << >> /\ due' = checks[1].now + 1
      BY <2>1, <2>2 DEF ReportInv, EndCheck, RemoveAt, NextFireTime
    <2>4. due' \in Day
      BY <2>2, <2>3, DaemonAssumption DEF RangesOK, Day
    <2>5. UNCHANGED <<inbox, consumed, today>> /\ poll' = Off
      BY <1>8 DEF ReportSent, EndPoll, ExpireStale
    <2> QED
      BY <2>3, <2>4, <2>5 DEF RangesOK, Off
  <1>9. CASE EightOClock
    <2>1. today' \in 0..MaxDays /\ today <= today'
      BY <1>9, DaemonAssumption DEF EightOClock, RangesOK
    <2>2. checks # << >> => checks[1].now \in Nat
      BY DEF ReportInv
    <2> QED
      BY <1>9, <2>1, <2>2 DEF EightOClock, approvalVars, RangesOK
  <1>10. CASE UNCHANGED vars
    BY <1>10 DEF vars, daemonVars, approvalVars, RangesOK
  <1> QED
    BY <1>1, <1>2, <1>3, <1>4, <1>5, <1>6, <1>7, <1>8, <1>9, <1>10
    DEF DaemonNext, PollStep

(* The types of the daemon's variables: at most one check of the jobs is   *)
(* under way, and what is consumed or handed over is a row that was        *)
(* written (daemon.ts poll, bridge.ts).                                    *)
THEOREM DaemonTypes == DaemonSpec => []DaemonTypeOK
  <1>1. DaemonInit => DaemonInv
    <2> SUFFICES ASSUME DaemonInit PROVE DaemonInv
      OBVIOUS
    <2>1. AnswersInv
      BY DEF DaemonInit, ApprovalInit, Off, AnswersInv, AnswersOK, RowsInv, RowsOK, HandedOnce
    <2>2. ReportInv
      BY DEF DaemonInit, ReportInv
    <2>3. RangesOK
      BY DaemonAssumption DEF DaemonInit, ApprovalInit, Off, RangesOK, Day
    <2> QED
      BY <2>1, <2>2, <2>3 DEF DaemonInv
  <1>2. DaemonInv /\ [DaemonNext]_vars => DaemonInv'
    BY AnswersStepKeep, ReportStepKeeps, RangesStepKeep DEF DaemonInv
  <1>3. DaemonInv => DaemonTypeOK
    <2> SUFFICES ASSUME DaemonInv PROVE DaemonTypeOK
      OBVIOUS
    <2> USE DEF DaemonInv
    <2>1. /\ inbox \in Seq([from : Person, kind : Kinds]) /\ requests \in Seq(Request)
          /\ lastRow \in 0..Len(inbox)
      BY DEF AnswersInv, AnswersOK, RowsInv, RowsOK
    <2>2. handed \in Seq(DOMAIN inbox)
      <3>1. handed \in Seq(Nat) /\ \A i \in DOMAIN handed : handed[i] \in 1..Len(inbox)
        BY <2>1 DEF AnswersInv, RowsInv, RowsOK
      <3> QED
        BY <2>1, <3>1
    <2>3. checks \in Seq([now : Day, for : Day]) /\ Len(checks) <= 1
      <3>1. CASE checks = << >>
        BY <3>1
      <3>2. CASE checks # << >>
        <4>1. /\ checks = <<[now |-> checks[1].now, for |-> due]>>
              /\ checks[1].now \in Nat
          BY <3>2 DEF ReportInv
        <4>2. checks[1].now \in Day /\ due \in Day
          BY <3>2, <4>1, DaemonAssumption DEF RangesOK, Day
        <4> DEFINE c == [now |-> checks[1].now, for |-> due]
        <4>3. c \in [now : Day, for : Day] /\ checks = <<c>>
          BY <4>1, <4>2
        <4> HIDE DEF c
        <4> QED
          BY <4>3
      <3> QED
        BY <3>1, <3>2
    <2> QED
      BY <2>1, <2>2, <2>3 DEF RangesOK, ReportInv, DaemonTypeOK
  <1> QED
    BY <1>1, <1>2, <1>3, PTL DEF DaemonSpec
=============================================================================
