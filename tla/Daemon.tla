------------------------------- MODULE Daemon -------------------------------
(***************************************************************************)
(* The daemon (src/imessage/daemon.ts): what people write reaches the      *)
(* FastLoop (Intake.tla goes on from there) through its poll of the        *)
(* Messages database, unless it answers a request for approval or is a     *)
(* command; the same poll runs the scheduler's check                       *)
(* (src/scheduler/checker.ts, whose one job today is the daily report).    *)
(***************************************************************************)
EXTENDS Approval, SequencesExt

CONSTANTS
    MaxWritten, \* bound: how many messages are written
    MaxDays     \* bound: how many days go by

ASSUME DaemonAssumption == MaxWritten \in Nat /\ MaxDays \in Nat

VARIABLES
    poll,       \* what the poll is at, its next row and the last it has read
    lastRow,    \* lastRowId
    handed,     \* history: the rows given to the FastLoop, in order
    today,      \* how many times it was 8 o'clock
    due,        \* nextFireTime of the daily report
    checks,     \* the checks under way: when each started, and for which report
    told        \* history: how often each report was taken up

daemonVars == <<poll, lastRow, handed, today, due, checks, told>>
vars == <<approvalVars, daemonVars>>

Day == 0..MaxDays + 1
Off == [at |-> "off", next |-> 0, upTo |-> 0]

DaemonInit ==
    /\ ApprovalInit
    /\ poll = Off /\ lastRow = 0 /\ handed = << >>
    /\ today = 0 /\ due = 1 /\ checks = << >> /\ told = [d \in Day |-> 0]

-----------------------------------------------------------------------------
SomebodyWrites ==
    /\ Len(inbox) < MaxWritten
    /\ \E person \in Person, kind \in Kinds :
         inbox' = Append(inbox, [from |-> person, kind |-> kind])
    /\ UNCHANGED <<requests, consumed, daemonVars>>

(* poll(), which isPolling keeps from overlapping itself.                  *)
StartPoll ==
    /\ poll = Off
    /\ poll' = [at |-> "messages", next |-> lastRow + 1, upTo |-> Len(inbox)]
    /\ UNCHANGED <<approvalVars, lastRow, handed, today, due, checks, told>>

(* Mutant of Advanced: the rows count as read when the batch is through.   *)
AdvancedAtTheEnd(r) == IF r = poll.upTo THEN r ELSE lastRow

(* The row counts as read before it is handled.                            *)
Advanced(r) == r

(* Mutant of PassedOver: nobody asks wasConsumed().                        *)
PassedOverNever(r) == FALSE

(* A request's own poller has read the row.                                *)
PassedOver(r) == inbox[r].kind # "command" /\ ~IsAnswer(r) /\ r \in consumed

(* A command is awaited, an answer resolves a request, what a request's    *)
(* own poller has consumed is passed over, and the rest is handed over.    *)
HandleMessage ==
    LET r == poll.next
        on == [poll EXCEPT !.next = r + 1]
    IN /\ poll.at = "messages" /\ r <= poll.upTo
       /\ lastRow' = Advanced(r)
       /\ \/ /\ inbox[r].kind = "command"
             /\ poll' = [on EXCEPT !.at = "answering"]
             /\ UNCHANGED <<approvalVars, handed>>
          \/ /\ IsAnswer(r)
             /\ TryResolve(r)
             /\ poll' = on /\ UNCHANGED handed
          \/ /\ PassedOver(r)
             /\ poll' = on /\ UNCHANGED <<approvalVars, handed>>
          \/ /\ inbox[r].kind # "command" /\ ~IsAnswer(r) /\ ~PassedOver(r)
             /\ handed' = Append(handed, r)
             /\ poll' = on /\ UNCHANGED approvalVars
       /\ UNCHANGED <<today, due, checks, told>>

(* Mutant of CommandAnswered: isPolling stays set after an error.          *)
CommandAnsweredStuck ==
    /\ poll.at = "answering"
    /\ \/ poll' = [poll EXCEPT !.at = "messages"]
       \/ poll' = [poll EXCEPT !.at = "stuck"]
    /\ UNCHANGED <<approvalVars, lastRow, handed, today, due, checks, told>>

(* The command is answered, or failed: an error ends the poll, and the     *)
(* next one reads what is left again.                                      *)
CommandAnswered ==
    /\ poll.at = "answering"
    /\ \/ poll' = [poll EXCEPT !.at = "messages"]
       \/ poll' = Off
    /\ UNCHANGED <<approvalVars, lastRow, handed, today, due, checks, told>>

-----------------------------------------------------------------------------
(* checkDueJobs() as far as the handler of the report, which is awaited.   *)
IsDue == due <= today
StartCheck == checks' = Append(checks, [now |-> today, for |-> due])

(* tick() does nothing here; stale requests expire, and the poll is over.  *)
EndPoll == ExpireStale /\ poll' = Off

(* After its messages the poll checks the jobs.                            *)
CheckJobs ==
    /\ poll.at = "messages" /\ poll.next > poll.upTo
    /\ \/ /\ IsDue /\ StartCheck
          /\ poll' = [poll EXCEPT !.at = "jobs"]
          /\ UNCHANGED approvalVars
       \/ /\ ~IsDue /\ EndPoll
          /\ UNCHANGED checks
    /\ UNCHANGED <<lastRow, handed, today, due, told>>

(* Mutant of NextFireTime: 8 o'clock today is taken for the next.          *)
FireTimeFrom(now) == now

NextFireTime(now) == now + 1

(* The summary is voiced and sent, or that has failed, which the handler   *)
(* keeps to itself; the job is put off to the next 8 o'clock after the     *)
(* check started.                                                          *)
EndCheck(k) ==
    /\ told' = [told EXCEPT ![checks[k].for] = @ + 1]
    /\ due' = NextFireTime(checks[k].now)
    /\ checks' = RemoveAt(checks, k)

ReportSent ==
    /\ \E k \in DOMAIN checks : EndCheck(k)
    /\ EndPoll
    /\ UNCHANGED <<lastRow, handed, today>>

EightOClock ==
    /\ today < MaxDays
    /\ today' = today + 1
    /\ UNCHANGED <<approvalVars, poll, lastRow, handed, due, checks, told>>

-----------------------------------------------------------------------------
PollStep ==
    \/ StartPoll \/ HandleMessage \/ CommandAnswered
    \/ CheckJobs \/ ReportSent

PersonAsks ==
    /\ \E person \in Person : RequestApproval(person)
    /\ UNCHANGED daemonVars

WaiterWakes ==
    /\ \E i \in DOMAIN requests : WaiterTurn(i)
    /\ UNCHANGED daemonVars

DaemonNext ==
    \/ SomebodyWrites \/ PersonAsks \/ WaiterWakes
    \/ PollStep \/ EightOClock

(* The interval, and what its poll awaits, go on.                          *)
DaemonSpec == DaemonInit /\ [][DaemonNext]_vars /\ WF_vars(PollStep)

-----------------------------------------------------------------------------
(* Types: at most one check of the jobs is under way.                      *)
DaemonTypeOK ==
    /\ inbox \in Seq([from : Person, kind : Kinds]) /\ Len(inbox) <= MaxWritten
    /\ requests \in Seq(Request) /\ consumed \subseteq DOMAIN inbox
    /\ poll \in [at : {"off", "messages", "answering", "jobs"}, next : Nat, upTo : Nat]
    /\ lastRow \in 0..Len(inbox) /\ handed \in Seq(DOMAIN inbox)
    /\ today \in 0..MaxDays /\ due \in Day /\ told \in [Day -> Nat]
    /\ checks \in Seq([now : Day, for : Day]) /\ Len(checks) <= 1

(* What is handed over is handed over once and in the order of the rows,   *)
(* also when an error ends a poll in the middle of its messages and the    *)
(* next one reads the rest again (daemon.ts, 843-849).                     *)
HandedOnce ==
    \A i, j \in DOMAIN handed : i < j => handed[i] < handed[j]

(* An answer is an answer: the message that approved or denied a command   *)
(* is not worked on as a task as well, whichever of the two pollers saw it *)
(* first ("so the main poll loop can skip it", bridge.ts, 136).            *)
AnswerIsNotATask ==
    \A i \in DOMAIN requests : requests[i].row # 0 => requests[i].row \notin Range(handed)

(* A report is taken up once, however long it takes to write: the check of *)
(* the jobs "runs inside the isPolling guard" (checker.ts, 36).            *)
ReportedOnce == \A d \in Day : told[d] <= 1

(* Every message gets to the FastLoop, whatever commands fail in the polls *)
(* before it, unless the poller of a request of the same person has taken  *)
(* it (daemon.ts poll).                                                    *)
EveryMessageHeard ==
    \A r \in 1..MaxWritten :
      (r <= Len(inbox) /\ inbox[r].kind = "task")
        ~> r \in Range(handed) \cup consumed

(* A report that is due is taken up, also when commands fail in the polls  *)
(* before it (daemon.ts poll); whether it is then sent is another matter.  *)
ReportIsTaken == \A d \in 1..MaxDays : d <= today /\ due = d ~> told[d] > 0
=============================================================================
