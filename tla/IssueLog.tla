------------------------------ MODULE IssueLog ------------------------------
(***************************************************************************)
(* The IssueLog (src/autonomous/issue-log.ts): what is wrong, kept in      *)
(* memory and saved by the coordinator's timer.  The issues are kept in    *)
(* the order of their last update; ids grow, so they give the order of     *)
(* filing.  An issue is always filed with the same priority here, and      *)
(* attempts, notes and files are left out.                                 *)
(***************************************************************************)
EXTENDS Integers, Sequences, FiniteSets, Ordered

CONSTANTS
    Titles,         \* what can be wrong
    MaxOpenIssues,  \* config.maxOpenIssues
    MaxTotalIssues, \* config.maxTotalIssues
    MaxIssues,      \* bound: how many issues are ever filed
    MaxSaves        \* bound: how many saves are begun

(* Filed by an agent, by the health check, by the dream's exploration.     *)
TitlePriority == [report |-> "critical", test |-> "medium", fragile |-> "low"]
Severity == [critical |-> 0, high |-> 1, medium |-> 2, low |-> 3]

ASSUME IssueAssumption ==
    /\ Titles \subseteq DOMAIN TitlePriority
    /\ MaxOpenIssues \in Nat \ {0}
    /\ MaxTotalIssues \in Nat \ {0}
    /\ MaxIssues \in Nat
    /\ MaxSaves \in Nat

VARIABLES
    log,        \* data: the issues and the next id
    logFile,    \* what the file holds
    logDirty,   \* has the log changed since it was loaded or saved?
    logSave,    \* what a save under way is writing, if one is
    saves       \* how many saves were begun

issueVars == <<log, logFile, logDirty, logSave, saves>>

Issue == [id : 1..MaxIssues, title : Titles, open : BOOLEAN]
Log == [issues : Seq(Issue), nextId : 1..MaxIssues + 1]
EmptyLog == [issues |-> << >>, nextId |-> 1]

IssuesOf(l) == {l.issues[i] : i \in 1..Len(l.issues)}
OpenIssues == {i \in IssuesOf(log) : i.open}

(* getOpenIssues(): the more severe first, then the older.                 *)
Graver(i, j) ==
    LET rank(k) == Severity[TitlePriority[k.title]]
    IN \/ rank(i) < rank(j)
       \/ rank(i) = rank(j) /\ i.id < j.id

ByGravity ==
    [k \in 1..Cardinality(OpenIssues) |->
       CHOOSE i \in OpenIssues : Cardinality({j \in OpenIssues : Graver(j, i)}) = k - 1]

Rewrite(issues, i) ==
    Append(Filtered(issues, {n \in DOMAIN issues : issues[n].id # i.id}), i)

(* pruneOldIssues(): beyond the total, the closed issues updated longest   *)
(* ago go.                                                                 *)
PrunedIssues(issues) ==
    LET excess == Len(issues) - MaxTotalIssues
        closedUpTo(n) == Cardinality({j \in 1..n : ~issues[j].open})
    IN Filtered(issues, {n \in DOMAIN issues : issues[n].open \/ closedUpTo(n) > excess})

(* Mutant of Expendable: the oldest issue makes room, however severe.      *)
ExpendableAny == {i \in OpenIssues : \A j \in OpenIssues : i.id <= j.id}

(* The issue that is closed to make room: the oldest of low priority.      *)
Expendable ==
    LET low == {i \in OpenIssues : TitlePriority[i.title] = "low"}
    IN {i \in low : \A j \in low : i.id <= j.id}

(* Mutant of WithFiled: no look at what is open already.                   *)
WithFiledAgain(title) ==
    LET room == IF Cardinality(OpenIssues) >= MaxOpenIssues THEN Expendable ELSE {}
        roomy == IF room = {} THEN log.issues
                 ELSE Rewrite(log.issues, [(CHOOSE i \in room : TRUE) EXCEPT !.open = FALSE])
        new == [id |-> log.nextId, title |-> title, open |-> TRUE]
    IN [issues |-> PrunedIssues(Append(roomy, new)), nextId |-> log.nextId + 1]

(* fileIssue(): an open issue of that title is updated; otherwise there is *)
(* a new one, for which another may have to be closed.                     *)
WithFiled(title) ==
    LET same == {i \in OpenIssues : i.title = title}
        room == IF Cardinality(OpenIssues) >= MaxOpenIssues THEN Expendable ELSE {}
        roomy == IF room = {} THEN log.issues
                 ELSE Rewrite(log.issues, [(CHOOSE i \in room : TRUE) EXCEPT !.open = FALSE])
        new == [id |-> log.nextId, title |-> title, open |-> TRUE]
    IN IF same # {}
       THEN [log EXCEPT !.issues = Rewrite(@, CHOOSE i \in same : TRUE)]
       ELSE [issues |-> PrunedIssues(Append(roomy, new)), nextId |-> log.nextId + 1]

FileIssue(title) ==
    /\ log' = WithFiled(title)
    /\ log'.nextId <= MaxIssues + 1
    /\ logDirty' = TRUE
    /\ UNCHANGED <<logFile, logSave, saves>>

(* resolveIssue()                                                          *)
ResolveIssue(i) ==
    /\ log' = [log EXCEPT !.issues = Rewrite(@, [i EXCEPT !.open = FALSE])]
    /\ logDirty' = TRUE
    /\ UNCHANGED <<logFile, logSave, saves>>

(* save() takes a copy of a log that has changed ...                       *)
StartIssueSave ==
    /\ logDirty /\ logSave = {} /\ saves < MaxSaves
    /\ logSave' = {log}
    /\ saves' = saves + 1
    /\ UNCHANGED <<log, logFile, logDirty>>

(* ... and when that is written the log counts as saved, whatever has      *)
(* been filed meanwhile.                                                   *)
EndIssueSave ==
    /\ logSave # {}
    /\ logFile' = CHOOSE l \in logSave : TRUE
    /\ logDirty' = FALSE
    /\ logSave' = {}
    /\ UNCHANGED <<log, saves>>

(* load() puts what the file holds in place of the log.                    *)
LoadIssues ==
    /\ log' = logFile
    /\ logDirty' = FALSE
    /\ UNCHANGED <<logFile, logSave, saves>>

IssueInit ==
    /\ log = EmptyLog /\ logFile = EmptyLog /\ logDirty = FALSE
    /\ logSave = {} /\ saves = 0
=============================================================================
