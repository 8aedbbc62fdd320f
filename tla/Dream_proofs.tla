---------------------------- MODULE Dream_proofs ----------------------------
(***************************************************************************)
(* Proofs about Dream, for any number of issues, goals, experiments and    *)
(* days, and whether git fails or not.  Experiments: a snapshot is on      *)
(* record from the moment the tree was found clean to the end of the       *)
(* experiment, so of the files that a restore takes back none holds what   *)
(* an earlier experiment was accepted with; what the scheduler, the agent  *)
(* and the stores do in between leaves that alone.  Issues: in             *)
(* memory, in the file and in each copy that is being worked on the log is *)
(* without duplicates, and what is pruned comes last in its order.  The    *)
(* stacks: reorganizing works on a goal stack that fits GoalTypes, and     *)
(* gives one.                                                              *)
(***************************************************************************)
EXTENDS Dream, IdleWork_proofs

-----------------------------------------------------------------------------
(* The experiments *)

(* The tree, the snapshot, and where the experiment is.                    *)
TreeTypeOK ==
    /\ tree \subseteq Change
    /\ snapshot \in BOOLEAN
    /\ trial \in {"none", "before", "applying", "after", "undo", "rescue"}

(* An experiment that may still change the tree has its snapshot; its      *)
(* change is in a file that git watches over only with one; an accepted    *)
(* change is there, or staged, only without.                               *)
SnapshotInv ==
    /\ trial \in {"before", "applying", "after", "undo"} => snapshot
    /\ ~snapshot => \A c \in Unstaged : c.by # "trial"
    /\ snapshot => \A c \in Unstaged : c.by # "accepted"

(* Inductive, for the experiments alone and for the whole of Dream.        *)
ResearchInv == TreeTypeOK /\ SnapshotInv

(* A clean tree and no experiment.                                         *)
LEMMA InitHolds == ResearchInit => ResearchInv
  BY DEF ResearchInit, ResearchInv, TreeTypeOK, SnapshotInv, Unstaged

(* What does not concern the experiments.                                  *)
LEMMA StutterKeeps ==
    ASSUME ResearchInv, UNCHANGED <<tree, snapshot, trial>>
    PROVE  ResearchInv'
  BY DEF ResearchInv, TreeTypeOK, SnapshotInv, Unstaged

(* The two ways a restore ends keep the invariant, whatever the experiment *)
(* goes on to, if that is not in need of the snapshot.                     *)
LEMMA RestoreKeeps ==
    ASSUME ResearchInv, Restored \/ NotRestored, trial' \in {"none", "rescue"}
    PROVE  ResearchInv'
  <1>1. tree' \subseteq tree
    BY DEF Restored, NotRestored
  <1>2. tree' \subseteq Change /\ snapshot' \in BOOLEAN /\ Unstaged' \subseteq Unstaged
    BY <1>1 DEF ResearchInv, TreeTypeOK, Restored, NotRestored, Unstaged
  <1>3. CASE Restored
    <2>1. ~snapshot' /\ \A c \in Unstaged' : c.by # "trial"
      <3>1. CASE snapshot
        BY <1>3, <3>1, Zenon DEF Restored, Unstaged
      <3>2. CASE ~snapshot
        BY <1>2, <1>3, <3>2, Zenon DEF Restored, ResearchInv, SnapshotInv
      <3> QED
        BY <3>1, <3>2
    <2> QED
      BY <1>2, <2>1 DEF ResearchInv, TreeTypeOK, SnapshotInv
  <1>4. CASE NotRestored
    <2>1. snapshot /\ snapshot' /\ \A c \in Unstaged' : c.by # "accepted"
      BY <1>2, <1>4, Zenon DEF NotRestored, ResearchInv, SnapshotInv
    <2> QED
      BY <1>2, <2>1 DEF ResearchInv, TreeTypeOK, SnapshotInv
  <1> QED
    BY <1>3, <1>4

(* An experiment begins on a clean tree with a snapshot, or not at all.    *)
LEMMA BeginKeeps == ASSUME ResearchInv, Begin PROVE ResearchInv'
  <1>1. Unstaged' = Unstaged /\ tree' = tree
    BY DEF Begin, Unstaged
  <1>2. CASE Unstaged \cup Staged = {} /\ snapshot' = TRUE /\ trial' = "before"
    <2>1. Unstaged' = {}
      BY <1>1, <1>2
    <2> QED
      BY <1>1, <1>2, <2>1 DEF ResearchInv, TreeTypeOK, SnapshotInv
  <1>3. CASE UNCHANGED snapshot /\ trial' = "rescue"
    BY <1>1, <1>3 DEF ResearchInv, TreeTypeOK, SnapshotInv
  <1> QED
    BY <1>2, <1>3 DEF Begin

(* The tests change nothing but where the experiment is.                   *)
LEMMA TestsKeep ==
    ASSUME ResearchInv, TestedBefore \/ Applied \/ Reject
    PROVE  ResearchInv'
  BY DEF ResearchInv, TreeTypeOK, SnapshotInv, TestedBefore, Applied, Reject, Unstaged

(* An edit of the experiment comes while its snapshot is on record, and    *)
(* staging and committing take changes out of files and put in none.       *)
LEMMA EditsKeep ==
    ASSUME ResearchInv, Edit \/ WorkEdits \/ GitAdd \/ Commit
    PROVE  ResearchInv'
  <1>1. UNCHANGED <<snapshot, trial>>
    BY DEF Edit, WorkEdits, GitAdd, Commit
  <1>2. CASE Edit
    <2>1. PICK at \in {"file", "ignored"} : tree' = tree \cup {[by |-> "trial", at |-> at]}
      BY <1>2 DEF Edit
    <2>2. tree' \subseteq Change
      BY <2>1 DEF ResearchInv, TreeTypeOK, Change
    <2>3. \A c \in Unstaged' : c \in Unstaged \/ c.by = "trial"
      BY <2>1 DEF Unstaged
    <2>4. snapshot
      BY <1>2 DEF Edit, ResearchInv, SnapshotInv
    <2> QED
      BY <1>1, <2>2, <2>3, <2>4 DEF ResearchInv, TreeTypeOK, SnapshotInv
  <1>3. CASE WorkEdits
    <2>1. tree' \subseteq Change
      BY <1>3 DEF WorkEdits, ResearchInv, TreeTypeOK, Change
    <2>2. \A c \in Unstaged' : c \in Unstaged \/ c.by = "work"
      BY <1>3 DEF WorkEdits, Unstaged
    <2> QED
      BY <1>1, <2>1, <2>2 DEF ResearchInv, TreeTypeOK, SnapshotInv
  <1>4. CASE GitAdd
    <2>1. PICK files \in SUBSET Unstaged :
            tree' = (tree \ files) \cup {[c EXCEPT !.at = "index"] : c \in files}
      BY <1>4 DEF GitAdd
    <2>2. \A c \in files : /\ [c EXCEPT !.at = "index"] \in Change
                          /\ [c EXCEPT !.at = "index"].at = "index"
      <3>1. \A c \in files : c \in Change
        BY DEF Unstaged, ResearchInv, TreeTypeOK
      <3> QED
        BY <3>1 DEF Change
    <2>3. tree' \subseteq Change
      BY <2>1, <2>2 DEF ResearchInv, TreeTypeOK
    <2>4. Unstaged' \subseteq Unstaged
      BY <2>1, <2>2 DEF Unstaged
    <2> QED
      BY <1>1, <2>3, <2>4 DEF ResearchInv, TreeTypeOK, SnapshotInv
  <1>5. CASE Commit
    <2>1. tree' \subseteq tree
      BY <1>5 DEF Commit
    <2>2. Unstaged' \subseteq Unstaged
      BY <2>1 DEF Unstaged
    <2> QED
      BY <1>1, <2>1, <2>2 DEF ResearchInv, TreeTypeOK, SnapshotInv
  <1> QED
    BY <1>2, <1>3, <1>4, <1>5

(* What becomes of a tree that is accepted: no change of the experiment is *)
(* left as such.                                                           *)
LEMMA AcceptedTree ==
    ASSUME TreeTypeOK
    PROVE  /\ TrialAccepted \subseteq Change
           /\ \A c \in TrialAccepted : c.by # "trial"
           /\ \A c \in tree : c.by # "trial" => c \in TrialAccepted
  <1>1. ASSUME NEW c \in tree
        PROVE  /\ c \in Change
               /\ [c EXCEPT !.by = "accepted"] \in Change
               /\ [c EXCEPT !.by = "accepted"].by = "accepted"
    BY DEF TreeTypeOK, Change
  <1> QED
    BY <1>1 DEF TrialAccepted

(* An accepted change takes the place of the snapshot.                     *)
LEMMA AcceptKeeps == ASSUME ResearchInv, Accept PROVE ResearchInv'
  <1>1. tree' = TrialAccepted /\ snapshot' = FALSE /\ trial' = "none"
    BY DEF Accept
  <1>2. tree' \subseteq Change /\ \A c \in tree' : c.by # "trial"
    BY <1>1, AcceptedTree DEF ResearchInv
  <1> QED
    BY <1>1, <1>2 DEF ResearchInv, TreeTypeOK, SnapshotInv, Unstaged

(* Every step of an experiment.                                            *)
LEMMA ExperimentKeeps == ASSUME ResearchInv, ExperimentStep PROVE ResearchInv'
  <1>1. CASE Begin
    BY <1>1, BeginKeeps
  <1>2. CASE Forbidden
    BY <1>2, StutterKeeps DEF Forbidden
  <1>3. CASE TestedBefore \/ Applied \/ Reject
    BY <1>3, TestsKeep
  <1>4. CASE Edit
    BY <1>4, EditsKeep
  <1>5. CASE Accept
    BY <1>5, AcceptKeeps
  <1>6. CASE Undo \/ Rescue
    <2>1. (Restored \/ NotRestored) /\ trial' \in {"none", "rescue"}
      BY <1>6 DEF Undo, Rescue
    <2> QED
      BY <2>1, RestoreKeeps
  <1> QED
    BY <1>1, <1>2, <1>3, <1>4, <1>5, <1>6 DEF ExperimentStep

(* No step of an experiment takes an accepted change out of the tree: only *)
(* a restore removes anything, of what is not staged, and there is no      *)
(* accepted change in that while a snapshot is on record.                  *)
LEMMA ExperimentSpares ==
    ASSUME ResearchInv, ExperimentStep, NEW c \in tree, c.by = "accepted"
    PROVE  c \in tree'
  <1>1. snapshot => c \notin Unstaged
    BY DEF ResearchInv, SnapshotInv
  <1>2. CASE Begin \/ Forbidden \/ TestedBefore \/ Edit \/ Applied \/ Reject
    BY <1>2 DEF Begin, Forbidden, TestedBefore, Edit, Applied, Reject
  <1>3. CASE Accept
    BY <1>3, AcceptedTree DEF Accept, ResearchInv
  <1>4. CASE Undo \/ Rescue
    BY <1>1, <1>4 DEF Undo, Rescue, Restored, NotRestored
  <1> QED
    BY <1>2, <1>3, <1>4 DEF ExperimentStep

(* What a step of the whole system is to the experiments.                  *)
LEMMA StepIsResearch ==
    ASSUME [Next]_vars
    PROVE  \/ ExperimentStep \/ WorkEdits \/ GitAdd \/ Commit
           \/ UNCHANGED <<tree, snapshot, trial>>
  <1> USE DEF researchVars
  <1>1. CASE IdleStep(IdleNext)
    BY <1>1 DEF IdleStep
  <1>2. CASE AgentActs
    BY <1>2 DEF AgentActs
  <1>3. CASE SaveIssues \/ ShowIssues
    BY <1>3 DEF SaveIssues, ShowIssues
  <1>4. CASE NewDay
    BY <1>4 DEF NewDay
  <1>5. CASE DreamStep
    <2>1. CASE Doze \/ Rouse \/ FallAsleep
      BY <2>1 DEF Doze, Rouse, FallAsleep
    <2>2. CASE Reorganize
      BY <2>2, Zenon DEF Reorganize
    <2>3. CASE Explore
      BY <2>3 DEF Explore
    <2>4. CASE HealthCheck
      BY <2>4 DEF HealthCheck
    <2>5. CASE Research
      BY <2>5 DEF Research, StartResearch
    <2>6. CASE Experiments
      BY <2>6 DEF Experiments
    <2>7. CASE WakeUp
      BY <2>7 DEF WakeUp
    <2> QED
      BY <1>5, <2>1, <2>2, <2>3, <2>4, <2>5, <2>6, <2>7 DEF DreamStep
  <1>6. CASE UNCHANGED vars
    BY <1>6 DEF vars
  <1> QED
    BY <1>1, <1>2, <1>3, <1>4, <1>5, <1>6 DEF Next

(* ResearchInv is inductive for the whole system.                          *)
LEMMA StepKeeps == ASSUME ResearchInv, [Next]_vars PROVE ResearchInv'
  BY StepIsResearch, ExperimentKeeps, EditsKeep, StutterKeeps

(* The invariant of the experiments holds in every state of the system.    *)
THEOREM ResearchInvariant == Spec => []ResearchInv
  <1>1. Init => ResearchInv
    BY InitHolds DEF Init
  <1>2. ResearchInv /\ [Next]_vars => ResearchInv'
    BY StepKeeps
  <1> QED
    BY <1>1, <1>2, PTL DEF Spec

(* Between experiments, no file that git watches over holds a change of    *)
(* one that was not accepted without a snapshot on record (autoresearch.ts *)
(* restoreSnapshot); what was staged and what is ignored is left.          *)
THEOREM RejectedGone == Spec => []RejectedIsGone
  <1>1. ResearchInv => RejectedIsGone
    <2> SUFFICES ASSUME ResearchInv, ~snapshot, [by |-> "trial", at |-> "file"] \in tree
                 PROVE  FALSE
      BY DEF RejectedIsGone
    <2>1. [by |-> "trial", at |-> "file"] \in Unstaged
      BY DEF Unstaged
    <2> QED
      BY <2>1 DEF ResearchInv, SnapshotInv
  <1> QED
    BY <1>1, ResearchInvariant, PTL

(* No experiment takes a change back that an earlier one was accepted      *)
(* with: it leaves the tree by being staged and committed                  *)
(* (autoresearch.ts createSnapshot).                                       *)
THEOREM AcceptedStays == Spec => AcceptedChangeStays
  <1>1. ResearchInv /\ [Next]_vars
          => [\A c \in tree \ tree' : c.by = "accepted" => GitAdd \/ Commit]_researchVars
    <2> SUFFICES ASSUME ResearchInv, [Next]_vars,
                        NEW c \in tree \ tree', c.by = "accepted"
                 PROVE  GitAdd \/ Commit
      OBVIOUS
    <2>1. CASE ExperimentStep
      BY <2>1, ExperimentSpares
    <2>2. CASE WorkEdits
      BY <2>2 DEF WorkEdits
    <2>3. CASE UNCHANGED <<tree, snapshot, trial>>
      BY <2>3
    <2> QED
      BY <2>1, <2>2, <2>3, StepIsResearch
  <1> QED
    BY <1>1, ResearchInvariant, PTL DEF Spec, AcceptedChangeStays

-----------------------------------------------------------------------------
(* The issues.  As in the stack of goals, an id may go past MaxIssues      *)
(* before the guard of its action sees it.                                 *)
AnyIssue == [id : Nat \ {0}, title : Titles, open : BOOLEAN]

(* What every log keeps to: an id for each issue, and at most one open     *)
(* issue for each title.                                                   *)
IssuesOK(issues) ==
    /\ issues \in Seq(AnyIssue) /\ DistinctIds(issues)
    /\ \A i, j \in Range(issues) : i.open /\ j.open /\ i.title = j.title => i = j

LogOK(l) ==
    /\ l \in [issues : Seq(AnyIssue), nextId : 1..MaxIssues + 1]
    /\ IssuesOK(l.issues)
    /\ \A i \in Range(l.issues) : i.id < l.nextId

LogInv ==
    /\ LogOK(log) /\ LogOK(logFile)
    /\ \A l \in logSave : LogOK(l)
    /\ logDirty \in BOOLEAN /\ saves \in 0..MaxSaves

(* IssuesOf() is the set of a log's issues.                                *)
LEMMA IssuesOfLog ==
  ASSUME NEW l, LogOK(l)
  PROVE  /\ IssuesOf(l) = Range(l.issues)
         /\ \A i \in IssuesOf(l) : /\ i \in AnyIssue /\ i.id < l.nextId
                                   /\ i.id \in Nat \ {0} /\ i.title \in Titles
<1>1. IssuesOf(l) = Range(l.issues)
  BY DEF IssuesOf, LogOK, IssuesOK, Range
<1>2. \A i \in Range(l.issues) : i \in AnyIssue /\ i.id < l.nextId
  BY DEF LogOK, IssuesOK, Range
<1> QED
  BY <1>1, <1>2 DEF AnyIssue

(* An issue that takes the place of that with its id, open only if that    *)
(* was, leaves at most one open for each title.                            *)
LEMMA RewriteKeeps ==
  ASSUME NEW issues, IssuesOK(issues), NEW old \in Range(issues), NEW i \in AnyIssue,
         i.id = old.id, i.title = old.title, i.open => old.open
  PROVE  /\ IssuesOK(Rewrite(issues, i))
         /\ Range(Rewrite(issues, i)) = {j \in Range(issues) : j.id # i.id} \cup {i}
<1> DEFINE r == Rewrite(issues, i)
<1>1. /\ r \in Seq(AnyIssue) /\ DistinctIds(r)
      /\ Range(r) = {j \in Range(issues) : j.id # i.id} \cup {i}
  BY OneRewritten DEF Rewrite, IssuesOK
<1> HIDE DEF r
<1>2. ASSUME NEW j \in Range(r), NEW k \in Range(r), j.open, k.open, j.title = k.title
      PROVE  j = k
  <2>1. CASE j = i /\ k # i
    BY <1>1, <1>2, <2>1 DEF IssuesOK
  <2>2. CASE k = i /\ j # i
    BY <1>1, <1>2, <2>2 DEF IssuesOK
  <2>3. CASE j # i /\ k # i
    BY <1>1, <1>2, <2>3 DEF IssuesOK
  <2> QED
    BY <2>1, <2>2, <2>3
<1> QED
  BY <1>1, <1>2 DEF IssuesOK, r

(* Pruning takes no issue that is open.                                    *)
LEMMA PruneKeeps ==
  ASSUME NEW issues, IssuesOK(issues)
  PROVE  /\ IssuesOK(PrunedIssues(issues))
         /\ Range(PrunedIssues(issues)) \subseteq Range(issues)
         /\ \A i \in Range(issues) : i.open => i \in Range(PrunedIssues(issues))
<1> DEFINE closedUpTo(n) == Cardinality({j \in 1..n : ~issues[j].open})
           kept == {n \in DOMAIN issues : \/ issues[n].open
                                          \/ closedUpTo(n) > Len(issues) - MaxTotalIssues}
           r == PrunedIssues(issues)
<1>1. r = Filtered(issues, kept)
  BY Zenon DEF PrunedIssues
<1>2. kept \in SUBSET (DOMAIN issues) /\ \A n \in DOMAIN issues : issues[n].open => n \in kept
  OBVIOUS
<1> HIDE DEF kept, r
<1>3. /\ r \in Seq(AnyIssue) /\ DistinctIds(r) /\ Range(r) = {issues[n] : n \in kept}
  BY <1>1, <1>2, FilteredKeeps, FilteredIds DEF IssuesOK
<1>4. Range(issues) = {issues[n] : n \in DOMAIN issues}
  BY DEF Range
<1>5. Range(r) \subseteq Range(issues)
  BY <1>2, <1>3, <1>4
<1> QED
  BY <1>2, <1>3, <1>4, <1>5 DEF IssuesOK, r

(* An issue of a new id and of a title that no open issue has joins them.  *)
LEMMA NewIssueKeeps ==
  ASSUME NEW issues, IssuesOK(issues), NEW i \in AnyIssue,
         \A j \in Range(issues) : j.id # i.id,
         \A j \in Range(issues) : j.open => j.title # i.title
  PROVE  /\ IssuesOK(Append(issues, i))
         /\ Range(Append(issues, i)) = Range(issues) \cup {i}
<1> DEFINE r == Append(issues, i)
<1>1. /\ r \in Seq(AnyIssue) /\ DistinctIds(r) /\ Range(r) = Range(issues) \cup {i}
  BY AppendedId, RangeAppend DEF IssuesOK
<1> HIDE DEF r
<1>2. \A j, k \in Range(r) : j.open /\ k.open /\ j.title = k.title => j = k
  BY <1>1 DEF IssuesOK
<1> QED
  BY <1>1, <1>2 DEF IssuesOK, r

(* fileIssue(): what becomes of the log.  An open issue stays open unless  *)
(* it is of low priority.                                                  *)
LEMMA FilingKeeps ==
  ASSUME LogOK(log), NEW title \in Titles, WithFiled(title).nextId <= MaxIssues + 1
  PROVE  /\ LogOK(WithFiled(title))
         /\ \A i \in OpenIssues : TitlePriority[i.title] # "low" =>
              i \in IssuesOf(WithFiled(title))
<1> DEFINE same == {i \in OpenIssues : i.title = title}
           room == IF Cardinality(OpenIssues) >= MaxOpenIssues THEN Expendable ELSE {}
           closed == [(CHOOSE i \in room : TRUE) EXCEPT !.open = FALSE]
           roomy == IF room = {} THEN log.issues ELSE Rewrite(log.issues, closed)
           new == [id |-> log.nextId, title |-> title, open |-> TRUE]
           result == WithFiled(title)
<1>1. result = IF same # {}
               THEN [log EXCEPT !.issues = Rewrite(@, CHOOSE i \in same : TRUE)]
               ELSE [issues |-> PrunedIssues(Append(roomy, new)), nextId |-> log.nextId + 1]
  BY Zenon DEF WithFiled
<1>2. /\ IssuesOK(log.issues) /\ IssuesOf(log) = Range(log.issues)
      /\ log \in [issues : Seq(AnyIssue), nextId : 1..MaxIssues + 1]
      /\ \A i \in IssuesOf(log) : i \in AnyIssue /\ i.id < log.nextId /\ i.id \in Nat
      /\ log.nextId \in Nat \ {0} /\ MaxIssues \in Nat
  BY IssuesOfLog, IssueAssumption DEF LogOK
<1>3. \A i \in OpenIssues : i \in IssuesOf(log) /\ i.open
  BY DEF OpenIssues
<1>4. room \subseteq {i \in OpenIssues : TitlePriority[i.title] = "low"}
  BY DEF Expendable
<1> HIDE DEF room, result
<1>5. CASE same # {}
  <2> DEFINE i == CHOOSE i \in same : TRUE
  <2>1. i \in IssuesOf(log) /\ i \in AnyIssue
    BY <1>2, <1>3, <1>5
  <2>2. result = [log EXCEPT !.issues = Rewrite(@, i)]
    BY <1>1, <1>5
  <2> HIDE DEF i
  <2>3. /\ IssuesOK(Rewrite(log.issues, i))
        /\ Range(Rewrite(log.issues, i)) = {j \in Range(log.issues) : j.id # i.id} \cup {i}
    BY <1>2, <2>1, RewriteKeeps
  <2>4. \A j \in Range(log.issues) : j.id = i.id => j = i
    BY <1>2, <2>1, OneOfEachId DEF IssuesOK
  <2>5. Range(Rewrite(log.issues, i)) = Range(log.issues)
    BY <1>2, <2>1, <2>3, <2>4
  <2>6. /\ result.issues = Rewrite(log.issues, i) /\ result.nextId = log.nextId
        /\ result \in [issues : Seq(AnyIssue), nextId : 1..MaxIssues + 1]
    BY <1>2, <2>2, <2>3 DEF IssuesOK
  <2>7. LogOK(result)
    BY <1>2, <2>3, <2>5, <2>6 DEF LogOK
  <2>8. IssuesOf(result) = IssuesOf(log)
    BY <1>2, <2>5, <2>6, <2>7, IssuesOfLog
  <2> QED
    BY <1>3, <2>7, <2>8 DEF result
<1>6. CASE same = {}
  <2>1. ASSUME room # {}
        PROVE  /\ IssuesOK(roomy)
               /\ \A j \in Range(roomy) : j.id < log.nextId /\ j.id \in Nat
               /\ \A j \in Range(roomy) : j.open => j \in OpenIssues
               /\ \A j \in OpenIssues : TitlePriority[j.title] # "low" => j \in Range(roomy)
    <3> DEFINE one == CHOOSE i \in room : TRUE
    <3>1. /\ one \in Range(log.issues) /\ one \in AnyIssue
          /\ TitlePriority[one.title] = "low"
          /\ one.id < log.nextId /\ one.id \in Nat
      BY <1>2, <1>3, <1>4, <2>1
    <3> HIDE DEF one
    <3>2. [one EXCEPT !.open = FALSE] \in AnyIssue
      BY <3>1 DEF AnyIssue
    <3>3. /\ [one EXCEPT !.open = FALSE].id = one.id
          /\ [one EXCEPT !.open = FALSE].title = one.title
          /\ [one EXCEPT !.open = FALSE].open = FALSE
      BY <3>1 DEF AnyIssue
    <3>4. /\ closed \in AnyIssue /\ closed.id = one.id /\ closed.title = one.title
          /\ closed.open = FALSE
      BY <3>2, <3>3 DEF one
    <3> HIDE DEF closed
    <3>5. /\ IssuesOK(Rewrite(log.issues, closed))
          /\ Range(Rewrite(log.issues, closed))
               = {j \in Range(log.issues) : j.id # closed.id} \cup {closed}
      BY <1>2, <3>1, <3>4, RewriteKeeps
    <3>6. roomy = Rewrite(log.issues, closed)
      BY <2>1
    <3>7. \A j \in Range(log.issues) : j.id = one.id => j = one
      BY <1>2, <3>1, OneOfEachId DEF IssuesOK
    <3> HIDE DEF roomy
    <3>8. \A j \in Range(roomy) : j.open => j \in OpenIssues
      BY <1>2, <3>4, <3>5, <3>6 DEF OpenIssues
    <3>9. \A j \in OpenIssues : TitlePriority[j.title] # "low" => j \in Range(roomy)
      BY <1>2, <1>3, <3>1, <3>4, <3>5, <3>6, <3>7
    <3>10. \A j \in Range(roomy) : j.id < log.nextId /\ j.id \in Nat
      BY <1>2, <3>1, <3>4, <3>5, <3>6
    <3> QED
      BY <3>5, <3>6, <3>8, <3>9, <3>10
  <2>2. /\ IssuesOK(roomy)
        /\ \A j \in Range(roomy) : j.id < log.nextId /\ j.id \in Nat
        /\ \A j \in Range(roomy) : j.open => j \in OpenIssues
        /\ \A j \in OpenIssues : TitlePriority[j.title] # "low" => j \in Range(roomy)
    <3>1. CASE room = {}
      BY <1>2, <3>1 DEF OpenIssues
    <3> QED
      BY <2>1, <3>1
  <2> HIDE DEF roomy
  <2>3. /\ new \in AnyIssue /\ new.id = log.nextId /\ new.title = title
    BY <1>2 DEF AnyIssue
  <2>4. \A j \in Range(roomy) : j.open => j.title # title
    BY <1>6, <2>2
  <2>5. \A j \in Range(roomy) : j.id # log.nextId
    BY <1>2, <2>2
  <2> HIDE DEF new
  <2> DEFINE more == Append(roomy, new)
  <2>6. IssuesOK(more) /\ Range(more) = Range(roomy) \cup {new}
    BY <2>2, <2>3, <2>4, <2>5, NewIssueKeeps
  <2> HIDE DEF more
  <2>7. /\ IssuesOK(PrunedIssues(more))
        /\ Range(PrunedIssues(more)) \subseteq Range(more)
        /\ \A i \in Range(more) : i.open => i \in Range(PrunedIssues(more))
    BY <2>6, PruneKeeps
  <2>8. /\ result.issues = PrunedIssues(more) /\ result.nextId = log.nextId + 1
        /\ result = [issues |-> PrunedIssues(more), nextId |-> log.nextId + 1]
    BY <1>1, <1>6 DEF more
  <2>9. log.nextId + 1 \in 1..MaxIssues + 1
    BY <1>2, <2>8 DEF result
  <2>10. \A j \in Range(more) : j.id < log.nextId + 1
    BY <1>2, <2>2, <2>3, <2>6
  <2>11. LogOK(result)
    BY <2>7, <2>8, <2>9, <2>10 DEF LogOK, IssuesOK
  <2>12. IssuesOf(result) = Range(PrunedIssues(more))
    BY <2>8, <2>11, IssuesOfLog
  <2> QED
    BY <1>3, <2>2, <2>6, <2>7, <2>11, <2>12 DEF result
<1> QED
  BY <1>5, <1>6

(* Every step of the log keeps LogInv.                                     *)
LEMMA FileKeepsLog ==
  ASSUME LogInv, NEW title \in Titles, FileIssue(title)
  PROVE  LogInv'
BY FilingKeeps DEF LogInv, FileIssue

(* An issue that is resolved is closed and stays in the log.               *)
LEMMA ResolveKeepsLog ==
  ASSUME LogInv, NEW i \in IssuesOf(log), ResolveIssue(i)
  PROVE  LogInv'
<1> DEFINE closed == [i EXCEPT !.open = FALSE]
<1>1. /\ i \in Range(log.issues) /\ i \in AnyIssue /\ i.id < log.nextId
      /\ IssuesOK(log.issues)
      /\ log \in [issues : Seq(AnyIssue), nextId : 1..MaxIssues + 1]
      /\ \A j \in Range(log.issues) : j.id < log.nextId
  BY IssuesOfLog DEF LogInv, LogOK
<1>2. /\ closed \in AnyIssue /\ closed.id = i.id /\ closed.title = i.title
      /\ closed.open = FALSE
  BY <1>1 DEF AnyIssue
<1>3. log' = [log EXCEPT !.issues = Rewrite(@, closed)]
  BY DEF ResolveIssue
<1> HIDE DEF closed
<1>4. /\ IssuesOK(Rewrite(log.issues, closed))
      /\ Range(Rewrite(log.issues, closed))
           = {j \in Range(log.issues) : j.id # closed.id} \cup {closed}
  BY <1>1, <1>2, RewriteKeeps
<1>5. /\ log'.issues = Rewrite(log.issues, closed) /\ log'.nextId = log.nextId
      /\ log' \in [issues : Seq(AnyIssue), nextId : 1..MaxIssues + 1]
  BY <1>1, <1>3, <1>4 DEF IssuesOK
<1>6. LogOK(log')
  BY <1>1, <1>2, <1>4, <1>5 DEF LogOK
<1> QED
  BY <1>6 DEF LogInv, ResolveIssue

(* A save writes a log that was in memory.                                 *)
LEMMA SavingKeepsLog ==
  ASSUME LogInv, StartIssueSave \/ EndIssueSave \/ LoadIssues
  PROVE  LogInv'
<1>1. CASE StartIssueSave
  BY <1>1, IssueAssumption DEF LogInv, StartIssueSave
<1>2. CASE EndIssueSave
  BY <1>2 DEF LogInv, EndIssueSave
<1>3. CASE LoadIssues
  BY <1>3 DEF LogInv, LoadIssues
<1> QED
  BY <1>1, <1>2, <1>3

(* What a step of the whole system is to the issues.                       *)
LEMMA StepIsIssues ==
  ASSUME [Next]_vars
  PROVE  \/ \E title \in Titles : FileIssue(title)
         \/ inHand # {} /\ \E i \in IssuesOf(log) : ResolveIssue(i)
         \/ StartIssueSave \/ EndIssueSave \/ LoadIssues
         \/ UNCHANGED issueVars
<1>1. CASE IdleStep(IdleNext)
  BY <1>1 DEF IdleStep
<1>2. CASE AgentActs
  BY <1>2 DEF AgentActs
<1>3. CASE SaveIssues \/ ShowIssues
  BY <1>3 DEF SaveIssues, ShowIssues
<1>4. CASE NewDay
  BY <1>4 DEF NewDay
<1>5. CASE DreamStep
  <2>1. CASE Doze \/ Rouse \/ FallAsleep
    BY <2>1 DEF Doze, Rouse, FallAsleep
  <2>2. CASE Reorganize
    BY <2>2, Zenon DEF Reorganize, issueVars
  <2>3. CASE Explore
    BY <2>3 DEF Explore
  <2>4. CASE HealthCheck
    BY <2>4 DEF HealthCheck
  <2>5. CASE Research
    BY <2>5 DEF Research
  <2>6. CASE Experiments
    BY <2>6 DEF Experiments
  <2>7. CASE WakeUp
    BY <2>7 DEF WakeUp
  <2> QED
    BY <1>5, <2>1, <2>2, <2>3, <2>4, <2>5, <2>6, <2>7 DEF DreamStep
<1>6. CASE UNCHANGED vars
  BY <1>6 DEF vars
<1> QED
  BY <1>1, <1>2, <1>3, <1>4, <1>5, <1>6 DEF Next

(* An empty log, in memory and in the file.                                *)
LEMMA InitLog == ASSUME IssueInit PROVE LogInv
<1>1. LogOK(EmptyLog)
  BY IssueAssumption DEF EmptyLog, LogOK, IssuesOK, DistinctIds, Range
<1>2. LogOK(log) /\ LogOK(logFile) /\ \A l \in logSave : LogOK(l)
  BY <1>1, Zenon DEF IssueInit
<1>3. saves \in 0..MaxSaves
  BY IssueAssumption DEF IssueInit
<1>4. logDirty \in BOOLEAN
  BY Zenon DEF IssueInit
<1> QED
  BY <1>2, <1>3, <1>4, Zenon DEF LogInv

(* LogInv is inductive for the whole system.                               *)
LEMMA StepKeepsLog == ASSUME LogInv, [Next]_vars PROVE LogInv'
<1>1. CASE \E title \in Titles : FileIssue(title)
  BY <1>1, FileKeepsLog
<1>2. CASE \E i \in IssuesOf(log) : ResolveIssue(i)
  BY <1>2, ResolveKeepsLog
<1>3. CASE StartIssueSave \/ EndIssueSave \/ LoadIssues
  BY <1>3, SavingKeepsLog
<1>4. CASE UNCHANGED issueVars
  BY <1>4 DEF LogInv, issueVars
<1> QED
  BY <1>1, <1>2, <1>3, <1>4, StepIsIssues

(* Whatever the log is loaded from, whenever, and whoever has filed        *)
(* meanwhile: the memory, the file and the save under way are logs.        *)
THEOREM LogInvariant == Spec => []LogInv
<1>1. Init => LogInv
  BY InitLog DEF Init
<1>2. LogInv /\ [Next]_vars => LogInv'
  BY StepKeepsLog
<1> QED
  BY <1>1, <1>2, PTL DEF Spec

(* At most one open issue is about the same thing (issue-log.ts            *)
(* fileIssue).                                                             *)
THEOREM NoIssueTwice == Spec => []NoDuplicateIssue
<1>1. LogInv => NoDuplicateIssue
  BY IssuesOfLog DEF LogInv, LogOK, IssuesOK, NoDuplicateIssue, OpenIssues
<1> QED
  BY <1>1, LogInvariant, PTL

(* Filing closes no issue but one of low priority, so that a grave issue   *)
(* stays open until an agent at work resolves it (issue-log.ts fileIssue). *)
THEOREM GraveIssuesKept == Spec => GraveIssuesStay
<1>1. LogInv /\ [Next]_vars =>
        [inHand = {} /\ log' # logFile =>
           \A i \in OpenIssues :
             TitlePriority[i.title] # "low" =>
               \E j \in IssuesOf(log') : j.id = i.id /\ j.open]_vars
  <2> SUFFICES ASSUME LogInv, [Next]_vars, inHand = {}, log' # logFile,
                      NEW i \in OpenIssues, TitlePriority[i.title] # "low"
               PROVE  \E j \in IssuesOf(log') : j.id = i.id /\ j.open
    OBVIOUS
  <2>1. i.open /\ i \in IssuesOf(log)
    BY DEF OpenIssues
  <2>2. CASE \E title \in Titles : FileIssue(title)
    <3>1. i \in IssuesOf(log')
      BY <2>2, FilingKeeps DEF LogInv, FileIssue
    <3> QED
      BY <2>1, <3>1
  <2>3. CASE StartIssueSave \/ EndIssueSave \/ UNCHANGED issueVars
    BY <2>1, <2>3 DEF StartIssueSave, EndIssueSave, issueVars
  <2>4. ~LoadIssues
    BY DEF LoadIssues
  <2> QED
    BY <2>2, <2>3, <2>4, StepIsIssues
<1> QED
  BY <1>1, LogInvariant, PTL DEF Spec, GraveIssuesStay

-----------------------------------------------------------------------------
(* The reorganization of the goals.                                        *)

(* Titles have a severity each, so that Graver() puts issues in order.     *)
LEMMA GraverOrders ==
  /\ \A i, j \in AnyIssue : i.id # j.id => Graver(i, j) \/ Graver(j, i)
  /\ \A i, j, k \in AnyIssue : Graver(i, j) /\ Graver(j, k) => Graver(i, k)
  /\ \A i \in AnyIssue : ~Graver(i, i)
<1> DEFINE rank(i) == Severity[TitlePriority[i.title]]
<1>1. \A i \in AnyIssue : rank(i) \in Nat /\ i.id \in Nat
  <2>1. \A title \in Titles : Severity[TitlePriority[title]] \in Nat
    BY IssueAssumption DEF Severity, TitlePriority
  <2> QED
    BY <2>1 DEF AnyIssue
<1>2. \A i, j : Graver(i, j) <=> \/ rank(i) < rank(j)
                                 \/ rank(i) = rank(j) /\ i.id < j.id
  BY DEF Graver
<1> HIDE DEF rank
<1> QED
  BY <1>1, <1>2

(* The open issues are finitely many.                                      *)
LEMMA OpenFinite == ASSUME LogOK(log) PROVE IsFiniteSet(OpenIssues)
<1>1. IsFiniteSet(DOMAIN log.issues)
  BY PlacesFinite DEF LogOK, IssuesOK
<1>2. log.issues \in Surjection(DOMAIN log.issues, Range(log.issues))
  BY DEF LogOK, IssuesOK, Surjection, Range
<1>3. OpenIssues \in SUBSET Range(log.issues) /\ IsFiniteSet(Range(log.issues))
  BY <1>1, <1>2, FS_Surjection, IssuesOfLog DEF OpenIssues
<1> QED
  BY <1>3, FS_Subset

(* ByGravity goes through the open issues.                                 *)
LEMMA GravityOrders ==
  ASSUME LogOK(log)
  PROVE  ByGravity \in Seq(OpenIssues)
<1> DEFINE S == OpenIssues
           n == Cardinality(S)
           ahead(i) == {j \in S : Graver(j, i)}
           count(i) == Cardinality(ahead(i))
           place == [i \in S |-> count(i) + 1]
<1>1. /\ \A i \in S : i \in AnyIssue /\ i \in Range(log.issues)
      /\ \A i, j \in S : i.id = j.id => i = j
  <2>1. \A i \in S : i \in AnyIssue /\ i \in Range(log.issues)
    BY IssuesOfLog DEF OpenIssues
  <2> QED
    BY <2>1, OneOfEachId DEF LogOK, IssuesOK
<1>2. IsFiniteSet(S) /\ n \in Nat
  BY OpenFinite, FS_CardinalityType
<1> HIDE DEF S
<1>3. \A i \in S : IsFiniteSet(ahead(i)) /\ count(i) \in 0..(n - 1)
  <2> TAKE i \in S
  <2>1. ahead(i) \in SUBSET S /\ i \notin ahead(i)
    BY <1>1, GraverOrders
  <2> HIDE DEF ahead
  <2>2. /\ IsFiniteSet(ahead(i)) /\ Cardinality(ahead(i)) \in Nat
        /\ Cardinality(ahead(i)) <= n
        /\ Cardinality(ahead(i)) = n => ahead(i) = S
    BY <1>2, <2>1, FS_Subset, FS_CardinalityType
  <2> QED
    BY <1>2, <2>1, <2>2
<1>4. ASSUME NEW i \in S, NEW j \in S, Graver(i, j)
      PROVE  count(i) < count(j)
  <2>1. ahead(i) \in SUBSET ahead(j) /\ i \in ahead(j) /\ i \notin ahead(i)
    BY <1>1, <1>4, GraverOrders
  <2>2. /\ Cardinality(ahead(i)) <= Cardinality(ahead(j))
        /\ Cardinality(ahead(j)) = Cardinality(ahead(i)) => ahead(j) = ahead(i)
    <3>1. IsFiniteSet(ahead(j))
      BY <1>3
    <3> HIDE DEF ahead
    <3> QED
      BY <2>1, <3>1, FS_Subset
  <2>3. Cardinality(ahead(i)) \in Nat /\ Cardinality(ahead(j)) \in Nat
    BY <1>3
  <2> HIDE DEF ahead
  <2> QED
    BY <2>1, <2>2, <2>3
<1> HIDE DEF ahead, count, n
<1>5. /\ place \in [S -> 1..n]
      /\ \A i \in S : count(i) \in Int /\ place[i] = count(i) + 1
  <2>1. \A i \in S : count(i) \in Int /\ count(i) + 1 \in 1..n
    <3> TAKE i \in S
    <3>1. count(i) \in 0..(n - 1)
      BY <1>3
    <3> QED
      BY <1>2, <3>1
  <2> QED
    BY <2>1
<1> HIDE DEF place
<1>6. ASSUME NEW i \in S, NEW j \in S, place[i] = place[j]
      PROVE  i = j
  <2>1. count(i) = count(j) /\ count(i) \in Int
    BY <1>5, <1>6
  <2>2. ~Graver(i, j) /\ ~Graver(j, i)
    BY <1>4, <2>1
  <2> QED
    BY <1>1, <2>2, GraverOrders
<1>7. place \in Surjection(S, 1..n)
  <2>1. place \in Injection(S, 1..n)
    BY <1>5, <1>6 DEF Injection, IsInjective
  <2>2. IsFiniteSet(1..n) /\ Cardinality(1..n) = n
    BY <1>2, FS_Interval
  <2> QED
    BY <1>2, <2>1, <2>2, FS_Injection DEF n
<1>8. \A k \in 1..n : \E i \in S : count(i) = k - 1
  <2> TAKE k \in 1..n
  <2>1. PICK i \in S : place[i] = k
    BY <1>7 DEF Surjection
  <2>2. count(i) + 1 = k /\ count(i) \in Int
    BY <1>5, <2>1
  <2> QED
    BY <1>2, <2>2
<1>9. ByGravity \in [1..n -> S]
  BY <1>8 DEF ByGravity, S, n, count, ahead
<1> QED
  BY <1>2, <1>9 DEF S

(* A goal for an issue leaves a stack in order, with the goals it had.     *)
LEMMA GoalForKeeps ==
  ASSUME NEW st, StackOK(st), NEW i \in AnyIssue
  PROVE  StackOK(WithGoalFor(st, i)) /\ Grown(st, WithGoalFor(st, i))
<1> DEFINE priority == GoalPriority[TitlePriority[i.title]]
           about == [id |-> i.id, title |-> i.title]
<1>1. i.title \in {"report", "test", "fragile"} /\ i.id \in Nat
  BY IssueAssumption DEF AnyIssue, TitlePriority
<1>2. priority \in Nat
  BY <1>1 DEF GoalPriority, TitlePriority
<1>3. about \in About
  BY <1>1 DEF About
<1> HIDE DEF priority, about
<1>4. /\ StackOK(WithGoal(st, "self", priority, about))
      /\ Grown(st, WithGoal(st, "self", priority, about))
  <2>1. "self" \in GoalSource
    BY DEF GoalSource
  <2> QED
    BY <1>2, <1>3, <2>1, WithGoalKeeps, OwnGoalAdds
<1>5. WithGoalFor(st, i) = st \/ WithGoalFor(st, i) = WithGoal(st, "self", priority, about)
  BY Zenon DEF WithGoalFor, priority, about
<1>6. Grown(st, st)
  BY DEF Grown, OpenOf, StackOK
<1> QED
  BY <1>4, <1>5, <1>6

(* The recursive function in WithGoalsFor, as far as n.                    *)
GoalsUpTo(after, st, issues, n) ==
    after = [k \in 0..n |-> IF k = 0 THEN st ELSE WithGoalFor(after[k - 1], issues[k])]

(* There is one that does what its definition says.                        *)
LEMMA GoalsUpToExists ==
  ASSUME NEW st, NEW issues, NEW N \in Nat
  PROVE  \E after : GoalsUpTo(after, st, issues, N)
<1> DEFINE bad == {n \in 0..N : ~ \E f : GoalsUpTo(f, st, issues, n)}
<1>1. SUFFICES ASSUME bad # {} PROVE FALSE
  OBVIOUS
<1>2. PICK n \in bad : \A m \in bad : n <= m
  <2>1. bad \in SUBSET Nat
    OBVIOUS
  <2> HIDE DEF bad
  <2> QED
    BY <1>1, <2>1, LeastElement
<1>3. n # 0
  <2> DEFINE g == [k \in 0..0 |-> st]
  <2>1. GoalsUpTo(g, st, issues, 0)
    BY DEF GoalsUpTo
  <2> QED
    BY <1>2, <2>1
<1>4. n \in Nat /\ n - 1 \in 0..N /\ n - 1 \notin bad
  BY <1>2, <1>3
<1>5. PICK f : GoalsUpTo(f, st, issues, n - 1)
  BY <1>4
<1> DEFINE g == [k \in 0..n |-> IF k = n THEN WithGoalFor(f[n - 1], issues[n]) ELSE f[k]]
<1>6. \A k \in 0..n : g[k] = IF k = 0 THEN st ELSE WithGoalFor(g[k - 1], issues[k])
  <2> TAKE k \in 0..n
  <2>1. CASE k = n
    BY <1>3, <1>4, <2>1
  <2>2. CASE k # n
    <3>1. k \in 0..(n - 1) /\ g[k] = f[k]
      BY <1>4, <2>2
    <3>2. k # 0 => k - 1 \in 0..(n - 1) /\ g[k - 1] = f[k - 1]
      BY <1>4, <2>2
    <3>3. f[k] = IF k = 0 THEN st ELSE WithGoalFor(f[k - 1], issues[k])
      BY <1>5, <3>1 DEF GoalsUpTo
    <3> QED
      BY <3>1, <3>2, <3>3
  <2> QED
    BY <2>1, <2>2
<1>7. GoalsUpTo(g, st, issues, n)
  <2>1. g = [k \in 0..n |-> g[k]]
    OBVIOUS
  <2> HIDE DEF g
  <2> QED
    BY <1>6, <2>1 DEF GoalsUpTo
<1> QED
  BY <1>2, <1>7

(* Goals for any number of issues leave a stack in order, too.             *)
LEMMA GoalsForKeep ==
  ASSUME NEW st, StackOK(st), NEW issues \in Seq(AnyIssue)
  PROVE  StackOK(WithGoalsFor(st, issues)) /\ Grown(st, WithGoalsFor(st, issues))
<1> DEFINE N == Len(issues)
           f == CHOOSE f : GoalsUpTo(f, st, issues, N)
<1>1. N \in Nat /\ \A k \in 1..N : issues[k] \in AnyIssue
  OBVIOUS
<1>2. WithGoalsFor(st, issues) = f[N]
  BY DEF WithGoalsFor, GoalsUpTo
<1> HIDE DEF N
<1>3. GoalsUpTo(f, st, issues, N)
  BY <1>1, GoalsUpToExists
<1> HIDE DEF f
<1>4. \A k \in 0..N : f[k] = IF k = 0 THEN st ELSE WithGoalFor(f[k - 1], issues[k])
  BY <1>3 DEF GoalsUpTo
<1> DEFINE bad == {k \in 0..N : ~ (StackOK(f[k]) /\ Grown(st, f[k]))}
<1>5. ASSUME bad # {}
      PROVE  FALSE
  <2>1. PICK k \in bad : \A m \in bad : k <= m
    <3>1. bad \in SUBSET Nat
      BY <1>1
    <3> HIDE DEF bad
    <3> QED
      BY <1>5, <3>1, LeastElement
  <2>2. CASE k = 0
    <3>1. f[k] = st
      BY <1>4, <2>1, <2>2
    <3>2. Grown(st, st)
      BY DEF Grown, OpenOf, StackOK
    <3> QED
      BY <2>1, <3>1, <3>2
  <2>3. CASE k # 0
    <3>1. k \in 1..N /\ k - 1 \in 0..N /\ ~ (k <= k - 1)
      BY <1>1, <2>1, <2>3
    <3>2. StackOK(f[k - 1]) /\ Grown(st, f[k - 1])
      BY <2>1, <3>1
    <3>3. f[k] = WithGoalFor(f[k - 1], issues[k]) /\ issues[k] \in AnyIssue
      BY <1>1, <1>4, <2>3, <3>1
    <3>4. StackOK(f[k]) /\ Grown(f[k - 1], f[k])
      BY <3>2, <3>3, GoalForKeeps
    <3>5. Grown(st, f[k])
      BY <3>2, <3>4, GrownOn
    <3> QED
      BY <2>1, <3>4, <3>5
  <2> QED
    BY <2>2, <2>3
<1>6. StackOK(f[N]) /\ Grown(st, f[N])
  BY <1>1, <1>5
<1> QED
  BY <1>2, <1>6

(* The stack that a reorganization starts from: some goals that were open  *)
(* are gone, and those alone.                                              *)
StaleGone(rest, n) ==
    /\ StackOK(rest) /\ rest.nextId = stack.nextId
    /\ \A k \in DOMAIN stack.goals :
         LET g == stack.goals[k]
         IN IF IsOpen(g) /\ k <= n THEN \A h \in InSeq(rest.goals) : h.id # g.id
            ELSE g \in InSeq(rest.goals)

(* Taking the stale ones of the first n goals away.                        *)
LEMMA StaleAreGone ==
  ASSUME GoalsInv, NEW n \in 0..Len(stack.goals), NEW kept, NEW rest,
         kept = {k \in DOMAIN stack.goals : stack.goals[k] \notin StaleGoals(n)},
         rest = [stack EXCEPT !.goals = Filtered(@, kept)]
  PROVE  StaleGone(rest, n)
<1>1. kept \in SUBSET (DOMAIN stack.goals)
  OBVIOUS
<1>2. /\ GoalsOK(stack.goals) /\ \A g \in InSeq(stack.goals) : g.id < stack.nextId
      /\ stack.goals \in Seq(AnyGoal) /\ DistinctIds(stack.goals)
  BY DEF GoalsInv, StackOK, GoalsOK
<1>3. /\ GoalsOK(Filtered(stack.goals, kept))
      /\ InSeq(Filtered(stack.goals, kept)) = {stack.goals[k] : k \in kept}
  BY <1>1, <1>2, FilteredGoals
<1>4. InSeq(stack.goals) = {stack.goals[k] : k \in DOMAIN stack.goals}
  BY <1>2 DEF InSeq, GoalsOK
<1>5. /\ rest.goals = Filtered(stack.goals, kept) /\ rest.nextId = stack.nextId
      /\ rest \in [goals : Seq(AnyGoal), nextId : Nat \ {0}]
  BY <1>3 DEF GoalsInv, StackOK, GoalsOK
<1>6. StackOK(rest)
  BY <1>1, <1>2, <1>3, <1>4, <1>5 DEF StackOK, GoalsOK
<1>7. ASSUME NEW k \in DOMAIN stack.goals
      PROVE  k \in kept <=> ~ (IsOpen(stack.goals[k]) /\ k <= n)
  <2>1. StaleGoals(n) = {stack.goals[j] : j \in {i \in 1..n : IsOpen(stack.goals[i])}}
    <3>1. /\ Len(SubSeq(stack.goals, 1, n)) = n
          /\ \A i \in 1..n : SubSeq(stack.goals, 1, n)[i] = stack.goals[i]
      BY <1>2
    <3> QED
      BY <3>1 DEF StaleGoals, OpenOf, InSeq
  <2>2. \A j \in 1..n : stack.goals[j] = stack.goals[k] => j = k
    BY <1>2 DEF DistinctIds
  <2> QED
    BY <1>2, <2>1, <2>2
<1>8. ASSUME NEW k \in DOMAIN stack.goals
      PROVE  IF IsOpen(stack.goals[k]) /\ k <= n
             THEN \A h \in InSeq(rest.goals) : h.id # stack.goals[k].id
             ELSE stack.goals[k] \in InSeq(rest.goals)
  BY <1>2, <1>3, <1>5, <1>7 DEF DistinctIds
<1> QED
  BY <1>5, <1>6, <1>8 DEF StaleGone

(* The dream takes stale goals away, makes others, and leaves the stack in *)
(* order.                                                                  *)
LEMMA ReorganizeKeeps ==
  ASSUME IdleInv, LogInv, Reorganize
  PROVE  /\ IdleInv'
         /\ \E n \in Nat : \E rest :
              StaleGone(rest, n) /\ StackOK(stack') /\ Grown(rest, stack')
<1>1. PICK n \in 0..Len(stack.goals) :
        LET stale == StaleGoals(n)
            kept == {k \in DOMAIN stack.goals : stack.goals[k] \notin stale}
            rest == [stack EXCEPT !.goals = Filtered(@, kept)]
        IN  stack' = WithGoalsFor(rest, ByGravity)
  BY Zenon DEF Reorganize
<1> DEFINE kept == {k \in DOMAIN stack.goals : stack.goals[k] \notin StaleGoals(n)}
           rest == [stack EXCEPT !.goals = Filtered(@, kept)]
<1>2. stack' = WithGoalsFor(rest, ByGravity)
  BY <1>1
<1>3. /\ stack'.nextId <= MaxGoals + 1
      /\ UNCHANGED <<queue, emitted, board, inHand, asked>>
  BY Zenon DEF Reorganize
<1>4. n \in Nat /\ StaleGone(rest, n)
  <2>1. GoalsInv /\ n \in Nat
    BY DEF IdleInv
  <2> HIDE DEF kept
  <2>2. \A r : r = rest => StaleGone(r, n)
    BY <2>1, StaleAreGone, Zenon DEF kept
  <2> QED
    BY <2>1, <2>2
<1>5. ByGravity \in Seq(AnyIssue)
  <2>1. ByGravity \in Seq(OpenIssues)
    BY GravityOrders DEF LogInv
  <2>2. OpenIssues \subseteq AnyIssue
    BY IssuesOfLog DEF OpenIssues, LogInv
  <2> QED
    BY <2>1, <2>2
<1> HIDE DEF rest
<1>6. StackOK(stack') /\ Grown(rest, stack')
  BY <1>2, <1>4, <1>5, GoalsForKeep DEF StaleGone
<1>7. GoalsInv'
  BY <1>3, <1>6 DEF GoalsInv, StackOK
<1>8. IdleInv'
  BY <1>3, <1>7 DEF IdleInv, QueueOK, BoardOK
<1> QED
  BY <1>4, <1>6, <1>8

(* What a step of the whole system is to the events and the goals.         *)
LEMMA StepIsIdle ==
  ASSUME [Next]_vars
  PROVE  \/ IdleNext \/ Reorganize
         \/ /\ AddGoal("self", 2, NoIssue)
            /\ UNCHANGED <<queue, emitted, board, inHand, asked>>
         \/ UNCHANGED idleVars
<1> USE DEF idleVars
<1>1. CASE IdleStep(IdleNext)
  BY <1>1 DEF IdleStep
<1>2. CASE AgentActs
  BY <1>2 DEF AgentActs
<1>3. CASE SaveIssues \/ ShowIssues
  BY <1>3 DEF SaveIssues, ShowIssues
<1>4. CASE NewDay
  BY <1>4 DEF NewDay
<1>5. CASE DreamStep
  <2>1. CASE Doze \/ Rouse \/ FallAsleep
    BY <2>1 DEF Doze, Rouse, FallAsleep
  <2>2. CASE Explore
    BY <2>2 DEF Explore
  <2>3. CASE HealthCheck
    BY <2>3 DEF HealthCheck
  <2>4. CASE Research
    BY <2>4 DEF Research
  <2>5. CASE Experiments
    BY <2>5 DEF Experiments
  <2>6. CASE WakeUp
    BY <2>6 DEF WakeUp
  <2> QED
    BY <1>5, <2>1, <2>2, <2>3, <2>4, <2>5, <2>6 DEF DreamStep
<1>6. CASE UNCHANGED vars
  BY <1>6 DEF vars
<1> QED
  BY <1>1, <1>2, <1>3, <1>4, <1>5, <1>6 DEF Next

(* IdleInv is inductive, also with the dreams reorganizing the stack.      *)
LEMMA StepKeepsIdle == ASSUME IdleInv, LogInv, [Next]_vars PROVE IdleInv'
<1>1. CASE IdleNext \/ UNCHANGED idleVars
  BY <1>1, IdleStepKeeps
<1>2. CASE Reorganize
  BY <1>2, ReorganizeKeeps
<1>3. CASE AddGoal("self", 2, NoIssue) /\ UNCHANGED <<queue, emitted, board, inHand, asked>>
  <2>1. "self" \in GoalSource /\ NoIssue \in About
    BY DEF GoalSource, NoIssue, About
  <2>2. GoalsInv'
    BY <1>3, <2>1, AddingKeepsGoals DEF IdleInv
  <2> QED
    BY <1>3, <2>2 DEF IdleInv, QueueOK, BoardOK
<1> QED
  BY <1>1, <1>2, <1>3, StepIsIdle

(* No other step than Reorganize does what its name says.                  *)
LEMMA OnlyReorganize ==
  ASSUME [Next]_vars, Reorganizing
  PROVE  Reorganize
<1> USE DEF Reorganizing, dreamVars
<1>1. ~ (IdleStep(IdleNext) \/ AgentActs \/ SaveIssues \/ ShowIssues \/ NewDay)
  BY DEF IdleStep, AgentActs, SaveIssues, ShowIssues, NewDay
<1>2. ~ (Doze \/ Rouse \/ FallAsleep \/ Explore \/ HealthCheck)
  BY DEF Doze, Rouse, FallAsleep, Explore, HealthCheck
<1>3. ~ (Research \/ Experiments \/ WakeUp)
  BY DEF Research, Experiments, WakeUp
<1>4. ~ UNCHANGED vars
  BY DEF vars
<1> QED
  BY <1>1, <1>2, <1>3, <1>4 DEF Next, DreamStep

(* Where the scheduler is, and what is left of the experiments.            *)
SchedulerOK ==
    /\ dream \in {"awake", "dozing", "loaded", "reorganized", "explored",
                 "checked", "researching", "resting"}
    /\ dreamt \in BOOLEAN
    /\ left \in 0..MaxExperiments

DreamInv == IdleInv /\ LogInv /\ ResearchInv /\ SchedulerOK

(* The scheduler keeps to its types.                                       *)
LEMMA StepKeepsScheduler == ASSUME LogInv, SchedulerOK, [Next]_vars PROVE SchedulerOK'
<1> USE DEF SchedulerOK, dreamVars, researchVars
<1>1. CASE IdleStep(IdleNext)
  BY <1>1 DEF IdleStep
<1>2. CASE AgentActs
  BY <1>2 DEF AgentActs, WorkEdits, GitAdd, Commit
<1>3. CASE SaveIssues \/ ShowIssues
  BY <1>3 DEF SaveIssues, ShowIssues
<1>4. CASE NewDay
  <2>1. dreamt' \in BOOLEAN
    BY <1>4, Zenon DEF NewDay
  <2>2. UNCHANGED <<dream, left>>
    BY <1>4 DEF NewDay
  <2> QED
    BY <2>1, <2>2, Zenon
<1>5. CASE DreamStep
  <2>1. CASE Doze \/ Rouse \/ FallAsleep
    BY <2>1 DEF Doze, Rouse, FallAsleep
  <2>2. CASE Reorganize
    <3>1. dream' = "reorganized" /\ UNCHANGED <<researchVars, dreamt>>
      BY <2>2, Zenon DEF Reorganize
    <3> QED
      BY <3>1
  <2>3. CASE Explore
    BY <2>3 DEF Explore
  <2>4. CASE HealthCheck
    BY <2>4 DEF HealthCheck
  <2>5. CASE Research
    <3> DEFINE ideas == Cardinality({i \in OpenIssues : i.title \in {"test", "fragile"}})
    <3>1. ideas \in Nat
      <4>1. IsFiniteSet({i \in OpenIssues : i.title \in {"test", "fragile"}})
        BY OpenFinite, FS_Subset DEF LogInv
      <4> QED
        BY <4>1, FS_CardinalityType
    <3>2. /\ left' = IF ideas < MaxExperiments THEN ideas ELSE MaxExperiments
          /\ dream' = IF ideas > 0 THEN "researching" ELSE "resting"
          /\ UNCHANGED dreamt
      BY <2>5, Zenon DEF Research, StartResearch
    <3> HIDE DEF ideas
    <3> QED
      BY <3>1, <3>2, ResearchAssumption
  <2>6. CASE Experiments
    <3>1. left' \in {left, left - 1} /\ (left' = left - 1 => left > 0)
      BY <2>6 DEF Experiments, ExperimentStep, Begin, Forbidden, TestedBefore, Edit,
                  Applied, Accept, Reject, Undo, Rescue
    <3> QED
      BY <2>6, <3>1, ResearchAssumption DEF Experiments
  <2>7. CASE WakeUp
    BY <2>7 DEF WakeUp
  <2> QED
    BY <1>5, <2>1, <2>2, <2>3, <2>4, <2>5, <2>6, <2>7 DEF DreamStep
<1>6. CASE UNCHANGED vars
  BY <1>6 DEF vars
<1> QED
  BY <1>1, <1>2, <1>3, <1>4, <1>5, <1>6 DEF Next

(* The invariant of the whole: that of the idle loop, of the log, of the   *)
(* experiments and of the scheduler, each kept by all the others' steps.   *)
THEOREM DreamInvariant == Spec => []DreamInv
<1>1. Init => DreamInv
  <2>1. Init => SchedulerOK
    <3>1. Init => left \in 0..MaxExperiments
      BY ResearchAssumption DEF Init, ResearchInit
    <3>2. Init => dreamt \in BOOLEAN
      BY Zenon DEF Init
    <3> QED
      BY <3>1, <3>2, Zenon DEF Init, SchedulerOK
  <2> QED
    BY <2>1, InitIdle, InitLog, InitHolds DEF Init, DreamInv
<1>2. DreamInv /\ [Next]_vars => DreamInv'
  BY StepKeepsIdle, StepKeepsLog, StepKeeps, StepKeepsScheduler DEF DreamInv
<1> QED
  BY <1>1, <1>2, PTL DEF Spec

(* What the goals that are open look forward to in one step.               *)
GoalFate(k) ==
    LET g == stack.goals[k]
    IN  IF Reorganizing
        THEN \/ g \in Goals'
             \/ \A i \in 1..k : IsOpen(stack.goals[i]) => i \in OpenGone
        ELSE GoalKept(g)

LEMMA OpenGoalsFare ==
  ASSUME IdleInv, LogInv, [Next]_vars, NEW k \in DOMAIN stack.goals, IsOpen(stack.goals[k])
  PROVE  GoalFate(k)
<1> DEFINE g == stack.goals[k]
<1>1. /\ stack.goals \in Seq(AnyGoal) /\ DOMAIN stack.goals = 1..Len(stack.goals)
      /\ k \in Nat /\ g \in OpenGoals
  BY DEF IdleInv, GoalsInv, StackOK, OpenGoals, OpenOf, InSeq
<1>2. CASE Reorganize
  <2>0. PICK n \in Nat : \E rest : /\ StaleGone(rest, n) /\ StackOK(stack')
                                  /\ Grown(rest, stack')
    BY <1>2, ReorganizeKeeps
  <2>1. PICK rest : StaleGone(rest, n) /\ StackOK(stack') /\ Grown(rest, stack')
    BY <2>0
  <2>2. /\ \A h \in Goals' : h \in InSeq(rest.goals) \/ stack.nextId <= h.id
        /\ OpenOf(rest.goals) \subseteq Goals'
    BY <2>1 DEF Grown, StaleGone, Goals
  <2>3. ASSUME NEW i \in DOMAIN stack.goals, IsOpen(stack.goals[i]), i <= n
        PROVE  i \in OpenGone
    <3>1. \A h \in InSeq(rest.goals) : h.id # stack.goals[i].id
      BY <2>1, <2>3 DEF StaleGone
    <3>2. stack.goals[i].id < stack.nextId /\ stack.goals[i].id \in Nat
      <4>1. stack.goals[i] \in InSeq(stack.goals)
        BY <1>1 DEF InSeq
      <4> QED
        BY <4>1, GoalsTyped, GoalFields DEF IdleInv, GoalsInv, StackOK
    <3>3. stack.nextId \in Nat
      BY DEF IdleInv, GoalsInv, StackOK
    <3>4. \A h \in Goals' : h.id \in Nat
      BY <2>1, GoalFields DEF StackOK, GoalsOK, Goals
    <3>5. \A h \in Goals' : h.id # stack.goals[i].id
      BY <2>2, <3>1, <3>2, <3>3, <3>4
    <3> QED
      BY <2>3, <3>5 DEF OpenGone
  <2>4. CASE k <= n
    <3>1. \A i \in 1..k : i \in DOMAIN stack.goals /\ i <= n
      BY <1>1, <2>1, <2>4
    <3>2. \A i \in 1..k : IsOpen(stack.goals[i]) => i \in OpenGone
      BY <2>3, <3>1
    <3>3. Reorganizing
      BY <1>2, Zenon DEF Reorganize, Reorganizing
    <3> QED
      BY <3>2, <3>3 DEF GoalFate
  <2>5. CASE ~ (k <= n)
    <3>1. g \in InSeq(rest.goals)
      BY <2>1, <2>5 DEF StaleGone
    <3>2. g \in Goals'
      BY <2>2, <3>1 DEF OpenOf
    <3>3. Reorganizing
      BY <1>2, Zenon DEF Reorganize, Reorganizing
    <3> QED
      BY <3>2, <3>3 DEF GoalFate
  <2> QED
    BY <2>4, <2>5
<1>3. CASE ~Reorganize
  <2>1. GoalsKept
    <3>1. CASE IdleNext \/ UNCHANGED idleVars
      BY <3>1, IdleStepKeeps
    <3>2. CASE AddGoal("self", 2, NoIssue)
      <4>1. "self" \in GoalSource /\ NoIssue \in About
        BY DEF GoalSource, NoIssue, About
      <4> QED
        BY <3>2, <4>1, AddingKeepsGoals DEF IdleInv
    <3> QED
      BY <1>3, <3>1, <3>2, StepIsIdle
  <2>2. ~Reorganizing
    BY <1>3, OnlyReorganize
  <2> QED
    BY <1>1, <2>1, <2>2 DEF GoalFate, GoalsKept
<1> QED
  BY <1>2, <1>3

(* An open goal leaves the stack only as one of the system's own that a    *)
(* full stack gives up for a new one, or as a stale one that a dream takes *)
(* away with all that are staler (goal-stack.ts, runner.ts).               *)
THEOREM OpenGoalsKept == Spec => OpenGoalsStay
<1>1. DreamInv /\ [Next]_vars =>
        [stack' # stack => \A k \in OpenGone :
           \/ stack.goals[k].source = "self" /\ Cardinality(OpenGoals) >= MaxOpenGoals
           \/ Reorganizing /\ \A i \in 1..k : IsOpen(stack.goals[i]) => i \in OpenGone]_vars
  <2> SUFFICES ASSUME DreamInv, [Next]_vars, NEW k \in OpenGone
               PROVE  \/ /\ stack.goals[k].source = "self"
                         /\ Cardinality(OpenGoals) >= MaxOpenGoals
                      \/ /\ Reorganizing
                         /\ \A i \in 1..k : IsOpen(stack.goals[i]) => i \in OpenGone
    OBVIOUS
  <2>1. /\ k \in DOMAIN stack.goals /\ IsOpen(stack.goals[k])
        /\ \A h \in Goals' : h.id # stack.goals[k].id
    BY DEF OpenGone
  <2>2. GoalFate(k)
    BY <2>1, OpenGoalsFare DEF DreamInv
  <2> QED
    BY <2>1, <2>2 DEF GoalFate, GoalKept
<1> QED
  BY <1>1, DreamInvariant, PTL DEF Spec, OpenGoalsStay

(* While no task is in hand, a goal of a user or an event is closed by     *)
(* nobody and removed by the dream's reorganization only (goal-stack.ts    *)
(* addGoal, runner.ts reorganizeGoals).                                    *)
THEOREM UsersGoalsKept == Spec => UsersGoalsStay
<1>1. DreamInv /\ [Next]_vars =>
        [stack' # stack /\ inHand = {} =>
           \A k \in DOMAIN stack.goals :
             IsOpen(stack.goals[k]) /\ stack.goals[k].source # "self" =>
               \/ \E h \in Goals' : h.id = stack.goals[k].id /\ IsOpen(h)
               \/ Reorganizing /\ k \in OpenGone]_vars
  <2> SUFFICES ASSUME DreamInv, [Next]_vars, inHand = {},
                      NEW k \in DOMAIN stack.goals, IsOpen(stack.goals[k]),
                      stack.goals[k].source # "self"
               PROVE  \/ \E h \in Goals' : h.id = stack.goals[k].id /\ IsOpen(h)
                      \/ Reorganizing /\ k \in OpenGone
    OBVIOUS
  <2>1. GoalFate(k)
    BY OpenGoalsFare DEF DreamInv
  <2>2. k \in 1..k
    BY DEF DreamInv, IdleInv, GoalsInv, StackOK
  <2> QED
    BY <2>1, <2>2 DEF GoalFate, GoalKept
<1> QED
  BY <1>1, DreamInvariant, PTL DEF Spec, UsersGoalsStay

(* The types that it implies, of all the stores together.                  *)
THEOREM DreamTypes == Spec => []TypeOK
<1>1. DreamInv => TypeOK
  <2> SUFFICES ASSUME DreamInv PROVE TypeOK
    OBVIOUS
  <2>1. IdleTypeOK
    BY IdleInvTypes DEF DreamInv
  <2>2. ASSUME NEW l, LogOK(l)
        PROVE  l \in Log
    <3>1. /\ l \in [issues : Seq(AnyIssue), nextId : 1..MaxIssues + 1]
          /\ \A n \in 1..Len(l.issues) : l.issues[n] \in IssuesOf(l)
      BY <2>2 DEF LogOK, IssuesOf
    <3>2. \A i \in IssuesOf(l) : i \in Issue
      <4>1. \A i \in IssuesOf(l) : i \in AnyIssue /\ i.id < l.nextId /\ i.id \in Nat \ {0}
        BY <2>2, IssuesOfLog
      <4>2. \A i \in IssuesOf(l) : i.id \in 1..MaxIssues
        BY <3>1, <4>1, IssueAssumption
      <4> QED
        BY <4>1, <4>2 DEF AnyIssue, Issue
    <3>3. l.issues \in Seq(Issue)
      BY <3>1, <3>2
    <3> QED
      BY <3>1, <3>3 DEF Log
  <2>3. log \in Log /\ logFile \in Log /\ logSave \subseteq Log
    BY <2>2 DEF DreamInv, LogInv
  <2> QED
    BY <2>1, <2>3, Zenon DEF TypeOK, DreamInv, LogInv, ResearchInv, TreeTypeOK,
                             ResearchTypeOK, SchedulerOK
<1> QED
  BY <1>1, DreamInvariant, PTL
=============================================================================
