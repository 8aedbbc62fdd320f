------------------------- MODULE Coordinator_proofs -------------------------
(***************************************************************************)
(* Proofs about Coordinator, for any number of messages, events, goals and *)
(* restarts.  What is in memory, in the two files and in the copies that   *)
(* saves work on are four boards of different age; CoordInv says how they  *)
(* are related.  Records: an id a board file remembers as delivered is     *)
(* remembered in memory, or its task is gone for good.  Files: while       *)
(* nobody has asked the process to stop, and if the timer has one save     *)
(* under way at most, that save has the temporary file to itself.          *)
(***************************************************************************)
EXTENDS Coordinator, DualLoop_proofs

(* What is on disk, and what a save has copied.                            *)
Images == [state : {"whole", "none", "torn"}, tasks : [TaskId -> Task],
           ids : SUBSET TaskId]
Saves  == [at : {"none", "copied", "open", "written"}, image : Images,
           into : {"tmp", "disk"}]

FilesTypeOK ==
    /\ disk \in Images
    /\ tmp \in Images
    /\ saves \in [Saver -> Saves]
    /\ boots \in Nat

(* Ids that a board may remember as delivered: no task of theirs is sent   *)
(* again, because the board in memory knows, or has no such task and never *)
(* will.                                                                   *)
Gone  == {t \in TaskId : t <= created /\ tasks[t].status = "absent"}
Known == deliveredIds \cup Gone

(* A board made no later than the n-th task, whose ids are among K.        *)
Fits(image, n, K) ==
    /\ \A t \in TaskId : t > n => image.tasks[t].status = "absent"
    /\ image.ids \subseteq K

RecordsOK ==
    /\ deliveredIds \subseteq delivered
    /\ Fits(disk, created, Known)
    /\ Fits(tmp, created, Known)
    /\ \A s \in Saver : Fits(saves[s].image, created, Known)

(* The later of two boards: what was done is done, or gone.                *)
Follows(f, g) ==
    \A t \in TaskId : f[t].status = "done" => g[t].status \in {"done", "absent"}

(* A save of the timer that is the only one there is.                      *)
TimerSaveOK(s) ==
    LET save == saves[s]
    IN  save.at # "none" =>
          /\ save.into = "tmp"
          /\ save.image.state = "whole"
          /\ Follows(disk.tasks, save.image.tasks)
          /\ Follows(save.image.tasks, tasks)
          /\ save.at = "open" => tmp = Torn
          /\ save.at = "written" => tmp = save.image

FilesOK ==
    life = "up" /\ OneTimerSave =>
      /\ saves["final"].at = "none"
      /\ Follows(disk.tasks, tasks)
      /\ \A s \in TimerSave : TimerSaveOK(s)

CoordInv == /\ IInv
            /\ replies \in [TaskId -> Nat]
            /\ FilesTypeOK
            /\ RecordsOK
            /\ FilesOK

(* What RecordedReplyRests and TimerSavesAreSafe say of one step.          *)
NotSentAgain ==
    \A t \in TaskId : t \in deliveredIds \cup disk.ids => replies'[t] = replies[t]

FileIsSafe ==
    life = "up" /\ OneTimerSave =>
      /\ disk.state = "whole" => disk'.state = "whole"
      /\ disk.state # "torn" => disk'.state # "torn"
      /\ \A t \in TaskId :
           disk.tasks[t].status = "done" =>
             disk'.tasks[t].status \in {"done", "absent"}

-----------------------------------------------------------------------------
(* Boards *)

(* An empty board, and the files that hold none.                           *)
LEMMA NoTasksFit ==
  /\ NoTasks \in [TaskId -> Task]
  /\ \A t \in TaskId : NoTasks[t].status = "absent"
  /\ NoFile \in Images /\ Torn \in Images
  /\ NoSave \in Saves
  /\ NoFile.tasks = NoTasks /\ NoFile.ids = {} /\ NoFile.state = "none"
  /\ Torn.tasks = NoTasks /\ Torn.ids = {} /\ Torn.state = "torn"
<1> DEFINE new == NewTask("user", 0)
           absent == [new EXCEPT !.status = "absent"]
<1>1. absent \in Task /\ absent.status = "absent"
  <2>1. new \in Task
    BY NewTaskIsTask
  <2> HIDE DEF new
  <2> QED
    BY <2>1, StatusUpdate DEF Status
<1>2. NoTasks = [t \in TaskId |-> absent]
  BY DEF NoTasks
<1> HIDE DEF new, absent
<1>3. NoTasks \in [TaskId -> Task] /\ \A t \in TaskId : NoTasks[t].status = "absent"
  BY <1>1, <1>2
<1>4. NoFile \in Images /\ Torn \in Images
  BY <1>3 DEF NoFile, Torn, Images
<1>5. NoSave \in Saves
  BY <1>4 DEF NoSave, Saves
<1> QED
  BY <1>3, <1>4, <1>5 DEF NoFile, Torn

(* Such a file fits any board.                                             *)
LEMMA EmptyFits ==
  ASSUME NEW n, NEW K
  PROVE  Fits(NoFile, n, K) /\ Fits(Torn, n, K) /\ Fits(NoSave.image, n, K)
BY NoTasksFit DEF Fits, NoSave

(* A board that fits, fits when there are more tasks and more is known.    *)
LEMMA FitsOn ==
  ASSUME NEW image, NEW n \in Nat, NEW K, Fits(image, n, K),
         NEW m \in Nat, n <= m, NEW L, K \subseteq L
  PROVE  Fits(image, m, L)
BY TaskIds DEF Fits

(* As long as the board's ids only grow and what is gone stays gone, what  *)
(* fitted before fits still.                                               *)
LEMMA RecordsKept ==
  ASSUME RecordsOK, created \in Nat, created' \in Nat, created <= created',
         deliveredIds' \subseteq delivered', Known \subseteq Known',
         disk' \in {disk, tmp, Torn} \cup {saves[s].image : s \in Saver},
         tmp' \in {tmp, Torn, NoFile} \cup {saves[s].image : s \in Saver},
         \A s \in Saver : saves'[s].image \in {saves[s].image, NoFile}
                       \/ Fits(saves'[s].image, created, Known)
  PROVE  RecordsOK'
<1> DEFINE K == Known'
           n == created'
<1>1. ASSUME NEW image, Fits(image, created, Known)
      PROVE  Fits(image, n, K)
  BY <1>1, FitsOn
<1> HIDE DEF K, n
<1>2. Fits(disk', n, K)
  BY <1>1, EmptyFits DEF RecordsOK
<1>3. Fits(tmp', n, K)
  BY <1>1, EmptyFits DEF RecordsOK
<1>4. ASSUME NEW s \in Saver
      PROVE  Fits(saves'[s].image, n, K)
  BY <1>1, EmptyFits DEF RecordsOK
<1> QED
  BY <1>2, <1>3, <1>4 DEF RecordsOK, Fits, n, K

-----------------------------------------------------------------------------
(* The loops under the coordinator *)

(* Only deliverResponse() sends a reply or records one.                    *)
LEMMA RepliesMove ==
  ASSUME Next
  PROVE  \/ UNCHANGED <<delivered, deliveredIds, replies>>
         \/ DeliverResponse
<1>1. CASE UserWrites \/ SystemEmits
  BY <1>1 DEF UserWrites, Enqueue, SystemEmits, PostEvent, boardVars, fastVars
<1>2. CASE DeepTurn
  BY <1>2, DeepDeliversNothing DEF DeepTurn, fastVars
<1>3. CASE FastTurn /\ ~DeliverResponse
  BY <1>3 DEF FastTurn, FastStep, StartBatch, AnswerDirectly, Escalate, Replied,
     ResponseSent, StartProgress, ProgressSent, Create, boardVars
<1> QED
  BY <1>1, <1>2, <1>3 DEF Next, FastTurn

(* deliverResponse() takes a task that is done and not marked.             *)
LEMMA DeliveryFacts ==
  ASSUME DeliverResponse
  PROVE  \E t \in TaskId :
           /\ tasks[t].status = "done" /\ t \notin delivered
           /\ delivered' = delivered \cup {t}
           /\ deliveredIds' = deliveredIds \cup {t}
           /\ \/ UNCHANGED replies
              \/ replies' = [replies EXCEPT ![t] = @ + 1]
<1> DEFINE t == Oldest(Deliverable)
<1>1. t \in Deliverable
  <2>1. Deliverable \in SUBSET Nat /\ Deliverable # {}
    BY TaskIds DEF DeliverResponse, Deliverable
  <2>2. \E u \in Deliverable : \A v \in Deliverable : u <= v
    BY <2>1, LeastElement
  <2> QED
    BY <2>2 DEF Oldest
<1>2. MarkDelivered(t) /\ \/ UNCHANGED replies
                          \/ replies' = [replies EXCEPT ![t] = @ + 1]
  BY DEF DeliverResponse
<1>3. t \in TaskId /\ t \notin delivered /\ tasks[t].status = "done"
  BY <1>1 DEF Deliverable
<1> HIDE DEF t
<1> QED
  BY <1>2, <1>3 DEF MarkDelivered

(* A step of the loops sends no recorded reply again, and the records that *)
(* are in the files stay true.                                             *)
LEMMA LoopsKeepRecords ==
  ASSUME IInv, replies \in [TaskId -> Nat], RecordsOK, Next, UNCHANGED <<disk, tmp, saves>>
  PROVE  RecordsOK' /\ NotSentAgain /\ replies' \in [TaskId -> Nat]
<1>1. DoneStays /\ GoneStays
  BY NextIInv DEF LegalStep
<1>2. created \in Nat /\ created' \in Nat /\ created <= created'
  BY <1>1, BoardAssumption DEF GoneStays, IInv, Core, BoardTypeOK
<1>3. Gone \subseteq Gone'
  <2>1. ASSUME NEW t \in TaskId, t <= created, tasks[t].status = "absent"
        PROVE  t <= created' /\ tasks'[t].status = "absent"
    BY <1>1, <1>2, <2>1, TaskIds DEF GoneStays
  <2> QED
    BY <2>1 DEF Gone
<1>4. ASSUME NEW t \in deliveredIds \cup disk.ids
      PROVE  t \in deliveredIds \/ tasks[t].status = "absent"
  BY DEF RecordsOK, Fits, Known, Gone
<1>5. /\ deliveredIds \subseteq deliveredIds' /\ deliveredIds' \subseteq delivered'
      /\ NotSentAgain /\ replies' \in [TaskId -> Nat]
  <2>1. CASE UNCHANGED <<delivered, deliveredIds, replies>>
    BY <2>1 DEF RecordsOK, NotSentAgain
  <2>2. CASE DeliverResponse
    <3>1. PICK t \in TaskId :
             /\ tasks[t].status = "done" /\ t \notin delivered
             /\ delivered' = delivered \cup {t}
             /\ deliveredIds' = deliveredIds \cup {t}
             /\ \/ UNCHANGED replies
                \/ replies' = [replies EXCEPT ![t] = @ + 1]
      BY <2>2, DeliveryFacts
    <3>2. t \notin deliveredIds \cup disk.ids
      BY <1>4, <3>1 DEF RecordsOK
    <3>3. replies' \in [TaskId -> Nat]
      BY <3>1
    <3> QED
      BY <3>1, <3>2, <3>3 DEF RecordsOK, NotSentAgain
  <2> QED
    BY <2>1, <2>2, RepliesMove
<1>6. Known \subseteq Known'
  BY <1>3, <1>5 DEF Known
<1> QED
  BY <1>2, <1>5, <1>6, RecordsKept

(* A step of the loops leaves the files alone, and what followed follows.  *)
LEMMA FollowsOn ==
  ASSUME NEW f, Follows(f, tasks), DoneStays, GoneStays, created \in Nat,
         \A t \in TaskId : t > created => f[t].status = "absent"
  PROVE  Follows(f, tasks')
<1> SUFFICES ASSUME NEW t \in TaskId, f[t].status = "done"
             PROVE  tasks'[t].status \in {"done", "absent"}
  BY DEF Follows
<1>1. t <= created
  BY TaskIds
<1>2. tasks[t].status \in {"done", "absent"}
  BY DEF Follows
<1> QED
  BY <1>1, <1>2 DEF DoneStays, GoneStays

(* FilesOK survives what does not touch a file or a save, when what is     *)
(* done stays done or goes.                                                *)
LEMMA QuietKeepsFiles ==
  ASSUME FilesOK, life' = "up" => life = "up", UNCHANGED <<disk, tmp, saves>>,
         Follows(disk.tasks, tasks) => Follows(disk.tasks, tasks'),
         \A s \in Saver : Follows(saves[s].image.tasks, tasks)
                          => Follows(saves[s].image.tasks, tasks')
  PROVE  FilesOK' /\ FileIsSafe
BY DEF FilesOK, TimerSaveOK, FileIsSafe, OneTimerSave, Saver

(* The loops keep all of CoordInv.                                         *)
LEMMA LoopsKeepInv ==
  ASSUME CoordInv, LoopsRun
  PROVE  CoordInv' /\ NotSentAgain /\ FileIsSafe /\ NoNewOrphan
<1>1. Next /\ UNCHANGED <<disk, tmp, saves, life, boots>>
  BY DEF LoopsRun, Next, coordinatorVars
<1>2. IInv' /\ DoneStays /\ GoneStays /\ NoNewOrphan
  BY <1>1, NextIInv DEF CoordInv, LegalStep
<1>3. RecordsOK' /\ NotSentAgain /\ replies' \in [TaskId -> Nat]
  BY <1>1, LoopsKeepRecords DEF CoordInv
<1>4. FilesTypeOK'
  BY <1>1 DEF CoordInv, FilesTypeOK
<1>5. created \in Nat
  BY BoardAssumption DEF CoordInv, IInv, Core, BoardTypeOK
<1>6. /\ Follows(disk.tasks, tasks) => Follows(disk.tasks, tasks')
      /\ \A s \in Saver : Follows(saves[s].image.tasks, tasks)
                          => Follows(saves[s].image.tasks, tasks')
  BY <1>2, <1>5, FollowsOn DEF CoordInv, RecordsOK, Fits, Saver
<1>7. FilesOK' /\ FileIsSafe
  BY <1>1, <1>6, QuietKeepsFiles DEF CoordInv
<1> QED
  BY <1>2, <1>3, <1>4, <1>7 DEF CoordInv

-----------------------------------------------------------------------------
(* Saving *)

(* What the loops work with does not change while a file is written, but   *)
(* for the flag that says that the board is to be saved.                   *)
LEMMA BoardRests ==
  ASSUME IInv, UNCHANGED <<tasks, asked, created, delivered, deliveredIds,
                           fastVars, deepVars>>,
         dirty' \in BOOLEAN
  PROVE  /\ IInv' /\ NoNewOrphan /\ NotSentAgain
         /\ Known' = Known /\ UNCHANGED replies
<1>1. Core'
  BY DEF IInv, Core, BoardTypeOK, FreshIds, JobOK, deepVars
<1>2. RestOK' /\ TalkOK'
  BY DEF IInv, RestOK, TalkOK, deepVars, fastVars
<1>3. NoNewOrphan
  BY DEF NoNewOrphan, Orphaned, Current, deepVars
<1> QED
  BY <1>1, <1>2, <1>3 DEF IInv, NotSentAgain, Known, Gone, fastVars

(* So a step of a save keeps CoordInv if it puts into the files and the    *)
(* saves only what fits, and is good for FilesOK.                          *)
LEMMA SavingKeepsInv ==
  ASSUME CoordInv,
         UNCHANGED <<tasks, asked, created, delivered, deliveredIds,
                     fastVars, deepVars>>,
         dirty' \in BOOLEAN, FilesTypeOK', FilesOK',
         disk' \in {disk, tmp, Torn} \cup {saves[s].image : s \in Saver},
         tmp' \in {tmp, Torn, NoFile} \cup {saves[s].image : s \in Saver},
         \A s \in Saver : saves'[s].image \in {saves[s].image, NoFile}
                       \/ Fits(saves'[s].image, created, Known)
  PROVE  CoordInv' /\ NotSentAgain /\ NoNewOrphan
<1>1. /\ IInv' /\ NoNewOrphan /\ NotSentAgain
      /\ Known' = Known /\ UNCHANGED replies
  BY BoardRests DEF CoordInv
<1>2. created \in Nat
  BY BoardAssumption DEF CoordInv, IInv, Core, BoardTypeOK
<1>3. RecordsOK'
  <2>1. RecordsOK /\ created' \in Nat /\ created <= created' /\ Known \subseteq Known'
    BY <1>1, <1>2 DEF CoordInv
  <2>2. deliveredIds' \subseteq delivered'
    BY <2>1 DEF RecordsOK
  <2> QED
    BY <1>2, <2>1, <2>2, RecordsKept
<1> QED
  BY <1>1, <1>3 DEF CoordInv

(* A copy of the board fits it.                                            *)
LEMMA CopyFits ==
  ASSUME IInv
  PROVE  /\ Image \in Images /\ Fits(Image, created, Known)
         /\ Image.state = "whole" /\ Image.tasks = tasks
<1>1. BoardTypeOK /\ FreshIds
  BY DEF IInv, Core
<1> QED
  BY <1>1 DEF Image, Images, Fits, Known, FreshIds, BoardTypeOK

(* A save begins with a copy.                                              *)
LEMMA StartFacts ==
  ASSUME IInv, FilesTypeOK, NEW s \in Saver, StartSave(s)
  PROVE  /\ saves' \in [Saver -> Saves]
         /\ saves'[s].at = "copied" /\ saves'[s].into = "tmp"
         /\ saves'[s].image = Image
         /\ \A r \in Saver \ {s} : saves'[r] = saves[r]
<1> DEFINE new == [NoSave EXCEPT !.at = "copied", !.image = Image]
<1>1. new \in Saves /\ new.at = "copied" /\ new.into = "tmp" /\ new.image = Image
  BY CopyFits DEF NoSave, Saves
<1>2. saves' = [saves EXCEPT ![s] = new]
  BY DEF StartSave
<1> HIDE DEF new
<1> QED
  BY <1>1, <1>2 DEF FilesTypeOK

(* Following is reflexive.                                                 *)
LEMMA FollowsItself == Follows(tasks, tasks)
BY DEF Follows

(* The timer starts a save.                                                *)
LEMMA SaveTickKeepsInv ==
  ASSUME CoordInv, SaveTick
  PROVE  CoordInv' /\ NotSentAgain /\ FileIsSafe /\ NoNewOrphan
<1>1. PICK s \in TimerSave : saves[s].at = "none" /\ StartSave(s)
  BY DEF SaveTick
<1>2. IInv /\ FilesTypeOK /\ s \in Saver
  BY DEF CoordInv, Saver
<1>3. /\ saves' \in [Saver -> Saves]
      /\ saves'[s].at = "copied" /\ saves'[s].into = "tmp"
      /\ saves'[s].image = Image
      /\ \A r \in Saver \ {s} : saves'[r] = saves[r]
  BY <1>1, <1>2, StartFacts
<1>4. UNCHANGED <<vars, disk, tmp, life, boots>>
  BY DEF SaveTick
<1>5. FilesTypeOK'
  BY <1>2, <1>3, <1>4 DEF FilesTypeOK
<1>6. FilesOK'
  <2>1. SUFFICES ASSUME life = "up", OneTimerSave
                 PROVE  FilesOK'
    BY <1>4 DEF FilesOK, OneTimerSave
  <2>2. saves["final"].at = "none" /\ Follows(disk.tasks, tasks)
    BY <2>1 DEF CoordInv, FilesOK
  <2>3. saves'["final"].at = "none"
    BY <1>3, <2>2, CoordinatorAssumption DEF Saver
  <2>4. \A r \in TimerSave : r = s
    BY <2>1 DEF OneTimerSave
  <2>5. TimerSaveOK(s)'
    BY <1>2, <1>3, <1>4, <2>2, CopyFits, FollowsItself DEF TimerSaveOK, vars, boardVars
  <2> QED
    BY <1>4, <2>2, <2>3, <2>4, <2>5 DEF FilesOK, vars, boardVars
<1>7. \A r \in Saver : saves'[r].image \in {saves[r].image, NoFile}
                     \/ Fits(saves'[r].image, created, Known)
  BY <1>2, <1>3, CopyFits
<1>8. dirty' \in BOOLEAN
  BY <1>2, <1>4 DEF vars, boardVars, IInv, Core, BoardTypeOK
<1>9. CoordInv' /\ NotSentAgain /\ NoNewOrphan
  BY <1>4, <1>5, <1>6, <1>7, <1>8, SavingKeepsInv DEF vars, boardVars
<1> QED
  BY <1>4, <1>9 DEF FileIsSafe

(* One save's record replaced.                                             *)
LEMMA SaveUpdate ==
  ASSUME NEW save \in Saves, NEW at \in {"copied", "open", "written"}
  PROVE  /\ [save EXCEPT !.at = at] \in Saves
         /\ [save EXCEPT !.at = at].at = at
         /\ [save EXCEPT !.at = at].image = save.image
         /\ [save EXCEPT !.at = at].into = save.into
         /\ [save EXCEPT !.into = "disk"] \in Saves
         /\ [save EXCEPT !.into = "disk"].image = save.image
BY DEF Saves

(* A save goes on, and the other one does not notice.                      *)
LEMMA AdvanceFacts ==
  ASSUME FilesTypeOK, NEW s \in Saver, NEW at \in {"copied", "open", "written"},
         saves' = [saves EXCEPT ![s].at = at]
  PROVE  /\ saves' \in [Saver -> Saves]
         /\ saves'[s].at = at
         /\ saves'[s].image = saves[s].image /\ saves'[s].into = saves[s].into
         /\ \A r \in Saver \ {s} : saves'[r] = saves[r]
<1> DEFINE new == [saves[s] EXCEPT !.at = at]
<1>1. saves[s] \in Saves
  BY DEF FilesTypeOK
<1>2. new \in Saves /\ new.at = at /\ new.image = saves[s].image
      /\ new.into = saves[s].into
  BY <1>1, SaveUpdate
<1>3. saves' = [saves EXCEPT ![s] = new]
  OBVIOUS
<1> HIDE DEF new
<1> QED
  BY <1>2, <1>3 DEF FilesTypeOK

(* While the process is up it is a save of the timer that takes a step,    *)
(* and if the timer has one at a time it is the only one.                  *)
LEMMA OnlyTheTimer ==
  ASSUME CoordInv, life = "up", OneTimerSave, NEW s \in Saver, saves[s].at # "none"
  PROVE  /\ s \in TimerSave /\ Saver = {s, "final"} /\ s # "final"
         /\ TimerSaveOK(s)
         /\ saves["final"].at = "none" /\ Follows(disk.tasks, tasks)
<1>1. /\ saves["final"].at = "none" /\ Follows(disk.tasks, tasks)
      /\ \A r \in TimerSave : TimerSaveOK(r)
  BY DEF CoordInv, FilesOK
<1>2. s \in TimerSave
  BY <1>1 DEF Saver
<1> QED
  BY <1>1, <1>2, CoordinatorAssumption DEF OneTimerSave, Saver

(* A save that opens the temporary file empties it.                        *)
LEMMA OpenTmpKeepsInv ==
  ASSUME CoordInv, NEW s \in Saver, OpenTmp(s)
  PROVE  CoordInv' /\ NotSentAgain /\ FileIsSafe /\ NoNewOrphan
<1>1. IInv /\ FilesTypeOK /\ saves[s].at = "copied"
  BY DEF CoordInv, OpenTmp
<1>2. /\ saves' \in [Saver -> Saves]
      /\ saves'[s].at = "open"
      /\ saves'[s].image = saves[s].image /\ saves'[s].into = saves[s].into
      /\ \A r \in Saver \ {s} : saves'[r] = saves[r]
  BY <1>1, AdvanceFacts DEF OpenTmp
<1>3. UNCHANGED <<vars, disk, life, boots>> /\ tmp' = Torn
  BY DEF OpenTmp
<1>4. FilesTypeOK'
  BY <1>1, <1>2, <1>3, NoTasksFit DEF FilesTypeOK
<1>5. FilesOK'
  <2>1. SUFFICES ASSUME life = "up", OneTimerSave
                 PROVE  FilesOK'
    BY <1>3 DEF FilesOK, OneTimerSave
  <2>2. /\ s \in TimerSave /\ Saver = {s, "final"} /\ s # "final"
        /\ TimerSaveOK(s)
        /\ saves["final"].at = "none" /\ Follows(disk.tasks, tasks)
    BY <1>1, <2>1, OnlyTheTimer
  <2>3. TimerSaveOK(s)'
    BY <1>1, <1>2, <1>3, <2>2 DEF TimerSaveOK, vars, boardVars
  <2>4. saves'["final"].at = "none" /\ \A r \in TimerSave : r = s
    BY <1>2, <2>1, <2>2 DEF OneTimerSave
  <2> QED
    BY <1>3, <2>2, <2>3, <2>4 DEF FilesOK, vars, boardVars
<1>6. \A r \in Saver : saves'[r].image = saves[r].image
  BY <1>2
<1>7. dirty' \in BOOLEAN
  BY <1>1, <1>3 DEF vars, boardVars, IInv, Core, BoardTypeOK
<1>8. CoordInv' /\ NotSentAgain /\ NoNewOrphan
  BY <1>3, <1>4, <1>5, <1>6, <1>7, SavingKeepsInv DEF vars, boardVars
<1> QED
  BY <1>3, <1>8 DEF FileIsSafe

(* A save that fills the file it has open, alone or not.                   *)
LEMMA WriteTmpKeepsInv ==
  ASSUME CoordInv, NEW s \in Saver, WriteTmp(s)
  PROVE  CoordInv' /\ NotSentAgain /\ FileIsSafe /\ NoNewOrphan
<1>1. IInv /\ FilesTypeOK /\ saves[s].at = "open"
  BY DEF CoordInv, WriteTmp
<1>2. /\ saves' \in [Saver -> Saves]
      /\ saves'[s].at = "written"
      /\ saves'[s].image = saves[s].image /\ saves'[s].into = saves[s].into
      /\ \A r \in Saver \ {s} : saves'[r] = saves[r]
  BY <1>1, AdvanceFacts DEF WriteTmp
<1>3. UNCHANGED <<vars, life, boots>>
  BY DEF WriteTmp
<1>4. /\ disk' \in {disk, Torn, saves[s].image}
      /\ tmp' \in {tmp, Torn, saves[s].image}
      /\ saves[s].into = "tmp" =>
           /\ disk' = disk
           /\ tmp.state # "whole" => tmp' = saves[s].image
  BY DEF WriteTmp
<1>5. FilesTypeOK'
  <2>1. saves[s].image \in Images
    BY <1>1 DEF FilesTypeOK, Saves
  <2> QED
    BY <1>1, <1>2, <1>3, <1>4, <2>1, NoTasksFit DEF FilesTypeOK
<1>6. FilesOK' /\ FileIsSafe
  <2>1. SUFFICES ASSUME life = "up", OneTimerSave
                 PROVE  FilesOK' /\ FileIsSafe
    BY <1>3 DEF FilesOK, FileIsSafe, OneTimerSave
  <2>2. /\ s \in TimerSave /\ Saver = {s, "final"} /\ s # "final"
        /\ TimerSaveOK(s)
        /\ saves["final"].at = "none" /\ Follows(disk.tasks, tasks)
    BY <1>1, <2>1, OnlyTheTimer
  <2>3. disk' = disk /\ tmp' = saves[s].image
    BY <1>1, <1>4, <2>2, NoTasksFit DEF TimerSaveOK
  <2>4. TimerSaveOK(s)'
    BY <1>1, <1>2, <1>3, <2>2, <2>3 DEF TimerSaveOK, vars, boardVars
  <2>5. saves'["final"].at = "none" /\ \A r \in TimerSave : r = s
    BY <1>2, <2>1, <2>2 DEF OneTimerSave
  <2> QED
    BY <1>3, <2>2, <2>3, <2>4, <2>5 DEF FilesOK, FileIsSafe, vars, boardVars
<1>7. \A r \in Saver : saves'[r].image = saves[r].image
  BY <1>2
<1>8. dirty' \in BOOLEAN
  BY <1>1, <1>3 DEF vars, boardVars, IInv, Core, BoardTypeOK
<1>9. CoordInv' /\ NotSentAgain /\ NoNewOrphan
  BY <1>3, <1>4, <1>5, <1>6, <1>7, <1>8, SavingKeepsInv DEF vars, boardVars
<1> QED
  BY <1>6, <1>9

(* The end of a save: it is gone, and the other may find its file renamed. *)
LEMMA EndFacts ==
  ASSUME FilesTypeOK, NEW s \in Saver, NEW outcome, EndSave(s, outcome)
  PROVE  /\ saves' \in [Saver -> Saves]
         /\ saves'[s] = NoSave
         /\ \A r \in Saver \ {s} :
              saves'[r].image = saves[r].image /\ saves'[r].at = saves[r].at
         /\ s # "final" => life' = life
         /\ s = "final" => life' = outcome
<1> DEFINE new(r) == IF r = s THEN NoSave
                     ELSE IF saves[r].at \in {"open", "written"} /\ tmp' = NoFile
                          THEN [saves[r] EXCEPT !.into = "disk"]
                          ELSE saves[r]
<1>1. saves' = [r \in Saver |-> new(r)] /\ life' = IF s = "final" THEN outcome ELSE life
  BY Zenon DEF EndSave
<1>2. ASSUME NEW r \in Saver
      PROVE  new(r) \in Saves
  <2>1. saves[r] \in Saves
    BY DEF FilesTypeOK
  <2>2. [saves[r] EXCEPT !.into = "disk"] \in Saves
    BY <2>1 DEF Saves
  <2> QED
    BY <2>1, <2>2, NoTasksFit
<1>3. ASSUME NEW r \in Saver \ {s}
      PROVE  new(r).image = saves[r].image /\ new(r).at = saves[r].at
  <2>1. saves[r] \in Saves
    BY DEF FilesTypeOK
  <2> QED
    BY <2>1 DEF Saves
<1>4. new(s) = NoSave
  OBVIOUS
<1> HIDE DEF new
<1> QED
  BY <1>1, <1>2, <1>3, <1>4

(* The renamed file is the timer's own, as long as the process is up.      *)
LEMMA RenameKeepsInv ==
  ASSUME CoordInv, NEW s \in Saver, Rename(s)
  PROVE  CoordInv' /\ NotSentAgain /\ FileIsSafe /\ NoNewOrphan
<1>1. IInv /\ FilesTypeOK /\ saves[s].at = "written"
  BY DEF CoordInv, Rename
<1>2. PICK outcome \in {"saved", "rejected"} : EndSave(s, outcome)
  BY Zenon DEF Rename
<1>3. /\ saves' \in [Saver -> Saves]
      /\ saves'[s] = NoSave
      /\ \A r \in Saver \ {s} :
           saves'[r].image = saves[r].image /\ saves'[r].at = saves[r].at
      /\ s # "final" => life' = life
      /\ s = "final" => life' = outcome
  BY <1>1, <1>2, EndFacts
<1>4. /\ UNCHANGED <<tasks, asked, created, delivered, deliveredIds,
                     fastVars, deepVars, boots>>
      /\ tmp' = NoFile
      /\ disk' \in {disk, tmp}
      /\ tmp.state # "none" => disk' = tmp
      /\ tmp.state = "none" => disk' = disk
  BY DEF Rename
<1>5. dirty' \in BOOLEAN
  BY <1>1 DEF Rename, IInv, Core, BoardTypeOK
<1>6. FilesTypeOK'
  BY <1>1, <1>3, <1>4, NoTasksFit DEF FilesTypeOK
<1>7. FilesOK' /\ FileIsSafe
  <2>1. life' = "up" => life = "up"
    BY <1>3
  <2>2. SUFFICES ASSUME life = "up", OneTimerSave
                 PROVE  FilesOK' /\ FileIsSafe
    BY <2>1 DEF FilesOK, FileIsSafe, OneTimerSave
  <2>3. /\ s \in TimerSave /\ Saver = {s, "final"} /\ s # "final"
        /\ TimerSaveOK(s)
        /\ saves["final"].at = "none" /\ Follows(disk.tasks, tasks)
    BY <1>1, <2>2, OnlyTheTimer
  <2>4. /\ disk' = tmp /\ tmp.state = "whole"
        /\ Follows(disk.tasks, tmp.tasks) /\ Follows(tmp.tasks, tasks)
    BY <1>1, <1>4, <2>3 DEF TimerSaveOK
  <2>5. \A r \in Saver : saves'[r].at = "none"
    BY <1>3, <2>3 DEF NoSave
  <2>6. FilesOK'
    BY <1>4, <2>3, <2>4, <2>5 DEF FilesOK, TimerSaveOK, Saver
  <2>7. FileIsSafe
    BY <2>4 DEF FileIsSafe, Follows
  <2> QED
    BY <2>6, <2>7
<1>8. \A r \in Saver : saves'[r].image \in {saves[r].image, NoFile}
  BY <1>3 DEF NoSave
<1>9. CoordInv' /\ NotSentAgain /\ NoNewOrphan
  BY <1>4, <1>5, <1>6, <1>7, <1>8, SavingKeepsInv
<1> QED
  BY <1>7, <1>9

(* A save that fails leaves the files as they are.                         *)
LEMMA SaveFailedKeepsInv ==
  ASSUME CoordInv, NEW s \in Saver, SaveFailed(s)
  PROVE  CoordInv' /\ NotSentAgain /\ FileIsSafe /\ NoNewOrphan
<1>1. IInv /\ FilesTypeOK
  BY DEF CoordInv
<1>2. /\ UNCHANGED <<vars, disk, tmp, boots>>
      /\ saves' = [saves EXCEPT ![s] = NoSave]
      /\ life' \in {life, "rejected"}
  BY DEF SaveFailed
<1>3. FilesTypeOK'
  BY <1>1, <1>2, NoTasksFit DEF FilesTypeOK
<1>4. FilesOK' /\ FileIsSafe
  BY <1>1, <1>2 DEF CoordInv, FilesOK, FileIsSafe, TimerSaveOK, FilesTypeOK,
     OneTimerSave, NoSave, Saver, vars, boardVars
<1>5. \A r \in Saver : saves'[r].image \in {saves[r].image, NoFile}
  BY <1>1, <1>2 DEF FilesTypeOK, NoSave
<1>6. dirty' \in BOOLEAN
  BY <1>1, <1>2 DEF vars, boardVars, IInv, Core, BoardTypeOK
<1>7. CoordInv' /\ NotSentAgain /\ NoNewOrphan
  BY <1>2, <1>3, <1>4, <1>5, <1>6, SavingKeepsInv DEF vars, boardVars
<1> QED
  BY <1>4, <1>7

-----------------------------------------------------------------------------
(* Stopping *)

(* stop() copies the board once more; what it says of its life is not "up".*)
LEMMA FinalSaveKeepsInv ==
  ASSUME CoordInv, FinalSave
  PROVE  CoordInv' /\ NotSentAgain /\ FileIsSafe /\ NoNewOrphan
<1>1. IInv /\ FilesTypeOK /\ "final" \in Saver
  BY DEF CoordInv, Saver
<1>2. /\ UNCHANGED <<vars, disk, tmp, boots>>
      /\ life # "up" /\ life' # "up"
      /\ StartSave("final") \/ UNCHANGED saves
  BY DEF FinalSave
<1>3. saves' \in [Saver -> Saves]
  BY <1>1, <1>2, StartFacts DEF FilesTypeOK
<1>4. FilesTypeOK'
  BY <1>1, <1>2, <1>3 DEF FilesTypeOK
<1>5. FilesOK' /\ FileIsSafe
  BY <1>2 DEF FilesOK, FileIsSafe
<1>6. \A s \in Saver : saves'[s].image \in {saves[s].image, NoFile}
                     \/ Fits(saves'[s].image, created, Known)
  BY <1>1, <1>2, StartFacts, CopyFits
<1>7. dirty' \in BOOLEAN
  BY <1>1, <1>2 DEF vars, boardVars, IInv, Core, BoardTypeOK
<1>8. CoordInv' /\ NotSentAgain /\ NoNewOrphan
  BY <1>2, <1>4, <1>5, <1>6, <1>7, SavingKeepsInv DEF vars, boardVars
<1> QED
  BY <1>5, <1>8

(* The rest of stop(), and a stutter, write nothing.                       *)
LEMMA StoppingKeepsInv ==
  ASSUME CoordInv, Stop \/ Exit \/ UNCHANGED allVars
  PROVE  CoordInv' /\ NotSentAgain /\ FileIsSafe /\ NoNewOrphan
<1>1. /\ UNCHANGED <<vars, disk, tmp, saves, boots>>
      /\ life' = "up" => life = "up"
  BY DEF Stop, Exit, allVars, coordinatorVars
<1>2. FilesTypeOK'
  BY <1>1 DEF CoordInv, FilesTypeOK
<1>3. FilesOK' /\ FileIsSafe
  BY <1>1, QuietKeepsFiles DEF CoordInv, vars, boardVars
<1>4. dirty' \in BOOLEAN
  BY <1>1 DEF CoordInv, vars, boardVars, IInv, Core, BoardTypeOK
<1>5. CoordInv' /\ NotSentAgain /\ NoNewOrphan
  BY <1>1, <1>2, <1>3, <1>4, SavingKeepsInv DEF vars, boardVars
<1> QED
  BY <1>3, <1>5

-----------------------------------------------------------------------------
(* Archiving, and the start of another process *)

(* Closed tasks that go are gone for good, and the DeepLoop holds none of  *)
(* them.                                                                   *)
LEMMA ArchiveKeepsInv ==
  ASSUME CoordInv, Archive
  PROVE  CoordInv' /\ NotSentAgain /\ FileIsSafe /\ NoNewOrphan
<1>1. PICK old \in SUBSET {t \in TaskId : tasks[t].status \in Closed} :
         /\ old \cap Current = {}
         /\ tasks' = [t \in TaskId |-> IF t \in old
                        THEN [tasks[t] EXCEPT !.status = "absent"] ELSE tasks[t]]
         /\ deliveredIds' = deliveredIds \ old
  BY DEF Archive
<1>2. /\ UNCHANGED <<asked, created, fastVars, deepVars, disk, tmp, saves, life, boots>>
      /\ delivered' = deliveredIds' /\ dirty' = TRUE
  BY DEF Archive, coordinatorVars
<1>3. IInv /\ BoardTypeOK /\ FreshIds /\ JobOK /\ created \in Nat
  BY BoardAssumption DEF CoordInv, IInv, Core, BoardTypeOK
<1>4. ASSUME NEW t \in TaskId
      PROVE  /\ tasks'[t] \in Task
             /\ tasks'[t].owner = tasks[t].owner
             /\ t \in old => tasks'[t].status = "absent" /\ t <= created
             /\ t \notin old => tasks'[t] = tasks[t]
  <2>1. tasks[t] \in Task
    BY <1>3 DEF BoardTypeOK
  <2>2. /\ [tasks[t] EXCEPT !.status = "absent"] \in Task
        /\ [tasks[t] EXCEPT !.status = "absent"].status = "absent"
        /\ [tasks[t] EXCEPT !.status = "absent"].owner = tasks[t].owner
    BY <2>1, StatusUpdate DEF Status
  <2>3. t \in old => t <= created
    BY <1>1, <1>3, TaskIds DEF FreshIds, Closed
  <2> QED
    BY <1>1, <2>1, <2>2, <2>3
<1>5. tasks' \in [TaskId -> Task]
  BY <1>1, <1>4
<1>6. BoardTypeOK'
  BY <1>2, <1>3, <1>1, <1>5 DEF BoardTypeOK
<1>7. FreshIds'
  BY <1>2, <1>3, <1>4 DEF FreshIds
<1>8. JobOK'
  BY <1>1, <1>2, <1>3, <1>4 DEF JobOK, Current, deepVars
<1>9. IInv'
  BY <1>2, <1>3, <1>6, <1>7, <1>8
  DEF IInv, Core, RestOK, TalkOK, deepVars, fastVars
<1>10. NoNewOrphan
  BY <1>2, <1>4 DEF NoNewOrphan, Orphaned, Current, Working, deepVars
<1>11. RecordsOK'
  <2>1. Known \subseteq Known'
    <3>1. ASSUME NEW t \in deliveredIds
          PROVE  t \in Known'
      BY <1>1, <1>2, <1>3, <1>4 DEF Known, Gone, BoardTypeOK
    <3>2. ASSUME NEW t \in Gone
          PROVE  t \in Known'
      BY <1>2, <1>4 DEF Known, Gone
    <3> QED
      BY <3>1, <3>2 DEF Known
  <2>2. RecordsOK
    BY DEF CoordInv
  <2> QED
    BY <1>2, <1>3, <2>1, <2>2, RecordsKept
<1>12. FilesOK' /\ FileIsSafe
  <2>1. \A f : Follows(f, tasks) => Follows(f, tasks')
    BY <1>4 DEF Follows
  <2> QED
    BY <1>2, <2>1, QuietKeepsFiles DEF CoordInv
<1>13. NotSentAgain /\ replies' \in [TaskId -> Nat] /\ FilesTypeOK'
  BY <1>2 DEF CoordInv, NotSentAgain, FilesTypeOK, fastVars
<1> QED
  BY <1>9, <1>10, <1>11, <1>12, <1>13 DEF CoordInv

(* The loaded board is the one in memory, and both loops are idle.  Its    *)
(* tasks may be claimed by a DeepLoop that is no more.                     *)
LEMMA BootKeepsInv ==
  ASSUME CoordInv, Boot
  PROVE  CoordInv' /\ NotSentAgain /\ FileIsSafe
<1>1. IInv /\ BoardTypeOK /\ FilesTypeOK /\ RecordsOK /\ created \in Nat
  BY BoardAssumption DEF CoordInv, IInv, Core, BoardTypeOK
<1>2. /\ disk.tasks \in [TaskId -> Task] /\ disk.ids \in SUBSET TaskId
      /\ disk \in Images
  BY <1>1 DEF FilesTypeOK, Images
<1>3. /\ tasks' = disk.tasks /\ deliveredIds' = disk.ids
      /\ delivered' = disk.ids \cup {t \in TaskId : disk.tasks[t].status \in Closed}
      /\ dirty' = (disk.state # "whole")
      /\ boots' = boots + 1 /\ tmp' = NoFile /\ saves' = [s \in Saver |-> NoSave]
  BY DEF Boot, Load
<1>4. /\ fpc' = "idle" /\ talk' = NoTalk /\ dpc' = "idle" /\ job' = NoJob
      /\ revisions' = [t \in TaskId |-> 0] /\ events' = 0
      /\ UNCHANGED <<created, replies, posted, goalTasks, edited, disk>>
  BY DEF Boot
<1>5. BoardTypeOK'
  BY <1>1, <1>2, <1>3, <1>4 DEF BoardTypeOK
<1>6. FreshIds'
  BY <1>1, <1>3, <1>4 DEF FreshIds, RecordsOK, Fits
<1>7. JobOK'
  BY <1>4 DEF JobOK
<1>8. Core'
  BY <1>4, <1>5, <1>6, <1>7, NoJobIsJob DEF Core, DeepPC
<1>9. RestOK' /\ TalkOK'
  BY <1>1, <1>4, BoardAssumption DEF IInv, RestOK, TalkOK, NoTalk
<1>10. FilesTypeOK'
  BY <1>1, <1>2, <1>3, <1>4, NoTasksFit DEF FilesTypeOK
<1>11. RecordsOK'
  <2> DEFINE K == Known'
             n == created'
  <2>1. Fits(disk', n, K)
    BY <1>1, <1>3, <1>4 DEF RecordsOK, Fits, Known
  <2>2. deliveredIds' \subseteq delivered'
    BY <1>3
  <2>3. \A s \in Saver : saves'[s].image = NoFile
    BY <1>3 DEF NoSave
  <2> HIDE DEF K, n
  <2>4. Fits(NoFile, n, K)
    BY EmptyFits
  <2>5. Fits(tmp', n, K) /\ \A s \in Saver : Fits(saves'[s].image, n, K)
    BY <1>3, <2>3, <2>4
  <2> QED
    BY <2>1, <2>2, <2>5 DEF RecordsOK, K, n
<1>12. FilesOK'
  <2>1. \A s \in Saver : saves'[s].at = "none"
    BY <1>3 DEF Saver, NoSave
  <2>2. Follows(disk'.tasks, tasks')
    BY <1>3, <1>4 DEF Follows
  <2> QED
    BY <2>1, <2>2 DEF FilesOK, TimerSaveOK, Saver
<1>13. NotSentAgain /\ FileIsSafe /\ replies' \in [TaskId -> Nat]
  BY <1>4 DEF CoordInv, NotSentAgain, FileIsSafe
<1> QED
  BY <1>8, <1>9, <1>10, <1>11, <1>12, <1>13 DEF CoordInv, IInv

-----------------------------------------------------------------------------
(* A first start: an empty board, no file, no save.                        *)
LEMMA CoordInit ==
  ASSUME CoordinatorInit
  PROVE  CoordInv /\ NoOrphan /\ boots = 0
<1>1. IInv /\ NoOrphan
  <2>1. tasks = [t \in TaskId |-> [NewTask("user", 0) EXCEPT !.status = "absent"]]
    BY DEF CoordinatorInit, NoTasks
  <2> QED
    BY <2>1, EmptyBoardIInv DEF CoordinatorInit
<1>2. replies \in [TaskId -> Nat]
  BY DEF CoordinatorInit, FastInit
<1>3. FilesTypeOK /\ boots = 0
  BY NoTasksFit DEF CoordinatorInit, FilesTypeOK
<1>4. RecordsOK
  <2>1. \A s \in Saver : saves[s].image = NoFile
    BY DEF CoordinatorInit, NoSave
  <2> QED
    BY <2>1, EmptyFits DEF CoordinatorInit, RecordsOK
<1>5. FilesOK
  BY NoTasksFit DEF CoordinatorInit, FilesOK, TimerSaveOK, Follows, Saver, NoSave
<1> QED
  BY <1>1, <1>2, <1>3, <1>4, <1>5 DEF CoordInv

(* CoordInv is inductive, and only a restart leaves a task in nobody's     *)
(* hands.                                                                  *)
LEMMA CoordNext ==
  ASSUME CoordInv, [CoordinatorNext]_allVars
  PROVE  CoordInv' /\ NotSentAgain /\ FileIsSafe /\ (NoNewOrphan \/ Boot)
<1>1. CASE LoopsRun
  BY <1>1, LoopsKeepInv
<1>2. CASE SaveTick
  BY <1>2, SaveTickKeepsInv
<1>3. ASSUME NEW s \in Saver, OpenTmp(s) \/ WriteTmp(s) \/ Rename(s) \/ SaveFailed(s)
      PROVE  CoordInv' /\ NotSentAgain /\ FileIsSafe /\ NoNewOrphan
  BY <1>3, OpenTmpKeepsInv, WriteTmpKeepsInv, RenameKeepsInv, SaveFailedKeepsInv
<1>4. CASE Archive
  BY <1>4, ArchiveKeepsInv
<1>5. CASE FinalSave
  BY <1>5, FinalSaveKeepsInv
<1>6. CASE Stop \/ Exit \/ UNCHANGED allVars
  BY <1>6, StoppingKeepsInv
<1>7. CASE Boot
  BY <1>7, BootKeepsInv
<1> QED
  BY <1>1, <1>2, <1>3, <1>4, <1>5, <1>6, <1>7 DEF CoordinatorNext

(* CoordInv holds whatever is saved, archived, stopped, killed and started *)
(* again, and in whatever order.                                           *)
THEOREM CoordinatorInvariant == CoordinatorSpec => []CoordInv
<1>1. CoordinatorInit => CoordInv
  BY CoordInit
<1>2. CoordInv /\ [CoordinatorNext]_allVars => CoordInv'
  BY CoordNext
<1> QED
  BY <1>1, <1>2, PTL DEF CoordinatorSpec

(* A reply on record is not sent again, for any number of saves, archives  *)
(* and restarts: an id leaves the record only with its task, for good.     *)
THEOREM RecordedReplyStays == CoordinatorSpec => RecordedReplyRests
<1>1. CoordInv /\ [CoordinatorNext]_allVars =>
        [\A t \in TaskId :
           replies'[t] # replies[t] => t \notin deliveredIds /\ t \notin disk.ids]_allVars
  BY CoordNext DEF NotSentAgain
<1> QED
  BY <1>1, CoordinatorInvariant, PTL DEF CoordinatorSpec, RecordedReplyRests

(* Until stop() is called, and if the timer's last save is over when it    *)
(* starts the next, no step of a save tears the file or takes it back, so  *)
(* that a crash at any moment leaves a whole board, whatever the loops and *)
(* archiveOld() do while the file is written.                              *)
THEOREM FileStaysWhole == CoordinatorSpec => TimerSavesAreSafe
<1>1. CoordInv /\ [CoordinatorNext]_allVars =>
        [disk' # disk /\ life = "up" /\ OneTimerSave =>
           /\ disk.state = "whole" => disk'.state = "whole"
           /\ disk.state # "torn" => disk'.state # "torn"
           /\ \A t \in TaskId :
                disk.tasks[t].status = "done" =>
                  disk'.tasks[t].status \in {"done", "absent"}]_allVars
  BY CoordNext DEF FileIsSafe
<1> QED
  BY <1>1, CoordinatorInvariant, PTL DEF CoordinatorSpec, TimerSavesAreSafe

(* In a process that was not started again, what counts as delivered is on *)
(* record.                                                                 *)
RecordedSoFar == boots = 0 => delivered = deliveredIds

LEMMA RecordedKept ==
  ASSUME CoordInv, RecordedSoFar, [CoordinatorNext]_allVars
  PROVE  /\ RecordedSoFar'
         /\ delivered \cap Deliverable' # {} => Archive /\ boots > 0
<1>1. boots \in Nat
  BY DEF CoordInv, FilesTypeOK
<1>2. CASE LoopsRun
  <2>1. Next /\ boots' = boots
    BY <1>2 DEF LoopsRun, Next, coordinatorVars
  <2>2. CASE UNCHANGED <<delivered, deliveredIds, replies>>
    BY <2>1, <2>2 DEF RecordedSoFar, Deliverable
  <2>3. CASE DeliverResponse
    <3>1. PICK t \in TaskId : /\ delivered' = delivered \cup {t}
                             /\ deliveredIds' = deliveredIds \cup {t}
      BY <2>3, DeliveryFacts
    <3> QED
      BY <2>1, <3>1 DEF RecordedSoFar, Deliverable
  <2> QED
    BY <2>1, <2>2, <2>3, RepliesMove
<1>3. CASE Archive
  <2>1. boots' = boots
    BY <1>3 DEF Archive, coordinatorVars
  <2>2. PICK old \in SUBSET {t \in TaskId : tasks[t].status \in Closed} :
           /\ tasks' = [t \in TaskId |-> IF t \in old
                          THEN [tasks[t] EXCEPT !.status = "absent"] ELSE tasks[t]]
           /\ deliveredIds' = deliveredIds \ old /\ delivered' = deliveredIds'
    BY <1>3 DEF Archive
  <2>3. ASSUME NEW t \in old
        PROVE  tasks'[t].status = "absent"
    <3>1. tasks[t] \in Task
      BY DEF CoordInv, IInv, Core, BoardTypeOK
    <3> QED
      BY <2>2, <3>1, StatusUpdate DEF Status
  <2>4. boots = 0 => delivered \cap Deliverable' = {}
    BY <2>2, <2>3 DEF Deliverable, RecordedSoFar
  <2> QED
    BY <1>1, <1>3, <2>1, <2>2, <2>4 DEF RecordedSoFar
<1>4. CASE Boot
  <2>1. boots' # 0
    BY <1>1, <1>4 DEF Boot
  <2>2. Deliverable' = {}
    BY <1>4 DEF Boot, Load, Deliverable, Closed
  <2> QED
    BY <2>1, <2>2 DEF RecordedSoFar
<1>5. CASE UNCHANGED <<tasks, delivered, deliveredIds, boots>>
  BY <1>5 DEF RecordedSoFar, Deliverable
<1>6. ASSUME NEW s \in Saver, OpenTmp(s) \/ WriteTmp(s) \/ Rename(s) \/ SaveFailed(s)
      PROVE  UNCHANGED <<tasks, delivered, deliveredIds, boots>>
  BY <1>6 DEF OpenTmp, WriteTmp, Rename, SaveFailed, vars, boardVars
<1>7. SaveTick \/ Stop \/ FinalSave \/ Exit \/ UNCHANGED allVars
        => UNCHANGED <<tasks, delivered, deliveredIds, boots>>
  BY DEF SaveTick, Stop, FinalSave, Exit, allVars, coordinatorVars, vars, boardVars
<1> QED
  BY <1>2, <1>3, <1>4, <1>5, <1>6, <1>7 DEF CoordinatorNext

(* What counts as delivered comes up for delivery again only when a process*)
(* that was started again archives; while the first one runs nothing does, *)
(* whatever is saved and archived meanwhile.                               *)
THEOREM RedeliveryNeedsRestart == CoordinatorSpec => DueAgainByArchiving
<1>1. CoordinatorInit => RecordedSoFar
  BY DEF CoordinatorInit, RecordedSoFar
<1>2. CoordInv /\ RecordedSoFar /\ [CoordinatorNext]_allVars => RecordedSoFar'
  BY RecordedKept DEF RecordedSoFar
<1>3. CoordInv /\ RecordedSoFar /\ [CoordinatorNext]_allVars =>
        [\A t \in delivered \ delivered' :
           t \in Deliverable' => Archive /\ boots > 0]_allVars
  BY RecordedKept
<1> QED
  BY <1>1, <1>2, <1>3, CoordinatorInvariant, PTL DEF CoordinatorSpec, DueAgainByArchiving

(* Up to the first restart, no task is in nobody's hands.                  *)
RecoveredSoFar == boots = 0 => NoOrphan

(* Saving, archiving and stopping orphan no task; only the start of a      *)
(* process that does not recover interrupted tasks does (MCRecovery.cfg).  *)
THEOREM OrphansNeedRestart == CoordinatorSpec => [](boots = 0 => InterruptedTasksRecover)
<1>1. CoordinatorInit => RecoveredSoFar
  BY CoordInit DEF RecoveredSoFar
<1>2. CoordInv /\ RecoveredSoFar /\ [CoordinatorNext]_allVars => RecoveredSoFar'
  <2> SUFFICES ASSUME CoordInv, boots = 0 => NoOrphan, [CoordinatorNext]_allVars,
                      boots' = 0
               PROVE  NoOrphan'
    BY DEF RecoveredSoFar
  <2>1. boots \in Nat /\ ~Boot
    BY DEF CoordInv, FilesTypeOK, Boot
  <2>2. NoNewOrphan
    BY <2>1, CoordNext
  <2>3. boots = 0
    BY <2>1 DEF CoordinatorNext, LoopsRun, SaveTick, OpenTmp, WriteTmp, Rename,
       SaveFailed, Archive, Stop, FinalSave, Exit, allVars, coordinatorVars
  <2>4. NoOrphan <=> \A t \in TaskId : ~Orphaned(t)
    BY DEF NoOrphan, Orphaned
  <2>5. NoOrphan' <=> \A t \in TaskId : ~Orphaned(t)'
    BY DEF NoOrphan, Orphaned
  <2> QED
    BY <2>2, <2>3, <2>4, <2>5 DEF NoNewOrphan
<1>3. RecoveredSoFar => (boots = 0 => InterruptedTasksRecover)
  BY DEF RecoveredSoFar, InterruptedTasksRecover
<1> QED
  BY <1>1, <1>2, <1>3, CoordinatorInvariant, PTL DEF CoordinatorSpec
=============================================================================
