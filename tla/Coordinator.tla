---------------------------- MODULE Coordinator ----------------------------
(***************************************************************************)
(* The LoopCoordinator (src/dual-loop/coordinator.ts) around the two       *)
(* loops: the timers that save and archive the board, the graceful stop    *)
(* with its final save, and what a process that starts again finds on      *)
(* disk.  A save serializes the board, and then safeWriteFile()            *)
(* (src/persistence/safe-write.ts) opens <file>.tmp, writes it and renames *)
(* it: the loops, and another save, run between these steps.  No save      *)
(* waits for another: the timer starts one whenever it finds the board     *)
(* dirty, also while its last one is under way, and so does stop().        *)
(***************************************************************************)
EXTENDS DualLoop

CONSTANTS
    TimerSave,      \* bound: the timer's saves that may be under way at once
    MaxBoots,       \* bound: how often the process is started again
    Stops,          \* bound: the lives in which stop() is called, if not killed before
    StopsAfter      \* bound: how many tasks were made before it is

ASSUME CoordinatorAssumption ==
    /\ "final" \notin TimerSave /\ MaxBoots \in Nat
    /\ Stops \subseteq Nat /\ StopsAfter \subseteq Nat

VARIABLES
    disk,       \* taskboard.json
    tmp,        \* taskboard.json.tmp
    saves,      \* the save() calls of the timer and the one of stop()
    life,       \* where start() and stop() are
    boots       \* how often the process was started again

coordinatorVars == <<disk, tmp, saves, life, boots>>
allVars == <<vars, coordinatorVars>>

Saver == TimerSave \cup {"final"}

NoTasks == [t \in TaskId |-> [NewTask("user", 0) EXCEPT !.status = "absent"]]

(* A file that holds a whole serialized board, none, or part of one.       *)
Image == [state |-> "whole", tasks |-> tasks, ids |-> deliveredIds]
NoFile == [state |-> "none", tasks |-> NoTasks, ids |-> {}]
Torn   == [NoFile EXCEPT !.state = "torn"]

(* into: the name that the file the save has open goes by.                 *)
NoSave == [at |-> "none", image |-> NoFile, into |-> "tmp"]

(* load() of the file and markExistingDoneAsDelivered(): the board is what *)
(* a whole file says, and tasks closed in an earlier session count as      *)
(* delivered; otherwise the board is empty and to be saved.                *)
Load(file) ==
    /\ tasks' = file.tasks
    /\ deliveredIds' = file.ids
    /\ delivered' = file.ids \cup {t \in TaskId : file.tasks[t].status \in Closed}
    /\ dirty' = (file.state # "whole")

(* A first start: there is no file. *)
CoordinatorInit ==
    /\ tasks = NoTasks
    /\ asked = [t \in TaskId |-> NoGroup]
    /\ created = 0
    /\ delivered = {}
    /\ deliveredIds = {}
    /\ dirty = TRUE
    /\ FastInit
    /\ DeepInit
    /\ disk = NoFile
    /\ tmp = NoFile
    /\ saves = [s \in Saver |-> NoSave]
    /\ life = "up"
    /\ boots = 0

-----------------------------------------------------------------------------
(* The loops check `running' at the top of each turn; work under way when  *)
(* it is cleared goes on to the end of the turn.                           *)
LoopsRun ==
    /\ \/ UserWrites /\ life = "up"
       \/ SystemEmits /\ life = "up"
       \/ FastTurn /\ (life = "up" \/ fpc # "idle")
       \/ DeepTurn /\ (life = "up" \/ dpc # "idle")
    /\ life # "down"
    /\ UNCHANGED coordinatorVars

-----------------------------------------------------------------------------
(* Saving *)

StartSave(s) == saves' = [saves EXCEPT ![s] = [NoSave EXCEPT !.at = "copied",
                                                             !.image = Image]]

(* The timers are cleared only after stop() has waited for the dream       *)
(* scheduler to save its state.                                            *)
TimersRun == life \in {"up", "stopping"}

(* The save timer found the board dirty: it starts a save, whether its     *)
(* earlier ones are over or not.                                           *)
SaveTick ==
    /\ TimersRun
    /\ dirty
    /\ \E s \in TimerSave : saves[s].at = "none" /\ StartSave(s)
    /\ UNCHANGED <<vars, disk, tmp, life, boots>>

(* Mutant of OpenTmp: the board is written straight into its own file.     *)
OpenInPlace(s) ==
    /\ saves[s].at = "copied"
    /\ saves' = [saves EXCEPT ![s].at = "open", ![s].into = "disk"]
    /\ disk' = Torn
    /\ UNCHANGED <<vars, tmp, life, boots>>

(* writeFile() opens the temporary file: made, or made empty, even if      *)
(* another save has it open.                                               *)
OpenTmp(s) ==
    /\ saves[s].at = "copied"
    /\ saves' = [saves EXCEPT ![s].at = "open"]
    /\ tmp' = Torn
    /\ UNCHANGED <<vars, disk, life, boots>>

(* ... and fills the file it opened, whatever that is called by now.  Over *)
(* what another save has put there, it may leave a mixture.                *)
WriteTmp(s) ==
    /\ saves[s].at = "open"
    /\ saves' = [saves EXCEPT ![s].at = "written"]
    /\ IF saves[s].into = "tmp"
       THEN /\ tmp' \in {saves[s].image} \cup
                        (IF tmp.state = "whole" THEN {Torn} ELSE {})
            /\ UNCHANGED disk
       ELSE /\ disk' \in {saves[s].image} \cup
                         (IF disk.state = "whole" THEN {Torn} ELSE {})
            /\ UNCHANGED tmp
    /\ UNCHANGED <<vars, life, boots>>

(* The save is over; after its own stop() goes on ("saved"), or rejects.   *)
EndSave(s, outcome) ==
    /\ saves' = [r \in Saver |->
                   IF r = s THEN NoSave
                   ELSE IF saves[r].at \in {"open", "written"} /\ tmp' = NoFile
                        THEN [saves[r] EXCEPT !.into = "disk"]
                        ELSE saves[r]]
    /\ life' = IF s = "final" THEN outcome ELSE life

(* rename() of the temporary file; it fails when another save has renamed  *)
(* it.  `dirty' is cleared now, not when the board was copied.             *)
Rename(s) ==
    /\ saves[s].at = "written"
    /\ tmp' = NoFile
    /\ IF tmp.state = "none"
       THEN UNCHANGED <<disk, dirty>> /\ EndSave(s, "rejected")
       ELSE disk' = tmp /\ dirty' = FALSE /\ EndSave(s, "saved")
    /\ UNCHANGED <<tasks, asked, created, delivered, deliveredIds,
                   fastVars, deepVars, boots>>

(* A write failed: the timer logs it and will try again, stop() rejects.   *)
SaveFailed(s) ==
    /\ saves[s].at \in {"copied", "open"}
    /\ UNCHANGED tmp
    /\ saves' = [saves EXCEPT ![s] = NoSave]
    /\ life' = IF s = "final" THEN "rejected" ELSE life
    /\ UNCHANGED <<vars, disk, boots>>

-----------------------------------------------------------------------------
(* Mutant of Archive: the delivered set is emptied, not rebuilt.           *)
ArchiveForgetful ==
    /\ TimersRun
    /\ \E old \in (SUBSET {t \in TaskId : tasks[t].status \in Closed}) \ {{}} :
         /\ old \cap Current = {}
         /\ tasks' = [t \in TaskId |-> IF t \in old
                        THEN [tasks[t] EXCEPT !.status = "absent"] ELSE tasks[t]]
         /\ deliveredIds' = deliveredIds \ old
    /\ delivered' = {}
    /\ dirty' = TRUE
    /\ UNCHANGED <<asked, created, fastVars, deepVars, coordinatorVars>>

(* archiveOld(): old enough closed tasks go; when any does, the delivered  *)
(* set is rebuilt from the persisted ids that are left.  The task in the   *)
(* DeepLoop's hands was updated too recently.                              *)
Archive ==
    /\ TimersRun
    /\ \E old \in (SUBSET {t \in TaskId : tasks[t].status \in Closed}) \ {{}} :
         /\ old \cap Current = {}
         /\ tasks' = [t \in TaskId |-> IF t \in old
                        THEN [tasks[t] EXCEPT !.status = "absent"] ELSE tasks[t]]
         /\ deliveredIds' = deliveredIds \ old
    /\ delivered' = deliveredIds'
    /\ dirty' = TRUE
    /\ UNCHANGED <<asked, created, fastVars, deepVars, coordinatorVars>>

(* stop(): the loops are told to stop, then the timers are cleared ...     *)
Stop ==
    /\ boots \in Stops /\ created \in StopsAfter
    /\ life = "up"
    /\ life' = "stopping"
    /\ UNCHANGED <<vars, disk, tmp, saves, boots>>

(* ... the board is saved once more, if it is dirty, unless one of the     *)
(* stores that are saved before it (goals, issues) fails and stop() rejects*)
(* ...                                                                     *)
FinalSave ==
    /\ life = "stopping"
    /\ \/ dirty /\ StartSave("final") /\ life' = "saving"
       \/ ~dirty /\ UNCHANGED saves /\ life' = "saved"
       \/ UNCHANGED saves /\ life' = "rejected"
    /\ UNCHANGED <<vars, disk, tmp, boots>>

(* ... and, unless that rejected, the controller waits for the loops to    *)
(* come to an end.                                                         *)
Exit ==
    /\ life = "saved"
    /\ fpc = "idle"
    /\ dpc = "idle"
    /\ \A s \in Saver : saves[s].at = "none"
    /\ life' = "down"
    /\ UNCHANGED <<vars, disk, tmp, saves, boots>>

(* The process starts again, after a stop or after being killed at any     *)
(* moment: the board is loaded, and all else starts afresh.  A temporary   *)
(* file left behind is of no account: the next save empties it.            *)
Boot ==
    /\ boots < MaxBoots
    /\ boots' = boots + 1
    /\ life' = "up"
    /\ tmp' = NoFile
    /\ saves' = [s \in Saver |-> NoSave]
    /\ Load(disk)
    /\ pending' = << >> /\ fpc' = "idle" /\ batch' = << >> /\ cutoff' = 0
    /\ hand' = NoGroup /\ talk' = NoTalk
    /\ dpc' = "idle" /\ job' = NoJob
    /\ revisions' = [t \in TaskId |-> 0]
    /\ events' = 0
    /\ UNCHANGED <<asked, created, arrived, replies, posted, goalTasks, edited,
                   disk>>

CoordinatorNext ==
    \/ LoopsRun
    \/ SaveTick
    \/ \E s \in Saver : OpenTmp(s) \/ WriteTmp(s) \/ Rename(s) \/ SaveFailed(s)
    \/ Archive
    \/ Stop \/ FinalSave \/ Exit
    \/ Boot

CoordinatorSpec == CoordinatorInit /\ [][CoordinatorNext]_allVars

-----------------------------------------------------------------------------
(* A reply on record as delivered, in deliveredTaskIds of the board or of  *)
(* its file, is not sent again: not by the heartbeat, not after the board  *)
(* was archived, and not by a process that reads the record                *)
(* (task-board.ts load, markDelivered, archiveOld).                        *)
RecordedReplyRests ==
    [][\A t \in TaskId :
         replies'[t] # replies[t] => t \notin deliveredIds /\ t \notin disk.ids]_allVars

(* "Mark all already-completed tasks as delivered.  Called after load() to *)
(* prevent re-delivery of tasks from previous sessions." (task-board.ts,   *)
(* markExistingDoneAsDelivered, 378-379): what counts as delivered is not  *)
(* offered for delivery again while the process runs.                      *)
OldRepliesRest == [][boots' = boots => delivered \cap Deliverable' = {}]_allVars

(* That comment holds but for one case: what counts as delivered falls due *)
(* again only in a process that was started again, and only when it        *)
(* archives; not by a save, by the end of a save, by the start itself or by*)
(* what the loops do meanwhile (task-board.ts archiveOld, load).           *)
DueAgainByArchiving ==
    [][\A t \in delivered \ delivered' :
         t \in Deliverable' => Archive /\ boots > 0]_allVars

(* As long as nobody has asked the process to stop and the timer's last    *)
(* save is over when it starts the next (OneTimerSave: a write takes less  *)
(* than the interval between two), a crash at any moment leaves a whole    *)
(* board in the file, and the file never goes back: a task done on disk    *)
(* stays done there until it is archived (safe-write.ts, task-board.ts     *)
(* save).                                                                  *)
OneTimerSave == \A r, s \in TimerSave : r = s

TimerSavesAreSafe ==
    [][disk' # disk /\ life = "up" /\ OneTimerSave =>
         /\ disk.state = "whole" => disk'.state = "whole"
         /\ disk.state # "torn" => disk'.state # "torn"
         /\ \A t \in TaskId :
              disk.tasks[t].status = "done" =>
                disk'.tasks[t].status \in {"done", "absent"}]_allVars

(* "`rename()` is atomic on POSIX filesystems, so readers never see a      *)
(* half-written file." (safe-write.ts, 5-6): the board's file holds a      *)
(* whole board or does not exist.                                          *)
NeverHalfWritten == disk.state # "torn"

(* "Any task with status='implementing' and owner='deep' was interrupted", *)
(* and "These tasks are set to status='queued'", on restart                *)
(* (docs/archive/dual-loop-architecture.md, 1325-1326): no task is left    *)
(* claimed that the DeepLoop is not working on.                            *)
InterruptedTasksRecover == NoOrphan
=============================================================================
