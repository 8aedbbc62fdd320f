------------------------------ MODULE ToolLoop ------------------------------
(***************************************************************************)
(* How the DeepLoop has the steps of a plan carried out by the coder       *)
(* (src/dual-loop/deep-loop.ts dispatchToCoder, executeWithTools, and what *)
(* executePlan does with the files of a step): per step some phases, each  *)
(* a loop in which the model answers with text or with tool calls.  The    *)
(* loop ends by itself, by a reasoner's verdict, when the model goes round *)
(* in circles, or at its turn limit.  In DeepLoop.tla all of this is one   *)
(* await.  Only ReadEnds runs in between: a file that a shell command is   *)
(* seen to write is looked at in the background.                           *)
(***************************************************************************)
EXTENDS Integers, FiniteSets

CONSTANTS
    Call,               \* tool calls, told apart by their signature
    MaxSame,            \* bound: how often a turn repeats a call
    File,               \* paths
    Steps,              \* bound: how many steps the plan has
    Phases,             \* config.coderPasses
    EmergencyMax,       \* config.termination.emergencyMaxTurns
    CheckpointInterval, \* ... checkpointInterval
    StallThreshold,     \* ... stallThreshold
    MaxCheckpoints,     \* ... maxCheckpointsPerStep
    LoopThreshold,      \* TOOL_CALL_LOOP_THRESHOLD
    BreakLimit          \* CONSECUTIVE_LOOP_BREAK_LIMIT

ASSUME ToolLoopAssumption ==
    /\ MaxSame \in Nat /\ Steps \in Nat \ {0} /\ Phases \in Nat \ {0}
    /\ EmergencyMax \in Nat \ {0}
    /\ CheckpointInterval \in Nat \ {0}
    /\ StallThreshold \in Nat \ {0}
    /\ MaxCheckpoints \in Nat
    /\ LoopThreshold \in Nat \ {0} /\ BreakLimit \in Nat \ {0}
    /\ IsFiniteSet(File)

VARIABLES
    at,         \* what is awaited, or what is done before the next await
    step,       \* the step being executed
    phase,      \* phaseIdx + 1
    used,       \* totalTurnsUsed of the phases before
    loop,       \* the locals of executeWithTools()
    stepFileOps, manifest,
    reading,    \* the files of trackBashFileWrite() being read
    turns,      \* history: how often the model was asked in this step
    ran,        \* history: how often each call was carried out in this phase
    quiet,      \* history: turns with calls since the phase last got a new file
    broke,      \* history: the phase of this step that was broken off, or 0
    noted,      \* history: the files recorded while steps are carried out
    written     \* history: the files the plan has written

files == <<stepFileOps, manifest, reading, noted, written>>
vars == <<at, step, phase, used, loop, files, turns, ran, quiet, broke>>

Awaited == {"model", "tools", "reasoner", "wrapUp", "summary"}
Sync == {"ended", "phaseOver", "stepOver"}
Final == {"failed", "over"}

Loop == [turn : Nat, limit : Nat, history : Nat, counts : [Call -> Nat],
         streak : Nat, looped : BOOLEAN, lastFile : Nat, known : Nat,
         checkpoints : Nat, verdict : {"none", "complete", "stuck", "replan"}]

(* What executeWithTools() starts with, when it may take so many turns.    *)
NewLoop(limit, ops) ==
    [turn |-> 0, limit |-> limit, history |-> 0, counts |-> [c \in Call |-> 0],
     streak |-> 0, looped |-> FALSE, lastFile |-> 0, known |-> Cardinality(ops),
     checkpoints |-> 0, verdict |-> "none"]

Init ==
    /\ at = "model" /\ step = 1 /\ phase = 1 /\ used = 0
    /\ loop = NewLoop(EmergencyMax, {})
    /\ stepFileOps = {} /\ manifest = {} /\ reading = {}
    /\ noted = {} /\ written = {}
    /\ turns = 0 /\ ran = [c \in Call |-> 0] /\ quiet = 0 /\ broke = 0

-----------------------------------------------------------------------------
(* The turn is over: the next one, or the limit is reached.                *)
NextTurn(l) ==
    /\ loop' = [l EXCEPT !.turn = @ + 1]
    /\ at' = IF l.turn + 1 < l.limit THEN "model" ELSE "ended"

(* The model has written code in its text: it is told to call a tool.      *)
Nudge ==
    /\ at = "model" /\ loop.turn < loop.limit - 1
    /\ NextTurn([loop EXCEPT !.history = @ + 1])
    /\ turns' = turns + 1
    /\ UNCHANGED <<step, phase, used, files, ran, quiet, broke>>

(* Text and nothing else: the model has no more to do.                     *)
NaturalStop ==
    /\ at = "model"
    /\ at' = "ended"
    /\ turns' = turns + 1
    /\ UNCHANGED <<step, phase, used, loop, files, ran, quiet, broke>>

(* How often each call is made in a turn.                                  *)
Responses == {r \in [Call -> 0..MaxSame] : \E c \in Call : r[c] > 0}

Counted(r) == [c \in Call |-> loop.counts[c] + r[c]]

(* Mutant of Repeats: the threshold itself is let through.                 *)
RepeatsBeyond(r) == \E c \in Call : r[c] > 0 /\ Counted(r)[c] > LoopThreshold

Repeats(r) == \E c \in Call : r[c] > 0 /\ Counted(r)[c] >= LoopThreshold

(* The same call again and again: none of the turn's calls is carried out, *)
(* and the model is told; the third such turn in a row is the last.        *)
GoesRound ==
    /\ at = "model"
    /\ \E r \in Responses :
         /\ Repeats(r)
         /\ LET l == [loop EXCEPT !.counts = Counted(r), !.streak = @ + 1,
                                  !.looped = TRUE]
            IN IF l.streak >= BreakLimit
               THEN at' = "ended" /\ loop' = l /\ broke' = phase
               ELSE NextTurn([l EXCEPT !.history = @ + 1]) /\ UNCHANGED broke
    /\ turns' = turns + 1
    /\ UNCHANGED <<step, phase, used, files, ran, quiet>>

(* The calls are carried out, one after the other.                         *)
CallsTools ==
    /\ at = "model"
    /\ \E r \in Responses :
         /\ ~Repeats(r)
         /\ loop' = [loop EXCEPT !.counts = Counted(r), !.streak = 0,
                                 !.history = @ + 1]
         /\ ran' = [c \in Call |-> ran[c] + r[c]]
    /\ at' = "tools"
    /\ turns' = turns + 1
    /\ UNCHANGED <<step, phase, used, files, quiet, broke>>

-----------------------------------------------------------------------------
(* Mutant of Stalled: off by some turns.                                   *)
StalledLate(l) == l.turn - l.lastFile >= StallThreshold + 2

(* detectStall(): sooner, when the model has gone round in this phase.     *)
Stalled(l) ==
    LET since == l.turn - l.lastFile
    IN \/ l.looped /\ since >= StallThreshold \div 2
       \/ since >= StallThreshold

IsDue(l) == Stalled(l) \/ (l.turn + 1) % CheckpointInterval = 0

(* trackFileOperation(), for the calls of a turn: what the file tools have *)
(* made is recorded; what a shell command is seen to write is read first,  *)
(* which nobody awaits; and what a command wrote that failed, or in a way  *)
(* it does not know, or behind its first `cat >', goes unseen.             *)
Track(made, seen, unseen) ==
    /\ stepFileOps' = stepFileOps \cup made
    /\ reading' = reading \cup (seen \ stepFileOps)
    /\ noted' = noted \cup made
    /\ written' = written \cup made \cup seen \cup unseen
    /\ UNCHANGED manifest

FilesWritten == \E made, seen, unseen \in SUBSET File : Track(made, seen, unseen)

(* The calls of the turn are done.  Without a new file for some turns, and *)
(* every so many turns, the reasoner is asked, but not after the first and *)
(* no more than so many times.                                             *)
ToolsDone ==
    /\ at = "tools"
    /\ FilesWritten
    /\ LET new == Cardinality(stepFileOps') > loop.known
           l == IF new THEN [loop EXCEPT !.lastFile = loop.turn,
                                         !.known = Cardinality(stepFileOps')]
                ELSE loop
       IN /\ quiet' = IF new THEN 0 ELSE quiet + 1
          /\ \/ /\ l.turn = 0 \/ ~IsDue(l)
                /\ NextTurn(l)
             \/ /\ l.turn > 0 /\ IsDue(l) /\ l.checkpoints >= MaxCheckpoints
                /\ loop' = [l EXCEPT !.verdict = "stuck"] /\ at' = "ended"
             \/ /\ l.turn > 0 /\ IsDue(l) /\ l.checkpoints < MaxCheckpoints
                /\ loop' = l /\ at' = "reasoner"
    /\ UNCHANGED <<step, phase, used, turns, ran, broke>>

(* evaluate(); an error or a timeout means `continue'.                     *)
ReasonerSays ==
    /\ at = "reasoner"
    /\ LET l == [loop EXCEPT !.checkpoints = @ + 1]
       IN \/ NextTurn(l)
          \/ /\ \E v \in {"complete", "stuck", "replan"} : loop' = [l EXCEPT !.verdict = v]
             /\ at' = "ended"
    /\ UNCHANGED <<step, phase, used, files, turns, ran, quiet, broke>>

(* The file is read, or could not be: it is recorded with what the step    *)
(* that is under way by then has written; after the last, with no step's.  *)
ReadEnds ==
    /\ at \in Awaited \cup Final
    /\ \E f \in reading :
         /\ reading' = reading \ {f}
         /\ stepFileOps' = stepFileOps \cup {f}
         /\ noted' = IF at \in {"summary"} \cup Final THEN noted ELSE noted \cup {f}
    /\ UNCHANGED <<at, step, phase, used, loop, manifest, written, turns, ran, quiet, broke>>

(* The provider throws, or a tool after others have written: the step has  *)
(* failed, and with it the plan.                                           *)
Throws ==
    /\ \/ at = "model" /\ UNCHANGED files
       \/ at = "tools" /\ FilesWritten
    /\ at' = "failed"
    /\ UNCHANGED <<step, phase, used, loop, turns, ran, quiet, broke>>

-----------------------------------------------------------------------------
(* Behind the loop: at the turn limit the model is asked to sum up; a loop *)
(* that ended otherwise and has no verdict counts as complete.             *)
EndLoop ==
    /\ at = "ended"
    /\ LET full == loop.history >= loop.limit
           else == IF full THEN "stuck" ELSE "complete"
       IN /\ loop' = [loop EXCEPT !.verdict = IF @ = "none" THEN else ELSE @]
          /\ at' = IF full THEN "wrapUp" ELSE "phaseOver"
    /\ UNCHANGED <<step, phase, used, files, turns, ran, quiet, broke>>

(* Mutant of WrapUp: it is tried again for as long as it fails.            *)
WrapUpAgain ==
    /\ at = "wrapUp"
    /\ at' \in {"phaseOver", "ended"}
    /\ UNCHANGED <<step, phase, used, loop, files, turns, ran, quiet, broke>>

(* The summing up; when it fails, the last text will do.                   *)
WrapUp ==
    /\ at = "wrapUp"
    /\ at' = "phaseOver"
    /\ UNCHANGED <<step, phase, used, loop, files, turns, ran, quiet, broke>>

(* lastToolLoopTurnsUsed: the turns that got into the history.             *)
TurnsUsed == IF loop.history < loop.limit THEN loop.history ELSE loop.limit

(* Mutant of Remaining: each phase has the whole budget.                   *)
RemainingAnew == EmergencyMax

Remaining == EmergencyMax - used'

(* dispatchToCoder(): the phases up to the first that is stuck, as far as  *)
(* the budget of the step goes.                                            *)
PhaseOver ==
    /\ at = "phaseOver"
    /\ used' = used + TurnsUsed
    /\ manifest' = IF phase < Phases THEN manifest \cup stepFileOps ELSE manifest
    /\ IF phase < Phases /\ loop.verdict \notin {"stuck", "replan"} /\ Remaining > 0
       THEN /\ at' = "model" /\ phase' = phase + 1
            /\ loop' = NewLoop(Remaining, stepFileOps)
            /\ ran' = [c \in Call |-> 0] /\ quiet' = 0
       ELSE /\ at' = "stepOver"
            /\ UNCHANGED <<phase, loop, ran, quiet>>
    /\ UNCHANGED <<step, stepFileOps, reading, noted, written, turns, broke>>

(* Mutant of Merged: only what the phases have taken over.                 *)
MergedByPhases == manifest

Merged == manifest \cup stepFileOps

(* executePlan(): the files of the step go into the manifest, and the next *)
(* step starts with none; after the last the summary is awaited.           *)
StepOver ==
    /\ at = "stepOver"
    /\ manifest' = Merged
    /\ IF step < Steps
       THEN /\ at' = "model" /\ step' = step + 1 /\ phase' = 1 /\ used' = 0
            /\ stepFileOps' = {}
            /\ loop' = NewLoop(EmergencyMax, {})
            /\ turns' = 0 /\ ran' = [c \in Call |-> 0] /\ quiet' = 0 /\ broke' = 0
       ELSE /\ at' = "summary"
            /\ UNCHANGED <<step, phase, used, stepFileOps, loop, turns, ran, quiet, broke>>
    /\ UNCHANGED <<reading, noted, written>>

Summarized ==
    /\ at = "summary"
    /\ at' = "over"
    /\ UNCHANGED <<step, phase, used, loop, files, turns, ran, quiet, broke>>

-----------------------------------------------------------------------------
ModelAnswers == Nudge \/ NaturalStop \/ GoesRound \/ CallsTools

CoderTurn ==
    \/ ModelAnswers \/ ToolsDone \/ ReasonerSays \/ Throws
    \/ EndLoop \/ WrapUp \/ PhaseOver \/ StepOver \/ Summarized

Next == CoderTurn \/ ReadEnds

(* What is awaited returns; nothing is assumed of what it returns.         *)
Spec == Init /\ [][Next]_vars /\ WF_vars(CoderTurn)

-----------------------------------------------------------------------------
(* Types, and what the loop's locals say of where it is.                   *)
TypeOK ==
    /\ at \in Awaited \cup Sync \cup Final
    /\ step \in 1..Steps /\ phase \in 1..Phases /\ used \in 0..EmergencyMax
    /\ loop \in Loop /\ loop.turn <= loop.limit /\ loop.limit \in 1..EmergencyMax
    /\ stepFileOps \subseteq File /\ manifest \subseteq File
    /\ reading \subseteq File /\ noted \subseteq File /\ written \subseteq File
    /\ turns \in Nat /\ ran \in [Call -> Nat] /\ quiet \in Nat /\ broke \in 0..Phases

(* "The emergency max is an unconditional circuit breaker" (deep-loop.ts,  *)
(* 68): a step takes no more turns than that, but for the one turn of each *)
(* further phase that the turns used do not count, a last text or a turn   *)
(* that was broken off.                                                    *)
TurnsWithinBudget == turns <= EmergencyMax + Phases - 1

(* No call is carried out as often in a phase as counts for a loop, be it  *)
(* repeated in a turn, over turns, or between other calls (deep-loop.ts    *)
(* executeWithTools).                                                      *)
NoEndlessRepeat == \A c \in Call : ran[c] < LoopThreshold

(* A phase that writes no new file ends in time: each turn with calls      *)
(* beyond the stall threshold costs one of the evaluations, of which there *)
(* are only so many (deep-loop.ts, reasoner-monitor.ts detectStall).       *)
BarrenPhaseEnds == quiet <= StallThreshold + MaxCheckpoints + 1

(* A file that a step has recorded is in the manifest, or among those of   *)
(* the step, whatever phases and steps lie between, and all of them are in *)
(* the manifest when the plan is done (deep-loop.ts executePlan,           *)
(* dispatchToCoder).  What shell commands wrote need not be recorded.      *)
NoFileForgotten ==
    /\ noted \subseteq manifest \cup stepFileOps
    /\ at \in {"summary", "over"} => noted \subseteq manifest

(* "Also detects bash commands that write files (cat > path, tee, etc.)    *)
(* so the manifest stays accurate even when the model bypasses             *)
(* create_file." (deep-loop.ts, 2530): at the end of a plan it lists what  *)
(* was written, but for the files whose reading came too late.             *)
ManifestIsAccurate == at = "over" => written \subseteq manifest \cup reading \cup stepFileOps

(* "fire-and-forget since we just need it in the manifest by review time"  *)
(* (deep-loop.ts, 2626): no file that was seen is missing from it when the *)
(* plan is done and its review comes next.                                 *)
ListedByReview == at = "over" => stepFileOps \cup reading \subseteq manifest

(* Every step comes to an end, whatever the model answers.                 *)
PlanEnds == <>(at \in Final)

(* "Phases (implement, verify, enhance) proceed only when the reasoner     *)
(* confirms the prior phase is complete." (deep-loop.ts, 1808): a phase    *)
(* that was broken off because "the model is stuck" (2106) is the last.    *)
StuckPhaseIsLast == broke # 0 => phase = broke
=============================================================================
