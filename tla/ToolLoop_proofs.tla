-------------------------- MODULE ToolLoop_proofs --------------------------
(***************************************************************************)
(* Proofs about ToolLoop, for any limits, phases, steps, calls and files.  *)
(* The argument counts turns: those of the phase under way are its history *)
(* and at most one more, which is what the next phase's budget overlooks.  *)
(***************************************************************************)
EXTENDS ToolLoop, FiniteSetTheorems, TLAPS

InPhase == {"model", "tools", "reasoner", "ended", "wrapUp", "phaseOver"}

(* The turns that were taken, by where the phase is.                       *)
BudgetOK ==
    /\ at \in InPhase => loop.limit = EmergencyMax - used /\ loop.history <= loop.limit
    /\ at \in {"model", "tools", "reasoner"} =>
         /\ loop.turn < loop.limit
         /\ turns <= used + phase - 1 + loop.history
    /\ at = "model" => loop.history = loop.turn
    /\ at \in {"tools", "reasoner"} => loop.history = loop.turn + 1
    /\ at \in {"ended", "wrapUp", "phaseOver"} =>
         /\ turns <= used + phase + loop.history
         /\ turns <= used + phase - 1 + loop.limit
    /\ turns <= EmergencyMax + Phases - 1

(* What was carried out was counted.                                       *)
RepeatOK == \A c \in Call : ran[c] <= loop.counts[c] /\ ran[c] < LoopThreshold

(* Turns without a new file are paid for with evaluations.                 *)
QuietOK ==
    /\ loop.checkpoints <= MaxCheckpoints
    /\ loop.lastFile <= loop.turn
    /\ at \in {"model", "tools"} =>
         /\ quiet <= loop.turn - loop.lastFile
         /\ quiet <= StallThreshold + loop.checkpoints
    /\ at = "reasoner" =>
         /\ loop.checkpoints < MaxCheckpoints
         /\ quiet <= loop.turn + 1 - loop.lastFile
         /\ quiet <= StallThreshold + loop.checkpoints + 1
    /\ quiet <= StallThreshold + MaxCheckpoints + 1

Inv == TypeOK /\ BudgetOK /\ RepeatOK /\ QuietOK /\ NoFileForgotten

(* A loop that begins has the right type.                                  *)
LEMMA NewLoopType ==
    ASSUME NEW limit \in 1..EmergencyMax, NEW ops \in SUBSET File
    PROVE  NewLoop(limit, ops) \in Loop
  <1>1. IsFiniteSet(ops)
    BY ToolLoopAssumption, FS_Subset
  <1>2. Cardinality(ops) \in Nat
    BY <1>1, FS_CardinalityType
  <1> QED
    BY <1>2, ToolLoopAssumption DEF NewLoop, Loop

(* The first turn of the first phase of the first step.                    *)
LEMMA InitHolds == Init => Inv
  <1> SUFFICES ASSUME Init PROVE Inv
    OBVIOUS
  <1> USE ToolLoopAssumption
  <1>1. /\ loop.turn = 0 /\ loop.limit = EmergencyMax /\ loop.history = 0
        /\ loop.checkpoints = 0 /\ loop.lastFile = 0
        /\ \A c \in Call : loop.counts[c] = 0
    BY DEF Init, NewLoop
  <1>2. loop \in Loop
    BY NewLoopType DEF Init
  <1>3. TypeOK
    BY <1>1, <1>2 DEF Init, TypeOK, Awaited
  <1>4. BudgetOK
    BY <1>1 DEF Init, BudgetOK
  <1>5. RepeatOK
    BY <1>1 DEF Init, RepeatOK
  <1>6. QuietOK
    BY <1>1 DEF Init, QuietOK
  <1> QED
    BY <1>3, <1>4, <1>5, <1>6 DEF Init, Inv, NoFileForgotten

-----------------------------------------------------------------------------
(* The next turn, after one that went into the history.                    *)
LEMMA NextTurnKeeps ==
    ASSUME Inv, at \in {"model", "reasoner", "tools"},
           NEW l \in Loop, NextTurn(l),
           l.turn = loop.turn, l.limit = loop.limit, l.history = loop.turn + 1,
           turns' \in Nat, turns' <= used + phase - 1 + l.history,
           quiet' \in Nat, l.lastFile <= l.turn, l.checkpoints <= MaxCheckpoints,
           quiet' <= l.turn + 1 - l.lastFile, quiet' <= StallThreshold + l.checkpoints,
           \A c \in Call : ran[c] <= l.counts[c],
           UNCHANGED <<step, phase, used, ran, broke>>,
           stepFileOps' \subseteq File, manifest' \subseteq File,
           reading' \subseteq File, noted' \subseteq File, written' \subseteq File, NoFileForgotten'
    PROVE  Inv'
  <1> USE ToolLoopAssumption
  <1>1. /\ loop' \in Loop
        /\ loop'.turn = loop.turn + 1 /\ loop'.limit = loop.limit
        /\ loop'.history = loop.turn + 1 /\ loop'.lastFile = l.lastFile
        /\ loop'.checkpoints = l.checkpoints /\ loop'.counts = l.counts
    BY DEF NextTurn, Loop
  <1>2. /\ loop.turn \in Nat /\ loop.limit \in Nat /\ loop.turn < loop.limit
        /\ used \in Nat /\ phase \in 1..Phases /\ loop.limit = EmergencyMax - used
        /\ l.lastFile \in Nat /\ l.checkpoints \in Nat
    BY DEF Inv, TypeOK, BudgetOK, InPhase, Loop
  <1>3. at' = IF loop.turn + 1 < loop.limit THEN "model" ELSE "ended"
    BY DEF NextTurn
  <1>4. TypeOK'
    BY <1>1, <1>2, <1>3 DEF Inv, TypeOK, Awaited, Sync
  <1>5. BudgetOK'
    BY <1>1, <1>2, <1>3 DEF BudgetOK
  <1>6. RepeatOK'
    BY <1>1 DEF Inv, RepeatOK
  <1>7. QuietOK'
    BY <1>1, <1>2, <1>3 DEF QuietOK
  <1> QED
    BY <1>4, <1>5, <1>6, <1>7 DEF Inv

(* The loop ends at a turn that may or may not have gone into the history. *)
LEMMA EndKeeps ==
    ASSUME Inv, at \in {"model", "reasoner", "tools"}, at' = "ended",
           loop' \in Loop, loop'.turn = loop.turn, loop'.limit = loop.limit,
           loop'.history = loop.history,
           turns' \in Nat, turns' <= used + phase + loop.history,
           turns' <= used + phase - 1 + loop.limit,
           quiet' \in Nat, loop'.lastFile <= loop.turn,
           loop'.checkpoints <= MaxCheckpoints,
           quiet' <= StallThreshold + MaxCheckpoints + 1,
           \A c \in Call : ran[c] <= loop'.counts[c],
           broke' \in 0..Phases,
           UNCHANGED <<step, phase, used, ran>>,
           stepFileOps' \subseteq File, manifest' \subseteq File,
           reading' \subseteq File, noted' \subseteq File, written' \subseteq File, NoFileForgotten'
    PROVE  Inv'
  <1> USE ToolLoopAssumption
  <1>1. /\ loop.turn \in Nat /\ loop.limit \in Nat /\ loop.turn < loop.limit
        /\ used \in Nat /\ phase \in 1..Phases /\ loop.limit = EmergencyMax - used
        /\ loop.history <= loop.limit /\ loop.history \in Nat
    BY DEF Inv, TypeOK, BudgetOK, InPhase, Loop
  <1>2. TypeOK'
    BY <1>1 DEF Inv, TypeOK, Sync
  <1>3. BudgetOK'
    BY <1>1 DEF BudgetOK
  <1>4. RepeatOK'
    BY DEF Inv, RepeatOK
  <1>5. QuietOK'
    BY <1>1 DEF QuietOK
  <1> QED
    BY <1>2, <1>3, <1>4, <1>5 DEF Inv

(* What the loop's counters are worth while the model is awaited.          *)
LEMMA ModelTypes ==
    ASSUME Inv, at \in {"model", "tools", "reasoner"}
    PROVE  /\ loop \in Loop /\ loop.turn \in Nat /\ loop.limit \in Nat
           /\ loop.history \in Nat /\ loop.lastFile \in Nat /\ loop.checkpoints \in Nat
           /\ loop.known \in Nat /\ loop.streak \in Nat
           /\ loop.counts \in [Call -> Nat]
           /\ turns \in Nat /\ quiet \in Nat /\ used \in Nat /\ phase \in 1..Phases
           /\ broke \in 0..Phases
           /\ loop.turn < loop.limit /\ loop.limit = EmergencyMax - used
           /\ turns <= used + phase - 1 + loop.history
           /\ loop.lastFile <= loop.turn /\ loop.checkpoints <= MaxCheckpoints
           /\ stepFileOps \subseteq File /\ manifest \subseteq File
           /\ reading \subseteq File /\ noted \subseteq File /\ written \subseteq File /\ NoFileForgotten
           /\ \A c \in Call : ran[c] <= loop.counts[c]
  BY ToolLoopAssumption DEF Inv, TypeOK, BudgetOK, InPhase, RepeatOK, QuietOK, Loop

(* A turn that ends with advice to the model.                              *)
LEMMA NudgeKeeps == ASSUME Inv, Nudge PROVE Inv'
  <1> DEFINE l == [loop EXCEPT !.history = @ + 1]
  <1>1. /\ at = "model" /\ NextTurn(l) /\ turns' = turns + 1
        /\ UNCHANGED <<step, phase, used, ran, broke, quiet>>
        /\ UNCHANGED files
    BY DEF Nudge
  <1>2. /\ l \in Loop /\ l.turn = loop.turn /\ l.limit = loop.limit
        /\ l.history = loop.history + 1 /\ l.lastFile = loop.lastFile
        /\ l.checkpoints = loop.checkpoints /\ l.counts = loop.counts
    BY <1>1, ModelTypes DEF Loop
  <1>3. /\ loop.history = loop.turn
        /\ quiet <= loop.turn - loop.lastFile
        /\ quiet <= StallThreshold + loop.checkpoints
    BY <1>1 DEF Inv, BudgetOK, QuietOK
  <1>4. NoFileForgotten'
    BY <1>1, ModelTypes DEF files, NextTurn, NoFileForgotten
  <1> HIDE DEF l
  <1>5. /\ turns' \in Nat /\ turns' <= used + phase - 1 + l.history
        /\ quiet' \in Nat /\ quiet' <= l.turn + 1 - l.lastFile
        /\ quiet' <= StallThreshold + l.checkpoints
    BY <1>1, <1>2, <1>3, ModelTypes, ToolLoopAssumption
  <1> QED
    BY <1>1, <1>2, <1>3, <1>4, <1>5, ModelTypes, NextTurnKeeps DEF files

(* A turn without calls ends the loop.                                     *)
LEMMA StopKeeps == ASSUME Inv, NaturalStop PROVE Inv'
  <1>1. /\ at = "model" /\ at' = "ended" /\ turns' = turns + 1
        /\ UNCHANGED <<step, phase, used, loop, ran, broke, quiet>>
        /\ UNCHANGED files
    BY DEF NaturalStop
  <1>2. loop.history = loop.turn /\ quiet <= StallThreshold + MaxCheckpoints + 1
    BY <1>1 DEF Inv, BudgetOK, QuietOK
  <1>3. NoFileForgotten'
    BY <1>1, ModelTypes DEF files, NextTurn, NoFileForgotten
  <1>4. /\ turns' \in Nat /\ turns' <= used + phase + loop.history
        /\ turns' <= used + phase - 1 + loop.limit
    BY <1>1, <1>2, ModelTypes
  <1> QED
    BY <1>1, <1>2, <1>3, <1>4, ModelTypes, EndKeeps DEF files

(* Counting never takes away.                                              *)
LEMMA CountedGrows ==
    ASSUME Inv, at = "model", NEW r \in Responses
    PROVE  /\ Counted(r) \in [Call -> Nat]
           /\ \A c \in Call : loop.counts[c] <= Counted(r)[c]
           /\ r \in [Call -> Nat]
  BY ModelTypes, ToolLoopAssumption DEF Responses, Counted

(* What a turn sets of the loop's locals, one after the other, and what it *)
(* leaves as it was.                                                       *)
LEMMA SetCounts ==
    ASSUME NEW l \in Loop, NEW n \in [Call -> Nat], NEW m, m = [l EXCEPT !.counts = n]
    PROVE  /\ m \in Loop /\ m.turn = l.turn /\ m.limit = l.limit
           /\ m.lastFile = l.lastFile /\ m.checkpoints = l.checkpoints
           /\ m.history = l.history /\ m.streak = l.streak /\ m.counts = n
  BY DEF Loop

(* One field of the loop replaced, here and below.                         *)
LEMMA SetStreak ==
    ASSUME NEW l \in Loop, NEW k \in Nat, NEW m, m = [l EXCEPT !.streak = k]
    PROVE  /\ m \in Loop /\ m.turn = l.turn /\ m.limit = l.limit
           /\ m.lastFile = l.lastFile /\ m.checkpoints = l.checkpoints
           /\ m.history = l.history /\ m.counts = l.counts
  BY DEF Loop

LEMMA SetLooped ==
    ASSUME NEW l \in Loop, NEW m, m = [l EXCEPT !.looped = TRUE]
    PROVE  /\ m \in Loop /\ m.turn = l.turn /\ m.limit = l.limit
           /\ m.lastFile = l.lastFile /\ m.checkpoints = l.checkpoints
           /\ m.history = l.history /\ m.counts = l.counts
  BY DEF Loop

LEMMA SetHistory ==
    ASSUME NEW l \in Loop, NEW h \in Nat, NEW m, m = [l EXCEPT !.history = h]
    PROVE  /\ m \in Loop /\ m.turn = l.turn /\ m.limit = l.limit
           /\ m.lastFile = l.lastFile /\ m.checkpoints = l.checkpoints
           /\ m.history = h /\ m.counts = l.counts
  BY DEF Loop

(* Turns that go round are counted and carry out no call.                  *)
LEMMA RoundKeeps == ASSUME Inv, GoesRound PROVE Inv'
  <1>1. /\ at = "model" /\ turns' = turns + 1
        /\ UNCHANGED <<step, phase, used, ran, quiet>>
        /\ UNCHANGED files
    BY DEF GoesRound
  <1>2. PICK r \in Responses :
          LET l == [loop EXCEPT !.counts = Counted(r), !.streak = @ + 1, !.looped = TRUE]
          IN IF l.streak >= BreakLimit
             THEN at' = "ended" /\ loop' = l /\ broke' = phase
             ELSE NextTurn([l EXCEPT !.history = @ + 1]) /\ UNCHANGED broke
    BY DEF GoesRound
  <1>0. /\ Counted(r) \in [Call -> Nat]
        /\ loop.streak + 1 \in Nat /\ loop \in Loop
    BY <1>1, ModelTypes, CountedGrows
  <1> DEFINE l == [loop EXCEPT !.counts = Counted(r), !.streak = @ + 1, !.looped = TRUE]
             m == [l EXCEPT !.history = @ + 1]
  <1>3. /\ l \in Loop /\ l.turn = loop.turn /\ l.limit = loop.limit
        /\ l.history = loop.history /\ l.lastFile = loop.lastFile
        /\ l.checkpoints = loop.checkpoints /\ l.counts = Counted(r)
    <2> DEFINE a == [loop EXCEPT !.counts = Counted(r)]
               b == [a EXCEPT !.streak = loop.streak + 1]
    <2>1. l = [b EXCEPT !.looped = TRUE]
      OBVIOUS
    <2> HIDE DEF l
    <2>2. b = [a EXCEPT !.streak = loop.streak + 1]
      OBVIOUS
    <2> HIDE DEF b
    <2>3. a = [loop EXCEPT !.counts = Counted(r)]
      OBVIOUS
    <2> HIDE DEF a
    <2>4. /\ a \in Loop /\ a.turn = loop.turn /\ a.limit = loop.limit
          /\ a.lastFile = loop.lastFile /\ a.checkpoints = loop.checkpoints
          /\ a.history = loop.history /\ a.counts = Counted(r)
      BY <1>0, <2>3, SetCounts
    <2>5. /\ b \in Loop /\ b.turn = a.turn /\ b.limit = a.limit
          /\ b.lastFile = a.lastFile /\ b.checkpoints = a.checkpoints
          /\ b.history = a.history /\ b.counts = a.counts
      BY <1>0, <2>2, <2>4, SetStreak
    <2> QED
      BY <2>1, <2>4, <2>5, SetLooped
  <1> HIDE DEF l
  <1>4. /\ m \in Loop /\ m.turn = loop.turn /\ m.limit = loop.limit
        /\ m.history = loop.history + 1 /\ m.lastFile = loop.lastFile
        /\ m.checkpoints = loop.checkpoints /\ m.counts = Counted(r)
    <2>1. m = [l EXCEPT !.history = l.history + 1]
      OBVIOUS
    <2> HIDE DEF m
    <2>2. l.history + 1 \in Nat
      BY <1>1, <1>3, ModelTypes
    <2> QED
      BY <1>3, <2>1, <2>2, SetHistory
  <1>5. \/ at' = "ended" /\ loop' = l /\ broke' = phase
        \/ NextTurn(m) /\ UNCHANGED broke
    BY <1>2 DEF l
  <1>6. /\ loop.history = loop.turn
        /\ quiet <= loop.turn - loop.lastFile
        /\ quiet <= StallThreshold + loop.checkpoints
        /\ quiet <= StallThreshold + MaxCheckpoints + 1
    BY <1>1 DEF Inv, BudgetOK, QuietOK
  <1>7. NoFileForgotten'
    BY <1>1, <1>5, ModelTypes DEF files, NextTurn, NoFileForgotten
  <1>8. \A c \in Call : ran[c] <= Counted(r)[c]
    <2> SUFFICES ASSUME NEW c \in Call PROVE ran[c] <= Counted(r)[c]
      OBVIOUS
    <2>1. ran[c] \in Nat /\ loop.counts[c] \in Nat /\ Counted(r)[c] \in Nat
      BY <1>1, ModelTypes, CountedGrows DEF Inv, TypeOK
    <2>2. ran[c] <= loop.counts[c] /\ loop.counts[c] <= Counted(r)[c]
      BY <1>1, ModelTypes, CountedGrows
    <2> QED
      BY <2>1, <2>2
  <1> HIDE DEF m
  <1>9. CASE at' = "ended" /\ loop' = l /\ broke' = phase
    <2>1. /\ turns' \in Nat /\ turns' <= used + phase + loop.history
          /\ turns' <= used + phase - 1 + loop.limit
          /\ broke' \in 0..Phases
      BY <1>1, <1>6, <1>9, ModelTypes, ToolLoopAssumption
    <2> QED
      BY <1>1, <1>3, <1>6, <1>7, <1>8, <1>9, <2>1, ModelTypes, EndKeeps DEF files
  <1>10. CASE NextTurn(m) /\ UNCHANGED broke
    <2>1. /\ turns' \in Nat /\ turns' <= used + phase - 1 + m.history
          /\ quiet' \in Nat /\ quiet' <= m.turn + 1 - m.lastFile
          /\ quiet' <= StallThreshold + m.checkpoints
      BY <1>1, <1>4, <1>6, ModelTypes, ToolLoopAssumption
    <2> QED
      BY <1>1, <1>4, <1>6, <1>7, <1>8, <1>10, <2>1, ModelTypes, NextTurnKeeps DEF files
  <1> QED
    BY <1>5, <1>9, <1>10

(* Calls are carried out below the threshold only.                         *)
LEMMA CallsKeep == ASSUME Inv, CallsTools PROVE Inv'
  <1>1. /\ at = "model" /\ at' = "tools" /\ turns' = turns + 1
        /\ UNCHANGED <<step, phase, used, quiet, broke>>
        /\ UNCHANGED files
    BY DEF CallsTools
  <1>2. PICK r \in Responses :
          /\ ~Repeats(r)
          /\ loop' = [loop EXCEPT !.counts = Counted(r), !.streak = 0, !.history = @ + 1]
          /\ ran' = [c \in Call |-> ran[c] + r[c]]
    BY DEF CallsTools
  <1>3. /\ loop' \in Loop /\ loop'.turn = loop.turn /\ loop'.limit = loop.limit
        /\ loop'.history = loop.history + 1 /\ loop'.lastFile = loop.lastFile
        /\ loop'.checkpoints = loop.checkpoints /\ loop'.counts = Counted(r)
    <2> DEFINE a == [loop EXCEPT !.counts = Counted(r)]
               b == [a EXCEPT !.streak = 0]
    <2>1. loop' = [b EXCEPT !.history = loop.history + 1]
      BY <1>2
    <2>2. b = [a EXCEPT !.streak = 0]
      OBVIOUS
    <2> HIDE DEF b
    <2>3. a = [loop EXCEPT !.counts = Counted(r)]
      OBVIOUS
    <2> HIDE DEF a
    <2>4. /\ Counted(r) \in [Call -> Nat] /\ loop \in Loop
          /\ loop.history + 1 \in Nat
      BY <1>1, ModelTypes, CountedGrows
    <2>5. /\ a \in Loop /\ a.turn = loop.turn /\ a.limit = loop.limit
          /\ a.lastFile = loop.lastFile /\ a.checkpoints = loop.checkpoints
          /\ a.history = loop.history /\ a.counts = Counted(r)
      BY <2>3, <2>4, SetCounts
    <2>6. /\ b \in Loop /\ b.turn = a.turn /\ b.limit = a.limit
          /\ b.lastFile = a.lastFile /\ b.checkpoints = a.checkpoints
          /\ b.counts = a.counts
      BY <2>2, <2>5, SetStreak
    <2> QED
      BY <2>1, <2>4, <2>5, <2>6, SetHistory
  <1>4. TypeOK'
    BY <1>1, <1>2, <1>3, ModelTypes, CountedGrows DEF Inv, TypeOK, Awaited, files
  <1>5. BudgetOK'
    BY <1>1, <1>3, ModelTypes, ToolLoopAssumption DEF Inv, BudgetOK, InPhase
  <1>6. RepeatOK'
    <2> SUFFICES ASSUME NEW c \in Call
                 PROVE  ran'[c] <= loop'.counts[c] /\ ran'[c] < LoopThreshold
      BY DEF RepeatOK
    <2>1. /\ ran[c] \in Nat /\ loop.counts[c] \in Nat /\ r[c] \in Nat
          /\ ran[c] <= loop.counts[c] /\ ran[c] < LoopThreshold
      BY <1>1, ModelTypes, CountedGrows DEF Inv, TypeOK, RepeatOK
    <2>2. ran'[c] = ran[c] + r[c] /\ loop'.counts[c] = loop.counts[c] + r[c]
      BY <1>2, <1>3 DEF Counted
    <2>3. r[c] = 0 \/ loop.counts[c] + r[c] < LoopThreshold
      BY <1>2, <2>1, ToolLoopAssumption DEF Repeats, Counted
    <2> QED
      BY <2>1, <2>2, <2>3, ToolLoopAssumption
  <1>7. QuietOK'
    BY <1>1, <1>3, ModelTypes DEF Inv, QuietOK
  <1>8. NoFileForgotten'
    BY <1>1, ModelTypes DEF files, NextTurn, NoFileForgotten
  <1> QED
    BY <1>4, <1>5, <1>6, <1>7, <1>8 DEF Inv
-----------------------------------------------------------------------------
(* More fields of the loop.                                                *)
LEMMA SetLastFile ==
    ASSUME NEW l \in Loop, NEW n \in Nat, NEW m, m = [l EXCEPT !.lastFile = n]
    PROVE  /\ m \in Loop /\ m.turn = l.turn /\ m.limit = l.limit
           /\ m.history = l.history /\ m.counts = l.counts
           /\ m.checkpoints = l.checkpoints /\ m.lastFile = n
  BY DEF Loop

LEMMA SetKnown ==
    ASSUME NEW l \in Loop, NEW n \in Nat, NEW m, m = [l EXCEPT !.known = n]
    PROVE  /\ m \in Loop /\ m.turn = l.turn /\ m.limit = l.limit
           /\ m.history = l.history /\ m.counts = l.counts
           /\ m.checkpoints = l.checkpoints /\ m.lastFile = l.lastFile
  BY DEF Loop

LEMMA SetCheckpoints ==
    ASSUME NEW l \in Loop, NEW n \in Nat, NEW m, m = [l EXCEPT !.checkpoints = n]
    PROVE  /\ m \in Loop /\ m.turn = l.turn /\ m.limit = l.limit
           /\ m.history = l.history /\ m.counts = l.counts
           /\ m.checkpoints = n /\ m.lastFile = l.lastFile
  BY DEF Loop

LEMMA SetVerdict ==
    ASSUME NEW l \in Loop, NEW v \in {"none", "complete", "stuck", "replan"}, NEW m, m = [l EXCEPT !.verdict = v]
    PROVE  /\ m \in Loop /\ m.turn = l.turn /\ m.limit = l.limit
           /\ m.history = l.history /\ m.counts = l.counts
           /\ m.checkpoints = l.checkpoints /\ m.lastFile = l.lastFile
  BY DEF Loop

(* What is tracked stays within the paths, and nothing is forgotten.       *)
LEMMA TrackKeeps ==
    ASSUME Inv, at \in {"model", "tools", "reasoner"}, FilesWritten,
           at' \notin {"summary", "over"}
    PROVE  /\ stepFileOps' \subseteq File /\ manifest' \subseteq File
           /\ reading' \subseteq File /\ noted' \subseteq File /\ written' \subseteq File
           /\ NoFileForgotten' /\ Cardinality(stepFileOps') \in Nat
  <1>1. PICK made \in SUBSET File, seen \in SUBSET File, unseen \in SUBSET File :
          /\ stepFileOps' = stepFileOps \cup made
          /\ reading' = reading \cup (seen \ stepFileOps)
          /\ noted' = noted \cup made
          /\ written' = written \cup made \cup seen \cup unseen
          /\ manifest' = manifest
    BY DEF FilesWritten, Track
  <1>2. /\ stepFileOps' \subseteq File /\ manifest' \subseteq File
        /\ reading' \subseteq File /\ noted' \subseteq File /\ written' \subseteq File
    BY <1>1, ModelTypes
  <1>3. NoFileForgotten'
    BY <1>1, ModelTypes DEF NoFileForgotten
  <1>4. Cardinality(stepFileOps') \in Nat
    BY <1>2, ToolLoopAssumption, FS_Subset, FS_CardinalityType
  <1> QED
    BY <1>2, <1>3, <1>4

(* The calls are done; the reasoner is asked a limited number of times.    *)
LEMMA ToolsKeep == ASSUME Inv, ToolsDone PROVE Inv'
  <1> USE ToolLoopAssumption
  <1> DEFINE new == Cardinality(stepFileOps') > loop.known
             n == Cardinality(stepFileOps')
             l == IF new THEN [loop EXCEPT !.lastFile = loop.turn, !.known = n] ELSE loop
  <1>1. /\ at = "tools"
        /\ UNCHANGED <<step, phase, used, turns, ran, broke>>
        /\ quiet' = IF new THEN 0 ELSE quiet + 1
    BY DEF ToolsDone
  <1>2. FilesWritten /\ at' \notin {"summary", "over"}
    BY DEF ToolsDone, NextTurn
  <1>3. /\ stepFileOps' \subseteq File /\ manifest' \subseteq File
        /\ reading' \subseteq File /\ noted' \subseteq File /\ written' \subseteq File
        /\ NoFileForgotten' /\ n \in Nat
    BY <1>1, <1>2, TrackKeeps
  <1>4. \/ (l.turn = 0 \/ ~IsDue(l)) /\ NextTurn(l)
        \/ l.checkpoints >= MaxCheckpoints /\ loop' = [l EXCEPT !.verdict = "stuck"]
             /\ at' = "ended"
        \/ l.checkpoints < MaxCheckpoints /\ loop' = l /\ at' = "reasoner"
    BY DEF ToolsDone
  <1>5. /\ loop.history = loop.turn + 1
        /\ quiet <= loop.turn - loop.lastFile
        /\ quiet <= StallThreshold + loop.checkpoints
    BY <1>1 DEF Inv, BudgetOK, QuietOK
  <1>6. /\ l \in Loop /\ l.turn = loop.turn /\ l.limit = loop.limit
        /\ l.history = loop.history /\ l.counts = loop.counts
        /\ l.checkpoints = loop.checkpoints
        /\ l.lastFile = IF new THEN loop.turn ELSE loop.lastFile
    <2>1. CASE new
      <3> DEFINE a == [loop EXCEPT !.lastFile = loop.turn]
      <3>1. l = [a EXCEPT !.known = n]
        BY <2>1
      <3>2. a = [loop EXCEPT !.lastFile = loop.turn]
        OBVIOUS
      <3> HIDE DEF a, l, n
      <3>3. /\ a \in Loop /\ a.turn = loop.turn /\ a.limit = loop.limit
            /\ a.history = loop.history /\ a.counts = loop.counts
            /\ a.checkpoints = loop.checkpoints /\ a.lastFile = loop.turn
        BY <1>1, <3>2, ModelTypes, SetLastFile
      <3> QED
        BY <1>3, <2>1, <3>1, <3>3, SetKnown
    <2>2. CASE ~new
      BY <1>1, <2>2, ModelTypes
    <2> QED
      BY <2>1, <2>2
  <1> HIDE DEF l, new, n
  <1>7. /\ turns' = turns /\ turns \in Nat /\ quiet \in Nat /\ quiet' \in Nat
        /\ l.lastFile \in Nat /\ l.lastFile <= l.turn /\ loop.turn \in Nat
        /\ l.checkpoints \in Nat /\ l.checkpoints <= MaxCheckpoints
        /\ quiet' <= l.turn + 1 - l.lastFile
        /\ quiet' <= StallThreshold + l.checkpoints + 1
        /\ turns <= used + phase - 1 + l.history
        /\ \A c \in Call : ran[c] <= l.counts[c]
    BY <1>1, <1>5, <1>6, ModelTypes
  <1>8. CASE (l.turn = 0 \/ ~IsDue(l)) /\ NextTurn(l)
    <2>1. l.turn = 0 \/ l.turn - l.lastFile < StallThreshold
      BY <1>6, <1>7, <1>8 DEF IsDue, Stalled
    <2>2. quiet' <= StallThreshold + l.checkpoints
      BY <1>6, <1>7, <2>1
    <2> QED
      BY <1>1, <1>3, <1>5, <1>6, <1>7, <1>8, <2>2, NextTurnKeeps
  <1>9. CASE loop' = [l EXCEPT !.verdict = "stuck"] /\ at' = "ended"
    <2>1. /\ loop' \in Loop /\ loop'.turn = loop.turn /\ loop'.limit = loop.limit
          /\ loop'.history = loop.history /\ loop'.counts = l.counts
          /\ loop'.checkpoints = l.checkpoints /\ loop'.lastFile = l.lastFile
      BY <1>6, <1>9, SetVerdict
    <2>2. /\ turns' <= used + phase + loop.history
          /\ turns' <= used + phase - 1 + loop.limit
          /\ quiet' <= StallThreshold + MaxCheckpoints + 1
          /\ broke' \in 0..Phases
      BY <1>1, <1>5, <1>6, <1>7, ModelTypes
    <2> QED
      BY <1>1, <1>3, <1>6, <1>7, <1>9, <2>1, <2>2, EndKeeps
  <1>10. CASE l.checkpoints < MaxCheckpoints /\ loop' = l /\ at' = "reasoner"
    <2>1. TypeOK'
      BY <1>1, <1>3, <1>6, <1>7, <1>10 DEF Inv, TypeOK, Awaited
    <2>2. BudgetOK'
      BY <1>1, <1>5, <1>6, <1>7, <1>10 DEF Inv, BudgetOK, InPhase
    <2>3. RepeatOK'
      BY <1>1, <1>6, <1>10 DEF Inv, RepeatOK
    <2>4. QuietOK'
      BY <1>1, <1>6, <1>7, <1>10 DEF QuietOK
    <2> QED
      BY <1>3, <2>1, <2>2, <2>3, <2>4 DEF Inv
  <1> QED
    BY <1>4, <1>8, <1>9, <1>10

(* The reasoner has answered.                                              *)
LEMMA ReasonerKeeps == ASSUME Inv, ReasonerSays PROVE Inv'
  <1> USE ToolLoopAssumption
  <1> DEFINE l == [loop EXCEPT !.checkpoints = @ + 1]
  <1>1. /\ at = "reasoner"
        /\ UNCHANGED <<step, phase, used, turns, ran, quiet, broke>>
        /\ UNCHANGED files
    BY DEF ReasonerSays
  <1>2. \/ NextTurn(l)
        \/ \E v \in {"complete", "stuck", "replan"} :
              loop' = [l EXCEPT !.verdict = v] /\ at' = "ended"
    BY DEF ReasonerSays
  <1>3. l = [loop EXCEPT !.checkpoints = loop.checkpoints + 1]
    OBVIOUS
  <1> HIDE DEF l
  <1>4. /\ l \in Loop /\ l.turn = loop.turn /\ l.limit = loop.limit
        /\ l.history = loop.history /\ l.counts = loop.counts
        /\ l.checkpoints = loop.checkpoints + 1 /\ l.lastFile = loop.lastFile
    <2>1. loop \in Loop /\ loop.checkpoints + 1 \in Nat
      BY <1>1, ModelTypes
    <2> QED
      BY <1>3, <2>1, SetCheckpoints
  <1>5. /\ loop.history = loop.turn + 1 /\ loop.checkpoints < MaxCheckpoints
        /\ quiet <= loop.turn + 1 - loop.lastFile
        /\ quiet <= StallThreshold + loop.checkpoints + 1
    BY <1>1 DEF Inv, BudgetOK, QuietOK
  <1>6. NoFileForgotten'
    BY <1>1, <1>2, ModelTypes DEF files, NextTurn, NoFileForgotten
  <1>7. /\ turns' \in Nat /\ turns' <= used + phase - 1 + l.history
        /\ turns' <= used + phase + loop.history
        /\ turns' <= used + phase - 1 + loop.limit
        /\ quiet' \in Nat /\ l.lastFile <= l.turn /\ l.checkpoints <= MaxCheckpoints
        /\ quiet' <= l.turn + 1 - l.lastFile
        /\ quiet' <= StallThreshold + l.checkpoints
        /\ quiet' <= StallThreshold + MaxCheckpoints + 1
        /\ broke' \in 0..Phases
    BY <1>1, <1>4, <1>5, ModelTypes
  <1>8. CASE NextTurn(l)
    BY <1>1, <1>4, <1>5, <1>6, <1>7, <1>8, ModelTypes, NextTurnKeeps DEF files
  <1>9. ASSUME NEW v \in {"complete", "stuck", "replan"},
               loop' = [l EXCEPT !.verdict = v] /\ at' = "ended"
        PROVE  Inv'
    <2>1. /\ loop' \in Loop /\ loop'.turn = loop.turn /\ loop'.limit = loop.limit
          /\ loop'.history = loop.history /\ loop'.counts = loop.counts
          /\ loop'.checkpoints = l.checkpoints /\ loop'.lastFile = l.lastFile
      BY <1>4, <1>9, SetVerdict
    <2> QED
      BY <1>1, <1>4, <1>6, <1>7, <1>9, <2>1, ModelTypes, EndKeeps DEF files
  <1> QED
    BY <1>2, <1>8, <1>9

(* A file that was being read is one of the step.                          *)
LEMMA ReadKeeps == ASSUME Inv, ReadEnds PROVE Inv'
  <1>1. UNCHANGED <<at, step, phase, used, loop, manifest, written, turns, ran, quiet, broke>>
    BY DEF ReadEnds
  <1>2. PICK f \in reading : /\ reading' = reading \ {f}
                            /\ stepFileOps' = stepFileOps \cup {f}
                            /\ noted' = IF at \in {"summary"} \cup Final THEN noted
                                        ELSE noted \cup {f}
    BY DEF ReadEnds
  <1>3. TypeOK'
    BY <1>1, <1>2 DEF Inv, TypeOK
  <1>4. BudgetOK'
    BY <1>1 DEF Inv, BudgetOK
  <1>5. RepeatOK'
    BY <1>1 DEF Inv, RepeatOK
  <1>6. QuietOK'
    BY <1>1 DEF Inv, QuietOK
  <1>7. NoFileForgotten'
    BY <1>1, <1>2 DEF Inv, NoFileForgotten, Final
  <1> QED
    BY <1>3, <1>4, <1>5, <1>6, <1>7 DEF Inv

(* What was written before an error is on record.                          *)
LEMMA ThrowsKeeps == ASSUME Inv, Throws PROVE Inv'
  <1>1. /\ at \in {"model", "tools"} /\ at' = "failed"
        /\ UNCHANGED <<step, phase, used, loop, turns, ran, quiet, broke>>
    BY DEF Throws
  <1>2. /\ stepFileOps' \subseteq File /\ manifest' \subseteq File
        /\ reading' \subseteq File /\ noted' \subseteq File /\ written' \subseteq File /\ NoFileForgotten'
    <2>1. CASE UNCHANGED files
      BY <1>1, <2>1, ModelTypes DEF files, NoFileForgotten
    <2>2. CASE FilesWritten
      BY <1>1, <2>2, TrackKeeps
    <2> QED
      BY <2>1, <2>2 DEF Throws
  <1>3. TypeOK'
    BY <1>1, <1>2 DEF Inv, TypeOK, Final
  <1>4. BudgetOK'
    BY <1>1 DEF Inv, BudgetOK, InPhase
  <1>5. RepeatOK'
    BY <1>1 DEF Inv, RepeatOK
  <1>6. QuietOK'
    BY <1>1 DEF Inv, QuietOK
  <1> QED
    BY <1>2, <1>3, <1>4, <1>5, <1>6 DEF Inv

-----------------------------------------------------------------------------
(* The loop is over and has a verdict.                                     *)
LEMMA EndLoopKeeps == ASSUME Inv, EndLoop PROVE Inv'
  <1>1. /\ at = "ended" /\ at' \in {"wrapUp", "phaseOver"}
        /\ UNCHANGED <<step, phase, used, turns, ran, quiet, broke>>
        /\ UNCHANGED files
    BY DEF EndLoop
  <1>2. loop \in Loop
    BY DEF Inv, TypeOK
  <1>3. PICK v \in {"none", "complete", "stuck", "replan"} :
          loop' = [loop EXCEPT !.verdict = v]
    <2>1. loop.verdict \in {"none", "complete", "stuck", "replan"}
      BY <1>2 DEF Loop
    <2> QED
      BY <2>1 DEF EndLoop
  <1>4. /\ loop' \in Loop /\ loop'.turn = loop.turn /\ loop'.limit = loop.limit
        /\ loop'.history = loop.history /\ loop'.counts = loop.counts
        /\ loop'.checkpoints = loop.checkpoints /\ loop'.lastFile = loop.lastFile
    BY <1>2, <1>3, SetVerdict
  <1>5. TypeOK'
    BY <1>1, <1>4 DEF Inv, TypeOK, Awaited, Sync, files
  <1>6. BudgetOK'
    BY <1>1, <1>4 DEF Inv, BudgetOK, InPhase
  <1>7. RepeatOK'
    BY <1>1, <1>4 DEF Inv, RepeatOK
  <1>8. QuietOK'
    BY <1>1, <1>4 DEF Inv, QuietOK
  <1>9. NoFileForgotten'
    BY <1>1 DEF Inv, NoFileForgotten, files
  <1> QED
    BY <1>5, <1>6, <1>7, <1>8, <1>9 DEF Inv

(* Summing up changes no count.                                            *)
LEMMA WrapUpKeeps == ASSUME Inv, WrapUp PROVE Inv'
  <1>1. /\ at = "wrapUp" /\ at' = "phaseOver"
        /\ UNCHANGED <<step, phase, used, loop, turns, ran, quiet, broke>>
        /\ UNCHANGED files
    BY DEF WrapUp
  <1>2. TypeOK'
    BY <1>1 DEF Inv, TypeOK, Sync, files
  <1>3. BudgetOK'
    BY <1>1 DEF Inv, BudgetOK, InPhase
  <1>4. RepeatOK' /\ QuietOK'
    BY <1>1 DEF Inv, RepeatOK, QuietOK
  <1>5. NoFileForgotten'
    BY <1>1 DEF Inv, NoFileForgotten, files
  <1> QED
    BY <1>2, <1>3, <1>4, <1>5 DEF Inv

(* The budget of the next phase is what this one and those before left.    *)
LEMMA PhaseOverKeeps == ASSUME Inv, PhaseOver PROVE Inv'
  <1> USE ToolLoopAssumption
  <1>1. /\ at = "phaseOver" /\ used' = used + TurnsUsed
        /\ UNCHANGED <<step, stepFileOps, reading, noted, written, turns, broke>>
        /\ manifest' = IF phase < Phases THEN manifest \cup stepFileOps ELSE manifest
    BY DEF PhaseOver
  <1>2. /\ loop \in Loop /\ loop.limit \in Nat /\ loop.history \in Nat
        /\ loop.limit = EmergencyMax - used /\ loop.history <= loop.limit
        /\ used \in Nat /\ phase \in 1..Phases /\ turns \in Nat
        /\ turns <= used + phase + loop.history
        /\ turns <= EmergencyMax + Phases - 1
    BY <1>1 DEF Inv, TypeOK, BudgetOK, InPhase, Loop
  <1>3. used' = used + loop.history /\ used' \in 0..EmergencyMax
    BY <1>1, <1>2 DEF TurnsUsed
  <1>4. /\ stepFileOps' \subseteq File /\ manifest' \subseteq File
        /\ reading' \subseteq File /\ noted' \subseteq File /\ written' \subseteq File /\ NoFileForgotten'
    BY <1>1 DEF PhaseOver, Inv, TypeOK, NoFileForgotten
  <1>5. CASE phase < Phases /\ Remaining > 0 /\ at' = "model"
    <2>1. /\ phase' = phase + 1 /\ loop' = NewLoop(EmergencyMax - used', stepFileOps)
          /\ ran' = [c \in Call |-> 0] /\ quiet' = 0
      BY <1>5 DEF PhaseOver, Remaining
    <2>2. EmergencyMax - used' \in 1..EmergencyMax
      BY <1>3, <1>5 DEF Remaining
    <2>3. loop' \in Loop
      BY <1>4, <1>1, <2>1, <2>2, NewLoopType
    <2>4. /\ loop'.turn = 0 /\ loop'.limit = EmergencyMax - used' /\ loop'.history = 0
          /\ loop'.checkpoints = 0 /\ loop'.lastFile = 0
          /\ \A c \in Call : loop'.counts[c] = 0
      BY <2>1 DEF NewLoop
    <2>5. TypeOK'
      BY <1>1, <1>2, <1>3, <1>4, <1>5, <2>1, <2>2, <2>3, <2>4 DEF Inv, TypeOK, Awaited
    <2>6. BudgetOK'
      BY <1>1, <1>2, <1>3, <1>5, <2>1, <2>2, <2>4 DEF BudgetOK
    <2>7. RepeatOK'
      BY <2>1, <2>4 DEF RepeatOK
    <2>8. QuietOK'
      BY <1>5, <2>1, <2>4 DEF QuietOK
    <2> QED
      BY <1>4, <2>5, <2>6, <2>7, <2>8 DEF Inv
  <1>6. CASE at' = "stepOver" /\ UNCHANGED <<phase, loop, ran, quiet>>
    <2>1. TypeOK'
      BY <1>1, <1>2, <1>3, <1>4, <1>6 DEF Inv, TypeOK, Sync
    <2>2. BudgetOK'
      BY <1>1, <1>2, <1>6 DEF BudgetOK, InPhase
    <2>3. RepeatOK' /\ QuietOK'
      BY <1>6 DEF Inv, RepeatOK, QuietOK
    <2> QED
      BY <1>4, <2>1, <2>2, <2>3 DEF Inv
  <1> QED
    BY <1>5, <1>6 DEF PhaseOver

(* The files of the step go into the manifest.                             *)
LEMMA StepOverKeeps == ASSUME Inv, StepOver PROVE Inv'
  <1> USE ToolLoopAssumption
  <1>1. /\ at = "stepOver" /\ manifest' = manifest \cup stepFileOps
        /\ UNCHANGED <<reading, noted, written>>
    BY DEF StepOver, Merged
  <1>2. CASE step < Steps /\ at' = "model"
    <2>1. /\ step' = step + 1 /\ phase' = 1 /\ used' = 0 /\ stepFileOps' = {}
          /\ loop' = NewLoop(EmergencyMax, {}) /\ turns' = 0
          /\ ran' = [c \in Call |-> 0] /\ quiet' = 0 /\ broke' = 0
      BY <1>2 DEF StepOver
    <2>2. loop' \in Loop
      BY <2>1, NewLoopType
    <2>3. /\ loop'.turn = 0 /\ loop'.limit = EmergencyMax /\ loop'.history = 0
          /\ loop'.checkpoints = 0 /\ loop'.lastFile = 0
          /\ \A c \in Call : loop'.counts[c] = 0
      BY <2>1 DEF NewLoop
    <2>4. TypeOK'
      BY <1>1, <1>2, <2>1, <2>2, <2>3 DEF Inv, TypeOK, Awaited
    <2>5. BudgetOK'
      BY <1>2, <2>1, <2>3 DEF BudgetOK
    <2>6. RepeatOK' /\ QuietOK'
      BY <1>2, <2>1, <2>3 DEF RepeatOK, QuietOK
    <2>7. NoFileForgotten'
      BY <1>1, <2>1 DEF Inv, NoFileForgotten
    <2> QED
      BY <2>4, <2>5, <2>6, <2>7 DEF Inv
  <1>3. CASE /\ at' = "summary"
             /\ UNCHANGED <<step, phase, used, stepFileOps, loop, turns, ran, quiet, broke>>
    <2>1. TypeOK'
      BY <1>1, <1>3 DEF Inv, TypeOK, Awaited
    <2>2. BudgetOK'
      BY <1>1, <1>3 DEF Inv, BudgetOK, InPhase
    <2>3. RepeatOK' /\ QuietOK'
      BY <1>3 DEF Inv, RepeatOK, QuietOK
    <2>4. NoFileForgotten'
      BY <1>1, <1>3 DEF Inv, NoFileForgotten
    <2> QED
      BY <2>1, <2>2, <2>3, <2>4 DEF Inv
  <1> QED
    BY <1>2, <1>3 DEF StepOver

(* The plan is over.                                                       *)
LEMMA SummarizedKeeps == ASSUME Inv, Summarized PROVE Inv'
  <1>1. /\ at = "summary" /\ at' = "over"
        /\ UNCHANGED <<step, phase, used, loop, turns, ran, quiet, broke>>
        /\ UNCHANGED files
    BY DEF Summarized
  <1>2. TypeOK'
    BY <1>1 DEF Inv, TypeOK, Final, files
  <1>3. BudgetOK' /\ RepeatOK' /\ QuietOK'
    BY <1>1 DEF Inv, BudgetOK, InPhase, RepeatOK, QuietOK
  <1>4. NoFileForgotten'
    BY <1>1 DEF Inv, NoFileForgotten, files
  <1> QED
    BY <1>2, <1>3, <1>4 DEF Inv

-----------------------------------------------------------------------------
(* Every step of the loop keeps the invariant, and so does standing still. *)
LEMMA StepKeeps == ASSUME Inv, [Next]_vars PROVE Inv'
  <1>1. CASE ModelAnswers
    BY <1>1, NudgeKeeps, StopKeeps, RoundKeeps, CallsKeep DEF ModelAnswers
  <1>2. CASE ToolsDone \/ ReasonerSays \/ Throws \/ ReadEnds
    BY <1>2, ToolsKeep, ReasonerKeeps, ThrowsKeeps, ReadKeeps
  <1>3. CASE EndLoop \/ WrapUp \/ PhaseOver \/ StepOver \/ Summarized
    BY <1>3, EndLoopKeeps, WrapUpKeeps, PhaseOverKeeps, StepOverKeeps, SummarizedKeeps
  <1>4. CASE UNCHANGED vars
    BY <1>4 DEF vars, files, Inv, TypeOK, BudgetOK, RepeatOK, QuietOK, NoFileForgotten
  <1> QED
    BY <1>1, <1>2, <1>3, <1>4 DEF Next, CoderTurn

(* The locals of the loop keep their types, a turn begins below the limit, *)
(* and no phase is given more turns than a step may take (executeWithTools *)
(* and dispatchToCoder of deep-loop.ts).                                   *)
THEOREM LoopIsTyped == Spec => []TypeOK
  <1>1. Inv => TypeOK
    BY DEF Inv
  <1> QED
    BY <1>1, InitHolds, StepKeeps, PTL DEF Spec

(* A step of the plan takes no more turns than the circuit breaker allows, *)
(* and one for each further phase: the budget is handed on, not renewed    *)
(* (dispatchToCoder).                                                      *)
THEOREM StepsAreBounded == Spec => []TurnsWithinBudget
  <1>1. Inv => TurnsWithinBudget
    BY DEF Inv, BudgetOK, TurnsWithinBudget
  <1> QED
    BY <1>1, InitHolds, StepKeeps, PTL DEF Spec

(* However the model mixes its calls, none is carried out in a phase as    *)
(* often as counts for a loop (executeWithTools).                          *)
THEOREM RepeatsAreBounded == Spec => []NoEndlessRepeat
  <1>1. Inv => NoEndlessRepeat
    BY DEF Inv, RepeatOK, NoEndlessRepeat
  <1> QED
    BY <1>1, InitHolds, StepKeeps, PTL DEF Spec

(* A phase has only so many turns with calls and no new file, whatever the *)
(* reasoner says (executeWithTools and detectStall).                       *)
THEOREM BarrenPhasesEnd == Spec => []BarrenPhaseEnds
  <1>1. Inv => BarrenPhaseEnds
    BY DEF Inv, QuietOK, BarrenPhaseEnds
  <1> QED
    BY <1>1, InitHolds, StepKeeps, PTL DEF Spec

(* A file that a step has recorded ends up in the manifest, for any number *)
(* of phases and steps (executePlan, dispatchToCoder).                     *)
THEOREM FilesAreKept == Spec => []NoFileForgotten
  <1>1. Inv => NoFileForgotten
    BY DEF Inv
  <1> QED
    BY <1>1, InitHolds, StepKeeps, PTL DEF Spec
=============================================================================
