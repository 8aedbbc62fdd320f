---------------------------- MODULE Autoresearch ----------------------------
(***************************************************************************)
(* The experiments of a dream (src/autonomous/dream/autoresearch.ts): each *)
(* records that the working tree is clean, runs the tests, has a model     *)
(* change the tree, runs the tests again, and keeps the change or takes it *)
(* back with `git checkout' and `git clean'.  The tree is the set of       *)
(* uncommitted changes in it, each with where git has it; the DeepLoop's   *)
(* tools edit, stage and commit in the same tree (both work in             *)
(* process.cwd()).                                                         *)
(***************************************************************************)
EXTENDS Integers

CONSTANTS
    MaxExperiments,     \* config.maxExperimentsPerCycle
    GitFails            \* may restoring the tree fail?

ASSUME ResearchAssumption == MaxExperiments \in Nat /\ GitFails \in BOOLEAN

VARIABLES
    tree,       \* what is changed in the working tree and not committed
    snapshot,   \* snapshotActive: a clean tree is on record
    trial,      \* where the experiment under way is
    left        \* hypotheses of this cycle still to be tried

researchVars == <<tree, snapshot, trial, left>>

(* An experiment's change, one that was accepted, and other people's work; *)
(* in a file that git watches over, staged in the index, or in a file that *)
(* git ignores.                                                            *)
Change == [by : {"trial", "accepted", "work"}, at : {"file", "index", "ignored"}]

Unstaged == {c \in tree : c.at = "file"}
Staged   == {c \in tree : c.at = "index"}

ResearchTypeOK ==
    /\ tree \subseteq Change
    /\ snapshot \in BOOLEAN
    /\ trial \in {"none", "before", "applying", "after", "undo", "rescue"}
    /\ left \in 0..MaxExperiments

ResearchInit ==
    tree = {} /\ snapshot = FALSE /\ trial = "none" /\ left = 0

(* runCycle() is given some hypotheses; beyond the limit they are dropped. *)
StartResearch(n) ==
    /\ left' = n
    /\ UNCHANGED <<tree, snapshot, trial>>

-----------------------------------------------------------------------------
(* Mutant of Restored: `git clean' is forgotten, new files stay.           *)
RestoredTracked ==
    /\ tree' \in {tree, IF snapshot THEN tree \ Unstaged ELSE tree}
    /\ snapshot' = FALSE

(* restoreSnapshot(): `git checkout -- .' takes files back to what the     *)
(* index has of them and `git clean -fd' removes the new ones, so that     *)
(* what is staged stays, and what is ignored.  Without a snapshot on       *)
(* record there is nothing to do.                                          *)
Restored ==
    /\ tree' = IF snapshot THEN tree \ Unstaged ELSE tree
    /\ snapshot' = FALSE

(* ... or git fails half way, and the snapshot stays on record.            *)
NotRestored ==
    /\ snapshot /\ GitFails
    /\ \E gone \in SUBSET Unstaged : tree' = tree \ gone
    /\ UNCHANGED snapshot

(* createSnapshot(): a tree that is not clean (`git status' says nothing   *)
(* of ignored files), or a git that does not answer, is an error, and on   *)
(* every error restoreSnapshot() is tried.                                 *)
Begin ==
    /\ trial = "none" /\ left > 0
    /\ left' = left - 1
    /\ \/ /\ Unstaged \cup Staged = {}
          /\ snapshot' = TRUE /\ trial' = "before"
       \/ UNCHANGED snapshot /\ trial' = "rescue"
    /\ UNCHANGED tree

(* A hypothesis about a file outside the allowed directories is not tried. *)
Forbidden ==
    /\ trial = "none" /\ left > 0
    /\ left' = left - 1
    /\ UNCHANGED <<tree, snapshot, trial>>

(* The tests have run, or could not be run.                                *)
TestedBefore ==
    /\ trial = "before"
    /\ trial' \in {"applying", "rescue"}
    /\ UNCHANGED <<tree, snapshot, left>>

(* The model changes files one by one, whichever there are under the       *)
(* working directory ...                                                   *)
Edit ==
    /\ trial = "applying"
    /\ \E at \in {"file", "ignored"} : tree' = tree \cup {[by |-> "trial", at |-> at]}
    /\ UNCHANGED <<snapshot, trial, left>>

(* ... and ends, well or not, or throws.                                   *)
Applied ==
    /\ trial = "applying"
    /\ trial' \in {"after", "undo", "rescue"}
    /\ UNCHANGED <<tree, snapshot, left>>

(* What is in the tree when an experiment is accepted is accepted with it. *)
TrialAccepted ==
    {IF c.by = "trial" THEN [c EXCEPT !.by = "accepted"] ELSE c : c \in tree}

(* Mutant of Accept: the snapshot is not dropped.                          *)
AcceptHolding ==
    /\ trial = "after"
    /\ trial' = "none"
    /\ tree' = TrialAccepted
    /\ UNCHANGED <<snapshot, left>>

(* No test that passed before fails now, there are no fewer passing tests  *)
(* and no new failing ones: the change stays, uncommitted.                 *)
Accept ==
    /\ trial = "after"
    /\ trial' = "none"
    /\ tree' = TrialAccepted
    /\ snapshot' = FALSE
    /\ UNCHANGED left

(* Otherwise the change is to go; or the tests could not be run.           *)
Reject ==
    /\ trial = "after"
    /\ \/ trial' = "undo"
       \/ trial' = "rescue"
    /\ UNCHANGED <<tree, snapshot, left>>

(* The tree is restored, and when that throws it is tried once more.       *)
Undo ==
    /\ trial = "undo"
    /\ \/ Restored /\ trial' = "none"
       \/ NotRestored /\ trial' = "rescue"
    /\ UNCHANGED left

(* After an error: a restore that fails is logged and passed over.         *)
Rescue ==
    /\ trial = "rescue"
    /\ trial' = "none"
    /\ Restored \/ NotRestored
    /\ UNCHANGED left

-----------------------------------------------------------------------------
(* Meanwhile: files are edited in the same tree (in ignored files nothing  *)
(* that anybody here would notice) ...                                     *)
WorkEdits ==
    /\ tree' = tree \cup {[by |-> "work", at |-> "file"]}
    /\ UNCHANGED <<snapshot, trial, left>>

(* ... and committed, which the git_commit tool does in two steps.  First  *)
(* it stages the files that it is given, whoever has changed them ...      *)
GitAdd ==
    /\ \E files \in (SUBSET Unstaged) \ {{}} :
         tree' = (tree \ files) \cup {[c EXCEPT !.at = "index"] : c \in files}
    /\ UNCHANGED <<snapshot, trial, left>>

(* ... and then it commits what is staged.                                 *)
Commit ==
    /\ Staged # {}
    /\ tree' = tree \ Staged
    /\ UNCHANGED <<snapshot, trial, left>>

ExperimentStep ==
    \/ Begin \/ Forbidden \/ TestedBefore \/ Edit \/ Applied
    \/ Accept \/ Reject \/ Undo \/ Rescue

-----------------------------------------------------------------------------
(* A change that was accepted leaves the working tree only as the agent    *)
(* stages and commits it: no later experiment, failed or in error, takes   *)
(* it back (autoresearch.ts createSnapshot, dropSnapshot).                 *)
AcceptedChangeStays ==
    [][\A c \in tree \ tree' : c.by = "accepted" => GitAdd \/ Commit]_researchVars

(* Between experiments, no file that git watches over holds a change of    *)
(* one that was not accepted, unless git failed to take it back; then the  *)
(* snapshot is still on record, for the next experiment to try again ("so  *)
(* callers know recovery failed", autoresearch.ts restoreSnapshot).  What  *)
(* was staged meanwhile, or is in an ignored file, is the next property's. *)
RejectedIsGone ==
    trial = "none" /\ ~snapshot => [by |-> "trial", at |-> "file"] \notin tree

(* "Hard-reset to HEAD to discard any experiment changes" and "Always      *)
(* reverts on test regression" (autoresearch.ts, 465 and 19): a restore    *)
(* that has succeeded leaves nothing of the experiment in the tree.        *)
NothingRejectedStays ==
    trial = "none" /\ ~snapshot => \A c \in tree : c.by # "trial"

(* "This is safe because createSnapshot() verified the tree was clean."    *)
(* (autoresearch.ts, 466): restoring takes away what the experiment        *)
(* changed.  It takes whatever others have changed since, too.             *)
OnlyTrialsReverted ==
    [][\A c \in tree \ tree' : c.by = "work" => GitAdd \/ Commit]_researchVars
=============================================================================
