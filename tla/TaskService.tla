---------------------------- MODULE TaskService ----------------------------
(***************************************************************************)
(* What the board and the two loops promise together, without saying how:  *)
(* a task that is admitted stays open until it is closed; one task at a    *)
(* time is worked on; a task that is done or answered is settled for good. *)
(* The board may close the oldest open tasks as failed when it admits new  *)
(* ones.  Only a task that was being worked on when that happened can come *)
(* back: its worker does not notice, and carries on.                       *)
(***************************************************************************)
EXTENDS Naturals

CONSTANT Tasks      \* not 0, which stands for no task

VARIABLES
    phase,      \* [Tasks -> {"absent", "open", "failed", "done", "answered"}]
    worker      \* the task being worked on, 0 if none is

serviceVars == <<phase, worker>>

ServiceInit == phase = [t \in Tasks |-> "absent"] /\ worker = 0

(* New tasks are admitted, waiting or answered; old or new ones may be     *)
(* failed to make room.                                                    *)
Admit ==
    \E born \in (SUBSET Tasks) \ {{}}, out \in SUBSET Tasks :
      /\ \A t \in born : phase[t] = "absent"
      /\ \A t \in out : t \in born \/ phase[t] = "open"
      /\ \E kind \in {"open", "answered"} :
           phase' = [t \in Tasks |-> IF t \in out THEN "failed"
                                     ELSE IF t \in born THEN kind
                                     ELSE phase[t]]
      /\ UNCHANGED worker

(* Work starts on an open task, or an open task is given up at once.       *)
Take(t) ==
    /\ worker = 0
    /\ phase[t] = "open"
    /\ \/ worker' = t /\ UNCHANGED phase
       \/ phase' = [phase EXCEPT ![t] = "failed"] /\ UNCHANGED worker

(* The worker writes to its task, which is open from then on even if it    *)
(* had been failed.                                                        *)
Write(t) ==
    /\ worker = t
    /\ phase[t] \in {"open", "failed"}
    /\ phase' = [phase EXCEPT ![t] = "open"]
    /\ worker' \in {t, 0}

(* ... or closes it, and may have something left to do after that.         *)
Close(t) ==
    /\ worker = t
    /\ phase[t] \in {"open", "failed"}
    /\ \E end \in {"done", "failed"} : phase' = [phase EXCEPT ![t] = end]
    /\ worker' \in {t, 0}

Leave(t) ==
    /\ worker = t
    /\ phase[t] # "open"
    /\ worker' = 0
    /\ UNCHANGED phase

ServiceNext ==
    \/ Admit
    \/ \E t \in Tasks : Take(t) \/ Write(t) \/ Close(t) \/ Leave(t)

ServiceSpec == ServiceInit /\ [][ServiceNext]_serviceVars
=============================================================================
