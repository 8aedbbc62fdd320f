------------------------------- MODULE Intake -------------------------------
(***************************************************************************)
(* Message intake on its own: people write to a FastLoop whose DeepLoop    *)
(* has not got round to their tasks yet.  This is the FastLoop of the      *)
(* composition with nothing but messages to work on, so that several       *)
(* people and more messages can be checked: nothing is ever done or under  *)
(* way, so the loop has no reply and no progress to send.                  *)
(***************************************************************************)
EXTENDS FastLoop

intakeVars == <<boardVars, fastVars>>

IntakeInit == BoardInit /\ FastInit
IntakeTurn == StartBatch \/ AnswerDirectly \/ Escalate \/ Replied
IntakeNext == (\E s \in Sender : Enqueue(s)) \/ IntakeTurn

(* The loop runs until it is stopped, and triage and delivery return:      *)
(* triage is under a timeout, delivery is one call of the transport.       *)
IntakeSpec == IntakeInit /\ [][IntakeNext]_intakeVars /\ WF_intakeVars(IntakeTurn)

-----------------------------------------------------------------------------
(* Where the messages that arrived are.                                    *)
InQueue(m) == \E i \in DOMAIN pending : pending[i].n = m
InBatch(m) == \E k \in DOMAIN batch : m \in Range(batch[k].msgs)
InHand(m)  == m \in Range(hand.msgs)
InTask(m)  == {t \in TaskId : m \in Range(asked[t].msgs)}

Places(m) == Cardinality(InTask(m)) + (IF InQueue(m) THEN 1 ELSE 0)
             + (IF InBatch(m) THEN 1 ELSE 0) + (IF InHand(m) THEN 1 ELSE 0)

(* Every message that arrived is in exactly one place: waiting, in the     *)
(* batch, being triaged, or part of exactly one task, whatever arrives     *)
(* while processPendingMessages() empties and refills its queue across the *)
(* awaits of a batch (fast-loop.ts, 221-249).                              *)
NoMessageLost == \A m \in 1..arrived : Places(m) = 1

(* Of two tasks made from one person's messages, the earlier one has the   *)
(* earlier messages: no task is made of something a person wrote while     *)
(* something they wrote before is still waiting.  A group that is put back *)
(* goes behind messages of the same person that came in meanwhile, so this *)
(* rests on bySender joining them again before either is triaged           *)
(* (fast-loop.ts, 226-241).  It says nothing of the order within a task.   *)
NotOvertaken ==
    \A t, u \in TaskId :
      t < u /\ asked[t].from = asked[u].from =>
        \A m \in Range(asked[t].msgs), n \in Range(asked[u].msgs) : m < n

(* "Tests that messages are processed in order when queued", and passes    *)
(* with "Order correct" (docs/stack-testing.md, 565-579): the text of a    *)
(* task, which joins a person's queued messages, has them in the order in  *)
(* which they were written (fast-loop.ts, 226-244).                        *)
InOrderInTask ==
    \A t \in TaskId :
      \A i, j \in DOMAIN asked[t].msgs : i < j => asked[t].msgs[i] < asked[t].msgs[j]

(* Every message that arrived ends up in a task: the coalesce window holds *)
(* a person's messages back, but not for ever (fast-loop.ts, 234-248).     *)
EveryMessageTaken ==
    \A m \in Message : m <= arrived ~> InTask(m) # {}
=============================================================================
