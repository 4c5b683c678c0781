-------------------------- MODULE MCBillingWorker ---------------------------
(***************************************************************************)
(* One order and the thread of the worker, which claims without rivals.    *)
(* Of the requests, the run has those that can leave an order for which    *)
(* the loop keeps finding work; the answers that a call may lose are those *)
(* of CallProvider.                                                        *)
(***************************************************************************)
EXTENDS BillingWorker

SomeCalls ==
  /\ \/ CallProvider(Worker) \/ Complete(Worker) \/ Fail(Worker)
     \/ ApplyEvent(Worker) \/ FailEvent(Worker)
  /\ UNCHANGED <<at, expired>>

SomeLoop ==
  \/ TakeWebhook \/ NoWebhookDue \/ TakeCommand \/ NoCommandDue
  \/ Activations \/ Expiries \/ Schedules \/ Releases
  \/ SomeCalls \/ TurnFails \/ LeaseRunsOut

SomeOutside ==
  /\ \/ \E o \in Orders : CreateCheckout(o) \/ AdminReview(o) \/ PassDeadline(o)
     \/ \E o \in Orders, amount \in Amounts : Transfer(o, amount)
     \/ \E e \in EventKeys : DeliverWebhook(e)
  /\ UNCHANGED <<at, expired>>

\* What is released is released under the weaker fairness, and what is not
\* released is not even under the stronger one.
SomeSpec == WorkerInit /\ [][SomeLoop \/ SomeOutside]_workerVars /\ LoopFairness
FairSpec == WorkerInit /\ [][SomeLoop \/ SomeOutside]_workerVars /\ WorkerFairness
=============================================================================
