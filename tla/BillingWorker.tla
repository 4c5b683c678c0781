--------------------------- MODULE BillingWorker ----------------------------
(***************************************************************************)
(* The loop of the billing worker (backend/billing/worker.py):             *)
(* process_next looks into one queue after the other, does the first piece *)
(* of work it finds, and starts again at the first queue.  The last queue  *)
(* holds the usage reservations whose lease is over; this is the only      *)
(* place where they are released (SweepLeases in UsageCredits).            *)
(***************************************************************************)
EXTENDS Billing

CONSTANT Worker   \* the thread of the loop

ASSUME WorkerAssumption == Worker \in Threads

VARIABLES
  at,        \* the queue process_next looks into
  expired    \* some usage reservation has outlived its lease

workerVars == <<billingVars, at, expired>>

Queues == {"webhook", "command", "activation", "expire", "schedule", "release"}

WorkerInit == Init /\ at = "webhook" /\ expired = FALSE

WorkerTypeOK == BillingTypeOK /\ at \in Queues /\ expired \in BOOLEAN

-----------------------------------------------------------------------------
LooksInto(queue) == at = queue /\ threads[Worker] = Idle

\* Work was found: the loop starts again when it is done.
Finds(queue) == LooksInto(queue) /\ at' = "webhook"

\* Nothing was found.
PassOn(queue, next) ==
  LooksInto(queue) /\ at' = next /\ UNCHANGED <<billingVars, expired>>

\* Rows of the first two queues may wait for their available_at.
TakeWebhook ==
  Finds("webhook") /\ (\E e \in EventKeys : ClaimWebhook(Worker, e)) /\ UNCHANGED expired
NoWebhookDue == PassOn("webhook", "command")
TakeCommand ==
  /\ Finds("command")
  /\ \E o \in Orders, type \in CommandTypes : ClaimCommand(Worker, o, type)
  /\ UNCHANGED expired
NoCommandDue == PassOn("command", "activation")

\* The others are due as soon as they are found.
Activations ==
  \/ Finds("activation") /\ (\E o \in Orders : RetryActivation(o)) /\ UNCHANGED expired
  \/ (\A o \in Orders : ~AwaitsActivation(o)) /\ PassOn("activation", "expire")
Expiries ==
  \/ Finds("expire") /\ (\E o \in Orders : ExpireLocalCheckout(o)) /\ UNCHANGED expired
  \/ (\A o \in Orders : ~Expirable(o)) /\ PassOn("expire", "schedule")
Schedules ==
  \/ Finds("schedule") /\ (\E o \in Orders : ScheduleReconciliation(o)) /\ UNCHANGED expired
  \/ (\A o \in Orders : ~Unreconciled(o)) /\ PassOn("schedule", "release")

\* _release_expired_usage_reservations, or the worker sleeps.
Releases ==
  \/ Finds("release") /\ expired /\ expired' = FALSE /\ UNCHANGED billingVars
  \/ ~expired /\ PassOn("release", "webhook")

\* The claimed row is called for and applied before the loop goes on.
WorkerCalls == ThreadStep(Worker) /\ UNCHANGED <<at, expired>>

\* An error, a timeout or a restart: the next turn begins at the first queue.
TurnFails ==
  /\ threads' = [threads EXCEPT ![Worker] = Idle]
  /\ at' = "webhook"
  /\ UNCHANGED <<orders, commands, events, links, expired>>

\* A reservation outlives its lease.
LeaseRunsOut == ~expired /\ expired' = TRUE /\ UNCHANGED <<billingVars, at>>

Loop ==
  \/ TakeWebhook \/ NoWebhookDue \/ TakeCommand \/ NoCommandDue
  \/ Activations \/ Expiries \/ Schedules \/ Releases
  \/ WorkerCalls \/ TurnFails \/ LeaseRunsOut

Outside ==
  /\ \/ \E o \in Orders : Requests(o) \/ Environment(o)
     \/ \E e \in EventKeys : DeliverWebhook(e)
  /\ UNCHANGED <<at, expired>>

(***************************************************************************)
(* Turns may fail, but not all of them, and not always the same queue is   *)
(* full: a step of the loop that is possible again and again is taken.     *)
(* LoopFairness does not ask that a claim is ever made.                    *)
(***************************************************************************)
LoopFairness ==
  /\ SF_workerVars(NoWebhookDue) /\ SF_workerVars(NoCommandDue)
  /\ SF_workerVars(Activations) /\ SF_workerVars(Expiries)
  /\ SF_workerVars(Schedules) /\ SF_workerVars(Releases)
  /\ SF_workerVars(WorkerCalls)

WorkerFairness ==
  LoopFairness /\ SF_workerVars(TakeWebhook) /\ SF_workerVars(TakeCommand)

WorkerSpec == WorkerInit /\ [][Loop \/ Outside]_workerVars /\ WorkerFairness

-----------------------------------------------------------------------------
\* An order that is paid and applied but was moved back to "pending": it is
\* found by _next_paid_not_applied_order_id and left as it is.
Wedged(o) == AwaitsActivation(o) /\ orders[o].row = "applied"

\* An expired usage reservation gives its credits back, unless an order that
\* the worker finds again and again keeps it from ever looking that far.
LeasesAreReleasedUnlessWedged ==
  expired ~> (~expired \/ \E o \in Orders : Wedged(o))

\* "worker must isolate one bad row": whatever becomes of an order, expired
\* usage reservations give their credits back.
LeasesAreReleased == expired ~> ~expired
=============================================================================
