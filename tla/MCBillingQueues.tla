-------------------------- MODULE MCBillingQueues ---------------------------
(***************************************************************************)
(* Do the queues of backend/billing drain?  A row whose threads crash or   *)
(* overrun their leases for ever is claimed for ever, so the run allows    *)
(* MaxMishaps of them and asks what the retry rules make of everything     *)
(* else: lost answers, refusals, rolled back commits, late threads.        *)
(*                                                                         *)
(* Weak fairness: run_billing_worker comes to every row that stays due     *)
(* (both queues are ordered by available_at), and a thread that was not    *)
(* killed goes on.                                                         *)
(***************************************************************************)
EXTENDS Billing

CONSTANT MaxMishaps   \* bound: crashes and overruns in one behaviour

ASSUME MishapsAssumption == MaxMishaps \in Nat

VARIABLE mishaps

queueVars == <<billingVars, mishaps>>

Steady == UNCHANGED mishaps
Mishap == mishaps < MaxMishaps /\ mishaps' = mishaps + 1

\* A thread is still at work on the row when its lease is over.
Overruns(o, type, k) ==
  \E t \in Threads : /\ threads[t] # Idle /\ threads[t].order = o
                     /\ threads[t].type = type /\ threads[t].transfer = k

CommandIsClaimed(o, type) ==
  \E t \in Threads :
    ClaimCommand(t, o, type) /\ IF Overruns(o, type, 0) THEN Mishap ELSE Steady

EventIsClaimed(e) ==
  \E t \in Threads :
    ClaimWebhook(t, e) /\ IF Overruns(e[1], "webhook", e[2]) THEN Mishap ELSE Steady

QueueStep(t) == ThreadStep(t) /\ Steady

QueueNext ==
  \/ \E o \in Orders : (CreateCheckout(o) \/ RequestCancel(o)) /\ Steady
  \/ \E o \in Orders, amount \in Amounts : Transfer(o, amount) /\ Steady
  \/ \E e \in EventKeys : DeliverWebhook(e) /\ Steady
  \/ \E t \in Threads : QueueStep(t)
  \/ \E t \in Threads : ThreadDies(t) /\ Mishap
  \/ \E o \in Orders, type \in CommandTypes : CommandIsClaimed(o, type)
  \/ \E e \in EventKeys : EventIsClaimed(e)

QueueSpec ==
  /\ Init /\ mishaps = 0
  /\ [][QueueNext]_queueVars
  /\ \A o \in Orders, type \in CommandTypes : WF_queueVars(CommandIsClaimed(o, type))
  /\ \A e \in EventKeys : WF_queueVars(EventIsClaimed(e))
  /\ \A t \in Threads : WF_queueVars(QueueStep(t))
=============================================================================
