----------------------------- MODULE MCBilling ------------------------------
(***************************************************************************)
(* One order and two threads.  Each story takes the part of the system     *)
(* that its questions are about, so that both threads can hold any claim   *)
(* and any stale answer in it.                                             *)
(***************************************************************************)
EXTENDS Billing, TLC

ThreadSymmetry == Permutations(Threads)

\* The life of a checkout: the webhook is down and nobody intervenes.
CheckoutNext ==
  \/ \E o \in Orders : CreateCheckout(o) \/ RequestCancel(o)
  \/ \E o \in Orders : Environment(o)
  \/ \E o \in Orders : ExpireLocalCheckout(o) \/ ScheduleReconciliation(o)
  \/ \E t \in Threads : ThreadStep(t) \/ ThreadDies(t)
  \/ \E t \in Threads, o \in Orders, type \in CommandTypes : ClaimCommand(t, o, type)

CheckoutSpec == Init /\ [][CheckoutNext]_billingVars

\* The life of a payment: webhooks and queries, reviews and retried activations.
PaymentNext ==
  \/ \E o \in Orders : CreateCheckout(o) \/ AdminReview(o) \/ AdminQuery(o)
  \/ \E o \in Orders : ChangeEligibility(o) \/ RetryActivation(o)
  \/ \E o \in Orders : PassDeadline(o) \/ \E amount \in Amounts : Transfer(o, amount)
  \/ \E e \in EventKeys : DeliverWebhook(e)
  \/ \E t \in Threads : CallProvider(t) \/ ThreadDies(t) \/ CommitFails(t)
  \/ \E t \in Threads : Complete(t) \/ Fail(t) \/ ApplyEvent(t) \/ FailEvent(t)
  \/ Claims

\* Transfers of any amount, their webhooks and the refund.
TransferNext ==
  \/ \E o \in Orders : CreateCheckout(o) \/ PassDeadline(o) \/ RequestRefund(o)
  \/ \E o \in Orders, amount \in Amounts : Transfer(o, amount)
  \/ \E e \in EventKeys : DeliverWebhook(e)
  \/ \E t \in Threads : ThreadStep(t) \/ ThreadDies(t)
  \/ Claims

TransferSpec == Init /\ [][TransferNext]_billingVars
=============================================================================
