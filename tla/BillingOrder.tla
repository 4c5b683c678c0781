---------------------------- MODULE BillingOrder ----------------------------
(***************************************************************************)
(* One billing order and what BillingActivationService                     *)
(* (backend/billing/activation.py) does to it with an answer of the        *)
(* payment provider.  The order buys a procurement credit pack.            *)
(*                                                                         *)
(* Every operator takes the locked order and returns the order that the    *)
(* transaction commits; the columns of the order, its activation row, its  *)
(* payment transaction and its refund intents are one record.              *)
(***************************************************************************)
EXTENDS Naturals

CONSTANT Price   \* total_amount

ASSUME PriceAssumption == Price \in Nat \ {0}

CheckoutStates == {"absent", "creating", "open", "create_failed", "cancelled", "expired"}
ActivationStates == {"not_ready", "pending", "applied", "review_required"}

OrderRow ==
  [checkout: CheckoutStates,                           \* checkout_state
   overdue: BOOLEAN,                                   \* checkout_expires_at <= now
   payment: {"unverified", "verified_paid"},           \* payment_state
   activation: ActivationStates,                       \* activation_state
   row: {"none", "applied", "review_required"},        \* billing_subscription_activations.state
   granted: Nat,                                       \* credit grants issued for the order
   refund: BOOLEAN,                                    \* a pending billing_refund_intents row
   eligible: BOOLEAN]                                  \* owner and base subscription are active

NoOrder ==
  [checkout |-> "absent", overdue |-> FALSE, payment |-> "unverified",
   activation |-> "not_ready", row |-> "none", granted |-> 0, refund |-> FALSE,
   eligible |-> TRUE]

\* What get_payment reports: the status of the link, the money received, and,
\* when there is exactly one transfer, whether it came after the deadline.
Statuses == {"PENDING", "UNDERPAID", "PAID", "CANCELLED", "EXPIRED"}
Answer == [status: Statuses, amount: Nat, single: BOOLEAN, late: BOOLEAN]

-----------------------------------------------------------------------------
\* _mark_review: overwrites the activation row, also one that is applied.
MarkReview(ord) ==
  [ord EXCEPT !.activation = "review_required", !.row = "review_required"]

\* _mark_applied.
MarkApplied(ord) == [ord EXCEPT !.activation = "applied", !.row = "applied"]

\* _apply_credit_pack: the grant is issued in the same transaction.
ApplyCreditPack(ord) ==
  IF ord.eligible THEN MarkApplied([ord EXCEPT !.granted = @ + 1]) ELSE MarkReview(ord)

\* Mutant: the activation row of an earlier transaction is not consulted.
ActivateAgain(ord) == IF ord.refund THEN ord ELSE ApplyCreditPack(ord)

\* _activate_order.
Activate(ord) ==
  IF ord.refund \/ ord.row = "applied" THEN ord ELSE ApplyCreditPack(ord)

\* Mutant: the payment state is left to the webhook.
RecordActivationOnly(ord) ==
  [ord EXCEPT !.activation = IF @ = "applied" THEN @ ELSE "pending"]

\* The payment fact: replays insert nothing (unique provider identity) and
\* leave an applied order applied.
RecordPaid(ord) ==
  [ord EXCEPT !.payment = "verified_paid",
              !.activation = IF @ = "applied" THEN @ ELSE "pending"]

\* _payment_timing.
OnTime(ord, answer) == ord.checkout # "cancelled" /\ ~answer.late

\* Mutant: the amount received is not compared with the order.
ApplyAnyAmount(ord, answer) ==
  IF answer.status # "PAID" THEN ord ELSE Activate(RecordPaid(ord))

\* apply_order_result.  Several transfers carry no single occurrence time
\* (_project_paid_transaction_evidence), so they go to review.
ApplyOrderResult(ord, answer) ==
  IF answer.status # "PAID" THEN ord
  ELSE IF answer.amount # Price \/ ~answer.single THEN MarkReview(ord)
  ELSE IF OnTime(ord, answer) THEN Activate(RecordPaid(ord))
  ELSE MarkReview(RecordPaid(ord))

\* apply_verified: the amount signed in the webhook is compared as well.
ApplyVerified(ord, answer, signed) ==
  IF answer.status = "PAID" /\ signed # Price THEN MarkReview(ord)
  ELSE ApplyOrderResult(ord, answer)

\* The event ends in review when the order does, or when a refund blocks it.
EventOutcome(ord, answer, signed) ==
  LET after == ApplyVerified(ord, answer, signed) IN
  IF answer.status = "PAID" /\ (after.row # "applied" \/ after.refund \/ ~OnTime(ord, answer))
  THEN "review" ELSE "processed"

\* activate_order, called by the worker for an order that is paid and pending.
RetryActivationOf(ord) ==
  IF ord.activation = "applied" \/ ord.payment # "verified_paid" THEN ord ELSE Activate(ord)

=============================================================================
