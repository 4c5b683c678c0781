------------------------------ MODULE Billing -------------------------------
(***************************************************************************)
(* Orders, provider commands and the webhook inbox of backend/billing.     *)
(*                                                                         *)
(* No transaction is open during a call to the payment provider: a thread  *)
(* claims a command or an event in one transaction, calls the provider,    *)
(* and applies the answer in another one.  Threads are those of the        *)
(* billing worker (one that overruns run_blocking_io's timeout goes on     *)
(* beside the next), of HTTP requests that execute a command at once, and  *)
(* of other server processes.                                              *)
(*                                                                         *)
(* Time is abstract.  available_at and the lease of a claimed row may pass *)
(* at any moment, so a row that waits or is being processed can always be  *)
(* claimed; an order is overdue when checkout_expires_at has passed.       *)
(***************************************************************************)
EXTENDS BillingOrder, FiniteSets

CONSTANTS
  Orders,
  Threads,
  NoThread,
  MaxAttempts,    \* payment_provider_profiles.max_attempts
  Amounts,        \* amounts a buyer may transfer
  MaxTransfers    \* bound: transfers to one payment link

ASSUME BillingAssumption ==
  /\ IsFiniteSet(Orders) /\ IsFiniteSet(Threads) /\ NoThread \notin Threads
  /\ MaxAttempts \in Nat \ {0} /\ MaxTransfers \in Nat
  /\ Amounts \subseteq Nat \ {0}

VARIABLES
  orders,     \* billing_orders and the rows that hang on them
  commands,   \* billing_provider_commands, one per order and type
  events,     \* payment_webhook_events, one per transfer
  links,      \* the payment links of the provider (external)
  threads     \* what each thread has claimed and heard

billingVars == <<orders, commands, events, links, threads>>

CommandTypes == {"create_checkout", "cancel_checkout", "query_order"}
ActiveStates == {"pending", "processing", "retry"}
Failures == {"retryable", "fatal"}
EventKeys == Orders \X (1..MaxTransfers)

\* attempt_count grows without end; the code asks whether it is more than one
\* and whether it has reached MaxAttempts, so the model counts that far.
AttemptCap == IF MaxAttempts < 2 THEN 2 ELSE MaxAttempts

Command ==
  [status: {"absent", "completed", "dead"} \cup ActiveStates, attempts: 0..AttemptCap,
   lockedBy: Threads \cup {NoThread}]
Event ==
  [status: {"absent", "processed", "review", "dead"} \cup ActiveStates,
   attempts: 0..AttemptCap]
Link ==
  [state: {"none", "active", "CANCELLED", "EXPIRED"},
   transfers: [1..MaxTransfers -> [amount: {0} \cup Amounts, late: BOOLEAN]],
   count: 0..MaxTransfers, received: Nat]

NoCommand == [status |-> "absent", attempts |-> 0, lockedBy |-> NoThread]
NoEvent == [status |-> "absent", attempts |-> 0]
NoLink ==
  [state |-> "none",
   transfers |-> [k \in 1..MaxTransfers |-> [amount |-> 0, late |-> FALSE]],
   count |-> 0, received |-> 0]

\* A failed call is an answer as well.
Said(status) == [status |-> status, amount |-> 0, single |-> FALSE, late |-> FALSE]
Heard == Answer \cup {Said(status) : status \in Failures \cup {"nothing"}}

Idle == [job |-> "idle"]
Work ==
  [job: {"claimed", "answered"}, type: CommandTypes \cup {"webhook"}, order: Orders,
   transfer: 0..MaxTransfers, attempt: 1..AttemptCap, answer: Heard]

BillingTypeOK ==
  /\ orders \in [Orders -> OrderRow]
  /\ commands \in [Orders -> [CommandTypes -> Command]]
  /\ events \in [EventKeys -> Event]
  /\ links \in [Orders -> Link]
  /\ threads \in [Threads -> {Idle} \cup Work]

Init ==
  /\ orders = [o \in Orders |-> NoOrder]
  /\ commands = [o \in Orders |-> [c \in CommandTypes |-> NoCommand]]
  /\ events = [e \in EventKeys |-> NoEvent]
  /\ links = [o \in Orders |-> NoLink]
  /\ threads = [t \in Threads |-> Idle]

-----------------------------------------------------------------------------
(***************************************************************************)
(* The provider (external).                                                *)
(***************************************************************************)

\* get_payment and the evidence it projects.
ReadLink(link) ==
  [status |-> IF link.received >= Price THEN "PAID"
              ELSE IF link.state \in {"CANCELLED", "EXPIRED"} THEN link.state
              ELSE IF link.received > 0 THEN "UNDERPAID" ELSE "PENDING",
   amount |-> link.received,
   single |-> link.count = 1,
   late |-> link.count = 1 /\ link.transfers[1].late]

\* The link with one more transfer.
Receive(link, transfer) ==
  [link EXCEPT !.transfers = [@ EXCEPT ![link.count + 1] = transfer],
               !.count = @ + 1, !.received = @ + transfer.amount]

\* The buyer pays, in time or not.
Transfer(o, amount) ==
  /\ links[o].state = "active"
  /\ links[o].count < MaxTransfers
  /\ links' = [links EXCEPT ![o] =
                 Receive(@, [amount |-> amount, late |-> orders[o].overdue])]
  /\ UNCHANGED <<orders, commands, events, threads>>

\* The link passes its expiredAt.
LinkExpires(o) ==
  /\ links[o].state = "active" /\ orders[o].overdue /\ links[o].received = 0
  /\ links' = [links EXCEPT ![o].state = "EXPIRED"]
  /\ UNCHANGED <<orders, commands, events, threads>>

-----------------------------------------------------------------------------
(***************************************************************************)
(* Requests of buyers and administrators.                                  *)
(***************************************************************************)

Queued == [status |-> "pending", attempts |-> 0, lockedBy |-> NoThread]
Requeue(cmd) == [cmd EXCEPT !.status = "pending", !.lockedBy = NoThread]

\* create_checkout: the order and its command in one transaction.
CreateCheckout(o) ==
  /\ orders[o].checkout = "absent"
  /\ orders' = [orders EXCEPT ![o].checkout = "creating"]
  /\ commands' = [commands EXCEPT ![o]["create_checkout"] = Queued]
  /\ UNCHANGED <<events, links, threads>>

\* request_cancel: a dead cancellation is taken up again with its attempts.
RequestCancel(o) ==
  LET cancel == commands[o]["cancel_checkout"] IN
  /\ orders[o].checkout \in {"creating", "open"}
  /\ orders[o].payment = "unverified"
  /\ \/ cancel.status = "absent"
     \/ cancel.status = "dead"
  /\ commands' = [commands EXCEPT ![o]["cancel_checkout"] =
       IF @.status = "absent" THEN Queued ELSE Requeue(@)]
  /\ UNCHANGED <<orders, events, links, threads>>

\* create_manual_refund_intent.
RequestRefund(o) ==
  /\ orders[o].payment = "verified_paid" /\ ~orders[o].refund
  /\ orders' = [orders EXCEPT ![o].refund = TRUE]
  /\ UNCHANGED <<commands, events, links, threads>>

\* An administrator sets an order aside: the activation row is not touched.
AdminReview(o) ==
  /\ orders[o].checkout # "absent"
  /\ orders' = [orders EXCEPT ![o].activation = "review_required"]
  /\ UNCHANGED <<commands, events, links, threads>>

\* An administrator has the provider queried again.
AdminQuery(o) ==
  LET query == commands[o]["query_order"] IN
  /\ orders[o].checkout # "absent"
  /\ query.status \notin {"pending", "processing"}
  /\ commands' = [commands EXCEPT ![o]["query_order"] =
       IF @.status = "absent" THEN Queued ELSE Requeue(@)]
  /\ UNCHANGED <<orders, events, links, threads>>

\* The owner is suspended or reinstated, the base subscription ends or begins.
ChangeEligibility(o) ==
  /\ orders' = [orders EXCEPT ![o].eligible = ~@]
  /\ UNCHANGED <<commands, events, links, threads>>

\* The webhook of a transfer arrives; a repeated delivery inserts nothing (one
\* with another payload inserts a row in review, which nobody ever claims).
DeliverWebhook(e) ==
  /\ e[2] <= links[e[1]].count
  /\ events[e].status = "absent"
  /\ events' = [events EXCEPT ![e] = [status |-> "pending", attempts |-> 0]]
  /\ UNCHANGED <<orders, commands, links, threads>>

-----------------------------------------------------------------------------
(***************************************************************************)
(* Claiming and calling.                                                   *)
(***************************************************************************)

\* The cancellation of an order waits for its creation to end.
Claimable(o, type) ==
  LET cmd == commands[o][type] IN
  /\ cmd.status \in ActiveStates
  /\ type = "cancel_checkout" => commands[o]["create_checkout"].status \notin ActiveStates

NextAttempt(attempts) == IF attempts < AttemptCap THEN attempts + 1 ELSE attempts

\* _claim: a fresh lock token for every claim.
ClaimCommand(t, o, type) ==
  LET attempt == NextAttempt(commands[o][type].attempts) IN
  /\ threads[t] = Idle
  /\ Claimable(o, type)
  /\ commands' = [commands EXCEPT ![o][type] =
       [status |-> "processing", attempts |-> attempt, lockedBy |-> t]]
  /\ threads' = [threads EXCEPT ![t] =
       [job |-> "claimed", type |-> type, order |-> o, transfer |-> 0,
        attempt |-> attempt, answer |-> Said("nothing")]]
  /\ UNCHANGED <<orders, events, links>>

\* _claim_webhook: the event is locked in the name of the worker, which all
\* threads of a process share.
ClaimWebhook(t, e) ==
  /\ threads[t] = Idle
  /\ events[e].status \in ActiveStates
  /\ events' = [events EXCEPT ![e] =
       [status |-> "processing", attempts |-> NextAttempt(@.attempts)]]
  /\ threads' = [threads EXCEPT ![t] =
       [job |-> "claimed", type |-> "webhook", order |-> e[1], transfer |-> e[2],
        attempt |-> NextAttempt(events[e].attempts), answer |-> Said("nothing")]]
  /\ UNCHANGED <<orders, commands, links>>

\* What the call of a claimed job does to the link.  A repeated creation or
\* cancellation asks first: create never runs twice, cancel only if the link
\* is still open.
LinkAfter(work) ==
  LET link == links[work.order] IN
  IF work.type = "create_checkout" /\ work.attempt = 1
  THEN [link EXCEPT !.state = "active"]
  ELSE IF work.type = "cancel_checkout" /\ link.state = "active" /\ link.received < Price
  THEN [link EXCEPT !.state = "CANCELLED"]
  ELSE link

\* The provider refuses to read or cancel what is not there.
CallRefused(work) ==
  LET link == links[work.order] IN
  \/ ~(work.type = "create_checkout" /\ work.attempt = 1) /\ link.state = "none"
  \/ work.type = "cancel_checkout" /\ work.attempt = 1 /\ LinkAfter(work) = link

\* The call reaches the provider, and its answer arrives or is lost.
CallProvider(t) ==
  LET work == threads[t]
      link == LinkAfter(work)
  IN /\ work.job = "claimed"
     /\ links' = [links EXCEPT ![work.order] = link]
     /\ \E answer \in IF CallRefused(work) THEN {Said("fatal")} ELSE {ReadLink(link), Said("retryable")} :
          threads' = [threads EXCEPT ![t].job = "answered", ![t].answer = answer]
     /\ UNCHANGED <<orders, commands, events>>

\* The call fails on the way, or the credentials are not available.
CallFails(t, failure) ==
  /\ threads[t].job = "claimed"
  /\ threads' = [threads EXCEPT ![t].job = "answered", ![t].answer = Said(failure)]
  /\ UNCHANGED <<orders, commands, events, links>>

\* The process stops: the claim stays until its lease is over.
ThreadDies(t) ==
  /\ threads[t] # Idle
  /\ threads' = [threads EXCEPT ![t] = Idle]
  /\ UNCHANGED <<orders, commands, events, links>>

-----------------------------------------------------------------------------
(***************************************************************************)
(* Applying what the provider said.                                        *)
(***************************************************************************)

\* Mutant: the lock token is not compared.
OwnsAnyClaim(t) ==
  LET work == threads[t] IN commands[work.order][work.type].status # "absent"

\* _lock_owner_order_command: the claim is still this thread's.
OwnsClaim(t) ==
  LET cmd == commands[threads[t].order][threads[t].type] IN
  cmd.status = "processing" /\ cmd.lockedBy = t

\* Mutant: a cancellation that got an answer is a cancelled checkout.
CheckoutIsCommand(checkout, type, status) ==
  IF type = "cancel_checkout" THEN "cancelled"
  ELSE IF status = "EXPIRED" THEN "expired"
  ELSE IF type = "create_checkout" /\ checkout \notin {"cancelled", "expired"} THEN "open"
  ELSE checkout

\* The checkout state after a provider status.
CheckoutAfter(checkout, type, status) ==
  IF status = "CANCELLED" THEN "cancelled"
  ELSE IF status = "EXPIRED" THEN "expired"
  ELSE IF type = "create_checkout" /\ checkout \notin {"cancelled", "expired"} THEN "open"
  ELSE checkout

\* keep_reconciling: an open order is queried again until its deadline.
KeepReconciling(o, type, answer) ==
  /\ type = "query_order"
  /\ answer.status \in {"PENDING", "UNDERPAID"}
  /\ ~orders[o].overdue

\* _complete: order, payment, activation and command in one transaction.
Complete(t) ==
  LET work == threads[t]
      o == work.order
      seen == [orders[o] EXCEPT
                 !.checkout = CheckoutAfter(@, work.type, work.answer.status)]
  IN /\ work.job = "answered" /\ work.type # "webhook"
     /\ work.answer.status \notin Failures
     /\ IF OwnsClaim(t)
        THEN /\ orders' = [orders EXCEPT ![o] = ApplyOrderResult(seen, work.answer)]
             /\ commands' = [commands EXCEPT ![o][work.type] =
                  IF KeepReconciling(o, work.type, work.answer)
                  THEN [NoCommand EXCEPT !.status = "pending"]
                  ELSE [NoCommand EXCEPT !.status = "completed", !.attempts = work.attempt]]
        ELSE UNCHANGED <<orders, commands>>
     /\ threads' = [threads EXCEPT ![t] = Idle]
     /\ UNCHANGED <<events, links>>

\* Retry while the failure allows it and attempts are left.
MayRetry(work) == work.answer.status = "retryable" /\ work.attempt < MaxAttempts

\* Mutant: a query whose attempts are used up is given up like the others.
GiveUpQueries(work) ==
  [NoCommand EXCEPT !.status = IF MayRetry(work) THEN "retry" ELSE "dead",
                    !.attempts = work.attempt]

\* Mutant: the attempts are not counted.
RetryForEver(work) ==
  [NoCommand EXCEPT !.status = IF work.answer.status = "retryable" THEN "retry" ELSE "dead",
                    !.attempts = work.attempt]

\* Retry, give up, or for a query start a new cycle of attempts.
CommandAfterFailure(work) ==
  IF ~MayRetry(work) /\ work.type = "query_order"
  THEN [NoCommand EXCEPT !.status = "pending"]
  ELSE [NoCommand EXCEPT !.status = IF MayRetry(work) THEN "retry" ELSE "dead",
                         !.attempts = work.attempt]

\* _fail: a creation that is given up closes the checkout.
Fail(t) ==
  LET work == threads[t]
      o == work.order
      gaveUp == work.type = "create_checkout" /\ ~MayRetry(work)
  IN /\ work.job = "answered" /\ work.type # "webhook"
     /\ work.answer.status \in Failures
     /\ IF OwnsClaim(t)
        THEN /\ commands' = [commands EXCEPT ![o][work.type] = CommandAfterFailure(work)]
             /\ orders' = [orders EXCEPT ![o].checkout =
                  IF gaveUp /\ @ = "creating" THEN "create_failed" ELSE @]
        ELSE UNCHANGED <<orders, commands>>
     /\ threads' = [threads EXCEPT ![t] = Idle]
     /\ UNCHANGED <<events, links>>

\* The transaction of _complete or apply_verified rolls back.
CommitFails(t) ==
  /\ threads[t].job = "answered" /\ threads[t].answer.status \notin Failures
  /\ threads' = [threads EXCEPT ![t].answer = Said("retryable")]
  /\ UNCHANGED <<orders, commands, events, links>>

\* Mutant: a replayed event is applied to the order all the same.
EventIsSettledNever(e) == FALSE
EventIsSettled(e) == events[e].status \in {"processed", "dead"}

\* apply_verified: not fenced by the claim, only by the state of the event.
ApplyEvent(t) ==
  LET work == threads[t]
      o == work.order
      e == <<o, work.transfer>>
      signed == links[o].transfers[work.transfer].amount
  IN /\ work.job = "answered" /\ work.type = "webhook"
     /\ work.answer.status \notin Failures
     /\ IF EventIsSettled(e)
        THEN UNCHANGED <<orders, events>>
        ELSE /\ orders' = [orders EXCEPT ![o] = ApplyVerified(@, work.answer, signed)]
             /\ events' = [events EXCEPT ![e].status =
                             EventOutcome(orders[o], work.answer, signed)]
     /\ threads' = [threads EXCEPT ![t] = Idle]
     /\ UNCHANGED <<commands, links>>

\* Mutant: an event is retried whatever the failure and the attempts.
EventRetried(work) == "retry"
EventAfterFailure(work) == IF MayRetry(work) THEN "retry" ELSE "dead"

\* _fail_webhook: fenced by "status = processing AND locked_by = worker_id",
\* which a later claim of the same process satisfies as well.
FailEvent(t) ==
  LET work == threads[t]
      e == <<work.order, work.transfer>>
  IN /\ work.job = "answered" /\ work.type = "webhook"
     /\ work.answer.status \in Failures
     /\ events' = [events EXCEPT ![e].status =
          IF @ = "processing" THEN EventAfterFailure(work) ELSE @]
     /\ threads' = [threads EXCEPT ![t] = Idle]
     /\ UNCHANGED <<orders, commands, links>>

-----------------------------------------------------------------------------
(***************************************************************************)
(* The transactions of the worker that call nobody.                        *)
(***************************************************************************)

\* _next_paid_not_applied_order_id and _retry_activation.
AwaitsActivation(o) ==
  orders[o].payment = "verified_paid" /\ orders[o].activation = "pending" /\ ~orders[o].refund
RetryActivation(o) ==
  /\ AwaitsActivation(o)
  /\ orders' = [orders EXCEPT ![o] = RetryActivationOf(@)]
  /\ UNCHANGED <<commands, events, links, threads>>

\* _expire_local_checkout.
Expirable(o) ==
  /\ orders[o].payment = "unverified" /\ orders[o].checkout \in {"creating", "open"}
  /\ orders[o].overdue

\* Mutant: the UPDATE misses a checkout that was never opened.
ExpireOpenCheckout(o) ==
  /\ Expirable(o)
  /\ orders' = [orders EXCEPT ![o].checkout = IF @ = "open" THEN "expired" ELSE @]
  /\ UNCHANGED <<commands, events, links, threads>>

ExpireLocalCheckout(o) ==
  /\ Expirable(o)
  /\ orders' = [orders EXCEPT ![o].checkout = "expired"]
  /\ UNCHANGED <<commands, events, links, threads>>

\* _schedule_open_order_reconciliation.
Unreconciled(o) ==
  /\ orders[o].payment = "unverified"
  /\ orders[o].checkout \in {"creating", "open", "expired"}
  /\ \A type \in CommandTypes : commands[o][type].status \notin ActiveStates
  /\ commands[o]["query_order"].status = "absent"
ScheduleReconciliation(o) ==
  /\ Unreconciled(o)
  /\ commands' = [commands EXCEPT ![o]["query_order"] = Queued]
  /\ UNCHANGED <<orders, events, links, threads>>

\* The deadline of a checkout passes.
PassDeadline(o) ==
  /\ orders[o].checkout # "absent" /\ ~orders[o].overdue
  /\ orders' = [orders EXCEPT ![o].overdue = TRUE]
  /\ UNCHANGED <<commands, events, links, threads>>

-----------------------------------------------------------------------------
Requests(o) ==
  \/ CreateCheckout(o) \/ RequestCancel(o) \/ RequestRefund(o)
  \/ AdminReview(o) \/ AdminQuery(o) \/ ChangeEligibility(o)

Environment(o) ==
  \/ \E amount \in Amounts : Transfer(o, amount)
  \/ LinkExpires(o) \/ PassDeadline(o)

ThreadStep(t) ==
  \/ CallProvider(t) \/ \E failure \in Failures : CallFails(t, failure)
  \/ Complete(t) \/ Fail(t) \/ CommitFails(t) \/ ApplyEvent(t) \/ FailEvent(t)

Claims ==
  \/ \E t \in Threads, o \in Orders, type \in CommandTypes : ClaimCommand(t, o, type)
  \/ \E t \in Threads, e \in EventKeys : ClaimWebhook(t, e)

WorkerTransactions(o) ==
  RetryActivation(o) \/ ExpireLocalCheckout(o) \/ ScheduleReconciliation(o)

Next ==
  \/ \E o \in Orders : Requests(o) \/ Environment(o) \/ WorkerTransactions(o)
  \/ \E e \in EventKeys : DeliverWebhook(e)
  \/ \E t \in Threads : ThreadStep(t) \/ ThreadDies(t)
  \/ Claims

Spec == Init /\ [][Next]_billingVars

-----------------------------------------------------------------------------
(***************************************************************************)
(* Properties.                                                             *)
(***************************************************************************)

\* One order is activated at most once: whatever webhooks, queries, retries
\* and late threads apply, one grant of credits is issued for its item.
GrantedOnce == \A o \in Orders : orders[o].granted <= 1
\* So it is as long as no second transfer comes for the order.
PaidOnceGrantedOnce ==
  \A o \in Orders : links[o].count <= 1 => orders[o].granted <= 1

\* An activated order has its payment fact and its grant.
AppliedIsPaid ==
  \A o \in Orders : orders[o].activation = "applied" =>
    orders[o].payment = "verified_paid" /\ orders[o].granted > 0

\* Credits are granted only when the provider really holds one on-time transfer
\* of the exact price, however old the answer is that the grant rests on, and
\* not while a refund is pending.
GrantIsEarned ==
  [][\A o \in Orders : orders'[o].granted # orders[o].granted =>
       /\ links[o].transfers[1] = [amount |-> Price, late |-> FALSE]
       /\ ~orders[o].refund]_billingVars

\* A checkout that was cancelled, has expired or could not be created is never
\* offered for payment again, whichever thread finishes last.
ClosedStaysClosed ==
  [][\A o \in Orders : orders[o].checkout \in {"create_failed", "cancelled", "expired"} =>
       orders'[o].checkout \notin {"creating", "open"}]_billingVars

\* A checkout is shown as cancelled only when the provider takes no more money
\* for it.
CancelledAtProvider ==
  \A o \in Orders : orders[o].checkout = "cancelled" => links[o].state = "CANCELLED"

\* Missed-webhook reconciliation, once begun, goes on while the checkout is
\* open and undecided: failures never leave its query finished or dead.
ReconciliationGoesOn ==
  \A o \in Orders :
    /\ orders[o].checkout \in {"creating", "open"} /\ ~orders[o].overdue
    /\ orders[o].payment = "unverified" /\ orders[o].activation = "not_ready"
    => commands[o]["query_order"].status \in {"absent"} \cup ActiveStates

\* A webhook event that was processed or given up keeps that outcome, also
\* against threads whose lease on it ran out.
SettledEventIsFinal ==
  [][\A e \in EventKeys : events[e].status \in {"processed", "dead"} =>
       events'[e] = events[e]]_billingVars

\* "The unique query command gives an expired order one final provider read":
\* when that query has completed, no payment made in time is left unseen.
FinalReadSeesPayment ==
  \A o \in Orders :
    /\ orders[o].checkout = "expired" /\ orders[o].payment = "unverified"
    /\ orders[o].activation = "not_ready"
    /\ commands[o]["query_order"].status = "completed"
    => links[o].transfers[1] # [amount |-> Price, late |-> FALSE]

\* Every creation and every cancellation that was queued is completed or given
\* up in the end, and every webhook event settled.
CommandsAreSettled ==
  \A o \in Orders, type \in {"create_checkout", "cancel_checkout"} :
    commands[o][type].status \in ActiveStates
      ~> commands[o][type].status \in {"completed", "dead"}
EventsAreSettled ==
  \A e \in EventKeys :
    events[e].status \in ActiveStates ~> events[e].status \in {"processed", "review", "dead"}

=============================================================================
